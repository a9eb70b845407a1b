----------------------------- MODULE ByteStream -----------------------------
(***************************************************************************)
(* What a QUIC stream promises whoever listens to it (lib/h3/h3.js): the   *)
(* peer's bytes in order, each once, the end only after the last of them,  *)
(* or an error.                                                            *)
(***************************************************************************)
EXTENDS Naturals, Sequences

CONSTANT Size         \* the length of the peer's stream

VARIABLES
  delivered,          \* the positions emitted as data, in the order emitted
  ended,              \* end was emitted
  failed              \* error was emitted

Prefix(n) == [i \in 1 .. n |-> i]

Init == delivered = <<>> /\ ended = FALSE /\ failed = FALSE

Data ==
  /\ \E n \in Len(delivered) + 1 .. Size : delivered' = Prefix(n)
  /\ ended' \in {ended, Len(delivered') = Size}
  /\ UNCHANGED failed

End == Len(delivered) = Size /\ ended' = TRUE /\ UNCHANGED <<delivered, failed>>
Fail == failed' = TRUE /\ UNCHANGED <<delivered, ended>>

Next == Data \/ End \/ Fail
Spec == Init /\ [][Next]_<<delivered, ended, failed>>

=============================================================================
