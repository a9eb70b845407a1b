----------------------------- MODULE QuicStream -----------------------------
(***************************************************************************)
(* The receiving half of a QUIC stream (QuicStream in                      *)
(* lib/h3/connection.js).  STREAM frames arrive lost and repeated, in any  *)
(* order, cut differently each time, and are put together again.           *)
(*                                                                         *)
(* The peer is external: it cuts its stream of Size bytes as it likes and  *)
(* marks the end of the stream, and nothing else, with FIN.  _onData is    *)
(* one run of code: one step takes the frame in, and one for each frame    *)
(* that can be emitted follows, before anything else happens.              *)
(***************************************************************************)
EXTENDS Integers, FiniteSets, SequencesExt

CONSTANTS
  Size,          \* the length of the peer's stream
  MaxPending,    \* MAX_PENDING: bytes kept out of order
  MaxQueued      \* bound: frames kept out of order

ASSUME StreamAssumption ==
  Size \in Nat \ {0} /\ MaxPending \in Nat /\ MaxQueued \in Nat

VARIABLES
  recvOffset,    \* everything before it was emitted
  pending,       \* frames not emitted, ordered by offset
  pendingBytes,  \* _pendingBytes
  delivered,     \* the positions emitted as data
  ended,         \* end was emitted, and this.fin set
  failed         \* error was emitted

streamVars == <<recvOffset, pending, pendingBytes, delivered, ended, failed>>

Frames == {f \in [offset : 0 .. Size, len : 0 .. Size, fin : BOOLEAN] :
             /\ f.offset + f.len <= Size
             /\ f.fin => f.offset + f.len = Size
             /\ f.len > 0 \/ f.fin}

TypeOK ==
  /\ recvOffset \in 0 .. Size
  /\ pending \in Seq(Frames)
  /\ pendingBytes \in Nat
  /\ delivered \in Seq(1 .. Size)
  /\ ended \in BOOLEAN /\ failed \in BOOLEAN

Init ==
  /\ recvOffset = 0 /\ pending = <<>> /\ pendingBytes = 0
  /\ delivered = <<>> /\ ended = FALSE /\ failed = FALSE

\* Something is to be emitted: the loop of _onData goes on.
Emitting == pending # <<>> /\ Head(pending).offset <= recvOffset

\* Where push and sort put f: after the frames that do not start beyond it.
PlacesLast(f) == {Len(pending) + 1}
Places(f) == {p \in 1 .. Len(pending) + 1 :
                \A i \in 1 .. Len(pending) : i < p <=> pending[i].offset <= f.offset}

TooMuch(f) == pendingBytes + f.len > MaxPending

Receive(f) ==
  /\ ~Emitting /\ ~TooMuch(f)
  /\ Len(pending) < MaxQueued \/ f.offset <= recvOffset
  /\ \E p \in Places(f) : pending' = InsertAt(pending, p, f)
  /\ pendingBytes' = pendingBytes + f.len
  /\ UNCHANGED <<recvOffset, delivered, ended, failed>>

\* Too much is kept already: everything kept is dropped.
Overflow(f) ==
  /\ ~Emitting /\ TooMuch(f)
  /\ pending' = <<>> /\ pendingBytes' = 0 /\ failed' = TRUE
  /\ UNCHANGED <<recvOffset, delivered, ended>>

\* Bytes of a frame that were emitted before are skipped.
SkipNothing(f) == 0
Skip(f) == recvOffset - f.offset

\* The part of a frame that is emitted, and the offset after it.
Slice(f) == [i \in 1 .. f.len - Skip(f) |-> f.offset + Skip(f) + i]
After(f) == recvOffset + f.len - Skip(f)

Emit ==
  LET f == Head(pending)
  IN /\ Emitting
     /\ pending' = Tail(pending)
     /\ pendingBytes' = pendingBytes - f.len
     /\ IF Skip(f) >= f.len
        THEN UNCHANGED <<recvOffset, delivered>>
        ELSE recvOffset' = After(f) /\ delivered' = delivered \o Slice(f)
     /\ ended' = (ended \/ f.fin)
     /\ UNCHANGED failed

Next == (\E f \in Frames : Receive(f) \/ Overflow(f)) \/ Emit

Spec == Init /\ [][Next]_streamVars

-----------------------------------------------------------------------------
(* Properties.                                                             *)

\* The stream implements the promise of ByteStream (1013-1040).
Promise == INSTANCE ByteStream
InOrderOnce == Promise!Spec

\* Between two datagrams (1026-1039) no frame is kept that starts within what
\* was emitted, and _pendingBytes, which decides when the stream gives up, is
\* the number of bytes kept.
Kept(s) == UNION {{i} \X (1 .. s[i].len) : i \in 1 .. Len(s)}
NothingWithheld ==
  /\ ~Emitting => \A i \in 1 .. Len(pending) : pending[i].offset > recvOffset
  /\ pendingBytes = Cardinality(Kept(pending))
=============================================================================
