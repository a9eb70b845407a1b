------------------------ MODULE QuicConnectionProofs -----------------------
(***************************************************************************)
(* Theorems about a QUIC connection of the client, for every window, every *)
(* limit of the probe timer and any number of packets, faults and          *)
(* timeouts: the handshake is agreed on, the log of sent packets is sound, *)
(* no STREAM packet is forgotten, and the queue waits for a reason.        *)
(* At the end, the theorem about the established connection of QuicPath.   *)
(***************************************************************************)
EXTENDS QuicConnection, QuicPath, FiniteSetTheorems, SequenceTheorems,
        WellFoundedInduction, TLAPS

(* The server's TLS messages and the frames that bring them.               *)
ServerMessages == {"SH", "EE", "CT", "CV", "FIN"}
FrameTypes == {"ack", "crypto", "done", "close"}
AnyFrame ==
  [type : FrameTypes, largest : Int, first : Int, ranges : Seq([gap : Int, length : Int]),
   data : Seq(ServerMessages)]

(* The client's state and what it sends.                                   *)
Messages == {"CH", "SH", "EE", "CT", "CV", "FIN", "CFIN"}
Whats == {"CH", "CFIN", "data", "ping", "ack", "close"}
Errors == {"multiple Retry", "PTO limit", "connection_close"}
SentPackets == [epoch : Epochs, pn : Nat, what : Whats, token : BOOLEAN]
Connections ==
  [hsKeys : BOOLEAN, appKeys : BOOLEAN, transcript : Seq(Messages),
   buf : [Epochs -> Seq(ServerMessages)], pn : [Epochs -> Nat],
   sent : [Epochs -> Seq(Nat)], pto : BOOLEAN, tries : Nat, token : BOOLEAN,
   ready : BOOLEAN, errors : SUBSET Errors, closed : BOOLEAN,
   inflight : Int, cwnd : Nat \ {0}, ssthresh : Nat, old : SUBSET Nat,
   queue : Seq(Nat), out : Seq(SentPackets),
   recoveries : {0, 1}, lost : SUBSET Nat, data : SUBSET Nat, fired : Nat]

(* The server, and what it puts into a packet of an epoch: HANDSHAKE_DONE  *)
(* is 1-RTT and says that the server is done; a 1-RTT ACK names packets    *)
(* that the server has.                                                    *)
Servers == [retry : BOOLEAN, answered : BOOLEAN, done : BOOLEAN, got : SUBSET Nat]
Frames(e, sv) ==
  {f \in AnyFrame :
     /\ f.type = "done" => e = "oneRtt" /\ sv.done
     /\ f.type = "ack" /\ e = "oneRtt" => Acked(f) \subseteq sv.got}
Kinds == Epochs \cup {"retry"}
AnyPacket == [kind : Kinds, frames : Seq(AnyFrame)]
Packets(sv) == {p \in AnyPacket : p.frames \in Seq(Frames(p.kind, sv))}

(* What there may be to do of a datagram; keys are the 1-RTT keys.         *)
PacketItems(sv) == {Item("packet", p.kind, p) : p \in Packets(sv)}
FramesDue(keys, e, sv) == {f \in Frames(e, sv) : f.type = "done" => keys}
FrameItems(keys, e, sv) == {Item(f.type, e, f) : f \in FramesDue(keys, e, sv)}
NumberItems == {Item("acked", e, n) : e \in Epochs, n \in Nat}
MessageItems == {Item("message", e, m) : e \in Epochs, m \in ServerMessages}
EndItems == {Item(d, e, {}) : d \in {"acks", "ackEnd", "processed"}, e \in Epochs}
Items(keys, sv) ==
  PacketItems(sv) \cup (UNION {FrameItems(keys, e, sv) : e \in Epochs})
    \cup NumberItems \cup MessageItems \cup EndItems

TypesOK ==
  /\ c \in Connections /\ c.out = <<>> /\ toServer \in Seq(SentPackets)
  /\ s \in Servers /\ IsFiniteSet(s.got)
LinesOK == toClient \in Seq(Seq(Packets(s))) /\ work \in Seq(Items(c.appKeys, s))

(* With 1-RTT keys the transcript opens with what both ends agreed on.     *)
Opens(t) == Len(t) >= 7 /\ \A i \in 1 .. 7 : t[i] = Agreed[i]
Shaken ==
  /\ c.appKeys => Opens(c.transcript)
  /\ c.ready => c.appKeys /\ s.done

(* The 1-RTT log and the queue hold each packet once, and no packet twice; *)
(* bytesInFlight counts the log; before any recovery the queue waits for a *)
(* full window and nothing else.                                           *)
Pending(q) == ToSet(q.sent.oneRtt) \cup ToSet(q.queue)
Books(q) ==
  /\ IsInjective(q.sent.oneRtt) /\ IsInjective(q.queue)
  /\ ToSet(q.sent.oneRtt) \cap ToSet(q.queue) = {}
  /\ \A n \in Pending(q) : n < q.pn.oneRtt
  /\ q.inflight = Len(q.sent.oneRtt)
  /\ q.recoveries = 0 => q.old = {} /\ (q.queue # <<>> => q.inflight >= q.cwnd)

(* The timer runs while something is outstanding, and for nothing else;    *)
(* only while an ACK is worked off may it run for what is not there any    *)
(* more.                                                                   *)
Waits(q) == \E e \in Epochs : q.sent[e] # <<>>
Guarded(q) == ~q.closed /\ Waits(q) => q.pto
Acking == {"acked", "ackEnd"}
Timed == Guarded(c) /\ (c.pto => Waits(c) \/ (work # <<>> /\ Head(work).do \in Acking))

(* The packets an ACK names are worked off before anything else.  A 1-RTT  *)
(* packet among them is in the log, the server has it, and it is named     *)
(* once.                                                                   *)
InTurn(q) ==
  /\ \A j \in DOMAIN q : q[j].do \in Acking => \A i \in 1 .. j - 1 : q[i].do = "acked"
  /\ \A i \in DOMAIN q : q[i].do = "acked" => i + 1 \in DOMAIN q /\ q[i + 1].do \in Acking
Due(w) == w.do = "acked" /\ w.epoch = "oneRtt"
Expected(q, log, got) ==
  /\ \A i \in DOMAIN q : Due(q[i]) => q[i].it \in log \cap got
  /\ \A i, j \in DOMAIN q : Due(q[i]) /\ Due(q[j]) /\ q[i].it = q[j].it => i = j
Ordered == InTurn(work) /\ Expected(work, ToSet(c.sent.oneRtt), s.got)

Kept == c.data \subseteq Pending(c) \cup c.lost \cup s.got
Held == Books(c) /\ Timed /\ Ordered /\ Kept

IInv == TypesOK /\ LinesOK /\ Shaken /\ Held

-----------------------------------------------------------------------------
(* Sets of packet numbers, and sequences.                                  *)

NatLess == {x \in Nat \X Nat : x[1] < x[2]}

(* A set of naturals that is not empty has a least element.                *)
LEMMA LeastNatural ==
  ASSUME NEW T \in SUBSET Nat, T # {}
  PROVE  \E p \in T : \A q \in T : p <= q
<1>1. OpToRel(<, Nat) = NatLess
  BY DEF OpToRel, NatLess
<1>2. IsWellFoundedOn(NatLess, Nat)
  BY <1>1, NatLessThanWellFounded
<1>3. T \subseteq Nat
  OBVIOUS
<1>4. PICK p \in T : \A q \in T : ~(<<q, p>> \in NatLess)
  BY <1>2, <1>3, WFMin, Zenon
<1>5. ASSUME NEW q \in T
      PROVE  p <= q
  <2>1. p \in Nat /\ q \in Nat /\ ~(<<q, p>> \in NatLess)
    BY <1>4
  <2> QED BY <2>1 DEF NatLess
<1> QED BY <1>5

(* A set with 0 that is closed under the successor holds every natural.    *)
LEMMA NaturalsClosed ==
  ASSUME NEW T, 0 \in T, \A n \in Nat : n \in T => n + 1 \in T
  PROVE  \A n \in Nat : n \in T
<1> SUFFICES ASSUME NEW n \in Nat \ T
             PROVE  FALSE
  OBVIOUS
<1>1. PICK p \in Nat \ T : \A q \in Nat \ T : p <= q
  <2>1. Nat \ T \in SUBSET Nat /\ Nat \ T # {}
    OBVIOUS
  <2> QED BY <2>1, LeastNatural
<1>2. p # 0 /\ p - 1 \in Nat /\ p - 1 + 1 = p
  OBVIOUS
<1>3. p - 1 \in T
  BY <1>1, <1>2
<1> QED BY <1>2, <1>3

(* A function on 1 .. n is a sequence.                                     *)
LEMMA FunctionIsSeq ==
  ASSUME NEW S, NEW n \in Nat, NEW f \in [1 .. n -> S]
  PROVE  f \in Seq(S) /\ Len(f) = n /\ DOMAIN f = 1 .. n
OBVIOUS

(* The first m elements of a sequence, and what is left without them.      *)
LEMMA FirstProperties ==
  ASSUME NEW S, NEW q \in Seq(S), NEW m \in 0 .. Len(q)
  PROVE  LET a == SubSeq(q, 1, m)
         IN a \in Seq(S) /\ Len(a) = m /\ \A i \in 1 .. m : a[i] = q[i]
<1> DEFINE a == SubSeq(q, 1, m)
<1>1. Len(q) \in Nat /\ m \in Nat /\ m <= Len(q)
  BY LenProperties
<1>2. \A i \in 1 .. m : q[i] \in S
  BY <1>1, ElementOfSeq
<1> HIDE DEF a
<1>3. /\ a \in Seq(S)
      /\ Len(a) = IF 1 <= m THEN m - 1 + 1 ELSE 0
      /\ \A i \in 1 .. m - 1 + 1 : a[i] = q[1 + i - 1]
  BY <1>1, <1>2, SubSeqProperties DEF a
<1>4. a \in Seq(S) /\ Len(a) = m /\ \A i \in 1 .. m : a[i] = q[i]
  BY <1>1, <1>3
<1> QED BY <1>4 DEF a

(* What is left without the first m.                                       *)
LEMMA RestProperties ==
  ASSUME NEW S, NEW q \in Seq(S), NEW m \in 0 .. Len(q)
  PROVE  LET left == SubSeq(q, m + 1, Len(q))
         IN left \in Seq(S) /\ Len(left) = Len(q) - m /\ \A i \in 1 .. Len(q) - m : left[i] = q[m + i]
<1> DEFINE left == SubSeq(q, m + 1, Len(q))
<1>1. Len(q) \in Nat /\ m \in Nat /\ m <= Len(q)
  BY LenProperties
<1>2. \A i \in (m + 1) .. Len(q) : q[i] \in S
  BY <1>1, ElementOfSeq
<1> HIDE DEF left
<1>3. /\ left \in Seq(S)
      /\ Len(left) = IF m + 1 <= Len(q) THEN Len(q) - (m + 1) + 1 ELSE 0
      /\ \A i \in 1 .. Len(q) - (m + 1) + 1 : left[i] = q[m + 1 + i - 1]
  BY <1>1, <1>2, SubSeqProperties DEF left
<1>4. left \in Seq(S) /\ Len(left) = Len(q) - m
  BY <1>1, <1>3
<1>5. ASSUME NEW i \in 1 .. Len(q) - m
      PROVE  left[i] = q[m + i]
  <2>1. i \in 1 .. Len(q) - (m + 1) + 1 /\ m + 1 + i - 1 = m + i
    BY <1>1
  <2> QED BY <1>3, <2>1
<1> QED BY <1>4, <1>5 DEF left

(* A finite set of naturals has an element with any number of smaller      *)
(* ones.                                                                   *)
LEMMA RankExists ==
  ASSUME NEW S \in SUBSET Nat, IsFiniteSet(S), NEW k \in Nat, k < Cardinality(S)
  PROVE  \E n \in S : Cardinality({m \in S : m < n}) = k
<1> DEFINE Below(n) == {m \in S : m < n}
           R(j) == \E n \in S : Cardinality(Below(n)) = j
           T == {j \in Nat : j < Cardinality(S) => R(j)}
<1>0. Cardinality(S) \in Nat
  BY FS_CardinalityType
<1>1. 0 \in T
  <2> SUFFICES ASSUME 0 < Cardinality(S) PROVE R(0)
    OBVIOUS
  <2>1. S # {}
    BY FS_EmptySet
  <2>2. PICK n \in S : \A m \in S : n <= m
    BY <2>1, LeastNatural
  <2>3. Below(n) = {}
    <3> SUFFICES ASSUME NEW m \in S, m < n PROVE FALSE
      OBVIOUS
    <3>1. m \in Nat /\ n \in Nat /\ n <= m
      BY <2>2
    <3> QED BY <3>1
  <2>4. Cardinality({}) = 0
    BY FS_EmptySet
  <2> QED BY <2>3, <2>4
<1>2. ASSUME NEW j \in Nat, j \in T
      PROVE  j + 1 \in T
  <2> SUFFICES ASSUME j + 1 < Cardinality(S) PROVE R(j + 1)
    OBVIOUS
  <2>1. PICK n \in S : Cardinality(Below(n)) = j
    BY <1>0, <1>2
  <2> DEFINE B == Below(n) \cup {n}
             A == S \ B
  <2>2. IsFiniteSet(Below(n)) /\ n \notin Below(n)
    BY FS_Subset
  <2>3. IsFiniteSet(B) /\ Cardinality(B) = j + 1
    <3>1. Cardinality(Below(n) \cup {n}) = Cardinality(Below(n)) + 1 /\ IsFiniteSet(B)
      BY <2>2, FS_AddElement
    <3> QED BY <2>1, <3>1
  <2>4. A # {}
    <3> SUFFICES ASSUME A = {} PROVE FALSE
      OBVIOUS
    <3>1. S = B
      OBVIOUS
    <3> HIDE DEF B
    <3> QED BY <1>0, <2>3, <3>1
  <2>5. PICK p \in A : \A q \in A : p <= q
    <3>1. A \in SUBSET Nat
      OBVIOUS
    <3> HIDE DEF A
    <3> QED BY <2>4, <3>1, LeastNatural
  <2>6. Below(p) = B
    <3>1. p \in S /\ p \in Nat /\ n \in Nat /\ p > n
      OBVIOUS
    <3>2. ASSUME NEW m \in S, m < p PROVE m \in B
      <4>1. m \notin A
        BY <2>5, <3>1, <3>2
      <4> QED BY <4>1
    <3>3. ASSUME NEW m \in B PROVE m \in S /\ m < p
      BY <3>1
    <3> QED BY <3>2, <3>3
  <2> HIDE DEF B
  <2> QED BY <2>3, <2>6
<1> HIDE DEF T
<1>3. k \in T
  BY <1>1, <1>2, NaturalsClosed
<1> QED BY <1>3 DEF T

(* In order, every element of a finite set once.                           *)
LEMMA InOrderProperties ==
  ASSUME NEW S \in SUBSET Nat, IsFiniteSet(S)
  PROVE  /\ InOrder(S) \in Seq(S) /\ Len(InOrder(S)) = Cardinality(S)
         /\ Cardinality(S) \in Nat /\ DOMAIN InOrder(S) = 1 .. Cardinality(S)
         /\ \A i \in 1 .. Cardinality(S) : InOrder(S)[i] \in S
         /\ IsInjective(InOrder(S))
<1> DEFINE n == Cardinality(S)
           Rank(x) == Cardinality({m \in S : m < x})
           q == InOrder(S)
<1>1. n \in Nat
  BY FS_CardinalityType
<1>2. q = [i \in 1 .. n |-> CHOOSE x \in S : Rank(x) = i - 1]
  BY DEF InOrder
<1>3. ASSUME NEW i \in 1 .. n PROVE q[i] \in S /\ Rank(q[i]) = i - 1
  <2>1. i - 1 \in Nat /\ i - 1 < n
    BY <1>1
  <2>2. \E x \in S : Rank(x) = i - 1
    BY <2>1, RankExists
  <2>3. q[i] = CHOOSE x \in S : Rank(x) = i - 1
    BY <1>2
  <2> HIDE DEF q, Rank
  <2> QED BY <2>2, <2>3
<1> HIDE DEF q, Rank, n
<1>4. q \in [1 .. n -> S]
  BY <1>2, <1>3
<1>5. q \in Seq(S) /\ Len(q) = n /\ DOMAIN q = 1 .. n
  BY <1>1, <1>4, FunctionIsSeq
<1>6. IsInjective(q)
  <2> SUFFICES ASSUME NEW i \in 1 .. n, NEW j \in 1 .. n, q[i] = q[j] PROVE i = j
    BY <1>5 DEF IsInjective
  <2>1. i - 1 = j - 1
    BY <1>3
  <2> QED BY <1>1, <2>1
<1> QED BY <1>1, <1>3, <1>5, <1>6 DEF q, n

(* The outstanding packets that an ACK frame names, each once.             *)
LEMMA OutstandingProperties ==
  ASSUME NEW S, NEW log \in Seq(S), NEW acked
  PROVE  LET pns == Outstanding(log, acked)
         IN /\ pns \in Seq(S)
            /\ \A i \in 1 .. Len(pns) : pns[i] \in ToSet(log) \cap acked
            /\ IsInjective(log) => IsInjective(pns)
<1> DEFINE P == {i \in DOMAIN log : log[i] \in acked}
           at == InOrder(P)
           n == Cardinality(P)
           pns == Outstanding(log, acked)
<1>1. Len(log) \in Nat /\ DOMAIN log = 1 .. Len(log) /\ \A i \in 1 .. Len(log) : log[i] \in S
  BY LenProperties, ElementOfSeq
<1>2. P \in SUBSET Nat /\ IsFiniteSet(P)
  <2>1. IsFiniteSet(1 .. Len(log)) /\ P \subseteq 1 .. Len(log)
    BY <1>1, FS_Interval
  <2> QED BY <2>1, FS_Subset
<1>3. pns = [i \in DOMAIN at |-> log[at[i]]]
  BY DEF Outstanding
<1>4. /\ n \in Nat /\ DOMAIN at = 1 .. n /\ IsInjective(at)
      /\ \A i \in 1 .. n : at[i] \in P
  <2> HIDE DEF P
  <2> QED BY <1>2, InOrderProperties
<1> HIDE DEF at, n, pns
<1>5. \A i \in 1 .. n : at[i] \in 1 .. Len(log) /\ log[at[i]] \in acked
  BY <1>1, <1>4
<1> HIDE DEF P
<1>6. pns \in [1 .. n -> S]
  BY <1>1, <1>3, <1>4, <1>5
<1>7. pns \in Seq(S) /\ Len(pns) = n /\ DOMAIN pns = 1 .. n
  BY <1>4, <1>6, FunctionIsSeq
<1>8. \A i \in 1 .. n : pns[i] = log[at[i]]
  BY <1>3, <1>4
<1>9. \A i \in 1 .. n : pns[i] \in ToSet(log) \cap acked
  BY <1>1, <1>5, <1>8 DEF ToSet
<1>10. ASSUME IsInjective(log) PROVE IsInjective(pns)
  <2> SUFFICES ASSUME NEW i \in 1 .. n, NEW j \in 1 .. n, pns[i] = pns[j] PROVE i = j
    BY <1>7 DEF IsInjective
  <2>1. at[i] = at[j]
    BY <1>1, <1>5, <1>8, <1>10 DEF IsInjective
  <2> QED BY <1>4, <2>1 DEF IsInjective
<1> QED BY <1>7, <1>9, <1>10 DEF pns

(* One packet is taken out of a log.                                       *)
LEMMA RemoveFirstProperties ==
  ASSUME NEW S, NEW log \in Seq(S), NEW pn
  PROVE  LET left == RemoveFirst(log, pn)
         IN /\ left \in Seq(S)
            /\ pn \in ToSet(log) => Len(left) = Len(log) - 1
            /\ pn \notin ToSet(log) => left = log
            /\ IsInjective(log) => IsInjective(left) /\ ToSet(left) = ToSet(log) \ {pn}
<1> DEFINE left == RemoveFirst(log, pn)
           n == Len(log)
<1>1. n \in Nat /\ DOMAIN log = 1 .. n /\ \A i \in 1 .. n : log[i] \in S
  BY LenProperties, ElementOfSeq
<1>2. CASE pn \notin ToSet(log)
  <2>1. left = log
    BY <1>1, <1>2 DEF RemoveFirst, ToSet
  <2> QED BY <1>2, <2>1
<1>3. CASE pn \in ToSet(log)
  <2> DEFINE I == {i \in 1 .. n : log[i] = pn}
             k == Min(I)
             a == SubSeq(log, 1, k - 1)
             b == SubSeq(log, k + 1, n)
  <2>1. I # {} /\ I \in SUBSET Nat
    BY <1>1, <1>3 DEF ToSet
  <2>2. left = a \o b
    BY <2>1, <1>1 DEF RemoveFirst, RemoveAt, SelectInSeq
  <2>3. k \in I
    <3>1. \E p \in I : \A q \in I : p <= q
      BY <2>1, LeastNatural
    <3> HIDE DEF I
    <3> QED BY <3>1 DEF Min
  <2> HIDE DEF k
  <2>4. k \in 1 .. n /\ log[k] = pn
    BY <2>3
  <2> HIDE DEF I, left, n
  <2>5. /\ a \in Seq(S) /\ Len(a) = k - 1 /\ \A i \in 1 .. k - 1 : a[i] = log[i]
    <3>1. k - 1 \in 0 .. Len(log)
      BY <1>1, <2>4 DEF n
    <3> QED BY <3>1, FirstProperties
  <2>6. /\ b \in Seq(S) /\ Len(b) = n - k /\ \A i \in 1 .. n - k : b[i] = log[k + i]
    <3>1. k \in 0 .. Len(log)
      BY <1>1, <2>4 DEF n
    <3> QED BY <3>1, RestProperties DEF n
  <2> HIDE DEF a, b
  <2>7. /\ left \in Seq(S) /\ Len(left) = n - 1 /\ DOMAIN left = 1 .. n - 1
        /\ \A i \in 1 .. n - 1 : left[i] = IF i < k THEN log[i] ELSE log[i + 1]
    <3>1. /\ left \in Seq(S) /\ Len(left) = (k - 1) + (n - k)
          /\ \A i \in 1 .. (k - 1) + (n - k) : left[i] = IF i <= k - 1 THEN a[i] ELSE b[i - (k - 1)]
      <4> DEFINE la == k - 1
                 lb == n - k
      <4>1. Len(a) = la /\ Len(b) = lb
        BY <2>5, <2>6
      <4> HIDE DEF la, lb
      <4>2. /\ left \in Seq(S) /\ Len(left) = la + lb
            /\ \A i \in 1 .. la + lb : left[i] = IF i <= la THEN a[i] ELSE b[i - la]
        <5>1. /\ a \o b \in Seq(S) /\ Len(a \o b) = Len(a) + Len(b)
              /\ \A i \in 1 .. Len(a) + Len(b) : (a \o b)[i] = IF i <= Len(a) THEN a[i] ELSE b[i - Len(a)]
          BY <2>5, <2>6, ConcatProperties
        <5> QED BY <2>2, <4>1, <5>1
      <4> QED BY <4>2 DEF la, lb
    <3>2. (k - 1) + (n - k) = n - 1
      BY <1>1, <2>4
    <3>3. ASSUME NEW i \in 1 .. n - 1 PROVE left[i] = IF i < k THEN log[i] ELSE log[i + 1]
      <4>1. left[i] = IF i <= k - 1 THEN a[i] ELSE b[i - (k - 1)]
        BY <3>1, <3>2
      <4>2. CASE i < k
        <5>1. i <= k - 1 /\ i \in 1 .. k - 1
          BY <2>4, <4>2
        <5> QED BY <2>5, <4>1, <4>2, <5>1
      <4>3. CASE ~(i < k)
        <5>1. ~(i <= k - 1) /\ i - (k - 1) \in 1 .. n - k /\ k + (i - (k - 1)) = i + 1
          BY <1>1, <2>4, <4>3
        <5> QED BY <2>6, <4>1, <4>3, <5>1
      <4> QED BY <4>2, <4>3
    <3>4. n - 1 \in Nat
      BY <1>1, <2>4
    <3> QED BY <3>1, <3>2, <3>3, <3>4, LenProperties
  <2>8. ASSUME IsInjective(log)
        PROVE  IsInjective(left) /\ ToSet(left) = ToSet(log) \ {pn}
    <3> DEFINE p(i) == IF i < k THEN i ELSE i + 1
    <3>1. \A i \in 1 .. n - 1 : p(i) \in 1 .. n /\ p(i) # k /\ left[i] = log[p(i)]
      BY <1>1, <2>4, <2>7
    <3>2. \A i, j \in 1 .. n - 1 : p(i) = p(j) => i = j
      BY <1>1, <2>4
    <3>3. \A i \in 1 .. n : i # k => \E j \in 1 .. n - 1 : p(j) = i
      <4> SUFFICES ASSUME NEW i \in 1 .. n, i # k PROVE \E j \in 1 .. n - 1 : p(j) = i
        OBVIOUS
      <4>1. CASE i < k
        BY <1>1, <2>4, <4>1
      <4>2. CASE i > k
        <5>1. i - 1 \in 1 .. n - 1 /\ p(i - 1) = i
          BY <1>1, <2>4, <4>2
        <5> QED BY <5>1
      <4> QED BY <1>1, <2>4, <4>1, <4>2
    <3> HIDE DEF p
    <3>4. \A i, j \in 1 .. n : log[i] = log[j] => i = j
      BY <1>1, <2>8 DEF IsInjective
    <3>5. IsInjective(left)
      BY <2>7, <3>1, <3>2, <3>4 DEF IsInjective
    <3>6. ASSUME NEW x \in ToSet(left) PROVE x \in ToSet(log) \ {pn}
      <4>1. PICK i \in 1 .. n - 1 : x = left[i]
        BY <2>7 DEF ToSet
      <4>2. x = log[p(i)] /\ p(i) \in 1 .. n /\ x # pn
        BY <2>4, <3>1, <3>4, <4>1
      <4> QED BY <1>1, <4>2 DEF ToSet
    <3>7. ASSUME NEW x \in ToSet(log) \ {pn} PROVE x \in ToSet(left)
      <4>1. PICK i \in 1 .. n : x = log[i]
        BY <1>1 DEF ToSet
      <4>2. i # k
        BY <2>4, <4>1
      <4>3. PICK j \in 1 .. n - 1 : p(j) = i
        BY <3>3, <4>2
      <4> QED BY <2>7, <3>1, <4>1, <4>3 DEF ToSet
    <3> QED BY <3>5, <3>6, <3>7
  <2> QED BY <1>3, <2>7, <2>8 DEF left, n
<1> QED BY <1>2, <1>3 DEF left

(* A finite set of naturals that is not empty has a top.                   *)
LEMMA TopExists ==
  ASSUME NEW S \in SUBSET Nat, IsFiniteSet(S), S # {}
  PROVE  Tops(S) # {}
<1> DEFINE k == Cardinality(S) - 1
           Below(n) == {m \in S : m < n}
<1>1. k \in Nat /\ k < Cardinality(S) /\ Cardinality(S) = k + 1
  <2>1. Cardinality(S) \in Nat /\ Cardinality(S) # 0
    BY FS_CardinalityType, FS_EmptySet
  <2> QED BY <2>1
<1> HIDE DEF k
<1>2. PICK n \in S : Cardinality(Below(n)) = k
  BY <1>1, RankExists
<1>3. IsFiniteSet(Below(n)) /\ n \notin Below(n)
  BY FS_Subset
<1> DEFINE B == Below(n) \cup {n}
<1>4. Cardinality(B) = k + 1
  <2>1. Cardinality(Below(n) \cup {n}) = Cardinality(Below(n)) + 1
    BY <1>3, FS_AddElement
  <2> QED BY <1>2, <2>1
<1>5. B = S
  <2>1. B \in SUBSET S
    OBVIOUS
  <2> HIDE DEF B
  <2> QED BY <1>1, <1>4, <2>1, FS_Subset
<1>6. n + 1 \notin B
  OBVIOUS
<1> HIDE DEF B
<1> QED BY <1>5, <1>6 DEF Tops

(* A run of a set goes down from its top and stays within the set.         *)
LEMMA RunOfProperties ==
  ASSUME NEW S \in SUBSET Nat, NEW top \in S
  PROVE  RunOf(S, top) \in S /\ RunOf(S, top) .. top \subseteq S
<1> DEFINE Low == {b \in S : b <= top /\ b .. top \subseteq S}
           Run(b) == b <= top /\ b .. top \subseteq S /\ b - 1 \notin S
<1>1. top \in Low
  <2>1. \A x \in top .. top : x = top
    OBVIOUS
  <2> QED BY <2>1
<1>2. PICK b \in Low : \A x \in Low : b <= x
  <2>1. Low \in SUBSET Nat /\ Low # {}
    BY <1>1
  <2> HIDE DEF Low
  <2> QED BY <2>1, LeastNatural
<1>3. b - 1 \notin S
  <2> SUFFICES ASSUME b - 1 \in S PROVE FALSE
    OBVIOUS
  <2>1. b - 1 \in Nat /\ b \in Nat /\ top \in Nat /\ b - 1 <= top
    OBVIOUS
  <2>2. \A x \in b - 1 .. top : x = b - 1 \/ x \in b .. top
    BY <2>1
  <2>3. b - 1 \in Low
    BY <2>1, <2>2
  <2> QED BY <1>2, <2>1, <2>3
<1>4. \E x \in S : Run(x)
  BY <1>3
<1>5. RunOf(S, top) = CHOOSE x \in S : Run(x)
  BY DEF RunOf
<1>6. RunOf(S, top) \in S /\ Run(RunOf(S, top))
  <2> HIDE DEF Run
  <2> QED BY <1>4, <1>5
<1> QED BY <1>6

(* The lowest number of each interval of an ACK frame.                     *)
BottomStep(f, i, g) ==
  IF i = 0 THEN f.largest - f.first
  ELSE g[i - 1] - f.ranges[i].gap - 2 - f.ranges[i].length
IsBottoms(f, m, g) == g = [i \in 0 .. m |-> BottomStep(f, i, g)]

(* What an ACK frame names, with the bottoms of its intervals given.       *)
LEMMA AckedIs ==
  ASSUME NEW f, NEW m \in Nat, Len(f.ranges) = m, NEW b, IsBottoms(f, m, b)
  PROVE  Acked(f) = (b[0] .. f.largest)
                      \cup UNION {b[i] .. b[i] + f.ranges[i].length : i \in 1 .. m}
<1> DEFINE Is(g) == g = [i \in 0 .. Len(f.ranges) |-> BottomStep(f, i, g)]
           low == CHOOSE g : Is(g)
<1>0. b = [i \in 0 .. m |-> BottomStep(f, i, b)]
  BY DEF IsBottoms
<1>1. Is(b)
  BY <1>0
<1>2. Is(low)
  <2> HIDE DEF Is
  <2> QED BY <1>1, Zenon
<1>3. Acked(f) = (low[0] .. f.largest)
                   \cup UNION {low[i] .. low[i] + f.ranges[i].length : i \in 1 .. Len(f.ranges)}
  BY DEF Acked, BottomStep
<1>4. low = [i \in 0 .. m |-> BottomStep(f, i, low)]
  BY <1>2
<1> HIDE DEF low, Is
<1> DEFINE T == {i \in Nat : i <= m => low[i] = b[i]}
<1>5. 0 \in T
  <2>1. 0 \in 0 .. m
    OBVIOUS
  <2>2. low[0] = BottomStep(f, 0, low)
    BY <1>4, <2>1, ZenonT(60)
  <2>3. b[0] = BottomStep(f, 0, b)
    BY <1>0, <2>1, ZenonT(60)
  <2> QED BY <2>2, <2>3 DEF BottomStep
<1>6. ASSUME NEW i \in Nat, i \in T
      PROVE  i + 1 \in T
  <2> SUFFICES ASSUME i + 1 <= m PROVE low[i + 1] = b[i + 1]
    OBVIOUS
  <2>1. PICK k \in 0 .. m : k = i + 1 /\ k # 0 /\ k - 1 = i
    OBVIOUS
  <2>2. low[k] = BottomStep(f, k, low) /\ b[k] = BottomStep(f, k, b)
    BY <1>0, <1>4
  <2>3. low[k - 1] = b[k - 1]
    BY <1>6, <2>1
  <2>4. BottomStep(f, k, low) = BottomStep(f, k, b)
    BY <2>1, <2>3 DEF BottomStep
  <2> QED BY <2>1, <2>2, <2>4
<1> HIDE DEF T
<1>7. \A i \in Nat : i \in T
  BY <1>5, <1>6, NaturalsClosed
<1>8. \A i \in 0 .. m : low[i] = b[i]
  BY <1>7 DEF T
<1>9. low = b
  BY <1>0, <1>4, <1>8
<1> QED BY <1>3, <1>9

(* An ACK frame names packets of the set it was made for, and no other.    *)
LEMMA AckFrameProperties ==
  ASSUME NEW S \in SUBSET Nat, IsFiniteSet(S), S # {}
  PROVE  AckFrame(S) \in AnyFrame /\ AckFrame(S).type = "ack" /\ Acked(AckFrame(S)) \subseteq S
<1> DEFINE T == Tops(S)
           n == Cardinality(T)
           q == InOrder(T)
           tops == Reverse(q)
           bot(i) == RunOf(S, tops[i])
           range(i) == [gap |-> bot(i) - tops[i + 1] - 2, length |-> tops[i + 1] - bot(i + 1)]
           ranges == [i \in 1 .. Len(tops) - 1 |-> range(i)]
           f == AckFrame(S)
<1>1. T \in SUBSET Nat /\ IsFiniteSet(T) /\ T # {} /\ T \subseteq S
  <2>1. T \subseteq S
    BY DEF Tops
  <2> QED BY <2>1, TopExists, FS_Subset
<1>2. n \in Nat /\ n >= 1
  <2> HIDE DEF T
  <2> QED BY <1>1, FS_CardinalityType, FS_EmptySet
<1>3. q \in Seq(T) /\ Len(q) = n /\ DOMAIN q = 1 .. n /\ \A i \in 1 .. n : q[i] \in T
  <2> HIDE DEF T
  <2> QED BY <1>1, InOrderProperties
<1>5. f = [type |-> "ack", largest |-> tops[1], first |-> tops[1] - bot(1), ranges |-> ranges, data |-> <<>>]
  <2> DEFINE t1 == tops[1]
             b1 == tops[1] - bot(1)
  <2>1. f = [Frame("ack") EXCEPT !.largest = t1, !.first = b1, !.ranges = ranges]
    BY DEF AckFrame
  <2> HIDE DEF t1, b1, ranges, f
  <2>2. f = [type |-> "ack", largest |-> t1, first |-> b1, ranges |-> ranges, data |-> <<>>]
    BY <2>1 DEF Frame
  <2> QED BY <2>2 DEF t1, b1
<1> HIDE DEF q
<1>4. Len(tops) = n /\ DOMAIN tops = 1 .. n /\ \A i \in 1 .. n : tops[i] \in S /\ tops[i] \in Nat
  <2> HIDE DEF T, n
  <2>1. tops = [i \in 1 .. n |-> q[(n - i) + 1]]
    BY <1>3 DEF Reverse
  <2>2. \A i \in 1 .. n : (n - i) + 1 \in 1 .. n
    BY <1>2
  <2> HIDE DEF tops
  <2>3. tops \in [1 .. n -> T]
    BY <1>3, <2>1, <2>2
  <2>4. Len(tops) = n /\ DOMAIN tops = 1 .. n
    BY <1>2, <2>3, FunctionIsSeq
  <2> QED BY <1>1, <2>3, <2>4
<1> HIDE DEF tops, n, T
<1>6. \A i \in 1 .. n : bot(i) \in Nat /\ bot(i) .. tops[i] \subseteq S
  BY <1>4, RunOfProperties
<1> HIDE DEF bot
<1>7. 1 \in 1 .. n /\ n - 1 \in Nat /\ \A i \in 1 .. n - 1 : i \in 1 .. n /\ i + 1 \in 1 .. n
  BY <1>2
<1>8. \A i \in 1 .. n - 1 : range(i) \in [gap : Int, length : Int]
  <2> SUFFICES ASSUME NEW i \in 1 .. n - 1 PROVE range(i) \in [gap : Int, length : Int]
    OBVIOUS
  <2>1. /\ bot(i) \in Int /\ tops[i + 1] \in Int /\ bot(i + 1) \in Int
    BY <1>4, <1>6, <1>7
  <2>2. bot(i) - tops[i + 1] - 2 \in Int /\ tops[i + 1] - bot(i + 1) \in Int
    BY <2>1
  <2> QED BY <2>2
<1>9. ranges = [i \in 1 .. n - 1 |-> range(i)]
  BY <1>4
<1> HIDE DEF ranges
<1>10. ranges \in Seq([gap : Int, length : Int]) /\ Len(ranges) = n - 1
  <2> HIDE DEF range
  <2>1. ranges \in [1 .. n - 1 -> [gap : Int, length : Int]]
    BY <1>8, <1>9
  <2> QED BY <1>7, <2>1, FunctionIsSeq
<1>11. f \in AnyFrame /\ f.type = "ack"
  <2>1. tops[1] \in Int /\ bot(1) \in Int /\ tops[1] - bot(1) \in Int
    BY <1>4, <1>6, <1>7
  <2>2. <<>> \in Seq(ServerMessages) /\ "ack" \in FrameTypes
    BY DEF FrameTypes
  <2> HIDE DEF f
  <2> QED BY <1>5, <1>10, <2>1, <2>2 DEF AnyFrame
<1> HIDE DEF f
<1>12. /\ f.largest = tops[1] /\ f.first = tops[1] - bot(1) /\ Len(f.ranges) = n - 1
       /\ \A i \in 1 .. n - 1 : /\ f.ranges[i].gap = bot(i) - tops[i + 1] - 2
                                /\ f.ranges[i].length = tops[i + 1] - bot(i + 1)
  BY <1>5, <1>9, <1>10
<1> DEFINE b == [i \in 0 .. n - 1 |-> bot(i + 1)]
<1>13. b = [i \in 0 .. n - 1 |-> BottomStep(f, i, b)]
  <2>1. ASSUME NEW i \in 0 .. n - 1
        PROVE  bot(i + 1) = BottomStep(f, i, b)
    <3>1. CASE i = 0
      <4>1. tops[1] \in Int /\ bot(1) \in Int
        BY <1>4, <1>6, <1>7
      <4> QED BY <3>1, <4>1, <1>12 DEF BottomStep
    <3>2. CASE i # 0
      <4>1. i \in 1 .. n - 1 /\ i - 1 \in 0 .. n - 1 /\ (i - 1) + 1 = i
        BY <1>2, <3>2
      <4>2. b[i - 1] = bot(i)
        BY <4>1
      <4>3. bot(i) \in Int /\ tops[i + 1] \in Int /\ bot(i + 1) \in Int
        BY <1>4, <1>6, <1>7, <4>1
      <4>4. BottomStep(f, i, b) = bot(i) - (bot(i) - tops[i + 1] - 2) - 2 - (tops[i + 1] - bot(i + 1))
        BY <1>12, <3>2, <4>1, <4>2 DEF BottomStep
      <4> QED BY <4>3, <4>4
    <3> QED BY <3>1, <3>2
  <2> QED BY <2>1
<1>14. Acked(f) = (b[0] .. f.largest)
                    \cup UNION {b[i] .. b[i] + f.ranges[i].length : i \in 1 .. n - 1}
  <2> DEFINE m == n - 1
  <2>1. m \in Nat /\ Len(f.ranges) = m /\ IsBottoms(f, m, b)
    BY <1>7, <1>12, <1>13 DEF IsBottoms
  <2> HIDE DEF b, m
  <2>2. Acked(f) = (b[0] .. f.largest)
                     \cup UNION {b[i] .. b[i] + f.ranges[i].length : i \in 1 .. m}
    BY <2>1, AckedIs
  <2> QED BY <2>2 DEF m
<1>15. ASSUME NEW x \in Acked(f) PROVE x \in S
  <2>1. CASE x \in b[0] .. f.largest
    <3>1. b[0] = bot(1) /\ f.largest = tops[1]
      BY <1>2, <1>12
    <3> QED BY <1>6, <1>7, <2>1, <3>1
  <2>2. CASE x \in UNION {b[i] .. b[i] + f.ranges[i].length : i \in 1 .. n - 1}
    <3>1. PICK i \in 1 .. n - 1 : x \in b[i] .. b[i] + f.ranges[i].length
      BY <2>2
    <3>2. b[i] = bot(i + 1) /\ bot(i + 1) \in Int /\ tops[i + 1] \in Int /\ i + 1 \in 1 .. n
      BY <1>4, <1>6, <1>7
    <3>3. b[i] + f.ranges[i].length = tops[i + 1]
      BY <1>12, <3>2
    <3> QED BY <1>6, <3>1, <3>2, <3>3
  <2> QED BY <1>14, <1>15, <2>1, <2>2
<1> QED BY <1>11, <1>15 DEF f

(* A queue gives its first n packets to the log.                           *)
LEMMA MovedProperties ==
  ASSUME NEW log \in Seq(Nat), NEW queue \in Seq(Nat), NEW n \in 0 .. Len(queue),
         IsInjective(log), IsInjective(queue), ToSet(log) \cap ToSet(queue) = {}
  PROVE  LET all == log \o SubSeq(queue, 1, n)
             left == SubSeq(queue, n + 1, Len(queue))
         IN /\ all \in Seq(Nat) /\ left \in Seq(Nat)
            /\ Len(all) = Len(log) + n /\ Len(left) = Len(queue) - n
            /\ IsInjective(all) /\ IsInjective(left) /\ ToSet(all) \cap ToSet(left) = {}
            /\ ToSet(all) \cup ToSet(left) = ToSet(log) \cup ToSet(queue)
            /\ ToSet(log) \subseteq ToSet(all)
<1> DEFINE first == SubSeq(queue, 1, n)
           left == SubSeq(queue, n + 1, Len(queue))
           all == log \o first
           k == Len(log)
           m == Len(queue)
<1>1. /\ k \in Nat /\ m \in Nat /\ n \in Nat /\ n <= m
      /\ DOMAIN log = 1 .. k /\ DOMAIN queue = 1 .. m
  BY LenProperties
<1>2. first \in Seq(Nat) /\ Len(first) = n /\ \A i \in 1 .. n : first[i] = queue[i]
  BY FirstProperties
<1>3. left \in Seq(Nat) /\ Len(left) = m - n /\ \A i \in 1 .. m - n : left[i] = queue[n + i]
  BY RestProperties
<1> HIDE DEF first, left
<1>4. /\ all \in Seq(Nat) /\ Len(all) = k + n
      /\ \A i \in 1 .. k + n : all[i] = IF i <= k THEN log[i] ELSE first[i - k]
  BY ZenonT(60), <1>2, ConcatProperties
<1>5. DOMAIN all = 1 .. k + n /\ DOMAIN left = 1 .. m - n
  BY <1>3, <1>4, LenProperties
<1> HIDE DEF all, k, m
<1>6. \A i, j \in 1 .. k : log[i] = log[j] => i = j
  BY <1>1 DEF IsInjective
<1>7. \A i, j \in 1 .. m : queue[i] = queue[j] => i = j
  BY <1>1 DEF IsInjective
<1>8. \A i \in 1 .. k : \A j \in 1 .. m : log[i] # queue[j]
  BY <1>1 DEF ToSet
<1>9. \A i \in 1 .. k : i \in 1 .. k + n /\ all[i] = log[i]
  BY <1>1, <1>4
<1>10. \A i \in 1 .. n : k + i \in 1 .. k + n /\ i \in 1 .. m /\ all[k + i] = queue[i]
  <2> SUFFICES ASSUME NEW i \in 1 .. n
               PROVE  k + i \in 1 .. k + n /\ i \in 1 .. m /\ all[k + i] = queue[i]
    OBVIOUS
  <2>1. k + i \in 1 .. k + n /\ ~(k + i <= k) /\ (k + i) - k = i /\ i \in 1 .. m
    BY <1>1
  <2> QED BY <1>2, <1>4, <2>1
<1>11. \A i \in 1 .. k + n : i \in 1 .. k \/ (i - k \in 1 .. n /\ k + (i - k) = i)
  BY <1>1
<1>12. IsInjective(all)
  <2> SUFFICES ASSUME NEW i \in 1 .. k + n, NEW j \in 1 .. k + n, all[i] = all[j]
               PROVE  i = j
    BY <1>5 DEF IsInjective
  <2>1. CASE i \in 1 .. k /\ j \in 1 .. k
    BY <1>6, <1>9, <2>1
  <2>2. CASE i \notin 1 .. k /\ j \in 1 .. k
    <3>1. i - k \in 1 .. n /\ all[i] = queue[i - k] /\ i - k \in 1 .. m
      BY <1>10, <1>11, <2>2
    <3> QED BY <1>8, <1>9, <2>2, <3>1
  <2>3. CASE i \in 1 .. k /\ j \notin 1 .. k
    <3>1. j - k \in 1 .. n /\ all[j] = queue[j - k] /\ j - k \in 1 .. m
      BY <1>10, <1>11, <2>3
    <3> QED BY <1>8, <1>9, <2>3, <3>1
  <2>4. CASE i \notin 1 .. k /\ j \notin 1 .. k
    <3>1. i - k \in 1 .. n /\ all[i] = queue[i - k] /\ i - k \in 1 .. m
      BY <1>10, <1>11, <2>4
    <3>2. j - k \in 1 .. n /\ all[j] = queue[j - k] /\ j - k \in 1 .. m
      BY <1>10, <1>11, <2>4
    <3>3. i - k = j - k
      BY <1>7, <3>1, <3>2
    <3> QED BY <1>1, <3>3
  <2> QED BY <2>1, <2>2, <2>3, <2>4
<1>13. \A i \in 1 .. m - n : n + i \in 1 .. m /\ n + i > n /\ left[i] = queue[n + i]
  BY <1>1, <1>3
<1>14. IsInjective(left)
  <2> SUFFICES ASSUME NEW i \in 1 .. m - n, NEW j \in 1 .. m - n, left[i] = left[j]
               PROVE  i = j
    BY <1>5 DEF IsInjective
  <2>1. n + i = n + j
    BY <1>7, <1>13
  <2> QED BY <1>1, <2>1
<1>15. \A i \in 1 .. k + n : all[i] \in ToSet(log) \/ \E j \in 1 .. n : all[i] = queue[j]
  <2> SUFFICES ASSUME NEW i \in 1 .. k + n
               PROVE  all[i] \in ToSet(log) \/ \E j \in 1 .. n : all[i] = queue[j]
    OBVIOUS
  <2>1. CASE i \in 1 .. k
    BY <1>1, <1>9, <2>1 DEF ToSet
  <2>2. CASE i \notin 1 .. k
    <3>1. i - k \in 1 .. n /\ all[i] = queue[i - k]
      BY <1>10, <1>11, <2>2
    <3> QED BY <3>1
  <2> QED BY <2>1, <2>2
<1>16. ToSet(all) \cap ToSet(left) = {}
  <2> SUFFICES ASSUME NEW i \in 1 .. k + n, NEW j \in 1 .. m - n, all[i] = left[j] PROVE FALSE
    BY <1>5 DEF ToSet
  <2>1. n + j \in 1 .. m /\ n + j > n /\ left[j] = queue[n + j] /\ n + j \in DOMAIN queue
    BY <1>1, <1>13
  <2>2. left[j] \in ToSet(queue)
    BY <2>1 DEF ToSet
  <2>3. CASE \E h \in 1 .. n : all[i] = queue[h]
    <3>1. PICK h \in 1 .. n : all[i] = queue[h]
      BY <2>3
    <3>2. h \in 1 .. m /\ h # n + j
      BY SMTT(40), <1>1, <2>1
    <3> QED BY <1>7, <2>1, <3>1, <3>2
  <2> QED BY <1>15, <2>2, <2>3
<1>17. ToSet(log) \subseteq ToSet(all)
  BY <1>1, <1>5, <1>9 DEF ToSet
<1>18. ToSet(all) \cup ToSet(left) \subseteq ToSet(log) \cup ToSet(queue)
  <2>1. ASSUME NEW i \in 1 .. k + n PROVE all[i] \in ToSet(log) \cup ToSet(queue)
    <3>1. \A j \in 1 .. n : j \in DOMAIN queue
      BY <1>1
    <3> QED BY <1>15, <3>1 DEF ToSet
  <2>2. ASSUME NEW i \in 1 .. m - n PROVE left[i] \in ToSet(queue)
    BY <1>1, <1>13 DEF ToSet
  <2> QED BY <1>5, <2>1, <2>2 DEF ToSet
<1>19. ToSet(queue) \subseteq ToSet(all) \cup ToSet(left)
  <2> SUFFICES ASSUME NEW i \in 1 .. m PROVE queue[i] \in ToSet(all) \cup ToSet(left)
    BY <1>1 DEF ToSet
  <2>1. CASE i <= n
    <3>1. i \in 1 .. n
      BY <2>1
    <3>2. k + i \in 1 .. k + n /\ all[k + i] = queue[i]
      BY <1>10, <3>1
    <3> QED BY <1>5, <3>2 DEF ToSet
  <2>2. CASE i > n
    <3>1. i - n \in 1 .. m - n /\ n + (i - n) = i
      BY <1>1, <2>2
    <3>2. left[i - n] = queue[i]
      BY <1>13, <3>1
    <3> QED BY <1>5, <3>1, <3>2 DEF ToSet
  <2> QED BY <1>1, <2>1, <2>2
<1>20. ToSet(all) \cup ToSet(left) = ToSet(log) \cup ToSet(queue)
  BY <1>17, <1>18, <1>19
<1> QED BY <1>3, <1>4, <1>12, <1>14, <1>16, <1>17, <1>20 DEF all, left, first, k, m

(* A new packet at the end of a log.                                       *)
LEMMA AppendedProperties ==
  ASSUME NEW S, NEW log \in Seq(S), NEW x \in S
  PROVE  /\ Append(log, x) \in Seq(S) /\ Len(Append(log, x)) = Len(log) + 1
         /\ Append(log, x) # <<>>
         /\ ToSet(Append(log, x)) = ToSet(log) \cup {x}
         /\ (IsInjective(log) /\ x \notin ToSet(log)) => IsInjective(Append(log, x))
<1> DEFINE all == Append(log, x)
           k == Len(log)
<1>1. /\ k \in Nat /\ DOMAIN log = 1 .. k /\ all \in Seq(S) /\ Len(all) = k + 1
      /\ DOMAIN all = 1 .. k + 1
      /\ \A i \in 1 .. k : all[i] = log[i]
      /\ all[k + 1] = x
  OBVIOUS
<1> HIDE DEF all, k
<1>2. all # <<>>
  BY <1>1
<1>3. \A i \in 1 .. k + 1 : i = k + 1 \/ i \in 1 .. k
  BY <1>1
<1>4. \A i \in 1 .. k : i \in 1 .. k + 1
  BY <1>1
<1>5. k + 1 \in 1 .. k + 1
  BY <1>1
<1>6. ToSet(all) = ToSet(log) \cup {x}
  BY <1>1, <1>3, <1>4, <1>5 DEF ToSet
<1>7. IsInjective(log) /\ x \notin ToSet(log) => IsInjective(all)
  BY <1>1, <1>3, <1>4, <1>5 DEF ToSet, IsInjective
<1>8. /\ all \in Seq(S) /\ Len(all) = k + 1 /\ all # <<>>
      /\ ToSet(all) = ToSet(log) \cup {x}
      /\ IsInjective(log) /\ x \notin ToSet(log) => IsInjective(all)
  BY <1>1, <1>2, <1>6, <1>7
<1> QED BY <1>8 DEF all, k

(* A log without its oldest packet.                                        *)
LEMMA TailProperties ==
  ASSUME NEW S, NEW log \in Seq(S), log # <<>>
  PROVE  LET left == Tail(log)
         IN /\ left \in Seq(S) /\ Len(left) = Len(log) - 1 /\ Head(log) \in S
            /\ Head(log) \in ToSet(log)
            /\ ToSet(log) = ToSet(left) \cup {Head(log)}
            /\ IsInjective(log) => IsInjective(left) /\ Head(log) \notin ToSet(left)
<1> DEFINE left == Tail(log)
           k == Len(log)
<1>1. /\ k \in Nat /\ k >= 1 /\ DOMAIN log = 1 .. k /\ left \in Seq(S) /\ Len(left) = k - 1
      /\ DOMAIN left = 1 .. k - 1
      /\ \A i \in 1 .. k - 1 : left[i] = log[i + 1]
      /\ Head(log) = log[1] /\ Head(log) \in S
  OBVIOUS
<1> HIDE DEF left, k
<1>2. 1 \in 1 .. k /\ \A i \in 1 .. k - 1 : i + 1 \in 1 .. k /\ i + 1 # 1
  BY <1>1
<1>3. \A i \in 1 .. k : i = 1 \/ (i - 1 \in 1 .. k - 1 /\ (i - 1) + 1 = i)
  BY <1>1
<1>4. \A i \in 1 .. k : log[i] = Head(log) \/ log[i] \in ToSet(left)
  <2> SUFFICES ASSUME NEW i \in 1 .. k, i # 1 PROVE log[i] \in ToSet(left)
    BY <1>1
  <2>1. i - 1 \in DOMAIN left /\ left[i - 1] = log[i]
    BY <1>1, <1>3
  <2> QED BY <2>1 DEF ToSet
<1>5. ToSet(log) = ToSet(left) \cup {Head(log)}
  <2>1. ToSet(left) \cup {Head(log)} \subseteq ToSet(log)
    BY SMTT(40), <1>1, <1>2 DEF ToSet
  <2>2. ToSet(log) \subseteq ToSet(left) \cup {Head(log)}
    BY <1>1, <1>4 DEF ToSet
  <2> QED BY <2>1, <2>2
<1>6. ASSUME IsInjective(log) PROVE IsInjective(left) /\ Head(log) \notin ToSet(left)
  <2>1. \A i, j \in 1 .. k : log[i] = log[j] => i = j
    BY <1>1, <1>6 DEF IsInjective
  <2>2. \A i, j \in 1 .. k - 1 : left[i] = left[j] => i = j
    <3> SUFFICES ASSUME NEW i \in 1 .. k - 1, NEW j \in 1 .. k - 1, left[i] = left[j] PROVE i = j
      OBVIOUS
    <3>1. i + 1 = j + 1
      BY <1>1, <1>2, <2>1
    <3> QED BY <3>1
  <2>3. \A i \in 1 .. k - 1 : left[i] # log[1]
    BY <1>1, <1>2, <2>1
  <2> QED BY <1>1, <2>2, <2>3 DEF IsInjective, ToSet
<1> QED BY <1>1, <1>5, <1>6, <1>2 DEF left, k, ToSet

-----------------------------------------------------------------------------
(* The operators of the client: types, and what they leave alone.          *)


(* What a step may leave alone: the handshake, the books of the log, the   *)
(* timer.                                                                  *)
SameHandshake(q, p) == p.appKeys = q.appKeys /\ p.transcript = q.transcript /\ p.ready = q.ready
SameBooks(q, p) ==
  /\ p.inflight = q.inflight /\ p.cwnd = q.cwnd /\ p.old = q.old /\ p.queue = q.queue
  /\ p.recoveries = q.recoveries /\ p.lost = q.lost /\ p.data = q.data
SameTimer(q, p) == p.closed = q.closed /\ p.pto = q.pto

(* The three packet number spaces.                                         *)
LEMMA EpochsAre == "initial" \in Epochs /\ "handshake" \in Epochs /\ "oneRtt" \in Epochs
BY DEF Epochs

(* What is sent is a packet.                                               *)
LEMMA PacketTyped ==
  ASSUME NEW e \in Epochs, NEW n \in Nat, NEW what \in Whats, NEW token \in BOOLEAN
  PROVE  Sent(e, n, what, token) \in SentPackets
BY DEF Sent, SentPackets

(* A packet is built and goes out.                                         *)
LEMMA SendTyped ==
  ASSUME NEW q \in Connections, NEW e \in Epochs, NEW what \in Whats
  PROVE  LET p == Send(q, e, what)
         IN /\ p \in Connections /\ SameHandshake(q, p) /\ SameBooks(q, p) /\ SameTimer(q, p)
            /\ p.sent = q.sent /\ p.pn = [q.pn EXCEPT ![e] = @ + 1]
<1> DEFINE pns == [q.pn EXCEPT ![e] = @ + 1]
           out == IF q.closed \/ what \in Unanswered THEN q.out
                  ELSE Append(q.out, Sent(e, q.pn[e], what, q.token))
           p == Send(q, e, what)
<1>1. q.pn \in [Epochs -> Nat] /\ q.out \in Seq(SentPackets) /\ q.token \in BOOLEAN
  BY DEF Connections
<1>2. pns \in [Epochs -> Nat]
  BY <1>1
<1>3. out \in Seq(SentPackets)
  <2>1. Sent(e, q.pn[e], what, q.token) \in SentPackets
    BY <1>1, PacketTyped
  <2> QED BY <1>1, <2>1
<1>4. p = [q EXCEPT !.pn = pns, !.out = out]
  BY DEF Send, Connections
<1> HIDE DEF p, pns, out
<1>5. p \in Connections
  BY ZenonT(60), <1>2, <1>3, <1>4 DEF Connections
<1>6. /\ p.appKeys = q.appKeys /\ p.transcript = q.transcript /\ p.ready = q.ready
      /\ p.inflight = q.inflight /\ p.cwnd = q.cwnd /\ p.old = q.old /\ p.queue = q.queue
      /\ p.recoveries = q.recoveries /\ p.lost = q.lost /\ p.data = q.data
      /\ p.closed = q.closed /\ p.pto = q.pto /\ p.sent = q.sent /\ p.pn = pns
  BY <1>4 DEF Connections
<1> QED BY <1>5, <1>6 DEF SameHandshake, SameBooks, SameTimer, p, pns

(* The timer is set for what is outstanding.                               *)
LEMMA RearmTyped ==
  ASSUME NEW q \in Connections
  PROVE  LET p == Rearm(q)
         IN /\ p \in Connections /\ SameHandshake(q, p) /\ SameBooks(q, p)
            /\ p.sent = q.sent /\ p.pn = q.pn /\ p.closed = q.closed
            /\ p.pto <=> Waits(p)
<1> DEFINE p == Rearm(q)
<1>1. PICK v \in BOOLEAN : v = \E e \in Epochs : q.sent[e] # <<>>
  OBVIOUS
<1>2. p = [q EXCEPT !.pto = v]
  BY <1>1 DEF Rearm
<1> HIDE DEF p
<1>3. p \in Connections
  BY <1>2 DEF Connections
<1>4. /\ p.appKeys = q.appKeys /\ p.transcript = q.transcript /\ p.ready = q.ready
      /\ p.inflight = q.inflight /\ p.cwnd = q.cwnd /\ p.old = q.old /\ p.queue = q.queue
      /\ p.recoveries = q.recoveries /\ p.lost = q.lost /\ p.data = q.data
      /\ p.closed = q.closed /\ p.pto = v /\ p.sent = q.sent /\ p.pn = q.pn
  BY <1>2 DEF Connections
<1>5. p.pto <=> Waits(p)
  BY <1>1, <1>4, Zenon DEF Waits
<1> QED BY <1>3, <1>4, <1>5 DEF SameHandshake, SameBooks, p

Honest(q) == q.pto => Waits(q)

(* A step that leaves the 1-RTT log alone, and the timer as sound as it    *)
(* was.                                                                    *)
LogKept(q, p) ==
  /\ p \in Connections /\ SameBooks(q, p)
  /\ p.sent.oneRtt = q.sent.oneRtt /\ p.pn.oneRtt >= q.pn.oneRtt
  /\ Guarded(q) => Guarded(p)
  /\ Honest(q) => Honest(p)

(* A packet is built, logged for recovery and sent.                        *)
LEMMA LoggedTyped ==
  ASSUME NEW q \in Connections, NEW e \in Epochs, NEW what \in Whats
  PROVE  LET p == Logged(q, e, what)
         IN /\ p \in Connections /\ SameHandshake(q, p) /\ SameBooks(q, p)
            /\ p.sent = [q.sent EXCEPT ![e] = Append(@, q.pn[e])]
            /\ p.pn = [q.pn EXCEPT ![e] = @ + 1]
            /\ p.closed = q.closed /\ p.pto /\ Waits(p)
<1> DEFINE a == Send(q, e, what)
           sents == [q.sent EXCEPT ![e] = Append(@, q.pn[e])]
           b == [a EXCEPT !.sent = sents]
           p == Logged(q, e, what)
<1>1. /\ a \in Connections /\ SameHandshake(q, a) /\ SameBooks(q, a) /\ SameTimer(q, a)
      /\ a.sent = q.sent /\ a.pn = [q.pn EXCEPT ![e] = @ + 1]
  BY SendTyped
<1>2. q.sent \in [Epochs -> Seq(Nat)] /\ q.pn \in [Epochs -> Nat]
  BY DEF Connections
<1>3. sents \in [Epochs -> Seq(Nat)] /\ sents[e] # <<>>
  <2>1. q.sent[e] \in Seq(Nat) /\ q.pn[e] \in Nat
    BY <1>2
  <2>2. Append(q.sent[e], q.pn[e]) \in Seq(Nat) /\ Append(q.sent[e], q.pn[e]) # <<>>
    BY <2>1, AppendProperties
  <2> QED BY <1>2, <2>2
<1>4. p = Rearm(b)
  <2> HIDE DEF a
  <2>1. [a EXCEPT !.sent[e] = Append(@, q.pn[e])] = b
    BY <1>1 DEF Connections
  <2> QED BY <2>1 DEF Logged, a
<1> HIDE DEF a, sents
<1>5. b \in Connections
  BY <1>1, <1>3 DEF Connections
<1>6. /\ SameHandshake(q, b) /\ SameBooks(q, b) /\ b.closed = q.closed
      /\ b.sent = sents /\ b.pn = [q.pn EXCEPT ![e] = @ + 1]
  <2>1. /\ b.appKeys = a.appKeys /\ b.transcript = a.transcript /\ b.ready = a.ready
        /\ b.inflight = a.inflight /\ b.cwnd = a.cwnd /\ b.old = a.old /\ b.queue = a.queue
        /\ b.recoveries = a.recoveries /\ b.lost = a.lost /\ b.data = a.data
        /\ b.closed = a.closed /\ b.sent = sents /\ b.pn = a.pn
    BY <1>1 DEF Connections
  <2> HIDE DEF b
  <2> QED BY <1>1, <2>1 DEF SameHandshake, SameBooks, SameTimer
<1> HIDE DEF b, p
<1>7. /\ p \in Connections /\ SameHandshake(b, p) /\ SameBooks(b, p)
      /\ p.sent = b.sent /\ p.pn = b.pn /\ p.closed = b.closed
      /\ p.pto <=> Waits(p)
  BY <1>4, <1>5, RearmTyped
<1>8. Waits(p)
  BY <1>3, <1>6, <1>7 DEF Waits
<1>9. SameHandshake(q, p) /\ SameBooks(q, p)
  BY <1>6, <1>7 DEF SameHandshake, SameBooks
<1> QED BY <1>6, <1>7, <1>8, <1>9 DEF p, sents

(* Of the handshake epochs: the 1-RTT log is left alone, and the timer     *)
(* runs.                                                                   *)
LEMMA LoggedKept ==
  ASSUME NEW q \in Connections, NEW e \in Epochs, e # "oneRtt", NEW what \in Whats
  PROVE  LogKept(q, Logged(q, e, what)) /\ SameHandshake(q, Logged(q, e, what))
<1> DEFINE p == Logged(q, e, what)
<1>1. /\ p \in Connections /\ SameHandshake(q, p) /\ SameBooks(q, p)
      /\ p.sent = [q.sent EXCEPT ![e] = Append(@, q.pn[e])]
      /\ p.pn = [q.pn EXCEPT ![e] = @ + 1]
      /\ p.closed = q.closed /\ p.pto /\ Waits(p)
  BY LoggedTyped
<1> HIDE DEF p
<1>2. q.sent \in [Epochs -> Seq(Nat)] /\ q.pn \in [Epochs -> Nat]
  BY DEF Connections
<1>3. p.sent.oneRtt = q.sent.oneRtt /\ p.pn.oneRtt >= q.pn.oneRtt
  BY <1>1, <1>2, EpochsAre
<1> QED BY <1>1, <1>3 DEF LogKept, Guarded, Honest, p

(* Nothing changed that the log or the timer depends on.                   *)
LEMMA UntouchedKept ==
  ASSUME NEW q \in Connections, NEW p \in Connections, SameBooks(q, p), SameTimer(q, p),
         p.sent = q.sent, p.pn.oneRtt >= q.pn.oneRtt
  PROVE  LogKept(q, p)
BY DEF LogKept, SameTimer, Guarded, Honest, Waits

(* Nothing done keeps everything.                                          *)
LEMMA SelfKept ==
  ASSUME NEW q \in Connections
  PROVE  LogKept(q, q) /\ SameHandshake(q, q)
<1>1. q.pn.oneRtt \in Nat
  BY EpochsAre DEF Connections
<1> QED BY <1>1 DEF LogKept, SameBooks, SameHandshake

(* Two steps that keep the log keep it together.                           *)
LEMMA KeptTransitive ==
  ASSUME NEW q, NEW r, NEW p, q \in Connections, LogKept(q, r), LogKept(r, p)
  PROVE  LogKept(q, p)
<1>1. q.pn.oneRtt \in Nat /\ r.pn.oneRtt \in Nat /\ p.pn.oneRtt \in Nat
  BY EpochsAre DEF Connections, LogKept
<1>2. SameBooks(q, p)
  BY DEF LogKept, SameBooks
<1> QED BY <1>1, <1>2 DEF LogKept

(* A 1-RTT packet that nobody answers.                                     *)
LEMMA UnansweredKept ==
  ASSUME NEW q \in Connections, NEW what \in Whats
  PROVE  LogKept(q, Send(q, "oneRtt", what)) /\ SameHandshake(q, Send(q, "oneRtt", what))
<1> DEFINE p == Send(q, "oneRtt", what)
<1>1. /\ p \in Connections /\ SameHandshake(q, p) /\ SameBooks(q, p) /\ SameTimer(q, p)
      /\ p.sent = q.sent /\ p.pn = [q.pn EXCEPT !["oneRtt"] = @ + 1]
  BY EpochsAre, SendTyped
<1> HIDE DEF p
<1>2. q.pn \in [Epochs -> Nat]
  BY DEF Connections
<1>3. p.pn.oneRtt >= q.pn.oneRtt
  BY <1>1, <1>2, EpochsAre
<1> QED BY <1>1, <1>3, UntouchedKept DEF p

(* What a step leaves of the connection once its packets are on their way. *)
LEMMA Emptied ==
  ASSUME NEW q \in Connections
  PROVE  LET p == [q EXCEPT !.out = <<>>]
         IN /\ p \in Connections /\ p.out = <<>>
            /\ SameHandshake(q, p) /\ SameBooks(q, p) /\ SameTimer(q, p)
            /\ p.sent = q.sent /\ p.pn = q.pn /\ p.hsKeys = q.hsKeys
<1> DEFINE p == [q EXCEPT !.out = <<>>]
<1>1. p \in Connections
  <2>0. <<>> \in Seq(SentPackets)
    BY EmptySeq
  <2>1. PICK none \in Seq(SentPackets) : none = <<>>
    BY <2>0
  <2>2. p = [q EXCEPT !.out = none]
    BY <2>1
  <2> HIDE DEF p
  <2> QED BY ZenonT(60), <2>2 DEF Connections
<1>2. /\ p.appKeys = q.appKeys /\ p.transcript = q.transcript /\ p.ready = q.ready
      /\ p.inflight = q.inflight /\ p.cwnd = q.cwnd /\ p.old = q.old /\ p.queue = q.queue
      /\ p.recoveries = q.recoveries /\ p.lost = q.lost /\ p.data = q.data
      /\ p.closed = q.closed /\ p.pto = q.pto /\ p.sent = q.sent /\ p.pn = q.pn
      /\ p.out = <<>> /\ p.hsKeys = q.hsKeys
  BY DEF Connections
<1> HIDE DEF p
<1> QED BY <1>1, <1>2 DEF SameHandshake, SameBooks, SameTimer, p

(* CRYPTO data in the buffer of an epoch, or out of it.                    *)
LEMMA BufferKept ==
  ASSUME NEW q \in Connections, NEW e \in Epochs, NEW data \in Seq(ServerMessages)
  PROVE  LogKept(q, [q EXCEPT !.buf[e] = data]) /\ SameHandshake(q, [q EXCEPT !.buf[e] = data])
<1> DEFINE p == [q EXCEPT !.buf[e] = data]
<1>1. p \in Connections
  <2>1. q.buf \in [Epochs -> Seq(ServerMessages)]
    BY DEF Connections
  <2>2. PICK bufs \in [Epochs -> Seq(ServerMessages)] : bufs = [q.buf EXCEPT ![e] = data]
    BY <2>1
  <2>3. p = [q EXCEPT !.buf = bufs]
    BY <2>2 DEF Connections
  <2> HIDE DEF p
  <2> QED BY <2>3 DEF Connections
<1>2. /\ p.appKeys = q.appKeys /\ p.transcript = q.transcript /\ p.ready = q.ready
      /\ p.inflight = q.inflight /\ p.cwnd = q.cwnd /\ p.old = q.old /\ p.queue = q.queue
      /\ p.recoveries = q.recoveries /\ p.lost = q.lost /\ p.data = q.data
      /\ p.closed = q.closed /\ p.pto = q.pto /\ p.sent = q.sent /\ p.pn = q.pn
  BY DEF Connections
<1>3. q.pn.oneRtt \in Nat
  BY EpochsAre DEF Connections
<1> HIDE DEF p
<1>4. SameHandshake(q, p) /\ SameBooks(q, p) /\ SameTimer(q, p)
  BY <1>2 DEF SameHandshake, SameBooks, SameTimer
<1>5. p.pn.oneRtt >= q.pn.oneRtt
  BY <1>2, <1>3
<1> QED BY <1>1, <1>2, <1>4, <1>5, UntouchedKept DEF p

(* An error is noted.                                                      *)
LEMMA ErrorKept ==
  ASSUME NEW q \in Connections, NEW x \in Errors
  PROVE  LET p == [q EXCEPT !.errors = @ \cup {x}]
         IN LogKept(q, p) /\ SameHandshake(q, p)
<1> DEFINE p == [q EXCEPT !.errors = @ \cup {x}]
<1>1. p \in Connections
  <2>1. PICK errors \in SUBSET Errors : errors = q.errors \cup {x}
    BY DEF Connections
  <2>2. p = [q EXCEPT !.errors = errors]
    BY <2>1
  <2> HIDE DEF p
  <2> QED BY <2>2 DEF Connections
<1>2. /\ p.appKeys = q.appKeys /\ p.transcript = q.transcript /\ p.ready = q.ready
      /\ p.inflight = q.inflight /\ p.cwnd = q.cwnd /\ p.old = q.old /\ p.queue = q.queue
      /\ p.recoveries = q.recoveries /\ p.lost = q.lost /\ p.data = q.data
      /\ p.closed = q.closed /\ p.pto = q.pto /\ p.sent = q.sent /\ p.pn = q.pn
  BY DEF Connections
<1>3. q.pn.oneRtt \in Nat
  BY EpochsAre DEF Connections
<1> HIDE DEF p
<1>4. SameHandshake(q, p) /\ SameBooks(q, p) /\ SameTimer(q, p)
  BY <1>2 DEF SameHandshake, SameBooks, SameTimer
<1>5. p.pn.oneRtt >= q.pn.oneRtt
  BY <1>2, <1>3
<1> QED BY <1>1, <1>2, <1>4, <1>5, UntouchedKept DEF p

(* A Retry starts the connection over, once.                               *)
LEMMA RetryKept ==
  ASSUME NEW q \in Connections
  PROVE  LogKept(q, OnRetry(q)) /\ SameHandshake(q, OnRetry(q))
<1> DEFINE pns == [q.pn EXCEPT !["initial"] = 0]
           sents == [q.sent EXCEPT !["initial"] = <<>>]
           bufs == [q.buf EXCEPT !["initial"] = <<>>]
           a == [q EXCEPT !.tries = 1, !.token = TRUE, !.pn = pns, !.sent = sents, !.buf = bufs]
<1>1. /\ q.pn \in [Epochs -> Nat] /\ q.sent \in [Epochs -> Seq(Nat)]
      /\ q.buf \in [Epochs -> Seq(ServerMessages)]
  BY DEF Connections
<1>2. /\ pns \in [Epochs -> Nat] /\ sents \in [Epochs -> Seq(Nat)]
      /\ bufs \in [Epochs -> Seq(ServerMessages)]
      /\ pns.oneRtt = q.pn.oneRtt /\ sents.oneRtt = q.sent.oneRtt
  BY SMTT(40), <1>1, EpochsAre
<1>3. OnRetry(q) = IF q.tries > 0 THEN [q EXCEPT !.errors = @ \cup {"multiple Retry"}]
                   ELSE Logged(a, "initial", "CH")
  BY DEF OnRetry, Connections
<1> HIDE DEF pns, sents, bufs
<1>4. PICK yes \in BOOLEAN : yes = TRUE
  OBVIOUS
<1>5. a = [q EXCEPT !.tries = 1, !.token = yes, !.pn = pns, !.sent = sents, !.buf = bufs]
  BY <1>4
<1> HIDE DEF a
<1>6. a \in Connections
  BY ZenonT(60), <1>2, <1>5 DEF Connections
<1>7. /\ a.appKeys = q.appKeys /\ a.transcript = q.transcript /\ a.ready = q.ready
      /\ a.inflight = q.inflight /\ a.cwnd = q.cwnd /\ a.old = q.old /\ a.queue = q.queue
      /\ a.recoveries = q.recoveries /\ a.lost = q.lost /\ a.data = q.data
      /\ a.closed = q.closed /\ a.sent = sents /\ a.pn = pns
  BY <1>5 DEF Connections
<1>8. SameHandshake(q, a) /\ SameBooks(q, a)
  BY <1>7 DEF SameHandshake, SameBooks
<1> DEFINE p == Logged(a, "initial", "CH")
<1>9. LogKept(a, p) /\ SameHandshake(a, p) /\ p.pto /\ Waits(p)
  <2>1. "initial" # "oneRtt" /\ "CH" \in Whats /\ "initial" \in Epochs
    BY EpochsAre DEF Whats
  <2> QED BY <1>6, <2>1, LoggedKept, LoggedTyped
<1> HIDE DEF p
<1>10. LogKept(q, p) /\ SameHandshake(q, p)
  <2>1. SameHandshake(q, p) /\ SameBooks(q, p)
    BY <1>8, <1>9 DEF SameHandshake, SameBooks, LogKept
  <2>2. Guarded(p) /\ Honest(p)
    BY <1>9 DEF Guarded, Honest
  <2> QED BY <1>2, <1>7, <1>9, <2>1, <2>2 DEF LogKept
<1>11. "multiple Retry" \in Errors
  BY DEF Errors
<1>12. CASE q.tries > 0
  <2>1. OnRetry(q) = [q EXCEPT !.errors = @ \cup {"multiple Retry"}]
    BY <1>3, <1>12
  <2> QED BY <1>11, <2>1, ErrorKept
<1>13. CASE ~(q.tries > 0)
  <2>1. OnRetry(q) = p
    BY <1>3, <1>13 DEF p
  <2> QED BY <1>10, <2>1
<1> QED BY <1>12, <1>13

-----------------------------------------------------------------------------
(* The books: what a step does to the log and the queue.                   *)


(* The log and the queue hold packet numbers.                              *)
LEMMA PendingNumbers ==
  ASSUME NEW q \in Connections
  PROVE  Pending(q) \subseteq Nat /\ q.sent.oneRtt \in Seq(Nat) /\ q.queue \in Seq(Nat)
<1>1. q.sent.oneRtt \in Seq(Nat) /\ q.queue \in Seq(Nat)
  BY EpochsAre DEF Connections
<1>2. ToSet(q.sent.oneRtt) \subseteq Nat /\ ToSet(q.queue) \subseteq Nat
  BY SMTT(40), <1>1, ElementOfSeq, LenProperties DEF ToSet
<1> QED BY <1>1, <1>2 DEF Pending

(* The books are in order after a step that keeps the log.                 *)
LEMMA BooksKept ==
  ASSUME NEW q \in Connections, NEW p, LogKept(q, p), Books(q)
  PROVE  Books(p) /\ Pending(p) = Pending(q) /\ p.lost = q.lost /\ p.data = q.data
<1>1. q.pn.oneRtt \in Nat /\ p.pn.oneRtt \in Nat
  BY EpochsAre DEF LogKept, Connections
<1>2. Pending(p) = Pending(q)
  BY DEF LogKept, SameBooks, Pending
<1>3. \A n \in Pending(p) : n < p.pn.oneRtt
  BY <1>1, <1>2, PendingNumbers DEF Books, LogKept
<1> QED BY <1>2, <1>3 DEF Books, LogKept, SameBooks

(* The queue is drained as far as the window has room.                     *)
LEMMA DrainedTyped ==
  ASSUME NEW q \in Connections,
         IsInjective(q.sent.oneRtt), IsInjective(q.queue),
         ToSet(q.sent.oneRtt) \cap ToSet(q.queue) = {},
         q.inflight = Len(q.sent.oneRtt)
  PROVE  LET p == Drained(q)
         IN /\ p \in Connections /\ SameHandshake(q, p) /\ SameTimer(q, p)
            /\ p.old = q.old /\ p.recoveries = q.recoveries
            /\ p.lost = q.lost /\ p.data = q.data /\ p.pn = q.pn
            /\ \A e \in Epochs : e # "oneRtt" => p.sent[e] = q.sent[e]
            /\ IsInjective(p.sent.oneRtt) /\ IsInjective(p.queue)
            /\ ToSet(p.sent.oneRtt) \cap ToSet(p.queue) = {}
            /\ Pending(p) = Pending(q)
            /\ ToSet(q.sent.oneRtt) \subseteq ToSet(p.sent.oneRtt)
            /\ p.inflight = Len(p.sent.oneRtt)
            /\ p.queue # <<>> => p.inflight >= p.cwnd
<1> DEFINE log == q.sent.oneRtt
           m == Len(q.queue)
           room == q.cwnd - q.inflight
           n == IF room < 0 THEN 0 ELSE IF room < m THEN room ELSE m
           pns == SubSeq(q.queue, 1, n)
           all == log \o pns
           left == SubSeq(q.queue, n + 1, m)
           sents == [q.sent EXCEPT !["oneRtt"] = all]
           out == IF q.closed THEN q.out
                  ELSE q.out \o [i \in 1 .. n |-> Sent("oneRtt", pns[i], "data", q.token)]
           inflight == q.inflight + n
           p == Drained(q)
<1>1. /\ log \in Seq(Nat) /\ q.queue \in Seq(Nat) /\ q.sent \in [Epochs -> Seq(Nat)]
      /\ q.cwnd \in Nat /\ q.inflight \in Nat /\ m \in Nat /\ q.inflight = Len(log)
      /\ q.out \in Seq(SentPackets) /\ q.token \in BOOLEAN
  BY ZenonT(60), EpochsAre, LenProperties DEF Connections
<1>2. p = [q EXCEPT !.queue = left, !.inflight = inflight, !.sent = sents, !.out = out]
  BY DEF Drained, Connections
<1> HIDE DEF p
<1>3. n \in 0 .. m
  BY SMTT(40), <1>1
<1>4. n < m => inflight >= q.cwnd
  BY <1>1
<1>5. inflight \in Int
  BY SMTT(40), <1>1, <1>3
<1> HIDE DEF n, room
<1>6. /\ all \in Seq(Nat) /\ left \in Seq(Nat)
      /\ Len(all) = Len(log) + n /\ Len(left) = Len(q.queue) - n
      /\ IsInjective(all) /\ IsInjective(left) /\ ToSet(all) \cap ToSet(left) = {}
      /\ ToSet(all) \cup ToSet(left) = ToSet(log) \cup ToSet(q.queue)
      /\ ToSet(log) \subseteq ToSet(all)
  BY <1>1, <1>3, MovedProperties
<1>7. out \in Seq(SentPackets)
  <2> DEFINE more == [i \in 1 .. n |-> Sent("oneRtt", pns[i], "data", q.token)]
  <2>1. pns \in Seq(Nat) /\ Len(pns) = n
    BY SMTT(40), <1>1, <1>3, FirstProperties
  <2>2. \A i \in 1 .. n : pns[i] \in Nat
    BY <2>1, ElementOfSeq
  <2>3. "data" \in Whats /\ "oneRtt" \in Epochs
    BY EpochsAre DEF Whats
  <2> HIDE DEF pns
  <2>4. \A i \in 1 .. n : Sent("oneRtt", pns[i], "data", q.token) \in SentPackets
    BY <1>1, <2>2, <2>3, PacketTyped
  <2>5. more \in [1 .. n -> SentPackets] /\ n \in Nat
    BY <1>1, <1>3, <2>4
  <2> HIDE DEF more
  <2>6. more \in Seq(SentPackets)
    BY <2>5, FunctionIsSeq
  <2>7. q.out \o more \in Seq(SentPackets)
    BY <1>1, <2>6, ConcatProperties
  <2> QED BY <1>1, <2>7 DEF more
<1>8. sents \in [Epochs -> Seq(Nat)] /\ sents.oneRtt = all
      /\ \A e \in Epochs : e # "oneRtt" => sents[e] = q.sent[e]
  <2> HIDE DEF all
  <2> QED BY <1>1, <1>6, EpochsAre
<1> HIDE DEF out, sents, left, all, inflight
<1>9. p \in Connections
  BY ZenonT(60), <1>2, <1>5, <1>6, <1>7, <1>8 DEF Connections
<1>10. /\ p.appKeys = q.appKeys /\ p.transcript = q.transcript /\ p.ready = q.ready
       /\ p.inflight = inflight /\ p.cwnd = q.cwnd /\ p.old = q.old /\ p.queue = left
       /\ p.recoveries = q.recoveries /\ p.lost = q.lost /\ p.data = q.data
       /\ p.closed = q.closed /\ p.pto = q.pto /\ p.sent = sents /\ p.pn = q.pn
  BY <1>2 DEF Connections
<1>11. p.sent.oneRtt = all
  BY <1>8, <1>10
<1>12. p.inflight = Len(p.sent.oneRtt)
  BY <1>1, <1>6, <1>10, <1>11 DEF inflight
<1>13. p.queue # <<>> => p.inflight >= p.cwnd
  <2> SUFFICES ASSUME left # <<>> PROVE inflight >= q.cwnd
    BY <1>10
  <2>1. Len(left) # 0
    BY <1>6, EmptySeq
  <2>2. n < m
    BY <1>1, <1>3, <1>6, <2>1
  <2> QED BY <1>4, <2>2
<1>14. Pending(p) = Pending(q)
  BY <1>6, <1>10, <1>11 DEF Pending
<1>15. SameHandshake(q, p) /\ SameTimer(q, p)
  BY <1>10 DEF SameHandshake, SameTimer
<1> QED BY <1>6, <1>8, <1>9, <1>10, <1>11, <1>12, <1>13, <1>14, <1>15 DEF p

(* The window is never zero.                                               *)
LEMMA GrownTyped ==
  ASSUME NEW q \in Connections
  PROVE  Grown(q) \in Nat \ {0}
<1>1. q.cwnd \in Nat \ {0} /\ q.ssthresh \in Nat
  BY DEF Connections
<1>2. 1 \div q.cwnd \in Nat
  <2>1. CASE q.cwnd = 1
    BY <2>1
  <2>2. CASE q.cwnd # 1
    BY <1>1, <2>2
  <2> QED BY <2>1, <2>2
<1> QED BY <1>1, <1>2 DEF Grown

(* A packet of the handshake is acknowledged.                              *)
LEMMA AckOneHandshake ==
  ASSUME NEW q \in Connections, NEW e \in Epochs, e # "oneRtt", NEW pn
  PROVE  LET p == AckOne(q, e, pn)
         IN /\ p \in Connections /\ SameHandshake(q, p) /\ SameBooks(q, p)
            /\ p.sent.oneRtt = q.sent.oneRtt /\ p.pn = q.pn
            /\ Guarded(q) => Guarded(p)
<1> DEFINE left == RemoveFirst(q.sent[e], pn)
           sents == [q.sent EXCEPT ![e] = left]
           p == AckOne(q, e, pn)
<1>1. q.sent \in [Epochs -> Seq(Nat)] /\ q.sent[e] \in Seq(Nat)
  BY DEF Connections
<1>2. left \in Seq(Nat) /\ (left # <<>> => q.sent[e] # <<>>)
  <2>1. left \in Seq(Nat) /\ (pn \notin ToSet(q.sent[e]) => left = q.sent[e])
    BY <1>1, RemoveFirstProperties
  <2>2. q.sent[e] = <<>> => ToSet(q.sent[e]) = {}
    BY DEF ToSet
  <2> QED BY <2>1, <2>2
<1> HIDE DEF left
<1>3. /\ sents \in [Epochs -> Seq(Nat)] /\ sents.oneRtt = q.sent.oneRtt
      /\ \A x \in Epochs : sents[x] # <<>> => q.sent[x] # <<>>
  BY <1>1, <1>2, EpochsAre
<1>4. p = [q EXCEPT !.sent = sents]
  BY DEF AckOne, Connections, left
<1> HIDE DEF p, sents
<1>5. p \in Connections
  BY <1>3, <1>4 DEF Connections
<1>6. /\ p.appKeys = q.appKeys /\ p.transcript = q.transcript /\ p.ready = q.ready
      /\ p.inflight = q.inflight /\ p.cwnd = q.cwnd /\ p.old = q.old /\ p.queue = q.queue
      /\ p.recoveries = q.recoveries /\ p.lost = q.lost /\ p.data = q.data
      /\ p.closed = q.closed /\ p.pto = q.pto /\ p.sent = sents /\ p.pn = q.pn
  BY <1>4 DEF Connections
<1>7. Waits(p) => Waits(q)
  BY <1>3, <1>6 DEF Waits
<1>8. Guarded(q) => Guarded(p)
  BY <1>6, <1>7 DEF Guarded
<1> QED BY <1>3, <1>5, <1>6, <1>8 DEF SameHandshake, SameBooks, p

(* A 1-RTT packet is acknowledged: it leaves the log, and the queue moves. *)
LEMMA AckOneData ==
  ASSUME NEW q \in Connections, Books(q), NEW pn \in ToSet(q.sent.oneRtt)
  PROVE  LET p == AckOne(q, "oneRtt", pn)
         IN /\ p \in Connections /\ SameHandshake(q, p) /\ Books(p)
            /\ Guarded(q) => Guarded(p)
            /\ p.data = q.data /\ p.lost = q.lost
            /\ Pending(p) = Pending(q) \ {pn}
            /\ ToSet(q.sent.oneRtt) \ {pn} \subseteq ToSet(p.sent.oneRtt)
<1> DEFINE log == q.sent.oneRtt
           less == RemoveFirst(log, pn)
           sents == [q.sent EXCEPT !["oneRtt"] = less]
           inflight == q.inflight - 1
           old == q.old \ {pn}
           gone == [q EXCEPT !.sent = sents]
           left == [q EXCEPT !.sent = sents, !.inflight = inflight, !.old = old]
           grown == [q EXCEPT !.sent = sents, !.inflight = inflight, !.old = old,
                              !.cwnd = Grown(left)]
           p == AckOne(q, "oneRtt", pn)
<1>1. /\ q.sent \in [Epochs -> Seq(Nat)] /\ log \in Seq(Nat) /\ q.inflight \in Int
      /\ q.old \in SUBSET Nat
  BY EpochsAre DEF Connections
<1>2. /\ IsInjective(log) /\ IsInjective(q.queue) /\ ToSet(log) \cap ToSet(q.queue) = {}
      /\ q.inflight = Len(log) /\ \A n \in Pending(q) : n < q.pn.oneRtt
      /\ q.recoveries = 0 => q.old = {}
  BY DEF Books
<1>3. p = IF pn \in q.old THEN left ELSE Drained(grown)
  BY DEF AckOne, Connections
<1> HIDE DEF p
<1>4. /\ less \in Seq(Nat) /\ Len(less) = Len(log) - 1 /\ IsInjective(less)
      /\ ToSet(less) = ToSet(log) \ {pn}
  BY <1>1, <1>2, RemoveFirstProperties
<1> HIDE DEF less
<1>5. sents \in [Epochs -> Seq(Nat)] /\ sents.oneRtt = less
  BY <1>1, <1>4, EpochsAre
<1>6. inflight \in Int /\ old \in SUBSET Nat /\ inflight = Len(less)
  BY <1>1, <1>2, <1>4
<1>7. log # <<>> /\ Waits(q)
  <2>1. log # <<>>
    BY DEF ToSet
  <2> QED BY <2>1, EpochsAre DEF Waits
<1> HIDE DEF sents, old, inflight
<1>8. left \in Connections
  BY ZenonT(60), <1>5, <1>6 DEF Connections
<1>9. Grown(left) \in Nat \ {0}
  BY <1>8, GrownTyped
<1>10. PICK cwnd \in Nat \ {0} : cwnd = Grown(left)
  BY <1>9
<1>11. grown = [q EXCEPT !.sent = sents, !.inflight = inflight, !.old = old, !.cwnd = cwnd]
  BY <1>10
<1>12. /\ left.appKeys = q.appKeys /\ left.transcript = q.transcript /\ left.ready = q.ready
       /\ left.inflight = inflight /\ left.queue = q.queue
       /\ left.recoveries = q.recoveries /\ left.lost = q.lost /\ left.data = q.data
       /\ left.closed = q.closed /\ left.pto = q.pto /\ left.sent = sents /\ left.pn = q.pn
  BY DEF Connections
<1> HIDE DEF grown, left
<1>13. grown \in Connections
  BY ZenonT(60), <1>5, <1>6, <1>11 DEF Connections
<1>14. /\ grown.appKeys = q.appKeys /\ grown.transcript = q.transcript
       /\ grown.ready = q.ready
       /\ grown.inflight = inflight /\ grown.queue = q.queue /\ grown.old = old
       /\ grown.recoveries = q.recoveries /\ grown.lost = q.lost /\ grown.data = q.data
       /\ grown.closed = q.closed /\ grown.pto = q.pto /\ grown.sent = sents /\ grown.pn = q.pn
  BY <1>11 DEF Connections
<1>15. ToSet(less) \cap ToSet(q.queue) = {} /\ ToSet(less) \cup ToSet(q.queue) = Pending(q) \ {pn}
  BY <1>2, <1>4 DEF Pending
<1>16. CASE pn \in q.old
  <2>1. p = left
    BY <1>3, <1>16
  <2>2. SameHandshake(q, p)
    BY <1>12, <2>1 DEF SameHandshake
  <2>3. Pending(p) = Pending(q) \ {pn}
    BY <1>5, <1>12, <1>15, <2>1 DEF Pending
  <2>4. Books(p)
    BY <1>2, <1>4, <1>5, <1>6, <1>12, <1>15, <1>16, <2>1, <2>3 DEF Books
  <2>5. Guarded(q) => Guarded(p)
    BY <1>7, <1>12, <2>1 DEF Guarded
  <2> QED BY <1>4, <1>5, <1>8, <1>12, <2>1, <2>2, <2>3, <2>4, <2>5 DEF p
<1>17. CASE pn \notin q.old
  <2>1. p = Drained(grown)
    BY <1>3, <1>17
  <2>2. /\ p \in Connections /\ SameHandshake(grown, p) /\ SameTimer(grown, p)
        /\ p.old = grown.old /\ p.recoveries = grown.recoveries
        /\ p.lost = grown.lost /\ p.data = grown.data /\ p.pn = grown.pn
        /\ IsInjective(p.sent.oneRtt) /\ IsInjective(p.queue)
        /\ ToSet(p.sent.oneRtt) \cap ToSet(p.queue) = {}
        /\ Pending(p) = Pending(grown)
        /\ ToSet(grown.sent.oneRtt) \subseteq ToSet(p.sent.oneRtt)
        /\ p.inflight = Len(p.sent.oneRtt)
        /\ p.queue # <<>> => p.inflight >= p.cwnd
    <3>1. /\ IsInjective(grown.sent.oneRtt) /\ IsInjective(grown.queue)
          /\ ToSet(grown.sent.oneRtt) \cap ToSet(grown.queue) = {}
          /\ grown.inflight = Len(grown.sent.oneRtt)
      BY <1>2, <1>4, <1>5, <1>6, <1>14, <1>15
    <3> QED BY <1>13, <2>1, <3>1, DrainedTyped
  <2>3. SameHandshake(q, p)
    BY <1>14, <2>2 DEF SameHandshake
  <2>4. Pending(p) = Pending(q) \ {pn}
    BY <1>5, <1>14, <1>15, <2>2 DEF Pending
  <2>5. p.recoveries = 0 => p.old = {}
    BY <1>2, <1>14, <2>2 DEF old
  <2>6. Books(p)
    BY <1>2, <1>14, <2>2, <2>4, <2>5 DEF Books
  <2>7. Guarded(q) => Guarded(p)
    BY <1>7, <1>14, <2>2 DEF Guarded, SameTimer
  <2> QED BY <1>4, <1>5, <1>14, <2>2, <2>3, <2>4, <2>6, <2>7 DEF p
<1> QED BY <1>16, <1>17

(* The ACK is worked off: retryCount is zero and the timer is set anew.    *)
LEMMA AckEndsTyped ==
  ASSUME NEW q \in Connections
  PROVE  LET p == Rearm([q EXCEPT !.tries = 0])
         IN /\ p \in Connections /\ SameHandshake(q, p) /\ SameBooks(q, p)
            /\ p.sent = q.sent /\ p.pn = q.pn /\ p.closed = q.closed
            /\ p.pto <=> Waits(p)
<1> DEFINE a == [q EXCEPT !.tries = 0]
           p == Rearm(a)
<1>1. a \in Connections
  BY DEF Connections
<1>2. /\ a.appKeys = q.appKeys /\ a.transcript = q.transcript /\ a.ready = q.ready
      /\ a.inflight = q.inflight /\ a.cwnd = q.cwnd /\ a.old = q.old /\ a.queue = q.queue
      /\ a.recoveries = q.recoveries /\ a.lost = q.lost /\ a.data = q.data
      /\ a.closed = q.closed /\ a.sent = q.sent /\ a.pn = q.pn
  BY DEF Connections
<1> HIDE DEF a
<1>3. /\ p \in Connections /\ SameHandshake(a, p) /\ SameBooks(a, p)
      /\ p.sent = a.sent /\ p.pn = a.pn /\ p.closed = a.closed
      /\ p.pto <=> Waits(p)
  BY <1>1, RearmTyped
<1> HIDE DEF p
<1>4. SameHandshake(q, p) /\ SameBooks(q, p)
  BY <1>2, <1>3 DEF SameHandshake, SameBooks
<1> QED BY <1>2, <1>3, <1>4 DEF p, a

(* A TLS message of the server; a Finished only where it fits.             *)
LEMMA MessageKept ==
  ASSUME NEW q \in Connections, NEW m \in ServerMessages
  PROVE  LET p == OnMessage(q, m)
         IN /\ LogKept(q, p) /\ p.ready = q.ready
            /\ m # "FIN" => p.transcript = Append(q.transcript, m) /\ p.appKeys = q.appKeys
            /\ m = "FIN" => p.transcript = q.transcript \o <<"FIN", "CFIN">> /\ p.appKeys
<1> DEFINE p == OnMessage(q, m)
           one == Append(q.transcript, m)
           two == q.transcript \o <<"FIN", "CFIN">>
<1>0. PICK yes \in BOOLEAN : yes = TRUE
  OBVIOUS
<1>1. one \in Seq(Messages) /\ two \in Seq(Messages)
  <2>1. q.transcript \in Seq(Messages) /\ m \in Messages
    BY DEF Connections, ServerMessages, Messages
  <2>2. <<"FIN", "CFIN">> \in Seq(Messages)
    BY DEF Messages
  <2> QED BY <2>1, <2>2, AppendProperties, ConcatProperties
<1>2. q.pn.oneRtt \in Nat
  BY EpochsAre DEF Connections
<1>3. CASE m = "SH"
  <2>1. p = [q EXCEPT !.transcript = one, !.hsKeys = yes]
    BY <1>0, <1>3 DEF OnMessage
  <2> HIDE DEF p, one
  <2>2. p \in Connections
    BY <1>1, <2>1 DEF Connections
  <2>3. /\ p.appKeys = q.appKeys /\ p.transcript = one /\ p.ready = q.ready
        /\ p.inflight = q.inflight /\ p.cwnd = q.cwnd /\ p.old = q.old /\ p.queue = q.queue
        /\ p.recoveries = q.recoveries /\ p.lost = q.lost /\ p.data = q.data
        /\ p.closed = q.closed /\ p.pto = q.pto /\ p.sent = q.sent /\ p.pn = q.pn
    BY <2>1 DEF Connections
  <2>4. SameBooks(q, p) /\ SameTimer(q, p) /\ p.pn.oneRtt >= q.pn.oneRtt
    BY <1>2, <2>3 DEF SameBooks, SameTimer
  <2>5. LogKept(q, p)
    BY <2>2, <2>3, <2>4, UntouchedKept
  <2> QED BY <1>3, <2>3, <2>5 DEF p, one
<1>4. CASE m \in {"EE", "CT", "CV"}
  <2>1. p = [q EXCEPT !.transcript = one]
    BY <1>4 DEF OnMessage
  <2> HIDE DEF p, one
  <2>2. p \in Connections
    BY <1>1, <2>1 DEF Connections
  <2>3. /\ p.appKeys = q.appKeys /\ p.transcript = one /\ p.ready = q.ready
        /\ p.inflight = q.inflight /\ p.cwnd = q.cwnd /\ p.old = q.old /\ p.queue = q.queue
        /\ p.recoveries = q.recoveries /\ p.lost = q.lost /\ p.data = q.data
        /\ p.closed = q.closed /\ p.pto = q.pto /\ p.sent = q.sent /\ p.pn = q.pn
    BY <2>1 DEF Connections
  <2>4. SameBooks(q, p) /\ SameTimer(q, p) /\ p.pn.oneRtt >= q.pn.oneRtt
    BY <1>2, <2>3 DEF SameBooks, SameTimer
  <2>5. LogKept(q, p)
    BY <2>2, <2>3, <2>4, UntouchedKept
  <2> QED BY <1>4, <2>3, <2>5 DEF p, one
<1>5. CASE m = "FIN"
  <2> DEFINE a == [q EXCEPT !.transcript = two, !.appKeys = yes]
  <2>1. p = Logged(a, "handshake", "CFIN")
    BY <1>0, <1>5 DEF OnMessage
  <2> HIDE DEF p, two
  <2>2. a \in Connections
    BY <1>1 DEF Connections
  <2>3. /\ a.appKeys = yes /\ a.transcript = two /\ a.ready = q.ready
        /\ a.inflight = q.inflight /\ a.cwnd = q.cwnd /\ a.old = q.old /\ a.queue = q.queue
        /\ a.recoveries = q.recoveries /\ a.lost = q.lost /\ a.data = q.data
        /\ a.closed = q.closed /\ a.pto = q.pto /\ a.sent = q.sent /\ a.pn = q.pn
    BY DEF Connections
  <2> HIDE DEF a
  <2>4. SameBooks(q, a) /\ SameTimer(q, a) /\ a.pn.oneRtt >= q.pn.oneRtt
    BY <1>2, <2>3 DEF SameBooks, SameTimer
  <2>5. LogKept(q, a)
    BY <2>2, <2>3, <2>4, UntouchedKept
  <2>6. LogKept(a, p) /\ SameHandshake(a, p)
    <3>1. "handshake" \in Epochs /\ "handshake" # "oneRtt" /\ "CFIN" \in Whats
      BY EpochsAre DEF Whats
    <3> QED BY <2>1, <2>2, <3>1, LoggedKept
  <2>7. LogKept(q, p)
    BY <2>5, <2>6, KeptTransitive
  <2> QED BY <1>0, <1>5, <2>3, <2>6, <2>7 DEF SameHandshake, p, two
<1> QED BY <1>3, <1>4, <1>5 DEF ServerMessages

(* The end: whatever is outstanding, nothing runs any more.                *)
LEMMA ClosedKept ==
  ASSUME NEW q \in Connections
  PROVE  LogKept(q, Closed(q)) /\ SameHandshake(q, Closed(q))
<1> DEFINE a == IF q.appKeys THEN Send(q, "oneRtt", "close") ELSE q
           p == Closed(q)
<1>0. PICK yes \in BOOLEAN, no \in BOOLEAN : yes = TRUE /\ no = FALSE
  OBVIOUS
<1>1. LogKept(q, a) /\ SameHandshake(q, a)
  <2>1. "close" \in Whats
    BY DEF Whats
  <2> QED BY <2>1, UnansweredKept, SelfKept
<1>2. p = [a EXCEPT !.closed = yes, !.pto = no]
  BY <1>0 DEF Closed
<1> HIDE DEF a, p
<1>3. a \in Connections
  BY <1>1 DEF LogKept
<1>4. p \in Connections
  BY ZenonT(60), <1>2, <1>3 DEF Connections
<1>5. /\ p.appKeys = a.appKeys /\ p.transcript = a.transcript /\ p.ready = a.ready
      /\ p.inflight = a.inflight /\ p.cwnd = a.cwnd /\ p.old = a.old /\ p.queue = a.queue
      /\ p.recoveries = a.recoveries /\ p.lost = a.lost /\ p.data = a.data
      /\ p.closed = yes /\ p.pto = no /\ p.sent = a.sent /\ p.pn = a.pn
  BY <1>2, <1>3 DEF Connections
<1>6. a.pn.oneRtt \in Nat
  BY <1>3, EpochsAre DEF Connections
<1>7. SameBooks(a, p) /\ SameHandshake(q, p)
  BY <1>1, <1>5 DEF SameBooks, SameHandshake
<1>8. Guarded(p) /\ Honest(p)
  BY <1>0, <1>5 DEF Guarded, Honest
<1>9. LogKept(a, p)
  BY <1>4, <1>5, <1>6, <1>7, <1>8 DEF LogKept
<1>10. LogKept(q, p)
  BY <1>1, <1>9, KeptTransitive
<1> QED BY <1>7, <1>10 DEF p

(* The oldest 1-RTT packet is given up.                                    *)
LEMMA LostTyped ==
  ASSUME NEW q \in Connections, Books(q), q.sent.oneRtt # <<>>
  PROVE  LET p == Lost(q)
         IN /\ p \in Connections /\ SameHandshake(q, p) /\ Books(p)
            /\ p.data = q.data /\ p.closed = q.closed
            /\ q.lost \subseteq p.lost /\ Pending(q) \subseteq Pending(p) \cup p.lost
<1> DEFINE log == q.sent.oneRtt
           pn == Head(log)
           left == Tail(log)
           sents == [q.sent EXCEPT !["oneRtt"] = left]
           inflight == q.inflight - 1
           lost == q.lost \cup {pn}
           a == [q EXCEPT !.sent = sents, !.inflight = inflight, !.lost = lost]
           half == IF a.cwnd \div 2 > MinWindow THEN a.cwnd \div 2 ELSE MinWindow
           r == IF pn \in a.old THEN a
                ELSE [a EXCEPT !.old = ToSet(a.sent.oneRtt), !.ssthresh = half,
                               !.cwnd = half, !.recoveries = 1]
           p == Lost(q)
<1>1. /\ q.sent \in [Epochs -> Seq(Nat)] /\ log \in Seq(Nat) /\ q.inflight \in Int
      /\ q.lost \in SUBSET Nat /\ log # <<>>
  BY EpochsAre DEF Connections
<1>2. /\ IsInjective(log) /\ IsInjective(q.queue) /\ ToSet(log) \cap ToSet(q.queue) = {}
      /\ q.inflight = Len(log) /\ \A n \in Pending(q) : n < q.pn.oneRtt
      /\ q.recoveries = 0 => q.old = {}
  BY DEF Books
<1>3. p = [r EXCEPT !.old = @ \ {pn}]
  BY DEF Lost, Recovered, OldestOf, Without, Connections
<1>4. /\ left \in Seq(Nat) /\ Len(left) = Len(log) - 1 /\ pn \in Nat
      /\ ToSet(log) = ToSet(left) \cup {pn}
      /\ IsInjective(left)
  BY <1>1, <1>2, TailProperties
<1> HIDE DEF left, pn, p
<1>5. sents \in [Epochs -> Seq(Nat)] /\ sents.oneRtt = left
  BY <1>1, <1>4, EpochsAre
<1>6. inflight \in Int /\ inflight = Len(left) /\ lost \in SUBSET Nat
  BY <1>1, <1>2, <1>4
<1> HIDE DEF sents, inflight, lost, r
<1>7. a \in Connections
  BY ZenonT(60), <1>5, <1>6 DEF Connections
<1>8. /\ a.appKeys = q.appKeys /\ a.transcript = q.transcript /\ a.ready = q.ready
      /\ a.inflight = inflight /\ a.old = q.old /\ a.queue = q.queue /\ a.cwnd = q.cwnd
      /\ a.recoveries = q.recoveries /\ a.lost = lost /\ a.data = q.data
      /\ a.closed = q.closed /\ a.sent = sents /\ a.pn = q.pn
  BY DEF Connections
<1> HIDE DEF a
<1>9. half \in Nat \ {0}
  <2>1. MinWindow \in Nat \ {0}
    BY QuicAssumption
  <2>2. a.cwnd \in Nat
    BY <1>7 DEF Connections
  <2>3. a.cwnd \div 2 \in Nat
    BY <2>2
  <2> QED BY <2>1, <2>3
<1> HIDE DEF half
<1>10. ToSet(a.sent.oneRtt) \in SUBSET Nat
  BY <1>4, <1>5, <1>8, ElementOfSeq DEF ToSet
<1>11. /\ r \in Connections
       /\ r.appKeys = q.appKeys /\ r.transcript = q.transcript /\ r.ready = q.ready
       /\ r.inflight = inflight /\ r.queue = q.queue
       /\ r.lost = lost /\ r.data = q.data
       /\ r.closed = q.closed /\ r.sent = sents /\ r.pn = q.pn
       /\ r.recoveries # 0
  <2>1. CASE pn \in a.old
    <3>1. r = a
      BY <2>1 DEF r
    <3>2. q.recoveries # 0
      BY <1>2, <1>8, <2>1
    <3> QED BY <1>7, <1>8, <3>1, <3>2
  <2>2. CASE pn \notin a.old
    <3> DEFINE old == ToSet(a.sent.oneRtt)
    <3>1. r = [a EXCEPT !.old = old, !.ssthresh = half, !.cwnd = half, !.recoveries = 1]
      BY <2>2 DEF r
    <3>2. old \in SUBSET Nat
      BY <1>10
    <3> HIDE DEF old
    <3>3. r \in Connections
      BY ZenonT(60), <1>7, <1>9, <3>1, <3>2 DEF Connections
    <3>4. /\ r.appKeys = a.appKeys /\ r.transcript = a.transcript /\ r.ready = a.ready
          /\ r.inflight = a.inflight /\ r.queue = a.queue
          /\ r.lost = a.lost /\ r.data = a.data
          /\ r.closed = a.closed /\ r.sent = a.sent /\ r.pn = a.pn
          /\ r.recoveries = 1
      BY <1>7, <3>1 DEF Connections
    <3> QED BY <1>8, <3>3, <3>4
  <2> QED BY <2>1, <2>2
<1>12. p \in Connections
  <2>1. PICK old \in SUBSET Nat : old = r.old \ {pn}
    BY <1>11 DEF Connections
  <2>2. p = [r EXCEPT !.old = old]
    BY <1>3, <2>1
  <2> QED BY ZenonT(60), <1>11, <2>2 DEF Connections
<1>13. /\ p.appKeys = q.appKeys /\ p.transcript = q.transcript /\ p.ready = q.ready
       /\ p.inflight = inflight /\ p.queue = q.queue
       /\ p.lost = lost /\ p.data = q.data
       /\ p.closed = q.closed /\ p.sent = sents /\ p.pn = q.pn
       /\ p.recoveries # 0
  <2>1. /\ p.appKeys = r.appKeys /\ p.transcript = r.transcript /\ p.ready = r.ready
        /\ p.inflight = r.inflight /\ p.queue = r.queue
        /\ p.lost = r.lost /\ p.data = r.data
        /\ p.closed = r.closed /\ p.sent = r.sent /\ p.pn = r.pn
        /\ p.recoveries = r.recoveries
    BY <1>3, <1>11 DEF Connections
  <2> QED BY <1>11, <2>1
<1>14. Pending(p) \subseteq Pending(q) /\ Pending(q) \subseteq Pending(p) \cup {pn}
  BY <1>4, <1>5, <1>13 DEF Pending
<1>15. Books(p)
  <2>1. ToSet(left) \cap ToSet(q.queue) = {}
    BY <1>2, <1>4
  <2> QED BY <1>2, <1>4, <1>5, <1>6, <1>13, <1>14, <2>1 DEF Books
<1> QED BY <1>12, <1>13, <1>14, <1>15 DEF SameHandshake, p, lost

-----------------------------------------------------------------------------
(* Between two pieces of work.                                             *)


(* Between two states of the connection: the handshake is left alone, the  *)
(* books are in order, the timer runs exactly while something waits, and   *)
(* no packet that was pending is gone without being counted as lost.       *)
Advanced(q, p) ==
  /\ p \in Connections /\ SameHandshake(q, p) /\ Books(p)
  /\ Guarded(p) /\ Honest(p)
  /\ p.data = q.data /\ q.lost \subseteq p.lost
  /\ Pending(q) \subseteq Pending(p) \cup p.lost

(* A step that keeps the log advances.                                     *)
LEMMA KeptAdvances ==
  ASSUME NEW q \in Connections, NEW p, LogKept(q, p), SameHandshake(q, p), Books(q),
         Guarded(p), Honest(p)
  PROVE  Advanced(q, p)
BY BooksKept DEF Advanced, LogKept

(* A packet of the handshake is sent again under a new number.             *)
LEMMA ResentAdvances ==
  ASSUME NEW q \in Connections, NEW e \in Epochs, e # "oneRtt", q.sent[e] # <<>>, Books(q),
         NEW what \in Whats
  PROVE  Advanced(q, Logged(Without(q, e), e, what))
<1> DEFINE left == Tail(q.sent[e])
           sents == [q.sent EXCEPT ![e] = left]
           a == [q EXCEPT !.sent = sents]
           p == Logged(a, e, what)
<1>1. q.sent \in [Epochs -> Seq(Nat)] /\ q.sent[e] \in Seq(Nat) /\ q.pn.oneRtt \in Nat
  BY EpochsAre DEF Connections
<1>2. left \in Seq(Nat)
  BY <1>1, TailProperties
<1>3. Without(q, e) = a
  BY DEF Without, Connections
<1> HIDE DEF left
<1>4. sents \in [Epochs -> Seq(Nat)] /\ sents.oneRtt = q.sent.oneRtt
  BY <1>1, <1>2, EpochsAre
<1> HIDE DEF sents
<1>5. a \in Connections
  BY <1>4 DEF Connections
<1>6. /\ a.appKeys = q.appKeys /\ a.transcript = q.transcript /\ a.ready = q.ready
      /\ a.inflight = q.inflight /\ a.cwnd = q.cwnd /\ a.old = q.old /\ a.queue = q.queue
      /\ a.recoveries = q.recoveries /\ a.lost = q.lost /\ a.data = q.data
      /\ a.sent = sents /\ a.pn = q.pn
  BY DEF Connections
<1> HIDE DEF a
<1>7. LogKept(a, p) /\ SameHandshake(a, p) /\ p.pto /\ Waits(p)
  BY <1>5, LoggedKept, LoggedTyped
<1>8. Books(a) /\ Pending(a) = Pending(q)
  BY <1>4, <1>6 DEF Books, Pending
<1> HIDE DEF p
<1>9. Guarded(p) /\ Honest(p)
  BY <1>7 DEF Guarded, Honest
<1>10. Advanced(a, p)
  BY <1>5, <1>7, <1>8, <1>9, KeptAdvances
<1>11. Advanced(q, p)
  BY <1>6, <1>8, <1>10 DEF Advanced, SameHandshake
<1> QED BY <1>3, <1>11 DEF p

(* A probe gives up the oldest 1-RTT packet, counts it as lost, and leaves *)
(* the timer running for the rest.                                         *)
LEMMA ProbedAdvances ==
  ASSUME NEW q \in Connections, Books(q), q.sent.oneRtt # <<>>
  PROVE  Advanced(q, Probed(q))
<1> DEFINE a == Lost(q)
           b == Send(a, "oneRtt", "ping")
           p == Rearm(b)
<1>1. /\ a \in Connections /\ SameHandshake(q, a) /\ Books(a)
      /\ a.data = q.data /\ a.closed = q.closed
      /\ q.lost \subseteq a.lost /\ Pending(q) \subseteq Pending(a) \cup a.lost
  BY LostTyped
<1>2. Probed(q) = p
  BY DEF Probed
<1> HIDE DEF a
<1>3. LogKept(a, b) /\ SameHandshake(a, b)
  <2>1. "ping" \in Whats
    BY DEF Whats
  <2> QED BY <1>1, <2>1, UnansweredKept
<1> HIDE DEF b
<1>4. b \in Connections
  BY <1>3 DEF LogKept
<1>5. /\ p \in Connections /\ SameHandshake(b, p) /\ SameBooks(b, p)
      /\ p.sent = b.sent /\ p.pn = b.pn /\ p.closed = b.closed
      /\ p.pto <=> Waits(p)
  BY <1>4, RearmTyped
<1> HIDE DEF p
<1>6. Guarded(p) /\ Honest(p)
  BY <1>5 DEF Guarded, Honest
<1>7. b.pn.oneRtt \in Nat
  BY <1>4, EpochsAre DEF Connections
<1>8. LogKept(b, p)
  BY <1>5, <1>6, <1>7 DEF LogKept
<1>9. LogKept(a, p)
  BY <1>1, <1>3, <1>8, KeptTransitive
<1>10. SameHandshake(a, p)
  BY <1>3, <1>5 DEF SameHandshake
<1>11. Advanced(a, p)
  BY <1>1, <1>6, <1>9, <1>10, KeptAdvances
<1> QED BY <1>1, <1>2, <1>11 DEF Advanced, SameHandshake

(* The probe timer fires while something waits.                            *)
LEMMA PtoAdvances ==
  ASSUME NEW q0 \in Connections, Books(q0), Waits(q0)
  PROVE  Advanced(q0, OnPto(q0))
<1> DEFINE q == [q0 EXCEPT !.tries = @ + 1, !.pto = FALSE]
<1>0. PICK no \in BOOLEAN, tries \in Nat : no = FALSE /\ tries = q0.tries + 1
  <2>1. q0.tries + 1 \in Nat
    BY DEF Connections
  <2> QED BY <2>1
<1>1. q = [q0 EXCEPT !.tries = tries, !.pto = no]
  BY <1>0 DEF Connections
<1> DEFINE closing == [q EXCEPT !.errors = @ \cup {"PTO limit"}]
<1>2. OnPto(q0) =
        CASE q.tries > PtoLimit -> Closed(closing)
          [] q.sent.initial # <<>> /\ q.tries <= PtoLimit -> Logged(Without(q, "initial"), "initial", "CH")
          [] q.sent.initial = <<>> /\ q.sent.handshake # <<>> /\ q.tries <= PtoLimit ->
               Logged(Without(q, "handshake"), "handshake", "CFIN")
          [] OTHER -> Probed(q)
  BY DEF OnPto
<1> HIDE DEF q
<1>3. q \in Connections
  BY <1>1 DEF Connections
<1>4. /\ q.appKeys = q0.appKeys /\ q.transcript = q0.transcript /\ q.ready = q0.ready
      /\ q.inflight = q0.inflight /\ q.cwnd = q0.cwnd /\ q.old = q0.old /\ q.queue = q0.queue
      /\ q.recoveries = q0.recoveries /\ q.lost = q0.lost /\ q.data = q0.data
      /\ q.sent = q0.sent /\ q.pn = q0.pn /\ q.tries = tries
  BY <1>1 DEF Connections
<1>5. Books(q) /\ Pending(q) = Pending(q0) /\ Waits(q)
  BY <1>4 DEF Books, Pending, Waits
<1>6. SameHandshake(q0, q)
  BY <1>4 DEF SameHandshake
<1>7. PtoLimit \in Nat
  BY QuicAssumption
<1> DEFINE p == OnPto(q0)
<1> HIDE DEF p
<1>8. ASSUME q.tries > PtoLimit PROVE Advanced(q, p)
  <2>2. "PTO limit" \in Errors
    BY DEF Errors
  <2>3. LogKept(q, closing) /\ SameHandshake(q, closing)
    BY <1>3, <2>2, ErrorKept
  <2> HIDE DEF closing
  <2>1. p = Closed(closing)
    <3>1. ~(q.tries <= PtoLimit)
      BY <1>4, <1>7, <1>8
    <3> QED BY <1>2, <1>8, <3>1 DEF p
  <2>4. closing \in Connections
    BY <2>3 DEF LogKept
  <2>5. LogKept(closing, p) /\ SameHandshake(closing, p)
    BY <2>1, <2>4, ClosedKept
  <2>6. LogKept(q, p) /\ SameHandshake(q, p)
    BY <1>3, <2>3, <2>5, KeptTransitive DEF SameHandshake
  <2>7. p.closed /\ ~p.pto
    <3> DEFINE b == IF closing.appKeys THEN Send(closing, "oneRtt", "close") ELSE closing
    <3>1. b \in Connections
      <4>1. "close" \in Whats
        BY DEF Whats
      <4> QED BY <2>4, <4>1, SendTyped, EpochsAre
    <3>2. p = [b EXCEPT !.closed = TRUE, !.pto = FALSE]
      BY <2>1 DEF Closed
    <3> HIDE DEF b
    <3> QED BY <3>1, <3>2 DEF Connections
  <2>8. Guarded(p) /\ Honest(p)
    BY <2>7 DEF Guarded, Honest
  <2> QED BY <1>3, <1>5, <2>6, <2>8, KeptAdvances
<1>9. ASSUME ~(q.tries > PtoLimit) /\ q.sent.initial # <<>> PROVE Advanced(q, p)
  <2>1. q.tries <= PtoLimit
    BY <1>4, <1>7, <1>9
  <2>2. p = Logged(Without(q, "initial"), "initial", "CH")
    BY <1>2, <1>9, <2>1 DEF p
  <2>3. "CH" \in Whats /\ "initial" # "oneRtt" /\ "initial" \in Epochs
    BY EpochsAre DEF Whats
  <2> QED BY <1>3, <1>5, <1>9, <2>2, <2>3, ResentAdvances
<1>10. ASSUME ~(q.tries > PtoLimit) /\ q.sent.initial = <<>> /\ q.sent.handshake # <<>> PROVE Advanced(q, p)
  <2>1. q.tries <= PtoLimit
    BY <1>4, <1>7, <1>10
  <2>2. p = Logged(Without(q, "handshake"), "handshake", "CFIN")
    BY <1>2, <1>10, <2>1 DEF p
  <2>3. "CFIN" \in Whats /\ "handshake" # "oneRtt" /\ "handshake" \in Epochs
    BY EpochsAre DEF Whats
  <2> QED BY <1>3, <1>5, <1>10, <2>2, <2>3, ResentAdvances
<1>11. ASSUME ~(q.tries > PtoLimit) /\ q.sent.initial = <<>> /\ q.sent.handshake = <<>> PROVE Advanced(q, p)
  <2>1. p = Probed(q)
    BY <1>2, <1>11 DEF p
  <2>2. q.sent.oneRtt # <<>>
    BY <1>5, <1>11 DEF Waits, Epochs
  <2> QED BY <1>3, <1>5, <2>1, <2>2, ProbedAdvances
<1>12. Advanced(q, p)
  BY <1>8, <1>9, <1>10, <1>11
<1> QED BY <1>4, <1>5, <1>6, <1>12 DEF Advanced, SameHandshake, p

(* STREAM data is sent, or waits for the window.                           *)
LEMMA SendAdvances ==
  ASSUME NEW q \in Connections, Books(q), Guarded(q), Honest(q)
  PROVE  LET p == OnSend(q)
         IN Advanced(q, p) /\ q.pn.oneRtt \in Pending(p)
<1> DEFINE pn == q.pn.oneRtt
           log == q.sent.oneRtt
           p == OnSend(q)
<1>1. /\ q.pn \in [Epochs -> Nat] /\ q.sent \in [Epochs -> Seq(Nat)] /\ pn \in Nat
      /\ log \in Seq(Nat) /\ q.queue \in Seq(Nat) /\ q.inflight \in Int /\ q.cwnd \in Nat
  BY EpochsAre DEF Connections
<1>2. /\ IsInjective(log) /\ IsInjective(q.queue) /\ ToSet(log) \cap ToSet(q.queue) = {}
      /\ q.inflight = Len(log) /\ \A n \in Pending(q) : n < pn
      /\ q.recoveries = 0 => q.old = {} /\ (q.queue # <<>> => q.inflight >= q.cwnd)
  BY DEF Books
<1>3. pn \notin ToSet(log) /\ pn \notin ToSet(q.queue)
  <2>1. \A n \in Pending(q) : n < pn /\ n \in Nat
    BY <1>2, PendingNumbers
  <2>2. pn \notin Pending(q)
    BY <1>1, <2>1
  <2> QED BY <2>2 DEF Pending
<1> HIDE DEF p
<1>4. CASE q.inflight + 1 > q.cwnd
  <2> DEFINE pns == [q.pn EXCEPT !["oneRtt"] = @ + 1]
             queue == Append(q.queue, pn)
  <2>1. p = [q EXCEPT !.pn = pns, !.queue = queue]
    BY <1>4 DEF OnSend, Connections, p
  <2>2. pns \in [Epochs -> Nat] /\ pns.oneRtt = pn + 1
    BY SMTT(40), <1>1, EpochsAre
  <2>3. /\ queue \in Seq(Nat) /\ ToSet(queue) = ToSet(q.queue) \cup {pn}
        /\ IsInjective(queue)
    BY <1>1, <1>2, <1>3, AppendedProperties
  <2> HIDE DEF pns, queue, pn
  <2>4. p \in Connections
    BY <2>1, <2>2, <2>3 DEF Connections
  <2>5. /\ p.appKeys = q.appKeys /\ p.transcript = q.transcript /\ p.ready = q.ready
        /\ p.inflight = q.inflight /\ p.cwnd = q.cwnd /\ p.old = q.old /\ p.queue = queue
        /\ p.recoveries = q.recoveries /\ p.lost = q.lost /\ p.data = q.data
        /\ p.closed = q.closed /\ p.pto = q.pto /\ p.sent = q.sent /\ p.pn = pns
    BY <2>1 DEF Connections
  <2>6. Pending(p) = Pending(q) \cup {pn}
    BY <2>3, <2>5 DEF Pending
  <2>7. \A n \in Pending(p) : n < p.pn.oneRtt
    <3>1. \A n \in Pending(q) : n \in Nat
      BY PendingNumbers
    <3> QED BY <1>1, <1>2, <2>2, <2>5, <2>6, <3>1
  <2>8. p.inflight >= p.cwnd
    BY <1>1, <1>4, <2>5
  <2>9. Books(p)
    BY <1>2, <1>3, <2>3, <2>5, <2>7, <2>8 DEF Books
  <2>10. Guarded(p) /\ Honest(p)
    BY <2>5 DEF Guarded, Honest, Waits
  <2>11. Advanced(q, p)
    BY <2>4, <2>5, <2>6, <2>9, <2>10 DEF Advanced, SameHandshake
  <2> QED BY <2>6, <2>11 DEF p, pn
<1>5. CASE ~(q.inflight + 1 > q.cwnd)
  <2> DEFINE a == Logged(q, "oneRtt", "data")
             inflight == a.inflight + 1
  <2>1. p = [a EXCEPT !.inflight = inflight]
    BY <1>5 DEF OnSend, p
  <2>2. /\ a \in Connections /\ SameHandshake(q, a) /\ SameBooks(q, a)
        /\ a.sent = [q.sent EXCEPT !["oneRtt"] = Append(@, q.pn["oneRtt"])]
        /\ a.pn = [q.pn EXCEPT !["oneRtt"] = @ + 1]
        /\ a.closed = q.closed /\ a.pto /\ Waits(a)
    <3>1. "data" \in Whats
      BY DEF Whats
    <3> QED BY <3>1, EpochsAre, LoggedTyped
  <2> HIDE DEF a
  <2>3. a.sent.oneRtt = Append(log, pn) /\ a.pn.oneRtt = pn + 1
    BY ZenonT(60), <1>1, <2>2, EpochsAre
  <2>4. inflight \in Int /\ inflight = q.inflight + 1
    BY <1>1, <2>2 DEF SameBooks
  <2> HIDE DEF inflight
  <2>5. p \in Connections
    BY ZenonT(60), <2>1, <2>2, <2>4 DEF Connections
  <2>6. /\ p.appKeys = a.appKeys /\ p.transcript = a.transcript /\ p.ready = a.ready
        /\ p.inflight = inflight /\ p.cwnd = a.cwnd /\ p.old = a.old /\ p.queue = a.queue
        /\ p.recoveries = a.recoveries /\ p.lost = a.lost /\ p.data = a.data
        /\ p.closed = a.closed /\ p.pto = a.pto /\ p.sent = a.sent /\ p.pn = a.pn
    BY <2>1, <2>2 DEF Connections
  <2> DEFINE all == Append(log, pn)
  <2>7. /\ Len(all) = Len(log) + 1 /\ ToSet(all) = ToSet(log) \cup {pn}
        /\ IsInjective(all)
    BY <1>1, <1>2, <1>3, AppendedProperties
  <2>8. p.sent.oneRtt = all /\ p.pn.oneRtt = pn + 1 /\ p.queue = q.queue
    BY <2>2, <2>3, <2>6 DEF SameBooks
  <2> HIDE DEF all, pn, log
  <2>9. Pending(p) = Pending(q) \cup {pn}
    BY <2>7, <2>8 DEF Pending, log
  <2>10. \A n \in Pending(p) : n < p.pn.oneRtt
    <3>1. \A n \in Pending(q) : n \in Nat
      BY PendingNumbers
    <3> QED BY <1>1, <1>2, <2>8, <2>9, <3>1
  <2>11. p.inflight = Len(p.sent.oneRtt)
    BY <1>2, <2>4, <2>6, <2>7, <2>8
  <2>12. p.recoveries = 0 => p.old = {} /\ (p.queue # <<>> => p.inflight >= p.cwnd)
    <3>1. /\ p.recoveries = q.recoveries /\ p.old = q.old /\ p.cwnd = q.cwnd
          /\ p.inflight = q.inflight + 1
      BY <2>2, <2>4, <2>6 DEF SameBooks
    <3> QED BY <1>1, <1>2, <2>8, <3>1
  <2>13. ToSet(all) \cap ToSet(q.queue) = {}
    BY <1>2, <1>3, <2>7
  <2>14. Books(p)
    BY <1>2, <2>7, <2>8, <2>10, <2>11, <2>12, <2>13 DEF Books
  <2>15. Guarded(p) /\ Honest(p)
    BY <2>2, <2>6 DEF Guarded, Honest, Waits
  <2>16. Advanced(q, p)
    <3>1. SameHandshake(q, p) /\ p.data = q.data /\ p.lost = q.lost
      BY <2>2, <2>6 DEF SameHandshake, SameBooks
    <3> QED BY <2>5, <2>9, <2>14, <2>15, <3>1 DEF Advanced
  <2> QED BY <2>9, <2>16 DEF p, pn
<1> QED BY <1>4, <1>5

-----------------------------------------------------------------------------
(* What is on its way.                                                     *)


(* The parts of a piece of work.                                           *)
LEMMA ItemFields ==
  ASSUME NEW d, NEW e, NEW x
  PROVE  Item(d, e, x).do = d /\ Item(d, e, x).epoch = e /\ Item(d, e, x).it = x
BY DEF Item

(* What a piece of work of each kind holds.                                *)
LEMMA ItemIs ==
  ASSUME NEW keys, NEW sv, NEW w \in Items(keys, sv)
  PROVE  /\ w.do = "packet" => w.it \in Packets(sv) /\ w.epoch = w.it.kind
         /\ w.do # "packet" => w.epoch \in Epochs
         /\ w.do \in FrameTypes =>
              /\ w.it \in Frames(w.epoch, sv) /\ w.it.type = w.do
              /\ w.do = "done" => keys
         /\ w.do = "acked" => w.it \in Nat
         /\ w.do = "message" => w.it \in ServerMessages
<1> DEFINE Is ==
         /\ w.do = "packet" => w.it \in Packets(sv) /\ w.epoch = w.it.kind
         /\ w.do # "packet" => w.epoch \in Epochs
         /\ w.do \in FrameTypes =>
              /\ w.it \in Frames(w.epoch, sv) /\ w.it.type = w.do
              /\ w.do = "done" => keys
         /\ w.do = "acked" => w.it \in Nat
         /\ w.do = "message" => w.it \in ServerMessages
<1>1. ASSUME w \in PacketItems(sv) PROVE Is
  <2>1. PICK p \in Packets(sv) : w = Item("packet", p.kind, p)
    BY <1>1 DEF PacketItems
  <2> QED BY <2>1, ItemFields DEF FrameTypes
<1>2. ASSUME NEW e \in Epochs, w \in FrameItems(keys, e, sv) PROVE Is
  <2>1. PICK f \in FramesDue(keys, e, sv) : w = Item(f.type, e, f)
    BY <1>2 DEF FrameItems
  <2>2. f \in Frames(e, sv) /\ f.type \in FrameTypes /\ (f.type = "done" => keys)
    BY DEF FramesDue, Frames, AnyFrame
  <2> QED BY <2>1, <2>2, ItemFields DEF FrameTypes
<1>3. ASSUME w \in NumberItems PROVE Is
  <2>1. PICK e \in Epochs, n \in Nat : w = Item("acked", e, n)
    BY <1>3 DEF NumberItems
  <2> QED BY <2>1, ItemFields DEF FrameTypes
<1>4. ASSUME w \in MessageItems PROVE Is
  <2>1. PICK e \in Epochs, m \in ServerMessages : w = Item("message", e, m)
    BY <1>4 DEF MessageItems
  <2> QED BY <2>1, ItemFields DEF FrameTypes
<1>5. ASSUME w \in EndItems PROVE Is
  <2>1. PICK d \in {"acks", "ackEnd", "processed"}, e \in Epochs : w = Item(d, e, {})
    BY <1>5 DEF EndItems
  <2> QED BY <2>1, ItemFields DEF FrameTypes
<1>6. \/ w \in PacketItems(sv) \/ \E e \in Epochs : w \in FrameItems(keys, e, sv)
      \/ w \in NumberItems \/ w \in MessageItems \/ w \in EndItems
  <2> HIDE DEF Is
  <2> QED BY DEF Items
<1>7. Is
  <2> HIDE DEF Is
  <2> QED BY <1>1, <1>2, <1>3, <1>4, <1>5, <1>6, Zenon
<1> QED BY <1>7

(* What may be put on the list of work.                                    *)
LEMMA ItemsHold ==
  ASSUME NEW keys, NEW sv
  PROVE  /\ \A p \in Packets(sv) : Item("packet", p.kind, p) \in Items(keys, sv)
         /\ \A e \in Epochs : \A f \in FramesDue(keys, e, sv) :
              Item(f.type, e, f) \in Items(keys, sv)
         /\ \A e \in Epochs : \A n \in Nat : Item("acked", e, n) \in Items(keys, sv)
         /\ \A e \in Epochs : \A m \in ServerMessages : Item("message", e, m) \in Items(keys, sv)
         /\ \A e \in Epochs : \A d \in {"acks", "ackEnd", "processed"} :
              Item(d, e, {}) \in Items(keys, sv)
<1>1. \A p \in Packets(sv) : Item("packet", p.kind, p) \in PacketItems(sv)
  BY DEF PacketItems
<1>2. \A e \in Epochs : \A f \in FramesDue(keys, e, sv) :
        Item(f.type, e, f) \in FrameItems(keys, e, sv)
  BY DEF FrameItems
<1>3. \A e \in Epochs : \A n \in Nat : Item("acked", e, n) \in NumberItems
  BY DEF NumberItems
<1>4. \A e \in Epochs : \A m \in ServerMessages : Item("message", e, m) \in MessageItems
  BY DEF MessageItems
<1>5. \A e \in Epochs : \A d \in {"acks", "ackEnd", "processed"} : Item(d, e, {}) \in EndItems
  BY DEF EndItems
<1>6. /\ PacketItems(sv) \subseteq Items(keys, sv)
      /\ \A e \in Epochs : FrameItems(keys, e, sv) \subseteq Items(keys, sv)
      /\ NumberItems \subseteq Items(keys, sv) /\ MessageItems \subseteq Items(keys, sv)
      /\ EndItems \subseteq Items(keys, sv)
  BY DEF Items
<1> QED BY <1>1, <1>2, <1>3, <1>4, <1>5, <1>6, Zenon

(* Sequences over a larger set.                                            *)
LEMMA SeqGrows ==
  ASSUME NEW S, NEW T, S \subseteq T
  PROVE  Seq(S) \subseteq Seq(T)
<1> SUFFICES ASSUME NEW q \in Seq(S) PROVE q \in Seq(T)
  OBVIOUS
<1>1. Len(q) \in Nat /\ q \in [1 .. Len(q) -> S]
  BY LenProperties, ElementOfSeq
<1>2. q \in [1 .. Len(q) -> T]
  BY <1>1
<1> QED BY <1>1, <1>2, FunctionIsSeq

(* The server only gets to know more.                                      *)
LEMMA LinesGrow ==
  ASSUME NEW keys, NEW more, keys => more,
         NEW sv, NEW sw, sv.done => sw.done, sv.got \subseteq sw.got
  PROVE  /\ Packets(sv) \subseteq Packets(sw)
         /\ Seq(Seq(Packets(sv))) \subseteq Seq(Seq(Packets(sw)))
         /\ Items(keys, sv) \subseteq Items(more, sw)
         /\ Seq(Items(keys, sv)) \subseteq Seq(Items(more, sw))
<1>1. \A e : Frames(e, sv) \subseteq Frames(e, sw)
  BY DEF Frames
<1>2. Packets(sv) \subseteq Packets(sw)
  <2> SUFFICES ASSUME NEW p \in Packets(sv) PROVE p \in Packets(sw)
    OBVIOUS
  <2>1. Seq(Frames(p.kind, sv)) \subseteq Seq(Frames(p.kind, sw))
    BY <1>1, SeqGrows
  <2> QED BY <2>1 DEF Packets
<1>3. PacketItems(sv) \subseteq PacketItems(sw)
  BY <1>2 DEF PacketItems
<1>4. \A e \in Epochs : FrameItems(keys, e, sv) \subseteq FrameItems(more, e, sw)
  <2> SUFFICES ASSUME NEW e \in Epochs PROVE FrameItems(keys, e, sv) \subseteq FrameItems(more, e, sw)
    OBVIOUS
  <2>1. FramesDue(keys, e, sv) \subseteq FramesDue(more, e, sw)
    BY <1>1 DEF FramesDue
  <2> QED BY <2>1 DEF FrameItems
<1>5. Items(keys, sv) \subseteq Items(more, sw)
  BY <1>3, <1>4 DEF Items
<1> QED BY <1>2, <1>5, SeqGrows

(* A frame without contents.                                               *)
LEMMA PlainFrame ==
  ASSUME NEW type \in FrameTypes
  PROVE  Frame(type) \in AnyFrame /\ Frame(type).type = type
<1>1. <<>> \in Seq([gap : Int, length : Int]) /\ <<>> \in Seq(ServerMessages)
  BY EmptySeq
<1> QED BY <1>1 DEF Frame, AnyFrame

(* Messages of the server in a CRYPTO frame.                               *)
LEMMA CryptoFrame ==
  ASSUME NEW data \in Seq(ServerMessages), NEW e, NEW sv
  PROVE  Crypto(data) \in Frames(e, sv)
<1>1. <<>> \in Seq([gap : Int, length : Int])
  BY EmptySeq
<1>2. Crypto(data) = [type |-> "crypto", largest |-> 0, first |-> 0, ranges |-> <<>>, data |-> data]
  BY DEF Crypto, Frame
<1>3. Crypto(data) \in AnyFrame /\ Crypto(data).type = "crypto"
  BY <1>1, <1>2 DEF AnyFrame, FrameTypes
<1> QED BY <1>3 DEF Frames

(* An ACK of handshake packets.                                            *)
LEMMA HandshakeAck ==
  ASSUME NEW S \in SUBSET Nat, IsFiniteSet(S), S # {}, NEW e, e # "oneRtt", NEW sv
  PROVE  AckFrame(S) \in Frames(e, sv)
BY AckFrameProperties DEF Frames

(* An ACK of all 1-RTT packets that the server has.                        *)
LEMMA DataAck ==
  ASSUME NEW sv, sv.got \in SUBSET Nat, IsFiniteSet(sv.got), sv.got # {}
  PROVE  AckFrame(sv.got) \in Frames("oneRtt", sv)
BY AckFrameProperties DEF Frames

(* Frames in a packet.                                                     *)
LEMMA PacketOf ==
  ASSUME NEW kind \in Kinds, NEW sv, NEW frames \in Seq(Frames(kind, sv))
  PROVE  Packet(kind, frames) \in Packets(sv)
<1>1. Frames(kind, sv) \subseteq AnyFrame
  BY DEF Frames
<1>2. frames \in Seq(AnyFrame)
  BY <1>1, SeqGrows
<1>3. /\ Packet(kind, frames) \in AnyPacket
      /\ Packet(kind, frames).kind = kind /\ Packet(kind, frames).frames = frames
  BY <1>2 DEF Packet, AnyPacket
<1> QED BY <1>3 DEF Packets

(* One frame in a packet.                                                  *)
LEMMA PacketOfOne ==
  ASSUME NEW kind \in Kinds, NEW sv, NEW f \in Frames(kind, sv)
  PROVE  Packet(kind, <<f>>) \in Packets(sv)
<1>1. <<f>> \in Seq(Frames(kind, sv))
  OBVIOUS
<1> QED BY <1>1, PacketOf

(* The kinds of packets.                                                   *)
LEMMA KindsAre == "retry" \in Kinds /\ "initial" \in Kinds /\ "handshake" \in Kinds /\ "oneRtt" \in Kinds
BY DEF Kinds, Epochs

(* The server's flights.                                                   *)
LEMMA HandshakeTyped ==
  ASSUME NEW S \in SUBSET Nat, IsFiniteSet(S), S # {}, NEW sv
  PROVE  /\ Handshake(S) \in Seq(Seq(Packets(sv)))
         /\ \A i \in 1 .. 2 : <<Handshake(S)[i]>> \in Seq(Seq(Packets(sv)))
<1> DEFINE p1 == Packet("initial", <<AckFrame(S), Crypto(Flight1)>>)
           p2 == Packet("handshake", <<Crypto(Flight2)>>)
           p3 == Packet("handshake", <<Crypto(Flight3)>>)
<1>1. Flight1 \in Seq(ServerMessages) /\ Flight2 \in Seq(ServerMessages) /\ Flight3 \in Seq(ServerMessages)
  BY DEF Flight1, Flight2, Flight3, ServerMessages
<1>2. p1 \in Packets(sv)
  <2>1. AckFrame(S) \in Frames("initial", sv) /\ Crypto(Flight1) \in Frames("initial", sv)
    BY <1>1, HandshakeAck, CryptoFrame
  <2>2. <<AckFrame(S), Crypto(Flight1)>> \in Seq(Frames("initial", sv))
    BY <2>1
  <2> QED BY <2>2, PacketOf, KindsAre
<1>3. p2 \in Packets(sv) /\ p3 \in Packets(sv)
  BY <1>1, CryptoFrame, PacketOfOne, KindsAre
<1>4. Handshake(S) = <<<<p1, p2>>, <<p3>>>>
  BY DEF Handshake
<1> HIDE DEF p1, p2, p3
<1>5. <<p1, p2>> \in Seq(Packets(sv)) /\ <<p3>> \in Seq(Packets(sv))
  BY <1>2, <1>3
<1> DEFINE d1 == <<p1, p2>>
           d2 == <<p3>>
<1> HIDE DEF d1, d2
<1>6. Handshake(S) = <<d1, d2>>
  BY <1>4 DEF d1, d2
<1>7. d1 \in Seq(Packets(sv)) /\ d2 \in Seq(Packets(sv))
  BY <1>5 DEF d1, d2
<1>8. Handshake(S) \in Seq(Seq(Packets(sv))) /\ Handshake(S)[1] = d1 /\ Handshake(S)[2] = d2
  BY <1>6, <1>7
<1>9. \A i \in 1 .. 2 : i = 1 \/ i = 2
  OBVIOUS
<1>10. <<d1>> \in Seq(Seq(Packets(sv))) /\ <<d2>> \in Seq(Seq(Packets(sv)))
  BY <1>7
<1> QED BY <1>8, <1>9, <1>10

(* HANDSHAKE_DONE, sent by a server that is done.                          *)
LEMMA DoneTyped ==
  ASSUME NEW S \in SUBSET Nat, IsFiniteSet(S), NEW sv, sv.done
  PROVE  Done(S) \in Seq(Seq(Packets(sv)))
<1> DEFINE p1 == Packet("handshake", <<AckFrame(S)>>)
           p2 == Packet("oneRtt", <<Frame("done")>>)
<1>1. p2 \in Packets(sv)
  <2>1. "done" \in FrameTypes
    BY DEF FrameTypes
  <2>2. Frame("done") \in Frames("oneRtt", sv)
    BY <2>1, PlainFrame DEF Frames
  <2> QED BY <2>2, PacketOfOne, KindsAre
<1>2. S # {} => p1 \in Packets(sv)
  BY HandshakeAck, PacketOfOne, KindsAre
<1>3. Done(S) = <<IF AcksFinished /\ S # {} THEN <<p1, p2>> ELSE <<p2>>>>
  BY DEF Done
<1> HIDE DEF p1, p2
<1> DEFINE d == IF AcksFinished /\ S # {} THEN <<p1, p2>> ELSE <<p2>>
<1>4. d \in Seq(Packets(sv))
  <2>1. <<p2>> \in Seq(Packets(sv))
    BY <1>1
  <2>2. S # {} => <<p1, p2>> \in Seq(Packets(sv))
    BY <1>1, <1>2
  <2> QED BY <2>1, <2>2
<1>5. Done(S) = <<d>>
  BY <1>3
<1> HIDE DEF d
<1> QED BY <1>4, <1>5

(* One packet in one datagram.                                             *)
LEMMA DatagramOf ==
  ASSUME NEW sv, NEW p \in Packets(sv)
  PROVE  <<<<p>>>> \in Seq(Seq(Packets(sv)))
<1>1. <<p>> \in Seq(Packets(sv))
  OBVIOUS
<1> DEFINE d == <<p>>
<1> HIDE DEF d
<1>2. <<d>> \in Seq(Seq(Packets(sv)))
  BY <1>1 DEF d
<1> QED BY <1>2 DEF d

-----------------------------------------------------------------------------
(* The order of work.                                                      *)


(* Nothing acknowledged is waiting to be worked off.                       *)
Quiet(q) == \A i \in DOMAIN q : q[i].do \notin Acking

(* Where nothing acknowledged is to be worked off, nothing is owed.        *)
LEMMA QuietOwes ==
  ASSUME NEW q, Quiet(q), NEW log, NEW got
  PROVE  InTurn(q) /\ Expected(q, log, got)
BY DEF Quiet, InTurn, Expected, Due, Acking

(* The head of a sequence and the rest of it.                              *)
LEMMA TailItems ==
  ASSUME NEW S, NEW q \in Seq(S), q # <<>>
  PROVE  /\ Head(q) \in S /\ Tail(q) \in Seq(S) /\ Head(q) = q[1] /\ Len(q) \in Nat /\ Len(q) >= 1
         /\ DOMAIN q = 1 .. Len(q) /\ DOMAIN Tail(q) = 1 .. Len(q) - 1
         /\ \A i \in 1 .. Len(q) - 1 : i + 1 \in DOMAIN q /\ Tail(q)[i] = q[i + 1]
OBVIOUS

(* Behind what is no acknowledged packet, there is none.                   *)
LEMMA QuietTail ==
  ASSUME NEW S, NEW q \in Seq(S), q # <<>>, InTurn(q), Head(q).do # "acked"
  PROVE  Quiet(Tail(q))
<1>1. /\ Head(q) = q[1] /\ Len(q) \in Nat /\ DOMAIN Tail(q) = 1 .. Len(q) - 1
      /\ \A i \in 1 .. Len(q) - 1 : i + 1 \in DOMAIN q /\ Tail(q)[i] = q[i + 1]
  BY TailItems
<1> SUFFICES ASSUME NEW i \in 1 .. Len(q) - 1, Tail(q)[i].do \in Acking PROVE FALSE
  BY <1>1 DEF Quiet
<1>2. i + 1 \in DOMAIN q /\ q[i + 1].do \in Acking /\ 1 \in 1 .. (i + 1) - 1
  BY <1>1
<1>3. q[1].do = "acked"
  BY <1>2 DEF InTurn
<1> QED BY <1>1, <1>3

(* Behind an acknowledged packet come the others of its ACK and its end,   *)
(* and these are still in the log.                                         *)
LEMMA AckedTail ==
  ASSUME NEW S, NEW q \in Seq(S), q # <<>>, Head(q).do = "acked",
         NEW log, NEW got, InTurn(q), Expected(q, log, got),
         NEW more, Head(q).epoch = "oneRtt" => log \ {Head(q).it} \subseteq more,
         Head(q).epoch # "oneRtt" => log \subseteq more
  PROVE  /\ InTurn(Tail(q)) /\ Expected(Tail(q), more, got)
         /\ Tail(q) # <<>> /\ Head(Tail(q)).do \in Acking
<1> DEFINE t == Tail(q)
           n == Len(q)
<1>1. /\ Head(q) = q[1] /\ n \in Nat /\ n >= 1 /\ t \in Seq(S)
      /\ DOMAIN q = 1 .. n /\ DOMAIN t = 1 .. n - 1
      /\ \A i \in 1 .. n - 1 : i + 1 \in DOMAIN q /\ t[i] = q[i + 1]
  BY TailItems
<1> HIDE DEF t, n
<1>2. 1 \in DOMAIN q /\ q[1].do = "acked"
  BY <1>1
<1>3. 2 \in DOMAIN q /\ q[2].do \in Acking
  <2>1. 1 + 1 \in DOMAIN q /\ q[1 + 1].do \in Acking
    BY <1>2 DEF InTurn
  <2> QED BY <2>1
<1>4. t # <<>> /\ Head(t).do \in Acking
  <2>1. n >= 2
    BY <1>1, <1>3
  <2>2. 1 \in 1 .. n - 1 /\ t[1] = q[2]
    BY <1>1, <2>1
  <2>3. t # <<>>
    BY <1>1, <2>2
  <2>4. Head(t) = t[1]
    BY <1>1, <2>3, TailItems
  <2> QED BY <1>3, <2>2, <2>3, <2>4
<1>5. ASSUME NEW j \in 1 .. n - 1, t[j].do \in Acking, NEW i \in 1 .. j - 1
      PROVE  t[i].do = "acked"
  <2>1. j + 1 \in DOMAIN q /\ q[j + 1].do \in Acking /\ i + 1 \in 1 .. (j + 1) - 1
    BY <1>1, <1>5
  <2>2. q[i + 1].do = "acked"
    BY <2>1 DEF InTurn
  <2>3. i \in 1 .. n - 1
    BY <1>1, <1>5
  <2> QED BY <1>1, <2>2, <2>3
<1>6. ASSUME NEW i \in 1 .. n - 1, t[i].do = "acked"
      PROVE  i + 1 \in 1 .. n - 1 /\ t[i + 1].do \in Acking
  <2>1. i + 1 \in DOMAIN q /\ q[i + 1].do = "acked"
    BY <1>1, <1>6
  <2>2. (i + 1) + 1 \in DOMAIN q /\ q[(i + 1) + 1].do \in Acking
    BY <2>1 DEF InTurn
  <2>3. i + 1 \in 1 .. n - 1
    BY <1>1, <2>2
  <2> QED BY <1>1, <2>2, <2>3
<1>7. InTurn(t)
  BY <1>1, <1>5, <1>6 DEF InTurn
<1>8. ASSUME NEW i \in 1 .. n - 1, Due(t[i])
      PROVE  t[i].it \in more \cap got
  <2>1. i + 1 \in DOMAIN q /\ Due(q[i + 1]) /\ t[i] = q[i + 1]
    BY <1>1, <1>8
  <2>2. q[i + 1].it \in log \cap got
    BY <2>1 DEF Expected
  <2>3. CASE Head(q).epoch = "oneRtt"
    <3>1. Due(q[1])
      BY <1>1, <1>2, <2>3 DEF Due
    <3>2. q[i + 1].it # q[1].it
      <4>1. i + 1 # 1
        OBVIOUS
      <4> QED BY <1>2, <2>1, <3>1, <4>1 DEF Expected
    <3> QED BY <1>1, <2>1, <2>2, <2>3, <3>2
  <2>4. CASE Head(q).epoch # "oneRtt"
    BY <2>1, <2>2, <2>4
  <2> QED BY <2>3, <2>4
<1>9. ASSUME NEW i \in 1 .. n - 1, NEW j \in 1 .. n - 1, Due(t[i]), Due(t[j]), t[i].it = t[j].it
      PROVE  i = j
  <2>1. /\ i + 1 \in DOMAIN q /\ j + 1 \in DOMAIN q /\ Due(q[i + 1]) /\ Due(q[j + 1])
        /\ q[i + 1].it = q[j + 1].it
    BY <1>1, <1>9
  <2>2. i + 1 = j + 1
    BY <2>1 DEF Expected
  <2> QED BY <2>2
<1>10. Expected(t, more, got)
  BY <1>1, <1>8, <1>9 DEF Expected
<1> QED BY <1>4, <1>7, <1>10 DEF t

(* The elements of a concatenation.                                        *)
LEMMA Concatenated ==
  ASSUME NEW S, NEW a \in Seq(S), NEW b \in Seq(S), NEW n, NEW m, Len(a) = n, Len(b) = m
  PROVE  /\ a \o b \in Seq(S) /\ n \in Nat /\ m \in Nat
         /\ DOMAIN a = 1 .. n /\ DOMAIN b = 1 .. m /\ DOMAIN (a \o b) = 1 .. n + m
         /\ \A i \in 1 .. n : (a \o b)[i] = a[i]
         /\ \A i \in 1 .. m : (a \o b)[n + i] = b[i]
         /\ \A i \in 1 .. n + m : i \in 1 .. n \/ (i - n \in 1 .. m /\ n + (i - n) = i)
BY SMTT(40)

(* The elements of a sequence with a list of one after it.                 *)
LEMMA OneMore ==
  ASSUME NEW S, NEW a \in Seq(S), NEW b \in Seq(S), NEW n, Len(a) = n, Len(b) = 1
  PROVE  /\ a \o b \in Seq(S) /\ DOMAIN (a \o b) = 1 .. n + 1
         /\ \A i \in 1 .. n : (a \o b)[i] = a[i]
         /\ \A i \in 1 .. 1 : (a \o b)[n + i] = b[i]
<1>1. PICK one : one = 1
  OBVIOUS
<1>2. Len(b) = one
  BY <1>1
<1>3. /\ a \o b \in Seq(S) /\ DOMAIN (a \o b) = 1 .. n + one
      /\ \A i \in 1 .. n : (a \o b)[i] = a[i]
      /\ \A i \in 1 .. one : (a \o b)[n + i] = b[i]
  BY <1>2, Concatenated
<1> QED BY <1>1, <1>3

(* Two lists without acknowledged packets make another.                    *)
LEMMA QuietConcat ==
  ASSUME NEW S, NEW a \in Seq(S), NEW b \in Seq(S), Quiet(a), Quiet(b)
  PROVE  Quiet(a \o b)
<1> DEFINE q == a \o b
           n == Len(a)
           m == Len(b)
<1>0. Len(a) = n /\ Len(b) = m
  OBVIOUS
<1> HIDE DEF n, m
<1>1. /\ n \in Nat /\ m \in Nat /\ DOMAIN a = 1 .. n /\ DOMAIN b = 1 .. m /\ DOMAIN q = 1 .. n + m
      /\ \A i \in 1 .. n : q[i] = a[i]
      /\ \A i \in 1 .. m : q[n + i] = b[i]
      /\ \A i \in 1 .. n + m : i \in 1 .. n \/ (i - n \in 1 .. m /\ n + (i - n) = i)
  BY <1>0, Concatenated
<1> HIDE DEF q
<1>2. ASSUME NEW i \in 1 .. n + m PROVE q[i].do \notin Acking
  <2>1. CASE i \in 1 .. n
    BY <1>1, <2>1 DEF Quiet
  <2>2. CASE i \notin 1 .. n
    <3>1. i - n \in 1 .. m /\ q[i] = b[i - n]
      BY <1>1, <2>2
    <3> QED BY <1>1, <3>1 DEF Quiet
  <2> QED BY <2>1, <2>2
<1> QED BY <1>1, <1>2 DEF Quiet, q

(* Acknowledged packets, the end of their ACK, and then what was left to   *)
(* do.                                                                     *)
LEMMA AckedFirst ==
  ASSUME NEW S, NEW e, NEW pns \in Seq(Nat), NEW rest \in Seq(S), Quiet(rest),
         \A n \in Nat : Item("acked", e, n) \in S, Item("ackEnd", e, {}) \in S,
         NEW log, NEW got,
         e = "oneRtt" => IsInjective(pns) /\ \A i \in 1 .. Len(pns) : pns[i] \in log \cap got
  PROVE  LET q == ([i \in 1 .. Len(pns) |-> Item("acked", e, pns[i])] \o <<Item("ackEnd", e, {})>>) \o rest
         IN /\ q \in Seq(S) /\ InTurn(q) /\ Expected(q, log, got)
            /\ q # <<>> /\ Head(q).do \in Acking
<1> DEFINE k == Len(pns)
           a == [i \in 1 .. k |-> Item("acked", e, pns[i])]
           end == <<Item("ackEnd", e, {})>>
           b == a \o end
           q == b \o rest
           m == Len(rest)
<1>1. k \in Nat /\ DOMAIN pns = 1 .. k /\ \A i \in 1 .. k : pns[i] \in Nat
  BY LenProperties, ElementOfSeq
<1>2. a \in Seq(S) /\ Len(a) = k /\ DOMAIN a = 1 .. k /\ \A i \in 1 .. k : a[i] = Item("acked", e, pns[i])
  <2> HIDE DEF k
  <2>1. \A i \in 1 .. k : Item("acked", e, pns[i]) \in S
    BY <1>1
  <2>2. a \in [1 .. k -> S]
    BY <2>1
  <2>3. \A i \in 1 .. k : a[i] = Item("acked", e, pns[i])
    OBVIOUS
  <2> HIDE DEF a
  <2> QED BY <1>1, <2>2, <2>3, FunctionIsSeq
<1>3. end \in Seq(S) /\ Len(end) = 1 /\ end[1] = Item("ackEnd", e, {})
  OBVIOUS
<1> HIDE DEF a, end, k
<1>4. /\ b \in Seq(S) /\ DOMAIN b = 1 .. k + 1 /\ Len(b) = k + 1
      /\ \A i \in 1 .. k : b[i] = Item("acked", e, pns[i])
      /\ b[k + 1] = Item("ackEnd", e, {})
  <2>1. /\ b \in Seq(S) /\ DOMAIN b = 1 .. k + 1
        /\ \A i \in 1 .. k : b[i] = a[i]
        /\ \A i \in 1 .. 1 : b[k + i] = end[i]
    <3>1. a \in Seq(S) /\ end \in Seq(S) /\ Len(a) = k /\ Len(end) = 1
      BY <1>2, <1>3
    <3>2. /\ a \o end \in Seq(S) /\ DOMAIN (a \o end) = 1 .. k + 1
          /\ \A i \in 1 .. k : (a \o end)[i] = a[i]
          /\ \A i \in 1 .. 1 : (a \o end)[k + i] = end[i]
      BY ONLY <3>1, OneMore
    <3> QED BY <3>2
  <2>2. Len(b) = k + 1
    BY <1>1, <2>1, LenProperties
  <2>3. b[k + 1] = end[1]
    <3>1. 1 \in 1 .. 1
      OBVIOUS
    <3> QED BY <2>1, <3>1
  <2> QED BY <1>2, <1>3, <2>1, <2>2, <2>3
<1> HIDE DEF b
<1>5. /\ q \in Seq(S) /\ m \in Nat /\ DOMAIN rest = 1 .. m /\ DOMAIN q = 1 .. (k + 1) + m
      /\ \A i \in 1 .. k + 1 : q[i] = b[i]
      /\ \A i \in 1 .. m : q[(k + 1) + i] = rest[i]
      /\ \A i \in 1 .. (k + 1) + m :
           i \in 1 .. k + 1 \/ (i - (k + 1) \in 1 .. m /\ (k + 1) + (i - (k + 1)) = i)
  <2> DEFINE h == k + 1
  <2>0. Len(rest) = m
    OBVIOUS
  <2>1. Len(b) = h
    BY <1>4
  <2> HIDE DEF h, m
  <2>2. /\ q \in Seq(S) /\ m \in Nat /\ DOMAIN rest = 1 .. m /\ DOMAIN q = 1 .. h + m
        /\ \A i \in 1 .. h : q[i] = b[i]
        /\ \A i \in 1 .. m : q[h + i] = rest[i]
        /\ \A i \in 1 .. h + m : i \in 1 .. h \/ (i - h \in 1 .. m /\ h + (i - h) = i)
    BY <1>4, <2>1, <2>0, Concatenated
  <2> QED BY <2>2 DEF h
<1> HIDE DEF q, m
<1>6. \A i \in 1 .. k : q[i] = Item("acked", e, pns[i]) /\ q[i].do = "acked" /\ q[i].it = pns[i] /\ q[i].epoch = e
  <2> SUFFICES ASSUME NEW i \in 1 .. k
               PROVE  q[i] = Item("acked", e, pns[i]) /\ q[i].do = "acked" /\ q[i].it = pns[i] /\ q[i].epoch = e
    OBVIOUS
  <2>1. i \in 1 .. k + 1
    BY <1>1
  <2>2. q[i] = Item("acked", e, pns[i])
    BY <1>4, <1>5, <2>1
  <2> QED BY <2>2, ItemFields
<1>7. q[k + 1].do = "ackEnd" /\ k + 1 \in DOMAIN q
  <2>1. k + 1 \in 1 .. k + 1 /\ k + 1 \in 1 .. (k + 1) + m
    BY <1>1, <1>5
  <2>2. q[k + 1] = Item("ackEnd", e, {})
    BY <1>4, <1>5, <2>1
  <2> QED BY <1>5, <2>1, <2>2, ItemFields
<1>8. ASSUME NEW i \in DOMAIN q, i \notin 1 .. k, i # k + 1
      PROVE  q[i].do \notin Acking
  <2>1. i \in 1 .. (k + 1) + m /\ i \notin 1 .. k + 1
    BY <1>1, <1>5, <1>8
  <2>2. i - (k + 1) \in 1 .. m /\ (k + 1) + (i - (k + 1)) = i
    BY <1>5, <2>1
  <2>3. q[(k + 1) + (i - (k + 1))] = rest[i - (k + 1)]
    BY <1>5, <2>2
  <2> QED BY <1>5, <2>2, <2>3 DEF Quiet
<1>9. InTurn(q)
  <2>1. ASSUME NEW j \in DOMAIN q, q[j].do \in Acking, NEW i \in 1 .. j - 1
        PROVE  q[i].do = "acked"
    <3>1. j \in 1 .. k \/ j = k + 1
      BY <1>8, <2>1
    <3>2. i \in 1 .. k
      BY <1>1, <3>1
    <3> QED BY <1>6, <3>2
  <2>2. ASSUME NEW i \in DOMAIN q, q[i].do = "acked"
        PROVE  i + 1 \in DOMAIN q /\ q[i + 1].do \in Acking
    <3>1. i \in 1 .. k
      BY <1>7, <1>8, <2>2 DEF Acking
    <3>2. CASE i = k
      BY <1>7, <3>2 DEF Acking
    <3>3. CASE i # k
      <4>1. i + 1 \in 1 .. k /\ i + 1 \in DOMAIN q
        BY <1>1, <1>5, <3>1, <3>3
      <4> QED BY <1>6, <4>1 DEF Acking
    <3> QED BY <3>2, <3>3
  <2> QED BY <2>1, <2>2 DEF InTurn
<1>10. \A i \in DOMAIN q : Due(q[i]) => i \in 1 .. k /\ e = "oneRtt" /\ q[i].it = pns[i]
  <2> SUFFICES ASSUME NEW i \in DOMAIN q, Due(q[i])
               PROVE  i \in 1 .. k /\ e = "oneRtt" /\ q[i].it = pns[i]
    OBVIOUS
  <2>1. q[i].do = "acked" /\ q[i].epoch = "oneRtt"
    BY DEF Due
  <2>2. i \in 1 .. k
    BY <1>7, <1>8, <2>1 DEF Acking
  <2> QED BY <1>6, <2>1, <2>2
<1>11. Expected(q, log, got)
  <2>1. \A i \in DOMAIN q : Due(q[i]) => q[i].it \in log \cap got
    BY <1>10 DEF k
  <2>2. \A i, j \in DOMAIN q : Due(q[i]) /\ Due(q[j]) /\ q[i].it = q[j].it => i = j
    BY <1>1, <1>10 DEF IsInjective
  <2> QED BY <2>1, <2>2 DEF Expected
<1>12. q # <<>> /\ Head(q).do \in Acking
  <2>1. q # <<>>
    BY <1>7
  <2>2. Head(q) = q[1]
    BY <1>5, <2>1, TailItems
  <2>3. CASE k = 0
    BY <1>7, <2>2, <2>3 DEF Acking
  <2>4. CASE k # 0
    <3>1. 1 \in 1 .. k
      BY <1>1, <2>4
    <3>2. q[1].do = "acked"
      BY <1>6, <3>1
    <3> QED BY <2>1, <2>2, <3>2 DEF Acking
  <2> QED BY <2>1, <2>3, <2>4
<1> QED BY <1>5, <1>9, <1>11, <1>12 DEF q, b, a, end, k

-----------------------------------------------------------------------------
(* The steps of the client.                                                *)


(* The client goes to q.                                                   *)
LEMMA Becoming ==
  ASSUME NEW q \in Connections, toServer \in Seq(SentPackets), Becomes(q)
  PROVE  /\ c' \in Connections /\ c'.out = <<>> /\ toServer' \in Seq(SentPackets)
         /\ SameHandshake(q, c') /\ SameBooks(q, c') /\ SameTimer(q, c')
         /\ c'.sent = q.sent /\ c'.pn = q.pn
<1>1. c' = [q EXCEPT !.out = <<>>] /\ toServer' = toServer \o q.out
  BY DEF Becomes
<1>2. q.out \in Seq(SentPackets)
  BY DEF Connections
<1>3. toServer' \in Seq(SentPackets)
  BY <1>1, <1>2, ConcatProperties
<1> QED BY <1>1, <1>3, Emptied

(* A step of what is left to do, while the packet at hand is not           *)
(* acknowledged.                                                           *)
PlainStep(q, items) ==
  /\ work # <<>> /\ Head(work).do \notin Acking
  /\ AtWork(q, items) /\ LogKept(c, q) /\ (c.appKeys => q.appKeys)
  /\ items \in Seq(Items(q.appKeys, s)) /\ Quiet(items)

(* No work at all.                                                         *)
LEMMA NoItems ==
  ASSUME NEW S
  PROVE  <<>> \in Seq(S) /\ Quiet(<<>>)
BY EmptySeq DEF Quiet

(* The next piece of work.                                                 *)
LEMMA HeadOfWork ==
  ASSUME LinesOK, work # <<>>
  PROVE  Head(work) \in Items(c.appKeys, s) /\ Tail(work) \in Seq(Items(c.appKeys, s))
<1> DEFINE S == Items(c.appKeys, s)
<1>1. work \in Seq(S)
  BY DEF LinesOK
<1> HIDE DEF S
<1>2. Head(work) \in S /\ Tail(work) \in Seq(S)
  BY <1>1, TailItems
<1> QED BY <1>2 DEF S

(* _handlePacket: a Retry, a packet without keys, or frames to handle.     *)
LEMMA PacketStep ==
  ASSUME TypesOK, LinesOK, HandlePacket
  PROVE  \E q, items : PlainStep(q, items) /\ SameHandshake(c, q)
<1> DEFINE w == Head(work)
           n == Len(w.it.frames)
           frames == [i \in 1 .. n |-> Item(w.it.frames[i].type, w.epoch, w.it.frames[i])]
           last == Item("acks", w.epoch, {})
<1>1. /\ work # <<>> /\ w.do = "packet"
      /\ \/ AtWork(OnRetry(c), <<>>) \/ AtWork(c, <<>>)
         \/ /\ w.epoch # "retry" /\ ~(w.epoch = "oneRtt" /\ ~c.appKeys)
            /\ AtWork(c, Append(frames, last))
  BY DEF HandlePacket, Doing
<1>2. w.it \in Packets(s) /\ w.epoch = w.it.kind
  BY <1>1, HeadOfWork, ItemIs
<1>3. w.do \notin Acking
  BY <1>1 DEF Acking
<1>4. c \in Connections
  BY DEF TypesOK
<1> HIDE DEF frames, w
<1>5. CASE AtWork(OnRetry(c), <<>>)
  <2>1. LogKept(c, OnRetry(c)) /\ SameHandshake(c, OnRetry(c))
    BY <1>4, RetryKept
  <2>2. c.appKeys => OnRetry(c).appKeys
    BY <2>1 DEF SameHandshake
  <2>3. PlainStep(OnRetry(c), <<>>)
    BY <1>1, <1>3, <1>5, <2>1, <2>2, NoItems DEF PlainStep, w
  <2> QED BY <2>1, <2>3
<1>6. CASE AtWork(c, <<>>)
  <2>1. LogKept(c, c) /\ SameHandshake(c, c)
    BY <1>4, SelfKept
  <2>2. PlainStep(c, <<>>)
    BY <1>1, <1>3, <1>6, <2>1, NoItems DEF PlainStep, w
  <2> QED BY <2>1, <2>2
<1>7. CASE w.epoch # "retry" /\ ~(w.epoch = "oneRtt" /\ ~c.appKeys) /\ AtWork(c, Append(frames, last))
  <2> DEFINE S == Items(c.appKeys, s)
             e == w.epoch
  <2>1. e \in Epochs /\ w.it.frames \in Seq(Frames(e, s))
    BY <1>2, <1>7 DEF Packets, AnyPacket, Kinds
  <2>2. n \in Nat /\ \A i \in 1 .. n : w.it.frames[i] \in Frames(e, s)
    BY <2>1, LenProperties, ElementOfSeq
  <2>3. \A i \in 1 .. n : /\ w.it.frames[i] \in FramesDue(c.appKeys, e, s)
                          /\ w.it.frames[i].type \in FrameTypes
    BY <1>7, <2>2 DEF FramesDue, Frames, AnyFrame
  <2>4. \A i \in 1 .. n : Item(w.it.frames[i].type, e, w.it.frames[i]) \in S
    BY <2>1, <2>3, ItemsHold
  <2>5. last \in S
    BY <2>1, ItemsHold
  <2>6. \A i \in 1 .. n : Item(w.it.frames[i].type, e, w.it.frames[i]).do \notin Acking
    BY <2>3, ItemFields DEF FrameTypes, Acking
  <2>7. last.do \notin Acking
    BY ItemFields DEF Acking
  <2> HIDE DEF S, last, n
  <2>8. frames \in Seq(S) /\ Len(frames) = n /\ DOMAIN frames = 1 .. n /\ Quiet(frames)
    <3>1. frames \in [1 .. n -> S]
      BY <2>4 DEF frames
    <3>2. frames \in Seq(S) /\ Len(frames) = n /\ DOMAIN frames = 1 .. n
      BY <2>2, <3>1, FunctionIsSeq
    <3>3. \A i \in 1 .. n : frames[i].do \notin Acking
      BY <2>6 DEF frames
    <3> QED BY <3>2, <3>3 DEF Quiet
  <2>9. Append(frames, last) \in Seq(S) /\ Quiet(Append(frames, last))
    <3> DEFINE all == Append(frames, last)
    <3>1. /\ all \in Seq(S) /\ DOMAIN all = 1 .. n + 1
          /\ \A i \in 1 .. n : all[i] = frames[i]
          /\ all[n + 1] = last
          /\ \A i \in 1 .. n + 1 : i \in 1 .. n \/ i = n + 1
      BY <2>2, <2>5, <2>8
    <3> HIDE DEF all
    <3>2. Quiet(all)
      BY <2>7, <2>8, <3>1 DEF Quiet
    <3> QED BY <3>1, <3>2 DEF all
  <2>10. LogKept(c, c) /\ SameHandshake(c, c)
    BY <1>4, SelfKept
  <2>11. PlainStep(c, Append(frames, last))
    BY <1>1, <1>3, <1>7, <2>9, <2>10 DEF PlainStep, w, S
  <2> QED BY <2>10, <2>11
<1> QED BY <1>1, <1>5, <1>6, <1>7

(* _maybeSendAcks.                                                         *)
LEMMA AcksStep ==
  ASSUME TypesOK, LinesOK, SendAcks
  PROVE  \E q, items : PlainStep(q, items) /\ SameHandshake(c, q)
<1> DEFINE q == IF Head(work).epoch = "oneRtt" THEN Send(c, "oneRtt", "ack") ELSE c
<1>1. work # <<>> /\ Head(work).do = "acks" /\ AtWork(q, <<>>)
  BY DEF SendAcks, Doing
<1>2. LogKept(c, q) /\ SameHandshake(c, q)
  <2>1. "ack" \in Whats /\ c \in Connections
    BY DEF Whats, TypesOK
  <2> QED BY <2>1, UnansweredKept, SelfKept
<1> HIDE DEF q
<1>3. Head(work).do \notin Acking
  BY <1>1 DEF Acking
<1>4. PlainStep(q, <<>>)
  BY <1>1, <1>2, <1>3, NoItems DEF PlainStep, SameHandshake
<1> QED BY <1>2, <1>4

(* CRYPTO data arrives and its buffer is to be processed.                  *)
LEMMA CryptoStep ==
  ASSUME TypesOK, LinesOK, HandleCrypto
  PROVE  \E q, items : PlainStep(q, items) /\ SameHandshake(c, q)
<1> DEFINE w == Head(work)
           all == c.buf[w.epoch] \o w.it.data
           q == [c EXCEPT !.buf[w.epoch] = all]
           n == Len(all)
           messages == [i \in 1 .. n |-> Item("message", w.epoch, all[i])]
           last == Item("processed", w.epoch, {})
           items == messages \o <<last>>
<1>1. work # <<>> /\ w.do = "crypto" /\ AtWork(q, items)
  BY ZenonT(60) DEF HandleCrypto, Doing
<1>2. w.epoch \in Epochs /\ w.it \in Frames(w.epoch, s)
  <2>1. w \in Items(c.appKeys, s)
    BY ZenonT(60), <1>1, HeadOfWork
  <2> HIDE DEF w
  <2> QED BY SMTT(40), <1>1, <2>1, ItemIs DEF FrameTypes
<1>3. c \in Connections
  BY DEF TypesOK
<1> DEFINE e == w.epoch
           S == Items(q.appKeys, s)
<1>4. all \in Seq(ServerMessages)
  <2>1. c.buf[e] \in Seq(ServerMessages)
    BY <1>2, <1>3 DEF Connections
  <2>2. w.it.data \in Seq(ServerMessages)
    BY <1>2 DEF Frames, AnyFrame
  <2> QED BY <2>1, <2>2, ConcatProperties
<1> HIDE DEF all
<1>5. LogKept(c, q) /\ SameHandshake(c, q)
  BY <1>2, <1>3, <1>4, BufferKept
<1>6. n \in Nat /\ \A i \in 1 .. n : all[i] \in ServerMessages
  BY <1>4, LenProperties, ElementOfSeq
<1> HIDE DEF n, q, w
<1>7. /\ \A i \in 1 .. n : Item("message", e, all[i]) \in S
      /\ last \in S
  BY <1>2, <1>6, ItemsHold
<1>8. /\ \A i \in 1 .. n : Item("message", e, all[i]).do \notin Acking
      /\ last.do \notin Acking
  BY ItemFields DEF Acking
<1> HIDE DEF S, last
<1>9. messages \in Seq(S) /\ Quiet(messages)
  <2>1. messages \in [1 .. n -> S]
    BY <1>7
  <2>2. \A i \in 1 .. n : messages[i].do \notin Acking
    BY <1>8
  <2> HIDE DEF messages
  <2> QED BY <1>6, <2>1, <2>2, FunctionIsSeq DEF Quiet
<1>10. <<last>> \in Seq(S) /\ Quiet(<<last>>)
  BY <1>7, <1>8 DEF Quiet
<1> HIDE DEF messages
<1>11. items \in Seq(S) /\ Quiet(items)
  BY <1>9, <1>10, QuietConcat, ConcatProperties
<1> HIDE DEF items
<1>12. w.do \notin Acking
  BY <1>1 DEF Acking
<1>13. PlainStep(q, items)
  BY <1>1, <1>5, <1>11, <1>12 DEF PlainStep, SameHandshake, w, S
<1> QED BY SMTT(40), <1>5, <1>13

(* The buffer is empty again.                                              *)
LEMMA ProcessedStep ==
  ASSUME TypesOK, LinesOK, BufferProcessed
  PROVE  \E q, items : PlainStep(q, items) /\ SameHandshake(c, q)
<1> DEFINE w == Head(work)
           q == [c EXCEPT !.buf[w.epoch] = <<>>]
<1>1. work # <<>> /\ w.do = "processed" /\ AtWork(q, <<>>)
  BY DEF BufferProcessed, Doing
<1>2. w.epoch \in Epochs
  <2>1. w \in Items(c.appKeys, s)
    BY <1>1, HeadOfWork
  <2> HIDE DEF w
  <2> QED BY <1>1, <2>1, ItemIs
<1>3. LogKept(c, q) /\ SameHandshake(c, q)
  <2>1. c \in Connections /\ <<>> \in Seq(ServerMessages)
    BY EmptySeq DEF TypesOK
  <2>2. PICK none \in Seq(ServerMessages) : none = <<>>
    BY <2>1
  <2>3. q = [c EXCEPT !.buf[w.epoch] = none]
    BY <2>2
  <2> HIDE DEF q
  <2> QED BY <1>2, <2>1, <2>3, BufferKept
<1> HIDE DEF q
<1>4. w.do \notin Acking
  BY <1>1 DEF Acking
<1>5. PlainStep(q, <<>>)
  BY <1>1, <1>3, <1>4, NoItems DEF PlainStep, SameHandshake
<1> QED BY <1>3, <1>5

(* CONNECTION_CLOSE.                                                       *)
LEMMA CloseStep ==
  ASSUME TypesOK, LinesOK, ConnectionClose
  PROVE  \E q, items : PlainStep(q, items) /\ SameHandshake(c, q)
<1> DEFINE q == [c EXCEPT !.errors = @ \cup {"connection_close"}]
<1>1. work # <<>> /\ Head(work).do = "close" /\ AtWork(q, <<>>)
  BY DEF ConnectionClose, Doing
<1>2. LogKept(c, q) /\ SameHandshake(c, q)
  <2>1. c \in Connections /\ "connection_close" \in Errors
    BY DEF TypesOK, Errors
  <2> QED BY <2>1, ErrorKept
<1> HIDE DEF q
<1>3. Head(work).do \notin Acking
  BY <1>1 DEF Acking
<1>4. PlainStep(q, <<>>)
  BY <1>1, <1>2, <1>3, NoItems DEF PlainStep, SameHandshake
<1> QED BY <1>2, <1>4

(* HANDSHAKE_DONE comes under 1-RTT keys, and only from a server that is   *)
(* done.                                                                   *)
LEMMA DoneStep ==
  ASSUME TypesOK, LinesOK, HandshakeDone
  PROVE  \E q, items : /\ PlainStep(q, items) /\ c.appKeys /\ s.done
                       /\ q.appKeys = c.appKeys /\ q.transcript = c.transcript
<1> DEFINE q == [c EXCEPT !.ready = TRUE]
           w == Head(work)
<1>1. work # <<>> /\ w.do = "done" /\ AtWork(q, <<>>)
  BY DEF HandshakeDone, Doing
<1>2. c \in Connections
  BY DEF TypesOK
<1>3. PICK yes \in BOOLEAN : yes = TRUE
  OBVIOUS
<1>4. q = [c EXCEPT !.ready = yes]
  BY <1>3
<1> HIDE DEF q
<1>5. q \in Connections
  BY <1>2, <1>4 DEF Connections
<1>6. /\ q.appKeys = c.appKeys /\ q.transcript = c.transcript
      /\ q.inflight = c.inflight /\ q.cwnd = c.cwnd /\ q.old = c.old /\ q.queue = c.queue
      /\ q.recoveries = c.recoveries /\ q.lost = c.lost /\ q.data = c.data
      /\ q.closed = c.closed /\ q.pto = c.pto /\ q.sent = c.sent /\ q.pn = c.pn
  BY <1>2, <1>4 DEF Connections
<1>7. c.pn.oneRtt \in Nat
  BY <1>2, EpochsAre DEF Connections
<1>8. SameBooks(c, q) /\ SameTimer(c, q) /\ q.pn.oneRtt >= c.pn.oneRtt
  BY <1>6, <1>7 DEF SameBooks, SameTimer
<1>9. LogKept(c, q)
  BY <1>2, <1>5, <1>6, <1>8, UntouchedKept
<1>10. c.appKeys /\ s.done
  <2>1. w \in Items(c.appKeys, s)
    BY <1>1, HeadOfWork
  <2> HIDE DEF w
  <2>2. w.it \in Frames(w.epoch, s) /\ w.it.type = "done" /\ c.appKeys
    BY <1>1, <2>1, ItemIs DEF FrameTypes
  <2> QED BY <2>2 DEF Frames
<1>11. w.do \notin Acking
  BY <1>1 DEF Acking
<1>12. PlainStep(q, <<>>)
  BY <1>1, <1>6, <1>9, <1>11, NoItems DEF PlainStep
<1> QED BY <1>6, <1>10, <1>12

(* A TLS message is taken, or it is a Finished that does not fit.          *)
Dropped == Becomes(c) /\ work' = <<>> /\ UNCHANGED Around
Taken(m) == PlainStep(OnMessage(c, m), <<>>) /\ m \in ServerMessages /\ ~Throws(m)

(* A message is taken, or the datagram is dropped.                         *)
LEMMA MessageStep ==
  ASSUME TypesOK, LinesOK, HandleMessage
  PROVE  Dropped \/ \E m : Taken(m)
<1> DEFINE w == Head(work)
           m == w.it
<1>1. /\ work # <<>> /\ w.do = "message"
      /\ Dropped \/ (~Throws(m) /\ AtWork(OnMessage(c, m), <<>>))
  BY DEF HandleMessage, Doing, Dropped
<1>2. m \in ServerMessages
  <2>1. w \in Items(c.appKeys, s)
    BY <1>1, HeadOfWork
  <2> HIDE DEF w
  <2> QED BY <1>1, <2>1, ItemIs
<1>3. w.do \notin Acking
  BY <1>1 DEF Acking
<1> HIDE DEF m
<1>4. ASSUME ~Throws(m), AtWork(OnMessage(c, m), <<>>)
      PROVE  Taken(m)
  <2> DEFINE q == OnMessage(c, m)
  <2>1. c \in Connections
    BY DEF TypesOK
  <2>2. /\ LogKept(c, q)
        /\ m # "FIN" => q.transcript = Append(c.transcript, m) /\ q.appKeys = c.appKeys
        /\ m = "FIN" => q.transcript = c.transcript \o <<"FIN", "CFIN">> /\ q.appKeys
    BY <1>2, <2>1, MessageKept
  <2> HIDE DEF q
  <2>3. c.appKeys => q.appKeys
    BY <2>2
  <2>4. PlainStep(q, <<>>)
    BY <1>1, <1>3, <1>4, <2>2, <2>3, NoItems DEF PlainStep, q
  <2> QED BY <1>2, <1>4, <2>4 DEF Taken, q
<1> QED BY <1>1, <1>4

(* Types.                                                                  *)
LEMMA WorkTypes ==
  ASSUME TypesOK, LinesOK, NEW q \in Connections, NEW items \in Seq(Items(q.appKeys, s)),
         c.appKeys => q.appKeys, work # <<>>, AtWork(q, items)
  PROVE  TypesOK' /\ LinesOK' /\ s' = s
<1>1. Becomes(q) /\ work' = items \o Tail(work) /\ s' = s /\ toClient' = toClient
  BY DEF AtWork, Leaving, Around
<1>2. c' \in Connections /\ c'.out = <<>> /\ toServer' \in Seq(SentPackets) /\ c'.appKeys = q.appKeys
  BY <1>1, Becoming DEF TypesOK, SameHandshake
<1>3. TypesOK'
  BY <1>1, <1>2 DEF TypesOK
<1> DEFINE S == Items(q.appKeys, s)
<1>4. Tail(work) \in Seq(S)
  <2>1. Seq(Items(c.appKeys, s)) \subseteq Seq(S)
    BY LinesGrow
  <2> HIDE DEF S
  <2> QED BY <2>1, HeadOfWork
<1> HIDE DEF S
<1>5. items \o Tail(work) \in Seq(S)
  BY <1>4, ConcatProperties DEF S
<1>6. work' \in Seq(Items(c'.appKeys, s'))
  BY <1>1, <1>2, <1>5 DEF S
<1>7. LinesOK'
  BY <1>1, <1>6 DEF LinesOK
<1> QED BY <1>1, <1>3, <1>7

(* Types after a plain step.                                               *)
LEMMA PlainTypes ==
  ASSUME TypesOK, LinesOK, NEW q, NEW items, PlainStep(q, items)
  PROVE  TypesOK' /\ LinesOK' /\ s' = s
BY WorkTypes DEF PlainStep, LogKept

(* Nothing of the client but what it sends, or nothing at all, is changed. *)
LEMMA StillTypes ==
  ASSUME TypesOK, LinesOK, NEW q \in Connections, SameHandshake(c, q),
         Becomes(q), UNCHANGED <<work, s, toClient>>
  PROVE  TypesOK' /\ LinesOK'
<1>1. c' \in Connections /\ c'.out = <<>> /\ toServer' \in Seq(SentPackets) /\ c'.appKeys = q.appKeys
  BY Becoming DEF TypesOK, SameHandshake
<1>2. c'.appKeys = c.appKeys
  BY <1>1 DEF SameHandshake
<1> QED BY <1>1, <1>2 DEF TypesOK, LinesOK

(* What an ACK names of the log is worked off next.                        *)
AckStep ==
  /\ work # <<>> /\ Head(work).do = "ack" /\ Becomes(c) /\ UNCHANGED Around
  /\ work' # <<>> /\ Head(work').do \in Acking
  /\ work' \in Seq(Items(c.appKeys, s)) /\ InTurn(work')
  /\ Expected(work', ToSet(c.sent.oneRtt), s.got)

(* HandleAck is such a step.                                               *)
LEMMA AckIsStep ==
  ASSUME TypesOK, LinesOK, InTurn(work), IsInjective(c.sent.oneRtt), HandleAck
  PROVE  AckStep
<1> DEFINE w == Head(work)
           e == w.epoch
           log == c.sent[e]
           pns == Outstanding(log, Acked(w.it))
           items == [i \in 1 .. Len(pns) |-> Item("acked", e, pns[i])] \o <<Item("ackEnd", e, {})>>
           S == Items(c.appKeys, s)
           rest == Tail(work)
<1>1. /\ work # <<>> /\ w.do = "ack" /\ Becomes(c) /\ work' = items \o rest /\ UNCHANGED Around
  BY ZenonT(60) DEF HandleAck, Doing, AtWork, Leaving
<1>2. e \in Epochs /\ w.it \in Frames(e, s) /\ w.it.type = "ack"
  <2>1. w \in Items(c.appKeys, s)
    BY ZenonT(60), <1>1, HeadOfWork
  <2> HIDE DEF w
  <2> QED BY SMTT(40), <1>1, <2>1, ItemIs DEF FrameTypes
<1>3. log \in Seq(Nat) /\ c.sent \in [Epochs -> Seq(Nat)]
  BY SMTT(40), <1>2 DEF TypesOK, Connections
<1>4. rest \in Seq(S) /\ Quiet(rest)
  <2>1. work \in Seq(S) /\ w.do # "acked"
    BY ZenonT(60), <1>1 DEF LinesOK
  <2> HIDE DEF S
  <2> QED BY ZenonT(60), <1>1, <2>1, QuietTail, TailItems
<1>5. pns \in Seq(Nat) /\ (\A i \in 1 .. Len(pns) : pns[i] \in ToSet(log) \cap Acked(w.it))
      /\ (IsInjective(log) => IsInjective(pns))
  <2> HIDE DEF log
  <2> QED BY <1>3, OutstandingProperties
<1>6. e = "oneRtt" => /\ IsInjective(pns)
                      /\ \A i \in 1 .. Len(pns) : pns[i] \in ToSet(c.sent.oneRtt) \cap s.got
  <2> SUFFICES ASSUME e = "oneRtt"
               PROVE  /\ IsInjective(pns)
                      /\ \A i \in 1 .. Len(pns) : pns[i] \in ToSet(c.sent.oneRtt) \cap s.got
    OBVIOUS
  <2>1. log = c.sent.oneRtt
    OBVIOUS
  <2>2. Acked(w.it) \subseteq s.got
    BY <1>2 DEF Frames
  <2> HIDE DEF log, pns
  <2> QED BY <1>5, <2>1, <2>2
<1>7. (\A n \in Nat : Item("acked", e, n) \in S) /\ Item("ackEnd", e, {}) \in S
  BY <1>2, ItemsHold
<1> HIDE DEF S, rest, pns, log, w
<1>8. /\ items \o rest \in Seq(S) /\ InTurn(items \o rest)
      /\ Expected(items \o rest, ToSet(c.sent.oneRtt), s.got)
      /\ items \o rest # <<>> /\ Head(items \o rest).do \in Acking
  BY ZenonT(60), <1>4, <1>5, <1>6, <1>7, AckedFirst
<1> HIDE DEF items
<1> QED BY SMTT(40), <1>1, <1>8 DEF AckStep, S, w

-----------------------------------------------------------------------------
(* The invariant is kept.                                                  *)


(* The client goes to a state that keeps the log.                          *)
LEMMA BecomingKept ==
  ASSUME TypesOK, NEW q, LogKept(c, q), Becomes(q)
  PROVE  LogKept(c, c') /\ SameHandshake(q, c')
<1>1. q \in Connections /\ c \in Connections /\ toServer \in Seq(SentPackets)
  BY DEF LogKept, TypesOK
<1>2. /\ c' \in Connections /\ SameHandshake(q, c') /\ SameBooks(q, c') /\ SameTimer(q, c')
      /\ c'.sent = q.sent /\ c'.pn = q.pn
  BY <1>1, Becoming
<1>3. q.pn.oneRtt \in Nat
  BY <1>1, EpochsAre DEF Connections
<1>4. c'.pn.oneRtt >= q.pn.oneRtt
  BY <1>2, <1>3
<1> DEFINE p == c'
<1> HIDE DEF p
<1>5. /\ p \in Connections /\ SameBooks(q, p) /\ SameTimer(q, p)
      /\ p.sent = q.sent /\ p.pn.oneRtt >= q.pn.oneRtt
  BY <1>2, <1>4 DEF p
<1>6. LogKept(q, p)
  BY <1>1, <1>5, UntouchedKept
<1>7. LogKept(c, p)
  BY <1>1, <1>6, KeptTransitive
<1> QED BY <1>2, <1>7 DEF p

(* The books after a step that keeps them.                                 *)
LEMMA HeldAfter ==
  ASSUME TypesOK, Held, LogKept(c, c'), s.got \subseteq s'.got
  PROVE  Books(c)' /\ Guarded(c)' /\ Kept' /\ (Honest(c) => Honest(c)')
         /\ ToSet(c'.sent.oneRtt) = ToSet(c.sent.oneRtt)
<1> DEFINE p == c'
<1>1. c \in Connections /\ Books(c) /\ Guarded(c) /\ LogKept(c, p)
  BY DEF TypesOK, Held, Timed
<1> HIDE DEF p
<1>2. Books(p) /\ Pending(p) = Pending(c) /\ p.lost = c.lost /\ p.data = c.data
  BY <1>1, BooksKept
<1>3. Guarded(p) /\ (Honest(c) => Honest(p)) /\ p.sent.oneRtt = c.sent.oneRtt
  BY <1>1 DEF LogKept
<1>4. Books(c') /\ Guarded(c') /\ (Honest(c) => Honest(c')) /\ c'.sent.oneRtt = c.sent.oneRtt
  BY <1>2, <1>3 DEF p
<1>5. c'.data \subseteq Pending(c') \cup c'.lost \cup s'.got
  BY <1>2 DEF p, Held, Kept
<1>6. Books(c)' /\ Guarded(c)' /\ (Honest(c) => Honest(c)')
  BY <1>4 DEF Books, Guarded, Honest, Pending, Waits
<1>7. Kept'
  BY <1>5 DEF Kept, Pending
<1> QED BY <1>4, <1>6, <1>7

(* The log, the timer and the order of work after a plain step.            *)
LEMMA PlainHeld ==
  ASSUME TypesOK, LinesOK, Held, NEW q, NEW items, PlainStep(q, items)
  PROVE  Held'
<1>1. /\ work # <<>> /\ Head(work).do \notin Acking /\ Becomes(q) /\ work' = items \o Tail(work)
      /\ s' = s /\ LogKept(c, q) /\ items \in Seq(Items(q.appKeys, s)) /\ Quiet(items)
      /\ (c.appKeys => q.appKeys)
  BY DEF PlainStep, AtWork, Leaving, Around
<1>2. LogKept(c, c')
  BY <1>1, BecomingKept
<1>3. Books(c)' /\ Guarded(c)' /\ Kept' /\ (Honest(c) => Honest(c)')
  BY <1>1, <1>2, HeldAfter
<1>4. Honest(c)
  BY <1>1 DEF Held, Timed, Honest
<1>5. Timed'
  BY <1>3, <1>4 DEF Timed, Honest, Waits
<1>6. Quiet(work')
  <2> DEFINE S == Items(q.appKeys, s)
  <2>1. Seq(Items(c.appKeys, s)) \subseteq Seq(S)
    BY <1>1, LinesGrow
  <2>2. work \in Seq(Items(c.appKeys, s)) /\ Tail(work) \in Seq(S)
    BY <1>1, <2>1, HeadOfWork DEF LinesOK
  <2>3. InTurn(work) /\ Head(work).do # "acked"
    BY <1>1 DEF Held, Ordered, Acking
  <2>4. Quiet(Tail(work))
    BY <1>1, <2>2, <2>3, QuietTail
  <2> HIDE DEF S
  <2>5. items \in Seq(S)
    BY <1>1 DEF S
  <2> QED BY <1>1, <2>2, <2>4, <2>5, QuietConcat
<1> DEFINE left == work'
<1> HIDE DEF left
<1>7. \A log, got : InTurn(left) /\ Expected(left, log, got)
  BY <1>6, QuietOwes DEF left
<1>8. InTurn(work') /\ Expected(work', ToSet(c'.sent.oneRtt), s'.got)
  BY <1>7 DEF left
<1>9. Ordered'
  BY <1>8 DEF Ordered, InTurn, Expected
<1> QED BY <1>3, <1>5, <1>9 DEF Held

(* The handshake after a step that leaves it alone.                        *)
LEMMA ShakenAfter ==
  ASSUME Shaken, SameHandshake(c, c'), s.done => s'.done
  PROVE  Shaken'
BY DEF Shaken, SameHandshake, Opens

(* Two steps that leave the handshake alone.                               *)
LEMMA SameTransitive ==
  ASSUME NEW q, NEW r, NEW p, SameHandshake(q, r), SameHandshake(r, p)
  PROVE  SameHandshake(q, p)
BY DEF SameHandshake

(* A plain step that leaves the handshake alone.                           *)
LEMMA PlainInv ==
  ASSUME IInv, NEW q, NEW items, PlainStep(q, items)
  PROVE  /\ TypesOK' /\ LinesOK' /\ Held' /\ s' = s /\ SameHandshake(q, c')
         /\ SameHandshake(c, q) => IInv'
<1>1. TypesOK' /\ LinesOK' /\ Held' /\ s' = s
  BY PlainTypes, PlainHeld DEF IInv
<1>2. SameHandshake(q, c')
  BY BecomingKept DEF IInv, PlainStep, AtWork
<1>3. SameHandshake(c, q) => Shaken'
  BY <1>1, <1>2, SameTransitive, ShakenAfter DEF IInv
<1> QED BY <1>1, <1>2, <1>3 DEF IInv

(* Packets, ACKs to send, CRYPTO data and the server's close.              *)
LEMMA QuietSteps ==
  ASSUME IInv, HandlePacket \/ SendAcks \/ HandleCrypto \/ BufferProcessed \/ ConnectionClose
  PROVE  IInv'
<1>1. PICK q, items : PlainStep(q, items) /\ SameHandshake(c, q)
  BY PacketStep, AcksStep, CryptoStep, ProcessedStep, CloseStep DEF IInv
<1> QED BY <1>1, PlainInv

(* HANDSHAKE_DONE.                                                         *)
LEMMA DoneInv ==
  ASSUME IInv, HandshakeDone
  PROVE  IInv'
<1>1. PICK q, items : /\ PlainStep(q, items) /\ c.appKeys /\ s.done
                      /\ q.appKeys = c.appKeys /\ q.transcript = c.transcript
  BY DoneStep DEF IInv
<1>2. TypesOK' /\ LinesOK' /\ Held' /\ s' = s /\ SameHandshake(q, c')
  BY <1>1, PlainInv
<1>3. Shaken'
  BY <1>1, <1>2 DEF IInv, Shaken, SameHandshake, Opens
<1> QED BY <1>2, <1>3 DEF IInv

(* More messages leave the opening of a transcript as it is.               *)
LEMMA OpeningStays ==
  ASSUME NEW t \in Seq(Messages), NEW more \in Seq(Messages), Opens(t)
  PROVE  Opens(t \o more)
<1>1. Len(t) \in Nat /\ Len(more) \in Nat /\ Len(t) >= 7
  BY LenProperties DEF Opens
<1>2. Len(t \o more) = Len(t) + Len(more) /\ \A i \in 1 .. Len(t) : (t \o more)[i] = t[i]
  BY ConcatProperties
<1> QED BY <1>1, <1>2 DEF Opens

(* What a Finished that fits makes of the transcript.                      *)
LEMMA OpeningMade == Opens(<<"CH", "SH", "EE", "CT", "CV", "FIN", "CFIN">>)
BY DEF Opens, Agreed, Flight1, Flight2, Flight3

(* A TLS message: the keys come only with a Finished that fits.            *)
LEMMA MessageInv ==
  ASSUME IInv, HandleMessage
  PROVE  IInv'
<1>1. Dropped \/ \E m : Taken(m)
  BY MessageStep DEF IInv
<1>2. ASSUME Dropped PROVE IInv'
  <2>1. Becomes(c) /\ work' = <<>> /\ s' = s /\ toClient' = toClient /\ c \in Connections
    BY <1>2 DEF Dropped, Around, IInv, TypesOK
  <2>2. LogKept(c, c) /\ SameHandshake(c, c)
    BY <2>1, SelfKept
  <2>3. LogKept(c, c') /\ SameHandshake(c, c')
    BY <2>1, <2>2, BecomingKept DEF IInv
  <2>4. TypesOK'
    BY <2>1, Becoming DEF IInv, TypesOK
  <2>5. LinesOK'
    BY <2>1, EmptySeq DEF IInv, LinesOK
  <2>6. Shaken'
    BY <2>1, <2>3, ShakenAfter DEF IInv
  <2>7. Books(c)' /\ Guarded(c)' /\ Kept' /\ (Honest(c) => Honest(c)')
    BY <2>1, <2>3, HeldAfter DEF IInv
  <2>8. work # <<>> /\ Head(work).do \notin Acking
    BY DEF HandleMessage, Doing, Acking
  <2>9. Honest(c)
    BY <2>8 DEF IInv, Held, Timed, Honest
  <2>10. Timed'
    BY <2>7, <2>9 DEF Timed, Honest, Waits
  <2>11. Ordered'
    BY <2>1 DEF Ordered, InTurn, Expected
  <2> QED BY <2>4, <2>5, <2>6, <2>7, <2>10, <2>11 DEF IInv, Held
<1>3. ASSUME NEW m, Taken(m) PROVE IInv'
  <2> DEFINE q == OnMessage(c, m)
  <2>1. PlainStep(q, <<>>) /\ m \in ServerMessages /\ ~Throws(m)
    BY <1>3 DEF Taken
  <2>2. c \in Connections
    BY DEF IInv, TypesOK
  <2>3. /\ q.ready = c.ready
        /\ m # "FIN" => q.transcript = Append(c.transcript, m) /\ q.appKeys = c.appKeys
        /\ m = "FIN" => q.transcript = c.transcript \o <<"FIN", "CFIN">> /\ q.appKeys
    BY <2>1, <2>2, MessageKept
  <2> HIDE DEF q
  <2>4. TypesOK' /\ LinesOK' /\ Held' /\ s' = s /\ SameHandshake(q, c')
    BY <2>1, PlainInv
  <2>5. q.appKeys => Opens(q.transcript)
    <3>1. ASSUME m = "FIN" PROVE Opens(q.transcript)
      <4>1. c.transcript = <<"CH", "SH", "EE", "CT", "CV">>
        BY <2>1, <3>1 DEF Throws, FinishedFits, Flight1, Flight2, Flight3
      <4>2. q.transcript = <<"CH", "SH", "EE", "CT", "CV", "FIN", "CFIN">>
        BY <2>3, <3>1, <4>1
      <4> QED BY <4>2, OpeningMade
    <3>2. ASSUME m # "FIN", q.appKeys PROVE Opens(q.transcript)
      <4>1. c.transcript \in Seq(Messages) /\ m \in Messages /\ Opens(c.transcript)
        BY <2>1, <2>2, <2>3, <3>2 DEF Connections, IInv, Shaken, ServerMessages, Messages
      <4>2. <<m>> \in Seq(Messages) /\ Append(c.transcript, m) = c.transcript \o <<m>>
        BY <4>1
      <4>3. Opens(c.transcript \o <<m>>)
        BY <4>1, <4>2, OpeningStays
      <4> QED BY <2>3, <3>2, <4>2, <4>3
    <3> QED BY <3>1, <3>2
  <2>6. c.ready => q.appKeys /\ s.done
    <3>1. c.ready => c.appKeys /\ s.done
      BY DEF IInv, Shaken
    <3> QED BY <2>3, <3>1
  <2>7. Shaken'
    BY <2>3, <2>4, <2>5, <2>6 DEF Shaken, SameHandshake, Opens
  <2> QED BY <2>4, <2>7 DEF IInv
<1> QED BY <1>1, <1>2, <1>3

(* An ACK: its packets and its end come next.                              *)
LEMMA AckInv ==
  ASSUME IInv, HandleAck
  PROVE  IInv'
<1>1. AckStep
  BY AckIsStep DEF IInv, Held, Ordered, Books
<1>2. /\ Becomes(c) /\ s' = s /\ toClient' = toClient /\ work # <<>> /\ Head(work).do = "ack"
      /\ work' # <<>> /\ Head(work').do \in Acking /\ work' \in Seq(Items(c.appKeys, s))
      /\ InTurn(work') /\ Expected(work', ToSet(c.sent.oneRtt), s.got) /\ c \in Connections
  BY <1>1 DEF AckStep, Around, IInv, TypesOK
<1>3. LogKept(c, c) /\ SameHandshake(c, c)
  BY <1>2, SelfKept
<1>4. LogKept(c, c') /\ SameHandshake(c, c')
  BY <1>2, <1>3, BecomingKept DEF IInv
<1>5. TypesOK'
  BY <1>2, Becoming DEF IInv, TypesOK
<1>6. LinesOK'
  BY <1>2, <1>4 DEF IInv, LinesOK, SameHandshake
<1>7. Shaken'
  BY <1>2, <1>4, ShakenAfter DEF IInv
<1>8. /\ Books(c)' /\ Guarded(c)' /\ Kept'
      /\ ToSet(c'.sent.oneRtt) = ToSet(c.sent.oneRtt)
  BY <1>2, <1>4, HeldAfter DEF IInv
<1>9. Timed'
  BY <1>2, <1>8 DEF Timed
<1>10. InTurn(work') /\ Expected(work', ToSet(c'.sent.oneRtt), s'.got)
  BY <1>2, <1>8
<1>11. Ordered'
  BY <1>10 DEF Ordered, InTurn, Expected
<1> QED BY <1>5, <1>6, <1>7, <1>8, <1>9, <1>11 DEF IInv, Held

(* What the client becomes keeps its books.                                *)
LEMMA BooksMoved ==
  ASSUME NEW q \in Connections, NEW p \in Connections, Books(q), SameBooks(q, p),
         p.sent = q.sent, p.pn = q.pn
  PROVE  Books(p) /\ Pending(p) = Pending(q)
BY DEF Books, SameBooks, Pending

(* The timer depends on the log and the flags alone.                       *)
LEMMA GuardMoved ==
  ASSUME NEW q, NEW p, SameTimer(q, p), p.sent = q.sent
  PROVE  (Guarded(q) => Guarded(p)) /\ (Honest(q) => Honest(p))
BY DEF Guarded, Honest, Waits, SameTimer

(* The client goes to q, which keeps its own books.                        *)
LEMMA BecomingBooks ==
  ASSUME NEW q \in Connections, Books(q), toServer \in Seq(SentPackets), Becomes(q)
  PROVE  /\ Books(c)' /\ Pending(c') = Pending(q)
         /\ (Guarded(q) => Guarded(c)') /\ (Honest(q) => Honest(c)')
         /\ SameHandshake(q, c') /\ SameBooks(q, c') /\ c'.sent = q.sent
<1> DEFINE p == c'
<1>1. /\ p \in Connections /\ SameHandshake(q, p) /\ SameBooks(q, p) /\ SameTimer(q, p)
      /\ p.sent = q.sent /\ p.pn = q.pn
  BY Becoming
<1> HIDE DEF p
<1>2. Books(p) /\ Pending(p) = Pending(q)
  BY <1>1, BooksMoved
<1>3. (Guarded(q) => Guarded(p)) /\ (Honest(q) => Honest(p))
  BY <1>1, GuardMoved
<1>4. /\ Books(c') /\ Pending(c') = Pending(q)
      /\ (Guarded(q) => Guarded(c')) /\ (Honest(q) => Honest(c'))
  BY <1>2, <1>3 DEF p
<1>5. Books(c)' /\ (Guarded(q) => Guarded(c)') /\ (Honest(q) => Honest(c)')
  BY <1>4 DEF Books, Guarded, Honest, Pending, Waits
<1> QED BY <1>1, <1>4, <1>5 DEF p

(* An acknowledged packet leaves the log.                                  *)
LEMMA AckedInv ==
  ASSUME IInv, PacketAcked
  PROVE  IInv'
<1> DEFINE w == Head(work)
           e == w.epoch
           n == w.it
           q == AckOne(c, e, n)
           S == Items(c.appKeys, s)
           log == ToSet(c.sent.oneRtt)
<1>1. work # <<>> /\ w.do = "acked" /\ AtWork(q, <<>>)
  BY DEF PacketAcked, Doing
<1>2. Becomes(q) /\ work' = <<>> \o Tail(work) /\ s' = s /\ toClient' = toClient
  BY <1>1 DEF AtWork, Leaving, Around
<1>3. c \in Connections /\ Books(c) /\ Guarded(c) /\ toServer \in Seq(SentPackets)
  BY DEF IInv, TypesOK, Held, Timed
<1>4. work \in Seq(S) /\ w \in S /\ Tail(work) \in Seq(S)
  BY <1>1, HeadOfWork DEF IInv, LinesOK
<1>5. e \in Epochs /\ n \in Nat
  <2> HIDE DEF w
  <2> QED BY <1>1, <1>4, ItemIs
<1>6. work' = Tail(work)
  <2> HIDE DEF S
  <2> QED BY <1>2, <1>4
<1>7. InTurn(work) /\ Expected(work, log, s.got)
  BY DEF IInv, Held, Ordered
<1>8. e = "oneRtt" => n \in log \cap s.got
  <2>1. 1 \in DOMAIN work /\ w = work[1]
    <3> HIDE DEF S
    <3> QED BY <1>1, <1>4, TailItems
  <2> HIDE DEF log
  <2> QED BY <1>1, <1>7, <2>1 DEF Expected, Due
<1>9. /\ q \in Connections /\ SameHandshake(c, q) /\ Books(q) /\ Guarded(q)
      /\ q.data = c.data /\ q.lost = c.lost
      /\ Pending(c) \subseteq Pending(q) \cup s.got
      /\ (e = "oneRtt" => log \ {n} \subseteq ToSet(q.sent.oneRtt))
      /\ (e # "oneRtt" => log \subseteq ToSet(q.sent.oneRtt))
  <2>1. ASSUME e = "oneRtt"
        PROVE  /\ q \in Connections /\ SameHandshake(c, q) /\ Books(q) /\ Guarded(q)
               /\ q.data = c.data /\ q.lost = c.lost
               /\ Pending(q) = Pending(c) \ {n}
               /\ log \ {n} \subseteq ToSet(q.sent.oneRtt)
    <3>1. q = AckOne(c, "oneRtt", n) /\ n \in ToSet(c.sent.oneRtt)
      BY <1>8, <2>1
    <3> HIDE DEF e, n, q
    <3> QED BY <1>3, <3>1, AckOneData
  <2>2. ASSUME e # "oneRtt"
        PROVE  /\ q \in Connections /\ SameHandshake(c, q) /\ Books(q) /\ Guarded(q)
               /\ q.data = c.data /\ q.lost = c.lost
               /\ Pending(q) = Pending(c)
               /\ q.sent.oneRtt = c.sent.oneRtt
    <3> HIDE DEF e, n
    <3>1. /\ q \in Connections /\ SameHandshake(c, q) /\ SameBooks(c, q)
          /\ q.sent.oneRtt = c.sent.oneRtt /\ q.pn = c.pn /\ (Guarded(c) => Guarded(q))
      BY <1>3, <1>5, <2>2, AckOneHandshake
    <3> HIDE DEF q
    <3>2. Books(q) /\ Pending(q) = Pending(c) /\ q.data = c.data /\ q.lost = c.lost
      BY <1>3, <3>1 DEF Books, SameBooks, Pending
    <3> QED BY <1>3, <3>1, <3>2
  <2> HIDE DEF q, log
  <2>3. CASE e = "oneRtt"
    BY <1>8, <2>1, <2>3
  <2>4. CASE e # "oneRtt"
    BY <2>2, <2>4 DEF log
  <2> QED BY <2>3, <2>4
<1> HIDE DEF q
<1>10. /\ Books(c)' /\ Pending(c') = Pending(q) /\ Guarded(c)' /\ SameHandshake(q, c')
       /\ SameBooks(q, c') /\ c'.sent = q.sent
  BY <1>2, <1>3, <1>9, BecomingBooks
<1>11. /\ InTurn(Tail(work)) /\ Expected(Tail(work), ToSet(q.sent.oneRtt), s.got)
       /\ Tail(work) # <<>> /\ Head(Tail(work)).do \in Acking
  <2> DEFINE more == ToSet(q.sent.oneRtt)
  <2>1. /\ e = "oneRtt" => log \ {n} \subseteq more
        /\ e # "oneRtt" => log \subseteq more
    BY <1>9
  <2> HIDE DEF S, more, log
  <2>2. InTurn(Tail(work)) /\ Expected(Tail(work), more, s.got)
        /\ Tail(work) # <<>> /\ Head(Tail(work)).do \in Acking
    BY <1>1, <1>4, <1>7, <2>1, AckedTail
  <2> QED BY <2>2 DEF more
<1>12. TypesOK' /\ LinesOK'
  <2>1. <<>> \in Seq(Items(q.appKeys, s)) /\ (c.appKeys => q.appKeys)
    BY <1>9, EmptySeq DEF SameHandshake
  <2>2. AtWork(q, <<>>)
    BY <1>1 DEF q
  <2> QED BY <1>1, <1>9, <2>1, <2>2, WorkTypes DEF IInv
<1>13. Shaken'
  <2>1. SameHandshake(c, c')
    BY <1>9, <1>10, SameTransitive
  <2> QED BY <1>2, <2>1, ShakenAfter DEF IInv
<1>14. Timed'
  BY <1>6, <1>10, <1>11 DEF Timed
<1>15. Ordered'
  <2>1. InTurn(work') /\ Expected(work', ToSet(c'.sent.oneRtt), s'.got)
    BY <1>2, <1>6, <1>10, <1>11
  <2> QED BY <2>1 DEF Ordered, InTurn, Expected
<1>16. Kept'
  <2>1. c.data \subseteq Pending(c) \cup c.lost \cup s.got
    BY DEF IInv, Held, Kept
  <2>2. c'.data = q.data /\ c'.lost = q.lost
    BY <1>10 DEF SameBooks
  <2>3. c'.data \subseteq Pending(c') \cup c'.lost \cup s'.got
    BY <1>2, <1>9, <1>10, <2>1, <2>2
  <2> QED BY <2>3 DEF Kept, Pending
<1> QED BY <1>10, <1>12, <1>13, <1>14, <1>15, <1>16 DEF IInv, Held

(* The end of an ACK.                                                      *)
LEMMA AckEndInv ==
  ASSUME IInv, AckEnds
  PROVE  IInv'
<1> DEFINE q == Rearm([c EXCEPT !.tries = 0])
           S == Items(c.appKeys, s)
<1>1. work # <<>> /\ Head(work).do = "ackEnd" /\ AtWork(q, <<>>)
  BY DEF AckEnds, Doing
<1>2. Becomes(q) /\ work' = <<>> \o Tail(work) /\ s' = s /\ toClient' = toClient
  BY <1>1 DEF AtWork, Leaving, Around
<1>3. c \in Connections /\ Books(c) /\ toServer \in Seq(SentPackets)
  BY DEF IInv, TypesOK, Held
<1>4. /\ q \in Connections /\ SameHandshake(c, q) /\ SameBooks(c, q)
      /\ q.sent = c.sent /\ q.pn = c.pn /\ (q.pto <=> Waits(q))
  BY <1>3, AckEndsTyped
<1> HIDE DEF q
<1>5. Books(q) /\ Pending(q) = Pending(c) /\ Guarded(q) /\ Honest(q)
  BY <1>3, <1>4, BooksMoved DEF Guarded, Honest
<1>6. /\ Books(c)' /\ Pending(c') = Pending(q) /\ Guarded(c)' /\ Honest(c)'
      /\ SameHandshake(q, c') /\ SameBooks(q, c')
  BY <1>2, <1>3, <1>4, <1>5, BecomingBooks
<1>7. Tail(work) \in Seq(S) /\ Quiet(Tail(work))
  <2>1. work \in Seq(S) /\ InTurn(work)
    BY DEF IInv, LinesOK, Held, Ordered
  <2> HIDE DEF S
  <2> QED BY <1>1, <2>1, TailItems, QuietTail
<1>8. work' = Tail(work)
  <2> HIDE DEF S
  <2> QED BY <1>2, <1>7
<1>9. TypesOK' /\ LinesOK'
  <2>1. <<>> \in Seq(Items(q.appKeys, s)) /\ (c.appKeys => q.appKeys)
    BY <1>4, EmptySeq DEF SameHandshake
  <2>2. AtWork(q, <<>>)
    BY <1>1 DEF q
  <2> QED BY <1>1, <1>4, <2>1, <2>2, WorkTypes DEF IInv
<1>10. Shaken'
  <2>1. SameHandshake(c, c')
    BY <1>4, <1>6, SameTransitive
  <2> QED BY <1>2, <2>1, ShakenAfter DEF IInv
<1>11. Timed'
  BY <1>6 DEF Timed, Honest, Waits
<1>12. Ordered'
  <2> DEFINE left == work'
  <2>1. Quiet(left)
    BY <1>7, <1>8
  <2> HIDE DEF left
  <2>2. \A log, got : InTurn(left) /\ Expected(left, log, got)
    BY <2>1, QuietOwes
  <2>3. InTurn(work') /\ Expected(work', ToSet(c'.sent.oneRtt), s'.got)
    BY <2>2 DEF left
  <2> QED BY <2>3 DEF Ordered, InTurn, Expected
<1>13. Kept'
  <2>1. c.data \subseteq Pending(c) \cup c.lost \cup s.got
    BY DEF IInv, Held, Kept
  <2>2. c'.data = c.data /\ c'.lost = c.lost
    BY <1>4, <1>6 DEF SameBooks
  <2>3. c'.data \subseteq Pending(c') \cup c'.lost \cup s'.got
    BY <1>2, <1>5, <1>6, <2>1, <2>2
  <2> QED BY <2>3 DEF Kept, Pending
<1> QED BY <1>6, <1>9, <1>10, <1>11, <1>12, <1>13 DEF IInv, Held

(* Between two pieces of work, the client goes from one sound state to     *)
(* another.                                                                *)
LEMMA RestStep ==
  ASSUME IInv, work = <<>>, NEW p, Advanced(c, p), NEW q \in Connections,
         SameHandshake(p, q), SameTimer(p, q), q.sent = p.sent, q.pn = p.pn,
         Books(q), q.lost = p.lost, Pending(q) = Pending(p),
         q.data \subseteq p.data \cup Pending(p),
         Becomes(q), UNCHANGED <<work, s, toClient>>
  PROVE  IInv'
<1>1. /\ c \in Connections /\ Books(c) /\ toServer \in Seq(SentPackets)
      /\ p \in Connections /\ SameHandshake(c, p) /\ Guarded(p) /\ Honest(p)
      /\ p.data = c.data /\ c.lost \subseteq p.lost
      /\ Pending(c) \subseteq Pending(p) \cup p.lost
  BY DEF IInv, TypesOK, Held, Advanced
<1>2. SameHandshake(c, q)
  BY <1>1, SameTransitive
<1>3. Guarded(q) /\ Honest(q)
  BY <1>1, GuardMoved
<1>4. /\ Books(c)' /\ Pending(c') = Pending(q) /\ Guarded(c)' /\ Honest(c)'
      /\ SameHandshake(q, c') /\ SameBooks(q, c')
  BY <1>1, <1>3, BecomingBooks
<1>5. TypesOK' /\ LinesOK'
  BY <1>2, StillTypes DEF IInv
<1>6. Shaken'
  <2>1. SameHandshake(c, c')
    BY <1>2, <1>4, SameTransitive
  <2> QED BY <2>1, ShakenAfter DEF IInv
<1>7. Timed'
  BY <1>4 DEF Timed, Honest, Waits
<1>8. Ordered'
  BY DEF Ordered, InTurn, Expected
<1>9. Kept'
  <2>1. c.data \subseteq Pending(c) \cup c.lost \cup s.got
    BY DEF IInv, Held, Kept
  <2>2. c'.data \subseteq Pending(c') \cup c'.lost \cup s'.got
    BY <1>1, <1>4, <2>1 DEF SameBooks
  <2> QED BY <2>2 DEF Kept, Pending
<1> QED BY <1>4, <1>5, <1>6, <1>7, <1>8, <1>9 DEF IInv, Held

(* Between two pieces of work the timer runs only for what is outstanding. *)
LEMMA AtRestHonest ==
  ASSUME IInv, AtRest
  PROVE  /\ work = <<>> /\ c \in Connections /\ Books(c) /\ Guarded(c) /\ Honest(c)
BY DEF IInv, AtRest, TypesOK, Held, Timed, Honest

(* The probe timer.                                                        *)
LEMMA PtoInv ==
  ASSUME IInv, PtoFires
  PROVE  IInv'
<1> DEFINE p == OnPto(c)
           more == p.fired + 1
           q == [p EXCEPT !.fired = more]
<1>1. AtRest /\ c.pto /\ Becomes([OnPto(c) EXCEPT !.fired = @ + 1]) /\ UNCHANGED <<work, s, toClient>>
  BY DEF PtoFires
<1>2. work = <<>> /\ c \in Connections /\ Books(c) /\ Waits(c)
  BY <1>1, AtRestHonest DEF Honest
<1>3. Advanced(c, p)
  BY <1>2, PtoAdvances
<1>4. Becomes(q)
  BY <1>1
<1> HIDE DEF p
<1>5. p \in Connections /\ Books(p)
  BY <1>3 DEF Advanced
<1>6. more \in Nat
  BY <1>5 DEF Connections
<1> HIDE DEF more
<1>7. q \in Connections
  BY <1>5, <1>6 DEF Connections
<1>8. /\ SameHandshake(p, q) /\ SameTimer(p, q) /\ q.sent = p.sent /\ q.pn = p.pn
      /\ SameBooks(p, q) /\ q.lost = p.lost /\ q.data = p.data
  BY <1>5 DEF Connections, SameHandshake, SameTimer, SameBooks
<1> HIDE DEF q
<1>9. Books(q) /\ Pending(q) = Pending(p)
  BY <1>5, <1>7, <1>8, BooksMoved
<1>10. q.data \subseteq p.data \cup Pending(p)
  BY <1>8
<1> QED BY <1>1, <1>2, <1>3, <1>4, <1>7, <1>8, <1>9, <1>10, RestStep

(* STREAM data: the new packet is in the log or in the queue.              *)
LEMMA SendInv ==
  ASSUME IInv, SendData
  PROVE  IInv'
<1> DEFINE p == OnSend(c)
           n == c.pn.oneRtt
           more == p.data \cup {n}
           q == [p EXCEPT !.data = more]
<1>1. AtRest /\ Becomes([OnSend(c) EXCEPT !.data = @ \cup {c.pn.oneRtt}]) /\ UNCHANGED <<work, s, toClient>>
  BY DEF SendData
<1>2. work = <<>> /\ c \in Connections /\ Books(c) /\ Guarded(c) /\ Honest(c)
  BY <1>1, AtRestHonest
<1>3. Advanced(c, p) /\ n \in Pending(p)
  BY <1>2, SendAdvances
<1>4. Becomes(q)
  BY <1>1
<1>5. n \in Nat
  BY <1>2, EpochsAre DEF Connections
<1> HIDE DEF p, n
<1>6. p \in Connections /\ Books(p)
  BY <1>3 DEF Advanced
<1>7. more \in SUBSET Nat /\ more \subseteq p.data \cup Pending(p)
  BY <1>3, <1>5, <1>6 DEF Connections
<1> HIDE DEF more
<1>8. q \in Connections
  BY <1>6, <1>7 DEF Connections
<1>9. /\ SameHandshake(p, q) /\ SameTimer(p, q) /\ q.sent = p.sent /\ q.pn = p.pn
      /\ q.inflight = p.inflight /\ q.cwnd = p.cwnd /\ q.old = p.old /\ q.queue = p.queue
      /\ q.recoveries = p.recoveries /\ q.lost = p.lost /\ q.data = more
  BY <1>6 DEF Connections, SameHandshake, SameTimer
<1> HIDE DEF q
<1>10. Books(q) /\ Pending(q) = Pending(p)
  BY <1>6, <1>9 DEF Books, Pending
<1>11. q.data \subseteq p.data \cup Pending(p)
  BY <1>7, <1>9
<1> QED BY <1>1, <1>2, <1>3, <1>4, <1>8, <1>9, <1>10, <1>11, RestStep

(* close().                                                                *)
LEMMA CloseInv ==
  ASSUME IInv, Close
  PROVE  IInv'
<1> DEFINE p == Closed(c)
<1>1. AtRest /\ Becomes(p) /\ UNCHANGED <<work, s, toClient>>
  BY DEF Close
<1>2. work = <<>> /\ c \in Connections /\ Books(c) /\ Guarded(c) /\ Honest(c)
  BY <1>1, AtRestHonest
<1>3. LogKept(c, p) /\ SameHandshake(c, p)
  BY <1>2, ClosedKept
<1> HIDE DEF p
<1>4. Guarded(p) /\ Honest(p) /\ p \in Connections
  BY <1>2, <1>3 DEF LogKept
<1>5. Advanced(c, p)
  BY <1>2, <1>3, <1>4, KeptAdvances
<1>6. Books(p)
  BY <1>5 DEF Advanced
<1>7. SameHandshake(p, p) /\ SameTimer(p, p)
  BY DEF SameHandshake, SameTimer
<1> QED BY <1>1, <1>2, <1>4, <1>5, <1>6, <1>7, RestStep

(* Where neither the client nor its work moves, and the server learns      *)
(* something at most, only the types are at stake.                         *)
LEMMA Elsewhere ==
  ASSUME IInv, UNCHANGED <<c, work>>, s.done => s'.done, s.got \subseteq s'.got
  PROVE  Shaken' /\ Held'
<1>1. Shaken'
  BY DEF IInv, Shaken, Opens
<1>2. Books(c)' /\ Timed'
  BY DEF IInv, Held, Timed, Books, Pending, Guarded, Waits
<1>3. Ordered'
  <2>1. Ordered
    BY DEF IInv, Held
  <2> DEFINE log == ToSet(c.sent.oneRtt)
  <2>2. InTurn(work) /\ Expected(work, log, s.got)
    BY <2>1 DEF Ordered
  <2>3. Expected(work, log, s'.got)
    BY <2>2 DEF Expected
  <2>4. ToSet(c'.sent.oneRtt) = log
    OBVIOUS
  <2> HIDE DEF log
  <2>5. InTurn(work') /\ Expected(work', ToSet(c'.sent.oneRtt), s'.got)
    BY <2>2, <2>3, <2>4
  <2> QED BY <2>5 DEF Ordered, InTurn, Expected
<1>4. Kept'
  BY DEF IInv, Held, Kept, Pending
<1> QED BY <1>1, <1>2, <1>3, <1>4 DEF Held

(* Queues of the network, shortened or with two heads exchanged.           *)
LEMMA QueueOfLines ==
  ASSUME NEW S, NEW q \in Seq(S), q # <<>>
  PROVE  /\ Head(q) \in S /\ Tail(q) \in Seq(S)
         /\ Len(q) > 1 => <<q[2], q[1]>> \o SubSeq(q, 3, Len(q)) \in Seq(S)
<1>1. Head(q) \in S /\ Tail(q) \in Seq(S) /\ Len(q) \in Nat
  BY TailItems
<1>2. ASSUME Len(q) > 1 PROVE <<q[2], q[1]>> \o SubSeq(q, 3, Len(q)) \in Seq(S)
  <2>1. q[1] \in S /\ q[2] \in S
    BY <1>1, <1>2, ElementOfSeq
  <2>2. <<q[2], q[1]>> \in Seq(S)
    BY <2>1
  <2>3. SubSeq(q, 3, Len(q)) \in Seq(S)
    BY <1>1
  <2> QED BY <2>2, <2>3, ConcatProperties
<1> QED BY <1>1, <1>2

(* A datagram becomes the work at hand.                                    *)
LEMMA ReceivesInv ==
  ASSUME IInv, AtRest, toClient # <<>>, Receives(Head(toClient)),
         toClient' \in Seq(Seq(Packets(s)))
  PROVE  IInv'
<1> DEFINE d == Head(toClient)
           P == Packets(s)
           S == Items(c.appKeys, s)
           n == Len(d)
           all == [i \in 1 .. n |-> Item("packet", d[i].kind, d[i])]
<1>1. work' = all /\ UNCHANGED <<c, s, toServer>>
  BY DEF Receives
<1>2. d \in Seq(P)
  <2>1. toClient \in Seq(Seq(P))
    BY DEF IInv, LinesOK
  <2> DEFINE T == Seq(P)
  <2> HIDE DEF T
  <2>2. d \in T
    BY <2>1, TailItems DEF T
  <2> QED BY <2>2 DEF T
<1> HIDE DEF d, P
<1>3. n \in Nat /\ \A i \in 1 .. n : d[i] \in P
  BY <1>2, LenProperties, ElementOfSeq
<1> HIDE DEF n
<1>4. \A i \in 1 .. n : Item("packet", d[i].kind, d[i]) \in S
  BY <1>3, ItemsHold DEF P
<1> HIDE DEF S
<1>5. all \in Seq(S) /\ DOMAIN all = 1 .. n
  <2>1. all \in [1 .. n -> S]
    BY <1>4
  <2> QED BY <1>3, <2>1, FunctionIsSeq
<1>6. Quiet(all)
  <2>1. \A i \in 1 .. n : Item("packet", d[i].kind, d[i]).do \notin Acking
    BY ItemFields DEF Acking
  <2>2. \A i \in 1 .. n : all[i].do \notin Acking
    BY <2>1
  <2> HIDE DEF all
  <2> QED BY <1>5, <2>2 DEF Quiet
<1> HIDE DEF all
<1>7. TypesOK' /\ LinesOK'
  BY <1>1, <1>5 DEF IInv, TypesOK, LinesOK, S
<1>8. Books(c)' /\ Guarded(c)' /\ Kept' /\ Shaken'
  BY <1>1 DEF IInv, Shaken, Opens, Held, Timed, Books, Pending, Guarded, Waits, Kept
<1>9. Honest(c)
  BY AtRestHonest
<1>10. Timed'
  BY <1>1, <1>8, <1>9 DEF Timed, Honest, Waits
<1>11. Ordered'
  <2>1. \A log, got : InTurn(all) /\ Expected(all, log, got)
    BY <1>6, QuietOwes
  <2>2. InTurn(work') /\ Expected(work', ToSet(c'.sent.oneRtt), s'.got)
    BY <1>1, <2>1
  <2> QED BY <2>2 DEF Ordered, InTurn, Expected
<1> QED BY <1>7, <1>8, <1>10, <1>11 DEF IInv, Held

(* The network delivers, duplicates, reorders and loses.                   *)
LEMMA NetworkInv ==
  ASSUME IInv, Deliver \/ Duplicate \/ Overtake \/ LoseToClient \/ LoseToServer
  PROVE  IInv'
<1> DEFINE T == Seq(Packets(s))
<1>1. toClient \in Seq(T) /\ toServer \in Seq(SentPackets)
  BY DEF IInv, LinesOK, TypesOK
<1> HIDE DEF T
<1>2. ASSUME Deliver PROVE IInv'
  <2>1. AtRest /\ toClient # <<>> /\ Receives(Head(toClient)) /\ toClient' = Tail(toClient)
    BY <1>2 DEF Deliver
  <2>2. toClient' \in Seq(T)
    BY <1>1, <2>1, QueueOfLines
  <2> QED BY <2>1, <2>2, ReceivesInv DEF T
<1>3. ASSUME Duplicate PROVE IInv'
  <2>1. AtRest /\ toClient # <<>> /\ Receives(Head(toClient)) /\ toClient' = toClient
    BY <1>3 DEF Duplicate
  <2> QED BY <1>1, <2>1, ReceivesInv DEF T
<1>4. ASSUME Overtake \/ LoseToClient PROVE IInv'
  <2>1. toClient' \in Seq(T) /\ UNCHANGED <<c, work, s, toServer>>
    <3>1. CASE Overtake
      <4>1. /\ Len(toClient) > 1
            /\ toClient' = <<toClient[2], toClient[1]>> \o SubSeq(toClient, 3, Len(toClient))
            /\ UNCHANGED <<c, work, s, toServer>>
        BY <3>1 DEF Overtake
      <4>2. toClient # <<>>
        BY <1>1, <4>1
      <4> QED BY <1>1, <4>1, <4>2, QueueOfLines
    <3>2. CASE LoseToClient
      <4>1. toClient # <<>> /\ toClient' = Tail(toClient) /\ UNCHANGED <<c, work, s, toServer>>
        BY <3>2 DEF LoseToClient
      <4> QED BY <1>1, <4>1, QueueOfLines
    <3> QED BY <1>4, <3>1, <3>2
  <2>2. Shaken' /\ Held'
    BY <2>1, Elsewhere
  <2>3. TypesOK' /\ LinesOK'
    BY <2>1 DEF IInv, TypesOK, LinesOK, T
  <2> QED BY <2>2, <2>3 DEF IInv
<1>5. ASSUME LoseToServer PROVE IInv'
  <2>1. toServer # <<>> /\ toServer' = Tail(toServer) /\ UNCHANGED <<c, work, s, toClient>>
    BY <1>5 DEF LoseToServer
  <2>2. toServer' \in Seq(SentPackets)
    BY <1>1, <2>1, QueueOfLines
  <2>3. Shaken' /\ Held'
    BY <2>1, Elsewhere
  <2>4. TypesOK' /\ LinesOK'
    BY <2>1, <2>2 DEF IInv, TypesOK, LinesOK
  <2> QED BY <2>3, <2>4 DEF IInv
<1> QED BY <1>2, <1>3, <1>4, <1>5

-----------------------------------------------------------------------------
(* The server.                                                             *)


(* The server may come to know more, and its datagrams are on their way.   *)
LEMMA ServerStep ==
  ASSUME IInv, UNCHANGED <<c, work>>, toServer' \in Seq(SentPackets),
         s' \in Servers, IsFiniteSet(s'.got), s.done => s'.done, s.got \subseteq s'.got,
         NEW ds \in Seq(Seq(Packets(s'))), toClient' = toClient \o ds
  PROVE  IInv'
<1>1. Shaken' /\ Held'
  BY Elsewhere
<1>2. TypesOK'
  BY DEF IInv, TypesOK
<1> DEFINE T == Seq(Packets(s'))
<1>3. Seq(Seq(Packets(s))) \subseteq Seq(T) /\ Seq(Items(c.appKeys, s)) \subseteq Seq(Items(c.appKeys, s'))
  <2> DEFINE more == s'
             keys == c.appKeys
  <2>1. (s.done => more.done) /\ s.got \subseteq more.got /\ (keys => keys)
    OBVIOUS
  <2> HIDE DEF more, keys
  <2>2. /\ Seq(Seq(Packets(s))) \subseteq Seq(Seq(Packets(more)))
        /\ Seq(Items(keys, s)) \subseteq Seq(Items(keys, more))
    BY <2>1, LinesGrow
  <2> QED BY <2>2 DEF more, keys
<1>4. toClient \in Seq(T) /\ work \in Seq(Items(c.appKeys, s'))
  BY <1>3 DEF IInv, LinesOK
<1> HIDE DEF T
<1>5. toClient \o ds \in Seq(T)
  BY <1>4, ConcatProperties DEF T
<1>6. LinesOK'
  BY <1>4, <1>5 DEF LinesOK, T
<1> QED BY <1>1, <1>2, <1>6 DEF IInv

(* A set of one packet number.                                             *)
LEMMA OneNumber ==
  ASSUME NEW n \in Nat
  PROVE  {n} \in SUBSET Nat /\ IsFiniteSet({n}) /\ {n} # {}
BY FS_Singleton

(* A Retry.                                                                *)
LEMMA RetryDatagram ==
  ASSUME NEW sv
  PROVE  <<<<Packet("retry", <<>>)>>>> \in Seq(Seq(Packets(sv)))
<1>1. <<>> \in Seq(Frames("retry", sv))
  BY EmptySeq
<1>2. Packet("retry", <<>>) \in Packets(sv)
  BY <1>1, KindsAre, PacketOf
<1> QED BY <1>2, DatagramOf

(* The server gets a packet.                                               *)
LEMMA ServerInv ==
  ASSUME IInv, ServerReceives
  PROVE  IInv'
<1> DEFINE m == Head(toServer)
           n == m.pn
           known == [s EXCEPT !.got = @ \cup {n}]
<1>1. /\ toServer # <<>> /\ toServer' = Tail(toServer) /\ UNCHANGED <<c, work>>
      /\ \/ Datagrams(<<<<Packet("retry", <<>>)>>>>) /\ s' = s
         \/ Datagrams(Handshake({n})) /\ s' = [s EXCEPT !.answered = TRUE]
         \/ Datagrams(<<<<Packet("initial", <<AckFrame({n})>>)>>>>) /\ s' = s
         \/ Datagrams(Done({n})) /\ s' = [s EXCEPT !.done = TRUE]
         \/ s' = known /\ Datagrams(<<<<Packet("oneRtt", <<AckFrame(s'.got)>>)>>>>)
         \/ s' = s /\ toClient' = toClient
  BY DEF ServerReceives
<1>2. s \in Servers /\ IsFiniteSet(s.got) /\ toServer \in Seq(SentPackets)
  BY DEF IInv, TypesOK
<1>3. toServer' \in Seq(SentPackets) /\ m \in SentPackets
  BY <1>1, <1>2, QueueOfLines
<1>4. n \in Nat
  <2> HIDE DEF m
  <2> QED BY <1>3 DEF SentPackets
<1> HIDE DEF n, m
<1>5. {n} \in SUBSET Nat /\ IsFiniteSet({n}) /\ {n} # {}
  BY <1>4, OneNumber
<1>6. PICK yes \in BOOLEAN : yes = TRUE
  OBVIOUS
<1>7. ASSUME Datagrams(<<<<Packet("retry", <<>>)>>>>), s' = s PROVE IInv'
  <2>1. <<<<Packet("retry", <<>>)>>>> \in Seq(Seq(Packets(s')))
    BY RetryDatagram
  <2> QED BY <1>1, <1>2, <1>3, <1>7, <2>1, ServerStep DEF Datagrams
<1>8. ASSUME Datagrams(Handshake({n})), s' = [s EXCEPT !.answered = TRUE] PROVE IInv'
  <2>1. Handshake({n}) \in Seq(Seq(Packets(s')))
    BY <1>5, HandshakeTyped
  <2>2. s' = [s EXCEPT !.answered = yes]
    BY <1>6, <1>8
  <2>3. s' \in Servers /\ s'.got = s.got /\ s'.done = s.done
    BY <1>2, <2>2 DEF Servers
  <2> QED BY <1>1, <1>2, <1>3, <1>8, <2>1, <2>3, ServerStep DEF Datagrams
<1>9. ASSUME Datagrams(<<<<Packet("initial", <<AckFrame({n})>>)>>>>), s' = s PROVE IInv'
  <2>1. AckFrame({n}) \in Frames("initial", s')
    BY <1>5, HandshakeAck
  <2>2. <<<<Packet("initial", <<AckFrame({n})>>)>>>> \in Seq(Seq(Packets(s')))
    BY <2>1, KindsAre, PacketOfOne, DatagramOf
  <2> QED BY <1>1, <1>2, <1>3, <1>9, <2>2, ServerStep DEF Datagrams
<1>10. ASSUME Datagrams(Done({n})), s' = [s EXCEPT !.done = TRUE] PROVE IInv'
  <2>1. s' = [s EXCEPT !.done = yes]
    BY <1>6, <1>10
  <2>2. s' \in Servers /\ s'.got = s.got /\ s'.done
    BY <1>2, <1>6, <2>1 DEF Servers
  <2>3. Done({n}) \in Seq(Seq(Packets(s')))
    BY <1>5, <2>2, DoneTyped
  <2> QED BY <1>1, <1>2, <1>3, <1>10, <2>2, <2>3, ServerStep DEF Datagrams
<1>11. ASSUME s' = known, Datagrams(<<<<Packet("oneRtt", <<AckFrame(s'.got)>>)>>>>) PROVE IInv'
  <2> DEFINE all == s.got \cup {n}
  <2>1. all \in SUBSET Nat /\ IsFiniteSet(all) /\ all # {} /\ s.got \subseteq all
    BY <1>2, <1>4, FS_AddElement DEF Servers
  <2>2. s' = [s EXCEPT !.got = all]
    BY <1>11
  <2> HIDE DEF all
  <2>3. s' \in Servers /\ s'.got = all /\ s'.done = s.done
    BY <1>2, <2>1, <2>2 DEF Servers
  <2>4. AckFrame(s'.got) \in Frames("oneRtt", s')
    BY <2>1, <2>3, DataAck
  <2>5. <<<<Packet("oneRtt", <<AckFrame(s'.got)>>)>>>> \in Seq(Seq(Packets(s')))
    BY <2>4, KindsAre, PacketOfOne, DatagramOf
  <2> QED BY <1>1, <1>2, <1>3, <1>11, <2>1, <2>3, <2>5, ServerStep DEF Datagrams
<1>12. ASSUME s' = s, toClient' = toClient PROVE IInv'
  <2>1. Shaken' /\ Held'
    BY <1>1, <1>12, Elsewhere
  <2> QED BY <1>1, <1>3, <1>12, <2>1 DEF IInv, TypesOK, LinesOK
<1> QED BY <1>1, <1>7, <1>8, <1>9, <1>10, <1>11, <1>12

(* The server repeats its flight.                                          *)
LEMMA RepeatsInv ==
  ASSUME IInv, ServerRepeats
  PROVE  IInv'
<1>1. /\ UNCHANGED <<c, work, s, toServer>>
      /\ \/ \E i \in 1 .. 2 : Datagrams(<<Handshake({0})[i]>>)
         \/ s.done /\ Datagrams(Done({}))
  BY DEF ServerRepeats
<1>2. s \in Servers /\ IsFiniteSet(s.got) /\ toServer \in Seq(SentPackets)
  BY DEF IInv, TypesOK
<1>3. ASSUME NEW ds \in Seq(Seq(Packets(s))), Datagrams(ds) PROVE IInv'
  BY <1>1, <1>2, <1>3, ServerStep DEF Datagrams
<1>4. ASSUME NEW i \in 1 .. 2, Datagrams(<<Handshake({0})[i]>>) PROVE IInv'
  <2>1. {0} \in SUBSET Nat /\ IsFiniteSet({0}) /\ {0} # {}
    BY OneNumber
  <2>2. <<Handshake({0})[i]>> \in Seq(Seq(Packets(s)))
    BY <2>1, HandshakeTyped
  <2> QED BY <1>3, <1>4, <2>2
<1>5. ASSUME s.done, Datagrams(Done({})) PROVE IInv'
  <2>1. {} \in SUBSET Nat /\ IsFiniteSet({})
    BY FS_EmptySet
  <2>2. Done({}) \in Seq(Seq(Packets(s)))
    BY <1>5, <2>1, DoneTyped
  <2> QED BY <1>3, <1>5, <2>2
<1> QED BY <1>1, <1>4, <1>5

(* The server closes.                                                      *)
LEMMA ServerClosesInv ==
  ASSUME IInv, ServerCloses
  PROVE  IInv'
<1>1. /\ UNCHANGED <<c, work, s, toServer>>
      /\ Datagrams(<<<<Packet("oneRtt", <<Frame("close")>>)>>>>)
  BY DEF ServerCloses
<1>2. s \in Servers /\ IsFiniteSet(s.got) /\ toServer \in Seq(SentPackets)
  BY DEF IInv, TypesOK
<1>3. Frame("close") \in Frames("oneRtt", s)
  <2>1. "close" \in FrameTypes
    BY DEF FrameTypes
  <2>2. Frame("close") \in AnyFrame /\ Frame("close").type = "close"
    BY <2>1, PlainFrame
  <2> QED BY <2>2 DEF Frames
<1>4. <<<<Packet("oneRtt", <<Frame("close")>>)>>>> \in Seq(Seq(Packets(s)))
  BY <1>3, KindsAre, PacketOfOne, DatagramOf
<1> QED BY <1>1, <1>2, <1>4, ServerStep DEF Datagrams

-----------------------------------------------------------------------------
(* The theorems.                                                           *)


(* A connection before connect.                                            *)
LEMMA NewTyped ==
  /\ New \in Connections /\ Books(New) /\ ~New.appKeys /\ ~New.ready /\ New.data = {}
<1> DEFINE none == [e \in Epochs |-> <<>>]
           zero == [e \in Epochs |-> 0]
<1>1. none \in [Epochs -> Seq(ServerMessages)] /\ none \in [Epochs -> Seq(Nat)]
  <2>1. <<>> \in Seq(ServerMessages) /\ <<>> \in Seq(Nat)
    BY EmptySeq
  <2> QED BY <2>1
<1>2. zero \in [Epochs -> Nat]
  OBVIOUS
<1>3. <<"CH">> \in Seq(Messages) /\ <<>> \in Seq(Nat) /\ <<>> \in Seq(SentPackets)
  BY EmptySeq DEF Messages
<1>4. InitialWindow \in Nat \ {0} /\ NoThreshold \in Nat
  BY QuicAssumption DEF NoThreshold
<1>5. none.oneRtt = <<>>
  BY EpochsAre
<1> DEFINE q == New
<1>6. q = [hsKeys |-> FALSE, appKeys |-> FALSE, transcript |-> <<"CH">>,
           buf |-> none, pn |-> zero,
           sent |-> none, pto |-> FALSE, tries |-> 0, token |-> FALSE,
           ready |-> FALSE, errors |-> {}, closed |-> FALSE,
           inflight |-> 0, cwnd |-> InitialWindow, ssthresh |-> NoThreshold, old |-> {},
           queue |-> <<>>, out |-> <<>>,
           recoveries |-> 0, lost |-> {}, data |-> {}, fired |-> 0]
  BY DEF New
<1> HIDE DEF none, zero, q
<1>7. q \in Connections
  BY <1>1, <1>2, <1>3, <1>4, <1>6 DEF Connections
<1>8. /\ q.sent.oneRtt = <<>> /\ q.queue = <<>> /\ q.inflight = 0 /\ q.old = {}
      /\ q.appKeys = FALSE /\ q.ready = FALSE /\ q.data = {}
  BY <1>5, <1>6
<1>9. Books(q)
  <2>1. IsInjective(<<>>) /\ ToSet(<<>>) = {} /\ Len(<<>>) = 0
    BY DEF IsInjective, ToSet
  <2>2. Pending(q) = {}
    BY <1>8, <2>1 DEF Pending
  <2> QED BY <1>8, <2>1, <2>2 DEF Books
<1> QED BY <1>7, <1>8, <1>9 DEF q

(* connect has sent the ClientHello.                                       *)
LEMMA InitInv == Init => IInv
<1> SUFFICES ASSUME Init PROVE IInv
  OBVIOUS
<1> DEFINE q == Logged(New, "initial", "CH")
<1>1. c = [q EXCEPT !.out = <<>>] /\ toServer = q.out /\ toClient = <<>> /\ work = <<>>
      /\ s \in [retry : WithRetry, answered : {FALSE}, done : {FALSE}, got : {{}}]
  BY DEF Init
<1>2. /\ q \in Connections /\ SameHandshake(New, q) /\ SameBooks(New, q)
      /\ q.sent = [New.sent EXCEPT !["initial"] = Append(@, New.pn["initial"])]
      /\ q.pn = [New.pn EXCEPT !["initial"] = @ + 1]
      /\ q.pto /\ Waits(q)
  BY NewTyped, EpochsAre, LoggedTyped DEF Whats
<1> HIDE DEF q
<1>3. Books(q)
  <2>1. q.sent.oneRtt = New.sent.oneRtt /\ q.pn.oneRtt = New.pn.oneRtt
    <3>1. New.sent \in [Epochs -> Seq(Nat)] /\ New.pn \in [Epochs -> Nat]
      BY NewTyped DEF Connections
    <3> QED BY <1>2, <3>1, EpochsAre
  <2>2. Pending(q) = Pending(New)
    BY <1>2, <2>1 DEF SameBooks, Pending
  <2> QED BY <1>2, <2>1, <2>2, NewTyped DEF Books, SameBooks
<1>4. /\ c \in Connections /\ c.out = <<>> /\ SameHandshake(q, c) /\ SameBooks(q, c)
      /\ SameTimer(q, c) /\ c.sent = q.sent /\ c.pn = q.pn
  BY <1>1, <1>2, Emptied
<1>5. Books(c)
  BY <1>2, <1>3, <1>4, BooksMoved
<1>6. q.out \in Seq(SentPackets)
  BY <1>2 DEF Connections
<1>7. s \in Servers /\ s.got = {} /\ IsFiniteSet(s.got)
  <2>1. s.got = {} /\ s \in Servers
    BY <1>1, QuicAssumption DEF Servers
  <2> QED BY <2>1, FS_EmptySet
<1>8. TypesOK /\ LinesOK
  BY <1>1, <1>4, <1>6, <1>7, EmptySeq DEF TypesOK, LinesOK
<1>9. Shaken
  BY <1>2, <1>4, NewTyped DEF Shaken, SameHandshake
<1>10. Timed
  BY <1>2, <1>4 DEF Timed, Guarded, Waits, SameTimer
<1>11. Ordered
  BY <1>1 DEF Ordered, InTurn, Expected
<1>12. Kept
  BY <1>2, <1>4, NewTyped DEF Kept, SameBooks
<1> QED BY <1>5, <1>8, <1>9, <1>10, <1>11, <1>12 DEF IInv, Held

(* No step breaks the invariant.                                           *)
LEMMA NextInv == IInv /\ [Next]_vars => IInv'
<1> SUFFICES ASSUME IInv, [Next]_vars PROVE IInv'
  OBVIOUS
<1>1. CASE Deliver \/ Duplicate \/ Overtake \/ LoseToClient \/ LoseToServer
  BY <1>1, NetworkInv
<1>2. CASE HandlePacket \/ SendAcks \/ HandleCrypto \/ BufferProcessed \/ ConnectionClose
  BY <1>2, QuietSteps
<1>3. CASE HandleAck \/ PacketAcked \/ AckEnds
  BY <1>3, AckInv, AckedInv, AckEndInv
<1>4. CASE HandleMessage \/ HandshakeDone
  BY <1>4, MessageInv, DoneInv
<1>5. CASE PtoFires \/ SendData \/ Close
  BY <1>5, PtoInv, SendInv, CloseInv
<1>6. CASE ServerReceives \/ ServerRepeats \/ ServerCloses
  BY <1>6, ServerInv, RepeatsInv, ServerClosesInv
<1>7. CASE UNCHANGED vars
  <2>1. UNCHANGED <<c, work, s, toServer, toClient>>
    BY <1>7 DEF vars
  <2>2. Shaken' /\ Held'
    BY <2>1, Elsewhere
  <2>3. TypesOK' /\ LinesOK'
    BY <2>1 DEF IInv, TypesOK, LinesOK
  <2> QED BY <2>2, <2>3 DEF IInv
<1> QED BY <1>1, <1>2, <1>3, <1>4, <1>5, <1>6, <1>7 DEF Next, HandleFrame

(* The invariant is inductive.                                             *)
LEMMA ConnectionInv == Spec => []IInv
<1>1. Init => IInv
  BY InitInv
<1>2. IInv /\ [Next]_vars => IInv'
  BY NextInv
<1> QED BY <1>1, <1>2, PTL DEF Spec

(* An opening, as ReadyIsAgreed states it.                                 *)
LEMMA AgreedOpens ==
  ASSUME NEW t \in Seq(Messages), Opens(t)
  PROVE  SubSeq(t, 1, Len(Agreed)) = Agreed
<1>1. Agreed \in Seq(Messages) /\ Len(Agreed) = 7
  BY DEF Agreed, Flight1, Flight2, Flight3, Messages
<1>2. Len(t) \in Nat /\ Len(t) >= 7 /\ \A i \in 1 .. 7 : t[i] = Agreed[i]
  BY LenProperties DEF Opens
<1> DEFINE open == SubSeq(t, 1, 7)
<1>3. open \in Seq(Messages) /\ Len(open) = 7 /\ \A i \in 1 .. 7 : open[i] = t[i]
  BY <1>2
<1> HIDE DEF open
<1>4. open = Agreed
  <2>1. \A i \in 1 .. 7 : open[i] = Agreed[i]
    BY <1>2, <1>3
  <2> QED BY <1>1, <1>3, <2>1, SeqEqual
<1> QED BY <1>1, <1>4 DEF open

(* Type correctness: the connection's state, what is on its way both ways  *)
(* and what is left to do of a datagram (connection.js, all handlers). A   *)
(* HANDSHAKE_DONE is under way only once the server is done, and a 1-RTT   *)
(* ACK names only packets that the server has.                             *)
THEOREM ConnectionTypes == Spec => [](TypesOK /\ LinesOK)
<1>1. IInv => TypesOK /\ LinesOK
  BY DEF IInv
<1> QED BY <1>1, ConnectionInv, PTL

(* 1-RTT keys only over a transcript that opens with the handshake both    *)
(* ends agreed on, and ready only then and after the server had the        *)
(* client's Finished (578-584, 662-667), whatever the network and the      *)
(* server's repetitions do.                                                *)
THEOREM HandshakeIsAgreed == Spec => []ReadyIsAgreed
<1>1. IInv => ReadyIsAgreed
  <2> SUFFICES ASSUME IInv PROVE ReadyIsAgreed
    OBVIOUS
  <2>1. c.transcript \in Seq(Messages)
    BY DEF IInv, TypesOK, Connections
  <2> DEFINE t == c.transcript
  <2>2. c.appKeys => Opens(t)
    BY DEF IInv, Shaken
  <2> HIDE DEF t
  <2>3. c.appKeys => SubSeq(t, 1, Len(Agreed)) = Agreed
    BY <2>1, <2>2, AgreedOpens DEF t
  <2> QED BY <2>3 DEF ReadyIsAgreed, IInv, Shaken, t
<1> QED BY <1>1, ConnectionInv, PTL

(* Whenever packets are outstanding the probe timer runs, and              *)
(* bytesInFlight is the number of logged 1-RTT packets (486-497, 527,      *)
(* 914-961), on every path through ACKs, Retry, probes and the queue.      *)
THEOREM LogStaysSound == Spec => []LogIsSound
<1>1. IInv => LogIsSound
  BY DEF IInv, Held, Books, Timed, Guarded, Waits, LogIsSound
<1> QED BY <1>1, ConnectionInv, PTL

(* A STREAM packet leaves the queue and the log only because the server    *)
(* has it or because a probe gave it up (384-417, 524-543).                *)
THEOREM PacketsAccounted == Spec => []NothingForgotten
<1>1. IInv => NothingForgotten
  BY DEF IInv, Held, Kept, Pending, NothingForgotten
<1> QED BY <1>1, ConnectionInv, PTL

(* Before any recovery, packets wait for the window only while something   *)
(* is outstanding whose ACK lets them out (912-961).                       *)
THEOREM QueueHasCause == Spec => []QueueMoves
<1>1. IInv => QueueMoves
  <2> SUFFICES ASSUME IInv, c.queue # <<>>, ~(c.recoveries > 0), c.sent.oneRtt = <<>>
               PROVE  FALSE
    BY DEF QueueMoves
  <2>0. c.recoveries = 0
    BY DEF IInv, TypesOK, Connections
  <2>1. c.inflight = Len(c.sent.oneRtt) /\ c.inflight >= c.cwnd
    BY <2>0 DEF IInv, Held, Books
  <2>2. c.cwnd \in Nat \ {0}
    BY DEF IInv, TypesOK, Connections
  <2>3. Len(c.sent.oneRtt) = 0
    OBVIOUS
  <2> QED BY <2>1, <2>2, <2>3
<1> QED BY <1>1, ConnectionInv, PTL

-----------------------------------------------------------------------------
(* The established connection, QuicPath: client and server stay in step,   *)
(* for any number of key updates, connection ids, validations and repeated *)
(* packets.                                                                *)

Ids == [seq : Nat, retired : BOOLEAN]
AnyPathFrame == [type : {"data", "ncid", "response", "retire", "challenge"}, n : Nat, prior : Nat]
AnyPathPacket == [gen : Nat, frame : AnyPathFrame]

PathTypes ==
  /\ gen \in Nat /\ active \in Nat /\ lowest \in Nat
  /\ ids \in Seq(Ids)
  /\ srv \in [gen : Nat, issued : Nat, prior : Nat, retired : SUBSET Nat]
  /\ clientBound \subseteq AnyPathPacket /\ serverBound \subseteq AnyPathPacket

(* No packet is under keys the server has not come to, and the server is   *)
(* one update ahead at most.                                               *)
KeysOK ==
  /\ gen <= srv.gen /\ srv.gen <= gen + 1
  /\ \A m \in clientBound : m.gen <= srv.gen

(* The ids the client gave up: the server knows, or will when the frame    *)
(* arrives.                                                                *)
GivenUp == srv.retired \cup {m.frame.n : m \in {m \in serverBound : m.frame.type = "retire"}}

(* An id is given up because the server asked for it, or for another one;  *)
(* then its entry is marked, which keeps it from being taken again unless  *)
(* it has a second entry.                                                  *)
IdsOK ==
  /\ \A m \in clientBound : m.frame.type = "ncid" => m.frame.prior <= srv.prior
  /\ \A n \in GivenUp :
       \/ n < srv.prior
       \/ Repeated
       \/ n # active /\ \E i \in DOMAIN ids : ids[i].seq = n /\ ids[i].retired

PathIInv == PathTypes /\ KeysOK /\ IdsOK

-----------------------------------------------------------------------------
(* A NEW_CONNECTION_ID frame adds an entry or none, keeps the others, and  *)
(* gives up only ids below its Retire Prior To.                            *)
LEMMA StashedProperties ==
  ASSUME ids \in Seq(Ids), lowest \in Nat, NEW f \in AnyPathFrame
  PROVE  /\ Stashed(f) \in Seq(Ids)
         /\ \A i \in DOMAIN ids : /\ i \in DOMAIN Stashed(f)
                                  /\ Stashed(f)[i].seq = ids[i].seq
                                  /\ ids[i].retired => Stashed(f)[i].retired
         /\ \A n \in ToRetire(f) : n \in Nat /\ n < f.prior
<1> DEFINE e == [seq |-> f.n, retired |-> FALSE]
           added == Append(ids, e)
           marked == [i \in DOMAIN added |->
             [added[i] EXCEPT !.retired = @ \/ (f.prior > lowest /\ added[i].seq < f.prior)]]
<1>1. /\ Len(ids) \in Nat /\ DOMAIN ids = 1 .. Len(ids)
      /\ \A i \in 1 .. Len(ids) : ids[i] \in Ids
      /\ e \in Ids /\ e.retired = FALSE /\ f.prior \in Nat
  BY LenProperties, ElementOfSeq DEF AnyPathFrame, Ids
<1> HIDE DEF e
<1>2. /\ added \in Seq(Ids) /\ Len(added) = Len(ids) + 1
      /\ \A i \in 1 .. Len(ids) : added[i] = ids[i]
      /\ added[Len(ids) + 1] = e
  BY <1>1, AppendProperties
<1>3. DOMAIN added = 1 .. Len(ids) + 1 /\ \A i \in DOMAIN added : added[i] \in Ids
  BY <1>1, <1>2, LenProperties, ElementOfSeq
<1> HIDE DEF added
<1>4. \A i \in DOMAIN added :
        /\ marked[i] \in Ids
        /\ marked[i].seq = added[i].seq
        /\ marked[i].retired = (added[i].retired \/ (f.prior > lowest /\ added[i].seq < f.prior))
  BY <1>3, Zenon DEF Ids
<1>5. marked \in Seq(Ids) /\ DOMAIN marked = 1 .. Len(ids) + 1
  <2>1. DOMAIN marked = 1 .. Len(ids) + 1 /\ marked = [i \in DOMAIN marked |-> marked[i]]
    BY <1>3
  <2>2. \A i \in 1 .. Len(ids) + 1 : marked[i] \in Ids
    BY <1>3, <1>4
  <2> HIDE DEF marked
  <2>3. marked \in [1 .. Len(ids) + 1 -> Ids]
    BY <2>1, <2>2
  <2> QED BY <1>1, <2>1, <2>3, FunctionIsSeq
<1> HIDE DEF marked
<1>6. Stashed(f) = ids \/ Stashed(f) = marked
  BY DEF Stashed, marked, added, e
<1>7. CASE Stashed(f) = ids
  BY <1>1, <1>7 DEF ToRetire
<1>8. CASE Stashed(f) = marked
  <2>1. ASSUME NEW i \in DOMAIN ids
        PROVE  /\ i \in DOMAIN marked /\ marked[i].seq = ids[i].seq
               /\ ids[i].retired => marked[i].retired
    <3>1. i \in 1 .. Len(ids) /\ i \in DOMAIN added /\ added[i] = ids[i]
      BY <1>1, <1>2, <1>3
    <3>2. /\ marked[i].seq = ids[i].seq
          /\ marked[i].retired = (ids[i].retired \/ (f.prior > lowest /\ ids[i].seq < f.prior))
      BY <1>4, <3>1, Zenon
    <3> QED BY <1>3, <1>5, <3>1, <3>2
  <2>2. ASSUME NEW n \in ToRetire(f)
        PROVE  n \in Nat /\ n < f.prior
    <3>1. PICK i \in DOMAIN marked : /\ n = marked[i].seq /\ marked[i].retired
                                     /\ i \in DOMAIN ids => ~ids[i].retired
      BY <1>8, <2>2 DEF ToRetire
    <3>2. ~added[i].retired
      BY <1>1, <1>2, <1>5, <3>1
    <3> QED BY <1>3, <1>4, <1>5, <3>1, <3>2 DEF Ids
  <2> QED BY <1>5, <1>8, <2>1, <2>2
<1> QED BY <1>6, <1>7, <1>8

LEMMA FrameOK ==
  ASSUME NEW type \in {"data", "ncid", "response", "retire", "challenge"}, NEW n \in Nat,
         NEW prior \in Nat, NEW g \in Nat
  PROVE  /\ PathPacket(g, PathFrame(type, n, prior)) \in AnyPathPacket
         /\ PathPacket(g, PathFrame(type, n, prior)).gen = g
         /\ PathPacket(g, PathFrame(type, n, prior)).frame = PathFrame(type, n, prior)
         /\ PathFrame(type, n, prior) \in AnyPathFrame
         /\ PathFrame(type, n, prior).type = type
         /\ PathFrame(type, n, prior).n = n
         /\ PathFrame(type, n, prior).prior = prior
BY DEF PathPacket, PathFrame, AnyPathPacket, AnyPathFrame

(* The id in use has one first entry at most, and what takes its place is  *)
(* the seq of an entry that is not retired.                                *)
LEMMA RotatedProperties ==
  ASSUME PathTypes, Rotatable # {}
  PROVE  LET next == ids[CHOOSE i \in Rotatable : \A j \in Rotatable : i <= j].seq
         IN /\ next \in Nat /\ next # active
            /\ \E i \in DOMAIN ids : ids[i].seq = next /\ ~ids[i].retired
<1>1. /\ DOMAIN ids = 1 .. Len(ids) /\ Len(ids) \in Nat
      /\ \A i \in DOMAIN ids : ids[i] \in Ids
  BY LenProperties, ElementOfSeq DEF PathTypes
<1>2. Rotatable \in SUBSET Nat
  BY <1>1 DEF Rotatable, Live
<1>3. \E i \in Rotatable : \A j \in Rotatable : i <= j
  BY <1>2, LeastNatural
<1> DEFINE first == CHOOSE i \in Rotatable : \A j \in Rotatable : i <= j
<1>4. first \in Rotatable
  BY <1>3
<1> HIDE DEF first
<1>5. first \in DOMAIN ids /\ ~ids[first].retired /\ ids[first].seq # active
  BY <1>4 DEF Rotatable, Live
<1> QED BY <1>1, <1>5 DEF Ids, first

LEMMA OldRetiredProperties ==
  ASSUME PathTypes
  PROVE  /\ OldRetired(ids) \in Seq(Ids)
         /\ DOMAIN OldRetired(ids) = DOMAIN ids
         /\ \A i \in DOMAIN ids : /\ OldRetired(ids)[i].seq = ids[i].seq
                                  /\ ids[i].retired => OldRetired(ids)[i].retired
                                  /\ i \in EntryOf(active) => OldRetired(ids)[i].retired
<1> DEFINE old == OldRetired(ids)
<1>1. /\ DOMAIN ids = 1 .. Len(ids) /\ Len(ids) \in Nat
      /\ \A i \in DOMAIN ids : ids[i] \in Ids
  BY LenProperties, ElementOfSeq DEF PathTypes
<1>2. DOMAIN old = DOMAIN ids /\ old = [i \in DOMAIN old |-> old[i]]
  BY DEF OldRetired
<1>3. \A i \in DOMAIN ids : /\ old[i] \in Ids
                            /\ old[i].seq = ids[i].seq
                            /\ old[i].retired = (ids[i].retired \/ i \in EntryOf(active))
  BY <1>1, Zenon DEF OldRetired, Ids
<1> HIDE DEF old
<1>4. old \in [1 .. Len(ids) -> Ids]
  BY <1>1, <1>2, <1>3
<1>5. old \in Seq(Ids)
  BY <1>1, <1>4, FunctionIsSeq
<1> QED BY <1>2, <1>3, <1>5 DEF old

-----------------------------------------------------------------------------
(* Every step keeps the invariant.                                         *)

LEMMA InitIInv == PathInit => PathIInv
<1> SUFFICES ASSUME PathInit PROVE PathIInv
  OBVIOUS
<1>1. PathTypes
  BY DEF PathInit, PathTypes
<1>2. KeysOK
  BY DEF PathInit, KeysOK
<1>3. IdsOK
  BY DEF PathInit, IdsOK, GivenUp
<1> QED BY <1>1, <1>2, <1>3 DEF PathIInv

LEMMA OnDatagramIInv ==
  ASSUME PathIInv, NEW m \in clientBound, OnDatagram(m), clientBound' \subseteq clientBound
  PROVE  PathIInv'
<1>0. PathTypes /\ KeysOK /\ IdsOK
  BY DEF PathIInv
<1>1. /\ m \in AnyPathPacket /\ m.frame \in AnyPathFrame /\ m.gen \in Nat /\ m.gen <= srv.gen
      /\ gen \in Nat /\ srv.gen \in Nat /\ active \in Nat /\ srv' = srv
  BY <1>0 DEF PathTypes, KeysOK, AnyPathPacket, OnDatagram
<1>2. gen' = gen \/ (gen' = gen + 1 /\ m.gen = gen + 1)
  BY <1>1 DEF OnDatagram, Commits, OpensPacket, Tried
<1>3. gen' \in Nat /\ gen' <= srv.gen /\ srv.gen <= gen' + 1
  BY <1>0, <1>1, <1>2 DEF KeysOK
<1>4. KeysOK'
  BY <1>0, <1>1, <1>3 DEF KeysOK
<1>5. CASE ~(OpensPacket(m) /\ m.frame.type = "ncid")
  <2>1. UNCHANGED cidVars
    BY <1>5 DEF OnDatagram
  <2>2. serverBound' = serverBound
    BY <1>5 DEF OnDatagram, Sends, Replies
  <2>3. PathTypes'
    BY <1>0, <1>1, <1>3, <2>1, <2>2 DEF PathTypes, cidVars
  <2>4. IdsOK'
    BY <1>0, <1>1, <2>1, <2>2 DEF IdsOK, GivenUp, Repeated, cidVars
  <2> QED BY <1>4, <2>3, <2>4 DEF PathIInv
<1>6. CASE OpensPacket(m) /\ m.frame.type = "ncid"
  <2> DEFINE f == m.frame
  <2>1. /\ ids' = Stashed(f) /\ lowest' \in {lowest, f.prior} /\ active' = active
        /\ serverBound' = serverBound \cup {PathPacket(gen', PathFrame("retire", q, 0)) : q \in ToRetire(f)}
    BY <1>6 DEF OnDatagram, OnNewConnectionId, Sends, Replies
  <2>2. /\ ids' \in Seq(Ids)
        /\ \A i \in DOMAIN ids : /\ i \in DOMAIN ids' /\ ids'[i].seq = ids[i].seq
                                 /\ ids[i].retired => ids'[i].retired
        /\ \A n \in ToRetire(f) : n \in Nat /\ n < f.prior
    BY <1>0, <1>1, <2>1, StashedProperties DEF PathTypes
  <2>3. f.prior \in Nat /\ lowest \in Nat /\ f.prior <= srv.prior /\ srv.prior \in Nat
    BY <1>0, <1>1, <1>6 DEF PathTypes, IdsOK, AnyPathFrame
  <2>4. \A q \in ToRetire(f) :
          /\ PathPacket(gen', PathFrame("retire", q, 0)) \in AnyPathPacket
          /\ PathPacket(gen', PathFrame("retire", q, 0)).frame.n = q
    <3> SUFFICES ASSUME NEW g \in Nat, NEW q \in ToRetire(f)
                 PROVE  /\ PathPacket(g, PathFrame("retire", q, 0)) \in AnyPathPacket
                        /\ PathPacket(g, PathFrame("retire", q, 0)).frame.n = q
      BY <1>3
    <3>1. q \in Nat /\ 0 \in Nat
      BY <2>2
    <3> QED BY <3>1, FrameOK
  <2> HIDE DEF f
  <2>5. PathTypes'
    <3>1. serverBound' \subseteq AnyPathPacket /\ clientBound' \subseteq AnyPathPacket
      BY <1>0, <2>1, <2>4 DEF PathTypes
    <3>2. lowest' \in Nat
      BY <2>1, <2>3
    <3> QED BY <1>0, <1>1, <1>3, <2>1, <2>2, <3>1, <3>2 DEF PathTypes
  <2>6. ASSUME NEW n \in GivenUp' \ GivenUp
        PROVE  n < srv.prior
    <3>1. n \in ToRetire(f)
      BY <1>1, <2>1, <2>4, <2>6 DEF GivenUp
    <3> QED BY <2>2, <2>3, <3>1
  <2>7. Repeated => Repeated'
    BY <2>2 DEF Repeated
  <2>8. IdsOK'
    BY <1>0, <1>1, <2>1, <2>2, <2>6, <2>7 DEF IdsOK
  <2> QED BY <1>4, <2>5, <2>8 DEF PathIInv
<1> QED BY <1>5, <1>6

LEMMA RotateIInv ==
  ASSUME PathIInv, RotateConnectionId
  PROVE  PathIInv'
<1>0. PathTypes /\ KeysOK /\ IdsOK /\ Rotatable # {}
  BY DEF PathIInv, RotateConnectionId
<1> DEFINE next == ids[CHOOSE i \in Rotatable : \A j \in Rotatable : i <= j].seq
           packets == {PathPacket(gen, PathFrame("retire", ids[i].seq, 0)) : i \in EntryOf(active)}
<1>1. /\ next \in Nat /\ next # active
      /\ \E i \in DOMAIN ids : ids[i].seq = next /\ ~ids[i].retired
  BY <1>0, RotatedProperties
<1>2. /\ active' = next /\ ids' = OldRetired(ids) /\ serverBound' = serverBound \cup packets
      /\ UNCHANGED <<gen, lowest, srv, clientBound>>
  BY DEF RotateConnectionId, Sends
<1> HIDE DEF next
<1>3. /\ ids' \in Seq(Ids) /\ DOMAIN ids' = DOMAIN ids
      /\ \A i \in DOMAIN ids : /\ ids'[i].seq = ids[i].seq
                               /\ ids[i].retired => ids'[i].retired
                               /\ i \in EntryOf(active) => ids'[i].retired
  BY <1>0, <1>2, OldRetiredProperties
<1>4. \A p \in packets : /\ p \in AnyPathPacket /\ p.frame.n = active
                         /\ \E i \in DOMAIN ids : i \in EntryOf(active) /\ ids[i].seq = active
  <2> SUFFICES ASSUME NEW i \in EntryOf(active)
               PROVE  LET p == PathPacket(gen, PathFrame("retire", ids[i].seq, 0))
                      IN p \in AnyPathPacket /\ p.frame.n = active /\ i \in DOMAIN ids /\ ids[i].seq = active
    OBVIOUS
  <2>1. i \in DOMAIN ids /\ ids[i].seq = active /\ active \in Nat /\ gen \in Nat
    BY <1>0 DEF EntryOf, PathTypes
  <2> QED BY <2>1, FrameOK
<1> HIDE DEF packets
<1>5. PathTypes'
  <2>1. serverBound' \subseteq AnyPathPacket
    BY <1>0, <1>2, <1>4 DEF PathTypes
  <2> QED BY <1>0, <1>1, <1>2, <1>3, <2>1 DEF PathTypes
<1>6. KeysOK'
  BY <1>0, <1>2 DEF KeysOK
<1>7. Repeated' = Repeated
  BY <1>3 DEF Repeated
<1>8. ASSUME NEW n \in GivenUp'
      PROVE  \/ n < srv.prior
             \/ Repeated
             \/ n # next /\ \E i \in DOMAIN ids' : ids'[i].seq = n /\ ids'[i].retired
  <2>1. CASE n \in GivenUp
    <3>1. CASE n # active /\ \E i \in DOMAIN ids : ids[i].seq = n /\ ids[i].retired
      <4>1. PICK i \in DOMAIN ids : ids[i].seq = n /\ ids[i].retired
        BY <3>1
      <4>2. CASE n = next
        <5>1. PICK j \in DOMAIN ids : ids[j].seq = next /\ ~ids[j].retired
          BY <1>1
        <5>2. i # j
          BY <4>1, <5>1
        <5> QED BY <4>1, <4>2, <5>1, <5>2 DEF Repeated
      <4>3. CASE n # next
        BY <1>3, <4>1, <4>3
      <4> QED BY <4>2, <4>3
    <3> QED BY <1>0, <2>1, <3>1 DEF IdsOK
  <2>2. CASE n \notin GivenUp
    <3>1. n = active /\ \E i \in DOMAIN ids : i \in EntryOf(active) /\ ids[i].seq = active
      BY <1>2, <1>4, <2>2 DEF GivenUp
    <3> QED BY <1>1, <1>3, <3>1
  <2> QED BY <2>1, <2>2
<1>9. IdsOK'
  BY <1>0, <1>2, <1>7, <1>8 DEF IdsOK
<1> QED BY <1>5, <1>6, <1>9 DEF PathIInv

LEMMA ServerIInv ==
  ASSUME PathIInv,
         SrvReceives \/ SrvUpdatesKeys \/ \E prior \in 0 .. MaxIds : SrvIssuesId(prior)
  PROVE  PathIInv'
<1>0. PathTypes /\ KeysOK /\ IdsOK
  BY DEF PathIInv
<1>1. UNCHANGED <<gen, active, lowest, ids>> /\ gen \in Nat
  BY <1>0 DEF SrvReceives, SrvUpdatesKeys, SrvIssuesId, cidVars, PathTypes
<1>2. /\ srv \in [gen : Nat, issued : Nat, prior : Nat, retired : SUBSET Nat]
      /\ srv.gen \in Nat /\ srv.issued \in Nat /\ srv.prior \in Nat /\ srv.retired \subseteq Nat
  BY <1>0 DEF PathTypes
<1>3. /\ srv' \in [gen : Nat, issued : Nat, prior : Nat, retired : SUBSET Nat]
      /\ srv'.gen \in {srv.gen, srv.gen + 1} /\ (srv'.gen # srv.gen => gen = srv.gen)
      /\ srv'.prior >= srv.prior
      /\ serverBound' \subseteq serverBound
      /\ GivenUp' \subseteq GivenUp
      /\ \A m \in clientBound' :
           \/ m \in clientBound
           \/ /\ m \in AnyPathPacket /\ m.gen = srv'.gen
              /\ m.frame.type = "ncid" => m.frame.prior <= srv'.prior
  <2>1. CASE SrvReceives
    <3>1. PICK m \in serverBound :
            /\ serverBound' = serverBound \ {m}
            /\ \/ UNCHANGED <<srv, clientBound>>
               \/ /\ srv' = [srv EXCEPT !.retired = @ \cup (IF m.frame.type = "retire" THEN {m.frame.n} ELSE {})]
                  /\ \/ UNCHANGED clientBound
                     \/ clientBound' = clientBound \cup {PathPacket(srv'.gen, PathFrame("response", m.frame.n, 0))}
      BY <2>1 DEF SrvReceives, SrvSends
    <3>2. m.frame.n \in Nat /\ m.frame \in AnyPathFrame
      BY <1>0 DEF PathTypes, AnyPathPacket, AnyPathFrame
    <3> DEFINE rest == IF m.frame.type = "retire" THEN {m.frame.n} ELSE {}
    <3>3. /\ srv' \in [gen : Nat, issued : Nat, prior : Nat, retired : SUBSET Nat]
          /\ srv'.gen = srv.gen /\ srv'.prior = srv.prior
          /\ srv'.retired \in {srv.retired, srv.retired \cup rest}
      BY <1>2, <3>1, <3>2
    <3>4. GivenUp' \subseteq GivenUp
      BY <3>1, <3>3 DEF GivenUp
    <3>5. LET p == PathPacket(srv.gen, PathFrame("response", m.frame.n, 0))
          IN p \in AnyPathPacket /\ p.gen = srv.gen /\ p.frame.type # "ncid"
      BY <1>2, <3>2 DEF PathPacket, PathFrame, AnyPathPacket, AnyPathFrame
    <3> QED BY <1>2, <3>1, <3>3, <3>4, <3>5
  <2>2. CASE SrvUpdatesKeys
    <3>1. /\ gen = srv.gen /\ srv' = [srv EXCEPT !.gen = @ + 1] /\ serverBound' = serverBound
          /\ clientBound' = clientBound \cup {PathPacket(srv'.gen, PathFrame("data", 0, 0))}
      BY <2>2 DEF SrvUpdatesKeys, SrvSends
    <3>2. /\ srv' \in [gen : Nat, issued : Nat, prior : Nat, retired : SUBSET Nat]
          /\ srv'.gen = srv.gen + 1 /\ srv'.prior = srv.prior /\ srv'.retired = srv.retired
      BY <1>2, <3>1
    <3>3. LET p == PathPacket(srv.gen + 1, PathFrame("data", 0, 0))
          IN p \in AnyPathPacket /\ p.gen = srv.gen + 1 /\ p.frame.type # "ncid"
      BY <1>2 DEF PathPacket, PathFrame, AnyPathPacket, AnyPathFrame
    <3>4. GivenUp' = GivenUp
      BY <3>1, <3>2 DEF GivenUp
    <3> QED BY <1>2, <3>1, <3>2, <3>3, <3>4
  <2>3. ASSUME NEW prior \in 0 .. MaxIds, SrvIssuesId(prior)
        PROVE  <1>3!:
    <3>1. /\ srv' = [srv EXCEPT !.issued = @ + 1, !.prior = prior] /\ serverBound' = serverBound
          /\ prior \in srv.prior .. srv.issued + 1
          /\ clientBound' = clientBound \cup {PathPacket(srv'.gen, PathFrame("ncid", srv.issued + 1, prior))}
      BY <2>3 DEF SrvIssuesId, SrvSends
    <3>2. prior \in Nat /\ prior >= srv.prior /\ srv.issued + 1 \in Nat
      BY <1>2, <3>1
    <3>3. /\ srv' \in [gen : Nat, issued : Nat, prior : Nat, retired : SUBSET Nat]
          /\ srv'.gen = srv.gen /\ srv'.prior = prior /\ srv'.retired = srv.retired
      BY <1>2, <3>1, <3>2
    <3>4. LET p == PathPacket(srv.gen, PathFrame("ncid", srv.issued + 1, prior))
          IN p \in AnyPathPacket /\ p.gen = srv.gen /\ p.frame.prior = prior
      BY <1>2, <3>2 DEF PathPacket, PathFrame, AnyPathPacket, AnyPathFrame
    <3>5. GivenUp' = GivenUp
      BY <3>1, <3>3 DEF GivenUp
    <3> QED BY <1>2, <3>1, <3>2, <3>3, <3>4, <3>5
  <2> QED BY <2>1, <2>2, <2>3
<1>4. /\ srv'.gen \in Nat /\ srv'.prior \in Nat
      /\ serverBound' \subseteq AnyPathPacket /\ clientBound' \subseteq AnyPathPacket
  <2>1. srv'.gen \in Nat /\ srv'.prior \in Nat
    BY <1>3
  <2>2. serverBound \subseteq AnyPathPacket /\ clientBound \subseteq AnyPathPacket
    BY <1>0 DEF PathTypes
  <2> QED BY <1>3, <2>1, <2>2
<1>5. PathTypes'
  BY <1>0, <1>1, <1>3, <1>4 DEF PathTypes
<1>6. KeysOK'
  <2>1. gen' <= srv'.gen /\ srv'.gen <= gen' + 1
    BY <1>0, <1>1, <1>2, <1>3 DEF KeysOK
  <2>2. ASSUME NEW m \in clientBound'
        PROVE  m.gen <= srv'.gen
    <3>1. CASE m \in clientBound
      <4>1. m.gen \in Nat /\ m.gen <= srv.gen
        BY <1>0, <3>1 DEF KeysOK, PathTypes, AnyPathPacket
      <4> QED BY <1>2, <1>3, <4>1
    <3>2. CASE m \notin clientBound
      BY <1>3, <1>4, <3>2
    <3> QED BY <3>1, <3>2
  <2> QED BY <2>1, <2>2 DEF KeysOK
<1>7. ASSUME NEW m \in clientBound', m.frame.type = "ncid"
      PROVE  m.frame.prior <= srv'.prior
  <2>1. CASE m \in clientBound
    <3>1. m.frame.prior \in Nat /\ m.frame.prior <= srv.prior
      BY <1>0, <1>7, <2>1 DEF IdsOK, PathTypes, AnyPathPacket, AnyPathFrame
    <3> QED BY <1>2, <1>3, <1>4, <3>1
  <2>2. CASE m \notin clientBound
    BY <1>3, <1>7, <2>2
  <2> QED BY <2>1, <2>2
<1>8. \A n \in GivenUp : n \in Nat
  BY <1>0, <1>2 DEF GivenUp, PathTypes, AnyPathPacket, AnyPathFrame
<1>9. ASSUME NEW n \in GivenUp'
      PROVE  \/ n < srv'.prior
             \/ Repeated
             \/ n # active /\ \E i \in DOMAIN ids : ids[i].seq = n /\ ids[i].retired
  <2>1. n \in GivenUp /\ n \in Nat /\ srv'.prior \in Nat
    BY <1>3, <1>8
  <2>2. n < srv.prior => n < srv'.prior
    BY <1>2, <1>3, <2>1
  <2> QED BY <1>0, <2>1, <2>2 DEF IdsOK
<1>10. Repeated' = Repeated
  BY <1>1 DEF Repeated
<1>11. IdsOK'
  BY <1>1, <1>7, <1>9, <1>10 DEF IdsOK
<1> QED BY <1>5, <1>6, <1>11 DEF PathIInv

(* A challenge is no retired id, and packets get lost.                     *)
LEMMA OthersIInv ==
  ASSUME PathIInv,
         \/ UNCHANGED pathVars
         \/ \E v \in Validations : ValidatePath(v) \/ PathTimer(v)
         \/ PathLoses
  PROVE  PathIInv'
<1>0. PathTypes /\ KeysOK /\ IdsOK
  BY DEF PathIInv
<1>1. /\ UNCHANGED <<gen, active, lowest, ids, srv>> /\ clientBound' \subseteq clientBound
      /\ \A m \in serverBound' \ serverBound : m \in AnyPathPacket /\ m.frame.type # "retire"
  <2>1. ASSUME NEW v \in Validations, ValidatePath(v)
        PROVE  <1>1!:
    <3>1. v \in Nat /\ gen \in Nat
      BY <1>0 DEF Validations, PathTypes
    <3>2. LET p == PathPacket(gen, PathFrame("challenge", v, 0))
          IN p \in AnyPathPacket /\ p.frame.type # "retire"
      BY <3>1 DEF PathPacket, PathFrame, AnyPathPacket, AnyPathFrame
    <3> QED BY <2>1, <3>2 DEF ValidatePath, Sends, cidVars
  <2>2. CASE UNCHANGED pathVars \/ (\E v \in Validations : PathTimer(v)) \/ PathLoses
    BY <2>2 DEF pathVars, cidVars, PathTimer, PathLoses
  <2> QED BY <2>1, <2>2
<1>2. PathTypes'
  BY <1>0, <1>1 DEF PathTypes
<1>3. KeysOK'
  BY <1>0, <1>1 DEF KeysOK
<1>4. Repeated' = Repeated /\ GivenUp' \subseteq GivenUp
  BY <1>1 DEF Repeated, GivenUp
<1>5. IdsOK'
  BY <1>0, <1>1, <1>4 DEF IdsOK
<1> QED BY <1>2, <1>3, <1>5 DEF PathIInv

LEMMA StepIInv == PathIInv /\ [PathNext]_pathVars => PathIInv'
<1> SUFFICES ASSUME PathIInv, [PathNext]_pathVars PROVE PathIInv'
  OBVIOUS
<1>1. CASE Arrives \/ ArrivesTwice
  <2>1. PICK m \in clientBound : OnDatagram(m) /\ clientBound' \subseteq clientBound
    BY <1>1 DEF Arrives, ArrivesTwice
  <2> QED BY <2>1, OnDatagramIInv
<1>2. CASE RotateConnectionId
  BY <1>2, RotateIInv
<1>3. CASE SrvReceives \/ SrvUpdatesKeys \/ \E prior \in 0 .. MaxIds : SrvIssuesId(prior)
  BY <1>3, ServerIInv
<1>4. CASE \/ UNCHANGED pathVars
           \/ \E v \in Validations : ValidatePath(v) \/ PathTimer(v)
           \/ PathLoses
  BY <1>4, OthersIInv
<1> QED BY <1>1, <1>2, <1>3, <1>4 DEF PathNext

(* In any order of late, lost and repeated packets the client has the keys *)
(* of the server or those of one update before, and is at no id that it    *)
(* gave up, except where the server asked for it or an id came twice.      *)
THEOREM StaysInStep == PathSpec => []InStep
<1>1. PathIInv => InStep
  BY DEF PathIInv, KeysOK, IdsOK, GivenUp, InStep
<1> QED BY <1>1, InitIInv, StepIInv, PTL DEF PathSpec
=============================================================================
