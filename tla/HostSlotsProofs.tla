-------------------------- MODULE HostSlotsProofs --------------------------
(***************************************************************************)
(* Theorems about the per-host slot semaphore, for any number of callers   *)
(* and any cap.  The inductive invariant adds to the checked invariants    *)
(* that an entry that has been deleted is empty, that everybody the entry  *)
(* knows has called _acquireSlot, and that the sets counted are finite.    *)
(***************************************************************************)
EXTENDS HostSlots, FiniteSetTheorems, SequenceTheorems, TLAPS

Distinct(s) == \A i, j \in DOMAIN s : s[i] = s[j] => i = j

Callers(h) == Queued(h) \cup h.woken \cup h.orphans

(* What holds of the entry alone.                                          *)
HostOK(h) ==
  /\ h \in Host
  /\ Distinct(h.waiters)
  /\ Queued(h) \cap (h.woken \cup h.orphans) = {}
  /\ h.woken \cap h.orphans = {}
  /\ IsFiniteSet(h.woken)
  /\ ~h.live => h.count = 0 /\ h.waiters = <<>> /\ h.woken = {}
  /\ h.waiters # <<>> => h.count + Cardinality(h.woken) >= MaxPerHost

IInv ==
  /\ HostOK(host)
  /\ holders \in SUBSET Attempts /\ IsFiniteSet(holders)
  /\ used \in SUBSET Attempts
  /\ Callers(host) \cap holders = {}
  /\ Callers(host) \cup holders \subseteq used
  /\ host.count <= Cardinality(holders)

-----------------------------------------------------------------------------
(* The first n waiters are n callers: nobody is queued twice.              *)
LEMMA ServedCardinality ==
  ASSUME NEW h, h \in Host, Distinct(h.waiters), NEW n \in 0 .. Len(h.waiters)
  PROVE  IsFiniteSet(Served(h, n)) /\ Cardinality(Served(h, n)) = n
<1> DEFINE f == [i \in 1 .. n |-> h.waiters[i]]
<1>1. h.waiters \in Seq(Attempts)
  BY DEF Host
<1>2. DOMAIN h.waiters = 1 .. Len(h.waiters) /\ Len(h.waiters) \in Nat
  BY <1>1, LenProperties
<1>3. f \in Bijection(1 .. n, Served(h, n))
  <2>1. f \in Surjection(1 .. n, Served(h, n))
    BY <1>2 DEF Served, Surjection
  <2>2. f \in Injection(1 .. n, Served(h, n))
    <3>1. f \in [1 .. n -> Served(h, n)]
      BY <2>1 DEF Surjection
    <3>2. ASSUME NEW i \in 1 .. n, NEW j \in 1 .. n, f[i] = f[j]
          PROVE  i = j
      <4>1. i \in DOMAIN h.waiters /\ j \in DOMAIN h.waiters
        BY <1>2
      <4>2. h.waiters[i] = h.waiters[j]
        BY <3>2
      <4> QED BY <4>1, <4>2 DEF Distinct
    <3>3. DOMAIN f = 1 .. n
      OBVIOUS
    <3> HIDE DEF f
    <3>4. IsInjective(f)
      BY <3>2, <3>3 DEF IsInjective
    <3> QED BY <3>1, <3>4 DEF Injection
  <2> QED BY <2>1, <2>2 DEF Bijection
<1>4. IsFiniteSet(1 .. n) /\ Cardinality(1 .. n) = n
  BY FS_Interval
<1> QED
  BY <1>3, <1>4, FS_Bijection DEF ExistsBijection

(* What is left of the queue after n releases: its tail.                   *)
LEMMA UnservedProperties ==
  ASSUME NEW h, h \in Host, NEW n \in Nat
  PROVE  /\ Unserved(h, n) \in Seq(Attempts)
         /\ Len(Unserved(h, n)) = IF n < Len(h.waiters) THEN Len(h.waiters) - n ELSE 0
         /\ DOMAIN Unserved(h, n) = 1 .. Len(Unserved(h, n))
         /\ \A i \in DOMAIN Unserved(h, n) : Unserved(h, n)[i] = h.waiters[n + i]
<1>1. h.waiters \in Seq(Attempts)
  BY DEF Host
<1>2. Len(h.waiters) \in Nat /\ \A i \in 1 .. Len(h.waiters) : h.waiters[i] \in Attempts
  BY <1>1, LenProperties, ElementOfSeq
<1>3. /\ Unserved(h, n) \in Seq(Attempts)
      /\ Len(Unserved(h, n)) = IF n + 1 <= Len(h.waiters)
                                 THEN Len(h.waiters) - (n + 1) + 1 ELSE 0
      /\ \A i \in 1 .. Len(h.waiters) - (n + 1) + 1 :
           Unserved(h, n)[i] = h.waiters[(n + 1) + i - 1]
  BY <1>2, SubSeqProperties DEF Unserved
<1>4. DOMAIN Unserved(h, n) = 1 .. Len(Unserved(h, n))
  BY <1>3, LenProperties
<1>5. ASSUME NEW i \in DOMAIN Unserved(h, n)
      PROVE  Unserved(h, n)[i] = h.waiters[n + i]
  <2>1. i \in Int /\ i \in 1 .. Len(h.waiters) - (n + 1) + 1
    BY <1>2, <1>3, <1>4
  <2>2. (n + 1) + i - 1 = n + i
    BY <2>1
  <2> QED BY <2>1, <2>2, <1>3
<1> QED
  BY <1>2, <1>3, <1>4, <1>5

(* n releases split the queue into those served and those who still wait,  *)
(* and change none of the order.                                           *)
LEMMA QueueSplits ==
  ASSUME NEW h, h \in Host, Distinct(h.waiters), NEW n \in Nat
  PROVE  LET left == {Unserved(h, n)[i] : i \in DOMAIN Unserved(h, n)}
         IN /\ Queued(h) = left \cup Served(h, n)
            /\ left \cap Served(h, n) = {}
            /\ Distinct(Unserved(h, n))
<1> DEFINE left == {Unserved(h, n)[i] : i \in DOMAIN Unserved(h, n)}
<1>1. DOMAIN h.waiters = 1 .. Len(h.waiters) /\ Len(h.waiters) \in Nat
  BY LenProperties DEF Host
<1>2. \A i \in DOMAIN Unserved(h, n) :
        n + i \in DOMAIN h.waiters /\ Unserved(h, n)[i] = h.waiters[n + i]
  BY <1>1, UnservedProperties
<1>3. \A j \in DOMAIN h.waiters : j > n =>
        j - n \in DOMAIN Unserved(h, n) /\ Unserved(h, n)[j - n] = h.waiters[j]
  BY <1>1, UnservedProperties
<1>4. Queued(h) = left \cup Served(h, n)
  BY <1>1, <1>2, <1>3 DEF Queued, Served
<1>5. left \cap Served(h, n) = {}
  <2> SUFFICES ASSUME NEW i \in DOMAIN Unserved(h, n),
                      NEW j \in DOMAIN h.waiters, j <= n,
                      Unserved(h, n)[i] = h.waiters[j]
               PROVE  FALSE
    BY DEF Served
  <2>1. n + i = j
    BY <1>2 DEF Distinct
  <2>2. i \in Nat \ {0}
    BY <1>1, UnservedProperties
  <2> QED BY <2>1, <2>2, <1>1
<1>6. Distinct(Unserved(h, n))
  <2> SUFFICES ASSUME NEW i \in DOMAIN Unserved(h, n), NEW j \in DOMAIN Unserved(h, n),
                      Unserved(h, n)[i] = Unserved(h, n)[j]
               PROVE  i = j
    BY DEF Distinct
  <2>1. n + i = n + j
    BY <1>2 DEF Distinct
  <2>2. i \in Nat /\ j \in Nat
    BY <1>1, UnservedProperties
  <2> QED BY <2>1, <2>2
<1> QED BY <1>4, <1>5, <1>6

(* n releases keep the entry in order, lose no caller, and take n off the  *)
(* count, or all of it.                                                    *)
LEMMA GiveBackKeeps ==
  ASSUME NEW h, HostOK(h), NEW n \in Nat
  PROVE  /\ HostOK(GiveBack(h, n))
         /\ Callers(GiveBack(h, n)) = Callers(h)
         /\ GiveBack(h, n).count <= Remaining(h, n)
<1> DEFINE g == GiveBack(h, n)
<1>0. /\ h.count \in Nat /\ h.waiters \in Seq(Attempts) /\ h.live \in BOOLEAN
      /\ h.woken \in SUBSET Attempts /\ h.orphans \in SUBSET Attempts
      /\ h \in Host /\ Distinct(h.waiters) /\ MaxPerHost \in Nat
  BY MaxPerHostAssumption DEF HostOK, Host
<1>1. /\ Queued(h) = {Unserved(h, n)[i] : i \in DOMAIN Unserved(h, n)} \cup Served(h, n)
      /\ {Unserved(h, n)[i] : i \in DOMAIN Unserved(h, n)} \cap Served(h, n) = {}
      /\ Distinct(Unserved(h, n)) /\ Unserved(h, n) \in Seq(Attempts)
  BY <1>0, QueueSplits, UnservedProperties
<1>2. Remaining(h, n) \in Nat /\ Remaining(h, n) >= h.count - n
  BY <1>0 DEF Remaining
<1>3. Served(h, n) \subseteq Attempts
  BY <1>0, ElementOfSeq, LenProperties DEF Served
<1>4. CASE ~h.live
  BY <1>4, <1>0 DEF GiveBack, Remaining, HostOK
<1>5. CASE Deleted(h, n)
  <2>1. g = [NoHost EXCEPT !.orphans = h.orphans \cup h.woken \cup Served(h, n)]
    BY <1>5 DEF GiveBack, Deleted
  <2>2. /\ g.live = FALSE /\ g.count = 0 /\ g.waiters = <<>> /\ g.woken = {}
        /\ g.orphans = h.orphans \cup h.woken \cup Served(h, n)
        /\ g \in Host
    <3>1. g = [live |-> FALSE, count |-> 0, waiters |-> <<>>, woken |-> {},
               orphans |-> h.orphans \cup h.woken \cup Served(h, n)]
      BY <2>1 DEF NoHost
    <3>2. <<>> \in Seq(Attempts)
      BY EmptySeq
    <3> QED BY <3>1, <3>2, <1>0, <1>3 DEF Host
  <2>3. Queued(g) = {} /\ Distinct(g.waiters)
    BY <2>2 DEF Queued, Distinct
  <2>4. HostOK(g)
    BY <2>2, <2>3, FS_EmptySet DEF HostOK
  <2>5. Unserved(h, n) = <<>>
    BY <1>5, <1>0, <1>1, UnservedProperties, EmptySeq, LenProperties DEF Deleted
  <2>6. Callers(g) = Callers(h)
    BY <2>2, <2>3, <2>5, <1>1 DEF Callers
  <2> QED BY <2>2, <2>4, <2>6, <1>2
<1>6. CASE h.live /\ ~Deleted(h, n)
  <2>1. g = [h EXCEPT !.count = Remaining(h, n), !.waiters = Unserved(h, n),
                      !.woken = @ \cup Served(h, n)]
    BY <1>6 DEF GiveBack
  <2>2. /\ g.live = TRUE /\ g.count = Remaining(h, n) /\ g.waiters = Unserved(h, n)
        /\ g.woken = h.woken \cup Served(h, n) /\ g.orphans = h.orphans
        /\ g \in Host
    <3>1. h.woken \cup Served(h, n) \in SUBSET Attempts
      BY <1>0, <1>3
    <3>2. g = [live |-> TRUE, count |-> Remaining(h, n), waiters |-> Unserved(h, n),
               woken |-> h.woken \cup Served(h, n), orphans |-> h.orphans]
      BY <2>1, <1>0, <1>6 DEF Host
    <3> HIDE DEF g
    <3> QED BY <3>1, <3>2, <1>0, <1>1, <1>2 DEF Host
  <2>3. Queued(h) = Queued(g) \cup Served(h, n) /\ Queued(g) \cap Served(h, n) = {}
    BY <2>2, <1>1 DEF Queued
  <2>4. Callers(g) = Callers(h)
    BY <2>2, <2>3 DEF Callers
  <2>5. /\ Queued(g) \cap (g.woken \cup g.orphans) = {}
        /\ g.woken \cap g.orphans = {}
    BY <2>2, <2>3 DEF HostOK
  <2>6. IsFiniteSet(h.woken) /\ h.woken \cap Served(h, n) = {}
    BY <2>3 DEF HostOK
  <2>7. IsFiniteSet(Served(h, n))
    <3>1. CASE n <= Len(h.waiters)
      BY <3>1, <1>0, ServedCardinality, LenProperties
    <3>2. CASE ~(n <= Len(h.waiters))
      <4>1. Len(h.waiters) \in 0 .. Len(h.waiters) /\ DOMAIN h.waiters = 1 .. Len(h.waiters)
        BY <1>0, LenProperties
      <4>2. Served(h, n) = Served(h, Len(h.waiters))
        BY <3>2, <4>1, <1>0, LenProperties DEF Served
      <4> QED BY <4>1, <4>2, <1>0, ServedCardinality
    <3> QED BY <3>1, <3>2
  <2>8. IsFiniteSet(g.woken)
        /\ Cardinality(g.woken) = Cardinality(h.woken) + Cardinality(Served(h, n))
    <3>1. Cardinality(h.woken \cap Served(h, n)) = 0
      BY <2>6, FS_EmptySet
    <3>2. Cardinality(h.woken) \in Nat /\ Cardinality(Served(h, n)) \in Nat
      BY <2>6, <2>7, FS_CardinalityType
    <3>3. /\ IsFiniteSet(h.woken \cup Served(h, n))
          /\ Cardinality(h.woken \cup Served(h, n)) = Cardinality(h.woken)
               + Cardinality(Served(h, n)) - Cardinality(h.woken \cap Served(h, n))
      BY <2>6, <2>7, FS_Union
    <3> QED BY <3>1, <3>2, <3>3, <2>2
  <2>9. ASSUME g.waiters # <<>> PROVE g.count + Cardinality(g.woken) >= MaxPerHost
    <3>1. n < Len(h.waiters) /\ Len(h.waiters) \in Nat
      BY <2>9, <2>2, <1>0, <1>1, UnservedProperties, EmptySeq, LenProperties
    <3>2. Cardinality(Served(h, n)) = n
      BY <3>1, <1>0, ServedCardinality
    <3>3. h.count + Cardinality(h.woken) >= MaxPerHost
      BY <3>1, EmptySeq DEF HostOK
    <3>4. Cardinality(h.woken) \in Nat
      BY <2>6, FS_CardinalityType
    <3> QED BY <3>2, <3>3, <3>4, <2>2, <2>8, <1>2, <1>0
  <2>10. HostOK(g)
    BY <2>2, <2>5, <2>8, <2>9, <1>1 DEF HostOK
  <2> QED BY <2>2, <2>4, <2>10, <1>2
<1> QED
  BY <1>4, <1>5, <1>6 DEF Deleted

(* A new caller either counts itself in or queues behind the others.       *)
LEMMA TakeSlotKeeps ==
  ASSUME NEW h, HostOK(h), NEW c \in Attempts, c \notin Callers(h)
  PROVE  /\ HostOK(TakeSlot(h, c))
         /\ HasRoom(h) => /\ Callers(TakeSlot(h, c)) = Callers(h)
                          /\ TakeSlot(h, c).count = h.count + 1
         /\ ~HasRoom(h) => /\ Callers(TakeSlot(h, c)) = Callers(h) \cup {c}
                           /\ TakeSlot(h, c).count = h.count
<1> DEFINE g == TakeSlot(h, c)
<1>0. /\ h.count \in Nat /\ h.waiters \in Seq(Attempts) /\ h \in Host
      /\ h.woken \in SUBSET Attempts /\ h.orphans \in SUBSET Attempts
      /\ Cardinality(h.woken) \in Nat /\ MaxPerHost \in Nat
  BY MaxPerHostAssumption, FS_CardinalityType DEF HostOK, Host
<1>1. CASE HasRoom(h)
  <2>1. /\ g \in Host /\ g.live = TRUE /\ g.count = h.count + 1
        /\ g.waiters = h.waiters /\ g.woken = h.woken /\ g.orphans = h.orphans
    <3>1. g = [h EXCEPT !.live = TRUE, !.count = @ + 1]
      BY <1>1 DEF TakeSlot
    <3>2. h.count + 1 \in Nat
      BY <1>0
    <3> HIDE DEF g
    <3> QED BY <3>1, <3>2, <1>0 DEF Host
  <2>2. Queued(g) = Queued(h)
    BY <2>1 DEF Queued
  <2>3. HostOK(g)
    BY <2>1, <2>2, <1>0 DEF HostOK
  <2> QED BY <2>1, <2>2, <2>3, <1>1 DEF Callers
<1>2. CASE ~HasRoom(h)
  <2>1. /\ g.live = TRUE /\ g.count = h.count /\ g.waiters = Append(h.waiters, c)
        /\ g.woken = h.woken /\ g.orphans = h.orphans
        /\ g \in Host
    <3>1. Append(h.waiters, c) \in Seq(Attempts)
      BY <1>0, AppendProperties
    <3>2. g = [h EXCEPT !.live = TRUE, !.waiters = Append(@, c)]
      BY <1>2 DEF TakeSlot
    <3> QED BY <3>1, <3>2, <1>0 DEF Host
  <2>2. /\ DOMAIN h.waiters = 1 .. Len(h.waiters) /\ Len(h.waiters) \in Nat
        /\ DOMAIN g.waiters = 1 .. (Len(h.waiters) + 1)
        /\ \A i \in DOMAIN h.waiters : g.waiters[i] = h.waiters[i]
        /\ g.waiters[Len(h.waiters) + 1] = c
    BY <2>1, <1>0, AppendProperties, LenProperties
  <2>3. Queued(g) = Queued(h) \cup {c}
    BY <2>2 DEF Queued
  <2>4. c \notin Queued(h)
    BY DEF Callers
  <2>5. Distinct(g.waiters)
    BY <2>2, <2>4 DEF Distinct, Queued, HostOK
  <2>6. h.count >= MaxPerHost
    BY <1>0, <1>2 DEF HasRoom
  <2>7. HostOK(g)
    BY <2>1, <2>3, <2>5, <2>6, <1>0 DEF HostOK, Callers
  <2> QED BY <2>1, <2>3, <2>7, <1>2 DEF Callers
<1> QED BY <1>1, <1>2

(* A resumed caller leaves the entry's books and, if the entry is still    *)
(* there, is counted.                                                      *)
LEMMA ResumedKeeps ==
  ASSUME NEW h, HostOK(h), NEW c \in h.woken \cup h.orphans
  PROVE  /\ HostOK(Resumed(h, c))
         /\ Callers(Resumed(h, c)) = Callers(h) \ {c}
         /\ Resumed(h, c).count <= h.count + 1
<1> DEFINE g == Resumed(h, c)
<1>0. /\ h.count \in Nat /\ h.waiters \in Seq(Attempts) /\ h \in Host
      /\ h.woken \in SUBSET Attempts /\ h.orphans \in SUBSET Attempts
      /\ Cardinality(h.woken) \in Nat /\ MaxPerHost \in Nat
  BY MaxPerHostAssumption, FS_CardinalityType DEF HostOK, Host
<1>1. CASE c \in h.woken
  <2>1. /\ g \in Host /\ g.live = h.live /\ g.count = h.count + 1
        /\ g.waiters = h.waiters /\ g.woken = h.woken \ {c} /\ g.orphans = h.orphans
    <3>1. g = [h EXCEPT !.count = @ + 1, !.woken = @ \ {c}]
      BY <1>1 DEF Resumed
    <3>2. h.count + 1 \in Nat /\ h.woken \ {c} \in SUBSET Attempts
      BY <1>0
    <3> HIDE DEF g
    <3> QED BY <3>1, <3>2, <1>0 DEF Host
  <2>2. Queued(g) = Queued(h)
    BY <2>1 DEF Queued
  <2>3. IsFiniteSet(g.woken) /\ Cardinality(g.woken) = Cardinality(h.woken) - 1
    <3>1. IsFiniteSet(h.woken)
      BY DEF HostOK
    <3>2. IsFiniteSet(h.woken \ {c}) /\ Cardinality(h.woken \ {c}) = Cardinality(h.woken) - 1
      BY <3>1, <1>1, FS_RemoveElement
    <3> QED BY <2>1, <3>2
  <2>4. h.live
    BY <1>1 DEF HostOK
  <2>5. HostOK(g)
    BY <2>1, <2>2, <2>3, <2>4, <1>0 DEF HostOK
  <2>6. Callers(g) = Callers(h) \ {c}
    BY <2>1, <2>2, <1>1 DEF Callers, HostOK
  <2> QED BY <2>1, <2>5, <2>6, <1>0
<1>2. CASE c \notin h.woken
  <2>1. /\ g \in Host /\ g.live = h.live /\ g.count = h.count
        /\ g.waiters = h.waiters /\ g.woken = h.woken /\ g.orphans = h.orphans \ {c}
    BY <1>0, <1>2 DEF Resumed, Host
  <2>2. Queued(g) = Queued(h)
    BY <2>1 DEF Queued
  <2>3. HostOK(g)
    BY <2>1, <2>2, <1>0 DEF HostOK
  <2>4. Callers(g) = Callers(h) \ {c}
    BY <2>1, <2>2, <1>2 DEF Callers, HostOK
  <2> QED BY <2>1, <2>3, <2>4, <1>0
<1> QED BY <1>1, <1>2

-----------------------------------------------------------------------------
(* An empty pool has no entry, no caller and no holder.                    *)
LEMMA IInvInit == Init => IInv
<1> SUFFICES ASSUME Init PROVE IInv
  OBVIOUS
<1>1. <<>> \in Seq(Attempts)
  BY EmptySeq
<1>2. NoHost \in Host
  BY <1>1 DEF NoHost, Host
<1>3. Callers(NoHost) = {}
  BY DEF Callers, Queued, NoHost
<1>4. HostOK(NoHost)
  BY <1>2, FS_EmptySet DEF HostOK, NoHost, Distinct, Queued
<1> QED
  BY <1>3, <1>4, FS_EmptySet DEF Init, IInv, NoHost

(* Giving back slots that are held, as Acquire and Release both do.        *)
LEMMA GiveBackHeld ==
  ASSUME IInv, NEW S, S \subseteq holders
  PROVE  LET h == GiveBack(host, Cardinality(S))
         IN /\ Cardinality(S) \in Nat
            /\ HostOK(h)
            /\ Callers(h) = Callers(host)
            /\ IsFiniteSet(holders \ S)
            /\ h.count <= Cardinality(holders \ S)
<1>1. IsFiniteSet(holders) /\ IsFiniteSet(S) /\ holders \cap S = S
  BY FS_Subset DEF IInv
<1>2. /\ Cardinality(S) \in Nat /\ Cardinality(holders) \in Nat
      /\ Cardinality(S) <= Cardinality(holders)
  BY <1>1, FS_CardinalityType, FS_Subset
<1>3. /\ IsFiniteSet(holders \ S)
      /\ Cardinality(holders \ S) = Cardinality(holders) - Cardinality(S)
  BY <1>1, FS_Difference
<1>4. host.count \in Nat /\ host.count <= Cardinality(holders)
  BY DEF IInv, HostOK, Host
<1>5. Remaining(host, Cardinality(S)) <= Cardinality(holders \ S)
      /\ Remaining(host, Cardinality(S)) \in Nat
  BY <1>2, <1>3, <1>4 DEF Remaining
<1>6. HostOK(host)
  BY DEF IInv
<1>7. /\ HostOK(GiveBack(host, Cardinality(S)))
      /\ Callers(GiveBack(host, Cardinality(S))) = Callers(host)
      /\ GiveBack(host, Cardinality(S)).count <= Remaining(host, Cardinality(S))
  BY <1>2, <1>6, GiveBackKeeps
<1>8. GiveBack(host, Cardinality(S)).count \in Nat
      /\ Cardinality(holders \ S) \in Nat
  BY <1>3, <1>7, FS_CardinalityType DEF HostOK, Host
<1> QED
  BY <1>2, <1>3, <1>5, <1>7, <1>8

(* Every run of code that touches the entry preserves the invariant.       *)
LEMMA IInvStep == IInv /\ [Next]_slotVars => IInv'
<1> SUFFICES ASSUME IInv, [Next]_slotVars PROVE IInv'
  OBVIOUS
<1>0. HostOK(host) /\ Callers(host) \cap holders = {}
      /\ Callers(host) \cup holders \subseteq used
  BY DEF IInv
<1>1. ASSUME NEW S \in SUBSET holders, NEW c \in Attempts, Acquire(S, c)
      PROVE  IInv'
  <2> DEFINE h == GiveBack(host, Cardinality(S))
  <2>1. /\ HostOK(h) /\ Callers(h) = Callers(host) /\ IsFiniteSet(holders \ S)
        /\ h.count <= Cardinality(holders \ S) /\ h.count \in Nat
        /\ Cardinality(holders \ S) \in Nat
    BY GiveBackHeld, FS_CardinalityType DEF HostOK, Host
  <2>2. /\ c \notin used /\ used' = used \cup {c} /\ host' = TakeSlot(h, c)
        /\ holders' = (holders \ S) \cup (IF HasRoom(h) THEN {c} ELSE {})
    BY <1>1 DEF Acquire
  <2>3. c \notin Callers(h) /\ c \notin holders
    BY <1>0, <2>1, <2>2
  <2>4. /\ HostOK(host')
        /\ HasRoom(h) => Callers(host') = Callers(host) /\ host'.count = h.count + 1
        /\ ~HasRoom(h) => Callers(host') = Callers(host) \cup {c} /\ host'.count = h.count
    BY <2>1, <2>2, <2>3, TakeSlotKeeps
  <2>5. IsFiniteSet(holders') /\ host'.count <= Cardinality(holders')
    <3>1. CASE HasRoom(h)
      <4>1. holders' = (holders \ S) \cup {c} /\ c \notin holders \ S
        BY <3>1, <2>2, <2>3
      <4>2. IsFiniteSet(holders') /\ Cardinality(holders') = Cardinality(holders \ S) + 1
        BY <4>1, <2>1, FS_AddElement
      <4> QED BY <4>2, <3>1, <2>1, <2>4
    <3>2. CASE ~HasRoom(h)
      BY <3>2, <2>1, <2>2, <2>4
    <3> QED BY <3>1, <3>2
  <2>6. Callers(host') \cap holders' = {} /\ Callers(host') \cup holders' \subseteq used'
    BY <1>0, <2>2, <2>3, <2>4
  <2>7. holders' \in SUBSET Attempts /\ used' \in SUBSET Attempts
    BY <2>2 DEF IInv
  <2>8. Callers(host)' = Callers(host') /\ HostOK(host)' = HostOK(host')
    BY DEF Callers, HostOK, Queued, Distinct
  <2> QED BY <2>4, <2>5, <2>6, <2>7 DEF IInv
<1>2. ASSUME NEW S \in SUBSET holders, Release(S)
      PROVE  IInv'
  <2>1. /\ host' = GiveBack(host, Cardinality(S)) /\ holders' = holders \ S
        /\ used' = used
    BY <1>2 DEF Release
  <2>2. /\ HostOK(host') /\ Callers(host') = Callers(host)
        /\ IsFiniteSet(holders') /\ host'.count <= Cardinality(holders')
    BY <2>1, GiveBackHeld
  <2> QED BY <1>0, <2>1, <2>2 DEF IInv
<1>3. ASSUME NEW c \in Attempts, Resume(c)
      PROVE  IInv'
  <2>1. /\ c \in host.woken \cup host.orphans /\ host' = Resumed(host, c)
        /\ holders' = holders \cup {c} /\ used' = used
    BY <1>3 DEF Resume
  <2>2. /\ HostOK(host') /\ Callers(host') = Callers(host) \ {c}
        /\ host'.count <= host.count + 1
    BY <2>1, <1>0, ResumedKeeps
  <2>3. c \notin holders /\ c \in used
    BY <1>0, <2>1 DEF Callers
  <2>4. IsFiniteSet(holders') /\ Cardinality(holders') = Cardinality(holders) + 1
    BY <2>1, <2>3, FS_AddElement DEF IInv
  <2>5. host.count <= Cardinality(holders) /\ Cardinality(holders) \in Nat
        /\ host.count \in Nat /\ host'.count \in Nat
    BY <2>2, FS_CardinalityType DEF IInv, HostOK, Host
  <2> QED BY <1>0, <2>1, <2>2, <2>3, <2>4, <2>5 DEF IInv
<1>4. ASSUME UNCHANGED slotVars
      PROVE  IInv'
  BY <1>4 DEF slotVars, IInv, HostOK, Callers, Queued, Distinct
<1> QED
  BY <1>1, <1>2, <1>3, <1>4 DEF Next

-----------------------------------------------------------------------------
(* The inductive invariant holds in every reachable state.                 *)
LEMMA Invariance == Spec => []IInv
BY IInvInit, IInvStep, PTL DEF Spec

(* It is stronger than the four invariants the run checks.                 *)
LEMMA IInvImplies ==
  IInv => TypeOK /\ OnePlace /\ NoLostWakeup /\ CountNeverExceedsHolders
BY DEF IInv, HostOK, Callers, Distinct, TypeOK, OnePlace, NoLostWakeup,
       CountNeverExceedsHolders

(* The entry, the holders and the callers keep their types (pool.js        *)
(* 79-97).                                                                 *)
THEOREM TypeCorrect == Spec => []TypeOK
BY Invariance, IInvImplies, PTL

(* No caller is ever queued twice, resolved while it queues, or in         *)
(* possession of a slot while it waits for one (pool.js 83-86, 94-95).     *)
THEOREM CallersInOnePlace == Spec => []OnePlace
BY Invariance, IInvImplies, PTL

(* While a caller is queued its host keeps an entry and every slot of the  *)
(* entry is counted or about to be, so a later release wakes it, whatever  *)
(* releases, orphans and recreated entries came before (pool.js 79-97).    *)
THEOREM NoWakeupLost == Spec => []NoLostWakeup
BY Invariance, IInvImplies, PTL

(* The count never exceeds the slots held: capacity does not leak away     *)
(* (pool.js 86, 93, 96).                                                   *)
THEOREM CapacityNeverLeaks == Spec => []CountNeverExceedsHolders
BY Invariance, IInvImplies, PTL

(* n releases take the n oldest callers, and a new caller goes last.       *)
LEMMA FifoStep ==
  IInv /\ [Next]_slotVars =>
    [\A i, j \in DOMAIN host.waiters :
       (i < j /\ host.waiters[j] \notin Queued(host'))
          => host.waiters[i] \notin Queued(host')]_slotVars
<1> SUFFICES ASSUME IInv, Next, NEW i \in DOMAIN host.waiters,
                    NEW j \in DOMAIN host.waiters, i < j,
                    host.waiters[j] \notin Queued(host'),
                    host.waiters[i] \in Queued(host')
             PROVE  FALSE
  BY DEF slotVars
<1>0. /\ HostOK(host) /\ host \in Host /\ Distinct(host.waiters)
      /\ DOMAIN host.waiters = 1 .. Len(host.waiters) /\ Len(host.waiters) \in Nat
  BY LenProperties DEF IInv, HostOK, Host
<1>1. host.waiters[i] \in Queued(host) /\ host.waiters[j] \in Queued(host)
  BY DEF Queued
<1>2. ASSUME NEW n \in Nat, host.waiters[j] \notin Queued(GiveBack(host, n)),
             host.waiters[i] \in Queued(GiveBack(host, n))
      PROVE  FALSE
  <2> DEFINE left == {Unserved(host, n)[k] : k \in DOMAIN Unserved(host, n)}
  <2>1. Queued(host) = left \cup Served(host, n) /\ left \cap Served(host, n) = {}
    BY <1>0, QueueSplits
  <2>2. Queued(GiveBack(host, n)) \in {left, Queued(host), {}}
    <3>1. CASE ~host.live
      BY <3>1 DEF GiveBack
    <3>2. CASE Deleted(host, n)
      BY <3>2 DEF GiveBack, Deleted, NoHost, Queued
    <3>3. CASE host.live /\ ~Deleted(host, n)
      <4>1. GiveBack(host, n).waiters = Unserved(host, n)
        BY <3>3, <1>0 DEF GiveBack, Host
      <4> QED BY <4>1 DEF Queued
    <3> QED BY <3>1, <3>2, <3>3 DEF Deleted
  <2>3. /\ host.waiters[i] \notin Served(host, n)
        /\ host.waiters[j] \in Served(host, n)
    BY <2>1, <2>2, <1>1, <1>2
  <2>4. PICK k \in DOMAIN host.waiters : k <= n /\ host.waiters[k] = host.waiters[j]
    BY <2>3 DEF Served
  <2>5. j <= n
    BY <2>4, <1>0 DEF Distinct
  <2>6. i <= n
    BY <2>5, <1>0
  <2> QED BY <2>3, <2>6 DEF Served
<1>3. ASSUME NEW S \in SUBSET holders, NEW c \in Attempts, Acquire(S, c)
      PROVE  FALSE
  <2> DEFINE h == GiveBack(host, Cardinality(S))
  <2>1. HostOK(h) /\ Callers(h) = Callers(host) /\ Cardinality(S) \in Nat
    BY GiveBackHeld
  <2>2. c \notin used /\ host' = TakeSlot(h, c) /\ h.waiters \in Seq(Attempts)
        /\ h \in Host
    BY <1>3, <2>1 DEF Acquire, HostOK, Host
  <2>3. c # host.waiters[i] /\ c # host.waiters[j]
    BY <1>1, <2>2 DEF IInv, Callers
  <2>4. Queued(host') = Queued(h) \/ Queued(host') = Queued(h) \cup {c}
    <3>1. CASE HasRoom(h)
      <4>1. host'.waiters = h.waiters
        BY <3>1, <2>2 DEF TakeSlot, Host
      <4> QED BY <4>1 DEF Queued
    <3>2. CASE ~HasRoom(h)
      <4>1. host'.waiters = Append(h.waiters, c)
        BY <3>2, <2>2 DEF TakeSlot, Host
      <4>2. /\ DOMAIN h.waiters = 1 .. Len(h.waiters) /\ Len(h.waiters) \in Nat
            /\ DOMAIN host'.waiters = 1 .. (Len(h.waiters) + 1)
            /\ \A k \in DOMAIN h.waiters : host'.waiters[k] = h.waiters[k]
            /\ host'.waiters[Len(h.waiters) + 1] = c
        BY <4>1, <2>2, AppendProperties, LenProperties
      <4> HIDE DEF h
      <4>3. DOMAIN host'.waiters = DOMAIN h.waiters \cup {Len(h.waiters) + 1}
        BY <4>2
      <4>4. Queued(host') \subseteq Queued(h) \cup {c}
        BY <4>2, <4>3 DEF Queued
      <4>5. Queued(h) \subseteq Queued(host')
        BY <4>2, <4>3 DEF Queued
      <4>6. c \in Queued(host')
        BY <4>2, <4>3 DEF Queued
      <4> QED BY <4>4, <4>5, <4>6
    <3> QED BY <3>1, <3>2
  <2> QED BY <2>1, <2>3, <2>4, <1>2
<1>4. ASSUME NEW S \in SUBSET holders, Release(S)
      PROVE  FALSE
  BY <1>2, <1>4, GiveBackHeld DEF Release
<1>5. ASSUME NEW c \in Attempts, Resume(c)
      PROVE  FALSE
  <2>1. host'.waiters = host.waiters
    BY <1>5, <1>0 DEF Resume, Resumed, Host
  <2> QED BY <2>1, <1>1 DEF Queued
<1> QED
  BY <1>3, <1>4, <1>5 DEF Next

(* The queue is first come, first served (pool.js 84, 94).                 *)
THEOREM FirstComeFirstServed == Spec => FifoWakeup
BY Invariance, FifoStep, PTL DEF Spec, FifoWakeup
=============================================================================
