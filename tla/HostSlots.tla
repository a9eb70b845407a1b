----------------------------- MODULE HostSlots -----------------------------
(***************************************************************************)
(* The per-host slot semaphore of lib/pool.js (_acquireSlot and            *)
(* _releaseSlot, lines 79-97) for one host:port.                           *)
(*                                                                         *)
(* hostState maps the host to an object { count, waiters } which is made   *)
(* on demand and deleted when its count drops to 0.  A caller that finds   *)
(* the host full awaits a promise; releasing a slot resolves the oldest    *)
(* promise, and the caller adds itself to the count only when its          *)
(* continuation runs, a microtask later, WITHOUT looking at the count      *)
(* again.  If the object is deleted in between, the continuation           *)
(* increments an object nobody can reach any more.                         *)
(*                                                                         *)
(* Several slots can be released in one synchronous run of code            *)
(* (closeAll), and an acquire can release a slot and take one in the same  *)
(* run (the stale connection it replaces).                                 *)
(***************************************************************************)
EXTENDS Integers, Sequences, FiniteSets

CONSTANTS
  Attempts,     \* calls of _acquireSlot, each one made at most once
  MaxPerHost    \* pool.maxPerHost, the cap

ASSUME MaxPerHostAssumption == MaxPerHost \in Nat \ {0}

VARIABLES
  host,      \* the host's entry of hostState, with the callers it resolved
  holders,   \* attempts whose count++ has run and whose slot is not released
  used       \* attempts that have called _acquireSlot

slotVars == <<host, holders, used>>

Host == [live : BOOLEAN,              \* hostState has an entry for the host
         count : Nat,
         waiters : Seq(Attempts),
         woken : SUBSET Attempts,     \* resolved, count++ not yet run
         orphans : SUBSET Attempts]   \* woken, but the entry was deleted

NoHost == [live |-> FALSE, count |-> 0, waiters |-> <<>>,
           woken |-> {}, orphans |-> {}]

Queued(h) == {h.waiters[i] : i \in DOMAIN h.waiters}

(* No caller has been resolved and not resumed: no microtask is pending.   *)
Drained(h) == h.woken = {} /\ h.orphans = {}

-----------------------------------------------------------------------------
(* pool.js 79-87 up to the await: make the entry if there is none, then    *)
(* either queue or count.                                                  *)
HasRoom(h) == h.count < MaxPerHost

TakeSlot(h, c) ==
  IF HasRoom(h)
    THEN [h EXCEPT !.live = TRUE, !.count = @ + 1]
    ELSE [h EXCEPT !.live = TRUE, !.waiters = Append(@, c)]

(* pool.js 86 after the await: the resolved caller counts itself in, on    *)
(* the entry it queued on; and the slip of counting only those who did not *)
(* have to wait.                                                           *)
ResumedUncounted(h, c) ==
  [h EXCEPT !.woken = @ \ {c}, !.orphans = @ \ {c}]

Resumed(h, c) ==
  IF c \in h.woken
    THEN [h EXCEPT !.count = @ + 1, !.woken = @ \ {c}]
    ELSE [h EXCEPT !.orphans = @ \ {c}]

(* pool.js 93, n times in a row.                                            *)
Remaining(h, n) == IF n < h.count THEN h.count - n ELSE 0

(* pool.js 94: n shifts take the oldest waiters; and the slip of dropping    *)
(* the newest instead.                                                     *)
Served(h, n) == {h.waiters[i] : i \in {i \in DOMAIN h.waiters : i <= n}}
UnservedPop(h, n) == SubSeq(h.waiters, 1, Len(h.waiters) - n)
Unserved(h, n) == SubSeq(h.waiters, n + 1, Len(h.waiters))

(* pool.js 96, the else branch: n releases delete the entry when one that  *)
(* finds no waiter brings the count to 0; and the slip of deleting an      *)
(* entry that still has waiters.                                           *)
DeletedWithWaiters(h, n) == h.live /\ n > 0 /\ Remaining(h, n) = 0
Deleted(h, n) == h.live /\ n > Len(h.waiters) /\ Remaining(h, n) = 0

(* pool.js 89-97, n times in a row: nothing without an entry; once the     *)
(* entry is deleted the callers it woke are orphans.                       *)
GiveBackNoDecrement(h, n) ==
  IF ~h.live THEN h
  ELSE [h EXCEPT !.waiters = Unserved(h, n), !.woken = @ \cup Served(h, n)]

GiveBack(h, n) ==
  IF ~h.live THEN h
  ELSE IF Deleted(h, n)
       THEN [NoHost EXCEPT !.orphans = h.orphans \cup h.woken \cup Served(h, n)]
       ELSE [h EXCEPT !.count = Remaining(h, n),
                      !.waiters = Unserved(h, n),
                      !.woken = @ \cup Served(h, n)]

-----------------------------------------------------------------------------
Init ==
  /\ host = NoHost
  /\ holders = {}
  /\ used = {}

(* Synchronous code gives back the slots S and then calls _acquireSlot.    *)
Acquire(S, c) ==
  LET h == GiveBack(host, Cardinality(S))
  IN /\ S \subseteq holders
     /\ c \in Attempts \ used
     /\ used' = used \cup {c}
     /\ host' = TakeSlot(h, c)
     /\ holders' = (holders \ S) \cup (IF HasRoom(h) THEN {c} ELSE {})

(* Synchronous code that only gives back slots: a failed handshake, one    *)
(* closed connection, or closeAll.                                         *)
Release(S) ==
  /\ S \subseteq holders
  /\ S # {}
  /\ host' = GiveBack(host, Cardinality(S))
  /\ holders' = holders \ S
  /\ UNCHANGED used

(* The microtask that continues a waiter.                                  *)
Resume(c) ==
  /\ c \in host.woken \cup host.orphans
  /\ host' = Resumed(host, c)
  /\ holders' = holders \cup {c}
  /\ UNCHANGED used

Next ==
  \/ \E S \in SUBSET holders, c \in Attempts : Acquire(S, c)
  \/ \E S \in SUBSET holders : Release(S)
  \/ \E c \in Attempts : Resume(c)

Spec == Init /\ [][Next]_slotVars

(* Microtasks run to completion, and every holder gives its slot back in   *)
(* the end (the idle timer, or a failed handshake).                        *)
Fairness ==
  /\ \A c \in Attempts : WF_slotVars(Resume(c))
  /\ \A c \in Attempts :
       WF_slotVars(\E S \in SUBSET holders : c \in S /\ Release(S))

FairSpec == Spec /\ Fairness

-----------------------------------------------------------------------------
TypeOK ==
  /\ host \in Host
  /\ holders \in SUBSET Attempts
  /\ used \in SUBSET Attempts

(* No wakeup is lost: while a caller is queued the host has an entry, and  *)
(* its slots are all counted or on their way to a resumed caller, so some  *)
(* later release wakes the caller (pool.js 83-96).                         *)
NoLostWakeup ==
  host.waiters # <<>> =>
    /\ host.live
    /\ host.count + Cardinality(host.woken) >= MaxPerHost

(* The accounting may let too many callers in, never too few: the count    *)
(* never exceeds the slots really held, so that no capacity leaks away     *)
(* (Math.max(0, ...) at pool.js 93 and releases on a recreated entry).     *)
CountNeverExceedsHolders == host.count <= Cardinality(holders)

(* A caller is in one place: queued once, resolved, or holding.            *)
OnePlace ==
  /\ \A i, j \in DOMAIN host.waiters :
       host.waiters[i] = host.waiters[j] => i = j
  /\ Queued(host) \cap (host.woken \cup host.orphans \cup holders) = {}
  /\ host.woken \cap (host.orphans \cup holders) = {}
  /\ host.orphans \cap holders = {}

(* Waiters are served in the order they queued: nobody is resolved while   *)
(* one who queued before is still waiting (pool.js 94).                    *)
FifoWakeup ==
  [][\A i, j \in DOMAIN host.waiters :
       (i < j /\ host.waiters[j] \notin Queued(host'))
          => host.waiters[i] \notin Queued(host')]_slotVars

(* Every queued caller gets a slot in the end (pool.js 83-86, 94-95).      *)
WaiterServed ==
  \A c \in Attempts : c \in Queued(host) ~> c \in holders
=============================================================================
