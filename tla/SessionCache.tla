---------------------------- MODULE SessionCache ----------------------------
(***************************************************************************)
(* The TLS session cache (lib/tls/session-cache.js): the list of tickets   *)
(* of one host in each of several processes, and the file they share.      *)
(*                                                                         *)
(* A flush is one run of code in its process, so nothing else happens in   *)
(* that process meanwhile; it is cut at every call to the file system,     *)
(* where the other processes come in.  Hosts do not touch each other: the  *)
(* merge treats each list of the file on its own.                          *)
(*                                                                         *)
(* A process may stop anywhere, and may be started again.  A lock can only *)
(* grow LOCK_STALE_MS old when its owner is not in its flush any more,     *)
(* which takes milliseconds; 2 s of waiting are enough for _acquireLock to *)
(* give up only under such a lock.                                         *)
(***************************************************************************)
EXTENDS Integers, FiniteSets, SequencesExt

CONSTANTS
  Procs,         \* processes pointed at the same file
  NoProc,        \* nobody
  MaxPerHost,    \* MAX_PER_HOST
  Kills,         \* a process may be killed in the middle of a flush
  MaxTickets,    \* bound: tickets servers issue, numbered as they come
  MaxStops,      \* bound: how often processes stop
  MaxExpired     \* bound: how many tickets' lifetimes elapse

ASSUME SessionCacheAssumption ==
  /\ NoProc \notin Procs
  /\ MaxPerHost \in Nat \ {0}
  /\ Kills \in BOOLEAN /\ MaxTickets \in Nat /\ MaxStops \in Nat /\ MaxExpired \in Nat

VARIABLES
  at,         \* where each process is in _flush; "down" when not running
  store,      \* its list for the host, most recent first
  timer,      \* writeTimer
  onDisk,     \* what it read under the lock
  disk,       \* the file's list for the host
  tmp,        \* the file `.tmp`, which all processes use: a list, or none
  lock,       \* the file `.lock`
  issued,     \* how many tickets servers have issued
  expired,    \* tickets whose expiresAt has passed
  stops,      \* how often a process stopped
  robbed      \* ghost: a lock was removed while its owner was at work

vars == <<at, store, timer, onDisk, disk, tmp, lock, issued, expired, stops,
          robbed>>

NoFile == <<"none">>
File(list) == <<"list", list>>
NoLock == [owner |-> NoProc, stale |-> FALSE]

Critical == {"read", "write", "rename", "unlock"}   \* steps under the lock
InCritical == {p \in Procs : at[p] \in Critical}

Tickets == 1 .. MaxTickets
Lists == UNION {[1 .. n -> Tickets] : n \in 0 .. MaxPerHost}

TypeOK ==
  /\ at \in [Procs -> {"down", "idle", "lock", "stat", "reclaim"} \cup Critical]
  /\ store \in [Procs -> Lists] /\ onDisk \in [Procs -> Lists]
  /\ timer \in [Procs -> BOOLEAN]
  /\ disk \in Lists
  /\ tmp = NoFile \/ tmp \in {File(l) : l \in Lists}
  /\ lock \in [owner : Procs \cup {NoProc}, stale : BOOLEAN]
  /\ issued \in 0 .. MaxTickets /\ expired \subseteq Tickets
  /\ stops \in 0 .. MaxStops /\ robbed \in BOOLEAN

Bounded(list) == SubSeq(list, 1, IF Len(list) < MaxPerHost THEN Len(list) ELSE MaxPerHost)

\* filter, SelectSeq as a recursive function.
Without(list, gone) ==
  LET left[n \in 0 .. Len(list)] ==
        IF n = 0 THEN <<>>
        ELSE IF list[n] \in gone THEN left[n - 1] ELSE Append(left[n - 1], list[n])
  IN left[Len(list)]

Valid(list) == Without(list, expired)

MergedBlind(theirs, ours) == Bounded(Valid(ours))
MergedUnseen(theirs, ours) == Bounded(Valid(ours) \o theirs)
MergedInverted(theirs, ours) ==
  Bounded(Without(Valid(ours), Tickets \ ToSet(theirs)))

\* dest of _flush: each of ours the file lacks is put in front, one by one.
Merged(theirs, ours) ==
  Bounded(Reverse(Without(Valid(ours), ToSet(theirs))) \o theirs)

\* The processes have started, and found no file.
Init ==
  /\ at = [p \in Procs |-> "idle"]
  /\ store = [p \in Procs |-> <<>>]
  /\ timer = [p \in Procs |-> FALSE]
  /\ onDisk = [p \in Procs |-> <<>>]
  /\ disk = <<>> /\ tmp = NoFile /\ lock = NoLock
  /\ issued = 0 /\ expired = {} /\ stops = 0 /\ robbed = FALSE

-----------------------------------------------------------------------------
(* The calls of a process.                                                 *)

\* enablePersistence and _load.
Start(p) ==
  /\ at[p] = "down"
  /\ at' = [at EXCEPT ![p] = "idle"]
  /\ store' = [store EXCEPT ![p] = Valid(disk)]
  /\ UNCHANGED <<timer, onDisk, disk, tmp, lock, issued, expired, stops, robbed>>

\* Set the list and _scheduleFlush.
Keep(p, list) ==
  /\ store' = [store EXCEPT ![p] = list]
  /\ timer' = [timer EXCEPT ![p] = TRUE]
  /\ UNCHANGED <<at, onDisk, disk, tmp, lock, expired, stops, robbed>>

Put(p) ==
  /\ at[p] = "idle" /\ issued < MaxTickets
  /\ issued' = issued + 1
  /\ Keep(p, Bounded(<<issued + 1>> \o store[p]))

\* take drops what has expired up to the ticket it returns.
Take(p) ==
  /\ at[p] = "idle"
  /\ \E i \in 1 .. Len(store[p]) :
       /\ store[p][i] \notin expired
       /\ \A j \in 1 .. i - 1 : store[p][j] \in expired
       /\ Keep(p, SubSeq(store[p], i + 1, Len(store[p])))
  /\ UNCHANGED issued

\* take finds no ticket it can return, and then schedules nothing.
TakeNothing(p) ==
  /\ at[p] = "idle" /\ store[p] # <<>> /\ Valid(store[p]) = <<>>
  /\ store' = [store EXCEPT ![p] = <<>>]
  /\ UNCHANGED <<at, timer, onDisk, disk, tmp, lock, issued, expired, stops, robbed>>

Clear(p) ==
  /\ at[p] = "idle"
  /\ Keep(p, <<>>)
  /\ UNCHANGED issued

-----------------------------------------------------------------------------
(* One flush, call by call.                                                *)

Goto(p, step) == at' = [at EXCEPT ![p] = step]
InMemory == <<store, issued, expired, stops>>

\* open with O_CREAT and O_EXCL.
LockFreeUnchecked == TRUE
LockFree == lock = NoLock

OpenLock(p) ==
  /\ IF LockFree
     THEN Goto(p, "read") /\ lock' = [owner |-> p, stale |-> FALSE]
     ELSE Goto(p, "stat") /\ UNCHANGED lock
  /\ UNCHANGED <<InMemory, onDisk, disk, tmp, robbed>>

\* The debounce timer fires; its first call of the file system is the open.
Flush(p) ==
  /\ at[p] = "idle" /\ timer[p]
  /\ timer' = [timer EXCEPT ![p] = FALSE]
  /\ OpenLock(p)

\* The exported flush: at once, and the timer stays.
FlushNow(p) == at[p] = "idle" /\ OpenLock(p) /\ UNCHANGED timer

TryAgain(p) == at[p] = "lock" /\ OpenLock(p) /\ UNCHANGED timer

\* A lock that vanished, or one that is not stale, is tried again.
StatLock(p) ==
  /\ at[p] = "stat"
  /\ Goto(p, IF lock.stale THEN "reclaim" ELSE "lock")
  /\ UNCHANGED <<InMemory, timer, onDisk, disk, tmp, lock, robbed>>

\* unlink takes whatever lock is there by now.
RemoveLock(p) ==
  /\ lock' = NoLock
  /\ robbed' = (robbed \/ lock.owner \in InCritical \ {p})

ReclaimLock(p) ==
  /\ at[p] = "reclaim"
  /\ Goto(p, "lock")
  /\ RemoveLock(p)
  /\ UNCHANGED <<InMemory, timer, onDisk, disk, tmp>>

\* LOCK_TIMEOUT_MS is over: the flush ends without a trace.
Abandoned == lock.owner \in Procs /\ lock.owner \notin InCritical
GiveUp(p) ==
  /\ at[p] = "lock" /\ Abandoned
  /\ Goto(p, "idle")
  /\ UNCHANGED <<InMemory, timer, onDisk, disk, tmp, lock, robbed>>

ReadFile(p) ==
  /\ at[p] = "read"
  /\ Goto(p, "write")
  /\ onDisk' = [onDisk EXCEPT ![p] = disk]
  /\ UNCHANGED <<InMemory, timer, disk, tmp, lock, robbed>>

WriteTmp(p) ==
  /\ at[p] = "write"
  /\ Goto(p, "rename")
  /\ tmp' = File(Merged(onDisk[p], store[p]))
  /\ onDisk' = [onDisk EXCEPT ![p] = <<>>]
  /\ UNCHANGED <<InMemory, timer, disk, lock, robbed>>

\* The rename fails, quietly, when another process renamed .tmp before.
RenameTmp(p) ==
  /\ at[p] = "rename"
  /\ Goto(p, "unlock")
  /\ disk' = IF tmp = NoFile THEN disk ELSE tmp[2]
  /\ tmp' = NoFile
  /\ UNCHANGED <<InMemory, timer, onDisk, lock, robbed>>

Unlock(p) ==
  /\ at[p] = "unlock"
  /\ Goto(p, "idle")
  /\ RemoveLock(p)
  /\ UNCHANGED <<InMemory, timer, onDisk, disk, tmp>>

-----------------------------------------------------------------------------
(* Time, and the end of a process.                                         *)

Expire(t) ==
  /\ t \in 1 .. issued /\ t \notin expired /\ Cardinality(expired) < MaxExpired
  /\ expired' = expired \cup {t}
  /\ UNCHANGED <<at, store, timer, onDisk, disk, tmp, lock, issued, stops, robbed>>

LockAges ==
  /\ Abandoned /\ ~lock.stale
  /\ lock' = [lock EXCEPT !.stale = TRUE]
  /\ UNCHANGED <<at, store, timer, onDisk, disk, tmp, issued, expired, stops, robbed>>

\* The timer is unref'd: a process that has nothing else to do exits.
Stop(p) ==
  /\ at[p] # "down" /\ stops < MaxStops
  /\ at[p] = "idle" \/ (Kills /\ p \in InCritical)   \* waiting, it leaves nothing
  /\ Goto(p, "down")
  /\ store' = [store EXCEPT ![p] = <<>>]
  /\ timer' = [timer EXCEPT ![p] = FALSE]
  /\ onDisk' = [onDisk EXCEPT ![p] = <<>>]
  /\ stops' = stops + 1
  /\ UNCHANGED <<disk, tmp, lock, issued, expired, robbed>>

FlushStep(p) ==
  \/ Flush(p) \/ TryAgain(p) \/ StatLock(p) \/ ReclaimLock(p) \/ GiveUp(p)
  \/ ReadFile(p) \/ WriteTmp(p) \/ RenameTmp(p) \/ Unlock(p)

Next ==
  \/ \E p \in Procs :
       \/ Start(p) \/ Stop(p)
       \/ Put(p) \/ Take(p) \/ TakeNothing(p) \/ Clear(p)
       \/ FlushNow(p) \/ FlushStep(p)
  \/ \E t \in Tickets : Expire(t)
  \/ LockAges

Spec == Init /\ [][Next]_vars

\* A timer fires and a flush, being one run of code, goes on; the lock is
\* tried again and again, so a process that finds it free from time to time
\* gets it.
Fairness ==
  \A p \in Procs : WF_vars(FlushStep(p)) /\ SF_vars(TryAgain(p) /\ LockFree)

FairSpec == Spec /\ Fairness

-----------------------------------------------------------------------------
(* Properties.                                                             *)

\* The lock excludes (comment at 76-78): at most one process is between the
\* read of the file and its rename.  Killed writers break it: two processes
\* see the same stale lock, and the slower one removes the lock the faster
\* one has taken since.
LockExcludes == Cardinality(InCritical) <= 1

\* That is the only way to lose it: as long as nobody's lock was removed
\* while its owner was at work, there is one process in a flush, it owns the
\* lock, and the file still is what it read.
ExclusiveUnlessRobbed ==
  robbed \/ /\ LockExcludes
            /\ \A p \in InCritical : lock.owner = p
            /\ \A p \in Procs : at[p] = "write" => onDisk[p] = disk

\* No flush clobbers what another process saved (76-78, 105-106): a ticket
\* leaves the file only by being pushed off its end.
NothingClobbered ==
  [][robbed' \/ \A t \in ToSet(disk) \ ToSet(disk') : Len(disk') = MaxPerHost]_disk

\* The file never holds a ticket twice (95-99), whatever interleaving or
\* crash produced it, so that no restart offers it twice.
NoTicketTwice == IsInjective(disk) /\ \A p \in Procs : IsInjective(store[p])

\* The list is most recent first (comment at 14).  The merge puts several new
\* tickets in the file in the opposite order, and a restart loads them so.
MostRecentFirst ==
  \A p \in Procs : \A i, j \in 1 .. Len(store[p]) : i < j => store[p][i] > store[p][j]

\* A ticket whose flush is due reaches the file, unless it is used, cleared
\* or expires, its process stops, a dead process's lock is in the way, or
\* another process flushes for ever, whenever the lock is tried.
DueIsSaved ==
  \A p \in Procs, t \in Tickets :
    \/ (timer[p] /\ t \in ToSet(store[p]))
         ~> (t \in ToSet(disk) \/ t \notin ToSet(store[p]) \/ t \in expired
             \/ Abandoned \/ robbed)
    \/ \E q \in Procs \ {p} : []<>(q \in InCritical)

=============================================================================
