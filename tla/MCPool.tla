------------------------------ MODULE MCPool ------------------------------
(***************************************************************************)
(* Pool on a small instance, and the semaphore's closed form for several   *)
(* releases in a row, which closeAll relies on, compared with _releaseSlot *)
(* applied one at a time.                                                  *)
(***************************************************************************)
EXTENDS Pool, TLC

Symmetry == Permutations(Reqs)

(* pool.js 89-97, once, line by line.                                      *)
ReleaseOnce(h) ==
  IF ~h.live THEN h
  ELSE LET left == IF h.count > 0 THEN h.count - 1 ELSE 0
       IN IF h.waiters # <<>>
          THEN [h EXCEPT !.count = left, !.waiters = Tail(@),
                         !.woken = @ \cup {Head(h.waiters)}]
          ELSE IF left = 0
               THEN [Slots!NoHost EXCEPT !.orphans = h.orphans \cup h.woken]
               ELSE [h EXCEPT !.count = left]

RECURSIVE ReleaseTimes(_, _)
ReleaseTimes(h, n) == IF n = 0 THEN h ELSE ReleaseTimes(ReleaseOnce(h), n - 1)

(* Giving back n slots in one run of code is n calls of _releaseSlot       *)
(* (pool.js 89-97): evaluated for every small entry and every n, whether   *)
(* or not the entry is reachable.                                          *)
Entries ==
  [live : {TRUE}, count : 0 .. 3, waiters : {<<>>, <<1>>, <<1, 2>>},
   woken : SUBSET {3, 4}, orphans : SUBSET {5}]
ASSUME GiveBackIsRepeatedRelease ==
  \A h \in Entries \cup {Slots!NoHost}, n \in 0 .. 5 :
    Slots!GiveBack(h, n) = ReleaseTimes(h, n)
=============================================================================
