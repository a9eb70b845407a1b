----------------------------- MODULE PoolProofs -----------------------------
(***************************************************************************)
(* Theorems about the connection pool, for any number of requests, keys    *)
(* and slots.  The inductive invariant IInv relates the five places that   *)
(* keep a connection: the request that uses it, the map, the shared        *)
(* attempts, the promises chained on it, and the slot it has taken.        *)
(***************************************************************************)
EXTENDS Pool, FiniteSetTheorems, SequenceTheorems, TLAPS

InUsePhases == {"queued", "active", "redirecting", "lost", "settling"}
GivenPhases == {"handed"} \cup InUsePhases

(* A request has a connection of its own only after it has called acquire, *)
(* waits for one that has begun, and is given one that is made.            *)
LifeOK ==
  \A r \in Reqs :
    /\ req[r].phase \in {"idle", "calling"} => conn[r].phase = "unborn"
    /\ req[r].phase \in {"acquiring"} \cup GivenPhases =>
         req[r].on \in Reqs /\ conn[req[r].on].phase # "unborn"
    /\ req[r].phase \in GivenPhases => Wrapped(conn[req[r].on])
    /\ req[r].phase = "queued" => conn[req[r].on].alpn = "h1"

(* The map holds made connections, and none but its own where an attempt   *)
(* for the key is pending.                                                 *)
MapOK ==
  \A k \in Keys :
    /\ connections[k] # None => Wrapped(conn[connections[k]])
    /\ pending[k] # None => connections[k] \in {None, pending[k]}

CountOK == \A c \in Reqs : IsFiniteSet(OnConn(c)) /\ conn[c].active = Cardinality(OnConn(c))

Distinct(s) == \A i, j \in DOMAIN s : s[i] = s[j] => i = j
Elements(s) == {s[i] : i \in DOMAIN s}

(* The queue of an h1 connection is who is on it, each once, and its head  *)
(* alone may have been written.                                            *)
QueueOK(s, written, on, rq) ==
  /\ Distinct(s) /\ Elements(s) = on
  /\ written => s # <<>>
  /\ \A r \in on : rq[r].phase # "queued" <=> written /\ r = Head(s)

ChainOK ==
  \A c \in Reqs :
    /\ ~Wrapped(conn[c]) => chain[c] = <<>> /\ ~conn[c].inFlight
    /\ conn[c].alpn = "h1" => QueueOK(chain[c], conn[c].inFlight, OnConn(c), req)

(* The proofs of the semaphore, about the pool's holders and callers.      *)
Holders == {c \in Reqs :
              /\ conn[c].phase \in {"connecting", "hung", "ready", "stored",
                                    "up", "failing"}
              /\ ~conn[c].released}
Born == {c \in Reqs : conn[c].phase # "unborn"}
Sem == INSTANCE HostSlotsProofs WITH Attempts <- Reqs, holders <- Holders, used <- Born

(* The entry is as the semaphore keeps it, who it knows is queued for a    *)
(* slot, and what has been given back was made.                            *)
SlotsOK ==
  /\ Sem!IInv
  /\ \A c \in Sem!Callers(host) : conn[c].phase = "queued"
  /\ \A c \in Reqs : conn[c].released => Wrapped(conn[c])

IInv == TypeOK /\ LifeOK /\ DedupedHandshakes /\ MapOK /\ CountOK /\ ChainOK /\ SlotsOK

-----------------------------------------------------------------------------
(* Sequences.                                                              *)

(* What is left of a sequence without its first m elements.                *)
LEMMA RestProperties ==
  ASSUME NEW S, NEW s \in Seq(S), NEW m \in 0 .. Len(s)
  PROVE  LET c == SubSeq(s, m + 1, Len(s))
         IN c \in Seq(S) /\ Len(c) = Len(s) - m /\ \A i \in 1 .. Len(s) - m : c[i] = s[m + i]
<1> DEFINE c == SubSeq(s, m + 1, Len(s))
<1>1. Len(s) \in Nat /\ m \in Nat /\ m <= Len(s)
  BY LenProperties
<1>2. \A i \in (m + 1) .. Len(s) : s[i] \in S
  BY <1>1, ElementOfSeq
<1> HIDE DEF c
<1>3. /\ c \in Seq(S)
      /\ Len(c) = IF m + 1 <= Len(s) THEN Len(s) - (m + 1) + 1 ELSE 0
      /\ \A i \in 1 .. Len(s) - (m + 1) + 1 : c[i] = s[m + 1 + i - 1]
  BY <1>1, <1>2, SubSeqProperties DEF c
<1>4. c \in Seq(S) /\ Len(c) = Len(s) - m
  BY <1>1, <1>3
<1>5. ASSUME NEW i \in 1 .. Len(s) - m
      PROVE  c[i] = s[m + i]
  <2>1. i \in 1 .. Len(s) - (m + 1) + 1 /\ m + 1 + i - 1 = m + i
    BY <1>1
  <2> QED BY <1>3, <2>1
<1> QED BY <1>4, <1>5 DEF c

-----------------------------------------------------------------------------
(* What a step does.  Most steps are quiet: they close connections or set  *)
(* a timer, and take requests along.                                       *)

Quiet(S) ==
  /\ S \subseteq Reqs
  /\ conn' \in [Reqs -> Conn]
  /\ \A c \in Reqs :
       /\ conn'[c].phase = conn[c].phase /\ conn'[c].key = conn[c].key
       /\ conn'[c].fresh = conn[c].fresh /\ conn'[c].alpn = conn[c].alpn
       /\ conn'[c].inFlight = conn[c].inFlight /\ conn'[c].active = conn[c].active
       /\ conn'[c].released <=> conn[c].released \/ (c \in S /\ Wrapped(conn[c]))
       /\ conn[c].closed \/ c \in S => conn'[c].closed

(* How far a quiet step takes a request.                                   *)
Moves(r) ==
  \/ req'[r].phase = req[r].phase /\ req'[r].on = req[r].on
  \/ req[r].phase = "idle" /\ req'[r].phase = "calling"
  \/ req[r].phase = "calling" /\ req'[r].phase = "done"
  \/ /\ req[r].phase = "calling" /\ req'[r].phase = "handed"
     /\ req'[r].on \in Reqs /\ Wrapped(conn[req'[r].on])
  \/ /\ req[r].phase = "calling" /\ req'[r].phase = "acquiring"
     /\ req'[r].on \in Reqs /\ conn[req'[r].on].phase # "unborn"
  \/ /\ req[r].phase = "active" /\ req'[r].phase \in {"settling", "redirecting", "lost"}
     /\ req'[r].on = req[r].on

(* It closes the connections S, gives their slots back, and takes them out *)
(* of the map.                                                             *)
QuietStep(S) ==
  /\ Quiet(S)
  /\ host' = SlotsAfterClose(S) \/ (S = {} /\ host' = host)
  /\ connections' \in [Keys -> Reqs \cup {None}]
  /\ \A k \in Keys : \/ connections'[k] = connections[k]
                     \/ connections'[k] = None /\ connections[k] \in S \cup {None}
                     \/ connections'[k] = None /\ \E c \in Reqs : Goaway(c)
  /\ req' \in [Reqs -> Req] /\ \A r \in Reqs : Moves(r)
  /\ drain' \in BOOLEAN
  /\ UNCHANGED <<pending, chain>>

(* Closing the connections S changes nothing else about them.              *)
LEMMA CloseEffects ==
  ASSUME conn \in [Reqs -> Conn], NEW S, S \subseteq Reqs
  PROVE  /\ ConnsAfterClose(S) \in [Reqs -> Conn]
         /\ \A c \in Reqs :
              LET d == ConnsAfterClose(S)[c]
              IN /\ d.phase = conn[c].phase /\ d.key = conn[c].key
                 /\ d.fresh = conn[c].fresh /\ d.alpn = conn[c].alpn
                 /\ d.inFlight = conn[c].inFlight /\ d.active = conn[c].active
                 /\ d.idle = conn[c].idle
                 /\ d.closed <=> conn[c].closed \/ c \in S
                 /\ d.released <=> conn[c].released \/ (c \in S /\ Wrapped(conn[c]))
<1>1. ASSUME NEW cn \in Conn
      PROVE  LET d == ClosedConn(cn)
             IN /\ d \in Conn
                /\ d.phase = cn.phase /\ d.key = cn.key
                /\ d.fresh = cn.fresh /\ d.alpn = cn.alpn
                /\ d.inFlight = cn.inFlight /\ d.active = cn.active
                /\ d.idle = cn.idle
                /\ d.closed = TRUE
                /\ d.released <=> cn.released \/ Wrapped(cn)
  <2> DEFINE w == Wrapped(cn)
             x == IF ~cn.closed /\ cn.sock = "open" THEN "closing" ELSE cn.sock
             d == [cn EXCEPT !.closed = TRUE, !.released = cn.released \/ w, !.sock = x]
  <2>1. ClosedConn(cn) = d
    BY DEF ClosedConn
  <2>2. w \in BOOLEAN /\ x \in {"open", "closing", "gone"} /\ cn.released \in BOOLEAN
    BY DEF Conn, Wrapped
  <2>3. (cn.released \/ w) \in BOOLEAN
    BY <2>2
  <2> HIDE DEF w, x
  <2>4. /\ d \in Conn
        /\ d.phase = cn.phase /\ d.key = cn.key
        /\ d.fresh = cn.fresh /\ d.alpn = cn.alpn
        /\ d.inFlight = cn.inFlight /\ d.active = cn.active
        /\ d.idle = cn.idle
        /\ d.closed = TRUE
    BY <2>2, <2>3 DEF Conn
  <2>5. d.released = (cn.released \/ w)
    BY Zenon DEF Conn
  <2> HIDE DEF d
  <2> QED BY <2>1, <2>4, <2>5, Zenon DEF w
<1>2. ASSUME NEW c \in Reqs
      PROVE  /\ conn[c] \in Conn
             /\ ConnsAfterClose(S)[c] = IF c \in S THEN ClosedConn(conn[c]) ELSE conn[c]
  BY DEF ConnsAfterClose
<1>3. ASSUME NEW c \in Reqs
      PROVE  LET d == ConnsAfterClose(S)[c]
              IN /\ d \in Conn
                 /\ d.phase = conn[c].phase /\ d.key = conn[c].key
                 /\ d.fresh = conn[c].fresh /\ d.alpn = conn[c].alpn
                 /\ d.inFlight = conn[c].inFlight /\ d.active = conn[c].active
                 /\ d.idle = conn[c].idle
                 /\ d.closed <=> conn[c].closed \/ c \in S
                 /\ d.released <=> conn[c].released \/ (c \in S /\ Wrapped(conn[c]))
  <2>0. conn[c].closed \in BOOLEAN /\ conn[c].released \in BOOLEAN
    BY <1>2 DEF Conn
  <2>1. CASE c \in S
    <3>1. ConnsAfterClose(S)[c] = ClosedConn(conn[c])
      BY <1>2, <2>1
    <3>2. LET d == ConnsAfterClose(S)[c]
          IN /\ d \in Conn
             /\ d.phase = conn[c].phase /\ d.key = conn[c].key
             /\ d.fresh = conn[c].fresh /\ d.alpn = conn[c].alpn
             /\ d.inFlight = conn[c].inFlight /\ d.active = conn[c].active
             /\ d.idle = conn[c].idle
             /\ d.closed = TRUE
             /\ d.released <=> conn[c].released \/ Wrapped(conn[c])
      <4>1. conn[c] \in Conn /\ ConnsAfterClose(S)[c] = ClosedConn(conn[c])
        BY <1>2, <3>1
      <4> QED BY <1>1, <4>1, ZenonT(60)
    <3> QED BY <2>1, <3>2, Zenon
  <2>2. CASE c \notin S
    <3>1. ConnsAfterClose(S)[c] = conn[c]
      BY <1>2, <2>2
    <3> QED BY <1>2, <2>0, <2>2, <3>1, Zenon
  <2> QED BY <2>1, <2>2
<1>4. ConnsAfterClose(S) = [c \in Reqs |-> ConnsAfterClose(S)[c]]
  BY DEF ConnsAfterClose
<1>5. ConnsAfterClose(S) \in [Reqs -> Conn]
  BY <1>3, <1>4
<1> QED BY <1>3, <1>5, Zenon
(* Nor do the idle timer, the flag and the socket of one connection.       *)
Same(d, cn) ==
  /\ d.phase = cn.phase /\ d.key = cn.key /\ d.fresh = cn.fresh /\ d.alpn = cn.alpn
  /\ d.inFlight = cn.inFlight /\ d.active = cn.active /\ d.released = cn.released

LEMMA SetEffects ==
  ASSUME NEW g \in [Reqs -> Conn], NEW c \in Reqs, NEW h,
         \/ \E b \in BOOLEAN : h = [g EXCEPT ![c].idle = b]
         \/ \E at \in {"closing", "gone"} : h = [g EXCEPT ![c].sock = at]
         \/ h = [g EXCEPT ![c].closed = TRUE]
  PROVE  /\ h \in [Reqs -> Conn]
         /\ \A d \in Reqs : Same(h[d], g[d]) /\ (g[d].closed => h[d].closed)
<1>1. g[c] \in Conn /\ \A d \in Reqs : Same(g[d], g[d])
  BY DEF Same
<1>2. ASSUME NEW b \in BOOLEAN, h = [g EXCEPT ![c].idle = b]
      PROVE  /\ h \in [Reqs -> Conn]
             /\ \A d \in Reqs : Same(h[d], g[d]) /\ (g[d].closed => h[d].closed)
  <2>1. LET x == [g[c] EXCEPT !.idle = b] IN x \in Conn /\ Same(x, g[c]) /\ x.closed = g[c].closed
    BY <1>1 DEF Conn, Same
  <2> QED BY <1>1, <1>2, <2>1
<1>3. ASSUME NEW at \in {"closing", "gone"}, h = [g EXCEPT ![c].sock = at]
      PROVE  /\ h \in [Reqs -> Conn]
             /\ \A d \in Reqs : Same(h[d], g[d]) /\ (g[d].closed => h[d].closed)
  <2>1. LET x == [g[c] EXCEPT !.sock = at] IN x \in Conn /\ Same(x, g[c]) /\ x.closed = g[c].closed
    BY <1>1 DEF Conn, Same
  <2> QED BY <1>1, <1>3, <2>1
<1>4. CASE h = [g EXCEPT ![c].closed = TRUE]
  <2>1. LET x == [g[c] EXCEPT !.closed = TRUE] IN x \in Conn /\ Same(x, g[c]) /\ x.closed = TRUE
    BY <1>1 DEF Conn, Same
  <2> QED BY <1>1, <1>4, <2>1
<1> QED BY <1>2, <1>3, <1>4

LEMMA DoneProperties ==
  DoneReq \in Req /\ DoneReq.phase = "done" /\ DoneReq.on = None
<1>1. (CHOOSE k \in Keys : TRUE) \in Keys
  BY PoolAssumption
<1> QED BY <1>1 DEF DoneReq, IdleReq, Req, ReqPhases
LEMMA ClosingIsQuiet ==
  ASSUME conn \in [Reqs -> Conn], NEW S, S \subseteq Reqs,
         \/ conn' = ConnsAfterClose(S)
         \/ \E c \in Reqs : \/ conn' = [ConnsAfterClose(S) EXCEPT ![c].sock = "gone"]
                            \/ conn' = [ConnsAfterClose(S) EXCEPT ![c].idle = FALSE]
  PROVE  Quiet(S)
<1> DEFINE g == ConnsAfterClose(S)
<1>1. /\ g \in [Reqs -> Conn]
      /\ \A c \in Reqs :
           /\ g[c].phase = conn[c].phase /\ g[c].key = conn[c].key
           /\ g[c].fresh = conn[c].fresh /\ g[c].alpn = conn[c].alpn
           /\ g[c].inFlight = conn[c].inFlight /\ g[c].active = conn[c].active
           /\ g[c].closed <=> conn[c].closed \/ c \in S
           /\ g[c].released <=> conn[c].released \/ (c \in S /\ Wrapped(conn[c]))
  BY CloseEffects
<1> HIDE DEF g
<1>2. /\ conn' \in [Reqs -> Conn]
      /\ \A d \in Reqs : Same(conn'[d], g[d]) /\ (g[d].closed => conn'[d].closed)
  <2>1. CASE conn' = g
    BY <1>1, <2>1 DEF Same
  <2>2. ASSUME NEW c \in Reqs, \/ conn' = [g EXCEPT ![c].sock = "gone"]
                               \/ conn' = [g EXCEPT ![c].idle = FALSE]
        PROVE  <1>2!:
    <3>1. g \in [Reqs -> Conn]
      BY <1>1
    <3>2. \/ \E b \in BOOLEAN : conn' = [g EXCEPT ![c].idle = b]
          \/ conn' = [g EXCEPT ![c].sock = "gone"]
      BY <2>2
    <3>3. "gone" \in {"closing", "gone"}
      OBVIOUS
    <3> QED BY <3>1, <3>2, <3>3, SetEffects
  <2> QED BY <2>1, <2>2 DEF g
<1> QED BY <1>1, <1>2 DEF Quiet, Same

LEMMA KeepingIsQuiet ==
  ASSUME conn \in [Reqs -> Conn],
         \/ conn' = conn
         \/ \E c \in Reqs, b \in BOOLEAN : \/ conn' = [conn EXCEPT ![c].idle = b]
                                           \/ conn' = [conn EXCEPT ![c].closed = TRUE]
  PROVE  Quiet({})
<1>1. /\ conn' \in [Reqs -> Conn]
      /\ \A d \in Reqs : Same(conn'[d], conn[d]) /\ (conn[d].closed => conn'[d].closed)
  <2>1. CASE conn' = conn
    BY <2>1 DEF Same
  <2>2. ASSUME NEW c \in Reqs, NEW b \in BOOLEAN,
               \/ conn' = [conn EXCEPT ![c].idle = b]
               \/ conn' = [conn EXCEPT ![c].closed = TRUE]
        PROVE  <1>1!:
    BY <2>2, SetEffects
  <2> QED BY <2>1, <2>2
<1> QED BY <1>1 DEF Quiet, Same
LEMMA MovingIsQuiet ==
  ASSUME conn \in [Reqs -> Conn], NEW c \in Reqs,
         conn' = [conn EXCEPT ![c].idle = TRUE, ![c].sock = "closing"]
  PROVE  Quiet({})
<1> DEFINE g == [conn EXCEPT ![c].idle = TRUE]
<1>0. \E b \in BOOLEAN : g = [conn EXCEPT ![c].idle = b]
  OBVIOUS
<1>1. g \in [Reqs -> Conn] /\ \A d \in Reqs : Same(g[d], conn[d]) /\ (conn[d].closed => g[d].closed)
  <2> HIDE DEF g
  <2> QED BY <1>0, SetEffects
<1>2. conn' = [g EXCEPT ![c].sock = "closing"] /\ "closing" \in {"closing", "gone"}
  OBVIOUS
<1> HIDE DEF g
<1>3. conn' \in [Reqs -> Conn] /\ \A d \in Reqs : Same(conn'[d], g[d]) /\ (g[d].closed => conn'[d].closed)
  BY <1>1, <1>2, SetEffects
<1>4. \A d \in Reqs : Same(conn'[d], conn[d]) /\ (conn[d].closed => conn'[d].closed)
  BY <1>1, <1>3 DEF Same
<1> QED BY <1>3, <1>4 DEF Quiet, Same
(* The steps that close connections or take a request along.               *)
QuietAction ==
  \/ Program
  \/ \E r \in Reqs : AcquireRefused(r) \/ AcquirePooled(r) \/ AcquireJoins(r)
  \/ \E c \in Reqs : Goaway(c) \/ H2Fatal(c) \/ SocketClosed(c)
  \/ \E r \in Reqs : \/ \E keep \in BOOLEAN : ResponseEnds(r, keep) \/ LocationThrows(r, keep)
                     \/ StreamReset(r) \/ BadResponse(r)
  \/ Timer
  \/ UNCHANGED vars

LEMMA QuietProgram ==
  ASSUME TypeOK, Program
  PROVE  \E S \in SUBSET Reqs : QuietStep(S)
<1>0. /\ conn \in [Reqs -> Conn] /\ req \in [Reqs -> Req] /\ drain \in BOOLEAN
      /\ connections \in [Keys -> Reqs \cup {None}]
  BY DEF TypeOK
<1>1. ASSUME NEW r \in Reqs, NEW k \in Keys, NEW f \in FreshAllowed, Call(r, k, f)
      PROVE  QuietStep({})
  <2> DEFINE new == [req[r] EXCEPT !.phase = "calling", !.key = k, !.fresh = f]
  <2>1. req' = [req EXCEPT ![r] = new] /\ req[r].phase = "idle"
    BY <1>1 DEF Call
  <2>2. new \in Req /\ new.phase = "calling"
    <3>1. req[r] \in Req /\ f \in BOOLEAN
      BY <1>0, PoolAssumption
    <3> QED BY <3>1 DEF Req, ReqPhases
  <2> HIDE DEF new
  <2>3. req' \in [Reqs -> Req] /\ \A q \in Reqs : Moves(q)
    BY <1>0, <2>1, <2>2 DEF Moves
  <2>4. Quiet({})
    BY <1>0, <1>1, KeepingIsQuiet DEF Call
  <2> QED BY <1>0, <1>1, <2>3, <2>4 DEF Call, QuietStep
<1>2. ASSUME ClearPool, UNCHANGED <<pending, chain, req>>, drain' \in BOOLEAN
      PROVE  QuietStep(Mapped)
  <2>1. Mapped \subseteq Reqs
    BY <1>0 DEF Mapped
  <2>2. Quiet(Mapped)
    BY <1>0, <1>2, <2>1, ClosingIsQuiet DEF ClearPool
  <2>3. \A k \in Keys : connections[k] \in Mapped \cup {None}
    BY DEF Mapped
  <2>4. /\ connections' \in [Keys -> Reqs \cup {None}]
        /\ \A k \in Keys : connections'[k] = None
    BY <1>2 DEF ClearPool
  <2> QED BY <1>0, <1>2, <2>2, <2>3, <2>4 DEF ClearPool, QuietStep, Moves
<1>3. ASSUME UNCHANGED <<host, connections, conn, pending, chain, req>>, drain' \in BOOLEAN
      PROVE  QuietStep({})
  <2>1. Quiet({})
    BY <1>0, <1>3, KeepingIsQuiet
  <2> QED BY <1>0, <1>3, <2>1 DEF QuietStep, Moves
<1>4. CASE CloseAll
  <2>1. Mapped \subseteq Reqs
    BY <1>0 DEF Mapped
  <2> QED BY <1>0, <1>2, <1>4, <2>1 DEF CloseAll
<1>5. CASE Shutdown
  <2>1. Mapped \subseteq Reqs
    BY <1>0 DEF Mapped
  <2> QED BY <1>0, <1>2, <1>3, <1>5, <2>1 DEF Shutdown
<1> QED BY <1>1, <1>4, <1>5 DEF Program

LEMMA QuietAcquire ==
  ASSUME IInv, NEW r \in Reqs, AcquireRefused(r) \/ AcquirePooled(r) \/ AcquireJoins(r)
  PROVE  \E S \in SUBSET Reqs : QuietStep(S)
<1>0. /\ conn \in [Reqs -> Conn] /\ req \in [Reqs -> Req] /\ drain \in BOOLEAN
      /\ connections \in [Keys -> Reqs \cup {None}] /\ pending \in [Keys -> Reqs \cup {None}]
      /\ req[r] \in Req /\ req[r].key \in Keys
  BY DEF IInv, TypeOK, Req
<1>1. CASE AcquireRefused(r)
  <2>1. req' \in [Reqs -> Req] /\ \A q \in Reqs : Moves(q)
    BY <1>0, <1>1, DoneProperties DEF AcquireRefused, Moves
  <2>2. Quiet({})
    BY <1>0, <1>1, KeepingIsQuiet DEF AcquireRefused
  <2>3. QuietStep({})
    BY <1>0, <1>1, <2>1, <2>2 DEF AcquireRefused, QuietStep
  <2> QED BY <2>3
<1>2. CASE AcquirePooled(r)
  <2> DEFINE c == connections[req[r].key]
  <2>1. c \in Reqs /\ Wrapped(conn[c])
    BY <1>0, <1>2 DEF AcquirePooled, Reusable, IInv, MapOK
  <2> DEFINE new == [req[r] EXCEPT !.phase = "handed", !.on = c]
  <2>2. /\ req' = [req EXCEPT ![r] = new] /\ req[r].phase = "calling"
        /\ conn' = [conn EXCEPT ![c].idle = FALSE]
    BY <1>2 DEF AcquirePooled
  <2> HIDE DEF c
  <2>3. new \in Req /\ new.phase = "handed" /\ new.on = c
    BY <1>0, <2>1 DEF Req, ReqPhases
  <2> HIDE DEF new
  <2>4. req' \in [Reqs -> Req] /\ \A q \in Reqs : Moves(q)
    BY <1>0, <2>1, <2>2, <2>3 DEF Moves
  <2>5. Quiet({})
    BY <1>0, <2>1, <2>2, KeepingIsQuiet
  <2>6. QuietStep({})
    BY <1>0, <1>2, <2>4, <2>5 DEF AcquirePooled, QuietStep
  <2> QED BY <2>6
<1>3. CASE AcquireJoins(r)
  <2> DEFINE k == req[r].key
             c == pending[k]
  <2>1. c \in Reqs /\ conn[c].phase # "unborn"
    BY <1>0, <1>3 DEF AcquireJoins, IInv, DedupedHandshakes, Unsettled
  <2> DEFINE new == [req[r] EXCEPT !.phase = "acquiring", !.on = c]
  <2>2. /\ req' = [req EXCEPT ![r] = new] /\ req[r].phase = "calling"
        /\ conn' = ConnsAfterClose(Stale(r)) /\ host' = SlotsAfterClose(Stale(r))
        /\ connections' = [connections EXCEPT ![k] = None]
        /\ Stale(r) = {connections[k]} \ {None}
    BY <1>3 DEF AcquireJoins, Stale
  <2> HIDE DEF c
  <2>3. new \in Req /\ new.phase = "acquiring" /\ new.on = c
    BY <1>0, <2>1 DEF Req, ReqPhases
  <2> HIDE DEF new
  <2>4. req' \in [Reqs -> Req] /\ \A q \in Reqs : Moves(q)
    BY <1>0, <2>1, <2>2, <2>3 DEF Moves
  <2>5. Stale(r) \subseteq Reqs
    BY <1>0, <2>2
  <2>6. Quiet(Stale(r))
    BY <1>0, <2>2, <2>5, ClosingIsQuiet
  <2>7. QuietStep(Stale(r))
    BY <1>0, <1>3, <2>2, <2>4, <2>6 DEF AcquireJoins, QuietStep
  <2> QED BY <2>5, <2>7
<1> QED BY <1>1, <1>2, <1>3
LEMMA PhaseEffects ==
  ASSUME NEW q \in Req, NEW p \in ReqPhases
  PROVE  LET new == [q EXCEPT !.phase = p]
         IN new \in Req /\ new.phase = p /\ new.on = q.on
BY DEF Req

LEMMA SettlingMoves ==
  ASSUME req \in [Reqs -> Req],
         \/ \E r \in Reqs : req[r].phase = "active" /\ req' = [req EXCEPT ![r].phase = "settling"]
         \/ \A r \in Reqs : req'[r] = req[r] \/ (req[r].phase = "active"
                                             /\ req'[r] = [req[r] EXCEPT !.phase = "settling"]),
         req' = [r \in Reqs |-> req'[r]]
  PROVE  req' \in [Reqs -> Req] /\ \A r \in Reqs : Moves(r)
<1>1. \A r \in Reqs : \/ req'[r] = req[r]
                      \/ req[r].phase = "active" /\ req'[r] = [req[r] EXCEPT !.phase = "settling"]
  OBVIOUS
<1>2. \A r \in Reqs : LET new == [req[r] EXCEPT !.phase = "settling"]
                      IN new \in Req /\ new.phase = "settling" /\ new.on = req[r].on
  BY PhaseEffects DEF ReqPhases
<1>3. \A r \in Reqs : req'[r] \in Req /\ Moves(r)
  BY <1>1, <1>2 DEF Moves
<1> QED BY <1>3

LEMMA QuietConnection ==
  ASSUME TypeOK, NEW c \in Reqs, Goaway(c) \/ H2Fatal(c) \/ SocketClosed(c) \/ IdleFires(c)
  PROVE  \E S \in SUBSET Reqs : QuietStep(S)
<1>0. /\ conn \in [Reqs -> Conn] /\ req \in [Reqs -> Req] /\ drain \in BOOLEAN
      /\ connections \in [Keys -> Reqs \cup {None}] /\ conn[c].key \in Keys
  BY DEF TypeOK, Conn
<1>1. CASE Goaway(c)
  <2>1. Quiet({})
    BY <1>0, <1>1, KeepingIsQuiet DEF Goaway
  <2>2. QuietStep({})
    BY <1>0, <1>1, <2>1 DEF Goaway, QuietStep, Moves
  <2> QED BY <2>2
<1>2. CASE H2Fatal(c) \/ SocketClosed(c)
  <2>1. Quiet({c})
    BY <1>0, <1>2, ClosingIsQuiet DEF H2Fatal, SocketClosed
  <2>2. req' \in [Reqs -> Req] /\ \A r \in Reqs : Moves(r)
    <3>1. req' = [r \in Reqs |-> req'[r]]
      BY <1>2 DEF H2Fatal, SocketClosed
    <3>2. \A r \in Reqs : req'[r] = req[r] \/ (req[r].phase = "active"
                                             /\ req'[r] = [req[r] EXCEPT !.phase = "settling"])
      BY <1>2 DEF H2Fatal, SocketClosed
    <3> QED BY <1>0, <3>1, <3>2, SettlingMoves
  <2>3. QuietStep({c})
    BY <1>0, <1>2, <2>1, <2>2 DEF H2Fatal, SocketClosed, MapAfterEvict, QuietStep
  <2> QED BY <2>3
<1>3. CASE IdleFires(c)
  <2>1. Quiet({c})
    BY <1>0, <1>3, ClosingIsQuiet DEF IdleFires
  <2>2. QuietStep({c})
    BY <1>0, <1>3, <2>1 DEF IdleFires, MapAfterClose, QuietStep, Moves
  <2> QED BY <2>2
<1> QED BY <1>1, <1>2, <1>3

LEMMA QuietResponse ==
  ASSUME IInv, NEW r \in Reqs,
         \/ \E keep \in BOOLEAN : ResponseEnds(r, keep) \/ LocationThrows(r, keep)
         \/ StreamReset(r) \/ BadResponse(r) \/ ResponseTimesOut(r)
  PROVE  \E S \in SUBSET Reqs : QuietStep(S)
<1> DEFINE c == req[r].on
<1>0. /\ conn \in [Reqs -> Conn] /\ req \in [Reqs -> Req] /\ drain \in BOOLEAN
      /\ connections \in [Keys -> Reqs \cup {None}]
      /\ req[r] \in Req /\ req[r].key \in Keys /\ req[r].fresh \in BOOLEAN
  BY SMTT(40) DEF IInv, TypeOK, Req
<1>1. req[r].phase = "active" /\ c \in Reqs
  BY DEF ResponseEnds, LocationThrows, StreamReset, BadResponse, ResponseTimesOut, OnWire, IInv, LifeOK,
         GivenPhases, InUsePhases
<1>2. ASSUME req' = [req EXCEPT ![r].phase = "settling"]
      PROVE  req' \in [Reqs -> Req] /\ \A q \in Reqs : Moves(q)
  <2>1. req' = [q \in Reqs |-> req'[q]]
    BY <1>0, <1>2
  <2> QED BY <1>0, <1>1, <1>2, <2>1, SettlingMoves
<1>3. ASSUME NEW keep \in BOOLEAN, ResponseEnds(r, keep)
      PROVE  \E S \in SUBSET Reqs : QuietStep(S)
  <2>1. req' \in [Reqs -> Req] /\ \A q \in Reqs : Moves(q)
    <3>1. ASSUME NEW s \in Reqs, req[s].phase = "idle",
                 req' = [req EXCEPT ![r].phase = "redirecting", ![r].child = s,
                                    ![s].phase = "calling", ![s].key = req[r].key,
                                    ![s].fresh = req[r].fresh]
          PROVE  req' \in [Reqs -> Req] /\ \A q \in Reqs : Moves(q)
      <4> DEFINE parent == [req[r] EXCEPT !.phase = "redirecting", !.child = s]
                 child == [req[s] EXCEPT !.phase = "calling", !.key = req[r].key,
                                         !.fresh = req[r].fresh]
      <4>1. s # r /\ req[s] \in Req
        BY <1>0, <1>1, <3>1
      <4>2. req' = [req EXCEPT ![r] = parent, ![s] = child]
        BY <1>0, <3>1, <4>1
      <4>3. parent \in Req /\ parent.phase = "redirecting" /\ parent.on = req[r].on
        BY <1>0 DEF Req, ReqPhases
      <4>4. child \in Req /\ child.phase = "calling"
        BY <1>0, <4>1 DEF Req, ReqPhases
      <4>5. req[s].phase = "idle"
        BY <3>1
      <4> HIDE DEF parent, child
      <4>6. req' \in [Reqs -> Req] /\ req'[r] = parent /\ req'[s] = child
            /\ \A q \in Reqs \ {r, s} : req'[q] = req[q]
        BY <1>0, <4>1, <4>2, <4>3, <4>4
      <4> QED BY <1>1, <4>3, <4>4, <4>5, <4>6 DEF Moves
    <3> QED BY <1>2, <1>3, <3>1 DEF ResponseEnds
  <2>2. CASE keep
    <3>1. Quiet({})
      BY ZenonT(60), <1>0, <1>1, <1>3, <2>2, KeepingIsQuiet DEF ResponseEnds, KeepWarm
    <3>2. QuietStep({})
      BY <1>0, <1>3, <2>1, <2>2, <3>1 DEF ResponseEnds, QuietStep
    <3> QED BY SMTT(40), <3>2
  <2>3. CASE ~keep
    <3>1. /\ conn' = ConnsAfterClose({c}) /\ host' = SlotsAfterClose({c})
          /\ connections' = MapAfterClose({c}) /\ UNCHANGED <<pending, chain, drain>>
      BY <1>3, <2>3 DEF ResponseEnds
    <3>2. Quiet({c})
      BY <1>0, <1>1, <3>1, ClosingIsQuiet
    <3>3. QuietStep({c})
      BY <1>0, <2>1, <3>1, <3>2 DEF QuietStep, MapAfterClose
    <3> QED BY SMTT(40), <1>1, <3>3
  <2> QED BY <2>2, <2>3
<1>4. CASE StreamReset(r)
  <2>1. Quiet({})
    BY <1>0, <1>4, KeepingIsQuiet DEF StreamReset
  <2>2. QuietStep({})
    BY <1>0, <1>2, <1>4, <2>1 DEF StreamReset, QuietStep
  <2> QED BY <2>2
<1>5. CASE BadResponse(r) \/ ResponseTimesOut(r)
  <2>1. PICK S \in {{}, {c}} : /\ conn' = ConnsAfterClose(S) /\ host' = SlotsAfterClose(S)
                               /\ req' = [req EXCEPT ![r].phase = "settling"]
                               /\ UNCHANGED <<connections, pending, chain, drain>>
    BY <1>5 DEF BadResponse, ResponseTimesOut
  <2>2. S \subseteq Reqs
    BY <1>1, <2>1
  <2>3. Quiet(S)
    BY <1>0, <2>1, <2>2, ClosingIsQuiet
  <2>4. QuietStep(S)
    BY <1>0, <1>2, <2>1, <2>3 DEF QuietStep
  <2> QED BY <2>2, <2>4
<1>6. ASSUME NEW keep \in BOOLEAN, LocationThrows(r, keep)
      PROVE  \E S \in SUBSET Reqs : QuietStep(S)
  <2>1. req' \in [Reqs -> Req] /\ \A q \in Reqs : Moves(q)
    <3>1. \A q \in Reqs : LET to(p) == [req[q] EXCEPT !.phase = p]
                         IN /\ to("lost") \in Req /\ to("lost").phase = "lost"
                            /\ to("lost").on = req[q].on
                            /\ to("settling") \in Req /\ to("settling").phase = "settling"
                            /\ to("settling").on = req[q].on
      BY <1>0, PhaseEffects DEF ReqPhases
    <3>2. /\ req' = [q \in Reqs |-> req'[q]]
          /\ req'[r] = [req[r] EXCEPT !.phase = "lost"]
          /\ \A q \in Reqs \ {r} :
               req'[q] = req[q] \/ (req[q].phase = "active"
                                     /\ req'[q] = [req[q] EXCEPT !.phase = "settling"])
      BY <1>6 DEF LocationThrows
    <3>3. req'[r] \in Req /\ Moves(r)
      <4>1. req'[r] \in Req /\ req'[r].phase = "lost" /\ req'[r].on = req[r].on
        BY <3>1, <3>2, Zenon
      <4> QED BY <1>1, <4>1 DEF Moves
    <3>4. ASSUME NEW q \in Reqs, q # r
          PROVE  req'[q] \in Req /\ Moves(q)
      <4>1. req[q] \in Req
        BY <1>0
      <4>2. CASE req'[q] = req[q]
        BY <4>1, <4>2, Zenon DEF Moves
      <4>3. CASE req[q].phase = "active" /\ req'[q] = [req[q] EXCEPT !.phase = "settling"]
        <5>1. req'[q] \in Req /\ req'[q].phase = "settling" /\ req'[q].on = req[q].on
          BY <3>1, <4>3, Zenon
        <5> QED BY <4>3, <5>1 DEF Moves
      <4> QED BY <3>2, <3>4, <4>2, <4>3, Zenon
    <3> QED BY <3>2, <3>3, <3>4
  <2>2. CASE keep
    <3>1. Quiet({})
      BY <1>0, <1>1, <1>6, <2>2, MovingIsQuiet DEF LocationThrows, KeepWarm
    <3>2. QuietStep({})
      BY <1>0, <1>6, <2>1, <2>2, <3>1 DEF LocationThrows, QuietStep
    <3> QED BY <3>2
  <2>3. CASE ~keep
    <3>1. /\ \/ conn' = ConnsAfterClose({c})
             \/ conn' = [ConnsAfterClose({c}) EXCEPT ![c].sock = "gone"]
          /\ host' = SlotsAfterClose({c})
          /\ connections' = connections \/ connections' = MapAfterEvict(c)
          /\ UNCHANGED <<pending, chain, drain>>
      BY <1>6, <2>3 DEF LocationThrows
    <3>2. Quiet({c})
      BY <1>0, <1>1, <3>1, ClosingIsQuiet
    <3>3. QuietStep({c})
      BY <1>0, <2>1, <3>1, <3>2 DEF QuietStep, MapAfterEvict
    <3> QED BY <1>1, <3>3
  <2> QED BY <2>2, <2>3
<1> QED BY <1>3, <1>4, <1>5, <1>6

LEMMA QuietSteps ==
  ASSUME IInv, QuietAction
  PROVE  \E S \in SUBSET Reqs : QuietStep(S)
<1>0. TypeOK /\ conn \in [Reqs -> Conn] /\ req \in [Reqs -> Req] /\ drain \in BOOLEAN
      /\ connections \in [Keys -> Reqs \cup {None}]
  BY DEF IInv, TypeOK
<1>1. ASSUME NEW deadline \in BOOLEAN, DrainPoll(deadline)
      PROVE  QuietStep(Mapped)
  <2>1. Mapped \subseteq Reqs /\ \A k \in Keys : connections[k] \in Mapped \cup {None}
    BY <1>0 DEF Mapped
  <2>2. Quiet(Mapped)
    BY <1>0, <1>1, <2>1, ClosingIsQuiet DEF DrainPoll, ClearPool
  <2> QED BY <1>0, <1>1, <2>1, <2>2 DEF DrainPoll, ClearPool, QuietStep, Moves
<1>2. Mapped \subseteq Reqs
  BY <1>0 DEF Mapped
<1>3. ASSUME UNCHANGED vars
      PROVE  QuietStep({})
  <2>1. Quiet({})
    BY <1>0, <1>3, KeepingIsQuiet DEF vars
  <2> QED BY <1>0, <1>3, <2>1 DEF vars, QuietStep, Moves
<1> QED BY <1>0, <1>1, <1>2, <1>3, QuietProgram, QuietAcquire, QuietConnection, QuietResponse
        DEF QuietAction, Timer
-----------------------------------------------------------------------------
(* The pool's use of the semaphore.                                        *)

LEMMA SemaphoreAssumption == Sem!MaxPerHostAssumption
BY PoolAssumption DEF Sem!MaxPerHostAssumption

LEMMA SameOperators ==
  ASSUME NEW h, NEW n, NEW c
  PROVE  /\ Slots!GiveBack(h, n) = Sem!GiveBack(h, n)
         /\ Slots!TakeSlot(h, c) = Sem!TakeSlot(h, c)
         /\ Slots!HasRoom(h) <=> Sem!HasRoom(h)
         /\ Slots!Resumed(h, c) = Sem!Resumed(h, c)
         /\ Slots!NoHost = Sem!NoHost /\ Slots!Host = Sem!Host
<1>1. Slots!GiveBack(h, n) = Sem!GiveBack(h, n)
  BY DEF Slots!GiveBack, Sem!GiveBack, Slots!Deleted, Sem!Deleted, Slots!Remaining,
         Sem!Remaining, Slots!Served, Sem!Served, Slots!Unserved, Sem!Unserved, Slots!NoHost,
         Sem!NoHost
<1>2. Slots!TakeSlot(h, c) = Sem!TakeSlot(h, c) /\ (Slots!HasRoom(h) <=> Sem!HasRoom(h))
  BY DEF Slots!TakeSlot, Sem!TakeSlot, Slots!HasRoom, Sem!HasRoom
<1>3. /\ Slots!Resumed(h, c) = Sem!Resumed(h, c)
      /\ Slots!NoHost = Sem!NoHost /\ Slots!Host = Sem!Host
  BY DEF Slots!Resumed, Sem!Resumed, Slots!NoHost, Sem!NoHost, Slots!Host, Sem!Host
<1> QED BY <1>1, <1>2, <1>3

LEMMA SameCardinality ==
  ASSUME NEW S
  PROVE  Slots!Cardinality(S) = Cardinality(S) /\ Sem!Cardinality(S) = Cardinality(S)
BY DEF Slots!Cardinality, Sem!Cardinality, Cardinality

LEMMA SameNext == [Slots!Next]_Slots!slotVars => [Sem!Next]_Sem!slotVars
<1>1. ASSUME NEW S, NEW c, Slots!Acquire(S, c)
      PROVE  Sem!Acquire(S, c)
  BY <1>1, SameOperators, SameCardinality DEF Slots!Acquire, Sem!Acquire, Holders, Born
<1>2. ASSUME NEW S, Slots!Release(S)
      PROVE  Sem!Release(S)
  BY <1>2, SameOperators, SameCardinality DEF Slots!Release, Sem!Release, Holders, Born
<1>3. ASSUME NEW c, Slots!Resume(c)
      PROVE  Sem!Resume(c)
  BY <1>3, SameOperators DEF Slots!Resume, Sem!Resume, Holders, Born
<1>4. Slots!Next => Sem!Next
  BY <1>1, <1>2, <1>3 DEF Slots!Next, Sem!Next, Holders
<1> QED BY <1>4 DEF Slots!slotVars, Sem!slotVars, Holders, Born

(* A step that uses the semaphore as it must keeps the entry in order.     *)
LEMMA SemaphoreKept ==
  Sem!IInv /\ [Slots!Next]_Slots!slotVars => Sem!IInv'
BY SameNext, Sem!IInvStep, SemaphoreAssumption

LEMMA HostTyped == Sem!IInv => host \in Slots!Host
BY SameOperators DEF Sem!IInv, Sem!HostOK

(* Giving back no slot changes nothing, and giving back slots that are     *)
(* held loses no caller.                                                   *)
LEMMA GiveBackNothing ==
  ASSUME Sem!IInv
  PROVE  Slots!GiveBack(host, 0) = host
<1>1. host \in Slots!Host
  BY HostTyped
<1>2. /\ host.count \in Nat /\ host.waiters \in Seq(Reqs) /\ Len(host.waiters) \in Nat
      /\ DOMAIN host.waiters = 1 .. Len(host.waiters)
  BY <1>1, LenProperties DEF Slots!Host
<1>3. Slots!Remaining(host, 0) = host.count
  BY <1>2 DEF Slots!Remaining
<1>4. Slots!Served(host, 0) = {}
  BY <1>2 DEF Slots!Served
<1>5. Slots!Unserved(host, 0) = host.waiters
  BY <1>2 DEF Slots!Unserved
<1>6. ~Slots!Deleted(host, 0)
  BY <1>2 DEF Slots!Deleted
<1>7. host = [host EXCEPT !.count = host.count, !.waiters = host.waiters,
                          !.woken = host.woken \cup {}]
  BY <1>1 DEF Slots!Host
<1> QED BY <1>3, <1>4, <1>5, <1>6, <1>7 DEF Slots!GiveBack

LEMMA GiveBackHeld ==
  ASSUME Sem!IInv, NEW S, S \subseteq Holders
  PROVE  LET h == Slots!GiveBack(host, Cardinality(S))
         IN Sem!HostOK(h) /\ Sem!Callers(h) = Sem!Callers(host)
<1>1. Sem!HostOK(host) /\ IsFiniteSet(Holders)
  BY DEF Sem!IInv, Sem!IsFiniteSet, IsFiniteSet
<1>2. Cardinality(S) \in Nat
  BY <1>1, FS_Subset, FS_CardinalityType
<1>3. Slots!GiveBack(host, Cardinality(S)) = Sem!GiveBack(host, Cardinality(S))
  BY SameOperators
<1> QED BY <1>1, <1>2, <1>3, Sem!GiveBackKeeps, SemaphoreAssumption
LEMMA ReleaseStep ==
  ASSUME NEW R \in SUBSET Holders, R # {}, host' = Slots!GiveBack(host, Cardinality(R)),
         Holders' = Holders \ R, Born' = Born
  PROVE  Slots!Next
<1>1. Slots!Release(R)
  BY SameCardinality DEF Slots!Release, Holders, Born
<1> QED BY <1>1 DEF Slots!Next, Holders

LEMMA AcquireStep ==
  ASSUME NEW R \in SUBSET Holders, NEW c \in Reqs \ Born, NEW h,
         h = Slots!GiveBack(host, Cardinality(R)), host' = Slots!TakeSlot(h, c),
         Holders' = (Holders \ R) \cup (IF Slots!HasRoom(h) THEN {c} ELSE {}),
         Born' = Born \cup {c}
  PROVE  Slots!Next
<1>1. Slots!Acquire(R, c)
  BY SameCardinality DEF Slots!Acquire, Holders, Born
<1> QED BY <1>1 DEF Slots!Next, Holders

LEMMA ResumeStep ==
  ASSUME NEW c \in Reqs, c \in host.woken \cup host.orphans, host' = Slots!Resumed(host, c),
         Holders' = Holders \cup {c}, Born' = Born
  PROVE  Slots!Next
<1>1. Slots!Resume(c)
  BY DEF Slots!Resume, Holders, Born
<1> QED BY <1>1 DEF Slots!Next

-----------------------------------------------------------------------------
(* Every step keeps the invariant and uses the semaphore as it must.       *)

LEMMA QuietIInv ==
  ASSUME IInv, NEW S, QuietStep(S)
  PROVE  IInv' /\ [Slots!Next]_Slots!slotVars
<1>0. /\ TypeOK /\ LifeOK /\ DedupedHandshakes /\ MapOK /\ CountOK /\ ChainOK /\ SlotsOK
      /\ Quiet(S) /\ S \subseteq Reqs
  BY DEF IInv, QuietStep, Quiet
<1>1. \A c \in Reqs :
        /\ conn'[c].phase = conn[c].phase /\ conn'[c].key = conn[c].key
        /\ conn'[c].fresh = conn[c].fresh /\ conn'[c].alpn = conn[c].alpn
        /\ conn'[c].inFlight = conn[c].inFlight /\ conn'[c].active = conn[c].active
        /\ conn'[c].released <=> conn[c].released \/ (c \in S /\ Wrapped(conn[c]))
  BY <1>0 DEF Quiet
<1>2. \A c \in Reqs : Wrapped(conn'[c]) <=> Wrapped(conn[c])
  BY <1>1 DEF Wrapped
<1>3. /\ pending' = pending /\ chain' = chain
      /\ \A r \in Reqs : Moves(r)
      /\ \A k \in Keys : connections'[k] \in {None, connections[k]}
  BY DEF QuietStep
<1>4. \A c \in Reqs : OnConn(c)' = OnConn(c)
  <2> SUFFICES ASSUME NEW c \in Reqs, NEW r \in Reqs
               PROVE  (r \in OnConn(c))' <=> r \in OnConn(c)
    BY DEF OnConn
  <2> QED BY <1>3 DEF Moves, OnConn
<1>5. \A c \in Reqs : \A r \in OnConn(c) : req'[r].phase = "queued" <=> req[r].phase = "queued"
  BY <1>3 DEF Moves, OnConn
<1>6. LifeOK'
  <2> SUFFICES ASSUME NEW r \in Reqs
               PROVE  /\ req'[r].phase \in {"idle", "calling"} => conn'[r].phase = "unborn"
                      /\ req'[r].phase \in {"acquiring"} \cup GivenPhases =>
                           req'[r].on \in Reqs /\ conn'[req'[r].on].phase # "unborn"
                      /\ req'[r].phase \in GivenPhases => Wrapped(conn'[req'[r].on])
                      /\ req'[r].phase = "queued" => conn'[req'[r].on].alpn = "h1"
    BY DEF LifeOK
  <2>1. /\ req[r].phase \in {"idle", "calling"} => conn[r].phase = "unborn"
        /\ req[r].phase \in {"acquiring"} \cup GivenPhases =>
             req[r].on \in Reqs /\ conn[req[r].on].phase # "unborn"
        /\ req[r].phase \in GivenPhases => Wrapped(conn[req[r].on])
        /\ req[r].phase = "queued" => conn[req[r].on].alpn = "h1"
    BY <1>0 DEF LifeOK
  <2>2. \A c \in Reqs : Wrapped(conn[c]) => conn[c].phase # "unborn"
    BY DEF Wrapped
  <2> QED BY <1>1, <1>2, <1>3, <2>1, <2>2 DEF Moves, GivenPhases, InUsePhases
<1>7. DedupedHandshakes'
  <2>1. \A c \in Reqs : (Unsettled(c))' <=> Unsettled(c)
    BY <1>1 DEF Unsettled
  <2>2. \A k \in Keys : pending[k] \in Reqs \cup {None}
    BY <1>0 DEF TypeOK
  <2> QED BY <1>0, <1>1, <1>3, <2>1, <2>2 DEF DedupedHandshakes
<1>8. MapOK'
  BY <1>0, <1>2, <1>3 DEF MapOK, TypeOK
<1>9. CountOK'
  BY <1>0, <1>1, <1>4 DEF CountOK
<1>10. ChainOK'
  BY <1>0, <1>1, <1>2, <1>3, <1>4, <1>5 DEF ChainOK, QueueOK
<1> DEFINE R == Releasing(S)
<1>11. /\ R \subseteq Holders /\ Holders' = Holders \ R
       /\ Born' = Born
  BY <1>0, <1>1 DEF Releasing, Holders, Born, Wrapped
<1>12. host' = Slots!GiveBack(host, Cardinality(R))
  <2>1. CASE host' = SlotsAfterClose(S)
    BY <2>1 DEF SlotsAfterClose
  <2>2. CASE S = {} /\ host' = host
    <3>1. R = {} /\ Cardinality({}) = 0
      BY <2>2, FS_EmptySet DEF Releasing
    <3> QED BY <1>0, <2>2, <3>1, GiveBackNothing DEF SlotsOK
  <2> QED BY <2>1, <2>2 DEF QuietStep
<1> HIDE DEF R
<1>13. [Slots!Next]_Slots!slotVars
  <2>1. CASE R = {}
    <3>1. host' = host /\ Holders' = Holders
      BY <1>0, <1>11, <1>12, <2>1, FS_EmptySet, GiveBackNothing DEF SlotsOK
    <3>2. UNCHANGED Slots!slotVars
      BY <1>11, <3>1 DEF Slots!slotVars, Holders, Born
    <3> QED BY <3>2
  <2>2. CASE R # {}
    <3> QED BY <1>11, <1>12, <2>2, ReleaseStep
  <2> QED BY <2>1, <2>2
<1>14. Sem!IInv'
  BY <1>0, <1>13, SemaphoreKept DEF SlotsOK
<1>15. SlotsOK'
  <2>1. Sem!Callers(host') = Sem!Callers(host)
    BY <1>0, <1>11, <1>12, GiveBackHeld DEF SlotsOK
  <2>2. \A c \in Sem!Callers(host)' : conn'[c].phase = "queued"
    <3>1. Sem!Callers(host) \subseteq Reqs
      BY <1>0 DEF SlotsOK, Sem!IInv, Born
    <3> QED BY <1>0, <1>1, <2>1, <3>1 DEF SlotsOK
  <2>3. \A c \in Reqs : conn'[c].released => Wrapped(conn'[c])
    BY <1>0, <1>1, <1>2 DEF SlotsOK
  <2> QED BY <1>14, <2>2, <2>3 DEF SlotsOK
<1>16. TypeOK'
  <2>1. (host \in Slots!Host)'
    BY <1>14, HostTyped, PTL
  <2> QED BY <1>0, <1>3, <2>1 DEF TypeOK, QuietStep, Quiet
<1> QED BY <1>6, <1>7, <1>8, <1>9, <1>10, <1>13, <1>15, <1>16 DEF IInv
(* The steps that take one connection to its next phase.                   *)
Turn(c) ==
  /\ conn' \in [Reqs -> Conn]
  /\ \A d \in Reqs \ {c} : conn'[d] = conn[d]
  /\ conn'[c].key = conn[c].key /\ conn'[c].fresh = conn[c].fresh
  /\ conn'[c].inFlight = conn[c].inFlight /\ conn'[c].active = conn[c].active
  /\ conn'[c].released = conn[c].released
  /\ conn[c].phase # "unborn" /\ conn'[c].phase # "unborn"
  /\ Wrapped(conn[c]) => Wrapped(conn'[c])
  /\ Wrapped(conn[c]) => conn'[c].alpn = conn[c].alpn
  /\ req' \in [Reqs -> Req]
  /\ \A r \in Reqs :
       \/ req'[r] = req[r]
       \/ /\ req[r].phase = "acquiring"
          /\ \/ req'[r].phase = "handed" /\ req'[r].on = c /\ Wrapped(conn'[c])
             \/ req'[r].phase = "done"
  /\ connections' \in [Keys -> Reqs \cup {None}] /\ pending' \in [Keys -> Reqs \cup {None}]
  /\ UNCHANGED <<chain, drain>>

LEMMA TurnKeeps ==
  ASSUME IInv, NEW c \in Reqs, Turn(c)
  PROVE  /\ LifeOK' /\ CountOK' /\ ChainOK' /\ Born' = Born
         /\ \A d \in Reqs : conn'[d].released => Wrapped(conn'[d])
         /\ connections' = connections /\ (\A k \in Keys : pending'[k] \in {None, pending[k]}) => MapOK'
<1>0. /\ TypeOK /\ LifeOK /\ MapOK /\ CountOK /\ ChainOK /\ SlotsOK
  BY DEF IInv
<1>1. /\ \A d \in Reqs : Wrapped(conn[d]) => Wrapped(conn'[d]) /\ conn'[d].alpn = conn[d].alpn
      /\ \A d \in Reqs : /\ conn'[d].inFlight = conn[d].inFlight /\ conn'[d].active = conn[d].active
                         /\ conn'[d].released = conn[d].released
                         /\ conn'[d].phase = "unborn" <=> conn[d].phase = "unborn"
  BY DEF Turn
<1>2. \A d \in Reqs : OnConn(d)' = OnConn(d)
  <2> SUFFICES ASSUME NEW d \in Reqs, NEW r \in Reqs
               PROVE  (r \in OnConn(d))' <=> r \in OnConn(d)
    BY DEF OnConn
  <2> QED BY DEF Turn, OnConn
<1>3. \A d \in Reqs : \A r \in OnConn(d) : req'[r] = req[r]
  BY DEF Turn, OnConn
<1>4. LifeOK'
  <2> SUFFICES ASSUME NEW r \in Reqs
               PROVE  /\ req'[r].phase \in {"idle", "calling"} => conn'[r].phase = "unborn"
                      /\ req'[r].phase \in {"acquiring"} \cup GivenPhases =>
                           req'[r].on \in Reqs /\ conn'[req'[r].on].phase # "unborn"
                      /\ req'[r].phase \in GivenPhases => Wrapped(conn'[req'[r].on])
                      /\ req'[r].phase = "queued" => conn'[req'[r].on].alpn = "h1"
    BY DEF LifeOK
  <2>1. /\ req[r].phase \in {"idle", "calling"} => conn[r].phase = "unborn"
        /\ req[r].phase \in {"acquiring"} \cup GivenPhases =>
             req[r].on \in Reqs /\ conn[req[r].on].phase # "unborn"
        /\ req[r].phase \in GivenPhases => Wrapped(conn[req[r].on])
        /\ req[r].phase = "queued" => conn[req[r].on].alpn = "h1"
    BY <1>0 DEF LifeOK
  <2>2. CASE req'[r] = req[r]
    BY <1>1, <2>1, <2>2 DEF GivenPhases, InUsePhases
  <2>3. CASE /\ req[r].phase = "acquiring"
             /\ \/ req'[r].phase = "handed" /\ req'[r].on = c /\ Wrapped(conn'[c])
                \/ req'[r].phase = "done"
    <3>1. conn'[c].phase # "unborn"
      BY DEF Turn
    <3> QED BY <2>3, <3>1 DEF GivenPhases, InUsePhases
  <2> QED BY <2>2, <2>3 DEF Turn
<1>5. CountOK'
  BY <1>0, <1>1, <1>2 DEF CountOK
<1>6. ChainOK'
  <2> SUFFICES ASSUME NEW d \in Reqs
               PROVE  /\ ~Wrapped(conn'[d]) => chain[d] = <<>> /\ ~conn'[d].inFlight
                      /\ conn'[d].alpn = "h1" =>
                           /\ Distinct(chain[d]) /\ Elements(chain[d]) = OnConn(d)
                           /\ conn[d].inFlight => chain[d] # <<>>
                           /\ \A r \in OnConn(d) :
                                req[r].phase # "queued" <=> conn[d].inFlight /\ r = Head(chain[d])
    BY <1>1, <1>2, <1>3 DEF ChainOK, QueueOK, Turn
  <2>1. CASE Wrapped(conn[d])
    BY <1>0, <1>1, <2>1 DEF ChainOK, QueueOK
  <2>2. CASE ~Wrapped(conn[d])
    <3>1. chain[d] = <<>> /\ ~conn[d].inFlight
      BY <1>0, <2>2 DEF ChainOK, QueueOK
    <3>2. OnConn(d) = {}
      BY <1>0, <2>2 DEF LifeOK, OnConn, GivenPhases, InUsePhases
    <3> QED BY <1>1, <3>1, <3>2 DEF Distinct, Elements
  <2> QED BY <2>1, <2>2
<1>7. Born' = Born
  BY <1>1 DEF Born
<1>8. \A d \in Reqs : conn'[d].released => Wrapped(conn'[d])
  BY <1>0, <1>1 DEF SlotsOK
<1>9. connections' = connections /\ (\A k \in Keys : pending'[k] \in {None, pending[k]}) => MapOK'
  <2>1. \A k \in Keys : connections[k] # None => connections[k] \in Reqs
    BY <1>0 DEF TypeOK
  <2> QED BY <1>0, <1>1, <2>1 DEF MapOK
<1> QED BY <1>4, <1>5, <1>6, <1>7, <1>8, <1>9
(* A handshake goes from one phase to another.                             *)
LEMMA HandshakeTurns ==
  ASSUME IInv, NEW c \in Reqs, NEW p \in ConnPhases \ {"unborn", "up", "dead"},
         conn[c].phase \in {"queued", "connecting", "hung", "ready", "failing"},
         \/ conn' = [conn EXCEPT ![c].phase = p]
         \/ \E a \in Alpns : conn' = [conn EXCEPT ![c].phase = p, ![c].alpn = a]
         \/ conn' = [conn EXCEPT ![c].phase = p, ![c].sock = "gone"],
         UNCHANGED <<pending, chain, req, drain>>,
         connections' \in [Keys -> Reqs \cup {None}]
  PROVE  Turn(c) /\ conn'[c].phase = p /\ DedupedHandshakes'
<1>0. /\ conn \in [Reqs -> Conn] /\ req \in [Reqs -> Req] /\ conn[c] \in Conn
      /\ pending \in [Keys -> Reqs \cup {None}] /\ DedupedHandshakes
  BY DEF IInv, TypeOK
<1>1. PICK new \in Conn :
        /\ conn' = [conn EXCEPT ![c] = new]
        /\ new.phase = p /\ new.key = conn[c].key /\ new.fresh = conn[c].fresh
        /\ new.inFlight = conn[c].inFlight /\ new.active = conn[c].active
        /\ new.released = conn[c].released
  <2>1. CASE conn' = [conn EXCEPT ![c].phase = p]
    <3> DEFINE new == [conn[c] EXCEPT !.phase = p]
    <3>1. /\ new \in Conn
          /\ new.phase = p /\ new.key = conn[c].key /\ new.fresh = conn[c].fresh
          /\ new.inFlight = conn[c].inFlight /\ new.active = conn[c].active
          /\ new.released = conn[c].released
      BY <1>0 DEF Conn
    <3> QED BY <2>1, <3>1
  <2>2. CASE \E a \in Alpns : conn' = [conn EXCEPT ![c].phase = p, ![c].alpn = a]
    <3>0. PICK a \in Alpns : conn' = [conn EXCEPT ![c].phase = p, ![c].alpn = a]
      BY <2>2
    <3> DEFINE new == [conn[c] EXCEPT !.phase = p, !.alpn = a]
    <3>1. a \in {"h1", "h2"}
      BY PoolAssumption
    <3>2. /\ new \in Conn
          /\ new.phase = p /\ new.key = conn[c].key /\ new.fresh = conn[c].fresh
          /\ new.inFlight = conn[c].inFlight /\ new.active = conn[c].active
          /\ new.released = conn[c].released
      BY <1>0, <3>1 DEF Conn
    <3>3. conn' = [conn EXCEPT ![c] = new]
      BY <1>0, <3>0
    <3> HIDE DEF new
    <3> QED BY <3>2, <3>3
  <2>3. CASE conn' = [conn EXCEPT ![c].phase = p, ![c].sock = "gone"]
    <3> DEFINE new == [conn[c] EXCEPT !.phase = p, !.sock = "gone"]
    <3>1. /\ new \in Conn
          /\ new.phase = p /\ new.key = conn[c].key /\ new.fresh = conn[c].fresh
          /\ new.inFlight = conn[c].inFlight /\ new.active = conn[c].active
          /\ new.released = conn[c].released
      BY <1>0 DEF Conn
    <3>2. conn' = [conn EXCEPT ![c] = new]
      BY <1>0, <2>3
    <3> HIDE DEF new
    <3> QED BY <3>1, <3>2
  <2> QED BY <2>1, <2>2, <2>3
<1>2. /\ conn' \in [Reqs -> Conn] /\ conn'[c] = new
      /\ \A d \in Reqs \ {c} : conn'[d] = conn[d]
  BY <1>0, <1>1
<1>3. ~Wrapped(conn[c])
  BY DEF Wrapped
<1>4. Turn(c)
  BY <1>0, <1>1, <1>2, <1>3 DEF Turn
<1>5. \A d \in Reqs : (Unsettled(d))' <=> Unsettled(d)
  BY <1>1, <1>2 DEF Unsettled, ConnPhases
<1>6. \A d \in Reqs : conn'[d].fresh = conn[d].fresh /\ conn'[d].key = conn[d].key
  BY <1>1, <1>2
<1>7. DedupedHandshakes'
  BY <1>0, <1>5, <1>6 DEF DedupedHandshakes
<1> QED BY <1>1, <1>2, <1>4, <1>7

(* What is left to show of such a step.                                    *)
LEMMA TurnIInv ==
  ASSUME IInv, NEW c \in Reqs, Turn(c), DedupedHandshakes', MapOK',
         [Slots!Next]_Slots!slotVars, \A d \in Sem!Callers(host') : conn'[d].phase = "queued"
  PROVE  IInv'
<1>1. Sem!IInv /\ chain \in [Reqs -> Seq(Reqs)] /\ drain \in BOOLEAN
  BY DEF IInv, SlotsOK, TypeOK
<1>2. Sem!IInv'
  BY <1>1, SemaphoreKept
<1>3. (host \in Slots!Host)'
  BY <1>2, HostTyped, PTL
<1>4. TypeOK'
  BY <1>1, <1>3 DEF TypeOK, Turn
<1>5. SlotsOK'
  BY <1>2, TurnKeeps DEF SlotsOK
<1> QED BY <1>4, <1>5, TurnKeeps DEF IInv

(* Holders change with their phase only.                                   *)
LEMMA TurnHolders ==
  ASSUME IInv, NEW c \in Reqs, Turn(c)
  PROVE  /\ Born' = Born
         /\ Holders' = (Holders \ {c}) \cup
              (IF /\ conn'[c].phase \in {"connecting", "hung", "ready", "stored", "up", "failing"}
                  /\ ~conn[c].released
               THEN {c} ELSE {})
BY TurnKeeps DEF Turn, Holders

LEMMA SlotsStutter ==
  ASSUME host' = host, Holders' = Holders, Born' = Born
  PROVE  [Slots!Next]_Slots!slotVars
<1>1. UNCHANGED Slots!slotVars
  BY DEF Slots!slotVars, Holders, Born
<1> QED BY <1>1

(* The handshake, from the slot to the map.                                *)
LEMMA GrantedIInv ==
  ASSUME IInv, NEW c \in Reqs, Granted(c)
  PROVE  IInv' /\ [Slots!Next]_Slots!slotVars
<1>0. /\ conn \in [Reqs -> Conn] /\ SlotsOK /\ connections \in [Keys -> Reqs \cup {None}]
  BY DEF IInv, TypeOK
<1>1. /\ c \in host.woken \cup host.orphans
      /\ host' = Slots!Resumed(host, c)
      /\ conn' = [conn EXCEPT ![c].phase = "connecting"]
      /\ UNCHANGED <<connections, pending, chain, req, drain>>
  BY DEF Granted
<1>2. c \in Sem!Callers(host)
  BY <1>1 DEF Sem!Callers
<1>3. conn[c].phase = "queued" /\ ~conn[c].released
  BY <1>0, <1>2 DEF SlotsOK, Wrapped
<1>4. Turn(c) /\ conn'[c].phase = "connecting" /\ DedupedHandshakes'
  <2>1. "connecting" \in ConnPhases \ {"unborn", "up", "dead"}
    BY DEF ConnPhases
  <2>2. connections' \in [Keys -> Reqs \cup {None}] /\ UNCHANGED <<pending, chain, req, drain>>
    BY <1>0, <1>1
  <2> QED BY <1>1, <1>3, <2>1, <2>2, HandshakeTurns
<1>5. Born' = Born /\ Holders' = Holders \cup {c}
  BY <1>3, <1>4, TurnHolders
<1>6. [Slots!Next]_Slots!slotVars
  BY <1>1, <1>5, ResumeStep
<1>7. MapOK'
  BY <1>1, <1>4, TurnKeeps
<1>8. Sem!Callers(host') = Sem!Callers(host) \ {c}
  <2>1. host' = Sem!Resumed(host, c) /\ Sem!HostOK(host)
    BY <1>0, <1>1, SameOperators DEF SlotsOK, Sem!IInv
  <2> QED BY <1>1, <2>1, Sem!ResumedKeeps, SemaphoreAssumption
<1>9. \A d \in Sem!Callers(host') : conn'[d].phase = "queued"
  <2>1. Sem!Callers(host) \subseteq Reqs
    BY <1>0 DEF SlotsOK, Sem!IInv, Born
  <2> QED BY <1>0, <1>4, <1>8, <2>1 DEF Turn, SlotsOK
<1> QED BY <1>4, <1>6, <1>7, <1>9, TurnIInv

(* A step of a handshake that holds a slot before and after.               *)
LEMMA HandshakeIInv ==
  ASSUME IInv, NEW c \in Reqs, NEW p \in {"hung", "ready", "stored", "failing"},
         conn[c].phase \in {"connecting", "hung", "ready"},
         \/ conn' = [conn EXCEPT ![c].phase = p]
         \/ \E a \in Alpns : conn' = [conn EXCEPT ![c].phase = p, ![c].alpn = a]
         \/ conn' = [conn EXCEPT ![c].phase = p, ![c].sock = "gone"],
         UNCHANGED <<host, pending, chain, req, drain>>,
         \/ connections' = connections
         \/ p = "stored" /\ conn[c].phase = "ready" /\ connections' = MapWith(c)
  PROVE  IInv' /\ [Slots!Next]_Slots!slotVars
<1>0. /\ conn \in [Reqs -> Conn] /\ SlotsOK /\ connections \in [Keys -> Reqs \cup {None}]
      /\ conn[c] \in Conn /\ conn[c].key \in Keys /\ MapOK /\ DedupedHandshakes
      /\ None \notin Reqs
  BY PoolAssumption DEF IInv, TypeOK, Conn
<1>1. connections' \in [Keys -> Reqs \cup {None}]
  BY <1>0 DEF MapWith
<1>2. Turn(c) /\ conn'[c].phase = p /\ DedupedHandshakes'
  BY <1>1, HandshakeTurns DEF ConnPhases
<1>3. ~conn[c].released /\ ~Wrapped(conn[c])
  BY <1>0 DEF SlotsOK, Wrapped
<1>4. Holders' = Holders /\ Born' = Born
  <2>1. c \in Holders
    BY <1>3 DEF Holders
  <2>2. Holders' = (Holders \ {c}) \cup {c} /\ Born' = Born
    BY <1>2, <1>3, TurnHolders
  <2> QED BY <2>1, <2>2
<1>5. [Slots!Next]_Slots!slotVars
  BY <1>4, SlotsStutter
<1>6. MapOK'
  <2>1. CASE connections' = connections
    BY <1>2, <2>1, TurnKeeps
  <2>2. CASE /\ p = "stored" /\ ~conn[c].fresh
             /\ connections' = [connections EXCEPT ![conn[c].key] = c]
    <3>1. Wrapped(conn'[c])
      BY <1>2, <2>2 DEF Wrapped
    <3>2. pending[conn[c].key] = c
      BY <1>0, <2>2 DEF DedupedHandshakes, Unsettled
    <3>3. \A d \in Reqs : Wrapped(conn[d]) => Wrapped(conn'[d])
      BY <1>2 DEF Turn
    <3>4. pending' = pending
      OBVIOUS
    <3>5. \A k \in Keys : connections[k] \in Reqs \cup {None}
      BY <1>0
    <3> QED BY <1>0, <2>2, <3>1, <3>2, <3>3, <3>4, <3>5 DEF MapOK
  <2> QED BY <2>1, <2>2 DEF MapWith
<1>7. \A d \in Sem!Callers(host') : conn'[d].phase = "queued"
  <2>1. Sem!Callers(host) \subseteq Reqs
    BY <1>0 DEF SlotsOK, Sem!IInv, Born
  <2>2. c \notin Sem!Callers(host)
    BY <1>0 DEF SlotsOK
  <2> QED BY <1>0, <1>2, <2>1, <2>2 DEF Turn, SlotsOK
<1> QED BY <1>2, <1>5, <1>6, <1>7, TurnIInv

(* A failed handshake gives its slot back.                                 *)
LEMMA ThrownIInv ==
  ASSUME IInv, NEW c \in Reqs, Thrown(c)
  PROVE  IInv' /\ [Slots!Next]_Slots!slotVars
<1>0. /\ conn \in [Reqs -> Conn] /\ SlotsOK /\ connections \in [Keys -> Reqs \cup {None}]
  BY DEF IInv, TypeOK
<1>1. /\ conn[c].phase = "failing"
      /\ conn' = [conn EXCEPT ![c].phase = "thrown"]
      /\ host' = Slots!GiveBack(host, 1)
      /\ UNCHANGED <<connections, pending, chain, req, drain>>
  BY DEF Thrown
<1>2. Turn(c) /\ conn'[c].phase = "thrown" /\ DedupedHandshakes'
  <2>1. "thrown" \in ConnPhases \ {"unborn", "up", "dead"}
    BY DEF ConnPhases
  <2>2. connections' \in [Keys -> Reqs \cup {None}] /\ UNCHANGED <<pending, chain, req, drain>>
    BY <1>0, <1>1
  <2> QED BY <1>1, <2>1, <2>2, HandshakeTurns
<1>3. ~conn[c].released /\ ~Wrapped(conn[c])
  BY <1>0, <1>1 DEF SlotsOK, Wrapped
<1>4. c \in Holders
  BY <1>1, <1>3 DEF Holders
<1>5. Holders' = Holders \ {c} /\ Born' = Born
  BY <1>2, TurnHolders
<1>6. host' = Slots!GiveBack(host, Cardinality({c}))
  BY <1>1, FS_Singleton
<1>7. [Slots!Next]_Slots!slotVars
  <2>1. {c} \in SUBSET Holders /\ {c} # {}
    BY <1>4
  <2> QED BY <1>5, <1>6, <2>1, ReleaseStep
<1>8. MapOK'
  BY <1>1, <1>2, TurnKeeps
<1>9. \A d \in Sem!Callers(host') : conn'[d].phase = "queued"
  <2>1. Sem!Callers(host) \subseteq Reqs
    BY <1>0 DEF SlotsOK, Sem!IInv, Born
  <2>2. Sem!Callers(host') = Sem!Callers(host)
    BY <1>0, <1>4, <1>6, GiveBackHeld DEF SlotsOK
  <2>3. c \notin Sem!Callers(host)
    BY <1>0, <1>1 DEF SlotsOK
  <2> QED BY <1>0, <1>2, <2>1, <2>2, <2>3 DEF Turn, SlotsOK
<1> QED BY <1>2, <1>7, <1>8, <1>9, TurnIInv

(* The promise settles, and takes the requests that await it along.        *)
LEMMA SettleIInv ==
  ASSUME IInv, NEW c \in Reqs, Settle(c)
  PROVE  IInv' /\ [Slots!Next]_Slots!slotVars
<1>0. /\ conn \in [Reqs -> Conn] /\ req \in [Reqs -> Req] /\ conn[c] \in Conn
      /\ pending \in [Keys -> Reqs \cup {None}] /\ connections \in [Keys -> Reqs \cup {None}]
      /\ DedupedHandshakes /\ SlotsOK /\ None \notin Reqs
  BY PoolAssumption DEF IInv, TypeOK
<1> DEFINE ok == conn[c].phase = "stored"
           p == IF ok THEN "up" ELSE "dead"
           new == [conn[c] EXCEPT !.phase = p]
<1>1. /\ conn[c].phase \in {"stored", "thrown"}
      /\ conn' = [conn EXCEPT ![c] = new]
      /\ pending' = [k \in Keys |-> IF pending[k] = c THEN None ELSE pending[k]]
      /\ req' = [r \in Reqs |->
                   IF req[r].phase = "acquiring" /\ req[r].on = c
                     THEN IF ok THEN [req[r] EXCEPT !.phase = "handed"] ELSE DoneReq
                     ELSE req[r]]
      /\ UNCHANGED <<host, connections, chain, drain>>
  BY DEF Settle
<1>2. /\ new \in Conn /\ new.phase = p
      /\ new.key = conn[c].key /\ new.fresh = conn[c].fresh /\ new.alpn = conn[c].alpn
      /\ new.inFlight = conn[c].inFlight /\ new.active = conn[c].active
      /\ new.released = conn[c].released
  <2>1. p \in ConnPhases
    BY DEF ConnPhases
  <2> HIDE DEF p
  <2> QED BY <1>0, <2>1 DEF Conn
<1>3. /\ p = IF ok THEN "up" ELSE "dead"
      /\ ok <=> conn[c].phase = "stored"
  OBVIOUS
<1> HIDE DEF new, p
<1>4. /\ conn' \in [Reqs -> Conn] /\ conn'[c] = new
      /\ \A d \in Reqs \ {c} : conn'[d] = conn[d]
  BY <1>0, <1>1, <1>2
<1>5. Wrapped(conn'[c]) <=> ok
  BY <1>1, <1>2, <1>3, <1>4 DEF Wrapped
<1>6. ASSUME NEW r \in Reqs
      PROVE  /\ req'[r] \in Req
             /\ \/ req'[r] = req[r]
                \/ /\ req[r].phase = "acquiring"
                   /\ \/ req'[r].phase = "handed" /\ req'[r].on = c /\ Wrapped(conn'[c])
                      \/ req'[r].phase = "done"
  <2>1. LET q == [req[r] EXCEPT !.phase = "handed"]
        IN q \in Req /\ q.phase = "handed" /\ q.on = req[r].on
    BY <1>0, PhaseEffects DEF ReqPhases
  <2> QED BY <1>0, <1>1, <1>5, <2>1, DoneProperties
<1>7. pending' \in [Keys -> Reqs \cup {None}]
  BY <1>0, <1>1
<1>8. Turn(c)
  <2>1. req' \in [Reqs -> Req]
    BY <1>1, <1>6
  <2>2. conn[c].phase # "unborn" /\ conn'[c].phase # "unborn" /\ (Wrapped(conn[c]) => ok)
    BY <1>1, <1>2, <1>3, <1>4 DEF Wrapped
  <2> QED BY <1>0, <1>1, <1>2, <1>4, <1>5, <1>6, <1>7, <2>1, <2>2 DEF Turn
<1>9. DedupedHandshakes'
  <2>1. ~(Unsettled(c))'
    BY <1>2, <1>3, <1>4 DEF Unsettled
  <2>2. \A d \in Reqs \ {c} : (Unsettled(d))' <=> Unsettled(d)
    BY <1>4 DEF Unsettled
  <2>3. \A d \in Reqs : conn'[d].fresh = conn[d].fresh /\ conn'[d].key = conn[d].key
    BY <1>2, <1>4
  <2>4. \A d \in Reqs : conn[d].key \in Keys
    BY <1>0 DEF Conn
  <2>5. \A k \in Keys : /\ pending[k] \in Reqs \cup {None}
                        /\ pending'[k] = IF pending[k] = c THEN None ELSE pending[k]
    BY <1>0, <1>1
  <2> QED BY <1>0, <2>1, <2>2, <2>3, <2>4, <2>5 DEF DedupedHandshakes
<1>10. MapOK'
  <2>1. \A k \in Keys : pending'[k] \in {None, pending[k]}
    BY <1>1
  <2> QED BY <1>1, <1>8, <2>1, TurnKeeps
<1>11. Holders' = Holders /\ Born' = Born
  <2>1. Holders' = (Holders \ {c}) \cup (IF ok /\ ~conn[c].released THEN {c} ELSE {})
    BY <1>2, <1>3, <1>4, <1>8, TurnHolders
  <2>2. c \in Holders <=> ok /\ ~conn[c].released
    BY <1>1 DEF Holders
  <2> QED BY <1>8, <2>1, <2>2, TurnHolders
<1>12. [Slots!Next]_Slots!slotVars
  BY <1>1, <1>11, SlotsStutter
<1>13. \A d \in Sem!Callers(host') : conn'[d].phase = "queued"
  <2>1. Sem!Callers(host) \subseteq Reqs
    BY <1>0 DEF SlotsOK, Sem!IInv, Born
  <2>2. c \notin Sem!Callers(host)
    BY <1>0, <1>1 DEF SlotsOK
  <2> QED BY <1>0, <1>1, <1>4, <2>1, <2>2 DEF SlotsOK
<1> QED BY <1>8, <1>9, <1>10, <1>12, <1>13, TurnIInv
-----------------------------------------------------------------------------
(* The requests on a connection.                                           *)

LEMMA AppendDistinct ==
  ASSUME NEW s \in Seq(Reqs), Distinct(s), NEW x \in Reqs, x \notin Elements(s)
  PROVE  LET t == Append(s, x)
         IN /\ t \in Seq(Reqs) /\ t # <<>> /\ Distinct(t)
            /\ Elements(t) = Elements(s) \cup {x}
            /\ s # <<>> => Head(t) = Head(s)
            /\ s = <<>> => Head(t) = x
<1> DEFINE t == Append(s, x)
           n == Len(s)
<1>1. /\ t \in Seq(Reqs) /\ t # <<>> /\ Len(t) = n + 1
      /\ \A i \in 1 .. n : t[i] = s[i]
      /\ t[n + 1] = x
  BY AppendProperties
<1>2. n \in Nat /\ DOMAIN s = 1 .. n /\ DOMAIN t = 1 .. n + 1
  BY <1>1, LenProperties
<1>3. Head(t) = t[1] /\ Head(s) = s[1]
  BY <1>1
<1>4. s # <<>> => n # 0
  BY EmptySeq
<1>5. s = <<>> => n = 0
  BY EmptySeq
<1> HIDE DEF t, n
<1>6. \A i \in 1 .. n + 1 : i \in 1 .. n \/ i = n + 1
  BY <1>2
<1>7. \A i \in 1 .. n : s[i] # x
  BY <1>2 DEF Elements
<1>8. Distinct(t)
  BY <1>1, <1>2, <1>6, <1>7 DEF Distinct
<1>9. Elements(t) = Elements(s) \cup {x}
  <2>1. \A i \in 1 .. n : i \in 1 .. n + 1
    BY <1>2
  <2>2. n + 1 \in 1 .. n + 1
    BY <1>2
  <2> QED BY <1>1, <1>2, <1>6, <2>1, <2>2 DEF Elements
<1>10. (s # <<>> => Head(t) = Head(s)) /\ (s = <<>> => Head(t) = x)
  BY <1>1, <1>2, <1>3, <1>4, <1>5
<1> QED BY <1>1, <1>8, <1>9, <1>10 DEF t

LEMMA RestDistinct ==
  ASSUME NEW s \in Seq(Reqs), Distinct(s), s # <<>>
  PROVE  LET t == SubSeq(s, 2, Len(s))
         IN /\ t \in Seq(Reqs) /\ Distinct(t)
            /\ Elements(t) = Elements(s) \ {Head(s)}
<1> DEFINE t == SubSeq(s, 2, Len(s))
           n == Len(s)
<1>1. n \in Nat \ {0} /\ DOMAIN s = 1 .. n
  BY EmptySeq, LenProperties
<1>2. t \in Seq(Reqs) /\ Len(t) = n - 1 /\ \A i \in 1 .. n - 1 : t[i] = s[1 + i]
  <2>1. 1 \in 0 .. Len(s) /\ 1 + 1 = 2
    BY <1>1
  <2> QED BY <2>1, RestProperties
<1>3. DOMAIN t = 1 .. n - 1
  BY <1>2, LenProperties
<1>4. Head(s) = s[1]
  OBVIOUS
<1> HIDE DEF t, n
<1>5. Distinct(t)
  <2> SUFFICES ASSUME NEW i \in 1 .. n - 1, NEW j \in 1 .. n - 1, t[i] = t[j]
               PROVE  i = j
    BY <1>3 DEF Distinct
  <2>1. 1 + i \in DOMAIN s /\ 1 + j \in DOMAIN s /\ s[1 + i] = s[1 + j]
    BY <1>1, <1>2
  <2>2. 1 + i = 1 + j
    BY <2>1 DEF Distinct
  <2> QED BY <2>2
<1>6. Elements(t) = Elements(s) \ {Head(s)}
  <2>1. ASSUME NEW i \in 1 .. n - 1
        PROVE  t[i] \in Elements(s) \ {s[1]}
    <3>1. 1 + i \in DOMAIN s /\ 1 \in DOMAIN s /\ 1 + i # 1 /\ t[i] = s[1 + i]
      BY <1>1, <1>2
    <3> QED BY <3>1 DEF Elements, Distinct
  <2>2. ASSUME NEW i \in 1 .. n, s[i] # s[1]
        PROVE  s[i] \in Elements(t)
    <3>1. i - 1 \in 1 .. n - 1 /\ 1 + (i - 1) = i
      BY <1>1, <2>2
    <3>2. t[i - 1] = s[i]
      BY <1>2, <3>1
    <3> QED BY <1>3, <3>1, <3>2 DEF Elements
  <2> QED BY <1>1, <1>3, <1>4, <2>1, <2>2 DEF Elements
<1> QED BY <1>2, <1>5, <1>6 DEF t

(* A request takes a step on its connection, which counts it.              *)
Rides(new, cn) ==
  /\ new.phase = cn.phase /\ new.key = cn.key /\ new.fresh = cn.fresh
  /\ new.alpn = cn.alpn /\ new.released = cn.released

LEMMA RideIInv ==
  ASSUME IInv, NEW r \in Reqs, req[r].phase \in GivenPhases, NEW c, c = req[r].on,
         NEW new \in Conn, conn' = [conn EXCEPT ![c] = new], Rides(new, conn[c]),
         NEW q \in Req, req' = [req EXCEPT ![r] = q], NEW on,
         \/ /\ q.phase \in InUsePhases /\ q.on = c
            /\ q.phase = "queued" => conn[c].alpn = "h1"
            /\ \/ r \in OnConn(c) /\ on = OnConn(c) /\ new.active = conn[c].active
               \/ /\ r \notin OnConn(c) /\ on = OnConn(c) \cup {r}
                  /\ new.active = conn[c].active + 1
         \/ /\ q.phase = "done"
            /\ r \in OnConn(c) /\ on = OnConn(c) \ {r} /\ new.active = conn[c].active - 1,
         NEW s \in Seq(Reqs), chain' = [chain EXCEPT ![c] = s],
         conn[c].alpn = "h1" => QueueOK(s, new.inFlight, on, req'),
         UNCHANGED <<host, connections, pending, drain>>
  PROVE  IInv' /\ [Slots!Next]_Slots!slotVars
<1>0. /\ TypeOK /\ LifeOK /\ DedupedHandshakes /\ MapOK /\ CountOK /\ ChainOK /\ SlotsOK
      /\ conn \in [Reqs -> Conn] /\ req \in [Reqs -> Req] /\ chain \in [Reqs -> Seq(Reqs)]
      /\ connections \in [Keys -> Reqs \cup {None}] /\ pending \in [Keys -> Reqs \cup {None}]
  BY DEF IInv, TypeOK
<1>5. c \in Reqs /\ Wrapped(conn[c]) /\ conn[c].phase # "unborn"
  BY <1>0 DEF LifeOK, GivenPhases
<1>1. /\ conn' \in [Reqs -> Conn] /\ conn'[c] = new
      /\ \A d \in Reqs \ {c} : conn'[d] = conn[d]
  BY <1>0, <1>5
<1>2. /\ req' \in [Reqs -> Req] /\ req'[r] = q
      /\ \A x \in Reqs \ {r} : req'[x] = req[x]
  BY <1>0
<1>3. /\ chain' \in [Reqs -> Seq(Reqs)] /\ chain'[c] = s
      /\ \A d \in Reqs \ {c} : chain'[d] = chain[d]
  BY <1>0, <1>5
<1>4. \A d \in Reqs : /\ conn'[d].phase = conn[d].phase /\ conn'[d].key = conn[d].key
                      /\ conn'[d].fresh = conn[d].fresh /\ conn'[d].alpn = conn[d].alpn
                      /\ conn'[d].released <=> conn[d].released
                      /\ Wrapped(conn'[d]) <=> Wrapped(conn[d])
  BY <1>1 DEF Wrapped, Rides
<1>6. LifeOK'
  <2> SUFFICES ASSUME NEW x \in Reqs
               PROVE  /\ req'[x].phase \in {"idle", "calling"} => conn'[x].phase = "unborn"
                      /\ req'[x].phase \in {"acquiring"} \cup GivenPhases =>
                           req'[x].on \in Reqs /\ conn'[req'[x].on].phase # "unborn"
                      /\ req'[x].phase \in GivenPhases => Wrapped(conn'[req'[x].on])
                      /\ req'[x].phase = "queued" => conn'[req'[x].on].alpn = "h1"
    BY DEF LifeOK
  <2>1. /\ req[x].phase \in {"idle", "calling"} => conn[x].phase = "unborn"
        /\ req[x].phase \in {"acquiring"} \cup GivenPhases =>
             req[x].on \in Reqs /\ conn[req[x].on].phase # "unborn"
        /\ req[x].phase \in GivenPhases => Wrapped(conn[req[x].on])
        /\ req[x].phase = "queued" => conn[req[x].on].alpn = "h1"
    BY <1>0 DEF LifeOK
  <2>2. CASE x # r
    BY <1>2, <1>4, <2>1, <2>2 DEF GivenPhases, InUsePhases
  <2>3. CASE x = r
    BY <1>2, <1>4, <1>5, <2>3 DEF GivenPhases, InUsePhases
  <2> QED BY <2>2, <2>3
<1>7. DedupedHandshakes'
  <2>1. \A d \in Reqs : (Unsettled(d))' <=> Unsettled(d)
    BY <1>4 DEF Unsettled
  <2>2. pending' = pending /\ \A k \in Keys : pending[k] \in Reqs \cup {None}
    BY <1>0
  <2> QED BY <1>0, <1>4, <2>1, <2>2 DEF DedupedHandshakes
<1>8. MapOK'
  <2>1. \A k \in Keys : connections[k] \in Reqs \cup {None}
    BY <1>0
  <2>2. pending' = pending /\ connections' = connections
    OBVIOUS
  <2> QED BY <1>0, <1>4, <2>1, <2>2 DEF MapOK
<1>9. OnConn(c)' = on /\ \A d \in Reqs \ {c} : OnConn(d)' = OnConn(d)
  <2>1. ASSUME NEW x \in Reqs, NEW d \in Reqs, x # r
        PROVE  x \in OnConn(d)' <=> x \in OnConn(d)
    BY <1>2, <2>1 DEF OnConn
  <2>2. /\ r \in OnConn(c)' <=> r \in on
        /\ \A d \in Reqs \ {c} : r \notin OnConn(d)' /\ r \notin OnConn(d)
    BY <1>2 DEF OnConn, InUsePhases
  <2>3. \A d \in Reqs : OnConn(d)' \subseteq Reqs /\ OnConn(d) \subseteq Reqs
    BY DEF OnConn
  <2>4. OnConn(c)' = on
    <3>1. \A x \in Reqs : x \in OnConn(c)' <=> x \in on
      BY <1>5, <2>1, <2>2
    <3>2. on \subseteq Reqs
      BY <1>5, <2>3
    <3> QED BY <1>5, <2>3, <3>1, <3>2
  <2>5. ASSUME NEW d \in Reqs \ {c}
        PROVE  OnConn(d)' = OnConn(d)
    <3>1. \A x \in Reqs : x \in OnConn(d)' <=> x \in OnConn(d)
      BY <2>1, <2>2
    <3> QED BY <2>3, <3>1
  <2> QED BY <2>4, <2>5
<1>10. CountOK'
  <2>1. IsFiniteSet(OnConn(c)) /\ conn[c].active = Cardinality(OnConn(c))
    BY <1>0, <1>5 DEF CountOK
  <2>2. IsFiniteSet(on) /\ new.active = Cardinality(on)
    <3>1. CASE on = OnConn(c) \ {r} /\ r \in OnConn(c) /\ new.active = conn[c].active - 1
      BY <2>1, <3>1, FS_RemoveElement
    <3>2. CASE on = OnConn(c) \cup {r} /\ r \notin OnConn(c) /\ new.active = conn[c].active + 1
      BY <2>1, <3>2, FS_AddElement
    <3>3. CASE on = OnConn(c) /\ new.active = conn[c].active
      BY <2>1, <3>3
    <3> QED BY <3>1, <3>2, <3>3
  <2> QED BY <1>0, <1>1, <1>9, <2>2 DEF CountOK
<1>11. ChainOK'
  <2>1. ASSUME NEW d \in Reqs, d # c
        PROVE  /\ ~Wrapped(conn'[d]) => chain'[d] = <<>> /\ ~conn'[d].inFlight
               /\ conn'[d].alpn = "h1" => QueueOK(chain'[d], conn'[d].inFlight, OnConn(d)', req')
    <3>1. \A x \in OnConn(d) : req'[x] = req[x]
      BY <1>2, <2>1 DEF OnConn
    <3>2. conn[d].alpn = "h1" => QueueOK(chain[d], conn[d].inFlight, OnConn(d), req')
      BY <1>0, <3>1 DEF ChainOK, QueueOK
    <3> QED BY <1>0, <1>1, <1>3, <1>9, <2>1, <3>2 DEF ChainOK
  <2>2. /\ ~Wrapped(conn'[c]) => chain'[c] = <<>> /\ ~conn'[c].inFlight
        /\ conn'[c].alpn = "h1" => QueueOK(chain'[c], conn'[c].inFlight, OnConn(c)', req')
    BY <1>1, <1>3, <1>4, <1>5, <1>9
  <2> QED BY <2>1, <2>2 DEF ChainOK
<1>12. Holders' = Holders /\ Born' = Born
  BY <1>4 DEF Holders, Born
<1>13. [Slots!Next]_Slots!slotVars
  BY <1>12, SlotsStutter
<1>14. Sem!IInv'
  BY <1>0, <1>13, SemaphoreKept DEF SlotsOK
<1>15. SlotsOK'
  <2>1. Sem!Callers(host) \subseteq Reqs /\ host' = host
    BY <1>0 DEF SlotsOK, Sem!IInv, Born
  <2>2. \A d \in Sem!Callers(host)' : conn'[d].phase = "queued"
    BY <1>0, <1>4, <2>1 DEF SlotsOK
  <2>3. \A d \in Reqs : conn'[d].released => Wrapped(conn'[d])
    BY <1>0, <1>4 DEF SlotsOK
  <2> QED BY <1>14, <2>2, <2>3 DEF SlotsOK
<1>16. TypeOK'
  BY <1>0, <1>1, <1>2, <1>3 DEF TypeOK
<1> QED BY <1>6, <1>7, <1>8, <1>10, <1>11, <1>13, <1>15, <1>16 DEF IInv

LEMMA GivenProperties ==
  ASSUME IInv, NEW r \in Reqs, req[r].phase \in GivenPhases, NEW c, c = req[r].on
  PROVE  /\ c \in Reqs /\ conn[c] \in Conn /\ conn[c].alpn \in {"h1", "h2"}
         /\ conn[c].active \in Nat /\ conn[c].inFlight \in BOOLEAN
         /\ chain[c] \in Seq(Reqs) /\ req[r] \in Req
         /\ OnConn(c) \subseteq Reqs /\ (r \in OnConn(c) <=> req[r].phase # "handed")
         /\ r \in OnConn(c) => conn[c].active - 1 \in Nat
         /\ conn[c].alpn = "h1" => QueueOK(chain[c], conn[c].inFlight, OnConn(c), req)
<1>1. /\ c \in Reqs /\ LifeOK /\ CountOK /\ ChainOK /\ conn \in [Reqs -> Conn]
      /\ chain \in [Reqs -> Seq(Reqs)] /\ req \in [Reqs -> Req]
  BY DEF IInv, TypeOK, LifeOK
<1>2. /\ conn[c] \in Conn /\ conn[c].alpn \in {"h1", "h2"}
      /\ conn[c].active \in Nat /\ conn[c].inFlight \in BOOLEAN
      /\ chain[c] \in Seq(Reqs) /\ req[r] \in Req
  BY <1>1 DEF Conn
<1>4. OnConn(c) \subseteq Reqs /\ (r \in OnConn(c) <=> req[r].phase # "handed")
  BY DEF OnConn, GivenPhases, InUsePhases
<1>5. ASSUME r \in OnConn(c) PROVE conn[c].active - 1 \in Nat
  <2>1. IsFiniteSet(OnConn(c)) /\ conn[c].active = Cardinality(OnConn(c))
    BY <1>1 DEF CountOK
  <2>2. conn[c].active # 0
    BY <1>5, <2>1, FS_EmptySet
  <2> QED BY <1>2, <2>2
<1> QED BY <1>1, <1>2, <1>4, <1>5 DEF ChainOK

(* The head of a queue is on its connection.                               *)
LEMMA HeadOn ==
  ASSUME NEW s \in Seq(Reqs), s # <<>>
  PROVE  Head(s) \in Elements(s)
<1>1. 1 \in DOMAIN s /\ Head(s) = s[1]
  BY EmptySeq, LenProperties
<1> QED BY <1>1 DEF Elements

(* A request goes out, or queues behind the others.                        *)
LEMMA BeginIInv ==
  ASSUME IInv, NEW r \in Reqs, Begin(r)
  PROVE  IInv' /\ [Slots!Next]_Slots!slotVars
<1>0. PICK c : c = req[r].on
  OBVIOUS
<1>1. req[r].phase = "handed" /\ req[r].phase \in GivenPhases
  BY DEF Begin, GivenPhases
<1>2. /\ c \in Reqs /\ conn[c] \in Conn /\ conn[c].alpn \in {"h1", "h2"}
      /\ conn[c].active \in Nat /\ conn[c].inFlight \in BOOLEAN
      /\ chain[c] \in Seq(Reqs) /\ req[r] \in Req
      /\ OnConn(c) \subseteq Reqs /\ r \notin OnConn(c)
      /\ conn[c].alpn = "h1" => QueueOK(chain[c], conn[c].inFlight, OnConn(c), req)
      /\ conn \in [Reqs -> Conn] /\ req \in [Reqs -> Req] /\ chain \in [Reqs -> Seq(Reqs)]
  BY <1>0, <1>1, GivenProperties DEF IInv, TypeOK
<1> DEFINE n == conn[c].active + 1
           new == [conn[c] EXCEPT !.active = n]
           p == IF conn[c].alpn = "h2" THEN "active" ELSE "queued"
           q == [req[r] EXCEPT !.phase = p]
           s == IF conn[c].alpn = "h2" THEN chain[c] ELSE Append(chain[c], r)
           on == OnConn(c) \cup {r}
<1>3. /\ conn' = [conn EXCEPT ![c] = new]
      /\ req' = [req EXCEPT ![r] = q] /\ chain' = [chain EXCEPT ![c] = s]
      /\ UNCHANGED <<host, connections, pending, drain>>
  BY <1>0, <1>2 DEF Begin, Enter
<1>4. n \in Nat /\ n = conn[c].active + 1
  BY <1>2
<1>5. p \in InUsePhases /\ p \in ReqPhases /\ p = IF conn[c].alpn = "h2" THEN "active" ELSE "queued"
  BY <1>2 DEF InUsePhases, ReqPhases
<1>6. s \in Seq(Reqs) /\ (conn[c].alpn = "h1" => s = Append(chain[c], r))
  BY <1>2, AppendProperties
<1> HIDE DEF n, p, s
<1>7. new \in Conn /\ Rides(new, conn[c]) /\ new.active = n /\ (new.inFlight <=> conn[c].inFlight)
  BY <1>2, <1>4 DEF Conn, Rides
<1>8. q \in Req /\ q.phase = p /\ q.on = c
  BY <1>0, <1>2, <1>5, PhaseEffects
<1> HIDE DEF new, q
<1>9. ASSUME conn[c].alpn = "h1"
      PROVE  QueueOK(s, new.inFlight, on, req')
  <2>1. /\ Distinct(chain[c]) /\ Elements(chain[c]) = OnConn(c)
        /\ conn[c].inFlight => chain[c] # <<>>
        /\ \A x \in OnConn(c) : req[x].phase # "queued" <=> conn[c].inFlight /\ x = Head(chain[c])
    BY <1>2, <1>9 DEF QueueOK
  <2>2. /\ s # <<>> /\ Distinct(s) /\ Elements(s) = on
        /\ chain[c] # <<>> => Head(s) = Head(chain[c])
    <3>1. r \notin Elements(chain[c]) /\ s = Append(chain[c], r)
      BY <1>2, <1>6, <1>9, <2>1
    <3>2. chain[c] \in Seq(Reqs) /\ Distinct(chain[c]) /\ Elements(chain[c]) = OnConn(c)
      BY <1>2, <2>1
    <3>3. LET t == Append(chain[c], r)
          IN /\ t # <<>> /\ Distinct(t) /\ Elements(t) = Elements(chain[c]) \cup {r}
             /\ chain[c] # <<>> => Head(t) = Head(chain[c])
      BY <3>1, <3>2, AppendDistinct
    <3> QED BY <3>1, <3>2, <3>3
  <2>3. conn[c].inFlight => Head(chain[c]) \in OnConn(c)
    BY <1>2, <2>1, HeadOn
  <2>4. req'[r].phase = "queued" /\ \A x \in OnConn(c) : req'[x] = req[x]
    BY <1>2, <1>3, <1>5, <1>8, <1>9
  <2> QED BY <1>2, <1>7, <2>1, <2>2, <2>3, <2>4 DEF QueueOK
<1>10. /\ q.phase \in InUsePhases /\ q.on = c
       /\ q.phase = "queued" => conn[c].alpn = "h1"
       /\ r \notin OnConn(c) /\ on = OnConn(c) \cup {r} /\ new.active = conn[c].active + 1
  BY <1>2, <1>4, <1>5, <1>7, <1>8
<1> HIDE DEF on
<1> QED BY <1>0, <1>1, <1>3, <1>6, <1>7, <1>8, <1>9, <1>10, RideIInv

(* The request at the head of the queue is written, or fails on a          *)
(* connection that was closed.                                             *)
LEMMA StartIInv ==
  ASSUME IInv, NEW r \in Reqs, StartH1(r)
  PROVE  IInv' /\ [Slots!Next]_Slots!slotVars
<1>0. PICK c : c = req[r].on
  OBVIOUS
<1>1. req[r].phase = "queued" /\ req[r].phase \in GivenPhases /\ Head(chain[c]) = r
  BY <1>0 DEF StartH1, Startable, GivenPhases, InUsePhases
<1>2. /\ c \in Reqs /\ conn[c] \in Conn
      /\ conn[c].active \in Nat /\ conn[c].inFlight \in BOOLEAN
      /\ chain[c] \in Seq(Reqs) /\ req[r] \in Req
      /\ OnConn(c) \subseteq Reqs /\ r \in OnConn(c) /\ conn[c].active - 1 \in Nat
      /\ conn \in [Reqs -> Conn] /\ req \in [Reqs -> Req] /\ chain \in [Reqs -> Seq(Reqs)]
  BY <1>0, <1>1, GivenProperties DEF IInv, TypeOK
<1>3. /\ Distinct(chain[c]) /\ Elements(chain[c]) = OnConn(c) /\ chain[c] # <<>>
      /\ \A x \in OnConn(c) : req[x].phase # "queued" <=> conn[c].inFlight /\ x = r
  <2>1. conn[c].alpn = "h1"
    BY <1>0, <1>1 DEF IInv, LifeOK
  <2>2. QueueOK(chain[c], conn[c].inFlight, OnConn(c), req)
    BY <1>0, <1>1, <2>1, GivenProperties
  <2>3. Elements(chain[c]) = OnConn(c) /\ chain[c] # <<>>
    BY <1>2, <2>2 DEF QueueOK, Elements
  <2> QED BY <1>1, <2>2, <2>3 DEF QueueOK
<1>4. \A x \in OnConn(c) : req[x].phase = "queued"
  BY <1>1, <1>2, <1>3
<1>5. CASE ~conn[c].closed
  <2> DEFINE new == [conn[c] EXCEPT !.inFlight = TRUE]
             q == [req[r] EXCEPT !.phase = "active"]
  <2>1. /\ conn' = [conn EXCEPT ![c] = new] /\ req' = [req EXCEPT ![r] = q]
        /\ chain' = [chain EXCEPT ![c] = chain[c]]
        /\ UNCHANGED <<host, connections, pending, drain>>
    BY <1>0, <1>2, <1>5 DEF StartH1
  <2>2. new \in Conn /\ Rides(new, conn[c]) /\ new.active = conn[c].active /\ (new.inFlight <=> TRUE)
    BY <1>2 DEF Conn, Rides
  <2>3. q \in Req /\ q.phase = "active" /\ q.on = c
    BY <1>0, <1>2, PhaseEffects DEF ReqPhases
  <2> HIDE DEF new, q
  <2>4. QueueOK(chain[c], new.inFlight, OnConn(c), req')
    <3>1. req'[r].phase = "active" /\ \A x \in OnConn(c) : x # r => req'[x] = req[x]
      BY <1>2, <2>1, <2>3
    <3> QED BY <1>1, <1>2, <1>3, <1>4, <2>2, <3>1 DEF QueueOK
  <2>5. q.phase \in InUsePhases /\ q.phase # "queued"
    BY <2>3 DEF InUsePhases
  <2> QED BY <1>0, <1>1, <1>2, <2>1, <2>2, <2>3, <2>4, <2>5, RideIInv
<1>6. CASE conn[c].closed
  <2> DEFINE n == conn[c].active - 1
             new == [conn[c] EXCEPT !.active = n]
             s == SubSeq(chain[c], 2, Len(chain[c]))
             on == OnConn(c) \ {r}
  <2>1. /\ conn' = [conn EXCEPT ![c] = new] /\ req' = [req EXCEPT ![r] = DoneReq]
        /\ chain' = [chain EXCEPT ![c] = s]
        /\ UNCHANGED <<host, connections, pending, drain>>
    BY <1>0, <1>2, <1>6 DEF StartH1, Leave, ChainAdvanced
  <2>2. n \in Nat /\ n = conn[c].active - 1
    BY <1>2
  <2>3. s \in Seq(Reqs) /\ Distinct(s) /\ Elements(s) = on
    BY <1>1, <1>2, <1>3, RestDistinct
  <2> HIDE DEF n, s
  <2>4. new \in Conn /\ Rides(new, conn[c]) /\ new.active = n /\ (new.inFlight <=> conn[c].inFlight)
    BY <1>2, <2>2 DEF Conn, Rides
  <2> HIDE DEF new
  <2>5. QueueOK(s, new.inFlight, on, req')
    <3>1. \A x \in on : req'[x] = req[x]
      BY <1>2, <2>1
    <3>2. ~new.inFlight
      BY <1>1, <1>2, <1>3, <2>4
    <3> QED BY <1>4, <2>3, <3>1, <3>2 DEF QueueOK
  <2> QED BY <1>0, <1>1, <1>2, <2>1, <2>2, <2>3, <2>4, <2>5, DoneProperties, RideIInv
<1> QED BY <1>5, <1>6

(* A request is done and lets the next one go.                             *)
LEMMA FinallyIInv ==
  ASSUME IInv, NEW r \in Reqs, Finally(r)
  PROVE  IInv' /\ [Slots!Next]_Slots!slotVars
<1>0. PICK c : c = req[r].on
  OBVIOUS
<1>1. req[r].phase \in {"settling", "redirecting"} /\ req[r].phase \in GivenPhases
  BY DEF Finally, Returned, GivenPhases, InUsePhases
<1>2. /\ c \in Reqs /\ conn[c] \in Conn /\ conn[c].alpn \in {"h1", "h2"}
      /\ conn[c].active \in Nat /\ conn[c].inFlight \in BOOLEAN
      /\ chain[c] \in Seq(Reqs) /\ req[r] \in Req
      /\ OnConn(c) \subseteq Reqs /\ r \in OnConn(c) /\ conn[c].active - 1 \in Nat
      /\ conn[c].alpn = "h1" => QueueOK(chain[c], conn[c].inFlight, OnConn(c), req)
      /\ conn \in [Reqs -> Conn] /\ req \in [Reqs -> Req] /\ chain \in [Reqs -> Seq(Reqs)]
  BY <1>0, <1>1, GivenProperties DEF IInv, TypeOK
<1> DEFINE n == conn[c].active - 1
           new == [conn[c] EXCEPT !.active = n, !.inFlight = FALSE]
           s == IF conn[c].alpn = "h1" THEN SubSeq(chain[c], 2, Len(chain[c])) ELSE chain[c]
           on == OnConn(c) \ {r}
<1>3. /\ conn' = [conn EXCEPT ![c] = new] /\ req' = [req EXCEPT ![r] = DoneReq]
      /\ chain' = [chain EXCEPT ![c] = s]
      /\ UNCHANGED <<host, connections, pending, drain>>
  BY <1>0, <1>2 DEF Finally, Leave, ChainAdvanced
<1>4. n \in Nat /\ n = conn[c].active - 1
  BY <1>2
<1>5. ASSUME conn[c].alpn = "h1"
      PROVE  /\ s \in Seq(Reqs) /\ Distinct(s) /\ Elements(s) = on
             /\ \A x \in on : req[x].phase = "queued"
  <2>1. /\ Distinct(chain[c]) /\ Elements(chain[c]) = OnConn(c)
        /\ conn[c].inFlight => chain[c] # <<>>
        /\ \A x \in OnConn(c) : req[x].phase # "queued" <=> conn[c].inFlight /\ x = Head(chain[c])
    BY <1>2, <1>5 DEF QueueOK
  <2>2. conn[c].inFlight /\ r = Head(chain[c])
    BY <1>1, <1>2, <2>1
  <2>3. s = SubSeq(chain[c], 2, Len(chain[c]))
    BY <1>5
  <2> HIDE DEF s
  <2>4. s \in Seq(Reqs) /\ Distinct(s) /\ Elements(s) = on
    BY <1>2, <2>1, <2>2, <2>3, RestDistinct
  <2> QED BY <2>1, <2>2, <2>4
<1>6. s \in Seq(Reqs)
  BY <1>2, <1>5
<1> HIDE DEF n, s
<1>7. new \in Conn /\ Rides(new, conn[c]) /\ new.active = n /\ (new.inFlight <=> FALSE)
  BY <1>2, <1>4 DEF Conn, Rides
<1> HIDE DEF new
<1>8. ASSUME conn[c].alpn = "h1"
      PROVE  QueueOK(s, new.inFlight, on, req')
  <2>1. \A x \in on : req'[x] = req[x]
    BY <1>2, <1>3
  <2> QED BY <1>5, <1>7, <1>8, <2>1 DEF QueueOK
<1> QED BY <1>0, <1>1, <1>2, <1>3, <1>4, <1>6, <1>7, <1>8, DoneProperties, RideIInv

(* An attempt begins: a stale connection is closed first, its slot given   *)
(* back, and one is taken or queued for.                                   *)
LEMMA StartsEffects ==
  ASSUME IInv, NEW r \in Reqs, AcquireStarts(r), NEW k, k = req[r].key,
         NEW S, S = Stale(r), NEW g, g = ConnsAfterClose(S), NEW h, h = SlotsAfterClose(S)
  PROVE  /\ req[r].phase = "calling" /\ conn[r].phase = "unborn" /\ k \in Keys
         /\ S \subseteq Reqs /\ r \notin S
         /\ conn' \in [Reqs -> Conn]
         /\ \A d \in Reqs \ {r} : conn'[d] = g[d]
         /\ conn'[r].phase = IF Slots!HasRoom(h) THEN "connecting" ELSE "queued"
         /\ conn'[r].key = k /\ (conn'[r].fresh <=> req[r].fresh)
         /\ conn'[r].alpn = "h2" /\ ~conn'[r].released /\ ~conn'[r].inFlight /\ conn'[r].active = 0
         /\ req' \in [Reqs -> Req] /\ \A x \in Reqs \ {r} : req'[x] = req[x]
         /\ req'[r].phase = "acquiring" /\ req'[r].on = r
         /\ ~req[r].fresh => pending[k] = None
         /\ pending' = IF req[r].fresh THEN pending ELSE [pending EXCEPT ![k] = r]
         /\ connections' = IF req[r].fresh THEN connections ELSE [connections EXCEPT ![k] = None]
<1>0. /\ conn \in [Reqs -> Conn] /\ req \in [Reqs -> Req] /\ LifeOK /\ MapOK
      /\ connections \in [Keys -> Reqs \cup {None}] /\ req[r] \in Req
      /\ req[r].key \in Keys /\ req[r].fresh \in BOOLEAN
  BY DEF IInv, TypeOK, Req
<1>1. req[r].phase = "calling" /\ conn[r].phase = "unborn" /\ k \in Keys
  BY <1>0 DEF AcquireStarts, LifeOK
<1>2. S \subseteq Reqs /\ r \notin S
  <2>1. S \subseteq {connections[k]} \ {None}
    BY DEF Stale
  <2>2. connections[k] # None => Wrapped(conn[connections[k]])
    BY <1>0, <1>1 DEF MapOK
  <2>3. ~Wrapped(conn[r])
    BY <1>1 DEF Wrapped
  <2> QED BY <1>0, <1>1, <2>1, <2>2, <2>3
<1> DEFINE p == IF Slots!HasRoom(h) THEN "connecting" ELSE "queued"
           born == [Unborn EXCEPT !.phase = p, !.key = k, !.fresh = req[r].fresh]
<1>3. p \in ConnPhases /\ p = IF Slots!HasRoom(h) THEN "connecting" ELSE "queued"
  BY DEF ConnPhases
<1>4. /\ conn' = [g EXCEPT ![r] = born]
      /\ req' = [req EXCEPT ![r].phase = "acquiring", ![r].on = r]
      /\ req[r].fresh \/ (~Reusable(r) /\ pending[k] = None)
      /\ pending' = IF req[r].fresh THEN pending ELSE [pending EXCEPT ![k] = r]
      /\ connections' = IF req[r].fresh THEN connections ELSE [connections EXCEPT ![k] = None]
  BY DEF AcquireStarts, PendingWith
<1> HIDE DEF p
<1>5. /\ born \in Conn /\ born.phase = p /\ born.key = k /\ born.fresh = req[r].fresh
      /\ born.alpn = "h2" /\ born.released = FALSE /\ born.inFlight = FALSE /\ born.active = 0
  BY <1>0, <1>1, <1>3 DEF Conn, Unborn
<1> HIDE DEF born
<1>6. g \in [Reqs -> Conn]
  BY <1>0, <1>2, CloseEffects
<1>7. conn' \in [Reqs -> Conn] /\ conn'[r] = born /\ \A d \in Reqs \ {r} : conn'[d] = g[d]
  BY <1>4, <1>5, <1>6
<1> DEFINE new == [req[r] EXCEPT !.phase = "acquiring", !.on = r]
<1>8. req' = [req EXCEPT ![r] = new]
  BY <1>0, <1>4
<1>9. new \in Req /\ new.phase = "acquiring" /\ new.on = r
  BY <1>0 DEF Req, ReqPhases
<1> HIDE DEF new
<1>10. /\ req' \in [Reqs -> Req] /\ \A x \in Reqs \ {r} : req'[x] = req[x]
       /\ req'[r].phase = "acquiring" /\ req'[r].on = r
  BY <1>0, <1>8, <1>9
<1> QED BY <1>1, <1>2, <1>3, <1>4, <1>5, <1>7, <1>10

LEMMA StartsIInv ==
  ASSUME IInv, NEW r \in Reqs, AcquireStarts(r)
  PROVE  IInv' /\ [Slots!Next]_Slots!slotVars
<1>0. PICK k, S, g, h : /\ k = req[r].key /\ S = Stale(r) /\ g = ConnsAfterClose(S)
                        /\ h = SlotsAfterClose(S)
  OBVIOUS
<1>1. /\ req[r].phase = "calling" /\ conn[r].phase = "unborn" /\ k \in Keys
      /\ S \subseteq Reqs /\ r \notin S
      /\ conn' \in [Reqs -> Conn]
      /\ \A d \in Reqs \ {r} : conn'[d] = g[d]
      /\ conn'[r].phase = IF Slots!HasRoom(h) THEN "connecting" ELSE "queued"
      /\ conn'[r].key = k /\ (conn'[r].fresh <=> req[r].fresh)
      /\ conn'[r].alpn = "h2" /\ ~conn'[r].released /\ ~conn'[r].inFlight /\ conn'[r].active = 0
      /\ req' \in [Reqs -> Req] /\ \A x \in Reqs \ {r} : req'[x] = req[x]
      /\ req'[r].phase = "acquiring" /\ req'[r].on = r
      /\ ~req[r].fresh => pending[k] = None
      /\ pending' = IF req[r].fresh THEN pending ELSE [pending EXCEPT ![k] = r]
      /\ connections' = IF req[r].fresh THEN connections ELSE [connections EXCEPT ![k] = None]
  BY <1>0, StartsEffects
<1>2. /\ TypeOK /\ LifeOK /\ DedupedHandshakes /\ MapOK /\ CountOK /\ ChainOK /\ SlotsOK
      /\ conn \in [Reqs -> Conn] /\ req \in [Reqs -> Req] /\ chain \in [Reqs -> Seq(Reqs)]
      /\ connections \in [Keys -> Reqs \cup {None}] /\ pending \in [Keys -> Reqs \cup {None}]
      /\ None \notin Reqs
  BY PoolAssumption DEF IInv, TypeOK
<1>3. /\ chain' = chain /\ drain' = drain
      /\ host' = Slots!TakeSlot(h, r) /\ h = Slots!GiveBack(host, Cardinality(Releasing(S)))
  BY <1>0 DEF AcquireStarts, SlotsAfterClose
<1>4. \A d \in Reqs : d # r =>
        /\ conn'[d].phase = conn[d].phase /\ conn'[d].key = conn[d].key
        /\ conn'[d].fresh = conn[d].fresh /\ conn'[d].alpn = conn[d].alpn
        /\ conn'[d].inFlight = conn[d].inFlight /\ conn'[d].active = conn[d].active
        /\ conn'[d].released <=> conn[d].released \/ (d \in S /\ Wrapped(conn[d]))
        /\ Wrapped(conn'[d]) <=> Wrapped(conn[d])
  <2>1. \A d \in Reqs :
          /\ g[d].phase = conn[d].phase /\ g[d].key = conn[d].key
          /\ g[d].fresh = conn[d].fresh /\ g[d].alpn = conn[d].alpn
          /\ g[d].inFlight = conn[d].inFlight /\ g[d].active = conn[d].active
          /\ g[d].released <=> conn[d].released \/ (d \in S /\ Wrapped(conn[d]))
    <3>1. \A c \in Reqs :
            LET d == ConnsAfterClose(S)[c]
            IN /\ d.phase = conn[c].phase /\ d.key = conn[c].key
               /\ d.fresh = conn[c].fresh /\ d.alpn = conn[c].alpn
               /\ d.inFlight = conn[c].inFlight /\ d.active = conn[c].active
               /\ d.idle = conn[c].idle
               /\ d.closed <=> conn[c].closed \/ c \in S
               /\ d.released <=> conn[c].released \/ (c \in S /\ Wrapped(conn[c]))
      BY <1>1, <1>2, CloseEffects
    <3> QED BY <1>0, <3>1
  <2> QED BY <1>1, <2>1 DEF Wrapped
<1>5. ~Wrapped(conn[r]) /\ ~Wrapped(conn'[r]) /\ conn'[r].phase \in {"connecting", "queued"}
  BY <1>1 DEF Wrapped
<1>6. /\ \A d \in Reqs : OnConn(d)' = OnConn(d)
      /\ \A d \in Reqs : \A x \in OnConn(d) : req'[x] = req[x]
      /\ OnConn(r) = {}
  <2>1. \A d \in Reqs : r \notin OnConn(d) /\ r \notin OnConn(d)'
    BY <1>1 DEF OnConn
  <2>2. \A d \in Reqs : \A x \in Reqs : x # r => (x \in OnConn(d)' <=> x \in OnConn(d))
    BY <1>1 DEF OnConn
  <2>3. \A d \in Reqs : OnConn(d)' = OnConn(d)
    <3> SUFFICES ASSUME NEW d \in Reqs PROVE OnConn(d)' = OnConn(d)
      OBVIOUS
    <3>1. \A x \in Reqs : x \in OnConn(d)' <=> x \in OnConn(d)
      BY <2>1, <2>2
    <3>2. OnConn(d)' \subseteq Reqs /\ OnConn(d) \subseteq Reqs
      BY DEF OnConn
    <3> QED BY <3>1, <3>2
  <2>4. OnConn(r) = {}
    BY <1>2, <1>5 DEF OnConn, LifeOK, GivenPhases, InUsePhases
  <2>5. \A d \in Reqs : \A x \in OnConn(d) : req'[x] = req[x]
    BY <1>1, <2>1 DEF OnConn
  <2> QED BY <2>3, <2>4, <2>5
<1>7. LifeOK'
  <2> SUFFICES ASSUME NEW x \in Reqs
               PROVE  /\ req'[x].phase \in {"idle", "calling"} => conn'[x].phase = "unborn"
                      /\ req'[x].phase \in {"acquiring"} \cup GivenPhases =>
                           req'[x].on \in Reqs /\ conn'[req'[x].on].phase # "unborn"
                      /\ req'[x].phase \in GivenPhases => Wrapped(conn'[req'[x].on])
                      /\ req'[x].phase = "queued" => conn'[req'[x].on].alpn = "h1"
    BY DEF LifeOK
  <2>1. /\ req[x].phase \in {"idle", "calling"} => conn[x].phase = "unborn"
        /\ req[x].phase \in {"acquiring"} \cup GivenPhases =>
             req[x].on \in Reqs /\ conn[req[x].on].phase # "unborn"
        /\ req[x].phase \in GivenPhases => Wrapped(conn[req[x].on])
        /\ req[x].phase = "queued" => conn[req[x].on].alpn = "h1"
    BY <1>2 DEF LifeOK
  <2>2. CASE x # r
    <3>1. req'[x] = req[x]
      BY <1>1, <2>2
    <3>2. req[x].phase \in {"acquiring"} \cup GivenPhases => req[x].on # r
      BY <1>1, <2>1
    <3>3. req[x].phase = "queued" => req[x].phase \in GivenPhases
      BY DEF GivenPhases, InUsePhases
    <3> QED BY <1>4, <2>1, <2>2, <3>1, <3>2, <3>3
  <2>3. CASE x = r
    BY <1>1, <1>5, <2>3 DEF GivenPhases, InUsePhases
  <2> QED BY <2>2, <2>3
<1>8. DedupedHandshakes'
  <2>1. (Unsettled(r))' /\ ~Unsettled(r) /\ \A d \in Reqs : d # r => ((Unsettled(d))' <=> Unsettled(d))
    BY <1>1, <1>4, <1>5 DEF Unsettled
  <2>2. \A d \in Reqs : conn[d].key \in Keys
    BY <1>2 DEF Conn
  <2>3. \A kk \in Keys : pending[kk] \in Reqs \cup {None} /\ pending[kk] # r
    BY <1>2, <2>1 DEF DedupedHandshakes
  <2>4. \A d \in Reqs : (Unsettled(d))' /\ ~conn'[d].fresh => pending'[conn'[d].key] = d
    <3> SUFFICES ASSUME NEW d \in Reqs, (Unsettled(d))', ~conn'[d].fresh
                 PROVE  pending'[conn'[d].key] = d
      OBVIOUS
    <3>1. CASE d = r
      BY <1>1, <1>2, <3>1
    <3>2. CASE d # r
      <4>1. pending[conn[d].key] = d /\ conn'[d].key = conn[d].key
        BY <1>2, <1>4, <2>1, <3>2 DEF DedupedHandshakes
      <4> QED BY <1>1, <1>2, <2>2, <4>1
    <3> QED BY <3>1, <3>2
  <2>5. ASSUME NEW kk \in Keys, pending'[kk] # None
        PROVE  \E d \in Reqs : d = pending'[kk] /\ (Unsettled(d))' /\ conn'[d].key = kk
    <3>1. CASE pending'[kk] = pending[kk]
      <4>1. /\ pending[kk] \in Reqs /\ pending[kk] # r
            /\ Unsettled(pending[kk]) /\ conn[pending[kk]].key = kk
        BY <1>2, <2>3, <2>5, <3>1 DEF DedupedHandshakes
      <4> QED BY <1>4, <2>1, <3>1, <4>1
    <3>2. CASE pending'[kk] = r /\ kk = k
      BY <1>1, <2>1, <3>2
    <3> QED BY <1>1, <1>2, <3>1, <3>2
  <2>6. \A d \in Reqs : (Unsettled(d))' <=>
           conn'[d].phase \in {"queued", "connecting", "hung", "ready",
                               "stored", "failing", "thrown"}
    BY DEF Unsettled
  <2>7. \A kk \in Keys : pending'[kk] # None =>
           /\ conn'[pending'[kk]].phase \in {"queued", "connecting", "hung", "ready",
                                             "stored", "failing", "thrown"}
           /\ conn'[pending'[kk]].key = kk
    BY <2>5, <2>6
  <2> QED BY <2>1, <2>4, <2>7 DEF DedupedHandshakes, Unsettled
<1>9. MapOK'
  <2> SUFFICES ASSUME NEW kk \in Keys
               PROVE  /\ connections'[kk] # None => Wrapped(conn'[connections'[kk]])
                      /\ pending'[kk] # None => connections'[kk] \in {None, pending'[kk]}
    BY DEF MapOK
  <2>1. /\ connections[kk] # None => Wrapped(conn[connections[kk]])
        /\ pending[kk] # None => connections[kk] \in {None, pending[kk]}
        /\ connections[kk] \in Reqs \cup {None}
    BY <1>2 DEF MapOK
  <2>2. CASE ~req[r].fresh /\ kk = k
    BY <1>1, <1>2, <2>2
  <2>3. CASE req[r].fresh \/ kk # k
    <3>1. connections'[kk] = connections[kk] /\ pending'[kk] = pending[kk]
      BY <1>1, <1>2, <2>3
    <3>2. connections[kk] # r
      BY <1>2, <1>5, <2>1
    <3> QED BY <1>4, <2>1, <3>1, <3>2
  <2> QED BY <2>2, <2>3
<1>10. CountOK'
  <2>1. Cardinality({}) = 0
    BY FS_EmptySet
  <2>2. \A d \in Reqs : IsFiniteSet(OnConn(d)) /\ conn[d].active = Cardinality(OnConn(d))
    BY <1>2 DEF CountOK
  <2>3. ASSUME NEW d \in Reqs
        PROVE  IsFiniteSet(OnConn(d)) /\ conn'[d].active = Cardinality(OnConn(d))
    <3>1. CASE d = r
      BY <1>1, <1>6, <2>1, <2>2, <3>1
    <3>2. CASE d # r
      BY <1>4, <2>2, <3>2
    <3> QED BY <3>1, <3>2
  <2> QED BY <1>6, <2>3 DEF CountOK
<1>11. ChainOK'
  <2> SUFFICES ASSUME NEW d \in Reqs
               PROVE  /\ ~Wrapped(conn'[d]) => chain[d] = <<>> /\ ~conn'[d].inFlight
                      /\ conn'[d].alpn = "h1" => QueueOK(chain[d], conn'[d].inFlight, OnConn(d), req')
    BY <1>3, <1>6 DEF ChainOK
  <2>1. CASE d = r
    BY <1>1, <1>2, <1>5, <2>1 DEF ChainOK
  <2>2. CASE d # r
    <3>1. /\ ~Wrapped(conn[d]) => chain[d] = <<>> /\ ~conn[d].inFlight
          /\ conn[d].alpn = "h1" => QueueOK(chain[d], conn[d].inFlight, OnConn(d), req)
      BY <1>2 DEF ChainOK
    <3>2. QueueOK(chain[d], conn[d].inFlight, OnConn(d), req)
            => QueueOK(chain[d], conn[d].inFlight, OnConn(d), req')
      BY <1>6 DEF QueueOK
    <3> QED BY <1>4, <2>2, <3>1, <3>2
  <2> QED BY <2>1, <2>2
<1>12. PICK R : R = Releasing(S)
  OBVIOUS
<1>13. /\ R \in SUBSET Holders /\ r \in Reqs \ Born
       /\ Holders' = (Holders \ R) \cup (IF Slots!HasRoom(h) THEN {r} ELSE {})
       /\ Born' = Born \cup {r}
  <2>1. R \in SUBSET Holders /\ r \in Reqs \ Born
    BY <1>1, <1>12 DEF Releasing, Holders, Born, Wrapped
  <2>2. \A d \in Reqs : d # r => (d \in Holders' <=> d \in Holders /\ d \notin R)
                                 /\ (d \in Born' <=> d \in Born)
    BY <1>4, <1>12 DEF Releasing, Holders, Born, Wrapped
  <2>3. r \notin Holders /\ r \in Born' /\ (r \in Holders' <=> Slots!HasRoom(h))
    BY <1>1 DEF Holders, Born
  <2>4. Holders \subseteq Reqs /\ Holders' \subseteq Reqs /\ Born \subseteq Reqs /\ Born' \subseteq Reqs
    BY DEF Holders, Born
  <2> QED BY <2>1, <2>2, <2>3, <2>4
<1>14. [Slots!Next]_Slots!slotVars
  BY <1>3, <1>12, <1>13, AcquireStep
<1>15. Sem!IInv'
  BY <1>2, <1>14, SemaphoreKept DEF SlotsOK
<1>16. SlotsOK'
  <2>1. Sem!HostOK(h) /\ Sem!Callers(h) = Sem!Callers(host)
    BY <1>2, <1>3, <1>12, <1>13, GiveBackHeld DEF SlotsOK
  <2>2. Sem!Callers(host) \subseteq Born /\ Born \subseteq Reqs
    BY <1>2 DEF SlotsOK, Sem!IInv, Born
  <2>3. host' = Sem!TakeSlot(h, r) /\ (Slots!HasRoom(h) <=> Sem!HasRoom(h))
    BY <1>3, SameOperators
  <2>4. r \notin Sem!Callers(h)
    BY <1>13, <2>1, <2>2
  <2>5. /\ Slots!HasRoom(h) => Sem!Callers(host') = Sem!Callers(host)
        /\ ~Slots!HasRoom(h) => Sem!Callers(host') = Sem!Callers(host) \cup {r}
    BY <2>1, <2>3, <2>4, Sem!TakeSlotKeeps, SemaphoreAssumption
  <2>6. \A d \in Sem!Callers(host') : conn'[d].phase = "queued"
    <3>1. \A d \in Sem!Callers(host) : d \in Reqs /\ d # r /\ conn[d].phase = "queued"
      BY <1>2, <2>1, <2>2, <2>4 DEF SlotsOK
    <3> QED BY <1>1, <1>4, <2>5, <3>1
  <2>7. \A d \in Reqs : conn'[d].released => Wrapped(conn'[d])
    BY <1>1, <1>2, <1>4 DEF SlotsOK
  <2>8. \A d \in Sem!Callers(host)' : conn'[d].phase = "queued"
    BY <2>6
  <2> QED BY <1>15, <2>7, <2>8 DEF SlotsOK
<1>17. TypeOK'
  <2>1. (host \in Slots!Host)'
    BY <1>15, HostTyped, PTL
  <2>2. pending' \in [Keys -> Reqs \cup {None}] /\ connections' \in [Keys -> Reqs \cup {None}]
    BY <1>1, <1>2
  <2>3. drain' \in BOOLEAN
    BY <1>2, <1>3 DEF TypeOK
  <2> QED BY <1>1, <1>2, <1>3, <2>1, <2>2, <2>3 DEF TypeOK
<1> QED BY <1>7, <1>8, <1>9, <1>10, <1>11, <1>14, <1>16, <1>17 DEF IInv

-----------------------------------------------------------------------------
(* The steps that are not quiet.                                           *)
HandshakeAction ==
  \E c \in Reqs : \/ Granted(c) \/ Made(c) \/ Thrown(c) \/ Settle(c)
                  \/ \E a \in Alpns : HandshakeReady(c, a)
                  \/ HandshakeFails(c) \/ PeerLeavesHandshake(c)
RequestAction ==
  \E r \in Reqs : Begin(r) \/ StartH1(r) \/ Finally(r)

LEMMA Kinds ==
  [Next]_vars => \/ QuietAction \/ HandshakeAction \/ RequestAction
                 \/ \E r \in Reqs : AcquireStarts(r)
<1>1. Program => QuietAction
  BY DEF QuietAction
<1>2. Microtask => \/ QuietAction \/ HandshakeAction \/ RequestAction
                   \/ \E r \in Reqs : AcquireStarts(r)
  BY DEF Microtask, Acquire, QuietAction, HandshakeAction, RequestAction
<1>3. Network => QuietAction \/ HandshakeAction
  <2>1. ASSUME NEW c \in Reqs, \/ \E a \in Alpns : HandshakeReady(c, a)
                               \/ HandshakeFails(c) \/ PeerLeavesHandshake(c)
        PROVE  HandshakeAction
    BY <2>1, Zenon DEF HandshakeAction
  <2>2. ASSUME NEW c \in Reqs, Goaway(c) \/ H2Fatal(c) \/ SocketClosed(c)
        PROVE  QuietAction
    BY <2>2 DEF QuietAction
  <2>3. ASSUME NEW r \in Reqs,
               \/ \E keep \in BOOLEAN : ResponseEnds(r, keep) \/ LocationThrows(r, keep)
               \/ StreamReset(r) \/ BadResponse(r)
        PROVE  QuietAction
    BY <2>3, Zenon DEF QuietAction
  <2> QED BY <2>1, <2>2, <2>3, Zenon DEF Network
<1>4. Timer => QuietAction
  BY DEF QuietAction
<1> QED BY <1>1, <1>2, <1>3, <1>4, Zenon DEF Next, QuietAction

LEMMA HandshakeActionIInv ==
  ASSUME IInv, HandshakeAction
  PROVE  IInv' /\ [Slots!Next]_Slots!slotVars
<1>1. ASSUME NEW c \in Reqs, Granted(c) \/ Thrown(c) \/ Settle(c)
      PROVE  IInv' /\ [Slots!Next]_Slots!slotVars
  BY <1>1, GrantedIInv, ThrownIInv, SettleIInv
<1>2. ASSUME NEW c \in Reqs, Made(c)
      PROVE  IInv' /\ [Slots!Next]_Slots!slotVars
  BY <1>2, HandshakeIInv DEF Made
<1>3. ASSUME NEW c \in Reqs, NEW a \in Alpns, HandshakeReady(c, a)
      PROVE  IInv' /\ [Slots!Next]_Slots!slotVars
  BY <1>3, HandshakeIInv DEF HandshakeReady
<1>4. ASSUME NEW c \in Reqs, HandshakeFails(c)
      PROVE  IInv' /\ [Slots!Next]_Slots!slotVars
  BY <1>4, HandshakeIInv DEF HandshakeFails
<1>5. ASSUME NEW c \in Reqs, PeerLeavesHandshake(c)
      PROVE  IInv' /\ [Slots!Next]_Slots!slotVars
  BY <1>5, HandshakeIInv DEF PeerLeavesHandshake
<1> QED BY <1>1, <1>2, <1>3, <1>4, <1>5 DEF HandshakeAction

LEMMA IInvStep ==
  ASSUME IInv, [Next]_vars
  PROVE  IInv' /\ [Slots!Next]_Slots!slotVars
<1>1. ASSUME QuietAction PROVE IInv' /\ [Slots!Next]_Slots!slotVars
  <2>1. PICK S \in SUBSET Reqs : QuietStep(S)
    BY <1>1, QuietSteps
  <2> QED BY <2>1, QuietIInv
<1>2. ASSUME RequestAction PROVE IInv' /\ [Slots!Next]_Slots!slotVars
  BY <1>2, BeginIInv, StartIInv, FinallyIInv DEF RequestAction
<1> QED BY <1>1, <1>2, HandshakeActionIInv, StartsIInv, Kinds

LEMMA IInvInit ==
  ASSUME Init
  PROVE  IInv /\ Slots!Init
<1>1. /\ host = Slots!NoHost /\ connections = [k \in Keys |-> None]
      /\ pending = [k \in Keys |-> None] /\ conn = [c \in Reqs |-> Unborn]
      /\ chain = [c \in Reqs |-> <<>>] /\ req = [r \in Reqs |-> IdleReq] /\ drain = FALSE
  BY DEF Init
<1>2. (CHOOSE k \in Keys : TRUE) \in Keys
  BY PoolAssumption
<1>3. Unborn \in Conn /\ Unborn.phase = "unborn" /\ ~Unborn.released /\ ~Unborn.inFlight
      /\ Unborn.alpn = "h2" /\ Unborn.active = 0
  BY <1>2 DEF Unborn, Conn, ConnPhases
<1>4. IdleReq \in Req /\ IdleReq.phase = "idle"
  BY <1>2 DEF IdleReq, Req, ReqPhases
<1>5. Holders = {} /\ Born = {}
  BY <1>1, <1>3 DEF Holders, Born
<1>6. Slots!Init
  BY <1>1, <1>5 DEF Slots!Init, Holders, Born
<1>7. Sem!IInv
  <2>1. Sem!Init
    BY <1>1, <1>5, SameOperators DEF Sem!Init
  <2> QED BY <2>1, Sem!IInvInit, SemaphoreAssumption
<1>8. TypeOK
  <2>1. chain \in [Reqs -> Seq(Reqs)]
    BY <1>1, EmptySeq
  <2>2. host \in Slots!Host
    BY <1>7, HostTyped
  <2> QED BY <1>1, <1>3, <1>4, <2>1, <2>2 DEF TypeOK
<1>9. LifeOK /\ DedupedHandshakes /\ MapOK
  BY <1>1, <1>3, <1>4 DEF LifeOK, DedupedHandshakes, MapOK, Unsettled, GivenPhases, InUsePhases
<1>10. \A c \in Reqs : OnConn(c) = {}
  BY <1>1, <1>4 DEF OnConn
<1>11. CountOK
  BY <1>1, <1>3, <1>10, FS_EmptySet DEF CountOK
<1>12. ChainOK
  BY <1>1, <1>3 DEF ChainOK
<1>13. SlotsOK
  <2>1. Sem!Callers(host) = {}
    <3>1. Sem!Callers(host) \subseteq Born
      BY <1>7 DEF Sem!IInv
    <3> QED BY <1>5, <3>1
  <2>2. \A c \in Reqs : ~conn[c].released
    BY <1>1, <1>3
  <2> QED BY <1>7, <2>1, <2>2 DEF SlotsOK
<1> QED BY <1>6, <1>8, <1>9, <1>11, <1>12, <1>13 DEF IInv

LEMMA Invariance == Spec => []IInv
<1>1. Init => IInv
  BY IInvInit
<1>2. IInv /\ [Next]_vars => IInv'
  BY IInvStep
<1> QED BY <1>1, <1>2, PTL DEF Spec

-----------------------------------------------------------------------------
(* The pool, its connections and its requests keep their types (pool.js    *)
(* 22-58, 79-97; client.js 98-205).                                        *)
THEOREM PoolTypes == Spec => []TypeOK
<1>1. IInv => TypeOK
  BY DEF IInv
<1> QED BY <1>1, Invariance, PTL

(* However requests, closes, failures and drains interleave, pool.pending  *)
(* holds for every key exactly the key's shared attempt that has not       *)
(* settled: requests for a key share one handshake (pool.js 109-126,       *)
(* 146-153).                                                               *)
THEOREM OneHandshakePerKey == Spec => []DedupedHandshakes
<1>1. IInv => DedupedHandshakes
  BY DEF IInv
<1> QED BY <1>1, Invariance, PTL

(* activeRequests, on which shutdown relies, is the number of requests on  *)
(* the connection, in every way a request can end (client.js 176, 203).    *)
THEOREM ActiveIsCounted == Spec => []ActiveCounted
<1>1. IInv => ActiveCounted
  BY DEF IInv, CountOK, ActiveCounted
<1> QED BY <1>1, Invariance, PTL

(* A queue whose elements are distinct is as long as they are many.        *)
LEMMA DistinctLength ==
  ASSUME NEW s \in Seq(Reqs), Distinct(s)
  PROVE  Len(s) = Cardinality(Elements(s))
<1> DEFINE n == Len(s)
<1>1. n \in Nat /\ s \in [1 .. n -> Reqs] /\ DOMAIN s = 1 .. n
  BY LenProperties
<1>2. s \in Bijection(1 .. n, Elements(s))
  <2>1. s \in [1 .. n -> Elements(s)]
    BY <1>1 DEF Elements
  <2>2. \A e \in Elements(s) : \E i \in 1 .. n : s[i] = e
    BY <1>1 DEF Elements
  <2>3. IsInjective(s)
    BY DEF Distinct, IsInjective
  <2> QED BY <1>1, <2>1, <2>2, <2>3 DEF Bijection, Surjection, Injection
<1>3. IsFiniteSet(1 .. n) /\ Cardinality(1 .. n) = n
  <2> HIDE DEF n
  <2>1. 1 \in Int /\ n \in Int /\ n \in Nat
    BY <1>1
  <2>2. IsFiniteSet(1 .. n) /\ Cardinality(1 .. n) = IF 1 > n THEN 0 ELSE n - 1 + 1
    BY <2>1, FS_Interval
  <2> QED BY <2>1, <2>2
<1> QED BY <1>2, <1>3, FS_Bijection DEF ExistsBijection

(* An h1 connection carries one request at a time: its queue is who is on  *)
(* it, each once, and the head alone has been written, if h1InFlight says  *)
(* so (client.js 180-201).                                                 *)
THEOREM OneRequestOnTheWire == Spec => []H1Exclusive
<1>1. ASSUME IInv PROVE H1Exclusive
  <2> SUFFICES ASSUME NEW c \in Reqs, conn[c].alpn = "h1"
               PROVE  /\ {chain[c][i] : i \in DOMAIN chain[c]} = OnConn(c)
                      /\ Len(chain[c]) = Cardinality(OnConn(c))
                      /\ {r \in OnConn(c) : req[r].phase # "queued"} =
                           IF conn[c].inFlight THEN {Head(chain[c])} ELSE {}
    BY DEF H1Exclusive
  <2>1. /\ chain[c] \in Seq(Reqs) /\ Distinct(chain[c]) /\ Elements(chain[c]) = OnConn(c)
        /\ conn[c].inFlight => chain[c] # <<>>
        /\ \A r \in OnConn(c) : req[r].phase # "queued" <=> conn[c].inFlight /\ r = Head(chain[c])
    BY <1>1 DEF IInv, TypeOK, ChainOK, QueueOK
  <2>2. conn[c].inFlight => Head(chain[c]) \in OnConn(c)
    BY <2>1, HeadOn
  <2>3. {r \in OnConn(c) : req[r].phase # "queued"} =
          IF conn[c].inFlight THEN {Head(chain[c])} ELSE {}
    BY <2>1, <2>2
  <2>4. Len(chain[c]) = Cardinality(OnConn(c))
    BY <2>1, DistinctLength
  <2>5. {chain[c][i] : i \in DOMAIN chain[c]} = OnConn(c)
    BY <2>1 DEF Elements
  <2> QED BY <2>3, <2>4, <2>5
<1> QED BY <1>1, Invariance, PTL

(* The pool implements the semaphore's environment: every step of the pool *)
(* is a step of HostSlots, or none.  So what is proved of the semaphore    *)
(* holds of the pool (pool.js 127-143, 264-267).                           *)
THEOREM PoolUsesSlots == Spec => UsesSlots
<1>1. Init => Slots!Init
  BY IInvInit
<1>2. IInv /\ [Next]_vars => [Slots!Next]_Slots!slotVars
  BY IInvStep
<1> QED BY <1>1, <1>2, Invariance, PTL DEF Spec, UsesSlots, Slots!Spec

(* So, of the pool: while a request queues for a slot its entry is kept    *)
(* and its slots are counted or on their way to a caller that was          *)
(* resolved, nobody both waits and holds, and the count never exceeds the  *)
(* slots held (pool.js 79-97).                                             *)
THEOREM SlotsAreSound ==
  Spec => [](Sem!NoLostWakeup /\ Sem!OnePlace /\ Sem!CountNeverExceedsHolders)
<1>1. IInv => Sem!NoLostWakeup /\ Sem!OnePlace /\ Sem!CountNeverExceedsHolders
  BY Sem!IInvImplies, SemaphoreAssumption DEF IInv, SlotsOK
<1> QED BY <1>1, Invariance, PTL

(* What leaves the map has been closed, or a GOAWAY took it out (pool.js   *)
(* 119-122, 137, 259-267).                                                 *)
THEOREM NothingIsForgotten == Spec => LeavesMapClosed
<1> DEFINE Kept == \A k \in Keys :
                     connections[k] # None /\ connections'[k] # connections[k]
                       => conn'[connections[k]].closed \/ \E c \in Reqs : Goaway(c)
<1>1. ASSUME IInv, QuietAction PROVE Kept
  <2>1. PICK S \in SUBSET Reqs : QuietStep(S)
    BY <1>1, QuietSteps
  <2>2. \A k \in Keys : connections[k] \in S => conn'[connections[k]].closed
    BY <2>1 DEF QuietStep, Quiet
  <2> QED BY <2>1, <2>2 DEF QuietStep
<1>2. ASSUME IInv, HandshakeAction PROVE Kept
  <2>1. CASE connections' = connections
    BY <2>1
  <2>2. ASSUME NEW c \in Reqs, Made(c) PROVE Kept
    <3>1. /\ conn[c].phase = "ready" /\ connections' = MapWith(c)
          /\ DedupedHandshakes /\ MapOK /\ conn[c] \in Conn
          /\ connections \in [Keys -> Reqs \cup {None}]
      BY <1>2, <2>2 DEF Made, IInv, TypeOK
    <3>2. CASE conn[c].fresh
      BY <3>1, <3>2 DEF MapWith
    <3>3. CASE ~conn[c].fresh
      <4>1. pending[conn[c].key] = c /\ conn[c].key \in Keys /\ None # c
        BY <3>1, <3>3, PoolAssumption DEF DedupedHandshakes, Unsettled, Conn
      <4>2. connections[conn[c].key] = None
        BY <3>1, <4>1 DEF MapOK, Wrapped
      <4> QED BY <3>1, <3>3, <4>1, <4>2 DEF MapWith
    <3> QED BY <3>2, <3>3
  <2> QED BY <1>2, <2>1, <2>2 DEF HandshakeAction, Granted, Thrown, Settle, HandshakeReady,
             HandshakeFails, PeerLeavesHandshake
<1>3. ASSUME IInv, RequestAction PROVE Kept
  <2>1. connections' = connections
    BY <1>3 DEF RequestAction, Begin, StartH1, Finally
  <2> QED BY <2>1
<1>4. ASSUME IInv, NEW r \in Reqs, AcquireStarts(r) PROVE Kept
  <2>0. PICK k, S, g, h : /\ k = req[r].key /\ S = Stale(r) /\ g = ConnsAfterClose(S)
                          /\ h = SlotsAfterClose(S)
    OBVIOUS
  <2>1. /\ k \in Keys /\ S \subseteq Reqs /\ r \notin S
        /\ \A d \in Reqs \ {r} : conn'[d] = g[d]
        /\ connections' = IF req[r].fresh THEN connections ELSE [connections EXCEPT ![k] = None]
    BY <1>4, <2>0, StartsEffects
  <2>2. conn \in [Reqs -> Conn] /\ connections \in [Keys -> Reqs \cup {None}]
    BY <1>4 DEF IInv, TypeOK
  <2>3. \A d \in S : conn'[d].closed
    <3>1. \A c \in Reqs :
            LET d == ConnsAfterClose(S)[c]
            IN /\ d.phase = conn[c].phase /\ d.key = conn[c].key
               /\ d.fresh = conn[c].fresh /\ d.alpn = conn[c].alpn
               /\ d.inFlight = conn[c].inFlight /\ d.active = conn[c].active
               /\ d.idle = conn[c].idle
               /\ d.closed <=> conn[c].closed \/ c \in S
               /\ d.released <=> conn[c].released \/ (c \in S /\ Wrapped(conn[c]))
      BY <2>1, <2>2, CloseEffects
    <3> QED BY <2>0, <2>1, <3>1
  <2>4. ~req[r].fresh => S = {connections[k]} \ {None}
    BY <1>4, <2>0 DEF AcquireStarts, Stale
  <2> QED BY <2>1, <2>2, <2>3, <2>4
<1>5. IInv /\ [Next]_vars => [Kept]_vars
  BY <1>1, <1>2, <1>3, <1>4, Kinds
<1> QED BY <1>5, Invariance, PTL DEF Spec, LeavesMapClosed

(* A drain that ends before its deadline closes no connection that a       *)
(* request has been given: with no microtask due no request is handed one, *)
(* and one that is on a connection is counted in its activeRequests        *)
(* (pool.js 279-286).                                                      *)
THEOREM DrainIsGentle == Spec => DrainCutsNobody
<1> DEFINE Gentle == DrainPoll(FALSE) =>
                       \A r \in Reqs : GivenOpen(r) => ~conn'[req[r].on].closed
<1>1. ASSUME IInv PROVE Gentle
  <2> SUFFICES ASSUME DrainPoll(FALSE), NEW r \in Reqs, GivenOpen(r)
               PROVE  ~conn'[req[r].on].closed
    OBVIOUS
  <2>1. PICK c : c = req[r].on
    OBVIOUS
  <2>2. /\ Drained /\ NothingInFlight /\ conn' = ConnsAfterClose(Mapped)
        /\ req[r].phase \in {"handed", "queued", "active"} /\ ~conn[c].closed
    BY <2>1 DEF DrainPoll, ClearPool, GivenOpen
  <2>3. req[r].phase \in {"queued", "active"}
    BY <2>2 DEF Drained
  <2>4. c \in Reqs /\ r \in OnConn(c)
    BY <1>1, <2>1, <2>3 DEF IInv, LifeOK, GivenPhases, InUsePhases, OnConn
  <2>5. conn[c].active # 0
    BY <1>1, <2>4, FS_EmptySet DEF IInv, CountOK
  <2>6. c \notin Mapped
    BY <2>2, <2>5 DEF NothingInFlight
  <2>7. conn'[c] = conn[c]
    BY <2>2, <2>4, <2>6 DEF ConnsAfterClose
  <2> QED BY <2>1, <2>2, <2>7
<1>2. IInv /\ [Next]_vars => [Gentle]_vars
  BY <1>1
<1> QED BY <1>2, Invariance, PTL DEF Spec, DrainCutsNobody
=============================================================================
