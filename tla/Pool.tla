------------------------------- MODULE Pool -------------------------------
(***************************************************************************)
(* The connection pool (lib/pool.js) and the part of a request that uses   *)
(* it (performRequest, performH2 and performH1 of lib/client.js), for one  *)
(* host:port over TCP.                                                     *)
(*                                                                         *)
(* Everything runs on one JavaScript thread.  A step is one synchronous    *)
(* run of code:                                                            *)
(*   - a call by the program (request, closeAll, shutdown), which may come *)
(*     at any time, also from a microtask of its own;                      *)
(*   - a microtask, the continuation of an await;                          *)
(*   - an event (socket, timer), which Node delivers only when no          *)
(*     microtask is pending (Drained).                                     *)
(* Pending microtasks run in any order: chains of promises of different    *)
(* lengths interleave.                                                     *)
(*                                                                         *)
(* A connection is named by the request whose acquire started it, so Reqs  *)
(* names both.  Every call of request is a new element of Reqs; a redirect *)
(* is a request made by a request.                                         *)
(***************************************************************************)
EXTENDS Integers, Sequences, FiniteSets

CONSTANTS
  Reqs,            \* requests, and the connections they start
  Keys,            \* pool keys (profile, proxy) of the one host
  None,
  MaxPerHost,      \* pool.maxPerHost
  Alpns,           \* what servers negotiate: a subset of {"h1", "h2"}
  FreshAllowed,    \* values of forceFresh (forever: false) the program uses
  Stops,           \* what else it calls: a subset of {"closeAll", "shutdown"}
  Timeouts         \* opts.timeouts (connect, tlsHandshake, response) are set

ASSUME PoolAssumption ==
  /\ MaxPerHost \in Nat \ {0}
  /\ None \notin Reqs /\ Keys # {}
  /\ Alpns \subseteq {"h1", "h2"}
  /\ FreshAllowed \subseteq BOOLEAN
  /\ Stops \subseteq {"closeAll", "shutdown"}
  /\ Timeouts \in BOOLEAN

VARIABLES
  host,          \* the host's slots, see HostSlots
  connections,   \* pool.connections: key -> connection
  pending,       \* pool.pending: key -> attempt whose promise is stored
  conn,          \* PooledConnection and its attempt, per connection
  chain,         \* conn._h1Chain: requests queued on an h1 connection, head first
  req,           \* the request's progress through performRequest
  drain          \* shutdown() is polling: pool._draining

vars == <<host, connections, pending, conn, chain, req, drain>>

(***************************************************************************)
(* Phases of a connection:                                                 *)
(*   unborn -> queued (in _acquireSlot) -> connecting (in _create)         *)
(*     -> ready (onReady ran) -> stored (the continuation of _create ran)  *)
(*     -> up (the promise of acquire has settled)                          *)
(*   connecting -> failing (fail ran) -> thrown (slot released) -> dead    *)
(*   connecting -> hung: the server closed the TCP connection              *)
(***************************************************************************)
ConnPhases == {"unborn", "queued", "connecting", "hung", "ready", "stored",
               "up", "failing", "thrown", "dead"}

(***************************************************************************)
(* Phases of a request:                                                    *)
(*   idle -> calling (about to call acquire) -> acquiring (awaits it)      *)
(*     -> handed (got a connection, its continuation is due)               *)
(*     -> queued (h1: awaits the previous request) -> active (on the wire) *)
(*     -> settling (response or error seen, the finally blocks are due)    *)
(*     -> done;  active -> redirecting (awaits the request it made)        *)
(*               active -> lost (an exception left its promise behind)     *)
(***************************************************************************)
ReqPhases == {"idle", "calling", "acquiring", "handed", "queued", "active",
              "redirecting", "lost", "settling", "done"}

Conn == [phase : ConnPhases,
         key : Keys,
         fresh : BOOLEAN,        \* forceFresh
         alpn : {"h1", "h2"},
         closed : BOOLEAN,       \* conn.closed; for h2 also session.closed
         released : BOOLEAN,     \* the flag of the wrapped close
         sock : {"open", "closing", "gone"},  \* closing: destroyed, 'close' is due
         idle : BOOLEAN,         \* conn.idleTimer is set
         inFlight : BOOLEAN,     \* conn.h1InFlight
         active : Nat]           \* conn.activeRequests

Req == [phase : ReqPhases,
        on : Reqs \cup {None},       \* the connection, or the attempt awaited
        child : Reqs \cup {None},    \* the request made to follow a redirect
        key : Keys,
        fresh : BOOLEAN]

Slots == INSTANCE HostSlots WITH
  Attempts <- Reqs,
  holders <- {c \in Reqs :
                /\ conn[c].phase \in {"connecting", "hung", "ready", "stored",
                                      "up", "failing"}
                /\ ~conn[c].released},
  used <- {c \in Reqs : conn[c].phase # "unborn"}

-----------------------------------------------------------------------------
(* Reading the state.                                                      *)

Wrapped(cn) == cn.phase \in {"stored", "up"}

(* PooledConnection.canIssueRequest, pool.js 53-58.  An h2 session that is *)
(* closed or destroyed has closed its connection too (pool.js 216-221).    *)
CanIssue(c) == ~conn[c].closed /\ (conn[c].alpn = "h1" => ~conn[c].inFlight)

Mapped == {connections[k] : k \in Keys} \ {None}

(* The next request of an h1 connection may go: its predecessor has called *)
(* releaseH1 (client.js 185-189, 200).                                     *)
StartableUnchained(r) == req[r].phase = "queued"
Startable(r) == req[r].phase = "queued" /\ Head(chain[req[r].on]) = r

(* The request made for a redirect has settled, and with it performH1 or   *)
(* performH2 of the request that made it (client.js 584).                  *)
Returned(r) ==
  \/ req[r].phase = "settling"
  \/ req[r].phase = "redirecting" /\ req[req[r].child].phase = "done"

(* request, closeAll and shutdown run on an empty call stack or from a     *)
(* microtask, never inside another step.                                   *)
NotCalling == \A r \in Reqs : req[r].phase # "calling"

(* No microtask is pending, so that Node may deliver an event.             *)
Drained ==
  /\ NotCalling
  /\ Slots!Drained(host)
  /\ \A c \in Reqs : conn[c].phase \notin {"ready", "stored", "failing", "thrown"}
  /\ \A r \in Reqs :
       req[r].phase # "handed" /\ ~Startable(r) /\ ~Returned(r)

(* shutdown's test, pool.js 280-283.                                       *)
NothingPending == \A k \in Keys : pending[k] = None
NothingInFlight ==
  /\ \A c \in Mapped : conn[c].active = 0
  /\ \A k \in Keys : pending[k] = None

-----------------------------------------------------------------------------
(* Closing the connections S: PooledConnection.close (pool.js 45-51) under *)
(* the wrapper that gives the slot back once (pool.js 138-143).            *)

ReleasingAgain(S) == {c \in S : Wrapped(conn[c])}
Releasing(S) == {c \in S : Wrapped(conn[c]) /\ ~conn[c].released}

ClosedConn(cn) ==
  [cn EXCEPT !.closed = TRUE,
             !.released = @ \/ Wrapped(cn),
             !.sock = IF ~cn.closed /\ @ = "open" THEN "closing" ELSE @]

ConnsAfterClose(S) ==
  [c \in Reqs |-> IF c \in S THEN ClosedConn(conn[c]) ELSE conn[c]]

SlotsAfterClose(S) == Slots!GiveBack(host, Cardinality(Releasing(S)))

(* Closing an open h2 connection closes its session, whose 'close' event   *)
(* evicts it at once (pool.js 48, 216).  An h1 connection stays in the map *)
(* until its socket says 'close' (pool.js 226).                            *)
MapAfterClose(S) ==
  [k \in Keys |->
     IF connections[k] \in {c \in S : conn[c].alpn = "h2" /\ ~conn[c].closed}
       THEN None ELSE connections[k]]

(* pool.js 259-262: out of the map if it is there, and closed.             *)
MapAfterEvict(c) ==
  [k \in Keys |-> IF connections[k] = c THEN None ELSE connections[k]]

-----------------------------------------------------------------------------
(* Small steps of a request on its connection c.                           *)

(* client.js 176 and 203.                                                  *)
Enter(c) == [conn EXCEPT ![c].active = @ + 1]

LeaveUncounted(c) == conn
Leave(c) == [conn EXCEPT ![c].active = @ - 1]

(* releaseH1 (client.js 200): the request at the head is done.             *)
ChainStuck(c) == chain
ChainAdvanced(c) == [chain EXCEPT ![c] = SubSeq(@, 2, Len(@))]

(* markUsed and scheduleIdleClose (client.js 304-305, 463-464).            *)
KeepWarmUntimed(c) == conn
KeepWarm(c) == [conn EXCEPT ![c].idle = TRUE]

(* pool.js 146-147; and the slip its comment warns of (pool.js 109-113),   *)
(* storing the promise only when the slot has been granted.                *)
PendingWhenGranted(r, k) ==
  IF Slots!HasRoom(host) THEN [pending EXCEPT ![k] = r] ELSE pending
PendingWith(r, k) == [pending EXCEPT ![k] = r]

(* pool.js 137: a forever: false connection is not stored.                 *)
MapWith(c) ==
  IF conn[c].fresh THEN connections ELSE [connections EXCEPT ![conn[c].key] = c]

-----------------------------------------------------------------------------
Unborn == [phase |-> "unborn", key |-> CHOOSE k \in Keys : TRUE,
           fresh |-> FALSE, alpn |-> "h2", closed |-> FALSE,
           released |-> FALSE, sock |-> "open", idle |-> FALSE,
           inFlight |-> FALSE, active |-> 0]

IdleReq == [phase |-> "idle", on |-> None, child |-> None,
            key |-> CHOOSE k \in Keys : TRUE, fresh |-> FALSE]

DoneReq == [IdleReq EXCEPT !.phase = "done"]

Init ==
  /\ host = Slots!NoHost
  /\ connections = [k \in Keys |-> None]
  /\ pending = [k \in Keys |-> None]
  /\ conn = [c \in Reqs |-> Unborn]
  /\ chain = [c \in Reqs |-> <<>>]
  /\ req = [r \in Reqs |-> IdleReq]
  /\ drain = FALSE

-----------------------------------------------------------------------------
(* Calls by the program.                                                   *)

(* request(opts): performRequest runs synchronously up to acquire          *)
(* (client.js 98-132), whose outcome is the next step.                     *)
Call(r, k, f) ==
  /\ NotCalling
  /\ req[r].phase = "idle"
  /\ req' = [req EXCEPT ![r].phase = "calling", ![r].key = k, ![r].fresh = f]
  /\ UNCHANGED <<host, connections, pending, conn, chain, drain>>

(* The fast path of acquire is open to r (pool.js 113-118).                *)
Reusable(r) ==
  /\ ~req[r].fresh
  /\ connections[req[r].key] # None
  /\ CanIssue(connections[req[r].key])

(* The connection r's acquire closes as stale (pool.js 119-122).           *)
StaleLeftOpen(r) == {}
Stale(r) ==
  IF req[r].fresh \/ Reusable(r) THEN {} ELSE {connections[req[r].key]} \ {None}

(* pool.js 100-103: refused while shutdown drains the pool.                *)
AcquireRefused(r) ==
  /\ req[r].phase = "calling"
  /\ drain
  /\ req' = [req EXCEPT ![r] = DoneReq]
  /\ UNCHANGED <<host, connections, pending, conn, chain, drain>>

(* pool.js 114-118: the pooled connection, its idle timer cleared.         *)
AcquirePooled(r) ==
  /\ req[r].phase = "calling"
  /\ ~drain
  /\ Reusable(r)
  /\ LET c == connections[req[r].key]
     IN /\ conn' = [conn EXCEPT ![c].idle = FALSE]
        /\ req' = [req EXCEPT ![r].phase = "handed", ![r].on = c]
  /\ UNCHANGED <<host, connections, pending, chain, drain>>

(* pool.js 119-124: a stale connection is dropped, and the request joins   *)
(* the handshake under way for its key.                                    *)
AcquireJoins(r) ==
  LET k == req[r].key
  IN /\ req[r].phase = "calling"
     /\ ~drain
     /\ ~req[r].fresh /\ ~Reusable(r)
     /\ pending[k] # None
     /\ conn' = ConnsAfterClose(Stale(r))
     /\ host' = SlotsAfterClose(Stale(r))
     /\ connections' = [connections EXCEPT ![k] = None]
     /\ req' = [req EXCEPT ![r].phase = "acquiring", ![r].on = pending[k]]
     /\ UNCHANGED <<pending, chain, drain>>

(* pool.js 119-122, 127, 146-147: a stale connection is dropped, a slot is *)
(* taken or queued for, and the promise is stored unless forever is false. *)
AcquireStarts(r) ==
  LET k == req[r].key
      h == SlotsAfterClose(Stale(r))
      born == [Unborn EXCEPT
                 !.phase = IF Slots!HasRoom(h) THEN "connecting" ELSE "queued",
                 !.key = k, !.fresh = req[r].fresh]
  IN /\ req[r].phase = "calling"
     /\ ~drain
     /\ req[r].fresh \/ (~Reusable(r) /\ pending[k] = None)
     /\ conn' = [ConnsAfterClose(Stale(r)) EXCEPT ![r] = born]
     /\ host' = Slots!TakeSlot(h, r)
     /\ connections' = IF req[r].fresh THEN connections
                       ELSE [connections EXCEPT ![k] = None]
     /\ pending' = IF req[r].fresh THEN pending ELSE PendingWith(r, k)
     /\ req' = [req EXCEPT ![r].phase = "acquiring", ![r].on = r]
     /\ UNCHANGED <<chain, drain>>

(* pool.js 264-267: every pooled connection is closed, the map cleared.    *)
ClearPool ==
  /\ conn' = ConnsAfterClose(Mapped)
  /\ host' = SlotsAfterClose(Mapped)
  /\ connections' = [k \in Keys |-> None]

CloseAll ==
  /\ "closeAll" \in Stops
  /\ NotCalling
  /\ Mapped # {}
  /\ ClearPool
  /\ UNCHANGED <<pending, chain, req, drain>>

(* pool.js 276-288, first pass of the loop: with nothing in flight the     *)
(* pool is cleared at once, otherwise the pool refuses requests and polls. *)
Shutdown ==
  /\ "shutdown" \in Stops
  /\ NotCalling
  /\ ~drain
  /\ \/ /\ NothingInFlight
        /\ Mapped # {}
        /\ ClearPool
        /\ UNCHANGED drain
     \/ /\ ~NothingInFlight
        /\ drain' = TRUE
        /\ UNCHANGED <<host, connections, conn>>
  /\ UNCHANGED <<pending, chain, req>>

-----------------------------------------------------------------------------
(* Microtasks.                                                             *)

(* A caller resolved by _releaseSlot counts itself in and starts its       *)
(* handshake (pool.js 86, 127-132).                                        *)
Granted(c) ==
  /\ NotCalling
  /\ c \in host.woken \cup host.orphans
  /\ host' = Slots!Resumed(host, c)
  /\ conn' = [conn EXCEPT ![c].phase = "connecting"]
  /\ UNCHANGED <<connections, pending, chain, req, drain>>

(* The handshake's promise continues: the connection enters the map unless *)
(* forever is false, and close is wrapped (pool.js 137-144).               *)
Made(c) ==
  /\ NotCalling
  /\ conn[c].phase = "ready"
  /\ conn' = [conn EXCEPT ![c].phase = "stored"]
  /\ connections' = MapWith(c)
  /\ UNCHANGED <<host, pending, chain, req, drain>>

(* The handshake failed: its slot is given back (pool.js 133-136).         *)
Thrown(c) ==
  /\ NotCalling
  /\ conn[c].phase = "failing"
  /\ conn' = [conn EXCEPT ![c].phase = "thrown"]
  /\ host' = Slots!GiveBack(host, 1)
  /\ UNCHANGED <<connections, pending, chain, req, drain>>

(* acquire's promise settles: it leaves pool.pending (pool.js 150-153) and *)
(* every request that awaits it continues, or fails (client.js 132-155).   *)
Settle(c) ==
  /\ NotCalling
  /\ conn[c].phase \in {"stored", "thrown"}
  /\ LET ok == conn[c].phase = "stored"
     IN /\ conn' = [conn EXCEPT ![c].phase = IF ok THEN "up" ELSE "dead"]
        /\ pending' = [k \in Keys |-> IF pending[k] = c THEN None ELSE pending[k]]
        /\ req' = [r \in Reqs |->
                     IF req[r].phase = "acquiring" /\ req[r].on = c
                       THEN IF ok THEN [req[r] EXCEPT !.phase = "handed"] ELSE DoneReq
                       ELSE req[r]]
  /\ UNCHANGED <<host, connections, chain, drain>>

(* performRequest continues with its connection (client.js 176-188): an h2 *)
(* request goes out, whatever has become of the session; an h1 request     *)
(* queues behind the connection's other requests.                          *)
Begin(r) ==
  LET c == req[r].on
  IN /\ NotCalling
     /\ req[r].phase = "handed"
     /\ conn' = Enter(c)
     /\ IF conn[c].alpn = "h2"
          THEN /\ req' = [req EXCEPT ![r].phase = "active"]
               /\ UNCHANGED chain
          ELSE /\ req' = [req EXCEPT ![r].phase = "queued"]
               /\ chain' = [chain EXCEPT ![c] = Append(@, r)]
     /\ UNCHANGED <<host, connections, pending, drain>>

(* The predecessor is done (client.js 190-195): write the request, or fail *)
(* with ECONNRESET if the connection was closed meanwhile.                 *)
StartH1(r) ==
  LET c == req[r].on
  IN /\ NotCalling
     /\ Startable(r)
     /\ IF conn[c].closed
          THEN /\ req' = [req EXCEPT ![r] = DoneReq]
               /\ chain' = ChainAdvanced(c)
               /\ conn' = Leave(c)
          ELSE /\ req' = [req EXCEPT ![r].phase = "active"]
               /\ conn' = [conn EXCEPT ![c].inFlight = TRUE]
               /\ UNCHANGED chain
     /\ UNCHANGED <<host, connections, pending, drain>>

(* The finally blocks (client.js 197-204): the next h1 request may go and  *)
(* the connection has one request less.                                    *)
Finally(r) ==
  LET c == req[r].on
  IN /\ NotCalling
     /\ Returned(r)
     /\ req' = [req EXCEPT ![r] = DoneReq]
     /\ conn' = [Leave(c) EXCEPT ![c].inFlight = FALSE]
     /\ chain' = IF conn[c].alpn = "h1" THEN ChainAdvanced(c) ELSE chain
     /\ UNCHANGED <<host, connections, pending, drain>>

-----------------------------------------------------------------------------
(* Events of a handshake.                                                  *)

(* 'ready' or 'ready-http1' (pool.js 207-231).                             *)
HandshakeReady(c, a) ==
  /\ conn[c].phase = "connecting"
  /\ Drained
  /\ conn' = [conn EXCEPT ![c].phase = "ready", ![c].alpn = a]
  /\ UNCHANGED <<host, connections, pending, chain, req, drain>>

(* 'error' of the TLS layer, or a per-phase timer (pool.js 200-206,        *)
(* 232-255): only a timer ends a handshake whose peer went away.           *)
HandshakeFails(c) ==
  /\ conn[c].phase = "connecting" \/ (Timeouts /\ conn[c].phase = "hung")
  /\ Drained
  /\ conn' = [conn EXCEPT ![c].phase = "failing", ![c].sock = "gone"]
  /\ UNCHANGED <<host, connections, pending, chain, req, drain>>

(* The peer closes the TCP connection during the handshake: the 'close'    *)
(* handler of tls.js 297-300 has no session to close and reports nothing.  *)
PeerLeavesHandshake(c) ==
  /\ conn[c].phase = "connecting"
  /\ Drained
  /\ conn' = [conn EXCEPT ![c].phase = "hung"]
  /\ UNCHANGED <<host, connections, pending, chain, req, drain>>

-----------------------------------------------------------------------------
(* Events of a connection.                                                 *)

(* GOAWAY: the connection takes no more requests, and the entry of its key *)
(* leaves the map (pool.js 217-221; h2/session.js 319-324).  The frame may *)
(* come in the same chunk as the end of the handshake.                     *)
Goaway(c) ==
  /\ NotCalling
  /\ conn[c].phase \in {"ready", "up"}
  /\ Drained \/ conn[c].phase = "ready"
  /\ conn[c].alpn = "h2" /\ conn[c].sock = "open"
  /\ conn' = [conn EXCEPT ![c].closed = TRUE]
  /\ connections' = [connections EXCEPT ![conn[c].key] = None]
  /\ UNCHANGED <<host, pending, chain, req, drain>>

(* A protocol error on h2: every stream fails, the transport is destroyed  *)
(* and the connection evicted (h2/session.js 244-258, pool.js 216).        *)
H2Fatal(c) ==
  /\ NotCalling
  /\ conn[c].phase \in {"ready", "up"}
  /\ Drained \/ conn[c].phase = "ready"
  /\ conn[c].alpn = "h2" /\ conn[c].sock = "open"
  /\ conn' = [ConnsAfterClose({c}) EXCEPT ![c].sock = "gone"]
  /\ host' = SlotsAfterClose({c})
  /\ connections' = MapAfterEvict(c)
  /\ req' = [r \in Reqs |->
               IF req[r].phase = "active" /\ req[r].on = c
                 THEN [req[r] EXCEPT !.phase = "settling"]
                 ELSE req[r]]
  /\ UNCHANGED <<pending, chain, drain>>

(* The socket's 'close', after the peer closed it or destroy was called:   *)
(* the connection is evicted (pool.js 216, 226, 259-262).  An h1 request   *)
(* on it ends, failed or delimited by the close (client.js 495-500); the   *)
(* streams of an h2 session are told nothing (h2/session.js 376-380,       *)
(* 440-448; tls.js 297-300).                                               *)
SocketClosed(c) ==
  /\ conn[c].phase = "up" /\ conn[c].sock # "gone"
  /\ Drained
  /\ conn' = [ConnsAfterClose({c}) EXCEPT ![c].sock = "gone"]
  /\ host' = SlotsAfterClose({c})
  /\ connections' = MapAfterEvict(c)
  /\ req' = [r \in Reqs |->
               IF /\ conn[c].alpn = "h1"
                  /\ req[r].phase = "active" /\ req[r].on = c
                 THEN [req[r] EXCEPT !.phase = "settling"]
                 ELSE req[r]]
  /\ UNCHANGED <<pending, chain, drain>>

(* The idle timer closes the connection (pool.js 40-43).                   *)
IdleFires(c) ==
  /\ conn[c].idle
  /\ Drained
  /\ conn' = [ConnsAfterClose({c}) EXCEPT ![c].idle = FALSE]
  /\ host' = SlotsAfterClose({c})
  /\ connections' = MapAfterClose({c})
  /\ UNCHANGED <<pending, chain, req, drain>>

-----------------------------------------------------------------------------
(* Events of a request on the wire.                                        *)

OnWire(r, a) ==
  /\ req[r].phase = "active"
  /\ Drained
  /\ conn[req[r].on].alpn = a
  /\ conn[req[r].on].sock = "open"

(* The end of a response (client.js 302-318, 451-479, 555-589): the idle   *)
(* timer is set, or an h1 connection that cannot be reused is closed; then *)
(* the promise is resolved, or a redirect is followed by calling           *)
(* performRequest on the spot, with the options of this request.           *)
ResponseEnds(r, keep) ==
  LET c == req[r].on
  IN /\ OnWire(r, conn[c].alpn)
     /\ conn[c].alpn = "h2" => keep
     /\ IF keep
          THEN /\ conn' = KeepWarm(c)
               /\ UNCHANGED <<host, connections>>
          ELSE /\ conn' = ConnsAfterClose({c})
               /\ host' = SlotsAfterClose({c})
               /\ connections' = MapAfterClose({c})
     /\ \/ req' = [req EXCEPT ![r].phase = "settling"]
        \/ \E s \in {s \in Reqs : req[s].phase = "idle"} :
             req' = [req EXCEPT ![r].phase = "redirecting", ![r].child = s,
                                ![s].phase = "calling", ![s].key = req[r].key,
                                ![s].fresh = req[r].fresh]
     /\ UNCHANGED <<pending, chain, drain>>

(* A Location that new URL cannot parse (client.js 564-565) throws when    *)
(* the timer and the listeners of the response are gone: nobody settles    *)
(* the promise.  Over h1 the exception ends in TLS.onData, which destroys  *)
(* the socket (tls.js 193-200); over h2 it fails the session and all its   *)
(* other streams (h2/session.js 137-142, 230-258).                         *)
LocationThrows(r, keep) ==
  LET c == req[r].on
  IN /\ OnWire(r, conn[c].alpn)
     /\ conn[c].alpn = "h2" => ~keep
     /\ IF keep
          THEN /\ conn' = [KeepWarm(c) EXCEPT ![c].sock = "closing"]
               /\ UNCHANGED <<host, connections>>
          ELSE /\ host' = SlotsAfterClose({c})
               /\ IF conn[c].alpn = "h1"
                    THEN conn' = ConnsAfterClose({c}) /\ UNCHANGED connections
                    ELSE /\ conn' = [ConnsAfterClose({c}) EXCEPT ![c].sock = "gone"]
                         /\ connections' = MapAfterEvict(c)
     /\ req' = [q \in Reqs |->
                  IF q = r THEN [req[q] EXCEPT !.phase = "lost"]
                  ELSE IF req[q].phase = "active" /\ req[q].on = c /\ conn[c].alpn = "h2"
                    THEN [req[q] EXCEPT !.phase = "settling"]
                    ELSE req[q]]
     /\ UNCHANGED <<pending, chain, drain>>

(* RST_STREAM: the request fails, the connection is left as it is          *)
(* (client.js 320; h2/session.js 144-151).                                 *)
StreamReset(r) ==
  /\ OnWire(r, "h2")
  /\ req' = [req EXCEPT ![r].phase = "settling"]
  /\ UNCHANGED <<host, connections, pending, conn, chain, drain>>

(* A bad h1 response closes the connection (client.js 376-378).            *)
BadResponse(r) ==
  LET c == req[r].on
  IN /\ OnWire(r, "h1")
     /\ conn' = ConnsAfterClose({c})
     /\ host' = SlotsAfterClose({c})
     /\ req' = [req EXCEPT ![r].phase = "settling"]
     /\ UNCHANGED <<connections, pending, chain, drain>>

(* The response timer: an h2 stream is cancelled (client.js 240-245), an   *)
(* h1 connection closed (client.js 358-361).                               *)
ResponseTimesOut(r) ==
  LET c == req[r].on
      S == IF conn[c].alpn = "h1" THEN {c} ELSE {}
  IN /\ Timeouts
     /\ req[r].phase = "active"
     /\ Drained
     /\ conn' = ConnsAfterClose(S)
     /\ host' = SlotsAfterClose(S)
     /\ req' = [req EXCEPT ![r].phase = "settling"]
     /\ UNCHANGED <<connections, pending, chain, drain>>

(* shutdown's poll, every 25 ms until nothing is in flight or the deadline *)
(* has passed (pool.js 279-287).                                           *)
DrainPoll(deadline) ==
  /\ drain
  /\ Drained
  /\ NothingInFlight \/ deadline
  /\ ClearPool
  /\ drain' = FALSE
  /\ UNCHANGED <<pending, chain, req>>

-----------------------------------------------------------------------------
Program ==
  \/ \E r \in Reqs, k \in Keys, f \in FreshAllowed : Call(r, k, f)
  \/ Shutdown
  \/ CloseAll

Acquire(r) ==
  \/ AcquireRefused(r)
  \/ AcquirePooled(r)
  \/ AcquireJoins(r)
  \/ AcquireStarts(r)

Microtask ==
  \/ \E r \in Reqs : Acquire(r)
  \/ \E c \in Reqs : Granted(c) \/ Made(c) \/ Thrown(c) \/ Settle(c)
  \/ \E r \in Reqs : Begin(r) \/ StartH1(r) \/ Finally(r)

Network ==
  \/ \E c \in Reqs :
       \/ \E a \in Alpns : HandshakeReady(c, a)
       \/ HandshakeFails(c)
       \/ PeerLeavesHandshake(c)
       \/ Goaway(c)
       \/ H2Fatal(c)
       \/ SocketClosed(c)
  \/ \E r \in Reqs :
       \/ \E keep \in BOOLEAN : ResponseEnds(r, keep) \/ LocationThrows(r, keep)
       \/ StreamReset(r)
       \/ BadResponse(r)

Timer ==
  \/ \E c \in Reqs : IdleFires(c)
  \/ \E r \in Reqs : ResponseTimesOut(r)
  \/ \E deadline \in BOOLEAN : DrainPoll(deadline)

Next == Program \/ Microtask \/ Network \/ Timer

Spec == Init /\ [][Next]_vars

(* What Node guarantees: microtasks run, timers fire, and a destroyed      *)
(* socket says 'close'.  With Timeouts a handshake ends, if only by its    *)
(* timer.  Nothing is assumed of servers or of the program.                *)
Fairness ==
  /\ WF_vars(Microtask)
  /\ WF_vars(\E c \in Reqs : Timeouts /\ HandshakeFails(c))
  /\ WF_vars(\E c \in Reqs : conn[c].sock = "closing" /\ SocketClosed(c))
  /\ WF_vars(\E c \in Reqs : IdleFires(c))
  /\ WF_vars(\E r \in Reqs : ResponseTimesOut(r))
  /\ WF_vars(DrainPoll(TRUE))

FairSpec == Spec /\ Fairness

-----------------------------------------------------------------------------
(* Properties.                                                             *)

TypeOK ==
  /\ host \in Slots!Host
  /\ connections \in [Keys -> Reqs \cup {None}]
  /\ pending \in [Keys -> Reqs \cup {None}]
  /\ conn \in [Reqs -> Conn]
  /\ chain \in [Reqs -> Seq(Reqs)]
  /\ req \in [Reqs -> Req]
  /\ drain \in BOOLEAN

(* An attempt whose promise acquire has not seen settle.                   *)
Unsettled(c) == conn[c].phase \in {"queued", "connecting", "hung", "ready",
                                   "stored", "failing", "thrown"}

(* Concurrent requests for a key share one handshake: pool.pending holds,  *)
(* for every key, exactly the key's shared attempt that has not settled    *)
(* (pool.js 109-126, 146-153).                                             *)
DedupedHandshakes ==
  /\ \A c \in Reqs :
       Unsettled(c) /\ ~conn[c].fresh => pending[conn[c].key] = c
  /\ \A k \in Keys : pending[k] # None =>
       Unsettled(pending[k]) /\ conn[pending[k]].key = k

OnConn(c) == {r \in Reqs : req[r].on = c /\
                           req[r].phase \in {"queued", "active", "settling",
                                             "redirecting", "lost"}}

(* activeRequests, on which shutdown relies, is the number of requests     *)
(* between client.js 176 and 203 on the connection, for every way a        *)
(* request can end.                                                        *)
ActiveCounted == \A c \in Reqs : conn[c].active = Cardinality(OnConn(c))

(* An h1 connection carries one request at a time: only the head of its    *)
(* queue has been written, h1InFlight says whether it has, and the others  *)
(* are queued behind it, each once (client.js 180-201).                    *)
H1Exclusive ==
  \A c \in Reqs : conn[c].alpn = "h1" =>
    /\ {chain[c][i] : i \in DOMAIN chain[c]} = OnConn(c)
    /\ Len(chain[c]) = Cardinality(OnConn(c))
    /\ {r \in OnConn(c) : req[r].phase # "queued"} =
         IF conn[c].inFlight THEN {Head(chain[c])} ELSE {}

(* The pool uses the semaphore as it must: a slot is given back by the     *)
(* attempt that holds it, once, whether the handshake fails, the           *)
(* connection is closed once or several times, or closeAll closes many     *)
(* (pool.js 133-143, 264-267).  A pooled connection holds its slot until   *)
(* it is closed, which is not what the comment of the class says: see      *)
(* PooledNotCounted.                                                       *)
UsesSlots == Slots!Spec

(* A usable connection is never forgotten: what leaves the map has been    *)
(* closed, whether by a stale check, an eviction, closeAll or its own      *)
(* GOAWAY (pool.js 119-122, 259-267).  Only a GOAWAY can do otherwise, see *)
(* GoawayDropsItsOwn.                                                      *)
LeavesMapClosed ==
  [][\A k \in Keys :
       connections[k] # None /\ connections'[k] # connections[k]
         => conn'[connections[k]].closed \/ \E c \in Reqs : Goaway(c)]_vars

(* The request has been given a connection, and it is open.                *)
GivenOpen(r) ==
  /\ req[r].phase \in {"handed", "queued", "active"}
  /\ ~conn[req[r].on].closed

(* A drain that its poll ends before the deadline cuts nobody off: it      *)
(* closes no connection that a request has been given (pool.js 279-286).   *)
DrainCutsNobody ==
  [][DrainPoll(FALSE) =>
       \A r \in Reqs : GivenOpen(r) => ~conn'[req[r].on].closed]_vars

(* The requests that n others keep from settling, the last of which was    *)
(* lost: queued behind it on its connection, or waiting for it to follow   *)
(* their redirect.                                                         *)
Stranded[n \in Nat] ==
  IF n = 0 THEN {r \in Reqs : req[r].phase = "lost"}
  ELSE LET nearer == Stranded[n - 1]
       IN {r \in Reqs :
             \/ req[r].phase = "queued" /\ Head(chain[req[r].on]) \in nearer
             \/ req[r].phase = "redirecting" /\ req[r].child \in nearer}

(* Every request the program makes settles, but for the one whose redirect *)
(* throws and those that wait for it: whatever else ends a response, an    *)
(* attempt or a connection, the chain of an h1 connection advances         *)
(* (client.js 180-201, pool.js 146-153).                                   *)
EveryRequestSettles ==
  \A r \in Reqs :
    req[r].phase # "idle" ~>
      \/ req[r].phase = "done"
      \/ \E n \in 0 .. Cardinality(Reqs) : r \in Stranded[n]

(* Every connection is closed in the end and its slot given back           *)
(* (README "5-minute idle timeout (evicts inactive connections)").         *)
EveryConnectionReleased ==
  \A c \in Reqs : conn[c].phase = "up" ~> conn[c].released /\ conn[c].sock = "gone"

-----------------------------------------------------------------------------
(* What the documentation says and the code does not do.                   *)

(* README "Every operational failure surfaces as a HellojsError" (800): a  *)
(* redirect that cannot be followed is one, and its request is told.       *)
EveryFailureSurfaces == \A r \in Reqs : req[r].phase # "idle" ~> req[r].phase = "done"

(* pool.js 67-69 "The pooled keep-alive connection doesn't count against   *)
(* this", README:231-232 "Pooled multiplexed connections are not capped":  *)
(* when a caller waits for a slot and no microtask is pending, the slots   *)
(* are held by others than the connections of the pool.                    *)
Unpooled == {c \in Reqs :
               /\ conn[c].phase \in {"connecting", "hung", "ready", "stored", "up", "failing"}
               /\ ~conn[c].released /\ c \notin Mapped}
PooledNotCounted ==
  Drained /\ host.waiters # <<>> => Cardinality(Unpooled) >= MaxPerHost

InUse == {c \in Reqs : conn[c].phase \in {"connecting", "hung", "ready",
                                          "failing"}}

(* README "6 simultaneous fresh-handshake connections per host", pool.js   *)
(* 67: no more handshakes than maxPerHost are under way.                   *)
HandshakesCapped == Cardinality(InUse) <= MaxPerHost

(* README "waits for in-flight requests to settle before closing the       *)
(* sockets": shutdown does not at once close a connection that a request   *)
(* has been given (pool.js 276-288).  A call made in the same tick as the  *)
(* request does.                                                           *)
ShutdownWaits ==
  [][Shutdown => \A r \in Reqs : GivenOpen(r) => ~conn'[req[r].on].closed]_vars

(* pool.js 218 "stop accepting new streams; let in-flight finish           *)
(* naturally" is about the connection that got the GOAWAY: no other        *)
(* connection leaves the map.                                              *)
GoawayDropsItsOwn ==
  [][\A c \in Reqs : Goaway(c) =>
       \A k \in Keys : connections[k] # c => connections'[k] = connections[k]]_vars

(* pool.js 68-70, README "kept warm": a connection in use by an h1 request *)
(* is not closed because another request is made.                          *)
BusyNotStale ==
  [][(\E r \in Reqs : AcquireJoins(r) \/ AcquireStarts(r)) =>
       \A c \in Reqs : conn[c].inFlight /\ ~conn[c].closed => ~conn'[c].closed]_vars
=============================================================================
