------------------------------ MODULE QuicPath ------------------------------
(***************************************************************************)
(* An established QUIC connection of lib/h3/connection.js: the server's    *)
(* key updates, the connection ids that it issues, and path validation,    *)
(* over a network that loses, reorders and repeats packets.                *)
(*                                                                         *)
(* Abstractions.  Keys and secrets are the number of updates they come     *)
(* from, of which a packet shows the parity; a packet holds one frame, and *)
(* what the server does not open is lost.  PATH_CHALLENGE frames of the    *)
(* server and acks are left out.  The server is external: it keeps RFC     *)
(* 9000 and 9001, updates its keys only when the client has come to them,  *)
(* as an ack under them shows, and keeps the keys before them.             *)
(***************************************************************************)
EXTENDS Integers, SequencesExt

CONSTANTS
  ActiveLimit,      \* active_connection_id_limit, 8 in the code
  MaxUpdates,       \* bound: key updates
  MaxIds,           \* bound: connection ids after the first
  MaxValidations,   \* bound: calls of validatePath
  MaxInFlight,      \* bound: packets under way in each direction
  MaxRepeats        \* bound: packets that arrive twice

VARIABLES
  gen,          \* keyUpdatesSeen: appKeys, and currentPhase its parity
  ids,          \* availableDstCids
  active,       \* activeDstCidSeq, the sequence number of dstCid
  lowest,       \* lowestNotRetired
  pending,      \* the validatePath call whose challenge is pending, or 0
  validation,   \* the promise of each call of validatePath
  timers,       \* calls whose timer is set
  srv,          \* the server
  clientBound, serverBound,   \* packets under way
  repeats       \* so far

cidVars == <<ids, active, lowest>>
validationVars == <<pending, validation, timers>>
pathVars == <<gen, cidVars, validationVars, srv, clientBound, serverBound, repeats>>

Validations == 1 .. MaxValidations

PathInit ==
  /\ gen = 0 /\ ids = <<>> /\ active = 0 /\ lowest = 0
  /\ pending = 0 /\ validation = [v \in Validations |-> "none"] /\ timers = {}
  /\ srv = [gen |-> 0, issued |-> 0, prior |-> 0, retired |-> {}]
  /\ clientBound = {} /\ serverBound = {} /\ repeats = 0

PathFrame(type, n, prior) == [type |-> type, n |-> n, prior |-> prior]

\* A 1-RTT packet: its keys and its frame.
PathPacket(g, frame) == [gen |-> g, frame |-> frame]
Sends(packets) ==
  /\ serverBound' = serverBound \cup packets
  /\ Cardinality(serverBound') <= MaxInFlight

-----------------------------------------------------------------------------
(* Keys.                                                                   *)

\* parsePacket picks the keys by the phase bit, and opens the packet or does not.
OtherPhase(m) == m.gen % 2 # gen % 2
Tried(m) == IF OtherPhase(m) THEN gen + 1 ELSE gen
OpensPacket(m) == m.gen = Tried(m)

\* _commitKeyUpdate, once a packet opened under the next keys; appKeysNext is computed anew.
Commits(m) == OtherPhase(m) /\ OpensPacket(m)

-----------------------------------------------------------------------------
(* Connection ids.                                                         *)

Live(list) == {i \in DOMAIN list : ~list[i].retired}

\* _onNewConnectionId: over the limit the whole frame is ignored.
Stashed(f) ==
  IF Cardinality(Live(ids)) >= ActiveLimit THEN ids
  ELSE LET added == Append(ids, [seq |-> f.n, retired |-> FALSE])
       IN [i \in DOMAIN added |->
             [added[i] EXCEPT !.retired = @ \/ (f.prior > lowest /\ added[i].seq < f.prior)]]
ToRetire(f) ==
  {Stashed(f)[i].seq : i \in {i \in DOMAIN Stashed(f) :
     Stashed(f)[i].retired /\ (i \in DOMAIN ids => ~ids[i].retired)}}

OnNewConnectionId(f) ==
  /\ ids' = Stashed(f)
  /\ lowest' = IF Stashed(f) # ids /\ f.prior > lowest THEN f.prior ELSE lowest
  /\ UNCHANGED active

\* The first entry that is neither retired nor in use; the one in use is retired, but the
\* first connection id has no entry.
Rotatable == {i \in Live(ids) : ids[i].seq # active}
EntryOf(seq) == {i \in DOMAIN ids : ids[i].seq = seq /\ \A j \in 1 .. i - 1 : ids[j].seq # seq}
OldKept(list) == list
OldRetired(list) == [i \in DOMAIN list |-> [list[i] EXCEPT !.retired = @ \/ i \in EntryOf(active)]]

RotateConnectionId ==
  /\ Rotatable # {}
  /\ LET next == ids[CHOOSE i \in Rotatable : \A j \in Rotatable : i <= j].seq
     IN /\ active' = next /\ ids' = OldRetired(ids)
        /\ Sends({PathPacket(gen, PathFrame("retire", ids[i].seq, 0)) : i \in EntryOf(active)})
  /\ UNCHANGED <<gen, lowest, validationVars, srv, clientBound, repeats>>

-----------------------------------------------------------------------------
(* Path validation.                                                        *)

\* The challenge of an earlier call is forgotten.
ValidatePath(v) ==
  /\ validation[v] = "none" /\ \A u \in 1 .. v - 1 : validation[u] # "none"
  /\ validation' = [validation EXCEPT ![v] = "waiting"]
  /\ pending' = v /\ timers' = timers \cup {v}
  /\ Sends({PathPacket(gen, PathFrame("challenge", v, 0))})
  /\ UNCHANGED <<gen, cidVars, srv, clientBound, repeats>>

PathTimer(v) ==
  /\ v \in timers /\ timers' = timers \ {v}
  /\ IF pending = v
     THEN pending' = 0 /\ validation' = [validation EXCEPT ![v] = "failed"]
     ELSE UNCHANGED <<pending, validation>>
  /\ UNCHANGED <<gen, cidVars, srv, clientBound, serverBound, repeats>>

\* path_response: the pending challenge afterwards.
PendingNone(v) == 0
PendingAfter(v) == IF pending = v THEN 0 ELSE pending

OnPathResponse(v) ==
  /\ pending' = PendingAfter(v)
  /\ IF pending = v
     THEN validation' = [validation EXCEPT ![v] = "ok"] /\ timers' = timers \ {v}
     ELSE UNCHANGED <<validation, timers>>

-----------------------------------------------------------------------------
(* A packet arrives: its frame is handled under the keys of after that.    *)

Replies(m, g) ==
  IF m.frame.type = "ncid"
  THEN {PathPacket(g, PathFrame("retire", q, 0)) : q \in ToRetire(m.frame)} ELSE {}

OnDatagram(m) ==
  /\ gen' = IF Commits(m) THEN gen + 1 ELSE gen
  /\ IF ~OpensPacket(m)
     THEN UNCHANGED <<cidVars, validationVars, serverBound>>
     ELSE /\ IF m.frame.type = "ncid" THEN OnNewConnectionId(m.frame) ELSE UNCHANGED cidVars
          /\ IF m.frame.type = "response" THEN OnPathResponse(m.frame.n) ELSE UNCHANGED validationVars
          /\ Sends(Replies(m, gen'))
  /\ UNCHANGED srv

Arrives == \E m \in clientBound : OnDatagram(m) /\ clientBound' = clientBound \ {m} /\ UNCHANGED repeats

-----------------------------------------------------------------------------
(* The network and the server (external).                                  *)

Repeats == repeats < MaxRepeats /\ repeats' = repeats + 1

ArrivesTwice == \E m \in clientBound : OnDatagram(m) /\ Repeats /\ UNCHANGED clientBound

PathLoses ==
  /\ \/ \E m \in clientBound : clientBound' = clientBound \ {m} /\ UNCHANGED serverBound
     \/ \E m \in serverBound : serverBound' = serverBound \ {m} /\ UNCHANGED clientBound
  /\ UNCHANGED <<gen, cidVars, validationVars, srv, repeats>>

SrvSends(frame) ==
  /\ clientBound' = clientBound \cup {PathPacket(srv'.gen, frame)}
  /\ Cardinality(clientBound') <= MaxInFlight

SrvOpens(m) == m.gen \in {srv.gen, srv.gen - 1}

SrvReceives ==
  /\ \E m \in serverBound :
       /\ serverBound' = serverBound \ {m}
       /\ LET f == m.frame
          IN IF ~SrvOpens(m) THEN UNCHANGED <<srv, clientBound>>
             ELSE /\ srv' = [srv EXCEPT !.retired = @ \cup (IF f.type = "retire" THEN {f.n} ELSE {})]
                  /\ IF f.type = "challenge" THEN SrvSends(PathFrame("response", f.n, 0)) ELSE UNCHANGED clientBound
  /\ UNCHANGED <<gen, cidVars, validationVars, repeats>>

\* Updates its keys with the next packet it sends.
SrvUpdatesKeys ==
  /\ srv.gen < MaxUpdates /\ gen = srv.gen
  /\ srv' = [srv EXCEPT !.gen = @ + 1]
  /\ SrvSends(PathFrame("data", 0, 0))
  /\ UNCHANGED <<gen, cidVars, validationVars, serverBound, repeats>>

SrvIssuesId(prior) ==
  /\ srv.issued < MaxIds /\ prior \in srv.prior .. srv.issued + 1
  /\ srv' = [srv EXCEPT !.issued = @ + 1, !.prior = prior]
  /\ SrvSends(PathFrame("ncid", srv.issued + 1, prior))
  /\ UNCHANGED <<gen, cidVars, validationVars, serverBound, repeats>>

-----------------------------------------------------------------------------
PathNext ==
  \/ RotateConnectionId \/ Arrives
  \/ \E v \in Validations : ValidatePath(v) \/ PathTimer(v)
  \/ ArrivesTwice \/ PathLoses
  \/ SrvReceives \/ SrvUpdatesKeys
  \/ \E prior \in 0 .. MaxIds : SrvIssuesId(prior)

\* Timers fire; nothing is assumed of the server or the network.
PathSpec == PathInit /\ [][PathNext]_pathVars /\ \A v \in Validations : WF_pathVars(PathTimer(v))

-----------------------------------------------------------------------------
(* Properties.                                                             *)

Repeated == \E i, j \in DOMAIN ids : i # j /\ ids[i].seq = ids[j].seq

\* What the client sends reaches a server that has the keys and the id for it, and
\* it can open what the server sends under its newest keys: no order of late, lost
\* and repeated packets takes the client to keys the server has not reached or two
\* updates behind it, and no rotation takes it back to an id it gave up (307-330,
\* 728-741, 819-875).  Not so of ids when the server asks for the one in use to be
\* retired, or when a NEW_CONNECTION_ID came twice.
InStep ==
  /\ gen <= srv.gen /\ srv.gen <= gen + 1
  /\ active \in srv.retired => active < srv.prior \/ Repeated

\* A validation of the path settles, whatever late answers come, unless a later one
\* takes its place before it has (458-465, 793-815): the promise of one that was
\* overtaken stays pending for ever.
ValidationSettles ==
  \A v \in Validations :
    validation[v] = "waiting" ~>
      validation[v] \in {"ok", "failed"} \/ (v < MaxValidations /\ validation[v + 1] # "none")
=============================================================================
