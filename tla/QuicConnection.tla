--------------------------- MODULE QuicConnection ---------------------------
(***************************************************************************)
(* A QUIC connection of the client (lib/h3/connection.js): the handshake,  *)
(* Retry, the log of sent packets, acknowledgements, the probe timer and   *)
(* the congestion window, over UDP.                                        *)
(*                                                                         *)
(* A datagram, a timer or a call of the client runs to completion.  What a *)
(* datagram still has to have done is `work`, one step per packet, frame,  *)
(* TLS message and acknowledged packet; nothing else happens before it is  *)
(* empty.  Datagrams may be lost, duplicated and overtaken, up to          *)
(* MaxFaults times.  The server is external and keeps to the protocol: it  *)
(* cuts its handshake into the datagrams below, repeats what it believes   *)
(* lost (a fault too: it may be wrong), and answers what asks for an ACK.  *)
(*                                                                         *)
(* A packet's size is the unit of the window, and parts of it are dropped  *)
(* (Grown).  TLS messages are names; the transcript is what the Finished   *)
(* messages are computed over.                                             *)
(***************************************************************************)
EXTENDS Integers, FiniteSets, SequencesExt

CONSTANTS
  WithRetry,      \* servers ask for a Retry first, or do not: a set of BOOLEANs
  AcksFinished,   \* the server acknowledges Handshake packets
  PtoLimit,       \* retryCount may not pass it (5)
  InitialWindow,  \* kInitialWindow, in packets (10)
  MinWindow,      \* kMinimumWindow (2)
  MaxData,        \* bound: STREAM packets sent
  MaxFired,       \* bound: how often the probe timer fires
  MaxFaults       \* bound: faults of the network, the server and the caller

ASSUME QuicAssumption ==
  /\ WithRetry \subseteq BOOLEAN /\ AcksFinished \in BOOLEAN
  /\ {PtoLimit, InitialWindow, MinWindow} \subseteq Nat \ {0}
  /\ {MaxData, MaxFired, MaxFaults} \subseteq Nat

VARIABLES
  c,         \* QuicConnection
  work,      \* what is left to do of the datagram at hand
  s,         \* the server
  toServer,  \* packets on their way
  toClient,  \* datagrams on their way, each a sequence of packets
  faults

vars == <<c, work, s, toServer, toClient, faults>>

Epochs == {"initial", "handshake", "oneRtt"}
NoThreshold == 1000000         \* Number.MAX_SAFE_INTEGER
Flight1 == <<"SH">>            \* the server's messages, by epoch and datagram
Flight2 == <<"EE", "CT">>
Flight3 == <<"CV", "FIN">>
Agreed == <<"CH">> \o Flight1 \o Flight2 \o Flight3 \o <<"CFIN">>

Sent(epoch, pn, what, token) == [epoch |-> epoch, pn |-> pn, what |-> what, token |-> token]
Packet(kind, frames) == [kind |-> kind, frames |-> frames]
Frame(type) == [type |-> type, largest |-> 0, first |-> 0, ranges |-> <<>>, data |-> <<>>]
Crypto(data) == [Frame("crypto") EXCEPT !.data = data]
Item(do, epoch, it) == [do |-> do, epoch |-> epoch, it |-> it]

\* An ACK frame for a set of packet numbers (RFC 9000 19.3).
Tops(S) == {n \in S : n + 1 \notin S}
RunOf(S, top) == CHOOSE b \in S : b <= top /\ b .. top \subseteq S /\ b - 1 \notin S
InOrder(S) ==
  [i \in 1 .. Cardinality(S) |-> CHOOSE n \in S : Cardinality({m \in S : m < n}) = i - 1]
AckFrame(S) ==
  LET tops == Reverse(InOrder(Tops(S)))
      bot(i) == RunOf(S, tops[i])
  IN [Frame("ack") EXCEPT
        !.largest = tops[1], !.first = tops[1] - bot(1),
        !.ranges = [i \in 1 .. Len(tops) - 1 |->
          [gap |-> bot(i) - tops[i + 1] - 2, length |-> tops[i + 1] - bot(i + 1)]]]

-----------------------------------------------------------------------------
(* The client.  Operators take the connection's state and return the next; *)
(* `out` collects what it sends.                                           *)

\* _rearmPto: also _armPto.
Rearm(q) == [q EXCEPT !.pto = \E e \in Epochs : q.sent[e] # <<>>]

\* Build a packet, log it for recovery where the code does, and send it.  A
\* packet that nobody answers, an ACK or the close, takes a packet number and
\* is not followed any further.
Unanswered == {"ack", "close"}
Send(q, epoch, what) ==
  [q EXCEPT !.pn[epoch] = @ + 1,
            !.out = IF q.closed \/ what \in Unanswered THEN @
                    ELSE Append(@, Sent(epoch, q.pn[epoch], what, q.token))]
Logged(q, epoch, what) ==
  Rearm([Send(q, epoch, what) EXCEPT !.sent[epoch] = Append(@, q.pn[epoch])])

\* _onPacketAcked with _drainSendQueue.  In congestion avoidance the code adds the
\* part of a packet, 1200 * size / cwnd bytes: rounded down to whole packets here,
\* so that the window after a loss grows later than in the code, never earlier.
Grown(q) == IF q.cwnd < q.ssthresh THEN q.cwnd + 1 ELSE q.cwnd + (1 \div q.cwnd)

DrainedNever(q) == q
Drained(q) ==
  LET room == q.cwnd - q.inflight
      n    == IF room < 0 THEN 0 ELSE IF room < Len(q.queue) THEN room ELSE Len(q.queue)
      pns  == SubSeq(q.queue, 1, n)
  IN [q EXCEPT !.queue = SubSeq(@, n + 1, Len(@)), !.inflight = @ + n,
               !.sent.oneRtt = @ \o pns,
               !.out = IF q.closed THEN @
                       ELSE @ \o [i \in 1 .. n |-> Sent("oneRtt", pns[i], "data", q.token)]]

\* A packet sent before the last recovery frees its place and nothing more.
AckOne(q, epoch, pn) ==
  LET gone == [q EXCEPT !.sent[epoch] = RemoveFirst(@, pn)]
      left == [gone EXCEPT !.inflight = @ - 1, !.old = @ \ {pn}]
  IN IF epoch # "oneRtt" THEN gone
     ELSE IF pn \in q.old THEN left
     ELSE Drained([left EXCEPT !.cwnd = Grown(left)])

\* The intervals of an ACK frame: the lowest number of each, from the highest interval down.
AckedGapOff(f) ==
  LET bot[i \in 0 .. Len(f.ranges)] ==
        IF i = 0 THEN f.largest - f.first
        ELSE bot[i - 1] - f.ranges[i].gap - 1 - f.ranges[i].length
  IN bot[0] .. f.largest
       \cup UNION {bot[i] .. bot[i] + f.ranges[i].length : i \in 1 .. Len(f.ranges)}
Acked(f) ==
  LET bot[i \in 0 .. Len(f.ranges)] ==
        IF i = 0 THEN f.largest - f.first
        ELSE bot[i - 1] - f.ranges[i].gap - 2 - f.ranges[i].length
  IN bot[0] .. f.largest
       \cup UNION {bot[i] .. bot[i] + f.ranges[i].length : i \in 1 .. Len(f.ranges)}

\* The outstanding packets among them, first sent first.
Outstanding(log, acked) ==
  LET at == InOrder({i \in DOMAIN log : log[i] \in acked})
  IN [i \in DOMAIN at |-> log[at[i]]]

\* _onTlsHandshakeMessage throws on a Finished over another transcript.
FinishedUnchecked(q) == TRUE
FinishedFits(q) == q.transcript = <<"CH">> \o Flight1 \o Flight2 \o SubSeq(Flight3, 1, 1)

OnMessage(q, m) ==
  CASE m = "SH" -> [q EXCEPT !.transcript = Append(@, m), !.hsKeys = TRUE]
    [] m \in {"EE", "CT", "CV"} -> [q EXCEPT !.transcript = Append(@, m)]
    [] m = "FIN" -> Logged([q EXCEPT !.transcript = @ \o <<"FIN", "CFIN">>, !.appKeys = TRUE],
                           "handshake", "CFIN")

\* _handleRetry.
OnRetryTokenless(q) ==
  Logged([q EXCEPT !.tries = 1, !.pn.initial = 0, !.sent.initial = <<>>], "initial", "CH")
OnRetry(q) ==
  IF q.tries > 0 THEN [q EXCEPT !.errors = @ \cup {"multiple Retry"}]
  ELSE Logged([q EXCEPT !.tries = 1, !.token = TRUE, !.pn.initial = 0,
                        !.sent.initial = <<>>, !.buf.initial = <<>>],
              "initial", "CH")

\* close; also what _onPtoFire calls.
Closed(q) ==
  [IF q.appKeys THEN Send(q, "oneRtt", "close") ELSE q
     EXCEPT !.closed = TRUE, !.pto = FALSE]

\* _onPtoFire: the oldest packet of the first epoch that has one.  A 1-RTT
\* packet is given up, and a PING goes out that nobody waits for.
OldestOf(q, epoch) == Head(q.sent[epoch])
Without(q, epoch) == [q EXCEPT !.sent[epoch] = Tail(@)]

\* _onCongestionEvent: once for all packets sent before it.
Recovered(q, pn) ==
  LET half == IF q.cwnd \div 2 > MinWindow THEN q.cwnd \div 2 ELSE MinWindow
  IN IF pn \in q.old THEN q
     ELSE [q EXCEPT !.old = ToSet(q.sent.oneRtt), !.ssthresh = half, !.cwnd = half,
                    !.recoveries = 1]

Lost(q) ==
  LET pn == OldestOf(q, "oneRtt")
  IN [Recovered([Without(q, "oneRtt") EXCEPT !.inflight = @ - 1, !.lost = @ \cup {pn}], pn)
        EXCEPT !.old = @ \ {pn}]

ProbedOnce(q) == Send(Lost(q), "oneRtt", "ping")
Probed(q) == Rearm(Send(Lost(q), "oneRtt", "ping"))

OnPto(q0) ==
  LET q == [q0 EXCEPT !.tries = @ + 1, !.pto = FALSE]
  IN CASE q.tries > PtoLimit -> Closed([q EXCEPT !.errors = @ \cup {"PTO limit"}])
       [] q.sent.initial # <<>> /\ q.tries <= PtoLimit -> Logged(Without(q, "initial"), "initial", "CH")
       [] q.sent.initial = <<>> /\ q.sent.handshake # <<>> /\ q.tries <= PtoLimit ->
            Logged(Without(q, "handshake"), "handshake", "CFIN")
       [] OTHER -> Probed(q)

\* sendStreamData and _send1Rtt: wait when the window is full.
OnSend(q) ==
  LET pn == q.pn.oneRtt
  IN IF q.inflight + 1 > q.cwnd
     THEN [q EXCEPT !.pn.oneRtt = @ + 1, !.queue = Append(@, pn)]
     ELSE [Logged(q, "oneRtt", "data") EXCEPT !.inflight = @ + 1]

New ==
  [hsKeys |-> FALSE, appKeys |-> FALSE, transcript |-> <<"CH">>,
   buf |-> [e \in Epochs |-> <<>>], pn |-> [e \in Epochs |-> 0],
   sent |-> [e \in Epochs |-> <<>>], pto |-> FALSE, tries |-> 0, token |-> FALSE,
   ready |-> FALSE, errors |-> {}, closed |-> FALSE,
   inflight |-> 0, cwnd |-> InitialWindow, ssthresh |-> NoThreshold, old |-> {},
   queue |-> <<>>, out |-> <<>>,
   recoveries |-> 0, lost |-> {}, data |-> {}, fired |-> 0]  \* ghosts, and a bound

-----------------------------------------------------------------------------
(* Steps.                                                                  *)

\* connect has sent the ClientHello.
Init ==
  LET q == Logged(New, "initial", "CH")
  IN /\ c = [q EXCEPT !.out = <<>>]
     /\ toServer = q.out
     /\ toClient = <<>> /\ work = <<>>
     /\ s \in [retry : WithRetry, answered : {FALSE}, done : {FALSE}, got : {{}}]
     /\ faults = 0

\* The client goes to q, and what it sent is on its way.
Becomes(q) ==
  /\ c' = [q EXCEPT !.out = <<>>]
  /\ toServer' = toServer \o q.out

Fault == faults < MaxFaults /\ faults' = faults + 1
AtRest == work = <<>>

\* _onDatagram, packet by packet.
Receives(d) ==
  /\ work' = [i \in 1 .. Len(d) |-> Item("packet", d[i].kind, d[i])]
  /\ UNCHANGED <<c, s, toServer>>

Deliver ==
  /\ AtRest /\ toClient # <<>>
  /\ Receives(Head(toClient)) /\ toClient' = Tail(toClient)
  /\ UNCHANGED faults

Duplicate ==
  /\ AtRest /\ toClient # <<>> /\ Fault
  /\ Receives(Head(toClient))
  /\ UNCHANGED toClient

\* The next piece of work is done, and leaves more to do before the rest.
Doing(do) == work # <<>> /\ Head(work).do = do
Leaving(items) == work' = items \o Tail(work)
Around == <<s, toClient, faults>>
AtWork(q, items) == Becomes(q) /\ Leaving(items) /\ UNCHANGED Around

\* _handlePacket, and parsePacket's refusal of a packet without keys.
HandlePacket ==
  LET w == Head(work)
      frames == [i \in 1 .. Len(w.it.frames) |-> Item(w.it.frames[i].type, w.epoch, w.it.frames[i])]
  IN /\ Doing("packet")
     /\ CASE w.epoch = "retry" -> AtWork(OnRetry(c), <<>>)
          [] w.epoch = "handshake" /\ ~c.hsKeys -> AtWork(c, <<>>)
          [] w.epoch = "oneRtt" /\ ~c.appKeys -> AtWork(c, <<>>)
          [] OTHER -> AtWork(c, Append(frames, Item("acks", w.epoch, {})))

\* _maybeSendAcks: 1-RTT packets are acknowledged one by one.
SendAcks ==
  /\ Doing("acks")
  /\ AtWork(IF Head(work).epoch = "oneRtt" THEN Send(c, "oneRtt", "ack") ELSE c, <<>>)

\* _handleFrame: what was acknowledged leaves the log, first sent first; then
\* retryCount is zero, whether there was progress or not.
HandleAck ==
  LET w == Head(work)
      pns == Outstanding(c.sent[w.epoch], Acked(w.it))
  IN /\ Doing("ack")
     /\ AtWork(c, [i \in 1 .. Len(pns) |-> Item("acked", w.epoch, pns[i])]
                    \o <<Item("ackEnd", w.epoch, {})>>)

PacketAcked == Doing("acked") /\ AtWork(AckOne(c, Head(work).epoch, Head(work).it), <<>>)
AckEnds == Doing("ackEnd") /\ AtWork(Rearm([c EXCEPT !.tries = 0]), <<>>)

\* CRYPTO data is appended where it arrives, whatever its offset, and the
\* buffer is processed from its start.
HandleCrypto ==
  LET w == Head(work)
      all == c.buf[w.epoch] \o w.it.data
  IN /\ Doing("crypto")
     /\ AtWork([c EXCEPT !.buf[w.epoch] = all],
               [i \in 1 .. Len(all) |-> Item("message", w.epoch, all[i])]
                 \o <<Item("processed", w.epoch, {})>>)

\* A Finished that does not fit throws: the rest of the datagram is dropped,
\* and the buffer keeps what it has, to be processed once more.
Throws(m) == m = "FIN" /\ ~FinishedFits(c)
HandleMessage ==
  LET m == Head(work).it
  IN /\ Doing("message")
     /\ IF Throws(m) THEN Becomes(c) /\ work' = <<>> /\ UNCHANGED Around
                     ELSE AtWork(OnMessage(c, m), <<>>)

BufferProcessed ==
  Doing("processed") /\ AtWork([c EXCEPT !.buf[Head(work).epoch] = <<>>], <<>>)

HandshakeDone == Doing("done") /\ AtWork([c EXCEPT !.ready = TRUE], <<>>)
ConnectionClose ==
  Doing("close") /\ AtWork([c EXCEPT !.errors = @ \cup {"connection_close"}], <<>>)

HandleFrame ==
  \/ HandleAck \/ PacketAcked \/ AckEnds \/ HandleCrypto \/ HandleMessage
  \/ BufferProcessed \/ HandshakeDone \/ ConnectionClose

\* The network.
Overtake ==
  /\ AtRest /\ Len(toClient) > 1 /\ Fault
  /\ toClient' = <<toClient[2], toClient[1]>> \o SubSeq(toClient, 3, Len(toClient))
  /\ UNCHANGED <<c, work, s, toServer>>

LoseToClient ==
  /\ AtRest /\ toClient # <<>> /\ Fault
  /\ toClient' = Tail(toClient)
  /\ UNCHANGED <<c, work, s, toServer>>

LoseToServer ==
  /\ AtRest /\ toServer # <<>> /\ Fault
  /\ toServer' = Tail(toServer)
  /\ UNCHANGED <<c, work, s, toClient>>

\* The timer, and the calls.
PtoFires ==
  /\ AtRest /\ c.pto /\ ~c.closed /\ c.fired < MaxFired
  /\ Becomes([OnPto(c) EXCEPT !.fired = @ + 1])
  /\ UNCHANGED <<work, s, toClient, faults>>

\* The HTTP/3 layer sends on a stream once the connection is ready.
SendData ==
  /\ AtRest /\ c.ready /\ ~c.closed /\ Cardinality(c.data) < MaxData
  /\ Becomes([OnSend(c) EXCEPT !.data = @ \cup {c.pn.oneRtt}])
  /\ UNCHANGED <<work, s, toClient, faults>>

Close ==
  /\ AtRest /\ ~c.closed /\ Fault
  /\ Becomes(Closed(c))
  /\ UNCHANGED <<work, s, toClient>>

\* The server.
Datagrams(ds) == toClient' = toClient \o ds
Handshake(pns) ==
  <<<<Packet("initial", <<AckFrame(pns), Crypto(Flight1)>>),
      Packet("handshake", <<Crypto(Flight2)>>)>>,
    <<Packet("handshake", <<Crypto(Flight3)>>)>>>>
Done(pns) ==
  <<IF AcksFinished /\ pns # {}
    THEN <<Packet("handshake", <<AckFrame(pns)>>), Packet("oneRtt", <<Frame("done")>>)>>
    ELSE <<Packet("oneRtt", <<Frame("done")>>)>>>>

ServerReceives ==
  /\ AtRest /\ toServer # <<>> /\ toServer' = Tail(toServer)
  /\ LET m == Head(toServer) IN
     CASE m.epoch = "initial" /\ s.retry /\ ~m.token ->
            Datagrams(<<<<Packet("retry", <<>>)>>>>) /\ UNCHANGED s
       [] m.epoch = "initial" /\ (s.retry => m.token) /\ ~s.answered ->
            Datagrams(Handshake({m.pn})) /\ s' = [s EXCEPT !.answered = TRUE]
       [] m.epoch = "initial" /\ (s.retry => m.token) /\ s.answered /\ ~s.done ->
            Datagrams(<<<<Packet("initial", <<AckFrame({m.pn})>>)>>>>) /\ UNCHANGED s
       [] m.what = "CFIN" /\ ~s.done ->
            Datagrams(Done({m.pn})) /\ s' = [s EXCEPT !.done = TRUE]
       [] m.epoch = "oneRtt" ->
            /\ s' = [s EXCEPT !.got = @ \cup {m.pn}]
            /\ Datagrams(<<<<Packet("oneRtt", <<AckFrame(s'.got)>>)>>>>)
       [] OTHER -> UNCHANGED <<s, toClient>>
  /\ UNCHANGED <<c, work, faults>>

ServerRepeats ==
  /\ AtRest /\ s.answered /\ Fault
  /\ \/ ~s.done /\ \E i \in 1 .. 2 : Datagrams(<<Handshake({0})[i]>>)
     \/ s.done /\ Datagrams(Done({}))
  /\ UNCHANGED <<c, work, s, toServer>>

ServerCloses ==
  /\ AtRest /\ s.done /\ Fault
  /\ Datagrams(<<<<Packet("oneRtt", <<Frame("close")>>)>>>>)
  /\ UNCHANGED <<c, work, s, toServer>>

Next ==
  \/ Deliver \/ Duplicate \/ Overtake \/ LoseToClient \/ LoseToServer
  \/ HandlePacket \/ SendAcks \/ HandleFrame
  \/ PtoFires \/ SendData \/ Close
  \/ ServerReceives
  \/ ServerRepeats \/ ServerCloses

Spec == Init /\ [][Next]_vars

\* What is on its way arrives unless it is lost.
Fairness ==
  /\ WF_vars(Deliver) /\ WF_vars(HandlePacket \/ SendAcks \/ HandleFrame)
  /\ WF_vars(ServerReceives)
FairSpec == Spec /\ Fairness

-----------------------------------------------------------------------------
(* Properties.                                                             *)

\* The connection is ready only over a handshake both ends agree on (578-584,
\* 662-667), whatever was duplicated, overtaken or repeated, and only after
\* the server has had the client's Finished.
ReadyIsAgreed ==
  /\ c.appKeys => SubSeq(c.transcript, 1, Len(Agreed)) = Agreed
  /\ c.ready => c.appKeys /\ s.done

\* The log of sent packets is sound: whatever is outstanding, a timer is running
\* (486-497), so that no path through ACKs, Retry, probes and the queue leaves
\* packets without one; and bytesInFlight counts exactly the logged 1-RTT packets
\* (914-961, 527), or the window shrinks for good.
LogIsSound ==
  /\ (AtRest /\ ~c.closed /\ \E e \in Epochs : c.sent[e] # <<>>) => c.pto
  /\ c.inflight = Len(c.sent.oneRtt)

\* A STREAM packet leaves the queue and the log only because the server has
\* it, or because a probe gave it up (384-417, 524-543).
NothingForgotten ==
  c.data \subseteq ToSet(c.queue) \cup ToSet(c.sent.oneRtt) \cup c.lost \cup s.got

\* Before any recovery, packets wait for the window only while something is
\* outstanding whose ACK lets them out (912-961).  After one, the ACK of an
\* old packet frees its place and drains nothing (930): they may be left.
QueueMoves ==
  (AtRest /\ c.queue # <<>>) => c.sent.oneRtt # <<>> \/ c.recoveries > 0

\* A handshake that nothing disturbs completes, with a Retry and without.
HandshakeCompletes == <>(c.ready \/ faults > 0 \/ c.fired > 0)

=============================================================================
