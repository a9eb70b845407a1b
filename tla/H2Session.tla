----------------------------- MODULE H2Session -----------------------------
(***************************************************************************)
(* One HTTP/2 session of the client (lib/h2/session.js) with the requests  *)
(* performH2 drives over it (lib/client.js 228-328), and the server it     *)
(* talks to over two ordered byte streams.                                 *)
(*                                                                         *)
(* Every handler runs to completion on one thread, so a step of the client *)
(* is one call or one received frame.  The frames of one chunk are         *)
(* dispatched in one run; a step per frame allows everything that can      *)
(* happen and the calls that come between two chunks.                      *)
(*                                                                         *)
(* The server is external.  It keeps to the protocol: it answers requests  *)
(* in any order, before or after their bodies end, within the windows it   *)
(* was given, resets streams, and says GOAWAY.  It may also send something *)
(* the client cannot parse.                                                *)
(*                                                                         *)
(* Lengths are in units.  The windows and thresholds are constants, in the *)
(* same proportions as the code's.                                         *)
(***************************************************************************)
EXTENDS Integers, Sequences, FiniteSets

CONSTANTS
  MaxStreams,     \* requests made on the session
  Bodies,         \* lengths of request bodies
  Kinds,          \* how bodies are sent: a subset of {"none", "whole", "stream"}
  Answers,        \* lengths of response bodies
  Pads,           \* lengths of padding of DATA frames
  SendWindow,     \* what the client takes to be its windows (65535)
  PeerWindow,     \* the server's SETTINGS_INITIAL_WINDOW_SIZE
  RecvWindow,     \* the window the client gives the server for the connection
  ConnCredit,     \* _creditFlow replenishes from here (65536)
  StreamWindow,   \* the client's own INITIAL_WINDOW_SIZE
  StreamCredit,   \* _onData replenishes from here (32768)
  Forms,          \* how responses start: a subset of {"plain", "interim", "split"}
  Cancels,        \* requests may time out, or be cancelled by their handler
  MaxFlight,      \* bound: frames to the client when the server sends more
  MaxFaults       \* bound: cancellations, resets, GOAWAY, malformed, close

ASSUME H2Assumption ==
  /\ MaxStreams \in Nat \ {0}
  /\ Bodies \subseteq Nat /\ Answers \subseteq Nat /\ Pads \subseteq Nat
  /\ Kinds \subseteq {"none", "whole", "stream"}
  /\ Kinds # {} /\ Bodies # {}
  /\ "none" \in Kinds <=> 0 \in Bodies
  /\ {SendWindow, PeerWindow, RecvWindow, ConnCredit, StreamWindow, StreamCredit}
       \subseteq Nat \ {0}
  /\ ConnCredit <= RecvWindow /\ StreamCredit <= StreamWindow
  /\ Forms \subseteq {"plain", "interim", "split"}
  /\ Cancels \in BOOLEAN /\ MaxFlight \in Nat /\ MaxFaults \in Nat

VARIABLES
  stream,      \* H2Stream, and the request body its caller feeds it
  sess,        \* H2Session
  heard,       \* what performH2 has heard of the stream, in events
  srv,         \* the server's side of each stream
  srvConn,     \* the server's side of the connection
  toServer,    \* frames on their way
  toClient,
  faults       \* how much has gone wrong, up to MaxFaults

vars == <<stream, sess, heard, srv, srvConn, toServer, toClient, faults>>
clientVars == <<stream, sess, heard>>
serverVars == <<srv, srvConn>>

Streams == 1 .. MaxStreams     \* the n-th stream has the id 2n - 1

Stream == [phase : {"idle", "open", "gone"},   \* open: in session.streams
           sendWindow : Nat, recvUsed : Nat,
           assembling : BOOLEAN,               \* _headerFragments is set
           headerEnd : BOOLEAN,                \* _headerEndStream
           kind : Kinds, size : Bodies,        \* the request's body
           offered : Nat,                      \* units given to write and end
           wrote : BOOLEAN, finished : BOOLEAN]

Session == [closed : BOOLEAN, destroyed : BOOLEAN,
            connSend : Nat, recvUsed : Nat,
            decoded : Nat]       \* header blocks the HPACK decoder has seen

Heard == [heads : Nat, units : Nat, garbled : BOOLEAN, late : BOOLEAN,
          outcome : {"none", "end", "error", "cancelled"}]

Srv == [seen : BOOLEAN, recvWin : Int,
        got : Nat, hole : BOOLEAN,    \* units of the body, in order so far
        ended : BOOLEAN, reset : BOOLEAN, answered : BOOLEAN,
        total : Nat, left : Nat,      \* of the answer: its length, what is left
        sendWin : Nat]

SrvConn == [recvWin : Int, sendWin : Nat, blocks : Nat, goaway : BOOLEAN,
            bad : BOOLEAN]

Frame == [type : {"HEADERS", "CONTINUATION", "DATA", "RST_STREAM",
                  "WINDOW_UPDATE", "GOAWAY", "BAD"},
          s : 0 .. MaxStreams,
          n : Nat,              \* units, or the increment
          pad : Nat,
          from : Nat,           \* ghost: where DATA stands in the body
          end : BOOLEAN,        \* END_STREAM
          fin : BOOLEAN,        \* END_HEADERS
          block : Nat]          \* ghost: number of the header block

Fr(type, s) == [type |-> type, s |-> s, n |-> 0, pad |-> 0, from |-> 0,
                end |-> FALSE, fin |-> TRUE, block |-> 0]

Min2(a, b) == IF a < b THEN a ELSE b

Init ==
  /\ stream = [s \in Streams |->
       [phase |-> "idle", sendWindow |-> SendWindow, recvUsed |-> 0,
        assembling |-> FALSE, headerEnd |-> FALSE,
        kind |-> CHOOSE k \in Kinds : TRUE, size |-> CHOOSE b \in Bodies : TRUE,
        offered |-> 0, wrote |-> FALSE, finished |-> FALSE]]
  /\ sess = [closed |-> FALSE, destroyed |-> FALSE, connSend |-> SendWindow,
             recvUsed |-> 0, decoded |-> 0]
  /\ heard = [s \in Streams |-> [heads |-> 0, units |-> 0, garbled |-> FALSE,
                                 late |-> FALSE, outcome |-> "none"]]
  /\ srv = [s \in Streams |->
       [seen |-> FALSE, recvWin |-> PeerWindow, got |-> 0, hole |-> FALSE,
        ended |-> FALSE, reset |-> FALSE, answered |-> FALSE, total |-> 0,
        left |-> 0, sendWin |-> StreamWindow]]
  /\ srvConn = [recvWin |-> SendWindow, sendWin |-> RecvWindow, blocks |-> 0,
                goaway |-> FALSE, bad |-> FALSE]
  /\ toServer = <<>>
  /\ toClient = <<>>
  /\ faults = 0

Fault == faults < MaxFaults /\ faults' = faults + 1

-----------------------------------------------------------------------------
(* Writing.                                                                *)

(* transport.write.  Once the session is destroyed writing has no effect;  *)
(* what becomes of the requests left on it is Pool's subject, and this     *)
(* module stops there.                                                     *)
Sent(fs) == toServer' = IF sess.destroyed THEN toServer ELSE toServer \o fs

(* session.js 347-358: how much of n units goes out.  A stream that has    *)
(* left session.streams has no window of its own any more.                 *)
TakeUnwindowed(st, n) == n
Take(st, n) ==
  Min2(n, IF st.phase = "open" THEN Min2(sess.connSend, st.sendWindow)
                               ELSE sess.connSend)

(* session.js 341-370: as many units as the windows allow, in frames of    *)
(* which the last one carries END_STREAM if nothing was left over; the     *)
(* rest is dropped.  An empty final chunk is always sent.                  *)
DataFramesEnded(s, st, n, end) ==
  LET t == Take(st, n)
  IN <<[Fr("DATA", s) EXCEPT !.n = t, !.from = st.offered, !.end = end]>>
DataFrames(s, st, n, end) ==
  LET t == Take(st, n)
  IN IF t > 0 \/ (n = 0 /\ end)
       THEN <<[Fr("DATA", s) EXCEPT !.n = t, !.from = st.offered,
                                    !.end = end /\ t = n]>>
       ELSE <<>>

(* The stream after _sendData was given n units, and its window.           *)
Spent(st, n) ==
  [st EXCEPT !.sendWindow = IF st.phase = "open" THEN @ - Take(st, n) ELSE @,
             !.offered = @ + n, !.wrote = TRUE]

-----------------------------------------------------------------------------
(* Calls of performH2 and its callers.                                     *)

(* session.request (session.js 383-438), followed in the same run by       *)
(* req.end(body) for a body in memory (client.js 236-237, 325-326).  It    *)
(* asks neither whether the session is closed nor for a stream limit.      *)
Request(s, kind, size) ==
  LET opened == [stream[s] EXCEPT !.phase = "open", !.kind = kind,
                                  !.size = size, !.finished = (kind # "stream")]
      head == <<[Fr("HEADERS", s) EXCEPT !.end = (kind = "none")]>>
  IN /\ stream[s].phase = "idle" /\ ~sess.destroyed
     /\ \A t \in 1 .. (s - 1) : stream[t].phase # "idle"
     /\ kind = "none" <=> size = 0
     /\ IF kind = "whole"
          THEN /\ stream' = [stream EXCEPT ![s] = Spent(opened, size)]
               /\ sess' = [sess EXCEPT !.connSend = @ - Take(opened, size)]
               /\ Sent(head \o DataFrames(s, opened, size, TRUE))
          ELSE /\ stream' = [stream EXCEPT ![s] = opened]
               /\ Sent(head)
               /\ UNCHANGED sess
     /\ UNCHANGED <<heard, serverVars, toClient, faults>>

(* body.on('data') -> req.write(chunk) (client.js 322; session.js 153-157),*)
(* whether or not the stream is still open.                                *)
Write(s, n) ==
  LET st == stream[s]
  IN /\ st.phase # "idle" /\ st.kind = "stream" /\ ~sess.destroyed
     /\ n \in 1 .. (st.size - st.offered)
     /\ stream' = [stream EXCEPT ![s] = Spent(st, n)]
     /\ sess' = [sess EXCEPT !.connSend = @ - Take(st, n)]
     /\ Sent(DataFrames(s, st, n, FALSE))
     /\ UNCHANGED <<heard, serverVars, toClient, faults>>

(* body.on('end') -> req.end() (client.js 323; session.js 158-165): an     *)
(* empty DATA frame ends the stream, but only if something was written.    *)
Finish(s) ==
  LET st == stream[s]
  IN /\ st.phase # "idle" /\ st.kind = "stream" /\ ~sess.destroyed
     /\ ~st.finished /\ st.offered = st.size
     /\ stream' = [stream EXCEPT ![s].finished = TRUE]
     /\ Sent(IF st.wrote THEN DataFrames(s, st, 0, TRUE) ELSE <<>>)
     /\ UNCHANGED <<sess, heard, serverVars, toClient, faults>>

(* A stream leaves session.streams (session.js 137-151, 166-171, 372-374). *)
ClosedKept(st) == st
Closed(st) == [st EXCEPT !.phase = "gone"]

(* The response timer, or an error of the body (client.js 240-245, 324).   *)
Cancel(s) ==
  /\ Cancels /\ Fault
  /\ stream[s].phase = "open"
  /\ stream' = [stream EXCEPT ![s] = Closed(@)]
  /\ heard' = [heard EXCEPT ![s].outcome = "cancelled"]
  /\ Sent(<<Fr("RST_STREAM", s)>>)
  /\ UNCHANGED <<sess, serverVars, toClient>>

(* The session ends without an error: the pool closes it (session.js       *)
(* 440-448) or the transport ends (376-380).  Its streams are told nothing *)
(* and nothing more arrives.                                               *)
CloseSession ==
  /\ Fault
  /\ ~sess.destroyed
  /\ sess' = [sess EXCEPT !.closed = TRUE, !.destroyed = TRUE]
  /\ toServer' = <<>> /\ toClient' = <<>>
  /\ UNCHANGED <<stream, heard, serverVars>>

-----------------------------------------------------------------------------
(* Receiving: _onData and _dispatch (session.js 225-330), frame by frame.  *)

Receiving(type) == toClient # <<>> /\ Head(toClient).type = type

(* An event for performH2.  It should hear nothing after its outcome.      *)
Late(h) == h.outcome # "none"
Ended(h) == [h EXCEPT !.late = @ \/ h.outcome \in {"end", "error"},
                      !.outcome = IF @ = "none" THEN "end" ELSE @]
FailedAsEnd(h) == Ended(h)
Failed(h) == [h EXCEPT !.late = @ \/ Late(h),
                       !.outcome = IF @ = "none" THEN "error" ELSE @]

(* _fatalError (session.js 244-258): the streams of the map fail, the      *)
(* session and its transport are destroyed.                                *)
FailAll ==
  /\ stream' = [s \in Streams |->
       IF stream[s].phase = "open" THEN Closed(stream[s]) ELSE stream[s]]
  /\ heard' = [s \in Streams |->
       IF stream[s].phase = "open" THEN Failed(heard[s]) ELSE heard[s]]
  /\ sess' = [sess EXCEPT !.closed = TRUE, !.destroyed = TRUE]
  /\ toServer' = <<>> /\ toClient' = <<>>

(* _finalizeHeaders (session.js 114-124): the block is decoded, 'response' *)
(* is emitted, and its handler may cancel the stream on the spot           *)
(* (client.js 273-278); then END_STREAM ends it.  A block decoded with a   *)
(* table that has missed one gives wrong headers, or throws.               *)
Finalize(s, f, end, cancel) ==
  LET garbled == f.block # sess.decoded + 1
      h1 == [heard[s] EXCEPT !.heads = @ + 1, !.garbled = @ \/ garbled,
                             !.late = @ \/ heard[s].outcome # "none"]
      h2 == IF cancel THEN [h1 EXCEPT !.outcome = "cancelled"] ELSE h1
  IN \/ /\ sess' = [sess EXCEPT !.decoded = @ + 1]
        /\ stream' = [stream EXCEPT ![s].assembling = FALSE,
                        ![s].phase = IF cancel \/ end THEN "gone" ELSE @]
        /\ heard' = [heard EXCEPT ![s] = IF end THEN Ended(h2) ELSE h2]
        /\ Sent(IF cancel THEN <<Fr("RST_STREAM", s)>> ELSE <<>>)
        /\ toClient' = Tail(toClient)
        /\ IF cancel THEN Fault ELSE UNCHANGED faults
     \/ garbled /\ ~cancel /\ FailAll /\ UNCHANGED faults

(* A stream that waits for the rest of its header block.                   *)
AssemblingEnded(st, end) ==
  [st EXCEPT !.assembling = TRUE, !.headerEnd = end,
             !.phase = IF end THEN "gone" ELSE @]
Assembling(st, end) == [st EXCEPT !.assembling = TRUE, !.headerEnd = end]

(* HEADERS (session.js 84-98, 287-291); without END_HEADERS the block      *)
(* waits for its CONTINUATION.                                             *)
OnHeaders(cancel) ==
  LET f == Head(toClient)
  IN /\ Receiving("HEADERS")
     /\ cancel => Cancels
     /\ stream[f.s].phase = "open"
     /\ IF f.fin
          THEN Finalize(f.s, f, f.end, cancel)
          ELSE /\ stream' = [stream EXCEPT ![f.s] = Assembling(@, f.end)]
               /\ toClient' = Tail(toClient)
               /\ UNCHANGED <<sess, heard, toServer, faults>>
     /\ UNCHANGED serverVars

(* CONTINUATION (session.js 99-113, 292-296).                              *)
OnContinuation(cancel) ==
  LET f == Head(toClient)
  IN /\ Receiving("CONTINUATION")
     /\ cancel => Cancels
     /\ stream[f.s].phase = "open" /\ stream[f.s].assembling
     /\ Finalize(f.s, f, stream[f.s].headerEnd, cancel)
     /\ UNCHANGED serverVars

(* _creditFlow (session.js 332-339): the connection's window is restored   *)
(* in big chunks.                                                          *)
ConnUpdate(u) ==
  IF u >= ConnCredit THEN <<[Fr("WINDOW_UPDATE", 0) EXCEPT !.n = u]>> ELSE <<>>
ConnLeftNothing(u) == 0
ConnLeft(u) == IF u >= ConnCredit THEN 0 ELSE u

(* DATA of an open stream (session.js 125-143, 297-304).  Padding is       *)
(* stripped, and credited to nobody.                                       *)
OnData ==
  LET f == Head(toClient)
      s == f.s
      conn == sess.recvUsed + f.n
      used == stream[s].recvUsed + f.n
      update == IF used >= StreamCredit
                  THEN <<[Fr("WINDOW_UPDATE", s) EXCEPT !.n = used]>> ELSE <<>>
      h == [heard[s] EXCEPT !.units = @ + f.n, !.late = @ \/ heard[s].outcome # "none"]
  IN /\ Receiving("DATA")
     /\ stream[s].phase = "open"
     /\ stream' = [stream EXCEPT
          ![s].recvUsed = IF used >= StreamCredit THEN 0 ELSE used,
          ![s].phase = IF f.end THEN "gone" ELSE @]
     /\ sess' = [sess EXCEPT !.recvUsed = ConnLeft(conn)]
     /\ heard' = [heard EXCEPT ![s] = IF f.end THEN Ended(h) ELSE h]
     /\ Sent(ConnUpdate(conn) \o update)
     /\ toClient' = Tail(toClient)
     /\ UNCHANGED <<serverVars, faults>>

(* RST_STREAM (session.js 144-151, 308-313).                               *)
OnReset ==
  LET s == Head(toClient).s
  IN /\ Receiving("RST_STREAM")
     /\ stream[s].phase = "open"
     /\ stream' = [stream EXCEPT ![s] = Closed(@)]
     /\ heard' = [heard EXCEPT ![s] = Failed(@)]
     /\ toClient' = Tail(toClient)
     /\ UNCHANGED <<sess, serverVars, toServer, faults>>

(* A frame for a stream that is not in session.streams is ignored: a       *)
(* header block is not even decoded, and only the connection's window is   *)
(* credited for DATA (session.js 288-305).                                 *)
IgnoredUncredited(f) == sess.recvUsed
Ignored(f) == IF f.type = "DATA" THEN sess.recvUsed + f.n ELSE sess.recvUsed

OnUnknown ==
  LET f == Head(toClient)
      used == Ignored(f)
  IN /\ toClient # <<>>
     /\ f.type \in {"HEADERS", "CONTINUATION", "DATA", "RST_STREAM"}
     /\ stream[f.s].phase # "open"
     /\ sess' = [sess EXCEPT !.recvUsed = ConnLeft(used)]
     /\ Sent(ConnUpdate(used))
     /\ toClient' = Tail(toClient)
     /\ UNCHANGED <<stream, heard, serverVars, faults>>

(* WINDOW_UPDATE (session.js 277-286).                                     *)
OnWindowUpdate ==
  LET f == Head(toClient)
  IN /\ Receiving("WINDOW_UPDATE")
     /\ IF f.s = 0
          THEN /\ sess' = [sess EXCEPT !.connSend = @ + f.n]
               /\ UNCHANGED stream
          ELSE /\ stream' = IF stream[f.s].phase = "open"
                              THEN [stream EXCEPT ![f.s].sendWindow = @ + f.n]
                              ELSE stream
               /\ UNCHANGED sess
     /\ toClient' = Tail(toClient)
     /\ UNCHANGED <<heard, serverVars, toServer, faults>>

(* GOAWAY (session.js 319-324).  The streams above its last stream id are  *)
(* left to the server.                                                     *)
OnGoaway ==
  /\ Receiving("GOAWAY")
  /\ sess' = [sess EXCEPT !.closed = TRUE]
  /\ toClient' = Tail(toClient)
  /\ UNCHANGED <<stream, heard, serverVars, toServer, faults>>

(* Anything that makes _dispatch throw (session.js 230-239).               *)
OnBad ==
  /\ Receiving("BAD")
  /\ FailAll
  /\ UNCHANGED <<serverVars, faults>>

-----------------------------------------------------------------------------
(* The server (external).                                                  *)

SrvReceives ==
  LET f == Head(toServer)
      s == f.s
  IN /\ toServer # <<>>
     /\ toServer' = Tail(toServer)
     /\ CASE f.type = "HEADERS" ->
                /\ srv' = [srv EXCEPT ![s].seen = TRUE, ![s].ended = f.end]
                /\ UNCHANGED srvConn
          [] f.type = "DATA" ->
                /\ srv' = [srv EXCEPT
                     ![s].recvWin = @ - f.n, ![s].ended = @ \/ f.end,
                     ![s].hole = @ \/ (f.n > 0 /\ f.from # srv[s].got),
                     ![s].got = IF f.from = @ THEN @ + f.n ELSE @]
                /\ srvConn' = [srvConn EXCEPT !.recvWin = @ - f.n]
          [] f.type = "RST_STREAM" ->
                /\ srv' = [srv EXCEPT ![s].reset = TRUE, ![s].left = 0]
                /\ UNCHANGED srvConn
          [] f.type = "WINDOW_UPDATE" /\ s = 0 ->
                /\ srvConn' = [srvConn EXCEPT !.sendWin = @ + f.n]
                /\ UNCHANGED srv
          [] f.type = "WINDOW_UPDATE" /\ s # 0 ->
                /\ srv' = [srv EXCEPT ![s].sendWin = @ + f.n]
                /\ UNCHANGED srvConn
     /\ UNCHANGED <<clientVars, toClient, faults>>

(* It has consumed what came on s and restores both windows.               *)
SrvCredits(s) ==
  LET wu(t, n) == [Fr("WINDOW_UPDATE", t) EXCEPT !.n = n]
  IN /\ ~sess.destroyed
     /\ srv[s].seen /\ ~srv[s].ended /\ ~srv[s].reset
     /\ Len(toClient) < MaxFlight
     /\ srv[s].recvWin < PeerWindow /\ srvConn.recvWin < SendWindow
     /\ toClient' = toClient \o <<wu(0, SendWindow - srvConn.recvWin),
                                  wu(s, PeerWindow - srv[s].recvWin)>>
     /\ srv' = [srv EXCEPT ![s].recvWin = PeerWindow]
     /\ srvConn' = [srvConn EXCEPT !.recvWin = SendWindow]
     /\ UNCHANGED <<clientVars, toServer, faults>>

(* It answers a request, in one header block or two frames of one, perhaps *)
(* with an interim response first.                                         *)
SrvAnswers(s, size, form) ==
  LET head(b, fin) == [Fr("HEADERS", s) EXCEPT !.block = b, !.fin = fin]
      rest(b) == [Fr("CONTINUATION", s) EXCEPT !.block = b]
      b0 == srvConn.blocks + 1
      b1 == IF form = "interim" THEN b0 + 1 ELSE b0
      final == [head(b1, form # "split") EXCEPT !.end = (size = 0)]
  IN /\ ~sess.destroyed
     /\ srv[s].seen /\ ~srv[s].reset /\ ~srv[s].answered
     /\ Len(toClient) < MaxFlight
     /\ toClient' = toClient \o
          CASE form = "plain" -> <<final>>
            [] form = "interim" -> <<head(b0, TRUE), final>>
            [] form = "split" -> <<final, rest(b1)>>
     /\ srv' = [srv EXCEPT ![s].answered = TRUE, ![s].total = size, ![s].left = size]
     /\ srvConn' = [srvConn EXCEPT !.blocks = b1]
     /\ UNCHANGED <<clientVars, toServer, faults>>

SrvSends(s, n, pad) ==
  /\ ~sess.destroyed
  /\ n \in 1 .. srv[s].left /\ Len(toClient) < MaxFlight
  /\ n + pad <= srv[s].sendWin /\ n + pad <= srvConn.sendWin
  /\ toClient' = Append(toClient,
       [Fr("DATA", s) EXCEPT !.n = n, !.pad = pad, !.end = (n = srv[s].left)])
  /\ srv' = [srv EXCEPT ![s].left = @ - n, ![s].sendWin = @ - (n + pad)]
  /\ srvConn' = [srvConn EXCEPT !.sendWin = @ - (n + pad)]
  /\ UNCHANGED <<clientVars, toServer, faults>>

SrvResets(s) ==
  /\ Fault
  /\ ~sess.destroyed
  /\ srv[s].seen /\ ~srv[s].reset
  /\ ~(srv[s].ended /\ srv[s].answered /\ srv[s].left = 0)
  /\ srv' = [srv EXCEPT ![s].reset = TRUE, ![s].left = 0]
  /\ toClient' = Append(toClient, Fr("RST_STREAM", s))
  /\ UNCHANGED <<clientVars, srvConn, toServer>>

SrvGoaway ==
  /\ Fault
  /\ ~sess.destroyed /\ ~srvConn.goaway
  /\ srvConn' = [srvConn EXCEPT !.goaway = TRUE]
  /\ toClient' = Append(toClient, Fr("GOAWAY", 0))
  /\ UNCHANGED <<clientVars, srv, toServer>>

SrvMalformed ==
  /\ Fault
  /\ ~sess.destroyed /\ ~srvConn.bad
  /\ srvConn' = [srvConn EXCEPT !.bad = TRUE]
  /\ toClient' = Append(toClient, Fr("BAD", 0))
  /\ UNCHANGED <<clientVars, srv, toServer>>

-----------------------------------------------------------------------------
Caller ==
  \/ \E s \in Streams, k \in Kinds, b \in Bodies : Request(s, k, b)
  \/ \E s \in Streams :
       \/ \E b \in Bodies : \E n \in 1 .. b : Write(s, n)
       \/ Finish(s)
       \/ Cancel(s)
  \/ CloseSession

Dispatch ==
  \/ \E cancel \in BOOLEAN : OnHeaders(cancel) \/ OnContinuation(cancel)
  \/ OnData \/ OnReset \/ OnUnknown \/ OnWindowUpdate \/ OnGoaway \/ OnBad

Server ==
  \/ SrvReceives
  \/ \E s \in Streams :
       \/ SrvCredits(s)
       \/ SrvResets(s)
       \/ \E a \in Answers, form \in Forms : SrvAnswers(s, a, form)
       \/ \E n \in 1 .. srv[s].left, pad \in Pads : SrvSends(s, n, pad)
  \/ SrvGoaway
  \/ SrvMalformed

Next == Caller \/ Dispatch \/ Server

Spec == Init /\ [][Next]_vars

(* Bytes arrive at both ends; nothing else is assumed of server or caller. *)
FairSpec == Spec /\ WF_vars(Dispatch) /\ WF_vars(SrvReceives)

-----------------------------------------------------------------------------
TypeOK ==
  /\ stream \in [Streams -> Stream]
  /\ sess \in Session
  /\ heard \in [Streams -> Heard]
  /\ srv \in [Streams -> Srv] /\ srvConn \in SrvConn /\ faults \in 0 .. MaxFaults
  /\ toServer \in Seq(Frame) /\ toClient \in Seq(Frame)

(* The client never sends more than the server allows: on the connection,  *)
(* and on every stream it has open (session.js 347-365).                   *)
WindowsRespected ==
  /\ srvConn.recvWin >= 0
  /\ \A s \in Streams : stream[s].phase = "open" => srv[s].recvWin >= 0

(* Units under way in a queue of frames of a type, of some streams.        *)
Units(q, type, ids) ==
  UNION {{i} \X (1 .. q[i].n) : i \in {j \in DOMAIN q : q[j].type = type /\ q[j].s \in ids}}
UnderWay(q, type, ids) == Cardinality(Units(q, type, ids))

(* The window the client gives the server is conserved: what is not        *)
(* available to the server is under way, waits to be credited, or is a     *)
(* credit under way; also for DATA that comes after its stream is gone     *)
(* (session.js 125-135, 305, 332-339).                                     *)
CreditConserved ==
  ~sess.destroyed =>
    /\ srvConn.sendWin + sess.recvUsed
         + UnderWay(toClient, "DATA", Streams)
         + UnderWay(toServer, "WINDOW_UPDATE", {0}) = RecvWindow
    /\ \A t \in Streams : stream[t].phase = "open" =>
         srv[t].sendWin + stream[t].recvUsed
         + UnderWay(toClient, "DATA", {t})
         + UnderWay(toServer, "WINDOW_UPDATE", {t}) = StreamWindow

(* A response that ends without error is the whole response (client.js     *)
(* 295-306; session.js 125-143).                                           *)
ResponseWhole ==
  \A s \in Streams : heard[s].outcome = "end" =>
    srv[s].answered /\ heard[s].units = srv[s].total

(* performH2 hears nothing after the end or failure of its stream, and no  *)
(* data or error after it cancelled it.                                    *)
NothingAfterOutcome == \A s \in Streams : ~heard[s].late

(* A request body held in memory reaches the server whole before           *)
(* END_STREAM does (session.js 341-370).                                   *)
WholeBody ==
  \A s \in Streams :
    srv[s].ended /\ stream[s].kind # "stream" =>
      srv[s].got = stream[s].size /\ ~srv[s].hole

(* The header decoder goes out of step only when a stream was dropped      *)
(* before its response (session.js 119, 289).                              *)
OutOfStepOnlyByCancel ==
  (\E s \in Streams : heard[s].garbled) =>
    \E s \in Streams : heard[s].outcome = "cancelled"

(* The server is never left without a window for good (session.js 129-134, *)
(* 332-339).                                                               *)
Stuck(s) ==
  /\ srv[s].left > 0 /\ ~sess.destroyed
  /\ srv[s].sendWin = 0 \/ srvConn.sendWin = 0

FlowNeverStalls == \A s \in Streams : Stuck(s) ~> ~Stuck(s)

-----------------------------------------------------------------------------
(* What the documentation says and the code does not do.                   *)

(* README "For large uploads, pass a Node Readable as body. On h2 it       *)
(* streams as DATA frames": what ends with END_STREAM is the whole body.   *)
UploadWhole ==
  \A s \in Streams : srv[s].ended => srv[s].got = stream[s].size /\ ~srv[s].hole

(* session.js 228-229 "An HPACK error desyncs the dynamic table for the    *)
(* whole connection, so any throw here is a fatal connection error": no    *)
(* response is read with a table that is out of step.                      *)
DecodedInStep == \A s \in Streams : ~heard[s].garbled
=============================================================================
