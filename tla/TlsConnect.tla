----------------------------- MODULE TlsConnect -----------------------------
(***************************************************************************)
(* A TLS connection up to its first event, and the ticket after it:        *)
(* lib/tls/tls.js, and lib/tls/tls12.js once the server picked TLS 1.2.    *)
(*                                                                         *)
(* Abstractions.  A handshake message is its name; keys follow from the    *)
(* transcripts, so that a Finished or a signature is right when both       *)
(* transcripts are the same.  A record holds whole messages, one or more.  *)
(* "ready" stands for ready and ready-http1.  The server is external: it   *)
(* keeps the RFCs, up to a chain that does not validate and a Finished     *)
(* that is wrong (conf).  An async function that awaits no input or output *)
(* (deriveHybridSharedSecret) ends before the next event is heard.         *)
(***************************************************************************)
EXTENDS Dial, Sequences

CONSTANTS
  Versions,    \* what the server may pick, of {12, 13}
  Groups       \* and its key share, of {"x25519", "mlkem", "hrr"}

VARIABLES
  conf,        \* the options of TLS, and what the server will do
  tls,         \* the fields of TLS and TLS12Handshake
  wire,        \* records of the server under way
  toServer,    \* what the server has to answer: "", "CH1", "CH2", "flight"
  tickets      \* put in the session cache: does its PSK agree with the server's

vars == <<dialVars, conf, tls, wire, toServer, tickets>>

Confs ==
  {c \in [verifyTLS : BOOLEAN, session : BOOLEAN, early : BOOLEAN,       \* opts
          version : Versions, group : Groups, chainOk : BOOLEAN, finishedOk : BOOLEAN,
          takesPsk : BOOLEAN, takesEarly : BOOLEAN, oneRecord : BOOLEAN] :
     /\ c.early => c.session
     /\ c.takesPsk => c.session /\ c.version = 13 /\ c.group # "hrr"
     /\ c.takesEarly => c.takesPsk /\ c.early
     /\ c.version = 12 => c.group = "x25519"}

Fresh == [transcript |-> <<>>,
          tls12 |-> FALSE,            \* records go to TLS12Handshake
          keysReady |-> FALSE,        \* handshakeKeysReady
          decap |-> FALSE,            \* deriveHybridSharedSecret is pending
          driver |-> "data",          \* whose call runs _parseRecords, or "decap"
          buf |-> <<>>,               \* records not parsed
          messages |-> <<>>,          \* messages of the record being parsed
          encHsBuf |-> <<>>,          \* messages left when the loop returned early
          trusted |-> FALSE,          \* the chain was validated
          pskAccepted |-> FALSE, earlyDataAccepted |-> FALSE,
          replayed |-> FALSE]         \* early data was sent again

Init ==
  /\ DialInit /\ conf \in Confs /\ tls = Fresh
  /\ wire = <<>> /\ toServer = "" /\ tickets = {}

-----------------------------------------------------------------------------
(* The server (external): its transcript, and its flights.                 *)

Flight13 == <<"EE">> \o (IF conf.takesPsk THEN <<>> ELSE <<"CERT", "CV">>) \o <<"SFIN">>
Flight12 == <<"CERT", "SKE", "SHD">>
SrvTranscript ==
  IF conf.version = 12
  THEN <<"CH1", "SH">> \o Flight12 \o <<"CKE", "CFIN", "SFIN">>
  ELSE (IF conf.group = "hrr" THEN <<"H(CH1)", "HRR", "CH2">> ELSE <<"CH1">>) \o <<"SH">>
         \o Flight13 \o (IF conf.takesEarly THEN <<"EOED">> ELSE <<>>) \o <<"CFIN">>

\* The server's transcript before one of its messages.
Before(m) ==
  LET at == CHOOSE i \in DOMAIN SrvTranscript : SrvTranscript[i] = m
  IN SubSeq(SrvTranscript, 1, at - 1)

Record(type, ms) == [type |-> type, ms |-> ms]
Records(type, ms) ==
  IF conf.oneRecord THEN <<Record(type, ms)>> ELSE [i \in DOMAIN ms |-> Record(type, <<ms[i]>>)]

SrvSends(records, next) ==
  /\ wire' = wire \o records /\ toServer' = next
  /\ UNCHANGED <<dialVars, conf, tls, tickets>>

SrvRetries ==
  /\ toServer = "CH1" /\ conf.group = "hrr"
  /\ SrvSends(<<Record("handshake", <<"HRR">>)>>, "")

SrvHello13 ==
  /\ toServer \in {"CH1", "CH2"} /\ conf.version = 13
  /\ toServer = "CH1" => conf.group # "hrr"
  /\ SrvSends(<<Record("handshake", <<"SH">>), Record("ccs", <<>>)>>
                \o Records("encrypted", Flight13), "")

\* Early data is an unexpected message to a server that picks TLS 1.2.
SrvHello12 ==
  /\ toServer = "CH1" /\ conf.version = 12 /\ ~conf.early
  /\ SrvSends(Records("handshake", <<"SH">> \o Flight12), "")

SrvAlert == toServer \in {"CH1", "CH2"} /\ SrvSends(<<Record("alert", <<>>)>>, "")

\* The client's Finished: it covers all the client has sent.
SrvFinishes ==
  /\ toServer = "flight"
  /\ LET covered == SubSeq(SrvTranscript, 1, Len(SrvTranscript) - (IF tls.tls12 THEN 1 ELSE 0))
     IN SrvSends(IF tls.transcript # covered THEN <<Record("alert", <<>>)>>
                 ELSE IF tls.tls12 THEN <<Record("ccs", <<>>), Record("handshake", <<"SFIN">>)>>
                 ELSE <<Record("encrypted", <<"NST">>)>>, "")

\* The peer ends or resets the connection: the close handler emits nothing, and
\* socks5Connect removed the only listener for errors.
PeerLeaves ==
  /\ socket = "open" /\ event = "none" /\ ~hung
  /\ socket' = "closed"
  /\ \/ hung' = TRUE /\ UNCHANGED crashed
     \/ route = "socks5" /\ crashed' = TRUE /\ UNCHANGED hung
  /\ UNCHANGED <<route, username, attempts, winner, proxyState, event,
                 conf, tls, wire, toServer, tickets>>

-----------------------------------------------------------------------------
(* The client.                                                             *)

DialKept == UNCHANGED <<route, username, attempts, winner, proxyState>>
Quiet == UNCHANGED <<event, socket, hung, crashed>>
\* emit('error') and destroy.
Fails == Emitted("error") /\ socket' = "closed" /\ UNCHANGED <<hung, crashed>>

ClientHello ==
  /\ socket = "open" /\ tls.transcript = <<>>
  /\ tls' = [tls EXCEPT !.transcript = <<"CH1">>]
  /\ toServer' = "CH1"
  /\ UNCHANGED <<dialVars, conf, wire, tickets>>

\* onData adds to what _parseRecords has, and runs it.
Parsable == tls.buf # <<>> /\ (Head(tls.buf).type = "encrypted" => tls.keysReady)
Running == tls.messages # <<>> \/ Parsable \/ tls.decap

RecordsArrive(n) ==
  /\ socket = "open" /\ ~Running
  /\ tls' = [tls EXCEPT !.buf = @ \o SubSeq(wire, 1, n), !.driver = "data"]
  /\ wire' = SubSeq(wire, n + 1, Len(wire))
  /\ UNCHANGED <<dialVars, conf, toServer, tickets>>

\* The transcript starts again from the hash of the first hello.
Retried(tr) == <<"H(CH1)", "HRR", "CH2">>

HelloRetry(t) ==
  /\ tls' = [t EXCEPT !.transcript = Retried(@)]
  /\ toServer' = "CH2" /\ Quiet

\* _parseServerHello: a message after it in its record is dropped.
ServerHello(t, ms) ==
  LET seen == [t EXCEPT !.transcript = Append(@, "SH")]
  IN /\ tls' = IF conf.version = 12 THEN [seen EXCEPT !.tls12 = TRUE]
               ELSE IF conf.group = "mlkem"
               THEN [seen EXCEPT !.decap = TRUE, !.pskAccepted = conf.takesPsk]
               ELSE [seen EXCEPT !.keysReady = TRUE, !.pskAccepted = conf.takesPsk]
     /\ hung' = (Len(ms) > 1)
     /\ UNCHANGED <<toServer, event, socket, crashed>>

\* One record of _parseRecords.
ParseRecord ==
  LET r == Head(tls.buf)
      t == [tls EXCEPT !.buf = Tail(@)]
  IN /\ Parsable /\ tls.messages = <<>>
     /\ \/ r.type = "ccs" /\ tls' = t /\ Quiet /\ UNCHANGED toServer
        \/ r.type = "alert" /\ tls' = t /\ Fails /\ UNCHANGED toServer
        \/ r.type = "handshake" /\ ~tls.tls12
             /\ IF r.ms[1] = "HRR" THEN HelloRetry(t) ELSE ServerHello(t, r.ms)
        \/ /\ r.type = "encrypted" \/ (tls.tls12 /\ r.type = "handshake")
           /\ tls' = [t EXCEPT !.messages = tls.encHsBuf \o r.ms, !.encHsBuf = <<>>]
           /\ Quiet /\ UNCHANGED toServer
     /\ DialKept /\ UNCHANGED <<conf, wire, tickets>>

\* The shared secret is there: the keys, and what was kept for them.
DecapsulatedOnly(t) == [t EXCEPT !.decap = FALSE, !.driver = "decap"]
Decapsulated(t) == [t EXCEPT !.decap = FALSE, !.driver = "decap", !.keysReady = TRUE]

Decapsulate ==
  /\ tls.decap /\ ~Parsable /\ tls.messages = <<>>
  /\ tls' = Decapsulated(tls)
  /\ UNCHANGED <<dialVars, conf, wire, toServer, tickets>>

\* An exception: onData reports it, the promise's handler does not.
Throws(t) ==
  /\ tls' = [t EXCEPT !.messages = <<>>, !.buf = <<>>]
  /\ IF tls.driver = "data" THEN Fails
     ELSE crashed' = TRUE /\ UNCHANGED <<event, socket, hung>>
  /\ UNCHANGED <<toServer, tickets>>

\* _certFail: the loop over messages ends, not the one over records.
CertFail(t) ==
  /\ tls' = [t EXCEPT !.encHsBuf = t.messages, !.messages = <<>>]
  /\ Fails /\ UNCHANGED <<toServer, tickets>>

\* The handshake is complete for the client, which answers while it has a socket.
Complete(t, answer) ==
  /\ tls' = t /\ Emitted("ready") /\ UNCHANGED <<socket, hung, crashed, tickets>>
  /\ toServer' = IF socket = "open" THEN answer ELSE toServer

FinishedWithout(t) == Append(t.transcript, "CFIN")
ClientFinished(t) ==
  t.transcript \o (IF t.earlyDataAccepted THEN <<"EOED">> ELSE <<>>) \o <<"CFIN">>

\* _maybeReplayEarlyData
Replays(t) == conf.early /\ ~t.earlyDataAccepted

\* Messages of TLS 1.3; t is TLS with the message in the transcript, u without.
EncryptedExtensions(t) ==
  tls' = [t EXCEPT !.earlyDataAccepted = conf.takesEarly] /\ Quiet /\ UNCHANGED <<toServer, tickets>>

ServerCertificate(t) ==
  IF conf.verifyTLS /\ ~conf.chainOk THEN CertFail(t)
  ELSE tls' = [t EXCEPT !.trusted = conf.verifyTLS] /\ Quiet /\ UNCHANGED <<toServer, tickets>>

CertificateVerify(t, u) ==
  IF conf.verifyTLS /\ u.transcript # Before("CV") THEN CertFail(u)
  ELSE tls' = t /\ Quiet /\ UNCHANGED <<toServer, tickets>>

ServerFinished(t, u) ==
  IF ~conf.finishedOk \/ u.transcript # Before("SFIN") THEN Throws(u)
  ELSE Complete([t EXCEPT !.transcript = ClientFinished(t), !.replayed = Replays(t)], "flight")

SessionTicket(u) ==
  /\ tls' = u /\ Quiet /\ UNCHANGED toServer
  /\ tickets' = tickets \cup {u.transcript = SrvTranscript}

\* _parseDecryptedHandshake
Message13(m, t, u) ==
  \/ m = "EE" /\ EncryptedExtensions(t)
  \/ m = "CERT" /\ ServerCertificate(t)
  \/ m = "CV" /\ CertificateVerify(t, u)
  \/ m = "SFIN" /\ ServerFinished(t, u)
  \/ m = "NST" /\ SessionTicket(u)

\* TLS12Handshake: every message is pushed first, and no failure ends the loop.
Certificate12(t) ==
  /\ tls' = [t EXCEPT !.trusted = conf.verifyTLS /\ conf.chainOk]
  /\ (IF conf.verifyTLS /\ ~conf.chainOk THEN Fails ELSE Quiet)
  /\ UNCHANGED <<toServer, tickets>>

ServerKeyExchange12(t) == tls' = t /\ Quiet /\ UNCHANGED <<toServer, tickets>>

ClientFlight12(t) ==
  /\ tls' = [t EXCEPT !.transcript = @ \o <<"CKE", "CFIN">>]
  /\ toServer' = IF socket = "open" THEN "flight" ELSE toServer
  /\ Quiet /\ UNCHANGED tickets

ServerFinished12(t, u) ==
  IF ~conf.finishedOk \/ u.transcript # Before("SFIN")
  THEN tls' = t /\ Fails /\ UNCHANGED <<toServer, tickets>>
  ELSE Complete(t, "")

Message12(m, t, u) ==
  \/ m = "CERT" /\ Certificate12(t)
  \/ m = "SKE" /\ ServerKeyExchange12(t)
  \/ m = "SHD" /\ ClientFlight12(t)
  \/ m = "SFIN" /\ ServerFinished12(t, u)

ParseMessage ==
  LET m == Head(tls.messages)
      u == [tls EXCEPT !.messages = Tail(@)]
      t == [u EXCEPT !.transcript = Append(@, m)]
  IN /\ tls.messages # <<>>
     /\ IF tls.tls12 THEN Message12(m, t, u) ELSE Message13(m, t, u)
     /\ DialKept /\ UNCHANGED <<conf, wire>>

-----------------------------------------------------------------------------
Beside(dial) == dial /\ UNCHANGED <<conf, tls, wire, toServer, tickets>>
Dialled == Beside(DialNext)
Client == ClientHello \/ ParseRecord \/ ParseMessage \/ Decapsulate
            \/ \E n \in 1 .. Len(wire) : RecordsArrive(n)
Server == SrvRetries \/ SrvHello13 \/ SrvHello12 \/ SrvAlert \/ SrvFinishes

Next == ~crashed /\ (Dialled \/ Client \/ Server \/ PeerLeaves)

\* The client's timers fire and its dials end by them, and what the server has
\* sent arrives and is parsed.  That a proxy or the server answers is not assumed.
Spec == /\ Init /\ [][Next]_vars
        /\ WF_vars(~crashed /\ Beside(DialTimers)) /\ WF_vars(~crashed /\ Client)

-----------------------------------------------------------------------------
(* Properties.                                                             *)

\* A connection is reported ready when both sides have the same handshake, with
\* a chain that was validated unless it need not be, and early data that the
\* server takes once; a ticket resumes that handshake (tls.js 400-475, 560-690,
\* 900-930; tls12.js 140-300).
ReadyIsSound ==
  /\ event = "ready" =>
       /\ tls.transcript = SrvTranscript
       /\ conf.verifyTLS => tls.trusted \/ tls.pskAccepted
       /\ conf.early => tls.replayed = ~conf.takesEarly
  /\ FALSE \notin tickets
  /\ OneSocketKept

\* Nobody limits the time of a CONNECT proxy or of the server (tls.js 245-287:
\* deadlines end with the dial; the pool's are optional).
Waiting == (route = "connect" /\ Dialling) \/ (socket = "open" /\ toServer # "")

\* The failures that the code tells nobody: the peer or the proxy closed the
\* connection (tls.js 271-274, socks5.js 80), the server put more into the record
\* of a TLS 1.2 hello, or what was kept for the shared secret was wrong.
Untold ==
  /\ hung \/ crashed
  /\ \/ socket = "closed" /\ (crashed => route = "socks5")
     \/ hung /\ tls.tls12 /\ conf.oneRecord
     \/ crashed /\ tls.driver = "decap" /\ (~conf.finishedOk \/ tls.transcript # Before("SFIN"))

\* Dial and handshake come to an end that TLS reports whatever the order in which
\* dials end and records arrive, while the secret is derived or after, unless it
\* waits for a silent peer or meets one of these failures (tls.js 182-330, 1026).
ConnectSettles == <>(event # "none" \/ Untold) \/ <>[]Waiting

\* Not so: a connection that is lost before it is ready is reported.  "Every
\* operational failure surfaces as a HellojsError" (README:800).
LossSurfaces == (socket = "closed") ~> (event # "none")
=============================================================================
