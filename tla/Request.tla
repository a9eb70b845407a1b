------------------------------ MODULE Request ------------------------------
(***************************************************************************)
(* One caller of request() after another: performWithRetry, performRequest *)
(* and handleResponse of lib/client.js, with the Alt-Svc cache of          *)
(* lib/pool.js, over HTTP/1.1 (H1Response) or a multiplexed protocol whose *)
(* exchange is one step here (H2Session and H3Client take it apart).       *)
(*                                                                         *)
(* Abstractions.  There is one host, and an origin is one of its ports:    *)
(* that is enough for origins to differ.  Of the pool, the connection that *)
(* was kept last over HTTP/1.1 (Pool has the rest).  Credentials are those *)
(* the caller put in headers; a cookie of the jar is chosen anew for every *)
(* URL.  Delays of retries are left out.  The caller has set opts.timeouts *)
(* (the pool ends a handshake by them, and performH1 and performH2 a       *)
(* response; performH3 knows none); other options have their defaults.     *)
(***************************************************************************)
EXTENDS H1Response

CONSTANTS
  Ports,          \* origins of the host
  AltPort,        \* the port its servers name in alt-svc
  Limit,          \* opts.retry.limit
  MaxRedirects    \* opts.maxRedirects

ASSUME RequestAssumption ==
  Ports \subseteq Nat \ {0} /\ Ports # {} /\ AltPort \in Nat \ {0} /\ Limit \in Nat /\ MaxRedirects \in Nat

VARIABLES
  phase,     \* "idle", "acquire" (before it has a connection), "sent", or "lost": an
             \* exception has left the caller's promise behind, who may call again
  call,      \* the caller's opts
  attempt,   \* of performWithRetry
  opts,      \* of performRequest: those of the caller, or newOpts of a redirect
  via,       \* where the request went: alpn and port
  altSvc,    \* altSvcCache of the host: a port, or 0
  spent      \* the caller's Readable has ended

reqVars == <<phase, call, attempt, opts, via, altSvc, spent>>
vars == <<h1Vars, reqVars>>

Methods == {"GET", "HEAD", "POST"}
Calls ==
  {c \in [port : Ports, method : Methods, creds : {TRUE}, body : {"none", "bytes", "stream"},
          hops : {MaxRedirects}] :
     c.method = "POST" <=> c.body # "none"}
NoCall == [port |-> 0, method |-> "GET", creds |-> FALSE, body |-> "none", hops |-> MaxRedirects]
NoVia == [alpn |-> "none", port |-> 0]

Init ==
  /\ H1Init
  /\ phase = "idle" /\ call = NoCall /\ opts = NoCall /\ attempt = 0 /\ via = NoVia
  /\ altSvc = 0 /\ spent = FALSE

Statuses == {200, 204, 302, 303, 307, 503}
Redirects == {302, 303, 307}
Unparsable == -1    \* a Location that new URL cannot parse
Locations(st) == IF st \in Redirects THEN Ports \cup {Unparsable} ELSE {0}

-----------------------------------------------------------------------------
(* performRequest up to the exchange.                                      *)

Ended == phase \in {"idle", "lost"}

Call(c) ==
  /\ Ended
  /\ phase' = "acquire" /\ call' = c /\ opts' = c /\ attempt' = 0 /\ spent' = FALSE
  /\ UNCHANGED <<h1Vars, via, altSvc>>

Sent(alpn, port) ==
  /\ phase' = "sent" /\ via' = [alpn |-> alpn, port |-> port]
  /\ UNCHANGED <<call, attempt, opts, altSvc, spent>>

AcquireQuic ==
  /\ phase = "acquire" /\ altSvc # 0
  /\ Sent("h3", altSvc) /\ UNCHANGED h1Vars

\* The pool has a connection to the port: it reuses it, or closes it if it is in use.
Kept == conn.open /\ conn.port = opts.port /\ ~conn.busy
Stale == IF conn.busy /\ conn.port = opts.port THEN Closes ELSE UNCHANGED <<conn, wire, ended>>

\* Without an alternative, or after it failed.
AcquireMultiplexed ==
  /\ phase = "acquire" /\ ~Kept /\ Sent("h2", opts.port) /\ Stale
  /\ UNCHANGED <<h1, answer, outcome>>

\* The kept connection if it leads there and is free, or a new one.
AcquireH1 ==
  /\ phase = "acquire" /\ Sent("h1", opts.port)
  /\ LET c == IF Kept THEN conn ELSE [NoConn EXCEPT !.open = TRUE, !.port = opts.port]
     IN /\ wire' = IF Kept THEN wire ELSE <<>>
        /\ ended' = (Kept /\ ended)
        /\ IF opts.body = "stream"
           THEN HalfWritten(c)
           ELSE Written(c, opts.method) /\ UNCHANGED outcome

AcquireFails ==
  /\ phase = "acquire" /\ ~Kept /\ Sent("none", 0) /\ Stale
  /\ \E code \in {"ETIMEDOUT", "ETLS"} : outcome' = Failed(code)
  /\ UNCHANGED <<h1, answer>>

-----------------------------------------------------------------------------
(* The exchange.                                                           *)

InFlight == phase = "sent" /\ outcome = Nothing
Response(st, loc) ==
  [out |-> "response", status |-> st, loc |-> loc, tag |-> Multiplexed, body |-> <<>>]

\* performH2: the answer may carry alt-svc, which names a port or clears the entry.  A
\* stream that has ended already ends no request.
H2Answers(st, loc) ==
  /\ InFlight /\ via.alpn = "h2" /\ ~(opts.body = "stream" /\ spent)
  /\ outcome' = Response(st, loc)
  /\ altSvc' \in {altSvc, 0, AltPort}
  /\ spent' = (spent \/ opts.body = "stream")
  /\ UNCHANGED <<conn, h1, wire, ended, answer, phase, call, attempt, opts, via>>

H2Fails ==
  /\ InFlight /\ via.alpn = "h2"
  /\ \E code \in {"EH2STREAM", "ETIMEDOUT"} : outcome' = Failed(code)
  /\ spent' = (spent \/ opts.body = "stream")
  /\ UNCHANGED <<conn, h1, wire, ended, answer, phase, call, attempt, opts, via, altSvc>>

\* performH3: encodeFrame throws for a Readable.  It has no timer: nothing ends the
\* wait for a server that is silent.
H3Answers(st, loc) ==
  /\ InFlight /\ via.alpn = "h3"
  /\ outcome' \in {Failed("EUNKNOWN")}
                    \cup (IF opts.body = "stream" THEN {} ELSE {Response(st, loc)})
  /\ UNCHANGED <<conn, h1, wire, ended, answer, reqVars>>

\* lookupAltSvc finds an entry that has expired.
AltSvcExpires ==
  /\ Ended /\ altSvc # 0 /\ altSvc' = 0
  /\ UNCHANGED <<h1Vars, phase, call, attempt, opts, via, spent>>

\* The idle timer of the connection that was kept, or its end is heard.
IdleCloses ==
  /\ phase # "sent" /\ conn.open /\ Closes
  /\ UNCHANGED <<h1, answer, outcome, reqVars>>

-----------------------------------------------------------------------------
(* handleResponse and performWithRetry.                                    *)

Following == outcome.out = "response" /\ outcome.status \in Redirects
               /\ outcome.loc # 0 /\ opts.hops > 0

\* POST becomes GET on 301 and 302, anything does on 303.
Downgraded(o, st) ==
  IF st = 303 \/ (st = 302 /\ o.method = "POST")
  THEN [o EXCEPT !.method = "GET", !.body = "none"] ELSE o

RedirectedWithCreds(o, st, port) ==
  [Downgraded(o, st) EXCEPT !.port = port, !.hops = o.hops - 1]
Redirected(o, st, port) ==
  [Downgraded(o, st) EXCEPT !.port = port, !.hops = o.hops - 1,
                            !.creds = o.creds /\ port = o.port]

\* The request that was redirected holds its connection until the last one settles.
Redirect ==
  /\ phase = "sent" /\ Following /\ outcome.loc # Unparsable
  /\ opts' = Redirected(opts, outcome.status, outcome.loc)
  /\ phase' = "acquire" /\ via' = NoVia /\ outcome' = Nothing /\ answer' = NoAnswer
  /\ conn' = [conn EXCEPT !.busy = conn.open /\ (via.alpn = "h1" \/ conn.busy)]
  /\ UNCHANGED <<h1, wire, ended, call, attempt, altSvc, spent>>

\* new URL throws, out of the handler of the response: over h1 into TLS.onData, which
\* destroys the socket, over h2 into the session, which fails the other streams; the
\* timer and the listeners of this one are gone.  performH3 rejects.
LocationThrows ==
  /\ phase = "sent" /\ Following /\ outcome.loc = Unparsable
  /\ IF via.alpn = "h3"
     THEN outcome' = Failed("EUNKNOWN") /\ UNCHANGED <<conn, h1, wire, ended, answer, reqVars>>
     ELSE /\ phase' = "lost" /\ call' = NoCall /\ opts' = NoCall /\ attempt' = 0
          /\ via' = NoVia /\ spent' = FALSE /\ outcome' = Nothing /\ answer' = NoAnswer
          /\ IF via.alpn = "h1" THEN Closes ELSE UNCHANGED <<conn, wire, ended>>
          /\ UNCHANGED <<h1, altSvc>>

Transient == {"ETIMEDOUT", "ECONNRESET", "EH2STREAM", "EH3STREAM"}
RetriableForEver ==
  /\ call.method \in {"GET", "HEAD", "OPTIONS"}
  /\ \/ outcome.out = "error" /\ outcome.code \in Transient
     \/ outcome.out = "response" /\ outcome.status = 503
Retriable ==
  /\ call.method \in {"GET", "HEAD", "OPTIONS"} /\ attempt < Limit
  /\ \/ outcome.out = "error" /\ outcome.code \in Transient
     \/ outcome.out = "response" /\ outcome.status = 503
\* The finally blocks of the requests that were redirected.
Freed == conn' = [conn EXCEPT !.busy = FALSE]

\* The attempt starts again with the caller's opts.
Retry ==
  /\ phase = "sent" /\ outcome # Nothing /\ ~Following /\ Retriable
  /\ attempt' = IF attempt < Limit THEN attempt + 1 ELSE Limit   \* Retriable: always the first
  /\ opts' = call /\ phase' = "acquire" /\ via' = NoVia
  /\ outcome' = Nothing /\ answer' = NoAnswer /\ Freed
  /\ UNCHANGED <<h1, wire, ended, call, altSvc, spent>>

Settle ==
  /\ phase = "sent" /\ outcome # Nothing /\ ~Following /\ ~Retriable
  /\ phase' = "idle" /\ call' = NoCall /\ opts' = NoCall /\ attempt' = 0 /\ via' = NoVia
  /\ spent' = FALSE /\ outcome' = Nothing /\ answer' = NoAnswer /\ Freed
  /\ UNCHANGED <<h1, wire, ended, altSvc>>

-----------------------------------------------------------------------------
OverH1 ==
  /\ \/ EndArrives \/ ResponseTimer
     \/ \E n \in {1, Len(wire)} : DataArrives(n)
     \/ \E st \in Statuses : \E loc \in Locations(st) : SrvAnswers(st, loc)
  /\ UNCHANGED reqVars
Multiplexes ==
  \/ H2Fails
  \/ \E st \in Statuses : \E loc \in Locations(st) : H2Answers(st, loc) \/ H3Answers(st, loc)
AcquireTcp == AcquireMultiplexed \/ AcquireH1 \/ AcquireFails
Handles == Redirect \/ LocationThrows \/ Retry \/ Settle
Driver == AcquireQuic \/ AcquireTcp \/ OverH1 \/ Multiplexes \/ Handles

Next ==
  \/ Driver \/ AltSvcExpires \/ IdleCloses
  \/ SrvEnds /\ UNCHANGED reqVars
  \/ \E c \in Calls : Call(c)

\* Acquiring over TCP ends (Pool shows how), the response timer fires, and the driver
\* goes on.  That servers answer, or QUIC handshakes end, is not assumed.
Timely ==
  \/ altSvc = 0 /\ AcquireTcp
  \/ ResponseTimer /\ UNCHANGED reqVars
  \/ H2Fails \/ Handles
Spec == Init /\ [][Next]_vars /\ WF_vars(Timely)

-----------------------------------------------------------------------------
(* Properties.                                                             *)

\* Whatever redirects and retries came before, the caller's credentials go with
\* requests for URLs of the caller's origin only, not even back there after a hop
\* elsewhere, and over TCP to that origin only; and a body goes with the method it
\* was meant for (client.js 104-130, 544-617).  Over QUIC they go to the alternative
\* that some origin of the host has named (pool.js 294-310).
RedirectsStrip ==
  ~Ended =>
    /\ opts.creds => opts.port = call.port
    /\ opts.creds /\ via.alpn \in {"h1", "h2"} => via.port = call.port
    /\ opts.body # "none" <=> opts.method = "POST"

\* Every call ends: attempts and redirects do, and so does a response, however it
\* comes (client.js 342-617), unless the call waits over QUIC, where nothing limits
\* the time (client.js 207-216).  That an unparsable Location ends it with the
\* promise left behind is what Pool!EveryFailureSurfaces is about.
OverQuic ==
  \/ phase = "acquire" /\ altSvc # 0
  \/ InFlight /\ via.alpn = "h3"
CallSettles == []<>Ended \/ <>[]OverQuic
=============================================================================
