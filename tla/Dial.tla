-------------------------------- MODULE Dial --------------------------------
(***************************************************************************)
(* How a connection gets its socket: TLS.connect (lib/tls/tls.js) with     *)
(* happyConnect (lib/happy-eyeballs.js), socks5Connect (lib/socks5.js) or  *)
(* an HTTP CONNECT proxy.                                                  *)
(*                                                                         *)
(* Abstractions.  Addresses are numbered in the order in which they are    *)
(* tried; that both families resolve to nothing (the system resolves) is   *)
(* the case of one address.  Times are left out but for their order: the   *)
(* i-th attempt starts a head start after the one before it.  An answer of *)
(* a proxy is one value; a chunk that ends inside one is only kept.  The   *)
(* proxy and the network are external.                                     *)
(***************************************************************************)
EXTENDS Naturals, FiniteSets

CONSTANT MaxAddresses     \* bound: addresses of a host

ASSUME DialAssumption == MaxAddresses \in Nat \ {0}

VARIABLES
  route,       \* "direct", "socks5" or "connect": the proxy option
  username,    \* credentials in the proxy's URL
  attempts,    \* what became of the dial to each address
  winner,      \* the first address that answered, 0 before
  proxyState,  \* what is waited for: "tcp", then the state of socks5Connect
  event,       \* the first event of TLS: "none", "error" or "ready"
  socket,      \* "none", "open" or "closed"
  hung,        \* history: the dial or the handshake is over and no event follows
  crashed      \* history: an error nobody listens for ended the process

dialVars == <<route, username, attempts, winner, proxyState, event, socket, hung, crashed>>

DialInit ==
  /\ route \in {"direct", "socks5", "connect"} /\ username \in BOOLEAN
  /\ route = "direct" => ~username
  /\ attempts \in IF route = "direct"
                  THEN UNION {[1 .. n -> {"waiting"}] : n \in 1 .. MaxAddresses}
                  ELSE {<<>>}
  /\ winner = 0 /\ proxyState = "tcp" /\ event = "none" /\ socket = "none"
  /\ hung = FALSE /\ crashed = FALSE

Dialling == socket = "none" /\ event = "none" /\ ~hung

\* emit of an event that TLS's listeners hear; only the first one counts.
Emitted(e) == event' = IF event = "none" THEN e ELSE event

-----------------------------------------------------------------------------
(* happyConnect.                                                           *)

\* The timer of the next address fires; the first one starts at once.
StartAttempt(i) ==
  /\ attempts[i] = "waiting" /\ \A j \in 1 .. i - 1 : attempts[j] # "waiting"
  /\ attempts' = [attempts EXCEPT ![i] = IF winner = 0 THEN "trying" ELSE "skipped"]
  /\ UNCHANGED <<route, username, winner, proxyState, event, socket, hung, crashed>>

\* A loser that connects is destroyed.
Loser(i) == "destroyed"

AttemptConnects(i) ==
  /\ attempts[i] = "trying"
  /\ IF winner = 0
     THEN /\ winner' = i /\ socket' = "open"
          /\ attempts' = [attempts EXCEPT ![i] = "open"]
     ELSE /\ attempts' = [attempts EXCEPT ![i] = Loser(i)]
          /\ UNCHANGED <<winner, socket>>
  /\ UNCHANGED <<route, username, proxyState, event, hung, crashed>>

\* Refused or timed out: connect fails with the last of them.
AttemptFails(i) ==
  /\ attempts[i] = "trying"
  /\ attempts' = [attempts EXCEPT ![i] = "failed"]
  /\ IF winner = 0 /\ \A j \in DOMAIN attempts : attempts'[j] = "failed"
     THEN Emitted("error") ELSE UNCHANGED event
  /\ UNCHANGED <<route, username, winner, proxyState, socket, hung, crashed>>

-----------------------------------------------------------------------------
(* socks5Connect: its states, and the answers each state knows.            *)

Tunnelled == socket' = "open" /\ proxyState' = "done" /\ UNCHANGED <<event, hung>>
Refused == Emitted("error") /\ socket' = "closed" /\ UNCHANGED <<proxyState, hung>>
Asks(s) == proxyState' = s /\ UNCHANGED <<event, socket, hung>>
ProxyUnchanged == UNCHANGED <<route, username, attempts, winner, crashed>>

SocksConnects ==
  /\ route = "socks5" /\ Dialling /\ proxyState = "tcp"
  /\ Asks("greeting") /\ ProxyUnchanged

SocksAnswers ==
  /\ route = "socks5" /\ Dialling
  /\ \/ proxyState = "greeting"
        /\ \/ Asks("request")                            \* 0x00: no authentication
           \/ IF username THEN Asks("auth") ELSE Refused   \* 0x02
           \/ Refused                                    \* 0xff, or another version
     \/ proxyState = "auth" /\ (Asks("request") \/ Refused)
     \/ proxyState = "request" /\ (Tunnelled \/ Refused)
  /\ ProxyUnchanged

\* The timer, or an error of the socket, while the listener for it is there.
SocksFails == route = "socks5" /\ Dialling /\ Refused /\ ProxyUnchanged

-----------------------------------------------------------------------------
(* HTTP CONNECT, and what no proxy handler reports.                        *)

ConnectTunnels ==
  /\ route = "connect" /\ Dialling
  /\ IF proxyState = "tcp" THEN Asks("request") ELSE Tunnelled
  /\ ProxyUnchanged

Unreported == hung' = TRUE /\ socket' = "closed" /\ UNCHANGED <<proxyState, event>>

\* A status other than 200 destroys the socket with an error that is only
\* logged, as is an error of the connection to the proxy.
ConnectRefused == route = "connect" /\ Dialling /\ Unreported /\ ProxyUnchanged

\* A proxy that ends the connection: socks5Connect has no listener for close, and
\* its timer destroys a socket that is destroyed already.
ProxyCloses ==
  /\ route # "direct" /\ Dialling /\ proxyState # "tcp"
  /\ Unreported /\ ProxyUnchanged

\* What the client's own timers bring about: every attempt has a deadline, and so
\* has the answer of a SOCKS5 proxy, but not that of an HTTP CONNECT proxy.
DialTimers ==
  \/ \E i \in DOMAIN attempts : StartAttempt(i) \/ AttemptConnects(i) \/ AttemptFails(i)
  \/ SocksFails

DialNext == DialTimers \/ SocksConnects \/ SocksAnswers
  \/ ConnectTunnels \/ ConnectRefused \/ ProxyCloses

-----------------------------------------------------------------------------
(* The sockets that happyConnect leaves open: the one it returned.         *)
OneSocketKept == \A i \in DOMAIN attempts : attempts[i] = "open" => i = winner
=============================================================================
