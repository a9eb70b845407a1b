--------------------------- MODULE RequestProofs ---------------------------
(***************************************************************************)
(* Two theorems about the request driver, for any ports, lengths of bodies *)
(* and limits of retries and redirects.  Credentials stay with the         *)
(* caller's origin: the inductive invariant adds that the caller's own     *)
(* options, to which a retry goes back, are as a call may give them.  A    *)
(* response is the one to its own request: the inductive invariant says    *)
(* where the parser is in the one answer that the server sends, piece by   *)
(* piece, and lemmas say what the parser's recursive functions make of any *)
(* first part of it.                                                       *)
(***************************************************************************)
EXTENDS Request, SequenceTheorems, WellFoundedInduction, TLAPS

(* opts as request() or a redirect makes them.                             *)
Shaped(o) ==
  /\ o = [port |-> o.port, method |-> o.method, creds |-> o.creds, body |-> o.body,
          hops |-> o.hops]
  /\ o.creds \in BOOLEAN
  /\ o.body # "none" <=> o.method = "POST"

StripOK ==
  /\ ~Ended => Shaped(call) /\ Shaped(opts) /\ (opts.creds => opts.port = call.port)
  /\ phase # "sent" => via = NoVia
  /\ via.alpn \in {"h1", "h2"} => via.port = opts.port

-----------------------------------------------------------------------------
(* Lemmas about naturals and sequences.                                    *)

NatLess == {x \in Nat \X Nat : x[1] < x[2]}

(* A set of naturals that is not empty has a least element.                *)
LEMMA LeastNatural ==
  ASSUME NEW T \in SUBSET Nat, T # {}
  PROVE  \E p \in T : \A q \in T : p <= q
<1>1. OpToRel(<, Nat) = NatLess
  BY DEF OpToRel, NatLess
<1>2. IsWellFoundedOn(NatLess, Nat)
  BY <1>1, NatLessThanWellFounded
<1>3. T \subseteq Nat
  OBVIOUS
<1>4. PICK p \in T : \A q \in T : ~(<<q, p>> \in NatLess)
  BY <1>2, <1>3, WFMin, Zenon
<1>5. ASSUME NEW q \in T
      PROVE  p <= q
  <2>1. p \in Nat /\ q \in Nat /\ ~(<<q, p>> \in NatLess)
    BY <1>4
  <2> QED BY <2>1 DEF NatLess
<1> QED BY <1>5

(* A set with 0 that is closed under the successor holds every natural.    *)
LEMMA NaturalsClosed ==
  ASSUME NEW T, 0 \in T, \A n \in Nat : n \in T => n + 1 \in T
  PROVE  \A n \in Nat : n \in T
<1> SUFFICES ASSUME NEW n \in Nat \ T
             PROVE  FALSE
  OBVIOUS
<1>1. PICK p \in Nat \ T : \A q \in Nat \ T : p <= q
  <2>1. Nat \ T \in SUBSET Nat /\ Nat \ T # {}
    OBVIOUS
  <2> QED BY <2>1, LeastNatural
<1>2. p # 0 /\ p - 1 \in Nat /\ p - 1 + 1 = p
  OBVIOUS
<1>3. p - 1 \in T
  BY <1>1, <1>2
<1> QED BY <1>2, <1>3

(* A function on 1 .. n is a sequence.                                     *)
LEMMA FunctionIsSeq ==
  ASSUME NEW S, NEW n \in Nat, NEW f \in [1 .. n -> S]
  PROVE  f \in Seq(S) /\ Len(f) = n /\ DOMAIN f = 1 .. n
OBVIOUS

(* The first m elements of a sequence, and what is left without them.      *)
LEMMA FirstProperties ==
  ASSUME NEW S, NEW s \in Seq(S), NEW m \in 0 .. Len(s)
  PROVE  LET a == SubSeq(s, 1, m)
         IN a \in Seq(S) /\ Len(a) = m /\ \A i \in 1 .. m : a[i] = s[i]
<1> DEFINE a == SubSeq(s, 1, m)
<1>1. Len(s) \in Nat /\ m \in Nat /\ m <= Len(s)
  BY LenProperties
<1>2. \A i \in 1 .. m : s[i] \in S
  BY <1>1, ElementOfSeq
<1> HIDE DEF a
<1>3. /\ a \in Seq(S)
      /\ Len(a) = IF 1 <= m THEN m - 1 + 1 ELSE 0
      /\ \A i \in 1 .. m - 1 + 1 : a[i] = s[1 + i - 1]
  BY <1>1, <1>2, SubSeqProperties DEF a
<1>4. a \in Seq(S) /\ Len(a) = m /\ \A i \in 1 .. m : a[i] = s[i]
  BY <1>1, <1>3
<1> QED BY <1>4 DEF a

-----------------------------------------------------------------------------
\* The caller's options are of that shape.
LEMMA CallsShaped ==
  ASSUME NEW c \in Calls
  PROVE  Shaped(c)
BY DEF Calls, Methods, Shaped

(* What a redirect makes of them: a body goes when the method does, and    *)
(* credentials stay only at the same port.                                 *)
LEMMA RedirectedProperties ==
  ASSUME NEW o, Shaped(o), NEW st, NEW port
  PROVE  /\ Shaped(Redirected(o, st, port))
         /\ Redirected(o, st, port).port = port
         /\ Redirected(o, st, port).creds => o.creds /\ port = o.port
<1> DEFINE d == Downgraded(o, st)
<1>1. /\ d = [port |-> o.port, method |-> d.method, creds |-> o.creds, body |-> d.body,
              hops |-> o.hops]
      /\ d.body # "none" <=> d.method = "POST"
  <2>1. CASE st = 303 \/ (st = 302 /\ o.method = "POST")
    <3>1. d = [port |-> o.port, method |-> "GET", creds |-> o.creds, body |-> "none",
               hops |-> o.hops]
      BY <2>1 DEF Downgraded, Shaped
    <3> QED BY <3>1
  <2>2. CASE ~(st = 303 \/ (st = 302 /\ o.method = "POST"))
    BY <2>2 DEF Downgraded, Shaped
  <2> QED BY <2>1, <2>2
<1> DEFINE creds == o.creds /\ port = o.port
<1>2. Redirected(o, st, port) = [d EXCEPT !.port = port, !.hops = o.hops - 1, !.creds = creds]
  BY DEF Redirected
<1>3. creds \in BOOLEAN
  OBVIOUS
<1> HIDE DEF d, creds
<1>4. Redirected(o, st, port) = [port |-> port, method |-> d.method, creds |-> creds,
                                 body |-> d.body, hops |-> o.hops - 1]
  BY <1>1, <1>2
<1> DEFINE r == [port |-> port, method |-> d.method, creds |-> creds, body |-> d.body,
                 hops |-> o.hops - 1]
<1>5. /\ r.port = port /\ r.method = d.method /\ r.creds = creds /\ r.body = d.body
      /\ r.hops = o.hops - 1
  BY Zenon
<1>6. r = [port |-> r.port, method |-> r.method, creds |-> r.creds, body |-> r.body,
           hops |-> r.hops]
  BY Zenon
<1>7. Redirected(o, st, port) = r
  BY <1>4
<1> HIDE DEF r
<1>8. Shaped(r)
  BY <1>1, <1>3, <1>5, <1>6, Zenon DEF Shaped
<1>9. r.creds => o.creds /\ port = o.port
  BY <1>5, Zenon DEF creds
<1> QED BY <1>5, <1>7, <1>8, <1>9, Zenon

\* Every step keeps that invariant.
LEMMA StepStripOK == StripOK /\ [Next]_vars => StripOK'
<1> SUFFICES ASSUME StripOK, [Next]_vars PROVE StripOK'
  OBVIOUS
<1>1. NoVia.alpn \notin {"h1", "h2"}
  BY DEF NoVia
<1>2. ASSUME NEW c \in Calls, Call(c)
      PROVE  StripOK'
  BY <1>1, <1>2, CallsShaped DEF Call, StripOK, Calls, Ended
<1>3. CASE Redirect
  <2>1. /\ Shaped(call) /\ Shaped(opts) /\ (opts.creds => opts.port = call.port)
        /\ call' = call /\ via' = NoVia
        /\ opts' = Redirected(opts, outcome.status, outcome.loc)
    BY <1>3 DEF Redirect, StripOK, Ended
  <2>2. /\ Shaped(opts') /\ opts'.port = outcome.loc
        /\ opts'.creds => opts.creds /\ outcome.loc = opts.port
    BY <2>1, RedirectedProperties
  <2> QED BY <1>1, <2>1, <2>2 DEF StripOK
<1>4. CASE Retry
  BY <1>1, <1>4 DEF Retry, StripOK, Ended
<1>5. CASE Settle
  BY <1>1, <1>5 DEF Settle, StripOK, Ended
\* A request goes where its options say, unless it goes to an alternative.
<1>6. ASSUME NEW alpn, NEW port, Sent(alpn, port), phase = "acquire",
             alpn \in {"h1", "h2"} => port = opts.port
      PROVE  StripOK'
  <2>1. phase' = "sent" /\ call' = call /\ opts' = opts /\ via'.alpn = alpn /\ via'.port = port
    BY <1>6 DEF Sent
  <2> QED BY <1>6, <2>1 DEF StripOK, Ended
<1>7. CASE AcquireQuic \/ AcquireTcp
  BY <1>6, <1>7 DEF AcquireTcp, AcquireQuic, AcquireMultiplexed, AcquireH1, AcquireFails
<1>8. ASSUME phase' = phase /\ call' = call /\ opts' = opts /\ via' = via
      PROVE  StripOK'
  BY <1>8 DEF StripOK, Ended
<1>9. CASE LocationThrows
  <2>1. CASE via.alpn = "h3"
    BY <1>8, <1>9, <2>1 DEF LocationThrows, reqVars
  <2>2. CASE via.alpn # "h3"
    BY <1>1, <1>9, <2>2 DEF LocationThrows, StripOK, Ended
  <2> QED BY <2>1, <2>2
<1>10. CASE Multiplexes \/ OverH1 \/ AltSvcExpires \/ IdleCloses \/ (SrvEnds /\ UNCHANGED reqVars)
            \/ UNCHANGED vars
  BY <1>8, <1>10 DEF Multiplexes, H2Fails, H2Answers, H3Answers, OverH1, AltSvcExpires, IdleCloses,
                     reqVars, vars
<1> QED BY <1>2, <1>3, <1>4, <1>5, <1>7, <1>9, <1>10 DEF Next, Driver, Handles

(* After any sequence of redirects and retries the caller's credentials go *)
(* with requests for URLs of the caller's origin only, over HTTP/1.1 and   *)
(* HTTP/2 to that origin only, and a body goes with POST only (client.js   *)
(* 104-130, 544-617).  Over QUIC such a request goes to the alternative    *)
(* that the host has named, of which this says nothing.                    *)
THEOREM CredentialsStayHome == Spec => []RedirectsStrip
<1>1. Init => StripOK
  BY DEF Init, StripOK, Ended, NoVia
<1>2. StripOK => RedirectsStrip
  BY DEF StripOK, Shaped, RedirectsStrip
<1> QED BY <1>1, <1>2, StepStripOK, PTL DEF Spec

-----------------------------------------------------------------------------
(***************************************************************************)
(* An answer, piece by piece.  It is known by its tag r, its head v, how   *)
(* its body is delimited and whether it has a trailer (t); Total is its    *)
(* length and At its piece at a place.  An interim response before it      *)
(* takes d more places.                                                    *)
(***************************************************************************)
Heads == {v \in [status : Nat, loc : Int, cl : Int, te : BOOLEAN, close : BOOLEAN] :
            v.cl >= -1 /\ v.status >= 200}
InterimHead == [status |-> 100, loc |-> 0, cl |-> -1, te |-> FALSE, close |-> FALSE]
Modes == {"none", "length", "chunked", "eof"}
Kinds == {"line", "end", "crlf", "byte", "size", "trailer"}
Pieces == [k : Kinds, tag : {0, 1}, v : Int \cup Heads \cup {InterimHead}]

\* The place of the last size line, and the pieces of a body in chunks.
Zero == IF BodyLen > 1 THEN BodyLen + 7 ELSE 6
ChunkTotal(t) == Zero + (IF t THEN 2 ELSE 1)
ChunkAt(r, t, i) ==
  IF i = 3 THEN Piece("size", r, 1)
  ELSE IF i = 4 THEN Piece("byte", r, 1)
  ELSE IF i = 5 THEN Crlf(r)
  ELSE IF i = Zero THEN Piece("size", r, 0)
  ELSE IF i > Zero THEN IF t /\ i = Zero + 1 THEN Piece("trailer", r, 0) ELSE Crlf(r)
  ELSE IF i = 6 THEN Piece("size", r, BodyLen - 1)
  ELSE IF i = Zero - 1 THEN Crlf(r)
  ELSE Piece("byte", r, i - 5)

Size(mode, v) ==
  IF mode = "none" THEN 0 ELSE IF mode = "length" THEN v.cl ELSE BodyLen
Total(mode, v, t) == IF mode = "chunked" THEN ChunkTotal(t) ELSE 2 + Size(mode, v)
At(mode, v, r, t, i) ==
  IF i = 1 THEN Line(r, v)
  ELSE IF i = 2 THEN HeadEnd(r)
  ELSE IF mode = "chunked" THEN ChunkAt(r, t, i)
  ELSE Piece("byte", r, i - 2)
Sends(mode, v, r, t, d, i) ==
  IF i > d THEN At(mode, v, r, t, i - d)
  ELSE IF i = 1 THEN Line(r, InterimHead) ELSE HeadEnd(r)

\* q is what is sent after the first `from` pieces, as far as q goes.
Sent11(q, mode, v, r, t, d, from) ==
  /\ q \in Seq(Pieces)
  /\ from + Len(q) <= d + Total(mode, v, t)
  /\ \A i \in 1 .. Len(q) : q[i] = Sends(mode, v, r, t, d, from + i)

\* The answers there are.
Kind11(mode, v, r, t, d) ==
  /\ mode \in Modes /\ v \in Heads /\ r \in {0, 1} /\ t \in BOOLEAN /\ d \in {0, 2}
  /\ mode = "length" => v.cl >= 0

\* A piece is one of the pieces there are, with the fields it was made of.
LEMMA PieceOK ==
  ASSUME NEW k \in Kinds, NEW r \in {0, 1}, NEW x \in Int \cup Heads \cup {InterimHead}
  PROVE  /\ Piece(k, r, x) \in Pieces
         /\ Piece(k, r, x).k = k /\ Piece(k, r, x).v = x /\ Piece(k, r, x).tag = r
BY DEF Piece, Pieces

LEMMA PieceFields ==
  ASSUME NEW k, NEW r, NEW x
  PROVE  Piece(k, r, x).k = k /\ Piece(k, r, x).v = x /\ Piece(k, r, x).tag = r
BY DEF Piece

\* Every place of an answer holds a piece.
LEMMA AtOK ==
  ASSUME NEW mode, NEW v, NEW r, NEW t, NEW d, Kind11(mode, v, r, t, d), NEW i \in Nat
  PROVE  /\ At(mode, v, r, t, i) \in Pieces
         /\ Sends(mode, v, r, t, d, i) \in Pieces
<1>0. BodyLen \in Nat /\ Zero \in Nat
  BY H1Assumption DEF Zero
<1>4. Line(r, v) \in Pieces /\ Line(r, InterimHead) \in Pieces /\ HeadEnd(r) \in Pieces
  <2>1. "line" \in Kinds /\ "end" \in Kinds /\ 0 \in Int
    BY DEF Kinds
  <2>2. v \in Heads /\ r \in {0, 1}
    BY DEF Kind11
  <2>3. /\ v \in Int \cup Heads \cup {InterimHead} /\ 0 \in Int \cup Heads \cup {InterimHead}
        /\ InterimHead \in Int \cup Heads \cup {InterimHead}
    BY <2>1, <2>2, Zenon
  <2> QED BY <2>1, <2>2, <2>3, PieceOK, Zenon DEF Line, HeadEnd
<1>1. \A j \in Nat : ChunkAt(r, t, j) \in Pieces
  <2> SUFFICES ASSUME NEW j \in Nat PROVE ChunkAt(r, t, j) \in Pieces
    OBVIOUS
  <2>1. \A k \in Kinds, x \in Int : Piece(k, r, x) \in Pieces
    BY PieceOK DEF Kind11
  <2>2. BodyLen - 1 \in Int /\ j - 5 \in Int /\ 0 \in Int /\ 1 \in Int
        /\ {"size", "byte", "crlf", "trailer"} \subseteq Kinds
    BY <1>0 DEF Kinds
  <2>3. /\ Piece("size", r, 1) \in Pieces /\ Piece("byte", r, 1) \in Pieces
        /\ Piece("size", r, 0) \in Pieces /\ Piece("trailer", r, 0) \in Pieces
        /\ Piece("size", r, BodyLen - 1) \in Pieces /\ Piece("byte", r, j - 5) \in Pieces
        /\ Crlf(r) \in Pieces
    BY <2>1, <2>2 DEF Crlf
  <2> QED BY <2>3, Zenon DEF ChunkAt
<1>2. \A j \in Nat : At(mode, v, r, t, j) \in Pieces
  <2> SUFFICES ASSUME NEW j \in Nat PROVE At(mode, v, r, t, j) \in Pieces
    OBVIOUS
  <2>2. j - 2 \in Int
    OBVIOUS
  <2>3. Piece("byte", r, j - 2) \in Pieces
    BY <2>2, PieceOK DEF Kind11, Kinds
  <2> QED BY <1>1, <1>4, <2>3, Zenon DEF At
<1>3. i > d => i - d \in Nat
  BY DEF Kind11
<1> QED BY <1>2, <1>3, <1>4 DEF Sends

\* Lengths are natural numbers, and a head takes two pieces.
LEMMA Sizes ==
  ASSUME NEW mode, NEW v, NEW r, NEW t, NEW d, Kind11(mode, v, r, t, d)
  PROVE  /\ BodyLen \in Nat /\ BodyLen > 0 /\ Zero \in Nat /\ Zero >= 6
         /\ (BodyLen > 1 => Zero = BodyLen + 7) /\ (~(BodyLen > 1) => Zero = 6)
         /\ Size(mode, v) \in Nat /\ Total(mode, v, t) \in Nat /\ Total(mode, v, t) >= 2
         /\ mode = "chunked" => Total(mode, v, t) = (IF t THEN Zero + 2 ELSE Zero + 1)
<1>1. BodyLen \in Nat /\ BodyLen > 0 /\ Zero \in Nat /\ Zero >= 6
      /\ (BodyLen > 1 => Zero = BodyLen + 7) /\ (~(BodyLen > 1) => Zero = 6)
  BY H1Assumption DEF Zero
<1>2. Size(mode, v) \in Nat
  BY <1>1 DEF Size, Kind11, Heads
<1> QED BY <1>1, <1>2 DEF Total, ChunkTotal, Kind11

-----------------------------------------------------------------------------
(* A walk that only goes forward is a function.                            *)
IsWalk(f, a, b, stop, val, jump) ==
  f = [i \in a .. b |-> IF i \in stop THEN val[i] ELSE f[jump[i]]]

LEMMA WalkExists ==
  ASSUME NEW a \in Nat, NEW b \in Nat, a <= b, NEW stop, NEW val, NEW jump,
         \A i \in a .. b : i \in stop \/ jump[i] \in i + 1 .. b
  PROVE  \E f : IsWalk(f, a, b, stop, val, jump)
<1> DEFINE Step(f, i) == IF i \in stop THEN val[i] ELSE f[jump[i]]
           T == {m \in Nat : m > b + 1 - a \/ \E f : f = [i \in b + 1 - m .. b |-> Step(f, i)]}
<1>1. 0 \in T
  <2> DEFINE f == [i \in b + 1 - 0 .. b |-> 0]
  <2>1. b + 1 - 0 .. b = {}
    OBVIOUS
  <2>2. f = [i \in b + 1 - 0 .. b |-> Step(f, i)]
    BY <2>1
  <2> HIDE DEF f, Step
  <2>3. \E g : g = [i \in b + 1 - 0 .. b |-> Step(g, i)]
    BY <2>2, Zenon
  <2> QED BY <2>3
<1>2. ASSUME NEW m \in Nat, m \in T
      PROVE  m + 1 \in T
  <2> SUFFICES ASSUME m + 1 <= b + 1 - a
               PROVE  \E f : f = [i \in b + 1 - (m + 1) .. b |-> Step(f, i)]
    OBVIOUS
  <2>1. PICK f : f = [i \in b + 1 - m .. b |-> Step(f, i)]
    BY <1>2
  <2> DEFINE g == [i \in b + 1 - (m + 1) .. b |-> Step(f, i)]
  <2>2. \A i \in b + 1 - m .. b : g[i] = f[i]
    BY <2>1
  <2>3. \A i \in b + 1 - (m + 1) .. b : Step(f, i) = Step(g, i)
    <3> SUFFICES ASSUME NEW i \in b + 1 - (m + 1) .. b, i \notin stop
                 PROVE  f[jump[i]] = g[jump[i]]
      OBVIOUS
    <3>1. i \in a .. b
      OBVIOUS
    <3>2. jump[i] \in i + 1 .. b
      BY <3>1
    <3>3. jump[i] \in b + 1 - m .. b
      BY <3>2
    <3> QED BY <3>3, <2>2
  <2> HIDE DEF Step
  <2>4. g = [i \in b + 1 - (m + 1) .. b |-> Step(g, i)]
    BY <2>3
  <2> HIDE DEF g
  <2> QED BY <2>4
<1> HIDE DEF T
<1>3. \A m \in Nat : m \in T
  BY <1>1, <1>2, NaturalsClosed
<1> USE DEF T
<1>4. b + 1 - a \in Nat /\ b + 1 - (b + 1 - a) = a
  OBVIOUS
<1>5. b + 1 - a \in T
  BY <1>3, <1>4
<1> HIDE DEF Step
<1>6. \E f : f = [i \in a .. b |-> Step(f, i)]
  BY <1>4, <1>5
<1> QED BY <1>6 DEF Step, IsWalk

-----------------------------------------------------------------------------
(***************************************************************************)
(* What the parser makes of it.                                            *)
(***************************************************************************)
\* Where Final starts: past the interim response if it is there whole.
FinalStep(buf, i, f) ==
  IF i < Len(buf) /\ buf[i].k = "line" /\ buf[i + 1].k = "end" /\ buf[i].v.status < 200
  THEN f[i + 2] ELSE i

\* Final's recursive function, step by step.
LEMMA FinalUnfolds ==
  ASSUME NEW buf, Len(buf) \in Nat
  PROVE  \E f : /\ f = [i \in 1 .. Len(buf) + 1 |-> FinalStep(buf, i, f)]
                /\ Final(buf) = SubSeq(buf, f[1], Len(buf))
<1> DEFINE n == Len(buf)
           goes(i) == i < n /\ buf[i].k = "line" /\ buf[i + 1].k = "end" /\ buf[i].v.status < 200
           stop == {i \in 1 .. n + 1 : ~goes(i)}
           val == [i \in 1 .. n + 1 |-> i]
           jump == [i \in 1 .. n + 1 |-> i + 2]
           Is(f) == f = [i \in 1 .. Len(buf) + 1 |-> FinalStep(buf, i, f)]
           from == CHOOSE f : Is(f)
<1>1. \A i \in 1 .. n + 1 : i \in stop \/ jump[i] \in i + 1 .. n + 1
  <2> SUFFICES ASSUME NEW i \in 1 .. n + 1, i \notin stop
               PROVE  jump[i] \in i + 1 .. n + 1
    OBVIOUS
  <2>1. i < n /\ jump[i] = i + 2
    BY Zenon
  <2> HIDE DEF stop, jump
  <2> QED BY <2>1
<1>2. \E f : IsWalk(f, 1, n + 1, stop, val, jump)
  <2>1. 1 \in Nat /\ n + 1 \in Nat /\ 1 <= n + 1
    OBVIOUS
  <2> DEFINE m == n + 1
  <2>2. \A i \in 1 .. m : i \in stop \/ jump[i] \in i + 1 .. m
    BY <1>1
  <2>3. 1 \in Nat /\ m \in Nat /\ 1 <= m
    BY <2>1
  <2> HIDE DEF stop, val, jump, n, m
  <2>4. \E f : IsWalk(f, 1, m, stop, val, jump)
    BY <2>2, <2>3, WalkExists
  <2> QED BY <2>4 DEF m
<1>3. \A f : \A i \in 1 .. n + 1 :
        (IF i \in stop THEN val[i] ELSE f[jump[i]]) = FinalStep(buf, i, f)
  <2> SUFFICES ASSUME NEW f, NEW i \in 1 .. n + 1
               PROVE  (IF i \in stop THEN val[i] ELSE f[jump[i]]) = FinalStep(buf, i, f)
    OBVIOUS
  <2>1. (i \in stop <=> ~goes(i)) /\ val[i] = i /\ jump[i] = i + 2
    BY Zenon
  <2>2. FinalStep(buf, i, f) = IF goes(i) THEN f[i + 2] ELSE i
    BY Zenon DEF FinalStep
  <2> HIDE DEF goes, stop, val, jump
  <2> QED BY <2>1, <2>2, Zenon
<1>4. \E f : Is(f)
  <2> HIDE DEF stop, val, jump
  <2>1. PICK f : f = [i \in 1 .. n + 1 |-> IF i \in stop THEN val[i] ELSE f[jump[i]]]
    BY <1>2 DEF IsWalk
  <2>2. [i \in 1 .. n + 1 |-> IF i \in stop THEN val[i] ELSE f[jump[i]]]
          = [i \in 1 .. n + 1 |-> FinalStep(buf, i, f)]
    BY <1>3, Zenon
  <2>3. Is(f)
    BY <2>1, <2>2, Zenon
  <2> QED BY <2>3
<1>5. Is(from)
  <2> HIDE DEF Is
  <2> QED BY <1>4, Zenon
<1>6. Final(buf) = SubSeq(buf, from[1], Len(buf))
  BY DEF Final, FinalStep
<1> HIDE DEF from
<1> QED BY <1>5, <1>6

\* An interim response is dropped once it is there whole, and nothing else is.
LEMMA FinalAt ==
  ASSUME NEW mode, NEW v, NEW r, NEW t, NEW d, Kind11(mode, v, r, t, d),
         NEW all, Sent11(all, mode, v, r, t, d, 0)
  PROVE  Final(all) = IF d = 2 /\ Len(all) >= 2 THEN SubSeq(all, 3, Len(all)) ELSE all
<1> DEFINE n == Len(all)
<1>1. n \in Nat /\ all \in Seq(Pieces) /\ d \in {0, 2} /\ v.status >= 200 /\ v.status \in Nat
  BY LenProperties DEF Sent11, Kind11, Heads
<1>2. \A i \in 1 .. n : all[i] = Sends(mode, v, r, t, d, i)
  BY <1>1 DEF Sent11
<1>3. PICK f : /\ f = [i \in 1 .. n + 1 |-> FinalStep(all, i, f)]
               /\ Final(all) = SubSeq(all, f[1], n)
  BY <1>1, FinalUnfolds
<1>4. f[1] = FinalStep(all, 1, f) /\ (2 <= n => f[3] = FinalStep(all, 3, f))
  <2>1. 1 \in 1 .. n + 1 /\ (2 <= n => 3 \in 1 .. n + 1)
    BY <1>1
  <2> QED BY <1>3, <2>1, Zenon
<1>5. SubSeq(all, 1, n) = all
  BY <1>1, SubSeqFull
<1>6. \A i \in {1, 3} : i = d + 1 /\ i < n => all[i].v = v
  <2> SUFFICES ASSUME NEW i \in {1, 3}, i = d + 1, i < n
               PROVE  all[i].v = v
    OBVIOUS
  <2>1. all[i] = At(mode, v, r, t, 1)
    BY <1>1, <1>2 DEF Sends
  <2>2. all[i] = Piece("line", r, v)
    BY <2>1 DEF At, Line
  <2>3. Piece("line", r, v).v = v
    BY PieceFields
  <2> QED BY <2>2, <2>3
<1>7. CASE n < 2
  <2>1. f[1] = 1
    BY <1>1, <1>4, <1>7 DEF FinalStep
  <2> QED BY <1>3, <1>5, <1>7, <2>1
<1>8. CASE n >= 2 /\ d = 0
  <2>1. all[1].v.status >= 200
    BY <1>1, <1>6, <1>8
  <2>2. f[1] = 1
    BY <1>1, <1>4, <1>6, <1>8 DEF FinalStep
  <2> QED BY <1>3, <1>5, <1>8, <2>2
<1>9. CASE n >= 2 /\ d = 2
  <2>1. all[1] = Line(r, InterimHead) /\ all[2] = HeadEnd(r)
    BY <1>1, <1>2, <1>9 DEF Sends
  <2>0. /\ Line(r, InterimHead).k = "line" /\ HeadEnd(r).k = "end"
        /\ Line(r, InterimHead).v = InterimHead
    BY PieceFields DEF Line, HeadEnd
  <2>2. all[1].k = "line" /\ all[2].k = "end" /\ all[1].v = InterimHead
    BY <2>0, <2>1
  <2>3. all[1].v.status = 100
    BY <2>2 DEF InterimHead
  <2>4. 1 < n /\ 1 + 1 = 2 /\ 100 < 200 /\ 1 + 2 = 3
    BY <1>1, <1>9
  <2>5. FinalStep(all, 1, f) = f[3]
    BY <2>2, <2>3, <2>4 DEF FinalStep
  <2>6. f[3] = 3
    BY <1>1, <1>4, <1>6, <1>9 DEF FinalStep
  <2> QED BY <1>3, <1>4, <1>9, <2>5, <2>6
<1> QED BY <1>1, <1>7, <1>8, <1>9

\* The walk over chunks.
ChunkStep(buf, i, f) ==
  IF i > Len(buf) THEN More
  ELSE IF buf[i].k # "size" THEN Bad
  ELSE IF buf[i].v = 0 THEN TrailerEnd(buf, i + 1)
  ELSE IF Len(buf) < i + buf[i].v + 1 THEN More
  ELSE f[i + buf[i].v + 2]

\* ChunkEnd's recursive function, step by step.
LEMMA ChunkUnfolds ==
  ASSUME NEW buf, Len(buf) \in Nat, Len(buf) >= 2,
         \A i \in 3 .. Len(buf) : buf[i].k = "size" => buf[i].v \in Nat
  PROVE  \E f : /\ f = [i \in 3 .. Len(buf) + 1 |-> ChunkStep(buf, i, f)]
                /\ ChunkEnd(buf, 3) = f[3]
<1> DEFINE n == Len(buf)
           m == n + 1
           goes(i) == /\ i <= n /\ buf[i].k = "size" /\ buf[i].v # 0
                      /\ i + buf[i].v + 1 <= n
           here(i) == IF i > n THEN More ELSE IF buf[i].k # "size" THEN Bad
                      ELSE IF buf[i].v = 0 THEN TrailerEnd(buf, i + 1) ELSE More
           stop == {i \in 3 .. m : ~goes(i)}
           val == [i \in 3 .. m |-> here(i)]
           jump == [i \in 3 .. m |-> i + buf[i].v + 2]
           Is(f) == f = [i \in 3 .. Len(buf) + 1 |-> ChunkStep(buf, i, f)]
           walk == CHOOSE f : Is(f)
<1>1. \A i \in 3 .. m : i \in stop \/ jump[i] \in i + 1 .. m
  <2> SUFFICES ASSUME NEW i \in 3 .. m, i \notin stop
               PROVE  jump[i] \in i + 1 .. m
    OBVIOUS
  <2>1. goes(i) /\ jump[i] = i + buf[i].v + 2
    BY Zenon
  <2>2. buf[i].v \in Nat
    BY <2>1
  <2> HIDE DEF stop, jump
  <2> QED BY <2>1, <2>2
<1>2. \E f : IsWalk(f, 3, m, stop, val, jump)
  <2>1. 3 \in Nat /\ m \in Nat /\ 3 <= m
    OBVIOUS
  <2> HIDE DEF stop, val, jump, m
  <2> QED BY <1>1, <2>1, WalkExists
<1>3. \A f : \A i \in 3 .. m : (IF i \in stop THEN val[i] ELSE f[jump[i]]) = ChunkStep(buf, i, f)
  <2> SUFFICES ASSUME NEW f, NEW i \in 3 .. m
               PROVE  (IF i \in stop THEN val[i] ELSE f[jump[i]]) = ChunkStep(buf, i, f)
    OBVIOUS
  <2>1. (i \in stop <=> ~goes(i)) /\ val[i] = here(i) /\ jump[i] = i + buf[i].v + 2
    BY Zenon
  <2>2. i \in Int /\ n \in Int /\ (i <= n => (buf[i].k = "size" => buf[i].v \in Nat))
    OBVIOUS
  <2>3. ChunkStep(buf, i, f) = IF goes(i) THEN f[i + buf[i].v + 2] ELSE here(i)
    BY <2>2 DEF ChunkStep
  <2> HIDE DEF goes, here, stop, val, jump
  <2> QED BY <2>1, <2>3, Zenon
<1>4. \E f : Is(f)
  <2> HIDE DEF stop, val, jump
  <2>1. PICK f : f = [i \in 3 .. m |-> IF i \in stop THEN val[i] ELSE f[jump[i]]]
    BY <1>2 DEF IsWalk
  <2>2. [i \in 3 .. m |-> IF i \in stop THEN val[i] ELSE f[jump[i]]]
          = [i \in 3 .. m |-> ChunkStep(buf, i, f)]
    BY <1>3, Zenon
  <2>3. Is(f)
    BY <2>1, <2>2, Zenon
  <2> QED BY <2>3
<1>5. Is(walk)
  <2> HIDE DEF Is
  <2> QED BY <1>4, Zenon
<1>6. ChunkEnd(buf, 3) = walk[3]
  BY DEF ChunkEnd, ChunkStep
<1> HIDE DEF walk
<1> QED BY <1>5, <1>6

\* The pieces of a body in chunks that a walk meets.
LEMMA ChunkPieces ==
  ASSUME NEW v, NEW r, NEW t, Kind11("chunked", v, r, t, 0),
         NEW buf, Sent11(buf, "chunked", v, r, t, 0, 0)
  PROVE  /\ \A i \in 3 .. Len(buf) : buf[i] = ChunkAt(r, t, i)
         /\ \A i \in 3 .. Len(buf) : buf[i].k = "size" => buf[i].v \in Nat
         /\ Len(buf) >= 3 => buf[3].k = "size" /\ buf[3].v = 1
         /\ Len(buf) >= 6 /\ Zero # 6 => buf[6].k = "size" /\ buf[6].v = BodyLen - 1
         /\ Len(buf) >= Zero => buf[Zero].k = "size" /\ buf[Zero].v = 0
         /\ \A i \in Zero + 1 .. Len(buf) : buf[i].k = "crlf" <=> i = Total("chunked", v, t)
<1> DEFINE n == Len(buf)
           total == Total("chunked", v, t)
<1>1. /\ n \in Nat /\ Zero \in Nat /\ Zero >= 6 /\ BodyLen \in Nat /\ t \in BOOLEAN
      /\ (BodyLen > 1 => Zero = BodyLen + 7) /\ (~(BodyLen > 1) => Zero = 6)
      /\ total = (IF t THEN Zero + 2 ELSE Zero + 1) /\ n <= total /\ total \in Nat
  <2>1. n \in Nat /\ 0 + n <= 0 + total
    BY LenProperties DEF Sent11
  <2>2. t \in BOOLEAN
    BY DEF Kind11
  <2> HIDE DEF n
  <2> QED BY <2>1, <2>2, Sizes
<1>2. \A i \in 1 .. n : buf[i] = Sends("chunked", v, r, t, 0, i)
  BY <1>1 DEF Sent11
<1>3. \A i \in 3 .. n : buf[i] = ChunkAt(r, t, i)
  <2> SUFFICES ASSUME NEW i \in 3 .. n PROVE buf[i] = ChunkAt(r, t, i)
    OBVIOUS
  <2>1. i \in 1 .. n /\ i > 0 /\ i - 0 = i /\ i # 1 /\ i # 2
    BY <1>1
  <2> QED BY <1>2, <2>1 DEF Sends, At
<1>4. /\ Piece("size", r, 1).k = "size" /\ Piece("size", r, 1).v = 1
      /\ Piece("size", r, 0).k = "size" /\ Piece("size", r, 0).v = 0
      /\ Piece("size", r, BodyLen - 1).k = "size" /\ Piece("size", r, BodyLen - 1).v = BodyLen - 1
      /\ Piece("trailer", r, 0).k = "trailer" /\ Crlf(r).k = "crlf"
      /\ \A i : Piece("byte", r, i - 5).k = "byte"
  BY PieceFields DEF Crlf
<1>5. n >= 3 => buf[3].k = "size" /\ buf[3].v = 1
  <2>1. n >= 3 => buf[3] = ChunkAt(r, t, 3)
    BY <1>1, <1>3
  <2> QED BY <1>4, <2>1 DEF ChunkAt
<1>6. n >= 6 /\ Zero # 6 => buf[6].k = "size" /\ buf[6].v = BodyLen - 1
  <2>1. n >= 6 => buf[6] = ChunkAt(r, t, 6)
    BY <1>1, <1>3
  <2>2. Zero # 6 => ~(6 > Zero) /\ 6 # Zero
    BY <1>1
  <2>3. Zero # 6 => ChunkAt(r, t, 6) = Piece("size", r, BodyLen - 1)
    BY <2>2 DEF ChunkAt
  <2> QED BY <1>4, <2>1, <2>3
<1>7. n >= Zero => buf[Zero].k = "size" /\ buf[Zero].v = 0
  <2>1. n >= Zero => buf[Zero] = ChunkAt(r, t, Zero)
    BY <1>1, <1>3
  <2>2. Zero # 3 /\ Zero # 4 /\ Zero # 5
    BY <1>1
  <2>3. ChunkAt(r, t, Zero) = Piece("size", r, 0)
    BY <2>2, Zenon DEF ChunkAt
  <2> QED BY <1>4, <2>1, <2>3
<1>8. ASSUME NEW i \in Zero + 1 .. n
      PROVE  buf[i].k = "crlf" <=> i = total
  <2>1. /\ i \in 3 .. n /\ i # 3 /\ i # 4 /\ i # 5 /\ i # Zero /\ i > Zero
        /\ i = total <=> ~(t /\ i = Zero + 1)
    BY <1>1
  <2>2. ChunkAt(r, t, i) = IF t /\ i = Zero + 1 THEN Piece("trailer", r, 0) ELSE Crlf(r)
    BY <2>1, Zenon DEF ChunkAt
  <2>3. buf[i] = IF t /\ i = Zero + 1 THEN Piece("trailer", r, 0) ELSE Crlf(r)
    BY <1>3, <2>1, <2>2
  <2> QED BY <1>4, <2>1, <2>3
<1>9. ASSUME NEW i \in 3 .. n, buf[i].k = "size"
      PROVE  buf[i].v \in Nat
  <2>1. buf[i] = ChunkAt(r, t, i) /\ BodyLen - 1 \in Nat
    BY <1>1, <1>3, H1Assumption
  <2>2. CASE i \in {3, 6, Zero}
    <3>1. (i = 3 => buf[i].v = 1) /\ (i = Zero => buf[i].v = 0)
          /\ (i = 6 /\ i # Zero => buf[i].v = BodyLen - 1)
      BY <1>1, <1>5, <1>6, <1>7
    <3> QED BY <2>1, <2>2, <3>1
  <2>3. CASE i \notin {3, 6, Zero}
    <3>1. i # 3 /\ i # 6 /\ i # Zero
      BY <2>3
    <3>2. buf[i] \in {Piece("byte", r, 1), Crlf(r), Piece("trailer", r, 0), Piece("byte", r, i - 5)}
      BY <2>1, <3>1 DEF ChunkAt
    <3>3. Piece("byte", r, 1).k = "byte"
      BY PieceFields
    <3> QED BY <1>4, <1>9, <3>2, <3>3
  <2> QED BY <2>2, <2>3
<1> QED BY <1>3, <1>5, <1>6, <1>7, <1>8, <1>9

\* A body in chunks ends where it does, and nowhere before.
LEMMA ChunkEndAt ==
  ASSUME NEW v, NEW r, NEW t, Kind11("chunked", v, r, t, 0),
         NEW buf, Sent11(buf, "chunked", v, r, t, 0, 0), Len(buf) >= 2
  PROVE  ChunkEnd(buf, 3) = IF Len(buf) = Total("chunked", v, t)
                              THEN Total("chunked", v, t) + 1 ELSE More
<1> DEFINE n == Len(buf)
           total == Total("chunked", v, t)
<1>1. /\ n \in Nat /\ n >= 2 /\ Zero \in Nat /\ Zero >= 6 /\ BodyLen \in Nat /\ BodyLen > 0
      /\ t \in BOOLEAN
      /\ (BodyLen > 1 => Zero = BodyLen + 7) /\ (~(BodyLen > 1) => Zero = 6)
      /\ total = (IF t THEN Zero + 2 ELSE Zero + 1) /\ n <= total /\ total \in Nat
  <2>1. n \in Nat /\ 0 + n <= 0 + total /\ n >= 2
    BY LenProperties DEF Sent11
  <2>2. t \in BOOLEAN
    BY DEF Kind11
  <2> HIDE DEF n
  <2> QED BY <2>1, <2>2, Sizes
<1>2. PICK f : /\ f = [i \in 3 .. n + 1 |-> ChunkStep(buf, i, f)]
               /\ ChunkEnd(buf, 3) = f[3]
  BY <1>1, ChunkPieces, ChunkUnfolds
<1>3. \A i \in 3 .. n + 1 : f[i] = ChunkStep(buf, i, f)
  BY <1>2, Zenon
<1>4. TrailerEnd(buf, Zero + 1) = IF n = total THEN total + 1 ELSE More
  <2> DEFINE at == {j \in Zero + 1 .. n : buf[j].k = "crlf"}
  <2>1. \A j \in Zero + 1 .. n : buf[j].k = "crlf" <=> j = total
    BY ChunkPieces
  <2>2. at = IF n = total THEN {total} ELSE {}
    BY <1>1, <2>1
  <2>3. TrailerEnd(buf, Zero + 1)
          = IF at = {} THEN More ELSE (CHOOSE j \in at : \A m \in at : j <= m) + 1
    BY DEF TrailerEnd
  <2> HIDE DEF at
  <2>4. CASE n = total
    <3>1. at = {total} /\ total <= total
      BY <1>1, <2>2, <2>4
    <3>2. \E j \in at : \A m \in at : j <= m
      BY <3>1
    <3>3. (CHOOSE j \in at : \A m \in at : j <= m) \in at
      BY <3>2, Zenon
    <3>4. (CHOOSE j \in at : \A m \in at : j <= m) = total /\ at # {}
      BY <3>1, <3>3
    <3> QED BY <2>3, <2>4, <3>4
  <2> QED BY <2>2, <2>3, <2>4
<1>5. /\ n >= 3 => buf[3].k = "size" /\ buf[3].v = 1
      /\ n >= 6 /\ Zero # 6 => buf[6].k = "size" /\ buf[6].v = BodyLen - 1
      /\ n >= Zero => buf[Zero].k = "size" /\ buf[Zero].v = 0
  BY ChunkPieces
<1>6. n + 1 >= Zero => f[Zero] = IF n = total THEN total + 1 ELSE More
  <2> SUFFICES ASSUME n + 1 >= Zero
               PROVE  f[Zero] = IF n = total THEN total + 1 ELSE More
    OBVIOUS
  <2>1. f[Zero] = ChunkStep(buf, Zero, f)
    BY <1>1, <1>3
  <2> QED BY <1>1, <1>4, <1>5, <2>1 DEF ChunkStep
<1>7. n < total => n # total
  BY <1>1
<1>8. n < 5 => f[3] = More
  <2>1. f[3] = ChunkStep(buf, 3, f)
    BY <1>1, <1>3
  <2> QED BY <1>1, <1>5, <2>1 DEF ChunkStep
<1>9. n >= 5 => f[3] = f[6]
  <2>1. f[3] = ChunkStep(buf, 3, f)
    BY <1>1, <1>3
  <2> QED BY <1>1, <1>5, <2>1 DEF ChunkStep
<1>10. n >= 5 /\ Zero # 6 => f[6] = IF n < BodyLen + 6 THEN More ELSE f[Zero]
  <2> SUFFICES ASSUME n >= 5, Zero # 6
               PROVE  f[6] = IF n < BodyLen + 6 THEN More ELSE f[Zero]
    OBVIOUS
  <2>1. f[6] = ChunkStep(buf, 6, f)
    BY <1>1, <1>3
  <2>2. 6 + (BodyLen - 1) + 1 = BodyLen + 6 /\ 6 + (BodyLen - 1) + 2 = Zero /\ BodyLen - 1 # 0
    BY <1>1
  <2>3. n < 6 => f[6] = More
    BY <1>1, <2>1 DEF ChunkStep
  <2>4. n >= 6 => f[6] = IF n < BodyLen + 6 THEN More ELSE f[Zero]
    BY <1>1, <1>5, <2>1, <2>2 DEF ChunkStep
  <2> QED BY <1>1, <2>3, <2>4
<1> QED BY <1>1, <1>2, <1>6, <1>8, <1>9, <1>10

\* How many bytes of the body are among the first i pieces.
Count(mode, i) ==
  IF i <= 2 THEN 0
  ELSE IF mode # "chunked" THEN i - 2
  ELSE IF i = 3 THEN 0
  ELSE IF i <= 6 THEN 1
  ELSE IF i <= BodyLen + 5 THEN i - 5
  ELSE BodyLen

\* A byte of the body is the next one, and any other piece is no byte.
LEMMA CountSteps ==
  ASSUME NEW mode, NEW v, NEW r, NEW t, Kind11(mode, v, r, t, 0),
         NEW buf, Sent11(buf, mode, v, r, t, 0, 0), NEW i \in 3 .. Len(buf)
  PROVE  /\ Count(mode, i - 1) \in Nat
         /\ IF buf[i].k = "byte"
              THEN /\ Count(mode, i) = Count(mode, i - 1) + 1
                   /\ buf[i] = Piece("byte", r, Count(mode, i))
              ELSE Count(mode, i) = Count(mode, i - 1)
<1>1. /\ Len(buf) \in Nat /\ i \in Nat /\ i >= 3 /\ i - 0 = i /\ i > 0 /\ i # 1 /\ i # 2
      /\ i <= Total(mode, v, t) /\ t \in BOOLEAN
  <2>1. Len(buf) \in Nat /\ 0 + Len(buf) <= 0 + Total(mode, v, t)
    BY LenProperties DEF Sent11
  <2>2. Total(mode, v, t) \in Nat
    BY Sizes
  <2>3. t \in BOOLEAN
    BY DEF Kind11
  <2> QED BY <2>1, <2>2, <2>3
<1>2. buf[i] = At(mode, v, r, t, i)
  <2>1. buf[i] = Sends(mode, v, r, t, 0, i)
    BY <1>1 DEF Sent11
  <2> QED BY <1>1, <2>1 DEF Sends
<1>3. CASE mode # "chunked"
  <2>1. buf[i] = Piece("byte", r, i - 2)
    BY <1>1, <1>2, <1>3 DEF At
  <2>2. buf[i].k = "byte"
    BY <2>1, PieceFields
  <2>3. Count(mode, i) = i - 2 /\ Count(mode, i - 1) = i - 3
    BY <1>1, <1>3 DEF Count
  <2> QED BY <1>1, <2>1, <2>2, <2>3
<1>4. CASE mode = "chunked"
  <2>1. buf[i] = ChunkAt(r, t, i)
    BY <1>1, <1>2, <1>4, Zenon DEF At
  <2>2. /\ BodyLen \in Nat /\ BodyLen > 0 /\ Zero \in Nat /\ Zero >= 6
        /\ (BodyLen > 1 => Zero = BodyLen + 7) /\ (~(BodyLen > 1) => Zero = 6)
    BY Sizes
  <2>3. /\ \A j : Piece("size", r, j).k # "byte" /\ Piece("byte", r, j).k = "byte"
        /\ Piece("trailer", r, 0).k # "byte" /\ Crlf(r).k # "byte"
    BY PieceFields DEF Crlf
  <2>4. CASE i \in {3, 5, 6, Zero}
    <3>1. i # 4 /\ (i = 3 \/ i = 5 \/ i = 6 \/ i = Zero)
      BY <2>2, <2>4
    <3>2. (i = 6 /\ i # Zero) => ~(i > Zero)
      BY <1>1, <2>2
    <3>3. buf[i] \in {Piece("size", r, 1), Crlf(r), Piece("size", r, 0),
                      Piece("size", r, BodyLen - 1)}
      <4>1. CASE i = 6 /\ i # Zero
        <5>1. buf[i] = Piece("size", r, BodyLen - 1)
          BY <2>1, <3>2, <4>1 DEF ChunkAt
        <5> QED BY <5>1
      <4>2. CASE i = Zero
        <5>1. i # 3 /\ i # 4 /\ i # 5
          BY <2>2, <4>2
        <5> QED BY <2>1, <4>2, <5>1 DEF ChunkAt
      <4>3. CASE i = 3 \/ i = 5
        BY <2>1, <4>3 DEF ChunkAt
      <4> QED BY <3>1, <4>1, <4>2, <4>3
    <3>4. buf[i].k # "byte"
      BY <2>3, <3>3
    <3>5. Count(mode, i) = Count(mode, i - 1) /\ Count(mode, i - 1) \in Nat
      BY <1>1, <1>4, <2>2, <2>4 DEF Count
    <3> QED BY <3>4, <3>5
  <2>5. CASE i > Zero
    <3>1. i # 3 /\ i # 4 /\ i # 5 /\ i # Zero
      BY <2>2, <2>5
    <3>2. buf[i] \in {Crlf(r), Piece("trailer", r, 0)}
      BY <2>1, <2>5, <3>1 DEF ChunkAt
    <3>3. Count(mode, i) = Count(mode, i - 1) /\ Count(mode, i - 1) \in Nat
      BY <1>1, <1>4, <2>2, <2>5 DEF Count
    <3> QED BY <2>3, <3>2, <3>3
  <2>6. CASE i < Zero /\ i # 3 /\ i # 4 /\ i # 5 /\ i # 6 /\ i = Zero - 1
    <3>1. ~(i > Zero) /\ i # Zero
      BY <1>1, <2>2, <2>6
    <3>2. buf[i] = Crlf(r)
      BY <2>1, <2>6, <3>1 DEF ChunkAt
    <3>3. Count(mode, i) = Count(mode, i - 1) /\ Count(mode, i - 1) \in Nat
      BY <1>1, <1>4, <2>2, <2>6 DEF Count
    <3> QED BY <2>3, <3>2, <3>3
  <2>7. CASE i = 4
    <3>1. buf[i] = Piece("byte", r, 1)
      BY <2>1, <2>7 DEF ChunkAt
    <3>2. Count(mode, i) = 1 /\ Count(mode, i - 1) = 0
      BY <1>4, <2>7 DEF Count
    <3> QED BY <2>3, <3>1, <3>2
  <2>8. CASE i < Zero /\ i # 3 /\ i # 4 /\ i # 5 /\ i # 6 /\ i # Zero - 1
    <3>1. ~(i > Zero) /\ i # Zero
      BY <1>1, <2>2, <2>8
    <3>2. buf[i] = Piece("byte", r, i - 5)
      BY <2>1, <2>8, <3>1 DEF ChunkAt
    <3>3. Count(mode, i) = i - 5 /\ Count(mode, i - 1) = i - 6 /\ i - 6 \in Nat
      BY <1>1, <1>4, <2>2, <2>8 DEF Count
    <3> QED BY <1>1, <2>3, <3>2, <3>3
  <2> QED BY <1>1, <2>2, <2>4, <2>5, <2>6, <2>7, <2>8
<1> QED BY <1>3, <1>4

\* A body grows by its next byte.
LEMMA BytesAppend ==
  ASSUME NEW r \in {0, 1}, NEW n \in Nat
  PROVE  /\ Bytes(r, 0) = <<>>
         /\ Append(Bytes(r, n), Piece("byte", r, n + 1)) = Bytes(r, n + 1)
<1>1. "byte" \in Kinds
  BY DEF Kinds
<1>2. \A i \in Int : Piece("byte", r, i) \in Pieces
  BY <1>1, PieceOK
<1>3. Bytes(r, 0) = <<>>
  BY DEF Bytes
<1>4. Bytes(r, n) \in [1 .. n -> Pieces] /\ Bytes(r, n + 1) \in [1 .. n + 1 -> Pieces]
  BY <1>2 DEF Bytes
<1>5. /\ Bytes(r, n) \in Seq(Pieces) /\ Len(Bytes(r, n)) = n
      /\ Bytes(r, n + 1) \in Seq(Pieces) /\ Len(Bytes(r, n + 1)) = n + 1
  BY <1>4, FunctionIsSeq
<1>6. /\ \A i \in 1 .. n : Bytes(r, n)[i] = Piece("byte", r, i)
      /\ \A i \in 1 .. n + 1 : Bytes(r, n + 1)[i] = Piece("byte", r, i)
  BY DEF Bytes
<1> DEFINE a == Append(Bytes(r, n), Piece("byte", r, n + 1))
<1>7. /\ a \in Seq(Pieces) /\ Len(a) = n + 1
      /\ \A i \in 1 .. n : a[i] = Bytes(r, n)[i]
      /\ a[n + 1] = Piece("byte", r, n + 1)
  BY <1>2, <1>5
<1> HIDE DEF a
<1>8. \A i \in 1 .. n + 1 : a[i] = Bytes(r, n + 1)[i]
  BY <1>6, <1>7
<1>9. a = Bytes(r, n + 1)
  BY <1>5, <1>7, <1>8, SeqEqual
<1> QED BY <1>3, <1>9 DEF a

\* dechunk: the bytes of the body, in order.
EntityStep(buf, i, f) ==
  IF i = 2 THEN <<>> ELSE IF buf[i].k = "byte" THEN Append(f[i - 1], buf[i]) ELSE f[i - 1]

\* dechunk finds the bytes of the body, in order and nothing else.
LEMMA EntityAt ==
  ASSUME NEW mode, NEW v, NEW r, NEW t, Kind11(mode, v, r, t, 0),
         NEW buf, Sent11(buf, mode, v, r, t, 0, 0), NEW end \in 3 .. Len(buf) + 1
  PROVE  Entity(buf, end) = Bytes(r, Count(mode, end - 1))
<1> DEFINE last == end - 1
           Is(f) == f = [i \in 2 .. end - 1 |-> EntityStep(buf, i, f)]
           want == [i \in 2 .. last |-> Bytes(r, Count(mode, i))]
           data == CHOOSE f : Is(f)
<1>1. /\ Len(buf) \in Nat /\ last \in Nat /\ last >= 2 /\ last <= Len(buf) /\ r \in {0, 1}
      /\ end - 1 = last
  BY LenProperties DEF Sent11, Kind11
<1>2. Bytes(r, Count(mode, 2)) = <<>>
  <2>1. Count(mode, 2) = 0
    BY DEF Count
  <2> QED BY <1>1, <2>1, BytesAppend
<1>3. ASSUME NEW i \in 3 .. last
      PROVE  Bytes(r, Count(mode, i)) = IF buf[i].k = "byte"
                                          THEN Append(Bytes(r, Count(mode, i - 1)), buf[i])
                                          ELSE Bytes(r, Count(mode, i - 1))
  <2>1. i \in 3 .. Len(buf)
    BY <1>1
  <2> DEFINE c == Count(mode, i)
             b == Count(mode, i - 1)
  <2>2. b \in Nat /\ IF buf[i].k = "byte" THEN c = b + 1 /\ buf[i] = Piece("byte", r, c)
                                         ELSE c = b
    BY <2>1, CountSteps
  <2> HIDE DEF b, c
  <2>3. Append(Bytes(r, b), Piece("byte", r, b + 1)) = Bytes(r, b + 1)
    BY <1>1, <2>2, BytesAppend
  <2>4. Bytes(r, c) = IF buf[i].k = "byte" THEN Append(Bytes(r, b), buf[i]) ELSE Bytes(r, b)
    BY <2>2, <2>3
  <2> QED BY <2>4 DEF b, c
<1>4. Is(want)
  <2>1. \A i \in 2 .. last : want[i] = EntityStep(buf, i, want)
    <3> SUFFICES ASSUME NEW i \in 2 .. last
                 PROVE  want[i] = EntityStep(buf, i, want)
      OBVIOUS
    <3>1. want[i] = Bytes(r, Count(mode, i))
      OBVIOUS
    <3>2. CASE i = 2
      BY <1>2, <3>1, <3>2 DEF EntityStep
    <3>3. CASE i # 2
      <4>1. i \in 3 .. last /\ i - 1 \in 2 .. last
        BY <1>1, <3>3
      <4>2. want[i - 1] = Bytes(r, Count(mode, i - 1))
        BY <4>1
      <4> HIDE DEF want
      <4> QED BY <1>3, <3>1, <3>3, <4>1, <4>2 DEF EntityStep
    <3> QED BY <3>2, <3>3
  <2>2. want = [i \in 2 .. last |-> want[i]]
    OBVIOUS
  <2> HIDE DEF want
  <2> QED BY <2>1, <2>2, <1>1
<1>5. Is(data)
  <2> HIDE DEF Is, want
  <2> QED BY <1>4, Zenon
<1>6. Entity(buf, end) = data[last]
  BY DEF Entity, EntityStep
<1> HIDE DEF data
<1> DEFINE T == {n \in Nat : n + 2 > last \/ data[n + 2] = Bytes(r, Count(mode, n + 2))}
<1>7. \A i \in 2 .. last : data[i] = EntityStep(buf, i, data)
  <2>1. data = [i \in 2 .. last |-> EntityStep(buf, i, data)]
    BY <1>5
  <2> QED BY <2>1, Zenon
<1>8. 0 \in T
  <2>1. 2 \in 2 .. last /\ 0 + 2 = 2
    BY <1>1
  <2>2. data[2] = <<>>
    BY <1>7, <2>1 DEF EntityStep
  <2> QED BY <1>2, <2>1, <2>2
<1>9. ASSUME NEW n \in Nat, n \in T PROVE n + 1 \in T
  <2> SUFFICES ASSUME n + 3 <= last
               PROVE  data[n + 3] = Bytes(r, Count(mode, n + 3))
    BY <1>1
  <2>1. /\ n + 3 \in 3 .. last /\ n + 3 \in 2 .. last /\ n + 3 - 1 = n + 2
        /\ n + 3 # 2 /\ ~(n + 2 > last)
    BY <1>1
  <2>2. data[n + 2] = Bytes(r, Count(mode, n + 2))
    BY <1>9, <2>1
  <2>3. data[n + 3] = IF buf[n + 3].k = "byte" THEN Append(data[n + 2], buf[n + 3]) ELSE data[n + 2]
    BY <1>7, <2>1 DEF EntityStep
  <2>4. Bytes(r, Count(mode, n + 3))
          = IF buf[n + 3].k = "byte" THEN Append(Bytes(r, Count(mode, n + 3 - 1)), buf[n + 3])
            ELSE Bytes(r, Count(mode, n + 3 - 1))
    <3> DEFINE i == n + 3
    <3>1. i \in 3 .. last
      BY <2>1
    <3> HIDE DEF i
    <3>2. Bytes(r, Count(mode, i)) = IF buf[i].k = "byte"
                                       THEN Append(Bytes(r, Count(mode, i - 1)), buf[i])
                                       ELSE Bytes(r, Count(mode, i - 1))
      BY <1>3, <3>1
    <3> QED BY <3>2 DEF i
  <2> QED BY <2>1, <2>2, <2>3, <2>4
<1> HIDE DEF T
<1>10. last - 2 \in T
  BY <1>1, <1>8, <1>9, NaturalsClosed
<1>11. last - 2 + 2 = last
  BY <1>1
<1>12. data[last] = Bytes(r, Count(mode, last))
  BY <1>1, <1>10, <1>11 DEF T
<1> QED BY <1>6, <1>12

-----------------------------------------------------------------------------
(***************************************************************************)
(* What the server sends, place by place.                                  *)
(***************************************************************************)
LEMMA OnePiece ==
  ASSUME NEW p \in Pieces
  PROVE  <<p>> \in Seq(Pieces) /\ Len(<<p>>) = 1 /\ <<p>>[1] = p
OBVIOUS

IsJoin(z, x, m, y, n) ==
  /\ z \in Seq(Pieces) /\ Len(z) = m + n
  /\ \A i \in 1 .. m + n : z[i] = IF i <= m THEN x[i] ELSE y[i - m]

LEMMA Joined ==
  ASSUME NEW x \in Seq(Pieces), NEW y \in Seq(Pieces), NEW m, NEW n, Len(x) = m, Len(y) = n
  PROVE  IsJoin(x \o y, x, m, y, n)
BY ConcatProperties DEF IsJoin

LEMMA IntPieces ==
  ASSUME NEW r \in {0, 1}, NEW x \in Int
  PROVE  /\ Piece("byte", r, x) \in Pieces /\ Piece("size", r, x) \in Pieces
         /\ Piece("trailer", r, x) \in Pieces /\ Crlf(r) \in Pieces
<1>1. {"size", "byte", "crlf", "trailer"} \subseteq Kinds
  BY DEF Kinds
<1> QED BY <1>1, PieceOK DEF Crlf

LEMMA BytesPlaces ==
  ASSUME NEW r \in {0, 1}, NEW n \in Nat, NEW from \in Nat
  PROVE  LET b == [i \in 1 .. n |-> Piece("byte", r, from + i)]
         IN /\ b \in Seq(Pieces) /\ Len(b) = n
            /\ \A i \in 1 .. n : b[i] = Piece("byte", r, from + i)
<1> DEFINE b == [i \in 1 .. n |-> Piece("byte", r, from + i)]
<1>1. \A i \in 1 .. n : Piece("byte", r, from + i) \in Pieces
  BY IntPieces
<1>2. b \in [1 .. n -> Pieces]
  BY <1>1
<1>3. \A i \in 1 .. n : b[i] = Piece("byte", r, from + i)
  OBVIOUS
<1> HIDE DEF b
<1>4. b \in Seq(Pieces) /\ Len(b) = n
  BY <1>2, FunctionIsSeq
<1> QED BY <1>3, <1>4 DEF b

IsChunk(c, r, n, from) ==
  /\ c \in Seq(Pieces) /\ Len(c) = n + 2
  /\ c[1] = Piece("size", r, n) /\ c[n + 2] = Crlf(r)
  /\ \A i \in 2 .. n + 1 : c[i] = Piece("byte", r, from + (i - 1))

\* A chunk, place by place.
LEMMA ChunkPlaces ==
  ASSUME NEW r \in {0, 1}, NEW n \in Nat, NEW from \in Nat
  PROVE  IsChunk(Chunk(r, n, from), r, n, from)
<1> DEFINE b == [i \in 1 .. n |-> Piece("byte", r, from + i)]
           s == <<Piece("size", r, n)>>
           e == <<Crlf(r)>>
           sb == s \o b
           c == sb \o e
<1>1. /\ b \in Seq(Pieces) /\ Len(b) = n
      /\ \A i \in 1 .. n : b[i] = Piece("byte", r, from + i)
  BY BytesPlaces
<1>2. s \in Seq(Pieces) /\ Len(s) = 1 /\ s[1] = Piece("size", r, n)
  BY IntPieces, OnePiece
<1>3. e \in Seq(Pieces) /\ Len(e) = 1 /\ e[1] = Crlf(r)
  BY IntPieces, OnePiece
<1>4. Chunk(r, n, from) = c
  BY DEF Chunk
<1> HIDE DEF b, s, e
<1>5. /\ sb \in Seq(Pieces) /\ Len(sb) = 1 + n
      /\ \A i \in 1 .. 1 + n : sb[i] = IF i <= 1 THEN s[i] ELSE b[i - 1]
  <2>1. IsJoin(sb, s, 1, b, n)
    BY <1>1, <1>2, Joined
  <2> HIDE DEF sb
  <2> QED BY <2>1 DEF IsJoin
<1> HIDE DEF sb
<1>6. /\ c \in Seq(Pieces) /\ Len(c) = (1 + n) + 1
      /\ \A i \in 1 .. (1 + n) + 1 : c[i] = IF i <= 1 + n THEN sb[i] ELSE e[i - (1 + n)]
  <2>1. IsJoin(c, sb, 1 + n, e, 1)
    BY <1>3, <1>5, Joined
  <2> HIDE DEF c
  <2> QED BY <2>1 DEF IsJoin
<1> HIDE DEF c
<1>7. c[1] = Piece("size", r, n)
  BY <1>2, <1>5, <1>6
<1>8. c[n + 2] = Crlf(r)
  BY <1>3, <1>6
<1>9. ASSUME NEW i \in 2 .. n + 1 PROVE c[i] = Piece("byte", r, from + (i - 1))
  <2>1. i \in 1 .. (1 + n) + 1 /\ i <= 1 + n /\ ~(i <= 1) /\ i \in 1 .. 1 + n /\ i - 1 \in 1 .. n
    OBVIOUS
  <2> QED BY <1>1, <1>5, <1>6, <2>1
<1>10. IsChunk(c, r, n, from)
  <2>1. (1 + n) + 1 = n + 2
    OBVIOUS
  <2> QED BY <1>6, <1>7, <1>8, <1>9, <2>1 DEF IsChunk
<1> QED BY <1>4, <1>10

\* A body in chunks, place by place.
LEMMA ChunkedPlaces ==
  ASSUME NEW r \in {0, 1}, NEW t \in BOOLEAN
  PROVE  LET c == Chunked(r, t)
         IN /\ c \in Seq(Pieces) /\ Len(c) = ChunkTotal(t) - 2
            /\ \A i \in 1 .. Len(c) : c[i] = ChunkAt(r, t, i + 2)
<1> DEFINE a == Chunk(r, 1, 0)
           b == IF BodyLen > 1 THEN Chunk(r, BodyLen - 1, 1) ELSE <<>>
           z == <<Piece("size", r, 0)>>
           g == IF t THEN <<Piece("trailer", r, 0)>> ELSE <<>>
           e == <<Crlf(r)>>
           q1 == a \o b
           q2 == q1 \o z
           q3 == q2 \o g
           q4 == q3 \o e
           l1 == Zero - 3
           l3 == Zero - 2 + (IF t THEN 1 ELSE 0)
<1>0. /\ BodyLen \in Nat /\ BodyLen > 0 /\ Zero \in Nat /\ Zero >= 6
      /\ (BodyLen > 1 => Zero = BodyLen + 7) /\ (~(BodyLen > 1) => Zero = 6)
      /\ ChunkTotal(t) = (IF t THEN Zero + 2 ELSE Zero + 1)
  BY H1Assumption DEF Zero, ChunkTotal
<1>1. /\ a \in Seq(Pieces) /\ Len(a) = 3
      /\ a[1] = Piece("size", r, 1) /\ a[2] = Piece("byte", r, 1) /\ a[3] = Crlf(r)
  <2>1. IsChunk(a, r, 1, 0)
    BY ChunkPlaces
  <2> HIDE DEF a
  <2> QED BY <2>1 DEF IsChunk
<1>2. /\ b \in Seq(Pieces) /\ Len(b) = (IF BodyLen > 1 THEN BodyLen + 1 ELSE 0)
      /\ BodyLen > 1 => /\ b[1] = Piece("size", r, BodyLen - 1) /\ b[BodyLen + 1] = Crlf(r)
                        /\ \A i \in 2 .. BodyLen : b[i] = Piece("byte", r, i)
  <2>1. CASE BodyLen > 1
    <3>1. BodyLen - 1 \in Nat /\ BodyLen - 1 + 2 = BodyLen + 1 /\ BodyLen - 1 + 1 = BodyLen
      BY <1>0
    <3>2. \A i \in 2 .. BodyLen : 1 + (i - 1) = i
      BY <1>0
    <3>3. b = Chunk(r, BodyLen - 1, 1)
      BY <2>1
    <3> DEFINE m == BodyLen - 1
    <3> HIDE DEF b
    <3>4. /\ b \in Seq(Pieces) /\ Len(b) = m + 2
          /\ b[1] = Piece("size", r, m) /\ b[m + 2] = Crlf(r)
          /\ \A i \in 2 .. m + 1 : b[i] = Piece("byte", r, 1 + (i - 1))
      <4>1. m \in Nat
        BY <3>1
      <4> HIDE DEF m
      <4>2. IsChunk(Chunk(r, m, 1), r, m, 1)
        BY <4>1, ChunkPlaces
      <4>3. b = Chunk(r, m, 1)
        BY <3>3 DEF m
      <4> QED BY <4>2, <4>3 DEF IsChunk
    <3> QED BY <2>1, <3>1, <3>2, <3>4
  <2>2. CASE ~(BodyLen > 1)
    BY <2>2
  <2> QED BY <2>1, <2>2
<1>3. z \in Seq(Pieces) /\ Len(z) = 1 /\ z[1] = Piece("size", r, 0)
  BY IntPieces, OnePiece
<1>4. /\ g \in Seq(Pieces) /\ Len(g) = (IF t THEN 1 ELSE 0)
      /\ t => g[1] = Piece("trailer", r, 0)
  BY IntPieces, OnePiece
<1>5. e \in Seq(Pieces) /\ Len(e) = 1 /\ e[1] = Crlf(r)
  BY IntPieces, OnePiece
<1>6. Chunked(r, t) = q4
  BY DEF Chunked
<1> HIDE DEF a, b, z, g, e
<1>7. /\ q1 \in Seq(Pieces) /\ Len(q1) = l1
      /\ \A i \in 1 .. l1 : q1[i] = IF i <= 3 THEN a[i] ELSE b[i - 3]
  <2>1. Len(a) + Len(b) = l1
    BY <1>0, <1>1, <1>2
  <2>2. IsJoin(q1, a, 3, b, Len(b))
    BY <1>1, <1>2, Joined
  <2>3. 3 + Len(b) = l1
    BY <1>1, <2>1
  <2> HIDE DEF q1, l1
  <2> QED BY <2>2, <2>3 DEF IsJoin
<1>8. l1 \in Nat /\ l1 >= 3 /\ l1 = Zero - 3
  BY <1>0
<1> HIDE DEF q1, l1
<1>9. /\ q2 \in Seq(Pieces) /\ Len(q2) = l1 + 1
      /\ \A i \in 1 .. l1 + 1 : q2[i] = IF i <= l1 THEN q1[i] ELSE z[i - l1]
  <2>1. IsJoin(q2, q1, l1, z, 1)
    BY <1>3, <1>7, Joined
  <2> HIDE DEF q2
  <2> QED BY <2>1 DEF IsJoin
<1> HIDE DEF q2
<1>10. /\ q3 \in Seq(Pieces) /\ Len(q3) = l3
       /\ \A i \in 1 .. l3 : q3[i] = IF i <= l1 + 1 THEN q2[i] ELSE g[i - (l1 + 1)]
  <2>1. (l1 + 1) + Len(g) = l3
    BY <1>0, <1>4, <1>8
  <2>2. IsJoin(q3, q2, l1 + 1, g, Len(g))
    BY <1>4, <1>9, Joined
  <2> HIDE DEF q3, l3
  <2> QED BY <2>1, <2>2 DEF IsJoin
<1>11. l3 \in Nat /\ l3 = l1 + 1 + (IF t THEN 1 ELSE 0)
  BY <1>0, <1>8 DEF l3
<1> HIDE DEF q3, l3
<1>12. /\ q4 \in Seq(Pieces) /\ Len(q4) = l3 + 1
       /\ \A i \in 1 .. l3 + 1 : q4[i] = IF i <= l3 THEN q3[i] ELSE e[i - l3]
  <2>1. IsJoin(q4, q3, l3, e, 1)
    BY <1>5, <1>10, Joined
  <2> HIDE DEF q4
  <2> QED BY <2>1 DEF IsJoin
<1> HIDE DEF q4
<1>13. l3 + 1 = ChunkTotal(t) - 2
  BY <1>0, <1>8, <1>11
<1>14. ASSUME NEW i \in 1 .. l3 + 1 PROVE q4[i] = ChunkAt(r, t, i + 2)
  <2>0. i \in Nat /\ i >= 1 /\ i <= l3 + 1
    BY <1>11
  <2>1. CASE i <= 3
    <3>0. /\ i \in 1 .. l1 /\ i \in 1 .. l1 + 1 /\ i \in 1 .. l3 /\ i \in 1 .. l3 + 1
          /\ i <= l1 /\ i <= l1 + 1 /\ i <= l3
      BY <1>8, <1>11, <2>0, <2>1
    <3>1. q4[i] = a[i]
      BY <1>7, <1>9, <1>10, <1>12, <2>1, <3>0
    <3>2. i = 1 \/ i = 2 \/ i = 3
      BY <2>0, <2>1
    <3> QED BY <1>1, <3>1, <3>2 DEF ChunkAt
  <2>2. CASE i > 3 /\ i <= l1
    <3>1. q4[i] = b[i - 3]
      BY <1>7, <1>8, <1>9, <1>10, <1>11, <1>12, <2>0, <2>2
    <3>2. /\ BodyLen > 1 /\ Zero = BodyLen + 7
          /\ i + 2 # 3 /\ i + 2 # 4 /\ i + 2 # 5 /\ i + 2 # Zero
          /\ ~(i + 2 > Zero) /\ i - 3 \in 1 .. BodyLen + 1
          /\ (i + 2 = 6 <=> i - 3 = 1) /\ (i + 2 = Zero - 1 <=> i - 3 = BodyLen + 1)
          /\ i + 2 - 5 = i - 3 /\ BodyLen + 1 # 1
      BY <1>0, <1>8, <2>0, <2>2
    <3>3. b[i - 3] = IF i - 3 = 1 THEN Piece("size", r, BodyLen - 1)
                     ELSE IF i - 3 = BodyLen + 1 THEN Crlf(r) ELSE Piece("byte", r, i - 3)
      BY <1>0, <1>2, <3>2
    <3>4. ChunkAt(r, t, i + 2)
            = IF i + 2 = 6 THEN Piece("size", r, BodyLen - 1)
              ELSE IF i + 2 = Zero - 1 THEN Crlf(r) ELSE Piece("byte", r, i + 2 - 5)
      BY <3>2 DEF ChunkAt
    <3> QED BY <3>1, <3>2, <3>3, <3>4
  <2>3. CASE i = l1 + 1
    <3>1. q4[i] = z[1]
      BY <1>8, <1>9, <1>10, <1>11, <1>12, <2>0, <2>3
    <3>2. i + 2 = Zero /\ Zero # 3 /\ Zero # 4 /\ Zero # 5
      BY <1>0, <1>8, <2>3
    <3> QED BY <1>3, <3>1, <3>2 DEF ChunkAt
  <2>4. CASE i = l1 + 2 /\ t
    <3>1. q4[i] = g[1]
      BY <1>8, <1>10, <1>11, <1>12, <2>0, <2>4
    <3>2. /\ i + 2 = Zero + 1 /\ Zero + 1 # 3 /\ Zero + 1 # 4 /\ Zero + 1 # 5
          /\ Zero + 1 > Zero /\ Zero + 1 # Zero
      BY <1>0, <1>8, <2>4
    <3> QED BY <1>4, <2>4, <3>1, <3>2 DEF ChunkAt
  <2>5. CASE i = l3 + 1
    <3>1. q4[i] = e[1]
      BY <1>11, <1>12, <2>0, <2>5
    <3>2. /\ i + 2 # 3 /\ i + 2 # 4 /\ i + 2 # 5 /\ i + 2 # Zero /\ i + 2 > Zero
          /\ ~(t /\ i + 2 = Zero + 1)
      BY <1>0, <1>8, <1>11, <2>5
    <3> QED BY <1>5, <3>1, <3>2 DEF ChunkAt
  <2> QED BY <1>8, <1>11, <2>0, <2>1, <2>2, <2>3, <2>4, <2>5
<1> QED BY <1>6, <1>12, <1>13, <1>14

HeadOf(st, loc, hd) ==
  [status |-> st, loc |-> loc, cl |-> hd.cl, te |-> hd.te, close |-> hd.close]
Offset(extras) == IF extras THEN 2 ELSE 0

\* What is known of an answer a.
Answers11(a, mode, v, r, t, d) ==
  /\ Kind11(mode, v, r, t, d)
  /\ Sent11(a.pieces, mode, v, r, t, d, 0)
  /\ Len(a.pieces) = d + Total(mode, v, t)
  /\ a.body = Bytes(r, Size(mode, v)) /\ (a.eof <=> mode = "eof") /\ ~a.garbled

\* The server answers with a head, what its method and head say of the body, and no more.
LEMMA AnsweredAt ==
  ASSUME NEW r \in {0, 1}, NEW method, NEW st \in Nat, st >= 200, NEW loc \in Int,
         NEW hd \in [cl : {-1, 0, BodyLen}, te : BOOLEAN, close : BOOLEAN], NEW extras \in BOOLEAN
  PROVE  Answers11(Answered(r, method, st, loc, hd, extras), Mode(method, HeadOf(st, loc, hd)),
                   HeadOf(st, loc, hd), r, extras, Offset(extras))
<1> DEFINE v == HeadOf(st, loc, hd)
           mode == Mode(method, v)
           none == Bodyless(method, st)
           len == IF none THEN 0 ELSE IF hd.te \/ hd.cl < 0 THEN BodyLen ELSE hd.cl
           intro == IF extras THEN Interim(r) ELSE <<>>
           head == Head11(r, st, loc, hd)
           body == IF hd.te /\ ~none THEN Chunked(r, extras) ELSE Bytes(r, len)
           d == Offset(extras)
           total == Total(mode, v, extras)
           a == Answered(r, method, st, loc, hd, extras)
           ih == intro \o head
           p == ih \o body
<1>1. /\ hd.cl \in {-1, 0, BodyLen} /\ hd.te \in BOOLEAN /\ hd.close \in BOOLEAN
      /\ BodyLen \in Nat /\ BodyLen > 0
  BY H1Assumption
<1>2. v.status = st /\ v.loc = loc /\ v.cl = hd.cl /\ v.te = hd.te /\ v.close = hd.close
  BY DEF HeadOf
<1>3. v \in Heads
  <2>1. v \in [status : Nat, loc : Int, cl : Int, te : BOOLEAN, close : BOOLEAN]
    BY <1>1 DEF HeadOf
  <2>2. v.cl >= -1 /\ v.status >= 200
    BY <1>1, <1>2
  <2> HIDE DEF v
  <2> QED BY <2>1, <2>2 DEF Heads
<1> HIDE DEF v
<1>4. mode = IF none THEN "none" ELSE IF hd.te THEN "chunked"
             ELSE IF hd.cl >= 0 THEN "length" ELSE "eof"
  BY <1>2 DEF Mode
<1>5. Kind11(mode, v, r, extras, d)
  BY <1>1, <1>2, <1>3, <1>4 DEF Kind11, Modes, Offset
<1>6. /\ len = Size(mode, v) /\ len \in Nat
      /\ (~none /\ ~hd.te /\ hd.cl < 0) <=> mode = "eof"
      /\ (hd.te /\ ~none) <=> mode = "chunked"
  BY <1>1, <1>2, <1>4 DEF Size
<1>7. a.pieces = p /\ a.body = Bytes(r, len) /\ a.garbled = FALSE
      /\ (a.eof <=> ~none /\ ~hd.te /\ hd.cl < 0)
  BY DEF Answered
<1>8. /\ intro \in Seq(Pieces) /\ Len(intro) = d
      /\ extras => intro[1] = Line(r, InterimHead) /\ intro[2] = HeadEnd(r)
  <2>1. Kind11("none", v, r, extras, d)
    BY <1>5 DEF Kind11, Modes
  <2>2. Sends("none", v, r, extras, 2, 1) = Line(r, InterimHead)
        /\ Sends("none", v, r, extras, 2, 2) = HeadEnd(r)
    BY DEF Sends
  <2>3. Line(r, InterimHead) \in Pieces /\ HeadEnd(r) \in Pieces
    <3>1. Kind11("none", v, r, extras, 2)
      BY <2>1 DEF Kind11
    <3> QED BY <2>2, <3>1, AtOK
  <2>4. Interim(r) = <<Line(r, InterimHead), HeadEnd(r)>>
    BY DEF Interim, InterimHead
  <2> HIDE DEF Line, HeadEnd
  <2> QED BY <2>3, <2>4 DEF Offset
<1>9. /\ head \in Seq(Pieces) /\ Len(head) = 2 /\ head[1] = Line(r, v) /\ head[2] = HeadEnd(r)
  <2>1. Line(r, v) \in Pieces /\ HeadEnd(r) \in Pieces
    <3>1. /\ At(mode, v, r, extras, 1) = Line(r, v) /\ At(mode, v, r, extras, 2) = HeadEnd(r)
      BY DEF At
    <3> QED BY <1>5, <3>1, AtOK
  <2>2. head = <<Line(r, v), HeadEnd(r)>>
    BY DEF Head11, HeadOf, v
  <2> QED BY <2>1, <2>2
<1>10. /\ body \in Seq(Pieces) /\ Len(body) = total - 2 /\ total \in Nat /\ total >= 2
       /\ \A i \in 1 .. total - 2 : body[i] = At(mode, v, r, extras, i + 2)
  <2>0. total \in Nat /\ total >= 2
    BY <1>5, Sizes
  <2>1. CASE mode = "chunked"
    <3>1. body = Chunked(r, extras) /\ total = ChunkTotal(extras)
      BY <1>6, <2>1 DEF Total
    <3>2. /\ body \in Seq(Pieces) /\ Len(body) = total - 2
          /\ \A i \in 1 .. total - 2 : body[i] = ChunkAt(r, extras, i + 2)
      BY <3>1, ChunkedPlaces
    <3>3. \A i \in 1 .. total - 2 : At(mode, v, r, extras, i + 2) = ChunkAt(r, extras, i + 2)
      <4> SUFFICES ASSUME NEW i \in 1 .. total - 2
                   PROVE  At(mode, v, r, extras, i + 2) = ChunkAt(r, extras, i + 2)
        OBVIOUS
      <4>1. i + 2 # 1 /\ i + 2 # 2
        BY <2>0
      <4> QED BY <2>1, <4>1 DEF At
    <3> QED BY <2>0, <3>2, <3>3
  <2>2. CASE mode # "chunked"
    <3>1. body = Bytes(r, len) /\ total = 2 + len
      BY <1>6, <2>2 DEF Total
    <3>2. Bytes(r, len) = [i \in 1 .. len |-> Piece("byte", r, i)]
      BY DEF Bytes
    <3> HIDE DEF len
    <3>3. /\ body \in Seq(Pieces) /\ Len(body) = len
          /\ \A i \in 1 .. len : body[i] = Piece("byte", r, i)
      <4>1. \A i \in 1 .. len : Piece("byte", r, i) \in Pieces
        BY <1>6, IntPieces
      <4>2. [i \in 1 .. len |-> Piece("byte", r, i)] \in [1 .. len -> Pieces]
        BY <4>1
      <4>3. \A i \in 1 .. len : body[i] = Piece("byte", r, i)
        BY <3>1, <3>2
      <4>4. body \in [1 .. len -> Pieces]
        BY <3>1, <3>2, <4>2
      <4> HIDE DEF body
      <4> QED BY <1>6, <4>3, <4>4, FunctionIsSeq
    <3>4. \A i \in 1 .. len : At(mode, v, r, extras, i + 2) = Piece("byte", r, i)
      <4> SUFFICES ASSUME NEW i \in 1 .. len
                   PROVE  At(mode, v, r, extras, i + 2) = Piece("byte", r, i)
        OBVIOUS
      <4>1. i + 2 # 1 /\ i + 2 # 2 /\ i + 2 - 2 = i
        BY <1>6
      <4> QED BY <2>2, <4>1 DEF At
    <3>5. total - 2 = len
      BY <1>6, <3>1
    <3> HIDE DEF body, total
    <3> QED BY <2>0, <3>3, <3>4, <3>5
  <2> QED BY <2>1, <2>2
<1> HIDE DEF intro, head, body, total, mode, none
<1>11. d \in {0, 2} /\ (d = 2 <=> extras)
  BY DEF Offset
<1> HIDE DEF d
<1>12. IsJoin(ih, intro, d, head, 2)
  BY <1>8, <1>9, Joined
<1>13. ih \in Seq(Pieces) /\ Len(ih) = d + 2
  BY <1>12 DEF IsJoin
<1>14. \A i \in 1 .. d + 2 : ih[i] = IF i <= d THEN intro[i] ELSE head[i - d]
  <2> HIDE DEF ih
  <2> QED BY <1>12 DEF IsJoin
<1> HIDE DEF ih
<1>15. IsJoin(p, ih, d + 2, body, total - 2)
  BY <1>10, <1>13, Joined
<1> HIDE DEF p
<1>16. /\ p \in Seq(Pieces) /\ Len(p) = d + total
       /\ \A i \in 1 .. d + total : p[i] = IF i <= d + 2 THEN ih[i] ELSE body[i - (d + 2)]
  <2>1. d + 2 + (total - 2) = d + total
    BY <1>10, <1>11
  <2> QED BY <1>15, <2>1 DEF IsJoin
<1>17. ASSUME NEW i \in 1 .. d + total
       PROVE  p[i] = Sends(mode, v, r, extras, d, i)
  <2>0. i \in Nat /\ i >= 1 /\ d \in Nat
    BY <1>10, <1>11
  <2>1. CASE i <= d
    <3>1. p[i] = intro[i] /\ extras /\ d = 2 /\ (i = 1 \/ i = 2)
      BY <1>11, <1>14, <1>16, <2>0, <2>1
    <3>2. ~(i > d)
      BY <2>0, <2>1
    <3> QED BY <1>8, <3>1, <3>2 DEF Sends
  <2>2. CASE i > d /\ i <= d + 2
    <3>1. p[i] = head[i - d] /\ (i - d = 1 \/ i - d = 2)
      BY <1>14, <1>16, <2>0, <2>2
    <3> QED BY <1>9, <2>2, <3>1 DEF Sends, At
  <2>3. CASE i > d + 2
    <3>0. /\ i - (d + 2) \in 1 .. total - 2 /\ i - (d + 2) + 2 = i - d /\ i > d
          /\ ~(i <= d + 2) /\ i \in 1 .. d + total
      <4>1. total \in Nat /\ i <= d + total
        BY <1>10, <2>0
      <4> QED BY <2>0, <2>3, <4>1
    <3>1. /\ p[i] = body[i - (d + 2)] /\ i - (d + 2) \in 1 .. total - 2
          /\ i - (d + 2) + 2 = i - d /\ i > d
      BY <1>16, <3>0
    <3>2. p[i] = At(mode, v, r, extras, i - d)
      BY <1>10, <3>1
    <3> QED BY <3>1, <3>2 DEF Sends
  <2> QED BY <2>0, <2>1, <2>2, <2>3
<1>18. Sent11(p, mode, v, r, extras, d, 0)
  <2>1. 0 + Len(p) <= d + total
    BY <1>10, <1>11, <1>16
  <2>2. \A i \in 1 .. Len(p) : p[i] = Sends(mode, v, r, extras, d, 0 + i)
    <3> SUFFICES ASSUME NEW i \in 1 .. Len(p) PROVE p[i] = Sends(mode, v, r, extras, d, 0 + i)
      OBVIOUS
    <3>1. i \in 1 .. d + total /\ 0 + i = i
      BY <1>10, <1>11, <1>16
    <3> QED BY <1>17, <3>1
  <2> QED BY <1>16, <2>1, <2>2 DEF Sent11, total
<1> HIDE DEF a, len
<1>19. Answers11(a, mode, v, r, extras, d)
  BY <1>5, <1>6, <1>7, <1>16, <1>18 DEF Answers11, total
<1> QED BY <1>19 DEF a, mode, v, d

-----------------------------------------------------------------------------
(***************************************************************************)
(* The connection: the buffer and the wire hold the answer, one after the  *)
(* other, and nothing else.                                                *)
(***************************************************************************)
Awaiting(buf, rest, mode, v, r, t, d) ==
  /\ Kind11(mode, v, r, t, d)
  /\ Sent11(buf, mode, v, r, t, d, 0)
  /\ Sent11(rest, mode, v, r, t, d, Len(buf))
  /\ d = 2 => Len(buf) < 2

\* What has been received of an answer, with n pieces more, and the rest of it.
LEMMA SplitSent ==
  ASSUME NEW mode, NEW v, NEW r, NEW t, NEW d, Kind11(mode, v, r, t, d),
         NEW buf, Sent11(buf, mode, v, r, t, d, 0),
         NEW w, Sent11(w, mode, v, r, t, d, Len(buf)), NEW n \in 1 .. Len(w)
  PROVE  LET all == buf \o SubSeq(w, 1, n)
             rest == SubSeq(w, n + 1, Len(w))
         IN Sent11(all, mode, v, r, t, d, 0) /\ Sent11(rest, mode, v, r, t, d, Len(all))
<1> DEFINE b == Len(buf)
           m == Len(w)
           first == SubSeq(w, 1, n)
           rest == SubSeq(w, n + 1, m)
           all == buf \o first
           bound == d + Total(mode, v, t)
           S(i) == Sends(mode, v, r, t, d, i)
<1>1. /\ b \in Nat /\ m \in Nat /\ n \in Nat /\ n >= 1 /\ n <= m /\ bound \in Nat /\ b + m <= bound
      /\ buf \in Seq(Pieces) /\ w \in Seq(Pieces)
  <2>1. buf \in Seq(Pieces) /\ w \in Seq(Pieces) /\ b + m <= bound
    BY DEF Sent11
  <2>2. b \in Nat /\ m \in Nat
    BY <2>1, LenProperties
  <2>3. bound \in Nat
    <3>1. d \in Nat
      BY DEF Kind11
    <3> QED BY <3>1, Sizes
  <2> QED BY <2>1, <2>2, <2>3
<1>2. /\ \A i \in 1 .. b : buf[i] = S(0 + i)
      /\ \A i \in 1 .. m : w[i] = S(b + i)
  BY DEF Sent11
<1> HIDE DEF S, bound
<1>3. \A i \in 1 .. m : w[i] \in Pieces
  BY <1>1, ElementOfSeq
<1>4. /\ first \in Seq(Pieces) /\ Len(first) = n
      /\ \A i \in 1 .. n : first[i] = w[i]
  <2>1. \A i \in 1 .. n : w[i] \in Pieces
    BY <1>1, <1>3
  <2>2. /\ SubSeq(w, 1, n) \in Seq(Pieces)
        /\ Len(SubSeq(w, 1, n)) = IF 1 <= n THEN n - 1 + 1 ELSE 0
        /\ \A i \in 1 .. n - 1 + 1 : SubSeq(w, 1, n)[i] = w[1 + i - 1]
    BY <1>1, <2>1, SubSeqProperties
  <2>3. n - 1 + 1 = n /\ \A i \in 1 .. n : 1 + i - 1 = i
    BY SMTT(40), <1>1
  <2> QED BY <1>1, <2>2, <2>3
<1>5. /\ rest \in Seq(Pieces) /\ Len(rest) = m - n
      /\ \A i \in 1 .. m - n : rest[i] = w[n + i]
  <2>1. \A i \in n + 1 .. m : w[i] \in Pieces
    BY <1>1, <1>3
  <2>2. /\ SubSeq(w, n + 1, m) \in Seq(Pieces)
        /\ Len(SubSeq(w, n + 1, m)) = IF n + 1 <= m THEN m - (n + 1) + 1 ELSE 0
        /\ \A i \in 1 .. m - (n + 1) + 1 : SubSeq(w, n + 1, m)[i] = w[n + 1 + i - 1]
    BY <1>1, <2>1, SubSeqProperties
  <2>3. m - (n + 1) + 1 = m - n /\ (~(n + 1 <= m) => m - n = 0)
        /\ \A i \in 1 .. m - n : n + 1 + i - 1 = n + i
    BY <1>1
  <2> QED BY <1>1, <2>2, <2>3
<1> HIDE DEF first, rest, m
<1>6. IsJoin(all, buf, b, first, n)
  BY <1>1, <1>4, Joined
<1> HIDE DEF all, b
<1>7. Len(all) = b + n /\ all \in Seq(Pieces)
  BY <1>6 DEF IsJoin
<1>8. ASSUME NEW i \in 1 .. b + n PROVE all[i] = S(0 + i)
  <2>1. all[i] = IF i <= b THEN buf[i] ELSE first[i - b]
    BY <1>6 DEF IsJoin
  <2>2. CASE i <= b
    BY <1>1, <1>2, <2>1, <2>2
  <2>3. CASE i > b
    <3>1. i - b \in 1 .. n /\ i - b \in 1 .. m /\ b + (i - b) = 0 + i /\ ~(i <= b)
      BY <1>1, <2>3
    <3> QED BY <1>2, <1>4, <2>1, <3>1
  <2> QED BY <1>1, <2>2, <2>3
<1>9. ASSUME NEW i \in 1 .. m - n PROVE rest[i] = S((b + n) + i)
  <2>1. n + i \in 1 .. m /\ b + (n + i) = (b + n) + i
    BY <1>1
  <2> QED BY <1>2, <1>5, <2>1
<1>10. 0 + (b + n) <= bound /\ (b + n) + (m - n) <= bound
  BY <1>1
<1>11. Sent11(all, mode, v, r, t, d, 0)
  BY <1>7, <1>8, <1>10 DEF Sent11, S, bound
<1>12. Sent11(rest, mode, v, r, t, d, Len(all))
  BY <1>5, <1>7, <1>9, <1>10 DEF Sent11, S, bound
<1> QED BY <1>11, <1>12 DEF all, rest, first, m

\* The same once the interim response is dropped.
LEMMA DropInterim ==
  ASSUME NEW mode, NEW v, NEW r, NEW t, Kind11(mode, v, r, t, 2),
         NEW all, Sent11(all, mode, v, r, t, 2, 0), Len(all) >= 2,
         NEW rest, Sent11(rest, mode, v, r, t, 2, Len(all))
  PROVE  LET b == SubSeq(all, 3, Len(all))
         IN /\ Sent11(b, mode, v, r, t, 0, 0) /\ Len(b) = Len(all) - 2
            /\ Sent11(rest, mode, v, r, t, 0, Len(b))
<1> DEFINE n == Len(all)
           b == SubSeq(all, 3, n)
           total == Total(mode, v, t)
<1>1. /\ n \in Nat /\ n >= 2 /\ all \in Seq(Pieces) /\ rest \in Seq(Pieces) /\ Len(rest) \in Nat
      /\ total \in Nat /\ n + Len(rest) <= 2 + total
  <2>1. all \in Seq(Pieces) /\ rest \in Seq(Pieces) /\ n + Len(rest) <= 2 + total
    BY DEF Sent11
  <2>2. total \in Nat
    BY Sizes
  <2> QED BY <2>1, <2>2, LenProperties
<1>2. /\ \A i \in 1 .. n : all[i] = Sends(mode, v, r, t, 2, 0 + i)
      /\ \A i \in 1 .. Len(rest) : rest[i] = Sends(mode, v, r, t, 2, n + i)
  BY DEF Sent11
<1>3. \A i \in 3 .. n : all[i] \in Pieces
  BY <1>1, ElementOfSeq
<1>4. /\ b \in Seq(Pieces) /\ Len(b) = n - 2
      /\ \A i \in 1 .. n - 2 : b[i] = all[i + 2]
  <2>1. /\ SubSeq(all, 3, n) \in Seq(Pieces)
        /\ Len(SubSeq(all, 3, n)) = IF 3 <= n THEN n - 3 + 1 ELSE 0
        /\ \A i \in 1 .. n - 3 + 1 : SubSeq(all, 3, n)[i] = all[3 + i - 1]
    BY <1>1, <1>3, SubSeqProperties
  <2> HIDE DEF n
  <2>2. n - 3 + 1 = n - 2 /\ (~(3 <= n) => n - 2 = 0)
    BY <1>1
  <2>3. \A i \in 1 .. n - 2 : 3 + i - 1 = i + 2
    BY <1>1
  <2> QED BY <1>1, <2>1, <2>2, <2>3
<1> HIDE DEF b, n, total
<1>5. \A i \in Nat : i > 2 => Sends(mode, v, r, t, 2, i) = At(mode, v, r, t, i - 2)
  BY DEF Sends
<1>6. \A i \in Nat : i > 0 => Sends(mode, v, r, t, 0, i) = At(mode, v, r, t, i)
  <2> SUFFICES ASSUME NEW i \in Nat, i > 0
               PROVE  Sends(mode, v, r, t, 0, i) = At(mode, v, r, t, i)
    OBVIOUS
  <2>1. i - 0 = i
    OBVIOUS
  <2> QED BY <2>1 DEF Sends
<1>7. ASSUME NEW i \in 1 .. n - 2 PROVE b[i] = Sends(mode, v, r, t, 0, 0 + i)
  <2>1. i + 2 \in 1 .. n /\ 0 + (i + 2) \in Nat /\ 0 + (i + 2) > 2 /\ 0 + (i + 2) - 2 = i
        /\ 0 + i \in Nat /\ 0 + i > 0 /\ 0 + i = i
    BY <1>1
  <2> QED BY <1>2, <1>4, <1>5, <1>6, <2>1
<1>8. ASSUME NEW i \in 1 .. Len(rest) PROVE rest[i] = Sends(mode, v, r, t, 0, (n - 2) + i)
  <2>1. (n - 2) + i \in Nat /\ (n - 2) + i > 0
    BY <1>1
  <2>2. rest[i] = At(mode, v, r, t, (n - 2) + i)
    <3> DEFINE k == n + i
               j == (n - 2) + i
    <3>1. k \in Nat /\ k > 2 /\ k - 2 = j
      BY <1>1
    <3>2. rest[i] = Sends(mode, v, r, t, 2, k)
      BY <1>2
    <3> HIDE DEF k, j
    <3>3. Sends(mode, v, r, t, 2, k) = At(mode, v, r, t, j)
      BY <1>5, <3>1
    <3> QED BY <3>2, <3>3 DEF j
  <2>3. Sends(mode, v, r, t, 0, (n - 2) + i) = At(mode, v, r, t, (n - 2) + i)
    BY <1>6, <2>1
  <2> QED BY <2>2, <2>3
<1>9. 0 + (n - 2) <= 0 + total /\ (n - 2) + Len(rest) <= 0 + total
  BY <1>1
<1>10. Sent11(b, mode, v, r, t, 0, 0)
  BY <1>4, <1>7, <1>9 DEF Sent11, total
<1>11. Sent11(rest, mode, v, r, t, 0, Len(b))
  BY <1>1, <1>4, <1>8, <1>9 DEF Sent11, total
<1> QED BY <1>4, <1>10, <1>11 DEF b, n

-----------------------------------------------------------------------------
\* What is left of what was received once the interim response is dropped.
LEMMA Buffered ==
  ASSUME NEW mode, NEW v, NEW r, NEW t, NEW d, Kind11(mode, v, r, t, d),
         NEW all, Sent11(all, mode, v, r, t, d, 0),
         NEW rest, Sent11(rest, mode, v, r, t, d, Len(all))
  PROVE  \E d2 : Awaiting(Final(all), rest, mode, v, r, t, d2)
<1>1. Final(all) = IF d = 2 /\ Len(all) >= 2 THEN SubSeq(all, 3, Len(all)) ELSE all
  BY FinalAt
<1>2. CASE d = 2 /\ Len(all) >= 2
  <2> DEFINE b == SubSeq(all, 3, Len(all))
  <2>1. Kind11(mode, v, r, t, 2) /\ Sent11(all, mode, v, r, t, 2, 0)
        /\ Sent11(rest, mode, v, r, t, 2, Len(all))
    BY <1>2
  <2>2. Sent11(b, mode, v, r, t, 0, 0) /\ Sent11(rest, mode, v, r, t, 0, Len(b))
    BY <1>2, <2>1, DropInterim
  <2>3. Final(all) = b
    BY <1>1, <1>2
  <2>4. Kind11(mode, v, r, t, 0)
    BY DEF Kind11
  <2> HIDE DEF b
  <2>5. 0 # 2
    OBVIOUS
  <2> QED BY <2>2, <2>3, <2>4, <2>5, Zenon DEF Awaiting
<1>3. CASE ~(d = 2 /\ Len(all) >= 2)
  <2>1. Final(all) = all
    BY <1>1, <1>3
  <2>2. all \in Seq(Pieces)
    BY DEF Sent11
  <2>3. Len(all) \in Nat
    BY <2>2, LenProperties
  <2>4. d = 2 => Len(all) < 2
    BY <1>3, <2>3
  <2> QED BY <2>1, <2>4, Zenon DEF Awaiting
<1> QED BY <1>2, <1>3

\* A head is whole once two pieces are there; then the first is its status line.
LEMMA Headed ==
  ASSUME NEW mode, NEW v, NEW r, NEW t, NEW d, NEW b, NEW rest,
         Awaiting(b, rest, mode, v, r, t, d)
  PROVE  /\ Len(b) \in Nat
         /\ (\E i \in DOMAIN b : b[i].k = "end") <=> Len(b) >= 2
         /\ Len(b) >= 2 => d = 0 /\ b[1] = Line(r, v)
<1>1. /\ Kind11(mode, v, r, t, d) /\ d \in {0, 2} /\ b \in Seq(Pieces)
      /\ \A i \in 1 .. Len(b) : b[i] = Sends(mode, v, r, t, d, 0 + i)
      /\ d = 2 => Len(b) < 2
  BY DEF Awaiting, Kind11, Sent11
<1>2. Len(b) \in Nat /\ DOMAIN b = 1 .. Len(b)
  BY <1>1, LenProperties
<1>3. ASSUME Len(b) >= 2
      PROVE  d = 0 /\ b[1] = Line(r, v) /\ b[2] = HeadEnd(r)
  <2>1. d = 0
    BY <1>1, <1>2, <1>3
  <2>2. 1 \in 1 .. Len(b) /\ 2 \in 1 .. Len(b)
    BY <1>2, <1>3
  <2>3. b[1] = Sends(mode, v, r, t, d, 0 + 1) /\ b[2] = Sends(mode, v, r, t, d, 0 + 2)
    BY <1>1, <2>2, Zenon
  <2>4. 0 + 1 = 1 /\ 0 + 2 = 2 /\ 1 - 0 = 1 /\ 2 - 0 = 2 /\ 1 > 0 /\ 2 > 0 /\ 2 # 1
    OBVIOUS
  <2>5. /\ Sends(mode, v, r, t, 0, 1) = At(mode, v, r, t, 1)
        /\ Sends(mode, v, r, t, 0, 2) = At(mode, v, r, t, 2)
    BY <2>4 DEF Sends
  <2>6. At(mode, v, r, t, 1) = Line(r, v) /\ At(mode, v, r, t, 2) = HeadEnd(r)
    BY <2>4, Zenon DEF At
  <2> QED BY <2>1, <2>3, <2>4, <2>5, <2>6
<1>4. ASSUME Len(b) >= 2
      PROVE  \E i \in DOMAIN b : b[i].k = "end"
  <2>1. 2 \in DOMAIN b
    BY <1>2, <1>4
  <2>2. HeadEnd(r).k = "end"
    BY PieceFields DEF HeadEnd
  <2> QED BY <1>3, <1>4, <2>1, <2>2
<1>5. ASSUME ~(Len(b) >= 2), NEW i \in DOMAIN b
      PROVE  b[i].k # "end"
  <2>1. i = 1 /\ 1 \in 1 .. Len(b) /\ 0 + 1 = 1
    BY <1>2, <1>5
  <2>2. b[i] = Sends(mode, v, r, t, d, 1)
    BY <1>1, <2>1
  <2>3. Sends(mode, v, r, t, d, 1).k = "line"
    <3>1. CASE d = 2
      <4>1. Sends(mode, v, r, t, d, 1) = Line(r, InterimHead)
        BY <3>1 DEF Sends
      <4> QED BY <4>1, PieceFields DEF Line
    <3>2. CASE d = 0
      <4>1. 1 - 0 = 1 /\ 1 > 0
        OBVIOUS
      <4>2. Sends(mode, v, r, t, d, 1) = At(mode, v, r, t, 1)
        BY <3>2, <4>1 DEF Sends
      <4>3. At(mode, v, r, t, 1) = Line(r, v)
        BY Zenon DEF At
      <4> QED BY <4>2, <4>3, PieceFields DEF Line
    <3> QED BY <1>1, <3>1, <3>2
  <2> QED BY <2>2, <2>3
<1> QED BY <1>2, <1>3, <1>4, <1>5

\* The body ends where the answer does, if anything but the end of the connection says so.
LEMMA BodyEndAt ==
  ASSUME NEW mode, NEW v, NEW r, NEW t, Kind11(mode, v, r, t, 0),
         NEW b, Sent11(b, mode, v, r, t, 0, 0), Len(b) >= 2, b[1] = Line(r, v)
  PROVE  BodyEnd(b, mode) = IF mode # "eof" /\ Len(b) = Total(mode, v, t)
                              THEN Total(mode, v, t) + 1 ELSE More
<1>1. mode \in Modes /\ b \in Seq(Pieces) /\ 0 + Len(b) <= 0 + Total(mode, v, t)
  BY DEF Kind11, Sent11
<1>2. Len(b) \in Nat /\ Total(mode, v, t) \in Nat /\ Size(mode, v) \in Nat
  BY <1>1, LenProperties, Sizes
<1>3. b[1].v = v
  BY PieceFields DEF Line
<1>4. CASE mode = "chunked"
  <2>1. Kind11("chunked", v, r, t, 0) /\ Sent11(b, "chunked", v, r, t, 0, 0)
    BY <1>4
  <2>2. BodyEnd(b, mode) = ChunkEnd(b, 3)
    BY <1>4 DEF BodyEnd
  <2>3. ChunkEnd(b, 3) = IF Len(b) = Total("chunked", v, t)
                           THEN Total("chunked", v, t) + 1 ELSE More
    BY <2>1, ChunkEndAt
  <2> QED BY <1>4, <2>2, <2>3
<1>5. CASE mode = "none"
  <2>1. BodyEnd(b, mode) = 3
    BY <1>5 DEF BodyEnd
  <2>2. Total(mode, v, t) = 2
    BY <1>5 DEF Total, Size
  <2> QED BY <1>1, <1>2, <1>5, <2>1, <2>2
<1>6. CASE mode = "length"
  <2>1. BodyEnd(b, mode) = IF Len(b) >= 2 + v.cl THEN 3 + v.cl ELSE More
    BY <1>3, <1>6 DEF BodyEnd
  <2>2. Total(mode, v, t) = 2 + v.cl /\ v.cl \in Nat
    BY <1>2, <1>6 DEF Total, Size
  <2> QED BY <1>1, <1>2, <1>6, <2>1, <2>2
<1>7. CASE mode = "eof"
  BY <1>7 DEF BodyEnd
<1> QED BY <1>1, <1>4, <1>5, <1>6, <1>7 DEF Modes

\* At its end an answer has all of the body.
LEMMA CountAll ==
  ASSUME NEW mode, NEW v, NEW r, NEW t, Kind11(mode, v, r, t, 0)
  PROVE  Count(mode, Total(mode, v, t)) = Size(mode, v)
<1>1. mode \in Modes
  BY DEF Kind11
<1>2. /\ BodyLen \in Nat /\ BodyLen > 0 /\ Zero \in Nat /\ Zero >= 6
      /\ (BodyLen > 1 => Zero = BodyLen + 7) /\ (~(BodyLen > 1) => Zero = 6)
      /\ Size(mode, v) \in Nat
      /\ mode = "chunked" => Total(mode, v, t) = (IF t THEN Zero + 2 ELSE Zero + 1)
  BY Sizes
<1>3. CASE mode = "chunked"
  <2>1. Size(mode, v) = BodyLen
    BY <1>3 DEF Size
  <2>2. /\ Total(mode, v, t) \in Nat /\ Total(mode, v, t) > 6 /\ Total(mode, v, t) > BodyLen + 5
    BY <1>2, <1>3
  <2> QED BY <1>2, <1>3, <2>1, <2>2 DEF Count
<1>4. CASE mode # "chunked"
  <2>1. Total(mode, v, t) = 2 + Size(mode, v)
    BY <1>4 DEF Total
  <2> HIDE DEF Size
  <2> QED BY <1>2, <1>4, <2>1 DEF Count
<1> QED BY <1>3, <1>4

-----------------------------------------------------------------------------
\* The whole response, once the parser has it.
Whole(b, mode, v, r, t) ==
  /\ mode # "eof" /\ b \in Seq(Pieces) /\ Len(b) = Total(mode, v, t)
  /\ b[1] = Line(r, v)
  /\ Entity(b, Total(mode, v, t) + 1) = Bytes(r, Size(mode, v))

(* onData: it waits for the rest of the answer, or has all of it.          *)
LEMMA ParsedAt ==
  ASSUME NEW mode, NEW v, NEW r, NEW t, NEW d, Kind11(mode, v, r, t, d), mode = Mode(h1.method, v),
         NEW all, Sent11(all, mode, v, r, t, d, 0),
         NEW rest, Sent11(rest, mode, v, r, t, d, Len(all)),
         NEW n, Parsed(all, n)
  PROVE  \/ \E b, d2 : Awaiting(b, rest, mode, v, r, t, d2) /\ Waits(b, n)
         \/ \E b : /\ Whole(b, mode, v, r, t) /\ rest = <<>>
                   /\ Finished(b, Total(mode, v, t) + 1, mode, n)
<1> DEFINE b == Final(all)
           headed == \E i \in DOMAIN b : b[i].k = "end"
           total == Total(mode, v, t)
           end == BodyEnd(b, Mode(h1.method, b[1].v))
<1>1. PICK d2 : Awaiting(b, rest, mode, v, r, t, d2)
  BY Buffered
<1>2. /\ Len(b) \in Nat /\ headed <=> Len(b) >= 2
      /\ Len(b) >= 2 => d2 = 0 /\ b[1] = Line(r, v)
  BY <1>1, Headed
<1>3. IF ~headed THEN Waits(b, n)
      ELSE IF b[1].k # "line" \/ end = Bad THEN Fails11("EBADRESP")
      ELSE IF end = More THEN Waits(b, n)
      ELSE Finished(b, end, Mode(h1.method, b[1].v), n)
  BY Zenon DEF Parsed
<1> HIDE DEF b, headed, end, total
<1>4. CASE ~headed
  BY <1>1, <1>3, <1>4, Zenon
<1>5. CASE headed
  <2>1. Len(b) >= 2 /\ d2 = 0 /\ b[1] = Line(r, v)
    BY <1>2, <1>5
  <2>2. b[1].k = "line" /\ b[1].v = v
    BY <2>1, PieceFields DEF Line
  <2>3. /\ Kind11(mode, v, r, t, 0) /\ Sent11(b, mode, v, r, t, 0, 0)
        /\ Sent11(rest, mode, v, r, t, 0, Len(b))
    BY <1>1, <2>1 DEF Awaiting
  <2>4. BodyEnd(b, mode) = IF mode # "eof" /\ Len(b) = total THEN total + 1 ELSE More
    BY <2>1, <2>3, BodyEndAt DEF total
  <2>5. end = BodyEnd(b, mode)
    BY <2>2 DEF end
  <2>6. total \in Nat /\ total >= 2
    BY <2>3, Sizes DEF total
  <2>7. CASE mode # "eof" /\ Len(b) = total
    <3>1. end = total + 1 /\ end # Bad /\ end # More
      BY <2>4, <2>5, <2>6, <2>7 DEF Bad, More
    <3>2. Finished(b, total + 1, mode, n)
      BY <1>3, <1>5, <2>2, <3>1
    <3>4. Entity(b, total + 1) = Bytes(r, Count(mode, total))
      <4> DEFINE past == total + 1
      <4>1. past \in 3 .. Len(b) + 1 /\ past - 1 = total
        BY <2>6, <2>7
      <4> HIDE DEF past
      <4>2. Entity(b, past) = Bytes(r, Count(mode, past - 1))
        BY <2>3, <4>1, EntityAt
      <4> QED BY <4>1, <4>2 DEF past
    <3>5. Count(mode, total) = Size(mode, v)
      BY <2>3, CountAll DEF total
    <3>6. b \in Seq(Pieces) /\ rest \in Seq(Pieces) /\ Len(b) + Len(rest) <= 0 + total
      BY <2>3 DEF Sent11, total
    <3>7. rest = <<>>
      <4>1. Len(rest) \in Nat
        BY <3>6, LenProperties
      <4>2. Len(rest) = 0
        BY <2>6, <2>7, <3>6, <4>1
      <4> QED BY <3>6, <4>2, EmptySeq
    <3>8. Whole(b, mode, v, r, t)
      BY <2>1, <2>7, <3>4, <3>5, <3>6 DEF Whole, total
    <3> QED BY <3>2, <3>7, <3>8, Zenon DEF total
  <2>8. CASE ~(mode # "eof" /\ Len(b) = total)
    <3>1. end = More /\ end # Bad
      BY <2>4, <2>5, <2>8 DEF Bad, More
    <3>2. Waits(b, n)
      BY <1>3, <1>5, <2>2, <3>1
    <3> QED BY <1>1, <3>2, Zenon
  <2> QED BY <2>7, <2>8
<1> QED BY <1>4, <1>5

-----------------------------------------------------------------------------
(***************************************************************************)
(* The invariant.  A request that is being read has of its answer what the *)
(* parser kept, and the rest of it is on the wire; it was answered as      *)
(* Promised.                                                               *)
(***************************************************************************)
Promised(mode, v, r) ==
  answer.garbled \/ (answer.body = Bytes(r, Size(mode, v)) /\ (answer.eof <=> mode = "eof"))
Coming(mode, v, r, t, d) ==
  /\ mode = Mode(h1.method, v) /\ Awaiting(h1.buf, wire, mode, v, r, t, d)
  /\ Promised(mode, v, r)

ConnOK ==
  conn = [open |-> conn.open, port |-> conn.port, leftover |-> <<>>, half |-> conn.half,
          busy |-> conn.busy]
H1OK ==
  /\ h1 = [reading |-> h1.reading, buf |-> h1.buf, method |-> h1.method, tag |-> h1.tag]
  /\ h1.reading \in BOOLEAN /\ h1.tag \in {0, 1}
OutcomeOK ==
  outcome.out = "response" /\ outcome.tag # Multiplexed =>
    \/ answer.garbled
    \/ outcome.body = answer.body
    \/ answer.eof /\ IsPrefix(outcome.body, answer.body)
ReadingOK ==
  /\ phase # "sent" => ~h1.reading /\ outcome = Nothing
  /\ IF h1.reading
     THEN /\ via.alpn = "h1" /\ outcome = Nothing
          /\ \/ answer = NoAnswer /\ h1.buf = <<>> /\ wire = <<>>
             \/ answer.pieces # <<>> /\ \E mode, v, r, t, d : Coming(mode, v, r, t, d)
     ELSE wire = <<>>
ResponseOK == ConnOK /\ H1OK /\ OutcomeOK /\ ReadingOK

\* It holds at first, implies the property, and every step keeps it.
LEMMA InitResponseOK == Init => ResponseOK
<1> SUFFICES ASSUME Init PROVE ResponseOK
  OBVIOUS
<1>1. conn = NoConn /\ h1 = Idle(0) /\ wire = <<>> /\ outcome = Nothing
  BY DEF Init, H1Init
<1>2. ConnOK
  BY <1>1 DEF ConnOK, NoConn
<1>3. H1OK /\ ~h1.reading
  BY <1>1 DEF H1OK, Idle
<1>4. OutcomeOK
  BY <1>1 DEF OutcomeOK, Nothing
<1>5. ReadingOK
  BY <1>1, <1>3 DEF ReadingOK
<1> QED BY <1>2, <1>3, <1>4, <1>5 DEF ResponseOK

LEMMA MineResponseOK == ResponseOK => BodyIsMine
<1> SUFFICES ASSUME ResponseOK PROVE BodyIsMine
  OBVIOUS
<1>1. conn.leftover = <<>>
  BY DEF ResponseOK, ConnOK
<1> QED BY <1>1, Zenon DEF ResponseOK, OutcomeOK, BodyIsMine

\* Closing a connection, or settling with it closed.
LEMMA ClosesOK ==
  ASSUME Closes
  PROVE  ConnOK' /\ wire' = <<>>
BY DEF Closes, ConnOK, NoConn

\* Settling, and failing.
LEMMA IdleOK ==
  ASSUME H1OK, h1' = Idle(h1.tag)
  PROVE  H1OK' /\ h1'.reading = FALSE
BY DEF H1OK, Idle

LEMMA FailsOK ==
  ASSUME H1OK, NEW code, Fails11(code), phase = "sent", phase' = "sent"
  PROVE  ResponseOK'
<1>1. ConnOK' /\ wire' = <<>>
  BY ClosesOK DEF Fails11
<1>2. H1OK' /\ h1'.reading = FALSE
  BY IdleOK DEF Fails11
<1>3. OutcomeOK'
  BY DEF Fails11, Failed, OutcomeOK
<1>4. ReadingOK'
  BY <1>1, <1>2 DEF ReadingOK
<1> QED BY <1>1, <1>2, <1>3, <1>4 DEF ResponseOK

-----------------------------------------------------------------------------
\* With the request not being read and nothing on the wire, a step that leaves
\* the reading alone.
LEMMA QuietOK ==
  ASSUME H1OK, ConnOK', h1.reading = FALSE, wire' = <<>>, UNCHANGED h1,
         OutcomeOK', phase' # "sent" => outcome' = Nothing
  PROVE  ResponseOK'
<1>1. H1OK'
  BY DEF H1OK
<1>2. ReadingOK'
  BY DEF ReadingOK
<1> QED BY <1>1, <1>2 DEF ResponseOK

\* Without an outcome there is nothing to say about it.
LEMMA NothingOK ==
  ASSUME outcome' = Nothing
  PROVE  OutcomeOK'
BY DEF OutcomeOK, Nothing

\* Steps of performH1: its timer, the data and the end of the connection.
LEMMA ResponseTimerOK ==
  ASSUME ResponseOK, ResponseTimer, UNCHANGED reqVars
  PROVE  ResponseOK'
<1>1. phase = "sent" /\ phase' = "sent"
  BY DEF ResponseOK, ReadingOK, ResponseTimer, reqVars
<1> QED BY <1>1, FailsOK DEF ResponseOK, ResponseTimer

(* A response that is whole is the one that was promised.                  *)
LEMMA WholeOK ==
  ASSUME ResponseOK, phase' = "sent", UNCHANGED answer,
         NEW mode, NEW v, NEW r, NEW t, NEW b, NEW n, Whole(b, mode, v, r, t), Promised(mode, v, r),
         Kind11(mode, v, r, t, 0), SubSeq(wire, n + 1, Len(wire)) = <<>>,
         Finished(b, Total(mode, v, t) + 1, mode, n)
  PROVE  ResponseOK'
<1> DEFINE total == Total(mode, v, t)
<1>1. /\ total \in Nat /\ b \in Seq(Pieces) /\ Len(b) = total
      /\ Entity(b, total + 1) = Bytes(r, Size(mode, v)) /\ mode # "eof"
  BY Sizes DEF Whole
<1>2. /\ outcome' = [out |-> "response", status |-> b[1].v.status, loc |-> b[1].v.loc,
                     tag |-> b[1].tag, body |-> Entity(b, total + 1)]
      /\ IF Reusable(mode, b[1].v)
         THEN conn' = [conn EXCEPT !.leftover = SubSeq(b, total + 1, Len(b))] /\ Reads(n)
         ELSE Closes
      /\ h1' = Idle(h1.tag)
  BY Zenon DEF Finished
<1> HIDE DEF total
<1>3. H1OK' /\ h1'.reading = FALSE
  BY <1>2, IdleOK DEF ResponseOK
<1>4. SubSeq(b, total + 1, Len(b)) = <<>>
  <2>1. total + 1 > Len(b)
    BY <1>1
  <2> QED BY <1>1, <2>1, SubSeqEmpty
<1>5. ConnOK' /\ wire' = <<>>
  <2>1. CASE Reusable(mode, b[1].v)
    <3>1. conn' = [conn EXCEPT !.leftover = <<>>] /\ wire' = <<>>
      BY <1>2, <1>4, <2>1 DEF Reads
    <3>2. ConnOK
      BY DEF ResponseOK
    <3> QED BY <3>1, <3>2 DEF ConnOK
  <2>2. CASE ~Reusable(mode, b[1].v)
    BY <1>2, <2>2, ClosesOK
  <2> QED BY <2>1, <2>2
<1>6. OutcomeOK'
  <2>1. outcome'.body = Bytes(r, Size(mode, v))
    BY <1>1, <1>2
  <2> QED BY <2>1, Zenon DEF OutcomeOK, Promised
<1>7. ReadingOK'
  BY <1>3, <1>5 DEF ReadingOK
<1> QED BY <1>3, <1>5, <1>6, <1>7 DEF ResponseOK

LEMMA DataArrivesOK ==
  ASSUME ResponseOK, NEW n \in {1, Len(wire)}, DataArrives(n), UNCHANGED reqVars
  PROVE  ResponseOK'
<1> DEFINE all == h1.buf \o SubSeq(wire, 1, n)
           rest == SubSeq(wire, n + 1, Len(wire))
<1>1. h1.reading /\ wire # <<>> /\ Parsed(all, n) /\ UNCHANGED answer
  BY DEF DataArrives
<1>2. /\ phase = "sent" /\ phase' = "sent" /\ via' = via /\ via.alpn = "h1"
      /\ outcome = Nothing /\ answer.pieces # <<>>
      /\ \E mode, v, r, t, d : Coming(mode, v, r, t, d)
  BY <1>1 DEF ResponseOK, ReadingOK, reqVars
<1>3. PICK mode, v, r, t, d : Coming(mode, v, r, t, d)
  BY <1>2
<1>4. /\ Kind11(mode, v, r, t, d) /\ mode = Mode(h1.method, v) /\ Promised(mode, v, r)
      /\ Sent11(h1.buf, mode, v, r, t, d, 0) /\ Sent11(wire, mode, v, r, t, d, Len(h1.buf))
  BY <1>3 DEF Coming, Awaiting
<1>5. n \in 1 .. Len(wire)
  <2>1. wire \in Seq(Pieces)
    BY <1>4 DEF Sent11
  <2>2. Len(wire) \in Nat /\ Len(wire) # 0
    BY <1>1, <2>1, LenProperties, EmptySeq
  <2> QED BY <2>2
<1>6. Sent11(all, mode, v, r, t, d, 0) /\ Sent11(rest, mode, v, r, t, d, Len(all))
  BY <1>4, <1>5, SplitSent
<1> HIDE DEF all
<1>7. \/ \E b, d2 : Awaiting(b, rest, mode, v, r, t, d2) /\ Waits(b, n)
      \/ \E b : /\ Whole(b, mode, v, r, t) /\ rest = <<>>
                /\ Finished(b, Total(mode, v, t) + 1, mode, n)
  <2> HIDE DEF rest
  <2> QED BY <1>1, <1>4, <1>6, ParsedAt
<1>8. ASSUME NEW b, NEW d2, Awaiting(b, rest, mode, v, r, t, d2), Waits(b, n)
      PROVE  ResponseOK'
  <2>1. /\ h1' = [h1 EXCEPT !.buf = b] /\ wire' = rest /\ conn' = conn /\ outcome' = outcome
    BY <1>8 DEF Waits, Reads
  <2>2. H1OK
    BY DEF ResponseOK
  <2>3. H1OK' /\ h1'.buf = b /\ h1'.reading = h1.reading /\ h1'.method = h1.method
    BY <2>1, <2>2 DEF H1OK
  <2>4. ConnOK' /\ OutcomeOK'
    BY <1>2, <2>1, NothingOK DEF ResponseOK, ConnOK
  <2>5. Coming(mode, v, r, t, d2)'
    BY <1>1, <1>4, <1>8, <2>1, <2>3 DEF Coming, Promised
  <2>6. ReadingOK'
    BY <1>1, <1>2, <2>1, <2>3, <2>5 DEF ReadingOK
  <2> QED BY <2>3, <2>4, <2>6 DEF ResponseOK
<1>9. ASSUME NEW b, Whole(b, mode, v, r, t), rest = <<>>,
             Finished(b, Total(mode, v, t) + 1, mode, n)
      PROVE  ResponseOK'
  <2>1. Kind11(mode, v, r, t, 0)
    BY <1>4 DEF Kind11
  <2> QED BY <1>1, <1>2, <1>4, <1>9, <2>1, WholeOK
<1> QED BY <1>7, <1>8, <1>9

\* A body that was cut is the first part of the whole.
LEMMA PrefixOfBytes ==
  ASSUME NEW r \in {0, 1}, NEW m \in Nat, NEW n \in Nat, m <= n
  PROVE  IsPrefix(Bytes(r, m), Bytes(r, n))
<1>1. ASSUME NEW k \in Nat
      PROVE  /\ Bytes(r, k) \in Seq(Pieces) /\ Len(Bytes(r, k)) = k
             /\ \A i \in 1 .. k : Bytes(r, k)[i] = Piece("byte", r, i)
  <2>1. Bytes(r, k) = [i \in 1 .. k |-> Piece("byte", r, i)]
    BY DEF Bytes
  <2>2. \A i \in 1 .. k : Piece("byte", r, i) \in Pieces
    BY IntPieces
  <2> QED BY <2>1, <2>2, FunctionIsSeq
<1> DEFINE x == Bytes(r, m)
           y == Bytes(r, n)
           p == SubSeq(x, 1, m)
           q == SubSeq(y, 1, m)
<1>2. /\ x \in Seq(Pieces) /\ Len(x) = m /\ \A i \in 1 .. m : x[i] = Piece("byte", r, i)
      /\ y \in Seq(Pieces) /\ Len(y) = n /\ \A i \in 1 .. n : y[i] = Piece("byte", r, i)
  BY <1>1
<1> HIDE DEF x, y
<1>3. m \in 0 .. Len(x) /\ m \in 0 .. Len(y)
  BY <1>2
<1>4. /\ p \in Seq(Pieces) /\ Len(p) = m /\ \A i \in 1 .. m : p[i] = x[i]
      /\ q \in Seq(Pieces) /\ Len(q) = m /\ \A i \in 1 .. m : q[i] = y[i]
  BY <1>2, <1>3, FirstProperties
<1> HIDE DEF p, q
<1>5. \A i \in 1 .. m : p[i] = q[i]
  BY <1>2, <1>4
<1>6. p = q
  BY <1>4, <1>5, SeqEqual
<1> QED BY <1>2, <1>6 DEF IsPrefix, x, y, p, q

-----------------------------------------------------------------------------
\* The end of the connection is the end of a body, cut short or not.
LEMMA EndArrivesOK ==
  ASSUME ResponseOK, EndArrives, UNCHANGED reqVars
  PROVE  ResponseOK'
<1>1. /\ h1.reading /\ wire = <<>> /\ UNCHANGED answer
      /\ phase = "sent" /\ phase' = "sent"
  BY DEF EndArrives, ResponseOK, ReadingOK, reqVars
<1>2. CASE Fails11("EBADRESP")
  BY <1>1, <1>2, FailsOK DEF ResponseOK
<1>3. CASE /\ Len(h1.buf) >= 2 /\ Mode(h1.method, h1.buf[1].v) = "eof"
           /\ Finished(h1.buf, Len(h1.buf) + 1, "eof", 0)
  <2> DEFINE b == h1.buf
  <2>1. CASE b = <<>>
    BY <1>3, <2>1
  <2>2. CASE b # <<>>
    <3>1. PICK mode, v, r, t, d : Coming(mode, v, r, t, d)
      BY <1>1, <2>2 DEF ResponseOK, ReadingOK
    <3>2. /\ Awaiting(b, wire, mode, v, r, t, d) /\ mode = Mode(h1.method, v)
          /\ Promised(mode, v, r)
      BY <3>1 DEF Coming
    <3>3. d = 0 /\ b[1] = Line(r, v) /\ Len(b) \in Nat /\ Len(b) >= 2
      BY <1>3, <3>2, Headed
    <3>4. b[1].v = v
      BY <3>3, PieceFields DEF Line
    <3>5. mode = "eof"
      BY <1>3, <3>2, <3>4
    <3>6. Kind11("eof", v, r, t, 0) /\ Sent11(b, "eof", v, r, t, 0, 0)
      BY <3>2, <3>3, <3>5 DEF Awaiting
    <3>7. r \in {0, 1} /\ BodyLen \in Nat
      BY <3>6, Sizes DEF Kind11
    <3> DEFINE n == Len(b)
               past == n + 1
    <3>8. past \in 3 .. Len(b) + 1 /\ past - 1 = n
      BY <3>3
    <3> HIDE DEF past
    <3>9. Entity(b, past) = Bytes(r, Count("eof", past - 1))
      BY <3>6, <3>8, EntityAt
    <3>10. n - 2 \in Nat /\ n - 2 <= BodyLen
      <4>1. 0 + n <= 0 + Total("eof", v, t)
        BY <3>6 DEF Sent11
      <4>2. Total("eof", v, t) = 2 + BodyLen
        BY DEF Total, Size
      <4> QED BY <3>3, <3>7, <4>1, <4>2
    <3>11. Count("eof", n) = n - 2
      BY <3>3 DEF Count
    <3>12. Entity(b, past) = Bytes(r, n - 2)
      BY <3>8, <3>9, <3>11
    <3>13. IsPrefix(Bytes(r, n - 2), Bytes(r, BodyLen))
      BY <3>7, <3>10, PrefixOfBytes
    <3>14. answer.garbled \/ (answer.eof /\ answer.body = Bytes(r, BodyLen))
      BY <3>2, <3>5 DEF Promised, Size
    <3>15. /\ outcome' = [out |-> "response", status |-> b[1].v.status, loc |-> b[1].v.loc,
                          tag |-> b[1].tag, body |-> Entity(b, past)]
           /\ Closes /\ h1' = Idle(h1.tag)
      BY <1>3, Zenon DEF Finished, Reusable, past
    <3>16. H1OK' /\ h1'.reading = FALSE
      BY <3>15, IdleOK DEF ResponseOK
    <3>17. ConnOK' /\ wire' = <<>>
      BY <3>15, ClosesOK
    <3>18. OutcomeOK'
      <4>1. outcome'.body = Bytes(r, n - 2)
        BY <3>12, <3>15
      <4>2. answer' = answer
        BY <1>1
      <4> HIDE DEF n
      <4> QED BY <3>13, <3>14, <4>1, <4>2, Zenon DEF OutcomeOK
    <3>19. ReadingOK'
      BY <1>1, <3>16, <3>17 DEF ReadingOK
    <3> QED BY <3>16, <3>17, <3>18, <3>19 DEF ResponseOK
  <2> QED BY <2>1, <2>2
<1> QED BY <1>2, <1>3 DEF EndArrives

\* An answer without a body is the same however its method says so.
LEMMA SameWithoutBody ==
  ASSUME NEW v, v.cl = 0, NEW r, NEW t, NEW d, Kind11("length", v, r, t, d),
         NEW mode \in {"none", "length"},
         NEW q, NEW from, Sent11(q, "length", v, r, t, d, from)
  PROVE  Kind11(mode, v, r, t, d) /\ Sent11(q, mode, v, r, t, d, from)
<1>1. Kind11(mode, v, r, t, d)
  BY DEF Kind11, Modes
<1>2. Total(mode, v, t) = Total("length", v, t)
  BY DEF Total, Size
<1>3. \A i : Sends(mode, v, r, t, d, i) = Sends("length", v, r, t, d, i)
  BY DEF Sends, At
<1> QED BY <1>1, <1>2, <1>3 DEF Sent11

\* The first part of an answer is the first part of it.
LEMMA FirstSent ==
  ASSUME NEW mode, NEW v, NEW r, NEW t, NEW d,
         Kind11(mode, v, r, t, d), NEW q, Sent11(q, mode, v, r, t, d, 0), NEW n \in 0 .. Len(q)
  PROVE  Sent11(SubSeq(q, 1, n), mode, v, r, t, d, 0)
<1>1. q \in Seq(Pieces) /\ 0 + Len(q) <= d + Total(mode, v, t)
      /\ \A i \in 1 .. Len(q) : q[i] = Sends(mode, v, r, t, d, 0 + i)
  BY DEF Sent11
<1> DEFINE s == SubSeq(q, 1, n)
<1>2. Len(q) \in Nat /\ n \in Nat /\ n <= Len(q)
  BY <1>1, LenProperties
<1>3. s \in Seq(Pieces) /\ Len(s) = n /\ \A i \in 1 .. n : s[i] = q[i]
  BY <1>1, FirstProperties
<1> HIDE DEF s
<1>4. 0 + Len(s) <= d + Total(mode, v, t)
  <2> DEFINE most == d + Total(mode, v, t)
  <2>1. 0 + Len(q) <= most
    BY <1>1
  <2>2. most \in Int
    <3>1. Kind11(mode, v, r, t, d)
      OBVIOUS
    <3>2. d \in Nat
      BY DEF Kind11
    <3> QED BY <3>2, Sizes
  <2> HIDE DEF most
  <2>3. 0 + Len(s) <= most
    BY <1>2, <1>3, <2>1, <2>2
  <2> QED BY <2>3 DEF most
<1>5. \A i \in 1 .. Len(s) : s[i] = Sends(mode, v, r, t, d, 0 + i)
  BY <1>1, <1>2, <1>3
<1> QED BY <1>3, <1>4, <1>5 DEF Sent11, s

-----------------------------------------------------------------------------
\* What an answer puts on the wire is on its way to the request in flight.
LEMMA AnswerComes ==
  ASSUME ResponseOK, h1.reading, answer = NoAnswer, UNCHANGED <<conn, h1, outcome, reqVars>>,
         NEW mode, NEW v, NEW r, NEW t, NEW d, Kind11(mode, v, r, t, d), mode = Mode(h1.method, v),
         Sent11(answer'.pieces, mode, v, r, t, d, 0), Len(answer'.pieces) = d + Total(mode, v, t),
         Promised(mode, v, r)',
         NEW sent \in {Len(answer'.pieces) - 1, Len(answer'.pieces)},
         wire' = wire \o SubSeq(answer'.pieces, 1, sent)
  PROVE  ResponseOK'
<1> DEFINE pieces == answer'.pieces
           q == SubSeq(pieces, 1, sent)
<1>1. /\ phase = "sent" /\ via.alpn = "h1" /\ outcome = Nothing
      /\ h1.buf = <<>> /\ wire = <<>>
  BY DEF ResponseOK, ReadingOK, NoAnswer
<1>2. UNCHANGED <<phase, via, conn, h1, outcome>>
  BY DEF reqVars
<1>3. /\ pieces \in Seq(Pieces) /\ Len(pieces) \in Nat /\ Len(pieces) >= 2
  <2>1. pieces \in Seq(Pieces)
    BY DEF Sent11
  <2>2. d \in Nat /\ Total(mode, v, t) \in Nat /\ Total(mode, v, t) >= 2
    <3>1. d \in Nat
      BY DEF Kind11
    <3> QED BY <3>1, Sizes
  <2> HIDE DEF pieces
  <2>3. Len(pieces) = d + Total(mode, v, t)
    BY DEF pieces
  <2> QED BY <2>1, <2>2, <2>3
<1>4. sent \in 0 .. Len(pieces)
  BY <1>3
<1>5. Sent11(q, mode, v, r, t, d, 0)
  BY <1>4, FirstSent
<1>6. wire' = q
  <2>1. q \in Seq(Pieces)
    BY <1>5 DEF Sent11
  <2> QED BY <1>1, <2>1, ConcatEmptySeq
<1> HIDE DEF q
<1>7. Sent11(<<>>, mode, v, r, t, d, 0)
  <2>1. <<>> \in Seq(Pieces) /\ Len(<<>>) = 0
    BY EmptySeq
  <2>2. 0 + Len(<<>>) <= d + Total(mode, v, t)
    <3>1. d \in Nat
      BY DEF Kind11
    <3> QED BY <2>1, <3>1, Sizes
  <2> QED BY <2>1, <2>2 DEF Sent11
<1>8. Awaiting(<<>>, q, mode, v, r, t, d)
  <2>1. Len(<<>>) = 0
    OBVIOUS
  <2> QED BY <1>5, <1>7, <2>1 DEF Awaiting
<1>9. Coming(mode, v, r, t, d)'
  BY <1>1, <1>2, <1>6, <1>8 DEF Coming
<1>10. answer'.pieces # <<>>
  BY <1>3, EmptySeq
<1>11. ReadingOK'
  BY <1>1, <1>2, <1>9, <1>10 DEF ReadingOK
<1>12. ConnOK' /\ H1OK'
  BY <1>2 DEF ResponseOK, ConnOK, H1OK
<1>13. OutcomeOK'
  BY <1>1, <1>2, NothingOK
<1> QED BY <1>11, <1>12, <1>13 DEF ResponseOK

\* The server answers; one that waits for a body refuses what comes instead.
LEMMA SrvAnswersOK ==
  ASSUME ResponseOK, NEW st \in Statuses, NEW loc \in Locations(st), SrvAnswers(st, loc),
         UNCHANGED reqVars
  PROVE  ResponseOK'
<1> DEFINE half == [cl |-> 0, te |-> FALSE, close |-> TRUE]
           refused == Answered(1 - h1.tag, "POST", 400, 0, half, FALSE)
           A(hd, extras) == IF conn.half THEN [refused EXCEPT !.garbled = TRUE]
                            ELSE Answered(h1.tag, h1.method, st, loc, hd, extras)
<1>1. h1.reading /\ answer = NoAnswer /\ UNCHANGED <<conn, h1, outcome>>
  BY DEF SrvAnswers
<1>2. PICK hd \in Headers(loc), extras \in BOOLEAN :
        /\ answer' = A(hd, extras)
        /\ \E sent \in {Len(A(hd, extras).pieces) - 1, Len(A(hd, extras).pieces)} :
             wire' = wire \o SubSeq(A(hd, extras).pieces, 1, sent)
  <2> DEFINE Step(a, extras) ==
               /\ extras => loc = 0
               /\ answer' = a
               /\ \E sent \in {Len(a.pieces) - 1, Len(a.pieces)} :
                    /\ wire' = wire \o SubSeq(a.pieces, 1, sent)
                    /\ ended' = (a.close \/ sent < Len(a.pieces))
  <2>1. \E hd \in Headers(loc), extras \in BOOLEAN : Step(A(hd, extras), extras)
    BY DEF SrvAnswers
  <2> HIDE DEF A
  <2> QED BY <2>1, Zenon
<1> HIDE DEF A
<1>3. PICK sent \in {Len(answer'.pieces) - 1, Len(answer'.pieces)} :
        wire' = wire \o SubSeq(answer'.pieces, 1, sent)
  BY <1>2
<1>4. h1.tag \in {0, 1} /\ 1 - h1.tag \in {0, 1}
  BY DEF ResponseOK, H1OK
<1>5. CASE ~conn.half
  <2> DEFINE v == HeadOf(st, loc, hd)
  <2>1. PICK mode : mode = Mode(h1.method, v)
    OBVIOUS
  <2>2. PICK r : r = h1.tag
    OBVIOUS
  <2>3. answer' = Answered(r, h1.method, st, loc, hd, extras)
    BY <1>2, <1>5, <2>2 DEF A
  <2>4. st \in Nat /\ st >= 200 /\ loc \in Int
    BY RequestAssumption DEF Statuses, Locations, Unparsable
  <2>5. hd \in [cl : {-1, 0, BodyLen}, te : BOOLEAN, close : BOOLEAN] /\ extras \in BOOLEAN
    BY DEF Headers
  <2>6. Answers11(answer', mode, v, r, extras, Offset(extras))
    BY <1>4, <2>1, <2>2, <2>3, <2>4, <2>5, AnsweredAt
  <2> HIDE DEF v
  <2>7. /\ Kind11(mode, v, r, extras, Offset(extras))
        /\ Sent11(answer'.pieces, mode, v, r, extras, Offset(extras), 0)
        /\ Len(answer'.pieces) = Offset(extras) + Total(mode, v, extras)
        /\ answer'.body = Bytes(r, Size(mode, v)) /\ (answer'.eof <=> mode = "eof")
    BY <2>6 DEF Answers11
  <2>8. Promised(mode, v, r)'
    BY <2>7 DEF Promised, v
  <2> QED BY <1>1, <1>3, <2>1, <2>7, <2>8, AnswerComes
<1>6. CASE conn.half
  <2> DEFINE v == HeadOf(400, 0, half)
  <2>1. PICK mode : mode = Mode(h1.method, v)
    OBVIOUS
  <2>2. PICK r : r = 1 - h1.tag
    OBVIOUS
  <2>0. PICK no \in BOOLEAN : no = FALSE
    OBVIOUS
  <2>3. refused = Answered(r, "POST", 400, 0, half, no)
    BY <2>0, <2>2
  <2>4. answer' = [refused EXCEPT !.garbled = TRUE]
    BY <1>2, <1>6 DEF A
  <2>5. answer'.pieces = refused.pieces /\ answer'.garbled
    BY <2>4 DEF Answered
  <2>6. /\ half \in [cl : {-1, 0, BodyLen}, te : BOOLEAN, close : BOOLEAN]
        /\ 400 \in Nat /\ 400 >= 200 /\ 0 \in Nat /\ r \in {0, 1}
    BY <1>4, <2>2
  <2>7. v.status = 400 /\ v.cl = 0 /\ v.te = FALSE
    BY DEF HeadOf
  <2> HIDE DEF refused, half
  <2>8. Answers11(refused, Mode("POST", v), v, r, no, Offset(no))
    BY <2>3, <2>6, AnsweredAt
  <2> HIDE DEF v
  <2>9. Mode("POST", v) = "length" /\ mode \in {"none", "length"}
    BY <2>1, <2>7 DEF Mode, Bodyless
  <2>10. /\ Kind11("length", v, r, no, Offset(no))
         /\ Sent11(answer'.pieces, "length", v, r, no, Offset(no), 0)
         /\ Len(answer'.pieces) = Offset(no) + Total("length", v, no)
    BY <2>5, <2>8, <2>9 DEF Answers11
  <2>11. /\ Kind11(mode, v, r, no, Offset(no))
         /\ Sent11(answer'.pieces, mode, v, r, no, Offset(no), 0)
    BY <2>7, <2>9, <2>10, SameWithoutBody
  <2>12. Total(mode, v, no) = Total("length", v, no)
    BY <2>7, <2>9 DEF Total, Size
  <2>13. Promised(mode, v, r)'
    BY <2>5 DEF Promised
  <2> QED BY <1>1, <1>3, <2>1, <2>10, <2>11, <2>12, <2>13, AnswerComes
<1> QED BY <1>5, <1>6

\* Marking a connection busy or free.
LEMMA ConnUpdated ==
  ASSUME ConnOK, NEW busy, conn' = [conn EXCEPT !.busy = busy]
  PROVE  ConnOK'
BY DEF ConnOK

\* A request is written on a connection with nothing left over.
LEMMA AcquireH1OK ==
  ASSUME ResponseOK, AcquireH1
  PROVE  ResponseOK'
<1> DEFINE c == IF Kept THEN conn ELSE [NoConn EXCEPT !.open = TRUE, !.port = opts.port]
<1>1. /\ h1.reading = FALSE /\ outcome = Nothing /\ wire = <<>>
      /\ ConnOK /\ H1OK
  BY DEF AcquireH1, ResponseOK, ReadingOK, H1OK
<1>2. /\ phase' = "sent" /\ via' = [alpn |-> "h1", port |-> opts.port]
      /\ wire' = <<>>
      /\ IF opts.body = "stream" THEN HalfWritten(c)
         ELSE Written(c, opts.method) /\ UNCHANGED outcome
  BY <1>1, Zenon DEF AcquireH1, Sent
<1>3. /\ c.leftover = <<>>
      /\ c = [open |-> c.open, port |-> c.port, leftover |-> <<>>, half |-> c.half,
              busy |-> c.busy]
  <2>1. CASE Kept
    <3>1. c = conn
      BY <2>1
    <3> HIDE DEF c
    <3> QED BY <1>1, <3>1 DEF ConnOK
  <2>2. CASE ~Kept
    <3>1. c = [open |-> TRUE, port |-> opts.port, leftover |-> <<>>, half |-> FALSE,
               busy |-> FALSE]
      BY <2>2 DEF NoConn
    <3> HIDE DEF c
    <3> QED BY <3>1
  <2> QED BY <2>1, <2>2
<1> HIDE DEF c
<1>4. CASE opts.body = "stream"
  <2>1. /\ conn' = [c EXCEPT !.half = TRUE] /\ outcome' = Failed("EUNKNOWN")
        /\ h1' = h1
    BY <1>2, <1>4 DEF HalfWritten
  <2>2. ConnOK'
    BY <1>3, <2>1 DEF ConnOK
  <2>3. OutcomeOK'
    BY <2>1 DEF OutcomeOK, Failed
  <2> QED BY <1>1, <1>2, <2>1, <2>2, <2>3, QuietOK
<1>5. CASE opts.body # "stream"
  <2>1. /\ h1' = [reading |-> TRUE, buf |-> <<>>, method |-> opts.method, tag |-> 1 - h1.tag]
        /\ conn' = [c EXCEPT !.leftover = <<>>]
        /\ answer' = NoAnswer /\ outcome' = Nothing
    BY <1>1, <1>2, <1>3, <1>5 DEF Written
  <2>2. ConnOK'
    BY <1>3, <2>1 DEF ConnOK
  <2>3. OutcomeOK'
    BY <2>1, NothingOK
  <2>4. 1 - h1.tag \in {0, 1}
    BY <1>1 DEF H1OK
  <2>5. H1OK' /\ h1'.reading /\ h1'.buf = <<>>
    BY <2>1, <2>4 DEF H1OK
  <2>6. ReadingOK'
    BY <1>2, <2>1, <2>5 DEF ReadingOK
  <2> QED BY <2>2, <2>3, <2>5, <2>6 DEF ResponseOK
<1> QED BY <1>4, <1>5

\* The steps between responses, with nothing being read.
LEMMA QuietStepsOK ==
  ASSUME ResponseOK,
         \/ AcquireQuic \/ AcquireMultiplexed \/ AcquireFails \/ Multiplexes
         \/ Redirect \/ LocationThrows \/ Retry \/ Settle \/ AltSvcExpires \/ IdleCloses
         \/ SrvEnds /\ UNCHANGED reqVars
         \/ \E c \in Calls : Call(c)
  PROVE  ResponseOK'
<1>0. ConnOK /\ H1OK /\ OutcomeOK /\ ReadingOK /\ h1.reading \in BOOLEAN
  BY DEF ResponseOK, H1OK
<1>1. CASE AcquireQuic
  <2>1. h1.reading = FALSE /\ wire' = <<>> /\ UNCHANGED <<conn, h1, outcome>> /\ outcome' = Nothing
    BY <1>0, <1>1 DEF AcquireQuic, ReadingOK, h1Vars
  <2> QED BY <1>0, <2>1, NothingOK, QuietOK DEF ConnOK
<1>2. CASE AcquireMultiplexed
  <2>1. h1.reading = FALSE /\ wire = <<>> /\ h1' = h1 /\ outcome' = Nothing /\ Stale
    BY <1>0, <1>2 DEF AcquireMultiplexed, ReadingOK
  <2>2. ConnOK' /\ wire' = <<>>
    BY <1>0, <2>1, ClosesOK DEF Stale, ConnOK
  <2> QED BY <1>0, <2>1, <2>2, NothingOK, QuietOK
<1>3. CASE AcquireFails
  <2>1. /\ h1.reading = FALSE /\ wire = <<>> /\ h1' = h1 /\ Stale /\ phase' = "sent"
        /\ \E code : outcome' = Failed(code)
    BY <1>0, <1>3 DEF AcquireFails, ReadingOK, Sent
  <2>2. ConnOK' /\ wire' = <<>>
    BY <1>0, <2>1, ClosesOK DEF Stale, ConnOK
  <2>3. OutcomeOK'
    BY <2>1 DEF OutcomeOK, Failed
  <2> QED BY <1>0, <2>1, <2>2, <2>3, QuietOK
<1>4. CASE Multiplexes
  <2>1. /\ phase = "sent" /\ phase' = "sent" /\ via.alpn # "h1"
        /\ UNCHANGED <<conn, h1, wire>>
        /\ \/ \E code : outcome' = Failed(code)
           \/ \E st, loc : outcome' = Response(st, loc)
    <3>1. ASSUME H2Fails
          PROVE  /\ phase = "sent" /\ phase' = "sent" /\ via.alpn # "h1"
                 /\ UNCHANGED <<conn, h1, wire>> /\ \E code : outcome' = Failed(code)
      BY <3>1 DEF H2Fails, InFlight
    <3>2. ASSUME NEW st, NEW loc, H2Answers(st, loc)
          PROVE  /\ phase = "sent" /\ phase' = "sent" /\ via.alpn # "h1"
                 /\ UNCHANGED <<conn, h1, wire>> /\ outcome' = Response(st, loc)
      BY <3>2 DEF H2Answers, InFlight
    <3>3. ASSUME NEW st, NEW loc, H3Answers(st, loc)
          PROVE  /\ phase = "sent" /\ phase' = "sent" /\ via.alpn # "h1"
                 /\ UNCHANGED <<conn, h1, wire>>
                 /\ outcome' = Failed("EUNKNOWN") \/ outcome' = Response(st, loc)
      BY <3>3 DEF H3Answers, InFlight, reqVars
    <3> QED BY <1>4, <3>1, <3>2, <3>3 DEF Multiplexes
  <2>2. h1.reading = FALSE /\ wire' = <<>>
    BY <1>0, <2>1 DEF ReadingOK
  <2>3. OutcomeOK'
    BY <2>1 DEF OutcomeOK, Failed, Response
  <2>4. ConnOK'
    BY <1>0, <2>1 DEF ConnOK
  <2> QED BY <1>0, <2>1, <2>2, <2>3, <2>4, QuietOK
<1>5. CASE Redirect
  <2>1. outcome # Nothing
    BY <1>5 DEF Redirect, Following, Nothing
  <2>2. /\ h1.reading = FALSE /\ wire' = <<>> /\ h1' = h1 /\ outcome' = Nothing
        /\ conn' = [conn EXCEPT !.busy = conn.open /\ (via.alpn = "h1" \/ conn.busy)]
    BY <1>0, <1>5, <2>1 DEF Redirect, ReadingOK
  <2>3. ConnOK'
    BY <1>0, <2>2, ConnUpdated
  <2> QED BY <1>0, <2>2, <2>3, NothingOK, QuietOK
<1>6. CASE Retry \/ Settle
  <2>1. /\ h1.reading = FALSE /\ wire' = <<>> /\ h1' = h1 /\ outcome' = Nothing
        /\ conn' = [conn EXCEPT !.busy = FALSE]
    BY <1>0, <1>6 DEF Retry, Settle, Freed, ReadingOK
  <2>2. ConnOK'
    BY <1>0, <2>1, ConnUpdated
  <2> QED BY <1>0, <2>1, <2>2, NothingOK, QuietOK
<1>7. CASE \/ AltSvcExpires \/ \E c \in Calls : Call(c)
  <2>1. h1.reading = FALSE /\ wire' = <<>> /\ UNCHANGED <<conn, h1>> /\ outcome' = Nothing
    BY <1>0, <1>7 DEF AltSvcExpires, Call, Ended, ReadingOK, h1Vars
  <2> QED BY <1>0, <2>1, NothingOK, QuietOK DEF ConnOK
<1>8. CASE IdleCloses
  <2>1. h1.reading = FALSE /\ h1' = h1 /\ outcome' = Nothing /\ Closes
    BY <1>0, <1>8 DEF IdleCloses, ReadingOK
  <2> QED BY <1>0, <2>1, NothingOK, QuietOK, ClosesOK
<1>9. CASE SrvEnds /\ UNCHANGED reqVars
  <2>1. h1.reading = FALSE /\ wire' = <<>> /\ UNCHANGED <<conn, h1, answer, outcome, phase>>
    BY <1>0, <1>9 DEF SrvEnds, ReadingOK, reqVars
  <2>2. OutcomeOK'
    BY <1>0, <2>1 DEF OutcomeOK
  <2>3. ConnOK' /\ (phase' # "sent" => outcome' = Nothing)
    BY <1>0, <2>1 DEF ConnOK, ReadingOK
  <2> QED BY <1>0, <2>1, <2>2, <2>3, QuietOK
<1>10. CASE LocationThrows
  <2>1. outcome # Nothing /\ phase = "sent"
    BY <1>10 DEF LocationThrows, Following, Nothing
  <2>2. h1.reading = FALSE /\ wire = <<>> /\ h1' = h1
    BY <1>0, <1>10, <2>1 DEF LocationThrows, ReadingOK
  <2>3. CASE via.alpn = "h3"
    <3>1. UNCHANGED <<conn, wire, phase>> /\ outcome' = Failed("EUNKNOWN")
      BY <1>10, <2>3 DEF LocationThrows, reqVars
    <3>2. OutcomeOK'
      BY <3>1 DEF OutcomeOK, Failed
    <3> QED BY <1>0, <2>1, <2>2, <3>1, <3>2, QuietOK DEF ConnOK
  <2>4. CASE via.alpn # "h3"
    <3>1. outcome' = Nothing /\ (Closes \/ UNCHANGED <<conn, wire>>)
      BY <1>10, <2>4 DEF LocationThrows
    <3>2. ConnOK' /\ wire' = <<>>
      BY <1>0, <2>2, <3>1, ClosesOK DEF ConnOK
    <3> QED BY <1>0, <2>2, <3>1, <3>2, NothingOK, QuietOK
  <2> QED BY <2>3, <2>4
<1> QED BY <1>1, <1>2, <1>3, <1>4, <1>5, <1>6, <1>7, <1>8, <1>9, <1>10

\* Every step keeps the invariant.
LEMMA StepResponseOK == ResponseOK /\ [Next]_vars => ResponseOK'
<1> SUFFICES ASSUME ResponseOK, [Next]_vars PROVE ResponseOK'
  OBVIOUS
<1>1. CASE OverH1
  BY <1>1, EndArrivesOK, ResponseTimerOK, DataArrivesOK, SrvAnswersOK DEF OverH1
<1>2. CASE AcquireH1
  BY <1>2, AcquireH1OK
<1>3. CASE \/ AcquireQuic \/ AcquireMultiplexed \/ AcquireFails \/ Multiplexes
           \/ Redirect \/ LocationThrows \/ Retry \/ Settle \/ AltSvcExpires \/ IdleCloses
           \/ SrvEnds /\ UNCHANGED reqVars
           \/ \E c \in Calls : Call(c)
  BY <1>3, QuietStepsOK
<1>4. CASE UNCHANGED vars
  <2>1. UNCHANGED <<conn, h1, wire, answer, outcome, phase, via>>
    BY <1>4 DEF vars, h1Vars, reqVars
  <2> QED BY <2>1 DEF ResponseOK, ConnOK, H1OK, OutcomeOK, ReadingOK, Coming, Promised
<1> QED BY <1>1, <1>2, <1>3, <1>4 DEF Next, Driver, AcquireTcp, Handles

(* Whatever the sequence of requests, redirects, retries, servers that     *)
(* stop and bytes that come one by one: a response is the one to its own   *)
(* request with its whole body, for bodies of any length, and nothing is   *)
(* left over for the next request on the connection (client.js 342-540).   *)
THEOREM ResponseIsMine == Spec => []BodyIsMine
<1> QED BY InitResponseOK, MineResponseOK, StepResponseOK, PTL DEF Spec
=============================================================================
