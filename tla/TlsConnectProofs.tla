-------------------------- MODULE TlsConnectProofs --------------------------
(***************************************************************************)
(* Theorems about a TLS connection, for any number of addresses, every     *)
(* choice of versions and key shares and every server of the model: when   *)
(* it is reported ready, both sides have the same handshake.               *)
(***************************************************************************)
EXTENDS TlsConnect, SequenceTheorems, TLAPS

Names == {"CH1", "H(CH1)", "HRR", "CH2", "SH", "EE", "CERT", "CV", "SKE", "SHD", "CKE",
          "SFIN", "EOED", "CFIN", "NST"}
RecordsOf == [type : {"ccs", "alert", "handshake", "encrypted"}, ms : Seq(Names)]
Fields ==
  [transcript : Seq(Names), tls12 : BOOLEAN, keysReady : BOOLEAN, decap : BOOLEAN,
   driver : {"data", "decap"}, buf : Seq(RecordsOf), messages : Seq(Names),
   encHsBuf : Seq(Names), trusted : BOOLEAN, pskAccepted : BOOLEAN,
   earlyDataAccepted : BOOLEAN, replayed : BOOLEAN]

Elements(q) == {q[i] : i \in DOMAIN q}
Way == tls.buf \o wire
UnderWay == Elements(tls.buf) \cup Elements(wire)

Types ==
  /\ conf \in Confs /\ tls \in Fields /\ wire \in Seq(RecordsOf)
  /\ toServer \in {"", "CH1", "CH2", "flight"} /\ socket \in {"none", "open", "closed"}
  /\ event \in {"none", "error", "ready"}

(* The dial: an attempt that is not over has no socket to spoil.           *)
DialOK ==
  /\ attempts = [i \in DOMAIN attempts |-> attempts[i]]
  /\ \A i \in DOMAIN attempts : i # 0
  /\ OneSocketKept
  /\ route # "direct" => DOMAIN attempts = {}
  /\ DOMAIN attempts # {} /\ winner = 0 => socket = "none"
  /\ event = "error" => socket # "open"
  /\ socket = "none" /\ event # "none" => \A i \in DOMAIN attempts : attempts[i] = "failed"
  /\ socket = "none" => tls.transcript = <<>>

(* Nothing is under way before the ClientHello.                            *)
Begun ==
  tls.transcript = <<>> =>
    /\ tls.buf = <<>> /\ wire = <<>> /\ tls.messages = <<>>
    /\ toServer = "" /\ event # "ready"

(* The last message of a flight, which the client answers.                 *)
Lasts == {"HRR", "SHD", "SFIN"}
EndsOnly(ms) == \A j \in DOMAIN ms : ms[j] \in Lasts => j = Len(ms)
LastComes(q) ==
  \A i \in DOMAIN q : \A j \in DOMAIN q[i].ms :
    q[i].ms[j] \in Lasts => i = Len(q) /\ j = Len(q[i].ms)

(* Up to a failure, client and server take turns.                          *)
TakeTurns ==
  event # "error" =>
    /\ tls.encHsBuf = <<>>
    /\ toServer # "" => tls.buf = <<>> /\ wire = <<>> /\ tls.messages = <<>>
    /\ EndsOnly(tls.messages) /\ LastComes(Way)
    /\ \A m \in Elements(tls.messages) : m \in Lasts => tls.buf = <<>> /\ wire = <<>>

(* What may still come, before and after ready.                            *)
Late(r) == r.type \in {"ccs", "alert"} \/ (r.type = "encrypted" /\ Elements(r.ms) \subseteq {"NST"})
Refuses == conf.version = 12 /\ conf.early
RecordFits(r, e) ==
  /\ r.type = "handshake" => r.ms # <<>>
  /\ r.type = "encrypted" => conf.version = 13
  /\ Refuses => r.type = "alert"
  /\ e = "ready" => Late(r)
  /\ "NST" \in Elements(r.ms) => e = "ready"
RecordsFit == \A r \in UnderWay : RecordFits(r, event)

MessagesFit ==
  /\ \A m \in Elements(tls.messages) : m = "NST" <=> event = "ready"
  /\ "NST" \in Elements(tls.encHsBuf) => event = "ready"
  /\ tls.messages # <<>> /\ ~tls.tls12 => conf.version = 13
  /\ Refuses => tls.messages = <<>> /\ tls.encHsBuf = <<>>
  /\ tls.tls12 => conf.version = 12

(* What the last flight of the client is an answer to.                     *)
Answered ==
  toServer = "flight" =>
    /\ event # "error" /\ ~Refuses
    /\ ~tls.tls12 => event = "ready" /\ conf.version = 13

(* What the messages in the transcript have set.                           *)
Heard(tr) ==
  /\ "EE" \in Elements(tr) => tls.earlyDataAccepted = conf.takesEarly
  /\ conf.version = 13 /\ "SH" \in Elements(tr) => tls.pskAccepted = conf.takesPsk
  /\ event # "error" /\ conf.verifyTLS /\ "CERT" \in Elements(tr) => tls.trusted

Done ==
  event = "ready" =>
    /\ tls.transcript = SrvTranscript
    /\ conf.verifyTLS => tls.trusted \/ tls.pskAccepted
    /\ conf.early => tls.replayed = ~conf.takesEarly
    /\ toServer = "" \/ (toServer = "flight" /\ ~tls.tls12)

IInv ==
  /\ Types /\ DialOK /\ Begun /\ TakeTurns /\ RecordsFit /\ MessagesFit
  /\ Answered /\ Heard(tls.transcript) /\ Done /\ FALSE \notin tickets

-----------------------------------------------------------------------------
(* Lemmas about sequences.                                                 *)

LEMMA Indices ==
  ASSUME NEW S, NEW q \in Seq(S)
  PROVE  Len(q) \in Nat /\ DOMAIN q = 1 .. Len(q) /\ \A i \in DOMAIN q : q[i] \in S
BY LenProperties, ElementOfSeq

LEMMA ElementsIn ==
  ASSUME NEW S, NEW q \in Seq(S)
  PROVE  Elements(q) \subseteq S
BY Indices DEF Elements

(* The elements of a concatenation.                                        *)
LEMMA Concatenated ==
  ASSUME NEW S, NEW a \in Seq(S), NEW b \in Seq(S), NEW n, NEW m, Len(a) = n, Len(b) = m
  PROVE  /\ a \o b \in Seq(S) /\ Len(a \o b) = n + m /\ n \in Nat /\ m \in Nat
         /\ DOMAIN a = 1 .. n /\ DOMAIN b = 1 .. m /\ DOMAIN (a \o b) = 1 .. n + m
         /\ \A i \in 1 .. n : (a \o b)[i] = a[i]
         /\ \A i \in 1 .. m : (a \o b)[n + i] = b[i]
         /\ \A i \in 1 .. n + m : i \in 1 .. n \/ (i - n \in 1 .. m /\ n + (i - n) = i)
BY SMTT(40)

LEMMA ElementsConcat ==
  ASSUME NEW S, NEW a \in Seq(S), NEW b \in Seq(S)
  PROVE  a \o b \in Seq(S) /\ Elements(a \o b) = Elements(a) \cup Elements(b)
<1> DEFINE q == a \o b
           n == Len(a)
           m == Len(b)
<1>0. Len(a) = n /\ Len(b) = m
  OBVIOUS
<1> HIDE DEF n, m
<1>1. /\ q \in Seq(S) /\ n \in Nat /\ m \in Nat
      /\ DOMAIN a = 1 .. n /\ DOMAIN b = 1 .. m /\ DOMAIN q = 1 .. n + m
      /\ \A i \in 1 .. n : q[i] = a[i]
      /\ \A i \in 1 .. m : q[n + i] = b[i]
      /\ \A i \in 1 .. n + m : i \in 1 .. n \/ (i - n \in 1 .. m /\ n + (i - n) = i)
  BY <1>0, Concatenated
<1> HIDE DEF q
<1>2. Elements(q) \subseteq Elements(a) \cup Elements(b)
  <2> SUFFICES ASSUME NEW i \in 1 .. n + m PROVE q[i] \in Elements(a) \cup Elements(b)
    BY <1>1 DEF Elements
  <2>1. CASE i \in 1 .. n
    BY <1>1, <2>1 DEF Elements
  <2>2. CASE i \notin 1 .. n
    <3>1. i - n \in 1 .. m /\ q[i] = b[i - n]
      BY <1>1, <2>2
    <3> QED BY <1>1, <3>1 DEF Elements
  <2> QED BY <2>1, <2>2
<1>3. Elements(a) \subseteq Elements(q)
  <2> SUFFICES ASSUME NEW i \in 1 .. n PROVE a[i] \in Elements(q)
    BY <1>1 DEF Elements
  <2>1. i \in 1 .. n + m
    BY <1>1
  <2> QED BY <1>1, <2>1 DEF Elements
<1>4. Elements(b) \subseteq Elements(q)
  <2> SUFFICES ASSUME NEW i \in 1 .. m PROVE b[i] \in Elements(q)
    BY <1>1 DEF Elements
  <2>1. n + i \in 1 .. n + m
    BY <1>1
  <2> QED BY <1>1, <2>1 DEF Elements
<1> QED BY <1>1, <1>2, <1>3, <1>4 DEF q

LEMMA OneElement ==
  ASSUME NEW S, NEW x \in S
  PROVE  <<x>> \in Seq(S) /\ Len(<<x>>) = 1 /\ Elements(<<x>>) = {x}
BY DEF Elements

LEMMA NoElement ==
  ASSUME NEW S
  PROVE  <<>> \in Seq(S) /\ Len(<<>>) = 0 /\ DOMAIN <<>> = {} /\ Elements(<<>>) = {}
BY DEF Elements

LEMMA HeadAndTail ==
  ASSUME NEW S, NEW q \in Seq(S), q # <<>>
  PROVE  /\ Head(q) \in S /\ Tail(q) \in Seq(S) /\ Len(q) \in Nat \ {0}
         /\ Len(Tail(q)) = Len(q) - 1 /\ Head(q) = q[1]
         /\ \A i \in 1 .. Len(q) - 1 : Tail(q)[i] = q[i + 1]
         /\ Head(q) \in Elements(q) /\ Elements(Tail(q)) \subseteq Elements(q)
<1>1. Len(q) \in Nat /\ Len(q) # 0 /\ DOMAIN q = 1 .. Len(q)
  BY Indices, EmptySeq
<1>2. /\ Head(q) \in S /\ Tail(q) \in Seq(S)
      /\ Len(Tail(q)) = Len(q) - 1 /\ Head(q) = q[1]
      /\ \A i \in 1 .. Len(q) - 1 : Tail(q)[i] = q[i + 1]
  BY <1>1, HeadTailProperties
<1>3. Head(q) \in Elements(q)
  BY <1>1, <1>2 DEF Elements
<1>4. Elements(Tail(q)) \subseteq Elements(q)
  <2>1. DOMAIN Tail(q) = 1 .. Len(q) - 1
    BY <1>2, LenProperties
  <2> SUFFICES ASSUME NEW i \in 1 .. Len(q) - 1 PROVE Tail(q)[i] \in Elements(q)
    BY <2>1 DEF Elements
  <2>2. i + 1 \in 1 .. Len(q)
    BY <1>1
  <2> QED BY <1>1, <1>2, <2>2 DEF Elements
<1> QED BY <1>1, <1>2, <1>3, <1>4

Associates(a, b, c) == (a \o b) \o c = a \o (b \o c)

LEMMA Associate ==
  ASSUME NEW S, NEW a \in Seq(S), NEW b \in Seq(S), NEW c \in Seq(S)
  PROVE  Associates(a, b, c)
BY ConcatAssociative DEF Associates

(* What arrives goes from one list to the other.                           *)
Moves(a, w, n, S) ==
  /\ a \o SubSeq(w, 1, n) \in Seq(S) /\ SubSeq(w, n + 1, Len(w)) \in Seq(S)
  /\ (a \o SubSeq(w, 1, n)) \o SubSeq(w, n + 1, Len(w)) = a \o w

LEMMA Arrived ==
  ASSUME NEW S, NEW a \in Seq(S), NEW w \in Seq(S), NEW n \in 1 .. Len(w)
  PROVE  Moves(a, w, n, S)
<1> DEFINE x == SubSeq(w, 1, n)
           y == SubSeq(w, n + 1, Len(w))
<1>1. x \in Seq(S) /\ y \in Seq(S) /\ x \o y = w
  BY LenProperties
<1> HIDE DEF x, y
<1>2. (a \o x) \o y = a \o (x \o y)
  <2>1. Associates(a, x, y)
    BY <1>1, Associate
  <2> QED BY <2>1 DEF Associates
<1> QED BY <1>1, <1>2, ConcatProperties DEF Moves, x, y

-----------------------------------------------------------------------------
(* Lemmas about the scripts of the server.                                 *)

LEMMA NamesConcat ==
  \A a, b \in Seq(Names) : a \o b \in Seq(Names) /\ Elements(a \o b) = Elements(a) \cup Elements(b)
BY ElementsConcat, Zenon

Parts(s, a, m, b) == s = (a \o <<m>>) \o b /\ m \notin Elements(a) \cup Elements(b)

(* A message that a script has once: what comes before it.                 *)
LEMMA BeforeIs ==
  ASSUME NEW s, NEW m \in Names, NEW a \in Seq(Names), NEW b \in Seq(Names), Parts(s, a, m, b)
  PROVE  LET at == CHOOSE i \in DOMAIN s : s[i] = m
         IN  SubSeq(s, 1, at - 1) = a
<1> DEFINE at == CHOOSE i \in DOMAIN s : s[i] = m
           k == Len(a)
           n == Len(b)
           one == Len(<<m>>)
           c == a \o <<m>>
<1>1. /\ c \in Seq(Names) /\ k \in Nat /\ DOMAIN a = 1 .. k /\ Len(c) = k + 1
      /\ \A i \in 1 .. k : c[i] = a[i]
      /\ c[k + 1] = m
  <2> HIDE DEF k
  <2>1. /\ Append(a, m) \in Seq(Names) /\ Len(Append(a, m)) = Len(a) + 1
        /\ \A i \in 1 .. Len(a) : Append(a, m)[i] = a[i]
        /\ Append(a, m)[Len(a) + 1] = m
    BY AppendProperties
  <2>2. Append(a, m) = c
    BY AppendIsConcat, Zenon
  <2> HIDE DEF c
  <2> QED BY <2>1, <2>2, Indices DEF k
<1> HIDE DEF c, k
<1>2. /\ s \in Seq(Names) /\ Len(s) = (k + 1) + n /\ n \in Nat /\ DOMAIN s = 1 .. (k + 1) + n
      /\ DOMAIN b = 1 .. n
      /\ \A i \in 1 .. k + 1 : s[i] = c[i]
      /\ \A i \in 1 .. n : s[(k + 1) + i] = b[i]
      /\ \A i \in 1 .. (k + 1) + n :
           i \in 1 .. k + 1 \/ (i - (k + 1) \in 1 .. n /\ (k + 1) + (i - (k + 1)) = i)
  <2> DEFINE h == k + 1
  <2>0. s = c \o b /\ Len(c) = h /\ Len(b) = n
    BY <1>1 DEF Parts, c
  <2> HIDE DEF h, n
  <2>1. /\ s \in Seq(Names) /\ Len(s) = h + n /\ n \in Nat /\ DOMAIN s = 1 .. h + n
        /\ DOMAIN b = 1 .. n
        /\ \A i \in 1 .. h : s[i] = c[i]
        /\ \A i \in 1 .. n : s[h + i] = b[i]
        /\ \A i \in 1 .. h + n : i \in 1 .. h \/ (i - h \in 1 .. n /\ h + (i - h) = i)
    BY <1>1, <2>0, Concatenated
  <2> QED BY <2>1 DEF h
<1> HIDE DEF n
<1>3. \A i \in DOMAIN s : s[i] = m => i = k + 1
  <2> SUFFICES ASSUME NEW i \in 1 .. (k + 1) + n, s[i] = m, i # k + 1 PROVE FALSE
    BY <1>2
  <2>1. CASE i \in 1 .. k
    <3>1. a[i] = m
      BY <1>1, <1>2, <2>1
    <3> QED BY <1>1, <2>1, <3>1 DEF Parts, Elements
  <2>2. CASE i \notin 1 .. k
    <3>1. i - (k + 1) \in 1 .. n /\ b[i - (k + 1)] = m
      <4>1. i \notin 1 .. k + 1 /\ i \in 1 .. (k + 1) + n
        BY <1>1, <1>2, <2>2
      <4>2. i - (k + 1) \in 1 .. n /\ (k + 1) + (i - (k + 1)) = i
        BY <1>2, <4>1
      <4>3. s[(k + 1) + (i - (k + 1))] = b[i - (k + 1)]
        BY <1>2, <4>2
      <4> QED BY <4>2, <4>3
    <3> QED BY <1>2, <3>1 DEF Parts, Elements
  <2> QED BY <2>1, <2>2
<1>4. k + 1 \in DOMAIN s /\ s[k + 1] = m
  <2>1. k + 1 \in 1 .. (k + 1) + n /\ k + 1 \in 1 .. k + 1
    BY <1>1, <1>2
  <2> QED BY <1>1, <1>2, <2>1
<1>5. at = k + 1
  <2>1. at \in DOMAIN s /\ s[at] = m
    BY <1>4, Zenon
  <2> HIDE DEF at
  <2> QED BY <1>3, <2>1
<1>6. SubSeq(s, 1, k) = a
  <2>1. /\ SubSeq(s, 1, k) \in Seq(Names) /\ Len(SubSeq(s, 1, k)) = k
        /\ \A i \in 1 .. k : SubSeq(s, 1, k)[i] = s[i]
    BY <1>1, <1>2
  <2>2. \A i \in 1 .. k : s[i] = a[i]
    BY <1>1, <1>2
  <2>3. Len(a) = k
    BY DEF k
  <2> DEFINE f == SubSeq(s, 1, k)
  <2> HIDE DEF f
  <2>4. f \in Seq(Names) /\ Len(f) = Len(a) /\ \A i \in 1 .. Len(f) : f[i] = a[i]
    BY <2>1, <2>2, <2>3 DEF f
  <2> QED BY <2>4, SeqEqual, Zenon DEF f
<1>7. at - 1 = k
  <2> HIDE DEF at
  <2> QED BY <1>1, <1>5
<1> QED BY <1>6, <1>7

Keys == IF conf.group = "hrr" THEN <<"H(CH1)", "HRR", "CH2">> ELSE <<"CH1">>
Chain == IF conf.takesPsk THEN <<>> ELSE <<"CERT", "CV">>
EarlyEnd == IF conf.takesEarly THEN <<"EOED">> ELSE <<>>
UpToFinished13 == (Keys \o <<"SH">>) \o (<<"EE">> \o Chain)
UpToFinished12 == (<<"CH1", "SH">> \o Flight12) \o <<"CKE", "CFIN">>

LEMMA PartsOf13 ==
  ASSUME conf \in Confs
  PROVE  /\ Keys \in Seq(Names) /\ Elements(Keys) \subseteq {"H(CH1)", "HRR", "CH2", "CH1"}
         /\ Chain \in Seq(Names) /\ Elements(Chain) \subseteq {"CERT", "CV"}
         /\ ~conf.takesPsk => "CERT" \in Elements(Chain)
         /\ EarlyEnd \in Seq(Names) /\ Elements(EarlyEnd) \subseteq {"EOED"}
         /\ \A m \in Names : <<m>> \in Seq(Names) /\ Elements(<<m>>) = {m}
<1>1. \A m \in Names : <<m>> \in Seq(Names) /\ Elements(<<m>>) = {m}
  BY OneElement
<1>2. <<>> \in Seq(Names) /\ Elements(<<>>) = {}
  BY NoElement
<1>3. /\ <<"H(CH1)", "HRR", "CH2">> \in Seq(Names)
      /\ Elements(<<"H(CH1)", "HRR", "CH2">>) = {"H(CH1)", "HRR", "CH2"}
  BY DEF Elements, Names
<1>4. <<"CERT", "CV">> \in Seq(Names) /\ Elements(<<"CERT", "CV">>) = {"CERT", "CV"}
  BY DEF Elements, Names
<1>5. "CH1" \in Names /\ "EOED" \in Names
  BY DEF Names
<1> QED BY <1>1, <1>2, <1>3, <1>4, <1>5, Zenon DEF Keys, Chain, EarlyEnd

LEMMA Script13 ==
  ASSUME conf \in Confs, conf.version = 13
  PROVE  /\ UpToFinished13 \in Seq(Names)
         /\ SrvTranscript = (UpToFinished13 \o <<"SFIN">>) \o (EarlyEnd \o <<"CFIN">>)
         /\ Before("SFIN") = UpToFinished13
         /\ "EE" \in Elements(UpToFinished13) /\ "SH" \in Elements(UpToFinished13)
         /\ ~conf.takesPsk => "CERT" \in Elements(UpToFinished13)
<1> DEFINE x == Keys \o <<"SH">>
           y == <<"EE">> \o Chain
           a == UpToFinished13
           fin == <<"SFIN">>
           b == EarlyEnd \o <<"CFIN">>
<1>1. {"SH", "EE", "SFIN", "CFIN"} \subseteq Names
  BY DEF Names
<1>2. x \in Seq(Names) /\ Elements(x) = Elements(Keys) \cup {"SH"}
  <2>1. Keys \in Seq(Names) /\ <<"SH">> \in Seq(Names) /\ Elements(<<"SH">>) = {"SH"}
    BY <1>1, PartsOf13, Zenon
  <2>2. Keys \o <<"SH">> \in Seq(Names) /\ Elements(Keys \o <<"SH">>) = Elements(Keys) \cup Elements(<<"SH">>)
    BY <2>1, NamesConcat, Zenon
  <2> QED BY <2>1, <2>2, Zenon
<1>3. y \in Seq(Names) /\ Elements(y) = {"EE"} \cup Elements(Chain)
  <2>1. <<"EE">> \in Seq(Names) /\ Chain \in Seq(Names) /\ Elements(<<"EE">>) = {"EE"}
    BY <1>1, PartsOf13, Zenon
  <2>2. /\ <<"EE">> \o Chain \in Seq(Names)
        /\ Elements(<<"EE">> \o Chain) = Elements(<<"EE">>) \cup Elements(Chain)
    BY <2>1, NamesConcat, Zenon
  <2> QED BY <2>1, <2>2, Zenon
<1>4. a = x \o y
  BY Zenon DEF UpToFinished13
<1>5. fin \in Seq(Names) /\ b \in Seq(Names) /\ Elements(b) = Elements(EarlyEnd) \cup {"CFIN"}
  BY <1>1, PartsOf13, NamesConcat, ZenonT(60)
<1>6. SrvTranscript = ((x \o (y \o fin)) \o EarlyEnd) \o <<"CFIN">>
  <2>1. Flight13 = y \o fin
    BY Zenon DEF Flight13, Chain
  <2>2. 13 # 12
    OBVIOUS
  <2> QED BY <2>1, <2>2, Zenon DEF SrvTranscript, Keys, EarlyEnd
<1> HIDE DEF x, y, a, fin
<1>7. a \in Seq(Names) /\ Elements(a) = Elements(x) \cup Elements(y)
  BY <1>2, <1>3, <1>4, NamesConcat, Zenon
<1>8. SrvTranscript = (a \o fin) \o b
  <2>1. x \o (y \o fin) = a \o fin
    <3>1. Associates(x, y, fin)
      BY <1>2, <1>3, <1>5, Associate
    <3> QED BY <1>4, <3>1, Zenon DEF Associates
  <2> DEFINE g == a \o fin
  <2>2. g \in Seq(Names)
    BY <1>5, <1>7, NamesConcat, Zenon
  <2>3. SrvTranscript = (g \o EarlyEnd) \o <<"CFIN">>
    BY <1>6, <2>1
  <2> HIDE DEF g
  <2>4. EarlyEnd \in Seq(Names) /\ <<"CFIN">> \in Seq(Names)
    BY <1>1, PartsOf13, Zenon
  <2>5. (g \o EarlyEnd) \o <<"CFIN">> = g \o (EarlyEnd \o <<"CFIN">>)
    <3>1. Associates(g, EarlyEnd, <<"CFIN">>)
      BY <2>2, <2>4, Associate
    <3> QED BY <3>1, Zenon DEF Associates
  <2> QED BY <2>3, <2>5 DEF g
<1> HIDE DEF b
<1>9. Parts(SrvTranscript, a, "SFIN", b)
  <2>1. "SFIN" \notin Elements(a) \cup Elements(b)
    BY <1>2, <1>3, <1>5, <1>7, PartsOf13
  <2> QED BY <1>8, <2>1, Zenon DEF Parts, fin
<1>10. Before("SFIN") = a
  BY <1>1, <1>5, <1>7, <1>9, BeforeIs DEF Before
<1>11. "EE" \in Elements(a) /\ "SH" \in Elements(a) /\ (~conf.takesPsk => "CERT" \in Elements(a))
  BY <1>2, <1>3, <1>7, PartsOf13
<1> QED BY <1>7, <1>8, <1>10, <1>11, Zenon DEF a, b, fin

LEMMA Script12 ==
  ASSUME conf \in Confs, conf.version = 12
  PROVE  /\ UpToFinished12 \in Seq(Names)
         /\ SrvTranscript = UpToFinished12 \o <<"SFIN">>
         /\ Before("SFIN") = UpToFinished12
         /\ "CERT" \in Elements(UpToFinished12)
<1> DEFINE x == <<"CH1", "SH">> \o Flight12
           a == UpToFinished12
           fin == <<"SFIN">>
           e == <<>>
<1>1. "SFIN" \in Names
  BY DEF Names
<1>2. /\ <<"CH1", "SH">> \in Seq(Names) /\ Elements(<<"CH1", "SH">>) = {"CH1", "SH"}
      /\ Flight12 \in Seq(Names) /\ Elements(Flight12) = {"CERT", "SKE", "SHD"}
      /\ <<"CKE", "CFIN">> \in Seq(Names) /\ Elements(<<"CKE", "CFIN">>) = {"CKE", "CFIN"}
      /\ fin \in Seq(Names) /\ e \in Seq(Names) /\ Elements(e) = {}
  BY DEF Elements, Names, Flight12
<1>3. x \in Seq(Names) /\ Elements(x) = {"CH1", "SH"} \cup {"CERT", "SKE", "SHD"}
  <2>1. /\ <<"CH1", "SH">> \in Seq(Names) /\ Flight12 \in Seq(Names)
        /\ Elements(<<"CH1", "SH">>) = {"CH1", "SH"} /\ Elements(Flight12) = {"CERT", "SKE", "SHD"}
    BY <1>2, Zenon
  <2>2. /\ <<"CH1", "SH">> \o Flight12 \in Seq(Names)
        /\ Elements(<<"CH1", "SH">> \o Flight12) = Elements(<<"CH1", "SH">>) \cup Elements(Flight12)
    BY <2>1, NamesConcat, Zenon
  <2> QED BY <2>1, <2>2, Zenon
<1>4. a = x \o <<"CKE", "CFIN">>
  BY Zenon DEF UpToFinished12
<1>5. <<"CKE", "CFIN", "SFIN">> = <<"CKE", "CFIN">> \o fin
  OBVIOUS
<1>6. SrvTranscript = x \o <<"CKE", "CFIN", "SFIN">>
  BY Zenon DEF SrvTranscript
<1> HIDE DEF x, a, fin, e
<1>7. a \in Seq(Names) /\ Elements(a) = Elements(x) \cup {"CKE", "CFIN"}
  BY <1>2, <1>3, <1>4, NamesConcat, Zenon
<1>8. SrvTranscript = a \o fin
  <2> DEFINE z == <<"CKE", "CFIN">>
  <2>0. z \in Seq(Names)
    BY <1>2
  <2> HIDE DEF z
  <2>1. (x \o z) \o fin = x \o (z \o fin)
    <3>1. Associates(x, z, fin)
      BY <1>2, <1>3, <2>0, Associate
    <3> QED BY <3>1, Zenon DEF Associates
  <2> QED BY <1>4, <1>5, <1>6, <2>1, Zenon DEF z
<1>9. Parts(SrvTranscript, a, "SFIN", e)
  <2>1. "SFIN" \notin Elements(a) \cup Elements(e)
    BY <1>2, <1>3, <1>7
  <2>2. a \o fin \in Seq(Names)
    BY <1>2, <1>7, NamesConcat, Zenon
  <2>3. (a \o fin) \o e = a \o fin
    BY <2>2, ConcatEmptySeq, Zenon DEF e
  <2> QED BY <1>8, <2>1, <2>3, Zenon DEF Parts, fin
<1>10. Before("SFIN") = a
  BY <1>1, <1>2, <1>7, <1>9, BeforeIs DEF Before
<1>11. "CERT" \in Elements(a)
  BY <1>3, <1>7
<1> QED BY <1>7, <1>8, <1>10, <1>11, Zenon DEF a, fin

-----------------------------------------------------------------------------
(* Lemmas about messages and records under way.                            *)

Free(ms) == Elements(ms) \cap Lasts = {}

LEMMA EndsTail ==
  ASSUME NEW ms \in Seq(Names), ms # <<>>, EndsOnly(ms)
  PROVE  EndsOnly(Tail(ms)) /\ (Head(ms) \in Lasts => Tail(ms) = <<>>)
<1> DEFINE n == Len(ms)
           r == Tail(ms)
<1>1. /\ n \in Nat \ {0} /\ Len(r) = n - 1 /\ Head(ms) = ms[1] /\ r \in Seq(Names)
      /\ \A i \in 1 .. n - 1 : r[i] = ms[i + 1]
      /\ DOMAIN ms = 1 .. n
  BY HeadAndTail, Indices
<1>2. DOMAIN r = 1 .. n - 1
  BY SMTT(40), <1>1, Indices
<1>3. \A j \in 1 .. n : ms[j] \in Lasts => j = n
  BY <1>1 DEF EndsOnly
<1> HIDE DEF n, r
<1>4. ASSUME NEW j \in 1 .. n - 1, r[j] \in Lasts PROVE j = n - 1
  <2>1. j + 1 \in 1 .. n /\ ms[j + 1] \in Lasts
    BY <1>1, <1>4
  <2>2. j + 1 = n
    BY <1>3, <2>1
  <2> QED BY <1>1, <2>2
<1>5. EndsOnly(r)
  BY <1>1, <1>2, <1>4 DEF EndsOnly
<1>6. Head(ms) \in Lasts => r = <<>>
  <2>1. ASSUME Head(ms) \in Lasts PROVE r = <<>>
    <3>1. 1 \in 1 .. n
      BY <1>1
    <3>2. n = 1
      BY <1>1, <1>3, <2>1, <3>1
    <3>3. Len(r) = 0
      BY <1>1, <3>2
    <3> QED BY <1>1, <3>3, EmptySeq
  <2> QED BY <2>1
<1> QED BY <1>5, <1>6 DEF r

LEMMA EndsAppended ==
  ASSUME NEW a \in Seq(Names), Free(a), NEW m \in Names
  PROVE  EndsOnly(a \o <<m>>)
<1> DEFINE k == Len(a)
           c == a \o <<m>>
<1>1. c = Append(a, m) /\ k \in Nat
  BY AppendIsConcat, Indices, Zenon
<1>2. c \in Seq(Names) /\ Len(c) = k + 1 /\ \A i \in 1 .. k : c[i] = a[i]
  <2> DEFINE d == Append(a, m)
  <2>1. d \in Seq(Names) /\ Len(d) = Len(a) + 1 /\ \A i \in 1 .. Len(a) : d[i] = a[i]
    BY AppendProperties
  <2> QED BY <1>1, <2>1
<1>3. DOMAIN c = 1 .. k + 1 /\ DOMAIN a = 1 .. k
  BY <1>2, Indices
<1> HIDE DEF k, c
<1>4. ASSUME NEW j \in 1 .. k + 1, c[j] \in Lasts, j # k + 1 PROVE FALSE
  <2>1. j \in 1 .. k /\ a[j] \in Lasts
    BY <1>1, <1>2, <1>4
  <2> QED BY <1>3, <2>1 DEF Free, Elements
<1> QED BY <1>2, <1>3, <1>4 DEF EndsOnly, c

LEMMA LastsTail ==
  ASSUME NEW q \in Seq(RecordsOf), q # <<>>, LastComes(q)
  PROVE  /\ LastComes(Tail(q)) /\ EndsOnly(Head(q).ms)
         /\ ~Free(Head(q).ms) => Tail(q) = <<>>
<1> DEFINE n == Len(q)
           t == Tail(q)
<1>1. /\ n \in Nat \ {0} /\ Len(t) = n - 1 /\ Head(q) = q[1] /\ t \in Seq(RecordsOf)
      /\ \A i \in 1 .. n - 1 : t[i] = q[i + 1]
      /\ DOMAIN q = 1 .. n
  BY HeadAndTail, Indices
<1>2. DOMAIN t = 1 .. n - 1
  BY <1>1, Indices
<1>3. \A i \in 1 .. n : \A j \in DOMAIN q[i].ms :
        q[i].ms[j] \in Lasts => i = n /\ j = Len(q[i].ms)
  BY <1>1 DEF LastComes
<1> HIDE DEF n, t
<1>4. ASSUME NEW i \in 1 .. n - 1, NEW j \in DOMAIN t[i].ms, t[i].ms[j] \in Lasts
      PROVE  i = n - 1 /\ j = Len(t[i].ms)
  <2>1. i + 1 \in 1 .. n /\ t[i] = q[i + 1]
    BY <1>1
  <2>2. i + 1 = n /\ j = Len(t[i].ms)
    BY <1>3, <1>4, <2>1
  <2> QED BY <1>1, <2>2
<1>5. LastComes(t)
  BY <1>1, <1>2, <1>4 DEF LastComes
<1>6. 1 \in 1 .. n
  BY <1>1
<1>7. EndsOnly(Head(q).ms)
  BY <1>1, <1>3, <1>6 DEF EndsOnly
<1>8. ASSUME ~Free(Head(q).ms) PROVE t = <<>>
  <2>1. PICK j \in DOMAIN q[1].ms : q[1].ms[j] \in Lasts
    BY <1>1, <1>8 DEF Free, Elements
  <2>2. n = 1
    BY <1>3, <1>6, <2>1
  <2>3. Len(t) = 0
    BY <1>1, <2>2
  <2> QED BY <1>1, <2>3, EmptySeq
<1> QED BY SMTT(40), <1>5, <1>7, <1>8 DEF t

LEMMA LastsConcat ==
  ASSUME NEW a \in Seq(RecordsOf), NEW b \in Seq(RecordsOf), LastComes(b),
         \A r \in Elements(a) : Free(r.ms)
  PROVE  LastComes(a \o b)
<1> DEFINE n == Len(a)
           m == Len(b)
           q == a \o b
<1>0. Len(a) = n /\ Len(b) = m
  OBVIOUS
<1> HIDE DEF n, m
<1>1. /\ q \in Seq(RecordsOf) /\ Len(q) = n + m /\ n \in Nat /\ m \in Nat
      /\ DOMAIN a = 1 .. n /\ DOMAIN b = 1 .. m /\ DOMAIN q = 1 .. n + m
      /\ \A i \in 1 .. n : q[i] = a[i]
      /\ \A i \in 1 .. m : q[n + i] = b[i]
      /\ \A i \in 1 .. n + m : i \in 1 .. n \/ (i - n \in 1 .. m /\ n + (i - n) = i)
  BY <1>0, Concatenated
<1> HIDE DEF q
<1>2. \A i \in 1 .. m : \A j \in DOMAIN b[i].ms :
        b[i].ms[j] \in Lasts => i = m /\ j = Len(b[i].ms)
  BY <1>0, <1>1 DEF LastComes
<1>3. ASSUME NEW i \in 1 .. n + m, NEW j \in DOMAIN q[i].ms, q[i].ms[j] \in Lasts
      PROVE  i = n + m /\ j = Len(q[i].ms)
  <2>1. i \notin 1 .. n
    <3>1. SUFFICES ASSUME i \in 1 .. n PROVE FALSE
      OBVIOUS
    <3>2. a[i] \in Elements(a) /\ q[i] = a[i]
      BY <1>1, <3>1 DEF Elements
    <3>3. q[i].ms[j] \in Elements(a[i].ms)
      BY <3>2 DEF Elements
    <3> QED BY <1>3, <3>2, <3>3 DEF Free
  <2>2. i - n \in 1 .. m /\ q[i] = b[i - n] /\ n + (i - n) = i
    <3>1. i - n \in 1 .. m /\ n + (i - n) = i
      BY <1>1, <2>1
    <3>2. q[n + (i - n)] = b[i - n]
      BY <1>1, <3>1
    <3> QED BY <3>1, <3>2
  <2>3. i - n = m /\ j = Len(b[i - n].ms)
    BY <1>2, <1>3, <2>2
  <2> QED BY <1>1, <2>2, <2>3
<1> QED BY <1>1, <1>3 DEF LastComes, q

(* The first record under way is taken off.                                *)
LEMMA WayTail ==
  ASSUME NEW S, NEW a \in Seq(S), NEW w \in Seq(S), a # <<>>
  PROVE  /\ a \o w \in Seq(S) /\ a \o w # <<>> /\ Head(a \o w) = Head(a)
         /\ Tail(a \o w) = Tail(a) \o w /\ Tail(a) \in Seq(S)
<1>1. a \o w \in Seq(S) /\ a \o w # <<>>
  BY ConcatProperties, ConcatEqualIffEmpty
<1>2. Len(a) \in Nat \ {0} /\ Len(w) \in Nat
  BY EmptySeq, LenProperties
<1>3. Head(a \o w) = Head(a)
  BY <1>1, <1>2
<1>4. Tail(a \o w) = Tail(a) \o w
  BY <1>1, <1>2
<1> QED BY <1>1, <1>3, <1>4

LEMMA BothEmpty ==
  ASSUME NEW S, NEW a \in Seq(S), NEW w \in Seq(S), a \o w = <<>>
  PROVE  a = <<>> /\ w = <<>>
BY ConcatEqualIffEmpty

LEMMA LoneRecord ==
  ASSUME NEW r \in RecordsOf, EndsOnly(r.ms)
  PROVE  <<r>> \in Seq(RecordsOf) /\ Elements(<<r>>) = {r} /\ LastComes(<<r>>)
<1>1. <<r>> \in Seq(RecordsOf) /\ Elements(<<r>>) = {r} /\ Len(<<r>>) = 1
  BY OneElement, Zenon
<1>2. DOMAIN <<r>> = {1} /\ <<r>>[1] = r
  OBVIOUS
<1> QED BY <1>1, <1>2 DEF LastComes, EndsOnly

(* A flight, in one record or in one for each message.                     *)
LEMMA FlightRecords ==
  ASSUME NEW type \in {"handshake", "encrypted"}, NEW ms \in Seq(Names), ms # <<>>, EndsOnly(ms)
  PROVE  /\ Records(type, ms) \in Seq(RecordsOf) /\ LastComes(Records(type, ms))
         /\ \A r \in Elements(Records(type, ms)) :
              r.type = type /\ r.ms # <<>> /\ Elements(r.ms) \subseteq Elements(ms)
<1> DEFINE one == Record(type, ms)
           n == Len(ms)
           each == [i \in DOMAIN ms |-> Record(type, <<ms[i]>>)]
<1>1. one \in RecordsOf /\ one.type = type /\ one.ms = ms
  BY DEF Record, RecordsOf
<1>2. ASSUME Records(type, ms) = <<one>>
      PROVE  /\ Records(type, ms) \in Seq(RecordsOf) /\ LastComes(Records(type, ms))
             /\ \A r \in Elements(Records(type, ms)) :
                  r.type = type /\ r.ms # <<>> /\ Elements(r.ms) \subseteq Elements(ms)
  <2> HIDE DEF one
  <2>1. <<one>> \in Seq(RecordsOf) /\ Elements(<<one>>) = {one} /\ LastComes(<<one>>)
    BY <1>1, LoneRecord
  <2> QED BY <1>1, <1>2, <2>1
<1>3. n \in Nat /\ DOMAIN ms = 1 .. n /\ \A i \in 1 .. n : ms[i] \in Names
  BY Indices
<1>4. \A i \in 1 .. n : /\ each[i] \in RecordsOf /\ each[i].type = type
                        /\ each[i].ms = <<ms[i]>>
  BY <1>3 DEF Record, RecordsOf
<1>5. each \in Seq(RecordsOf) /\ DOMAIN each = 1 .. n /\ Len(each) = n
  <2>1. each \in [1 .. n -> RecordsOf]
    <3>1. each = [i \in 1 .. n |-> each[i]]
      BY SMTT(40), <1>3
    <3> HIDE DEF each
    <3> QED BY <1>4, <3>1
  <2> HIDE DEF each, n
  <2> QED BY <1>3, <2>1
<1>6. \A j \in 1 .. n : ms[j] \in Lasts => j = n
  BY <1>3 DEF EndsOnly
<1>7. \A x : DOMAIN <<x>> = {1} /\ Len(<<x>>) = 1 /\ <<x>>[1] = x /\ <<x>> # <<>>
  OBVIOUS
<1> HIDE DEF each, n
<1>8. LastComes(each)
  <2> SUFFICES ASSUME NEW i \in 1 .. n, NEW j \in DOMAIN each[i].ms, each[i].ms[j] \in Lasts
               PROVE  i = n /\ j = Len(each[i].ms)
    BY <1>5 DEF LastComes
  <2>1. j = 1 /\ each[i].ms[1] = ms[i] /\ Len(each[i].ms) = 1
    BY <1>4, <1>7, ZenonT(60)
  <2> QED BY <1>6, <2>1
<1>9. \A r \in Elements(each) : r.type = type /\ r.ms # <<>> /\ Elements(r.ms) \subseteq Elements(ms)
  <2> SUFFICES ASSUME NEW i \in 1 .. n
               PROVE  /\ each[i].type = type /\ each[i].ms # <<>>
                      /\ Elements(each[i].ms) \subseteq Elements(ms)
    BY ZenonT(60), <1>5 DEF Elements
  <2>1. each[i].type = type /\ each[i].ms = <<ms[i]>>
    BY <1>4
  <2>2. ms[i] \in Names /\ Elements(<<ms[i]>>) = {ms[i]}
    BY <1>3, OneElement, Zenon
  <2>3. ms[i] \in Elements(ms)
    BY <1>3 DEF Elements
  <2> QED BY <1>7, <2>1, <2>2, <2>3, Zenon
<1>10. Records(type, ms) = <<one>> \/ Records(type, ms) = each
  BY Zenon DEF Records, each
<1> HIDE DEF one
<1> QED BY <1>2, <1>5, <1>8, <1>9, <1>10

-----------------------------------------------------------------------------
(* Steps that take no record.                                              *)

Around == <<conf, tls, wire, toServer, tickets>>

LEMMA InitHolds == ASSUME Init PROVE IInv
<1>1. /\ tls = Fresh /\ wire = <<>> /\ toServer = "" /\ tickets = {} /\ conf \in Confs
      /\ winner = 0 /\ event = "none" /\ socket = "none"
  BY DEF Init, DialInit
<1>2. /\ tls \in Fields /\ tls.transcript = <<>> /\ tls.buf = <<>> /\ tls.messages = <<>>
      /\ tls.encHsBuf = <<>> /\ tls.tls12 = FALSE
  <2> DEFINE e == <<>>
  <2>1. e \in Seq(Names) /\ e \in Seq(RecordsOf)
    BY NoElement
  <2>2. /\ Fresh.transcript = e /\ Fresh.buf = e /\ Fresh.messages = e /\ Fresh.encHsBuf = e
        /\ Fresh.tls12 = FALSE
    BY DEF Fresh
  <2>3. PICK no \in BOOLEAN : no = FALSE
    OBVIOUS
  <2>4. Fresh = [transcript |-> e, tls12 |-> no, keysReady |-> no, decap |-> no, driver |-> "data",
                 buf |-> e, messages |-> e, encHsBuf |-> e, trusted |-> no, pskAccepted |-> no,
                 earlyDataAccepted |-> no, replayed |-> no]
    BY <2>3, Zenon DEF Fresh
  <2> HIDE DEF e
  <2>5. Fresh \in Fields
    BY <2>1, <2>4 DEF Fields
  <2> QED BY <1>1, <2>2, <2>5 DEF e
<1>3. wire \in Seq(RecordsOf) /\ Elements(<<>>) = {} /\ DOMAIN <<>> = {}
  BY <1>1, NoElement
<1>4. /\ attempts = [i \in DOMAIN attempts |-> attempts[i]]
      /\ \A i \in DOMAIN attempts : i # 0 /\ attempts[i] = "waiting"
      /\ route # "direct" => DOMAIN attempts = {}
  <2>1. CASE route = "direct"
    <3>1. PICK n \in 1 .. MaxAddresses : attempts \in [1 .. n -> {"waiting"}]
      BY <2>1 DEF Init, DialInit
    <3> QED BY <2>1, <3>1
  <2>2. CASE route # "direct"
    <3>1. attempts = <<>>
      BY <2>2 DEF Init, DialInit
    <3>2. DOMAIN attempts = {} /\ attempts = [i \in DOMAIN attempts |-> attempts[i]]
      BY <3>1
    <3> QED BY <3>2
  <2> QED BY <2>1, <2>2
<1>5. <<>> \o <<>> = <<>>
  OBVIOUS
<1>6. Types /\ DialOK
  BY <1>1, <1>2, <1>3, <1>4 DEF Types, DialOK, OneSocketKept
<1>7. Begun /\ RecordsFit /\ Answered /\ Heard(tls.transcript) /\ Done /\ FALSE \notin tickets
  BY <1>1, <1>2, <1>3 DEF Begun, RecordsFit, UnderWay, Answered, Heard, Done
<1>8. TakeTurns
  BY <1>1, <1>2, <1>3, <1>5 DEF TakeTurns, EndsOnly, LastComes, Way
<1>9. MessagesFit
  BY <1>1, <1>2, <1>3 DEF MessagesFit
<1> QED BY <1>6, <1>7, <1>8, <1>9 DEF IInv

LEMMA SameScript == conf' = conf => SrvTranscript' = SrvTranscript
BY Zenon DEF SrvTranscript, Flight12, Flight13

(* Nothing but the dial moves, and no further than to a failure.           *)
LEMMA OnlyDial ==
  ASSUME IInv, UNCHANGED Around, DialOK',
         socket' \in {"none", "open", "closed"},
         event' = event \/ (event = "none" /\ event' = "error" /\ tls.transcript = <<>>)
  PROVE  IInv'
<1>1. conf' = conf /\ tls' = tls /\ wire' = wire /\ toServer' = toServer /\ tickets' = tickets
  BY DEF Around
<1>2. CASE event' = event
  <2>1. Types' /\ Begun'
    BY <1>1, <1>2 DEF IInv, Types, Begun
  <2>2. TakeTurns'
    BY <1>1, <1>2, Zenon DEF IInv, TakeTurns, Way
  <2>3. RecordsFit'
    BY <1>1, <1>2, Zenon DEF IInv, RecordsFit, UnderWay, RecordFits, Refuses
  <2>4. MessagesFit' /\ Answered' /\ Heard(tls.transcript)' /\ FALSE \notin tickets'
    BY <1>1, <1>2, Zenon DEF IInv, MessagesFit, Answered, Heard, Refuses
  <2>5. Done'
    BY <1>1, <1>2, SameScript, Zenon DEF IInv, Done
  <2> QED BY <1>1, <2>1, <2>2, <2>3, <2>4, <2>5 DEF IInv
<1>3. CASE event = "none" /\ event' = "error" /\ tls.transcript = <<>>
  <2>1. tls.buf = <<>> /\ wire = <<>> /\ tls.messages = <<>> /\ toServer = ""
    BY <1>3 DEF IInv, Begun
  <2>2. Elements(<<>>) = {}
    BY DEF Elements
  <2>3. Types' /\ Begun' /\ TakeTurns'
    BY <1>1, <1>3 DEF IInv, Types, Begun, TakeTurns
  <2>4. RecordsFit' /\ MessagesFit'
    BY <1>1, <1>3, <2>1, <2>2 DEF IInv, RecordsFit, UnderWay, MessagesFit, Refuses
  <2>5. Answered' /\ Heard(tls.transcript)' /\ Done' /\ FALSE \notin tickets'
    BY <1>1, <1>3, <2>1 DEF IInv, Answered, Heard, Done
  <2> QED BY <2>3, <2>4, <2>5 DEF IInv
<1> QED BY <1>2, <1>3

LEMMA DialKeeps ==
  ASSUME IInv, Dialled
  PROVE  IInv'
<1>1. DialOK /\ UNCHANGED Around /\ DialNext /\ tls' = tls
  BY DEF IInv, Dialled, Beside, Around
<1>2. socket \in {"none", "open", "closed"} /\ event \in {"none", "error", "ready"}
  BY DEF IInv, Types
<1>3. event = "ready" => socket # "none"
  BY DEF IInv, Begun, DialOK
<1>4. ASSUME NEW i \in DOMAIN attempts, StartAttempt(i)
      PROVE  IInv'
  <2>1. attempts[i] = "waiting" /\ UNCHANGED <<route, winner, event, socket>>
    BY <1>4 DEF StartAttempt
  <2>2. PICK v \in {"trying", "skipped"} : attempts' = [attempts EXCEPT ![i] = v]
    BY <1>4 DEF StartAttempt
  <2>3. DialOK'
    BY <1>1, <2>1, <2>2 DEF DialOK, OneSocketKept
  <2> QED BY <1>1, <1>2, <2>1, <2>3, OnlyDial
<1>5. ASSUME NEW i \in DOMAIN attempts, AttemptConnects(i)
      PROVE  IInv'
  <2>1. attempts[i] = "trying" /\ UNCHANGED <<route, event>>
    BY <1>5 DEF AttemptConnects
  <2>2. CASE winner = 0
    <3>1. winner' = i /\ socket' = "open" /\ attempts' = [attempts EXCEPT ![i] = "open"]
      BY <1>5, <2>2 DEF AttemptConnects
    <3>2. socket = "none" /\ event = "none"
      BY <1>1, <1>2, <1>3, <2>1, <2>2 DEF DialOK
    <3>3. \A j \in DOMAIN attempts : attempts[j] # "open"
      BY <1>1, <2>2 DEF DialOK, OneSocketKept
    <3>4. DialOK'
      BY <1>1, <2>1, <3>1, <3>2, <3>3 DEF DialOK, OneSocketKept
    <3> QED BY <1>1, <1>2, <2>1, <3>1, <3>4, OnlyDial
  <2>3. CASE winner # 0
    <3>1. attempts' = [attempts EXCEPT ![i] = "destroyed"] /\ UNCHANGED <<winner, socket>>
      BY <1>5, <2>3 DEF AttemptConnects, Loser
    <3>2. DialOK'
      BY <1>1, <2>1, <3>1 DEF DialOK, OneSocketKept
    <3> QED BY <1>1, <1>2, <2>1, <3>1, <3>2, OnlyDial
  <2> QED BY <2>2, <2>3
<1>6. ASSUME NEW i \in DOMAIN attempts, AttemptFails(i)
      PROVE  IInv'
  <2>1. /\ attempts[i] = "trying" /\ attempts' = [attempts EXCEPT ![i] = "failed"]
        /\ UNCHANGED <<route, winner, socket>>
    BY <1>6 DEF AttemptFails
  <2>2. CASE winner = 0 /\ \A j \in DOMAIN attempts : attempts'[j] = "failed"
    <3>1. event' = IF event = "none" THEN "error" ELSE event
      BY <1>6, <2>2 DEF AttemptFails, Emitted
    <3>2. socket = "none" /\ event = "none" /\ tls.transcript = <<>>
      BY <1>1, <1>2, <1>3, <2>1, <2>2 DEF DialOK
    <3>3. DialOK'
      BY <1>1, <2>1, <2>2, <3>1, <3>2 DEF DialOK, OneSocketKept
    <3> QED BY <1>1, <1>2, <2>1, <3>1, <3>2, <3>3, OnlyDial
  <2>3. CASE ~(winner = 0 /\ \A j \in DOMAIN attempts : attempts'[j] = "failed")
    <3>1. event' = event
      BY <1>6, <2>3 DEF AttemptFails
    <3>2. DialOK'
      BY <1>1, <2>1, <3>1 DEF DialOK, OneSocketKept
    <3> QED BY <1>1, <1>2, <2>1, <3>1, <3>2, OnlyDial
  <2> QED BY <2>2, <2>3
<1>7. ASSUME SocksConnects \/ SocksAnswers \/ SocksFails \/ ConnectTunnels \/ ConnectRefused \/ ProxyCloses
      PROVE  IInv'
  <2>1. /\ route # "direct" /\ socket = "none" /\ event = "none"
        /\ UNCHANGED <<route, attempts, winner>>
        /\ \/ UNCHANGED <<event, socket>>
           \/ event' = event /\ socket' \in {"open", "closed"}
           \/ event' = "error" /\ socket' = "closed"
    BY <1>7 DEF SocksConnects, SocksAnswers, SocksFails, ConnectTunnels, ConnectRefused, ProxyCloses,
         Dialling, Asks, Refused, Tunnelled, Unreported, ProxyUnchanged, Emitted
  <2>2. DOMAIN attempts = {} /\ tls.transcript = <<>>
    BY <1>1, <2>1 DEF DialOK
  <2>3. DialOK'
    BY <1>1, <2>1, <2>2 DEF DialOK, OneSocketKept
  <2> QED BY <1>1, <1>2, <2>1, <2>2, <2>3, OnlyDial
<1> QED BY <1>1, <1>4, <1>5, <1>6, <1>7 DEF DialNext, DialTimers

LEMMA LeavingKeeps ==
  ASSUME IInv, PeerLeaves
  PROVE  IInv'
<1>1. /\ UNCHANGED Around /\ UNCHANGED <<route, attempts, winner, event>>
      /\ socket = "open" /\ socket' = "closed" /\ event = "none"
  BY DEF PeerLeaves, Around
<1>2. DialOK'
  BY <1>1 DEF IInv, DialOK, OneSocketKept, Around
<1> QED BY <1>1, <1>2, OnlyDial

-----------------------------------------------------------------------------
(* Steps of the server.                                                    *)

Fitting(q) == \A r \in Elements(q) : RecordFits(r, event)

LEMMA SendingKeeps ==
  ASSUME IInv, toServer # "", NEW q \in Seq(RecordsOf), LastComes(q), Fitting(q), SrvSends(q, "")
  PROVE  IInv'
<1>1. /\ wire' = wire \o q /\ toServer' = "" /\ conf' = conf /\ tls' = tls /\ tickets' = tickets
      /\ UNCHANGED <<route, attempts, winner, event, socket>>
  BY DEF SrvSends, dialVars
<1>2. /\ wire \in Seq(RecordsOf) /\ tls \in Fields /\ tls.transcript # <<>> /\ DialOK
  BY DEF IInv, Types, Begun
<1>3. wire' \in Seq(RecordsOf) /\ Elements(wire') = Elements(wire) \cup Elements(q)
  <2>1. wire \o q \in Seq(RecordsOf) /\ Elements(wire \o q) = Elements(wire) \cup Elements(q)
    <3> DEFINE w == wire
    <3>1. w \in Seq(RecordsOf)
      BY <1>2
    <3> HIDE DEF w
    <3>2. w \o q \in Seq(RecordsOf) /\ Elements(w \o q) = Elements(w) \cup Elements(q)
      BY ZenonT(60), <3>1, ElementsConcat
    <3> QED BY <3>2, Zenon DEF w
  <2> QED BY <1>1, <2>1, Zenon
<1>4. Types' /\ Begun'
  BY <1>1, <1>2, <1>3 DEF IInv, Types, Begun
<1>5. DialOK'
  BY <1>1, <1>2 DEF DialOK, OneSocketKept
<1>6. TakeTurns'
  <2> SUFFICES ASSUME event' # "error" PROVE TakeTurns'
    BY DEF TakeTurns
  <2>1. tls.buf = <<>> /\ wire = <<>> /\ tls.messages = <<>> /\ tls.encHsBuf = <<>>
    BY <1>1 DEF IInv, TakeTurns
  <2>2. <<>> \o q = q
    BY ConcatEmptySeq
  <2>3. wire' = q /\ Way' = q
    BY <1>1, <2>1, <2>2, Zenon DEF Way
  <2>4. LastComes(Way)'
    BY <2>3, Zenon DEF LastComes
  <2>5. EndsOnly(tls.messages)' /\ Elements(<<>>) = {}
    BY <1>1, <2>1, NoElement DEF EndsOnly
  <2> QED BY <1>1, <2>1, <2>4, <2>5 DEF TakeTurns
<1>7. RecordsFit'
  <2>1. \A r \in UnderWay' : RecordFits(r, event)
    BY <1>1, <1>3 DEF IInv, RecordsFit, UnderWay, Fitting
  <2> QED BY <1>1, <2>1, Zenon DEF RecordsFit, RecordFits, Refuses
<1>8. MessagesFit' /\ Answered' /\ Heard(tls.transcript)' /\ FALSE \notin tickets'
  BY <1>1, Zenon DEF IInv, MessagesFit, Answered, Heard, Refuses
<1>9. Done'
  BY <1>1, SameScript, Zenon DEF IInv, Done
<1> QED BY <1>4, <1>5, <1>6, <1>7, <1>8, <1>9 DEF IInv

LEMMA RecordIs ==
  ASSUME NEW type \in {"ccs", "alert", "handshake", "encrypted"}, NEW ms \in Seq(Names)
  PROVE  /\ Record(type, ms) \in RecordsOf
         /\ Record(type, ms).type = type /\ Record(type, ms).ms = ms
BY DEF Record, RecordsOf

(* A record that no message of is a last one.                              *)
LEMMA Unheard ==
  ASSUME NEW r \in RecordsOf, r.ms = <<>>
  PROVE  Free(r.ms) /\ EndsOnly(r.ms) /\ Elements(r.ms) = {}
BY DEF Free, EndsOnly, Elements

LEMMA Lone ==
  ASSUME NEW m \in Names
  PROVE  /\ <<m>> \in Seq(Names) /\ <<m>> # <<>> /\ EndsOnly(<<m>>) /\ Elements(<<m>>) = {m}
         /\ m \notin Lasts => Free(<<m>>)
<1>1. <<m>> \in Seq(Names) /\ Elements(<<m>>) = {m}
  BY OneElement, Zenon
<1>2. <<m>> # <<>> /\ DOMAIN <<m>> = {1} /\ Len(<<m>>) = 1
  OBVIOUS
<1>3. Free(<<m>>) \/ m \in Lasts
  BY <1>1 DEF Free
<1> QED BY <1>1, <1>2, <1>3 DEF EndsOnly

LEMMA AlertFits ==
  ASSUME IInv
  PROVE  LET q == <<Record("alert", <<>>)>>
         IN  q \in Seq(RecordsOf) /\ LastComes(q) /\ Fitting(q)
<1> DEFINE r == Record("alert", <<>>)
<1>1. <<>> \in Seq(Names)
  BY NoElement
<1>2. r \in RecordsOf /\ r.type = "alert" /\ r.ms = <<>>
  BY <1>1, RecordIs
<1> HIDE DEF r
<1>3. <<r>> \in Seq(RecordsOf) /\ Elements(<<r>>) = {r} /\ LastComes(<<r>>)
  BY <1>2, Unheard, LoneRecord
<1>4. RecordFits(r, event)
  BY <1>2, Unheard DEF RecordFits, Late
<1> QED BY <1>3, <1>4 DEF Fitting, r

LEMMA AlertKeeps ==
  ASSUME IInv, SrvAlert
  PROVE  IInv'
<1>1. toServer # "" /\ SrvSends(<<Record("alert", <<>>)>>, "")
  BY DEF SrvAlert
<1> QED BY <1>1, AlertFits, SendingKeeps

LEMMA RetryKeeps ==
  ASSUME IInv, SrvRetries
  PROVE  IInv'
<1> DEFINE r == Record("handshake", <<"HRR">>)
<1>1. toServer = "CH1" /\ conf.group = "hrr" /\ SrvSends(<<r>>, "")
  BY DEF SrvRetries
<1>2. "HRR" \in Names
  BY DEF Names
<1>3. r \in RecordsOf /\ r.type = "handshake" /\ r.ms = <<"HRR">>
  BY <1>2, RecordIs, Lone
<1> HIDE DEF r
<1>4. <<r>> \in Seq(RecordsOf) /\ Elements(<<r>>) = {r} /\ LastComes(<<r>>)
  BY <1>2, <1>3, Lone, LoneRecord
<1>5. event # "ready" /\ ~Refuses
  BY <1>1 DEF IInv, Done, Types, Confs, Refuses
<1>6. RecordFits(r, event)
  BY <1>2, <1>3, <1>5, Lone DEF RecordFits
<1>7. Fitting(<<r>>)
  BY <1>4, <1>6 DEF Fitting
<1> QED BY <1>1, <1>4, <1>7, SendingKeeps

(* Records before a flight that hold no last message.                      *)
LEMMA Preceded ==
  ASSUME NEW a \in Seq(RecordsOf), NEW b \in Seq(RecordsOf), LastComes(b), Fitting(a), Fitting(b),
         \A r \in Elements(a) : Free(r.ms)
  PROVE  a \o b \in Seq(RecordsOf) /\ LastComes(a \o b) /\ Fitting(a \o b)
<1>1. a \o b \in Seq(RecordsOf) /\ Elements(a \o b) = Elements(a) \cup Elements(b)
  BY ElementsConcat
<1>2. LastComes(a \o b)
  BY LastsConcat
<1>3. Fitting(a \o b)
  BY <1>1, Zenon DEF Fitting
<1> QED BY <1>1, <1>2, <1>3

LEMMA TwoRecords ==
  ASSUME NEW x \in RecordsOf, NEW y \in RecordsOf
  PROVE  <<x, y>> \in Seq(RecordsOf) /\ Elements(<<x, y>>) = {x, y}
BY DEF Elements

Extends(f, e, n, y) ==
  Len(f) = n + 1 /\ f[n + 1] = y /\ \A i \in 1 .. n : f[i] = e[i]

LEMMA AppendExtends ==
  ASSUME NEW S, NEW e \in Seq(S), NEW y \in S
  PROVE  Append(e, y) \in Seq(S) /\ Extends(Append(e, y), e, Len(e), y)
BY AppendProperties DEF Extends

LEMMA OneAppended ==
  ASSUME NEW S, NEW x \in S, NEW y \in S
  PROVE  Append(<<x>>, y) = <<x, y>>
<1> DEFINE p == <<x, y>>
           e == <<x>>
           q == Append(e, y)
<1>1. p \in Seq(S) /\ Len(p) = 2 /\ p[1] = x /\ p[2] = y
  OBVIOUS
<1>2. e \in Seq(S) /\ Len(e) = 1 /\ e[1] = x
  OBVIOUS
<1> HIDE DEF e, p
<1>3. q \in Seq(S) /\ Len(q) = 2 /\ q[1] = x /\ q[2] = y
  <2>1. q \in Seq(S) /\ Extends(q, e, Len(e), y)
    BY <1>2, AppendExtends
  <2> HIDE DEF q
  <2> QED BY <1>2, <2>1 DEF Extends
<1> HIDE DEF q
<1>4. Len(p) = Len(q) /\ \A i \in 1 .. Len(p) : p[i] = q[i]
  BY <1>1, <1>3
<1>5. p = q
  BY <1>1, <1>3, <1>4, SeqEqual
<1> QED BY <1>5 DEF p, q, e

LEMMA TwoAppended ==
  ASSUME NEW S, NEW x \in S, NEW y \in S, NEW z \in S
  PROVE  Append(<<x, y>>, z) = <<x, y, z>>
<1> DEFINE p == <<x, y, z>>
           e == <<x, y>>
           q == Append(e, z)
<1>1. p \in Seq(S) /\ Len(p) = 3 /\ p[1] = x /\ p[2] = y /\ p[3] = z
  OBVIOUS
<1>2. e \in Seq(S) /\ Len(e) = 2 /\ e[1] = x /\ e[2] = y
  OBVIOUS
<1> HIDE DEF e, p
<1>3. q \in Seq(S) /\ Len(q) = 3 /\ q[1] = x /\ q[2] = y /\ q[3] = z
  <2>1. q \in Seq(S) /\ Extends(q, e, Len(e), z)
    BY <1>2, AppendExtends
  <2> HIDE DEF q
  <2> QED BY <1>2, <2>1 DEF Extends
<1> HIDE DEF q
<1>4. Len(p) = Len(q) /\ \A i \in 1 .. Len(p) : p[i] = q[i]
  BY <1>1, <1>3
<1>5. p = q
  BY <1>1, <1>3, <1>4, SeqEqual
<1> QED BY <1>5 DEF p, q, e

LEMMA TwoConcat ==
  ASSUME NEW S, NEW x \in S, NEW y \in S
  PROVE  <<x, y>> = <<x>> \o <<y>>
<1>1. Append(<<x>>, y) = <<x, y>> /\ <<x>> \in Seq(S)
  BY OneAppended, OneElement, Zenon
<1>2. Append(<<x>>, y) = <<x>> \o <<y>>
  BY <1>1, AppendIsConcat, Zenon
<1> QED BY <1>1, <1>2, Zenon

LEMMA FlightOf13 ==
  ASSUME conf \in Confs
  PROVE  /\ Flight13 \in Seq(Names) /\ Flight13 # <<>> /\ EndsOnly(Flight13)
         /\ "NST" \notin Elements(Flight13)
<1> DEFINE a == <<"EE">> \o Chain
<1>1. {"EE", "SFIN"} \subseteq Names
  BY DEF Names
<1>2. <<"EE">> \in Seq(Names) /\ Elements(<<"EE">>) = {"EE"}
  BY <1>1, PartsOf13
<1>3. a \in Seq(Names) /\ Elements(a) = {"EE"} \cup Elements(Chain)
  BY <1>2, PartsOf13, NamesConcat, Zenon
<1>4. Flight13 = a \o <<"SFIN">>
  BY Zenon DEF Flight13, Chain
<1> HIDE DEF a
<1>5. Free(a) /\ "NST" \notin Elements(a)
  BY <1>3, PartsOf13 DEF Free, Lasts
<1>6. <<"SFIN">> \in Seq(Names) /\ Elements(<<"SFIN">>) = {"SFIN"}
  BY <1>1, PartsOf13
<1>7. Flight13 \in Seq(Names) /\ Elements(Flight13) = Elements(a) \cup {"SFIN"}
  BY <1>3, <1>4, <1>6, NamesConcat, ZenonT(60)
<1>8. EndsOnly(Flight13)
  BY <1>1, <1>3, <1>4, <1>5, EndsAppended
<1>9. Flight13 # <<>>
  BY <1>7, NoElement
<1> QED BY <1>5, <1>7, <1>8, <1>9

LEMMA FlightOf12 ==
  LET ms == <<"SH">> \o Flight12
  IN  ms \in Seq(Names) /\ ms # <<>> /\ EndsOnly(ms) /\ "NST" \notin Elements(ms)
<1> DEFINE a == <<"SH">>
           b == <<"CERT", "SKE">>
           c == <<"SHD">>
           ms == (a \o b) \o c
<1>1. /\ a \in Seq(Names) /\ b \in Seq(Names) /\ c \in Seq(Names) /\ "SHD" \in Names
      /\ Elements(a) = {"SH"} /\ Elements(b) = {"CERT", "SKE"} /\ Elements(c) = {"SHD"}
  BY DEF Names, Elements
<1>2. Flight12 = b \o c
  <2>1. Append(b, "SHD") = <<"CERT", "SKE", "SHD">>
    <3>1. {"CERT", "SKE", "SHD"} \subseteq Names
      BY DEF Names
    <3> QED BY <3>1, TwoAppended, Zenon
  <2>2. Append(b, "SHD") = b \o c
    BY <1>1, AppendIsConcat, Zenon
  <2> QED BY <2>1, <2>2, Zenon DEF Flight12
<1>3. <<"SH">> \o Flight12 = ms
  <2> HIDE DEF a, b, c
  <2>1. Associates(a, b, c)
    BY <1>1, Associate
  <2> QED BY <1>2, <2>1, Zenon DEF Associates, a
<1>4. a \o b \in Seq(Names) /\ Elements(a \o b) = {"SH"} \cup {"CERT", "SKE"}
  <2> HIDE DEF a, b, c
  <2> QED BY <1>1, ElementsConcat
<1>5. ms \in Seq(Names) /\ Elements(ms) = ({"SH"} \cup {"CERT", "SKE"}) \cup {"SHD"}
  <2> DEFINE d == a \o b
  <2>1. d \in Seq(Names) /\ Elements(d) = {"SH"} \cup {"CERT", "SKE"}
    BY <1>4
  <2> HIDE DEF c, d
  <2>2. d \o c \in Seq(Names) /\ Elements(d \o c) = Elements(d) \cup Elements(c)
    BY <1>1, <2>1, ElementsConcat
  <2> QED BY <1>1, <2>1, <2>2, Zenon DEF d
<1>6. EndsOnly(ms)
  <2> DEFINE d == a \o b
  <2>1. Free(d)
    BY <1>4 DEF Free, Lasts
  <2>2. d \in Seq(Names)
    BY <1>4
  <2> HIDE DEF d
  <2>3. EndsOnly(d \o <<"SHD">>)
    BY <1>1, <2>1, <2>2, EndsAppended
  <2> QED BY <2>3, Zenon DEF c, d
<1>7. "NST" \notin Elements(ms) /\ "SH" \in Elements(ms)
  BY <1>5
<1> HIDE DEF ms
<1>8. ms # <<>>
  BY <1>7, NoElement
<1> QED BY <1>3, <1>5, <1>6, <1>7, <1>8, Zenon

LEMMA Hello13Keeps ==
  ASSUME IInv, SrvHello13
  PROVE  IInv'
<1> DEFINE x == Record("handshake", <<"SH">>)
           y == Record("ccs", <<>>)
           a == <<x, y>>
           b == Records("encrypted", Flight13)
<1>1. toServer \in {"CH1", "CH2"} /\ conf.version = 13 /\ SrvSends(a \o b, "") /\ conf \in Confs
  BY DEF SrvHello13, IInv, Types
<1>2. event # "ready" /\ ~Refuses
  <2>1. event # "ready"
    BY <1>1 DEF IInv, Done
  <2>2. 13 # 12
    OBVIOUS
  <2> QED BY <1>1, <2>1, <2>2, Zenon DEF Refuses
<1>3. "SH" \in Names /\ "SH" \notin Lasts /\ "SH" # "NST"
  BY DEF Names, Lasts
<1>4. x \in RecordsOf /\ x.type = "handshake" /\ x.ms = <<"SH">>
  BY <1>3, RecordIs, Lone
<1>5. y \in RecordsOf /\ y.type = "ccs" /\ y.ms = <<>>
  BY NoElement, RecordIs
<1>6. /\ b \in Seq(RecordsOf) /\ LastComes(b)
      /\ \A r \in Elements(b) : /\ r.type = "encrypted" /\ r.ms # <<>>
                                /\ Elements(r.ms) \subseteq Elements(Flight13)
  BY <1>1, FlightOf13, FlightRecords
<1> HIDE DEF x, y, b
<1>7. a \in Seq(RecordsOf) /\ Elements(a) = {x, y}
  BY <1>4, <1>5, TwoRecords
<1> HIDE DEF a
<1>8. RecordFits(x, event) /\ Free(x.ms)
  BY <1>2, <1>3, <1>4, Lone DEF RecordFits
<1>9. RecordFits(y, event) /\ Free(y.ms)
  BY <1>2, <1>5, Unheard DEF RecordFits
<1>10. Fitting(b)
  <2> SUFFICES ASSUME NEW r \in Elements(b) PROVE RecordFits(r, event)
    BY DEF Fitting
  <2>1. r.type = "encrypted" /\ "NST" \notin Elements(r.ms)
    BY <1>1, <1>6, FlightOf13
  <2> QED BY <1>1, <1>2, <2>1 DEF RecordFits
<1>11. Fitting(a) /\ \A r \in Elements(a) : Free(r.ms)
  BY <1>7, <1>8, <1>9 DEF Fitting
<1> DEFINE q == a \o b
<1>12. q \in Seq(RecordsOf) /\ LastComes(q) /\ Fitting(q) /\ SrvSends(q, "")
  BY <1>1, <1>6, <1>7, <1>10, <1>11, Preceded
<1> HIDE DEF q
<1> QED BY <1>1, <1>12, SendingKeeps

LEMMA Hello12Keeps ==
  ASSUME IInv, SrvHello12
  PROVE  IInv'
<1> DEFINE ms == <<"SH">> \o Flight12
           b == Records("handshake", ms)
<1>1. toServer = "CH1" /\ conf.version = 12 /\ ~conf.early /\ SrvSends(b, "")
  BY DEF SrvHello12
<1>2. event # "ready" /\ ~Refuses
  <2>1. event # "ready"
    BY <1>1 DEF IInv, Done
  <2> QED BY <1>1, <2>1, Zenon DEF Refuses
<1>3. ms \in Seq(Names) /\ ms # <<>> /\ EndsOnly(ms) /\ "NST" \notin Elements(ms)
  BY FlightOf12
<1> HIDE DEF ms
<1>4. /\ b \in Seq(RecordsOf) /\ LastComes(b)
      /\ \A r \in Elements(b) : /\ r.type = "handshake" /\ r.ms # <<>>
                                /\ Elements(r.ms) \subseteq Elements(ms)
  BY <1>3, FlightRecords
<1> HIDE DEF b
<1>5. Fitting(b)
  <2> SUFFICES ASSUME NEW r \in Elements(b) PROVE RecordFits(r, event)
    BY DEF Fitting
  <2>1. r.type = "handshake" /\ r.ms # <<>> /\ "NST" \notin Elements(r.ms)
    BY <1>3, <1>4
  <2> QED BY <1>2, <2>1 DEF RecordFits
<1> QED BY <1>1, <1>4, <1>5, SendingKeeps

LEMMA FinishKeeps ==
  ASSUME IInv, SrvFinishes
  PROVE  IInv'
<1>1. /\ toServer = "flight" /\ ~Refuses
      /\ ~tls.tls12 => event = "ready" /\ conf.version = 13
      /\ event = "ready" => ~tls.tls12
  BY DEF SrvFinishes, IInv, Answered, Done
<1>2. {"SFIN", "NST"} \subseteq Names /\ "NST" \notin Lasts
  BY DEF Names, Lasts
<1>3. \/ SrvSends(<<Record("alert", <<>>)>>, "")
      \/ tls.tls12 /\ SrvSends(<<Record("ccs", <<>>), Record("handshake", <<"SFIN">>)>>, "")
      \/ ~tls.tls12 /\ SrvSends(<<Record("encrypted", <<"NST">>)>>, "")
  BY Zenon DEF SrvFinishes
<1>4. CASE SrvSends(<<Record("alert", <<>>)>>, "")
  BY <1>1, <1>4, AlertFits, SendingKeeps
<1>5. CASE tls.tls12 /\ SrvSends(<<Record("ccs", <<>>), Record("handshake", <<"SFIN">>)>>, "")
  <2> DEFINE x == Record("ccs", <<>>)
             y == Record("handshake", <<"SFIN">>)
             a == <<x>>
             b == <<y>>
  <2>1. x \in RecordsOf /\ x.type = "ccs" /\ x.ms = <<>>
    BY NoElement, RecordIs
  <2>2. y \in RecordsOf /\ y.type = "handshake" /\ y.ms = <<"SFIN">>
    BY <1>2, RecordIs, Lone
  <2>3. SrvSends(<<x, y>>, "")
    BY <1>5
  <2> HIDE DEF x, y
  <2>4. a \in Seq(RecordsOf) /\ Elements(a) = {x}
    BY <2>1, OneElement, Zenon
  <2>5. b \in Seq(RecordsOf) /\ Elements(b) = {y} /\ LastComes(b)
    BY <1>2, <2>2, Lone, LoneRecord
  <2>6. <<x, y>> = a \o b
    BY <2>1, <2>2, TwoConcat, Zenon
  <2> HIDE DEF a, b
  <2>7. event # "ready"
    BY <1>1, <1>5
  <2>8. RecordFits(x, event) /\ Free(x.ms)
    BY <1>1, <2>1, <2>7, Unheard DEF RecordFits
  <2>9. RecordFits(y, event)
    BY <1>1, <1>2, <2>2, <2>7, Lone DEF RecordFits
  <2>10. Fitting(a) /\ Fitting(b) /\ \A r \in Elements(a) : Free(r.ms)
    BY <2>4, <2>5, <2>8, <2>9 DEF Fitting
  <2> DEFINE q == a \o b
  <2>11. q \in Seq(RecordsOf) /\ LastComes(q) /\ Fitting(q) /\ SrvSends(q, "")
    BY <2>3, <2>4, <2>5, <2>6, <2>10, Preceded
  <2> HIDE DEF q
  <2> QED BY <1>1, <2>11, SendingKeeps
<1>6. CASE ~tls.tls12 /\ SrvSends(<<Record("encrypted", <<"NST">>)>>, "")
  <2> DEFINE r == Record("encrypted", <<"NST">>)
  <2>1. r \in RecordsOf /\ r.type = "encrypted" /\ r.ms = <<"NST">>
    BY <1>2, RecordIs, Lone
  <2>2. SrvSends(<<r>>, "")
    BY <1>6
  <2> HIDE DEF r
  <2>3. <<r>> \in Seq(RecordsOf) /\ Elements(<<r>>) = {r} /\ LastComes(<<r>>)
    BY <1>2, <2>1, Lone, LoneRecord
  <2>4. RecordFits(r, event)
    <3>1. Elements(r.ms) = {"NST"} /\ event = "ready" /\ conf.version = 13
      BY <1>1, <1>2, <1>6, <2>1, Lone
    <3> QED BY <1>1, <2>1, <3>1 DEF RecordFits, Late
  <2>5. Fitting(<<r>>)
    BY <2>3, <2>4 DEF Fitting
  <2> QED BY <1>1, <2>2, <2>3, <2>5, SendingKeeps
<1> QED BY <1>3, <1>4, <1>5, <1>6

-----------------------------------------------------------------------------
(* Steps of the client that take no message.                               *)

LEMMA FieldsAre ==
  ASSUME NEW q \in Fields
  PROVE  /\ q.transcript \in Seq(Names) /\ q.buf \in Seq(RecordsOf) /\ q.messages \in Seq(Names)
         /\ q.encHsBuf \in Seq(Names) /\ q.tls12 \in BOOLEAN /\ q.trusted \in BOOLEAN
         /\ q.pskAccepted \in BOOLEAN /\ q.earlyDataAccepted \in BOOLEAN /\ q.replayed \in BOOLEAN
         /\ q.decap \in BOOLEAN /\ q.keysReady \in BOOLEAN
BY DEF Fields

LEMMA ConfIs ==
  ASSUME NEW c \in Confs
  PROVE  /\ c.verifyTLS \in BOOLEAN /\ c.early \in BOOLEAN /\ c.takesPsk \in BOOLEAN
         /\ c.takesEarly \in BOOLEAN /\ c.chainOk \in BOOLEAN
BY DEF Confs

LEMMA MessagesSame ==
  ASSUME MessagesFit, conf' = conf, event' = event, tls'.messages = tls.messages,
         tls'.encHsBuf = tls.encHsBuf, tls'.tls12 = tls.tls12
  PROVE  MessagesFit'
<1>1. Refuses' = Refuses
  BY Zenon DEF Refuses
<1>2. Elements(tls.messages)' = Elements(tls.messages) /\ Elements(tls.encHsBuf)' = Elements(tls.encHsBuf)
  BY Zenon DEF Elements
<1>3. \A m \in Elements(tls.messages)' : m = "NST" <=> event' = "ready"
  <2> SUFFICES ASSUME NEW m \in Elements(tls.messages) PROVE m = "NST" <=> event = "ready"
    BY <1>2
  <2> QED BY DEF MessagesFit
<1>4. "NST" \in Elements(tls.encHsBuf)' => event' = "ready"
  BY <1>2, Zenon DEF MessagesFit
<1> QED BY <1>1, <1>3, <1>4, Zenon DEF MessagesFit

LEMMA HelloKeeps ==
  ASSUME IInv, ClientHello
  PROVE  IInv'
<1> DEFINE tr == <<"CH1">>
           p == [tls EXCEPT !.transcript = tr]
<1>1. /\ socket = "open" /\ tls.transcript = <<>> /\ tls' = p /\ toServer' = "CH1"
      /\ conf' = conf /\ wire' = wire /\ tickets' = tickets
      /\ UNCHANGED <<route, attempts, winner, event, socket>>
  BY DEF ClientHello, dialVars
<1>2. tls \in Fields /\ DialOK /\ wire \in Seq(RecordsOf) /\ conf \in Confs
  BY DEF IInv, Types
<1>3. /\ tls.buf = <<>> /\ wire = <<>> /\ tls.messages = <<>> /\ toServer = ""
      /\ event \in {"none", "error"}
  BY <1>1 DEF IInv, Begun, Types
<1>4. tr \in Seq(Names) /\ tr # <<>> /\ Elements(tr) = {"CH1"}
  BY Lone DEF Names
<1> HIDE DEF tr
<1>5. /\ p \in Fields /\ p.transcript = tr /\ p.buf = tls.buf /\ p.messages = tls.messages
      /\ p.encHsBuf = tls.encHsBuf /\ p.tls12 = tls.tls12
  BY <1>2, <1>4 DEF Fields
<1> HIDE DEF p
<1>6. Types' /\ Begun' /\ DialOK'
  BY <1>1, <1>2, <1>3, <1>4, <1>5 DEF IInv, Types, Begun, DialOK, OneSocketKept
<1>7. TakeTurns'
  <2> SUFFICES ASSUME event' # "error" PROVE TakeTurns'
    BY DEF TakeTurns
  <2>1. LastComes(Way) /\ tls.encHsBuf = <<>>
    BY <1>1 DEF IInv, TakeTurns
  <2>2. Way' = Way
    BY <1>1, <1>5, Zenon DEF Way
  <2>3. LastComes(Way)'
    BY <2>1, <2>2, Zenon DEF LastComes
  <2>4. p.messages = <<>> /\ EndsOnly(<<>>) /\ Elements(<<>>) = {}
    BY <1>3, <1>5, NoElement DEF EndsOnly
  <2>5. EndsOnly(tls.messages)'
    BY <1>1, <2>4, Zenon DEF EndsOnly
  <2> QED BY <1>1, <1>3, <1>5, <2>1, <2>3, <2>4, <2>5 DEF TakeTurns
<1>8. RecordsFit' /\ MessagesFit'
  <2>1. RecordsFit'
    BY <1>1, <1>5, Zenon DEF IInv, RecordsFit, UnderWay, RecordFits, Refuses
  <2> QED BY <1>1, <1>5, <2>1, MessagesSame DEF IInv
<1>9. Answered' /\ Done' /\ FALSE \notin tickets'
  BY <1>1, <1>3 DEF IInv, Answered, Done
<1>10. Heard(tls.transcript)'
  BY <1>1, <1>4, <1>5 DEF Heard
<1> QED BY <1>6, <1>7, <1>8, <1>9, <1>10 DEF IInv

(* The fields that the invariant does not look into may change.            *)
LEMMA OtherFields ==
  ASSUME IInv, tls' \in Fields,
         tls'.transcript = tls.transcript, tls'.buf = tls.buf, tls'.messages = tls.messages,
         tls'.encHsBuf = tls.encHsBuf, tls'.tls12 = tls.tls12, tls'.trusted = tls.trusted,
         tls'.pskAccepted = tls.pskAccepted, tls'.replayed = tls.replayed,
         tls'.earlyDataAccepted = tls.earlyDataAccepted,
         UNCHANGED <<dialVars, conf, wire, toServer, tickets>>
  PROVE  IInv'
<1>1. /\ conf' = conf /\ wire' = wire /\ tickets' = tickets /\ toServer' = toServer
      /\ UNCHANGED <<route, attempts, winner, event, socket>>
  BY DEF dialVars
<1>2. Types' /\ Begun' /\ DialOK'
  BY <1>1 DEF IInv, Types, Begun, DialOK, OneSocketKept
<1>3. TakeTurns'
  BY <1>1, Zenon DEF IInv, TakeTurns, Way, EndsOnly, LastComes
<1>4. RecordsFit' /\ MessagesFit' /\ Answered' /\ FALSE \notin tickets'
  <2>1. RecordsFit' /\ Answered' /\ FALSE \notin tickets'
    BY <1>1, Zenon DEF IInv, RecordsFit, UnderWay, RecordFits, Refuses, Answered
  <2> QED BY <1>1, <2>1, MessagesSame DEF IInv
<1>5. Heard(tls.transcript)' /\ Done'
  BY <1>1, SameScript, Zenon DEF IInv, Heard, Done
<1> QED BY <1>2, <1>3, <1>4, <1>5 DEF IInv

LEMMA DecapsulateKeeps ==
  ASSUME IInv, Decapsulate
  PROVE  IInv'
<1>1. PICK no \in BOOLEAN, yes \in BOOLEAN : no = FALSE /\ yes = TRUE
  OBVIOUS
<1> DEFINE p == [tls EXCEPT !.decap = no, !.driver = "decap", !.keysReady = yes]
<1>2. tls' = p /\ tls \in Fields /\ UNCHANGED <<dialVars, conf, wire, toServer, tickets>>
  BY <1>1 DEF Decapsulate, Decapsulated, IInv, Types
<1>3. p \in Fields
  BY <1>2 DEF Fields
<1>4. /\ p.transcript = tls.transcript /\ p.buf = tls.buf /\ p.messages = tls.messages
      /\ p.encHsBuf = tls.encHsBuf /\ p.tls12 = tls.tls12 /\ p.trusted = tls.trusted
      /\ p.pskAccepted = tls.pskAccepted /\ p.replayed = tls.replayed
      /\ p.earlyDataAccepted = tls.earlyDataAccepted
  BY <1>2 DEF Fields
<1> HIDE DEF p
<1> QED BY <1>2, <1>3, <1>4, OtherFields

LEMMA ArrivalKeeps ==
  ASSUME IInv, NEW n \in 1 .. Len(wire), RecordsArrive(n)
  PROVE  IInv'
<1> DEFINE b == tls.buf \o SubSeq(wire, 1, n)
           w == SubSeq(wire, n + 1, Len(wire))
           p == [tls EXCEPT !.buf = b, !.driver = "data"]
<1>1. /\ tls' = p /\ wire' = w /\ conf' = conf /\ tickets' = tickets /\ toServer' = toServer
      /\ UNCHANGED <<route, attempts, winner, event, socket>>
  BY DEF RecordsArrive, dialVars
<1>2. tls \in Fields /\ DialOK /\ wire \in Seq(RecordsOf) /\ tls.buf \in Seq(RecordsOf) /\ wire # <<>>
  <2>1. wire # <<>>
    <3>1. SUFFICES ASSUME wire = <<>> PROVE FALSE
      OBVIOUS
    <3>2. Len(wire) = 0
      BY <3>1
    <3> QED BY <3>2
  <2> QED BY <2>1, FieldsAre DEF IInv, Types
<1>3. b \in Seq(RecordsOf) /\ w \in Seq(RecordsOf) /\ b \o w = Way
  <2>1. PICK a \in Seq(RecordsOf), v \in Seq(RecordsOf) : a = tls.buf /\ v = wire
    BY <1>2
  <2>2. n \in 1 .. Len(v)
    BY <2>1
  <2>3. Moves(a, v, n, RecordsOf)
    BY <2>2, Arrived
  <2> QED BY <2>1, <2>3, Zenon DEF Moves, Way
<1> HIDE DEF b, w
<1>4. /\ p \in Fields /\ p.buf = b
      /\ p.transcript = tls.transcript /\ p.messages = tls.messages
      /\ p.encHsBuf = tls.encHsBuf /\ p.tls12 = tls.tls12 /\ p.trusted = tls.trusted
      /\ p.pskAccepted = tls.pskAccepted /\ p.replayed = tls.replayed
      /\ p.earlyDataAccepted = tls.earlyDataAccepted
  BY <1>2, <1>3 DEF Fields
<1> HIDE DEF p
<1>5. tls.transcript # <<>>
  BY <1>2 DEF IInv, Begun
<1>6. Types' /\ Begun' /\ DialOK'
  BY <1>1, <1>2, <1>3, <1>4, <1>5 DEF IInv, Types, Begun, DialOK, OneSocketKept
<1>7. Way' = Way /\ UnderWay' = UnderWay
  <2>1. Way' = Way
    BY <1>1, <1>3, <1>4, Zenon DEF Way
  <2>2. Elements(b \o w) = Elements(b) \cup Elements(w)
    BY <1>3, ElementsConcat, ZenonT(60)
  <2>3. Elements(tls.buf \o wire) = Elements(tls.buf) \cup Elements(wire)
    <3>1. PICK a \in Seq(RecordsOf), v \in Seq(RecordsOf) : a = tls.buf /\ v = wire
      BY <1>2
    <3>2. Elements(a \o v) = Elements(a) \cup Elements(v)
      BY ElementsConcat
    <3> QED BY <3>1, <3>2, Zenon
  <2>4. UnderWay' = Elements(b) \cup Elements(w)
    BY <1>1, <1>4, Zenon DEF UnderWay
  <2> QED BY <1>3, <2>1, <2>2, <2>3, <2>4, Zenon DEF Way, UnderWay
<1>8. TakeTurns'
  <2> SUFFICES ASSUME event' # "error" PROVE TakeTurns'
    BY DEF TakeTurns
  <2>1. /\ tls.encHsBuf = <<>> /\ toServer = "" /\ EndsOnly(tls.messages) /\ LastComes(Way)
        /\ \A m \in Elements(tls.messages) : m \notin Lasts
    BY <1>1, <1>2 DEF IInv, TakeTurns
  <2>2. LastComes(Way)' /\ EndsOnly(tls.messages)'
    BY <1>1, <1>4, <1>7, <2>1, Zenon DEF LastComes, EndsOnly
  <2> QED BY <1>1, <1>4, <2>1, <2>2 DEF TakeTurns
<1>9. RecordsFit'
  BY <1>1, <1>7, Zenon DEF IInv, RecordsFit, RecordFits, Refuses
<1>10. MessagesFit' /\ Answered' /\ FALSE \notin tickets'
  <2>1. Answered' /\ FALSE \notin tickets'
    BY <1>1, <1>4, Zenon DEF IInv, Refuses, Answered
  <2> QED BY <1>1, <1>4, <2>1, MessagesSame DEF IInv
<1>11. Heard(tls.transcript)' /\ Done'
  BY <1>1, <1>4, SameScript, Zenon DEF IInv, Heard, Done
<1> QED BY <1>6, <1>8, <1>9, <1>10, <1>11 DEF IInv

-----------------------------------------------------------------------------
(* Steps of the client that take a record.                                 *)

First == Head(tls.buf)
Rest == Tail(tls.buf)

LEMMA TakenOff ==
  ASSUME IInv, tls.buf # <<>>
  PROVE  /\ First \in RecordsOf /\ RecordFits(First, event)
         /\ Rest \in Seq(RecordsOf) /\ Elements(Rest) \subseteq Elements(tls.buf)
         /\ tls.transcript # <<>> /\ socket # "none"
         /\ event # "error" =>
              /\ toServer = "" /\ tls.encHsBuf = <<>>
              /\ LastComes(Rest \o wire) /\ EndsOnly(First.ms)
              /\ ~Free(First.ms) => Rest = <<>> /\ wire = <<>>
<1>1. PICK b \in Seq(RecordsOf), w \in Seq(RecordsOf) : b = tls.buf /\ w = wire
  BY FieldsAre DEF IInv, Types
<1>2. b # <<>>
  BY <1>1
<1>3. /\ Head(b) \in RecordsOf /\ Tail(b) \in Seq(RecordsOf)
      /\ Head(b) \in Elements(b) /\ Elements(Tail(b)) \subseteq Elements(b)
  BY <1>2, HeadAndTail
<1>4. First = Head(b) /\ Rest = Tail(b)
  BY <1>1, Zenon DEF First, Rest
<1>5. RecordFits(First, event)
  BY <1>1, <1>3, <1>4 DEF IInv, RecordsFit, UnderWay
<1>6. tls.transcript # <<>> /\ socket # "none"
  BY <1>1, <1>2 DEF IInv, Begun, DialOK
<1>7. ASSUME event # "error"
      PROVE  /\ toServer = "" /\ tls.encHsBuf = <<>>
             /\ LastComes(Rest \o wire) /\ EndsOnly(First.ms)
             /\ ~Free(First.ms) => Rest = <<>> /\ wire = <<>>
  <2> DEFINE q == b \o w
  <2>1. toServer = "" /\ tls.encHsBuf = <<>> /\ LastComes(q)
    BY <1>1, <1>2, <1>7, Zenon DEF IInv, TakeTurns, Way
  <2>2. /\ q \in Seq(RecordsOf) /\ q # <<>> /\ Head(q) = Head(b)
        /\ Tail(q) = Tail(b) \o w
    BY <1>2, WayTail
  <2> HIDE DEF q
  <2>3. LastComes(Tail(q)) /\ EndsOnly(Head(q).ms) /\ (~Free(Head(q).ms) => Tail(q) = <<>>)
    BY <2>1, <2>2, LastsTail
  <2>4. Tail(q) = <<>> => Rest = <<>> /\ wire = <<>>
    <3>1. PICK t \in Seq(RecordsOf) : t = Tail(b)
      BY <1>3
    <3>2. t \o w = <<>> => t = <<>> /\ w = <<>>
      BY BothEmpty
    <3> QED BY <1>1, <1>4, <2>2, <3>1, <3>2, Zenon
  <2>5. Rest \o wire = Tail(q)
    BY <1>1, <1>4, <2>2, Zenon
  <2> QED BY <1>4, <2>1, <2>2, <2>3, <2>4, <2>5, Zenon
<1> QED BY <1>1, <1>3, <1>4, <1>5, <1>6, <1>7, Zenon

(* What is known whatever the record was.                                  *)
RecordTaken ==
  /\ tls' \in Fields /\ tls'.buf = Rest /\ wire' = wire /\ conf' = conf /\ tickets' = tickets
  /\ UNCHANGED <<route, attempts, winner>>
  /\ tls'.transcript # <<>> /\ toServer' \in {"", "CH1", "CH2", "flight"}
  /\ \/ event' = event /\ socket' = socket
     \/ event' = event /\ socket' = "closed"
     \/ event = "none" /\ event' = "error" /\ socket' = "closed"

LEMMA AfterRecord ==
  ASSUME IInv, tls.buf # <<>>, RecordTaken
  PROVE  /\ Types' /\ Begun' /\ DialOK' /\ RecordsFit'
         /\ event' # "error" => LastComes(Way)'
<1>1. /\ First \in RecordsOf /\ Rest \in Seq(RecordsOf) /\ Elements(Rest) \subseteq Elements(tls.buf)
      /\ socket # "none" /\ (event # "error" => LastComes(Rest \o wire))
  BY TakenOff
<1>2. Types' /\ Begun'
  BY <1>1 DEF IInv, RecordTaken, Types, Begun
<1>3. DialOK'
  BY <1>1 DEF IInv, RecordTaken, Types, DialOK, OneSocketKept
<1>4. UnderWay' \subseteq UnderWay
  <2>1. UnderWay' = Elements(Rest) \cup Elements(wire)
    BY Zenon DEF RecordTaken, UnderWay
  <2> QED BY <1>1, <2>1 DEF UnderWay
<1>5. RecordsFit'
  <2> SUFFICES ASSUME NEW r \in UnderWay PROVE RecordFits(r, event)'
    BY <1>4 DEF RecordsFit
  <2>1. RecordFits(r, event)
    BY DEF IInv, RecordsFit
  <2>2. Refuses' = Refuses /\ conf' = conf
    BY Zenon DEF RecordTaken, Refuses
  <2>3. CASE event' = event
    BY <2>1, <2>2, <2>3, Zenon DEF RecordFits
  <2>4. CASE event = "none" /\ event' = "error"
    BY <2>1, <2>2, <2>4 DEF RecordFits
  <2> QED BY <2>3, <2>4 DEF RecordTaken
<1>6. ASSUME event' # "error" PROVE LastComes(Way)'
  <2>1. event # "error"
    BY <1>6 DEF RecordTaken
  <2>2. Way' = Rest \o wire
    BY Zenon DEF RecordTaken, Way
  <2> QED BY <1>1, <2>1, <2>2, Zenon DEF LastComes
<1> QED BY <1>2, <1>3, <1>5, <1>6

(* No message is being parsed, and none is kept, before or after.          *)
LEMMA Unparsed ==
  ASSUME IInv, tls.buf # <<>>, RecordTaken, tls.messages = <<>>,
         tls'.messages = tls.messages, tls'.encHsBuf = tls.encHsBuf,
         tls'.tls12 = tls.tls12 \/ conf.version = 12,
         event' # "error" => toServer' = "" \/ (Rest = <<>> /\ wire = <<>>)
  PROVE  TakeTurns' /\ MessagesFit'
<1>1. event' # "error" => tls.encHsBuf = <<>> /\ LastComes(Way)' /\ event # "error"
  BY TakenOff, AfterRecord DEF RecordTaken
<1>2. Elements(<<>>) = {} /\ EndsOnly(<<>>)
  BY NoElement DEF EndsOnly
<1>3. EndsOnly(tls.messages)' /\ Elements(tls.messages)' = {}
  BY <1>2, Zenon DEF EndsOnly, Elements
<1>4. TakeTurns'
  <2> SUFFICES ASSUME event' # "error" PROVE TakeTurns'
    BY DEF TakeTurns
  <2>1. /\ tls'.encHsBuf = <<>> /\ tls'.messages = <<>> /\ LastComes(Way)'
        /\ toServer' # "" => tls'.buf = <<>> /\ wire' = <<>>
    BY <1>1 DEF RecordTaken
  <2> QED BY <1>3, <2>1, Zenon DEF TakeTurns
<1>5. "NST" \in Elements(tls.encHsBuf)' => event' = "ready"
  <2>1. Elements(tls.encHsBuf)' = Elements(tls.encHsBuf)
    BY Zenon DEF Elements
  <2>2. event' = event \/ event = "none"
    BY DEF RecordTaken
  <2>3. "NST" \in Elements(tls.encHsBuf) => event = "ready"
    BY DEF IInv, MessagesFit
  <2> QED BY <2>1, <2>2, <2>3
<1>6. (Refuses => tls.messages = <<>> /\ tls.encHsBuf = <<>>)'
  BY Zenon DEF IInv, MessagesFit, Refuses, RecordTaken
<1>7. (tls.tls12 => conf.version = 12)'
  BY Zenon DEF IInv, MessagesFit, RecordTaken
<1>8. MessagesFit'
  BY <1>3, <1>5, <1>6, <1>7, Zenon DEF MessagesFit
<1> QED BY <1>4, <1>8

(* ChangeCipherSpec and alert: nothing is learnt.                          *)
LEMMA PlainRecordKeeps ==
  ASSUME IInv, tls.buf # <<>>, tls.messages = <<>>, tls' = [tls EXCEPT !.buf = Rest],
         toServer' = toServer, wire' = wire, conf' = conf, tickets' = tickets,
         UNCHANGED <<route, attempts, winner>>,
         UNCHANGED <<event, socket>> \/ (Emitted("error") /\ socket' = "closed")
  PROVE  IInv'
<1>1. tls \in Fields /\ toServer \in {"", "CH1", "CH2", "flight"} /\ event \in {"none", "error", "ready"}
  BY DEF IInv, Types
<1>2. Rest \in Seq(RecordsOf) /\ tls.transcript # <<>> /\ (event # "error" => toServer = "")
  BY TakenOff
<1> DEFINE p == [tls EXCEPT !.buf = Rest]
<1>3. /\ p \in Fields /\ p.buf = Rest
      /\ p.transcript = tls.transcript /\ p.messages = tls.messages
      /\ p.encHsBuf = tls.encHsBuf /\ p.tls12 = tls.tls12 /\ p.trusted = tls.trusted
      /\ p.pskAccepted = tls.pskAccepted /\ p.replayed = tls.replayed
      /\ p.earlyDataAccepted = tls.earlyDataAccepted
  BY <1>1, <1>2 DEF Fields
<1>4. tls' = p
  OBVIOUS
<1> HIDE DEF p
<1>5. RecordTaken
  BY <1>1, <1>2, <1>3, <1>4 DEF RecordTaken, Emitted
<1>6. event' # "error" => event # "error"
  BY <1>5 DEF RecordTaken
<1>7. TakeTurns' /\ MessagesFit'
  BY <1>2, <1>3, <1>4, <1>5, <1>6, Unparsed
<1>8. Types' /\ Begun' /\ DialOK' /\ RecordsFit'
  BY <1>5, AfterRecord
<1>9. Answered'
  <2>1. SUFFICES ASSUME toServer' = "flight" PROVE Answered'
    BY DEF Answered
  <2>2. toServer = "flight" /\ event = "error"
    BY <1>2, <2>1
  <2> QED BY <2>2 DEF IInv, Answered
<1>10. Heard(tls.transcript)'
  <2>1. event' # "error" => event # "error"
    BY <1>6
  <2> QED BY <1>3, <1>4, <2>1, Zenon DEF IInv, Heard
<1>11. Done'
  <2>1. event' = "ready" => event = "ready"
    BY <1>5 DEF RecordTaken
  <2> QED BY <1>3, <1>4, <2>1, SameScript, Zenon DEF IInv, Done
<1> QED BY <1>7, <1>8, <1>9, <1>10, <1>11 DEF IInv

(* A hello is not for a client that is ready.                              *)
LEMMA HelloComesEarly ==
  ASSUME IInv, tls.buf # <<>>, First.type = "handshake"
  PROVE  event # "ready" /\ First.ms # <<>> /\ ~Refuses /\ (event = "error" => toServer # "flight")
<1>1. RecordFits(First, event)
  BY TakenOff
<1>2. event # "ready"
  BY <1>1 DEF RecordFits, Late
<1> QED BY <1>1, <1>2 DEF RecordFits, IInv, Answered

LEMMA HelloRetryKeeps ==
  ASSUME IInv, tls.buf # <<>>, tls.messages = <<>>, First.type = "handshake", First.ms[1] = "HRR",
         HelloRetry([tls EXCEPT !.buf = Rest]), wire' = wire, conf' = conf, tickets' = tickets,
         UNCHANGED <<route, attempts, winner>>
  PROVE  IInv'
<1> DEFINE tr == <<"H(CH1)", "HRR", "CH2">>
           p == [tls EXCEPT !.buf = Rest, !.transcript = tr]
<1>1. tls \in Fields
  BY DEF IInv, Types
<1>2. Rest \in Seq(RecordsOf) /\ First \in RecordsOf
  BY TakenOff
<1>3. tr \in Seq(Names) /\ tr # <<>> /\ Elements(tr) = {"H(CH1)", "HRR", "CH2"}
  BY DEF Names, Elements
<1>4. tls' = p /\ toServer' = "CH2" /\ event' = event /\ socket' = socket
  <2>1. [tls EXCEPT !.buf = Rest, !.transcript = tr] = [[tls EXCEPT !.buf = Rest] EXCEPT !.transcript = tr]
    OBVIOUS
  <2> QED BY <2>1, Zenon DEF HelloRetry, Retried, Quiet
<1> HIDE DEF tr
<1>5. /\ p \in Fields /\ p.buf = Rest /\ p.transcript = tr /\ p.messages = tls.messages
      /\ p.encHsBuf = tls.encHsBuf /\ p.tls12 = tls.tls12
  BY <1>1, <1>2, <1>3 DEF Fields
<1> HIDE DEF p
<1>6. RecordTaken
  BY <1>3, <1>4, <1>5 DEF RecordTaken
<1>7. event # "ready" /\ First.ms # <<>>
  BY HelloComesEarly
<1>8. event # "error" => Rest = <<>> /\ wire = <<>>
  <2>1. ~Free(First.ms)
    <3>1. PICK ms \in Seq(Names) : ms = First.ms
      BY <1>2 DEF RecordsOf
    <3>2. Head(ms) = ms[1] /\ Head(ms) \in Elements(ms)
      BY <1>7, <3>1, HeadAndTail
    <3> QED BY <3>1, <3>2 DEF Free, Lasts
  <2> QED BY <2>1, TakenOff
<1>9. TakeTurns' /\ MessagesFit'
  BY <1>4, <1>5, <1>6, <1>8, Unparsed
<1>10. Types' /\ Begun' /\ DialOK' /\ RecordsFit'
  BY <1>6, AfterRecord
<1>11. Answered' /\ Done' /\ FALSE \notin tickets'
  BY <1>4, <1>7 DEF IInv, Answered, Done
<1>12. Heard(tls.transcript)'
  BY <1>3, <1>4, <1>5 DEF Heard
<1> QED BY <1>9, <1>10, <1>11, <1>12 DEF IInv

LEMMA ElementsAppend ==
  ASSUME NEW S, NEW q \in Seq(S), NEW x \in S
  PROVE  /\ Append(q, x) \in Seq(S) /\ Append(q, x) # <<>>
         /\ Elements(Append(q, x)) = Elements(q) \cup {x}
<1>1. Append(q, x) = q \o <<x>> /\ Append(q, x) # <<>>
  BY AppendIsConcat, AppendProperties, ZenonT(60)
<1>2. <<x>> \in Seq(S) /\ Elements(<<x>>) = {x}
  BY OneElement, Zenon
<1>3. q \o <<x>> \in Seq(S) /\ Elements(q \o <<x>>) = Elements(q) \cup Elements(<<x>>)
  BY <1>2, ElementsConcat, ZenonT(60)
<1> QED BY <1>1, <1>2, <1>3, Zenon

LEMMA ServerHelloKeeps ==
  ASSUME IInv, tls.buf # <<>>, tls.messages = <<>>, First.type = "handshake",
         ServerHello([tls EXCEPT !.buf = Rest], First.ms), wire' = wire, conf' = conf,
         tickets' = tickets, UNCHANGED <<route, attempts, winner>>
  PROVE  IInv'
<1> DEFINE tr == Append(tls.transcript, "SH")
           p12 == [tls EXCEPT !.buf = Rest, !.transcript = tr, !.tls12 = TRUE]
           pKem == [tls EXCEPT !.buf = Rest, !.transcript = tr, !.decap = TRUE, !.pskAccepted = conf.takesPsk]
           pKey == [tls EXCEPT !.buf = Rest, !.transcript = tr, !.keysReady = TRUE,
                               !.pskAccepted = conf.takesPsk]
<1>1. tls \in Fields /\ conf \in Confs /\ toServer \in {"", "CH1", "CH2", "flight"}
  BY DEF IInv, Types
<1>2. Rest \in Seq(RecordsOf) /\ First \in RecordsOf /\ (event # "error" => toServer = "")
  BY TakenOff
<1>3. tr \in Seq(Names) /\ tr # <<>> /\ Elements(tr) = Elements(tls.transcript) \cup {"SH"}
  <2>1. PICK q \in Seq(Names) : q = tls.transcript
    BY <1>1, FieldsAre
  <2>2. "SH" \in Names
    BY DEF Names
  <2> QED BY <2>1, <2>2, ElementsAppend
<1>4. /\ (tls' = p12 /\ conf.version = 12) \/ tls' = pKem \/ tls' = pKey
      /\ toServer' = toServer /\ event' = event /\ socket' = socket
  BY DEF ServerHello
<1>5. conf.takesPsk \in BOOLEAN
  BY <1>1, ConfIs
<1> HIDE DEF tr
<1>6. /\ tls' \in Fields /\ tls'.buf = Rest /\ tls'.transcript = tr /\ tls'.messages = tls.messages
      /\ tls'.encHsBuf = tls.encHsBuf /\ (tls'.tls12 = tls.tls12 \/ conf.version = 12)
      /\ tls'.trusted = tls.trusted /\ tls'.earlyDataAccepted = tls.earlyDataAccepted
      /\ conf.version = 12 \/ tls'.pskAccepted = conf.takesPsk
  <2>1. PICK yes \in BOOLEAN, psk \in BOOLEAN : yes = TRUE /\ psk = conf.takesPsk
    BY <1>5
  <2>2. CASE tls' = p12 /\ conf.version = 12
    <3>1. tls' = [tls EXCEPT !.buf = Rest, !.transcript = tr, !.tls12 = yes]
      BY <2>1, <2>2, Zenon
    <3> QED BY ZenonT(60), <1>1, <1>2, <1>3, <2>2, <3>1 DEF Fields
  <2>3. CASE tls' = pKem
    <3>1. tls' = [tls EXCEPT !.buf = Rest, !.transcript = tr, !.decap = yes, !.pskAccepted = psk]
      BY <2>1, <2>3, Zenon
    <3> QED BY <1>1, <1>2, <1>3, <2>1, <3>1 DEF Fields
  <2>4. CASE tls' = pKey
    <3>1. tls' = [tls EXCEPT !.buf = Rest, !.transcript = tr, !.keysReady = yes, !.pskAccepted = psk]
      BY <2>1, <2>4, Zenon
    <3> QED BY <1>1, <1>2, <1>3, <2>1, <3>1 DEF Fields
  <2> QED BY <1>4, <2>2, <2>3, <2>4
<1> HIDE DEF p12, pKem, pKey
<1>7. RecordTaken
  BY <1>1, <1>3, <1>4, <1>6 DEF RecordTaken
<1>8. event # "ready" /\ (event = "error" => toServer # "flight")
  BY HelloComesEarly
<1>9. TakeTurns' /\ MessagesFit'
  BY <1>2, <1>4, <1>6, <1>7, Unparsed
<1>10. Types' /\ Begun' /\ DialOK' /\ RecordsFit'
  BY <1>7, AfterRecord
<1>11. Answered' /\ Done' /\ FALSE \notin tickets'
  BY <1>2, <1>4, <1>8 DEF IInv, Answered, Done
<1>12. Heard(tls.transcript)'
  <2>1. "EE" \in Elements(tr) => "EE" \in Elements(tls.transcript)
    BY <1>3
  <2>2. "CERT" \in Elements(tr) => "CERT" \in Elements(tls.transcript)
    BY <1>3
  <2>3. 12 # 13
    OBVIOUS
  <2>4. Elements(tls.transcript)' = Elements(tr)
    BY <1>6, Zenon DEF Elements
  <2> QED BY <1>4, <1>6, <2>1, <2>2, <2>3, <2>4, Zenon DEF IInv, Heard
<1> QED BY <1>9, <1>10, <1>11, <1>12 DEF IInv

LEMMA MessagesRecordKeeps ==
  ASSUME IInv, tls.buf # <<>>, tls.messages = <<>>,
         First.type = "encrypted" \/ (tls.tls12 /\ First.type = "handshake"),
         tls' = [[tls EXCEPT !.buf = Rest] EXCEPT !.messages = tls.encHsBuf \o First.ms, !.encHsBuf = <<>>],
         toServer' = toServer, wire' = wire, conf' = conf, tickets' = tickets,
         UNCHANGED <<route, attempts, winner>>, UNCHANGED <<event, socket>>
  PROVE  IInv'
<1> DEFINE ms == tls.encHsBuf \o First.ms
           e == <<>>
           p == [[tls EXCEPT !.buf = Rest] EXCEPT !.messages = ms, !.encHsBuf = e]
<1>1. tls \in Fields /\ toServer \in {"", "CH1", "CH2", "flight"}
  BY DEF IInv, Types
<1>2. /\ Rest \in Seq(RecordsOf) /\ First \in RecordsOf /\ RecordFits(First, event)
      /\ tls.transcript # <<>>
      /\ event # "error" =>
           /\ toServer = "" /\ tls.encHsBuf = <<>> /\ EndsOnly(First.ms)
           /\ ~Free(First.ms) => Rest = <<>> /\ wire = <<>>
  BY TakenOff, Zenon
<1>3. PICK a \in Seq(Names), b \in Seq(Names) : a = tls.encHsBuf /\ b = First.ms
  BY <1>1, <1>2, FieldsAre DEF RecordsOf
<1>4. a \o b \in Seq(Names) /\ Elements(a \o b) = Elements(a) \cup Elements(b)
  BY ElementsConcat
<1>5. ms \in Seq(Names) /\ Elements(ms) = Elements(tls.encHsBuf) \cup Elements(First.ms)
  BY <1>3, <1>4, Zenon
<1>6. a = <<>> => a \o b = b
  BY ConcatEmptySeq
<1>7. tls.encHsBuf = <<>> => ms = First.ms
  BY <1>3, <1>6, Zenon
<1>8. e \in Seq(Names) /\ Elements(e) = {} /\ e = <<>>
  BY NoElement
<1>9. tls' = p
  OBVIOUS
<1> HIDE DEF ms, e
<1>10. /\ p \in Fields /\ p.buf = Rest /\ p.transcript = tls.transcript /\ p.messages = ms
       /\ p.encHsBuf = e /\ p.tls12 = tls.tls12 /\ p.trusted = tls.trusted
       /\ p.pskAccepted = tls.pskAccepted /\ p.replayed = tls.replayed
       /\ p.earlyDataAccepted = tls.earlyDataAccepted
  BY <1>1, <1>2, <1>5, <1>8 DEF Fields
<1> HIDE DEF p
<1>11. RecordTaken
  BY <1>1, <1>2, <1>9, <1>10 DEF RecordTaken
<1>12. Types' /\ Begun' /\ DialOK' /\ RecordsFit' /\ (event' # "error" => LastComes(Way)')
  BY <1>11, AfterRecord
<1>13. /\ Elements(tls.messages)' = Elements(ms) /\ Elements(tls.encHsBuf)' = {}
       /\ EndsOnly(ms) => EndsOnly(tls.messages)'
  <2>1. tls'.messages = ms /\ tls'.encHsBuf = e
    BY <1>9, <1>10
  <2>2. Elements(tls.messages)' = Elements(ms) /\ Elements(tls.encHsBuf)' = Elements(e)
    BY <2>1, Zenon DEF Elements
  <2>3. EndsOnly(ms) => EndsOnly(tls.messages)'
    BY <2>1, Zenon DEF EndsOnly
  <2> QED BY <1>8, <2>2, <2>3, Zenon
<1>14. TakeTurns'
  <2> SUFFICES ASSUME event' # "error" PROVE TakeTurns'
    BY DEF TakeTurns
  <2>1. toServer' = "" /\ ms = First.ms /\ EndsOnly(ms) /\ (~Free(ms) => Rest = <<>> /\ wire = <<>>)
    BY <1>2, <1>7, Zenon
  <2>2. \A m \in Elements(ms) : m \in Lasts => Rest = <<>> /\ wire = <<>>
    BY <2>1 DEF Free
  <2>3. tls'.encHsBuf = <<>> /\ tls'.buf = Rest /\ wire' = wire
    BY <1>8, <1>9, <1>10
  <2> QED BY <1>12, <1>13, <2>1, <2>2, <2>3, Zenon DEF TakeTurns
<1>15. /\ ~Refuses /\ (First.type = "encrypted" => conf.version = 13)
       /\ First.type = "handshake" => event # "ready"
  BY <1>2 DEF RecordFits, Late
<1>16. \A m \in Elements(ms) : m = "NST" <=> event = "ready"
  <2> SUFFICES ASSUME NEW m \in Elements(ms) PROVE m = "NST" <=> event = "ready"
    OBVIOUS
  <2>1. ASSUME m = "NST" PROVE event = "ready"
    BY <1>2, <1>5, <2>1 DEF RecordFits, IInv, MessagesFit
  <2>2. ASSUME event = "ready" PROVE m = "NST"
    <3>1. ms = First.ms /\ Late(First) /\ First.type = "encrypted"
      BY <1>2, <1>7, <1>15, <2>2 DEF RecordFits
    <3> QED BY <3>1 DEF Late
  <2> QED BY <2>1, <2>2
<1>17. MessagesFit'
  <2>1. Refuses' = Refuses
    BY Zenon DEF Refuses
  <2>2. (tls.messages # <<>> /\ ~tls.tls12 => conf.version = 13)'
    BY <1>9, <1>10, <1>15
  <2>3. (tls.tls12 => conf.version = 12)'
    BY <1>9, <1>10 DEF IInv, MessagesFit
  <2>4. \A m \in Elements(tls.messages)' : m = "NST" <=> event' = "ready"
    BY <1>13, <1>16
  <2> QED BY <1>13, <1>15, <2>1, <2>2, <2>3, <2>4, Zenon DEF MessagesFit
<1>18. Answered' /\ FALSE \notin tickets'
  BY <1>9, <1>10, Zenon DEF IInv, Answered, Refuses
<1>19. Heard(tls.transcript)'
  BY <1>9, <1>10, Zenon DEF IInv, Heard
<1>20. Done'
  BY <1>9, <1>10, SameScript, Zenon DEF IInv, Done
<1> QED BY <1>12, <1>14, <1>17, <1>18, <1>19, <1>20 DEF IInv

LEMMA RecordKeeps ==
  ASSUME IInv, ParseRecord
  PROVE  IInv'
<1>1. tls.buf # <<>> /\ tls.messages = <<>>
  BY DEF ParseRecord, Parsable
<1>2. /\ UNCHANGED <<route, attempts, winner>> /\ conf' = conf /\ wire' = wire /\ tickets' = tickets
  BY DEF ParseRecord, DialKept
<1> DEFINE t == [tls EXCEPT !.buf = Rest]
<1>3. \/ tls' = t /\ Quiet /\ toServer' = toServer
      \/ tls' = t /\ Fails /\ toServer' = toServer
      \/ First.type = "handshake" /\ First.ms[1] = "HRR" /\ HelloRetry(t)
      \/ First.type = "handshake" /\ ServerHello(t, First.ms)
      \/ /\ First.type = "encrypted" \/ (tls.tls12 /\ First.type = "handshake")
         /\ tls' = [t EXCEPT !.messages = tls.encHsBuf \o First.ms, !.encHsBuf = <<>>]
         /\ Quiet /\ toServer' = toServer
  BY Zenon DEF ParseRecord, First, Rest
<1>4. CASE tls' = t /\ Quiet /\ toServer' = toServer
  BY <1>1, <1>2, <1>4, PlainRecordKeeps DEF Quiet
<1>5. CASE tls' = t /\ Fails /\ toServer' = toServer
  BY <1>1, <1>2, <1>5, PlainRecordKeeps DEF Fails
<1>6. CASE First.type = "handshake" /\ First.ms[1] = "HRR" /\ HelloRetry(t)
  BY <1>1, <1>2, <1>6, HelloRetryKeeps
<1>7. CASE First.type = "handshake" /\ ServerHello(t, First.ms)
  BY <1>1, <1>2, <1>7, ServerHelloKeeps
<1>8. CASE /\ First.type = "encrypted" \/ (tls.tls12 /\ First.type = "handshake")
           /\ tls' = [t EXCEPT !.messages = tls.encHsBuf \o First.ms, !.encHsBuf = <<>>]
           /\ Quiet /\ toServer' = toServer
  BY <1>1, <1>2, <1>8, MessagesRecordKeeps DEF Quiet
<1> QED BY <1>3, <1>4, <1>5, <1>6, <1>7, <1>8

-----------------------------------------------------------------------------
(* Steps of the client that take a message.                                *)

Message == Head(tls.messages)
Others == Tail(tls.messages)
Without == [tls EXCEPT !.messages = Others]
With == [Without EXCEPT !.transcript = Append(@, Message)]

LEMMA MessageTaken ==
  ASSUME IInv, tls.messages # <<>>
  PROVE  /\ Message \in Names /\ (Message = "NST" <=> event = "ready")
         /\ Others \in Seq(Names) /\ Elements(Others) \subseteq Elements(tls.messages)
         /\ tls.transcript # <<>> /\ socket # "none" /\ ~Refuses
         /\ IF tls.tls12 THEN conf.version = 12 ELSE conf.version = 13
         /\ event # "error" =>
              /\ toServer = "" /\ tls.encHsBuf = <<>> /\ EndsOnly(Others)
              /\ \A m \in Elements(Others) : m \in Lasts => tls.buf = <<>> /\ wire = <<>>
              /\ Message \in Lasts => Others = <<>> /\ tls.buf = <<>> /\ wire = <<>>
<1>1. PICK ms \in Seq(Names) : ms = tls.messages
  BY FieldsAre DEF IInv, Types
<1>2. ms # <<>>
  BY <1>1
<1>3. /\ Head(ms) \in Names /\ Tail(ms) \in Seq(Names)
      /\ Head(ms) \in Elements(ms) /\ Elements(Tail(ms)) \subseteq Elements(ms)
  BY <1>2, HeadAndTail
<1>4. Message = Head(ms) /\ Others = Tail(ms)
  BY <1>1, Zenon DEF Message, Others
<1>5. Message = "NST" <=> event = "ready"
  BY <1>1, <1>3, <1>4 DEF IInv, MessagesFit
<1>6. tls.transcript # <<>> /\ socket # "none"
  BY <1>1, <1>2 DEF IInv, Begun, DialOK
<1>7. ~Refuses /\ IF tls.tls12 THEN conf.version = 12 ELSE conf.version = 13
  BY <1>1, <1>2, Zenon DEF IInv, MessagesFit
<1>8. ASSUME event # "error"
      PROVE  /\ toServer = "" /\ tls.encHsBuf = <<>> /\ EndsOnly(Others)
             /\ \A m \in Elements(Others) : m \in Lasts => tls.buf = <<>> /\ wire = <<>>
             /\ Message \in Lasts => Others = <<>> /\ tls.buf = <<>> /\ wire = <<>>
  <2>1. /\ toServer = "" /\ tls.encHsBuf = <<>> /\ EndsOnly(ms)
        /\ \A m \in Elements(ms) : m \in Lasts => tls.buf = <<>> /\ wire = <<>>
    BY <1>1, <1>2, <1>8, Zenon DEF IInv, TakeTurns
  <2>2. EndsOnly(Tail(ms)) /\ (Head(ms) \in Lasts => Tail(ms) = <<>>)
    BY <1>2, <2>1, EndsTail
  <2> QED BY <1>3, <1>4, <2>1, <2>2, Zenon
<1> QED BY <1>3, <1>4, <1>5, <1>6, <1>7, <1>8, <1>1, Zenon

LEMMA WithIs ==
  ASSUME IInv, tls.messages # <<>>
  PROVE  /\ Without \in Fields /\ Without.transcript = tls.transcript
         /\ Without.buf = tls.buf /\ Without.messages = Others
         /\ Without.encHsBuf = tls.encHsBuf /\ Without.tls12 = tls.tls12
         /\ Without.trusted = tls.trusted /\ Without.pskAccepted = tls.pskAccepted
         /\ Without.replayed = tls.replayed /\ Without.earlyDataAccepted = tls.earlyDataAccepted
         /\ With \in Fields /\ With.transcript = Append(tls.transcript, Message)
         /\ With.buf = tls.buf /\ With.messages = Others
         /\ With.encHsBuf = tls.encHsBuf /\ With.tls12 = tls.tls12
         /\ With.trusted = tls.trusted /\ With.pskAccepted = tls.pskAccepted
         /\ With.replayed = tls.replayed /\ With.earlyDataAccepted = tls.earlyDataAccepted
         /\ With.transcript # <<>> /\ With.transcript \in Seq(Names)
         /\ Elements(With.transcript) = Elements(tls.transcript) \cup {Message}
<1> DEFINE tr == Append(tls.transcript, Message)
           p == [tls EXCEPT !.messages = Others, !.transcript = tr]
<1>1. tls \in Fields /\ Others \in Seq(Names) /\ Message \in Names
  BY MessageTaken DEF IInv, Types
<1>2. tr \in Seq(Names) /\ tr # <<>> /\ Elements(tr) = Elements(tls.transcript) \cup {Message}
  <2>1. PICK q \in Seq(Names) : q = tls.transcript
    BY <1>1, FieldsAre
  <2> QED BY <1>1, <2>1, ElementsAppend
<1>3. With = p
  BY DEF With, Without
<1> HIDE DEF tr
<1>4. /\ Without \in Fields /\ Without.transcript = tls.transcript
      /\ Without.buf = tls.buf /\ Without.messages = Others
      /\ Without.encHsBuf = tls.encHsBuf /\ Without.tls12 = tls.tls12
      /\ Without.trusted = tls.trusted /\ Without.pskAccepted = tls.pskAccepted
      /\ Without.replayed = tls.replayed /\ Without.earlyDataAccepted = tls.earlyDataAccepted
  BY <1>1 DEF Fields, Without
<1>5. /\ p \in Fields /\ p.transcript = tr
      /\ p.buf = tls.buf /\ p.messages = Others
      /\ p.encHsBuf = tls.encHsBuf /\ p.tls12 = tls.tls12
      /\ p.trusted = tls.trusted /\ p.pskAccepted = tls.pskAccepted
      /\ p.replayed = tls.replayed /\ p.earlyDataAccepted = tls.earlyDataAccepted
  BY <1>1, <1>2 DEF Fields
<1> HIDE DEF p
<1>6. With.transcript = tr
  BY <1>3, <1>5
<1> QED BY <1>2, <1>3, <1>4, <1>5, <1>6, Zenon DEF tr

(* What is known whatever the message was.                                 *)
MessageDone ==
  /\ tls' \in Fields /\ wire' = wire /\ conf' = conf
  /\ tls'.buf = tls.buf \/ (tls'.buf = <<>> /\ Message \in Lasts)
  /\ tls'.messages \in {Others, <<>>}
  /\ tls'.transcript # <<>> /\ tls'.tls12 = tls.tls12
  /\ UNCHANGED <<route, attempts, winner>>
  /\ toServer' \in {"", "CH1", "CH2", "flight"}
  /\ event' # "error" => toServer' = toServer \/ Message \in Lasts
  /\ \/ event' = event /\ socket' = socket /\ tls'.encHsBuf = tls.encHsBuf
     \/ /\ event # "ready" /\ event' = "error" /\ socket' = "closed"
        /\ tls'.encHsBuf \in {tls.encHsBuf, Others}
     \/ /\ event = "none" /\ event' = "ready" /\ socket' = socket
        /\ tls'.encHsBuf = tls.encHsBuf /\ Message \in Lasts

LEMMA AfterMessage ==
  ASSUME IInv, tls.messages # <<>>, MessageDone
  PROVE  Types' /\ Begun' /\ DialOK' /\ TakeTurns' /\ RecordsFit' /\ MessagesFit'
<1>1. /\ Message \in Names /\ (Message = "NST" <=> event = "ready")
      /\ Others \in Seq(Names) /\ Elements(Others) \subseteq Elements(tls.messages)
      /\ socket # "none" /\ ~Refuses
      /\ IF tls.tls12 THEN conf.version = 12 ELSE conf.version = 13
  BY MessageTaken, Zenon
<1>2. event # "error" =>
        /\ toServer = "" /\ tls.encHsBuf = <<>> /\ EndsOnly(Others)
        /\ \A m \in Elements(Others) : m \in Lasts => tls.buf = <<>> /\ wire = <<>>
        /\ Message \in Lasts => Others = <<>> /\ tls.buf = <<>> /\ wire = <<>>
  BY MessageTaken, Zenon
<1>3. Elements(<<>>) = {} /\ EndsOnly(<<>>)
  BY NoElement DEF EndsOnly
<1>4. Types' /\ Begun'
  BY <1>1 DEF IInv, MessageDone, Types, Begun
<1>5. DialOK'
  BY <1>1 DEF IInv, MessageDone, Types, DialOK, OneSocketKept
<1>6. event' # "error" => event # "error"
  BY DEF MessageDone
<1>7. Elements(tls.messages)' \subseteq Elements(Others)
  <2>1. Elements(tls.messages)' = Elements(Others) \/ Elements(tls.messages)' = Elements(<<>>)
    <3>1. tls'.messages = Others \/ tls'.messages = <<>>
      BY DEF MessageDone
    <3> QED BY <3>1, Zenon DEF Elements
  <2> QED BY <1>3, <2>1
<1>8. TakeTurns'
  <2> SUFFICES ASSUME event' # "error" PROVE TakeTurns'
    BY DEF TakeTurns
  <2>1. tls'.encHsBuf = <<>> /\ (toServer' # "" => Message \in Lasts)
    BY <1>2, <1>6 DEF MessageDone
  <2>2. Message \in Lasts => tls'.messages = <<>> /\ tls'.buf = <<>> /\ wire' = <<>>
    BY <1>2, <1>6 DEF MessageDone
  <2>3. EndsOnly(tls.messages)'
    <3>1. CASE tls'.messages = Others
      BY <1>2, <1>6, <3>1, Zenon DEF EndsOnly
    <3>2. CASE tls'.messages = <<>>
      BY <1>3, <3>2, Zenon DEF EndsOnly
    <3> QED BY <3>1, <3>2 DEF MessageDone
  <2>4. Way' = Way
    <3>1. tls'.buf = tls.buf
      BY <1>2, <1>6 DEF MessageDone
    <3> QED BY <3>1, Zenon DEF MessageDone, Way
  <2>5. LastComes(Way)'
    BY <1>6, <2>4, Zenon DEF IInv, TakeTurns, LastComes
  <2>6. \A m \in Elements(tls.messages)' : m \in Lasts => tls'.buf = <<>> /\ wire' = <<>>
    BY <1>2, <1>6, <1>7 DEF MessageDone
  <2> QED BY <2>1, <2>2, <2>3, <2>5, <2>6, Zenon DEF TakeTurns
<1>9. UnderWay' \subseteq UnderWay /\ (Message \in Lasts /\ event # "error" => UnderWay' = {})
  <2>1. UnderWay' = Elements(tls'.buf) \cup Elements(wire)
    BY Zenon DEF MessageDone, UnderWay
  <2>2. CASE tls'.buf = tls.buf
    BY <1>2, <1>3, <2>1, <2>2, Zenon DEF UnderWay
  <2>3. CASE tls'.buf = <<>> /\ Message \in Lasts
    BY <1>2, <1>3, <2>1, <2>3 DEF UnderWay
  <2> QED BY <2>2, <2>3 DEF MessageDone
<1>10. Refuses' = Refuses /\ conf' = conf
  BY Zenon DEF MessageDone, Refuses
<1>11. RecordsFit'
  <2> SUFFICES ASSUME NEW r \in UnderWay' PROVE RecordFits(r, event)'
    BY DEF RecordsFit
  <2>1. RecordFits(r, event)
    BY <1>9 DEF IInv, RecordsFit
  <2>2. CASE event' = event
    BY <1>10, <2>1, <2>2, Zenon DEF RecordFits
  <2>3. CASE event # "ready" /\ event' = "error"
    BY <1>10, <2>1, <2>3 DEF RecordFits
  <2>4. CASE event = "none" /\ Message \in Lasts
    BY <1>9, <2>4
  <2> QED BY <2>2, <2>3, <2>4 DEF MessageDone
<1>12. MessagesFit'
  <2>1. \A m \in Elements(tls.messages)' : m = "NST" <=> event' = "ready"
    <3> SUFFICES ASSUME NEW m \in Elements(tls.messages)' PROVE m = "NST" <=> event' = "ready"
      OBVIOUS
    <3>1. m \in Elements(Others) /\ m \in Elements(tls.messages)
      BY <1>1, <1>7
    <3>2. m = "NST" <=> event = "ready"
      BY <3>1 DEF IInv, MessagesFit
    <3>3. CASE event = "none" /\ Message \in Lasts
      BY <1>2, <1>3, <3>1, <3>3
    <3> QED BY <3>2, <3>3 DEF MessageDone
  <2>2. "NST" \in Elements(tls.encHsBuf)' => event' = "ready"
    <3>1. "NST" \in Elements(tls.encHsBuf) => event = "ready"
      BY DEF IInv, MessagesFit
    <3>2. "NST" \in Elements(Others) => event = "ready"
      BY <1>1 DEF IInv, MessagesFit
    <3>3. tls'.encHsBuf = tls.encHsBuf \/ tls'.encHsBuf = Others
      BY DEF MessageDone
    <3>4. Elements(tls.encHsBuf)' = Elements(tls.encHsBuf) \/ Elements(tls.encHsBuf)' = Elements(Others)
      BY <3>3, Zenon DEF Elements
    <3>5. event = "ready" => event' = "ready"
      BY DEF MessageDone
    <3> QED BY <3>1, <3>2, <3>4, <3>5
  <2>3. (tls.messages # <<>> /\ ~tls.tls12 => conf.version = 13)' /\ (tls.tls12 => conf.version = 12)'
    BY <1>1, Zenon DEF MessageDone
  <2> QED BY <1>1, <1>10, <2>1, <2>2, <2>3, Zenon DEF MessagesFit
<1> QED BY <1>4, <1>5, <1>8, <1>11, <1>12

LEMMA HeardStep ==
  ASSUME IInv, conf' = conf,
         "EE" \in Elements(tls'.transcript) =>
           ("EE" \in Elements(tls.transcript) /\ tls'.earlyDataAccepted = tls.earlyDataAccepted)
             \/ tls'.earlyDataAccepted = conf.takesEarly,
         "SH" \in Elements(tls'.transcript) => "SH" \in Elements(tls.transcript),
         tls'.pskAccepted = tls.pskAccepted,
         event' # "error" /\ conf.verifyTLS /\ "CERT" \in Elements(tls'.transcript) =>
           \/ event # "error" /\ "CERT" \in Elements(tls.transcript) /\ tls'.trusted = tls.trusted
           \/ tls'.trusted
  PROVE  Heard(tls.transcript)'
<1>1. Elements(tls.transcript)' = Elements(tls'.transcript)
  BY Zenon DEF Elements
<1>2. Heard(tls.transcript)
  BY DEF IInv
<1>3. ("EE" \in Elements(tls.transcript) => tls.earlyDataAccepted = conf.takesEarly)'
  BY <1>1, <1>2, Zenon DEF Heard
<1>4. (conf.version = 13 /\ "SH" \in Elements(tls.transcript) => tls.pskAccepted = conf.takesPsk)'
  BY <1>1, <1>2, Zenon DEF Heard
<1>5. (event # "error" /\ conf.verifyTLS /\ "CERT" \in Elements(tls.transcript) => tls.trusted)'
  BY <1>1, <1>2, Zenon DEF Heard
<1> QED BY <1>3, <1>4, <1>5, Zenon DEF Heard

(* A message after which the client is not ready.                          *)
LEMMA Unready ==
  ASSUME IInv, tls.messages # <<>>, MessageDone, event' # "ready", tickets' = tickets,
         toServer' = toServer, Heard(tls.transcript)'
  PROVE  IInv'
<1>1. Types' /\ Begun' /\ DialOK' /\ TakeTurns' /\ RecordsFit' /\ MessagesFit'
  BY AfterMessage
<1>2. event # "error" => toServer = ""
  BY MessageTaken
<1>3. toServer' # "flight"
  BY <1>2 DEF IInv, Answered
<1>4. Answered' /\ Done' /\ FALSE \notin tickets'
  BY <1>3 DEF IInv, Answered, Done
<1> QED BY <1>1, <1>4 DEF IInv

(* The message is in the transcript, and one field or none is set by it.   *)
LEMMA MessageKeeps ==
  ASSUME IInv, tls.messages # <<>>, Message \notin {"NST", "EE", "SH", "CERT"},
         tls' = With, UNCHANGED <<event, socket>> \/ Fails, toServer' = toServer,
         wire' = wire, conf' = conf, tickets' = tickets, UNCHANGED <<route, attempts, winner>>
  PROVE  IInv'
<1>1. event # "ready"
  BY MessageTaken
<1>2. event \in {"none", "error", "ready"} /\ toServer \in {"", "CH1", "CH2", "flight"}
  BY DEF IInv, Types
<1>3. MessageDone
  BY <1>1, <1>2, WithIs DEF MessageDone, Fails, Emitted
<1>4. Elements(tls'.transcript) = Elements(tls.transcript) \cup {Message}
  BY WithIs
<1>5. Heard(tls.transcript)'
  <2>1. tls'.pskAccepted = tls.pskAccepted /\ tls'.trusted = tls.trusted
        /\ tls'.earlyDataAccepted = tls.earlyDataAccepted
    BY WithIs
  <2>2. event' # "error" => event # "error"
    BY <1>3 DEF MessageDone
  <2>3. \A m \in {"EE", "SH", "CERT"} : m \in Elements(tls'.transcript) => m \in Elements(tls.transcript)
    BY <1>4
  <2> QED BY <2>1, <2>2, <2>3, HeardStep
<1>6. event' # "ready"
  BY <1>1, <1>2 DEF Fails, Emitted
<1> QED BY <1>3, <1>5, <1>6, Unready

LEMMA ExtensionsKeep ==
  ASSUME IInv, tls.messages # <<>>, Message = "EE", EncryptedExtensions(With),
         wire' = wire, conf' = conf, UNCHANGED <<route, attempts, winner>>
  PROVE  IInv'
<1>1. conf \in Confs /\ toServer \in {"", "CH1", "CH2", "flight"} /\ event # "ready"
  BY MessageTaken DEF IInv, Types
<1>2. PICK v \in BOOLEAN : v = conf.takesEarly
  BY <1>1, ConfIs
<1> DEFINE p == [With EXCEPT !.earlyDataAccepted = v]
<1>3. tls' = p /\ UNCHANGED <<event, socket, toServer, tickets>>
  BY <1>2, Zenon DEF EncryptedExtensions, Quiet
<1>4. /\ p \in Fields /\ p.buf = tls.buf /\ p.messages = Others /\ p.transcript = With.transcript
      /\ p.encHsBuf = tls.encHsBuf /\ p.tls12 = tls.tls12 /\ p.earlyDataAccepted = v
      /\ p.trusted = tls.trusted /\ p.pskAccepted = tls.pskAccepted
  <2>1. With \in Fields
    BY WithIs
  <2>2. /\ p \in Fields /\ p.buf = With.buf /\ p.messages = With.messages /\ p.transcript = With.transcript
        /\ p.encHsBuf = With.encHsBuf /\ p.tls12 = With.tls12 /\ p.earlyDataAccepted = v
        /\ p.trusted = With.trusted /\ p.pskAccepted = With.pskAccepted
    BY <2>1 DEF Fields
  <2> HIDE DEF p
  <2> QED BY <2>2, WithIs
<1> HIDE DEF p
<1>5. MessageDone
  BY <1>1, <1>3, <1>4, WithIs DEF MessageDone
<1>6. \A m \in {"SH", "CERT"} : m \in Elements(tls'.transcript) => m \in Elements(tls.transcript)
  <2>1. Elements(tls'.transcript) = Elements(tls.transcript) \cup {"EE"}
    BY <1>3, <1>4, WithIs, Zenon
  <2> QED BY <2>1
<1>7. Heard(tls.transcript)'
  BY <1>2, <1>3, <1>4, <1>6, HeardStep
<1> QED BY <1>1, <1>3, <1>5, <1>7, Unready

(* _certFail                                                               *)
LEMMA CertFailKeeps ==
  ASSUME IInv, tls.messages # <<>>, Message \notin {"NST", "EE", "SH"},
         NEW t \in {With, Without}, CertFail(t),
         wire' = wire, conf' = conf, UNCHANGED <<route, attempts, winner>>
  PROVE  IInv'
<1> DEFINE e == <<>>
           p == [t EXCEPT !.encHsBuf = t.messages, !.messages = e]
<1>1. event # "ready" /\ toServer \in {"", "CH1", "CH2", "flight"} /\ event \in {"none", "error", "ready"}
  BY MessageTaken DEF IInv, Types
<1>2. /\ tls' = p /\ event' = "error" /\ socket' = "closed" /\ toServer' = toServer /\ tickets' = tickets
  BY <1>1 DEF CertFail, Fails, Emitted
<1>3. e \in Seq(Names) /\ e = <<>>
  BY NoElement
<1>4. /\ t \in Fields /\ t.messages = Others /\ t.messages \in Seq(Names) /\ t.transcript # <<>>
      /\ t.buf = tls.buf /\ t.tls12 = tls.tls12 /\ t.encHsBuf = tls.encHsBuf
      /\ t.pskAccepted = tls.pskAccepted /\ t.earlyDataAccepted = tls.earlyDataAccepted
      /\ \A m \in {"EE", "SH"} : m \in Elements(t.transcript) => m \in Elements(tls.transcript)
  BY WithIs, MessageTaken
<1> HIDE DEF e
<1>5. /\ p \in Fields /\ p.buf = t.buf /\ p.messages = e /\ p.transcript = t.transcript
      /\ p.encHsBuf = t.messages /\ p.tls12 = t.tls12 /\ p.earlyDataAccepted = t.earlyDataAccepted
      /\ p.pskAccepted = t.pskAccepted
  BY <1>3, <1>4 DEF Fields
<1> HIDE DEF p
<1>6. MessageDone
  BY <1>1, <1>2, <1>3, <1>4, <1>5 DEF MessageDone
<1>7. Heard(tls.transcript)'
  BY <1>2, <1>4, <1>5, HeardStep
<1> QED BY <1>2, <1>6, <1>7, Unready

(* A certificate that the client accepts, or refuses and goes on.          *)
LEMMA CertificateKeeps ==
  ASSUME IInv, tls.messages # <<>>, Message = "CERT", NEW v \in BOOLEAN,
         tls' = [With EXCEPT !.trusted = v],
         (UNCHANGED <<event, socket>> /\ (conf.verifyTLS => v)) \/ Fails,
         toServer' = toServer, tickets' = tickets,
         wire' = wire, conf' = conf, UNCHANGED <<route, attempts, winner>>
  PROVE  IInv'
<1> DEFINE p == [With EXCEPT !.trusted = v]
<1>1. event # "ready" /\ toServer \in {"", "CH1", "CH2", "flight"} /\ event \in {"none", "error", "ready"}
  BY MessageTaken DEF IInv, Types
<1>2. \/ UNCHANGED <<event, socket>> /\ (conf.verifyTLS => v)
      \/ event' = "error" /\ socket' = "closed"
  BY <1>1 DEF Fails, Emitted
<1>3. /\ p \in Fields /\ p.buf = tls.buf /\ p.messages = Others /\ p.transcript = With.transcript
      /\ p.encHsBuf = tls.encHsBuf /\ p.tls12 = tls.tls12 /\ p.trusted = v
      /\ p.earlyDataAccepted = tls.earlyDataAccepted /\ p.pskAccepted = tls.pskAccepted
  <2>1. With \in Fields
    BY WithIs
  <2>2. /\ p \in Fields /\ p.buf = With.buf /\ p.messages = With.messages /\ p.transcript = With.transcript
        /\ p.encHsBuf = With.encHsBuf /\ p.tls12 = With.tls12 /\ p.trusted = v
        /\ p.earlyDataAccepted = With.earlyDataAccepted /\ p.pskAccepted = With.pskAccepted
    BY <2>1 DEF Fields
  <2> HIDE DEF p
  <2> QED BY <2>2, WithIs
<1>4. tls' = p
  OBVIOUS
<1> HIDE DEF p
<1>5. MessageDone
  BY <1>1, <1>2, <1>3, <1>4, WithIs DEF MessageDone
<1>6. \A m \in {"EE", "SH"} : m \in Elements(tls'.transcript) => m \in Elements(tls.transcript)
  <2>1. Elements(tls'.transcript) = Elements(tls.transcript) \cup {"CERT"}
    BY <1>3, <1>4, WithIs, Zenon
  <2> QED BY <2>1
<1>7. event' # "error" /\ conf.verifyTLS => tls'.trusted
  BY <1>2, <1>3, <1>4, Zenon
<1>8. Heard(tls.transcript)'
  BY <1>3, <1>4, <1>6, <1>7, HeardStep
<1> QED BY <1>1, <1>2, <1>5, <1>8, Unready

(* A session ticket comes after ready, when the transcripts are the same.  *)
LEMMA TicketKeeps ==
  ASSUME IInv, tls.messages # <<>>, Message = "NST", SessionTicket(Without),
         wire' = wire, conf' = conf, UNCHANGED <<route, attempts, winner>>
  PROVE  IInv'
<1>1. event = "ready" /\ toServer = "" /\ toServer \in {"", "CH1", "CH2", "flight"}
  BY MessageTaken DEF IInv, Types
<1>2. tls' = Without /\ UNCHANGED <<event, socket, toServer>>
  BY DEF SessionTicket, Quiet
<1>3. MessageDone
  BY <1>1, <1>2, WithIs, MessageTaken DEF MessageDone
<1>4. Types' /\ Begun' /\ DialOK' /\ TakeTurns' /\ RecordsFit' /\ MessagesFit'
  BY <1>3, AfterMessage
<1>5. /\ tls'.transcript = tls.transcript /\ tls'.trusted = tls.trusted
      /\ tls'.pskAccepted = tls.pskAccepted /\ tls'.replayed = tls.replayed
      /\ tls'.earlyDataAccepted = tls.earlyDataAccepted /\ tls'.tls12 = tls.tls12
  BY <1>2, WithIs
<1>6. FALSE \notin tickets'
  <2>1. tls.transcript = SrvTranscript
    BY <1>1 DEF IInv, Done
  <2>2. Without.transcript = SrvTranscript
    BY <2>1, WithIs, Zenon
  <2>3. tickets' = tickets \cup {TRUE}
    BY <2>2, Zenon DEF SessionTicket
  <2>4. FALSE \notin tickets
    BY DEF IInv
  <2> QED BY <2>3, <2>4, Zenon
<1>7. Heard(tls.transcript)' /\ Done'
  BY <1>2, <1>5, SameScript, Zenon DEF IInv, Heard, Done
<1>8. Answered'
  BY <1>1, <1>2 DEF Answered
<1> QED BY <1>4, <1>6, <1>7, <1>8 DEF IInv

LEMMA TwoNames ==
  ASSUME NEW S, NEW x \in S, NEW y \in S
  PROVE  <<x, y>> \in Seq(S) /\ Elements(<<x, y>>) = {x, y}
BY DEF Elements

(* The client answers ServerHelloDone.                                     *)
LEMMA FlightKeeps ==
  ASSUME IInv, tls.messages # <<>>, tls.tls12, Message = "SHD", ClientFlight12(With),
         wire' = wire, conf' = conf, UNCHANGED <<route, attempts, winner>>
  PROVE  IInv'
<1> DEFINE tr == With.transcript \o <<"CKE", "CFIN">>
           p == [With EXCEPT !.transcript = tr]
<1>1. /\ event # "ready" /\ toServer \in {"", "CH1", "CH2", "flight"} /\ ~Refuses
      /\ event = "error" => socket # "open" /\ toServer # "flight"
      /\ event # "error" => toServer = ""
  BY MessageTaken DEF IInv, Types, DialOK, Answered
<1>2. /\ tls' = p /\ UNCHANGED <<event, socket, tickets>>
      /\ toServer' = IF socket = "open" THEN "flight" ELSE toServer
  BY DEF ClientFlight12, Quiet
<1>3. /\ tr \in Seq(Names) /\ tr # <<>>
      /\ Elements(tr) = (Elements(tls.transcript) \cup {"SHD"}) \cup {"CKE", "CFIN"}
  <2>1. <<"CKE", "CFIN">> \in Seq(Names) /\ Elements(<<"CKE", "CFIN">>) = {"CKE", "CFIN"}
    BY TwoNames DEF Names
  <2>2. PICK q \in Seq(Names) : q = With.transcript
    BY WithIs
  <2>3. Elements(q) = Elements(tls.transcript) \cup {"SHD"}
    BY <2>2, WithIs, Zenon
  <2> DEFINE a == <<"CKE", "CFIN">>
  <2> HIDE DEF a
  <2>4. q \o a \in Seq(Names) /\ Elements(q \o a) = Elements(q) \cup Elements(a)
    BY <2>1, NamesConcat DEF a
  <2>5. tr = q \o a
    BY <2>2, Zenon DEF a
  <2> HIDE DEF tr
  <2>6. tr \in Seq(Names) /\ Elements(tr) = (Elements(tls.transcript) \cup {"SHD"}) \cup {"CKE", "CFIN"}
    BY <2>1, <2>3, <2>4, <2>5, Zenon DEF a
  <2>7. tr # <<>>
    BY <2>6, NoElement
  <2> QED BY <2>6, <2>7
<1> HIDE DEF tr
<1>4. /\ p \in Fields /\ p.transcript = tr
      /\ p.buf = tls.buf /\ p.messages = Others
      /\ p.encHsBuf = tls.encHsBuf /\ p.tls12 = tls.tls12 /\ p.trusted = tls.trusted
      /\ p.earlyDataAccepted = tls.earlyDataAccepted /\ p.pskAccepted = tls.pskAccepted
  <2>1. With \in Fields
    BY WithIs
  <2>2. /\ p \in Fields /\ p.buf = With.buf /\ p.messages = With.messages /\ p.transcript = tr
        /\ p.encHsBuf = With.encHsBuf /\ p.tls12 = With.tls12 /\ p.trusted = With.trusted
        /\ p.earlyDataAccepted = With.earlyDataAccepted /\ p.pskAccepted = With.pskAccepted
    BY <1>3, <2>1 DEF Fields
  <2> HIDE DEF p
  <2> QED BY <2>2, WithIs
<1> HIDE DEF p
<1>5. MessageDone
  BY <1>1, <1>2, <1>3, <1>4 DEF MessageDone, Lasts
<1>6. Types' /\ Begun' /\ DialOK' /\ TakeTurns' /\ RecordsFit' /\ MessagesFit'
  BY <1>5, AfterMessage
<1>7. Heard(tls.transcript)'
  <2>1. \A m \in {"EE", "SH", "CERT"} : m \in Elements(tls'.transcript) => m \in Elements(tls.transcript)
    BY <1>2, <1>3, <1>4
  <2> QED BY <1>2, <1>4, <2>1, HeardStep
<1>8. Answered'
  <2>1. toServer' = "flight" => event # "error"
    BY <1>1, <1>2
  <2>2. Refuses' = Refuses
    BY Zenon DEF Refuses
  <2> QED BY <1>1, <1>2, <1>4, <2>1, <2>2, Zenon DEF Answered
<1>9. Done' /\ FALSE \notin tickets'
  BY <1>1, <1>2 DEF IInv, Done
<1> QED BY <1>6, <1>7, <1>8, <1>9 DEF IInv

(* An exception at a Finished.                                             *)
LEMMA ThrowKeeps ==
  ASSUME IInv, tls.messages # <<>>, Message = "SFIN", Throws(Without),
         wire' = wire, conf' = conf, UNCHANGED <<route, attempts, winner>>
  PROVE  IInv'
<1> DEFINE e == <<>>
           p == [Without EXCEPT !.messages = e, !.buf = e]
<1>1. event # "ready" /\ toServer \in {"", "CH1", "CH2", "flight"} /\ event \in {"none", "error", "ready"}
  BY MessageTaken DEF IInv, Types
<1>2. /\ tls' = p /\ toServer' = toServer /\ tickets' = tickets
      /\ \/ UNCHANGED <<event, socket>>
         \/ event' = "error" /\ socket' = "closed"
  BY <1>1 DEF Throws, Fails, Emitted
<1>3. e \in Seq(Names) /\ e \in Seq(RecordsOf) /\ e = <<>>
  BY NoElement
<1> HIDE DEF e
<1>4. /\ p \in Fields /\ p.transcript = tls.transcript /\ p.buf = e /\ p.messages = e
      /\ p.encHsBuf = tls.encHsBuf /\ p.tls12 = tls.tls12 /\ p.trusted = tls.trusted
      /\ p.earlyDataAccepted = tls.earlyDataAccepted /\ p.pskAccepted = tls.pskAccepted
  <2>1. Without \in Fields
    BY WithIs
  <2>2. /\ p \in Fields /\ p.buf = e /\ p.messages = e /\ p.transcript = Without.transcript
        /\ p.encHsBuf = Without.encHsBuf /\ p.tls12 = Without.tls12 /\ p.trusted = Without.trusted
        /\ p.earlyDataAccepted = Without.earlyDataAccepted /\ p.pskAccepted = Without.pskAccepted
    BY <1>3, <2>1 DEF Fields
  <2> HIDE DEF p
  <2> QED BY <2>2, WithIs
<1> HIDE DEF p
<1>5. MessageDone
  BY <1>1, <1>2, <1>3, <1>4, MessageTaken DEF MessageDone, Lasts
<1>6. event' # "ready" /\ (event' # "error" => event # "error")
  BY <1>1, <1>2
<1>7. Heard(tls.transcript)'
  BY <1>2, <1>4, <1>6, HeardStep
<1> QED BY <1>2, <1>5, <1>6, <1>7, Unready

(* The client finishes the handshake, and is ready unless it has failed.   *)
LEMMA CompletionKeeps ==
  ASSUME IInv, tls.messages # <<>>, Message = "SFIN",
         NEW t \in Fields, NEW next \in {"", "flight"}, Complete(t, next),
         next = "flight" <=> ~tls.tls12,
         t.buf = tls.buf, t.messages = Others, t.encHsBuf = tls.encHsBuf, t.tls12 = tls.tls12,
         t.trusted = tls.trusted, t.pskAccepted = tls.pskAccepted,
         t.earlyDataAccepted = tls.earlyDataAccepted, t.transcript # <<>>,
         \A m \in {"EE", "SH", "CERT"} : m \in Elements(t.transcript) => m \in Elements(tls.transcript),
         event = "none" => /\ t.transcript = SrvTranscript
                           /\ conf.verifyTLS => tls.trusted \/ tls.pskAccepted
                           /\ conf.early => t.replayed = ~conf.takesEarly,
         wire' = wire, conf' = conf, UNCHANGED <<route, attempts, winner>>
  PROVE  IInv'
<1>1. /\ event # "ready" /\ toServer \in {"", "CH1", "CH2", "flight"} /\ event \in {"none", "error", "ready"}
      /\ ~Refuses
      /\ event = "error" => socket # "open" /\ toServer # "flight"
      /\ event # "error" => toServer = ""
  BY MessageTaken DEF IInv, Types, DialOK, Answered
<1>2. IF tls.tls12 THEN conf.version = 12 ELSE conf.version = 13
  BY MessageTaken, Zenon
<1>3. /\ tls' = t /\ UNCHANGED <<socket, tickets>>
      /\ \/ event = "none" /\ event' = "ready"
         \/ event = "error" /\ event' = "error"
      /\ toServer' = IF socket = "open" THEN next ELSE toServer
  BY <1>1 DEF Complete, Emitted
<1>4. MessageDone
  BY <1>1, <1>3, MessageTaken DEF MessageDone, Lasts
<1>5. Types' /\ Begun' /\ DialOK' /\ TakeTurns' /\ RecordsFit' /\ MessagesFit'
  BY <1>4, AfterMessage
<1>6. event' # "error" => event = "none"
  BY <1>3
<1>7. Heard(tls.transcript)'
  BY <1>3, <1>6, HeardStep
<1>8. Answered'
  <2> SUFFICES ASSUME toServer' = "flight" PROVE Answered'
    BY DEF Answered
  <2>1. event = "none" /\ event' = "ready" /\ next = "flight"
    BY <1>1, <1>3
  <2>2. Refuses' = Refuses
    BY Zenon DEF Refuses
  <2>3. ~tls.tls12 /\ conf.version = 13
    BY <1>2, <2>1
  <2> QED BY <1>1, <1>3, <2>1, <2>2, <2>3, Zenon DEF Answered
<1>9. Done'
  <2> SUFFICES ASSUME event' = "ready" PROVE Done'
    BY DEF Done
  <2>1. event = "none"
    BY <1>3
  <2>2. toServer' = "" \/ (toServer' = "flight" /\ ~tls.tls12)
    BY <1>1, <1>3, <2>1
  <2> QED BY <1>3, <2>1, <2>2, SameScript, Zenon DEF Done
<1>10. FALSE \notin tickets'
  BY <1>3 DEF IInv
<1> QED BY <1>5, <1>7, <1>8, <1>9, <1>10 DEF IInv

LEMMA Finished12Keeps ==
  ASSUME IInv, tls.messages # <<>>, tls.tls12, Message = "SFIN", ServerFinished12(With, Without),
         wire' = wire, conf' = conf, UNCHANGED <<route, attempts, winner>>
  PROVE  IInv'
<1>1. CASE ~(~conf.finishedOk \/ Without.transcript # Before("SFIN"))
  <2>1. Complete(With, "") /\ Without.transcript = Before("SFIN")
    BY <1>1, Zenon DEF ServerFinished12
  <2>2. /\ conf \in Confs /\ ~Refuses /\ conf.version = 12 /\ (event # "error" => event = "none")
    <3>1. event \in {"none", "error", "ready"} /\ event # "ready" /\ conf \in Confs /\ ~Refuses
      BY MessageTaken DEF IInv, Types
    <3>2. conf.version = 12
      BY MessageTaken, Zenon
    <3> QED BY <3>1, <3>2
  <2>3. tls.transcript = UpToFinished12
    BY <2>1, <2>2, Script12, WithIs, Zenon
  <2>4. With.transcript = SrvTranscript
    <3>1. UpToFinished12 \in Seq(Names) /\ "SFIN" \in Names
      BY <2>2, Script12 DEF Names
    <3>2. Append(UpToFinished12, "SFIN") = UpToFinished12 \o <<"SFIN">>
      BY <3>1, AppendIsConcat, Zenon
    <3> QED BY <2>2, <2>3, <3>2, Script12, WithIs, Zenon
  <2>5. event = "none" /\ conf.verifyTLS => tls.trusted
    <3>1. "CERT" \in Elements(tls.transcript)
      BY <2>2, <2>3, Script12
    <3> QED BY <3>1 DEF IInv, Heard
  <2>6. ~conf.early
    BY <2>2, Zenon DEF Refuses
  <2>7. \A m \in {"EE", "SH", "CERT"} : m \in Elements(With.transcript) => m \in Elements(tls.transcript)
    <3>1. Elements(With.transcript) = Elements(tls.transcript) \cup {"SFIN"}
      BY WithIs
    <3> QED BY <3>1
  <2> DEFINE next == ""
  <2>8. next \in {"", "flight"} /\ (next = "flight" <=> ~tls.tls12) /\ Complete(With, next)
    BY <2>1
  <2>9. event = "none" => /\ With.transcript = SrvTranscript
                          /\ conf.verifyTLS => tls.trusted \/ tls.pskAccepted
                          /\ conf.early => With.replayed = ~conf.takesEarly
    BY <2>4, <2>5, <2>6, Zenon
  <2> HIDE DEF next
  <2> QED BY <2>7, <2>8, <2>9, WithIs, CompletionKeeps
<1>2. CASE ~conf.finishedOk \/ Without.transcript # Before("SFIN")
  <2>1. tls' = With /\ Fails /\ toServer' = toServer /\ tickets' = tickets
    BY <1>2, Zenon DEF ServerFinished12
  <2> QED BY <2>1, MessageKeeps
<1> QED BY <1>1, <1>2

LEMMA Finished13Keeps ==
  ASSUME IInv, tls.messages # <<>>, ~tls.tls12, Message = "SFIN", ServerFinished(With, Without),
         wire' = wire, conf' = conf, UNCHANGED <<route, attempts, winner>>
  PROVE  IInv'
<1>1. CASE ~conf.finishedOk \/ Without.transcript # Before("SFIN")
  <2>1. Throws(Without)
    BY <1>1, Zenon DEF ServerFinished
  <2> QED BY <2>1, ThrowKeeps
<1>2. CASE ~(~conf.finishedOk \/ Without.transcript # Before("SFIN"))
  <2> DEFINE tr == ClientFinished(With)
             last == IF With.earlyDataAccepted THEN <<"EOED">> ELSE <<>>
             fin == <<"CFIN">>
  <2>1. Without.transcript = Before("SFIN")
    BY <1>2, Zenon
  <2>2. /\ conf \in Confs /\ conf.version = 13 /\ (event # "error" => event = "none")
    <3>1. event \in {"none", "error", "ready"} /\ event # "ready" /\ conf \in Confs
      BY MessageTaken DEF IInv, Types
    <3>2. conf.version = 13
      BY MessageTaken, Zenon
    <3> QED BY <3>1, <3>2
  <2>3. PICK again \in BOOLEAN : again = Replays(With)
    BY Zenon DEF Replays
  <2> DEFINE p == [With EXCEPT !.transcript = tr, !.replayed = again]
  <2>4. Complete(p, "flight")
    BY <1>2, <2>3, Zenon DEF ServerFinished
  <2>5. tls.transcript = UpToFinished13
    BY <2>1, <2>2, Script13, WithIs, Zenon
  <2>6. /\ UpToFinished13 \in Seq(Names)
        /\ "EE" \in Elements(tls.transcript) /\ "SH" \in Elements(tls.transcript)
        /\ ~conf.takesPsk => "CERT" \in Elements(tls.transcript)
        /\ SrvTranscript = (UpToFinished13 \o <<"SFIN">>) \o (EarlyEnd \o fin)
    BY <2>2, <2>5, Script13
  <2>7. With.earlyDataAccepted = conf.takesEarly /\ last = EarlyEnd
    <3>1. tls.earlyDataAccepted = conf.takesEarly
      BY <2>6 DEF IInv, Heard
    <3>2. With.earlyDataAccepted = conf.takesEarly
      BY <3>1, WithIs, Zenon
    <3> QED BY <3>2, Zenon DEF EarlyEnd
  <2>8. {"SFIN", "EOED", "CFIN"} \subseteq Names
    BY DEF Names
  <2>9. /\ EarlyEnd \in Seq(Names) /\ Elements(EarlyEnd) \subseteq {"EOED"}
        /\ fin \in Seq(Names) /\ Elements(fin) = {"CFIN"}
    BY <2>2, <2>8, PartsOf13
  <2>10. tr = (With.transcript \o last) \o fin
    BY Zenon DEF ClientFinished
  <2> DEFINE q == With.transcript
  <2>11. q \in Seq(Names) /\ Elements(q) = Elements(tls.transcript) \cup {"SFIN"}
    BY WithIs
  <2>12. q = UpToFinished13 \o <<"SFIN">>
    <3>1. Append(UpToFinished13, "SFIN") = UpToFinished13 \o <<"SFIN">>
      BY <2>6, <2>8, AppendIsConcat, Zenon
    <3> QED BY <2>5, <3>1, WithIs, Zenon
  <2>13. tr = (q \o EarlyEnd) \o fin
    BY <2>7, <2>10, Zenon
  <2> HIDE DEF q, fin, tr
  <2>14. q \o EarlyEnd \in Seq(Names) /\ Elements(q \o EarlyEnd) = Elements(q) \cup Elements(EarlyEnd)
    BY <2>9, <2>11, NamesConcat, Zenon
  <2>15. tr \in Seq(Names) /\ Elements(tr) = (Elements(q) \cup Elements(EarlyEnd)) \cup {"CFIN"}
    <3> DEFINE d == q \o EarlyEnd
    <3>1. d \in Seq(Names) /\ Elements(d) = Elements(q) \cup Elements(EarlyEnd) /\ tr = d \o fin
      BY <2>13, <2>14, Zenon
    <3> HIDE DEF d
    <3>2. d \o fin \in Seq(Names) /\ Elements(d \o fin) = Elements(d) \cup Elements(fin)
      BY <2>9, <3>1, NamesConcat, Zenon
    <3> QED BY <2>9, <3>1, <3>2, Zenon
  <2>16. tr = SrvTranscript
    <3>1. Associates(q, EarlyEnd, fin)
      BY <2>9, <2>11, Associate
    <3> QED BY <2>6, <2>12, <2>13, <3>1, Zenon DEF Associates
  <2>17. \A m \in {"EE", "SH", "CERT"} : m \in Elements(tr) => m \in Elements(tls.transcript)
    BY <2>9, <2>11, <2>15
  <2>18. tr # <<>>
    BY <2>15, NoElement
  <2>19. event = "none" /\ conf.verifyTLS => tls.trusted \/ tls.pskAccepted
    <3>1. tls.pskAccepted = conf.takesPsk
      BY <2>2, <2>6 DEF IInv, Heard
    <3>2. event = "none" /\ conf.verifyTLS /\ ~conf.takesPsk => tls.trusted
      BY <2>6 DEF IInv, Heard
    <3> QED BY <3>1, <3>2, Zenon
  <2>20. conf.early => again = ~conf.takesEarly
    BY <2>3, <2>7, Zenon DEF Replays
  <2>21. /\ p \in Fields /\ p.transcript = tr /\ p.replayed = again
         /\ p.buf = tls.buf /\ p.messages = Others
         /\ p.encHsBuf = tls.encHsBuf /\ p.tls12 = tls.tls12 /\ p.trusted = tls.trusted
         /\ p.earlyDataAccepted = tls.earlyDataAccepted /\ p.pskAccepted = tls.pskAccepted
    <3>1. With \in Fields
      BY WithIs
    <3>2. /\ p \in Fields /\ p.buf = With.buf /\ p.messages = With.messages /\ p.transcript = tr
          /\ p.encHsBuf = With.encHsBuf /\ p.tls12 = With.tls12 /\ p.trusted = With.trusted
          /\ p.earlyDataAccepted = With.earlyDataAccepted /\ p.pskAccepted = With.pskAccepted
          /\ p.replayed = again
      BY <2>15, <3>1 DEF Fields
    <3> HIDE DEF p
    <3> QED BY <3>2, WithIs
  <2> HIDE DEF p
  <2> DEFINE next == "flight"
  <2>22. next \in {"", "flight"} /\ (next = "flight" <=> ~tls.tls12) /\ Complete(p, next)
    BY <2>4
  <2>23. event = "none" => /\ p.transcript = SrvTranscript
                           /\ conf.verifyTLS => tls.trusted \/ tls.pskAccepted
                           /\ conf.early => p.replayed = ~conf.takesEarly
    BY <2>16, <2>19, <2>20, <2>21, Zenon
  <2>24. /\ p.transcript # <<>>
         /\ \A m \in {"EE", "SH", "CERT"} :
              m \in Elements(p.transcript) => m \in Elements(tls.transcript)
    BY <2>17, <2>18, <2>21
  <2> HIDE DEF next
  <2> QED BY <2>21, <2>22, <2>23, <2>24, CompletionKeeps
<1> QED BY <1>1, <1>2

LEMMA ParsedKeeps ==
  ASSUME IInv, ParseMessage
  PROVE  IInv'
<1> DEFINE Kept == wire' = wire /\ conf' = conf /\ UNCHANGED <<route, attempts, winner>>
<1>1. /\ tls.messages # <<>>
      /\ IF tls.tls12 THEN Message12(Message, With, Without) ELSE Message13(Message, With, Without)
  BY Zenon DEF ParseMessage, Message, Others, With, Without
<1>2. Kept
  BY DEF ParseMessage, DialKept
<1>3. conf \in Confs /\ tls.tls12 \in BOOLEAN
  BY FieldsAre DEF IInv, Types
<1>4. PICK v \in BOOLEAN : v = conf.verifyTLS
  BY <1>3, ConfIs
<1>5. PICK w \in BOOLEAN : w <=> conf.verifyTLS /\ conf.chainOk
  OBVIOUS
<1>6. With \in {With, Without} /\ Without \in {With, Without}
  OBVIOUS
<1>7. CASE ~tls.tls12
  <2>1. Message13(Message, With, Without)
    BY <1>1, <1>7, Zenon
  <2>2. CASE Message = "EE" /\ EncryptedExtensions(With)
    BY <1>1, <1>2, <2>2, ExtensionsKeep, Zenon
  <2>3. CASE Message = "CERT" /\ ServerCertificate(With)
    <3>1. Message \notin {"NST", "EE", "SH"}
      BY <2>3
    <3>2. CASE conf.verifyTLS /\ ~conf.chainOk
      <4>1. CertFail(With)
        BY <2>3, <3>2, Zenon DEF ServerCertificate
      <4> QED BY <1>1, <1>2, <1>6, <3>1, <4>1, CertFailKeeps, Zenon
    <3>3. CASE ~(conf.verifyTLS /\ ~conf.chainOk)
      <4>1. tls' = [With EXCEPT !.trusted = conf.verifyTLS] /\ Quiet /\ UNCHANGED <<toServer, tickets>>
        BY <2>3, <3>3, Zenon DEF ServerCertificate
      <4>2. tls' = [With EXCEPT !.trusted = v]
        BY <1>4, <4>1, Zenon
      <4>3. UNCHANGED <<event, socket>> /\ toServer' = toServer /\ tickets' = tickets
        BY <4>1 DEF Quiet
      <4>4. conf.verifyTLS => v
        BY <1>4
      <4> QED BY <1>1, <1>2, <2>3, <4>2, <4>3, <4>4, CertificateKeeps, Zenon
    <3> QED BY <3>2, <3>3, Zenon
  <2>4. CASE Message = "CV" /\ CertificateVerify(With, Without)
    <3>1. Message \notin {"NST", "EE", "SH"} /\ Message \notin {"NST", "EE", "SH", "CERT"}
      BY <2>4
    <3>2. CASE conf.verifyTLS /\ Without.transcript # Before("CV")
      <4>1. CertFail(Without)
        BY <2>4, <3>2, Zenon DEF CertificateVerify
      <4> QED BY <1>1, <1>2, <1>6, <3>1, <4>1, CertFailKeeps, Zenon
    <3>3. CASE ~(conf.verifyTLS /\ Without.transcript # Before("CV"))
      <4>1. tls' = With /\ Quiet /\ UNCHANGED <<toServer, tickets>>
        BY <2>4, <3>3, Zenon DEF CertificateVerify
      <4>2. UNCHANGED <<event, socket>> /\ toServer' = toServer /\ tickets' = tickets
        BY <4>1 DEF Quiet
      <4> QED BY <1>1, <1>2, <3>1, <4>1, <4>2, MessageKeeps, Zenon
    <3> QED BY <3>2, <3>3, Zenon
  <2>5. CASE Message = "SFIN" /\ ServerFinished(With, Without)
    BY <1>1, <1>2, <1>7, <2>5, Finished13Keeps, Zenon
  <2>6. CASE Message = "NST" /\ SessionTicket(Without)
    BY <1>1, <1>2, <2>6, TicketKeeps, Zenon
  <2> QED BY <2>1, <2>2, <2>3, <2>4, <2>5, <2>6, Zenon DEF Message13
<1>8. CASE tls.tls12
  <2>1. Message12(Message, With, Without)
    BY <1>1, <1>8, Zenon
  <2>2. CASE Message = "CERT" /\ Certificate12(With)
    <3>1. /\ tls' = [With EXCEPT !.trusted = conf.verifyTLS /\ conf.chainOk]
          /\ IF conf.verifyTLS /\ ~conf.chainOk THEN Fails ELSE Quiet
          /\ toServer' = toServer /\ tickets' = tickets
      BY <2>2, Zenon DEF Certificate12
    <3>2. w = (conf.verifyTLS /\ conf.chainOk)
      BY <1>3, <1>5, ConfIs
    <3>3. tls' = [With EXCEPT !.trusted = w]
      BY <3>1, <3>2, Zenon
    <3>4. (UNCHANGED <<event, socket>> /\ (conf.verifyTLS => w)) \/ Fails
      <4>1. CASE conf.verifyTLS /\ ~conf.chainOk
        BY <3>1, <4>1, Zenon
      <4>2. CASE ~(conf.verifyTLS /\ ~conf.chainOk)
        <5>1. Quiet
          BY <3>1, <4>2, Zenon
        <5>2. UNCHANGED <<event, socket>>
          BY <5>1 DEF Quiet
        <5>3. conf.verifyTLS => w
          BY <1>5, <4>2, Zenon
        <5> QED BY <5>2, <5>3, Zenon
      <4> QED BY <4>1, <4>2, Zenon
    <3> QED BY <1>1, <1>2, <2>2, <3>1, <3>3, <3>4, CertificateKeeps, Zenon
  <2>3. CASE Message = "SKE" /\ ServerKeyExchange12(With)
    <3>1. Message \notin {"NST", "EE", "SH", "CERT"}
      BY <2>3
    <3>2. tls' = With /\ UNCHANGED <<event, socket>> /\ toServer' = toServer /\ tickets' = tickets
      BY <2>3 DEF ServerKeyExchange12, Quiet
    <3> QED BY <1>1, <1>2, <3>1, <3>2, MessageKeeps, Zenon
  <2>4. CASE Message = "SHD" /\ ClientFlight12(With)
    BY <1>1, <1>2, <1>8, <2>4, FlightKeeps, Zenon
  <2>5. CASE Message = "SFIN" /\ ServerFinished12(With, Without)
    BY <1>1, <1>2, <1>8, <2>5, Finished12Keeps, Zenon
  <2> QED BY <2>1, <2>2, <2>3, <2>4, <2>5, Zenon DEF Message12
<1> QED BY <1>7, <1>8, Zenon

-----------------------------------------------------------------------------
(* The invariant, and what it is for.                                      *)

LEMMA StutterKeeps ==
  ASSUME IInv, UNCHANGED vars
  PROVE  IInv'
<1>1. tls' = tls /\ UNCHANGED <<dialVars, conf, wire, toServer, tickets>>
  BY DEF vars
<1>2. tls' \in Fields
  BY <1>1 DEF IInv, Types
<1>3. /\ tls'.transcript = tls.transcript /\ tls'.buf = tls.buf /\ tls'.messages = tls.messages
      /\ tls'.encHsBuf = tls.encHsBuf /\ tls'.tls12 = tls.tls12 /\ tls'.trusted = tls.trusted
      /\ tls'.pskAccepted = tls.pskAccepted /\ tls'.replayed = tls.replayed
      /\ tls'.earlyDataAccepted = tls.earlyDataAccepted
  BY <1>1, Zenon
<1> QED BY <1>1, <1>2, <1>3, OtherFields, Zenon

LEMMA StepKeeps ==
  ASSUME IInv, [Next]_vars
  PROVE  IInv'
<1>1. CASE UNCHANGED vars
  BY <1>1, StutterKeeps
<1>2. CASE Dialled
  BY <1>2, DialKeeps
<1>3. CASE Client
  <2>1. CASE ClientHello
    BY <2>1, HelloKeeps
  <2>2. CASE ParseRecord
    BY <2>2, RecordKeeps
  <2>3. CASE ParseMessage
    BY <2>3, ParsedKeeps
  <2>4. CASE Decapsulate
    BY <2>4, DecapsulateKeeps
  <2>5. CASE \E n \in 1 .. Len(wire) : RecordsArrive(n)
    BY <2>5, ArrivalKeeps
  <2> QED BY <1>3, <2>1, <2>2, <2>3, <2>4, <2>5, Zenon DEF Client
<1>4. CASE Server
  <2>1. CASE SrvRetries
    BY <2>1, RetryKeeps
  <2>2. CASE SrvHello13
    BY <2>2, Hello13Keeps
  <2>3. CASE SrvHello12
    BY <2>3, Hello12Keeps
  <2>4. CASE SrvAlert
    BY <2>4, AlertKeeps
  <2>5. CASE SrvFinishes
    BY <2>5, FinishKeeps
  <2> QED BY <1>4, <2>1, <2>2, <2>3, <2>4, <2>5, Zenon DEF Server
<1>5. CASE PeerLeaves
  BY <1>5, LeavingKeeps
<1> QED BY <1>1, <1>2, <1>3, <1>4, <1>5, Zenon DEF Next

LEMMA InvariantIsSound ==
  ASSUME IInv
  PROVE  ReadyIsSound
<1>1. Done /\ OneSocketKept /\ FALSE \notin tickets
  BY DEF IInv, DialOK
<1> QED BY <1>1, Zenon DEF Done, ReadyIsSound

\* The fields of TLS, the records under way and the options stay of their kinds.
\* The dial leaves no socket open but the winner's, reports a failure only when
\* every address has failed, and after an error the socket is not open
\* (happy-eyeballs.js 81-103, tls.js 290-310 and 380-405).
THEOREM ConnectTypes == Spec => [](Types /\ DialOK)
<1>1. Init => IInv
  BY InitHolds
<1>2. IInv /\ [Next]_vars => IInv'
  BY StepKeeps
<1>3. IInv => Types /\ DialOK
  BY DEF IInv
<1> QED BY <1>1, <1>2, <1>3, PTL DEF Spec

\* For any number of addresses and any server that keeps the RFCs but for its
\* chain and its Finished: a connection that is reported ready has the server's
\* handshake, a chain that was validated unless it need not be, and early data
\* that the server takes once; every ticket in the cache resumes that handshake;
\* and no dial but the winner's leaves a socket open (tls.js 400-475, 560-690 and
\* 900-930, tls12.js 140-300, happy-eyeballs.js).
THEOREM HandshakeIsSound == Spec => []ReadyIsSound
<1>1. Init => IInv
  BY InitHolds
<1>2. IInv /\ [Next]_vars => IInv'
  BY StepKeeps
<1>3. IInv => ReadyIsSound
  BY InvariantIsSound
<1> QED BY <1>1, <1>2, <1>3, PTL DEF Spec
=============================================================================
