-------------------------- MODULE H2SessionProofs --------------------------
(***************************************************************************)
(* Theorems about an HTTP/2 session, for any number of streams, lengths,   *)
(* windows and thresholds.                                                 *)
(***************************************************************************)
EXTENDS H2Session, FiniteSetTheorems, SequenceTheorems, TLAPS

-----------------------------------------------------------------------------
(***************************************************************************)
(* Units under way.                                                        *)
(***************************************************************************)
Weight(f, type, ids) == IF f.type = type /\ f.s \in ids THEN f.n ELSE 0

LEMMA FrameTypes ==
  ASSUME NEW f \in Frame
  PROVE  /\ f.s \in 0 .. MaxStreams /\ f.n \in Nat /\ f.pad \in Nat /\ f.from \in Nat
         /\ f.end \in BOOLEAN /\ f.fin \in BOOLEAN /\ f.block \in Nat
         /\ f.type \in {"HEADERS", "CONTINUATION", "DATA", "RST_STREAM",
                        "WINDOW_UPDATE", "GOAWAY", "BAD"}
BY DEF Frame

LEMMA UnderWayEmpty ==
  ASSUME NEW type, NEW ids
  PROVE  UnderWay(<<>>, type, ids) = 0
<1>1. Units(<<>>, type, ids) = {}
  BY DEF Units
<1> QED BY <1>1, FS_EmptySet DEF UnderWay

LEMMA UnitsOfOne ==
  ASSUME NEW f, f.n \in Nat, NEW type, NEW ids
  PROVE  /\ IsFiniteSet(Units(<<f>>, type, ids))
         /\ UnderWay(<<f>>, type, ids) = Weight(f, type, ids)
<1>1. CASE f.type = type /\ f.s \in ids
  <2>1. Units(<<f>>, type, ids) = {1} \X (1 .. f.n)
    BY <1>1 DEF Units
  <2>2. IsFiniteSet({1}) /\ Cardinality({1}) = 1
    BY FS_Singleton
  <2>3. IsFiniteSet(1 .. f.n) /\ Cardinality(1 .. f.n) = f.n
    BY FS_Interval
  <2>4. Cardinality({1} \X (1 .. f.n)) = Cardinality({1}) * Cardinality(1 .. f.n)
          /\ IsFiniteSet({1} \X (1 .. f.n))
    BY <2>2, <2>3, FS_Product, Zenon
  <2>5. Cardinality({1}) * Cardinality(1 .. f.n) = f.n
    BY <2>2, <2>3
  <2> QED BY <1>1, <2>1, <2>4, <2>5, Zenon DEF UnderWay, Weight
<1>2. CASE ~(f.type = type /\ f.s \in ids)
  <2>1. Units(<<f>>, type, ids) = {}
    BY <1>2 DEF Units
  <2> QED BY <1>2, <2>1, FS_EmptySet DEF UnderWay, Weight
<1> QED BY <1>1, <1>2

LEMMA UnderWayNat ==
  ASSUME NEW q \in Seq(Frame), NEW type, NEW ids
  PROVE  IsFiniteSet(Units(q, type, ids)) /\ UnderWay(q, type, ids) \in Nat
<1> DEFINE I == {j \in DOMAIN q : q[j].type = type /\ q[j].s \in ids}
           part(i) == {i} \X (1 .. q[i].n)
           Parts == {part(i) : i \in I}
<1>1. IsFiniteSet(I)
  <2>1. DOMAIN q = 1 .. Len(q) /\ Len(q) \in Nat
    OBVIOUS
  <2>2. IsFiniteSet(1 .. Len(q))
    BY <2>1, FS_Interval
  <2>3. I \subseteq 1 .. Len(q)
    BY <2>1
  <2> QED BY <2>2, <2>3, FS_Subset
<1>2. IsFiniteSet(Parts)
  <2> DEFINE f == [i \in I |-> part(i)]
  <2>1. f \in Surjection(I, Parts)
    BY DEF Surjection
  <2> QED BY <1>1, <2>1, FS_Surjection
<1>3. ASSUME NEW i \in I PROVE IsFiniteSet(part(i))
  <2>1. q[i] \in Frame
    OBVIOUS
  <2>2. IsFiniteSet(1 .. q[i].n)
    <3>1. q[i].n \in Nat
      BY <2>1, FrameTypes
    <3> QED BY <3>1, FS_Interval
  <2>3. IsFiniteSet({i})
    BY FS_Singleton
  <2> QED BY <2>2, <2>3, FS_Product
<1>4. IsFiniteSet(UNION Parts)
  BY <1>2, <1>3, FS_UNION
<1>5. Units(q, type, ids) = UNION Parts
  BY DEF Units
<1> QED BY <1>4, <1>5, FS_CardinalityType DEF UnderWay

LEMMA UnderWayConcat ==
  ASSUME NEW q \in Seq(Frame), NEW r \in Seq(Frame), NEW type, NEW ids
  PROVE  UnderWay(q \o r, type, ids) = UnderWay(q, type, ids) + UnderWay(r, type, ids)
<1> DEFINE n == Len(q)
           A == Units(q, type, ids)
           B == Units(r, type, ids)
           C == {<<b[1] + n, b[2]>> : b \in B}
<1>1. n \in Nat /\ Len(r) \in Nat /\ DOMAIN q = 1 .. n /\ DOMAIN r = 1 .. Len(r)
  OBVIOUS
<1>2. /\ DOMAIN (q \o r) = 1 .. (n + Len(r))
      /\ \A i \in 1 .. n : (q \o r)[i] = q[i]
      /\ \A i \in 1 .. Len(r) : (q \o r)[i + n] = r[i]
  BY <1>1
<1>3. A = {a \in (1 .. n) \X Nat : q[a[1]].type = type /\ q[a[1]].s \in ids
                                     /\ a[2] \in 1 .. q[a[1]].n}
  <2>1. \A i \in 1 .. n : 1 .. q[i].n \subseteq Nat
    OBVIOUS
  <2> QED BY <1>1, <2>1 DEF Units
<1>4. B = {a \in (1 .. Len(r)) \X Nat : r[a[1]].type = type /\ r[a[1]].s \in ids
                                     /\ a[2] \in 1 .. r[a[1]].n}
  <2>1. \A i \in 1 .. Len(r) : 1 .. r[i].n \subseteq Nat
    OBVIOUS
  <2> QED BY <1>1, <2>1 DEF Units
<1> DEFINE W == {a \in (1 .. (n + Len(r))) \X Nat :
                   (q \o r)[a[1]].type = type /\ (q \o r)[a[1]].s \in ids
                     /\ a[2] \in 1 .. (q \o r)[a[1]].n}
<1>5. Units(q \o r, type, ids) = W
  <2>1. \A i \in DOMAIN (q \o r) : 1 .. (q \o r)[i].n \subseteq Nat
    OBVIOUS
  <2> QED BY <1>2, <2>1 DEF Units
<1>6. W = A \cup C
  <2>1. ASSUME NEW w \in W PROVE w \in A \cup C
    <3>1. PICK i \in 1 .. (n + Len(r)), u \in Nat : w = <<i, u>>
      OBVIOUS
    <3>2. CASE i <= n
      BY <1>1, <1>2, <1>3, <3>1, <3>2
    <3>3. CASE i > n
      <4>1. i - n \in 1 .. Len(r) /\ (i - n) + n = i
        BY <1>1, <3>3
      <4>2. (q \o r)[i] = r[i - n]
        BY <1>2, <4>1
      <4>3. <<i - n, u>> \in B
        BY <1>4, <3>1, <4>1, <4>2
      <4>4. <<i - n, u>>[1] = i - n /\ <<i - n, u>>[2] = u
        OBVIOUS
      <4>5. <<(i - n) + n, u>> \in C
        BY <4>3, <4>4
      <4> QED BY <3>1, <4>1, <4>5
    <3> QED BY <1>1, <3>2, <3>3
  <2>2. A \subseteq W
    <3>1. 1 .. n \subseteq 1 .. (n + Len(r))
      BY <1>1
    <3> QED BY <1>2, <1>3, <3>1
  <2>3. ASSUME NEW b \in B PROVE <<b[1] + n, b[2]>> \in W
    <3>1. b[1] \in 1 .. Len(r) /\ b[2] \in Nat /\ b[1] + n \in 1 .. (n + Len(r))
      BY <1>1, <1>4
    <3>2. (q \o r)[b[1] + n] = r[b[1]]
      BY <1>2, <3>1
    <3> QED BY <1>4, <3>1, <3>2
  <2> QED BY <2>1, <2>2, <2>3
<1>7. A \cap C = {}
  <2> SUFFICES ASSUME NEW a \in A, a \in C PROVE FALSE
    OBVIOUS
  <2>1. PICK b \in B : a = <<b[1] + n, b[2]>>
    OBVIOUS
  <2>2. a[1] \in 1 .. n /\ b[1] \in 1 .. Len(r) /\ a[1] = b[1] + n
    BY <1>3, <1>4, <2>1
  <2> QED BY <1>1, <2>2
<1>8. IsFiniteSet(C) /\ Cardinality(C) = Cardinality(B)
  <2> DEFINE f == [b \in B |-> <<b[1] + n, b[2]>>]
  <2>1. f \in Surjection(B, C)
    BY DEF Surjection
  <2>2. f \in Injection(B, C)
    <3>1. ASSUME NEW a \in B, NEW b \in B, f[a] = f[b] PROVE a = b
      <4>1. /\ a = <<a[1], a[2]>> /\ b = <<b[1], b[2]>>
            /\ a[1] \in Nat /\ b[1] \in Nat
        BY <1>1, <1>4
      <4>2. a[1] + n = b[1] + n /\ a[2] = b[2]
        BY <3>1
      <4> QED BY <1>1, <4>1, <4>2
    <3> QED BY <3>1 DEF Injection, IsInjective
  <2> QED BY <2>1, <2>2, UnderWayNat, FS_Surjection
<1>9. IsFiniteSet(A) /\ Cardinality(A) \in Nat /\ Cardinality(B) \in Nat
  BY UnderWayNat DEF UnderWay
<1>10. Cardinality(A \cup C) = Cardinality(A) + Cardinality(B)
  <2> HIDE DEF A, B, C
  <2>1. Cardinality(A \cup C) = Cardinality(A) + Cardinality(C) - Cardinality(A \cap C)
    BY <1>8, <1>9, FS_Union
  <2>2. Cardinality(A \cap C) = 0
    BY <1>7, FS_EmptySet
  <2> QED BY <1>8, <1>9, <2>1, <2>2
<1> QED BY <1>5, <1>6, <1>10 DEF UnderWay

LEMMA UnderWayTail ==
  ASSUME NEW q \in Seq(Frame), q # <<>>, NEW type, NEW ids
  PROVE  UnderWay(q, type, ids) = Weight(Head(q), type, ids) + UnderWay(Tail(q), type, ids)
<1>1. Head(q) \in Frame /\ Tail(q) \in Seq(Frame) /\ q = <<Head(q)>> \o Tail(q)
  OBVIOUS
<1>2. PICK f, t, h : f = Head(q) /\ t = Tail(q) /\ h = <<f>>
  OBVIOUS
<1>3. h \in Seq(Frame) /\ t \in Seq(Frame) /\ f.n \in Nat
  BY <1>1, <1>2, FrameTypes
<1>4. UnderWay(h \o t, type, ids) = UnderWay(h, type, ids) + UnderWay(t, type, ids)
  BY <1>3, UnderWayConcat
<1>5. UnderWay(h, type, ids) = Weight(f, type, ids)
  BY <1>2, <1>3, UnitsOfOne
<1> QED BY <1>1, <1>2, <1>4, <1>5

-----------------------------------------------------------------------------
(***************************************************************************)
(* Types.  The frames of a queue are of streams that have been requested.  *)
(***************************************************************************)
Upward ==
  {f \in Frame : /\ f.type \in {"HEADERS", "DATA", "RST_STREAM", "WINDOW_UPDATE"}
                 /\ f.type # "WINDOW_UPDATE" => f.s # 0
                 /\ f.s # 0 => stream[f.s].phase # "idle"}

Downward ==
  {f \in Frame : /\ f.type \notin {"WINDOW_UPDATE", "GOAWAY", "BAD"} => f.s # 0
                 /\ f.s # 0 => stream[f.s].phase # "idle"}

Sound ==
  /\ TypeOK
  /\ toServer \in Seq(Upward) /\ toClient \in Seq(Downward)
  /\ \A s \in Streams :
       /\ srv[s].seen => stream[s].phase # "idle"
       /\ srv[s].answered => srv[s].seen
       /\ srv[s].left > 0 => srv[s].answered /\ ~srv[s].reset

(* No stream is asked for twice.                                           *)
Forward == \A s \in Streams : stream[s].phase # "idle" => stream'[s].phase # "idle"

LEMMA SeqWiden ==
  ASSUME NEW S, NEW T, S \subseteq T, NEW q \in Seq(S)
  PROVE  q \in Seq(T)
<1>1. q \in [1 .. Len(q) -> T] /\ Len(q) \in Nat
  OBVIOUS
<1> QED BY <1>1

LEMMA QueuesFollow ==
  ASSUME Sound, Forward
  PROVE  /\ Upward \subseteq Upward' /\ Downward \subseteq Downward'
         /\ toServer \in Seq(Upward') /\ toClient \in Seq(Downward')
         /\ toClient # <<>> => Tail(toClient) \in Seq(Downward')
         /\ toServer # <<>> => Tail(toServer) \in Seq(Upward')
<1>1. ASSUME NEW f \in Frame, f.s # 0, stream[f.s].phase # "idle"
      PROVE  stream'[f.s].phase # "idle"
  BY <1>1, FrameTypes DEF Forward, Streams
<1>2. Upward \subseteq Upward' /\ Downward \subseteq Downward'
  BY <1>1 DEF Upward, Downward
<1> HIDE DEF Upward, Downward
<1>3. toServer \in Seq(Upward) /\ toClient \in Seq(Downward)
  BY DEF Sound
<1>4. toServer # <<>> => Tail(toServer) \in Seq(Upward)
  BY <1>3
<1>5. toClient # <<>> => Tail(toClient) \in Seq(Downward)
  BY <1>3
<1> QED BY <1>2, <1>3, <1>4, <1>5, SeqWiden

LEMMA HeadTypes ==
  ASSUME Sound
  PROVE  /\ toClient # <<>> =>
              /\ Head(toClient) \in Downward /\ Head(toClient) \in Frame
              /\ Head(toClient).type \notin {"WINDOW_UPDATE", "GOAWAY", "BAD"} =>
                   Head(toClient).s \in Streams
         /\ toServer # <<>> =>
              /\ Head(toServer) \in Upward /\ Head(toServer) \in Frame
              /\ Head(toServer).type # "WINDOW_UPDATE" => Head(toServer).s \in Streams
<1>1. toClient # <<>> => Head(toClient) \in Downward
  BY DEF Sound
<1>2. toServer # <<>> => Head(toServer) \in Upward
  BY DEF Sound
<1> QED BY <1>1, <1>2, FrameTypes DEF Upward, Downward, Streams

LEMMA FrTypes ==
  ASSUME NEW type \in {"HEADERS", "CONTINUATION", "DATA", "RST_STREAM",
                      "WINDOW_UPDATE", "GOAWAY", "BAD"}, NEW s \in 0 .. MaxStreams
  PROVE  Fr(type, s) \in Frame
BY DEF Fr, Frame

LEMMA TakeBounds ==
  ASSUME sess \in Session, NEW st \in Stream, NEW n \in Nat
  PROVE  /\ Take(st, n) \in Nat /\ Take(st, n) <= n /\ Take(st, n) <= sess.connSend
         /\ st.phase = "open" => Take(st, n) <= st.sendWindow
BY DEF Session, Stream, Take, Min2

LEMMA SpentTypes ==
  ASSUME sess \in Session, NEW st \in Stream, NEW n \in Nat
  PROVE  Spent(st, n) \in Stream /\ Spent(st, n).phase = st.phase
<1>1. PICK t \in Nat : t = Take(st, n) /\ (st.phase = "open" => t <= st.sendWindow)
  BY TakeBounds
<1>2. PICK w \in Nat : w = IF st.phase = "open" THEN st.sendWindow - t ELSE st.sendWindow
  BY <1>1 DEF Stream
<1>3. PICK o \in Nat : o = st.offered + n
  BY DEF Stream
<1>4. Spent(st, n) = [st EXCEPT !.sendWindow = w, !.offered = o, !.wrote = TRUE]
  BY <1>1, <1>2, <1>3 DEF Spent
<1> QED BY <1>4 DEF Stream

LEMMA DataFramesTypes ==
  ASSUME sess \in Session, NEW st \in Stream, NEW n \in Nat, NEW s \in Streams,
         NEW end \in BOOLEAN
  PROVE  /\ DataFrames(s, st, n, end) \in Seq(Frame)
         /\ DataFrames(s, st, n, end) = <<>> \/
             \E f \in Frame : /\ DataFrames(s, st, n, end) = <<f>>
                             /\ f.type = "DATA" /\ f.s = s /\ f.n = Take(st, n)
                             /\ f.from = st.offered /\ (f.end <=> end /\ Take(st, n) = n)
         /\ DataFrames(s, st, n, end) = <<>> => Take(st, n) = 0 /\ ~(n = 0 /\ end)
<1>1. PICK t \in Nat : t = Take(st, n)
  BY TakeBounds
<1>2. PICK e \in BOOLEAN : e = (end /\ t = n)
  BY Zenon
<1>3. PICK f : f = [Fr("DATA", s) EXCEPT !.n = t, !.from = st.offered, !.end = e]
  OBVIOUS
<1>4. f \in Frame /\ f.type = "DATA" /\ f.s = s /\ f.n = t /\ f.from = st.offered /\ f.end = e
  <2>1. f = [type |-> "DATA", s |-> s, n |-> t, pad |-> 0, from |-> st.offered,
             end |-> e, fin |-> TRUE, block |-> 0]
    BY <1>3 DEF Fr
  <2>2. st.offered \in Nat /\ s \in 0 .. MaxStreams
    BY H2Assumption DEF Stream, Streams
  <2> QED BY <2>1, <2>2 DEF Frame
<1>5. f.end <=> end /\ t = n
  BY <1>2, <1>4
<1>6. DataFrames(s, st, n, end) = IF t > 0 \/ (n = 0 /\ end) THEN <<f>> ELSE <<>>
  BY <1>1, <1>2, <1>3 DEF DataFrames
<1> QED BY <1>1, <1>4, <1>5, <1>6

(* Frames that are sent and received keep the queues of their kinds.       *)
LEMMA SentTypes ==
  ASSUME Sound, Forward, NEW fs \in Seq(Frame), Sent(fs),
         \A i \in 1 .. Len(fs) :
           /\ fs[i].type \in {"HEADERS", "DATA", "RST_STREAM", "WINDOW_UPDATE"}
           /\ fs[i].type # "WINDOW_UPDATE" => fs[i].s # 0
           /\ fs[i].s # 0 => stream'[fs[i].s].phase # "idle"
  PROVE  toServer' \in Seq(Frame) /\ toServer' \in Seq(Upward')
<1>1. \A i \in 1 .. Len(fs) : fs[i] \in Upward'
  BY DEF Upward
<1>2. fs \in Seq(Upward')
  <2>1. fs \in [1 .. Len(fs) -> Upward'] /\ Len(fs) \in Nat
    BY <1>1
  <2> QED BY <2>1
<1> HIDE DEF Upward
<1>3. toServer \in Seq(Upward')
  BY QueuesFollow
<1>4. toServer' \in Seq(Upward')
  BY <1>2, <1>3 DEF Sent
<1>5. Upward' \subseteq Frame
  BY DEF Upward
<1> QED BY <1>4, <1>5, SeqWiden

LEMMA ToClientTypes ==
  ASSUME Sound, Forward, toClient' \in Seq(Downward')
  PROVE  toClient' \in Seq(Frame)
<1>1. Downward' \subseteq Frame
  BY DEF Downward
<1> HIDE DEF Downward
<1> QED BY <1>1, SeqWiden

LEMMA AddedTypes ==
  ASSUME Sound, Forward, NEW fs \in Seq(Frame), toClient' = toClient \o fs,
         \A i \in 1 .. Len(fs) :
           /\ fs[i].type \notin {"WINDOW_UPDATE", "GOAWAY", "BAD"} => fs[i].s # 0
           /\ fs[i].s # 0 => stream'[fs[i].s].phase # "idle"
  PROVE  toClient' \in Seq(Frame) /\ toClient' \in Seq(Downward')
<1>1. \A i \in 1 .. Len(fs) : fs[i] \in Downward'
  BY DEF Downward
<1>2. fs \in Seq(Downward')
  <2>1. fs \in [1 .. Len(fs) -> Downward'] /\ Len(fs) \in Nat
    BY <1>1
  <2> QED BY <2>1
<1> HIDE DEF Downward
<1>3. toClient \in Seq(Downward')
  BY QueuesFollow
<1>4. toClient' \in Seq(Downward')
  BY <1>2, <1>3
<1> QED BY <1>4, ToClientTypes

(* A step of the client: it changes nothing of the server's.               *)
LEMMA ClientSound ==
  ASSUME Sound, Forward,
         stream' \in [Streams -> Stream], sess' \in Session, heard' \in [Streams -> Heard],
         faults' \in 0 .. MaxFaults, UNCHANGED serverVars,
         toServer' \in Seq(Upward'),
         toClient' \in Seq(Downward')
  PROVE  Sound'
<1>1. toClient' \in Seq(Frame)
  BY ToClientTypes
<1>2. Upward' \subseteq Frame
  BY DEF Upward
<1> HIDE DEF Upward, Downward
<1>3. toServer' \in Seq(Frame)
  BY <1>2, SeqWiden
<1>4. /\ TypeOK
      /\ \A s \in Streams :
       /\ srv[s].seen => stream[s].phase # "idle"
       /\ srv[s].answered => srv[s].seen
       /\ srv[s].left > 0 => srv[s].answered /\ ~srv[s].reset
  BY DEF Sound
<1>5. TypeOK'
  BY <1>1, <1>3, <1>4 DEF TypeOK, serverVars
<1>6. \A s \in Streams :
       /\ srv'[s].seen => stream'[s].phase # "idle"
       /\ srv'[s].answered => srv'[s].seen
       /\ srv'[s].left > 0 => srv'[s].answered /\ ~srv'[s].reset
  BY <1>4 DEF serverVars, Forward
<1> QED BY <1>5, <1>6 DEF Sound

LEMMA FaultTypes ==
  ASSUME Sound, Fault \/ UNCHANGED faults
  PROVE  faults' \in 0 .. MaxFaults
BY H2Assumption DEF Sound, TypeOK, Fault

(* The frames a client step sends, one or two.                             *)
LEMMA OneFrame ==
  ASSUME NEW f \in Frame
  PROVE  <<f>> \in Seq(Frame) /\ Len(<<f>>) = 1 /\ <<f>>[1] = f
OBVIOUS

LEMMA AddOne ==
  ASSUME NEW f \in Frame, NEW q \in Seq(Frame)
  PROVE  \E fs \in Seq(Frame) : /\ fs = <<f>> /\ \A i \in 1 .. Len(fs) : fs[i] = f
                               /\ Append(q, f) = q \o fs
<1>1. PICK fs : fs = <<f>>
  OBVIOUS
<1>2. fs \in Seq(Frame) /\ \A i \in 1 .. Len(fs) : fs[i] = f
  BY <1>1
<1>3. Append(q, f) = q \o fs
  BY <1>1
<1> QED BY <1>1, <1>2, <1>3

LEMMA TwoFrames ==
  ASSUME NEW f \in Frame, NEW g \in Frame
  PROVE  /\ <<f>> \o <<g>> \in Seq(Frame) /\ Len(<<f>> \o <<g>>) = 2
         /\ (<<f>> \o <<g>>)[1] = f /\ (<<f>> \o <<g>>)[2] = g
         /\ <<f, g>> = <<f>> \o <<g>>
<1>1. PICK p, r : p = <<f>> /\ r = <<g>>
  OBVIOUS
<1>2. /\ p \in Seq(Frame) /\ Len(p) = 1 /\ p[1] = f
      /\ r \in Seq(Frame) /\ Len(r) = 1 /\ r[1] = g
  BY <1>1
<1>3. p \o r \in Seq(Frame) /\ Len(p \o r) = 2 /\ (p \o r)[1] = f /\ (p \o r)[2] = g
  <2>1. /\ p \o r \in Seq(Frame) /\ Len(p \o r) = Len(p) + Len(r)
        /\ \A i \in 1 .. Len(p) + Len(r) :
             (p \o r)[i] = IF i <= Len(p) THEN p[i] ELSE r[i - Len(p)]
    BY <1>2, ConcatProperties
  <2> QED BY <1>2, <2>1
<1>4. PICK t : t = <<f, g>>
  OBVIOUS
<1>5. t \in Seq(Frame) /\ Len(t) = 2 /\ t[1] = f /\ t[2] = g
  BY <1>4
<1>6. \A i \in 1 .. Len(p \o r) : (p \o r)[i] = t[i]
  BY <1>3, <1>5
<1>7. p \o r = t
  BY <1>3, <1>5, <1>6, SeqEqual
<1> QED BY <1>1, <1>3, <1>4, <1>7

LEMMA RequestSound ==
  ASSUME Sound, NEW s \in Streams, NEW kind \in Kinds, NEW size \in Bodies,
         Request(s, kind, size)
  PROVE  Sound' /\ Forward
<1> DEFINE opened == [stream[s] EXCEPT !.phase = "open", !.kind = kind,
                                       !.size = size, !.finished = (kind # "stream")]
           h == [Fr("HEADERS", s) EXCEPT !.end = (kind = "none")]
<1>1. stream \in [Streams -> Stream] /\ sess \in Session /\ stream[s] \in Stream
        /\ heard \in [Streams -> Heard]
  BY DEF Sound, TypeOK
<1>2. size \in Nat /\ s \in 0 .. MaxStreams
  BY H2Assumption DEF Streams
<1>3. opened \in Stream /\ opened.phase = "open"
  BY <1>1 DEF Stream
<1>4. h \in Frame /\ h.type = "HEADERS" /\ h.s = s
  BY <1>2 DEF Fr, Frame
<1> HIDE DEF opened, h
<1>5. ASSUME NEW st \in Stream, st.phase = "open", stream' = [stream EXCEPT ![s] = st]
      PROVE  stream' \in [Streams -> Stream] /\ Forward /\ stream'[s].phase # "idle"
  BY <1>1, <1>5 DEF Forward
<1>6. UNCHANGED <<heard, serverVars, toClient, faults>>
  BY DEF Request
<1>7. faults' \in 0 .. MaxFaults
  BY <1>6, FaultTypes
<1>8. CASE kind = "whole"
  <2>1. /\ stream' = [stream EXCEPT ![s] = Spent(opened, size)]
        /\ sess' = [sess EXCEPT !.connSend = @ - Take(opened, size)]
        /\ Sent(<<h>> \o DataFrames(s, opened, size, TRUE))
    BY <1>8 DEF Request, opened, h
  <2>2. PICK t \in Nat : t = Take(opened, size) /\ t <= sess.connSend
    BY <1>1, <1>2, <1>3, TakeBounds
  <2>3. sess' \in Session
    BY <1>1, <2>1, <2>2 DEF Session
  <2>4. Spent(opened, size) \in Stream /\ Spent(opened, size).phase = "open"
    BY <1>1, <1>2, <1>3, SpentTypes
  <2>5. stream' \in [Streams -> Stream] /\ Forward /\ stream'[s].phase # "idle"
    BY <1>5, <2>1, <2>4
  <2>6. PICK fs : fs = DataFrames(s, opened, size, TRUE)
    OBVIOUS
  <2>7. fs = <<>> \/ \E f \in Frame : fs = <<f>> /\ f.type = "DATA" /\ f.s = s
    <3>1. PICK end \in BOOLEAN : end = TRUE
      OBVIOUS
    <3>2. fs = DataFrames(s, opened, size, end)
      BY <2>6, <3>1
    <3> QED BY <1>1, <1>2, <1>3, <3>2, DataFramesTypes
  <2>8. /\ <<h>> \o fs \in Seq(Frame)
        /\ \A i \in 1 .. Len(<<h>> \o fs) : /\ (<<h>> \o fs)[i].type \in {"HEADERS", "DATA"}
                                            /\ (<<h>> \o fs)[i].s = s
    <3>1. CASE fs = <<>>
      BY <1>4, <3>1
    <3>2. ASSUME NEW f \in Frame, fs = <<f>>, f.type = "DATA", f.s = s
          PROVE  /\ <<h>> \o fs \in Seq(Frame)
                 /\ \A i \in 1 .. Len(<<h>> \o fs) : /\ (<<h>> \o fs)[i].type \in {"HEADERS", "DATA"}
                                                     /\ (<<h>> \o fs)[i].s = s
      BY <1>4, <3>2, TwoFrames
    <3> QED BY <2>7, <3>1, <3>2
  <2>9. s # 0
    BY DEF Streams
  <2>10. toServer' \in Seq(Upward')
    BY <2>1, <2>5, <2>6, <2>8, <2>9, SentTypes
  <2> QED BY <1>1, <1>6, <1>7, <2>3, <2>5, <2>10, QueuesFollow, ClientSound
<1>9. CASE kind # "whole"
  <2>1. stream' = [stream EXCEPT ![s] = opened] /\ Sent(<<h>>) /\ UNCHANGED sess
    BY <1>9 DEF Request, opened, h
  <2>2. stream' \in [Streams -> Stream] /\ Forward /\ stream'[s].phase # "idle"
    BY <1>3, <1>5, <2>1
  <2>3. s # 0
    BY DEF Streams
  <2>4. PICK fs : fs = <<h>>
    OBVIOUS
  <2>5. fs \in Seq(Frame) /\ \A i \in 1 .. Len(fs) : fs[i].type = "HEADERS" /\ fs[i].s = s
    BY <1>4, <2>4
  <2>6. toServer' \in Seq(Upward')
    BY <2>1, <2>2, <2>3, <2>4, <2>5, SentTypes
  <2> QED BY <1>1, <1>6, <1>7, <2>1, <2>2, <2>6, QueuesFollow, ClientSound
<1> QED BY <1>8, <1>9

LEMMA WriteSound ==
  ASSUME Sound, NEW s \in Streams, NEW n, Write(s, n)
  PROVE  Sound' /\ Forward
<1> DEFINE st == stream[s]
<1>1. stream \in [Streams -> Stream] /\ sess \in Session /\ st \in Stream
        /\ heard \in [Streams -> Heard]
  BY DEF Sound, TypeOK
<1>2. n \in Nat /\ st.phase # "idle" /\ s # 0
  BY <1>1 DEF Write, Stream, Streams
<1>3. PICK fs : fs = DataFrames(s, st, n, FALSE)
  OBVIOUS
<1>4. /\ stream' = [stream EXCEPT ![s] = Spent(st, n)]
      /\ sess' = [sess EXCEPT !.connSend = @ - Take(st, n)]
      /\ Sent(fs) /\ UNCHANGED <<heard, serverVars, toClient, faults>>
  BY <1>3 DEF Write
<1> HIDE DEF st
<1>5. Spent(st, n) \in Stream /\ Spent(st, n).phase = st.phase
  BY <1>1, <1>2, SpentTypes
<1>6. stream' \in [Streams -> Stream] /\ Forward /\ stream'[s].phase # "idle"
  BY <1>1, <1>2, <1>4, <1>5 DEF Forward, st
<1>7. sess' \in Session
  <2>1. PICK t \in Nat : t = Take(st, n) /\ t <= sess.connSend
    BY <1>1, <1>2, TakeBounds
  <2> QED BY <1>1, <1>4, <2>1 DEF Session
<1>8. fs = <<>> \/ \E f \in Frame : fs = <<f>> /\ f.type = "DATA" /\ f.s = s
  <2>1. PICK end \in BOOLEAN : end = FALSE
    OBVIOUS
  <2>2. fs = DataFrames(s, st, n, end)
    BY <1>3, <2>1
  <2> QED BY <1>1, <1>2, <2>2, DataFramesTypes
<1>9. fs \in Seq(Frame) /\ \A i \in 1 .. Len(fs) : fs[i].type = "DATA" /\ fs[i].s = s
  <2>1. CASE fs = <<>>
    BY <2>1
  <2>2. ASSUME NEW f \in Frame, fs = <<f>>, f.type = "DATA", f.s = s
        PROVE  fs \in Seq(Frame) /\ \A i \in 1 .. Len(fs) : fs[i].type = "DATA" /\ fs[i].s = s
    BY <2>2
  <2> QED BY <1>8, <2>1, <2>2
<1>10. toServer' \in Seq(Upward')
  BY <1>2, <1>4, <1>6, <1>9, SentTypes
<1>11. faults' \in 0 .. MaxFaults
  BY <1>4, FaultTypes
<1> QED BY <1>1, <1>4, <1>6, <1>7, <1>10, <1>11, QueuesFollow, ClientSound

LEMMA FinishSound ==
  ASSUME Sound, NEW s \in Streams, Finish(s)
  PROVE  Sound' /\ Forward
<1> DEFINE st == stream[s]
<1>1. stream \in [Streams -> Stream] /\ sess \in Session /\ st \in Stream
        /\ heard \in [Streams -> Heard]
  BY DEF Sound, TypeOK
<1>2. st.phase # "idle" /\ s # 0
  BY DEF Finish, Streams
<1>3. PICK fs : fs = IF st.wrote THEN DataFrames(s, st, 0, TRUE) ELSE <<>>
  OBVIOUS
<1>4. /\ stream' = [stream EXCEPT ![s].finished = TRUE]
      /\ Sent(fs) /\ UNCHANGED <<sess, heard, serverVars, toClient, faults>>
  BY <1>3 DEF Finish
<1>5. stream' \in [Streams -> Stream] /\ Forward /\ stream'[s].phase # "idle"
  BY <1>1, <1>2, <1>4 DEF Forward, Stream
<1> HIDE DEF st
<1>6. fs = <<>> \/ \E f \in Frame : fs = <<f>> /\ f.type = "DATA" /\ f.s = s
  <2>1. PICK end \in BOOLEAN, n \in Nat : end = TRUE /\ n = 0
    OBVIOUS
  <2>2. fs = IF st.wrote THEN DataFrames(s, st, n, end) ELSE <<>>
    BY <1>3, <2>1
  <2> QED BY <1>1, <1>2, <2>2, DataFramesTypes
<1>7. fs \in Seq(Frame) /\ \A i \in 1 .. Len(fs) : fs[i].type = "DATA" /\ fs[i].s = s
  <2>1. CASE fs = <<>>
    BY <2>1
  <2>2. ASSUME NEW f \in Frame, fs = <<f>>, f.type = "DATA", f.s = s
        PROVE  fs \in Seq(Frame) /\ \A i \in 1 .. Len(fs) : fs[i].type = "DATA" /\ fs[i].s = s
    BY <2>2
  <2> QED BY <1>6, <2>1, <2>2
<1>8. toServer' \in Seq(Upward')
  BY <1>2, <1>4, <1>5, <1>7, SentTypes
<1>9. faults' \in 0 .. MaxFaults
  BY <1>4, FaultTypes
<1> QED BY <1>1, <1>4, <1>5, <1>8, <1>9, QueuesFollow, ClientSound

(* A RST_STREAM, or nothing.                                               *)
LEMMA ResetFrames ==
  ASSUME NEW s \in Streams, NEW sends
  PROVE  LET fs == IF sends THEN <<Fr("RST_STREAM", s)>> ELSE <<>>
         IN  /\ fs \in Seq(Frame)
             /\ \A i \in 1 .. Len(fs) : fs[i].type = "RST_STREAM" /\ fs[i].s = s
<1>1. s \in 0 .. MaxStreams
  BY DEF Streams
<1>2. PICK f : f = Fr("RST_STREAM", s)
  OBVIOUS
<1>3. f \in Frame
  BY <1>1, <1>2, FrTypes
<1>4. f.type = "RST_STREAM" /\ f.s = s
  BY <1>2 DEF Fr
<1> QED BY <1>2, <1>3, <1>4

LEMMA CancelSound ==
  ASSUME Sound, NEW s \in Streams, Cancel(s)
  PROVE  Sound' /\ Forward
<1>1. stream \in [Streams -> Stream] /\ sess \in Session /\ heard \in [Streams -> Heard]
  BY DEF Sound, TypeOK
<1>2. PICK fs : fs = <<Fr("RST_STREAM", s)>>
  OBVIOUS
<1>3. /\ stream' = [stream EXCEPT ![s] = Closed(@)]
      /\ heard' = [heard EXCEPT ![s].outcome = "cancelled"]
      /\ Sent(fs) /\ Fault /\ UNCHANGED <<sess, serverVars, toClient>>
  BY <1>2 DEF Cancel
<1>4. stream' \in [Streams -> Stream] /\ Forward /\ stream'[s].phase # "idle" /\ s # 0
  BY <1>1, <1>3 DEF Forward, Stream, Closed, Streams
<1>5. heard' \in [Streams -> Heard]
  BY <1>1, <1>3 DEF Heard
<1>6. fs \in Seq(Frame) /\ \A i \in 1 .. Len(fs) : fs[i].type = "RST_STREAM" /\ fs[i].s = s
  BY <1>2, ResetFrames
<1>7. toServer' \in Seq(Upward')
  BY <1>3, <1>4, <1>6, SentTypes
<1>8. faults' \in 0 .. MaxFaults
  BY <1>3, FaultTypes
<1> QED BY <1>1, <1>3, <1>4, <1>5, <1>7, <1>8, QueuesFollow, ClientSound

LEMMA CloseSessionSound ==
  ASSUME Sound, CloseSession
  PROVE  Sound' /\ Forward
<1>1. stream \in [Streams -> Stream] /\ sess \in Session /\ heard \in [Streams -> Heard]
  BY DEF Sound, TypeOK
<1>2. /\ sess' = [sess EXCEPT !.closed = TRUE, !.destroyed = TRUE]
      /\ toServer' = <<>> /\ toClient' = <<>> /\ Fault
      /\ UNCHANGED <<stream, heard, serverVars>>
  BY DEF CloseSession
<1>3. sess' \in Session
  BY <1>1, <1>2 DEF Session
<1>4. Forward
  BY <1>2 DEF Forward
<1>5. faults' \in 0 .. MaxFaults
  BY <1>2, FaultTypes
<1>6. toServer' \in Seq(Upward') /\ toClient' \in Seq(Downward')
  BY <1>2
<1> QED BY <1>1, <1>2, <1>3, <1>4, <1>5, <1>6, ClientSound

LEMMA FailAllSound ==
  ASSUME Sound, FailAll, UNCHANGED <<serverVars, faults>>
  PROVE  Sound' /\ Forward
<1>1. stream \in [Streams -> Stream] /\ sess \in Session /\ heard \in [Streams -> Heard]
  BY DEF Sound, TypeOK
<1>2. stream' \in [Streams -> Stream] /\ Forward
  <2>1. ASSUME NEW st \in Stream PROVE Closed(st) \in Stream /\ Closed(st).phase = "gone"
    BY DEF Closed, Stream
  <2> QED BY <1>1, <2>1 DEF FailAll, Forward
<1>3. heard' \in [Streams -> Heard]
  <2>1. ASSUME NEW h \in Heard PROVE Failed(h) \in Heard
    BY DEF Failed, Late, Heard
  <2> QED BY <1>1, <2>1 DEF FailAll
<1>4. sess' \in Session
  BY <1>1 DEF FailAll, Session
<1>5. toServer' \in Seq(Upward') /\ toClient' \in Seq(Downward')
  BY DEF FailAll
<1>6. faults' \in 0 .. MaxFaults
  BY FaultTypes
<1> QED BY <1>2, <1>3, <1>4, <1>5, <1>6, ClientSound

LEMMA FinalizeSound ==
  ASSUME Sound, NEW s \in Streams, NEW f \in Frame, NEW end \in BOOLEAN,
         NEW cancel \in BOOLEAN, stream[s].phase = "open", toClient # <<>>,
         Finalize(s, f, end, cancel), UNCHANGED serverVars
  PROVE  Sound' /\ Forward
<1>1. stream \in [Streams -> Stream] /\ sess \in Session /\ heard \in [Streams -> Heard]
  BY DEF Sound, TypeOK
<1>2. CASE FailAll /\ UNCHANGED faults
  BY <1>2, FailAllSound
<1>3. CASE ~(FailAll /\ UNCHANGED faults)
  <2> DEFINE garbled == f.block # sess.decoded + 1
             h1 == [heard[s] EXCEPT !.heads = @ + 1, !.garbled = @ \/ garbled,
                                    !.late = @ \/ heard[s].outcome # "none"]
             h2 == IF cancel THEN [h1 EXCEPT !.outcome = "cancelled"] ELSE h1
  <2>1. PICK fs : fs = IF cancel THEN <<Fr("RST_STREAM", s)>> ELSE <<>>
    OBVIOUS
  <2>2. /\ sess' = [sess EXCEPT !.decoded = @ + 1]
        /\ stream' = [stream EXCEPT ![s].assembling = FALSE,
                        ![s].phase = IF cancel \/ end THEN "gone" ELSE @]
        /\ heard' = [heard EXCEPT ![s] = IF end THEN Ended(h2) ELSE h2]
        /\ Sent(fs)
        /\ toClient' = Tail(toClient)
        /\ IF cancel THEN Fault ELSE UNCHANGED faults
    BY <1>3, <2>1 DEF Finalize
  <2>3. sess' \in Session
    BY <1>1, <2>2 DEF Session
  <2>4. stream' \in [Streams -> Stream] /\ Forward /\ stream'[s].phase # "idle" /\ s # 0
    <3>1. PICK st : st = [stream[s] EXCEPT !.assembling = FALSE,
                            !.phase = IF cancel \/ end THEN "gone" ELSE @]
      OBVIOUS
    <3>2. st \in Stream /\ st.phase # "idle"
      BY <1>1, <3>1 DEF Stream
    <3>3. stream' = [stream EXCEPT ![s] = st]
      BY <1>1, <2>2, <3>1
    <3> QED BY <1>1, <3>2, <3>3 DEF Forward, Streams
  <2>5. heard' \in [Streams -> Heard]
    <3>1. h1 \in Heard
      <4>1. PICK g \in BOOLEAN, l \in BOOLEAN :
              /\ g = (heard[s].garbled \/ garbled)
              /\ l = (heard[s].late \/ heard[s].outcome # "none")
        BY Zenon
      <4>2. h1 = [heard[s] EXCEPT !.heads = @ + 1, !.garbled = g, !.late = l]
        BY <4>1
      <4> HIDE DEF h1
      <4>3. PICK h \in Heard : h = heard[s]
        BY <1>1
      <4>4. h1 = [h EXCEPT !.heads = h.heads + 1, !.garbled = g, !.late = l]
        BY <4>2, <4>3
      <4>5. h.heads + 1 \in Nat
        BY DEF Heard
      <4> QED BY <4>4, <4>5 DEF Heard
    <3> HIDE DEF h1
    <3>2. h2 \in Heard
      BY <3>1 DEF Heard
    <3> HIDE DEF h2
    <3>3. Ended(h2) \in Heard
      BY <3>2 DEF Heard, Ended
    <3> QED BY <1>1, <2>2, <3>2, <3>3
  <2>6. fs \in Seq(Frame) /\ \A i \in 1 .. Len(fs) : fs[i].type = "RST_STREAM" /\ fs[i].s = s
    BY <2>1, ResetFrames
  <2>7. toServer' \in Seq(Upward')
    BY <2>2, <2>4, <2>6, SentTypes
  <2>8. faults' \in 0 .. MaxFaults
    BY <2>2, FaultTypes
  <2> QED BY <2>2, <2>3, <2>4, <2>5, <2>7, <2>8, QueuesFollow, ClientSound
<1> QED BY <1>2, <1>3

LEMMA OnHeadersSound ==
  ASSUME Sound, NEW cancel \in BOOLEAN, OnHeaders(cancel)
  PROVE  Sound' /\ Forward
<1>1. stream \in [Streams -> Stream] /\ sess \in Session /\ heard \in [Streams -> Heard]
  BY DEF Sound, TypeOK
<1>2. PICK f : f = Head(toClient)
  OBVIOUS
<1>3. toClient # <<>> /\ f.type = "HEADERS" /\ stream[f.s].phase = "open" /\ UNCHANGED serverVars
  BY <1>2 DEF OnHeaders, Receiving
<1>4. f \in Frame /\ f.s \in Streams /\ f.end \in BOOLEAN
  BY <1>2, <1>3, HeadTypes, FrameTypes
<1>5. CASE f.fin
  <2>1. Finalize(f.s, f, f.end, cancel)
    BY <1>2, <1>5 DEF OnHeaders
  <2> QED BY <1>3, <1>4, <2>1, FinalizeSound
<1>6. CASE ~f.fin
  <2>1. /\ stream' = [stream EXCEPT ![f.s] = Assembling(@, f.end)]
        /\ toClient' = Tail(toClient)
        /\ UNCHANGED <<sess, heard, toServer, faults>>
    BY <1>2, <1>6 DEF OnHeaders
  <2>2. PICK st : st = Assembling(stream[f.s], f.end)
    OBVIOUS
  <2>3. st \in Stream /\ st.phase # "idle"
    <3>1. PICK o \in Stream : o = stream[f.s]
      BY <1>1, <1>4
    <3> QED BY <1>3, <1>4, <2>2, <3>1 DEF Assembling, Stream
  <2>4. stream' \in [Streams -> Stream] /\ Forward
    BY <1>1, <1>4, <2>1, <2>2, <2>3 DEF Forward
  <2>5. faults' \in 0 .. MaxFaults
    BY <2>1, FaultTypes
  <2> QED BY <1>1, <1>3, <2>1, <2>4, <2>5, QueuesFollow, ClientSound
<1> QED BY <1>5, <1>6

LEMMA OnContinuationSound ==
  ASSUME Sound, NEW cancel \in BOOLEAN, OnContinuation(cancel)
  PROVE  Sound' /\ Forward
<1>1. PICK f : f = Head(toClient)
  OBVIOUS
<1>2. /\ toClient # <<>> /\ f.type = "CONTINUATION" /\ stream[f.s].phase = "open"
      /\ UNCHANGED serverVars /\ Finalize(f.s, f, stream[f.s].headerEnd, cancel)
  BY <1>1 DEF OnContinuation, Receiving
<1>3. f \in Frame /\ f.s \in Streams
  BY <1>1, <1>2, HeadTypes
<1>4. stream[f.s].headerEnd \in BOOLEAN
  BY <1>3 DEF Sound, TypeOK, Stream
<1> QED BY <1>2, <1>3, <1>4, FinalizeSound

LEMMA UpdateTypes ==
  ASSUME NEW s \in 0 .. MaxStreams, NEW u \in Nat
  PROVE  LET f == [Fr("WINDOW_UPDATE", s) EXCEPT !.n = u]
         IN  f \in Frame /\ f.type = "WINDOW_UPDATE" /\ f.s = s /\ f.n = u
<1>1. PICK f : f = [Fr("WINDOW_UPDATE", s) EXCEPT !.n = u]
  OBVIOUS
<1>2. f = [type |-> "WINDOW_UPDATE", s |-> s, n |-> u, pad |-> 0, from |-> 0,
           end |-> FALSE, fin |-> TRUE, block |-> 0]
  BY <1>1 DEF Fr
<1>3. f \in Frame /\ f.type = "WINDOW_UPDATE" /\ f.s = s /\ f.n = u
  BY <1>2 DEF Frame
<1> QED BY <1>1, <1>3

LEMMA NoneOrOne ==
  ASSUME NEW fs, fs = <<>> \/ \E f \in Frame : fs = <<f>>
  PROVE  fs \in Seq(Frame)
<1>1. CASE fs = <<>>
  BY <1>1
<1>2. ASSUME NEW f \in Frame, fs = <<f>>
      PROVE  fs \in Seq(Frame)
  BY <1>2
<1> QED BY <1>1, <1>2

LEMMA ConnUpdateTypes ==
  ASSUME NEW u \in Nat
  PROVE  /\ ConnUpdate(u) = <<>> \/
              \E f \in Frame : ConnUpdate(u) = <<f>> /\ f.type = "WINDOW_UPDATE" /\ f.s = 0 /\ f.n = u
         /\ ConnUpdate(u) = <<>> => ConnLeft(u) = u
         /\ ConnUpdate(u) # <<>> => ConnLeft(u) = 0
         /\ ConnLeft(u) \in Nat
<1>1. PICK f : f = [Fr("WINDOW_UPDATE", 0) EXCEPT !.n = u]
  OBVIOUS
<1>2. f \in Frame /\ f.type = "WINDOW_UPDATE" /\ f.s = 0 /\ f.n = u
  BY <1>1, UpdateTypes, H2Assumption
<1> QED BY <1>1, <1>2 DEF ConnUpdate, ConnLeft

(* What OnData does, without its abbreviations.  The two updates are empty *)
(* or one frame each.                                                      *)
HeardData(f) ==
  [heard[f.s] EXCEPT !.units = @ + f.n, !.late = @ \/ heard[f.s].outcome # "none"]

Update(fs, s, n) ==
  fs = <<>> \/ \E g \in Frame : fs = <<g>> /\ g.type = "WINDOW_UPDATE" /\ g.s = s /\ g.n = n

DataTaken(f, st, h, p, r) ==
  /\ toClient # <<>> /\ f = Head(toClient) /\ f.type = "DATA" /\ f.s \in Streams
  /\ stream[f.s].phase = "open"
  /\ st = [stream[f.s] EXCEPT !.recvUsed = IF r = <<>> THEN @ + f.n ELSE 0,
                              !.phase = IF f.end THEN "gone" ELSE @]
  /\ stream' = [stream EXCEPT ![f.s] = st]
  /\ sess' = [sess EXCEPT !.recvUsed = IF p = <<>> THEN @ + f.n ELSE 0]
  /\ sess' \in Session
  /\ h = (IF f.end THEN Ended(HeardData(f)) ELSE HeardData(f))
  /\ heard' = [heard EXCEPT ![f.s] = h]
  /\ Update(p, 0, sess.recvUsed + f.n)
  /\ Update(r, f.s, stream[f.s].recvUsed + f.n)
  /\ Sent(p \o r)
  /\ toClient' = Tail(toClient)
  /\ UNCHANGED <<serverVars, faults>>

LEMMA UpdateFrames ==
  ASSUME NEW p \in Seq(Frame), NEW r \in Seq(Frame), NEW s, NEW m, NEW n,
         Update(p, 0, m), Update(r, s, n)
  PROVE  /\ p \o r \in Seq(Frame)
         /\ \A i \in 1 .. Len(p \o r) : (p \o r)[i].type = "WINDOW_UPDATE" /\ (p \o r)[i].s \in {0, s}
<1>1. /\ p \o r \in Seq(Frame) /\ Len(p \o r) = Len(p) + Len(r)
      /\ \A i \in 1 .. Len(p) + Len(r) :
           (p \o r)[i] = IF i <= Len(p) THEN p[i] ELSE r[i - Len(p)]
  BY ConcatProperties
<1>2. \A i \in 1 .. Len(p) : p[i].type = "WINDOW_UPDATE" /\ p[i].s = 0
  <2>1. CASE p = <<>>
    BY <2>1
  <2>2. ASSUME NEW g \in Frame, p = <<g>>, g.type = "WINDOW_UPDATE", g.s = 0
        PROVE  \A i \in 1 .. Len(p) : p[i].type = "WINDOW_UPDATE" /\ p[i].s = 0
    BY <2>2
  <2> QED BY <2>1, <2>2 DEF Update
<1>3. \A i \in 1 .. Len(r) : r[i].type = "WINDOW_UPDATE" /\ r[i].s = s
  <2>1. CASE r = <<>>
    BY <2>1
  <2>2. ASSUME NEW g \in Frame, r = <<g>>, g.type = "WINDOW_UPDATE", g.s = s
        PROVE  \A i \in 1 .. Len(r) : r[i].type = "WINDOW_UPDATE" /\ r[i].s = s
    BY <2>2
  <2> QED BY <2>1, <2>2 DEF Update
<1>4. Len(p) \in Nat /\ Len(r) \in Nat
  OBVIOUS
<1>5. ASSUME NEW i \in 1 .. Len(p \o r)
      PROVE  (p \o r)[i].type = "WINDOW_UPDATE" /\ (p \o r)[i].s \in {0, s}
  <2>1. CASE i <= Len(p)
    BY <1>1, <1>2, <1>4, <2>1
  <2>2. CASE ~(i <= Len(p))
    <3>1. i - Len(p) \in 1 .. Len(r) /\ (p \o r)[i] = r[i - Len(p)]
      BY <1>1, <1>4, <2>2
    <3> QED BY <1>3, <3>1
  <2> QED BY <2>1, <2>2
<1> QED BY <1>1, <1>5

LEMMA OnDataDoes ==
  ASSUME Sound, OnData
  PROVE  \E f \in Frame, st \in Stream, h \in Heard, p \in Seq(Frame), r \in Seq(Frame) :
           DataTaken(f, st, h, p, r)
<1>1. stream \in [Streams -> Stream] /\ sess \in Session /\ heard \in [Streams -> Heard]
  BY DEF Sound, TypeOK
<1>2. PICK f : f = Head(toClient)
  OBVIOUS
<1>3. toClient # <<>> /\ f.type = "DATA" /\ stream[f.s].phase = "open"
  BY <1>2 DEF OnData, Receiving
<1>4. f \in Frame /\ f.s \in Streams /\ f.n \in Nat
  BY <1>2, <1>3, HeadTypes, FrameTypes
<1>5. PICK used \in Nat, conn \in Nat : used = stream[f.s].recvUsed + f.n /\ conn = sess.recvUsed + f.n
  BY <1>1, <1>4 DEF Stream, Session
<1>6. PICK g : g = [Fr("WINDOW_UPDATE", f.s) EXCEPT !.n = used]
  OBVIOUS
<1>7. g \in Frame /\ g.type = "WINDOW_UPDATE" /\ g.s = f.s /\ g.n = used
  BY <1>4, <1>6, UpdateTypes, H2Assumption DEF Streams
<1>8. PICK p : p = ConnUpdate(conn)
  OBVIOUS
<1>9. PICK r : r = IF used >= StreamCredit THEN <<g>> ELSE <<>>
  OBVIOUS
<1>10. /\ p = <<>> \/ \E d \in Frame : p = <<d>> /\ d.type = "WINDOW_UPDATE" /\ d.s = 0 /\ d.n = conn
       /\ ConnLeft(conn) = (IF p = <<>> THEN conn ELSE 0)
  BY <1>5, <1>8, ConnUpdateTypes
<1>11. p \in Seq(Frame) /\ r \in Seq(Frame)
  BY <1>7, <1>9, <1>10, NoneOrOne
<1>12. PICK st : st = [stream[f.s] EXCEPT !.recvUsed = IF used >= StreamCredit THEN 0 ELSE used,
                                          !.phase = IF f.end THEN "gone" ELSE @]
  OBVIOUS
<1>13. st \in Stream
  <2>1. PICK v \in Nat : v = IF used >= StreamCredit THEN 0 ELSE used
    OBVIOUS
  <2>2. st = [stream[f.s] EXCEPT !.recvUsed = v, !.phase = IF f.end THEN "gone" ELSE @]
    BY <1>12, <2>1
  <2>3. PICK w \in Stream : w = stream[f.s]
    BY <1>1, <1>4
  <2>4. PICK ph \in {"idle", "open", "gone"} : ph = IF f.end THEN "gone" ELSE w.phase
    BY DEF Stream
  <2>5. st = [w EXCEPT !.recvUsed = v, !.phase = ph]
    BY <2>2, <2>3, <2>4
  <2> QED BY <2>5 DEF Stream
<1>14. st = [stream[f.s] EXCEPT !.recvUsed = IF r = <<>> THEN @ + f.n ELSE 0,
                                !.phase = IF f.end THEN "gone" ELSE @]
  BY <1>5, <1>9, <1>12
<1>15. stream' = [stream EXCEPT ![f.s] = st]
  BY <1>1, <1>2, <1>5, <1>12 DEF OnData
<1>16. sess' = [sess EXCEPT !.recvUsed = IF p = <<>> THEN @ + f.n ELSE 0]
  <2>1. sess' = [sess EXCEPT !.recvUsed = ConnLeft(conn)]
    BY <1>2, <1>5 DEF OnData
  <2> QED BY <1>5, <1>10, <2>1
<1>17. sess' \in Session
  BY <1>1, <1>5, <1>16 DEF Session
<1> DEFINE h1 == HeardData(f)
<1>18. PICK h : h = (IF f.end THEN Ended(h1) ELSE h1)
  OBVIOUS
<1>19. heard' = [heard EXCEPT ![f.s] = h]
  BY <1>1, <1>2, <1>18 DEF OnData, HeardData
<1>20. h \in Heard
  <2>1. PICK l \in BOOLEAN : l = (heard[f.s].late \/ heard[f.s].outcome # "none")
    BY Zenon
  <2>2. h1 = [heard[f.s] EXCEPT !.units = @ + f.n, !.late = l]
    BY <2>1 DEF HeardData
  <2> HIDE DEF h1
  <2>3. PICK k \in Heard : k = heard[f.s]
    BY <1>1, <1>4
  <2>4. h1 = [k EXCEPT !.units = k.units + f.n, !.late = l] /\ k.units + f.n \in Nat
    BY <1>4, <2>2, <2>3 DEF Heard
  <2>5. h1 \in Heard
    BY <2>4 DEF Heard
  <2>6. Ended(h1) \in Heard
    BY <2>5 DEF Ended, Heard
  <2> QED BY <1>18, <2>5, <2>6
<1>21. Sent(p \o r) /\ toClient' = Tail(toClient) /\ UNCHANGED <<serverVars, faults>>
  BY <1>2, <1>5, <1>6, <1>8, <1>9 DEF OnData
<1>22. r = <<>> \/ \E d \in Frame : r = <<d>> /\ d.type = "WINDOW_UPDATE" /\ d.s = f.s /\ d.n = used
  BY <1>7, <1>9
<1>23. Update(p, 0, sess.recvUsed + f.n) /\ Update(r, f.s, stream[f.s].recvUsed + f.n)
  BY <1>5, <1>10, <1>22 DEF Update
<1>24. DataTaken(f, st, h, p, r)
  BY <1>2, <1>3, <1>4, <1>14, <1>15, <1>16, <1>17, <1>18, <1>19, <1>21, <1>23, Zenon DEF DataTaken
<1> QED BY <1>4, <1>11, <1>13, <1>20, <1>24, Zenon

LEMMA OnDataSound ==
  ASSUME Sound, OnData
  PROVE  Sound' /\ Forward
<1>1. stream \in [Streams -> Stream] /\ sess \in Session /\ heard \in [Streams -> Heard]
  BY DEF Sound, TypeOK
<1>2. PICK f \in Frame, st \in Stream, h \in Heard, p \in Seq(Frame), r \in Seq(Frame) :
        DataTaken(f, st, h, p, r)
  BY OnDataDoes, Zenon
<1>3. /\ toClient # <<>> /\ f.s \in Streams /\ stream[f.s].phase = "open"
      /\ stream' = [stream EXCEPT ![f.s] = st]
      /\ sess' \in Session /\ heard' = [heard EXCEPT ![f.s] = h]
      /\ Sent(p \o r)
      /\ toClient' = Tail(toClient)
      /\ UNCHANGED <<serverVars, faults>>
  BY <1>2 DEF DataTaken
<1>4. st.phase # "idle"
  BY <1>1, <1>2 DEF Stream, DataTaken
<1>5. stream' \in [Streams -> Stream] /\ Forward /\ stream'[f.s].phase # "idle"
  BY <1>1, <1>3, <1>4 DEF Forward
<1>6. heard' \in [Streams -> Heard]
  BY <1>1, <1>3
<1>7. /\ p \o r \in Seq(Frame)
      /\ \A i \in 1 .. Len(p \o r) : (p \o r)[i].type = "WINDOW_UPDATE" /\ (p \o r)[i].s \in {0, f.s}
  BY <1>2, UpdateFrames DEF DataTaken
<1>8. PICK fs \in Seq(Frame) : fs = p \o r
  BY <1>7
<1>9. toServer' \in Seq(Upward')
  BY <1>3, <1>5, <1>7, <1>8, SentTypes
<1>10. faults' \in 0 .. MaxFaults
  BY <1>3, FaultTypes
<1> QED BY <1>3, <1>5, <1>6, <1>9, <1>10, QueuesFollow, ClientSound

LEMMA OnResetSound ==
  ASSUME Sound, OnReset
  PROVE  Sound' /\ Forward
<1>1. stream \in [Streams -> Stream] /\ sess \in Session /\ heard \in [Streams -> Heard]
  BY DEF Sound, TypeOK
<1>2. PICK s : s = Head(toClient).s
  OBVIOUS
<1>3. /\ toClient # <<>> /\ Head(toClient).type = "RST_STREAM" /\ stream[s].phase = "open"
      /\ stream' = [stream EXCEPT ![s] = Closed(@)]
      /\ heard' = [heard EXCEPT ![s] = Failed(@)]
      /\ toClient' = Tail(toClient)
      /\ UNCHANGED <<sess, serverVars, toServer, faults>>
  BY <1>2 DEF OnReset, Receiving
<1>4. s \in Streams
  BY <1>2, <1>3, HeadTypes
<1>5. stream' \in [Streams -> Stream] /\ Forward
  <2>1. PICK st \in Stream : st = stream[s]
    BY <1>1, <1>4
  <2>2. Closed(st) \in Stream /\ Closed(st).phase = "gone"
    BY DEF Stream, Closed
  <2>3. stream' = [stream EXCEPT ![s] = Closed(st)]
    BY <1>3, <2>1
  <2> QED BY <1>1, <1>4, <2>2, <2>3 DEF Forward
<1>6. heard' \in [Streams -> Heard]
  <2>1. PICK h \in Heard : h = heard[s]
    BY <1>1, <1>4
  <2>2. Failed(h) \in Heard
    BY DEF Failed, Late, Heard
  <2> QED BY <1>1, <1>3, <2>1, <2>2
<1>7. faults' \in 0 .. MaxFaults
  BY <1>3, FaultTypes
<1> QED BY <1>1, <1>3, <1>5, <1>6, <1>7, QueuesFollow, ClientSound

(* What OnUnknown does: it credits n units of DATA for the connection.     *)
UnknownTaken(f, n, p) ==
  /\ toClient # <<>> /\ f = Head(toClient) /\ f.s \in Streams /\ stream[f.s].phase # "open"
  /\ f.type \in {"HEADERS", "CONTINUATION", "DATA", "RST_STREAM"}
  /\ n = IF f.type = "DATA" THEN f.n ELSE 0
  /\ sess' = [sess EXCEPT !.recvUsed = IF p = <<>> THEN @ + n ELSE 0]
  /\ sess' \in Session
  /\ Update(p, 0, sess.recvUsed + n)
  /\ Sent(p)
  /\ toClient' = Tail(toClient)
  /\ UNCHANGED <<stream, heard, serverVars, faults>>

LEMMA OnUnknownDoes ==
  ASSUME Sound, OnUnknown
  PROVE  \E f \in Frame, n \in Nat, p \in Seq(Frame) : UnknownTaken(f, n, p)
<1>1. sess \in Session
  BY DEF Sound, TypeOK
<1>2. PICK f : f = Head(toClient)
  OBVIOUS
<1>3. /\ toClient # <<>> /\ f.type \in {"HEADERS", "CONTINUATION", "DATA", "RST_STREAM"}
      /\ stream[f.s].phase # "open"
      /\ sess' = [sess EXCEPT !.recvUsed = ConnLeft(Ignored(f))]
      /\ Sent(ConnUpdate(Ignored(f)))
      /\ toClient' = Tail(toClient)
      /\ UNCHANGED <<stream, heard, serverVars, faults>>
  BY <1>2 DEF OnUnknown
<1>4. f \in Frame /\ f.s \in Streams /\ f.n \in Nat
  BY <1>2, <1>3, HeadTypes, FrameTypes
<1>5. PICK n \in Nat : n = IF f.type = "DATA" THEN f.n ELSE 0
  BY <1>4
<1>6. PICK u \in Nat : u = sess.recvUsed + n
  BY <1>1 DEF Session
<1>7. Ignored(f) = u
  BY <1>1, <1>5, <1>6 DEF Ignored, Session
<1>8. PICK p : p = ConnUpdate(u)
  OBVIOUS
<1>9. /\ p = <<>> \/ \E d \in Frame : p = <<d>> /\ d.type = "WINDOW_UPDATE" /\ d.s = 0 /\ d.n = u
      /\ ConnLeft(u) = (IF p = <<>> THEN u ELSE 0) /\ ConnLeft(u) \in Nat
  BY <1>8, ConnUpdateTypes
<1>10. p \in Seq(Frame)
  BY <1>9, NoneOrOne
<1>11. sess' = [sess EXCEPT !.recvUsed = IF p = <<>> THEN @ + n ELSE 0]
  BY <1>3, <1>6, <1>7, <1>9
<1>12. sess' \in Session
  BY <1>1, <1>3, <1>7, <1>9 DEF Session
<1>13. Update(p, 0, sess.recvUsed + n)
  BY <1>6, <1>9 DEF Update
<1>14. UnknownTaken(f, n, p)
  BY <1>2, <1>3, <1>4, <1>5, <1>7, <1>8, <1>11, <1>12, <1>13, Zenon DEF UnknownTaken
<1> QED BY <1>4, <1>10, <1>14, Zenon

LEMMA OnUnknownSound ==
  ASSUME Sound, OnUnknown
  PROVE  Sound' /\ Forward
<1>1. stream \in [Streams -> Stream] /\ sess \in Session /\ heard \in [Streams -> Heard]
  BY DEF Sound, TypeOK
<1>2. PICK f \in Frame, n \in Nat, p \in Seq(Frame) : UnknownTaken(f, n, p)
  BY OnUnknownDoes, Zenon
<1>3. /\ sess' \in Session /\ Update(p, 0, sess.recvUsed + n) /\ Sent(p)
      /\ toClient # <<>> /\ toClient' = Tail(toClient)
      /\ UNCHANGED <<stream, heard, serverVars, faults>>
  BY <1>2 DEF UnknownTaken
<1>4. Forward
  BY <1>3 DEF Forward
<1>5. \A i \in 1 .. Len(p) : p[i].type = "WINDOW_UPDATE" /\ p[i].s = 0
  <2>1. CASE p = <<>>
    BY <2>1
  <2>2. ASSUME NEW g \in Frame, p = <<g>>, g.type = "WINDOW_UPDATE", g.s = 0
        PROVE  \A i \in 1 .. Len(p) : p[i].type = "WINDOW_UPDATE" /\ p[i].s = 0
    BY <2>2
  <2> QED BY <1>3, <2>1, <2>2 DEF Update
<1>6. toServer' \in Seq(Upward')
  BY <1>3, <1>4, <1>5, SentTypes
<1>7. faults' \in 0 .. MaxFaults
  BY <1>3, FaultTypes
<1> QED BY <1>1, <1>3, <1>4, <1>6, <1>7, QueuesFollow, ClientSound

LEMMA OnWindowUpdateSound ==
  ASSUME Sound, OnWindowUpdate
  PROVE  Sound' /\ Forward
<1>1. stream \in [Streams -> Stream] /\ sess \in Session /\ heard \in [Streams -> Heard]
  BY DEF Sound, TypeOK
<1>2. PICK f : f = Head(toClient)
  OBVIOUS
<1>3. /\ toClient # <<>> /\ toClient' = Tail(toClient)
      /\ UNCHANGED <<heard, serverVars, toServer, faults>>
  BY DEF OnWindowUpdate, Receiving
<1>4. f \in Frame /\ f.n \in Nat /\ f.s \in 0 .. MaxStreams
  BY <1>2, <1>3, HeadTypes, FrameTypes
<1>5. stream' \in [Streams -> Stream] /\ Forward /\ sess' \in Session
  <2>1. CASE f.s = 0
    <3>1. sess' = [sess EXCEPT !.connSend = @ + f.n] /\ UNCHANGED stream
      BY <1>2, <2>1 DEF OnWindowUpdate
    <3> QED BY <1>1, <1>4, <3>1 DEF Session, Forward
  <2>2. CASE f.s # 0 /\ stream[f.s].phase = "open"
    <3>1. stream' = [stream EXCEPT ![f.s].sendWindow = @ + f.n] /\ UNCHANGED sess
      BY <1>2, <2>2 DEF OnWindowUpdate
    <3>2. f.s \in Streams
      BY <1>4, <2>2 DEF Streams
    <3>3. PICK st \in Stream : st = stream[f.s]
      BY <1>1, <3>2
    <3>4. st.sendWindow + f.n \in Nat
      BY <1>4 DEF Stream
    <3>5. stream' = [stream EXCEPT ![f.s] = [st EXCEPT !.sendWindow = st.sendWindow + f.n]]
      BY <3>1, <3>3
    <3>6. [st EXCEPT !.sendWindow = st.sendWindow + f.n] \in Stream
      BY <3>4 DEF Stream
    <3>7. [st EXCEPT !.sendWindow = st.sendWindow + f.n].phase = st.phase
      BY DEF Stream
    <3> QED BY <1>1, <3>1, <3>2, <3>3, <3>5, <3>6, <3>7 DEF Forward
  <2>3. CASE f.s # 0 /\ stream[f.s].phase # "open"
    <3>1. UNCHANGED <<stream, sess>>
      BY <1>2, <2>3 DEF OnWindowUpdate
    <3> QED BY <1>1, <3>1 DEF Forward
  <2> QED BY <2>1, <2>2, <2>3
<1>6. faults' \in 0 .. MaxFaults
  BY <1>3, FaultTypes
<1> QED BY <1>1, <1>3, <1>5, <1>6, QueuesFollow, ClientSound

LEMMA OnGoawaySound ==
  ASSUME Sound, OnGoaway
  PROVE  Sound' /\ Forward
<1>1. stream \in [Streams -> Stream] /\ sess \in Session /\ heard \in [Streams -> Heard]
  BY DEF Sound, TypeOK
<1>2. /\ sess' = [sess EXCEPT !.closed = TRUE] /\ toClient # <<>> /\ toClient' = Tail(toClient)
      /\ UNCHANGED <<stream, heard, serverVars, toServer, faults>>
  BY DEF OnGoaway, Receiving
<1>3. sess' \in Session
  BY <1>1, <1>2 DEF Session
<1>4. Forward /\ faults' \in 0 .. MaxFaults
  BY <1>2, FaultTypes DEF Forward
<1> QED BY <1>1, <1>2, <1>3, <1>4, QueuesFollow, ClientSound

LEMMA OnBadSound ==
  ASSUME Sound, OnBad
  PROVE  Sound' /\ Forward
BY FailAllSound DEF OnBad

(* A step of the server changes nothing of the client's.                   *)
LEMMA ServerSound ==
  ASSUME Sound, UNCHANGED clientVars, faults' \in 0 .. MaxFaults,
         srv' \in [Streams -> Srv], srvConn' \in SrvConn,
         toServer' \in Seq(Upward'), toClient' \in Seq(Downward'),
         \A s \in Streams :
           /\ srv'[s].seen => stream[s].phase # "idle"
           /\ srv'[s].answered => srv'[s].seen
           /\ srv'[s].left > 0 => srv'[s].answered /\ ~srv'[s].reset
  PROVE  Sound' /\ Forward
<1>1. Forward /\ stream' = stream
  BY DEF clientVars, Forward
<1>2. toClient' \in Seq(Frame)
  BY <1>1, ToClientTypes
<1>3. Upward' \subseteq Frame
  BY DEF Upward
<1> HIDE DEF Upward, Downward
<1>4. toServer' \in Seq(Frame)
  BY <1>3, SeqWiden
<1>5. TypeOK'
  BY <1>2, <1>4 DEF Sound, TypeOK, clientVars
<1> QED BY <1>1, <1>5 DEF Sound

(* One stream of the server's changes.                                     *)
LEMMA ServerStreamSound ==
  ASSUME Sound, UNCHANGED clientVars, faults' \in 0 .. MaxFaults,
         NEW s \in Streams, NEW v \in Srv, srv' = [srv EXCEPT ![s] = v],
         srvConn' \in SrvConn,
         toServer' \in Seq(Upward'), toClient' \in Seq(Downward'),
         v.seen => stream[s].phase # "idle",
         v.answered => v.seen,
         v.left > 0 => v.answered /\ ~v.reset
  PROVE  Sound' /\ Forward
<1>1. srv \in [Streams -> Srv]
  BY DEF Sound, TypeOK
<1>2. srv' \in [Streams -> Srv]
  BY <1>1
<1>3. ASSUME NEW t \in Streams
      PROVE  /\ srv'[t].seen => stream[t].phase # "idle"
             /\ srv'[t].answered => srv'[t].seen
             /\ srv'[t].left > 0 => srv'[t].answered /\ ~srv'[t].reset
  <2>1. CASE t = s
    BY <1>1, <2>1
  <2>2. CASE t # s
    BY <1>1, <2>2 DEF Sound
  <2> QED BY <2>1, <2>2
<1> QED BY <1>2, <1>3, ServerSound

(* What SrvReceives does with each type of frame.                          *)
GotHeaders(f) ==
  /\ f.type = "HEADERS" /\ f.s \in Streams /\ UNCHANGED srvConn
  /\ srv' = [srv EXCEPT ![f.s] = [srv[f.s] EXCEPT !.seen = TRUE, !.ended = f.end]]
GotData(f) ==
  /\ f.type = "DATA" /\ f.s \in Streams
  /\ srvConn' = [srvConn EXCEPT !.recvWin = @ - f.n]
  /\ \E end \in BOOLEAN, hole \in BOOLEAN, got \in Nat :
       /\ end <=> srv[f.s].ended \/ f.end
       /\ hole <=> srv[f.s].hole \/ (f.n > 0 /\ f.from # srv[f.s].got)
       /\ got = IF f.from = srv[f.s].got THEN srv[f.s].got + f.n ELSE srv[f.s].got
       /\ srv' = [srv EXCEPT ![f.s] = [srv[f.s] EXCEPT !.recvWin = srv[f.s].recvWin - f.n,
                                         !.ended = end, !.hole = hole, !.got = got]]
GotReset(f) ==
  /\ f.type = "RST_STREAM" /\ f.s \in Streams /\ UNCHANGED srvConn
  /\ srv' = [srv EXCEPT ![f.s] = [srv[f.s] EXCEPT !.reset = TRUE, !.left = 0]]
GotConnUpdate(f) ==
  /\ f.type = "WINDOW_UPDATE" /\ f.s = 0 /\ UNCHANGED srv
  /\ srvConn' = [srvConn EXCEPT !.sendWin = @ + f.n]
GotUpdate(f) ==
  /\ f.type = "WINDOW_UPDATE" /\ f.s \in Streams /\ UNCHANGED srvConn
  /\ srv' = [srv EXCEPT ![f.s] = [srv[f.s] EXCEPT !.sendWin = srv[f.s].sendWin + f.n]]

LEMMA SrvReceivesDoes ==
  ASSUME Sound, SrvReceives
  PROVE  \E f \in Frame :
           /\ f = Head(toServer) /\ toServer # <<>> /\ toServer' = Tail(toServer)
           /\ f.s # 0 => stream[f.s].phase # "idle"
           /\ UNCHANGED <<clientVars, toClient, faults>>
           /\ GotHeaders(f) \/ GotData(f) \/ GotReset(f) \/ GotConnUpdate(f) \/ GotUpdate(f)
<1>1. PICK f : f = Head(toServer)
  OBVIOUS
<1>2. toServer # <<>> /\ toServer' = Tail(toServer) /\ UNCHANGED <<clientVars, toClient, faults>>
  BY DEF SrvReceives
<1>3. f \in Upward /\ f \in Frame
  BY <1>1, <1>2, HeadTypes
<1>4. /\ f.type \in {"HEADERS", "DATA", "RST_STREAM", "WINDOW_UPDATE"}
      /\ f.type # "WINDOW_UPDATE" => f.s # 0
      /\ f.s # 0 => stream[f.s].phase # "idle"
  BY <1>3 DEF Upward
<1>5. f.s \in 0 .. MaxStreams /\ f.n \in Nat /\ (f.s # 0 => f.s \in Streams)
  BY <1>3, FrameTypes DEF Streams
<1>6. srv \in [Streams -> Srv]
  BY DEF Sound, TypeOK
<1>7. CASE f.type = "HEADERS"
  <2>1. GotHeaders(f)
    BY <1>1, <1>4, <1>5, <1>6, <1>7 DEF SrvReceives, GotHeaders
  <2> QED BY <1>1, <1>2, <1>3, <1>4, <2>1
<1>8. CASE f.type = "DATA"
  <2>1. PICK w \in Srv : w = srv[f.s]
    BY <1>4, <1>5, <1>6, <1>8
  <2>2. PICK end \in BOOLEAN, hole \in BOOLEAN, got \in Nat :
          /\ end = (w.ended \/ f.end)
          /\ hole = (w.hole \/ (f.n > 0 /\ f.from # w.got))
          /\ got = IF f.from = w.got THEN w.got + f.n ELSE w.got
    <3>1. (IF f.from = w.got THEN w.got + f.n ELSE w.got) \in Nat
      BY <1>5 DEF Srv
    <3>2. (w.ended \/ f.end) \in BOOLEAN /\ (w.hole \/ (f.n > 0 /\ f.from # w.got)) \in BOOLEAN
      BY Zenon
    <3> QED BY <3>1, <3>2, Zenon
  <2>3. /\ srv' = [srv EXCEPT
                     ![f.s].recvWin = @ - f.n, ![f.s].ended = @ \/ f.end,
                     ![f.s].hole = @ \/ (f.n > 0 /\ f.from # srv[f.s].got),
                     ![f.s].got = IF f.from = @ THEN @ + f.n ELSE @]
        /\ srvConn' = [srvConn EXCEPT !.recvWin = @ - f.n]
    BY <1>1, <1>8 DEF SrvReceives
  <2>4. srv' = [srv EXCEPT ![f.s] = [w EXCEPT !.recvWin = w.recvWin - f.n,
                                       !.ended = end, !.hole = hole, !.got = got]]
    BY <1>4, <1>5, <1>6, <1>8, <2>1, <2>2, <2>3
  <2>5. GotData(f)
    BY <1>4, <1>5, <1>8, <2>1, <2>2, <2>3, <2>4 DEF GotData
  <2> QED BY <1>1, <1>2, <1>3, <1>4, <2>5
<1>9. CASE f.type = "RST_STREAM"
  <2>1. GotReset(f)
    BY <1>1, <1>4, <1>5, <1>6, <1>9 DEF SrvReceives, GotReset
  <2> QED BY <1>1, <1>2, <1>3, <1>4, <2>1
<1>10. CASE f.type = "WINDOW_UPDATE" /\ f.s = 0
  <2>1. GotConnUpdate(f)
    BY <1>1, <1>10 DEF SrvReceives, GotConnUpdate
  <2> QED BY <1>1, <1>2, <1>3, <1>4, <2>1
<1>11. CASE f.type = "WINDOW_UPDATE" /\ f.s # 0
  <2>1. GotUpdate(f)
    BY <1>1, <1>5, <1>6, <1>11 DEF SrvReceives, GotUpdate
  <2> QED BY <1>1, <1>2, <1>3, <1>4, <2>1
<1> QED BY <1>4, <1>7, <1>8, <1>9, <1>10, <1>11

LEMMA SrvReceivesSound ==
  ASSUME Sound, SrvReceives
  PROVE  Sound' /\ Forward
<1>1. srv \in [Streams -> Srv] /\ srvConn \in SrvConn /\ faults \in 0 .. MaxFaults
  BY DEF Sound, TypeOK
<1>2. PICK f \in Frame :
        /\ toServer # <<>> /\ toServer' = Tail(toServer)
        /\ f.s # 0 => stream[f.s].phase # "idle"
        /\ UNCHANGED <<clientVars, toClient, faults>>
        /\ GotHeaders(f) \/ GotData(f) \/ GotReset(f) \/ GotConnUpdate(f) \/ GotUpdate(f)
  BY SrvReceivesDoes
<1>3. Forward
  BY <1>2 DEF clientVars, Forward
<1>4. toServer' \in Seq(Upward') /\ toClient' \in Seq(Downward')
  BY <1>2, <1>3, QueuesFollow
<1>5. faults' \in 0 .. MaxFaults
  BY <1>1, <1>2
<1>6. f.n \in Nat /\ f.end \in BOOLEAN
  BY FrameTypes
<1>7. ASSUME NEW s \in Streams
      PROVE  /\ srv[s] \in Srv
             /\ srv[s].seen => stream[s].phase # "idle"
             /\ srv[s].answered => srv[s].seen
             /\ srv[s].left > 0 => srv[s].answered /\ ~srv[s].reset
  BY <1>1 DEF Sound
<1>8. CASE GotHeaders(f)
  <2>1. PICK v : v = [srv[f.s] EXCEPT !.seen = TRUE, !.ended = f.end]
    OBVIOUS
  <2>2. f.s \in Streams /\ f.s # 0 /\ srv' = [srv EXCEPT ![f.s] = v] /\ srvConn' \in SrvConn
    BY <1>1, <1>8, <2>1 DEF GotHeaders, Streams
  <2>3. v \in Srv /\ v.answered = srv[f.s].answered /\ v.left = srv[f.s].left
          /\ v.reset = srv[f.s].reset /\ v.seen
    <3>1. PICK o \in Srv : o = srv[f.s]
      BY <1>7, <2>2
    <3> QED BY <1>6, <2>1, <3>1 DEF Srv
  <2> QED BY <1>2, <1>4, <1>5, <1>7, <2>2, <2>3, ServerStreamSound
<1>9. CASE GotData(f)
  <2>1. PICK end \in BOOLEAN, hole \in BOOLEAN, got \in Nat :
          srv' = [srv EXCEPT ![f.s] = [srv[f.s] EXCEPT !.recvWin = srv[f.s].recvWin - f.n,
                                         !.ended = end, !.hole = hole, !.got = got]]
    BY <1>9 DEF GotData
  <2>2. f.s \in Streams /\ srvConn' = [srvConn EXCEPT !.recvWin = @ - f.n]
    BY <1>9 DEF GotData
  <2>3. srvConn' \in SrvConn
    BY <1>1, <1>6, <2>2 DEF SrvConn
  <2>4. PICK w \in Srv : w = srv[f.s]
    BY <1>7, <2>2
  <2>5. w.recvWin - f.n \in Int
    BY <1>6 DEF Srv
  <2>6. PICK v : v = [w EXCEPT !.recvWin = w.recvWin - f.n,
                               !.ended = end, !.hole = hole, !.got = got]
    OBVIOUS
  <2>7. v \in Srv /\ v.answered = w.answered /\ v.left = w.left /\ v.reset = w.reset /\ v.seen = w.seen
    BY <2>5, <2>6 DEF Srv
  <2>8. srv' = [srv EXCEPT ![f.s] = v]
    BY <2>1, <2>4, <2>6
  <2> QED BY <1>2, <1>4, <1>5, <1>7, <2>2, <2>3, <2>4, <2>7, <2>8, ServerStreamSound
<1>10. CASE GotReset(f)
  <2>1. PICK v : v = [srv[f.s] EXCEPT !.reset = TRUE, !.left = 0]
    OBVIOUS
  <2>2. f.s \in Streams /\ srv' = [srv EXCEPT ![f.s] = v] /\ srvConn' \in SrvConn
    BY <1>1, <1>10, <2>1 DEF GotReset
  <2>3. v \in Srv /\ v.answered = srv[f.s].answered /\ v.left = 0 /\ v.seen = srv[f.s].seen
    BY <1>7, <2>1, <2>2 DEF Srv
  <2>4. v.seen => stream[f.s].phase # "idle"
    BY <1>7, <2>2, <2>3
  <2>5. (v.answered => v.seen) /\ (v.left > 0 => v.answered /\ ~v.reset)
    BY <1>7, <2>2, <2>3
  <2>6. UNCHANGED clientVars
    BY <1>2
  <2> QED BY <1>4, <1>5, <2>2, <2>3, <2>4, <2>5, <2>6, ServerStreamSound
<1>11. CASE GotConnUpdate(f)
  <2>1. srv' = srv /\ srvConn' = [srvConn EXCEPT !.sendWin = @ + f.n]
    BY <1>11 DEF GotConnUpdate
  <2>2. srvConn' \in SrvConn
    BY <1>1, <1>6, <2>1 DEF SrvConn
  <2> QED BY <1>1, <1>2, <1>4, <1>5, <1>7, <2>1, <2>2, ServerSound
<1>12. CASE GotUpdate(f)
  <2>1. PICK w \in Srv : w = srv[f.s] /\ f.s \in Streams
    BY <1>7, <1>12 DEF GotUpdate
  <2>2. PICK v : v = [w EXCEPT !.sendWin = w.sendWin + f.n]
    OBVIOUS
  <2>3. srv' = [srv EXCEPT ![f.s] = v] /\ srvConn' \in SrvConn
    BY <1>1, <1>12, <2>1, <2>2 DEF GotUpdate
  <2>4. w.sendWin + f.n \in Nat
    BY <1>6 DEF Srv
  <2>5. v \in Srv /\ v.answered = w.answered /\ v.left = w.left /\ v.reset = w.reset /\ v.seen = w.seen
    BY <2>2, <2>4 DEF Srv
  <2> QED BY <1>2, <1>4, <1>5, <1>7, <2>1, <2>3, <2>5, ServerStreamSound
<1> QED BY <1>2, <1>8, <1>9, <1>10, <1>11, <1>12

LEMMA WindowTypes ==
  /\ SendWindow \in Nat /\ PeerWindow \in Nat /\ RecvWindow \in Nat
  /\ ConnCredit \in Nat /\ StreamWindow \in Nat /\ StreamCredit \in Nat
BY H2Assumption

(* What SrvCredits does.                                                   *)
Credited(s, f, g, v) ==
  /\ ~sess.destroyed
  /\ f.type = "WINDOW_UPDATE" /\ f.s = 0 /\ f.n = SendWindow - srvConn.recvWin
  /\ g.type = "WINDOW_UPDATE" /\ g.s = s /\ g.n = PeerWindow - srv[s].recvWin
  /\ toClient' = toClient \o (<<f>> \o <<g>>)
  /\ v = [srv[s] EXCEPT !.recvWin = PeerWindow] /\ srv' = [srv EXCEPT ![s] = v]
  /\ srvConn' = [srvConn EXCEPT !.recvWin = SendWindow] /\ srvConn' \in SrvConn
  /\ srv[s].seen
  /\ UNCHANGED <<clientVars, toServer, faults>>

LEMMA SrvCreditsDoes ==
  ASSUME Sound, NEW s \in Streams, SrvCredits(s)
  PROVE  \E f \in Frame, g \in Frame, v \in Srv : Credited(s, f, g, v)
<1>1. PICK w \in Srv : w = srv[s]
  BY DEF Sound, TypeOK
<1>2. srv \in [Streams -> Srv] /\ srvConn \in SrvConn
  BY DEF Sound, TypeOK
<1>3. /\ ~sess.destroyed /\ w.seen /\ w.recvWin < PeerWindow /\ srvConn.recvWin < SendWindow
      /\ toClient' = toClient \o <<[Fr("WINDOW_UPDATE", 0) EXCEPT !.n = SendWindow - srvConn.recvWin],
                                   [Fr("WINDOW_UPDATE", s) EXCEPT !.n = PeerWindow - w.recvWin]>>
      /\ srv' = [srv EXCEPT ![s].recvWin = PeerWindow]
      /\ srvConn' = [srvConn EXCEPT !.recvWin = SendWindow]
      /\ UNCHANGED <<clientVars, toServer, faults>>
  BY <1>1 DEF SrvCredits
<1>4. SendWindow - srvConn.recvWin \in Nat /\ PeerWindow - w.recvWin \in Nat
  <2>1. w.recvWin \in Int /\ srvConn.recvWin \in Int
    BY <1>2 DEF Srv, SrvConn
  <2>2. w.recvWin < PeerWindow /\ srvConn.recvWin < SendWindow
    BY <1>3
  <2> QED BY <2>1, <2>2, WindowTypes
<1>5. PICK f : f = [Fr("WINDOW_UPDATE", 0) EXCEPT !.n = SendWindow - srvConn.recvWin]
  OBVIOUS
<1>6. PICK g : g = [Fr("WINDOW_UPDATE", s) EXCEPT !.n = PeerWindow - w.recvWin]
  OBVIOUS
<1>7. f \in Frame /\ f.type = "WINDOW_UPDATE" /\ f.s = 0 /\ f.n = SendWindow - srvConn.recvWin
  <2>1. 0 \in 0 .. MaxStreams
    BY H2Assumption
  <2> QED BY <1>4, <1>5, <2>1, UpdateTypes
<1>8. g \in Frame /\ g.type = "WINDOW_UPDATE" /\ g.s = s /\ g.n = PeerWindow - w.recvWin
  <2>1. s \in 0 .. MaxStreams
    BY DEF Streams
  <2> QED BY <1>4, <1>6, <2>1, UpdateTypes
<1>9. toClient' = toClient \o (<<f>> \o <<g>>)
  <2>1. toClient' = toClient \o <<f, g>>
    BY <1>3, <1>5, <1>6
  <2> QED BY <1>7, <1>8, <2>1, TwoFrames
<1>10. PICK v : v = [w EXCEPT !.recvWin = PeerWindow]
  OBVIOUS
<1>11. v \in Srv
  BY <1>10, H2Assumption DEF Srv
<1>12. srv' = [srv EXCEPT ![s] = v]
  BY <1>1, <1>2, <1>3, <1>10
<1>13. srvConn' \in SrvConn
  <2>1. srvConn' = [srvConn EXCEPT !.recvWin = SendWindow] /\ SendWindow \in Int
    BY <1>3, WindowTypes
  <2> QED BY <1>2, <2>1 DEF SrvConn
<1>14. Credited(s, f, g, v)
  BY <1>1, <1>3, <1>7, <1>8, <1>9, <1>10, <1>12, <1>13, Zenon DEF Credited
<1> QED BY <1>7, <1>8, <1>11, <1>14, Zenon

LEMMA SrvCreditsSound ==
  ASSUME Sound, NEW s \in Streams, SrvCredits(s)
  PROVE  Sound' /\ Forward
<1>0. PICK f \in Frame, g \in Frame, v \in Srv : Credited(s, f, g, v)
  BY SrvCreditsDoes, Zenon
<1>1. /\ f.type = "WINDOW_UPDATE" /\ f.s = 0
      /\ g.type = "WINDOW_UPDATE" /\ g.s = s
      /\ toClient' = toClient \o (<<f>> \o <<g>>)
      /\ v = [srv[s] EXCEPT !.recvWin = PeerWindow] /\ srv' = [srv EXCEPT ![s] = v]
      /\ srvConn' \in SrvConn /\ srv[s].seen
      /\ UNCHANGED <<clientVars, toServer, faults>>
  BY <1>0 DEF Credited
<1>2. srv[s] \in Srv
  BY DEF Sound, TypeOK
<1>3. v.seen = srv[s].seen /\ v.answered = srv[s].answered /\ v.left = srv[s].left
        /\ v.reset = srv[s].reset
  BY <1>1, <1>2 DEF Srv
<1>4. Forward /\ stream' = stream
  BY <1>1 DEF clientVars, Forward
<1>5. stream'[s].phase # "idle"
  BY <1>1, <1>4 DEF Sound
<1>6. PICK fs \in Seq(Frame) : /\ fs = <<f>> \o <<g>>
                               /\ \A i \in 1 .. Len(fs) : fs[i].type = "WINDOW_UPDATE" /\ fs[i].s \in {0, s}
  <2>1. PICK fs : fs = <<f>> \o <<g>>
    OBVIOUS
  <2>2. fs \in Seq(Frame) /\ Len(fs) = 2 /\ fs[1] = f /\ fs[2] = g
    BY <2>1, TwoFrames
  <2>3. \A i \in 1 .. Len(fs) : fs[i].type = "WINDOW_UPDATE" /\ fs[i].s \in {0, s}
    BY <1>1, <2>2
  <2> QED BY <2>1, <2>2, <2>3
<1>7. toClient' \in Seq(Downward')
  BY <1>1, <1>4, <1>5, <1>6, AddedTypes
<1>8. faults' \in 0 .. MaxFaults /\ toServer' \in Seq(Upward')
  BY <1>1, <1>4, QueuesFollow, FaultTypes
<1>9. /\ v.seen => stream[s].phase # "idle"
      /\ v.answered => v.seen
      /\ v.left > 0 => v.answered /\ ~v.reset
  BY <1>3 DEF Sound
<1> QED BY <1>1, <1>7, <1>8, <1>9, ServerStreamSound

(* The frames of an answer.                                                *)
Block(f, s, b) == f.type = "HEADERS" /\ f.s = s /\ f.n = 0 /\ f.block = b

Answer(fs, s, size, form) ==
  LET b == srvConn.blocks + 1
  IN  \/ /\ form = "plain"
         /\ \E g \in Frame : fs = <<g>> /\ Block(g, s, b) /\ g.fin /\ (g.end <=> size = 0)
      \/ /\ form = "interim"
         /\ \E e \in Frame, g \in Frame :
              /\ fs = <<e>> \o <<g>> /\ Block(e, s, b) /\ e.fin /\ ~e.end
              /\ Block(g, s, b + 1) /\ g.fin /\ (g.end <=> size = 0)
      \/ /\ form = "split"
         /\ \E g \in Frame, r \in Frame :
              /\ fs = <<g>> \o <<r>> /\ Block(g, s, b) /\ ~g.fin /\ (g.end <=> size = 0)
              /\ r.type = "CONTINUATION" /\ r.s = s /\ r.n = 0 /\ r.block = b /\ ~r.end /\ r.fin

Answered(s, size, form, fs, v) ==
  /\ ~sess.destroyed /\ srv[s].seen /\ ~srv[s].reset /\ ~srv[s].answered
  /\ Answer(fs, s, size, form) /\ toClient' = toClient \o fs
  /\ v = [srv[s] EXCEPT !.answered = TRUE, !.total = size, !.left = size]
  /\ srv' = [srv EXCEPT ![s] = v]
  /\ srvConn' = [srvConn EXCEPT !.blocks = @ + IF form = "interim" THEN 2 ELSE 1]
  /\ srvConn' \in SrvConn
  /\ UNCHANGED <<clientVars, toServer, faults>>

LEMMA SrvAnswersDoes ==
  ASSUME Sound, NEW s \in Streams, NEW size \in Answers, NEW form \in Forms,
         SrvAnswers(s, size, form)
  PROVE  \E fs \in Seq(Frame), v \in Srv : Answered(s, size, form, fs, v)
<1>1. PICK w \in Srv : w = srv[s]
  BY DEF Sound, TypeOK
<1>2. srv \in [Streams -> Srv] /\ srvConn \in SrvConn
  BY DEF Sound, TypeOK
<1>3. PICK b \in Nat : b = srvConn.blocks + 1
  BY <1>2 DEF SrvConn
<1>4. PICK b1 \in Nat : b1 = IF form = "interim" THEN b + 1 ELSE b
  OBVIOUS
<1>5. PICK end \in BOOLEAN, fin \in BOOLEAN : end = (size = 0) /\ fin = (form # "split")
  BY Zenon
<1>6. PICK e : e = [Fr("HEADERS", s) EXCEPT !.block = b, !.fin = TRUE]
  OBVIOUS
<1>7. PICK g : g = [[Fr("HEADERS", s) EXCEPT !.block = b1, !.fin = fin] EXCEPT !.end = end]
  OBVIOUS
<1>8. PICK r : r = [Fr("CONTINUATION", s) EXCEPT !.block = b1]
  OBVIOUS
<1>9. PICK fs : fs = CASE form = "plain" -> <<g>>
                       [] form = "interim" -> <<e, g>>
                       [] form = "split" -> <<g, r>>
  OBVIOUS
<1>10. /\ ~sess.destroyed /\ w.seen /\ ~w.reset /\ ~w.answered
       /\ toClient' = toClient \o fs
       /\ srv' = [srv EXCEPT ![s].answered = TRUE, ![s].total = size, ![s].left = size]
       /\ srvConn' = [srvConn EXCEPT !.blocks = b1]
       /\ UNCHANGED <<clientVars, toServer, faults>>
  BY <1>1, <1>3, <1>4, <1>5, <1>6, <1>7, <1>8, <1>9 DEF SrvAnswers
<1>11. size \in Nat /\ s \in 0 .. MaxStreams /\ form \in {"plain", "interim", "split"}
  BY H2Assumption DEF Streams
<1>12. e \in Frame /\ Block(e, s, b) /\ e.fin /\ ~e.end
  <2>1. e = [type |-> "HEADERS", s |-> s, n |-> 0, pad |-> 0, from |-> 0,
             end |-> FALSE, fin |-> TRUE, block |-> b]
    BY <1>6 DEF Fr
  <2> QED BY <1>11, <2>1 DEF Frame, Block
<1>13. g \in Frame /\ Block(g, s, b1) /\ (g.fin <=> fin) /\ (g.end <=> end)
  <2>1. g = [type |-> "HEADERS", s |-> s, n |-> 0, pad |-> 0, from |-> 0,
             end |-> end, fin |-> fin, block |-> b1]
    BY <1>7 DEF Fr
  <2>2. g \in Frame
    BY <1>11, <2>1 DEF Frame
  <2>3. Block(g, s, b1)
    BY <2>1 DEF Block
  <2>4. (g.fin <=> fin) /\ (g.end <=> end)
    BY <2>1
  <2> QED BY <2>2, <2>3, <2>4
<1>14. r \in Frame /\ r.type = "CONTINUATION" /\ r.s = s /\ r.n = 0 /\ r.block = b1 /\ ~r.end /\ r.fin
  <2>1. r = [type |-> "CONTINUATION", s |-> s, n |-> 0, pad |-> 0, from |-> 0,
             end |-> FALSE, fin |-> TRUE, block |-> b1]
    BY <1>8 DEF Fr
  <2> QED BY <1>11, <2>1 DEF Frame
<1>15. (g.fin <=> form # "split") /\ (g.end <=> size = 0)
  BY <1>5, <1>13
<1>16. ASSUME form = "plain"
       PROVE  fs \in Seq(Frame) /\ Answer(fs, s, size, form)
  <2>1. fs = <<g>> /\ b1 = b
    BY <1>4, <1>9, <1>16
  <2>2. fs \in Seq(Frame) /\ Answer(fs, s, size, form)
    BY <1>3, <1>13, <1>15, <1>16, <2>1, OneFrame DEF Answer
  <2> QED BY <2>2
<1>17. ASSUME form = "interim"
       PROVE  fs \in Seq(Frame) /\ Answer(fs, s, size, form)
  <2>1. fs = <<e>> \o <<g>> /\ fs \in Seq(Frame) /\ b1 = b + 1
    BY <1>4, <1>9, <1>12, <1>13, <1>17, TwoFrames
  <2>2. Answer(fs, s, size, form)
    BY <1>3, <1>12, <1>13, <1>15, <1>17, <2>1, Zenon DEF Answer
  <2> QED BY <2>1, <2>2
<1>18. ASSUME form = "split"
       PROVE  fs \in Seq(Frame) /\ Answer(fs, s, size, form)
  <2>1. fs = <<g>> \o <<r>> /\ fs \in Seq(Frame) /\ b1 = b
    BY <1>4, <1>9, <1>13, <1>14, <1>18, TwoFrames
  <2>2. Answer(fs, s, size, form)
    BY <1>3, <1>13, <1>14, <1>15, <1>18, <2>1, Zenon DEF Answer
  <2> QED BY <2>1, <2>2
<1>19. fs \in Seq(Frame) /\ Answer(fs, s, size, form)
  BY <1>11, <1>16, <1>17, <1>18
<1>20. PICK v : v = [w EXCEPT !.answered = TRUE, !.total = size, !.left = size]
  OBVIOUS
<1>21. v \in Srv
  BY <1>11, <1>20 DEF Srv
<1>22. srv' = [srv EXCEPT ![s] = v]
  BY <1>1, <1>2, <1>10, <1>20
<1>23. srvConn' = [srvConn EXCEPT !.blocks = @ + IF form = "interim" THEN 2 ELSE 1]
  <2>1. b1 = srvConn.blocks + IF form = "interim" THEN 2 ELSE 1
    BY <1>2, <1>3, <1>4 DEF SrvConn
  <2> QED BY <1>10, <2>1
<1>24. srvConn' \in SrvConn
  BY <1>2, <1>10 DEF SrvConn
<1>25. Answered(s, size, form, fs, v)
  BY <1>1, <1>10, <1>19, <1>20, <1>22, <1>23, <1>24, Zenon DEF Answered
<1> QED BY <1>19, <1>21, <1>25, Zenon

LEMMA AnswerFrames ==
  ASSUME NEW fs \in Seq(Frame), NEW s \in Streams, NEW size, NEW form, Answer(fs, s, size, form)
  PROVE  \A i \in 1 .. Len(fs) : /\ fs[i].type \in {"HEADERS", "CONTINUATION"}
                                 /\ fs[i].s = s /\ fs[i].n = 0
<1>1. CASE form = "plain"
  <2>1. PICK g \in Frame : fs = <<g>> /\ g.type = "HEADERS" /\ g.s = s /\ g.n = 0
    BY <1>1 DEF Answer, Block
  <2> QED BY <2>1
<1>2. CASE form # "plain"
  <2>1. PICK e \in Frame, g \in Frame :
          /\ fs = <<e>> \o <<g>> /\ e.type = "HEADERS" /\ e.s = s /\ e.n = 0
          /\ g.type \in {"HEADERS", "CONTINUATION"} /\ g.s = s /\ g.n = 0
    BY <1>2 DEF Answer, Block
  <2>2. Len(fs) = 2 /\ fs[1] = e /\ fs[2] = g
    BY <2>1, TwoFrames
  <2> QED BY <2>1, <2>2
<1> QED BY <1>1, <1>2

LEMMA SrvAnswersSound ==
  ASSUME Sound, NEW s \in Streams, NEW size \in Answers, NEW form \in Forms,
         SrvAnswers(s, size, form)
  PROVE  Sound' /\ Forward
<1>0. PICK fs \in Seq(Frame), v \in Srv : Answered(s, size, form, fs, v)
  BY SrvAnswersDoes, Zenon
<1>1. /\ srv[s].seen /\ ~srv[s].reset
      /\ Answer(fs, s, size, form) /\ toClient' = toClient \o fs
      /\ v = [srv[s] EXCEPT !.answered = TRUE, !.total = size, !.left = size]
      /\ srv' = [srv EXCEPT ![s] = v]
      /\ srvConn' \in SrvConn
      /\ UNCHANGED <<clientVars, toServer, faults>>
  BY <1>0 DEF Answered
<1>2. srv[s] \in Srv
  BY DEF Sound, TypeOK
<1>3. v.seen = srv[s].seen /\ v.answered /\ v.reset = srv[s].reset
  BY <1>1, <1>2 DEF Srv
<1>4. Forward /\ stream' = stream
  BY <1>1 DEF clientVars, Forward
<1>5. stream'[s].phase # "idle" /\ s # 0
  BY <1>1, <1>4 DEF Sound, Streams
<1>6. \A i \in 1 .. Len(fs) : fs[i].s = s
  BY <1>1, AnswerFrames
<1>7. toClient' \in Seq(Downward')
  BY <1>1, <1>4, <1>5, <1>6, AddedTypes
<1>8. faults' \in 0 .. MaxFaults /\ toServer' \in Seq(Upward')
  BY <1>1, <1>4, QueuesFollow, FaultTypes
<1>9. (v.seen => stream[s].phase # "idle") /\ (v.answered => v.seen)
        /\ (v.left > 0 => v.answered /\ ~v.reset)
  BY <1>1, <1>3 DEF Sound
<1>10. UNCHANGED clientVars
  BY <1>1
<1> QED BY <1>1, <1>7, <1>8, <1>9, <1>10, ServerStreamSound

(* What SrvSends and SrvResets do.                                         *)
SentData(s, n, pad, f, v) ==
  /\ ~sess.destroyed /\ n \in 1 .. srv[s].left
  /\ n + pad <= srv[s].sendWin /\ n + pad <= srvConn.sendWin
  /\ f.type = "DATA" /\ f.s = s /\ f.n = n /\ (f.end <=> n = srv[s].left)
  /\ toClient' = toClient \o <<f>>
  /\ v = [srv[s] EXCEPT !.left = srv[s].left - n, !.sendWin = srv[s].sendWin - (n + pad)]
  /\ srv' = [srv EXCEPT ![s] = v]
  /\ srvConn' = [srvConn EXCEPT !.sendWin = srvConn.sendWin - (n + pad)]
  /\ srvConn' \in SrvConn
  /\ UNCHANGED <<clientVars, toServer, faults>>

LEMMA SrvSendsDoes ==
  ASSUME Sound, NEW s \in Streams, NEW n \in Nat, NEW pad \in Pads, SrvSends(s, n, pad)
  PROVE  \E f \in Frame, v \in Srv : SentData(s, n, pad, f, v)
<1>1. PICK w \in Srv : w = srv[s]
  BY DEF Sound, TypeOK
<1>2. srv \in [Streams -> Srv] /\ srvConn \in SrvConn /\ pad \in Nat /\ toClient \in Seq(Frame)
  BY H2Assumption DEF Sound, TypeOK
<1>3. PICK end \in BOOLEAN : end = (n = w.left)
  BY Zenon
<1>4. PICK f : f = [Fr("DATA", s) EXCEPT !.n = n, !.pad = pad, !.end = end]
  OBVIOUS
<1>5. /\ ~sess.destroyed /\ n \in 1 .. w.left
      /\ n + pad <= w.sendWin /\ n + pad <= srvConn.sendWin
      /\ toClient' = Append(toClient, f)
      /\ srv' = [srv EXCEPT ![s].left = @ - n, ![s].sendWin = @ - (n + pad)]
      /\ srvConn' = [srvConn EXCEPT !.sendWin = @ - (n + pad)]
      /\ UNCHANGED <<clientVars, toServer, faults>>
  BY <1>1, <1>3, <1>4 DEF SrvSends
<1>6. f = [type |-> "DATA", s |-> s, n |-> n, pad |-> pad, from |-> 0,
           end |-> end, fin |-> TRUE, block |-> 0]
  BY <1>4 DEF Fr
<1>7. f \in Frame
  <2>1. s \in 0 .. MaxStreams
    BY DEF Streams
  <2> QED BY <1>2, <1>6, <2>1 DEF Frame
<1>8. f.type = "DATA" /\ f.s = s /\ f.n = n /\ (f.end <=> n = w.left)
  <2>1. f.end <=> end
    BY <1>6
  <2> QED BY <1>3, <1>6, <2>1
<1>9. toClient' = toClient \o <<f>>
  BY <1>2, <1>5, <1>7
<1>10. w.left \in Nat /\ w.sendWin \in Nat /\ srvConn.sendWin \in Nat
  BY <1>2 DEF Srv, SrvConn
<1>11. w.left - n \in Nat /\ w.sendWin - (n + pad) \in Nat /\ srvConn.sendWin - (n + pad) \in Nat
  BY <1>2, <1>5, <1>10
<1>12. PICK v : v = [w EXCEPT !.left = w.left - n, !.sendWin = w.sendWin - (n + pad)]
  OBVIOUS
<1>13. v \in Srv
  BY <1>11, <1>12 DEF Srv
<1>14. srv' = [srv EXCEPT ![s] = v]
  BY <1>1, <1>2, <1>5, <1>12
<1>15. srvConn' = [srvConn EXCEPT !.sendWin = srvConn.sendWin - (n + pad)] /\ srvConn' \in SrvConn
  BY <1>2, <1>5, <1>11 DEF SrvConn
<1>16. SentData(s, n, pad, f, v)
  BY <1>1, <1>5, <1>8, <1>9, <1>12, <1>14, <1>15, Zenon DEF SentData
<1> QED BY <1>7, <1>13, <1>16, Zenon

LEMMA SrvSendsSound ==
  ASSUME Sound, NEW s \in Streams, NEW n \in Nat, NEW pad \in Pads, SrvSends(s, n, pad)
  PROVE  Sound' /\ Forward
<1>0. PICK f \in Frame, v \in Srv : SentData(s, n, pad, f, v)
  BY SrvSendsDoes, Zenon
<1>1. /\ n \in 1 .. srv[s].left /\ f.type = "DATA" /\ f.s = s
      /\ toClient' = toClient \o <<f>>
      /\ v = [srv[s] EXCEPT !.left = srv[s].left - n, !.sendWin = srv[s].sendWin - (n + pad)]
      /\ srv' = [srv EXCEPT ![s] = v]
      /\ srvConn' \in SrvConn
      /\ UNCHANGED <<clientVars, toServer, faults>>
  BY <1>0 DEF SentData
<1>2. srv[s] \in Srv /\ srv[s].left > 0
  <2>1. srv[s] \in Srv
    BY DEF Sound, TypeOK
  <2>2. srv[s].left \in Nat
    BY <2>1 DEF Srv
  <2> QED BY <1>1, <2>1, <2>2
<1>3. v.seen = srv[s].seen /\ v.answered = srv[s].answered /\ v.reset = srv[s].reset
  BY <1>1, <1>2 DEF Srv
<1>4. srv[s].answered /\ srv[s].seen /\ ~srv[s].reset /\ stream[s].phase # "idle"
  BY <1>2 DEF Sound
<1>5. Forward /\ stream' = stream
  BY <1>1 DEF clientVars, Forward
<1>6. PICK fs \in Seq(Frame) : fs = <<f>> /\ \A i \in 1 .. Len(fs) : fs[i] = f
  <2>1. toClient \in Seq(Frame)
    BY DEF Sound, TypeOK
  <2> QED BY <2>1, AddOne
<1>7. toClient' \in Seq(Downward')
  <2>1. s # 0
    BY DEF Streams
  <2> QED BY <1>1, <1>4, <1>5, <1>6, <2>1, AddedTypes
<1>8. faults' \in 0 .. MaxFaults /\ toServer' \in Seq(Upward') /\ UNCHANGED clientVars
  BY <1>1, <1>5, QueuesFollow, FaultTypes
<1> QED BY <1>1, <1>3, <1>4, <1>7, <1>8, ServerStreamSound

LEMMA SrvResetsSound ==
  ASSUME Sound, NEW s \in Streams, SrvResets(s)
  PROVE  Sound' /\ Forward
<1>1. PICK w \in Srv : w = srv[s]
  BY DEF Sound, TypeOK
<1>2. srv \in [Streams -> Srv] /\ srvConn \in SrvConn /\ toClient \in Seq(Frame)
  BY DEF Sound, TypeOK
<1>3. PICK f : f = Fr("RST_STREAM", s)
  OBVIOUS
<1>4. /\ Fault /\ w.seen
      /\ srv' = [srv EXCEPT ![s].reset = TRUE, ![s].left = 0]
      /\ toClient' = Append(toClient, f)
      /\ UNCHANGED <<clientVars, srvConn, toServer>>
  BY <1>1, <1>3 DEF SrvResets
<1>5. f \in Frame /\ f.type = "RST_STREAM" /\ f.s = s
  <2>1. s \in 0 .. MaxStreams
    BY DEF Streams
  <2>2. f.type = "RST_STREAM" /\ f.s = s
    BY <1>3 DEF Fr
  <2> QED BY <1>3, <2>1, <2>2, FrTypes
<1>6. PICK fs \in Seq(Frame) : /\ fs = <<f>> /\ \A i \in 1 .. Len(fs) : fs[i] = f
                              /\ Append(toClient, f) = toClient \o fs
  BY <1>2, <1>5, AddOne
<1>7. toClient' = toClient \o fs
  BY <1>4, <1>6
<1>8. PICK v : v = [w EXCEPT !.reset = TRUE, !.left = 0]
  OBVIOUS
<1>9. v \in Srv /\ v.left = 0 /\ v.seen = w.seen /\ v.answered = w.answered
  BY <1>8 DEF Srv
<1>10. srv' = [srv EXCEPT ![s] = v]
  BY <1>1, <1>2, <1>4, <1>8
<1>11. Forward /\ stream' = stream /\ UNCHANGED clientVars
  BY <1>4 DEF clientVars, Forward
<1>12. w.seen => stream[s].phase # "idle"
  BY <1>1 DEF Sound
<1>13. w.answered => w.seen
  BY <1>1 DEF Sound
<1>14. toClient' \in Seq(Downward')
  <2>1. s # 0
    BY DEF Streams
  <2> QED BY <1>4, <1>5, <1>6, <1>7, <1>11, <1>12, <2>1, AddedTypes
<1>15. faults' \in 0 .. MaxFaults /\ toServer' \in Seq(Upward')
  BY <1>4, <1>11, QueuesFollow, FaultTypes
<1>16. (v.seen => stream[s].phase # "idle") /\ (v.answered => v.seen)
         /\ (v.left > 0 => v.answered /\ ~v.reset)
  BY <1>9, <1>12, <1>13
<1>17. srvConn' \in SrvConn
  BY <1>2, <1>4
<1> QED BY <1>9, <1>10, <1>11, <1>14, <1>15, <1>16, <1>17, ServerStreamSound

(* GOAWAY, or something malformed.                                         *)
LEMMA SrvSignalSound ==
  ASSUME Sound, NEW type \in {"GOAWAY", "BAD"}, Fault, srvConn' \in SrvConn,
         toClient' = Append(toClient, Fr(type, 0)), UNCHANGED <<clientVars, srv, toServer>>
  PROVE  Sound' /\ Forward
<1>1. toClient \in Seq(Frame) /\ srv \in [Streams -> Srv]
  BY DEF Sound, TypeOK
<1>2. PICK f : f = Fr(type, 0)
  OBVIOUS
<1>3. f \in Frame /\ f.type = type /\ f.s = 0
  <2>1. 0 \in 0 .. MaxStreams
    BY H2Assumption
  <2>2. f.type = type /\ f.s = 0
    BY <1>2 DEF Fr
  <2> QED BY <1>2, <2>1, <2>2, FrTypes
<1>4. PICK fs \in Seq(Frame) : /\ fs = <<f>> /\ \A i \in 1 .. Len(fs) : fs[i] = f
                              /\ Append(toClient, f) = toClient \o fs
  BY <1>1, <1>3, AddOne
<1>5. toClient' = toClient \o fs
  BY <1>2, <1>4
<1>6. Forward /\ UNCHANGED clientVars
  BY DEF clientVars, Forward
<1>7. toClient' \in Seq(Downward')
  BY <1>3, <1>4, <1>5, <1>6, AddedTypes
<1>8. faults' \in 0 .. MaxFaults /\ toServer' \in Seq(Upward')
  BY <1>6, QueuesFollow, FaultTypes
<1>9. ASSUME NEW s \in Streams
      PROVE  /\ srv'[s].seen => stream[s].phase # "idle"
             /\ srv'[s].answered => srv'[s].seen
             /\ srv'[s].left > 0 => srv'[s].answered /\ ~srv'[s].reset
  BY DEF Sound
<1> QED BY <1>1, <1>6, <1>7, <1>8, <1>9, ServerSound

LEMMA SrvGoawaySound ==
  ASSUME Sound, SrvGoaway
  PROVE  Sound' /\ Forward
<1>1. /\ Fault /\ srvConn' = [srvConn EXCEPT !.goaway = TRUE]
      /\ toClient' = Append(toClient, Fr("GOAWAY", 0)) /\ UNCHANGED <<clientVars, srv, toServer>>
  BY DEF SrvGoaway
<1>2. srvConn' \in SrvConn
  BY <1>1 DEF Sound, TypeOK, SrvConn
<1> QED BY <1>1, <1>2, SrvSignalSound

LEMMA SrvMalformedSound ==
  ASSUME Sound, SrvMalformed
  PROVE  Sound' /\ Forward
<1>1. /\ Fault /\ srvConn' = [srvConn EXCEPT !.bad = TRUE]
      /\ toClient' = Append(toClient, Fr("BAD", 0)) /\ UNCHANGED <<clientVars, srv, toServer>>
  BY DEF SrvMalformed
<1>2. srvConn' \in SrvConn
  BY <1>1 DEF Sound, TypeOK, SrvConn
<1> QED BY <1>1, <1>2, SrvSignalSound

LEMMA InitSound == Init => Sound
<1> SUFFICES ASSUME Init PROVE Sound
  OBVIOUS
<1>1. PICK k \in Kinds, b \in Bodies :
        k = (CHOOSE x \in Kinds : TRUE) /\ b = (CHOOSE x \in Bodies : TRUE)
  BY H2Assumption
<1>2. PICK st : st = [phase |-> "idle", sendWindow |-> SendWindow, recvUsed |-> 0,
                      assembling |-> FALSE, headerEnd |-> FALSE, kind |-> k, size |-> b,
                      offered |-> 0, wrote |-> FALSE, finished |-> FALSE]
  OBVIOUS
<1>3. st \in Stream
  BY <1>2, WindowTypes DEF Stream
<1>4. stream = [s \in Streams |-> st]
  BY <1>1, <1>2 DEF Init
<1>5. stream \in [Streams -> Stream]
  BY <1>3, <1>4
<1>6. sess \in Session /\ heard \in [Streams -> Heard]
  BY WindowTypes DEF Init, Session, Heard
<1>7. srv \in [Streams -> Srv] /\ srvConn \in SrvConn
  BY WindowTypes DEF Init, Srv, SrvConn
<1>8. faults \in 0 .. MaxFaults
  BY H2Assumption DEF Init
<1>9. toServer \in Seq(Frame) /\ toClient \in Seq(Frame)
        /\ toServer \in Seq(Upward) /\ toClient \in Seq(Downward)
  BY DEF Init
<1>10. \A s \in Streams : ~srv[s].seen /\ ~srv[s].answered /\ srv[s].left = 0
  BY DEF Init
<1> QED BY <1>5, <1>6, <1>7, <1>8, <1>9, <1>10 DEF Sound, TypeOK

LEMMA SoundStep ==
  ASSUME Sound, [Next]_vars
  PROVE  Sound' /\ Forward
<1>1. CASE Caller
  <2>1. ASSUME NEW s \in Streams, NEW k \in Kinds, NEW b \in Bodies, Request(s, k, b)
        PROVE  Sound' /\ Forward
    BY <2>1, RequestSound
  <2>2. ASSUME NEW s \in Streams, NEW b \in Bodies, NEW n \in 1 .. b, Write(s, n)
        PROVE  Sound' /\ Forward
    BY <2>2, WriteSound
  <2> QED BY <1>1, <2>1, <2>2, FinishSound, CancelSound, CloseSessionSound DEF Caller
<1>2. CASE Dispatch
  BY <1>2, OnHeadersSound, OnContinuationSound, OnDataSound, OnResetSound, OnUnknownSound,
     OnWindowUpdateSound, OnGoawaySound, OnBadSound DEF Dispatch
<1>3. CASE Server
  <2>1. ASSUME NEW s \in Streams, NEW a \in Answers, NEW form \in Forms, SrvAnswers(s, a, form)
        PROVE  Sound' /\ Forward
    BY <2>1, SrvAnswersSound
  <2>2. ASSUME NEW s \in Streams, NEW n \in 1 .. srv[s].left, NEW pad \in Pads, SrvSends(s, n, pad)
        PROVE  Sound' /\ Forward
    <3>1. n \in Nat
      OBVIOUS
    <3> QED BY <2>2, <3>1, SrvSendsSound
  <2> QED BY <1>3, <2>1, <2>2, SrvReceivesSound, SrvCreditsSound, SrvResetsSound,
             SrvGoawaySound, SrvMalformedSound DEF Server
<1>4. CASE UNCHANGED vars
  <2>1. UNCHANGED <<stream, sess, heard, srv, srvConn, toServer, toClient, faults>>
    BY <1>4 DEF vars
  <2>2. Upward' = Upward /\ Downward' = Downward
    BY <2>1 DEF Upward, Downward
  <2>3. Sound'
    BY <2>1, <2>2 DEF Sound, TypeOK
  <2> QED BY <2>1, <2>3 DEF Forward
<1> QED BY <1>1, <1>2, <1>3, <1>4 DEF Next

(* The state of a session is always well typed, and every frame on its way *)
(* is of a stream that was requested (session.js 383-386).                 *)
THEOREM SessionTypes == Spec => [](TypeOK /\ Sound)
<1>1. Sound => TypeOK
  BY DEF Sound
<1>2. Sound /\ [Next]_vars => Sound'
  BY SoundStep
<1> QED BY <1>1, <1>2, InitSound, PTL DEF Spec

-----------------------------------------------------------------------------
(***************************************************************************)
(* Windows.  What one side may still send, what it has under way and the   *)
(* credit on its way to it never exceed what the other side will take; the *)
(* window the client gives is never exceeded, and without padding nothing  *)
(* of it is lost.  A stream that has left the map keeps no account.        *)
(***************************************************************************)
SendConn ==
  srvConn.recvWin >= sess.connSend + UnderWay(toServer, "DATA", Streams)
                       + UnderWay(toClient, "WINDOW_UPDATE", {0})

SendStream(t) ==
  stream[t].phase # "gone" =>
    srv[t].recvWin + SendWindow >=
      stream[t].sendWindow + UnderWay(toServer, "DATA", {t})
        + UnderWay(toClient, "WINDOW_UPDATE", {t}) + PeerWindow

CreditedTo(total, window) == total <= window /\ (Pads \subseteq {0} => total = window)

CreditConn ==
  CreditedTo(srvConn.sendWin + sess.recvUsed + UnderWay(toClient, "DATA", Streams)
               + UnderWay(toServer, "WINDOW_UPDATE", {0}), RecvWindow)

CreditStream(t) ==
  stream[t].phase # "gone" =>
    CreditedTo(srv[t].sendWin + stream[t].recvUsed + UnderWay(toClient, "DATA", {t})
                 + UnderWay(toServer, "WINDOW_UPDATE", {t}), StreamWindow)

Windows ==
  /\ SendConn /\ \A t \in Streams : SendStream(t)
  /\ ~sess.destroyed => CreditConn /\ \A t \in Streams : CreditStream(t)

LEMMA Amounts ==
  ASSUME Sound
  PROVE  /\ sess.connSend \in Nat /\ sess.recvUsed \in Nat
         /\ srvConn.recvWin \in Int /\ srvConn.sendWin \in Nat
         /\ \A t \in Streams : /\ stream[t].sendWindow \in Nat /\ stream[t].recvUsed \in Nat
                               /\ srv[t].recvWin \in Int /\ srv[t].sendWin \in Nat
         /\ \A type, ids : /\ UnderWay(toServer, type, ids) \in Nat
                           /\ UnderWay(toClient, type, ids) \in Nat
<1>1. sess \in Session /\ srvConn \in SrvConn
  BY DEF Sound, TypeOK
<1>2. \A t \in Streams : stream[t] \in Stream /\ srv[t] \in Srv
  BY DEF Sound, TypeOK
<1>3. toServer \in Seq(Frame) /\ toClient \in Seq(Frame)
  BY DEF Sound, TypeOK
<1>4. sess.connSend \in Nat /\ sess.recvUsed \in Nat
  BY <1>1 DEF Session
<1>5. srvConn.recvWin \in Int /\ srvConn.sendWin \in Nat
  BY <1>1 DEF SrvConn
<1>6. \A t \in Streams : stream[t].sendWindow \in Nat /\ stream[t].recvUsed \in Nat
  BY <1>2 DEF Stream
<1>7. \A t \in Streams : srv[t].recvWin \in Int /\ srv[t].sendWin \in Nat
  BY <1>2 DEF Srv
<1>8. ASSUME NEW type, NEW ids
      PROVE  UnderWay(toServer, type, ids) \in Nat /\ UnderWay(toClient, type, ids) \in Nat
  BY <1>3, UnderWayNat
<1> QED BY <1>4, <1>5, <1>6, <1>7, <1>8

LEMMA AmountsNext ==
  ASSUME Sound'
  PROVE  \A type, ids : /\ UnderWay(toServer', type, ids) \in Nat
                        /\ UnderWay(toClient', type, ids) \in Nat
<1>1. toServer' \in Seq(Frame) /\ toClient' \in Seq(Frame)
  BY DEF Sound, TypeOK
<1> QED BY <1>1, UnderWayNat

LEMMA NoUnits ==
  ASSUME NEW fs \in Seq(Frame), NEW type, NEW ids,
         \A i \in 1 .. Len(fs) : fs[i].type = type /\ fs[i].s \in ids => fs[i].n = 0
  PROVE  UnderWay(fs, type, ids) = 0
<1>1. \A i \in DOMAIN fs : fs[i].type = type /\ fs[i].s \in ids => 1 .. fs[i].n = {}
  <2>1. DOMAIN fs = 1 .. Len(fs)
    OBVIOUS
  <2>2. 1 .. 0 = {}
    OBVIOUS
  <2> QED BY <2>1, <2>2
<1>2. Units(fs, type, ids) = {}
  BY <1>1 DEF Units
<1> QED BY <1>2, FS_EmptySet DEF UnderWay

(* What is sent adds to what is under way, unless the session is over.     *)
LEMMA SentUnits ==
  ASSUME Sound, NEW fs \in Seq(Frame), Sent(fs), NEW type, NEW ids
  PROVE  /\ UnderWay(fs, type, ids) \in Nat
         /\ UnderWay(toServer', type, ids) <= UnderWay(toServer, type, ids) + UnderWay(fs, type, ids)
         /\ ~sess.destroyed =>
              UnderWay(toServer', type, ids) = UnderWay(toServer, type, ids) + UnderWay(fs, type, ids)
<1>1. toServer \in Seq(Frame)
  BY DEF Sound, TypeOK
<1>2. UnderWay(fs, type, ids) \in Nat /\ UnderWay(toServer, type, ids) \in Nat
  BY <1>1, UnderWayNat
<1>3. CASE sess.destroyed
  <2>1. toServer' = toServer
    BY <1>3 DEF Sent
  <2> QED BY <1>2, <1>3, <2>1
<1>4. CASE ~sess.destroyed
  <2>1. toServer' = toServer \o fs
    BY <1>4 DEF Sent
  <2>2. UnderWay(toServer', type, ids) = UnderWay(toServer, type, ids) + UnderWay(fs, type, ids)
    BY <1>1, <2>1, UnderWayConcat
  <2> QED BY <1>2, <2>2
<1> QED BY <1>3, <1>4

(* A step that moves no units.                                             *)
Silent(q, r) ==
  \A ids : /\ UnderWay(r, "DATA", ids) <= UnderWay(q, "DATA", ids)
           /\ UnderWay(r, "WINDOW_UPDATE", ids) <= UnderWay(q, "WINDOW_UPDATE", ids)
Same(q, r) ==
  \A ids : /\ UnderWay(r, "DATA", ids) = UnderWay(q, "DATA", ids)
           /\ UnderWay(r, "WINDOW_UPDATE", ids) = UnderWay(q, "WINDOW_UPDATE", ids)

Quiet ==
  /\ sess'.connSend = sess.connSend /\ sess'.recvUsed = sess.recvUsed
  /\ sess.destroyed => sess'.destroyed
  /\ srvConn'.recvWin = srvConn.recvWin /\ srvConn'.sendWin = srvConn.sendWin
  /\ \A t \in Streams :
       /\ srv'[t].recvWin = srv[t].recvWin /\ srv'[t].sendWin = srv[t].sendWin
       /\ stream'[t].phase # "gone" =>
            /\ stream[t].phase # "gone"
            /\ stream'[t].sendWindow = stream[t].sendWindow
            /\ stream'[t].recvUsed = stream[t].recvUsed
  /\ Silent(toServer, toServer') /\ Silent(toClient, toClient')
  /\ ~sess'.destroyed => Same(toServer, toServer') /\ Same(toClient, toClient')

(* Less is under way, and nothing else of what the client may send changes.*)
LEMMA SendKept ==
  ASSUME Sound, Sound', Windows,
         sess'.connSend = sess.connSend, srvConn'.recvWin = srvConn.recvWin,
         \A t \in Streams :
           /\ srv'[t].recvWin = srv[t].recvWin
           /\ stream'[t].phase # "gone" =>
                stream[t].phase # "gone" /\ stream'[t].sendWindow = stream[t].sendWindow,
         \A ids : /\ UnderWay(toServer', "DATA", ids) <= UnderWay(toServer, "DATA", ids)
                  /\ UnderWay(toClient', "WINDOW_UPDATE", ids) <= UnderWay(toClient, "WINDOW_UPDATE", ids)
  PROVE  SendConn' /\ \A t \in Streams : SendStream(t)'
<1>1. SendConn'
  <2>1. /\ UnderWay(toServer', "DATA", Streams) <= UnderWay(toServer, "DATA", Streams)
        /\ UnderWay(toClient', "WINDOW_UPDATE", {0}) <= UnderWay(toClient, "WINDOW_UPDATE", {0})
    OBVIOUS
  <2>2. UnderWay(toServer', "DATA", Streams) \in Nat /\ UnderWay(toClient', "WINDOW_UPDATE", {0}) \in Nat
    BY AmountsNext
  <2>3. SendConn /\ sess'.connSend = sess.connSend /\ srvConn'.recvWin = srvConn.recvWin
    BY DEF Windows
  <2> QED BY <2>1, <2>2, <2>3, Amounts DEF SendConn
<1>2. ASSUME NEW t \in Streams PROVE SendStream(t)'
  <2>1. /\ UnderWay(toServer', "DATA", {t}) <= UnderWay(toServer, "DATA", {t})
        /\ UnderWay(toClient', "WINDOW_UPDATE", {t}) <= UnderWay(toClient, "WINDOW_UPDATE", {t})
    OBVIOUS
  <2>2. UnderWay(toServer', "DATA", {t}) \in Nat /\ UnderWay(toClient', "WINDOW_UPDATE", {t}) \in Nat
    BY AmountsNext
  <2>3. /\ SendStream(t) /\ srv'[t].recvWin = srv[t].recvWin
        /\ stream'[t].phase # "gone" =>
            stream[t].phase # "gone" /\ stream'[t].sendWindow = stream[t].sendWindow
    BY DEF Windows
  <2> QED BY <2>1, <2>2, <2>3, Amounts, WindowTypes DEF SendStream
<1> QED BY <1>1, <1>2

LEMMA WindowsQuiet ==
  ASSUME Sound, Sound', Windows, Quiet
  PROVE  Windows'
<1>1. SendConn' /\ \A t \in Streams : SendStream(t)'
  BY SendKept DEF Quiet, Silent
<1>3. ASSUME ~sess'.destroyed
      PROVE  CreditConn' /\ \A t \in Streams : CreditStream(t)'
  <2>1. ~sess.destroyed /\ Same(toServer, toServer') /\ Same(toClient, toClient')
    BY <1>3 DEF Quiet
  <2>2. CreditConn'
    <3>1. CreditConn /\ sess'.recvUsed = sess.recvUsed /\ srvConn'.sendWin = srvConn.sendWin
      BY <2>1 DEF Windows, Quiet
    <3> QED BY <2>1, <3>1 DEF CreditConn, Same
  <2>3. ASSUME NEW t \in Streams PROVE CreditStream(t)'
    <3>1. /\ CreditStream(t) /\ srv'[t].sendWin = srv[t].sendWin
          /\ stream'[t].phase # "gone" =>
              stream[t].phase # "gone" /\ stream'[t].recvUsed = stream[t].recvUsed
      BY <2>1 DEF Windows, Quiet
    <3> QED BY <2>1, <3>1 DEF CreditStream, Same
  <2> QED BY <2>2, <2>3
<1> QED BY <1>1, <1>3 DEF Windows

LEMMA SameSilent ==
  ASSUME NEW q \in Seq(Frame), NEW r, Same(q, r)
  PROVE  Silent(q, r)
<1>1. \A ids : UnderWay(q, "DATA", ids) \in Nat /\ UnderWay(q, "WINDOW_UPDATE", ids) \in Nat
  BY UnderWayNat
<1> QED BY <1>1 DEF Same, Silent

LEMMA SentSame ==
  ASSUME Sound, NEW fs \in Seq(Frame), Sent(fs),
         \A i \in 1 .. Len(fs) : fs[i].type \in {"DATA", "WINDOW_UPDATE"} => fs[i].n = 0
  PROVE  Same(toServer, toServer')
<1>1. CASE sess.destroyed
  <2>1. toServer' = toServer
    BY <1>1 DEF Sent
  <2> QED BY <2>1 DEF Same
<1>2. CASE ~sess.destroyed
  <2>1. ASSUME NEW type \in {"DATA", "WINDOW_UPDATE"}, NEW ids
        PROVE  UnderWay(toServer', type, ids) = UnderWay(toServer, type, ids)
    <3>1. UnderWay(fs, type, ids) = 0
      BY NoUnits
    <3>2. UnderWay(toServer', type, ids) = UnderWay(toServer, type, ids) + UnderWay(fs, type, ids)
      BY <1>2, SentUnits
    <3>3. UnderWay(toServer, type, ids) \in Nat
      BY Amounts
    <3> QED BY <3>1, <3>2, <3>3
  <2> QED BY <2>1 DEF Same
<1> QED BY <1>1, <1>2

LEMMA TakenSame ==
  ASSUME Sound, toClient # <<>>, toClient' = Tail(toClient),
         Head(toClient).type \notin {"DATA", "WINDOW_UPDATE"}
  PROVE  Same(toClient, toClient')
<1>1. toClient \in Seq(Frame) /\ Tail(toClient) \in Seq(Frame)
  BY DEF Sound, TypeOK
<1>2. ASSUME NEW type \in {"DATA", "WINDOW_UPDATE"}, NEW ids
      PROVE  UnderWay(toClient', type, ids) = UnderWay(toClient, type, ids)
  <2>1. UnderWay(toClient, type, ids)
          = Weight(Head(toClient), type, ids) + UnderWay(Tail(toClient), type, ids)
    BY <1>1, UnderWayTail
  <2>2. Weight(Head(toClient), type, ids) = 0
    BY DEF Weight
  <2>3. UnderWay(Tail(toClient), type, ids) \in Nat
    BY <1>1, UnderWayNat
  <2> QED BY <2>1, <2>2, <2>3
<1> QED BY <1>2 DEF Same

LEMMA AddedSame ==
  ASSUME Sound, NEW fs \in Seq(Frame), toClient' = toClient \o fs,
         \A i \in 1 .. Len(fs) : fs[i].type \in {"DATA", "WINDOW_UPDATE"} => fs[i].n = 0
  PROVE  Same(toClient, toClient')
<1>1. toClient \in Seq(Frame)
  BY DEF Sound, TypeOK
<1>2. ASSUME NEW type \in {"DATA", "WINDOW_UPDATE"}, NEW ids
      PROVE  UnderWay(toClient', type, ids) = UnderWay(toClient, type, ids)
  <2>1. UnderWay(fs, type, ids) = 0
    BY NoUnits
  <2>2. UnderWay(toClient', type, ids) = UnderWay(toClient, type, ids) + UnderWay(fs, type, ids)
    BY <1>1, UnderWayConcat
  <2>3. UnderWay(toClient, type, ids) \in Nat
    BY <1>1, UnderWayNat
  <2> QED BY <2>1, <2>2, <2>3
<1> QED BY <1>2 DEF Same

(* A client step that leaves the windows of the streams it keeps alone.    *)
LEMMA QuietClient ==
  ASSUME Sound, UNCHANGED serverVars,
         sess'.connSend = sess.connSend, sess'.recvUsed = sess.recvUsed,
         sess'.destroyed = sess.destroyed,
         \A t \in Streams : stream'[t].phase # "gone" =>
            /\ stream[t].phase # "gone"
            /\ stream'[t].sendWindow = stream[t].sendWindow
            /\ stream'[t].recvUsed = stream[t].recvUsed,
         Same(toServer, toServer'), Same(toClient, toClient')
  PROVE  Quiet
<1>1. Silent(toServer, toServer') /\ Silent(toClient, toClient')
  <2>1. toServer \in Seq(Frame) /\ toClient \in Seq(Frame)
    BY DEF Sound, TypeOK
  <2> QED BY <2>1, SameSilent
<1> QED BY <1>1 DEF Quiet, serverVars

LEMMA QuietServer ==
  ASSUME Sound, UNCHANGED <<clientVars, toServer>>,
         srvConn'.recvWin = srvConn.recvWin, srvConn'.sendWin = srvConn.sendWin,
         \A t \in Streams : /\ srv'[t].recvWin = srv[t].recvWin
                            /\ srv'[t].sendWin = srv[t].sendWin,
         Same(toClient, toClient')
  PROVE  Quiet
<1>1. Same(toServer, toServer')
  BY DEF Same
<1>2. Silent(toServer, toServer') /\ Silent(toClient, toClient')
  <2>1. toServer \in Seq(Frame) /\ toClient \in Seq(Frame)
    BY DEF Sound, TypeOK
  <2> QED BY <1>1, <2>1, SameSilent
<1> QED BY <1>1, <1>2 DEF Quiet, clientVars

(* Everything under way is dropped.                                        *)
LEMMA QuietEnd ==
  ASSUME Sound, UNCHANGED serverVars, toServer' = <<>>, toClient' = <<>>,
         sess' = [sess EXCEPT !.closed = TRUE, !.destroyed = TRUE],
         \A t \in Streams : stream'[t].phase # "gone" => stream'[t] = stream[t]
  PROVE  Quiet
<1>1. sess \in Session
  BY DEF Sound, TypeOK
<1>2. sess'.connSend = sess.connSend /\ sess'.recvUsed = sess.recvUsed /\ sess'.destroyed
  BY <1>1 DEF Session
<1>3. \A type, ids : UnderWay(toServer', type, ids) = 0 /\ UnderWay(toClient', type, ids) = 0
  BY UnderWayEmpty
<1>4. \A type, ids : UnderWay(toServer, type, ids) \in Nat /\ UnderWay(toClient, type, ids) \in Nat
  BY Amounts
<1>5. Silent(toServer, toServer') /\ Silent(toClient, toClient')
  BY <1>3, <1>4 DEF Silent
<1> QED BY <1>2, <1>5 DEF Quiet, serverVars

(* The steps that move no units.                                           *)
LEMMA RequestQuiet ==
  ASSUME Sound, NEW s \in Streams, NEW kind \in Kinds, NEW size \in Bodies,
         Request(s, kind, size), kind # "whole"
  PROVE  Quiet
<1> DEFINE opened == [stream[s] EXCEPT !.phase = "open", !.kind = kind,
                                       !.size = size, !.finished = (kind # "stream")]
           h == [Fr("HEADERS", s) EXCEPT !.end = (kind = "none")]
<1>1. stream \in [Streams -> Stream] /\ stream[s] \in Stream
  BY DEF Sound, TypeOK
<1>2. s \in 0 .. MaxStreams
  BY DEF Streams
<1>3. opened.phase = "open" /\ opened.sendWindow = stream[s].sendWindow
        /\ opened.recvUsed = stream[s].recvUsed
  BY <1>1 DEF Stream
<1>4. h \in Frame /\ h.type = "HEADERS"
  BY <1>2 DEF Fr, Frame
<1>5. stream[s].phase = "idle"
  BY DEF Request
<1>6. stream' = [stream EXCEPT ![s] = opened] /\ Sent(<<h>>)
        /\ UNCHANGED <<sess, heard, serverVars, toClient, faults>>
  BY DEF Request
<1> HIDE DEF opened, h
<1>7. PICK fs : fs = <<h>>
  OBVIOUS
<1>8. fs \in Seq(Frame) /\ \A i \in 1 .. Len(fs) : fs[i].type = "HEADERS"
  BY <1>4, <1>7
<1>9. Same(toServer, toServer')
  BY <1>6, <1>7, <1>8, SentSame
<1>10. Same(toClient, toClient')
  BY <1>6 DEF Same
<1>11. \A t \in Streams : stream'[t].phase # "gone" =>
            /\ stream[t].phase # "gone"
            /\ stream'[t].sendWindow = stream[t].sendWindow
            /\ stream'[t].recvUsed = stream[t].recvUsed
  BY <1>1, <1>3, <1>5, <1>6
<1> QED BY <1>6, <1>9, <1>10, <1>11, QuietClient

LEMMA FinishQuiet ==
  ASSUME Sound, NEW s \in Streams, Finish(s)
  PROVE  Quiet
<1> DEFINE st == stream[s]
<1>1. stream \in [Streams -> Stream] /\ sess \in Session /\ st \in Stream
  BY DEF Sound, TypeOK
<1>2. PICK fs : fs = IF st.wrote THEN DataFrames(s, st, 0, TRUE) ELSE <<>>
  OBVIOUS
<1>3. /\ stream' = [stream EXCEPT ![s].finished = TRUE]
      /\ Sent(fs) /\ UNCHANGED <<sess, heard, serverVars, toClient, faults>>
  BY <1>2 DEF Finish
<1>4. \A t \in Streams : stream'[t].phase = stream[t].phase
            /\ stream'[t].sendWindow = stream[t].sendWindow
            /\ stream'[t].recvUsed = stream[t].recvUsed
  BY <1>1, <1>3 DEF Stream
<1> HIDE DEF st
<1>5. fs = <<>> \/ \E f \in Frame : fs = <<f>> /\ f.n = 0
  <2>1. PICK end \in BOOLEAN, n \in Nat : end = TRUE /\ n = 0
    OBVIOUS
  <2>2. fs = IF st.wrote THEN DataFrames(s, st, n, end) ELSE <<>>
    BY <1>2, <2>1
  <2>3. Take(st, n) = 0
    <3>1. Take(st, n) \in Nat /\ Take(st, n) <= n
      BY <1>1, TakeBounds
    <3> QED BY <2>1, <3>1
  <2> QED BY <1>1, <2>2, <2>3, DataFramesTypes
<1>6. fs \in Seq(Frame) /\ \A i \in 1 .. Len(fs) : fs[i].n = 0
  <2>1. CASE fs = <<>>
    BY <2>1
  <2>2. ASSUME NEW f \in Frame, fs = <<f>>, f.n = 0
        PROVE  fs \in Seq(Frame) /\ \A i \in 1 .. Len(fs) : fs[i].n = 0
    BY <2>2
  <2> QED BY <1>5, <2>1, <2>2
<1>7. Same(toServer, toServer')
  BY <1>3, <1>6, SentSame
<1>8. Same(toClient, toClient')
  BY <1>3 DEF Same
<1> QED BY <1>3, <1>4, <1>7, <1>8, QuietClient

(* One stream leaves the map.                                              *)
LEMMA CancelQuiet ==
  ASSUME Sound, NEW s \in Streams, Cancel(s)
  PROVE  Quiet
<1>1. stream \in [Streams -> Stream]
  BY DEF Sound, TypeOK
<1>2. PICK fs : fs = <<Fr("RST_STREAM", s)>>
  OBVIOUS
<1>3. stream' = [stream EXCEPT ![s] = Closed(@)] /\ Sent(fs) /\ UNCHANGED <<sess, serverVars, toClient>>
  BY <1>2 DEF Cancel
<1>4. fs \in Seq(Frame) /\ \A i \in 1 .. Len(fs) : fs[i].type = "RST_STREAM"
  BY <1>2, ResetFrames
<1>5. Same(toServer, toServer')
  BY <1>3, <1>4, SentSame
<1>6. Same(toClient, toClient')
  BY <1>3 DEF Same
<1>7. \A t \in Streams : stream'[t].phase # "gone" => stream'[t] = stream[t]
  BY <1>1, <1>3 DEF Closed, Stream
<1> QED BY <1>3, <1>5, <1>6, <1>7, QuietClient

LEMMA FinalizeQuiet ==
  ASSUME Sound, NEW s \in Streams, NEW f, NEW end, NEW cancel, toClient # <<>>,
         Head(toClient).type \notin {"DATA", "WINDOW_UPDATE"},
         Finalize(s, f, end, cancel), UNCHANGED serverVars
  PROVE  Quiet
<1>1. stream \in [Streams -> Stream] /\ sess \in Session
  BY DEF Sound, TypeOK
<1>2. CASE FailAll
  <2>1. \A t \in Streams : stream'[t].phase # "gone" => stream'[t] = stream[t]
    BY <1>1, <1>2 DEF FailAll, Closed, Stream
  <2> QED BY <1>2, <2>1, QuietEnd DEF FailAll
<1>3. CASE ~FailAll
  <2>1. PICK fs : fs = IF cancel THEN <<Fr("RST_STREAM", s)>> ELSE <<>>
    OBVIOUS
  <2>2. /\ sess' = [sess EXCEPT !.decoded = @ + 1]
        /\ stream' = [stream EXCEPT ![s].assembling = FALSE,
                        ![s].phase = IF cancel \/ end THEN "gone" ELSE @]
        /\ Sent(fs)
        /\ toClient' = Tail(toClient)
    BY <1>3, <2>1 DEF Finalize
  <2>3. fs \in Seq(Frame) /\ \A i \in 1 .. Len(fs) : fs[i].type = "RST_STREAM"
    BY <2>1, ResetFrames
  <2>4. Same(toServer, toServer') /\ Same(toClient, toClient')
    BY <2>2, <2>3, SentSame, TakenSame
  <2>5. \A t \in Streams : stream'[t].phase # "gone" =>
            /\ stream[t].phase # "gone"
            /\ stream'[t].sendWindow = stream[t].sendWindow
            /\ stream'[t].recvUsed = stream[t].recvUsed
    BY <1>1, <2>2 DEF Stream
  <2>6. sess'.connSend = sess.connSend /\ sess'.recvUsed = sess.recvUsed
          /\ sess'.destroyed = sess.destroyed
    BY <1>1, <2>2 DEF Session
  <2> QED BY <2>4, <2>5, <2>6, QuietClient
<1> QED BY <1>2, <1>3

LEMMA OnHeadersQuiet ==
  ASSUME Sound, NEW cancel \in BOOLEAN, OnHeaders(cancel)
  PROVE  Quiet
<1>1. stream \in [Streams -> Stream]
  BY DEF Sound, TypeOK
<1>2. PICK f : f = Head(toClient)
  OBVIOUS
<1>3. toClient # <<>> /\ f.type = "HEADERS" /\ stream[f.s].phase = "open" /\ UNCHANGED serverVars
  BY <1>2 DEF OnHeaders, Receiving
<1>4. f.s \in Streams
  BY <1>2, <1>3, HeadTypes
<1>5. CASE f.fin
  <2>1. Finalize(f.s, f, f.end, cancel)
    BY <1>2, <1>5 DEF OnHeaders
  <2> QED BY <1>2, <1>3, <1>4, <2>1, FinalizeQuiet
<1>6. CASE ~f.fin
  <2>1. /\ stream' = [stream EXCEPT ![f.s] = Assembling(@, f.end)]
        /\ toClient' = Tail(toClient)
        /\ UNCHANGED <<sess, heard, toServer, faults>>
    BY <1>2, <1>6 DEF OnHeaders
  <2>2. \A t \in Streams : stream'[t].phase # "gone" =>
            /\ stream[t].phase # "gone"
            /\ stream'[t].sendWindow = stream[t].sendWindow
            /\ stream'[t].recvUsed = stream[t].recvUsed
    BY <1>1, <2>1 DEF Assembling, Stream
  <2>3. Same(toClient, toClient')
    BY <1>2, <1>3, <2>1, TakenSame
  <2>4. Same(toServer, toServer')
    BY <2>1 DEF Same
  <2> QED BY <1>3, <2>1, <2>2, <2>3, <2>4, QuietClient
<1> QED BY <1>5, <1>6

LEMMA OnContinuationQuiet ==
  ASSUME Sound, NEW cancel \in BOOLEAN, OnContinuation(cancel)
  PROVE  Quiet
<1>1. PICK f : f = Head(toClient)
  OBVIOUS
<1>2. /\ toClient # <<>> /\ f.type = "CONTINUATION"
      /\ UNCHANGED serverVars /\ Finalize(f.s, f, stream[f.s].headerEnd, cancel)
  BY <1>1 DEF OnContinuation, Receiving
<1>3. f.s \in Streams
  BY <1>1, <1>2, HeadTypes
<1> QED BY <1>1, <1>2, <1>3, FinalizeQuiet

LEMMA OnResetQuiet ==
  ASSUME Sound, OnReset
  PROVE  Quiet
<1>1. stream \in [Streams -> Stream]
  BY DEF Sound, TypeOK
<1>2. PICK s : s = Head(toClient).s
  OBVIOUS
<1>3. /\ toClient # <<>> /\ Head(toClient).type = "RST_STREAM"
      /\ stream' = [stream EXCEPT ![s] = Closed(@)] /\ toClient' = Tail(toClient)
      /\ UNCHANGED <<sess, serverVars, toServer, faults>>
  BY <1>2 DEF OnReset, Receiving
<1>4. \A t \in Streams : stream'[t].phase # "gone" => stream'[t] = stream[t]
  BY <1>1, <1>3 DEF Closed, Stream
<1>5. Same(toClient, toClient')
  BY <1>3, TakenSame
<1>6. Same(toServer, toServer')
  BY <1>3 DEF Same
<1> QED BY <1>3, <1>4, <1>5, <1>6, QuietClient

LEMMA OnGoawayQuiet ==
  ASSUME Sound, OnGoaway
  PROVE  Quiet
<1>1. sess \in Session
  BY DEF Sound, TypeOK
<1>2. /\ toClient # <<>> /\ Head(toClient).type = "GOAWAY" /\ toClient' = Tail(toClient)
      /\ sess' = [sess EXCEPT !.closed = TRUE]
      /\ UNCHANGED <<stream, heard, serverVars, toServer, faults>>
  BY DEF OnGoaway, Receiving
<1>3. Same(toClient, toClient')
  BY <1>2, TakenSame
<1>4. Same(toServer, toServer')
  BY <1>2 DEF Same
<1>5. sess'.connSend = sess.connSend /\ sess'.recvUsed = sess.recvUsed
        /\ sess'.destroyed = sess.destroyed
  BY <1>1, <1>2 DEF Session
<1> QED BY <1>2, <1>3, <1>4, <1>5, QuietClient

LEMMA EndQuiet ==
  ASSUME Sound, CloseSession \/ OnBad
  PROVE  Quiet
<1>1. stream \in [Streams -> Stream]
  BY DEF Sound, TypeOK
<1>2. CASE CloseSession
  BY <1>2, QuietEnd DEF CloseSession
<1>3. CASE OnBad
  <2>1. FailAll /\ UNCHANGED serverVars
    BY <1>3 DEF OnBad
  <2>2. \A t \in Streams : stream'[t].phase # "gone" => stream'[t] = stream[t]
    BY <1>1, <2>1 DEF FailAll, Closed, Stream
  <2> QED BY <2>1, <2>2, QuietEnd DEF FailAll
<1> QED BY <1>2, <1>3

LEMMA SrvAnswersQuiet ==
  ASSUME Sound, NEW s \in Streams, NEW size \in Answers, NEW form \in Forms,
         SrvAnswers(s, size, form)
  PROVE  Quiet
<1>1. PICK fs \in Seq(Frame), v \in Srv : Answered(s, size, form, fs, v)
  BY SrvAnswersDoes, Zenon
<1>2. /\ Answer(fs, s, size, form) /\ toClient' = toClient \o fs
      /\ v = [srv[s] EXCEPT !.answered = TRUE, !.total = size, !.left = size]
      /\ srv' = [srv EXCEPT ![s] = v]
      /\ srvConn' = [srvConn EXCEPT !.blocks = @ + IF form = "interim" THEN 2 ELSE 1]
      /\ UNCHANGED <<clientVars, toServer, faults>>
  BY <1>1 DEF Answered
<1>3. srv \in [Streams -> Srv] /\ srvConn \in SrvConn
  BY DEF Sound, TypeOK
<1>4. v.recvWin = srv[s].recvWin /\ v.sendWin = srv[s].sendWin
  BY <1>2, <1>3 DEF Srv
<1>5. \A t \in Streams : srv'[t].recvWin = srv[t].recvWin /\ srv'[t].sendWin = srv[t].sendWin
  BY <1>2, <1>3, <1>4
<1>6. srvConn'.recvWin = srvConn.recvWin /\ srvConn'.sendWin = srvConn.sendWin
  BY <1>2, <1>3 DEF SrvConn
<1>7. \A i \in 1 .. Len(fs) : fs[i].n = 0
  BY <1>2, AnswerFrames
<1>8. Same(toClient, toClient')
  BY <1>2, <1>7, AddedSame
<1>9. UNCHANGED <<clientVars, toServer>>
  BY <1>2
<1> QED BY <1>5, <1>6, <1>8, <1>9, QuietServer

(* RST_STREAM, GOAWAY, or something malformed.                             *)
LEMMA SignalSame ==
  ASSUME Sound, NEW type \in {"RST_STREAM", "GOAWAY", "BAD"}, NEW s \in 0 .. MaxStreams,
         toClient' = Append(toClient, Fr(type, s))
  PROVE  Same(toClient, toClient')
<1>1. toClient \in Seq(Frame)
  BY DEF Sound, TypeOK
<1>2. PICK f : f = Fr(type, s)
  OBVIOUS
<1>3. f \in Frame /\ f.type = type
  <2>1. f.type = type
    BY <1>2 DEF Fr
  <2> QED BY <1>2, <2>1, FrTypes
<1>4. PICK fs \in Seq(Frame) : /\ \A i \in 1 .. Len(fs) : fs[i] = f
                              /\ Append(toClient, f) = toClient \o fs
  BY <1>1, <1>3, AddOne
<1>5. \A i \in 1 .. Len(fs) : fs[i].type \notin {"DATA", "WINDOW_UPDATE"}
  BY <1>3, <1>4
<1> QED BY <1>2, <1>4, <1>5, AddedSame

LEMMA SrvSignalsQuiet ==
  ASSUME Sound, SrvGoaway \/ SrvMalformed \/ \E s \in Streams : SrvResets(s)
  PROVE  Quiet
<1>1. srv \in [Streams -> Srv] /\ srvConn \in SrvConn
  BY DEF Sound, TypeOK
<1>2. ASSUME NEW s \in Streams, SrvResets(s) PROVE Quiet
  <2>1. /\ srv' = [srv EXCEPT ![s].reset = TRUE, ![s].left = 0]
        /\ toClient' = Append(toClient, Fr("RST_STREAM", s))
        /\ UNCHANGED <<clientVars, srvConn, toServer>>
    BY <1>2 DEF SrvResets
  <2>2. Same(toClient, toClient')
    <3>1. s \in 0 .. MaxStreams
      BY DEF Streams
    <3> QED BY <2>1, <3>1, SignalSame
  <2>3. \A t \in Streams : srv'[t].recvWin = srv[t].recvWin /\ srv'[t].sendWin = srv[t].sendWin
    BY <1>1, <2>1 DEF Srv
  <2> QED BY <2>1, <2>2, <2>3, QuietServer
<1>3. ASSUME SrvGoaway \/ SrvMalformed PROVE Quiet
  <2>1. PICK type \in {"GOAWAY", "BAD"} : toClient' = Append(toClient, Fr(type, 0))
    BY <1>3 DEF SrvGoaway, SrvMalformed
  <2>2. /\ srvConn' = [srvConn EXCEPT !.goaway = TRUE] \/ srvConn' = [srvConn EXCEPT !.bad = TRUE]
        /\ UNCHANGED <<clientVars, srv, toServer>>
    BY <1>3 DEF SrvGoaway, SrvMalformed
  <2>3. Same(toClient, toClient')
    <3>1. 0 \in 0 .. MaxStreams
      BY H2Assumption
    <3> QED BY <2>1, <3>1, SignalSame
  <2>4. srvConn'.recvWin = srvConn.recvWin /\ srvConn'.sendWin = srvConn.sendWin
    BY <1>1, <2>2 DEF SrvConn
  <2> QED BY <2>2, <2>3, <2>4, QuietServer
<1> QED BY <1>2, <1>3

(* The client sends n units of s: its windows pay for them.                *)
LEMMA WindowsSent ==
  ASSUME Sound, Sound', Windows, ~sess.destroyed, NEW s \in Streams, NEW n \in Nat,
         NEW fs \in Seq(Frame), Sent(fs), UNCHANGED <<serverVars, toClient>>,
         \A ids : UnderWay(fs, "DATA", ids) = IF s \in ids THEN n ELSE 0,
         \A ids : UnderWay(fs, "WINDOW_UPDATE", ids) = 0,
         sess'.connSend = sess.connSend - n, sess'.recvUsed = sess.recvUsed,
         sess'.destroyed = sess.destroyed,
         \A t \in Streams : stream'[t].phase # "gone" =>
            /\ stream[t].phase # "gone"
            /\ stream'[t].sendWindow = stream[t].sendWindow - (IF t = s THEN n ELSE 0)
            /\ stream'[t].recvUsed = stream[t].recvUsed
  PROVE  Windows'
<1>1. \A ids : /\ UnderWay(toServer', "DATA", ids)
                    = UnderWay(toServer, "DATA", ids) + IF s \in ids THEN n ELSE 0
               /\ UnderWay(toServer', "WINDOW_UPDATE", ids) = UnderWay(toServer, "WINDOW_UPDATE", ids)
  <2>1. \A ids : UnderWay(toServer, "WINDOW_UPDATE", ids) \in Nat
    BY Amounts
  <2> QED BY <2>1, SentUnits
<1>2. toClient' = toClient /\ srv' = srv /\ srvConn' = srvConn
  BY DEF serverVars
<1>3. SendConn'
  <2>1. UnderWay(toServer', "DATA", Streams) = UnderWay(toServer, "DATA", Streams) + n
    BY <1>1
  <2>2. SendConn
    BY DEF Windows
  <2> QED BY <1>2, <2>1, <2>2, Amounts DEF SendConn
<1>4. ASSUME NEW t \in Streams PROVE SendStream(t)'
  <2>1. UnderWay(toServer', "DATA", {t})
          = UnderWay(toServer, "DATA", {t}) + IF t = s THEN n ELSE 0
    <3>1. s \in {t} <=> t = s
      OBVIOUS
    <3> QED BY <1>1, <3>1
  <2>2. PICK m \in Nat : m = IF t = s THEN n ELSE 0
    OBVIOUS
  <2>3. /\ UnderWay(toServer', "DATA", {t}) = UnderWay(toServer, "DATA", {t}) + m
        /\ UnderWay(toClient', "WINDOW_UPDATE", {t}) = UnderWay(toClient, "WINDOW_UPDATE", {t})
        /\ stream'[t].phase # "gone" =>
             stream[t].phase # "gone" /\ stream'[t].sendWindow = stream[t].sendWindow - m
        /\ srv'[t].recvWin = srv[t].recvWin
    BY <1>2, <2>1, <2>2
  <2>4. SendStream(t)
    BY DEF Windows
  <2>5. /\ stream[t].sendWindow \in Nat /\ srv[t].recvWin \in Int
        /\ UnderWay(toServer, "DATA", {t}) \in Nat /\ UnderWay(toClient, "WINDOW_UPDATE", {t}) \in Nat
    BY Amounts
  <2>6. ASSUME stream'[t].phase # "gone"
        PROVE  srv'[t].recvWin + SendWindow >=
                 stream'[t].sendWindow + UnderWay(toServer', "DATA", {t})
                   + UnderWay(toClient', "WINDOW_UPDATE", {t}) + PeerWindow
    <3>1. stream[t].phase # "gone" /\ stream'[t].sendWindow = stream[t].sendWindow - m
      BY <2>3, <2>6
    <3>2. srv[t].recvWin + SendWindow >=
            stream[t].sendWindow + UnderWay(toServer, "DATA", {t})
              + UnderWay(toClient, "WINDOW_UPDATE", {t}) + PeerWindow
      BY <2>4, <3>1 DEF SendStream
    <3>3. SendWindow \in Nat /\ PeerWindow \in Nat
      BY WindowTypes
    <3>4. /\ UnderWay(toServer', "DATA", {t}) = UnderWay(toServer, "DATA", {t}) + m
          /\ UnderWay(toClient', "WINDOW_UPDATE", {t}) = UnderWay(toClient, "WINDOW_UPDATE", {t})
          /\ srv'[t].recvWin = srv[t].recvWin
      BY <2>3
    <3> QED BY <2>5, <3>1, <3>2, <3>3, <3>4
  <2> QED BY <2>6 DEF SendStream
<1>5. CreditConn'
  <2>1. CreditConn
    BY DEF Windows
  <2> QED BY <1>1, <1>2, <2>1 DEF CreditConn
<1>6. ASSUME NEW t \in Streams PROVE CreditStream(t)'
  <2>1. CreditStream(t)
    BY DEF Windows
  <2> QED BY <1>1, <1>2, <2>1 DEF CreditStream
<1> QED BY <1>3, <1>4, <1>5, <1>6 DEF Windows

(* The units of what _sendData writes.                                     *)
LEMMA DataFramesUnits ==
  ASSUME sess \in Session, NEW st \in Stream, NEW n \in Nat, NEW s \in Streams,
         NEW end \in BOOLEAN, NEW ids
  PROVE  /\ UnderWay(DataFrames(s, st, n, end), "DATA", ids) = IF s \in ids THEN Take(st, n) ELSE 0
         /\ UnderWay(DataFrames(s, st, n, end), "WINDOW_UPDATE", ids) = 0
<1>1. PICK fs : fs = DataFrames(s, st, n, end)
  OBVIOUS
<1>2. /\ fs = <<>> \/ \E f \in Frame : /\ fs = <<f>>
                             /\ f.type = "DATA" /\ f.s = s /\ f.n = Take(st, n)
      /\ fs = <<>> => Take(st, n) = 0
  BY <1>1, DataFramesTypes
<1>3. CASE fs = <<>>
  BY <1>1, <1>2, <1>3, UnderWayEmpty
<1>4. ASSUME NEW f \in Frame, fs = <<f>>, f.type = "DATA", f.s = s, f.n = Take(st, n)
      PROVE  /\ UnderWay(fs, "DATA", ids) = IF s \in ids THEN Take(st, n) ELSE 0
             /\ UnderWay(fs, "WINDOW_UPDATE", ids) = 0
  <2>1. f.n \in Nat
    BY FrameTypes
  <2>2. UnderWay(fs, "DATA", ids) = Weight(f, "DATA", ids)
          /\ UnderWay(fs, "WINDOW_UPDATE", ids) = Weight(f, "WINDOW_UPDATE", ids)
    BY <1>4, <2>1, UnitsOfOne
  <2> QED BY <1>4, <2>2 DEF Weight
<1> QED BY <1>1, <1>2, <1>3, <1>4

LEMMA RequestWindows ==
  ASSUME Sound, Sound', Windows, NEW s \in Streams, NEW kind \in Kinds, NEW size \in Bodies,
         Request(s, kind, size)
  PROVE  Windows'
<1>1. CASE kind # "whole"
  BY <1>1, RequestQuiet, WindowsQuiet
<1>2. CASE kind = "whole"
  <2> DEFINE opened == [stream[s] EXCEPT !.phase = "open", !.kind = kind,
                                         !.size = size, !.finished = (kind # "stream")]
             h == [Fr("HEADERS", s) EXCEPT !.end = (kind = "none")]
  <2>1. stream \in [Streams -> Stream] /\ sess \in Session /\ stream[s] \in Stream
    BY DEF Sound, TypeOK
  <2>2. size \in Nat /\ s \in 0 .. MaxStreams
    BY H2Assumption DEF Streams
  <2>3. opened \in Stream /\ opened.phase = "open" /\ opened.sendWindow = stream[s].sendWindow
          /\ opened.recvUsed = stream[s].recvUsed
    BY <2>1 DEF Stream
  <2>4. h \in Frame /\ h.type = "HEADERS"
    BY <2>2 DEF Fr, Frame
  <2>5. PICK e \in BOOLEAN : e = TRUE
    OBVIOUS
  <2>6. PICK g, d : g = <<h>> /\ d = DataFrames(s, opened, size, e)
    OBVIOUS
  <2>7. /\ stream[s].phase = "idle" /\ ~sess.destroyed
        /\ stream' = [stream EXCEPT ![s] = Spent(opened, size)]
        /\ sess' = [sess EXCEPT !.connSend = @ - Take(opened, size)]
        /\ Sent(g \o d)
        /\ UNCHANGED <<heard, serverVars, toClient, faults>>
    BY <1>2, <2>5, <2>6 DEF Request, opened, h
  <2> HIDE DEF opened, h
  <2>8. PICK n \in Nat : n = Take(opened, size)
    BY <2>1, <2>2, <2>3, TakeBounds
  <2>9. g \in Seq(Frame) /\ d \in Seq(Frame)
    BY <2>1, <2>2, <2>3, <2>4, <2>6, DataFramesTypes
  <2>10. ASSUME NEW ids
         PROVE  /\ UnderWay(g \o d, "DATA", ids) = IF s \in ids THEN n ELSE 0
                /\ UnderWay(g \o d, "WINDOW_UPDATE", ids) = 0
    <3>1. UnderWay(d, "DATA", ids) = (IF s \in ids THEN n ELSE 0)
            /\ UnderWay(d, "WINDOW_UPDATE", ids) = 0
      BY <2>1, <2>2, <2>3, <2>8, <2>6, DataFramesUnits
    <3>2. UnderWay(g, "DATA", ids) = 0 /\ UnderWay(g, "WINDOW_UPDATE", ids) = 0
      <4>1. \A i \in 1 .. Len(g) : g[i].type = "HEADERS"
        BY <2>4, <2>6
      <4> QED BY <2>9, <4>1, NoUnits
    <3>3. UnderWay(g \o d, "DATA", ids) = UnderWay(g, "DATA", ids) + UnderWay(d, "DATA", ids)
            /\ UnderWay(g \o d, "WINDOW_UPDATE", ids)
                 = UnderWay(g, "WINDOW_UPDATE", ids) + UnderWay(d, "WINDOW_UPDATE", ids)
      BY <2>9, UnderWayConcat
    <3> QED BY <3>1, <3>2, <3>3
  <2>11. g \o d \in Seq(Frame) /\ Sent(g \o d)
    BY <2>7, <2>9, ConcatProperties
  <2>12. sess'.connSend = sess.connSend - n /\ sess'.recvUsed = sess.recvUsed
           /\ sess'.destroyed = sess.destroyed
    BY <2>1, <2>7, <2>8 DEF Session
  <2>13. Spent(opened, size).sendWindow = stream[s].sendWindow - n
           /\ Spent(opened, size).recvUsed = stream[s].recvUsed
    BY <2>3, <2>8 DEF Spent, Stream
  <2>14. \A t \in Streams : stream'[t].phase # "gone" =>
            /\ stream[t].phase # "gone"
            /\ stream'[t].sendWindow = stream[t].sendWindow - (IF t = s THEN n ELSE 0)
            /\ stream'[t].recvUsed = stream[t].recvUsed
    <3>1. \A t \in Streams : stream[t].sendWindow \in Nat
      BY Amounts
    <3> QED BY <2>1, <2>7, <2>13, <3>1
  <2>15. UNCHANGED <<serverVars, toClient>>
    BY <2>7
  <2>16. ~sess.destroyed
    BY <2>7
  <2> QED BY <2>10, <2>11, <2>12, <2>14, <2>15, <2>16, WindowsSent
<1> QED BY <1>1, <1>2

LEMMA WriteWindows ==
  ASSUME Sound, Sound', Windows, NEW s \in Streams, NEW k, Write(s, k)
  PROVE  Windows'
<1> DEFINE st == stream[s]
<1>1. stream \in [Streams -> Stream] /\ sess \in Session /\ st \in Stream
  BY DEF Sound, TypeOK
<1>2. k \in Nat /\ st.phase # "idle" /\ ~sess.destroyed
  BY <1>1 DEF Write, Stream
<1>3. PICK e \in BOOLEAN : e = FALSE
  OBVIOUS
<1>4. PICK fs : fs = DataFrames(s, st, k, e)
  OBVIOUS
<1>5. /\ stream' = [stream EXCEPT ![s] = Spent(st, k)]
      /\ sess' = [sess EXCEPT !.connSend = @ - Take(st, k)]
      /\ Sent(fs) /\ UNCHANGED <<heard, serverVars, toClient, faults>>
  BY <1>3, <1>4 DEF Write
<1> HIDE DEF st
<1>6. PICK n \in Nat : n = Take(st, k)
  BY <1>1, <1>2, TakeBounds
<1>7. fs \in Seq(Frame)
  BY <1>1, <1>2, <1>4, DataFramesTypes
<1>8. \A ids : /\ UnderWay(fs, "DATA", ids) = IF s \in ids THEN n ELSE 0
               /\ UnderWay(fs, "WINDOW_UPDATE", ids) = 0
  BY <1>1, <1>2, <1>4, <1>6, DataFramesUnits
<1>9. sess'.connSend = sess.connSend - n /\ sess'.recvUsed = sess.recvUsed
        /\ sess'.destroyed = sess.destroyed
  BY <1>1, <1>5, <1>6 DEF Session
<1>10. /\ Spent(st, k).phase = st.phase /\ Spent(st, k).recvUsed = st.recvUsed
       /\ st.phase # "gone" => Spent(st, k).sendWindow = st.sendWindow - n
  BY <1>1, <1>2, <1>6 DEF Spent, Stream
<1>11. \A t \in Streams : stream'[t].phase # "gone" =>
            /\ stream[t].phase # "gone"
            /\ stream'[t].sendWindow = stream[t].sendWindow - (IF t = s THEN n ELSE 0)
            /\ stream'[t].recvUsed = stream[t].recvUsed
  <2>1. \A t \in Streams : stream[t].sendWindow \in Nat
    BY Amounts
  <2> QED BY <1>1, <1>5, <1>10, <2>1 DEF st
<1>12. UNCHANGED <<serverVars, toClient>>
  BY <1>5
<1> QED BY <1>2, <1>5, <1>7, <1>8, <1>9, <1>11, <1>12, WindowsSent

LEMMA UpdateUnits ==
  ASSUME NEW p, NEW s, NEW m \in Nat, Update(p, s, m), NEW ids
  PROVE  /\ p \in Seq(Frame)
         /\ UnderWay(p, "DATA", ids) = 0
         /\ UnderWay(p, "WINDOW_UPDATE", ids) = IF p # <<>> /\ s \in ids THEN m ELSE 0
<1>1. CASE p = <<>>
  BY <1>1, UnderWayEmpty
<1>2. ASSUME NEW g \in Frame, p = <<g>>, g.type = "WINDOW_UPDATE", g.s = s, g.n = m
      PROVE  /\ p \in Seq(Frame)
             /\ UnderWay(p, "DATA", ids) = 0
             /\ UnderWay(p, "WINDOW_UPDATE", ids) = IF p # <<>> /\ s \in ids THEN m ELSE 0
  <2>1. UnderWay(p, "DATA", ids) = Weight(g, "DATA", ids)
          /\ UnderWay(p, "WINDOW_UPDATE", ids) = Weight(g, "WINDOW_UPDATE", ids)
    BY <1>2, UnitsOfOne
  <2>2. p # <<>> /\ p \in Seq(Frame)
    BY <1>2
  <2> QED BY <1>2, <2>1, <2>2 DEF Weight
<1> QED BY <1>1, <1>2 DEF Update

(* The frame at the head of a queue is taken from what is under way.       *)
LEMMA TakenUnits ==
  ASSUME Sound, toClient # <<>>, toClient' = Tail(toClient), NEW type, NEW ids
  PROVE  /\ UnderWay(toClient', type, ids) \in Nat
         /\ UnderWay(toClient, type, ids)
              = UnderWay(toClient', type, ids) + Weight(Head(toClient), type, ids)
<1>1. toClient \in Seq(Frame) /\ Tail(toClient) \in Seq(Frame) /\ Head(toClient) \in Frame
  BY DEF Sound, TypeOK
<1>2. UnderWay(toClient', type, ids) \in Nat
  BY <1>1, UnderWayNat
<1>3. UnderWay(toClient, type, ids)
        = Weight(Head(toClient), type, ids) + UnderWay(toClient', type, ids)
  BY <1>1, UnderWayTail
<1>4. Weight(Head(toClient), type, ids) \in Nat
  BY <1>1, FrameTypes DEF Weight
<1> QED BY <1>2, <1>3, <1>4

(* The client takes a frame f of the stream s with n units, and sends the  *)
(* updates p and r for the connection and for the stream, if it keeps it.  *)
Taken(f, n, s, p, r) ==
  /\ toClient # <<>> /\ f = Head(toClient) /\ toClient' = Tail(toClient)
  /\ f.s = s /\ f.type # "WINDOW_UPDATE" /\ n = (IF f.type = "DATA" THEN f.n ELSE 0)
  /\ Update(p, 0, sess.recvUsed + n)
  /\ Update(r, s, stream[s].recvUsed + n)
  /\ Sent(p \o r)
  /\ sess'.connSend = sess.connSend /\ sess'.destroyed = sess.destroyed
  /\ sess'.recvUsed = (IF p = <<>> THEN sess.recvUsed + n ELSE 0)
  /\ \A t \in Streams : stream'[t].phase # "gone" =>
        /\ stream[t].phase # "gone"
        /\ stream'[t].sendWindow = stream[t].sendWindow
        /\ stream'[t].recvUsed = IF t # s THEN stream[t].recvUsed
                                 ELSE IF r = <<>> THEN stream[t].recvUsed + n ELSE 0
  /\ UNCHANGED serverVars

LEMMA WindowsTaken ==
  ASSUME Sound, Sound', Windows, NEW f \in Frame, NEW n \in Nat, NEW s \in Streams,
         NEW p, NEW r, Taken(f, n, s, p, r)
  PROVE  Windows'
<1> SUFFICES ASSUME
         f.s = s, f = Head(toClient), f.type # "WINDOW_UPDATE",
         n = (IF f.type = "DATA" THEN f.n ELSE 0),
         toClient # <<>>, toClient' = Tail(toClient),
         Update(p, 0, sess.recvUsed + n),
         Update(r, s, stream[s].recvUsed + n), Sent(p \o r),
         sess'.connSend = sess.connSend, sess'.destroyed = sess.destroyed,
         sess'.recvUsed = (IF p = <<>> THEN sess.recvUsed + n ELSE 0),
         \A t \in Streams : stream'[t].phase # "gone" =>
            /\ stream[t].phase # "gone"
            /\ stream'[t].sendWindow = stream[t].sendWindow
            /\ stream'[t].recvUsed = IF t # s THEN stream[t].recvUsed
                                     ELSE IF r = <<>> THEN stream[t].recvUsed + n ELSE 0,
         UNCHANGED serverVars
         PROVE Windows'
  BY DEF Taken
<1>1. sess.recvUsed + n \in Nat /\ stream[s].recvUsed + n \in Nat
  BY Amounts
<1>2. p \in Seq(Frame) /\ r \in Seq(Frame)
  BY <1>1, UpdateUnits
<1>3. p \o r \in Seq(Frame)
  BY <1>2, ConcatProperties
<1>4. ASSUME NEW ids
      PROVE  /\ UnderWay(toServer', "DATA", ids) <= UnderWay(toServer, "DATA", ids)
             /\ ~sess.destroyed =>
                  UnderWay(toServer', "WINDOW_UPDATE", ids)
                    = UnderWay(toServer, "WINDOW_UPDATE", ids)
                        + (IF p # <<>> /\ 0 \in ids THEN sess.recvUsed + n ELSE 0)
                        + (IF r # <<>> /\ s \in ids THEN stream[s].recvUsed + n ELSE 0)
  <2>1. UnderWay(p \o r, "DATA", ids) = 0
    <3>1. UnderWay(p, "DATA", ids) = 0 /\ UnderWay(r, "DATA", ids) = 0
      BY <1>1, UpdateUnits
    <3> QED BY <1>2, <3>1, UnderWayConcat
  <2>2. UnderWay(p \o r, "WINDOW_UPDATE", ids)
          = (IF p # <<>> /\ 0 \in ids THEN sess.recvUsed + n ELSE 0)
              + (IF r # <<>> /\ s \in ids THEN stream[s].recvUsed + n ELSE 0)
    <3>1. UnderWay(p, "WINDOW_UPDATE", ids) = (IF p # <<>> /\ 0 \in ids THEN sess.recvUsed + n ELSE 0)
      BY <1>1, UpdateUnits
    <3>2. UnderWay(r, "WINDOW_UPDATE", ids) = (IF r # <<>> /\ s \in ids THEN stream[s].recvUsed + n ELSE 0)
      BY <1>1, UpdateUnits
    <3>3. UnderWay(p \o r, "WINDOW_UPDATE", ids)
            = UnderWay(p, "WINDOW_UPDATE", ids) + UnderWay(r, "WINDOW_UPDATE", ids)
      BY <1>2, UnderWayConcat
    <3> QED BY <3>1, <3>2, <3>3
  <2>3. UnderWay(toServer', "DATA", ids) <= UnderWay(toServer, "DATA", ids)
    <3>1. UnderWay(toServer, "DATA", ids) \in Nat
      BY Amounts
    <3>2. UnderWay(toServer', "DATA", ids) <= UnderWay(toServer, "DATA", ids) + UnderWay(p \o r, "DATA", ids)
      BY <1>3, SentUnits
    <3> QED BY <2>1, <3>1, <3>2
  <2>4. ASSUME ~sess.destroyed
        PROVE  UnderWay(toServer', "WINDOW_UPDATE", ids)
                 = UnderWay(toServer, "WINDOW_UPDATE", ids) + UnderWay(p \o r, "WINDOW_UPDATE", ids)
    <3>1. toServer \in Seq(Frame)
      BY DEF Sound, TypeOK
    <3>2. PICK fs : fs = p \o r
      OBVIOUS
    <3>3. fs \in Seq(Frame) /\ toServer' = toServer \o fs
      BY <1>3, <2>4, <3>2 DEF Sent
    <3>4. UnderWay(toServer \o fs, "WINDOW_UPDATE", ids)
            = UnderWay(toServer, "WINDOW_UPDATE", ids) + UnderWay(fs, "WINDOW_UPDATE", ids)
      BY <3>1, <3>3, UnderWayConcat
    <3> QED BY <3>2, <3>3, <3>4, Zenon
  <2>5. UnderWay(toServer, "WINDOW_UPDATE", ids) \in Nat
    BY Amounts
  <2> QED BY <1>1, <2>2, <2>3, <2>4, <2>5
<1>5. ASSUME NEW ids
      PROVE  /\ UnderWay(toClient', "WINDOW_UPDATE", ids) = UnderWay(toClient, "WINDOW_UPDATE", ids)
             /\ UnderWay(toClient, "DATA", ids)
                  = UnderWay(toClient', "DATA", ids) + IF s \in ids THEN n ELSE 0
  <2>1. Weight(f, "DATA", ids) = (IF s \in ids THEN n ELSE 0) /\ Weight(f, "WINDOW_UPDATE", ids) = 0
    BY DEF Weight
  <2>2. UnderWay(toClient', "WINDOW_UPDATE", ids) \in Nat
    BY TakenUnits
  <2> QED BY <2>1, <2>2, TakenUnits
<1>6. srv' = srv /\ srvConn' = srvConn
  BY DEF serverVars
<1>7. SendConn' /\ \A t \in Streams : SendStream(t)'
  <2>1. \A ids : /\ UnderWay(toServer', "DATA", ids) <= UnderWay(toServer, "DATA", ids)
                 /\ UnderWay(toClient', "WINDOW_UPDATE", ids) <= UnderWay(toClient, "WINDOW_UPDATE", ids)
    <3>1. \A ids : UnderWay(toClient, "WINDOW_UPDATE", ids) \in Nat
      BY Amounts
    <3> QED BY <1>4, <1>5, <3>1
  <2> QED BY <1>6, <2>1, SendKept
<1>8. ASSUME ~sess'.destroyed PROVE CreditConn'
  <2>1. UnderWay(toServer', "WINDOW_UPDATE", {0})
          = UnderWay(toServer, "WINDOW_UPDATE", {0}) + (IF p # <<>> THEN sess.recvUsed + n ELSE 0)
    <3>1. s \notin {0}
      BY DEF Streams
    <3>2. UnderWay(toServer, "WINDOW_UPDATE", {0}) \in Nat
      BY Amounts
    <3>3. UnderWay(toServer', "WINDOW_UPDATE", {0})
            = UnderWay(toServer, "WINDOW_UPDATE", {0})
                        + (IF p # <<>> /\ 0 \in {0} THEN sess.recvUsed + n ELSE 0)
                        + (IF r # <<>> /\ s \in {0} THEN stream[s].recvUsed + n ELSE 0)
      BY <1>4, <1>8
    <3> QED BY <1>1, <3>1, <3>2, <3>3
  <2>2. UnderWay(toClient, "DATA", Streams) = UnderWay(toClient', "DATA", Streams) + n
    BY <1>5
  <2>3. CreditConn
    BY <1>8 DEF Windows
  <2>4. srvConn.sendWin + sess.recvUsed + UnderWay(toClient, "DATA", Streams)
               + UnderWay(toServer, "WINDOW_UPDATE", {0})
        = srvConn'.sendWin + sess'.recvUsed + UnderWay(toClient', "DATA", Streams)
               + UnderWay(toServer', "WINDOW_UPDATE", {0})
    <3>1. UnderWay(toClient', "DATA", Streams) \in Nat
      BY TakenUnits
    <3>2. UnderWay(toServer, "WINDOW_UPDATE", {0}) \in Nat /\ srvConn.sendWin \in Nat /\ sess.recvUsed \in Nat
      BY Amounts
    <3>3. srvConn'.sendWin = srvConn.sendWin /\ sess'.recvUsed = (IF p = <<>> THEN sess.recvUsed + n ELSE 0)
      BY <1>6
    <3>4. CASE p = <<>>
      BY <2>1, <2>2, <3>1, <3>2, <3>3, <3>4
    <3>5. CASE p # <<>>
      BY <2>1, <2>2, <3>1, <3>2, <3>3, <3>5
    <3> QED BY <3>4, <3>5
  <2> QED BY <2>3, <2>4 DEF CreditConn
<1>9. ASSUME ~sess'.destroyed, NEW t \in Streams PROVE CreditStream(t)'
  <2>1. UnderWay(toServer', "WINDOW_UPDATE", {t})
          = UnderWay(toServer, "WINDOW_UPDATE", {t})
              + (IF r # <<>> /\ t = s THEN stream[s].recvUsed + n ELSE 0)
    <3>1. 0 \notin {t} /\ (s \in {t} <=> t = s)
      BY DEF Streams
    <3>2. UnderWay(toServer, "WINDOW_UPDATE", {t}) \in Nat
      BY Amounts
    <3>3. UnderWay(toServer', "WINDOW_UPDATE", {t})
            = UnderWay(toServer, "WINDOW_UPDATE", {t})
                        + (IF p # <<>> /\ 0 \in {t} THEN sess.recvUsed + n ELSE 0)
                        + (IF r # <<>> /\ s \in {t} THEN stream[s].recvUsed + n ELSE 0)
      BY <1>4, <1>9
    <3> QED BY <1>1, <3>1, <3>2, <3>3
  <2>2. UnderWay(toClient, "DATA", {t}) = UnderWay(toClient', "DATA", {t}) + IF t = s THEN n ELSE 0
    <3>1. s \in {t} <=> t = s
      OBVIOUS
    <3> QED BY <1>5, <3>1
  <2>3. CreditStream(t)
    BY <1>9 DEF Windows
  <2>4. ASSUME stream'[t].phase # "gone"
        PROVE  srv[t].sendWin + stream[t].recvUsed + UnderWay(toClient, "DATA", {t})
                 + UnderWay(toServer, "WINDOW_UPDATE", {t})
               = srv'[t].sendWin + stream'[t].recvUsed + UnderWay(toClient', "DATA", {t})
                 + UnderWay(toServer', "WINDOW_UPDATE", {t})
    <3>1. UnderWay(toClient', "DATA", {t}) \in Nat /\ UnderWay(toServer, "WINDOW_UPDATE", {t}) \in Nat
            /\ srv[t].sendWin \in Nat /\ stream[t].recvUsed \in Nat
      BY TakenUnits, Amounts
    <3>2. /\ srv'[t].sendWin = srv[t].sendWin
          /\ stream'[t].recvUsed = IF t # s THEN stream[t].recvUsed
                                   ELSE IF r = <<>> THEN stream[t].recvUsed + n ELSE 0
      BY <1>6, <2>4
    <3>3. CASE t = s /\ r = <<>>
      BY <2>1, <2>2, <3>1, <3>2, <3>3
    <3>4. CASE t = s /\ r # <<>>
      <4>1. UnderWay(toServer', "WINDOW_UPDATE", {t})
              = UnderWay(toServer, "WINDOW_UPDATE", {t}) + (stream[t].recvUsed + n)
        BY <2>1, <3>4
      <4>2. UnderWay(toClient, "DATA", {t}) = UnderWay(toClient', "DATA", {t}) + n
        BY <2>2, <3>4
      <4>3. srv'[t].sendWin = srv[t].sendWin /\ stream'[t].recvUsed = 0
        BY <3>2, <3>4
      <4>4. PICK w \in Nat, x \in Nat, y \in Nat, z \in Nat :
              /\ w = srv[t].sendWin /\ x = stream[t].recvUsed
              /\ y = UnderWay(toClient', "DATA", {t})
              /\ z = UnderWay(toServer, "WINDOW_UPDATE", {t})
        BY <3>1
      <4>5. w + x + (y + n) + z = w + 0 + y + (z + (x + n))
        OBVIOUS
      <4> QED BY <4>1, <4>2, <4>3, <4>4, <4>5, Zenon
    <3>5. CASE t # s
      BY <2>1, <2>2, <3>1, <3>2, <3>5
    <3> QED BY <3>3, <3>4, <3>5
  <2>5. stream'[t].phase # "gone" => stream[t].phase # "gone"
    OBVIOUS
  <2> QED BY <2>3, <2>4, <2>5 DEF CreditStream
<1> QED BY <1>7, <1>8, <1>9 DEF Windows

LEMMA OnDataWindows ==
  ASSUME Sound, Sound', Windows, OnData
  PROVE  Windows'
<1>1. PICK f \in Frame, st \in Stream, h \in Heard, p \in Seq(Frame), r \in Seq(Frame) :
        DataTaken(f, st, h, p, r)
  BY OnDataDoes, Zenon
<1>2. /\ toClient # <<>> /\ f = Head(toClient) /\ f.type = "DATA" /\ f.s \in Streams
      /\ stream[f.s].phase = "open"
      /\ st = [stream[f.s] EXCEPT !.recvUsed = IF r = <<>> THEN @ + f.n ELSE 0,
                                  !.phase = IF f.end THEN "gone" ELSE @]
      /\ stream' = [stream EXCEPT ![f.s] = st]
      /\ sess' = [sess EXCEPT !.recvUsed = IF p = <<>> THEN @ + f.n ELSE 0]
      /\ Update(p, 0, sess.recvUsed + f.n)
      /\ Update(r, f.s, stream[f.s].recvUsed + f.n)
      /\ Sent(p \o r)
      /\ toClient' = Tail(toClient)
      /\ UNCHANGED <<serverVars, faults>>
  BY <1>1 DEF DataTaken
<1>3. stream \in [Streams -> Stream] /\ sess \in Session
  BY DEF Sound, TypeOK
<1>4. PICK n \in Nat, s \in Streams : n = f.n /\ s = f.s
  BY <1>2, FrameTypes
<1>5. st.sendWindow = stream[s].sendWindow
        /\ st.recvUsed = (IF r = <<>> THEN stream[s].recvUsed + n ELSE 0)
  BY <1>2, <1>3, <1>4 DEF Stream
<1>6. \A t \in Streams : stream'[t].phase # "gone" =>
            /\ stream[t].phase # "gone"
            /\ stream'[t].sendWindow = stream[t].sendWindow
            /\ stream'[t].recvUsed = IF t # s THEN stream[t].recvUsed
                                     ELSE IF r = <<>> THEN stream[t].recvUsed + n ELSE 0
  BY <1>2, <1>3, <1>4, <1>5
<1>7. sess'.connSend = sess.connSend /\ sess'.destroyed = sess.destroyed
        /\ sess'.recvUsed = (IF p = <<>> THEN sess.recvUsed + n ELSE 0)
  BY <1>2, <1>3, <1>4 DEF Session
<1>8. Update(p, 0, sess.recvUsed + n) /\ Update(r, s, stream[s].recvUsed + n) /\ Sent(p \o r)
  BY <1>2, <1>4
<1>9. n = (IF f.type = "DATA" THEN f.n ELSE 0) /\ f.type # "WINDOW_UPDATE" /\ UNCHANGED serverVars
  BY <1>2, <1>4
<1>10. Taken(f, n, s, p, r)
  BY <1>2, <1>4, <1>6, <1>7, <1>8, <1>9, Zenon DEF Taken
<1> QED BY <1>10, WindowsTaken

LEMMA OnUnknownWindows ==
  ASSUME Sound, Sound', Windows, OnUnknown
  PROVE  Windows'
<1>1. PICK f \in Frame, n \in Nat, p \in Seq(Frame) : UnknownTaken(f, n, p)
  BY OnUnknownDoes, Zenon
<1>2. /\ toClient # <<>> /\ f = Head(toClient) /\ f.s \in Streams /\ stream[f.s].phase # "open"
      /\ f.type \in {"HEADERS", "CONTINUATION", "DATA", "RST_STREAM"}
      /\ n = IF f.type = "DATA" THEN f.n ELSE 0
      /\ sess' = [sess EXCEPT !.recvUsed = IF p = <<>> THEN @ + n ELSE 0]
      /\ Update(p, 0, sess.recvUsed + n)
      /\ Sent(p)
      /\ toClient' = Tail(toClient)
      /\ UNCHANGED <<stream, heard, serverVars, faults>>
  BY <1>1 DEF UnknownTaken
<1>3. sess \in Session /\ stream \in [Streams -> Stream]
  BY DEF Sound, TypeOK
<1>4. PICK s \in Streams : f.s = s
  BY <1>2
<1>5. stream[s].phase = "gone"
  <2>1. f \in Downward
    BY <1>2, HeadTypes
  <2>2. s # 0
    BY DEF Streams
  <2>3. stream[s].phase # "idle"
    BY <1>4, <2>1, <2>2 DEF Downward
  <2> QED BY <1>2, <1>3, <1>4, <2>3 DEF Stream
<1>6. PICK r : r = <<>>
  OBVIOUS
<1>7. Update(r, s, stream[s].recvUsed + n)
  BY <1>6 DEF Update
<1>8. p \o r = p
  BY <1>6
<1>9. Sent(p \o r)
  BY <1>2, <1>8
<1>10. sess'.connSend = sess.connSend /\ sess'.destroyed = sess.destroyed
        /\ sess'.recvUsed = (IF p = <<>> THEN sess.recvUsed + n ELSE 0)
  BY <1>2, <1>3 DEF Session
<1>11. \A t \in Streams : stream'[t].phase # "gone" =>
            /\ stream[t].phase # "gone"
            /\ stream'[t].sendWindow = stream[t].sendWindow
            /\ stream'[t].recvUsed = IF t # s THEN stream[t].recvUsed
                                     ELSE IF r = <<>> THEN stream[t].recvUsed + n ELSE 0
  BY <1>2, <1>5
<1>12. f.type # "WINDOW_UPDATE" /\ UNCHANGED serverVars
  BY <1>2
<1>13. /\ toClient # <<>> /\ f = Head(toClient) /\ toClient' = Tail(toClient)
       /\ Update(p, 0, sess.recvUsed + n)
  BY <1>2
<1>14. n = IF f.type = "DATA" THEN f.n ELSE 0
  BY <1>2
<1>15. Taken(f, n, s, p, r)
  BY <1>4, <1>7, <1>9, <1>10, <1>11, <1>12, <1>13, <1>14, Zenon DEF Taken
<1> QED BY <1>15, WindowsTaken

(* A credit of n units for id arrives at the client.                       *)
LEMMA OnWindowUpdateWindows ==
  ASSUME Sound, Sound', Windows, OnWindowUpdate
  PROVE  Windows'
<1>1. stream \in [Streams -> Stream] /\ sess \in Session
  BY DEF Sound, TypeOK
<1>2. PICK f : f = Head(toClient)
  OBVIOUS
<1>3. /\ toClient # <<>> /\ f.type = "WINDOW_UPDATE" /\ toClient' = Tail(toClient)
      /\ UNCHANGED <<heard, serverVars, toServer, faults>>
  BY <1>2 DEF OnWindowUpdate, Receiving
<1>4. f \in Frame
  BY <1>2, <1>3, HeadTypes
<1>5. PICK n \in Nat, id \in 0 .. MaxStreams : n = f.n /\ id = f.s
  BY <1>4, FrameTypes
<1>6. sess'.connSend = sess.connSend + (IF id = 0 THEN n ELSE 0)
        /\ sess'.recvUsed = sess.recvUsed /\ sess'.destroyed = sess.destroyed
  BY <1>1, <1>2, <1>5 DEF OnWindowUpdate, Session
<1>7. \A t \in Streams :
        /\ stream'[t].phase = stream[t].phase
        /\ stream'[t].recvUsed = stream[t].recvUsed
        /\ stream'[t].sendWindow = stream[t].sendWindow + n
             \/ stream'[t].sendWindow = stream[t].sendWindow
        /\ t # id => stream'[t].sendWindow = stream[t].sendWindow
  <2>1. CASE id = 0
    <3>1. UNCHANGED stream
      BY <1>2, <1>5, <2>1 DEF OnWindowUpdate
    <3> QED BY <2>1, <3>1 DEF Streams
  <2>2. CASE id # 0
    <3>1. stream' = IF stream[id].phase = "open"
                      THEN [stream EXCEPT ![id].sendWindow = @ + n] ELSE stream
      BY <1>2, <1>5, <2>2 DEF OnWindowUpdate
    <3> QED BY <1>1, <3>1 DEF Stream
  <2> QED BY <2>1, <2>2
<1>8. ASSUME NEW ids
      PROVE  /\ UnderWay(toClient', "DATA", ids) = UnderWay(toClient, "DATA", ids)
             /\ UnderWay(toClient', "WINDOW_UPDATE", ids) \in Nat
             /\ UnderWay(toClient, "WINDOW_UPDATE", ids)
                  = UnderWay(toClient', "WINDOW_UPDATE", ids) + IF id \in ids THEN n ELSE 0
  <2>1. Weight(f, "WINDOW_UPDATE", ids) = (IF id \in ids THEN n ELSE 0) /\ Weight(f, "DATA", ids) = 0
    BY <1>3, <1>5 DEF Weight
  <2>2. UnderWay(toClient', "DATA", ids) \in Nat
    BY <1>3, TakenUnits
  <2> QED BY <1>2, <1>3, <2>1, <2>2, TakenUnits
<1>9. srv' = srv /\ srvConn' = srvConn /\ toServer' = toServer
  BY <1>3 DEF serverVars
<1>10. SendConn'
  <2>1. UnderWay(toClient, "WINDOW_UPDATE", {0})
          = UnderWay(toClient', "WINDOW_UPDATE", {0}) + IF id = 0 THEN n ELSE 0
    BY <1>8
  <2>2. SendConn
    BY DEF Windows
  <2>3. /\ sess.connSend \in Nat /\ srvConn.recvWin \in Int
        /\ UnderWay(toServer, "DATA", Streams) \in Nat
    BY Amounts
  <2>4. UnderWay(toClient', "WINDOW_UPDATE", {0}) \in Nat
    BY <1>8
  <2> QED BY <1>6, <1>9, <2>1, <2>2, <2>3, <2>4 DEF SendConn
<1>11. ASSUME NEW t \in Streams PROVE SendStream(t)'
  <2>1. UnderWay(toClient, "WINDOW_UPDATE", {t})
          = UnderWay(toClient', "WINDOW_UPDATE", {t}) + IF id = t THEN n ELSE 0
    <3>1. id \in {t} <=> id = t
      OBVIOUS
    <3> QED BY <1>8, <3>1
  <2>2. SendStream(t)
    BY DEF Windows
  <2>3. /\ stream[t].sendWindow \in Nat /\ srv[t].recvWin \in Int
        /\ UnderWay(toServer, "DATA", {t}) \in Nat
    BY Amounts
  <2>4. UnderWay(toClient', "WINDOW_UPDATE", {t}) \in Nat
    BY <1>8
  <2>5. stream'[t].sendWindow <= stream[t].sendWindow + IF id = t THEN n ELSE 0
    BY <1>7, <2>3
  <2>6. stream'[t].sendWindow \in Nat
    BY DEF Sound, TypeOK, Stream
  <2>7. stream'[t].phase = stream[t].phase
    BY <1>7
  <2> QED BY <1>9, <2>1, <2>2, <2>3, <2>4, <2>5, <2>6, <2>7, WindowTypes DEF SendStream
<1>12. ASSUME ~sess'.destroyed PROVE CreditConn' /\ \A t \in Streams : CreditStream(t)'
  <2>1. CreditConn /\ \A t \in Streams : CreditStream(t)
    BY <1>6, <1>12 DEF Windows
  <2>2. CreditConn'
    BY <1>6, <1>8, <1>9, <2>1 DEF CreditConn
  <2>3. ASSUME NEW t \in Streams PROVE CreditStream(t)'
    <3>1. CreditStream(t) /\ stream'[t].phase = stream[t].phase /\ stream'[t].recvUsed = stream[t].recvUsed
      BY <1>7, <2>1
    <3> QED BY <1>8, <1>9, <3>1 DEF CreditStream
  <2> QED BY <2>2, <2>3
<1> QED BY <1>10, <1>11, <1>12 DEF Windows

(* What the server receives is counted against its windows, or for them.   *)
LEMMA SrvReceivesWeighs ==
  ASSUME Sound, NEW f \in Frame, f.s # 0 => f.s \in Streams,
         GotHeaders(f) \/ GotData(f) \/ GotReset(f) \/ GotConnUpdate(f) \/ GotUpdate(f)
  PROVE  /\ srvConn'.recvWin = srvConn.recvWin - Weight(f, "DATA", Streams)
         /\ srvConn'.sendWin = srvConn.sendWin + Weight(f, "WINDOW_UPDATE", {0})
         /\ \A t \in Streams :
              /\ srv'[t].recvWin = srv[t].recvWin - Weight(f, "DATA", {t})
              /\ srv'[t].sendWin = srv[t].sendWin + Weight(f, "WINDOW_UPDATE", {t})
<1>1. srv \in [Streams -> Srv] /\ srvConn \in SrvConn /\ f.n \in Nat
  BY FrameTypes DEF Sound, TypeOK
<1>2. /\ srvConn.recvWin \in Int /\ srvConn.sendWin \in Nat
      /\ \A t \in Streams : srv[t].recvWin \in Int /\ srv[t].sendWin \in Nat
  BY Amounts
<1>3. CASE GotHeaders(f)
  <2>1. /\ f.type = "HEADERS" /\ UNCHANGED srvConn
        /\ srv' = [srv EXCEPT ![f.s] = [srv[f.s] EXCEPT !.seen = TRUE, !.ended = f.end]]
    BY <1>3 DEF GotHeaders
  <2>2. \A t \in Streams : srv'[t].recvWin = srv[t].recvWin /\ srv'[t].sendWin = srv[t].sendWin
    BY <1>1, <2>1 DEF Srv
  <2> QED BY <1>2, <2>1, <2>2 DEF Weight
<1>4. CASE GotData(f)
  <2>1. PICK end \in BOOLEAN, hole \in BOOLEAN, got \in Nat :
          srv' = [srv EXCEPT ![f.s] = [srv[f.s] EXCEPT !.recvWin = srv[f.s].recvWin - f.n,
                                         !.ended = end, !.hole = hole, !.got = got]]
    BY <1>4 DEF GotData
  <2>2. f.type = "DATA" /\ f.s \in Streams /\ srvConn' = [srvConn EXCEPT !.recvWin = @ - f.n]
    BY <1>4 DEF GotData
  <2>3. srvConn'.recvWin = srvConn.recvWin - f.n /\ srvConn'.sendWin = srvConn.sendWin
    BY <1>1, <2>2 DEF SrvConn
  <2>4. \A t \in Streams :
          /\ srv'[t].recvWin = srv[t].recvWin - (IF t = f.s THEN f.n ELSE 0)
          /\ srv'[t].sendWin = srv[t].sendWin
    <3>1. PICK w \in Srv : w = srv[f.s]
      BY <1>1, <2>2
    <3>2. PICK v : v = [w EXCEPT !.recvWin = w.recvWin - f.n,
                                 !.ended = end, !.hole = hole, !.got = got]
      OBVIOUS
    <3>3. v.recvWin = w.recvWin - f.n /\ v.sendWin = w.sendWin
      BY <3>2 DEF Srv
    <3>4. srv' = [srv EXCEPT ![f.s] = v]
      BY <2>1, <3>1, <3>2
    <3> QED BY <1>1, <1>2, <2>2, <3>1, <3>3, <3>4
  <2>5. /\ Weight(f, "DATA", Streams) = f.n /\ \A ids : Weight(f, "WINDOW_UPDATE", ids) = 0
        /\ \A t \in Streams : Weight(f, "DATA", {t}) = IF t = f.s THEN f.n ELSE 0
    BY <2>2 DEF Weight
  <2> QED BY <1>2, <2>3, <2>4, <2>5
<1>5. CASE GotReset(f)
  <2>1. /\ f.type = "RST_STREAM" /\ UNCHANGED srvConn
        /\ srv' = [srv EXCEPT ![f.s] = [srv[f.s] EXCEPT !.reset = TRUE, !.left = 0]]
    BY <1>5 DEF GotReset
  <2>2. \A t \in Streams : srv'[t].recvWin = srv[t].recvWin /\ srv'[t].sendWin = srv[t].sendWin
    BY <1>1, <2>1 DEF Srv
  <2> QED BY <1>2, <2>1, <2>2 DEF Weight
<1>6. CASE GotConnUpdate(f)
  <2>1. f.type = "WINDOW_UPDATE" /\ f.s = 0 /\ srv' = srv
          /\ srvConn' = [srvConn EXCEPT !.sendWin = @ + f.n]
    BY <1>6 DEF GotConnUpdate
  <2>2. srvConn'.recvWin = srvConn.recvWin /\ srvConn'.sendWin = srvConn.sendWin + f.n
    BY <1>1, <2>1 DEF SrvConn
  <2>3. /\ \A ids : Weight(f, "DATA", ids) = 0
        /\ Weight(f, "WINDOW_UPDATE", {0}) = f.n
        /\ \A t \in Streams : Weight(f, "WINDOW_UPDATE", {t}) = 0
    BY <2>1 DEF Weight, Streams
  <2> QED BY <1>2, <2>1, <2>2, <2>3
<1>7. CASE GotUpdate(f)
  <2>1. f.type = "WINDOW_UPDATE" /\ f.s \in Streams /\ srvConn' = srvConn
          /\ srv' = [srv EXCEPT ![f.s] = [srv[f.s] EXCEPT !.sendWin = srv[f.s].sendWin + f.n]]
    BY <1>7 DEF GotUpdate
  <2>2. \A t \in Streams :
          /\ srv'[t].recvWin = srv[t].recvWin
          /\ srv'[t].sendWin = srv[t].sendWin + (IF t = f.s THEN f.n ELSE 0)
    <3>1. PICK w \in Srv : w = srv[f.s]
      BY <1>1, <2>1
    <3>2. PICK v : v = [w EXCEPT !.sendWin = w.sendWin + f.n]
      OBVIOUS
    <3>3. v.recvWin = w.recvWin /\ v.sendWin = w.sendWin + f.n
      BY <3>2 DEF Srv
    <3>4. srv' = [srv EXCEPT ![f.s] = v]
      BY <2>1, <3>1, <3>2
    <3> QED BY <1>1, <1>2, <2>1, <3>1, <3>3, <3>4
  <2>3. /\ \A ids : Weight(f, "DATA", ids) = 0
        /\ Weight(f, "WINDOW_UPDATE", {0}) = 0
        /\ \A t \in Streams : Weight(f, "WINDOW_UPDATE", {t}) = IF t = f.s THEN f.n ELSE 0
    BY <2>1 DEF Weight, Streams
  <2> QED BY <1>2, <2>1, <2>2, <2>3
<1> QED BY <1>3, <1>4, <1>5, <1>6, <1>7

LEMMA SrvReceivesWindows ==
  ASSUME Sound, Sound', Windows, SrvReceives
  PROVE  Windows'
<1>1. PICK f \in Frame :
           /\ f = Head(toServer) /\ toServer # <<>> /\ toServer' = Tail(toServer)
           /\ UNCHANGED <<clientVars, toClient, faults>>
           /\ GotHeaders(f) \/ GotData(f) \/ GotReset(f) \/ GotConnUpdate(f) \/ GotUpdate(f)
  BY SrvReceivesDoes
<1>2. f.s # 0 => f.s \in Streams
  BY FrameTypes DEF Streams
<1>3. /\ srvConn'.recvWin = srvConn.recvWin - Weight(f, "DATA", Streams)
      /\ srvConn'.sendWin = srvConn.sendWin + Weight(f, "WINDOW_UPDATE", {0})
      /\ \A t \in Streams :
           /\ srv'[t].recvWin = srv[t].recvWin - Weight(f, "DATA", {t})
           /\ srv'[t].sendWin = srv[t].sendWin + Weight(f, "WINDOW_UPDATE", {t})
  BY <1>1, <1>2, SrvReceivesWeighs
<1>4. ASSUME NEW type, NEW ids
      PROVE  /\ UnderWay(toServer', type, ids) \in Nat /\ Weight(f, type, ids) \in Nat
             /\ UnderWay(toServer, type, ids) = Weight(f, type, ids) + UnderWay(toServer', type, ids)
  <2>1. toServer \in Seq(Frame) /\ Tail(toServer) \in Seq(Frame)
    BY <1>1 DEF Sound, TypeOK
  <2>2. UnderWay(toServer', type, ids) \in Nat
    BY <1>1, <2>1, UnderWayNat
  <2>3. UnderWay(toServer, type, ids) = Weight(f, type, ids) + UnderWay(toServer', type, ids)
    BY <1>1, <2>1, UnderWayTail
  <2>4. Weight(f, type, ids) \in Nat
    BY FrameTypes DEF Weight
  <2> QED BY <2>2, <2>3, <2>4
<1>5. stream' = stream /\ sess' = sess /\ toClient' = toClient
  BY <1>1 DEF clientVars
<1>6. SendConn'
  <2>1. SendConn
    BY DEF Windows
  <2>2. /\ UnderWay(toServer', "DATA", Streams) \in Nat /\ Weight(f, "DATA", Streams) \in Nat
        /\ UnderWay(toServer, "DATA", Streams)
             = Weight(f, "DATA", Streams) + UnderWay(toServer', "DATA", Streams)
    BY <1>4
  <2>3. sess.connSend \in Nat /\ srvConn.recvWin \in Int /\ UnderWay(toClient, "WINDOW_UPDATE", {0}) \in Nat
    BY Amounts
  <2> QED BY <1>3, <1>5, <2>1, <2>2, <2>3 DEF SendConn
<1>7. ASSUME NEW t \in Streams PROVE SendStream(t)'
  <2>1. SendStream(t)
    BY DEF Windows
  <2>2. /\ UnderWay(toServer', "DATA", {t}) \in Nat /\ Weight(f, "DATA", {t}) \in Nat
        /\ UnderWay(toServer, "DATA", {t})
             = Weight(f, "DATA", {t}) + UnderWay(toServer', "DATA", {t})
    BY <1>4
  <2>3. /\ stream[t].sendWindow \in Nat /\ srv[t].recvWin \in Int
        /\ UnderWay(toClient, "WINDOW_UPDATE", {t}) \in Nat
    BY Amounts
  <2>4. srv'[t].recvWin = srv[t].recvWin - Weight(f, "DATA", {t})
    BY <1>3
  <2> QED BY <1>5, <2>1, <2>2, <2>3, <2>4, WindowTypes DEF SendStream
<1>8. ASSUME ~sess'.destroyed PROVE CreditConn'
  <2>1. CreditConn
    BY <1>5, <1>8 DEF Windows
  <2>2. /\ UnderWay(toServer', "WINDOW_UPDATE", {0}) \in Nat /\ Weight(f, "WINDOW_UPDATE", {0}) \in Nat
        /\ UnderWay(toServer, "WINDOW_UPDATE", {0})
             = Weight(f, "WINDOW_UPDATE", {0}) + UnderWay(toServer', "WINDOW_UPDATE", {0})
    BY <1>4
  <2>3. sess.recvUsed \in Nat /\ srvConn.sendWin \in Nat /\ UnderWay(toClient, "DATA", Streams) \in Nat
    BY Amounts
  <2>4. srvConn.sendWin + sess.recvUsed + UnderWay(toClient, "DATA", Streams)
               + UnderWay(toServer, "WINDOW_UPDATE", {0})
        = srvConn'.sendWin + sess'.recvUsed + UnderWay(toClient', "DATA", Streams)
               + UnderWay(toServer', "WINDOW_UPDATE", {0})
    BY <1>3, <1>5, <2>2, <2>3
  <2> QED BY <2>1, <2>4 DEF CreditConn
<1>9. ASSUME ~sess'.destroyed, NEW t \in Streams PROVE CreditStream(t)'
  <2>1. CreditStream(t)
    BY <1>5, <1>9 DEF Windows
  <2>2. /\ UnderWay(toServer', "WINDOW_UPDATE", {t}) \in Nat /\ Weight(f, "WINDOW_UPDATE", {t}) \in Nat
        /\ UnderWay(toServer, "WINDOW_UPDATE", {t})
             = Weight(f, "WINDOW_UPDATE", {t}) + UnderWay(toServer', "WINDOW_UPDATE", {t})
    BY <1>4
  <2>3. stream[t].recvUsed \in Nat /\ srv[t].sendWin \in Nat /\ UnderWay(toClient, "DATA", {t}) \in Nat
    BY Amounts
  <2>4. srv[t].sendWin + stream[t].recvUsed + UnderWay(toClient, "DATA", {t})
               + UnderWay(toServer, "WINDOW_UPDATE", {t})
        = srv'[t].sendWin + stream'[t].recvUsed + UnderWay(toClient', "DATA", {t})
               + UnderWay(toServer', "WINDOW_UPDATE", {t})
    <3>1. srv'[t].sendWin = srv[t].sendWin + Weight(f, "WINDOW_UPDATE", {t})
      BY <1>3
    <3> QED BY <1>5, <2>2, <2>3, <3>1
  <2> QED BY <1>5, <2>1, <2>4 DEF CreditStream
<1> QED BY <1>6, <1>7, <1>8, <1>9 DEF Windows

(* What the server sends is added to what is under way.                    *)
LEMMA AddedUnits ==
  ASSUME Sound, NEW fs \in Seq(Frame), toClient' = toClient \o fs, NEW type, NEW ids
  PROVE  UnderWay(toClient', type, ids) = UnderWay(toClient, type, ids) + UnderWay(fs, type, ids)
<1>1. toClient \in Seq(Frame)
  BY DEF Sound, TypeOK
<1> QED BY <1>1, UnderWayConcat

LEMMA SrvCreditsWindows ==
  ASSUME Sound, Sound', Windows, NEW s \in Streams, SrvCredits(s)
  PROVE  Windows'
<1>1. PICK f \in Frame, g \in Frame, v \in Srv : Credited(s, f, g, v)
  BY SrvCreditsDoes, Zenon
<1>2. /\ f.type = "WINDOW_UPDATE" /\ f.s = 0 /\ f.n = SendWindow - srvConn.recvWin
      /\ g.type = "WINDOW_UPDATE" /\ g.s = s /\ g.n = PeerWindow - srv[s].recvWin
      /\ toClient' = toClient \o (<<f>> \o <<g>>)
      /\ v = [srv[s] EXCEPT !.recvWin = PeerWindow] /\ srv' = [srv EXCEPT ![s] = v]
      /\ srvConn' = [srvConn EXCEPT !.recvWin = SendWindow]
      /\ UNCHANGED <<clientVars, toServer, faults>>
  BY <1>1 DEF Credited
<1>3. PICK m \in Nat, n \in Nat : m = f.n /\ n = g.n
  BY FrameTypes
<1>4. PICK p, r, fs : p = <<f>> /\ r = <<g>> /\ fs = p \o r
  OBVIOUS
<1>5. p \in Seq(Frame) /\ r \in Seq(Frame) /\ fs \in Seq(Frame) /\ toClient' = toClient \o fs
  BY <1>2, <1>4, OneFrame, TwoFrames
<1>6. ASSUME NEW ids
      PROVE  /\ UnderWay(toClient', "DATA", ids) = UnderWay(toClient, "DATA", ids)
             /\ UnderWay(toClient', "WINDOW_UPDATE", ids)
                  = UnderWay(toClient, "WINDOW_UPDATE", ids)
                      + (IF 0 \in ids THEN m ELSE 0) + (IF s \in ids THEN n ELSE 0)
  <2>1. UnderWay(p, "DATA", ids) = 0 /\ UnderWay(p, "WINDOW_UPDATE", ids) = IF 0 \in ids THEN m ELSE 0
    <3>1. UnderWay(p, "DATA", ids) = Weight(f, "DATA", ids)
            /\ UnderWay(p, "WINDOW_UPDATE", ids) = Weight(f, "WINDOW_UPDATE", ids)
      BY <1>3, <1>4, UnitsOfOne
    <3> QED BY <1>2, <1>3, <3>1 DEF Weight
  <2>2. UnderWay(r, "DATA", ids) = 0 /\ UnderWay(r, "WINDOW_UPDATE", ids) = IF s \in ids THEN n ELSE 0
    <3>1. UnderWay(r, "DATA", ids) = Weight(g, "DATA", ids)
            /\ UnderWay(r, "WINDOW_UPDATE", ids) = Weight(g, "WINDOW_UPDATE", ids)
      BY <1>3, <1>4, UnitsOfOne
    <3> QED BY <1>2, <1>3, <3>1 DEF Weight
  <2>3. /\ UnderWay(fs, "DATA", ids) = UnderWay(p, "DATA", ids) + UnderWay(r, "DATA", ids)
        /\ UnderWay(fs, "WINDOW_UPDATE", ids)
             = UnderWay(p, "WINDOW_UPDATE", ids) + UnderWay(r, "WINDOW_UPDATE", ids)
    <3>1. /\ UnderWay(p \o r, "DATA", ids) = UnderWay(p, "DATA", ids) + UnderWay(r, "DATA", ids)
          /\ UnderWay(p \o r, "WINDOW_UPDATE", ids)
               = UnderWay(p, "WINDOW_UPDATE", ids) + UnderWay(r, "WINDOW_UPDATE", ids)
      BY <1>5, UnderWayConcat
    <3> QED BY <1>4, <3>1, Zenon
  <2>4. /\ UnderWay(toClient', "DATA", ids) = UnderWay(toClient, "DATA", ids) + UnderWay(fs, "DATA", ids)
        /\ UnderWay(toClient', "WINDOW_UPDATE", ids)
             = UnderWay(toClient, "WINDOW_UPDATE", ids) + UnderWay(fs, "WINDOW_UPDATE", ids)
    <3>1. fs \in Seq(Frame) /\ toClient' = toClient \o fs
      BY <1>5
    <3>2. UnderWay(toClient', "DATA", ids) = UnderWay(toClient, "DATA", ids) + UnderWay(fs, "DATA", ids)
      BY <3>1, AddedUnits
    <3>3. UnderWay(toClient', "WINDOW_UPDATE", ids)
            = UnderWay(toClient, "WINDOW_UPDATE", ids) + UnderWay(fs, "WINDOW_UPDATE", ids)
      BY <3>1, AddedUnits
    <3> QED BY <3>2, <3>3
  <2>5. UnderWay(toClient, "DATA", ids) \in Nat /\ UnderWay(toClient, "WINDOW_UPDATE", ids) \in Nat
    BY Amounts
  <2> QED BY <2>1, <2>2, <2>3, <2>4, <2>5
<1>7. stream' = stream /\ sess' = sess /\ toServer' = toServer
  BY <1>2 DEF clientVars
<1>8. srvConn'.recvWin = srvConn.recvWin + m /\ srvConn'.sendWin = srvConn.sendWin
  <2>1. srvConn \in SrvConn
    BY DEF Sound, TypeOK
  <2> QED BY <1>2, <1>3, <2>1, WindowTypes DEF SrvConn
<1>9. \A t \in Streams :
        /\ srv'[t].recvWin = srv[t].recvWin + (IF t = s THEN n ELSE 0)
        /\ srv'[t].sendWin = srv[t].sendWin
  <2>1. srv \in [Streams -> Srv]
    BY DEF Sound, TypeOK
  <2>2. PICK w \in Srv : w = srv[s]
    BY <2>1
  <2>3. v.recvWin = PeerWindow /\ v.sendWin = w.sendWin /\ w.recvWin \in Int
    BY <1>2, <2>2 DEF Srv
  <2>4. PeerWindow = w.recvWin + n
    BY <1>2, <1>3, <2>2, <2>3, WindowTypes
  <2>5. \A t \in Streams : srv[t].recvWin \in Int
    BY Amounts
  <2> QED BY <1>2, <2>1, <2>2, <2>3, <2>4, <2>5
<1>10. SendConn'
  <2>1. UnderWay(toClient', "WINDOW_UPDATE", {0}) = UnderWay(toClient, "WINDOW_UPDATE", {0}) + m
    <3>1. s \notin {0} /\ UnderWay(toClient, "WINDOW_UPDATE", {0}) \in Nat
      BY Amounts DEF Streams
    <3>2. UnderWay(toClient', "WINDOW_UPDATE", {0})
            = UnderWay(toClient, "WINDOW_UPDATE", {0})
                + (IF 0 \in {0} THEN m ELSE 0) + (IF s \in {0} THEN n ELSE 0)
      BY <1>6
    <3> QED BY <3>1, <3>2
  <2>2. SendConn
    BY DEF Windows
  <2>3. /\ sess.connSend \in Nat /\ srvConn.recvWin \in Int
        /\ UnderWay(toServer, "DATA", Streams) \in Nat
        /\ UnderWay(toClient, "WINDOW_UPDATE", {0}) \in Nat
    BY Amounts
  <2> QED BY <1>7, <1>8, <2>1, <2>2, <2>3 DEF SendConn
<1>11. ASSUME NEW t \in Streams PROVE SendStream(t)'
  <2>1. PICK k \in Nat : k = IF t = s THEN n ELSE 0
    OBVIOUS
  <2>2. UnderWay(toClient', "WINDOW_UPDATE", {t}) = UnderWay(toClient, "WINDOW_UPDATE", {t}) + k
    <3>1. 0 \notin {t} /\ (s \in {t} <=> t = s) /\ UnderWay(toClient, "WINDOW_UPDATE", {t}) \in Nat
      BY Amounts DEF Streams
    <3>2. UnderWay(toClient', "WINDOW_UPDATE", {t})
            = UnderWay(toClient, "WINDOW_UPDATE", {t})
                + (IF 0 \in {t} THEN m ELSE 0) + (IF s \in {t} THEN n ELSE 0)
      BY <1>6
    <3> QED BY <2>1, <3>1, <3>2
  <2>3. SendStream(t)
    BY DEF Windows
  <2>4. /\ stream[t].sendWindow \in Nat /\ srv[t].recvWin \in Int
        /\ UnderWay(toServer, "DATA", {t}) \in Nat
        /\ UnderWay(toClient, "WINDOW_UPDATE", {t}) \in Nat
    BY Amounts
  <2>5. srv'[t].recvWin = srv[t].recvWin + k
    BY <1>9, <2>1
  <2> QED BY <1>7, <2>2, <2>3, <2>4, <2>5, WindowTypes DEF SendStream
<1>12. ASSUME ~sess'.destroyed PROVE CreditConn' /\ \A t \in Streams : CreditStream(t)'
  <2>1. CreditConn /\ \A t \in Streams : CreditStream(t)
    BY <1>7, <1>12 DEF Windows
  <2>2. CreditConn'
    BY <1>6, <1>7, <1>8, <2>1 DEF CreditConn
  <2>3. ASSUME NEW t \in Streams PROVE CreditStream(t)'
    <3>1. CreditStream(t) /\ srv'[t].sendWin = srv[t].sendWin
      BY <1>9, <2>1
    <3> QED BY <1>6, <1>7, <3>1 DEF CreditStream
  <2> QED BY <2>2, <2>3
<1> QED BY <1>10, <1>11, <1>12 DEF Windows

(* DATA takes its length from the server's windows, and its padding, which *)
(* is nobody's from there on.                                              *)
LEMMA CreditedLess ==
  ASSUME NEW a \in Int, NEW b \in Int, NEW window \in Nat, NEW pad \in Pads,
         CreditedTo(a, window), b = a - pad
  PROVE  CreditedTo(b, window)
<1>1. pad \in Nat
  BY H2Assumption
<1>2. Pads \subseteq {0} => pad = 0
  OBVIOUS
<1> QED BY <1>1, <1>2 DEF CreditedTo

LEMMA SrvSendsWindows ==
  ASSUME Sound, Sound', Windows, NEW s \in Streams, NEW n \in Nat, NEW pad \in Pads,
         SrvSends(s, n, pad)
  PROVE  Windows'
<1>1. PICK f \in Frame, v \in Srv : SentData(s, n, pad, f, v)
  BY SrvSendsDoes, Zenon
<1>2. /\ ~sess.destroyed /\ f.type = "DATA" /\ f.s = s /\ f.n = n
      /\ toClient' = toClient \o <<f>>
      /\ v = [srv[s] EXCEPT !.left = srv[s].left - n, !.sendWin = srv[s].sendWin - (n + pad)]
      /\ srv' = [srv EXCEPT ![s] = v]
      /\ srvConn' = [srvConn EXCEPT !.sendWin = srvConn.sendWin - (n + pad)]
      /\ UNCHANGED <<clientVars, toServer, faults>>
  BY <1>1 DEF SentData
<1>3. pad \in Nat
  BY H2Assumption
<1>4. PICK fs : fs = <<f>>
  OBVIOUS
<1>5. fs \in Seq(Frame) /\ toClient' = toClient \o fs
  BY <1>2, <1>4
<1>6. ASSUME NEW ids
      PROVE  /\ UnderWay(toClient', "DATA", ids)
                  = UnderWay(toClient, "DATA", ids) + IF s \in ids THEN n ELSE 0
             /\ UnderWay(toClient', "WINDOW_UPDATE", ids) = UnderWay(toClient, "WINDOW_UPDATE", ids)
  <2>1. UnderWay(fs, "DATA", ids) = Weight(f, "DATA", ids)
          /\ UnderWay(fs, "WINDOW_UPDATE", ids) = Weight(f, "WINDOW_UPDATE", ids)
    BY <1>2, <1>4, UnitsOfOne
  <2>2. /\ UnderWay(toClient', "DATA", ids) = UnderWay(toClient, "DATA", ids) + UnderWay(fs, "DATA", ids)
        /\ UnderWay(toClient', "WINDOW_UPDATE", ids)
             = UnderWay(toClient, "WINDOW_UPDATE", ids) + UnderWay(fs, "WINDOW_UPDATE", ids)
    BY <1>5, AddedUnits
  <2>3. UnderWay(toClient, "WINDOW_UPDATE", ids) \in Nat
    BY Amounts
  <2> QED BY <1>2, <2>1, <2>2, <2>3 DEF Weight
<1>7. stream' = stream /\ sess' = sess /\ toServer' = toServer
  BY <1>2 DEF clientVars
<1>8. srvConn'.recvWin = srvConn.recvWin /\ srvConn'.sendWin = srvConn.sendWin - (n + pad)
  <2>1. srvConn \in SrvConn
    BY DEF Sound, TypeOK
  <2> QED BY <1>2, <2>1 DEF SrvConn
<1>9. \A t \in Streams :
        /\ srv'[t].recvWin = srv[t].recvWin
        /\ t # s => srv'[t].sendWin = srv[t].sendWin
        /\ t = s => srv'[t].sendWin = srv[t].sendWin - (n + pad)
  <2>1. srv \in [Streams -> Srv]
    BY DEF Sound, TypeOK
  <2>2. v.recvWin = srv[s].recvWin /\ v.sendWin = srv[s].sendWin - (n + pad)
    BY <1>2, <2>1 DEF Srv
  <2> QED BY <1>2, <2>1, <2>2
<1>10. SendConn' /\ \A t \in Streams : SendStream(t)'
  <2>1. \A ids : /\ UnderWay(toServer', "DATA", ids) <= UnderWay(toServer, "DATA", ids)
                 /\ UnderWay(toClient', "WINDOW_UPDATE", ids) <= UnderWay(toClient, "WINDOW_UPDATE", ids)
    BY <1>6, <1>7, Amounts
  <2> QED BY <1>7, <1>8, <1>9, <2>1, SendKept
<1>11. CreditConn'
  <2>1. CreditConn
    BY <1>2 DEF Windows
  <2>2. /\ srvConn.sendWin \in Nat /\ sess.recvUsed \in Nat
        /\ UnderWay(toClient, "DATA", Streams) \in Nat
        /\ UnderWay(toServer, "WINDOW_UPDATE", {0}) \in Nat
    BY Amounts
  <2>3. UnderWay(toClient', "DATA", Streams) = UnderWay(toClient, "DATA", Streams) + n
    BY <1>6
  <2>4. PICK a \in Int : a = srvConn.sendWin + sess.recvUsed + UnderWay(toClient, "DATA", Streams)
                               + UnderWay(toServer, "WINDOW_UPDATE", {0})
    BY <2>2
  <2>5. PICK b \in Int : b = srvConn'.sendWin + sess'.recvUsed + UnderWay(toClient', "DATA", Streams)
                               + UnderWay(toServer', "WINDOW_UPDATE", {0})
    BY <1>3, <1>7, <1>8, <2>2, <2>3
  <2>6. b = a - pad
    BY <1>3, <1>7, <1>8, <2>2, <2>3, <2>4, <2>5
  <2>7. CreditedTo(a, RecvWindow)
    BY <2>1, <2>4 DEF CreditConn
  <2>8. CreditedTo(b, RecvWindow)
    BY <2>6, <2>7, CreditedLess, WindowTypes
  <2> QED BY <2>5, <2>8 DEF CreditConn
<1>12. ASSUME NEW t \in Streams PROVE CreditStream(t)'
  <2>1. CreditStream(t)
    BY <1>2 DEF Windows
  <2>2. /\ srv[t].sendWin \in Nat /\ stream[t].recvUsed \in Nat
        /\ UnderWay(toClient, "DATA", {t}) \in Nat
        /\ UnderWay(toServer, "WINDOW_UPDATE", {t}) \in Nat
    BY Amounts
  <2>3. CASE t # s
    <3>1. UnderWay(toClient', "DATA", {t}) = UnderWay(toClient, "DATA", {t})
      <4>1. s \notin {t}
        BY <2>3
      <4> QED BY <1>6, <2>2, <4>1
    <3>2. srv'[t].sendWin = srv[t].sendWin
      BY <1>9, <2>3
    <3> QED BY <1>7, <2>1, <3>1, <3>2 DEF CreditStream
  <2>4. CASE t = s
    <3>1. UnderWay(toClient', "DATA", {t}) = UnderWay(toClient, "DATA", {t}) + n
      BY <1>6, <2>4
    <3>2. srv'[t].sendWin = srv[t].sendWin - (n + pad)
      BY <1>9, <2>4
    <3>3. PICK a \in Int : a = srv[t].sendWin + stream[t].recvUsed + UnderWay(toClient, "DATA", {t})
                                 + UnderWay(toServer, "WINDOW_UPDATE", {t})
      BY <2>2
    <3>4. PICK b \in Int : b = srv'[t].sendWin + stream'[t].recvUsed + UnderWay(toClient', "DATA", {t})
                                 + UnderWay(toServer', "WINDOW_UPDATE", {t})
      BY <1>3, <1>7, <2>2, <3>1, <3>2
    <3>5. b = a - pad
      BY <1>3, <1>7, <2>2, <3>1, <3>2, <3>3, <3>4
    <3>6. stream'[t].phase # "gone" => CreditedTo(a, StreamWindow)
      BY <1>7, <2>1, <3>3 DEF CreditStream
    <3>7. stream'[t].phase # "gone" => CreditedTo(b, StreamWindow)
      BY <3>5, <3>6, CreditedLess, WindowTypes
    <3> QED BY <3>4, <3>7 DEF CreditStream
  <2> QED BY <2>3, <2>4
<1> QED BY <1>10, <1>11, <1>12 DEF Windows

LEMMA WindowsInit == Init => Windows
<1> SUFFICES ASSUME Init PROVE Windows
  OBVIOUS
<1>1. \A type, ids : UnderWay(toServer, type, ids) = 0 /\ UnderWay(toClient, type, ids) = 0
  BY UnderWayEmpty DEF Init
<1>2. /\ sess.connSend = SendWindow /\ sess.recvUsed = 0
      /\ srvConn.recvWin = SendWindow /\ srvConn.sendWin = RecvWindow
  BY DEF Init
<1>3. \A t \in Streams : /\ stream[t].sendWindow = SendWindow /\ stream[t].recvUsed = 0
                         /\ srv[t].recvWin = PeerWindow /\ srv[t].sendWin = StreamWindow
  BY DEF Init
<1>4. SendConn /\ CreditConn
  BY <1>1, <1>2, WindowTypes DEF SendConn, CreditConn, CreditedTo
<1>5. ASSUME NEW t \in Streams PROVE SendStream(t) /\ CreditStream(t)
  BY <1>1, <1>3, WindowTypes DEF SendStream, CreditStream, CreditedTo
<1> QED BY <1>4, <1>5 DEF Windows

LEMMA WindowsStep ==
  ASSUME Sound, Windows, [Next]_vars
  PROVE  Windows'
<1>1. Sound'
  BY SoundStep
<1>2. CASE Caller
  <2>1. ASSUME NEW s \in Streams, NEW k \in Kinds, NEW b \in Bodies, Request(s, k, b)
        PROVE  Windows'
    BY <1>1, <2>1, RequestWindows
  <2>2. ASSUME NEW s \in Streams, NEW b \in Bodies, NEW n \in 1 .. b, Write(s, n)
        PROVE  Windows'
    BY <1>1, <2>2, WriteWindows
  <2>3. ASSUME Quiet PROVE Windows'
    BY <1>1, <2>3, WindowsQuiet
  <2> QED BY <1>2, <2>1, <2>2, <2>3, FinishQuiet, CancelQuiet, EndQuiet DEF Caller
<1>3. CASE Dispatch
  <2>1. ASSUME Quiet PROVE Windows'
    BY <1>1, <2>1, WindowsQuiet
  <2> QED BY <1>1, <1>3, <2>1, OnHeadersQuiet, OnContinuationQuiet, OnDataWindows, OnResetQuiet,
             OnUnknownWindows, OnWindowUpdateWindows, OnGoawayQuiet, EndQuiet DEF Dispatch
<1>4. CASE Server
  <2>1. ASSUME NEW s \in Streams, NEW a \in Answers, NEW form \in Forms, SrvAnswers(s, a, form)
        PROVE  Quiet
    BY <2>1, SrvAnswersQuiet
  <2>2. ASSUME NEW s \in Streams, NEW n \in 1 .. srv[s].left, NEW pad \in Pads, SrvSends(s, n, pad)
        PROVE  Windows'
    <3>1. n \in Nat
      OBVIOUS
    <3> QED BY <1>1, <2>2, <3>1, SrvSendsWindows
  <2>3. ASSUME Quiet PROVE Windows'
    BY <1>1, <2>3, WindowsQuiet
  <2> QED BY <1>1, <1>4, <2>1, <2>2, <2>3, SrvReceivesWindows, SrvCreditsWindows, SrvSignalsQuiet DEF Server
<1>5. CASE UNCHANGED vars
  <2>1. UNCHANGED <<stream, sess, srv, srvConn, toServer, toClient>>
    BY <1>5 DEF vars
  <2> QED BY <2>1 DEF Windows, SendConn, SendStream, CreditConn, CreditStream, CreditedTo
<1> QED BY <1>2, <1>3, <1>4, <1>5 DEF Next

(* Neither side's accounts ever allow more than the other gave, whatever   *)
(* the windows, the padding and the order of the frames (session.js        *)
(* 125-135, 277-286, 332-365).                                             *)
THEOREM SessionWindows == Spec => [](Sound /\ Windows)
<1>1. Init => Sound /\ Windows
  BY InitSound, WindowsInit
<1>2. Sound /\ Windows /\ [Next]_vars => (Sound /\ Windows)'
  BY SoundStep, WindowsStep
<1> QED BY <1>1, <1>2, PTL DEF Spec

(* The client never sends more than the server allows, on the connection   *)
(* or on a stream, if the server's initial window is not smaller than the  *)
(* 65535 the client starts every stream with (session.js 347-365): the     *)
(* setting is read and never applied (265).                                *)
THEOREM SendsInWindows ==
  ASSUME PeerWindow >= SendWindow
  PROVE  Spec => []WindowsRespected
<1>1. Sound /\ Windows => WindowsRespected
  <2> SUFFICES ASSUME Sound, Windows PROVE WindowsRespected
    OBVIOUS
  <2>1. srvConn.recvWin >= 0
    <3>1. SendConn
      BY DEF Windows
    <3> QED BY <3>1, Amounts DEF SendConn
  <2>2. ASSUME NEW s \in Streams, stream[s].phase = "open" PROVE srv[s].recvWin >= 0
    <3>1. srv[s].recvWin + SendWindow >=
            stream[s].sendWindow + UnderWay(toServer, "DATA", {s})
              + UnderWay(toClient, "WINDOW_UPDATE", {s}) + PeerWindow
      BY <2>2 DEF Windows, SendStream
    <3> QED BY <3>1, Amounts, WindowTypes
  <2> QED BY <2>1, <2>2 DEF WindowsRespected
<1> QED BY <1>1, SessionWindows, PTL

(* Whatever the server's initial window is, the client exceeds what a      *)
(* stream's window allows by no more than what it starts with too much     *)
(* (session.js 265, 347-365).                                              *)
THEOREM OverrunBounded ==
  Spec => [](\A s \in Streams : stream[s].phase = "open" =>
                srv[s].recvWin >= PeerWindow - SendWindow)
<1> DEFINE Bounded == \A s \in Streams : stream[s].phase = "open" =>
                        srv[s].recvWin >= PeerWindow - SendWindow
<1>1. Sound /\ Windows => Bounded
  <2> SUFFICES ASSUME Sound, Windows, NEW s \in Streams, stream[s].phase = "open"
               PROVE  srv[s].recvWin >= PeerWindow - SendWindow
    OBVIOUS
  <2>1. srv[s].recvWin + SendWindow >=
            stream[s].sendWindow + UnderWay(toServer, "DATA", {s})
              + UnderWay(toClient, "WINDOW_UPDATE", {s}) + PeerWindow
    BY DEF Windows, SendStream
  <2> QED BY <2>1, Amounts, WindowTypes
<1> HIDE DEF Bounded
<1>2. Spec => []Bounded
  BY <1>1, SessionWindows, PTL
<1> QED BY <1>2 DEF Bounded

(* If the server does not pad, nothing of the windows the client gives it  *)
(* is ever lost, on the connection or on a stream (session.js 125-135,     *)
(* 305, 332-339).                                                          *)
THEOREM CreditKept ==
  ASSUME Pads \subseteq {0}
  PROVE  Spec => []CreditConserved
<1>1. Windows => CreditConserved
  BY DEF Windows, CreditConn, CreditStream, CreditedTo, CreditConserved
<1> QED BY <1>1, SessionWindows, PTL

-----------------------------------------------------------------------------
(***************************************************************************)
(* What is heard.  Only a stream that is still in the map is told          *)
(* anything, and it has had no outcome yet.                                *)
(***************************************************************************)
Hearing ==
  \A s \in Streams : /\ ~heard[s].late
                     /\ stream[s].phase # "gone" => heard[s].outcome = "none"

(* What a header block that is decoded does to its stream.                 *)
Finalized(s, f, end, cancel, st, h) ==
  /\ st.phase = (IF cancel \/ end THEN "gone" ELSE "open") /\ ~st.assembling
  /\ st.kind = stream[s].kind /\ st.size = stream[s].size
  /\ stream' = [stream EXCEPT ![s] = st]
  /\ h.units = heard[s].units
  /\ h.outcome = (IF cancel THEN "cancelled" ELSE IF end THEN "end" ELSE "none")
  /\ h.late <=> heard[s].late
  /\ h.garbled <=> heard[s].garbled \/ f.block # sess.decoded + 1
  /\ heard' = [heard EXCEPT ![s] = h]
  /\ sess' = [sess EXCEPT !.decoded = @ + 1]
  /\ toClient' = Tail(toClient)
  /\ \E fs \in Seq(Frame) :
       /\ Sent(fs)
       /\ \A i \in 1 .. Len(fs) : fs[i].type = "RST_STREAM" /\ fs[i].s = s

LEMMA FinalizeDoes ==
  ASSUME Sound, NEW s \in Streams, NEW f \in Frame, NEW end \in BOOLEAN,
         NEW cancel \in BOOLEAN, stream[s].phase = "open", heard[s].outcome = "none",
         Finalize(s, f, end, cancel), ~FailAll
  PROVE  \E st \in Stream, h \in Heard : Finalized(s, f, end, cancel, st, h)
<1>1. stream \in [Streams -> Stream] /\ heard \in [Streams -> Heard]
  BY DEF Sound, TypeOK
<1>2. PICK k \in Heard : k = heard[s]
  BY <1>1
<1>3. PICK old \in Stream : old = stream[s]
  BY <1>1
<1>4. PICK garbled \in BOOLEAN : garbled = (f.block # sess.decoded + 1)
  BY Zenon
<1>5. PICK g \in BOOLEAN, l \in BOOLEAN :
        g = (k.garbled \/ garbled) /\ l = (k.late \/ k.outcome # "none")
  BY Zenon
<1>6. PICK h1 : h1 = [k EXCEPT !.heads = @ + 1, !.garbled = g, !.late = l]
  OBVIOUS
<1>7. PICK h2 : h2 = IF cancel THEN [h1 EXCEPT !.outcome = "cancelled"] ELSE h1
  OBVIOUS
<1>8. PICK h : h = IF end THEN Ended(h2) ELSE h2
  OBVIOUS
<1>9. PICK fs : fs = IF cancel THEN <<Fr("RST_STREAM", s)>> ELSE <<>>
  OBVIOUS
<1>10. /\ sess' = [sess EXCEPT !.decoded = @ + 1]
       /\ stream' = [stream EXCEPT ![s].assembling = FALSE,
                       ![s].phase = IF cancel \/ end THEN "gone" ELSE @]
       /\ heard' = [heard EXCEPT ![s] = h]
       /\ Sent(fs)
       /\ toClient' = Tail(toClient)
  BY <1>2, <1>4, <1>5, <1>6, <1>7, <1>8, <1>9 DEF Finalize
<1>11. k.outcome = "none" /\ k.heads + 1 \in Nat /\ (l <=> k.late)
  BY <1>2, <1>5 DEF Heard
<1>12. h1 \in Heard /\ h1.units = k.units /\ h1.outcome = "none"
         /\ (h1.late <=> l) /\ (h1.garbled <=> g)
  BY <1>6, <1>11 DEF Heard
<1>13. h2 \in Heard /\ h2.units = k.units /\ h2.outcome = (IF cancel THEN "cancelled" ELSE "none")
         /\ (h2.late <=> l) /\ (h2.garbled <=> g)
  BY <1>7, <1>12 DEF Heard
<1>14. h \in Heard /\ h.units = k.units
         /\ h.outcome = (IF cancel THEN "cancelled" ELSE IF end THEN "end" ELSE "none")
         /\ (h.late <=> l) /\ (h.garbled <=> g)
  <2>1. CASE ~end
    BY <1>8, <1>13, <2>1
  <2>2. CASE end
    <3>1. PICK m \in BOOLEAN : m = (h2.late \/ h2.outcome \in {"end", "error"})
      BY Zenon
    <3>2. m <=> h2.late
      BY <1>13, <3>1
    <3>3. h = [h2 EXCEPT !.late = m, !.outcome = IF @ = "none" THEN "end" ELSE @]
      BY <1>8, <2>2, <3>1 DEF Ended
    <3>4. h \in Heard /\ h.units = h2.units /\ (h.late <=> m) /\ (h.garbled <=> h2.garbled)
            /\ h.outcome = (IF h2.outcome = "none" THEN "end" ELSE h2.outcome)
      BY <1>13, <3>3 DEF Heard
    <3> QED BY <1>13, <2>2, <3>2, <3>4
  <2> QED BY <2>1, <2>2
<1>15. PICK st : st = [old EXCEPT !.assembling = FALSE,
                                  !.phase = IF cancel \/ end THEN "gone" ELSE @]
  OBVIOUS
<1>16. st \in Stream /\ st.phase = (IF cancel \/ end THEN "gone" ELSE "open") /\ ~st.assembling
         /\ st.kind = old.kind /\ st.size = old.size
  BY <1>3, <1>15 DEF Stream
<1>17. stream' = [stream EXCEPT ![s] = st]
  BY <1>1, <1>3, <1>10, <1>15
<1>18. fs \in Seq(Frame) /\ \A i \in 1 .. Len(fs) : fs[i].type = "RST_STREAM" /\ fs[i].s = s
  BY <1>9, ResetFrames
<1>19. h.late <=> heard[s].late
  BY <1>2, <1>11, <1>14
<1>20. h.garbled <=> heard[s].garbled \/ f.block # sess.decoded + 1
  BY <1>2, <1>4, <1>5, <1>14
<1>21. Finalized(s, f, end, cancel, st, h)
  BY <1>2, <1>3, <1>10, <1>14, <1>16, <1>17, <1>18, <1>19, <1>20, Zenon DEF Finalized
<1> QED BY <1>14, <1>16, <1>21, Zenon

(* Nobody is told anything, and nobody returns to the map.                 *)
LEMMA HearingKept ==
  ASSUME Hearing, UNCHANGED heard,
         \A t \in Streams : stream'[t].phase # "gone" => stream[t].phase # "gone"
  PROVE  Hearing'
BY DEF Hearing

(* One stream is told something.                                           *)
LEMMA HearingOne ==
  ASSUME Sound, Hearing, NEW s \in Streams, NEW st \in Stream, NEW h \in Heard,
         stream' = [stream EXCEPT ![s] = st], heard' = [heard EXCEPT ![s] = h],
         ~h.late, st.phase # "gone" => h.outcome = "none"
  PROVE  Hearing'
<1>1. stream \in [Streams -> Stream] /\ heard \in [Streams -> Heard]
  BY DEF Sound, TypeOK
<1>2. ASSUME NEW t \in Streams
      PROVE  ~heard'[t].late /\ (stream'[t].phase # "gone" => heard'[t].outcome = "none")
  <2>1. CASE t = s
    BY <1>1, <2>1
  <2>2. CASE t # s
    BY <1>1, <2>2 DEF Hearing
  <2> QED BY <2>1, <2>2
<1> QED BY <1>2 DEF Hearing

LEMMA FailAllHearing ==
  ASSUME Sound, Hearing, FailAll
  PROVE  Hearing'
<1>1. stream \in [Streams -> Stream] /\ heard \in [Streams -> Heard]
  BY DEF Sound, TypeOK
<1>2. ASSUME NEW t \in Streams
      PROVE  ~heard'[t].late /\ (stream'[t].phase # "gone" => heard'[t].outcome = "none")
  <2>1. CASE stream[t].phase = "open"
    <3>1. PICK k \in Heard : k = heard[t]
      BY <1>1
    <3>2. ~k.late /\ k.outcome = "none"
      BY <2>1, <3>1 DEF Hearing
    <3>3. heard'[t] = Failed(k) /\ stream'[t] = Closed(stream[t])
      BY <2>1, <3>1 DEF FailAll
    <3>4. ~Failed(k).late
      BY <3>2 DEF Failed, Late, Heard
    <3>5. stream'[t].phase = "gone"
      BY <1>1, <3>3 DEF Closed, Stream
    <3> QED BY <3>3, <3>4, <3>5
  <2>2. CASE stream[t].phase # "open"
    <3>1. heard'[t] = heard[t] /\ stream'[t] = stream[t]
      BY <2>2 DEF FailAll
    <3> QED BY <3>1 DEF Hearing
  <2> QED BY <2>1, <2>2
<1> QED BY <1>2 DEF Hearing

LEMMA FinalizeHearing ==
  ASSUME Sound, Hearing, NEW s \in Streams, NEW f \in Frame, NEW end \in BOOLEAN,
         NEW cancel \in BOOLEAN, stream[s].phase = "open", Finalize(s, f, end, cancel)
  PROVE  Hearing'
<1>1. CASE FailAll
  BY <1>1, FailAllHearing
<1>2. CASE ~FailAll
  <2>1. heard[s].outcome = "none" /\ ~heard[s].late
    BY DEF Hearing
  <2>2. PICK st \in Stream, h \in Heard : Finalized(s, f, end, cancel, st, h)
    BY <1>2, <2>1, FinalizeDoes, Zenon
  <2>3. stream' = [stream EXCEPT ![s] = st] /\ heard' = [heard EXCEPT ![s] = h]
          /\ ~h.late /\ (st.phase # "gone" => h.outcome = "none")
    BY <2>1, <2>2 DEF Finalized
  <2> QED BY <2>3, HearingOne
<1> QED BY <1>1, <1>2

LEMMA OnHeadersHearing ==
  ASSUME Sound, Hearing, NEW cancel \in BOOLEAN, OnHeaders(cancel)
  PROVE  Hearing'
<1>1. stream \in [Streams -> Stream]
  BY DEF Sound, TypeOK
<1>2. PICK f : f = Head(toClient)
  OBVIOUS
<1>3. toClient # <<>> /\ f.type = "HEADERS" /\ stream[f.s].phase = "open"
  BY <1>2 DEF OnHeaders, Receiving
<1>4. f \in Frame /\ f.s \in Streams /\ f.end \in BOOLEAN
  BY <1>2, <1>3, HeadTypes, FrameTypes
<1>5. CASE f.fin
  <2>1. Finalize(f.s, f, f.end, cancel)
    BY <1>2, <1>5 DEF OnHeaders
  <2> QED BY <1>3, <1>4, <2>1, FinalizeHearing
<1>6. CASE ~f.fin
  <2>1. stream' = [stream EXCEPT ![f.s] = Assembling(@, f.end)] /\ UNCHANGED heard
    BY <1>2, <1>6 DEF OnHeaders
  <2>2. \A t \in Streams : stream'[t].phase # "gone" => stream[t].phase # "gone"
    BY <1>1, <2>1 DEF Assembling, Stream
  <2> QED BY <2>1, <2>2, HearingKept
<1> QED BY <1>5, <1>6

LEMMA OnContinuationHearing ==
  ASSUME Sound, Hearing, NEW cancel \in BOOLEAN, OnContinuation(cancel)
  PROVE  Hearing'
<1>1. PICK f : f = Head(toClient)
  OBVIOUS
<1>2. /\ toClient # <<>> /\ f.type = "CONTINUATION" /\ stream[f.s].phase = "open"
      /\ Finalize(f.s, f, stream[f.s].headerEnd, cancel)
  BY <1>1 DEF OnContinuation, Receiving
<1>3. f \in Frame /\ f.s \in Streams
  BY <1>1, <1>2, HeadTypes
<1>4. stream[f.s].headerEnd \in BOOLEAN
  BY <1>3 DEF Sound, TypeOK, Stream
<1> QED BY <1>2, <1>3, <1>4, FinalizeHearing

(* What DATA of an open stream does to what is heard of it.                *)
LEMMA DataHeard ==
  ASSUME Sound, Hearing, NEW f \in Frame, NEW st \in Stream, NEW h \in Heard, NEW p, NEW r,
         DataTaken(f, st, h, p, r)
  PROVE  /\ f.s \in Streams
         /\ ~h.late /\ h.units = heard[f.s].units + f.n
         /\ h.outcome = (IF f.end THEN "end" ELSE "none")
         /\ h.garbled <=> heard[f.s].garbled
         /\ st.phase = (IF f.end THEN "gone" ELSE "open")
         /\ st.assembling = stream[f.s].assembling /\ st.headerEnd = stream[f.s].headerEnd
         /\ st.kind = stream[f.s].kind /\ st.size = stream[f.s].size
<1>1. f.s \in Streams /\ stream[f.s].phase = "open"
  BY DEF DataTaken
<1>2. PICK k \in Heard : k = heard[f.s]
  BY <1>1 DEF Sound, TypeOK
<1>3. PICK w \in Stream : w = stream[f.s]
  BY <1>1 DEF Sound, TypeOK
<1>4. ~k.late /\ k.outcome = "none"
  BY <1>1, <1>2 DEF Hearing
<1>5. h = IF f.end THEN Ended(HeardData(f)) ELSE HeardData(f)
  BY DEF DataTaken
<1>6. st = [w EXCEPT !.recvUsed = IF r = <<>> THEN @ + f.n ELSE 0,
                     !.phase = IF f.end THEN "gone" ELSE @]
  BY <1>3 DEF DataTaken
<1>7. PICK d : d = HeardData(f)
  OBVIOUS
<1>8. d = [k EXCEPT !.units = @ + f.n, !.late = FALSE]
  <2>1. (k.late \/ k.outcome # "none") = FALSE
    BY <1>4
  <2> QED BY <1>2, <1>7, <2>1 DEF HeardData
<1>9. ~d.late /\ d.units = k.units + f.n /\ d.outcome = "none" /\ (d.garbled <=> k.garbled)
  BY <1>4, <1>8 DEF Heard
<1>10. ~h.late /\ h.units = d.units /\ h.outcome = (IF f.end THEN "end" ELSE "none")
         /\ (h.garbled <=> d.garbled)
  <2>1. CASE ~f.end
    BY <1>5, <1>7, <1>9, <2>1
  <2>2. CASE f.end
    <3>1. h = [d EXCEPT !.late = d.late \/ d.outcome \in {"end", "error"},
                        !.outcome = IF @ = "none" THEN "end" ELSE @]
      BY <1>5, <1>7, <2>2 DEF Ended
    <3>2. (d.late \/ d.outcome \in {"end", "error"}) = FALSE
      BY <1>9
    <3>3. h = [d EXCEPT !.late = FALSE, !.outcome = IF @ = "none" THEN "end" ELSE @]
      BY <3>1, <3>2
    <3> QED BY <1>8, <1>9, <2>2, <3>3 DEF Heard
  <2> QED BY <2>1, <2>2
<1>11. st.phase = (IF f.end THEN "gone" ELSE "open")
         /\ st.assembling = w.assembling /\ st.headerEnd = w.headerEnd
         /\ st.kind = w.kind /\ st.size = w.size
  BY <1>1, <1>3, <1>6 DEF Stream
<1> QED BY <1>1, <1>2, <1>3, <1>9, <1>10, <1>11

LEMMA OnDataHearing ==
  ASSUME Sound, Hearing, OnData
  PROVE  Hearing'
<1>1. PICK f \in Frame, st \in Stream, h \in Heard, p \in Seq(Frame), r \in Seq(Frame) :
        DataTaken(f, st, h, p, r)
  BY OnDataDoes, Zenon
<1>2. stream' = [stream EXCEPT ![f.s] = st] /\ heard' = [heard EXCEPT ![f.s] = h]
  BY <1>1 DEF DataTaken
<1>3. f.s \in Streams /\ ~h.late /\ (st.phase # "gone" => h.outcome = "none")
  BY <1>1, DataHeard
<1> QED BY <1>2, <1>3, HearingOne

LEMMA OnResetHearing ==
  ASSUME Sound, Hearing, OnReset
  PROVE  Hearing'
<1>1. PICK s : s = Head(toClient).s
  OBVIOUS
<1>2. /\ toClient # <<>> /\ Head(toClient).type = "RST_STREAM" /\ stream[s].phase = "open"
      /\ stream' = [stream EXCEPT ![s] = Closed(@)] /\ heard' = [heard EXCEPT ![s] = Failed(@)]
  BY <1>1 DEF OnReset, Receiving
<1>3. s \in Streams
  BY <1>1, <1>2, HeadTypes
<1>4. PICK k \in Heard, w \in Stream : k = heard[s] /\ w = stream[s]
  BY <1>3 DEF Sound, TypeOK
<1>5. ~k.late /\ k.outcome = "none"
  BY <1>2, <1>3, <1>4 DEF Hearing
<1>6. PICK h : h = Failed(k)
  OBVIOUS
<1>7. h \in Heard /\ ~h.late
  BY <1>5, <1>6 DEF Failed, Late, Heard
<1>8. PICK st : st = Closed(w)
  OBVIOUS
<1>9. st \in Stream /\ st.phase = "gone"
  BY <1>8 DEF Closed, Stream
<1>10. stream' = [stream EXCEPT ![s] = st] /\ heard' = [heard EXCEPT ![s] = h]
  BY <1>2, <1>4, <1>6, <1>8
<1> QED BY <1>3, <1>7, <1>9, <1>10, HearingOne

LEMMA CancelHearing ==
  ASSUME Sound, Hearing, NEW s \in Streams, Cancel(s)
  PROVE  Hearing'
<1>1. /\ stream[s].phase = "open" /\ stream' = [stream EXCEPT ![s] = Closed(@)]
      /\ heard' = [heard EXCEPT ![s].outcome = "cancelled"]
  BY DEF Cancel
<1>2. PICK k \in Heard, w \in Stream : k = heard[s] /\ w = stream[s]
  BY DEF Sound, TypeOK
<1>3. ~k.late
  BY <1>2 DEF Hearing
<1>4. PICK h : h = [k EXCEPT !.outcome = "cancelled"]
  OBVIOUS
<1>5. h \in Heard /\ ~h.late
  BY <1>3, <1>4 DEF Heard
<1>6. PICK st : st = Closed(w)
  OBVIOUS
<1>7. st \in Stream /\ st.phase = "gone"
  BY <1>6 DEF Closed, Stream
<1>8. stream' = [stream EXCEPT ![s] = st] /\ heard' = [heard EXCEPT ![s] = h]
  BY <1>1, <1>2, <1>4, <1>6
<1> QED BY <1>5, <1>7, <1>8, HearingOne

(* The caller hands over a request or a piece of a body, or a window grows.*)
LEMMA OthersHearing ==
  ASSUME Sound, Hearing,
         \/ \E s \in Streams, k \in Kinds, b \in Bodies : Request(s, k, b)
         \/ \E s \in Streams, n \in Nat : Write(s, n)
         \/ \E s \in Streams : Finish(s)
         \/ CloseSession \/ OnUnknown \/ OnWindowUpdate \/ OnGoaway \/ Server
  PROVE  Hearing'
<1>1. stream \in [Streams -> Stream]
  BY DEF Sound, TypeOK
<1>2. ASSUME NEW s \in Streams, NEW k \in Kinds, NEW b \in Bodies, Request(s, k, b)
      PROVE  Hearing'
  <2>1. UNCHANGED heard /\ stream[s].phase = "idle"
    BY <1>2 DEF Request
  <2>2. \A t \in Streams : t # s => stream'[t] = stream[t]
    BY <1>1, <1>2 DEF Request
  <2> QED BY <2>1, <2>2, HearingKept
<1>3. ASSUME NEW s \in Streams, NEW n \in Nat, Write(s, n)
      PROVE  Hearing'
  <2>1. UNCHANGED heard /\ stream' = [stream EXCEPT ![s] = Spent(stream[s], n)]
    BY <1>3 DEF Write
  <2>2. Spent(stream[s], n).phase = stream[s].phase
    BY <1>1 DEF Spent, Stream
  <2>3. \A t \in Streams : stream'[t].phase = stream[t].phase
    BY <1>1, <2>1, <2>2
  <2> QED BY <2>1, <2>3, HearingKept
<1>4. ASSUME NEW s \in Streams, Finish(s)
      PROVE  Hearing'
  <2>1. UNCHANGED heard /\ stream' = [stream EXCEPT ![s].finished = TRUE]
    BY <1>4 DEF Finish
  <2>2. \A t \in Streams : stream'[t].phase = stream[t].phase
    BY <1>1, <2>1 DEF Stream
  <2> QED BY <2>1, <2>2, HearingKept
<1>5. ASSUME CloseSession \/ OnUnknown \/ OnGoaway
      PROVE  Hearing'
  <2>1. UNCHANGED <<stream, heard>>
    BY <1>5 DEF CloseSession, OnUnknown, OnGoaway
  <2> QED BY <2>1, HearingKept
<1>6. ASSUME OnWindowUpdate
      PROVE  Hearing'
  <2>1. PICK s, n : s = Head(toClient).s /\ n = Head(toClient).n
    OBVIOUS
  <2>2. /\ UNCHANGED heard
        /\ \/ UNCHANGED stream
           \/ stream' = [stream EXCEPT ![s].sendWindow = @ + n]
    BY <1>6, <2>1 DEF OnWindowUpdate
  <2>3. \A t \in Streams : stream'[t].phase = stream[t].phase
    BY <1>1, <2>2 DEF Stream
  <2> QED BY <2>2, <2>3, HearingKept
<1>7. ASSUME Server
      PROVE  Hearing'
  <2>1. UNCHANGED clientVars
    <3>1. SrvReceives \/ SrvGoaway \/ SrvMalformed => UNCHANGED clientVars
      BY DEF SrvReceives, SrvGoaway, SrvMalformed
    <3>2. \A s \in Streams : SrvCredits(s) \/ SrvResets(s) => UNCHANGED clientVars
      BY DEF SrvCredits, SrvResets
    <3>3. \A s \in Streams, a \in Answers, form \in Forms :
            SrvAnswers(s, a, form) => UNCHANGED clientVars
      BY DEF SrvAnswers
    <3>4. \A s \in Streams : \A n \in 1 .. srv[s].left, pad \in Pads :
            SrvSends(s, n, pad) => UNCHANGED clientVars
      BY DEF SrvSends
    <3> QED BY <1>7, <3>1, <3>2, <3>3, <3>4 DEF Server
  <2>2. UNCHANGED <<stream, heard>>
    BY <2>1 DEF clientVars
  <2> QED BY <2>2, HearingKept
<1> QED BY <1>2, <1>3, <1>4, <1>5, <1>6, <1>7

LEMMA HearingStep ==
  ASSUME Sound, Hearing, [Next]_vars
  PROVE  Hearing'
<1>1. CASE Caller
  <2>1. ASSUME NEW s \in Streams, NEW b \in Bodies, NEW n \in 1 .. b, Write(s, n)
        PROVE  Hearing'
    <3>1. n \in Nat
      OBVIOUS
    <3> QED BY <2>1, <3>1, OthersHearing
  <2> QED BY <1>1, <2>1, CancelHearing, OthersHearing DEF Caller
<1>2. CASE Dispatch
  <2>1. ASSUME OnBad PROVE Hearing'
    BY <2>1, FailAllHearing DEF OnBad
  <2> QED BY <1>2, <2>1, OnHeadersHearing, OnContinuationHearing, OnDataHearing, OnResetHearing,
             OthersHearing DEF Dispatch
<1>3. CASE Server
  BY <1>3, OthersHearing
<1>4. CASE UNCHANGED vars
  <2>1. UNCHANGED <<stream, heard>>
    BY <1>4 DEF vars
  <2> QED BY <2>1, HearingKept
<1> QED BY <1>1, <1>2, <1>3, <1>4 DEF Next

LEMMA HearingInit == Init => Hearing
BY DEF Init, Hearing

(* performH2 hears nothing after the end or failure of its stream, and no  *)
(* data or error after it has cancelled it, however frames, cancellations  *)
(* and failures of the session are interleaved (session.js 114-151,        *)
(* 244-258; client.js 239-245, 291-320).                                   *)
THEOREM NothingIsLate == Spec => []NothingAfterOutcome
<1>1. Init => Sound /\ Hearing
  BY InitSound, HearingInit
<1>2. Sound /\ Hearing /\ [Next]_vars => (Sound /\ Hearing)'
  BY SoundStep, HearingStep
<1>3. Hearing => NothingAfterOutcome
  BY DEF Hearing, NothingAfterOutcome
<1> QED BY <1>1, <1>2, <1>3, PTL DEF Spec

-----------------------------------------------------------------------------
(***************************************************************************)
(* Whole responses.  What has been heard of a response, what is under way  *)
(* and what the server has left make up the response as long as its stream *)
(* is in the map; nothing follows the frame that ends it.                  *)
(***************************************************************************)
DataOf(f, s) == f.type = "DATA" /\ f.s = s
Ends(q, type, s) == \E i \in DOMAIN q : q[i].type = type /\ q[i].s = s /\ q[i].end
LastData(q, s) ==
  \A i, j \in DOMAIN q : i < j /\ DataOf(q[i], s) /\ q[i].end => ~DataOf(q[j], s)

Had(s) == heard[s].units + UnderWay(toClient, "DATA", {s})
Complete(s) == srv[s].answered /\ srv[s].left = 0 /\ Had(s) = srv[s].total
Empty(s) == srv[s].answered /\ srv[s].left = 0 /\ Had(s) = 0 /\ srv[s].total = 0

Whole(s) ==
  stream[s].phase # "gone" =>
    /\ ~srv[s].answered => Had(s) = 0
    /\ srv[s].left > 0 => Had(s) + srv[s].left = srv[s].total
    /\ LastData(toClient, s)
    /\ Ends(toClient, "DATA", s) => Complete(s)
    /\ Ends(toClient, "HEADERS", s) => Empty(s)
    /\ stream[s].assembling /\ stream[s].headerEnd => Empty(s)

EndedWhole(s) ==
  heard[s].outcome = "end" => srv[s].answered /\ heard[s].units = srv[s].total

Delivery ==
  /\ sess.destroyed => toClient = <<>>
  /\ ~sess.destroyed => \A s \in Streams : Whole(s)
  /\ \A s \in Streams : EndedWhole(s)

(* The ends that a queue announces when frames are taken or added.         *)
Follows(q, r, s) ==
  /\ LastData(q, s) => LastData(r, s)
  /\ \A type \in {"DATA", "HEADERS"} : Ends(r, type, s) => Ends(q, type, s)

LEMMA FollowsSame ==
  ASSUME NEW q, NEW s
  PROVE  Follows(q, q, s)
BY DEF Follows

LEMMA TailPlaces ==
  ASSUME NEW q \in Seq(Frame), q # <<>>
  PROVE  /\ Tail(q) \in Seq(Frame)
         /\ \A i \in DOMAIN Tail(q) : i + 1 \in DOMAIN q /\ Tail(q)[i] = q[i + 1]
         /\ 1 \in DOMAIN q /\ q[1] = Head(q)
<1>1. Len(q) \in Nat /\ Len(q) # 0 /\ DOMAIN q = 1 .. Len(q)
  OBVIOUS
<1>2. DOMAIN Tail(q) = 1 .. (Len(q) - 1)
  BY <1>1
<1> QED BY <1>1, <1>2

LEMMA FollowsTail ==
  ASSUME NEW q \in Seq(Frame), q # <<>>, NEW s
  PROVE  Follows(q, Tail(q), s)
<1> DEFINE r == Tail(q)
<1>1. \A i \in DOMAIN r : i + 1 \in DOMAIN q /\ r[i] = q[i + 1]
  BY TailPlaces
<1>2. DOMAIN r \subseteq Nat
  BY TailPlaces
<1> HIDE DEF r
<1>3. ASSUME LastData(q, s) PROVE LastData(r, s)
  <2> SUFFICES ASSUME NEW i \in DOMAIN r, NEW j \in DOMAIN r, i < j, DataOf(r[i], s), r[i].end
               PROVE  ~DataOf(r[j], s)
    BY DEF LastData
  <2>1. i + 1 \in DOMAIN q /\ j + 1 \in DOMAIN q /\ r[i] = q[i + 1] /\ r[j] = q[j + 1]
    BY <1>1
  <2>2. i + 1 < j + 1
    BY <1>2
  <2> QED BY <1>3, <2>1, <2>2 DEF LastData
<1>4. ASSUME NEW type, Ends(r, type, s) PROVE Ends(q, type, s)
  BY <1>1, <1>4 DEF Ends
<1> QED BY <1>3, <1>4 DEF Follows, r

LEMMA ConcatPlaces ==
  ASSUME NEW q \in Seq(Frame), NEW fs \in Seq(Frame)
  PROVE  /\ DOMAIN q = 1 .. Len(q) /\ Len(q) \in Nat
         /\ \A i \in DOMAIN q : i \in DOMAIN (q \o fs) /\ (q \o fs)[i] = q[i]
         /\ DOMAIN (q \o fs) \subseteq Nat
         /\ \A i \in DOMAIN (q \o fs) :
              \/ i \in DOMAIN q /\ (q \o fs)[i] = q[i]
              \/ i > Len(q) /\ i - Len(q) \in 1 .. Len(fs) /\ (q \o fs)[i] = fs[i - Len(q)]
<1>1. /\ q \o fs \in Seq(Frame) /\ Len(q \o fs) = Len(q) + Len(fs)
      /\ \A i \in 1 .. Len(q) + Len(fs) :
           (q \o fs)[i] = IF i <= Len(q) THEN q[i] ELSE fs[i - Len(q)]
  BY ConcatProperties
<1>2. Len(q) \in Nat /\ Len(fs) \in Nat /\ DOMAIN q = 1 .. Len(q)
  OBVIOUS
<1>3. DOMAIN (q \o fs) = 1 .. Len(q) + Len(fs)
  <2>1. DOMAIN (q \o fs) = 1 .. Len(q \o fs)
    BY <1>1
  <2> QED BY <1>1, <2>1
<1>4. ASSUME NEW i \in 1 .. Len(q) + Len(fs)
      PROVE  \/ i \in 1 .. Len(q) /\ (q \o fs)[i] = q[i]
             \/ i > Len(q) /\ i - Len(q) \in 1 .. Len(fs) /\ (q \o fs)[i] = fs[i - Len(q)]
  BY <1>1, <1>2
<1> QED BY <1>1, <1>2, <1>3, <1>4

(* Frames that are added after those that end nothing, or that carry       *)
(* nothing of the response.                                                *)
LEMMA LastDataAdd ==
  ASSUME NEW q \in Seq(Frame), NEW fs \in Seq(Frame), NEW s, LastData(q, s),
         \/ ~Ends(q, "DATA", s) /\ LastData(fs, s)
         \/ \A i \in 1 .. Len(fs) : ~DataOf(fs[i], s)
  PROVE  LastData(q \o fs, s)
<1> DEFINE r == q \o fs
           n == Len(q)
<1>1. /\ DOMAIN q = 1 .. n /\ n \in Nat /\ DOMAIN r \subseteq Nat
      /\ \A i \in DOMAIN r : \/ i \in DOMAIN q /\ r[i] = q[i]
                             \/ i > n /\ i - n \in 1 .. Len(fs) /\ r[i] = fs[i - n]
  BY ConcatPlaces
<1>2. DOMAIN fs = 1 .. Len(fs)
  OBVIOUS
<1> HIDE DEF r, n
<1> SUFFICES ASSUME NEW i \in DOMAIN r, NEW j \in DOMAIN r, i < j, DataOf(r[i], s), r[i].end,
                    DataOf(r[j], s)
             PROVE  FALSE
  BY DEF LastData, r
<1>3. i \in Nat /\ j \in Nat
  BY <1>1
<1>4. CASE j \in DOMAIN q /\ r[j] = q[j]
  <2>1. i \in DOMAIN q /\ r[i] = q[i]
    BY <1>1, <1>3, <1>4
  <2> QED BY <1>4, <2>1 DEF LastData
<1>5. CASE j > n /\ j - n \in 1 .. Len(fs) /\ r[j] = fs[j - n]
  <2>1. ~Ends(q, "DATA", s) /\ LastData(fs, s)
    BY <1>5
  <2>2. CASE i \in DOMAIN q /\ r[i] = q[i]
    BY <2>1, <2>2 DEF Ends, DataOf
  <2>3. CASE i > n /\ i - n \in 1 .. Len(fs) /\ r[i] = fs[i - n]
    <3>1. i - n < j - n
      BY <1>1, <1>3
    <3> QED BY <1>2, <1>5, <2>1, <2>3, <3>1 DEF LastData
  <2> QED BY <1>1, <2>2, <2>3
<1> QED BY <1>1, <1>4, <1>5

LEMMA EndsAdd ==
  ASSUME NEW q \in Seq(Frame), NEW fs \in Seq(Frame), NEW type, NEW s, Ends(q \o fs, type, s)
  PROVE  Ends(q, type, s) \/ Ends(fs, type, s)
<1> DEFINE r == q \o fs
<1>1. \A i \in DOMAIN r : \/ i \in DOMAIN q /\ r[i] = q[i]
                          \/ i - Len(q) \in 1 .. Len(fs) /\ r[i] = fs[i - Len(q)]
  BY ConcatPlaces
<1>2. DOMAIN fs = 1 .. Len(fs)
  OBVIOUS
<1> HIDE DEF r
<1>3. PICK i \in DOMAIN r : r[i].type = type /\ r[i].s = s /\ r[i].end
  BY DEF Ends, r
<1> QED BY <1>1, <1>2, <1>3 DEF Ends

LEMMA FollowsAdd ==
  ASSUME NEW q \in Seq(Frame), NEW fs \in Seq(Frame), NEW s,
         \A i \in 1 .. Len(fs) : fs[i].s = s => fs[i].type \notin {"DATA", "HEADERS"}
  PROVE  Follows(q, q \o fs, s)
<1>1. \A i \in 1 .. Len(fs) : ~DataOf(fs[i], s)
  BY DEF DataOf
<1>2. LastData(q, s) => LastData(q \o fs, s)
  BY <1>1, LastDataAdd
<1>3. ASSUME NEW type \in {"DATA", "HEADERS"}, Ends(q \o fs, type, s)
      PROVE  Ends(q, type, s)
  <2>1. ~Ends(fs, type, s)
    <3>1. DOMAIN fs = 1 .. Len(fs)
      OBVIOUS
    <3> QED BY <3>1 DEF Ends
  <2> QED BY <1>3, <2>1, EndsAdd
<1> QED BY <1>2, <1>3 DEF Follows

(* After the frame that ends it nothing of the response is left.           *)
LEMMA NothingAfterEnd ==
  ASSUME NEW q \in Seq(Frame), q # <<>>, NEW s, LastData(q, s), DataOf(Head(q), s), Head(q).end
  PROVE  UnderWay(Tail(q), "DATA", {s}) = 0
<1>1. /\ Tail(q) \in Seq(Frame)
      /\ \A i \in DOMAIN Tail(q) : i + 1 \in DOMAIN q /\ Tail(q)[i] = q[i + 1]
      /\ 1 \in DOMAIN q /\ q[1] = Head(q)
  BY TailPlaces
<1>2. DOMAIN Tail(q) = 1 .. Len(Tail(q)) /\ Len(Tail(q)) \in Nat
  BY <1>1
<1> HIDE DEF DataOf
<1>3. ASSUME NEW i \in 1 .. Len(Tail(q)) PROVE ~DataOf(Tail(q)[i], s)
  <2>1. i + 1 \in DOMAIN q /\ Tail(q)[i] = q[i + 1] /\ 1 < i + 1
    BY <1>1, <1>2
  <2> QED BY <1>1, <2>1 DEF LastData
<1>4. \A i \in 1 .. Len(Tail(q)) :
        Tail(q)[i].type = "DATA" /\ Tail(q)[i].s \in {s} => Tail(q)[i].n = 0
  BY <1>3 DEF DataOf
<1> QED BY <1>1, <1>4, NoUnits

(* What keeps a stream's accounts.                                         *)
Steady(t) ==
  stream'[t].phase # "gone" =>
    /\ stream[t].phase # "gone"
    /\ stream'[t].assembling /\ stream'[t].headerEnd =>
         (stream[t].assembling /\ stream[t].headerEnd) \/ Ends(toClient, "HEADERS", t)
    /\ heard'[t].units + UnderWay(toClient', "DATA", {t}) = Had(t)
    /\ srv'[t].answered <=> srv[t].answered
    /\ srv'[t].total = srv[t].total /\ srv'[t].left \in {srv[t].left, 0}
    /\ Follows(toClient, toClient', t)

Kept(t) ==
  /\ heard'[t].outcome = "end" => heard[t].outcome = "end"
  /\ heard[t].outcome = "end" => heard'[t].units = heard[t].units
  /\ srv[t].answered => srv'[t].answered /\ srv'[t].total = srv[t].total

LEMMA SteadyWhole ==
  ASSUME Sound, NEW t \in Streams, Whole(t), Steady(t)
  PROVE  Whole(t)'
<1> SUFFICES ASSUME stream'[t].phase # "gone"
             PROVE  /\ ~srv'[t].answered => Had(t)' = 0
                    /\ srv'[t].left > 0 => Had(t)' + srv'[t].left = srv'[t].total
                    /\ LastData(toClient', t)
                    /\ Ends(toClient', "DATA", t) => Complete(t)'
                    /\ Ends(toClient', "HEADERS", t) => Empty(t)'
                    /\ stream'[t].assembling /\ stream'[t].headerEnd => Empty(t)'
  BY DEF Whole
<1>1. /\ stream[t].phase # "gone"
      /\ stream'[t].assembling /\ stream'[t].headerEnd =>
           (stream[t].assembling /\ stream[t].headerEnd) \/ Ends(toClient, "HEADERS", t)
      /\ srv'[t].answered <=> srv[t].answered
      /\ srv'[t].total = srv[t].total /\ srv'[t].left \in {srv[t].left, 0}
      /\ Follows(toClient, toClient', t)
  BY DEF Steady
<1>2. Had(t)' = Had(t)
  BY DEF Steady, Had
<1>3. /\ ~srv[t].answered => Had(t) = 0
      /\ srv[t].left > 0 => Had(t) + srv[t].left = srv[t].total
      /\ LastData(toClient, t)
      /\ Ends(toClient, "DATA", t) => Complete(t)
      /\ Ends(toClient, "HEADERS", t) => Empty(t)
      /\ stream[t].assembling /\ stream[t].headerEnd => Empty(t)
  BY <1>1 DEF Whole
<1>4. Complete(t) => Complete(t)'
  BY <1>1, <1>2 DEF Complete
<1>5. Empty(t) => Empty(t)'
  BY <1>1, <1>2 DEF Empty
<1>6. LastData(toClient', t)
  BY <1>1, <1>3 DEF Follows
<1>7. /\ Ends(toClient', "DATA", t) => Ends(toClient, "DATA", t)
      /\ Ends(toClient', "HEADERS", t) => Ends(toClient, "HEADERS", t)
  BY <1>1 DEF Follows
<1>8. ~srv'[t].answered => Had(t)' = 0
  BY <1>1, <1>2, <1>3
<1>9. srv'[t].left > 0 => Had(t)' + srv'[t].left = srv'[t].total
  <2>1. srv'[t].left > 0 => srv'[t].left = srv[t].left
    BY <1>1
  <2> QED BY <1>1, <1>2, <1>3, <2>1
<1> QED BY <1>1, <1>3, <1>4, <1>5, <1>6, <1>7, <1>8, <1>9

LEMMA DeliveryKept ==
  ASSUME Sound, Delivery, sess'.destroyed <=> sess.destroyed,
         toClient' = toClient \/ ~sess.destroyed,
         \A t \in Streams : /\ Steady(t) \/ Whole(t)'
                            /\ Kept(t) \/ EndedWhole(t)'
  PROVE  Delivery'
<1>1. sess'.destroyed => toClient' = <<>>
  BY DEF Delivery
<1>2. ASSUME ~sess'.destroyed, NEW t \in Streams PROVE Whole(t)'
  <2>1. Whole(t)
    BY <1>2 DEF Delivery
  <2> QED BY <2>1, SteadyWhole
<1>3. ASSUME NEW t \in Streams PROVE EndedWhole(t)'
  <2>1. EndedWhole(t)
    BY DEF Delivery
  <2>2. CASE Kept(t)
    BY <2>1, <2>2 DEF EndedWhole, Kept
  <2> QED BY <2>2
<1> QED BY <1>1, <1>2, <1>3 DEF Delivery

(* The session is over.                                                    *)
LEMMA DeliveryOver ==
  ASSUME Delivery, sess'.destroyed, toClient' = <<>>, UNCHANGED srv,
         \A t \in Streams : /\ heard'[t].outcome = "end" => heard[t].outcome = "end"
                            /\ heard'[t].units = heard[t].units
  PROVE  Delivery'
<1>1. ASSUME NEW t \in Streams PROVE EndedWhole(t)'
  BY DEF Delivery, EndedWhole
<1> QED BY <1>1 DEF Delivery

Unmoved(t) ==
  /\ Follows(toClient, toClient', t)
  /\ UnderWay(toClient', "DATA", {t}) = UnderWay(toClient, "DATA", {t})

Waits(t) ==
  stream'[t].phase # "gone" =>
    /\ stream[t].phase # "gone"
    /\ stream'[t].assembling /\ stream'[t].headerEnd =>
         (stream[t].assembling /\ stream[t].headerEnd) \/ Ends(toClient, "HEADERS", t)

LEMMA TakenUnmoved ==
  ASSUME Sound, toClient # <<>>, toClient' = Tail(toClient), NEW t,
         ~DataOf(Head(toClient), t)
  PROVE  Unmoved(t)
<1>1. toClient \in Seq(Frame) /\ Tail(toClient) \in Seq(Frame)
  BY DEF Sound, TypeOK
<1>2. Follows(toClient, Tail(toClient), t)
  BY <1>1, FollowsTail
<1>3. UnderWay(toClient, "DATA", {t})
        = Weight(Head(toClient), "DATA", {t}) + UnderWay(Tail(toClient), "DATA", {t})
  BY <1>1, UnderWayTail
<1>4. Weight(Head(toClient), "DATA", {t}) = 0
  BY DEF Weight, DataOf
<1>5. UnderWay(Tail(toClient), "DATA", {t}) \in Nat
  BY <1>1, UnderWayNat
<1> QED BY <1>2, <1>3, <1>4, <1>5 DEF Unmoved

LEMMA AddedUnmoved ==
  ASSUME Sound, NEW fs \in Seq(Frame), toClient' = toClient \o fs, NEW t,
         \A i \in 1 .. Len(fs) : fs[i].s = t => fs[i].type \notin {"DATA", "HEADERS"}
  PROVE  Unmoved(t)
<1>1. toClient \in Seq(Frame)
  BY DEF Sound, TypeOK
<1>2. Follows(toClient, toClient \o fs, t)
  BY <1>1, FollowsAdd
<1>3. UnderWay(fs, "DATA", {t}) = 0
  BY NoUnits
<1>4. UnderWay(toClient', "DATA", {t}) = UnderWay(toClient, "DATA", {t}) + UnderWay(fs, "DATA", {t})
  BY <1>1, UnderWayConcat
<1>5. UnderWay(toClient, "DATA", {t}) \in Nat
  BY <1>1, UnderWayNat
<1> QED BY <1>2, <1>3, <1>4, <1>5 DEF Unmoved

LEMMA StillUnmoved ==
  ASSUME UNCHANGED toClient, NEW t
  PROVE  Unmoved(t)
BY FollowsSame DEF Unmoved

(* A step of the client in which no stream hears data or ends well.        *)
LEMMA ClientDelivery ==
  ASSUME Sound, Delivery, UNCHANGED srv, sess'.destroyed <=> sess.destroyed,
         toClient' = toClient \/ toClient # <<>>,
         \A t \in Streams : /\ Waits(t) /\ (stream'[t].phase # "gone" => Unmoved(t))
                            /\ heard'[t].units = heard[t].units
                            /\ heard'[t].outcome = "end" => heard[t].outcome = "end"
  PROVE  Delivery'
<1>1. ASSUME NEW t \in Streams PROVE Steady(t) /\ Kept(t)
  <2>1. Steady(t)
    <3> SUFFICES ASSUME stream'[t].phase # "gone" PROVE Steady(t)
      BY DEF Steady
    <3>1. Waits(t) /\ Unmoved(t) /\ heard'[t].units = heard[t].units
      OBVIOUS
    <3> QED BY <3>1 DEF Steady, Waits, Unmoved, Had
  <2>2. Kept(t)
    BY DEF Kept
  <2> QED BY <2>1, <2>2
<1>2. toClient' = toClient \/ ~sess.destroyed
  BY DEF Delivery
<1> QED BY <1>1, <1>2, DeliveryKept

LEMMA RequestDelivery ==
  ASSUME Sound, Delivery, NEW s \in Streams, NEW kind \in Kinds, NEW size \in Bodies,
         Request(s, kind, size)
  PROVE  Delivery'
<1> DEFINE opened == [stream[s] EXCEPT !.phase = "open", !.kind = kind,
                                       !.size = size, !.finished = (kind # "stream")]
<1>1. stream \in [Streams -> Stream] /\ stream[s] \in Stream /\ sess \in Session
  BY DEF Sound, TypeOK
<1>2. stream[s].phase = "idle" /\ UNCHANGED <<heard, serverVars, toClient, faults>>
  BY DEF Request
<1>3. /\ opened.phase = "open" /\ opened.assembling = stream[s].assembling
      /\ opened.headerEnd = stream[s].headerEnd
      /\ Spent(opened, size).phase = "open"
      /\ Spent(opened, size).assembling = stream[s].assembling
      /\ Spent(opened, size).headerEnd = stream[s].headerEnd
  BY <1>1 DEF Stream, Spent
<1>4. /\ \/ stream' = [stream EXCEPT ![s] = Spent(opened, size)]
         \/ stream' = [stream EXCEPT ![s] = opened]
      /\ sess'.destroyed <=> sess.destroyed
  <2>1. CASE kind = "whole"
    <3>1. stream' = [stream EXCEPT ![s] = Spent(opened, size)]
            /\ sess' = [sess EXCEPT !.connSend = @ - Take(opened, size)]
      BY <2>1 DEF Request
    <3> HIDE DEF opened
    <3>2. sess'.destroyed = sess.destroyed
      BY <1>1, <3>1 DEF Session
    <3> QED BY <3>1, <3>2
  <2>2. CASE kind # "whole"
    <3>1. stream' = [stream EXCEPT ![s] = opened] /\ UNCHANGED sess
      BY <2>2 DEF Request
    <3> QED BY <3>1
  <2> QED BY <2>1, <2>2
<1> HIDE DEF opened
<1>5. ASSUME NEW t \in Streams PROVE Waits(t)
  <2>1. CASE t = s
    BY <1>1, <1>2, <1>3, <1>4, <2>1 DEF Waits
  <2>2. CASE t # s
    BY <1>1, <1>4, <2>2 DEF Waits
  <2> QED BY <2>1, <2>2
<1>6. UNCHANGED <<srv, heard, toClient>>
  BY <1>2 DEF serverVars
<1> QED BY <1>4, <1>5, <1>6, StillUnmoved, ClientDelivery

LEMMA BodyDelivery ==
  ASSUME Sound, Delivery, NEW s \in Streams,
         (\E n \in Nat : Write(s, n)) \/ Finish(s)
  PROVE  Delivery'
<1>1. stream \in [Streams -> Stream] /\ stream[s] \in Stream /\ sess \in Session
  BY DEF Sound, TypeOK
<1>2. /\ UNCHANGED <<heard, serverVars, toClient, faults>> /\ (sess'.destroyed <=> sess.destroyed)
      /\ \E st : /\ st.phase = stream[s].phase /\ st.assembling = stream[s].assembling
                 /\ st.headerEnd = stream[s].headerEnd
                 /\ stream' = [stream EXCEPT ![s] = st]
  <2>1. ASSUME NEW n \in Nat, Write(s, n)
        PROVE  <1>2!:
    <3>1. /\ UNCHANGED <<heard, serverVars, toClient, faults>>
          /\ stream' = [stream EXCEPT ![s] = Spent(stream[s], n)]
          /\ sess' = [sess EXCEPT !.connSend = @ - Take(stream[s], n)]
      BY <2>1 DEF Write
    <3>2. sess'.destroyed = sess.destroyed
      BY <1>1, <3>1 DEF Session
    <3>3. PICK st : st = Spent(stream[s], n)
      OBVIOUS
    <3>4. st.phase = stream[s].phase /\ st.assembling = stream[s].assembling
            /\ st.headerEnd = stream[s].headerEnd
      BY <1>1, <3>3 DEF Spent, Stream
    <3> QED BY <3>1, <3>2, <3>3, <3>4
  <2>2. ASSUME Finish(s)
        PROVE  <1>2!:
    <3>1. /\ UNCHANGED <<sess, heard, serverVars, toClient, faults>>
          /\ stream' = [stream EXCEPT ![s].finished = TRUE]
      BY <2>2 DEF Finish
    <3>2. PICK st : st = [stream[s] EXCEPT !.finished = TRUE]
      OBVIOUS
    <3>3. st.phase = stream[s].phase /\ st.assembling = stream[s].assembling
            /\ st.headerEnd = stream[s].headerEnd
      BY <1>1, <3>2 DEF Stream
    <3>4. stream' = [stream EXCEPT ![s] = st]
      BY <1>1, <3>1, <3>2
    <3> QED BY <3>1, <3>3, <3>4
  <2> QED BY <2>1, <2>2
<1>3. PICK st : /\ st.phase = stream[s].phase /\ st.assembling = stream[s].assembling
                /\ st.headerEnd = stream[s].headerEnd
                /\ stream' = [stream EXCEPT ![s] = st]
  BY <1>2
<1>4. ASSUME NEW t \in Streams PROVE Waits(t)
  <2>1. CASE t = s
    BY <1>1, <1>3, <2>1 DEF Waits
  <2>2. CASE t # s
    BY <1>1, <1>3, <2>2 DEF Waits
  <2> QED BY <2>1, <2>2
<1>5. UNCHANGED <<srv, heard, toClient>>
  BY <1>2 DEF serverVars
<1> QED BY <1>2, <1>4, <1>5, StillUnmoved, ClientDelivery

LEMMA CancelDelivery ==
  ASSUME Sound, Delivery, NEW s \in Streams, Cancel(s)
  PROVE  Delivery'
<1>1. stream \in [Streams -> Stream] /\ heard \in [Streams -> Heard]
  BY DEF Sound, TypeOK
<1>2. /\ stream' = [stream EXCEPT ![s] = Closed(@)]
      /\ heard' = [heard EXCEPT ![s].outcome = "cancelled"]
      /\ UNCHANGED <<sess, serverVars, toClient>>
  BY DEF Cancel
<1>3. \A t \in Streams : stream'[t].phase # "gone" => stream'[t] = stream[t]
  BY <1>1, <1>2 DEF Closed, Stream
<1>4. \A t \in Streams : Waits(t)
  BY <1>3 DEF Waits
<1>5. \A t \in Streams : /\ heard'[t].units = heard[t].units
                         /\ heard'[t].outcome = "end" => heard[t].outcome = "end"
  BY <1>1, <1>2 DEF Heard
<1>6. UNCHANGED <<srv, sess, toClient>>
  BY <1>2 DEF serverVars
<1> QED BY <1>4, <1>5, <1>6, StillUnmoved, ClientDelivery

LEMMA OnResetDelivery ==
  ASSUME Sound, Delivery, OnReset
  PROVE  Delivery'
<1>1. stream \in [Streams -> Stream] /\ heard \in [Streams -> Heard]
  BY DEF Sound, TypeOK
<1>2. PICK s : s = Head(toClient).s
  OBVIOUS
<1>3. /\ toClient # <<>> /\ Head(toClient).type = "RST_STREAM" /\ toClient' = Tail(toClient)
      /\ stream' = [stream EXCEPT ![s] = Closed(@)]
      /\ heard' = [heard EXCEPT ![s] = Failed(@)]
      /\ UNCHANGED <<sess, serverVars>>
  BY <1>2 DEF OnReset, Receiving
<1>4. s \in Streams
  BY <1>2, <1>3, HeadTypes
<1>5. \A t \in Streams : stream'[t].phase # "gone" => stream'[t] = stream[t]
  BY <1>1, <1>3 DEF Closed, Stream
<1>6. \A t \in Streams : Waits(t)
  BY <1>5 DEF Waits
<1>7. \A k \in Heard : Failed(k).units = k.units /\ (Failed(k).outcome = "end" => k.outcome = "end")
  BY DEF Failed, Late, Heard
<1>8. \A t \in Streams : /\ heard'[t].units = heard[t].units
                         /\ heard'[t].outcome = "end" => heard[t].outcome = "end"
  BY <1>1, <1>3, <1>7
<1>9. \A t : Unmoved(t)
  BY <1>3, TakenUnmoved DEF DataOf
<1>10. UNCHANGED <<srv, sess>>
  BY <1>3 DEF serverVars
<1> QED BY <1>3, <1>6, <1>8, <1>9, <1>10, ClientDelivery

LEMMA OnUnknownDelivery ==
  ASSUME Sound, Delivery, OnUnknown
  PROVE  Delivery'
<1>1. PICK f \in Frame, n \in Nat, p \in Seq(Frame) : UnknownTaken(f, n, p)
  BY OnUnknownDoes, Zenon
<1>2. /\ toClient # <<>> /\ f = Head(toClient) /\ f.s \in Streams /\ stream[f.s].phase # "open"
      /\ f.type \in {"HEADERS", "CONTINUATION", "DATA", "RST_STREAM"}
      /\ sess' = [sess EXCEPT !.recvUsed = IF p = <<>> THEN @ + n ELSE 0]
      /\ toClient' = Tail(toClient)
      /\ UNCHANGED <<stream, heard, serverVars, faults>>
  BY <1>1 DEF UnknownTaken
<1>3. stream[f.s].phase = "gone"
  <2>1. f \in Downward
    BY <1>2, HeadTypes
  <2>2. f.s # 0
    BY <1>2 DEF Streams
  <2>3. stream[f.s].phase # "idle"
    BY <2>1, <2>2 DEF Downward
  <2>4. stream[f.s] \in Stream
    BY <1>2 DEF Sound, TypeOK
  <2> QED BY <1>2, <2>3, <2>4 DEF Stream
<1>4. ASSUME NEW t \in Streams, stream'[t].phase # "gone" PROVE Unmoved(t)
  <2>1. f.s # t
    BY <1>2, <1>3, <1>4
  <2> QED BY <1>2, <2>1, TakenUnmoved DEF DataOf
<1>5. \A t \in Streams : Waits(t)
  BY <1>2 DEF Waits
<1>6. sess'.destroyed = sess.destroyed
  <2>1. sess \in Session
    BY DEF Sound, TypeOK
  <2> QED BY <1>2, <2>1 DEF Session
<1>7. UNCHANGED <<srv, heard>>
  BY <1>2 DEF serverVars
<1> QED BY <1>2, <1>4, <1>5, <1>6, <1>7, ClientDelivery

LEMMA OnUpdateDelivery ==
  ASSUME Sound, Delivery, OnWindowUpdate \/ OnGoaway
  PROVE  Delivery'
<1>1. stream \in [Streams -> Stream] /\ sess \in Session
  BY DEF Sound, TypeOK
<1>2. /\ toClient # <<>> /\ Head(toClient).type # "DATA" /\ toClient' = Tail(toClient)
      /\ UNCHANGED <<heard, serverVars>>
  BY DEF OnWindowUpdate, OnGoaway, Receiving
<1>3. PICK s, n : s = Head(toClient).s /\ n = Head(toClient).n
  OBVIOUS
<1>4. /\ UNCHANGED stream \/ stream' = [stream EXCEPT ![s].sendWindow = @ + n]
      /\ \/ UNCHANGED sess
         \/ sess' = [sess EXCEPT !.connSend = @ + n]
         \/ sess' = [sess EXCEPT !.closed = TRUE]
  BY <1>3 DEF OnWindowUpdate, OnGoaway
<1>5. \A t \in Streams : /\ stream'[t].phase = stream[t].phase
                         /\ stream'[t].assembling = stream[t].assembling
                         /\ stream'[t].headerEnd = stream[t].headerEnd
  BY <1>1, <1>4 DEF Stream
<1>6. \A t \in Streams : Waits(t)
  BY <1>5 DEF Waits
<1>7. sess'.destroyed = sess.destroyed
  BY <1>1, <1>4 DEF Session
<1>8. \A t : Unmoved(t)
  BY <1>2, TakenUnmoved DEF DataOf
<1>9. UNCHANGED <<srv, heard>>
  BY <1>2 DEF serverVars
<1> QED BY <1>2, <1>6, <1>7, <1>8, <1>9, ClientDelivery

LEMMA EndDelivery ==
  ASSUME Sound, Delivery, CloseSession \/ (FailAll /\ UNCHANGED serverVars)
  PROVE  Delivery'
<1>1. heard \in [Streams -> Heard] /\ sess \in Session
  BY DEF Sound, TypeOK
<1>2. sess' = [sess EXCEPT !.closed = TRUE, !.destroyed = TRUE] /\ toClient' = <<>> /\ UNCHANGED srv
  BY DEF CloseSession, FailAll, serverVars
<1>3. sess'.destroyed
  BY <1>1, <1>2 DEF Session
<1>4. \A k \in Heard : Failed(k).units = k.units /\ (Failed(k).outcome = "end" => k.outcome = "end")
  BY DEF Failed, Late, Heard
<1>5. \A t \in Streams : /\ heard'[t].outcome = "end" => heard[t].outcome = "end"
                         /\ heard'[t].units = heard[t].units
  <2>1. CASE CloseSession
    BY <2>1 DEF CloseSession
  <2>2. CASE FailAll
    <3>1. \A t \in Streams : heard'[t] = heard[t] \/ heard'[t] = Failed(heard[t])
      BY <2>2 DEF FailAll
    <3> QED BY <1>1, <1>4, <3>1
  <2> QED BY <2>1, <2>2
<1> QED BY <1>2, <1>3, <1>5, DeliveryOver

LEMMA HeadEnds ==
  ASSUME Sound, toClient # <<>>, Head(toClient).end
  PROVE  Ends(toClient, Head(toClient).type, Head(toClient).s)
<1>1. toClient \in Seq(Frame)
  BY DEF Sound, TypeOK
<1>2. 1 \in DOMAIN toClient /\ toClient[1] = Head(toClient)
  BY <1>1, TailPlaces
<1> QED BY <1>2 DEF Ends

LEMMA FinalizeDelivery ==
  ASSUME Sound, Hearing, Delivery, NEW s \in Streams, NEW f \in Frame, NEW end \in BOOLEAN,
         NEW cancel \in BOOLEAN, stream[s].phase = "open", toClient # <<>>, f = Head(toClient),
         f.type # "DATA", Finalize(s, f, end, cancel), UNCHANGED serverVars,
         end => Empty(s)
  PROVE  Delivery'
<1>1. CASE FailAll
  BY <1>1, EndDelivery
<1>2. CASE ~FailAll
  <2>1. stream \in [Streams -> Stream] /\ heard \in [Streams -> Heard] /\ sess \in Session
    BY DEF Sound, TypeOK
  <2>2. heard[s].outcome = "none"
    BY DEF Hearing
  <2>3. PICK st \in Stream, h \in Heard : Finalized(s, f, end, cancel, st, h)
    BY <1>2, <2>2, FinalizeDoes, Zenon
  <2>4. /\ st.phase = (IF cancel \/ end THEN "gone" ELSE "open") /\ ~st.assembling
        /\ stream' = [stream EXCEPT ![s] = st]
        /\ h.units = heard[s].units
        /\ h.outcome = (IF cancel THEN "cancelled" ELSE IF end THEN "end" ELSE "none")
        /\ heard' = [heard EXCEPT ![s] = h]
        /\ sess' = [sess EXCEPT !.decoded = @ + 1]
        /\ toClient' = Tail(toClient)
    BY <2>3 DEF Finalized
  <2>5. sess'.destroyed = sess.destroyed /\ ~sess.destroyed
    BY <2>1, <2>4 DEF Session, Delivery
  <2>6. \A t : Unmoved(t)
    BY <2>4, TakenUnmoved DEF DataOf
  <2>7. UNCHANGED srv
    BY DEF serverVars
  <2>8. ASSUME NEW t \in Streams PROVE Steady(t)
    <3>1. heard'[t].units = heard[t].units
      BY <2>1, <2>4
    <3>2. stream'[t].phase # "gone" =>
            /\ stream[t].phase # "gone"
            /\ stream'[t].assembling /\ stream'[t].headerEnd =>
                 stream[t].assembling /\ stream[t].headerEnd
      <4>1. CASE t = s
        BY <2>1, <2>4, <4>1
      <4>2. CASE t # s
        BY <2>1, <2>4, <4>2
      <4> QED BY <4>1, <4>2
    <3> QED BY <2>6, <2>7, <3>1, <3>2 DEF Steady, Unmoved, Had
  <2>9. ASSUME NEW t \in Streams PROVE Kept(t) \/ EndedWhole(t)'
    <3>1. CASE t # s
      BY <2>1, <2>4, <2>7, <3>1 DEF Kept
    <3>2. CASE t = s /\ (cancel \/ ~end)
      BY <2>1, <2>2, <2>4, <2>7, <3>2 DEF Kept
    <3>3. CASE t = s /\ end
      <4>1. Empty(s)
        BY <3>3
      <4>2. srv[s].answered /\ Had(s) = 0 /\ srv[s].total = 0
        BY <4>1 DEF Empty
      <4>3. heard[s].units \in Nat /\ UnderWay(toClient, "DATA", {s}) \in Nat
        BY <2>1, Amounts DEF Heard
      <4>4. heard[s].units = 0
        BY <4>2, <4>3 DEF Had
      <4> QED BY <2>1, <2>4, <2>7, <3>3, <4>2, <4>4 DEF EndedWhole
    <3> QED BY <3>1, <3>2, <3>3
  <2> QED BY <2>5, <2>8, <2>9, DeliveryKept
<1> QED BY <1>1, <1>2

LEMMA OnHeadersDelivery ==
  ASSUME Sound, Hearing, Delivery, NEW cancel \in BOOLEAN, OnHeaders(cancel)
  PROVE  Delivery'
<1>1. stream \in [Streams -> Stream]
  BY DEF Sound, TypeOK
<1>2. PICK f : f = Head(toClient)
  OBVIOUS
<1>3. toClient # <<>> /\ f.type = "HEADERS" /\ stream[f.s].phase = "open" /\ UNCHANGED serverVars
  BY <1>2 DEF OnHeaders, Receiving
<1>4. f \in Frame /\ f.s \in Streams /\ f.end \in BOOLEAN
  BY <1>2, <1>3, HeadTypes, FrameTypes
<1>5. f.end => Ends(toClient, "HEADERS", f.s)
  BY <1>2, <1>3, HeadEnds
<1>6. CASE f.fin
  <2>1. Finalize(f.s, f, f.end, cancel)
    BY <1>2, <1>6 DEF OnHeaders
  <2>2. Whole(f.s)
    BY <1>3, <1>4 DEF Delivery
  <2>3. f.end => Empty(f.s)
    BY <1>3, <1>5, <2>2 DEF Whole
  <2> QED BY <1>2, <1>3, <1>4, <2>1, <2>3, FinalizeDelivery
<1>7. CASE ~f.fin
  <2>1. /\ stream' = [stream EXCEPT ![f.s] = Assembling(@, f.end)]
        /\ toClient' = Tail(toClient)
        /\ UNCHANGED <<sess, heard, toServer, faults>>
    BY <1>2, <1>7 DEF OnHeaders
  <2>2. PICK st : st = Assembling(stream[f.s], f.end)
    OBVIOUS
  <2>3. st.headerEnd = f.end
    BY <1>1, <1>4, <2>2 DEF Assembling, Stream
  <2>4. stream' = [stream EXCEPT ![f.s] = st]
    BY <2>1, <2>2
  <2>5. ASSUME NEW t \in Streams PROVE Waits(t)
    <3>1. CASE t = f.s
      BY <1>1, <1>3, <1>4, <1>5, <2>3, <2>4, <3>1 DEF Waits
    <3>2. CASE t # f.s
      BY <1>1, <2>4, <3>2 DEF Waits
    <3> QED BY <3>1, <3>2
  <2>6. \A t : Unmoved(t)
    BY <1>2, <1>3, <2>1, TakenUnmoved DEF DataOf
  <2>7. UNCHANGED <<srv, sess, heard>>
    BY <1>3, <2>1 DEF serverVars
  <2> QED BY <1>3, <2>5, <2>6, <2>7, ClientDelivery
<1> QED BY <1>6, <1>7

LEMMA OnContinuationDelivery ==
  ASSUME Sound, Hearing, Delivery, NEW cancel \in BOOLEAN, OnContinuation(cancel)
  PROVE  Delivery'
<1>1. PICK f : f = Head(toClient)
  OBVIOUS
<1>2. /\ toClient # <<>> /\ f.type = "CONTINUATION" /\ stream[f.s].phase = "open"
      /\ stream[f.s].assembling /\ UNCHANGED serverVars
      /\ Finalize(f.s, f, stream[f.s].headerEnd, cancel)
  BY <1>1 DEF OnContinuation, Receiving
<1>3. f \in Frame /\ f.s \in Streams
  BY <1>1, <1>2, HeadTypes
<1>4. stream[f.s].headerEnd \in BOOLEAN
  BY <1>3 DEF Sound, TypeOK, Stream
<1>5. Whole(f.s)
  BY <1>2, <1>3 DEF Delivery
<1>6. stream[f.s].headerEnd => Empty(f.s)
  BY <1>2, <1>5 DEF Whole
<1> QED BY <1>1, <1>2, <1>3, <1>4, <1>6, FinalizeDelivery

LEMMA OnDataDelivery ==
  ASSUME Sound, Hearing, Delivery, OnData
  PROVE  Delivery'
<1>1. stream \in [Streams -> Stream] /\ heard \in [Streams -> Heard] /\ sess \in Session
        /\ toClient \in Seq(Frame)
  BY DEF Sound, TypeOK
<1>2. PICK f \in Frame, st \in Stream, h \in Heard, p \in Seq(Frame), r \in Seq(Frame) :
        DataTaken(f, st, h, p, r)
  BY OnDataDoes, Zenon
<1>3. /\ toClient # <<>> /\ f = Head(toClient) /\ f.type = "DATA" /\ f.s \in Streams
      /\ stream[f.s].phase = "open"
      /\ stream' = [stream EXCEPT ![f.s] = st] /\ heard' = [heard EXCEPT ![f.s] = h]
      /\ sess' = [sess EXCEPT !.recvUsed = IF p = <<>> THEN @ + f.n ELSE 0]
      /\ toClient' = Tail(toClient) /\ UNCHANGED <<serverVars, faults>>
  BY <1>2 DEF DataTaken
<1>4. /\ h.units = heard[f.s].units + f.n /\ h.outcome = (IF f.end THEN "end" ELSE "none")
      /\ st.phase = (IF f.end THEN "gone" ELSE "open")
      /\ st.assembling = stream[f.s].assembling /\ st.headerEnd = stream[f.s].headerEnd
  BY <1>2, DataHeard
<1>5. sess'.destroyed = sess.destroyed /\ ~sess.destroyed
  BY <1>1, <1>3 DEF Session, Delivery
<1>6. UNCHANGED srv
  BY <1>3 DEF serverVars
<1>7. heard[f.s].units \in Nat /\ f.n \in Nat /\ heard[f.s].outcome = "none"
  BY <1>1, <1>3, FrameTypes DEF Heard, Hearing
<1>8. UnderWay(toClient, "DATA", {f.s}) = f.n + UnderWay(Tail(toClient), "DATA", {f.s})
        /\ UnderWay(Tail(toClient), "DATA", {f.s}) \in Nat
  <2>1. UnderWay(toClient, "DATA", {f.s})
          = Weight(f, "DATA", {f.s}) + UnderWay(Tail(toClient), "DATA", {f.s})
    BY <1>1, <1>3, UnderWayTail
  <2>2. Weight(f, "DATA", {f.s}) = f.n
    BY <1>3 DEF Weight
  <2>3. Tail(toClient) \in Seq(Frame)
    BY <1>1, <1>3
  <2> QED BY <2>1, <2>2, <2>3, UnderWayNat
<1>9. ASSUME NEW t \in Streams PROVE Steady(t)
  <2>1. CASE t = f.s
    <3>1. heard'[t].units + UnderWay(toClient', "DATA", {t}) = Had(t)
      <4>1. heard'[t].units = heard[f.s].units + f.n
        BY <1>1, <1>3, <1>4, <2>1
      <4> QED BY <1>3, <1>7, <1>8, <2>1, <4>1 DEF Had
    <3>2. Follows(toClient, toClient', t)
      BY <1>1, <1>3, FollowsTail
    <3>3. stream'[t] = st
      BY <1>1, <1>3, <2>1
    <3> QED BY <1>3, <1>4, <1>6, <2>1, <3>1, <3>2, <3>3 DEF Steady
  <2>2. CASE t # f.s
    <3>1. Unmoved(t)
      BY <1>3, <2>2, TakenUnmoved DEF DataOf
    <3>2. heard'[t] = heard[t] /\ stream'[t] = stream[t]
      BY <1>1, <1>3, <2>2
    <3> QED BY <1>6, <3>1, <3>2 DEF Steady, Unmoved, Had
  <2> QED BY <2>1, <2>2
<1>10. ASSUME NEW t \in Streams PROVE Kept(t) \/ EndedWhole(t)'
  <2>1. CASE t # f.s
    BY <1>1, <1>3, <1>6, <2>1 DEF Kept
  <2>2. CASE t = f.s /\ ~f.end
    BY <1>1, <1>3, <1>4, <1>6, <1>7, <2>2 DEF Kept
  <2>3. CASE t = f.s /\ f.end
    <3>1. Ends(toClient, "DATA", f.s)
      BY <1>3, <2>3, HeadEnds
    <3>2. Whole(f.s)
      BY <1>3, <1>5 DEF Delivery
    <3>3. Complete(f.s) /\ LastData(toClient, f.s)
      BY <1>3, <3>1, <3>2 DEF Whole
    <3>4. UnderWay(Tail(toClient), "DATA", {f.s}) = 0
      BY <1>1, <1>3, <2>3, <3>3, NothingAfterEnd DEF DataOf
    <3>5. srv[f.s].answered /\ heard[f.s].units + UnderWay(toClient, "DATA", {f.s}) = srv[f.s].total
      BY <3>3 DEF Complete, Had
    <3>6. h.units = srv[f.s].total
      BY <1>4, <1>7, <1>8, <3>4, <3>5
    <3>7. heard'[t] = h
      BY <1>1, <1>3, <2>3
    <3> QED BY <1>6, <2>3, <3>5, <3>6, <3>7 DEF EndedWhole
  <2> QED BY <2>1, <2>2, <2>3
<1> QED BY <1>5, <1>9, <1>10, DeliveryKept

(* A step of the server's that answers nothing.                            *)
Keeps(t) ==
  /\ srv'[t].answered <=> srv[t].answered
  /\ srv'[t].total = srv[t].total /\ srv'[t].left \in {srv[t].left, 0}

LEMMA KeepsSteady ==
  ASSUME NEW t \in Streams, UNCHANGED clientVars, Unmoved(t), Keeps(t)
  PROVE  Steady(t) /\ Kept(t)
<1>1. UNCHANGED <<stream, heard, sess>>
  BY DEF clientVars
<1> QED BY <1>1 DEF Steady, Kept, Keeps, Unmoved, Had

LEMMA ServerDelivery ==
  ASSUME Sound, Delivery, UNCHANGED clientVars, toClient' = toClient \/ ~sess.destroyed,
         \A t \in Streams : Unmoved(t) /\ Keeps(t)
  PROVE  Delivery'
<1>1. UNCHANGED sess
  BY DEF clientVars
<1> QED BY <1>1, KeepsSteady, DeliveryKept

LEMMA SrvReceivesDelivery ==
  ASSUME Sound, Delivery, SrvReceives
  PROVE  Delivery'
<1>1. srv \in [Streams -> Srv]
  BY DEF Sound, TypeOK
<1>2. PICK f \in Frame :
        /\ UNCHANGED <<clientVars, toClient, faults>>
        /\ GotHeaders(f) \/ GotData(f) \/ GotReset(f) \/ GotConnUpdate(f) \/ GotUpdate(f)
  BY SrvReceivesDoes
<1>3. \A t \in Streams : Keeps(t)
  <2>1. CASE GotHeaders(f)
    <3>1. PICK v : v = [srv[f.s] EXCEPT !.seen = TRUE, !.ended = f.end]
      OBVIOUS
    <3>2. f.s \in Streams /\ srv' = [srv EXCEPT ![f.s] = v]
      BY <2>1, <3>1 DEF GotHeaders
    <3>3. v.answered = srv[f.s].answered /\ v.total = srv[f.s].total /\ v.left = srv[f.s].left
      BY <1>1, <3>1, <3>2 DEF Srv
    <3> QED BY <1>1, <3>2, <3>3 DEF Keeps
  <2>2. CASE GotData(f)
    <3>1. PICK end \in BOOLEAN, hole \in BOOLEAN, got \in Nat :
            srv' = [srv EXCEPT ![f.s] = [srv[f.s] EXCEPT !.recvWin = srv[f.s].recvWin - f.n,
                                           !.ended = end, !.hole = hole, !.got = got]]
      BY <2>2 DEF GotData
    <3>2. PICK v : v = [srv[f.s] EXCEPT !.recvWin = srv[f.s].recvWin - f.n,
                                           !.ended = end, !.hole = hole, !.got = got]
      OBVIOUS
    <3>3. f.s \in Streams
      BY <2>2 DEF GotData
    <3>4. v.answered = srv[f.s].answered /\ v.total = srv[f.s].total /\ v.left = srv[f.s].left
      BY <1>1, <3>2, <3>3 DEF Srv
    <3> QED BY <1>1, <3>1, <3>2, <3>3, <3>4 DEF Keeps
  <2>3. CASE GotReset(f)
    <3>1. PICK v : v = [srv[f.s] EXCEPT !.reset = TRUE, !.left = 0]
      OBVIOUS
    <3>2. f.s \in Streams /\ srv' = [srv EXCEPT ![f.s] = v]
      BY <2>3, <3>1 DEF GotReset
    <3>3. v.answered = srv[f.s].answered /\ v.total = srv[f.s].total /\ v.left = 0
      BY <1>1, <3>1, <3>2 DEF Srv
    <3> QED BY <1>1, <3>2, <3>3 DEF Keeps
  <2>4. CASE GotConnUpdate(f)
    BY <2>4 DEF GotConnUpdate, Keeps
  <2>5. CASE GotUpdate(f)
    <3>1. PICK v : v = [srv[f.s] EXCEPT !.sendWin = srv[f.s].sendWin + f.n]
      OBVIOUS
    <3>2. f.s \in Streams /\ srv' = [srv EXCEPT ![f.s] = v]
      BY <2>5, <3>1 DEF GotUpdate
    <3>3. v.answered = srv[f.s].answered /\ v.total = srv[f.s].total /\ v.left = srv[f.s].left
      BY <1>1, <3>1, <3>2 DEF Srv
    <3> QED BY <1>1, <3>2, <3>3 DEF Keeps
  <2> QED BY <1>2, <2>1, <2>2, <2>3, <2>4, <2>5
<1>4. UNCHANGED toClient
  BY <1>2
<1>5. \A t \in Streams : Unmoved(t)
  BY <1>4, StillUnmoved
<1>6. UNCHANGED clientVars
  BY <1>2
<1> QED BY <1>3, <1>4, <1>5, <1>6, ServerDelivery

LEMMA SrvCreditsDelivery ==
  ASSUME Sound, Delivery, NEW s \in Streams, SrvCredits(s)
  PROVE  Delivery'
<1>1. PICK f \in Frame, g \in Frame, v \in Srv : Credited(s, f, g, v)
  BY SrvCreditsDoes, Zenon
<1>2. /\ ~sess.destroyed /\ f.type = "WINDOW_UPDATE" /\ g.type = "WINDOW_UPDATE"
      /\ toClient' = toClient \o (<<f>> \o <<g>>)
      /\ v = [srv[s] EXCEPT !.recvWin = PeerWindow] /\ srv' = [srv EXCEPT ![s] = v]
      /\ UNCHANGED <<clientVars, toServer, faults>>
  BY <1>1 DEF Credited
<1>3. srv \in [Streams -> Srv]
  BY DEF Sound, TypeOK
<1>4. v.answered = srv[s].answered /\ v.total = srv[s].total /\ v.left = srv[s].left
  BY <1>2, <1>3 DEF Srv
<1>5. \A t \in Streams : Keeps(t)
  BY <1>2, <1>3, <1>4 DEF Keeps
<1>6. PICK fs : fs = <<f>> \o <<g>>
  OBVIOUS
<1>7. fs \in Seq(Frame) /\ \A i \in 1 .. Len(fs) : fs[i].type = "WINDOW_UPDATE"
  <2>1. fs \in Seq(Frame) /\ Len(fs) = 2 /\ fs[1] = f /\ fs[2] = g
    BY <1>6, TwoFrames, Zenon
  <2> QED BY <1>2, <2>1
<1>8. \A t \in Streams : Unmoved(t)
  <2>1. toClient' = toClient \o fs
    BY <1>2, <1>6
  <2> QED BY <1>7, <2>1, AddedUnmoved
<1>9. UNCHANGED clientVars
  BY <1>2
<1> QED BY <1>2, <1>5, <1>8, <1>9, ServerDelivery

LEMMA SignalUnmoved ==
  ASSUME Sound, NEW type \in {"RST_STREAM", "GOAWAY", "BAD"}, NEW s \in 0 .. MaxStreams,
         toClient' = Append(toClient, Fr(type, s)), NEW t
  PROVE  Unmoved(t)
<1>1. toClient \in Seq(Frame)
  BY DEF Sound, TypeOK
<1>2. PICK f : f = Fr(type, s)
  OBVIOUS
<1>3. f \in Frame /\ f.type = type
  <2>1. f.type = type
    BY <1>2 DEF Fr
  <2> QED BY <1>2, <2>1, FrTypes
<1>4. PICK fs \in Seq(Frame) : /\ \A i \in 1 .. Len(fs) : fs[i] = f
                              /\ Append(toClient, f) = toClient \o fs
  BY <1>1, <1>3, AddOne
<1>5. \A i \in 1 .. Len(fs) : fs[i].type \notin {"DATA", "HEADERS"}
  BY <1>3, <1>4
<1> QED BY <1>2, <1>4, <1>5, AddedUnmoved

LEMMA SrvSignalsDelivery ==
  ASSUME Sound, Delivery, SrvGoaway \/ SrvMalformed \/ \E s \in Streams : SrvResets(s)
  PROVE  Delivery'
<1>1. srv \in [Streams -> Srv] /\ 0 \in 0 .. MaxStreams
  BY H2Assumption DEF Sound, TypeOK
<1>2. ASSUME NEW s \in Streams, SrvResets(s)
      PROVE  Delivery'
  <2>1. /\ ~sess.destroyed /\ UNCHANGED <<clientVars, srvConn, toServer>>
        /\ srv' = [srv EXCEPT ![s].reset = TRUE, ![s].left = 0]
        /\ toClient' = Append(toClient, Fr("RST_STREAM", s))
    BY <1>2 DEF SrvResets
  <2>2. s \in 0 .. MaxStreams
    BY DEF Streams
  <2>3. \A t \in Streams : Keeps(t)
    BY <1>1, <2>1 DEF Keeps, Srv
  <2>4. \A t \in Streams : Unmoved(t)
    BY <2>1, <2>2, SignalUnmoved
  <2>5. UNCHANGED clientVars
    BY <2>1
  <2> QED BY <2>1, <2>3, <2>4, <2>5, ServerDelivery
<1>3. CASE SrvGoaway \/ SrvMalformed
  <2>1. /\ ~sess.destroyed /\ UNCHANGED <<clientVars, srv, toServer>>
        /\ \/ toClient' = Append(toClient, Fr("GOAWAY", 0))
           \/ toClient' = Append(toClient, Fr("BAD", 0))
    BY <1>3 DEF SrvGoaway, SrvMalformed
  <2>2. \A t \in Streams : Unmoved(t)
    BY <1>1, <2>1, SignalUnmoved
  <2>3. \A t \in Streams : Keeps(t)
    BY <2>1 DEF Keeps
  <2>4. UNCHANGED clientVars
    BY <2>1
  <2> QED BY <2>1, <2>2, <2>3, <2>4, ServerDelivery
<1> QED BY <1>2, <1>3

(* One stream is answered or sent data; the others see nothing of it.      *)
LEMMA OneDelivery ==
  ASSUME Sound, Delivery, NEW s \in Streams, NEW v \in Srv, NEW fs \in Seq(Frame),
         srv' = [srv EXCEPT ![s] = v], UNCHANGED clientVars, ~sess.destroyed,
         toClient' = toClient \o fs, \A i \in 1 .. Len(fs) : fs[i].s = s,
         srv[s].answered => v.answered /\ v.total = srv[s].total,
         Whole(s)'
  PROVE  Delivery'
<1>1. srv \in [Streams -> Srv]
  BY DEF Sound, TypeOK
<1>2. UNCHANGED <<stream, heard, sess>>
  BY DEF clientVars
<1>3. ASSUME NEW t \in Streams
      PROVE  (Steady(t) \/ Whole(t)') /\ (Kept(t) \/ EndedWhole(t)')
  <2>1. CASE t = s
    BY <1>1, <1>2, <2>1 DEF Kept
  <2>2. CASE t # s
    <3>1. Unmoved(t)
      BY <2>2, AddedUnmoved
    <3>2. Keeps(t)
      BY <1>1, <2>2 DEF Keeps
    <3> QED BY <3>1, <3>2, KeepsSteady
  <2> QED BY <2>1, <2>2
<1> QED BY <1>2, <1>3, DeliveryKept

LEMMA SrvAnswersDelivery ==
  ASSUME Sound, Delivery, NEW s \in Streams, NEW size \in Answers, NEW form \in Forms,
         SrvAnswers(s, size, form)
  PROVE  Delivery'
<1>1. PICK fs \in Seq(Frame), v \in Srv : Answered(s, size, form, fs, v)
  BY SrvAnswersDoes, Zenon
<1>2. /\ ~sess.destroyed /\ ~srv[s].answered /\ Answer(fs, s, size, form)
      /\ toClient' = toClient \o fs
      /\ v = [srv[s] EXCEPT !.answered = TRUE, !.total = size, !.left = size]
      /\ srv' = [srv EXCEPT ![s] = v]
      /\ UNCHANGED <<clientVars, toServer, faults>>
  BY <1>1 DEF Answered
<1>3. srv \in [Streams -> Srv] /\ toClient \in Seq(Frame) /\ heard \in [Streams -> Heard]
  BY DEF Sound, TypeOK
<1>4. srv'[s].answered /\ srv'[s].total = size /\ srv'[s].left = size /\ size \in Nat
  BY <1>2, <1>3, H2Assumption DEF Srv
<1>5. \A i \in 1 .. Len(fs) : fs[i].s = s /\ fs[i].type \in {"HEADERS", "CONTINUATION"}
  BY <1>2, AnswerFrames
<1>6. UNCHANGED <<stream, heard>> /\ UNCHANGED clientVars
  BY <1>2 DEF clientVars
<1>7. ASSUME Ends(fs, "HEADERS", s) PROVE size = 0
  <2>1. PICK i \in DOMAIN fs : fs[i].type = "HEADERS" /\ fs[i].end
    BY <1>7 DEF Ends
  <2>2. CASE form = "plain"
    <3>1. PICK g \in Frame : fs = <<g>> /\ (g.end <=> size = 0)
      BY <1>2, <2>2 DEF Answer
    <3> QED BY <2>1, <3>1
  <2>3. CASE form # "plain"
    <3>1. PICK e \in Frame, g \in Frame :
            /\ fs = <<e>> \o <<g>>
            /\ \/ ~e.end /\ (g.end <=> size = 0)
               \/ ~g.end /\ (e.end <=> size = 0)
      BY <1>2, <2>3 DEF Answer
    <3>2. Len(fs) = 2 /\ fs[1] = e /\ fs[2] = g /\ DOMAIN fs = 1 .. Len(fs)
      BY <3>1, TwoFrames
    <3> QED BY <2>1, <3>1, <3>2
  <2> QED BY <2>2, <2>3
<1>8. Whole(s)'
  <2> SUFFICES ASSUME stream[s].phase # "gone" PROVE Whole(s)'
    BY <1>6 DEF Whole
  <2>1. Whole(s)
    BY <1>2 DEF Delivery
  <2>2. /\ Had(s) = 0 /\ LastData(toClient, s)
        /\ ~Ends(toClient, "DATA", s) /\ ~Ends(toClient, "HEADERS", s)
        /\ ~(stream[s].assembling /\ stream[s].headerEnd)
    BY <1>2, <2>1 DEF Whole, Complete, Empty
  <2>3. Had(s)' = 0
    <3>1. \A i \in 1 .. Len(fs) : fs[i].type = "DATA" /\ fs[i].s \in {s} => fs[i].n = 0
      BY <1>5
    <3>2. UnderWay(fs, "DATA", {s}) = 0
      BY <3>1, NoUnits
    <3>3. UnderWay(toClient', "DATA", {s}) = UnderWay(toClient, "DATA", {s}) + UnderWay(fs, "DATA", {s})
      BY <1>2, <1>3, UnderWayConcat
    <3>4. UnderWay(toClient, "DATA", {s}) \in Nat
      BY Amounts
    <3> QED BY <1>6, <2>2, <3>2, <3>3, <3>4 DEF Had
  <2>4. LastData(toClient', s)
    BY <1>2, <1>3, <1>5, <2>2, LastDataAdd DEF DataOf
  <2>5. ~Ends(toClient', "DATA", s)
    <3>1. ~Ends(fs, "DATA", s)
      <4>1. DOMAIN fs = 1 .. Len(fs)
        OBVIOUS
      <4> QED BY <1>5, <4>1 DEF Ends
    <3> QED BY <1>2, <1>3, <2>2, <3>1, EndsAdd
  <2>6. Ends(toClient', "HEADERS", s) => size = 0
    BY <1>2, <1>3, <1>7, <2>2, EndsAdd
  <2>7. size = 0 => Empty(s)'
    BY <1>4, <2>3 DEF Empty
  <2>8. ~(stream'[s].assembling /\ stream'[s].headerEnd)
    BY <1>6, <2>2
  <2> QED BY <1>4, <2>3, <2>4, <2>5, <2>6, <2>7, <2>8 DEF Whole
<1>9. \A i \in 1 .. Len(fs) : fs[i].s = s
  BY <1>5
<1> QED BY <1>2, <1>6, <1>8, <1>9, OneDelivery

LEMMA SrvSendsDelivery ==
  ASSUME Sound, Delivery, NEW s \in Streams, NEW n \in Nat, NEW pad \in Pads, SrvSends(s, n, pad)
  PROVE  Delivery'
<1>1. PICK f \in Frame, v \in Srv : SentData(s, n, pad, f, v)
  BY SrvSendsDoes, Zenon
<1>2. /\ ~sess.destroyed /\ n \in 1 .. srv[s].left
      /\ f.type = "DATA" /\ f.s = s /\ f.n = n /\ (f.end <=> n = srv[s].left)
      /\ toClient' = toClient \o <<f>>
      /\ v = [srv[s] EXCEPT !.left = srv[s].left - n, !.sendWin = srv[s].sendWin - (n + pad)]
      /\ srv' = [srv EXCEPT ![s] = v]
      /\ UNCHANGED <<clientVars, toServer, faults>>
  BY <1>1 DEF SentData
<1>3. srv \in [Streams -> Srv] /\ toClient \in Seq(Frame) /\ heard \in [Streams -> Heard]
  BY DEF Sound, TypeOK
<1>4. srv[s].left \in Nat /\ srv[s].total \in Nat /\ srv[s].left > 0 /\ n > 0
  BY <1>2, <1>3 DEF Srv
<1>5. srv[s].answered
  BY <1>4 DEF Sound
<1>6. v.answered /\ v.total = srv[s].total /\ v.left = srv[s].left - n /\ srv'[s] = v
  BY <1>2, <1>3, <1>5 DEF Srv
<1>7. PICK fs \in Seq(Frame) : fs = <<f>> /\ \A i \in 1 .. Len(fs) : fs[i] = f
  BY <1>3, AddOne
<1>8. DOMAIN fs = 1 .. Len(fs) /\ toClient' = toClient \o fs
  BY <1>2, <1>7
<1>9. UNCHANGED <<stream, heard>> /\ UNCHANGED clientVars
  BY <1>2 DEF clientVars
<1>10. Whole(s)'
  <2> SUFFICES ASSUME stream[s].phase # "gone" PROVE Whole(s)'
    BY <1>9 DEF Whole
  <2>1. Whole(s)
    BY <1>2 DEF Delivery
  <2>2. /\ Had(s) + srv[s].left = srv[s].total /\ LastData(toClient, s)
        /\ ~Ends(toClient, "DATA", s) /\ ~Ends(toClient, "HEADERS", s)
        /\ ~(stream[s].assembling /\ stream[s].headerEnd)
    BY <1>4, <2>1 DEF Whole, Complete, Empty
  <2>3. Had(s)' = Had(s) + n /\ Had(s) \in Nat
    <3>1. UnderWay(fs, "DATA", {s}) = n
      BY <1>2, <1>7, UnitsOfOne DEF Weight
    <3>2. UnderWay(toClient', "DATA", {s}) = UnderWay(toClient, "DATA", {s}) + UnderWay(fs, "DATA", {s})
      BY <1>3, <1>8, UnderWayConcat
    <3>3. UnderWay(toClient, "DATA", {s}) \in Nat /\ heard[s].units \in Nat
      BY <1>3, Amounts DEF Heard
    <3> QED BY <1>9, <3>1, <3>2, <3>3 DEF Had
  <2>4. LastData(toClient', s)
    <3>1. LastData(fs, s)
      <4>1. Len(fs) = 1
        BY <1>7
      <4> QED BY <1>8, <4>1 DEF LastData
    <3> QED BY <1>3, <1>8, <2>2, <3>1, LastDataAdd
  <2>5. ~Ends(toClient', "HEADERS", s)
    <3>1. ~Ends(fs, "HEADERS", s)
      BY <1>2, <1>7, <1>8 DEF Ends
    <3> QED BY <1>3, <1>8, <2>2, <3>1, EndsAdd
  <2>6. ASSUME Ends(toClient', "DATA", s) PROVE Complete(s)'
    <3>1. Ends(fs, "DATA", s)
      BY <1>3, <1>8, <2>2, <2>6, EndsAdd
    <3>2. n = srv[s].left
      BY <1>2, <1>7, <1>8, <3>1 DEF Ends
    <3> QED BY <1>4, <1>6, <2>2, <2>3, <3>2 DEF Complete
  <2>7. srv'[s].answered /\ Had(s)' + srv'[s].left = srv'[s].total
    <3>1. n \in Nat /\ n <= srv[s].left
      BY <1>2, <1>4
    <3>2. srv'[s].answered /\ srv'[s].total = srv[s].total /\ srv'[s].left = srv[s].left - n
      BY <1>6
    <3>3. Had(s) + srv[s].left = srv[s].total
      BY <2>2
    <3> QED BY <1>4, <2>3, <3>1, <3>2, <3>3
  <2>8. ~(stream'[s].assembling /\ stream'[s].headerEnd)
    BY <1>9, <2>2
  <2> QED BY <2>4, <2>5, <2>6, <2>7, <2>8 DEF Whole
<1>11. \A i \in 1 .. Len(fs) : fs[i].s = s
  BY <1>2, <1>7
<1>12. srv' = [srv EXCEPT ![s] = v] /\ ~sess.destroyed
  BY <1>2
<1> QED BY <1>6, <1>8, <1>9, <1>10, <1>11, <1>12, OneDelivery

LEMMA DeliveryInit == Init => Delivery
<1> SUFFICES ASSUME Init PROVE Delivery
  OBVIOUS
<1>1. /\ toClient = <<>>
      /\ \A s \in Streams : /\ heard[s].units = 0 /\ heard[s].outcome = "none"
                            /\ ~srv[s].answered /\ srv[s].left = 0 /\ ~stream[s].assembling
  BY DEF Init
<1>2. ASSUME NEW s \in Streams PROVE Whole(s)
  <2>1. UnderWay(toClient, "DATA", {s}) = 0
    BY <1>1, UnderWayEmpty
  <2>2. LastData(toClient, s) /\ ~Ends(toClient, "DATA", s) /\ ~Ends(toClient, "HEADERS", s)
    BY <1>1 DEF LastData, Ends
  <2> QED BY <1>1, <2>1, <2>2 DEF Whole, Had
<1> QED BY <1>1, <1>2 DEF Delivery, EndedWhole

LEMMA DeliveryStep ==
  ASSUME Sound, Hearing, Delivery, [Next]_vars
  PROVE  Delivery'
<1>1. CASE Caller
  <2>1. ASSUME NEW s \in Streams, NEW k \in Kinds, NEW b \in Bodies, Request(s, k, b)
        PROVE  Delivery'
    BY <2>1, RequestDelivery
  <2>2. ASSUME NEW s \in Streams, NEW b \in Bodies, NEW n \in 1 .. b, Write(s, n)
        PROVE  Delivery'
    <3>1. n \in Nat
      OBVIOUS
    <3> QED BY <2>2, <3>1, BodyDelivery
  <2> QED BY <1>1, <2>1, <2>2, BodyDelivery, CancelDelivery, EndDelivery DEF Caller
<1>2. CASE Dispatch
  <2>1. ASSUME OnBad PROVE Delivery'
    BY <2>1, EndDelivery DEF OnBad
  <2> QED BY <1>2, <2>1, OnHeadersDelivery, OnContinuationDelivery, OnDataDelivery,
             OnResetDelivery, OnUnknownDelivery, OnUpdateDelivery DEF Dispatch
<1>3. CASE Server
  <2>1. ASSUME NEW s \in Streams, NEW a \in Answers, NEW form \in Forms, SrvAnswers(s, a, form)
        PROVE  Delivery'
    BY <2>1, SrvAnswersDelivery
  <2>2. ASSUME NEW s \in Streams, NEW n \in 1 .. srv[s].left, NEW pad \in Pads, SrvSends(s, n, pad)
        PROVE  Delivery'
    <3>1. n \in Nat
      OBVIOUS
    <3> QED BY <2>2, <3>1, SrvSendsDelivery
  <2> QED BY <1>3, <2>1, <2>2, SrvReceivesDelivery, SrvCreditsDelivery, SrvSignalsDelivery DEF Server
<1>4. CASE UNCHANGED vars
  <2>1. UNCHANGED <<clientVars, srv, toClient>>
    BY <1>4 DEF vars, clientVars
  <2>2. \A t \in Streams : Unmoved(t)
    BY <2>1, StillUnmoved
  <2>3. \A t \in Streams : Keeps(t)
    BY <2>1 DEF Keeps
  <2>4. UNCHANGED clientVars /\ toClient' = toClient
    BY <2>1
  <2> QED BY <2>2, <2>3, <2>4, ServerDelivery
<1> QED BY <1>1, <1>2, <1>3, <1>4 DEF Next

(* A response that ends without an error is the whole response the server  *)
(* gave, in whatever frames it comes, also if its header block is cut in   *)
(* two, and whatever else is under way (client.js 295-306; session.js      *)
(* 84-143).                                                                *)
THEOREM ResponsesWhole == Spec => []ResponseWhole
<1>1. Init => Sound /\ Hearing /\ Delivery
  BY InitSound, HearingInit, DeliveryInit
<1>2. Sound /\ Hearing /\ Delivery /\ [Next]_vars => (Sound /\ Hearing /\ Delivery)'
  BY SoundStep, HearingStep, DeliveryStep
<1>3. Delivery => ResponseWhole
  BY DEF Delivery, EndedWhole, ResponseWhole
<1> QED BY <1>1, <1>2, <1>3, PTL DEF Spec


-----------------------------------------------------------------------------
(***************************************************************************)
(* Whole bodies.  A body in memory goes out as one frame of DATA at most,  *)
(* from its beginning, and a frame that ends the stream has all of it.     *)
(***************************************************************************)
NoData(q, s) == \A i \in DOMAIN q : ~DataOf(q[i], s)
OpenHeads(q, s) == \A i \in DOMAIN q : q[i].type = "HEADERS" /\ q[i].s = s => ~q[i].end
OneData(q, s, size) ==
  \A i \in DOMAIN q : DataOf(q[i], s) =>
    /\ q[i].from = 0 /\ (q[i].end => q[i].n = size)
    /\ \A j \in DOMAIN q : DataOf(q[j], s) => i = j

Unstarted(s) == srv[s].got = 0 /\ ~srv[s].hole /\ ~srv[s].ended

Bodiless(s) ==
  stream[s].size = 0 /\ srv[s].got = 0 /\ ~srv[s].hole /\ NoData(toServer, s)

InMemory(s) ==
  /\ srv[s].ended => srv[s].got = stream[s].size /\ ~srv[s].hole
  /\ OpenHeads(toServer, s) /\ OneData(toServer, s, stream[s].size)
  /\ NoData(toServer, s) \/ Unstarted(s)

Uploading(s) ==
  /\ stream[s].phase = "idle" => Unstarted(s) /\ stream[s].offered = 0
  /\ stream[s].phase # "idle" /\ stream[s].kind = "none" => Bodiless(s)
  /\ stream[s].phase # "idle" /\ stream[s].kind = "whole" => InMemory(s)

Upload == \A s \in Streams : Uploading(s)

(* What a queue holds of a body when frames are taken or added.            *)
Carried(q, r, s) ==
  /\ NoData(q, s) => NoData(r, s)
  /\ OpenHeads(q, s) => OpenHeads(r, s)
  /\ \A size : OneData(q, s, size) => OneData(r, s, size)

LEMMA CarriedSame ==
  ASSUME NEW q, NEW s
  PROVE  Carried(q, q, s)
BY DEF Carried

LEMMA CarriedNothing ==
  ASSUME NEW q, NEW s
  PROVE  Carried(q, <<>>, s)
BY DEF Carried, NoData, OpenHeads, OneData

LEMMA CarriedTail ==
  ASSUME NEW q \in Seq(Frame), q # <<>>, NEW s
  PROVE  Carried(q, Tail(q), s)
<1> DEFINE r == Tail(q)
<1>1. \A i \in DOMAIN r : i + 1 \in DOMAIN q /\ r[i] = q[i + 1]
  BY TailPlaces
<1>2. DOMAIN r \subseteq Nat
  BY TailPlaces
<1> HIDE DEF r
<1>3. ASSUME NoData(q, s) PROVE NoData(r, s)
  BY <1>1, <1>3 DEF NoData
<1>4. ASSUME OpenHeads(q, s) PROVE OpenHeads(r, s)
  BY <1>1, <1>4 DEF OpenHeads
<1>5. ASSUME NEW size, OneData(q, s, size) PROVE OneData(r, s, size)
  <2> SUFFICES ASSUME NEW i \in DOMAIN r, DataOf(r[i], s)
               PROVE  /\ r[i].from = 0 /\ (r[i].end => r[i].n = size)
                      /\ \A j \in DOMAIN r : DataOf(r[j], s) => i = j
    BY DEF OneData
  <2>1. i + 1 \in DOMAIN q /\ r[i] = q[i + 1]
    BY <1>1
  <2>2. /\ q[i + 1].from = 0 /\ (q[i + 1].end => q[i + 1].n = size)
        /\ \A j \in DOMAIN q : DataOf(q[j], s) => i + 1 = j
    BY <1>5, <2>1 DEF OneData
  <2>3. ASSUME NEW j \in DOMAIN r, DataOf(r[j], s) PROVE i = j
    <3>1. i + 1 = j + 1
      BY <1>1, <2>2, <2>3
    <3> QED BY <1>2, <3>1
  <2> QED BY <2>1, <2>2, <2>3
<1> QED BY <1>3, <1>4, <1>5 DEF Carried, r

LEMMA CarriedAdd ==
  ASSUME NEW q \in Seq(Frame), NEW fs \in Seq(Frame), NEW s,
         \A i \in 1 .. Len(fs) : fs[i].s = s => fs[i].type \notin {"DATA", "HEADERS"}
  PROVE  Carried(q, q \o fs, s)
<1> DEFINE r == q \o fs
           Mine(f) == f.s = s /\ f.type \in {"DATA", "HEADERS"}
<1>1. \A i \in DOMAIN r : Mine(r[i]) => i \in DOMAIN q /\ r[i] = q[i]
  BY ConcatPlaces
<1> HIDE DEF r
<1>2. \A f : DataOf(f, s) \/ (f.type = "HEADERS" /\ f.s = s) => Mine(f)
  BY DEF DataOf
<1> HIDE DEF Mine
<1>3. NoData(q, s) => NoData(r, s)
  BY <1>1, <1>2 DEF NoData
<1>4. OpenHeads(q, s) => OpenHeads(r, s)
  BY <1>1, <1>2 DEF OpenHeads
<1>5. ASSUME NEW size, OneData(q, s, size) PROVE OneData(r, s, size)
  <2> SUFFICES ASSUME NEW i \in DOMAIN r, DataOf(r[i], s)
               PROVE  /\ r[i].from = 0 /\ (r[i].end => r[i].n = size)
                      /\ \A j \in DOMAIN r : DataOf(r[j], s) => i = j
    BY DEF OneData
  <2>1. i \in DOMAIN q /\ r[i] = q[i]
    BY <1>1, <1>2
  <2>2. /\ q[i].from = 0 /\ (q[i].end => q[i].n = size)
        /\ \A j \in DOMAIN q : DataOf(q[j], s) => i = j
    BY <1>5, <2>1 DEF OneData
  <2>3. \A j \in DOMAIN r : DataOf(r[j], s) => j \in DOMAIN q /\ DataOf(q[j], s)
    BY <1>1, <1>2
  <2> QED BY <2>1, <2>2, <2>3
<1> QED BY <1>3, <1>4, <1>5 DEF Carried, r

LEMMA CarriedSent ==
  ASSUME Sound, NEW fs \in Seq(Frame), Sent(fs), NEW s,
         \A i \in 1 .. Len(fs) : fs[i].s = s => fs[i].type \notin {"DATA", "HEADERS"}
  PROVE  Carried(toServer, toServer', s)
<1>1. toServer \in Seq(Frame)
  BY DEF Sound, TypeOK
<1>2. toServer' = toServer \/ toServer' = toServer \o fs
  BY DEF Sent
<1> QED BY <1>1, <1>2, CarriedSame, CarriedAdd

(* What keeps a stream's body.                                             *)
Resting(t) ==
  /\ stream'[t].phase = "idle" <=> stream[t].phase = "idle"
  /\ stream'[t].kind = stream[t].kind /\ stream'[t].size = stream[t].size
  /\ stream[t].phase = "idle" => stream'[t].offered = stream[t].offered
  /\ srv'[t].got = srv[t].got
  /\ srv'[t].hole <=> srv[t].hole
  /\ srv'[t].ended <=> srv[t].ended

LEMMA UploadingKept ==
  ASSUME NEW t, Uploading(t), Resting(t),
         \/ Carried(toServer, toServer', t)
         \/ stream[t].phase = "idle"
         \/ stream[t].kind = "stream"
  PROVE  Uploading(t)'
<1>1. Unstarted(t)' <=> Unstarted(t)
  BY DEF Unstarted, Resting
<1>2. CASE stream[t].phase = "idle"
  BY <1>1, <1>2 DEF Uploading, Resting
<1>3. CASE stream[t].phase # "idle" /\ stream[t].kind = "none"
  <2>1. Bodiless(t)'
    BY <1>3 DEF Bodiless, Uploading, Resting, Carried
  <2> QED BY <1>3, <2>1 DEF Uploading, Resting
<1>4. CASE stream[t].phase # "idle" /\ stream[t].kind = "whole"
  <2>1. InMemory(t) /\ Carried(toServer, toServer', t)
    BY <1>4 DEF Uploading
  <2>2. OpenHeads(toServer', t) /\ OneData(toServer', t, stream[t].size)
    BY <2>1 DEF InMemory, Carried
  <2>3. NoData(toServer', t) \/ Unstarted(t)'
    BY <1>1, <2>1 DEF InMemory, Carried
  <2>4. InMemory(t)'
    BY <2>1, <2>2, <2>3 DEF InMemory, Resting
  <2> QED BY <1>4, <2>4 DEF Uploading, Resting
<1>5. CASE stream[t].phase # "idle" /\ stream[t].kind \notin {"none", "whole"}
  BY <1>5 DEF Uploading, Resting
<1> QED BY <1>2, <1>3, <1>4, <1>5

(* A step of the client that opens no stream.                              *)
Rests(t) ==
  /\ stream'[t].phase = "idle" <=> stream[t].phase = "idle"
  /\ stream'[t].kind = stream[t].kind /\ stream'[t].size = stream[t].size
  /\ stream[t].phase = "idle" => stream'[t].offered = stream[t].offered

LEMMA ClientUpload ==
  ASSUME Upload, UNCHANGED srv,
         \A t \in Streams :
           /\ Rests(t)
           /\ \/ Carried(toServer, toServer', t)
              \/ stream[t].phase # "idle" /\ stream[t].kind = "stream"
  PROVE  Upload'
<1>1. \A t \in Streams : Resting(t)
  BY DEF Rests, Resting
<1>2. \A t \in Streams : Uploading(t)'
  BY <1>1, UploadingKept DEF Upload
<1> QED BY <1>2 DEF Upload

(* One stream changes, and nothing of it that matters here.                *)
LEMMA OneRests ==
  ASSUME stream \in [Streams -> Stream], NEW s \in Streams, NEW st,
         stream' = [stream EXCEPT ![s] = st],
         st.phase = "idle" <=> stream[s].phase = "idle",
         st.kind = stream[s].kind, st.size = stream[s].size,
         stream[s].phase = "idle" => st.offered = stream[s].offered
  PROVE  \A t \in Streams : Rests(t)
<1> SUFFICES ASSUME NEW t \in Streams PROVE Rests(t)
  OBVIOUS
<1>1. CASE t = s
  BY <1>1 DEF Rests
<1>2. CASE t # s
  BY <1>2 DEF Rests
<1> QED BY <1>1, <1>2

(* A chunk of a streamed body, or its end.                                 *)
LEMMA BodyUpload ==
  ASSUME Sound, Upload, NEW s \in Streams, (\E n \in Nat : Write(s, n)) \/ Finish(s)
  PROVE  Upload'
<1>1. stream \in [Streams -> Stream] /\ stream[s] \in Stream /\ sess \in Session
  BY DEF Sound, TypeOK
<1>2. /\ stream[s].phase # "idle" /\ stream[s].kind = "stream" /\ UNCHANGED srv
      /\ \E st : /\ stream' = [stream EXCEPT ![s] = st]
                 /\ st.phase = stream[s].phase /\ st.kind = stream[s].kind
                 /\ st.size = stream[s].size
      /\ \E fs \in Seq(Frame) : Sent(fs) /\ \A i \in 1 .. Len(fs) : fs[i].s = s
  <2>1. ASSUME NEW n \in Nat, Write(s, n)
        PROVE  <1>2!:
    <3>1. /\ stream[s].phase # "idle" /\ stream[s].kind = "stream"
          /\ UNCHANGED <<heard, serverVars, toClient, faults>>
          /\ stream' = [stream EXCEPT ![s] = Spent(stream[s], n)]
          /\ Sent(DataFrames(s, stream[s], n, FALSE))
      BY <2>1 DEF Write
    <3>2. PICK fs : fs = DataFrames(s, stream[s], n, FALSE)
      OBVIOUS
    <3>3. fs \in Seq(Frame) /\ (fs = <<>> \/ \E f \in Frame : fs = <<f>> /\ f.s = s)
      <4>1. PICK end \in BOOLEAN : end = FALSE
        OBVIOUS
      <4>2. fs = DataFrames(s, stream[s], n, end)
        BY <3>2, <4>1
      <4>3. fs = <<>> \/ \E f \in Frame : /\ fs = <<f>>
                                         /\ f.type = "DATA" /\ f.s = s /\ f.n = Take(stream[s], n)
                                         /\ f.from = stream[s].offered
                                         /\ (f.end <=> end /\ Take(stream[s], n) = n)
        BY <1>1, <4>2, DataFramesTypes
      <4>4. fs \in Seq(Frame)
        BY <1>1, <4>2, DataFramesTypes
      <4> QED BY <4>3, <4>4
    <3>4. \A i \in 1 .. Len(fs) : fs[i].s = s
      BY <3>3
    <3>5. PICK st : st = Spent(stream[s], n)
      OBVIOUS
    <3>6. st.phase = stream[s].phase /\ st.kind = stream[s].kind /\ st.size = stream[s].size
      BY <1>1, <3>5 DEF Spent, Stream
    <3> QED BY <3>1, <3>2, <3>3, <3>4, <3>5, <3>6 DEF serverVars
  <2>2. ASSUME Finish(s)
        PROVE  <1>2!:
    <3>1. PICK fs : fs = IF stream[s].wrote THEN DataFrames(s, stream[s], 0, TRUE) ELSE <<>>
      OBVIOUS
    <3>2. /\ stream[s].phase # "idle" /\ stream[s].kind = "stream"
          /\ UNCHANGED <<sess, heard, serverVars, toClient, faults>>
          /\ stream' = [stream EXCEPT ![s].finished = TRUE]
          /\ Sent(fs)
      BY <2>2, <3>1 DEF Finish
    <3>3. PICK end \in BOOLEAN, n \in Nat : end = TRUE /\ n = 0
      OBVIOUS
    <3>4. fs \in Seq(Frame) /\ (fs = <<>> \/ \E f \in Frame : fs = <<f>> /\ f.s = s)
      <4>1. fs = IF stream[s].wrote THEN DataFrames(s, stream[s], n, end) ELSE <<>>
        BY <3>1, <3>3
      <4>2. CASE stream[s].wrote
        BY <1>1, <4>1, <4>2, DataFramesTypes
      <4>3. CASE ~stream[s].wrote
        BY <4>1, <4>3
      <4> QED BY <4>2, <4>3
    <3>5. \A i \in 1 .. Len(fs) : fs[i].s = s
      BY <3>4
    <3>6. PICK st : st = [stream[s] EXCEPT !.finished = TRUE]
      OBVIOUS
    <3>7. st.phase = stream[s].phase /\ st.kind = stream[s].kind /\ st.size = stream[s].size
      BY <1>1, <3>6 DEF Stream
    <3>8. stream' = [stream EXCEPT ![s] = st]
      BY <1>1, <3>2, <3>6
    <3> QED BY <3>2, <3>4, <3>5, <3>7, <3>8 DEF serverVars
  <2> QED BY <2>1, <2>2
<1>3. PICK fs \in Seq(Frame) : Sent(fs) /\ \A i \in 1 .. Len(fs) : fs[i].s = s
  BY <1>2
<1>4. \A t \in Streams : Rests(t)
  BY <1>1, <1>2, OneRests
<1>5. ASSUME NEW t \in Streams, t # s PROVE Carried(toServer, toServer', t)
  BY <1>3, <1>5, CarriedSent
<1> QED BY <1>2, <1>4, <1>5, ClientUpload

LEMMA CancelUpload ==
  ASSUME Sound, Upload, NEW s \in Streams, Cancel(s)
  PROVE  Upload'
<1>1. stream \in [Streams -> Stream] /\ stream[s] \in Stream
  BY DEF Sound, TypeOK
<1>2. PICK fs : fs = <<Fr("RST_STREAM", s)>>
  OBVIOUS
<1>3. /\ stream' = [stream EXCEPT ![s] = Closed(@)] /\ Sent(fs)
      /\ stream[s].phase = "open" /\ UNCHANGED srv
  BY <1>2 DEF Cancel, serverVars
<1>4. fs \in Seq(Frame) /\ \A i \in 1 .. Len(fs) : fs[i].type = "RST_STREAM"
  BY <1>2, ResetFrames
<1>5. \A t \in Streams : Carried(toServer, toServer', t)
  BY <1>3, <1>4, CarriedSent
<1>6. PICK st : st = Closed(stream[s])
  OBVIOUS
<1>7. st.phase = "gone" /\ st.kind = stream[s].kind /\ st.size = stream[s].size
  BY <1>1, <1>6 DEF Closed, Stream
<1>8. \A t \in Streams : Rests(t)
  BY <1>1, <1>3, <1>6, <1>7, OneRests
<1> QED BY <1>3, <1>5, <1>8, ClientUpload

(* The session's end.                                                      *)
LEMMA EndUpload ==
  ASSUME Sound, Upload, CloseSession \/ (FailAll /\ UNCHANGED serverVars)
  PROVE  Upload'
<1>1. stream \in [Streams -> Stream]
  BY DEF Sound, TypeOK
<1>2. toServer' = <<>> /\ UNCHANGED srv
  BY DEF CloseSession, FailAll, serverVars
<1>3. ASSUME NEW t \in Streams PROVE Rests(t)
  <2>1. CASE stream'[t] = stream[t]
    BY <2>1 DEF Rests
  <2>2. CASE stream[t].phase = "open" /\ stream'[t] = Closed(stream[t])
    BY <1>1, <2>2 DEF Rests, Closed, Stream
  <2> QED BY <1>1, <2>1, <2>2 DEF CloseSession, FailAll
<1> QED BY <1>2, <1>3, CarriedNothing, ClientUpload

LEMMA FinalizeUpload ==
  ASSUME Sound, Upload, NEW s \in Streams, NEW f, NEW end, NEW cancel,
         stream[s].phase = "open", Finalize(s, f, end, cancel), UNCHANGED serverVars
  PROVE  Upload'
<1>1. stream \in [Streams -> Stream] /\ stream[s] \in Stream
  BY DEF Sound, TypeOK
<1>2. CASE FailAll
  BY <1>2, EndUpload
<1>3. CASE ~FailAll
  <2>1. PICK fs : fs = IF cancel THEN <<Fr("RST_STREAM", s)>> ELSE <<>>
    OBVIOUS
  <2>2. PICK phase : phase = IF cancel \/ end THEN "gone" ELSE stream[s].phase
    OBVIOUS
  <2>3. /\ stream' = [stream EXCEPT ![s].assembling = FALSE,
                        ![s].phase = IF cancel \/ end THEN "gone" ELSE @]
        /\ Sent(fs)
    BY <1>3, <2>1 DEF Finalize
  <2>4. fs \in Seq(Frame) /\ \A i \in 1 .. Len(fs) : fs[i].type = "RST_STREAM"
    BY <2>1, ResetFrames
  <2>5. \A t \in Streams : Carried(toServer, toServer', t)
    BY <2>3, <2>4, CarriedSent
  <2>6. PICK st : st = [stream[s] EXCEPT !.assembling = FALSE, !.phase = phase]
    OBVIOUS
  <2>7. stream' = [stream EXCEPT ![s] = st]
    BY <1>1, <2>2, <2>3, <2>6
  <2>8. st.phase # "idle" /\ st.kind = stream[s].kind /\ st.size = stream[s].size
    BY <1>1, <2>2, <2>6 DEF Stream
  <2>9. \A t \in Streams : Rests(t)
    BY <1>1, <2>7, <2>8, OneRests
  <2>10. UNCHANGED srv
    BY DEF serverVars
  <2> QED BY <2>5, <2>9, <2>10, ClientUpload
<1> QED BY <1>2, <1>3

LEMMA OnHeadersUpload ==
  ASSUME Sound, Upload, NEW cancel \in BOOLEAN, OnHeaders(cancel) \/ OnContinuation(cancel)
  PROVE  Upload'
<1>1. stream \in [Streams -> Stream]
  BY DEF Sound, TypeOK
<1>2. PICK f : f = Head(toClient)
  OBVIOUS
<1>3. /\ toClient # <<>> /\ f.type \in {"HEADERS", "CONTINUATION"}
      /\ stream[f.s].phase = "open" /\ UNCHANGED serverVars
      /\ \/ \E end : Finalize(f.s, f, end, cancel)
         \/ /\ stream' = [stream EXCEPT ![f.s] = Assembling(@, f.end)]
            /\ UNCHANGED toServer
  BY <1>2 DEF OnHeaders, OnContinuation, Receiving
<1>4. f.s \in Streams
  BY <1>2, <1>3, HeadTypes
<1>5. ASSUME NEW end, Finalize(f.s, f, end, cancel)
      PROVE  Upload'
  BY <1>3, <1>4, <1>5, FinalizeUpload
<1>6. ASSUME stream' = [stream EXCEPT ![f.s] = Assembling(@, f.end)], UNCHANGED toServer
      PROVE  Upload'
  <2>1. PICK s \in Streams : s = f.s
    BY <1>4
  <2>2. PICK st : st = Assembling(stream[s], f.end)
    OBVIOUS
  <2>3. /\ st.phase = stream[s].phase /\ st.kind = stream[s].kind /\ st.size = stream[s].size
        /\ st.offered = stream[s].offered
    BY <1>1, <2>2 DEF Assembling, Stream
  <2>4. stream' = [stream EXCEPT ![s] = st]
    BY <1>1, <1>6, <2>1, <2>2
  <2>5. \A t \in Streams : Rests(t)
    BY <1>1, <2>3, <2>4, OneRests
  <2>6. UNCHANGED srv /\ \A t : Carried(toServer, toServer', t)
    BY <1>3, <1>6, CarriedSame DEF serverVars
  <2> QED BY <2>5, <2>6, ClientUpload
<1> QED BY <1>3, <1>5, <1>6

LEMMA OnDataUpload ==
  ASSUME Sound, Upload, OnData
  PROVE  Upload'
<1>1. stream \in [Streams -> Stream]
  BY DEF Sound, TypeOK
<1>2. PICK f \in Frame, st \in Stream, h \in Heard, p \in Seq(Frame), r \in Seq(Frame) :
        DataTaken(f, st, h, p, r)
  BY OnDataDoes, Zenon
<1>3. PICK s \in Streams : s = f.s
  BY <1>2 DEF DataTaken
<1>4. /\ stream[s].phase = "open" /\ stream' = [stream EXCEPT ![s] = st]
      /\ st.phase # "idle" /\ st.kind = stream[s].kind /\ st.size = stream[s].size
      /\ UNCHANGED srv
  BY <1>1, <1>2, <1>3 DEF DataTaken, serverVars, Stream
<1>5. /\ Update(p, 0, sess.recvUsed + f.n) /\ Update(r, s, stream[s].recvUsed + f.n)
      /\ Sent(p \o r)
  BY <1>2, <1>3 DEF DataTaken
<1>6. PICK fs : fs = p \o r
  OBVIOUS
<1>7. fs \in Seq(Frame) /\ \A i \in 1 .. Len(fs) : fs[i].type = "WINDOW_UPDATE"
  BY <1>5, <1>6, UpdateFrames, Zenon
<1>8. \A t \in Streams : Carried(toServer, toServer', t)
  BY <1>5, <1>6, <1>7, CarriedSent
<1>9. \A t \in Streams : Rests(t)
  BY <1>1, <1>4, OneRests
<1> QED BY <1>4, <1>8, <1>9, ClientUpload

LEMMA OnUnknownUpload ==
  ASSUME Sound, Upload, OnUnknown
  PROVE  Upload'
<1>1. PICK f \in Frame, n \in Nat, p \in Seq(Frame) : UnknownTaken(f, n, p)
  BY OnUnknownDoes, Zenon
<1>2. Update(p, 0, sess.recvUsed + n) /\ Sent(p) /\ UNCHANGED <<stream, srv>>
  BY <1>1 DEF UnknownTaken, serverVars
<1>3. \A i \in 1 .. Len(p) : p[i].type = "WINDOW_UPDATE"
  BY <1>2 DEF Update
<1>4. \A t \in Streams : Carried(toServer, toServer', t)
  BY <1>2, <1>3, CarriedSent
<1> QED BY <1>2, <1>4, ClientUpload DEF Rests

(* What sends nothing.                                                     *)
LEMMA OthersUpload ==
  ASSUME Sound, Upload, OnReset \/ OnWindowUpdate \/ OnGoaway
  PROVE  Upload'
<1>1. stream \in [Streams -> Stream]
  BY DEF Sound, TypeOK
<1>2. UNCHANGED <<srv, toServer>>
  BY DEF OnReset, OnWindowUpdate, OnGoaway, serverVars
<1>3. ASSUME NEW t \in Streams PROVE Rests(t)
  <2>1. CASE OnReset
    <3>1. stream'[t] = stream[t] \/ (stream[t].phase = "open" /\ stream'[t] = Closed(stream[t]))
      BY <1>1, <2>1 DEF OnReset
    <3> QED BY <1>1, <3>1 DEF Rests, Closed, Stream
  <2>2. CASE OnWindowUpdate
    <3>1. stream' = stream \/ \E s : stream' = [stream EXCEPT ![s].sendWindow = @ + Head(toClient).n]
      BY <2>2 DEF OnWindowUpdate
    <3> QED BY <1>1, <3>1 DEF Rests, Stream
  <2>3. CASE OnGoaway
    BY <2>3 DEF OnGoaway, Rests
  <2> QED BY <2>1, <2>2, <2>3
<1> QED BY <1>2, <1>3, CarriedSame, ClientUpload

(* The request itself.                                                     *)
LEMMA RequestUpload ==
  ASSUME Sound, Upload, NEW s \in Streams, NEW kind \in Kinds, NEW size \in Bodies,
         Request(s, kind, size)
  PROVE  Upload'
<1> DEFINE opened == [stream[s] EXCEPT !.phase = "open", !.kind = kind,
                                       !.size = size, !.finished = (kind # "stream")]
           h == [Fr("HEADERS", s) EXCEPT !.end = (kind = "none")]
<1>1. /\ stream \in [Streams -> Stream] /\ sess \in Session /\ stream[s] \in Stream
      /\ toServer \in Seq(Frame)
  BY DEF Sound, TypeOK
<1>2. size \in Nat /\ s \in 0 .. MaxStreams
  BY H2Assumption DEF Streams
<1>3. /\ opened \in Stream /\ opened.phase = "open" /\ opened.kind = kind
      /\ opened.size = size /\ opened.offered = stream[s].offered
  BY <1>1 DEF Stream
<1>4. h \in Frame /\ h.type = "HEADERS" /\ h.s = s /\ (h.end <=> kind = "none")
  BY <1>2 DEF Fr, Frame
<1>5. /\ stream[s].phase = "idle" /\ ~sess.destroyed /\ UNCHANGED srv
      /\ kind = "none" <=> size = 0
  BY DEF Request, serverVars
<1> HIDE DEF opened, h
<1>6. Unstarted(s) /\ stream[s].offered = 0
  BY <1>5 DEF Upload, Uploading
<1>7. Unstarted(s)'
  BY <1>5, <1>6 DEF Unstarted
<1>8. \A i \in DOMAIN toServer : ~(toServer[i].s = s /\ toServer[i].type \in {"HEADERS", "DATA"})
  <2>1. \A i \in DOMAIN toServer : toServer[i] \in Upward
    BY DEF Sound
  <2> QED BY <1>5, <2>1 DEF Upward, Streams
<1>9. /\ stream' = [stream EXCEPT ![s] = IF kind = "whole" THEN Spent(opened, size) ELSE opened]
      /\ toServer' = toServer \o (<<h>> \o IF kind = "whole" THEN DataFrames(s, opened, size, TRUE)
                                                             ELSE <<>>)
  <2>1. CASE kind = "whole"
    BY <1>5, <2>1 DEF Request, Sent, opened, h
  <2>2. CASE kind # "whole"
    <3>1. stream' = [stream EXCEPT ![s] = opened] /\ toServer' = toServer \o <<h>>
      BY <1>5, <2>2 DEF Request, Sent, opened, h
    <3>2. <<h>> \o <<>> = <<h>>
      BY <1>4
    <3> QED BY <2>2, <3>1, <3>2
  <2> QED BY <2>1, <2>2
<1>10. PICK st : /\ stream' = [stream EXCEPT ![s] = st]
                 /\ st.phase = "open" /\ st.kind = kind /\ st.size = size
  <2>1. PICK sp : sp = Spent(opened, size)
    OBVIOUS
  <2>2. sp.phase = "open" /\ sp.kind = kind /\ sp.size = size
    BY <1>3, <2>1 DEF Spent, Stream
  <2>3. CASE kind = "whole"
    BY <1>9, <2>1, <2>2, <2>3
  <2>4. CASE kind # "whole"
    BY <1>3, <1>9, <2>4
  <2> QED BY <2>3, <2>4
<1>11. PICK ds : ds = IF kind = "whole" THEN DataFrames(s, opened, size, TRUE) ELSE <<>>
  OBVIOUS
<1>12. \/ ds = <<>>
       \/ kind = "whole" /\ \E d \in Frame : /\ ds = <<d>> /\ d.type = "DATA" /\ d.s = s
                                             /\ d.from = 0 /\ (d.end => d.n = size)
  <2>1. PICK end \in BOOLEAN : end = TRUE
    OBVIOUS
  <2>2. ds = IF kind = "whole" THEN DataFrames(s, opened, size, end) ELSE <<>>
    BY <1>11, <2>1
  <2>3. CASE kind = "whole"
    <3>1. ds = <<>> \/ \E f \in Frame : /\ ds = <<f>> /\ f.type = "DATA" /\ f.s = s
                                        /\ f.n = Take(opened, size) /\ f.from = opened.offered
                                        /\ (f.end <=> end /\ Take(opened, size) = size)
      BY <1>1, <1>2, <1>3, <2>2, <2>3, DataFramesTypes
    <3> QED BY <1>3, <1>6, <2>3, <3>1
  <2>4. CASE kind # "whole"
    BY <2>2, <2>4
  <2> QED BY <2>3, <2>4
<1> DEFINE Opens(fs) ==
         /\ \A i \in 1 .. Len(fs) : fs[i].s = s
         /\ fs[1] = h
         /\ \/ Len(fs) = 1
            \/ kind = "whole" /\ Len(fs) = 2 /\ fs[2].type = "DATA" /\ fs[2].from = 0
               /\ (fs[2].end => fs[2].n = size)
<1>opens. \E fs \in Seq(Frame) : toServer' = toServer \o fs /\ Opens(fs)
  <2>1. CASE ds = <<>>
    <3>1. PICK fs : fs = <<h>>
      OBVIOUS
    <3>2. fs \in Seq(Frame) /\ Len(fs) = 1 /\ fs[1] = h /\ fs \o <<>> = fs
      BY <1>4, <3>1, OneFrame
    <3>3. Opens(fs)
      BY <1>4, <3>2
    <3>4. toServer' = toServer \o (fs \o ds)
      BY <1>9, <1>11, <3>1
    <3>5. toServer' = toServer \o fs
      BY <2>1, <3>2, <3>4
    <3> HIDE DEF Opens
    <3> QED BY <3>2, <3>3, <3>5
  <2>2. ASSUME NEW d \in Frame, kind = "whole", ds = <<d>>, d.type = "DATA", d.s = s,
               d.from = 0, d.end => d.n = size
        PROVE  <1>opens!:
    <3>1. PICK fs : fs = <<h>> \o <<d>>
      OBVIOUS
    <3>2. fs \in Seq(Frame) /\ Len(fs) = 2 /\ fs[1] = h /\ fs[2] = d
      BY <1>4, <3>1, TwoFrames
    <3>3. \A i \in 1 .. Len(fs) : fs[i].s = s
      BY <1>4, <2>2, <3>2
    <3>4. Opens(fs)
      BY <2>2, <3>2, <3>3
    <3>5. toServer' = toServer \o (<<h>> \o ds)
      BY <1>9, <1>11
    <3>6. toServer' = toServer \o fs
      BY <2>2, <3>1, <3>5
    <3> HIDE DEF Opens
    <3> QED BY <3>2, <3>4, <3>6
  <2> HIDE DEF Opens
  <2> QED BY <1>12, <2>1, <2>2
<1>13. PICK fs \in Seq(Frame) :
         /\ toServer' = toServer \o fs
         /\ \A i \in 1 .. Len(fs) : fs[i].s = s
         /\ fs[1] = h
         /\ \/ Len(fs) = 1
            \/ kind = "whole" /\ Len(fs) = 2 /\ fs[2].type = "DATA" /\ fs[2].from = 0
               /\ (fs[2].end => fs[2].n = size)
  <2>1. PICK fs \in Seq(Frame) : toServer' = toServer \o fs /\ Opens(fs)
    BY <1>opens
  <2> QED BY <2>1
<1>14. PICK r : r = toServer'
  OBVIOUS
<1>15. \A i \in DOMAIN r : r[i].s = s /\ r[i].type \in {"HEADERS", "DATA"} =>
         i - Len(toServer) \in 1 .. Len(fs) /\ r[i] = fs[i - Len(toServer)]
  BY <1>1, <1>8, <1>13, <1>14, ConcatPlaces
<1>16. \A i \in DOMAIN r : r[i].s = s /\ r[i].type = "DATA" =>
         /\ kind = "whole" /\ i - Len(toServer) = 2 /\ r[i] = fs[2]
         /\ r[i].from = 0 /\ (r[i].end => r[i].n = size)
  <2> SUFFICES ASSUME NEW i \in DOMAIN r, r[i].s = s, r[i].type = "DATA"
               PROVE  /\ kind = "whole" /\ i - Len(toServer) = 2 /\ r[i] = fs[2]
                      /\ r[i].from = 0 /\ (r[i].end => r[i].n = size)
    OBVIOUS
  <2>1. PICK k \in 1 .. Len(fs) : k = i - Len(toServer) /\ r[i] = fs[k]
    BY <1>15
  <2>2. k # 1
    BY <1>4, <1>13, <2>1
  <2> QED BY <1>13, <2>1, <2>2
<1>17. Uploading(s)'
  <2>1. stream'[s].phase = "open" /\ stream'[s].kind = kind /\ stream'[s].size = size
    BY <1>1, <1>10
  <2>2. CASE kind = "none"
    <3>1. NoData(r, s)
      BY <1>16, <2>2 DEF NoData, DataOf
    <3>2. Bodiless(s)'
      BY <1>5, <1>7, <1>14, <2>1, <2>2, <3>1 DEF Bodiless, Unstarted
    <3> QED BY <2>1, <2>2, <3>2 DEF Uploading
  <2>3. CASE kind = "whole"
    <3>1. OpenHeads(r, s)
      <4> SUFFICES ASSUME NEW i \in DOMAIN r, r[i].type = "HEADERS", r[i].s = s
                   PROVE  ~r[i].end
        BY DEF OpenHeads
      <4>1. PICK k \in 1 .. Len(fs) : r[i] = fs[k]
        BY <1>15
      <4>2. r[i] = h
        BY <1>13, <4>1
      <4> QED BY <1>4, <2>3, <4>2
    <3>2. OneData(r, s, size)
      <4> SUFFICES ASSUME NEW i \in DOMAIN r, DataOf(r[i], s)
                   PROVE  /\ r[i].from = 0 /\ (r[i].end => r[i].n = size)
                          /\ \A j \in DOMAIN r : DataOf(r[j], s) => i = j
        BY DEF OneData
      <4>1. DOMAIN r \subseteq Nat /\ Len(toServer) \in Nat
        BY <1>1, <1>13, <1>14, ConcatPlaces
      <4>2. ASSUME NEW j \in DOMAIN r, DataOf(r[j], s) PROVE i = j
        <5>1. i - Len(toServer) = 2 /\ j - Len(toServer) = 2
          BY <1>16, <4>2 DEF DataOf
        <5> QED BY <4>1, <5>1
      <4> QED BY <1>16, <4>2 DEF DataOf
    <3>3. InMemory(s)'
      BY <1>7, <1>14, <2>1, <3>1, <3>2 DEF InMemory, Unstarted
    <3> QED BY <2>1, <2>3, <3>3 DEF Uploading
  <2>4. CASE kind \notin {"none", "whole"}
    BY <2>1, <2>4 DEF Uploading
  <2> QED BY <2>2, <2>3, <2>4
<1>18. ASSUME NEW t \in Streams, t # s PROVE Uploading(t)'
  <2>1. Resting(t)
    BY <1>1, <1>5, <1>10, <1>18 DEF Resting
  <2>2. Carried(toServer, toServer', t)
    BY <1>1, <1>13, <1>18, CarriedAdd
  <2> QED BY <2>1, <2>2, UploadingKept DEF Upload
<1> QED BY <1>17, <1>18 DEF Upload

(* The server.                                                             *)
LEMMA ServerUpload ==
  ASSUME Upload, UNCHANGED <<stream, toServer>>,
         \A t \in Streams : /\ srv'[t].got = srv[t].got /\ (srv'[t].hole <=> srv[t].hole)
                            /\ (srv'[t].ended <=> srv[t].ended)
  PROVE  Upload'
<1>1. \A t \in Streams : Resting(t) /\ Carried(toServer, toServer', t)
  BY CarriedSame DEF Resting
<1> QED BY <1>1, UploadingKept DEF Upload

SameBody(v, w) == v.got = w.got /\ v.hole = w.hole /\ v.ended = w.ended

LEMMA ServerStreamUpload ==
  ASSUME Sound, Upload, NEW s \in Streams,
         \/ SrvCredits(s) \/ SrvResets(s)
         \/ \E a \in Answers, form \in Forms : SrvAnswers(s, a, form)
         \/ \E n \in Nat, pad \in Pads : SrvSends(s, n, pad)
  PROVE  Upload'
<1>1. srv \in [Streams -> Srv] /\ srv[s] \in Srv
  BY DEF Sound, TypeOK
<1>2. UNCHANGED <<stream, toServer>>
  BY DEF SrvCredits, SrvResets, SrvAnswers, SrvSends, clientVars
<1>3. \E v : srv' = [srv EXCEPT ![s] = v] /\ SameBody(v, srv[s])
  <2>1. CASE SrvCredits(s)
    <3>1. PICK v : v = [srv[s] EXCEPT !.recvWin = PeerWindow]
      OBVIOUS
    <3>2. srv' = [srv EXCEPT ![s] = v]
      BY <1>1, <2>1, <3>1 DEF SrvCredits
    <3>3. SameBody(v, srv[s])
      BY <1>1, <3>1 DEF Srv, SameBody
    <3> QED BY <3>2, <3>3
  <2>2. CASE SrvResets(s)
    <3>1. PICK v : v = [srv[s] EXCEPT !.reset = TRUE, !.left = 0]
      OBVIOUS
    <3>2. srv' = [srv EXCEPT ![s] = v]
      BY <1>1, <2>2, <3>1 DEF SrvResets
    <3>3. SameBody(v, srv[s])
      BY <1>1, <3>1 DEF Srv, SameBody
    <3> QED BY <3>2, <3>3
  <2>3. ASSUME NEW a \in Answers, NEW form \in Forms, SrvAnswers(s, a, form)
        PROVE  <1>3!:
    <3>1. PICK v : v = [srv[s] EXCEPT !.answered = TRUE, !.total = a, !.left = a]
      OBVIOUS
    <3>2. srv' = [srv EXCEPT ![s] = v]
      BY <1>1, <2>3, <3>1 DEF SrvAnswers
    <3>3. SameBody(v, srv[s])
      BY <1>1, <3>1 DEF Srv, SameBody
    <3> QED BY <3>2, <3>3
  <2>4. ASSUME NEW n \in Nat, NEW pad \in Pads, SrvSends(s, n, pad)
        PROVE  <1>3!:
    <3>1. PICK v : v = [srv[s] EXCEPT !.left = srv[s].left - n,
                                      !.sendWin = srv[s].sendWin - (n + pad)]
      OBVIOUS
    <3>2. srv' = [srv EXCEPT ![s] = v]
      BY <1>1, <2>4, <3>1 DEF SrvSends
    <3>3. SameBody(v, srv[s])
      BY <1>1, <3>1 DEF Srv, SameBody
    <3> QED BY <3>2, <3>3
  <2> QED BY <2>1, <2>2, <2>3, <2>4
<1>4. \A t \in Streams : /\ srv'[t].got = srv[t].got /\ (srv'[t].hole <=> srv[t].hole)
                         /\ (srv'[t].ended <=> srv[t].ended)
  BY <1>1, <1>3 DEF SameBody
<1> QED BY <1>2, <1>4, ServerUpload

(* Nothing of a body follows its frame of DATA.                            *)
LEMMA OnlyData ==
  ASSUME NEW q \in Seq(Frame), q # <<>>, NEW s, NEW size, OneData(q, s, size), DataOf(Head(q), s)
  PROVE  NoData(Tail(q), s)
<1>1. /\ \A i \in DOMAIN Tail(q) : i + 1 \in DOMAIN q /\ Tail(q)[i] = q[i + 1]
      /\ 1 \in DOMAIN q /\ q[1] = Head(q)
  BY TailPlaces
<1>2. DOMAIN Tail(q) = 1 .. Len(Tail(q))
  BY TailPlaces
<1> SUFFICES ASSUME NEW i \in DOMAIN Tail(q), DataOf(Tail(q)[i], s) PROVE FALSE
  BY DEF NoData
<1>3. i + 1 \in DOMAIN q /\ DataOf(q[i + 1], s) /\ DataOf(q[1], s)
  BY <1>1
<1>4. 1 = i + 1
  BY <1>1, <1>3 DEF OneData
<1> QED BY <1>2, <1>4

LEMMA SrvReceivesUpload ==
  ASSUME Sound, Upload, SrvReceives
  PROVE  Upload'
<1>1. srv \in [Streams -> Srv] /\ stream \in [Streams -> Stream] /\ toServer \in Seq(Frame)
  BY DEF Sound, TypeOK
<1>2. PICK f \in Frame :
        /\ f = Head(toServer) /\ toServer # <<>> /\ toServer' = Tail(toServer)
        /\ f.s # 0 => stream[f.s].phase # "idle"
        /\ UNCHANGED <<clientVars, toClient, faults>>
        /\ GotHeaders(f) \/ GotData(f) \/ GotReset(f) \/ GotConnUpdate(f) \/ GotUpdate(f)
  BY SrvReceivesDoes
<1>3. UNCHANGED stream
  BY <1>2 DEF clientVars
<1>4. \A t : Carried(toServer, toServer', t)
  BY <1>1, <1>2, CarriedTail
<1>5. 1 \in DOMAIN toServer /\ toServer[1] = f
  BY <1>1, <1>2, TailPlaces
<1> SUFFICES ASSUME NEW t \in Streams PROVE Uploading(t)'
  BY DEF Upload
<1>6. Uploading(t)
  BY DEF Upload
<1>7. CASE f.s # t \/ f.type \notin {"HEADERS", "DATA"}
  <2>1. /\ srv'[t].got = srv[t].got /\ (srv'[t].hole <=> srv[t].hole)
        /\ (srv'[t].ended <=> srv[t].ended)
    <3>1. CASE f.s # t
      BY <1>1, <1>2, <3>1 DEF GotHeaders, GotData, GotReset, GotConnUpdate, GotUpdate
    <3>2. CASE f.type \notin {"HEADERS", "DATA"}
      <4>1. GotReset(f) \/ GotConnUpdate(f) \/ GotUpdate(f)
        BY <1>2, <3>2 DEF GotHeaders, GotData
      <4>2. srv[t] \in Srv
        BY <1>1
      <4>3. CASE GotReset(f)
        <5>1. PICK v : v = [srv[f.s] EXCEPT !.reset = TRUE, !.left = 0]
          OBVIOUS
        <5>2. srv' = [srv EXCEPT ![f.s] = v]
          BY <4>3, <5>1 DEF GotReset
        <5>3. f.s = t => SameBody(v, srv[t])
          BY <4>2, <5>1 DEF Srv, SameBody
        <5> QED BY <1>1, <5>2, <5>3 DEF SameBody
      <4>4. CASE GotConnUpdate(f)
        BY <4>4 DEF GotConnUpdate
      <4>5. CASE GotUpdate(f)
        <5>1. PICK v : v = [srv[f.s] EXCEPT !.sendWin = srv[f.s].sendWin + f.n]
          OBVIOUS
        <5>2. srv' = [srv EXCEPT ![f.s] = v]
          BY <4>5, <5>1 DEF GotUpdate
        <5>3. f.s = t => SameBody(v, srv[t])
          BY <4>2, <5>1 DEF Srv, SameBody
        <5> QED BY <1>1, <5>2, <5>3 DEF SameBody
      <4> QED BY <4>1, <4>3, <4>4, <4>5
    <3> QED BY <1>7, <3>1, <3>2
  <2>2. Resting(t)
    BY <1>3, <2>1 DEF Resting
  <2> QED BY <1>4, <1>6, <2>2, UploadingKept
<1>8. CASE f.s = t /\ f.type = "HEADERS"
  <2>1. stream[t].phase # "idle"
    BY <1>2, <1>8 DEF Streams
  <2>2. GotHeaders(f)
    BY <1>2, <1>8 DEF GotData, GotReset, GotConnUpdate, GotUpdate
  <2>3. /\ srv'[t].got = srv[t].got /\ (srv'[t].hole <=> srv[t].hole)
        /\ (srv'[t].ended <=> f.end)
    BY <1>1, <1>8, <2>2 DEF GotHeaders, Srv
  <2>4. CASE stream[t].kind = "none"
    <3>1. Bodiless(t)'
      BY <1>3, <1>4, <1>6, <2>1, <2>3, <2>4 DEF Uploading, Bodiless, Carried
    <3> QED BY <1>3, <2>1, <2>4, <3>1 DEF Uploading
  <2>5. CASE stream[t].kind = "whole"
    <3>1. InMemory(t)
      BY <1>6, <2>1, <2>5 DEF Uploading
    <3>2. ~f.end
      BY <1>5, <1>8, <3>1 DEF InMemory, OpenHeads
    <3>3. Unstarted(t) => Unstarted(t)'
      BY <2>3, <3>2 DEF Unstarted
    <3>4. InMemory(t)'
      BY <1>3, <1>4, <2>3, <3>1, <3>2, <3>3 DEF InMemory, Carried
    <3> QED BY <1>3, <2>1, <2>5, <3>4 DEF Uploading
  <2>6. CASE stream[t].kind \notin {"none", "whole"}
    BY <1>3, <2>1, <2>6 DEF Uploading
  <2> QED BY <2>4, <2>5, <2>6
<1>9. CASE f.s = t /\ f.type = "DATA"
  <2>1. stream[t].phase # "idle"
    BY <1>2, <1>9 DEF Streams
  <2>2. DataOf(f, t)
    BY <1>9 DEF DataOf
  <2>3. CASE stream[t].kind = "none"
    <3>1. NoData(toServer, t)
      BY <1>6, <2>1, <2>3 DEF Uploading, Bodiless
    <3> QED BY <1>5, <2>2, <3>1 DEF NoData
  <2>4. CASE stream[t].kind = "whole"
    <3>1. InMemory(t)
      BY <1>6, <2>1, <2>4 DEF Uploading
    <3>2. /\ OneData(toServer, t, stream[t].size) /\ OpenHeads(toServer, t)
          /\ Unstarted(t)
      BY <1>5, <2>2, <3>1 DEF InMemory, NoData
    <3>3. f.from = 0 /\ (f.end => f.n = stream[t].size)
      BY <1>5, <2>2, <3>2 DEF OneData
    <3>4. NoData(toServer', t)
      BY <1>1, <1>2, <2>2, <3>2, OnlyData
    <3>5. OpenHeads(toServer', t) /\ OneData(toServer', t, stream[t].size)
      BY <1>4, <3>2 DEF Carried
    <3>6. GotData(f)
      BY <1>2, <1>9 DEF GotHeaders, GotReset, GotConnUpdate, GotUpdate
    <3>7. srv'[t].got = f.n /\ ~srv'[t].hole /\ (srv'[t].ended <=> f.end)
      <4>1. PICK end \in BOOLEAN, hole \in BOOLEAN, got \in Nat :
              /\ end <=> srv[f.s].ended \/ f.end
              /\ hole <=> srv[f.s].hole \/ (f.n > 0 /\ f.from # srv[f.s].got)
              /\ got = IF f.from = srv[f.s].got THEN srv[f.s].got + f.n ELSE srv[f.s].got
              /\ srv' = [srv EXCEPT ![f.s] = [srv[f.s] EXCEPT !.recvWin = srv[f.s].recvWin - f.n,
                                                !.ended = end, !.hole = hole, !.got = got]]
        BY <3>6 DEF GotData
      <4>2. srv[t].got = 0 /\ ~srv[t].hole /\ ~srv[t].ended /\ f.n \in Nat
        BY <3>2, FrameTypes DEF Unstarted
      <4>3. got = f.n /\ ~hole /\ (end <=> f.end)
        BY <1>9, <3>3, <4>1, <4>2
      <4>4. srv'[t].got = got /\ srv'[t].hole = hole /\ srv'[t].ended = end
        BY <1>1, <1>9, <4>1 DEF Srv
      <4> QED BY <4>3, <4>4
    <3>8. InMemory(t)'
      BY <1>3, <3>3, <3>4, <3>5, <3>7 DEF InMemory
    <3> QED BY <1>3, <2>1, <2>4, <3>8 DEF Uploading
  <2>5. CASE stream[t].kind \notin {"none", "whole"}
    BY <1>3, <2>1, <2>5 DEF Uploading
  <2> QED BY <2>3, <2>4, <2>5
<1> QED BY <1>7, <1>8, <1>9

LEMMA UploadInit == Init => Upload
BY DEF Init, Upload, Uploading, Unstarted

LEMMA UploadStep ==
  ASSUME Sound, Upload, [Next]_vars
  PROVE  Upload'
<1>1. CASE Caller
  <2>1. ASSUME NEW s \in Streams, NEW k \in Kinds, NEW b \in Bodies, Request(s, k, b)
        PROVE  Upload'
    BY <2>1, RequestUpload
  <2>2. ASSUME NEW s \in Streams, NEW b \in Bodies, NEW n \in 1 .. b, Write(s, n)
        PROVE  Upload'
    <3>1. n \in Nat
      OBVIOUS
    <3> QED BY <2>2, <3>1, BodyUpload
  <2> QED BY <1>1, <2>1, <2>2, BodyUpload, CancelUpload, EndUpload DEF Caller
<1>2. CASE Dispatch
  <2>1. ASSUME OnBad PROVE Upload'
    BY <2>1, EndUpload DEF OnBad
  <2> QED BY <1>2, <2>1, OnHeadersUpload, OnDataUpload, OnUnknownUpload, OthersUpload DEF Dispatch
<1>3. CASE Server
  <2>1. ASSUME NEW s \in Streams, NEW n \in 1 .. srv[s].left, NEW pad \in Pads, SrvSends(s, n, pad)
        PROVE  Upload'
    <3>1. n \in Nat
      OBVIOUS
    <3> QED BY <2>1, <3>1, ServerStreamUpload
  <2>2. CASE SrvGoaway \/ SrvMalformed
    <3>1. UNCHANGED <<stream, toServer, srv>>
      BY <2>2 DEF SrvGoaway, SrvMalformed, clientVars
    <3> QED BY <3>1, ServerUpload
  <2> QED BY <1>3, <2>1, <2>2, SrvReceivesUpload, ServerStreamUpload DEF Server
<1>4. CASE UNCHANGED vars
  <2>1. UNCHANGED <<stream, toServer, srv>>
    BY <1>4 DEF vars
  <2> QED BY <2>1, ServerUpload
<1> QED BY <1>1, <1>2, <1>3, <1>4 DEF Next

(* A request body held in memory has reached the server whole, from its    *)
(* beginning and without a hole, when END_STREAM does; a body that did not *)
(* fit the windows is never ended (session.js 341-370).                    *)
THEOREM BodiesWhole == Spec => []WholeBody
<1>1. Init => Sound /\ Upload
  BY InitSound, UploadInit
<1>2. Sound /\ Upload /\ [Next]_vars => (Sound /\ Upload)'
  BY SoundStep, UploadStep
<1>3. Sound /\ Upload => WholeBody
  <2> SUFFICES ASSUME Sound, Upload, NEW s \in Streams, srv[s].ended, stream[s].kind # "stream"
               PROVE  srv[s].got = stream[s].size /\ ~srv[s].hole
    BY DEF WholeBody
  <2>1. stream[s].kind \in {"none", "whole"}
    BY H2Assumption DEF Sound, TypeOK, Stream
  <2>2. stream[s].phase # "idle"
    BY DEF Upload, Uploading, Unstarted
  <2> QED BY <2>1, <2>2 DEF Upload, Uploading, Bodiless, InMemory
<1> QED BY <1>1, <1>2, <1>3, PTL DEF Spec

-----------------------------------------------------------------------------
(***************************************************************************)
(* The header decoder.  As long as no request was cancelled, every header  *)
(* block comes to a stream that is still in the map, in the order of the   *)
(* blocks, so that none is decoded out of turn.                            *)
(***************************************************************************)
HeadFrame(f) == f.type \in {"HEADERS", "CONTINUATION"}

(* The block ends, or the stream does.                                     *)
Completes(f) == f.type = "CONTINUATION" \/ (f.type = "HEADERS" /\ f.fin)
Closes(f) ==
  \/ f.type \in {"RST_STREAM", "CONTINUATION"}
  \/ f.type = "DATA" /\ f.end
  \/ f.type = "HEADERS" /\ f.fin /\ f.end

(* The blocks that end in a queue are those after d, up to b, in order.    *)
Numbered(q, d, b) ==
  /\ d <= b
  /\ \A i \in DOMAIN q : Completes(q[i]) => d < q[i].block /\ q[i].block <= b
  /\ \A i, j \in DOMAIN q :
       i < j /\ Completes(q[i]) /\ Completes(q[j]) => q[i].block < q[j].block
  /\ \A n \in Nat : d < n /\ n <= b => \E i \in DOMAIN q : Completes(q[i]) /\ q[i].block = n

(* No part of a block follows what closes its stream.                      *)
HeadsFirst(q) ==
  \A i, j \in DOMAIN q : i < j /\ q[i].s = q[j].s /\ HeadFrame(q[j]) => ~Closes(q[i])

(* What is on its way was sent by the server's side of its stream.         *)
Reported(f) ==
  /\ HeadFrame(f) => stream[f.s].phase = "open"
  /\ f.type \in {"HEADERS", "CONTINUATION", "DATA"} => srv[f.s].answered
  /\ f.type = "RST_STREAM" => srv[f.s].reset

Decoder ==
  /\ Numbered(toClient, sess.decoded, srvConn.blocks)
  /\ HeadsFirst(toClient)
  /\ \A i \in DOMAIN toClient : Reported(toClient[i])
  /\ \A s \in Streams : stream[s].phase = "gone" => srv[s].answered \/ srv[s].reset

Cancelled == \E s \in Streams : heard[s].outcome = "cancelled"

Decoding ==
  ~Cancelled => /\ \A s \in Streams : ~heard[s].garbled
                /\ ~sess.destroyed => Decoder

LEMMA NumberedTail ==
  ASSUME NEW q \in Seq(Frame), q # <<>>, NEW d \in Nat, NEW b \in Nat, Numbered(q, d, b)
  PROVE  IF Completes(Head(q))
           THEN Head(q).block = d + 1 /\ Numbered(Tail(q), d + 1, b)
           ELSE Numbered(Tail(q), d, b)
<1> DEFINE r == Tail(q)
<1>1. /\ \A i \in DOMAIN r : i + 1 \in DOMAIN q /\ r[i] = q[i + 1]
      /\ 1 \in DOMAIN q /\ q[1] = Head(q) /\ q[1] \in Frame
  BY TailPlaces
<1>2. /\ \A i \in DOMAIN r : i \in Nat /\ i > 0
      /\ \A i \in DOMAIN q : i \in Nat /\ (i = 1 \/ (i > 1 /\ i - 1 \in DOMAIN r))
  <2>1. Len(q) \in Nat /\ DOMAIN q = 1 .. Len(q) /\ DOMAIN r = 1 .. (Len(q) - 1)
    OBVIOUS
  <2> QED BY <2>1
<1>3. /\ \A i \in DOMAIN q : q[i] \in Frame
      /\ \A i \in DOMAIN q : q[i].block \in Nat
  <2>1. \A i \in DOMAIN q : q[i] \in Frame
    OBVIOUS
  <2> QED BY <2>1, FrameTypes DEF Frame
<1> HIDE DEF r
<1>4. \A i, j \in DOMAIN r :
        i < j /\ Completes(r[i]) /\ Completes(r[j]) => r[i].block < r[j].block
  <2> SUFFICES ASSUME NEW i \in DOMAIN r, NEW j \in DOMAIN r, i < j, Completes(r[i]), Completes(r[j])
               PROVE  r[i].block < r[j].block
    OBVIOUS
  <2>1. i + 1 \in DOMAIN q /\ j + 1 \in DOMAIN q /\ r[i] = q[i + 1] /\ r[j] = q[j + 1] /\ i + 1 < j + 1
    BY <1>1, <1>2
  <2> QED BY <2>1 DEF Numbered
<1>5. CASE Completes(Head(q))
  <2>1. d + 1 \in Nat /\ d < q[1].block /\ q[1].block <= b /\ q[1].block \in Nat
    BY <1>1, <1>3, <1>5 DEF Numbered
  <2>2. d + 1 <= b
    BY <2>1
  <2>3. PICK i \in DOMAIN q : Completes(q[i]) /\ q[i].block = d + 1
    <3>1. d < d + 1
      OBVIOUS
    <3> QED BY <2>1, <2>2, <3>1 DEF Numbered
  <2>4. q[1].block = d + 1
    <3>1. CASE i = 1
      BY <2>3, <3>1
    <3>2. CASE i # 1
      <4>1. 1 < i
        BY <1>2, <3>2
      <4>2. q[1].block < d + 1
        BY <1>1, <1>5, <2>3, <4>1 DEF Numbered
      <4> QED BY <2>1, <4>2
    <3> QED BY <3>1, <3>2
  <2>5. \A k \in DOMAIN r : Completes(r[k]) => d + 1 < r[k].block /\ r[k].block <= b
    <3> SUFFICES ASSUME NEW k \in DOMAIN r, Completes(r[k])
                 PROVE  d + 1 < r[k].block /\ r[k].block <= b
      OBVIOUS
    <3>1. k + 1 \in DOMAIN q /\ r[k] = q[k + 1] /\ 1 < k + 1
      BY <1>1, <1>2
    <3>2. q[1].block < q[k + 1].block /\ q[k + 1].block <= b
      BY <1>1, <1>5, <3>1 DEF Numbered
    <3> QED BY <2>4, <3>1, <3>2
  <2>6. \A n \in Nat : d + 1 < n /\ n <= b => \E k \in DOMAIN r : Completes(r[k]) /\ r[k].block = n
    <3> SUFFICES ASSUME NEW n \in Nat, d + 1 < n, n <= b
                 PROVE  \E k \in DOMAIN r : Completes(r[k]) /\ r[k].block = n
      OBVIOUS
    <3>1. d < n
      OBVIOUS
    <3>2. PICK k \in DOMAIN q : Completes(q[k]) /\ q[k].block = n
      BY <3>1 DEF Numbered
    <3>3. k # 1
      BY <2>4, <3>2
    <3>4. PICK m \in DOMAIN r : m = k - 1
      BY <1>2, <3>3
    <3>5. m + 1 = k
      BY <1>2, <3>4
    <3>6. r[m] = q[k]
      BY <1>1, <3>5
    <3> QED BY <3>2, <3>6
  <2>7. Numbered(r, d + 1, b)
    BY <1>4, <2>2, <2>5, <2>6 DEF Numbered
  <2> QED BY <1>1, <1>5, <2>4, <2>7 DEF r
<1>6. CASE ~Completes(Head(q))
  <2>1. \A k \in DOMAIN r : Completes(r[k]) => d < r[k].block /\ r[k].block <= b
    BY <1>1 DEF Numbered
  <2>2. \A n \in Nat : d < n /\ n <= b => \E k \in DOMAIN r : Completes(r[k]) /\ r[k].block = n
    <3> SUFFICES ASSUME NEW n \in Nat, d < n, n <= b
                 PROVE  \E k \in DOMAIN r : Completes(r[k]) /\ r[k].block = n
      OBVIOUS
    <3>1. PICK k \in DOMAIN q : Completes(q[k]) /\ q[k].block = n
      BY DEF Numbered
    <3>2. k # 1
      BY <1>1, <1>6, <3>1
    <3>3. PICK m \in DOMAIN r : m = k - 1
      BY <1>2, <3>2
    <3>4. m + 1 = k
      BY <1>2, <3>3
    <3>5. r[m] = q[k]
      BY <1>1, <3>4
    <3> QED BY <3>1, <3>5
  <2>3. Numbered(r, d, b)
    BY <1>4, <2>1, <2>2 DEF Numbered
  <2> QED BY <1>6, <2>3 DEF r
<1> QED BY <1>5, <1>6

LEMMA NumberedAdd ==
  ASSUME NEW q \in Seq(Frame), NEW fs \in Seq(Frame), NEW d \in Nat, NEW b \in Nat, NEW c \in Nat,
         Numbered(q, d, b), Numbered(fs, b, c)
  PROVE  Numbered(q \o fs, d, c)
<1> DEFINE r == q \o fs
           n == Len(q)
<1>1. /\ DOMAIN q = 1 .. n /\ n \in Nat /\ DOMAIN r \subseteq Nat
      /\ \A i \in DOMAIN q : i \in DOMAIN r /\ r[i] = q[i]
      /\ \A i \in DOMAIN r : \/ i \in DOMAIN q /\ r[i] = q[i]
                             \/ i > n /\ i - n \in DOMAIN fs /\ r[i] = fs[i - n]
  <2>1. DOMAIN fs = 1 .. Len(fs)
    OBVIOUS
  <2> QED BY <2>1, ConcatPlaces
<1>2. \A k \in DOMAIN fs : k + n \in DOMAIN r /\ r[k + n] = fs[k]
  <2>1. /\ r \in Seq(Frame) /\ Len(r) = n + Len(fs)
        /\ \A i \in 1 .. n + Len(fs) : r[i] = IF i <= n THEN q[i] ELSE fs[i - n]
    BY ConcatProperties
  <2>2. Len(fs) \in Nat /\ DOMAIN fs = 1 .. Len(fs) /\ DOMAIN r = 1 .. n + Len(fs)
    BY <2>1
  <2> SUFFICES ASSUME NEW k \in DOMAIN fs PROVE k + n \in DOMAIN r /\ r[k + n] = fs[k]
    OBVIOUS
  <2>3. k + n \in 1 .. n + Len(fs) /\ ~(k + n <= n) /\ (k + n) - n = k
    BY <1>1, <2>2
  <2> QED BY <2>1, <2>2, <2>3
<1>3. /\ d <= b /\ b <= c
      /\ \A i \in DOMAIN q : q[i].block \in Nat
      /\ \A i \in DOMAIN fs : fs[i].block \in Nat
  <2>1. /\ \A i \in DOMAIN q : q[i] \in Frame
        /\ \A i \in DOMAIN fs : fs[i] \in Frame
    OBVIOUS
  <2> QED BY <2>1 DEF Numbered, Frame
<1> HIDE DEF r, n
<1>4. \A i \in DOMAIN r : Completes(r[i]) => d < r[i].block /\ r[i].block <= c
  <2> SUFFICES ASSUME NEW i \in DOMAIN r, Completes(r[i]) PROVE d < r[i].block /\ r[i].block <= c
    OBVIOUS
  <2>1. CASE i \in DOMAIN q /\ r[i] = q[i]
    <3>1. d < q[i].block /\ q[i].block <= b
      BY <2>1 DEF Numbered
    <3> QED BY <1>3, <2>1, <3>1
  <2>2. CASE i > n /\ i - n \in DOMAIN fs /\ r[i] = fs[i - n]
    <3>1. b < fs[i - n].block /\ fs[i - n].block <= c
      BY <2>2 DEF Numbered
    <3> QED BY <1>3, <2>2, <3>1
  <2> QED BY <1>1, <2>1, <2>2
<1>5. \A i, j \in DOMAIN r :
        i < j /\ Completes(r[i]) /\ Completes(r[j]) => r[i].block < r[j].block
  <2> SUFFICES ASSUME NEW i \in DOMAIN r, NEW j \in DOMAIN r, i < j, Completes(r[i]), Completes(r[j])
               PROVE  r[i].block < r[j].block
    OBVIOUS
  <2>1. CASE i \in DOMAIN q /\ r[i] = q[i] /\ j \in DOMAIN q /\ r[j] = q[j]
    BY <2>1 DEF Numbered
  <2>2. CASE /\ i \in DOMAIN q /\ r[i] = q[i]
             /\ j - n \in DOMAIN fs /\ r[j] = fs[j - n]
    <3>1. q[i].block <= b /\ b < fs[j - n].block
      BY <2>2 DEF Numbered
    <3> QED BY <1>3, <2>2, <3>1
  <2>3. CASE /\ i - n \in DOMAIN fs /\ r[i] = fs[i - n]
             /\ j - n \in DOMAIN fs /\ r[j] = fs[j - n]
    <3>1. i - n < j - n
      BY <1>1
    <3> QED BY <2>3, <3>1 DEF Numbered
  <2>4. CASE i > n /\ j \in DOMAIN q
    BY <1>1, <2>4
  <2> QED BY <1>1, <2>1, <2>2, <2>3, <2>4
<1>6. \A m \in Nat : d < m /\ m <= c => \E i \in DOMAIN r : Completes(r[i]) /\ r[i].block = m
  <2> SUFFICES ASSUME NEW m \in Nat, d < m, m <= c
               PROVE  \E i \in DOMAIN r : Completes(r[i]) /\ r[i].block = m
    OBVIOUS
  <2>1. CASE m <= b
    <3>1. PICK i \in DOMAIN q : Completes(q[i]) /\ q[i].block = m
      BY <2>1 DEF Numbered
    <3> QED BY <1>1, <3>1
  <2>2. CASE b < m
    <3>1. PICK k \in DOMAIN fs : Completes(fs[k]) /\ fs[k].block = m
      BY <2>2 DEF Numbered
    <3> QED BY <1>2, <3>1
  <2> QED BY <2>1, <2>2
<1>7. d <= c
  BY <1>3
<1>8. Numbered(r, d, c)
  BY <1>4, <1>5, <1>6, <1>7 DEF Numbered
<1> QED BY <1>8 DEF r

(* Frames that complete no block.                                          *)
LEMMA NumberedNone ==
  ASSUME NEW fs \in Seq(Frame), NEW b \in Nat, \A i \in DOMAIN fs : ~Completes(fs[i])
  PROVE  Numbered(fs, b, b)
<1>1. \A n \in Nat : ~(b < n /\ n <= b)
  OBVIOUS
<1> QED BY <1>1 DEF Numbered

LEMMA HeadsFirstTail ==
  ASSUME NEW q \in Seq(Frame), q # <<>>, HeadsFirst(q)
  PROVE  /\ HeadsFirst(Tail(q))
         /\ Closes(Head(q)) =>
              \A i \in DOMAIN Tail(q) : HeadFrame(Tail(q)[i]) => Tail(q)[i].s # Head(q).s
<1> DEFINE r == Tail(q)
<1>1. /\ \A i \in DOMAIN r : i + 1 \in DOMAIN q /\ r[i] = q[i + 1]
      /\ 1 \in DOMAIN q /\ q[1] = Head(q)
  BY TailPlaces
<1>2. \A i \in DOMAIN r : i \in Nat /\ 1 < i + 1
  <2>1. DOMAIN r = 1 .. (Len(q) - 1) /\ Len(q) \in Nat
    OBVIOUS
  <2> QED BY <2>1
<1> HIDE DEF r
<1>3. HeadsFirst(r)
  <2> SUFFICES ASSUME NEW i \in DOMAIN r, NEW j \in DOMAIN r, i < j, r[i].s = r[j].s, HeadFrame(r[j])
               PROVE  ~Closes(r[i])
    BY DEF HeadsFirst
  <2>1. i + 1 \in DOMAIN q /\ j + 1 \in DOMAIN q /\ r[i] = q[i + 1] /\ r[j] = q[j + 1] /\ i + 1 < j + 1
    BY <1>1, <1>2
  <2> QED BY <2>1 DEF HeadsFirst
<1>4. ASSUME Closes(Head(q)), NEW i \in DOMAIN r, HeadFrame(r[i])
      PROVE  r[i].s # Head(q).s
  BY <1>1, <1>2, <1>4 DEF HeadsFirst
<1> QED BY <1>3, <1>4 DEF r

LEMMA HeadsFirstAdd ==
  ASSUME NEW q \in Seq(Frame), NEW fs \in Seq(Frame), HeadsFirst(q), HeadsFirst(fs),
         \A i \in DOMAIN q, j \in DOMAIN fs : q[i].s = fs[j].s /\ HeadFrame(fs[j]) => ~Closes(q[i])
  PROVE  HeadsFirst(q \o fs)
<1> DEFINE r == q \o fs
           n == Len(q)
<1>1. /\ DOMAIN q = 1 .. n /\ n \in Nat /\ DOMAIN r \subseteq Nat
      /\ \A i \in DOMAIN r : \/ i \in DOMAIN q /\ r[i] = q[i]
                             \/ i > n /\ i - n \in DOMAIN fs /\ r[i] = fs[i - n]
  <2>1. DOMAIN fs = 1 .. Len(fs)
    OBVIOUS
  <2> QED BY <2>1, ConcatPlaces
<1> HIDE DEF r, n
<1> SUFFICES ASSUME NEW i \in DOMAIN r, NEW j \in DOMAIN r, i < j, r[i].s = r[j].s, HeadFrame(r[j])
             PROVE  ~Closes(r[i])
  BY DEF HeadsFirst, r
<1>2. CASE i \in DOMAIN q /\ r[i] = q[i] /\ j \in DOMAIN q /\ r[j] = q[j]
  BY <1>2 DEF HeadsFirst
<1>3. CASE i \in DOMAIN q /\ r[i] = q[i] /\ j - n \in DOMAIN fs /\ r[j] = fs[j - n]
  BY <1>3
<1>4. CASE i - n \in DOMAIN fs /\ r[i] = fs[i - n] /\ j - n \in DOMAIN fs /\ r[j] = fs[j - n]
  <2>1. i - n < j - n
    BY <1>1
  <2> QED BY <1>4, <2>1 DEF HeadsFirst
<1>5. CASE i > n /\ j \in DOMAIN q
  BY <1>1, <1>5
<1> QED BY <1>1, <1>2, <1>3, <1>4, <1>5

LEMMA DecodingStays ==
  ASSUME Decoding, Cancelled => Cancelled',
         ~Cancelled' =>
           /\ \A s \in Streams : heard'[s].garbled => heard[s].garbled
           /\ ~sess'.destroyed => ~sess.destroyed /\ (Decoder => Decoder')
  PROVE  Decoding'
BY DEF Decoding

LEMMA Amount ==
  ASSUME Sound
  PROVE  /\ sess.decoded \in Nat /\ srvConn.blocks \in Nat
         /\ toClient \in Seq(Frame) /\ \A i \in DOMAIN toClient : toClient[i] \in Downward
BY DEF Sound, TypeOK, Session, SrvConn

(* A frame is taken.                                                       *)
LEMMA DecoderTaken ==
  ASSUME Sound, Decoder, NEW f, toClient # <<>>, f = Head(toClient), toClient' = Tail(toClient),
         UNCHANGED serverVars,
         sess'.decoded = sess.decoded + (IF Completes(f) THEN 1 ELSE 0),
         \A t \in Streams : stream[t].phase = "open" =>
            stream'[t].phase = "open" \/ (t = f.s /\ Closes(f)),
         \A t \in Streams : stream'[t].phase = "gone" =>
            \/ stream[t].phase = "gone"
            \/ t = f.s /\ f.type \in {"HEADERS", "CONTINUATION", "DATA", "RST_STREAM"}
  PROVE  Decoder'
<1>1. UNCHANGED <<srv, srvConn>>
  BY DEF serverVars
<1>2. PICK q \in Seq(Frame) : q = toClient
  BY Amount
<1>3. PICK r : r = Tail(q)
  OBVIOUS
<1>4. \A i \in DOMAIN r : r[i] \in Downward /\ Reported(r[i])
  <2>1. \A i \in DOMAIN r : i + 1 \in DOMAIN q /\ r[i] = q[i + 1]
    BY <1>2, <1>3, TailPlaces
  <2> QED BY <1>2, <2>1, Amount DEF Decoder
<1>5. Reported(f)
  <2>1. 1 \in DOMAIN q /\ q[1] = f
    BY <1>2, TailPlaces
  <2> QED BY <1>2, <2>1 DEF Decoder
<1>6. Numbered(r, sess'.decoded, srvConn.blocks)
  <2>1. sess.decoded \in Nat /\ srvConn.blocks \in Nat /\ Numbered(q, sess.decoded, srvConn.blocks)
    BY <1>2, Amount DEF Decoder
  <2>2. CASE Completes(f)
    BY <1>2, <1>3, <2>1, <2>2, NumberedTail
  <2>3. CASE ~Completes(f)
    <3>1. sess'.decoded = sess.decoded
      BY <2>1, <2>3
    <3> QED BY <1>2, <1>3, <2>1, <2>3, <3>1, NumberedTail
  <2> QED BY <2>2, <2>3
<1>7. /\ HeadsFirst(r)
      /\ Closes(f) => \A i \in DOMAIN r : HeadFrame(r[i]) => r[i].s # f.s
  BY <1>2, <1>3, HeadsFirstTail DEF Decoder
<1>8. ASSUME NEW i \in DOMAIN r
      PROVE  Reported(r[i])'
  <2>1. HeadFrame(r[i]) => r[i].s \in Streams
    BY <1>4, FrameTypes DEF Downward, HeadFrame, Streams
  <2>2. HeadFrame(r[i]) => stream'[r[i].s].phase = "open"
    BY <1>4, <1>7, <2>1 DEF Reported
  <2> QED BY <1>1, <1>4, <2>2 DEF Reported
<1>9. ASSUME NEW t \in Streams, stream'[t].phase = "gone"
      PROVE  srv[t].answered \/ srv[t].reset
  <2>1. CASE stream[t].phase = "gone"
    BY <2>1 DEF Decoder
  <2>2. CASE t = f.s /\ f.type \in {"HEADERS", "CONTINUATION", "DATA", "RST_STREAM"}
    BY <1>5, <2>2 DEF Reported
  <2> QED BY <1>9, <2>1, <2>2
<1>10. toClient' = r
  BY <1>2, <1>3
<1> QED BY <1>1, <1>6, <1>7, <1>8, <1>9, <1>10 DEF Decoder

(* Frames are added.                                                       *)
LEMMA DecoderAdded ==
  ASSUME Sound, Decoder, NEW fs \in Seq(Frame), toClient' = toClient \o fs,
         UNCHANGED clientVars, srvConn'.blocks \in Nat,
         Numbered(fs, srvConn.blocks, srvConn'.blocks), HeadsFirst(fs),
         \A i \in DOMAIN toClient, j \in DOMAIN fs :
            toClient[i].s = fs[j].s /\ HeadFrame(fs[j]) => ~Closes(toClient[i]),
         \A t \in Streams : /\ srv[t].answered => srv'[t].answered
                            /\ srv[t].reset => srv'[t].reset,
         \A i \in 1 .. Len(fs) : Reported(fs[i])'
  PROVE  Decoder'
<1>1. UNCHANGED <<stream, sess>>
  BY DEF clientVars
<1>2. PICK q \in Seq(Frame) : q = toClient
  BY Amount
<1>3. PICK r : r = toClient'
  OBVIOUS
<1>4. Numbered(r, sess.decoded, srvConn'.blocks)
  <2>1. sess.decoded \in Nat /\ srvConn.blocks \in Nat /\ Numbered(q, sess.decoded, srvConn.blocks)
    BY <1>2, Amount DEF Decoder
  <2> QED BY <1>2, <1>3, <2>1, NumberedAdd
<1>5. HeadsFirst(r)
  BY <1>2, <1>3, HeadsFirstAdd DEF Decoder
<1>6. ASSUME NEW i \in DOMAIN q PROVE Reported(q[i])'
  <2>1. q[i] \in Downward /\ Reported(q[i])
    BY <1>2, Amount DEF Decoder
  <2>2. q[i].type \in {"HEADERS", "CONTINUATION", "DATA", "RST_STREAM"} => q[i].s \in Streams
    BY <2>1, FrameTypes DEF Downward, Streams
  <2> QED BY <1>1, <2>1, <2>2 DEF Reported, HeadFrame
<1>7. ASSUME NEW i \in DOMAIN r PROVE Reported(r[i])'
  <2>1. \/ i \in DOMAIN q /\ r[i] = q[i]
        \/ i - Len(q) \in 1 .. Len(fs) /\ r[i] = fs[i - Len(q)]
    BY <1>2, <1>3, ConcatPlaces
  <2> QED BY <1>6, <2>1
<1>8. ASSUME NEW t \in Streams, stream'[t].phase = "gone"
      PROVE  srv'[t].answered \/ srv'[t].reset
  BY <1>1, <1>8 DEF Decoder
<1> QED BY <1>1, <1>3, <1>4, <1>5, <1>7, <1>8 DEF Decoder

(* Frames of no header block are added.                                    *)
LEMMA DecoderFed ==
  ASSUME Sound, Decoding, NEW fs \in Seq(Frame), toClient' = toClient \o fs,
         UNCHANGED clientVars, srvConn'.blocks = srvConn.blocks,
         \A t \in Streams : /\ srv[t].answered => srv'[t].answered
                            /\ srv[t].reset => srv'[t].reset,
         \A i \in 1 .. Len(fs) : ~HeadFrame(fs[i]) /\ Reported(fs[i])'
  PROVE  Decoding'
<1>1. DOMAIN fs = 1 .. Len(fs)
  OBVIOUS
<1>2. \A i \in DOMAIN fs : ~HeadFrame(fs[i]) /\ ~Completes(fs[i])
  BY <1>1 DEF HeadFrame, Completes
<1>3. srvConn.blocks \in Nat
  BY Amount
<1>4. Numbered(fs, srvConn.blocks, srvConn.blocks) /\ HeadsFirst(fs)
  BY <1>2, <1>3, NumberedNone DEF HeadsFirst
<1>5. Decoder => Decoder'
  BY <1>2, <1>3, <1>4, DecoderAdded
<1>6. UNCHANGED <<heard, sess>>
  BY DEF clientVars
<1> QED BY <1>5, <1>6, DecodingStays DEF Cancelled

(* The queue is left as it is.                                             *)
LEMMA DecoderKept ==
  ASSUME Sound, Decoder, UNCHANGED toClient,
         sess'.decoded = sess.decoded, srvConn'.blocks = srvConn.blocks,
         \A t \in Streams : /\ stream[t].phase = "open" => stream'[t].phase = "open"
                            /\ stream'[t].phase = "gone" => stream[t].phase = "gone"
                            /\ srv[t].answered => srv'[t].answered
                            /\ srv[t].reset => srv'[t].reset
  PROVE  Decoder'
<1>1. PICK q : q = toClient
  OBVIOUS
<1>2. ASSUME NEW i \in DOMAIN q PROVE Reported(q[i])'
  <2>1. q[i] \in Downward /\ Reported(q[i])
    BY <1>1, Amount DEF Decoder
  <2>2. q[i].type \in {"HEADERS", "CONTINUATION", "DATA", "RST_STREAM"} => q[i].s \in Streams
    BY <2>1, FrameTypes DEF Downward, Streams
  <2> QED BY <2>1, <2>2 DEF Reported, HeadFrame
<1>3. toClient' = q
  BY <1>1
<1>4. Numbered(q, sess'.decoded, srvConn'.blocks) /\ HeadsFirst(q)
  BY <1>1 DEF Decoder
<1>5. ASSUME NEW t \in Streams, stream'[t].phase = "gone"
      PROVE  srv'[t].answered \/ srv'[t].reset
  BY <1>5 DEF Decoder
<1> QED BY <1>2, <1>3, <1>4, <1>5 DEF Decoder

(* Calls of performH2 and its callers.                                     *)
LEMMA CallDecoding ==
  ASSUME Sound, Decoding, NEW s \in Streams,
         \/ \E k \in Kinds, b \in Bodies : Request(s, k, b)
         \/ \E n \in Nat : Write(s, n)
         \/ Finish(s)
  PROVE  Decoding'
<1>1. stream \in [Streams -> Stream] /\ sess \in Session
  BY DEF Sound, TypeOK
<1>2. UNCHANGED <<heard, srv, srvConn, toClient>>
  BY DEF Request, Write, Finish, serverVars
<1>3. sess'.decoded = sess.decoded /\ (sess'.destroyed <=> sess.destroyed)
  <2>1. sess' = sess \/ \E u : sess' = [sess EXCEPT !.connSend = u]
    BY DEF Request, Write, Finish
  <2> QED BY <1>1, <2>1 DEF Session
<1>4. \A t \in Streams : /\ stream[t].phase = "open" => stream'[t].phase = "open"
                         /\ stream'[t].phase = "gone" => stream[t].phase = "gone"
  <2>1. ASSUME NEW k \in Kinds, NEW b \in Bodies, Request(s, k, b) PROVE <1>4!:
    <3>1. PICK o : o = [stream[s] EXCEPT !.phase = "open", !.kind = k,
                                         !.size = b, !.finished = (k # "stream")]
      OBVIOUS
    <3>2. o.phase = "open" /\ Spent(o, b).phase = "open"
      BY <1>1, <3>1 DEF Stream, Spent
    <3>3. stream' = [stream EXCEPT ![s] = Spent(o, b)] \/ stream' = [stream EXCEPT ![s] = o]
      BY <2>1, <3>1 DEF Request
    <3>4. stream'[s].phase = "open" /\ \A t \in Streams : t # s => stream'[t] = stream[t]
      BY <1>1, <3>2, <3>3
    <3> QED BY <3>4
  <2>2. ASSUME NEW n \in Nat, Write(s, n) PROVE <1>4!:
    <3>1. stream' = [stream EXCEPT ![s] = Spent(stream[s], n)]
      BY <2>2 DEF Write
    <3>2. Spent(stream[s], n).phase = stream[s].phase
      BY <1>1 DEF Spent, Stream
    <3> QED BY <1>1, <3>1, <3>2
  <2>3. CASE Finish(s)
    <3>1. stream' = [stream EXCEPT ![s].finished = TRUE]
      BY <2>3 DEF Finish
    <3> QED BY <1>1, <3>1 DEF Stream
  <2> QED BY <2>1, <2>2, <2>3
<1>5. Decoder => Decoder'
  BY <1>2, <1>3, <1>4, DecoderKept
<1> QED BY <1>2, <1>3, <1>5, DecodingStays DEF Cancelled

(* The end of the session, or of a request.                                *)
LEMMA EndDecoding ==
  ASSUME Sound, Hearing, Decoding, CloseSession \/ FailAll \/ \E s \in Streams : Cancel(s)
  PROVE  Decoding'
<1>1. heard \in [Streams -> Heard] /\ sess \in Session
  BY DEF Sound, TypeOK
<1>2. CASE CloseSession
  <2>1. UNCHANGED heard /\ sess' = [sess EXCEPT !.closed = TRUE, !.destroyed = TRUE]
    BY <1>2 DEF CloseSession
  <2>2. sess'.destroyed
    BY <1>1, <2>1 DEF Session
  <2> QED BY <2>1, <2>2, DecodingStays DEF Cancelled
<1>3. CASE FailAll
  <2>1. sess' = [sess EXCEPT !.closed = TRUE, !.destroyed = TRUE]
    BY <1>3 DEF FailAll
  <2>2. sess'.destroyed
    BY <1>1, <2>1 DEF Session
  <2>3. ASSUME NEW t \in Streams
        PROVE  /\ heard[t].outcome = "cancelled" => heard'[t].outcome = "cancelled"
               /\ heard'[t].garbled => heard[t].garbled
    <3>1. CASE stream[t].phase # "open"
      BY <1>3, <3>1 DEF FailAll
    <3>2. CASE stream[t].phase = "open"
      <4>1. PICK k \in Heard : k = heard[t]
        BY <1>1
      <4>2. heard'[t] = Failed(k) /\ k.outcome = "none"
        BY <1>3, <3>2, <4>1 DEF FailAll, Hearing
      <4>3. Failed(k).garbled = k.garbled
        BY DEF Failed, Late, Heard
      <4> QED BY <4>1, <4>2, <4>3
    <3> QED BY <3>1, <3>2
  <2> QED BY <2>2, <2>3, DecodingStays DEF Cancelled
<1>4. ASSUME NEW s \in Streams, Cancel(s) PROVE Decoding'
  <2>1. heard' = [heard EXCEPT ![s].outcome = "cancelled"]
    BY <1>4 DEF Cancel
  <2>2. heard'[s].outcome = "cancelled"
    BY <1>1, <2>1 DEF Heard
  <2>3. Cancelled'
    BY <2>2 DEF Cancelled
  <2> QED BY <2>3 DEF Decoding
<1> QED BY <1>2, <1>3, <1>4

(* A frame is taken, and one stream at most hears of it.                   *)
LEMMA DecodingTaken ==
  ASSUME Sound, Hearing, Delivery, Decoding, NEW f, toClient # <<>>, f = Head(toClient),
         toClient' = Tail(toClient), UNCHANGED serverVars,
         f.type \in {"HEADERS", "CONTINUATION", "DATA", "RST_STREAM"} \/ UNCHANGED heard,
         sess'.decoded = sess.decoded + (IF Completes(f) THEN 1 ELSE 0),
         \A t \in Streams :
           /\ heard'[t].garbled => heard[t].garbled
           /\ heard[t].outcome # "none" => heard'[t].outcome = heard[t].outcome
           /\ stream[t].phase = "open" => stream'[t].phase = "open" \/ (t = f.s /\ Closes(f))
           /\ stream'[t].phase = "gone" =>
                \/ stream[t].phase = "gone"
                \/ t = f.s /\ f.type \in {"HEADERS", "CONTINUATION", "DATA", "RST_STREAM"}
  PROVE  Decoding'
<1>1. ~sess.destroyed
  BY DEF Delivery
<1>2. Decoder => Decoder'
  BY DecoderTaken
<1>3. Cancelled => Cancelled'
  BY DEF Cancelled
<1> QED BY <1>1, <1>2, <1>3, DecodingStays

LEMMA FinalizeDecoding ==
  ASSUME Sound, Hearing, Delivery, Decoding, NEW f \in Frame, NEW end \in BOOLEAN,
         NEW cancel \in BOOLEAN, toClient # <<>>, f = Head(toClient), f.s \in Streams,
         Completes(f), end => Closes(f),
         stream[f.s].phase = "open", Finalize(f.s, f, end, cancel), UNCHANGED serverVars
  PROVE  Decoding'
<1>1. CASE FailAll
  BY <1>1, EndDecoding
<1>2. CASE ~FailAll
  <2>1. heard[f.s].outcome = "none" /\ stream \in [Streams -> Stream] /\ heard \in [Streams -> Heard]
    BY DEF Hearing, Sound, TypeOK
  <2>2. PICK st \in Stream, h \in Heard : Finalized(f.s, f, end, cancel, st, h)
    BY <1>2, <2>1, FinalizeDoes, Zenon
  <2>3. /\ st.phase = (IF cancel \/ end THEN "gone" ELSE "open")
        /\ stream' = [stream EXCEPT ![f.s] = st]
        /\ h.outcome = (IF cancel THEN "cancelled" ELSE IF end THEN "end" ELSE "none")
        /\ h.garbled <=> heard[f.s].garbled \/ f.block # sess.decoded + 1
        /\ heard' = [heard EXCEPT ![f.s] = h]
        /\ sess' = [sess EXCEPT !.decoded = @ + 1]
        /\ toClient' = Tail(toClient)
    BY <2>2 DEF Finalized
  <2>4. CASE cancel
    <3>1. heard'[f.s].outcome = "cancelled"
      BY <2>1, <2>3, <2>4
    <3>2. Cancelled'
      BY <3>1 DEF Cancelled
    <3> QED BY <3>2 DEF Decoding
  <2>5. CASE Cancelled /\ ~cancel
    <3>1. PICK t \in Streams : heard[t].outcome = "cancelled"
      BY <2>5 DEF Cancelled
    <3>2. heard'[t].outcome = "cancelled"
      BY <2>1, <2>3, <3>1
    <3>3. Cancelled'
      BY <3>2 DEF Cancelled
    <3> QED BY <3>3 DEF Decoding
  <2>6. CASE ~Cancelled /\ ~cancel
    <3>1. Decoder /\ sess \in Session
      BY <2>6 DEF Decoding, Delivery, Sound, TypeOK
    <3>2. f.block = sess.decoded + 1
      BY <3>1, Amount, NumberedTail DEF Decoder
    <3>3. sess'.decoded = sess.decoded + 1
      BY <2>3, <3>1 DEF Session
    <3>4. ASSUME NEW t \in Streams
          PROVE  /\ heard'[t].garbled => heard[t].garbled
                 /\ heard[t].outcome # "none" => heard'[t].outcome = heard[t].outcome
                 /\ stream[t].phase = "open" => stream'[t].phase = "open" \/ (t = f.s /\ Closes(f))
                 /\ stream'[t].phase = "gone" =>
                      \/ stream[t].phase = "gone"
                      \/ t = f.s /\ f.type \in {"HEADERS", "CONTINUATION", "DATA", "RST_STREAM"}
      <4>1. CASE t # f.s
        BY <2>1, <2>3, <4>1
      <4>2. CASE t = f.s
        <5>1. heard'[t] = h /\ stream'[t] = st
          BY <2>1, <2>3, <4>2
        <5> QED BY <2>1, <2>3, <2>6, <3>2, <4>2, <5>1 DEF Completes
      <4> QED BY <4>1, <4>2
    <3> QED BY <2>3, <3>3, <3>4, DecodingTaken DEF Completes
  <2> QED BY <2>4, <2>5, <2>6
<1> QED BY <1>1, <1>2

LEMMA OnHeadersDecoding ==
  ASSUME Sound, Hearing, Delivery, Decoding, NEW cancel \in BOOLEAN, OnHeaders(cancel)
  PROVE  Decoding'
<1>1. stream \in [Streams -> Stream] /\ sess.decoded \in Nat
  BY Amount DEF Sound, TypeOK
<1>2. PICK f : f = Head(toClient)
  OBVIOUS
<1>3. /\ toClient # <<>> /\ f.type = "HEADERS" /\ stream[f.s].phase = "open" /\ UNCHANGED serverVars
  BY <1>2 DEF OnHeaders, Receiving
<1>4. f \in Frame /\ f.s \in Streams /\ f.end \in BOOLEAN
  BY <1>2, <1>3, HeadTypes, FrameTypes
<1>5. CASE f.fin
  <2>1. Finalize(f.s, f, f.end, cancel)
    BY <1>2, <1>5 DEF OnHeaders
  <2>2. Completes(f) /\ (f.end => Closes(f))
    BY <1>3, <1>5 DEF Completes, Closes
  <2> QED BY <1>2, <1>3, <1>4, <2>1, <2>2, FinalizeDecoding
<1>6. CASE ~f.fin
  <2>1. /\ stream' = [stream EXCEPT ![f.s] = Assembling(@, f.end)]
        /\ UNCHANGED <<heard, sess>> /\ toClient' = Tail(toClient)
    BY <1>2, <1>6 DEF OnHeaders
  <2>2. \A t \in Streams : stream'[t].phase = stream[t].phase
    BY <1>1, <2>1 DEF Assembling, Stream
  <2>3. ~Completes(f)
    BY <1>3, <1>6 DEF Completes
  <2>4. sess'.decoded = sess.decoded + (IF Completes(f) THEN 1 ELSE 0)
    BY <1>1, <2>1, <2>3
  <2> QED BY <1>2, <1>3, <2>1, <2>2, <2>4, DecodingTaken
<1> QED BY <1>5, <1>6

LEMMA OnContinuationDecoding ==
  ASSUME Sound, Hearing, Delivery, Decoding, NEW cancel \in BOOLEAN, OnContinuation(cancel)
  PROVE  Decoding'
<1>1. PICK f : f = Head(toClient)
  OBVIOUS
<1>2. /\ toClient # <<>> /\ f.type = "CONTINUATION" /\ stream[f.s].phase = "open"
      /\ Finalize(f.s, f, stream[f.s].headerEnd, cancel) /\ UNCHANGED serverVars
  BY <1>1 DEF OnContinuation, Receiving
<1>3. f \in Frame /\ f.s \in Streams
  BY <1>1, <1>2, HeadTypes
<1>4. stream[f.s].headerEnd \in BOOLEAN
  BY <1>3 DEF Sound, TypeOK, Stream
<1>5. Completes(f) /\ Closes(f)
  BY <1>2 DEF Completes, Closes
<1> QED BY <1>1, <1>2, <1>3, <1>4, <1>5, FinalizeDecoding

LEMMA OnDataDecoding ==
  ASSUME Sound, Hearing, Delivery, Decoding, OnData
  PROVE  Decoding'
<1>1. /\ stream \in [Streams -> Stream] /\ heard \in [Streams -> Heard] /\ sess \in Session
      /\ sess.decoded \in Nat
  BY Amount DEF Sound, TypeOK
<1>2. PICK f \in Frame, st \in Stream, h \in Heard, p \in Seq(Frame), r \in Seq(Frame) :
        DataTaken(f, st, h, p, r)
  BY OnDataDoes, Zenon
<1>3. /\ toClient # <<>> /\ f = Head(toClient) /\ f.type = "DATA" /\ f.s \in Streams
      /\ stream[f.s].phase = "open"
      /\ stream' = [stream EXCEPT ![f.s] = st] /\ heard' = [heard EXCEPT ![f.s] = h]
      /\ sess' = [sess EXCEPT !.recvUsed = IF p = <<>> THEN @ + f.n ELSE 0]
      /\ h = (IF f.end THEN Ended(HeardData(f)) ELSE HeardData(f))
      /\ toClient' = Tail(toClient) /\ UNCHANGED serverVars
  BY <1>2 DEF DataTaken
<1>4. st.phase = IF f.end THEN "gone" ELSE "open"
  BY <1>1, <1>2, <1>3 DEF DataTaken, Stream
<1>5. sess'.decoded = sess.decoded
  BY <1>1, <1>3 DEF Session
<1>6. ~Completes(f) /\ (f.end => Closes(f))
  BY <1>3 DEF Completes, Closes
<1>7. heard[f.s].outcome = "none"
  BY <1>3 DEF Hearing
<1>8. h.garbled = heard[f.s].garbled
  <2>1. PICK k \in Heard : k = heard[f.s]
    BY <1>1, <1>3
  <2>2. PICK g : g = HeardData(f)
    OBVIOUS
  <2>3. g.garbled = k.garbled /\ g = [k EXCEPT !.units = k.units + f.n, !.late = g.late]
    BY <1>1, <2>1, <2>2 DEF HeardData, Heard
  <2>4. Ended(g).garbled = g.garbled
    BY <2>1, <2>3 DEF Ended, Heard
  <2> QED BY <1>3, <2>1, <2>2, <2>3, <2>4
<1>9. sess'.decoded = sess.decoded + (IF Completes(f) THEN 1 ELSE 0)
  BY <1>1, <1>5, <1>6
<1>10. ASSUME NEW t \in Streams
       PROVE  /\ heard'[t].garbled => heard[t].garbled
              /\ heard[t].outcome # "none" => heard'[t].outcome = heard[t].outcome
              /\ stream[t].phase = "open" => stream'[t].phase = "open" \/ (t = f.s /\ Closes(f))
              /\ stream'[t].phase = "gone" =>
                   \/ stream[t].phase = "gone"
                   \/ t = f.s /\ f.type \in {"HEADERS", "CONTINUATION", "DATA", "RST_STREAM"}
  <2>1. CASE t # f.s
    BY <1>1, <1>3, <2>1
  <2>2. CASE t = f.s
    <3>1. heard'[t] = h /\ stream'[t] = st
      BY <1>1, <1>3, <2>2
    <3> QED BY <1>3, <1>4, <1>6, <1>7, <1>8, <2>2, <3>1
  <2> QED BY <2>1, <2>2
<1> QED BY <1>3, <1>9, <1>10, DecodingTaken

LEMMA OnResetDecoding ==
  ASSUME Sound, Hearing, Delivery, Decoding, OnReset
  PROVE  Decoding'
<1>1. /\ stream \in [Streams -> Stream] /\ heard \in [Streams -> Heard] /\ sess.decoded \in Nat
  BY Amount DEF Sound, TypeOK
<1>2. PICK f : f = Head(toClient)
  OBVIOUS
<1>3. /\ toClient # <<>> /\ f.type = "RST_STREAM" /\ stream[f.s].phase = "open"
      /\ stream' = [stream EXCEPT ![f.s] = Closed(@)]
      /\ heard' = [heard EXCEPT ![f.s] = Failed(@)]
      /\ toClient' = Tail(toClient) /\ UNCHANGED <<sess, serverVars>>
  BY <1>2 DEF OnReset, Receiving
<1>4. f.s \in Streams
  BY <1>2, <1>3, HeadTypes
<1>5. PICK k, h : k = heard[f.s] /\ h = Failed(k)
  OBVIOUS
<1>6. h.garbled = k.garbled /\ k.outcome = "none"
  BY <1>1, <1>3, <1>4, <1>5 DEF Failed, Late, Heard, Hearing
<1>7. ~Completes(f) /\ Closes(f)
  BY <1>3 DEF Completes, Closes
<1>8. sess'.decoded = sess.decoded + (IF Completes(f) THEN 1 ELSE 0)
  BY <1>1, <1>3, <1>7
<1>9. ASSUME NEW t \in Streams
      PROVE  /\ heard'[t].garbled => heard[t].garbled
             /\ heard[t].outcome # "none" => heard'[t].outcome = heard[t].outcome
             /\ stream[t].phase = "open" => stream'[t].phase = "open" \/ (t = f.s /\ Closes(f))
             /\ stream'[t].phase = "gone" =>
                  \/ stream[t].phase = "gone"
                  \/ t = f.s /\ f.type \in {"HEADERS", "CONTINUATION", "DATA", "RST_STREAM"}
  <2>1. CASE t # f.s
    BY <1>1, <1>3, <2>1
  <2>2. CASE t = f.s
    <3>1. heard'[t] = h
      BY <1>1, <1>3, <1>4, <1>5, <2>2
    <3> QED BY <1>3, <1>5, <1>6, <1>7, <2>2, <3>1
  <2> QED BY <2>1, <2>2
<1> QED BY <1>2, <1>3, <1>8, <1>9, DecodingTaken

LEMMA OnUnknownDecoding ==
  ASSUME Sound, Hearing, Delivery, Decoding, OnUnknown
  PROVE  Decoding'
<1>1. sess \in Session /\ sess.decoded \in Nat
  BY Amount DEF Sound, TypeOK
<1>2. PICK f \in Frame, n \in Nat, p \in Seq(Frame) : UnknownTaken(f, n, p)
  BY OnUnknownDoes, Zenon
<1>3. /\ toClient # <<>> /\ f = Head(toClient) /\ stream[f.s].phase # "open"
      /\ sess' = [sess EXCEPT !.recvUsed = IF p = <<>> THEN @ + n ELSE 0]
      /\ toClient' = Tail(toClient) /\ UNCHANGED <<stream, heard, serverVars>>
  BY <1>2 DEF UnknownTaken
<1>4. sess'.decoded = sess.decoded
  BY <1>1, <1>3 DEF Session
<1>5. CASE ~Completes(f)
  <2>1. sess'.decoded = sess.decoded + (IF Completes(f) THEN 1 ELSE 0)
    BY <1>1, <1>4, <1>5
  <2> QED BY <1>3, <2>1, DecodingTaken
<1>6. CASE Completes(f)
  <2>1. HeadFrame(f)
    BY <1>6 DEF Completes, HeadFrame
  <2>2. 1 \in DOMAIN toClient /\ toClient[1] = f
    BY <1>3, Amount, TailPlaces
  <2>3. ~Decoder
    BY <1>3, <2>1, <2>2 DEF Decoder, Reported
  <2>4. Cancelled
    BY <1>3, <2>3 DEF Decoding, Delivery
  <2>5. Cancelled'
    BY <1>3, <2>4 DEF Cancelled
  <2> QED BY <2>5 DEF Decoding
<1> QED BY <1>5, <1>6

LEMMA OnSignalDecoding ==
  ASSUME Sound, Hearing, Delivery, Decoding, OnWindowUpdate \/ OnGoaway
  PROVE  Decoding'
<1>1. stream \in [Streams -> Stream] /\ sess \in Session /\ sess.decoded \in Nat
  BY Amount DEF Sound, TypeOK
<1>2. PICK f : f = Head(toClient)
  OBVIOUS
<1>3. /\ toClient # <<>> /\ f.type \in {"WINDOW_UPDATE", "GOAWAY"}
      /\ UNCHANGED <<heard, serverVars>> /\ toClient' = Tail(toClient)
      /\ sess' = sess \/ sess' = [sess EXCEPT !.connSend = @ + f.n] \/ sess' = [sess EXCEPT !.closed = TRUE]
      /\ stream' = stream \/ stream' = [stream EXCEPT ![f.s].sendWindow = @ + f.n]
  BY <1>2 DEF OnWindowUpdate, OnGoaway, Receiving
<1>4. sess'.decoded = sess.decoded
  BY <1>1, <1>3 DEF Session
<1>5. \A t \in Streams : stream'[t].phase = stream[t].phase
  <2>1. PICK s, n : s = f.s /\ n = f.n
    OBVIOUS
  <2>2. UNCHANGED stream \/ stream' = [stream EXCEPT ![s].sendWindow = @ + n]
    BY <1>3, <2>1
  <2> QED BY <1>1, <2>2 DEF Stream
<1>6. ~Completes(f)
  BY <1>3 DEF Completes
<1>7. sess'.decoded = sess.decoded + (IF Completes(f) THEN 1 ELSE 0)
  BY <1>1, <1>4, <1>6
<1> QED BY <1>2, <1>3, <1>5, <1>7, DecodingTaken

(* The server.                                                             *)
LEMMA SrvReceivesDecoding ==
  ASSUME Sound, Decoding, SrvReceives
  PROVE  Decoding'
<1>1. srv \in [Streams -> Srv] /\ srvConn \in SrvConn
  BY DEF Sound, TypeOK
<1>2. PICK f \in Frame :
        /\ UNCHANGED <<clientVars, toClient, faults>>
        /\ GotHeaders(f) \/ GotData(f) \/ GotReset(f) \/ GotConnUpdate(f) \/ GotUpdate(f)
  BY SrvReceivesDoes
<1>3. UNCHANGED <<stream, heard, sess, toClient>>
  BY <1>2 DEF clientVars
<1>4. srvConn'.blocks = srvConn.blocks
  BY <1>1, <1>2 DEF GotHeaders, GotData, GotReset, GotConnUpdate, GotUpdate, SrvConn
<1>5. \A t \in Streams : /\ srv[t].answered => srv'[t].answered
                         /\ srv[t].reset => srv'[t].reset
  <2>1. srv' = srv \/ \E v : /\ f.s \in Streams /\ srv' = [srv EXCEPT ![f.s] = v]
                             /\ v.answered = srv[f.s].answered
                             /\ srv[f.s].reset => v.reset
    <3>1. CASE GotHeaders(f)
      <4>1. PICK v : v = [srv[f.s] EXCEPT !.seen = TRUE, !.ended = f.end]
        OBVIOUS
      <4>2. f.s \in Streams /\ srv' = [srv EXCEPT ![f.s] = v]
        BY <3>1, <4>1 DEF GotHeaders
      <4>3. v.answered = srv[f.s].answered /\ v.reset = srv[f.s].reset
        BY <1>1, <4>1, <4>2 DEF Srv
      <4> QED BY <4>2, <4>3
    <3>2. CASE GotData(f)
      <4>1. PICK end \in BOOLEAN, hole \in BOOLEAN, got \in Nat :
              srv' = [srv EXCEPT ![f.s] = [srv[f.s] EXCEPT !.recvWin = srv[f.s].recvWin - f.n,
                                             !.ended = end, !.hole = hole, !.got = got]]
        BY <3>2 DEF GotData
      <4>2. PICK v : v = [srv[f.s] EXCEPT !.recvWin = srv[f.s].recvWin - f.n,
                                             !.ended = end, !.hole = hole, !.got = got]
        OBVIOUS
      <4>3. f.s \in Streams /\ srv' = [srv EXCEPT ![f.s] = v]
        BY <3>2, <4>1, <4>2 DEF GotData
      <4>4. v.answered = srv[f.s].answered /\ v.reset = srv[f.s].reset
        BY <1>1, <4>2, <4>3 DEF Srv
      <4> QED BY <4>3, <4>4
    <3>3. CASE GotReset(f)
      <4>1. PICK v : v = [srv[f.s] EXCEPT !.reset = TRUE, !.left = 0]
        OBVIOUS
      <4>2. f.s \in Streams /\ srv' = [srv EXCEPT ![f.s] = v]
        BY <3>3, <4>1 DEF GotReset
      <4>3. v.answered = srv[f.s].answered /\ v.reset
        BY <1>1, <4>1, <4>2 DEF Srv
      <4> QED BY <4>2, <4>3
    <3>4. CASE GotConnUpdate(f)
      BY <3>4 DEF GotConnUpdate
    <3>5. CASE GotUpdate(f)
      <4>1. PICK v : v = [srv[f.s] EXCEPT !.sendWin = srv[f.s].sendWin + f.n]
        OBVIOUS
      <4>2. f.s \in Streams /\ srv' = [srv EXCEPT ![f.s] = v]
        BY <3>5, <4>1 DEF GotUpdate
      <4>3. v.answered = srv[f.s].answered /\ v.reset = srv[f.s].reset
        BY <1>1, <4>1, <4>2 DEF Srv
      <4> QED BY <4>2, <4>3
    <3> QED BY <1>2, <3>1, <3>2, <3>3, <3>4, <3>5
  <2> QED BY <1>1, <2>1
<1>6. Decoder => Decoder'
  BY <1>3, <1>4, <1>5, DecoderKept
<1> QED BY <1>3, <1>6, DecodingStays DEF Cancelled

LEMMA SrvCreditsDecoding ==
  ASSUME Sound, Decoding, NEW s \in Streams, SrvCredits(s)
  PROVE  Decoding'
<1>1. srv \in [Streams -> Srv] /\ srvConn \in SrvConn
  BY DEF Sound, TypeOK
<1>2. PICK f \in Frame, g \in Frame, v \in Srv : Credited(s, f, g, v)
  BY SrvCreditsDoes, Zenon
<1>3. /\ f.type = "WINDOW_UPDATE" /\ g.type = "WINDOW_UPDATE"
      /\ toClient' = toClient \o (<<f>> \o <<g>>)
      /\ v = [srv[s] EXCEPT !.recvWin = PeerWindow] /\ srv' = [srv EXCEPT ![s] = v]
      /\ srvConn' = [srvConn EXCEPT !.recvWin = SendWindow]
      /\ UNCHANGED clientVars
  BY <1>2 DEF Credited
<1>4. v.answered = srv[s].answered /\ v.reset = srv[s].reset
  BY <1>1, <1>3 DEF Srv
<1>5. \A t \in Streams : /\ srv[t].answered => srv'[t].answered
                         /\ srv[t].reset => srv'[t].reset
  BY <1>1, <1>3, <1>4
<1>6. PICK fs : fs = <<f>> \o <<g>>
  OBVIOUS
<1>7. fs \in Seq(Frame) /\ \A i \in 1 .. Len(fs) : fs[i].type = "WINDOW_UPDATE"
  <2>1. fs \in Seq(Frame) /\ Len(fs) = 2 /\ fs[1] = f /\ fs[2] = g
    BY <1>6, TwoFrames, Zenon
  <2> QED BY <1>3, <2>1
<1>8. \A i \in 1 .. Len(fs) : ~HeadFrame(fs[i]) /\ Reported(fs[i])'
  BY <1>7 DEF HeadFrame, Reported
<1>9. srvConn'.blocks = srvConn.blocks
  BY <1>1, <1>3 DEF SrvConn
<1>10. toClient' = toClient \o fs
  BY <1>3, <1>6
<1> QED BY <1>3, <1>5, <1>7, <1>8, <1>9, <1>10, DecoderFed

LEMMA SrvSendsDecoding ==
  ASSUME Sound, Decoding, NEW s \in Streams, NEW n \in Nat, NEW pad \in Pads, SrvSends(s, n, pad)
  PROVE  Decoding'
<1>1. srv \in [Streams -> Srv] /\ srvConn \in SrvConn
  BY DEF Sound, TypeOK
<1>2. PICK f \in Frame, v \in Srv : SentData(s, n, pad, f, v)
  BY SrvSendsDoes, Zenon
<1>3. /\ n \in 1 .. srv[s].left /\ f.type = "DATA" /\ f.s = s /\ toClient' = toClient \o <<f>>
      /\ v = [srv[s] EXCEPT !.left = srv[s].left - n, !.sendWin = srv[s].sendWin - (n + pad)]
      /\ srv' = [srv EXCEPT ![s] = v]
      /\ srvConn' = [srvConn EXCEPT !.sendWin = srvConn.sendWin - (n + pad)]
      /\ UNCHANGED clientVars
  BY <1>2 DEF SentData
<1>4. v.answered = srv[s].answered /\ v.reset = srv[s].reset
  BY <1>1, <1>3 DEF Srv
<1>5. \A t \in Streams : /\ srv[t].answered => srv'[t].answered
                         /\ srv[t].reset => srv'[t].reset
  BY <1>1, <1>3, <1>4
<1>6. srv'[s].answered
  <2>1. srv[s].left > 0
    <3>1. srv[s].left \in Nat
      BY <1>1 DEF Srv
    <3> QED BY <1>3, <3>1
  <2>2. srv[s].answered
    BY <2>1 DEF Sound
  <2> QED BY <1>5, <2>2
<1>7. PICK fs : fs = <<f>>
  OBVIOUS
<1>8. fs \in Seq(Frame) /\ Len(fs) = 1 /\ fs[1] = f
  BY <1>7, OneFrame
<1>9. \A i \in 1 .. Len(fs) : ~HeadFrame(fs[i]) /\ Reported(fs[i])'
  <2>1. \A i \in 1 .. Len(fs) : fs[i].type = "DATA" /\ fs[i].s = s
    BY <1>3, <1>8
  <2> QED BY <1>6, <2>1 DEF HeadFrame, Reported
<1>10. srvConn'.blocks = srvConn.blocks
  BY <1>1, <1>3 DEF SrvConn
<1>11. toClient' = toClient \o fs
  BY <1>3, <1>7
<1> QED BY <1>3, <1>5, <1>8, <1>9, <1>10, <1>11, DecoderFed

LEMMA SrvSignalsDecoding ==
  ASSUME Sound, Decoding, SrvGoaway \/ SrvMalformed \/ \E s \in Streams : SrvResets(s)
  PROVE  Decoding'
<1>1. /\ srv \in [Streams -> Srv] /\ srvConn \in SrvConn /\ toClient \in Seq(Frame)
      /\ 0 \in 0 .. MaxStreams
  BY H2Assumption DEF Sound, TypeOK
<1> DEFINE Signals(type, s) ==
         /\ toClient' = Append(toClient, Fr(type, s)) /\ UNCHANGED clientVars
         /\ srvConn'.blocks = srvConn.blocks
         /\ type = "RST_STREAM" => srv'[s].reset
         /\ \A t \in Streams : /\ srv[t].answered => srv'[t].answered
                               /\ srv[t].reset => srv'[t].reset
<1>2. \E type \in {"RST_STREAM", "GOAWAY", "BAD"}, s \in 0 .. MaxStreams : Signals(type, s)
  <2>1. ASSUME NEW s \in Streams, SrvResets(s) PROVE <1>2
    <3>1. PICK type \in {"RST_STREAM", "GOAWAY", "BAD"} : type = "RST_STREAM"
      OBVIOUS
    <3>2. s \in 0 .. MaxStreams
      BY DEF Streams
    <3>3. PICK v : v = [srv[s] EXCEPT !.reset = TRUE, !.left = 0]
      OBVIOUS
    <3>4. srv' = [srv EXCEPT ![s] = v] /\ UNCHANGED srvConn /\ UNCHANGED clientVars
            /\ toClient' = Append(toClient, Fr(type, s))
      BY <1>1, <2>1, <3>1, <3>3 DEF SrvResets
    <3>5. v.answered = srv[s].answered /\ v.reset
      BY <1>1, <3>3 DEF Srv
    <3>6. Signals(type, s)
      BY <1>1, <3>4, <3>5
    <3> HIDE DEF Signals
    <3> QED BY <3>2, <3>6
  <2>2. CASE SrvGoaway
    <3>1. PICK type \in {"RST_STREAM", "GOAWAY", "BAD"} : type = "GOAWAY"
      OBVIOUS
    <3>2. /\ UNCHANGED srv /\ UNCHANGED clientVars /\ srvConn' = [srvConn EXCEPT !.goaway = TRUE]
          /\ toClient' = Append(toClient, Fr(type, 0))
      BY <2>2, <3>1 DEF SrvGoaway
    <3>3. Signals(type, 0)
      BY <1>1, <3>1, <3>2 DEF SrvConn
    <3> HIDE DEF Signals
    <3> QED BY <1>1, <3>3
  <2>3. CASE SrvMalformed
    <3>1. PICK type \in {"RST_STREAM", "GOAWAY", "BAD"} : type = "BAD"
      OBVIOUS
    <3>2. /\ UNCHANGED srv /\ UNCHANGED clientVars /\ srvConn' = [srvConn EXCEPT !.bad = TRUE]
          /\ toClient' = Append(toClient, Fr(type, 0))
      BY <2>3, <3>1 DEF SrvMalformed
    <3>3. Signals(type, 0)
      BY <1>1, <3>1, <3>2 DEF SrvConn
    <3> HIDE DEF Signals
    <3> QED BY <1>1, <3>3
  <2> QED BY <2>1, <2>2, <2>3
<1>0. PICK type \in {"RST_STREAM", "GOAWAY", "BAD"}, s \in 0 .. MaxStreams : Signals(type, s)
  BY <1>2
<1>3. PICK f : f = Fr(type, s)
  OBVIOUS
<1>4. f \in Frame /\ f.type = type /\ f.s = s
  <2>1. f.type = type /\ f.s = s
    BY <1>3 DEF Fr
  <2> QED BY <1>3, <2>1, FrTypes
<1>5. PICK fs \in Seq(Frame) : /\ \A i \in 1 .. Len(fs) : fs[i] = f
                              /\ Append(toClient, f) = toClient \o fs
  BY <1>1, <1>4, AddOne
<1>6. \A i \in 1 .. Len(fs) : ~HeadFrame(fs[i]) /\ Reported(fs[i])'
  BY <1>0, <1>4, <1>5 DEF HeadFrame, Reported
<1> QED BY <1>0, <1>3, <1>5, <1>6, DecoderFed

(* The blocks of an answer are the next ones.                              *)
LEMMA AnswerNumbered ==
  ASSUME Sound, NEW fs \in Seq(Frame), NEW s \in Streams, NEW size, NEW form, NEW b \in Nat,
         NEW c \in Nat, b = srvConn.blocks, c = b + (IF form = "interim" THEN 2 ELSE 1),
         Answer(fs, s, size, form)
  PROVE  Numbered(fs, b, c) /\ HeadsFirst(fs)
<1>1. \A i \in DOMAIN fs : i \in 1 .. Len(fs)
  OBVIOUS
<1>2. CASE form = "plain"
  <2>1. PICK g \in Frame : fs = <<g>> /\ g.type = "HEADERS" /\ g.block = b + 1 /\ g.fin
    BY <1>2 DEF Answer, Block
  <2>2. DOMAIN fs = {1} /\ fs[1] = g /\ c = b + 1
    BY <1>2, <2>1
  <2>3. Completes(g)
    BY <2>1 DEF Completes
  <2>4. \A n \in Nat : b < n /\ n <= c => n = b + 1
    BY <2>2
  <2>5. Numbered(fs, b, c)
    BY <2>1, <2>2, <2>3, <2>4 DEF Numbered
  <2>6. HeadsFirst(fs)
    BY <2>2 DEF HeadsFirst
  <2> QED BY <2>5, <2>6
<1>3. CASE form = "interim"
  <2>1. PICK e \in Frame, g \in Frame :
          /\ fs = <<e>> \o <<g>> /\ e.type = "HEADERS" /\ e.block = b + 1 /\ e.fin /\ ~e.end
          /\ g.type = "HEADERS" /\ g.block = b + 1 + 1 /\ g.fin
    BY <1>3 DEF Answer, Block
  <2>2. Len(fs) = 2 /\ fs[1] = e /\ fs[2] = g
    BY <2>1, TwoFrames
  <2>3. DOMAIN fs = {1, 2} /\ c = b + 2
    <3>1. DOMAIN fs = 1 .. 2
      BY <2>2
    <3> QED BY <1>3, <3>1
  <2>4. Completes(e) /\ Completes(g) /\ ~Closes(e)
    BY <2>1 DEF Completes, Closes
  <2>5. \A n \in Nat : b < n /\ n <= c => n = b + 1 \/ n = b + 1 + 1
    BY <2>3
  <2>6. Numbered(fs, b, c)
    <3>1. \A i \in DOMAIN fs : b < fs[i].block /\ fs[i].block <= c
      BY <2>1, <2>2, <2>3
    <3>2. \A i, j \in DOMAIN fs : i < j => fs[i].block < fs[j].block
      <4>1. \A i, j \in DOMAIN fs : i < j => i = 1 /\ j = 2
        BY <2>3
      <4>2. fs[1].block < fs[2].block
        BY <2>1, <2>2
      <4> QED BY <4>1, <4>2
    <3>3. \A n \in Nat : b < n /\ n <= c => \E i \in DOMAIN fs : Completes(fs[i]) /\ fs[i].block = n
      BY <2>1, <2>2, <2>3, <2>4, <2>5
    <3> QED BY <2>3, <3>1, <3>2, <3>3 DEF Numbered
  <2>7. HeadsFirst(fs)
    BY <2>2, <2>3, <2>4 DEF HeadsFirst
  <2> QED BY <2>6, <2>7
<1>4. CASE form = "split"
  <2>1. PICK g \in Frame, r \in Frame :
          /\ fs = <<g>> \o <<r>> /\ g.type = "HEADERS" /\ ~g.fin
          /\ r.type = "CONTINUATION" /\ r.block = b + 1
    BY <1>4 DEF Answer, Block
  <2>2. Len(fs) = 2 /\ fs[1] = g /\ fs[2] = r
    BY <2>1, TwoFrames
  <2>3. DOMAIN fs = {1, 2} /\ c = b + 1
    <3>1. DOMAIN fs = 1 .. 2
      BY <2>2
    <3> QED BY <1>4, <3>1
  <2>4. ~Completes(g) /\ Completes(r) /\ ~Closes(g)
    BY <2>1 DEF Completes, Closes
  <2>5. \A n \in Nat : b < n /\ n <= c => n = b + 1
    BY <2>3
  <2>6. Numbered(fs, b, c)
    <3>1. \A i \in DOMAIN fs : Completes(fs[i]) => b < fs[i].block /\ fs[i].block <= c
      BY <2>1, <2>2, <2>3, <2>4
    <3>2. \A i, j \in DOMAIN fs : i < j => ~(Completes(fs[i]) /\ Completes(fs[j]))
      BY <2>2, <2>3, <2>4
    <3>3. \A n \in Nat : b < n /\ n <= c => \E i \in DOMAIN fs : Completes(fs[i]) /\ fs[i].block = n
      BY <2>1, <2>2, <2>3, <2>4, <2>5
    <3> QED BY <2>3, <3>1, <3>2, <3>3 DEF Numbered
  <2>7. HeadsFirst(fs)
    BY <2>2, <2>3, <2>4 DEF HeadsFirst
  <2> QED BY <2>6, <2>7
<1> QED BY <1>2, <1>3, <1>4 DEF Answer

LEMMA SrvAnswersDecoding ==
  ASSUME Sound, Decoding, NEW s \in Streams, NEW size \in Answers, NEW form \in Forms,
         SrvAnswers(s, size, form)
  PROVE  Decoding'
<1>1. /\ srv \in [Streams -> Srv] /\ srvConn \in SrvConn /\ stream \in [Streams -> Stream]
      /\ srvConn.blocks \in Nat
  BY Amount DEF Sound, TypeOK
<1>2. PICK fs \in Seq(Frame), v \in Srv : Answered(s, size, form, fs, v)
  BY SrvAnswersDoes, Zenon
<1>3. /\ ~sess.destroyed /\ srv[s].seen /\ ~srv[s].reset /\ ~srv[s].answered
      /\ Answer(fs, s, size, form) /\ toClient' = toClient \o fs
      /\ v = [srv[s] EXCEPT !.answered = TRUE, !.total = size, !.left = size]
      /\ srv' = [srv EXCEPT ![s] = v]
      /\ srvConn' = [srvConn EXCEPT !.blocks = @ + IF form = "interim" THEN 2 ELSE 1]
      /\ UNCHANGED clientVars
  BY <1>2 DEF Answered
<1>4. UNCHANGED <<stream, heard, sess>>
  BY <1>3 DEF clientVars
<1>5. v.answered /\ v.reset = srv[s].reset
  BY <1>1, <1>3 DEF Srv
<1>6. /\ srv'[s].answered
      /\ \A t \in Streams : /\ srv[t].answered => srv'[t].answered
                            /\ srv[t].reset => srv'[t].reset
  BY <1>1, <1>3, <1>5
<1>7. PICK c \in Nat : c = srvConn.blocks + (IF form = "interim" THEN 2 ELSE 1)
  BY <1>1
<1>8. srvConn'.blocks = c
  BY <1>1, <1>3, <1>7 DEF SrvConn
<1>9. Numbered(fs, srvConn.blocks, c) /\ HeadsFirst(fs)
  BY <1>1, <1>3, <1>7, AnswerNumbered
<1>10. /\ DOMAIN fs = 1 .. Len(fs)
       /\ \A i \in 1 .. Len(fs) : fs[i].type \in {"HEADERS", "CONTINUATION"} /\ fs[i].s = s
  <2>1. \A i \in 1 .. Len(fs) : fs[i].type \in {"HEADERS", "CONTINUATION"} /\ fs[i].s = s
    BY <1>3, AnswerFrames
  <2> QED BY <2>1
<1>11. ASSUME Decoder PROVE Decoder'
  <2>1. stream[s].phase = "open"
    BY <1>1, <1>3, <1>11 DEF Decoder, Sound, Stream
  <2>2. \A i \in 1 .. Len(fs) : Reported(fs[i])'
    BY <1>4, <1>6, <1>10, <2>1 DEF Reported
  <2>3. \A i \in DOMAIN toClient, j \in DOMAIN fs :
          toClient[i].s = fs[j].s /\ HeadFrame(fs[j]) => ~Closes(toClient[i])
    <3> SUFFICES ASSUME NEW i \in DOMAIN toClient, NEW j \in DOMAIN fs, toClient[i].s = fs[j].s
                 PROVE  ~Closes(toClient[i])
      OBVIOUS
    <3>1. Reported(toClient[i]) /\ toClient[i].s = s
      BY <1>10, <1>11 DEF Decoder
    <3> QED BY <1>3, <3>1 DEF Reported, Closes
  <2> QED BY <1>3, <1>6, <1>7, <1>8, <1>9, <1>11, <2>2, <2>3, DecoderAdded
<1> QED BY <1>4, <1>11, DecodingStays DEF Cancelled

LEMMA DecodingInit == Init => Decoding
<1> SUFFICES ASSUME Init PROVE Decoding
  OBVIOUS
<1>1. PICK q : q = toClient
  OBVIOUS
<1>2. q = <<>> /\ sess.decoded = 0 /\ srvConn.blocks = 0
  BY <1>1 DEF Init
<1>3. q \in Seq(Frame) /\ DOMAIN q = {} /\ 0 \in Nat
  BY <1>2
<1>4. Numbered(q, 0, 0)
  BY <1>3, NumberedNone
<1>5. \A s \in Streams : stream[s].phase = "idle" /\ ~heard[s].garbled
  BY DEF Init
<1>6. Decoder
  BY <1>1, <1>2, <1>3, <1>4, <1>5 DEF Decoder, HeadsFirst
<1> QED BY <1>5, <1>6 DEF Decoding

LEMMA DecodingStep ==
  ASSUME Sound, Hearing, Delivery, Decoding, [Next]_vars
  PROVE  Decoding'
<1>1. CASE Caller
  <2>1. ASSUME NEW s \in Streams, NEW b \in Bodies, NEW n \in 1 .. b, Write(s, n)
        PROVE  Decoding'
    <3>1. n \in Nat
      OBVIOUS
    <3> QED BY <2>1, <3>1, CallDecoding
  <2> QED BY <1>1, <2>1, CallDecoding, EndDecoding DEF Caller
<1>2. CASE Dispatch
  <2>1. ASSUME OnBad PROVE Decoding'
    BY <2>1, EndDecoding DEF OnBad
  <2> QED BY <1>2, <2>1, OnHeadersDecoding, OnContinuationDecoding, OnDataDecoding,
             OnResetDecoding, OnUnknownDecoding, OnSignalDecoding DEF Dispatch
<1>3. CASE Server
  <2>1. ASSUME NEW s \in Streams, NEW n \in 1 .. srv[s].left, NEW pad \in Pads, SrvSends(s, n, pad)
        PROVE  Decoding'
    <3>1. n \in Nat
      OBVIOUS
    <3> QED BY <2>1, <3>1, SrvSendsDecoding
  <2> QED BY <1>3, <2>1, SrvReceivesDecoding, SrvCreditsDecoding, SrvAnswersDecoding,
             SrvSignalsDecoding DEF Server
<1>4. CASE UNCHANGED vars
  <2>1. UNCHANGED <<stream, heard, sess, srv, srvConn, toClient>>
    BY <1>4 DEF vars
  <2>2. Decoder => Decoder'
    BY <2>1, DecoderKept
  <2> QED BY <2>1, <2>2, DecodingStays DEF Cancelled
<1> QED BY <1>1, <1>2, <1>3, <1>4 DEF Next

(* A header block is read with a dynamic table that has missed one only on *)
(* a session on which a request was cancelled: in every other order of     *)
(* answers, interim responses, split blocks, resets and failures each      *)
(* block finds its stream and is decoded in its turn (session.js 114-124,  *)
(* 287-296).                                                               *)
THEOREM DecoderInStep == Spec => []OutOfStepOnlyByCancel
<1>1. Init => Sound /\ Hearing /\ Delivery /\ Decoding
  BY InitSound, HearingInit, DeliveryInit, DecodingInit
<1>2. Sound /\ Hearing /\ Delivery /\ Decoding /\ [Next]_vars
        => (Sound /\ Hearing /\ Delivery /\ Decoding)'
  BY SoundStep, HearingStep, DeliveryStep, DecodingStep
<1>3. Decoding => OutOfStepOnlyByCancel
  BY DEF Decoding, Cancelled, OutOfStepOnlyByCancel
<1> QED BY <1>1, <1>2, <1>3, PTL DEF Spec
=============================================================================
