-------------------------- MODULE QuicStreamProofs --------------------------
(***************************************************************************)
(* Theorems about the receiving half of a QUIC stream, for a stream of any *)
(* length, cut and repeated in any way.  The inductive invariant says that *)
(* what was emitted is exactly the bytes before recvOffset, and that the   *)
(* frames kept are ordered by where they start.                            *)
(*                                                                         *)
(* The client runs such a stream, so what is proved of it holds there; the *)
(* second half is about the client's own part, the dynamic table of QPACK  *)
(* and the response.                                                       *)
(***************************************************************************)
EXTENDS H3Client, FiniteSetTheorems, SequenceTheorems, WellFoundedInduction,
        TLAPS

Sorted(s) == \A i, j \in 1 .. Len(s) : i <= j => s[i].offset <= s[j].offset

IInv ==
  /\ TypeOK
  /\ Sorted(pending)
  /\ delivered = Promise!Prefix(recvOffset)
  /\ ended => recvOffset = Size
  /\ IsFiniteSet(Kept(pending))
  /\ pendingBytes = Cardinality(Kept(pending))

-----------------------------------------------------------------------------
(* Lemmas about naturals and sequences.                                    *)

NatLess == {x \in Nat \X Nat : x[1] < x[2]}

(* A set of naturals that is not empty has a least element.                *)
LEMMA LeastNatural ==
  ASSUME NEW T \in SUBSET Nat, T # {}
  PROVE  \E p \in T : \A q \in T : p <= q
<1>1. OpToRel(<, Nat) = NatLess
  BY DEF OpToRel, NatLess
<1>2. IsWellFoundedOn(NatLess, Nat)
  BY <1>1, NatLessThanWellFounded
<1>3. T \subseteq Nat
  OBVIOUS
<1>4. PICK p \in T : \A q \in T : ~(<<q, p>> \in NatLess)
  BY <1>2, <1>3, WFMin, Zenon
<1>5. ASSUME NEW q \in T
      PROVE  p <= q
  <2>1. p \in Nat /\ q \in Nat /\ ~(<<q, p>> \in NatLess)
    BY <1>4
  <2> QED BY <2>1 DEF NatLess
<1> QED BY <1>5

(* A set with 0 that is closed under the successor holds every natural.    *)
LEMMA NaturalsClosed ==
  ASSUME NEW T, 0 \in T, \A n \in Nat : n \in T => n + 1 \in T
  PROVE  \A n \in Nat : n \in T
<1> SUFFICES ASSUME NEW n \in Nat \ T
             PROVE  FALSE
  OBVIOUS
<1>1. PICK p \in Nat \ T : \A q \in Nat \ T : p <= q
  <2>1. Nat \ T \in SUBSET Nat /\ Nat \ T # {}
    OBVIOUS
  <2> QED BY <2>1, LeastNatural
<1>2. p # 0 /\ p - 1 \in Nat /\ p - 1 + 1 = p
  OBVIOUS
<1>3. p - 1 \in T
  BY <1>1, <1>2
<1> QED BY <1>2, <1>3

(* A function on 1 .. n is a sequence.                                     *)
LEMMA FunctionIsSeq ==
  ASSUME NEW S, NEW n \in Nat, NEW f \in [1 .. n -> S]
  PROVE  f \in Seq(S) /\ Len(f) = n /\ DOMAIN f = 1 .. n
OBVIOUS

(* What is put in stands at p, and the others keep their order.            *)
LEMMA InsertAtProperties ==
  ASSUME NEW S, NEW s \in Seq(S), NEW p \in 1 .. Len(s) + 1, NEW e \in S
  PROVE  LET t == InsertAt(s, p, e)
         IN /\ t \in Seq(S)
            /\ Len(t) = Len(s) + 1
            /\ \A i \in 1 .. p - 1 : t[i] = s[i]
            /\ t[p] = e
            /\ \A i \in p .. Len(s) : t[i + 1] = s[i]
<1> DEFINE a == SubSeq(s, 1, p - 1)
           b == a \o <<e>>
           c == SubSeq(s, p, Len(s))
           t == b \o c
<1>1. Len(s) \in Nat /\ p \in Nat /\ p >= 1 /\ p <= Len(s) + 1
      /\ \A i \in 1 .. Len(s) : s[i] \in S
  BY LenProperties, ElementOfSeq
<1>2. a \in Seq(S) /\ Len(a) = p - 1 /\ \A i \in 1 .. p - 1 : a[i] = s[i]
  <2>1. \A i \in 1 .. p - 1 : s[i] \in S
    BY <1>1
  <2>2. /\ a \in Seq(S)
        /\ Len(a) = IF 1 <= p - 1 THEN p - 1 - 1 + 1 ELSE 0
        /\ \A i \in 1 .. p - 1 - 1 + 1 : a[i] = s[1 + i - 1]
    <3> HIDE DEF a
    <3>1. 1 \in Int /\ p - 1 \in Int
      BY <1>1
    <3> QED BY <2>1, <3>1, SubSeqProperties DEF a
  <2> HIDE DEF a
  <2> QED BY <1>1, <2>2
<1>3. /\ c \in Seq(S) /\ Len(c) = Len(s) - p + 1
      /\ \A i \in 1 .. Len(s) - p + 1 : c[i] = s[p + i - 1]
  BY <1>1, SubSeqProperties
<1>4. <<e>> \in Seq(S) /\ Len(<<e>>) = 1 /\ <<e>>[1] = e
  OBVIOUS
<1> HIDE DEF a, c
<1>5. /\ b \in Seq(S) /\ Len(b) = p
      /\ \A i \in 1 .. p : b[i] = IF i <= p - 1 THEN a[i] ELSE <<e>>[i - (p - 1)]
  BY <1>1, <1>2, <1>4, ConcatProperties
<1> HIDE DEF b
<1>6. /\ t \in Seq(S) /\ Len(t) = Len(s) + 1
      /\ \A i \in 1 .. Len(s) + 1 : t[i] = IF i <= p THEN b[i] ELSE c[i - p]
  BY <1>1, <1>3, <1>5, ConcatProperties
<1> HIDE DEF t
<1>7. /\ \A i \in 1 .. p - 1 : t[i] = s[i]
      /\ t[p] = e
      /\ \A i \in p .. Len(s) : t[i + 1] = s[i]
  <2>1. ASSUME NEW i \in 1 .. p - 1
        PROVE  t[i] = s[i]
    <3>1. i \in 1 .. p /\ i \in 1 .. Len(s) + 1 /\ i <= p - 1 /\ i <= p
      BY <1>1
    <3> QED BY <3>1, <1>2, <1>5, <1>6
  <2>2. t[p] = e
    <3>1. p \in 1 .. Len(s) + 1 /\ p \in 1 .. p /\ ~(p <= p - 1)
          /\ p - (p - 1) = 1 /\ p <= p
      BY <1>1
    <3> QED BY <3>1, <1>4, <1>5, <1>6
  <2>3. ASSUME NEW i \in p .. Len(s)
        PROVE  t[i + 1] = s[i]
    <3>1. i + 1 \in 1 .. Len(s) + 1 /\ ~(i + 1 <= p) /\ i + 1 - p \in 1 .. Len(s) - p + 1
          /\ p + (i + 1 - p) - 1 = i
      BY <1>1
    <3>2. t[i + 1] = c[i + 1 - p]
      BY <3>1, <1>6
    <3> QED BY <3>1, <3>2, <1>3
  <2> QED BY <2>1, <2>2, <2>3
<1>8. InsertAt(s, p, e) = t
  BY DEF InsertAt, a, b, c, t
<1> QED BY <1>6, <1>7, <1>8

(* The first m elements of a sequence, and what is left without them.      *)
LEMMA FirstProperties ==
  ASSUME NEW S, NEW s \in Seq(S), NEW m \in 0 .. Len(s)
  PROVE  LET a == SubSeq(s, 1, m)
         IN a \in Seq(S) /\ Len(a) = m /\ \A i \in 1 .. m : a[i] = s[i]
<1> DEFINE a == SubSeq(s, 1, m)
<1>1. Len(s) \in Nat /\ m \in Nat /\ m <= Len(s)
  BY LenProperties
<1>2. \A i \in 1 .. m : s[i] \in S
  BY <1>1, ElementOfSeq
<1> HIDE DEF a
<1>3. /\ a \in Seq(S)
      /\ Len(a) = IF 1 <= m THEN m - 1 + 1 ELSE 0
      /\ \A i \in 1 .. m - 1 + 1 : a[i] = s[1 + i - 1]
  BY <1>1, <1>2, SubSeqProperties DEF a
<1>4. a \in Seq(S) /\ Len(a) = m /\ \A i \in 1 .. m : a[i] = s[i]
  BY <1>1, <1>3
<1> QED BY <1>4 DEF a

(* What is left of a sequence without its first m elements.                *)
LEMMA RestProperties ==
  ASSUME NEW S, NEW s \in Seq(S), NEW m \in 0 .. Len(s)
  PROVE  LET c == SubSeq(s, m + 1, Len(s))
         IN c \in Seq(S) /\ Len(c) = Len(s) - m /\ \A i \in 1 .. Len(s) - m : c[i] = s[m + i]
<1> DEFINE c == SubSeq(s, m + 1, Len(s))
<1>1. Len(s) \in Nat /\ m \in Nat /\ m <= Len(s)
  BY LenProperties
<1>2. \A i \in (m + 1) .. Len(s) : s[i] \in S
  BY <1>1, ElementOfSeq
<1> HIDE DEF c
<1>3. /\ c \in Seq(S)
      /\ Len(c) = IF m + 1 <= Len(s) THEN Len(s) - (m + 1) + 1 ELSE 0
      /\ \A i \in 1 .. Len(s) - (m + 1) + 1 : c[i] = s[m + 1 + i - 1]
  BY <1>1, <1>2, SubSeqProperties DEF c
<1>4. c \in Seq(S) /\ Len(c) = Len(s) - m
  BY <1>1, <1>3
<1>5. ASSUME NEW i \in 1 .. Len(s) - m
      PROVE  c[i] = s[m + i]
  <2>1. i \in 1 .. Len(s) - (m + 1) + 1 /\ m + 1 + i - 1 = m + i
    BY <1>1
  <2> QED BY <1>3, <2>1
<1> QED BY <1>4, <1>5 DEF c

(* What has been concatenated of ss after its first i sequences.           *)
FlattenStep(ss, i, f) == IF i = 1 THEN ss[i] ELSE f[i - 1] \o ss[i]

(* FlattenSeq is its recursive function, at the last of the sequences.      *)
LEMMA FlattenUnfolds ==
  ASSUME NEW n \in Nat, NEW ss, Len(ss) = n, n # 0
  PROVE  \E f : /\ f = [i \in 1 .. n |-> FlattenStep(ss, i, f)]
                /\ FlattenSeq(ss) = f[n]
<1> DEFINE T == {m \in Nat : \E f : f = [i \in 1 .. m |-> FlattenStep(ss, i, f)]}
<1>1. 0 \in T
  <2> DEFINE f == [i \in 1 .. 0 |-> 0]
  <2>1. f = [i \in 1 .. 0 |-> FlattenStep(ss, i, f)]
    OBVIOUS
  <2> QED BY <2>1
<1>2. ASSUME NEW m \in Nat, m \in T
      PROVE  m + 1 \in T
  <2>1. PICK f : f = [i \in 1 .. m |-> FlattenStep(ss, i, f)]
    BY <1>2
  <2> DEFINE g == [i \in 1 .. m + 1 |-> FlattenStep(ss, i, f)]
  <2>2. \A i \in 1 .. m : g[i] = f[i]
    BY <2>1
  <2>3. \A i \in 1 .. m + 1 : FlattenStep(ss, i, f) = FlattenStep(ss, i, g)
    <3> SUFFICES ASSUME NEW i \in 1 .. m + 1, i # 1
                 PROVE  f[i - 1] = g[i - 1]
      BY DEF FlattenStep
    <3>1. i - 1 \in 1 .. m
      OBVIOUS
    <3> QED BY <3>1, <2>2
  <2>4. \A i \in 1 .. m + 1 : g[i] = FlattenStep(ss, i, g)
    BY <2>3
  <2>5. g = [i \in 1 .. m + 1 |-> FlattenStep(ss, i, g)]
    <3>1. DOMAIN g = 1 .. m + 1 /\ g = [i \in DOMAIN g |-> g[i]]
      OBVIOUS
    <3> HIDE DEF g
    <3> QED BY <3>1, <2>4
  <2> HIDE DEF g
  <2>6. \E h : h = [i \in 1 .. m + 1 |-> FlattenStep(ss, i, h)]
    BY <2>5
  <2> QED BY <2>6
<1> HIDE DEF T
<1>3. n \in T
  BY <1>1, <1>2, NaturalsClosed
<1> USE DEF T
<1> DEFINE Is(f) == f = [i \in 1 .. Len(ss) |-> FlattenStep(ss, i, f)]
           whole == CHOOSE f : Is(f)
<1>4. Is(whole)
  <2>1. \E f : Is(f)
    BY <1>3
  <2> QED BY <2>1, Zenon
<1>5. FlattenSeq(ss) = whole[n]
  BY DEF FlattenSeq, FlattenStep
<1>6. whole = [i \in 1 .. n |-> FlattenStep(ss, i, whole)]
  BY <1>4
<1> HIDE DEF whole
<1> QED BY <1>5, <1>6

(* The concatenation of sequences is one, and that of sequences of one     *)
(* element each is the sequence of these.                                  *)
LEMMA FlattenProperties ==
  ASSUME NEW S, NEW n \in Nat, NEW ss \in [1 .. n -> Seq(S)]
  PROVE  /\ FlattenSeq(ss) \in Seq(S)
         /\ (\A i \in 1 .. n : Len(ss[i]) = 1) => FlattenSeq(ss) = [i \in 1 .. n |-> ss[i][1]]
<1>1. Len(ss) = n /\ DOMAIN ss = 1 .. n
  BY FunctionIsSeq
<1>2. CASE n = 0
  <2>1. FlattenSeq(ss) = ss
    BY <1>1, <1>2 DEF FlattenSeq
  <2>2. ss = <<>> /\ \A z : [i \in 1 .. n |-> z] = <<>>
    BY <1>1, <1>2
  <2>3. [i \in 1 .. n |-> ss[i][1]] = <<>>
    BY <1>2
  <2> QED BY <2>1, <2>2, <2>3
<1>3. CASE n # 0
  <2>1. PICK f : f = [i \in 1 .. n |-> FlattenStep(ss, i, f)] /\ FlattenSeq(ss) = f[n]
    BY <1>1, <1>3, FlattenUnfolds
  <2>2. \A i \in 1 .. n : f[i] = IF i = 1 THEN ss[i] ELSE f[i - 1] \o ss[i]
    <3>1. \A i \in 1 .. n : f[i] = FlattenStep(ss, i, f)
      BY <2>1
    <3> QED BY <3>1 DEF FlattenStep
  <2> DEFINE Singles == \A i \in 1 .. n : Len(ss[i]) = 1
             Good(i) == i \in 1 .. n =>
               /\ f[i] \in Seq(S)
               /\ Singles => Len(f[i]) = i /\ \A j \in 1 .. i : f[i][j] = ss[j][1]
             T == {i \in Nat : Good(i)}
  <2>3. 0 \in T
    OBVIOUS
  <2>4. ASSUME NEW i \in Nat, i \in T
        PROVE  i + 1 \in T
    <3> SUFFICES ASSUME i + 1 \in 1 .. n PROVE Good(i + 1)
      OBVIOUS
    <3>1. CASE i = 0
      <4>1. f[1] = ss[1] /\ ss[1] \in Seq(S)
        BY <2>2, <3>1
      <4> QED BY <3>1, <4>1
    <3>2. CASE i # 0
      <4>1. i \in 1 .. n /\ Good(i)
        BY <2>4, <3>2
      <4>2. PICK a \in Seq(S), b \in Seq(S) : a = f[i] /\ b = ss[i + 1] /\ f[i + 1] = a \o b
        <5>1. f[i] \in Seq(S)
          BY <4>1
        <5>2. ss[i + 1] \in Seq(S)
          OBVIOUS
        <5>3. f[i + 1] = f[i] \o ss[i + 1]
          <6>1. PICK k \in 1 .. n : k = i + 1 /\ k # 1 /\ k - 1 = i
            BY <3>2
          <6>2. f[k] = f[k - 1] \o ss[k]
            BY <2>2, <6>1
          <6> QED BY <6>1, <6>2
        <5> QED BY <5>1, <5>2, <5>3
      <4>3. /\ a \o b \in Seq(S) /\ Len(a \o b) = Len(a) + Len(b)
            /\ \A j \in 1 .. Len(a) : (a \o b)[j] = a[j]
            /\ \A j \in 1 .. Len(b) : (a \o b)[Len(a) + j] = b[j]
        OBVIOUS
      <4>4. ASSUME Singles
            PROVE  Len(f[i + 1]) = i + 1 /\ \A j \in 1 .. i + 1 : f[i + 1][j] = ss[j][1]
        <5>1. Len(a) = i /\ Len(b) = 1 /\ \A j \in 1 .. i : a[j] = ss[j][1]
          BY <4>1, <4>2, <4>4
        <5>2. (a \o b)[i + 1] = ss[i + 1][1]
          <6>1. 1 \in 1 .. Len(b) /\ Len(a) + 1 = i + 1
            BY <5>1
          <6>2. (a \o b)[Len(a) + 1] = b[1]
            BY <4>3, <6>1
          <6> QED BY <4>2, <6>1, <6>2
        <5>3. ASSUME NEW j \in 1 .. i + 1 PROVE (a \o b)[j] = ss[j][1]
          <6>1. CASE j = i + 1
            BY <5>2, <6>1
          <6>2. CASE j # i + 1
            <7>1. j \in 1 .. i
              BY <6>2
            <7> QED BY <4>3, <5>1, <7>1
          <6> QED BY <6>1, <6>2
        <5> QED BY <4>2, <4>3, <5>1, <5>3
      <4> QED BY <4>2, <4>3, <4>4
    <3> QED BY <3>1, <3>2
  <2> HIDE DEF T
  <2>5. n \in T
    BY <2>3, <2>4, NaturalsClosed
  <2>6. Good(n) /\ n \in 1 .. n
    BY <1>3, <2>5 DEF T
  <2>7. ASSUME Singles PROVE f[n] = [i \in 1 .. n |-> ss[i][1]]
    <3> DEFINE whole == f[n]
    <3>1. whole \in Seq(S) /\ Len(whole) = n /\ \A j \in 1 .. n : whole[j] = ss[j][1]
      BY <2>6, <2>7
    <3> HIDE DEF whole
    <3>2. whole = [j \in 1 .. n |-> whole[j]]
      BY <3>1
    <3>3. whole = [j \in 1 .. n |-> ss[j][1]]
      BY <3>1, <3>2
    <3> QED BY <3>3 DEF whole
  <2> QED BY <2>1, <2>6, <2>7
<1> QED BY <1>2, <1>3

(* A finite set of naturals that is not empty has a greatest element.      *)
LEMMA GreatestNatural ==
  ASSUME NEW S \in SUBSET Nat, S # {}, NEW b \in Nat, \A x \in S : x <= b
  PROVE  Max(S) \in S /\ \A x \in S : x <= Max(S)
<1> DEFINE T == {y \in Nat : b - y \in S}
<1>1. T \in SUBSET Nat /\ T # {}
  <2>1. PICK x \in S : TRUE
    OBVIOUS
  <2>2. b - x \in Nat /\ b - (b - x) = x
    OBVIOUS
  <2> QED BY <2>1, <2>2
<1>2. PICK p \in T : \A q \in T : p <= q
  BY <1>1, LeastNatural
<1>3. b - p \in S
  OBVIOUS
<1>4. \A x \in S : b - p >= x
  <2> SUFFICES ASSUME NEW x \in S PROVE b - p >= x
    OBVIOUS
  <2>1. b - x \in Nat /\ b - (b - x) = x
    OBVIOUS
  <2>2. b - x \in T
    BY <2>1
  <2>3. p <= b - x
    BY <1>2, <2>2
  <2> QED BY <2>3
<1>5. \E x \in S : \A y \in S : x >= y
  BY <1>3, <1>4
<1>6. Max(S) \in S /\ \A y \in S : Max(S) >= y
  BY <1>5 DEF Max
<1> QED BY <1>6

-----------------------------------------------------------------------------
(***************************************************************************)
(* The bytes kept.                                                         *)
(***************************************************************************)

(* A frame that is put in adds its bytes, and a frame taken out, at t[p],  *)
(* takes them away.                                                        *)
LEMMA KeptInserted ==
  ASSUME NEW s \in Seq(Frames), NEW t \in Seq(Frames), NEW p \in 1 .. Len(s) + 1,
         Len(t) = Len(s) + 1,
         \A i \in 1 .. p - 1 : t[i] = s[i],
         \A i \in p .. Len(s) : t[i + 1] = s[i]
  PROVE  /\ IsFiniteSet(Kept(s)) <=> IsFiniteSet(Kept(t))
         /\ IsFiniteSet(Kept(s)) => Cardinality(Kept(t)) = Cardinality(Kept(s)) + t[p].len
<1> DEFINE new == {p} \X (1 .. t[p].len)
           old == Kept(t) \ new
           Moved(i) == IF i < p THEN i ELSE i + 1
           g == [x \in Kept(s) |-> <<Moved(x[1]), x[2]>>]
<1>1. /\ Len(s) \in Nat /\ Len(t) \in Nat /\ p \in 1 .. Len(t)
      /\ \A i \in 1 .. Len(s) : s[i] \in Frames
      /\ \A i \in 1 .. Len(t) : t[i] \in Frames
  BY LenProperties, ElementOfSeq
<1>2. \A f \in Frames : f.len \in Nat
  BY StreamAssumption DEF Frames
<1>3. \A i \in 1 .. Len(s) : Moved(i) \in 1 .. Len(t) /\ Moved(i) # p /\ t[Moved(i)] = s[i]
  BY <1>1
<1>4. \A j \in 1 .. Len(t) : j # p => \E i \in 1 .. Len(s) : Moved(i) = j
  <2> SUFFICES ASSUME NEW j \in 1 .. Len(t), j # p
               PROVE  \E i \in 1 .. Len(s) : Moved(i) = j
    OBVIOUS
  <2>1. CASE j < p
    BY <1>1, <2>1
  <2>2. CASE j > p
    <3>1. j - 1 \in 1 .. Len(s) /\ ~(j - 1 < p) /\ j - 1 + 1 = j
      BY <1>1, <2>2
    <3> QED BY <3>1
  <2> QED BY <1>1, <2>1, <2>2
<1>5. \A i, j \in 1 .. Len(s) : Moved(i) = Moved(j) => i = j
  BY <1>1
<1> HIDE DEF Moved
<1>6. \A x : x \in Kept(s) <=>
        \E i \in 1 .. Len(s) : \E k \in 1 .. s[i].len : x = <<i, k>>
  BY DEF Kept
<1>7. \A x : x \in old <=>
        \E i \in 1 .. Len(t) : \E k \in 1 .. t[i].len : i # p /\ x = <<i, k>>
  BY DEF Kept
<1>8. Kept(t) = old \cup new /\ old \cap new = {}
  BY <1>1 DEF Kept
<1> HIDE DEF old
<1>9. g \in Bijection(Kept(s), old)
  <2>1. ASSUME NEW x \in Kept(s)
        PROVE  <<Moved(x[1]), x[2]>> \in old
    <3>1. PICK i \in 1 .. Len(s) : \E k \in 1 .. s[i].len : x = <<i, k>>
      BY <1>6
    <3>2. PICK k \in 1 .. s[i].len : x = <<i, k>>
      BY <3>1
    <3>3. Moved(i) \in 1 .. Len(t) /\ Moved(i) # p /\ k \in 1 .. t[Moved(i)].len
      BY <1>3
    <3>4. <<Moved(i), k>> \in old
      BY <3>3, <1>7
    <3> QED BY <3>2, <3>4
  <2>2. ASSUME NEW y \in old
        PROVE  \E x \in Kept(s) : y = <<Moved(x[1]), x[2]>>
    <3>1. PICK j \in 1 .. Len(t) : \E k \in 1 .. t[j].len : j # p /\ y = <<j, k>>
      BY <1>7
    <3>2. PICK k \in 1 .. t[j].len : j # p /\ y = <<j, k>>
      BY <3>1
    <3>3. PICK i \in 1 .. Len(s) : Moved(i) = j
      BY <3>2, <1>4
    <3>4. k \in 1 .. s[i].len
      BY <3>3, <1>3
    <3>5. <<i, k>> \in Kept(s)
      BY <3>4, <1>6
    <3>6. y = <<Moved(<<i, k>>[1]), <<i, k>>[2]>>
      BY <3>2, <3>3
    <3> QED BY <3>5, <3>6
  <2>3. \A x, y \in Kept(s) : <<Moved(x[1]), x[2]>> = <<Moved(y[1]), y[2]>> => x = y
    BY <1>5, <1>6
  <2> QED BY <2>1, <2>2, <2>3 DEF Bijection, Injection, Surjection, IsInjective
<1>10. IsFiniteSet(Kept(s)) <=> IsFiniteSet(old)
  BY <1>9, FS_Surjection, FS_Injection DEF Bijection
<1>11. IsFiniteSet(Kept(s)) => Cardinality(Kept(s)) = Cardinality(old)
  BY <1>9, FS_Bijection DEF ExistsBijection
<1>12. t[p].len \in Nat
  BY <1>1, <1>2
<1>13. IsFiniteSet(new) /\ Cardinality(new) = t[p].len
  <2>1. IsFiniteSet({p}) /\ Cardinality({p}) = 1
    BY FS_Singleton
  <2>2. ASSUME NEW n \in Nat
        PROVE  /\ IsFiniteSet({p} \X (1 .. n))
               /\ Cardinality({p} \X (1 .. n)) = n
    <3>0. n \in Int /\ 1 \in Int /\ (IF 1 > n THEN 0 ELSE n - 1 + 1) = n
      OBVIOUS
    <3>1. IsFiniteSet(1 .. n) /\ Cardinality(1 .. n) = n
      BY ONLY <3>0, FS_Interval
    <3>2. /\ IsFiniteSet({p} \X (1 .. n))
          /\ Cardinality({p} \X (1 .. n)) = Cardinality({p}) * Cardinality(1 .. n)
      BY <2>1, <3>1, FS_Product, Zenon
    <3> QED BY <2>1, <3>1, <3>2
  <2> QED BY <2>2, <1>12
<1> HIDE DEF new
<1>14. IsFiniteSet(old) <=> IsFiniteSet(Kept(t))
  BY <1>8, <1>13, FS_Union, FS_Subset
<1>15. IsFiniteSet(old) => Cardinality(Kept(t)) = Cardinality(old) + t[p].len
  <2> SUFFICES ASSUME IsFiniteSet(old) PROVE Cardinality(Kept(t)) = Cardinality(old) + t[p].len
    OBVIOUS
  <2>1. Cardinality(old \cup new)
          = Cardinality(old) + Cardinality(new) - Cardinality(old \cap new)
    BY <1>13, FS_Union
  <2>2. Cardinality(old) \in Nat /\ Cardinality({}) = 0
    BY FS_CardinalityType, FS_EmptySet
  <2>3. Cardinality(Kept(t)) = Cardinality(old) + t[p].len - 0
    BY <1>8, <1>13, <2>1, <2>2
  <2> QED BY <1>12, <2>2, <2>3
<1> QED BY <1>10, <1>11, <1>14, <1>15

-----------------------------------------------------------------------------
(* Any frame can be put in: there is one place that keeps the order.  The  *)
(* place is the first of those no frame starts beyond.                     *)
LEMMA PlaceExists ==
  ASSUME pending \in Seq(Frames), Sorted(pending), NEW f \in Frames
  PROVE  Places(f) # {}
<1> DEFINE beyond == {i \in 1 .. Len(pending) : pending[i].offset > f.offset}
           T == beyond \cup {Len(pending) + 1}
<1>1. Len(pending) \in Nat /\ \A i \in 1 .. Len(pending) : pending[i].offset \in Nat
  BY LenProperties, ElementOfSeq, StreamAssumption DEF Frames
<1>2. f.offset \in Nat
  BY StreamAssumption DEF Frames
<1>3. T \subseteq Nat /\ T # {}
  BY <1>1
<1>5. PICK p \in T : \A q \in T : p <= q
  BY <1>3, LeastNatural
<1>6. p \in 1 .. Len(pending) + 1
  BY <1>1
<1>7. ASSUME NEW i \in 1 .. Len(pending)
      PROVE  i < p <=> pending[i].offset <= f.offset
  <2>1. CASE i < p
    <3>1. i \notin T
      BY <1>1, <1>5, <1>6, <2>1
    <3> QED BY <3>1, <1>1, <1>2, <2>1
  <2>2. CASE ~(i < p)
    <3>1. p \in beyond /\ p <= i
      BY <1>1, <1>6, <2>2
    <3> QED BY <1>1, <1>2, <2>2, <3>1 DEF Sorted
  <2> QED BY <2>1, <2>2
<1> QED BY <1>6, <1>7 DEF Places

-----------------------------------------------------------------------------
(* Every step keeps the invariant.                                         *)
LEMMA InitIInv == Init => IInv
<1> SUFFICES ASSUME Init PROVE IInv
  OBVIOUS
<1>1. pending = <<>> /\ Len(pending) = 0 /\ pending \in Seq(Frames)
  BY DEF Init
<1>2. Kept(pending) = {}
  BY <1>1 DEF Kept
<1>3. delivered = Promise!Prefix(0) /\ delivered \in Seq(1 .. Size)
  BY DEF Init, Promise!Prefix
<1>4. Sorted(pending)
  BY <1>1 DEF Sorted
<1>5. IsFiniteSet(Kept(pending)) /\ pendingBytes = Cardinality(Kept(pending))
  BY <1>2, FS_EmptySet DEF Init
<1>6. delivered = Promise!Prefix(recvOffset) /\ ended = FALSE
  BY <1>3 DEF Init
<1>7. TypeOK
  <2>1. recvOffset = 0 /\ 0 \in 0 .. Size /\ pendingBytes \in Nat
    BY StreamAssumption DEF Init
  <2>2. ended \in BOOLEAN /\ failed \in BOOLEAN
    BY DEF Init
  <2> QED BY <1>1, <1>3, <2>1, <2>2 DEF TypeOK
<1> QED BY <1>4, <1>5, <1>6, <1>7 DEF IInv

LEMMA ReceiveIInv ==
  ASSUME IInv, NEW f \in Frames, Receive(f)
  PROVE  IInv'
<1>1. PICK p \in Places(f) : pending' = InsertAt(pending, p, f)
  BY DEF Receive
<1>2. pending \in Seq(Frames) /\ Len(pending) \in Nat /\ p \in 1 .. Len(pending) + 1
  BY LenProperties DEF IInv, TypeOK, Places
<1>3. /\ pending' \in Seq(Frames) /\ Len(pending') = Len(pending) + 1
      /\ \A i \in 1 .. p - 1 : pending'[i] = pending[i]
      /\ pending'[p] = f
      /\ \A i \in p .. Len(pending) : pending'[i + 1] = pending[i]
  <2>1. PICK t : t = InsertAt(pending, p, f)
    OBVIOUS
  <2>2. /\ t \in Seq(Frames) /\ Len(t) = Len(pending) + 1
        /\ \A i \in 1 .. p - 1 : t[i] = pending[i]
        /\ t[p] = f
        /\ \A i \in p .. Len(pending) : t[i + 1] = pending[i]
    BY <1>2, <2>1, InsertAtProperties
  <2> QED BY <1>1, <2>1, <2>2
<1>4. \A i \in 1 .. Len(pending) : pending[i] \in Frames
  BY <1>2, ElementOfSeq
<1>5. \A g \in Frames : g.offset \in Nat /\ g.len \in Nat
  BY StreamAssumption DEF Frames
<1>6. Sorted(pending')
  <2>1. \A i \in 1 .. Len(pending) : i < p <=> pending[i].offset <= f.offset
    BY <1>1 DEF Places
  <2>2. ASSUME NEW i \in 1 .. Len(pending'), NEW j \in 1 .. Len(pending'), i <= j
        PROVE  pending'[i].offset <= pending'[j].offset
    <3>1. \A k \in 1 .. Len(pending') :
            \/ k < p /\ k \in 1 .. Len(pending) /\ pending'[k] = pending[k]
            \/ k = p /\ pending'[k] = f
            \/ k > p /\ k - 1 \in 1 .. Len(pending) /\ pending'[k] = pending[k - 1]
      <4> SUFFICES ASSUME NEW k \in 1 .. Len(pending'), k > p
                   PROVE  k - 1 \in 1 .. Len(pending) /\ pending'[k] = pending[k - 1]
        BY <1>2, <1>3
      <4>1. k - 1 \in p .. Len(pending) /\ k - 1 + 1 = k /\ k - 1 \in 1 .. Len(pending)
        BY <1>2, <1>3
      <4> QED BY <4>1, <1>3
    <3>2. \A k, l \in 1 .. Len(pending) : k <= l => pending[k].offset <= pending[l].offset
      BY DEF IInv, Sorted
    <3>3. /\ \A k \in 1 .. Len(pending) : pending[k].offset \in Nat
          /\ f.offset \in Nat /\ i \in Nat /\ j \in Nat /\ p \in Nat
      BY <1>2, <1>3, <1>4, <1>5
    <3>4. CASE i < p /\ j < p
      <4>1. pending'[i] = pending[i] /\ pending'[j] = pending[j]
            /\ i \in 1 .. Len(pending) /\ j \in 1 .. Len(pending)
        BY <3>1, <3>3, <3>4
      <4> QED BY <2>2, <3>2, <4>1
    <3>5. CASE i < p /\ j = p
      <4>1. pending'[i] = pending[i] /\ pending'[j] = f /\ i \in 1 .. Len(pending)
        BY <3>1, <3>3, <3>5
      <4> QED BY <2>1, <3>3, <3>5, <4>1
    <3>6. CASE i < p /\ j > p
      <4>1. i <= j - 1 /\ pending'[i] = pending[i] /\ pending'[j] = pending[j - 1]
            /\ i \in 1 .. Len(pending) /\ j - 1 \in 1 .. Len(pending)
        BY <3>1, <3>3, <3>6
      <4> QED BY <3>2, <4>1
    <3>7. CASE i = p /\ j = p
      BY <3>1, <3>3, <3>7
    <3>8. CASE i = p /\ j > p
      <4>1. ~(j - 1 < p) /\ j - 1 \in 1 .. Len(pending) /\ pending'[j] = pending[j - 1]
            /\ pending'[i] = f
        BY <3>1, <3>3, <3>8
      <4> QED BY <2>1, <3>3, <4>1
    <3>9. CASE i > p /\ j > p
      <4>1. i - 1 <= j - 1 /\ pending'[i] = pending[i - 1] /\ pending'[j] = pending[j - 1]
            /\ i - 1 \in 1 .. Len(pending) /\ j - 1 \in 1 .. Len(pending)
        BY <2>2, <3>1, <3>3, <3>9
      <4> QED BY <3>2, <4>1
    <3> QED BY <2>2, <3>3, <3>4, <3>5, <3>6, <3>7, <3>8, <3>9
  <2> QED BY <2>2 DEF Sorted
<1>7. IsFiniteSet(Kept(pending')) /\ pendingBytes' = Cardinality(Kept(pending'))
  BY <1>2, <1>3, KeptInserted DEF IInv, Receive
<1>8. pendingBytes' \in Nat
  BY <1>5 DEF IInv, TypeOK, Receive
<1> QED BY <1>3, <1>6, <1>7, <1>8 DEF IInv, TypeOK, Receive

LEMMA OverflowIInv ==
  ASSUME IInv, NEW f \in Frames, Overflow(f)
  PROVE  IInv'
<1>1. pending' = <<>> /\ Len(pending') = 0 /\ pending' \in Seq(Frames)
  BY DEF Overflow
<1>2. Kept(pending') = {}
  BY <1>1 DEF Kept
<1>3. Sorted(pending')
  BY <1>1 DEF Sorted
<1>4. IsFiniteSet(Kept(pending')) /\ pendingBytes' = Cardinality(Kept(pending'))
  BY <1>2, FS_EmptySet DEF Overflow
<1> QED BY <1>1, <1>3, <1>4 DEF IInv, TypeOK, Overflow

LEMMA PrefixProperties ==
  ASSUME NEW n \in 0 .. Size
  PROVE  /\ Promise!Prefix(n) \in Seq(1 .. Size)
         /\ Len(Promise!Prefix(n)) = n
         /\ \A i \in 1 .. n : Promise!Prefix(n)[i] = i
BY StreamAssumption DEF Promise!Prefix

LEMMA EmitAdvances ==
  ASSUME IInv, Emit
  PROVE  recvOffset' >= recvOffset
<1> DEFINE f == Head(pending)
<1>1. f \in Frames /\ recvOffset \in Nat
  BY HeadTailProperties, StreamAssumption DEF IInv, TypeOK, Emit, Emitting
<1>2. f.len \in Nat /\ f.offset \in Nat
  BY <1>1, StreamAssumption DEF Frames
<1> HIDE DEF f
<1>3. \/ recvOffset' = recvOffset
      \/ ~(Skip(f) >= f.len) /\ recvOffset' = After(f)
  BY DEF Emit, f
<1> QED BY <1>1, <1>2, <1>3 DEF Skip, After

LEMMA EmitIInv ==
  ASSUME IInv, Emit
  PROVE  IInv'
<1> DEFINE f == Head(pending)
<1>1. /\ pending \in Seq(Frames) /\ Len(pending) \in Nat /\ pending # <<>>
      /\ recvOffset \in Nat /\ recvOffset <= Size
      /\ Size \in Nat
  BY LenProperties, StreamAssumption DEF IInv, TypeOK, Emit, Emitting
<1>2. /\ pending' \in Seq(Frames) /\ Len(pending') = Len(pending) - 1
      /\ \A i \in 1 .. Len(pending') : pending'[i] = pending[i + 1]
      /\ f \in Frames /\ f = pending[1]
  BY <1>1, HeadTailProperties DEF Emit
<1>3. Len(pending) >= 1
  BY <1>1, EmptySeq
<1>4. /\ f.offset \in Nat /\ f.len \in Nat /\ f.fin \in BOOLEAN
      /\ f.offset + f.len <= Size /\ (f.fin => f.offset + f.len = Size)
      /\ f.offset <= recvOffset
  <2>1. \A g \in Frames : /\ g.offset \in Nat /\ g.len \in Nat /\ g.fin \in BOOLEAN
                          /\ g.offset + g.len <= Size /\ (g.fin => g.offset + g.len = Size)
    BY <1>1 DEF Frames
  <2> QED BY <1>2, <2>1 DEF Emit, Emitting
<1>5. Sorted(pending')
  <2> SUFFICES ASSUME NEW i \in 1 .. Len(pending'), NEW j \in 1 .. Len(pending'), i <= j
               PROVE  pending'[i].offset <= pending'[j].offset
    BY DEF Sorted
  <2>1. i + 1 \in 1 .. Len(pending) /\ j + 1 \in 1 .. Len(pending) /\ i + 1 <= j + 1
    BY <1>1, <1>2, <1>3
  <2> QED BY <1>2, <2>1 DEF IInv, Sorted
<1>6. IsFiniteSet(Kept(pending')) /\ pendingBytes' = Cardinality(Kept(pending'))
  <2>1. /\ Len(pending) = Len(pending') + 1 /\ 1 \in 1 .. Len(pending') + 1
        /\ \A i \in 1 .. 1 - 1 : pending[i] = pending'[i]
        /\ \A i \in 1 .. Len(pending') : pending[i + 1] = pending'[i]
    BY <1>1, <1>2, <1>3
  <2>2. /\ IsFiniteSet(Kept(pending'))
        /\ Cardinality(Kept(pending)) = Cardinality(Kept(pending')) + f.len
    BY <1>1, <1>2, <2>1, KeptInserted DEF IInv
  <2>3. Cardinality(Kept(pending')) \in Nat
    BY <2>2, FS_CardinalityType
  <2> QED BY <1>4, <2>2, <2>3 DEF IInv, Emit
<1>7. pendingBytes' \in Nat
  BY <1>6, FS_CardinalityType
<1> HIDE DEF f
<1>8. CASE Skip(f) >= f.len
  <2>1. recvOffset' = recvOffset /\ delivered' = delivered
    BY <1>8 DEF Emit, f
  <2>2. f.fin => recvOffset = Size
    BY <1>1, <1>4, <1>8 DEF Skip
  <2>3. ended' = (ended \/ f.fin) /\ failed' = failed
    BY DEF Emit, f
  <2> QED BY <1>2, <1>4, <1>5, <1>6, <1>7, <2>1, <2>2, <2>3 DEF IInv, TypeOK
<1>9. CASE ~(Skip(f) >= f.len)
  <2>1. recvOffset' = After(f) /\ delivered' = delivered \o Slice(f)
    BY <1>9 DEF Emit, f
  <2>2. ended' = (ended \/ f.fin) /\ failed' = failed
    BY DEF Emit, f
  <2>3. /\ recvOffset' = f.offset + f.len /\ recvOffset' \in 0 .. Size
        /\ recvOffset' > recvOffset
        /\ f.len - Skip(f) = recvOffset' - recvOffset /\ f.offset + Skip(f) = recvOffset
    <3>1. Skip(f) = recvOffset - f.offset /\ After(f) = recvOffset + f.len - Skip(f)
      BY DEF Skip, After
    <3>2. recvOffset' = After(f) /\ ~(Skip(f) >= f.len)
      BY <1>9, <2>1
    <3> QED BY <1>1, <1>4, <3>1, <3>2
  <2>4. /\ Slice(f) \in Seq(1 .. Size) /\ Len(Slice(f)) = recvOffset' - recvOffset
        /\ \A i \in 1 .. recvOffset' - recvOffset : Slice(f)[i] = recvOffset + i
    BY <1>1, <2>3 DEF Slice
  <2>5. delivered = Promise!Prefix(recvOffset)
    BY DEF IInv
  <2>6. /\ delivered \in Seq(1 .. Size) /\ Len(delivered) = recvOffset
        /\ \A i \in 1 .. recvOffset : delivered[i] = i
    <3>1. recvOffset \in 0 .. Size
      BY <1>1
    <3> QED BY <2>5, <3>1, PrefixProperties
  <2>7. /\ delivered' \in Seq(1 .. Size) /\ Len(delivered') = recvOffset'
        /\ \A i \in 1 .. recvOffset' : delivered'[i] =
             IF i <= recvOffset THEN delivered[i] ELSE Slice(f)[i - recvOffset]
    <3>1. /\ delivered' \in Seq(1 .. Size)
          /\ Len(delivered') = Len(delivered) + Len(Slice(f))
          /\ \A i \in 1 .. Len(delivered) + Len(Slice(f)) : delivered'[i] =
               IF i <= Len(delivered) THEN delivered[i] ELSE Slice(f)[i - Len(delivered)]
      BY <2>1, <2>4, <2>6, ConcatProperties
    <3>2. Len(delivered) + Len(Slice(f)) = recvOffset'
      BY <1>1, <2>3, <2>4, <2>6
    <3> QED BY <2>6, <3>1, <3>2
  <2>8. ASSUME NEW i \in 1 .. recvOffset'
        PROVE  delivered'[i] = i
    <3>1. CASE i <= recvOffset
      BY <1>1, <2>6, <2>7, <3>1
    <3>2. CASE i > recvOffset
      <4>1. i - recvOffset \in 1 .. recvOffset' - recvOffset /\ recvOffset + (i - recvOffset) = i
        BY <1>1, <2>3, <3>2
      <4>2. Slice(f)[i - recvOffset] = i
        BY <2>4, <4>1
      <4> QED BY <1>1, <2>7, <3>2, <4>2
    <3> QED BY <1>1, <2>3, <3>1, <3>2
  <2>9. delivered' = Promise!Prefix(recvOffset')
    BY <2>3, <2>7, <2>8, PrefixProperties, SeqEqual
  <2>10. ended' => recvOffset' = Size
    BY <1>1, <1>4, <2>2, <2>3 DEF IInv
  <2>11. ended' \in BOOLEAN /\ failed' \in BOOLEAN
    BY <1>4, <2>2 DEF IInv, TypeOK
  <2>12. TypeOK'
    BY <1>2, <1>7, <2>3, <2>7, <2>11 DEF TypeOK
  <2> QED BY <1>5, <1>6, <2>9, <2>10, <2>12 DEF IInv
<1> QED BY <1>8, <1>9

-----------------------------------------------------------------------------
(* The invariant, and what follows from it.                                *)

LEMMA StepIInv == IInv /\ [Next]_streamVars => IInv'
<1> SUFFICES ASSUME IInv, [Next]_streamVars
             PROVE  IInv'
  OBVIOUS
<1>1. CASE \E f \in Frames : Receive(f)
  BY <1>1, ReceiveIInv
<1>2. CASE \E f \in Frames : Overflow(f)
  BY <1>2, OverflowIInv
<1>3. CASE Emit
  BY <1>3, EmitIInv
<1>4. CASE UNCHANGED streamVars
  BY <1>4 DEF IInv, TypeOK, Sorted, Kept, streamVars, Promise!Prefix
<1> QED BY <1>1, <1>2, <1>3, <1>4 DEF Next

(* recvOffset never passes the end of the stream, frames and positions are *)
(* those of the stream, and _pendingBytes never turns negative.            *)
THEOREM StreamTypes == Spec => [](TypeOK /\ IInv)
<1>1. IInv => TypeOK
  BY DEF IInv
<1> QED BY <1>1, InitIInv, StepIInv, PTL DEF Spec

(* Between two datagrams nothing that can be emitted is kept, and          *)
(* _pendingBytes is the number of bytes kept (_onData, 1013-1040).         *)
THEOREM NothingIsWithheld == Spec => []NothingWithheld
<1>1. IInv => NothingWithheld
  <2> SUFFICES ASSUME IInv, ~Emitting, NEW i \in 1 .. Len(pending)
               PROVE  pending[i].offset > recvOffset
    BY DEF NothingWithheld, IInv
  <2>1. /\ pending \in Seq(Frames) /\ Len(pending) \in Nat /\ recvOffset \in Nat
        /\ \A j \in 1 .. Len(pending) : pending[j].offset \in Nat
    <3>1. pending \in Seq(Frames) /\ recvOffset \in 0 .. Size /\ Size \in Nat
      BY StreamAssumption DEF IInv, TypeOK
    <3>2. \A g \in Frames : g.offset \in Nat
      BY DEF Frames
    <3>3. Len(pending) \in Nat /\ \A j \in 1 .. Len(pending) : pending[j] \in Frames
      BY <3>1, LenProperties, ElementOfSeq
    <3> QED BY <3>1, <3>2, <3>3
  <2>2. 1 \in 1 .. Len(pending) /\ 1 <= i /\ pending # <<>>
    BY <2>1
  <2>3. pending[1].offset > recvOffset
    BY <2>1, <2>2 DEF Emitting
  <2>4. pending[1].offset <= pending[i].offset
    BY <2>2 DEF IInv, Sorted
  <2> QED BY <2>1, <2>2, <2>3, <2>4
<1> QED BY <1>1, StreamTypes, PTL

(* Whoever listens is given the bytes of the peer in order, each once, and *)
(* the end only after the last of them: the stream implements ByteStream.  *)
THEOREM StreamInOrderOnce == Spec => InOrderOnce
<1>1. Init => Promise!Init
  BY DEF Init, Promise!Init
<1>2. ASSUME IInv, [Next]_streamVars
      PROVE  [Promise!Next]_<<delivered, ended, failed>>
  <2>1. CASE \E f \in Frames : Receive(f)
    BY <2>1 DEF Receive
  <2>2. CASE \E f \in Frames : Overflow(f)
    BY <2>2 DEF Overflow, Promise!Next, Promise!Fail
  <2>3. CASE Emit
    <3>1. IInv'
      BY <1>2, <2>3, EmitIInv
    <3>2. /\ recvOffset \in 0 .. Size /\ recvOffset' \in 0 .. Size /\ Size \in Nat
          /\ ended \in BOOLEAN /\ ended' \in BOOLEAN
      BY <1>2, <3>1, StreamAssumption DEF IInv, TypeOK
    <3>3. /\ delivered = Promise!Prefix(recvOffset) /\ Len(delivered) = recvOffset
          /\ delivered' = Promise!Prefix(recvOffset') /\ Len(delivered') = recvOffset'
      BY <1>2, <3>1, <3>2, PrefixProperties DEF IInv
    <3>4. ended' => recvOffset' = Size
      BY <3>1 DEF IInv
    <3>5. /\ ended => ended'
          /\ failed' = failed
      BY <2>3 DEF Emit
    <3>6. recvOffset' >= recvOffset
      BY <1>2, <2>3, EmitAdvances
    <3>7. CASE recvOffset' = recvOffset
      <4>1. CASE ended' = ended
        BY <3>3, <3>5, <3>7, <4>1
      <4>2. CASE ended' # ended
        <5>1. ended' = TRUE /\ Len(delivered) = Size
          BY <3>2, <3>3, <3>4, <3>5, <3>7, <4>2
        <5> QED BY <5>1, <3>3, <3>5, <3>7 DEF Promise!Next, Promise!End
      <4> QED BY <4>1, <4>2
    <3>8. CASE recvOffset' # recvOffset
      <4>1. recvOffset' \in Len(delivered) + 1 .. Size
        BY <3>2, <3>3, <3>6, <3>8
      <4>2. CASE ended'
        <5>1. (Len(delivered') = Size) = TRUE /\ ended' = TRUE
          BY <3>2, <3>3, <3>4, <4>2
        <5> QED BY <4>1, <5>1, <3>3, <3>5, Zenon DEF Promise!Next, Promise!Data
      <4>3. CASE ~ended'
        <5>1. ended' = ended
          BY <3>2, <3>5, <4>3
        <5> QED BY <4>1, <5>1, <3>3, <3>5, Zenon DEF Promise!Next, Promise!Data
      <4> QED BY <4>2, <4>3
    <3> QED BY <3>7, <3>8
  <2>4. CASE UNCHANGED streamVars
    BY <2>4 DEF streamVars
  <2> QED BY <1>2, <2>1, <2>2, <2>3, <2>4 DEF Next
<1> QED BY <1>1, <1>2, StreamTypes, PTL DEF Spec, InOrderOnce, Promise!Spec

-----------------------------------------------------------------------------
(* The client that runs the stream beside the QPACK table changes the      *)
(* stream by the stream's own steps only.                                  *)
LEMMA ClientStep == [H3Next]_h3Vars => [Next]_streamVars
<1> SUFFICES ASSUME [H3Next]_h3Vars
             PROVE  [Next]_streamVars
  OBVIOUS
<1>1. CASE Request \/ ConnectionCloses
  BY <1>1 DEF Request, ConnectionCloses
<1>2. CASE ParseEncoderInstruction
  BY <1>2 DEF ParseEncoderInstruction
<1>3. CASE StreamEmits
  BY <1>3 DEF StreamEmits, Next
<1>4. CASE \E f \in Frames : StreamArrives(f)
  BY <1>4 DEF StreamArrives, Next
<1>5. CASE \E n \in 1 .. Len(wire) : EncoderArrives(n)
  BY <1>5 DEF EncoderArrives
<1>6. CASE SrvSetsCapacity \/ SrvInserts
  BY <1>6 DEF SrvSetsCapacity, SrvInserts, SrvUnchanged
<1>7. CASE SrvAnswers
  BY <1>7 DEF SrvAnswers
<1>8. CASE UNCHANGED h3Vars
  BY <1>8 DEF h3Vars
<1> QED BY <1>1, <1>2, <1>3, <1>4, <1>5, <1>6, <1>7, <1>8 DEF H3Next

LEMMA ClientRunsStream == H3Spec => Spec
<1>1. H3Init => Init
  BY DEF H3Init
<1> QED BY <1>1, ClientStep, PTL DEF H3Spec, Spec

(* So what holds of the stream holds of it in the client (h3.js 138-187).  *)
THEOREM ClientStreamInOrderOnce == H3Spec => []NothingWithheld /\ InOrderOnce
BY ClientRunsStream, NothingIsWithheld, StreamInOrderOnce, PTL

-----------------------------------------------------------------------------
(***************************************************************************)
(* The dynamic table.  What the client has not parsed of the encoder       *)
(* stream brings the entries that its table lacks, one after the other,    *)
(* until an instruction is parsed before all of it is there.  What holds   *)
(* after that, of the table and of the server, is ServerOK only.           *)
(***************************************************************************)
Units == [op : {"capacity", "insert", "duplicate"}, v : Nat, part : 1 .. 2, of : 1 .. 2]

Unread == peerEncoderBuf \o wire

Announced == srvCapacity # capacity

\* The units a + 1 .. b of q bring the j-th entry of tab.
Brings(tab, q, a, b, j) ==
  \/ /\ b = a + 2 /\ tab[j] = j
     /\ q[a + 1] = Unit("insert", j, 1, 2) /\ q[a + 2] = Unit("insert", j, 2, 2)
  \/ \E i \in 1 .. j - 1 :
       /\ tab[j] = tab[i]
       /\ \/ b = a + 1 /\ q[a + 1] = Unit("duplicate", j - 1 - i, 1, 1)
          \/ /\ b = a + 2 /\ q[a + 1] = Unit("duplicate", j - 1 - i, 1, 2)
             /\ q[a + 2] = Unit("duplicate", j - 1 - i, 2, 2)

\* The first units of q announce cap, if there are any such, and the others
\* bring the entries t + 1 .. n of tab: the j-th is there after at[j] units.
Follows(at, q, tab, t, n, first, cap) ==
  /\ at[t] = first /\ at[n] = Len(q)
  /\ \A j, k \in t .. n : j <= k => at[j] <= at[k]
  /\ first = 2 => q[1] = Unit("capacity", cap, 1, 2) /\ q[2] = Unit("capacity", cap, 2, 2)
  /\ \A j \in t + 1 .. n : Brings(tab, q, at[j - 1], at[j], j)

Synced(q, tab, t, n, first, cap) ==
  \E at \in [t .. n -> 0 .. Len(q)] : Follows(at, q, tab, t, n, first, cap)

InSync == Synced(Unread, srvTable, totalInserted, Len(srvTable),
                 IF Announced THEN 2 ELSE 0, srvCapacity)

ServerOK ==
  /\ srvTable \in Seq(Nat) /\ srvCapacity \in 0 .. Advertised /\ Len(srvTable) <= srvCapacity
  /\ entries \in Seq(Nat) /\ totalInserted \in Nat /\ capacity \in Nat

TableOK ==
  /\ srvTable \in Seq(Nat) /\ entries \in Seq(Nat)
  /\ peerEncoderBuf \in Seq(Units) /\ wire \in Seq(Units)
  /\ srvCapacity \in 0 .. Advertised /\ capacity \in {0, srvCapacity}
  /\ Len(srvTable) <= srvCapacity
  /\ totalInserted = Len(entries) /\ Len(entries) <= Len(srvTable)
  /\ capacity = 0 => entries = <<>>
  /\ \A i \in 1 .. Len(entries) : entries[i] = srvTable[i]
  /\ InSync

(* The section is the server's, of entries it has inserted.                *)
Coded(refs, base) ==
  /\ refs \in Seq(0 .. Len(srvTable) - 1)
  /\ base \in 0 .. Len(srvTable) /\ (refs = <<>> => base = 0)
  /\ section = Encoded(refs, base)

SectionOK == section # Unanswered => \E refs \in Seq(Nat), base \in Nat : Coded(refs, base)

(* The response: decoded once its bytes are there, unless that fails.      *)
ResponseOK ==
  /\ outcome \in {"none", "resolved", "failed"}
  /\ pending # <<>> \/ respHeaders # Undecoded => section # Unanswered
  /\ recvOffset >= HeadersLen => respHeaders # Undecoded \/ outcome = "failed"
  /\ respHeaders # Undecoded =>
       early \/ desynced \/ respHeaders = <<Status>> \o section.fields
  /\ outcome = "resolved" => ended /\ respHeaders # Undecoded

ClientIInv == IInv /\ ServerOK /\ (desynced \/ TableOK) /\ SectionOK /\ ResponseOK

LEMMA ClientTypes ==
  ASSUME TableOK
  PROVE  /\ totalInserted \in Nat /\ capacity \in Nat /\ Advertised \in Nat
         /\ totalInserted <= capacity /\ capacity <= Advertised
         /\ Len(entries) = totalInserted /\ Len(srvTable) \in Nat
         /\ \A i \in 1 .. totalInserted : entries[i] = srvTable[i]
<1>1. Len(entries) \in Nat /\ Len(srvTable) \in Nat /\ Advertised \in Nat
  BY LenProperties, H3Assumption DEF TableOK
<1>2. capacity = 0 => Len(entries) = 0
  BY DEF TableOK
<1> QED BY <1>1, <1>2 DEF TableOK

LEMMA ServerTyped ==
  ASSUME TableOK
  PROVE  ServerOK
BY ClientTypes DEF TableOK, ServerOK

LEMMA Quotients ==
  ASSUME NEW x \in Nat, NEW y \in Nat \ {0}
  PROVE  (x < y => x \div y = 0 /\ x % y = x) /\ y \div y = 1
OBVIOUS

(* The insert count that the server wraps by twice the capacity it was     *)
(* offered, and the client unwraps by twice the one the server chose       *)
(* (qpack.js 255-288): the same once the insertions have arrived.          *)
LEMMA CountUnwrapped ==
  ASSUME TableOK, NEW ric \in Nat, ric <= totalInserted, NEW enc,
         enc = IF ric = 0 THEN 0 ELSE (ric % (2 * Advertised)) + 1
  PROVE  InsertCount(enc) = ric
<1>1. /\ totalInserted \in Nat /\ capacity \in Nat /\ Advertised \in Nat
      /\ totalInserted <= capacity /\ capacity <= Advertised
  BY ClientTypes
<1>2. CASE ric = 0
  BY <1>2 DEF InsertCount
<1>3. CASE ric # 0
  <2>1. PICK m \in Nat, w \in Nat, a \in Nat :
          m = totalInserted + capacity /\ w = 2 * capacity /\ a = 2 * Advertised
    BY <1>1
  <2>2. w # 0 /\ a # 0 /\ ric < a /\ capacity # 0 /\ m <= w
    BY <1>1, <1>3, <2>1
  <2>3. enc = ric + 1
    <3>1. ric % a = ric
      BY <2>2, Quotients
    <3> QED BY <1>3, <2>1, <3>1
  <2>4. PICK r : r = (m \div w) * w + enc - 1
    OBVIOUS
  <2>5. InsertCount(enc) = IF r <= m THEN r ELSE IF r < w THEN -1 ELSE r - w
    BY <1>3, <2>1, <2>2, <2>3, <2>4 DEF InsertCount
  <2>6. CASE m < w
    <3>1. m \div w = 0
      BY <2>2, <2>6, Quotients
    <3>2. r = ric /\ r <= m
      BY <1>1, <2>1, <2>3, <2>4, <3>1
    <3> QED BY <2>5, <3>2
  <2>7. CASE m = w
    <3>1. m \div w = 1
      BY <2>2, <2>7, Quotients
    <3>2. r = w + ric
      BY <2>3, <2>4, <3>1
    <3>3. ~(r <= m) /\ ~(r < w) /\ r - w = ric
      BY <1>3, <2>7, <3>2
    <3> QED BY <2>5, <3>3
  <2> QED BY <2>1, <2>2, <2>6, <2>7
<1> QED BY <1>2, <1>3

LEMMA SectionDecodes ==
  ASSUME ServerOK, SectionOK, section # Unanswered
  PROVE  /\ Decoded(section) # Undecoded
         /\ section.ric \in Nat
         /\ TableOK /\ section.ric <= totalInserted =>
              Decoded(section) = <<Status>> \o section.fields
<1>1. PICK refs \in Seq(Nat), base \in Nat : Coded(refs, base)
  BY DEF SectionOK
<1>2. PICK n \in Nat : n = Len(refs)
  BY LenProperties
<1>3. /\ \A i \in 1 .. n : refs[i] \in Nat /\ refs[i] < Len(srvTable)
      /\ refs = <<>> => base = 0 /\ n = 0
      /\ DOMAIN refs = 1 .. n /\ Len(srvTable) \in Nat
  <2>1. refs \in Seq(0 .. Len(srvTable) - 1)
    BY <1>1 DEF Coded
  <2>2. \A i \in 1 .. n : refs[i] \in 0 .. Len(srvTable) - 1
    BY <1>2, <2>1, ElementOfSeq
  <2>3. Len(srvTable) \in Nat
    BY LenProperties DEF ServerOK
  <2> QED BY <1>1, <1>2, <2>2, <2>3 DEF Coded
<1>4. PICK ric : ric = IF refs = <<>> THEN 0 ELSE Max(Range(refs)) + 1
  OBVIOUS
<1>5. /\ section.ric = ric
      /\ section.fields = [i \in 1 .. n |-> srvTable[refs[i] + 1]]
      /\ section.enc = IF ric = 0 THEN 0 ELSE (ric % (2 * Advertised)) + 1
      /\ section.sign <=> base < ric
      /\ section.delta = IF base < ric THEN ric - base - 1 ELSE base - ric
      /\ DOMAIN section.lines = 1 .. n
      /\ \A i \in 1 .. n :
           /\ section.lines[i].post <=> refs[i] >= base
           /\ section.lines[i].idx = IF refs[i] >= base THEN refs[i] - base ELSE base - refs[i] - 1
  BY <1>1, <1>3, <1>4 DEF Coded, Encoded
<1>6. ric \in Nat /\ \A i \in 1 .. n : refs[i] < ric
  <2>1. CASE refs = <<>>
    BY <1>3, <1>4, <2>1
  <2>2. CASE refs # <<>>
    <3>1. n # 0
      BY <1>1, <1>2, <2>2, EmptySeq
    <3>2. /\ Range(refs) \in SUBSET Nat /\ Range(refs) # {}
          /\ \A x \in Range(refs) : x <= Len(srvTable)
          /\ \A i \in 1 .. n : refs[i] \in Range(refs)
      <4>1. Range(refs) = {refs[i] : i \in 1 .. n}
        BY <1>3 DEF Range
      <4>2. 1 \in 1 .. n
        BY <3>1
      <4> QED BY <1>3, <4>1, <4>2
    <3>3. Max(Range(refs)) \in Range(refs) /\ \A x \in Range(refs) : x <= Max(Range(refs))
      BY <1>3, <3>2, GreatestNatural
    <3> QED BY <1>3, <1>4, <2>2, <3>2, <3>3
  <2> QED BY <2>1, <2>2
<1> DEFINE ss == [i \in 1 .. n |-> Looked(section, section.lines[i])]
<1>7. ASSUME NEW abs PROVE GetAbsolute(abs) \in Seq(Nat)
  <2>1. entries \in Seq(Nat)
    BY DEF ServerOK
  <2> QED BY <2>1, ElementOfSeq DEF GetAbsolute
<1>8. ss \in [1 .. n -> Seq(Nat)]
  BY <1>7 DEF Looked, GetPostBase, GetRelative
<1>9. Decoded(section) = <<Status>> \o FlattenSeq(ss)
  BY <1>5 DEF Decoded
<1>10. FlattenSeq(ss) \in Seq(Nat)
       /\ ((\A i \in 1 .. n : Len(ss[i]) = 1) => FlattenSeq(ss) = [i \in 1 .. n |-> ss[i][1]])
  <2> HIDE DEF ss
  <2> QED BY <1>8, FlattenProperties
<1>11. Decoded(section) # Undecoded
  <2>1. PICK x \in Seq(Nat) : x = FlattenSeq(ss)
    BY <1>10
  <2>2. Decoded(section) = <<Status>> \o x
    BY <1>9, <2>1
  <2>3. (<<Status>> \o x)[1] = Status
    BY DEF Status
  <2>4. Undecoded[1] = "undecoded" /\ Status # "undecoded"
    BY DEF Undecoded, Status
  <2> QED BY <2>2, <2>3, <2>4
<1>12. ASSUME TableOK, section.ric <= totalInserted
       PROVE  Decoded(section) = <<Status>> \o section.fields
  <2>1. InsertCount(section.enc) = ric
    BY <1>5, <1>6, <1>12, CountUnwrapped
  <2>2. Base(section) = base
    BY <1>1, <1>5, <1>6, <2>1 DEF Base
  <2>3. ASSUME NEW i \in 1 .. n
        PROVE  ss[i] = <<srvTable[refs[i] + 1]>>
    <3>1. Looked(section, section.lines[i]) = GetAbsolute(refs[i])
      <4>1. CASE refs[i] >= base
        <5>1. section.lines[i].post /\ section.lines[i].idx = refs[i] - base
          BY <1>5, <4>1
        <5>2. PICK x \in Nat : x = refs[i]
          BY <1>3
        <5>3. base + (x - base) = x
          OBVIOUS
        <5>4. base + section.lines[i].idx = refs[i]
          BY <5>1, <5>2, <5>3
        <5> QED BY <2>2, <5>1, <5>4 DEF Looked, GetPostBase
      <4>2. CASE ~(refs[i] >= base)
        <5>1. ~section.lines[i].post /\ section.lines[i].idx = base - refs[i] - 1
          BY <1>5, <4>2
        <5>2. PICK x \in Nat : x = refs[i]
          BY <1>3
        <5>3. base - (base - x - 1) - 1 = x
          OBVIOUS
        <5>4. base - section.lines[i].idx - 1 = refs[i]
          BY <5>1, <5>2, <5>3
        <5> QED BY <2>2, <5>1, <5>4 DEF Looked, GetRelative
      <4> QED BY <4>1, <4>2
    <3>2. /\ totalInserted \in Nat /\ Len(entries) = totalInserted
          /\ \A k \in 1 .. totalInserted : entries[k] = srvTable[k]
      BY <1>12, ClientTypes
    <3>3. refs[i] \in Nat /\ refs[i] + 1 \in 1 .. totalInserted
      <4>1. refs[i] \in Nat /\ refs[i] < ric /\ ric \in Nat /\ ric <= totalInserted
        BY <1>3, <1>5, <1>6, <1>12
      <4> QED BY <3>2, <4>1
    <3>4. refs[i] - (totalInserted - Len(entries)) + 1 = refs[i] + 1
      BY <3>2, <3>3
    <3>5. GetAbsolute(refs[i]) = <<entries[refs[i] + 1]>>
      BY <3>2, <3>3, <3>4 DEF GetAbsolute
    <3> QED BY <3>1, <3>2, <3>3, <3>5
  <2>4. \A i \in 1 .. n : Len(ss[i]) = 1 /\ ss[i][1] = srvTable[refs[i] + 1]
    <3>1. \A z : Len(<<z>>) = 1 /\ <<z>>[1] = z
      OBVIOUS
    <3> QED BY <2>3, <3>1
  <2> HIDE DEF ss
  <2>5. FlattenSeq(ss) = section.fields
    BY <1>5, <1>10, <2>4
  <2> QED BY <1>9, <2>5
<1> QED BY <1>5, <1>6, <1>11, <1>12

LEMMA InitClient == H3Init => ClientIInv
<1> SUFFICES ASSUME H3Init PROVE ClientIInv
  OBVIOUS
<1>1. IInv
  BY InitIInv DEF H3Init
<1>2. TableOK
  <2>1. Unread = <<>> /\ Len(Unread) = 0 /\ Len(srvTable) = 0 /\ ~Announced
    BY DEF H3Init, Unread, Announced
  <2>2. PICK at : at = [j \in 0 .. 0 |-> 0]
    OBVIOUS
  <2>3. at \in [0 .. 0 -> 0 .. 0] /\ \A q, tab, cap : Len(q) = 0 => Follows(at, q, tab, 0, 0, 0, cap)
    BY <2>2 DEF Follows
  <2>4. InSync
    BY <2>1, <2>3 DEF InSync, Synced, H3Init
  <2>5. Advertised \in Nat
    BY H3Assumption
  <2> QED BY <2>4, <2>5 DEF H3Init, TableOK
<1>3. SectionOK /\ ResponseOK
  BY H3Assumption DEF H3Init, Init, SectionOK, ResponseOK, Undecoded
<1>4. ServerOK
  <2>1. Advertised \in Nat /\ Len(<<>>) = 0
    BY H3Assumption
  <2> QED BY <2>1 DEF H3Init, ServerOK
<1> QED BY <1>1, <1>2, <1>3, <1>4 DEF ClientIInv

(* What arrives joins what is not parsed: together they stay the same.     *)
LEMMA Parted ==
  ASSUME NEW S, NEW w \in Seq(S), NEW n \in 1 .. Len(w)
  PROVE  \E x, y \in Seq(S) :
           x = SubSeq(w, 1, n) /\ y = SubSeq(w, n + 1, Len(w)) /\ x \o y = w
<1>1. PICK x, y : x = SubSeq(w, 1, n) /\ y = SubSeq(w, n + 1, Len(w))
  OBVIOUS
<1>2. PICK m \in Nat : m = Len(w)
  BY LenProperties
<1>3. 1 \in 1 .. m + 1 /\ n \in 1 - 1 .. m /\ m \in n .. m /\ n \in 0 .. m
  BY <1>2
<1>4. x \o y = SubSeq(w, 1, m)
  BY <1>1, <1>2, <1>3, ConcatAdjacentSubSeq
<1>5. x \in Seq(S) /\ y \in Seq(S)
  BY <1>1, <1>2, <1>3, FirstProperties, RestProperties
<1>6. SubSeq(w, 1, m) = w
  BY <1>2, SubSeqFull
<1> QED BY <1>1, <1>4, <1>5, <1>6

LEMMA EncoderArrivesTable ==
  ASSUME TableOK, NEW n \in 1 .. Len(wire), EncoderArrives(n)
  PROVE  TableOK'
<1>1. peerEncoderBuf' \in Seq(Units) /\ wire' \in Seq(Units) /\ Unread' = Unread
  <2>1. PICK b \in Seq(Units), w \in Seq(Units) : b = peerEncoderBuf /\ w = wire
    BY DEF TableOK
  <2>2. n \in 1 .. Len(w)
    BY <2>1
  <2>3. PICK x, y \in Seq(Units) :
          x = SubSeq(w, 1, n) /\ y = SubSeq(w, n + 1, Len(w)) /\ x \o y = w
    BY <2>2, Parted
  <2>4. b \o x \in Seq(Units) /\ (b \o x) \o y = b \o (x \o y)
    <3>1. b \o x \in Seq(Units)
      OBVIOUS
    <3>2. (b \o x) \o y = b \o (x \o y)
      BY SMTT(40), ConcatAssociative
    <3> QED BY <3>1, <3>2
  <2>5. peerEncoderBuf' = b \o x /\ wire' = y
    BY <2>1, <2>3, Zenon DEF EncoderArrives
  <2> QED BY <2>1, <2>3, <2>4, <2>5 DEF Unread
<1>2. UNCHANGED <<entries, totalInserted, capacity, srvTable, srvCapacity>>
  BY DEF EncoderArrives
<1>3. InSync => InSync'
  <2>1. UNCHANGED Announced
    BY <1>2 DEF Announced
  <2>2. InSync' <=> InSync
    BY <1>1, <1>2, <2>1, Zenon DEF InSync, Synced
  <2> QED BY <2>1, <2>2
<1> QED BY <1>1, <1>2, <1>3 DEF TableOK

LEMMA UnreadDropped ==
  ASSUME TableOK, NEW d \in 1 .. Len(peerEncoderBuf), wire' = wire,
         peerEncoderBuf' = SubSeq(peerEncoderBuf, d + 1, Len(peerEncoderBuf))
  PROVE  /\ peerEncoderBuf' \in Seq(Units)
         /\ Len(Unread) \in Nat /\ d <= Len(Unread) /\ Len(Unread') = Len(Unread) - d
         /\ \A i \in 1 .. Len(Unread) - d : Unread'[i] = Unread[i + d]
<1>0. PICK U : U = Units
  OBVIOUS
<1>1. PICK b \in Seq(U), w \in Seq(U) : b = peerEncoderBuf /\ w = wire
  BY <1>0 DEF TableOK
<1>2. PICK lb \in Nat, lw \in Nat : lb = Len(b) /\ lw = Len(w) /\ d \in 1 .. lb
  BY <1>1, LenProperties
<1>3. PICK c \in Seq(U) : /\ c = SubSeq(b, d + 1, Len(b)) /\ Len(c) = lb - d
                         /\ \A i \in 1 .. lb - d : c[i] = b[d + i]
  <2>1. PICK c : c = SubSeq(b, d + 1, Len(b))
    OBVIOUS
  <2>2. d \in 0 .. Len(b)
    BY <1>2
  <2>3. /\ c \in Seq(U) /\ Len(c) = Len(b) - d
        /\ \A i \in 1 .. Len(b) - d : c[i] = b[d + i]
    BY <2>1, <2>2, RestProperties
  <2> QED BY <1>2, <2>1, <2>3
<1>4. PICK lc \in Nat : lc = Len(c) /\ lb = d + lc /\ d \in Nat
  <2>1. d \in Nat /\ lb - d \in Nat /\ lb = d + (lb - d)
    BY <1>2
  <2> QED BY <1>3, <2>1
<1>5. PICK q, r : q = b \o w /\ r = c \o w /\ Unread = q /\ Unread' = r /\ peerEncoderBuf' = c
  BY <1>1, <1>3 DEF Unread
<1>6. Len(q) = lb + lw /\ \A i \in 1 .. lb + lw : q[i] = IF i <= lb THEN b[i] ELSE w[i - lb]
  BY <1>2, <1>5, ConcatProperties
<1>7. Len(r) = lc + lw /\ \A i \in 1 .. lc + lw : r[i] = IF i <= lc THEN c[i] ELSE w[i - lc]
  BY <1>2, <1>4, <1>5, ConcatProperties
<1>8. ASSUME NEW i \in 1 .. lc + lw PROVE r[i] = q[i + d]
  <2>1. i + d \in 1 .. lb + lw /\ (i <= lc <=> i + d <= lb) /\ (i + d) - lb = i - lc
        /\ i + d = d + i
    <3>1. d \in Nat /\ lb = d + lc
      BY <1>4
    <3> QED BY <3>1
  <2>2. i <= lc => c[i] = b[d + i]
    BY <1>3, <1>4
  <2>3. /\ q[i + d] = IF i + d <= lb THEN b[i + d] ELSE w[(i + d) - lb]
        /\ r[i] = IF i <= lc THEN c[i] ELSE w[i - lc]
    BY <1>6, <1>7, <2>1
  <2>4. CASE i <= lc
    BY <2>1, <2>2, <2>3, <2>4
  <2>5. CASE ~(i <= lc)
    BY <2>1, <2>3, <2>5
  <2> QED BY <2>4, <2>5
<1>9. Len(q) \in Nat /\ d <= Len(q) /\ Len(r) = Len(q) - d /\ lc + lw = Len(q) - d
  <2>1. d \in Nat /\ lb = d + lc /\ Len(q) = lb + lw /\ Len(r) = lc + lw
    BY <1>4, <1>6, <1>7
  <2> QED BY <2>1
<1> QED BY <1>0, <1>5, <1>8, <1>9

(* So what is unread stays in step with the table when d units bring its   *)
(* entries up to the u-th.                                                 *)
LEMMA InSyncParsed ==
  ASSUME TableOK, NEW d \in 1 .. Len(peerEncoderBuf), UNCHANGED <<wire, srvTable, srvCapacity>>,
         peerEncoderBuf' = SubSeq(peerEncoderBuf, d + 1, Len(peerEncoderBuf)),
         capacity' = srvCapacity, totalInserted' \in totalInserted .. Len(srvTable),
         NEW first, NEW at \in [totalInserted .. Len(srvTable) -> 0 .. Len(Unread)],
         Follows(at, Unread, srvTable, totalInserted, Len(srvTable), first, srvCapacity),
         at[totalInserted'] = d
  PROVE  InSync'
<1>0. PICK q, r, tab, cap :
        q = Unread /\ r = Unread' /\ tab = srvTable /\ cap = srvCapacity
  OBVIOUS
<1>1. PICK l \in Nat, t \in Nat, n \in Nat, u \in Nat :
        l = Len(Unread) /\ t = totalInserted /\ n = Len(srvTable) /\ u = totalInserted'
  <2>1. Len(Unread) \in Nat
    BY UnreadDropped
  <2>2. totalInserted \in Nat /\ Len(srvTable) \in Nat /\ totalInserted' \in Nat
    BY ClientTypes
  <2> QED BY <2>1, <2>2
<1>2. Len(r) = l - d /\ d <= l /\ d \in Nat /\ \A i \in 1 .. l - d : r[i] = q[i + d]
  <2>1. d \in Nat
    BY LenProperties DEF TableOK
  <2> QED BY <1>0, <1>1, <2>1, UnreadDropped
<1>3. /\ at \in [t .. n -> 0 .. l] /\ Follows(at, q, tab, t, n, first, cap)
      /\ u \in t .. n /\ at[u] = d /\ Len(q) = l
  <2>1. at \in [t .. n -> 0 .. l]
    BY <1>1
  <2>2. Follows(at, q, tab, t, n, first, cap)
    BY <1>0, <1>1
  <2>3. u \in t .. n /\ at[u] = d
    BY <1>1
  <2>4. Len(q) = l
    BY <1>0, <1>1
  <2> QED BY <2>1, <2>2, <2>3, <2>4
<1> DEFINE after == [j \in u .. n |-> at[j] - d]
<1>4. u \in Nat /\ n \in t .. n /\ n \in u .. n /\ u \in u .. n
  BY <1>3
<1>5. ASSUME NEW j \in u .. n PROVE at[j] \in d .. l /\ after[j] = at[j] - d
  <2>1. j \in t .. n /\ u <= j
    BY <1>3
  <2>2. at[u] <= at[j] /\ at[u] = d /\ at[j] \in 0 .. l
    BY <1>3, <2>1 DEF Follows
  <2>3. at[j] \in d .. l
    BY <1>2, <2>2
  <2> QED BY <2>3
<1>6. after \in [u .. n -> 0 .. l - d]
  <2>1. \A j \in u .. n : at[j] - d \in 0 .. l - d
    BY <1>5
  <2> QED BY <2>1
<1> HIDE DEF after
<1>7. after[u] = 0 /\ after[n] = l - d
  <2>1. at[n] = l /\ at[u] = d
    BY <1>3 DEF Follows
  <2>2. after[u] = at[u] - d /\ after[n] = at[n] - d
    BY <1>4, <1>5
  <2> QED BY <2>1, <2>2
<1>8. ASSUME NEW j \in u .. n, NEW k \in u .. n, j <= k PROVE after[j] <= after[k]
  <2>1. j \in t .. n /\ k \in t .. n
    BY <1>3
  <2>2. at[j] <= at[k]
    BY <1>3, <1>8, <2>1 DEF Follows
  <2>3. PICK x \in d .. l, y \in d .. l : x = at[j] /\ y = at[k] /\ after[j] = x - d /\ after[k] = y - d
    BY <1>5
  <2>4. d \in Nat /\ x <= y
    BY <1>2, <2>2, <2>3
  <2>5. x - d <= y - d
    BY <2>4
  <2> QED BY <2>3, <2>5, Zenon
<1>9. ASSUME NEW j \in u + 1 .. n
      PROVE  Brings(tab, r, after[j - 1], after[j], j)
  <2>1. j \in t + 1 .. n /\ j \in u .. n /\ j - 1 \in u .. n
    BY <1>3
  <2>2. PICK a \in Nat, b \in Nat : a = at[j - 1] /\ b = at[j]
    <3>1. PICK i \in u .. n : i = j - 1
      BY <2>1
    <3>2. at[i] \in Nat /\ at[j] \in Nat
      BY <1>5, <2>1
    <3> QED BY <3>1, <3>2
  <2>3. a >= d /\ b <= l /\ b >= d /\ after[j - 1] = a - d /\ after[j] = b - d
    <3>1. a \in d .. l /\ after[j - 1] = a - d
      <4>1. PICK i \in u .. n : i = j - 1
        BY <2>1
      <4> QED BY <1>5, <2>2, <4>1
    <3>2. b \in d .. l /\ after[j] = b - d
      BY <1>5, <2>1, <2>2
    <3> QED BY <3>1, <3>2
  <2>4. Brings(tab, q, a, b, j)
    BY <1>3, <2>1, <2>2 DEF Follows
  <2>5. \A i \in Nat : i >= 1 /\ a + i <= l => r[a - d + i] = q[a + i]
    <3> SUFFICES ASSUME NEW i \in Nat, i >= 1, a + i <= l PROVE r[a - d + i] = q[a + i]
      OBVIOUS
    <3>1. a - d + i \in 1 .. l - d /\ (a - d + i) + d = a + i
      <4>1. d \in Nat /\ a >= d
        BY <1>2, <2>3
      <4> QED BY <4>1
    <3>2. r[a - d + i] = q[(a - d + i) + d]
      BY <1>2, <3>1
    <3> QED BY <3>1, <3>2
  <2> DEFINE Same(i) == r[a - d + i] = q[a + i]
  <2>6. (a + 1 <= l => Same(1)) /\ (a + 2 <= l => Same(2))
    <3>1. 1 \in Nat /\ 1 >= 1 /\ 2 \in Nat /\ 2 >= 1
      OBVIOUS
    <3> QED BY <2>5, <3>1, Zenon
  <2>7. CASE b = a + 2
    <3>1. b - d = a - d + 2 /\ b # a + 1 /\ a + 1 <= l /\ a + 2 <= l
      BY <2>3, <2>7
    <3>2. r[a - d + 1] = q[a + 1] /\ r[a - d + 2] = q[a + 2]
      BY <2>6, <3>1
    <3> QED BY <2>3, <2>4, <3>1, <3>2 DEF Brings
  <2>8. CASE b = a + 1
    <3>1. b - d = a - d + 1 /\ b # a + 2 /\ a + 1 <= l
      BY <2>3, <2>8
    <3>2. r[a - d + 1] = q[a + 1]
      BY <2>6, <3>1
    <3> QED BY <2>3, <2>4, <3>1, <3>2 DEF Brings
  <2> QED BY <2>4, <2>7, <2>8 DEF Brings
<1>10. after \in [u .. n -> 0 .. l - d] /\ Follows(after, r, tab, u, n, 0, cap)
  <2>1. Len(r) = l - d /\ after[u] = 0 /\ after[n] = Len(r)
    BY <1>2, <1>7
  <2>2. \A j \in u + 1 .. n : Brings(tab, r, after[j - 1], after[j], j)
    BY <1>9
  <2>3. \A j, k \in u .. n : j <= k => after[j] <= after[k]
    BY <1>8
  <2>4. 0 # 2
    OBVIOUS
  <2> QED BY <1>6, <2>1, <2>2, <2>3, <2>4, Zenon DEF Follows
<1>11. ~Announced' /\ srvTable' = tab /\ Len(srvTable') = n /\ srvCapacity' = cap
  BY <1>0, <1>1 DEF Announced
<1>12. after \in [totalInserted' .. Len(srvTable') -> 0 .. Len(Unread')]
  BY <1>0, <1>1, <1>2, <1>10, <1>11, Zenon
<1>13. Follows(after, Unread', srvTable', totalInserted', Len(srvTable'), 0, srvCapacity')
  BY <1>0, <1>1, <1>10, <1>11, Zenon
<1> QED BY <1>11, <1>12, <1>13 DEF InSync, Synced

(* One instruction, all of it there: its first unit, u, is the first that  *)
(* is unread, and m units wait to be parsed.                               *)
Parsing(u, m) ==
  /\ m \in Nat \ {0} /\ m = Len(peerEncoderBuf) /\ Unread[1] = u /\ u.of <= m
  /\ UNCHANGED <<wire, srvTable, srvCapacity>>
  /\ peerEncoderBuf' = SubSeq(peerEncoderBuf, u.of + 1, m)
  /\ \/ u.op = "capacity" /\ SetCapacity(u.v)
     \/ u.op = "insert" /\ Insert(<<u.v>>)
     \/ u.op = "duplicate" /\ Insert(GetRelative(totalInserted, u.v))

LEMMA UnitParsed ==
  ASSUME TableOK, ParseEncoderInstruction, ~desynced, ~desynced'
  PROVE  \E u, m : Parsing(u, m)
<1>1. PICK u, m : u = Head(peerEncoderBuf) /\ m = Len(peerEncoderBuf)
  OBVIOUS
<1>2. peerEncoderBuf \in Seq(Units) /\ wire \in Seq(Units) /\ peerEncoderBuf # <<>>
  BY DEF TableOK, ParseEncoderInstruction, Parsable
<1>3. m \in Nat \ {0} /\ u = peerEncoderBuf[1]
  BY <1>1, <1>2, EmptySeq
<1>4. Unread[1] = u
  <2>1. 1 \in 1 .. Len(peerEncoderBuf)
    BY <1>1, <1>3
  <2> QED BY <1>2, <1>3, <2>1 DEF Unread
<1>5. ParseInstruction /\ UNCHANGED <<wire, srvTable, srvCapacity>>
  BY DEF ParseEncoderInstruction, srvVars
<1>6. u.of <= m
  BY <1>1, <1>5 DEF ParseInstruction
<1>7. /\ peerEncoderBuf' = SubSeq(peerEncoderBuf, u.of + 1, m)
      /\ \/ u.op = "capacity" /\ SetCapacity(u.v)
         \/ u.op = "insert" /\ Insert(<<u.v>>)
         \/ u.op = "duplicate" /\ Insert(GetRelative(totalInserted, u.v))
  BY <1>1, <1>5, <1>6 DEF ParseInstruction, Reading
<1>8. Parsing(u, m)
  BY <1>1, <1>3, <1>4, <1>5, <1>6, <1>7 DEF Parsing
<1> QED BY <1>8

(* A Set Capacity sets it (qpack.js 320-333).                              *)
LEMMA CapacityParsed ==
  ASSUME TableOK, NEW u, NEW m, Parsing(u, m), Announced
  PROVE  TableOK'
<1>2. /\ m \in Nat \ {0} /\ m = Len(peerEncoderBuf) /\ Unread[1] = u /\ u.of <= m
      /\ UNCHANGED <<wire, srvTable, srvCapacity>>
      /\ peerEncoderBuf' = SubSeq(peerEncoderBuf, u.of + 1, m)
      /\ \/ u.op = "capacity" /\ SetCapacity(u.v)
         \/ u.op = "insert" /\ Insert(<<u.v>>)
         \/ u.op = "duplicate" /\ Insert(GetRelative(totalInserted, u.v))
  BY DEF Parsing
<1>3. PICK at \in [totalInserted .. Len(srvTable) -> 0 .. Len(Unread)] :
        Follows(at, Unread, srvTable, totalInserted, Len(srvTable), 2, srvCapacity)
  BY DEF TableOK, InSync, Synced
<1>4. /\ Unread[1] = Unit("capacity", srvCapacity, 1, 2)
      /\ Unread[2] = Unit("capacity", srvCapacity, 2, 2)
      /\ at[totalInserted] = 2
  BY <1>3 DEF Follows
<1>5. u.op = "capacity" /\ u.v = srvCapacity /\ u.of = 2
  BY <1>2, <1>4 DEF Unit
<1>6. capacity = 0 /\ entries = <<>> /\ totalInserted = 0 /\ Len(srvTable) \in Nat
  BY ClientTypes DEF TableOK, Announced
<1>7. /\ entries' = <<>> /\ totalInserted' = 0 /\ capacity' = srvCapacity /\ 2 <= m
      /\ peerEncoderBuf' = SubSeq(peerEncoderBuf, 2 + 1, Len(peerEncoderBuf))
  <2>1. SetCapacity(srvCapacity) /\ 2 <= m
    BY <1>2, <1>5
  <2>2. PICK cap \in Nat : cap = srvCapacity
    BY H3Assumption DEF TableOK
  <2>3. Evicted(<<>>, cap) = <<>>
    BY DEF Evicted
  <2>4. peerEncoderBuf' = SubSeq(peerEncoderBuf, 2 + 1, Len(peerEncoderBuf))
    BY <1>2, <1>5
  <2> QED BY <1>6, <2>1, <2>2, <2>3, <2>4 DEF SetCapacity
<1>8. UNCHANGED <<wire, srvTable, srvCapacity>>
  BY <1>2
<1>9. /\ wire' \in Seq(Units) /\ srvTable' \in Seq(Nat) /\ entries' \in Seq(Nat)
      /\ srvCapacity' \in 0 .. Advertised /\ capacity' \in {0, srvCapacity'}
      /\ Len(srvTable') <= srvCapacity' /\ totalInserted' = Len(entries')
      /\ Len(entries') <= Len(srvTable')
      /\ capacity' = 0 => entries' = <<>>
      /\ \A i \in 1 .. Len(entries') : entries'[i] = srvTable'[i]
  BY <1>6, <1>7, <1>8 DEF TableOK
<1>10. 2 \in 1 .. Len(peerEncoderBuf)
  BY <1>2, <1>7
<1>11. peerEncoderBuf' \in Seq(Units)
  BY <1>7, <1>8, <1>10, UnreadDropped
<1>12. totalInserted' \in totalInserted .. Len(srvTable) /\ at[totalInserted'] = 2
  BY <1>4, <1>6, <1>7
<1>13. InSync'
  BY <1>3, <1>7, <1>8, <1>10, <1>12, InSyncParsed
<1> QED BY <1>9, <1>11, <1>13 DEF TableOK

(* The next entry enters the table (qpack.js 389-452).                     *)
LEMMA EntryInserted ==
  ASSUME TableOK, ~Announced, totalInserted < Len(srvTable),
         Insert(<<srvTable[totalInserted + 1]>>), UNCHANGED <<srvTable, srvCapacity>>
  PROVE  /\ entries' \in Seq(Nat) /\ totalInserted' = totalInserted + 1
         /\ Len(entries') = totalInserted' /\ capacity' = srvCapacity /\ capacity' # 0
         /\ \A i \in 1 .. Len(entries') : entries'[i] = srvTable'[i]
<1>1. PICK t \in Nat, n \in Nat, cap \in Nat :
        /\ t = totalInserted /\ n = Len(srvTable) /\ cap = srvCapacity
        /\ t < n /\ n <= cap /\ cap = capacity
  BY ClientTypes DEF TableOK, Announced
<1>2. entries \in Seq(Nat) /\ Len(entries) = t /\ srvTable[t + 1] \in Nat
      /\ \A i \in 1 .. t : entries[i] = srvTable[i]
  <2>1. t + 1 \in 1 .. Len(srvTable)
    BY <1>1
  <2> QED BY <1>1, <2>1, ElementOfSeq DEF TableOK
<1>3. PICK x, es :
        x = srvTable[t + 1] /\ x \in Nat /\ es = Append(entries, x) /\ es = entries \o <<x>>
  BY <1>2, AppendIsConcat
<1>4. /\ es \in Seq(Nat) /\ Len(es) = t + 1 /\ es[t + 1] = x
      /\ \A i \in 1 .. t : es[i] = entries[i]
  BY <1>2, <1>3, AppendProperties
<1>5. entries' = es /\ totalInserted' = t + 1 /\ capacity' = cap
  <2>1. Evicted(es, cap) = es
    BY <1>1, <1>4 DEF Evicted
  <2>2. Len(<<x>>) = 1
    OBVIOUS
  <2>3. Insert(<<x>>)
    BY <1>1, <1>3
  <2> QED BY <1>1, <1>3, <2>1, <2>2, <2>3 DEF Insert
<1>6. ASSUME NEW i \in 1 .. t + 1 PROVE es[i] = srvTable[i]
  <2>1. CASE i = t + 1
    BY <1>3, <1>4, <2>1
  <2>2. CASE i # t + 1
    <3>1. i \in 1 .. t
      BY <2>2
    <3> QED BY <1>2, <1>4, <3>1
  <2> QED BY <2>1, <2>2
<1> QED BY <1>1, <1>4, <1>5, <1>6

LEMMA EntryParsed ==
  ASSUME TableOK, NEW u, NEW m, Parsing(u, m), ~Announced
  PROVE  TableOK'
<1>2. PICK at \in [totalInserted .. Len(srvTable) -> 0 .. Len(Unread)] :
        Follows(at, Unread, srvTable, totalInserted, Len(srvTable), 0, srvCapacity)
  BY DEF TableOK, InSync, Synced
<1>3. /\ m \in Nat \ {0} /\ m = Len(peerEncoderBuf) /\ Unread[1] = u
      /\ u.of <= m /\ UNCHANGED <<wire, srvTable, srvCapacity>>
  BY DEF Parsing
<1>4. PICK t \in Nat, n \in Nat :
        t = totalInserted /\ n = Len(srvTable) /\ t <= n /\ Len(entries) = t
  BY ClientTypes DEF TableOK
<1>5. at[t] = 0 /\ at[n] = Len(Unread) /\ Len(Unread) \in Nat /\ Len(Unread) >= m
  <2>1. Len(Unread) = Len(peerEncoderBuf) + Len(wire)
        /\ Len(peerEncoderBuf) \in Nat /\ Len(wire) \in Nat
    BY LenProperties, ConcatProperties DEF TableOK, Unread
  <2> QED BY <1>2, <1>3, <1>4, <2>1 DEF Follows
<1>6. t + 1 \in t .. n /\ t + 1 \in t + 1 .. n /\ t < n /\ t + 1 - 1 = t
  BY <1>3, <1>4, <1>5
<1>7. PICK d : d = at[t + 1]
  OBVIOUS
<1>8. Brings(srvTable, Unread, 0, d, t + 1)
  BY <1>2, <1>4, <1>5, <1>6, <1>7 DEF Follows
<1>9. d \in 1 .. m /\ u.of = d /\ Insert(<<srvTable[t + 1]>>)
  <2>1. CASE /\ d = 0 + 2 /\ srvTable[t + 1] = t + 1
             /\ Unread[0 + 1] = Unit("insert", t + 1, 1, 2)
    <3>1. u = Unit("insert", t + 1, 1, 2)
      BY <1>3, <2>1
    <3>2. u.op = "insert" /\ u.v = t + 1 /\ u.of = 2
      BY <3>1 DEF Unit
    <3>3. Insert(<<u.v>>)
      BY <3>2 DEF Parsing
    <3> QED BY <1>3, <2>1, <3>2, <3>3
  <2>2. ASSUME NEW i \in 1 .. t + 1 - 1, srvTable[t + 1] = srvTable[i], NEW of \in 1 .. 2,
               d = 0 + of, Unread[0 + 1] = Unit("duplicate", t + 1 - 1 - i, 1, of)
        PROVE  d \in 1 .. m /\ u.of = d /\ Insert(<<srvTable[t + 1]>>)
    <3>1. u = Unit("duplicate", t + 1 - 1 - i, 1, of)
      BY <1>3, <2>2
    <3>2. u.op = "duplicate" /\ u.v = t + 1 - 1 - i /\ u.of = of /\ d = of
      BY <2>2, <3>1 DEF Unit
    <3>3. Insert(GetRelative(totalInserted, u.v))
      BY <3>2 DEF Parsing
    <3>4. (t - (t + 1 - 1 - i) - 1) - (t - t) + 1 = i /\ i \in 1 .. t
      BY <1>6
    <3>5. GetRelative(totalInserted, u.v) = <<entries[i]>>
      BY <1>4, <3>2, <3>4 DEF GetRelative, GetAbsolute
    <3>6. entries[i] = srvTable[t + 1]
      BY <1>4, <2>2, <3>4, ClientTypes
    <3>7. Insert(<<srvTable[t + 1]>>)
      BY <3>3, <3>5, <3>6
    <3>8. d \in 1 .. m /\ u.of = d
      BY <1>3, <3>2
    <3> QED BY <3>7, <3>8
  <2>3. 1 \in 1 .. 2 /\ 2 \in 1 .. 2
    OBVIOUS
  <2> QED BY <1>8, <2>1, <2>2, <2>3 DEF Brings
<1>10. peerEncoderBuf' = SubSeq(peerEncoderBuf, d + 1, Len(peerEncoderBuf))
  BY <1>3, <1>9 DEF Parsing
<1>11. /\ entries' \in Seq(Nat) /\ totalInserted' = t + 1 /\ Len(entries') = t + 1
       /\ capacity' = srvCapacity /\ capacity' # 0
       /\ \A i \in 1 .. Len(entries') : entries'[i] = srvTable'[i]
  BY <1>3, <1>4, <1>6, <1>9, EntryInserted
<1>12. peerEncoderBuf' \in Seq(Units)
  BY <1>3, <1>9, <1>10, UnreadDropped
<1>13. InSync'
  <2>1. totalInserted' \in totalInserted .. Len(srvTable) /\ at[totalInserted'] = d
    BY <1>4, <1>6, <1>7, <1>11
  <2>2. d \in 1 .. Len(peerEncoderBuf)
    BY <1>3, <1>9
  <2> QED BY <1>2, <1>3, <1>10, <1>11, <2>1, <2>2, InSyncParsed
<1>14. Len(entries') <= Len(srvTable') /\ totalInserted' = Len(entries')
  BY <1>3, <1>4, <1>6, <1>11
<1> QED BY <1>3, <1>11, <1>12, <1>13, <1>14 DEF TableOK

LEMMA ParseTable ==
  ASSUME TableOK, ParseEncoderInstruction, ~desynced, ~desynced'
  PROVE  TableOK'
<1>1. PICK u, m : Parsing(u, m)
  BY UnitParsed, Zenon
<1> QED BY <1>1, CapacityParsed, EntryParsed

(* What the server sends comes after what is unread.                       *)
LEMMA InstructionUnits ==
  ASSUME NEW op \in {"capacity", "insert", "duplicate"}, NEW v \in Nat, NEW of \in 1 .. 2
  PROVE  /\ Instruction(op, v, of) \in Seq(Units) /\ Len(Instruction(op, v, of)) = of
         /\ \A k \in 1 .. of : Instruction(op, v, of)[k] = Unit(op, v, k, of)
<1>1. PICK s : s = Instruction(op, v, of)
  OBVIOUS
<1>2. s \in [1 .. of -> Units] /\ \A k \in 1 .. of : s[k] = Unit(op, v, k, of)
  BY <1>1 DEF Instruction, Unit, Units
<1>3. of \in Nat
  OBVIOUS
<1>4. s \in Seq(Units) /\ Len(s) = of
  BY <1>2, <1>3, FunctionIsSeq
<1> QED BY <1>1, <1>2, <1>4

LEMMA UnreadGrown ==
  ASSUME TableOK, NEW op \in {"capacity", "insert", "duplicate"}, NEW v \in Nat, NEW of \in 1 .. 2,
         wire' = wire \o Instruction(op, v, of), peerEncoderBuf' = peerEncoderBuf
  PROVE  /\ wire' \in Seq(Units) /\ Len(Unread) \in Nat /\ Len(Unread') = Len(Unread) + of
         /\ \A i \in 1 .. Len(Unread) : Unread'[i] = Unread[i]
         /\ \A k \in 1 .. of : Unread'[Len(Unread) + k] = Unit(op, v, k, of)
<1>1. PICK U : U = Units
  OBVIOUS
<1>2. PICK s \in Seq(U) : /\ s = Instruction(op, v, of) /\ Len(s) = of
                         /\ \A k \in 1 .. of : s[k] = Unit(op, v, k, of)
  <2>1. /\ Instruction(op, v, of) \in Seq(Units) /\ Len(Instruction(op, v, of)) = of
        /\ \A k \in 1 .. of : Instruction(op, v, of)[k] = Unit(op, v, k, of)
    BY InstructionUnits
  <2> QED BY <1>1, <2>1
<1>3. PICK b \in Seq(U), w \in Seq(U) : b = peerEncoderBuf /\ w = wire
  BY <1>1 DEF TableOK
<1>4. (b \o w) \o s = b \o (w \o s)
  BY SMTT(40), ConcatAssociative
<1>5. wire' = w \o s /\ wire' \in Seq(Units)
  <2>1. w \o s \in Seq(U)
    OBVIOUS
  <2> QED BY <1>1, <1>2, <1>3, <2>1
<1>6. PICK q \in Seq(U) : q = b \o w /\ Unread = q
  <2>1. b \o w \in Seq(U)
    OBVIOUS
  <2> QED BY <1>3, <2>1 DEF Unread
<1>7. Unread' = q \o s
  BY <1>3, <1>5, <1>6, <1>4 DEF Unread
<1>8. PICK l, r : l \in Nat /\ l = Len(q) /\ r = q \o s
  BY LenProperties
<1>9. of \in Nat /\ Len(r) = l + of
      /\ \A i \in 1 .. l + of : r[i] = IF i <= l THEN q[i] ELSE s[i - l]
  BY <1>2, <1>8, ConcatProperties
<1>10. \A i \in 1 .. l : r[i] = q[i]
  <2>1. \A i \in 1 .. l : i \in 1 .. l + of /\ i <= l
    BY <1>8, <1>9
  <2> QED BY <1>9, <2>1
<1>11. ASSUME NEW k \in 1 .. of PROVE r[l + k] = Unit(op, v, k, of)
  <2>1. l + k \in 1 .. l + of /\ ~(l + k <= l) /\ (l + k) - l = k
    BY <1>8, <1>9
  <2> QED BY <1>2, <1>9, <2>1
<1> QED BY <1>5, <1>6, <1>7, <1>8, <1>9, <1>10, <1>11

LEMMA SrvSetsCapacityTable ==
  ASSUME TableOK, SrvSetsCapacity
  PROVE  TableOK'
<1>1. /\ srvCapacity = 0 /\ srvCapacity' \in 1 .. Advertised
      /\ wire' = wire \o Instruction("capacity", srvCapacity', 2)
      /\ UNCHANGED <<srvTable, entries, totalInserted, capacity, peerEncoderBuf>>
  BY DEF SrvSetsCapacity, SrvUnchanged, tableVars
<1>2. totalInserted = 0 /\ Len(srvTable) = 0 /\ capacity = 0 /\ Advertised \in Nat
  BY <1>1, ClientTypes DEF TableOK
<1>3. PICK v \in Nat : v = srvCapacity' /\ v # 0 /\ v <= Advertised
  BY <1>1, <1>2
<1>4. PICK l, q, r : l \in Nat /\ l = Len(Unread) /\ q = Unread /\ r = Unread'
  <2>1. Unread \in Seq(Units)
    BY DEF TableOK, Unread
  <2> QED BY <2>1, LenProperties
<1>5. /\ wire' \in Seq(Units) /\ Len(r) = l + 2
      /\ \A i \in 1 .. l : r[i] = q[i]
      /\ \A k \in 1 .. 2 : r[l + k] = Unit("capacity", v, k, 2)
  <2>1. wire' = wire \o Instruction("capacity", v, 2) /\ 2 \in 1 .. 2
        /\ peerEncoderBuf' = peerEncoderBuf
    BY <1>1, <1>3
  <2>2. /\ wire' \in Seq(Units) /\ Len(Unread') = Len(Unread) + 2
        /\ \A i \in 1 .. Len(Unread) : Unread'[i] = Unread[i]
        /\ \A k \in 1 .. 2 : Unread'[Len(Unread) + k] = Unit("capacity", v, k, 2)
    BY <2>1, UnreadGrown
  <2> QED BY <1>4, <2>2
<1>6. InSync'
  <2>1. PICK at : Follows(at, Unread, srvTable, 0, 0, 0, srvCapacity)
    BY <1>1, <1>2 DEF TableOK, InSync, Synced, Announced
  <2>2. l = 0
    BY <1>4, <2>1 DEF Follows
  <2>3. r[1] = Unit("capacity", v, 1, 2) /\ r[2] = Unit("capacity", v, 2, 2) /\ Len(r) = 2
    BY <1>5, <2>2
  <2>4. PICK now : now = [j \in 0 .. 0 |-> 2]
    OBVIOUS
  <2>5. now \in [0 .. 0 -> 0 .. 2] /\ Follows(now, r, srvTable, 0, 0, 2, v)
    BY <2>3, <2>4 DEF Follows
  <2>6. totalInserted' = 0 /\ Len(srvTable') = 0 /\ Announced' /\ srvTable' = srvTable
    BY <1>1, <1>2, <1>3 DEF Announced
  <2> QED BY <1>3, <1>4, <2>3, <2>5, <2>6 DEF InSync, Synced
<1> QED BY <1>1, <1>2, <1>3, <1>5, <1>6 DEF TableOK

(* The units of a new entry bring it.                                      *)
Grown(q, r, of, tab, tab2, n) ==
  /\ Len(q) \in Nat /\ Len(r) = Len(q) + of /\ \A i \in 1 .. Len(q) : r[i] = q[i]
  /\ \A i \in 1 .. n : tab2[i] = tab[i]
  /\ Brings(tab2, r, Len(q), Len(q) + of, n + 1)

LEMMA SyncGrows ==
  ASSUME NEW q, NEW r, NEW tab, NEW tab2, NEW n \in Nat, NEW t \in 0 .. n,
         NEW first \in {0, 2}, NEW cap, NEW of \in 1 .. 2,
         Synced(q, tab, t, n, first, cap), Grown(q, r, of, tab, tab2, n)
  PROVE  Synced(r, tab2, t, n + 1, first, cap)
<1> PICK l \in Nat : l = Len(q)
  BY DEF Grown
<1> PICK at \in [t .. n -> 0 .. l] : Follows(at, q, tab, t, n, first, cap)
  BY DEF Synced
<1>0. /\ Len(r) = l + of /\ \A i \in 1 .. l : r[i] = q[i]
      /\ \A i \in 1 .. n : tab2[i] = tab[i]
      /\ Brings(tab2, r, l, l + of, n + 1) /\ t \in Nat /\ t <= n
  BY DEF Grown
<1> USE <1>0
<1> DEFINE now == [j \in t .. n + 1 |-> IF j = n + 1 THEN l + of ELSE at[j]]
<1>1. \A j \in t .. n : /\ at[j] \in 0 .. l /\ j \in t .. n + 1 /\ j # n + 1
                        /\ at[j] \in Nat /\ at[j] <= l + of
  OBVIOUS
<1>2. /\ \A j \in t .. n : now[j] = at[j]
      /\ now[n + 1] = l + of /\ l + of \in Nat /\ n \in t .. n /\ t \in t .. n
  BY <1>1
<1>3. \A j \in t .. n + 1 : j = n + 1 \/ j \in t .. n
  OBVIOUS
<1>4. now \in [t .. n + 1 -> 0 .. l + of]
  <2>1. \A j \in t .. n + 1 : (IF j = n + 1 THEN l + of ELSE at[j]) \in 0 .. l + of
    BY <1>1, <1>2, <1>3
  <2> QED BY <2>1
<1> HIDE DEF now
<1>5. at[t] = first /\ at[n] = l
  BY DEF Follows
<1>6. now[t] = first /\ now[n + 1] = Len(r)
  BY <1>2, <1>5
<1>7. ASSUME NEW j \in t .. n + 1, NEW k \in t .. n + 1, j <= k
      PROVE  now[j] <= now[k]
  <2>1. CASE k = n + 1
    <3>1. now[j] \in 0 .. l + of
      BY <1>4
    <3> QED BY <1>2, <2>1, <3>1
  <2>2. CASE k # n + 1
    <3>1. j \in t .. n /\ k \in t .. n
      BY <1>7, <2>2
    <3>2. at[j] <= at[k]
      BY <1>7, <3>1 DEF Follows
    <3> QED BY <1>2, <3>1, <3>2
  <2> QED BY <2>1, <2>2
<1>8. first = 2 => r[1] = Unit("capacity", cap, 1, 2) /\ r[2] = Unit("capacity", cap, 2, 2)
  <2> SUFFICES ASSUME first = 2
               PROVE  r[1] = Unit("capacity", cap, 1, 2) /\ r[2] = Unit("capacity", cap, 2, 2)
    OBVIOUS
  <2>1. q[1] = Unit("capacity", cap, 1, 2) /\ q[2] = Unit("capacity", cap, 2, 2)
    BY DEF Follows
  <2>2. 1 \in 1 .. l /\ 2 \in 1 .. l
    BY <1>1, <1>2, <1>5
  <2> QED BY <2>1, <2>2
<1>9. ASSUME NEW j \in t + 1 .. n + 1
      PROVE  Brings(tab2, r, now[j - 1], now[j], j)
  <2>1. CASE j = n + 1
    <3>1. j - 1 = n /\ n \in t .. n
      BY <2>1
    <3>2. now[j - 1] = l /\ now[j] = l + of
      BY <1>2, <1>5, <2>1, <3>1
    <3> QED BY <2>1, <3>2
  <2>2. CASE j # n + 1
    <3>1. j \in t + 1 .. n /\ j \in t .. n /\ j \in 1 .. n
      <4>1. j \in Nat /\ j >= t + 1 /\ j <= n
        BY <2>2
      <4> QED BY <4>1
    <3>2. PICK i \in t .. n : i = j - 1
      BY <3>1
    <3>3. PICK a \in Nat, b \in Nat : a = at[i] /\ b = at[j] /\ b <= l
      BY <1>1, <3>1
    <3>4. now[j - 1] = a /\ now[j] = b
      BY <1>2, <3>1, <3>2, <3>3
    <3>5. Brings(tab, q, a, b, j)
      BY <3>1, <3>2, <3>3 DEF Follows
    <3>6. tab2[j] = tab[j] /\ \A k \in 1 .. j - 1 : tab2[k] = tab[k]
      <4>1. \A k \in 1 .. j - 1 : k \in 1 .. n
        BY <3>1
      <4> QED BY <3>1, <4>1
    <3>7. CASE b = a + 2
      <4>1. a + 1 \in 1 .. l /\ a + 2 \in 1 .. l /\ b # a + 1
        BY <3>3, <3>7
      <4>2. r[a + 1] = q[a + 1] /\ r[a + 2] = q[a + 2]
        BY <4>1
      <4>3. CASE /\ tab[j] = j /\ q[a + 1] = Unit("insert", j, 1, 2)
                 /\ q[a + 2] = Unit("insert", j, 2, 2)
        BY <3>4, <3>6, <3>7, <4>2, <4>3 DEF Brings
      <4>4. ASSUME NEW k \in 1 .. j - 1, tab[j] = tab[k],
                   q[a + 1] = Unit("duplicate", j - 1 - k, 1, 2),
                   q[a + 2] = Unit("duplicate", j - 1 - k, 2, 2)
            PROVE  Brings(tab2, r, now[j - 1], now[j], j)
        <5>1. tab2[j] = tab2[k]
          BY <3>6, <4>4
        <5> QED BY <3>4, <3>7, <4>2, <4>4, <5>1 DEF Brings
      <4> QED BY <3>5, <4>1, <4>3, <4>4 DEF Brings
    <3>8. CASE b = a + 1
      <4>1. a + 1 \in 1 .. l /\ b # a + 2
        BY <3>3, <3>8
      <4>2. r[a + 1] = q[a + 1]
        BY <4>1
      <4>3. PICK k \in 1 .. j - 1 :
              q[a + 1] = Unit("duplicate", j - 1 - k, 1, 1) /\ tab[j] = tab[k]
        BY <3>5, <4>1 DEF Brings
      <4>4. tab2[j] = tab2[k]
        BY <3>6, <4>3
      <4> QED BY <3>4, <3>8, <4>2, <4>3, <4>4 DEF Brings
    <3> QED BY <3>5, <3>7, <3>8 DEF Brings
  <2> QED BY <2>1, <2>2
<1>10. Follows(now, r, tab2, t, n + 1, first, cap)
  BY <1>6, <1>7, <1>8, <1>9 DEF Follows
<1> QED BY <1>4, <1>10 DEF Synced

(* An insertion, of the server's next field or of an entry once more.      *)
LEMMA InsertionSent ==
  ASSUME ServerOK, SrvInserts
  PROVE  \E x, v \in Nat : \E op \in {"capacity", "insert", "duplicate"}, of \in 1 .. 2 :
           /\ srvTable' = Append(srvTable, x) /\ wire' = wire \o Instruction(op, v, of)
           /\ \/ op = "insert" /\ of = 2 /\ x = Len(srvTable) + 1 /\ v = Len(srvTable) + 1
              \/ /\ op = "duplicate"
                 /\ \E i \in 1 .. Len(srvTable) : x = srvTable[i] /\ v = Len(srvTable) - i
<1>1. PICK n \in Nat : n = Len(srvTable) /\ DOMAIN srvTable = 1 .. n
                       /\ \A i \in 1 .. n : srvTable[i] \in Nat
  BY LenProperties, ElementOfSeq DEF ServerOK
<1>2. CASE /\ srvTable' = Append(srvTable, n + 1)
           /\ wire' = wire \o Instruction("insert", n + 1, 2)
  <2>1. n + 1 \in Nat /\ 2 \in 1 .. 2 /\ "insert" \in {"capacity", "insert", "duplicate"}
    OBVIOUS
  <2> QED BY <1>1, <1>2, <2>1
<1>3. ASSUME NEW i \in 1 .. n, srvTable' = Append(srvTable, srvTable[i]),
             wire' = wire \o Instruction("duplicate", n - i, UnitsOfIndex(n - i))
      PROVE  \E x, v \in Nat : \E op \in {"capacity", "insert", "duplicate"}, of \in 1 .. 2 :
               /\ srvTable' = Append(srvTable, x) /\ wire' = wire \o Instruction(op, v, of)
               /\ op = "duplicate"
               /\ \E k \in 1 .. n : x = srvTable[k] /\ v = n - k
  <2>1. n - i \in Nat /\ srvTable[i] \in Nat
        /\ "duplicate" \in {"capacity", "insert", "duplicate"}
    BY <1>1
  <2>2. UnitsOfIndex(n - i) \in 1 .. 2
    BY DEF UnitsOfIndex
  <2> QED BY <1>3, <2>1, <2>2
<1> QED BY <1>1, <1>2, <1>3 DEF SrvInserts

LEMMA SrvInsertsTable ==
  ASSUME TableOK, SrvInserts
  PROVE  TableOK'
<1>1. PICK x \in Nat, v \in Nat, op \in {"capacity", "insert", "duplicate"}, of \in 1 .. 2 :
        /\ srvTable' = Append(srvTable, x) /\ wire' = wire \o Instruction(op, v, of)
        /\ \/ op = "insert" /\ of = 2 /\ x = Len(srvTable) + 1 /\ v = Len(srvTable) + 1
           \/ /\ op = "duplicate"
              /\ \E i \in 1 .. Len(srvTable) : x = srvTable[i] /\ v = Len(srvTable) - i
  <2>1. ServerOK
    BY ServerTyped
  <2> QED BY <2>1, InsertionSent
<1>2. /\ Len(srvTable) < srvCapacity
      /\ UNCHANGED <<srvCapacity, entries, totalInserted, capacity, peerEncoderBuf>>
  BY DEF SrvInserts, SrvUnchanged, tableVars
<1>3. PICK n \in Nat, t \in Nat, cap \in Nat :
        /\ n = Len(srvTable) /\ t = totalInserted /\ t <= n /\ cap = srvCapacity
        /\ n + 1 <= cap /\ Len(entries) = t
  BY <1>2, ClientTypes, H3Assumption DEF TableOK
<1>4. PICK tab, tab2 : tab = srvTable /\ tab2 = srvTable'
  OBVIOUS
<1>5. /\ tab2 \in Seq(Nat) /\ Len(tab2) = n + 1 /\ tab2[n + 1] = x
      /\ \A i \in 1 .. n : tab2[i] = tab[i]
  BY <1>1, <1>3, <1>4, AppendProperties DEF TableOK
<1>6. PICK l, q, r : l = Len(Unread) /\ q = Unread /\ r = Unread'
  OBVIOUS
<1>7. /\ wire' \in Seq(Units) /\ l \in Nat /\ Len(r) = l + of
      /\ \A i \in 1 .. l : r[i] = q[i]
      /\ \A k \in 1 .. of : r[l + k] = Unit(op, v, k, of)
  <2>1. /\ wire' \in Seq(Units) /\ Len(Unread) \in Nat /\ Len(Unread') = Len(Unread) + of
        /\ \A i \in 1 .. Len(Unread) : Unread'[i] = Unread[i]
        /\ \A k \in 1 .. of : Unread'[Len(Unread) + k] = Unit(op, v, k, of)
    BY <1>1, <1>2, UnreadGrown
  <2> QED BY <1>6, <2>1
<1>8. Brings(tab2, r, l, l + of, n + 1)
  <2>1. CASE op = "insert" /\ of = 2 /\ x = n + 1 /\ v = n + 1
    <3>1. r[l + 1] = Unit("insert", n + 1, 1, 2) /\ r[l + 2] = Unit("insert", n + 1, 2, 2)
      BY <1>7, <2>1
    <3> QED BY <1>5, <2>1, <3>1 DEF Brings
  <2>2. ASSUME NEW i \in 1 .. n, x = tab[i], v = n - i, op = "duplicate"
        PROVE  Brings(tab2, r, l, l + of, n + 1)
    <3>1. \A k \in 1 .. of : r[l + k] = Unit("duplicate", n + 1 - 1 - i, k, of)
      <4>1. n - i = n + 1 - 1 - i
        BY <2>2
      <4> QED BY <1>7, <2>2, <4>1
    <3>2. i \in 1 .. n + 1 - 1 /\ tab2[n + 1] = tab2[i]
      BY <1>5, <2>2
    <3>3. CASE of = 1
      <4>1. r[l + 1] = Unit("duplicate", n + 1 - 1 - i, 1, 1)
        BY <3>1, <3>3
      <4> QED BY <3>2, <3>3, <4>1 DEF Brings
    <3>4. CASE of = 2
      <4>1. /\ r[l + 1] = Unit("duplicate", n + 1 - 1 - i, 1, 2)
            /\ r[l + 2] = Unit("duplicate", n + 1 - 1 - i, 2, 2)
        BY <3>1, <3>4
      <4> QED BY <3>2, <3>4, <4>1 DEF Brings
    <3> QED BY <3>3, <3>4
  <2> QED BY <1>1, <1>3, <1>4, <2>1, <2>2
<1>9. InSync'
  <2>1. PICK first \in {0, 2} : first = IF Announced THEN 2 ELSE 0
    OBVIOUS
  <2>2. Synced(q, tab, t, n, first, cap)
    BY <1>3, <1>4, <1>6, <2>1, Zenon DEF TableOK, InSync
  <2>3. Grown(q, r, of, tab, tab2, n)
    BY <1>5, <1>6, <1>7, <1>8 DEF Grown
  <2>4. t \in 0 .. n
    BY <1>3
  <2>5. Synced(r, tab2, t, n + 1, first, cap)
    BY <2>2, <2>3, <2>4, SyncGrows, Zenon
  <2>6. /\ totalInserted' = t /\ Len(srvTable') = n + 1 /\ srvCapacity' = cap
        /\ (Announced' <=> Announced)
    BY <1>2, <1>3, <1>4, <1>5 DEF Announced
  <2> QED BY <1>4, <1>6, <2>1, <2>5, <2>6, Zenon DEF InSync
<1>10. \A i \in 1 .. Len(entries') : entries'[i] = srvTable'[i]
  <2>1. \A i \in 1 .. t : i \in 1 .. n /\ entries[i] = srvTable[i]
    BY <1>3, ClientTypes
  <2> QED BY <1>2, <1>3, <1>4, <1>5, <2>1
<1>11. /\ srvTable' \in Seq(Nat) /\ Len(srvTable') <= srvCapacity'
       /\ Len(entries') <= Len(srvTable')
  BY <1>2, <1>3, <1>4, <1>5
<1> QED BY <1>2, <1>7, <1>9, <1>10, <1>11 DEF TableOK

-----------------------------------------------------------------------------
(* What holds of the table and of the server in any case.                  *)

LEMMA EvictedTyped ==
  ASSUME NEW es \in Seq(Nat), NEW cap \in Nat
  PROVE  Evicted(es, cap) \in Seq(Nat)
<1>1. PICK n \in Nat : n = Len(es)
  BY LenProperties
<1>2. CASE n <= cap
  BY <1>1, <1>2 DEF Evicted
<1>3. CASE ~(n <= cap)
  <2>1. n - cap \in 0 .. n
    BY <1>3
  <2>2. SubSeq(es, n - cap + 1, n) \in Seq(Nat)
    BY <1>1, <2>1, RestProperties
  <2> QED BY <1>1, <1>3, <2>2 DEF Evicted
<1> QED BY <1>2, <1>3

LEMMA InsertTyped ==
  ASSUME ServerOK, NEW fs \in Seq(Nat), Insert(fs), UNCHANGED <<srvTable, srvCapacity>>
  PROVE  ServerOK'
<1>1. PICK es \in Seq(Nat) : es = entries \o fs
  <2>1. entries \in Seq(Nat)
    BY DEF ServerOK
  <2>2. entries \o fs \in Seq(Nat)
    BY <2>1, ConcatProperties
  <2> QED BY <2>2
<1>2. entries' \in Seq(Nat)
  BY <1>1, EvictedTyped DEF Insert, ServerOK
<1>3. totalInserted' \in Nat
  <2>1. Len(fs) \in Nat
    BY LenProperties
  <2> QED BY <2>1 DEF Insert, ServerOK
<1> QED BY <1>2, <1>3 DEF Insert, ServerOK

LEMMA CapacityTyped ==
  ASSUME ServerOK, NEW cap \in Nat, SetCapacity(cap), UNCHANGED <<srvTable, srvCapacity>>
  PROVE  ServerOK'
<1>1. entries' \in Seq(Nat)
  BY EvictedTyped DEF SetCapacity, ServerOK
<1> QED BY <1>1 DEF SetCapacity, ServerOK

LEMMA ParseServer ==
  ASSUME ServerOK, desynced \/ TableOK, ParseEncoderInstruction
  PROVE  ServerOK'
<1>1. UNCHANGED <<srvTable, srvCapacity>> /\ entries \in Seq(Nat) /\ peerEncoderBuf # <<>>
  BY DEF ParseEncoderInstruction, Parsable, srvVars, ServerOK
<1>2. CASE ~desynced
  <2>1. ParseInstruction
    BY <1>2 DEF ParseEncoderInstruction
  <2>2. PICK u : u = Head(peerEncoderBuf)
    OBVIOUS
  <2>3. u.v \in Nat
    <3>1. u \in Units
      BY <1>1, <1>2, <2>2, HeadTailProperties DEF TableOK
    <3> QED BY <3>1 DEF Units
  <2>4. CASE \E whole \in BOOLEAN : \E cap \in Reading(u, 0, whole) : SetCapacity(cap)
    <3>1. PICK whole \in BOOLEAN : \E cap \in Reading(u, 0, whole) : SetCapacity(cap)
      BY <2>4
    <3>2. PICK cap \in Reading(u, 0, whole) : SetCapacity(cap)
      BY <3>1
    <3>3. cap \in Nat
      BY <2>3 DEF Reading
    <3> QED BY <1>1, <3>2, <3>3, CapacityTyped
  <2>5. CASE Insert(<<u.v>>)
    <3>1. <<u.v>> \in Seq(Nat)
      BY <2>3
    <3> QED BY <1>1, <2>5, <3>1, InsertTyped
  <2>6. CASE \E i : Insert(GetRelative(totalInserted, i))
    <3>1. PICK i : Insert(GetRelative(totalInserted, i))
      BY <2>6
    <3>2. GetRelative(totalInserted, i) \in Seq(Nat)
      BY <1>1, ElementOfSeq DEF GetRelative, GetAbsolute
    <3> QED BY <1>1, <3>1, <3>2, InsertTyped
  <2>7. (u.of <= Len(peerEncoderBuf)) \in BOOLEAN
    OBVIOUS
  <2> QED BY <2>1, <2>2, <2>4, <2>5, <2>6, <2>7 DEF ParseInstruction
<1>3. CASE desynced
  <2>1. PICK n : ParseGarbage(n)
    BY <1>3 DEF ParseEncoderInstruction
  <2>2. CASE \E field \in {Garbage} \cup Range(entries) : Insert(<<field>>)
    <3>1. PICK field \in {Garbage} \cup Range(entries) : Insert(<<field>>)
      BY <2>2
    <3>2. field \in Nat
      BY <1>1, ElementOfSeq DEF Garbage, Range
    <3>3. <<field>> \in Seq(Nat)
      BY <3>2
    <3> QED BY <1>1, <3>1, <3>3, InsertTyped
  <2>3. CASE \E cap \in 0 .. MaxGarbage : SetCapacity(cap)
    <3>1. PICK cap \in 0 .. MaxGarbage : SetCapacity(cap)
      BY <2>3
    <3>2. cap \in Nat
      BY H3Assumption
    <3> QED BY <1>1, <3>1, <3>2, CapacityTyped
  <2> QED BY <2>1, <2>2, <2>3 DEF ParseGarbage
<1> QED BY <1>2, <1>3

LEMMA SrvServer ==
  ASSUME ServerOK, SrvSetsCapacity \/ SrvInserts
  PROVE  ServerOK'
<1>1. UNCHANGED <<entries, totalInserted, capacity>>
  BY DEF SrvSetsCapacity, SrvInserts, SrvUnchanged, tableVars
<1>2. Advertised \in Nat /\ Len(srvTable) \in Nat
  BY LenProperties, H3Assumption DEF ServerOK
<1>3. CASE SrvSetsCapacity
  <2>1. srvCapacity = 0 /\ srvCapacity' \in 1 .. Advertised /\ srvTable' = srvTable
    BY <1>3 DEF SrvSetsCapacity
  <2> QED BY <1>1, <1>2, <2>1 DEF ServerOK
<1>4. CASE SrvInserts
  <2>1. PICK x \in Nat : srvTable' = Append(srvTable, x)
    BY <1>4, InsertionSent
  <2>2. srvTable' \in Seq(Nat) /\ Len(srvTable') = Len(srvTable) + 1
    BY <2>1, AppendProperties DEF ServerOK
  <2>3. Len(srvTable) < srvCapacity /\ srvCapacity' = srvCapacity
    BY <1>4 DEF SrvInserts
  <2> QED BY <1>1, <1>2, <2>2, <2>3 DEF ServerOK
<1> QED BY <1>3, <1>4

LEMMA ServerStays ==
  ASSUME ServerOK, UNCHANGED <<entries, totalInserted, capacity>>,
         UNCHANGED <<srvTable, srvCapacity>>
  PROVE  ServerOK'
BY DEF ServerOK

-----------------------------------------------------------------------------
(* The other parts of the invariant.                                       *)

(* The table grows at its end only: a section stays what it was.           *)
LEMMA SectionKept ==
  ASSUME ServerOK, SectionOK, section' = section,
         Len(srvTable') \in Nat, Len(srvTable) <= Len(srvTable'),
         \A i \in 1 .. Len(srvTable) : srvTable'[i] = srvTable[i]
  PROVE  SectionOK'
<1> SUFFICES ASSUME section' # Unanswered
             PROVE  \E refs \in Seq(Nat), base \in Nat : Coded(refs, base)'
  BY DEF SectionOK
<1>1. PICK refs \in Seq(Nat), base \in Nat : Coded(refs, base)
  BY DEF SectionOK
<1>2. PICK n \in Nat, m \in Nat : n = Len(srvTable) /\ m = Len(srvTable') /\ n <= m
  BY LenProperties DEF ServerOK
<1>3. refs \in Seq(0 .. m - 1) /\ base \in 0 .. m /\ (refs = <<>> => base = 0)
  <2>1. refs \in Seq(0 .. n - 1) /\ base \in 0 .. n /\ (refs = <<>> => base = 0)
    BY <1>1, <1>2 DEF Coded
  <2>2. (0 .. n - 1) \subseteq (0 .. m - 1) /\ base \in 0 .. m
    BY <1>2, <2>1
  <2>3. Seq(0 .. n - 1) \subseteq Seq(0 .. m - 1)
    BY <2>2, SeqMonotonic, Zenon
  <2> QED BY <2>1, <2>2, <2>3, Zenon
<1>4. section' = Encoded(refs, base)'
  <2>1. \A i \in DOMAIN refs : srvTable'[refs[i] + 1] = srvTable[refs[i] + 1]
    <3> SUFFICES ASSUME NEW i \in DOMAIN refs
                 PROVE  srvTable'[refs[i] + 1] = srvTable[refs[i] + 1]
      OBVIOUS
    <3>1. refs \in Seq(0 .. n - 1)
      BY <1>1, <1>2 DEF Coded
    <3>2. refs[i] \in 0 .. n - 1
      BY <3>1
    <3>3. refs[i] + 1 \in 1 .. n
      BY <1>2, <3>2
    <3> QED BY <1>2, <3>3
  <2>2. [i \in DOMAIN refs |-> srvTable'[refs[i] + 1]] = [i \in DOMAIN refs |-> srvTable[refs[i] + 1]]
    BY <2>1
  <2>3. Encoded(refs, base)' = Encoded(refs, base)
    BY <2>2, Zenon DEF Encoded
  <2> QED BY <1>1, <2>3 DEF Coded
<1> QED BY <1>1, <1>2, <1>3, <1>4 DEF Coded

LEMMA SrvAnswersSection ==
  ASSUME ServerOK, SrvAnswers
  PROVE  SectionOK'
<1>1. PICK n \in Nat : n = Len(srvTable)
  BY LenProperties DEF ServerOK
<1>2. PICK k \in 0 .. MaxLines :
        \E refs \in [1 .. k -> 0 .. n - 1], base \in 0 .. n :
          (refs = <<>> => base = 0) /\ section' = Encoded(refs, base)
  BY <1>1 DEF SrvAnswers
<1>3. PICK refs \in [1 .. k -> 0 .. n - 1], base \in 0 .. n :
        (refs = <<>> => base = 0) /\ section' = Encoded(refs, base)
  BY <1>2
<1>4. refs \in Seq(0 .. n - 1) /\ refs \in Seq(Nat) /\ base \in Nat
  <2>1. k \in Nat
    BY H3Assumption
  <2>2. refs \in Seq(0 .. n - 1)
    BY <2>1, FunctionIsSeq
  <2>3. 0 .. n - 1 \subseteq Nat
    OBVIOUS
  <2> QED BY <2>2, <2>3, SeqMonotonic
<1>5. srvTable' = srvTable
  BY DEF SrvAnswers
<1>6. Encoded(refs, base)' = Encoded(refs, base)
  BY <1>5, Zenon DEF Encoded
<1>7. Coded(refs, base)'
  BY <1>1, <1>4, <1>5, <1>6, <1>3 DEF Coded
<1> QED BY <1>4, <1>7 DEF SectionOK

LEMMA StreamEmitsResponse ==
  ASSUME ClientIInv, StreamEmits, IInv'
  PROVE  ResponseOK'
<1> DEFINE complete == recvOffset < HeadersLen /\ recvOffset' >= HeadersLen
           bad == complete /\ InsertCount(section.enc) = -1
<1>1. /\ Emit /\ section' = section /\ desynced' = desynced
      /\ respHeaders' = IF complete /\ ~bad THEN Decoded(section) ELSE respHeaders
      /\ early' = (early \/ (complete /\ totalInserted < section.ric))
      /\ outcome' = IF outcome = "none"
                    THEN IF bad THEN "failed" ELSE IF Head(pending).fin THEN "resolved" ELSE "none"
                    ELSE outcome
  BY DEF StreamEmits, Settled, srvVars, tableVars
<1>2. /\ pending # <<>> /\ (ended => ended') /\ (Head(pending).fin => ended')
  BY <1>1 DEF Emit, Emitting
<1>3. /\ recvOffset \in Nat /\ recvOffset' \in Nat /\ HeadersLen \in Nat /\ Size \in Nat
      /\ HeadersLen < Size /\ (ended => recvOffset = Size) /\ (ended' => recvOffset' = Size)
  BY StreamAssumption, H3Assumption DEF ClientIInv, IInv, TypeOK
<1>4. section # Unanswered
  BY <1>2 DEF ClientIInv, ResponseOK
<1>5. /\ Decoded(section) # Undecoded /\ section.ric \in Nat /\ totalInserted \in Nat
      /\ ~desynced /\ section.ric <= totalInserted =>
           Decoded(section) = <<Status>> \o section.fields
  BY <1>4, SectionDecodes DEF ClientIInv, ServerOK
<1>6. outcome = "resolved" => ~complete
  BY <1>3 DEF ClientIInv, ResponseOK
<1>7. outcome' \in {"none", "resolved", "failed"}
  BY <1>1 DEF ClientIInv, ResponseOK
<1>8. recvOffset' >= HeadersLen => respHeaders' # Undecoded \/ outcome' = "failed"
  <2>1. CASE complete
    BY <1>1, <1>5, <1>6, <2>1 DEF ClientIInv, ResponseOK
  <2>2. CASE ~complete
    <3>1. recvOffset' >= HeadersLen => recvOffset >= HeadersLen
      BY <1>3, <2>2
    <3> QED BY <1>1, <2>2, <3>1 DEF ClientIInv, ResponseOK
  <2> QED BY <2>1, <2>2
<1>9. respHeaders' # Undecoded =>
        early' \/ desynced' \/ respHeaders' = <<Status>> \o section'.fields
  <2>1. CASE complete /\ ~bad
    <3>1. CASE totalInserted < section.ric
      BY <1>1, <2>1, <3>1
    <3>2. CASE ~(totalInserted < section.ric)
      BY <1>1, <1>5, <2>1, <3>2
    <3> QED BY <3>1, <3>2
  <2>2. CASE ~(complete /\ ~bad)
    BY <1>1, <2>2 DEF ClientIInv, ResponseOK
  <2> QED BY <2>1, <2>2
<1>10. outcome' = "resolved" => ended' /\ respHeaders' # Undecoded
  <2>1. CASE outcome = "resolved"
    BY <1>1, <1>2, <1>6, <2>1 DEF ClientIInv, ResponseOK
  <2>2. ASSUME outcome # "resolved", outcome' = "resolved"
        PROVE  ended' /\ respHeaders' # Undecoded
    <3>1. Head(pending).fin
      BY <1>1, <2>2
    <3> QED BY <1>2, <1>3, <1>8, <2>2, <3>1
  <2> QED BY <2>1, <2>2
<1> QED BY <1>1, <1>4, <1>7, <1>8, <1>9, <1>10 DEF ResponseOK

LEMMA StreamArrivesResponse ==
  ASSUME ResponseOK, NEW f \in Frames, StreamArrives(f)
  PROVE  ResponseOK'
<1>1. /\ section # Unanswered
      /\ UNCHANGED <<section, recvOffset, respHeaders, early, desynced, ended>>
      /\ outcome' = outcome \/ outcome' = IF outcome = "none" THEN "failed" ELSE outcome
  BY DEF StreamArrives, Receive, Overflow, Settled, srvVars, tableVars
<1> QED BY <1>1 DEF ResponseOK

LEMMA SrvAnswersResponse ==
  ASSUME ResponseOK, SrvAnswers
  PROVE  ResponseOK'
<1>1. /\ section = Unanswered
      /\ UNCHANGED <<pending, recvOffset, respHeaders, early, desynced, ended, outcome>>
  BY DEF SrvAnswers, streamVars, tableVars, reqVars
<1> QED BY <1>1 DEF ResponseOK

(* What a step that leaves the table, or the response, alone keeps.        *)
LEMMA TableStays ==
  ASSUME TableOK, UNCHANGED <<entries, totalInserted, capacity, peerEncoderBuf>>,
         UNCHANGED <<wire, srvTable, srvCapacity>>
  PROVE  TableOK'
<1>1. InSync' <=> InSync
  BY DEF InSync, Unread, Announced
<1> QED BY <1>1 DEF TableOK

LEMMA SectionStays ==
  ASSUME SectionOK, UNCHANGED <<srvTable, section>>
  PROVE  SectionOK'
BY DEF SectionOK, Coded, Encoded

LEMMA ResponseStays ==
  ASSUME ResponseOK, desynced => desynced',
         UNCHANGED <<pending, recvOffset, ended, section, outcome, respHeaders, early>>
  PROVE  ResponseOK'
BY DEF ResponseOK

Table == UNCHANGED <<entries, totalInserted, capacity, peerEncoderBuf, desynced>>
Response == UNCHANGED <<pending, recvOffset, ended, section, outcome, respHeaders, early>>

LEMMA ClientStepKeeps == ClientIInv /\ [H3Next]_h3Vars => ClientIInv'
<1> DEFINE Keeps == ServerOK' /\ (desynced' \/ TableOK') /\ SectionOK' /\ ResponseOK'
<1> SUFFICES ASSUME ClientIInv, [H3Next]_h3Vars
             PROVE  Keeps
  BY ClientStep, StepIInv DEF ClientIInv
<1>0. IInv' /\ ServerOK /\ (desynced \/ TableOK) /\ SectionOK /\ ResponseOK
  BY ClientStep, StepIInv DEF ClientIInv
<1>1. CASE Request \/ ConnectionCloses \/ UNCHANGED h3Vars
  <2>1. Response /\ Table /\ UNCHANGED <<wire, srvTable, srvCapacity>>
    BY <1>1 DEF Request, ConnectionCloses, h3Vars, streamVars, tableVars, srvVars, reqVars,
                Table, Response
  <2> QED BY <1>0, <2>1, ServerStays, TableStays, SectionStays, ResponseStays
          DEF Table, Response
<1>2. CASE ParseEncoderInstruction
  <2>1. Response /\ UNCHANGED <<srvTable, srvCapacity>> /\ (desynced => desynced')
    BY <1>2 DEF ParseEncoderInstruction, ParseGarbage, streamVars, srvVars, reqVars, Response
  <2>2. desynced' \/ TableOK'
    BY <1>0, <1>2, <2>1, ParseTable
  <2> QED BY <1>0, <1>2, <2>1, <2>2, ParseServer, SectionStays, ResponseStays DEF Response
<1>3. CASE StreamEmits
  <2>1. Table /\ UNCHANGED <<wire, srvTable, srvCapacity>> /\ UNCHANGED section
    BY <1>3 DEF StreamEmits, tableVars, srvVars, Table
  <2> QED BY <1>0, <1>3, <2>1, ServerStays, TableStays, SectionStays, StreamEmitsResponse
          DEF Table
<1>4. ASSUME NEW f \in Frames, StreamArrives(f)
      PROVE  Keeps
  <2>1. Table /\ UNCHANGED <<wire, srvTable, srvCapacity>> /\ UNCHANGED section
    BY <1>4 DEF StreamArrives, tableVars, srvVars, Table
  <2> QED BY <1>0, <1>4, <2>1, ServerStays, TableStays, SectionStays, StreamArrivesResponse
          DEF Table
<1>5. ASSUME NEW n \in 1 .. Len(wire), EncoderArrives(n)
      PROVE  Keeps
  <2>1. Response /\ UNCHANGED <<srvTable, srvCapacity, entries, totalInserted, capacity, desynced>>
    BY <1>5 DEF EncoderArrives, streamVars, reqVars, Response
  <2>2. desynced' \/ TableOK'
    BY <1>0, <1>5, <2>1, EncoderArrivesTable
  <2> QED BY <1>0, <2>1, <2>2, ServerStays, SectionStays, ResponseStays DEF Response
<1>6. CASE SrvSetsCapacity
  <2>1. Response /\ UNCHANGED <<srvTable, desynced>>
    BY <1>6 DEF SrvSetsCapacity, SrvUnchanged, streamVars, tableVars, reqVars, Response
  <2>2. desynced' \/ TableOK'
    BY <1>0, <1>6, <2>1, SrvSetsCapacityTable
  <2> QED BY <1>0, <1>6, <2>1, <2>2, SrvServer, SectionStays, ResponseStays DEF Response
<1>7. CASE SrvInserts
  <2>1. Response /\ UNCHANGED desynced
    BY <1>7 DEF SrvInserts, SrvUnchanged, streamVars, tableVars, reqVars, Response
  <2>2. PICK n \in Nat : n = Len(srvTable)
    BY <1>0, LenProperties DEF ServerOK
  <2>3. PICK x : srvTable' = Append(srvTable, x)
    BY <1>7 DEF SrvInserts
  <2>4. /\ Len(srvTable') = n + 1
        /\ \A i \in 1 .. n : srvTable'[i] = srvTable[i]
    BY <1>0, <2>2, <2>3 DEF ServerOK
  <2>5. SectionOK'
    BY <1>0, <2>1, <2>2, <2>4, SectionKept DEF Response
  <2>6. desynced' \/ TableOK'
    BY <1>0, <1>7, <2>1, SrvInsertsTable
  <2> QED BY <1>0, <1>7, <2>1, <2>5, <2>6, SrvServer, ResponseStays DEF Response
<1>8. CASE SrvAnswers
  <2>1. Table /\ UNCHANGED <<wire, srvTable, srvCapacity>>
    BY <1>8 DEF SrvAnswers, tableVars, Table
  <2> QED BY <1>0, <1>8, <2>1, ServerStays, TableStays, SrvAnswersSection, SrvAnswersResponse
          DEF Table
<1> HIDE DEF Keeps
<1> QED BY <1>1, <1>2, <1>3, <1>4, <1>5, <1>6, <1>7, <1>8 DEF H3Next

(* In the client, a header section decoded once the insertions it refers   *)
(* to are in the table gives its fields, all and in order, unless a packet *)
(* has cut a Set Capacity or a Duplicate before; and a response is         *)
(* resolved after its section and all its bytes, however the packets of    *)
(* the two streams interleave (qpack.js 255-288, 320-452; h3.js 138-187).  *)
THEOREM ClientResponseWhole == H3Spec => []ResponseWhole
<1>1. ClientIInv => ResponseWhole
  <2> SUFFICES ASSUME ClientIInv
               PROVE  ResponseWhole
    OBVIOUS
  <2>1. ended => recvOffset = Size /\ Size \in Nat
    BY StreamAssumption DEF ClientIInv, IInv
  <2>2. delivered = Promise!Prefix(recvOffset) /\ recvOffset \in 0 .. Size
    BY DEF ClientIInv, IInv, TypeOK
  <2>3. Len(Promise!Prefix(recvOffset)) = recvOffset
    BY <2>2, PrefixProperties
  <2> QED BY <2>1, <2>2, <2>3 DEF ClientIInv, ResponseOK, ResponseWhole
<1> QED BY <1>1, InitClient, ClientStepKeeps, PTL DEF H3Spec
=============================================================================
