------------------------- MODULE SessionCacheProofs -------------------------
(***************************************************************************)
(* Theorems about the session cache, for any number of processes, tickets  *)
(* and stops.  The inductive invariant IInv adds to what the lock gives    *)
(* that every list anywhere, in a file, in a process or on its way between *)
(* them, is within the cap and free of repetitions.                        *)
(***************************************************************************)
EXTENDS SessionCache, FiniteSetTheorems, SequenceTheorems,
        WellFoundedInduction, TLAPS

(* The lists that can come about when n tickets have been issued: within   *)
(* the cap, and no ticket twice.                                           *)
Good(n) == {list \in Seq(1 .. n) : Len(list) <= MaxPerHost /\ IsInjective(list)}

-----------------------------------------------------------------------------
(* Lemmas about naturals and sequences.                                    *)

NatLess == {x \in Nat \X Nat : x[1] < x[2]}

(* A set of naturals that is not empty has a least element.                *)
LEMMA LeastNatural ==
  ASSUME NEW T \in SUBSET Nat, T # {}
  PROVE  \E p \in T : \A q \in T : p <= q
<1>1. OpToRel(<, Nat) = NatLess
  BY DEF OpToRel, NatLess
<1>2. IsWellFoundedOn(NatLess, Nat)
  BY <1>1, NatLessThanWellFounded
<1>3. T \subseteq Nat
  OBVIOUS
<1>4. PICK p \in T : \A q \in T : ~(<<q, p>> \in NatLess)
  BY <1>2, <1>3, WFMin, Zenon
<1>5. ASSUME NEW q \in T
      PROVE  p <= q
  <2>1. p \in Nat /\ q \in Nat /\ ~(<<q, p>> \in NatLess)
    BY <1>4
  <2> QED BY <2>1 DEF NatLess
<1> QED BY <1>5

(* A set with 0 that is closed under the successor holds every natural.    *)
LEMMA NaturalsClosed ==
  ASSUME NEW T, 0 \in T, \A n \in Nat : n \in T => n + 1 \in T
  PROVE  \A n \in Nat : n \in T
<1> SUFFICES ASSUME NEW n \in Nat \ T
             PROVE  FALSE
  OBVIOUS
<1>1. PICK p \in Nat \ T : \A q \in Nat \ T : p <= q
  <2>1. Nat \ T \in SUBSET Nat /\ Nat \ T # {}
    OBVIOUS
  <2> QED BY <2>1, LeastNatural
<1>2. p # 0 /\ p - 1 \in Nat /\ p - 1 + 1 = p
  OBVIOUS
<1>3. p - 1 \in T
  BY <1>1, <1>2
<1> QED BY <1>2, <1>3

(* What is left of a sequence without its first m elements.                *)
LEMMA RestProperties ==
  ASSUME NEW S, NEW s \in Seq(S), NEW m \in 0 .. Len(s)
  PROVE  LET c == SubSeq(s, m + 1, Len(s))
         IN c \in Seq(S) /\ Len(c) = Len(s) - m /\ \A i \in 1 .. Len(s) - m : c[i] = s[m + i]
<1> DEFINE c == SubSeq(s, m + 1, Len(s))
<1>1. Len(s) \in Nat /\ m \in Nat /\ m <= Len(s)
  BY LenProperties
<1>2. \A i \in (m + 1) .. Len(s) : s[i] \in S
  BY <1>1, ElementOfSeq
<1> HIDE DEF c
<1>3. /\ c \in Seq(S)
      /\ Len(c) = IF m + 1 <= Len(s) THEN Len(s) - (m + 1) + 1 ELSE 0
      /\ \A i \in 1 .. Len(s) - (m + 1) + 1 : c[i] = s[m + 1 + i - 1]
  BY <1>1, <1>2, SubSeqProperties DEF c
<1>4. c \in Seq(S) /\ Len(c) = Len(s) - m
  BY <1>1, <1>3
<1>5. ASSUME NEW i \in 1 .. Len(s) - m
      PROVE  c[i] = s[m + i]
  <2>1. i \in 1 .. Len(s) - (m + 1) + 1 /\ m + 1 + i - 1 = m + i
    BY <1>1
  <2> QED BY <1>3, <2>1
<1> QED BY <1>4, <1>5 DEF c

-----------------------------------------------------------------------------
(* The filter: its recursive function exists, and every step of it keeps   *)
(* the tickets of a first part of the list that are not gone.              *)

WithoutStep(list, gone, n, left) ==
  IF n = 0 THEN <<>>
  ELSE IF list[n] \in gone THEN left[n - 1] ELSE Append(left[n - 1], list[n])

LEMMA WithoutUnfolds ==
  ASSUME NEW list, NEW gone, Len(list) \in Nat
  PROVE  \E left : /\ left = [n \in 0 .. Len(list) |-> WithoutStep(list, gone, n, left)]
                   /\ Without(list, gone) = left[Len(list)]
<1> DEFINE T == {m \in Nat : \E f : f = [n \in 0 .. m |-> WithoutStep(list, gone, n, f)]}
<1>1. 0 \in T
  <2> DEFINE f == [n \in 0 .. 0 |-> <<>>]
  <2>1. f = [n \in 0 .. 0 |-> WithoutStep(list, gone, n, f)]
    BY DEF WithoutStep
  <2> QED BY <2>1
<1>2. ASSUME NEW m \in Nat, m \in T
      PROVE  m + 1 \in T
  <2>1. PICK f : f = [n \in 0 .. m |-> WithoutStep(list, gone, n, f)]
    BY <1>2
  <2> DEFINE g == [n \in 0 .. m + 1 |->
                     IF n <= m THEN f[n] ELSE WithoutStep(list, gone, n, f)]
  <2>2. \A n \in 0 .. m : g[n] = f[n]
    OBVIOUS
  <2>3. \A n \in 0 .. m : f[n] = WithoutStep(list, gone, n, f)
    BY <2>1
  <2>4. \A n \in 0 .. m + 1 : WithoutStep(list, gone, n, f) = WithoutStep(list, gone, n, g)
    <3> SUFFICES ASSUME NEW n \in 0 .. m + 1, n # 0
                 PROVE  f[n - 1] = g[n - 1]
      BY DEF WithoutStep
    <3>1. n - 1 \in 0 .. m
      OBVIOUS
    <3> QED BY <3>1, <2>2
  <2>5. \A n \in 0 .. m + 1 : g[n] = WithoutStep(list, gone, n, g)
    BY <2>2, <2>3, <2>4
  <2>6. g = [n \in 0 .. m + 1 |-> WithoutStep(list, gone, n, g)]
    <3>1. DOMAIN g = 0 .. m + 1 /\ g = [n \in DOMAIN g |-> g[n]]
      OBVIOUS
    <3> HIDE DEF g
    <3> QED BY <3>1, <2>5
  <2> HIDE DEF g
  <2>7. \E h : h = [n \in 0 .. m + 1 |-> WithoutStep(list, gone, n, h)]
    BY <2>6
  <2> QED BY <2>7
<1> HIDE DEF T
<1>3. Len(list) \in T
  BY <1>1, <1>2, NaturalsClosed
<1> USE DEF T
<1> DEFINE Is(f) == f = [n \in 0 .. Len(list) |-> WithoutStep(list, gone, n, f)]
           left == CHOOSE f : Is(f)
<1>4. Is(left)
  <2>1. \E f : Is(f)
    BY <1>3
  <2> QED BY <2>1, Zenon
<1>5. Without(list, gone) = left[Len(list)]
  BY DEF Without, WithoutStep
<1> QED BY <1>4, <1>5, Zenon

LEMMA WithoutProperties ==
  ASSUME NEW S, NEW list \in Seq(S), NEW gone
  PROVE  LET kept == Without(list, gone)
         IN /\ kept \in Seq(S)
            /\ Len(kept) <= Len(list)
            /\ ToSet(kept) = ToSet(list) \ gone
            /\ IsInjective(list) => IsInjective(kept)
<1> DEFINE Part(m, l) ==
             /\ l \in Seq(S)
             /\ Len(l) <= m
             /\ \A x : x \in ToSet(l) <=> \E i \in 1 .. m : x = list[i] /\ list[i] \notin gone
             /\ IsInjective(list) => IsInjective(l)
<1>1. Len(list) \in Nat /\ DOMAIN list = 1 .. Len(list) /\ \A i \in 1 .. Len(list) : list[i] \in S
  BY LenProperties, ElementOfSeq
<1>2. PICK left : /\ left = [n \in 0 .. Len(list) |-> WithoutStep(list, gone, n, left)]
                  /\ Without(list, gone) = left[Len(list)]
  BY <1>1, WithoutUnfolds
<1>3. \A n \in 0 .. Len(list) : left[n] = WithoutStep(list, gone, n, left)
  BY <1>2
<1> DEFINE T == {m \in Nat : m <= Len(list) => Part(m, left[m])}
<1>4. 0 \in T
  <2>1. left[0] = <<>>
    BY <1>1, <1>3 DEF WithoutStep
  <2>2. Part(0, <<>>)
    BY DEF IsInjective, ToSet
  <2> QED BY <2>1, <2>2
<1>5. ASSUME NEW m \in Nat, m \in T
      PROVE  m + 1 \in T
  <2> SUFFICES ASSUME m + 1 <= Len(list)
               PROVE  Part(m + 1, left[m + 1])
    OBVIOUS
  <2> DEFINE l == left[m]
             x == list[m + 1]
  <2>1. m + 1 \in 1 .. Len(list) /\ m + 1 \in 0 .. Len(list) /\ m + 1 # 0 /\ m + 1 - 1 = m
    BY <1>1
  <2>2. Part(m, l)
    BY <1>1, <1>5
  <2>3. left[m + 1] = IF x \in gone THEN l ELSE Append(l, x)
    BY <1>3, <2>1 DEF WithoutStep
  <2>4. x \in S
    BY <1>1, <2>1
  <2> HIDE DEF l, x
  <2>5. l \in Seq(S) /\ Len(l) \in Nat /\ Len(l) <= m /\ DOMAIN l = 1 .. Len(l)
    BY <2>2, LenProperties
  <2>6. CASE x \in gone
    <3>1. left[m + 1] = l
      BY <2>3, <2>6
    <3>2. ASSUME NEW y
          PROVE  y \in ToSet(l) <=> \E i \in 1 .. m + 1 : y = list[i] /\ list[i] \notin gone
      BY <2>2, <2>6 DEF x
    <3> QED BY <2>2, <2>5, <3>1, <3>2
  <2>7. CASE x \notin gone
    <3> DEFINE k == Append(l, x)
    <3>1. left[m + 1] = k
      BY <2>3, <2>7
    <3>2. /\ k \in Seq(S) /\ Len(k) = Len(l) + 1
          /\ \A i \in 1 .. Len(l) : k[i] = l[i]
          /\ k[Len(l) + 1] = x
          /\ DOMAIN k = 1 .. Len(l) + 1
      BY <2>4, <2>5, AppendProperties, LenProperties
    <3> HIDE DEF k
    <3>3. ToSet(k) = ToSet(l) \cup {x}
      <4>1. \A i \in 1 .. Len(l) + 1 : i = Len(l) + 1 \/ i \in 1 .. Len(l)
        BY <2>5
      <4>2. Len(l) + 1 \in 1 .. Len(l) + 1 /\ \A i \in 1 .. Len(l) : i \in 1 .. Len(l) + 1
        BY <2>5
      <4>3. ASSUME NEW y \in ToSet(k) PROVE y \in ToSet(l) \cup {x}
        BY <2>5, <3>2, <4>1 DEF ToSet
      <4>4. ASSUME NEW y \in ToSet(l) \cup {x} PROVE y \in ToSet(k)
        BY <2>5, <3>2, <4>2 DEF ToSet
      <4> QED BY <4>3, <4>4
    <3>4. ASSUME NEW y
          PROVE  y \in ToSet(k) <=> \E i \in 1 .. m + 1 : y = list[i] /\ list[i] \notin gone
      BY <2>2, <2>7, <3>3 DEF x
    <3>5. ASSUME IsInjective(list)
          PROVE  IsInjective(k)
      <4>1. x \notin ToSet(l)
        <5> SUFFICES ASSUME NEW i \in 1 .. m, x = list[i]
                     PROVE  FALSE
          BY <2>2
        <5>1. i \in DOMAIN list /\ m + 1 \in DOMAIN list /\ i # m + 1
          BY <1>1, <2>1
        <5> QED BY <3>5, <5>1 DEF IsInjective, x
      <4>2. \A i, j \in 1 .. Len(l) : l[i] = l[j] => i = j
        BY <2>2, <2>5, <3>5 DEF IsInjective
      <4>3. \A i \in 1 .. Len(l) : l[i] # x
        BY <2>5, <4>1 DEF ToSet
      <4> QED BY <2>5, <3>2, <4>2, <4>3 DEF IsInjective
    <3> QED BY <2>5, <3>1, <3>2, <3>4, <3>5
  <2> QED BY <2>6, <2>7
<1> HIDE DEF T
<1>6. Len(list) \in T
  BY <1>1, <1>4, <1>5, NaturalsClosed
<1>7. Part(Len(list), left[Len(list)])
  BY <1>1, <1>6 DEF T
<1>8. ToSet(Without(list, gone)) = ToSet(list) \ gone
  BY SMTT(40), <1>1, <1>2, <1>7 DEF ToSet
<1> QED BY <1>2, <1>7, <1>8

-----------------------------------------------------------------------------
(* The other operators of a list.                                          *)

LEMMA ListsAreSequences ==
  ASSUME NEW list
  PROVE  list \in Lists <=> list \in Seq(Tickets) /\ Len(list) <= MaxPerHost
<1>1. MaxPerHost \in Nat
  BY SessionCacheAssumption
<1>2. ASSUME list \in Lists PROVE list \in Seq(Tickets) /\ Len(list) <= MaxPerHost
  <2>1. PICK n \in 0 .. MaxPerHost : list \in [1 .. n -> Tickets]
    BY <1>2 DEF Lists
  <2> QED BY <1>1, <2>1
<1>3. ASSUME list \in Seq(Tickets), Len(list) <= MaxPerHost PROVE list \in Lists
  <2>1. Len(list) \in 0 .. MaxPerHost /\ list \in [1 .. Len(list) -> Tickets]
    BY <1>1, <1>3, LenProperties
  <2> QED BY <2>1 DEF Lists
<1> QED BY <1>2, <1>3

LEMMA BoundedProperties ==
  ASSUME NEW S, NEW list \in Seq(S)
  PROVE  LET b == Bounded(list)
         IN /\ b \in Seq(S)
            /\ Len(b) <= MaxPerHost
            /\ Len(b) < MaxPerHost => b = list
            /\ ToSet(b) \subseteq ToSet(list)
            /\ IsInjective(list) => IsInjective(b)
<1> DEFINE n == IF Len(list) < MaxPerHost THEN Len(list) ELSE MaxPerHost
           b == Bounded(list)
<1>1. /\ Len(list) \in Nat /\ DOMAIN list = 1 .. Len(list)
      /\ \A i \in 1 .. Len(list) : list[i] \in S
      /\ MaxPerHost \in Nat
  BY LenProperties, ElementOfSeq, SessionCacheAssumption
<1>2. /\ n \in Nat /\ n <= Len(list) /\ n <= MaxPerHost
      /\ n < MaxPerHost => n = Len(list)
      /\ \A i \in 1 .. n : i \in 1 .. Len(list)
  <2> HIDE DEF b
  <2>1. CASE Len(list) < MaxPerHost
    BY <1>1, <2>1
  <2>2. CASE ~(Len(list) < MaxPerHost)
    <3>1. n = MaxPerHost
      BY <2>2
    <3>2. MaxPerHost \in Nat /\ Len(list) \in Nat /\ MaxPerHost <= Len(list)
      BY <1>1, <2>2
    <3> HIDE DEF n
    <3>3. \A i \in 1 .. n : i \in 1 .. Len(list)
      BY <3>1, <3>2
    <3>4. n <= Len(list) /\ n <= MaxPerHost /\ ~(n < MaxPerHost)
      BY <3>1, <3>2
    <3> QED BY <3>1, <3>2, <3>3, <3>4
  <2> QED BY <2>1, <2>2
<1>3. b = SubSeq(list, 1, n)
  BY DEF Bounded
<1> HIDE DEF n, b
<1>4. b \in Seq(S) /\ Len(b) = n /\ \A i \in 1 .. n : b[i] = list[i]
  <2>1. \A i \in 1 .. n : list[i] \in S
    BY <1>1, <1>2, Zenon
  <2>2. /\ b \in Seq(S)
        /\ Len(b) = IF 1 <= n THEN n - 1 + 1 ELSE 0
        /\ \A i \in 1 .. n - 1 + 1 : b[i] = list[1 + i - 1]
    BY <1>2, <1>3, <2>1, SubSeqProperties
  <2> QED BY <1>2, <2>2
<1>5. DOMAIN b = 1 .. n
  BY <1>4, LenProperties
<1>6. Len(b) < MaxPerHost => b = list
  BY SMTT(40), <1>1, <1>2, <1>4, SeqEqual
<1>7. ToSet(b) \subseteq ToSet(list)
  BY <1>1, <1>2, <1>4, <1>5 DEF ToSet
<1>8. IsInjective(list) => IsInjective(b)
  BY <1>1, <1>2, <1>4, <1>5 DEF IsInjective
<1> QED BY <1>2, <1>4, <1>6, <1>7, <1>8 DEF b

LEMMA ReverseProperties ==
  ASSUME NEW S, NEW list \in Seq(S)
  PROVE  LET r == Reverse(list)
         IN /\ r \in Seq(S)
            /\ Len(r) = Len(list)
            /\ ToSet(r) = ToSet(list)
            /\ IsInjective(list) => IsInjective(r)
<1> DEFINE r == Reverse(list)
<1>1. /\ Len(list) \in Nat /\ DOMAIN list = 1 .. Len(list)
      /\ \A i \in 1 .. Len(list) : list[i] \in S
  BY LenProperties, ElementOfSeq
<1>2. \A i \in 1 .. Len(list) : /\ Len(list) - i + 1 \in 1 .. Len(list)
                                /\ Len(list) - (Len(list) - i + 1) + 1 = i
  BY <1>1
<1>3. /\ r \in Seq(S) /\ Len(r) = Len(list) /\ DOMAIN r = 1 .. Len(list)
      /\ \A i \in 1 .. Len(list) : r[i] = list[Len(list) - i + 1]
  BY <1>1, <1>2 DEF Reverse
<1> HIDE DEF r
<1>4. ToSet(r) = ToSet(list)
  <2>1. ASSUME NEW x \in ToSet(list) PROVE x \in ToSet(r)
    <3>1. PICK i \in 1 .. Len(list) : x = list[i]
      BY <1>1 DEF ToSet
    <3>2. r[Len(list) - i + 1] = x
      BY <1>2, <1>3, <3>1
    <3> QED BY <1>2, <1>3, <3>2 DEF ToSet
  <2>2. ASSUME NEW x \in ToSet(r) PROVE x \in ToSet(list)
    <3>1. PICK i \in 1 .. Len(list) : x = r[i]
      BY <1>3 DEF ToSet
    <3>2. x = list[Len(list) - i + 1] /\ Len(list) - i + 1 \in 1 .. Len(list)
      BY <1>2, <1>3, <3>1
    <3> QED BY <1>1, <3>2 DEF ToSet
  <2> QED BY <2>1, <2>2
<1>5. ASSUME IsInjective(list) PROVE IsInjective(r)
  <2> SUFFICES ASSUME NEW i \in 1 .. Len(list), NEW j \in 1 .. Len(list), r[i] = r[j]
               PROVE  i = j
    BY <1>3 DEF IsInjective
  <2>1. Len(list) - i + 1 = Len(list) - j + 1
    BY <1>1, <1>2, <1>3, <1>5 DEF IsInjective
  <2> QED BY <1>1, <2>1
<1> QED BY <1>3, <1>4, <1>5 DEF r

LEMMA ConcatInjective ==
  ASSUME NEW S, NEW a \in Seq(S), NEW b \in Seq(S)
  PROVE  /\ a \o b \in Seq(S)
         /\ Len(a \o b) = Len(a) + Len(b)
         /\ ToSet(a \o b) = ToSet(a) \cup ToSet(b)
         /\ (IsInjective(a) /\ IsInjective(b) /\ ToSet(a) \cap ToSet(b) = {})
              => IsInjective(a \o b)
<1> DEFINE c == a \o b
<1>1. /\ Len(a) \in Nat /\ DOMAIN a = 1 .. Len(a)
      /\ Len(b) \in Nat /\ DOMAIN b = 1 .. Len(b)
  BY LenProperties
<1>2. /\ c \in Seq(S) /\ Len(c) = Len(a) + Len(b) /\ DOMAIN c = 1 .. Len(a) + Len(b)
      /\ \A i \in 1 .. Len(a) + Len(b) : c[i] = IF i <= Len(a) THEN a[i] ELSE b[i - Len(a)]
  BY ConcatProperties, LenProperties
<1> HIDE DEF c
<1>3. \A i \in DOMAIN c : \/ i \in DOMAIN a /\ c[i] = a[i] /\ i <= Len(a)
                          \/ i - Len(a) \in DOMAIN b /\ c[i] = b[i - Len(a)] /\ i > Len(a)
  BY <1>1, <1>2
<1>4. /\ \A i \in DOMAIN a : i \in DOMAIN c /\ c[i] = a[i]
      /\ \A i \in DOMAIN b : i + Len(a) \in DOMAIN c /\ c[i + Len(a)] = b[i]
  BY <1>1, <1>2
<1>5. ToSet(c) = ToSet(a) \cup ToSet(b)
  BY <1>3, <1>4 DEF ToSet
<1>6. ASSUME IsInjective(a), IsInjective(b), ToSet(a) \cap ToSet(b) = {}
      PROVE  IsInjective(c)
  <2> SUFFICES ASSUME NEW i \in DOMAIN c, NEW j \in DOMAIN c, c[i] = c[j]
               PROVE  i = j
    BY DEF IsInjective
  <2>1. i \in Nat /\ j \in Nat
    BY <1>1, <1>2
  <2>2. CASE i \in DOMAIN a /\ j \in DOMAIN a /\ c[i] = a[i] /\ c[j] = a[j]
    BY <1>6, <2>2 DEF IsInjective
  <2>3. CASE /\ i - Len(a) \in DOMAIN b /\ c[i] = b[i - Len(a)]
             /\ j - Len(a) \in DOMAIN b /\ c[j] = b[j - Len(a)]
    <3>1. i - Len(a) = j - Len(a)
      BY <1>6, <2>3 DEF IsInjective
    <3> QED BY <1>1, <2>1, <3>1
  <2>4. CASE i \in DOMAIN a /\ c[i] = a[i] /\ j - Len(a) \in DOMAIN b /\ c[j] = b[j - Len(a)]
    BY <1>6, <2>4 DEF ToSet
  <2>5. CASE j \in DOMAIN a /\ c[j] = a[j] /\ i - Len(a) \in DOMAIN b /\ c[i] = b[i - Len(a)]
    BY <1>6, <2>5 DEF ToSet
  <2> QED BY <1>3, <2>2, <2>3, <2>4, <2>5
<1> QED BY <1>2, <1>5, <1>6 DEF c

-----------------------------------------------------------------------------
(* What a list becomes: the lists stay within the cap, hold tickets that   *)
(* were issued, and none twice.                                            *)

LEMMA EmptyOK == \A n : <<>> \in Good(n)
<1>1. Len(<<>>) = 0 /\ IsInjective(<<>>) /\ 0 <= MaxPerHost
  BY SessionCacheAssumption DEF IsInjective
<1> QED BY <1>1 DEF Good

LEMMA GoodLater ==
  ASSUME NEW n \in Nat, NEW list \in Good(n)
  PROVE  list \in Good(n + 1)
<1>1. list \in Seq(1 .. n) /\ 1 .. n \subseteq 1 .. (n + 1)
  BY DEF Good
<1>2. list \in Seq(1 .. (n + 1))
  BY <1>1, SeqMonotonic
<1> QED BY <1>2 DEF Good

LEMMA ValidOK ==
  ASSUME NEW n, NEW list \in Good(n)
  PROVE  Valid(list) \in Good(n)
<1>1. list \in Seq(1 .. n) /\ Len(list) \in Nat /\ MaxPerHost \in Nat
  BY LenProperties, SessionCacheAssumption DEF Good
<1>2. /\ Valid(list) \in Seq(1 .. n) /\ Len(Valid(list)) <= Len(list)
      /\ IsInjective(list) => IsInjective(Valid(list))
  BY <1>1, WithoutProperties DEF Valid
<1>3. Len(Valid(list)) \in Nat
  BY <1>2, LenProperties
<1> QED BY <1>1, <1>2, <1>3 DEF Good

(* A ticket that is put is new, so it is not in the list twice.            *)
LEMMA PutOK ==
  ASSUME NEW n \in Nat, NEW list \in Good(n)
  PROVE  Bounded(<<n + 1>> \o list) \in Good(n + 1)
<1> DEFINE S == 1 .. (n + 1)
<1>1. list \in Good(n + 1) /\ list \in Seq(1 .. n)
  BY GoodLater DEF Good
<1>2. <<n + 1>> \in Seq(S) /\ IsInjective(<<n + 1>>) /\ ToSet(<<n + 1>>) = {n + 1}
  BY DEF IsInjective, ToSet
<1>3. n + 1 \notin ToSet(list)
  <2>1. \A i \in DOMAIN list : list[i] \in 1 .. n
    BY <1>1, LenProperties, ElementOfSeq
  <2> QED BY <2>1 DEF ToSet
<1>4. list \in Seq(S) /\ IsInjective(list)
  BY <1>1 DEF Good
<1> HIDE DEF S
<1>5. <<n + 1>> \o list \in Seq(S) /\ IsInjective(<<n + 1>> \o list)
  BY <1>2, <1>3, <1>4, ConcatInjective
<1> QED BY <1>5, BoundedProperties DEF Good, S

LEMMA RestOK ==
  ASSUME NEW n, NEW list \in Good(n), NEW i \in 1 .. Len(list)
  PROVE  SubSeq(list, i + 1, Len(list)) \in Good(n)
<1> DEFINE S == 1 .. n
           rest == SubSeq(list, i + 1, Len(list))
<1>0. list \in Seq(S) /\ IsInjective(list) /\ Len(list) <= MaxPerHost
  BY DEF Good
<1> HIDE DEF S
<1>1. /\ Len(list) \in Nat /\ DOMAIN list = 1 .. Len(list)
      /\ MaxPerHost \in Nat
      /\ i \in Nat /\ 1 <= i /\ i <= Len(list) /\ i \in 0 .. Len(list)
  BY <1>0, LenProperties, SessionCacheAssumption
<1>3. /\ rest \in Seq(S) /\ Len(rest) = Len(list) - i
      /\ \A j \in 1 .. Len(list) - i : rest[j] = list[i + j]
  BY <1>0, <1>1, RestProperties
<1>4. DOMAIN rest = 1 .. Len(rest)
  BY <1>3, LenProperties
<1> HIDE DEF rest
<1>5. Len(rest) <= MaxPerHost
  BY <1>0, <1>1, <1>3
<1>6. \A j \in 1 .. Len(rest) : i + j \in DOMAIN list /\ rest[j] = list[i + j]
  BY <1>1, <1>3
<1>7. IsInjective(rest)
  <2> SUFFICES ASSUME NEW j \in 1 .. Len(rest), NEW k \in 1 .. Len(rest), rest[j] = rest[k]
               PROVE  j = k
    BY <1>4 DEF IsInjective
  <2>1. i + j = i + k
    BY <1>0, <1>6 DEF IsInjective
  <2> QED BY <1>1, <1>3, <2>1
<1>8. rest \in Good(n)
  BY <1>3, <1>5, <1>7 DEF Good, S
<1> QED BY <1>8 DEF rest

(* The merge drops nothing of the file's list that does not fall off its   *)
(* end, and puts in front only what the file lacks.                        *)
Keeps(old, new) == \A t \in ToSet(old) \ ToSet(new) : Len(new) = MaxPerHost

LEMMA MergedOK ==
  ASSUME NEW n, NEW theirs \in Good(n), NEW ours \in Good(n)
  PROVE  Merged(theirs, ours) \in Good(n) /\ Keeps(theirs, Merged(theirs, ours))
<1> DEFINE S == 1 .. n
           new == Without(Valid(ours), ToSet(theirs))
           front == Reverse(new)
           all == front \o theirs
<1>1. /\ theirs \in Seq(S) /\ IsInjective(theirs)
      /\ Valid(ours) \in Seq(S) /\ IsInjective(Valid(ours))
  BY ValidOK DEF Good
<1> HIDE DEF S
<1>2. new \in Seq(S) /\ IsInjective(new) /\ ToSet(new) \cap ToSet(theirs) = {}
  BY <1>1, WithoutProperties
<1> HIDE DEF new
<1>3. front \in Seq(S) /\ IsInjective(front) /\ ToSet(front) = ToSet(new)
  BY <1>2, ReverseProperties
<1> HIDE DEF front
<1>4. all \in Seq(S) /\ IsInjective(all) /\ ToSet(theirs) \subseteq ToSet(all)
  BY <1>1, <1>2, <1>3, ConcatInjective
<1>5. Merged(theirs, ours) = Bounded(all)
  BY DEF Merged, all, front, new
<1> HIDE DEF all
<1>6. /\ Bounded(all) \in Seq(S) /\ IsInjective(Bounded(all))
      /\ Len(Bounded(all)) <= MaxPerHost
      /\ Len(Bounded(all)) < MaxPerHost => Bounded(all) = all
  BY <1>4, BoundedProperties
<1>7. Len(Bounded(all)) \in Nat /\ MaxPerHost \in Nat
  BY <1>6, LenProperties, SessionCacheAssumption
<1>8. Keeps(theirs, Bounded(all))
  <2> SUFFICES ASSUME Len(Bounded(all)) # MaxPerHost
               PROVE  ToSet(theirs) \subseteq ToSet(Bounded(all))
    BY DEF Keeps
  <2>1. Bounded(all) = all
    BY <1>6, <1>7
  <2> QED BY <1>4, <2>1
<1> QED BY <1>5, <1>6, <1>8 DEF Good, S

-----------------------------------------------------------------------------
(* The inductive invariant.                                                *)

Steps == {"down", "idle", "lock", "stat", "reclaim"} \cup Critical

LockFile == [owner : Procs \cup {NoProc}, stale : BOOLEAN]

ControlOK ==
  /\ at \in [Procs -> Steps]
  /\ timer \in [Procs -> BOOLEAN]
  /\ lock \in LockFile
  /\ issued \in Nat /\ issued <= MaxTickets
  /\ expired \subseteq Tickets
  /\ stops \in 0 .. MaxStops /\ robbed \in BOOLEAN

ListsOK ==
  /\ store \in [Procs -> Good(issued)]
  /\ onDisk \in [Procs -> Good(issued)]
  /\ disk \in Good(issued)
  /\ tmp = NoFile \/ tmp \in {File(l) : l \in Good(issued)}

(* While no lock was removed from somebody at work, whoever is under the   *)
(* lock owns it, what it read is the file, and what it is about to rename  *)
(* keeps the file's tickets.  A stale lock is nobody's at work.            *)
LockOK ==
  /\ lock.stale => lock.owner \notin InCritical
  /\ robbed \/ \A p \in Procs :
       /\ at[p] \in Critical => lock.owner = p
       /\ at[p] = "write" => onDisk[p] = disk
       /\ at[p] = "rename" => tmp = NoFile \/ Keeps(disk, tmp[2])

IInv == ControlOK /\ ListsOK /\ LockOK

LEMMA LockFileOK == NoLock \in LockFile /\ \A p \in Procs : [owner |-> p, stale |-> FALSE] \in LockFile
BY DEF LockFile, NoLock

LEMMA InitIInv == Init => IInv
<1> SUFFICES ASSUME Init PROVE IInv
  OBVIOUS
<1>1. ControlOK
  <2>1. at \in [Procs -> Steps] /\ timer \in [Procs -> BOOLEAN] /\ robbed \in BOOLEAN
    BY DEF Init, Steps
  <2>2. issued \in Nat /\ issued <= MaxTickets /\ stops \in 0 .. MaxStops /\ expired \subseteq Tickets
    BY SessionCacheAssumption DEF Init
  <2> QED BY <2>1, <2>2, LockFileOK DEF Init, ControlOK
<1>2. ListsOK
  BY EmptyOK DEF Init, ListsOK
<1>3. LockOK
  BY DEF Init, LockOK, NoLock, Critical
<1> QED BY <1>1, <1>2, <1>3 DEF IInv

LEMMA ControlStep == ControlOK /\ [Next]_vars => ControlOK'
<1> SUFFICES ASSUME ControlOK, [Next]_vars PROVE ControlOK'
  OBVIOUS
<1> USE SessionCacheAssumption DEF ControlOK
<1>0. {"down", "idle", "lock", "stat", "reclaim", "read", "write", "rename", "unlock"} = Steps
  BY DEF Steps, Critical
<1>1. ASSUME NEW p \in Procs, Start(p) PROVE ControlOK'
  BY <1>0, <1>1 DEF Start
<1>2. ASSUME NEW p \in Procs, Stop(p) PROVE ControlOK'
  BY <1>0, <1>2 DEF Stop, Goto
<1>3. ASSUME NEW p \in Procs, Put(p) PROVE ControlOK'
  BY <1>3 DEF Put, Keep
<1>4. ASSUME NEW p \in Procs, Take(p) PROVE ControlOK'
  BY <1>4 DEF Take, Keep
<1>5. ASSUME NEW p \in Procs, TakeNothing(p) \/ Clear(p) PROVE ControlOK'
  BY <1>5 DEF TakeNothing, Clear, Keep
<1>6. ASSUME NEW p \in Procs, Flush(p) \/ FlushNow(p) \/ TryAgain(p) PROVE ControlOK'
  <2>1. at' \in [Procs -> Steps] /\ lock' \in LockFile
    BY <1>0, <1>6, LockFileOK DEF Flush, FlushNow, TryAgain, OpenLock, Goto
  <2>2. timer' \in [Procs -> BOOLEAN]
    BY <1>6 DEF Flush, FlushNow, TryAgain
  <2> QED BY <1>6, <2>1, <2>2 DEF Flush, FlushNow, TryAgain, OpenLock, InMemory
<1>7. ASSUME NEW p \in Procs, StatLock(p) \/ GiveUp(p) PROVE ControlOK'
  BY <1>0, <1>7 DEF StatLock, GiveUp, Goto, InMemory
<1>8. ASSUME NEW p \in Procs, ReclaimLock(p) \/ Unlock(p) PROVE ControlOK'
  <2>1. at' \in [Procs -> Steps]
    BY <1>0, <1>8 DEF ReclaimLock, Unlock, Goto
  <2>2. lock' \in LockFile /\ robbed' \in BOOLEAN
    BY <1>8, LockFileOK, Zenon DEF ReclaimLock, Unlock, RemoveLock
  <2> QED BY <1>8, <2>1, <2>2 DEF ReclaimLock, Unlock, InMemory
<1>9. ASSUME NEW p \in Procs, ReadFile(p) \/ WriteTmp(p) \/ RenameTmp(p) PROVE ControlOK'
  BY <1>0, <1>9 DEF ReadFile, WriteTmp, RenameTmp, Goto, InMemory
<1>10. ASSUME NEW t \in Tickets, Expire(t) PROVE ControlOK'
  BY <1>10 DEF Expire
<1>11. CASE LockAges
  BY <1>11 DEF LockAges, LockFile
<1>12. CASE UNCHANGED vars
  BY <1>12 DEF vars
<1> QED BY <1>1, <1>2, <1>3, <1>4, <1>5, <1>6, <1>7, <1>8, <1>9, <1>10, <1>11, <1>12
        DEF Next, FlushStep

LEMMA ListsStep == ControlOK /\ ListsOK /\ [Next]_vars => ListsOK'
<1> SUFFICES ASSUME ControlOK, ListsOK, [Next]_vars PROVE ListsOK'
  OBVIOUS
<1> USE EmptyOK DEF ListsOK
<1>0. issued \in Nat
  BY DEF ControlOK
<1>1. ASSUME NEW p \in Procs, Start(p) PROVE ListsOK'
  BY <1>1, ValidOK DEF Start
<1>2. ASSUME NEW p \in Procs, Stop(p) PROVE ListsOK'
  BY <1>2 DEF Stop
<1>3. ASSUME NEW p \in Procs, Put(p) PROVE ListsOK'
  <2>1. Good(issued) \subseteq Good(issued')
    BY <1>0, <1>3, GoodLater DEF Put
  <2>2. Bounded(<<issued + 1>> \o store[p]) \in Good(issued')
    BY <1>0, <1>3, PutOK DEF Put
  <2>3. store' \in [Procs -> Good(issued')]
    BY <1>3, <2>1, <2>2 DEF Put, Keep
  <2> QED BY <1>3, <2>1, <2>3 DEF Put, Keep
<1>4. ASSUME NEW p \in Procs, Take(p) PROVE ListsOK'
  <2>1. PICK i \in 1 .. Len(store[p]) : Keep(p, SubSeq(store[p], i + 1, Len(store[p])))
    BY <1>4 DEF Take
  <2>2. SubSeq(store[p], i + 1, Len(store[p])) \in Good(issued)
    BY RestOK
  <2> QED BY <1>4, <2>1, <2>2 DEF Take, Keep
<1>5. ASSUME NEW p \in Procs, TakeNothing(p) \/ Clear(p) PROVE ListsOK'
  BY <1>5 DEF TakeNothing, Clear, Keep
<1>6. ASSUME NEW p \in Procs,
             \/ Flush(p) \/ FlushNow(p) \/ TryAgain(p) \/ StatLock(p) \/ GiveUp(p)
             \/ ReclaimLock(p) \/ Unlock(p)
      PROVE  ListsOK'
  BY <1>6 DEF Flush, FlushNow, TryAgain, OpenLock, StatLock, GiveUp, ReclaimLock, Unlock, InMemory
<1>7. ASSUME NEW p \in Procs, ReadFile(p) PROVE ListsOK'
  BY <1>7 DEF ReadFile, InMemory
<1>8. ASSUME NEW p \in Procs, WriteTmp(p) PROVE ListsOK'
  <2>1. Merged(onDisk[p], store[p]) \in Good(issued)
    BY MergedOK
  <2> QED BY <1>8, <2>1 DEF WriteTmp, InMemory
<1>9. ASSUME NEW p \in Procs, RenameTmp(p) PROVE ListsOK'
  <2>1. tmp \in {File(l) : l \in Good(issued)} => tmp[2] \in Good(issued)
    BY DEF File
  <2> QED BY <1>9, <2>1 DEF RenameTmp, InMemory
<1>10. ASSUME NEW t \in Tickets, Expire(t) PROVE ListsOK'
  BY <1>10 DEF Expire
<1>11. CASE LockAges
  BY <1>11 DEF LockAges
<1>12. CASE UNCHANGED vars
  BY <1>12 DEF vars
<1> QED BY <1>1, <1>2, <1>3, <1>4, <1>5, <1>6, <1>7, <1>8, <1>9, <1>10, <1>11, <1>12
        DEF Next, FlushStep

(* Whoever removes the lock either owns it or robs its owner, so unless    *)
(* somebody is robbed the lock is taken only when nobody is under it.      *)
LEMMA LockStep == IInv /\ [Next]_vars => LockOK'
<1> SUFFICES ASSUME IInv, [Next]_vars PROVE LockOK'
  OBVIOUS
<1>0. /\ ControlOK /\ ListsOK /\ LockOK /\ NoProc \notin Procs
      /\ at \in [Procs -> Steps] /\ onDisk \in [Procs -> Good(issued)]
  BY SessionCacheAssumption DEF IInv, ControlOK, ListsOK
<1>1. ASSUME NEW p \in Procs, Start(p) PROVE LockOK'
  BY <1>0, <1>1 DEF Start, LockOK, InCritical, Critical
<1>2. ASSUME NEW p \in Procs, Stop(p) PROVE LockOK'
  BY <1>0, <1>2 DEF Stop, Goto, LockOK, InCritical, Critical
<1>3. ASSUME NEW p \in Procs, Put(p) \/ Take(p) \/ TakeNothing(p) \/ Clear(p) PROVE LockOK'
  <2>1. UNCHANGED <<at, onDisk, disk, tmp, lock, robbed>>
    BY <1>3 DEF Put, Take, TakeNothing, Clear, Keep
  <2> QED BY <1>0, <2>1 DEF LockOK, InCritical
<1>4. ASSUME NEW p \in Procs, Flush(p) \/ FlushNow(p) \/ TryAgain(p) PROVE LockOK'
  <2>1. /\ OpenLock(p) /\ UNCHANGED <<onDisk, disk, tmp, robbed>>
        /\ at[p] \notin Critical
    BY <1>4 DEF Flush, FlushNow, TryAgain, OpenLock, Critical
  <2>2. CASE LockFree
    <3>1. lock' = [owner |-> p, stale |-> FALSE] /\ at' = [at EXCEPT ![p] = "read"]
          /\ lock.owner = NoProc
      BY <2>1, <2>2 DEF OpenLock, LockFree, NoLock, Goto
    <3>2. robbed \/ \A q \in Procs : at[q] \notin Critical
      BY <1>0, <3>1 DEF LockOK
    <3> QED BY <1>0, <2>1, <3>1, <3>2 DEF LockOK, InCritical, Critical
  <2>3. CASE ~LockFree
    <3>1. at' = [at EXCEPT ![p] = "stat"] /\ lock' = lock
      BY <2>1, <2>3 DEF OpenLock, Goto
    <3> QED BY <1>0, <2>1, <3>1 DEF LockOK, InCritical, Critical
  <2> QED BY <2>2, <2>3
<1>5. ASSUME NEW p \in Procs, StatLock(p) \/ GiveUp(p) PROVE LockOK'
  <2>1. \E s \in {"reclaim", "lock", "idle"} : at' = [at EXCEPT ![p] = s]
    BY <1>5 DEF StatLock, GiveUp, Goto
  <2>2. UNCHANGED <<onDisk, disk, tmp, lock, robbed>>
    BY <1>5 DEF StatLock, GiveUp
  <2> QED BY <1>0, <2>1, <2>2 DEF LockOK, InCritical, Critical
<1>6. ASSUME NEW p \in Procs, ReclaimLock(p) \/ Unlock(p) PROVE LockOK'
  <2>1. /\ lock' = NoLock /\ UNCHANGED <<onDisk, disk, tmp>>
        /\ robbed' = (robbed \/ lock.owner \in InCritical \ {p})
    BY <1>6, Zenon DEF ReclaimLock, Unlock, RemoveLock
  <2>2. \E s \in {"lock", "idle"} : at' = [at EXCEPT ![p] = s]
    BY <1>6 DEF ReclaimLock, Unlock, Goto
  <2>3. \A q \in Procs : at'[q] = IF q = p THEN at'[p] ELSE at[q]
    BY <1>0, <2>2
  <2>4. at'[p] \notin Critical
    BY <1>0, <2>2 DEF Critical
  <2>5. ~robbed' => \A q \in Procs : at'[q] \notin Critical
    <3> SUFFICES ASSUME ~robbed', NEW q \in Procs, q # p, at[q] \in Critical
                 PROVE  FALSE
      BY <2>3, <2>4
    <3>1. ~robbed
      BY <2>1
    <3>2. lock.owner = q
      BY <1>0, <3>1 DEF LockOK
    <3>3. lock.owner \in InCritical \ {p}
      BY <3>2 DEF InCritical
    <3> QED BY <2>1, <3>3
  <2> QED BY <2>1, <2>5 DEF LockOK, NoLock, Critical
<1>7. ASSUME NEW p \in Procs, ReadFile(p) PROVE LockOK'
  BY <1>0, <1>7 DEF ReadFile, Goto, LockOK, InCritical, Critical
<1>8. ASSUME NEW p \in Procs, WriteTmp(p) PROVE LockOK'
  <2>1. Keeps(onDisk[p], Merged(onDisk[p], store[p]))
    BY MergedOK DEF IInv, ListsOK
  <2>2. tmp'[2] = Merged(onDisk[p], store[p])
    BY <1>8 DEF WriteTmp, File
  <2>3. /\ at' = [at EXCEPT ![p] = "rename"] /\ at[p] = "write"
        /\ onDisk' = [onDisk EXCEPT ![p] = <<>>] /\ UNCHANGED <<disk, lock, robbed>>
    BY <1>8 DEF WriteTmp, Goto
  <2> QED BY <1>0, <2>1, <2>2, <2>3 DEF LockOK, InCritical, Critical
<1>9. ASSUME NEW p \in Procs, RenameTmp(p) PROVE LockOK'
  <2>1. /\ at' = [at EXCEPT ![p] = "unlock"] /\ at[p] = "rename"
        /\ UNCHANGED <<onDisk, lock, robbed>>
    BY <1>9 DEF RenameTmp, Goto
  <2>2. robbed \/ \A q \in Procs : at[q] \in Critical => q = p
    BY <1>0, <2>1 DEF LockOK, Critical
  <2> QED BY <1>0, <2>1, <2>2 DEF LockOK, InCritical, Critical
<1>10. ASSUME NEW t \in Tickets, Expire(t) PROVE LockOK'
  BY <1>0, <1>10 DEF Expire, LockOK, InCritical
<1>11. CASE LockAges
  BY <1>0, <1>11 DEF LockAges, Abandoned, LockOK, InCritical, ControlOK, LockFile
<1>12. CASE UNCHANGED vars
  BY <1>0, <1>12 DEF vars, LockOK, InCritical
<1> QED BY <1>1, <1>2, <1>3, <1>4, <1>5, <1>6, <1>7, <1>8, <1>9, <1>10, <1>11, <1>12
        DEF Next, FlushStep

-----------------------------------------------------------------------------
(* What follows.                                                           *)

(* Types: the lists stay within MAX_PER_HOST.                              *)
THEOREM CacheTypes == Spec => [](TypeOK /\ IInv)
<1>1. IInv /\ [Next]_vars => IInv'
  BY ControlStep, ListsStep, LockStep DEF IInv
<1>2. IInv => TypeOK
  <2> SUFFICES ASSUME IInv PROVE TypeOK
    OBVIOUS
  <2>1. Good(issued) \subseteq Lists
    <3> SUFFICES ASSUME NEW list \in Good(issued) PROVE list \in Lists
      OBVIOUS
    <3>1. list \in Seq(1 .. issued) /\ 1 .. issued \subseteq Tickets /\ Len(list) <= MaxPerHost
      BY SessionCacheAssumption DEF Good, IInv, ControlOK, Tickets
    <3> QED BY <3>1, SeqMonotonic, ListsAreSequences
  <2>2. tmp = NoFile \/ tmp \in {File(l) : l \in Lists}
    BY <2>1 DEF IInv, ListsOK
  <2>3. issued \in 0 .. MaxTickets
    BY SessionCacheAssumption DEF IInv, ControlOK
  <2> QED BY <2>1, <2>2, <2>3 DEF IInv, ControlOK, ListsOK, TypeOK, Steps, LockFile
<1> QED BY <1>1, <1>2, InitIInv, PTL DEF Spec

(* Unless a lock is removed from its owner at work, at most one process is *)
(* in a flush, it owns the lock, and the file is what it read (76-78).     *)
THEOREM LockExcludesUnlessRobbed == Spec => []ExclusiveUnlessRobbed
<1>1. IInv => ExclusiveUnlessRobbed
  <2> SUFFICES ASSUME IInv, ~robbed PROVE ExclusiveUnlessRobbed
    BY DEF ExclusiveUnlessRobbed
  <2>1. \A p \in InCritical : lock.owner = p
    BY DEF IInv, LockOK, InCritical
  <2>2. InCritical \in SUBSET {lock.owner}
    BY <2>1
  <2>3. LockExcludes
    <3>1. IsFiniteSet({lock.owner}) /\ Cardinality({lock.owner}) = 1
      BY FS_Singleton
    <3> QED BY <2>2, <3>1, FS_Subset DEF LockExcludes
  <2>4. \A p \in Procs : at[p] = "write" => onDisk[p] = disk
    BY DEF IInv, LockOK
  <2> QED BY <2>1, <2>3, <2>4 DEF ExclusiveUnlessRobbed
<1> QED BY <1>1, CacheTypes, PTL

(* Then no flush clobbers what another process saved: a ticket leaves the  *)
(* file only by being pushed off its end (76-78, 105-106).                 *)
THEOREM FlushClobbersNothing == Spec => NothingClobbered
<1>1. ASSUME IInv, [Next]_vars
      PROVE  [robbed' \/ Keeps(disk, disk')]_disk
  <2>1. ASSUME NEW p \in Procs, RenameTmp(p), ~robbed', disk' # disk
        PROVE  Keeps(disk, disk')
    <3>1. ~robbed /\ at[p] = "rename" /\ tmp # NoFile /\ disk' = tmp[2]
      BY <2>1 DEF RenameTmp
    <3> QED BY <1>1, <3>1 DEF IInv, LockOK
  <2>2. ASSUME ~\E p \in Procs : RenameTmp(p)
        PROVE  disk' = disk
    BY <1>1, <2>2 DEF Next, FlushStep, vars, Start, Stop, Put, Take, TakeNothing, Clear, Keep,
       Flush, FlushNow, TryAgain, OpenLock, StatLock, ReclaimLock, GiveUp, ReadFile, WriteTmp,
       Unlock, Expire, LockAges
  <2> QED BY <2>1, <2>2
<1>2. NothingClobbered <=> [][robbed' \/ Keeps(disk, disk')]_disk
  BY DEF NothingClobbered, Keeps
<1> QED BY <1>1, <1>2, CacheTypes, PTL DEF Spec

(* The file and the lists never hold a ticket twice, whatever interleaving *)
(* or crash produced them (95-99).                                         *)
THEOREM NoTicketIsTwice == Spec => []NoTicketTwice
<1>1. IInv => NoTicketTwice
  BY DEF IInv, ListsOK, Good, NoTicketTwice
<1> QED BY <1>1, CacheTypes, PTL
=============================================================================
