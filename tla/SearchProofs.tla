---------------------------- MODULE SearchProofs ----------------------------
(***************************************************************************)
(* A search answers what held at the moment it asked about, and answers    *)
(* something when words match, whatever dead rows the cache of vectors     *)
(* keeps, however rows of one score are ordered, and whatever the model    *)
(* says of them; and the turns around a hit stand around it, because a     *)
(* table without an inverted row has one row of a key at a moment: for any *)
(* keys, tags, callers, searches and number of calls.                      *)
(***************************************************************************)
EXTENDS Search, BitemporalProofs

-----------------------------------------------------------------------------
(* Numbers in order.                                                        *)

\* A finite set of numbers has a bound.
LEMMA Bounded ==
    ASSUME NEW S \in SUBSET Nat, IsFiniteSet(S)
    PROVE  \E b \in Nat : \A x \in S : x <= b
<1> DEFINE Open(A) == ~ \E b \in Nat : \A x \in A : x <= b
           Bad == {c \in Nat : \E A \in SUBSET S : Cardinality(A) = c /\ Open(A)}
<1> SUFFICES ASSUME Open(S)
             PROVE  FALSE
  OBVIOUS
<1>1. Bad # {}
  BY FS_CardinalityType
<1>2. PICK c \in Bad : \A d \in Bad : c <= d
  BY <1>1, Least
<1>3. PICK A \in SUBSET S : Cardinality(A) = c /\ Open(A)
  BY <1>2
<1>4. PICK x \in A : TRUE
  <2>1. 0 \in Nat
    OBVIOUS
  <2> QED
    BY <1>3, <2>1
<1>5. /\ IsFiniteSet(A) /\ A \ {x} \in SUBSET S
      /\ Cardinality(A \ {x}) = c - 1 /\ c - 1 \in Nat
  <2>1. IsFiniteSet(A)
    BY FS_Subset
  <2>2. Cardinality(A \ {x}) = Cardinality(A) - 1 /\ Cardinality(A \ {x}) \in Nat
    BY <1>4, <2>1, FS_RemoveElement, FS_CardinalityType
  <2> QED
    BY <1>3, <2>1, <2>2
<1>6. ~Open(A \ {x})
  <2>0. c \in Nat /\ ~(c <= c - 1)
    BY <1>2
  <2>1. c - 1 \notin Bad
    <3> HIDE DEF Bad
    <3> QED
      BY <1>2, <2>0
  <2> QED
    BY <1>5, <2>1
<1>7. PICK b \in Nat : \A y \in A \ {x} : y <= b
  BY <1>6
<1>8. x \in Nat /\ \A y \in A : y \in Nat
  BY <1>4
<1> DEFINE m == IF x <= b THEN b ELSE x
<1>9. m \in Nat /\ x <= m /\ b <= m
  BY <1>7, <1>8
<1>10. \A y \in A : y <= m
  <2> SUFFICES ASSUME NEW y \in A
               PROVE  y <= m
    OBVIOUS
  <2> HIDE DEF m
  <2>1. CASE y = x
    BY <1>9, <2>1
  <2>2. CASE y # x
    BY <1>7, <1>8, <1>9, <2>2
  <2> QED
    BY <2>1, <2>2
<1> HIDE DEF m
<1> QED
  BY <1>3, <1>9, <1>10

\* The numbers of S below k.
Under(S, k) == {m \in S : m < k}

\* How many they are, as k grows.
LEMMA UnderGrows ==
    ASSUME NEW S \in SUBSET Nat, IsFiniteSet(S), NEW k \in Nat
    PROVE  /\ Cardinality(Under(S, k)) \in Nat
           /\ Under(S, 0) = {}
           /\ Cardinality(Under(S, k + 1)) =
                 Cardinality(Under(S, k)) + (IF k \in S THEN 1 ELSE 0)
<1>1. IsFiniteSet(Under(S, k)) /\ IsFiniteSet(Under(S, k + 1))
  BY FS_Subset DEF Under
<1>2. Cardinality(Under(S, k)) \in Nat
  BY <1>1, FS_CardinalityType
<1>0. \A m \in S : m \in Nat
  OBVIOUS
<1>3. Under(S, 0) = {}
  <2>1. \A m \in S : ~(m < 0)
    BY <1>0
  <2> QED
    BY <2>1 DEF Under
<1>4. CASE k \in S
  <2>1. Under(S, k + 1) = Under(S, k) \cup {k} /\ k \notin Under(S, k)
    <3>1. \A m \in S : m < k + 1 <=> m < k \/ m = k
      BY <1>0
    <3>2. ~(k < k)
      OBVIOUS
    <3> QED
      BY <1>4, <3>1, <3>2 DEF Under
  <2> QED
    BY <1>1, <1>2, <1>3, <1>4, <2>1, FS_AddElement
<1>5. CASE k \notin S
  <2>1. Under(S, k + 1) = Under(S, k)
    <3>1. \A m \in S : m < k + 1 <=> m < k
      BY <1>0, <1>5
    <3> QED
      BY <3>1 DEF Under
  <2> QED
    BY <1>2, <1>3, <1>5, <2>1
<1> QED
  BY <1>4, <1>5

\* Every place has its number.
LEMMA HasPlace ==
    ASSUME NEW S \in SUBSET Nat, IsFiniteSet(S), NEW j \in 1..Cardinality(S)
    PROVE  \E n \in S : Cardinality(Under(S, n)) = j - 1
<1> DEFINE Enough == {k \in Nat : Cardinality(Under(S, k)) >= j}
<1>0. Cardinality(S) \in Nat
  BY FS_CardinalityType
<1>1. Enough # {}
  <2>1. PICK b \in Nat : \A x \in S : x <= b
    BY Bounded
  <2>2. \A x \in S : x \in Nat
    OBVIOUS
  <2>3. \A x \in S : x < b + 1
    BY <2>1, <2>2
  <2>4. Under(S, b + 1) = S
    BY <2>3 DEF Under
  <2> QED
    BY <1>0, <2>1, <2>4
<1>2. PICK k \in Enough : \A l \in Enough : k <= l
  BY <1>1, Least
<1>3. k # 0
  <2>1. Cardinality(Under(S, 0)) = 0
    BY UnderGrows, FS_EmptySet
  <2>2. Cardinality(Under(S, k)) >= j
    BY <1>2
  <2> QED
    BY <2>1, <2>2
<1>4. k - 1 \in Nat /\ k - 1 \notin Enough /\ (k - 1) + 1 = k
  BY <1>2, <1>3
<1>5. /\ Cardinality(Under(S, k - 1)) \in Nat
      /\ Cardinality(Under(S, k)) =
            Cardinality(Under(S, k - 1)) + (IF k - 1 \in S THEN 1 ELSE 0)
  <2>1. /\ Cardinality(Under(S, k - 1)) \in Nat
        /\ Cardinality(Under(S, (k - 1) + 1)) =
              Cardinality(Under(S, k - 1)) + (IF k - 1 \in S THEN 1 ELSE 0)
    BY <1>4, UnderGrows
  <2> QED
    BY <1>4, <2>1
<1>6. Cardinality(Under(S, k - 1)) < j /\ Cardinality(Under(S, k)) >= j
  BY <1>2, <1>4, <1>5
<1>7. k - 1 \in S /\ Cardinality(Under(S, k - 1)) = j - 1
  BY <1>0, <1>5, <1>6
<1> QED
  BY <1>7

LEMMA AscendingIn ==
    ASSUME NEW S \in SUBSET Nat, IsFiniteSet(S)
    PROVE  /\ Cardinality(S) \in Nat
           /\ \A j \in 1..Cardinality(S) : Ascending(S)[j] \in S
           /\ \A i, j \in 1..Cardinality(S) : Ascending(S)[i] = Ascending(S)[j] => i = j
           /\ \A j \in 1..Cardinality(S) : Cardinality(Under(S, Ascending(S)[j])) = j - 1
<1>1. Cardinality(S) \in Nat
  BY FS_CardinalityType
<1> DEFINE a == Ascending(S)
<1>2. ASSUME NEW j \in 1..Cardinality(S)
      PROVE  a[j] \in S /\ Cardinality(Under(S, a[j])) = j - 1
  <2>1. a[j] = CHOOSE n \in S : Cardinality(Under(S, n)) = j - 1
    BY DEF Ascending, Under
  <2>2. \E n \in S : Cardinality(Under(S, n)) = j - 1
    BY HasPlace
  <2> HIDE DEF a
  <2> QED
    BY <2>1, <2>2
<1> HIDE DEF a
<1>3. ASSUME NEW i \in 1..Cardinality(S), NEW j \in 1..Cardinality(S), a[i] = a[j]
      PROVE  i = j
  <2>1. i - 1 = j - 1
    BY <1>2, <1>3
  <2> QED
    BY <1>1, <2>1
<1> QED
  BY <1>1, <1>2, <1>3 DEF a

\* They grow, and every number of S has its place.
LEMMA AscendingGrows ==
    ASSUME NEW S \in SUBSET Nat, IsFiniteSet(S)
    PROVE  /\ \A i, j \in 1..Cardinality(S) : i < j => Ascending(S)[i] < Ascending(S)[j]
           /\ \A n \in S : \E j \in 1..Cardinality(S) : Ascending(S)[j] = n
<1> DEFINE a == Ascending(S)
           c == Cardinality(S)
<1>1. /\ c \in Nat /\ \A j \in 1..c : a[j] \in S
      /\ \A i, j \in 1..c : a[i] = a[j] => i = j
      /\ \A j \in 1..c : Cardinality(Under(S, a[j])) = j - 1
  BY AscendingIn
<1> HIDE DEF a
<1> DEFINE b == [j \in 1..c |-> a[j]]
<1>2. b \in [1..c -> S]
  BY <1>1
<1>3. \A n \in S : n \in Nat
  OBVIOUS
<1>4. ASSUME NEW i \in 1..c, NEW j \in 1..c, i < j, ~(a[i] < a[j])
      PROVE  FALSE
  <2>1. a[i] \in Nat /\ a[j] \in Nat
    BY <1>1, <1>3
  <2>2. a[j] <= a[i]
    BY <1>4, <2>1
  <2>3. Under(S, a[j]) \subseteq Under(S, a[i])
    <3>1. ASSUME NEW m \in S, m < a[j]
          PROVE  m < a[i]
      BY <1>3, <2>1, <2>2, <3>1
    <3> QED
      BY <3>1 DEF Under
  <2>4. IsFiniteSet(Under(S, a[i]))
    BY FS_Subset DEF Under
  <2>5. Cardinality(Under(S, a[j])) <= Cardinality(Under(S, a[i]))
    BY <2>3, <2>4, FS_Subset
  <2>6. j - 1 <= i - 1
    BY <1>1, <2>5
  <2> HIDE DEF c
  <2> QED
    BY <1>1, <1>4, <2>6
<1>5. b \in Injection(1..c, S)
  BY <1>1, <1>2 DEF Injection, IsInjective
<1>6. IsFiniteSet(1..c) /\ Cardinality(1..c) = c
  <2> HIDE DEF c
  <2> QED
    BY <1>1, FS_Interval
<1>7. b \in Surjection(1..c, S)
  BY <1>5, <1>6, FS_Injection
<1>8. \A n \in S : \E j \in 1..c : a[j] = n
  BY <1>7 DEF Surjection
<1> QED
  BY <1>4, <1>8 DEF a, c

-----------------------------------------------------------------------------
(* Sequences without repetition.                                            *)

Distinct(s) == \A a, b \in DOMAIN s : s[a] = s[b] => a = b

\* The elements of s at some places.
LEMMA PickedIn ==
    ASSUME NEW S, NEW s, NEW P \in SUBSET Nat, IsFiniteSet(P), \A p \in P : s[p] \in S
    PROVE  /\ Picked(s, P) \in Seq(S) /\ Len(Picked(s, P)) = Cardinality(P)
           /\ Cardinality(P) \in Nat
           /\ (\A p, q \in P : s[p] = s[q] => p = q) => Distinct(Picked(s, P))
<1> DEFINE r == Picked(s, P)
           n == Cardinality(P)
           a == Ascending(P)
<1>1. /\ n \in Nat /\ \A j \in 1..n : a[j] \in P
      /\ \A i, j \in 1..n : a[i] = a[j] => i = j
  BY AscendingIn
<1>2. r = [j \in 1..n |-> s[a[j]]]
  BY DEF Picked
<1> HIDE DEF a, n, r
<1>3. r \in [1..n -> S]
  BY <1>1, <1>2
<1>4. r \in Seq(S) /\ Len(r) = n /\ DOMAIN r = 1..n
  BY <1>1, <1>3
<1>5. ASSUME \A p, q \in P : s[p] = s[q] => p = q
      PROVE  Distinct(r)
  <2> SUFFICES ASSUME NEW i \in 1..n, NEW j \in 1..n, r[i] = r[j]
               PROVE  i = j
    BY <1>4 DEF Distinct
  <2>1. s[a[i]] = s[a[j]]
    BY <1>2
  <2> QED
    BY <1>1, <1>5, <2>1
<1> QED
  BY <1>1, <1>4, <1>5 DEF r, n

\* The beginning of a sequence.
LEMMA TakeIs ==
    ASSUME NEW S, NEW s \in Seq(S), NEW n \in Nat
    PROVE  /\ Take(s, n) \in Seq(S)
           /\ Len(Take(s, n)) = IF n < Len(s) THEN n ELSE Len(s)
           /\ Len(Take(s, n)) <= Len(s) /\ Len(Take(s, n)) \in Nat /\ Len(s) \in Nat
           /\ \A i \in 1..Len(Take(s, n)) : Take(s, n)[i] = s[i]
           /\ Distinct(s) => Distinct(Take(s, n))
<1> DEFINE m == IF n < Len(s) THEN n ELSE Len(s)
           t == Take(s, n)
<1>1. Len(s) \in Nat /\ m \in Nat /\ m <= Len(s) /\ DOMAIN s = 1..Len(s)
  OBVIOUS
<1>2. t = SubSeq(s, 1, m)
  BY DEF Take
<1> HIDE DEF m, t
<1>3. t \in Seq(S) /\ Len(t) = m /\ \A i \in 1..m : t[i] = s[i]
  BY <1>1, <1>2, SubSeqProperties
<1>4. DOMAIN t = 1..m
  BY <1>3
<1>5. Distinct(s) => Distinct(t)
  BY <1>1, <1>3, <1>4 DEF Distinct
<1> QED
  BY <1>1, <1>3, <1>5 DEF m, t

\* The numbers up to n.
LEMMA UpTo ==
    ASSUME NEW n \in Nat
    PROVE  IsFiniteSet(1..n) /\ Cardinality(1..n) = n
  BY FS_Interval

\* A set put in some order.
LEMMA SeqOfSetIs ==
    ASSUME NEW S, IsFiniteSet(S)
    PROVE  LET s == SetToSeq(S)
           IN  s \in Seq(S) /\ Distinct(s) /\ ToSet(s) = S /\ Len(s) = Cardinality(S)
<1> DEFINE s == SetToSeq(S)
           n == Cardinality(S)
<1>1. n \in Nat
  BY FS_CardinalityType
<1>2. PICK f \in Bijection(1..n, S) : TRUE
  BY FS_CardinalityType DEF ExistsBijection
<1>3. f \in [1..n -> S] /\ IsInjective(f)
  BY <1>2 DEF Bijection, Injection
<1>4. s \in [1..n -> S] /\ IsInjective(s)
  BY <1>3 DEF SetToSeq
<1>5. s \in Injection(1..n, S)
  BY <1>4 DEF Injection
<1>6. Cardinality(1..n) = n /\ IsFiniteSet(1..n)
  BY <1>1, FS_Interval
<1> HIDE DEF s
<1>7. s \in Surjection(1..n, S)
  BY <1>5, <1>6, FS_Injection
<1>8. \A x \in S : \E i \in 1..n : s[i] = x
  BY <1>7 DEF Surjection
<1> HIDE DEF n
<1>9. s \in Seq(S) /\ Len(s) = n /\ DOMAIN s = 1..n
  BY <1>1, <1>4
<1> QED
  BY <1>4, <1>8, <1>9 DEF Distinct, IsInjective, ToSet, s, n

\* The orders a set can be put in.
LEMMA OrdersAre ==
    ASSUME NEW S, IsFiniteSet(S), NEW s \in SetToSeqs(S)
    PROVE  s \in Seq(S) /\ Distinct(s) /\ ToSet(s) = S /\ Len(s) = Cardinality(S)
<1> DEFINE n == Cardinality(S)
<1>1. n \in Nat
  BY FS_CardinalityType
<1>4. s \in [1..n -> S] /\ \A i, j \in 1..n : i # j => s[i] # s[j]
  BY DEF SetToSeqs
<1>5. s \in Injection(1..n, S)
  BY <1>4 DEF Injection, IsInjective
<1>6. Cardinality(1..n) = n /\ IsFiniteSet(1..n)
  BY <1>1, FS_Interval
<1>7. s \in Surjection(1..n, S)
  BY <1>5, <1>6, FS_Injection
<1>8. \A x \in S : \E i \in 1..n : s[i] = x
  BY <1>7 DEF Surjection
<1> HIDE DEF n
<1>9. s \in Seq(S) /\ Len(s) = n /\ DOMAIN s = 1..n
  BY <1>1, <1>4
<1> QED
  BY <1>4, <1>8, <1>9 DEF Distinct, ToSet, n

\* One sequence after another.
LEMMA JoinIs ==
    ASSUME NEW S, NEW s \in Seq(S), NEW t \in Seq(S)
    PROVE  /\ s \o t \in Seq(S) /\ Len(s \o t) = Len(s) + Len(t)
           /\ Len(s) \in Nat /\ Len(t) \in Nat
           /\ ToSet(s \o t) = ToSet(s) \cup ToSet(t)
           /\ Distinct(s) /\ Distinct(t) /\ ToSet(s) \cap ToSet(t) = {} => Distinct(s \o t)
<1> DEFINE r == s \o t
           m == Len(s)
           n == Len(t)
<1>1. /\ r \in Seq(S) /\ Len(r) = m + n /\ m \in Nat /\ n \in Nat
      /\ \A i \in 1..m : r[i] = s[i]
      /\ \A i \in 1..n : r[m + i] = t[i]
  BY ONLY Concatenated, s \in Seq(S), t \in Seq(S)
<1>2. DOMAIN r = 1..(m + n) /\ DOMAIN s = 1..m /\ DOMAIN t = 1..n
  BY <1>1
<1> HIDE DEF r, m, n
<1>3. \A i \in 1..m : i \in 1..(m + n)
  BY <1>1
<1>4. \A i \in 1..n : m + i \in 1..(m + n)
  BY <1>1
<1>5. ASSUME NEW i \in 1..(m + n), i \notin 1..m
      PROVE  i - m \in 1..n /\ m + (i - m) = i
  BY <1>1, <1>5
<1>6. ToSet(r) = ToSet(s) \cup ToSet(t)
  <2>1. ASSUME NEW x \in ToSet(r) PROVE x \in ToSet(s) \cup ToSet(t)
    <3>1. PICK i \in 1..(m + n) : x = r[i]
      BY <1>2 DEF ToSet
    <3>2. CASE i \in 1..m
      BY <1>1, <1>2, <3>1, <3>2 DEF ToSet
    <3>3. CASE i \notin 1..m
      <4>1. i - m \in 1..n /\ r[i] = t[i - m]
        BY <1>1, <1>5, <3>3
      <4> QED
        BY <1>2, <3>1, <4>1 DEF ToSet
    <3> QED
      BY <3>2, <3>3
  <2>2. ASSUME NEW x \in ToSet(s) PROVE x \in ToSet(r)
    <3>1. PICK i \in 1..m : x = s[i]
      BY <1>2 DEF ToSet
    <3> QED
      BY <1>1, <1>2, <1>3, <3>1 DEF ToSet
  <2>3. ASSUME NEW x \in ToSet(t) PROVE x \in ToSet(r)
    <3>1. PICK i \in 1..n : x = t[i]
      BY <1>2 DEF ToSet
    <3> QED
      BY <1>1, <1>2, <1>4, <3>1 DEF ToSet
  <2> QED
    BY <2>1, <2>2, <2>3
<1>7. ASSUME Distinct(s), Distinct(t), ToSet(s) \cap ToSet(t) = {}
      PROVE  Distinct(r)
  <2> SUFFICES ASSUME NEW i \in 1..(m + n), NEW j \in 1..(m + n), r[i] = r[j]
               PROVE  i = j
    BY <1>2 DEF Distinct
  <2>0. \A k \in 1..m : s[k] \in ToSet(s)
    BY <1>2 DEF ToSet
  <2>1. \A k \in 1..n : t[k] \in ToSet(t)
    BY <1>2 DEF ToSet
  <2>6. ASSUME NEW k \in 1..m, NEW l \in 1..(m + n), l \notin 1..m
        PROVE  r[k] # r[l]
    <3>1. r[k] = s[k] /\ s[k] \in ToSet(s)
      BY <1>1, <2>0
    <3>2. l - m \in 1..n /\ m + (l - m) = l
      BY <1>5, <2>6
    <3>3. r[m + (l - m)] = t[l - m] /\ t[l - m] \in ToSet(t)
      BY <1>1, <2>1, <3>2
    <3>4. r[l] \in ToSet(t)
      BY ONLY <3>2, <3>3
    <3> QED
      BY <1>7, <3>1, <3>4
  <2>2. CASE i \in 1..m /\ j \in 1..m
    <3>1. s[i] = s[j]
      BY <1>1, <2>2
    <3> QED
      BY <1>2, <1>7, <2>2, <3>1 DEF Distinct
  <2>3. CASE i \in 1..m /\ j \notin 1..m
    BY <2>3, <2>6
  <2>4. CASE i \notin 1..m /\ j \in 1..m
    BY <2>4, <2>6
  <2>5. CASE i \notin 1..m /\ j \notin 1..m
    <3>1. /\ i - m \in 1..n /\ m + (i - m) = i
          /\ j - m \in 1..n /\ m + (j - m) = j
      BY <1>5, <2>5
    <3>2. t[i - m] = t[j - m]
      BY <1>1, <3>1
    <3>3. i - m = j - m
      BY <1>2, <1>7, <3>1, <3>2 DEF Distinct
    <3> QED
      BY ONLY <3>1, <3>3
  <2> QED
    BY <2>2, <2>3, <2>4, <2>5
<1> QED
  BY <1>1, <1>6, <1>7 DEF r, m, n

\* The function by which the library flattens the first n of ss.
Flattening(h, ss, n) ==
    h = [i \in 1..n |-> IF i = 1 THEN ss[i] ELSE h[i - 1] \o ss[i]]

LEMMA FlatteningExists ==
    ASSUME NEW ss, NEW n \in Nat
    PROVE  \E h : Flattening(h, ss, n)
<1> DEFINE Bad == {j \in Nat : ~ \E h : Flattening(h, ss, j)}
<1> SUFFICES ASSUME Bad # {}
             PROVE  FALSE
  OBVIOUS
<1>1. PICK m \in Bad : \A j \in Bad : m <= j
  BY Least
<1>2. m # 0
  <2> DEFINE h == [i \in 1..0 |-> ss[i]]
  <2>1. Flattening(h, ss, 0)
    BY DEF Flattening
  <2> QED
    BY <2>1
<1>3. m \in Nat /\ m - 1 \in Nat /\ ~(m <= m - 1)
  BY <1>2
<1>4. PICK g : Flattening(g, ss, m - 1)
  BY <1>1, <1>3
<1> DEFINE F(f, i) == IF i = 1 THEN ss[i] ELSE f[i - 1] \o ss[i]
           h == [i \in 1..m |-> IF i = m THEN F(g, m) ELSE g[i]]
<1>5. \A i \in 1..(m - 1) : g[i] = F(g, i)
  BY <1>4 DEF Flattening
<1>6. ASSUME NEW i \in 1..m
      PROVE  h[i] = F(h, i)
  <2>1. \A j \in 1..(m - 1) : h[j] = g[j]
    BY <1>3
  <2>2. i # 1 => i - 1 \in 1..(m - 1)
    BY <1>3
  <2>3. i # m => i \in 1..(m - 1)
    BY <1>3
  <2>4. h[m] = F(g, m)
    BY <1>3, <1>2
  <2> HIDE DEF h
  <2>5. F(h, i) = F(g, i)
    BY <2>1, <2>2
  <2> HIDE DEF F
  <2> QED
    BY <1>5, <2>1, <2>3, <2>4, <2>5
<1>7. Flattening(h, ss, m)
  <2>1. h = [i \in 1..m |-> h[i]]
    OBVIOUS
  <2> DEFINE f == [i \in 1..m |-> F(h, i)]
  <2> HIDE DEF h
  <2>2. h = f
    BY <1>6, <2>1
  <2> QED
    BY <2>2 DEF Flattening
<1> QED
  BY <1>7

\* What flattening gives for pieces that share nothing and repeat nothing.
LEMMA FlattenIs ==
    ASSUME NEW S, NEW ss \in Seq(Seq(S))
    PROVE  LET s == FlattenSeq(ss)
           IN  /\ s \in Seq(S)
               /\ ToSet(s) = UNION {ToSet(ss[i]) : i \in 1..Len(ss)}
               /\ (/\ \A i \in 1..Len(ss) : Distinct(ss[i])
                   /\ \A i, j \in 1..Len(ss) : i # j => ToSet(ss[i]) \cap ToSet(ss[j]) = {})
                  => Distinct(s)
<1> DEFINE n == Len(ss)
           Sofar(i) == UNION {ToSet(ss[k]) : k \in 1..i}
           Separate == /\ \A i \in 1..n : Distinct(ss[i])
                    /\ \A i, j \in 1..n : i # j => ToSet(ss[i]) \cap ToSet(ss[j]) = {}
           Good(s, i) == s \in Seq(S) /\ ToSet(s) = Sofar(i) /\ (Separate => Distinct(s))
<1>1. n \in Nat /\ \A i \in 1..n : ss[i] \in Seq(S)
  OBVIOUS
<1>2. CASE n = 0
  <2>1. ss = <<>> /\ FlattenSeq(ss) = ss
    BY <1>2 DEF FlattenSeq
  <2>2. 1..n = {} /\ DOMAIN <<>> = {}
    BY <1>2
  <2>3. {ToSet(ss[i]) : i \in 1..n} = {}
    BY <2>2
  <2>4. UNION {ToSet(ss[i]) : i \in 1..n} = {}
    BY <2>3
  <2>5. <<>> \in Seq(S) /\ ToSet(<<>>) = {} /\ Distinct(<<>>)
    BY <2>2 DEF ToSet, Distinct
  <2> QED
    BY <2>1, <2>4, <2>5
<1>3. CASE n # 0
  <2> DEFINE h == CHOOSE h : Flattening(h, ss, n)
  <2>1. Flattening(h, ss, n)
    BY <1>1, FlatteningExists
  <2>2. FlattenSeq(ss) = h[n]
    BY <1>3 DEF FlattenSeq, Flattening
  <2> HIDE DEF h
  <2>3. \A i \in 1..n : h[i] = IF i = 1 THEN ss[i] ELSE h[i - 1] \o ss[i]
    BY <2>1 DEF Flattening
  <2> DEFINE Bad == {i \in 1..n : ~Good(h[i], i)}
  <2>4. Bad = {}
    <3> SUFFICES ASSUME Bad # {}
                 PROVE  FALSE
      OBVIOUS
    <3>0. Bad \in SUBSET Nat
      OBVIOUS
    <3>1. PICK i \in Bad : \A j \in Bad : i <= j
      BY <3>0, Least, Zenon
    <3>2. i \in 1..n /\ ~Good(h[i], i)
      BY <3>1
    <3>3. CASE i = 1
      <4>1. h[i] = ss[1] /\ 1 \in 1..n
        BY <2>3, <3>2, <3>3
      <4>2. Sofar(i) = ToSet(ss[1])
        <5>1. 1..i = {1}
          BY <3>3
        <5> QED
          BY <5>1
      <4> QED
        BY <1>1, <3>2, <4>1, <4>2
    <3>4. CASE i # 1
      <4>0. i - 1 \in 1..n /\ ~(i <= i - 1)
        BY <1>1, <3>2, <3>4
      <4>1. i - 1 \in 1..n /\ ~(i <= i - 1) /\ h[i] = h[i - 1] \o ss[i]
        <5>1. h[i] = IF i = 1 THEN ss[i] ELSE h[i - 1] \o ss[i]
          BY <2>3, <3>2
        <5> QED
          BY <3>4, <4>0, <5>1
      <4>2. Good(h[i - 1], i - 1)
        <5>1. i - 1 \notin Bad
          <6> HIDE DEF Bad
          <6> QED
            BY <3>1, <4>1
        <5> HIDE DEF Good
        <5> QED
          BY <4>1, <5>1
      <4>3. h[i - 1] \in Seq(S) /\ ss[i] \in Seq(S)
        BY <1>1, <3>2, <4>2
      <4>4. Sofar(i) = Sofar(i - 1) \cup ToSet(ss[i])
        <5>1. 1..i = 1..(i - 1) \cup {i}
          BY <3>2, <4>1
        <5> QED
          BY <5>1
      <4>5. /\ h[i - 1] \o ss[i] \in Seq(S)
            /\ ToSet(h[i - 1] \o ss[i]) = ToSet(h[i - 1]) \cup ToSet(ss[i])
            /\ Distinct(h[i - 1]) /\ Distinct(ss[i]) /\ ToSet(h[i - 1]) \cap ToSet(ss[i]) = {}
                  => Distinct(h[i - 1] \o ss[i])
        BY ONLY <4>3, JoinIs
      <4>6. Separate => Sofar(i - 1) \cap ToSet(ss[i]) = {}
        <5>1. \A k \in 1..(i - 1) : k \in 1..n /\ k # i
          BY <1>1, <3>2
        <5> QED
          BY <3>2, <5>1
      <4>7. Separate => Distinct(ss[i])
        BY <3>2
      <4> HIDE DEF Sofar, Separate
      <4>8. Good(h[i], i)
        BY <4>1, <4>2, <4>4, <4>5, <4>6, <4>7
      <4> QED
        BY <3>2, <4>8
    <3> QED
      BY <3>3, <3>4
  <2>5. n \in 1..n
    BY <1>1, <1>3
  <2>6. Good(h[n], n)
    <3> HIDE DEF Good
    <3> QED
      BY <2>4, <2>5
  <2> QED
    BY <2>2, <2>6
<1> QED
  BY <1>2, <1>3

\* A sequence without repetition is as long as it has elements.
LEMMA DistinctCount ==
    ASSUME NEW S, NEW s \in Seq(S), Distinct(s)
    PROVE  IsFiniteSet(ToSet(s)) /\ Cardinality(ToSet(s)) = Len(s) /\ Len(s) \in Nat
<1> DEFINE n == Len(s)
<1>1. n \in Nat /\ DOMAIN s = 1..n
  OBVIOUS
<1>2. s \in [1..n -> ToSet(s)] /\ (\A x \in ToSet(s) : \E i \in 1..n : s[i] = x)
  BY <1>1 DEF ToSet
<1>3. \A i, j \in 1..n : s[i] = s[j] => i = j
  BY <1>1 DEF Distinct
<1> HIDE DEF n
<1>4. s \in Bijection(1..n, ToSet(s))
  BY <1>2, <1>3 DEF Bijection, Injection, Surjection, IsInjective
<1>5. ExistsBijection(1..n, ToSet(s))
  BY <1>4 DEF ExistsBijection
<1>6. IsFiniteSet(1..n) /\ Cardinality(1..n) = n
  BY <1>1, FS_Interval
<1>7. IsFiniteSet(ToSet(s)) /\ Cardinality(ToSet(s)) = n
  BY <1>5, <1>6, FS_Bijection, <1>4
<1> QED
  BY <1>1, <1>7 DEF n

\* Some element, some length.
LEMMA Inhabited ==
    ASSUME NEW S, NEW s \in Seq(S)
    PROVE  /\ Len(s) \in Nat /\ DOMAIN s = 1..Len(s) /\ ToSet(s) \subseteq S
           /\ s \in Seq(ToSet(s))
           /\ s # <<>> <=> Len(s) >= 1
           /\ s # <<>> <=> ToSet(s) # {}
           /\ \A i \in 1..Len(s) : s[i] \in ToSet(s)
           /\ \A x \in ToSet(s) : \E i \in 1..Len(s) : s[i] = x
<1>1. /\ Len(s) \in Nat /\ DOMAIN s = 1..Len(s) /\ (s # <<>> <=> Len(s) >= 1)
      /\ \A i \in 1..Len(s) : s[i] \in S
  OBVIOUS
<1>2. /\ \A i \in 1..Len(s) : s[i] \in ToSet(s)
      /\ \A x \in ToSet(s) : \E i \in 1..Len(s) : s[i] = x
  BY <1>1 DEF ToSet
<1>3. s \in [1..Len(s) -> ToSet(s)]
  BY <1>1, <1>2
<1>4. s \in Seq(ToSet(s))
  BY <1>1, <1>3
<1>5. s # <<>> => ToSet(s) # {}
  <2>1. Len(s) >= 1 => 1 \in 1..Len(s)
    BY <1>1
  <2> QED
    BY <1>1, <1>2, <2>1
<1>6. ToSet(s) # {} => s # <<>>
  <2>1. Len(s) = 0 => 1..Len(s) = {}
    OBVIOUS
  <2>2. s = <<>> => Len(s) = 0
    OBVIOUS
  <2> QED
    BY <1>2, <2>1, <2>2
<1> QED
  BY <1>1, <1>2, <1>4, <1>5, <1>6

\* Sets that share nothing, ...
Parted(B, m, S) ==
    /\ \A r \in 1..m : B[r] \subseteq S
    /\ \A q, r \in 1..m : q # r => B[q] \cap B[r] = {}

\* ... each in some order, one after another.
Blocks(B, m) == FlattenSeq([r \in 1..m |-> SetToSeq(B[r])])

LEMMA BlocksAre ==
    ASSUME NEW S, IsFiniteSet(S), NEW m \in Nat, NEW B, Parted(B, m, S)
    PROVE  /\ Blocks(B, m) \in Seq(S) /\ Distinct(Blocks(B, m))
           /\ ToSet(Blocks(B, m)) = UNION {B[r] : r \in 1..m}
<1>0. /\ \A r \in 1..m : B[r] \subseteq S
      /\ \A q, r \in 1..m : q # r => B[q] \cap B[r] = {}
  BY DEF Parted
<1> DEFINE ss == [r \in 1..m |-> SetToSeq(B[r])]
<1>1. ASSUME NEW r \in 1..m
      PROVE  /\ ss[r] \in Seq(B[r]) /\ Distinct(ss[r]) /\ ToSet(ss[r]) = B[r]
             /\ ss[r] \in Seq(S)
  <2>1. B[r] \subseteq S
    BY <1>0
  <2>2. IsFiniteSet(B[r])
    BY <2>1, FS_Subset
  <2>3. ss[r] = SetToSeq(B[r])
    OBVIOUS
  <2>4. ss[r] \in Seq(B[r]) /\ Distinct(ss[r]) /\ ToSet(ss[r]) = B[r]
    BY <2>2, <2>3, SeqOfSetIs
  <2> HIDE DEF ss
  <2> QED
    BY <2>1, <2>4
<1>2. DOMAIN ss = 1..m /\ ss = [r \in 1..m |-> ss[r]]
  OBVIOUS
<1> HIDE DEF ss
<1>3. ss \in [1..m -> Seq(S)]
  BY <1>1, <1>2
<1>4. ss \in Seq(Seq(S)) /\ Len(ss) = m
  BY <1>3
<1>5. \A q, r \in 1..m : q # r => ToSet(ss[q]) \cap ToSet(ss[r]) = {}
  BY <1>0, <1>1
<1>6. UNION {ToSet(ss[r]) : r \in 1..m} = UNION {B[r] : r \in 1..m}
  BY <1>1
<1> DEFINE s == FlattenSeq(ss)
<1>7. /\ s \in Seq(S)
      /\ ToSet(s) = UNION {ToSet(ss[i]) : i \in 1..Len(ss)}
      /\ (/\ \A i \in 1..Len(ss) : Distinct(ss[i])
          /\ \A i, j \in 1..Len(ss) : i # j => ToSet(ss[i]) \cap ToSet(ss[j]) = {})
            => Distinct(s)
  BY ONLY <1>4, FlattenIs
<1> HIDE DEF s
<1>8. s \in Seq(S) /\ Distinct(s) /\ ToSet(s) = UNION {B[r] : r \in 1..m}
  BY <1>1, <1>4, <1>5, <1>6, <1>7
<1> QED
  BY <1>8 DEF s, ss, Blocks

-----------------------------------------------------------------------------
(* The two rankings.                                                        *)

\* What the state and a call are made of.
TypedTable == table \in Seq(RowType(Keys, Tags)) /\ clock \in Nat

Ranked(rank) ==
    /\ rank.words \in Seq(Nat) /\ Distinct(rank.words)
    /\ rank.near \in Seq(Nat) /\ Distinct(rank.near)

LEMMA IdsAre ==
    ASSUME TypedTable
    PROVE  /\ Ids = 1..Len(table) /\ Len(table) \in Nat /\ IsFiniteSet(Ids)
           /\ Cardinality(Ids) = Len(table)
           /\ \A i \in Ids : table[i] \in RowType(Keys, Tags)
<1>1. table \in Seq(RowType(Keys, Tags))
  BY DEF TypedTable
<1> DEFINE T == RowType(Keys, Tags)
<1>2. Ids = 1..Len(table) /\ Len(table) \in Nat /\ \A i \in Ids : table[i] \in T
  <2>1. table \in Seq(T)
    BY <1>1
  <2> HIDE DEF T
  <2>2. DOMAIN table = 1..Len(table) /\ Len(table) \in Nat
    BY <2>1
  <2>3. ASSUME NEW i \in 1..Len(table) PROVE table[i] \in T
    BY <2>1
  <2> QED
    BY <2>2, <2>3 DEF Ids
<1>3. IsFiniteSet(1..Len(table)) /\ Cardinality(1..Len(table)) = Len(table)
  <2>1. Len(table) \in Nat
    BY <1>2
  <2> DEFINE n == Len(table)
  <2> HIDE DEF n
  <2>2. IsFiniteSet(1..n) /\ Cardinality(1..n) = n
    BY <2>1, UpTo DEF n
  <2> QED
    BY <2>2 DEF n
<1> QED
  BY <1>2, <1>3

LEMMA SelectedAre ==
    ASSUME TypedTable, NEW ask
    PROVE  SelectedNow(ask) \subseteq Ids /\ IsFiniteSet(SelectedNow(ask))
<1>1. SelectedNow(ask) \subseteq Ids
  BY DEF SelectedNow, SelectedIds, Ids
<1> QED
  BY <1>1, IdsAre, FS_Subset

\* All the rows that match, best first.
Hits(rank, ask, l) ==
    {i \in SelectedNow(ask) : table[i].line = l /\ ask.tags \subseteq table[i].tags}

WordHits(rank, ask) ==
    FlattenSeq([r \in DOMAIN rank.words |-> SetToSeq(Hits(rank, ask, rank.words[r]))])

LEMMA FullTextIs ==
    ASSUME TypedTable, NEW rank, Ranked(rank), NEW ask, NEW n \in Nat
    PROVE  /\ WordHits(rank, ask) \in Seq(SelectedNow(ask)) /\ Distinct(WordHits(rank, ask))
           /\ FullText(rank, ask, n) = Take(WordHits(rank, ask), n)
<1>1. FullText(rank, ask, n) = Take(WordHits(rank, ask), n)
  BY DEF FullText, RankedRows, WordHits, Hits
<1> DEFINE m == Len(rank.words)
           B == [r \in 1..m |-> Hits(rank, ask, rank.words[r])]
<1>2. m \in Nat /\ DOMAIN rank.words = 1..m
  BY DEF Ranked
<1>3. \A r \in 1..m : B[r] \subseteq SelectedNow(ask)
  BY DEF Hits
<1>4. \A q, r \in 1..m : q # r => rank.words[q] # rank.words[r]
  BY <1>2 DEF Ranked, Distinct
<1>5. \A q, r \in 1..m : q # r => B[q] \cap B[r] = {}
  BY <1>4 DEF Hits
<1>6. WordHits(rank, ask) = Blocks(B, m)
  <2>1. [r \in 1..m |-> SetToSeq(B[r])] =
           [r \in DOMAIN rank.words |-> SetToSeq(Hits(rank, ask, rank.words[r]))]
    BY <1>2
  <2> QED
    BY <2>1 DEF WordHits, Blocks
<1> HIDE DEF B, m
<1>7. IsFiniteSet(SelectedNow(ask))
  BY SelectedAre
<1>8. WordHits(rank, ask) \in Seq(SelectedNow(ask)) /\ Distinct(WordHits(rank, ask))
  <2>1. Parted(B, m, SelectedNow(ask))
    BY <1>3, <1>5 DEF Parted
  <2> QED
    BY <1>2, <1>6, <1>7, <2>1, BlocksAre
<1> QED
  BY <1>1, <1>8

\* All the rows with a vector, nearest first.
NearHits(rank, vectors) ==
    FlattenSeq([r \in DOMAIN rank.near |->
        SetToSeq({i \in DOMAIN vectors : vectors[i] = rank.near[r]})])

LEMMA NearestIs ==
    ASSUME NEW rank, Ranked(rank), NEW vectors, IsFiniteSet(DOMAIN vectors), NEW n \in Nat
    PROVE  /\ NearHits(rank, vectors) \in Seq(DOMAIN vectors) /\ Distinct(NearHits(rank, vectors))
           /\ ToSet(NearHits(rank, vectors)) =
                 {i \in DOMAIN vectors : vectors[i] \in ToSet(rank.near)}
           /\ Nearest(rank, vectors, n) = Take(NearHits(rank, vectors), n)
<1>1. Nearest(rank, vectors, n) = Take(NearHits(rank, vectors), n)
  BY DEF Nearest, RankedRows, NearHits
<1> DEFINE m == Len(rank.near)
           B == [r \in 1..m |-> {i \in DOMAIN vectors : vectors[i] = rank.near[r]}]
<1>2. m \in Nat /\ DOMAIN rank.near = 1..m
  BY DEF Ranked
<1>3. \A r \in 1..m : B[r] \subseteq DOMAIN vectors
  OBVIOUS
<1>4. \A q, r \in 1..m : q # r => rank.near[q] # rank.near[r]
  BY <1>2 DEF Ranked, Distinct
<1>5. \A q, r \in 1..m : q # r => B[q] \cap B[r] = {}
  BY <1>4
<1>6. NearHits(rank, vectors) = Blocks(B, m)
  <2>1. [r \in 1..m |-> SetToSeq(B[r])] =
           [r \in DOMAIN rank.near |-> SetToSeq({i \in DOMAIN vectors : vectors[i] = rank.near[r]})]
    BY <1>2
  <2> QED
    BY <2>1 DEF NearHits, Blocks
<1>7. UNION {B[r] : r \in 1..m} = {i \in DOMAIN vectors : vectors[i] \in ToSet(rank.near)}
  <2>1. ToSet(rank.near) = {rank.near[r] : r \in 1..m}
    BY <1>2 DEF ToSet
  <2>2. \A r \in 1..m : B[r] = {i \in DOMAIN vectors : vectors[i] = rank.near[r]}
    OBVIOUS
  <2> HIDE DEF B, m
  <2> QED
    BY <2>1, <2>2
<1> HIDE DEF B, m
<1>8. /\ NearHits(rank, vectors) \in Seq(DOMAIN vectors) /\ Distinct(NearHits(rank, vectors))
      /\ ToSet(NearHits(rank, vectors)) = UNION {B[r] : r \in 1..m}
  <2>1. Parted(B, m, DOMAIN vectors)
    BY <1>3, <1>5 DEF Parted
  <2> QED
    BY <1>2, <1>6, <2>1, BlocksAre
<1> QED
  BY <1>1, <1>7, <1>8

-----------------------------------------------------------------------------
(* What the reranker, the merge and the neighbours do with a sequence.      *)

LEMMA RerankIs ==
    ASSUME NEW S, NEW s \in Seq(S), NEW n \in Nat \ {0}, NEW out \in RerankOrNot(s, n)
    PROVE  /\ out \in Seq(S)
           /\ s # <<>> => out # <<>>
           /\ "reranker" \notin setup => out = s
           /\ "reranker" \in setup => Len(out) = IF n < Len(s) THEN n ELSE Len(s)
<1> DEFINE m == Len(s)
<1>0. m \in Nat /\ DOMAIN s = 1..m /\ (s # <<>> <=> m >= 1)
  BY Inhabited
<1>1. CASE "reranker" \notin setup
  BY <1>1 DEF RerankOrNot
<1>2. CASE "reranker" \in setup /\ m <= 1
  <2>1. out = s
    BY <1>2 DEF RerankOrNot, Rerank
  <2>2. m = IF n < m THEN n ELSE m
    <3> HIDE DEF m
    <3> QED
      BY <1>0, <1>2
  <2> QED
    BY <1>2, <2>1, <2>2
<1>3. CASE "reranker" \in setup /\ ~(m <= 1)
  <2>1. PICK p \in SetToSeqs(DOMAIN s) : out = Take([r \in DOMAIN s |-> s[p[r]]], n)
    BY <1>3 DEF RerankOrNot, Rerank
  <2> DEFINE t == [r \in 1..m |-> s[p[r]]]
  <2>2. p \in Seq(1..m) /\ Len(p) = Cardinality(1..m)
    <3>1. IsFiniteSet(1..m)
      BY <1>0, FS_Interval
    <3> QED
      BY <1>0, <2>1, <3>1, OrdersAre
  <2>3. Cardinality(1..m) = m
    <3> HIDE DEF m
    <3> QED
      BY <1>0, FS_Interval
  <2>4. \A r \in 1..m : p[r] \in 1..m
    BY <2>2, <2>3
  <2>5. t \in [1..m -> S]
    BY <1>0, <2>4
  <2>6. out = Take(t, n)
    BY <1>0, <2>1
  <2> HIDE DEF t
  <2>7. t \in Seq(S) /\ Len(t) = m
    BY <1>0, <2>5
  <2>8. out \in Seq(S) /\ Len(out) = IF n < m THEN n ELSE m
    BY <2>6, <2>7, TakeIs
  <2>9. out # <<>> <=> Len(out) >= 1
    BY <2>8, Inhabited
  <2>10. Len(out) >= 1
    <3> HIDE DEF m
    <3> QED
      BY <1>0, <1>3, <2>8
  <2> QED
    BY <1>3, <2>8, <2>9, <2>10
<1> QED
  BY <1>1, <1>2, <1>3

\* The rows of one merge, in the order of their scores.
Order(s, words, near) ==
    /\ s \in Seq(ToSet(words) \cup ToSet(near)) /\ Distinct(s)
    /\ ToSet(s) = ToSet(words) \cup ToSet(near)
    /\ Len(s) = Cardinality(ToSet(words) \cup ToSet(near))
    /\ \A a, b \in 1..Len(s) :
          a < b => Score(words, near, s[a]) >= Score(words, near, s[b])

LEMMA MergeIs ==
    ASSUME NEW words, NEW near, IsFiniteSet(ToSet(words)), IsFiniteSet(ToSet(near)),
           NEW known, NEW n \in Nat, NEW out \in MergeRRF(words, near, known, n)
    PROVE  \E s :
              /\ Order(s, words, near)
              /\ out \in Seq(known)
              /\ \A r \in 1..Len(Take(s, n)) : s[r] \in known => out # <<>>
              /\ ToSet(words) \cup ToSet(near) \subseteq known => Len(out) = Len(Take(s, n))
<1> DEFINE D == ToSet(words) \cup ToSet(near)
           score == [i \in D |-> Score(words, near, i)]
           Sorted(s) == \A a, b \in DOMAIN s : a < b => score[s[a]] >= score[s[b]]
           P(s) == {r \in DOMAIN s : s[r] \in known}
<1>0. IsFiniteSet(D)
  BY FS_Union
<1>1. PICK s \in {t \in SetToSeqs(D) : Sorted(t)} : out = Picked(Take(s, n), P(Take(s, n)))
  <2>1. DOMAIN score = D
    OBVIOUS
  <2>2. MergeRRF(words, near, known, n) =
           {Picked(Take(s, n), P(Take(s, n))) : s \in {t \in SetToSeqs(DOMAIN score) : Sorted(t)}}
    BY DEF MergeRRF
  <2> HIDE DEF D, score, P
  <2> QED
    BY <2>1, <2>2
<1>2. s \in SetToSeqs(D) /\ Sorted(s)
  BY <1>1
<1>3. s \in Seq(D) /\ Distinct(s) /\ ToSet(s) = D /\ Len(s) = Cardinality(D)
  BY ONLY <1>0, <1>2, OrdersAre
<1>4. /\ Len(s) \in Nat /\ DOMAIN s = 1..Len(s) /\ \A i \in 1..Len(s) : s[i] \in D
  <2> HIDE DEF D
  <2>1. s \in Seq(D)
    BY <1>3
  <2> QED
    BY ONLY <2>1
<1>5. Order(s, words, near)
  <2>1. ASSUME NEW a \in 1..Len(s), NEW b \in 1..Len(s), a < b
        PROVE  Score(words, near, s[a]) >= Score(words, near, s[b])
    <3>1. score[s[a]] >= score[s[b]]
      BY <1>2, <1>4, <2>1
    <3>2. score[s[a]] = Score(words, near, s[a]) /\ score[s[b]] = Score(words, near, s[b])
      BY <1>4
    <3> QED
      BY ONLY <3>1, <3>2
  <2> QED
    BY <1>3, <2>1 DEF Order
<1> DEFINE t == Take(s, n)
           Q == P(t)
<1>6. /\ t \in Seq(D) /\ Len(t) \in Nat /\ \A i \in 1..Len(t) : t[i] = s[i]
  BY <1>3, TakeIs
<1>7. DOMAIN t = 1..Len(t)
  BY <1>6
<1>8. Q = {r \in 1..Len(t) : s[r] \in known} /\ \A p \in Q : t[p] \in known
  BY <1>6, <1>7
<1>9. out = Picked(t, Q)
  BY <1>1
<1>10. IsFiniteSet(1..Len(t)) /\ Cardinality(1..Len(t)) = Len(t)
  <2> DEFINE l == Len(t)
  <2>1. l \in Nat
    BY <1>6
  <2> HIDE DEF l
  <2>2. IsFiniteSet(1..l) /\ Cardinality(1..l) = l
    BY <2>1, FS_Interval
  <2> QED
    BY <2>2 DEF l
<1> HIDE DEF t, Q
<1>11. Q \in SUBSET Nat /\ IsFiniteSet(Q)
  <2>1. Q \in SUBSET (1..Len(t))
    BY <1>8
  <2>2. \A i \in 1..Len(t) : i \in Nat
    OBVIOUS
  <2> QED
    BY <1>10, <2>1, <2>2, FS_Subset
<1>12. out \in Seq(known) /\ Len(out) = Cardinality(Q)
  BY ONLY <1>8, <1>9, <1>11, PickedIn
<1>13. ASSUME NEW r \in 1..Len(t), s[r] \in known
       PROVE  out # <<>>
  <2>1. r \in Q
    BY <1>8, <1>13
  <2>2. Cardinality(Q) # 0 /\ Cardinality(Q) \in Nat
    BY <1>11, <2>1, FS_EmptySet, FS_CardinalityType
  <2>3. Len(<<>>) = 0
    OBVIOUS
  <2> QED
    BY <1>12, <2>2, <2>3
<1>14. ASSUME D \subseteq known
       PROVE  Len(out) = Len(t)
  <2>1. \A r \in 1..Len(t) : s[r] \in D
    BY <1>6
  <2>2. Q = 1..Len(t)
    BY <1>8, <1>14, <2>1
  <2> QED
    BY <1>10, <1>12, <2>2
<1> QED
  BY <1>5, <1>12, <1>13, <1>14 DEF t

\* The numbers of some rows.
LEMMA NumbersAre ==
    ASSUME TypedTable, NEW N \in SUBSET Ids, NEW g \in Groups(N)
    PROVE  /\ DOMAIN g \in SUBSET Nat /\ IsFiniteSet(DOMAIN g)
           /\ \A n \in DOMAIN g : g[n] \in N
           /\ ToSet(g) \subseteq N /\ IsFiniteSet(ToSet(g))
<1> DEFINE f == [i \in N |-> table[i].key.idx]
           numbers == {table[i].key.idx : i \in N}
<1>1. g \in [numbers -> N]
  BY DEF Groups
<1>2. IsFiniteSet(N)
  BY IdsAre, FS_Subset
<1>3. numbers = {f[i] : i \in N} /\ DOMAIN f = N
  OBVIOUS
<1>4. numbers \in SUBSET Nat
  <2> SUFFICES ASSUME NEW i \in N PROVE table[i].key.idx \in Nat
    OBVIOUS
  <2>1. table[i] \in RowType(Keys, Tags)
    BY IdsAre
  <2>2. table[i].key \in Keys
    BY <2>1 DEF RowType
  <2> QED
    BY <2>2, SearchAssumption
<1> HIDE DEF f, numbers
<1>5. IsFiniteSet(numbers)
  BY <1>2, <1>3, FiniteImage
<1>6. DOMAIN g = numbers /\ \A n \in numbers : g[n] \in N
  BY <1>1
<1>7. ToSet(g) \subseteq N
  BY <1>6 DEF ToSet
<1>8. IsFiniteSet(ToSet(g))
  BY <1>2, <1>7, FS_Subset
<1> QED
  BY <1>4, <1>5, <1>6, <1>7, <1>8

LEMMA AroundIs ==
    ASSUME TypedTable, NEW S, NEW g, DOMAIN g \in SUBSET Nat, IsFiniteSet(DOMAIN g),
           \A n \in DOMAIN g : g[n] \in S, NEW i \in S, i \in Ids
    PROVE  Around(g, i) \in Seq(S) /\ Around(g, i) # <<>>
<1> DEFINE k == table[i].key
           Runs(n) == \A m \in (n..(k.idx - 1)) \cup ((k.idx + 1)..n) : m \in DOMAIN g
           run == {n \in DOMAIN g : Runs(n)} \cup {k.idx}
           e == [n \in run |-> IF n = k.idx THEN i ELSE g[n]]
<1>0. CASE ~Sequential(k)
  <2>1. Around(g, i) = << i >>
    BY <1>0 DEF Around
  <2> QED
    BY <2>1
<1>1. CASE Sequential(k)
  <2>1. Around(g, i) = Picked(e, run)
    BY <1>1 DEF Around
  <2>2. k.idx \in Nat
    <3>1. table[i] \in RowType(Keys, Tags)
      BY IdsAre
    <3>2. table[i].key \in Keys
      BY <3>1 DEF RowType
    <3> QED
      BY <3>2, SearchAssumption
  <2> DEFINE near == {n \in DOMAIN g : Runs(n)}
  <2>3. near \subseteq DOMAIN g /\ run = near \cup {k.idx}
    OBVIOUS
  <2>4. \A n \in run : e[n] \in S
    OBVIOUS
  <2> HIDE DEF near, run, e
  <2>5. IsFiniteSet(near)
    BY <2>3, FS_Subset
  <2>6. IsFiniteSet(run)
    <3>1. IsFiniteSet({k.idx})
      BY FS_Singleton
    <3> QED
      BY <2>3, <2>5, <3>1, FS_Union
  <2>7. run \in SUBSET Nat
    BY <2>2, <2>3
  <2>8. Picked(e, run) \in Seq(S) /\ Len(Picked(e, run)) = Cardinality(run)
    BY ONLY <2>4, <2>6, <2>7, PickedIn
  <2>9. Cardinality(run) # 0
    BY <2>3, <2>6, FS_EmptySet
  <2>10. Len(<<>>) = 0
    OBVIOUS
  <2> QED
    BY <2>1, <2>8, <2>9, <2>10
<1> QED
  BY <1>0, <1>1

LEMMA OncePerKeyIs ==
    ASSUME NEW S, NEW s \in Seq(S)
    PROVE  /\ OncePerKey(s) \in Seq(S) /\ Distinct(OncePerKey(s))
           /\ s # <<>> => OncePerKey(s) # <<>>
<1> DEFINE First(r) == \A q \in 1..(r - 1) : table[s[q]].key # table[s[r]].key
           P == {r \in DOMAIN s : First(r)}
           n == Len(s)
<1>1. /\ n \in Nat /\ DOMAIN s = 1..n /\ (s # <<>> <=> n >= 1)
      /\ \A i \in 1..n : s[i] \in S
  OBVIOUS
<1>2. OncePerKey(s) = Picked(s, P)
  BY DEF OncePerKey
<1>3. P \in SUBSET (1..n)
  BY <1>1
<1>4. ASSUME NEW p \in P, NEW q \in P, s[p] = s[q]
      PROVE  p = q
  <2>1. p \in 1..n /\ q \in 1..n /\ First(p) /\ First(q)
    BY <1>1
  <2>2. ~(p < q)
    <3> SUFFICES ASSUME p < q PROVE FALSE
      OBVIOUS
    <3>1. p \in 1..(q - 1)
      BY <1>1, <2>1
    <3> QED
      BY <1>4, <2>1, <3>1
  <2>3. ~(q < p)
    <3> SUFFICES ASSUME q < p PROVE FALSE
      OBVIOUS
    <3>1. q \in 1..(p - 1)
      BY <1>1, <2>1
    <3> QED
      BY <1>4, <2>1, <3>1
  <2> HIDE DEF First, P, n
  <2>4. p \in Nat /\ q \in Nat
    BY <1>1, <2>1
  <2> QED
    BY ONLY <2>2, <2>3, <2>4
<1>5. n >= 1 => 1 \in P
  <2>1. n >= 1 => 1 \in 1..n
    BY <1>1
  <2>2. 1..(1 - 1) = {}
    OBVIOUS
  <2> QED
    BY <1>1, <2>1, <2>2
<1>6. IsFiniteSet(1..n) /\ \A i \in 1..n : i \in Nat
  BY <1>1, FS_Interval
<1> HIDE DEF P, n
<1>7. P \in SUBSET Nat /\ IsFiniteSet(P) /\ \A p \in P : s[p] \in S
  BY <1>1, <1>3, <1>6, FS_Subset
<1>8. /\ Picked(s, P) \in Seq(S) /\ Len(Picked(s, P)) = Cardinality(P)
      /\ (\A p, q \in P : s[p] = s[q] => p = q) => Distinct(Picked(s, P))
  BY ONLY <1>7, PickedIn
<1>9. 1 \in P => Cardinality(P) # 0
  BY <1>7, FS_EmptySet
<1>10. Len(<<>>) = 0
  OBVIOUS
<1> QED
  BY <1>1, <1>2, <1>4, <1>5, <1>8, <1>9, <1>10

LEMMA WeaveIs ==
    ASSUME TypedTable, NEW S \in SUBSET Ids, NEW s \in Seq(S), NEW N \in SUBSET S,
           NEW out \in Weave(s, N)
    PROVE  /\ out \in Seq(S)
           /\ s # <<>> => out # <<>>
           /\ Distinct(s) => Distinct(out)
<1>1. CASE N = {}
  BY <1>1 DEF Weave
<1>2. CASE N # {}
  <2> DEFINE Turns(g) == FlattenSeq([r \in DOMAIN s |-> Around(g, s[r])])
             Woven(g) == {OncePerKey(Turns(g) \o rest) : rest \in SetToSeqs(ToSet(g))}
  <2>0. PICK g \in Groups(N) : out \in Woven(g)
    <3>1. out \in UNION {Woven(g) : g \in Groups(N)}
      BY <1>2 DEF Weave
    <3> HIDE DEF Woven
    <3> QED
      BY <3>1
  <2>1. PICK rest \in SetToSeqs(ToSet(g)) : out = OncePerKey(Turns(g) \o rest)
    BY <2>0
  <2>2. N \in SUBSET Ids
    OBVIOUS
  <2>3. /\ DOMAIN g \in SUBSET Nat /\ IsFiniteSet(DOMAIN g)
        /\ \A n \in DOMAIN g : g[n] \in N
        /\ ToSet(g) \subseteq N /\ IsFiniteSet(ToSet(g))
    BY ONLY <2>0, <2>2, TypedTable, NumbersAre
  <2> DEFINE m == Len(s)
             ss == [r \in 1..m |-> Around(g, s[r])]
  <2>4. m \in Nat /\ DOMAIN s = 1..m /\ (s # <<>> <=> m >= 1) /\ \A r \in 1..m : s[r] \in S
    OBVIOUS
  <2>5. Turns(g) = FlattenSeq(ss)
    BY <2>4
  <2>6. ASSUME NEW r \in 1..m
        PROVE  ss[r] \in Seq(S) /\ ss[r] # <<>>
    <3>1. s[r] \in S /\ s[r] \in Ids
      BY <2>4
    <3>2. \A n \in DOMAIN g : g[n] \in S
      BY <2>3
    <3>3. Around(g, s[r]) \in Seq(S) /\ Around(g, s[r]) # <<>>
      BY ONLY TypedTable, <2>3, <3>1, <3>2, AroundIs
    <3> QED
      BY <3>3
  <2>7. ss \in Seq(Seq(S)) /\ Len(ss) = m
    <3>1. DOMAIN ss = 1..m /\ ss = [r \in 1..m |-> ss[r]]
      OBVIOUS
    <3> HIDE DEF ss
    <3>2. ss \in [1..m -> Seq(S)]
      BY <2>6, <3>1
    <3> HIDE DEF m
    <3> QED
      BY <2>4, <3>2
  <2> HIDE DEF ss
  <2> DEFINE t == FlattenSeq(ss)
  <2>8. t \in Seq(S) /\ ToSet(t) = UNION {ToSet(ss[i]) : i \in 1..Len(ss)}
    BY ONLY <2>7, FlattenIs
  <2>9. s # <<>> => t # <<>>
    <3> SUFFICES ASSUME s # <<>> PROVE t # <<>>
      OBVIOUS
    <3>1. 1 \in 1..m
      <4> HIDE DEF m
      <4> QED
        BY <2>4
    <3>2. ToSet(ss[1]) # {}
      BY <2>6, <3>1, Inhabited
    <3>3. ToSet(t) # {}
      <4> DEFINE parts == {ToSet(ss[i]) : i \in 1..Len(ss)}
      <4>1. ToSet(ss[1]) \in parts
        BY <2>7, <3>1
      <4>2. ToSet(t) = UNION parts
        BY <2>8
      <4> HIDE DEF parts, t
      <4> QED
        BY <3>2, <4>1, <4>2
    <3> HIDE DEF t
    <3> QED
      BY <2>8, <3>3, Inhabited
  <2>10. rest \in Seq(ToSet(g))
    BY <2>1, <2>3, OrdersAre
  <2>11. rest \in Seq(S)
    <3>1. ToSet(g) \subseteq S
      BY <2>3
    <3> HIDE DEF t, m
    <3> QED
      BY <2>10, <3>1
  <2> HIDE DEF t, m
  <2> DEFINE u == t \o rest
  <2>12. u \in Seq(S) /\ Len(u) = Len(t) + Len(rest) /\ Len(t) \in Nat /\ Len(rest) \in Nat
    BY ONLY <2>8, <2>11, Concatenated
  <2>13. t # <<>> => u # <<>>
    <3>1. t # <<>> <=> Len(t) >= 1
      BY <2>8, Inhabited
    <3>2. u # <<>> <=> Len(u) >= 1
      BY <2>12, Inhabited
    <3> HIDE DEF u
    <3> QED
      BY <2>12, <3>1, <3>2
  <2>14. out = OncePerKey(u)
    BY <2>1, <2>5 DEF t
  <2> HIDE DEF u
  <2>15. OncePerKey(u) \in Seq(S) /\ Distinct(OncePerKey(u)) /\ (u # <<>> => OncePerKey(u) # <<>>)
    BY <2>12, OncePerKeyIs
  <2> QED
    BY <2>9, <2>13, <2>14, <2>15
<1> QED
  BY <1>1, <1>2

\* The rows that hold now.
Usual == SelectedIds(table, Zero, Zero, clock)

LEMMA ExpandIs ==
    ASSUME TypedTable, NEW radius \in Nat, NEW S \in SUBSET Ids, NEW s \in Seq(S),
           radius > 0 => Usual \subseteq S,
           NEW out \in Expand(s, radius)
    PROVE  /\ out \in Seq(S)
           /\ s # <<>> => out # <<>>
           /\ Distinct(s) => Distinct(out)
           /\ radius = 0 => out = s
<1>1. CASE radius = 0 \/ Candidates(s, radius) = {}
  BY <1>1 DEF Expand
<1>2. CASE ~(radius = 0 \/ Candidates(s, radius) = {})
  <2>1. out \in Weave(s, Neighbours(s, radius))
    BY <1>2 DEF Expand
  <2>2. Neighbours(s, radius) \in SUBSET S
    <3>1. radius > 0
      BY <1>2
    <3>2. Neighbours(s, radius) \subseteq Usual
      BY DEF Neighbours, Usual
    <3> QED
      BY <3>1, <3>2
  <2> QED
    BY <1>2, <2>1, <2>2, WeaveIs
<1> QED
  BY <1>1, <1>2

\* The rows a search may answer.
Within(ask) == SelectedNow(ask) \cup IF ask.radius > 0 THEN Usual ELSE {}

LEMMA WithinIs ==
    ASSUME TypedTable, NEW ask \in Asks
    PROVE  /\ Within(ask) \in SUBSET Ids /\ SelectedNow(ask) \subseteq Within(ask)
           /\ ask.radius > 0 => Usual \subseteq Within(ask)
           /\ ask.radius \in Nat /\ ask.limit \in Nat \ {0}
           /\ ask.asOf \in Nat /\ ask.validAt \in Nat
<1>1. Usual \subseteq Ids
  BY DEF Usual, SelectedIds, Ids
<1>2. ask.radius \in Nat /\ ask.limit \in Nat \ {0} /\ ask.asOf \in Nat /\ ask.validAt \in Nat
  BY SearchAssumption DEF Bounds
<1> QED
  BY <1>1, <1>2, SelectedAre DEF Within

LEMMA PlainIs ==
    ASSUME TypedTable, NEW rank, Ranked(rank), NEW ask \in Asks, NEW n \in Nat \ {0},
           NEW out \in PlainSearch(rank, ask, n)
    PROVE  /\ out \in Seq(Within(ask)) /\ Distinct(out)
           /\ WordHits(rank, ask) # <<>> => out # <<>>
           /\ ask.radius = 0 => out = Take(WordHits(rank, ask), n)
<1> DEFINE h == WordHits(rank, ask)
           f == FullText(rank, ask, n)
           W == Within(ask)
<1>0. n \in Nat
  OBVIOUS
<1>1. h \in Seq(SelectedNow(ask)) /\ Distinct(h) /\ f = Take(h, n)
  BY <1>0, FullTextIs
<1>2. /\ W \in SUBSET Ids /\ SelectedNow(ask) \subseteq W
      /\ (ask.radius > 0 => Usual \subseteq W) /\ ask.radius \in Nat
  BY WithinIs
<1>3. out \in Expand(f, ask.radius)
  BY DEF PlainSearch
<1> HIDE DEF h, f, W
<1>4. h \in Seq(W)
  BY <1>1, <1>2
<1>5. /\ f \in Seq(W) /\ Distinct(f)
      /\ Len(f) = IF n < Len(h) THEN n ELSE Len(h)
  BY <1>0, <1>1, <1>4, TakeIs
<1>6. h # <<>> => f # <<>>
  <2>1. h # <<>> <=> Len(h) >= 1
    BY <1>4, Inhabited
  <2>2. f # <<>> <=> Len(f) >= 1
    BY <1>5, Inhabited
  <2> QED
    BY <1>5, <2>1, <2>2
<1>7. /\ out \in Seq(W) /\ (f # <<>> => out # <<>>)
      /\ Distinct(f) => Distinct(out)
      /\ ask.radius = 0 => out = f
  BY ONLY TypedTable, <1>2, <1>3, <1>5, ExpandIs
<1> QED
  BY <1>1, <1>5, <1>6, <1>7 DEF h, W

-----------------------------------------------------------------------------
(* Scores.                                                                  *)

\* The share of a rank: below the first rank it is less than at the first.
LEMMA ShareFalls ==
    ASSUME NEW r \in Nat, r >= 1
    PROVE  /\ (61 * 62 * 63 * 64 * 65) \div (60 + r) \in Nat
           /\ r >= 2 => (61 * 62 * 63 * 64 * 65) \div (60 + r)
                           < (61 * 62 * 63 * 64 * 65) \div (60 + 1)
<1> DEFINE d == 60 + r
           q == 991186560 \div d
<1>0. 61 * 62 * 63 * 64 * 65 = 991186560
  OBVIOUS
<1>1. d \in Nat /\ d > 0 /\ (r >= 2 => d >= 62)
  OBVIOUS
<1>2. 991186560 \div (60 + 1) = 16248960
  OBVIOUS
<1>3. q \in Nat /\ d * q <= 991186560
  <2> HIDE DEF d
  <2> QED
    BY <1>1
<1>4. ASSUME r >= 2
      PROVE  q < 16248960
  <2> HIDE DEF d, q
  <2> SUFFICES ASSUME q >= 16248960 PROVE FALSE
    BY <1>3
  <2>1. d * 16248960 >= 62 * 16248960
    BY <1>1, <1>4
  <2>2. d * q >= d * 16248960
    <3>1. PICK x \in Nat : q = 16248960 + x
      BY <1>3
    <3>2. d * q = d * 16248960 + d * x
      BY <1>1, <3>1
    <3>3. d * x \in Nat /\ d * 16248960 \in Nat
      BY <1>1
    <3> QED
      BY <3>2, <3>3
  <2>3. d * q \in Nat /\ d * 16248960 \in Nat
    BY <1>1, <1>3
  <2> QED
    BY <1>3, <2>1, <2>2, <2>3
<1> QED
  BY <1>0, <1>2, <1>3, <1>4

LEMMA ShareIs ==
    ASSUME NEW S, NEW s \in Seq(S), Distinct(s)
    PROVE  /\ \A r \in 1..Len(s) : Share(s, s[r]) = (61 * 62 * 63 * 64 * 65) \div (60 + r)
           /\ \A i : i \notin ToSet(s) => Share(s, i) = 0
           /\ \A i : Share(s, i) \in Nat
<1>0. /\ Len(s) \in Nat /\ DOMAIN s = 1..Len(s)
      /\ \A i \in 1..Len(s) : s[i] \in ToSet(s)
      /\ \A x \in ToSet(s) : \E i \in 1..Len(s) : s[i] = x
  BY Inhabited
<1>1. ASSUME NEW r \in 1..Len(s)
      PROVE  Share(s, s[r]) = (61 * 62 * 63 * 64 * 65) \div (60 + r)
  <2>1. {q \in DOMAIN s : s[q] = s[r]} = {r}
    BY <1>0 DEF Distinct
  <2>2. {r} # {} /\ (CHOOSE q \in {r} : TRUE) = r
    OBVIOUS
  <2> QED
    BY <2>1, <2>2 DEF Share
<1>2. ASSUME NEW i, i \notin ToSet(s)
      PROVE  Share(s, i) = 0
  <2>1. {q \in DOMAIN s : s[q] = i} = {}
    BY <1>0, <1>2
  <2> QED
    BY <2>1 DEF Share
<1>3. ASSUME NEW i
      PROVE  Share(s, i) \in Nat
  <2>1. CASE i \notin ToSet(s)
    BY <1>2, <2>1
  <2>2. CASE i \in ToSet(s)
    <3>1. PICK r \in 1..Len(s) : s[r] = i
      BY <1>0, <2>2
    <3>2. Share(s, i) = (61 * 62 * 63 * 64 * 65) \div (60 + r)
      BY <1>1, <3>1
    <3>3. r \in Nat /\ r >= 1
      BY <1>0
    <3>4. (61 * 62 * 63 * 64 * 65) \div (60 + r) \in Nat
      BY <3>3, ShareFalls
    <3> QED
      BY ONLY <3>2, <3>4
  <2> QED
    BY <2>1, <2>2
<1> QED
  BY <1>1, <1>2, <1>3

\* The two best of a merge cannot both be rows that no word found: the first
\* row by words scores more than every row by meaning alone but one.
LEMMA WordAmongTwo ==
    ASSUME NEW W, NEW words \in Seq(W), Distinct(words), words # <<>>,
           NEW V, NEW near \in Seq(V), Distinct(near),
           NEW s, Order(s, words, near), NEW n \in Nat, n >= 2
    PROVE  \E r \in 1..Len(Take(s, n)) : s[r] \in ToSet(words)
<1> DEFINE D == ToSet(words) \cup ToSet(near)
           top == (61 * 62 * 63 * 64 * 65) \div (60 + 1)
           w == words[1]
           l == Len(Take(s, n))
<1>1. /\ s \in Seq(D) /\ Distinct(s) /\ ToSet(s) = D
      /\ \A a, b \in 1..Len(s) :
            a < b => Score(words, near, s[a]) >= Score(words, near, s[b])
  BY DEF Order
<1>2. /\ Len(s) \in Nat /\ DOMAIN s = 1..Len(s)
      /\ \A i \in 1..Len(s) : s[i] \in D
      /\ \A x \in D : \E i \in 1..Len(s) : s[i] = x
  BY ONLY <1>1, Inhabited
<1>3. l \in Nat /\ l = IF n < Len(s) THEN n ELSE Len(s)
  BY ONLY <1>1, TakeIs, n \in Nat
<1>4. 1 \in 1..Len(words) /\ w \in ToSet(words)
  <2>1. Len(words) \in Nat /\ Len(words) >= 1 /\ \A i \in 1..Len(words) : words[i] \in ToSet(words)
    BY Inhabited
  <2> QED
    BY <2>1
<1>5. Share(words, w) = top /\ \A i : Share(near, i) \in Nat
  BY <1>4, ShareIs
<1>6. top \in Nat
  BY ShareFalls
<1> HIDE DEF D, top, w, l
<1>7. Score(words, near, w) >= top /\ Score(words, near, w) \in Nat
  BY <1>5, <1>6 DEF Score
<1>8. PICK p \in 1..Len(s) : s[p] = w
  BY <1>2, <1>4 DEF D
<1> SUFFICES ASSUME \A r \in 1..l : s[r] \notin ToSet(words)
             PROVE  FALSE
  BY DEF l
<1>9. 1 \in 1..Len(s) /\ 2 \in 1..Len(s) /\ 1 < p /\ 2 < p /\ 1 \in 1..l /\ 2 \in 1..l
  <2>1. p \notin 1..l
    BY <1>4, <1>8
  <2>2. Len(s) \in Nat /\ p \in 1..Len(s)
    BY <1>2, <1>8
  <2> QED
    BY ONLY <1>3, <2>1, <2>2, n \in Nat, n >= 2
\* A row that no word found, before the row w: its score is its rank by meaning.
<1>10. ASSUME NEW i \in 1..l, i \in 1..Len(s), i < p
       PROVE  s[i] \in ToSet(near) /\ Share(near, s[i]) >= top
  <2>1. s[i] \notin ToSet(words)
    OBVIOUS
  <2>2. s[i] \in ToSet(near)
    BY <1>2, <1>10, <2>1 DEF D
  <2>3. Share(words, s[i]) = 0 /\ Share(near, s[i]) \in Nat
    BY <2>1, <1>5, ShareIs
  <2>4. Score(words, near, s[i]) = Share(near, s[i])
    BY <2>3 DEF Score
  <2>5. Score(words, near, s[i]) >= Score(words, near, w)
    BY <1>1, <1>8, <1>10
  <2> QED
    BY <1>6, <1>7, <2>2, <2>3, <2>4, <2>5
<1>11. ASSUME NEW i \in 1..l, i \in 1..Len(s), i < p
       PROVE  near[1] = s[i]
  <2>1. PICK r \in 1..Len(near) : near[r] = s[i]
    BY <1>10, <1>11, Inhabited
  <2>2. Share(near, s[i]) = (61 * 62 * 63 * 64 * 65) \div (60 + r)
    BY <2>1, ShareIs
  <2>3. r \in Nat /\ r >= 1
    BY Inhabited
  <2>4. r >= 2 => Share(near, s[i]) < top /\ Share(near, s[i]) \in Nat
    BY <1>5, <2>2, <2>3, ShareFalls DEF top
  <2>5. Share(near, s[i]) >= top
    BY <1>10, <1>11
  <2>6. r = 1
    BY <1>5, <1>6, <2>3, <2>4, <2>5
  <2> QED
    BY <2>1, <2>6
<1>12. s[1] = s[2]
  BY <1>9, <1>11
<1>13. 1 = 2
  BY <1>1, <1>2, <1>9, <1>12 DEF Distinct
<1> QED
  BY <1>13

-----------------------------------------------------------------------------
(* The answers.                                                             *)

LEMMA PoolIs ==
    ASSUME NEW ask, ask.limit \in Nat \ {0}
    PROVE  Pool(ask.limit) \in Nat \ {0} /\ Pool(ask.limit) >= ask.limit
  BY DEF Pool

\* Searches by words alone.
LEMMA WordSearchIs ==
    ASSUME TypedTable, NEW rank, Ranked(rank), NEW ask \in Asks,
           NEW out \in WordSearch(rank, ask)
    PROVE  /\ out \in Seq(Within(ask))
           /\ WordHits(rank, ask) # <<>> => out # <<>>
<1>1. ask.limit \in Nat \ {0}
  BY WithinIs
<1>2. Pool(ask.limit) \in Nat \ {0}
  BY <1>1, PoolIs
<1>3. PICK s \in PlainSearch(rank, ask, Pool(ask.limit)) : out \in RerankOrNot(s, ask.limit)
  BY DEF WordSearch
<1>4. s \in Seq(Within(ask)) /\ (WordHits(rank, ask) # <<>> => s # <<>>)
  BY <1>2, <1>3, PlainIs
<1> QED
  BY ONLY <1>1, <1>3, <1>4, RerankIs

\* Searches by words and by meaning.
LEMMA HybridSearchIs ==
    ASSUME TypedTable, NEW rank, Ranked(rank), NEW ask \in Asks,
           NEW vectors, IsFiniteSet(DOMAIN vectors),
           NEW out \in HybridSearch(rank, ask, vectors)
    PROVE  \E words, s :
              /\ out \in Seq(Within(ask))
              /\ words \in PlainSearch(rank, ask, 2 * ask.limit)
              /\ Order(s, words, Nearest(rank, vectors, 2 * ask.limit))
              /\ (\E r \in 1..Len(Take(s, Pool(ask.limit))) : s[r] \in ToSet(words))
                    => out # <<>>
              /\ ask.radius = 0 /\ ToSet(Nearest(rank, vectors, 2 * ask.limit)) \subseteq SelectedNow(ask)
                    => Len(out) = Len(Take(s, ask.limit))
<1> DEFINE near == Nearest(rank, vectors, 2 * ask.limit)
           knownOf(words) == ToSet(words) \cup FetchByIDs(ToSet(near) \ ToSet(words), ask)
           mergedOf(words) == MergeRRF(words, near, knownOf(words), Pool(ask.limit))
           ordered(words) == UNION {RerankOrNot(m, ask.limit) : m \in mergedOf(words)}
           expanded(words) == UNION {Expand(s, ask.radius) : s \in ordered(words)}
           W == Within(ask)
<1>1. /\ ask.limit \in Nat \ {0} /\ 2 * ask.limit \in Nat \ {0}
      /\ Pool(ask.limit) \in Nat \ {0} /\ Pool(ask.limit) >= ask.limit
      /\ ask.limit \in Nat /\ Pool(ask.limit) \in Nat
  <2>1. ask.limit \in Nat \ {0}
    BY WithinIs
  <2> QED
    BY <2>1, PoolIs
<1>2. PICK words \in PlainSearch(rank, ask, 2 * ask.limit) : out \in expanded(words)
  <2>1. out \in UNION {expanded(words) : words \in PlainSearch(rank, ask, 2 * ask.limit)}
    BY DEF HybridSearch
  <2> HIDE DEF expanded
  <2> QED
    BY <2>1
<1> DEFINE known == knownOf(words)
<1>3. PICK r \in ordered(words) : out \in Expand(r, ask.radius)
  <2> HIDE DEF ordered
  <2> QED
    BY <1>2
<1>4. PICK m \in mergedOf(words) : r \in RerankOrNot(m, ask.limit)
  <2> HIDE DEF mergedOf
  <2> QED
    BY <1>3
<1>5. m \in MergeRRF(words, near, known, Pool(ask.limit))
  BY <1>4
<1>6. words \in Seq(W) /\ Distinct(words)
  BY <1>1, <1>2, PlainIs
<1>7. near \in Seq(DOMAIN vectors) /\ Distinct(near)
  <2>1. /\ NearHits(rank, vectors) \in Seq(DOMAIN vectors) /\ Distinct(NearHits(rank, vectors))
        /\ near = Take(NearHits(rank, vectors), 2 * ask.limit)
    BY <1>1, NearestIs
  <2> HIDE DEF near
  <2> QED
    BY <1>1, <2>1, TakeIs
<1>8. known \subseteq W
  <2>1. ToSet(words) \subseteq W
    <3> HIDE DEF W
    <3> QED
      BY <1>6, Inhabited
  <2>2. SelectedNow(ask) \subseteq W
    BY WithinIs
  <2> QED
    BY <2>1, <2>2 DEF FetchByIDs
<1> HIDE DEF known, near, W
<1>9. IsFiniteSet(ToSet(words)) /\ IsFiniteSet(ToSet(near))
  BY ONLY <1>6, <1>7, DistinctCount
<1>10. PICK s :
          /\ Order(s, words, near)
          /\ m \in Seq(known)
          /\ \A q \in 1..Len(Take(s, Pool(ask.limit))) : s[q] \in known => m # <<>>
          /\ ToSet(words) \cup ToSet(near) \subseteq known
                => Len(m) = Len(Take(s, Pool(ask.limit)))
  <2> DEFINE n == Pool(ask.limit)
  <2>1. n \in Nat /\ m \in MergeRRF(words, near, known, n)
    BY <1>1, <1>5
  <2> HIDE DEF n
  <2>2. \E s : /\ Order(s, words, near)
               /\ m \in Seq(known)
               /\ \A q \in 1..Len(Take(s, n)) : s[q] \in known => m # <<>>
               /\ ToSet(words) \cup ToSet(near) \subseteq known => Len(m) = Len(Take(s, n))
    BY ONLY <1>9, <2>1, MergeIs
  <2> QED
    BY <2>2 DEF n
<1>11. m \in Seq(W)
  BY <1>8, <1>10
<1>12. /\ r \in Seq(W) /\ (m # <<>> => r # <<>>)
       /\ "reranker" \notin setup => r = m
       /\ "reranker" \in setup => Len(r) = IF ask.limit < Len(m) THEN ask.limit ELSE Len(m)
  BY ONLY <1>1, <1>4, <1>11, RerankIs
<1>13. /\ out \in Seq(W) /\ (r # <<>> => out # <<>>)
       /\ ask.radius = 0 => out = r
  <2>1. W \in SUBSET Ids /\ (ask.radius > 0 => Usual \subseteq W) /\ ask.radius \in Nat
    BY WithinIs DEF W
  <2> QED
    BY ONLY TypedTable, <1>3, <1>12, <2>1, ExpandIs
<1>14. ASSUME NEW q \in 1..Len(Take(s, Pool(ask.limit))), s[q] \in ToSet(words)
       PROVE  out # <<>>
  <2>1. s[q] \in known
    BY <1>14 DEF known
  <2>2. m # <<>>
    BY <1>10, <2>1
  <2> QED
    BY <1>12, <1>13, <2>2
<1>15. ASSUME ask.radius = 0, ToSet(near) \subseteq SelectedNow(ask)
       PROVE  Len(out) = Len(Take(s, ask.limit))
  <2>1. ToSet(words) \cup ToSet(near) \subseteq known
    BY <1>15 DEF known, FetchByIDs
  <2>2. Len(m) = Len(Take(s, Pool(ask.limit)))
    BY <1>10, <2>1
  <2>3. s \in Seq(ToSet(words) \cup ToSet(near))
    BY <1>10 DEF Order
  <2> DEFINE p == Pool(ask.limit)
             n == ask.limit
             l == Len(s)
  <2>4. /\ Len(Take(s, p)) = IF p < l THEN p ELSE l
        /\ Len(Take(s, n)) = IF n < l THEN n ELSE l
        /\ l \in Nat
    BY ONLY <1>1, <2>3, TakeIs
  <2>5. out = r
    BY <1>13, <1>15
  <2>6. p = IF "reranker" \in setup THEN 3 * n ELSE n
    BY DEF Pool
  <2>7. n \in Nat /\ n # 0 /\ p \in Nat /\ p >= n
    BY <1>1
  <2> HIDE DEF p, n, l
  <2>8. CASE "reranker" \in setup
    <3>1. Len(r) = IF n < Len(m) THEN n ELSE Len(m)
      BY <1>12, <2>8 DEF n
    <3>2. Len(m) = IF p < l THEN p ELSE l
      BY <2>2, <2>4 DEF p
    <3>3. Len(Take(s, ask.limit)) = IF n < l THEN n ELSE l
      BY <2>4 DEF n
    <3> QED
      BY ONLY <2>4, <2>5, <2>7, <3>1, <3>2, <3>3
  <2>9. CASE "reranker" \notin setup
    <3>1. r = m /\ p = n
      BY <1>12, <2>6, <2>9
    <3> QED
      BY <2>2, <2>5, <3>1 DEF p, n
  <2> QED
    BY <2>8, <2>9
<1> QED
  BY <1>2, <1>10, <1>13, <1>14, <1>15 DEF W, near

\* What a search finds, over the rows as they are, whoever asks.
MomentOf(a) ==
    \A i \in ToSet(a.out) :
        \/ i \in SelectedNow(a.ask)
        \/ a.ask.radius > 0 /\ Live(table[i], clock)

MatchesOf(a) == ToSet(FullText(a.rank, a.ask, Len(table)))

WordMatchOf(a) == a.ask.limit >= 2 /\ MatchesOf(a) # {} => a.out # <<>>

FilledOf(a) ==
    a.fresh /\ a.ask.radius = 0 =>
        LET found == MatchesOf(a) \cup
                {i \in SelectedNow(a.ask) : table[i].emb # NoVector}
        IN  Len(a.out) = Len(Take(SetToSeq(found), a.ask.limit))

-----------------------------------------------------------------------------
(* The rows, their vectors and the cache.                                   *)

\* A row comes from an entry of the log, its vector from that or an earlier one.
RowsOK == \A i \in Ids : table[i].line \in Lines /\ table[i].emb \in 0..lines

VectorsOK(vectors) == \A i \in DOMAIN vectors : i \in Ids /\ vectors[i] \in Lines

LEMMA TypedIs ==
    ASSUME TypeOK
    PROVE  TypedTable /\ lines \in Nat /\ (cache = NoCache \/ VectorsOK(cache))
  BY DEF TypeOK, TypedTable, VectorsOK

LEMMA LoadedIs ==
    ASSUME TypeOK, RowsOK, NEW ask
    PROVE  /\ DOMAIN Loaded(ask) = {i \in SelectedNow(ask) : table[i].emb # NoVector}
           /\ VectorsOK(Loaded(ask))
<1> DEFINE E == {i \in SelectedNow(ask) : table[i].emb # NoVector}
<1>1. Loaded(ask) = [i \in E |-> table[i].emb]
  BY DEF Loaded, LoadEmbeddings, SelectedNow
<1>2. ASSUME NEW i \in E
      PROVE  i \in Ids /\ table[i].emb \in Lines
  <2>1. i \in Ids
    BY SelectedAre, TypedIs
  <2>2. lines \in Nat /\ table[i].emb \in 0..lines /\ table[i].emb # 0
    BY <2>1, TypedIs DEF RowsOK, NoVector
  <2>3. table[i].emb \in 1..lines
    <3> DEFINE e == table[i].emb
    <3> HIDE DEF e
    <3>1. e \in 1..lines
      BY ONLY <2>2 DEF e
    <3> QED
      BY <3>1 DEF e
  <2> QED
    BY <2>1, <2>3 DEF Lines
<1> HIDE DEF E
<1>3. DOMAIN Loaded(ask) = E /\ \A i \in E : Loaded(ask)[i] = table[i].emb
  BY <1>1
<1> QED
  BY <1>2, <1>3 DEF VectorsOK, E

LEMMA VectorsAre ==
    ASSUME TypeOK, RowsOK, NEW ask
    PROVE  /\ VectorsOK(Vectors(ask))
           /\ IsFiniteSet(DOMAIN Vectors(ask)) /\ ToSet(Vectors(ask)) \in SUBSET Nat
           /\ IsFiniteSet(ToSet(Vectors(ask)))
<1> DEFINE v == Vectors(ask)
<1>1. VectorsOK(v)
  BY TypedIs, LoadedIs DEF Vectors
<1> HIDE DEF v
<1>2. DOMAIN v \subseteq Ids
  BY <1>1 DEF VectorsOK
<1>3. IsFiniteSet(DOMAIN v)
  BY <1>2, TypedIs, IdsAre, FS_Subset
<1>4. ToSet(v) = {v[i] : i \in DOMAIN v}
  BY DEF ToSet
<1>5. IsFiniteSet(ToSet(v))
  <2> DEFINE S == DOMAIN v
  <2>1. IsFiniteSet(S) /\ DOMAIN v = S
    BY <1>3
  <2> HIDE DEF S
  <2>2. IsFiniteSet({v[i] : i \in S})
    BY ONLY <2>1, FiniteImage
  <2> QED
    BY <1>4, <2>2 DEF S
<1>6. ToSet(v) \in SUBSET Nat
  <2>1. \A l \in Lines : l \in Nat
    BY TypedIs DEF Lines
  <2> QED
    BY <1>1, <1>4, <2>1 DEF VectorsOK
<1> QED
  BY <1>1, <1>3, <1>5, <1>6 DEF v

LEMMA Wider ==
    ASSUME NEW S, NEW T, S \subseteq T, NEW s \in Seq(S)
    PROVE  s \in Seq(T)
  OBVIOUS

LEMMA RankingsAre ==
    ASSUME TypeOK, RowsOK, NEW ask, NEW rank \in Rankings(SelectedNow(ask), Vectors(ask))
    PROVE  /\ Ranked(rank)
           /\ rank.embeds => ToSet(rank.near) = ToSet(Vectors(ask))
<1> DEFINE seen == {table[i].line : i \in SelectedNow(ask)}
           embedded == ToSet(Vectors(ask))
<1>1. /\ rank.words \in SetToAllKPermutations(seen)
      /\ \/ rank.near \in SetToSeqs(embedded)
         \/ rank.near = <<>> /\ ~rank.embeds
  BY DEF Rankings
<1>2. seen \in SUBSET Nat /\ IsFiniteSet(seen)
  <2> DEFINE f == [i \in SelectedNow(ask) |-> table[i].line]
  <2>1. seen = {f[i] : i \in SelectedNow(ask)} /\ DOMAIN f = SelectedNow(ask)
    OBVIOUS
  <2>2. ASSUME NEW i \in SelectedNow(ask) PROVE table[i].line \in Nat
    <3>1. i \in Ids
      BY SelectedAre, TypedIs
    <3>2. \A l \in Lines : l \in Nat
      BY TypedIs DEF Lines
    <3> QED
      BY <3>1, <3>2 DEF RowsOK
  <2>3. seen \in SUBSET Nat
    BY <2>2
  <2> HIDE DEF seen, f
  <2>4. IsFiniteSet(SelectedNow(ask))
    BY SelectedAre, TypedIs
  <2>5. IsFiniteSet(seen)
    BY ONLY <2>1, <2>4, FiniteImage
  <2> QED
    BY <2>3, <2>5
<1>3. embedded \in SUBSET Nat /\ IsFiniteSet(embedded)
  BY VectorsAre
<1> HIDE DEF seen, embedded
<1>4. rank.words \in Seq(Nat) /\ Distinct(rank.words)
  <2>1. PICK S \in SUBSET seen : rank.words \in SetToSeqs(S)
    BY <1>1 DEF SetToAllKPermutations
  <2>2. IsFiniteSet(S) /\ S \in SUBSET Nat
    BY <1>2, FS_Subset
  <2>3. rank.words \in Seq(S) /\ Distinct(rank.words)
    BY <2>1, <2>2, OrdersAre
  <2>4. rank.words \in Seq(Nat)
    BY <2>2, <2>3, Wider
  <2> QED
    BY <2>3, <2>4
<1>5. CASE rank.near \in SetToSeqs(embedded)
  <2>1. rank.near \in Seq(embedded) /\ Distinct(rank.near) /\ ToSet(rank.near) = embedded
    BY <1>3, <1>5, OrdersAre
  <2>2. rank.near \in Seq(Nat)
    BY <1>3, <2>1, Wider
  <2> QED
    BY <1>4, <2>1, <2>2 DEF Ranked, embedded
<1>6. CASE rank.near = <<>> /\ ~rank.embeds
  <2>1. <<>> \in Seq(Nat) /\ Distinct(<<>>)
    <3>1. DOMAIN <<>> = {}
      OBVIOUS
    <3> QED
      BY <3>1 DEF Distinct
  <2> QED
    BY <1>4, <1>6, <2>1 DEF Ranked
<1> QED
  BY <1>1, <1>5, <1>6

-----------------------------------------------------------------------------
(* What one search returns.                                                 *)

LEMMA TakeAll ==
    ASSUME NEW S, NEW s \in Seq(S), NEW n \in Nat
    PROVE  /\ ToSet(Take(s, n)) \subseteq ToSet(s)
           /\ Len(s) <= n => ToSet(Take(s, n)) = ToSet(s)
<1> DEFINE t == Take(s, n)
<1>1. /\ t \in Seq(S) /\ Len(t) = IF n < Len(s) THEN n ELSE Len(s)
      /\ Len(t) <= Len(s) /\ Len(t) \in Nat /\ Len(s) \in Nat
      /\ \A i \in 1..Len(t) : t[i] = s[i]
  BY TakeIs
<1>2. /\ \A i \in 1..Len(s) : s[i] \in ToSet(s)
      /\ \A x \in ToSet(s) : \E i \in 1..Len(s) : s[i] = x
  BY Inhabited
<1> HIDE DEF t
<1>3. /\ \A i \in 1..Len(t) : t[i] \in ToSet(t)
      /\ \A x \in ToSet(t) : \E i \in 1..Len(t) : t[i] = x
  BY <1>1, Inhabited
<1>4. \A i \in 1..Len(t) : i \in 1..Len(s)
  BY <1>1
<1>5. ToSet(t) \subseteq ToSet(s)
  BY <1>1, <1>2, <1>3, <1>4
<1>6. ASSUME Len(s) <= n
      PROVE  ToSet(s) \subseteq ToSet(t)
  <2>1. Len(t) = Len(s)
    BY <1>1, <1>6
  <2> QED
    BY <1>1, <1>2, <1>3, <2>1
<1> QED
  BY <1>5, <1>6 DEF t

\* Rankings cut at twice the limit leave enough to fill the limit.
LEMMA EnoughMerged ==
    ASSUME NEW S, NEW h \in Seq(S), Distinct(h), NEW v \in Seq(S), Distinct(v),
           NEW l \in Nat \ {0}, NEW s, Order(s, Take(h, 2 * l), Take(v, 2 * l))
    PROVE  Len(Take(s, l)) = Len(Take(SetToSeq(ToSet(h) \cup ToSet(v)), l))
<1> DEFINE words == Take(h, 2 * l)
           near == Take(v, 2 * l)
           F == ToSet(h) \cup ToSet(v)
           D == ToSet(words) \cup ToSet(near)
           f == SetToSeq(F)
<1>0. l \in Nat /\ 2 * l \in Nat /\ l <= 2 * l
  OBVIOUS
<1>1. /\ words \in Seq(S) /\ Distinct(words)
      /\ Len(words) = (IF 2 * l < Len(h) THEN 2 * l ELSE Len(h)) /\ Len(h) \in Nat
      /\ ToSet(words) \subseteq ToSet(h)
      /\ Len(h) <= 2 * l => ToSet(words) = ToSet(h)
  BY <1>0, TakeIs, TakeAll
<1>2. /\ near \in Seq(S) /\ Distinct(near)
      /\ Len(near) = (IF 2 * l < Len(v) THEN 2 * l ELSE Len(v)) /\ Len(v) \in Nat
      /\ ToSet(near) \subseteq ToSet(v)
      /\ Len(v) <= 2 * l => ToSet(near) = ToSet(v)
  BY <1>0, TakeIs, TakeAll
<1>3. s \in Seq(D) /\ Len(s) = Cardinality(D)
  BY DEF Order
<1>4. IsFiniteSet(F)
  <2>1. IsFiniteSet(ToSet(h)) /\ IsFiniteSet(ToSet(v))
    BY DistinctCount
  <2> QED
    BY <2>1, FS_Union
<1>5. f \in Seq(F) /\ Len(f) = Cardinality(F)
  BY <1>4, SeqOfSetIs
<1>6. /\ IsFiniteSet(ToSet(words)) /\ Cardinality(ToSet(words)) = Len(words)
      /\ IsFiniteSet(ToSet(near)) /\ Cardinality(ToSet(near)) = Len(near)
  <2> HIDE DEF words, near
  <2> QED
    BY <1>1, <1>2, DistinctCount
<1>7. D \subseteq F
  BY <1>1, <1>2
<1>8. ToSet(words) \subseteq D /\ ToSet(near) \subseteq D
  OBVIOUS
<1>9. Len(h) <= 2 * l /\ Len(v) <= 2 * l => D = F
  BY <1>1, <1>2
<1> DEFINE c == Cardinality(F)
           d == Cardinality(D)
<1>10. /\ Len(Take(s, l)) = IF l < Len(s) THEN l ELSE Len(s)
       /\ Len(Take(f, l)) = IF l < Len(f) THEN l ELSE Len(f)
  <2> HIDE DEF D, F, f
  <2> QED
    BY ONLY <1>0, <1>3, <1>5, TakeIs
<1> HIDE DEF D, F, f, words, near
<1>11. c \in Nat /\ d \in Nat /\ d <= c /\ IsFiniteSet(D)
  BY <1>4, <1>7, FS_Subset, FS_CardinalityType
<1>12. Len(words) <= d /\ Len(near) <= d
  <2>1. Cardinality(ToSet(words)) <= d /\ Cardinality(ToSet(near)) <= d
    BY <1>8, <1>11, FS_Subset
  <2> QED
    BY <1>6, <2>1
<1>13. D = F => d = c
  OBVIOUS
<1> HIDE DEF c, d
<1>14. CASE Len(h) <= 2 * l /\ Len(v) <= 2 * l
  <2>1. Len(s) = Len(f)
    BY <1>3, <1>5, <1>9, <1>13, <1>14 DEF c, d
  <2> QED
    BY <1>10, <2>1 DEF f, F
<1>15. CASE ~(Len(h) <= 2 * l /\ Len(v) <= 2 * l)
  <2>1. l <= d
    <3>1. 2 * l <= d
      BY <1>0, <1>1, <1>2, <1>12, <1>15
    <3> QED
      BY <1>0, <1>11, <3>1
  <2>2. Len(s) = d /\ Len(f) = c
    BY <1>3, <1>5 DEF c, d
  <2>3. Len(Take(s, l)) = l /\ Len(Take(f, l)) = l
    BY <1>0, <1>10, <1>11, <2>1, <2>2
  <2> QED
    BY <2>3 DEF f, F
<1> QED
  BY <1>14, <1>15

\* All matches are among the first Len(table).
LEMMA MatchesAre ==
    ASSUME TypedTable, NEW a, Ranked(a.rank)
    PROVE  MatchesOf(a) = ToSet(WordHits(a.rank, a.ask))
<1> DEFINE h == WordHits(a.rank, a.ask)
           S == SelectedNow(a.ask)
<1>1. Len(table) \in Nat /\ IsFiniteSet(Ids) /\ Cardinality(Ids) = Len(table)
  BY IdsAre
<1>2. h \in Seq(S) /\ Distinct(h) /\ FullText(a.rank, a.ask, Len(table)) = Take(h, Len(table))
  BY <1>1, FullTextIs
<1>3. S \subseteq Ids
  BY SelectedAre
<1> HIDE DEF h, S
<1>4. ToSet(h) \subseteq Ids
  BY <1>2, <1>3, Inhabited
<1>5. Cardinality(ToSet(h)) = Len(h)
  BY <1>2, DistinctCount
<1>6. Len(h) <= Len(table)
  <2>1. Cardinality(ToSet(h)) <= Cardinality(Ids)
    BY <1>1, <1>4, FS_Subset
  <2> QED
    BY <1>1, <1>5, <2>1
<1>7. ToSet(Take(h, Len(table))) = ToSet(h)
  BY <1>1, <1>2, <1>6, TakeAll
<1> QED
  BY <1>2, <1>7 DEF MatchesOf, h

LEMMA AnswerIs ==
    ASSUME TypeOK, RowsOK, NEW ask \in Asks,
           NEW rank \in Rankings(SelectedNow(ask), Vectors(ask)),
           rank.embeds => "embedder" \in setup,
           NEW out \in Answers(rank, ask),
           NEW a, a = [given |-> TRUE, rank |-> rank, ask |-> ask, out |-> out,
                       fresh |-> rank.embeds /\ Vectors(ask) = Loaded(ask)]
    PROVE  /\ a.given /\ MomentOf(a) /\ WordMatchOf(a) /\ FilledOf(a)
           /\ ToSet(a.out) \subseteq Ids /\ a.out \in Seq(Ids)
<1> DEFINE h == WordHits(rank, ask)
           W == Within(ask)
           vectors == Vectors(ask)
           v == NearHits(rank, vectors)
           l == ask.limit
           near == Nearest(rank, vectors, 2 * l)
<1>0. /\ TypedTable /\ Ranked(rank) /\ l \in Nat \ {0} /\ 2 * l \in Nat \ {0} /\ 2 * l \in Nat
      /\ W \in SUBSET Ids
  <2>1. TypedTable /\ Ranked(rank)
    BY TypedIs, RankingsAre
  <2>2. l \in Nat \ {0} /\ W \in SUBSET Ids
    BY <2>1, WithinIs
  <2> QED
    BY <2>1, <2>2
<1>1. a.given /\ a.rank = rank /\ a.ask = ask /\ a.out = out
      /\ (a.fresh <=> rank.embeds /\ Vectors(ask) = Loaded(ask))
  OBVIOUS
<1>2. MatchesOf(a) = ToSet(h)
  BY <1>0, <1>1, MatchesAre
<1>3. IsFiniteSet(DOMAIN vectors)
  BY VectorsAre
<1>4. h \in Seq(SelectedNow(ask)) /\ Distinct(h)
  BY <1>0, FullTextIs
<1>5. /\ v \in Seq(DOMAIN vectors) /\ Distinct(v)
      /\ ToSet(v) = {i \in DOMAIN vectors : vectors[i] \in ToSet(rank.near)}
      /\ near = Take(v, 2 * l)
  BY <1>0, <1>3, NearestIs
\* The three ways to answer.
<1>6. /\ out \in Seq(W)
      /\ l >= 2 /\ h # <<>> => out # <<>>
      /\ rank.embeds /\ vectors = Loaded(ask) /\ ask.radius = 0
            => Len(out) = Len(Take(SetToSeq(ToSet(h) \cup DOMAIN vectors), l))
  <2>1. CASE "embedder" \notin setup
    <3>1. out \in WordSearch(rank, ask) /\ ~rank.embeds
      BY <2>1 DEF Answers
    <3> HIDE DEF h, W
    <3> QED
      BY <1>0, <3>1, WordSearchIs DEF h, W
  <2>2. CASE "embedder" \in setup /\ ~rank.embeds
    <3>1. out \in PlainSearch(rank, ask, l)
      BY <2>2 DEF Answers
    <3>2. out \in Seq(W) /\ (h # <<>> => out # <<>>)
      BY <1>0, <3>1, PlainIs
    <3> HIDE DEF h, W
    <3> QED
      BY <2>2, <3>2
  <2>3. CASE "embedder" \in setup /\ rank.embeds
    <3>1. out \in HybridSearch(rank, ask, vectors)
      BY <2>3 DEF Answers
    <3>2. PICK words, s :
              /\ out \in Seq(W)
              /\ words \in PlainSearch(rank, ask, 2 * l)
              /\ Order(s, words, near)
              /\ (\E r \in 1..Len(Take(s, Pool(l))) : s[r] \in ToSet(words)) => out # <<>>
              /\ ask.radius = 0 /\ ToSet(near) \subseteq SelectedNow(ask)
                    => Len(out) = Len(Take(s, l))
      BY <1>0, <1>3, <3>1, HybridSearchIs
    <3>3. /\ words \in Seq(W) /\ Distinct(words) /\ (h # <<>> => words # <<>>)
          /\ (ask.radius = 0 => words = Take(h, 2 * l))
      BY <1>0, <3>2, PlainIs
    <3>4. ASSUME l >= 2, h # <<>>
          PROVE  out # <<>>
      <4>1. Pool(l) \in Nat \ {0} /\ Pool(l) >= l
        BY <1>0, PoolIs
      <4> DEFINE n == Pool(l)
      <4>2. n \in Nat /\ n >= 2
        BY <1>0, <3>4, <4>1
      <4>3. near \in Seq(DOMAIN vectors) /\ Distinct(near)
        BY <1>0, <1>5, TakeIs
      <4>4. words # <<>>
        BY <3>3, <3>4
      <4> HIDE DEF n, near, W
      <4>5. \E r \in 1..Len(Take(s, n)) : s[r] \in ToSet(words)
        BY ONLY <3>2, <3>3, <4>2, <4>3, <4>4, WordAmongTwo
      <4> QED
        BY <3>2, <4>5 DEF n
    <3>5. ASSUME vectors = Loaded(ask), ask.radius = 0
          PROVE  Len(out) = Len(Take(SetToSeq(ToSet(h) \cup DOMAIN vectors), l))
      <4> DEFINE S == SelectedNow(ask)
      <4>1. DOMAIN vectors \subseteq S
        BY <3>5, LoadedIs
      <4>2. ToSet(v) = DOMAIN vectors
        <5>1. ToSet(rank.near) = ToSet(vectors)
          BY <2>3, RankingsAre
        <5>2. \A i \in DOMAIN vectors : vectors[i] \in ToSet(vectors)
          BY DEF ToSet
        <5> HIDE DEF vectors, v
        <5> QED
          BY <1>5, <5>1, <5>2
      <4>3. v \in Seq(S)
        BY <1>5, <4>1, Wider
      <4>4. ToSet(near) \subseteq S
        <5>1. ToSet(near) \subseteq ToSet(v)
          BY <1>0, <1>5, TakeAll
        <5> QED
          BY <4>1, <4>2, <5>1
      <4>5. Order(s, Take(h, 2 * l), Take(v, 2 * l))
        BY <1>5, <3>2, <3>3, <3>5
      <4>6. h \in Seq(S)
        BY <1>4
      <4> HIDE DEF S, h, v, l, near, vectors
      <4>7. Len(Take(s, l)) = Len(Take(SetToSeq(ToSet(h) \cup ToSet(v)), l))
        BY ONLY <1>0, <1>4, <1>5, <4>3, <4>5, <4>6, EnoughMerged
      <4>8. Len(out) = Len(Take(s, l))
        BY <3>2, <3>5, <4>4 DEF S
      <4> QED
        BY <4>2, <4>7, <4>8
    <3> HIDE DEF h, W, vectors, l, near
    <3> QED
      BY <3>2, <3>4, <3>5
  <2> QED
    BY <2>1, <2>2, <2>3
<1>7. ToSet(out) \subseteq W
  <2> HIDE DEF W
  <2> QED
    BY <1>6, Inhabited
<1>8. MomentOf(a)
  <2> SUFFICES ASSUME NEW i \in ToSet(out), i \notin SelectedNow(ask)
               PROVE  ask.radius > 0 /\ Live(table[i], clock)
    BY <1>1 DEF MomentOf
  <2>1. ask.radius > 0 /\ i \in Usual
    BY <1>7 DEF Within
  <2>2. Live(table[i], clock)
    BY <2>1 DEF Usual, SelectedIds, Selected
  <2> QED
    BY <2>1, <2>2
<1>9. WordMatchOf(a)
  <2>1. h # <<>> <=> ToSet(h) # {}
    BY <1>4, Inhabited
  <2> HIDE DEF h
  <2> QED
    BY <1>1, <1>2, <1>6, <2>1 DEF WordMatchOf
<1>10. FilledOf(a)
  <2> SUFFICES ASSUME a.fresh, ask.radius = 0
               PROVE  Len(out) = Len(Take(SetToSeq(MatchesOf(a) \cup
                         {i \in SelectedNow(ask) : table[i].emb # NoVector}), l))
    BY <1>1 DEF FilledOf
  <2>1. rank.embeds /\ vectors = Loaded(ask)
    BY <1>1
  <2>2. DOMAIN vectors = {i \in SelectedNow(ask) : table[i].emb # NoVector}
    BY <2>1, LoadedIs
  <2> HIDE DEF h, vectors
  <2> QED
    BY <1>2, <1>6, <2>1, <2>2
<1>11. ToSet(out) \subseteq Ids /\ out \in Seq(Ids)
  <2> HIDE DEF W
  <2> QED
    BY <1>0, <1>6, <1>7, Wider
<1> QED
  BY <1>1, <1>8, <1>9, <1>10, <1>11

-----------------------------------------------------------------------------
(* Order in an answer: what stands ahead of what.                           *)

\* The elements picked at the places P of s stand in the order of the places a.
Places(a, s, P) ==
    /\ DOMAIN Picked(s, P) = 1..Cardinality(P) /\ Cardinality(P) \in Nat
    /\ \A j \in 1..Cardinality(P) : a[j] \in P /\ Picked(s, P)[j] = s[a[j]]
    /\ \A i, j \in 1..Cardinality(P) : i < j => a[i] < a[j]
    /\ \A p \in P : \E j \in 1..Cardinality(P) : a[j] = p

LEMMA PickedOrder ==
    ASSUME NEW s, NEW P \in SUBSET Nat, IsFiniteSet(P)
    PROVE  \E a : Places(a, s, P)
<1> DEFINE a == Ascending(P)
           n == Cardinality(P)
<1>1. n \in Nat /\ \A j \in 1..n : a[j] \in P
  BY AscendingIn
<1>2. /\ \A i, j \in 1..n : i < j => a[i] < a[j]
      /\ \A p \in P : \E j \in 1..n : a[j] = p
  BY AscendingGrows
<1>3. DOMAIN Picked(s, P) = 1..n /\ \A j \in 1..n : Picked(s, P)[j] = s[a[j]]
  BY DEF Picked
<1> HIDE DEF a
<1>4. Places(a, s, P)
  BY <1>1, <1>2, <1>3 DEF Places
<1> QED
  BY <1>4

\* x stands in w before any y.
Ahead(w, x, y) == \E p \in DOMAIN w : w[p] = x /\ \A q \in 1..p : w[q] # y

\* It does in two sequences one after another, ...
LEMMA AheadJoin ==
    ASSUME NEW S, NEW s \in Seq(S), NEW t \in Seq(S), NEW x, NEW y
    PROVE  /\ Ahead(s, x, y) => Ahead(s \o t, x, y)
           /\ y \notin ToSet(s) /\ Ahead(t, x, y) => Ahead(s \o t, x, y)
<1> DEFINE r == s \o t
           m == Len(s)
           n == Len(t)
<1>1. /\ r \in Seq(S) /\ Len(r) = m + n /\ m \in Nat /\ n \in Nat
      /\ \A i \in 1..m : r[i] = s[i]
      /\ \A i \in 1..n : r[m + i] = t[i]
  BY ONLY Concatenated, s \in Seq(S), t \in Seq(S)
<1>2. DOMAIN r = 1..(m + n) /\ DOMAIN s = 1..m /\ DOMAIN t = 1..n
  BY <1>1
<1>0. \A i \in 1..m : s[i] \in ToSet(s)
  BY Inhabited
<1> HIDE DEF r, m, n
<1>3. ASSUME Ahead(s, x, y)
      PROVE  Ahead(r, x, y)
  <2>1. PICK p \in 1..m : s[p] = x /\ \A q \in 1..p : s[q] # y
    BY <1>2, <1>3 DEF Ahead
  <2>2. p \in 1..(m + n) /\ r[p] = x
    BY <1>1, <2>1
  <2>3. \A q \in 1..p : q \in 1..m
    BY <1>1, <2>1
  <2>4. \A q \in 1..p : r[q] # y
    BY <1>1, <2>1, <2>3
  <2> QED
    BY <1>2, <2>2, <2>4 DEF Ahead
<1>4. ASSUME y \notin ToSet(s), Ahead(t, x, y)
      PROVE  Ahead(r, x, y)
  <2>1. PICK p \in 1..n : t[p] = x /\ \A q \in 1..p : t[q] # y
    BY <1>2, <1>4 DEF Ahead
  <2>2. m + p \in 1..(m + n) /\ r[m + p] = x
    BY <1>1, <2>1
  <2>3. ASSUME NEW q \in 1..(m + p)
        PROVE  r[q] # y
    <3>1. CASE q \in 1..m
      BY <1>0, <1>1, <1>4, <3>1
    <3>2. CASE q \notin 1..m
      <4>1. q - m \in 1..p /\ q - m \in 1..n /\ m + (q - m) = q
        BY <1>1, <2>1, <3>2
      <4>2. r[m + (q - m)] = t[q - m] /\ t[q - m] # y
        BY <1>1, <2>1, <4>1
      <4> QED
        BY ONLY <4>1, <4>2
    <3> QED
      BY <3>1, <3>2
  <2> QED
    BY <1>2, <2>2, <2>3 DEF Ahead
<1> QED
  BY <1>3, <1>4 DEF r

\* ... and in any number, when it does in the first that has y.
LEMMA AheadFlatten ==
    ASSUME NEW S, NEW ss \in Seq(Seq(S)), NEW k \in 1..Len(ss), NEW x, NEW y,
           Ahead(ss[k], x, y), \A q \in 1..(k - 1) : y \notin ToSet(ss[q])
    PROVE  Ahead(FlattenSeq(ss), x, y)
<1> DEFINE n == Len(ss)
           Good(t, i) == /\ t \in Seq(S)
                         /\ i < k => y \notin ToSet(t)
                         /\ k <= i => Ahead(t, x, y)
<1>1. n \in Nat /\ k \in 1..n /\ k \in Nat /\ n # 0 /\ \A i \in 1..n : ss[i] \in Seq(S)
  OBVIOUS
<1> DEFINE h == CHOOSE h : Flattening(h, ss, n)
<1>2. Flattening(h, ss, n)
  BY <1>1, FlatteningExists
<1>3. FlattenSeq(ss) = h[n]
  <2>1. ss # <<>>
    BY <1>1
  <2> QED
    BY <1>1, <2>1 DEF FlattenSeq, Flattening
<1> HIDE DEF h
<1>4. \A i \in 1..n : h[i] = IF i = 1 THEN ss[i] ELSE h[i - 1] \o ss[i]
  BY <1>2 DEF Flattening
<1> HIDE DEF n
<1> DEFINE Bad == {i \in 1..n : ~Good(h[i], i)}
<1> SUFFICES ASSUME Bad # {}
             PROVE  FALSE
  <2>1. n \in 1..n /\ k <= n
    BY <1>1
  <2> HIDE DEF Good
  <2>2. ASSUME Bad = {}
        PROVE  Good(h[n], n)
    BY <2>1, <2>2
  <2> USE DEF Good
  <2> QED
    BY <1>3, <2>1, <2>2
<1>0. Bad \in SUBSET Nat
  OBVIOUS
<1>5. PICK i \in Bad : \A j \in Bad : i <= j
  BY <1>0, Least, Zenon
<1>6. i \in 1..n /\ ~Good(h[i], i)
  BY <1>5
<1>7. CASE i = 1
  <2>1. h[i] = ss[i] /\ ss[i] \in Seq(S)
    BY <1>1, <1>4, <1>6, <1>7
  <2>2. i < k => y \notin ToSet(ss[i])
    BY <1>1, <1>7
  <2>3. k <= i => k = i
    BY <1>1, <1>7
  <2> QED
    BY <1>6, <2>1, <2>2, <2>3
<1>8. CASE i # 1
  <2>1. i - 1 \in 1..n /\ ~(i <= i - 1) /\ i \in Nat
    BY <1>1, <1>6, <1>8
  <2>2. h[i] = h[i - 1] \o ss[i] /\ ss[i] \in Seq(S)
    BY <1>1, <1>4, <1>6, <1>8
  <2>3. Good(h[i - 1], i - 1)
    <3>1. i - 1 \notin Bad
      <4> HIDE DEF Bad
      <4> QED
        BY <1>5, <2>1
    <3> HIDE DEF Good
    <3> QED
      BY <2>1, <3>1
  <2> DEFINE t == h[i - 1]
             u == ss[i]
  <2>4. t \in Seq(S) /\ u \in Seq(S)
    BY <2>2, <2>3
  <2>5. /\ t \o u \in Seq(S) /\ ToSet(t \o u) = ToSet(t) \cup ToSet(u)
        /\ Ahead(t, x, y) => Ahead(t \o u, x, y)
        /\ y \notin ToSet(t) /\ Ahead(u, x, y) => Ahead(t \o u, x, y)
    BY ONLY <2>4, JoinIs, AheadJoin
  <2>6. /\ i < k => i - 1 < k /\ i \in 1..(k - 1)
        /\ k <= i => k <= i - 1 \/ k = i
        /\ k = i => i - 1 < k
    BY <1>1, <2>1
  <2>7. i < k => y \notin ToSet(t) /\ y \notin ToSet(u)
    BY <2>3, <2>6
  <2>8. k <= i => Ahead(t \o u, x, y)
    BY <2>3, <2>5, <2>6
  <2> QED
    BY <1>6, <2>2, <2>5, <2>7, <2>8
<1> QED
  BY <1>7, <1>8

\* Where x first stands in w.
FirstAt(w, x, p) == p \in DOMAIN w /\ w[p] = x /\ \A q \in 1..(p - 1) : w[q] # x

LEMMA HasFirst ==
    ASSUME NEW S, NEW w \in Seq(S), NEW x \in ToSet(w)
    PROVE  \E p : FirstAt(w, x, p)
<1> DEFINE At == {p \in 1..Len(w) : w[p] = x}
<1>1. Len(w) \in Nat /\ DOMAIN w = 1..Len(w) /\ \E p \in 1..Len(w) : w[p] = x
  BY Inhabited
<1>2. At # {} /\ At \in SUBSET Nat
  BY <1>1
<1>3. PICK p \in At : \A q \in At : p <= q
  BY <1>2, Least, Zenon
<1>4. \A q \in 1..(p - 1) : q \in 1..Len(w) /\ ~(p <= q)
  BY <1>1, <1>3
<1>5. \A q \in 1..(p - 1) : q \notin At
  <2> HIDE DEF At
  <2> QED
    BY <1>3, <1>4
<1> QED
  BY <1>1, <1>3, <1>4, <1>5 DEF FirstAt

\* The key of the row i.
KeyOf(i) == table[i].key

\* In w the key of x is the key of x alone.
Alone(w, x) == \A z \in DOMAIN w : KeyOf(w[z]) = KeyOf(x) => w[z] = x

\* No two places of s hold rows of one key.
KeysApart(s) == \A r, q \in DOMAIN s : r # q => table[s[r]].key # table[s[q]].key

\* OncePerKey keeps what stands alone, in its order.
LEMMA OnceKeeps ==
    ASSUME NEW S, NEW w \in Seq(S)
    PROVE  /\ KeysApart(OncePerKey(w))
           /\ \A x \in ToSet(w) : Alone(w, x) => x \in ToSet(OncePerKey(w))
           /\ \A x, y \in ToSet(w) :
                 Alone(w, x) /\ Alone(w, y) /\ Ahead(w, x, y) => Ahead(OncePerKey(w), x, y)
<1> DEFINE P == {r \in DOMAIN w : \A q \in 1..(r - 1) : table[w[q]].key # table[w[r]].key}
           o == OncePerKey(w)
           c == Cardinality(P)
<1>1. /\ Len(w) \in Nat /\ DOMAIN w = 1..Len(w) /\ \A z \in 1..Len(w) : w[z] \in S
  OBVIOUS
<1>2. o = Picked(w, P)
  BY DEF OncePerKey
<1>3. P \in SUBSET Nat /\ IsFiniteSet(P) /\ \A p \in P : w[p] \in S
  <2>1. P \subseteq 1..Len(w)
    BY <1>1
  <2>2. IsFiniteSet(1..Len(w))
    <3> DEFINE n == Len(w)
    <3>1. n \in Nat
      BY <1>1
    <3> HIDE DEF n
    <3>2. IsFiniteSet(1..n)
      BY <3>1, FS_Interval
    <3> QED
      BY <3>2 DEF n
  <2> HIDE DEF P
  <2>3. \A i \in 1..Len(w) : i \in Nat
    OBVIOUS
  <2> QED
    BY <1>1, <2>1, <2>2, <2>3, FS_Subset
<1>4. \A r \in P : r \in 1..Len(w) /\ \A q \in 1..(r - 1) : KeyOf(w[q]) # KeyOf(w[r])
  BY <1>1 DEF KeyOf
\* The first place of a row whose key is its own is kept.
<1>5. ASSUME NEW x, Alone(w, x), NEW p, FirstAt(w, x, p)
      PROVE  p \in P /\ w[p] = x
  <2>1. p \in 1..Len(w) /\ w[p] = x
    BY <1>1, <1>5 DEF FirstAt
  <2>2. ASSUME NEW q \in 1..(p - 1)
        PROVE  table[w[q]].key # table[w[p]].key
    <3>1. q \in DOMAIN w /\ w[q] # x
      BY <1>1, <1>5, <2>1, <2>2 DEF FirstAt
    <3> QED
      BY <1>5, <2>1, <3>1 DEF Alone, KeyOf
  <2> QED
    BY <1>1, <2>1, <2>2
<1> HIDE DEF P
<1>6. PICK a :
        /\ DOMAIN o = 1..c /\ c \in Nat
        /\ \A j \in 1..c : a[j] \in P /\ o[j] = w[a[j]]
        /\ \A i, j \in 1..c : i < j => a[i] < a[j]
        /\ \A p \in P : \E j \in 1..c : a[j] = p
  <2>1. \E a : Places(a, w, P)
    BY <1>3, PickedOrder
  <2> QED
    BY <1>2, <2>1 DEF Places
<1> HIDE DEF o, c
<1>7. \A j \in 1..c : j \in Nat /\ a[j] \in Nat
  <2>1. \A j \in 1..c : j \in Nat
    OBVIOUS
  <2>2. \A p \in P : p \in Nat
    BY <1>3
  <2> QED
    BY ONLY <1>6, <2>1, <2>2, Zenon
<1>8. KeysApart(o)
  <2> SUFFICES ASSUME NEW i \in 1..c, NEW j \in 1..c, i < j
               PROVE  KeyOf(o[i]) # KeyOf(o[j])
    <3>1. \A i, j \in 1..c : i # j => i < j \/ j < i
      BY <1>7
    <3> QED
      BY <1>6, <3>1 DEF KeysApart, KeyOf
  <2>1. a[i] < a[j] /\ a[i] \in 1..Len(w) /\ a[j] \in 1..Len(w)
    BY <1>4, <1>6
  <2>2. a[i] \in 1..(a[j] - 1)
    BY <1>1, <1>7, <2>1
  <2> QED
    BY <1>4, <1>6, <2>2
<1>9. ASSUME NEW x \in ToSet(w), Alone(w, x)
      PROVE  x \in ToSet(o)
  <2>1. PICK p : FirstAt(w, x, p)
    BY HasFirst
  <2>2. p \in P /\ w[p] = x
    BY <1>5, <1>9, <2>1
  <2>3. PICK j \in 1..c : a[j] = p
    BY <1>6, <2>2
  <2> QED
    BY <1>6, <2>2, <2>3 DEF ToSet
<1>10. ASSUME NEW x \in ToSet(w), NEW y \in ToSet(w), Alone(w, x), Alone(w, y), Ahead(w, x, y)
       PROVE  Ahead(o, x, y)
  <2>1. PICK p : FirstAt(w, x, p)
    BY HasFirst
  <2>2. p \in P /\ w[p] = x
    BY <1>5, <1>10, <2>1
  <2>3. PICK j \in 1..c : a[j] = p
    BY <1>6, <2>2
  <2>4. PICK z \in DOMAIN w : w[z] = x /\ \A q \in 1..z : w[q] # y
    BY <1>10 DEF Ahead
  <2>5. p <= z
    <3>1. p \in Nat /\ z \in Nat /\ z >= 1
      BY <1>1, <1>3, <2>2, <2>4
    <3>2. z \notin 1..(p - 1)
      BY <2>1, <2>4 DEF FirstAt
    <3> QED
      BY ONLY <3>1, <3>2
  <2>6. ASSUME NEW i \in 1..j
        PROVE  o[i] # y
    <3>1. i \in 1..c /\ (i = j \/ i < j)
      BY <1>6, <1>7, <2>3
    <3>2. a[i] = p \/ a[i] < p
      BY <1>6, <2>3, <3>1
    <3>3. a[i] \in 1..z
      <4>0. \A q \in P : q \in Nat /\ q >= 1
        BY <1>1, <1>3, <1>4
      <4>1. a[i] \in P /\ p \in P /\ z \in Nat
        BY <1>1, <1>6, <2>2, <2>4, <3>1
      <4> QED
        BY ONLY <2>5, <3>2, <4>0, <4>1
    <3> QED
      BY <1>6, <2>4, <3>1, <3>3
  <2>7. o[j] = x
    BY <1>6, <2>2, <2>3
  <2> QED
    BY <1>6, <2>3, <2>6, <2>7 DEF Ahead
<1> QED
  BY <1>8, <1>9, <1>10 DEF o

-----------------------------------------------------------------------------
(* The hits and the turns beside them, in order.                            *)

LEMMA KeyIs ==
    ASSUME TypedTable, NEW i \in Ids
    PROVE  table[i].key \in Keys /\ table[i].key.idx \in Nat /\ table[i].key.width \in Nat
<1>1. table[i] \in RowType(Keys, Tags)
  BY IdsAre
<1>2. table[i].key \in Keys
  BY <1>1 DEF RowType
<1> QED
  BY <1>2, SearchAssumption

\* A row and the turns beside it.
LEMMA AroundOrder ==
    ASSUME TypedTable, NEW g, DOMAIN g \in SUBSET Nat, IsFiniteSet(DOMAIN g),
           NEW i \in Ids, i \notin ToSet(g)
    PROVE  /\ ToSet(Around(g, i)) \subseteq {i} \cup ToSet(g) /\ i \in ToSet(Around(g, i))
           /\ \A n \in DOMAIN g :
                 Sequential(KeyOf(i)) /\ (n = KeyOf(i).idx + 1 \/ n = KeyOf(i).idx - 1)
                 => /\ g[n] \in ToSet(Around(g, i))
                    /\ n < KeyOf(i).idx => Ahead(Around(g, i), g[n], i)
<1> DEFINE k == KeyOf(i)
           Reached(n) == \A m \in (n..(k.idx - 1)) \cup ((k.idx + 1)..n) : m \in DOMAIN g
           near == {n \in DOMAIN g : Reached(n)}
           run == near \cup {k.idx}
           e == [n \in run |-> IF n = k.idx THEN i ELSE g[n]]
           s == Around(g, i)
<1>0. CASE ~Sequential(k)
  <2>1. s = << i >>
    BY <1>0 DEF Around, KeyOf
  <2>2. ToSet(<< i >>) = {i}
    BY DEF ToSet
  <2> QED
    BY <1>0, <2>1, <2>2
<1>1. CASE Sequential(k)
  <2>1. s = Picked(e, run)
    BY <1>1 DEF Around, KeyOf
  <2>2. k.idx \in Nat
    BY KeyIs DEF KeyOf
  <2>3. /\ near \subseteq DOMAIN g /\ k.idx \in run
        /\ \A n \in run : e[n] = IF n = k.idx THEN i ELSE g[n]
        /\ \A n \in run : n = k.idx \/ n \in DOMAIN g
    OBVIOUS
  <2>4. ASSUME NEW n \in DOMAIN g, n = k.idx + 1 \/ n = k.idx - 1
        PROVE  n \in run /\ n # k.idx
    <3>1. n \in Nat
      OBVIOUS
    <3>2. \A m \in (n..(k.idx - 1)) \cup ((k.idx + 1)..n) : m = n
      <4> DEFINE x == k.idx
      <4> HIDE DEF k
      <4>1. x \in Nat /\ (n = x + 1 \/ n = x - 1)
        BY <2>2, <2>4
      <4> HIDE DEF x
      <4>2. \A m \in (n..(x - 1)) \cup ((x + 1)..n) : m = n
        BY <3>1, <4>1
      <4> QED
        BY <4>2 DEF x
    <3>3. n # k.idx
      <4> DEFINE x == k.idx
      <4> HIDE DEF k
      <4>1. x \in Nat /\ (n = x + 1 \/ n = x - 1)
        BY <2>2, <2>4
      <4> HIDE DEF x
      <4>2. n # x
        BY <4>1
      <4> QED
        BY <4>2 DEF x
    <3> QED
      BY <3>2, <3>3
  <2>5. IsFiniteSet(near)
    BY FS_Subset
  <2>6. run \in SUBSET Nat /\ IsFiniteSet(run)
    <3>1. IsFiniteSet({k.idx})
      BY FS_Singleton
    <3> HIDE DEF near
    <3> QED
      BY <2>2, <2>3, <2>5, <3>1, FS_Union
  <2> DEFINE c == Cardinality(run)
  <2> HIDE DEF near, run, e, s, k
  <2>7. PICK a : Places(a, e, run)
    BY <2>6, PickedOrder
  <2> HIDE DEF c
  <2>8. /\ DOMAIN s = 1..c /\ c \in Nat
        /\ \A j \in 1..c : a[j] \in run /\ s[j] = e[a[j]]
        /\ \A z, j \in 1..c : z < j => a[z] < a[j]
        /\ \A p \in run : \E j \in 1..c : a[j] = p
    BY <2>1, <2>7 DEF Places, c
  <2>9. \A n \in DOMAIN g : g[n] \in ToSet(g) /\ g[n] # i
    BY DEF ToSet
  <2>10. ToSet(s) \subseteq {i} \cup ToSet(g)
    <3> SUFFICES ASSUME NEW j \in 1..c
                 PROVE  s[j] \in {i} \cup ToSet(g)
      BY <2>8 DEF ToSet
    <3> QED
      BY <2>3, <2>8, <2>9
  <2>11. i \in ToSet(s)
    <3>1. PICK j \in 1..c : a[j] = k.idx
      BY <2>3, <2>8
    <3> QED
      BY <2>3, <2>8, <3>1 DEF ToSet
  <2>12. ASSUME NEW n \in DOMAIN g, n = k.idx + 1 \/ n = k.idx - 1
         PROVE  g[n] \in ToSet(s) /\ (n < k.idx => Ahead(s, g[n], i))
    <3>1. n \in run /\ n # k.idx
      BY <2>4, <2>12
    <3>2. PICK j \in 1..c : a[j] = n
      BY <2>8, <3>1
    <3>3. s[j] = g[n]
      BY <2>3, <2>8, <3>1, <3>2
    <3>4. ASSUME n < k.idx, NEW z \in 1..j
          PROVE  s[z] # i
      <4>1. z \in 1..c /\ (z = j \/ z < j)
        BY <2>8, <3>2
      <4>2. a[z] = n \/ a[z] < n
        BY <2>8, <3>2, <4>1
      <4>3. a[z] \in run /\ a[z] \in Nat /\ n \in Nat
        BY <2>6, <2>8, <4>1
      <4>4. a[z] # k.idx
        BY ONLY <2>2, <3>4, <4>2, <4>3
      <4> QED
        BY <2>3, <2>8, <2>9, <4>1, <4>3, <4>4
    <3> QED
      BY <2>8, <3>2, <3>3, <3>4 DEF Ahead, ToSet
  <2> QED
    BY <2>10, <2>11, <2>12 DEF s, k
<1> QED
  BY <1>0, <1>1

\* The rows of s are in out, in their order, ...
InOrder(out, s) ==
    /\ ToSet(s) \subseteq ToSet(out)
    /\ \A r, q \in DOMAIN s : r < q => Ahead(out, s[r], s[q])

\* ... and the turns g keeps beside them, the one before ahead.
BesideOf(out, s, g) ==
    \A h \in ToSet(s) : \A n \in DOMAIN g :
        Sequential(KeyOf(h)) /\ (n = KeyOf(h).idx + 1 \/ n = KeyOf(h).idx - 1)
        => g[n] \in ToSet(out) /\ (n < KeyOf(h).idx => Ahead(out, g[n], h))

\* A sequence of rows of different keys is in its own order.
LEMMA OrderOfApart ==
    ASSUME NEW S, NEW s \in Seq(S), KeysApart(s)
    PROVE  Distinct(s) /\ InOrder(s, s)
<1>1. /\ Len(s) \in Nat /\ DOMAIN s = 1..Len(s)
      /\ \A x \in ToSet(s) : \E z \in 1..Len(s) : s[z] = x
  BY Inhabited
<1>2. Distinct(s)
  BY DEF Distinct, KeysApart
<1>3. ASSUME NEW r \in 1..Len(s), NEW q \in 1..Len(s), r < q
      PROVE  Ahead(s, s[r], s[q])
  <2>1. ASSUME NEW z \in 1..r
        PROVE  s[z] # s[q]
    <3>1. z \in 1..Len(s) /\ z # q
      BY <1>1, <1>3
    <3> QED
      BY <1>1, <1>2, <3>1 DEF Distinct
  <2> QED
    BY <1>1, <2>1 DEF Ahead
<1> QED
  BY <1>1, <1>2, <1>3 DEF InOrder

\* Whatever the walk of the map, weaving keeps the hits and the turns in order.
LEMMA WeaveOrder ==
    ASSUME TypedTable, NEW s \in Seq(Ids), KeysApart(s), NEW radius \in Nat,
           NEW g \in Groups(Neighbours(s, radius)), NEW rest \in SetToSeqs(ToSet(g)),
           NEW out, out = OncePerKey(FlattenSeq([r \in DOMAIN s |-> Around(g, s[r])]) \o rest)
    PROVE  KeysApart(out) /\ InOrder(out, s) /\ BesideOf(out, s, g)
<1> DEFINE N == Neighbours(s, radius)
           m == Len(s)
           b == [r \in 1..m |-> Around(g, s[r])]
           t == FlattenSeq(b)
           w == t \o rest
<1>1. /\ m \in Nat /\ DOMAIN s = 1..m /\ Distinct(s) /\ InOrder(s, s)
      /\ \A r \in 1..m : s[r] \in Ids /\ s[r] \in ToSet(s)
      /\ \A x \in ToSet(s) : \E r \in 1..m : s[r] = x
  BY Inhabited, OrderOfApart
<1>2. N \in SUBSET Ids
  BY DEF Neighbours, SelectedIds, Ids
<1>3. /\ DOMAIN g \in SUBSET Nat /\ IsFiniteSet(DOMAIN g)
      /\ \A n \in DOMAIN g : g[n] \in N
      /\ ToSet(g) \subseteq N /\ IsFiniteSet(ToSet(g))
  BY <1>2, NumbersAre
\* The neighbours have keys and numbers of their own.
<1>4. \A i \in N : KeyOf(i) \notin KeysOf(s)
  BY DEF Neighbours, Candidates, KeyOf
<1>5. \A n \in DOMAIN g : KeyOf(g[n]).idx = n
  BY DEF Groups, KeyOf
<1>6. \A h \in ToSet(s) : KeyOf(h) \in KeysOf(s) /\ h \notin ToSet(g)
  BY <1>3, <1>4 DEF KeysOf, KeyOf
<1>7. \A r, q \in 1..m : KeyOf(s[r]) = KeyOf(s[q]) => s[r] = s[q]
  BY <1>1 DEF KeysApart, KeyOf
<1>8. out = OncePerKey(w)
  BY <1>1
<1>9. \A r \in 1..m : b[r] = Around(g, s[r]) /\ DOMAIN b = 1..m
  OBVIOUS
<1>10. b = [r \in 1..m |-> b[r]]
  OBVIOUS
<1> HIDE DEF N, m, b
<1>11. ASSUME NEW r \in 1..m
       PROVE  /\ b[r] \in Seq(Ids)
              /\ ToSet(b[r]) \subseteq {s[r]} \cup ToSet(g) /\ s[r] \in ToSet(b[r])
              /\ \A n \in DOMAIN g :
                    Sequential(KeyOf(s[r])) /\ (n = KeyOf(s[r]).idx + 1 \/ n = KeyOf(s[r]).idx - 1)
                    => g[n] \in ToSet(b[r]) /\ (n < KeyOf(s[r]).idx => Ahead(b[r], g[n], s[r]))
  <2>1. s[r] \in Ids /\ s[r] \notin ToSet(g)
    BY <1>1, <1>6
  <2>2. \A n \in DOMAIN g : g[n] \in Ids
    BY <1>2, <1>3
  <2>3. Around(g, s[r]) \in Seq(Ids)
    BY ONLY TypedTable, <1>3, <2>1, <2>2, AroundIs
  <2>4. /\ ToSet(Around(g, s[r])) \subseteq {s[r]} \cup ToSet(g) /\ s[r] \in ToSet(Around(g, s[r]))
        /\ \A n \in DOMAIN g :
              Sequential(KeyOf(s[r])) /\ (n = KeyOf(s[r]).idx + 1 \/ n = KeyOf(s[r]).idx - 1)
              => /\ g[n] \in ToSet(Around(g, s[r]))
                 /\ n < KeyOf(s[r]).idx => Ahead(Around(g, s[r]), g[n], s[r])
    BY ONLY TypedTable, <1>3, <2>1, AroundOrder
  <2> QED
    BY <1>9, <2>3, <2>4
<1>12. b \in Seq(Seq(Ids)) /\ Len(b) = m
  <2>1. b \in [1..m -> Seq(Ids)]
    BY <1>10, <1>11
  <2> QED
    BY <1>1, <2>1
<1>13. t \in Seq(Ids) /\ ToSet(t) = UNION {ToSet(b[r]) : r \in 1..m}
  <2>1. t \in Seq(Ids) /\ ToSet(t) = UNION {ToSet(b[i]) : i \in 1..Len(b)}
    BY ONLY <1>12, FlattenIs
  <2> QED
    BY <1>12, <2>1
<1>14. rest \in Seq(Ids) /\ ToSet(rest) = ToSet(g)
  <2>1. rest \in Seq(ToSet(g)) /\ ToSet(rest) = ToSet(g)
    BY <1>3, OrdersAre
  <2>2. ToSet(g) \subseteq Ids
    BY <1>2, <1>3
  <2> QED
    BY <2>1, <2>2, Wider
<1> HIDE DEF t
<1>15. w \in Seq(Ids) /\ ToSet(w) = ToSet(t) \cup ToSet(g)
  BY <1>13, <1>14, JoinIs
<1>16. \A x, y : Ahead(t, x, y) => Ahead(w, x, y)
  BY <1>13, <1>14, AheadJoin
<1> HIDE DEF w
<1>17. ToSet(s) \cup ToSet(g) = ToSet(w)
  <2>1. ASSUME NEW x \in ToSet(t)
        PROVE  x \in ToSet(s) \cup ToSet(g)
    <3>1. PICK r \in 1..m : x \in ToSet(b[r])
      BY <1>13, <2>1
    <3> QED
      BY <1>1, <1>11, <3>1
  <2>2. ASSUME NEW x \in ToSet(s)
        PROVE  x \in ToSet(t)
    <3>1. PICK r \in 1..m : s[r] = x
      BY <1>1, <2>2
    <3>2. x \in ToSet(b[r])
      BY <1>11, <3>1
    <3> QED
      BY <1>13, <3>2
  <2> QED
    BY <1>15, <2>1, <2>2
<1>18. /\ \A z \in DOMAIN w : w[z] \in ToSet(s) \/ \E n \in DOMAIN g : w[z] = g[n]
       /\ \A n \in DOMAIN g : g[n] \in ToSet(g)
  <2>1. \A z \in DOMAIN w : w[z] \in ToSet(w)
    BY DEF ToSet
  <2>2. \A x \in ToSet(g) : \E n \in DOMAIN g : x = g[n]
    BY DEF ToSet
  <2> QED
    BY <1>17, <2>1, <2>2 DEF ToSet
<1>19. ASSUME NEW h \in ToSet(s)
       PROVE  Alone(w, h)
  <2> SUFFICES ASSUME NEW z \in DOMAIN w, KeyOf(w[z]) = KeyOf(h)
               PROVE  w[z] = h
    BY DEF Alone
  <2>1. w[z] \notin ToSet(g)
    BY <1>3, <1>4, <1>6
  <2>2. w[z] \in ToSet(s)
    BY <1>18, <2>1
  <2> QED
    BY <1>1, <1>7, <2>2
<1>20. ASSUME NEW n \in DOMAIN g
       PROVE  Alone(w, g[n])
  <2> SUFFICES ASSUME NEW z \in DOMAIN w, KeyOf(w[z]) = KeyOf(g[n])
               PROVE  w[z] = g[n]
    BY DEF Alone
  <2>1. w[z] \notin ToSet(s)
    BY <1>3, <1>4, <1>6
  <2>2. PICK l \in DOMAIN g : w[z] = g[l]
    BY <1>18, <2>1
  <2> QED
    BY <1>5, <2>2
<1>21. /\ KeysApart(out)
       /\ \A x \in ToSet(w) : Alone(w, x) => x \in ToSet(out)
       /\ \A x, y \in ToSet(w) : Alone(w, x) /\ Alone(w, y) /\ Ahead(w, x, y) => Ahead(out, x, y)
  BY <1>8, <1>15, OnceKeeps
\* A row of s is in no group but its own.
<1>22. ASSUME NEW r \in 1..m, NEW z \in 1..m, z # r
       PROVE  s[r] \notin ToSet(b[z])
  <2>1. ToSet(b[z]) \subseteq {s[z]} \cup ToSet(g)
    BY <1>11
  <2>2. s[r] # s[z]
    BY <1>1, <1>22 DEF Distinct
  <2> QED
    BY <1>1, <1>6, <2>1, <2>2
<1>23. ASSUME NEW z \in 1..m, NEW x, NEW r \in 1..m, z <= r, Ahead(b[z], x, s[r])
       PROVE  Ahead(w, x, s[r])
  <2>1. ASSUME NEW q \in 1..(z - 1)
        PROVE  s[r] \notin ToSet(b[q])
    <3>1. q \in 1..m /\ q # r
      BY <1>1, <1>23
    <3> QED
      BY <1>22, <3>1
  <2>2. z \in 1..Len(b)
    BY <1>12
  <2>3. Ahead(FlattenSeq(b), x, s[r])
    BY ONLY <1>12, <1>23, <2>1, <2>2, AheadFlatten
  <2> QED
    BY <1>16, <2>3 DEF t
<1>24. ASSUME NEW r \in 1..m, NEW q \in 1..m, r < q
       PROVE  Ahead(out, s[r], s[q])
  <2>1. PICK p \in DOMAIN b[r] : b[r][p] = s[r]
    BY <1>11 DEF ToSet
  <2>2. s[q] \notin ToSet(b[r])
    BY <1>1, <1>22, <1>24
  <2>3. \A z \in 1..p : z \in DOMAIN b[r]
    BY <1>11, <2>1
  <2>4. \A z \in DOMAIN b[r] : b[r][z] # s[q]
    BY <2>2 DEF ToSet
  <2>5. Ahead(b[r], s[r], s[q])
    BY <2>1, <2>3, <2>4 DEF Ahead
  <2>6. Ahead(w, s[r], s[q])
    BY <1>1, <1>23, <1>24, <2>5
  <2> QED
    BY <1>1, <1>17, <1>19, <1>21, <2>6
<1>25. InOrder(out, s)
  <2>1. ToSet(s) \subseteq ToSet(out)
    BY <1>17, <1>19, <1>21
  <2> QED
    BY <1>1, <1>24, <2>1 DEF InOrder
<1>26. BesideOf(out, s, g)
  <2> SUFFICES ASSUME NEW h \in ToSet(s), NEW n \in DOMAIN g, Sequential(KeyOf(h)),
                      n = KeyOf(h).idx + 1 \/ n = KeyOf(h).idx - 1
               PROVE  g[n] \in ToSet(out) /\ (n < KeyOf(h).idx => Ahead(out, g[n], h))
    BY DEF BesideOf
  <2>1. PICK r \in 1..m : s[r] = h
    BY <1>1
  <2>2. g[n] \in ToSet(w) /\ Alone(w, g[n]) /\ h \in ToSet(w) /\ Alone(w, h)
    BY <1>17, <1>18, <1>19, <1>20
  <2>3. n < KeyOf(h).idx => Ahead(b[r], g[n], h)
    BY <1>11, <2>1
  <2>4. r <= r
    BY <1>1
  <2>5. n < KeyOf(h).idx => Ahead(w, g[n], h)
    BY <1>23, <2>1, <2>3, <2>4
  <2> QED
    BY <1>21, <2>2, <2>5
<1> QED
  BY <1>21, <1>25, <1>26

\* The turns beside the hits s are in the answer, the turn before ahead of its hit.
Taken(out, s) ==
    \A h \in ToSet(s), i \in Ids :
        Alongside(s, h, i) =>
            /\ i \in ToSet(out)
            /\ table[i].key.idx < table[h].key.idx => Ahead(out, i, h)

\* Such a turn is fetched, and bears the number before or after the hit's.
LEMMA CandidateIs ==
    ASSUME TypedTable, NEW s \in Seq(Ids), NEW radius \in Nat
    PROVE  /\ \A c \in Candidates(s, radius) : c \in Keys => Sequential(c)
           /\ \A h \in ToSet(s), i \in Ids :
                 radius > 0 /\ Alongside(s, h, i) =>
                    /\ i \in Neighbours(s, radius)
                    /\ \/ table[i].key.idx = table[h].key.idx + 1
                       \/ table[i].key.idx = table[h].key.idx - 1
<1> DEFINE Near(k) == {KeyAt(k, n) : n \in Nat \cap ((k.idx - radius)..(k.idx + radius))}
           L == {c \in KeysOf(s) : Sequential(c)}
<1>1. Candidates(s, radius) = (UNION {Near(k) : k \in L}) \ KeysOf(s)
  BY DEF Candidates
<1>2. \A x \in ToSet(s) : x \in Ids
  BY Inhabited
<1>3. \A k \in L : k \in KeysOf(s) /\ k.idx \in Nat /\ k.width \in Nat
  <2> SUFFICES ASSUME NEW x \in ToSet(s)
               PROVE  table[x].key.idx \in Nat /\ table[x].key.width \in Nat
    BY DEF KeysOf
  <2> QED
    BY <1>2, KeyIs
<1>4. ASSUME NEW c \in Candidates(s, radius), c \in Keys
      PROVE  Sequential(c)
  <2>1. PICK k \in L : c \in Near(k)
    BY <1>1
  <2>2. PICK n \in Nat : c = KeyAt(k, n)
    BY <2>1
  <2>3. c.width = IF k.width > Digits(n) THEN k.width ELSE Digits(n)
    BY <2>2 DEF KeyAt
  <2>4. c.width \in Nat /\ k.width \in Nat /\ k.width > 0
    BY <1>3, <1>4, SearchAssumption DEF Sequential
  <2> QED
    BY ONLY <2>3, <2>4 DEF Sequential
<1>5. ASSUME NEW h \in ToSet(s), NEW i \in Ids, radius > 0, Alongside(s, h, i)
      PROVE  /\ i \in Neighbours(s, radius)
             /\ \/ table[i].key.idx = table[h].key.idx + 1
                \/ table[i].key.idx = table[h].key.idx - 1
  <2> DEFINE k == table[h].key
             n == table[i].key
  <2>1. /\ Sequential(k) /\ Sequential(n)
        /\ n.idx = k.idx + 1 \/ k.idx = n.idx + 1
        /\ n.width = k.width \/ (k.width < n.width /\ n.width = Digits(n.idx))
        /\ n \notin KeysOf(s) /\ TurnsAt(n.idx) = {i}
    BY <1>5 DEF Alongside, Beside, SameStyle
  <2>2. k \in L /\ k.idx \in Nat /\ k.width \in Nat
    <3>1. k \in KeysOf(s)
      BY DEF KeysOf
    <3> QED
      BY <1>3, <2>1, <3>1
  <2>3. i \in SelectedIds(table, Zero, Zero, clock)
    BY <2>1 DEF TurnsAt
  <2>4. n \in Keys /\ n.idx \in Nat /\ n.width \in Nat
    BY KeyIs
  <2> HIDE DEF k, n
  <2>5. n.idx \in (k.idx - radius)..(k.idx + radius) /\ (n.idx = k.idx + 1 \/ n.idx = k.idx - 1)
    <3> DEFINE x == k.idx
               y == n.idx
    <3>1. x \in Nat /\ y \in Nat /\ (y = x + 1 \/ x = y + 1) /\ radius > 0
      BY <1>5, <2>1, <2>2, <2>4
    <3> HIDE DEF x, y
    <3>2. y \in (x - radius)..(x + radius) /\ (y = x + 1 \/ y = x - 1)
      BY ONLY <3>1, radius \in Nat
    <3> QED
      BY <3>2 DEF x, y
  <2>6. n = KeyAt(k, n.idx)
    <3>1. n = [idx |-> n.idx, width |-> n.width]
      BY <2>4, SearchAssumption
    <3>2. Digits(n.idx) \in 1..n.width
      BY <2>1, <2>4, SearchAssumption DEF Sequential
    <3>3. n.width = IF k.width > Digits(n.idx) THEN k.width ELSE Digits(n.idx)
      BY ONLY <2>1, <2>2, <2>4, <3>2
    <3> QED
      BY <3>1, <3>3 DEF KeyAt
  <2>7. n \in Near(k)
    BY <2>4, <2>5, <2>6
  <2> HIDE DEF Near, L
  <2>8. n \in Candidates(s, radius)
    BY <1>1, <2>1, <2>2, <2>7
  <2>9. i \in Neighbours(s, radius)
    BY <2>3, <2>8 DEF Neighbours, n
  <2> QED
    BY <2>5, <2>9 DEF n, k
<1> QED
  BY <1>4, <1>5

\* With or without neighbours, the hits are answered in their order.
LEMMA ExpandOrder ==
    ASSUME TypedTable, NEW s \in Seq(Ids), KeysApart(s), NEW radius \in Nat,
           NEW out \in Expand(s, radius)
    PROVE  KeysApart(out) /\ InOrder(out, s) /\ (radius > 0 => Taken(out, s))
<1> DEFINE N == Neighbours(s, radius)
\* Nothing surrounds the rows.
<1>1. CASE radius = 0 \/ Candidates(s, radius) = {} \/ N = {}
  <2>1. out = s
    BY <1>1 DEF Expand, Weave
  <2>2. radius > 0 => N = {}
    BY <1>1 DEF Neighbours
  <2>3. radius > 0 => Taken(out, s)
    BY <2>2, CandidateIs DEF Taken
  <2> QED
    BY <2>1, <2>3, OrderOfApart
<1>2. CASE ~(radius = 0 \/ Candidates(s, radius) = {} \/ N = {})
  <2> DEFINE Woven(g) == {OncePerKey(FlattenSeq([r \in DOMAIN s |-> Around(g, s[r])]) \o rest) :
                             rest \in SetToSeqs(ToSet(g))}
  <2>1. PICK g \in Groups(N) : out \in Woven(g)
    <3>1. out \in UNION {Woven(g) : g \in Groups(N)}
      BY <1>2 DEF Expand, Weave
    <3> HIDE DEF Woven
    <3> QED
      BY <3>1
  <2>2. PICK rest \in SetToSeqs(ToSet(g)) :
           out = OncePerKey(FlattenSeq([r \in DOMAIN s |-> Around(g, s[r])]) \o rest)
    BY <2>1
  <2>3. KeysApart(out) /\ InOrder(out, s) /\ BesideOf(out, s, g)
    BY <2>2, WeaveOrder
  <2>4. ASSUME NEW h \in ToSet(s), NEW i \in Ids, Alongside(s, h, i)
        PROVE  /\ i \in ToSet(out)
               /\ table[i].key.idx < table[h].key.idx => Ahead(out, i, h)
    <3> DEFINE n == table[i].key.idx
    <3>1. radius > 0 /\ Sequential(KeyOf(h)) /\ TurnsAt(n) = {i}
      BY <1>2, <2>4 DEF Alongside, Beside, KeyOf
    <3>2. i \in N /\ (n = KeyOf(h).idx + 1 \/ n = KeyOf(h).idx - 1)
      BY <2>4, <3>1, CandidateIs DEF KeyOf
    <3>3. n \in DOMAIN g /\ g[n] \in N /\ table[g[n]].key.idx = n
      BY <3>2 DEF Groups
    <3>4. table[g[n]].key \in Candidates(s, radius) /\ g[n] \in SelectedIds(table, Zero, Zero, clock)
      BY <3>3 DEF Neighbours
    <3>5. Sequential(table[g[n]].key)
      <4>1. g[n] \in Ids
        BY <3>4 DEF SelectedIds, Ids
      <4> QED
        BY <3>4, <4>1, CandidateIs, KeyIs
    <3>6. g[n] \in TurnsAt(n)
      BY <3>3, <3>4, <3>5 DEF TurnsAt
    <3>7. g[n] = i
      BY <3>1, <3>6
    <3> HIDE DEF n
    <3>8. g[n] \in ToSet(out) /\ (n < KeyOf(h).idx => Ahead(out, g[n], h))
      BY <2>3, <3>1, <3>2, <3>3 DEF BesideOf
    <3> QED
      BY <3>7, <3>8 DEF n, KeyOf
  <2> QED
    BY <2>3, <2>4 DEF Taken
<1> QED
  BY <1>1, <1>2

-----------------------------------------------------------------------------
(* What a store leaves in the table, and where.                             *)

\* The row without its vector.
Version(r) ==
    [key |-> r.key, line |-> r.line, tags |-> r.tags, ttl |-> r.ttl,
     updated |-> r.updated, vf |-> r.vf, vt |-> r.vt, tf |-> r.tf, tt |-> r.tt,
     deleted |-> r.deleted]

\* What a row cut from another keeps and what it gets.
CutOf(c, p, x, y, now) ==
    /\ c.key = p.key /\ c.vf = Sec(x) /\ c.vt = Sec(y)
    /\ c.tf = Sec(now) /\ c.tt = Zero /\ c.deleted = Zero

\* What Copy and Close do to the columns of a row.
LEMMA RowPieces ==
    ASSUME NEW K, NEW T, NEW p \in RowType(K, T), NEW x \in Nat, NEW y \in Nat, NEW now \in Nat
    PROVE  /\ Version(p) \in VersionType(K, T)
           /\ WellFormed(p) => WellFormed(Version(p))
           /\ Version(p).vf = p.vf /\ Version(p).vt = p.vt
           /\ CutOf(Copy(p, x, y, now), p, x, y, now)
           /\ CutOf(Copy(Version(p), x, y, now), p, x, y, now)
           /\ p.vf \in Nat /\ p.vt \in Nat /\ p.tf \in Nat /\ p.tt \in Nat /\ p.deleted \in Nat
           /\ Close(p, now).key = p.key /\ Close(p, now).vf = p.vf /\ Close(p, now).vt = p.vt
           /\ Close(p, now).tf = p.tf /\ Close(p, now).tt = Sec(now)
           /\ Close(p, now).deleted = p.deleted
<1>1. Version(p) \in VersionType(K, T)
  BY DEF Version, VersionType, RowType
<1>2. WellFormed(p) => WellFormed(Version(p))
  BY DEF Version, WellFormed
<1>3. Version(p).vf = p.vf /\ Version(p).vt = p.vt
  BY DEF Version
<1>4. CutOf(Copy(p, x, y, now), p, x, y, now)
  BY DEF Copy, RowType, CutOf
<1>5. CutOf(Copy(Version(p), x, y, now), p, x, y, now)
  BY DEF Copy, Version, CutOf
<1>6. p.vf \in Nat /\ p.vt \in Nat /\ p.tf \in Nat /\ p.tt \in Nat /\ p.deleted \in Nat
  BY DEF RowType, Ticks
<1>7. /\ Close(p, now).key = p.key /\ Close(p, now).vf = p.vf /\ Close(p, now).vt = p.vt
      /\ Close(p, now).tf = p.tf /\ Close(p, now).tt = Sec(now)
      /\ Close(p, now).deleted = p.deleted
  BY DEF Close, RowType
<1> QED
  BY <1>1, <1>2, <1>3, <1>4, <1>5, <1>6, <1>7

\* Two rows that hold from and to the same moments hold at the same moments.
LEMMA CoversSame ==
    ASSUME NEW v, NEW w, v.vf = w.vf, v.vt = w.vt, NEW m
    PROVE  Covers(v, m) <=> Covers(w, m)
  BY DEF Covers

\* What Before and After leave of a row says what the row said there.
LEMMA RowCut ==
    ASSUME NEW K, NEW T, NEW p \in RowType(K, T), WellFormed(p), NEW f \in Call(K, T),
           NEW m \in Moment
    PROVE  /\ Overlaps(p.vf, p.vt, ValidFrom(f), f.vt) =>
                 /\ Covers(Copy(p, p.vf, ValidFrom(f), f.updated), m)
                       => Covers(p, m) /\ m < Sec(ValidFrom(f))
                 /\ f.vt # Zero /\ Covers(Copy(p, f.vt, p.vt, f.updated), m)
                       => Covers(p, m) /\ Sec(f.vt) <= m
           /\ ~Overlaps(p.vf, p.vt, ValidFrom(f), f.vt) /\ Covers(p, m) => ~Inside(f, m)
<1> DEFINE v == Version(p)
           from == ValidFrom(f)
<1>1. from \in Nat /\ f.vt \in Nat /\ f.updated \in Nat
  BY CallFrom
<1>2. /\ v \in VersionType(K, T) /\ WellFormed(v) /\ v.vf = p.vf /\ v.vt = p.vt
      /\ p.vf \in Nat /\ p.vt \in Nat
  BY RowPieces, <1>1
<1> HIDE DEF v, from
<1>3. Covers(v, m) <=> Covers(p, m)
  BY <1>2, CoversSame
<1>4. Covers(Copy(p, p.vf, from, f.updated), m) <=> Covers(Copy(v, p.vf, from, f.updated), m)
  <2>1. /\ CutOf(Copy(p, p.vf, from, f.updated), p, p.vf, from, f.updated)
        /\ CutOf(Copy(v, p.vf, from, f.updated), p, p.vf, from, f.updated)
    BY <1>1, <1>2, RowPieces DEF v
  <2> QED
    BY <2>1, CoversSame DEF CutOf
<1>5. Covers(Copy(p, f.vt, p.vt, f.updated), m) <=> Covers(Copy(v, f.vt, p.vt, f.updated), m)
  <2>1. /\ CutOf(Copy(p, f.vt, p.vt, f.updated), p, f.vt, p.vt, f.updated)
        /\ CutOf(Copy(v, f.vt, p.vt, f.updated), p, f.vt, p.vt, f.updated)
    BY <1>1, <1>2, RowPieces DEF v
  <2> QED
    BY <2>1, CoversSame DEF CutOf
<1>6. CASE Overlaps(p.vf, p.vt, from, f.vt)
  <2>1. Covers(Copy(v, v.vf, from, f.updated), m) <=> Covers(v, m) /\ m < Sec(from)
    BY <1>2, <1>6, BeforePiece DEF from
  <2>2. f.vt # Zero => (Covers(Copy(v, f.vt, v.vt, f.updated), m) <=> Covers(v, m) /\ Sec(f.vt) <= m)
    BY <1>2, <1>6, AfterPiece DEF from
  <2> QED
    BY <1>2, <1>3, <1>4, <1>5, <1>6, <2>1, <2>2 DEF from
<1>7. CASE ~Overlaps(p.vf, p.vt, from, f.vt)
  <2>1. Covers(v, m) => ~Inside(f, m)
    BY <1>2, <1>7, Apart DEF from
  <2> QED
    BY <1>3, <1>7, <2>1 DEF from
<1> QED
  BY <1>6, <1>7

\* Where Put leaves the rows: those there were in their places, each as it was or
\* closed, then the pieces, each once, then the new row.
PutPlaces(R, t, f) ==
    /\ Len(t) \in Nat /\ DOMAIN t = 1..Len(t)
    /\ Len(R) \in Nat /\ DOMAIN R = 1..Len(R) /\ Len(R) > Len(t)
    /\ \A i \in 1..Len(t) :
          R[i] = IF t[i] \in Cut(ToSet(t), f) THEN Close(t[i], f.updated) ELSE t[i]
    /\ \A i \in 1..Len(R) : i > Len(t) /\ i # Len(R) =>
          R[i] \in Before(ToSet(t), f) \cup After(ToSet(t), f)
    /\ \A i, j \in 1..Len(R) : i > Len(t) /\ i # Len(R) /\ j > Len(t) /\ j # Len(R) /\ R[i] = R[j]
          => i = j
    /\ \E c : R[Len(R)] = NewRow(f, c)

\* PutRow puts them there.
LEMMA PutRowPlaces ==
    ASSUME NEW S, NEW t \in Seq(S), NEW f, NEW c
    PROVE  PutPlaces(PutRow(t, f, c), t, f)
<1> DEFINE rows == ToSet(t)
           pieces == Before(rows, f) \cup After(rows, f)
           a == [i \in DOMAIN t |-> IF t[i] \in Cut(rows, f) THEN Close(t[i], f.updated) ELSE t[i]]
           b == SetToSeq(pieces)
           x == NewRow(f, c)
           R == PutRow(t, f, c)
           U == {a[i] : i \in DOMAIN t} \cup pieces \cup {x}
           n == Len(t)
<1>1. n \in Nat /\ DOMAIN t = 1..n
  OBVIOUS
<1>2. IsFiniteSet(pieces)
  <2>1. IsFiniteSet(DOMAIN t)
    <3> HIDE DEF n
    <3> QED
      BY <1>1, FS_Interval
  <2>2. IsFiniteSet(rows)
    <3>1. rows = {t[i] : i \in DOMAIN t}
      BY DEF ToSet
    <3> HIDE DEF rows
    <3> QED
      BY <2>1, <3>1, FiniteImage
  <2> QED
    BY <2>2, PiecesFinite
<1>3. b \in Seq(pieces) /\ Distinct(b)
  <2> HIDE DEF pieces
  <2> QED
    BY <1>2, SeqOfSetIs
<1>4. DOMAIN a = 1..n /\ a = [i \in 1..n |-> a[i]]
  BY <1>1
<1>5. \A i \in 1..n : a[i] = IF t[i] \in Cut(rows, f) THEN Close(t[i], f.updated) ELSE t[i]
  BY <1>1
<1>6. R = (a \o b) \o << x >>
  BY DEF PutRow
<1>7. pieces \subseteq U /\ x \in U /\ \A i \in 1..n : a[i] \in U
  BY <1>1
<1> HIDE DEF a, b, x, R, U, pieces
<1>8. a \in Seq(U) /\ Len(a) = n
  <2>1. a \in [1..n -> U]
    BY <1>4, <1>7
  <2> HIDE DEF n
  <2> QED
    BY <1>1, <2>1
<1>9. b \in Seq(U) /\ << x >> \in Seq(U)
  <2>1. b \in Seq(U)
    BY <1>3, <1>7, Wider
  <2> QED
    BY <1>7, <2>1
<1> DEFINE ab == a \o b
<1>10. /\ ab \in Seq(U) /\ Len(ab) = n + Len(b) /\ Len(b) \in Nat
       /\ \A i \in 1..n : ab[i] = a[i]
       /\ \A i \in 1..Len(b) : ab[n + i] = b[i]
  <2>1. /\ Len(a \o b) = Len(a) + Len(b) /\ Len(a) \in Nat /\ Len(b) \in Nat
        /\ \A i \in 1..Len(a) : (a \o b)[i] = a[i]
        /\ \A i \in 1..Len(b) : (a \o b)[Len(a) + i] = b[i]
        /\ a \o b \in Seq(U)
    BY ONLY <1>8, <1>9, Concatenated
  <2> QED
    BY <1>8, <2>1
<1> HIDE DEF ab
<1>11. /\ R \in Seq(U) /\ Len(R) = Len(ab) + 1
       /\ \A i \in 1..Len(ab) : R[i] = ab[i]
       /\ R[Len(ab) + 1] = x
  <2>1. /\ Append(ab, x) \in Seq(U) /\ Len(Append(ab, x)) = Len(ab) + 1
        /\ \A i \in 1..Len(ab) : Append(ab, x)[i] = ab[i]
        /\ Append(ab, x)[Len(ab) + 1] = x
    BY <1>7, <1>10, AppendProperties
  <2>2. ab \o << x >> = Append(ab, x)
    BY <1>10, AppendIsConcat, <1>7
  <2> QED
    BY <1>6, <2>1, <2>2 DEF ab
<1> HIDE DEF n, rows
<1>12. Len(R) = n + Len(b) + 1 /\ Len(R) \in Nat /\ DOMAIN R = 1..Len(R) /\ Len(R) > n
  BY <1>1, <1>10, <1>11
<1>13. \A i \in 1..n : R[i] = a[i]
  <2>1. \A i \in 1..n : i \in 1..Len(ab)
    BY <1>1, <1>10
  <2> QED
    BY <1>10, <1>11, <2>1
<1>14. ASSUME NEW i \in 1..Len(R), i > n, i # Len(R)
       PROVE  i - n \in 1..Len(b) /\ R[i] = b[i - n]
  <2>1. i - n \in 1..Len(b) /\ n + (i - n) = i /\ i \in 1..Len(ab)
    BY <1>1, <1>10, <1>12, <1>14
  <2>2. ab[n + (i - n)] = b[i - n]
    BY <1>10, <2>1
  <2>3. R[i] = ab[i]
    BY <1>11, <2>1
  <2> QED
    BY <2>1, <2>2, <2>3
<1>15. ASSUME NEW i \in 1..Len(R), i > n, i # Len(R)
       PROVE  R[i] \in pieces
  BY <1>3, <1>14, <1>15, Inhabited
<1>16. ASSUME NEW i \in 1..Len(R), NEW j \in 1..Len(R), i > n, i # Len(R), j > n, j # Len(R),
              R[i] = R[j]
       PROVE  i = j
  <2>1. i - n \in 1..Len(b) /\ j - n \in 1..Len(b) /\ b[i - n] = b[j - n]
    BY <1>14, <1>16
  <2>2. DOMAIN b = 1..Len(b)
    BY <1>3
  <2>3. i - n = j - n
    BY <1>3, <2>1, <2>2 DEF Distinct
  <2> QED
    BY <1>1, <2>3
<1>17. R[Len(R)] = x
  BY <1>11
<1> QED
  BY <1>1, <1>5, <1>12, <1>13, <1>15, <1>16, <1>17 DEF PutPlaces, n, rows, x, R, pieces

-----------------------------------------------------------------------------
(* One row of a key at a moment.                                            *)

\* No row is stamped after the second s.
RowsGood(t, s) == \A i \in DOMAIN t : WellFormed(t[i]) /\ Stamped(t[i], s)

\* Of the rows of one key, one at most is believed about the moment m, ...
OneNow(t, m) ==
    \A i, j \in DOMAIN t :
        /\ t[i].key = t[j].key
        /\ Believed(t[i]) /\ Covers(t[i], m)
        /\ Believed(t[j]) /\ Covers(t[j], m)
        => i = j

\* ... and one at most was as of u.
OneThen(t, u, m) ==
    \A i, j \in DOMAIN t :
        /\ t[i].key = t[j].key
        /\ BelievedAt(t[i], u) /\ Covers(t[i], m)
        /\ BelievedAt(t[j], u) /\ Covers(t[j], m)
        => i = j

OneOfKey(t) == \A m \in Moment : OneNow(t, m) /\ \A u \in Nat : OneThen(t, u, m)

\* No row of t ends before it begins (Straight, of any table).
StraightRows(t) == \A i \in DOMAIN t : t[i].vt # Zero => t[i].vf <= t[i].vt

OneIfStraight(t) == StraightRows(t) => OneOfKey(t)

\* The rows of R are those of t, none believed that was not.
Fades(t, R) ==
    /\ DOMAIN R = DOMAIN t
    /\ \A i \in DOMAIN t :
          /\ R[i].key = t[i].key /\ R[i].vf = t[i].vf /\ R[i].vt = t[i].vt
          /\ Believed(R[i]) => Believed(t[i])
          /\ \A u \in Nat : BelievedAt(R[i], u) => BelievedAt(t[i], u)

\* Believing less adds no second row.
LEMMA OneFades ==
    ASSUME NEW t, NEW R, OneIfStraight(t), Fades(t, R)
    PROVE  OneIfStraight(R)
<1> SUFFICES ASSUME StraightRows(R), NEW m \in Moment
             PROVE  OneNow(R, m) /\ \A u \in Nat : OneThen(R, u, m)
  BY DEF OneOfKey, OneIfStraight
<1>0. OneOfKey(t)
  <2>1. StraightRows(t)
    BY DEF StraightRows, Fades
  <2> QED
    BY <2>1 DEF OneIfStraight
<1>1. \A i \in DOMAIN t : Covers(R[i], m) => Covers(t[i], m)
  <2> SUFFICES ASSUME NEW i \in DOMAIN t
               PROVE  Covers(R[i], m) => Covers(t[i], m)
    OBVIOUS
  <2> QED
    BY CoversSame DEF Fades
<1>2. OneNow(t, m) /\ \A u \in Nat : OneThen(t, u, m)
  BY <1>0 DEF OneOfKey
<1>3. OneNow(R, m)
  BY <1>1, <1>2 DEF OneNow, Fades
<1>4. ASSUME NEW u \in Nat
      PROVE  OneThen(R, u, m)
  BY <1>1, <1>2 DEF OneThen, Fades
<1> QED
  BY <1>3, <1>4

\* Once the last stamp has passed, what was believed is what is.
LEMMA ThenIsNow ==
    ASSUME NEW K, NEW T, NEW r \in RowType(K, T), WellFormed(r),
           NEW s \in Nat, Stamped(r, s), NEW u \in Nat, s <= u, BelievedAt(r, u)
    PROVE  Believed(r)
<1>1. r.tt \in Nat
  BY DEF RowType, Ticks
<1> QED
  BY <1>1 DEF WellFormed, Stamped, BelievedAt, Believed

\* The validity of a store does not end before it begins.
Ordered(f) == f.vt = Zero \/ Sec(ValidFrom(f)) <= Sec(f.vt)

\* The pieces of rows say what the rows said, before the new validity or after.
EarlyPiece(t, f, r, j) ==
    /\ j \in DOMAIN t /\ t[j] \in Cut(ToSet(t), f)
    /\ r = Copy(t[j], t[j].vf, ValidFrom(f), f.updated)

LatePiece(t, f, r, j) ==
    /\ j \in DOMAIN t /\ t[j] \in Cut(ToSet(t), f) /\ f.vt # Zero
    /\ r = Copy(t[j], f.vt, t[j].vt, f.updated)

LEMMA PieceOf ==
    ASSUME NEW S, NEW t \in Seq(S), NEW f,
           NEW r \in Before(ToSet(t), f) \cup After(ToSet(t), f)
    PROVE  \E j : EarlyPiece(t, f, r, j) \/ LatePiece(t, f, r, j)
<1> DEFINE C == Cut(ToSet(t), f)
<1>0. \A p \in C : \E j \in DOMAIN t : p = t[j]
  BY DEF Cut, ToSet
<1>1. CASE r \in Before(ToSet(t), f)
  <2>1. \E p \in C : r = Copy(p, p.vf, ValidFrom(f), f.updated)
    BY <1>1 DEF Before
  <2>2. PICK p \in C : r = Copy(p, p.vf, ValidFrom(f), f.updated)
    BY <2>1
  <2>3. PICK j \in DOMAIN t : p = t[j]
    BY <1>0, <2>2
  <2>4. EarlyPiece(t, f, r, j)
    BY <2>2, <2>3 DEF EarlyPiece
  <2> QED
    BY <2>4
<1>2. CASE r \in After(ToSet(t), f)
  <2>1. \E p \in C : f.vt # Zero /\ r = Copy(p, f.vt, p.vt, f.updated)
    BY <1>2 DEF After
  <2>2. PICK p \in C : f.vt # Zero /\ r = Copy(p, f.vt, p.vt, f.updated)
    BY <2>1
  <2>3. PICK j \in DOMAIN t : p = t[j]
    BY <1>0, <2>2
  <2>4. LatePiece(t, f, r, j)
    BY <2>2, <2>3 DEF LatePiece
  <2> QED
    BY <2>4
<1> QED
  BY <1>1, <1>2

\* Where a row believed about m after a store comes from.
KeptAt(t, f, R, i, m) ==
    /\ i \in DOMAIN t /\ R[i] = t[i] /\ t[i] \notin Cut(ToSet(t), f)
    /\ Believed(t[i]) /\ Covers(t[i], m)
    /\ t[i].key = f.key => ~Inside(f, m)

SourceAt(t, f, j, m) ==
    /\ j \in DOMAIN t /\ t[j] \in Cut(ToSet(t), f)
    /\ Believed(t[j]) /\ Covers(t[j], m) /\ t[j].key = f.key

PieceAt(t, f, R, i, m) ==
    /\ i \in DOMAIN R /\ i > Len(t) /\ i # Len(R) /\ R[i].key = f.key /\ ~Inside(f, m)
    /\ \E j : /\ SourceAt(t, f, j, m)
              /\ \/ EarlyPiece(t, f, R[i], j) /\ m < Sec(ValidFrom(f))
                 \/ LatePiece(t, f, R[i], j) /\ Sec(f.vt) <= m

NewAt(f, R, i, m) == i = Len(R) /\ R[i].key = f.key /\ Inside(f, m)

\* It is an old row, a piece of one or the new row.
LEMMA RowOrigin ==
    ASSUME NEW K, NEW T, NEW t \in Seq(RowType(K, T)), NEW f \in Call(K, T), Ordered(f),
           \A i \in DOMAIN t : WellFormed(t[i]),
           NEW R, PutPlaces(R, t, f), NEW m \in Moment,
           NEW i \in DOMAIN R, Believed(R[i]), Covers(R[i], m)
    PROVE  KeptAt(t, f, R, i, m) \/ PieceAt(t, f, R, i, m) \/ NewAt(f, R, i, m)
<1> DEFINE C == Cut(ToSet(t), f)
           from == ValidFrom(f)
<1>1. /\ from \in Nat /\ f.vt \in Nat /\ f.updated \in Nat /\ Sec(from) \in Nat \ {Zero}
      /\ Sec(f.vt) \in Nat /\ Sec(f.updated) \in Nat \ {Zero} /\ m \in Nat
      /\ f.vt # Zero => Sec(f.vt) # Zero
  BY CallFrom DEF Moment
<1>2. /\ Len(t) \in Nat /\ DOMAIN t = 1..Len(t)
      /\ Len(R) \in Nat /\ DOMAIN R = 1..Len(R) /\ Len(R) > Len(t)
  BY DEF PutPlaces
<1>3. \A j \in DOMAIN t : t[j] \in RowType(K, T)
  OBVIOUS
<1>4. \A j \in DOMAIN t : t[j] \in C => /\ t[j].key = f.key /\ Believed(t[j])
                                        /\ Overlaps(t[j].vf, t[j].vt, from, f.vt)
  BY DEF Cut
<1>5. \A j \in DOMAIN t : t[j] \in ToSet(t)
  BY DEF ToSet
<1> HIDE DEF C, from
<1>6. CASE i \in DOMAIN t
  <2>1. R[i] = IF t[i] \in C THEN Close(t[i], f.updated) ELSE t[i]
    BY <1>2, <1>6 DEF PutPlaces, C
  <2>2. t[i] \notin C
    <3> SUFFICES ASSUME t[i] \in C PROVE FALSE
      OBVIOUS
    <3>1. R[i].tt = Sec(f.updated)
      BY <1>1, <1>3, <1>6, <2>1, RowPieces
    <3> QED
      BY <1>1, <3>1 DEF Believed, Zero
  <2>3. R[i] = t[i]
    BY <2>1, <2>2
  <2>4. t[i].key = f.key => ~Inside(f, m)
    <3> SUFFICES ASSUME t[i].key = f.key PROVE ~Inside(f, m)
      OBVIOUS
    <3>1. ~Overlaps(t[i].vf, t[i].vt, from, f.vt)
      BY <1>5, <1>6, <2>2, <2>3 DEF Cut, C, from
    <3>2. t[i] \in RowType(K, T) /\ WellFormed(t[i]) /\ Covers(t[i], m)
      BY <1>3, <1>6, <2>3
    <3> QED
      BY <3>1, <3>2, RowCut DEF from
  <2> QED
    BY <1>6, <2>2, <2>3, <2>4 DEF KeptAt, C
<1>7. CASE i \notin DOMAIN t /\ i # Len(R)
  <2>1. i > Len(t)
    BY <1>2, <1>7
  <2>2. R[i] \in Before(ToSet(t), f) \cup After(ToSet(t), f)
    BY <1>2, <1>7, <2>1 DEF PutPlaces
  <2>3. \E j : EarlyPiece(t, f, R[i], j) \/ LatePiece(t, f, R[i], j)
    BY <2>2, PieceOf
  <2>4. PICK j : EarlyPiece(t, f, R[i], j) \/ LatePiece(t, f, R[i], j)
    BY <2>3
  <2>5. j \in DOMAIN t /\ t[j] \in C
    BY <2>4 DEF EarlyPiece, LatePiece, C
  <2>6. /\ t[j] \in RowType(K, T) /\ WellFormed(t[j]) /\ t[j].key = f.key /\ Believed(t[j])
        /\ Overlaps(t[j].vf, t[j].vt, from, f.vt)
    BY <1>3, <1>4, <2>5
  <2>7. t[j].vf \in Nat /\ t[j].vt \in Nat
    BY <1>1, <2>6, RowPieces
  <2>8. CASE EarlyPiece(t, f, R[i], j)
    <3>1. R[i] = Copy(t[j], t[j].vf, from, f.updated)
      BY <2>8 DEF EarlyPiece, from
    <3>2. Covers(t[j], m) /\ m < Sec(from)
      BY <2>6, <3>1, RowCut DEF from
    <3>3. R[i].key = f.key
      <4>1. CutOf(Copy(t[j], t[j].vf, from, f.updated), t[j], t[j].vf, from, f.updated)
        BY <1>1, <2>6, <2>7, RowPieces
      <4> QED
        BY <2>6, <3>1, <4>1 DEF CutOf
    <3>4. ~Inside(f, m)
      BY <1>1, <3>2 DEF Inside, from
    <3> QED
      BY <1>7, <2>1, <2>5, <2>6, <2>8, <3>2, <3>3, <3>4 DEF PieceAt, SourceAt, C, from
  <2>9. CASE LatePiece(t, f, R[i], j)
    <3>1. f.vt # Zero /\ R[i] = Copy(t[j], f.vt, t[j].vt, f.updated)
      BY <2>9 DEF LatePiece
    <3>2. Covers(t[j], m) /\ Sec(f.vt) <= m
      BY <2>6, <3>1, RowCut DEF from
    <3>3. R[i].key = f.key
      <4>1. CutOf(Copy(t[j], f.vt, t[j].vt, f.updated), t[j], f.vt, t[j].vt, f.updated)
        BY <1>1, <2>6, <2>7, RowPieces
      <4> QED
        BY <2>6, <3>1, <4>1 DEF CutOf
    <3>4. ~Inside(f, m)
      BY <1>1, <3>1, <3>2 DEF Inside
    <3> QED
      BY <1>7, <2>1, <2>5, <2>6, <2>9, <3>2, <3>3, <3>4 DEF PieceAt, SourceAt, C, from
  <2> QED
    BY <2>4, <2>8, <2>9
<1>8. CASE i = Len(R)
  <2>1. PICK c : R[i] = NewRow(f, c)
    BY <1>8 DEF PutPlaces
  <2>2. /\ R[i].key = f.key /\ R[i].vf = Sec(from) /\ R[i].vt = Sec(f.vt)
    BY <2>1 DEF NewRow, NewVersion, from
  <2>3. Inside(f, m)
    BY <1>1, <2>2 DEF Covers, Inside, from, Zero
  <2> QED
    BY <1>8, <2>2, <2>3 DEF NewAt
<1> QED
  BY <1>6, <1>7, <1>8

\* No two of these are of one key.
LEMMA PutRowNow ==
    ASSUME NEW K, NEW T, NEW t \in Seq(RowType(K, T)), NEW f \in Call(K, T), Ordered(f),
           \A i \in DOMAIN t : WellFormed(t[i]),
           NEW R, PutPlaces(R, t, f), NEW m \in Moment, OneNow(t, m)
    PROVE  OneNow(R, m)
<1> SUFFICES ASSUME NEW i \in DOMAIN R, NEW j \in DOMAIN R, R[i].key = R[j].key,
                    Believed(R[i]), Covers(R[i], m), Believed(R[j]), Covers(R[j], m)
             PROVE  i = j
  BY DEF OneNow
<1>1. KeptAt(t, f, R, i, m) \/ PieceAt(t, f, R, i, m) \/ NewAt(f, R, i, m)
  BY RowOrigin
<1>2. KeptAt(t, f, R, j, m) \/ PieceAt(t, f, R, j, m) \/ NewAt(f, R, j, m)
  BY RowOrigin
<1>3. CASE NewAt(f, R, i, m) \/ NewAt(f, R, j, m)
  BY <1>1, <1>2, <1>3 DEF NewAt, KeptAt, PieceAt
<1>4. CASE KeptAt(t, f, R, i, m) /\ KeptAt(t, f, R, j, m)
  BY <1>4 DEF KeptAt, OneNow
<1>5. ASSUME NEW a \in DOMAIN R, NEW b \in DOMAIN R, R[a].key = R[b].key,
             KeptAt(t, f, R, a, m), PieceAt(t, f, R, b, m)
      PROVE  FALSE
  <2>1. \E c : SourceAt(t, f, c, m)
    BY <1>5 DEF PieceAt
  <2>2. PICK c : SourceAt(t, f, c, m)
    BY <2>1
  <2>3. a = c
    BY <1>5, <2>2 DEF KeptAt, SourceAt, PieceAt, OneNow
  <2> QED
    BY <1>5, <2>2, <2>3 DEF KeptAt, SourceAt
<1>6. CASE PieceAt(t, f, R, i, m) /\ PieceAt(t, f, R, j, m)
  <2> DEFINE Early(a, c) == EarlyPiece(t, f, R[a], c) /\ m < Sec(ValidFrom(f))
             Late(a, c) == LatePiece(t, f, R[a], c) /\ Sec(f.vt) <= m
  <2>1. \E c : SourceAt(t, f, c, m) /\ (Early(i, c) \/ Late(i, c))
    BY <1>6 DEF PieceAt
  <2>2. PICK c : SourceAt(t, f, c, m) /\ (Early(i, c) \/ Late(i, c))
    BY <2>1
  <2>3. \E d : SourceAt(t, f, d, m) /\ (Early(j, d) \/ Late(j, d))
    BY <1>6 DEF PieceAt
  <2>4. PICK d : SourceAt(t, f, d, m) /\ (Early(j, d) \/ Late(j, d))
    BY <2>3
  <2>5. c = d
    BY <2>2, <2>4 DEF SourceAt, OneNow
  <2>6. ~(Early(i, c) /\ Late(j, d)) /\ ~(Late(i, c) /\ Early(j, d))
    <3>1. Sec(ValidFrom(f)) \in Nat /\ Sec(f.vt) \in Nat /\ m \in Nat
      BY CallFrom DEF Moment
    <3>2. f.vt # Zero => ~(m < Sec(ValidFrom(f)) /\ Sec(f.vt) <= m)
      BY <3>1 DEF Ordered
    <3> QED
      BY <3>2 DEF LatePiece
  <2>7. R[i] = R[j]
    BY <2>2, <2>4, <2>5, <2>6 DEF EarlyPiece, LatePiece
  <2>8. i \in 1..Len(R) /\ i > Len(t) /\ i # Len(R) /\ j \in 1..Len(R) /\ j > Len(t) /\ j # Len(R)
    BY <1>6 DEF PieceAt, PutPlaces
  <2> QED
    BY <2>7, <2>8 DEF PutPlaces
<1> QED
  BY <1>1, <1>2, <1>3, <1>4, <1>5, <1>6

\* What a store writes itself is stamped with the moment of the call.
Fresh(r, f) ==
    /\ WellFormed(r) /\ r.tf = Sec(f.updated) /\ r.tt = Zero

LEMMA FreshRows ==
    ASSUME NEW K, NEW T, NEW t \in Seq(RowType(K, T)), NEW f \in Call(K, T),
           NEW R, PutPlaces(R, t, f), NEW i \in DOMAIN R, i \notin DOMAIN t
    PROVE  Fresh(R[i], f)
<1> DEFINE from == ValidFrom(f)
<1>1. /\ from \in Nat /\ f.vt \in Nat /\ f.updated \in Nat /\ Sec(f.updated) \in Nat \ {Zero}
      /\ Sec(Sec(from)) = Sec(from) /\ Sec(Sec(f.vt)) = Sec(f.vt)
  BY CallFrom, SecIdempotent
<1> HIDE DEF from
<1>2. /\ Len(t) \in Nat /\ DOMAIN t = 1..Len(t)
      /\ Len(R) \in Nat /\ DOMAIN R = 1..Len(R) /\ i > Len(t)
  <2>1. /\ Len(t) \in Nat /\ DOMAIN t = 1..Len(t)
        /\ Len(R) \in Nat /\ DOMAIN R = 1..Len(R)
    BY DEF PutPlaces
  <2>2. i \in 1..Len(R) /\ i \notin 1..Len(t)
    BY <2>1
  <2>3. i > Len(t)
    BY ONLY <2>1, <2>2
  <2> QED
    BY <2>1, <2>3
<1>3. CASE i = Len(R)
  <2>1. PICK c : R[i] = NewRow(f, c)
    BY <1>3 DEF PutPlaces
  <2>2. /\ R[i].vf = Sec(from) /\ R[i].vt = Sec(f.vt) /\ R[i].tf = Sec(f.updated)
        /\ R[i].tt = Zero /\ R[i].deleted = Zero
    BY <2>1 DEF NewRow, NewVersion, from
  <2> QED
    BY <1>1, <2>2 DEF Fresh, WellFormed
<1>4. ASSUME NEW p \in RowType(K, T), NEW x \in Nat, NEW y \in Nat,
             R[i] = Copy(p, x, y, f.updated)
      PROVE  Fresh(R[i], f)
  <2>1. CutOf(Copy(p, x, y, f.updated), p, x, y, f.updated)
    BY <1>1, RowPieces
  <2>2. CutOf(R[i], p, x, y, f.updated)
    BY <1>4, <2>1
  <2>3. Sec(Sec(x)) = Sec(x) /\ Sec(Sec(y)) = Sec(y)
    BY SecIdempotent
  <2> QED
    BY <1>1, <2>2, <2>3 DEF CutOf, Fresh, WellFormed
<1>5. CASE i # Len(R)
  <2>1. R[i] \in Before(ToSet(t), f) \cup After(ToSet(t), f)
    BY <1>2, <1>5 DEF PutPlaces
  <2>2. \E j : EarlyPiece(t, f, R[i], j) \/ LatePiece(t, f, R[i], j)
    BY <2>1, PieceOf
  <2>3. PICK j : EarlyPiece(t, f, R[i], j) \/ LatePiece(t, f, R[i], j)
    BY <2>2
  <2>4. t[j] \in RowType(K, T)
    BY <2>3 DEF EarlyPiece, LatePiece
  <2>5. t[j].vf \in Nat /\ t[j].vt \in Nat
    BY <1>1, <2>4, RowPieces
  <2>6. CASE EarlyPiece(t, f, R[i], j)
    BY <1>1, <1>4, <2>4, <2>5, <2>6 DEF EarlyPiece, from
  <2>7. CASE LatePiece(t, f, R[i], j)
    BY <1>1, <1>4, <2>4, <2>5, <2>7 DEF LatePiece
  <2> QED
    BY <2>3, <2>6, <2>7
<1> QED
  BY <1>3, <1>5

\* A row that was there is as it was, or closed at the moment of the call.
OldRow(r, p, f) ==
    r = p \/ (/\ r.key = p.key /\ r.vf = p.vf /\ r.vt = p.vt /\ r.tf = p.tf
              /\ r.tt = Sec(f.updated) /\ p.tt = Zero)

LEMMA OldRows ==
    ASSUME NEW K, NEW T, NEW t \in Seq(RowType(K, T)), NEW f \in Call(K, T),
           NEW R, PutPlaces(R, t, f), NEW i \in DOMAIN t
    PROVE  i \in DOMAIN R /\ OldRow(R[i], t[i], f)
<1>1. i \in 1..Len(t) /\ i \in DOMAIN R
  <2>1. /\ Len(t) \in Nat /\ DOMAIN t = 1..Len(t)
        /\ Len(R) \in Nat /\ DOMAIN R = 1..Len(R) /\ Len(R) > Len(t)
    BY DEF PutPlaces
  <2>2. i \in 1..Len(t)
    BY <2>1
  <2>3. i \in 1..Len(R)
    BY ONLY <2>1, <2>2
  <2> QED
    BY <2>1, <2>2, <2>3
<1>2. R[i] = IF t[i] \in Cut(ToSet(t), f) THEN Close(t[i], f.updated) ELSE t[i]
  BY <1>1 DEF PutPlaces
<1>3. f.updated \in Nat /\ t[i] \in RowType(K, T)
  BY CallFrom
<1>4. CASE t[i] \in Cut(ToSet(t), f)
  <2>1. R[i] = Close(t[i], f.updated) /\ t[i].tt = Zero
    BY <1>2, <1>4 DEF Cut, Believed
  <2>2. LET c == Close(t[i], f.updated)
        IN  /\ c.key = t[i].key /\ c.vf = t[i].vf /\ c.vt = t[i].vt
            /\ c.tf = t[i].tf /\ c.tt = Sec(f.updated)
    BY <1>3, RowPieces
  <2> QED
    BY <1>1, <2>1, <2>2 DEF OldRow
<1> QED
  BY <1>1, <1>2, <1>4 DEF OldRow

\* No row is malformed, none stamped later than the call.
LEMMA PutRowGood ==
    ASSUME NEW K, NEW T, NEW t \in Seq(RowType(K, T)), NEW f \in Call(K, T),
           RowsGood(t, Sec(f.updated)), NEW R, PutPlaces(R, t, f)
    PROVE  RowsGood(R, Sec(f.updated))
<1>1. f.updated \in Nat /\ Sec(f.updated) \in Nat \ {Zero}
  BY CallFrom
<1> SUFFICES ASSUME NEW i \in DOMAIN R
             PROVE  WellFormed(R[i]) /\ Stamped(R[i], Sec(f.updated))
  BY DEF RowsGood
<1>2. CASE i \in DOMAIN t
  <2>1. OldRow(R[i], t[i], f)
    BY <1>2, OldRows
  <2>2. WellFormed(t[i]) /\ Stamped(t[i], Sec(f.updated))
    BY <1>2 DEF RowsGood
  <2> QED
    BY <1>1, <2>1, <2>2 DEF OldRow, WellFormed, Stamped
<1>3. CASE i \notin DOMAIN t
  <2>1. Fresh(R[i], f)
    BY <1>3, FreshRows
  <2> QED
    BY <1>1, <2>1 DEF Fresh, Stamped, Zero
<1> QED
  BY <1>2, <1>3

\* A store that leaves no inverted row leaves one row of a key, at every moment and
\* as of every moment.
LEMMA PutRowOne ==
    ASSUME NEW K, NEW T, NEW t \in Seq(RowType(K, T)), NEW f \in Call(K, T),
           RowsGood(t, Sec(f.updated)), OneIfStraight(t),
           NEW R \in Seq(RowType(K, T)), PutPlaces(R, t, f)
    PROVE  RowsGood(R, Sec(f.updated)) /\ OneIfStraight(R)
<1> DEFINE s == Sec(f.updated)
<1>1. f.updated \in Nat /\ s \in Nat \ {Zero}
  BY CallFrom
<1>2. RowsGood(R, s)
  BY PutRowGood
<1>3. \A i \in DOMAIN t : WellFormed(t[i])
  BY DEF RowsGood
<1> SUFFICES ASSUME StraightRows(R), NEW m \in Moment
             PROVE  OneNow(R, m) /\ \A u \in Nat : OneThen(R, u, m)
  BY <1>2 DEF OneOfKey, OneIfStraight
\* The old rows were straight, and the bounds of the new one are in order.
<1>7. OneOfKey(t)
  <2>1. ASSUME NEW i \in DOMAIN t
        PROVE  t[i].vt # Zero => t[i].vf <= t[i].vt
    <3>1. i \in DOMAIN R /\ R[i].vf = t[i].vf /\ R[i].vt = t[i].vt
      BY OldRows DEF OldRow
    <3> QED
      BY <3>1 DEF StraightRows
  <2> QED
    BY <2>1 DEF StraightRows, OneIfStraight
<1>8. Ordered(f)
  <2>1. PICK c : R[Len(R)] = NewRow(f, c)
    BY DEF PutPlaces
  <2>2. R[Len(R)].vf = Sec(ValidFrom(f)) /\ R[Len(R)].vt = Sec(f.vt)
    BY <2>1 DEF NewRow, NewVersion
  <2>3. Len(R) \in DOMAIN R
    <3>1. Len(t) \in Nat /\ Len(R) \in Nat /\ DOMAIN R = 1..Len(R) /\ Len(R) > Len(t)
      BY DEF PutPlaces
    <3> QED
      BY ONLY <3>1
  <2>4. f.vt # Zero => Sec(f.vt) # Zero
    BY CallFrom
  <2> QED
    BY <2>2, <2>3, <2>4 DEF StraightRows, Ordered
<1>4. OneNow(t, m) /\ \A u \in Nat : OneThen(t, u, m)
  BY <1>7 DEF OneOfKey
<1>5. OneNow(R, m)
  BY <1>3, <1>4, <1>8, PutRowNow
<1>6. ASSUME NEW u \in Nat
      PROVE  OneThen(R, u, m)
  <2> HIDE DEF s
  <2>1. CASE s <= u
    <3>1. \A i \in DOMAIN R : R[i] \in RowType(K, T) /\ WellFormed(R[i]) /\ Stamped(R[i], s)
      BY <1>2 DEF RowsGood
    <3>2. \A i \in DOMAIN R : BelievedAt(R[i], u) => Believed(R[i])
      BY <1>1, <2>1, <3>1, ThenIsNow
    <3> QED
      BY <1>5, <3>2 DEF OneNow, OneThen
  <2>2. CASE u < s
    <3>1. ASSUME NEW i \in DOMAIN R, BelievedAt(R[i], u), Covers(R[i], m)
          PROVE  /\ i \in DOMAIN t /\ R[i].key = t[i].key
                 /\ BelievedAt(t[i], u) /\ Covers(t[i], m)
      <4>1. i \in DOMAIN t
        <5> SUFFICES ASSUME i \notin DOMAIN t PROVE FALSE
          OBVIOUS
        <5>1. R[i].tf = s
          BY FreshRows DEF Fresh, s
        <5> QED
          BY <1>1, <2>2, <3>1, <5>1 DEF BelievedAt
      <4>2. OldRow(R[i], t[i], f)
        BY <4>1, OldRows
      <4>3. CASE R[i] = t[i]
        BY <3>1, <4>1, <4>3
      <4>4. CASE R[i] # t[i]
        <5>1. /\ R[i].key = t[i].key /\ R[i].vf = t[i].vf /\ R[i].vt = t[i].vt
              /\ R[i].tf = t[i].tf /\ t[i].tt = Zero
          BY <4>2, <4>4 DEF OldRow
        <5>2. BelievedAt(t[i], u)
          BY <3>1, <5>1 DEF BelievedAt
        <5>3. Covers(t[i], m)
          BY <3>1, <5>1, CoversSame
        <5> QED
          BY <4>1, <5>1, <5>2, <5>3
      <4> QED
        BY <4>3, <4>4
    <3> QED
      BY <1>4, <3>1 DEF OneThen
  <2> QED
    BY <1>1, <2>1, <2>2
<1> QED
  BY <1>5, <1>6

\* Forgetting marks rows, at the moment of the call.
LEMMA ForgetRowsOne ==
    ASSUME NEW K, NEW T, NEW t \in Seq(RowType(K, T)), NEW k, NEW at \in Nat, at >= Resolution,
           RowsGood(t, Sec(at)), OneIfStraight(t)
    PROVE  RowsGood(ForgetRows(t, k, at), Sec(at)) /\ OneIfStraight(ForgetRows(t, k, at))
<1> DEFINE R == ForgetRows(t, k, at)
           s == Sec(at)
<1>1. s \in Nat /\ s # Zero
  BY SecType, SecPositive
<1>2. DOMAIN R = DOMAIN t
  BY DEF ForgetRows
<1> HIDE DEF R, s
<1>3. ASSUME NEW i \in DOMAIN t
      PROVE  \/ R[i] = t[i]
             \/ /\ R[i].key = t[i].key /\ R[i].vf = t[i].vf /\ R[i].vt = t[i].vt
                /\ R[i].tf = t[i].tf /\ R[i].tt = s /\ R[i].deleted = s /\ Believed(t[i])
  <2>1. t[i] \in RowType(K, T)
    OBVIOUS
  <2>2. R[i] = IF t[i].key = k /\ Believed(t[i])
               THEN [t[i] EXCEPT !.deleted = s, !.tt = s] ELSE t[i]
    BY DEF R, s, ForgetRows
  <2>3. CASE t[i].key = k /\ Believed(t[i])
    <3>1. R[i] = [t[i] EXCEPT !.deleted = s, !.tt = s]
      BY <2>2, <2>3
    <3> QED
      BY <2>1, <2>3, <3>1 DEF RowType
  <2> QED
    BY <2>2, <2>3
<1>4. RowsGood(R, s)
  <2> SUFFICES ASSUME NEW i \in DOMAIN t
               PROVE  WellFormed(R[i]) /\ Stamped(R[i], s)
    BY <1>2 DEF RowsGood
  <2>1. WellFormed(t[i]) /\ Stamped(t[i], s)
    BY DEF RowsGood, s
  <2> QED
    BY <1>1, <1>3, <2>1 DEF WellFormed, Stamped
<1>5. Fades(t, R)
  <2> SUFFICES ASSUME NEW i \in DOMAIN t
               PROVE  /\ R[i].key = t[i].key /\ R[i].vf = t[i].vf /\ R[i].vt = t[i].vt
                      /\ Believed(R[i]) => Believed(t[i])
                      /\ \A u \in Nat : BelievedAt(R[i], u) => BelievedAt(t[i], u)
    BY <1>2 DEF Fades
  <2>1. CASE R[i] = t[i]
    BY <2>1
  <2>2. CASE R[i] # t[i]
    <3>1. /\ R[i].key = t[i].key /\ R[i].vf = t[i].vf /\ R[i].vt = t[i].vt
          /\ R[i].tf = t[i].tf /\ Believed(t[i])
      BY <1>3, <2>2
    <3> QED
      BY <3>1 DEF Believed, BelievedAt
  <2> QED
    BY <2>1, <2>2
<1> QED
  BY <1>4, <1>5, OneFades DEF R, s

\* A vector says nothing of when a row holds.
LEMMA EmbeddingOne ==
    ASSUME NEW K, NEW T, NEW t \in Seq(RowType(K, T)), NEW id \in DOMAIN t, NEW c, NEW s,
           RowsGood(t, s), OneIfStraight(t)
    PROVE  RowsGood(StoreEmbedding(t, id, c), s) /\ OneIfStraight(StoreEmbedding(t, id, c))
<1> DEFINE R == StoreEmbedding(t, id, c)
           row == [t[id] EXCEPT !.emb = c]
<1>1. R = [t EXCEPT ![id] = row]
  BY DEF StoreEmbedding
<1>2. t[id] \in RowType(K, T)
  OBVIOUS
<1>3. /\ row.key = t[id].key /\ row.vf = t[id].vf /\ row.vt = t[id].vt /\ row.tf = t[id].tf
      /\ row.tt = t[id].tt /\ row.deleted = t[id].deleted
  BY <1>2 DEF RowType
<1> HIDE DEF R, row
<1>4. DOMAIN R = DOMAIN t /\ \A i \in DOMAIN t : R[i] = IF i = id THEN row ELSE t[i]
  BY <1>1
<1>5. \A i \in DOMAIN t : /\ R[i].key = t[i].key /\ R[i].vf = t[i].vf /\ R[i].vt = t[i].vt
                          /\ R[i].tf = t[i].tf /\ R[i].tt = t[i].tt
                          /\ R[i].deleted = t[i].deleted
  BY <1>3, <1>4
<1>6. RowsGood(R, s)
  BY <1>4, <1>5 DEF RowsGood, WellFormed, Stamped
<1>7. Fades(t, R)
  BY <1>4, <1>5 DEF Fades, Believed, BelievedAt
<1> QED
  BY <1>6, <1>7, OneFades DEF R

-----------------------------------------------------------------------------
(* What a search by words alone answers.                                    *)

\* A time in seconds is a moment.
LEMMA SecMoment ==
    ASSUME NEW t \in Nat, t >= Resolution
    PROVE  Sec(t) \in Moment
<1>1. Resolution \in Nat /\ Resolution <= t
  BY ResolutionAssumption
<1>2. Resolution <= Sec(t)
  BY <1>1, SecBelow, SecResolution
<1>3. Sec(t) \in Nat /\ Sec(Sec(t)) = Sec(t)
  BY SecType, SecIdempotent
<1> QED
  BY <1>1, <1>2, <1>3 DEF Moment

\* No key has two rows among those selected.
LEMMA SelectedApart ==
    ASSUME TypedTable, OneOfKey(table), clock >= Resolution, NEW ask \in Asks,
           NEW i \in SelectedNow(ask), NEW j \in SelectedNow(ask), KeyOf(i) = KeyOf(j)
    PROVE  i = j
<1>1. clock \in Nat /\ ask.asOf \in Bounds /\ ask.validAt \in Bounds
  BY SearchAssumption DEF TypedTable
<1>2. /\ ask.asOf \in Nat /\ ask.validAt \in Nat
      /\ ask.validAt # Zero => ask.validAt >= Resolution
  BY <1>1 DEF Bounds
<1> DEFINE m == IF ask.validAt = Zero THEN Sec(clock) ELSE Sec(ask.validAt)
           u == Sec(ask.asOf)
<1>3. m \in Moment
  <2>1. CASE ask.validAt = Zero
    BY <1>1, <2>1, SecMoment
  <2>2. CASE ask.validAt # Zero
    BY <1>2, <2>2, SecMoment
  <2> QED
    BY <2>1, <2>2
<1>4. u \in Nat
  BY <1>2, SecType
<1>5. /\ i \in DOMAIN table /\ j \in DOMAIN table /\ table[i].key = table[j].key
      /\ Selected(table[i], ask.asOf, ask.validAt, clock)
      /\ Selected(table[j], ask.asOf, ask.validAt, clock)
  BY DEF SelectedNow, SelectedIds, KeyOf
<1>6. ASSUME NEW r, Selected(r, ask.asOf, ask.validAt, clock)
      PROVE  /\ Covers(r, m)
             /\ ask.asOf = Zero => Believed(r)
             /\ ask.asOf # Zero => BelievedAt(r, u)
  BY <1>6 DEF Selected, Live
<1> HIDE DEF m, u
<1>7. OneNow(table, m) /\ OneThen(table, u, m)
  BY <1>3, <1>4 DEF OneOfKey
<1>8. /\ Covers(table[i], m) /\ Covers(table[j], m)
      /\ ask.asOf = Zero => Believed(table[i]) /\ Believed(table[j])
      /\ ask.asOf # Zero => BelievedAt(table[i], u) /\ BelievedAt(table[j], u)
  BY <1>5, <1>6
<1>9. CASE ask.asOf = Zero
  BY <1>5, <1>7, <1>8, <1>9 DEF OneNow
<1>10. CASE ask.asOf # Zero
  BY <1>5, <1>7, <1>8, <1>10 DEF OneThen
<1> QED
  BY <1>9, <1>10

\* Nor among those the words match.
LEMMA HitsApart ==
    ASSUME TypedTable, OneOfKey(table), clock >= Resolution, NEW ask \in Asks,
           NEW rank, Ranked(rank), NEW n \in Nat
    PROVE  FullText(rank, ask, n) \in Seq(Ids) /\ KeysApart(FullText(rank, ask, n))
<1> DEFINE s == FullText(rank, ask, n)
           w == WordHits(rank, ask)
           S == SelectedNow(ask)
<1>1. w \in Seq(S) /\ Distinct(w) /\ s = Take(w, n)
  BY FullTextIs
<1> HIDE DEF s, w
<1>2. s \in Seq(S) /\ Distinct(s)
  BY <1>1, TakeIs
<1>3. S \subseteq Ids
  BY SelectedAre
<1>4. \A i, j \in S : KeyOf(i) = KeyOf(j) => i = j
  BY SelectedApart
<1> HIDE DEF S
<1>5. s \in Seq(Ids)
  BY <1>2, <1>3, Wider
<1>6. \A r \in DOMAIN s : s[r] \in S
  BY <1>2
<1>7. KeysApart(s)
  BY <1>2, <1>4, <1>6 DEF KeysApart, KeyOf, Distinct
<1> QED
  BY <1>5, <1>7 DEF s

-----------------------------------------------------------------------------
(* What the caller may read of what is found.                               *)

LEMMA VisibleIs ==
    ASSUME NEW S, NEW s \in Seq(S), NEW ask
    PROVE  /\ Visible(s, ask) \in Seq(S)
           /\ ToSet(Visible(s, ask)) = {x \in ToSet(s) : Readable(ask, x)}
           /\ (\A x \in ToSet(s) : Readable(ask, x)) => Len(Visible(s, ask)) = Len(s)
           /\ KeysApart(s) => KeysApart(Visible(s, ask))
           /\ Distinct(s) => \A x \in ToSet(Visible(s, ask)) : \A y :
                 Ahead(s, x, y) => Ahead(Visible(s, ask), x, y)
<1> DEFINE P == {r \in DOMAIN s : Readable(ask, s[r])}
           o == Visible(s, ask)
           c == Cardinality(P)
<1>1. Len(s) \in Nat /\ DOMAIN s = 1..Len(s) /\ \A x \in ToSet(s) : \E z \in 1..Len(s) : s[z] = x
  BY Inhabited
<1>2. P \in SUBSET Nat /\ IsFiniteSet(P) /\ \A r \in P : s[r] \in S
  <2>1. IsFiniteSet(1..Len(s))
    BY <1>1, FS_Interval
  <2>2. P \subseteq 1..Len(s)
    BY <1>1
  <2>3. IsFiniteSet(P)
    BY ONLY <2>1, <2>2, FS_Subset
  <2> QED
    BY <1>1, <2>2, <2>3
<1>3. o = Picked(s, P)
  BY DEF Visible
<1>4. \A r \in DOMAIN s : r \in P <=> Readable(ask, s[r])
  OBVIOUS
<1>5. P \subseteq DOMAIN s
  OBVIOUS
<1> HIDE DEF P, o
<1>6. o \in Seq(S) /\ Len(o) = c /\ c \in Nat
  BY ONLY <1>2, <1>3, PickedIn
<1>7. \E a : Places(a, s, P)
  BY <1>2, PickedOrder
<1>8. PICK a : Places(a, s, P)
  BY <1>7
<1> HIDE DEF c
<1>9. /\ DOMAIN o = 1..c
      /\ \A j \in 1..c : a[j] \in P /\ o[j] = s[a[j]]
      /\ \A i, j \in 1..c : i < j => a[i] < a[j]
      /\ \A r \in P : \E j \in 1..c : a[j] = r
  BY <1>3, <1>8 DEF Places, c
<1>10. ToSet(o) = {x \in ToSet(s) : Readable(ask, x)}
  <2>1. ASSUME NEW x \in ToSet(o)
        PROVE  x \in ToSet(s) /\ Readable(ask, x)
    <3>1. PICK j \in 1..c : o[j] = x
      BY <1>9 DEF ToSet
    <3>2. a[j] \in DOMAIN s /\ s[a[j]] = x /\ a[j] \in P
      BY <1>5, <1>9, <3>1
    <3> QED
      BY <1>4, <3>2 DEF ToSet
  <2>2. ASSUME NEW x \in ToSet(s), Readable(ask, x)
        PROVE  x \in ToSet(o)
    <3>1. PICK z \in DOMAIN s : s[z] = x
      BY <1>1
    <3>2. z \in P
      BY <1>4, <2>2, <3>1
    <3>3. PICK j \in 1..c : a[j] = z
      BY <1>9, <3>2
    <3> QED
      BY <1>9, <3>1, <3>3 DEF ToSet
  <2> QED
    BY <2>1, <2>2
<1>11. ASSUME \A x \in ToSet(s) : Readable(ask, x)
       PROVE  Len(o) = Len(s)
  <2>1. \A z \in DOMAIN s : s[z] \in ToSet(s)
    BY DEF ToSet
  <2>2. P = 1..Len(s)
    BY <1>1, <1>4, <1>5, <1>11, <2>1
  <2>3. Cardinality(1..Len(s)) = Len(s)
    BY <1>1, FS_Interval
  <2> QED
    BY <1>6, <2>2, <2>3 DEF c
<1>12. ASSUME KeysApart(s)
       PROVE  KeysApart(o)
  <2> SUFFICES ASSUME NEW i \in 1..c, NEW j \in 1..c, i # j
               PROVE  table[o[i]].key # table[o[j]].key
    BY <1>9 DEF KeysApart
  <2>1. i \in Nat /\ j \in Nat /\ (i < j \/ j < i)
    BY <1>6
  <2>2. /\ a[i] \in DOMAIN s /\ a[j] \in DOMAIN s /\ o[i] = s[a[i]] /\ o[j] = s[a[j]]
        /\ a[i] < a[j] \/ a[j] < a[i]
    BY <1>5, <1>9, <2>1
  <2>3. a[i] \in Nat /\ a[j] \in Nat
    BY <1>1, <2>2
  <2>4. a[i] # a[j]
    BY ONLY <2>2, <2>3
  <2> QED
    BY <1>12, <2>2, <2>4 DEF KeysApart
<1>13. ASSUME Distinct(s), NEW x \in ToSet(o), NEW y, Ahead(s, x, y)
       PROVE  Ahead(o, x, y)
  <2>1. PICK j \in 1..c : o[j] = x
    BY <1>9 DEF ToSet
  <2>2. PICK p \in DOMAIN s : s[p] = x /\ \A q \in 1..p : s[q] # y
    BY <1>13 DEF Ahead
  <2>3. a[j] = p
    <3>1. a[j] \in DOMAIN s /\ s[a[j]] = x
      BY <1>5, <1>9, <2>1
    <3> QED
      BY <1>13, <2>2, <3>1 DEF Distinct
  <2>4. ASSUME NEW i \in 1..j
        PROVE  o[i] # y
    <3>1. i \in 1..c /\ (i = j \/ i < j)
      BY <1>6, <2>1
    <3>2. a[i] = p \/ a[i] < p
      BY <1>9, <2>1, <2>3, <3>1
    <3>3. a[i] \in 1..Len(s) /\ p \in 1..Len(s)
      BY <1>1, <1>5, <1>9, <3>1
    <3>4. a[i] \in 1..p
      BY ONLY <1>1, <3>2, <3>3
    <3> QED
      BY <1>9, <2>2, <3>1, <3>4
  <2> QED
    BY <1>9, <2>1, <2>4 DEF Ahead
<1> QED
  BY <1>6, <1>10, <1>11, <1>12, <1>13 DEF o

\* What a search answers, over the rows as they are.
MomentSeen(a) ==
    UsualRead(a.ask) \/ a.ask.radius = 0 => ToSet(a.out) \subseteq SelectedNow(a.ask)

WordMatchSeen(a) ==
    a.ask.limit >= 2 /\ MatchesOf(a) # {} /\ AllReadable(a.ask) => a.out # <<>>

FilledSeen(a) ==
    a.fresh /\ a.ask.radius = 0 /\ AllReadable(a.ask) =>
        LET found == MatchesOf(a) \cup
                {i \in SelectedNow(a.ask) : table[i].emb # NoVector}
        IN  Len(a.out) = Len(Take(SetToSeq(found), a.ask.limit))

\* The answer a, of what b found.
SeenOf(a, b) ==
    /\ a.given = b.given /\ a.rank = b.rank /\ a.ask = b.ask /\ a.fresh = b.fresh
    /\ a.out = Visible(b.out, b.ask)

LEMMA SeenIs ==
    ASSUME NEW b, b.out \in Seq(Ids), MomentOf(b), WordMatchOf(b), FilledOf(b),
           NEW a, SeenOf(a, b)
    PROVE  /\ MomentSeen(a) /\ WordMatchSeen(a) /\ FilledSeen(a)
           /\ ToSet(a.out) \subseteq Ids
<1> DEFINE s == b.out
           o == Visible(b.out, b.ask)
           Now == SelectedNow(b.ask)
<1>1. /\ o \in Seq(Ids) /\ ToSet(o) = {x \in ToSet(s) : Readable(b.ask, x)}
      /\ (\A x \in ToSet(s) : Readable(b.ask, x)) => Len(o) = Len(s)
  BY VisibleIs
<1>2. \A i \in ToSet(s) : i \in Ids
  BY Inhabited
<1>3. /\ a.out = o /\ a.ask = b.ask /\ a.rank = b.rank /\ (a.fresh <=> b.fresh)
      /\ MatchesOf(a) = MatchesOf(b)
  BY DEF SeenOf, MatchesOf
<1> HIDE DEF o
<1>4. ASSUME NEW i \in ToSet(s), i \notin Now
      PROVE  b.ask.radius > 0 /\ i \in SelectedIds(table, Zero, Zero, clock)
  <2>1. b.ask.radius > 0 /\ Live(table[i], clock)
    BY <1>4 DEF MomentOf
  <2> QED
    BY <1>2, <2>1 DEF SelectedIds, Selected, Ids
<1>5. MomentSeen(a)
  <2>1. ASSUME UsualRead(b.ask)
        PROVE  Now = SelectedIds(table, Zero, Zero, clock)
    BY <2>1 DEF UsualRead, SelectedNow
  <2>2. ASSUME b.ask.radius = 0
        PROVE  ~(b.ask.radius > 0)
    BY <2>2
  <2> HIDE DEF Now, s
  <2>3. UsualRead(b.ask) \/ b.ask.radius = 0 => \A i \in ToSet(s) : i \in Now
    BY <1>4, <2>1, <2>2
  <2> QED
    BY <1>1, <1>3, <2>3 DEF MomentSeen, Now
<1>6. ASSUME AllReadable(b.ask)
      PROVE  Len(o) = Len(s)
  <2>1. \A i \in ToSet(s) : Readable(b.ask, i)
    BY <1>4, <1>6 DEF AllReadable
  <2> QED
    BY <1>1, <2>1
<1>7. WordMatchSeen(a)
  <2>1. ASSUME AllReadable(b.ask), s # <<>>
        PROVE  o # <<>>
    <3>1. Len(s) # 0
      BY <2>1
    <3> QED
      BY <1>1, <1>6, <2>1, <3>1
  <2> QED
    BY <1>3, <2>1 DEF WordMatchSeen, WordMatchOf
<1>8. FilledSeen(a)
  BY <1>3, <1>6 DEF FilledSeen, FilledOf
<1>9. ToSet(a.out) \subseteq Ids
  BY <1>1, <1>2, <1>3
<1> QED
  BY <1>5, <1>7, <1>8, <1>9

\* A search leaves the rows, their authors and the clock.
LEMMA Unmoved ==
    ASSUME NEW a, answer' = a, table' = table, clock' = clock, authors' = authors
    PROVE  /\ a.given /\ MomentSeen(a) => MomentHonoured'
           /\ a.given /\ WordMatchSeen(a) => WordMatchAnswered'
           /\ a.given /\ FilledSeen(a) => FilledWhenFresh'
<1>1. Matches' = MatchesOf(a)
  BY DEF Matches, MatchesOf, FullText, RankedRows, SelectedNow, SelectedIds
<1>2. a.given /\ MomentSeen(a) => MomentHonoured'
  BY DEF MomentHonoured, MomentSeen, SelectedNow, SelectedIds
<1>3. AllReadable(a.ask)' <=> AllReadable(a.ask)
  BY DEF AllReadable, Readable, SelectedNow, SelectedIds
<1>4. a.given /\ WordMatchSeen(a) => WordMatchAnswered'
  BY <1>1, <1>3 DEF WordMatchAnswered, WordMatchSeen
<1>5. a.given /\ FilledSeen(a) => FilledWhenFresh'
  BY <1>1, <1>3 DEF FilledWhenFresh, FilledSeen, SelectedNow, SelectedIds
<1> QED
  BY <1>2, <1>4, <1>5

\* What is ahead has a lower place.
LEMMA PlacesAhead ==
    ASSUME NEW S, NEW out \in Seq(S), Distinct(out), NEW x, NEW y \in ToSet(out),
           Ahead(out, x, y)
    PROVE  PlaceIn(out, x) < PlaceIn(out, y)
<1>1. \E p \in DOMAIN out : out[p] = x /\ \A q \in 1..p : out[q] # y
  BY DEF Ahead
<1>2. PICK p \in DOMAIN out : out[p] = x /\ \A q \in 1..p : out[q] # y
  BY <1>1
<1>3. \E r \in DOMAIN out : out[r] = y
  BY DEF ToSet
<1>4. PICK r \in DOMAIN out : out[r] = y
  BY <1>3
<1>5. PlaceIn(out, x) = p
  BY <1>2 DEF PlaceIn, Distinct
<1>6. PlaceIn(out, y) = r
  BY <1>4 DEF PlaceIn, Distinct
<1>7. Len(out) \in Nat /\ DOMAIN out = 1..Len(out)
  OBVIOUS
<1>8. p \in Nat /\ r \in Nat /\ r >= 1 /\ r \notin 1..p
  BY <1>2, <1>4, <1>7
<1> QED
  BY ONLY <1>5, <1>6, <1>8

\* What TurnsInOrder says of an answer.
TurnsOf(a) ==
    Straight /\ ~a.rank.embeds /\ "reranker" \notin setup =>
        LET hits == FullText(a.rank, a.ask, a.ask.limit)
        IN  /\ EachOnce(a.out)
            /\ HitsShown(a.ask, hits, a.out)
            /\ TurnsShown(a.ask, hits, a.out)

\* It holds of what the caller may read of hits and turns in order.
LEMMA TurnsHold ==
    ASSUME NEW a, NEW hits, hits = FullText(a.rank, a.ask, a.ask.limit),
           NEW S, NEW found \in Seq(S), a.out = Visible(found, a.ask), hits \in Seq(S),
           KeysApart(found), InOrder(found, hits), a.ask.radius > 0 => Taken(found, hits)
    PROVE  TurnsOf(a)
<1> DEFINE out == a.out
<1>0. Distinct(found)
  BY DEF KeysApart, Distinct
<1>1. /\ out \in Seq(S) /\ KeysApart(out)
      /\ ToSet(out) = {x \in ToSet(found) : Readable(a.ask, x)}
      /\ \A x \in ToSet(out) : \A y : Ahead(found, x, y) => Ahead(out, x, y)
  BY <1>0, VisibleIs
<1>2. Distinct(out)
  BY <1>1 DEF KeysApart, Distinct
<1> HIDE DEF out
<1>3. \A h \in ToSet(hits) : Readable(a.ask, h) => h \in ToSet(out)
  BY <1>1 DEF InOrder
<1>4. ASSUME NEW r \in DOMAIN hits, NEW s \in DOMAIN hits, r < s,
             Readable(a.ask, hits[r]), Readable(a.ask, hits[s])
      PROVE  PlaceIn(out, hits[r]) < PlaceIn(out, hits[s])
  <2> DEFINE x == hits[r]
             y == hits[s]
  <2>1. Ahead(found, x, y) /\ x \in ToSet(out) /\ y \in ToSet(out)
    <3>1. x \in ToSet(hits) /\ y \in ToSet(hits)
      BY DEF ToSet
    <3> QED
      BY <1>3, <1>4, <3>1 DEF InOrder
  <2> HIDE DEF x, y
  <2>2. Ahead(out, x, y)
    BY <1>1, <2>1
  <2>3. PlaceIn(out, x) < PlaceIn(out, y)
    BY <1>1, <1>2, <2>1, <2>2, PlacesAhead
  <2> QED
    BY <2>3 DEF x, y
<1>5. ASSUME a.ask.radius > 0, NEW h \in ToSet(hits), NEW i \in Ids, Alongside(hits, h, i),
             Readable(a.ask, i)
      PROVE  /\ i \in ToSet(out)
             /\ Readable(a.ask, h) /\ table[i].key.idx < table[h].key.idx
                   => PlaceIn(out, i) < PlaceIn(out, h)
  <2>1. /\ i \in ToSet(found)
        /\ table[i].key.idx < table[h].key.idx => Ahead(found, i, h)
    BY <1>5 DEF Taken
  <2>2. i \in ToSet(out)
    BY <1>1, <1>5, <2>1
  <2>3. ASSUME Readable(a.ask, h), Ahead(found, i, h)
        PROVE  PlaceIn(out, i) < PlaceIn(out, h)
    <3>1. Ahead(out, i, h) /\ h \in ToSet(out)
      BY <1>1, <1>3, <2>2, <2>3
    <3> QED
      BY <1>1, <1>2, <2>2, <3>1, PlacesAhead
  <2> QED
    BY <2>1, <2>2, <2>3
<1>6. \A r, s \in DOMAIN out : r # s => table[out[r]].key # table[out[s]].key
  BY <1>1 DEF KeysApart
<1>7. \A r, s \in DOMAIN hits :
         r < s /\ Readable(a.ask, hits[r]) /\ Readable(a.ask, hits[s])
            => PlaceIn(out, hits[r]) < PlaceIn(out, hits[s])
  BY <1>4
<1> QED
  BY <1>3, <1>5, <1>6, <1>7 DEF TurnsOf, EachOnce, HitsShown, TurnsShown, out

\* A search by words alone is the expansion of what the words match.
LEMMA AnswerTurns ==
    ASSUME TypedTable, OneOfKey(table), clock >= Resolution, NEW ask \in Asks,
           NEW rank, Ranked(rank), NEW found \in Answers(rank, ask),
           NEW a, a.rank = rank, a.ask = ask, a.out = Visible(found, ask)
    PROVE  TurnsOf(a)
<1> SUFFICES ASSUME ~rank.embeds, "reranker" \notin setup
             PROVE  TurnsOf(a)
  BY DEF TurnsOf
<1>1. ask.limit \in Nat /\ ask.limit \in Nat \ {0} /\ ask.radius \in Nat
  BY SearchAssumption
<1> DEFINE s == FullText(rank, ask, ask.limit)
<1>2. found \in Expand(s, ask.radius)
  <2>1. found \in PlainSearch(rank, ask, ask.limit)
    BY DEF Answers, WordSearch, RerankOrNot, Pool
  <2> QED
    BY <2>1 DEF PlainSearch
<1>3. s \in Seq(Ids) /\ KeysApart(s)
  BY <1>1, HitsApart
<1> HIDE DEF s
<1>4. KeysApart(found) /\ InOrder(found, s) /\ (ask.radius > 0 => Taken(found, s))
  BY <1>1, <1>2, <1>3, ExpandOrder
<1>5. found \in Seq(Ids)
  <2>1. Usual \in SUBSET Ids /\ Ids \in SUBSET Ids
    BY DEF Usual, SelectedIds, Ids
  <2> QED
    BY <1>1, <1>2, <1>3, <2>1, ExpandIs
<1>6. s = FullText(a.rank, a.ask, a.ask.limit)
  BY DEF s
<1> QED
  BY <1>3, <1>4, <1>5, <1>6, TurnsHold

-----------------------------------------------------------------------------
(* The invariant.                                                           *)

\* The table: no stamp after the clock, and one row of a key at a moment unless a
\* row is inverted.
TableOK == clock >= Resolution /\ RowsGood(table, Sec(clock)) /\ OneIfStraight(table)

LEMMA StraightIs == Straight <=> StraightRows(table)
  BY DEF Straight, StraightRows, Ids

Answered == MomentHonoured /\ WordMatchAnswered /\ FilledWhenFresh /\ TurnsInOrder

Inv == TypeOK /\ RowsOK /\ TableOK /\ Answered

LEMMA Unanswered ==
    ASSUME answer = NoAnswer
    PROVE  Answered
  BY DEF NoAnswer, Answered, MomentHonoured, WordMatchAnswered, FilledWhenFresh, TurnsInOrder

LEMMA UnansweredNext ==
    ASSUME answer' = NoAnswer
    PROVE  Answered'
  BY DEF NoAnswer, Answered, MomentHonoured, WordMatchAnswered, FilledWhenFresh, TurnsInOrder

LEMMA TurnsUnmoved ==
    ASSUME NEW a, answer' = a, table' = table, clock' = clock, setup' = setup,
           authors' = authors
    PROVE  a.given /\ TurnsOf(a) => TurnsInOrder'
<1>1. Straight' <=> Straight
  BY DEF Straight, Ids
<1>2. EachOnce(answer.out)' <=> EachOnce(a.out)
  BY DEF EachOnce
<1>3. HitsShown(answer.ask, FullText(answer.rank, answer.ask, answer.ask.limit), answer.out)'
         <=> HitsShown(a.ask, FullText(a.rank, a.ask, a.ask.limit), a.out)
  BY DEF HitsShown, FullText, RankedRows, SelectedNow, SelectedIds, Readable
<1>4. TurnsShown(answer.ask, FullText(answer.rank, answer.ask, answer.ask.limit), answer.out)'
         <=> TurnsShown(a.ask, FullText(a.rank, a.ask, a.ask.limit), a.out)
  BY DEF TurnsShown, FullText, RankedRows, SelectedNow, SelectedIds, Readable, Ids, KeysOf,
         Alongside, Beside, SameStyle, TurnsAt
<1> QED
  BY <1>1, <1>2, <1>3, <1>4 DEF TurnsInOrder, TurnsOf

\* Stamps are no later as time goes on.
LEMMA RowsGoodLater ==
    ASSUME NEW K, NEW T, NEW t \in Seq(RowType(K, T)), NEW s \in Nat, NEW u \in Nat,
           RowsGood(t, s), s <= u
    PROVE  RowsGood(t, u)
<1> SUFFICES ASSUME NEW i \in DOMAIN t
             PROVE  WellFormed(t[i]) /\ Stamped(t[i], u)
  BY DEF RowsGood
<1>1. WellFormed(t[i]) /\ Stamped(t[i], s)
  BY DEF RowsGood
<1>2. t[i].tf \in Nat /\ t[i].tt \in Nat
  <2>1. t[i] \in RowType(K, T)
    OBVIOUS
  <2> QED
    BY <2>1 DEF RowType, Ticks
<1> QED
  BY <1>1, <1>2 DEF Stamped

LEMMA InvInit == Init => Inv
<1> SUFFICES ASSUME Init PROVE Inv
  OBVIOUS
<1> USE DEF Init
<1>1. <<>> \in Seq(RowType(Keys, Tags)) /\ Ids = {}
  BY DEF Ids
<1>2. TypeOK
  BY <1>1, ResolutionAssumption DEF TypeOK
<1>3. RowsOK
  BY <1>1 DEF RowsOK
<1>4. TableOK
  <2>1. clock >= Resolution
    BY ResolutionAssumption
  <2>2. DOMAIN table = {}
    BY <1>1 DEF Ids
  <2> QED
    BY <2>1, <2>2 DEF TableOK, RowsGood, OneIfStraight, OneOfKey, OneNow, OneThen
<1>5. Answered
  BY Unanswered
<1> QED
  BY <1>2, <1>3, <1>4, <1>5 DEF Inv

\* A store appends rows of its own and of the entries before it.
LEMMA InvStore ==
    ASSUME Inv, NEW k \in Keys, NEW w \in Writes, StoreCall(k, w)
    PROVE  Inv'
<1> DEFINE R == RowType(Keys, Tags)
           f == [key |-> k, line |-> lines + 1, tags |-> w.tags, ttl |-> 0,
                 updated |-> clock', vf |-> w.vf, vt |-> w.vt]
           put == PutRow(table, f, lines + 1)
           id == Len(put)
           row == [put[id] EXCEPT !.emb = lines + 1]
<1>1. /\ answer = NoAnswer /\ answer' = answer /\ setup' = setup
      /\ clock' \in clock..MaxTick /\ lines' = lines + 1
      /\ authors' = [l \in DOMAIN authors \cup {lines + 1} |->
                       IF l = lines + 1 THEN w.agent ELSE authors[l]]
      /\ table' = IF w.embedded THEN StoreEmbedding(put, id, lines + 1) ELSE put
      /\ cache' = IF w.embedded /\ cache # NoCache
                  THEN [i \in DOMAIN cache \cup {id} |-> IF i = id THEN lines + 1 ELSE cache[i]]
                  ELSE cache
  BY DEF StoreCall
<1>2. /\ clock \in Nat /\ lines \in Nat /\ lines + 1 \in Nat /\ table \in Seq(R)
      /\ \A l \in DOMAIN authors : l \in Lines /\ authors[l] \in Agents
      /\ setup \in Setups /\ RowsOK /\ TableOK
      /\ cache = NoCache \/ \A i \in DOMAIN cache : i \in Ids /\ cache[i] \in Lines
  BY DEF Inv, TypeOK
<1>13. /\ w.agent \in Agents /\ w.tags \in SUBSET Tags /\ w.vf \in Bounds
       /\ w.vt \in Bounds
  BY SearchAssumption
\* The clock may have moved on since valid_to was checked.
<1>17. clock' \in Nat /\ clock <= clock' /\ clock' >= Resolution
  <2>1. clock >= Resolution /\ MaxTick \in Nat /\ Resolution \in Nat
    BY <1>2, SearchAssumption, ResolutionAssumption DEF TableOK
  <2> QED
    BY <1>1, <1>2, <2>1
<1>3. f \in FactType(Keys, Tags) /\ f \in Call(Keys, Tags)
  <2>1. /\ w.vf \in Nat /\ (w.vf = Zero \/ w.vf >= Resolution)
        /\ w.vt \in Nat /\ (w.vt = Zero \/ w.vt >= Resolution)
    BY <1>13 DEF Bounds
  <2> QED
    BY <1>2, <1>13, <1>17, <2>1 DEF Call, FactType, Ticks
<1>14. f.updated = clock'
  OBVIOUS
<1> HIDE DEF f
\* One row of a key, in the table with the new rows.
<1>15. RowsGood(put, Sec(clock')) /\ OneIfStraight(put)
  <2>1. PutPlaces(put, table, f)
    BY <1>2, PutRowPlaces
  <2>2. put \in Seq(RowType(Keys, Tags))
    BY <1>2, <1>3, PutRowRows
  <2>3. RowsGood(table, Sec(clock'))
    <3>1. Sec(clock) \in Nat /\ Sec(clock') \in Nat /\ Sec(clock) <= Sec(clock')
      BY <1>2, <1>17, SecType, SecMonotone
    <3> QED
      BY <1>2, <3>1, RowsGoodLater DEF TableOK
  <2> HIDE DEF put
  <2> QED
    BY <1>2, <1>3, <1>14, <2>1, <2>2, <2>3, PutRowOne DEF TableOK
<1>4. /\ put \in Seq(R) /\ id > Len(table)
      /\ put[id].line = f.line /\ put[id].emb = NoVector
      /\ \A i \in 1..id : i = id \/ ComesOf(put[i], table)
  <2>1. table \in Seq(RowType(Keys, Tags))
    BY <1>2
  <2>2. LET P == PutRow(table, f, lines + 1)
        IN  /\ P \in Seq(RowType(Keys, Tags)) /\ Len(P) > Len(table)
            /\ P[Len(P)].line = f.line /\ P[Len(P)].emb = NoVector
            /\ \A i \in 1..Len(P) : i = Len(P) \/ ComesOf(P[i], table)
    BY ONLY <1>2, <1>3, <2>1, PutRowRows
  <2> QED
    BY <2>2
<1>5. f.line = lines + 1
  BY DEF f
<1> HIDE DEF put
<1>6. /\ DOMAIN table = 1..Len(table) /\ Len(table) \in Nat
      /\ DOMAIN put = 1..id /\ id \in Nat /\ id \in 1..id
      /\ \A i \in 1..id : put[i] \in R
  <2> HIDE DEF R
  <2>1. Len(table) \in Nat /\ Len(put) \in Nat
    BY <1>2, <1>4
  <2> QED
    BY <1>2, <1>4, <2>1
<1> HIDE DEF id
<1>7. row \in R /\ row.line = put[id].line /\ row.emb = lines + 1
  <2>1. put[id] \in R
    BY <1>6
  <2> QED
    BY <1>2, <2>1 DEF RowType
<1>8. /\ DOMAIN table' = 1..id
      /\ table' \in Seq(R)
      /\ \A i \in 1..id : i # id => table'[i] = put[i]
      /\ table'[id] = row \/ table'[id] = put[id]
  <2>1. CASE ~w.embedded
    <3> HIDE DEF R, row
    <3> QED
      BY <1>1, <1>4, <1>6, <2>1
  <2>2. CASE w.embedded
    <3>1. table' = [put EXCEPT ![id].emb = lines + 1]
      BY <1>1, <2>2 DEF StoreEmbedding
    <3>2. table' = [put EXCEPT ![id] = row]
      BY <3>1
    <3> HIDE DEF R, row
    <3>3. table' = [i \in 1..id |-> IF i = id THEN row ELSE put[i]]
      BY <1>6, <3>2
    <3>4. table' \in [1..id -> R]
      BY <1>6, <1>7, <3>3
    <3> QED
      BY <1>6, <3>3, <3>4
  <2> QED
    BY <2>1, <2>2
<1>16. TableOK'
  <2>1. CASE ~w.embedded
    BY <1>1, <1>15, <1>17, <2>1 DEF TableOK
  <2>2. CASE w.embedded
    <3>1. put \in Seq(RowType(Keys, Tags)) /\ id \in DOMAIN put
      BY <1>4, <1>6
    <3>2. table' = StoreEmbedding(put, id, lines + 1)
      BY <1>1, <2>2
    <3>3. RowsGood(table', Sec(clock')) /\ OneIfStraight(table')
      BY <1>15, <3>1, <3>2, EmbeddingOne
    <3> QED
      BY <1>17, <3>3 DEF TableOK
  <2> QED
    BY <2>1, <2>2
<1> HIDE DEF row, R
\* A row made by the call: of an entry of the log as it is now.
<1>9. ASSUME NEW i \in 1..id
      PROVE  table'[i].line \in 1..(lines + 1) /\ table'[i].emb \in 0..(lines + 1)
  <2>1. CASE i = id
    <3>1. table'[i].line = lines + 1 /\ table'[i].emb \in {0, lines + 1}
      BY <1>4, <1>5, <1>7, <1>8, <2>1 DEF NoVector
    <3> QED
      BY <1>2, <3>1
  <2>2. CASE i # id
    <3>1. table'[i] = put[i]
      BY <1>8, <2>2
    <3>2. PICK j \in 1..Len(table) : put[i].line = table[j].line /\ put[i].emb = table[j].emb
      BY <1>4, <2>2 DEF ComesOf, SameContent
    <3>3. table[j].line \in 1..lines /\ table[j].emb \in 0..lines
      BY <1>2, <1>6, <3>2 DEF RowsOK, Ids, Lines
    <3>4. \A x \in 1..lines : x \in 1..(lines + 1)
      BY <1>2
    <3>5. \A x \in 0..lines : x \in 0..(lines + 1)
      BY <1>2
    <3> QED
      BY <3>1, <3>2, <3>3, <3>4, <3>5
  <2> QED
    BY <2>1, <2>2
<1>10. RowsOK'
  BY <1>1, <1>8, <1>9 DEF RowsOK, Ids, Lines
<1>11. cache' = NoCache \/ \A i \in DOMAIN cache' : i \in 1..id /\ cache'[i] \in 1..(lines + 1)
  <2>1. cache = NoCache \/ \A i \in DOMAIN cache : i \in 1..id /\ cache[i] \in 1..(lines + 1)
    <3>1. \A x \in 1..lines : x \in 1..(lines + 1)
      BY <1>2
    <3>2. \A i \in 1..Len(table) : i \in 1..id
      BY <1>4, <1>6
    <3> QED
      BY <1>2, <1>6, <3>1, <3>2 DEF Ids, Lines
  <2>2. lines + 1 \in 1..(lines + 1)
    BY <1>2
  <2>3. CASE w.embedded /\ cache # NoCache
    <3>1. cache' = [i \in DOMAIN cache \cup {id} |-> IF i = id THEN lines + 1 ELSE cache[i]]
      BY <1>1, <2>3
    <3> QED
      BY <1>6, <2>1, <2>2, <2>3, <3>1
  <2>4. CASE ~(w.embedded /\ cache # NoCache)
    <3>1. cache' = cache
      BY <1>1, <2>4
    <3> QED
      BY <2>1, <3>1
  <2> QED
    BY <2>3, <2>4
<1>12. TypeOK'
  <2>1. answer' = NoAnswer
    BY <1>1
  <2>2. \A l \in DOMAIN authors' : l \in 1..(lines + 1) /\ authors'[l] \in Agents
    <3>1. \A x \in 1..lines : x \in 1..(lines + 1)
      BY <1>2
    <3>2. lines + 1 \in 1..(lines + 1)
      BY <1>2
    <3> QED
      BY <1>1, <1>2, <1>13, <3>1, <3>2 DEF Lines
  <2> QED
    BY <1>1, <1>2, <1>8, <1>11, <1>17, <2>1, <2>2 DEF TypeOK, Ids, Lines, R
<1> QED
  BY <1>1, <1>10, <1>12, <1>16, UnansweredNext DEF Inv

LEMMA InvForget ==
    ASSUME Inv, NEW k \in Keys, ForgetCall(k)
    PROVE  Inv'
<1> DEFINE R == RowType(Keys, Tags)
<1>1. /\ answer = NoAnswer /\ answer' = answer /\ clock' = clock /\ setup' = setup
      /\ cache' = cache /\ authors' = authors /\ lines' = lines + 1
      /\ table' = ForgetRows(table, k, clock)
  BY DEF ForgetCall
<1>2. /\ clock \in Nat /\ lines \in Nat /\ lines + 1 \in Nat /\ table \in Seq(R)
      /\ \A l \in DOMAIN authors : l \in Lines /\ authors[l] \in Agents
      /\ setup \in Setups /\ RowsOK /\ TableOK
      /\ cache = NoCache \/ \A i \in DOMAIN cache : i \in Ids /\ cache[i] \in Lines
  BY DEF Inv, TypeOK
<1>3. /\ table' \in Seq(R) /\ Len(table') = Len(table)
      /\ \A i \in 1..Len(table) : table'[i].line = table[i].line /\ table'[i].emb = table[i].emb
  BY <1>1, <1>2, ForgetRowsRows DEF SameContent
<1> HIDE DEF R
<1>4. DOMAIN table = 1..Len(table) /\ DOMAIN table' = 1..Len(table)
  BY <1>2, <1>3
<1>5. /\ \A x \in 1..lines : x \in 1..(lines + 1)
      /\ \A x \in 0..lines : x \in 0..(lines + 1)
  BY <1>2
<1>6. RowsOK'
  BY <1>1, <1>2, <1>3, <1>4, <1>5 DEF RowsOK, Ids, Lines
<1>7. TypeOK'
  <2>1. answer' = NoAnswer
    BY <1>1
  <2>2. cache' = NoCache \/ \A i \in DOMAIN cache' : i \in DOMAIN table' /\ cache'[i] \in 1..lines'
    BY <1>1, <1>2, <1>4, <1>5 DEF Ids, Lines
  <2>3. \A l \in DOMAIN authors' : l \in 1..lines' /\ authors'[l] \in Agents
    BY <1>1, <1>2, <1>5 DEF Lines
  <2> QED
    BY <1>1, <1>2, <1>3, <2>1, <2>2, <2>3 DEF TypeOK, Ids, Lines, R
<1>8. TableOK'
  <2>1. RowsGood(table', Sec(clock)) /\ OneIfStraight(table')
    BY <1>1, <1>2, ForgetRowsOne DEF TableOK, R
  <2> QED
    BY <1>1, <1>2, <2>1 DEF TableOK
<1> QED
  BY <1>1, <1>6, <1>7, <1>8, UnansweredNext DEF Inv

\* What a search answers, and the vectors it may leave in the cache.
LEMMA InvSearch ==
    ASSUME Inv, NEW ask \in Asks, NEW rank \in Rankings(SelectedNow(ask), Vectors(ask)),
           SearchCall(rank, ask)
    PROVE  Inv'
<1>1. /\ TypeOK /\ RowsOK /\ TableOK
      /\ rank.embeds => "embedder" \in setup
      /\ clock' = clock /\ lines' = lines /\ authors' = authors /\ table' = table
      /\ setup' = setup
      /\ cache' = IF rank.embeds /\ UsualRead(ask) THEN Vectors(ask) ELSE cache
  BY DEF Inv, SearchCall
<1> DEFINE A(out) == [given |-> TRUE, rank |-> rank, ask |-> ask, out |-> out,
                      fresh |-> rank.embeds /\ Vectors(ask) = Loaded(ask)]
<1>2. PICK found \in Answers(rank, ask) : answer' = A(Visible(found, ask))
  BY DEF SearchCall
<1> DEFINE a == A(Visible(found, ask))
           b == A(found)
<1>10. /\ b.given /\ MomentOf(b) /\ WordMatchOf(b) /\ FilledOf(b)
       /\ b.out \in Seq(Ids)
  <2>1. b = [given |-> TRUE, rank |-> rank, ask |-> ask, out |-> found,
             fresh |-> rank.embeds /\ Vectors(ask) = Loaded(ask)]
    OBVIOUS
  <2> HIDE DEF b
  <2> QED
    BY <1>1, <2>1, AnswerIs
<1>11. a.given /\ SeenOf(a, b)
  BY DEF SeenOf
<1>4. answer' = a
  BY <1>2
<1>8. TurnsOf(a)
  <2> SUFFICES ASSUME Straight
               PROVE  TurnsOf(a)
    BY DEF TurnsOf
  <2>1. TypedTable /\ Ranked(rank)
    BY <1>1, TypedIs, RankingsAre
  <2>2. a.rank = rank /\ a.ask = ask /\ a.out = Visible(found, ask)
    OBVIOUS
  <2>3. OneOfKey(table) /\ clock >= Resolution
    BY <1>1, StraightIs DEF TableOK, OneIfStraight
  <2> HIDE DEF a
  <2> QED
    BY <1>2, <2>1, <2>2, <2>3, AnswerTurns
<1> HIDE DEF a, b
<1>3. MomentSeen(a) /\ WordMatchSeen(a) /\ FilledSeen(a) /\ ToSet(a.out) \subseteq Ids
  BY <1>10, <1>11, SeenIs
<1>5. Answered'
  <2>1. MomentHonoured' /\ WordMatchAnswered' /\ FilledWhenFresh'
    BY <1>1, <1>3, <1>4, <1>11, Unmoved
  <2>2. TurnsInOrder'
    BY <1>1, <1>4, <1>8, <1>11, TurnsUnmoved
  <2> QED
    BY <2>1, <2>2 DEF Answered
<1>6. RowsOK'
  BY <1>1 DEF RowsOK, Ids, Lines
<1>7. TypeOK'
  <2>1. cache' = NoCache \/ \A i \in DOMAIN cache' : i \in Ids /\ cache'[i] \in Lines
    <3>1. VectorsOK(Vectors(ask))
      BY <1>1, VectorsAre
    <3> QED
      BY <1>1, <3>1, TypedIs DEF VectorsOK
  <2>2. ToSet(answer'.out) \subseteq Ids
    BY <1>3, <1>4
  <2> QED
    BY <1>1, <2>1, <2>2 DEF TypeOK, Ids, Lines
<1>9. TableOK'
  BY <1>1 DEF TableOK
<1> QED
  BY <1>5, <1>6, <1>7, <1>9 DEF Inv

LEMMA InvNext == Inv /\ [Next]_vars => Inv'
<1> SUFFICES ASSUME Inv, [Next]_vars
             PROVE  Inv'
  OBVIOUS
<1>1. CASE Tick
  <2>1. answer' = NoAnswer /\ clock \in Nat /\ clock' = clock + 1 /\ UNCHANGED <<lines, authors, table, cache, setup>>
    BY <1>1 DEF Tick, Inv, TypeOK
  <2>2. TypeOK' /\ RowsOK'
    BY <2>1 DEF Inv, TypeOK, RowsOK, Ids, Lines
  <2>3. TableOK'
    <3>1. /\ table \in Seq(RowType(Keys, Tags)) /\ clock >= Resolution
          /\ RowsGood(table, Sec(clock)) /\ OneIfStraight(table)
      BY DEF Inv, TypeOK, TableOK
    <3>2. /\ Sec(clock) \in Nat /\ Sec(clock + 1) \in Nat
          /\ Sec(clock) <= Sec(clock + 1)
      BY <2>1, SecType, SecMonotone
    <3>3. RowsGood(table, Sec(clock + 1))
      BY <3>1, <3>2, RowsGoodLater
    <3>4. clock + 1 >= Resolution
      BY <2>1, <3>1, ResolutionAssumption
    <3> QED
      BY <2>1, <3>1, <3>3, <3>4 DEF TableOK
  <2> QED
    BY <2>1, <2>2, <2>3, UnansweredNext DEF Inv
<1>2. CASE \E k \in Keys : (\E w \in Writes : StoreCall(k, w)) \/ ForgetCall(k)
  BY <1>2, InvStore, InvForget
<1>3. CASE \E ask \in Asks : \E rank \in Rankings(SelectedNow(ask), Vectors(ask)) :
              SearchCall(rank, ask)
  BY <1>3, InvSearch
<1>4. CASE Returned
  <2>1. answer' = NoAnswer /\ UNCHANGED <<clock, lines, authors, table, cache, setup>>
    BY <1>4 DEF Returned
  <2>2. TypeOK' /\ RowsOK' /\ TableOK'
    BY <2>1 DEF Inv, TypeOK, RowsOK, TableOK, Ids, Lines
  <2> QED
    BY <2>1, <2>2, UnansweredNext DEF Inv
<1>5. CASE UNCHANGED vars
  <2>1. TypeOK' /\ RowsOK' /\ TableOK'
    BY <1>5 DEF vars, Inv, TypeOK, RowsOK, TableOK, Ids, Lines
  <2>2. Answered
    BY DEF Inv
  <2>3. MomentHonoured' /\ WordMatchAnswered' /\ FilledWhenFresh'
    BY <1>5, <2>2 DEF vars, Answered, MomentHonoured, WordMatchAnswered, FilledWhenFresh,
                      Matches, FullText, RankedRows, SelectedNow, SelectedIds, AllReadable,
                      Readable
  <2>4. TurnsInOrder'
    <3> DEFINE a == answer
    <3>1. answer' = a /\ table' = table /\ clock' = clock /\ setup' = setup /\ authors' = authors
      BY <1>5 DEF vars
    <3>2. a.given => TurnsOf(a)
      BY <2>2 DEF Answered, TurnsInOrder, TurnsOf
    <3>3. ~a.given => TurnsInOrder'
      BY <3>1 DEF TurnsInOrder
    <3> HIDE DEF a
    <3> QED
      BY <3>1, <3>2, <3>3, TurnsUnmoved
  <2> QED
    BY <2>1, <2>3, <2>4 DEF Inv, Answered
<1> QED
  BY <1>1, <1>2, <1>3, <1>4, <1>5 DEF Next

LEMMA InvAlways == Spec => []Inv
  BY InvInit, InvNext, PTL DEF Spec

\* The state stays of its type: every id the cache keeps is the id of a row, and
\* every vector in it was computed from an entry of the log.
THEOREM TypeCorrect == Spec => []TypeOK
<1>1. Inv => TypeOK
  BY DEF Inv
<1> QED
  BY <1>1, InvAlways, PTL

\* Whatever the cache of vectors ranks (rows superseded and forgotten since it
\* was loaded), what memory_search answers was selected at the moment asked about:
\* for the usual read, and without neighbours as of any other moment.
THEOREM MomentHonouredAlways == Spec => []MomentHonoured
<1>1. Inv => MomentHonoured
  BY DEF Inv, Answered
<1> QED
  BY <1>1, InvAlways, PTL

\* Dead rows that rank first by meaning never hide every row the words match
\* from a search for two or more, by a caller who may read what there is.
THEOREM WordMatchAnsweredAlways == Spec => []WordMatchAnswered
<1>1. Inv => WordMatchAnswered
  BY DEF Inv, Answered
<1> QED
  BY <1>1, InvAlways, PTL

\* With the vectors of the table as it is, a search returns as many memories as
\* there are, up to its limit, with or without the model that reorders them, to a
\* caller who may read them all.
THEOREM FilledWhenFreshAlways == Spec => []FilledWhenFresh
<1>1. Inv => FilledWhenFresh
  BY DEF Inv, Answered
<1> QED
  BY <1>1, InvAlways, PTL

\* However stores and forgets follow each other, a table without an inverted row
\* never holds two rows of a key believed about one moment, nor two that were as of
\* an earlier one: the pieces cut from old rows end where the new row begins.  (A
\* row is inverted when the clock passes its end before the stamp.)
THEOREM OneRowOfKeyAlways == Spec => [](Straight => OneOfKey(table))
<1>1. Inv => (Straight => OneOfKey(table))
  BY StraightIs DEF Inv, TableOK, OneIfStraight
<1> QED
  BY <1>1, InvAlways, PTL

\* Of a table without an inverted row, whatever the walk of a map over the
\* neighbours does, a search by words alone gives every memory once, its matches
\* in their order, and the turn before or after a match, if written in its style,
\* with it, the turn before ahead; to every caller, as far as the caller may read
\* them.
THEOREM TurnsInOrderAlways == Spec => []TurnsInOrder
<1>1. Inv => TurnsInOrder
  BY DEF Inv, Answered
<1> QED
  BY <1>1, InvAlways, PTL
=============================================================================
