----------------------------- MODULE ChainProofs -----------------------------
(***************************************************************************)
(* What the hash chain and the parser promise, for any number of days,      *)
(* entries, cut writes and bytes of them: the lemmas say what the parser    *)
(* and the concatenation of the daily files compute, whatever the length.   *)
(***************************************************************************)
EXTENDS Chain, SequenceTheorems, FiniteSetTheorems, WellFoundedInduction, TLAPS

-----------------------------------------------------------------------------
(* What a fold computes, one step at a time.                                *)

\* A set of numbers has a least.
LEMMA Least ==
    ASSUME NEW S \in SUBSET Nat, S # {}
    PROVE  \E i \in S : \A j \in S : i <= j
<1>1. PICK i \in S : \A j \in S : ~ (<<j, i>> \in OpToRel(<, Nat))
  BY WFMin, NatLessThanWellFounded
<1>2. \A j \in S : ~ (j < i)
  BY <1>1 DEF OpToRel
<1> QED
  BY <1>2

\* The two folds of Chain: the parser's and the list of the sealed entries.
Do(op, s, x) == IF op = "parse" THEN Parse(s, x) ELSE Collect(s, x)

\* The library folds over sets of places, the greatest last: h is its function
\* for the first n places of the list l.
Folding(h, op, base, l, n) ==
    h = [s \in SUBSET (1..n) |->
            IF s = {} THEN base ELSE Do(op, h[s \ {Max(s)}], l[Max(s)])]

\* g[k] is what the fold has after k steps.
Running(g, op, base, l, n) ==
    /\ g[0] = base
    /\ \A k \in 1..n : g[k] = Do(op, g[k - 1], l[k])

\* The greatest of the places up to n.
LEMMA GreatestPlace ==
    ASSUME NEW n \in Nat, NEW s \in SUBSET (1..n), n \in s
    PROVE  Max(s) = n
<1>1. \E x \in s : \A y \in s : x >= y
  OBVIOUS
<1>2. Max(s) \in s /\ \A y \in s : Max(s) >= y
  BY <1>1, Zenon DEF Max
<1>3. ASSUME NEW x \in s, \A y \in s : x >= y
      PROVE  x = n
  <2>1. x \in 1..n /\ x >= n
    BY <1>3
  <2> QED
    BY <2>1
<1> QED
  BY <1>2, <1>3, Zenon

\* There is such a function, built one step after another.
LEMMA FoldingExists ==
    ASSUME NEW op, NEW base, NEW l, NEW n \in Nat
    PROVE  \E h : Folding(h, op, base, l, n)
<1> DEFINE Bad == {k \in Nat : ~ \E h : Folding(h, op, base, l, k)}
<1> SUFFICES ASSUME Bad # {}
             PROVE  FALSE
  OBVIOUS
<1>1. PICK k \in Bad : \A j \in Bad : k <= j
  BY Least
<1>2. k # 0
  <2>1. SUBSET (1..0) = {{}}
    OBVIOUS
  <2> DEFINE h == [s \in SUBSET (1..0) |-> base]
  <2>2. Folding(h, op, base, l, 0)
    BY <2>1 DEF Folding
  <2> QED
    BY <2>2
<1>3. k - 1 \in Nat /\ ~(k <= k - 1)
  BY <1>2
<1>4. PICK g : Folding(g, op, base, l, k - 1)
  BY <1>1, <1>3
<1> DEFINE Step(S, i) == Do(op, S, l[i])
           h == [s \in SUBSET (1..k) |-> IF k \in s THEN Step(g[s \ {k}], k) ELSE g[s]]
<1>5. \A s \in SUBSET (1..k) : s \ {k} \in SUBSET (1..(k - 1))
  OBVIOUS
<1>6. \A s \in SUBSET (1..k) : k \notin s => s \in SUBSET (1..(k - 1)) /\ s \in SUBSET (1..k)
  OBVIOUS
<1>7. \A s \in SUBSET (1..(k - 1)) : k \notin s /\ s \in SUBSET (1..k)
  BY <1>3
<1>8. \A s \in SUBSET (1..(k - 1)) : g[s] = IF s = {} THEN base ELSE Step(g[s \ {Max(s)}], Max(s))
  BY <1>4 DEF Folding
<1>9. ASSUME NEW s \in SUBSET (1..k)
      PROVE  h[s] = IF s = {} THEN base ELSE Step(h[s \ {Max(s)}], Max(s))
  <2>1. CASE k \in s
    <3>1. Max(s) = k
      BY <1>1, <2>1, GreatestPlace
    <3>2. s \ {k} \in SUBSET (1..k) /\ k \notin s \ {k}
      OBVIOUS
    <3>3. h[s \ {k}] = g[s \ {k}]
      BY <3>2
    <3>4. h[s] = Step(g[s \ {k}], k) /\ s # {}
      BY <2>1
    <3> HIDE DEF h, Step
    <3> QED
      BY <3>1, <3>3, <3>4
  <2>2. CASE k \notin s
    <3>1. s \in SUBSET (1..(k - 1)) /\ s \ {Max(s)} \in SUBSET (1..(k - 1))
      BY <2>2, <1>6
    <3>2. h[s] = g[s] /\ h[s \ {Max(s)}] = g[s \ {Max(s)}]
      BY <1>7, <3>1
    <3> HIDE DEF h, Step
    <3> QED
      BY <1>8, <3>1, <3>2
  <2> QED
    BY <2>1, <2>2
<1>10. Folding(h, op, base, l, k)
  <2>1. h = [s \in SUBSET (1..k) |-> h[s]]
    OBVIOUS
  <2> DEFINE f == [s \in SUBSET (1..k) |->
                     IF s = {} THEN base ELSE Step(h[s \ {Max(s)}], Max(s))]
  <2> HIDE DEF h
  <2>2. h = f
    BY <1>9, <2>1
  <2> QED
    BY <2>2 DEF Folding
<1> QED
  BY <1>10

\* What it has after k steps.
LEMMA FoldingRuns ==
    ASSUME NEW h, NEW op, NEW base, NEW l, NEW n \in Nat, Folding(h, op, base, l, n)
    PROVE  \E g : Running(g, op, base, l, n) /\ g[n] = h[1..n]
<1> DEFINE g == [k \in 0..n |-> h[1..k]]
<1>1. \A s \in SUBSET (1..n) :
         h[s] = IF s = {} THEN base ELSE Do(op, h[s \ {Max(s)}], l[Max(s)])
  BY DEF Folding
<1>2. 1..0 = {} /\ 1..0 \in SUBSET (1..n)
  OBVIOUS
<1>3. ASSUME NEW k \in 1..n
      PROVE  g[k] = Do(op, g[k - 1], l[k])
  <2>1. 1..k \in SUBSET (1..n) /\ 1..k # {} /\ k \in 1..k /\ (1..k) \ {k} = 1..(k - 1)
    OBVIOUS
  <2>2. Max(1..k) = k
    BY <2>1, GreatestPlace
  <2>3. h[1..k] = Do(op, h[1..(k - 1)], l[k])
    BY <1>1, <2>1, <2>2
  <2>4. g[k] = h[1..k] /\ g[k - 1] = h[1..(k - 1)]
    OBVIOUS
  <2> HIDE DEF g
  <2> QED
    BY <2>3, <2>4
<1>4. g[0] = h[1..0] /\ g[n] = h[1..n]
  OBVIOUS
<1>5. h[1..0] = base
  BY <1>1, <1>2
<1> HIDE DEF g
<1> QED
  BY <1>3, <1>4, <1>5 DEF Running

\* The parser at work on a file.
Fresh == [at |-> Parts.nothing, cur |-> None, out |-> <<>>]

Read(file) == FoldLeft(Parse, Fresh, file)

\* The fold of the library is what a run of the parser ends with.
LEMMA ReadRuns ==
    ASSUME NEW l, NEW n \in Nat, DOMAIN l = 1..n
    PROVE  \E g : Running(g, "parse", Fresh, l, n) /\ g[n] = Read(l)
<1> DEFINE Is(h) == h = [s \in SUBSET (1..n) |->
                          IF s = {} THEN Fresh ELSE Parse(h[s \ {Max(s)}], l[Max(s)])]
           k == CHOOSE h : Is(h)
<1>1. PICK h : Folding(h, "parse", Fresh, l, n)
  BY FoldingExists
<1>2. \A f : Is(f) <=> Folding(f, "parse", Fresh, l, n)
  BY DEF Folding, Do
<1>3. Is(k)
  BY <1>1, <1>2
<1>4. k[1..n] = Read(l)
  BY DEF FoldLeft, MapThenFoldSet, Read
<1>5. Folding(k, "parse", Fresh, l, n)
  BY <1>2, <1>3
<1> HIDE DEF k
<1> QED
  BY <1>4, <1>5, FoldingRuns

\* The sealed entries of a list.
SealedOf(l) == FoldLeft(Collect, <<>>, l)

\* So is the fold that lists them.
LEMMA SealedRuns ==
    ASSUME NEW l, NEW n \in Nat, DOMAIN l = 1..n
    PROVE  \E g : Running(g, "collect", <<>>, l, n) /\ g[n] = SealedOf(l)
<1> DEFINE Is(h) == h = [s \in SUBSET (1..n) |->
                          IF s = {} THEN <<>> ELSE Collect(h[s \ {Max(s)}], l[Max(s)])]
           k == CHOOSE h : Is(h)
<1>1. PICK h : Folding(h, "collect", <<>>, l, n)
  BY FoldingExists
<1>2. \A f : Is(f) <=> Folding(f, "collect", <<>>, l, n)
  BY DEF Folding, Do
<1>3. Is(k)
  BY <1>1, <1>2
<1>4. k[1..n] = SealedOf(l)
  BY DEF FoldLeft, MapThenFoldSet, SealedOf
<1>5. Folding(k, "collect", <<>>, l, n)
  BY <1>2, <1>3
<1> HIDE DEF k
<1> QED
  BY <1>4, <1>5, FoldingRuns

\* Two lists agree up to the place n.
SameUpTo(r, s, n) == \A i \in 1..n : r[i] = s[i]

\* The runs on two lists agree as far as the lists do.
LEMMA RunsAgree ==
    ASSUME NEW g, NEW h, NEW op, NEW base, NEW r, NEW s, NEW n \in Nat, NEW m \in Nat, n <= m,
           Running(g, op, base, r, n), Running(h, op, base, s, m), SameUpTo(r, s, n)
    PROVE  g[n] = h[n]
<1> DEFINE Bad == {k \in 0..n : g[k] # h[k]}
<1> SUFFICES ASSUME Bad # {}
             PROVE  FALSE
  OBVIOUS
<1>0. Bad \in SUBSET Nat
  OBVIOUS
<1>1. PICK k \in Bad : \A j \in Bad : k <= j
  BY <1>0, Least, Zenon
<1>2. k # 0
  BY DEF Running
<1>3. k \in 1..n /\ k \in 1..m /\ k - 1 \in 0..n /\ ~(k <= k - 1)
  BY <1>2
<1>4. g[k - 1] = h[k - 1]
  BY <1>1, <1>3
<1>5. /\ g[k] = Do(op, g[k - 1], r[k])
      /\ h[k] = Do(op, h[k - 1], s[k])
  BY <1>3 DEF Running
<1>6. r[k] = s[k]
  BY <1>3 DEF SameUpTo
<1> QED
  BY <1>4, <1>5, <1>6

-----------------------------------------------------------------------------
(* What the parser reads.                                                   *)

\* The blocks whose seal is in H, or who have none.
Hashed(H) == {b \in Block : b.hash \in H \cup {None}}

\* The parser reading blocks of T.
Reads(T, s) ==
    /\ s.at \in 0..3
    /\ s.out \in Seq(T)
    /\ s.at # 0 => s.cur \in T

\* Nothing read yet.
LEMMA ReadEmpty == Read(<<>>) = Fresh
<1>1. DOMAIN <<>> = 1..0
  OBVIOUS
<1>2. PICK g : Running(g, "parse", Fresh, <<>>, 0) /\ g[0] = Read(<<>>)
  BY <1>1, ReadRuns
<1> QED
  BY <1>2 DEF Running

\* One more block is one more step.
LEMMA ReadAppend ==
    ASSUME NEW T, NEW l \in Seq(T), NEW b \in T
    PROVE  Read(Append(l, b)) = Parse(Read(l), b)
<1> DEFINE n == Len(l)
           m == n + 1
           r == Append(l, b)
<1>1. /\ n \in Nat /\ m \in Nat /\ n <= m /\ m \in 1..m /\ m - 1 = n
      /\ DOMAIN l = 1..n /\ DOMAIN r = 1..m
      /\ r[m] = b /\ \A i \in 1..n : l[i] = r[i]
  BY LenProperties, AppendProperties
<1> HIDE DEF n, r
<1> HIDE DEF m
<1>2. PICK g : Running(g, "parse", Fresh, l, n) /\ g[n] = Read(l)
  BY <1>1, ReadRuns
<1>3. PICK h : Running(h, "parse", Fresh, r, m) /\ h[m] = Read(r)
  BY <1>1, ReadRuns
<1>4. SameUpTo(l, r, n)
  BY <1>1 DEF SameUpTo
<1>5. g[n] = h[n]
  BY <1>1, <1>2, <1>3, <1>4, RunsAgree
<1>6. h[m] = Do("parse", h[n], r[m])
  BY <1>1, <1>3 DEF Running
<1>7. Read(r) = Parse(Read(l), b)
  BY <1>1, <1>2, <1>3, <1>5, <1>6 DEF Do
<1> QED
  BY <1>7 DEF r

\* A block with the content x.
With(b, x) == [b EXCEPT !.c = x]

\* It is a block, with the same seal.
LEMMA WithBlock ==
    ASSUME NEW b \in Block, NEW x \in Content
    PROVE  /\ With(b, x) \in Block /\ With(b, x).c = x
           /\ With(b, x).hash = b.hash /\ With(b, x).prev = b.prev /\ With(b, x).end = b.end
  BY DEF With, Block

\* What an entry becomes is one of the two, with another content at most.
LEMMA ContinueForms ==
    ASSUME NEW at \in 0..3, NEW cur, at # 0 => cur \in Block, NEW b \in Block
    PROVE  LET e == Continue(at, cur, b)
           IN  /\ at = 0 => e = b
               /\ at \in {1, 2} /\ b.end >= 2 =>
                     \E x \in Content : x.body = b.c.body /\ e = With(b, x)
               /\ at \in {1, 2} /\ ~(b.end >= 2) => e = cur
               /\ at = 3 => \E x \in Content : x.body = Edited /\ e = With(cur, x)
<1>1. b.c \in Content /\ (at # 0 => cur.c \in Content)
  BY DEF Block
<1>2. CASE at = 0
  BY <1>2 DEF Continue, Parts
<1>3. CASE at = 1 /\ b.end >= 2
  <2> DEFINE x == [b.c EXCEPT !.key = cur.c.key]
  <2>1. x \in Content /\ x.body = b.c.body
    BY <1>1, <1>3 DEF Content
  <2>2. Continue(at, cur, b) = [b EXCEPT !.c.key = cur.c.key]
    BY <1>3 DEF Continue, Parts
  <2>3. [b EXCEPT !.c.key = cur.c.key] = With(b, x)
    BY DEF With
  <2> HIDE DEF x
  <2> QED
    BY <1>3, <2>1, <2>2, <2>3
<1>4. CASE at = 2 /\ b.end >= 2
  <2> DEFINE x == [b.c EXCEPT !.key = cur.c.key, !.attrs = b.c.attrs \cup cur.c.attrs]
  <2>0. b.c.attrs \cup cur.c.attrs \in SUBSET Attrs /\ cur.c.key \in Keys
    BY <1>1, <1>4 DEF Content
  <2>1. x \in Content /\ x.body = b.c.body
    BY <1>1, <2>0 DEF Content
  <2>2. Continue(at, cur, b) = [b EXCEPT !.c.key = cur.c.key, !.c.attrs = @ \cup cur.c.attrs]
    BY <1>4 DEF Continue, Parts
  <2>3. [b EXCEPT !.c.key = cur.c.key, !.c.attrs = @ \cup cur.c.attrs] = With(b, x)
    BY DEF With, Block
  <2> HIDE DEF x
  <2> QED
    BY <1>4, <2>1, <2>2, <2>3
<1>5. CASE at = 3
  <2> DEFINE x == [cur.c EXCEPT !.body = Edited]
  <2>1. x \in Content /\ x.body = Edited
    BY <1>1, <1>5 DEF Content
  <2>2. Continue(at, cur, b) = [cur EXCEPT !.c.body = Edited]
    BY <1>5 DEF Continue, Parts
  <2>3. [cur EXCEPT !.c.body = Edited] = With(cur, x)
    BY DEF With
  <2> HIDE DEF x
  <2> QED
    BY <1>5, <2>1, <2>2, <2>3
<1>6. CASE at \in {1, 2} /\ ~(b.end >= 2)
  BY <1>6 DEF Continue, Parts
<1> QED
  BY <1>2, <1>3, <1>4, <1>5, <1>6

\* What an entry becomes has the seal of one of the two.
LEMMA ContinueIn ==
    ASSUME NEW H, NEW at \in 0..3, NEW cur, at # 0 => cur \in Hashed(H), NEW b \in Hashed(H)
    PROVE  Continue(at, cur, b) \in Hashed(H)
<1>1. b \in Block /\ (at # 0 => cur \in Block)
  BY DEF Hashed
<1>2. at = 0 \/ at = 3 \/ at \in {1, 2}
  OBVIOUS
<1>3. \A x \in Content : With(b, x) \in Hashed(H) /\ (at # 0 => With(cur, x) \in Hashed(H))
  BY <1>1, WithBlock DEF Hashed
<1> QED
  BY <1>1, <1>2, <1>3, ContinueForms

\* One block parsed.
LEMMA ParseIn ==
    ASSUME NEW H, NEW s, Reads(Hashed(H), s), NEW b \in Hashed(H)
    PROVE  Reads(Hashed(H), Parse(s, b))
<1> DEFINE c == Continue(s.at, s.cur, b)
           T == Hashed(H)
<1>1. c \in T
  BY ContinueIn DEF Reads
<1>2. b.end \in 1..4
  BY DEF Hashed, Block
<1> HIDE DEF c, T
<1>3. CASE b.end = 4
  <2>1. Parse(s, b) = [at |-> 0, cur |-> c, out |-> Append(s.out, c)]
    BY <1>3 DEF Parse, Parts, c
  <2>2. Append(s.out, c) \in Seq(T)
    BY <1>1, AppendProperties DEF Reads, T
  <2> QED
    BY <2>1, <2>2 DEF Reads, T
<1>4. CASE b.end # 4
  <2>1. Parse(s, b) = [at |-> IF b.end > s.at THEN b.end ELSE s.at, cur |-> c, out |-> s.out]
    BY <1>4 DEF Parse, Parts, c
  <2> QED
    BY <1>1, <1>2, <1>4, <2>1 DEF Reads, T
<1> QED
  BY <1>3, <1>4

\* A file parsed: the entries are made of what is in the file.
LEMMA ReadIn ==
    ASSUME NEW H, NEW l \in Seq(Hashed(H))
    PROVE  Reads(Hashed(H), Read(l))
<1> DEFINE n == Len(l)
           T == Hashed(H)
<1>1. n \in Nat /\ DOMAIN l = 1..n /\ \A i \in 1..n : l[i] \in T
  BY LenProperties, ElementOfSeq
<1> HIDE DEF n, T
<1>2. PICK g : Running(g, "parse", Fresh, l, n) /\ g[n] = Read(l)
  BY <1>1, ReadRuns
<1> DEFINE Bad == {k \in 0..n : ~Reads(T, g[k])}
<1> SUFFICES ASSUME Bad # {}
             PROVE  FALSE
  BY <1>1, <1>2 DEF T
<1>3. Bad \in SUBSET Nat
  OBVIOUS
<1>4. PICK k \in Bad : \A j \in Bad : k <= j
  BY <1>3, Least, Zenon
<1>5. k # 0
  <2>1. g[0] = Fresh
    BY <1>2 DEF Running
  <2>2. <<>> \in Seq(T)
    BY EmptySeq
  <2>3. Reads(T, Fresh)
    BY <2>2 DEF Reads, Fresh, Parts
  <2> QED
    BY <2>1, <2>3
<1>6. k \in 1..n /\ k - 1 \in 0..n /\ ~(k <= k - 1)
  BY <1>1, <1>5
<1>7. Reads(T, g[k - 1])
  BY <1>4, <1>6
<1>8. g[k] = Parse(g[k - 1], l[k])
  BY <1>2, <1>6 DEF Running, Do
<1> QED
  BY <1>1, <1>6, <1>7, <1>8, ParseIn DEF T

\* A file of whole blocks is read as it is.
LEMMA ReadWhole ==
    ASSUME NEW l \in Seq(Block), \A i \in 1..Len(l) : l[i].end = 4
    PROVE  Read(l).at = 0 /\ Read(l).out = l
<1> DEFINE n == Len(l)
           T == Block
<1>1. n \in Nat /\ DOMAIN l = 1..n /\ l \in Seq(T) /\ \A i \in 1..n : l[i] \in T
  BY LenProperties, ElementOfSeq
<1>2. \A i \in 1..n : l[i].end = 4
  OBVIOUS
<1> HIDE DEF n, T
<1>3. PICK g : Running(g, "parse", Fresh, l, n) /\ g[n] = Read(l)
  BY <1>1, ReadRuns
<1> DEFINE Bad == {k \in 0..n : ~(g[k].at = 0 /\ g[k].out = SubSeq(l, 1, k))}
<1>4. SubSeq(l, 1, n) = l
  BY <1>1, SubSeqFull DEF n
<1>0. Bad = {} => Read(l).at = 0 /\ Read(l).out = l
  <2>1. n \in 0..n
    BY <1>1
  <2> QED
    BY <1>3, <1>4, <2>1
<1> SUFFICES ASSUME Bad # {}
             PROVE  FALSE
  BY <1>0
<1>5. Bad \in SUBSET Nat
  OBVIOUS
<1>6. PICK k \in Bad : \A j \in Bad : k <= j
  BY <1>5, Least, Zenon
<1>7. k # 0
  <2>1. g[0] = Fresh
    BY <1>3 DEF Running
  <2>2. SubSeq(l, 1, 0) = <<>>
    BY SubSeqEmpty
  <2>3. Fresh.at = 0 /\ Fresh.out = <<>>
    BY DEF Fresh, Parts
  <2> QED
    BY <2>1, <2>2, <2>3
<1>8. k \in 1..n /\ k - 1 \in 0..n /\ ~(k <= k - 1)
  BY <1>1, <1>7
<1>9. g[k - 1].at = 0 /\ g[k - 1].out = SubSeq(l, 1, k - 1)
  BY <1>6, <1>8
<1>10. g[k] = Parse(g[k - 1], l[k])
  BY <1>3, <1>8 DEF Running, Do
<1>11. g[k] = [at |-> 0, cur |-> l[k], out |-> Append(g[k - 1].out, l[k])]
  BY <1>2, <1>8, <1>9, <1>10 DEF Parse, Parts, Continue
<1>12. Append(SubSeq(l, 1, k - 1), l[k]) = SubSeq(l, 1, k)
  <2> DEFINE a == SubSeq(l, 1, k - 1)
             c == SubSeq(l, 1, k)
  <2>1. a \in Seq(T) /\ Len(a) = k - 1 /\ \A i \in 1..(k - 1) : a[i] = l[i]
    BY <1>1, <1>8, SubSeqProperties
  <2>2. c \in Seq(T) /\ Len(c) = k /\ \A i \in 1..k : c[i] = l[i]
    BY <1>1, <1>8, SubSeqProperties
  <2> HIDE DEF a, c
  <2>3. /\ Append(a, l[k]) \in Seq(T) /\ Len(Append(a, l[k])) = k
        /\ \A i \in 1..k : Append(a, l[k])[i] = IF i = k THEN l[k] ELSE a[i]
    BY <1>1, <1>8, <2>1, AppendProperties
  <2>4. \A i \in 1..k : Append(a, l[k])[i] = c[i]
    BY <1>8, <2>1, <2>2, <2>3
  <2>5. Append(a, l[k]) = c
    BY <2>2, <2>3, <2>4, SeqEqual
  <2> QED
    BY <2>5 DEF a, c
<1>13. g[k].at = 0 /\ g[k].out = Append(g[k - 1].out, l[k])
  BY <1>11
<1> QED
  BY <1>9, <1>12, <1>13

-----------------------------------------------------------------------------
(* The daily files one after the other.                                     *)

\* f[i] is the first i lists joined.
Joining(f, s) ==
    /\ f[1] = s[1]
    /\ \A i \in 2..Len(s) : f[i] = f[i - 1] \o s[i]

\* The function of the library exists.
LEMMA JoiningExists ==
    ASSUME NEW s, Len(s) \in Nat \ {0}
    PROVE  \E f : Joining(f, s) /\ FlattenSeq(s) = f[Len(s)]
<1> DEFINE N == Len(s)
           Is(g, n) == g = [i \in 1..n |-> IF i = 1 THEN s[i] ELSE g[i - 1] \o s[i]]
           Bad == {n \in Nat : ~ \E g : Is(g, n)}
<1>1. ASSUME Bad # {}
      PROVE  FALSE
  <2>1. PICK k \in Bad : \A j \in Bad : k <= j
    BY <1>1, Least
  <2>2. k # 0
    <3> DEFINE g == [i \in 1..0 |-> s[i]]
    <3>1. Is(g, 0)
      OBVIOUS
    <3> QED
      BY <3>1
  <2>3. k - 1 \in Nat /\ ~(k <= k - 1)
    BY <2>2
  <2>4. PICK g : Is(g, k - 1)
    BY <2>1, <2>3
  <2> DEFINE h == [i \in 1..k |-> IF i = k THEN IF i = 1 THEN s[i] ELSE g[k - 1] \o s[i] ELSE g[i]]
  <2>5. ASSUME NEW i \in 1..k
        PROVE  h[i] = IF i = 1 THEN s[i] ELSE h[i - 1] \o s[i]
    <3>1. CASE i = k
      <4>1. i # 1 => h[k - 1] = g[k - 1] /\ k - 1 \in 1..k
        BY <3>1
      <4>2. h[k] = IF k = 1 THEN s[k] ELSE g[k - 1] \o s[k]
        BY <3>1
      <4> HIDE DEF h
      <4> QED
        BY <3>1, <4>1, <4>2
    <3>2. CASE i # k
      <4>1. i \in 1..(k - 1) /\ (i # 1 => i - 1 \in 1..(k - 1))
        BY <3>2
      <4>2. g[i] = IF i = 1 THEN s[i] ELSE g[i - 1] \o s[i]
        BY <2>4, <4>1
      <4>3. h[i] = g[i] /\ (i # 1 => h[i - 1] = g[i - 1])
        BY <3>2, <4>1
      <4> HIDE DEF h
      <4> QED
        BY <4>2, <4>3
    <3> QED
      BY <3>1, <3>2
  <2>6. Is(h, k)
    <3>1. h = [i \in 1..k |-> h[i]]
      OBVIOUS
    <3> HIDE DEF h
    <3> QED
      BY <2>5, <3>1
  <2> QED
    BY <2>1, <2>6
<1>2. PICK h : Is(h, N)
  BY <1>1
<1> DEFINE f == CHOOSE g : Is(g, N)
<1>3. Is(f, N)
  BY <1>2
<1>4. FlattenSeq(s) = f[N]
  BY DEF FlattenSeq
<1> HIDE DEF f
<1>5. Joining(f, s)
  <2>3. \A i \in 2..N : i \in 1..N /\ i # 1
    OBVIOUS
  <2>1. \A i \in 1..N : f[i] = IF i = 1 THEN s[i] ELSE f[i - 1] \o s[i]
    BY <1>3
  <2>2. 1 \in 1..N
    OBVIOUS
  <2> QED
    BY <2>1, <2>2, <2>3 DEF Joining
<1> QED
  BY <1>4, <1>5

\* Two lists joined are the one and then the other.
LEMMA TwoPieces ==
    ASSUME NEW T, NEW a \in Seq(T), NEW c \in Seq(T)
    PROVE  /\ a \o c \in Seq(T) /\ Len(a \o c) = Len(a) + Len(c)
           /\ Len(a) \in Nat /\ Len(c) \in Nat
           /\ \A i \in 1..Len(a) : (a \o c)[i] = a[i]
           /\ \A j \in 1..Len(c) : (a \o c)[Len(a) + j] = c[j]
<1> DEFINE la == Len(a)
           lc == Len(c)
           x == a \o c
<1>1. /\ la \in Nat /\ lc \in Nat /\ x \in Seq(T) /\ Len(x) = la + lc
      /\ \A i \in 1..(la + lc) : x[i] = IF i <= la THEN a[i] ELSE c[i - la]
  BY LenProperties, ConcatProperties
<1> HIDE DEF la, lc, x
<1>2. \A i \in 1..la : i \in 1..(la + lc) /\ i <= la
  BY <1>1
<1>3. \A j \in 1..lc : la + j \in 1..(la + lc) /\ ~(la + j <= la) /\ (la + j) - la = j
  BY <1>1
<1>4. \A i \in 1..la : x[i] = a[i]
  BY <1>1, <1>2
<1>5. ASSUME NEW j \in 1..lc
      PROVE  x[la + j] = c[j]
  <2>1. x[la + j] = c[(la + j) - la]
    BY <1>1, <1>3
  <2>2. (la + j) - la = j
    BY <1>3
  <2> QED
    BY <2>1, <2>2
<1> QED
  BY <1>1, <1>4, <1>5 DEF la, lc, x

\* Every element of y is in one of the first i lists, and each of those is in y
\* in one piece.
Within(y, s, i) == \A p \in 1..Len(y) : \E d \in 1..i : \E j \in 1..Len(s[d]) : y[p] = s[d][j]

Piece(y, l) ==
    \E off \in Nat : off + Len(l) <= Len(y) /\ \A j \in 1..Len(l) : y[off + j] = l[j]

Joined(y, s, T, i) ==
    /\ y \in Seq(T)
    /\ Within(y, s, i)
    /\ \A d \in 1..i : Piece(y, s[d])

\* A piece of the first of two lists is one of the whole.
LEMMA PieceKept ==
    ASSUME NEW T, NEW a \in Seq(T), NEW c \in Seq(T), NEW l \in Seq(T), Piece(a, l)
    PROVE  Piece(a \o c, l)
<1> DEFINE la == Len(a)
           lc == Len(c)
           ll == Len(l)
           x == a \o c
<1>1. /\ la \in Nat /\ lc \in Nat /\ ll \in Nat /\ Len(x) = la + lc
      /\ \A i \in 1..la : x[i] = a[i]
  BY TwoPieces, LenProperties
<1>2. PICK off \in Nat : off + ll <= la /\ \A j \in 1..ll : a[off + j] = l[j]
  BY DEF Piece
<1> HIDE DEF la, lc, ll, x
<1>3. off + ll <= la + lc /\ \A j \in 1..ll : off + j \in 1..la
  BY <1>1, <1>2
<1>4. \A j \in 1..ll : x[off + j] = l[j]
  BY <1>1, <1>2, <1>3
<1>5. off + ll <= Len(x)
  BY <1>1, <1>3
<1> QED
  BY <1>4, <1>5 DEF Piece, ll, x

ListsOf(T, s, k) == \A d \in 1..k : s[d] \in Seq(T)

\* One list more.
LEMMA JoinedNext ==
    ASSUME NEW T, NEW s, NEW k \in Nat, k > 1, NEW a, Joined(a, s, T, k - 1),
           ListsOf(T, s, k)
    PROVE  Joined(a \o s[k], s, T, k)
<1> DEFINE c == s[k]
           la == Len(a)
           lc == Len(c)
           x == a \o c
<1>1. k \in 1..k /\ \A d \in 1..k : d = k \/ d \in 1..(k - 1)
  OBVIOUS
<1>2. a \in Seq(T) /\ c \in Seq(T)
  BY <1>1 DEF Joined, ListsOf
<1>3. /\ la \in Nat /\ lc \in Nat /\ x \in Seq(T) /\ Len(x) = la + lc
      /\ \A i \in 1..la : x[i] = a[i]
      /\ \A j \in 1..lc : x[la + j] = c[j]
  BY <1>2, TwoPieces
<1>4. Piece(x, c)
  <2>1. la + Len(c) <= Len(x)
    BY <1>3
  <2> HIDE DEF x, la
  <2> QED
    BY <1>3, <2>1 DEF Piece
<1>5. \A d \in 1..(k - 1) : Piece(x, s[d])
  BY <1>1, <1>2, PieceKept DEF Joined, ListsOf
<1> HIDE DEF la, lc, x
<1>6. ASSUME NEW p \in 1..Len(x)
      PROVE  \E d \in 1..k : \E j \in 1..Len(s[d]) : x[p] = s[d][j]
  <2>1. p \in 1..la \/ \E j \in 1..lc : p = la + j
    <3>1. p \in 1..la \/ (p - la \in 1..lc /\ p = la + (p - la))
      BY <1>3
    <3> QED
      BY <3>1
  <2>2. CASE p \in 1..la
    <3>1. PICK d \in 1..(k - 1) : \E j \in 1..Len(s[d]) : a[p] = s[d][j]
      BY <2>2 DEF Joined, Within, la
    <3>2. d \in 1..k /\ x[p] = a[p]
      BY <1>3, <2>2, <3>1
    <3> QED
      BY <3>1, <3>2
  <2>3. CASE \E j \in 1..lc : p = la + j
    BY <1>1, <1>3, <2>3 DEF lc
  <2> QED
    BY <2>1, <2>2, <2>3
<1>7. Within(x, s, k)
  BY <1>6 DEF Within
<1>8. \A d \in 1..k : Piece(x, s[d])
  BY <1>1, <1>4, <1>5
<1> QED
  BY <1>3, <1>7, <1>8 DEF Joined, x

\* All of them.
LEMMA JoinedAll ==
    ASSUME NEW T, NEW s, NEW N \in Nat \ {0}, Len(s) = N, \A d \in 1..N : s[d] \in Seq(T),
           NEW f, Joining(f, s)
    PROVE  \A i \in 1..N : Joined(f[i], s, T, i)
<1> DEFINE Bad == {k \in 1..N : ~Joined(f[k], s, T, k)}
<1> SUFFICES ASSUME Bad # {}
             PROVE  FALSE
  OBVIOUS
<1>1. Bad \in SUBSET Nat
  OBVIOUS
<1>2. PICK k \in Bad : \A j \in Bad : k <= j
  BY <1>1, Least, Zenon
<1>3. k # 1
  <2>1. f[1] = s[1] /\ s[1] \in Seq(T) /\ 1..1 = {1}
    BY DEF Joining
  <2> DEFINE l == s[1]
             ll == Len(l)
  <2>2. ll \in Nat
    BY <2>1, LenProperties
  <2>3. 0 + ll <= ll /\ \A j \in 1..ll : 0 + j = j
    <3> HIDE DEF ll
    <3> QED
      BY <2>2
  <2>4. Piece(l, l)
    BY <2>3 DEF Piece
  <2>5. Within(l, s, 1)
    BY <2>1 DEF Within
  <2>6. Joined(f[1], s, T, 1)
    BY <2>1, <2>4, <2>5 DEF Joined
  <2> QED
    BY <2>6
<1>4. k \in Nat /\ k > 1 /\ k \in 2..N /\ k \in 1..N /\ k - 1 \in 1..N /\ ~(k <= k - 1)
  BY <1>3
<1>5. Joined(f[k - 1], s, T, k - 1)
  BY <1>2, <1>4
<1>6. f[k] = f[k - 1] \o s[k]
  BY <1>4 DEF Joining
<1>7. ListsOf(T, s, k)
  BY <1>4 DEF ListsOf
<1>8. Joined(f[k], s, T, k)
  BY <1>4, <1>5, <1>6, <1>7, JoinedNext
<1> QED
  BY <1>8

\* One more at the end of the second of two lists.
LEMMA JoinAppend ==
    ASSUME NEW T, NEW a \in Seq(T), NEW c \in Seq(T), NEW x \in T
    PROVE  a \o Append(c, x) = Append(a \o c, x)
<1> DEFINE la == Len(a)
           lc == Len(c)
           b == a \o c
           d == Append(c, x)
           u == a \o d
           v == Append(b, x)
<1>1. /\ la \in Nat /\ lc \in Nat /\ b \in Seq(T) /\ Len(b) = la + lc
      /\ \A i \in 1..la : b[i] = a[i]
      /\ \A j \in 1..lc : b[la + j] = c[j]
  BY TwoPieces
<1>2. d \in Seq(T) /\ Len(d) = lc + 1 /\ d[lc + 1] = x /\ \A j \in 1..lc : d[j] = c[j]
  BY AppendProperties
<1>3. /\ v \in Seq(T) /\ Len(v) = Len(b) + 1 /\ v[Len(b) + 1] = x
      /\ \A i \in 1..Len(b) : v[i] = b[i]
  BY <1>1, AppendProperties
<1>4. /\ u \in Seq(T) /\ Len(u) = la + Len(d)
      /\ \A i \in 1..la : u[i] = a[i]
      /\ \A j \in 1..Len(d) : u[la + j] = d[j]
  BY <1>2, TwoPieces
<1> HIDE DEF la, lc, b, d, u, v
<1>5. Len(u) = Len(v) /\ Len(v) = (la + lc) + 1
  BY <1>1, <1>2, <1>3, <1>4
<1>6. ASSUME NEW i \in 1..Len(u)
      PROVE  u[i] = v[i]
  <2>1. i \in 1..la \/ (\E j \in 1..lc : i = la + j) \/ i = la + (lc + 1)
    <3>1. i \in 1..la \/ (i - la \in 1..lc /\ i = la + (i - la)) \/ i = la + (lc + 1)
      BY <1>1, <1>5
    <3> QED
      BY <3>1
  <2>2. CASE i \in 1..la
    <3>1. u[i] = a[i] /\ b[i] = a[i] /\ i \in 1..Len(b)
      BY <1>1, <1>4, <2>2
    <3> QED
      BY <1>3, <3>1
  <2>3. CASE \E j \in 1..lc : i = la + j
    <3>1. PICK j \in 1..lc : i = la + j
      BY <2>3
    <3>2. j \in 1..Len(d) /\ i \in 1..Len(b)
      BY <1>1, <1>2, <3>1
    <3>3. u[i] = d[j] /\ d[j] = c[j] /\ b[i] = c[j] /\ v[i] = b[i]
      BY <1>1, <1>2, <1>3, <1>4, <3>1, <3>2
    <3> QED
      BY <3>3
  <2>4. CASE i = la + (lc + 1)
    <3>1. lc + 1 \in 1..Len(d) /\ i = Len(b) + 1
      BY <1>1, <1>2, <2>4
    <3>2. u[la + (lc + 1)] = d[lc + 1]
      BY <1>4, <3>1
    <3> QED
      BY <1>2, <1>3, <2>4, <3>1, <3>2
  <2> QED
    BY <2>1, <2>2, <2>3, <2>4
<1> QED
  BY <1>3, <1>4, <1>5, <1>6, SeqEqual DEF u, v, d, b

\* s is r with x at the end of the list t, after which all are empty.
Grows(r, s, t, x, N) ==
    /\ N \in Nat \ {0} /\ t \in 1..N /\ Len(r) = N /\ Len(s) = N
    /\ s[t] = Append(r[t], x)
    /\ \A d \in 1..N : d # t => s[d] = r[d]
    /\ \A d \in 1..N : d > t => r[d] = <<>>

\* One more at the end of a list after which all are empty is one more at the end.
LEMMA JoinedAppend ==
    ASSUME NEW T, NEW r, NEW s, NEW t, NEW x \in T, NEW N,
           ListsOf(T, r, N), Grows(r, s, t, x, N)
    PROVE  FlattenSeq(s) = Append(FlattenSeq(r), x)
<1>0. /\ N \in Nat \ {0} /\ t \in 1..N /\ Len(r) = N /\ Len(s) = N
      /\ \A d \in 1..N : r[d] \in Seq(T)
      /\ s[t] = Append(r[t], x)
      /\ \A d \in 1..N : d # t => s[d] = r[d]
      /\ \A d \in 1..N : d > t => r[d] = <<>>
  BY DEF ListsOf, Grows
<1>1. PICK f : Joining(f, r) /\ FlattenSeq(r) = f[N]
  BY <1>0, JoiningExists
<1>2. PICK g : Joining(g, s) /\ FlattenSeq(s) = g[N]
  BY <1>0, JoiningExists
<1>3. \A d \in 1..N : s[d] \in Seq(T)
  <2>1. Append(r[t], x) \in Seq(T)
    BY <1>0, AppendProperties
  <2> QED
    BY <1>0, <2>1
<1>4. \A i \in 1..N : f[i] \in Seq(T)
  <2>1. \A i \in 1..N : Joined(f[i], r, T, i)
    BY <1>0, <1>1, JoinedAll
  <2> QED
    BY <2>1 DEF Joined
<1>5. \A i \in 1..N : g[i] \in Seq(T)
  <2>1. \A i \in 1..N : Joined(g[i], s, T, i)
    BY <1>0, <1>2, <1>3, JoinedAll
  <2> QED
    BY <2>1 DEF Joined
<1> DEFINE Bad == {i \in 1..N : g[i] # IF i < t THEN f[i] ELSE Append(f[i], x)}
<1>6. ASSUME Bad # {}
      PROVE  FALSE
  <2>1. Bad \in SUBSET Nat
    BY <1>0
  <2>2. PICK k \in Bad : \A j \in Bad : k <= j
    BY <1>6, <2>1, Least, Zenon
  <2>3. k \in 1..N /\ g[k] # IF k < t THEN f[k] ELSE Append(f[k], x)
    OBVIOUS
  <2>4. CASE k = 1
    <3>1. f[1] = r[1] /\ g[1] = s[1]
      BY <1>0, <1>1, <1>2 DEF Joining
    <3>2. CASE t = 1
      <4>1. g[1] = Append(f[1], x)
        BY <1>0, <3>1, <3>2
      <4> QED
        BY <2>3, <2>4, <3>2, <4>1
    <3>3. CASE t # 1
      <4>1. 1 < t /\ 1 \in 1..N /\ 1 # t
        BY <1>0, <3>3
      <4>2. g[1] = f[1]
        BY <1>0, <3>1, <4>1
      <4> QED
        BY <2>3, <2>4, <4>1, <4>2
    <3> QED
      BY <3>2, <3>3
  <2>5. CASE k # 1
    <3>1. k \in 2..N /\ k - 1 \in 1..N /\ ~(k <= k - 1)
      BY <1>0, <2>3, <2>5
    <3>2. g[k - 1] = IF k - 1 < t THEN f[k - 1] ELSE Append(f[k - 1], x)
      BY <2>2, <3>1
    <3>3. f[k] = f[k - 1] \o r[k] /\ g[k] = g[k - 1] \o s[k]
      BY <1>0, <1>1, <1>2, <3>1 DEF Joining
    <3>4. f[k - 1] \in Seq(T) /\ r[k] \in Seq(T) /\ g[k - 1] \in Seq(T) /\ f[k] \in Seq(T)
      BY <1>0, <1>4, <1>5, <3>1
    <3>5. CASE k < t
      <4>1. k - 1 < t /\ s[k] = r[k]
        BY <1>0, <3>1, <3>5
      <4>2. g[k] = f[k]
        BY <3>2, <3>3, <4>1
      <4> QED
        BY <2>3, <3>5, <4>2
    <3>6. CASE k = t
      <4>1. k - 1 < t /\ ~(k < t) /\ s[k] = Append(r[k], x)
        BY <1>0, <3>1, <3>6
      <4> DEFINE a == f[k - 1]
                 c == r[k]
      <4>2. g[k] = a \o Append(c, x) /\ f[k] = a \o c /\ a \in Seq(T) /\ c \in Seq(T)
        BY <3>2, <3>3, <3>4, <4>1
      <4> HIDE DEF a, c
      <4>4. a \o Append(c, x) = Append(a \o c, x)
        BY ONLY <4>2, x \in T, JoinAppend
      <4>6. g[k] = Append(f[k], x)
        BY <4>2, <4>4
      <4> QED
        BY <2>3, <4>1, <4>6
    <3>7. CASE k > t
      <4>1. r[k] = <<>> /\ s[k] = <<>> /\ ~(k - 1 < t) /\ ~(k < t)
        BY <1>0, <3>1, <3>7
      <4>2. f[k] = f[k - 1] /\ g[k] = g[k - 1]
        BY <3>3, <3>4, <4>1, ConcatEmptySeq
      <4> QED
        BY <2>3, <3>2, <4>1, <4>2
    <3> QED
      BY <1>0, <3>1, <3>5, <3>6, <3>7
  <2> QED
    BY <2>4, <2>5
<1>7. N \in 1..N /\ ~(N < t)
  BY <1>0
<1>8. g[N] = Append(f[N], x)
  BY <1>6, <1>7
<1> QED
  BY <1>1, <1>2, <1>8

-----------------------------------------------------------------------------
(* What the log holds, file by file and as a whole.                         *)

EntriesOf(fs) == [d \in 1..Days |-> Read(fs[d]).out]

AllOf(fs) == FlattenSeq(EntriesOf(fs))

\* Files whose seals are in H.
Filed(H) == [1..Days -> Seq(Hashed(H))]

\* Names for what Chain computes.
LEMMA Names == AllEntries = AllOf(files) /\ SealedEntries = SealedOf(AllOf(files))
<1>1. \A d \in 1..Days : Entries(files[d]) = Read(files[d]).out
  BY DEF Entries, Read, Fresh
<1>2. AllEntries = AllOf(files)
  BY <1>1 DEF AllEntries, AllOf, EntriesOf
<1> QED
  BY <1>2 DEF SealedEntries, SealedOf

\* The whole is made of the entries of the files, each file in one piece.
LEMMA AllIn ==
    ASSUME NEW H, NEW fs \in Filed(H)
    PROVE  /\ AllOf(fs) \in Seq(Hashed(H))
           /\ Within(AllOf(fs), EntriesOf(fs), Days)
           /\ \A d \in 1..Days : Piece(AllOf(fs), Read(fs[d]).out)
           /\ \A d \in 1..Days : Reads(Hashed(H), Read(fs[d]))
<1> DEFINE T == Hashed(H)
           s == EntriesOf(fs)
<1>1. \A d \in 1..Days : Reads(T, Read(fs[d]))
  BY ReadIn DEF Filed
<1>2. /\ Days \in Nat \ {0} /\ Days \in 1..Days
      /\ \A d \in 1..Days : s[d] = Read(fs[d]).out /\ s[d] \in Seq(T)
  BY <1>1, ChainAssumption DEF EntriesOf, Reads
<1>3. s \in Seq(Seq(T)) /\ Len(s) = Days
  <2>1. s = [d \in 1..Days |-> s[d]]
    BY DEF EntriesOf
  <2>2. s \in [1..Days -> Seq(T)]
    BY <1>2, <2>1
  <2> HIDE DEF s, T
  <2> QED
    BY <1>2, <2>2
<1> HIDE DEF T, s
<1>4. PICK f : Joining(f, s) /\ FlattenSeq(s) = f[Len(s)]
  BY <1>2, <1>3, JoiningExists
<1>5. Joined(f[Days], s, T, Days)
  BY <1>2, <1>3, <1>4, JoinedAll
<1>6. f[Days] = AllOf(fs)
  BY <1>3, <1>4 DEF AllOf, s
<1> QED
  BY <1>1, <1>2, <1>5, <1>6 DEF Joined, s, T

\* The files after t are empty.
EmptyAfter(fs, t) == \A d \in 1..Days : d > t => fs[d] = <<>>

\* The files with one block more at the end of one of them.
Longer(fs, t, b) == [fs EXCEPT ![t] = Append(@, b)]

\* The entry a block completes there.
Made(fs, t, b) == Continue(Read(fs[t]).at, Read(fs[t]).cur, b)

\* One more block in the last file that is not empty: the whole grows by what
\* the parser makes of it.
LEMMA AllAppend ==
    ASSUME NEW H, NEW fs \in Filed(H), NEW t \in 1..Days, NEW b \in Hashed(H),
           EmptyAfter(fs, t)
    PROVE  /\ b.end = 4 => AllOf(Longer(fs, t, b)) = Append(AllOf(fs), Made(fs, t, b))
           /\ b.end # 4 => AllOf(Longer(fs, t, b)) = AllOf(fs)
<1> DEFINE T == Hashed(H)
           gs == Longer(fs, t, b)
           e == Made(fs, t, b)
           r == EntriesOf(fs)
           s == EntriesOf(gs)
<1>1. /\ Days \in Nat \ {0} /\ gs[t] = Append(fs[t], b)
      /\ \A d \in 1..Days : d # t => gs[d] = fs[d]
      /\ \A d \in 1..Days : fs[d] \in Seq(T)
  BY ChainAssumption DEF Filed, Longer
<1>2. Read(gs[t]) = Parse(Read(fs[t]), b)
  BY <1>1, ReadAppend
<1>3. \A d \in 1..Days : Reads(T, Read(fs[d]))
  BY <1>1, ReadIn
<1>4. e \in T
  BY <1>3, ContinueIn DEF Reads, Made
<1>5. /\ \A d \in 1..Days : r[d] = Read(fs[d]).out /\ r[d] \in Seq(T)
      /\ \A d \in 1..Days : s[d] = Read(gs[d]).out
      /\ r = [d \in 1..Days |-> Read(fs[d]).out] /\ s = [d \in 1..Days |-> Read(gs[d]).out]
  BY <1>3 DEF EntriesOf, Reads
<1>6. \A d \in 1..Days : d # t => s[d] = r[d]
  BY <1>1, <1>5
<1> HIDE DEF T, gs, e
<1>7. CASE b.end = 4
  <2>1. s[t] = Append(r[t], e)
    BY <1>2, <1>5, <1>7 DEF Parse, Parts, Made, e
  <2>2. \A d \in 1..Days : d > t => r[d] = <<>>
    BY <1>5, ReadEmpty DEF Fresh, EmptyAfter
  <2>3. Len(r) = Days /\ Len(s) = Days
    BY <1>1, <1>5
  <2> HIDE DEF r, s
  <2>0. Days \in Nat \ {0} /\ t \in 1..Days
    BY <1>1
  <2>4. ListsOf(T, r, Days) /\ Grows(r, s, t, e, Days)
    BY <2>0, <2>3, <1>5, <1>6, <2>1, <2>2 DEF ListsOf, Grows
  <2>5. FlattenSeq(s) = Append(FlattenSeq(r), e)
    BY ONLY <1>4, <2>4, JoinedAppend
  <2> QED
    BY <1>7, <2>5 DEF AllOf, gs, e, r, s
<1>8. CASE b.end # 4
  <2>1. s[t] = r[t]
    BY <1>2, <1>5, <1>8 DEF Parse, Parts
  <2>2. s = r
    BY <1>5, <1>6, <2>1
  <2> QED
    BY <1>8, <2>2 DEF AllOf, gs
<1> QED
  BY <1>7, <1>8

\* The last sealed entry of a list.
SealedIn(l) == {i \in DOMAIN l : l[i].hash # None}

LastOf(l) == IF SealedIn(l) = {} THEN None ELSE l[Max(SealedIn(l))].hash

\* A set of places has a greatest.
LEMMA Greatest ==
    ASSUME NEW n \in Nat, NEW S \in SUBSET (1..n), S # {}
    PROVE  Max(S) \in S /\ \A i \in S : i <= Max(S)
<1> DEFINE Bound == {k \in Nat : \A i \in S : i <= k}
<1>1. n \in Bound
  OBVIOUS
<1>2. PICK k \in Bound : \A j \in Bound : k <= j
  BY <1>1, Least
<1>3. k \in S
  <2>1. SUFFICES ASSUME k \notin S
                 PROVE  FALSE
    OBVIOUS
  <2>2. PICK x \in S : TRUE
    OBVIOUS
  <2>3. x \in 1..n /\ x <= k
    BY <1>2, <2>2
  <2>4. k - 1 \in Nat /\ ~(k <= k - 1)
    BY <2>3
  <2>5. \A i \in S : i <= k - 1
    BY <1>2, <2>1
  <2> QED
    BY <1>2, <2>4, <2>5
<1>4. \E x \in S : \A y \in S : x >= y
  BY <1>2, <1>3
<1>5. Max(S) \in S /\ \A y \in S : Max(S) >= y
  BY <1>4, Zenon DEF Max
<1> QED
  BY <1>5

\* The last seal is that of an entry, after which none is sealed.
LEMMA LastFacts ==
    ASSUME NEW H, NEW l \in Seq(Hashed(H))
    PROVE  /\ LastOf(l) \in H \cup {None}
           /\ SealedIn(l) = {} => LastOf(l) = None
           /\ SealedIn(l) # {} =>
                 \E m \in 1..Len(l) : /\ l[m].hash = LastOf(l) /\ l[m].hash # None
                                      /\ \A j \in 1..Len(l) : j > m => l[j].hash = None
<1>1. Len(l) \in Nat /\ DOMAIN l = 1..Len(l) /\ \A i \in 1..Len(l) : l[i] \in Hashed(H)
  BY LenProperties, ElementOfSeq
<1>2. CASE SealedIn(l) = {}
  BY <1>2 DEF LastOf
<1>3. CASE SealedIn(l) # {}
  <2> DEFINE m == Max(SealedIn(l))
  <2>1. SealedIn(l) \in SUBSET (1..Len(l))
    BY <1>1 DEF SealedIn
  <2>2. m \in SealedIn(l) /\ \A i \in SealedIn(l) : i <= m
    BY <1>1, <1>3, <2>1, Greatest
  <2>3. LastOf(l) = l[m].hash
    BY <1>3 DEF LastOf
  <2> HIDE DEF m
  <2>4. m \in 1..Len(l) /\ l[m].hash # None
    BY <1>1, <2>2 DEF SealedIn
  <2>5. \A j \in 1..Len(l) : j > m => l[j].hash = None
    BY <1>1, <2>2, <2>4 DEF SealedIn
  <2>6. l[m].hash \in H \cup {None}
    BY <1>1, <2>4 DEF Hashed
  <2> QED
    BY <1>3, <2>3, <2>4, <2>5, <2>6
<1> QED
  BY <1>2, <1>3

\* The seal a restart finds.
LEMMA LastSealIs == LastSeal = LastOf(AllOf(files))
  BY Names DEF LastSeal, LastOf, SealedIn

\* One place of a list removed.
LEMMA Removed ==
    ASSUME NEW T, NEW s \in Seq(T), NEW i \in 1..Len(s)
    PROVE  /\ RemoveAt(s, i) \in Seq(T)
           /\ Len(RemoveAt(s, i)) = Len(s) - 1
           /\ \A j \in 1..(i - 1) : RemoveAt(s, i)[j] = s[j]
           /\ \A j \in i..(Len(s) - 1) : RemoveAt(s, i)[j] = s[j + 1]
<1> DEFINE n == Len(s)
           a == SubSeq(s, 1, i - 1)
           c == SubSeq(s, i + 1, n)
<1>1. n \in Nat /\ i \in 1..n /\ \A j \in 1..n : s[j] \in T
  BY LenProperties, ElementOfSeq
<1> HIDE DEF n
<1>2. /\ a \in Seq(T) /\ Len(a) = i - 1 /\ \A j \in 1..(i - 1) : a[j] = s[j]
  <2>1. 1 \in Int /\ i - 1 \in Int /\ \A j \in 1..(i - 1) : s[j] \in T
    BY <1>1
  <2>2. /\ a \in Seq(T)
        /\ Len(a) = IF 1 <= i - 1 THEN (i - 1) - 1 + 1 ELSE 0
        /\ \A j \in 1..((i - 1) - 1 + 1) : a[j] = s[1 + j - 1]
    BY ONLY <2>1, SubSeqProperties
  <2>3. \A j \in 1..(i - 1) : j \in 1..((i - 1) - 1 + 1) /\ 1 + j - 1 = j
    BY <1>1
  <2> QED
    BY <1>1, <2>2, <2>3
<1>3. /\ c \in Seq(T) /\ Len(c) = n - i /\ \A j \in 1..(n - i) : c[j] = s[i + j]
  <2>1. i + 1 \in Int /\ n \in Int /\ \A j \in (i + 1)..n : s[j] \in T
    BY <1>1
  <2>2. /\ c \in Seq(T)
        /\ Len(c) = IF i + 1 <= n THEN n - (i + 1) + 1 ELSE 0
        /\ \A j \in 1..(n - (i + 1) + 1) : c[j] = s[(i + 1) + j - 1]
    BY ONLY <2>1, SubSeqProperties
  <2>3. \A j \in 1..(n - i) : j \in 1..(n - (i + 1) + 1) /\ (i + 1) + j - 1 = i + j
    BY <1>1
  <2> QED
    BY <1>1, <2>2, <2>3
<1> HIDE DEF a, c
<1>4. /\ a \o c \in Seq(T) /\ Len(a \o c) = Len(a) + Len(c)
      /\ \A j \in 1..Len(a) : (a \o c)[j] = a[j]
      /\ \A j \in 1..Len(c) : (a \o c)[Len(a) + j] = c[j]
  <2>1. a \in Seq(T) /\ c \in Seq(T)
    BY <1>2, <1>3
  <2> QED
    BY ONLY <2>1, TwoPieces
<1>5. ASSUME NEW j \in i..(n - 1)
      PROVE  (a \o c)[j] = s[j + 1]
  <2> DEFINE m == j - (i - 1)
  <2>1. m \in 1..(n - i) /\ m \in 1..Len(c) /\ Len(a) + m = j /\ i + m = j + 1
    BY <1>1, <1>2, <1>3
  <2> HIDE DEF m
  <2>2. (a \o c)[Len(a) + m] = c[m] /\ c[m] = s[i + m]
    BY <1>3, <1>4, <2>1
  <2> QED
    BY <2>1, <2>2
<1>6. Len(a \o c) = n - 1
  BY <1>1, <1>2, <1>3, <1>4
<1> QED
  BY <1>2, <1>4, <1>5, <1>6 DEF RemoveAt, a, c, n

\* An element put after the place i.
LEMMA Inserted ==
    ASSUME NEW T, NEW s \in Seq(T), NEW p \in 1..(Len(s) + 1), NEW x \in T
    PROVE  /\ InsertAt(s, p, x) \in Seq(T)
           /\ Len(InsertAt(s, p, x)) = Len(s) + 1
           /\ \A j \in 1..(p - 1) : InsertAt(s, p, x)[j] = s[j]
           /\ InsertAt(s, p, x)[p] = x
           /\ \A j \in (p + 1)..(Len(s) + 1) : InsertAt(s, p, x)[j] = s[j - 1]
<1> DEFINE n == Len(s)
           i == p - 1
           a == SubSeq(s, 1, i)
           c == SubSeq(s, p, n)
           b == Append(a, x)
<1>0. n \in Nat /\ \A j \in 1..n : s[j] \in T
  BY LenProperties, ElementOfSeq
<1>p. p \in 1..(n + 1)
  OBVIOUS
<1>8. InsertAt(s, p, x) = (a \o << x >>) \o c
  BY DEF InsertAt, a, c, n
<1> HIDE DEF n
<1>1. i \in 0..n /\ i \in Nat /\ p = i + 1
  BY <1>0, <1>p
<1> HIDE DEF i
<1>2. /\ a \in Seq(T) /\ Len(a) = i /\ \A j \in 1..i : a[j] = s[j]
  <2>1. 1 \in Int /\ i \in Int /\ \A j \in 1..i : s[j] \in T
    BY <1>0, <1>1
  <2>2. /\ a \in Seq(T)
        /\ Len(a) = IF 1 <= i THEN i - 1 + 1 ELSE 0
        /\ \A j \in 1..(i - 1 + 1) : a[j] = s[1 + j - 1]
    BY ONLY <2>1, SubSeqProperties
  <2>3. \A j \in 1..i : j \in 1..(i - 1 + 1) /\ 1 + j - 1 = j
    BY <1>1
  <2> QED
    BY <1>1, <2>2, <2>3
<1>3. /\ c \in Seq(T) /\ Len(c) = n - i /\ \A j \in 1..(n - i) : c[j] = s[i + j]
  <2>1. p \in Int /\ n \in Int /\ \A j \in p..n : s[j] \in T
    BY <1>0, <1>p, <1>1
  <2>2. /\ c \in Seq(T)
        /\ Len(c) = IF p <= n THEN n - p + 1 ELSE 0
        /\ \A j \in 1..(n - p + 1) : c[j] = s[p + j - 1]
    BY ONLY <2>1, SubSeqProperties
  <2>3. \A j \in 1..(n - i) : j \in 1..(n - p + 1) /\ p + j - 1 = i + j
    BY <1>0, <1>1
  <2> QED
    BY <1>0, <1>1, <2>2, <2>3
<1>4. /\ b \in Seq(T) /\ Len(b) = p /\ b[p] = x /\ \A j \in 1..i : b[j] = s[j]
      /\ a \o << x >> = b
  <2> HIDE DEF a
  <2> QED
    BY <1>1, <1>2, AppendProperties, AppendIsConcat
<1> HIDE DEF a, b, c
<1>5. /\ b \o c \in Seq(T) /\ Len(b \o c) = Len(b) + Len(c)
      /\ \A j \in 1..Len(b) : (b \o c)[j] = b[j]
      /\ \A j \in 1..Len(c) : (b \o c)[Len(b) + j] = c[j]
  <2>1. b \in Seq(T) /\ c \in Seq(T)
    BY <1>3, <1>4
  <2> QED
    BY ONLY <2>1, TwoPieces
<1>6. ASSUME NEW j \in (p + 1)..(n + 1)
      PROVE  (b \o c)[j] = s[j - 1]
  <2> DEFINE m == j - p
  <2>1. m \in 1..(n - i) /\ m \in 1..Len(c) /\ Len(b) + m = j /\ i + m = j - 1
    BY <1>0, <1>1, <1>3, <1>4
  <2> HIDE DEF m
  <2>2. (b \o c)[Len(b) + m] = c[m] /\ c[m] = s[i + m]
    BY <1>3, <1>5, <2>1
  <2> QED
    BY <2>1, <2>2
<1>7. Len(b \o c) = n + 1
  BY <1>0, <1>1, <1>3, <1>4, <1>5
<1>9. p \in 1..Len(b) /\ \A j \in 1..i : j \in 1..Len(b)
  BY <1>1, <1>4
<1>10. (b \o c)[p] = x /\ \A j \in 1..i : (b \o c)[j] = s[j]
  BY <1>4, <1>5, <1>9
<1>11. InsertAt(s, p, x) = b \o c
  BY <1>4, <1>8
<1> QED
  BY <1>5, <1>6, <1>7, <1>10, <1>11 DEF n, i


-----------------------------------------------------------------------------
(* Types.                                                                   *)

Inv ==
    /\ TypeOK
    /\ files \in Filed(seals)

\* The content an entry is given.
Given == {x \in Content : x.body # Edited}

\* The seals known only grow.
LEMMA FiledGrows ==
    ASSUME NEW H, NEW K, H \subseteq K, NEW fs \in Filed(H)
    PROVE  fs \in Filed(K)
<1>1. Hashed(H) \subseteq Hashed(K)
  BY DEF Hashed
<1>2. Seq(Hashed(H)) \subseteq Seq(Hashed(K))
  <2> DEFINE S == Hashed(H)
             T == Hashed(K)
  <2>1. S \subseteq T
    BY <1>1
  <2> HIDE DEF S, T
  <2>2. Seq(S) \subseteq Seq(T)
    BY <2>1
  <2> QED
    BY <2>2 DEF S, T
<1> QED
  BY <1>2 DEF Filed

\* A sealed block.
LEMMA Sealing ==
    ASSUME NEW prev \in Seq(Content), NEW c \in Content, NEW end \in 1..4
    PROVE  LET b == SealedBlock(prev, c, end)
           IN  /\ b \in Block /\ b.hash = Seal(prev, c) /\ b.prev = prev /\ b.c = c /\ b.end = end
               /\ b.hash \in Seq(Content) /\ b.hash # None
               /\ Len(b.hash) = Len(prev) + 1 /\ b.hash[Len(prev) + 1] = c
<1> DEFINE h == Append(prev, c)
<1>1. h \in Seq(Content) /\ Len(h) = Len(prev) + 1 /\ h[Len(prev) + 1] = c /\ Len(prev) \in Nat
  BY AppendProperties, LenProperties
<1>2. h # None
  <2>1. Len(<<>>) = 0
    OBVIOUS
  <2>2. Len(h) # 0
    <3> HIDE DEF h
    <3> QED
      BY <1>1
  <2> QED
    BY <2>1, <2>2 DEF None
<1>3. SealedBlock(prev, c, end) = [c |-> c, prev |-> prev, hash |-> h, end |-> end]
  BY DEF SealedBlock, Seal
<1> HIDE DEF h
<1>4. SealedBlock(prev, c, end) \in Block
  BY <1>1, <1>3 DEF Block
<1> QED
  BY <1>1, <1>2, <1>3, <1>4 DEF h, Seal

\* A block written keeps the files well formed.
LEMMA Writing ==
    ASSUME Inv, NEW p \in Writers, NEW c \in Given, NEW end \in 1..4,
           Write(p, SealedBlock(head[p], c, end))
    PROVE  /\ files' \in Filed(seals') /\ seals' \in SUBSET (Seq(Content) \ {None})
           /\ SealedBlock(head[p], c, end) \in Hashed(seals')
           /\ SealedBlock(head[p], c, end).hash \in Seq(Content) \ {None}
<1> DEFINE b == SealedBlock(head[p], c, end)
<1>1. head[p] \in Seq(Content) /\ c \in Content
  BY DEF Inv, TypeOK, Given
<1>2. b \in Block /\ b.hash \in Seq(Content) \ {None}
  BY <1>1, Sealing
<1>3. seals' = seals \cup {b.hash} /\ files' = [files EXCEPT ![today] = Append(@, b)]
  BY DEF Write
<1> HIDE DEF b
<1>4. b \in Hashed(seals')
  BY <1>2, <1>3 DEF Hashed
<1>5. files \in Filed(seals')
  BY <1>3, FiledGrows DEF Inv
<1>6. today \in 1..Days
  BY DEF Inv, TypeOK
<1>7. files[today] \in Seq(Hashed(seals'))
  BY <1>5, <1>6 DEF Filed
<1>8. Append(files[today], b) \in Seq(Hashed(seals'))
  BY <1>4, <1>7, AppendProperties
<1>9. files' \in Filed(seals')
  BY <1>3, <1>5, <1>8 DEF Filed
<1>10. seals' \in SUBSET (Seq(Content) \ {None})
  BY <1>2, <1>3 DEF Inv, TypeOK
<1> QED
  BY <1>2, <1>4, <1>9, <1>10 DEF b

\* The blocks of files well formed are blocks.
LEMMA FiledTyped ==
    ASSUME NEW H, NEW fs \in Filed(H)
    PROVE  fs \in [1..Days -> Seq(Block)]
<1> DEFINE S == Hashed(H)
<1>1. S \subseteq Block
  BY DEF Hashed
<1>2. fs \in [1..Days -> Seq(S)]
  BY DEF Filed
<1> HIDE DEF S
<1>3. Seq(S) \subseteq Seq(Block)
  BY <1>1
<1> QED
  BY <1>2, <1>3

Kinds == {"changed", "dropped", "dropped_last", "swapped", "added", "unchained"}

\* What meets no seal is an edit of another kind.
LEMMA KindIs ==
    ASSUME NEW S, NEW k \in Kinds
    PROVE  /\ Kind(S, k) \in Kinds
           /\ Kind(S, k) # "unchained" => Kind(S, k) = k /\ \E b \in S : b.hash # None
  BY DEF Kind, Kinds

\* A file edited, in terms of places.
ByHand(d, i) ==
    \/ Change(d, i)
    \/ Drop(d, i)
    \/ Swap(d, i)
    \/ \E c \in {x \in Content : x.body = Edited} : Add(d, i, c)

\* An edit leaves a file of the same blocks, with other contents or of hand.
LEMMA Editing ==
    ASSUME Inv, NEW d \in 1..Days, NEW i, ByHand(d, i)
    PROVE  \E file \in Seq(Hashed(seals)), kind \in Kinds : HandEdit(d, file, kind)
<1> DEFINE T == Hashed(seals)
           f == files[d]
<1>1. f \in Seq(T) /\ Len(f) \in Nat /\ DOMAIN f = 1..Len(f) /\ \A j \in 1..Len(f) : f[j] \in T
  <2>1. f \in Seq(T)
    BY DEF Inv, Filed
  <2> HIDE DEF f, T
  <2> QED
    BY <2>1, LenProperties, ElementOfSeq
<1>2. i \in 1..Len(f)
  BY <1>1 DEF ByHand, Change, Drop, Swap, Add, Editable
<1>3. ASSUME Change(d, i)
      PROVE  \E file \in Seq(T), kind \in Kinds : HandEdit(d, file, kind)
  <2>1. PICK x \in {[f[i].c EXCEPT !.key = k] : k \in Keys}
                      \cup {[f[i].c EXCEPT !.attrs = a] : a \in SUBSET Attrs}
                      \cup {[f[i].c EXCEPT !.body = Edited]} :
                HandEdit(d, [f EXCEPT ![i].c = x], Kind({f[i]}, "changed"))
    BY <1>3 DEF Change
  <2>k. Kind({f[i]}, "changed") \in Kinds
    BY KindIs DEF Kinds
  <2>2. f[i].c \in Content
    BY <1>1, <1>2 DEF Hashed, Block
  <2>3. x \in Content
    BY <2>1, <2>2 DEF Content
  <2>4. [f EXCEPT ![i].c = x] = [f EXCEPT ![i] = With(f[i], x)]
    BY DEF With
  <2>5. With(f[i], x) \in T
    BY <1>1, <1>2, <2>3, WithBlock DEF Hashed
  <2> HIDE DEF T, f
  <2>6. [f EXCEPT ![i] = With(f[i], x)] \in Seq(T)
    BY <1>1, <1>2, <2>5, ExceptSeq
  <2> QED
    BY <2>1, <2>4, <2>6, <2>k
<1>4. ASSUME Drop(d, i)
      PROVE  \E file \in Seq(T), kind \in Kinds : HandEdit(d, file, kind)
  <2>1. RemoveAt(f, i) \in Seq(T)
    BY <1>1, <1>2, Removed
  <2>2. Kind({f[i]}, IF IsLast(d, i) THEN "dropped_last" ELSE "dropped") \in Kinds
    BY KindIs DEF Kinds
  <2> QED
    BY <1>4, <2>1, <2>2 DEF Drop
<1>5. ASSUME Swap(d, i)
      PROVE  \E file \in Seq(T), kind \in Kinds : HandEdit(d, file, kind)
  <2> DEFINE u == [f EXCEPT ![i] = f[i + 1]]
             v == [u EXCEPT ![i + 1] = f[i]]
  <2>1. i + 1 \in 1..Len(f)
    BY <1>1, <1>2, <1>5 DEF Swap
  <2>2. HandEdit(d, [f EXCEPT ![i] = f[i + 1], ![i + 1] = f[i]], Kind({f[i], f[i + 1]}, "swapped"))
    BY <1>5 DEF Swap
  <2>k. Kind({f[i], f[i + 1]}, "swapped") \in Kinds
    BY KindIs DEF Kinds
  <2> HIDE DEF T, f
  <2>3. u \in Seq(T) /\ Len(u) = Len(f)
    BY <1>1, <1>2, <2>1, ExceptSeq
  <2>4. v \in Seq(T)
    <3> HIDE DEF u
    <3> QED
      BY <1>1, <1>2, <2>1, <2>3, ExceptSeq
  <2> QED
    BY <2>2, <2>4, <2>k
<1>6. ASSUME NEW c \in {x \in Content : x.body = Edited}, Add(d, i, c)
      PROVE  \E file \in Seq(T), kind \in Kinds : HandEdit(d, file, kind)
  <2>1. Unsealed(c) \in T
    BY EmptySeq DEF Unsealed, Hashed, Block, None, Parts
  <2>2. PICK at \in {i, i + 1} :
              HandEdit(d, InsertAt(f, at, Unsealed(c)), Kind(Before(d, at), "added"))
    BY <1>6 DEF Add
  <2>3. InsertAt(f, at, Unsealed(c)) \in Seq(T)
    <3>1. at \in 1..(Len(f) + 1)
      BY <1>1, <1>2, <2>2
    <3> HIDE DEF T, f
    <3> QED
      BY ONLY <1>1, <2>1, <3>1, Inserted
  <2>4. Kind(Before(d, at), "added") \in Kinds
    BY KindIs DEF Kinds
  <2> QED
    BY <2>2, <2>3, <2>4
<1> QED
  BY <1>3, <1>4, <1>5, <1>6 DEF ByHand

\* So it keeps the files well formed, and is remembered.
LEMMA Edits ==
    ASSUME Inv, NEW d \in 1..Days, NEW i, ByHand(d, i)
    PROVE  /\ Inv' /\ edits' # {}
           /\ UNCHANGED <<today, head, acked, seals, tears>>
<1>1. PICK file \in Seq(Hashed(seals)), kind \in Kinds : HandEdit(d, file, kind)
  BY Editing
<1>2. files' = [files EXCEPT ![d] = file] /\ edits' = edits \cup {kind}
      /\ UNCHANGED <<today, head, acked, seals, tears>>
  BY <1>1 DEF HandEdit
<1>3. files' \in Filed(seals)
  BY <1>2 DEF Inv, Filed
<1>4. files' \in [1..Days -> Seq(Block)]
  BY <1>3, FiledTyped
<1>5. edits' \in SUBSET Kinds
  BY <1>2 DEF Inv, TypeOK, Kinds
<1> QED
  BY <1>2, <1>3, <1>4, <1>5 DEF Inv, TypeOK, Kinds

\* The steps of the log.
LEMMA Steps ==
    ASSUME [Next]_vars
    PROVE  \/ \E p \in Writers, c \in Given : AppendEntry(p, c)
           \/ \E p \in Writers, c \in Given, end \in 1..4 : TearEntry(p, c, end)
           \/ \E p \in Writers : Restart(p)
           \/ Midnight
           \/ \E d \in 1..Days, i \in 1..MaxBlocks : ByHand(d, i)
           \/ UNCHANGED vars
  BY DEF Next, ByHand, Given

\* The first state.
LEMMA InitInv ==
    ASSUME Init
    PROVE  Inv
<1> DEFINE T == Hashed({})
<1>1. PICK c \in Given, old \in {FALSE, Legacy} :
         files = [d \in 1..Days |-> IF old /\ d = 1 THEN << Unsealed(c) >> ELSE <<>>]
  BY DEF Init, Given
<1>2. Unsealed(c) \in T
  BY EmptySeq DEF Unsealed, Hashed, Block, None, Parts, Given
<1>3. << Unsealed(c) >> \in Seq(T) /\ <<>> \in Seq(T)
  <2> HIDE DEF T
  <2> QED
    BY <1>2
<1>4. files \in Filed(seals)
  BY <1>1, <1>3 DEF Init, Filed
<1>5. files \in [1..Days -> Seq(Block)]
  BY <1>4, FiledTyped
<1> QED
  BY <1>4, <1>5, ChainAssumption, EmptySeq DEF Init, Inv, TypeOK, None

\* Every step keeps them.
LEMMA InvNext ==
    ASSUME Inv, [Next]_vars
    PROVE  Inv'
<1>1. ASSUME NEW p \in Writers, NEW c \in Given, AppendEntry(p, c)
      PROVE  Inv'
  <2> DEFINE b == SealedBlock(head[p], c, 4)
  <2>1. /\ Write(p, b) /\ head' = [head EXCEPT ![p] = b.hash]
        /\ acked' = acked \cup {b.hash} /\ UNCHANGED tears
        /\ seals' = seals \cup {b.hash} /\ UNCHANGED <<today, edits>>
    BY <1>1 DEF AppendEntry, Parts, Write
  <2>2. /\ files' \in Filed(seals') /\ seals' \in SUBSET (Seq(Content) \ {None})
        /\ b.hash \in Seq(Content)
    <3>1. 4 \in 1..4
      OBVIOUS
    <3> QED
      BY <2>1, <3>1, Writing
  <2> HIDE DEF b
  <2>3. head' \in [Writers -> Seq(Content)] /\ acked' \subseteq seals'
    BY <2>1, <2>2 DEF Inv, TypeOK
  <2> QED
    BY <2>1, <2>2, <2>3, FiledTyped DEF Inv, TypeOK
<1>2. ASSUME NEW p \in Writers, NEW c \in Given, NEW end \in 1..4, TearEntry(p, c, end)
      PROVE  Inv'
  <2> DEFINE b == SealedBlock(head[p], c, end)
  <2>1. /\ Write(p, b) /\ UNCHANGED <<head, acked>> /\ tears < MaxTears /\ tears' = tears + 1
        /\ seals' = seals \cup {b.hash} /\ UNCHANGED <<today, edits>>
    BY <1>2 DEF TearEntry, HeadKept, Write
  <2>2. files' \in Filed(seals') /\ seals' \in SUBSET (Seq(Content) \ {None})
    BY <2>1, Writing
  <2> HIDE DEF b
  <2>3. acked' \subseteq seals' /\ tears' \in 0..MaxTears
    BY <2>1, ChainAssumption DEF Inv, TypeOK
  <2> QED
    BY <2>1, <2>2, <2>3, FiledTyped DEF Inv, TypeOK
<1>3. ASSUME NEW p \in Writers, Restart(p)
      PROVE  Inv'
  <2>1. LastSeal \in seals \cup {None}
    BY AllIn, LastFacts, LastSealIs DEF Inv
  <2>2. LastSeal \in Seq(Content)
    BY <2>1, EmptySeq DEF Inv, TypeOK, None
  <2>3. head' = [head EXCEPT ![p] = LastSeal]
        /\ UNCHANGED <<files, today, acked, seals, tears, edits>>
    BY <1>3 DEF Restart
  <2>4. head' \in [Writers -> Seq(Content)]
    BY <2>2, <2>3 DEF Inv, TypeOK
  <2> QED
    BY <2>3, <2>4 DEF Inv, TypeOK
<1>4. CASE Midnight
  <2>1. today' \in 1..Days
    BY <1>4, ChainAssumption DEF Midnight, Inv, TypeOK
  <2>2. UNCHANGED <<files, head, acked, seals, tears, edits>>
    BY <1>4 DEF Midnight
  <2> QED
    BY <2>1, <2>2 DEF Inv, TypeOK
<1>5. ASSUME NEW d \in 1..Days, NEW i, ByHand(d, i)
      PROVE  Inv'
  BY <1>5, Edits
<1>6. CASE UNCHANGED vars
  BY <1>6 DEF vars, Inv, TypeOK
<1> QED
  BY <1>1, <1>2, <1>3, <1>4, <1>5, <1>6, Steps

\* The types of the log, the heads and the seals hold whatever is written,
\* cut short or edited.
THEOREM TypeCorrect == Spec => []TypeOK
<1>1. Init => Inv
  BY InitInv
<1>2. Inv /\ [Next]_vars => Inv'
  BY InvNext
<1>3. Inv => TypeOK
  BY DEF Inv
<1> QED
  BY <1>1, <1>2, <1>3, PTL DEF Spec

-----------------------------------------------------------------------------
(* What verify accepts is a history that was sealed.                        *)

Contents(l) == [i \in DOMAIN l |-> l[i].c]

\* The contents of one entry more.
LEMMA ContentsAppend ==
    ASSUME NEW l \in Seq(Block), NEW e \in Block
    PROVE  Contents(Append(l, e)) = Append(Contents(l), e.c)
<1> DEFINE n == Len(l)
           a == Append(l, e)
           u == Contents(a)
           v == Contents(l)
           w == Append(v, e.c)
<1>1. n \in Nat /\ DOMAIN l = 1..n /\ \A i \in 1..n : l[i] \in Block
  BY LenProperties, ElementOfSeq
<1>2. /\ a \in Seq(Block) /\ Len(a) = n + 1 /\ DOMAIN a = 1..(n + 1)
      /\ a[n + 1] = e /\ \A i \in 1..n : a[i] = l[i]
  BY AppendProperties, LenProperties
<1> HIDE DEF n, a
<1>3. \A b \in Block : b.c \in Content
  BY DEF Block
<1>4. v \in Seq(Content) /\ Len(v) = n /\ \A i \in 1..n : v[i] = l[i].c
  <2>1. v = [i \in 1..n |-> l[i].c]
    BY <1>1 DEF Contents
  <2>2. \A i \in 1..n : l[i].c \in Content
    BY <1>1, <1>3
  <2> QED
    BY <1>1, <2>1, <2>2
<1>5. u = [i \in 1..(n + 1) |-> a[i].c]
  BY <1>2 DEF Contents
<1>6. \A i \in 1..(n + 1) : a[i].c \in Content
  BY <1>1, <1>2, <1>3, ElementOfSeq
<1>7. u \in Seq(Content) /\ Len(u) = n + 1 /\ \A i \in 1..(n + 1) : u[i] = a[i].c
  BY <1>1, <1>5, <1>6
<1> HIDE DEF u, v
<1>8. /\ w \in Seq(Content) /\ Len(w) = n + 1 /\ w[n + 1] = e.c
      /\ \A i \in 1..n : w[i] = v[i]
  BY <1>3, <1>4, AppendProperties
<1> HIDE DEF w
<1>9. \A i \in 1..(n + 1) : u[i] = w[i]
  <2>1. \A i \in 1..(n + 1) : i = n + 1 \/ i \in 1..n
    BY <1>1
  <2> QED
    BY <1>2, <1>4, <1>7, <1>8, <2>1
<1>10. u = w
  BY <1>7, <1>8, <1>9, SeqEqual
<1> QED
  BY <1>10 DEF u, v, w, a

\* After k entries of a list: the sealed ones among them are what the seal of the
\* last one covers.
Covered(l, g, k) ==
    /\ g[k] \in Seq(Block)
    /\ Started(l, k + 1) => /\ k > 0 /\ l[k].hash # None
                            /\ l[k].hash = Contents(g[k])
    /\ ~Started(l, k + 1) => g[k] = <<>>

\* One entry more that is vouched for.
LEMMA CoveredNext ==
    ASSUME NEW l, NEW g, NEW k \in Nat, k > 0, l[k] \in Block,
           Covered(l, g, k - 1), Vouched(l, k), g[k] = Collect(g[k - 1], l[k])
    PROVE  Covered(l, g, k)
<1> DEFINE e == l[k]
           q == g[k - 1]
<1>1. Started(l, k + 1) <=> Started(l, k) \/ e.hash # None
  <2>1. \A j : j \in 1..((k + 1) - 1) <=> j \in 1..(k - 1) \/ j = k
    OBVIOUS
  <2> QED
    BY <2>1 DEF Started
<1>2. q \in Seq(Block) /\ (k - 1) + 1 = k
  BY DEF Covered
<1>3. CASE e.hash = None
  <2>1. ~Started(l, k)
    BY <1>3 DEF Vouched
  <2>2. q = <<>>
    BY <1>2, <2>1 DEF Covered
  <2>3. g[k] = q
    BY <1>3 DEF Collect
  <2> QED
    BY <1>1, <1>2, <1>3, <2>1, <2>2, <2>3 DEF Covered
<1>4. CASE e.hash # None
  <2>1. /\ e.prev = IF Started(l, k) THEN l[k - 1].hash ELSE None
        /\ e.hash = Append(e.prev, e.c)
    BY <1>4 DEF Vouched, Seal
  <2>2. e.prev = Contents(q)
    <3>1. CASE Started(l, k)
      BY <1>2, <2>1, <3>1 DEF Covered
    <3>2. CASE ~Started(l, k)
      <4>1. q = <<>>
        BY <1>2, <3>2 DEF Covered
      <4>2. Contents(<<>>) = <<>>
        BY DEF Contents
      <4> QED
        BY <2>1, <3>2, <4>1, <4>2 DEF None
    <3> QED
      BY <3>1, <3>2
  <2>3. g[k] = Append(q, e)
    BY <1>4 DEF Collect
  <2>4. Contents(g[k]) = e.hash
    BY <1>2, <2>1, <2>2, <2>3, ContentsAppend
  <2>5. g[k] \in Seq(Block)
    BY <1>2, <2>3, AppendProperties
  <2> QED
    BY <1>1, <1>4, <2>4, <2>5 DEF Covered
<1> QED
  BY <1>3, <1>4

\* All of them.
LEMMA CoveredAll ==
    ASSUME NEW H, NEW l \in Seq(Hashed(H)), \A i \in DOMAIN l : Vouched(l, i)
    PROVE  SealedOf(l) = <<>> \/ Contents(SealedOf(l)) \in H
<1> DEFINE n == Len(l)
<1>1. n \in Nat /\ DOMAIN l = 1..n /\ \A i \in 1..n : l[i] \in Hashed(H)
  BY LenProperties, ElementOfSeq
<1> HIDE DEF n
<1>2. PICK g : Running(g, "collect", <<>>, l, n) /\ g[n] = SealedOf(l)
  BY <1>1, SealedRuns
<1> DEFINE Bad == {k \in 0..n : ~Covered(l, g, k)}
<1>3. ASSUME Bad # {}
      PROVE  FALSE
  <2>1. Bad \in SUBSET Nat
    BY <1>1
  <2>2. PICK k \in Bad : \A j \in Bad : k <= j
    BY <1>3, <2>1, Least, Zenon
  <2>3. k # 0
    <3>1. ~Started(l, 0 + 1)
      BY DEF Started
    <3>2. g[0] = <<>> /\ <<>> \in Seq(Block)
      BY <1>2, EmptySeq DEF Running
    <3>3. Covered(l, g, 0)
      BY <3>1, <3>2 DEF Covered
    <3> QED
      BY <3>3
  <2>4. k \in 1..n /\ k - 1 \in 0..n /\ ~(k <= k - 1) /\ k \in Nat /\ k > 0
    BY <1>1, <2>3
  <2>5. Covered(l, g, k - 1)
    BY <2>2, <2>4
  <2>6. g[k] = Collect(g[k - 1], l[k])
    BY <1>2, <2>4 DEF Running, Do
  <2>7. l[k] \in Block /\ Vouched(l, k)
    BY <1>1, <2>4 DEF Hashed
  <2> HIDE DEF Bad
  <2>8. Covered(l, g, k)
    BY <2>4, <2>5, <2>6, <2>7, CoveredNext
  <2> QED
    BY <2>8 DEF Bad
<1>4. Covered(l, g, n)
  BY <1>1, <1>3
<1>5. CASE ~Started(l, n + 1)
  BY <1>2, <1>4, <1>5 DEF Covered
<1>6. CASE Started(l, n + 1)
  <2>1. n > 0 /\ l[n].hash # None /\ l[n].hash = Contents(SealedOf(l))
    BY <1>2, <1>4, <1>6 DEF Covered
  <2>2. l[n].hash \in H \cup {None}
    BY <1>1, <2>1 DEF Hashed
  <2> QED
    BY <2>1, <2>2
<1> QED
  BY <1>5, <1>6

\* Whatever was cut short, edited by hand or written by others: what verify
\* accepts is, entry for entry, a history that mem7 sealed.
THEOREM TamperEvidentAlways == Spec => []TamperEvident
<1>1. Init => Inv
  BY InitInv
<1>2. Inv /\ [Next]_vars => Inv'
  BY InvNext
<1>3. ASSUME Inv
      PROVE  TamperEvident
  <2> DEFINE A == AllOf(files)
  <2>1. A \in Seq(Hashed(seals))
    BY <1>3, AllIn DEF Inv
  <2>2. AllEntries = A /\ SealedEntries = SealedOf(A)
    BY Names
  <2> HIDE DEF A
  <2>3. ChainHolds => \A i \in DOMAIN A : Vouched(A, i)
    BY <2>2 DEF ChainHolds
  <2>4. ChainHolds => SealedOf(A) = <<>> \/ Contents(SealedOf(A)) \in seals
    BY <2>1, <2>3, CoveredAll
  <2> QED
    BY <2>2, <2>4 DEF TamperEvident, Contents
<1> QED
  BY <1>1, <1>2, <1>3, PTL DEF Spec

-----------------------------------------------------------------------------
(* The entries of the log, whatever their order.                            *)

Out(fs, d) == Read(fs[d]).out

Has(fs, e) == \E d \in 1..Days : \E j \in 1..Len(Out(fs, d)) : Out(fs, d)[j] = e

\* An entry as it was sealed.
Whole(e) == e.hash = Seal(e.prev, e.c)

\* The entries of the whole are those of the files.
LEMMA HasIs ==
    ASSUME NEW H, NEW fs \in Filed(H), NEW e
    PROVE  e \in ToSet(AllOf(fs)) <=> Has(fs, e)
<1> DEFINE A == AllOf(fs)
           s == EntriesOf(fs)
           n == Len(A)
<1>1. /\ A \in Seq(Hashed(H)) /\ Within(A, s, Days)
      /\ \A d \in 1..Days : Piece(A, Out(fs, d))
      /\ \A d \in 1..Days : Out(fs, d) \in Seq(Hashed(H))
  BY AllIn DEF Out, Reads
<1>2. \A d \in 1..Days : s[d] = Out(fs, d)
  BY DEF EntriesOf, Out
<1> HIDE DEF A, s
<1>3. n \in Nat /\ DOMAIN A = 1..n
  BY <1>1, LenProperties
<1>4. e \in ToSet(A) <=> \E i \in 1..n : A[i] = e
  BY <1>3 DEF ToSet
<1>5. ASSUME NEW i \in 1..n, A[i] = e
      PROVE  Has(fs, e)
  <2>1. PICK d \in 1..Days : \E j \in 1..Len(s[d]) : A[i] = s[d][j]
    BY <1>1 DEF Within
  <2> QED
    BY <1>2, <1>5, <2>1 DEF Has
<1>6. ASSUME Has(fs, e)
      PROVE  \E i \in 1..n : A[i] = e
  <2>1. PICK d \in 1..Days : \E j \in 1..Len(Out(fs, d)) : Out(fs, d)[j] = e
    BY <1>6 DEF Has
  <2> DEFINE l == Out(fs, d)
  <2>2. PICK j \in 1..Len(l) : l[j] = e
    BY <2>1
  <2>3. Piece(A, l) /\ Len(l) \in Nat
    BY <1>1, LenProperties
  <2> HIDE DEF l
  <2>4. PICK off \in Nat : off + Len(l) <= n /\ \A k \in 1..Len(l) : A[off + k] = l[k]
    BY <2>3 DEF Piece
  <2>5. off + j \in 1..n /\ A[off + j] = l[j]
    BY <1>3, <2>3, <2>4
  <2> QED
    BY <2>2, <2>5
<1> HIDE DEF n
<1>7. e \in ToSet(A) <=> Has(fs, e)
  BY <1>4, <1>5, <1>6
<1> QED
  BY <1>7 DEF A

\* What the parser is at, and has read, with it.
LEMMA LongerReads ==
    ASSUME NEW H, NEW fs \in Filed(H), NEW t \in 1..Days, NEW b \in Hashed(H)
    PROVE  LET gs == Longer(fs, t, b)
           IN  /\ gs \in Filed(H)
               /\ \A d \in 1..Days : d # t => Read(gs[d]) = Read(fs[d])
               /\ Read(gs[t]).cur = Made(fs, t, b)
               /\ b.end = 4 => Read(gs[t]).at = 0 /\ Out(gs, t) = Append(Out(fs, t), Made(fs, t, b))
               /\ b.end # 4 => Out(gs, t) = Out(fs, t)
               /\ Made(fs, t, b) \in Hashed(H)
               /\ \A d \in 1..Days : Reads(Hashed(H), Read(fs[d]))
<1> DEFINE gs == Longer(fs, t, b)
           r == Read(fs[t])
<1>1. fs[t] \in Seq(Hashed(H)) /\ gs[t] = Append(fs[t], b) /\ \A d \in 1..Days : d # t => gs[d] = fs[d]
  BY DEF Filed, Longer
<1>2. Append(fs[t], b) \in Seq(Hashed(H))
  BY <1>1, AppendProperties
<1>3. gs \in Filed(H)
  BY <1>2 DEF Filed, Longer
<1>4. Read(gs[t]) = Parse(r, b)
  BY <1>1, ReadAppend
<1>5. \A d \in 1..Days : Reads(Hashed(H), Read(fs[d]))
  BY ReadIn DEF Filed
<1>6. Made(fs, t, b) \in Hashed(H)
  BY <1>5, ContinueIn DEF Reads, Made
<1> HIDE DEF gs
<1>7. Read(gs[t]).cur = Made(fs, t, b)
  BY <1>4 DEF Parse, Made
<1>8. b.end = 4 => Read(gs[t]).at = 0 /\ Out(gs, t) = Append(Out(fs, t), Made(fs, t, b))
  BY <1>4 DEF Parse, Parts, Made, Out
<1>9. b.end # 4 => Out(gs, t) = Out(fs, t)
  BY <1>4 DEF Parse, Parts, Out
<1> QED
  BY <1>1, <1>3, <1>5, <1>6, <1>7, <1>8, <1>9 DEF gs

\* The entries with it.
LEMMA LongerHas ==
    ASSUME NEW H, NEW fs \in Filed(H), NEW t \in 1..Days, NEW b \in Hashed(H), NEW e
    PROVE  Has(Longer(fs, t, b), e) <=> Has(fs, e) \/ (b.end = 4 /\ e = Made(fs, t, b))
<1> DEFINE gs == Longer(fs, t, b)
           m == Made(fs, t, b)
           l == Out(fs, t)
           n == Len(l)
<1>1. /\ \A d \in 1..Days : d # t => Out(gs, d) = Out(fs, d)
      /\ b.end = 4 => Out(gs, t) = Append(l, m)
      /\ b.end # 4 => Out(gs, t) = l
      /\ l \in Seq(Hashed(H)) /\ m \in Hashed(H)
  BY LongerReads, SMTT(30) DEF Out, Reads
<1> HIDE DEF gs, m, l
<1>2. /\ n \in Nat /\ Len(Append(l, m)) = n + 1 /\ Append(l, m)[n + 1] = m
      /\ \A j \in 1..n : Append(l, m)[j] = l[j]
  BY <1>1, AppendProperties, LenProperties
<1> HIDE DEF n
<1>3. CASE b.end # 4
  BY <1>1, <1>3 DEF Has, gs, l
<1>4. CASE b.end = 4
  <2>1. (\E j \in 1..Len(Append(l, m)) : Append(l, m)[j] = e)
           <=> (\E j \in 1..n : l[j] = e) \/ e = m
    <3>1. \A j : j \in 1..(n + 1) <=> j \in 1..n \/ j = n + 1
      BY <1>2
    <3> QED
      BY <1>2, <3>1
  <2>2. \A d \in 1..Days : d # t =>
           ((\E j \in 1..Len(Out(gs, d)) : Out(gs, d)[j] = e)
               <=> \E j \in 1..Len(Out(fs, d)) : Out(fs, d)[j] = e)
    BY <1>1
  <2>3. (\E j \in 1..Len(Out(gs, t)) : Out(gs, t)[j] = e)
           <=> (\E j \in 1..Len(Out(fs, t)) : Out(fs, t)[j] = e) \/ e = m
    BY <1>1, <1>4, <2>1 DEF n, l
  <2>4. Has(gs, e) <=> Has(fs, e) \/ e = m
    BY <2>2, <2>3 DEF Has
  <2> QED
    BY <1>4, <2>4 DEF gs, m
<1> QED
  BY <1>3, <1>4

\* The seals of the entries that are read as they were sealed.
Intact(fs) == {h \in Seq(Content) : \E e \in Block : Has(fs, e) /\ Whole(e) /\ e.hash = h}

\* What is damaged, by the files.
LEMMA DamagedIs ==
    ASSUME Inv
    PROVE  Damaged = acked \ Intact(files)
<1>1. \A e : e \in ToSet(AllEntries) <=> Has(files, e)
  BY Names, HasIs DEF Inv
<1>2. \A e : Has(files, e) => e \in Block
  <2>1. \A d \in 1..Days : Out(files, d) \in Seq(Hashed(seals))
    BY LongerReads, ReadIn DEF Inv, Filed, Out, Reads
  <2>2. \A d \in 1..Days : \A j \in 1..Len(Out(files, d)) : Out(files, d)[j] \in Hashed(seals)
    BY <2>1, ElementOfSeq
  <2> QED
    BY <2>2 DEF Has, Hashed
<1>3. \A h \in acked : h \in Seq(Content)
  BY DEF Inv, TypeOK
<1>4. \A h : h \in {e.hash : e \in {x \in ToSet(AllEntries) : x.hash = Seal(x.prev, x.c)}}
                <=> \E e : e \in ToSet(AllEntries) /\ e.hash = Seal(e.prev, e.c) /\ e.hash = h
  OBVIOUS
<1> QED
  BY <1>1, <1>2, <1>3, <1>4 DEF Damaged, Intact, Whole

-----------------------------------------------------------------------------
(* What a write that is cut short can do.                                   *)

\* No seal covers a body edited by hand.
Sealable == \A h \in seals : Len(h) \in Nat \ {0} /\ h[Len(h)].body # Edited

\* An entry left open states its seal.
OpenSealed == \A d \in 1..Days : Read(files[d]).at # 0 => Read(files[d]).cur.hash # None

Base ==
    /\ Inv
    /\ IsFiniteSet(acked)
    /\ Sealable
    /\ edits = {} => OpenSealed

\* A block written: what it adds, and what becomes of it.
LEMMA Written ==
    ASSUME Base, edits = {}, NEW p \in Writers, NEW c \in Given, NEW end \in 1..4,
           Write(p, SealedBlock(head[p], c, end))
    PROVE  LET b == SealedBlock(head[p], c, end)
               e == Made(files, today, b)
           IN  /\ files' = Longer(files, today, b) /\ seals' = seals \cup {b.hash}
               /\ b \in Hashed(seals') /\ files \in Filed(seals') /\ today \in 1..Days
               /\ Whole(b) /\ b.end = end /\ b.c = c /\ b.prev = head[p] /\ b.hash # None
               /\ b.hash \in Seq(Content) /\ b \in Block
               /\ e \in Block /\ e.hash # None /\ e.hash \in seals'
               /\ Read(files[today]).at = 0 => e = b
               /\ end = 4 /\ Whole(e) => e = b
               /\ Sealable'
<1> DEFINE b == SealedBlock(head[p], c, end)
           e == Made(files, today, b)
           r == Read(files[today])
<1>1. /\ b \in Hashed(seals') /\ b.hash \in Seq(Content) /\ b.hash # None
      /\ files' = Longer(files, today, b) /\ seals' = seals \cup {b.hash}
  BY Writing DEF Write, Base, Longer
<1>2. head[p] \in Seq(Content) /\ c \in Content /\ c.body # Edited /\ today \in 1..Days
  BY DEF Base, Inv, TypeOK, Given
<1>3. /\ b \in Block /\ b.end = end /\ b.c = c /\ b.prev = head[p] /\ b.hash = Append(head[p], c)
      /\ Len(b.hash) = Len(head[p]) + 1 /\ b.hash[Len(head[p]) + 1] = c
  <2>1. Seal(head[p], c) = Append(head[p], c)
    BY DEF Seal
  <2>2. head[p] \in Seq(Content) /\ c \in Content /\ end \in 1..4
    BY <1>2
  <2> QED
    BY ONLY <2>1, <2>2, Sealing
<1>4. files \in Filed(seals')
  BY <1>1, FiledGrows DEF Base, Inv
<1> HIDE DEF b
<1>5. e \in Hashed(seals') /\ Reads(Hashed(seals'), r)
  BY <1>1, <1>2, <1>4, LongerReads
<1>6. r.at # 0 => r.cur \in Block /\ r.cur.hash # None /\ r.cur.hash \in seals'
  BY <1>2, <1>5 DEF Base, OpenSealed, Reads, Hashed
<1>7. r.at \in 0..3
  BY <1>5 DEF Reads
<1>8. /\ r.at = 0 => e = b
      /\ r.at \in {1, 2} /\ b.end >= 2 => \E x \in Content : e = With(b, x)
      /\ r.at \in {1, 2} /\ ~(b.end >= 2) => e = r.cur
      /\ r.at = 3 => \E x \in Content : x.body = Edited /\ e = With(r.cur, x)
  BY <1>3, <1>6, <1>7, ContinueForms DEF Made
<1>9. r.at = 0 \/ r.at \in {1, 2} \/ r.at = 3
  BY <1>7
<1> HIDE DEF r, e
<1>10. e.hash # None
  <2>1. \A x \in Content : With(b, x).hash = b.hash
    BY <1>3, WithBlock
  <2>2. r.at # 0 => \A x \in Content : With(r.cur, x).hash = r.cur.hash
    BY <1>6, WithBlock
  <2>3. e.hash = b.hash \/ (r.at # 0 /\ e.hash = r.cur.hash)
    BY <1>7, <1>8, <1>9, <2>1, <2>2
  <2> QED
    BY <1>1, <1>6, <2>3
<1>11. Sealable'
  <2>1. Len(head[p]) \in Nat
    BY <1>2, LenProperties
  <2>2. Len(b.hash) \in Nat \ {0} /\ b.hash[Len(b.hash)].body # Edited
    BY <1>2, <1>3, <2>1
  <2> QED
    BY <1>1, <2>2 DEF Base, Sealable
<1>12. e \in Block /\ e.hash \in seals'
  BY <1>5, <1>10 DEF Hashed
<1>13. ASSUME end = 4, Whole(e)
       PROVE  e = b
  <2>1. e.prev \in Seq(Content) /\ e.c \in Content /\ e.hash = Append(e.prev, e.c)
    BY <1>12, <1>13 DEF Block, Whole, Seal
  <2>2. Len(e.hash) = Len(e.prev) + 1 /\ e.hash[Len(e.prev) + 1] = e.c /\ Len(e.prev) \in Nat
    BY <2>1, AppendProperties, LenProperties
  <2>3. CASE r.at = 3
    <3>1. e.c.body = Edited
      BY <1>6, <1>8, <2>3, WithBlock
    <3>2. e.hash[Len(e.hash)].body # Edited
      BY <1>11, <1>12 DEF Sealable
    <3> QED
      BY <2>2, <3>1, <3>2
  <2>4. CASE r.at \in {1, 2}
    <3>1. PICK x \in Content : e = With(b, x)
      BY <1>3, <1>8, <1>13, <2>4
    <3>2. e.c = x /\ e.hash = b.hash /\ e.prev = b.prev
      BY <1>3, <3>1, WithBlock
    <3>3. e.c = c
      BY <1>3, <2>2, <3>2
    <3>4. With(b, b.c) = b
      BY <1>3 DEF With, Block
    <3> QED
      BY <1>3, <3>1, <3>2, <3>3, <3>4
  <2> QED
    BY <1>8, <1>9, <2>3, <2>4
<1>14. Whole(b)
  BY <1>3 DEF Whole, Seal
<1> QED
  BY <1>1, <1>2, <1>3, <1>4, <1>8, <1>10, <1>11, <1>12, <1>13, <1>14 DEF b, r, e

\* The entries that are intact after it.
LEMMA WrittenIntact ==
    ASSUME Base, edits = {}, NEW p \in Writers, NEW c \in Given, NEW end \in 1..4,
           Write(p, SealedBlock(head[p], c, end))
    PROVE  LET b == SealedBlock(head[p], c, end)
               e == Made(files, today, b)
           IN  /\ \A x \in Block : Has(files, x) => Has(files', x)
               /\ end = 4 => Has(files', e)
               /\ \A h \in Intact(files) : h \in Intact(files')
               /\ end = 4 /\ e = b => b.hash \in Intact(files')
               /\ \A h \in Intact(files') : \/ h \in Intact(files)
                                            \/ end = 4 /\ e = b /\ h = b.hash
<1> DEFINE b == SealedBlock(head[p], c, end)
           e == Made(files, today, b)
<1>1. /\ files' = Longer(files, today, b) /\ b \in Hashed(seals')
      /\ files \in Filed(seals') /\ today \in 1..Days
      /\ Whole(b) /\ b.end = end /\ b.hash \in Seq(Content) /\ b \in Block
      /\ end = 4 /\ Whole(e) => e = b
  BY Written
<1> HIDE DEF b
<1>2. \A x : Has(files', x) <=> Has(files, x) \/ (end = 4 /\ x = e)
  BY <1>1, LongerHas
<1> HIDE DEF e
<1>3. \A h \in Intact(files) : h \in Intact(files')
  BY <1>2 DEF Intact
<1>4. end = 4 /\ e = b => b.hash \in Intact(files')
  BY <1>1, <1>2 DEF Intact
<1>5. \A h \in Intact(files') : h \in Intact(files) \/ (end = 4 /\ e = b /\ h = b.hash)
  BY <1>1, <1>2 DEF Intact
<1> QED
  BY <1>2, <1>3, <1>4, <1>5 DEF b, e

\* In the first state every file is read to its end.
LEMMA InitReads ==
    ASSUME Init
    PROVE  \A d \in 1..Days : Read(files[d]).at = 0
<1>1. PICK c \in Given, old \in {FALSE, Legacy} :
         files = [d \in 1..Days |-> IF old /\ d = 1 THEN << Unsealed(c) >> ELSE <<>>]
  BY DEF Init, Given
<1>2. Unsealed(c) \in Block /\ Unsealed(c).end = 4
  BY EmptySeq DEF Unsealed, Block, None, Parts, Given
<1>3. Read(<<>>).at = 0
  BY ReadEmpty DEF Fresh, Parts
<1>4. Read(<< Unsealed(c) >>).at = 0
  <2> DEFINE l == << Unsealed(c) >>
  <2>1. l \in Seq(Block) /\ Len(l) = 1 /\ \A i \in 1..Len(l) : l[i].end = 4
    BY <1>2
  <2> HIDE DEF l
  <2>2. Read(l).at = 0
    BY <2>1, ReadWhole
  <2> QED
    BY <2>2 DEF l
<1> QED
  BY <1>1, <1>3, <1>4

\* No seal is of a body edited by hand.
LEMMA SealableNext ==
    ASSUME Inv, Sealable, NEW p \in Writers, NEW c \in Given, NEW end \in 1..4,
           Write(p, SealedBlock(head[p], c, end))
    PROVE  Sealable'
<1> DEFINE h == SealedBlock(head[p], c, end).hash
<1>1. head[p] \in Seq(Content) /\ c \in Content /\ c.body # Edited /\ end \in 1..4
  BY DEF Inv, TypeOK, Given
<1>2. Len(h) = Len(head[p]) + 1 /\ h[Len(head[p]) + 1] = c
  BY ONLY <1>1, Sealing
<1>3. Len(head[p]) \in Nat
  BY <1>1, LenProperties
<1>4. seals' = seals \cup {h}
  BY DEF Write
<1> HIDE DEF h
<1>5. Len(h) \in Nat \ {0} /\ h[Len(h)].body # Edited
  BY <1>1, <1>2, <1>3
<1> QED
  BY <1>4, <1>5 DEF Sealable

\* The entry that is open after it states its seal.
LEMMA OpenNext ==
    ASSUME Base, edits = {}, NEW p \in Writers, NEW c \in Given, NEW end \in 1..4,
           Write(p, SealedBlock(head[p], c, end))
    PROVE  OpenSealed'
<1> DEFINE b == SealedBlock(head[p], c, end)
           e == Made(files, today, b)
<1>1. /\ files' = Longer(files, today, b) /\ b \in Hashed(seals')
      /\ files \in Filed(seals') /\ today \in 1..Days /\ e.hash # None
  BY Written
<1> HIDE DEF b
<1>2. /\ \A d \in 1..Days : d # today => Read(files'[d]) = Read(files[d])
      /\ Read(files'[today]).cur = e
  BY <1>1, LongerReads, ZenonT(60)
<1> QED
  BY <1>1, <1>2 DEF Base, OpenSealed

\* These hold from the first state ...
LEMMA InitBase ==
    ASSUME Init
    PROVE  Base
<1>1. acked = {} /\ seals = {}
  BY DEF Init
<1>2. OpenSealed
  BY InitReads DEF OpenSealed
<1> QED
  BY <1>1, <1>2, InitInv, FS_EmptySet DEF Base, Sealable

\* ... and every step keeps them.
LEMMA BaseNext ==
    ASSUME Base, [Next]_vars
    PROVE  Base'
<1>0. Inv'
  BY InvNext DEF Base
<1>1. ASSUME NEW p \in Writers, NEW c \in Given, AppendEntry(p, c)
      PROVE  Base'
  <2> DEFINE h == SealedBlock(head[p], c, 4).hash
  <2>0. 4 \in 1..4
    OBVIOUS
  <2>1. /\ Write(p, SealedBlock(head[p], c, 4)) /\ acked' = acked \cup {h} /\ edits' = edits
    BY <1>1 DEF AppendEntry, Parts, Write
  <2> HIDE DEF h
  <2>2. IsFiniteSet(acked')
    BY <2>1, FS_AddElement DEF Base
  <2>3. Sealable'
    BY <2>0, <2>1, SealableNext DEF Base
  <2>4. edits = {} => OpenSealed'
    BY <2>0, <2>1, OpenNext
  <2> QED
    BY <1>0, <2>1, <2>2, <2>3, <2>4 DEF Base
<1>2. ASSUME NEW p \in Writers, NEW c \in Given, NEW end \in 1..4, TearEntry(p, c, end)
      PROVE  Base'
  <2>1. /\ Write(p, SealedBlock(head[p], c, end)) /\ acked' = acked /\ edits' = edits
    BY <1>2 DEF TearEntry, Write
  <2>2. Sealable'
    BY <2>1, SealableNext DEF Base
  <2>3. edits = {} => OpenSealed'
    BY <2>1, OpenNext
  <2> QED
    BY <1>0, <2>1, <2>2, <2>3 DEF Base
<1>3. ASSUME UNCHANGED <<files, acked, seals, edits>>
      PROVE  Base'
  BY <1>0, <1>3 DEF Base, Sealable, OpenSealed
<1>4. ASSUME NEW d \in 1..Days, NEW i, ByHand(d, i)
      PROVE  Base'
  <2>1. edits' # {} /\ UNCHANGED <<acked, seals>>
    BY <1>4, Edits DEF Base
  <2> QED
    BY <1>0, <2>1 DEF Base, Sealable
<1> QED
  BY <1>1, <1>2, <1>3, <1>4, Steps DEF Restart, Midnight, vars

\* The files that end inside an entry.
Open == {d \in 1..Days : Read(files[d]).at # 0}

TearInv == edits = {} => Cardinality(Damaged) + Cardinality(Open) <= tears

DamageInv ==
    edits = {} /\ Damaged # {} => \E e \in Block : Has(files, e) /\ e.hash # None /\ ~Whole(e)

\* Both sets are finite.
LEMMA FiniteBoth ==
    ASSUME Base
    PROVE  /\ IsFiniteSet(Damaged) /\ Cardinality(Damaged) \in Nat
           /\ IsFiniteSet(Open) /\ Cardinality(Open) \in Nat
<1>1. Damaged \subseteq acked /\ Open \subseteq 1..Days /\ 1 \in Int /\ Days \in Int
  BY ChainAssumption DEF Damaged, Open
<1>2. IsFiniteSet(1..Days)
  BY <1>1, FS_Interval
<1> QED
  BY <1>1, <1>2, FS_Subset, FS_CardinalityType DEF Base

\* A set with at most one element more, and one with one less.
LEMMA OneMore ==
    ASSUME NEW S, IsFiniteSet(S), NEW x, NEW T, T \subseteq S \cup {x}
    PROVE  IsFiniteSet(T) /\ Cardinality(T) <= Cardinality(S) + 1 /\ Cardinality(T) \in Nat
<1>1. IsFiniteSet(S \cup {x}) /\ Cardinality(S \cup {x}) <= Cardinality(S) + 1
      /\ Cardinality(S) \in Nat
  <2>1. Cardinality(S) \in Nat
    BY FS_CardinalityType
  <2> QED
    BY <2>1, FS_AddElement
<1>2. IsFiniteSet(T) /\ Cardinality(T) <= Cardinality(S \cup {x})
  BY <1>1, FS_Subset
<1>3. Cardinality(T) \in Nat /\ Cardinality(S \cup {x}) \in Nat
  BY <1>1, <1>2, FS_CardinalityType
<1> QED
  BY <1>1, <1>2, <1>3

\* The same after a step.
LEMMA DamagedThen == Inv' => (Damaged = acked \ Intact(files))'
<1>1. Inv => Damaged = acked \ Intact(files)
  BY DamagedIs
<1> QED
  BY <1>1, PTL

\* What a write does to the files left open and to the entries damaged, when it
\* acknowledges the seals in Z.
LEMMA Costs ==
    ASSUME Base, Base', edits = {}, NEW p \in Writers, NEW c \in Given, NEW end \in 1..4,
           Write(p, SealedBlock(head[p], c, end)), NEW Z,
           acked' = acked \cup Z, Z = {} \/ (end = 4 /\ Z = {SealedBlock(head[p], c, end).hash})
    PROVE  \/ end # 4 /\ Damaged' \subseteq Damaged /\ Open' \subseteq Open \cup {today}
           \/ end = 4 /\ Damaged' \subseteq Damaged /\ Open' \subseteq Open
           \/ /\ end = 4 /\ today \in Open /\ Open' \subseteq Open \ {today}
              /\ Damaged' \subseteq Damaged \cup {SealedBlock(head[p], c, end).hash}
              /\ Z # {} /\ ~Whole(Made(files, today, SealedBlock(head[p], c, end)))
<1> DEFINE b == SealedBlock(head[p], c, end)
           e == Made(files, today, b)
<1>1. /\ files' = Longer(files, today, b) /\ b \in Hashed(seals')
      /\ files \in Filed(seals') /\ today \in 1..Days /\ b.end = end
      /\ Read(files[today]).at = 0 => e = b
      /\ end = 4 /\ Whole(e) => e = b
  BY Written
<1>2. /\ \A h \in Intact(files) : h \in Intact(files')
      /\ end = 4 /\ e = b => b.hash \in Intact(files')
  BY WrittenIntact
<1> HIDE DEF b
<1>3. /\ \A d \in 1..Days : d # today => Read(files'[d]) = Read(files[d])
      /\ end = 4 => Read(files'[today]).at = 0
  BY <1>1, LongerReads
<1> HIDE DEF e
<1>4. Damaged = acked \ Intact(files) /\ Damaged' = acked' \ Intact(files')
  <2>1. Damaged = acked \ Intact(files)
    BY DamagedIs DEF Base
  <2>2. Damaged' = acked' \ Intact(files')
    BY DamagedThen DEF Base
  <2> QED
    BY <2>1, <2>2 DEF Base
<1>5. Damaged' \subseteq Damaged \cup Z
  BY <1>2, <1>4
<1>6. e = b => Damaged' \subseteq Damaged
  BY <1>2, <1>4 DEF b
<1>7. Z = {} => Damaged' \subseteq Damaged
  BY <1>5
<1>8. Open' \subseteq Open \cup {today} /\ (end = 4 => Open' \subseteq Open \ {today})
  BY <1>3 DEF Open
<1>9. CASE end # 4
  BY <1>7, <1>8, <1>9
<1>10. CASE end = 4 /\ (e = b \/ Z = {})
  BY <1>6, <1>7, <1>8, <1>10
<1>11. CASE end = 4 /\ e # b /\ Z # {}
  <2>1. Z = {b.hash}
    BY <1>11 DEF b
  <2>2. today \in Open
    BY <1>1, <1>11 DEF Open
  <2> QED
    BY <1>1, <1>5, <1>8, <1>11, <2>1, <2>2 DEF b, e
<1> QED
  BY <1>9, <1>10, <1>11

\* Every write cut short leaves one file open at most, and the next entry of an
\* open file is the only one that is damaged.
LEMMA TearStep ==
    ASSUME Base, Base', TearInv, [Next]_vars
    PROVE  TearInv'
<1> SUFFICES ASSUME edits' = {}
             PROVE  Cardinality(Damaged') + Cardinality(Open') <= tears'
  BY DEF TearInv
<1>0. /\ IsFiniteSet(Damaged) /\ Cardinality(Damaged) \in Nat
      /\ IsFiniteSet(Open) /\ Cardinality(Open) \in Nat
      /\ tears \in Nat
  BY FiniteBoth, ChainAssumption DEF Base, Inv, TypeOK
<1>1. ASSUME edits = {}, NEW p \in Writers, NEW c \in Given, NEW end \in 1..4,
             Write(p, SealedBlock(head[p], c, end)), NEW Z,
             acked' = acked \cup Z,
             \/ Z = {} /\ tears' = tears + 1
             \/ end = 4 /\ Z = {SealedBlock(head[p], c, end).hash} /\ tears' = tears
      PROVE  Cardinality(Damaged') + Cardinality(Open') <= tears'
  <2> DEFINE h == SealedBlock(head[p], c, end).hash
  <2>1. \/ end # 4 /\ Damaged' \subseteq Damaged /\ Open' \subseteq Open \cup {today}
        \/ end = 4 /\ Damaged' \subseteq Damaged /\ Open' \subseteq Open
        \/ /\ end = 4 /\ today \in Open /\ Open' \subseteq Open \ {today}
           /\ Damaged' \subseteq Damaged \cup {h} /\ Z # {}
    BY <1>1, Costs
  <2>2. Cardinality(Damaged) + Cardinality(Open) <= tears
    BY <1>1 DEF TearInv
  <2> HIDE DEF h
  <2>3. CASE end # 4 /\ Damaged' \subseteq Damaged /\ Open' \subseteq Open \cup {today}
    <3>1. Cardinality(Damaged') <= Cardinality(Damaged) /\ Cardinality(Damaged') \in Nat
      BY <1>0, <2>3, FS_Subset, FS_CardinalityType
    <3>2. Cardinality(Open') <= Cardinality(Open) + 1 /\ Cardinality(Open') \in Nat
      BY <1>0, <2>3, OneMore
    <3> QED
      BY <1>0, <1>1, <2>2, <2>3, <3>1, <3>2
  <2>4. CASE Damaged' \subseteq Damaged /\ Open' \subseteq Open
    <3>1. Cardinality(Damaged') <= Cardinality(Damaged) /\ Cardinality(Damaged') \in Nat
      BY <1>0, <2>4, FS_Subset, FS_CardinalityType
    <3>2. Cardinality(Open') <= Cardinality(Open) /\ Cardinality(Open') \in Nat
      BY <1>0, <2>4, FS_Subset, FS_CardinalityType
    <3> QED
      BY <1>0, <1>1, <2>2, <3>1, <3>2
  <2>5. CASE /\ today \in Open /\ Open' \subseteq Open \ {today}
             /\ Damaged' \subseteq Damaged \cup {h} /\ Z # {}
    <3>1. Cardinality(Damaged') <= Cardinality(Damaged) + 1 /\ Cardinality(Damaged') \in Nat
      BY <1>0, <2>5, OneMore
    <3>2. /\ IsFiniteSet(Open \ {today})
          /\ Cardinality(Open \ {today}) = Cardinality(Open) - 1
      BY <1>0, <2>5, FS_RemoveElement
    <3>3. Cardinality(Open') <= Cardinality(Open) - 1 /\ Cardinality(Open') \in Nat
      BY <2>5, <3>2, FS_Subset, FS_CardinalityType
    <3> QED
      BY <1>0, <1>1, <2>2, <2>5, <3>1, <3>3
  <2> QED
    BY <2>1, <2>3, <2>4, <2>5
<1>2. ASSUME NEW p \in Writers, NEW c \in Given, AppendEntry(p, c)
      PROVE  Cardinality(Damaged') + Cardinality(Open') <= tears'
  <2> DEFINE h == SealedBlock(head[p], c, 4).hash
  <2>0. 4 \in 1..4
    OBVIOUS
  <2>1. /\ Write(p, SealedBlock(head[p], c, 4)) /\ acked' = acked \cup {h}
        /\ tears' = tears /\ edits = {}
    BY <1>2 DEF AppendEntry, Parts, Write
  <2> QED
    BY <1>1, <2>0, <2>1
<1>3. ASSUME NEW p \in Writers, NEW c \in Given, NEW end \in 1..4, TearEntry(p, c, end)
      PROVE  Cardinality(Damaged') + Cardinality(Open') <= tears'
  <2>1. /\ Write(p, SealedBlock(head[p], c, end)) /\ acked' = acked \cup {}
        /\ tears' = tears + 1 /\ edits = {}
    BY <1>3 DEF TearEntry, Write
  <2> QED
    BY <1>1, <2>1
<1>4. ASSUME UNCHANGED <<files, acked, tears, edits>>
      PROVE  Cardinality(Damaged') + Cardinality(Open') <= tears'
  <2>1. Damaged' = Damaged /\ Open' = Open
    BY <1>4 DEF Damaged, Open, AllEntries
  <2> QED
    BY <1>4, <2>1 DEF TearInv
<1>5. ASSUME NEW d \in 1..Days, NEW i, ByHand(d, i)
      PROVE  FALSE
  BY <1>5, Edits DEF Base
<1> QED
  BY <1>2, <1>3, <1>4, <1>5, Steps DEF Restart, Midnight, vars

\* Writes cut short damage no more entries than there were such writes.
THEOREM TearCostsOneAlways == Spec => []TearCostsOne
<1>1. Init => Base /\ TearInv
  <2> SUFFICES ASSUME Init
               PROVE  Base /\ TearInv
    OBVIOUS
  <2>1. Damaged = {} /\ Open = {} /\ tears = 0
    BY InitReads DEF Init, Damaged, Open
  <2> QED
    BY <2>1, InitBase, FS_EmptySet DEF TearInv
<1>2. Base /\ TearInv /\ [Next]_vars => Base' /\ TearInv'
  BY BaseNext, TearStep
<1>3. Base /\ TearInv => TearCostsOne
  <2> SUFFICES ASSUME Base, TearInv
               PROVE  TearCostsOne
    OBVIOUS
  <2>1. Cardinality(Damaged) \in Nat /\ Cardinality(Open) \in Nat /\ tears \in Nat
    BY FiniteBoth, ChainAssumption DEF Base, Inv, TypeOK
  <2> QED
    BY <2>1 DEF TearInv, TearCostsOne
<1> QED
  BY <1>1, <1>2, <1>3, PTL DEF Spec

\* A write damages what it acknowledges only by leaving in the log an entry that
\* does not match its seal.
LEMMA DamageStep ==
    ASSUME Base, Base', DamageInv, [Next]_vars
    PROVE  DamageInv'
<1> DEFINE Shown(fs) == \E e \in Block : Has(fs, e) /\ e.hash # None /\ ~Whole(e)
<1> SUFFICES ASSUME edits' = {}, Damaged' # {}
             PROVE  Shown(files')
  BY DEF DamageInv
<1>1. ASSUME edits = {}, NEW p \in Writers, NEW c \in Given, NEW end \in 1..4,
             Write(p, SealedBlock(head[p], c, end)), NEW Z,
             acked' = acked \cup Z, Z = {} \/ (end = 4 /\ Z = {SealedBlock(head[p], c, end).hash})
      PROVE  Shown(files')
  <2> DEFINE e == Made(files, today, SealedBlock(head[p], c, end))
  <2>1. /\ \A x \in Block : Has(files, x) => Has(files', x)
        /\ end = 4 => Has(files', e)
    BY <1>1, WrittenIntact
  <2>2. e \in Block /\ e.hash # None
    BY <1>1, Written
  <2>3. Damaged' \subseteq Damaged \/ (end = 4 /\ ~Whole(e))
    BY <1>1, Costs
  <2> HIDE DEF e
  <2>4. CASE Damaged' \subseteq Damaged
    <3>1. Shown(files)
      BY <1>1, <2>4 DEF DamageInv
    <3> QED
      BY <2>1, <3>1
  <2>5. CASE end = 4 /\ ~Whole(e)
    BY <2>1, <2>2, <2>5
  <2> QED
    BY <2>3, <2>4, <2>5
<1> HIDE DEF Shown
<1>2. ASSUME NEW p \in Writers, NEW c \in Given, AppendEntry(p, c)
      PROVE  Shown(files')
  <2> DEFINE h == SealedBlock(head[p], c, 4).hash
  <2>0. 4 \in 1..4
    OBVIOUS
  <2>1. Write(p, SealedBlock(head[p], c, 4)) /\ acked' = acked \cup {h} /\ edits = {}
    BY <1>2 DEF AppendEntry, Parts, Write
  <2> QED
    BY <1>1, <2>0, <2>1
<1>3. ASSUME NEW p \in Writers, NEW c \in Given, NEW end \in 1..4, TearEntry(p, c, end)
      PROVE  Shown(files')
  <2>1. Write(p, SealedBlock(head[p], c, end)) /\ acked' = acked \cup {} /\ edits = {}
    BY <1>3 DEF TearEntry, Write
  <2> QED
    BY <1>1, <2>1
<1>4. ASSUME UNCHANGED <<files, acked, edits>>
      PROVE  Shown(files')
  <2>1. Damaged' = Damaged
    BY <1>4 DEF Damaged, AllEntries
  <2> QED
    BY <1>4, <2>1 DEF DamageInv, Shown
<1>5. ASSUME NEW d \in 1..Days, NEW i, ByHand(d, i)
      PROVE  FALSE
  BY <1>5, Edits DEF Base
<1> QED
  BY <1>2, <1>3, <1>4, <1>5, Steps DEF Restart, Midnight, vars

\* An entry mem7 said was stored, and cannot read back, is shown by verify.
THEOREM DamageShownAlways == Spec => []DamageShown
<1>1. Init => Base /\ DamageInv
  <2> SUFFICES ASSUME Init
               PROVE  Base /\ DamageInv
    OBVIOUS
  <2>1. Damaged = {}
    BY DEF Init, Damaged
  <2> QED
    BY <2>1, InitBase DEF DamageInv
<1>2. Base /\ DamageInv /\ [Next]_vars => Base' /\ DamageInv'
  BY BaseNext, DamageStep
<1>3. Base /\ DamageInv => DamageShown
  <2> SUFFICES ASSUME Base, DamageInv, edits = {}, Damaged # {}, ChainHolds
               PROVE  FALSE
    BY DEF DamageShown
  <2>1. PICK e \in Block : Has(files, e) /\ e.hash # None /\ ~Whole(e)
    BY DEF DamageInv
  <2>2. e \in ToSet(AllEntries)
    BY <2>1, Names, HasIs DEF Base, Inv
  <2>3. PICK i \in DOMAIN AllEntries : AllEntries[i] = e
    BY <2>2 DEF ToSet
  <2>4. Vouched(AllEntries, i)
    BY DEF ChainHolds
  <2> QED
    BY <2>1, <2>3, <2>4 DEF Vouched, Whole
<1> QED
  BY <1>1, <1>2, <1>3, PTL DEF Spec

-----------------------------------------------------------------------------
(* One process, and a clock that does not step back.                        *)

OneWriter == \E p : Writers = {p}

Forward == ClockBack = FALSE

\* Nothing is written for a day to come.
Ahead == EmptyAfter(files, today)

Holds(l) == \A i \in DOMAIN l : Vouched(l, i)

\* The last seal of a list is that of any sealed entry with no sealed one after it.
LEMMA LastIs ==
    ASSUME NEW H, NEW l \in Seq(Hashed(H)), NEW m \in 1..Len(l), l[m].hash # None,
           \A j \in 1..Len(l) : j > m => l[j].hash = None
    PROVE  LastOf(l) = l[m].hash
<1>1. DOMAIN l = 1..Len(l) /\ Len(l) \in Nat
  BY LenProperties
<1>2. SealedIn(l) # {}
  BY <1>1 DEF SealedIn
<1>3. PICK k \in 1..Len(l) : /\ l[k].hash = LastOf(l) /\ l[k].hash # None
                             /\ \A j \in 1..Len(l) : j > k => l[j].hash = None
  BY <1>2, LastFacts
<1>4. k = m
  BY <1>1, <1>3
<1> QED
  BY <1>3, <1>4

\* The last seal of a list that verify accepts is what the next entry must name.
LEMMA LastVouched ==
    ASSUME NEW H, NEW l \in Seq(Hashed(H)), Holds(l), NEW n \in Nat, Len(l) = n
    PROVE  LastOf(l) = IF Started(l, n + 1) THEN l[n].hash ELSE None
<1>1. DOMAIN l = 1..n
  BY LenProperties
<1>2. CASE ~Started(l, n + 1)
  <2>1. SealedIn(l) = {}
    BY <1>1, <1>2 DEF SealedIn, Started
  <2> QED
    BY <1>2, <2>1 DEF LastOf
<1>3. CASE Started(l, n + 1)
  <2>1. PICK j \in 1..n : l[j].hash # None
    BY <1>3 DEF Started
  <2>2. n \in 1..n
    BY <2>1
  <2>3. l[n].hash # None
    <3>1. CASE j = n
      BY <2>1, <3>1
    <3>2. CASE j # n
      <4>1. j \in 1..(n - 1)
        BY <2>1, <3>2
      <4>2. Started(l, n)
        BY <2>1, <4>1 DEF Started
      <4> QED
        BY <1>1, <2>2, <4>2 DEF Holds, Vouched
    <3> QED
      BY <3>1, <3>2
  <2>4. \A k \in 1..n : ~(k > n)
    OBVIOUS
  <2>5. LastOf(l) = l[n].hash
    BY <2>2, <2>3, <2>4, LastIs
  <2> QED
    BY <1>3, <2>5
<1> QED
  BY <1>2, <1>3

\* One entry more, sealed after the last seal.
LEMMA HoldsAppend ==
    ASSUME NEW H, NEW l \in Seq(Hashed(H)), NEW e \in Hashed(H), e.hash # None
    PROVE  /\ LastOf(Append(l, e)) = e.hash
           /\ Holds(l) /\ Whole(e) /\ e.prev = LastOf(l) => Holds(Append(l, e))
<1> DEFINE n == Len(l)
           a == Append(l, e)
<1>1. /\ n \in Nat /\ DOMAIN l = 1..n /\ a \in Seq(Hashed(H)) /\ Len(a) = n + 1
      /\ DOMAIN a = 1..(n + 1) /\ a[n + 1] = e /\ \A i \in 1..n : a[i] = l[i]
  BY LenProperties, AppendProperties
<1> HIDE DEF n, a
<1>2. LastOf(a) = e.hash
  <2>1. n + 1 \in 1..Len(a) /\ \A j \in 1..Len(a) : ~(j > n + 1)
    BY <1>1
  <2>2. a[n + 1].hash # None
    BY <1>1
  <2>3. LastOf(a) = a[n + 1].hash
    BY <1>1, <2>1, <2>2, LastIs
  <2> QED
    BY <1>1, <2>3
<1>3. ASSUME Holds(l), Whole(e), e.prev = LastOf(l)
      PROVE  Holds(a)
  <2>1. \A i \in 1..(n + 1) : Started(a, i) <=> Started(l, i)
    <3>1. \A i \in 1..(n + 1) : \A j \in 1..(i - 1) : j \in 1..n
      BY <1>1
    <3> QED
      BY <1>1, <3>1 DEF Started
  <2>2. ASSUME NEW i \in 1..n
        PROVE  Vouched(a, i)
    <3>1. Vouched(l, i) /\ a[i] = l[i] /\ i \in 1..(n + 1)
      BY <1>1, <1>3 DEF Holds
    <3>2. Started(l, i) => a[i - 1] = l[i - 1]
      <4>1. Started(l, i) => i - 1 \in 1..n
        BY <1>1 DEF Started
      <4> QED
        BY <1>1, <4>1
    <3>3. Started(a, i) <=> Started(l, i)
      BY <2>1, <3>1
    <3> QED
      BY <3>1, <3>2, <3>3 DEF Vouched
  <2>3. Vouched(a, n + 1)
    <3>1. LastOf(l) = IF Started(l, n + 1) THEN l[n].hash ELSE None
      BY <1>1, <1>3, LastVouched DEF n
    <3>2. Started(a, n + 1) <=> Started(l, n + 1)
      BY <1>1, <2>1
    <3>3. Started(l, n + 1) => a[(n + 1) - 1] = l[n]
      <4>1. (n + 1) - 1 = n /\ (Started(l, n + 1) => n \in 1..n)
        BY <1>1 DEF Started
      <4> QED
        BY <1>1, <4>1
    <3>4. e.prev = IF Started(a, n + 1) THEN a[(n + 1) - 1].hash ELSE None
      BY <1>3, <3>1, <3>2, <3>3
    <3> QED
      BY <1>1, <1>3, <3>4 DEF Vouched, Whole
  <2>4. \A i \in 1..(n + 1) : i \in 1..n \/ i = n + 1
    BY <1>1
  <2> QED
    BY <1>1, <2>2, <2>3, <2>4 DEF Holds
<1> QED
  BY <1>2, <1>3 DEF a

\* The sealed entries are entries of the list.
LEMMA SealedTyped ==
    ASSUME NEW T, NEW l \in Seq(T)
    PROVE  SealedOf(l) \in Seq(T) /\ Len(SealedOf(l)) \in Nat
<1> DEFINE n == Len(l)
<1>1. n \in Nat /\ DOMAIN l = 1..n /\ \A i \in 1..n : l[i] \in T
  BY LenProperties, ElementOfSeq
<1> HIDE DEF n
<1>2. PICK g : Running(g, "collect", <<>>, l, n) /\ g[n] = SealedOf(l)
  BY <1>1, SealedRuns
<1>3. SealedOf(l) \in Seq(T)
  <2> DEFINE Bad == {k \in 0..n : g[k] \notin Seq(T)}
  <2>1. SUFFICES ASSUME Bad # {}
                 PROVE  FALSE
    BY <1>1, <1>2
  <2>2. Bad \in SUBSET Nat
    BY <1>1
  <2>3. PICK k \in Bad : \A j \in Bad : k <= j
    BY <2>1, <2>2, Least, Zenon
  <2>4. k # 0
    BY <1>2, EmptySeq DEF Running
  <2>5. k \in 1..n /\ k - 1 \in 0..n /\ ~(k <= k - 1)
    BY <1>1, <2>4
  <2>6. g[k - 1] \in Seq(T)
    BY <2>3, <2>5
  <2>7. g[k] = Collect(g[k - 1], l[k]) /\ l[k] \in T
    BY <1>1, <1>2, <2>5 DEF Running, Do
  <2>8. g[k] \in Seq(T)
    BY <2>6, <2>7, AppendProperties DEF Collect
  <2> QED
    BY <2>8
<1> QED
  BY <1>3, LenProperties

\* The sealed entries of a list, and with one entry more.
LEMMA SealedAppend ==
    ASSUME NEW T, NEW l \in Seq(T), NEW e \in T, e.hash # None
    PROVE  /\ SealedOf(l) \in Seq(T) /\ Len(SealedOf(l)) \in Nat
           /\ Len(SealedOf(Append(l, e))) = Len(SealedOf(l)) + 1
<1> DEFINE n == Len(l)
           m == n + 1
           r == Append(l, e)
<1>1. /\ n \in Nat /\ m \in Nat /\ n <= m /\ m \in 1..m /\ m - 1 = n
      /\ DOMAIN l = 1..n /\ DOMAIN r = 1..m
      /\ r[m] = e /\ \A i \in 1..n : l[i] = r[i] /\ l[i] \in T
  BY LenProperties, AppendProperties, ElementOfSeq
<1> HIDE DEF n, r
<1> HIDE DEF m
<1>2. PICK g : Running(g, "collect", <<>>, l, n) /\ g[n] = SealedOf(l)
  BY <1>1, SealedRuns
<1>3. PICK h : Running(h, "collect", <<>>, r, m) /\ h[m] = SealedOf(r)
  BY <1>1, SealedRuns
<1>4. g[n] = h[n]
  <2>1. SameUpTo(l, r, n)
    BY <1>1 DEF SameUpTo
  <2> QED
    BY <1>1, <1>2, <1>3, <2>1, RunsAgree, ZenonT(60)
<1>5. h[m] = Collect(h[n], r[m])
  BY <1>1, <1>3 DEF Running, Do
<1>6. SealedOf(r) = Append(SealedOf(l), e)
  BY <1>1, <1>2, <1>3, <1>4, <1>5 DEF Collect
<1>7. SealedOf(l) \in Seq(T)
  BY SealedTyped
<1>8. Len(Append(SealedOf(l), e)) = Len(SealedOf(l)) + 1 /\ Len(SealedOf(l)) \in Nat
  BY <1>7, AppendProperties, LenProperties
<1> QED
  BY <1>6, <1>7, <1>8 DEF r

\* The days only pass.
LEMMA AheadNext ==
    ASSUME Inv, Forward, Ahead, [Next]_vars
    PROVE  Ahead'
<1>0. today \in 1..Days /\ Days \in Nat /\ files \in [1..Days -> Seq(Block)]
  BY ChainAssumption DEF Inv, TypeOK
<1>1. ASSUME NEW b, files' = [files EXCEPT ![today] = Append(@, b)], today' = today
      PROVE  Ahead'
  BY <1>0, <1>1 DEF Ahead, EmptyAfter
<1>2. ASSUME NEW d \in 1..Days, NEW i, ByHand(d, i)
      PROVE  Ahead'
  <2>1. PICK file \in Seq(Hashed(seals)), kind \in Kinds : HandEdit(d, file, kind)
    BY <1>2, Editing
  <2>2. i \in DOMAIN files[d]
    BY <1>2 DEF ByHand, Change, Drop, Swap, Add, Editable
  <2>3. files[d] # <<>>
    <3>1. DOMAIN <<>> = {}
      OBVIOUS
    <3> QED
      BY <2>2, <3>1
  <2>4. ~(d > today)
    BY <2>3 DEF Ahead, EmptyAfter
  <2>5. files' = [files EXCEPT ![d] = file] /\ today' = today
    BY <2>1 DEF HandEdit
  <2> QED
    BY <1>0, <2>4, <2>5 DEF Ahead, EmptyAfter
<1>3. CASE Midnight
  <2>1. today' = today + 1 /\ files' = files
    BY <1>3 DEF Midnight, Forward
  <2> QED
    BY <1>0, <2>1 DEF Ahead, EmptyAfter
<1>4. CASE UNCHANGED <<files, today>>
  BY <1>4 DEF Ahead, EmptyAfter
<1> QED
  BY <1>1, <1>2, <1>3, <1>4, Steps DEF AppendEntry, TearEntry, Write, Restart, vars

\* The whole log after a block is written.
LEMMA WholeLog ==
    ASSUME Base, Ahead, edits = {}, NEW p \in Writers, NEW c \in Given, NEW end \in 1..4,
           Write(p, SealedBlock(head[p], c, end))
    PROVE  LET e == Made(files, today, SealedBlock(head[p], c, end))
           IN  /\ end = 4 => AllOf(files') = Append(AllOf(files), e)
               /\ end # 4 => AllOf(files') = AllOf(files)
               /\ AllOf(files) \in Seq(Hashed(seals')) /\ e \in Hashed(seals') /\ e.hash # None
<1> DEFINE b == SealedBlock(head[p], c, end)
           e == Made(files, today, b)
<1>1. /\ files' = Longer(files, today, b) /\ b \in Hashed(seals')
      /\ files \in Filed(seals') /\ today \in 1..Days /\ b.end = end
      /\ e \in Block /\ e.hash # None /\ e.hash \in seals'
  BY Written
<1> HIDE DEF b
<1>2. AllOf(files) \in Seq(Hashed(seals'))
  BY <1>1, AllIn
<1>3. /\ b.end = 4 => AllOf(files') = Append(AllOf(files), e)
      /\ b.end # 4 => AllOf(files') = AllOf(files)
  <2>1. EmptyAfter(files, today)
    BY DEF Ahead
  <2> QED
    BY <1>1, <2>1, AllAppend
<1> HIDE DEF e
<1>4. e \in Hashed(seals')
  BY <1>1 DEF Hashed
<1> QED
  BY <1>1, <1>2, <1>3, <1>4 DEF e, b

\* With no write cut short, and no edit, verify accepts the log and the process
\* holds its last seal.
WrittenInv ==
    edits = {} /\ tears = 0 =>
        /\ Holds(AllOf(files))
        /\ \A p \in Writers : head[p] = LastOf(AllOf(files))

\* In the first state no entry is sealed.
LEMMA InitHolds ==
    ASSUME Init
    PROVE  /\ Holds(AllOf(files)) /\ \A p \in Writers : head[p] = LastOf(AllOf(files))
           /\ \A i \in DOMAIN AllOf(files) : AllOf(files)[i].hash = None
           /\ Ahead
<1> DEFINE A == AllOf(files)
<1>1. seals = {} /\ files \in Filed(seals)
  BY InitInv DEF Init, Inv
<1>2. A \in Seq(Hashed({}))
  BY <1>1, AllIn
<1> HIDE DEF A
<1>3. DOMAIN A = 1..Len(A) /\ \A i \in 1..Len(A) : A[i] \in Hashed({})
  BY <1>2, LenProperties, ElementOfSeq
<1>4. \A i \in DOMAIN A : A[i].hash = None
  BY <1>3 DEF Hashed
<1>5. LastOf(A) = None
  BY <1>2, LastFacts
<1>6. Holds(A)
  <2>1. Len(A) \in Nat
    BY <1>2, LenProperties
  <2>2. \A i \in DOMAIN A : ~Started(A, i)
    <3>1. \A i \in 1..Len(A) : \A j \in 1..(i - 1) : j \in 1..Len(A)
      BY <2>1
    <3> QED
      BY <1>3, <1>4, <3>1 DEF Started
  <2> QED
    BY <1>4, <2>2 DEF Holds, Vouched
<1>7. Ahead
  <2>1. \A d \in 1..Days : d > today => d # 1
    BY DEF Init
  <2> QED
    BY <2>1 DEF Init, Ahead, EmptyAfter
<1> QED
  BY <1>4, <1>5, <1>6, <1>7 DEF Init, A

\* The entry appended is what is read back when no write was cut short.
LEMMA WrittenStep ==
    ASSUME OneWriter, Base, Ahead, TearInv, WrittenInv, [Next]_vars
    PROVE  WrittenInv'
<1> DEFINE Good(fs, hd) == Holds(AllOf(fs)) /\ \A p \in Writers : hd[p] = LastOf(AllOf(fs))
<1> SUFFICES ASSUME edits' = {}, tears' = 0
             PROVE  Good(files', head')
  BY DEF WrittenInv
<1>0. tears \in Nat /\ head \in [Writers -> Seq(Content)]
  BY ChainAssumption DEF Base, Inv, TypeOK
<1>1. ASSUME NEW p \in Writers, NEW c \in Given, AppendEntry(p, c)
      PROVE  Good(files', head')
  <2> DEFINE b == SealedBlock(head[p], c, 4)
             e == Made(files, today, b)
             A == AllOf(files)
  <2>0. 4 \in 1..4
    OBVIOUS
  <2>1. /\ Write(p, b) /\ head' = [head EXCEPT ![p] = b.hash] /\ tears = 0 /\ edits = {}
    BY <1>1 DEF AppendEntry, Parts, Write
  <2>2. /\ today \in 1..Days /\ Whole(b) /\ b.prev = head[p]
        /\ Read(files[today]).at = 0 => e = b
    BY <2>0, <2>1, Written
  <2>3. /\ AllOf(files') = Append(A, e) /\ A \in Seq(Hashed(seals'))
        /\ e \in Hashed(seals') /\ e.hash # None
    BY <2>0, <2>1, WholeLog
  <2> HIDE DEF A, e, b
  <2>4. e = b
    <3>1. Cardinality(Damaged) \in Nat /\ Cardinality(Open) \in Nat /\ IsFiniteSet(Open)
      BY FiniteBoth
    <3>2. Cardinality(Open) = 0
      BY <2>1, <3>1 DEF TearInv
    <3>3. Open = {}
      BY <3>1, <3>2, FS_EmptySet
    <3> QED
      BY <2>2, <3>3 DEF Open
  <2>5. Holds(A) /\ head[p] = LastOf(A)
    BY <2>1 DEF WrittenInv, A
  <2>6. LastOf(Append(A, e)) = e.hash /\ Holds(Append(A, e))
    BY <2>2, <2>3, <2>4, <2>5, HoldsAppend
  <2>7. \A q \in Writers : q = p
    BY DEF OneWriter
  <2> QED
    BY <1>0, <2>1, <2>3, <2>4, <2>6, <2>7
<1>2. ASSUME NEW p \in Writers, NEW c \in Given, NEW end \in 1..4, TearEntry(p, c, end)
      PROVE  FALSE
  BY <1>0, <1>2 DEF TearEntry
<1>3. ASSUME NEW p \in Writers, Restart(p)
      PROVE  Good(files', head')
  <2>1. /\ head' = [head EXCEPT ![p] = LastSeal]
        /\ files' = files /\ tears = 0 /\ edits = {}
    BY <1>3 DEF Restart
  <2>2. head' = [head EXCEPT ![p] = LastOf(AllOf(files))]
    BY <2>1, LastSealIs
  <2>3. Good(files, head)
    BY <2>1 DEF WrittenInv
  <2> QED
    BY <1>0, <2>1, <2>2, <2>3
<1>4. ASSUME UNCHANGED <<files, head, tears, edits>>
      PROVE  Good(files', head')
  BY <1>4 DEF WrittenInv
<1>5. ASSUME NEW d \in 1..Days, NEW i, ByHand(d, i)
      PROVE  FALSE
  BY <1>5, Edits DEF Base
<1> HIDE DEF Good
<1> QED
  BY <1>1, <1>2, <1>3, <1>4, <1>5, Steps DEF Midnight, vars

\* What one process writes without failure verify accepts, across days and
\* restarts, as long as the clock does not step back.
THEOREM WrittenHoldsAlways ==
    ASSUME OneWriter, Forward
    PROVE  Spec => []WrittenHolds
<1>1. Init => Base /\ TearInv /\ Ahead /\ WrittenInv
  <2> SUFFICES ASSUME Init
               PROVE  Base /\ TearInv /\ Ahead /\ WrittenInv
    OBVIOUS
  <2>1. Damaged = {} /\ Open = {} /\ tears = 0
    BY InitReads DEF Init, Damaged, Open
  <2> QED
    BY <2>1, InitBase, InitHolds, FS_EmptySet DEF TearInv, WrittenInv
<1>2. Base /\ TearInv /\ Ahead /\ WrittenInv /\ [Next]_vars
         => Base' /\ TearInv' /\ Ahead' /\ WrittenInv'
  <2> SUFFICES ASSUME Base, TearInv, Ahead, WrittenInv, [Next]_vars
               PROVE  Base' /\ TearInv' /\ Ahead' /\ WrittenInv'
    OBVIOUS
  <2>1. Base'
    BY BaseNext
  <2>2. TearInv'
    BY <2>1, TearStep
  <2>3. Ahead'
    BY AheadNext DEF Base
  <2>4. WrittenInv'
    BY WrittenStep
  <2> QED
    BY <2>1, <2>2, <2>3, <2>4
<1>3. WrittenInv => WrittenHolds
  BY Names DEF WrittenInv, WrittenHolds, ChainHolds, Holds
<1> QED
  BY <1>1, <1>2, <1>3, PTL DEF Spec

-----------------------------------------------------------------------------
(* A write that failed.                                                     *)

\* There are at least as many sealed entries as were acknowledged; if there are
\* no more, and none is damaged, they are those, in order.
HarmlessInv ==
    edits = {} =>
        /\ Cardinality(acked) <= Len(SealedOf(AllOf(files)))
        /\ Damaged = {} /\ Len(SealedOf(AllOf(files))) = Cardinality(acked) =>
              /\ Holds(AllOf(files))
              /\ \A p \in Writers : head[p] = LastOf(AllOf(files))
              /\ \A i \in DOMAIN AllOf(files) : AllOf(files)[i].hash \in acked \cup {None}

\* An entry appended: it adds one sealed entry; if it is not itself damaged, those
\* before it were not, and it is chained to the last of them.
LEMMA HarmlessAppend ==
    ASSUME OneWriter, Base, Base', Ahead, HarmlessInv, edits = {},
           NEW p \in Writers, NEW c \in Given, AppendEntry(p, c)
    PROVE  HarmlessInv'
<1> DEFINE b == SealedBlock(head[p], c, 4)
           e == Made(files, today, b)
           A == AllOf(files)
           s == Len(SealedOf(A))
<1>0. 4 \in 1..4
  OBVIOUS
<1>1. /\ Write(p, b) /\ head' = [head EXCEPT ![p] = b.hash] /\ edits' = edits
      /\ acked' = acked \cup {b.hash}
  BY DEF AppendEntry, Parts, Write
<1>2. Whole(b) /\ b.prev = head[p] /\ b.hash \in Seq(Content)
  BY <1>0, <1>1, Written
<1>3. /\ AllOf(files') = Append(A, e) /\ A \in Seq(Hashed(seals'))
      /\ e \in Hashed(seals') /\ e.hash # None
  BY <1>0, <1>1, WholeLog
<1>4. \A h \in Intact(files') : h \in Intact(files) \/ (e = b /\ h = b.hash)
  BY <1>0, <1>1, WrittenIntact
<1>5. Damaged = acked \ Intact(files) /\ Damaged' = acked' \ Intact(files')
  BY DamagedIs, DamagedThen DEF Base
<1>6. head \in [Writers -> Seq(Content)]
  BY DEF Base, Inv, TypeOK
<1> HIDE DEF b
<1> HIDE DEF A, e
<1>7. s \in Nat /\ Len(SealedOf(Append(A, e))) = s + 1
  BY <1>3, SealedAppend
<1>8. Cardinality(acked) <= s
  BY DEF HarmlessInv, A
<1> HIDE DEF s
<1>9. /\ Cardinality(acked) \in Nat
      /\ Cardinality(acked') = IF b.hash \in acked THEN Cardinality(acked) ELSE Cardinality(acked) + 1
  BY <1>1, FS_AddElement, FS_CardinalityType DEF Base
<1>10. Cardinality(acked') <= s + 1
  BY <1>7, <1>8, <1>9
<1>11. ASSUME Damaged' = {}, s + 1 = Cardinality(acked')
       PROVE  /\ Holds(Append(A, e))
              /\ \A q \in Writers : head'[q] = LastOf(Append(A, e))
              /\ \A i \in DOMAIN Append(A, e) : Append(A, e)[i].hash \in acked' \cup {None}
  <2>1. b.hash \notin acked /\ Cardinality(acked) = s
    BY <1>7, <1>8, <1>9, <1>11
  <2>2. Damaged = {}
    BY <1>1, <1>4, <1>5, <1>11, <2>1
  <2>3. /\ Holds(A) /\ head[p] = LastOf(A)
        /\ \A i \in DOMAIN A : A[i].hash \in acked \cup {None}
    BY <2>1, <2>2 DEF HarmlessInv, A, s
  <2>4. e = b
    <3>1. SUFFICES ASSUME e # b
                   PROVE  FALSE
      OBVIOUS
    <3>2. b.hash \in Intact(files)
      BY <1>1, <1>4, <1>5, <1>11, <3>1
    <3>3. PICK x \in Block : Has(files, x) /\ Whole(x) /\ x.hash = b.hash
      BY <3>2 DEF Intact
    <3>4. x \in ToSet(A)
      BY <3>3, HasIs DEF A, Base, Inv
    <3>5. PICK i \in DOMAIN A : A[i] = x
      BY <3>4 DEF ToSet
    <3>6. b.hash # None
      BY <1>0, <1>1, Written DEF b
    <3> QED
      BY <2>1, <2>3, <3>3, <3>5, <3>6
  <2>5. LastOf(Append(A, e)) = e.hash /\ Holds(Append(A, e))
    BY <1>2, <1>3, <2>3, <2>4, HoldsAppend
  <2>6. \A q \in Writers : head'[q] = e.hash
    BY <1>1, <1>6, <2>4 DEF OneWriter
  <2>7. \A i \in DOMAIN Append(A, e) : Append(A, e)[i].hash \in acked' \cup {None}
    <3>1. /\ Len(A) \in Nat /\ DOMAIN A = 1..Len(A) /\ DOMAIN Append(A, e) = 1..(Len(A) + 1)
          /\ Append(A, e)[Len(A) + 1] = e /\ \A i \in 1..Len(A) : Append(A, e)[i] = A[i]
      BY <1>3, AppendProperties, LenProperties
    <3>2. \A i \in 1..(Len(A) + 1) : i \in 1..Len(A) \/ i = Len(A) + 1
      BY <3>1
    <3> QED
      BY <1>1, <2>3, <2>4, <3>1, <3>2
  <2> QED
    BY <2>5, <2>6, <2>7
<1> QED
  BY <1>3, <1>7, <1>10, <1>11 DEF HarmlessInv

\* The other steps.
LEMMA HarmlessStep ==
    ASSUME OneWriter, Base, Base', Ahead, HarmlessInv, [Next]_vars
    PROVE  HarmlessInv'
<1> SUFFICES ASSUME edits' = {}
             PROVE  HarmlessInv'
  BY DEF HarmlessInv
<1>0. head \in [Writers -> Seq(Content)]
  BY DEF Base, Inv, TypeOK
<1>1. ASSUME NEW p \in Writers, NEW c \in Given, AppendEntry(p, c)
      PROVE  HarmlessInv'
  <2>1. edits = {}
    BY <1>1 DEF AppendEntry, Write
  <2> QED
    BY <1>1, <2>1, HarmlessAppend
<1>2. ASSUME NEW p \in Writers, NEW c \in Given, NEW end \in 1..4, TearEntry(p, c, end)
      PROVE  HarmlessInv'
  <2> DEFINE b == SealedBlock(head[p], c, end)
             e == Made(files, today, b)
             A == AllOf(files)
             s == Len(SealedOf(A))
  <2>1. Write(p, b) /\ head' = head /\ acked' = acked /\ edits = {}
    BY <1>2 DEF TearEntry, HeadKept, Write
  <2>2. /\ end = 4 => AllOf(files') = Append(A, e)
        /\ end # 4 => AllOf(files') = A
        /\ A \in Seq(Hashed(seals')) /\ e \in Hashed(seals') /\ e.hash # None
    BY <2>1, WholeLog
  <2>3. \A h \in Intact(files') : h \in Intact(files) \/ end = 4
    BY <2>1, WrittenIntact
  <2>4. Damaged = acked \ Intact(files) /\ Damaged' = acked' \ Intact(files')
    BY DamagedIs, DamagedThen DEF Base
  <2>5. Cardinality(acked) \in Nat
    BY FS_CardinalityType DEF Base
  <2> HIDE DEF b
  <2> HIDE DEF A, e
  <2>6. s \in Nat /\ Len(SealedOf(Append(A, e))) = s + 1
    BY <2>2, SealedAppend
  <2>7. Cardinality(acked) <= s
    BY <2>1 DEF HarmlessInv, A
  <2>8. CASE end = 4
    <3>1. /\ Cardinality(acked') <= Len(SealedOf(AllOf(files')))
          /\ Len(SealedOf(AllOf(files'))) # Cardinality(acked')
      <4> HIDE DEF s
      <4>1. Len(SealedOf(AllOf(files'))) = s + 1
        BY <2>2, <2>6, <2>8
      <4>2. s + 1 # Cardinality(acked) /\ Cardinality(acked) <= s + 1
        BY ONLY <2>5, <2>6, <2>7
      <4> QED
        BY <2>1, <4>1, <4>2
    <3> QED
      BY <3>1 DEF HarmlessInv
  <2>9. CASE end # 4
    <3>1. AllOf(files') = AllOf(files) /\ (Damaged' = {} => Damaged = {})
      BY <2>1, <2>2, <2>3, <2>4, <2>9 DEF A
    <3> QED
      BY <2>1, <3>1 DEF HarmlessInv
  <2> QED
    BY <2>8, <2>9
<1>3. ASSUME NEW p \in Writers, Restart(p)
      PROVE  HarmlessInv'
  <2>1. /\ head' = [head EXCEPT ![p] = LastSeal]
        /\ files' = files /\ acked' = acked /\ edits' = edits
    BY <1>3 DEF Restart
  <2>2. head' = [head EXCEPT ![p] = LastOf(AllOf(files))]
    BY <2>1, LastSealIs
  <2>3. Damaged' = Damaged
    BY <2>1 DEF Damaged, AllEntries
  <2>4. \A q \in Writers : head[q] = LastOf(AllOf(files)) => head'[q] = LastOf(AllOf(files))
    BY <1>0, <2>2
  <2> QED
    BY <2>1, <2>3, <2>4 DEF HarmlessInv
<1>4. ASSUME UNCHANGED <<files, head, acked, edits>>
      PROVE  HarmlessInv'
  <2>1. Damaged' = Damaged
    BY <1>4 DEF Damaged, AllEntries
  <2> QED
    BY <1>4, <2>1 DEF HarmlessInv
<1>5. ASSUME NEW d \in 1..Days, NEW i, ByHand(d, i)
      PROVE  FALSE
  BY <1>5, Edits DEF Base
<1> QED
  BY <1>1, <1>2, <1>3, <1>4, <1>5, Steps DEF Midnight, vars

\* A write that failed breaks no chain by itself: unless it left an entry, or
\* damaged one, verify accepts the log of one process.
THEOREM FailureHarmlessAlways ==
    ASSUME OneWriter, Forward
    PROVE  Spec => []FailureHarmless
<1>1. Init => Base /\ Ahead /\ HarmlessInv
  <2> SUFFICES ASSUME Init
               PROVE  Base /\ Ahead /\ HarmlessInv
    OBVIOUS
  <2>1. acked = {} /\ Cardinality(acked) = 0
    BY FS_EmptySet DEF Init
  <2>2. Len(SealedOf(AllOf(files))) \in Nat
    <3>1. AllOf(files) \in Seq(Hashed(seals))
      BY AllIn, InitInv DEF Inv
    <3> QED
      BY <3>1, SealedTyped
  <2> QED
    BY <2>1, <2>2, InitBase, InitHolds DEF HarmlessInv
<1>2. Base /\ Ahead /\ HarmlessInv /\ [Next]_vars => Base' /\ Ahead' /\ HarmlessInv'
  <2> SUFFICES ASSUME Base, Ahead, HarmlessInv, [Next]_vars
               PROVE  Base' /\ Ahead' /\ HarmlessInv'
    OBVIOUS
  <2>1. Base'
    BY BaseNext
  <2>2. Ahead'
    BY AheadNext DEF Base
  <2>3. HarmlessInv'
    BY <2>1, HarmlessStep
  <2> QED
    BY <2>1, <2>2, <2>3
<1>3. HarmlessInv => FailureHarmless
  BY Names DEF HarmlessInv, FailureHarmless, ChainHolds, Holds
<1> QED
  BY <1>1, <1>2, <1>3, PTL DEF Spec

-----------------------------------------------------------------------------
(* One file of whole blocks edited, seen in the whole log.                  *)

\* y is x, then l, then z.
Around(y, x, l, z) ==
    /\ Len(y) = (Len(x) + Len(l)) + Len(z)
    /\ \A j \in 1..Len(x) : y[j] = x[j]
    /\ \A j \in 1..Len(l) : y[Len(x) + j] = l[j]
    /\ \A j \in 1..Len(z) : y[(Len(x) + Len(l)) + j] = z[j]

\* Two lists joined.
LEMMA AroundFirst ==
    ASSUME NEW T, NEW x \in Seq(T), NEW l \in Seq(T)
    PROVE  Around(x \o l, x, l, <<>>) /\ Around(l, <<>>, l, <<>>)
<1>1. /\ Len(x \o l) = Len(x) + Len(l) /\ Len(x) \in Nat /\ Len(l) \in Nat
      /\ \A i \in 1..Len(x) : (x \o l)[i] = x[i]
      /\ \A j \in 1..Len(l) : (x \o l)[Len(x) + j] = l[j]
  BY TwoPieces
<1>2. Len(<<>>) = 0
  OBVIOUS
<1>3. Around(x \o l, x, l, <<>>)
  BY <1>1, <1>2 DEF Around
<1>4. Around(l, <<>>, l, <<>>)
  <2>1. \A j \in 1..Len(l) : 0 + j = j
    BY <1>1
  <2>2. Len(l) = (0 + Len(l)) + 0
    BY <1>1
  <2> QED
    BY <1>2, <2>1, <2>2 DEF Around
<1> QED
  BY <1>3, <1>4

\* One list more.
LEMMA AroundNext ==
    ASSUME NEW T, NEW y \in Seq(T), NEW x \in Seq(T), NEW l \in Seq(T), NEW z \in Seq(T),
           NEW w \in Seq(T), Around(y, x, l, z)
    PROVE  Around(y \o w, x, l, z \o w)
<1> DEFINE a == Len(x)
           b == Len(l)
           c == Len(z)
           e == Len(w)
           n == Len(y)
           u == y \o w
           v == z \o w
<1>1. /\ a \in Nat /\ b \in Nat /\ c \in Nat /\ e \in Nat /\ n \in Nat
      /\ Len(u) = n + e /\ Len(v) = c + e
      /\ \A j \in 1..n : u[j] = y[j]
      /\ \A j \in 1..e : u[n + j] = w[j]
      /\ \A j \in 1..c : v[j] = z[j]
      /\ \A j \in 1..e : v[c + j] = w[j]
  BY TwoPieces, LenProperties
<1>2. /\ n = (a + b) + c
      /\ \A j \in 1..a : y[j] = x[j]
      /\ \A j \in 1..b : y[a + j] = l[j]
      /\ \A j \in 1..c : y[(a + b) + j] = z[j]
  BY DEF Around
<1> HIDE DEF a, b, c, e, n, u, v
<1>3. \A j \in 1..a : u[j] = x[j]
  <2>0. a \in Nat /\ b \in Nat /\ c \in Nat /\ n = (a + b) + c
    BY <1>1, <1>2
  <2>1. \A j \in 1..a : j \in 1..n
    BY ONLY <2>0
  <2> QED
    BY <1>1, <1>2, <2>1
<1>4. \A j \in 1..b : u[a + j] = l[j]
  <2>1. \A j \in 1..b : a + j \in 1..n
    BY <1>1, <1>2
  <2> QED
    BY <1>1, <1>2, <2>1
<1>5. ASSUME NEW j \in 1..(c + e)
      PROVE  u[(a + b) + j] = v[j]
  <2>1. CASE j \in 1..c
    <3>1. (a + b) + j \in 1..n
      BY <1>1, <1>2, <2>1
    <3> QED
      BY <1>1, <1>2, <2>1, <3>1
  <2>2. CASE j \notin 1..c
    <3> DEFINE m == j - c
    <3>1. m \in 1..e /\ c + m = j /\ n + m = (a + b) + j
      BY <1>1, <1>2, <2>2
    <3> HIDE DEF m
    <3>2. u[n + m] = w[m] /\ v[c + m] = w[m]
      BY <1>1, <3>1
    <3> QED
      BY <3>1, <3>2
  <2> QED
    BY <2>1, <2>2
<1>6. Len(u) = (a + b) + Len(v)
  BY <1>1, <1>2, SMTT(30)
<1> QED
  BY <1>1, <1>3, <1>4, <1>5, <1>6 DEF Around, a, b, u, v

\* s is r with another list at t.
Replaces(r, s, t, N) ==
    /\ N \in Nat \ {0} /\ t \in 1..N /\ Len(r) = N /\ Len(s) = N
    /\ \A d \in 1..N : d # t => s[d] = r[d]

\* The first k lists of both, and what comes after t in them.
Part(f, g, r, s, t, x, T, k) ==
    \E z \in Seq(T) : /\ Around(f[k], x, r[t], z) /\ Around(g[k], x, s[t], z)
                      /\ \A d \in 1..k : d > t => Len(r[d]) <= Len(z)

\* The lists joined differ only where that list is.
LEMMA Replaced ==
    ASSUME NEW T, NEW r, NEW s, NEW t, NEW N,
           ListsOf(T, r, N), ListsOf(T, s, N), Replaces(r, s, t, N)
    PROVE  \E x \in Seq(T), z \in Seq(T) :
              /\ Around(FlattenSeq(r), x, r[t], z) /\ Around(FlattenSeq(s), x, s[t], z)
              /\ \A d \in 1..N : d > t => Len(r[d]) <= Len(z)
              /\ \A d \in 1..(t - 1) : Piece(x, r[d])
<1>0. /\ N \in Nat \ {0} /\ t \in 1..N /\ Len(r) = N /\ Len(s) = N
      /\ \A d \in 1..N : d # t => s[d] = r[d]
      /\ \A d \in 1..N : r[d] \in Seq(T) /\ s[d] \in Seq(T)
  BY DEF ListsOf, Replaces
<1>1. PICK f : Joining(f, r) /\ FlattenSeq(r) = f[N]
  BY <1>0, JoiningExists
<1>2. PICK g : Joining(g, s) /\ FlattenSeq(s) = g[N]
  BY <1>0, JoiningExists
<1>3. \A i \in 1..N : f[i] \in Seq(T) /\ g[i] \in Seq(T)
  <2>1. \A i \in 1..N : Joined(f[i], r, T, i)
    BY <1>0, <1>1, JoinedAll
  <2>2. \A i \in 1..N : Joined(g[i], s, T, i)
    BY <1>0, <1>2, JoinedAll
  <2> QED
    BY <2>1, <2>2 DEF Joined
<1>4. ASSUME NEW k \in 1..N, k < t
      PROVE  f[k] = g[k]
  <2> DEFINE Bad == {i \in 1..N : i < t /\ f[i] # g[i]}
  <2>1. SUFFICES ASSUME Bad # {}
                 PROVE  FALSE
    BY <1>4
  <2>2. Bad \in SUBSET Nat
    BY <1>0
  <2>3. PICK i \in Bad : \A j \in Bad : i <= j
    BY <2>1, <2>2, Least, Zenon
  <2>4. CASE i = 1
    <3>1. f[1] = r[1] /\ g[1] = s[1] /\ 1 # t /\ 1 \in 1..N
      BY <1>0, <1>1, <1>2, <2>4 DEF Joining
    <3> QED
      BY <1>0, <2>4, <3>1
  <2>5. CASE i # 1
    <3>1. i \in 2..N /\ i - 1 \in 1..N /\ ~(i <= i - 1) /\ i - 1 < t /\ i # t /\ i \in 1..N
      BY <1>0, <2>5
    <3>2. f[i - 1] = g[i - 1]
      BY <2>3, <3>1
    <3>3. f[i] = f[i - 1] \o r[i] /\ g[i] = g[i - 1] \o s[i]
      BY <1>0, <1>1, <1>2, <3>1 DEF Joining
    <3> QED
      BY <1>0, <3>1, <3>2, <3>3
  <2> QED
    BY <2>4, <2>5
<1>5. PICK x \in Seq(T) : Part(f, g, r, s, t, x, T, t) /\ \A d \in 1..(t - 1) : Piece(x, r[d])
  <2>0. r[t] \in Seq(T) /\ s[t] \in Seq(T) /\ <<>> \in Seq(T) /\ \A d \in 1..t : ~(d > t)
    BY <1>0, EmptySeq
  <2>1. CASE t = 1
    <3>1. f[t] = r[t] /\ g[t] = s[t]
      BY <1>1, <1>2, <2>1 DEF Joining
    <3>2. Around(f[t], <<>>, r[t], <<>>) /\ Around(g[t], <<>>, s[t], <<>>)
      BY <2>0, <3>1, AroundFirst
    <3>3. Part(f, g, r, s, t, <<>>, T, t)
      BY <2>0, <3>2 DEF Part
    <3>4. \A d \in 1..(t - 1) : Piece(<<>>, r[d])
      BY <2>1
    <3> QED
      BY <2>0, <3>3, <3>4
  <2>2. CASE t # 1
    <3>1. t \in 2..N /\ t - 1 \in 1..N /\ t - 1 < t
      BY <1>0, <2>2
    <3>2. f[t - 1] = g[t - 1] /\ f[t - 1] \in Seq(T)
      BY <1>3, <1>4, <3>1
    <3>3. f[t] = f[t - 1] \o r[t] /\ g[t] = g[t - 1] \o s[t]
      BY <1>0, <1>1, <1>2, <3>1 DEF Joining
    <3> DEFINE x == f[t - 1]
    <3>7. \A d \in 1..(t - 1) : Piece(x, r[d])
      <4>1. Joined(f[t - 1], r, T, t - 1)
        BY <1>0, <1>1, <3>1, JoinedAll
      <4> QED
        BY <4>1 DEF Joined
    <3>4. f[t] = x \o r[t] /\ g[t] = x \o s[t] /\ x \in Seq(T)
      BY <3>2, <3>3
    <3> HIDE DEF x
    <3>5. Around(f[t], x, r[t], <<>>) /\ Around(g[t], x, s[t], <<>>)
      BY <2>0, <3>4, AroundFirst
    <3>6. Part(f, g, r, s, t, x, T, t)
      BY <2>0, <3>5 DEF Part
    <3> QED
      BY <3>4, <3>6, <3>7
  <2> QED
    BY <2>1, <2>2
<1>6. Part(f, g, r, s, t, x, T, N)
  <2> DEFINE Bad == {k \in 1..N : k >= t /\ ~Part(f, g, r, s, t, x, T, k)}
  <2>1. SUFFICES ASSUME Bad # {}
                 PROVE  FALSE
    BY <1>0
  <2>2. Bad \in SUBSET Nat
    BY <1>0
  <2>3. PICK k \in Bad : \A j \in Bad : k <= j
    BY <2>1, <2>2, Least, Zenon
  <2>4. k # t
    BY <1>5
  <2>5. k \in 2..N /\ k - 1 \in 1..N /\ ~(k <= k - 1) /\ k - 1 >= t /\ k \in 1..N /\ k > t
    BY <1>0, <2>4
  <2>6. Part(f, g, r, s, t, x, T, k - 1)
    BY <2>3, <2>5
  <2>7. PICK z \in Seq(T) : /\ Around(f[k - 1], x, r[t], z) /\ Around(g[k - 1], x, s[t], z)
                            /\ \A d \in 1..(k - 1) : d > t => Len(r[d]) <= Len(z)
    BY <2>6 DEF Part
  <2>8. f[k] = f[k - 1] \o r[k] /\ g[k] = g[k - 1] \o r[k]
    <3>1. g[k] = g[k - 1] \o s[k] /\ f[k] = f[k - 1] \o r[k]
      BY <1>0, <1>1, <1>2, <2>5 DEF Joining
    <3>2. s[k] = r[k]
      BY <1>0, <2>4, <2>5
    <3> QED
      BY <3>1, <3>2
  <2>9. /\ f[k - 1] \in Seq(T) /\ g[k - 1] \in Seq(T) /\ r[k] \in Seq(T)
        /\ r[t] \in Seq(T) /\ s[t] \in Seq(T)
    BY <1>0, <1>3, <2>5
  <2> DEFINE v == z \o r[k]
  <2>10. Around(f[k], x, r[t], v) /\ Around(g[k], x, s[t], v)
    BY <2>7, <2>8, <2>9, AroundNext, SMTT(30)
  <2>11. v \in Seq(T) /\ Len(v) = Len(z) + Len(r[k]) /\ Len(z) \in Nat /\ Len(r[k]) \in Nat
    BY <2>9, TwoPieces
  <2> HIDE DEF v
  <2>12. \A d \in 1..k : d > t => Len(r[d]) <= Len(v)
    <3>1. \A d \in 1..k : d = k \/ d \in 1..(k - 1)
      BY <2>5
    <3>2. \A d \in 1..(k - 1) : Len(r[d]) \in Nat
      BY <1>0, <2>5, LenProperties
    <3> QED
      BY <2>7, <2>11, <3>1, <3>2
  <2>13. Part(f, g, r, s, t, x, T, k)
    BY <2>10, <2>11, <2>12 DEF Part
  <2> QED
    BY <2>13
<1> QED
  BY <1>1, <1>2, <1>5, <1>6 DEF Part

\* Files of whole blocks.
WholeFile(l) == \A i \in 1..Len(l) : l[i].end = 4

WholeFiles(fs) == \A d \in 1..Days : WholeFile(fs[d])

\* They are read as they are.
LEMMA WholeRead ==
    ASSUME NEW H, NEW fs \in Filed(H), WholeFiles(fs)
    PROVE  AllOf(fs) = FlattenSeq(fs) /\ \A d \in 1..Days : Read(fs[d]).at = 0
<1>1. \A d \in 1..Days : fs[d] \in Seq(Block)
  BY FiledTyped
<1>2. \A d \in 1..Days : Read(fs[d]).at = 0 /\ Read(fs[d]).out = fs[d]
  BY <1>1, ReadWhole DEF WholeFiles, WholeFile
<1>3. EntriesOf(fs) = fs
  <2>1. fs = [d \in 1..Days |-> fs[d]]
    BY DEF Filed
  <2> QED
    BY <1>2, <2>1 DEF EntriesOf
<1> QED
  BY <1>2, <1>3 DEF AllOf

\* One of them replaced, in the whole log.
LEMMA OneFile ==
    ASSUME NEW H, NEW fs \in Filed(H), WholeFiles(fs), NEW d \in 1..Days,
           NEW g \in Seq(Hashed(H)), WholeFile(g), NEW gs, gs = [fs EXCEPT ![d] = g]
    PROVE  \E x \in Seq(Hashed(H)), z \in Seq(Hashed(H)) :
              /\ Around(AllOf(fs), x, fs[d], z) /\ Around(AllOf(gs), x, g, z)
              /\ \A later \in 1..Days : later > d => Len(fs[later]) <= Len(z)
              /\ \A earlier \in 1..(d - 1) : Piece(x, fs[earlier])
<1> DEFINE T == Hashed(H)
<1>1. /\ gs \in Filed(H) /\ gs[d] = g /\ \A k \in 1..Days : k # d => gs[k] = fs[k]
      /\ \A k \in 1..Days : fs[k] \in Seq(T) /\ gs[k] \in Seq(T)
  BY DEF Filed
<1>2. WholeFiles(gs)
  BY <1>1 DEF WholeFiles
<1>3. AllOf(fs) = FlattenSeq(fs) /\ AllOf(gs) = FlattenSeq(gs)
  BY <1>1, <1>2, WholeRead
<1>4. Days \in Nat \ {0} /\ Len(fs) = Days /\ Len(gs) = Days
  <2>1. Days \in Nat \ {0} /\ fs \in [1..Days -> Seq(T)] /\ gs \in [1..Days -> Seq(T)]
    BY <1>1, ChainAssumption DEF Filed
  <2> HIDE DEF T
  <2>2. fs \in Seq(Seq(T)) /\ Len(fs) = Days
    BY ONLY <2>1
  <2>3. gs \in Seq(Seq(T)) /\ Len(gs) = Days
    BY ONLY <2>1
  <2> QED
    BY <2>1, <2>2, <2>3
<1> HIDE DEF T
<1>5. ListsOf(T, fs, Days) /\ ListsOf(T, gs, Days) /\ Replaces(fs, gs, d, Days)
  BY <1>1, <1>4 DEF ListsOf, Replaces
<1>6. \E x \in Seq(T), z \in Seq(T) :
         /\ Around(FlattenSeq(fs), x, fs[d], z) /\ Around(FlattenSeq(gs), x, gs[d], z)
         /\ \A k \in 1..Days : k > d => Len(fs[k]) <= Len(z)
         /\ \A k \in 1..(d - 1) : Piece(x, fs[k])
  BY <1>5, Replaced
<1> QED
  BY <1>1, <1>3, <1>6 DEF T

\* In a log that verify accepts, each sealed entry is followed by one that names it.
LEMMA Linked ==
    ASSUME NEW H, NEW l \in Seq(Hashed(H)), Holds(l), NEW k \in 1..Len(l), l[k].hash # None
    PROVE  /\ Whole(l[k]) /\ l[k] \in Block /\ Len(l[k].prev) \in Nat
           /\ Len(l[k].hash) = Len(l[k].prev) + 1
           /\ k + 1 \in 1..Len(l) =>
                 /\ l[k + 1].hash # None /\ l[k + 1].prev = l[k].hash
                 /\ Len(l[k + 1].hash) = Len(l[k].hash) + 1
<1>1. Len(l) \in Nat /\ DOMAIN l = 1..Len(l) /\ \A i \in 1..Len(l) : l[i] \in Block
  BY LenProperties, ElementOfSeq DEF Hashed
<1>2. ASSUME NEW i \in 1..Len(l), l[i].hash # None
      PROVE  Whole(l[i]) /\ Len(l[i].prev) \in Nat /\ Len(l[i].hash) = Len(l[i].prev) + 1
  <2> DEFINE e == l[i]
  <2>1. Whole(e)
    BY <1>1, <1>2 DEF Holds, Vouched, Whole
  <2>2. e \in Block /\ e.prev \in Seq(Content) /\ e.c \in Content
    BY <1>1 DEF Block
  <2> HIDE DEF e
  <2>3. Len(Append(e.prev, e.c)) = Len(e.prev) + 1 /\ Len(e.prev) \in Nat
    BY <2>2, AppendProperties, LenProperties
  <2>4. e.hash = Append(e.prev, e.c)
    BY <2>1 DEF Whole, Seal
  <2> QED
    BY <2>1, <2>3, <2>4 DEF e
<1>3. ASSUME k + 1 \in 1..Len(l)
      PROVE  l[k + 1].hash # None /\ l[k + 1].prev = l[k].hash
  <2>1. Started(l, k + 1) /\ (k + 1) - 1 = k
    BY DEF Started
  <2>2. Vouched(l, k + 1)
    BY <1>1, <1>3 DEF Holds
  <2> QED
    BY <2>1, <2>2 DEF Vouched
<1>4. k + 1 \in 1..Len(l) => Len(l[k + 1].hash) = Len(l[k].hash) + 1
  BY <1>2, <1>3
<1> QED
  BY <1>1, <1>2, <1>3, <1>4

\* What two logs around the same place have there.
LEMMA AroundPlaces ==
    ASSUME NEW T, NEW y, NEW x \in Seq(T), NEW l \in Seq(T), NEW z \in Seq(T), Around(y, x, l, z)
    PROVE  /\ Len(x) \in Nat /\ Len(l) \in Nat /\ Len(z) \in Nat
           /\ Len(y) = (Len(x) + Len(l)) + Len(z)
           /\ \A i \in 1..Len(l) : Len(x) + i \in 1..Len(y) /\ y[Len(x) + i] = l[i]
           /\ \A i \in 1..Len(x) : i \in 1..Len(y) /\ y[i] = x[i]
           /\ \A i \in 1..Len(z) : (Len(x) + Len(l)) + i \in 1..Len(y)
                                   /\ y[(Len(x) + Len(l)) + i] = z[i]
<1> DEFINE a == Len(x)
           b == Len(l)
           c == Len(z)
           n == Len(y)
<1>1. a \in Nat /\ b \in Nat /\ c \in Nat /\ n = (a + b) + c
  BY LenProperties DEF Around
<1>2. /\ \A j \in 1..a : y[j] = x[j]
      /\ \A j \in 1..b : y[a + j] = l[j]
      /\ \A j \in 1..c : y[(a + b) + j] = z[j]
  BY DEF Around
<1> HIDE DEF a, b, c, n
<1>3. \A j \in 1..a : j \in 1..n
  BY ONLY <1>1
<1>4. \A j \in 1..b : a + j \in 1..n
  BY ONLY <1>1
<1>5. \A j \in 1..c : (a + b) + j \in 1..n
  BY ONLY <1>1
<1> QED
  BY <1>1, <1>2, <1>3, <1>4, <1>5 DEF a, b, c, n

\* The same, as a statement of its own.
Places(y, x, l, z) ==
    /\ Len(x) \in Nat /\ Len(l) \in Nat /\ Len(z) \in Nat
    /\ Len(y) = (Len(x) + Len(l)) + Len(z)
    /\ \A i \in 1..Len(l) : Len(x) + i \in 1..Len(y) /\ y[Len(x) + i] = l[i]
    /\ \A i \in 1..Len(x) : i \in 1..Len(y) /\ y[i] = x[i]
    /\ \A i \in 1..Len(z) : (Len(x) + Len(l)) + i \in 1..Len(y)
                            /\ y[(Len(x) + Len(l)) + i] = z[i]

LEMMA PlacesAround ==
    ASSUME NEW T, NEW y, NEW x \in Seq(T), NEW l \in Seq(T), NEW z \in Seq(T), Around(y, x, l, z)
    PROVE  Places(y, x, l, z)
<1> QED
  BY AroundPlaces DEF Places

-----------------------------------------------------------------------------
(* One edit by hand.                                                        *)

\* What verify does not accept, it does not accept with one entry more.
LEMMA HoldsPrefix ==
    ASSUME NEW T, NEW l \in Seq(T), NEW e \in T, Holds(Append(l, e))
    PROVE  Holds(l)
<1> DEFINE n == Len(l)
           a == Append(l, e)
<1>1. /\ n \in Nat /\ DOMAIN l = 1..n /\ DOMAIN a = 1..(n + 1)
      /\ \A i \in 1..n : a[i] = l[i]
  BY LenProperties, AppendProperties
<1> HIDE DEF n, a
<1>2. ASSUME NEW i \in 1..n
      PROVE  Vouched(l, i)
  <2>1. i \in 1..(n + 1) /\ \A j \in 1..(i - 1) : j \in 1..n
    BY <1>1
  <2>2. Started(a, i) <=> Started(l, i)
    BY <1>1, <2>1 DEF Started
  <2>3. Started(l, i) => a[i - 1] = l[i - 1]
    <3>1. Started(l, i) => i - 1 \in 1..n
      BY <1>1 DEF Started
    <3> QED
      BY <1>1, <3>1
  <2>4. Vouched(a, i) /\ a[i] = l[i]
    BY <1>1, <2>1 DEF Holds, a
  <2> QED
    BY <2>2, <2>3, <2>4 DEF Vouched
<1> QED
  BY <1>1, <1>2 DEF Holds

\* How the place i of the file f differs in g, after which z follows.
Altered(f, g, i) == i \in 1..Len(g) /\ g[i].hash # None /\ ~Whole(g[i])

\* The place p of g has no seal, and one is before it.
Loose(x, g, p) ==
    /\ p \in 1..Len(g) /\ g[p].hash = None
    /\ \/ \E j \in 1..Len(x) : x[j].hash # None
       \/ \E j \in 1..(p - 1) : g[j].hash # None

Exchanged(f, g, i) ==
    i + 1 \in 1..Len(f) /\ Len(g) = Len(f) /\ g[i] = f[i + 1] /\ g[i + 1] = f[i]

Without(f, g, i) ==
    /\ Len(g) = Len(f) - 1
    /\ \A j \in 1..(i - 1) : g[j] = f[j]
    /\ \A j \in i..(Len(f) - 1) : g[j] = f[j + 1]

Shortened(f, g, z, i) == Without(f, g, i) /\ (i < Len(f) \/ Len(z) > 0)

\* A place of the file is a place of the log.
LEMMA InLog ==
    ASSUME NEW H, NEW B \in Seq(Hashed(H)), NEW x \in Seq(Hashed(H)), NEW g \in Seq(Hashed(H)),
           NEW z \in Seq(Hashed(H)), Around(B, x, g, z), NEW i \in 1..Len(g), g[i].hash # None,
           Holds(B)
    PROVE  /\ Whole(g[i])
           /\ i + 1 \in 1..Len(g) => /\ g[i + 1].hash # None /\ g[i + 1].prev = g[i].hash
                                     /\ Len(g[i + 1].hash) = Len(g[i].hash) + 1
           /\ Len(g[i].hash) = Len(g[i].prev) + 1 /\ Len(g[i].prev) \in Nat
<1> DEFINE k == Len(x) + i
<1>1. Len(x) \in Nat /\ Len(g) \in Nat /\ k \in 1..Len(B) /\ B[k] = g[i]
  <2>1. Places(B, x, g, z)
    BY PlacesAround
  <2> QED
    BY ONLY <2>1, i \in 1..Len(g) DEF Places
<1>2. i + 1 \in 1..Len(g) => k + 1 \in 1..Len(B) /\ B[k + 1] = g[i + 1]
  <2>1. ASSUME i + 1 \in 1..Len(g)
        PROVE  Len(x) + (i + 1) \in 1..Len(B) /\ B[Len(x) + (i + 1)] = g[i + 1]
    <3>1. \A j \in 1..Len(g) : Len(x) + j \in 1..Len(B) /\ B[Len(x) + j] = g[j]
      <4>1. Places(B, x, g, z)
        BY PlacesAround
      <4> QED
        BY ONLY <4>1 DEF Places
    <3> QED
      BY ONLY <2>1, <3>1
  <2>2. Len(x) + (i + 1) = k + 1
    BY <1>1
  <2> QED
    BY <2>1, <2>2
<1> HIDE DEF k
<1>3. B[k].hash # None
  BY <1>1
<1>4. /\ Whole(B[k]) /\ Len(B[k].hash) = Len(B[k].prev) + 1 /\ Len(B[k].prev) \in Nat
      /\ k + 1 \in 1..Len(B) => /\ B[k + 1].hash # None /\ B[k + 1].prev = B[k].hash
                               /\ Len(B[k + 1].hash) = Len(B[k].hash) + 1
  BY <1>1, <1>3, Linked
<1> QED
  BY <1>1, <1>2, <1>4

\* An entry that does not match its seal and two in the other order are not accepted.
LEMMA NotAccepted ==
    ASSUME NEW H, NEW A \in Seq(Hashed(H)), NEW B \in Seq(Hashed(H)), NEW x \in Seq(Hashed(H)),
           NEW f \in Seq(Hashed(H)), NEW g \in Seq(Hashed(H)), NEW z \in Seq(Hashed(H)),
           Around(A, x, f, z), Around(B, x, g, z), Holds(A),
           NEW i \in 1..Len(f), f[i].hash # None,
           Altered(f, g, i) \/ Exchanged(f, g, i)
    PROVE  ~Holds(B)
<1> SUFFICES ASSUME Holds(B)
             PROVE  FALSE
  OBVIOUS
<1>0. Len(f) \in Nat /\ Len(g) \in Nat
  BY LenProperties
<1>1. CASE Altered(f, g, i)
  BY <1>1, InLog DEF Altered
<1>3. CASE Exchanged(f, g, i)
  <2>1. /\ i \in 1..Len(g) /\ i + 1 \in 1..Len(g) /\ i + 1 \in 1..Len(f)
        /\ g[i] = f[i + 1] /\ g[i + 1] = f[i]
    BY <1>0, <1>3 DEF Exchanged
  <2>2. /\ f[i + 1].hash # None /\ Len(f[i + 1].hash) = Len(f[i].hash) + 1
        /\ Len(f[i].hash) = Len(f[i].prev) + 1 /\ Len(f[i].prev) \in Nat
    <3>1. /\ Len(f[i].hash) = Len(f[i].prev) + 1 /\ Len(f[i].prev) \in Nat
          /\ i + 1 \in 1..Len(f) => /\ f[i + 1].hash # None
                                   /\ Len(f[i + 1].hash) = Len(f[i].hash) + 1
      BY InLog
    <3> QED
      BY <2>1, <3>1
  <2>3. Len(g[i + 1].hash) = Len(g[i].hash) + 1
    <3>1. g[i].hash # None
      BY <2>1, <2>2
    <3>2. i + 1 \in 1..Len(g) => Len(g[i + 1].hash) = Len(g[i].hash) + 1
      BY <2>1, <3>1, InLog, SMTT(30)
    <3> QED
      BY <2>1, <3>2
  <2>4. Len(f[i].hash) = Len(f[i + 1].hash) + 1
    BY <2>1, <2>3
  <2> QED
    BY <2>2, <2>4
<1> QED
  BY <1>1, <1>3

\* Nor is one that has no seal after one that has.
LEMMA NotAcceptedLoose ==
    ASSUME NEW H, NEW B \in Seq(Hashed(H)), NEW x \in Seq(Hashed(H)), NEW g \in Seq(Hashed(H)),
           NEW z \in Seq(Hashed(H)), Around(B, x, g, z), NEW p, Loose(x, g, p)
    PROVE  ~Holds(B)
<1> DEFINE a == Len(x)
           k == a + p
<1>1. /\ a \in Nat /\ Len(g) \in Nat /\ DOMAIN B = 1..Len(B)
      /\ \A j \in 1..Len(g) : a + j \in 1..Len(B) /\ B[a + j] = g[j]
      /\ \A j \in 1..a : B[j] = x[j]
  <2>1. Places(B, x, g, z)
    BY PlacesAround
  <2>2. DOMAIN B = 1..Len(B)
    BY LenProperties
  <2> QED
    BY ONLY <2>1, <2>2 DEF Places
<1>2. p \in 1..Len(g) /\ g[p].hash = None
  BY DEF Loose
<1>3. \/ \E j \in 1..a : x[j].hash # None
      \/ \E j \in 1..(p - 1) : g[j].hash # None
  BY DEF Loose
<1> HIDE DEF a
<1>4. Started(B, k)
  <2>1. CASE \E j \in 1..a : x[j].hash # None
    <3>1. PICK j \in 1..a : x[j].hash # None
      BY <2>1
    <3>2. j \in 1..(k - 1) /\ B[j] = x[j]
      BY <1>1, <1>2
    <3> QED
      BY <3>1, <3>2 DEF Started
  <2>2. CASE \E j \in 1..(p - 1) : g[j].hash # None
    <3>1. PICK j \in 1..(p - 1) : g[j].hash # None
      BY <2>2
    <3>2. j \in 1..Len(g) /\ a + j \in 1..(k - 1)
      BY <1>1, <1>2
    <3>3. B[a + j] = g[j]
      BY <1>1, <3>2
    <3> HIDE DEF k
    <3> QED
      BY <3>1, <3>2, <3>3 DEF Started
  <2> QED
    BY <1>3, <2>1, <2>2
<1>5. k \in DOMAIN B /\ B[k].hash = None
  BY <1>1, <1>2
<1> HIDE DEF k
<1> QED
  BY <1>4, <1>5 DEF Holds, Vouched

\* Nor is an entry whose predecessor is gone.
LEMMA NotAcceptedShorter ==
    ASSUME NEW H, NEW A \in Seq(Hashed(H)), NEW B \in Seq(Hashed(H)), NEW x \in Seq(Hashed(H)),
           NEW f \in Seq(Hashed(H)), NEW g \in Seq(Hashed(H)), NEW z \in Seq(Hashed(H)),
           Around(A, x, f, z), Around(B, x, g, z), Holds(A),
           NEW i \in 1..Len(f), f[i].hash # None, Shortened(f, g, z, i)
    PROVE  ~Holds(B)
<1> DEFINE a == Len(x)
           b == Len(f)
           c == Len(z)
           k == a + i
<1>1. /\ Len(g) = b - 1 /\ \A j \in 1..(i - 1) : g[j] = f[j]
      /\ \A j \in i..(b - 1) : g[j] = f[j + 1]
      /\ i < b \/ c > 0
  BY DEF Shortened, Without
<1>2. /\ a \in Nat /\ b \in Nat /\ c \in Nat /\ Len(A) = (a + b) + c
      /\ \A j \in 1..b : a + j \in 1..Len(A) /\ A[a + j] = f[j]
      /\ \A j \in 1..a : A[j] = x[j]
      /\ \A j \in 1..c : A[(a + b) + j] = z[j]
  <2>1. Places(A, x, f, z)
    BY PlacesAround
  <2> QED
    BY ONLY <2>1 DEF Places
<1>3. /\ Len(B) = (a + Len(g)) + c
      /\ \A j \in 1..Len(g) : B[a + j] = g[j]
      /\ \A j \in 1..a : B[j] = x[j]
      /\ \A j \in 1..c : B[(a + Len(g)) + j] = z[j]
  <2>1. Places(B, x, g, z)
    BY PlacesAround
  <2> QED
    BY ONLY <2>1 DEF Places
<1>4. DOMAIN A = 1..Len(A) /\ DOMAIN B = 1..Len(B)
  BY LenProperties
<1>i. i \in 1..b
  OBVIOUS
<1>5. k \in 1..Len(A) /\ A[k] = f[i]
  BY <1>2, <1>i
<1> HIDE DEF a, b, c
<1>6. k + 1 \in 1..Len(A) /\ k \in 1..Len(B) /\ B[k] = A[k + 1]
  <2>1. CASE i < b
    <3>0. a \in Nat /\ b \in Nat /\ i \in 1..b /\ i < b /\ Len(g) = b - 1
      BY <1>1, <1>2, <1>i, <2>1
    <3>1. i \in 1..Len(g) /\ i + 1 \in 1..b /\ i \in i..(b - 1) /\ a + (i + 1) = k + 1
      BY ONLY <3>0
    <3>2. A[k + 1] = f[i + 1] /\ k + 1 \in 1..Len(A)
      <4>1. A[a + (i + 1)] = f[i + 1] /\ a + (i + 1) \in 1..Len(A)
        BY <1>2, <3>1
      <4> QED
        BY <3>1, <4>1
    <3>3. B[k] = g[i] /\ g[i] = f[i + 1]
      BY <1>1, <1>3, <3>1
    <3>4. k \in 1..Len(B)
      BY <1>1, <1>2, <1>3, <1>i, <2>1
    <3> QED
      BY <3>2, <3>3, <3>4
  <2>2. CASE i = b
    <3>1. 1 \in 1..c /\ (a + b) + 1 = k + 1 /\ (a + Len(g)) + 1 = k
      BY <1>1, <1>2, <2>2
    <3>2. A[(a + b) + 1] = z[1] /\ B[(a + Len(g)) + 1] = z[1]
      BY <1>2, <1>3, <3>1
    <3>3. k + 1 \in 1..Len(A) /\ k \in 1..Len(B)
      <4>1. a \in Nat /\ b \in Nat /\ c \in Nat /\ c > 0 /\ i = b /\ i \in 1..b
            /\ Len(A) = (a + b) + c /\ Len(B) = (a + (b - 1)) + c
        BY <1>1, <1>2, <1>3, <1>i, <2>2
      <4> QED
        BY ONLY <4>1
    <3> QED
      BY <3>1, <3>2, <3>3
  <2> QED
    BY <1>2, <1>i, <2>1, <2>2
<1>7. ASSUME NEW j \in 1..(k - 1)
      PROVE  B[j] = A[j] /\ j \in 1..Len(A) /\ j \in 1..Len(B)
  <2>1. j \in 1..Len(A) /\ j \in 1..Len(B)
    BY <1>5, <1>6, SMTT(30)
  <2>2. CASE j \in 1..a
    BY <1>2, <1>3, <2>1, <2>2
  <2>3. CASE j \notin 1..a
    <3> DEFINE m == j - a
    <3>1. m \in 1..(i - 1) /\ m \in 1..b /\ m \in 1..Len(g) /\ a + m = j
      BY <1>1, <1>2, <1>i, <2>3
    <3> HIDE DEF m
    <3>2. A[a + m] = f[m] /\ B[a + m] = g[m] /\ g[m] = f[m]
      BY <1>1, <1>2, <1>3, <3>1
    <3> QED
      BY <2>1, <3>1, <3>2
  <2> QED
    BY <2>2, <2>3
<1> HIDE DEF k
<1>8. /\ B[k].hash # None /\ B[k].prev = A[k].hash /\ A[k].hash # None
      /\ Len(A[k].hash) = Len(A[k].prev) + 1 /\ Len(A[k].prev) \in Nat
  <2>1. A[k].hash # None
    BY <1>5
  <2>2. /\ Len(A[k].hash) = Len(A[k].prev) + 1 /\ Len(A[k].prev) \in Nat
        /\ k + 1 \in 1..Len(A) => A[k + 1].hash # None /\ A[k + 1].prev = A[k].hash
    BY <1>5, <2>1, Linked
  <2> QED
    BY <1>6, <2>1, <2>2
<1>9. Started(A, k) <=> Started(B, k)
  BY <1>7 DEF Started
<1>10. Started(A, k) => B[k - 1] = A[k - 1]
  <2>1. Started(A, k) => k - 1 \in 1..(k - 1)
    BY <1>5 DEF Started
  <2> QED
    BY <1>7, <2>1
<1>11. Vouched(A, k)
  BY <1>4, <1>5 DEF Holds
<1>12. ASSUME Holds(B)
       PROVE  FALSE
  <2>1. Vouched(B, k)
    BY <1>4, <1>6, <1>12 DEF Holds
  <2>2. A[k].hash = IF Started(A, k) THEN A[k - 1].hash ELSE None
    BY <1>8, <1>9, <1>10, <2>1 DEF Vouched
  <2>3. A[k].prev = IF Started(A, k) THEN A[k - 1].hash ELSE None
    BY <1>8, <1>11 DEF Vouched
  <2>4. A[k].prev = A[k].hash
    BY <2>2, <2>3
  <2> QED
    BY <1>8, <2>4
<1> QED
  BY <1>12

\* The place i of the file f has another content in g.
Rewritten(f, g, i) ==
    i \in 1..Len(g) /\ \E x \in Content : x # f[i].c /\ g[i] = With(f[i], x)

\* The place p of g, the new file of day d, has no seal, and one is before it.
LooseIn(g, d, p) ==
    /\ p \in 1..Len(g) /\ g[p].hash = None
    /\ \/ \E e \in 1..(d - 1) : \E j \in 1..Len(files[e]) : files[e][j].hash # None
       \/ \E j \in 1..(p - 1) : g[j].hash # None

\* What is done to a sealed entry.
SealMet(g, d, i) ==
    /\ files[d][i].hash # None
    /\ \/ Rewritten(files[d], g, i)
       \/ Exchanged(files[d], g, i)
       \/ Without(files[d], g, i) /\ ~IsLast(d, i)

\* A file of an accepted log edited so is shown, unless the edit takes the last
\* entry away.
LEMMA EditShown ==
    ASSUME Inv, Holds(AllOf(files)), WholeFiles(files), NEW d \in 1..Days, NEW i,
           i \in 1..Len(files[d]),
           NEW g \in Seq(Hashed(seals)), WholeFile(g), files' = [files EXCEPT ![d] = g],
           SealMet(g, d, i) \/ \E p : LooseIn(g, d, p)
    PROVE  ~Holds(AllOf(files'))
<1> DEFINE T == Hashed(seals)
           f == files[d]
           A == AllOf(files)
           B == AllOf(files')
<1>1. /\ files \in Filed(seals) /\ files' \in Filed(seals) /\ f \in Seq(T)
      /\ \A k \in 1..Days : files[k] \in Seq(T)
  BY DEF Inv, Filed
<1>2. A \in Seq(T) /\ B \in Seq(T)
  BY <1>1, AllIn
<1>3. PICK x \in Seq(T), z \in Seq(T) :
         /\ Around(A, x, f, z) /\ Around(B, x, g, z)
         /\ \A later \in 1..Days : later > d => Len(files[later]) <= Len(z)
         /\ \A earlier \in 1..(d - 1) : Piece(x, files[earlier])
  BY <1>1, OneFile
<1>4. i \in 1..Len(f) /\ Holds(A) /\ g \in Seq(T)
  OBVIOUS
<1>5. Len(f) \in Nat /\ Len(z) \in Nat /\ f[i] \in Block
  <2>1. f[i] \in T
    BY <1>1, <1>4, ElementOfSeq
  <2> QED
    BY <1>1, <1>3, <2>1, LenProperties DEF Hashed
<1> HIDE DEF A, B, f
<1> HIDE DEF T
<1>6. ASSUME f[i].hash # None, Rewritten(f, g, i)
      PROVE  ~Holds(B)
  <2>1. PICK y \in Content : y # f[i].c /\ i \in 1..Len(g) /\ g[i] = With(f[i], y)
    BY <1>6 DEF Rewritten
  <2>2. /\ g[i].hash = f[i].hash /\ g[i].prev = f[i].prev /\ g[i].c = y
    BY <1>5, <2>1, WithBlock
  <2>3. Whole(f[i])
    BY <1>1, <1>2, <1>3, <1>4, <1>6, InLog DEF T
  <2>4. ~Whole(g[i])
    <3> DEFINE p == f[i].prev
               c == f[i].c
    <3>1. p \in Seq(Content) /\ c \in Content
      BY <1>5 DEF Block
    <3>2. f[i].hash = Append(p, c) /\ g[i].prev = p /\ g[i].hash = f[i].hash /\ g[i].c = y /\ y # c
      BY <2>1, <2>2, <2>3 DEF Whole, Seal
    <3> HIDE DEF p, c
    <3>3. Append(p, c)[Len(p) + 1] = c /\ Append(p, y)[Len(p) + 1] = y
      BY <3>1, <2>1, AppendProperties
    <3> QED
      BY <3>2, <3>3 DEF Whole, Seal
  <2>5. Altered(f, g, i)
    BY <1>4, <1>6, <2>1, <2>2, <2>4 DEF Altered
  <2> QED
    BY <1>1, <1>2, <1>3, <1>4, <1>6, <2>5, NotAccepted DEF T, B
<1>7. ASSUME f[i].hash # None, Exchanged(f, g, i)
      PROVE  ~Holds(B)
  BY <1>1, <1>2, <1>3, <1>4, <1>7, NotAccepted DEF T, B
<1>8. ASSUME f[i].hash # None, Without(f, g, i), ~IsLast(d, i)
      PROVE  ~Holds(B)
  <2>1. i < Len(f) \/ Len(z) > 0
    <3>1. CASE i # Len(f)
      BY <1>4, <1>5, <3>1
    <3>2. CASE i = Len(f)
      <4>1. PICK later \in (d + 1)..Days : files[later] # <<>>
        BY <1>8, <3>2 DEF IsLast, f
      <4>2. later \in 1..Days /\ later > d
        OBVIOUS
      <4>3. Len(files[later]) # 0 /\ Len(files[later]) \in Nat
        BY <1>1, <4>1, <4>2, EmptySeq, LenProperties
      <4> QED
        BY <1>3, <1>5, <4>2, <4>3
    <3> QED
      BY <3>1, <3>2
  <2>2. Shortened(f, g, z, i)
    BY <1>8, <2>1 DEF Shortened
  <2> QED
    BY <1>1, <1>2, <1>3, <1>4, <1>8, <2>2, NotAcceptedShorter DEF T, B
<1>9. ASSUME NEW p, LooseIn(g, d, p)
      PROVE  ~Holds(B)
  <2>1. CASE \E e \in 1..(d - 1) : \E j \in 1..Len(files[e]) : files[e][j].hash # None
    <3>1. PICK e \in 1..(d - 1) : \E j \in 1..Len(files[e]) : files[e][j].hash # None
      BY <2>1
    <3>2. \E j \in 1..Len(x) : x[j].hash # None
      <4> DEFINE l == files[e]
      <4>1. \E j \in 1..Len(l) : l[j].hash # None
        BY <3>1
      <4>2. Len(l) \in Nat /\ Len(x) \in Nat
        <5>1. e \in 1..Days
          BY <3>1, ChainAssumption
        <5> QED
          BY <1>1, <1>3, <5>1, LenProperties
      <4>3. Piece(x, l)
        BY <1>3, <3>1
      <4> HIDE DEF l
      <4>4. PICK j \in 1..Len(l) : l[j].hash # None
        BY <4>1
      <4>5. PICK off \in Nat : off + Len(l) <= Len(x) /\ \A m \in 1..Len(l) : x[off + m] = l[m]
        BY <4>3 DEF Piece
      <4>6. off + j \in 1..Len(x) /\ x[off + j] = l[j]
        BY <4>2, <4>4, <4>5
      <4> QED
        BY <4>4, <4>6
    <3>3. Loose(x, g, p)
      BY <1>9, <3>2 DEF Loose, LooseIn
    <3> QED
      BY <1>2, <1>3, <1>4, <3>3, NotAcceptedLoose DEF T, B
  <2>2. CASE \E j \in 1..(p - 1) : g[j].hash # None
    <3>1. Loose(x, g, p)
      BY <1>9, <2>2 DEF Loose, LooseIn
    <3> QED
      BY <1>2, <1>3, <1>4, <3>1, NotAcceptedLoose DEF T, B
  <2> QED
    BY <1>9, <2>1, <2>2 DEF LooseIn
<1> QED
  BY <1>6, <1>7, <1>8, <1>9 DEF f, B, SealMet

\* Each of the edits is one of these.
LEMMA EditBreaks ==
    ASSUME Inv, Holds(AllOf(files)), WholeFiles(files), NEW d \in 1..Days, NEW i, ByHand(d, i),
           edits' \cap {"dropped_last", "unchained"} = {}
    PROVE  ~Holds(AllOf(files'))
<1> DEFINE T == Hashed(seals)
           f == files[d]
           Broken(g) == /\ g \in Seq(T) /\ WholeFile(g) /\ files' = [files EXCEPT ![d] = g]
                        /\ SealMet(g, d, i) \/ \E p : LooseIn(g, d, p)
<1>1. /\ f \in Seq(T) /\ Len(f) \in Nat /\ DOMAIN f = 1..Len(f)
      /\ \A j \in 1..Len(f) : f[j] \in T /\ f[j] \in Block /\ f[j].end = 4
  <2>1. f \in Seq(T)
    BY DEF Inv, Filed
  <2>2. \A j \in 1..Len(f) : f[j].end = 4
    BY DEF WholeFiles, WholeFile
  <2>3. T \subseteq Block
    BY DEF Hashed
  <2> HIDE DEF f, T
  <2> QED
    BY <2>1, <2>2, <2>3, LenProperties, ElementOfSeq
<1>2. i \in 1..Len(f)
  BY <1>1 DEF ByHand, Change, Drop, Swap, Add, Editable
<1>k. \A S : \A k \in Kinds : Kind(S, k) \in edits' => /\ Kind(S, k) = k /\ k # "dropped_last"
                                                   /\ \E b \in S : b.hash # None
  BY KindIs
<1>3. ASSUME Change(d, i)
      PROVE  \E g : Broken(g)
  <2>1. PICK x \in {[f[i].c EXCEPT !.key = k] : k \in Keys}
                      \cup {[f[i].c EXCEPT !.attrs = a] : a \in SUBSET Attrs}
                      \cup {[f[i].c EXCEPT !.body = Edited]} :
                x # f[i].c /\ HandEdit(d, [f EXCEPT ![i].c = x], Kind({f[i]}, "changed"))
    BY <1>3 DEF Change
  <2>2. f[i].c \in Content
    BY <1>1, <1>2 DEF Block
  <2>3. x \in Content
    BY <2>1, <2>2 DEF Content
  <2> DEFINE e == With(f[i], x)
             g == [f EXCEPT ![i] = e]
  <2>4. [f EXCEPT ![i].c = x] = g
    BY DEF With
  <2>5. e \in T /\ e.end = 4
    BY <1>1, <1>2, <2>3, WithBlock DEF Hashed
  <2>6. files' = [files EXCEPT ![d] = g]
    BY <2>1, <2>4 DEF HandEdit
  <2>k. f[i].hash # None
    <3>1. Kind({f[i]}, "changed") \in edits' /\ "changed" \in Kinds
      BY <2>1 DEF HandEdit, Kinds
    <3> QED
      BY <1>k, <3>1
  <2> HIDE DEF T, f, e
  <2>7. g \in Seq(T) /\ Len(g) = Len(f) /\ \A j \in 1..Len(f) : g[j] = IF j = i THEN e ELSE f[j]
    BY <1>1, <1>2, <2>5, ExceptSeq
  <2> HIDE DEF g
  <2>8. WholeFile(g)
    BY <1>1, <2>5, <2>7 DEF WholeFile
  <2>9. Rewritten(f, g, i)
    BY <1>2, <2>1, <2>3, <2>7 DEF Rewritten, e
  <2>10. SealMet(g, d, i)
    BY <2>9, <2>k DEF SealMet, f
  <2> QED
    BY <2>6, <2>7, <2>8, <2>10
<1>4. ASSUME Drop(d, i)
      PROVE  \E g : Broken(g)
  <2> DEFINE g == RemoveAt(f, i)
  <2>1. /\ g \in Seq(T) /\ Len(g) = Len(f) - 1
        /\ \A j \in 1..(i - 1) : g[j] = f[j]
        /\ \A j \in i..(Len(f) - 1) : g[j] = f[j + 1]
    BY <1>1, <1>2, Removed
  <2> DEFINE kind == IF IsLast(d, i) THEN "dropped_last" ELSE "dropped"
  <2>2. HandEdit(d, g, Kind({f[i]}, kind))
    BY <1>4 DEF Drop
  <2>3. files' = [files EXCEPT ![d] = g] /\ Kind({f[i]}, kind) \in edits' /\ kind \in Kinds
    BY <2>2 DEF HandEdit, Kinds
  <2>k. kind # "dropped_last" /\ f[i].hash # None
    <3> HIDE DEF kind, f
    <3> QED
      BY <1>k, <2>3
  <2> HIDE DEF T, f, g
  <2>4. WholeFile(g)
    <3>1. \A j \in 1..Len(g) : j \in 1..Len(f) /\ j + 1 \in 1..Len(f)
                                /\ (j \in 1..(i - 1) \/ j \in i..(Len(f) - 1))
      <4>1. Len(g) = Len(f) - 1 /\ Len(f) \in Nat /\ i \in 1..Len(f)
        BY <1>1, <1>2, <2>1
      <4> QED
        BY ONLY <4>1
    <3> QED
      BY <1>1, <2>1, <3>1 DEF WholeFile
  <2>5. Without(f, g, i)
    BY <2>1 DEF Without
  <2>6. ~IsLast(d, i)
    BY <2>k
  <2>7. SealMet(g, d, i)
    BY <2>5, <2>6, <2>k DEF SealMet, f
  <2> QED
    BY <2>1, <2>3, <2>4, <2>7
<1>5. ASSUME Swap(d, i)
      PROVE  \E g : Broken(g)
  <2> DEFINE u == [f EXCEPT ![i] = f[i + 1]]
             g == [u EXCEPT ![i + 1] = f[i]]
  <2>1. i + 1 \in 1..Len(f)
    BY <1>1, <1>2, <1>5 DEF Swap
  <2>2. HandEdit(d, [f EXCEPT ![i] = f[i + 1], ![i + 1] = f[i]], Kind({f[i], f[i + 1]}, "swapped"))
    BY <1>5 DEF Swap
  <2>k. f[i].hash # None \/ f[i + 1].hash # None
    <3>1. Kind({f[i], f[i + 1]}, "swapped") \in edits' /\ "swapped" \in Kinds
      BY <2>2 DEF HandEdit, Kinds
    <3> QED
      BY <1>k, <3>1
  <2>3. files' = [files EXCEPT ![d] = g]
    BY <2>2 DEF HandEdit
  <2> HIDE DEF T, f
  <2>4. u \in Seq(T) /\ Len(u) = Len(f) /\ \A j \in 1..Len(f) : u[j] = IF j = i THEN f[i + 1] ELSE f[j]
    BY <1>1, <1>2, <2>1, ExceptSeq
  <2> HIDE DEF u
  <2>5. g \in Seq(T) /\ Len(g) = Len(f) /\ \A j \in 1..Len(f) : g[j] = IF j = i + 1 THEN f[i] ELSE u[j]
    BY <1>1, <1>2, <2>1, <2>4, ExceptSeq
  <2> HIDE DEF g
  <2>6. i # i + 1
    BY <1>1, <1>2
  <2>7. \A j \in 1..Len(f) : g[j] = f[j] \/ g[j] = f[i] \/ g[j] = f[i + 1]
    BY <2>4, <2>5
  <2>8. WholeFile(g)
    BY <1>1, <1>2, <2>1, <2>5, <2>7 DEF WholeFile
  <2>9. Exchanged(f, g, i)
    BY <1>2, <2>1, <2>4, <2>5, <2>6 DEF Exchanged
  <2>10. CASE f[i].hash # None
    <3>1. SealMet(g, d, i)
      BY <2>9, <2>10 DEF SealMet, f
    <3> QED
      BY <2>3, <2>5, <2>8, <3>1
  <2>11. CASE f[i].hash = None
    <3>1. g[i].hash # None /\ g[i + 1].hash = None
      BY <2>9, <2>11, <2>k DEF Exchanged
    <3>2. i + 1 \in 1..Len(g) /\ i \in 1..((i + 1) - 1)
      BY <1>1, <1>2, <2>1, <2>5
    <3>3. LooseIn(g, d, i + 1)
      BY <3>1, <3>2 DEF LooseIn
    <3> QED
      BY <2>3, <2>5, <2>8, <3>3
  <2> QED
    BY <2>10, <2>11
<1>6. ASSUME NEW c \in {x \in Content : x.body = Edited}, Add(d, i, c)
      PROVE  \E g : Broken(g)
  <2>0. PICK at \in {i, i + 1} :
              HandEdit(d, InsertAt(f, at, Unsealed(c)), Kind(Before(d, at), "added"))
    BY <1>6 DEF Add
  <2> DEFINE e == Unsealed(c)
             g == InsertAt(f, at, e)
  <2>1. e \in T /\ e.hash = None /\ e.end = 4
    BY EmptySeq DEF Unsealed, Hashed, Block, None, Parts
  <2>2. files' = [files EXCEPT ![d] = g]
    BY <2>0 DEF HandEdit
  <2>k. \E b \in Before(d, at) : b.hash # None
    <3>1. Kind(Before(d, at), "added") \in edits' /\ "added" \in Kinds
      BY <2>0 DEF HandEdit, Kinds
    <3> QED
      BY <1>k, <3>1
  <2>a. at \in 1..(Len(f) + 1)
    BY <1>1, <1>2, <2>0
  <2>b. \/ \E early \in 1..(d - 1) : \E j \in 1..Len(files[early]) : files[early][j].hash # None
        \/ \E j \in 1..(at - 1) : f[j].hash # None
    <3>1. PICK b \in Before(d, at) : b.hash # None
      BY <2>k
    <3>2. CASE b \in UNION {ToSet(files[early]) : early \in 1..(d - 1)}
      <4>1. PICK early \in 1..(d - 1) : b \in ToSet(files[early])
        BY <3>2
      <4> DEFINE l == files[early]
      <4>2. l \in Seq(T)
        <5>1. early \in 1..Days
          BY ChainAssumption
        <5> QED
          BY <5>1 DEF Inv, Filed
      <4> HIDE DEF l, T
      <4>3. DOMAIN l = 1..Len(l)
        BY <4>2, LenProperties
      <4>4. \E j \in 1..Len(l) : l[j] = b
        BY <4>1, <4>3 DEF ToSet, l
      <4> QED
        BY <3>1, <4>4 DEF l
    <3>3. CASE b \in {f[j] : j \in 1..(at - 1)}
      BY <3>1, <3>3
    <3> QED
      BY <3>1, <3>2, <3>3 DEF Before, f
  <2> HIDE DEF T, f, e
  <2>3. /\ g \in Seq(T) /\ Len(g) = Len(f) + 1
        /\ \A j \in 1..(at - 1) : g[j] = f[j]
        /\ g[at] = e
        /\ \A j \in (at + 1)..(Len(f) + 1) : g[j] = f[j - 1]
    <3>1. f \in Seq(T) /\ e \in T
      BY <1>1, <2>1
    <3> QED
      BY ONLY <2>a, <3>1, Inserted
  <2> HIDE DEF g
  <2>4. Len(f) \in Nat /\ at \in 1..(Len(f) + 1) /\ Len(g) = Len(f) + 1
    BY <1>1, <2>3, <2>a
  <2>5. \A j \in 1..Len(g) : \/ j \in 1..(at - 1) /\ j \in 1..Len(f)
                             \/ j = at
                             \/ j \in (at + 1)..(Len(f) + 1) /\ j - 1 \in 1..Len(f)
    BY ONLY <2>4
  <2>6. WholeFile(g)
    BY <1>1, <2>1, <2>3, <2>5 DEF WholeFile
  <2>7. at \in 1..Len(g) /\ g[at].hash = None
    BY <2>1, <2>3, <2>4
  <2>8. LooseIn(g, d, at)
    BY <2>3, <2>7, <2>b DEF LooseIn
  <2> QED
    BY <2>2, <2>3, <2>6, <2>8
<1>7. PICK g : Broken(g)
  BY <1>3, <1>4, <1>5, <1>6 DEF ByHand
<1> QED
  BY <1>2, <1>7, EditShown

OneEdit == MaxEdits \in {0, 1}

\* As long as no write was cut short and nothing edited, the files are of whole
\* blocks ...
WholeInv == edits = {} /\ tears = 0 => WholeFiles(files)

\* ... and what verify did not accept after an edit it never accepts.
EditInv ==
    edits # {} /\ tears = 0 /\ edits \cap {"dropped_last", "unchained"} = {}
        => ~Holds(AllOf(files))

\* An edit is the first.
LEMMA FirstEdit ==
    ASSUME OneEdit, Inv, NEW d \in 1..Days, NEW i, ByHand(d, i)
    PROVE  edits = {}
<1>1. Cardinality(edits) < MaxEdits
  BY DEF ByHand, Change, Drop, Swap, Add, Editable
<1>2. IsFiniteSet(Kinds)
  <2> DEFINE S == {"changed"} \cup {"dropped"}
             T == {"dropped_last"} \cup {"swapped"}
             U == {"added"} \cup {"unchained"}
  <2>1. IsFiniteSet(S)
    BY FS_Singleton, FS_AddElement
  <2>2. IsFiniteSet(T)
    BY FS_Singleton, FS_AddElement
  <2>u. IsFiniteSet(U)
    BY FS_Singleton, FS_AddElement
  <2> HIDE DEF S, T, U
  <2>3. IsFiniteSet(S \cup T)
    BY <2>1, <2>2, FS_Union
  <2>4. IsFiniteSet((S \cup T) \cup U)
    BY <2>3, <2>u, FS_Union
  <2>5. Kinds = (S \cup T) \cup U
    BY DEF Kinds, S, T, U
  <2> QED
    BY <2>4, <2>5
<1>3. edits \subseteq Kinds
  BY DEF Inv, TypeOK, Kinds
<1>4. IsFiniteSet(edits) /\ Cardinality(edits) \in Nat
  BY <1>2, <1>3, FS_Subset, FS_CardinalityType
<1>5. Cardinality(edits) = 0
  BY <1>1, <1>4 DEF OneEdit
<1> QED
  BY <1>4, <1>5, FS_EmptySet

\* What is appended is whole.
LEMMA WholeStep ==
    ASSUME Base, WholeInv, [Next]_vars
    PROVE  WholeInv'
<1> SUFFICES ASSUME edits' = {}, tears' = 0
             PROVE  WholeFiles(files')
  BY DEF WholeInv
<1>0. tears \in Nat
  BY ChainAssumption DEF Base, Inv, TypeOK
<1>1. ASSUME NEW p \in Writers, NEW c \in Given, AppendEntry(p, c)
      PROVE  WholeFiles(files')
  <2> DEFINE b == SealedBlock(head[p], c, 4)
             f == files[today]
             g == Append(f, b)
  <2>0. 4 \in 1..4
    OBVIOUS
  <2>1. /\ Write(p, b) /\ tears = 0 /\ edits = {}
        /\ files' = [files EXCEPT ![today] = Append(@, b)]
    BY <1>1 DEF AppendEntry, Parts, Write
  <2>2. b.end = 4 /\ b \in Block /\ today \in 1..Days
    BY <2>0, <2>1, Written
  <2>3. WholeFiles(files)
    BY <2>1 DEF WholeInv
  <2>4. f \in Seq(Block) /\ files \in [1..Days -> Seq(Block)]
    BY <2>2 DEF Base, Inv, TypeOK
  <2>5. WholeFile(f)
    BY <2>2, <2>3 DEF WholeFiles
  <2> HIDE DEF b
  <2>6. files' = [files EXCEPT ![today] = g]
    BY <2>1
  <2> HIDE DEF f
  <2>7. Len(g) = Len(f) + 1 /\ g[Len(f) + 1] = b /\ \A j \in 1..Len(f) : g[j] = f[j]
        /\ Len(f) \in Nat
    BY <2>2, <2>4, AppendProperties, LenProperties
  <2> HIDE DEF g
  <2>8. \A j \in 1..Len(g) : j \in 1..Len(f) \/ j = Len(f) + 1
    BY <2>7
  <2>9. WholeFile(g)
    BY <2>2, <2>5, <2>7, <2>8 DEF WholeFile
  <2> QED
    BY <2>3, <2>4, <2>6, <2>9 DEF WholeFiles
<1>2. ASSUME NEW p \in Writers, NEW c \in Given, NEW end \in 1..4, TearEntry(p, c, end)
      PROVE  FALSE
  BY <1>0, <1>2 DEF TearEntry
<1>3. ASSUME UNCHANGED <<files, tears, edits>>
      PROVE  WholeFiles(files')
  BY <1>3 DEF WholeInv
<1>4. ASSUME NEW d \in 1..Days, NEW i, ByHand(d, i)
      PROVE  FALSE
  BY <1>4, Edits DEF Base
<1> QED
  BY <1>1, <1>2, <1>3, <1>4, Steps DEF Restart, Midnight, vars

\* What an edit breaks stays broken.
LEMMA EditStep ==
    ASSUME OneEdit, Base, Ahead, WrittenInv, WholeInv, EditInv, [Next]_vars
    PROVE  EditInv'
<1> SUFFICES ASSUME edits' # {}, tears' = 0, edits' \cap {"dropped_last", "unchained"} = {}
             PROVE  ~Holds(AllOf(files'))
  BY DEF EditInv
<1>0. tears \in Nat
  BY ChainAssumption DEF Base, Inv, TypeOK
<1>1. ASSUME NEW p \in Writers, NEW c \in Given, AppendEntry(p, c)
      PROVE  ~Holds(AllOf(files'))
  <2> DEFINE b == SealedBlock(head[p], c, 4)
             e == Made(files, today, b)
             T == Hashed(seals')
             A == AllOf(files)
  <2>0. 4 \in 1..4
    OBVIOUS
  <2>1. /\ Write(p, b) /\ tears = 0 /\ edits = edits' /\ seals' = seals \cup {b.hash}
        /\ files' = [files EXCEPT ![today] = Append(@, b)]
    BY <1>1 DEF AppendEntry, Parts, Write
  <2>2. b \in T /\ today \in 1..Days
    BY <2>0, <2>1, Writing DEF Base, Inv, TypeOK
  <2>3. files \in Filed(seals')
    BY <2>1, FiledGrows DEF Base, Inv
  <2>4. b.end = 4
    BY DEF SealedBlock
  <2>5. files' = Longer(files, today, b)
    BY <2>1 DEF Longer
  <2>6. e \in T /\ A \in Seq(T)
    BY <2>2, <2>3, LongerReads, AllIn
  <2> HIDE DEF b
  <2>7. AllOf(files') = Append(A, e)
    BY <2>2, <2>3, <2>4, <2>5, AllAppend DEF Ahead
  <2>8. ~Holds(A)
    BY <2>1 DEF EditInv
  <2> HIDE DEF A, e, T
  <2> QED
    BY <2>6, <2>7, <2>8, HoldsPrefix
<1>2. ASSUME NEW p \in Writers, NEW c \in Given, NEW end \in 1..4, TearEntry(p, c, end)
      PROVE  FALSE
  BY <1>0, <1>2 DEF TearEntry
<1>3. ASSUME UNCHANGED <<files, tears, edits>>
      PROVE  ~Holds(AllOf(files'))
  BY <1>3 DEF EditInv
<1>4. ASSUME NEW d \in 1..Days, NEW i, ByHand(d, i)
      PROVE  ~Holds(AllOf(files'))
  <2>1. edits = {} /\ tears = 0
    BY <1>4, FirstEdit, Edits DEF Base
  <2>2. Holds(AllOf(files)) /\ WholeFiles(files)
    BY <2>1 DEF WrittenInv, WholeInv
  <2> QED
    BY <1>4, <2>2, EditBreaks DEF Base
<1> QED
  BY <1>1, <1>2, <1>3, <1>4, Steps DEF Restart, Midnight, vars

\* In the first state the files are of whole blocks.
LEMMA InitWhole ==
    ASSUME Init
    PROVE  WholeFiles(files)
<1>1. PICK c \in Given, old \in {FALSE, Legacy} :
         files = [d \in 1..Days |-> IF old /\ d = 1 THEN << Unsealed(c) >> ELSE <<>>]
  BY DEF Init, Given
<1>2. WholeFile(<< Unsealed(c) >>) /\ WholeFile(<<>>)
  BY DEF WholeFile, Unsealed, Parts
<1> QED
  BY <1>1, <1>2 DEF WholeFiles

\* One edit by hand of a log that was written without failure is shown by verify
\* at once, and whatever is appended later, unless it takes the last entry away or
\* meets no seal: one among the entries older than the chain.
THEOREM InnerEditsShownAlways ==
    ASSUME OneWriter, Forward, OneEdit
    PROVE  Spec => []InnerEditsShown
<1>1. Init => Base /\ TearInv /\ Ahead /\ WrittenInv /\ WholeInv /\ EditInv
  <2> SUFFICES ASSUME Init
               PROVE  Base /\ TearInv /\ Ahead /\ WrittenInv /\ WholeInv /\ EditInv
    OBVIOUS
  <2>1. Damaged = {} /\ Open = {} /\ tears = 0 /\ edits = {}
    BY InitReads DEF Init, Damaged, Open
  <2> QED
    BY <2>1, InitBase, InitHolds, InitWhole, FS_EmptySet DEF TearInv, WrittenInv, WholeInv, EditInv
<1>2. Base /\ TearInv /\ Ahead /\ WrittenInv /\ WholeInv /\ EditInv /\ [Next]_vars
         => Base' /\ TearInv' /\ Ahead' /\ WrittenInv' /\ WholeInv' /\ EditInv'
  <2> SUFFICES ASSUME Base, TearInv, Ahead, WrittenInv, WholeInv, EditInv, [Next]_vars
               PROVE  Base' /\ TearInv' /\ Ahead' /\ WrittenInv' /\ WholeInv' /\ EditInv'
    OBVIOUS
  <2>1. Base'
    BY BaseNext
  <2>2. TearInv'
    BY <2>1, TearStep
  <2>3. Ahead'
    BY AheadNext DEF Base
  <2>4. WrittenInv'
    BY WrittenStep
  <2>5. WholeInv'
    BY WholeStep
  <2>6. EditInv'
    BY EditStep
  <2> QED
    BY <2>1, <2>2, <2>3, <2>4, <2>5, <2>6
<1>3. EditInv => InnerEditsShown
  BY Names DEF EditInv, InnerEditsShown, ChainHolds, Holds
<1> QED
  BY <1>1, <1>2, <1>3, PTL DEF Spec
=============================================================================
