---------------------------- MODULE RebuildProofs ----------------------------
(***************************************************************************)
(* A vector belongs to the text of its row, in the index however many      *)
(* rebuilds are cut short and whoever else rescans, and, when no rescan     *)
(* runs beside it, in the cache of the process that serves; a rescan that is *)
(* not cut short gives every vector back to the rows of its key and text;    *)
(* and a process that serves answers what the replay of the log says, unless *)
(* the latest rebuild was cut.  All of it for any keys, texts, logs made      *)
(* before versions and number of calls, whatever the log gives back for a text. *)
(***************************************************************************)
EXTENDS Rebuild, BitemporalProofs

-----------------------------------------------------------------------------
(* Sequences of rows.                                                       *)

\* A row that comes of an entry of l, with a text and no vector or that of it.
TrueRow(l) ==
    {r \in RowType(Keys, {}) :
        r.line \in 1..Len(l) /\ r.text \in Texts /\ r.emb \in {NoVector, r.text}}

\* The ids of t still name rows of the same text in u.
SameTexts(t, u) == Len(t) <= Len(u) /\ \A i \in 1..Len(t) : u[i].text = t[i].text

\* True rows are rows.
LEMMA TrueRows ==
    ASSUME NEW l, NEW t \in Seq(TrueRow(l))
    PROVE  t \in Seq(RowType(Keys, {}))
<1>1. TrueRow(l) \subseteq RowType(Keys, {})
  BY DEF TrueRow
<1> QED
  BY <1>1, SeqMonotonic

\* A longer log says the same of the rows there are.
LEMMA TrueGrow ==
    ASSUME NEW l \in Seq(EntryType), NEW e \in EntryType
    PROVE  TrueRow(l) \subseteq TrueRow(Append(l, e))
<1>1. /\ Len(Append(l, e)) = Len(l) + 1 /\ Len(l) \in Nat
      /\ \A i \in 1..Len(l) : Append(l, e)[i] = l[i]
  OBVIOUS
<1> QED
  BY <1>1 DEF TrueRow

\* The fields of an entry.
LEMMA EntryFields ==
    ASSUME NEW e \in EntryType
    PROVE  /\ e.op \in {"store", "delete"} /\ e.key \in Keys /\ e.text \in Nat
           /\ e.updated \in Nat /\ e.vf \in Nat
           /\ e.text # NoVector => e.text \in Texts
           /\ e.op = "store" => e.text \in Texts
<1>1. Texts \subseteq Nat /\ NoVector \in Nat
  BY RebuildAssumption DEF NoVector
<1> QED
  BY <1>1 DEF EntryType, Ticks

\* Rows with the content and the vector of true rows are true.
LEMMA AlikeTrue ==
    ASSUME NEW l, NEW t \in Seq(TrueRow(l)), NEW r \in RowType(Keys, {}),
           ComesOf(r, t)
    PROVE  r \in TrueRow(l)
<1>1. PICK i \in 1..Len(t) : r.line = t[i].line /\ r.text = t[i].text /\ r.emb = t[i].emb
  BY DEF ComesOf, SameContent
<1>2. t[i] \in TrueRow(l)
  BY <1>1
<1> QED
  BY <1>1, <1>2 DEF TrueRow

\* Put adds rows at the end: pieces of rows there were, and its own, last.
LEMMA PutRowTrue ==
    ASSUME NEW l, NEW t \in Seq(TrueRow(l)), NEW f \in FactType(Keys, {}),
           f.line \in 1..Len(l), NEW x \in Texts
    PROVE  LET R == PutRow(t, f, x)
           IN  /\ R \in Seq(TrueRow(l)) /\ SameTexts(t, R)
               /\ Len(R) > Len(t) /\ R[Len(R)].text = x
<1> DEFINE R == PutRow(t, f, x)
<1>0. x \in Nat
  BY RebuildAssumption
<1>1. t \in Seq(RowType(Keys, {}))
  BY TrueRows
<1>2. /\ R \in Seq(RowType(Keys, {})) /\ Len(R) > Len(t)
      /\ \A i \in 1..Len(t) : SameContent(R[i], t[i])
      /\ R[Len(R)].line = f.line /\ R[Len(R)].text = x /\ R[Len(R)].emb = NoVector
      /\ \A i \in 1..Len(R) : i = Len(R) \/ ComesOf(R[i], t)
  BY <1>0, <1>1, PutRowRows
<1> HIDE DEF R
<1>3. ASSUME NEW i \in 1..Len(R) PROVE R[i] \in TrueRow(l)
  <2>1. R[i] \in RowType(Keys, {})
    BY <1>2
  <2>2. CASE i = Len(R)
    BY <1>2, <2>1, <2>2 DEF TrueRow
  <2>3. CASE ComesOf(R[i], t)
    BY <2>1, <2>3, AlikeTrue
  <2> QED
    BY <1>2, <2>2, <2>3
<1>4. R \in Seq(TrueRow(l)) /\ Len(t) \in Nat /\ Len(R) \in Nat
  <2>1. R \in [1..Len(R) -> TrueRow(l)] /\ Len(R) \in Nat
    BY <1>2, <1>3
  <2> QED
    BY <2>1
<1> QED
  BY <1>2, <1>4 DEF SameTexts, SameContent, R

\* Forgetting marks rows where they are.
LEMMA ForgetRowsTrue ==
    ASSUME NEW l, NEW t \in Seq(TrueRow(l)), NEW k, NEW at \in Nat
    PROVE  ForgetRows(t, k, at) \in Seq(TrueRow(l)) /\ SameTexts(t, ForgetRows(t, k, at))
<1> DEFINE R == ForgetRows(t, k, at)
<1>1. t \in Seq(RowType(Keys, {}))
  BY TrueRows
<1>2. /\ R \in Seq(RowType(Keys, {})) /\ Len(R) = Len(t)
      /\ \A i \in 1..Len(t) : SameContent(R[i], t[i])
  BY <1>1, ForgetRowsRows
<1> HIDE DEF R
<1>3. ASSUME NEW i \in 1..Len(R) PROVE R[i] \in TrueRow(l)
  <2>1. R[i] \in RowType(Keys, {}) /\ ComesOf(R[i], t)
    BY <1>2 DEF ComesOf
  <2> QED
    BY <2>1, AlikeTrue
<1>4. R \in Seq(TrueRow(l)) /\ Len(t) \in Nat
  <2>1. R \in [1..Len(R) -> TrueRow(l)] /\ Len(R) \in Nat
    BY <1>2, <1>3
  <2> QED
    BY <2>1
<1> QED
  BY <1>2, <1>4 DEF SameTexts, SameContent, R

\* An entry of the log applied to the rows it finds.
LEMMA ApplyTrue ==
    ASSUME NEW l \in Seq(EntryType), NEW t \in Seq(TrueRow(l)), NEW i \in 1..Len(l),
           NEW x, l[i].op = "store" => x \in Texts
    PROVE  LET R == ApplyEntry(t, l, i, x)
           IN  /\ R \in Seq(TrueRow(l)) /\ SameTexts(t, R)
               /\ l[i].op = "store" => Len(R) > Len(t) /\ R[Len(R)].text = x
<1>1. /\ l[i] \in EntryType /\ i \in Nat
      /\ l[i].key \in Keys /\ l[i].updated \in Nat /\ l[i].vf \in Nat
  BY EntryFields
<1>2. CASE l[i].op = "store"
  <2> DEFINE f == [key |-> l[i].key, line |-> i, tags |-> {}, ttl |-> 0,
                   updated |-> l[i].updated, vf |-> l[i].vf, vt |-> Zero]
  <2>1. f \in FactType(Keys, {}) /\ f.line = i
    BY <1>1 DEF FactType, Ticks, Zero
  <2>2. ApplyEntry(t, l, i, x) = PutRow(t, f, x)
    BY <1>2 DEF ApplyEntry
  <2> HIDE DEF f
  <2> QED
    BY <1>2, <2>1, <2>2, PutRowTrue
<1>3. CASE l[i].op # "store"
  BY <1>1, <1>3, ForgetRowsTrue DEF ApplyEntry
<1> QED
  BY <1>2, <1>3

\* What a rescan makes of an entry.
LEMMA ReplayTrue ==
    ASSUME NEW l \in Seq(EntryType), NEW t \in Seq(TrueRow(l)), NEW i \in 1..Len(l)
    PROVE  Replay(t, l, i) \in Seq(TrueRow(l))
<1>1. l[i].op = "store" => ReadBack[l[i].text] \in Texts
  BY EntryFields, RebuildAssumption
<1> QED
  BY <1>1, ApplyTrue DEF Replay

\* The vector of the text of a row, written to the row.
LEMMA EmbedTrue ==
    ASSUME NEW l \in Seq(EntryType), NEW t \in Seq(TrueRow(l)), NEW i \in 1..Len(t)
    PROVE  LET R == StoreEmbedding(t, i, t[i].text)
           IN  R \in Seq(TrueRow(l)) /\ SameTexts(t, R) /\ Len(R) = Len(t)
<1> DEFINE x == t[i].text
           R == StoreEmbedding(t, i, x)
<1>1. /\ Len(t) \in Nat /\ DOMAIN t = 1..Len(t) /\ \A j \in 1..Len(t) : t[j] \in TrueRow(l)
  OBVIOUS
<1> DEFINE q == [t[i] EXCEPT !.emb = x]
<1>3. q \in TrueRow(l) /\ q.text = t[i].text
  <2>1. t[i] \in RowType(Keys, {}) /\ t[i].line \in 1..Len(l) /\ x \in Texts /\ x \in Nat
    BY <1>1, RebuildAssumption DEF TrueRow
  <2> HIDE DEF x
  <2>2. /\ q \in RowType(Keys, {}) /\ q.line = t[i].line /\ q.text = t[i].text
        /\ q.emb = x
    BY <2>1 DEF RowType
  <2> QED
    BY <2>1, <2>2 DEF TrueRow, x
<1>4. R = [t EXCEPT ![i] = q]
  BY DEF StoreEmbedding
<1> HIDE DEF x, q, R
<1>5. R \in [1..Len(t) -> TrueRow(l)]
  BY <1>1, <1>3, <1>4
<1>6. \A j \in 1..Len(t) : R[j].text = t[j].text
  BY <1>1, <1>3, <1>4
<1> QED
  BY <1>1, <1>5, <1>6, SMTT(30) DEF SameTexts, R, x

-----------------------------------------------------------------------------
(* The invariant.                                                           *)

\* Steps that name an entry of the log, if any.
Doable(l) ==
    {s \in [do : {"look", "drop", "snapshot", "reset", "read", "apply", "restore"}, line : Nat] :
        s.do = "apply" => s.line \in 1..Len(l)}

\* Vectors put aside with the text they were computed from.
KeptVectors == {v \in [key : Keys, text : Texts, emb : Texts] : v.emb = v.text}

\* The cache names rows of the index as it is.
CacheTrue ==
    cache # NoCache =>
        /\ todo[Server] = <<>>
        /\ \A i \in DOMAIN cache :
              i \in 1..Len(table) /\ cache[i] = table[i].text

\* A rescan gives back what it put aside, and ids change under the process that
\* serves only when another rescans: both the vectors on their way and, for the
\* cache, who is up belong to the invariant.
IInv ==
    /\ TypeOK
    /\ table \in Seq(TrueRow(log))
    /\ todo \in [Procs -> Seq(Doable(log))]
    /\ kept \in [Procs -> SUBSET KeptVectors]
    /\ ~Together => CacheTrue /\ \A p, q \in up : p = q

\* A set of numbers with a bound has a greatest.
LEMMA Greatest ==
    ASSUME NEW S \in SUBSET Nat, NEW n \in Nat, \A i \in S : i <= n, S # {}
    PROVE  \E i \in S : \A j \in S : j <= i
<1> DEFINE T == {n - i : i \in S}
<1>1. T \subseteq Nat /\ T # {}
  <2>1. \A i \in S : n - i \in Nat
    OBVIOUS
  <2> QED
    BY <2>1
<1>2. PICK x \in T : \A y \in T : ~ (<<y, x>> \in OpToRel(<, Nat))
  BY <1>1, WFMin, NatLessThanWellFounded
<1>3. \A y \in T : ~ (y < x)
  BY <1>1, <1>2 DEF OpToRel
<1>4. PICK i \in S : x = n - i
  BY <1>2
<1> HIDE DEF T
<1>5. ASSUME NEW j \in S PROVE j <= i
  <2>1. ~ (n - j < n - i)
    BY <1>3, <1>4 DEF T
  <2>2. i \in Nat /\ j \in Nat /\ n \in Nat
    OBVIOUS
  <2> QED
    BY <2>1, <2>2
<1> QED
  BY <1>5

\* The row of a key in an index made before versions.
LEMMA OldRowTrue ==
    ASSUME NEW l \in Seq(EntryType), NEW n \in 1..Len(l), l[n].op = "store"
    PROVE  OldRow(l, l[n].key) \in TrueRow(l)
<1> DEFINE k == l[n].key
           mine == {i \in DOMAIN l : l[i].key = k}
           stores == {i \in mine : l[i].op = "store"}
           line == CHOOSE i \in stores : \A j \in stores : j <= i
           forgot == {j \in mine : j > line}
           when == IF forgot = {} THEN Zero ELSE l[CHOOSE j \in forgot : TRUE].updated
           row == [key |-> k, line |-> line, tags |-> {}, ttl |-> 0, updated |-> l[line].updated,
                   vf |-> Zero, vt |-> Zero, tf |-> Zero, tt |-> Zero,
                   deleted |-> when, text |-> l[line].text, emb |-> l[line].text]
<1>1. /\ Len(l) \in Nat /\ DOMAIN l = 1..Len(l) /\ \A i \in 1..Len(l) : l[i] \in EntryType
  OBVIOUS
<1>2. stores \in SUBSET Nat /\ stores # {} /\ \A i \in stores : i <= Len(l)
  BY <1>1
<1>3. line \in stores
  <2> HIDE DEF stores
  <2> QED
    BY <1>1, <1>2, Greatest
<1>4. line \in 1..Len(l)
  BY <1>1, <1>3
<1>5. when \in Nat
  <2> HIDE DEF line
  <2> DEFINE j == CHOOSE j \in forgot : TRUE
  <2>1. forgot # {} => j \in forgot
    OBVIOUS
  <2>2. forgot \subseteq 1..Len(l)
    BY <1>1
  <2> HIDE DEF j, forgot
  <2>3. forgot # {} => l[j].updated \in Nat
    BY <1>1, <2>1, <2>2, EntryFields
  <2> QED
    BY <2>3 DEF Zero, j
<1>6. row = OldRow(l, k)
  BY DEF OldRow
<1> HIDE DEF line, when, forgot
<1>7. /\ k \in Keys /\ l[line].updated \in Nat
      /\ l[line].text \in Nat /\ l[line].text \in Texts
  BY <1>1, <1>3, <1>4, EntryFields
<1> HIDE DEF k
<1>8. row \in RowType(Keys, {})
  BY <1>4, <1>5, <1>7 DEF RowType, Ticks, Zero
<1>9. row \in TrueRow(l)
  BY <1>4, <1>7, <1>8 DEF TrueRow
<1> QED
  BY <1>6, <1>9 DEF k

\* An index made before versions is true to its log.
LEMMA OldTableTrue ==
    ASSUME NEW l \in Seq(EntryType)
    PROVE  OldTable(l) \in Seq(TrueRow(l))
<1> DEFINE I == {j \in DOMAIN l : l[j].op = "store"}
           K == {l[i].key : i \in I}
           S == {OldRow(l, k) : k \in K}
<1>1. IsFiniteSet(I)
  <2>1. IsFiniteSet(1..Len(l)) /\ DOMAIN l = 1..Len(l)
    BY FS_Interval
  <2> QED
    BY <2>1, FS_Subset
<1>2. IsFiniteSet(K)
  <2> DEFINE g == [i \in I |-> l[i].key]
  <2>1. DOMAIN g = I /\ {g[i] : i \in I} = K
    OBVIOUS
  <2> HIDE DEF g, I, K
  <2> QED
    BY <1>1, <2>1, FiniteImage
<1>3. IsFiniteSet(S)
  <2> DEFINE g == [k \in K |-> OldRow(l, k)]
  <2>1. DOMAIN g = K /\ {g[k] : k \in K} = S
    OBVIOUS
  <2> HIDE DEF g, K, S
  <2> QED
    BY <1>2, <2>1, FiniteImage
<1>4. S \subseteq TrueRow(l)
  BY OldRowTrue
<1>5. OldTable(l) = SetToSeq(S)
  BY DEF OldTable
<1> HIDE DEF S
<1> QED
  BY <1>3, <1>4, <1>5, SeqOfSet

\* The invariant holds at the start.
LEMMA InitIInv == Init => IInv
<1> SUFFICES ASSUME Init
             PROVE  IInv
  OBVIOUS
<1>1. log \in Seq(EntryType) /\ clock \in Nat
  BY RebuildAssumption DEF Init
<1>2. table \in Seq(TrueRow(log))
  BY <1>1, OldTableTrue DEF Init
<1>3. table \in Seq(RowType(Keys, {}))
  BY <1>2, TrueRows
<1>4. todo \in [Procs -> Seq(Doable(log))] /\ \A p \in Procs : todo[p] = <<>>
  BY DEF Init
<1>5. kept \in [Procs -> SUBSET KeptVectors]
  BY DEF Init
<1> QED
  BY <1>1, <1>2, <1>3, <1>4, <1>5 DEF Init, IInv, TypeOK, CacheTrue

\* A process with steps left is up, and alone unless rescans run beside it:
\* nobody serves then.
LEMMA Busy ==
    ASSUME IInv, NEW p \in Procs, todo[p] # <<>>
    PROVE  p \in up /\ (~Together => cache = NoCache)
<1>1. p \in up
  BY DEF IInv, TypeOK
<1>2. ASSUME ~Together, cache # NoCache PROVE FALSE
  <2>1. Server \in up /\ todo[Server] = <<>>
    BY <1>2 DEF IInv, TypeOK, CacheTrue
  <2> QED
    BY <1>1, <1>2, <2>1 DEF IInv
<1> QED
  BY <1>1, <1>2

\* A step of a process that opens or rescans.
LEMMA Advance ==
    ASSUME IInv, NEW p \in Procs, todo[p] # <<>>,
           NEW rest \in Seq(Doable(log)), todo' = [todo EXCEPT ![p] = rest],
           UNCHANGED <<clock, log, up>>,
           table' \in Seq(TrueRow(log)),
           kept' \in [Procs -> SUBSET KeptVectors],
           cache' \in {cache, NoCache},
           unique' \in BOOLEAN, cut' \in BOOLEAN, had' \subseteq [key : Keys, text : Texts]
    PROVE  IInv'
<1>1. p \in up /\ (~Together => cache = NoCache)
  BY Busy
<1>2. table' \in Seq(RowType(Keys, {}))
  BY TrueRows
<1>3. /\ todo' \in [Procs -> Seq(Doable(log))]
      /\ \A q \in Procs : todo'[q] # <<>> => q \in up
  BY <1>1 DEF IInv, TypeOK
<1>4. kept' \in [Procs -> SUBSET [key : Keys, text : Texts, emb : Texts]]
  BY DEF KeptVectors
<1>5. TypeOK'
  BY <1>2, <1>3, <1>4 DEF IInv, TypeOK
<1>6. (~Together => CacheTrue /\ \A q, r \in up : q = r)'
  BY <1>1 DEF IInv, CacheTrue
<1> QED
  BY <1>3, <1>5, <1>6 DEF IInv

\* What is left after the first step.
LEMMA Rest ==
    ASSUME IInv, NEW p \in Procs, NEW do, At(p, do)
    PROVE  /\ todo[p] # <<>> /\ Tail(todo[p]) \in Seq(Doable(log))
           /\ Head(todo[p]) \in Doable(log) /\ Head(todo[p]).do = do
<1>1. todo[p] \in Seq(Doable(log)) /\ todo[p] # <<>>
  BY DEF IInv, At
<1> QED
  BY <1>1, HeadTailProperties DEF At

\* Rows that carry the text they were computed from.
LEMMA RowFields ==
    ASSUME NEW l, NEW r \in TrueRow(l)
    PROVE  /\ r \in RowType(Keys, {}) /\ r.key \in Keys /\ r.line \in 1..Len(l)
           /\ r.text \in Texts /\ r.text \in Nat
           /\ r.emb # NoVector => r.emb = r.text /\ r.emb \in Texts
<1>1. /\ r \in RowType(Keys, {}) /\ r.line \in 1..Len(l) /\ r.text \in Texts
      /\ r.emb \in {NoVector, r.text}
  BY DEF TrueRow
<1> QED
  BY <1>1, RebuildAssumption DEF RowType

\* Opening: the steps look and drop.
LEMMA OpeningStep ==
    ASSUME IInv, NEW p \in Procs, Look(p) \/ DropUnique(p)
    PROVE  IInv'
<1>1. \A do \in {"drop", "snapshot", "reset", "read"} : Step(do) \in Doable(log)
  BY DEF Step, Entry, Doable
<1>2. Rescan \in Seq(Doable(log)) /\ << Step("drop") >> \in Seq(Doable(log))
  BY <1>1 DEF Rescan
<1>3. AfterLook(p) \in Seq(Doable(log))
  BY <1>2 DEF AfterLook
<1>4. CASE Look(p)
  BY <1>3, <1>4, Rest, Advance DEF Look, IInv, TypeOK
<1>5. CASE DropUnique(p)
  BY <1>5, Rest, Advance DEF DropUnique, IInv, TypeOK
<1> QED
  BY <1>4, <1>5

\* A rescan up to the entries it reads.
LEMMA RescanStep ==
    ASSUME IInv, NEW p \in Procs, Snapshot(p) \/ Reset(p) \/ ReadLog(p)
    PROVE  IInv'
<1>0. log \in Seq(EntryType) /\ table \in Seq(TrueRow(log)) /\ Len(log) \in Nat
      /\ \A r \in ToSet(table) : r \in TrueRow(log)
  BY DEF IInv, TypeOK, ToSet
<1>1. CASE Snapshot(p)
  <2>1. SnapshotEmbeddings(table) \subseteq KeptVectors
    <3>1. ASSUME NEW r \in ToSet(table), r.emb # NoVector
          PROVE  [key |-> r.key, text |-> r.text, emb |-> r.emb] \in KeptVectors
      <4>1. r.key \in Keys /\ r.emb = r.text /\ r.emb \in Texts
        BY <1>0, <3>1, RowFields
      <4> QED
        BY <4>1 DEF KeptVectors
    <3> QED
      BY <3>1 DEF SnapshotEmbeddings
  <2>2. kept' \in [Procs -> SUBSET KeptVectors]
    BY <1>1, <2>1 DEF Snapshot, IInv
  <2>3. had' \subseteq [key : Keys, text : Texts]
    <3>1. \A r \in ToSet(table) : r.emb # NoVector => r.key \in Keys /\ r.emb \in Texts
      BY <1>0, RowFields
    <3> QED
      BY <1>1, <3>1 DEF Snapshot
  <2> QED
    BY <1>0, <1>1, <2>2, <2>3, Rest, Advance DEF Snapshot, IInv, TypeOK
<1>2. CASE Reset(p)
  <2>1. table' \in Seq(TrueRow(log))
    BY <1>2 DEF Reset
  <2> QED
    BY <1>2, <2>1, Rest, Advance DEF Reset, IInv, TypeOK
<1>3. CASE ReadLog(p)
  <2> DEFINE applies == [i \in DOMAIN log |-> Entry("apply", i)]
             rest == applies \o << Step("restore") >> \o Tail(todo[p])
  <2>1. \A i \in 1..Len(log) : Entry("apply", i) \in Doable(log)
    BY <1>0 DEF Entry, Doable
  <2>2. applies \in Seq(Doable(log))
    BY <1>0, <2>1
  <2>3. << Step("restore") >> \in Seq(Doable(log))
    BY DEF Step, Entry, Doable
  <2>4. Tail(todo[p]) \in Seq(Doable(log)) /\ todo[p] # <<>>
    BY <1>3, Rest DEF ReadLog
  <2>5. todo' = [todo EXCEPT ![p] = rest]
    BY <1>3 DEF ReadLog
  <2> HIDE DEF applies
  <2>6. rest \in Seq(Doable(log))
    BY <2>2, <2>3, <2>4
  <2> HIDE DEF rest
  <2> QED
    BY <1>0, <1>3, <2>4, <2>5, <2>6, Advance DEF ReadLog, IInv, TypeOK
<1> QED
  BY <1>1, <1>2, <1>3

\* Giving vectors back: to rows of the text they were computed from.
LEMMA RestoreTrue ==
    ASSUME IInv, NEW p \in Procs
    PROVE  RestoreEmbeddings(table, kept[p]) \in Seq(TrueRow(log))
<1> DEFINE R == RestoreEmbeddings(table, kept[p])
           found(i) == {v \in kept[p] : v.key = table[i].key /\ v.text = table[i].text}
           given(i) == [table[i] EXCEPT !.emb = (CHOOSE v \in found(i) : TRUE).emb]
<1>1. /\ log \in Seq(EntryType) /\ table \in Seq(TrueRow(log)) /\ Len(table) \in Nat
      /\ DOMAIN table = 1..Len(table) /\ \A i \in 1..Len(table) : table[i] \in TrueRow(log)
      /\ kept[p] \subseteq KeptVectors
  BY DEF IInv, TypeOK
<1>2. ASSUME NEW i \in 1..Len(table)
      PROVE  R[i] \in TrueRow(log)
  <2>1. table[i] \in TrueRow(log) /\ table[i] \in RowType(Keys, {})
        /\ table[i].line \in 1..Len(log) /\ table[i].text \in Texts
    BY <1>1, RowFields
  <2>2. R[i] = table[i] \/ (found(i) # {} /\ R[i] = given(i))
    BY <1>1 DEF RestoreEmbeddings
  <2>3. ASSUME found(i) # {} PROVE given(i) \in TrueRow(log)
    <3> DEFINE v == CHOOSE v \in found(i) : TRUE
    <3>1. v \in found(i)
      BY <2>3
    <3> HIDE DEF v
    <3>2. v \in KeptVectors /\ v.text = table[i].text
      BY <1>1, <3>1
    <3>3. v.emb = table[i].text /\ v.emb \in Texts
      BY <3>2 DEF KeptVectors
    <3>5. v.emb \in Nat
      BY <3>3, RebuildAssumption
    <3> DEFINE q == [table[i] EXCEPT !.emb = v.emb]
    <3>6. /\ q \in RowType(Keys, {}) /\ q.line = table[i].line /\ q.text = table[i].text
          /\ q.emb = v.emb
      BY <2>1, <3>5 DEF RowType
    <3>7. q \in TrueRow(log)
      BY <2>1, <3>3, <3>6 DEF TrueRow
    <3> QED
      BY <3>7 DEF v
  <2> HIDE DEF R, given, found
  <2> QED
    BY <2>1, <2>2, <2>3
<1>3. R \in [1..Len(table) -> TrueRow(log)]
  BY <1>1, <1>2 DEF RestoreEmbeddings
<1> QED
  BY <1>1, <1>3

\* The entries applied, the vectors given back.
LEMMA FillStep ==
    ASSUME IInv, NEW p \in Procs, Apply(p) \/ Restore(p)
    PROVE  IInv'
<1>1. log \in Seq(EntryType) /\ table \in Seq(TrueRow(log))
  BY DEF IInv, TypeOK
<1>2. CASE Apply(p)
  <2>1. Head(todo[p]).line \in 1..Len(log)
    BY <1>2, Rest DEF Apply, Doable
  <2>2. table' \in Seq(TrueRow(log))
    BY <1>1, <1>2, <2>1, ReplayTrue DEF Apply
  <2> QED
    BY <1>2, <2>2, Rest, Advance DEF Apply, IInv, TypeOK
<1>3. CASE Restore(p)
  <2>1. table' \in Seq(TrueRow(log))
    BY <1>3, RestoreTrue DEF Restore
  <2>2. kept' \in [Procs -> SUBSET KeptVectors]
    BY <1>3 DEF Restore, IInv
  <2> QED
    BY <1>3, <2>1, <2>2, Rest, Advance DEF Restore, IInv, TypeOK
<1> QED
  BY <1>2, <1>3

\* A process comes up or ends.
LEMMA UpStep ==
    ASSUME IInv, NEW p \in Procs, Open(p) \/ Exit(p)
    PROVE  IInv'
<1>1. CASE Open(p)
  <2>1. << Step("look") >> \in Seq(Doable(log))
    BY DEF Step, Entry, Doable
  <2>2. /\ todo' \in [Procs -> Seq(Doable(log))]
        /\ \A q \in Procs : todo'[q] # <<>> => q \in up'
    BY <1>1, <2>1 DEF Open, IInv, TypeOK
  <2>3. TypeOK'
    BY <1>1, <2>2 DEF Open, IInv, TypeOK
  <2>4. ~Together => cache = NoCache /\ up' = {p}
    BY <1>1 DEF Open, IInv, TypeOK
  <2>5. (~Together => CacheTrue /\ \A q, r \in up : q = r)'
    BY <1>1, <2>4 DEF Open, CacheTrue
  <2> QED
    BY <1>1, <2>2, <2>3, <2>5 DEF Open, IInv
<1>2. CASE Exit(p)
  <2>1. <<>> \in Seq(Doable(log))
    OBVIOUS
  <2>2. /\ todo' \in [Procs -> Seq(Doable(log))]
        /\ \A q \in Procs : todo'[q] # <<>> => q \in up'
    BY <1>2, <2>1 DEF Exit, IInv, TypeOK
  <2>3. kept' \in [Procs -> SUBSET KeptVectors]
    BY <1>2 DEF Exit, IInv
  <2>4. kept' \in [Procs -> SUBSET [key : Keys, text : Texts, emb : Texts]]
    BY <2>3 DEF KeptVectors
  <2>5. cache' = NoCache \/ (Server \in up' /\ cache' = cache /\ cache # NoCache)
    BY <1>2 DEF Exit, IInv, TypeOK
  <2>6. cut' \in BOOLEAN
    BY <1>2 DEF Exit
  <2>7. TypeOK'
    BY <1>2, <2>2, <2>4, <2>5, <2>6 DEF Exit, IInv, TypeOK
  <2>8. (~Together => CacheTrue /\ \A q, r \in up : q = r)'
    BY <1>2, <2>5 DEF Exit, IInv, CacheTrue
  <2> QED
    BY <1>2, <2>2, <2>3, <2>7, <2>8 DEF Exit, IInv
<1> QED
  BY <1>1, <1>2

\* A call: the log grows by an entry, rows keep their ids, and the steps and
\* vectors of a rescan beside it stay good.
LEMMA CallGrows ==
    ASSUME IInv, NEW e \in EntryType, log' = Append(log, e),
           table' \in Seq(TrueRow(log')), SameTexts(table, table'),
           UNCHANGED <<clock, unique, up, todo, kept, cut>>, had' = {},
           cache' = NoCache \/ (Server \in up /\ ToSet(cache') \subseteq Texts),
           ~Together => CacheTrue'
    PROVE  IInv'
<1>1. log \in Seq(EntryType) /\ log' \in Seq(EntryType) /\ Len(log) \in Nat
      /\ Len(log') = Len(log) + 1
  BY DEF IInv, TypeOK
<1>2. todo' \in [Procs -> Seq(Doable(log'))]
  <2>1. Doable(log) \subseteq Doable(log')
    BY <1>1 DEF Doable
  <2>2. Seq(Doable(log)) \subseteq Seq(Doable(log'))
    BY <2>1, SeqMonotonic
  <2> QED
    BY <2>2 DEF IInv
<1>3. table' \in Seq(RowType(Keys, {}))
  BY TrueRows
<1>4. TypeOK'
  BY <1>1, <1>3 DEF IInv, TypeOK
<1> QED
  BY <1>2, <1>4 DEF IInv

\* What the cache holds stays true while rows keep their ids and texts.
LEMMA CacheGrows ==
    ASSUME IInv, ~Together, SameTexts(table, table'), table' \in Seq(TrueRow(log')),
           cache # NoCache, NEW i \in DOMAIN cache
    PROVE  i \in 1..Len(table') /\ cache[i] = table'[i].text
<1>1. table \in Seq(TrueRow(log)) /\ Len(table) \in Nat /\ Len(table') \in Nat
  BY DEF IInv, TypeOK
<1>2. i \in 1..Len(table) /\ cache[i] = table[i].text
  BY DEF IInv, CacheTrue
<1> QED
  BY <1>1, <1>2 DEF SameTexts

\* memory_store: the row is added last, and so is its vector, in the index and
\* in the cache there is.
LEMMA StoreStep ==
    ASSUME IInv, NEW k \in Keys, NEW text \in Texts, NEW vf \in Starts,
           NEW embedded \in BOOLEAN, StoreCall(k, text, vf, embedded)
    PROVE  IInv'
<1> DEFINE e == [op |-> "store", key |-> k, text |-> text, updated |-> clock, vf |-> vf]
           put == ApplyEntry(table, log', Len(log'), text)
           id == Len(put)
<1>1. clock \in Nat /\ log \in Seq(EntryType) /\ Len(log) \in Nat
      /\ table \in Seq(TrueRow(log)) /\ Len(table) \in Nat
  BY DEF IInv, TypeOK
<1>2. e \in EntryType
  BY <1>1, RebuildAssumption DEF EntryType, Ticks
<1>3. /\ log' = Append(log, e) /\ Server \in up /\ todo[Server] = <<>>
      /\ table' = IF embedded THEN StoreEmbedding(put, Len(put), text) ELSE put
      /\ cache' = IF embedded /\ cache # NoCache
                  THEN [i \in DOMAIN cache \cup {id} |-> IF i = id THEN text ELSE cache[i]]
                  ELSE cache
      /\ UNCHANGED <<clock, unique, up, todo, kept, cut>> /\ had' = {}
  BY DEF StoreCall, Serving, CacheId
<1>4. e.op = "store" /\ e.text = text
  OBVIOUS
<1> HIDE DEF e
<1>5. /\ log' \in Seq(EntryType) /\ Len(log') \in 1..Len(log') /\ log'[Len(log')] = e
      /\ table \in Seq(TrueRow(log'))
  <2>1. TrueRow(log) \subseteq TrueRow(log')
    BY <1>1, <1>2, <1>3, TrueGrow
  <2>2. table \in Seq(TrueRow(log'))
    BY <1>1, <2>1, SeqMonotonic
  <2> QED
    BY <1>1, <1>2, <1>3, <2>2
<1>6. /\ put \in Seq(TrueRow(log')) /\ SameTexts(table, put)
      /\ Len(put) > Len(table) /\ put[Len(put)].text = text
  BY <1>4, <1>5, ApplyTrue
<1> HIDE DEF put
<1>7. Len(put) \in Nat /\ Len(put) \in 1..Len(put)
  BY <1>1, <1>6
<1>9. /\ table' \in Seq(TrueRow(log')) /\ SameTexts(put, table') /\ Len(table') = Len(put)
  <2>1. CASE embedded
    BY <1>3, <1>5, <1>6, <1>7, <2>1, EmbedTrue
  <2>2. CASE ~embedded
    BY <1>3, <1>6, <1>7, <2>2 DEF SameTexts
  <2> QED
    BY <2>1, <2>2
<1>10. SameTexts(table, table')
  BY <1>1, <1>6, <1>7, <1>9 DEF SameTexts
<1>11. cache' = NoCache \/ (Server \in up /\ ToSet(cache') \subseteq Texts)
  BY <1>3 DEF IInv, TypeOK, ToSet
<1>12. ~Together => CacheTrue'
  <2> SUFFICES ASSUME ~Together, cache' # NoCache, NEW i \in DOMAIN cache'
               PROVE  i \in 1..Len(table') /\ cache'[i] = table'[i].text
    BY <1>3 DEF CacheTrue
  <2>1. CASE i \in DOMAIN cache /\ cache'[i] = cache[i] /\ cache # NoCache
    BY <1>9, <1>10, <2>1, CacheGrows
  <2>2. CASE i = id /\ cache'[i] = text
    BY <1>6, <1>7, <1>9, <2>2 DEF SameTexts
  <2> QED
    BY <1>3, <2>1, <2>2
<1> QED
  BY <1>2, <1>3, <1>9, <1>10, <1>11, <1>12, CallGrows

\* memory_forget.
LEMMA ForgetStep ==
    ASSUME IInv, NEW k \in Keys, ForgetCall(k)
    PROVE  IInv'
<1> DEFINE e == [op |-> "delete", key |-> k, text |-> NoVector,
                 updated |-> clock, vf |-> Zero]
<1>1. clock \in Nat /\ log \in Seq(EntryType) /\ Len(log) \in Nat
      /\ table \in Seq(TrueRow(log)) /\ Len(table) \in Nat
  BY DEF IInv, TypeOK
<1>2. e \in EntryType
  BY <1>1 DEF EntryType, Ticks, Zero
<1>3. /\ log' = Append(log, e)
      /\ table' = ApplyEntry(table, log', Len(log'), NoVector)
      /\ UNCHANGED <<clock, unique, up, todo, kept, cache, cut>> /\ had' = {}
  BY DEF ForgetCall
<1>8. e.op = "delete"
  OBVIOUS
<1> HIDE DEF e
<1>4. /\ log' \in Seq(EntryType) /\ Len(log') \in 1..Len(log')
      /\ log'[Len(log')] = e /\ table \in Seq(TrueRow(log'))
  <2>1. TrueRow(log) \subseteq TrueRow(log')
    BY <1>1, <1>2, <1>3, TrueGrow
  <2>2. table \in Seq(TrueRow(log'))
    BY <1>1, <2>1, SeqMonotonic
  <2> QED
    BY <1>1, <1>2, <1>3, <2>2
<1>5. table' \in Seq(TrueRow(log')) /\ SameTexts(table, table')
  BY <1>3, <1>4, <1>8, ApplyTrue
<1>6. cache' = NoCache \/ (Server \in up /\ ToSet(cache') \subseteq Texts)
  BY <1>3 DEF IInv, TypeOK
<1>7. ~Together => CacheTrue'
  <2> SUFFICES ASSUME ~Together, cache # NoCache
               PROVE  CacheTrue'
    BY <1>3 DEF CacheTrue
  <2>1. \A i \in DOMAIN cache : i \in 1..Len(table') /\ cache[i] = table'[i].text
    BY <1>5, CacheGrows
  <2> QED
    BY <1>3, <2>1 DEF IInv, CacheTrue
<1> QED
  BY <1>2, <1>3, <1>5, <1>6, <1>7, CallGrows

\* The first search by meaning fills the cache from the index.
LEMMA SearchStep ==
    ASSUME IInv, SearchCall
    PROVE  IInv'
<1>1. /\ log \in Seq(EntryType) /\ table \in Seq(TrueRow(log)) /\ Len(table) \in Nat
      /\ DOMAIN table = 1..Len(table)
      /\ \A i \in 1..Len(table) : table[i] \in TrueRow(log)
  BY DEF IInv, TypeOK
<1>2. /\ UNCHANGED <<clock, log, unique, table, up, todo, kept, cut, had>>
      /\ Server \in up /\ todo[Server] = <<>>
      /\ cache' = LoadEmbeddings(table, Zero, Zero, clock)
  BY DEF SearchCall, Serving
<1>3. ASSUME NEW i \in DOMAIN cache'
      PROVE  /\ i \in 1..Len(table) /\ cache'[i] \in Texts
             /\ cache'[i] = table[i].text
  <2>1. i \in 1..Len(table) /\ cache'[i] = table[i].emb /\ table[i].emb # NoVector
    BY <1>1, <1>2, <1>3 DEF LoadEmbeddings, SelectedIds
  <2> QED
    BY <1>1, <2>1, RowFields
<1>4. ToSet(cache') \subseteq Texts
  BY <1>3 DEF ToSet
<1>5. TypeOK' /\ (~Together => CacheTrue')
  BY <1>2, <1>3, <1>4 DEF IInv, TypeOK, CacheTrue
<1> QED
  BY <1>2, <1>5 DEF IInv

\* Every step keeps the invariant.
LEMMA NextIInv == IInv /\ [Next]_vars => IInv'
<1> SUFFICES ASSUME IInv, [Next]_vars
             PROVE  IInv'
  OBVIOUS
<1>1. CASE UNCHANGED vars
  BY <1>1 DEF vars, IInv, TypeOK, CacheTrue
<1>2. CASE Tick
  BY <1>2 DEF Tick, IInv, TypeOK, CacheTrue
<1>3. ASSUME NEW p \in Procs, Open(p) \/ Exit(p)
      PROVE  IInv'
  BY <1>3, UpStep
<1>4. ASSUME NEW p \in Procs, Look(p) \/ DropUnique(p)
      PROVE  IInv'
  BY <1>4, OpeningStep
<1>5. ASSUME NEW p \in Procs,
             Snapshot(p) \/ Reset(p) \/ ReadLog(p) \/ Apply(p) \/ Restore(p)
      PROVE  IInv'
  BY <1>5, RescanStep, FillStep
<1>6. ASSUME NEW k \in Keys, NEW text \in Texts, NEW vf \in Starts,
             NEW embedded \in BOOLEAN, StoreCall(k, text, vf, embedded)
      PROVE  IInv'
  BY <1>6, StoreStep
<1>7. ASSUME NEW k \in Keys, ForgetCall(k)
      PROVE  IInv'
  BY <1>7, ForgetStep
<1>8. CASE SearchCall
  BY <1>8, SearchStep
<1> QED
  BY <1>1, <1>2, <1>3, <1>4, <1>5, <1>6, <1>7, <1>8 DEF Next

\* IInv in every reachable state.
THEOREM Invariance == Spec => []IInv
  BY InitIInv, NextIInv, PTL DEF Spec

\* Log, rows, vectors put aside and the cache keep their types, whether other
\* rescans run beside the process that serves or not.
THEOREM TypeCorrect == Spec => []TypeOK
<1>1. IInv => TypeOK
  BY DEF IInv
<1> QED
  BY <1>1, Invariance, PTL

-----------------------------------------------------------------------------
(* Vectors.                                                                 *)

\* The index's part of VectorsTrue.
IndexVectors ==
    \A i \in DOMAIN table : table[i].emb \in {NoVector, table[i].text}

LEMMA IInvIndex == IInv => IndexVectors
<1> SUFFICES ASSUME IInv, NEW i \in DOMAIN table
             PROVE  table[i].emb \in {NoVector, table[i].text}
  BY DEF IndexVectors
<1>1. table[i] \in TrueRow(log)
  BY DEF IInv, TypeOK
<1> QED
  BY <1>1 DEF TrueRow

\* A row of the index has no vector or that of its text, even when rescans run
\* beside each other and are cut anywhere: what is put aside carries its text.
THEOREM IndexVectorsAlways == Spec => []IndexVectors
  BY IInvIndex, Invariance, PTL

\* With one process at a time the cache is as true as the index: a rescan gives
\* ids again, but only before its process serves.
THEOREM VectorsTrueAlways ==
    ASSUME ~Together
    PROVE  Spec => []VectorsTrue
<1>1. IInv => VectorsTrue
  <2> SUFFICES ASSUME IInv, NEW i \in DOMAIN table
               PROVE  /\ table[i].emb \in {NoVector, table[i].text}
                      /\ i \in DOMAIN cache => cache[i] \in {NoVector, table[i].text}
    BY DEF VectorsTrue
  <2>1. table[i].emb \in {NoVector, table[i].text}
    BY IInvIndex DEF IndexVectors
  <2>2. CASE cache = NoCache
    BY <2>1, <2>2 DEF NoCache
  <2>3. CASE cache # NoCache
    <3>1. i \in DOMAIN cache => cache[i] = table[i].text
      BY <2>3 DEF IInv, CacheTrue
    <3> QED
      BY <2>1, <3>1
  <2> QED
    BY <2>2, <2>3
<1> QED
  BY <1>1, Invariance, PTL

-----------------------------------------------------------------------------
(* Vectors given back.  Where a rescan stands can be read off the first step *)
(* left; that needs the order in which steps follow each other.              *)

Follows ==
    {<<"drop", "snapshot">>, <<"snapshot", "reset">>, <<"reset", "read">>,
     <<"read", "snapshot">>, <<"apply", "apply">>, <<"apply", "restore">>,
     <<"restore", "snapshot">>}

Chained(s) == \A i \in 1..(Len(s) - 1) : << s[i].do, s[i + 1].do >> \in Follows

EndsWell(s) == s # <<>> => s[Len(s)].do \in {"look", "drop", "read", "restore"}

\* The vectors are out of the index: put aside, or given back but for the end.
Rescanning(s) == s # <<>> /\ s[1].do \in {"reset", "read", "apply", "restore"}

\* A rescan that is under way has all there was put aside ...
Covered ==
    \A p \in Procs : Rescanning(todo[p]) =>
        \A x \in had : \E v \in kept[p] : v.key = x.key /\ v.text = x.text

\* ... and one that has ended gave it back.
GivenBack ==
    \A i \in DOMAIN table :
        [key |-> table[i].key, text |-> table[i].text] \in had
            => table[i].emb # NoVector

KInv ==
    /\ \A p \in Procs : Chained(todo[p]) /\ EndsWell(todo[p])
    /\ Covered
    /\ ~cut /\ (\A p \in Procs : ~Rescanning(todo[p])) => GivenBack

\* What follows a step.
LEMMA ChainedTail ==
    ASSUME NEW S, NEW s \in Seq(S), s # <<>>, Chained(s), EndsWell(s)
    PROVE  /\ Chained(Tail(s)) /\ EndsWell(Tail(s)) /\ Head(s) = s[1]
           /\ Tail(s) # <<>> => << s[1].do, Tail(s)[1].do >> \in Follows
           /\ Tail(s) = <<>> => s[1].do \in {"look", "drop", "read", "restore"}
<1> DEFINE t == Tail(s)
<1>1. /\ t \in Seq(S) /\ Len(s) \in Nat \ {0} /\ Len(t) = Len(s) - 1 /\ Head(s) = s[1]
      /\ \A i \in 1..Len(t) : t[i] = s[i + 1]
  BY HeadTailProperties, EmptySeq
<1> HIDE DEF t
<1>2. (t = <<>> => Len(t) = 0) /\ (t # <<>> => Len(t) \in Nat \ {0})
  BY <1>1, EmptySeq
<1>3. Chained(t)
  <2> SUFFICES ASSUME NEW i \in 1..(Len(t) - 1)
               PROVE  << t[i].do, t[i + 1].do >> \in Follows
    BY DEF Chained
  <2> DEFINE j == i + 1
  <2>1. j \in 1..(Len(s) - 1) /\ i \in 1..Len(t) /\ j \in 1..Len(t)
    BY <1>1
  <2> HIDE DEF j
  <2>2. t[i] = s[j] /\ t[j] = s[j + 1]
    BY <1>1, <2>1 DEF j
  <2>3. << s[j].do, s[j + 1].do >> \in Follows
    BY <2>1 DEF Chained
  <2> QED
    BY <2>2, <2>3 DEF j
<1>4. EndsWell(t)
  <2> SUFFICES ASSUME t # <<>>
               PROVE  t[Len(t)].do \in {"look", "drop", "read", "restore"}
    BY DEF EndsWell
  <2>1. Len(t) \in 1..Len(t) /\ Len(t) + 1 = Len(s)
    BY <1>1, <1>2
  <2>2. t[Len(t)] = s[Len(s)]
    BY <1>1, <2>1
  <2> QED
    BY <2>2 DEF EndsWell
<1>5. ASSUME t # <<>> PROVE << s[1].do, t[1].do >> \in Follows
  <2>1. 1 \in 1..Len(t) /\ 1 \in 1..(Len(s) - 1)
    BY <1>1, <1>2, <1>5
  <2>2. t[1] = s[1 + 1]
    BY <1>1, <2>1
  <2>3. << s[1].do, s[1 + 1].do >> \in Follows
    BY <2>1 DEF Chained
  <2> QED
    BY <2>2, <2>3
<1>6. ASSUME t = <<>> PROVE s[1].do \in {"look", "drop", "read", "restore"}
  <2>1. Len(s) = 1
    BY <1>1, <1>2, <1>6
  <2> QED
    BY <2>1 DEF EndsWell
<1> QED
  BY <1>1, <1>3, <1>4, <1>5, <1>6 DEF t

\* Steps after steps.
LEMMA ChainedJoin ==
    ASSUME NEW S, NEW s \in Seq(S), NEW t \in Seq(S), Chained(s), Chained(t), EndsWell(t),
           t # <<>> \/ EndsWell(s),
           s # <<>> /\ t # <<>> => << s[Len(s)].do, t[1].do >> \in Follows
    PROVE  Chained(s \o t) /\ EndsWell(s \o t)
<1> DEFINE R == s \o t
<1>1. /\ Len(s) \in Nat /\ Len(t) \in Nat /\ Len(R) = Len(s) + Len(t)
      /\ \A i \in 1..Len(s) : R[i] = s[i]
      /\ \A i \in 1..Len(t) : R[Len(s) + i] = t[i]
      /\ s # <<>> <=> Len(s) # 0
      /\ t # <<>> <=> Len(t) # 0
      /\ R # <<>> <=> Len(R) # 0
  OBVIOUS
<1> HIDE DEF R
<1>2. ASSUME NEW i \in 1..(Len(R) - 1)
      PROVE  << R[i].do, R[i + 1].do >> \in Follows
  <2>1. CASE i < Len(s)
    BY <1>1, <2>1 DEF Chained
  <2>2. CASE i = Len(s)
    BY <1>1, <2>2
  <2>3. CASE i > Len(s)
    <3> DEFINE j == i - Len(s)
    <3>1. j \in 1..(Len(t) - 1) /\ R[i] = t[j] /\ R[i + 1] = t[j + 1]
      <4>1. j \in 1..(Len(t) - 1) /\ i = Len(s) + j /\ i + 1 = Len(s) + (j + 1)
        BY <1>1, <2>3
      <4> HIDE DEF j
      <4> QED
        BY <1>1, <4>1
    <3> HIDE DEF j
    <3> QED
      BY <3>1 DEF Chained
  <2> QED
    BY <1>1, <2>1, <2>2, <2>3
<1>3. EndsWell(R)
  BY <1>1 DEF EndsWell
<1> QED
  BY <1>2, <1>3 DEF Chained, R

\* A rescan cut short is seen to have been under way.
LEMMA RescanningSeen ==
    ASSUME NEW S, NEW s \in Seq(S), Chained(s), EndsWell(s), Rescanning(s)
    PROVE  \E i \in DOMAIN s : s[i].do \in {"snapshot", "reset", "read", "restore"}
<1>1. Len(s) \in Nat \ {0} /\ DOMAIN s = 1..Len(s) /\ s # <<>>
  BY EmptySeq DEF Rescanning
<1>2. CASE Len(s) = 1
  BY <1>1, <1>2 DEF Rescanning, EndsWell
<1>3. CASE Len(s) # 1
  <2> DEFINE n == Len(s) - 1
  <2>1. n \in 1..(Len(s) - 1) /\ n + 1 = Len(s)
    BY <1>1, <1>3
  <2>2. << s[n].do, s[Len(s)].do >> \in Follows
    BY <2>1 DEF Chained
  <2>3. s[Len(s)].do \in {"read", "restore"}
    BY <1>1, <2>2 DEF Follows, EndsWell
  <2> QED
    BY <1>1, <2>3
<1> QED
  BY <1>2, <1>3

\* A process with steps left is alone.
LEMMA Alone ==
    ASSUME IInv, ~Together, NEW p \in up, NEW q \in Procs, q # p
    PROVE  todo[q] = <<>>
  BY DEF IInv, TypeOK

\* KInv after a step of a process with steps left, from what is left.
LEMMA KeptAdvance ==
    ASSUME IInv, KInv, ~Together, NEW p \in Procs, todo[p] # <<>>,
           NEW rest, todo' = [todo EXCEPT ![p] = rest],
           Chained(rest), EndsWell(rest),
           Rescanning(rest) =>
               \A x \in had' : \E v \in kept'[p] : v.key = x.key /\ v.text = x.text,
           ~cut' /\ ~Rescanning(rest) => GivenBack'
    PROVE  KInv'
<1>1. p \in up /\ todo \in [Procs -> Seq(Doable(log))]
  BY Busy DEF IInv
<1>2. todo'[p] = rest /\ \A q \in Procs \ {p} : todo'[q] = todo[q] /\ todo'[q] = <<>>
  BY <1>1, Alone
<1>3. \A q \in Procs : Chained(todo'[q]) /\ EndsWell(todo'[q])
  BY <1>2 DEF KInv
<1>4. \A q \in Procs \ {p} : ~Rescanning(todo'[q])
  BY <1>2 DEF Rescanning
<1>5. Covered'
  BY <1>2, <1>4 DEF Covered
<1>6. ~cut' /\ (\A q \in Procs : ~Rescanning(todo'[q])) => GivenBack'
  BY <1>2
<1> QED
  BY <1>3, <1>5, <1>6 DEF KInv

\* What is left after a step.
LEMMA KeptRest ==
    ASSUME IInv, KInv, NEW p \in Procs, NEW do, At(p, do)
    PROVE  LET rest == Tail(todo[p])
           IN  /\ todo[p] # <<>> /\ rest \in Seq(Doable(log))
               /\ todo[p][1].do = do
               /\ Chained(rest) /\ EndsWell(rest)
               /\ rest # <<>> => << do, rest[1].do >> \in Follows
               /\ rest = <<>> => do \in {"look", "drop", "read", "restore"}
<1>1. todo[p] \in Seq(Doable(log)) /\ todo[p] # <<>> /\ Head(todo[p]).do = do
      /\ Tail(todo[p]) \in Seq(Doable(log))
  BY Rest DEF IInv
<1>2. Chained(todo[p]) /\ EndsWell(todo[p])
  BY DEF KInv
<1> QED
  BY <1>1, <1>2, ChainedTail

\* A rescan's steps, and those of the process that looks.
LEMMA LookChained ==
    ASSUME NEW l, NEW p
    PROVE  /\ Chained(AfterLook(p)) /\ EndsWell(AfterLook(p))
           /\ ~Rescanning(AfterLook(p))
<1> DEFINE S == [do : {"drop", "snapshot", "reset", "read"}, line : {0}]
           a == IF unique THEN Rescan ELSE <<>>
           b == IF p = Tool THEN Rescan ELSE <<>>
           d == << Step("drop") >>
<1>1. d \in Seq(S) /\ Rescan \in Seq(S) /\ <<>> \in Seq(S)
  BY DEF Step, Entry, Rescan
<1>2. /\ Len(d) = 1 /\ d[1].do = "drop" /\ d # <<>>
      /\ Len(Rescan) = 3 /\ Rescan # <<>>
      /\ Rescan[1].do = "snapshot" /\ Rescan[2].do = "reset" /\ Rescan[3].do = "read"
  BY DEF Step, Entry, Rescan
<1>3. Chained(d) /\ EndsWell(d)
  BY <1>2 DEF Chained, EndsWell
<1>4. Chained(Rescan) /\ EndsWell(Rescan)
  <2>1. \A i \in 1..2 : i = 1 \/ i = 2
    OBVIOUS
  <2> QED
    BY <1>2, <2>1 DEF Chained, EndsWell, Follows
<1>5. Chained(<<>>) /\ EndsWell(<<>>)
  BY DEF Chained, EndsWell
<1>6. Chained(a) /\ EndsWell(a) /\ a \in Seq(S) /\ a \in {<<>>, Rescan}
  BY <1>1, <1>4, <1>5
<1>7. Chained(b) /\ EndsWell(b) /\ b \in Seq(S) /\ b \in {<<>>, Rescan}
  BY <1>1, <1>4, <1>5
<1> HIDE DEF a, b, d
<1> DEFINE e == d \o a
<1>8. Chained(e) /\ EndsWell(e) /\ e \in Seq(S)
  <2>1. a # <<>> => << d[Len(d)].do, a[1].do >> \in Follows
    BY <1>2, <1>6 DEF Follows
  <2> QED
    BY <1>1, <1>3, <1>6, <2>1, ChainedJoin
<1>9. /\ e # <<>> /\ e[1].do = "drop" /\ e[Len(e)].do \in {"drop", "read"}
      /\ Len(e) \in Nat \ {0}
  <2>1. CASE a = <<>>
    <3>1. e = d
      BY <1>1, <2>1, ConcatEmptySeq
    <3> QED
      BY <1>2, <3>1
  <2>2. CASE a = Rescan
    <3>0. /\ Len(d \o Rescan) = Len(d) + Len(Rescan)
          /\ \A i \in 1..Len(d) : (d \o Rescan)[i] = d[i]
          /\ \A i \in 1..Len(Rescan) : (d \o Rescan)[Len(d) + i] = Rescan[i]
      BY ONLY <1>1, Concatenated
    <3>1. /\ Len(e) = 1 + 3
          /\ \A i \in 1..1 : e[i] = d[i]
          /\ \A i \in 1..3 : e[1 + i] = Rescan[i]
      BY <1>2, <2>2, <3>0
    <3>2. 1 \in 1..1 /\ 3 \in 1..3 /\ 1 + 3 = 4
      OBVIOUS
    <3>3. Len(e) = 4 /\ e[1] = d[1] /\ e[4] = Rescan[3]
      BY <3>1, <3>2
    <3>4. e # <<>>
      BY <3>3
    <3> HIDE DEF e
    <3> QED
      BY <1>2, <3>3, <3>4
  <2> QED
    BY <1>6, <2>1, <2>2
<1> HIDE DEF e
<1> DEFINE f == e \o b
<1>10. Chained(f) /\ EndsWell(f)
  <2>1. b # <<>> => << e[Len(e)].do, b[1].do >> \in Follows
    BY <1>2, <1>7, <1>9 DEF Follows
  <2> QED
    BY <1>7, <1>8, <2>1, ChainedJoin
<1>11. f[1].do = "drop"
  BY <1>7, <1>8, <1>9, ConcatProperties
<1>12. AfterLook(p) = f
  BY DEF AfterLook, f, e, d, a, b
<1> QED
  BY <1>10, <1>11, <1>12 DEF Rescanning

\* The steps of a rescan that has read the log.
LEMMA ReadChained ==
    ASSUME NEW l \in Seq(EntryType), NEW t \in Seq(Doable(l)), Chained(t), EndsWell(t),
           t # <<>> => t[1].do = "snapshot"
    PROVE  LET rest == [i \in DOMAIN l |-> Entry("apply", i)] \o << Step("restore") >> \o t
           IN  Chained(rest) /\ EndsWell(rest) /\ Rescanning(rest)
<1> DEFINE S == Doable(l)
           a == [i \in DOMAIN l |-> Entry("apply", i)]
           r == << Step("restore") >>
           g == a \o r
           rest == g \o t
<1>1. /\ Len(l) \in Nat /\ a \in Seq(S) /\ Len(a) = Len(l)
      /\ \A i \in 1..Len(l) : a[i].do = "apply"
  <2>1. Len(l) \in Nat /\ DOMAIN l = 1..Len(l)
    OBVIOUS
  <2>2. \A i \in 1..Len(l) : Entry("apply", i) \in S /\ Entry("apply", i).do = "apply"
    BY <2>1 DEF Entry, Doable
  <2> QED
    BY <2>1, <2>2
<1>2. r \in Seq(S) /\ Len(r) = 1 /\ r[1].do = "restore" /\ r # <<>>
  BY DEF Step, Entry, Doable
<1> HIDE DEF a, r, S
<1>3. Chained(a)
  BY <1>1 DEF Chained, Follows
<1>4. Chained(r) /\ EndsWell(r)
  BY <1>2 DEF Chained, EndsWell
<1>5. a # <<>> => << a[Len(a)].do, r[1].do >> \in Follows
  <2>1. a # <<>> => Len(a) \in 1..Len(l)
    BY <1>1, EmptySeq
  <2> QED
    BY <1>1, <1>2, <2>1 DEF Follows
<1>6. Chained(g) /\ EndsWell(g)
  BY <1>1, <1>2, <1>3, <1>4, <1>5, ChainedJoin
<1>7. /\ g \in Seq(S) /\ Len(g) = Len(l) + 1 /\ g[Len(g)].do = "restore"
      /\ g[1].do \in {"apply", "restore"}
  <2>1. /\ g \in Seq(S) /\ Len(g) = Len(l) + 1
        /\ \A i \in 1..Len(l) : g[i] = a[i]
        /\ \A i \in 1..1 : g[Len(l) + i] = r[i]
    <3>1. /\ a \o r \in Seq(S) /\ Len(a \o r) = Len(a) + Len(r)
          /\ \A i \in 1..Len(a) : (a \o r)[i] = a[i]
          /\ \A i \in 1..Len(r) : (a \o r)[Len(a) + i] = r[i]
      <4>1. a \in Seq(S) /\ r \in Seq(S)
        BY <1>1, <1>2
      <4>2. a \o r \in Seq(S) /\ Len(a \o r) = Len(a) + Len(r)
        BY <4>1, Concatenated, Zenon
      <4>3. \A i \in 1..Len(a) : (a \o r)[i] = a[i]
        BY <4>1, Concatenated, Zenon
      <4>4. \A i \in 1..Len(r) : (a \o r)[Len(a) + i] = r[i]
        BY ONLY <4>1, ConcatProperties, LenProperties
      <4> QED
        BY <4>2, <4>3, <4>4
    <3> QED
      BY <1>1, <1>2, <3>1
  <2>2. 1 \in 1..1
    OBVIOUS
  <2>3. g[Len(g)] = r[1]
    BY <2>1, <2>2
  <2> HIDE DEF g
  <2>4. Len(l) # 0 => g[1] = a[1] /\ 1 \in 1..Len(l)
    BY <1>1, <2>1
  <2>5. Len(l) = 0 => g[1] = r[1]
    BY <2>1, <2>3
  <2> QED
    BY <1>1, <1>2, <2>1, <2>3, <2>4, <2>5
<1> HIDE DEF g
<1>8. Chained(rest) /\ EndsWell(rest)
  <2>1. t # <<>> => << g[Len(g)].do, t[1].do >> \in Follows
    BY <1>7 DEF Follows
  <2>2. t # <<>> \/ EndsWell(g)
    BY <1>6
  <2>3. t \in Seq(S)
    BY DEF S
  <2> QED
    BY <1>6, <1>7, <2>1, <2>2, <2>3, ChainedJoin
<1>9. Rescanning(rest)
  <2>1. t \in Seq(S) /\ Len(t) \in Nat
    BY DEF S
  <2>2. Len(rest) = Len(g) + Len(t) /\ rest[1] = g[1]
    <3>1. Len(g) \in Nat /\ 1 \in 1..Len(g)
      BY <1>1, <1>7
    <3>2. Len(g \o t) = Len(g) + Len(t)
      BY <1>7, <2>1, Concatenated, ZenonT(60)
    <3>3. \A i \in 1..Len(g) : (g \o t)[i] = g[i]
      BY <1>7, <2>1, Concatenated, ZenonT(60)
    <3> QED
      BY <3>1, <3>2, <3>3
  <2>3. rest # <<>>
    BY <1>1, <1>7, <2>1, <2>2
  <2> QED
    BY <1>7, <2>2, <2>3 DEF Rescanning
<1> QED
  BY <1>8, <1>9 DEF g, a, r

\* Opening.
LEMMA KeptOpening ==
    ASSUME IInv, KInv, ~Together, NEW p \in Procs, Look(p) \/ DropUnique(p)
    PROVE  KInv'
<1>1. CASE Look(p)
  <2>1. todo[p] # <<>> /\ todo[p][1].do = "look"
    BY <1>1, KeptRest DEF Look
  <2>2. p \in up /\ \A q \in Procs \ {p} : todo[q] = <<>>
    BY <2>1, Busy, Alone
  <2>3. ~cut => GivenBack
    BY <2>1, <2>2 DEF KInv, Rescanning
  <2>4. GivenBack' <=> GivenBack
    BY <1>1 DEF Look, GivenBack
  <2> QED
    BY <1>1, <2>1, <2>3, <2>4, LookChained, KeptAdvance DEF Look
<1>2. CASE DropUnique(p)
  <2> DEFINE rest == Tail(todo[p])
  <2>1. /\ todo[p] # <<>> /\ todo[p][1].do = "drop" /\ Chained(rest) /\ EndsWell(rest)
        /\ rest # <<>> => << "drop", rest[1].do >> \in Follows
    BY <1>2, KeptRest DEF DropUnique
  <2>2. p \in up /\ \A q \in Procs \ {p} : todo[q] = <<>>
    BY <2>1, Busy, Alone
  <2>3. ~cut => GivenBack
    BY <2>1, <2>2 DEF KInv, Rescanning
  <2>4. GivenBack' <=> GivenBack
    BY <1>2 DEF DropUnique, GivenBack
  <2>5. ~Rescanning(rest)
    BY <2>1 DEF Rescanning, Follows
  <2>6. todo' = [todo EXCEPT ![p] = rest]
    BY <1>2 DEF DropUnique
  <2> HIDE DEF rest
  <2> QED
    BY <1>2, <2>1, <2>3, <2>4, <2>5, <2>6, KeptAdvance DEF DropUnique
<1> QED
  BY <1>1, <1>2

\* A rescan under way: what is put aside stays so.
LEMMA KeptRescan ==
    ASSUME IInv, KInv, ~Together, NEW p \in Procs,
           Snapshot(p) \/ Reset(p) \/ ReadLog(p) \/ Apply(p)
    PROVE  KInv'
<1> DEFINE rest == Tail(todo[p])
           covered(H, K) == \A x \in H : \E v \in K : v.key = x.key /\ v.text = x.text
<1>1. CASE Snapshot(p)
  <2>1. /\ todo[p] # <<>> /\ Chained(rest) /\ EndsWell(rest) /\ Rescanning(rest)
    <3>1. /\ todo[p] # <<>> /\ Chained(rest) /\ EndsWell(rest) /\ rest # <<>>
          /\ << "snapshot", rest[1].do >> \in Follows
      BY <1>1, KeptRest DEF Snapshot
    <3> QED
      BY <3>1 DEF Rescanning, Follows
  <2>2. covered(had', kept'[p])
    <3>1. kept'[p] = SnapshotEmbeddings(table)
      BY <1>1 DEF Snapshot, IInv
    <3>2. ASSUME NEW x \in had'
          PROVE  \E v \in kept'[p] : v.key = x.key /\ v.text = x.text
      <4>1. PICK r \in ToSet(table) : r.emb # NoVector /\ x = [key |-> r.key, text |-> r.emb]
        BY <1>1 DEF Snapshot
      <4>2. r \in TrueRow(log)
        BY DEF IInv, TypeOK, ToSet
      <4>4. r.emb = r.text
        BY <4>1, <4>2, RowFields
      <4> DEFINE v == [key |-> r.key, text |-> r.text, emb |-> r.emb]
      <4>5. v \in kept'[p]
        BY <3>1, <4>1 DEF SnapshotEmbeddings
      <4>6. v.key = x.key /\ v.text = x.text
        BY <4>1, <4>4
      <4> QED
        BY <4>5, <4>6
    <3> QED
      BY <3>2
  <2>3. todo' = [todo EXCEPT ![p] = rest]
    BY <1>1 DEF Snapshot
  <2> HIDE DEF rest
  <2> QED
    BY <2>1, <2>2, <2>3, KeptAdvance
<1>2. ASSUME Rescanning(todo[p]), UNCHANGED <<had, kept>>
      PROVE  covered(had', kept'[p])
  BY <1>2 DEF KInv, Covered
<1>3. CASE Reset(p)
  <2>1. /\ todo[p] # <<>> /\ Chained(rest) /\ EndsWell(rest) /\ Rescanning(rest)
        /\ Rescanning(todo[p])
    <3>1. /\ todo[p] # <<>> /\ Chained(rest) /\ EndsWell(rest) /\ rest # <<>>
          /\ todo[p][1].do = "reset" /\ << "reset", rest[1].do >> \in Follows
      BY <1>3, KeptRest DEF Reset
    <3> QED
      BY <3>1 DEF Rescanning, Follows
  <2>2. todo' = [todo EXCEPT ![p] = rest] /\ UNCHANGED <<had, kept>>
    BY <1>3 DEF Reset
  <2>3. covered(had', kept'[p])
    BY <1>2, <2>1, <2>2
  <2> HIDE DEF rest
  <2> QED
    BY <2>1, <2>2, <2>3, KeptAdvance
<1>4. CASE ReadLog(p)
  <2> DEFINE all == [i \in DOMAIN log |-> Entry("apply", i)] \o << Step("restore") >> \o rest
  <2>1. /\ todo[p] # <<>> /\ Chained(rest) /\ EndsWell(rest) /\ rest \in Seq(Doable(log))
        /\ rest # <<>> => rest[1].do = "snapshot"
        /\ Rescanning(todo[p])
    <3>1. /\ todo[p] # <<>> /\ Chained(rest) /\ EndsWell(rest) /\ rest \in Seq(Doable(log))
          /\ todo[p][1].do = "read" /\ (rest # <<>> => << "read", rest[1].do >> \in Follows)
      BY <1>4, KeptRest DEF ReadLog
    <3> QED
      BY <3>1 DEF Rescanning, Follows
  <2>2. todo' = [todo EXCEPT ![p] = all] /\ UNCHANGED <<had, kept>>
    BY <1>4 DEF ReadLog
  <2>3. covered(had', kept'[p])
    BY <1>2, <2>1, <2>2
  <2> HIDE DEF rest
  <2>4. Chained(all) /\ EndsWell(all) /\ Rescanning(all)
    <3>1. log \in Seq(EntryType)
      BY DEF IInv, TypeOK
    <3> QED
      BY <2>1, <3>1, ReadChained
  <2> HIDE DEF all
  <2> QED
    BY <2>1, <2>2, <2>3, <2>4, KeptAdvance
<1>5. CASE Apply(p)
  <2>1. /\ todo[p] # <<>> /\ Chained(rest) /\ EndsWell(rest) /\ Rescanning(rest)
        /\ Rescanning(todo[p])
    <3>1. /\ todo[p] # <<>> /\ Chained(rest) /\ EndsWell(rest) /\ rest # <<>>
          /\ todo[p][1].do = "apply" /\ << "apply", rest[1].do >> \in Follows
      BY <1>5, KeptRest DEF Apply
    <3> QED
      BY <3>1 DEF Rescanning, Follows
  <2>2. todo' = [todo EXCEPT ![p] = rest] /\ UNCHANGED <<had, kept>>
    BY <1>5 DEF Apply
  <2>3. covered(had', kept'[p])
    BY <1>2, <2>1, <2>2
  <2> HIDE DEF rest
  <2> QED
    BY <2>1, <2>2, <2>3, KeptAdvance
<1> QED
  BY <1>1, <1>3, <1>4, <1>5

\* The end of a rescan: a row of a key and text that had a vector finds one
\* put aside.
LEMMA KeptRestore ==
    ASSUME IInv, KInv, ~Together, NEW p \in Procs, Restore(p)
    PROVE  KInv'
<1> DEFINE rest == Tail(todo[p])
           R == RestoreEmbeddings(table, kept[p])
           found(i) == {v \in kept[p] : v.key = table[i].key /\ v.text = table[i].text}
<1>1. /\ todo[p] # <<>> /\ Chained(rest) /\ EndsWell(rest) /\ todo[p][1].do = "restore"
      /\ rest # <<>> => << "restore", rest[1].do >> \in Follows
  BY KeptRest DEF Restore
<1>2. ~Rescanning(rest) /\ Rescanning(todo[p])
  BY <1>1 DEF Rescanning, Follows
<1>3. /\ todo' = [todo EXCEPT ![p] = rest] /\ table' = R /\ UNCHANGED <<log, had>>
  BY DEF Restore
<1>4. /\ DOMAIN table = 1..Len(table) /\ Len(table) \in Nat
      /\ \A i \in 1..Len(table) : table[i] \in RowType(Keys, {})
      /\ kept[p] \subseteq KeptVectors
  BY DEF IInv, TypeOK
<1>5. \A x \in had : \E v \in kept[p] : v.key = x.key /\ v.text = x.text
  BY <1>2 DEF KInv, Covered
<1>6. ASSUME NEW i \in DOMAIN table
      PROVE  /\ R[i].key = table[i].key /\ R[i].text = table[i].text
             /\ found(i) # {} => R[i].emb # NoVector
  <2>1. DOMAIN table[i] = DOMAIN [table[i] EXCEPT !.emb = 0] /\ table[i] \in RowType(Keys, {})
    BY <1>4
  <2>2. \/ R[i] = table[i] /\ (table[i].emb # NoVector \/ found(i) = {})
        \/ /\ found(i) # {}
           /\ R[i] = [table[i] EXCEPT !.emb = (CHOOSE v \in found(i) : TRUE).emb]
    BY DEF RestoreEmbeddings
  <2>3. ASSUME found(i) # {}
        PROVE  (CHOOSE v \in found(i) : TRUE).emb # NoVector
    <3> DEFINE v == CHOOSE v \in found(i) : TRUE
    <3>1. v \in found(i)
      BY <2>3
    <3> HIDE DEF v
    <3>2. v \in KeptVectors
      BY <1>4, <3>1
    <3>3. v.emb # NoVector
      BY <3>2, RebuildAssumption DEF KeptVectors
    <3> QED
      BY <3>3 DEF v
  <2> HIDE DEF R, found
  <2> QED
    BY <2>1, <2>2, <2>3 DEF RowType
<1>7. GivenBack'
  <2> SUFFICES ASSUME NEW i \in DOMAIN R,
                      [key |-> R[i].key, text |-> R[i].text] \in had
               PROVE  R[i].emb # NoVector
    BY <1>3 DEF GivenBack
  <2>1. i \in DOMAIN table
    BY DEF RestoreEmbeddings
  <2>2. R[i].key = table[i].key /\ R[i].text = table[i].text
    BY <1>6, <2>1
  <2> DEFINE x == [key |-> table[i].key, text |-> table[i].text]
  <2>3. x \in had /\ x.key = table[i].key /\ x.text = table[i].text
    BY <2>2
  <2>4. found(i) # {}
    BY <1>5, <2>3
  <2> QED
    BY <1>6, <2>1, <2>4
<1> HIDE DEF rest, R
<1> QED
  BY <1>1, <1>2, <1>3, <1>7, KeptAdvance

\* A process comes up or ends: a rescan it was in is cut short.
LEMMA KeptUp ==
    ASSUME IInv, KInv, ~Together, NEW p \in Procs, Open(p) \/ Exit(p)
    PROVE  KInv'
<1>0. todo \in [Procs -> Seq(Doable(log))]
  BY DEF IInv
<1>1. CASE Open(p)
  <2> DEFINE s == << Step("look") >>
  <2>1. up = {} /\ \A q \in Procs : todo[q] = <<>>
    BY <1>1 DEF Open, IInv, TypeOK
  <2>2. Chained(s) /\ EndsWell(s) /\ ~Rescanning(s)
    BY DEF Chained, EndsWell, Rescanning, Step, Entry
  <2>3. Chained(<<>>) /\ EndsWell(<<>>) /\ ~Rescanning(<<>>)
    BY DEF Chained, EndsWell, Rescanning
  <2>4. \A q \in Procs : todo'[q] \in {s, <<>>}
    BY <1>0, <1>1, <2>1 DEF Open
  <2>5. GivenBack' <=> GivenBack
    BY <1>1 DEF Open, GivenBack
  <2>6. cut' = cut
    BY <1>1 DEF Open
  <2>7. ~cut => GivenBack
    BY <2>1, <2>3 DEF KInv
  <2> HIDE DEF s
  <2>8. \A q \in Procs : Chained(todo'[q]) /\ EndsWell(todo'[q]) /\ ~Rescanning(todo'[q])
    BY <2>2, <2>3, <2>4
  <2> QED
    BY <2>5, <2>6, <2>7, <2>8 DEF KInv, Covered
<1>2. CASE Exit(p)
  <2>1. p \in up /\ \A q \in Procs \ {p} : todo[q] = <<>>
    BY <1>2, Alone DEF Exit
  <2>2. \A q \in Procs : todo'[q] = <<>>
    BY <1>0, <1>2, <2>1 DEF Exit
  <2>3. Chained(<<>>) /\ EndsWell(<<>>) /\ ~Rescanning(<<>>)
    BY DEF Chained, EndsWell, Rescanning
  <2>4. \A q \in Procs : Chained(todo'[q]) /\ EndsWell(todo'[q]) /\ ~Rescanning(todo'[q])
    BY <2>2, <2>3
  <2>5. ~cut' => GivenBack'
    <3> SUFFICES ASSUME ~cut'
                 PROVE  GivenBack'
      OBVIOUS
    <3>1. ~cut /\ ~InRebuild(p)
      BY <1>2 DEF Exit
    <3>2. ~Rescanning(todo[p])
      BY <1>0, <3>1, RescanningSeen DEF InRebuild, KInv
    <3>3. \A q \in Procs : ~Rescanning(todo[q])
      BY <2>1, <2>3, <3>2
    <3>4. GivenBack
      BY <3>1, <3>3 DEF KInv
    <3> QED
      BY <1>2, <3>4 DEF Exit, GivenBack
  <2> QED
    BY <2>4, <2>5 DEF KInv, Covered
<1> QED
  BY <1>1, <1>2

\* Every step keeps KInv where IInv holds.
LEMMA NextKInv ==
    ASSUME ~Together
    PROVE  IInv /\ KInv /\ [Next]_vars => KInv'
<1> SUFFICES ASSUME IInv, KInv, [Next]_vars
             PROVE  KInv'
  OBVIOUS
<1>1. CASE UNCHANGED <<log, table, todo, kept, cut, had>>
  BY <1>1 DEF KInv, Covered, GivenBack
<1>2. ASSUME UNCHANGED todo, had' = {}
      PROVE  KInv'
  BY <1>2 DEF KInv, Covered, GivenBack
<1>3. CASE UNCHANGED vars \/ Tick \/ SearchCall
  BY <1>1, <1>3 DEF vars, Tick, SearchCall
<1>4. ASSUME NEW p \in Procs, Open(p) \/ Exit(p)
      PROVE  KInv'
  BY <1>4, KeptUp
<1>5. ASSUME NEW p \in Procs, Look(p) \/ DropUnique(p)
      PROVE  KInv'
  BY <1>5, KeptOpening
<1>6. ASSUME NEW p \in Procs, Snapshot(p) \/ Reset(p) \/ ReadLog(p) \/ Apply(p)
      PROVE  KInv'
  BY <1>6, KeptRescan
<1>7. ASSUME NEW p \in Procs, Restore(p)
      PROVE  KInv'
  BY <1>7, KeptRestore
<1>8. ASSUME NEW k \in Keys, NEW text \in Texts, NEW vf \in Starts,
             NEW embedded \in BOOLEAN, StoreCall(k, text, vf, embedded)
      PROVE  KInv'
  <2>1. UNCHANGED todo /\ had' = {}
    BY <1>8 DEF StoreCall
  <2> QED
    BY <1>2, <2>1
<1>9. ASSUME NEW k \in Keys, ForgetCall(k)
      PROVE  KInv'
  <2>1. UNCHANGED todo /\ had' = {}
    BY <1>9 DEF ForgetCall
  <2> QED
    BY <1>2, <2>1
<1> QED
  BY <1>3, <1>4, <1>5, <1>6, <1>7, <1>8, <1>9 DEF Next

\* Whatever the log and the index a rescan found, and whatever the log gives back
\* for a text: once a process serves and no rescan was cut short since, every row
\* of a key and text that had a vector has one.
THEOREM VectorsKeptAlways ==
    ASSUME ~Together
    PROVE  Spec => []VectorsKept
<1>1. Init => KInv
  <2>1. Chained(<<>>) /\ EndsWell(<<>>) /\ ~Rescanning(<<>>)
    BY DEF Chained, EndsWell, Rescanning
  <2> QED
    BY <2>1 DEF Init, KInv, Covered, GivenBack
<1>2. IInv /\ KInv => VectorsKept
  <2> SUFFICES ASSUME IInv, KInv, Serving, ~cut
               PROVE  GivenBack
    BY DEF VectorsKept, GivenBack
  <2>1. Server \in up /\ todo[Server] = <<>>
    BY DEF Serving
  <2>2. \A q \in Procs : todo[q] = <<>>
    BY <2>1, Alone
  <2>3. \A q \in Procs : ~Rescanning(todo[q])
    BY <2>2 DEF Rescanning
  <2> QED
    BY <2>3 DEF KInv
<1>3. IInv /\ KInv /\ [Next]_vars => KInv'
  BY NextKInv
<1> QED
  BY <1>1, <1>2, <1>3, Invariance, PTL DEF Spec

-----------------------------------------------------------------------------
(* The table without ids and vectors: the rows of Bitemporal.               *)

Bare(r) ==
    [key |-> r.key, line |-> r.line, tags |-> r.tags, ttl |-> r.ttl, updated |-> r.updated,
     vf |-> r.vf, vt |-> r.vt, tf |-> r.tf, tt |-> r.tt, deleted |-> r.deleted]

Bared(rows) == {Bare(r) : r \in rows}

\* A finite set put in some order is all there.
LEMMA SeqOfAll ==
    ASSUME NEW S, IsFiniteSet(S)
    PROVE  ToSet(SetToSeq(S)) = S
<1> DEFINE n == Cardinality(S)
           f == SetToSeq(S)
<1>1. n \in Nat
  BY FS_CardinalityType
<1>2. PICK g \in Bijection(1..n, S) : TRUE
  BY FS_CardinalityType DEF ExistsBijection
<1>3. g \in [1..n -> S] /\ IsInjective(g)
  BY <1>2 DEF Bijection, Injection
<1>4. f \in [1..n -> S] /\ IsInjective(f)
  BY <1>3 DEF SetToSeq
<1> HIDE DEF f
<1>5. f \in Injection(1..n, S)
  BY <1>4 DEF Injection
<1>6. Cardinality(1..n) = n
  BY <1>1, FS_Interval
<1>7. f \in Surjection(1..n, S)
  BY <1>5, <1>6, FS_Injection
<1>8. {f[i] : i \in 1..n} = S
  BY <1>4, <1>7 DEF Surjection
<1> QED
  BY <1>4, <1>8 DEF ToSet, f

\* The rows of one sequence, another and a last element.
LEMMA JoinedRows ==
    ASSUME NEW S, NEW a \in Seq(S), NEW b \in Seq(S), NEW x \in S
    PROVE  ToSet(a \o b \o << x >>) = ToSet(a) \cup ToSet(b) \cup {x}
<1> DEFINE ab == a \o b
           R == Append(ab, x)
<1>1. /\ ab \in Seq(S) /\ Len(ab) = Len(a) + Len(b)
      /\ Len(a) \in Nat /\ Len(b) \in Nat
      /\ DOMAIN a = 1..Len(a) /\ DOMAIN b = 1..Len(b)
      /\ \A i \in 1..Len(a) : ab[i] = a[i]
      /\ \A i \in 1..Len(b) : ab[Len(a) + i] = b[i]
  OBVIOUS
<1>2. ToSet(ab) = ToSet(a) \cup ToSet(b)
  <2>1. DOMAIN ab = 1..(Len(a) + Len(b))
    BY <1>1
  <2>2. \A i \in 1..(Len(a) + Len(b)) :
           i \in 1..Len(a) \/ (i - Len(a) \in 1..Len(b) /\ i = Len(a) + (i - Len(a)))
    BY <1>1
  <2>3. /\ \A i \in 1..Len(a) : i \in 1..(Len(a) + Len(b))
        /\ \A i \in 1..Len(b) : Len(a) + i \in 1..(Len(a) + Len(b))
    BY <1>1
  <2> HIDE DEF ab
  <2>4. ASSUME NEW y \in ToSet(ab) PROVE y \in ToSet(a) \cup ToSet(b)
    <3>1. PICK i \in 1..(Len(a) + Len(b)) : y = ab[i]
      BY <2>1, <2>4 DEF ToSet
    <3>2. CASE i \in 1..Len(a)
      BY <1>1, <3>1, <3>2 DEF ToSet
    <3>3. CASE i \notin 1..Len(a)
      <4>1. i - Len(a) \in 1..Len(b) /\ ab[Len(a) + (i - Len(a))] = b[i - Len(a)]
        BY <1>1, <2>2, <3>3
      <4> QED
        BY <1>1, <2>2, <3>1, <3>3, <4>1 DEF ToSet
    <3> QED
      BY <3>2, <3>3
  <2>5. ASSUME NEW y \in ToSet(a) PROVE y \in ToSet(ab)
    BY <1>1, <2>1, <2>3, <2>5 DEF ToSet
  <2>6. ASSUME NEW y \in ToSet(b) PROVE y \in ToSet(ab)
    <3>1. PICK i \in 1..Len(b) : y = b[i]
      BY <1>1, <2>6 DEF ToSet
    <3> QED
      BY <1>1, <2>1, <2>3, <3>1 DEF ToSet
  <2> QED
    BY <2>4, <2>5, <2>6
<1> HIDE DEF ab
<1>3. /\ DOMAIN R = 1..(Len(ab) + 1) /\ Len(ab) \in Nat /\ DOMAIN ab = 1..Len(ab)
      /\ \A i \in 1..Len(ab) : R[i] = ab[i]
      /\ R[Len(ab) + 1] = x
  BY <1>1
<1>4. ToSet(R) = ToSet(ab) \cup {x}
  <2>1. \A i \in 1..(Len(ab) + 1) : i \in 1..Len(ab) \/ i = Len(ab) + 1
    BY <1>3
  <2>2. /\ \A i \in 1..Len(ab) : i \in 1..(Len(ab) + 1)
        /\ Len(ab) + 1 \in 1..(Len(ab) + 1)
    BY <1>3
  <2> HIDE DEF R
  <2> QED
    BY <1>3, <2>1, <2>2 DEF ToSet
<1>5. ab \o << x >> = R
  BY <1>1, AppendIsConcat
<1> QED
  BY <1>2, <1>4, <1>5 DEF ab

\* A row cut is, bare, what Bitemporal says.
LEMMA BareCopy ==
    ASSUME NEW r \in RowType(Keys, {}), NEW x, NEW y, NEW now
    PROVE  Bare(Copy(r, x, y, now)) = Copy(Bare(r), x, y, now)
<1> DEFINE c == Copy(r, x, y, now)
<1>1. Bare(c) = Copy(Bare(r), x, y, now)
  <2>1. /\ c.key = r.key /\ c.line = r.line /\ c.tags = r.tags /\ c.ttl = r.ttl
        /\ c.updated = r.updated /\ c.vf = Sec(x) /\ c.vt = Sec(y)
        /\ c.tf = Sec(now) /\ c.tt = Zero /\ c.deleted = Zero
    BY DEF Copy, RowType
  <2>2. Copy(Bare(r), x, y, now) \in
          [key : {r.key}, line : {r.line}, tags : {r.tags}, ttl : {r.ttl},
           updated : {r.updated}, vf : {Sec(x)}, vt : {Sec(y)},
           tf : {Sec(now)}, tt : {Zero}, deleted : {Zero}]
    BY DEF Copy, Bare
  <2>3. Copy(Bare(r), x, y, now) =
          [key |-> r.key, line |-> r.line, tags |-> r.tags, ttl |-> r.ttl,
           updated |-> r.updated, vf |-> Sec(x), vt |-> Sec(y),
           tf |-> Sec(now), tt |-> Zero, deleted |-> Zero]
    BY <2>2
  <2> HIDE DEF c
  <2> QED
    BY <2>1, <2>3 DEF Bare
<1> QED
  BY <1>1

\* So is one closed or forgotten is, bare, what Bitemporal says.
LEMMA BareFields ==
    ASSUME NEW r \in RowType(Keys, {}), NEW x, NEW y, NEW now
    PROVE  /\ Bare(Close(r, now)) = Close(Bare(r), now)
           /\ Bare([r EXCEPT !.emb = x]) = Bare(r)
           /\ Bare([r EXCEPT !.deleted = x, !.tt = x])
                = [Bare(r) EXCEPT !.deleted = x, !.tt = x]
           /\ Bare(r).key = r.key /\ Bare(r).line = r.line /\ Bare(r).tf = r.tf
           /\ Bare(r).vf = r.vf /\ Bare(r).vt = r.vt
           /\ Believed(Bare(r)) <=> Believed(r)
           /\ \A m : Covers(Bare(r), m) <=> Covers(r, m)
           /\ \A t : BelievedAt(Bare(r), t) <=> BelievedAt(r, t)
<1> DEFINE d == Close(r, now)
           e == [r EXCEPT !.emb = x]
           g == [r EXCEPT !.deleted = x, !.tt = x]
           u == [Bare(r) EXCEPT !.deleted = x, !.tt = x]
<1>2. Bare(d) = Close(Bare(r), now)
  <2>1. /\ d.key = r.key /\ d.line = r.line /\ d.tags = r.tags /\ d.ttl = r.ttl
        /\ d.updated = r.updated /\ d.vf = r.vf /\ d.vt = r.vt
        /\ d.tf = r.tf /\ d.tt = Sec(now) /\ d.deleted = r.deleted
    BY DEF Close, RowType
  <2>2. Close(Bare(r), now) =
          [key |-> r.key, line |-> r.line, tags |-> r.tags, ttl |-> r.ttl,
           updated |-> r.updated, vf |-> r.vf, vt |-> r.vt,
           tf |-> r.tf, tt |-> Sec(now), deleted |-> r.deleted]
    BY DEF Close, Bare
  <2> HIDE DEF d
  <2> QED
    BY <2>1, <2>2 DEF Bare
<1>3. Bare(e) = Bare(r)
  <2>1. /\ e.key = r.key /\ e.line = r.line /\ e.tags = r.tags /\ e.ttl = r.ttl
        /\ e.updated = r.updated /\ e.vf = r.vf /\ e.vt = r.vt
        /\ e.tf = r.tf /\ e.tt = r.tt /\ e.deleted = r.deleted
    BY DEF RowType
  <2> HIDE DEF e
  <2> QED
    BY <2>1 DEF Bare
<1>4. Bare(g) = u
  <2>1. /\ g.key = r.key /\ g.line = r.line /\ g.tags = r.tags /\ g.ttl = r.ttl
        /\ g.updated = r.updated /\ g.vf = r.vf /\ g.vt = r.vt
        /\ g.tf = r.tf /\ g.tt = x /\ g.deleted = x
    BY DEF RowType
  <2>2. u \in
          [key : {r.key}, line : {r.line}, tags : {r.tags}, ttl : {r.ttl},
           updated : {r.updated}, vf : {r.vf}, vt : {r.vt},
           tf : {r.tf}, tt : {x}, deleted : {x}]
    BY DEF Bare
  <2> HIDE DEF u
  <2>3. u =
          [key |-> r.key, line |-> r.line, tags |-> r.tags, ttl |-> r.ttl,
           updated |-> r.updated, vf |-> r.vf, vt |-> r.vt,
           tf |-> r.tf, tt |-> x, deleted |-> x]
    BY <2>2
  <2> HIDE DEF g
  <2> QED
    BY <2>1, <2>3 DEF Bare
<1>5. Bare(r).key = r.key /\ Bare(r).line = r.line /\ Bare(r).tf = r.tf
      /\ Bare(r).vf = r.vf /\ Bare(r).vt = r.vt /\ Bare(r).tt = r.tt
      /\ Bare(r).deleted = r.deleted
  BY DEF Bare
<1> HIDE DEF d, e, g, u
<1> QED
  BY <1>2, <1>3, <1>4, <1>5 DEF Believed, Covers, BelievedAt, d, e, g, u

\* The rows a call cuts, and what it leaves of them.
LEMMA BareCut ==
    ASSUME NEW rows \in SUBSET RowType(Keys, {}), NEW f
    PROVE  /\ Bared(Cut(rows, f)) = Cut(Bared(rows), f)
           /\ \A r \in rows : r \in Cut(rows, f) <=> Bare(r) \in Cut(Bared(rows), f)
           /\ Bared(Before(rows, f)) = Before(Bared(rows), f)
           /\ Bared(After(rows, f)) = After(Bared(rows), f)
<1> DEFINE C == Cut(rows, f)
           D == Cut(Bared(rows), f)
           E(x) == Bare(x)
<1>1. ASSUME NEW r \in rows
      PROVE  /\ r \in C <=> Bare(r) \in D
             /\ Bare(r).vf = r.vf /\ Bare(r).vt = r.vt
             /\ \A x, y : Bare(Copy(r, x, y, f.updated)) = Copy(Bare(r), x, y, f.updated)
  <2>1. r \in RowType(Keys, {})
    OBVIOUS
  <2>2. /\ Bare(r).key = r.key /\ Bare(r).vf = r.vf /\ Bare(r).vt = r.vt
        /\ Believed(Bare(r)) <=> Believed(r)
    BY <2>1, BareFields
  <2>3. ASSUME NEW x, NEW y
        PROVE  Bare(Copy(r, x, y, f.updated)) = Copy(Bare(r), x, y, f.updated)
    BY <2>1, BareCopy
  <2>4. Bare(r) \in Bared(rows)
    BY DEF Bared
  <2>5. r \in C <=> Bare(r) \in D
    BY <2>2, <2>4 DEF Cut
  <2> QED
    BY <2>2, <2>3, <2>5
<1>2. C \subseteq rows /\ \A q \in D : \E r \in C : q = Bare(r)
  <2>1. C \subseteq rows /\ D \subseteq Bared(rows)
    BY DEF Cut
  <2> HIDE DEF C, D
  <2>2. ASSUME NEW q \in D PROVE \E r \in C : q = Bare(r)
    <3>1. PICK r \in rows : q = Bare(r)
      BY <2>1, <2>2 DEF Bared
    <3> QED
      BY <1>1, <3>1
  <2> QED
    BY <2>1, <2>2
<1>3. Bared(Before(rows, f)) = Before(Bared(rows), f)
  <2> DEFINE X == Before(rows, f)
             Y == Before(Bared(rows), f)
             Cond(q) == q.vf = Zero \/ q.vf < ValidFrom(f)
             Part(p) == Copy(p, p.vf, ValidFrom(f), f.updated)
  <2>1. /\ \A w : w \in X <=> \E p \in C : Cond(p) /\ w = Part(p)
        /\ \A w : w \in Y <=> \E p \in D : Cond(p) /\ w = Part(p)
    BY DEF Before
  <2>2. \A r \in C : /\ Bare(r) \in D /\ (Cond(r) <=> Cond(Bare(r)))
                     /\ Bare(Part(r)) = Part(Bare(r))
    <3> HIDE DEF C, D
    <3> QED
      BY <1>1, <1>2
  <2> HIDE DEF X, Y, C, D, Cond, Part
  <2>3. ASSUME NEW w \in X PROVE Bare(w) \in Y
    BY <2>1, <2>2
  <2>4. ASSUME NEW q \in Y PROVE \E w \in X : q = Bare(w)
    <3>1. PICK p \in D : Cond(p) /\ q = Part(p)
      BY <2>1
    <3>2. PICK r \in C : p = Bare(r)
      BY <1>2
    <3> QED
      BY <2>1, <2>2, <3>1, <3>2
  <2>5. Bared(X) = Y
    BY <2>3, <2>4 DEF Bared
  <2> QED
    BY <2>5 DEF X, Y
<1>4. Bared(After(rows, f)) = After(Bared(rows), f)
  <2> DEFINE X == After(rows, f)
             Y == After(Bared(rows), f)
             Cond(q) == f.vt # Zero /\ (q.vt = Zero \/ q.vt > f.vt)
             Part(p) == Copy(p, f.vt, p.vt, f.updated)
  <2>1. /\ \A w : w \in X <=> \E p \in C : Cond(p) /\ w = Part(p)
        /\ \A w : w \in Y <=> \E p \in D : Cond(p) /\ w = Part(p)
    BY DEF After
  <2>2. \A r \in C : /\ Bare(r) \in D /\ (Cond(r) <=> Cond(Bare(r)))
                     /\ Bare(Part(r)) = Part(Bare(r))
    <3> HIDE DEF C, D
    <3> QED
      BY <1>1, <1>2
  <2> HIDE DEF X, Y, C, D, Cond, Part
  <2>3. ASSUME NEW w \in X PROVE Bare(w) \in Y
    BY <2>1, <2>2
  <2>4. ASSUME NEW q \in Y PROVE \E w \in X : q = Bare(w)
    <3>1. PICK p \in D : Cond(p) /\ q = Part(p)
      BY <2>1
    <3>2. PICK r \in C : p = Bare(r)
      BY <1>2
    <3> QED
      BY <2>1, <2>2, <3>1, <3>2
  <2>5. Bared(X) = Y
    BY <2>3, <2>4 DEF Bared
  <2> QED
    BY <2>5 DEF X, Y
<1>5. Bared(C) = D
  <2> HIDE DEF C, D
  <2> QED
    BY <1>1, <1>2 DEF Bared
<1> QED
  BY <1>1, <1>3, <1>4, <1>5

\* The rows of a sequence are as many at most as its places.
LEMMA RowsFinite ==
    ASSUME NEW T, NEW t \in Seq(T)
    PROVE  IsFiniteSet(ToSet(t)) /\ ToSet(t) \subseteq T /\ DOMAIN t = 1..Len(t) /\ Len(t) \in Nat
<1>1. DOMAIN t = 1..Len(t) /\ Len(t) \in Nat /\ \A i \in 1..Len(t) : t[i] \in T
  OBVIOUS
<1>2. IsFiniteSet(DOMAIN t)
  BY <1>1, FS_Interval
<1> QED
  BY <1>1, <1>2, FiniteImage DEF ToSet

\* Put on rows with ids and vectors is Put, whatever order the pieces come in.
THEOREM PutRowPut ==
    ASSUME NEW t \in Seq(RowType(Keys, {})), NEW f, NEW y
    PROVE  Bared(ToSet(PutRow(t, f, y))) = Put(Bared(ToSet(t)), f)
<1> DEFINE rows == ToSet(t)
           pieces == Before(rows, f) \cup After(rows, f)
           C == Cut(rows, f)
           D == Cut(Bared(rows), f)
           a == [i \in DOMAIN t |-> IF t[i] \in C THEN Close(t[i], f.updated) ELSE t[i]]
           b == SetToSeq(pieces)
           x == NewRow(f, y)
           S == (ToSet(a) \cup pieces) \cup {x}
<1>1. /\ IsFiniteSet(rows) /\ rows \subseteq RowType(Keys, {})
      /\ DOMAIN t = 1..Len(t) /\ Len(t) \in Nat
  BY RowsFinite
<1>2. IsFiniteSet(pieces)
  BY <1>1, PiecesFinite
<1>3. ToSet(b) = pieces /\ b \in Seq(pieces)
  <2> HIDE DEF pieces
  <2> QED
    BY <1>2, SeqOfAll, SeqOfSet
<1>4. a \in Seq(S) /\ b \in Seq(S) /\ x \in S
  <2>1. DOMAIN a = 1..Len(t) /\ \A i \in 1..Len(t) : a[i] \in S
    BY <1>1 DEF ToSet
  <2>2. a = [i \in 1..Len(t) |-> a[i]]
    BY <1>1
  <2> HIDE DEF a, S
  <2>3. a \in Seq(S)
    BY <1>1, <2>1, <2>2
  <2>4. pieces \subseteq S /\ x \in S
    BY DEF S
  <2> HIDE DEF pieces, b
  <2> QED
    BY <1>3, <2>3, <2>4
<1>5. PutRow(t, f, y) = a \o b \o << x >>
  BY DEF PutRow
<1>6. ToSet(PutRow(t, f, y)) = (ToSet(a) \cup pieces) \cup {x}
  <2> HIDE DEF a, b, x, pieces, S
  <2> QED
    BY <1>3, <1>4, <1>5, JoinedRows
<1>7. /\ Bared(C) = D
      /\ \A r \in rows : r \in C <=> Bare(r) \in D
      /\ Bared(Before(rows, f)) = Before(Bared(rows), f)
      /\ Bared(After(rows, f)) = After(Bared(rows), f)
  BY <1>1, BareCut
<1>8. Bared(pieces) = Before(Bared(rows), f) \cup After(Bared(rows), f)
  BY <1>7 DEF Bared
<1>9. Bare(x) = NewVersion(f)
  BY DEF Bare, NewRow, NewVersion
<1>10. ASSUME NEW r \in rows
       PROVE  Bare(Close(r, f.updated)) = Close(Bare(r), f.updated)
  BY <1>1, BareFields
<1>11. Bared(ToSet(a)) = (Bared(rows) \ D) \cup {Close(p, f.updated) : p \in D}
  <2> DEFINE X == ToSet(a)
             Y == (Bared(rows) \ D) \cup {Close(p, f.updated) : p \in D}
  <2>1. \A r : r \in rows <=> \E i \in DOMAIN t : r = t[i]
    BY DEF ToSet
  <2>2. \A w : w \in X <=> \E r \in rows : w = IF r \in C THEN Close(r, f.updated) ELSE r
    BY <2>1 DEF ToSet
  <2>3. \A q : q \in Bared(rows) <=> \E r \in rows : q = Bare(r)
    BY DEF Bared
  <2>4. D \subseteq Bared(rows)
    BY DEF Cut
  <2>5. \A q : q \in Y <=> \/ q \in Bared(rows) /\ q \notin D
                           \/ \E p \in D : q = Close(p, f.updated)
    OBVIOUS
  <2>6. \A q : q \in Bared(X) <=> \E w \in X : q = Bare(w)
    BY DEF Bared
  <2> HIDE DEF X, Y, C, D, rows
  <2>7. ASSUME NEW w \in X PROVE Bare(w) \in Y
    <3>1. PICK r \in rows : w = IF r \in C THEN Close(r, f.updated) ELSE r
      BY <2>2
    <3>2. CASE r \in C
      BY <1>7, <1>10, <2>5, <3>1, <3>2
    <3>3. CASE r \notin C
      BY <1>7, <2>3, <2>5, <3>1, <3>3
    <3> QED
      BY <3>2, <3>3
  <2>8. ASSUME NEW q \in Y PROVE \E w \in X : q = Bare(w)
    <3>1. CASE q \in Bared(rows) /\ q \notin D
      BY <1>7, <2>2, <2>3, <3>1
    <3>2. ASSUME NEW p \in D, q = Close(p, f.updated)
          PROVE  \E w \in X : q = Bare(w)
      <4>1. PICK r \in rows : p = Bare(r)
        BY <2>3, <2>4
      <4>2. r \in C
        BY <1>7, <4>1
      <4>3. Close(r, f.updated) \in X
        BY <2>2, <4>1, <4>2
      <4> QED
        BY <1>10, <3>2, <4>1, <4>3
    <3> QED
      BY <2>5, <3>1, <3>2
  <2>9. Bared(X) = Y
    BY <2>6, <2>7, <2>8
  <2> QED
    BY <2>9 DEF X, Y
<1>12. Bared(ToSet(PutRow(t, f, y))) = (Bared(ToSet(a)) \cup Bared(pieces)) \cup {Bare(x)}
  BY <1>6 DEF Bared
<1>13. Put(Bared(rows), f) =
          (((((Bared(rows) \ D) \cup {Close(p, f.updated) : p \in D})
             \cup Before(Bared(rows), f)) \cup After(Bared(rows), f)) \cup {NewVersion(f)})
  BY DEF Put
<1> HIDE DEF a, pieces, x
<1> QED
  BY <1>8, <1>9, <1>11, <1>12, <1>13

\* Forgetting where the rows are is DeleteByEntity.
LEMMA ForgetRowsForget ==
    ASSUME NEW t \in Seq(RowType(Keys, {})), NEW k, NEW at
    PROVE  Bared(ToSet(ForgetRows(t, k, at))) = DeleteByEntity(Bared(ToSet(t)), k, at)
<1> DEFINE rows == ToSet(t)
           R == ForgetRows(t, k, at)
           Hit(r) == r.key = k /\ Believed(r)
           Gone(r) == [r EXCEPT !.deleted = Sec(at), !.tt = Sec(at)]
           D == {q \in Bared(rows) : Hit(q)}
           Y == DeleteByEntity(Bared(rows), k, at)
           X == ToSet(R)
<1>1. rows \subseteq RowType(Keys, {}) /\ DOMAIN t = 1..Len(t)
  BY RowsFinite
<1>2. \A r : r \in rows <=> \E i \in DOMAIN t : r = t[i]
  BY DEF ToSet
<1>3. \A w : w \in X <=> \E r \in rows : w = IF Hit(r) THEN Gone(r) ELSE r
  <2>1. R = [i \in DOMAIN t |-> IF Hit(t[i]) THEN Gone(t[i]) ELSE t[i]]
    BY DEF ForgetRows
  <2>2. DOMAIN R = DOMAIN t /\ \A i \in DOMAIN t : R[i] = IF Hit(t[i]) THEN Gone(t[i]) ELSE t[i]
    BY <2>1
  <2> HIDE DEF R, Hit, Gone, rows
  <2> QED
    BY <1>2, <2>2 DEF ToSet
<1>4. \A q : q \in Y <=> \/ q \in Bared(rows) /\ q \notin D
                         \/ \E p \in D : q = Gone(p)
  BY DEF DeleteByEntity, Forget
<1>5. ASSUME NEW r \in rows
      PROVE  Bare(Gone(r)) = Gone(Bare(r)) /\ (Hit(Bare(r)) <=> Hit(r))
  BY <1>1, BareFields
<1>6. \A q : q \in Bared(rows) <=> \E r \in rows : q = Bare(r)
  BY DEF Bared
<1>7. \A q : q \in D <=> q \in Bared(rows) /\ Hit(q)
  OBVIOUS
<1>8. \A q : q \in Bared(X) <=> \E w \in X : q = Bare(w)
  BY DEF Bared
<1> HIDE DEF X, Y, D, Hit, Gone, rows
<1>9. ASSUME NEW w \in X PROVE Bare(w) \in Y
  <2>1. PICK r \in rows : w = IF Hit(r) THEN Gone(r) ELSE r
    BY <1>3
  <2> QED
    BY <1>4, <1>5, <1>6, <1>7, <2>1
<1>10. ASSUME NEW q \in Y PROVE \E w \in X : q = Bare(w)
  <2>1. CASE q \in Bared(rows) /\ q \notin D
    <3>1. PICK r \in rows : q = Bare(r)
      BY <1>6, <2>1
    <3> QED
      BY <1>3, <1>5, <1>7, <2>1, <3>1
  <2>2. ASSUME NEW p \in D, q = Gone(p)
        PROVE  \E w \in X : q = Bare(w)
    <3>1. PICK r \in rows : p = Bare(r)
      BY <1>6, <1>7
    <3>2. Hit(r)
      BY <1>5, <1>7, <3>1
    <3>3. Gone(r) \in X
      BY <1>3, <3>1, <3>2
    <3> QED
      BY <1>5, <2>2, <3>1, <3>3
  <2> QED
    BY <1>4, <2>1, <2>2
<1>11. Bared(X) = Y
  BY <1>8, <1>9, <1>10
<1> QED
  BY <1>11 DEF X, Y, rows

\* Vectors written or given back leave the bare rows.
SameBare(t, u) ==
    DOMAIN u = DOMAIN t /\ \A i \in DOMAIN t : Bare(u[i]) = Bare(t[i])

LEMMA SameBareRows ==
    ASSUME NEW t, NEW u, SameBare(t, u)
    PROVE  Bared(ToSet(u)) = Bared(ToSet(t))
  BY DEF SameBare, Bared, ToSet

LEMMA VectorsBare ==
    ASSUME NEW t \in Seq(RowType(Keys, {})), NEW j, NEW x, NEW given
    PROVE  /\ Bared(ToSet(StoreEmbedding(t, j, x))) = Bared(ToSet(t))
           /\ Bared(ToSet(RestoreEmbeddings(t, given))) = Bared(ToSet(t))
<1>1. DOMAIN t = 1..Len(t) /\ \A i \in DOMAIN t : t[i] \in RowType(Keys, {})
  OBVIOUS
<1>2. ASSUME NEW i \in DOMAIN t, NEW y
      PROVE  Bare([t[i] EXCEPT !.emb = y]) = Bare(t[i])
  BY <1>1, BareFields
<1>3. SameBare(t, StoreEmbedding(t, j, x))
  <2> DEFINE R == StoreEmbedding(t, j, x)
  <2>1. DOMAIN R = DOMAIN t
    BY DEF StoreEmbedding
  <2>2. ASSUME NEW i \in DOMAIN t PROVE R[i] = t[i] \/ R[i] = [t[i] EXCEPT !.emb = x]
    BY DEF StoreEmbedding
  <2> HIDE DEF R
  <2>3. ASSUME NEW i \in DOMAIN t PROVE Bare(R[i]) = Bare(t[i])
    BY <1>2, <2>2
  <2> QED
    BY <2>1, <2>3 DEF SameBare, R
<1>4. SameBare(t, RestoreEmbeddings(t, given))
  <2> DEFINE R == RestoreEmbeddings(t, given)
  <2>1. DOMAIN R = DOMAIN t
    BY DEF RestoreEmbeddings
  <2>2. ASSUME NEW i \in DOMAIN t PROVE R[i] = t[i] \/ \E y : R[i] = [t[i] EXCEPT !.emb = y]
    BY DEF RestoreEmbeddings
  <2> HIDE DEF R
  <2>3. ASSUME NEW i \in DOMAIN t PROVE Bare(R[i]) = Bare(t[i])
    BY <1>2, <2>2
  <2> QED
    BY <2>1, <2>3 DEF SameBare, R
<1> QED
  BY <1>3, <1>4, SameBareRows

\* What readers are told is a matter of bare rows.
LEMMA BareTold ==
    ASSUME NEW t \in Seq(RowType(Keys, {})), NEW k, NEW m, NEW s
    PROVE  /\ Belief(ToSet(t), k, m) = Belief(Bared(ToSet(t)), k, m)
           /\ ToldAt(ToSet(t), k, s, m) = ToldAt(Bared(ToSet(t)), k, s, m)
<1> DEFINE rows == ToSet(t)
<1>1. rows \subseteq RowType(Keys, {})
  BY RowsFinite
<1>2. ASSUME NEW r \in rows
      PROVE  /\ Bare(r).key = r.key /\ Bare(r).line = r.line /\ Bare(r).tf = r.tf
             /\ Believed(Bare(r)) <=> Believed(r)
             /\ Covers(Bare(r), m) <=> Covers(r, m)
             /\ BelievedAt(Bare(r), s) <=> BelievedAt(r, s)
  BY <1>1, BareFields
<1>3. \A q : q \in Bared(rows) <=> \E r \in rows : q = Bare(r)
  BY DEF Bared
<1> HIDE DEF rows
<1>4. Belief(rows, k, m) = Belief(Bared(rows), k, m)
  BY <1>2, <1>3 DEF Belief
<1>5. ToldAt(rows, k, s, m) = ToldAt(Bared(rows), k, s, m)
  BY <1>2, <1>3 DEF ToldAt, BeliefAt
<1> QED
  BY <1>4, <1>5 DEF rows

-----------------------------------------------------------------------------
(* The replay of a log, one entry after another.                            *)

\* The table that the first n entries of l make.
Upto(l, n) == FoldLeft(LAMBDA t, i : Replay(t, l, i), <<>>, [i \in 1..n |-> i])

\* The library folds over sets of places, the greatest last: h is its function
\* for the first n of the places o.
Folding(h, l, o, n) ==
    h = [s \in SUBSET (1..n) |->
            IF s = {} THEN <<>>
            ELSE Replay(h[s \ {Max(s)}], l, o[Max(s)])]

\* The greatest of the places up to n.
LEMMA GreatestPlace ==
    ASSUME NEW n \in Nat, NEW s \in SUBSET (1..n), n \in s
    PROVE  Max(s) = n
<1>1. \E x \in s : \A y \in s : x >= y
  OBVIOUS
<1>2. Max(s) \in s /\ \A y \in s : Max(s) >= y
  BY <1>1, Zenon DEF Max
<1>3. ASSUME NEW x \in s, \A y \in s : x >= y
      PROVE  x = n
  <2>1. x \in 1..n /\ x >= n
    BY <1>3
  <2> QED
    BY <2>1
<1> QED
  BY <1>2, <1>3, Zenon

\* There is such a function, built one entry after another.
LEMMA FoldingExists ==
    ASSUME NEW l, NEW o, NEW n \in Nat
    PROVE  \E h : Folding(h, l, o, n)
<1> DEFINE Bad == {j \in Nat : ~ \E h : Folding(h, l, o, j)}
<1> SUFFICES ASSUME Bad # {}
             PROVE  FALSE
  OBVIOUS
<1>1. PICK m \in Bad : \A j \in Bad : m <= j
  BY Least
<1>2. m # 0
  <2>1. SUBSET (1..0) = {{}}
    OBVIOUS
  <2> DEFINE h == [s \in SUBSET (1..0) |-> <<>>]
  <2>2. Folding(h, l, o, 0)
    BY <2>1 DEF Folding
  <2> QED
    BY <2>2
<1>3. m - 1 \in Nat /\ ~(m <= m - 1)
  BY <1>2
<1>4. PICK g : Folding(g, l, o, m - 1)
  BY <1>1, <1>3
<1> DEFINE Told(x, i) == Replay(x, l, o[i])
           h == [s \in SUBSET (1..m) |-> IF m \in s THEN Told(g[s \ {m}], m) ELSE g[s]]
<1>5. \A s \in SUBSET (1..m) : s \ {m} \in SUBSET (1..(m - 1))
  OBVIOUS
<1>6. \A s \in SUBSET (1..m) : m \notin s => s \in SUBSET (1..(m - 1)) /\ s \in SUBSET (1..m)
  OBVIOUS
<1>7. \A s \in SUBSET (1..(m - 1)) : m \notin s /\ s \in SUBSET (1..m)
  BY <1>3
<1>8. \A s \in SUBSET (1..(m - 1)) : g[s] = IF s = {} THEN <<>> ELSE Told(g[s \ {Max(s)}], Max(s))
  BY <1>4 DEF Folding
<1>9. ASSUME NEW s \in SUBSET (1..m)
      PROVE  h[s] = IF s = {} THEN <<>> ELSE Told(h[s \ {Max(s)}], Max(s))
  <2>1. CASE m \in s
    <3>1. Max(s) = m
      BY <1>1, <2>1, GreatestPlace
    <3>2. s \ {m} \in SUBSET (1..m) /\ m \notin s \ {m}
      OBVIOUS
    <3>3. h[s \ {m}] = g[s \ {m}]
      BY <3>2
    <3>4. h[s] = Told(g[s \ {m}], m) /\ s # {}
      BY <2>1
    <3> HIDE DEF h, Told
    <3> QED
      BY <3>1, <3>3, <3>4
  <2>2. CASE m \notin s
    <3>1. s \in SUBSET (1..(m - 1)) /\ s \ {Max(s)} \in SUBSET (1..(m - 1))
      BY <2>2, <1>6
    <3>2. h[s] = g[s] /\ h[s \ {Max(s)}] = g[s \ {Max(s)}]
      BY <1>7, <3>1
    <3> HIDE DEF h, Told
    <3> QED
      BY <1>8, <3>1, <3>2
  <2> QED
    BY <2>1, <2>2
<1>10. Folding(h, l, o, m)
  <2>1. h = [s \in SUBSET (1..m) |-> h[s]]
    OBVIOUS
  <2> DEFINE f == [s \in SUBSET (1..m) |->
                     IF s = {} THEN <<>> ELSE Told(h[s \ {Max(s)}], Max(s))]
  <2> HIDE DEF h
  <2>2. h = f
    BY <1>9, <2>1
  <2> QED
    BY <2>2 DEF Folding
<1> QED
  BY <1>10

Places(n) == [i \in 1..n |-> i]

\* The fold of the library is what it ends with.
LEMMA FoldEntries ==
    ASSUME NEW l, NEW n \in Nat
    PROVE  \E h : Folding(h, l, Places(n), n) /\ h[1..n] = Upto(l, n)
<1> DEFINE o == Places(n)
           x == CHOOSE h : Folding(h, l, o, n)
<1>1. Folding(x, l, o, n)
  BY FoldingExists
<1>2. DOMAIN o = 1..n
  BY DEF Places
<1>3. Upto(l, n) = FoldLeft(LAMBDA t, i : Replay(t, l, i), <<>>, o)
  BY DEF Upto, Places
<1> HIDE DEF o
<1>4. x[1..n] = FoldLeft(LAMBDA t, i : Replay(t, l, i), <<>>, o)
  BY <1>2 DEF FoldLeft, MapThenFoldSet, Folding
<1> QED
  BY <1>1, <1>3, <1>4 DEF o

\* What it computes for the first j entries.
LEMMA FoldingStep ==
    ASSUME NEW h, NEW l, NEW n \in Nat, Folding(h, l, Places(n), n)
    PROVE  /\ h[1..0] = <<>>
           /\ \A j \in 1..n : h[1..j] = Replay(h[1..(j - 1)], l, j)
<1> DEFINE o == Places(n)
<1>0. \A j \in 1..n : o[j] = j
  BY DEF Places
<1> HIDE DEF o
<1>1. \A s \in SUBSET (1..n) :
         h[s] = IF s = {} THEN <<>> ELSE Replay(h[s \ {Max(s)}], l, o[Max(s)])
  BY DEF Folding, o
<1>2. 1..0 = {} /\ 1..0 \in SUBSET (1..n)
  OBVIOUS
<1>3. ASSUME NEW j \in 1..n
      PROVE  h[1..j] = Replay(h[1..(j - 1)], l, j)
  <2>1. 1..j \in SUBSET (1..n) /\ 1..j # {} /\ j \in 1..j /\ (1..j) \ {j} = 1..(j - 1)
    OBVIOUS
  <2>2. Max(1..j) = j
    BY <2>1, GreatestPlace
  <2> QED
    BY <1>0, <1>1, <2>1, <2>2
<1> QED
  BY <1>1, <1>2, <1>3

\* Two logs agree up to the place n.
SameEntries(r, s, n) == \A i \in 1..n : r[i] = s[i]

\* g folds the first n entries of r, h the first m of s, which go on from those.
GoesOn(g, h, r, s, n, m) ==
    /\ n \in Nat /\ m \in Nat /\ n <= m
    /\ Folding(g, r, Places(n), n)
    /\ Folding(h, s, Places(m), m)
    /\ SameEntries(r, s, n)

\* The rows two logs make agree as far as the logs do.
LEMMA FoldingsAgree ==
    ASSUME NEW g, NEW h, NEW r, NEW s, NEW n, NEW m, GoesOn(g, h, r, s, n, m)
    PROVE  g[1..n] = h[1..n]
<1> USE DEF GoesOn
<1> DEFINE Bad == {j \in 0..n : g[1..j] # h[1..j]}
<1> SUFFICES ASSUME Bad # {}
             PROVE  FALSE
  OBVIOUS
<1>0. Bad \in SUBSET Nat
  OBVIOUS
<1>1. PICK j \in Bad : \A i \in Bad : j <= i
  BY <1>0, Least, Zenon
<1>2. j # 0
  BY FoldingStep
<1>3. j \in 1..n /\ j \in 1..m /\ j - 1 \in 0..n /\ ~(j <= j - 1)
  BY <1>2
<1>4. g[1..(j - 1)] = h[1..(j - 1)]
  BY <1>1, <1>3
<1>5. /\ g[1..j] = Replay(g[1..(j - 1)], r, j)
      /\ h[1..j] = Replay(h[1..(j - 1)], s, j)
  BY <1>3, FoldingStep
<1>6. r[j] = s[j]
  BY <1>3 DEF SameEntries
<1>7. \A t : Replay(t, r, j) = Replay(t, s, j)
  BY <1>6 DEF Replay, ApplyEntry
<1> QED
  BY <1>4, <1>5, <1>7

\* No entry, no rows; one entry more applies it; what comes later does not matter.
LEMMA UptoNone == \A l : Upto(l, 0) = <<>>
<1> SUFFICES ASSUME NEW l
             PROVE  Upto(l, 0) = <<>>
  OBVIOUS
<1>1. PICK h : Folding(h, l, Places(0), 0) /\ h[1..0] = Upto(l, 0)
  BY FoldEntries
<1> QED
  BY <1>1, FoldingStep

LEMMA UptoNext ==
    ASSUME NEW l, NEW n \in Nat \ {0}
    PROVE  Upto(l, n) = Replay(Upto(l, n - 1), l, n)
<1> DEFINE m == n - 1
<1>1. m \in Nat /\ n \in Nat /\ m <= n /\ n \in 1..n
  OBVIOUS
<1> HIDE DEF m
<1>2. PICK h : Folding(h, l, Places(m), m) /\ h[1..m] = Upto(l, m)
  BY <1>1, FoldEntries
<1>3. PICK g : Folding(g, l, Places(n), n) /\ g[1..n] = Upto(l, n)
  BY <1>1, FoldEntries
<1>4. GoesOn(h, g, l, l, m, n)
  BY <1>1, <1>2, <1>3 DEF GoesOn, SameEntries
<1>5. h[1..m] = g[1..m]
  BY ONLY <1>4, FoldingsAgree
<1>6. g[1..n] = Replay(g[1..(n - 1)], l, n)
  BY <1>1, <1>3, FoldingStep
<1> QED
  BY <1>2, <1>3, <1>5, <1>6 DEF m

LEMMA UptoSame ==
    ASSUME NEW l, NEW r, NEW n \in Nat, SameEntries(l, r, n)
    PROVE  Upto(l, n) = Upto(r, n)
<1>1. PICK h : Folding(h, l, Places(n), n) /\ h[1..n] = Upto(l, n)
  BY FoldEntries
<1>2. PICK g : Folding(g, r, Places(n), n) /\ g[1..n] = Upto(r, n)
  BY FoldEntries
<1>3. GoesOn(h, g, l, r, n, n)
  BY <1>1, <1>2 DEF GoesOn
<1>4. h[1..n] = g[1..n]
  BY ONLY <1>3, FoldingsAgree
<1> QED
  BY <1>1, <1>2, <1>4

\* The rows it makes.
LEMMA UptoRows ==
    ASSUME NEW l \in Seq(EntryType)
    PROVE  \A n \in 0..Len(l) : Upto(l, n) \in Seq(TrueRow(l))
<1> DEFINE Bad == {n \in 0..Len(l) : Upto(l, n) \notin Seq(TrueRow(l))}
<1> SUFFICES ASSUME Bad # {}
             PROVE  FALSE
  OBVIOUS
<1>0. Bad \in SUBSET Nat
  OBVIOUS
<1>1. PICK n \in Bad : \A i \in Bad : n <= i
  BY <1>0, Least, Zenon
<1>2. n # 0
  <2>1. <<>> \in Seq(TrueRow(l))
    OBVIOUS
  <2>2. Upto(l, n) \notin Seq(TrueRow(l))
    BY <1>1
  <2> QED
    BY <2>1, <2>2, UptoNone
<1>3. n \in Nat \ {0} /\ n \in 1..Len(l) /\ n - 1 \in 0..Len(l) /\ ~(n <= n - 1)
  BY <1>2
<1>4. Upto(l, n - 1) \in Seq(TrueRow(l))
  BY <1>1, <1>3
<1>5. Upto(l, n) = Replay(Upto(l, n - 1), l, n)
  BY <1>3, UptoNext
<1>6. Upto(l, n) \in Seq(TrueRow(l))
  BY <1>3, <1>4, <1>5, ReplayTrue
<1> QED
  BY <1>6

\* One entry, applied to two tables with the same bare rows.
ApplyBare(S, l, i) ==
    IF l[i].op = "store"
    THEN Put(S, [key |-> l[i].key, line |-> i, tags |-> {}, ttl |-> 0,
                 updated |-> l[i].updated, vf |-> l[i].vf, vt |-> Zero])
    ELSE DeleteByEntity(S, l[i].key, l[i].updated)

LEMMA ApplyIsBare ==
    ASSUME NEW t \in Seq(RowType(Keys, {})), NEW l, NEW i, NEW x
    PROVE  Bared(ToSet(ApplyEntry(t, l, i, x))) = ApplyBare(Bared(ToSet(t)), l, i)
<1>1. CASE l[i].op = "store"
  BY <1>1, PutRowPut DEF ApplyEntry, ApplyBare
<1>2. CASE l[i].op # "store"
  BY <1>2, ForgetRowsForget DEF ApplyEntry, ApplyBare
<1> QED
  BY <1>1, <1>2

\* The index is at the place n of the log l.
AtPlace(t, l, n) == Bared(ToSet(t)) = Bared(ToSet(Upto(l, n)))

LEMMA PlaceNext ==
    ASSUME NEW l \in Seq(EntryType), NEW t \in Seq(TrueRow(l)), NEW i \in 1..Len(l),
           AtPlace(t, l, i - 1), NEW x
    PROVE  AtPlace(ApplyEntry(t, l, i, x), l, i)
<1>1. i \in Nat \ {0} /\ i - 1 \in 0..Len(l)
  OBVIOUS
<1>2. Upto(l, i) = ApplyEntry(Upto(l, i - 1), l, i, ReadBack[l[i].text])
  BY <1>1, UptoNext DEF Replay
<1>3. t \in Seq(RowType(Keys, {})) /\ Upto(l, i - 1) \in Seq(RowType(Keys, {}))
  BY <1>1, UptoRows, TrueRows
<1> QED
  BY <1>2, <1>3, ApplyIsBare DEF AtPlace

-----------------------------------------------------------------------------
(* What a rescan leaves is the replay of the log.                           *)

\* A step of a rebuild is still to come.
Rebuilding(s) == \E i \in DOMAIN s : s[i].do \in {"snapshot", "reset", "read", "restore"}

\* An index made before versions has been looked for, and is not dropped before
\* the rebuild is decided on.
Opening(s) == s # <<>> /\ (s[1].do = "look" \/ (s[1].do = "drop" /\ Rebuilding(s)))

\* Entries are applied one after another, to the last.
Steady(s, n) ==
    \A i \in 1..Len(s) : s[i].do = "apply" =>
        /\ i + 1 \in 1..Len(s) /\ s[i].line \in 1..n
        /\ s[i].line < n => s[i + 1].do = "apply" /\ s[i + 1].line = s[i].line + 1
        /\ s[i].line = n => s[i + 1].do = "restore"

\* The table holds what has been applied.
Stands(s, t, l) ==
    s # <<>> =>
        /\ s[1].do = "read" => t = <<>>
        /\ s[1].do = "apply" => AtPlace(t, l, s[1].line - 1)
        /\ s[1].do = "restore" => AtPlace(t, l, Len(l))

\* An old index is rebuilt before anybody serves, or the rebuild was cut; and
\* nothing but a rebuild takes the index away from the replay of the log.
BInv ==
    /\ \A p \in Procs : Steady(todo[p], Len(log)) /\ Stands(todo[p], table, log)
    /\ unique => \A p \in up : Opening(todo[p])
    /\ ~cut /\ ~unique /\ (\A p \in Procs : ~Rebuilding(todo[p]))
          => AtPlace(table, log, Len(log))

\* What follows a step.
LEMMA SteadyTail ==
    ASSUME NEW S, NEW s \in Seq(S), s # <<>>, NEW n, Steady(s, n)
    PROVE  /\ Steady(Tail(s), n)
           /\ Rebuilding(s) <=> \/ s[1].do \in {"snapshot", "reset", "read", "restore"}
                                \/ Rebuilding(Tail(s))
<1> DEFINE t == Tail(s)
           R == {"snapshot", "reset", "read", "restore"}
<1>1. /\ Len(t) = Len(s) - 1 /\ Len(s) \in Nat \ {0} /\ DOMAIN t = 1..Len(t)
      /\ DOMAIN s = 1..Len(s)
      /\ \A i \in 1..Len(t) : t[i] = s[i + 1]
  OBVIOUS
<1> HIDE DEF t
<1>2. Steady(t, n)
  <2> SUFFICES ASSUME NEW i \in 1..Len(t), t[i].do = "apply"
               PROVE  /\ i + 1 \in 1..Len(t) /\ t[i].line \in 1..n
                      /\ t[i].line < n => t[i + 1].do = "apply" /\ t[i + 1].line = t[i].line + 1
                      /\ t[i].line = n => t[i + 1].do = "restore"
    BY DEF Steady
  <2>1. i + 1 \in 1..Len(s) /\ t[i] = s[i + 1]
    BY <1>1
  <2>2. /\ (i + 1) + 1 \in 1..Len(s) /\ s[i + 1].line \in 1..n
        /\ s[i + 1].line < n =>
              s[(i + 1) + 1].do = "apply" /\ s[(i + 1) + 1].line = s[i + 1].line + 1
        /\ s[i + 1].line = n => s[(i + 1) + 1].do = "restore"
    BY <2>1 DEF Steady
  <2>3. i + 1 \in 1..Len(t)
    BY <1>1, <2>2
  <2>4. t[i + 1] = s[(i + 1) + 1]
    BY <1>1, <2>3
  <2> QED
    BY <2>1, <2>2, <2>3, <2>4
<1>3. ASSUME Rebuilding(s) PROVE s[1].do \in R \/ Rebuilding(t)
  <2>1. PICK i \in 1..Len(s) : s[i].do \in R
    BY <1>1, <1>3 DEF Rebuilding
  <2>2. CASE i = 1
    BY <2>1, <2>2
  <2>3. CASE i # 1
    <3>1. i - 1 \in 1..Len(t) /\ t[i - 1] = s[(i - 1) + 1] /\ (i - 1) + 1 = i
      BY <1>1, <2>3
    <3> QED
      BY <1>1, <2>1, <3>1 DEF Rebuilding
  <2> QED
    BY <2>2, <2>3
<1>4. ASSUME s[1].do \in R PROVE Rebuilding(s)
  <2>1. 1 \in DOMAIN s
    BY <1>1
  <2> QED
    BY <1>4, <2>1 DEF Rebuilding
<1>5. ASSUME Rebuilding(t) PROVE Rebuilding(s)
  <2>1. PICK i \in 1..Len(t) : t[i].do \in R
    BY <1>1, <1>5 DEF Rebuilding
  <2>2. i + 1 \in 1..Len(s) /\ s[i + 1].do \in R
    BY <1>1, <2>1
  <2> QED
    BY <1>1, <2>2 DEF Rebuilding
<1> QED
  BY <1>2, <1>3, <1>4, <1>5 DEF t

\* Where no entry is to be applied nothing is to be said.
LEMMA SteadyNone ==
    /\ \A n : Steady(<<>>, n) /\ Steady(<< Step("look") >>, n)
    /\ \A t, l : Stands(<<>>, t, l) /\ Stands(<< Step("look") >>, t, l)
    /\ ~Rebuilding(<<>>) /\ ~Rebuilding(<< Step("look") >>)
    /\ Opening(<< Step("look") >>)
<1>1. Len(<<>>) = 0 /\ 1..0 = {} /\ DOMAIN <<>> = {}
  OBVIOUS
<1> DEFINE s == << Step("look") >>
<1>2. Len(s) = 1 /\ s # <<>> /\ DOMAIN s = {1} /\ s[1].do = "look" /\ 1..1 = {1}
  BY DEF Step, Entry
<1> HIDE DEF s
<1>3. /\ \A n : Steady(<<>>, n)
      /\ \A t, l : Stands(<<>>, t, l)
      /\ ~Rebuilding(<<>>)
  BY <1>1 DEF Steady, Stands, Rebuilding
<1>4. /\ \A n : Steady(s, n)
      /\ \A t, l : Stands(s, t, l)
      /\ ~Rebuilding(s)
      /\ Opening(s)
  BY <1>2 DEF Steady, Stands, Rebuilding, Opening
<1> QED
  BY <1>3, <1>4 DEF s

\* The steps of a process that has looked: an old index found is rebuilt.
LEMMA LookSteady ==
    ASSUME NEW p, NEW n, NEW t, NEW l
    PROVE  LET s == AfterLook(p)
           IN  /\ Steady(s, n) /\ Stands(s, t, l)
               /\ unique => Opening(s)
<1> DEFINE S == [do : {"drop", "snapshot", "reset", "read"}, line : {0}]
           a == IF unique THEN Rescan ELSE <<>>
           b == IF p = Tool THEN Rescan ELSE <<>>
           d == << Step("drop") >>
           s == AfterLook(p)
<1>1. d \in Seq(S) /\ a \in Seq(S) /\ b \in Seq(S)
  <2>1. d \in Seq(S) /\ Rescan \in Seq(S) /\ <<>> \in Seq(S)
    BY DEF Step, Entry, Rescan
  <2> QED
    BY <2>1
<1>2. Len(d) = 1 /\ d[1].do = "drop"
  BY DEF Step, Entry
<1>3. unique => Len(a) = 3 /\ a[1].do = "snapshot"
  BY DEF Rescan, Step, Entry
<1>4. s = (d \o a) \o b
  BY DEF AfterLook
<1> DEFINE e == d \o a
<1> HIDE DEF a, b, d, s, S
<1>5. /\ e \in Seq(S) /\ Len(e) = Len(d) + Len(a) /\ Len(a) \in Nat /\ Len(d) \in Nat
      /\ \A i \in 1..Len(d) : e[i] = d[i]
      /\ \A i \in 1..Len(a) : e[Len(d) + i] = a[i]
  BY ONLY <1>1, Concatenated
<1> HIDE DEF e
<1>6. /\ s \in Seq(S) /\ Len(s) = Len(e) + Len(b) /\ Len(b) \in Nat /\ Len(e) \in Nat
      /\ \A i \in 1..Len(e) : s[i] = e[i]
  <2>1. s = e \o b
    BY <1>4 DEF e
  <2>2. e \in Seq(S) /\ b \in Seq(S)
    BY <1>1, <1>5
  <2>3. /\ e \o b \in Seq(S) /\ Len(e \o b) = Len(e) + Len(b) /\ Len(b) \in Nat /\ Len(e) \in Nat
        /\ \A i \in 1..Len(e) : (e \o b)[i] = e[i]
    BY ONLY <2>2, Concatenated
  <2> QED
    BY ONLY <2>1, <2>3
<1>7. s[1].do = "drop" /\ 1 \in 1..Len(s) /\ s # <<>> /\ DOMAIN s = 1..Len(s)
  <2>1. 1 \in 1..Len(d) /\ 1 \in 1..Len(e) /\ 1 \in 1..Len(s)
    BY <1>2, <1>5, <1>6
  <2>2. s[1] = d[1]
    BY <1>5, <1>6, <2>1
  <2>3. DOMAIN s = 1..Len(s)
    BY <1>6
  <2>4. s # <<>>
    BY <2>1, <2>3
  <2> QED
    BY <1>2, <2>1, <2>2, <2>3, <2>4
<1>8. ASSUME unique PROVE Opening(s)
  <2>1. 1 \in 1..Len(a) /\ Len(d) + 1 = 2 /\ 2 \in 1..Len(e) /\ 2 \in 1..Len(s)
    <3>1. /\ Len(d) = 1 /\ Len(a) = 3 /\ Len(e) = Len(d) + Len(a)
          /\ Len(s) = Len(e) + Len(b) /\ Len(b) \in Nat
      BY <1>2, <1>3, <1>5, <1>6, <1>8
    <3> QED
      BY ONLY <3>1
  <2>2. s[2].do = "snapshot"
    BY <1>3, <1>5, <1>6, <1>8, <2>1
  <2> QED
    BY <1>7, <2>1, <2>2 DEF Opening, Rebuilding
<1>9. \A i \in 1..Len(s) : s[i].do # "apply"
  <2>1. \A i \in 1..Len(s) : s[i] \in S
    BY <1>6
  <2> QED
    BY <2>1 DEF S
<1> QED
  BY <1>7, <1>8, <1>9 DEF Steady, Stands, s

\* The steps of a rescan that has read the log l.
LEMMA ReadSteady ==
    ASSUME NEW l \in Seq(EntryType), NEW t \in Seq(Doable(l)), Steady(t, Len(l))
    PROVE  LET s == [i \in DOMAIN l |-> Entry("apply", i)] \o << Step("restore") >> \o t
           IN  Steady(s, Len(l)) /\ Stands(s, <<>>, l)
<1> DEFINE n == Len(l)
           S == Doable(l)
           a == [i \in DOMAIN l |-> Entry("apply", i)]
           r == << Step("restore") >>
           e == a \o r
           s == e \o t
<1>1. n \in Nat /\ DOMAIN l = 1..n
  OBVIOUS
<1>2. /\ a \in Seq(S) /\ Len(a) = n
      /\ \A i \in 1..n : a[i].do = "apply" /\ a[i].line = i
  <2>1. \A i \in 1..n : /\ Entry("apply", i) \in S
                        /\ Entry("apply", i).do = "apply" /\ Entry("apply", i).line = i
    BY <1>1 DEF Entry, Doable
  <2>2. a = [i \in 1..n |-> Entry("apply", i)]
    BY <1>1
  <2> HIDE DEF S, n
  <2> QED
    BY <1>1, <2>1, <2>2
<1>3. r \in Seq(S) /\ Len(r) = 1 /\ r[1].do = "restore"
  BY DEF Entry, Step, Doable
<1> HIDE DEF a, r, S
<1>4. /\ e \in Seq(S) /\ Len(e) = Len(a) + Len(r)
      /\ \A i \in 1..Len(a) : e[i] = a[i]
      /\ \A i \in 1..Len(r) : e[Len(a) + i] = r[i]
  <2>1. a \in Seq(S) /\ r \in Seq(S)
    BY <1>2, <1>3
  <2> QED
    BY ONLY <2>1, Concatenated
<1> HIDE DEF e
<1>5. t \in Seq(S)
  BY DEF S
<1>6. /\ s \in Seq(S) /\ Len(s) = Len(e) + Len(t) /\ Len(t) \in Nat
      /\ \A i \in 1..Len(e) : s[i] = e[i]
      /\ \A i \in 1..Len(t) : s[Len(e) + i] = t[i]
  <2>1. e \in Seq(S) /\ t \in Seq(S)
    BY <1>4, <1>5
  <2> QED
    BY ONLY <2>1, Concatenated
<1> HIDE DEF s, n
<1>7. /\ Len(s) = (n + 1) + Len(t)
      /\ \A i \in 1..n : s[i].do = "apply" /\ s[i].line = i
      /\ s[n + 1].do = "restore"
      /\ \A i \in 1..Len(t) : s[(n + 1) + i] = t[i]
  <2>1. Len(e) = n + 1 /\ \A i \in 1..n : i \in 1..Len(e)
    BY <1>1, <1>2, <1>3, <1>4
  <2>2. \A i \in 1..n : s[i] = a[i]
    BY <1>2, <1>4, <1>6, <2>1
  <2>3. n + 1 \in 1..Len(e) /\ 1 \in 1..Len(r)
    BY <1>1, <1>3, <2>1
  <2>4. s[n + 1] = r[1]
    BY <1>2, <1>4, <1>6, <2>1, <2>3
  <2> QED
    BY <1>2, <1>3, <1>6, <2>1, <2>2, <2>4
<1>8. Steady(s, n)
  <2> SUFFICES ASSUME NEW i \in 1..Len(s), s[i].do = "apply"
               PROVE  /\ i + 1 \in 1..Len(s) /\ s[i].line \in 1..n
                      /\ s[i].line < n => s[i + 1].do = "apply" /\ s[i + 1].line = s[i].line + 1
                      /\ s[i].line = n => s[i + 1].do = "restore"
    BY DEF Steady
  <2>1. CASE i \in 1..n
    <3>1. i + 1 \in 1..Len(s) /\ s[i].line = i
      BY <1>1, <1>6, <1>7, <2>1
    <3>2. CASE i < n
      <4>1. i + 1 \in 1..n
        BY <1>1, <2>1, <3>2
      <4> QED
        BY <1>1, <1>7, <2>1, <3>1, <3>2, <4>1
    <3>3. CASE i = n
      BY <1>1, <1>7, <2>1, <3>1, <3>3
    <3> QED
      BY <1>1, <2>1, <3>2, <3>3
  <2>2. CASE i = n + 1
    BY <1>7, <2>2
  <2>3. CASE i \notin 1..n /\ i # n + 1
    <3> DEFINE j == i - (n + 1)
    <3>1. j \in 1..Len(t) /\ i = (n + 1) + j
      BY <1>1, <1>6, <1>7, <2>3
    <3> HIDE DEF j
    <3>2. t[j] = s[i]
      BY <1>7, <3>1
    <3>3. /\ j + 1 \in 1..Len(t) /\ t[j].line \in 1..n
          /\ t[j].line < n => t[j + 1].do = "apply" /\ t[j + 1].line = t[j].line + 1
          /\ t[j].line = n => t[j + 1].do = "restore"
      BY <3>1, <3>2 DEF Steady, n
    <3>4. s[(n + 1) + (j + 1)] = t[j + 1] /\ (n + 1) + (j + 1) = i + 1 /\ i + 1 \in 1..Len(s)
      <4>1. s[(n + 1) + (j + 1)] = t[j + 1]
        BY <1>7, <3>3
      <4>2. /\ n \in Nat /\ Len(t) \in Nat /\ Len(s) = (n + 1) + Len(t)
            /\ j \in 1..Len(t) /\ j + 1 \in 1..Len(t) /\ i = (n + 1) + j
        BY <1>1, <1>6, <1>7, <3>1, <3>3
      <4>3. (n + 1) + (j + 1) = i + 1 /\ i + 1 \in 1..Len(s)
        BY ONLY <4>2
      <4> QED
        BY ONLY <4>1, <4>3
    <3> QED
      BY <3>2, <3>3, <3>4
  <2> QED
    BY <2>1, <2>2, <2>3
<1>9. Stands(s, <<>>, l)
  <2>1. AtPlace(<<>>, l, 0)
    BY UptoNone DEF AtPlace
  <2>2. CASE n = 0
    <3>1. s[1].do = "restore"
      BY <1>7, <2>2
    <3> QED
      BY <2>1, <2>2, <3>1 DEF Stands, n
  <2>3. CASE n # 0
    <3>1. 1 \in 1..n
      BY <1>1, <2>3
    <3>2. s[1].do = "apply" /\ s[1].line - 1 = 0
      BY <1>7, <3>1
    <3> QED
      BY <2>1, <3>2 DEF Stands
  <2> QED
    BY <2>2, <2>3
<1> QED
  BY <1>8, <1>9 DEF s, e, a, r, n

\* BInv after a step of a process with steps left, from what is left.
LEMMA BuiltAdvance ==
    ASSUME IInv, BInv, ~Together, NEW p \in Procs, todo[p] # <<>>,
           NEW rest, todo' = [todo EXCEPT ![p] = rest],
           UNCHANGED <<log, up>>,
           Steady(rest, Len(log)), Stands(rest, table', log),
           unique' => Opening(rest),
           ~cut' /\ ~unique' /\ ~Rebuilding(rest) => AtPlace(table', log, Len(log))
    PROVE  BInv'
<1>1. p \in up /\ todo \in [Procs -> Seq(Doable(log))] /\ \A q \in up : q = p
  BY Busy DEF IInv
<1>2. todo'[p] = rest /\ \A q \in Procs \ {p} : todo'[q] = todo[q] /\ todo'[q] = <<>>
  BY <1>1, Alone
<1>3. \A q \in Procs : Steady(todo'[q], Len(log)) /\ Stands(todo'[q], table', log)
  BY <1>2, SteadyNone
<1>4. unique' => \A q \in up' : Opening(todo'[q])
  BY <1>1, <1>2
<1>5. (\A q \in Procs : ~Rebuilding(todo'[q])) => ~Rebuilding(rest)
  BY <1>2
<1> QED
  BY <1>3, <1>4, <1>5 DEF BInv

\* What there is to say of process p with step do next.
Underway(p, do) ==
    LET rest == Tail(todo[p])
    IN  /\ todo[p] # <<>> /\ todo[p][1].do = do
        /\ Steady(rest, Len(log)) /\ Stands(todo[p], table, log)
        /\ rest # <<>> => << do, rest[1].do >> \in Follows
        /\ rest = <<>> => do \in {"look", "drop", "read", "restore"}
        /\ Rebuilding(todo[p]) <=> \/ do \in {"snapshot", "reset", "read", "restore"}
                                   \/ Rebuilding(rest)
        /\ unique => Opening(todo[p])
        /\ ~cut /\ ~unique /\ ~Rebuilding(todo[p]) => AtPlace(table, log, Len(log))
        /\ rest \in Seq(Doable(log))

LEMMA BuiltRest ==
    ASSUME IInv, KInv, BInv, ~Together, NEW p \in Procs, NEW do, At(p, do)
    PROVE  Underway(p, do)
<1>1. /\ todo[p] # <<>> /\ todo[p][1].do = do
      /\ Tail(todo[p]) # <<>> => << do, Tail(todo[p])[1].do >> \in Follows
      /\ Tail(todo[p]) = <<>> => do \in {"look", "drop", "read", "restore"}
      /\ Tail(todo[p]) \in Seq(Doable(log))
  BY KeptRest
<1>2. todo[p] \in Seq(Doable(log)) /\ Steady(todo[p], Len(log))
  BY DEF IInv, BInv
<1>3. /\ Steady(Tail(todo[p]), Len(log))
      /\ Rebuilding(todo[p]) <=> \/ todo[p][1].do \in {"snapshot", "reset", "read", "restore"}
                                 \/ Rebuilding(Tail(todo[p]))
  BY <1>1, <1>2, SteadyTail
<1>4. p \in up /\ \A q \in Procs \ {p} : todo[q] = <<>>
  BY <1>1, Busy, Alone
<1>5. unique => Opening(todo[p])
  BY <1>4 DEF BInv
<1>6. ~cut /\ ~unique /\ ~Rebuilding(todo[p]) => AtPlace(table, log, Len(log))
  BY <1>4, SteadyNone DEF BInv
<1>7. Stands(todo[p], table, log)
  BY DEF BInv
<1> QED
  BY <1>1, <1>3, <1>5, <1>6, <1>7 DEF Underway

\* Looking for the old index, and dropping it.
LEMMA BuiltOpening ==
    ASSUME IInv, KInv, BInv, ~Together, NEW p \in Procs, Look(p) \/ DropUnique(p)
    PROVE  BInv'
<1>1. CASE Look(p)
  <2> DEFINE rest == Tail(todo[p])
             s == AfterLook(p)
  <2>1. /\ todo[p] # <<>>
        /\ rest # <<>> => << "look", rest[1].do >> \in Follows
        /\ Rebuilding(todo[p]) <=> Rebuilding(rest)
        /\ ~cut /\ ~unique /\ ~Rebuilding(todo[p]) => AtPlace(table, log, Len(log))
    <3>1. Underway(p, "look")
      BY <1>1, BuiltRest DEF Look
    <3> QED
      BY <3>1 DEF Underway
  <2>2. rest = <<>>
    BY <2>1 DEF Follows
  <2>3. ~cut /\ ~unique => AtPlace(table, log, Len(log))
    BY <2>1, <2>2, SteadyNone
  <2>4. Steady(s, Len(log)) /\ Stands(s, table, log) /\ (unique => Opening(s))
    BY LookSteady
  <2>5. todo' = [todo EXCEPT ![p] = s] /\ UNCHANGED <<log, up, unique, table, cut>>
    BY <1>1 DEF Look
  <2> HIDE DEF s, rest
  <2> QED
    BY <2>1, <2>3, <2>4, <2>5, BuiltAdvance
<1>2. CASE DropUnique(p)
  <2> DEFINE rest == Tail(todo[p])
  <2>1. /\ todo[p] # <<>> /\ todo[p][1].do = "drop" /\ Steady(rest, Len(log))
        /\ rest # <<>> => << "drop", rest[1].do >> \in Follows
        /\ Rebuilding(todo[p]) <=> Rebuilding(rest)
        /\ unique => Opening(todo[p])
        /\ ~cut /\ ~unique /\ ~Rebuilding(todo[p]) => AtPlace(table, log, Len(log))
    <3>1. Underway(p, "drop")
      BY <1>2, BuiltRest DEF DropUnique
    <3> QED
      BY <3>1 DEF Underway
  <2>2. Stands(rest, table, log)
    BY <2>1 DEF Stands, Follows
  <2>3. ~Rebuilding(rest) => ~unique
    BY <2>1 DEF Opening
  <2>4. todo' = [todo EXCEPT ![p] = rest] /\ UNCHANGED <<log, up, table, cut>> /\ ~unique'
    BY <1>2 DEF DropUnique
  <2> HIDE DEF rest
  <2> QED
    BY <2>1, <2>2, <2>3, <2>4, BuiltAdvance
<1> QED
  BY <1>1, <1>2

\* A rescan under way.
LEMMA BuiltRescan ==
    ASSUME IInv, KInv, BInv, ~Together, NEW p \in Procs, Snapshot(p) \/ Reset(p)
    PROVE  BInv'
<1> DEFINE rest == Tail(todo[p])
<1>1. CASE Snapshot(p)
  <2>1. /\ todo[p] # <<>> /\ todo[p][1].do = "snapshot" /\ Steady(rest, Len(log))
        /\ rest # <<>> => << "snapshot", rest[1].do >> \in Follows
        /\ rest # <<>>
        /\ unique => Opening(todo[p])
        /\ rest \in Seq(Doable(log))
    <3>1. Underway(p, "snapshot")
      BY <1>1, BuiltRest DEF Snapshot
    <3> QED
      BY <3>1 DEF Underway
  <2>2. rest[1].do = "reset"
    BY <2>1 DEF Follows
  <2>3. ~unique
    BY <2>1 DEF Opening
  <2>4. Stands(rest, table, log)
    BY <2>2 DEF Stands
  <2>5. Rebuilding(rest)
    <3>1. 1 \in DOMAIN rest
      BY <2>1
    <3> QED
      BY <2>2, <3>1 DEF Rebuilding
  <2>6. todo' = [todo EXCEPT ![p] = rest] /\ UNCHANGED <<log, up, table, unique>>
    BY <1>1 DEF Snapshot
  <2> HIDE DEF rest
  <2> QED
    BY <2>1, <2>3, <2>4, <2>5, <2>6, BuiltAdvance
<1>2. CASE Reset(p)
  <2>1. /\ todo[p] # <<>> /\ Steady(rest, Len(log))
        /\ rest # <<>> => << "reset", rest[1].do >> \in Follows
        /\ rest # <<>>
        /\ rest \in Seq(Doable(log))
    <3>1. Underway(p, "reset")
      BY <1>2, BuiltRest DEF Reset
    <3> QED
      BY <3>1 DEF Underway
  <2>2. rest[1].do = "read"
    BY <2>1 DEF Follows
  <2>3. /\ todo' = [todo EXCEPT ![p] = rest] /\ UNCHANGED <<log, up>> /\ ~unique'
        /\ table' = <<>>
    BY <1>2 DEF Reset
  <2>4. Stands(rest, table', log)
    BY <2>2, <2>3 DEF Stands
  <2>5. Rebuilding(rest)
    <3>1. 1 \in DOMAIN rest
      BY <2>1
    <3> QED
      BY <2>2, <3>1 DEF Rebuilding
  <2> HIDE DEF rest
  <2> QED
    BY <2>1, <2>3, <2>4, <2>5, BuiltAdvance
<1> QED
  BY <1>1, <1>2

\* The log read, and an entry of it applied.
LEMMA BuiltRead ==
    ASSUME IInv, KInv, BInv, ~Together, NEW p \in Procs, ReadLog(p)
    PROVE  BInv'
<1> DEFINE rest == Tail(todo[p])
           all == [i \in DOMAIN log |-> Entry("apply", i)] \o << Step("restore") >> \o rest
<1>1. /\ todo[p] # <<>> /\ todo[p][1].do = "read" /\ Steady(rest, Len(log))
      /\ Stands(todo[p], table, log)
      /\ unique => Opening(todo[p])
      /\ rest \in Seq(Doable(log))
  <2>1. Underway(p, "read")
    BY BuiltRest DEF ReadLog
  <2> QED
    BY <2>1 DEF Underway
<1>2. log \in Seq(EntryType)
  BY DEF IInv, TypeOK
<1>3. ~unique
  BY <1>1 DEF Opening
<1>4. table = <<>>
  BY <1>1 DEF Stands
<1>5. /\ Chained(rest) /\ EndsWell(rest)
      /\ rest # <<>> => rest[1].do = "snapshot"
  <2>1. /\ Chained(rest) /\ EndsWell(rest)
        /\ rest # <<>> => << "read", rest[1].do >> \in Follows
    BY KeptRest DEF ReadLog
  <2> QED
    BY <2>1 DEF Follows
<1>6. todo' = [todo EXCEPT ![p] = all] /\ UNCHANGED <<log, up, table, unique>>
  BY DEF ReadLog
<1>7. todo'[p] = all
  BY <1>6 DEF IInv
<1> HIDE DEF rest
<1>8. Steady(all, Len(log)) /\ Stands(all, table, log)
  BY <1>1, <1>2, <1>4, ReadSteady
<1>9. Chained(all) /\ EndsWell(all) /\ Rescanning(all)
  BY <1>1, <1>2, <1>5, ReadChained
<1> HIDE DEF all
<1>10. Rebuilding(all)
  <2>1. IInv'
    BY RescanStep
  <2>2. all \in Seq(Doable(log)')
    BY <1>7, <2>1 DEF IInv
  <2> QED
    BY <1>9, <2>2, RescanningSeen DEF Rebuilding
<1> QED
  BY <1>1, <1>3, <1>6, <1>8, <1>10, BuiltAdvance

LEMMA BuiltApply ==
    ASSUME IInv, KInv, BInv, ~Together, NEW p \in Procs, Apply(p)
    PROVE  BInv'
<1> DEFINE s == todo[p]
           rest == Tail(s)
           i == s[1].line
           n == Len(log)
<1>1. /\ s # <<>> /\ s[1].do = "apply" /\ Steady(rest, n) /\ Stands(s, table, log)
      /\ unique => Opening(s)
      /\ rest \in Seq(Doable(log))
  <2>1. Underway(p, "apply")
    BY BuiltRest DEF Apply
  <2> QED
    BY <2>1 DEF Underway
<1>2. /\ log \in Seq(EntryType) /\ n \in Nat /\ s \in Seq(Doable(log))
      /\ table \in Seq(TrueRow(log)) /\ Steady(s, n)
  BY DEF IInv, TypeOK, BInv
<1>3. ~unique
  BY <1>1 DEF Opening
<1>4. /\ Chained(rest) /\ EndsWell(rest) /\ rest # <<>>
      /\ << "apply", rest[1].do >> \in Follows
  BY KeptRest DEF Apply
<1>5. /\ todo' = [todo EXCEPT ![p] = rest] /\ UNCHANGED <<log, up, unique>>
      /\ table' = Replay(table, log, i)
  <2>1. Head(s) = s[1]
    BY <1>1, <1>2
  <2> QED
    BY <2>1 DEF Apply
<1>6. 1 \in 1..Len(s) /\ 1 + 1 \in 1..Len(s) /\ rest[1] = s[1 + 1]
  BY <1>1, <1>2, <1>4
<1>7. /\ i \in 1..n
      /\ i < n => rest[1].do = "apply" /\ rest[1].line = i + 1
      /\ i = n => rest[1].do = "restore"
  <2>1. /\ s[1].line \in 1..n
        /\ s[1].line < n => s[1 + 1].do = "apply" /\ s[1 + 1].line = s[1].line + 1
        /\ s[1].line = n => s[1 + 1].do = "restore"
    BY <1>1, <1>2, <1>6 DEF Steady
  <2> HIDE DEF rest
  <2> QED
    BY <1>6, <2>1
<1>8. AtPlace(table, log, i - 1)
  BY <1>1 DEF Stands
<1>9. AtPlace(table', log, i)
  <2> HIDE DEF i, n
  <2> QED
    BY <1>2, <1>5, <1>7, <1>8, PlaceNext DEF n, Replay
<1>10. Stands(rest, table', log)
  <2>0. i \in Nat /\ i <= n
    BY <1>2, <1>7
  <2> HIDE DEF rest, i, n
  <2>1. CASE i < n
    <3>1. rest[1].do = "apply" /\ rest[1].line = i + 1
      BY ONLY <1>7, <2>1
    <3>2. rest[1].line - 1 = i
      BY ONLY <2>0, <3>1
    <3> QED
      BY <1>9, <3>1, <3>2 DEF Stands
  <2>2. CASE i = n
    BY <1>7, <1>9, <2>2 DEF Stands, n
  <2> QED
    BY <1>2, <2>0, <2>1, <2>2
<1>11. Rebuilding(rest)
  <2>1. Rescanning(rest)
    BY <1>4 DEF Rescanning, Follows
  <2> HIDE DEF rest
  <2> QED
    BY <1>1, <1>4, <2>1, RescanningSeen DEF Rebuilding
<1> HIDE DEF rest
<1> QED
  BY <1>1, <1>3, <1>5, <1>10, <1>11, BuiltAdvance

\* The end of a rescan: the index is the replay of the log.
LEMMA BuiltRestore ==
    ASSUME IInv, KInv, BInv, ~Together, NEW p \in Procs, Restore(p)
    PROVE  BInv'
<1> DEFINE rest == Tail(todo[p])
<1>1. /\ todo[p] # <<>> /\ todo[p][1].do = "restore" /\ Steady(rest, Len(log))
      /\ rest # <<>> => << "restore", rest[1].do >> \in Follows
      /\ Stands(todo[p], table, log)
      /\ unique => Opening(todo[p])
  <2>1. Underway(p, "restore")
    BY BuiltRest DEF Restore
  <2> QED
    BY <2>1 DEF Underway
<1>2. ~unique
  BY <1>1 DEF Opening
<1>3. AtPlace(table, log, Len(log))
  BY <1>1 DEF Stands
<1>4. /\ todo' = [todo EXCEPT ![p] = rest] /\ UNCHANGED <<log, up, unique>>
      /\ table' = RestoreEmbeddings(table, kept[p])
  BY DEF Restore
<1>5. AtPlace(table', log, Len(log))
  <2>1. table \in Seq(RowType(Keys, {}))
    BY DEF IInv, TypeOK
  <2> QED
    BY <1>3, <1>4, <2>1, VectorsBare DEF AtPlace
<1>6. Stands(rest, table', log)
  BY <1>1 DEF Stands, Follows
<1> HIDE DEF rest
<1> QED
  BY <1>1, <1>2, <1>4, <1>5, <1>6, BuiltAdvance

\* A process comes up or ends.
LEMMA BuiltUp ==
    ASSUME IInv, KInv, BInv, ~Together, NEW p \in Procs, Open(p) \/ Exit(p)
    PROVE  BInv'
<1>0. todo \in [Procs -> Seq(Doable(log))]
  BY DEF IInv
<1>1. CASE Open(p)
  <2> DEFINE s == << Step("look") >>
  <2>1. up = {} /\ \A q \in Procs : todo[q] = <<>>
    BY <1>1 DEF Open, IInv, TypeOK
  <2>2. /\ up' = {p} /\ todo'[p] = s /\ \A q \in Procs : todo'[q] \in {s, <<>>}
        /\ UNCHANGED <<log, unique, table, cut>>
    BY <1>0, <1>1, <2>1 DEF Open
  <2>3. ~cut /\ ~unique => AtPlace(table, log, Len(log))
    BY <2>1, SteadyNone DEF BInv
  <2> HIDE DEF s
  <2>4. /\ Steady(s, Len(log)) /\ Stands(s, table, log) /\ Opening(s)
        /\ Steady(<<>>, Len(log)) /\ Stands(<<>>, table, log)
    BY SteadyNone DEF s
  <2> QED
    BY <2>2, <2>3, <2>4 DEF BInv
<1>2. CASE Exit(p)
  <2>1. p \in up /\ \A q \in Procs \ {p} : todo[q] = <<>>
    BY <1>2, Alone DEF Exit
  <2>2. /\ up' = {} /\ \A q \in Procs : todo'[q] = <<>>
        /\ UNCHANGED <<log, unique, table>>
    BY <1>0, <1>2, <2>1 DEF Exit, IInv
  <2>3. ~cut' /\ ~unique => AtPlace(table, log, Len(log))
    <3>1. ~cut' => ~cut /\ ~Rebuilding(todo[p])
      BY <1>2 DEF Exit, InRebuild, Rebuilding
    <3> QED
      BY <2>1, <3>1, SteadyNone DEF BInv
  <2>4. Steady(<<>>, Len(log)) /\ Stands(<<>>, table, log)
    BY SteadyNone
  <2> QED
    BY <2>2, <2>3, <2>4 DEF BInv
<1> QED
  BY <1>1, <1>2

\* A call appends an entry and applies it.
LEMMA CallPlace ==
    ASSUME IInv, NEW e \in EntryType, log' = Append(log, e), AtPlace(table, log, Len(log))
    PROVE  /\ AtPlace(ApplyEntry(table, log', Len(log'), e.text), log', Len(log'))
           /\ ApplyEntry(table, log', Len(log'), e.text) \in Seq(RowType(Keys, {}))
<1>1. /\ log \in Seq(EntryType) /\ Len(log) \in Nat /\ table \in Seq(TrueRow(log))
  BY DEF IInv, TypeOK
<1>2. /\ log' \in Seq(EntryType) /\ Len(log') = Len(log) + 1 /\ Len(log') \in 1..Len(log')
      /\ \A i \in 1..Len(log) : log'[i] = log[i]
      /\ log'[Len(log')] = e
  BY <1>1
<1>9. log'[Len(log')].op = "store" => e.text \in Texts
  BY <1>2, EntryFields
<1>3. table \in Seq(TrueRow(log'))
  BY <1>1, TrueGrow, SeqMonotonic
<1>4. SameEntries(log, log', Len(log))
  BY <1>2 DEF SameEntries
<1>5. Upto(log, Len(log)) = Upto(log', Len(log))
  BY <1>1, <1>4, UptoSame
<1>6. Len(log') - 1 = Len(log)
  BY <1>1, <1>2
<1>7. AtPlace(table, log', Len(log') - 1)
  BY <1>5, <1>6 DEF AtPlace
<1>8. ApplyEntry(table, log', Len(log'), e.text) \in Seq(TrueRow(log'))
  BY <1>2, <1>3, <1>9, ApplyTrue
<1> QED
  BY <1>2, <1>3, <1>7, <1>8, PlaceNext, TrueRows

LEMMA BuiltCall ==
    ASSUME IInv, BInv, ~Together, Serving, NEW e \in EntryType, log' = Append(log, e),
           UNCHANGED <<unique, up, todo, cut>>,
           LET put == ApplyEntry(table, log', Len(log'), e.text)
           IN  \/ table' = put
               \/ \E i, x : table' = StoreEmbedding(put, i, x)
    PROVE  BInv'
<1> DEFINE put == ApplyEntry(table, log', Len(log'), e.text)
<1>1. Server \in up /\ \A q \in Procs : todo[q] = <<>>
  BY Alone DEF Serving
<1>2. ~unique
  BY <1>1 DEF BInv, Opening, Procs
<1>3. ASSUME ~cut PROVE AtPlace(table', log', Len(log'))
  <2>1. AtPlace(table, log, Len(log))
    BY <1>1, <1>2, <1>3, SteadyNone DEF BInv
  <2>2. AtPlace(put, log', Len(log')) /\ put \in Seq(RowType(Keys, {}))
    BY <2>1, CallPlace
  <2>3. table' = put \/ \E i, x : table' = StoreEmbedding(put, i, x)
    OBVIOUS
  <2> HIDE DEF put
  <2>4. Bared(ToSet(table')) = Bared(ToSet(put))
    BY <2>2, <2>3, VectorsBare
  <2> QED
    BY <2>2, <2>4 DEF AtPlace
<1>4. \A q \in Procs : Steady(todo'[q], Len(log')) /\ Stands(todo'[q], table', log')
  BY <1>1, SteadyNone
<1> QED
  BY <1>2, <1>3, <1>4 DEF BInv

\* Every step keeps BInv.
LEMMA NextBInv ==
    ASSUME ~Together
    PROVE  IInv /\ KInv /\ BInv /\ [Next]_vars => BInv'
<1> SUFFICES ASSUME IInv, KInv, BInv, [Next]_vars
             PROVE  BInv'
  OBVIOUS
<1>1. CASE UNCHANGED vars \/ Tick \/ SearchCall
  <2>1. UNCHANGED <<log, table, todo, up, unique, cut>>
    BY <1>1 DEF vars, Tick, SearchCall
  <2> QED
    BY <2>1 DEF BInv
<1>2. ASSUME NEW p \in Procs, Open(p) \/ Exit(p)
      PROVE  BInv'
  BY <1>2, BuiltUp
<1>3. ASSUME NEW p \in Procs, Look(p) \/ DropUnique(p)
      PROVE  BInv'
  BY <1>3, BuiltOpening
<1>4. ASSUME NEW p \in Procs, Snapshot(p) \/ Reset(p)
      PROVE  BInv'
  BY <1>4, BuiltRescan
<1>5. ASSUME NEW p \in Procs, ReadLog(p)
      PROVE  BInv'
  BY <1>5, BuiltRead
<1>6. ASSUME NEW p \in Procs, Apply(p)
      PROVE  BInv'
  BY <1>6, BuiltApply
<1>7. ASSUME NEW p \in Procs, Restore(p)
      PROVE  BInv'
  BY <1>7, BuiltRestore
<1>8. clock \in Nat
  BY DEF IInv, TypeOK
<1>9. ASSUME NEW k \in Keys, NEW text \in Texts, NEW vf \in Starts,
             NEW embedded \in BOOLEAN, StoreCall(k, text, vf, embedded)
      PROVE  BInv'
  <2> DEFINE e == [op |-> "store", key |-> k, text |-> text, updated |-> clock, vf |-> vf]
             put == ApplyEntry(table, log', Len(log'), text)
  <2>1. e \in EntryType
    BY <1>8, RebuildAssumption DEF EntryType, Ticks
  <2>2. /\ log' = Append(log, e) /\ Serving /\ UNCHANGED <<unique, up, todo, cut>>
        /\ table' = put \/ table' = StoreEmbedding(put, Len(put), text)
    BY <1>9 DEF StoreCall
  <2>3. e.text = text
    OBVIOUS
  <2> HIDE DEF e
  <2> QED
    BY <2>1, <2>2, <2>3, BuiltCall
<1>10. ASSUME NEW k \in Keys, ForgetCall(k)
       PROVE  BInv'
  <2> DEFINE e == [op |-> "delete", key |-> k, text |-> NoVector,
                   updated |-> clock, vf |-> Zero]
  <2>1. e \in EntryType
    BY <1>8, RebuildAssumption DEF EntryType, Ticks, Zero
  <2>2. /\ log' = Append(log, e) /\ Serving /\ UNCHANGED <<unique, up, todo, cut>>
        /\ table' = ApplyEntry(table, log', Len(log'), NoVector)
    BY <1>10 DEF ForgetCall
  <2>3. e.text = NoVector
    OBVIOUS
  <2> HIDE DEF e
  <2> QED
    BY <2>1, <2>2, <2>3, BuiltCall
<1> QED
  BY <1>1, <1>2, <1>3, <1>4, <1>5, <1>6, <1>7, <1>9, <1>10 DEF Next

\* A process that serves answers what the log says, about every moment and as
\* of every moment, unless the latest rebuild was cut short: whatever index made
\* before versions it found, whatever was stored and forgotten since, and
\* however often processes started, rescanned and ended.
THEOREM RebuiltUnlessCutAlways ==
    ASSUME ~Together
    PROVE  Spec => []RebuiltUnlessCut
<1>1. Init => KInv
  <2>1. Chained(<<>>) /\ EndsWell(<<>>) /\ ~Rescanning(<<>>)
    BY DEF Chained, EndsWell, Rescanning
  <2> QED
    BY <2>1 DEF Init, KInv, Covered, GivenBack
<1>2. Init => BInv
  BY SteadyNone DEF Init, BInv
<1>3. IInv /\ BInv => RebuiltUnlessCut
  <2> SUFFICES ASSUME IInv, BInv, Serving, ~cut
               PROVE  Current
    BY DEF RebuiltUnlessCut
  <2>1. Server \in up /\ \A q \in Procs : todo[q] = <<>>
    BY Alone DEF Serving
  <2>2. ~unique
    BY <2>1 DEF BInv, Opening, Procs
  <2>3. AtPlace(table, log, Len(log))
    BY <2>1, <2>2, SteadyNone DEF BInv
  <2>4. log \in Seq(EntryType) /\ table \in Seq(RowType(Keys, {})) /\ Len(log) \in 0..Len(log)
    BY DEF IInv, TypeOK
  <2> DEFINE w == Upto(log, Len(log))
  <2>5. w \in Seq(RowType(Keys, {}))
    BY <2>4, UptoRows, TrueRows
  <2>6. Replayed = ToSet(w)
    <3>1. DOMAIN log = 1..Len(log)
      BY <2>4
    <3> QED
      BY <3>1 DEF Replayed, Upto
  <2>7. Bared(Rows) = Bared(ToSet(w))
    BY <2>3 DEF AtPlace, Rows
  <2> HIDE DEF w
  <2>8. ASSUME NEW k, NEW m, NEW s
        PROVE  /\ Belief(Rows, k, m) = Belief(Replayed, k, m)
               /\ ToldAt(Rows, k, s, m) = ToldAt(Replayed, k, s, m)
    BY <2>4, <2>5, <2>6, <2>7, BareTold DEF Rows
  <2> QED
    BY <2>8 DEF Current
<1>4. IInv /\ KInv /\ [Next]_vars => KInv'
  BY NextKInv
<1>5. IInv /\ KInv /\ BInv /\ [Next]_vars => BInv'
  BY NextBInv
<1> QED
  BY <1>1, <1>2, <1>3, <1>4, <1>5, Invariance, PTL DEF Spec
=============================================================================
