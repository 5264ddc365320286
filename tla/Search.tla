------------------------------- MODULE Search -------------------------------
(***************************************************************************)
(* memory_search and memory_context: the rows that match by words and the  *)
(* rows nearest in meaning, merged by reciprocal rank, reordered by a      *)
(* model, with the turns around them (store.go, hybrid.go, rerank.go,      *)
(* neighbors.go), over an index that stores and forgets change and a cache *)
(* of vectors that is filled by the first search; what the caller may not  *)
(* read is taken out of what was found (caller.go).                        *)
(*                                                                         *)
(* One process: a call holds Store.mu to its end, so its answer is given   *)
(* before the next call starts.  What words match and what meaning is near *)
(* belongs to the query: a ranking of contents (log entries) each.         *)
(***************************************************************************)
EXTENDS Table, FiniteSets

CONSTANTS Keys,        \* records [idx, width]: the number a key ends with, its
                       \* digits; width 0: a key that ends with no number
          Tags, Agents,
          Writes,      \* [agent, tags, vf, vt, embedded]: the arguments of stores, and
                       \* whether the embedding service answers
          Asks,        \* [reads, tags, asOf, validAt, limit, radius]: the agents whose
                       \* memories the caller may read, and the arguments of searches;
                       \* radius 0: include_neighbors is off
          Setups,      \* what is configured: subsets of {"embedder", "reranker"}
          MaxTick, MaxLines

\* Moments a caller may name; zero: none.
Bounds == {t \in Nat : t = Zero \/ t >= Resolution}

\* How many digits a number has.
Digits(n) ==
    CHOOSE d \in 1..(n + 1) : n < 10 ^ d /\ \A e \in 1..(d - 1) : 10 ^ e <= n

ASSUME SearchAssumption ==
    /\ Keys \subseteq [idx : Nat, width : Nat]
    /\ \A k \in Keys : k.width > 0 => Digits(k.idx) \in 1..k.width
    /\ Writes \subseteq [agent : Agents, tags : SUBSET Tags, vf : Bounds, vt : Bounds,
                         embedded : BOOLEAN]
    /\ Asks \subseteq [reads : SUBSET Agents, tags : SUBSET Tags, asOf : Bounds,
                       validAt : Bounds, limit : Nat \ {0}, radius : Nat]
    /\ Setups \subseteq SUBSET {"embedder", "reranker"}
    /\ MaxTick \in Nat /\ MaxLines \in Nat

VARIABLES clock,    \* ticks
          lines,    \* log entries so far
          authors,  \* who stored: agents by log entry
          table,    \* the rows, by id
          cache,    \* embCache: NoCache, or vectors by row id
          setup,    \* what is configured, for good
          answer    \* what the search under way returns

vars == <<clock, lines, authors, table, cache, setup, answer>>

NoCache == << NoVector >>
NoAnswer == [given |-> FALSE]

Lines == 1..lines

Ids == DOMAIN table

\* A query ranks contents by its words (those that match, best first) and, once
\* embedded, by meaning (every content, nearest first).
Rankings(rows, vectors) ==
    LET seen == {table[i].line : i \in rows}
        embedded == ToSet(vectors)
    IN  [words : SetToAllKPermutations(seen), near : SetToSeqs(embedded), embeds : {TRUE}]
            \cup [words : SetToAllKPermutations(seen), near : {<<>>}, embeds : {FALSE}]

-----------------------------------------------------------------------------
(* The rows that match.                                                     *)

Take(s, n) == SubSeq(s, 1, IF n < Len(s) THEN n ELSE Len(s))

\* A finite set of numbers, in order.
Ascending(S) ==
    [j \in 1..Cardinality(S) |->
        CHOOSE n \in S : Cardinality({m \in S : m < n}) = j - 1]

\* The elements of s at the places P, in order.
Picked(s, P) == [j \in 1..Cardinality(P) |-> s[Ascending(P)[j]]]

\* Rows in the order their contents are ranked, the first n.
RankedRows(order, Rows(_), n) ==
    Take(FlattenSeq([r \in DOMAIN order |-> SetToSeq(Rows(order[r]))]), n)

SelectedNow(ask) == SelectedIds(table, ask.asOf, ask.validAt, clock)

\* Search: the rows selected, filtered (tags stand for every post-filter).
FullText(rank, ask, n) ==
    LET Hits(l) == {i \in SelectedNow(ask) : table[i].line = l /\ ask.tags \subseteq table[i].tags}
    IN  RankedRows(rank.words, Hits, n)

\* cosineSearch: ids of vectors, nearest first.
Nearest(rank, vectors, n) ==
    LET Of(l) == {i \in DOMAIN vectors : vectors[i] = l}
    IN  RankedRows(rank.near, Of, n)

-----------------------------------------------------------------------------
(* Ranks.                                                                   *)

\* 1 / (60 + rank), in units that are whole up to the fifth rank.
Share(s, i) ==
    LET ranks == {r \in DOMAIN s : s[r] = i}
    IN  IF ranks = {} THEN 0
        ELSE (61 * 62 * 63 * 64 * 65) \div (60 + CHOOSE r \in ranks : TRUE)

\* The slip: the ranks of words counted from one too many.
ScoreLate(words, near, i) == Share(<< 0 >> \o words, i) + Share(near, i)

Score(words, near, i) == Share(words, i) + Share(near, i)

\* The best n of both rankings; rows of one score in any order (a map walk and
\* an unstable sort).  Ids without a row take their places and drop out last.
MergeRRF(words, near, known, n) ==
    LET score == [i \in ToSet(words) \cup ToSet(near) |-> Score(words, near, i)]
        Sorted(s) == \A a, b \in DOMAIN s : a < b => score[s[a]] >= score[s[b]]
        Known(s) == Picked(s, {r \in DOMAIN s : s[r] \in known})
    IN  {Known(Take(s, n)) : s \in {t \in SetToSeqs(DOMAIN score) : Sorted(t)}}

\* Rerank: the model may give any scores, or fail and leave the order.
Rerank(s, n) ==
    IF Len(s) <= 1 THEN {s}
    ELSE {Take([r \in DOMAIN s |-> s[p[r]]], n) : p \in SetToSeqs(DOMAIN s)}

-----------------------------------------------------------------------------
(* Neighbours: the turns around a row whose key ends with a number.         *)

Sequential(k) == k.width > 0

\* buildNeighborKey: padded to the width of the key it is derived from.
KeyAt(k, n) == [idx |-> n, width |-> IF k.width > Digits(n) THEN k.width ELSE Digits(n)]

KeysOf(s) == {table[i].key : i \in ToSet(s)}

Candidates(s, radius) ==
    (UNION {{KeyAt(k, n) : n \in Nat \cap ((k.idx - radius)..(k.idx + radius))} :
               k \in {c \in KeysOf(s) : Sequential(c)}}) \ KeysOf(s)

\* fetchByEntities: the usual read, whatever the search asked for.
Neighbours(s, radius) ==
    {i \in SelectedIds(table, Zero, Zero, clock) : table[i].key \in Candidates(s, radius)}

\* Neighbours by their number: of two with one number, one is kept.
Groups(N) ==
    LET numbers == {table[i].key.idx : i \in N}
    IN  {g \in [numbers -> N] : \A n \in numbers : table[g[n]].key.idx = n}

\* The slip: a hit, then what surrounds it.
AroundHitFirst(g, i) ==
    LET k == table[i].key
        Joined(n) == \A m \in (n..(k.idx - 1)) \cup ((k.idx + 1)..n) : m \in DOMAIN g
        near == {n \in DOMAIN g \ {k.idx} : Joined(n)}
    IN  IF Sequential(k)
        THEN << i >> \o Picked(g, near)
        ELSE << i >>

\* A hit with the unbroken run of neighbours on each side.
Around(g, i) ==
    LET k == table[i].key
        Joined(n) == \A m \in (n..(k.idx - 1)) \cup ((k.idx + 1)..n) : m \in DOMAIN g
        run == {n \in DOMAIN g : Joined(n)} \cup {k.idx}
    IN  IF Sequential(k)
        THEN Picked([n \in run |-> IF n = k.idx THEN i ELSE g[n]], run)
        ELSE << i >>

\* The first row of each key.
OncePerKey(s) ==
    Picked(s, {r \in DOMAIN s : \A q \in 1..(r - 1) : table[s[q]].key # table[s[r]].key})

\* weaveNeighbors: what no run reaches comes last, in any order (a map walk).
Weave(s, N) ==
    IF N = {} THEN {s}
    ELSE UNION {{OncePerKey(FlattenSeq([r \in DOMAIN s |-> Around(g, s[r])]) \o rest) :
                    rest \in SetToSeqs(ToSet(g))} : g \in Groups(N)}

Expand(s, radius) ==
    IF radius = 0 \/ Candidates(s, radius) = {} THEN {s}
    ELSE Weave(s, Neighbours(s, radius))

-----------------------------------------------------------------------------
(* memory_search.                                                           *)

\* index.Search, with its own neighbours.
PlainSearch(rank, ask, n) == Expand(FullText(rank, ask, n), ask.radius)

RerankOrNot(s, n) == IF "reranker" \in setup THEN Rerank(s, n) ELSE {s}

Pool(n) == IF "reranker" \in setup THEN 3 * n ELSE n

\* Without an embedder.
WordSearch(rank, ask) ==
    UNION {RerankOrNot(s, ask.limit) : s \in PlainSearch(rank, ask, Pool(ask.limit))}

\* The slip: rows fetched by id whatever has become of them.
FetchAnyByIDs(ids, ask) == ids \cap Ids

FetchByIDs(ids, ask) == ids \cap SelectedNow(ask)

\* hybridSearch, once the query is embedded.
HybridSearch(rank, ask, vectors) ==
    LET near == Nearest(rank, vectors, 2 * ask.limit)
    IN  UNION {LET known == ToSet(words) \cup FetchByIDs(ToSet(near) \ ToSet(words), ask)
                   merged == MergeRRF(words, near, known, Pool(ask.limit))
               IN  UNION {Expand(s, ask.radius) :
                            s \in UNION {RerankOrNot(m, ask.limit) : m \in merged}} :
               words \in PlainSearch(rank, ask, 2 * ask.limit)}

UsualRead(ask) == ask.asOf = Zero /\ ask.validAt = Zero

Loaded(ask) == LoadEmbeddings(table, ask.asOf, ask.validAt, clock)

\* The vectors of a search: of the moment it names, or the cache.
Vectors(ask) == IF UsualRead(ask) /\ cache # NoCache THEN cache ELSE Loaded(ask)

Answers(rank, ask) ==
    IF "embedder" \notin setup THEN WordSearch(rank, ask)
    ELSE IF ~rank.embeds THEN PlainSearch(rank, ask, ask.limit)
    ELSE HybridSearch(rank, ask, Vectors(ask))

\* canRead, of a caller who is no administrator; a caller nothing restricts
\* reads every agent's memories.
Readable(ask, i) == authors[table[i].line] \in ask.reads

Visible(s, ask) == Picked(s, {r \in DOMAIN s : Readable(ask, s[r])})

\* What is found is cut to the limit first, to what the caller may read then.
SearchCall(rank, ask) ==
    /\ rank.embeds => "embedder" \in setup
    /\ cache' = IF rank.embeds /\ UsualRead(ask) THEN Vectors(ask) ELSE cache
    /\ \E found \in Answers(rank, ask) :
          answer' = [given |-> TRUE, rank |-> rank, ask |-> ask, out |-> Visible(found, ask),
                     fresh |-> rank.embeds /\ Vectors(ask) = Loaded(ask)]
    /\ UNCHANGED <<clock, lines, authors, table, setup>>

Returned ==
    /\ answer # NoAnswer
    /\ answer' = NoAnswer
    /\ UNCHANGED <<clock, lines, authors, table, cache, setup>>

-----------------------------------------------------------------------------
(* What changes the index under the cache.                                  *)

Init ==
    /\ clock = Resolution
    /\ lines = 0
    /\ authors = <<>>
    /\ table = <<>>
    /\ cache = NoCache
    /\ setup \in Setups
    /\ answer = NoAnswer

Tick ==
    /\ answer = NoAnswer /\ clock < MaxTick
    /\ clock' = clock + 1
    /\ UNCHANGED <<lines, authors, table, cache, setup, answer>>

\* ToolStore, with the embedding of the new row; the rows cut from older ones
\* are not told to the cache.  valid_to is held against the clock, which is read
\* again for the stamp.  (A store refused for its owner or the ceiling changes
\* nothing here: Reads and Store say when.)
StoreCall(k, w) ==
    /\ answer = NoAnswer /\ lines < MaxLines
    /\ w.vt # Zero => w.vt > (IF w.vf = Zero THEN clock ELSE w.vf)
    /\ clock' \in clock..MaxTick
    /\ w.embedded => "embedder" \in setup
    /\ LET put == PutRow(table, [key |-> k, line |-> lines + 1, tags |-> w.tags, ttl |-> 0,
                                 updated |-> clock', vf |-> w.vf, vt |-> w.vt], lines + 1)
           id == Len(put)
       IN  /\ table' = IF w.embedded THEN StoreEmbedding(put, id, lines + 1) ELSE put
           /\ cache' = IF w.embedded /\ cache # NoCache
                       THEN [i \in DOMAIN cache \cup {id} |->
                                IF i = id THEN lines + 1 ELSE cache[i]]
                       ELSE cache
    /\ lines' = lines + 1
    /\ authors' = [l \in DOMAIN authors \cup {lines + 1} |->
                      IF l = lines + 1 THEN w.agent ELSE authors[l]]
    /\ UNCHANGED <<setup, answer>>

ForgetCall(k) ==
    /\ answer = NoAnswer /\ lines < MaxLines
    /\ table' = ForgetRows(table, k, clock)
    /\ lines' = lines + 1
    /\ UNCHANGED <<clock, authors, cache, setup, answer>>

Next ==
    \/ Tick
    \/ \E k \in Keys :
          \/ \E w \in Writes : StoreCall(k, w)
          \/ ForgetCall(k)
    \/ /\ answer = NoAnswer
       /\ \E ask \in Asks : \E rank \in Rankings(SelectedNow(ask), Vectors(ask)) :
             SearchCall(rank, ask)
    \/ Returned

Spec == Init /\ [][Next]_vars

-----------------------------------------------------------------------------
(* Properties.                                                              *)

TypeOK ==
    /\ clock \in Nat /\ lines \in Nat
    /\ \A l \in DOMAIN authors : l \in Lines /\ authors[l] \in Agents
    /\ table \in Seq(RowType(Keys, Tags))
    /\ cache = NoCache \/ \A i \in DOMAIN cache : i \in Ids /\ cache[i] \in Lines
    /\ setup \in Setups
    /\ answer = NoAnswer \/ ToSet(answer.out) \subseteq Ids

\* Every row that a search could answer may be read by who asks, as it may when
\* nothing restricts the caller.
AllReadable(ask) ==
    \A i \in SelectedNow(ask) \cup SelectedIds(table, Zero, Zero, clock) : Readable(ask, i)

\* No row ends before it begins.  One can, when the clock passes valid_to
\* between the check and the stamp of a store.
Straight == \A i \in Ids : table[i].vt # Zero => table[i].vf <= table[i].vt

\* The words that the search under way matches at its moment.
Matches == ToSet(FullText(answer.rank, answer.ask, Len(table)))

\* What memory_search answers was selected at the moment it asked about,
\* although the cache of vectors keeps rows superseded and forgotten since, and
\* ranks them; with the turns around an answer for the usual read, and without
\* them as of another moment (for those, see ReadsTheMoment).
MomentHonoured ==
    answer.given =>
        (UsualRead(answer.ask) \/ answer.ask.radius = 0 =>
            ToSet(answer.out) \subseteq SelectedNow(answer.ask))

\* A search for two or more that matches a memory by its words finds some
\* memory, whatever vectors of dead rows the ranking by meaning begins with, if
\* its caller may read what there is: the rows hidden from a caller take places
\* in the limit before they are taken out.
WordMatchAnswered ==
    answer.given =>
        (answer.ask.limit >= 2 /\ Matches # {} /\ AllReadable(answer.ask) =>
            answer.out # <<>>)

\* While the vectors a search uses are those of the table, it returns as many
\* memories as there are to find, up to its limit, to a caller who may read
\* them all.
FilledWhenFresh ==
    answer.given =>
        (answer.fresh /\ answer.ask.radius = 0 /\ AllReadable(answer.ask) =>
            LET found == Matches \cup
                    {i \in SelectedNow(answer.ask) : table[i].emb # NoVector}
            IN  Len(answer.out) = Len(Take(SetToSeq(found), answer.ask.limit)))

\* The place of a row in an answer.
PlaceIn(out, i) == CHOOSE r \in DOMAIN out : out[r] = i

\* The rows that hold now of the turn with the number n.
TurnsAt(n) ==
    {i \in SelectedIds(table, Zero, Zero, clock) :
        Sequential(table[i].key) /\ table[i].key.idx = n}

\* The row i is the turn before or after the row h.
Beside(h, i) ==
    LET k == table[h].key
        n == table[i].key
    IN  /\ Sequential(k) /\ Sequential(n)
        /\ n.idx = k.idx + 1 \/ k.idx = n.idx + 1

\* It is written with as many digits, or with the more that its number needs
\* (t10 after t9).  Not t9 before t10: what is looked for is t09.
SameStyle(h, i) ==
    LET k == table[h].key
        n == table[i].key
    IN  n.width = k.width \/ (k.width < n.width /\ n.width = Digits(n.idx))

\* The row i is a turn beside the hit h, the only one of its number that holds
\* now, and none of the hits s is of its key.
Alongside(s, h, i) ==
    /\ Beside(h, i) /\ SameStyle(h, i)
    /\ table[i].key \notin KeysOf(s) /\ TurnsAt(table[i].key.idx) = {i}

\* Every memory once.
EachOnce(out) == \A r, s \in DOMAIN out : r # s => table[out[r]].key # table[out[s]].key

\* The matches the caller may read, in their order.
HitsShown(ask, hits, out) ==
    /\ \A h \in ToSet(hits) : Readable(ask, h) => h \in ToSet(out)
    /\ \A r, s \in DOMAIN hits :
          r < s /\ Readable(ask, hits[r]) /\ Readable(ask, hits[s])
            => PlaceIn(out, hits[r]) < PlaceIn(out, hits[s])

\* With the turns beside a match, the turn before ahead of it.
TurnsShown(ask, hits, out) ==
    ask.radius > 0 =>
        \A h \in ToSet(hits), i \in Ids :
            Alongside(hits, h, i) /\ Readable(ask, i) =>
                /\ i \in ToSet(out)
                /\ Readable(ask, h) /\ table[i].key.idx < table[h].key.idx
                      => PlaceIn(out, i) < PlaceIn(out, h)

\* A search by words alone, of a table without an inverted row: every memory
\* once; the matches in their order; and the turn before or after a match, if it
\* holds now and is written in the same style, is among the answers, the turn
\* before ahead of it; each as far as the caller may read it.  (Of two turns
\* with one number one is kept.)
TurnsInOrder ==
    answer.given =>
        (Straight /\ ~answer.rank.embeds /\ "reranker" \notin setup =>
            LET hits == FullText(answer.rank, answer.ask, answer.ask.limit)
            IN  /\ EachOnce(answer.out)
                /\ HitsShown(answer.ask, hits, answer.out)
                /\ TurnsShown(answer.ask, hits, answer.out))

\* The memory nearest in meaning, of a search that no words match, if it is
\* answered.
Nearby ==
    {i \in ToSet(answer.out) : /\ answer.rank.words = <<>> /\ answer.rank.near # <<>>
                               /\ table[i].line = answer.rank.near[1]}

\* "Accepts the same tag/agent post-filters as Recall": what is answered has
\* the tags asked for.
FiltersHonoured ==
    answer.given => \A i \in Nearby : answer.ask.tags \subseteq table[i].tags

\* "Read what mem7 believed at that moment": and nothing else is answered.
ReadsTheMoment ==
    answer.given => ToSet(answer.out) \subseteq SelectedNow(answer.ask)

\* "Expands results with adjacent memories for sequential keys": the turns
\* before and after, if they hold now.
EveryTurn ==
    answer.given =>
        (answer.ask.radius > 0 =>
            \A h \in Nearby, i \in Ids :
                Beside(h, i) /\ TurnsAt(table[i].key.idx) = {i} => i \in ToSet(answer.out))

\* An answer keeps one of these three promises at least.
SomePromiseKept == FiltersHonoured \/ ReadsTheMoment \/ EveryTurn
=============================================================================
