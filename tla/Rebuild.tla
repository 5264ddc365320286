------------------------------ MODULE Rebuild ------------------------------
(***************************************************************************)
(* Opening the store and rebuilding its index: the migration of an index    *)
(* made before versions, the rescan, the vectors a rescan keeps aside and   *)
(* gives back, and the cache of vectors of the process that serves          *)
(* (NewStore, migrate, Reset, Rescan, snapshot and restoreEmbeddings).      *)
(*                                                                         *)
(* A process opens the index and then serves or, mem7 rescan, rescans once  *)
(* more and exits.  todo[p] is what is left of that; a process may die or   *)
(* get an error at every step, which leaves the rest undone.  The calls of  *)
(* the process that serves are whole here: Store takes them apart.          *)
(***************************************************************************)
EXTENDS Table, FiniteSets

CONSTANTS Server,       \* the process that serves
          Tool,         \* mem7 rescan
          Together,     \* whether Tool may run while Server is up
          Keys,
          Texts,        \* naturals; a vector is the text it was computed from
          ReadBack,     \* ReadBack[x]: the text a rescan reads where x was stored
          Starts,       \* valid_from of stores
          OldLogs,      \* the logs written before versions that Init chooses from
          MayFail,
          Moments,      \* the moments readers ask about
          MaxTick, MaxLog

EntryType ==
    [op : {"store"}, key : Keys, text : Texts, updated : Ticks, vf : Ticks]
    \cup [op : {"delete"}, key : Keys, text : {NoVector}, updated : Ticks, vf : Ticks]

ASSUME RebuildAssumption ==
    /\ Server # Tool
    /\ Together \in BOOLEAN /\ MayFail \in BOOLEAN
    /\ Texts \subseteq Nat \ {NoVector}
    /\ ReadBack \in [Texts -> Texts]
    /\ Starts \subseteq Nat /\ Moments \subseteq Nat
    /\ OldLogs \subseteq Seq(EntryType)
    /\ MaxTick \in Nat /\ MaxLog \in Nat

Procs == {Server, Tool}

VARIABLES clock,    \* seconds
          log,      \* the entries of the daily files, in order of time, with
                    \* the texts that were stored
          unique,   \* whether the index has idx_facts_entity_predicate
          table,    \* the rows, by id
          up,       \* the processes that have opened the index or are about to
          todo,     \* todo[p]: the steps left
          kept,     \* kept[p]: the vectors p's rescan put aside
          cache,    \* embCache of Server: NoCache, or vectors by row id
          cut,      \* auxiliary: a rebuild was cut short, none has ended since
          had       \* auxiliary: the vectors there were when the latest rescan
                    \* began, as [key, text], while no call has been made since

vars == <<clock, log, unique, table, up, todo, kept, cache, cut, had>>

NoCache == << NoVector >>

\* A row of the index before versions: one per key, its last; no interval.
OldRow(l, k) ==
    LET mine == {i \in DOMAIN l : l[i].key = k}
        stores == {i \in mine : l[i].op = "store"}
        line == CHOOSE i \in stores : \A j \in stores : j <= i
        forgot == {j \in mine : j > line}
    IN  [key |-> k, line |-> line, tags |-> {}, ttl |-> 0, updated |-> l[line].updated,
         vf |-> Zero, vt |-> Zero, tf |-> Zero, tt |-> Zero,
         deleted |-> IF forgot = {} THEN Zero ELSE l[CHOOSE j \in forgot : TRUE].updated,
         text |-> l[line].text, emb |-> l[line].text]

OldTable(l) ==
    SetToSeq({OldRow(l, k) : k \in {l[i].key : i \in {j \in DOMAIN l : l[j].op = "store"}}})

TypeOK ==
    /\ clock \in Nat
    /\ log \in Seq(EntryType)
    /\ unique \in BOOLEAN
    /\ table \in Seq(RowType(Keys, {}))
    /\ up \subseteq Procs
    /\ \A p \in Procs : todo[p] # <<>> => p \in up
    /\ kept \in [Procs -> SUBSET [key : Keys, text : Texts, emb : Texts]]
    /\ cache = NoCache \/ (Server \in up /\ ToSet(cache) \subseteq Texts)
    /\ cut \in BOOLEAN
    /\ had \subseteq [key : Keys, text : Texts]

Init ==
    /\ log \in OldLogs
    /\ clock = 1 + Len(log)
    /\ unique = TRUE
    /\ table = OldTable(log)
    /\ up = {}
    /\ todo = [p \in Procs |-> <<>>]
    /\ kept = [p \in Procs |-> {}]
    /\ cache = NoCache
    /\ cut = FALSE
    /\ had = {}

Entry(do, i) == [do |-> do, line |-> i]

Step(do) == Entry(do, 0)

Rescan == << Step("snapshot"), Step("reset"), Step("read") >>

At(p, do) == todo[p] # <<>> /\ Head(todo[p]).do = do

Tick ==
    /\ clock < MaxTick
    /\ clock' = clock + 1
    /\ UNCHANGED <<log, unique, table, up, todo, kept, cache, cut, had>>

-----------------------------------------------------------------------------
(* Opening.                                                                 *)

Open(p) ==
    /\ p \notin up
    /\ ~Together => up = {}
    /\ up' = up \cup {p}
    /\ todo' = [todo EXCEPT ![p] = << Step("look") >>]
    /\ UNCHANGED <<clock, log, unique, table, kept, cache, cut, had>>

\* The slip: the old index is dropped before it is looked for.
AfterLookNever(p) == << Step("drop") >> \o (IF p = Tool THEN Rescan ELSE <<>>)

\* needsRebuild is what migrate finds; NewStore rescans for it.
AfterLook(p) ==
    << Step("drop") >> \o (IF unique THEN Rescan ELSE <<>>)
                       \o (IF p = Tool THEN Rescan ELSE <<>>)

Look(p) ==
    /\ At(p, "look")
    /\ todo' = [todo EXCEPT ![p] = AfterLook(p)]
    /\ UNCHANGED <<clock, log, unique, table, up, kept, cache, cut, had>>

DropUnique(p) ==
    /\ At(p, "drop")
    /\ unique' = FALSE
    /\ todo' = [todo EXCEPT ![p] = Tail(@)]
    /\ UNCHANGED <<clock, log, table, up, kept, cache, cut, had>>

-----------------------------------------------------------------------------
(* Rescan.                                                                  *)

Snapshot(p) ==
    /\ At(p, "snapshot")
    /\ kept' = [kept EXCEPT ![p] = SnapshotEmbeddings(table)]
    /\ had' = {[key |-> r.key, text |-> r.emb] : r \in {s \in ToSet(table) : s.emb # NoVector}}
    /\ todo' = [todo EXCEPT ![p] = Tail(@)]
    /\ UNCHANGED <<clock, log, unique, table, up, cache, cut>>

\* The tables are dropped and made again, the old unique index with them: the
\* ids of rows start again from one.
Reset(p) ==
    /\ At(p, "reset")
    /\ table' = <<>>
    /\ unique' = FALSE
    /\ todo' = [todo EXCEPT ![p] = Tail(@)]
    /\ UNCHANGED <<clock, log, up, kept, cache, cut, had>>

ReadLog(p) ==
    /\ At(p, "read")
    /\ todo' = [todo EXCEPT ![p] =
                  [i \in DOMAIN log |-> Entry("apply", i)] \o << Step("restore") >> \o Tail(@)]
    /\ UNCHANGED <<clock, log, unique, table, up, kept, cache, cut, had>>

ApplyEntry(t, l, i, text) ==
    IF l[i].op = "store"
    THEN PutRow(t, [key |-> l[i].key, line |-> i, tags |-> {}, ttl |-> 0,
                    updated |-> l[i].updated, vf |-> l[i].vf, vt |-> Zero], text)
    ELSE ForgetRows(t, l[i].key, l[i].updated)

\* What a rescan does with an entry: its text has been through the log, where
\* lines that look like the log's own stay escaped and the newlines around it go.
Replay(t, l, i) == ApplyEntry(t, l, i, ReadBack[l[i].text])

Apply(p) ==
    /\ At(p, "apply")
    /\ table' = Replay(table, log, Head(todo[p]).line)
    /\ todo' = [todo EXCEPT ![p] = Tail(@)]
    /\ UNCHANGED <<clock, log, unique, up, kept, cache, cut, had>>

\* The last step of a rescan, which also forgets the cache of its process.
Restore(p) ==
    /\ At(p, "restore")
    /\ table' = RestoreEmbeddings(table, kept[p])
    /\ kept' = [kept EXCEPT ![p] = {}]
    /\ cache' = IF p = Server THEN NoCache ELSE cache
    /\ todo' = [todo EXCEPT ![p] = Tail(@)]
    /\ cut' = FALSE
    /\ UNCHANGED <<clock, log, unique, up, had>>

-----------------------------------------------------------------------------
(* Serving.                                                                 *)

Serving == Server \in up /\ todo[Server] = <<>>

\* The slip: the id of the row taken before the rows that are cut are copied.
CacheIdEarly(old, new) == Len(old) + 1

CacheId(old, new) == Len(new)

\* memory_store; embedded: whether the embedding service answers.
StoreCall(k, text, vf, embedded) ==
    /\ Serving /\ Len(log) < MaxLog
    /\ log' = Append(log, [op |-> "store", key |-> k, text |-> text,
                           updated |-> clock, vf |-> vf])
    /\ LET put == ApplyEntry(table, log', Len(log'), text)
           id == CacheId(table, put)
       IN  /\ table' = IF embedded THEN StoreEmbedding(put, Len(put), text) ELSE put
           /\ cache' = IF embedded /\ cache # NoCache
                       THEN [i \in DOMAIN cache \cup {id} |->
                                IF i = id THEN text ELSE cache[i]]
                       ELSE cache
    /\ had' = {}
    /\ UNCHANGED <<clock, unique, up, todo, kept, cut>>

ForgetCall(k) ==
    /\ Serving /\ Len(log) < MaxLog
    /\ log' = Append(log, [op |-> "delete", key |-> k, text |-> NoVector,
                           updated |-> clock, vf |-> Zero])
    /\ table' = ApplyEntry(table, log', Len(log'), NoVector)
    /\ had' = {}
    /\ UNCHANGED <<clock, unique, up, todo, kept, cache, cut>>

\* A search by meaning: the first one fills the cache.
SearchCall ==
    /\ Serving /\ cache = NoCache
    /\ cache' = LoadEmbeddings(table, Zero, Zero, clock)
    /\ UNCHANGED <<clock, log, unique, table, up, todo, kept, cut, had>>

-----------------------------------------------------------------------------
(* A process ends: Server when it is told to, Tool when it is done, either   *)
(* with an error or a crash in the middle.                                   *)

InRebuild(p) == \E i \in DOMAIN todo[p] : todo[p][i].do \in {"snapshot", "reset", "read", "restore"}

Exit(p) ==
    /\ p \in up
    /\ todo[p] = <<>> \/ MayFail
    /\ up' = up \ {p}
    /\ todo' = [todo EXCEPT ![p] = <<>>]
    /\ kept' = [kept EXCEPT ![p] = {}]
    /\ cache' = IF p = Server THEN NoCache ELSE cache
    /\ cut' = (cut \/ InRebuild(p))
    /\ UNCHANGED <<clock, log, unique, table, had>>

Next ==
    \/ Tick
    \/ \E p \in Procs :
          \/ Open(p) \/ Look(p) \/ DropUnique(p)
          \/ Snapshot(p) \/ Reset(p) \/ ReadLog(p) \/ Apply(p) \/ Restore(p)
          \/ Exit(p)
    \/ \E k \in Keys :
          \/ \E text \in Texts, vf \in Starts, embedded \in BOOLEAN :
                StoreCall(k, text, vf, embedded)
          \/ ForgetCall(k)
    \/ SearchCall

Spec == Init /\ [][Next]_vars

-----------------------------------------------------------------------------
(* Properties.                                                              *)

Rows == ToSet(table)

\* The rows the log means.
Replayed ==
    ToSet(FoldLeft(LAMBDA t, i : Replay(t, log, i), <<>>, [i \in DOMAIN log |-> i]))

\* What the statements of sqlite.go select: NULL is before no moment.
ToldAt(rows, k, t, m) == BeliefAt({r \in rows : r.tf # Zero}, k, t, m)

Current ==
    \A k \in Keys, m \in Moments :
        /\ Belief(Rows, k, m) = Belief(Replayed, k, m)
        /\ \A t \in Moments : ToldAt(Rows, k, t, m) = ToldAt(Replayed, k, t, m)

\* "An index built before versions is rebuilt from the markdown at start": a
\* process that serves answers for every moment what the log says.
RebuiltAtStart == Serving => Current

\* ... if no rebuild was cut short, or another rescan ended since.
RebuiltUnlessCut == Serving /\ ~cut => Current

\* A rescan gives back every vector there was when it began to the rows of the
\* same key and text, whether the row it came from held then or not.  A text that
\* the log gives back changed (ReadBack[x] # x) is another text.
VectorsKept ==
    Serving /\ ~cut =>
        \A i \in DOMAIN table :
            [key |-> table[i].key, text |-> table[i].text] \in had
                => table[i].emb # NoVector

\* "embeddings live only in the index: keep them across the rebuild"
\* (rescan.go:22): every vector there was is a row's again.
NoVectorLost ==
    Serving /\ ~cut =>
        had \subseteq {[key |-> r.key, text |-> r.emb] : r \in Rows}

\* A vector belongs to the text of its row, in the index and in the cache of
\* the process that serves, whatever ids a rescan has given again.
VectorsTrue ==
    \A i \in DOMAIN table :
        /\ table[i].emb \in {NoVector, table[i].text}
        /\ i \in DOMAIN cache => cache[i] \in {NoVector, table[i].text}
=============================================================================
