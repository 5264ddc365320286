------------------------------- MODULE Table -------------------------------
(***************************************************************************)
(* The table facts with its row ids and its vectors: the statements of     *)
(* Bitemporal on a sequence of rows (the id of a row is its place), the    *)
(* columns object (text) and embedding, and what reads by id               *)
(* (internal/memory/sqlite.go).                                            *)
(*                                                                         *)
(* A text is a number; a vector is the text it was computed from; NoVector  *)
(* is NULL.                                                                *)
(***************************************************************************)
EXTENDS Bitemporal, Sequences, SequencesExt

NoVector == 0

RowType(Keys, Tags) ==
    [key : Keys, line : Nat, tags : SUBSET Tags, ttl : Int,
     updated : Ticks, vf : Ticks, vt : Ticks, tf : Ticks, tt : Ticks,
     deleted : Ticks, text : Nat, emb : Nat]

NewRow(f, text) ==
    LET v == NewVersion(f)
    IN  [key |-> v.key, line |-> v.line, tags |-> v.tags, ttl |-> v.ttl,
         updated |-> v.updated, vf |-> v.vf, vt |-> v.vt, tf |-> v.tf,
         tt |-> v.tt, deleted |-> v.deleted, text |-> text, emb |-> NoVector]

\* The slip: the copies made without the column added last.
PutRowBare(table, f, text) ==
    LET rows == ToSet(table)
    IN  [i \in DOMAIN table |->
            IF table[i] \in Cut(rows, f) THEN Close(table[i], f.updated) ELSE table[i]]
        \o SetToSeq({[p EXCEPT !.emb = NoVector] : p \in Before(rows, f) \cup After(rows, f)})
        \o << NewRow(f, text) >>

\* Put: the pieces cut from older rows keep their vector and get ids of their
\* own, in the order of the cuts (here: some order); the new row comes last.
PutRow(table, f, text) ==
    LET rows == ToSet(table)
    IN  [i \in DOMAIN table |->
            IF table[i] \in Cut(rows, f) THEN Close(table[i], f.updated) ELSE table[i]]
        \o SetToSeq(Before(rows, f) \cup After(rows, f))
        \o << NewRow(f, text) >>

ForgetRows(table, k, at) ==
    [i \in DOMAIN table |->
        IF table[i].key = k /\ Believed(table[i])
        THEN [table[i] EXCEPT !.deleted = Sec(at), !.tt = Sec(at)]
        ELSE table[i]]

StoreEmbedding(table, id, content) == [table EXCEPT ![id].emb = content]

\* The ids a read selects; both moments zero for the usual read.
SelectedIds(table, asOf, validAt, now) ==
    {i \in DOMAIN table : Selected(table[i], asOf, validAt, now)}

\* The slips: rows without a vector too; every vector, whatever the moment.
LoadNullEmbeddings(table, asOf, validAt, now) ==
    [i \in SelectedIds(table, asOf, validAt, now) |-> table[i].emb]

LoadAnyEmbeddings(table, asOf, validAt, now) ==
    [i \in {j \in DOMAIN table : table[j].emb # NoVector} |-> table[i].emb]

\* The vectors by id.
LoadEmbeddings(table, asOf, validAt, now) ==
    [i \in {j \in SelectedIds(table, asOf, validAt, now) : table[j].emb # NoVector}
        |-> table[i].emb]

\* The slips: rows without a vector too; the vectors of the rows believed.
SnapshotNull(table) ==
    {[key |-> r.key, text |-> r.text, emb |-> r.emb] : r \in ToSet(table)}

SnapshotBelieved(table) ==
    {[key |-> r.key, text |-> r.text, emb |-> r.emb] :
        r \in {s \in ToSet(table) : s.emb # NoVector /\ Believed(s)}}

\* What a rebuild keeps aside: vectors by key and text, of any row.
SnapshotEmbeddings(table) ==
    {[key |-> r.key, text |-> r.text, emb |-> r.emb] :
        r \in {s \in ToSet(table) : s.emb # NoVector}}

\* The slip: given back by key alone.
RestoreByKey(table, kept) ==
    [i \in DOMAIN table |->
        LET found == {v \in kept : v.key = table[i].key}
        IN  IF table[i].emb = NoVector /\ found # {}
            THEN [table[i] EXCEPT !.emb = (CHOOSE v \in found : TRUE).emb]
            ELSE table[i]]

RestoreEmbeddings(table, kept) ==
    [i \in DOMAIN table |->
        LET found == {v \in kept : v.key = table[i].key /\ v.text = table[i].text}
        IN  IF table[i].emb = NoVector /\ found # {}
            THEN [table[i] EXCEPT !.emb = (CHOOSE v \in found : TRUE).emb]
            ELSE table[i]]
=============================================================================
