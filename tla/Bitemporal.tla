----------------------------- MODULE Bitemporal -----------------------------
(***************************************************************************)
(* The bi-temporal index of mem7: rows ("versions") that carry when a fact *)
(* holds in the world (vf, vt) and when mem7 believed it (tf, tt), and the  *)
(* statements of internal/memory/sqlite.go that write and read them.        *)
(*                                                                         *)
(* Time is counted in ticks, Resolution ticks to the second.  The process  *)
(* clock and the bounds a caller gives have tick precision; a column of    *)
(* the index, and a timestamp of the markdown log, is RFC3339 text, so it   *)
(* keeps the second only.  Tick 0 is Go's zero time and SQL's NULL.        *)
(***************************************************************************)
EXTENDS Integers

CONSTANT Resolution

ASSUME ResolutionAssumption == Resolution \in Nat \ {0}

Zero == 0

\* ts: RFC3339 drops what is below the second; nullTS keeps the zero time null.
Sec(t) == (t \div Resolution) * Resolution

Seconds(n) == n * Resolution

-----------------------------------------------------------------------------
(* Data.  `line' is the position in the log of the entry a row comes from   *)
(* (source_file, source_line): it stands for the content of the row, the    *)
(* object, agent and trace that every copy of the row repeats.              *)

Ticks == Nat

\* A call of Put: fact with tick precision, vf and vt as the caller gave them.
FactType(Keys, Tags) ==
    [key : Keys, line : Nat, tags : SUBSET Tags, ttl : Int,
     updated : Ticks, vf : Ticks, vt : Ticks]

\* A row of the table facts: every bound is a whole second or NULL.
VersionType(Keys, Tags) ==
    [key : Keys, line : Nat, tags : SUBSET Tags, ttl : Int,
     updated : Ticks, vf : Ticks, vt : Ticks, tf : Ticks, tt : Ticks,
     deleted : Ticks]

-----------------------------------------------------------------------------
(* Which rows a statement selects.                                          *)

\* overlaps([af, at), [bf, bt)): a zero bound is open.
Overlaps(af, at, bf, bt) ==
    /\ at = Zero \/ bf = Zero \/ bf < at
    /\ bt = Zero \/ af = Zero \/ af < bt

\* Neither superseded nor forgotten.
Believed(v) == v.deleted = Zero /\ v.tt = Zero

\* Believed at the moment t, whatever is believed now (as_of).
BelievedAt(v, t) == v.tf <= t /\ (v.tt = Zero \/ v.tt > t)

\* Holds in the world at the moment m.
Covers(v, m) == /\ v.vf = Zero \/ v.vf <= m
                /\ v.vt = Zero \/ v.vt > m

\* A negative ttl is taken as it comes: expired at once.
Expired(v, now) == v.ttl # 0 /\ v.updated + Seconds(v.ttl) <= Sec(now)

\* liveWhereClause: the usual read, at the database's clock.
Live(v, now) == Believed(v) /\ Covers(v, Sec(now)) /\ ~Expired(v, now)

\* liveWhere: the read as of asOf of what held at validAt, either one zero for
\* "now".  A read that names a moment ignores the TTL.
Selected(v, asOf, validAt, now) ==
    IF asOf = Zero /\ validAt = Zero
    THEN Live(v, now)
    ELSE /\ IF asOf = Zero THEN Believed(v) ELSE BelievedAt(v, Sec(asOf))
         /\ Covers(v, IF validAt = Zero THEN Sec(now) ELSE Sec(validAt))

-----------------------------------------------------------------------------
(* The statements that write.                                               *)

ValidFrom(f) == IF f.vf = Zero THEN f.updated ELSE f.vf

\* The slip: rows already superseded or forgotten are cut again.
CutAnyRow(facts, f) ==
    {p \in facts : p.key = f.key /\ Overlaps(p.vf, p.vt, ValidFrom(f), f.vt)}

\* The versions of f's key that f contradicts somewhere.
Cut(facts, f) ==
    {p \in facts : /\ p.key = f.key
                   /\ Believed(p)
                   /\ Overlaps(p.vf, p.vt, ValidFrom(f), f.vt)}

Close(p, now) == [p EXCEPT !.tt = Sec(now)]

\* The slip: an end that is part of the period.
CopyInclusive(p, vf, vt, now) ==
    [p EXCEPT !.vf = Sec(vf), !.vt = Sec(vt) - Resolution,
              !.tf = Sec(now), !.tt = Zero, !.deleted = Zero]

\* copyVersion: the part [vf, vt) of p is believed again from now on.
Copy(p, vf, vt, now) ==
    [p EXCEPT !.vf = Sec(vf), !.vt = Sec(vt),
              !.tf = Sec(now), !.tt = Zero, !.deleted = Zero]

\* The slip: the old version copied whole.
BeforeWhole(facts, f) ==
    {Copy(p, p.vf, p.vt, f.updated) :
        p \in {q \in Cut(facts, f) : q.vf = Zero \/ q.vf < ValidFrom(f)}}

Before(facts, f) ==
    {Copy(p, p.vf, ValidFrom(f), f.updated) :
        p \in {q \in Cut(facts, f) : q.vf = Zero \/ q.vf < ValidFrom(f)}}

\* The slip: the remainder from the old start.
AfterWhole(facts, f) ==
    {Copy(p, p.vf, p.vt, f.updated) :
        p \in {q \in Cut(facts, f) :
                  f.vt # Zero /\ (q.vt = Zero \/ q.vt > f.vt)}}

After(facts, f) ==
    {Copy(p, f.vt, p.vt, f.updated) :
        p \in {q \in Cut(facts, f) :
                  f.vt # Zero /\ (q.vt = Zero \/ q.vt > f.vt)}}

\* The slips: believed since it holds, and a stamp left at clock precision.
NewVersionBackdated(f) ==
    [key |-> f.key, line |-> f.line, tags |-> f.tags, ttl |-> f.ttl,
     updated |-> Sec(f.updated),
     vf |-> Sec(ValidFrom(f)), vt |-> Sec(f.vt),
     tf |-> Sec(ValidFrom(f)), tt |-> Zero, deleted |-> Zero]

NewVersionSubSecond(f) ==
    [key |-> f.key, line |-> f.line, tags |-> f.tags, ttl |-> f.ttl,
     updated |-> Sec(f.updated),
     vf |-> Sec(ValidFrom(f)), vt |-> Sec(f.vt),
     tf |-> f.updated, tt |-> Zero, deleted |-> Zero]

NewVersion(f) ==
    [key |-> f.key, line |-> f.line, tags |-> f.tags, ttl |-> f.ttl,
     updated |-> Sec(f.updated),
     vf |-> Sec(ValidFrom(f)), vt |-> Sec(f.vt),
     tf |-> Sec(f.updated), tt |-> Zero, deleted |-> Zero]

\* Put, one transaction.  A set of rows: two rows that agree on every column
\* but the row id are one.
Put(facts, f) ==
    (facts \ Cut(facts, f))
        \cup {Close(p, f.updated) : p \in Cut(facts, f)}
        \cup Before(facts, f)
        \cup After(facts, f)
        \cup {NewVersion(f)}

\* The slip: rows deleted instead of marked.
ForgetErases(facts, D, at) == facts \ D

\* Stop believing the versions in D, at the time the caller stamped.
Forget(facts, D, at) ==
    (facts \ D) \cup {[p EXCEPT !.deleted = Sec(at), !.tt = Sec(at)] : p \in D}

\* The slip: only what holds at the moment is forgotten.
DeleteLiveByEntity(facts, k, at) ==
    Forget(facts, {p \in facts : p.key = k /\ Live(p, at)}, at)

DeleteByEntity(facts, k, at) ==
    Forget(facts, {p \in facts : p.key = k /\ Believed(p)}, at)

\* An empty tag list selects nothing (the statement is not run).
DeleteByTags(facts, tags, at) ==
    Forget(facts, {p \in facts : tags # {} /\ tags \subseteq p.tags /\ Believed(p)}, at)

PurgeExpired(facts, now) == {p \in facts : ~(p.ttl > 0 /\ Expired(p, now))}

-----------------------------------------------------------------------------
(* The shape of the rows, as every statement above leaves it.               *)

\* A row as Put and the deletes leave it.
WellFormed(v) ==
    /\ Sec(v.vf) = v.vf
    /\ Sec(v.vt) = v.vt
    /\ v.tf # Zero
    /\ v.deleted # Zero => v.tt # Zero

\* Two rows cut from the same stored fact.
SameFact(v, w) ==
    /\ v.key = w.key /\ v.line = w.line /\ v.tags = w.tags
    /\ v.ttl = w.ttl /\ v.updated = w.updated

\* No transaction time of v is later than s.
Stamped(v, s) == v.tf <= s /\ v.tt <= s

-----------------------------------------------------------------------------
(* What a reader is told.                                                   *)

\* The contents believed now about the moment m.
Belief(facts, k, m) ==
    {v.line : v \in {w \in facts : w.key = k /\ Believed(w) /\ Covers(w, m)}}

\* The contents believed at t about the moment m.
BeliefAt(facts, k, t, m) ==
    {v.line : v \in {w \in facts : w.key = k /\ BelievedAt(w, t) /\ Covers(w, m)}}
=============================================================================
