------------------------------- MODULE Store -------------------------------
(***************************************************************************)
(* The memory store (type Store): every call is appended to the markdown   *)
(* log, the source of truth, and then applied to the index, a cache that   *)
(* rescan rebuilds by replaying the log.                                   *)
(*                                                                         *)
(* A process runs one call at a time (Store.mu); todo[p] is what is left of *)
(* the call p is in.  Between two steps the clock moves, another process   *)
(* on the same directory takes its own, and the call may fail or the       *)
(* process die, which leaves the rest undone: a restart does not rescan.   *)
(***************************************************************************)
EXTENDS Bitemporal, Sequences, FiniteSets, SequencesExt

CONSTANTS Writers,      \* processes that store and forget: a server, stdio sessions
          Maintainers,  \* processes that rescan and prune: a server, the command line
          Keys, NoKey,  \* NoKey: a forget that names tags only
          Tags,
          TTLs,         \* the ttl arguments of stores
          Bounds,       \* the valid_from and valid_to arguments, in ticks
          Moments,      \* the moments readers ask about
          MaxCount,     \* the configured number of memories
          MayFail,      \* whether calls fail or die half-way
          MaxTick,      \* the clock stops there
          MaxLog        \* no call starts that could write more entries

ASSUME StoreAssumption ==
    /\ NoKey \notin Keys
    /\ TTLs \subseteq Int
    /\ Bounds \subseteq {t \in Nat : t = Zero \/ t >= Resolution}
    /\ Moments \subseteq {m \in Nat : m >= Resolution /\ Sec(m) = m}
    /\ MayFail \in BOOLEAN
    /\ MaxCount \in Nat /\ MaxTick \in Nat /\ MaxLog \in Nat

Procs == Writers \cup Maintainers

VARIABLES clock,   \* ticks
          log,     \* the entries of the daily files, in file order
          facts,   \* the rows of the index
          todo,    \* todo[p]: the steps left of p's call
          lost,    \* auxiliary: some entry was not applied since the last rescan
          told     \* auxiliary: what was answered as of the seconds gone by

vars == <<clock, log, facts, todo, lost, told>>

-----------------------------------------------------------------------------
(* Entries of the log, and the steps of the calls.                          *)

EntryType ==
    [op : {"store", "delete", "delete_tags"}, key : Keys \cup {NoKey},
     tags : SUBSET Tags, ttl : Int, updated : Ticks, vf : Ticks, vt : Ticks]

\* The log keeps whole seconds, and a ttl only when there is one.
LogType ==
    {e \in EntryType : /\ e.ttl >= 0
                       /\ Sec(e.updated) = e.updated
                       /\ Sec(e.vf) = e.vf /\ Sec(e.vt) = e.vt}

Steps ==
    [do : {"stamp", "append"}, e : EntryType]
        \cup [do : {"apply"}, e : EntryType, line : Nat]
        \cup [do : {"read", "done"}]

Fact(k, tags, ttl, from, to) ==
    [op |-> "store", key |-> k, tags |-> tags, ttl |-> ttl,
     updated |-> Zero, vf |-> from, vt |-> to]

Tombstone(op, k, tags, at) ==
    [op |-> op, key |-> k, tags |-> tags, ttl |-> 0,
     updated |-> at, vf |-> Zero, vt |-> Zero]

\* The slip: an entry kept as it is in memory.
WrittenInFull(e) == e

\* What the markdown keeps of an entry: RFC3339 times, a positive ttl only.
Written(e) ==
    [e EXCEPT !.updated = Sec(@), !.vf = Sec(@), !.vt = Sec(@),
              !.ttl = IF @ > 0 THEN @ ELSE 0]

\* The slip: the index before the log.
WriteBehind(e) == << [do |-> "apply", e |-> e, line |-> 0], [do |-> "append", e |-> e] >>

\* Log first, index second; the line is known once the entry is in the log.
Write(e) == << [do |-> "append", e |-> e], [do |-> "apply", e |-> e, line |-> 0] >>

ApplyEntry(S, e, line) ==
    CASE e.op = "store" ->
            Put(S, [key |-> e.key, line |-> line, tags |-> e.tags, ttl |-> e.ttl,
                    updated |-> e.updated, vf |-> e.vf, vt |-> e.vt])
      [] e.op = "delete" -> DeleteByEntity(S, e.key, e.updated)
      [] e.op = "delete_tags" -> DeleteByTags(S, e.tags, e.updated)

\* The steps that apply the entries of l at the places s.
Applying(l, s) == [n \in DOMAIN s |-> [do |-> "apply", e |-> l[s[n]], line |-> s[n]]]

\* The slips: entries of one second in reverse, tombstones for tags ignored.
ReplayUnstable(l, now) ==
    LET Earlier(i, j) == \/ l[i].updated < l[j].updated
                         \/ l[i].updated = l[j].updated /\ i > j
    IN  {Applying(l, s) : s \in
            {o \in [1..Len(l) -> 1..Len(l)] :
                \A m, n \in DOMAIN o : m < n => Earlier(o[m], o[n])}}

ReplayNoTags(l, now) ==
    LET kept == {i \in 1..Len(l) : l[i].op # "delete_tags"}
    IN  {Applying(l, s) : s \in
            {o \in [1..Cardinality(kept) -> kept] :
                \A m, n \in DOMAIN o : m < n => o[m] < o[n]}}

\* The replay of the log l (a set of one): by time, entries of one second in
\* file order, without the facts whose time to live has elapsed.
Replay(l, now) ==
    LET kept == {i \in 1..Len(l) :
                    ~(/\ l[i].op = "store" /\ l[i].ttl > 0
                      /\ l[i].updated + Seconds(l[i].ttl) < now)}
        Earlier(i, j) == \/ l[i].updated < l[j].updated
                         \/ l[i].updated = l[j].updated /\ i < j
    IN  {Applying(l, s) : s \in
            {o \in [1..Cardinality(kept) -> kept] :
                \A m, n \in DOMAIN o : m < n => Earlier(o[m], o[n])}}

-----------------------------------------------------------------------------

TypeOK ==
    /\ clock \in Ticks
    /\ log \in Seq(LogType)
    /\ facts \subseteq VersionType(Keys, Tags)
    /\ todo \in [Procs -> Seq(Steps)]
    /\ lost \in BOOLEAN
    /\ told \subseteq [at : Moments, answers : [Keys -> [Moments -> SUBSET Nat]]]

Init ==
    /\ clock = Resolution
    /\ log = <<>>
    /\ facts = {}
    /\ todo = [p \in Procs |-> <<>>]
    /\ lost = FALSE
    /\ told = {}

Idle(p) == todo[p] = <<>>

At(p, step) == ~Idle(p) /\ Head(todo[p]).do = step

\* Entries that calls under way may still write.
Pending ==
    UNION {{<<p, i>> : i \in {j \in DOMAIN todo[p] : todo[p][j].do \in {"stamp", "append"}}} :
              p \in Procs}

Room(n) == Len(log) + Cardinality(Pending) + n <= MaxLog

\* No call is under way and none was cut short since the last rescan.
Quiet == ~lost /\ \A p \in Procs : Idle(p)

AnswersAsOf(t) == [k \in Keys |-> [m \in Moments |-> BeliefAt(facts, k, t, m)]]

\* A second that ends quietly is remembered with its answers.
Tick ==
    /\ clock < MaxTick
    /\ clock' = clock + 1
    /\ told' = told \cup {[at |-> t, answers |-> AnswersAsOf(t)] :
                           t \in {u \in Moments : Quiet /\ Sec(clock) <= u /\ u < Sec(clock')}}
    /\ UNCHANGED <<log, facts, todo, lost>>

-----------------------------------------------------------------------------
(* memory_store.                                                            *)

LiveRows(S) == {v \in S : Live(v, clock)}

\* The slip: a memory that was ever stored counts as there.
IsNewEver(k) == \A v \in facts : v.key # k

IsNew(k) == \A v \in LiveRows(facts) : v.key # k

\* The checks: an interval that ends before it starts, counted from now if no
\* start is given, and a new memory when the store is full, are refused.
StoreCall(p, k, tags, ttl, from, to) ==
    /\ p \in Writers /\ Idle(p) /\ Room(1)
    /\ to # Zero => to > (IF from = Zero THEN clock ELSE from)
    /\ ~(IsNew(k) /\ Cardinality(LiveRows(facts)) >= MaxCount)
    /\ todo' = [todo EXCEPT ![p] =
                  << [do |-> "stamp", e |-> Fact(k, tags, ttl, from, to)] >>]
    /\ UNCHANGED <<clock, log, facts, lost, told>>

\* The clock is read again: this is the transaction time.
Stamp(p) ==
    /\ At(p, "stamp")
    /\ todo' = [todo EXCEPT ![p] = Write([Head(@).e EXCEPT !.updated = clock])]
    /\ UNCHANGED <<clock, log, facts, lost, told>>

-----------------------------------------------------------------------------
(* memory_forget: a tombstone for the key, then one for the tags.           *)

ForgetCall(p, k, tags) ==
    /\ p \in Writers /\ Idle(p) /\ Room(2)
    /\ k # NoKey \/ tags # {}
    /\ todo' = [todo EXCEPT ![p] =
          (IF k # NoKey THEN Write(Tombstone("delete", k, {}, clock)) ELSE <<>>)
          \o (IF tags # {} THEN Write(Tombstone("delete_tags", NoKey, tags, clock)) ELSE <<>>)]
    /\ UNCHANGED <<clock, log, facts, lost, told>>

-----------------------------------------------------------------------------
(* The two steps every write ends with.                                     *)

AppendLog(p) ==
    /\ At(p, "append")
    /\ log' = Append(log, Written(Head(todo[p]).e))
    /\ todo' = [todo EXCEPT ![p] =
                  [i \in 1..(Len(@) - 1) |->
                     IF i = 1 THEN [@[2] EXCEPT !.line = Len(log) + 1] ELSE @[i + 1]]]
    /\ UNCHANGED <<clock, facts, lost, told>>

ApplyIndex(p) ==
    /\ At(p, "apply")
    /\ LET s == Head(todo[p])
       IN  facts' = ApplyEntry(facts, s.e, s.line)
    /\ todo' = [todo EXCEPT ![p] = Tail(@)]
    /\ UNCHANGED <<clock, log, lost, told>>

-----------------------------------------------------------------------------
(* Rescan: drop the tables, read every file, replay.                        *)

Reset(p) ==
    /\ p \in Maintainers /\ Idle(p)
    /\ facts' = {}
    /\ todo' = [todo EXCEPT ![p] = << [do |-> "read"] >>]
    /\ UNCHANGED <<clock, log, lost, told>>

ReadLog(p) ==
    /\ At(p, "read")
    /\ \E steps \in Replay(log, clock) :
          todo' = [todo EXCEPT ![p] = Append(steps, [do |-> "done"])]
    /\ UNCHANGED <<clock, log, facts, lost, told>>

Rescanned(p) ==
    /\ At(p, "done")
    /\ todo' = [todo EXCEPT ![p] = <<>>]
    /\ lost' = FALSE
    /\ UNCHANGED <<clock, log, facts, told>>

-----------------------------------------------------------------------------

Prune(p) ==
    /\ p \in Maintainers /\ Idle(p)
    /\ facts' = PurgeExpired(facts, clock)
    /\ UNCHANGED <<clock, log, todo, lost, told>>

\* A step returns an error, or the process dies: the rest of the call is not
\* done.  An entry in the log and not in the index is lost to readers.
Fail(p) ==
    /\ MayFail /\ ~Idle(p)
    /\ todo' = [todo EXCEPT ![p] = <<>>]
    /\ lost' = (lost \/ Head(todo[p]).do \in {"apply", "read"})
    /\ UNCHANGED <<clock, log, facts, told>>

Next ==
    \/ Tick
    \/ \E p \in Procs :
          \/ \E k \in Keys, tags \in SUBSET Tags, ttl \in TTLs, from, to \in Bounds :
                StoreCall(p, k, tags, ttl, from, to)
          \/ Stamp(p)
          \/ \E k \in Keys \cup {NoKey}, tags \in SUBSET Tags : ForgetCall(p, k, tags)
          \/ AppendLog(p)
          \/ ApplyIndex(p)
          \/ Reset(p)
          \/ ReadLog(p)
          \/ Rescanned(p)
          \/ Prune(p)
          \/ Fail(p)

Spec == Init /\ [][Next]_vars

-----------------------------------------------------------------------------
(* Properties.                                                              *)

\* The index a rescan would build now.
Rebuilt ==
    LET steps == CHOOSE s \in Replay(log, clock) : TRUE
    IN  FoldLeft(LAMBDA S, s : ApplyEntry(S, s.e, s.line), {}, steps)

UsualAnswer(S, k) == {v.line : v \in {w \in LiveRows(S) : w.key = k}}

\* The index only caches the log: whenever no call is under way and none was
\* cut short, a rescan would change no usual answer.
Reconstructible ==
    Quiet => \A k \in Keys : UsualAnswer(facts, k) = UsualAnswer(Rebuilt, k)

\* No fact in the log has a time to live.
Timeless == \A i \in 1..Len(log) : log[i].ttl = 0

\* ... and no answer about other moments or as of earlier ones either, although
\* the calls compared validities at clock precision, in arrival order, and the
\* rescan compares whole seconds in sorted order.
HistoryReconstructible ==
    Quiet /\ Timeless => \A k \in Keys, m \in Moments :
        /\ Belief(facts, k, m) = Belief(Rebuilt, k, m)
        /\ \A t \in Moments : BeliefAt(facts, k, t, m) = BeliefAt(Rebuilt, k, t, m)

\* With times to live, a rescan may bring back what an expired fact had
\* replaced, but it never takes away an answer the store gives.
RescanKeepsAnswers ==
    Quiet => \A k \in Keys : UsualAnswer(facts, k) \subseteq UsualAnswer(Rebuilt, k)

\* Write-ahead: the index holds nothing the log does not say.  Every row comes
\* from a store entry of the log and claims no moment outside the entry's
\* validity, after crashes and half-done rescans too.
WriteAhead ==
    \A v \in facts :
        /\ v.line \in 1..Len(log)
        /\ LET e == log[v.line]
           IN  /\ e.op = "store" /\ e.key = v.key /\ e.tags = v.tags
               /\ e.updated = v.updated
               /\ \A m \in Moments : Covers(v, m) =>
                     /\ (IF e.vf = Zero THEN e.updated ELSE e.vf) <= m
                     /\ e.vt = Zero \/ m < e.vt

\* Through failures, rescans and replays, and with several processes on one
\* directory, a key never has two contents believed about a moment.
OneBelief ==
    \A k \in Keys, m \in Moments : \A x, y \in Belief(facts, k, m) : x = y

\* With one process, which stamps its calls in order, neither had it as of any
\* earlier moment.
OneAnswer ==
    /\ OneBelief
    /\ \A k \in Keys, t, m \in Moments : \A x, y \in BeliefAt(facts, k, t, m) : x = y

\* A key never has two believed rows about a moment: a read with a limit, the
\* count and the ranking see each memory once.
OneRow ==
    \A v, w \in facts :
        v # w /\ v.key = w.key /\ Believed(v) /\ Believed(w)
            => \A m \in Moments : ~(Covers(v, m) /\ Covers(w, m))

\* An entry whose validity ends before it starts.
Inverted(e) ==
    e.op = "store" /\ e.vt # Zero /\ e.vt < (IF e.vf = Zero THEN e.updated ELSE e.vf)

\* OneRow holds as long as no such entry was stored.
OrderedOneRow ==
    (\A i \in 1..Len(log) : ~Inverted(log[i])) => OneRow

\* What mem7 answered as of a second, once the second is over, it answers
\* forever: through later stores and forgets, crashes and rescans.
HistoryKept ==
    Quiet /\ Timeless => \A r \in told : AnswersAsOf(r.at) = r.answers

\* The ceiling on live memories holds when no fact is given a start later than
\* its own time (a memory that becomes true later is not counted when stored)
\* nor a ttl (a rescan may bring back what an expired fact had replaced), and
\* none is forgotten by tags (which may leave an older version that is cut off
\* from now, and holds again later).
SoftCeiling ==
    Timeless /\ (\A i \in 1..Len(log) : log[i].vf <= log[i].updated /\ log[i].op # "delete_tags")
        => Cardinality(LiveRows(facts)) <= MaxCount
=============================================================================
