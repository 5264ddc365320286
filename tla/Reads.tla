------------------------------- MODULE Reads -------------------------------
(***************************************************************************)
(* Who calls, what it may write, and what the reads that need no ranking   *)
(* answer: the checks of caller.go around memory_store and memory_forget,  *)
(* memory_recall, memory_list (rows of the index) and memory_history (a    *)
(* fold over the log).  Calls hold Store.mu from start to end, so each is   *)
(* one step, in which the clock goes on from clock to clock'; what happens  *)
(* between the steps of a call that fails is module Store.                  *)
(***************************************************************************)
EXTENDS Bitemporal, Sequences, FiniteSets, SequencesExt

CONSTANTS Agents, NoAgent,  \* identities; NoAgent is the empty name
          Scopes,           \* what each agent reads, and the administrators
          NoScopes,         \* the value of Scopes without a scopes file
          Requests,         \* [authenticated, name, declared]: whether a call carries
                            \* the token, the identity and the agent it names
          Keys, NoKey, Tags,
          Bounds,           \* the valid_from and valid_to arguments
          MaxCount, MaxTick, MaxLog

Names == Agents \cup {NoAgent}

ASSUME ReadsAssumption ==
    /\ NoAgent \notin Agents
    /\ NoKey \notin Keys
    /\ Scopes = NoScopes \/
          /\ Scopes.admin \subseteq Agents
          /\ \A a \in DOMAIN Scopes.read : Scopes.read[a] \subseteq Names
    /\ Requests \subseteq [authenticated : BOOLEAN, name : Names, declared : Names]
    /\ Bounds \subseteq {t \in Nat : t = Zero \/ t >= Resolution}
    /\ MaxCount \in Nat /\ MaxTick \in Nat /\ MaxLog \in Nat

VARIABLES clock,   \* ticks
          log,     \* the entries of the daily files
          facts    \* the rows of the index

vars == <<clock, log, facts>>

EntryType ==
    [op : {"store", "delete", "delete_tags"}, key : Keys \cup {NoKey},
     tags : SUBSET Tags, agent : Names, updated : Ticks, vf : Ticks, vt : Ticks]

TypeOK ==
    /\ clock \in Ticks
    /\ log \in Seq(EntryType)
    /\ facts \subseteq VersionType(Keys, Tags)

-----------------------------------------------------------------------------
(* Callers and scopes.                                                      *)

\* An identity counts only on a request that carried the bearer token.
CallerFrom(r) == IF r.authenticated THEN r.name ELSE NoAgent

IsAdmin(c) == c \in Scopes.admin

\* The patterns of a scopes file are the set of the names they match.
CanRead(c, owner) ==
    \/ c = owner
    \/ IsAdmin(c)
    \/ c \in DOMAIN Scopes.read /\ owner \in Scopes.read[c]

Scoped(c) == Scopes # NoScopes /\ c # NoAgent /\ ~IsAdmin(c)

\* The rows of an entry repeat its agent.
Owner(v) == log[v.line].agent

Visible(rows, c) == {v \in rows : Scoped(c) => CanRead(c, Owner(v))}

-----------------------------------------------------------------------------
(* The rows a read selects.                                                 *)

Matches(v, k, tags, agent) ==
    /\ k # NoKey => v.key = k
    /\ agent # NoAgent => Owner(v) = agent
    /\ tags \subseteq v.tags

SelectFacts(k, tags, agent, asOf, validAt, now) ==
    {v \in facts : Selected(v, asOf, validAt, now) /\ Matches(v, k, tags, agent)}

\* ORDER BY updated_at DESC LIMIT n: rows of one second come in any order.
Limited(rows, n) ==
    {R \in SUBSET rows :
        /\ Cardinality(R) = (IF Cardinality(rows) < n THEN Cardinality(rows) ELSE n)
        /\ \A v \in R, w \in rows \ R : w.updated <= v.updated}

\* The slip: the versions believed, whether they hold now or not.
ExistingBelieved(k, now) ==
    Limited({v \in facts : v.key = k /\ Believed(v)}, 1)

\* The version a call on the key k meets, if any.
Existing(k, now) == Limited(SelectFacts(k, {}, NoAgent, Zero, Zero, now), 1)

-----------------------------------------------------------------------------
(* memory_store and memory_forget.                                          *)

Init == clock = Resolution /\ log = <<>> /\ facts = {}

Tick ==
    /\ clock < MaxTick
    /\ clock' = clock + 1
    /\ UNCHANGED <<log, facts>>

Count(now) == Cardinality(SelectFacts(NoKey, {}, NoAgent, Zero, Zero, now))

\* A scoped caller may not touch a key whose current version is another's.
BelongsToOther(c, existing) == Scoped(c) /\ \E v \in existing : Owner(v) # c

\* An identity overrides the agent declared; a store that names nobody keeps
\* the name of the version it meets.
Author(c, declared, existing) ==
    IF c # NoAgent THEN c
    ELSE IF declared # NoAgent \/ existing = {} THEN declared
    ELSE Owner(CHOOSE v \in existing : TRUE)

\* The clock is read for the default start, by each of two queries, and for the
\* stamp.
StoreAs(c, declared, k, tags, from, to) ==
    /\ Len(log) < MaxLog
    /\ clock' \in clock..MaxTick
    /\ to # Zero => to > (IF from = Zero THEN clock ELSE from)
    /\ \E counted \in clock..clock' : \E met \in counted..clock' :
          \E existing \in Existing(k, met) :
             /\ ~BelongsToOther(c, existing)
             /\ existing = {} => Count(counted) < MaxCount
             /\ log' = Append(log, [op |-> "store", key |-> k, tags |-> tags,
                                    agent |-> Author(c, declared, existing),
                                    updated |-> Sec(clock'), vf |-> Sec(from), vt |-> Sec(to)])
    /\ facts' = Put(facts, [key |-> k, line |-> Len(log) + 1, tags |-> tags, ttl |-> 0,
                            updated |-> clock', vf |-> from, vt |-> to])

Tombstones(c, declared, k, tags) ==
    LET Stone(op, key, which) ==
            [op |-> op, key |-> key, tags |-> which,
             agent |-> IF c # NoAgent THEN c ELSE declared,
             updated |-> Sec(clock), vf |-> Zero, vt |-> Zero]
    IN  (IF k # NoKey THEN << Stone("delete", k, {}) >> ELSE <<>>)
            \o (IF tags # {} THEN << Stone("delete_tags", NoKey, tags) >> ELSE <<>>)

\* The tombstones are stamped before the key is looked up.
ForgetAs(c, declared, k, tags) ==
    /\ Len(log) + Len(Tombstones(c, declared, k, tags)) <= MaxLog
    /\ k # NoKey \/ tags # {}
    /\ Scoped(c) => tags = {}
    /\ clock' \in clock..MaxTick
    /\ \E met \in clock..clock' : \E existing \in Existing(k, met) : ~BelongsToOther(c, existing)
    /\ log' = log \o Tombstones(c, declared, k, tags)
    /\ facts' = DeleteByTags(IF k # NoKey THEN DeleteByEntity(facts, k, clock) ELSE facts,
                             tags, clock)

\* toolsCall: the caller comes from the request, the rest from its arguments.
ToolsCall(r) ==
    \/ \E k \in Keys, tags \in SUBSET Tags, from, to \in Bounds :
          StoreAs(CallerFrom(r), r.declared, k, tags, from, to)
    \/ \E k \in Keys \cup {NoKey}, tags \in SUBSET Tags :
          ForgetAs(CallerFrom(r), r.declared, k, tags)

Next ==
    \/ Tick
    \/ \E r \in Requests : ToolsCall(r)

Spec == Init /\ [][Next]_vars

-----------------------------------------------------------------------------
(* What the reads answer.                                                   *)

\* memory_recall: the limit is taken before the rows the caller may not read
\* are left out.
Recall(c, k, tags, agent, limit, asOf, validAt) ==
    {Visible(R, c) : R \in Limited(SelectFacts(k, tags, agent, asOf, validAt, clock), limit)}

\* memory_list, which has no limit.
List(c, tags, agent, asOf, validAt) ==
    Visible(SelectFacts(NoKey, tags, agent, asOf, validAt, clock), c)

\* The slip: no tag but those wanted.
HasOnly(have, want) == have \subseteq want

HasAll(have, want) == want \subseteq have /\ want # {}

\* The slip: who stored the key first owns its life.
FirstOwner(life, e) == IF life.events = <<>> THEN e.agent ELSE life.owner

LifeOwner(life, e) == e.agent

\* One entry of the log in the life of the key k: the line of the last store,
\* its tags, its owner, and whether it lives.
Retold(life, i, k) ==
    LET e == log[i]
        Event(what) == Append(life.events, [what |-> what, line |-> i])
    IN  IF e.op = "store" /\ e.key = k
        THEN [events |-> Event(IF life.live THEN "update" ELSE "store"),
              tags |-> e.tags, owner |-> LifeOwner(life, e), live |-> TRUE]
        ELSE IF /\ life.live
                /\ \/ e.op = "delete" /\ e.key = k
                   \/ e.op = "delete_tags" /\ HasAll(life.tags, e.tags)
        THEN [life EXCEPT !.events = Event("delete"), !.live = FALSE]
        ELSE life

Life(k) ==
    FoldLeft(LAMBDA life, i : Retold(life, i, k),
             [events |-> <<>>, tags |-> {}, owner |-> NoAgent, live |-> FALSE],
             [i \in 1..Len(log) |-> i])

\* memory_history: hidden as a whole from who may not read the last owner.
History(c, k) ==
    IF Scoped(c) /\ ~CanRead(c, Life(k).owner) THEN <<>> ELSE Life(k).events

-----------------------------------------------------------------------------
(* Properties.                                                              *)

LastStore(k) ==
    LET stores == {i \in 1..Len(log) : log[i].op = "store" /\ log[i].key = k}
    IN  CHOOSE i \in stores : \A j \in stores : j <= i

\* The history keeps one flag and the tags of one entry for a key that may have
\* several versions alive; still, it ends on a store or an update if and only
\* if the index believes some part of what was stored last.
HistoryLive ==
    \A k \in Keys :
        Life(k).live <=> \E v \in facts : v.key = k /\ Believed(v) /\ v.line = LastStore(k)

\* Only stores without a validity of their own.
Open(k) == \A i \in 1..Len(log) : log[i].key = k => log[i].vf = Zero /\ log[i].vt = Zero

\* The two sources agree as long as a key has open-ended stores only: what a
\* recall or a list shows a caller is what the history shows it as the key's
\* last event, and a life the history shows as going on is recalled, by the
\* same callers, although one filters rows by their agent and the other hides
\* whole keys.
RecallAgrees ==
    \A c \in Names, k \in {key \in Keys : Open(key)} :
        LET told == History(c, k)
            alive == IF told # <<>> /\ Last(told).what # "delete" THEN {Last(told).line} ELSE {}
        IN  /\ \A answer \in Recall(c, k, {}, NoAgent, 1, Zero, Zero) :
                  {v.line : v \in answer} = alive
            /\ {v.line : v \in {w \in List(c, {}, NoAgent, Zero, Zero) : w.key = k}} = alive

\* A step that is a call of c: its arguments are those that its last entry, which
\* names c, keeps.
CallOf(c) ==
    /\ log' # log /\ Last(log').agent = c
    /\ LET e == Last(log')
           Given(t) == {b \in Bounds : Sec(b) = t}
       IN  \/ /\ e.key # NoKey
              /\ \E from \in Given(e.vf), to \in Given(e.vt) :
                    StoreAs(c, NoAgent, e.key, e.tags, from, to)
           \/ ForgetAs(c, NoAgent, e.key, e.tags)

\* A scoped caller leaves every version of a key alone, past and future ones too,
\* if what holds of it as long as the call lasts is another agent's, although it
\* is checked against one row, at a moment in the call.
OthersLiveKept ==
    [][\A c \in Agents : Scoped(c) /\ CallOf(c) =>
         \A v, w \in facts :
            Owner(v) # c /\ v.key = w.key /\ (\A t \in clock..clock' : Live(v, t))
                => w \in facts']_vars

\* "only administrators overwrite or forget another agent's memory"
\* (README.md:253): not so of a key of which nothing of another's holds now.
OthersKept ==
    [][\A c \in Agents : Scoped(c) /\ CallOf(c) =>
         \A v \in facts : Owner(v) # c /\ Believed(v) => v \in facts']_vars
=============================================================================
