----------------------------- MODULE ReadsProofs -----------------------------
(***************************************************************************)
(* A scoped caller touches no version of a key of which another agent's     *)
(* memory holds as long as the call lasts, whatever the agents, the scopes, *)
(* the keys, the bounds given and the resolution of the clock: all that     *)
(* holds of a key at one moment comes of one entry, hence of one agent, so  *)
(* the one row a call is checked against, at a moment of its own, speaks    *)
(* for the others.                                                          *)
(***************************************************************************)
EXTENDS Reads, BitemporalProofs

-----------------------------------------------------------------------------
(* The row a call is checked against.                                       *)

\* LIMIT 1 of some rows is one of them.
LEMMA LimitedOne ==
    ASSUME NEW rows, IsFiniteSet(rows), NEW v \in rows, NEW R \in Limited(rows, 1)
    PROVE  R \subseteq rows /\ \E w \in R : TRUE
<1>1. Cardinality(rows) \in Nat /\ Cardinality(rows) # 0
  BY FS_CardinalityType, FS_EmptySet
<1>2. R \in SUBSET rows /\ Cardinality(R) = 1
  BY <1>1 DEF Limited
<1>3. R # {}
  BY <1>2, FS_EmptySet
<1> QED
  BY <1>2, <1>3

RowShape(v) == WellFormed(v) /\ Stamped(v, Sec(clock)) /\ v.line \in 1..Len(log)

\* Every call puts one content and is stamped by the clock of the lock's
\* holder, so rows keep their shape and a moment its one content.
IInv ==
    /\ TypeOK
    /\ clock >= Resolution
    /\ IsFiniteSet(facts)
    /\ \A v \in facts : RowShape(v)
    /\ OneIn(facts)

\* A moment at or after the clock, in whole seconds.
LEMMA LaterSec ==
    ASSUME IInv, NEW at \in Nat, at >= clock
    PROVE  /\ at >= Resolution /\ Sec(at) \in Moment
           /\ Sec(clock) \in Nat /\ Sec(at) \in Nat /\ Sec(clock) <= Sec(at)
<1>1. clock \in Nat /\ clock >= Resolution /\ Resolution \in Nat
  BY ResolutionAssumption DEF IInv, TypeOK, Ticks
<1>2. /\ at >= Resolution /\ Sec(clock) \in Nat /\ Sec(at) \in Nat
      /\ Sec(clock) <= Sec(at) /\ Sec(at) >= Resolution
  BY <1>1, SecType, SecMonotone, SecResolution, ResolutionAssumption
<1> QED
  BY <1>2, SecIdempotent DEF Moment

\* What is stamped by now is stamped by then.
LEMMA LaterShape ==
    ASSUME IInv, NEW at \in Nat, at >= clock, NEW v \in VersionType(Keys, Tags),
           Stamped(v, Sec(clock))
    PROVE  Stamped(v, Sec(at))
<1>1. Sec(clock) \in Nat /\ Sec(at) \in Nat /\ Sec(clock) <= Sec(at)
  BY LaterSec
<1>2. v.updated \in Nat /\ v.tf \in Nat /\ v.tt \in Nat /\ v.deleted \in Nat
  BY DEF VersionType, Ticks
<1> QED
  BY <1>1, <1>2 DEF Stamped

\* What a call on k meets when something of k holds: a row of the same agent.
LEMMA ExistingSpeaks ==
    ASSUME IInv, NEW met \in Nat, met >= clock,
           NEW k, k # NoKey, NEW v \in facts, v.key = k, Live(v, met),
           NEW existing \in Existing(k, met)
    PROVE  \E w \in existing : Owner(w) = Owner(v)
<1> DEFINE rows == SelectFacts(k, {}, NoAgent, Zero, Zero, met)
<1>1. IsFiniteSet(rows)
  BY FS_Subset DEF IInv, SelectFacts
<1>2. v \in rows
  BY DEF SelectFacts, Selected, Matches
<1>3. PICK w \in existing : w \in rows
  BY <1>1, <1>2, LimitedOne DEF Existing
<1>4. w \in facts /\ Live(w, met) /\ w.key = k
  BY <1>3 DEF SelectFacts, Selected, Matches
<1>5. Sec(met) \in Moment
  BY LaterSec
<1>6. v.line \in Belief(facts, k, Sec(met)) /\ w.line \in Belief(facts, k, Sec(met))
  BY <1>4 DEF Belief, Live
<1>7. v.line = w.line
  BY <1>5, <1>6 DEF IInv, OneIn
<1> QED
  BY <1>7 DEF Owner

-----------------------------------------------------------------------------
(* The invariant.                                                           *)

\* Forgetting keeps it; the log may have grown.
LEMMA ForgetKeeps ==
    ASSUME IInv, NEW S \in SUBSET VersionType(Keys, Tags), IsFiniteSet(S), OneIn(S),
           \A v \in S : RowShape(v), NEW D \in SUBSET S
    PROVE  LET R == Forget(S, D, clock)
           IN  /\ R \in SUBSET VersionType(Keys, Tags)
               /\ IsFiniteSet(R)
               /\ OneIn(R)
               /\ \A v \in R : RowShape(v)
<1> DEFINE R == Forget(S, D, clock)
<1>1. clock \in Nat /\ clock >= Resolution
  BY DEF IInv, TypeOK, Ticks
<1>2. \A v \in S : WellFormed(v) /\ Stamped(v, Sec(clock))
  BY DEF RowShape
<1>3. ASSUME NEW w \in R
      PROVE  /\ w \in VersionType(Keys, Tags) /\ WellFormed(w) /\ Stamped(w, Sec(clock))
             /\ \E p \in S : SameFact(w, p)
  BY <1>1, <1>2, ForgetKeepsRows
<1>4. \A w \in R : RowShape(w)
  BY <1>3 DEF RowShape, SameFact
<1>5. IsFiniteSet(R)
  <2> DEFINE g == [p \in D |-> [p EXCEPT !.deleted = Sec(clock), !.tt = Sec(clock)]]
  <2>1. IsFiniteSet(D) /\ IsFiniteSet(S \ D)
    BY FS_Subset
  <2>2. IsFiniteSet({g[p] : p \in D})
    <3>1. DOMAIN g = D
      OBVIOUS
    <3> HIDE DEF g
    <3> QED
      BY <2>1, <3>1, FiniteImage
  <2>3. R = (S \ D) \cup {g[p] : p \in D}
    BY DEF Forget
  <2> HIDE DEF R, g
  <2> QED
    BY <2>1, <2>2, <2>3, FS_Union
<1>6. OneIn(R)
  <2>1. ASSUME NEW k, NEW m
        PROVE  Belief(R, k, m) \subseteq Belief(S, k, m)
    <3>1. Belief(R, k, m) = Belief(S \ D, k, m)
      BY <1>1, ForgetBelief
    <3> QED
      BY <3>1 DEF Belief
  <2> HIDE DEF R
  <2> QED
    BY <2>1 DEF OneIn
<1> QED
  BY <1>3, <1>4, <1>5, <1>6

\* So does storing.
LEMMA PutKeeps ==
    ASSUME IInv, NEW f \in Call(Keys, Tags), f.updated >= clock, f.line = Len(log) + 1
    PROVE  LET R == Put(facts, f)
           IN  /\ R \in SUBSET VersionType(Keys, Tags)
               /\ IsFiniteSet(R)
               /\ OneIn(R)
               /\ \A v \in R : /\ WellFormed(v) /\ Stamped(v, Sec(f.updated))
                               /\ v.line \in 1..(Len(log) + 1)
<1> DEFINE R == Put(facts, f)
           C == Cut(facts, f)
<1>1. /\ facts \in SUBSET VersionType(Keys, Tags) /\ IsFiniteSet(facts) /\ OneIn(facts)
      /\ \A v \in facts : WellFormed(v) /\ Stamped(v, Sec(clock)) /\ v.line \in 1..Len(log)
      /\ Len(log) \in Nat
  BY DEF IInv, TypeOK, RowShape
<1>0. \A v \in facts : WellFormed(v) /\ Stamped(v, Sec(f.updated))
  <2>1. f.updated \in Nat
    BY DEF Call, FactType, Ticks
  <2> QED
    BY <1>1, <2>1, LaterShape
<1>2. ASSUME NEW w \in R
      PROVE  /\ w \in VersionType(Keys, Tags) /\ WellFormed(w) /\ Stamped(w, Sec(f.updated))
             /\ w = NewVersion(f) \/ \E p \in facts : SameFact(w, p)
  BY <1>0, <1>1, PutKeepsRows
<1>3. NewVersion(f).line = Len(log) + 1
  BY NewFields
<1>4. \A w \in R : w.line \in 1..(Len(log) + 1)
  BY <1>1, <1>2, <1>3 DEF SameFact
<1>5. IsFiniteSet(R)
  <2> DEFINE close == [p \in C |-> Close(p, f.updated)]
             B == {q \in C : q.vf = Zero \/ q.vf < ValidFrom(f)}
             before == [p \in B |-> Copy(p, p.vf, ValidFrom(f), f.updated)]
             A == {q \in C : f.vt # Zero /\ (q.vt = Zero \/ q.vt > f.vt)}
             after == [p \in A |-> Copy(p, f.vt, p.vt, f.updated)]
  <2>1. C \in SUBSET facts /\ B \in SUBSET facts /\ A \in SUBSET facts
    BY DEF Cut
  <2>2. /\ DOMAIN close = C /\ DOMAIN before = B /\ DOMAIN after = A
        /\ {close[p] : p \in C} = {Close(p, f.updated) : p \in C}
        /\ {before[p] : p \in B} = Before(facts, f)
        /\ {after[p] : p \in A} = After(facts, f)
    BY DEF Before, After
  <2>3. R = (facts \ C) \cup {close[p] : p \in C} \cup {before[p] : p \in B}
              \cup {after[p] : p \in A} \cup {NewVersion(f)}
    BY <2>2 DEF Put
  <2> HIDE DEF R, C, close, before, after, A, B
  <2>4. IsFiniteSet(facts \ C) /\ IsFiniteSet(C) /\ IsFiniteSet(B) /\ IsFiniteSet(A)
    BY <1>1, <2>1, FS_Subset
  <2>5. /\ IsFiniteSet({close[p] : p \in C}) /\ IsFiniteSet({before[p] : p \in B})
        /\ IsFiniteSet({after[p] : p \in A})
    BY <2>2, <2>4, FiniteImage
  <2>6. IsFiniteSet({NewVersion(f)})
    BY FS_Singleton
  <2> QED
    BY <2>3, <2>4, <2>5, <2>6, FS_Union
<1>6. OneIn(R)
  <2> SUFFICES ASSUME NEW k, NEW m \in Moment, NEW x \in Belief(R, k, m),
                      NEW y \in Belief(R, k, m)
               PROVE  x = y
    BY DEF OneIn
  <2>1. Belief(R, k, m) = IF k = f.key /\ Inside(f, m) THEN {f.line} ELSE Belief(facts, k, m)
    BY <1>1, PutBelief
  <2> HIDE DEF R
  <2> QED
    BY <1>1, <2>1 DEF OneIn
<1> QED
  BY <1>2, <1>4, <1>5, <1>6

\* It holds at the start ...
LEMMA InitIInv == Init => IInv
<1> SUFFICES ASSUME Init
             PROVE  IInv
  OBVIOUS
<1>1. TypeOK /\ clock >= Resolution
  BY ResolutionAssumption DEF Init, TypeOK, Ticks
<1>2. IsFiniteSet(facts) /\ OneIn(facts)
  BY FS_EmptySet DEF Init, OneIn, Belief
<1> QED
  BY <1>1, <1>2 DEF Init, IInv

\* Time passes: what was stamped by now is stamped by then.
LEMMA TickStep == IInv /\ Tick => IInv'
<1> SUFFICES ASSUME IInv, Tick
             PROVE  IInv'
  OBVIOUS
<1>1. /\ clock \in Nat /\ clock' = clock + 1 /\ facts' = facts /\ log' = log
      /\ clock >= Resolution /\ Resolution \in Nat
  BY ResolutionAssumption DEF IInv, TypeOK, Ticks, Tick
<1>2. Sec(clock) \in Nat /\ Sec(clock') \in Nat /\ Sec(clock) <= Sec(clock')
  BY <1>1, SecType, SecMonotone
<1>3. ASSUME NEW v \in facts
      PROVE  RowShape(v)'
  <2>1. v \in VersionType(Keys, Tags) /\ RowShape(v)
    BY DEF IInv, TypeOK
  <2> QED
    BY <1>1, <1>2, <2>1 DEF RowShape, Stamped, VersionType, Ticks
<1> QED
  BY <1>1, <1>3 DEF IInv, TypeOK, Ticks

\* The author of a store is a name: given, or met.
LEMMA AuthorNamed ==
    ASSUME IInv, NEW c \in Names, NEW declared \in Names, NEW k, NEW met,
           NEW existing \in Existing(k, met)
    PROVE  Author(c, declared, existing) \in Names
<1> DEFINE w == CHOOSE v \in existing : TRUE
           known == log[w.line].agent
<1>1. existing # {} => w \in existing
  OBVIOUS
<1>2. Author(c, declared, existing) \in {c, declared, known}
  BY DEF Author, Owner
<1>3. existing = {} => Author(c, declared, existing) \in {c, declared}
  BY DEF Author
<1> HIDE DEF w
<1>4. existing # {} => w \in facts
  BY <1>1 DEF Existing, Limited, SelectFacts
<1>5. existing # {} => w.line \in 1..Len(log)
  BY <1>4 DEF IInv, RowShape
<1>6. \A i \in 1..Len(log) : log[i].agent \in Names
  <2>1. \A i \in 1..Len(log) : log[i] \in EntryType
    BY DEF IInv, TypeOK
  <2> QED
    BY <2>1 DEF EntryType
<1>7. existing # {} => known \in Names
  BY <1>5, <1>6
<1> HIDE DEF known
<1> QED
  BY <1>2, <1>3, <1>7

\* A store, whoever calls.
LEMMA StoreStep ==
    ASSUME IInv, NEW c \in Names, NEW declared \in Names, NEW k \in Keys,
           NEW tags \in SUBSET Tags, NEW from \in Bounds, NEW to \in Bounds,
           StoreAs(c, declared, k, tags, from, to)
    PROVE  IInv'
<1> DEFINE f == [key |-> k, line |-> Len(log) + 1, tags |-> tags, ttl |-> 0,
                 updated |-> clock', vf |-> from, vt |-> to]
           entry(existing) ==
               [op |-> "store", key |-> k, tags |-> tags,
                agent |-> Author(c, declared, existing),
                updated |-> Sec(clock'), vf |-> Sec(from), vt |-> Sec(to)]
<1>0. clock' \in Nat /\ clock' >= clock /\ clock' >= Resolution /\ Sec(clock') \in Nat
  <2>1. clock' \in Nat /\ clock' >= clock
    BY ReadsAssumption DEF IInv, TypeOK, Ticks, StoreAs
  <2> QED
    BY <2>1, LaterSec
<1>1. /\ clock \in Nat /\ clock >= Resolution
      /\ from \in Nat /\ (from = Zero \/ from >= Resolution) /\ Sec(from) \in Nat
      /\ to \in Nat /\ (to = Zero \/ to >= Resolution) /\ Sec(to) \in Nat
      /\ log \in Seq(EntryType) /\ Len(log) \in Nat
  BY ReadsAssumption, SecType DEF IInv, TypeOK, Ticks
<1>2. f \in Call(Keys, Tags) /\ f.updated = clock' /\ f.line = Len(log) + 1
  BY <1>0, <1>1 DEF Call, FactType, Ticks
<1>3. facts' = Put(facts, f)
  BY DEF StoreAs
<1>4. \E met : \E existing \in Existing(k, met) : log' = Append(log, entry(existing))
  BY DEF StoreAs
<1>5. PICK met : \E existing \in Existing(k, met) : log' = Append(log, entry(existing))
  BY <1>4
<1>5a. PICK existing \in Existing(k, met) : log' = Append(log, entry(existing))
  BY <1>5
<1>5b. Author(c, declared, existing) \in Names
  BY AuthorNamed
<1>6. entry(existing) \in EntryType
  BY <1>0, <1>1, <1>5b DEF EntryType, Ticks
<1> HIDE DEF f, entry
<1>7. log' \in Seq(EntryType) /\ Len(log') = Len(log) + 1
  BY <1>1, <1>5a, <1>6
<1>8. /\ facts' \in SUBSET VersionType(Keys, Tags) /\ IsFiniteSet(facts') /\ OneIn(facts')
      /\ \A v \in facts' : /\ WellFormed(v) /\ Stamped(v, Sec(clock'))
                           /\ v.line \in 1..(Len(log) + 1)
  BY <1>0, <1>2, <1>3, PutKeeps
<1>9. TypeOK' /\ (clock >= Resolution)'
  BY <1>0, <1>7, <1>8 DEF TypeOK, Ticks
<1>10. \A v \in facts' : RowShape(v)'
  BY <1>7, <1>8 DEF RowShape
<1>11. IsFiniteSet(facts)' /\ OneIn(facts)'
  BY <1>8 DEF OneIn
<1> QED
  BY <1>9, <1>10, <1>11 DEF IInv

\* A forget, by key and then by tags.
LEMMA ForgetStep ==
    ASSUME IInv, NEW c \in Names, NEW declared \in Names, NEW k \in Keys \cup {NoKey},
           NEW tags \in SUBSET Tags, ForgetAs(c, declared, k, tags)
    PROVE  IInv'
<1> DEFINE S == IF k # NoKey THEN DeleteByEntity(facts, k, clock) ELSE facts
           stones == Tombstones(c, declared, k, tags)
<1>1. /\ clock \in Nat /\ clock >= Resolution /\ Sec(clock) \in Nat
      /\ log \in Seq(EntryType) /\ Len(log) \in Nat
      /\ facts \in SUBSET VersionType(Keys, Tags) /\ IsFiniteSet(facts) /\ OneIn(facts)
      /\ \A v \in facts : RowShape(v)
  BY SecType DEF IInv, TypeOK, Ticks
<1>2. stones \in Seq(EntryType)
  <2> DEFINE stone(op, key, which) ==
                 [op |-> op, key |-> key, tags |-> which,
                  agent |-> IF c # NoAgent THEN c ELSE declared,
                  updated |-> Sec(clock), vf |-> Zero, vt |-> Zero]
             x == IF k # NoKey THEN << stone("delete", k, {}) >> ELSE <<>>
             y == IF tags # {} THEN << stone("delete_tags", NoKey, tags) >> ELSE <<>>
  <2>1. /\ stone("delete", k, {}) \in EntryType
        /\ stone("delete_tags", NoKey, tags) \in EntryType
    BY <1>1 DEF EntryType, Ticks, Zero
  <2>2. stones = x \o y
    BY DEF Tombstones
  <2> HIDE DEF stone, stones
  <2>3. x \in Seq(EntryType) /\ y \in Seq(EntryType)
    BY <2>1
  <2> HIDE DEF x, y
  <2> QED
    BY <2>2, <2>3
<1>3. /\ log' = log \o stones
      /\ facts' = DeleteByTags(S, tags, clock)
      /\ clock' \in Nat /\ clock' >= clock
  BY <1>1, ReadsAssumption DEF ForgetAs
<1> HIDE DEF stones
<1>4. log' \in Seq(EntryType) /\ Len(log') \in Nat /\ Len(log) <= Len(log')
  BY <1>1, <1>2, <1>3
<1>5. /\ S \in SUBSET VersionType(Keys, Tags) /\ IsFiniteSet(S) /\ OneIn(S)
      /\ \A v \in S : RowShape(v)
  <2>1. CASE k = NoKey
    BY <1>1, <2>1
  <2>2. CASE k # NoKey
    <3> DEFINE D == {p \in facts : p.key = k /\ Believed(p)}
    <3>1. S = Forget(facts, D, clock) /\ D \in SUBSET facts
      BY <2>2 DEF DeleteByEntity
    <3> HIDE DEF S, D
    <3> QED
      BY <1>1, <3>1, ForgetKeeps
  <2> QED
    BY <2>1, <2>2
<1> HIDE DEF S
<1>6. /\ facts' \in SUBSET VersionType(Keys, Tags) /\ IsFiniteSet(facts') /\ OneIn(facts')
      /\ \A v \in facts' : RowShape(v)
  <2> DEFINE D == {p \in S : tags # {} /\ tags \subseteq p.tags /\ Believed(p)}
  <2>1. facts' = Forget(S, D, clock) /\ D \in SUBSET S
    BY <1>3 DEF DeleteByTags
  <2> HIDE DEF D
  <2> QED
    BY <1>5, <2>1, ForgetKeeps
<1>7. TypeOK' /\ (clock >= Resolution)'
  <2>1. clock' >= Resolution
    BY <1>3, LaterSec
  <2> QED
    BY <1>3, <1>4, <1>6, <2>1 DEF TypeOK, Ticks
<1>8. \A v \in facts' : RowShape(v)'
  <2> SUFFICES ASSUME NEW v \in facts'
               PROVE  RowShape(v)'
    OBVIOUS
  <2>1. WellFormed(v) /\ Stamped(v, Sec(clock)) /\ v.line \in 1..Len(log)
    BY <1>6 DEF RowShape
  <2>2. Stamped(v, Sec(clock'))
    BY <1>3, <1>6, <2>1, LaterShape
  <2> QED
    BY <1>1, <1>4, <2>1, <2>2 DEF RowShape
<1>9. IsFiniteSet(facts)' /\ OneIn(facts)'
  BY <1>6 DEF OneIn
<1> QED
  BY <1>7, <1>8, <1>9 DEF IInv

\* ... and every step keeps it.
LEMMA NextIInv == IInv /\ [Next]_vars => IInv'
<1> SUFFICES ASSUME IInv, [Next]_vars
             PROVE  IInv'
  OBVIOUS
<1>1. CASE UNCHANGED vars
  BY <1>1 DEF vars, IInv, TypeOK, RowShape, OneIn
<1>2. CASE Tick
  BY <1>2, TickStep
<1>3. ASSUME NEW r \in Requests
      PROVE  CallerFrom(r) \in Names /\ r.declared \in Names
  BY ReadsAssumption DEF CallerFrom, Names
<1>4. ASSUME NEW r \in Requests, ToolsCall(r)
      PROVE  IInv'
  BY <1>3, <1>4, StoreStep, ForgetStep DEF ToolsCall
<1> QED
  BY <1>1, <1>2, <1>4 DEF Next

\* IInv in every reachable state.
THEOREM Invariance == Spec => []IInv
  BY InitIInv, NextIInv, PTL DEF Spec

\* Clock, log and rows keep their types, whoever calls.
THEOREM TypeCorrect == Spec => []TypeOK
<1>1. IInv => TypeOK
  BY DEF IInv
<1> QED
  BY <1>1, Invariance, PTL

-----------------------------------------------------------------------------
(* Others' memories.                                                        *)

\* What OthersLiveKept says of a step.
KeepsOthers ==
    \A c \in Agents : Scoped(c) /\ CallOf(c) =>
      \A v, w \in facts :
         Owner(v) # c /\ v.key = w.key /\ (\A t \in clock..clock' : Live(v, t)) => w \in facts'

\* A call that meets another agent's row is refused.
LEMMA RefusedOnOthers ==
    ASSUME IInv, NEW c, Scoped(c), NEW met \in Nat, met >= clock,
           NEW v \in facts, Live(v, met), Owner(v) # c,
           NEW existing \in Existing(v.key, met), v.key # NoKey
    PROVE  BelongsToOther(c, existing)
<1>1. PICK w \in existing : Owner(w) = Owner(v)
  BY ExistingSpeaks
<1> QED
  BY <1>1 DEF BelongsToOther

\* A step of a scoped caller that goes through leaves a key alone of which another's
\* row holds at each of its moments: among them the one of its check.
LEMMA NextKeepsOthers == IInv /\ [Next]_vars => [KeepsOthers]_vars
<1> SUFFICES ASSUME IInv, NEW c \in Agents, Scoped(c), CallOf(c),
                    NEW v \in facts, NEW w \in facts, v.key = w.key,
                    Owner(v) # c, \A t \in clock..clock' : Live(v, t)
             PROVE  w \in facts'
  BY DEF KeepsOthers
<1>0. ASSUME NEW met, met \in clock..clock', clock' \in clock..MaxTick
      PROVE  met \in Nat /\ met >= clock /\ Live(v, met)
  BY <1>0, ReadsAssumption DEF IInv, TypeOK, Ticks
<1> DEFINE e == Last(log')
<1>1. v.key \in Keys /\ v.key # NoKey
  BY ReadsAssumption DEF IInv, TypeOK, VersionType
<1>2. ASSUME NEW k, NEW tags, NEW from, NEW to, k # NoKey,
             StoreAs(c, NoAgent, k, tags, from, to)
      PROVE  w \in facts'
  <2>0. /\ clock' \in clock..MaxTick
        /\ \E met \in clock..clock' :
              \E existing \in Existing(k, met) : ~BelongsToOther(c, existing)
    <3>1. \A counted \in clock..clock' : counted..clock' \subseteq clock..clock'
      BY <1>2, ReadsAssumption DEF StoreAs, IInv, TypeOK, Ticks
    <3> QED
      BY <1>2, <3>1 DEF StoreAs
  <2>0a. PICK met \in clock..clock' : \E existing \in Existing(k, met) : ~BelongsToOther(c, existing)
    BY <2>0
  <2>1. k # v.key
    BY <1>0, <1>1, <2>0, <2>0a, RefusedOnOthers
  <2> DEFINE f == [key |-> k, line |-> Len(log) + 1, tags |-> tags, ttl |-> 0,
                   updated |-> clock', vf |-> from, vt |-> to]
  <2>2. facts' = Put(facts, f) /\ f.key = k
    BY <1>2 DEF StoreAs
  <2> HIDE DEF f
  <2>3. w \notin Cut(facts, f)
    BY <2>1, <2>2 DEF Cut
  <2> QED
    BY <2>2, <2>3 DEF Put
<1>3. ASSUME NEW k, NEW tags, ForgetAs(c, NoAgent, k, tags)
      PROVE  w \in facts'
  <2>1. tags = {} /\ k # NoKey
    BY <1>3 DEF ForgetAs
  <2>0. clock' \in clock..MaxTick
    BY <1>3 DEF ForgetAs
  <2>0a. PICK met \in clock..clock' : \E existing \in Existing(k, met) : ~BelongsToOther(c, existing)
    BY <1>3 DEF ForgetAs
  <2>2. k # v.key
    BY <1>0, <1>1, <2>0, <2>0a, RefusedOnOthers
  <2>3. w \in DeleteByEntity(facts, k, clock)
    BY <2>2 DEF DeleteByEntity, Forget
  <2>4. facts' = Forget(DeleteByEntity(facts, k, clock), {}, clock)
    BY <1>3, <2>1 DEF ForgetAs, DeleteByTags
  <2> QED
    BY <2>3, <2>4 DEF Forget
<1> QED
  BY <1>2, <1>3 DEF CallOf

\* A scoped caller touches no version of a key of which another agent's memory
\* holds as long as the call lasts: the check of one row of the key is a check of
\* all that hold at its moment, whichever moment of the call that is.
THEOREM OthersLiveKeptAlways == Spec => OthersLiveKept
<1>1. IInv /\ [Next]_vars => [KeepsOthers]_vars
  BY NextKeepsOthers
<1>2. Spec => [][KeepsOthers]_vars
  BY <1>1, Invariance, PTL DEF Spec
<1> QED
  BY <1>2 DEF KeepsOthers, OthersLiveKept

-----------------------------------------------------------------------------
(* The life of a key as memory_history tells it, entry by entry.            *)

\* Retold, of the entry e at the place i of any log.
Telling(life, e, i, k) ==
    LET Event(what) == Append(life.events, [what |-> what, line |-> i])
    IN  IF e.op = "store" /\ e.key = k
        THEN [events |-> Event(IF life.live THEN "update" ELSE "store"),
              tags |-> e.tags, owner |-> e.agent, live |-> TRUE]
        ELSE IF /\ life.live
                /\ \/ e.op = "delete" /\ e.key = k
                   \/ e.op = "delete_tags" /\ HasAll(life.tags, e.tags)
        THEN [life EXCEPT !.events = Event("delete"), !.live = FALSE]
        ELSE life

Unborn == [events |-> <<>>, tags |-> {}, owner |-> NoAgent, live |-> FALSE]

\* The life of k in the log l.
Lived(l, k) ==
    FoldLeft(LAMBDA life, i : Telling(life, l[i], i, k), Unborn, [i \in 1..Len(l) |-> i])

LEMMA LifeIsLived == \A k : Life(k) = Lived(log, k)
  BY DEF Life, Lived, Retold, Telling, LifeOwner, Unborn

\* The library folds over sets of places, the greatest last: h is its function
\* for the first n of the places o.
Folding(h, l, o, k, n) ==
    h = [s \in SUBSET (1..n) |->
            IF s = {} THEN Unborn
            ELSE Telling(h[s \ {Max(s)}], l[o[Max(s)]], o[Max(s)], k)]

\* The greatest of the places up to n.
LEMMA GreatestPlace ==
    ASSUME NEW n \in Nat, NEW s \in SUBSET (1..n), n \in s
    PROVE  Max(s) = n
<1>1. \E x \in s : \A y \in s : x >= y
  OBVIOUS
<1>2. Max(s) \in s /\ \A y \in s : Max(s) >= y
  BY <1>1, Zenon DEF Max
<1>3. ASSUME NEW x \in s, \A y \in s : x >= y
      PROVE  x = n
  <2>1. x \in 1..n /\ x >= n
    BY <1>3
  <2> QED
    BY <2>1
<1> QED
  BY <1>2, <1>3, Zenon

\* There is such a function, built one entry after another.
LEMMA FoldingExists ==
    ASSUME NEW l, NEW o, NEW k, NEW n \in Nat
    PROVE  \E h : Folding(h, l, o, k, n)
<1> DEFINE Bad == {j \in Nat : ~ \E h : Folding(h, l, o, k, j)}
<1> SUFFICES ASSUME Bad # {}
             PROVE  FALSE
  OBVIOUS
<1>1. PICK m \in Bad : \A j \in Bad : m <= j
  BY Least
<1>2. m # 0
  <2>1. SUBSET (1..0) = {{}}
    OBVIOUS
  <2> DEFINE h == [s \in SUBSET (1..0) |-> Unborn]
  <2>2. Folding(h, l, o, k, 0)
    BY <2>1 DEF Folding
  <2> QED
    BY <2>2
<1>3. m - 1 \in Nat /\ ~(m <= m - 1)
  BY <1>2
<1>4. PICK g : Folding(g, l, o, k, m - 1)
  BY <1>1, <1>3
<1> DEFINE Told(x, i) == Telling(x, l[o[i]], o[i], k)
           h == [s \in SUBSET (1..m) |-> IF m \in s THEN Told(g[s \ {m}], m) ELSE g[s]]
<1>5. \A s \in SUBSET (1..m) : s \ {m} \in SUBSET (1..(m - 1))
  OBVIOUS
<1>6. \A s \in SUBSET (1..m) : m \notin s => s \in SUBSET (1..(m - 1)) /\ s \in SUBSET (1..m)
  OBVIOUS
<1>7. \A s \in SUBSET (1..(m - 1)) : m \notin s /\ s \in SUBSET (1..m)
  BY <1>3
<1>8. \A s \in SUBSET (1..(m - 1)) : g[s] = IF s = {} THEN Unborn ELSE Told(g[s \ {Max(s)}], Max(s))
  BY <1>4 DEF Folding
<1>9. ASSUME NEW s \in SUBSET (1..m)
      PROVE  h[s] = IF s = {} THEN Unborn ELSE Told(h[s \ {Max(s)}], Max(s))
  <2>1. CASE m \in s
    <3>1. Max(s) = m
      BY <1>1, <2>1, GreatestPlace
    <3>2. s \ {m} \in SUBSET (1..m) /\ m \notin s \ {m}
      OBVIOUS
    <3>3. h[s \ {m}] = g[s \ {m}]
      BY <3>2
    <3>4. h[s] = Told(g[s \ {m}], m) /\ s # {}
      BY <2>1
    <3> HIDE DEF h, Told
    <3> QED
      BY <3>1, <3>3, <3>4
  <2>2. CASE m \notin s
    <3>1. s \in SUBSET (1..(m - 1)) /\ s \ {Max(s)} \in SUBSET (1..(m - 1))
      BY <2>2, <1>6
    <3>2. h[s] = g[s] /\ h[s \ {Max(s)}] = g[s \ {Max(s)}]
      BY <1>7, <3>1
    <3> HIDE DEF h, Told
    <3> QED
      BY <1>8, <3>1, <3>2
  <2> QED
    BY <2>1, <2>2
<1>10. Folding(h, l, o, k, m)
  <2>1. h = [s \in SUBSET (1..m) |-> h[s]]
    OBVIOUS
  <2> DEFINE f == [s \in SUBSET (1..m) |->
                     IF s = {} THEN Unborn ELSE Told(h[s \ {Max(s)}], Max(s))]
  <2> HIDE DEF h
  <2>2. h = f
    BY <1>9, <2>1
  <2> QED
    BY <2>2 DEF Folding
<1> QED
  BY <1>10

Places(n) == [i \in 1..n |-> i]

\* The fold of the library is what it ends with.
LEMMA FoldEntries ==
    ASSUME NEW l, NEW k, NEW n \in Nat, Len(l) = n
    PROVE  \E h : Folding(h, l, Places(n), k, n) /\ h[1..n] = Lived(l, k)
<1> DEFINE o == Places(n)
           x == CHOOSE h : Folding(h, l, o, k, n)
<1>1. Folding(x, l, o, k, n)
  BY FoldingExists
<1>2. DOMAIN o = 1..n
  BY DEF Places
<1>3. Lived(l, k) = FoldLeft(LAMBDA life, i : Telling(life, l[i], i, k), Unborn, o)
  BY DEF Lived, Places
<1> HIDE DEF o
<1>4. x[1..n] = FoldLeft(LAMBDA life, i : Telling(life, l[i], i, k), Unborn, o)
  BY <1>2 DEF FoldLeft, MapThenFoldSet, Folding
<1> QED
  BY <1>1, <1>3, <1>4 DEF o

\* What it computes for the first j entries.
LEMMA FoldingStep ==
    ASSUME NEW h, NEW l, NEW k, NEW n \in Nat, Folding(h, l, Places(n), k, n)
    PROVE  /\ h[1..0] = Unborn
           /\ \A j \in 1..n : h[1..j] = Telling(h[1..(j - 1)], l[j], j, k)
<1> DEFINE o == Places(n)
<1>0. \A j \in 1..n : o[j] = j
  BY DEF Places
<1> HIDE DEF o
<1>1. \A s \in SUBSET (1..n) :
         h[s] = IF s = {} THEN Unborn ELSE Telling(h[s \ {Max(s)}], l[o[Max(s)]], o[Max(s)], k)
  BY DEF Folding, o
<1>2. 1..0 = {} /\ 1..0 \in SUBSET (1..n)
  OBVIOUS
<1>3. ASSUME NEW j \in 1..n
      PROVE  h[1..j] = Telling(h[1..(j - 1)], l[j], j, k)
  <2>1. 1..j \in SUBSET (1..n) /\ 1..j # {} /\ j \in 1..j /\ (1..j) \ {j} = 1..(j - 1)
    OBVIOUS
  <2>2. Max(1..j) = j
    BY <2>1, GreatestPlace
  <2> QED
    BY <1>0, <1>1, <2>1, <2>2
<1> QED
  BY <1>1, <1>2, <1>3

\* Two logs agree up to the place n.
SameEntries(r, s, n) == \A i \in 1..n : r[i] = s[i]

\* g folds the first n entries of r, h the first m of s, which go on from those.
GoesOn(g, h, r, s, k, n, m) ==
    /\ n \in Nat /\ m \in Nat /\ n <= m
    /\ Folding(g, r, Places(n), k, n)
    /\ Folding(h, s, Places(m), k, m)
    /\ SameEntries(r, s, n)

\* The lives two logs tell agree as far as the logs do.
LEMMA FoldingsAgree ==
    ASSUME NEW g, NEW h, NEW r, NEW s, NEW k, NEW n, NEW m, GoesOn(g, h, r, s, k, n, m)
    PROVE  g[1..n] = h[1..n]
<1> USE DEF GoesOn
<1> DEFINE Bad == {j \in 0..n : g[1..j] # h[1..j]}
<1> SUFFICES ASSUME Bad # {}
             PROVE  FALSE
  OBVIOUS
<1>0. Bad \in SUBSET Nat
  OBVIOUS
<1>1. PICK j \in Bad : \A i \in Bad : j <= i
  BY <1>0, Least, Zenon
<1>2. j # 0
  BY FoldingStep
<1>3. j \in 1..n /\ j \in 1..m /\ j - 1 \in 0..n /\ ~(j <= j - 1)
  BY <1>2
<1>4. g[1..(j - 1)] = h[1..(j - 1)]
  BY <1>1, <1>3
<1>5. /\ g[1..j] = Telling(g[1..(j - 1)], r[j], j, k)
      /\ h[1..j] = Telling(h[1..(j - 1)], s[j], j, k)
  BY <1>3, FoldingStep
<1>6. r[j] = s[j]
  BY <1>3 DEF SameEntries
<1> QED
  BY <1>4, <1>5, <1>6

\* No entry, no life; one entry more is one event more, or none.
LEMMA LivedEmpty == \A k : Lived(<<>>, k) = Unborn
<1> SUFFICES ASSUME NEW k
             PROVE  Lived(<<>>, k) = Unborn
  OBVIOUS
<1>1. Len(<<>>) = 0
  BY EmptySeq
<1>2. PICK h : Folding(h, <<>>, Places(0), k, 0) /\ h[1..0] = Lived(<<>>, k)
  BY <1>1, FoldEntries
<1> QED
  BY <1>2, FoldingStep

LEMMA LivedAppend ==
    ASSUME NEW T, NEW l \in Seq(T), NEW e \in T, NEW k
    PROVE  Lived(Append(l, e), k) = Telling(Lived(l, k), e, Len(l) + 1, k)
<1> DEFINE n == Len(l)
           r == Append(l, e)
           m == n + 1
<1>1. /\ n \in Nat /\ m \in Nat /\ n <= m /\ Len(r) = m /\ r[m] = e
      /\ m \in 1..m /\ m - 1 = n
      /\ \A i \in 1..n : l[i] = r[i]
  OBVIOUS
<1>2. Len(l) = n
  OBVIOUS
<1> HIDE DEF n, r, m
<1>3. PICK h : Folding(h, l, Places(n), k, n) /\ h[1..n] = Lived(l, k)
  BY <1>1, <1>2, FoldEntries
<1>4. PICK g : Folding(g, r, Places(m), k, m) /\ g[1..m] = Lived(r, k)
  BY <1>1, FoldEntries
<1>5. h[1..n] = g[1..n]
  <2>1. SameEntries(l, r, n)
    BY <1>1 DEF SameEntries
  <2>2. GoesOn(h, g, l, r, k, n, m)
    BY <1>1, <1>3, <1>4, <2>1 DEF GoesOn
  <2> QED
    BY ONLY <2>2, FoldingsAgree
<1>6. g[1..m] = Telling(g[1..(m - 1)], r[m], m, k)
  BY <1>1, <1>4, FoldingStep
<1> QED
  BY <1>1, <1>3, <1>4, <1>5, <1>6 DEF n, r, m

-----------------------------------------------------------------------------
(* What a life tells of the log and of the rows.                            *)

\* The stores of k in the log l, and the last of them.
StoresOf(l, k) == {i \in 1..Len(l) : l[i].op = "store" /\ l[i].key = k}

IsLast(l, k, n) == n \in StoresOf(l, k) /\ \A j \in StoresOf(l, k) : j <= n

\* Every row repeats the key and the tags of the store it comes from.
Sourced(l, S) ==
    \A v \in S : v.line \in StoresOf(l, v.key) /\ v.tags = l[v.line].tags /\ v.ttl = 0

\* Some part of what the entry n stored is believed.
Going(S, k, n) == \E v \in S : v.key = k /\ Believed(v) /\ v.line = n

EventType == [what : {"store", "update", "delete"}, line : Nat]

LifeType == [events : Seq(EventType), tags : SUBSET Tags, owner : Names, live : BOOLEAN]

\* The life x of k: nothing before the first store; then the tags and the owner
\* of the last one, which goes on exactly if the rows S say so, and whose event
\* is then the last.
Tells(x, l, S, k) ==
    /\ x \in LifeType
    /\ StoresOf(l, k) = {} => x = Unborn
    /\ \A n : IsLast(l, k, n) =>
          /\ x.tags = l[n].tags /\ x.owner = l[n].agent
          /\ x.live <=> Going(S, k, n)
          /\ x.events # <<>>
          /\ IF x.live THEN Last(x.events).what # "delete" /\ Last(x.events).line = n
                       ELSE Last(x.events).what = "delete"

\* The stores of a log that is one entry longer.
LEMMA StoresAppend ==
    ASSUME NEW l \in Seq(EntryType), NEW e \in EntryType, NEW k
    PROVE  /\ Len(l) \in Nat /\ Len(Append(l, e)) = Len(l) + 1
           /\ \A i \in 1..Len(l) : Append(l, e)[i] = l[i]
           /\ Append(l, e)[Len(l) + 1] = e
           /\ StoresOf(Append(l, e), k)
                 = IF e.op = "store" /\ e.key = k THEN StoresOf(l, k) \cup {Len(l) + 1}
                                                  ELSE StoresOf(l, k)
           /\ \A i \in StoresOf(l, k) : i \in 1..Len(l)
<1> DEFINE n == Len(l)
           r == Append(l, e)
<1>1. /\ n \in Nat /\ Len(r) = n + 1 /\ r[n + 1] = e
      /\ \A i \in 1..n : r[i] = l[i]
  OBVIOUS
<1> HIDE DEF n, r
<1>2. \A i \in 1..(n + 1) : i \in 1..n \/ i = n + 1
  BY <1>1
<1>3. n + 1 \notin 1..n /\ n + 1 \in 1..(n + 1) /\ \A i \in 1..n : i \in 1..(n + 1)
  BY <1>1
<1>4. StoresOf(r, k) = IF e.op = "store" /\ e.key = k THEN StoresOf(l, k) \cup {n + 1}
                                                     ELSE StoresOf(l, k)
  BY <1>1, <1>2, <1>3 DEF StoresOf, n
<1> QED
  BY <1>1, <1>4 DEF n, r, StoresOf

\* One event more.
LEMMA EventAppend ==
    ASSUME NEW q \in Seq(EventType), NEW ev \in EventType
    PROVE  /\ Append(q, ev) \in Seq(EventType) /\ Append(q, ev) # <<>>
           /\ Last(Append(q, ev)) = ev
<1>1. /\ Append(q, ev) \in Seq(EventType) /\ Len(q) \in Nat
      /\ Len(Append(q, ev)) = Len(q) + 1 /\ Append(q, ev)[Len(q) + 1] = ev
  OBVIOUS
<1>2. Append(q, ev) # <<>>
  BY <1>1
<1> QED
  BY <1>1, <1>2 DEF Last

\* A store of the key begins a life or goes on with it.
LEMMA TellStore ==
    ASSUME NEW l \in Seq(EntryType), NEW e \in EntryType, NEW k, NEW S, NEW T, NEW x,
           Tells(x, l, S, k), e.op = "store", e.key = k, Going(T, k, Len(l) + 1)
    PROVE  Tells(Telling(x, e, Len(l) + 1, k), Append(l, e), T, k)
<1> DEFINE m == Len(l) + 1
           r == Append(l, e)
           ev == [what |-> IF x.live THEN "update" ELSE "store", line |-> m]
           y == Telling(x, e, m, k)
<1>1. /\ m \in Nat /\ r[m] = e /\ StoresOf(r, k) = StoresOf(l, k) \cup {m}
      /\ \A i \in StoresOf(l, k) : i \in Nat /\ i < m
  BY StoresAppend
<1>2. ev \in EventType /\ x.events \in Seq(EventType)
  BY <1>1 DEF EventType, Tells, LifeType
<1>3. y = [events |-> Append(x.events, ev), tags |-> e.tags, owner |-> e.agent, live |-> TRUE]
  BY DEF Telling
<1>4. e.tags \in SUBSET Tags /\ e.agent \in Names
  BY DEF EntryType
<1> DEFINE q == Append(x.events, ev)
<1>5. q \in Seq(EventType) /\ q # <<>> /\ Last(q) = ev
  BY <1>2, EventAppend
<1>6. ev.what # "delete" /\ ev.line = m
  OBVIOUS
<1> HIDE DEF m, r, ev, y, q
<1>7. y = [events |-> q, tags |-> e.tags, owner |-> e.agent, live |-> TRUE]
  BY <1>3 DEF q
<1>8. y \in LifeType
  BY <1>4, <1>5, <1>7 DEF LifeType
<1>9. ASSUME NEW n, IsLast(r, k, n)
      PROVE  n = m
  <2>1. n \in StoresOf(r, k) /\ m <= n
    BY <1>1, <1>9 DEF IsLast
  <2> QED
    BY <1>1, <2>1
<1>10. StoresOf(r, k) # {}
  BY <1>1
<1>11. Going(T, k, m)
  BY DEF m
<1> QED
  BY <1>1, <1>5, <1>6, <1>7, <1>8, <1>9, <1>10, <1>11 DEF Tells, m, r, y

\* Any other entry leaves the stores of the key; it ends its life if it names
\* the key, or the tags of its last store.
LEMMA TellOther ==
    ASSUME NEW l \in Seq(EntryType), NEW e \in EntryType, NEW k, NEW S, NEW T, NEW x,
           Tells(x, l, S, k), ~(e.op = "store" /\ e.key = k),
           \A n : IsLast(l, k, n) =>
              (Going(T, k, n) <=>
                 /\ Going(S, k, n)
                 /\ ~ \/ e.op = "delete" /\ e.key = k
                      \/ e.op = "delete_tags" /\ HasAll(l[n].tags, e.tags))
    PROVE  Tells(Telling(x, e, Len(l) + 1, k), Append(l, e), T, k)
<1> DEFINE m == Len(l) + 1
           r == Append(l, e)
           ev == [what |-> "delete", line |-> m]
           q == Append(x.events, ev)
           y == Telling(x, e, m, k)
           hit == \/ e.op = "delete" /\ e.key = k
                  \/ e.op = "delete_tags" /\ HasAll(x.tags, e.tags)
<1>1. /\ m \in Nat /\ StoresOf(r, k) = StoresOf(l, k)
      /\ \A i \in StoresOf(l, k) : r[i] = l[i]
  BY StoresAppend
<1>2. ev \in EventType /\ x.events \in Seq(EventType) /\ x \in LifeType
  BY <1>1 DEF EventType, Tells, LifeType
<1>3. q \in Seq(EventType) /\ q # <<>> /\ Last(q) = ev
  BY <1>2, EventAppend
<1>4. y = IF x.live /\ hit THEN [x EXCEPT !.events = q, !.live = FALSE] ELSE x
  BY DEF Telling
<1>5. ev.what = "delete"
  OBVIOUS
<1> HIDE DEF m, r, ev, q, y
<1>6. \A n : IsLast(r, k, n) <=> IsLast(l, k, n)
  BY <1>1 DEF IsLast
<1>7. CASE x.live /\ hit
  <2>1. y = [x EXCEPT !.events = q, !.live = FALSE]
    BY <1>4, <1>7
  <2>2. /\ y \in LifeType /\ y.events = q /\ y.live = FALSE
        /\ y.tags = x.tags /\ y.owner = x.owner
    BY <1>2, <1>3, <2>1 DEF LifeType
  <2>3. StoresOf(l, k) # {}
    BY <1>7 DEF Tells, Unborn
  <2>4. ASSUME NEW n, IsLast(l, k, n)
        PROVE  /\ y.tags = r[n].tags /\ y.owner = r[n].agent
               /\ ~Going(T, k, n)
    <3>1. x.tags = l[n].tags /\ x.owner = l[n].agent /\ r[n] = l[n]
      BY <1>1, <2>4 DEF Tells, IsLast
    <3>2. ~Going(T, k, n)
      BY <1>7, <2>4, <3>1
    <3> QED
      BY <2>2, <3>1, <3>2
  <2> HIDE DEF hit
  <2>5. Tells(y, r, T, k)
    BY <1>1, <1>3, <1>5, <1>6, <2>2, <2>3, <2>4 DEF Tells
  <2> QED
    BY <2>5 DEF m, r, y
<1>8. CASE ~(x.live /\ hit)
  <2>1. y = x
    BY <1>4, <1>8
  <2>2. ASSUME NEW n, IsLast(l, k, n)
        PROVE  /\ x.tags = r[n].tags /\ x.owner = r[n].agent
               /\ x.live <=> Going(T, k, n)
    <3>1. /\ x.tags = l[n].tags /\ x.owner = l[n].agent /\ r[n] = l[n]
          /\ x.live <=> Going(S, k, n)
      BY <1>1, <2>2 DEF Tells, IsLast
    <3>2. x.live <=> Going(T, k, n)
      BY <1>8, <2>2, <3>1
    <3> QED
      BY <3>1, <3>2
  <2> HIDE DEF hit
  <2>3. Tells(x, r, T, k)
    BY <1>1, <1>6, <2>2 DEF Tells
  <2> QED
    BY <2>1, <2>3 DEF m, r, y
<1> QED
  BY <1>7, <1>8

-----------------------------------------------------------------------------
(* One entry applied.                                                       *)

\* Only stores without a validity of their own (Open, of any log).
OpenIn(l, k) == \A i \in 1..Len(l) : l[i].key = k => l[i].vf = Zero /\ l[i].vt = Zero

\* The rows of the last store hold from some time on, older ones only before.
OpenRows(l, S, k, now) ==
    \A v \in S : v.key = k /\ Believed(v) =>
        IF IsLast(l, k, v.line) THEN v.vt = Zero /\ v.vf <= Sec(now)
                                ELSE v.vt # Zero /\ v.vt <= Sec(now)

\* Log, rows and lives account for one another.
Account(l, S, now) ==
    /\ Sourced(l, S)
    /\ \A k \in Keys : /\ Tells(Lived(l, k), l, S, k)
                       /\ OpenIn(l, k) => OpenRows(l, S, k, now)

\* The rows believed after a forget are those that were not forgotten.
LEMMA ForgetBelieved ==
    ASSUME NEW S \in SUBSET VersionType(Keys, Tags), NEW D \in SUBSET S,
           NEW at \in Nat, at >= Resolution, NEW w
    PROVE  w \in Forget(S, D, at) /\ Believed(w) <=> w \in S \ D /\ Believed(w)
<1>1. ASSUME NEW p \in D
      PROVE  ~Believed([p EXCEPT !.deleted = Sec(at), !.tt = Sec(at)])
  <2>1. p \in VersionType(Keys, Tags) /\ Sec(at) # Zero
    BY SecPositive
  <2> QED
    BY <2>1 DEF Believed, VersionType
<1> QED
  BY <1>1 DEF Forget

\* A tombstone: the rows D are those it names.
LEMMA StoneAccounts ==
    ASSUME NEW l \in Seq(EntryType), NEW S \in SUBSET VersionType(Keys, Tags),
           NEW e \in EntryType, NEW D \in SUBSET S, NEW at \in Nat, at >= Resolution,
           Account(l, S, at), e.op # "store",
           \A v \in S : Believed(v) =>
              (v \in D <=> \/ e.op = "delete" /\ e.key = v.key
                           \/ e.op = "delete_tags" /\ HasAll(v.tags, e.tags))
    PROVE  Account(Append(l, e), Forget(S, D, at), at)
<1> DEFINE r == Append(l, e)
           T == Forget(S, D, at)
<1>1. \A k : StoresOf(r, k) = StoresOf(l, k)
  BY StoresAppend
<1>2. \A k : \A i \in StoresOf(l, k) : r[i] = l[i] /\ i \in 1..Len(l)
  BY StoresAppend
<1>3. Len(l) \in Nat /\ Len(r) = Len(l) + 1 /\ \A i \in 1..Len(l) : r[i] = l[i]
  BY StoresAppend
<1>4. \A w : w \in T /\ Believed(w) <=> w \in S \ D /\ Believed(w)
  BY ForgetBelieved
<1>5. Sourced(r, T)
  <2>1. ASSUME NEW w \in T
        PROVE  \E p \in S : w.key = p.key /\ w.line = p.line /\ w.tags = p.tags /\ w.ttl = p.ttl
    <3>1. CASE w \in S
      BY <3>1
    <3>2. CASE w \notin S
      <4>1. PICK p \in D : w = [p EXCEPT !.deleted = Sec(at), !.tt = Sec(at)]
        BY <3>2 DEF Forget
      <4>2. p \in VersionType(Keys, Tags)
        OBVIOUS
      <4> QED
        BY <4>1, <4>2 DEF VersionType
    <3> QED
      BY <3>1, <3>2
  <2> HIDE DEF T, r
  <2>2. Sourced(l, S)
    BY DEF Account
  <2> QED
    BY <1>1, <1>2, <2>1, <2>2 DEF Sourced
<1>6. ASSUME NEW k \in Keys
      PROVE  Tells(Lived(r, k), r, T, k)
  <2>1. Lived(r, k) = Telling(Lived(l, k), e, Len(l) + 1, k)
    BY LivedAppend
  <2>2. Tells(Lived(l, k), l, S, k) /\ Sourced(l, S)
    BY DEF Account
  <2>3. ASSUME NEW n, IsLast(l, k, n)
        PROVE  Going(T, k, n) <=>
                 /\ Going(S, k, n)
                 /\ ~ \/ e.op = "delete" /\ e.key = k
                      \/ e.op = "delete_tags" /\ HasAll(l[n].tags, e.tags)
    <3> HIDE DEF T
    <3>1. \A v \in S : v.key = k /\ v.line = n => v.tags = l[n].tags
      BY <2>2 DEF Sourced
    <3> QED
      BY <1>4, <3>1 DEF Going
  <2> HIDE DEF T, r
  <2>4. ~(e.op = "store" /\ e.key = k)
    OBVIOUS
  <2>5. Tells(Telling(Lived(l, k), e, Len(l) + 1, k), Append(l, e), T, k)
    BY <2>2, <2>3, <2>4, TellOther
  <2> QED
    BY <2>1, <2>5 DEF r
<1>7. ASSUME NEW k \in Keys, OpenIn(r, k)
      PROVE  OpenRows(r, T, k, at)
  <2>1. OpenIn(l, k)
    <3> HIDE DEF r
    <3> QED
      BY <1>3, <1>7 DEF OpenIn
  <2>2. OpenRows(l, S, k, at)
    BY <2>1 DEF Account
  <2>3. \A n : IsLast(r, k, n) <=> IsLast(l, k, n)
    BY <1>1 DEF IsLast
  <2> HIDE DEF T, r
  <2> QED
    BY <1>4, <2>2, <2>3 DEF OpenRows
<1> HIDE DEF r, T
<1>8. Account(r, T, at)
  BY <1>5, <1>6, <1>7 DEF Account
<1> QED
  BY <1>8 DEF r, T

\* A store.
LEMMA StoreAccounts ==
    ASSUME NEW l \in Seq(EntryType), NEW S \in SUBSET VersionType(Keys, Tags), NEW at \in Nat,
           \A v \in S : WellFormed(v) /\ Stamped(v, Sec(at)), Account(l, S, at),
           NEW e \in EntryType, e.op = "store",
           NEW f \in Call(Keys, Tags), f.updated = at, f.line = Len(l) + 1, f.ttl = 0,
           e.key = f.key, e.tags = f.tags, e.vf = Sec(f.vf), e.vt = Sec(f.vt)
    PROVE  Account(Append(l, e), Put(S, f), at)
<1> DEFINE r == Append(l, e)
           T == Put(S, f)
           m == Len(l) + 1
           c == NewVersion(f)
<1>1. \A k : StoresOf(r, k) = IF e.key = k THEN StoresOf(l, k) \cup {m} ELSE StoresOf(l, k)
  BY StoresAppend
<1>2. \A k : \A i \in StoresOf(l, k) : r[i] = l[i] /\ i \in Nat /\ i < m
  BY StoresAppend
<1>3. /\ Len(l) \in Nat /\ Len(r) = m /\ m \in Nat /\ r[m] = e
      /\ \A i \in 1..Len(l) : r[i] = l[i]
  BY StoresAppend
<1>4. \A w : w \in T /\ Believed(w) <=> \/ w \in S \ Cut(S, f) /\ Believed(w)
                                        \/ w \in Before(S, f)
                                        \/ w \in After(S, f)
                                        \/ w = c
  BY PutRows
<1>5. /\ c.key = f.key /\ c.line = m /\ c.tags = f.tags /\ c.ttl = 0
      /\ c.vf = Sec(ValidFrom(f)) /\ c.vt = Sec(f.vt) /\ Believed(c)
  BY NewFields DEF Believed
<1>6. ASSUME NEW w \in Before(S, f) \cup After(S, f)
      PROVE  /\ w.key = f.key
             /\ \E p \in S : p.key = f.key /\ w.line = p.line
             /\ w \in After(S, f) => f.vt # Zero
             /\ w \in Before(S, f) => w.vt = Sec(ValidFrom(f))
  <2>1. ASSUME NEW p \in Cut(S, f), NEW a, NEW b
        PROVE  /\ Copy(p, a, b, f.updated).key = f.key
               /\ Copy(p, a, b, f.updated).line = p.line
               /\ Copy(p, a, b, f.updated).vt = Sec(b)
               /\ p \in S /\ p.key = f.key
    <3>1. p \in VersionType(Keys, Tags) /\ p.key = f.key
      BY DEF Cut
    <3> QED
      BY <3>1 DEF Copy, VersionType, Cut
  <2>2. PICK p \in Cut(S, f) : \/ w = Copy(p, p.vf, ValidFrom(f), f.updated)
                               \/ w = Copy(p, f.vt, p.vt, f.updated)
    BY DEF Before, After
  <2>3. w.key = f.key /\ w.line = p.line /\ p \in S /\ p.key = f.key
    BY <2>1, <2>2
  <2>4. w \in After(S, f) => f.vt # Zero
    BY DEF After
  <2>5. w \in Before(S, f) => w.vt = Sec(ValidFrom(f))
    <3>1. SUFFICES ASSUME w \in Before(S, f)
                   PROVE  w.vt = Sec(ValidFrom(f))
      OBVIOUS
    <3>2. PICK q \in Cut(S, f) : w = Copy(q, q.vf, ValidFrom(f), f.updated)
      BY <3>1 DEF Before
    <3> QED
      BY <2>1, <3>2
  <2> QED
    BY <2>3, <2>4, <2>5
<1>7. Sourced(r, T)
  <2>1. ASSUME NEW w \in T
        PROVE  \/ w = c
               \/ \E p \in S : w.key = p.key /\ w.line = p.line /\ w.tags = p.tags /\ w.ttl = p.ttl
    BY PutKeepsRows DEF SameFact
  <2>2. Sourced(l, S)
    BY DEF Account
  <2>3. m \in StoresOf(r, f.key) /\ r[m].tags = f.tags
    BY <1>1, <1>3
  <2> HIDE DEF T, r, m, c
  <2> QED
    BY <1>1, <1>2, <1>5, <2>1, <2>2, <2>3 DEF Sourced
<1>8. ASSUME NEW k \in Keys
      PROVE  Tells(Lived(r, k), r, T, k)
  <2>1. Lived(r, k) = Telling(Lived(l, k), e, m, k)
    BY LivedAppend
  <2>2. Tells(Lived(l, k), l, S, k)
    BY DEF Account
  <2>3. CASE k = e.key
    <3>1. Going(T, k, m)
      <4> HIDE DEF T, m, c
      <4> QED
        BY <1>4, <1>5, <2>3 DEF Going
    <3> HIDE DEF T
    <3>2. Tells(Telling(Lived(l, k), e, m, k), r, T, k)
      BY <2>2, <2>3, <3>1, TellStore
    <3> QED
      BY <2>1, <3>2
  <2>4. CASE k # e.key
    <3>1. ASSUME NEW n
          PROVE  Going(T, k, n) <=> Going(S, k, n)
      <4>1. \A v \in S : v.key = k => v \notin Cut(S, f)
        BY <2>4 DEF Cut
      <4> HIDE DEF T, c
      <4> QED
        BY <1>4, <1>5, <1>6, <2>4, <4>1 DEF Going
    <3>2. ~(e.op = "store" /\ e.key = k) /\ e.op # "delete" /\ e.op # "delete_tags"
      BY <2>4
    <3> HIDE DEF T
    <3>3. Tells(Telling(Lived(l, k), e, m, k), r, T, k)
      BY <2>2, <3>1, <3>2, TellOther
    <3> QED
      BY <2>1, <3>3
  <2> QED
    BY <2>3, <2>4
<1>9. ASSUME NEW k \in Keys, OpenIn(r, k)
      PROVE  OpenRows(r, T, k, at)
  <2>1. OpenIn(l, k)
    <3>1. \A i \in 1..Len(l) : i \in 1..Len(r)
      BY <1>3
    <3> HIDE DEF r
    <3> QED
      BY <1>3, <1>9, <3>1 DEF OpenIn
  <2>2. OpenRows(l, S, k, at) /\ Sourced(l, S)
    BY <2>1 DEF Account
  <2>3. CASE k # e.key
    <3>1. \A n : IsLast(r, k, n) <=> IsLast(l, k, n)
      BY <1>1, <2>3 DEF IsLast
    <3> HIDE DEF T, r, c
    <3> QED
      BY <1>4, <1>5, <1>6, <2>2, <2>3, <3>1 DEF OpenRows
  <2>4. CASE k = e.key
    <3>1. f.vf = Zero /\ f.vt = Zero
      <4>1. m \in 1..Len(r)
        BY <1>3
      <4>2. e.vf = Zero /\ e.vt = Zero
        BY <1>3, <1>9, <2>4, <4>1 DEF OpenIn
      <4>3. /\ f.vf \in Nat /\ f.vt \in Nat
            /\ f.vf = Zero \/ f.vf >= Resolution
            /\ f.vt = Zero \/ f.vt >= Resolution
        BY DEF Call, FactType, Ticks
      <4> QED
        BY <4>2, <4>3, SecPositive
    <3>2. /\ ValidFrom(f) = at /\ Sec(at) \in Nat /\ Sec(at) # Zero
      BY <3>1, CallFrom DEF ValidFrom
    <3>3. IsLast(r, k, m) /\ \A n : IsLast(r, k, n) => n = m
      <4>1. StoresOf(r, k) = StoresOf(l, k) \cup {m} /\ \A i \in StoresOf(l, k) : i \in Nat /\ i < m
        BY <1>1, <1>2, <2>4
      <4> HIDE DEF r, m
      <4>2. m \in Nat
        BY <1>3
      <4>3. \A j \in StoresOf(r, k) : j <= m
        BY <4>1, <4>2
      <4>4. \A n : IsLast(r, k, n) => n \in StoresOf(r, k) /\ m <= n
        BY <4>1 DEF IsLast
      <4>5. \A n : IsLast(r, k, n) => n = m
        BY <4>1, <4>2, <4>4
      <4> QED
        BY <4>1, <4>3, <4>5 DEF IsLast
    <3>4. \A p \in S : p.key = k => p.line # m
      <4>1. \A p \in S : p.key = k => p.line \in Nat /\ p.line < m
        BY <1>2, <2>2 DEF Sourced
      <4> QED
        BY <1>3, <4>1
    <3>5. ASSUME NEW p \in S, p.key = k, Believed(p), p \notin Cut(S, f)
          PROVE  p.vt # Zero /\ p.vt <= Sec(at)
      <4>1. ~Overlaps(p.vf, p.vt, at, Zero)
        BY <2>4, <3>1, <3>2, <3>5 DEF Cut
      <4>2. p.vt \in Nat /\ Sec(p.vt) = p.vt
        BY DEF VersionType, Ticks, WellFormed
      <4>3. p.vt # Zero /\ p.vt <= at
        BY <4>1, <4>2 DEF Overlaps
      <4> QED
        BY <4>2, <4>3, SecMonotone
    <3>6. ASSUME NEW w \in T, w.key = k, Believed(w)
          PROVE  IF IsLast(r, k, w.line) THEN w.vt = Zero /\ w.vf <= Sec(at)
                                         ELSE w.vt # Zero /\ w.vt <= Sec(at)
      <4>1. CASE w = c
        <5>1. w.line = m /\ w.vt = Zero /\ w.vf = Sec(at)
          BY <1>5, <3>1, <3>2, <4>1, SecZero
        <5> QED
          BY <3>2, <3>3, <5>1
      <4>2. CASE w \in S \ Cut(S, f)
        BY <3>3, <3>4, <3>5, <3>6, <4>2
      <4>3. CASE w \in Before(S, f)
        <5>1. w.vt = Sec(at) /\ w.line # m
          BY <1>6, <2>4, <3>2, <3>4, <4>3
        <5> QED
          BY <3>2, <3>3, <5>1
      <4>4. w \notin After(S, f)
        BY <1>6, <3>1
      <4> HIDE DEF T, c
      <4> QED
        BY <1>4, <3>6, <4>1, <4>2, <4>3, <4>4
    <3> QED
      BY <3>6 DEF OpenRows
  <2> QED
    BY <2>3, <2>4
<1> HIDE DEF r, T
<1>10. Account(r, T, at)
  BY <1>7, <1>8, <1>9 DEF Account
<1> QED
  BY <1>10 DEF r, T

-----------------------------------------------------------------------------
(* The account holds from the start and after every step.                   *)

LEMMA InitAccount == Init => Account(log, facts, clock)
<1> SUFFICES ASSUME Init
             PROVE  Account(log, facts, clock)
  OBVIOUS
<1>1. log = <<>> /\ facts = {} /\ Len(<<>>) = 0
  BY EmptySeq DEF Init
<1>2. \A k : StoresOf(<<>>, k) = {}
  BY <1>1 DEF StoresOf
<1>3. Unborn \in LifeType
  BY DEF Unborn, LifeType, Names
<1>4. \A k : Tells(Unborn, <<>>, {}, k)
  BY <1>2, <1>3 DEF Tells, IsLast
<1>5. \A k : Tells(Lived(<<>>, k), <<>>, {}, k)
  BY <1>4, LivedEmpty
<1>6. \A k : OpenRows(<<>>, {}, k, clock) /\ Sourced(<<>>, {})
  BY DEF OpenRows, Sourced
<1> QED
  BY <1>1, <1>5, <1>6 DEF Account

\* Time passes: an account of the rows at one moment is one at a later moment.
LEMMA LaterAccount ==
    ASSUME NEW at \in Nat, NEW to \in Nat, at <= to, NEW l, NEW S,
           \A v \in S : v.vf \in Nat /\ v.vt \in Nat, Account(l, S, at)
    PROVE  Account(l, S, to)
<1>1. Sec(at) \in Nat /\ Sec(to) \in Nat /\ Sec(at) <= Sec(to)
  BY SecType, SecMonotone
<1>2. ASSUME NEW k, OpenRows(l, S, k, at)
      PROVE  OpenRows(l, S, k, to)
  <2>1. \A x \in Nat : x <= Sec(at) => x <= Sec(to)
    BY <1>1
  <2> QED
    BY <1>2, <2>1 DEF OpenRows
<1> QED
  BY <1>2 DEF Account

LEMMA TickAccount ==
    ASSUME IInv, Account(log, facts, clock), Tick
    PROVE  Account(log, facts, clock)'
<1>1. /\ clock \in Nat /\ clock' \in Nat /\ clock <= clock' /\ log' = log /\ facts' = facts
      /\ \A v \in facts : v.vf \in Nat /\ v.vt \in Nat
  BY DEF IInv, TypeOK, VersionType, Ticks, Tick
<1>2. Account(log, facts, clock')
  BY <1>1, LaterAccount
<1> QED
  BY <1>1, <1>2

LEMMA StoreAccount ==
    ASSUME IInv, Account(log, facts, clock), NEW c \in Names, NEW declared \in Names,
           NEW k \in Keys, NEW tags \in SUBSET Tags, NEW from \in Bounds, NEW to \in Bounds,
           StoreAs(c, declared, k, tags, from, to)
    PROVE  Account(log, facts, clock)'
<1> DEFINE f == [key |-> k, line |-> Len(log) + 1, tags |-> tags, ttl |-> 0,
                 updated |-> clock', vf |-> from, vt |-> to]
           entry(existing) ==
               [op |-> "store", key |-> k, tags |-> tags,
                agent |-> Author(c, declared, existing),
                updated |-> Sec(clock'), vf |-> Sec(from), vt |-> Sec(to)]
<1>0. clock' \in Nat /\ clock' >= clock /\ clock' >= Resolution /\ Sec(clock') \in Nat
  <2>1. clock' \in Nat /\ clock' >= clock
    BY ReadsAssumption DEF IInv, TypeOK, Ticks, StoreAs
  <2> QED
    BY <2>1, LaterSec
<1>1. /\ clock \in Nat /\ clock >= Resolution
      /\ from \in Nat /\ (from = Zero \/ from >= Resolution)
      /\ to \in Nat /\ (to = Zero \/ to >= Resolution)
      /\ log \in Seq(EntryType) /\ Len(log) \in Nat
      /\ facts \in SUBSET VersionType(Keys, Tags)
      /\ \A v \in facts : WellFormed(v) /\ Stamped(v, Sec(clock))
      /\ \A v \in facts : v.vf \in Nat /\ v.vt \in Nat
  BY ReadsAssumption DEF IInv, TypeOK, Ticks, RowShape, VersionType
<1>1a. \A v \in facts : WellFormed(v) /\ Stamped(v, Sec(clock'))
  BY <1>0, <1>1, LaterShape
<1>1b. Account(log, facts, clock')
  BY <1>0, <1>1, LaterAccount
<1>2. f \in Call(Keys, Tags)
  BY <1>0, <1>1 DEF Call, FactType, Ticks
<1>3. facts' = Put(facts, f)
  BY DEF StoreAs
<1>4. \E met : \E existing \in Existing(k, met) : log' = Append(log, entry(existing))
  BY DEF StoreAs
<1>4a. PICK met : \E existing \in Existing(k, met) : log' = Append(log, entry(existing))
  BY <1>4
<1>4b. PICK existing \in Existing(k, met) : log' = Append(log, entry(existing))
  BY <1>4a
<1> DEFINE e == entry(existing)
<1>5. e \in EntryType
  <2>1. Author(c, declared, existing) \in Names
    BY AuthorNamed
  <2>2. Sec(clock') \in Nat /\ Sec(from) \in Nat /\ Sec(to) \in Nat
    BY <1>0, <1>1, SecType
  <2> QED
    BY <2>1, <2>2 DEF EntryType, Ticks
<1>6. /\ f.updated = clock' /\ f.line = Len(log) + 1 /\ f.ttl = 0
      /\ e.op = "store" /\ e.key = f.key /\ e.tags = f.tags
      /\ e.vf = Sec(f.vf) /\ e.vt = Sec(f.vt)
  OBVIOUS
<1>7. log' = Append(log, e)
  BY <1>4b
<1> HIDE DEF f, e
<1>8. Account(Append(log, e), Put(facts, f), clock')
  BY <1>0, <1>1, <1>1a, <1>1b, <1>2, <1>5, <1>6, StoreAccounts
<1> QED
  BY <1>3, <1>7, <1>8

\* Two entries appended together.
LEMMA TwoMore ==
    ASSUME NEW T, NEW s \in Seq(T), NEW a \in T, NEW b \in T
    PROVE  s \o (<< a >> \o << b >>) = Append(Append(s, a), b)
<1>1. << a >> \in Seq(T) /\ << b >> \in Seq(T)
  OBVIOUS
<1>2. s \o (<< a >> \o << b >>) = (s \o << a >>) \o << b >>
  BY <1>1, ConcatAssociative
<1>3. s \o << a >> = Append(s, a) /\ Append(s, a) \in Seq(T)
  BY AppendIsConcat
<1> QED
  BY <1>2, <1>3, AppendIsConcat

\* A forget is at most two tombstones, one after the other.
LEMMA ForgetAccount ==
    ASSUME IInv, Account(log, facts, clock), NEW c \in Names, NEW declared \in Names,
           NEW k \in Keys \cup {NoKey}, NEW tags \in SUBSET Tags,
           ForgetAs(c, declared, k, tags)
    PROVE  Account(log, facts, clock)'
<1> DEFINE stone(op, key, which) ==
               [op |-> op, key |-> key, tags |-> which,
                agent |-> IF c # NoAgent THEN c ELSE declared,
                updated |-> Sec(clock), vf |-> Zero, vt |-> Zero]
           a == stone("delete", k, {})
           b == stone("delete_tags", NoKey, tags)
           D == {p \in facts : p.key = k /\ Believed(p)}
           S == IF k # NoKey THEN DeleteByEntity(facts, k, clock) ELSE facts
           l == IF k # NoKey THEN Append(log, a) ELSE log
           E == {p \in S : tags # {} /\ tags \subseteq p.tags /\ Believed(p)}
<1>1. /\ clock \in Nat /\ clock >= Resolution /\ Sec(clock) \in Nat
      /\ log \in Seq(EntryType) /\ Len(log) \in Nat
      /\ facts \in SUBSET VersionType(Keys, Tags) /\ IsFiniteSet(facts) /\ OneIn(facts)
      /\ \A v \in facts : RowShape(v)
  BY SecType DEF IInv, TypeOK, Ticks
<1>2. /\ a.op = "delete" /\ a.key = k
      /\ b.op = "delete_tags" /\ b.tags = tags
      /\ a \in EntryType /\ b \in EntryType
  BY <1>1 DEF EntryType, Ticks, Zero
<1>3. /\ clock' \in Nat /\ clock' >= clock
      /\ facts' = DeleteByTags(S, tags, clock)
  BY <1>1, ReadsAssumption DEF ForgetAs
<1>4. log' = IF tags # {} THEN Append(l, b) ELSE l
  <2> DEFINE x == IF k # NoKey THEN << a >> ELSE <<>>
             y == IF tags # {} THEN << b >> ELSE <<>>
  <2>1. log' = log \o (x \o y)
    BY DEF ForgetAs, Tombstones
  <2> HIDE DEF a, b
  <2>2. CASE k = NoKey /\ tags = {}
    BY <1>1, <2>1, <2>2
  <2>3. CASE k = NoKey /\ tags # {}
    BY <1>1, <1>2, <2>1, <2>3
  <2>4. CASE k # NoKey /\ tags = {}
    BY <1>1, <1>2, <2>1, <2>4
  <2>5. CASE k # NoKey /\ tags # {}
    <3>1. x \o y = << a >> \o << b >>
      BY <2>5
    <3>2. log \o (<< a >> \o << b >>) = Append(Append(log, a), b)
      BY <1>1, <1>2, TwoMore
    <3>3. log' = Append(Append(log, a), b)
      BY <2>1, <3>1, <3>2
    <3> QED
      BY <2>5, <3>3
  <2> QED
    BY <2>2, <2>3, <2>4, <2>5
<1> HIDE DEF a, b
<1>5. /\ l \in Seq(EntryType) /\ Account(l, S, clock)
      /\ S \in SUBSET VersionType(Keys, Tags)
  <2>1. CASE k = NoKey
    BY <1>1, <2>1
  <2>2. CASE k # NoKey
    <3>1. S = Forget(facts, D, clock) /\ D \in SUBSET facts
      BY <2>2 DEF DeleteByEntity
    <3>2. \A v \in facts : Believed(v) =>
             (v \in D <=> \/ a.op = "delete" /\ a.key = v.key
                          \/ a.op = "delete_tags" /\ HasAll(v.tags, a.tags))
      BY <1>2
    <3> HIDE DEF S, D
    <3>3. Account(Append(log, a), S, clock)
      BY <1>1, <1>2, <3>1, <3>2, StoneAccounts
    <3>4. S \in SUBSET VersionType(Keys, Tags)
      BY <1>1, <3>1, ForgetKeeps
    <3>5. Append(log, a) \in Seq(EntryType)
      BY <1>1, <1>2
    <3> QED
      BY <2>2, <3>3, <3>4, <3>5
  <2> QED
    BY <2>1, <2>2
<1>6. facts' = Forget(S, E, clock) /\ E \in SUBSET S
  BY <1>3 DEF DeleteByTags
<1>6a. \A v \in facts' : v.vf \in Nat /\ v.vt \in Nat
  <2>1. facts' \in SUBSET VersionType(Keys, Tags)
    BY ForgetStep DEF IInv, TypeOK
  <2> QED
    BY <2>1 DEF VersionType, Ticks
<1>7. ASSUME tags = {}
      PROVE  Account(log', facts', clock)
  <2>1. facts' = S
    <3>1. E = {}
      BY <1>7
    <3> HIDE DEF E
    <3> QED
      BY <1>6, <3>1 DEF Forget
  <2> QED
    BY <1>4, <1>5, <1>7, <2>1
<1>8. ASSUME tags # {}
      PROVE  Account(log', facts', clock)
  <2>1. \A v \in S : Believed(v) =>
           (v \in E <=> \/ b.op = "delete" /\ b.key = v.key
                        \/ b.op = "delete_tags" /\ HasAll(v.tags, b.tags))
    BY <1>2, <1>8 DEF HasAll
  <2> HIDE DEF S, E, l
  <2>2. Account(Append(l, b), Forget(S, E, clock), clock)
    BY <1>1, <1>2, <1>5, <1>6, <2>1, StoneAccounts
  <2> QED
    BY <1>4, <1>6, <1>8, <2>2
<1>9. Account(log', facts', clock)
  BY <1>7, <1>8
<1> HIDE DEF S, E, l, D
<1> QED
  BY <1>1, <1>3, <1>6a, <1>9, LaterAccount

LEMMA NextAccount == IInv /\ Account(log, facts, clock) /\ [Next]_vars => Account(log, facts, clock)'
<1> SUFFICES ASSUME IInv, Account(log, facts, clock), [Next]_vars
             PROVE  Account(log, facts, clock)'
  OBVIOUS
<1>1. CASE UNCHANGED vars
  BY <1>1 DEF vars
<1>2. CASE Tick
  BY <1>2, TickAccount
<1>3. ASSUME NEW r \in Requests
      PROVE  CallerFrom(r) \in Names /\ r.declared \in Names
  BY ReadsAssumption DEF CallerFrom, Names
<1>4. ASSUME NEW r \in Requests, ToolsCall(r)
      PROVE  Account(log, facts, clock)'
  BY <1>3, <1>4, StoreAccount, ForgetAccount DEF ToolsCall
<1> QED
  BY <1>1, <1>2, <1>4 DEF Next

THEOREM AccountAlways == Spec => []Account(log, facts, clock)
  BY InitAccount, NextAccount, Invariance, PTL DEF Spec

-----------------------------------------------------------------------------
(* The history, and the reads of the rows.                                  *)

\* A key that was stored was stored last once.
LEMMA HasLast ==
    ASSUME NEW l, Len(l) \in Nat, NEW k, StoresOf(l, k) # {}
    PROVE  \E n : IsLast(l, k, n)
<1> DEFINE G == {Len(l) - i : i \in StoresOf(l, k)}
<1>1. \A i \in StoresOf(l, k) : i \in 1..Len(l)
  BY DEF StoresOf
<1>2. G \in SUBSET Nat /\ G # {}
  BY <1>1
<1>3. PICK g \in G : \A h \in G : g <= h
  BY <1>2, Least, Zenon
<1>4. PICK n \in StoresOf(l, k) : g = Len(l) - n
  BY <1>3
<1>5. \A j \in StoresOf(l, k) : Len(l) - n <= Len(l) - j
  BY <1>3, <1>4
<1>6. \A j \in StoresOf(l, k) : j <= n
  BY <1>1, <1>5
<1> QED
  BY <1>6 DEF IsLast

\* What there is to say of a key: it was never stored, or its life tells of its
\* last store.
LEMMA KeyTold ==
    ASSUME IInv, Account(log, facts, clock), NEW k \in Keys
    PROVE  \/ /\ Life(k) = Unborn
              /\ \A v \in facts : v.key # k
           \/ \E n : /\ IsLast(log, k, n) /\ LastStore(k) = n
                     /\ Life(k).owner = log[n].agent
                     /\ Life(k).live \in BOOLEAN
                     /\ Life(k).live <=> Going(facts, k, n)
                     /\ Life(k).events # <<>>
                     /\ IF Life(k).live THEN /\ Last(Life(k).events).what # "delete"
                                             /\ Last(Life(k).events).line = n
                                        ELSE Last(Life(k).events).what = "delete"
<1>1. Life(k) = Lived(log, k)
  BY LifeIsLived
<1>2. Tells(Life(k), log, facts, k) /\ Sourced(log, facts)
  BY <1>1 DEF Account
<1>3. CASE StoresOf(log, k) = {}
  BY <1>2, <1>3 DEF Tells, Sourced
<1>4. CASE StoresOf(log, k) # {}
  <2>1. Len(log) \in Nat
    BY DEF IInv, TypeOK
  <2>2. PICK n : IsLast(log, k, n)
    BY <1>4, <2>1, HasLast
  <2>3. LastStore(k) = n
    <3> DEFINE Q == StoresOf(log, k)
    <3>1. LastStore(k) = CHOOSE i \in Q : \A j \in Q : j <= i
      BY DEF LastStore, StoresOf
    <3>2. n \in Q /\ \A j \in Q : j <= n
      BY <2>2 DEF IsLast
    <3>3. \A j \in Q : j \in Nat
      BY DEF StoresOf
    <3> HIDE DEF Q
    <3>4. LastStore(k) \in Q /\ \A j \in Q : j <= LastStore(k)
      BY <3>1, <3>2, Zenon
    <3>5. n <= LastStore(k) /\ LastStore(k) <= n /\ n \in Nat /\ LastStore(k) \in Nat
      BY <3>2, <3>3, <3>4
    <3> QED
      BY <3>5
  <2>4. Life(k).live \in BOOLEAN
    BY <1>2 DEF Tells, LifeType
  <2> QED
    BY <1>2, <2>2, <2>3, <2>4 DEF Tells
<1> QED
  BY <1>3, <1>4

\* The history of a key ends on a life exactly when something of its last store
\* is believed: one flag and the tags of one entry are enough, for logs of any
\* length.
THEOREM HistoryLiveAlways == Spec => []HistoryLive
<1>1. IInv /\ Account(log, facts, clock) => HistoryLive
  <2> SUFFICES ASSUME IInv, Account(log, facts, clock), NEW k \in Keys
               PROVE  Life(k).live
                        <=> \E v \in facts : v.key = k /\ Believed(v) /\ v.line = LastStore(k)
    BY DEF HistoryLive
  <2> QED
    BY KeyTold DEF Going, Unborn
<1> QED
  BY <1>1, Invariance, AccountAlways, PTL

\* The rows of an open-ended key that hold now: none, or those of a life that
\* goes on, which have its owner.
LEMMA OpenLive ==
    ASSUME IInv, Account(log, facts, clock), NEW k \in Keys, Open(k)
    PROVE  LET x == Life(k)
               alive == IF x.events # <<>> /\ Last(x.events).what # "delete"
                        THEN {Last(x.events).line} ELSE {}
               rows == {v \in facts : v.key = k /\ Live(v, clock)}
           IN  /\ {v.line : v \in rows} = alive
               /\ \A v \in rows : Owner(v) = x.owner
<1> DEFINE x == Life(k)
           alive == IF x.events # <<>> /\ Last(x.events).what # "delete"
                    THEN {Last(x.events).line} ELSE {}
           rows == {v \in facts : v.key = k /\ Live(v, clock)}
<1>1. OpenRows(log, facts, k, clock) /\ Sourced(log, facts)
  BY DEF Account, Open, OpenIn
<1>2. Sec(clock) \in Nat /\ \A v \in facts : v.vf \in Nat /\ v.vt \in Nat
  BY SecType DEF IInv, TypeOK, VersionType, Ticks
<1>3. \A v \in rows : IsLast(log, k, v.line) /\ Believed(v)
  BY <1>1, <1>2 DEF OpenRows, Live, Covers, Zero
<1>4. ASSUME x = Unborn, \A v \in facts : v.key # k
      PROVE  {v.line : v \in rows} = alive /\ \A v \in rows : Owner(v) = x.owner
  <2>1. alive = {} /\ rows = {}
    BY <1>4 DEF Unborn
  <2> QED
    BY <2>1
<1>5. ASSUME NEW n, IsLast(log, k, n), x.owner = log[n].agent, x.live \in BOOLEAN,
             x.live <=> Going(facts, k, n), x.events # <<>>,
             IF x.live THEN Last(x.events).what # "delete" /\ Last(x.events).line = n
                       ELSE Last(x.events).what = "delete"
      PROVE  {v.line : v \in rows} = alive /\ \A v \in rows : Owner(v) = x.owner
  <2>1. \A v \in rows : v.line = n
    <3>1. \A i, j : IsLast(log, k, i) /\ IsLast(log, k, j) => i = j
      BY DEF IsLast, StoresOf
    <3> QED
      BY <1>3, <1>5, <3>1
  <2>2. CASE x.live
    <3>1. alive = {n}
      BY <1>5, <2>2
    <3>2. PICK v \in facts : v.key = k /\ Believed(v) /\ v.line = n
      BY <1>5, <2>2 DEF Going
    <3>3. v.vt = Zero /\ v.vf <= Sec(clock) /\ v.ttl = 0
      BY <1>1, <1>5, <3>2 DEF OpenRows, Sourced
    <3>4. v \in rows
      BY <3>2, <3>3 DEF Live, Covers, Expired
    <3> HIDE DEF rows, alive
    <3>5. {w.line : w \in rows} = alive
      BY <2>1, <3>1, <3>4
    <3>6. \A w \in rows : Owner(w) = x.owner
      BY <1>5, <2>1 DEF Owner
    <3> QED
      BY <3>5, <3>6
  <2>3. CASE ~x.live
    <3>1. alive = {}
      BY <1>5, <2>3
    <3>2. rows = {}
      BY <1>3, <1>5, <2>1, <2>3 DEF Going
    <3> HIDE DEF rows, alive
    <3> QED
      BY <3>1, <3>2
  <2> QED
    BY <1>5, <2>2, <2>3
<1> HIDE DEF rows, alive, x
<1> DEFINE Goes(n) ==
                /\ IsLast(log, k, n) /\ x.owner = log[n].agent /\ x.live \in BOOLEAN
                /\ x.live <=> Going(facts, k, n)
                /\ x.events # <<>>
                /\ IF x.live THEN Last(x.events).what # "delete" /\ Last(x.events).line = n
                             ELSE Last(x.events).what = "delete"
<1>6. \/ x = Unborn /\ \A v \in facts : v.key # k
      \/ \E n : Goes(n)
  BY KeyTold DEF x
<1>7. {v.line : v \in rows} = alive /\ \A v \in rows : Owner(v) = x.owner
  <2>1. CASE \E n : Goes(n)
    <3>1. PICK n : Goes(n)
      BY <2>1
    <3> QED
      BY <1>5, <3>1
  <2>2. CASE x = Unborn /\ \A v \in facts : v.key # k
    BY <1>4, <2>2
  <2> QED
    BY <1>6, <2>1, <2>2
<1> QED
  BY <1>7 DEF rows, alive, x

\* Recall, list and history agree, caller by caller, on a key whose stores are
\* open-ended, for any scopes and logs of any length.
THEOREM RecallAgreesAlways == Spec => []RecallAgrees
<1>1. IInv /\ Account(log, facts, clock) => RecallAgrees
  <2> SUFFICES ASSUME IInv, Account(log, facts, clock), NEW c \in Names, NEW k \in Keys, Open(k)
               PROVE  LET told == History(c, k)
                          alive == IF told # <<>> /\ Last(told).what # "delete"
                                   THEN {Last(told).line} ELSE {}
                      IN  /\ \A answer \in Recall(c, k, {}, NoAgent, 1, Zero, Zero) :
                                {v.line : v \in answer} = alive
                          /\ {v.line : v \in {w \in List(c, {}, NoAgent, Zero, Zero) : w.key = k}}
                                = alive
    BY DEF RecallAgrees
  <2> DEFINE x == Life(k)
             hidden == Scoped(c) /\ ~CanRead(c, x.owner)
             told == History(c, k)
             going == IF x.events # <<>> /\ Last(x.events).what # "delete"
                      THEN {Last(x.events).line} ELSE {}
             alive == IF told # <<>> /\ Last(told).what # "delete" THEN {Last(told).line} ELSE {}
             rows == {v \in facts : v.key = k /\ Live(v, clock)}
  <2>1. {v.line : v \in rows} = going /\ \A v \in rows : Owner(v) = x.owner
    BY OpenLive
  <2>2. alive = IF hidden THEN {} ELSE going
    BY DEF History
  <2>3. SelectFacts(k, {}, NoAgent, Zero, Zero, clock) = rows
    <3>1. k # NoKey
      BY ReadsAssumption
    <3> QED
      BY <3>1 DEF SelectFacts, Selected, Matches
  <2>4. {w \in List(c, {}, NoAgent, Zero, Zero) : w.key = k} = Visible(rows, c)
    BY DEF List, Visible, SelectFacts, Selected, Matches
  <2>5. IsFiniteSet(rows)
    BY FS_Subset DEF IInv
  <2> HIDE DEF rows, going, alive, x
  <2>6. ASSUME NEW R \in SUBSET rows, {v.line : v \in R} = going
        PROVE  {v.line : v \in Visible(R, c)} = alive
    <3>1. \A v \in R : Owner(v) = x.owner
      BY <2>1
    <3>2. Visible(R, c) = IF hidden THEN {} ELSE R
      BY <3>1 DEF Visible
    <3> QED
      BY <2>2, <2>6, <3>2
  <2>7. ASSUME NEW answer \in Recall(c, k, {}, NoAgent, 1, Zero, Zero)
        PROVE  {v.line : v \in answer} = alive
    <3>1. PICK R \in Limited(rows, 1) : answer = Visible(R, c)
      BY <2>3, <2>7 DEF Recall
    <3>2. R \in SUBSET rows
      BY <3>1 DEF Limited
    <3>3. {v.line : v \in R} = going
      <4>1. CASE rows = {}
        <5>1. R = {}
          BY <3>2, <4>1
        <5> QED
          BY <2>1, <4>1, <5>1
      <4>2. CASE rows # {}
        <5>1. PICK r \in R : TRUE
          BY <2>5, <3>1, <4>2, LimitedOne
        <5>2. \A v \in rows : v.line = r.line
          BY <2>1, <3>2, <5>1 DEF going
        <5> QED
          BY <2>1, <3>2, <5>1, <5>2
      <4> QED
        BY <4>1, <4>2
    <3> QED
      BY <2>6, <3>1, <3>2, <3>3
  <2>8. {v.line : v \in Visible(rows, c)} = alive
    BY <2>1, <2>6
  <2>9. /\ \A answer \in Recall(c, k, {}, NoAgent, 1, Zero, Zero) : {v.line : v \in answer} = alive
        /\ {v.line : v \in {w \in List(c, {}, NoAgent, Zero, Zero) : w.key = k}} = alive
    BY <2>4, <2>7, <2>8
  <2> QED
    BY <2>9 DEF alive
<1> QED
  BY <1>1, Invariance, AccountAlways, PTL
=============================================================================
