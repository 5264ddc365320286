----------------------------- MODULE IndexProofs -----------------------------
(***************************************************************************)
(* The storage layer keeps its promises whatever the keys, the tags, the   *)
(* bounds given, the number of calls and the resolution of the clock.      *)
(***************************************************************************)
EXTENDS Index, BitemporalProofs

-----------------------------------------------------------------------------
(* The calls the machine makes are calls of BitemporalProofs.               *)

LEMMA MomentsAreMoments == Moments \subseteq Moment
  BY IndexAssumption DEF Moment

LEMMA PutFactCall ==
    ASSUME TypeOK, TableShape,
           NEW k \in Keys, NEW tags \in SUBSET Tags, NEW ttl \in TTLs,
           NEW from \in Bounds, NEW to \in Bounds
    PROVE  [key |-> k, line |-> lines + 1, tags |-> tags, ttl |-> ttl,
            updated |-> clock, vf |-> from, vt |-> to] \in Call(Keys, Tags)
<1>1. /\ lines + 1 \in Nat /\ ttl \in Int /\ clock \in Nat /\ clock >= Resolution
      /\ from \in Nat /\ (from = Zero \/ from >= Resolution)
      /\ to \in Nat /\ (to = Zero \/ to >= Resolution)
  BY IndexAssumption DEF TypeOK, TableShape, Ticks
<1> QED
  BY <1>1 DEF Call, FactType, Ticks

\* One answer now, and one as of every second before s, are one answer as of
\* every moment, when no row is stamped after s.
LEMMA OneAnswerAsOf ==
    ASSUME NEW S \in SUBSET VersionType(Keys, Tags),
           NEW s \in Nat, NEW k, NEW m,
           \A v \in S : WellFormed(v) /\ Stamped(v, s),
           \A x, y \in Belief(S, k, m) : x = y,
           \A t \in Moments : t < s => \A x, y \in BeliefAt(S, k, t, m) : x = y,
           NEW t \in Moments, NEW x \in BeliefAt(S, k, t, m),
           NEW y \in BeliefAt(S, k, t, m)
    PROVE  x = y
<1>1. t \in Nat
  BY IndexAssumption
<1>2. CASE s <= t
  <2>1. \A v \in S : v \in VersionType(Keys, Tags) /\ WellFormed(v) /\ Stamped(v, t)
    BY <1>1, <1>2 DEF Stamped, VersionType, Ticks
  <2>2. BeliefAt(S, k, t, m) = Belief(S, k, m)
    BY <1>1, <2>1, AsOfNow
  <2> QED
    BY <2>2
<1> QED
  BY <1>1, <1>2

-----------------------------------------------------------------------------
(* What each call does to the answers.                                      *)

LEMMA PutFactMeans ==
    ASSUME IInv, NEW k \in Keys, NEW tags \in SUBSET Tags, NEW ttl \in TTLs,
           NEW from \in Bounds, NEW to \in Bounds,
           PutFact(k, tags, ttl, from, to)
    PROVE  /\ TypeOK' /\ TableShape'
           /\ \E f \in Call(Keys, Tags) :
                /\ f.key = k /\ f.line = lines + 1
                /\ \A j \in Keys, m \in Moments :
                      Belief(facts', j, m)
                        = IF j = k /\ Inside(f, m) THEN {lines + 1} ELSE Belief(facts, j, m)
           /\ \A j \in Keys, t, m \in Moments :
                t < Sec(clock) => BeliefAt(facts', j, t, m) = BeliefAt(facts, j, t, m)
<1> DEFINE f == [key |-> k, line |-> lines + 1, tags |-> tags, ttl |-> ttl,
                 updated |-> clock, vf |-> from, vt |-> to]
<1>1. f \in Call(Keys, Tags)
  BY PutFactCall DEF IInv
<1>2. f.key = k /\ f.line = lines + 1 /\ f.updated = clock
  OBVIOUS
<1>3. facts' = Put(facts, f) /\ lines' = lines + 1 /\ clock' = clock /\ lines < MaxLines
  BY DEF PutFact
<1> HIDE DEF f
<1>4. /\ facts \in SUBSET VersionType(Keys, Tags) /\ clock \in Nat /\ lines \in Nat
      /\ \A v \in facts : WellFormed(v) /\ Stamped(v, Sec(clock))
      /\ \A v \in facts : v.line \in 1..lines
      /\ \A v, w \in facts : v.line = w.line => SameFact(v, w)
      /\ clock >= Resolution /\ MaxLines \in Nat
  BY IndexAssumption DEF IInv, TypeOK, TableShape, Ticks
<1>5. ASSUME NEW w \in facts'
      PROVE  /\ w \in VersionType(Keys, Tags) /\ WellFormed(w)
             /\ Stamped(w, Sec(clock))
             /\ w = NewVersion(f) \/ \E p \in facts : SameFact(w, p)
  BY <1>1, <1>2, <1>3, <1>4, PutKeepsRows
<1>6. NewVersion(f).line = lines + 1
  BY <1>2 DEF NewVersion
<1>7. \A w \in facts' : w.line \in 1..(lines + 1)
  BY <1>4, <1>5, <1>6 DEF SameFact
<1>8. ASSUME NEW v \in facts', NEW w \in facts', v.line = w.line PROVE SameFact(v, w)
  <2>1. CASE v = NewVersion(f) /\ w = NewVersion(f)
    BY <2>1 DEF SameFact
  <2>2. CASE /\ \E p \in facts : SameFact(v, p)
             /\ \E p \in facts : SameFact(w, p)
    <3>1. PICK p \in facts : SameFact(v, p)
      BY <2>2
    <3>2. PICK q \in facts : SameFact(w, q)
      BY <2>2
    <3>3. SameFact(p, q)
      BY <1>4, <1>8, <3>1, <3>2 DEF SameFact
    <3> QED
      BY <3>1, <3>2, <3>3 DEF SameFact
  <2>3. ASSUME NEW p \in facts PROVE p.line # lines + 1
    BY <1>4
  <2> QED
    BY <1>5, <1>6, <1>8, <2>1, <2>2, <2>3 DEF SameFact
<1>9. TypeOK' /\ TableShape'
  BY <1>3, <1>4, <1>5, <1>7, <1>8 DEF TypeOK, TableShape, Ticks
<1>10. ASSUME NEW j \in Keys, NEW m \in Moments
       PROVE  Belief(facts', j, m)
                = IF j = k /\ Inside(f, m) THEN {lines + 1} ELSE Belief(facts, j, m)
  <2>1. m \in Moment
    BY MomentsAreMoments
  <2> QED
    BY <1>1, <1>2, <1>3, <1>4, <2>1, PutBelief
<1>11. ASSUME NEW j \in Keys, NEW t \in Moments, NEW m \in Moments, t < Sec(clock)
       PROVE  BeliefAt(facts', j, t, m) = BeliefAt(facts, j, t, m)
  <2>1. t \in Nat
    BY IndexAssumption
  <2> QED
    BY <1>1, <1>2, <1>3, <1>4, <1>11, <2>1, PutPast
<1> QED
  BY <1>1, <1>2, <1>9, <1>10, <1>11

\* Any of the two forgets, of the rows D.
LEMMA ForgetMeans ==
    ASSUME IInv, NEW D \in SUBSET facts, \A p \in D : Believed(p),
           facts' = Forget(facts, D, clock), UNCHANGED <<clock, lines>>
    PROVE  /\ TypeOK' /\ TableShape'
           /\ \A j \in Keys, m \in Moments : Belief(facts', j, m) = Belief(facts \ D, j, m)
           /\ \A j \in Keys, t, m \in Moments :
                t < Sec(clock) => BeliefAt(facts', j, t, m) = BeliefAt(facts, j, t, m)
<1>1. /\ facts \in SUBSET VersionType(Keys, Tags) /\ clock \in Nat /\ lines \in Nat
      /\ \A v \in facts : WellFormed(v) /\ Stamped(v, Sec(clock)) /\ v.line \in 1..lines
      /\ \A v, w \in facts : v.line = w.line => SameFact(v, w)
      /\ clock >= Resolution
  BY DEF IInv, TypeOK, TableShape, Ticks
<1>2. ASSUME NEW w \in facts'
      PROVE  /\ w \in VersionType(Keys, Tags) /\ WellFormed(w)
             /\ Stamped(w, Sec(clock)) /\ \E p \in facts : SameFact(w, p)
  BY <1>1, ForgetKeepsRows
<1>3. \A w \in facts' : w.line \in 1..lines
  BY <1>1, <1>2 DEF SameFact
<1>4. ASSUME NEW v \in facts', NEW w \in facts', v.line = w.line PROVE SameFact(v, w)
  <2>1. PICK p \in facts : SameFact(v, p)
    BY <1>2
  <2>2. PICK q \in facts : SameFact(w, q)
    BY <1>2
  <2>3. SameFact(p, q)
    BY <1>1, <1>4, <2>1, <2>2 DEF SameFact
  <2> QED
    BY <2>1, <2>2, <2>3 DEF SameFact
<1>5. TypeOK' /\ TableShape'
  BY <1>1, <1>2, <1>3, <1>4 DEF TypeOK, TableShape, Ticks, IInv
<1>6. \A j \in Keys, m \in Moments : Belief(facts', j, m) = Belief(facts \ D, j, m)
  BY <1>1, ForgetBelief
<1>7. \A j \in Keys, t, m \in Moments :
        t < Sec(clock) => BeliefAt(facts', j, t, m) = BeliefAt(facts, j, t, m)
  BY <1>1, ForgetPast, IndexAssumption
<1> QED
  BY <1>5, <1>6, <1>7

\* DeleteByEntity and DeleteByTags are forgets.
LEMMA DeletesForget ==
    /\ \A k : DeleteByEntity(facts, k, clock)
               = Forget(facts, {p \in facts : p.key = k /\ Believed(p)}, clock)
    /\ \A tags : DeleteByTags(facts, tags, clock)
               = Forget(facts, {p \in facts : tags # {} /\ tags \subseteq p.tags /\ Believed(p)}, clock)
  BY DEF DeleteByEntity, DeleteByTags

LEMMA PurgeMeans ==
    ASSUME IInv, Purge
    PROVE  /\ TypeOK' /\ TableShape'
           /\ facts' \subseteq facts
  BY DEF IInv, TypeOK, TableShape, Purge, PurgeExpired

LEMMA TickMeans ==
    ASSUME IInv, Tick
    PROVE  /\ TypeOK' /\ TableShape'
           /\ Sec(clock) <= Sec(clock')
<1>1. /\ clock \in Nat /\ clock' = clock + 1 /\ UNCHANGED <<facts, lines>>
      /\ clock >= Resolution
  BY DEF IInv, TypeOK, TableShape, Tick, Ticks
<1>2. Sec(clock) <= Sec(clock') /\ Sec(clock) \in Nat /\ Sec(clock') \in Nat
  BY <1>1, SecMonotone, SecType
<1>3. \A v \in facts : Stamped(v, Sec(clock'))
  BY <1>2 DEF IInv, TypeOK, TableShape, Stamped, VersionType, Ticks
<1> QED
  BY <1>1, <1>2, <1>3, ResolutionAssumption DEF IInv, TypeOK, TableShape, Ticks

-----------------------------------------------------------------------------
(* The inductive invariant.                                                 *)

LEMMA InitIInv == Init => IInv
<1> SUFFICES ASSUME Init PROVE IInv
  OBVIOUS
<1>1. TypeOK /\ TableShape
  BY IndexAssumption, ResolutionAssumption DEF Init, TypeOK, TableShape, Ticks
<1>2. OneAnswer
  BY DEF Init, OneAnswer, Belief, BeliefAt
<1> QED
  BY <1>1, <1>2 DEF IInv

\* Fewer answers than before, and the past unchanged, is still one answer.
LEMMA OneAnswerStep ==
    ASSUME IInv, TypeOK', TableShape', clock' = clock,
           \A j \in Keys, m \in Moments : \A x, y \in Belief(facts', j, m) : x = y,
           \A j \in Keys, t, m \in Moments :
              t < Sec(clock) => BeliefAt(facts', j, t, m) = BeliefAt(facts, j, t, m)
    PROVE  OneAnswer'
<1>1. SUFFICES ASSUME NEW k \in Keys, NEW m \in Moments, NEW t \in Moments,
                      NEW x \in BeliefAt(facts', k, t, m),
                      NEW y \in BeliefAt(facts', k, t, m)
               PROVE  x = y
  BY DEF OneAnswer
<1>2. /\ facts' \in SUBSET VersionType(Keys, Tags) /\ Sec(clock') \in Nat
      /\ \A v \in facts' : WellFormed(v) /\ Stamped(v, Sec(clock'))
  BY SecType DEF TypeOK, TableShape, Ticks
<1>3. \A u \in Moments : u < Sec(clock') =>
         \A a, b \in BeliefAt(facts', k, u, m) : a = b
  BY DEF IInv, OneAnswer
<1>4. \A a, b \in Belief(facts', k, m) : a = b
  OBVIOUS
<1> QED
  BY <1>1, <1>2, <1>3, <1>4, OneAnswerAsOf

LEMMA ForgetKeepsIInv ==
    ASSUME IInv, NEW D \in SUBSET facts, \A p \in D : Believed(p),
           facts' = Forget(facts, D, clock), UNCHANGED <<clock, lines>>
    PROVE  IInv'
<1>1. /\ TypeOK' /\ TableShape'
      /\ \A j \in Keys, m \in Moments : Belief(facts', j, m) = Belief(facts \ D, j, m)
      /\ \A j \in Keys, t, m \in Moments :
           t < Sec(clock) => BeliefAt(facts', j, t, m) = BeliefAt(facts, j, t, m)
  BY ForgetMeans
<1>2. \A j \in Keys, m \in Moments : Belief(facts', j, m) \subseteq Belief(facts, j, m)
  BY <1>1 DEF Belief
<1>3. \A j \in Keys, m \in Moments : \A x, y \in Belief(facts', j, m) : x = y
  BY <1>2 DEF IInv, OneAnswer
<1> QED
  BY <1>1, <1>3, OneAnswerStep DEF IInv

LEMMA NextIInv == IInv /\ [Next]_vars => IInv'
<1> SUFFICES ASSUME IInv, [Next]_vars PROVE IInv'
  OBVIOUS
<1>1. CASE Tick
  <2>1. TypeOK' /\ TableShape'
    BY <1>1, TickMeans
  <2>2. OneAnswer'
    BY <1>1 DEF IInv, OneAnswer, Tick
  <2> QED
    BY <2>1, <2>2 DEF IInv
<1>2. ASSUME NEW k \in Keys, NEW tags \in SUBSET Tags, NEW ttl \in TTLs,
             NEW from \in Bounds, NEW to \in Bounds, PutFact(k, tags, ttl, from, to)
      PROVE  IInv'
  <2>1. /\ TypeOK' /\ TableShape'
        /\ \E f \in Call(Keys, Tags) : \A j \in Keys, m \in Moments :
              Belief(facts', j, m)
                = IF j = k /\ Inside(f, m) THEN {lines + 1} ELSE Belief(facts, j, m)
        /\ \A j \in Keys, t, m \in Moments :
             t < Sec(clock) => BeliefAt(facts', j, t, m) = BeliefAt(facts, j, t, m)
    BY <1>2, PutFactMeans
  <2>2. \A j \in Keys, m \in Moments : \A x, y \in Belief(facts', j, m) : x = y
    BY <2>1 DEF IInv, OneAnswer
  <2>3. clock' = clock
    BY <1>2 DEF PutFact
  <2>4. OneAnswer'
    BY <2>1, <2>2, <2>3, OneAnswerStep
  <2> QED
    BY <2>1, <2>4 DEF IInv
<1>3. ASSUME NEW k \in Keys, ForgetKey(k) PROVE IInv'
  <2> DEFINE D == {p \in facts : p.key = k /\ Believed(p)}
  <2>1. facts' = Forget(facts, D, clock) /\ UNCHANGED <<clock, lines>>
    BY <1>3, DeletesForget DEF ForgetKey
  <2> QED
    BY <2>1, ForgetKeepsIInv
<1>4. ASSUME NEW tags \in SUBSET Tags, ForgetTags(tags) PROVE IInv'
  <2> DEFINE D == {p \in facts : tags # {} /\ tags \subseteq p.tags /\ Believed(p)}
  <2>1. facts' = Forget(facts, D, clock) /\ UNCHANGED <<clock, lines>>
    BY <1>4, DeletesForget DEF ForgetTags
  <2> QED
    BY <2>1, ForgetKeepsIInv
<1>5. CASE Purge
  <2>1. TypeOK' /\ TableShape' /\ facts' \subseteq facts
    BY <1>5, PurgeMeans
  <2>2. \A k, t, m : /\ Belief(facts', k, m) \subseteq Belief(facts, k, m)
                     /\ BeliefAt(facts', k, t, m) \subseteq BeliefAt(facts, k, t, m)
    BY <2>1 DEF Belief, BeliefAt
  <2>3. OneAnswer'
    BY <2>2 DEF IInv, OneAnswer
  <2> QED
    BY <2>1, <2>3 DEF IInv
<1>6. CASE UNCHANGED vars
  BY <1>6 DEF IInv, TypeOK, TableShape, OneAnswer, vars
<1> QED
  BY <1>1, <1>2, <1>3, <1>4, <1>5, <1>6 DEF Next

THEOREM Invariance == Spec => []IInv
  BY InitIInv, NextIInv, PTL DEF Spec

\* The rows keep their type: whole-second bounds, known keys and tags.
THEOREM TypeCorrect == Spec => []TypeOK
<1>1. IInv => TypeOK
  BY DEF IInv
<1> QED
  BY <1>1, Invariance, PTL

\* The table keeps its shape: nothing stamped after the clock, nothing forgotten
\* still believed, one content per log entry.
THEOREM ShapeAlways == Spec => []TableShape
<1>1. IInv => TableShape
  BY DEF IInv
<1> QED
  BY <1>1, Invariance, PTL

\* A key never has two contents at one moment, now or as of any moment.
THEOREM OneAnswerAlways == Spec => []OneAnswer
<1>1. IInv => OneAnswer
  BY DEF IInv
<1> QED
  BY <1>1, Invariance, PTL

-----------------------------------------------------------------------------
(* What no call may do.                                                     *)

LEMMA NextFreezesPast == IInv /\ [Next]_vars => [FreezesPast]_vars
<1> SUFFICES ASSUME IInv, Next PROVE FreezesPast
  OBVIOUS
<1>0. ASSUME NEW D \in SUBSET facts, \A p \in D : Believed(p),
             facts' = Forget(facts, D, clock), UNCHANGED <<clock, lines>>
      PROVE  FreezesPast
  BY <1>0, ForgetMeans DEF FreezesPast
<1>1. CASE Tick
  BY <1>1 DEF Tick, FreezesPast
<1>2. ASSUME NEW k \in Keys, NEW tags \in SUBSET Tags, NEW ttl \in TTLs,
             NEW from \in Bounds, NEW to \in Bounds, PutFact(k, tags, ttl, from, to)
      PROVE  FreezesPast
  BY <1>2, PutFactMeans DEF FreezesPast
<1>3. ASSUME NEW k \in Keys, ForgetKey(k) PROVE FreezesPast
  <2> DEFINE D == {p \in facts : p.key = k /\ Believed(p)}
  <2>1. facts' = Forget(facts, D, clock) /\ UNCHANGED <<clock, lines>>
    BY <1>3, DeletesForget DEF ForgetKey
  <2> QED
    BY <1>0, <2>1
<1>4. ASSUME NEW tags \in SUBSET Tags, ForgetTags(tags) PROVE FreezesPast
  <2> DEFINE D == {p \in facts : tags # {} /\ tags \subseteq p.tags /\ Believed(p)}
  <2>1. facts' = Forget(facts, D, clock) /\ UNCHANGED <<clock, lines>>
    BY <1>4, DeletesForget DEF ForgetTags
  <2> QED
    BY <1>0, <2>1
<1>5. CASE Purge
  BY <1>5 DEF Purge, FreezesPast
<1> QED
  BY <1>1, <1>2, <1>3, <1>4, <1>5 DEF Next

\* An as_of read of a second that is over always answers the same, less what
\* the TTL purge removed.
THEOREM PastFrozenAlways == Spec => PastFrozen
  BY Invariance, NextFreezesPast, PTL DEF Spec, PastFrozen

LEMMA FewerResurrectsNothing ==
    ASSUME NEW S, \A j \in Keys, m \in Moments : Belief(facts', j, m) = Belief(S, j, m),
           S \subseteq facts
    PROVE  ResurrectsNothing
  BY DEF ResurrectsNothing, Belief

LEMMA NextResurrectsNothing == IInv /\ [Next]_vars => [ResurrectsNothing]_vars
<1> SUFFICES ASSUME IInv, Next PROVE ResurrectsNothing
  OBVIOUS
<1>0. ASSUME NEW D \in SUBSET facts, \A p \in D : Believed(p),
             facts' = Forget(facts, D, clock), UNCHANGED <<clock, lines>>
      PROVE  ResurrectsNothing
  <2>1. \A j \in Keys, m \in Moments : Belief(facts', j, m) = Belief(facts \ D, j, m)
    BY <1>0, ForgetMeans
  <2>2. facts \ D \subseteq facts
    OBVIOUS
  <2> QED
    BY <2>1, <2>2, FewerResurrectsNothing
<1>1. CASE Tick
  BY <1>1 DEF Tick, ResurrectsNothing
<1>2. ASSUME NEW k \in Keys, NEW tags \in SUBSET Tags, NEW ttl \in TTLs,
             NEW from \in Bounds, NEW to \in Bounds, PutFact(k, tags, ttl, from, to)
      PROVE  ResurrectsNothing
  <2>1. PICK f \in Call(Keys, Tags) : \A j \in Keys, m \in Moments :
              Belief(facts', j, m)
                = IF j = k /\ Inside(f, m) THEN {lines + 1} ELSE Belief(facts, j, m)
    BY <1>2, PutFactMeans
  <2> QED
    BY <2>1 DEF ResurrectsNothing
<1>3. ASSUME NEW k \in Keys, ForgetKey(k) PROVE ResurrectsNothing
  <2> DEFINE D == {p \in facts : p.key = k /\ Believed(p)}
  <2>1. facts' = Forget(facts, D, clock) /\ UNCHANGED <<clock, lines>>
    BY <1>3, DeletesForget DEF ForgetKey
  <2> QED
    BY <1>0, <2>1
<1>4. ASSUME NEW tags \in SUBSET Tags, ForgetTags(tags) PROVE ResurrectsNothing
  <2> DEFINE D == {p \in facts : tags # {} /\ tags \subseteq p.tags /\ Believed(p)}
  <2>1. facts' = Forget(facts, D, clock) /\ UNCHANGED <<clock, lines>>
    BY <1>4, DeletesForget DEF ForgetTags
  <2> QED
    BY <1>0, <2>1
<1>5. CASE Purge
  BY <1>5, PurgeMeans, FewerResurrectsNothing
<1> QED
  BY <1>1, <1>2, <1>3, <1>4, <1>5 DEF Next

\* What stopped being believed about a moment is never believed again there.
THEOREM NoResurrectionEver == Spec => NoResurrection
  BY Invariance, NextResurrectsNothing, PTL DEF Spec, NoResurrection

-----------------------------------------------------------------------------
(* The rows implement the timeline.                                         *)

LEMMA InitRefines == Init => T!Init
<1> SUFFICES ASSUME Init PROVE T!Init
  OBVIOUS
<1>1. Sec(clock) \in Nat
  BY SecType, ResolutionAssumption DEF Init
<1>2. \A k, t, m : Belief(facts, k, m) = {} /\ BeliefAt(facts, k, t, m) = {}
  BY DEF Init, Belief, BeliefAt
<1>3. BeliefMap = T!Nothing
  BY <1>2 DEF BeliefMap, T!Nothing
<1>4. PastMap = [t \in Moments |-> T!Nothing]
  BY <1>2 DEF PastMap, T!Nothing
<1> QED
  BY <1>1, <1>3, <1>4 DEF T!Init

\* A fact is about a period.
LEMMA InsidePeriod ==
    ASSUME NEW f \in Call(Keys, Tags)
    PROVE  {m \in Moments : Inside(f, m)} \in T!Periods
<1> DEFINE s == Sec(ValidFrom(f))
           u == Sec(f.vt)
<1>1. s \in Nat /\ u \in Nat /\ Moments \subseteq Nat
  BY CallFrom, IndexAssumption
<1>2. \A m : Inside(f, m) <=> s <= m /\ (f.vt = Zero \/ m < u)
  BY DEF Inside
<1> HIDE DEF s, u
<1> QED
  BY <1>1, <1>2 DEF T!Periods

LEMMA PutFactRefines ==
    ASSUME IInv, NEW k \in Keys, NEW tags \in SUBSET Tags, NEW ttl \in TTLs,
           NEW from \in Bounds, NEW to \in Bounds,
           PutFact(k, tags, ttl, from, to)
    PROVE  T!Next
<1>1. PICK f \in Call(Keys, Tags) :
        \A j \in Keys, m \in Moments :
           Belief(facts', j, m)
             = IF j = k /\ Inside(f, m) THEN {lines + 1} ELSE Belief(facts, j, m)
  BY PutFactMeans
<1>2. \A j \in Keys, t, m \in Moments :
         t < Sec(clock) => BeliefAt(facts', j, t, m) = BeliefAt(facts, j, t, m)
  BY PutFactMeans
<1>3. clock' = clock /\ lines < MaxLines
  BY DEF PutFact
<1> DEFINE S == {m \in Moments : Inside(f, m)}
<1>4. S \in T!Periods /\ lines + 1 \in Lines
  BY <1>3, InsidePeriod, IndexAssumption DEF Lines, IInv, TypeOK
<1>5. BeliefMap' = [BeliefMap EXCEPT ![k] =
                      [m \in Moments |-> IF m \in S THEN {lines + 1} ELSE BeliefMap[k][m]]]
  BY <1>1 DEF BeliefMap
<1>6. PastMap' = PastMap
  BY <1>2, <1>3 DEF PastMap
<1>7. T!Learn(k, lines + 1, S)
  BY <1>3, <1>5, <1>6 DEF T!Learn
<1> QED
  BY <1>4, <1>7 DEF T!Next

\* Forgetting rows is unlearning contents, when the rows of the keys K with a
\* content in L are exactly those.
LEMMA ForgetRefines ==
    ASSUME IInv, NEW D \in SUBSET facts, \A p \in D : Believed(p),
           facts' = Forget(facts, D, clock), UNCHANGED <<clock, lines>>,
           NEW K \in SUBSET Keys, NEW L \in SUBSET Lines,
           \A p \in facts : Believed(p) => (p \in D <=> p.key \in K /\ p.line \in L)
    PROVE  T!Next
<1>1. \A j \in Keys, m \in Moments : Belief(facts', j, m) = Belief(facts \ D, j, m)
  BY ForgetMeans
<1>2. \A j \in Keys, t, m \in Moments :
         t < Sec(clock) => BeliefAt(facts', j, t, m) = BeliefAt(facts, j, t, m)
  BY ForgetMeans
<1>3. \A j \in Keys, m \in Moments :
         Belief(facts \ D, j, m) = IF j \in K THEN Belief(facts, j, m) \ L ELSE Belief(facts, j, m)
  BY DEF Belief
<1>4. BeliefMap' = [j \in Keys |-> [m \in Moments |->
                      IF j \in K THEN BeliefMap[j][m] \ L ELSE BeliefMap[j][m]]]
  BY <1>1, <1>3 DEF BeliefMap
<1>5. PastMap' = PastMap
  BY <1>2 DEF PastMap
<1>6. T!Unlearn(K, L)
  BY <1>4, <1>5 DEF T!Unlearn
<1> QED
  BY <1>6 DEF T!Next

LEMMA PurgeRefines ==
    ASSUME IInv, Purge
    PROVE  T!Next
<1> DEFINE Old(v) == v.ttl > 0 /\ Expired(v, clock)
           L == {v.line : v \in {p \in facts : Old(p)}}
<1>1. \A v \in facts : v.line \in Lines
  BY IndexAssumption DEF IInv, TypeOK, TableShape, Lines
<1>2. L \in SUBSET Lines
  BY <1>1
<1>3. \A v, w \in facts : v.line = w.line => (Old(v) <=> Old(w))
  BY DEF IInv, TableShape, SameFact, Expired
<1>4. \A v \in facts : v \in facts' <=> v.line \notin L
  BY <1>3 DEF Purge, PurgeExpired
<1>5. facts' \subseteq facts /\ clock' = clock
  BY PurgeMeans DEF Purge
<1> HIDE DEF L
<1>6. \A k, t, m : /\ Belief(facts', k, m) = Belief(facts, k, m) \ L
                   /\ BeliefAt(facts', k, t, m) = BeliefAt(facts, k, t, m) \ L
  BY <1>4, <1>5 DEF Belief, BeliefAt
<1>7. BeliefMap' = [k \in Keys |-> [m \in Moments |-> BeliefMap[k][m] \ L]]
  BY <1>6 DEF BeliefMap
<1>8. PastMap' = [t \in Moments |-> [k \in Keys |-> [m \in Moments |-> PastMap[t][k][m] \ L]]]
  BY <1>5, <1>6 DEF PastMap
<1>9. T!Erase(L)
  BY <1>5, <1>7, <1>8 DEF T!Erase
<1> QED
  BY <1>2, <1>9 DEF T!Next

LEMMA TickRefines ==
    ASSUME IInv, Tick
    PROVE  [T!Next]_(T!vars)
<1>1. /\ clock \in Nat /\ clock' \in Nat /\ facts' = facts
      /\ Sec(clock) \in Nat /\ Sec(clock') \in Nat /\ Sec(clock) <= Sec(clock')
      /\ Moments \subseteq Nat
  BY TickMeans, SecType, IndexAssumption DEF IInv, TypeOK, Tick, Ticks
<1>2. BeliefMap' = BeliefMap
  BY <1>1 DEF BeliefMap
<1>3. CASE Sec(clock') = Sec(clock)
  <2>1. PastMap' = PastMap
    BY <1>1, <1>3 DEF PastMap
  <2> QED
    BY <1>2, <1>3, <2>1 DEF T!vars
<1>4. CASE Sec(clock') > Sec(clock)
  <2>1. ASSUME NEW t \in Moments, Sec(clock) <= t, NEW k, NEW m
        PROVE  BeliefAt(facts, k, t, m) = Belief(facts, k, m)
    <3>1. \A v \in facts : v \in VersionType(Keys, Tags) /\ WellFormed(v) /\ Stamped(v, t)
      BY <1>1, <2>1 DEF IInv, TypeOK, TableShape, Stamped, VersionType, Ticks
    <3> QED
      BY <1>1, <3>1, AsOfNow DEF IInv, TypeOK
  <2>2. PastMap' = [t \in Moments |->
                      IF Sec(clock) <= t /\ t < Sec(clock') THEN BeliefMap ELSE PastMap[t]]
    <3>1. ASSUME NEW t \in Moments, Sec(clock) <= t, t < Sec(clock')
          PROVE  PastMap'[t] = BeliefMap
      BY <1>1, <2>1, <3>1 DEF PastMap, BeliefMap
    <3>2. ASSUME NEW t \in Moments, ~(Sec(clock) <= t /\ t < Sec(clock'))
          PROVE  PastMap'[t] = PastMap[t]
      BY <1>1, <3>2 DEF PastMap
    <3>3. PastMap' = [t \in Moments |-> PastMap'[t]]
      BY DEF PastMap
    <3> QED
      BY <3>1, <3>2, <3>3
  <2>3. T!Advance
    BY <1>1, <1>2, <1>4, <2>2 DEF T!Advance
  <2> QED
    BY <2>3 DEF T!Next
<1> QED
  BY <1>1, <1>3, <1>4

LEMMA NextRefines == IInv /\ [Next]_vars => [T!Next]_(T!vars)
<1> SUFFICES ASSUME IInv, [Next]_vars PROVE [T!Next]_(T!vars)
  OBVIOUS
<1>0. Lines \in SUBSET Lines /\ \A v \in facts : v.line \in Lines
  BY IndexAssumption DEF IInv, TypeOK, TableShape, Lines
<1>1. ASSUME NEW k \in Keys, ForgetKey(k) PROVE T!Next
  <2> DEFINE D == {p \in facts : p.key = k /\ Believed(p)}
  <2>1. facts' = Forget(facts, D, clock) /\ UNCHANGED <<clock, lines>>
    BY <1>1, DeletesForget DEF ForgetKey
  <2>2. \A p \in facts : Believed(p) => (p \in D <=> p.key \in {k} /\ p.line \in Lines)
    BY <1>0
  <2>3. D \in SUBSET facts /\ (\A p \in D : Believed(p)) /\ {k} \in SUBSET Keys
    OBVIOUS
  <2> HIDE DEF D
  <2> QED
    BY <1>0, <2>1, <2>2, <2>3, ForgetRefines
<1>2. ASSUME NEW tags \in SUBSET Tags, ForgetTags(tags) PROVE T!Next
  <2> DEFINE D == {p \in facts : tags # {} /\ tags \subseteq p.tags /\ Believed(p)}
             L == {p.line : p \in D}
  <2>1. facts' = Forget(facts, D, clock) /\ UNCHANGED <<clock, lines>>
    BY <1>2, DeletesForget DEF ForgetTags
  <2>2. /\ L \in SUBSET Lines /\ Keys \in SUBSET Keys
        /\ D \in SUBSET facts /\ \A p \in D : Believed(p)
    BY <1>0
  <2>3. \A v, w \in facts : v.line = w.line => v.tags = w.tags
    BY DEF IInv, TableShape, SameFact
  <2>4. \A p \in facts : Believed(p) => (p \in D <=> p.key \in Keys /\ p.line \in L)
    BY <2>3 DEF IInv, TypeOK, VersionType
  <2> HIDE DEF D, L
  <2> QED
    BY <2>1, <2>2, <2>4, ForgetRefines
<1>3. CASE UNCHANGED vars
  BY <1>3 DEF vars, T!vars, BeliefMap, PastMap
<1> QED
  BY <1>1, <1>2, <1>3, PutFactRefines, PurgeRefines, TickRefines DEF Next

\* The storage layer implements the timeline: what its rows answer, now and as
\* of every second that is over, moves only as the abstract store allows.
THEOREM Implements == Spec => Refinement
  BY InitRefines, Invariance, NextRefines, PTL DEF Spec, Refinement, T!Spec
=============================================================================
