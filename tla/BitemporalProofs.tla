-------------------------- MODULE BitemporalProofs --------------------------
(***************************************************************************)
(* What the statements of the index do to the answers, for every set of    *)
(* rows, every call and every resolution of the clock; for the table with  *)
(* its ids and vectors too.                                                *)
(***************************************************************************)
EXTENDS Table, FiniteSetTheorems, SequenceTheorems, WellFoundedInduction, TLAPS

-----------------------------------------------------------------------------
(* Truncation to the second.                                                *)

LEMMA Division ==
    ASSUME NEW t \in Nat
    PROVE  /\ t \div Resolution \in Nat
           /\ (t \div Resolution) * Resolution <= t
           /\ t < (t \div Resolution) * Resolution + Resolution
  BY ResolutionAssumption

LEMMA TimesMonotone ==
    ASSUME NEW a \in Nat, NEW b \in Nat, a <= b
    PROVE  a * Resolution <= b * Resolution
  BY ResolutionAssumption

\* A quotient is the only number of whole seconds below t within a second of t.
LEMMA QuotientMonotone ==
    ASSUME NEW a \in Nat, NEW b \in Nat, NEW x \in Nat, NEW y \in Nat,
           x * Resolution <= a, a <= b, b < y * Resolution + Resolution
    PROVE  x <= y
<1>1. SUFFICES ASSUME y + 1 <= x PROVE FALSE
  OBVIOUS
<1>2. (y + 1) * Resolution <= x * Resolution
  BY <1>1, TimesMonotone
<1>3. (y + 1) * Resolution = y * Resolution + Resolution
  BY ResolutionAssumption
<1> QED
  BY <1>2, <1>3, ResolutionAssumption

LEMMA SecType == \A t \in Nat : Sec(t) \in Nat /\ Sec(t) <= t
  BY Division, ResolutionAssumption DEF Sec

LEMMA SecMonotone == \A a, b \in Nat : a <= b => Sec(a) <= Sec(b)
<1>1. SUFFICES ASSUME NEW a \in Nat, NEW b \in Nat, a <= b
               PROVE  Sec(a) <= Sec(b)
  OBVIOUS
<1> DEFINE x == a \div Resolution
           y == b \div Resolution
<1>2. x \in Nat /\ y \in Nat /\ x * Resolution <= a /\ b < y * Resolution + Resolution
  BY Division
<1>3. x <= y
  <2> HIDE DEF x, y
  <2> QED BY <1>1, <1>2, QuotientMonotone
<1>4. x * Resolution <= y * Resolution
  <2> HIDE DEF x, y
  <2> QED BY <1>2, <1>3, TimesMonotone
<1> QED
  BY <1>4 DEF Sec

LEMMA SecIdempotent == \A t \in Nat : Sec(Sec(t)) = Sec(t)
<1>1. SUFFICES ASSUME NEW t \in Nat PROVE Sec(Sec(t)) = Sec(t)
  OBVIOUS
<1> DEFINE x == t \div Resolution
           s == x * Resolution
           y == s \div Resolution
<1>2. x \in Nat /\ s \in Nat
  BY Division, ResolutionAssumption
<1>3. y \in Nat /\ y * Resolution <= s /\ s < y * Resolution + Resolution
  BY <1>2, Division
<1>4. y = x
  <2>1. y <= x
    <3> HIDE DEF x, y
    <3>1. s < x * Resolution + Resolution
      BY <1>2, ResolutionAssumption DEF s
    <3> HIDE DEF s
    <3> QED BY <1>2, <1>3, <3>1, QuotientMonotone
  <2>2. x <= y
    <3> HIDE DEF x, y
    <3>1. x * Resolution <= s
      BY <1>2, ResolutionAssumption DEF s
    <3> HIDE DEF s
    <3> QED BY <1>2, <1>3, <3>1, QuotientMonotone
  <2> QED BY <2>1, <2>2, <1>2, <1>3
<1> QED
  BY <1>4 DEF Sec

\* A moment stored as a whole second compares the same with a tick and with
\* the tick's second.
LEMMA SecBelow ==
    \A s, t \in Nat : Sec(s) = s => (s <= t <=> s <= Sec(t))
  BY SecMonotone, SecType

LEMMA SecZero == Sec(Zero) = Zero
  BY SecType DEF Zero

LEMMA SecResolution == Sec(Resolution) = Resolution
<1>1. Resolution \div Resolution = 1
  BY ResolutionAssumption
<1> QED
  BY <1>1, ResolutionAssumption DEF Sec

\* From the first second on, truncation never makes a time null.
LEMMA SecPositive ==
    \A t \in Nat : t >= Resolution => Sec(t) # Zero
  BY SecMonotone, SecResolution, SecType, ResolutionAssumption DEF Zero

-----------------------------------------------------------------------------
(* Calls that can occur, and the moments they are about.                    *)

\* A call: stamped after the first second, bounds null or after it.
Call(Keys, Tags) ==
    {f \in FactType(Keys, Tags) :
        /\ f.updated >= Resolution
        /\ f.vf = Zero \/ f.vf >= Resolution
        /\ f.vt = Zero \/ f.vt >= Resolution}

\* A moment a reader may ask about: a whole second.
Moment == {m \in Nat : m >= Resolution /\ Sec(m) = m}

\* The moments f is about.
Inside(f, m) ==
    /\ Sec(ValidFrom(f)) <= m
    /\ f.vt = Zero \/ m < Sec(f.vt)

LEMMA CallFrom ==
    ASSUME NEW Keys, NEW Tags, NEW f \in Call(Keys, Tags)
    PROVE  /\ ValidFrom(f) \in Nat
           /\ ValidFrom(f) >= Resolution
           /\ Sec(ValidFrom(f)) \in Nat \ {Zero}
           /\ Sec(ValidFrom(f)) <= ValidFrom(f)
           /\ f.vt \in Nat /\ Sec(f.vt) \in Nat /\ Sec(f.vt) <= f.vt
           /\ f.vt # Zero => Sec(f.vt) # Zero
           /\ f.updated \in Nat /\ Sec(f.updated) \in Nat \ {Zero}
           /\ Sec(f.updated) <= f.updated
<1>1. /\ f.updated \in Nat /\ f.vf \in Nat /\ f.vt \in Nat
      /\ f.updated >= Resolution
      /\ f.vf = Zero \/ f.vf >= Resolution
      /\ f.vt = Zero \/ f.vt >= Resolution
  BY DEF Call, FactType, Ticks
<1>2. ValidFrom(f) \in Nat /\ ValidFrom(f) >= Resolution
  BY <1>1 DEF ValidFrom
<1> QED
  BY <1>1, <1>2, SecType, SecPositive

LEMMA NewFields ==
    ASSUME NEW Keys, NEW Tags, NEW f \in Call(Keys, Tags)
    PROVE  LET c == NewVersion(f)
           IN  /\ c \in VersionType(Keys, Tags)
               /\ c.key = f.key /\ c.line = f.line /\ c.tags = f.tags
               /\ c.ttl = f.ttl /\ c.updated = Sec(f.updated)
               /\ c.vf = Sec(ValidFrom(f)) /\ c.vt = Sec(f.vt)
               /\ c.tf = Sec(f.updated) /\ c.tt = Zero /\ c.deleted = Zero
<1>1. f \in FactType(Keys, Tags)
  BY DEF Call
<1>2. Zero \in Nat
  BY DEF Zero
<1> QED
  BY <1>1, <1>2, CallFrom DEF NewVersion, VersionType, FactType, Ticks

-----------------------------------------------------------------------------
(* The pieces of a version that a newer one cuts.                           *)

\* The piece before the new validity says what the version said there, and
\* nothing more.
LEMMA BeforePiece ==
    ASSUME NEW Keys, NEW Tags, NEW p \in VersionType(Keys, Tags), WellFormed(p),
           NEW f \in Call(Keys, Tags),
           Overlaps(p.vf, p.vt, ValidFrom(f), f.vt),
           NEW m \in Moment
    PROVE  Covers(Copy(p, p.vf, ValidFrom(f), f.updated), m)
             <=> Covers(p, m) /\ m < Sec(ValidFrom(f))
<1> DEFINE from == ValidFrom(f)
           c == Copy(p, p.vf, from, f.updated)
<1>1. /\ from \in Nat /\ Sec(from) \in Nat \ {Zero} /\ Sec(from) <= from
      /\ from # Zero /\ f.updated \in Nat
  BY CallFrom, ResolutionAssumption DEF Zero
<1>2. p.vf \in Nat /\ p.vt \in Nat /\ Sec(p.vf) = p.vf /\ m \in Nat
  BY DEF VersionType, Ticks, WellFormed, Moment
<1>3. c.vf = p.vf /\ c.vt = Sec(from)
  BY <1>2 DEF Copy, VersionType
<1>4. p.vt = Zero \/ from < p.vt
  BY <1>1 DEF Overlaps
<1> HIDE DEF from, c
<1> QED
  BY <1>1, <1>2, <1>3, <1>4 DEF Covers, c, from

\* The piece after it, likewise.
LEMMA AfterPiece ==
    ASSUME NEW Keys, NEW Tags, NEW p \in VersionType(Keys, Tags), WellFormed(p),
           NEW f \in Call(Keys, Tags), f.vt # Zero,
           Overlaps(p.vf, p.vt, ValidFrom(f), f.vt),
           NEW m \in Moment
    PROVE  Covers(Copy(p, f.vt, p.vt, f.updated), m)
             <=> Covers(p, m) /\ Sec(f.vt) <= m
<1> DEFINE c == Copy(p, f.vt, p.vt, f.updated)
<1>1. /\ f.vt \in Nat /\ Sec(f.vt) \in Nat \ {Zero} /\ f.updated \in Nat
  BY CallFrom
<1>2. /\ p.vf \in Nat /\ p.vt \in Nat /\ m \in Nat
      /\ Sec(p.vf) = p.vf /\ Sec(p.vt) = p.vt
  BY DEF VersionType, Ticks, WellFormed, Moment
<1>3. c.vf = Sec(f.vt) /\ c.vt = p.vt
  BY <1>2 DEF Copy, VersionType
<1>4. p.vf = Zero \/ p.vf <= Sec(f.vt)
  <2>1. p.vf = Zero \/ p.vf < f.vt
    BY DEF Overlaps
  <2> QED
    BY <2>1, <1>1, <1>2, SecBelow
<1> HIDE DEF c
<1> QED
  BY <1>1, <1>2, <1>3, <1>4 DEF Covers, c

\* A version that is not cut says nothing about the new validity.
LEMMA Apart ==
    ASSUME NEW Keys, NEW Tags, NEW p \in VersionType(Keys, Tags), WellFormed(p),
           NEW f \in Call(Keys, Tags),
           ~Overlaps(p.vf, p.vt, ValidFrom(f), f.vt),
           NEW m \in Moment, Covers(p, m)
    PROVE  ~Inside(f, m)
<1> DEFINE from == ValidFrom(f)
<1>1. /\ from \in Nat /\ Sec(from) \in Nat /\ from # Zero
      /\ f.vt \in Nat /\ Sec(f.vt) \in Nat /\ Sec(f.vt) <= f.vt
  BY CallFrom, ResolutionAssumption DEF Zero
<1>2. /\ p.vf \in Nat /\ p.vt \in Nat /\ m \in Nat
      /\ Sec(p.vf) = p.vf /\ Sec(p.vt) = p.vt
  BY DEF VersionType, Ticks, WellFormed, Moment
<1>3. \/ p.vt # Zero /\ p.vt <= from
      \/ f.vt # Zero /\ p.vf # Zero /\ f.vt <= p.vf
  <2> HIDE DEF from
  <2> QED BY <1>1, <1>2 DEF Overlaps, from
<1>4. CASE p.vt # Zero /\ p.vt <= from
  <2>1. p.vt <= Sec(from)
    BY <1>1, <1>2, <1>4, SecBelow
  <2>2. m < p.vt
    BY <1>4, <1>2 DEF Covers
  <2> HIDE DEF from
  <2> QED
    BY <2>1, <2>2, <1>1, <1>2 DEF Inside, from
<1>5. CASE f.vt # Zero /\ p.vf # Zero /\ f.vt <= p.vf
  <2>1. p.vf <= m
    BY <1>5 DEF Covers
  <2> QED
    BY <2>1, <1>1, <1>2, <1>5 DEF Inside
<1> QED
  BY <1>3, <1>4, <1>5

-----------------------------------------------------------------------------
(* The calls.                                                               *)

\* The rows believed after Put.
LEMMA PutRows ==
    ASSUME NEW Keys, NEW Tags, NEW facts \in SUBSET VersionType(Keys, Tags),
           NEW f \in Call(Keys, Tags), NEW w
    PROVE  w \in Put(facts, f) /\ Believed(w)
             <=> \/ w \in facts \ Cut(facts, f) /\ Believed(w)
                 \/ w \in Before(facts, f)
                 \/ w \in After(facts, f)
                 \/ w = NewVersion(f)
<1>1. ASSUME NEW p \in Cut(facts, f) PROVE ~Believed(Close(p, f.updated))
  <2>1. p \in VersionType(Keys, Tags)
    BY DEF Cut
  <2>2. Sec(f.updated) # Zero
    BY CallFrom
  <2> QED
    BY <2>1, <2>2 DEF Close, Believed, VersionType
<1>2. ASSUME NEW c \in Before(facts, f) \cup After(facts, f) PROVE Believed(c)
  <2>1. PICK p \in Cut(facts, f) :
          \/ c = Copy(p, p.vf, ValidFrom(f), f.updated)
          \/ c = Copy(p, f.vt, p.vt, f.updated)
    BY DEF Before, After
  <2>2. p \in VersionType(Keys, Tags)
    BY DEF Cut
  <2> QED
    BY <2>1, <2>2 DEF Copy, Believed, VersionType
<1>3. Believed(NewVersion(f))
  BY DEF NewVersion, Believed
<1> QED
  BY <1>1, <1>2, <1>3 DEF Put

\* Put says f inside the validity of f, and leaves every other answer.
THEOREM PutBelief ==
    ASSUME NEW Keys, NEW Tags, NEW facts \in SUBSET VersionType(Keys, Tags),
           \A v \in facts : WellFormed(v),
           NEW f \in Call(Keys, Tags), NEW k, NEW m \in Moment
    PROVE  Belief(Put(facts, f), k, m)
             = IF k = f.key /\ Inside(f, m) THEN {f.line} ELSE Belief(facts, k, m)
<1> DEFINE from == ValidFrom(f)
           Told == IF k = f.key /\ Inside(f, m) THEN {f.line} ELSE Belief(facts, k, m)
<1>0. ASSUME NEW p \in Cut(facts, f)
      PROVE  /\ p \in facts /\ p \in VersionType(Keys, Tags) /\ WellFormed(p)
             /\ p.key = f.key /\ Believed(p) /\ Overlaps(p.vf, p.vt, from, f.vt)
  BY DEF Cut
<1>n. Covers(NewVersion(f), m) <=> Inside(f, m)
  <2>1. m \in Nat
    BY DEF Moment
  <2> QED
    BY <2>1, CallFrom, SecZero DEF NewVersion, Covers, Inside
<1>1. ASSUME NEW x \in Belief(Put(facts, f), k, m) PROVE x \in Told
  <2>1. PICK w \in Put(facts, f) : w.key = k /\ Believed(w) /\ Covers(w, m) /\ x = w.line
    BY <1>1 DEF Belief
  <2>2. CASE w \in facts \ Cut(facts, f)
    <3>1. x \in Belief(facts, k, m)
      BY <2>1, <2>2 DEF Belief
    <3>2. k = f.key => ~Overlaps(w.vf, w.vt, ValidFrom(f), f.vt)
      BY <2>1, <2>2 DEF Cut
    <3>3. k = f.key => ~Inside(f, m)
      BY <2>1, <2>2, <3>2, Apart
    <3> QED
      BY <3>1, <3>3
  <2>3. CASE w \in Before(facts, f)
    <3>1. PICK p \in Cut(facts, f) : w = Copy(p, p.vf, from, f.updated)
      BY <2>3 DEF Before
    <3>2. Covers(p, m) /\ m < Sec(from)
      BY <1>0, <2>1, <3>1, BeforePiece
    <3>3. w.key = p.key /\ w.line = p.line
      BY <1>0, <3>1 DEF Copy, VersionType
    <3>4. x \in Belief(facts, k, m)
      BY <1>0, <2>1, <3>2, <3>3 DEF Belief
    <3>5. ~Inside(f, m)
      <4>1. Sec(from) \in Nat /\ m \in Nat
        BY CallFrom DEF Moment
      <4> QED
        BY <3>2, <4>1 DEF Inside
    <3> QED
      BY <3>4, <3>5
  <2>4. CASE w \in After(facts, f)
    <3>1. PICK p \in Cut(facts, f) : f.vt # Zero /\ w = Copy(p, f.vt, p.vt, f.updated)
      BY <2>4 DEF After
    <3>2. Covers(p, m) /\ Sec(f.vt) <= m
      BY <1>0, <2>1, <3>1, AfterPiece
    <3>3. w.key = p.key /\ w.line = p.line
      BY <1>0, <3>1 DEF Copy, VersionType
    <3>4. x \in Belief(facts, k, m)
      BY <1>0, <2>1, <3>2, <3>3 DEF Belief
    <3>5. ~Inside(f, m)
      <4>1. Sec(f.vt) \in Nat /\ m \in Nat
        BY CallFrom DEF Moment
      <4> QED
        BY <3>1, <3>2, <4>1 DEF Inside
    <3> QED
      BY <3>4, <3>5
  <2>5. CASE w = NewVersion(f)
    BY <1>n, <2>1, <2>5 DEF NewVersion
  <2> QED
    BY <2>1, <2>2, <2>3, <2>4, <2>5, PutRows
<1>2. ASSUME NEW x \in Told PROVE x \in Belief(Put(facts, f), k, m)
  <2>1. CASE k = f.key /\ Inside(f, m)
    <3>1. NewVersion(f) \in Put(facts, f) /\ Believed(NewVersion(f))
      BY PutRows
    <3>2. NewVersion(f).key = k /\ NewVersion(f).line = x
      BY <1>2, <2>1 DEF NewVersion
    <3> QED
      BY <1>n, <2>1, <3>1, <3>2 DEF Belief
  <2>2. CASE ~(k = f.key /\ Inside(f, m))
    <3>1. PICK p \in facts : p.key = k /\ Believed(p) /\ Covers(p, m) /\ x = p.line
      BY <1>2, <2>2 DEF Belief
    <3>2. CASE p \notin Cut(facts, f)
      BY <3>1, <3>2, PutRows DEF Belief
    <3>3. CASE p \in Cut(facts, f)
      <4>1. ~Inside(f, m)
        BY <1>0, <2>2, <3>1, <3>3
      <4>2. /\ p.vf \in Nat /\ p.vt \in Nat /\ m \in Nat
            /\ Sec(p.vf) = p.vf /\ Sec(p.vt) = p.vt
            /\ p.vf = Zero \/ p.vf <= m
            /\ p.vt = Zero \/ p.vt > m
        BY <1>0, <3>1, <3>3 DEF VersionType, Ticks, WellFormed, Moment, Covers
      <4>3. /\ from \in Nat /\ Sec(from) \in Nat /\ Sec(from) <= from
            /\ f.vt \in Nat /\ Sec(f.vt) \in Nat
        BY CallFrom
      <4>4. CASE m < Sec(from)
        <5> DEFINE c == Copy(p, p.vf, from, f.updated)
        <5>1. p.vf = Zero \/ p.vf < from
          <6> HIDE DEF from
          <6> QED BY <4>2, <4>3, <4>4
        <5>2. c \in Before(facts, f)
          BY <3>3, <5>1 DEF Before
        <5>3. Covers(c, m)
          BY <1>0, <3>1, <3>3, <4>4, BeforePiece
        <5>4. c.key = k /\ c.line = x
          BY <1>0, <3>1, <3>3 DEF Copy, VersionType
        <5> HIDE DEF c
        <5> QED
          BY <5>2, <5>3, <5>4, PutRows DEF Belief
      <4>5. CASE f.vt # Zero /\ Sec(f.vt) <= m
        <5> DEFINE c == Copy(p, f.vt, p.vt, f.updated)
        <5>1. p.vt = Zero \/ p.vt > f.vt
          <6>1. p.vt <= f.vt => p.vt <= Sec(f.vt)
            BY <4>2, <4>3, SecBelow
          <6> QED BY <4>2, <4>3, <4>5, <6>1
        <5>2. c \in After(facts, f)
          BY <3>3, <4>5, <5>1 DEF After
        <5>3. Covers(c, m)
          BY <1>0, <3>1, <3>3, <4>5, AfterPiece
        <5>4. c.key = k /\ c.line = x
          BY <1>0, <3>1, <3>3 DEF Copy, VersionType
        <5> HIDE DEF c
        <5> QED
          BY <5>2, <5>3, <5>4, PutRows DEF Belief
      <4>6. m < Sec(from) \/ (f.vt # Zero /\ Sec(f.vt) <= m)
        BY <4>1, <4>2, <4>3 DEF Inside
      <4> QED
        BY <4>4, <4>5, <4>6
    <3> QED
      BY <3>2, <3>3
  <2> QED
    BY <2>1, <2>2
<1> QED
  BY <1>1, <1>2

\* The rows of Put are rows, each cut from a row there was or from f.
LEMMA PutKeepsRows ==
    ASSUME NEW Keys, NEW Tags, NEW facts \in SUBSET VersionType(Keys, Tags),
           \A v \in facts : WellFormed(v),
           NEW f \in Call(Keys, Tags),
           \A v \in facts : Stamped(v, Sec(f.updated)),
           NEW w \in Put(facts, f)
    PROVE  /\ w \in VersionType(Keys, Tags)
           /\ WellFormed(w)
           /\ Stamped(w, Sec(f.updated))
           /\ w = NewVersion(f) \/ \E p \in facts : SameFact(w, p)
<1>0. /\ ValidFrom(f) \in Nat /\ f.vt \in Nat /\ f.updated \in Nat
      /\ Sec(f.updated) \in Nat \ {Zero}
  BY CallFrom
<1>1. CASE w \in facts
  BY <1>1 DEF SameFact
<1>2. CASE \E p \in Cut(facts, f) : w = Close(p, f.updated)
  <2>1. PICK p \in facts : w = Close(p, f.updated) /\ Believed(p)
    BY <1>2 DEF Cut
  <2>2. /\ w \in VersionType(Keys, Tags) /\ SameFact(w, p)
        /\ w.vf = p.vf /\ w.vt = p.vt /\ w.tf = p.tf
        /\ w.tt = Sec(f.updated) /\ w.deleted = p.deleted
    <3>1. p \in VersionType(Keys, Tags)
      OBVIOUS
    <3> QED
      BY <1>0, <2>1, <3>1 DEF Close, VersionType, Ticks, SameFact
  <2>3. WellFormed(w) /\ Stamped(w, Sec(f.updated))
    BY <1>0, <2>1, <2>2 DEF WellFormed, Stamped
  <2> QED
    BY <2>1, <2>2, <2>3
<1>3. ASSUME NEW p \in facts, NEW vf \in Nat, NEW vt \in Nat,
             w = Copy(p, vf, vt, f.updated)
      PROVE  /\ w \in VersionType(Keys, Tags) /\ SameFact(w, p)
             /\ WellFormed(w) /\ Stamped(w, Sec(f.updated))
  <2>1. /\ w \in VersionType(Keys, Tags) /\ SameFact(w, p)
        /\ w.vf = Sec(vf) /\ w.vt = Sec(vt) /\ w.tf = Sec(f.updated)
        /\ w.tt = Zero /\ w.deleted = Zero
    <3>1. p \in VersionType(Keys, Tags) /\ Sec(vf) \in Nat /\ Sec(vt) \in Nat
      BY SecType
    <3> QED
      BY <1>0, <1>3, <3>1 DEF Copy, VersionType, Ticks, SameFact, Zero
  <2> QED
    BY <1>0, <2>1, SecIdempotent DEF WellFormed, Stamped, Zero
<1>4. CASE w \in Before(facts, f) \cup After(facts, f)
  <2>1. PICK p \in facts : \/ w = Copy(p, p.vf, ValidFrom(f), f.updated)
                          \/ w = Copy(p, f.vt, p.vt, f.updated)
    BY <1>4 DEF Before, After, Cut
  <2>2. p.vf \in Nat /\ p.vt \in Nat
    BY DEF VersionType, Ticks
  <2> QED
    BY <1>0, <1>3, <2>1, <2>2
<1>5. CASE w = NewVersion(f)
  <2>1. /\ w \in VersionType(Keys, Tags)
        /\ w.vf = Sec(ValidFrom(f)) /\ w.vt = Sec(f.vt) /\ w.tf = Sec(f.updated)
        /\ w.tt = Zero /\ w.deleted = Zero
    BY <1>5, NewFields
  <2> QED
    BY <1>0, <1>5, <2>1, SecIdempotent DEF WellFormed, Stamped, Zero
<1> QED
  BY <1>1, <1>2, <1>4, <1>5 DEF Put

\* Put does not change what was believed before its second.
THEOREM PutPast ==
    ASSUME NEW Keys, NEW Tags, NEW facts \in SUBSET VersionType(Keys, Tags),
           NEW f \in Call(Keys, Tags),
           NEW k, NEW m, NEW t \in Nat, t < Sec(f.updated)
    PROVE  BeliefAt(Put(facts, f), k, t, m) = BeliefAt(facts, k, t, m)
<1>0. Sec(f.updated) \in Nat \ {Zero} /\ f.updated \in Nat
  BY CallFrom
<1>1. ASSUME NEW p \in Cut(facts, f)
      PROVE  LET c == Close(p, f.updated)
             IN  /\ c.key = p.key /\ c.line = p.line
                 /\ Covers(c, m) <=> Covers(p, m)
                 /\ BelievedAt(c, t) <=> BelievedAt(p, t)
  <2>1. p \in VersionType(Keys, Tags) /\ p.tt = Zero
    BY DEF Cut, Believed
  <2> QED
    BY <1>0, <2>1 DEF Close, VersionType, Covers, BelievedAt
<1>2. ASSUME NEW w \in Before(facts, f) \cup After(facts, f) \cup {NewVersion(f)}
      PROVE  ~BelievedAt(w, t)
  <2>1. w.tf = Sec(f.updated)
    <3>1. CASE w = NewVersion(f)
      BY <3>1 DEF NewVersion
    <3>2. CASE w \in Before(facts, f) \cup After(facts, f)
      <4>1. PICK p \in facts : \/ w = Copy(p, p.vf, ValidFrom(f), f.updated)
                              \/ w = Copy(p, f.vt, p.vt, f.updated)
        BY <3>2 DEF Before, After, Cut
      <4> QED
        BY <4>1 DEF Copy, VersionType
    <3> QED
      BY <1>2, <3>1, <3>2
  <2> QED
    BY <1>0, <2>1 DEF BelievedAt
<1>3. ASSUME NEW x \in BeliefAt(Put(facts, f), k, t, m)
      PROVE  x \in BeliefAt(facts, k, t, m)
  <2>1. PICK w \in Put(facts, f) :
          w.key = k /\ BelievedAt(w, t) /\ Covers(w, m) /\ x = w.line
    BY <1>3 DEF BeliefAt
  <2>2. CASE w \in facts
    BY <2>1, <2>2 DEF BeliefAt
  <2>3. CASE \E p \in Cut(facts, f) : w = Close(p, f.updated)
    <3>1. PICK p \in Cut(facts, f) : w = Close(p, f.updated)
      BY <2>3
    <3>2. p \in facts
      BY DEF Cut
    <3> QED
      BY <1>1, <2>1, <3>1, <3>2 DEF BeliefAt
  <2> QED
    BY <1>2, <2>1, <2>2, <2>3 DEF Put
<1>4. ASSUME NEW x \in BeliefAt(facts, k, t, m)
      PROVE  x \in BeliefAt(Put(facts, f), k, t, m)
  <2>1. PICK p \in facts : p.key = k /\ BelievedAt(p, t) /\ Covers(p, m) /\ x = p.line
    BY <1>4 DEF BeliefAt
  <2>2. CASE p \in Cut(facts, f)
    <3>1. Close(p, f.updated) \in Put(facts, f)
      BY <2>2 DEF Put
    <3> QED
      BY <1>1, <2>1, <2>2, <3>1 DEF BeliefAt
  <2>3. CASE p \notin Cut(facts, f)
    <3>1. p \in Put(facts, f)
      BY <2>3 DEF Put
    <3> QED
      BY <2>1, <3>1 DEF BeliefAt
  <2> QED
    BY <2>2, <2>3
<1> QED
  BY <1>3, <1>4

\* As of the latest transaction time and after, as_of reads what is believed.
LEMMA AsOfNow ==
    ASSUME NEW Keys, NEW Tags, NEW facts \in SUBSET VersionType(Keys, Tags),
           \A v \in facts : WellFormed(v),
           NEW t \in Nat, \A v \in facts : Stamped(v, t),
           NEW k, NEW m
    PROVE  BeliefAt(facts, k, t, m) = Belief(facts, k, m)
<1>1. ASSUME NEW v \in facts PROVE BelievedAt(v, t) <=> Believed(v)
  BY DEF VersionType, Ticks, WellFormed, Stamped, BelievedAt, Believed, Zero
<1> QED
  BY <1>1 DEF Belief, BeliefAt

\* Forgetting takes the rows forgotten out of the answers of now ...
LEMMA ForgetBelief ==
    ASSUME NEW Keys, NEW Tags, NEW facts \in SUBSET VersionType(Keys, Tags),
           NEW D \in SUBSET facts, NEW at \in Nat, at >= Resolution,
           NEW k, NEW m
    PROVE  Belief(Forget(facts, D, at), k, m) = Belief(facts \ D, k, m)
<1>1. ASSUME NEW p \in D
      PROVE  ~Believed([p EXCEPT !.deleted = Sec(at), !.tt = Sec(at)])
  <2>1. p \in VersionType(Keys, Tags) /\ Sec(at) # Zero
    BY SecPositive
  <2> QED
    BY <2>1 DEF Believed, VersionType
<1> QED
  BY <1>1 DEF Forget, Belief

\* ... and leaves those of before.
LEMMA ForgetPast ==
    ASSUME NEW Keys, NEW Tags, NEW facts \in SUBSET VersionType(Keys, Tags),
           NEW D \in SUBSET facts, \A p \in D : Believed(p),
           NEW at \in Nat, at >= Resolution,
           NEW k, NEW m, NEW t \in Nat, t < Sec(at)
    PROVE  BeliefAt(Forget(facts, D, at), k, t, m) = BeliefAt(facts, k, t, m)
<1> DEFINE c(p) == [p EXCEPT !.deleted = Sec(at), !.tt = Sec(at)]
<1>1. ASSUME NEW p \in D
      PROVE  /\ c(p).key = p.key /\ c(p).line = p.line
             /\ Covers(c(p), m) <=> Covers(p, m)
             /\ BelievedAt(c(p), t) <=> BelievedAt(p, t)
  <2>1. /\ p \in VersionType(Keys, Tags) /\ p.tt = Zero
        /\ Sec(at) \in Nat /\ Sec(at) # Zero
    BY SecPositive, SecType DEF Believed
  <2> QED
    BY <2>1 DEF VersionType, Covers, BelievedAt
<1>2. Forget(facts, D, at) = (facts \ D) \cup {c(p) : p \in D}
  BY DEF Forget
<1> HIDE DEF c
<1> QED
  BY <1>1, <1>2 DEF BeliefAt

\* The rows of Forget are rows, each the one it was or forgotten.
LEMMA ForgetKeepsRows ==
    ASSUME NEW Keys, NEW Tags, NEW facts \in SUBSET VersionType(Keys, Tags),
           \A v \in facts : WellFormed(v),
           NEW D \in SUBSET facts, NEW at \in Nat, at >= Resolution,
           \A v \in facts : Stamped(v, Sec(at)),
           NEW w \in Forget(facts, D, at)
    PROVE  /\ w \in VersionType(Keys, Tags)
           /\ WellFormed(w)
           /\ Stamped(w, Sec(at))
           /\ \E p \in facts : SameFact(w, p)
<1>1. CASE w \in facts
  BY <1>1 DEF SameFact
<1>2. CASE w \notin facts
  <2>1. PICK p \in D : w = [p EXCEPT !.deleted = Sec(at), !.tt = Sec(at)]
    BY <1>2 DEF Forget
  <2>2. Sec(at) \in Nat /\ Sec(at) # Zero
    BY SecType, SecPositive
  <2>3. p \in VersionType(Keys, Tags) /\ WellFormed(p) /\ Stamped(p, Sec(at))
    OBVIOUS
  <2>4. /\ w \in VersionType(Keys, Tags) /\ SameFact(w, p)
        /\ w.vf = p.vf /\ w.vt = p.vt /\ w.tf = p.tf /\ w.tt = Sec(at)
    BY <2>1, <2>2, <2>3 DEF VersionType, Ticks, SameFact
  <2> QED
    BY <2>2, <2>3, <2>4 DEF WellFormed, Stamped
<1> QED
  BY <1>1, <1>2

\* At most one content of a key is believed about a moment.
OneIn(S) == \A k, m : m \in Moment => \A x, y \in Belief(S, k, m) : x = y

\* A finite set has a finite image.
LEMMA FiniteImage ==
    ASSUME NEW S, IsFiniteSet(S), NEW g, DOMAIN g = S
    PROVE  IsFiniteSet({g[x] : x \in S})
<1> DEFINE T == {g[x] : x \in S}
           h == [x \in S |-> g[x]]
<1>1. h \in Surjection(S, T)
  BY DEF Surjection
<1> QED
  BY <1>1, FS_Surjection

-----------------------------------------------------------------------------
(* Numbers, sequences, and the table with its ids.                          *)

\* A set of numbers has a least element.
LEMMA Least ==
    ASSUME NEW S \in SUBSET Nat, S # {}
    PROVE  \E i \in S : \A j \in S : i <= j
<1>1. PICK i \in S : \A j \in S : ~ (<<j, i>> \in OpToRel(<, Nat))
  BY WFMin, NatLessThanWellFounded
<1>2. \A j \in S : ~ (j < i)
  BY <1>1 DEF OpToRel
<1> QED
  BY <1>2

\* A finite set put in some order.
LEMMA SeqOfSet ==
    ASSUME NEW S, IsFiniteSet(S)
    PROVE  SetToSeq(S) \in Seq(S)
<1>1. Cardinality(S) \in Nat
  BY FS_CardinalityType
<1>2. PICK f \in Bijection(1..Cardinality(S), S) : TRUE
  BY FS_CardinalityType DEF ExistsBijection
<1>3. f \in [1..Cardinality(S) -> S] /\ IsInjective(f)
  BY <1>2 DEF Bijection, Injection
<1>4. SetToSeq(S) \in [1..Cardinality(S) -> S]
  BY <1>3 DEF SetToSeq
<1> QED
  BY <1>1, <1>4

\* Where the elements of a concatenation are.
LEMMA Concatenated ==
    ASSUME NEW S, NEW s \in Seq(S), NEW t \in Seq(S)
    PROVE  /\ Len(s \o t) = Len(s) + Len(t) /\ Len(s) \in Nat /\ Len(t) \in Nat
           /\ \A i \in 1..Len(s) : (s \o t)[i] = s[i]
           /\ \A i \in 1..Len(t) : (s \o t)[Len(s) + i] = t[i]
           /\ s \o t \in Seq(S)
  OBVIOUS

\* One sequence, another and a last element.
LEMMA Joined ==
    ASSUME NEW S, NEW a \in Seq(S), NEW b \in Seq(S), NEW x \in S
    PROVE  LET R == a \o b \o << x >>
           IN  /\ R \in Seq(S) /\ Len(R) = Len(a) + Len(b) + 1 /\ Len(b) \in Nat
               /\ \A i \in 1..Len(a) : R[i] = a[i]
               /\ R[Len(R)] = x
<1> DEFINE ab == a \o b
<1>1. /\ ab \in Seq(S) /\ Len(ab) = Len(a) + Len(b)
      /\ Len(a) \in Nat /\ Len(b) \in Nat
      /\ \A i \in 1..Len(a) : ab[i] = a[i]
  BY ConcatProperties
<1> HIDE DEF ab
<1>2. /\ Append(ab, x) \in Seq(S) /\ Len(Append(ab, x)) = Len(ab) + 1
      /\ \A i \in 1..Len(ab) : Append(ab, x)[i] = ab[i]
      /\ Append(ab, x)[Len(ab) + 1] = x
  BY <1>1, AppendProperties
<1>3. ab \o << x >> = Append(ab, x)
  BY <1>1, AppendIsConcat
<1> QED
  BY <1>1, <1>2, <1>3 DEF ab

\* The pieces left of the rows that are cut.
LEMMA PiecesFinite ==
    ASSUME NEW rows, IsFiniteSet(rows), NEW f
    PROVE  IsFiniteSet(Before(rows, f) \cup After(rows, f))
<1> DEFINE B == {q \in Cut(rows, f) : q.vf = Zero \/ q.vf < ValidFrom(f)}
           before == [p \in B |-> Copy(p, p.vf, ValidFrom(f), f.updated)]
           A == {q \in Cut(rows, f) : f.vt # Zero /\ (q.vt = Zero \/ q.vt > f.vt)}
           after == [p \in A |-> Copy(p, f.vt, p.vt, f.updated)]
<1>1. B \in SUBSET rows /\ A \in SUBSET rows
  BY DEF Cut
<1>2. /\ DOMAIN before = B /\ DOMAIN after = A
      /\ {before[p] : p \in B} = Before(rows, f)
      /\ {after[p] : p \in A} = After(rows, f)
  BY DEF Before, After
<1> HIDE DEF before, after, A, B
<1>3. IsFiniteSet(B) /\ IsFiniteSet(A)
  BY <1>1, FS_Subset
<1>4. IsFiniteSet({before[p] : p \in B}) /\ IsFiniteSet({after[p] : p \in A})
  BY <1>2, <1>3, FiniteImage
<1> QED
  BY <1>2, <1>4, FS_Union

\* The content (line and text) and the vector of a row.
SameContent(r, q) == r.line = q.line /\ r.text = q.text /\ r.emb = q.emb

\* A row with the content and the vector of a row of t.
ComesOf(r, t) == \E i \in 1..Len(t) : SameContent(r, t[i])

\* Cutting a row or closing it leaves its content and its vector.
Cuttable(S) ==
    \A p \in S, now \in Nat :
        /\ Close(p, now) \in S /\ SameContent(Close(p, now), p)
        /\ \A vf, vt \in Nat : /\ Copy(p, vf, vt, now) \in S
                               /\ SameContent(Copy(p, vf, vt, now), p)

LEMMA CutRows ==
    ASSUME NEW K, NEW T
    PROVE  Cuttable(RowType(K, T))
<1> SUFFICES ASSUME NEW p \in RowType(K, T), NEW now \in Nat, NEW vf \in Nat, NEW vt \in Nat
             PROVE  /\ Copy(p, vf, vt, now) \in RowType(K, T)
                    /\ SameContent(Copy(p, vf, vt, now), p)
                    /\ Close(p, now) \in RowType(K, T)
                    /\ SameContent(Close(p, now), p)
  BY DEF Cuttable
<1>1. Sec(vf) \in Nat /\ Sec(vt) \in Nat /\ Sec(now) \in Nat
  BY SecType
<1> QED
  BY <1>1 DEF Copy, Close, RowType, Ticks, Zero, SameContent

\* Put on the table adds rows at the end, pieces of rows there were and its own,
\* last; the ids there were keep their content and their vector.
LEMMA PutRowRows ==
    ASSUME NEW K, NEW T, NEW t, t \in Seq(RowType(K, T)), NEW f \in FactType(K, T),
           NEW content \in Nat
    PROVE  LET R == PutRow(t, f, content)
           IN  /\ R \in Seq(RowType(K, T)) /\ Len(R) > Len(t)
               /\ \A i \in 1..Len(t) : SameContent(R[i], t[i])
               /\ R[Len(R)].line = f.line /\ R[Len(R)].text = content
               /\ R[Len(R)].emb = NoVector
               /\ \A i \in 1..Len(R) : i = Len(R) \/ ComesOf(R[i], t)
<1> DEFINE S == RowType(K, T)
           rows == ToSet(t)
           Of == {r \in S : ComesOf(r, t)}
           pieces == Before(rows, f) \cup After(rows, f)
           a == [i \in DOMAIN t |->
                    IF t[i] \in Cut(rows, f) THEN Close(t[i], f.updated) ELSE t[i]]
           b == SetToSeq(pieces)
           R == PutRow(t, f, content)
<1>1. /\ f.updated \in Nat /\ f.vf \in Nat /\ f.vt \in Nat /\ f.line \in Nat
      /\ f.key \in K /\ f.tags \in SUBSET T /\ f.ttl \in Int
      /\ ValidFrom(f) \in Nat
  BY DEF FactType, Ticks, ValidFrom
<1>0. f.updated \in Nat
  BY <1>1
<1>8. /\ Cuttable(S) /\ \A p \in S : p.vf \in Nat /\ p.vt \in Nat
      /\ NewRow(f, content) \in S /\ NewRow(f, content).line = f.line
      /\ NewRow(f, content).text = content /\ NewRow(f, content).emb = NoVector
  <2>1. Sec(f.updated) \in Nat /\ Sec(ValidFrom(f)) \in Nat /\ Sec(f.vt) \in Nat
    BY <1>1, SecType
  <2>2. /\ NewRow(f, content) \in RowType(K, T)
        /\ NewRow(f, content).line = f.line
        /\ NewRow(f, content).text = content /\ NewRow(f, content).emb = NoVector
    BY <1>1, <2>1 DEF NewRow, NewVersion, RowType, Ticks, Zero, NoVector
  <2>3. \A p \in RowType(K, T) : p.vf \in Nat /\ p.vt \in Nat
    BY DEF RowType, Ticks
  <2> QED
    BY <2>2, <2>3, CutRows
<1> HIDE DEF S
<1>2. /\ Len(t) \in Nat /\ DOMAIN t = 1..Len(t) /\ \A i \in 1..Len(t) : t[i] \in S
  BY DEF S
<1>3. rows \subseteq Of /\ IsFiniteSet(rows)
  <2>1. IsFiniteSet(DOMAIN t)
    BY <1>2, FS_Interval
  <2>2. IsFiniteSet(rows)
    BY <1>2, <2>1, FiniteImage DEF ToSet
  <2>3. ASSUME NEW r \in rows PROVE r \in Of
    <3>1. PICK i \in 1..Len(t) : r = t[i]
      BY <1>2 DEF ToSet
    <3> QED
      BY <1>2, <3>1 DEF ComesOf, SameContent
  <2> QED
    BY <2>2, <2>3
<1> DEFINE Piece(w) == \E p \in rows, x \in Nat, y \in Nat : w = Copy(p, x, y, f.updated)
<1>4. pieces \subseteq Of
  <2>1. ASSUME NEW p \in rows PROVE p.vf \in Nat /\ p.vt \in Nat
    BY <1>3, <1>8
  <2>2. Cut(rows, f) \subseteq rows
    BY DEF Cut
  <2> HIDE DEF rows
  <2>3. ASSUME NEW w \in Before(rows, f) PROVE Piece(w)
    <3>1. PICK p \in rows : w = Copy(p, p.vf, ValidFrom(f), f.updated)
      BY <2>2, <2>3 DEF Before
    <3> QED
      BY <1>1, <2>1, <3>1
  <2>4. ASSUME NEW w \in After(rows, f) PROVE Piece(w)
    <3>1. PICK p \in rows : w = Copy(p, f.vt, p.vt, f.updated)
      BY <2>2, <2>4 DEF After
    <3> QED
      BY <1>1, <2>1, <3>1
  <2>5. ASSUME NEW w, Piece(w) PROVE w \in Of
    <3>1. PICK p \in rows, x \in Nat, y \in Nat : w = Copy(p, x, y, f.updated)
      BY <2>5
    <3>2. p \in S /\ ComesOf(p, t)
      BY <1>3
    <3>3. w \in S /\ SameContent(w, p)
      <4>1. \A r \in S, now, vf, vt \in Nat : /\ Copy(r, vf, vt, now) \in S
                                              /\ SameContent(Copy(r, vf, vt, now), r)
        BY <1>8 DEF Cuttable
      <4>2. x \in Nat /\ y \in Nat /\ p \in S
        BY <3>1, <3>2
      <4>3. w = Copy(p, x, y, f.updated)
        BY <3>1
      <4> HIDE DEF Of, Piece
      <4> QED
        BY ONLY <1>0, <4>1, <4>2, <4>3
    <3> QED
      BY <3>2, <3>3 DEF ComesOf, SameContent
  <2> QED
    BY <2>3, <2>4, <2>5
<1>5. IsFiniteSet(pieces)
  BY <1>3, PiecesFinite
<1>6. b \in Seq(Of)
  <2> HIDE DEF pieces, Of
  <2>1. b \in Seq(pieces)
    BY <1>5, SeqOfSet
  <2> QED
    BY <1>4, <2>1
<1>7. /\ a \in Seq(Of) /\ Len(a) = Len(t)
      /\ \A i \in 1..Len(t) : SameContent(a[i], t[i])
  <2>1. ASSUME NEW i \in 1..Len(t)
        PROVE  a[i] \in Of /\ SameContent(a[i], t[i])
    <3>1. a[i] = Close(t[i], f.updated) \/ a[i] = t[i]
      BY <1>2
    <3>2. t[i] \in S
      BY <1>2
    <3> HIDE DEF a
    <3>3. /\ Close(t[i], f.updated) \in S
          /\ SameContent(Close(t[i], f.updated), t[i])
      BY <1>0, <1>8, <3>2 DEF Cuttable
    <3>4. a[i] \in S /\ SameContent(a[i], t[i])
      BY <3>1, <3>2, <3>3, Zenon DEF SameContent
    <3> QED
      BY <3>4 DEF ComesOf
  <2> HIDE DEF Of
  <2>2. a \in [1..Len(t) -> Of]
    BY <1>2, <2>1
  <2> QED
    BY <1>2, <2>1, <2>2
<1>9. R = a \o b \o << NewRow(f, content) >>
  BY DEF PutRow
<1> DEFINE ab == a \o b
<1> HIDE DEF a, b, R, Of
<1>10. Of \subseteq S
  BY DEF Of
<1>11. a \in Seq(S) /\ b \in Seq(S)
  BY <1>6, <1>7, <1>10, SeqMonotonic
<1>12. /\ R \in Seq(S) /\ Len(R) = Len(t) + Len(b) + 1 /\ Len(b) \in Nat
       /\ \A i \in 1..Len(t) : R[i] = a[i]
       /\ R[Len(R)] = NewRow(f, content)
  <2>1. NewRow(f, content) \in S
    BY <1>8
  <2>2. LET J == a \o b \o << NewRow(f, content) >>
        IN  /\ J \in Seq(S) /\ Len(J) = Len(a) + Len(b) + 1 /\ Len(b) \in Nat
            /\ \A i \in 1..Len(a) : J[i] = a[i]
            /\ J[Len(J)] = NewRow(f, content)
    BY ONLY <1>11, <2>1, Joined
  <2> QED
    BY <1>7, <1>9, <2>2
<1>13. ASSUME NEW i \in 1..Len(R), i # Len(R)
       PROVE  ComesOf(R[i], t)
  <2>1. ab \in Seq(Of) /\ Len(ab) = Len(t) + Len(b)
    <3>0. a \in Seq(Of) /\ b \in Seq(Of)
      BY <1>6, <1>7
    <3>1. a \o b \in Seq(Of) /\ Len(a \o b) = Len(a) + Len(b)
      BY ONLY <3>0, Concatenated
    <3>2. Len(a) = Len(t)
      BY <1>7
    <3> QED
      BY ONLY <3>1, <3>2 DEF ab
  <2>2. R = Append(ab, NewRow(f, content))
    BY <1>8, <1>9, <1>11, AppendIsConcat, ConcatProperties
  <2> HIDE DEF ab
  <2>3. i \in 1..Len(ab)
    BY <1>2, <1>12, <1>13, <2>1
  <2>4. R[i] = ab[i]
    BY <2>1, <2>2, <2>3
  <2>5. ab[i] \in Of
    BY <2>1, <2>3
  <2> QED
    BY <2>4, <2>5 DEF Of
<1>14. /\ R \in Seq(S) /\ Len(R) > Len(t)
       /\ \A i \in 1..Len(t) : SameContent(R[i], t[i])
       /\ R[Len(R)].line = f.line /\ R[Len(R)].text = content /\ R[Len(R)].emb = NoVector
  BY <1>2, <1>7, <1>8, <1>12
<1> QED
  BY <1>13, <1>14 DEF R, S

\* Forgetting marks rows where they are.
LEMMA ForgetRowsRows ==
    ASSUME NEW K, NEW T, NEW t, t \in Seq(RowType(K, T)), NEW k, NEW at \in Nat
    PROVE  LET R == ForgetRows(t, k, at)
           IN  /\ R \in Seq(RowType(K, T)) /\ Len(R) = Len(t)
               /\ \A i \in 1..Len(t) : SameContent(R[i], t[i])
<1> DEFINE R == ForgetRows(t, k, at)
           marked(r) == [r EXCEPT !.deleted = Sec(at), !.tt = Sec(at)]
<1>1. /\ Len(t) \in Nat /\ DOMAIN t = 1..Len(t) /\ \A i \in 1..Len(t) : t[i] \in RowType(K, T)
  OBVIOUS
<1>2. ASSUME NEW i \in 1..Len(t)
      PROVE  R[i] \in RowType(K, T) /\ SameContent(R[i], t[i])
  <2>1. R[i] = marked(t[i]) \/ R[i] = t[i]
    BY <1>1 DEF ForgetRows
  <2>2. t[i] \in RowType(K, T) /\ Sec(at) \in Nat
    BY <1>1, SecType
  <2>3. /\ marked(t[i]) \in RowType(K, T)
        /\ SameContent(marked(t[i]), t[i])
    BY <2>2 DEF RowType, Ticks, SameContent
  <2> HIDE DEF R, marked
  <2> QED
    BY <2>1, <2>2, <2>3, Zenon DEF SameContent
<1>3. R \in [1..Len(t) -> RowType(K, T)]
  BY <1>1, <1>2 DEF ForgetRows
<1> HIDE DEF R
<1>4. R \in Seq(RowType(K, T)) /\ Len(R) = Len(t)
  BY <1>1, <1>3
<1> QED
  BY <1>2, <1>4 DEF R
=============================================================================
