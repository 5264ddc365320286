----------------------------- MODULE StoreProofs -----------------------------
(***************************************************************************)
(* What failures and other processes on the directory cannot break,        *)
(* however many there are: the index holds nothing the log does not say,   *)
(* and never two contents of a key about a moment.  With one process, what *)
(* a rescan replays is what the calls did, it takes away no live answer     *)
(* whatever has expired, and the ceiling on live memories holds.            *)
(***************************************************************************)
EXTENDS Store, BitemporalProofs

-----------------------------------------------------------------------------
(* Entries and steps that calls can make.                                   *)

\* The times of an entry, once stamped.
Timed(e) ==
    /\ e.updated >= Resolution
    /\ e.vf = Zero \/ e.vf >= Resolution
    /\ e.vt = Zero \/ e.vt >= Resolution

\* Only a forget by tags names no key.
Named(e) == e.op = "store" => e.key \in Keys

\* A step that applies an entry comes after the entry is in the log: it names
\* the line, or follows the step that appends it.
GoodStep(q, i, l) ==
    LET s == q[i]
    IN  /\ s.do = "stamp" =>
              /\ DOMAIN q = {1} /\ Named(s.e)
              /\ s.e.vf = Zero \/ s.e.vf >= Resolution
              /\ s.e.vt = Zero \/ s.e.vt >= Resolution
        /\ s.do \in {"append", "apply"} => Named(s.e) /\ Timed(s.e)
        /\ s.do = "append" =>
              i + 1 \in DOMAIN q /\ q[i + 1].do = "apply" /\ q[i + 1].e = s.e
        /\ s.do = "apply" =>
              \/ i > 1 /\ q[i - 1].do = "append"
              \/ s.line \in 1..Len(l) /\ l[s.line] = Written(s.e)

GoodCall(q, l) == \A i \in DOMAIN q : GoodStep(q, i, l)

\* The steps there are.
LEMMA StepKinds ==
    ASSUME NEW s \in Steps
    PROVE  /\ s.do \in {"stamp", "append", "apply", "read", "done"}
           /\ s.do \in {"stamp", "append", "apply"} => s.e \in EntryType
           /\ s.do = "apply" => s = [do |-> "apply", e |-> s.e, line |-> s.line] /\ s.line \in Nat
           /\ s.do \in {"stamp", "append"} => s = [do |-> s.do, e |-> s.e]
  BY DEF Steps

\* What the log keeps of an entry is an entry, and all the log keeps of it.
LEMMA WrittenEntry ==
    ASSUME NEW e \in EntryType
    PROVE  /\ Written(e) \in LogType
           /\ Written(e).op = e.op /\ Written(e).key = e.key /\ Written(e).tags = e.tags
           /\ Written(e).updated = Sec(e.updated)
           /\ Written(e).vf = Sec(e.vf) /\ Written(e).vt = Sec(e.vt)
           /\ Named(e) => Named(Written(e))
           /\ Timed(e) => Timed(Written(e))
<1>1. /\ e.updated \in Nat /\ e.vf \in Nat /\ e.vt \in Nat /\ e.ttl \in Int
      /\ e.op \in {"store", "delete", "delete_tags"}
      /\ e.key \in Keys \cup {NoKey} /\ e.tags \in SUBSET Tags
  BY DEF EntryType, Ticks
<1> DEFINE ttl == IF e.ttl > 0 THEN e.ttl ELSE 0
<1>2. Written(e) = [op |-> e.op, key |-> e.key, tags |-> e.tags, ttl |-> ttl,
                    updated |-> Sec(e.updated), vf |-> Sec(e.vf), vt |-> Sec(e.vt)]
  <2>1. e = [op |-> e.op, key |-> e.key, tags |-> e.tags, ttl |-> e.ttl,
             updated |-> e.updated, vf |-> e.vf, vt |-> e.vt]
    BY DEF EntryType
  <2>2. Written(e) = [e EXCEPT !.updated = Sec(e.updated), !.vf = Sec(e.vf), !.vt = Sec(e.vt),
                               !.ttl = ttl]
    BY <2>1 DEF Written
  <2> HIDE DEF ttl
  <2> QED
    BY <2>1, <2>2
<1>3. ttl \in Int /\ ttl >= 0
  BY <1>1
<1>4. /\ Sec(e.updated) \in Nat /\ Sec(e.vf) \in Nat /\ Sec(e.vt) \in Nat
      /\ Sec(Sec(e.updated)) = Sec(e.updated)
      /\ Sec(Sec(e.vf)) = Sec(e.vf) /\ Sec(Sec(e.vt)) = Sec(e.vt)
  BY <1>1, SecType, SecIdempotent
<1>5. \A t \in Nat : t >= Resolution => Sec(t) >= Resolution
  BY SecMonotone, SecResolution, ResolutionAssumption
<1> HIDE DEF ttl
<1>6. Written(e) \in LogType
  BY <1>1, <1>2, <1>3, <1>4 DEF LogType, EntryType, Ticks
<1>7. Named(e) => Named(Written(e))
  BY <1>2 DEF Named
<1>8. Timed(e) => Timed(Written(e))
  BY <1>1, <1>2, <1>5, SecZero DEF Timed
<1> QED
  BY <1>2, <1>6, <1>7, <1>8

\* A log entry read back is written as it is.
LEMMA WrittenTwice ==
    ASSUME NEW e \in LogType
    PROVE  e \in EntryType /\ Written(e) = e
<1>1. /\ e \in EntryType /\ e.ttl \in Int /\ e.ttl >= 0
      /\ Sec(e.updated) = e.updated /\ Sec(e.vf) = e.vf /\ Sec(e.vt) = e.vt
  BY DEF LogType, EntryType
<1>2. (IF e.ttl > 0 THEN e.ttl ELSE 0) = e.ttl
  BY <1>1
<1>3. Written(e) = [e EXCEPT !.updated = e.updated, !.vf = e.vf, !.vt = e.vt, !.ttl = e.ttl]
  BY <1>1, <1>2 DEF Written, EntryType
<1> QED
  BY <1>1, <1>3 DEF EntryType

-----------------------------------------------------------------------------
(* How the steps of a call change.                                          *)

\* A longer log.
LEMMA LogGrows ==
    ASSUME NEW q \in Seq(Steps), NEW l \in Seq(LogType), NEW e \in LogType,
           GoodCall(q, l)
    PROVE  GoodCall(q, Append(l, e))
<1>1. /\ Len(Append(l, e)) = Len(l) + 1 /\ Len(l) \in Nat
      /\ \A i \in 1..Len(l) : Append(l, e)[i] = l[i]
  OBVIOUS
<1> QED
  BY <1>1 DEF GoodCall, GoodStep

\* The first step done, when the next does not wait for it.
LEMMA StepDone ==
    ASSUME NEW q \in Seq(Steps), NEW l, q # <<>>, Head(q).do # "append",
           GoodCall(q, l)
    PROVE  Tail(q) \in Seq(Steps) /\ GoodCall(Tail(q), l)
<1>1. /\ Len(q) \in Nat \ {0} /\ DOMAIN q = 1..Len(q)
      /\ Tail(q) \in Seq(Steps) /\ DOMAIN Tail(q) = 1..(Len(q) - 1)
      /\ \A i \in 1..(Len(q) - 1) : Tail(q)[i] = q[i + 1]
      /\ Head(q) = q[1]
  OBVIOUS
<1>2. ASSUME NEW i \in DOMAIN Tail(q)
      PROVE  GoodStep(Tail(q), i, l)
  <2>1. /\ i \in Nat \ {0} /\ i + 1 \in DOMAIN q /\ Tail(q)[i] = q[i + 1]
        /\ GoodStep(q, i + 1, l)
    BY <1>1, <1>2 DEF GoodCall
  <2>2. Tail(q)[i].do # "stamp"
    BY <1>1, <2>1 DEF GoodStep
  <2>3. (i + 1) + 1 \in DOMAIN q => i + 1 \in DOMAIN Tail(q) /\ Tail(q)[i + 1] = q[(i + 1) + 1]
    BY <1>1, <2>1
  <2>4. i > 1 => Tail(q)[i - 1] = q[i] /\ i = (i + 1) - 1
    BY <1>1, <2>1
  <2>5. i = 1 => q[(i + 1) - 1].do # "append"
    BY <1>1
  <2> QED
    BY <2>1, <2>2, <2>3, <2>4, <2>5 DEF GoodStep
<1> QED
  BY <1>1, <1>2 DEF GoodCall

\* The entry in the log, the index next.
LEMMA AppendDone ==
    ASSUME NEW q \in Seq(Steps), NEW l \in Seq(LogType), q # <<>>, Head(q).do = "append",
           GoodCall(q, l)
    PROVE  LET n == Append(l, Written(Head(q).e))
               t == [i \in 1..(Len(q) - 1) |->
                       IF i = 1 THEN [q[2] EXCEPT !.line = Len(l) + 1] ELSE q[i + 1]]
           IN  /\ Head(q).e \in EntryType
               /\ n \in Seq(LogType) /\ t \in Seq(Steps) /\ GoodCall(t, n)
<1> DEFINE w == Written(Head(q).e)
           n == Append(l, w)
           t == [i \in 1..(Len(q) - 1) |->
                   IF i = 1 THEN [q[2] EXCEPT !.line = Len(l) + 1] ELSE q[i + 1]]
<1>1. /\ Len(q) \in Nat \ {0} /\ DOMAIN q = 1..Len(q) /\ Head(q) = q[1]
      /\ \A i \in 1..Len(q) : q[i] \in Steps
      /\ Len(l) \in Nat
  OBVIOUS
<1>2. Head(q).e \in EntryType
  BY <1>1, StepKinds
<1>3. w \in LogType
  BY <1>2, WrittenEntry
<1>4. /\ n \in Seq(LogType) /\ Len(n) = Len(l) + 1 /\ n[Len(l) + 1] = w
  BY <1>3
<1>5. GoodCall(q, n)
  BY <1>3, LogGrows
<1>6. /\ 2 \in 1..Len(q) /\ q[2].do = "apply" /\ q[2].e = Head(q).e
      /\ Named(q[2].e) /\ Timed(q[2].e)
  BY <1>1 DEF GoodCall, GoodStep
<1>7. [q[2] EXCEPT !.line = Len(l) + 1] = [do |-> "apply", e |-> Head(q).e, line |-> Len(l) + 1]
  <2>1. q[2] = [do |-> "apply", e |-> Head(q).e, line |-> q[2].line]
    BY <1>1, <1>6, StepKinds
  <2> QED
    BY <2>1
<1>8. [do |-> "apply", e |-> Head(q).e, line |-> Len(l) + 1] \in Steps
  BY <1>1, <1>2 DEF Steps
<1>9. t \in Seq(Steps)
  <2>1. \A i \in 1..(Len(q) - 1) : t[i] \in Steps
    BY <1>1, <1>6, <1>7, <1>8
  <2>2. t \in [1..(Len(q) - 1) -> Steps] /\ Len(q) - 1 \in Nat
    BY <1>1, <2>1
  <2> QED
    BY <2>2, SeqDef
<1>10. DOMAIN t = 1..(Len(q) - 1)
  OBVIOUS
<1>11. ASSUME NEW i \in DOMAIN t
       PROVE  GoodStep(t, i, n)
  <2>1. CASE i = 1
    <3>1. t[i] = [do |-> "apply", e |-> Head(q).e, line |-> Len(l) + 1]
      BY <1>7, <1>10, <2>1
    <3> QED
      BY <1>1, <1>4, <1>6, <3>1 DEF GoodStep
  <2>2. CASE i # 1
    <3>1. i \in Nat /\ i > 1 /\ i + 1 \in DOMAIN q /\ t[i] = q[i + 1] /\ GoodStep(q, i + 1, n)
      BY <1>1, <1>5, <1>10, <2>2 DEF GoodCall
    <3>2. t[i].do # "stamp"
      BY <1>1, <3>1 DEF GoodStep
    <3>3. (i + 1) + 1 \in DOMAIN q => i + 1 \in DOMAIN t /\ t[i + 1] = q[(i + 1) + 1]
      BY <1>1, <1>10, <3>1
    <3>4. (i + 1) - 1 = i /\ (q[i].do = "append" => t[i - 1].do = "append")
      <4>1. CASE i = 2
        BY <1>6, <3>1, <4>1
      <4>2. CASE i # 2
        BY <1>1, <1>10, <3>1, <4>2
      <4> QED
        BY <3>1, <4>1, <4>2
    <3> QED
      BY <3>1, <3>2, <3>3, <3>4 DEF GoodStep
  <2> QED
    BY <2>1, <2>2
<1> QED
  BY <1>2, <1>4, <1>9, <1>11 DEF GoodCall

\* A new entry, or two.
LEMMA WriteCall ==
    ASSUME NEW e \in EntryType, Named(e), Timed(e), NEW l
    PROVE  Write(e) \in Seq(Steps) /\ Len(Write(e)) = 2 /\ GoodCall(Write(e), l)
<1> DEFINE a == [do |-> "append", e |-> e]
           b == [do |-> "apply", e |-> e, line |-> 0]
<1>1. a \in Steps /\ b \in Steps
  BY DEF Steps
<1>2. Write(e) = <<a, b>>
  BY DEF Write
<1>3. Write(e) \in Seq(Steps) /\ Len(Write(e)) = 2
  BY <1>1, <1>2
<1>4. a.do = "append" /\ a.e = e /\ b.do = "apply" /\ b.e = e
  OBVIOUS
<1> HIDE DEF a, b
<1>5. /\ DOMAIN <<a, b>> = 1..2 /\ <<a, b>>[1] = a /\ <<a, b>>[2] = b
  OBVIOUS
<1>6. GoodStep(<<a, b>>, 1, l)
  BY <1>4, <1>5 DEF GoodStep
<1>7. GoodStep(<<a, b>>, 2, l)
  BY <1>4, <1>5 DEF GoodStep
<1> QED
  BY <1>2, <1>3, <1>5, <1>6, <1>7 DEF GoodCall

\* Two writes, one after the other.
LEMMA TwoCalls ==
    ASSUME NEW q \in Seq(Steps), NEW r \in Seq(Steps), NEW l,
           GoodCall(q, l), GoodCall(r, l),
           \A i \in DOMAIN q : q[i].do # "stamp",
           \A i \in DOMAIN r : r[i].do # "stamp"
    PROVE  q \o r \in Seq(Steps) /\ GoodCall(q \o r, l)
<1> DEFINE c == q \o r
<1>1. /\ Len(q) \in Nat /\ Len(r) \in Nat
      /\ DOMAIN q = 1..Len(q) /\ DOMAIN r = 1..Len(r) /\ DOMAIN c = 1..(Len(q) + Len(r))
      /\ \A i \in 1..Len(q) : c[i] = q[i]
      /\ \A i \in 1..Len(r) : c[Len(q) + i] = r[i]
      /\ c \in Seq(Steps)
  OBVIOUS
<1> HIDE DEF c
<1>2. ASSUME NEW i \in DOMAIN c
      PROVE  GoodStep(c, i, l)
  <2>1. CASE i \in 1..Len(q)
    <3>1. c[i] = q[i] /\ GoodStep(q, i, l) /\ q[i].do # "stamp"
      BY <1>1, <2>1 DEF GoodCall
    <3>2. i + 1 \in 1..Len(q) => i + 1 \in DOMAIN c /\ c[i + 1] = q[i + 1]
      BY <1>1, <2>1
    <3>3. i > 1 => c[i - 1] = q[i - 1]
      BY <1>1, <2>1
    <3> QED
      BY <1>1, <3>1, <3>2, <3>3 DEF GoodStep
  <2>2. CASE i \notin 1..Len(q)
    <3> DEFINE j == i - Len(q)
    <3>1. j \in 1..Len(r) /\ i = Len(q) + j
      BY <1>1, <2>2
    <3>2. c[i] = r[j] /\ GoodStep(r, j, l) /\ r[j].do # "stamp"
      BY <1>1, <3>1 DEF GoodCall
    <3>3. j + 1 \in 1..Len(r) => i + 1 \in DOMAIN c /\ c[i + 1] = r[j + 1]
      <4>1. ASSUME j + 1 \in 1..Len(r) PROVE c[Len(q) + (j + 1)] = r[j + 1]
        BY <1>1, <4>1
      <4> QED
        BY <1>1, <3>1, <4>1
    <3>4. j > 1 => c[i - 1] = r[j - 1]
      <4>1. ASSUME j > 1 PROVE c[Len(q) + (j - 1)] = r[j - 1]
        <5>1. j - 1 \in 1..Len(r)
          BY <1>1, <3>1, <4>1
        <5> QED
          BY <1>1, <5>1
      <4> QED
        BY <1>1, <3>1, <4>1
    <3>5. j > 1 => i > 1
      BY <1>1, <3>1
    <3> HIDE DEF j
    <3> QED
      BY <1>1, <3>1, <3>2, <3>3, <3>4, <3>5 DEF GoodStep
  <2> QED
    BY <2>1, <2>2
<1> QED
  BY <1>1, <1>2 DEF GoodCall, c

\* A rescan that has read the log.
LEMMA ReplayCall ==
    ASSUME NEW l \in Seq(LogType), \A i \in 1..Len(l) : Named(l[i]) /\ Timed(l[i]),
           NEW now, NEW steps \in Replay(l, now)
    PROVE  /\ Append(steps, [do |-> "done"]) \in Seq(Steps)
           /\ GoodCall(Append(steps, [do |-> "done"]), l)
<1> DEFINE kept == {i \in 1..Len(l) : ~(/\ l[i].op = "store" /\ l[i].ttl > 0
                                        /\ l[i].updated + Seconds(l[i].ttl) < now)}
           n == Cardinality(kept)
           done == [do |-> "done"]
<1>1. Len(l) \in Nat
  OBVIOUS
<1>2. n \in Nat
  <2>1. IsFiniteSet(1..Len(l))
    BY <1>1, FS_Interval
  <2>2. kept \subseteq 1..Len(l)
    OBVIOUS
  <2> HIDE DEF kept
  <2> QED
    BY <2>1, <2>2, FS_Subset, FS_CardinalityType
<1>3. PICK s \in [1..n -> kept] : steps = Applying(l, s)
  BY DEF Replay
<1>4. \A i \in 1..n : s[i] \in 1..Len(l)
  BY <1>3
<1> HIDE DEF n, kept
<1>5. /\ DOMAIN steps = 1..n
      /\ \A i \in 1..n : steps[i] = [do |-> "apply", e |-> l[s[i]], line |-> s[i]]
  BY <1>3 DEF Applying
<1>6. \A i \in 1..n : /\ l[s[i]] \in EntryType /\ Written(l[s[i]]) = l[s[i]]
                      /\ Named(l[s[i]]) /\ Timed(l[s[i]]) /\ s[i] \in Nat
  BY <1>1, <1>4, WrittenTwice
<1>7. \A i \in 1..n : steps[i] \in Steps
  BY <1>5, <1>6 DEF Steps
<1>8. steps = [i \in 1..n |-> [do |-> "apply", e |-> l[s[i]], line |-> s[i]]]
  BY <1>3 DEF Applying
<1>9. steps \in Seq(Steps) /\ Len(steps) = n
  <2>1. steps \in [1..n -> Steps]
    BY <1>5, <1>7, <1>8
  <2> QED
    BY <1>2, <2>1, SeqDef
<1>10. done \in Steps /\ done.do = "done"
  BY DEF Steps
<1> HIDE DEF done
<1>11. /\ Append(steps, done) \in Seq(Steps)
       /\ DOMAIN Append(steps, done) = 1..(n + 1)
       /\ \A i \in 1..n : Append(steps, done)[i] = steps[i]
       /\ Append(steps, done)[n + 1] = done
  BY <1>2, <1>9, <1>10
<1>12. ASSUME NEW i \in 1..(n + 1)
       PROVE  GoodStep(Append(steps, done), i, l)
  <2>1. CASE i = n + 1
    BY <1>10, <1>11, <2>1 DEF GoodStep
  <2>2. CASE i \in 1..n
    <3>0. Append(steps, done)[i] = [do |-> "apply", e |-> l[s[i]], line |-> s[i]]
      BY <1>5, <1>11, <2>2
    <3>1. /\ Append(steps, done)[i].do = "apply" /\ Append(steps, done)[i].e = l[s[i]]
          /\ Append(steps, done)[i].line = s[i]
      BY <3>0
    <3> QED
      BY <1>4, <1>6, <2>2, <3>1 DEF GoodStep
  <2> QED
    BY <1>2, <2>1, <2>2
<1> QED
  BY <1>11, <1>12 DEF GoodCall, done

-----------------------------------------------------------------------------
(* Rows, and what the log says of them.                                     *)

\* WriteAhead for one row, at every moment.
Says(v, l) ==
    /\ v.line \in 1..Len(l)
    /\ LET e == l[v.line]
       IN  /\ e.op = "store" /\ e.key = v.key /\ e.tags = v.tags
           /\ e.updated = v.updated
           /\ \A m \in Moment : Covers(v, m) =>
                 /\ (IF e.vf = Zero THEN e.updated ELSE e.vf) <= m
                 /\ e.vt = Zero \/ m < e.vt

GoodRows(S, l) == \A v \in S : WellFormed(v) /\ Says(v, l)

\* A row cut from p, or p marked.
Part(w, p) ==
    /\ w.key = p.key /\ w.line = p.line /\ w.tags = p.tags /\ w.updated = p.updated
    /\ \A m \in Moment : Covers(w, m) => Covers(p, m)

\* What the log says of a row it says of its parts.
LEMMA PartSays ==
    ASSUME NEW p, NEW w, NEW l, Part(w, p), Says(p, l)
    PROVE  Says(w, l)
  BY DEF Part, Says

\* A longer log says the same of the rows there are.
LEMMA RowsGrow ==
    ASSUME NEW S, NEW l \in Seq(LogType), NEW e \in LogType, GoodRows(S, l)
    PROVE  GoodRows(S, Append(l, e))
<1>1. /\ Len(Append(l, e)) = Len(l) + 1 /\ Len(l) \in Nat
      /\ \A i \in 1..Len(l) : Append(l, e)[i] = l[i]
  OBVIOUS
<1> QED
  BY <1>1 DEF GoodRows, Says

\* The rows of Put, whatever the stamps of the rows it meets: another process
\* may have stamped them later.
LEMMA PutParts ==
    ASSUME NEW S \in SUBSET VersionType(Keys, Tags), \A v \in S : WellFormed(v),
           NEW f \in Call(Keys, Tags), NEW w \in Put(S, f)
    PROVE  /\ w \in VersionType(Keys, Tags) /\ WellFormed(w)
           /\ w = NewVersion(f) \/ \E p \in S : Part(w, p)
<1>0. /\ ValidFrom(f) \in Nat /\ f.vt \in Nat /\ f.updated \in Nat
      /\ Sec(f.updated) \in Nat \ {Zero}
  BY CallFrom
<1>1. CASE w \in S
  BY <1>1 DEF Part
<1>2. CASE \E p \in Cut(S, f) : w = Close(p, f.updated)
  <2>1. PICK p \in S : w = Close(p, f.updated) /\ Believed(p)
    BY <1>2 DEF Cut
  <2>2. /\ w \in VersionType(Keys, Tags)
        /\ w.key = p.key /\ w.line = p.line /\ w.tags = p.tags /\ w.updated = p.updated
        /\ w.vf = p.vf /\ w.vt = p.vt /\ w.tf = p.tf
        /\ w.tt = Sec(f.updated) /\ w.deleted = p.deleted
    <3>1. p \in VersionType(Keys, Tags)
      OBVIOUS
    <3> QED
      BY <1>0, <2>1, <3>1 DEF Close, VersionType, Ticks
  <2> QED
    BY <1>0, <2>1, <2>2 DEF WellFormed, Part, Covers
<1>3. ASSUME NEW p \in S, NEW vf \in Nat, NEW vt \in Nat, w = Copy(p, vf, vt, f.updated)
      PROVE  /\ w \in VersionType(Keys, Tags) /\ WellFormed(w)
             /\ w.key = p.key /\ w.line = p.line /\ w.tags = p.tags /\ w.updated = p.updated
  <2>1. /\ w \in VersionType(Keys, Tags)
        /\ w.key = p.key /\ w.line = p.line /\ w.tags = p.tags /\ w.updated = p.updated
        /\ w.vf = Sec(vf) /\ w.vt = Sec(vt) /\ w.tf = Sec(f.updated)
        /\ w.tt = Zero /\ w.deleted = Zero
    <3>1. p \in VersionType(Keys, Tags) /\ Sec(vf) \in Nat /\ Sec(vt) \in Nat
      BY SecType
    <3> QED
      BY <1>0, <1>3, <3>1 DEF Copy, VersionType, Ticks, Zero
  <2> QED
    BY <1>0, <2>1, SecIdempotent DEF WellFormed, Zero
<1>4. CASE w \in Before(S, f)
  <2>1. PICK p \in S : /\ w = Copy(p, p.vf, ValidFrom(f), f.updated)
                       /\ Overlaps(p.vf, p.vt, ValidFrom(f), f.vt)
    BY <1>4 DEF Before, Cut
  <2>2. p \in VersionType(Keys, Tags) /\ p.vf \in Nat /\ WellFormed(p)
    BY DEF VersionType, Ticks
  <2>3. \A m \in Moment : Covers(w, m) => Covers(p, m)
    BY <2>1, <2>2, BeforePiece
  <2> QED
    BY <1>0, <1>3, <2>1, <2>2, <2>3 DEF Part
<1>5. CASE w \in After(S, f)
  <2>1. PICK p \in S : /\ w = Copy(p, f.vt, p.vt, f.updated) /\ f.vt # Zero
                       /\ Overlaps(p.vf, p.vt, ValidFrom(f), f.vt)
    BY <1>5 DEF After, Cut
  <2>2. p \in VersionType(Keys, Tags) /\ p.vt \in Nat /\ WellFormed(p)
    BY DEF VersionType, Ticks
  <2>3. \A m \in Moment : Covers(w, m) => Covers(p, m)
    BY <2>1, <2>2, AfterPiece
  <2> QED
    BY <1>0, <1>3, <2>1, <2>2, <2>3 DEF Part
<1>6. CASE w = NewVersion(f)
  <2>1. /\ w \in VersionType(Keys, Tags)
        /\ w.vf = Sec(ValidFrom(f)) /\ w.vt = Sec(f.vt) /\ w.tf = Sec(f.updated)
        /\ w.tt = Zero /\ w.deleted = Zero
    BY <1>6, NewFields
  <2> QED
    BY <1>0, <1>6, <2>1, SecIdempotent DEF WellFormed, Zero
<1> QED
  BY <1>1, <1>2, <1>4, <1>5, <1>6 DEF Put

\* The rows of Forget.
LEMMA ForgetParts ==
    ASSUME NEW S \in SUBSET VersionType(Keys, Tags), \A v \in S : WellFormed(v),
           NEW D \in SUBSET S, NEW at \in Nat, at >= Resolution, NEW w \in Forget(S, D, at)
    PROVE  /\ w \in VersionType(Keys, Tags) /\ WellFormed(w)
           /\ \E p \in S : Part(w, p)
<1>1. CASE w \in S
  BY <1>1 DEF Part
<1>2. CASE w \notin S
  <2>1. PICK p \in D : w = [p EXCEPT !.deleted = Sec(at), !.tt = Sec(at)]
    BY <1>2 DEF Forget
  <2>2. Sec(at) \in Nat /\ Sec(at) # Zero
    BY SecType, SecPositive
  <2>3. p \in VersionType(Keys, Tags) /\ WellFormed(p)
    OBVIOUS
  <2>4. /\ w \in VersionType(Keys, Tags)
        /\ w.key = p.key /\ w.line = p.line /\ w.tags = p.tags /\ w.updated = p.updated
        /\ w.vf = p.vf /\ w.vt = p.vt /\ w.tf = p.tf /\ w.tt = Sec(at)
    BY <2>1, <2>2, <2>3 DEF VersionType, Ticks
  <2> QED
    BY <2>2, <2>3, <2>4 DEF WellFormed, Part, Covers
<1> QED
  BY <1>1, <1>2

\* What a call of Put adds is what the log says of its entry.
LEMMA NewSays ==
    ASSUME NEW l, NEW e \in EntryType, e.op = "store", NEW line \in 1..Len(l),
           l[line] = Written(e),
           NEW f \in Call(Keys, Tags),
           f = [key |-> e.key, line |-> line, tags |-> e.tags, ttl |-> e.ttl,
                updated |-> e.updated, vf |-> e.vf, vt |-> e.vt]
    PROVE  Says(NewVersion(f), l)
<1> DEFINE v == NewVersion(f)
<1>1. /\ f.key = e.key /\ f.line = line /\ f.tags = e.tags
      /\ f.updated = e.updated /\ f.vf = e.vf /\ f.vt = e.vt
  OBVIOUS
<1>2. /\ v.key = e.key /\ v.line = line /\ v.tags = e.tags /\ v.updated = Sec(e.updated)
      /\ v.vf = Sec(ValidFrom(f)) /\ v.vt = Sec(e.vt)
  BY <1>1, NewFields
<1>3. /\ l[line].op = "store" /\ l[line].key = e.key /\ l[line].tags = e.tags
      /\ l[line].updated = Sec(e.updated) /\ l[line].vf = Sec(e.vf) /\ l[line].vt = Sec(e.vt)
  BY WrittenEntry
<1>4. /\ e.vf \in Nat /\ e.vt \in Nat /\ e.updated \in Nat
      /\ e.vf = Zero \/ e.vf >= Resolution
      /\ e.vt = Zero \/ e.vt >= Resolution
  BY <1>1 DEF Call, FactType, Ticks
<1>5. Sec(ValidFrom(f)) = IF Sec(e.vf) = Zero THEN Sec(e.updated) ELSE Sec(e.vf)
  BY <1>1, <1>4, SecPositive, SecZero DEF ValidFrom
<1>6. Sec(ValidFrom(f)) # Zero /\ Sec(ValidFrom(f)) \in Nat /\ Sec(e.vt) \in Nat
  BY <1>4, CallFrom, SecType
<1> HIDE DEF v
<1>7. ASSUME NEW m \in Moment, Covers(v, m)
      PROVE  Sec(ValidFrom(f)) <= m /\ (Sec(e.vt) = Zero \/ m < Sec(e.vt))
  <2>1. m \in Nat
    BY DEF Moment
  <2> QED
    BY <1>2, <1>6, <1>7, <2>1 DEF Covers
<1> QED
  BY <1>2, <1>3, <1>5, <1>7 DEF Says, v

\* Forgetting leaves one content where there was one.
LEMMA ForgetOne ==
    ASSUME NEW S \in SUBSET VersionType(Keys, Tags), NEW D \in SUBSET S,
           NEW at \in Nat, at >= Resolution, OneIn(S)
    PROVE  OneIn(Forget(S, D, at))
<1>1. ASSUME NEW k, NEW m
      PROVE  Belief(Forget(S, D, at), k, m) \subseteq Belief(S, k, m)
  <2>1. Belief(Forget(S, D, at), k, m) = Belief(S \ D, k, m)
    BY ForgetBelief
  <2> QED
    BY <2>1 DEF Belief
<1> QED
  BY <1>1 DEF OneIn

\* An entry applied: in the order of the log or not, on a whole index or on
\* what a rescan has rebuilt so far.
LEMMA ApplyKeeps ==
    ASSUME NEW S \in SUBSET VersionType(Keys, Tags), NEW l, GoodRows(S, l), OneIn(S),
           NEW e \in EntryType, Named(e), Timed(e),
           NEW line \in 1..Len(l), line \in Nat, l[line] = Written(e)
    PROVE  /\ ApplyEntry(S, e, line) \in SUBSET VersionType(Keys, Tags)
           /\ GoodRows(ApplyEntry(S, e, line), l)
           /\ OneIn(ApplyEntry(S, e, line))
<1> DEFINE R == ApplyEntry(S, e, line)
<1>1. /\ e.op \in {"store", "delete", "delete_tags"}
      /\ e.updated \in Nat /\ e.vf \in Nat /\ e.vt \in Nat /\ e.ttl \in Int
      /\ e.tags \in SUBSET Tags /\ e.updated >= Resolution
  BY DEF EntryType, Ticks, Timed
<1>2. CASE e.op = "store"
  <2> DEFINE f == [key |-> e.key, line |-> line, tags |-> e.tags, ttl |-> e.ttl,
                   updated |-> e.updated, vf |-> e.vf, vt |-> e.vt]
  <2>1. f \in Call(Keys, Tags)
    BY <1>1, <1>2 DEF Call, FactType, Ticks, Timed, Named
  <2>2. Says(NewVersion(f), l)
    BY <1>2, <2>1, NewSays
  <2>3. R = Put(S, f)
    BY <1>2 DEF ApplyEntry
  <2> HIDE DEF f, R
  <2>4. \A v \in S : WellFormed(v)
    BY DEF GoodRows
  <2>5. \A w \in R : /\ w \in VersionType(Keys, Tags) /\ WellFormed(w)
                     /\ w = NewVersion(f) \/ \E p \in S : Part(w, p)
    BY <2>1, <2>3, <2>4, PutParts
  <2>6. GoodRows(R, l)
    BY <2>2, <2>5, PartSays DEF GoodRows
  <2>7. OneIn(R)
    <3> SUFFICES ASSUME NEW k, NEW m \in Moment, NEW x \in Belief(R, k, m),
                        NEW y \in Belief(R, k, m)
                 PROVE  x = y
      BY DEF OneIn
    <3>1. Belief(R, k, m) = IF k = f.key /\ Inside(f, m) THEN {f.line} ELSE Belief(S, k, m)
      BY <2>1, <2>3, <2>4, PutBelief
    <3> QED
      BY <3>1 DEF OneIn
  <2> QED
    BY <2>5, <2>6, <2>7 DEF R
<1>3. CASE e.op # "store"
  <2>1. PICK D \in SUBSET S : R = Forget(S, D, e.updated)
    BY <1>1, <1>3 DEF ApplyEntry, DeleteByEntity, DeleteByTags
  <2> HIDE DEF R
  <2>2. \A v \in S : WellFormed(v)
    BY DEF GoodRows
  <2>3. \A w \in R : /\ w \in VersionType(Keys, Tags) /\ WellFormed(w)
                     /\ \E p \in S : Part(w, p)
    BY <1>1, <2>1, <2>2, ForgetParts
  <2>4. GoodRows(R, l)
    BY <2>3, PartSays DEF GoodRows
  <2>5. OneIn(R)
    <3>1. OneIn(Forget(S, D, e.updated))
      BY <1>1, ForgetOne
    <3> QED
      BY <2>1, <3>1
  <2> QED
    BY <2>3, <2>4, <2>5 DEF R
<1> QED
  BY <1>2, <1>3

-----------------------------------------------------------------------------
(* The inductive invariant.                                                 *)

GoodLog == \A i \in 1..Len(log) : Named(log[i]) /\ Timed(log[i])

GoodCalls == \A p \in Procs : GoodCall(todo[p], log)

IInv ==
    /\ TypeOK
    /\ clock >= Resolution
    /\ GoodLog
    /\ GoodCalls
    /\ GoodRows(facts, log)
    /\ OneIn(facts)

\* IInv holds at the start.
LEMMA InitIInv == Init => IInv
<1> SUFFICES ASSUME Init
             PROVE  IInv
  OBVIOUS
<1>1. TypeOK
  <2>1. <<>> \in Seq(Steps) /\ <<>> \in Seq(LogType)
    OBVIOUS
  <2>2. todo \in [Procs -> Seq(Steps)]
    BY <2>1 DEF Init
  <2> QED
    BY <2>1, <2>2, ResolutionAssumption DEF Init, TypeOK, Ticks
<1>2. clock >= Resolution
  BY ResolutionAssumption DEF Init
<1>3. GoodLog
  BY DEF Init, GoodLog
<1>4. GoodCalls
  BY DEF Init, GoodCalls, GoodCall
<1>5. GoodRows(facts, log) /\ OneIn(facts)
  BY DEF Init, GoodRows, OneIn, Belief
<1> QED
  BY <1>1, <1>2, <1>3, <1>4, <1>5 DEF IInv

\* A step of p that only changes what is left of its call.
LEMMA CallStep ==
    ASSUME IInv, NEW p \in Procs, NEW q \in Seq(Steps), GoodCall(q, log),
           todo' = [todo EXCEPT ![p] = q], lost' \in BOOLEAN,
           UNCHANGED <<clock, log, facts, told>>
    PROVE  IInv'
<1>1. todo' \in [Procs -> Seq(Steps)]
  BY DEF IInv, TypeOK
<1>2. TypeOK'
  BY <1>1 DEF IInv, TypeOK
<1>3. GoodCalls'
  BY DEF IInv, TypeOK, GoodCalls
<1>4. GoodLog' /\ GoodRows(facts, log)' /\ OneIn(facts)'
  BY DEF IInv, GoodLog
<1> QED
  BY <1>2, <1>3, <1>4 DEF IInv

\* The clock moves, and what is answered is remembered.
LEMMA TickStep ==
    ASSUME IInv, Tick
    PROVE  IInv'
<1>1. /\ clock \in Nat /\ clock' = clock + 1 /\ clock >= Resolution
      /\ log' = log /\ facts' = facts /\ todo' = todo /\ lost' = lost
  BY DEF IInv, TypeOK, Ticks, Tick
<1>2. \A t : AnswersAsOf(t) \in [Keys -> [Moments -> SUBSET Nat]]
  <2>1. \A t, k, m : BeliefAt(facts, k, t, m) \in SUBSET Nat
    BY DEF IInv, TypeOK, BeliefAt, VersionType
  <2> QED
    BY <2>1 DEF AnswersAsOf
<1>3. told' \subseteq [at : Moments, answers : [Keys -> [Moments -> SUBSET Nat]]]
  <2>1. told \subseteq [at : Moments, answers : [Keys -> [Moments -> SUBSET Nat]]]
    BY DEF IInv, TypeOK
  <2>2. \A t \in Moments : [at |-> t, answers |-> AnswersAsOf(t)]
                \in [at : Moments, answers : [Keys -> [Moments -> SUBSET Nat]]]
    BY <1>2
  <2> QED
    BY <2>1, <2>2 DEF Tick
<1>4. TypeOK'
  BY <1>1, <1>3 DEF IInv, TypeOK, Ticks
<1>5. clock' >= Resolution
  BY <1>1, ResolutionAssumption
<1> QED
  BY <1>1, <1>4, <1>5 DEF IInv, GoodLog, GoodCalls

\* A call with one step that meets no log.
LEMMA OneStep ==
    ASSUME NEW s \in Steps, NEW l, s.do \in {"stamp", "read"},
           s.do = "stamp" => /\ Named(s.e)
                             /\ s.e.vf = Zero \/ s.e.vf >= Resolution
                             /\ s.e.vt = Zero \/ s.e.vt >= Resolution
    PROVE  << s >> \in Seq(Steps) /\ GoodCall(<< s >>, l)
<1>1. << s >> \in Seq(Steps) /\ DOMAIN << s >> = {1} /\ << s >>[1] = s
  OBVIOUS
<1>2. GoodStep(<< s >>, 1, l)
  BY <1>1 DEF GoodStep
<1> QED
  BY <1>1, <1>2 DEF GoodCall

\* memory_store passes its checks.
LEMMA StoreCallStep ==
    ASSUME IInv, NEW p \in Procs, NEW k \in Keys, NEW tags \in SUBSET Tags, NEW ttl \in TTLs,
           NEW from \in Bounds, NEW to \in Bounds, StoreCall(p, k, tags, ttl, from, to)
    PROVE  IInv'
<1> DEFINE e == Fact(k, tags, ttl, from, to)
           s == [do |-> "stamp", e |-> e]
<1>1. /\ ttl \in Int /\ from \in Nat /\ to \in Nat
      /\ from = Zero \/ from >= Resolution
      /\ to = Zero \/ to >= Resolution
  BY StoreAssumption
<1>2. e \in EntryType
  BY <1>1 DEF Fact, EntryType, Ticks, Zero
<1>3. Named(e) /\ (e.vf = Zero \/ e.vf >= Resolution) /\ (e.vt = Zero \/ e.vt >= Resolution)
  BY <1>1 DEF Fact, Named
<1> HIDE DEF e
<1>4. s \in Steps /\ s.do = "stamp" /\ s.e = e
  BY <1>2 DEF Steps
<1>5. todo' = [todo EXCEPT ![p] = << s >>] /\ UNCHANGED <<clock, log, facts, lost, told>>
  BY DEF StoreCall, e
<1> HIDE DEF s
<1>6. << s >> \in Seq(Steps) /\ GoodCall(<< s >>, log)
  BY <1>3, <1>4, OneStep
<1> QED
  BY <1>5, <1>6, CallStep DEF IInv, TypeOK

\* The clock is read again.
LEMMA StampStep ==
    ASSUME IInv, NEW p \in Procs, Stamp(p)
    PROVE  IInv'
<1> DEFINE s == Head(todo[p])
           e == [s.e EXCEPT !.updated = clock]
<1>1. todo[p] \in Seq(Steps) /\ todo[p] # <<>> /\ s.do = "stamp" /\ GoodCall(todo[p], log)
  BY DEF Stamp, At, Idle, IInv, TypeOK, GoodCalls
<1>2. s \in Steps /\ GoodStep(todo[p], 1, log) /\ s = todo[p][1]
  BY <1>1 DEF GoodCall
<1>3. s.e \in EntryType
  BY <1>1, <1>2, StepKinds
<1>4. clock \in Nat /\ clock >= Resolution
  BY DEF IInv, TypeOK, Ticks
<1>5. e \in EntryType /\ e.updated = clock /\ e.op = s.e.op /\ e.key = s.e.key
      /\ e.vf = s.e.vf /\ e.vt = s.e.vt
  BY <1>3, <1>4 DEF EntryType, Ticks
<1>6. Named(e) /\ Timed(e)
  BY <1>1, <1>2, <1>4, <1>5 DEF GoodStep, Named, Timed
<1>7. todo' = [todo EXCEPT ![p] = Write(e)] /\ UNCHANGED <<clock, log, facts, lost, told>>
  BY DEF Stamp
<1> HIDE DEF e
<1> QED
  BY <1>5, <1>6, <1>7, WriteCall, CallStep DEF IInv, TypeOK

\* memory_forget, of a key, of tags or of both.
LEMMA ForgetCallStep ==
    ASSUME IInv, NEW p \in Procs, NEW k \in Keys \cup {NoKey}, NEW tags \in SUBSET Tags,
           ForgetCall(p, k, tags)
    PROVE  IInv'
<1> DEFINE d == Tombstone("delete", k, {}, clock)
           t == Tombstone("delete_tags", NoKey, tags, clock)
           a == IF k # NoKey THEN Write(d) ELSE <<>>
           b == IF tags # {} THEN Write(t) ELSE <<>>
<1>1. clock \in Nat /\ clock >= Resolution
  BY DEF IInv, TypeOK, Ticks
<1>2. d \in EntryType /\ Named(d) /\ Timed(d)
  BY <1>1 DEF Tombstone, EntryType, Ticks, Zero, Named, Timed
<1>3. t \in EntryType /\ Named(t) /\ Timed(t)
  BY <1>1 DEF Tombstone, EntryType, Ticks, Zero, Named, Timed
<1> HIDE DEF d, t
<1>4. ASSUME NEW e \in EntryType, Named(e), Timed(e)
      PROVE  \A i \in DOMAIN Write(e) : Write(e)[i].do # "stamp"
  BY DEF Write
<1>5. /\ <<>> \in Seq(Steps) /\ GoodCall(<<>>, log)
      /\ \A i \in DOMAIN <<>> : <<>>[i].do # "stamp"
  BY DEF GoodCall
<1>6. a \in Seq(Steps) /\ GoodCall(a, log) /\ \A i \in DOMAIN a : a[i].do # "stamp"
  BY <1>2, <1>4, <1>5, WriteCall
<1>7. b \in Seq(Steps) /\ GoodCall(b, log) /\ \A i \in DOMAIN b : b[i].do # "stamp"
  BY <1>3, <1>4, <1>5, WriteCall
<1>8. todo' = [todo EXCEPT ![p] = a \o b] /\ UNCHANGED <<clock, log, facts, lost, told>>
  BY DEF ForgetCall, d, t
<1> HIDE DEF a, b
<1>9. a \o b \in Seq(Steps) /\ GoodCall(a \o b, log)
  BY <1>6, <1>7, TwoCalls
<1> QED
  BY <1>8, <1>9, CallStep DEF IInv, TypeOK

\* An entry reaches the log.
LEMMA AppendLogStep ==
    ASSUME IInv, NEW p \in Procs, AppendLog(p)
    PROVE  IInv'
<1> DEFINE q == todo[p]
           w == Written(Head(q).e)
           t == [i \in 1..(Len(q) - 1) |->
                   IF i = 1 THEN [q[2] EXCEPT !.line = Len(log) + 1] ELSE q[i + 1]]
<1>1. /\ q \in Seq(Steps) /\ q # <<>> /\ Head(q).do = "append" /\ GoodCall(q, log)
      /\ log \in Seq(LogType)
  BY DEF AppendLog, At, Idle, IInv, TypeOK, GoodCalls
<1>2. /\ Head(q).e \in EntryType /\ Append(log, w) \in Seq(LogType)
      /\ t \in Seq(Steps) /\ GoodCall(t, Append(log, w))
  BY <1>1, AppendDone
<1>3. /\ log' = Append(log, w) /\ todo' = [todo EXCEPT ![p] = t]
      /\ UNCHANGED <<clock, facts, lost, told>>
  BY DEF AppendLog
<1>4. Named(Head(q).e) /\ Timed(Head(q).e)
  BY <1>1 DEF GoodCall, GoodStep
<1>5. w \in LogType /\ Named(w) /\ Timed(w)
  BY <1>2, <1>4, WrittenEntry
<1>6. todo \in [Procs -> Seq(Steps)]
  BY DEF IInv, TypeOK
<1> HIDE DEF w, t
<1>7. TypeOK'
  BY <1>2, <1>3, <1>6 DEF IInv, TypeOK
<1>8. GoodLog'
  <2>1. /\ Len(log') = Len(log) + 1 /\ Len(log) \in Nat /\ log'[Len(log) + 1] = w
        /\ \A i \in 1..Len(log) : log'[i] = log[i]
    BY <1>1, <1>3, <1>5
  <2>2. \A i \in 1..(Len(log) + 1) : Named(log'[i]) /\ Timed(log'[i])
    BY <1>5, <2>1 DEF IInv, GoodLog
  <2> QED
    BY <2>1, <2>2 DEF GoodLog
<1>9. GoodCalls'
  <2> SUFFICES ASSUME NEW r \in Procs
               PROVE  GoodCall(todo'[r], log')
    BY DEF GoodCalls
  <2>1. CASE r = p
    BY <1>2, <1>3, <1>6, <2>1
  <2>2. CASE r # p
    <3>1. todo'[r] = todo[r] /\ todo[r] \in Seq(Steps) /\ GoodCall(todo[r], log)
      BY <1>3, <1>6, <2>2 DEF IInv, GoodCalls
    <3> QED
      BY <1>1, <1>3, <1>5, <3>1, LogGrows
  <2> QED
    BY <2>1, <2>2
<1>10. GoodRows(facts, log)' /\ OneIn(facts)'
  <2>1. GoodRows(facts, Append(log, w)) /\ OneIn(facts)
    BY <1>1, <1>5, RowsGrow DEF IInv
  <2> QED
    BY <1>3, <2>1
<1> QED
  BY <1>3, <1>7, <1>8, <1>9, <1>10 DEF IInv

\* A step that changes the rows and what is left of the call of p.
LEMMA RowsStep ==
    ASSUME IInv, NEW p \in Procs, NEW q \in Seq(Steps), GoodCall(q, log),
           todo' = [todo EXCEPT ![p] = q],
           facts' \in SUBSET VersionType(Keys, Tags), GoodRows(facts', log), OneIn(facts'),
           UNCHANGED <<clock, log, lost, told>>
    PROVE  IInv'
<1>1. todo' \in [Procs -> Seq(Steps)]
  BY DEF IInv, TypeOK
<1>2. TypeOK'
  BY <1>1 DEF IInv, TypeOK
<1>3. GoodCalls'
  BY DEF IInv, TypeOK, GoodCalls
<1>4. GoodLog' /\ GoodRows(facts, log)' /\ OneIn(facts)'
  BY DEF IInv, GoodLog
<1> QED
  BY <1>2, <1>3, <1>4 DEF IInv

\* An entry reaches the index, at once or in a replay.
LEMMA ApplyIndexStep ==
    ASSUME IInv, NEW p \in Procs, ApplyIndex(p)
    PROVE  IInv'
<1> DEFINE q == todo[p]
           s == Head(q)
<1>1. /\ q \in Seq(Steps) /\ q # <<>> /\ s.do = "apply" /\ GoodCall(q, log)
      /\ log \in Seq(LogType) /\ facts \in SUBSET VersionType(Keys, Tags)
  BY DEF ApplyIndex, At, Idle, IInv, TypeOK, GoodCalls
<1>2. s \in Steps /\ s = q[1] /\ GoodStep(q, 1, log)
  BY <1>1 DEF GoodCall
<1>3. /\ s.e \in EntryType /\ Named(s.e) /\ Timed(s.e)
      /\ s.line \in 1..Len(log) /\ s.line \in Nat /\ log[s.line] = Written(s.e)
  BY <1>1, <1>2, StepKinds DEF GoodStep
<1>4. Tail(q) \in Seq(Steps) /\ GoodCall(Tail(q), log)
  BY <1>1, StepDone
<1>5. /\ facts' = ApplyEntry(facts, s.e, s.line) /\ todo' = [todo EXCEPT ![p] = Tail(q)]
      /\ UNCHANGED <<clock, log, lost, told>>
  BY DEF ApplyIndex
<1>6. GoodRows(facts, log) /\ OneIn(facts)
  BY DEF IInv
<1>7. /\ ApplyEntry(facts, s.e, s.line) \in SUBSET VersionType(Keys, Tags)
      /\ GoodRows(ApplyEntry(facts, s.e, s.line), log)
      /\ OneIn(ApplyEntry(facts, s.e, s.line))
  BY <1>1, <1>3, <1>6, ApplyKeeps
<1> HIDE DEF q, s
<1> QED
  BY <1>4, <1>5, <1>7, RowsStep

\* The tables are dropped.
LEMMA ResetStep ==
    ASSUME IInv, NEW p \in Procs, Reset(p)
    PROVE  IInv'
<1> DEFINE s == [do |-> "read"]
<1>1. s \in Steps /\ s.do = "read"
  BY DEF Steps
<1>2. /\ facts' = {} /\ todo' = [todo EXCEPT ![p] = << s >>]
      /\ UNCHANGED <<clock, log, lost, told>>
  BY DEF Reset
<1> HIDE DEF s
<1>3. << s >> \in Seq(Steps) /\ GoodCall(<< s >>, log)
  BY <1>1, OneStep
<1>4. GoodRows({}, log) /\ OneIn({})
  BY DEF GoodRows, OneIn, Belief
<1> QED
  BY <1>2, <1>3, <1>4, RowsStep

\* The files are read for a replay.
LEMMA ReadLogStep ==
    ASSUME IInv, NEW p \in Procs, ReadLog(p)
    PROVE  IInv'
<1>1. log \in Seq(LogType) /\ \A i \in 1..Len(log) : Named(log[i]) /\ Timed(log[i])
  BY DEF IInv, TypeOK, GoodLog
<1>2. PICK steps \in Replay(log, clock) :
         todo' = [todo EXCEPT ![p] = Append(steps, [do |-> "done"])]
  BY DEF ReadLog
<1>3. /\ Append(steps, [do |-> "done"]) \in Seq(Steps)
      /\ GoodCall(Append(steps, [do |-> "done"]), log)
  BY <1>1, ReplayCall
<1> QED
  BY <1>2, <1>3, CallStep DEF ReadLog, IInv, TypeOK

\* The call ends, done or not.
LEMMA EndStep ==
    ASSUME IInv, NEW p \in Procs, Rescanned(p) \/ Fail(p)
    PROVE  IInv'
<1>1. <<>> \in Seq(Steps) /\ GoodCall(<<>>, log)
  BY DEF GoodCall
<1>2. todo' = [todo EXCEPT ![p] = <<>>] /\ UNCHANGED <<clock, log, facts, told>>
  BY DEF Rescanned, Fail
<1>3. lost' \in BOOLEAN
  BY DEF Rescanned, Fail, IInv, TypeOK
<1> QED
  BY <1>1, <1>2, <1>3, CallStep

\* Rows go away.
LEMMA PruneStep ==
    ASSUME IInv, NEW p \in Procs, Prune(p)
    PROVE  IInv'
<1>1. facts' \subseteq facts /\ UNCHANGED <<clock, log, todo, lost, told>>
  BY DEF Prune, PurgeExpired
<1>2. GoodRows(facts', log)
  BY <1>1 DEF IInv, GoodRows
<1>3. OneIn(facts')
  <2>1. ASSUME NEW k, NEW m PROVE Belief(facts', k, m) \subseteq Belief(facts, k, m)
    BY <1>1 DEF Belief
  <2> QED
    BY <2>1 DEF IInv, OneIn
<1>4. TypeOK'
  BY <1>1 DEF IInv, TypeOK
<1> QED
  BY <1>1, <1>2, <1>3, <1>4 DEF IInv, GoodLog, GoodCalls

\* Every step keeps IInv.
LEMMA NextIInv == IInv /\ [Next]_vars => IInv'
<1> SUFFICES ASSUME IInv, [Next]_vars
             PROVE  IInv'
  OBVIOUS
<1>1. CASE UNCHANGED vars
  BY <1>1 DEF vars, IInv, TypeOK, GoodLog, GoodCalls, GoodRows, OneIn
<1>2. CASE Tick
  BY <1>2, TickStep
<1>3. ASSUME NEW p \in Procs, NEW k \in Keys, NEW tags \in SUBSET Tags, NEW ttl \in TTLs,
             NEW from \in Bounds, NEW to \in Bounds, StoreCall(p, k, tags, ttl, from, to)
      PROVE  IInv'
  BY <1>3, StoreCallStep
<1>4. ASSUME NEW p \in Procs, NEW k \in Keys \cup {NoKey}, NEW tags \in SUBSET Tags,
             ForgetCall(p, k, tags)
      PROVE  IInv'
  BY <1>4, ForgetCallStep
<1>5. ASSUME NEW p \in Procs, Stamp(p) \/ AppendLog(p) \/ ApplyIndex(p)
      PROVE  IInv'
  BY <1>5, StampStep, AppendLogStep, ApplyIndexStep
<1>6. ASSUME NEW p \in Procs, Reset(p) \/ ReadLog(p) \/ Rescanned(p) \/ Prune(p) \/ Fail(p)
      PROVE  IInv'
  BY <1>6, ResetStep, ReadLogStep, EndStep, PruneStep
<1> QED
  BY <1>1, <1>2, <1>3, <1>4, <1>5, <1>6 DEF Next

\* IInv in every reachable state of any number of processes.
THEOREM Invariance == Spec => []IInv
  BY InitIInv, NextIInv, PTL DEF Spec

-----------------------------------------------------------------------------
(* What follows from it.                                                    *)

\* Log, rows, calls under way and what was told keep their types.
THEOREM TypeCorrect == Spec => []TypeOK
<1>1. IInv => TypeOK
  BY DEF IInv
<1> QED
  BY <1>1, Invariance, PTL

\* Readers ask about whole seconds.
LEMMA MomentsAreMoments == Moments \subseteq Moment
  BY StoreAssumption DEF Moment

\* The index holds nothing the log does not say, whatever fails and whoever
\* shares the directory: AppendStore comes before Put, and what Put cuts stays
\* within the entry it comes from.
THEOREM WriteAheadAlways == Spec => []WriteAhead
<1>1. IInv => WriteAhead
  BY MomentsAreMoments DEF IInv, GoodRows, Says, WriteAhead
<1> QED
  BY <1>1, Invariance, PTL

\* A key never has two contents believed about a moment: each Put leaves one
\* where it applies and the rest alone, in whatever order processes call it.
THEOREM OneBeliefAlways == Spec => []OneBelief
<1>1. IInv => OneBelief
  BY MomentsAreMoments DEF IInv, OneIn, OneBelief
<1> QED
  BY <1>1, Invariance, PTL

-----------------------------------------------------------------------------
(* One row to a moment, as long as no entry ends before it starts.          *)

\* One row about the moment m.
RowAt(S, m) ==
    \A v, w \in S :
        v.key = w.key /\ Believed(v) /\ Believed(w) /\ Covers(v, m) /\ Covers(w, m) => v = w

\* OneRow at every moment.
OneRowIn(S) == \A m \in Moment : RowAt(S, m)

\* What a version covers, and what is left of it on either side.
LEMMA PutPieces ==
    ASSUME NEW S \in SUBSET VersionType(Keys, Tags), \A v \in S : WellFormed(v),
           NEW f \in Call(Keys, Tags), NEW m \in Moment,
           NEW w \in Put(S, f), Believed(w), Covers(w, m)
    PROVE  \/ /\ w \in S \ Cut(S, f)
              /\ w.key = f.key => ~Inside(f, m)
           \/ /\ w = NewVersion(f)
              /\ Inside(f, m)
           \/ \E p \in Cut(S, f) :
                 /\ Covers(p, m)
                 /\ \/ w = Copy(p, p.vf, ValidFrom(f), f.updated) /\ m < Sec(ValidFrom(f))
                    \/ w = Copy(p, f.vt, p.vt, f.updated) /\ f.vt # Zero /\ Sec(f.vt) <= m
<1>1. \/ w \in S \ Cut(S, f)
      \/ w \in Before(S, f)
      \/ w \in After(S, f)
      \/ w = NewVersion(f)
  BY PutRows
<1>2. CASE w \in S \ Cut(S, f)
  <2>1. w.key = f.key => ~Overlaps(w.vf, w.vt, ValidFrom(f), f.vt)
    BY <1>2 DEF Cut
  <2>2. w.key = f.key => ~Inside(f, m)
    BY <1>2, <2>1, Apart
  <2> QED
    BY <1>2, <2>2
<1>3. CASE w \in Before(S, f)
  <2>1. PICK p \in Cut(S, f) : w = Copy(p, p.vf, ValidFrom(f), f.updated)
    BY <1>3 DEF Before
  <2>2. p \in S /\ Overlaps(p.vf, p.vt, ValidFrom(f), f.vt)
    BY DEF Cut
  <2>3. Covers(p, m) /\ m < Sec(ValidFrom(f))
    BY <2>1, <2>2, BeforePiece
  <2> QED
    BY <2>1, <2>3
<1>4. CASE w \in After(S, f)
  <2>1. PICK p \in Cut(S, f) : w = Copy(p, f.vt, p.vt, f.updated) /\ f.vt # Zero
    BY <1>4 DEF After
  <2>2. p \in S /\ Overlaps(p.vf, p.vt, ValidFrom(f), f.vt)
    BY DEF Cut
  <2>3. Covers(p, m) /\ Sec(f.vt) <= m
    BY <2>1, <2>2, AfterPiece
  <2> QED
    BY <2>1, <2>3
<1>5. CASE w = NewVersion(f)
  <2>1. /\ w.vf = Sec(ValidFrom(f)) /\ w.vt = Sec(f.vt)
    BY <1>5, NewFields
  <2>2. /\ Sec(ValidFrom(f)) \in Nat \ {Zero} /\ Sec(f.vt) \in Nat
        /\ f.vt # Zero => Sec(f.vt) # Zero
        /\ m \in Nat
    BY CallFrom DEF Moment
  <2>3. Inside(f, m)
    BY <2>1, <2>2 DEF Covers, Inside
  <2> QED
    BY <1>5, <2>3
<1> QED
  BY <1>1, <1>2, <1>3, <1>4, <1>5

\* Put leaves one row to a moment when the validity it is given is in order, or
\* has started by then.
LEMMA PutRowAt ==
    ASSUME NEW S \in SUBSET VersionType(Keys, Tags), \A v \in S : WellFormed(v),
           NEW m \in Moment, RowAt(S, m), NEW f \in Call(Keys, Tags),
           \/ f.vt = Zero
           \/ Sec(ValidFrom(f)) <= Sec(f.vt)
           \/ Sec(ValidFrom(f)) <= m
    PROVE  RowAt(Put(S, f), m)
<1> SUFFICES ASSUME NEW v \in Put(S, f), NEW w \in Put(S, f),
                    v.key = w.key, Believed(v), Believed(w), Covers(v, m), Covers(w, m)
             PROVE  v = w
  BY DEF RowAt
<1> DEFINE Kept(u) == u \in S \ Cut(S, f) /\ (u.key = f.key => ~Inside(f, m))
           New(u) == u = NewVersion(f) /\ Inside(f, m)
           Early(u, p) == u = Copy(p, p.vf, ValidFrom(f), f.updated) /\ m < Sec(ValidFrom(f))
           Late(u, p) == u = Copy(p, f.vt, p.vt, f.updated) /\ f.vt # Zero /\ Sec(f.vt) <= m
           Piece(u) == \E p \in Cut(S, f) : Covers(p, m) /\ (Early(u, p) \/ Late(u, p))
<1>1. Kept(v) \/ New(v) \/ Piece(v)
  BY PutPieces
<1>2. Kept(w) \/ New(w) \/ Piece(w)
  BY PutPieces
<1>3. \A u : New(u) => u.key = f.key
  BY NewFields
<1>4. ASSUME NEW u, NEW p \in Cut(S, f), Early(u, p) \/ Late(u, p)
      PROVE  u.key = f.key
  <2>1. p \in VersionType(Keys, Tags) /\ p.key = f.key
    BY DEF Cut
  <2> QED
    BY <1>4, <2>1 DEF Copy, VersionType
<1>5. \A p \in Cut(S, f) : p \in S /\ p.key = f.key /\ Believed(p)
  BY DEF Cut
<1>6. /\ m \in Nat /\ Sec(ValidFrom(f)) \in Nat /\ Sec(f.vt) \in Nat
      /\ f.vt # Zero => Sec(ValidFrom(f)) <= Sec(f.vt) \/ Sec(ValidFrom(f)) <= m
  BY CallFrom DEF Moment
<1>7. \A p \in Cut(S, f), q \in Cut(S, f) : Covers(p, m) /\ Covers(q, m) => p = q
  BY <1>5 DEF RowAt
<1>8. ASSUME NEW a, NEW b, Kept(a), Believed(a), Covers(a, m), a.key = b.key, New(b) \/ Piece(b)
      PROVE  FALSE
  <2>1. CASE New(b)
    BY <1>3, <1>8, <2>1
  <2>2. CASE Piece(b)
    <3>1. PICK p \in Cut(S, f) : Covers(p, m) /\ (Early(b, p) \/ Late(b, p))
      BY <2>2
    <3>2. b.key = f.key
      BY <1>4, <3>1
    <3>3. a = p
      BY <1>5, <1>8, <3>1, <3>2 DEF RowAt
    <3> QED
      BY <1>8, <3>3
  <2> QED
    BY <1>8, <2>1, <2>2
<1>9. ASSUME NEW b, New(b) \/ Piece(b), NEW c, New(c) \/ Piece(c)
      PROVE  b = c
  <2>1. ASSUME NEW x, NEW y, New(x), Piece(y)
        PROVE  FALSE
    <3> HIDE DEF Piece
    <3>1. Sec(ValidFrom(f)) <= m /\ (f.vt = Zero \/ m < Sec(f.vt))
      BY <2>1 DEF Inside
    <3>2. m < Sec(ValidFrom(f)) \/ (f.vt # Zero /\ Sec(f.vt) <= m)
      BY <2>1 DEF Piece
    <3> QED
      BY <1>6, <3>1, <3>2
  <2>2. CASE New(b) /\ New(c)
    BY <2>2
  <2>3. CASE Piece(b) /\ Piece(c)
    <3>1. PICK p \in Cut(S, f) : Covers(p, m) /\ (Early(b, p) \/ Late(b, p))
      BY <2>3
    <3>2. PICK q \in Cut(S, f) : Covers(q, m) /\ (Early(c, q) \/ Late(c, q))
      BY <2>3
    <3>3. p = q
      BY <1>7, <3>1, <3>2
    <3>4. ~(m < Sec(ValidFrom(f)) /\ f.vt # Zero /\ Sec(f.vt) <= m)
      BY <1>6
    <3> QED
      BY <3>1, <3>2, <3>3, <3>4
  <2> QED
    BY <1>9, <2>1, <2>2, <2>3
<1>10. CASE Kept(v) /\ Kept(w)
  BY <1>10 DEF RowAt
<1> HIDE DEF Kept, New, Piece
<1> QED
  BY <1>1, <1>2, <1>8, <1>9, <1>10

\* What a step does to log and rows.
LEMMA RowsChange ==
    ASSUME IInv, [Next]_vars
    PROVE  \/ /\ facts' \subseteq facts
              /\ log' = log \/ \E w \in LogType : log' = Append(log, w)
           \/ /\ log' = log
              /\ \E e \in EntryType, line \in 1..Len(log) :
                    /\ Named(e) /\ Timed(e) /\ log[line] = Written(e)
                    /\ facts' = ApplyEntry(facts, e, line)
<1>1. CASE UNCHANGED vars \/ Tick
  BY <1>1 DEF vars, Tick
<1>2. ASSUME NEW p \in Procs, NEW k \in Keys, NEW tags \in SUBSET Tags, NEW ttl \in TTLs,
             NEW from \in Bounds, NEW to \in Bounds, StoreCall(p, k, tags, ttl, from, to)
      PROVE  facts' = facts /\ log' = log
  BY <1>2 DEF StoreCall
<1>3. ASSUME NEW p \in Procs, NEW k \in Keys \cup {NoKey}, NEW tags \in SUBSET Tags,
             ForgetCall(p, k, tags)
      PROVE  facts' = facts /\ log' = log
  BY <1>3 DEF ForgetCall
<1>4. ASSUME NEW p \in Procs, Stamp(p) \/ ReadLog(p) \/ Rescanned(p) \/ Fail(p)
      PROVE  facts' = facts /\ log' = log
  BY <1>4 DEF Stamp, ReadLog, Rescanned, Fail
<1>5. ASSUME NEW p \in Procs, Reset(p) \/ Prune(p)
      PROVE  facts' \subseteq facts /\ log' = log
  BY <1>5 DEF Reset, Prune, PurgeExpired
<1>6. ASSUME NEW p \in Procs, AppendLog(p)
      PROVE  facts' = facts /\ \E w \in LogType : log' = Append(log, w)
  <2>1. todo[p] \in Seq(Steps) /\ todo[p] # <<>> /\ Head(todo[p]).do = "append"
    BY <1>6 DEF AppendLog, At, Idle, IInv, TypeOK
  <2>2. Head(todo[p]).e \in EntryType
    BY <2>1, StepKinds
  <2> QED
    BY <1>6, <2>2, WrittenEntry DEF AppendLog
<1>7. ASSUME NEW p \in Procs, ApplyIndex(p)
      PROVE  /\ log' = log
             /\ \E e \in EntryType, line \in 1..Len(log) :
                   /\ Named(e) /\ Timed(e) /\ log[line] = Written(e)
                   /\ facts' = ApplyEntry(facts, e, line)
  <2> DEFINE q == todo[p]
             s == Head(q)
  <2>1. q \in Seq(Steps) /\ q # <<>> /\ s.do = "apply" /\ GoodCall(q, log)
    BY <1>7 DEF ApplyIndex, At, Idle, IInv, TypeOK, GoodCalls
  <2>2. s \in Steps /\ s = q[1] /\ GoodStep(q, 1, log)
    BY <2>1 DEF GoodCall
  <2>3. /\ s.e \in EntryType /\ Named(s.e) /\ Timed(s.e)
        /\ s.line \in 1..Len(log) /\ log[s.line] = Written(s.e)
    BY <2>1, <2>2, StepKinds DEF GoodStep
  <2>4. log' = log /\ facts' = ApplyEntry(facts, s.e, s.line)
    BY <1>7 DEF ApplyIndex
  <2> HIDE DEF q, s
  <2> QED
    BY <2>3, <2>4
<1> QED
  BY <1>1, <1>2, <1>3, <1>4, <1>5, <1>6, <1>7 DEF Next

\* An entry that is in order, or has started by the moment m, applied.
LEMMA ApplyRowAt ==
    ASSUME NEW S \in SUBSET VersionType(Keys, Tags), \A v \in S : WellFormed(v),
           NEW m \in Moment, RowAt(S, m),
           NEW e \in EntryType, Named(e), Timed(e), NEW line \in Nat,
           \/ ~Inverted(Written(e))
           \/ Sec(e.vf) <= m /\ Sec(e.updated) <= m
    PROVE  RowAt(ApplyEntry(S, e, line), m)
<1>1. /\ e.op \in {"store", "delete", "delete_tags"}
      /\ e.updated \in Nat /\ e.vf \in Nat /\ e.vt \in Nat /\ e.ttl \in Int
      /\ e.tags \in SUBSET Tags /\ e.updated >= Resolution
  BY DEF EntryType, Ticks, Timed
<1>2. CASE e.op = "store"
  <2> DEFINE f == [key |-> e.key, line |-> line, tags |-> e.tags, ttl |-> e.ttl,
                   updated |-> e.updated, vf |-> e.vf, vt |-> e.vt]
  <2>1. f \in Call(Keys, Tags) /\ f.vf = e.vf /\ f.vt = e.vt /\ f.updated = e.updated
    BY <1>1, <1>2 DEF Call, FactType, Ticks, Timed, Named
  <2>2. ApplyEntry(S, e, line) = Put(S, f)
    BY <1>2 DEF ApplyEntry
  <2> HIDE DEF f
  <2>3. Sec(ValidFrom(f)) = IF Sec(e.vf) = Zero THEN Sec(e.updated) ELSE Sec(e.vf)
    BY <1>1, <2>1, SecPositive, SecZero DEF ValidFrom, Timed
  <2>4. \/ ~(Sec(e.vt) # Zero /\ Sec(e.vt) < Sec(ValidFrom(f)))
        \/ Sec(ValidFrom(f)) <= m
    BY <1>2, <2>3, WrittenEntry DEF Inverted
  <2>5. /\ Sec(e.vt) \in Nat /\ Sec(ValidFrom(f)) \in Nat
        /\ e.vt # Zero => Sec(e.vt) # Zero
    BY <2>1, CallFrom
  <2>6. f.vt = Zero \/ Sec(ValidFrom(f)) <= Sec(f.vt) \/ Sec(ValidFrom(f)) <= m
    BY <2>1, <2>4, <2>5
  <2> QED
    BY <2>1, <2>2, <2>6, PutRowAt
<1>3. CASE e.op # "store"
  <2>1. PICK D \in SUBSET S : ApplyEntry(S, e, line) = Forget(S, D, e.updated)
    BY <1>1, <1>3 DEF ApplyEntry, DeleteByEntity, DeleteByTags
  <2>2. Sec(e.updated) # Zero
    BY <1>1, SecPositive
  <2>3. ASSUME NEW w \in Forget(S, D, e.updated), Believed(w)
        PROVE  w \in S
    <3>1. CASE \E p \in D : w = [p EXCEPT !.deleted = Sec(e.updated), !.tt = Sec(e.updated)]
      BY <2>2, <2>3, <3>1 DEF Believed, VersionType
    <3> QED
      BY <3>1 DEF Forget
  <2> QED
    BY <2>1, <2>3 DEF RowAt
<1> QED
  BY <1>2, <1>3

\* OneRow in every reachable state, as long as the log holds no inverted entry.
RowInv == (\A i \in 1..Len(log) : ~Inverted(log[i])) => OneRowIn(facts)

\* Every step keeps it.
LEMMA NextRowInv == IInv /\ RowInv /\ [Next]_vars => RowInv'
<1> SUFFICES ASSUME IInv, RowInv, [Next]_vars, \A i \in 1..Len(log') : ~Inverted(log'[i])
             PROVE  OneRowIn(facts')
  BY DEF RowInv
<1>1. /\ log \in Seq(LogType) /\ facts \in SUBSET VersionType(Keys, Tags)
      /\ \A v \in facts : WellFormed(v)
  BY DEF IInv, TypeOK, GoodRows
<1>2. CASE facts' \subseteq facts /\ log' = log
  BY <1>2 DEF RowInv, OneRowIn, RowAt
<1>3. CASE facts' \subseteq facts /\ \E w \in LogType : log' = Append(log, w)
  <2>1. PICK w \in LogType : log' = Append(log, w)
    BY <1>3
  <2>2. Len(log') = Len(log) + 1 /\ Len(log) \in Nat /\ \A i \in 1..Len(log) : log'[i] = log[i]
    BY <1>1, <2>1
  <2>3. \A i \in 1..Len(log) : ~Inverted(log[i])
    BY <2>2
  <2> QED
    BY <1>3, <2>3 DEF RowInv, OneRowIn, RowAt
<1>4. CASE /\ log' = log
           /\ \E e \in EntryType, line \in 1..Len(log) :
                 /\ Named(e) /\ Timed(e) /\ log[line] = Written(e)
                 /\ facts' = ApplyEntry(facts, e, line)
  <2>1. PICK e \in EntryType, line \in 1..Len(log) :
                 /\ Named(e) /\ Timed(e) /\ log[line] = Written(e)
                 /\ facts' = ApplyEntry(facts, e, line)
    BY <1>4
  <2>2. ~Inverted(Written(e)) /\ OneRowIn(facts) /\ line \in Nat
    BY <1>4, <2>1 DEF RowInv
  <2>3. ASSUME NEW m \in Moment
        PROVE  RowAt(facts', m)
    <3>1. RowAt(facts, m)
      BY <2>2 DEF OneRowIn
    <3> QED
      BY <1>1, <2>1, <2>2, <3>1, ApplyRowAt
  <2> QED
    BY <2>3 DEF OneRowIn
<1> QED
  BY <1>2, <1>3, <1>4, RowsChange

\* A key never has two believed rows about a moment, unless an entry was stored
\* that ends before it starts: the copies Put makes on either side of what it
\* cuts stay apart, with any number of processes and through every failure.
THEOREM OrderedOneRowAlways == Spec => []OrderedOneRow
<1>1. Init => RowInv
  BY DEF Init, RowInv, OneRowIn, RowAt
<1>2. RowInv => OrderedOneRow
  BY MomentsAreMoments DEF RowInv, OneRowIn, RowAt, OneRow, OrderedOneRow
<1> QED
  BY <1>1, <1>2, Invariance, NextRowInv, PTL DEF Spec

-----------------------------------------------------------------------------
(* What one process on the directory may promise besides: the answers as of *)
(* earlier moments.  Its calls are stamped in the order they are made, so   *)
(* every entry applied is as late as anything the index holds: Put and the  *)
(* deletes then leave every earlier answer as it was.                       *)

-----------------------------------------------------------------------------
(* An entry as late as the rows it meets.                                   *)

\* Never two contents of a key about a moment, as of any time.
OneAtIn(S) ==
    \A k : \A m \in Moment, t \in Nat : \A x, y \in BeliefAt(S, k, t, m) : x = y

StampedIn(S, t) == \A v \in S : Stamped(v, t)

\* The rows that hold when e is applied to S: rows of Put for a store, marked
\* rows for a tombstone.
LEMMA ApplyForms ==
    ASSUME NEW S \in SUBSET VersionType(Keys, Tags),
           NEW e \in EntryType, Named(e), Timed(e), NEW line \in Nat
    PROVE  /\ e.updated \in Nat /\ e.updated >= Resolution /\ Sec(e.updated) \in Nat \ {Zero}
           /\ \/ \E f \in Call(Keys, Tags) :
                    /\ f.updated = e.updated /\ ApplyEntry(S, e, line) = Put(S, f)
              \/ \E D \in SUBSET S :
                    /\ \A p \in D : Believed(p)
                    /\ ApplyEntry(S, e, line) = Forget(S, D, e.updated)
<1>1. /\ e.op \in {"store", "delete", "delete_tags"}
      /\ e.updated \in Nat /\ e.vf \in Nat /\ e.vt \in Nat /\ e.ttl \in Int
      /\ e.tags \in SUBSET Tags /\ e.updated >= Resolution
  BY DEF EntryType, Ticks, Timed
<1>2. Sec(e.updated) \in Nat \ {Zero}
  BY <1>1, SecType, SecPositive
<1>3. CASE e.op = "store"
  <2> DEFINE f == [key |-> e.key, line |-> line, tags |-> e.tags, ttl |-> e.ttl,
                   updated |-> e.updated, vf |-> e.vf, vt |-> e.vt]
  <2>1. f \in Call(Keys, Tags)
    BY <1>1, <1>3 DEF Call, FactType, Ticks, Timed, Named
  <2>2. ApplyEntry(S, e, line) = Put(S, f)
    BY <1>3 DEF ApplyEntry
  <2>3. f.updated = e.updated
    OBVIOUS
  <2> HIDE DEF f
  <2> QED
    BY <1>1, <1>2, <2>1, <2>2, <2>3
<1>4. CASE e.op # "store"
  <2>1. CASE e.op = "delete"
    BY <1>1, <1>2, <2>1 DEF ApplyEntry, DeleteByEntity
  <2>2. CASE e.op = "delete_tags"
    BY <1>1, <1>2, <2>2 DEF ApplyEntry, DeleteByTags
  <2> QED
    BY <1>1, <1>4, <2>1, <2>2
<1> QED
  BY <1>3, <1>4

\* The rows stay as late as the entry.
LEMMA ApplyStamps ==
    ASSUME NEW S \in SUBSET VersionType(Keys, Tags), \A v \in S : WellFormed(v),
           NEW e \in EntryType, Named(e), Timed(e), NEW line \in Nat,
           StampedIn(S, Sec(e.updated))
    PROVE  StampedIn(ApplyEntry(S, e, line), Sec(e.updated))
<1>1. CASE \E f \in Call(Keys, Tags) :
              f.updated = e.updated /\ ApplyEntry(S, e, line) = Put(S, f)
  BY <1>1, PutKeepsRows DEF StampedIn
<1>2. CASE \E D \in SUBSET S : ApplyEntry(S, e, line) = Forget(S, D, e.updated)
  <2>1. e.updated \in Nat /\ e.updated >= Resolution
    BY ApplyForms
  <2> QED
    BY <1>2, <2>1, ForgetKeepsRows DEF StampedIn
<1> QED
  BY <1>1, <1>2, ApplyForms

\* An entry leaves the answers as of the times before it.
LEMMA ApplyPast ==
    ASSUME NEW S \in SUBSET VersionType(Keys, Tags),
           NEW e \in EntryType, Named(e), Timed(e), NEW line \in Nat,
           NEW k, NEW m, NEW t \in Nat, t < Sec(e.updated)
    PROVE  BeliefAt(ApplyEntry(S, e, line), k, t, m) = BeliefAt(S, k, t, m)
<1>1. CASE \E f \in Call(Keys, Tags) :
              f.updated = e.updated /\ ApplyEntry(S, e, line) = Put(S, f)
  BY <1>1, PutPast
<1>2. CASE \E D \in SUBSET S : /\ \A p \in D : Believed(p)
                               /\ ApplyEntry(S, e, line) = Forget(S, D, e.updated)
  <2>1. e.updated \in Nat /\ e.updated >= Resolution
    BY ApplyForms
  <2> QED
    BY <1>2, <2>1, ForgetPast
<1> QED
  BY <1>1, <1>2, ApplyForms

\* One content as of every time, the time of the entry included.
LEMMA ApplyOneAt ==
    ASSUME NEW S \in SUBSET VersionType(Keys, Tags), \A v \in S : WellFormed(v), OneAtIn(S),
           NEW e \in EntryType, Named(e), Timed(e), NEW line \in Nat,
           StampedIn(S, Sec(e.updated)),
           ApplyEntry(S, e, line) \in SUBSET VersionType(Keys, Tags),
           \A v \in ApplyEntry(S, e, line) : WellFormed(v),
           OneIn(ApplyEntry(S, e, line))
    PROVE  OneAtIn(ApplyEntry(S, e, line))
<1> DEFINE R == ApplyEntry(S, e, line)
<1> SUFFICES ASSUME NEW k, NEW m \in Moment, NEW t \in Nat,
                    NEW x \in BeliefAt(R, k, t, m), NEW y \in BeliefAt(R, k, t, m)
             PROVE  x = y
  BY DEF OneAtIn
<1>1. Sec(e.updated) \in Nat
  BY ApplyForms
<1>2. StampedIn(R, Sec(e.updated))
  BY ApplyStamps
<1>3. CASE t < Sec(e.updated)
  <2>1. BeliefAt(R, k, t, m) = BeliefAt(S, k, t, m)
    BY <1>3, ApplyPast
  <2> HIDE DEF R
  <2>2. x \in BeliefAt(S, k, t, m) /\ y \in BeliefAt(S, k, t, m)
    BY <2>1
  <2> QED
    BY <2>2 DEF OneAtIn
<1> HIDE DEF R
<1>4. CASE ~(t < Sec(e.updated))
  <2>1. \A v \in R : Stamped(v, t)
    BY <1>1, <1>2, <1>4 DEF StampedIn, Stamped, R, VersionType, Ticks
  <2>2. BeliefAt(R, k, t, m) = Belief(R, k, m)
    BY <2>1, AsOfNow DEF R
  <2> QED
    BY <2>2 DEF OneIn, R
<1> QED
  BY <1>3, <1>4

-----------------------------------------------------------------------------
(* Calls stamped in order.                                                  *)

\* A step that writes an entry, to the log or to the index.
Writing(s) == s.do \in {"append", "apply"}

\* What is left of a call, on an index S and a log l at the time now: its
\* entries are in order of time, as late as the rows and the log, and a rescan
\* reads the log with the tables dropped.
InOrder(q, S, l, now) ==
    /\ \A i \in DOMAIN q : Writing(q[i]) =>
          /\ q[i].e.updated <= now
          /\ StampedIn(S, Sec(q[i].e.updated))
    /\ \A i \in DOMAIN q : q[i].do = "append" =>
          \A j \in 1..Len(l) : l[j].updated <= Sec(q[i].e.updated)
    /\ \A i, j \in DOMAIN q :
          i <= j /\ Writing(q[i]) /\ Writing(q[j]) => q[i].e.updated <= q[j].e.updated
    /\ \A i \in DOMAIN q : q[i].do = "read" => S = {} /\ DOMAIN q = {1}

\* A call none of whose steps writes or reads.
LEMMA NothingLeft ==
    ASSUME NEW q, NEW S, NEW l, NEW now,
           \A i \in DOMAIN q : q[i].do \in {"stamp", "done"}
    PROVE  InOrder(q, S, l, now)
  BY DEF InOrder, Writing

\* Later, and with fewer rows, a call is in order still.
LEMMA OrderLasts ==
    ASSUME NEW q \in Seq(Steps), NEW S, NEW T \in SUBSET S, NEW l,
           NEW now \in Nat, NEW then \in Nat, now <= then,
           InOrder(q, S, l, now)
    PROVE  InOrder(q, T, l, then)
<1>1. \A i \in DOMAIN q : Writing(q[i]) => q[i].e.updated \in Nat
  <2> SUFFICES ASSUME NEW i \in DOMAIN q, Writing(q[i])
               PROVE  q[i].e.updated \in Nat
    OBVIOUS
  <2>1. q[i] \in Steps
    OBVIOUS
  <2>2. q[i].e \in EntryType
    BY <2>1, StepKinds DEF Writing
  <2> QED
    BY <2>2 DEF EntryType, Ticks
<1>2. \A i \in DOMAIN q : Writing(q[i]) => q[i].e.updated <= then
  BY <1>1 DEF InOrder
<1>3. \A i \in DOMAIN q : Writing(q[i]) => StampedIn(T, Sec(q[i].e.updated))
  BY DEF InOrder, StampedIn
<1>4. \A i \in DOMAIN q : q[i].do = "read" => T = {} /\ DOMAIN q = {1}
  BY DEF InOrder
<1> QED
  BY <1>2, <1>3, <1>4 DEF InOrder

\* A call whose entries are all stamped now.
LEMMA WrittenNow ==
    ASSUME NEW q, NEW S, NEW l, NEW now \in Nat,
           \A i \in DOMAIN q : Writing(q[i]) /\ q[i].e.updated = now,
           StampedIn(S, Sec(now)), \A j \in 1..Len(l) : l[j].updated <= Sec(now)
    PROVE  InOrder(q, S, l, now)
  BY DEF InOrder, Writing

\* What is left when the first step is done: the steps after it, as they were
\* but for a line, on an index T and a log n that are as late as the first.
LEMMA OrderStep ==
    ASSUME NEW q \in Seq(Steps), q # <<>>, NEW t, DOMAIN t = 1..(Len(q) - 1),
           \A i \in 1..(Len(q) - 1) :
              t[i].do = q[i + 1].do /\ (Writing(q[i + 1]) => t[i].e = q[i + 1].e),
           NEW S, NEW l, NEW now, InOrder(q, S, l, now), Writing(q[1]),
           NEW T, StampedIn(T, Sec(q[1].e.updated)), T \in SUBSET VersionType(Keys, Tags),
           NEW n, \A j \in 1..Len(n) : \/ n[j].updated = Sec(q[1].e.updated)
                                       \/ j \in 1..Len(l) /\ n[j] = l[j]
    PROVE  InOrder(t, T, n, now)
<1>1. /\ Len(q) \in Nat \ {0} /\ DOMAIN q = 1..Len(q)
      /\ \A i \in 1..(Len(q) - 1) : i + 1 \in DOMAIN q /\ i \in Nat \ {0} /\ 1 <= i + 1
      /\ 1 \in DOMAIN q
  OBVIOUS
<1>2. \A i \in DOMAIN q : q[i] \in Steps
  BY <1>1
<1>3. \A i \in DOMAIN q : Writing(q[i]) => q[i].e.updated \in Nat /\ Sec(q[i].e.updated) \in Nat
  <2> SUFFICES ASSUME NEW i \in DOMAIN q, Writing(q[i])
               PROVE  q[i].e.updated \in Nat /\ Sec(q[i].e.updated) \in Nat
    OBVIOUS
  <2>1. q[i].e \in EntryType
    BY <1>2, StepKinds DEF Writing
  <2> QED
    BY <2>1, SecType DEF EntryType, Ticks
<1>4. \A i \in DOMAIN t : Writing(t[i]) => Writing(q[i + 1]) /\ t[i].e = q[i + 1].e
  BY DEF Writing
<1>5. \A i \in DOMAIN t : Writing(t[i]) =>
         /\ q[1].e.updated <= t[i].e.updated
         /\ t[i].e.updated <= now
         /\ t[i].e.updated \in Nat
  BY <1>1, <1>3, <1>4 DEF InOrder
<1>6. \A i \in DOMAIN t : Writing(t[i]) => Sec(q[1].e.updated) <= Sec(t[i].e.updated)
  BY <1>1, <1>3, <1>5, SecMonotone
<1>7. \A i \in DOMAIN t : Writing(t[i]) => StampedIn(T, Sec(t[i].e.updated))
  <2> SUFFICES ASSUME NEW i \in DOMAIN t, Writing(t[i]), NEW v \in T
               PROVE  Stamped(v, Sec(t[i].e.updated))
    BY DEF StampedIn
  <2>1. v.tf \in Nat /\ v.tt \in Nat
    BY DEF VersionType, Ticks
  <2>2. Sec(t[i].e.updated) \in Nat /\ Sec(q[1].e.updated) \in Nat
    BY <1>1, <1>3, <1>5, SecType
  <2> QED
    BY <1>6, <2>1, <2>2 DEF StampedIn, Stamped
<1>8. \A i \in DOMAIN t : t[i].do = "append" =>
         \A j \in 1..Len(n) : n[j].updated <= Sec(t[i].e.updated)
  <2> SUFFICES ASSUME NEW i \in DOMAIN t, t[i].do = "append", NEW j \in 1..Len(n)
               PROVE  n[j].updated <= Sec(t[i].e.updated)
    OBVIOUS
  <2>1. Writing(t[i]) /\ q[i + 1].do = "append" /\ i + 1 \in DOMAIN q
    BY <1>1 DEF Writing
  <2> QED
    BY <1>4, <1>6, <2>1 DEF InOrder
<1>9. \A i, j \in DOMAIN t :
         i <= j /\ Writing(t[i]) /\ Writing(t[j]) => t[i].e.updated <= t[j].e.updated
  <2> SUFFICES ASSUME NEW i \in DOMAIN t, NEW j \in DOMAIN t, i <= j,
                      Writing(t[i]), Writing(t[j])
               PROVE  t[i].e.updated <= t[j].e.updated
    OBVIOUS
  <2>1. i + 1 \in DOMAIN q /\ j + 1 \in DOMAIN q /\ i + 1 <= j + 1
    BY <1>1
  <2> QED
    BY <1>4, <2>1 DEF InOrder
<1>10. \A i \in DOMAIN t : t[i].do # "read"
  <2> SUFFICES ASSUME NEW i \in DOMAIN t, t[i].do = "read"
               PROVE  FALSE
    OBVIOUS
  <2>1. q[i + 1].do = "read" /\ i + 1 \in DOMAIN q
    BY <1>1
  <2>2. DOMAIN q = {1}
    BY <2>1 DEF InOrder
  <2>3. i + 1 = 1 /\ i \in Nat \ {0}
    BY <1>1, <2>1, <2>2
  <2> QED
    BY <2>3
<1> QED
  BY <1>5, <1>7, <1>8, <1>9, <1>10 DEF InOrder

\* The replay of a log no later than now, on an empty index.
LEMMA ReplayInOrder ==
    ASSUME NEW l \in Seq(LogType), NEW now \in Nat,
           \A i \in 1..Len(l) : l[i].updated <= now,
           NEW steps \in Replay(l, now)
    PROVE  InOrder(Append(steps, [do |-> "done"]), {}, l, now)
<1> DEFINE kept == {i \in 1..Len(l) : ~(/\ l[i].op = "store" /\ l[i].ttl > 0
                                        /\ l[i].updated + Seconds(l[i].ttl) < now)}
           n == Cardinality(kept)
           Earlier(i, j) == \/ l[i].updated < l[j].updated
                            \/ l[i].updated = l[j].updated /\ i < j
           done == [do |-> "done"]
           q == Append(steps, done)
<1>1. n \in Nat
  <2>1. IsFiniteSet(1..Len(l))
    BY FS_Interval
  <2>2. kept \subseteq 1..Len(l)
    OBVIOUS
  <2> HIDE DEF kept
  <2> QED
    BY <2>1, <2>2, FS_Subset, FS_CardinalityType
<1>2. PICK s \in [1..n -> kept] :
         /\ steps = Applying(l, s)
         /\ \A i, j \in DOMAIN s : i < j => Earlier(s[i], s[j])
  BY DEF Replay
<1>3. \A i \in 1..n : s[i] \in 1..Len(l)
  BY <1>2
<1> HIDE DEF n, kept
<1>4. \A i \in 1..n : l[s[i]].updated \in Nat /\ l[s[i]].updated <= now
  BY <1>3, SMTT(30) DEF LogType, EntryType, Ticks
<1>5. steps = [i \in 1..n |-> [do |-> "apply", e |-> l[s[i]], line |-> s[i]]]
  BY <1>2 DEF Applying
<1>6. \A i, j \in 1..n : i <= j => l[s[i]].updated <= l[s[j]].updated
  <2> SUFFICES ASSUME NEW i \in 1..n, NEW j \in 1..n, i <= j
               PROVE  l[s[i]].updated <= l[s[j]].updated
    OBVIOUS
  <2>1. CASE i = j
    BY <1>4, <2>1
  <2>2. CASE i < j
    BY <1>2, <1>4, <2>2
  <2> QED
    BY <2>1, <2>2
<1>7. /\ Len(steps) = n /\ DOMAIN q = 1..(n + 1)
      /\ \A i \in 1..n : q[i] = [do |-> "apply", e |-> l[s[i]], line |-> s[i]]
      /\ q[n + 1] = done
  <2> DEFINE T == {[do |-> "apply", e |-> l[s[i]], line |-> s[i]] : i \in 1..n} \cup {done}
  <2> HIDE DEF done
  <2>1. steps \in [1..n -> T]
    BY <1>5
  <2>2. \A i \in 1..n : steps[i] = [do |-> "apply", e |-> l[s[i]], line |-> s[i]]
    BY <1>5
  <2>3. done \in T
    OBVIOUS
  <2> HIDE DEF T
  <2>4. steps \in Seq(T)
    BY <1>1, <2>1, SeqDef
  <2>5. Len(steps) = n
    BY <1>1, <2>1, <2>4, LenProperties
  <2> QED
    BY <1>1, <2>2, <2>3, <2>4, <2>5, AppendProperties
<1>8. /\ DOMAIN q = 1..(n + 1)
      /\ \A i \in 1..(n + 1) : Writing(q[i]) =>
            i \in 1..n /\ q[i].do = "apply" /\ q[i].e = l[s[i]]
      /\ \A i \in 1..(n + 1) : q[i].do \in {"apply", "done"}
  <2>3. \A i \in 1..(n + 1) : i = n + 1 \/ i \in 1..n
    BY <1>1
  <2> HIDE DEF q
  <2>4. ASSUME NEW i \in 1..n
        PROVE  q[i].do = "apply" /\ q[i].e = l[s[i]]
    <3>1. q[i] = [do |-> "apply", e |-> l[s[i]], line |-> s[i]]
      BY <1>7
    <3> QED
      BY <3>1
  <2>5. q[n + 1].do = "done" /\ ~Writing(q[n + 1])
    BY <1>7 DEF Writing
  <2> QED
    BY <1>7, <2>3, <2>4, <2>5
<1> HIDE DEF q
<1>9. InOrder(q, {}, l, now)
  BY <1>4, <1>6, <1>8, SMTT(30) DEF InOrder, StampedIn
<1> QED
  BY <1>9 DEF q

-----------------------------------------------------------------------------
(* The inductive invariant: everything is in order of time.                 *)

OrderInv ==
    /\ \A p \in Procs : InOrder(todo[p], facts, log, clock)
    /\ StampedIn(facts, Sec(clock))
    /\ \A i \in 1..Len(log) : log[i].updated <= Sec(clock)
    /\ \A i, j \in 1..Len(log) : i <= j => log[i].updated <= log[j].updated
    /\ OneAtIn(facts)

\* One process at a time on the directory.
OneProcess == \E p : Procs = {p}

\* A step that only changes what is left of the call.
LEMMA OrderCall ==
    ASSUME IInv, OrderInv, OneProcess, NEW p \in Procs, NEW q,
           todo' = [todo EXCEPT ![p] = q], InOrder(q, facts, log, clock),
           UNCHANGED <<clock, log, facts>>
    PROVE  OrderInv'
<1>1. \A r \in Procs : todo'[r] = q
  BY DEF IInv, TypeOK, OneProcess
<1> QED
  BY <1>1 DEF OrderInv

\* Time passes: what is in order stays in order.
LEMMA OrderTick ==
    ASSUME IInv, OrderInv, Tick
    PROVE  OrderInv'
<1>1. /\ clock \in Nat /\ clock' \in Nat /\ clock <= clock'
      /\ UNCHANGED <<log, facts, todo>>
  BY DEF Tick, IInv, TypeOK, Ticks
<1>2. Sec(clock) \in Nat /\ Sec(clock') \in Nat /\ Sec(clock) <= Sec(clock')
  BY <1>1, SecType, SecMonotone
<1>3. \A p \in Procs : InOrder(todo'[p], facts', log', clock')
  <2> SUFFICES ASSUME NEW p \in Procs
               PROVE  InOrder(todo'[p], facts', log', clock')
    OBVIOUS
  <2>1. todo[p] \in Seq(Steps) /\ InOrder(todo[p], facts, log, clock)
    BY DEF IInv, TypeOK, OrderInv
  <2>2. InOrder(todo[p], facts, log, clock')
    BY <1>1, <2>1, OrderLasts
  <2> QED
    BY <1>1, <2>2
<1>4. StampedIn(facts', Sec(clock'))
  <2> SUFFICES ASSUME NEW v \in facts
               PROVE  Stamped(v, Sec(clock'))
    BY <1>1 DEF StampedIn
  <2>1. v.tf \in Nat /\ v.tt \in Nat
    BY DEF IInv, TypeOK, VersionType, Ticks
  <2> QED
    BY <1>2, <2>1 DEF OrderInv, StampedIn, Stamped
<1>5. \A i \in 1..Len(log') : log'[i].updated <= Sec(clock')
  <2> SUFFICES ASSUME NEW i \in 1..Len(log)
               PROVE  log[i].updated <= Sec(clock')
    BY <1>1
  <2>1. log[i].updated \in Nat
    BY DEF IInv, TypeOK, LogType, EntryType, Ticks
  <2> QED
    BY <1>2, <2>1 DEF OrderInv
<1> QED
  BY <1>1, <1>3, <1>4, <1>5 DEF OrderInv

\* The entries of a call that is stamped now.
LEMMA OrderWrite ==
    ASSUME IInv, OrderInv, NEW q, \A i \in DOMAIN q : Writing(q[i]) /\ q[i].e.updated = clock
    PROVE  InOrder(q, facts, log, clock)
<1>1. clock \in Nat
  BY DEF IInv, TypeOK, Ticks
<1> QED
  BY <1>1, WrittenNow DEF OrderInv

\* The two steps of a write.
LEMMA WriteSteps ==
    ASSUME NEW e, NEW i \in DOMAIN Write(e)
    PROVE  Writing(Write(e)[i]) /\ Write(e)[i].e = e
  BY DEF Write, Writing

\* memory_forget stamps both its tombstones at once.
LEMMA OrderForget ==
    ASSUME IInv, OrderInv, OneProcess, NEW p \in Procs, NEW k \in Keys \cup {NoKey},
           NEW tags \in SUBSET Tags, ForgetCall(p, k, tags)
    PROVE  OrderInv'
<1> DEFINE d == Tombstone("delete", k, {}, clock)
           t == Tombstone("delete_tags", NoKey, tags, clock)
           a == IF k # NoKey THEN Write(d) ELSE <<>>
           b == IF tags # {} THEN Write(t) ELSE <<>>
<1>1. /\ todo' = [todo EXCEPT ![p] = a \o b]
      /\ UNCHANGED <<clock, log, facts>>
  BY DEF ForgetCall
<1>2. d.updated = clock /\ t.updated = clock
  BY DEF Tombstone
<1> DEFINE W == {s \in {[do |-> "append", e |-> d], [do |-> "apply", e |-> d, line |-> 0],
                        [do |-> "append", e |-> t], [do |-> "apply", e |-> t, line |-> 0]} :
                   Writing(s) /\ s.e.updated = clock}
<1> HIDE DEF d, t
<1>3. Write(d) \in Seq(W) /\ Write(t) \in Seq(W)
  <2>1. /\ [do |-> "append", e |-> d] \in W /\ [do |-> "apply", e |-> d, line |-> 0] \in W
        /\ [do |-> "append", e |-> t] \in W /\ [do |-> "apply", e |-> t, line |-> 0] \in W
    BY <1>2 DEF Writing
  <2> HIDE DEF W
  <2> QED
    BY <2>1 DEF Write
<1>4. \A s \in W : Writing(s) /\ s.e.updated = clock
  OBVIOUS
<1> HIDE DEF W
<1>5. a \in Seq(W) /\ b \in Seq(W)
  BY <1>3
<1> HIDE DEF a, b
<1>6. a \o b \in Seq(W)
  BY <1>5
<1>7. \A i \in DOMAIN (a \o b) : (a \o b)[i] \in W
  BY <1>6
<1>8. InOrder(a \o b, facts, log, clock)
  BY <1>4, <1>7, OrderWrite
<1> QED
  BY <1>1, <1>8, OrderCall

\* What is left of a call once its first entry is in the log, at a line: the
\* same steps, the next of which names the line.
Appended(q, line) ==
    [i \in 1..(Len(q) - 1) |-> IF i = 1 THEN [q[2] EXCEPT !.line = line] ELSE q[i + 1]]

\* It is what AppendLog leaves.
LEMMA AppendedCall ==
    ASSUME NEW q \in Seq(Steps), q # <<>>, Head(q).do = "append", NEW l, GoodCall(q, l),
           NEW line \in Nat
    PROVE  LET t == Appended(q, line)
           IN  /\ Head(q) = q[1] /\ 1 \in DOMAIN q /\ q[1].e \in EntryType
               /\ DOMAIN t = 1..(Len(q) - 1) /\ 1 \in DOMAIN t
               /\ t[1].do = "apply" /\ t[1].e = q[1].e /\ t[1].line = line
               /\ \A i \in 1..(Len(q) - 1) :
                     /\ i + 1 \in DOMAIN q /\ t[i].do = q[i + 1].do
                     /\ Writing(q[i + 1]) => t[i].e = q[i + 1].e
<1> DEFINE t == Appended(q, line)
<1>1. Head(q) = q[1] /\ 1 \in DOMAIN q
  OBVIOUS
<1>2. /\ 2 \in DOMAIN q /\ q[2].do = "apply" /\ q[2].e = q[1].e
  BY <1>1 DEF GoodCall, GoodStep
<1>3. /\ DOMAIN t = 1..(Len(q) - 1) /\ 1 \in DOMAIN t
  BY <1>2 DEF Appended
<1>4. t[1].do = "apply" /\ t[1].e = q[1].e /\ t[1].line = line
  <2>1. t[1] = [q[2] EXCEPT !.line = line]
    BY <1>3 DEF Appended
  <2>2. q[2] \in Steps
    BY <1>2
  <2>3. q[2] = [do |-> "apply", e |-> q[2].e, line |-> q[2].line]
    BY <1>2, <2>2, StepKinds
  <2> QED
    BY <1>2, <2>1, <2>3
<1>5. ASSUME NEW i \in 1..(Len(q) - 1)
      PROVE  /\ i + 1 \in DOMAIN q /\ t[i].do = q[i + 1].do
             /\ Writing(q[i + 1]) => t[i].e = q[i + 1].e
  <2>1. i + 1 \in DOMAIN q
    OBVIOUS
  <2>2. CASE i = 1
    BY <1>2, <1>4, <2>1, <2>2
  <2>3. CASE i # 1
    <3>1. t[i] = q[i + 1]
      BY <2>3 DEF Appended
    <3> QED
      BY <2>1, <3>1
  <2> QED
    BY <2>2, <2>3
<1>6. q[1].e \in EntryType
  <2>1. q[1] \in Steps /\ q[1].do = "append"
    BY <1>1
  <2> QED
    BY <2>1, StepKinds
<1> HIDE DEF t
<1> QED
  BY <1>1, <1>3, <1>4, <1>5, <1>6 DEF t

\* The entry is as late as the log it joins.
LEMMA OrderAppend ==
    ASSUME IInv, OrderInv, OneProcess, NEW p \in Procs, AppendLog(p)
    PROVE  OrderInv'
<1> DEFINE q == todo[p]
           e == Head(q).e
           w == Written(e)
           t == Appended(q, Len(log) + 1)
<1>1. /\ q \in Seq(Steps) /\ q # <<>> /\ Head(q).do = "append" /\ GoodCall(q, log)
      /\ log \in Seq(LogType) /\ Len(log) + 1 \in Nat
  BY DEF AppendLog, At, Idle, IInv, TypeOK, GoodCalls
<1>2. /\ Head(q) = q[1] /\ 1 \in DOMAIN q /\ DOMAIN t = 1..(Len(q) - 1)
      /\ \A i \in 1..(Len(q) - 1) :
            t[i].do = q[i + 1].do /\ (Writing(q[i + 1]) => t[i].e = q[i + 1].e)
  BY ONLY <1>1, AppendedCall, SMTT(60)
<1>3. /\ log' = Append(log, w) /\ todo' = [todo EXCEPT ![p] = t]
      /\ UNCHANGED <<clock, facts>>
  BY DEF AppendLog, Appended
<1>4. Writing(q[1]) /\ q[1].e = e
  BY <1>1, <1>2 DEF Writing
<1>5. /\ e \in EntryType /\ w \in LogType /\ w.updated = Sec(e.updated)
  BY <1>1, StepKinds, WrittenEntry
<1>6. /\ Len(log) \in Nat /\ Len(log') = Len(log) + 1 /\ log'[Len(log) + 1] = w
      /\ \A j \in 1..Len(log) : log'[j] = log[j]
  BY <1>1, <1>3, <1>5
<1>7. \A j \in 1..Len(log') : j = Len(log) + 1 \/ j \in 1..Len(log)
  BY <1>6
<1>8. InOrder(q, facts, log, clock)
  BY DEF OrderInv
<1>9. InOrder(t, facts, log', clock)
  <2>1. \A j \in 1..Len(log') : \/ log'[j].updated = Sec(q[1].e.updated)
                                \/ j \in 1..Len(log) /\ log'[j] = log[j]
    BY <1>4, <1>5, <1>6, <1>7
  <2>2. StampedIn(facts, Sec(q[1].e.updated)) /\ facts \in SUBSET VersionType(Keys, Tags)
    BY <1>2, <1>4, <1>8 DEF InOrder, IInv, TypeOK
  <2> HIDE DEF q, t
  <2> QED
    BY <1>1, <1>2, <1>4, <1>8, <2>1, <2>2, OrderStep, SMTT(30)
<1>10. Sec(e.updated) <= Sec(clock) /\ \A j \in 1..Len(log) : log[j].updated <= Sec(e.updated)
  <2>1. e.updated \in Nat /\ clock \in Nat /\ e.updated <= clock
    BY <1>2, <1>4, <1>5, <1>8 DEF InOrder, EntryType, Ticks, IInv, TypeOK
  <2>2. \A j \in 1..Len(log) : log[j].updated <= Sec(q[1].e.updated)
    BY <1>1, <1>2, <1>4, <1>8 DEF InOrder
  <2> QED
    BY <1>4, <2>1, <2>2, SecMonotone
<1> HIDE DEF q, t, w, e
<1>11. \A i \in 1..Len(log') : log'[i].updated <= Sec(clock)
  BY <1>5, <1>6, <1>7, <1>10 DEF OrderInv
<1>12. \A i, j \in 1..Len(log') : i <= j => log'[i].updated <= log'[j].updated
  <2> SUFFICES ASSUME NEW i \in 1..Len(log'), NEW j \in 1..Len(log'), i <= j
               PROVE  log'[i].updated <= log'[j].updated
    OBVIOUS
  <2>1. CASE j \in 1..Len(log)
    <3>1. i \in 1..Len(log)
      BY <1>6, <2>1
    <3> QED
      BY <1>6, <2>1, <3>1 DEF OrderInv
  <2>2. CASE j = Len(log) + 1 /\ i \in 1..Len(log)
    BY <1>5, <1>6, <1>10, <2>2
  <2>3. CASE j = Len(log) + 1 /\ i = Len(log) + 1
    <3>1. log'[i].updated \in Nat
      BY <1>5, <1>6, <2>3, WrittenEntry DEF LogType, EntryType, Ticks
    <3> QED
      BY <2>3, <3>1
  <2> QED
    BY <1>7, <2>1, <2>2, <2>3
<1>13. \A r \in Procs : todo'[r] = t
  BY <1>3 DEF IInv, TypeOK, OneProcess
<1> QED
  BY <1>3, <1>9, <1>11, <1>12, <1>13 DEF OrderInv

\* The entry is as late as the rows it meets, which keeps one answer per moment.
LEMMA OrderApply ==
    ASSUME IInv, OrderInv, OneProcess, NEW p \in Procs, ApplyIndex(p), IInv'
    PROVE  OrderInv'
<1> DEFINE q == todo[p]
           s == Head(q)
<1>1. /\ q \in Seq(Steps) /\ q # <<>> /\ s.do = "apply" /\ GoodCall(q, log)
      /\ log \in Seq(LogType) /\ facts \in SUBSET VersionType(Keys, Tags)
      /\ \A v \in facts : WellFormed(v)
  BY DEF ApplyIndex, At, Idle, IInv, TypeOK, GoodCalls, GoodRows
<1>2. s \in Steps /\ s = q[1] /\ 1 \in DOMAIN q /\ GoodStep(q, 1, log) /\ Writing(q[1])
  BY <1>1 DEF GoodCall, Writing
<1>3. s.e \in EntryType /\ Named(s.e) /\ Timed(s.e) /\ s.line \in Nat
  BY <1>1, <1>2, StepKinds DEF GoodStep
<1>4. /\ facts' = ApplyEntry(facts, s.e, s.line) /\ todo' = [todo EXCEPT ![p] = Tail(q)]
      /\ UNCHANGED <<clock, log>>
  BY DEF ApplyIndex
<1>5. /\ facts' \in SUBSET VersionType(Keys, Tags) /\ \A v \in facts' : WellFormed(v)
      /\ OneIn(facts')
  BY DEF IInv, TypeOK, GoodRows
<1>6. InOrder(q, facts, log, clock) /\ StampedIn(facts, Sec(s.e.updated)) /\ OneAtIn(facts)
  BY <1>2 DEF OrderInv, InOrder
<1>7. StampedIn(facts', Sec(s.e.updated))
  BY <1>1, <1>3, <1>4, <1>6, ApplyStamps
<1>8. OneAtIn(facts')
  BY <1>1, <1>3, <1>4, <1>5, <1>6, ApplyOneAt
<1>9. InOrder(Tail(q), facts', log, clock)
  <2>1. /\ DOMAIN Tail(q) = 1..(Len(q) - 1)
        /\ \A i \in 1..(Len(q) - 1) : Tail(q)[i] = q[i + 1]
    BY <1>1
  <2>2. \A j \in 1..Len(log) : j \in 1..Len(log) /\ log[j] = log[j]
    OBVIOUS
  <2>3. StampedIn(facts', Sec(q[1].e.updated))
    BY <1>2, <1>7
  <2> HIDE DEF q, s
  <2> QED
    BY <1>1, <1>2, <1>5, <1>6, <2>1, <2>2, <2>3, OrderStep
<1>10. StampedIn(facts', Sec(clock))
  <2>1. s.e.updated \in Nat /\ clock \in Nat /\ s.e.updated <= clock
    BY <1>2, <1>3, <1>6 DEF InOrder, EntryType, Ticks, IInv, TypeOK
  <2>2. Sec(s.e.updated) \in Nat /\ Sec(clock) \in Nat /\ Sec(s.e.updated) <= Sec(clock)
    BY <2>1, SecMonotone, SecType
  <2> SUFFICES ASSUME NEW v \in facts'
               PROVE  Stamped(v, Sec(clock))
    BY DEF StampedIn
  <2>3. v.tf \in Nat /\ v.tt \in Nat /\ Stamped(v, Sec(s.e.updated))
    BY <1>5, <1>7 DEF VersionType, Ticks, StampedIn
  <2> HIDE DEF s
  <2> QED
    BY <2>2, <2>3 DEF Stamped
<1> HIDE DEF q, s
<1>11. \A r \in Procs : todo'[r] = Tail(q)
  BY <1>4 DEF IInv, TypeOK, OneProcess
<1> QED
  BY <1>4, <1>8, <1>9, <1>10, <1>11 DEF OrderInv

\* The tables are dropped, the log is read.
LEMMA OrderRescan ==
    ASSUME IInv, OrderInv, OneProcess, NEW p \in Procs, Reset(p) \/ ReadLog(p)
    PROVE  OrderInv'
<1>1. CASE Reset(p)
  <2>1. /\ facts' = {} /\ todo' = [todo EXCEPT ![p] = << [do |-> "read"] >>]
        /\ UNCHANGED <<clock, log>>
    BY <1>1 DEF Reset
  <2>2. InOrder(<< [do |-> "read"] >>, {}, log, clock)
    BY DEF InOrder, Writing
  <2>3. \A r \in Procs : todo'[r] = << [do |-> "read"] >>
    BY <2>1 DEF IInv, TypeOK, OneProcess
  <2>4. StampedIn({}, Sec(clock)) /\ OneAtIn({})
    BY DEF StampedIn, OneAtIn, BeliefAt
  <2> QED
    BY <2>1, <2>2, <2>3, <2>4 DEF OrderInv
<1>2. CASE ReadLog(p)
  <2>1. PICK steps \in Replay(log, clock) :
           todo' = [todo EXCEPT ![p] = Append(steps, [do |-> "done"])]
    BY <1>2 DEF ReadLog
  <2>2. todo[p] \in Seq(Steps) /\ todo[p] # <<>> /\ Head(todo[p]).do = "read"
    BY <1>2 DEF ReadLog, At, Idle, IInv, TypeOK
  <2>3. 1 \in DOMAIN todo[p] /\ todo[p][1].do = "read"
    BY <2>2
  <2>4. facts = {}
    BY <2>3 DEF OrderInv, InOrder
  <2>5. /\ log \in Seq(LogType) /\ clock \in Nat
        /\ \A i \in 1..Len(log) : log[i].updated <= clock
    <3>1. log \in Seq(LogType) /\ clock \in Nat
      BY DEF IInv, TypeOK, Ticks
    <3>2. \A i \in 1..Len(log) : log[i].updated \in Nat
      BY <3>1, SMTT(30) DEF LogType, EntryType, Ticks
    <3> QED
      BY <3>1, <3>2, SecType DEF OrderInv
  <2>6. InOrder(Append(steps, [do |-> "done"]), facts, log, clock)
    BY <2>4, <2>5, ReplayInOrder
  <2>7. UNCHANGED <<clock, log, facts>>
    BY <1>2 DEF ReadLog
  <2> QED
    BY <2>1, <2>6, <2>7, OrderCall
<1> QED
  BY <1>1, <1>2

\* Rows go, none comes.
LEMMA OrderPrune ==
    ASSUME IInv, OrderInv, NEW p \in Procs, Prune(p)
    PROVE  OrderInv'
<1>1. facts' \subseteq facts /\ UNCHANGED <<clock, log, todo>>
  BY DEF Prune, PurgeExpired
<1>2. \A r \in Procs : InOrder(todo[r], facts', log, clock)
  <2> SUFFICES ASSUME NEW r \in Procs
               PROVE  InOrder(todo[r], facts', log, clock)
    OBVIOUS
  <2>1. /\ todo[r] \in Seq(Steps) /\ clock \in Nat /\ clock <= clock
        /\ InOrder(todo[r], facts, log, clock)
    BY DEF IInv, TypeOK, OrderInv, Ticks
  <2> QED
    BY <1>1, <2>1, OrderLasts
<1>3. StampedIn(facts', Sec(clock))
  BY <1>1 DEF OrderInv, StampedIn
<1>4. OneAtIn(facts')
  <2>1. \A k, t, m : BeliefAt(facts', k, t, m) \subseteq BeliefAt(facts, k, t, m)
    BY <1>1 DEF BeliefAt
  <2> QED
    BY <2>1 DEF OrderInv, OneAtIn
<1> QED
  BY <1>1, <1>2, <1>3, <1>4 DEF OrderInv

\* Every step of one process keeps the order.
LEMMA NextOrder ==
    ASSUME IInv, OrderInv, OneProcess, [Next]_vars, IInv'
    PROVE  OrderInv'
<1>1. CASE UNCHANGED vars
  BY <1>1 DEF vars, OrderInv
<1>2. CASE Tick
  BY <1>2, OrderTick
<1>3. ASSUME NEW p \in Procs, NEW k \in Keys, NEW tags \in SUBSET Tags, NEW ttl \in TTLs,
             NEW from \in Bounds, NEW to \in Bounds, StoreCall(p, k, tags, ttl, from, to)
      PROVE  OrderInv'
  <2> DEFINE q == << [do |-> "stamp", e |-> Fact(k, tags, ttl, from, to)] >>
  <2>1. todo' = [todo EXCEPT ![p] = q] /\ UNCHANGED <<clock, log, facts>>
    BY <1>3 DEF StoreCall
  <2>2. InOrder(q, facts, log, clock)
    BY NothingLeft
  <2> HIDE DEF q
  <2> QED
    BY <2>1, <2>2, OrderCall
<1>4. ASSUME NEW p \in Procs, NEW k \in Keys \cup {NoKey}, NEW tags \in SUBSET Tags,
             ForgetCall(p, k, tags)
      PROVE  OrderInv'
  BY <1>4, OrderForget
<1>5. ASSUME NEW p \in Procs, Stamp(p)
      PROVE  OrderInv'
  <2> DEFINE e == [Head(todo[p]).e EXCEPT !.updated = clock]
  <2>1. todo' = [todo EXCEPT ![p] = Write(e)] /\ UNCHANGED <<clock, log, facts>>
    BY <1>5 DEF Stamp
  <2>2. Head(todo[p]).e \in EntryType
    <3>1. todo[p] \in Seq(Steps) /\ todo[p] # <<>> /\ Head(todo[p]).do = "stamp"
      BY <1>5 DEF Stamp, At, Idle, IInv, TypeOK
    <3> QED
      BY <3>1, StepKinds
  <2>3. e.updated = clock
    BY <2>2 DEF EntryType
  <2> HIDE DEF e
  <2>4. InOrder(Write(e), facts, log, clock)
    BY <2>3, WriteSteps, OrderWrite
  <2> QED
    BY <2>1, <2>4, OrderCall
<1>6. ASSUME NEW p \in Procs, Rescanned(p) \/ Fail(p)
      PROVE  OrderInv'
  <2>1. todo' = [todo EXCEPT ![p] = <<>>] /\ UNCHANGED <<clock, log, facts>>
    BY <1>6 DEF Rescanned, Fail
  <2>2. InOrder(<<>>, facts, log, clock)
    BY NothingLeft
  <2> QED
    BY <2>1, <2>2, OrderCall
<1>7. ASSUME NEW p \in Procs,
             AppendLog(p) \/ ApplyIndex(p) \/ Reset(p) \/ ReadLog(p) \/ Prune(p)
      PROVE  OrderInv'
  BY <1>7, OrderAppend, OrderApply, OrderRescan, OrderPrune
<1> QED
  BY <1>1, <1>2, <1>3, <1>4, <1>5, <1>6, <1>7 DEF Next

\* An empty index and an empty log are in order.
LEMMA InitOrder == Init => OrderInv
<1> SUFFICES ASSUME Init
             PROVE  OrderInv
  OBVIOUS
<1>1. \A p \in Procs : InOrder(todo[p], facts, log, clock)
  BY DEF Init, InOrder
<1> QED
  BY <1>1 DEF Init, OrderInv, StampedIn, OneAtIn, BeliefAt

\* One process stamps, writes and applies its calls in the order they are made:
\* no step of Store meets a row or an entry later than its own.
THEOREM OrderAlways ==
    ASSUME OneProcess
    PROVE  Spec => [](IInv /\ OrderInv)
<1>1. IInv /\ OrderInv /\ [Next]_vars => (IInv /\ OrderInv)'
  BY NextIInv, NextOrder
<1> QED
  BY <1>1, InitIInv, InitOrder, PTL DEF Spec

\* A key never has two contents believed about a moment, neither now nor as of
\* any earlier time: Put closes what it cuts at its own stamp and opens what is
\* left at the same, and its stamp is as late as all the index holds.
THEOREM OneAnswerAlways ==
    ASSUME OneProcess
    PROVE  Spec => []OneAnswer
<1>1. IInv /\ OrderInv => OneAnswer
  <2> SUFFICES ASSUME IInv, OrderInv
               PROVE  OneAnswer
    OBVIOUS
  <2>1. OneBelief
    BY MomentsAreMoments DEF IInv, OneIn, OneBelief
  <2>2. \A k \in Keys, t, m \in Moments : \A x, y \in BeliefAt(facts, k, t, m) : x = y
    BY MomentsAreMoments DEF OrderInv, OneAtIn, Moment
  <2> QED
    BY <2>1, <2>2 DEF OneAnswer
<1> QED
  BY <1>1, OrderAlways, PTL

-----------------------------------------------------------------------------
(* What a fold over steps computes, one step at a time.                     *)

\* The library folds over sets of places, the greatest last: h is its function
\* for the first n of the steps.
Folding(h, steps, n) ==
    h = [s \in SUBSET (1..n) |->
            IF s = {} THEN {}
            ELSE ApplyEntry(h[s \ {Max(s)}], steps[Max(s)].e, steps[Max(s)].line)]

\* The greatest of the places up to n.
LEMMA GreatestPlace ==
    ASSUME NEW n \in Nat, NEW s \in SUBSET (1..n), n \in s
    PROVE  Max(s) = n
<1>1. \E x \in s : \A y \in s : x >= y
  OBVIOUS
<1>2. Max(s) \in s /\ \A y \in s : Max(s) >= y
  BY <1>1, Zenon DEF Max
<1>3. ASSUME NEW x \in s, \A y \in s : x >= y
      PROVE  x = n
  <2>1. x \in 1..n /\ x >= n
    BY <1>3
  <2> QED
    BY <2>1
<1> QED
  BY <1>2, <1>3, Zenon

\* There is such a function, built one step after another.
LEMMA FoldingExists ==
    ASSUME NEW steps, NEW n \in Nat
    PROVE  \E h : Folding(h, steps, n)
<1> DEFINE Bad == {k \in Nat : ~ \E h : Folding(h, steps, k)}
<1> SUFFICES ASSUME Bad # {}
             PROVE  FALSE
  OBVIOUS
<1>1. PICK k \in Bad : \A j \in Bad : k <= j
  BY Least
<1>2. k # 0
  <2>1. SUBSET (1..0) = {{}}
    OBVIOUS
  <2> DEFINE h == [s \in SUBSET (1..0) |-> {}]
  <2>2. Folding(h, steps, 0)
    BY <2>1 DEF Folding
  <2> QED
    BY <2>2
<1>3. k - 1 \in Nat /\ ~(k <= k - 1)
  BY <1>2
<1>4. PICK g : Folding(g, steps, k - 1)
  BY <1>1, <1>3
<1> DEFINE Step(S, i) == ApplyEntry(S, steps[i].e, steps[i].line)
           h == [s \in SUBSET (1..k) |-> IF k \in s THEN Step(g[s \ {k}], k) ELSE g[s]]
<1>5. \A s \in SUBSET (1..k) : s \ {k} \in SUBSET (1..(k - 1))
  OBVIOUS
<1>6. \A s \in SUBSET (1..k) : k \notin s => s \in SUBSET (1..(k - 1)) /\ s \in SUBSET (1..k)
  OBVIOUS
<1>7. \A s \in SUBSET (1..(k - 1)) : k \notin s /\ s \in SUBSET (1..k)
  BY <1>3
<1>8. \A s \in SUBSET (1..(k - 1)) : g[s] = IF s = {} THEN {} ELSE Step(g[s \ {Max(s)}], Max(s))
  BY <1>4 DEF Folding
<1>9. ASSUME NEW s \in SUBSET (1..k)
      PROVE  h[s] = IF s = {} THEN {} ELSE Step(h[s \ {Max(s)}], Max(s))
  <2>1. CASE k \in s
    <3>1. Max(s) = k
      BY <1>1, <2>1, GreatestPlace
    <3>2. s \ {k} \in SUBSET (1..k) /\ k \notin s \ {k}
      OBVIOUS
    <3>3. h[s \ {k}] = g[s \ {k}]
      BY <3>2
    <3>4. h[s] = Step(g[s \ {k}], k) /\ s # {}
      BY <2>1
    <3> HIDE DEF h, Step
    <3> QED
      BY <3>1, <3>3, <3>4
  <2>2. CASE k \notin s
    <3>1. s \in SUBSET (1..(k - 1)) /\ s \ {Max(s)} \in SUBSET (1..(k - 1))
      BY <2>2, <1>6
    <3>2. h[s] = g[s] /\ h[s \ {Max(s)}] = g[s \ {Max(s)}]
      BY <1>7, <3>1
    <3> HIDE DEF h, Step
    <3> QED
      BY <1>8, <3>1, <3>2
  <2> QED
    BY <2>1, <2>2
<1>10. Folding(h, steps, k)
  <2>1. h = [s \in SUBSET (1..k) |-> h[s]]
    OBVIOUS
  <2> DEFINE f == [s \in SUBSET (1..k) |->
                     IF s = {} THEN {} ELSE Step(h[s \ {Max(s)}], Max(s))]
  <2> HIDE DEF h
  <2>2. h = f
    BY <1>9, <2>1
  <2> QED
    BY <2>2 DEF Folding
<1> QED
  BY <1>10

\* The fold of the library is what it ends with.
LEMMA FoldSteps ==
    ASSUME NEW steps, NEW n \in Nat, DOMAIN steps = 1..n
    PROVE  \E h : /\ Folding(h, steps, n)
                  /\ h[1..n] = FoldLeft(LAMBDA S, s : ApplyEntry(S, s.e, s.line), {}, steps)
<1> DEFINE k == CHOOSE h : Folding(h, steps, n)
<1>2. Folding(k, steps, n)
  BY FoldingExists
<1>3. k[1..n] = FoldLeft(LAMBDA S, s : ApplyEntry(S, s.e, s.line), {}, steps)
  BY DEF FoldLeft, MapThenFoldSet, Folding
<1> QED
  BY <1>2, <1>3

\* What it computes for the first k steps.
LEMMA FoldingStep ==
    ASSUME NEW h, NEW steps, NEW n \in Nat, Folding(h, steps, n)
    PROVE  /\ h[1..0] = {}
           /\ \A k \in 1..n : h[1..k] = ApplyEntry(h[1..(k - 1)], steps[k].e, steps[k].line)
<1>1. \A s \in SUBSET (1..n) :
         h[s] = IF s = {} THEN {}
                ELSE ApplyEntry(h[s \ {Max(s)}], steps[Max(s)].e, steps[Max(s)].line)
  BY DEF Folding
<1>2. 1..0 = {} /\ 1..0 \in SUBSET (1..n)
  OBVIOUS
<1>3. ASSUME NEW k \in 1..n
      PROVE  h[1..k] = ApplyEntry(h[1..(k - 1)], steps[k].e, steps[k].line)
  <2>1. 1..k \in SUBSET (1..n) /\ 1..k # {} /\ k \in 1..k /\ (1..k) \ {k} = 1..(k - 1)
    OBVIOUS
  <2>2. Max(1..k) = k
    BY <2>1, GreatestPlace
  <2> QED
    BY <1>1, <2>1, <2>2
<1> QED
  BY <1>1, <1>2, <1>3

\* Two lists agree up to the place n.
SameSteps(r, s, n) == \A i \in 1..n : r[i] = s[i]

\* g folds the n steps of r, h the m of s, which go on from those.
GoesOn(g, h, r, s, n, m) ==
    /\ n \in Nat /\ m \in Nat /\ n <= m
    /\ Folding(g, r, n) /\ Folding(h, s, m)
    /\ SameSteps(r, s, n)

\* The folds of two lists agree as far as the lists do.
LEMMA FoldingsAgree ==
    ASSUME NEW g, NEW h, NEW r, NEW s, NEW n, NEW m, GoesOn(g, h, r, s, n, m)
    PROVE  g[1..n] = h[1..n]
<1> USE DEF GoesOn
<1> DEFINE Bad == {k \in 0..n : g[1..k] # h[1..k]}
<1> SUFFICES ASSUME Bad # {}
             PROVE  FALSE
  OBVIOUS
<1>0. Bad \in SUBSET Nat
  OBVIOUS
<1>1. PICK k \in Bad : \A j \in Bad : k <= j
  BY <1>0, Least, Zenon
<1>2. k # 0
  BY FoldingStep
<1>3. k \in 1..n /\ k \in 1..m /\ k - 1 \in 0..n /\ ~(k <= k - 1)
  BY <1>2
<1>4. g[1..(k - 1)] = h[1..(k - 1)]
  BY <1>1, <1>3
<1>5. /\ g[1..k] = ApplyEntry(g[1..(k - 1)], r[k].e, r[k].line)
      /\ h[1..k] = ApplyEntry(h[1..(k - 1)], s[k].e, s[k].line)
  BY <1>3, FoldingStep
<1>6. r[k] = s[k]
  BY <1>3 DEF SameSteps
<1> QED
  BY <1>4, <1>5, <1>6

-----------------------------------------------------------------------------
(* The replay of a log without expiry.                                      *)

\* The index that a rescan of the whole log l builds.
Whole(l) == Applying(l, [i \in 1..Len(l) |-> i])

Replayed(l) == FoldLeft(LAMBDA S, s : ApplyEntry(S, s.e, s.line), {}, Whole(l))

\* One step for each entry, on its own line.
LEMMA WholeSteps ==
    ASSUME NEW l, Len(l) \in Nat
    PROVE  /\ DOMAIN Whole(l) = 1..Len(l)
           /\ \A i \in 1..Len(l) :
                 /\ Whole(l)[i] = [do |-> "apply", e |-> l[i], line |-> i]
                 /\ Whole(l)[i].e = l[i] /\ Whole(l)[i].line = i
  BY DEF Whole, Applying

\* Nothing to replay, nothing known.
LEMMA ReplayedEmpty == Replayed(<<>>) = {}
<1>1. Len(<<>>) = 0
  BY EmptySeq
<1>2. DOMAIN Whole(<<>>) = 1..0
  BY <1>1, WholeSteps
<1>3. PICK h : Folding(h, Whole(<<>>), 0) /\ h[1..0] = Replayed(<<>>)
  BY <1>2, FoldSteps DEF Replayed
<1> QED
  BY <1>3, FoldingStep

\* One more entry is one more step.
LEMMA ReplayedAppend ==
    ASSUME NEW l \in Seq(LogType), NEW w \in LogType
    PROVE  Replayed(Append(l, w)) = ApplyEntry(Replayed(l), w, Len(l) + 1)
<1> DEFINE n == Len(l)
           r == Append(l, w)
<1>1. /\ n \in Nat /\ Len(r) = n + 1 /\ r[n + 1] = w
      /\ \A i \in 1..n : r[i] = l[i]
  OBVIOUS
<1> HIDE DEF n, r
<1>2. /\ DOMAIN Whole(l) = 1..n /\ DOMAIN Whole(r) = 1..(n + 1)
      /\ \A i \in 1..n : Whole(l)[i] = [do |-> "apply", e |-> l[i], line |-> i]
      /\ \A i \in 1..(n + 1) : Whole(r)[i] = [do |-> "apply", e |-> r[i], line |-> i]
  BY <1>1, WholeSteps DEF n
<1>3. PICK h : Folding(h, Whole(l), n) /\ h[1..n] = Replayed(l)
  BY <1>1, <1>2, FoldSteps DEF Replayed
<1> DEFINE m == n + 1
<1>0. m \in Nat /\ n <= m
  BY <1>1
<1>4. PICK g : Folding(g, Whole(r), m) /\ g[1..m] = Replayed(r)
  <2>1. DOMAIN Whole(r) = 1..m
    BY <1>2
  <2> HIDE DEF m
  <2> QED
    BY <1>0, <2>1, FoldSteps DEF Replayed
<1>5. SameSteps(Whole(l), Whole(r), n)
  BY <1>1, <1>2 DEF SameSteps
<1>6. h[1..n] = g[1..n]
  <2> HIDE DEF m
  <2>1. GoesOn(h, g, Whole(l), Whole(r), n, m)
    BY <1>0, <1>1, <1>3, <1>4, <1>5 DEF GoesOn
  <2> QED
    BY ONLY <2>1, FoldingsAgree
<1>7. g[1..(n + 1)] = ApplyEntry(g[1..((n + 1) - 1)], Whole(r)[n + 1].e, Whole(r)[n + 1].line)
  BY <1>1, <1>4, FoldingStep
<1>8. Whole(r)[n + 1].e = w /\ Whole(r)[n + 1].line = n + 1 /\ (n + 1) - 1 = n
  <2>1. Whole(r)[n + 1] = [do |-> "apply", e |-> w, line |-> n + 1]
    BY <1>1, <1>2
  <2> QED
    BY <1>1, <2>1
<1> QED
  BY <1>3, <1>4, <1>6, <1>7, <1>8 DEF n, r

\* A list of places in growing order that is as long as there are places.
LEMMA GrowingPlaces ==
    ASSUME NEW n \in Nat, NEW o \in [1..n -> 1..n],
           \A i, j \in 1..n : i < j => o[i] < o[j]
    PROVE  o = [i \in 1..n |-> i]
<1>1. \A i \in 1..n : o[i] >= i
  <2> DEFINE Low == {i \in 1..n : o[i] < i}
  <2> SUFFICES ASSUME Low # {}
               PROVE  FALSE
    OBVIOUS
  <2>0. Low \in SUBSET Nat
    OBVIOUS
  <2>1. PICK i \in Low : \A j \in Low : i <= j
    BY <2>0, Least, Zenon
  <2>2. i - 1 \in 1..n /\ o[i - 1] < o[i] /\ ~(i <= i - 1)
    OBVIOUS
  <2>3. o[i - 1] < i - 1
    BY <2>2
  <2>4. i - 1 \in Low
    BY <2>2, <2>3
  <2> QED
    BY <2>1, <2>2, <2>4
<1>2. \A i \in 1..n : o[i] <= i
  <2> DEFINE High == {j \in 0..(n - 1) : o[n - j] > n - j}
  <2> SUFFICES ASSUME NEW i \in 1..n, o[i] > i
               PROVE  FALSE
    OBVIOUS
  <2>0. High \in SUBSET Nat /\ n - i \in High
    <3>1. n - i \in 0..(n - 1) /\ n - (n - i) = i
      OBVIOUS
    <3> QED
      BY <3>1
  <2>1. PICK j \in High : \A k \in High : j <= k
    BY <2>0, Least, Zenon
  <2> DEFINE x == n - j
  <2>2. x \in 1..n /\ o[x] > x /\ o[x] \in 1..n
    OBVIOUS
  <2>3. x + 1 \in 1..n /\ o[x] < o[x + 1] /\ o[x + 1] \in 1..n
    BY <2>2, SMTT(30)
  <2>4. o[x + 1] > x + 1
    BY <2>2, <2>3
  <2>5. j - 1 \in 0..(n - 1) /\ n - (j - 1) = x + 1 /\ ~(j <= j - 1)
    BY <2>3
  <2>6. j - 1 \in High
    BY <2>4, <2>5
  <2> QED
    BY <2>1, <2>5, <2>6
<1>3. \A i \in 1..n : o[i] = i
  BY <1>1, <1>2
<1> QED
  BY <1>3

\* A log in order of time, without times to live, is replayed whole and as it
\* stands.
LEMMA ReplayWhole ==
    ASSUME NEW l \in Seq(LogType), NEW now,
           \A i, j \in 1..Len(l) : i <= j => l[i].updated <= l[j].updated,
           \A i \in 1..Len(l) : l[i].ttl = 0
    PROVE  Replay(l, now) = {Whole(l)}
<1> DEFINE n == Len(l)
           Earlier(i, j) == \/ l[i].updated < l[j].updated
                            \/ l[i].updated = l[j].updated /\ i < j
           id == [i \in 1..n |-> i]
<1>1. n \in Nat /\ \A i \in 1..n : l[i].updated \in Nat
  BY DEF LogType, EntryType, Ticks
<1>2. {i \in 1..n : ~(/\ l[i].op = "store" /\ l[i].ttl > 0
                      /\ l[i].updated + Seconds(l[i].ttl) < now)} = 1..n
  <2>1. \A i \in 1..n : ~(l[i].ttl > 0)
    OBVIOUS
  <2> QED
    BY <2>1
<1>3. Cardinality(1..n) = n
  <2> HIDE DEF n
  <2>1. Cardinality(1..n) = IF 1 > n THEN 0 ELSE n - 1 + 1
    BY <1>1, FS_Interval
  <2> QED
    BY <1>1, <2>1
<1>4. \A i, j \in 1..n : Earlier(i, j) <=> i < j
  <2> SUFFICES ASSUME NEW i \in 1..n, NEW j \in 1..n
               PROVE  Earlier(i, j) <=> i < j
    OBVIOUS
  <2>1. l[i].updated \in Nat /\ l[j].updated \in Nat
    BY <1>1
  <2>2. CASE i < j
    BY <2>1, <2>2
  <2>3. CASE ~(i < j)
    <3>1. l[j].updated <= l[i].updated
      BY <2>3
    <3> QED
      BY <2>1, <2>3, <3>1
  <2> QED
    BY <2>2, <2>3
<1>5. Replay(l, now) = {Applying(l, s) : s \in
         {o \in [1..n -> 1..n] : \A i, j \in DOMAIN o : i < j => Earlier(o[i], o[j])}}
  BY <1>2, <1>3 DEF Replay
<1> HIDE DEF Earlier, n
<1>6. {o \in [1..n -> 1..n] : \A i, j \in DOMAIN o : i < j => Earlier(o[i], o[j])} = {id}
  <2>1. ASSUME NEW o \in [1..n -> 1..n], \A i, j \in DOMAIN o : i < j => Earlier(o[i], o[j])
        PROVE  o = id
    <3>1. \A i, j \in 1..n : i < j => o[i] < o[j]
      BY <1>4, <2>1
    <3> QED
      BY <1>1, <3>1, GrowingPlaces
  <2>2. id \in [1..n -> 1..n] /\ \A i, j \in DOMAIN id : i < j => Earlier(id[i], id[j])
    BY <1>4
  <2> HIDE DEF id
  <2> QED
    BY <2>1, <2>2
<1> HIDE DEF id
<1>7. Replay(l, now) = {Applying(l, s) : s \in {id}}
  BY <1>5, <1>6
<1>8. Replay(l, now) = {Applying(l, id)}
  BY <1>7
<1> QED
  BY <1>8 DEF Whole, id, n

-----------------------------------------------------------------------------
(* Two indexes that answer alike.                                           *)

\* ... about every moment, now and as of every time.
Same(S, T) ==
    \A k : \A m \in Moment :
        /\ Belief(S, k, m) = Belief(T, k, m)
        /\ \A t \in Nat : BeliefAt(S, k, t, m) = BeliefAt(T, k, t, m)

\* The call of Put that applies a store entry.
CallOf(e, line) ==
    [key |-> e.key, line |-> line, tags |-> e.tags, ttl |-> e.ttl,
     updated |-> e.updated, vf |-> e.vf, vt |-> e.vt]

\* Applying it is a Put.
LEMMA CallOfEntry ==
    ASSUME NEW e \in EntryType, Named(e), Timed(e), e.op = "store", NEW line \in Nat
    PROVE  /\ CallOf(e, line) \in Call(Keys, Tags)
           /\ \A S : ApplyEntry(S, e, line) = Put(S, CallOf(e, line))
<1>1. /\ e.key \in Keys /\ e.updated \in Nat /\ e.vf \in Nat /\ e.vt \in Nat /\ e.ttl \in Int
      /\ e.tags \in SUBSET Tags /\ e.updated >= Resolution
  BY DEF EntryType, Ticks, Timed, Named
<1>2. CallOf(e, line) \in Call(Keys, Tags)
  BY <1>1 DEF CallOf, Call, FactType, Ticks, Timed
<1>3. ASSUME NEW S
      PROVE  ApplyEntry(S, e, line) = Put(S, CallOf(e, line))
  BY DEF ApplyEntry, CallOf
<1> QED
  BY <1>2, <1>3

\* What the log keeps of an entry is about the same moments.
LEMMA WrittenInside ==
    ASSUME NEW e \in EntryType, Named(e), Timed(e), e.op = "store", NEW line \in Nat,
           NEW m \in Moment
    PROVE  Inside(CallOf(e, line), m) <=> Inside(CallOf(Written(e), line), m)
<1> DEFINE f == CallOf(e, line)
           g == CallOf(Written(e), line)
<1>1. /\ e.updated \in Nat /\ e.vf \in Nat /\ e.vt \in Nat /\ e.updated >= Resolution
      /\ e.vf = Zero \/ e.vf >= Resolution
      /\ e.vt = Zero \/ e.vt >= Resolution
  BY DEF EntryType, Ticks, Timed
<1>2. /\ f.updated = e.updated /\ f.vf = e.vf /\ f.vt = e.vt
      /\ g.updated = Sec(e.updated) /\ g.vf = Sec(e.vf) /\ g.vt = Sec(e.vt)
  BY WrittenEntry DEF CallOf
<1> HIDE DEF f, g
<1>3. Sec(ValidFrom(f)) = Sec(ValidFrom(g))
  BY <1>1, <1>2, SecPositive, SecZero, SecIdempotent DEF ValidFrom
<1>4. Sec(f.vt) = Sec(g.vt) /\ (f.vt = Zero <=> g.vt = Zero)
  BY <1>1, <1>2, SecPositive, SecZero, SecIdempotent
<1> QED
  BY <1>3, <1>4 DEF Inside, f, g

\* What is believed after an entry is what was believed before, but for what
\* the entry is about.
BeliefAfter(S, l, e, line, k, m) ==
    CASE e.op = "store" ->
            IF k = e.key /\ Inside(CallOf(e, line), m) THEN {line} ELSE Belief(S, k, m)
      [] e.op = "delete" -> IF k = e.key THEN {} ELSE Belief(S, k, m)
      [] e.op = "delete_tags" ->
            {n \in Belief(S, k, m) : ~(e.tags # {} /\ e.tags \subseteq l[n].tags)}

\* What is believed once an entry is applied.
LEMMA ApplyBelief ==
    ASSUME NEW S \in SUBSET VersionType(Keys, Tags), NEW l, GoodRows(S, l),
           NEW e \in EntryType, Named(e), Timed(e), NEW line \in Nat,
           NEW k, NEW m \in Moment
    PROVE  Belief(ApplyEntry(S, e, line), k, m) = BeliefAfter(S, l, e, line, k, m)
<1>1. /\ e.op \in {"store", "delete", "delete_tags"}
      /\ e.updated \in Nat /\ e.updated >= Resolution
      /\ \A v \in S : WellFormed(v) /\ l[v.line].tags = v.tags
  BY DEF EntryType, Ticks, Timed, GoodRows, Says
<1>2. CASE e.op = "store"
  <2> DEFINE f == CallOf(e, line)
  <2>1. f \in Call(Keys, Tags) /\ ApplyEntry(S, e, line) = Put(S, f)
    BY <1>2, CallOfEntry
  <2>2. f.key = e.key /\ f.line = line
    BY DEF CallOf
  <2> HIDE DEF f
  <2>3. Belief(Put(S, f), k, m) = IF k = f.key /\ Inside(f, m) THEN {f.line} ELSE Belief(S, k, m)
    BY <1>1, <2>1, PutBelief
  <2> QED
    BY <1>2, <2>1, <2>2, <2>3 DEF f, BeliefAfter
<1>3. CASE e.op = "delete"
  <2> DEFINE D == {p \in S : p.key = e.key /\ Believed(p)}
  <2>1. ApplyEntry(S, e, line) = Forget(S, D, e.updated)
    BY <1>3 DEF ApplyEntry, DeleteByEntity
  <2>2. Belief(Forget(S, D, e.updated), k, m) = Belief(S \ D, k, m)
    BY <1>1, ForgetBelief
  <2>3. Belief(S \ D, k, m) = IF k = e.key THEN {} ELSE Belief(S, k, m)
    BY DEF Belief
  <2> QED
    BY <1>3, <2>1, <2>2, <2>3 DEF BeliefAfter
<1>4. CASE e.op = "delete_tags"
  <2> DEFINE Hit(p) == e.tags # {} /\ e.tags \subseteq p.tags
             D == {p \in S : Hit(p) /\ Believed(p)}
  <2>1. ApplyEntry(S, e, line) = Forget(S, D, e.updated)
    BY <1>4 DEF ApplyEntry, DeleteByTags
  <2>2. Belief(Forget(S, D, e.updated), k, m) = Belief(S \ D, k, m)
    BY <1>1, ForgetBelief
  <2>3. Belief(S \ D, k, m)
          = {n \in Belief(S, k, m) : ~(e.tags # {} /\ e.tags \subseteq l[n].tags)}
    <3>1. ASSUME NEW n \in Belief(S \ D, k, m)
          PROVE  n \in Belief(S, k, m) /\ ~(e.tags # {} /\ e.tags \subseteq l[n].tags)
      <4>1. PICK v \in S \ D : v.key = k /\ Believed(v) /\ Covers(v, m) /\ n = v.line
        BY <3>1 DEF Belief
      <4> QED
        BY <1>1, <4>1 DEF Belief
    <3>2. ASSUME NEW n \in Belief(S, k, m), ~(e.tags # {} /\ e.tags \subseteq l[n].tags)
          PROVE  n \in Belief(S \ D, k, m)
      <4>1. PICK v \in S : v.key = k /\ Believed(v) /\ Covers(v, m) /\ n = v.line
        BY <3>2 DEF Belief
      <4>2. v \in S \ D
        BY <1>1, <3>2, <4>1
      <4> QED
        BY <4>1, <4>2 DEF Belief
    <3> QED
      BY <3>1, <3>2
  <2> QED
    BY <1>4, <2>1, <2>2, <2>3 DEF BeliefAfter
<1> QED
  BY <1>1, <1>2, <1>3, <1>4

\* An entry applied to one index at clock precision, as the call does, and what
\* the log keeps of it applied to the other, as a replay does, leave them alike.
LEMMA ApplySame ==
    ASSUME NEW S \in SUBSET VersionType(Keys, Tags), NEW T \in SUBSET VersionType(Keys, Tags),
           NEW l, GoodRows(S, l), GoodRows(T, l), Same(S, T),
           NEW e \in EntryType, Named(e), Timed(e), NEW line \in Nat,
           StampedIn(S, Sec(e.updated)), StampedIn(T, Sec(e.updated)),
           NEW A, A = ApplyEntry(S, e, line), A \in SUBSET VersionType(Keys, Tags),
           NEW B, B = ApplyEntry(T, Written(e), line), B \in SUBSET VersionType(Keys, Tags),
           \A v \in A : WellFormed(v), \A v \in B : WellFormed(v)
    PROVE  Same(A, B)
<1> DEFINE w == Written(e)
           s == Sec(e.updated)
<1>1. /\ w \in LogType /\ w \in EntryType /\ Named(w) /\ Timed(w)
      /\ w.op = e.op /\ w.key = e.key /\ w.tags = e.tags
      /\ w.updated = s /\ Sec(w.updated) = s /\ s \in Nat
      /\ e.op \in {"store", "delete", "delete_tags"}
  BY WrittenEntry, SecIdempotent, SecType DEF LogType, EntryType, Ticks
<1>2. \A v \in S : WellFormed(v)
  BY DEF GoodRows
<1>3. \A v \in T : WellFormed(v)
  BY DEF GoodRows
<1>4. StampedIn(A, s)
  BY <1>2, ApplyStamps
<1>5. StampedIn(B, s)
  <2> HIDE DEF w, s
  <2>1. StampedIn(ApplyEntry(T, w, line), Sec(w.updated))
    BY <1>1, <1>3, ApplyStamps DEF s
  <2> QED
    BY <1>1, <2>1 DEF w
<1>6. ASSUME NEW k, NEW m \in Moment
      PROVE  Belief(A, k, m) = Belief(B, k, m)
  <2>1. e.op = "store" => (Inside(CallOf(e, line), m) <=> Inside(CallOf(w, line), m))
    BY WrittenInside
  <2>2. Belief(S, k, m) = Belief(T, k, m)
    BY DEF Same
  <2> HIDE DEF w
  <2>3. Belief(A, k, m) = BeliefAfter(S, l, e, line, k, m)
    BY ApplyBelief
  <2>4. Belief(ApplyEntry(T, w, line), k, m) = BeliefAfter(T, l, w, line, k, m)
    BY <1>1, ApplyBelief
  <2>5. B = ApplyEntry(T, w, line)
    BY DEF w
  <2> QED
    BY <1>1, <2>1, <2>2, <2>3, <2>4, <2>5 DEF BeliefAfter
<1>7. ASSUME NEW k, NEW m \in Moment, NEW t \in Nat
      PROVE  BeliefAt(A, k, t, m) = BeliefAt(B, k, t, m)
  <2>1. CASE t < s
    <3>1. BeliefAt(A, k, t, m) = BeliefAt(S, k, t, m)
      BY <2>1, ApplyPast
    <3> HIDE DEF w, s
    <3>2. BeliefAt(ApplyEntry(T, w, line), k, t, m) = BeliefAt(T, k, t, m)
      BY <1>1, <2>1, ApplyPast
    <3>3. B = ApplyEntry(T, w, line)
      BY DEF w
    <3>4. BeliefAt(S, k, t, m) = BeliefAt(T, k, t, m)
      BY DEF Same
    <3> QED
      BY <3>1, <3>2, <3>3, <3>4
  <2>2. CASE ~(t < s)
    <3> HIDE DEF s
    <3>1. \A v \in A : Stamped(v, t)
      BY <1>1, <1>4, <2>2 DEF StampedIn, Stamped, VersionType, Ticks
    <3>2. \A v \in B : Stamped(v, t)
      BY <1>1, <1>5, <2>2 DEF StampedIn, Stamped, VersionType, Ticks
    <3>3. BeliefAt(A, k, t, m) = Belief(A, k, m)
      BY <3>1, AsOfNow
    <3>4. BeliefAt(B, k, t, m) = Belief(B, k, m)
      BY <3>2, AsOfNow
    <3> QED
      BY <1>6, <3>3, <3>4
  <2> QED
    BY <2>1, <2>2
<1> QED
  BY <1>6, <1>7 DEF Same

-----------------------------------------------------------------------------
(* What the steps of a call leave between index and log.                    *)

\* What is left of a rescan when n entries of the log l have been applied.
Rest(l, n) ==
    [i \in 1..(Len(l) - n + 1) |->
       IF i = Len(l) - n + 1 THEN [do |-> "done"]
       ELSE [do |-> "apply", e |-> l[n + i], line |-> n + i]]

Reading(q) == q = << [do |-> "read"] >>

\* A rescan has replayed the first entries of the log.
Replaying(q, S, l) ==
    \E n \in 0..Len(l) : q = Rest(l, n) /\ S = Replayed(SubSeq(l, 1, n))

\* The index once the entry that is in the log is applied too.
Caught(q, S) ==
    IF q # <<>> /\ q[1].do = "apply" THEN ApplyEntry(S, q[1].e, q[1].line) ELSE S

\* A memory call: an entry is applied right after it is appended, and the index
\* then answers as a replay would, unless an entry was lost.
Serving(q, S, l, gone) ==
    /\ \A i \in DOMAIN q : q[i].do \in {"stamp", "append", "apply"}
    /\ \A i \in DOMAIN q : q[i].do = "apply" /\ i + 1 \in DOMAIN q => q[i + 1].do = "append"
    /\ gone \/ Same(Caught(q, S), Replayed(l))

\* What a call under way, or none, can look like.
Shape(q, S, l, gone) == Reading(q) \/ Replaying(q, S, l) \/ Serving(q, S, l, gone)

\* What the call will append is stamped after the time t.
Later(q, t) == \A i \in DOMAIN q : q[i].do = "append" => t < Sec(q[i].e.updated)

\* The replay of the log is an index like any other.
ReplayGood(l) ==
    /\ Replayed(l) \in SUBSET VersionType(Keys, Tags)
    /\ GoodRows(Replayed(l), l)
    /\ OneIn(Replayed(l))
    /\ \A t \in Nat : (\A i \in 1..Len(l) : l[i].updated <= t) => StampedIn(Replayed(l), t)

\* What was told of a second that is over, a replay would tell.
ToldRight(r, l, now) ==
    /\ r.at < Sec(now)
    /\ \A k \in Keys, m \in Moments : r.answers[k][m] = BeliefAt(Replayed(l), k, r.at, m)

\* The inductive invariant of the histories, as long as no fact in the log has a
\* time to live.
HistoryInv ==
    /\ ReplayGood(log)
    /\ Timeless
    /\ \A v \in facts : v.ttl <= 0
    /\ \A p \in Procs : Shape(todo[p], facts, log, lost)
    /\ \A r \in told : ToldRight(r, log, clock) /\ \A p \in Procs : Later(todo[p], r.at)

-----------------------------------------------------------------------------
(* Where a rescan is.                                                       *)

\* The step a rescan takes next.
LEMMA RestSteps ==
    ASSUME NEW l \in Seq(LogType), NEW n \in 0..Len(l)
    PROVE  /\ Rest(l, n) # <<>> /\ DOMAIN Rest(l, n) = 1..(Len(l) - n + 1)
           /\ n = Len(l) => Rest(l, n)[1].do = "done"
           /\ n < Len(l) => Rest(l, n)[1] = [do |-> "apply", e |-> l[n + 1], line |-> n + 1]
           /\ \A i \in DOMAIN Rest(l, n) :
                 \/ Rest(l, n)[i].do = "done"
                 \/ /\ Rest(l, n)[i].do = "apply"
                    /\ \E j \in 1..Len(l) : Rest(l, n)[i].e = l[j]
<1>1. n \in Nat /\ Len(l) \in Nat /\ n <= Len(l) /\ Len(l) - n + 1 \in Nat \ {0}
  OBVIOUS
<1> DEFINE x == Len(l) - n + 1
<1>2. DOMAIN Rest(l, n) = 1..x
  BY DEF Rest
<1>3. 1 \in 1..x
  BY <1>1
<1>4. Rest(l, n) # <<>>
  BY <1>2, <1>3
<1>5. n = Len(l) => Rest(l, n)[1].do = "done"
  <2>1. n = Len(l) => x = 1
    BY <1>1
  <2> QED
    BY <1>3, <2>1 DEF Rest
<1>6. n < Len(l) => Rest(l, n)[1] = [do |-> "apply", e |-> l[n + 1], line |-> n + 1]
  <2>1. n < Len(l) => x # 1
    BY <1>1
  <2> QED
    BY <1>3, <2>1 DEF Rest
<1>7. ASSUME NEW i \in 1..x
      PROVE  \/ Rest(l, n)[i].do = "done"
             \/ /\ Rest(l, n)[i].do = "apply"
                /\ \E j \in 1..Len(l) : Rest(l, n)[i].e = l[j]
  <2>1. CASE i = x
    BY <2>1 DEF Rest
  <2>2. CASE i # x
    <3>1. n + i \in 1..Len(l)
      BY <1>1, <2>2
    <3>2. Rest(l, n)[i] = [do |-> "apply", e |-> l[n + i], line |-> n + i]
      BY <2>2 DEF Rest
    <3> QED
      BY <3>1, <3>2
  <2> QED
    BY <2>1, <2>2
<1> QED
  BY <1>2, <1>4, <1>5, <1>6, <1>7

\* One entry applied, one fewer to go.
LEMMA RestTail ==
    ASSUME NEW l \in Seq(LogType), NEW n \in Nat, n < Len(l), Rest(l, n) \in Seq(Steps)
    PROVE  Tail(Rest(l, n)) = Rest(l, n + 1)
<1>1. Len(l) \in Nat /\ n \in 0..Len(l)
  OBVIOUS
<1> DEFINE q == Rest(l, n)
           x == Len(l) - n + 1
<1>0. x \in Nat \ {0}
  BY <1>1
<1>2. q # <<>> /\ DOMAIN q = 1..x
  BY <1>1, RestSteps
<1>3. Len(q) = x
  <2> HIDE DEF x
  <2>1. q \in Seq(Steps)
    OBVIOUS
  <2> HIDE DEF q
  <2> QED
    BY <1>0, <1>2, <2>1, LenProperties
<1>4. Tail(q) = [i \in 1..(x - 1) |-> q[i + 1]]
  <2>1. q \in Seq(Steps)
    OBVIOUS
  <2> HIDE DEF q, x
  <2>2. /\ Tail(q) \in Seq(Steps) /\ Len(Tail(q)) = x - 1
        /\ \A i \in 1..(x - 1) : Tail(q)[i] = q[i + 1]
    BY <1>2, <1>3, <2>1, HeadTailProperties
  <2>3. Tail(q) \in [1..(x - 1) -> Steps]
    BY <2>2, LenProperties
  <2>4. Tail(q) = [i \in 1..(x - 1) |-> Tail(q)[i]]
    BY <2>3
  <2> QED
    BY <2>2, <2>4
<1>5. x - 1 = Len(l) - (n + 1) + 1
  BY <1>1
<1>6. ASSUME NEW i \in 1..(x - 1)
      PROVE  q[i + 1] = Rest(l, n + 1)[i]
  <2>1. i + 1 \in 1..x /\ (i + 1 = x <=> i = x - 1) /\ n + (i + 1) = (n + 1) + i
    BY <1>1
  <2>2. q[i + 1] = IF i + 1 = x THEN [do |-> "done"]
                   ELSE [do |-> "apply", e |-> l[n + (i + 1)], line |-> n + (i + 1)]
    BY <2>1 DEF Rest
  <2>3. Rest(l, n + 1)[i] = IF i = x - 1 THEN [do |-> "done"]
                            ELSE [do |-> "apply", e |-> l[(n + 1) + i], line |-> (n + 1) + i]
    BY <1>5 DEF Rest
  <2> QED
    BY <2>1, <2>2, <2>3
<1>7. Rest(l, n + 1) = [i \in 1..(x - 1) |-> Rest(l, n + 1)[i]]
  BY <1>5 DEF Rest
<1> HIDE DEF q, x
<1> QED
  BY <1>4, <1>6, <1>7 DEF q

\* What ReadLog schedules is the whole of the log.
LEMMA RestWhole ==
    ASSUME NEW l \in Seq(LogType)
    PROVE  Append(Whole(l), [do |-> "done"]) = Rest(l, 0)
<1> DEFINE n == Len(l)
           done == [do |-> "done"]
           W == Whole(l)
<1>1. n \in Nat
  OBVIOUS
<1>2. DOMAIN W = 1..n /\ \A i \in 1..n : W[i] = [do |-> "apply", e |-> l[i], line |-> i]
  BY <1>1, WholeSteps
<1> DEFINE T == {W[i] : i \in 1..n} \cup {done}
<1>3. W \in [1..n -> T]
  <2>1. W = [i \in 1..n |-> W[i]]
    BY DEF Whole, Applying
  <2> HIDE DEF W
  <2> QED
    BY <2>1
<1>4. done \in T
  OBVIOUS
<1> HIDE DEF done, T, W, n
<1>5. W \in Seq(T)
  BY <1>1, <1>3, SeqDef
<1>6. Len(W) = n
  BY <1>1, <1>2, <1>5, LenProperties
<1>7. Append(W, done) = [i \in 1..(n + 1) |-> IF i = n + 1 THEN done ELSE W[i]]
  <2>1. /\ Append(W, done) \in Seq(T) /\ Len(Append(W, done)) = n + 1
        /\ \A i \in 1..n : Append(W, done)[i] = W[i]
        /\ Append(W, done)[n + 1] = done
    BY <1>4, <1>5, <1>6, AppendProperties
  <2>2. Append(W, done) \in [1..(n + 1) -> T]
    BY <2>1, LenProperties
  <2>3. Append(W, done) = [i \in 1..(n + 1) |-> Append(W, done)[i]]
    BY <2>2
  <2>4. \A i \in 1..(n + 1) : i = n + 1 \/ i \in 1..n
    BY <1>1
  <2> QED
    BY <2>1, <2>3, <2>4
<1>8. /\ n - 0 + 1 = n + 1
      /\ \A i \in 1..(n + 1) : (i = n + 1 \/ i \in 1..n) /\ 0 + i = i
  BY <1>1
<1>9. Rest(l, 0) = [i \in 1..(n + 1) |->
                      IF i = n + 1 THEN done ELSE [do |-> "apply", e |-> l[i], line |-> i]]
  BY <1>8 DEF Rest, n, done
<1>10. \A i \in 1..(n + 1) : i # n + 1 => W[i] = [do |-> "apply", e |-> l[i], line |-> i]
  BY <1>2, <1>8
<1>11. Append(W, done) = Rest(l, 0)
  BY <1>7, <1>9, <1>10
<1> QED
  BY <1>11 DEF W, done

\* One more entry replayed.
LEMMA ReplayedNext ==
    ASSUME NEW l \in Seq(LogType), NEW n \in Nat, n < Len(l)
    PROVE  Replayed(SubSeq(l, 1, n + 1)) = ApplyEntry(Replayed(SubSeq(l, 1, n)), l[n + 1], n + 1)
<1> DEFINE s == SubSeq(l, 1, n)
<1>1. /\ s \in Seq(LogType) /\ Len(s) = n /\ l[n + 1] \in LogType
      /\ n + 1 \in 1..Len(l)
  BY SubSeqProperties
<1>2. SubSeq(l, 1, n + 1) = Append(s, l[n + 1])
  OBVIOUS
<1> HIDE DEF s
<1> QED
  BY <1>1, <1>2, ReplayedAppend DEF s

\* The kinds of calls by their first step.
LEMMA HeadKinds ==
    ASSUME NEW l \in Seq(LogType), NEW q \in Seq(Steps), NEW S, NEW gone, Shape(q, S, l, gone)
    PROVE  /\ q = <<>> => Serving(q, S, l, gone)
           /\ q # <<>> /\ Head(q).do \in {"stamp", "append"} => Serving(q, S, l, gone)
           /\ q # <<>> /\ Head(q).do = "apply" =>
                 \/ Serving(q, S, l, gone)
                 \/ \E n \in Nat : n < Len(l) /\ q = Rest(l, n) /\ S = Replayed(SubSeq(l, 1, n))
           /\ q # <<>> /\ Head(q).do = "done" => S = Replayed(l)
<1>1. q # <<>> => Head(q) = q[1] /\ 1 \in DOMAIN q
  OBVIOUS
<1>2. CASE Reading(q)
  <2>1. q # <<>> /\ q[1].do = "read"
    BY <1>2 DEF Reading
  <2> QED
    BY <1>1, <2>1
<1>3. CASE Replaying(q, S, l)
  <2>1. PICK n \in 0..Len(l) : q = Rest(l, n) /\ S = Replayed(SubSeq(l, 1, n))
    BY <1>3 DEF Replaying
  <2>2. CASE n = Len(l)
    <3>1. q # <<>> /\ q[1].do = "done"
      BY <2>1, <2>2, RestSteps
    <3>2. SubSeq(l, 1, n) = l
      BY <2>2
    <3> QED
      BY <1>1, <2>1, <3>1, <3>2
  <2>3. CASE n # Len(l)
    <3>1. n < Len(l) /\ n \in Nat
      BY <2>3
    <3>2. q # <<>> /\ q[1].do = "apply"
      <4>0. Rest(l, n)[1] = [do |-> "apply", e |-> l[n + 1], line |-> n + 1]
        BY <3>1, RestSteps
      <4>1. q = Rest(l, n) /\ Rest(l, n)[1].do = "apply"
        BY <2>1, <4>0
      <4>2. Rest(l, n) # <<>>
        BY RestSteps
      <4> QED
        BY <4>1, <4>2
    <3> QED
      BY <1>1, <2>1, <3>1, <3>2
  <2> QED
    BY <2>2, <2>3
<1>4. CASE Serving(q, S, l, gone)
  <2>1. q # <<>> => q[1].do \in {"stamp", "append", "apply"}
    BY <1>1, <1>4 DEF Serving
  <2> QED
    BY <1>1, <1>4, <2>1
<1> QED
  BY <1>2, <1>3, <1>4 DEF Shape

-----------------------------------------------------------------------------
(* The inductive invariant of one process whose facts do not expire.        *)

\* A step that only changes what is left of the call.
LEMMA HistoryCall ==
    ASSUME IInv, OneProcess, HistoryInv, NEW p \in Procs, NEW q,
           todo' = [todo EXCEPT ![p] = q], UNCHANGED <<clock, log, facts, told>>,
           Shape(q, facts, log, lost'), \A r \in told : Later(q, r.at)
    PROVE  HistoryInv'
<1>1. \A r \in Procs : todo'[r] = q
  BY DEF IInv, TypeOK, OneProcess
<1>2. \A r \in told' : ToldRight(r, log', clock')
  BY DEF HistoryInv
<1> QED
  BY <1>1, <1>2 DEF HistoryInv, Timeless

\* What holds of the call under way.
LEMMA HistoryNow ==
    ASSUME IInv, HistoryInv, NEW p \in Procs
    PROVE  /\ todo[p] \in Seq(Steps) /\ log \in Seq(LogType)
           /\ Shape(todo[p], facts, log, lost)
           /\ clock \in Nat
           /\ facts \in SUBSET VersionType(Keys, Tags) /\ GoodRows(facts, log)
           /\ \A v \in facts : WellFormed(v)
  BY DEF IInv, TypeOK, HistoryInv, GoodRows, Ticks

\* A second ends, and is remembered if it ends quietly.
LEMMA HistoryTick ==
    ASSUME IInv, OneProcess, HistoryInv, Tick
    PROVE  HistoryInv'
<1>1. /\ clock \in Nat /\ clock' \in Nat /\ clock <= clock'
      /\ UNCHANGED <<log, facts, todo, lost>>
      /\ told' = told \cup {[at |-> t, answers |-> AnswersAsOf(t)] :
                              t \in {u \in Moments : Quiet /\ Sec(clock) <= u /\ u < Sec(clock')}}
  BY DEF Tick, IInv, TypeOK, Ticks
<1>2. Sec(clock) \in Nat /\ Sec(clock') \in Nat /\ Sec(clock) <= Sec(clock')
  BY <1>1, SecType, SecMonotone
<1>3. ASSUME NEW r \in told'
      PROVE  ToldRight(r, log, clock') /\ \A p \in Procs : Later(todo[p], r.at)
  <2>1. CASE r \in told
    <3>1. /\ r.at < Sec(clock) /\ r.at \in Nat
          /\ \A k \in Keys, m \in Moments : r.answers[k][m] = BeliefAt(Replayed(log), k, r.at, m)
          /\ \A p \in Procs : Later(todo[p], r.at)
      <4>1. r.at \in Moments
        BY <2>1 DEF IInv, TypeOK
      <4> QED
        BY <2>1, <4>1, StoreAssumption DEF HistoryInv, ToldRight
    <3> QED
      BY <1>2, <3>1 DEF ToldRight
  <2>2. CASE r \notin told
    <3>1. PICK t \in Moments : /\ Quiet /\ t < Sec(clock')
                               /\ r = [at |-> t, answers |-> AnswersAsOf(t)]
      BY <1>1, <2>2
    <3>2. PICK p \in Procs : Procs = {p}
      BY DEF OneProcess
    <3>3. ~lost /\ todo[p] = <<>>
      BY <3>1 DEF Quiet, Idle
    <3>4. Serving(todo[p], facts, log, lost)
      BY <3>3, HistoryNow, HeadKinds
    <3>5. Same(facts, Replayed(log))
      BY <3>3, <3>4 DEF Serving, Caught
    <3>6. \A k \in Keys, m \in Moments :
             AnswersAsOf(t)[k][m] = BeliefAt(Replayed(log), k, t, m)
      BY <3>1, <3>5, MomentsAreMoments DEF AnswersAsOf, Same, Moment
    <3>7. \A x \in Procs : Later(todo[x], t)
      BY <3>2, <3>3 DEF Later
    <3> QED
      BY <3>1, <3>6, <3>7 DEF ToldRight
  <2> QED
    BY <2>1, <2>2
<1> QED
  BY <1>1, <1>3 DEF HistoryInv, Timeless

\* memory_store and memory_forget start, and a store is stamped.
LEMMA HistoryStore ==
    ASSUME IInv, OneProcess, HistoryInv, NEW p \in Procs,
           NEW k \in Keys, NEW tags \in SUBSET Tags, NEW ttl \in TTLs,
           NEW from \in Bounds, NEW to \in Bounds, StoreCall(p, k, tags, ttl, from, to)
    PROVE  HistoryInv'
<1> DEFINE e == Fact(k, tags, ttl, from, to)
           s == [do |-> "stamp", e |-> e]
<1>1. /\ todo[p] = <<>> /\ todo' = [todo EXCEPT ![p] = << s >>]
      /\ UNCHANGED <<clock, log, facts, lost, told>>
  BY DEF StoreCall, Idle
<1>2. lost \/ Same(facts, Replayed(log))
  BY <1>1, HistoryNow, HeadKinds DEF Serving, Caught
<1>3. s.do = "stamp"
  OBVIOUS
<1> HIDE DEF s
<1>4. DOMAIN << s >> = {1} /\ << s >>[1] = s
  OBVIOUS
<1>5. Shape(<< s >>, facts, log, lost')
  <2>1. \A i \in DOMAIN << s >> : << s >>[i].do = "stamp"
    BY <1>3, <1>4
  <2>2. lost' = lost /\ 1 \in DOMAIN << s >>
    BY <1>1, <1>4
  <2> DEFINE q == << s >>
  <2> HIDE DEF q
  <2>3. lost' \/ Same(facts, Replayed(log))
    BY <1>2, <2>2
  <2>4. \A i \in DOMAIN q : q[i].do = "stamp"
    BY <2>1 DEF q
  <2>5. 1 \in DOMAIN q
    BY <2>2 DEF q
  <2>6. Shape(q, facts, log, lost')
    BY <2>3, <2>4, <2>5 DEF Shape, Serving, Caught
  <2> QED
    BY <2>6 DEF q
<1>6. \A r \in told : Later(<< s >>, r.at)
  BY <1>3, <1>4 DEF Later
<1> QED
  BY <1>1, <1>5, <1>6, HistoryCall

\* Writes of d and t, one after the other.
InTurn(q, d, t) ==
    /\ \A i \in DOMAIN q : q[i].do \in {"append", "apply"} /\ q[i].e \in {d, t}
    /\ \A i \in DOMAIN q : q[i].do = "apply" /\ i + 1 \in DOMAIN q => q[i + 1].do = "append"
    /\ q # <<>> /\ q[1].do = "append"

\* Two writes, or one, are in turn.
LEMMA WritesInTurn ==
    ASSUME NEW d, NEW t, NEW q \in {Write(d), Write(t), Write(d) \o Write(t)}
    PROVE  InTurn(q, d, t)
<1> DEFINE da == [do |-> "append", e |-> d]
           di == [do |-> "apply", e |-> d, line |-> 0]
           ta == [do |-> "append", e |-> t]
           ti == [do |-> "apply", e |-> t, line |-> 0]
           T == {da, di, ta, ti}
<1>1. /\ da.do = "append" /\ ta.do = "append" /\ di.do = "apply" /\ ti.do = "apply"
      /\ da.e = d /\ di.e = d /\ ta.e = t /\ ti.e = t
  OBVIOUS
<1>2. Write(d) = << da, di >> /\ Write(t) = << ta, ti >>
  BY DEF Write
<1> HIDE DEF da, di, ta, ti
<1>3. << da, di >> \in Seq(T) /\ << ta, ti >> \in Seq(T)
  OBVIOUS
<1>4. CASE q = << da, di >> \/ q = << ta, ti >>
  <2>1. DOMAIN q = {1, 2} /\ q # <<>>
    BY <1>4
  <2>2. \/ q[1] = da /\ q[2] = di
        \/ q[1] = ta /\ q[2] = ti
    BY <1>4
  <2> QED
    BY <1>1, <2>1, <2>2 DEF InTurn
<1>5. CASE q = << da, di >> \o << ta, ti >>
  <2> DEFINE x == << da, di >>
             y == << ta, ti >>
  <2>1. /\ Len(x) = 2 /\ Len(y) = 2 /\ x[1] = da /\ x[2] = di /\ y[1] = ta /\ y[2] = ti
        /\ x \in Seq(T) /\ y \in Seq(T)
    BY <1>3
  <2> HIDE DEF x, y, T
  <2>2. /\ x \o y \in Seq(T) /\ Len(x \o y) = 4
        /\ \A i \in 1..4 : (x \o y)[i] = IF i <= 2 THEN x[i] ELSE y[i - 2]
    <3>1. /\ x \o y \in Seq(T) /\ Len(x \o y) = Len(x) + Len(y)
          /\ \A i \in 1..(Len(x) + Len(y)) :
                (x \o y)[i] = IF i <= Len(x) THEN x[i] ELSE y[i - Len(x)]
      BY ONLY <2>1, ConcatProperties, Zenon
    <3>2. Len(x) + Len(y) = 4 /\ Len(x) = 2
      BY <2>1
    <3> QED
      BY <3>1, <3>2
  <2>3. q = x \o y
    BY <1>5 DEF x, y
  <2>4. Len(q) = 4 /\ DOMAIN q = 1..4
    BY <2>2, <2>3, LenProperties
  <2>5. q[1] = da /\ q[2] = di /\ q[3] = ta /\ q[4] = ti
    BY <2>1, <2>2, <2>3
  <2>6. DOMAIN q = {1, 2, 3, 4}
    BY <2>4
  <2>7. q # <<>>
    BY <2>6
  <2> QED
    BY <1>1, <2>5, <2>6, <2>7 DEF InTurn
<1> QED
  BY <1>2, <1>4, <1>5

\* A call whose entries are stamped now, once they are.
LEMMA HistoryWrite ==
    ASSUME IInv, OneProcess, HistoryInv, NEW p \in Procs,
           lost \/ Same(facts, Replayed(log)),
           NEW d, d.updated = clock, NEW t, t.updated = clock,
           NEW q \in {Write(d), Write(t), Write(d) \o Write(t)},
           todo' = [todo EXCEPT ![p] = q], UNCHANGED <<clock, log, facts, lost, told>>
    PROVE  HistoryInv'
<1>1. /\ \A i \in DOMAIN q : q[i].do \in {"append", "apply"} /\ q[i].e \in {d, t}
      /\ \A i \in DOMAIN q : q[i].do = "apply" /\ i + 1 \in DOMAIN q => q[i + 1].do = "append"
      /\ q # <<>> /\ q[1].do = "append"
  <2>1. InTurn(q, d, t)
    BY WritesInTurn
  <2> QED
    BY <2>1 DEF InTurn
<1>2. Shape(q, facts, log, lost')
  BY <1>1 DEF Shape, Serving, Caught
<1>3. \A r \in told : Later(q, r.at)
  BY <1>1 DEF Later, HistoryInv, ToldRight
<1> QED
  BY <1>2, <1>3, HistoryCall

\* The stamp is not before a second told.
LEMMA HistoryStamp ==
    ASSUME IInv, OneProcess, HistoryInv, NEW p \in Procs, Stamp(p)
    PROVE  HistoryInv'
<1> DEFINE s == Head(todo[p])
           e == [s.e EXCEPT !.updated = clock]
<1>1. /\ todo[p] # <<>> /\ s.do = "stamp" /\ todo[p] \in Seq(Steps)
      /\ todo' = [todo EXCEPT ![p] = Write(e)]
      /\ UNCHANGED <<clock, log, facts, lost, told>>
  BY DEF Stamp, At, Idle, IInv, TypeOK
<1>2. s = todo[p][1] /\ 1 \in DOMAIN todo[p] /\ s \in Steps
  BY <1>1
<1>3. s.e \in EntryType
  BY <1>1, <1>2, StepKinds
<1>4. e.updated = clock
  BY <1>3 DEF EntryType
<1>5. Serving(todo[p], facts, log, lost)
  BY <1>1, HistoryNow, HeadKinds
<1>6. lost \/ Same(facts, Replayed(log))
  BY <1>1, <1>2, <1>5 DEF Serving, Caught
<1> HIDE DEF e
<1> QED
  BY <1>1, <1>4, <1>6, HistoryWrite

\* A forget starts: two tombstones at most.
LEMMA HistoryForget ==
    ASSUME IInv, OneProcess, HistoryInv, NEW p \in Procs, NEW k \in Keys \cup {NoKey},
           NEW tags \in SUBSET Tags, ForgetCall(p, k, tags)
    PROVE  HistoryInv'
<1> DEFINE d == Tombstone("delete", k, {}, clock)
           t == Tombstone("delete_tags", NoKey, tags, clock)
           a == IF k # NoKey THEN Write(d) ELSE <<>>
           b == IF tags # {} THEN Write(t) ELSE <<>>
<1>1. /\ todo[p] = <<>> /\ todo' = [todo EXCEPT ![p] = a \o b]
      /\ k # NoKey \/ tags # {}
      /\ UNCHANGED <<clock, log, facts, lost, told>>
  BY DEF ForgetCall, Idle
<1>2. lost \/ Same(facts, Replayed(log))
  BY <1>1, HistoryNow, HeadKinds DEF Serving, Caught
<1>3. d.updated = clock /\ t.updated = clock
  BY DEF Tombstone
<1> HIDE DEF d, t
<1>4. /\ Write(d) \o <<>> = Write(d) /\ <<>> \o Write(t) = Write(t)
  BY DEF Write
<1>5. a \o b \in {Write(d), Write(t), Write(d) \o Write(t)}
  BY <1>1, <1>4
<1> HIDE DEF a, b
<1> QED
  BY <1>1, <1>2, <1>3, <1>5, HistoryWrite

\* One more entry leaves the replay an index like any other.
LEMMA ReplayGrows ==
    ASSUME NEW l \in Seq(LogType), ReplayGood(l), NEW w \in LogType, Named(w), Timed(w),
           \A i \in 1..Len(l) : l[i].updated <= w.updated
    PROVE  ReplayGood(Append(l, w))
<1> DEFINE n == Len(l)
           r == Append(l, w)
           T == Replayed(l)
           R == ApplyEntry(T, w, n + 1)
<1>1. /\ n \in Nat /\ Len(r) = n + 1 /\ r[n + 1] = w /\ n + 1 \in 1..Len(r) /\ n + 1 \in Nat
      /\ \A i \in 1..n : r[i] = l[i] /\ i \in 1..Len(r)
  OBVIOUS
<1>2. w \in EntryType /\ Written(w) = w /\ w.updated \in Nat /\ Sec(w.updated) = w.updated
  BY WrittenTwice DEF LogType, EntryType, Ticks
<1>3. /\ T \in SUBSET VersionType(Keys, Tags) /\ GoodRows(T, r) /\ OneIn(T)
      /\ \A v \in T : WellFormed(v)
  BY RowsGrow DEF ReplayGood, GoodRows
<1>4. Replayed(r) = R
  BY ReplayedAppend
<1>5. StampedIn(T, Sec(w.updated))
  BY <1>2 DEF ReplayGood
<1> HIDE DEF r, n, T
<1>6. R \in SUBSET VersionType(Keys, Tags) /\ GoodRows(R, r) /\ OneIn(R)
  BY <1>1, <1>2, <1>3, ApplyKeeps
<1>7. StampedIn(R, Sec(w.updated))
  BY <1>1, <1>2, <1>3, <1>5, ApplyStamps
<1> HIDE DEF R
<1>8. ASSUME NEW t \in Nat, \A i \in 1..Len(r) : r[i].updated <= t
      PROVE  StampedIn(R, t)
  <2>1. w.updated <= t
    BY <1>1, <1>8
  <2>2. \A v \in R : v.tf \in Nat /\ v.tt \in Nat
    BY <1>6 DEF VersionType, Ticks
  <2> QED
    BY <1>2, <1>7, <2>1, <2>2 DEF StampedIn, Stamped
<1>9. ReplayGood(r)
  BY <1>4, <1>6, <1>8 DEF ReplayGood
<1> QED
  BY <1>9 DEF r

\* An entry reaches the log.
LEMMA HistoryAppend ==
    ASSUME IInv, OrderInv, OneProcess, HistoryInv, NEW p \in Procs, AppendLog(p), Timeless'
    PROVE  HistoryInv'
<1> DEFINE q == todo[p]
           e == q[1].e
           w == Written(e)
           n == Len(log)
           t == Appended(q, n + 1)
<1>1. /\ q \in Seq(Steps) /\ q # <<>> /\ Head(q).do = "append" /\ GoodCall(q, log)
      /\ log \in Seq(LogType) /\ n \in Nat /\ n + 1 \in Nat
  BY DEF AppendLog, At, Idle, IInv, TypeOK, GoodCalls
<1>2. /\ Head(q) = q[1] /\ 1 \in DOMAIN q /\ e \in EntryType
      /\ DOMAIN t = 1..(Len(q) - 1) /\ 1 \in DOMAIN t
      /\ t[1].do = "apply" /\ t[1].e = e /\ t[1].line = n + 1
      /\ \A i \in 1..(Len(q) - 1) :
            /\ i + 1 \in DOMAIN q /\ t[i].do = q[i + 1].do
            /\ Writing(q[i + 1]) => t[i].e = q[i + 1].e
  BY <1>1, AppendedCall
<1>3. /\ log' = Append(log, w) /\ todo' = [todo EXCEPT ![p] = t]
      /\ UNCHANGED <<clock, facts, lost, told>>
  BY <1>2 DEF AppendLog, Appended
<1>4. q[1].do = "append" /\ Writing(q[1]) /\ Named(e) /\ Timed(e)
  BY <1>1, <1>2 DEF Writing, GoodCall, GoodStep
<1>5. w \in LogType /\ w.updated = Sec(e.updated) /\ Named(w) /\ Timed(w) /\ w \in EntryType
      /\ Sec(w.updated) = w.updated
  BY <1>2, <1>4, WrittenEntry DEF LogType
<1>6. /\ Len(log') = n + 1 /\ log'[n + 1] = w /\ n + 1 \in 1..Len(log')
      /\ \A j \in 1..n : log'[j] = log[j]
      /\ \A j \in 1..Len(log') : j = n + 1 \/ j \in 1..n
  BY <1>1, <1>3, <1>5
<1>7. /\ InOrder(q, facts, log, clock) /\ Shape(q, facts, log, lost)
      /\ Serving(q, facts, log, lost) /\ facts \in SUBSET VersionType(Keys, Tags)
      /\ GoodRows(facts, log) /\ OneIn(facts)
  BY <1>1, HistoryNow, HeadKinds DEF OrderInv, IInv
<1>8. \A j \in 1..n : log[j].updated <= w.updated
  BY <1>2, <1>4, <1>5, <1>7 DEF InOrder
<1>9. ReplayGood(log) /\ ReplayGood(log')
  BY <1>1, <1>3, <1>5, <1>8, ReplayGrows DEF HistoryInv
<1>10. Replayed(log') = ApplyEntry(Replayed(log), w, n + 1)
  BY <1>1, <1>3, <1>5, ReplayedAppend
<1>11. GoodRows(facts, log') /\ GoodRows(Replayed(log), log')
  BY <1>1, <1>3, <1>5, <1>7, <1>9, RowsGrow DEF ReplayGood
<1>12. StampedIn(facts, Sec(e.updated)) /\ StampedIn(Replayed(log), Sec(e.updated))
  <2>1. w.updated \in Nat
    BY <1>5 DEF EntryType, Ticks
  <2> QED
    BY <1>2, <1>4, <1>5, <1>7, <1>8, <1>9, <2>1 DEF InOrder, ReplayGood
<1> HIDE DEF q, t, w, n, e
<1>13. lost \/ Same(ApplyEntry(facts, e, n + 1), Replayed(log'))
  <2> SUFFICES ASSUME ~lost
               PROVE  Same(ApplyEntry(facts, e, n + 1), Replayed(log'))
    OBVIOUS
  <2>1. Same(facts, Replayed(log))
    BY <1>4, <1>7 DEF Serving, Caught
  <2>2. /\ ApplyEntry(facts, e, n + 1) \in SUBSET VersionType(Keys, Tags)
        /\ \A v \in ApplyEntry(facts, e, n + 1) : WellFormed(v)
    BY <1>1, <1>2, <1>4, <1>6, <1>7, <1>11, ApplyKeeps DEF GoodRows, w
  <2>3. /\ Replayed(log) \in SUBSET VersionType(Keys, Tags)
        /\ Replayed(log') \in SUBSET VersionType(Keys, Tags)
        /\ \A v \in Replayed(log') : WellFormed(v)
    BY <1>9 DEF ReplayGood, GoodRows
  <2>4. Replayed(log') = ApplyEntry(Replayed(log), Written(e), n + 1)
    BY <1>10 DEF w
  <2> QED
    BY <1>1, <1>2, <1>4, <1>7, <1>11, <1>12, <2>1, <2>2, <2>3, <2>4, ApplySame
<1>14. Shape(t, facts, log', lost)
  <2>1. \A i \in DOMAIN t : t[i].do \in {"stamp", "append", "apply"}
    BY <1>2, <1>7 DEF Serving
  <2>2. ASSUME NEW i \in DOMAIN t, t[i].do = "apply", i + 1 \in DOMAIN t
        PROVE  t[i + 1].do = "append"
    <3>1. /\ i \in 1..(Len(q) - 1) /\ i + 1 \in 1..(Len(q) - 1)
          /\ i + 1 \in DOMAIN q /\ (i + 1) + 1 \in DOMAIN q
      BY <1>2, <2>2
    <3>2. q[i + 1].do = "apply" /\ t[i + 1].do = q[(i + 1) + 1].do
      BY <1>2, <2>2, <3>1
    <3> QED
      BY <1>7, <3>1, <3>2 DEF Serving
  <2>3. t # <<>>
    BY <1>2
  <2> QED
    BY <1>2, <1>13, <2>1, <2>2, <2>3 DEF Shape, Serving, Caught
<1>15. ASSUME NEW r \in told
       PROVE  ToldRight(r, log', clock) /\ Later(t, r.at)
  <2>1. /\ r.at \in Nat /\ ToldRight(r, log, clock) /\ Later(q, r.at)
    BY StoreAssumption DEF HistoryInv, IInv, TypeOK, q
  <2>2. r.at < Sec(w.updated)
    BY <1>2, <1>4, <1>5, <2>1 DEF Later, e
  <2>3. ASSUME NEW k, NEW m
        PROVE  BeliefAt(Replayed(log'), k, r.at, m) = BeliefAt(Replayed(log), k, r.at, m)
    BY <1>1, <1>5, <1>9, <1>10, <2>1, <2>2, ApplyPast DEF ReplayGood
  <2>4. ToldRight(r, log', clock)
    BY <2>1, <2>3 DEF ToldRight
  <2>5. \A i \in DOMAIN t : t[i].do = "append" => r.at < Sec(t[i].e.updated)
    BY <1>2, <2>1 DEF Later, Writing
  <2> QED
    BY <2>4, <2>5 DEF Later
<1>16. \A r \in Procs : todo'[r] = t
  BY <1>3 DEF IInv, TypeOK, OneProcess
<1> QED
  BY <1>3, <1>9, <1>14, <1>15, <1>16 DEF HistoryInv

\* The rows an entry without a time to live leaves do not expire either.
LEMMA ApplyLasting ==
    ASSUME NEW S \in SUBSET VersionType(Keys, Tags), \A v \in S : WellFormed(v) /\ v.ttl <= 0,
           NEW e \in EntryType, Named(e), Timed(e), e.ttl <= 0, NEW line \in Nat,
           StampedIn(S, Sec(e.updated)), NEW w \in ApplyEntry(S, e, line)
    PROVE  w.ttl <= 0
<1>1. e.updated \in Nat /\ e.updated >= Resolution /\ e.op \in {"store", "delete", "delete_tags"}
  BY ApplyForms DEF EntryType
<1>2. CASE e.op = "store"
  <2> DEFINE f == CallOf(e, line)
  <2>1. /\ f \in Call(Keys, Tags) /\ ApplyEntry(S, e, line) = Put(S, f)
        /\ f.updated = e.updated /\ f.ttl = e.ttl
    BY <1>2, CallOfEntry DEF CallOf
  <2> HIDE DEF f
  <2>2. w = NewVersion(f) \/ \E p \in S : SameFact(w, p)
    BY <2>1, PutKeepsRows DEF StampedIn
  <2>3. NewVersion(f).ttl = f.ttl
    BY <2>1, NewFields
  <2> QED
    BY <2>1, <2>2, <2>3 DEF SameFact
<1>3. CASE e.op # "store"
  <2>1. PICK D \in SUBSET S : ApplyEntry(S, e, line) = Forget(S, D, e.updated)
    BY <1>1, <1>3 DEF ApplyEntry, DeleteByEntity, DeleteByTags
  <2>2. /\ w \in Forget(S, D, e.updated)
        /\ \A v \in S : WellFormed(v)
        /\ \A v \in S : Stamped(v, Sec(e.updated))
    BY <2>1 DEF StampedIn
  <2>3. \E p \in S : SameFact(w, p)
    BY ONLY <1>1, <2>2, S \in SUBSET VersionType(Keys, Tags), D \in SUBSET S, ForgetKeepsRows
  <2> QED
    BY <2>3 DEF SameFact
<1> QED
  BY <1>2, <1>3

\* An entry reaches the index, at once or in a replay.
LEMMA HistoryApply ==
    ASSUME IInv, OrderInv, OneProcess, HistoryInv, NEW p \in Procs, ApplyIndex(p)
    PROVE  HistoryInv'
<1> DEFINE q == todo[p]
           s == q[1]
<1>1. /\ q \in Seq(Steps) /\ q # <<>> /\ Head(q).do = "apply" /\ GoodCall(q, log)
      /\ log \in Seq(LogType) /\ facts \in SUBSET VersionType(Keys, Tags)
      /\ \A v \in facts : WellFormed(v) /\ v.ttl <= 0
      /\ Shape(q, facts, log, lost)
  BY DEF ApplyIndex, At, Idle, IInv, TypeOK, GoodCalls, GoodRows, HistoryInv
<1>2. /\ Head(q) = s /\ 1 \in DOMAIN q /\ s \in Steps /\ s.do = "apply"
      /\ DOMAIN Tail(q) = 1..(Len(q) - 1) /\ Len(q) \in Nat
      /\ \A i \in 1..(Len(q) - 1) : Tail(q)[i] = q[i + 1] /\ i + 1 \in DOMAIN q
  BY <1>1
<1>3. GoodStep(q, 1, log)
  BY <1>1, <1>2 DEF GoodCall
<1>4. s.e \in EntryType /\ Named(s.e) /\ Timed(s.e) /\ s.line \in Nat /\ s.e.ttl <= 0
  <2>1. /\ s.e \in EntryType /\ Named(s.e) /\ Timed(s.e)
        /\ s.line \in 1..Len(log) /\ log[s.line] = Written(s.e)
    BY <1>1, <1>2, <1>3, StepKinds DEF GoodStep
  <2>2. Written(s.e).ttl = 0
    BY <2>1 DEF HistoryInv, Timeless
  <2>3. s.e.ttl \in Int /\ (s.e.ttl > 0 => Written(s.e).ttl = s.e.ttl)
    BY <2>1 DEF Written, EntryType
  <2> QED
    BY <2>1, <2>2, <2>3
<1>5. /\ facts' = ApplyEntry(facts, s.e, s.line) /\ todo' = [todo EXCEPT ![p] = Tail(q)]
      /\ UNCHANGED <<clock, log, lost, told>>
  BY <1>2 DEF ApplyIndex
<1>6. StampedIn(facts, Sec(s.e.updated))
  BY <1>2 DEF OrderInv, InOrder, Writing
<1> HIDE DEF q, s
<1>7. \A v \in facts' : v.ttl <= 0
  BY <1>1, <1>4, <1>5, <1>6, ApplyLasting
<1>9. \A r \in told : Later(Tail(q), r.at)
  <2> SUFFICES ASSUME NEW r \in told
               PROVE  Later(Tail(q), r.at)
    OBVIOUS
  <2>1. Later(q, r.at)
    BY DEF HistoryInv, q
  <2> QED
    BY <1>2, <2>1 DEF Later
<1>10. Shape(Tail(q), facts', log, lost)
  <2>1. CASE Serving(q, facts, log, lost)
    <3>1. \A i \in DOMAIN Tail(q) : Tail(q)[i].do \in {"stamp", "append", "apply"}
      BY <1>2, <2>1 DEF Serving
    <3>2. ASSUME NEW i \in DOMAIN Tail(q), Tail(q)[i].do = "apply", i + 1 \in DOMAIN Tail(q)
          PROVE  Tail(q)[i + 1].do = "append"
      <4>1. /\ i \in 1..(Len(q) - 1) /\ i + 1 \in 1..(Len(q) - 1)
            /\ i + 1 \in DOMAIN q /\ (i + 1) + 1 \in DOMAIN q
        BY <1>2, <3>2
      <4>2. q[i + 1].do = "apply" /\ Tail(q)[i + 1] = q[(i + 1) + 1]
        BY <1>2, <3>2, <4>1
      <4> QED
        BY <2>1, <4>1, <4>2 DEF Serving
    <3>3. 1 \in DOMAIN Tail(q) => Tail(q)[1].do = "append"
      <4> SUFFICES ASSUME 1 \in DOMAIN Tail(q)
                   PROVE  Tail(q)[1].do = "append"
        OBVIOUS
      <4>1. 1 + 1 \in DOMAIN q /\ Tail(q)[1] = q[1 + 1]
        BY <1>2
      <4> QED
        BY <1>2, <2>1, <4>1 DEF Serving, s
    <3>4. Tail(q) # <<>> => 1 \in DOMAIN Tail(q)
      <4>1. Tail(q) \in Seq(Steps)
        BY <1>1
      <4> QED
        BY <4>1
    <3>5. lost \/ Same(facts', Replayed(log))
      BY <1>1, <1>2, <1>5, <2>1 DEF Serving, Caught, s
    <3> QED
      BY <3>1, <3>2, <3>3, <3>4, <3>5 DEF Shape, Serving, Caught
  <2>2. CASE \E n \in Nat : /\ n < Len(log) /\ q = Rest(log, n)
                            /\ facts = Replayed(SubSeq(log, 1, n))
    <3>1. PICK n \in Nat : /\ n < Len(log) /\ q = Rest(log, n)
                           /\ facts = Replayed(SubSeq(log, 1, n))
      BY <2>2
    <3>2. n + 1 \in 0..Len(log) /\ n \in 0..Len(log)
      BY <1>1, <3>1
    <3>3. Tail(q) = Rest(log, n + 1)
      BY <1>1, <3>1, RestTail
    <3>4. s = [do |-> "apply", e |-> log[n + 1], line |-> n + 1]
      BY <1>1, <3>1, <3>2, RestSteps DEF s
    <3>5. s.e = log[n + 1] /\ s.line = n + 1
      BY <3>4
    <3>6. facts' = Replayed(SubSeq(log, 1, n + 1))
      BY <1>1, <1>5, <3>1, <3>5, ReplayedNext
    <3> QED
      BY <3>2, <3>3, <3>6 DEF Shape, Replaying
  <2> QED
    BY <1>1, <2>1, <2>2, HeadKinds
<1>11. \A r \in Procs : todo'[r] = Tail(q)
  BY <1>5 DEF IInv, TypeOK, OneProcess
<1>12. \A r \in told : ToldRight(r, log, clock)
  BY DEF HistoryInv
<1> QED
  BY <1>5, <1>7, <1>9, <1>10, <1>11, <1>12 DEF HistoryInv, Timeless

\* The tables are dropped; the log is read, whole.
LEMMA HistoryReset ==
    ASSUME IInv, OneProcess, HistoryInv, NEW p \in Procs, Reset(p)
    PROVE  HistoryInv'
<1> DEFINE q == << [do |-> "read"] >>
<1>1. /\ facts' = {} /\ todo' = [todo EXCEPT ![p] = q]
      /\ UNCHANGED <<clock, log, lost, told>>
  BY DEF Reset
<1>2. DOMAIN q = {1} /\ q[1].do = "read"
  OBVIOUS
<1>3. Shape(q, facts', log, lost)
  BY DEF Shape, Reading
<1> HIDE DEF q
<1>4. \A r \in Procs : todo'[r] = q
  BY <1>1 DEF IInv, TypeOK, OneProcess
<1>5. \A t : Later(q, t)
  BY <1>2 DEF Later
<1>6. \A r \in told : ToldRight(r, log, clock)
  BY DEF HistoryInv
<1> QED
  BY <1>1, <1>3, <1>4, <1>5, <1>6 DEF HistoryInv, Timeless

\* The log is read: every entry, in file order, since none expires.
LEMMA HistoryRead ==
    ASSUME IInv, OrderInv, OneProcess, HistoryInv, NEW p \in Procs, ReadLog(p)
    PROVE  HistoryInv'
<1>1. /\ todo[p] \in Seq(Steps) /\ todo[p] # <<>> /\ Head(todo[p]).do = "read"
      /\ log \in Seq(LogType)
      /\ UNCHANGED <<clock, log, facts, lost, told>>
  BY DEF ReadLog, At, Idle, IInv, TypeOK
<1>2. facts = {}
  <2>1. 1 \in DOMAIN todo[p] /\ todo[p][1].do = "read"
    BY <1>1
  <2> QED
    BY <2>1 DEF OrderInv, InOrder
<1>3. Replay(log, clock) = {Whole(log)}
  BY <1>1, ReplayWhole DEF OrderInv, HistoryInv, Timeless
<1> DEFINE q == Append(Whole(log), [do |-> "done"])
<1>4. todo' = [todo EXCEPT ![p] = q]
  BY <1>3 DEF ReadLog
<1>5. q = Rest(log, 0)
  BY <1>1, RestWhole
<1> HIDE DEF q
<1>6. SubSeq(log, 1, 0) = <<>> /\ 0 \in 0..Len(log)
  BY <1>1
<1>7. Shape(q, facts, log, lost')
  BY <1>2, <1>5, <1>6, ReplayedEmpty DEF Shape, Replaying
<1>8. \A i \in DOMAIN q : \/ q[i].do = "done"
                          \/ q[i].do = "apply" /\ \E j \in 1..Len(log) : q[i].e = log[j]
  <2>1. \A i \in DOMAIN Rest(log, 0) :
           \/ Rest(log, 0)[i].do = "done"
           \/ /\ Rest(log, 0)[i].do = "apply"
              /\ \E j \in 1..Len(log) : Rest(log, 0)[i].e = log[j]
    BY <1>1, <1>6, RestSteps
  <2> QED
    BY <1>5, <2>1
<1>9. \A r \in told : Later(q, r.at)
  BY <1>8 DEF Later
<1> QED
  BY <1>1, <1>4, <1>7, <1>9, HistoryCall

\* The call ends, done or not.
LEMMA HistoryEnd ==
    ASSUME IInv, OneProcess, HistoryInv, NEW p \in Procs, Rescanned(p) \/ Fail(p)
    PROVE  HistoryInv'
<1> DEFINE q == todo[p]
<1>1. /\ q \in Seq(Steps) /\ log \in Seq(LogType) /\ q # <<>> /\ Shape(q, facts, log, lost)
      /\ todo' = [todo EXCEPT ![p] = <<>>] /\ UNCHANGED <<clock, log, facts, told>>
      /\ Head(q).do \in {"stamp", "append", "apply", "read", "done"}
      /\ lost' \/ Head(q).do = "done" \/ (Head(q).do \in {"stamp", "append"} /\ ~lost)
  <2>1. q \in Seq(Steps) /\ log \in Seq(LogType) /\ q # <<>> /\ Shape(q, facts, log, lost)
    BY HistoryNow DEF Rescanned, Fail, At, Idle
  <2>2. Head(q) \in Steps
    BY <2>1
  <2>3. Head(q).do \in {"stamp", "append", "apply", "read", "done"}
    BY <2>2, StepKinds
  <2> QED
    BY <2>1, <2>3 DEF Rescanned, Fail, At, IInv, TypeOK
<1>2. lost' \/ Same(facts, Replayed(log))
  <2>1. CASE Head(q).do = "done"
    <3>1. facts = Replayed(log)
      BY <1>1, <2>1, HeadKinds
    <3> QED
      BY <3>1 DEF Same
  <2>2. CASE Head(q).do \in {"stamp", "append"} /\ ~lost
    <3>1. Serving(q, facts, log, lost) /\ Head(q) = q[1]
      BY <1>1, <2>2, HeadKinds
    <3> QED
      BY <2>2, <3>1 DEF Serving, Caught
  <2> QED
    BY <1>1, <2>1, <2>2
<1>3. Shape(<<>>, facts, log, lost')
  BY <1>2 DEF Shape, Serving, Caught
<1>4. \A t : Later(<<>>, t)
  BY DEF Later
<1> HIDE DEF q
<1> QED
  BY <1>1, <1>3, <1>4, HistoryCall

\* Nothing has expired.
LEMMA HistoryPrune ==
    ASSUME IInv, HistoryInv, NEW p \in Procs, Prune(p)
    PROVE  HistoryInv'
<1>1. \A v \in facts : v.ttl <= 0 /\ v.ttl \in Int
  BY DEF HistoryInv, IInv, TypeOK, VersionType
<1>2. PurgeExpired(facts, clock) = facts
  BY <1>1 DEF PurgeExpired
<1>3. UNCHANGED vars
  BY <1>2 DEF Prune, vars
<1> QED
  BY <1>3 DEF HistoryInv, Timeless, vars

\* Every step keeps the invariant, unless it brings a time to live into the log.
LEMMA NextHistory ==
    ASSUME IInv, OrderInv, OneProcess, HistoryInv, [Next]_vars, Timeless'
    PROVE  HistoryInv'
<1>1. CASE UNCHANGED vars
  BY <1>1 DEF vars, HistoryInv, Timeless
<1>2. CASE Tick
  BY <1>2, HistoryTick
<1>3. ASSUME NEW p \in Procs, NEW k \in Keys, NEW tags \in SUBSET Tags, NEW ttl \in TTLs,
             NEW from \in Bounds, NEW to \in Bounds, StoreCall(p, k, tags, ttl, from, to)
      PROVE  HistoryInv'
  BY <1>3, HistoryStore
<1>4. ASSUME NEW p \in Procs, NEW k \in Keys \cup {NoKey}, NEW tags \in SUBSET Tags,
             ForgetCall(p, k, tags)
      PROVE  HistoryInv'
  BY <1>4, HistoryForget
<1>5. ASSUME NEW p \in Procs, Stamp(p) \/ AppendLog(p) \/ ApplyIndex(p)
      PROVE  HistoryInv'
  BY <1>5, HistoryStamp, HistoryAppend, HistoryApply
<1>6. ASSUME NEW p \in Procs, Reset(p) \/ ReadLog(p) \/ Rescanned(p) \/ Prune(p) \/ Fail(p)
      PROVE  HistoryInv'
  BY <1>6, HistoryReset, HistoryRead, HistoryEnd, HistoryPrune
<1> QED
  BY <1>1, <1>2, <1>3, <1>4, <1>5, <1>6 DEF Next

\* An empty log replays to an empty index.
LEMMA InitHistory == Init => HistoryInv
<1> SUFFICES ASSUME Init
             PROVE  HistoryInv
  OBVIOUS
<1>1. log = <<>> /\ Len(<<>>) = 0 /\ Replayed(log) = {} /\ facts = {} /\ told = {}
  BY ReplayedEmpty DEF Init
<1>2. ReplayGood(log)
  BY <1>1 DEF ReplayGood, GoodRows, OneIn, Belief, StampedIn
<1>3. \A p \in Procs : Shape(todo[p], facts, log, lost)
  BY <1>1 DEF Init, Shape, Serving, Caught, Same
<1> QED
  BY <1>1, <1>2, <1>3 DEF HistoryInv, Timeless

\* The log only grows: what expires in it is never taken out.
LEMMA TimelessBefore ==
    ASSUME IInv, [Next]_vars, Timeless'
    PROVE  Timeless
<1>1. log \in Seq(LogType)
  BY DEF IInv, TypeOK
<1>2. log' = log \/ \E w \in LogType : log' = Append(log, w)
  BY RowsChange
<1>3. Len(log) \in Nat /\ Len(log) <= Len(log') /\ \A i \in 1..Len(log) : log'[i] = log[i]
  BY <1>1, <1>2
<1>4. Len(log') \in Nat
  BY <1>1, <1>2
<1> QED
  BY <1>3, <1>4 DEF Timeless

\* The index is, at every step of every call, rescan and failure, what a replay
\* of the log answers, short of the entry just appended or of one that was lost,
\* as long as no fact in the log has a time to live.
THEOREM HistoryAlways ==
    ASSUME OneProcess
    PROVE  Spec => [](IInv /\ OrderInv /\ (Timeless => HistoryInv))
<1>1. IInv /\ OrderInv /\ (Timeless => HistoryInv) /\ [Next]_vars
         => (IInv /\ OrderInv /\ (Timeless => HistoryInv))'
  BY NextIInv, NextOrder, NextHistory, TimelessBefore
<1>2. Init => IInv /\ OrderInv /\ (Timeless => HistoryInv)
  BY InitIInv, InitOrder, InitHistory
<1> QED
  BY <1>1, <1>2, PTL DEF Spec

-----------------------------------------------------------------------------
(* What follows from it.                                                    *)

\* With no call under way and none cut short, the index and a replay of the log
\* answer alike.
LEMMA QuietSame ==
    ASSUME IInv, OrderInv, OneProcess, HistoryInv, Quiet
    PROVE  Same(facts, Replayed(log)) /\ Rebuilt = Replayed(log)
<1>1. PICK p \in Procs : todo[p] = <<>> /\ ~lost
  BY DEF OneProcess, Quiet, Idle
<1>2. Serving(todo[p], facts, log, lost) /\ log \in Seq(LogType)
  BY <1>1, HistoryNow, HeadKinds
<1>3. Same(facts, Replayed(log))
  BY <1>1, <1>2 DEF Serving, Caught
<1>4. Replay(log, clock) = {Whole(log)}
  BY <1>2, ReplayWhole DEF OrderInv, HistoryInv, Timeless
<1>5. (CHOOSE s \in Replay(log, clock) : TRUE) = Whole(log)
  BY <1>4
<1>6. Rebuilt = Replayed(log)
  BY <1>5 DEF Rebuilt, Replayed
<1> QED
  BY <1>3, <1>6

\* A rescan changes no answer, about any moment, now or as of any time, when no
\* call is under way and no entry was lost since the last: the calls compared
\* validities at clock precision, as they came; the rescan compares the seconds
\* the log keeps, in sorted order.
THEOREM HistoryReconstructibleAlways ==
    ASSUME OneProcess
    PROVE  Spec => []HistoryReconstructible
<1>1. IInv /\ OrderInv /\ (Timeless => HistoryInv) => HistoryReconstructible
  <2> SUFFICES ASSUME IInv, OrderInv, HistoryInv, Quiet
               PROVE  \A k \in Keys, m \in Moments :
                        /\ Belief(facts, k, m) = Belief(Rebuilt, k, m)
                        /\ \A t \in Moments : BeliefAt(facts, k, t, m) = BeliefAt(Rebuilt, k, t, m)
    BY DEF HistoryReconstructible
  <2>1. Same(facts, Rebuilt)
    BY QuietSame
  <2> QED
    BY <2>1, MomentsAreMoments DEF Same, Moment
<1> QED
  BY <1>1, HistoryAlways, PTL

\* What was answered as of a second, once the second is over, is answered for
\* ever, after stores and forgets, failures and rescans.
THEOREM HistoryKeptAlways ==
    ASSUME OneProcess
    PROVE  Spec => []HistoryKept
<1>1. IInv /\ OrderInv /\ (Timeless => HistoryInv) => HistoryKept
  <2> SUFFICES ASSUME IInv, OrderInv, HistoryInv, Quiet, NEW r \in told
               PROVE  AnswersAsOf(r.at) = r.answers
    BY DEF HistoryKept
  <2>1. Same(facts, Replayed(log))
    BY QuietSame
  <2>2. /\ r.at \in Moments /\ r.answers \in [Keys -> [Moments -> SUBSET Nat]]
        /\ \A k \in Keys, m \in Moments : r.answers[k][m] = BeliefAt(Replayed(log), k, r.at, m)
    BY DEF IInv, TypeOK, HistoryInv, ToldRight
  <2>3. \A k \in Keys, m \in Moments : r.answers[k][m] = BeliefAt(facts, k, r.at, m)
    BY <2>1, <2>2, MomentsAreMoments DEF Same, Moment
  <2>4. ASSUME NEW k \in Keys
        PROVE  r.answers[k] = [m \in Moments |-> BeliefAt(facts, k, r.at, m)]
    <3>1. r.answers[k] \in [Moments -> SUBSET Nat]
      BY <2>2
    <3> QED
      BY <2>3, <3>1
  <2> QED
    BY <2>2, <2>4 DEF AnswersAsOf
<1> QED
  BY <1>1, HistoryAlways, PTL

-----------------------------------------------------------------------------
(* What a rescan keeps, with times to live.                                 *)

\* The entry e ends what the store entry d says about the moment m, if it is
\* the later of the two.
Strikes(e, d, m) ==
    \/ e.op = "store" /\ e.key = d.key /\ Inside(CallOf(e, 0), m)
    \/ e.op = "delete" /\ e.key = d.key
    \/ e.op = "delete_tags" /\ e.tags # {} /\ e.tags \subseteq d.tags

\* A rescan does not replay the fact: its time to live has elapsed.
Gone(e, now) == e.op = "store" /\ e.ttl > 0 /\ e.updated + Seconds(e.ttl) < now

\* What is left of a call applies the entry at the line j.
Awaited(q, j) == \E i \in DOMAIN q : q[i].do = "apply" /\ q[i].line = j

\* A content believed is struck by no later entry of the log, but those that a
\* rescan leaves out and the one about to be applied.
Standing(S, l, q, now) ==
    \A k : \A m \in Moment : \A x \in Belief(S, k, m) : \A j \in 1..Len(l) :
        x < j /\ Strikes(l[j], l[x], m) => Gone(l[j], now) \/ Awaited(q, j)

\* A rescan is under way: it ends with the step done.
InRescan(q) == \E i \in DOMAIN q : q[i].do \in {"read", "done"}

\* The lines of the entries to apply: a call learns them when it appends, the
\* last is the end of the log; a rescan takes those it replays in order.
Numbered(q, l, now) ==
    /\ \A i, j \in DOMAIN q :
          i < j /\ q[i].do = "append" /\ q[j].do = "apply" => q[j].line = 0
    /\ \A i, j \in DOMAIN q : q[i].do = "done" => j <= i
    /\ \A i \in DOMAIN q : \A n \in 1..Len(l) :
          q[i].do = "apply" /\ 0 < q[i].line /\ q[i].line < n =>
             \/ Gone(l[n], now)
             \/ \E h \in DOMAIN q : i < h /\ q[h].do = "apply" /\ q[h].line = n

\* The log keeps a time to live when there is one.
Timely(S, l) == \A v \in S : l[v.line].ttl = IF v.ttl > 0 THEN v.ttl ELSE 0

\* The inductive invariant: what is believed stands, unless an entry was lost
\* since the last rescan.
KeepInv ==
    /\ Timely(facts, log)
    /\ \A p \in Procs :
          /\ Numbered(todo[p], log, clock)
          /\ \/ lost /\ ~InRescan(todo[p])
             \/ Standing(facts, log, todo[p], clock)

\* What is gone stays gone.
LEMMA GoneLasts ==
    ASSUME NEW e \in LogType, NEW now \in Nat, NEW then \in Nat, now <= then, Gone(e, now)
    PROVE  Gone(e, then)
<1>1. e.updated \in Nat /\ e.ttl \in Int /\ Resolution \in Nat
  BY ResolutionAssumption DEF LogType, EntryType, Ticks
<1>2. Seconds(e.ttl) \in Int
  BY <1>1 DEF Seconds
<1> QED
  BY <1>1, <1>2 DEF Gone

\* The call in memory and the entry of the log strike the same.
LEMMA StrikesWritten ==
    ASSUME NEW e \in EntryType, Named(e), Timed(e), NEW d, NEW m \in Moment
    PROVE  Strikes(Written(e), d, m) <=> Strikes(e, d, m)
<1>1. Written(e).op = e.op /\ Written(e).key = e.key /\ Written(e).tags = e.tags
  BY WrittenEntry
<1>2. e.op = "store" => (Inside(CallOf(e, 0), m) <=> Inside(CallOf(Written(e), 0), m))
  BY WrittenInside
<1> QED
  BY <1>1, <1>2 DEF Strikes

\* What is believed once an entry is applied: what it says, and what it does
\* not strike.
LEMMA ApplyStands ==
    ASSUME NEW S \in SUBSET VersionType(Keys, Tags), NEW l, GoodRows(S, l),
           NEW e \in EntryType, Named(e), Timed(e), NEW line \in Nat, l[line] = Written(e),
           NEW k, NEW m \in Moment, NEW x
    PROVE  x \in Belief(ApplyEntry(S, e, line), k, m) <=>
              \/ x = line /\ e.op = "store" /\ k = e.key /\ Inside(CallOf(e, 0), m)
              \/ x \in Belief(S, k, m) /\ ~Strikes(l[line], l[x], m)
<1>1. Belief(ApplyEntry(S, e, line), k, m) = BeliefAfter(S, l, e, line, k, m)
  BY ApplyBelief
<1>2. Strikes(l[line], l[x], m) <=> Strikes(e, l[x], m)
  BY StrikesWritten
<1>3. x \in Belief(S, k, m) => l[x].key = k
  BY DEF Belief, GoodRows, Says
<1>4. Inside(CallOf(e, line), m) <=> Inside(CallOf(e, 0), m)
  BY DEF Inside, ValidFrom, CallOf
<1>5. e.op \in {"store", "delete", "delete_tags"}
  BY DEF EntryType
<1>6. CASE e.op = "store"
  <2>1. BeliefAfter(S, l, e, line, k, m)
          = IF k = e.key /\ Inside(CallOf(e, 0), m) THEN {line} ELSE Belief(S, k, m)
    BY <1>4, <1>6 DEF BeliefAfter
  <2> QED
    BY <1>1, <1>2, <1>3, <1>6, <2>1 DEF Strikes
<1>7. CASE e.op = "delete"
  <2>1. BeliefAfter(S, l, e, line, k, m) = IF k = e.key THEN {} ELSE Belief(S, k, m)
    BY <1>7 DEF BeliefAfter
  <2> QED
    BY <1>1, <1>2, <1>3, <1>7, <2>1 DEF Strikes
<1>8. CASE e.op = "delete_tags"
  <2>1. BeliefAfter(S, l, e, line, k, m)
          = {n \in Belief(S, k, m) : ~(e.tags # {} /\ e.tags \subseteq l[n].tags)}
    BY <1>8 DEF BeliefAfter
  <2> QED
    BY <1>1, <1>2, <1>3, <1>8, <2>1 DEF Strikes
<1> QED
  BY <1>5, <1>6, <1>7, <1>8

\* The rows an entry leaves carry its time to live, or the one they had.
LEMMA ApplyTTL ==
    ASSUME NEW S \in SUBSET VersionType(Keys, Tags), NEW e \in EntryType, NEW line,
           NEW w \in ApplyEntry(S, e, line)
    PROVE  \/ w.line = line /\ w.ttl = e.ttl
           \/ \E p \in S : w.line = p.line /\ w.ttl = p.ttl
<1>1. \A p \in S : \A a, b, c : Copy(p, a, b, c).line = p.line /\ Copy(p, a, b, c).ttl = p.ttl
  BY DEF VersionType, Copy
<1>2. \A p \in S : \A a : Close(p, a).line = p.line /\ Close(p, a).ttl = p.ttl
  BY DEF VersionType, Close
<1> DEFINE Marked(p, a) == [p EXCEPT !.deleted = Sec(a), !.tt = Sec(a)]
<1>3. \A p \in S : \A a : Marked(p, a).line = p.line /\ Marked(p, a).ttl = p.ttl
  BY DEF VersionType
<1>4. CASE e.op = "store"
  <2> DEFINE f == CallOf(e, line)
  <2>1. w \in Put(S, f) /\ f.line = line /\ f.ttl = e.ttl
    BY <1>4 DEF ApplyEntry, CallOf
  <2> HIDE DEF f
  <2>2. NewVersion(f).line = f.line /\ NewVersion(f).ttl = f.ttl
    BY DEF NewVersion
  <2>3. \A p \in Cut(S, f) : p \in S
    BY DEF Cut
  <2>4. CASE w \in Before(S, f) \/ w \in After(S, f)
    <3>1. PICK p \in S : \E a, b : w = Copy(p, a, b, f.updated)
      BY <2>3, <2>4 DEF Before, After
    <3> QED
      BY <1>1, <3>1
  <2>5. CASE w \in {Close(p, f.updated) : p \in Cut(S, f)}
    BY <1>2, <2>3, <2>5
  <2> QED
    BY <2>1, <2>2, <2>4, <2>5 DEF Put
<1>5. CASE e.op # "store"
  <2>1. PICK D \in SUBSET S : w \in Forget(S, D, e.updated)
    BY <1>5 DEF ApplyEntry, DeleteByEntity, DeleteByTags, EntryType
  <2>2. Forget(S, D, e.updated) = (S \ D) \cup {Marked(p, e.updated) : p \in D}
    BY DEF Forget
  <2> HIDE DEF Marked
  <2>3. CASE w \in S
    BY <2>3
  <2>4. CASE w \notin S
    <3>1. PICK p \in D : w = Marked(p, e.updated)
      BY <2>1, <2>2, <2>4
    <3> QED
      BY <1>3, <3>1
  <2> QED
    BY <2>3, <2>4
<1> QED
  BY <1>4, <1>5


\* What is left of a call without its first step.
LEMMA NumberedTail ==
    ASSUME NEW q \in Seq(Steps), q # <<>>, NEW l, NEW now, Numbered(q, l, now)
    PROVE  /\ Numbered(Tail(q), l, now)
           /\ InRescan(Tail(q)) => InRescan(q)
           /\ \A j : Awaited(q, j) => \/ q[1].do = "apply" /\ q[1].line = j
                                      \/ Awaited(Tail(q), j)
<1> DEFINE t == Tail(q)
<1>1. /\ Len(q) \in Nat \ {0} /\ DOMAIN q = 1..Len(q) /\ DOMAIN t = 1..(Len(q) - 1)
      /\ \A i \in DOMAIN t : t[i] = q[i + 1] /\ i + 1 \in DOMAIN q /\ i \in Int
      /\ \A i \in DOMAIN q : i \in Int /\ (i = 1 \/ (i - 1 \in DOMAIN t /\ t[i - 1] = q[i]))
  OBVIOUS
<1> HIDE DEF t
<1>2. ASSUME NEW i \in DOMAIN t, NEW j \in DOMAIN t, i < j, t[i].do = "append", t[j].do = "apply"
      PROVE  t[j].line = 0
  <2>1. i + 1 < j + 1 /\ i + 1 \in DOMAIN q /\ j + 1 \in DOMAIN q
    BY <1>1, <1>2
  <2> QED
    BY <1>1, <1>2, <2>1 DEF Numbered
<1>3. ASSUME NEW i \in DOMAIN t, NEW j \in DOMAIN t, t[i].do = "done"
      PROVE  j <= i
  <2>1. i + 1 \in DOMAIN q /\ j + 1 \in DOMAIN q /\ q[i + 1].do = "done"
    BY <1>1, <1>3
  <2>2. j + 1 <= i + 1
    BY <2>1 DEF Numbered
  <2> QED
    BY <1>1, <2>2
<1>4. ASSUME NEW i \in DOMAIN t, NEW n \in 1..Len(l),
             t[i].do = "apply", 0 < t[i].line, t[i].line < n, ~Gone(l[n], now)
      PROVE  \E h \in DOMAIN t : i < h /\ t[h].do = "apply" /\ t[h].line = n
  <2>1. i + 1 \in DOMAIN q /\ q[i + 1] = t[i]
    BY <1>1
  <2>2. PICK h \in DOMAIN q : i + 1 < h /\ q[h].do = "apply" /\ q[h].line = n
    BY <1>4, <2>1 DEF Numbered
  <2>3. h # 1 /\ i < h - 1
    BY <1>1, <2>2
  <2>4. h - 1 \in DOMAIN t /\ t[h - 1] = q[h]
    BY <1>1, <2>3
  <2> QED
    BY <2>2, <2>3, <2>4
<1>5. Numbered(t, l, now)
  BY <1>2, <1>3, <1>4 DEF Numbered
<1>6. InRescan(t) => InRescan(q)
  BY <1>1 DEF InRescan
<1>7. ASSUME NEW j, Awaited(q, j)
      PROVE  (q[1].do = "apply" /\ q[1].line = j) \/ Awaited(t, j)
  BY <1>1, <1>7 DEF Awaited
<1> QED
  BY <1>5, <1>6, <1>7 DEF t

\* Time passes: more facts are gone.
LEMMA KeepLasts ==
    ASSUME NEW q, NEW S, NEW l \in Seq(LogType), NEW now \in Nat, NEW then \in Nat, now <= then
    PROVE  /\ Numbered(q, l, now) => Numbered(q, l, then)
           /\ Standing(S, l, q, now) => Standing(S, l, q, then)
<1>1. \A n \in 1..Len(l) : Gone(l[n], now) => Gone(l[n], then)
  <2>1. \A n \in 1..Len(l) : l[n] \in LogType
    OBVIOUS
  <2> QED
    BY <2>1, GoneLasts
<1> QED
  BY <1>1 DEF Numbered, Standing

\* A step that only changes what is left of the call.
LEMMA KeepCall ==
    ASSUME IInv, OneProcess, KeepInv, NEW p \in Procs, NEW q,
           todo' = [todo EXCEPT ![p] = q], UNCHANGED <<clock, log, facts>>,
           Numbered(q, log, clock),
           (lost' /\ ~InRescan(q)) \/ Standing(facts, log, q, clock)
    PROVE  KeepInv'
<1>1. \A r \in Procs : todo'[r] = q
  BY DEF IInv, TypeOK, OneProcess
<1>2. Timely(facts', log')
  BY DEF KeepInv
<1> QED
  BY <1>1, <1>2 DEF KeepInv

\* What is believed and awaits nothing stands whatever the call.
LEMMA StandingAlone ==
    ASSUME NEW S, NEW l, NEW q, NEW now, Standing(S, l, q, now),
           \A j \in 1..Len(l) : ~Awaited(q, j), NEW t
    PROVE  Standing(S, l, t, now)
  BY DEF Standing

\* The clock moves.
LEMMA KeepTick ==
    ASSUME IInv, KeepInv, Tick
    PROVE  KeepInv'
<1>1. /\ clock \in Nat /\ clock' \in Nat /\ clock <= clock' /\ log \in Seq(LogType)
      /\ UNCHANGED <<log, facts, todo, lost>>
  BY DEF Tick, IInv, TypeOK, Ticks
<1>2. ASSUME NEW p \in Procs
      PROVE  /\ Numbered(todo[p], log, clock')
             /\ (lost /\ ~InRescan(todo[p])) \/ Standing(facts, log, todo[p], clock')
  BY <1>1, KeepLasts DEF KeepInv
<1> QED
  BY <1>1, <1>2 DEF KeepInv

\* Rows go, none comes.
LEMMA KeepPrune ==
    ASSUME IInv, KeepInv, NEW p \in Procs, Prune(p)
    PROVE  KeepInv'
<1>1. facts' \subseteq facts /\ UNCHANGED <<clock, log, todo, lost>>
  BY DEF Prune, PurgeExpired
<1>2. \A k, m : Belief(facts', k, m) \subseteq Belief(facts, k, m)
  BY <1>1 DEF Belief
<1>3. \A q : Standing(facts, log, q, clock) => Standing(facts', log, q, clock)
  BY <1>2 DEF Standing
<1> QED
  BY <1>1, <1>3 DEF KeepInv, Timely


\* A call none of whose entries is written yet, or none of which is in the log.
Unwritten(q) == \A i \in DOMAIN q : q[i].do = "stamp"

Unnumbered(q) ==
    \A i \in DOMAIN q :
        /\ q[i].do \in {"stamp", "append", "apply"}
        /\ q[i].do = "apply" => q[i].line = 0

\* Its entries have their lines to come.
LEMMA NumberedNew ==
    ASSUME NEW q, NEW l, NEW now, Unnumbered(q)
    PROVE  Numbered(q, l, now)
<1>1. ~(0 < 0)
  OBVIOUS
<1> QED
  BY <1>1 DEF Numbered, Unnumbered

\* A call starts, or its store is stamped: nothing was awaited, nothing is.
LEMMA KeepBegin ==
    ASSUME IInv, OneProcess, KeepInv, NEW p \in Procs, NEW q,
           todo' = [todo EXCEPT ![p] = q], UNCHANGED <<clock, log, facts, lost>>,
           Unwritten(todo[p]), Unnumbered(q)
    PROVE  KeepInv'
<1>1. Numbered(q, log, clock)
  BY NumberedNew
<1>2. \A j : ~Awaited(todo[p], j)
  BY DEF Awaited, Unwritten
<1>3. ~InRescan(q)
  BY DEF InRescan, Unnumbered
<1>4. lost \/ Standing(facts, log, q, clock)
  BY <1>2, StandingAlone DEF KeepInv
<1> QED
  BY <1>1, <1>3, <1>4, KeepCall

\* The lines of one write or two are not known yet.
LEMMA WriteLines ==
    ASSUME NEW d, NEW t, NEW q \in {Write(d), Write(t), Write(d) \o Write(t), <<>>}
    PROVE  Unnumbered(q)
<1> DEFINE T == {[do |-> "append", e |-> d], [do |-> "apply", e |-> d, line |-> 0],
                 [do |-> "append", e |-> t], [do |-> "apply", e |-> t, line |-> 0]}
<1>1. Write(d) \in Seq(T) /\ Write(t) \in Seq(T)
  BY DEF Write
<1>2. \A s \in T : s.do \in {"append", "apply"} /\ (s.do = "apply" => s.line = 0)
  OBVIOUS
<1> HIDE DEF T
<1> DEFINE x == Write(d)
           y == Write(t)
<1>3. x \o y \in Seq(T)
  <2> HIDE DEF x, y
  <2>1. x \in Seq(T) /\ y \in Seq(T)
    BY <1>1 DEF x, y
  <2> QED
    BY ONLY <2>1, ConcatProperties, Zenon
<1>4. q \in Seq(T)
  <2>1. <<>> \in Seq(T)
    OBVIOUS
  <2> QED
    BY <1>1, <1>3, <2>1
<1>5. \A i \in DOMAIN q : q[i] \in T
  BY <1>4
<1> QED
  BY <1>2, <1>5 DEF Unnumbered

\* memory_store and memory_forget start, and a store is stamped.
LEMMA KeepStart ==
    ASSUME IInv, OneProcess, KeepInv, NEW p \in Procs,
           \/ \E k \in Keys, tags \in SUBSET Tags, ttl \in TTLs, from, to \in Bounds :
                 StoreCall(p, k, tags, ttl, from, to)
           \/ Stamp(p)
           \/ \E k \in Keys \cup {NoKey}, tags \in SUBSET Tags : ForgetCall(p, k, tags)
    PROVE  KeepInv'
<1>1. ASSUME NEW k \in Keys, NEW tags \in SUBSET Tags, NEW ttl \in TTLs,
             NEW from \in Bounds, NEW to \in Bounds, StoreCall(p, k, tags, ttl, from, to)
      PROVE  KeepInv'
  <2> DEFINE s == [do |-> "stamp", e |-> Fact(k, tags, ttl, from, to)]
  <2>1. /\ todo[p] = <<>> /\ todo' = [todo EXCEPT ![p] = << s >>]
        /\ UNCHANGED <<clock, log, facts, lost>>
    BY <1>1 DEF StoreCall, Idle
  <2>2. s.do = "stamp"
    OBVIOUS
  <2> HIDE DEF s
  <2> DEFINE q == << s >>
  <2>3. \A i \in DOMAIN q : q[i].do = "stamp"
    BY <2>2
  <2>4. Unwritten(todo[p])
    BY <2>1 DEF Unwritten
  <2>5. todo' = [todo EXCEPT ![p] = q]
    BY <2>1
  <2> HIDE DEF q
  <2>6. Unnumbered(q)
    BY <2>3 DEF Unnumbered
  <2> QED
    BY <2>1, <2>4, <2>5, <2>6, KeepBegin
<1>2. ASSUME Stamp(p)
      PROVE  KeepInv'
  <2> DEFINE e == [Head(todo[p]).e EXCEPT !.updated = clock]
  <2>1. /\ todo[p] \in Seq(Steps) /\ todo[p] # <<>> /\ Head(todo[p]).do = "stamp"
        /\ GoodCall(todo[p], log)
        /\ todo' = [todo EXCEPT ![p] = Write(e)]
        /\ UNCHANGED <<clock, log, facts, lost>>
    BY <1>2 DEF Stamp, At, Idle, IInv, TypeOK, GoodCalls
  <2> HIDE DEF e
  <2>2. 1 \in DOMAIN todo[p] /\ todo[p][1].do = "stamp"
    BY <2>1
  <2>3. DOMAIN todo[p] = {1}
    BY <2>1, <2>2 DEF GoodCall, GoodStep
  <2>4. Unnumbered(Write(e))
    BY WriteLines
  <2>5. Unwritten(todo[p])
    BY <2>2, <2>3 DEF Unwritten
  <2> QED
    BY <2>1, <2>4, <2>5, KeepBegin
<1>3. ASSUME NEW k \in Keys \cup {NoKey}, NEW tags \in SUBSET Tags, ForgetCall(p, k, tags)
      PROVE  KeepInv'
  <2> DEFINE d == Tombstone("delete", k, {}, clock)
             t == Tombstone("delete_tags", NoKey, tags, clock)
             a == IF k # NoKey THEN Write(d) ELSE <<>>
             b == IF tags # {} THEN Write(t) ELSE <<>>
  <2>1. /\ todo[p] = <<>> /\ todo' = [todo EXCEPT ![p] = a \o b]
        /\ UNCHANGED <<clock, log, facts, lost>>
    BY <1>3 DEF ForgetCall, Idle
  <2> HIDE DEF d, t
  <2>2. Write(d) \o <<>> = Write(d) /\ <<>> \o Write(t) = Write(t) /\ <<>> \o <<>> = <<>>
    BY DEF Write
  <2> DEFINE q == a \o b
  <2>3. q \in {Write(d), Write(t), Write(d) \o Write(t), <<>>}
    BY <2>2
  <2>4. todo' = [todo EXCEPT ![p] = q]
    BY <2>1
  <2> HIDE DEF a, b, q
  <2>5. Unnumbered(q)
    BY <2>3, WriteLines
  <2>6. Unwritten(todo[p])
    BY <2>1 DEF Unwritten
  <2> QED
    BY <2>1, <2>4, <2>5, <2>6, KeepBegin
<1> QED
  BY <1>1, <1>2, <1>3

\* An entry reaches the log: its line is awaited.
LEMMA KeepAppend ==
    ASSUME IInv, OneProcess, KeepInv, NEW p \in Procs, AppendLog(p)
    PROVE  KeepInv'
<1> DEFINE q == todo[p]
           w == Written(q[1].e)
           n == Len(log)
           t == Appended(q, n + 1)
<1>1. /\ q \in Seq(Steps) /\ q # <<>> /\ Head(q).do = "append" /\ GoodCall(q, log)
      /\ log \in Seq(LogType) /\ n \in Nat /\ n + 1 \in Nat
  BY DEF AppendLog, At, Idle, IInv, TypeOK, GoodCalls
<1>2. /\ Head(q) = q[1] /\ 1 \in DOMAIN q /\ q[1].e \in EntryType
      /\ DOMAIN t = 1..(Len(q) - 1) /\ 1 \in DOMAIN t
      /\ t[1].do = "apply" /\ t[1].line = n + 1
      /\ \A i \in 1..(Len(q) - 1) : i + 1 \in DOMAIN q /\ t[i].do = q[i + 1].do
  BY ONLY <1>1, AppendedCall, SMTT(60)
<1>3. \A i \in 1..(Len(q) - 1) : i # 1 => t[i] = q[i + 1]
  BY DEF Appended
<1>4. /\ log' = Append(log, w) /\ todo' = [todo EXCEPT ![p] = t]
      /\ UNCHANGED <<clock, facts, lost>>
  BY <1>2 DEF AppendLog, Appended
<1>5. w \in LogType
  BY <1>2, WrittenEntry
<1>6. /\ \A j \in 1..n : log'[j] = log[j]
      /\ \A j \in 1..Len(log') : j = n + 1 \/ j \in 1..n
      /\ Len(q) \in Nat
  BY <1>1, <1>4, <1>5
<1>7. /\ Numbered(q, log, clock) /\ Timely(facts, log)
      /\ (lost /\ ~InRescan(q)) \/ Standing(facts, log, q, clock)
  BY DEF KeepInv
<1> HIDE DEF q, t, w, n
<1>8. \A i \in DOMAIN q : q[i].do = "apply" => q[i].line = 0
  <2> SUFFICES ASSUME NEW i \in DOMAIN q, q[i].do = "apply"
               PROVE  q[i].line = 0
    OBVIOUS
  <2>1. q[1].do = "append" /\ i # 1 /\ i \in Nat \ {0}
    BY <1>1, <1>2
  <2>2. 1 < i
    BY <2>1
  <2> QED
    BY <1>2, <1>7, <2>1, <2>2 DEF Numbered
<1>9. \A i \in DOMAIN t : i # 1 /\ t[i].do = "apply" => t[i].line = 0
  BY <1>2, <1>3, <1>8
<1>10. Numbered(t, log', clock)
  <2>1. ASSUME NEW i \in DOMAIN t, NEW j \in DOMAIN t, i < j, t[j].do = "apply"
        PROVE  t[j].line = 0
    <3>1. j # 1
      BY <1>2, <2>1
    <3> QED
      BY <1>9, <2>1, <3>1
  <2>2. ASSUME NEW i \in DOMAIN t, NEW j \in DOMAIN t, t[i].do = "done"
        PROVE  j <= i
    <3>1. i + 1 \in DOMAIN q /\ j + 1 \in DOMAIN q /\ q[i + 1].do = "done" /\ i \in Nat /\ j \in Nat
      BY <1>2, <2>2
    <3>2. j + 1 <= i + 1
      BY <1>7, <3>1 DEF Numbered
    <3> QED
      BY <3>1, <3>2
  <2>3. ASSUME NEW i \in DOMAIN t, NEW j \in 1..Len(log'),
               t[i].do = "apply", 0 < t[i].line, t[i].line < j
        PROVE  FALSE
    <3>1. i = 1
      BY <1>9, <2>3
    <3>2. n + 1 < j /\ j <= n + 1
      BY <1>1, <1>2, <1>6, <2>3, <3>1
    <3> QED
      BY <1>1, <3>2
  <2> QED
    BY <2>1, <2>2, <2>3 DEF Numbered
<1>11. InRescan(t) => InRescan(q)
  BY <1>2 DEF InRescan
<1>12. \A v \in facts : v.line \in 1..n
  BY DEF IInv, GoodRows, Says, n
<1>13. Timely(facts', log')
  BY <1>4, <1>6, <1>7, <1>12 DEF Timely
<1>14. ASSUME Standing(facts, log, q, clock)
       PROVE  Standing(facts', log', t, clock')
  <2> SUFFICES ASSUME NEW k, NEW m \in Moment, NEW x \in Belief(facts, k, m),
                      NEW j \in 1..Len(log'), x < j, Strikes(log'[j], log'[x], m)
               PROVE  Gone(log'[j], clock) \/ Awaited(t, j)
    BY <1>4 DEF Standing
  <2>1. CASE j = n + 1
    BY <1>2, <2>1 DEF Awaited
  <2>2. CASE j \in 1..n
    <3>1. x \in 1..n
      BY <1>12 DEF Belief
    <3>2. Gone(log[j], clock) \/ Awaited(q, j)
      BY <1>6, <1>14, <2>2, <3>1 DEF Standing, n
    <3>3. ~Awaited(q, j)
      BY <1>8, <2>2 DEF Awaited
    <3> QED
      BY <1>6, <2>2, <3>2, <3>3
  <2> QED
    BY <1>6, <2>1, <2>2
<1>15. \A r \in Procs : todo'[r] = t
  BY <1>4 DEF IInv, TypeOK, OneProcess
<1> QED
  BY <1>4, <1>7, <1>10, <1>11, <1>13, <1>14, <1>15 DEF KeepInv


\* An entry applied: what it says stands, and it takes away what it strikes.
LEMMA StandingApply ==
    ASSUME NEW S \in SUBSET VersionType(Keys, Tags), NEW l, GoodRows(S, l),
           NEW e \in EntryType, Named(e), Timed(e), NEW line \in Nat, l[line] = Written(e),
           NEW q, NEW t, NEW now, Standing(S, l, q, now),
           \A j : Awaited(q, j) => j = line \/ Awaited(t, j),
           \A j \in 1..Len(l) : line < j => Gone(l[j], now) \/ Awaited(t, j)
    PROVE  Standing(ApplyEntry(S, e, line), l, t, now)
<1> DEFINE R == ApplyEntry(S, e, line)
<1> SUFFICES ASSUME NEW k, NEW m \in Moment, NEW x \in Belief(R, k, m),
                    NEW j \in 1..Len(l), x < j, Strikes(l[j], l[x], m)
             PROVE  Gone(l[j], now) \/ Awaited(t, j)
  BY DEF Standing
<1>1. x = line \/ (x \in Belief(S, k, m) /\ ~Strikes(l[line], l[x], m))
  BY ApplyStands
<1> HIDE DEF R
<1>2. CASE x = line
  BY <1>2
<1>3. CASE x \in Belief(S, k, m) /\ ~Strikes(l[line], l[x], m)
  <2>1. j # line
    BY <1>3
  <2>2. Gone(l[j], now) \/ Awaited(q, j)
    BY <1>3 DEF Standing
  <2> QED
    BY <2>1, <2>2
<1> QED
  BY <1>1, <1>2, <1>3

\* An entry reaches the index, in a call or in a rescan.
LEMMA KeepApply ==
    ASSUME IInv, OneProcess, KeepInv, NEW p \in Procs, ApplyIndex(p)
    PROVE  KeepInv'
<1> DEFINE q == todo[p]
           s == q[1]
           t == Tail(q)
<1>1. /\ q \in Seq(Steps) /\ q # <<>> /\ Head(q).do = "apply" /\ GoodCall(q, log)
      /\ log \in Seq(LogType) /\ facts \in SUBSET VersionType(Keys, Tags)
      /\ GoodRows(facts, log) /\ clock \in Nat
  BY DEF ApplyIndex, At, Idle, IInv, TypeOK, GoodCalls, Ticks
<1>2. Head(q) = s /\ 1 \in DOMAIN q /\ s \in Steps /\ s.do = "apply"
  BY <1>1
<1>3. GoodStep(q, 1, log)
  BY <1>1, <1>2 DEF GoodCall
<1>4. /\ s.e \in EntryType /\ Named(s.e) /\ Timed(s.e) /\ s.line \in Nat
      /\ s.line \in 1..Len(log) /\ log[s.line] = Written(s.e)
  BY <1>1, <1>2, <1>3, StepKinds DEF GoodStep
<1>5. /\ facts' = ApplyEntry(facts, s.e, s.line) /\ todo' = [todo EXCEPT ![p] = t]
      /\ UNCHANGED <<clock, log, lost>>
  BY <1>2 DEF ApplyIndex
<1>6. /\ Numbered(q, log, clock) /\ Timely(facts, log)
      /\ (lost /\ ~InRescan(q)) \/ Standing(facts, log, q, clock)
  BY DEF KeepInv
<1>7. /\ Numbered(t, log, clock)
      /\ InRescan(t) => InRescan(q)
      /\ \A j : Awaited(q, j) => j = s.line \/ Awaited(t, j)
  BY <1>1, <1>6, NumberedTail
<1> HIDE DEF q, s, t
<1>8. \A j \in 1..Len(log) : s.line < j => Gone(log[j], clock) \/ Awaited(t, j)
  <2> SUFFICES ASSUME NEW j \in 1..Len(log), s.line < j, ~Gone(log[j], clock)
               PROVE  Awaited(t, j)
    OBVIOUS
  <2>0. 0 < s.line /\ j # s.line
    BY <1>4
  <2>1. Awaited(q, j)
    BY <1>2, <1>6, <2>0 DEF Numbered, Awaited, s
  <2> QED
    BY <1>7, <2>0, <2>1
<1>9. Standing(facts, log, q, clock) => Standing(facts', log, t, clock)
  BY <1>1, <1>4, <1>5, <1>7, <1>8, StandingApply
<1>10. Timely(facts', log)
  <2> SUFFICES ASSUME NEW w \in facts'
               PROVE  log[w.line].ttl = IF w.ttl > 0 THEN w.ttl ELSE 0
    BY DEF Timely
  <2>1. \/ w.line = s.line /\ w.ttl = s.e.ttl
        \/ \E v \in facts : w.line = v.line /\ w.ttl = v.ttl
    BY <1>1, <1>4, <1>5, ApplyTTL
  <2>2. log[s.line].ttl = IF s.e.ttl > 0 THEN s.e.ttl ELSE 0
    BY <1>4 DEF Written, EntryType
  <2> QED
    BY <1>6, <2>1, <2>2 DEF Timely
<1>11. \A r \in Procs : todo'[r] = t
  BY <1>5 DEF IInv, TypeOK, OneProcess
<1> QED
  BY <1>5, <1>6, <1>7, <1>9, <1>10, <1>11 DEF KeepInv

\* The tables are dropped.
LEMMA KeepReset ==
    ASSUME IInv, OneProcess, KeepInv, NEW p \in Procs, Reset(p)
    PROVE  KeepInv'
<1> DEFINE q == << [do |-> "read"] >>
<1>1. /\ facts' = {} /\ todo' = [todo EXCEPT ![p] = q] /\ UNCHANGED <<clock, log, lost>>
  BY DEF Reset
<1>2. DOMAIN q = {1} /\ q[1].do = "read"
  OBVIOUS
<1> HIDE DEF q
<1>3. Numbered(q, log, clock)
  BY <1>2 DEF Numbered
<1>4. Standing({}, log, q, clock) /\ Timely({}, log)
  BY DEF Standing, Timely, Belief
<1>5. \A r \in Procs : todo'[r] = q
  BY <1>1 DEF IInv, TypeOK, OneProcess
<1> QED
  BY <1>1, <1>3, <1>4, <1>5 DEF KeepInv

\* The places of the entries a rescan replays, in file order.
Ordered(l, now, s, n) ==
    /\ n \in Nat /\ s \in [1..n -> 1..Len(l)]
    /\ \A i, j \in 1..n : i < j => s[i] < s[j]
    /\ \A i \in 1..n : ~Gone(l[s[i]], now)
    /\ \A j \in 1..Len(l) : ~Gone(l[j], now) => \E i \in 1..n : s[i] = j

\* The log is in order of time.
Sorted(l) == \A i, j \in 1..Len(l) : i <= j => l[i].updated <= l[j].updated

\* What a rescan of such a log replays: the facts that are not gone, as they stand.
LEMMA ReplayOrder ==
    ASSUME NEW l \in Seq(LogType), NEW now, Sorted(l), NEW steps \in Replay(l, now)
    PROVE  \E n, s : Ordered(l, now, s, n) /\ steps = Applying(l, s)
<1> DEFINE kept == {i \in 1..Len(l) : ~(/\ l[i].op = "store" /\ l[i].ttl > 0
                                        /\ l[i].updated + Seconds(l[i].ttl) < now)}
           n == Cardinality(kept)
           Earlier(i, j) == \/ l[i].updated < l[j].updated
                            \/ l[i].updated = l[j].updated /\ i < j
<1>1. IsFiniteSet(kept) /\ n \in Nat
  <2>1. IsFiniteSet(1..Len(l))
    BY FS_Interval
  <2>2. kept \subseteq 1..Len(l)
    OBVIOUS
  <2> HIDE DEF kept
  <2> QED
    BY <2>1, <2>2, FS_Subset, FS_CardinalityType
<1>2. PICK s \in [1..n -> kept] :
         /\ steps = Applying(l, s)
         /\ \A i, j \in DOMAIN s : i < j => Earlier(s[i], s[j])
  BY DEF Replay
<1>3. \A j \in 1..Len(l) : j \in kept <=> ~Gone(l[j], now)
  BY DEF Gone
<1>4. kept \subseteq 1..Len(l)
  OBVIOUS
<1>5. \A j \in 1..Len(l) : l[j].updated \in Nat
  BY DEF LogType, EntryType, Ticks
<1> HIDE DEF kept, n
<1>6. \A i, j \in 1..n : i < j => s[i] < s[j]
  <2> SUFFICES ASSUME NEW i \in 1..n, NEW j \in 1..n, i < j
               PROVE  s[i] < s[j]
    OBVIOUS
  <2>1. s[i] \in 1..Len(l) /\ s[j] \in 1..Len(l) /\ Earlier(s[i], s[j])
    BY <1>2, <1>4
  <2>2. CASE s[j] <= s[i]
    <3>1. l[s[j]].updated <= l[s[i]].updated
      BY <2>1, <2>2 DEF Sorted
    <3>2. l[s[j]].updated \in Nat /\ l[s[i]].updated \in Nat
      BY <1>5, <2>1
    <3> QED
      BY <2>1, <2>2, <3>1, <3>2
  <2> QED
    BY <2>1, <2>2
<1> HIDE DEF Earlier
<1>7. s \in Injection(1..n, kept)
  <2>1. \A i, j \in 1..n : s[i] = s[j] => i = j
    <3>1. ASSUME NEW i \in 1..n, NEW j \in 1..n, s[i] = s[j], i # j
          PROVE  FALSE
      <4>1. s[i] \in 1..Len(l)
        BY <1>2, <1>4
      <4>2. i < j \/ j < i
        BY <3>1
      <4> QED
        BY <1>6, <3>1, <4>1, <4>2
    <3> QED
      BY ONLY <3>1, Zenon
  <2> QED
    BY <1>2, <2>1 DEF Injection, IsInjective
<1>8. Cardinality(1..n) = Cardinality(kept)
  <2>1. Cardinality(1..n) = IF 1 > n THEN 0 ELSE n - 1 + 1
    BY <1>1, FS_Interval
  <2> QED
    BY <1>1, <2>1 DEF n
<1>9. s \in Surjection(1..n, kept)
  BY <1>1, <1>7, <1>8, FS_Injection
<1>10. Ordered(l, now, s, n)
  <2>1. s \in [1..n -> 1..Len(l)] /\ \A i \in 1..n : s[i] \in kept
    BY <1>2, <1>4
  <2>2. \A i \in 1..n : ~Gone(l[s[i]], now)
    BY <1>3, <2>1
  <2>3. \A j \in kept : \E i \in 1..n : s[i] = j
    BY <1>9 DEF Surjection
  <2> QED
    BY <1>1, <1>3, <1>6, <2>1, <2>2, <2>3 DEF Ordered
<1> QED
  BY <1>2, <1>10


\* The elements of S in ascending order.
Listed(S) ==
    \E o \in [1..Cardinality(S) -> S] :
        \A i, j \in 1..Cardinality(S) : i < j => o[i] < o[j]

\* A set of places can be listed in order.
LEMMA Listing ==
    ASSUME NEW n \in Nat, NEW S \in SUBSET (1..n)
    PROVE  Listed(S)
<1> DEFINE Bad == {k \in Nat : \E T \in SUBSET (1..k) : ~Listed(T)}
<1> SUFFICES ASSUME Bad # {}
             PROVE  FALSE
  OBVIOUS
<1>0. Bad \in SUBSET Nat
  OBVIOUS
<1>1. PICK k \in Bad : \A j \in Bad : k <= j
  BY <1>0, Least, Zenon
<1>2. PICK T \in SUBSET (1..k) : ~Listed(T)
  BY <1>1
<1>3. k # 0
  <2>1. ASSUME k = 0
        PROVE  FALSE
    <3>0. T = {}
      BY <2>1
    <3>1. T = {} /\ Cardinality(T) = 0
      BY <3>0, FS_EmptySet
    <3> DEFINE o == [i \in 1..0 |-> 0]
    <3>2. o \in [1..0 -> {}] /\ \A i, j \in 1..0 : i < j => o[i] < o[j]
      OBVIOUS
    <3> HIDE DEF o
    <3>3. Listed({})
      BY ONLY <3>1, <3>2 DEF Listed
    <3> QED
      BY <1>2, <3>0, <3>3
  <2> QED
    BY <2>1
<1>4. k - 1 \in Nat /\ ~(k <= k - 1) /\ k \in Nat
  BY <1>3
<1>5. \A U \in SUBSET (1..(k - 1)) : Listed(U)
  BY <1>1, <1>4
<1>6. k \in T
  <2>1. k \notin T => T \in SUBSET (1..(k - 1))
    BY <1>4
  <2> QED
    BY <1>2, <1>5, <2>1
<1> DEFINE U == T \ {k}
           c == Cardinality(U)
<1>7. U \in SUBSET (1..(k - 1))
  BY <1>4
<1>8. c \in Nat /\ Cardinality(T) = c + 1
  <2>1. IsFiniteSet(1..k)
    BY <1>4, FS_Interval
  <2>2. IsFiniteSet(T) /\ T = U \cup {k} /\ k \notin U
    BY <1>6, <2>1, FS_Subset
  <2>3. IsFiniteSet(U)
    BY <2>2, FS_Subset
  <2> HIDE DEF U
  <2> QED
    BY <2>2, <2>3, FS_AddElement, FS_CardinalityType
<1> HIDE DEF Bad, c
<1>9. PICK o \in [1..c -> U] : \A i, j \in 1..c : i < j => o[i] < o[j]
  <2>1. Listed(U)
    BY <1>5, <1>7
  <2> QED
    BY <2>1 DEF Listed, c
<1> DEFINE r == [i \in 1..(c + 1) |-> IF i = c + 1 THEN k ELSE o[i]]
<1>10. r \in [1..(c + 1) -> T]
  <2>1. \A i \in 1..(c + 1) : i = c + 1 \/ i \in 1..c
    BY <1>8
  <2>2. \A i \in 1..c : o[i] \in T
    BY <1>9
  <2> QED
    BY <1>6, <2>1, <2>2
<1>11. ASSUME NEW i \in 1..(c + 1), NEW j \in 1..(c + 1), i < j
       PROVE  r[i] < r[j]
  <2>1. i \in 1..c /\ (j = c + 1 \/ j \in 1..c) /\ i # c + 1
    BY <1>8, <1>11
  <2>2. o[i] \in 1..(k - 1) /\ r[i] = o[i]
    BY <1>7, <1>9, <2>1
  <2>3. CASE j = c + 1
    BY <1>4, <2>2, <2>3
  <2>4. CASE j # c + 1
    <3>1. j \in 1..c /\ r[j] = o[j]
      BY <2>1, <2>4
    <3> HIDE DEF r
    <3> QED
      BY <1>9, <1>11, <2>1, <2>2, <3>1
  <2> QED
    BY <2>3, <2>4
<1> HIDE DEF r, U
<1> QED
  BY <1>2, <1>8, <1>10, <1>11 DEF Listed

\* A log in order of time can be replayed.
LEMMA ReplayThere ==
    ASSUME NEW l \in Seq(LogType), NEW now, Sorted(l)
    PROVE  Replay(l, now) # {}
<1> DEFINE kept == {i \in 1..Len(l) : ~(/\ l[i].op = "store" /\ l[i].ttl > 0
                                        /\ l[i].updated + Seconds(l[i].ttl) < now)}
           n == Cardinality(kept)
           Earlier(i, j) == \/ l[i].updated < l[j].updated
                            \/ l[i].updated = l[j].updated /\ i < j
<1>1. Replay(l, now) = {Applying(l, s) : s \in
         {o \in [1..n -> kept] : \A i, j \in DOMAIN o : i < j => Earlier(o[i], o[j])}}
  BY DEF Replay
<1>2. kept \in SUBSET (1..Len(l)) /\ Len(l) \in Nat
  OBVIOUS
<1>3. \A j \in 1..Len(l) : l[j].updated \in Nat
  BY DEF LogType, EntryType, Ticks
<1>4. \A i, j \in 1..Len(l) : i < j => Earlier(i, j)
  <2>1. ASSUME NEW i \in 1..Len(l), NEW j \in 1..Len(l), i < j
        PROVE  Earlier(i, j)
    <3>1. l[i].updated <= l[j].updated
      BY <2>1 DEF Sorted
    <3>2. l[i].updated \in Nat /\ l[j].updated \in Nat
      BY <1>3
    <3> QED
      BY <2>1, <3>1, <3>2
  <2> QED
    BY <2>1
<1> HIDE DEF kept, Earlier
<1>5. PICK o \in [1..n -> kept] : \A i, j \in 1..n : i < j => o[i] < o[j]
  <2>1. Listed(kept)
    BY ONLY <1>2, Listing
  <2> QED
    BY <2>1 DEF Listed
<1> HIDE DEF n
<1>6. \A i, j \in DOMAIN o : i < j => Earlier(o[i], o[j])
  <2>1. \A i \in 1..n : o[i] \in 1..Len(l)
    BY <1>2, <1>5
  <2> QED
    BY <1>4, <1>5, <2>1
<1>7. Applying(l, o) \in Replay(l, now)
  BY <1>1, <1>5, <1>6
<1> QED
  BY <1>7


\* What is left of a rescan that has read the log.
Remaining(l, s) == Append(Applying(l, s), [do |-> "done"])

\* The steps of q apply the n places of s, then end.
Visits(q, s, n) ==
    /\ DOMAIN q = 1..(n + 1)
    /\ \A i \in 1..n : q[i].do = "apply" /\ q[i].line = s[i]
    /\ q[n + 1].do = "done"

\* The steps of a rescan.
LEMMA RescanSteps ==
    ASSUME NEW l, NEW n \in Nat, NEW s, DOMAIN s = 1..n
    PROVE  /\ DOMAIN Applying(l, s) = 1..n
           /\ \A i \in 1..n : Applying(l, s)[i] = [do |-> "apply", e |-> l[s[i]], line |-> s[i]]
           /\ Visits(Remaining(l, s), s, n)
<1> DEFINE step(i) == [do |-> "apply", e |-> l[s[i]], line |-> s[i]]
           done == [do |-> "done"]
           T == {step(i) : i \in 1..n} \cup {done}
           a == Applying(l, s)
           q == Append(a, done)
<1>1. DOMAIN a = 1..n /\ \A i \in 1..n : a[i] = step(i)
  BY DEF Applying
<1>2. a \in [1..n -> T] /\ done \in T
  BY DEF Applying
<1>3. /\ \A i \in 1..n : step(i).do = "apply" /\ step(i).line = s[i]
      /\ done.do = "done"
  OBVIOUS
<1> HIDE DEF T, a, step, done
<1>4. a \in Seq(T) /\ Len(a) = n
  <2>1. a \in Seq(T)
    BY <1>2, SeqDef
  <2> QED
    BY <1>2, <2>1, LenProperties
<1>5. /\ q \in Seq(T) /\ Len(q) = n + 1 /\ q[n + 1] = done
      /\ \A i \in 1..n : q[i] = a[i]
  BY <1>2, <1>4, AppendProperties
<1> HIDE DEF q
<1>6. DOMAIN q = 1..(n + 1)
  BY <1>5, LenProperties
<1> QED
  BY <1>1, <1>3, <1>5, <1>6 DEF a, q, done, step, Remaining, Visits

\* The log is read.
LEMMA KeepRead ==
    ASSUME IInv, OrderInv, OneProcess, KeepInv, NEW p \in Procs, ReadLog(p)
    PROVE  KeepInv'
<1>1. /\ todo[p] \in Seq(Steps) /\ todo[p] # <<>> /\ Head(todo[p]).do = "read"
      /\ log \in Seq(LogType) /\ Sorted(log)
      /\ UNCHANGED <<clock, log, facts, lost>>
  BY DEF ReadLog, At, Idle, IInv, TypeOK, OrderInv, Sorted
<1>2. facts = {}
  <2>1. 1 \in DOMAIN todo[p] /\ todo[p][1].do = "read"
    BY <1>1
  <2> QED
    BY <2>1 DEF OrderInv, InOrder
<1>3. PICK steps \in Replay(log, clock) :
         todo' = [todo EXCEPT ![p] = Append(steps, [do |-> "done"])]
  BY DEF ReadLog
<1>4. \E n, s : Ordered(log, clock, s, n) /\ steps = Applying(log, s)
  BY <1>1, <1>3, ReplayOrder
<1>5. PICK n, s : Ordered(log, clock, s, n) /\ steps = Applying(log, s)
  BY <1>4
<1> DEFINE q == Append(steps, [do |-> "done"])
<1>6. n \in Nat /\ s \in [1..n -> 1..Len(log)]
  BY <1>5 DEF Ordered
<1>7. /\ DOMAIN q = 1..(n + 1)
      /\ \A i \in 1..n : q[i].do = "apply" /\ q[i].line = s[i]
      /\ q[n + 1].do = "done"
  <2>1. n \in Nat /\ DOMAIN s = 1..n
    BY <1>6
  <2>2. Visits(Remaining(log, s), s, n)
    BY ONLY <2>1, RescanSteps
  <2>3. q = Remaining(log, s)
    BY <1>5 DEF Remaining
  <2> HIDE DEF q
  <2> QED
    BY ONLY <2>2, <2>3 DEF Visits
<1>8. todo' = [todo EXCEPT ![p] = q]
  BY <1>3
<1> HIDE DEF q
<1>9. \A i \in 1..(n + 1) : i = n + 1 \/ i \in 1..n
  BY <1>6
<1>10. Numbered(q, log, clock)
  <2>1. \A i \in DOMAIN q : q[i].do # "append" /\ (q[i].do = "done" => i = n + 1)
    BY <1>7, <1>9
  <2>2. ASSUME NEW i \in DOMAIN q, NEW j \in 1..Len(log),
               q[i].do = "apply", q[i].line < j, ~Gone(log[j], clock)
        PROVE  \E h \in DOMAIN q : i < h /\ q[h].do = "apply" /\ q[h].line = j
    <3>1. i \in 1..n /\ q[i].line = s[i]
      BY <1>7, <1>9, <2>2
    <3>2. PICK h \in 1..n : s[h] = j
      BY <1>5, <2>2 DEF Ordered
    <3>3. h \in DOMAIN q /\ q[h].do = "apply" /\ q[h].line = j
      BY <1>6, <1>7, <3>2
    <3>4. ~(h < i)
      <4>1. ASSUME h < i
            PROVE  FALSE
        <5>1. s[h] < s[i]
          BY <1>5, <3>1, <4>1 DEF Ordered
        <5>2. s[i] \in 1..Len(log) /\ s[i] < j
          BY <1>6, <2>2, <3>1
        <5> QED
          BY <3>2, <5>1, <5>2
      <4> QED
        BY <4>1
    <3>5. h # i
      <4>1. s[i] \in 1..Len(log) /\ s[i] < j
        BY <1>6, <2>2, <3>1
      <4> QED
        BY <3>2, <4>1
    <3>6. i < h
      BY <1>6, <3>1, <3>4, <3>5
    <3> QED
      BY <3>3, <3>6
  <2>3. \A i, j \in DOMAIN q : q[i].do = "done" => j <= i
    BY <1>6, <1>7, <2>1
  <2> QED
    BY <2>1, <2>2, <2>3 DEF Numbered
<1>11. Standing(facts, log, q, clock)
  BY <1>2 DEF Standing, Belief
<1> QED
  BY <1>1, <1>8, <1>10, <1>11, KeepCall

\* The call ends, done or not.
LEMMA KeepEnd ==
    ASSUME IInv, OneProcess, KeepInv, NEW p \in Procs, Rescanned(p) \/ Fail(p)
    PROVE  KeepInv'
<1> DEFINE q == todo[p]
<1>1. /\ q \in Seq(Steps) /\ q # <<>> /\ GoodCall(q, log)
      /\ todo' = [todo EXCEPT ![p] = <<>>] /\ UNCHANGED <<clock, log, facts>>
      /\ q[1] \in Steps /\ 1 \in DOMAIN q /\ Head(q) = q[1] /\ DOMAIN q = 1..Len(q)
  BY DEF Rescanned, Fail, At, Idle, IInv, TypeOK, GoodCalls
<1>2. /\ Numbered(q, log, clock)
      /\ (lost /\ ~InRescan(q)) \/ Standing(facts, log, q, clock)
  BY DEF KeepInv
<1>3. q[1].do \in {"stamp", "append", "apply", "read", "done"}
  BY <1>1, StepKinds
<1>4. \/ lost'
      \/ q[1].do = "done"
      \/ q[1].do \in {"stamp", "append"} /\ ~lost
  BY <1>1, <1>3 DEF Rescanned, Fail, At, IInv, TypeOK
<1> HIDE DEF q
<1>5. Numbered(<<>>, log, clock) /\ ~InRescan(<<>>)
  BY DEF Numbered, InRescan
<1>6. lost' \/ Standing(facts, log, <<>>, clock)
  <2>1. CASE q[1].do = "done"
    <3>1. InRescan(q)
      BY <1>1, <2>1 DEF InRescan
    <3>2. \A i \in DOMAIN q : i = 1
      <4>1. \A i \in DOMAIN q : i <= 1
        BY <1>1, <1>2, <2>1 DEF Numbered
      <4> QED
        BY <1>1, <4>1
    <3>3. \A j : ~Awaited(q, j)
      BY <2>1, <3>2 DEF Awaited
    <3> QED
      BY <1>2, <3>1, <3>3, StandingAlone
  <2>2. CASE q[1].do \in {"stamp", "append"} /\ ~lost
    <3>1. ASSUME NEW j \in 1..Len(log), Awaited(q, j)
          PROVE  FALSE
      <4>1. PICK i \in DOMAIN q : q[i].do = "apply" /\ q[i].line = j
        BY <3>1 DEF Awaited
      <4>2. i # 1
        BY <2>2, <4>1
      <4>3. CASE q[1].do = "stamp"
        BY <1>1, <4>2, <4>3 DEF GoodCall, GoodStep
      <4>4. CASE q[1].do = "append"
        <5>1. 1 < i
          BY <1>1, <4>2
        <5>2. q[i].line = 0
          BY <1>1, <1>2, <4>1, <4>4, <5>1 DEF Numbered
        <5> QED
          BY <4>1, <5>2
      <4> QED
        BY <2>2, <4>3, <4>4
    <3>2. \A j \in 1..Len(log) : ~Awaited(q, j)
      BY <3>1
    <3> QED
      BY <1>2, <2>2, <3>2, StandingAlone
  <2> QED
    BY <1>4, <2>1, <2>2
<1> QED
  BY <1>1, <1>5, <1>6, KeepCall

\* Every step keeps the invariant.
LEMMA NextKeep ==
    ASSUME IInv, OrderInv, OneProcess, KeepInv, [Next]_vars
    PROVE  KeepInv'
<1>1. CASE UNCHANGED vars
  BY <1>1 DEF vars, KeepInv
<1>2. CASE Tick
  BY <1>2, KeepTick
<1>3. ASSUME NEW p \in Procs,
             \/ \E k \in Keys, tags \in SUBSET Tags, ttl \in TTLs, from, to \in Bounds :
                   StoreCall(p, k, tags, ttl, from, to)
             \/ Stamp(p)
             \/ \E k \in Keys \cup {NoKey}, tags \in SUBSET Tags : ForgetCall(p, k, tags)
      PROVE  KeepInv'
  BY <1>3, KeepStart
<1>4. ASSUME NEW p \in Procs, AppendLog(p) \/ ApplyIndex(p)
      PROVE  KeepInv'
  BY <1>4, KeepAppend, KeepApply
<1>5. ASSUME NEW p \in Procs, Reset(p) \/ ReadLog(p) \/ Rescanned(p) \/ Prune(p) \/ Fail(p)
      PROVE  KeepInv'
  BY <1>5, KeepReset, KeepRead, KeepEnd, KeepPrune
<1> QED
  BY <1>1, <1>2, <1>3, <1>4, <1>5 DEF Next

\* Nothing is believed at the start.
LEMMA InitKeep == Init => KeepInv
<1> SUFFICES ASSUME Init
             PROVE  KeepInv
  OBVIOUS
<1>1. facts = {} /\ \A p \in Procs : todo[p] = <<>>
  BY DEF Init
<1>2. Timely({}, log) /\ Numbered(<<>>, log, clock) /\ Standing({}, log, <<>>, clock)
  BY DEF Timely, Numbered, Standing, Belief
<1> QED
  BY <1>1, <1>2 DEF KeepInv

\* Whatever is believed stands in the log.
THEOREM KeepAlways ==
    ASSUME OneProcess
    PROVE  Spec => [](IInv /\ OrderInv /\ KeepInv)
<1>1. IInv /\ OrderInv /\ KeepInv /\ [Next]_vars => (IInv /\ OrderInv /\ KeepInv)'
  BY NextIInv, NextOrder, NextKeep
<1> QED
  BY <1>1, InitIInv, InitOrder, InitKeep, PTL DEF Spec


-----------------------------------------------------------------------------
(* The index a rescan would build.                                          *)

\* The fact is not gone before it is expired: a rescan compares its end to the
\* clock, a read to the second.
LEMMA GoneExpired ==
    ASSUME NEW e \in LogType, NEW now \in Nat, e.ttl > 0,
           e.updated + Seconds(e.ttl) > Sec(now)
    PROVE  ~Gone(e, now)
<1> DEFINE a == e.updated \div Resolution
           b == now \div Resolution
           c == e.ttl
<1>1. /\ e.updated \in Nat /\ c \in Nat /\ Sec(e.updated) = e.updated
  BY DEF LogType, EntryType, Ticks
<1>2. a \in Nat /\ b \in Nat /\ now < b * Resolution + Resolution
  BY <1>1, Division
<1>3. e.updated = a * Resolution /\ Sec(now) = b * Resolution /\ Seconds(e.ttl) = c * Resolution
  BY <1>1 DEF Sec, Seconds
<1>4. /\ (a + c) * Resolution = a * Resolution + c * Resolution
      /\ (b + 1) * Resolution = b * Resolution + Resolution
      /\ a + c \in Nat /\ b + 1 \in Nat
  <2> HIDE DEF a, b, c
  <2> QED
    BY <1>1, <1>2, ResolutionAssumption
<1> HIDE DEF a, b, c
<1>5. ~(a + c <= b)
  <2>1. ASSUME a + c <= b
        PROVE  FALSE
    <3>1. (a + c) * Resolution <= b * Resolution
      BY <1>2, <1>4, <2>1, TimesMonotone
    <3>2. a * Resolution \in Nat /\ c * Resolution \in Nat /\ b * Resolution \in Nat
      BY <1>1, <1>2, ResolutionAssumption
    <3> QED
      BY <1>3, <1>4, <3>1, <3>2
  <2> QED
    BY <2>1
<1>6. (b + 1) * Resolution <= (a + c) * Resolution
  <2>1. b + 1 <= a + c
    BY <1>1, <1>2, <1>5
  <2> QED
    BY <1>4, <2>1, TimesMonotone
<1>7. a * Resolution \in Nat /\ c * Resolution \in Nat /\ b * Resolution \in Nat
  BY <1>1, <1>2, ResolutionAssumption
<1>8. ~(a * Resolution + c * Resolution < now)
  BY <1>2, <1>4, <1>6, <1>7, ResolutionAssumption
<1>9. ~(e.updated + Seconds(e.ttl) < now)
  BY <1>3, <1>8
<1> QED
  BY <1>9 DEF Gone

\* An index being rebuilt from the log l.
Rebuilding(S, l) ==
    /\ S \in SUBSET VersionType(Keys, Tags)
    /\ GoodRows(S, l)
    /\ OneIn(S)
    /\ \A w \in S : w.ttl = l[w.line].ttl

\* One more entry replayed.
LEMMA RebuildingStep ==
    ASSUME IInv, NEW S, Rebuilding(S, log), NEW j \in 1..Len(log)
    PROVE  LET R == ApplyEntry(S, log[j], j)
           IN  /\ Rebuilding(R, log)
               /\ \A k : \A m \in Moment : \A x :
                     x \in Belief(R, k, m) <=>
                        \/ /\ x = j /\ log[j].op = "store" /\ k = log[j].key
                           /\ Inside(CallOf(log[j], 0), m)
                        \/ x \in Belief(S, k, m) /\ ~Strikes(log[j], log[x], m)
<1> DEFINE e == log[j]
           R == ApplyEntry(S, e, j)
<1>1. log \in Seq(LogType) /\ Named(e) /\ Timed(e) /\ j \in Nat
  BY DEF IInv, TypeOK, GoodLog
<1>2. e \in LogType
  BY <1>1
<1>3. e \in EntryType /\ Written(e) = e
  BY <1>2, WrittenTwice
<1>4. S \in SUBSET VersionType(Keys, Tags) /\ GoodRows(S, log) /\ OneIn(S)
  BY DEF Rebuilding
<1> HIDE DEF e
<1>5. log[j] = Written(e)
  BY <1>3 DEF e
<1>6. R \in SUBSET VersionType(Keys, Tags) /\ GoodRows(R, log) /\ OneIn(R)
  BY <1>1, <1>3, <1>4, <1>5, ApplyKeeps
<1>7. ASSUME NEW w \in R
      PROVE  w.ttl = log[w.line].ttl
  <2>1. \/ w.line = j /\ w.ttl = e.ttl
        \/ \E p \in S : w.line = p.line /\ w.ttl = p.ttl
    BY <1>3, <1>4, ApplyTTL
  <2> QED
    BY <2>1 DEF Rebuilding, e
<1>8. ASSUME NEW k, NEW m \in Moment, NEW x
      PROVE  x \in Belief(R, k, m) <=>
                \/ x = j /\ e.op = "store" /\ k = e.key /\ Inside(CallOf(e, 0), m)
                \/ x \in Belief(S, k, m) /\ ~Strikes(log[j], log[x], m)
  BY <1>1, <1>3, <1>4, <1>5, ApplyStands
<1> HIDE DEF R
<1>9. Rebuilding(R, log)
  BY <1>6, <1>7 DEF Rebuilding
<1> QED
  BY <1>8, <1>9 DEF R, e

\* A row of the index is rebuilt if its fact is not gone.
LEMMA RebuiltKeeps ==
    ASSUME IInv, OrderInv, OneProcess, KeepInv, Quiet,
           NEW k, NEW m \in Moment, NEW x \in Belief(facts, k, m), ~Gone(log[x], clock)
    PROVE  Rebuilding(Rebuilt, log) /\ x \in Belief(Rebuilt, k, m)
<1> DEFINE steps == CHOOSE s \in Replay(log, clock) : TRUE
<1>1. log \in Seq(LogType) /\ Sorted(log) /\ GoodRows(facts, log)
  BY DEF IInv, TypeOK, OrderInv, Sorted
<1>2. steps \in Replay(log, clock)
  BY <1>1, ReplayThere
<1> HIDE DEF steps
<1>3. \E n, s : Ordered(log, clock, s, n) /\ steps = Applying(log, s)
  BY <1>1, <1>2, ReplayOrder
<1>4. PICK n, s : Ordered(log, clock, s, n) /\ steps = Applying(log, s)
  BY <1>3
<1>5. n \in Nat /\ s \in [1..n -> 1..Len(log)]
  BY <1>4 DEF Ordered
<1>6. /\ DOMAIN steps = 1..n
      /\ \A i \in 1..n : steps[i] = [do |-> "apply", e |-> log[s[i]], line |-> s[i]]
  BY <1>4, <1>5, RescanSteps
<1>7. \A i \in 1..n : steps[i].e = log[s[i]] /\ steps[i].line = s[i]
  <2> TAKE i \in 1..n
  <2>1. steps[i] = [do |-> "apply", e |-> log[s[i]], line |-> s[i]]
    BY <1>6
  <2> QED
    BY <2>1
<1>8. PICK h : Folding(h, steps, n) /\ h[1..n] = Rebuilt
  BY <1>5, <1>6, FoldSteps DEF Rebuilt, steps
<1> DEFINE S(i) == h[1..i]
<1>9. /\ S(0) = {}
      /\ \A i \in 1..n : S(i) = ApplyEntry(S(i - 1), log[s[i]], s[i])
  <2>1. /\ h[1..0] = {}
        /\ \A i \in 1..n : h[1..i] = ApplyEntry(h[1..(i - 1)], steps[i].e, steps[i].line)
    BY <1>5, <1>8, FoldingStep
  <2>2. \A i \in 1..n : h[1..i] = ApplyEntry(h[1..(i - 1)], log[s[i]], s[i])
    <3> TAKE i \in 1..n
    <3> QED
      BY <1>7, <2>1
  <2> QED
    BY <2>1, <2>2
<1> HIDE DEF S
<1>10. ASSUME NEW i \in 0..n
       PROVE  Rebuilding(S(i), log)
  <2> DEFINE Bad == {j \in 0..n : ~Rebuilding(S(j), log)}
  <2> SUFFICES ASSUME Bad # {}
               PROVE  FALSE
    OBVIOUS
  <2>0. Bad \in SUBSET Nat
    BY <1>5
  <2>1. PICK j \in Bad : \A y \in Bad : j <= y
    BY <2>0, Least, Zenon
  <2>2. j # 0
    <3>1. Rebuilding({}, log)
      BY DEF Rebuilding, GoodRows, OneIn, Belief
    <3> QED
      BY <1>9, <2>1, <3>1
  <2>3. j \in 1..n /\ j - 1 \in 0..n /\ ~(j <= j - 1)
    BY <1>5, <2>1, <2>2
  <2>4. Rebuilding(S(j - 1), log)
    BY <2>1, <2>3
  <2>5. s[j] \in 1..Len(log)
    BY <1>5, <2>3
  <2>6. Rebuilding(ApplyEntry(S(j - 1), log[s[j]], s[j]), log)
    BY <2>4, <2>5, RebuildingStep
  <2> QED
    BY <1>9, <2>1, <2>3, <2>6
<1>11. PICK v \in facts : v.key = k /\ Believed(v) /\ Covers(v, m) /\ v.line = x
  BY DEF Belief
<1>12. /\ x \in 1..Len(log) /\ log[x].op = "store" /\ log[x].key = k
       /\ (IF log[x].vf = Zero THEN log[x].updated ELSE log[x].vf) <= m
       /\ log[x].vt = Zero \/ m < log[x].vt
  BY <1>1, <1>11 DEF GoodRows, Says
<1>13. Inside(CallOf(log[x], 0), m)
  <2>1. log[x] \in LogType
    BY <1>1, <1>12
  <2>2. Sec(log[x].updated) = log[x].updated /\ Sec(log[x].vf) = log[x].vf
        /\ Sec(log[x].vt) = log[x].vt
    BY <2>1 DEF LogType
  <2> QED
    BY <1>12, <2>2 DEF Inside, ValidFrom, CallOf
<1>14. PICK a \in 1..n : s[a] = x
  BY <1>4, <1>12 DEF Ordered
<1>15. ASSUME NEW i \in 1..n, a < i
       PROVE  ~Strikes(log[s[i]], log[x], m)
  <2>1. s[a] < s[i] /\ ~Gone(log[s[i]], clock) /\ s[i] \in 1..Len(log)
    BY <1>4, <1>5, <1>15 DEF Ordered
  <2>2. PICK p \in Procs : todo[p] = <<>> /\ ~lost
    BY DEF OneProcess, Quiet, Idle
  <2>3. Standing(facts, log, <<>>, clock) /\ ~Awaited(<<>>, s[i])
    BY <2>2 DEF KeepInv, Awaited
  <2> QED
    BY <1>14, <2>1, <2>3 DEF Standing
<1>16. ASSUME NEW i \in a..n
       PROVE  x \in Belief(S(i), k, m)
  <2> DEFINE Bad == {j \in a..n : x \notin Belief(S(j), k, m)}
  <2> SUFFICES ASSUME Bad # {}
               PROVE  FALSE
    OBVIOUS
  <2>0. Bad \in SUBSET Nat
    BY <1>5
  <2>1. PICK j \in Bad : \A y \in Bad : j <= y
    BY <2>0, Least, Zenon
  <2>2. j \in 1..n /\ j - 1 \in 0..n /\ ~(j <= j - 1) /\ j \in Nat /\ a \in Nat
    BY <1>5, <2>1
  <2>3. s[j] \in 1..Len(log)
    BY <1>5, <2>2
  <2>4. Rebuilding(S(j - 1), log)
    BY <1>10, <2>2
  <2>5. x \in Belief(ApplyEntry(S(j - 1), log[s[j]], s[j]), k, m) <=>
           \/ /\ x = s[j] /\ log[s[j]].op = "store" /\ k = log[s[j]].key
              /\ Inside(CallOf(log[s[j]], 0), m)
           \/ x \in Belief(S(j - 1), k, m) /\ ~Strikes(log[s[j]], log[x], m)
    BY <2>3, <2>4, RebuildingStep
  <2>6. x \in Belief(S(j), k, m)
    <3>1. CASE j = a
      BY <1>9, <1>12, <1>13, <1>14, <2>2, <2>5, <3>1
    <3>2. CASE j # a
      <4>1. a < j /\ j - 1 \in a..n
        BY <1>5, <2>1, <2>2, <3>2
      <4>2. x \in Belief(S(j - 1), k, m)
        BY <2>1, <2>2, <4>1
      <4> QED
        BY <1>9, <1>15, <2>2, <2>5, <4>1, <4>2
    <3> QED
      BY <3>1, <3>2
  <2> QED
    BY <2>1, <2>6
<1>17. n \in 0..n /\ n \in a..n
  BY <1>5
<1> QED
  BY <1>8, <1>10, <1>16, <1>17 DEF S

\* A rescan never takes away an answer the store gives, with times to live, after
\* prunes and failures: what has expired since may only uncover more.
THEOREM RescanKeepsAnswersAlways ==
    ASSUME OneProcess
    PROVE  Spec => []RescanKeepsAnswers
<1>1. IInv /\ OrderInv /\ KeepInv => RescanKeepsAnswers
  <2> SUFFICES ASSUME IInv, OrderInv, KeepInv, Quiet, NEW k \in Keys,
                      NEW v \in facts, Live(v, clock), v.key = k
               PROVE  v.line \in UsualAnswer(Rebuilt, k)
    BY DEF RescanKeepsAnswers, UsualAnswer, LiveRows
  <2> DEFINE m == Sec(clock)
             x == v.line
  <2>1. /\ log \in Seq(LogType) /\ clock \in Nat /\ clock >= Resolution
        /\ v \in VersionType(Keys, Tags) /\ Says(v, log)
    BY DEF IInv, TypeOK, GoodRows, Ticks
  <2>2. m \in Moment
    <3>1. Sec(clock) \in Nat /\ Sec(Sec(clock)) = Sec(clock) /\ Sec(clock) >= Resolution
      BY <2>1, SecType, SecIdempotent, SecMonotone, SecResolution, ResolutionAssumption
    <3> QED
      BY <3>1 DEF Moment
  <2>3. /\ Believed(v) /\ Covers(v, m)
        /\ v.ttl = 0 \/ ~(v.updated + Seconds(v.ttl) <= m)
    BY DEF Live, Expired
  <2>4. x \in Belief(facts, k, m)
    BY <2>3 DEF Belief
  <2>5. x \in 1..Len(log) /\ log[x].updated = v.updated /\ log[x] \in LogType
    BY <2>1 DEF Says
  <2>6. log[x].ttl = IF v.ttl > 0 THEN v.ttl ELSE 0
    BY DEF KeepInv, Timely
  <2>7. log[x].ttl # 0 => ~(log[x].updated + Seconds(log[x].ttl) <= m)
    BY <2>3, <2>5, <2>6
  <2>8. log[x].updated \in Nat /\ log[x].ttl \in Int /\ m \in Nat
        /\ Seconds(log[x].ttl) \in Int
    <3> HIDE DEF m, x
    <3>1. log[x].updated \in Nat /\ log[x].ttl \in Int
      BY <2>5 DEF LogType, EntryType, Ticks
    <3>2. m \in Nat
      BY <2>1, SecType DEF m
    <3>3. Seconds(log[x].ttl) \in Int
      BY <3>1, ResolutionAssumption DEF Seconds
    <3> QED
      BY <3>1, <3>2, <3>3
  <2>9. ~Gone(log[x], clock)
    <3>1. CASE log[x].ttl > 0
      <4>1. log[x].updated + Seconds(log[x].ttl) > Sec(clock)
        BY <2>7, <2>8, <3>1
      <4> QED
        BY <2>1, <2>5, <3>1, <4>1, GoneExpired
    <3>2. CASE ~(log[x].ttl > 0)
      BY <3>2 DEF Gone
    <3> QED
      BY <3>1, <3>2
  <2> HIDE DEF m, x
  <2>10. Rebuilding(Rebuilt, log) /\ x \in Belief(Rebuilt, k, m)
    BY <2>2, <2>4, <2>9, RebuiltKeeps
  <2>11. PICK w \in Rebuilt : w.key = k /\ Believed(w) /\ Covers(w, m) /\ w.line = x
    BY <2>10 DEF Belief
  <2>12. w.ttl = log[x].ttl /\ w.updated = log[x].updated
    BY <2>10, <2>11 DEF Rebuilding, GoodRows, Says
  <2>13. Live(w, clock)
    BY <2>7, <2>11, <2>12 DEF Live, Expired, m
  <2> QED
    BY <2>11, <2>13 DEF UsualAnswer, LiveRows, x
<1> QED
  BY <1>1, KeepAlways, PTL

-----------------------------------------------------------------------------
(* The ceiling on memories.  The check of a store counts the live rows;     *)
(* every key that is counted is held, so what has to stay within the limit  *)
(* is the set of keys held, at this second and at every later one, in the   *)
(* index and in every part of the log that a rescan replays.                *)

\* The keys of which something is believed about the moment m.
Held(S, m) == {k \in Keys : Belief(S, k, m) # {}}

AtMost(T) == IsFiniteSet(T) /\ Cardinality(T) <= MaxCount

\* Every entry of the log holds from its own time on, and names its key.
Plain(l) == \A i \in 1..Len(l) : l[i].vf <= l[i].updated /\ l[i].op # "delete_tags"

\* The moment m is not before any of the first n entries.
Over(l, n, m) == \A i \in 1..n : l[i].updated <= m

\* No part of the log that a rescan replays exceeds the limit.
Within(l) ==
    \A n \in 0..Len(l), m \in Moment :
        Over(l, n, m) => AtMost(Held(Replayed(SubSeq(l, 1, n)), m))

\* What is held later is held now: nothing is waiting to begin.
FadesIn(S, m) == \A u \in Moment : m <= u => Held(S, u) \subseteq Held(S, m)

Fading(l) == \A m \in Moment : Over(l, Len(l), m) => FadesIn(Replayed(l), m)

\* The key k may be added from the second c on.
Fits(k, l, c) == \A m \in Moment : c <= m => AtMost(Held(Replayed(l), m) \cup {k})

\* A store that has passed its check is the first step of its call, and there
\* is room for its key.
Admitted(q, l, now) ==
    \A i \in DOMAIN q :
        q[i].do \in {"stamp", "append"} /\ q[i].e.op = "store" =>
            /\ i = 1
            /\ Fits(q[i].e.key, l, IF q[i].do = "stamp" THEN Sec(now) ELSE Sec(q[i].e.updated))

\* No negative time to live is on its way to the index.
Dated(q) == \A i \in DOMAIN q : q[i].do \in {"stamp", "append", "apply"} => q[i].e.ttl >= 0

\* From now on the index is within the limit, with one row to a key.
RoomIn(S, now) == \A m \in Moment : Sec(now) <= m => AtMost(Held(S, m)) /\ RowAt(S, m)

CeilingInv ==
    /\ ~lost
    /\ \A v \in facts : v.ttl >= 0
    /\ Within(log)
    /\ Fading(log)
    /\ RoomIn(facts, clock)
    /\ \A p \in Procs : Admitted(todo[p], log, clock) /\ Dated(todo[p])

\* Fewer are within the limit too.
LEMMA AtMostFewer ==
    ASSUME NEW T, AtMost(T), NEW U \in SUBSET T
    PROVE  AtMost(U)
<1>1. IsFiniteSet(T) /\ Cardinality(T) <= MaxCount /\ MaxCount \in Nat
  BY StoreAssumption DEF AtMost
<1>2. IsFiniteSet(U) /\ Cardinality(U) <= Cardinality(T)
  BY <1>1, FS_Subset
<1>3. Cardinality(T) \in Nat /\ Cardinality(U) \in Nat
  BY <1>1, <1>2, FS_CardinalityType
<1> QED
  BY <1>1, <1>2, <1>3 DEF AtMost

LEMMA AtMostNone == AtMost({})
  BY FS_EmptySet, StoreAssumption DEF AtMost

\* Indexes that answer alike hold the same keys.
LEMMA SameHeld ==
    ASSUME NEW S, NEW T, Same(S, T), NEW m \in Moment
    PROVE  Held(S, m) = Held(T, m)
  BY DEF Same, Held

\* The second the clock is in is a moment, not before the log.
LEMMA NowIsMoment ==
    ASSUME IInv
    PROVE  clock \in Nat /\ Sec(clock) \in Moment
<1>1. clock \in Nat /\ clock >= Resolution
  BY DEF IInv, TypeOK, Ticks
<1>2. Sec(clock) \in Nat /\ Sec(Sec(clock)) = Sec(clock) /\ Sec(clock) >= Resolution
  BY <1>1, SecType, SecIdempotent, SecMonotone, SecResolution, ResolutionAssumption
<1> QED
  BY <1>1, <1>2 DEF Moment

\* The rows that are counted: one for each key that is held now.
LEMMA LiveHeld ==
    ASSUME NEW S \in SUBSET VersionType(Keys, Tags), \A v \in S : v.ttl = 0,
           RowAt(S, Sec(clock)), AtMost(Held(S, Sec(clock)))
    PROVE  /\ IsFiniteSet(LiveRows(S)) /\ Cardinality(LiveRows(S)) = Cardinality(Held(S, Sec(clock)))
           /\ \A k \in Keys : k \in Held(S, Sec(clock)) <=> \E v \in LiveRows(S) : v.key = k
<1> DEFINE c == Sec(clock)
           L == LiveRows(S)
           H == Held(S, c)
           f == [v \in L |-> v.key]
<1>1. \A v : v \in L <=> v \in S /\ Believed(v) /\ Covers(v, c)
  BY DEF LiveRows, Live, Expired
<1>2. \A k \in Keys : k \in H <=> \E v \in L : v.key = k
  BY <1>1 DEF Held, Belief
<1>3. \A v \in L : v.key \in Keys
  BY <1>1 DEF VersionType
<1>4. \A v, w \in L : v.key = w.key => v = w
  BY <1>1 DEF RowAt
<1>5. IsFiniteSet(H) /\ H \subseteq Keys
  BY DEF AtMost, Held
<1> HIDE DEF L, H
<1>6. f \in [L -> H]
  BY <1>2, <1>3
<1>7. f \in Injection(L, H)
  BY <1>4, <1>6 DEF Injection, IsInjective
<1>8. f \in Surjection(L, H)
  BY <1>2, <1>5, <1>6 DEF Surjection
<1> HIDE DEF f
<1>9. IsFiniteSet(L) /\ Cardinality(L) = Cardinality(H)
  BY <1>5, <1>7, <1>8, FS_Injection
<1> QED
  BY <1>2, <1>9 DEF L, H

\* What an entry that names its key leaves held.
LEMMA HeldAfter ==
    ASSUME NEW S \in SUBSET VersionType(Keys, Tags), NEW l, GoodRows(S, l),
           NEW e \in EntryType, Named(e), Timed(e), NEW line \in Nat, e.op # "delete_tags",
           NEW m \in Moment, NEW k \in Keys
    PROVE  k \in Held(ApplyEntry(S, e, line), m) <=>
              IF e.op = "store"
              THEN k \in Held(S, m) \/ (k = e.key /\ Inside(CallOf(e, line), m))
              ELSE k \in Held(S, m) /\ k # e.key
<1>1. Belief(ApplyEntry(S, e, line), k, m) = BeliefAfter(S, l, e, line, k, m)
  BY ApplyBelief
<1>2. e.op = "store" \/ e.op = "delete"
  BY DEF EntryType
<1>3. {line} # {}
  OBVIOUS
<1> QED
  BY <1>1, <1>2, <1>3 DEF Held, BeliefAfter


\* A call whose stores are under way in no step.
LEMMA NothingAdmitted ==
    ASSUME NEW q, NEW l, NEW now,
           \A i \in DOMAIN q : ~(q[i].do \in {"stamp", "append"} /\ q[i].e.op = "store")
    PROVE  Admitted(q, l, now)
  BY DEF Admitted

\* A step that only changes what is left of the call.
LEMMA CeilingCall ==
    ASSUME IInv, OneProcess, CeilingInv, NEW p \in Procs, NEW q,
           todo' = [todo EXCEPT ![p] = q], UNCHANGED <<clock, log, facts>>, ~lost',
           Admitted(q, log, clock), Dated(q)
    PROVE  CeilingInv'
<1>1. \A r \in Procs : todo'[r] = q
  BY DEF IInv, TypeOK, OneProcess
<1>2. RoomIn(facts', clock') /\ Within(log') /\ Fading(log')
  BY DEF CeilingInv
<1> QED
  BY <1>1, <1>2 DEF CeilingInv

\* Time passes.
LEMMA CeilingTick ==
    ASSUME IInv, CeilingInv, Tick
    PROVE  CeilingInv'
<1>1. /\ clock \in Nat /\ clock' \in Nat /\ clock <= clock'
      /\ UNCHANGED <<log, facts, todo, lost>>
  BY DEF Tick, IInv, TypeOK, Ticks
<1>2. Sec(clock) \in Nat /\ Sec(clock') \in Nat /\ Sec(clock) <= Sec(clock')
  BY <1>1, SecType, SecMonotone
<1>3. \A m \in Moment : Sec(clock') <= m => Sec(clock) <= m
  BY <1>2 DEF Moment
<1>4. RoomIn(facts, clock')
  BY <1>3 DEF CeilingInv, RoomIn
<1>5. ASSUME NEW p \in Procs
      PROVE  Admitted(todo[p], log, clock')
  <2> SUFFICES ASSUME NEW i \in DOMAIN todo[p],
                      todo[p][i].do \in {"stamp", "append"}, todo[p][i].e.op = "store"
               PROVE  /\ i = 1
                      /\ Fits(todo[p][i].e.key, log, IF todo[p][i].do = "stamp" THEN Sec(clock')
                                                     ELSE Sec(todo[p][i].e.updated))
    BY DEF Admitted
  <2>1. /\ i = 1
        /\ Fits(todo[p][i].e.key, log, IF todo[p][i].do = "stamp" THEN Sec(clock)
                                       ELSE Sec(todo[p][i].e.updated))
    BY DEF CeilingInv, Admitted
  <2> QED
    BY <1>3, <2>1 DEF Fits
<1> QED
  BY <1>1, <1>4, <1>5 DEF CeilingInv

\* With no call under way, what the index holds is what the log says.
LEMMA ServedSame ==
    ASSUME IInv, HistoryInv, CeilingInv, NEW p \in Procs, todo[p] = <<>>
    PROVE  Same(facts, Replayed(log))
  BY HistoryNow, HeadKinds DEF Serving, Caught, CeilingInv

\* A store that is counted in fits, now and later.
LEMMA CheckFits ==
    ASSUME IInv, OrderInv, HistoryInv, CeilingInv, NEW p \in Procs, todo[p] = <<>>,
           NEW k \in Keys, ~(IsNew(k) /\ Cardinality(LiveRows(facts)) >= MaxCount)
    PROVE  Fits(k, log, Sec(clock))
<1> DEFINE c == Sec(clock)
           H == Held(facts, c)
           L == LiveRows(facts)
<1>1. c \in Moment /\ c \in Nat
  BY NowIsMoment DEF Moment
<1>2. /\ facts \in SUBSET VersionType(Keys, Tags)
      /\ \A v \in facts : v.ttl \in Int /\ v.ttl <= 0 /\ v.ttl >= 0
  BY DEF IInv, TypeOK, VersionType, HistoryInv, CeilingInv
<1>3. \A v \in facts : v.ttl = 0
  BY <1>2
<1>4. AtMost(H) /\ RowAt(facts, c)
  BY <1>1 DEF CeilingInv, RoomIn
<1>5. /\ IsFiniteSet(L) /\ Cardinality(L) = Cardinality(H)
      /\ k \in H <=> \E v \in L : v.key = k
  BY <1>2, <1>3, <1>4, LiveHeld
<1>6. IsNew(k) <=> k \notin H
  BY <1>5 DEF IsNew
<1>7. AtMost(H \cup {k})
  <2>1. CASE k \in H
    <3>1. H \cup {k} = H
      BY <2>1
    <3> QED
      BY <1>4, <3>1
  <2>2. CASE k \notin H
    <3>1. IsFiniteSet(H) /\ Cardinality(H) \in Nat /\ MaxCount \in Nat
      BY <1>4, FS_CardinalityType, StoreAssumption DEF AtMost
    <3>2. ~(Cardinality(H) >= MaxCount)
      BY <1>5, <1>6, <2>2
    <3> HIDE DEF H
    <3>3. IsFiniteSet(H \cup {k}) /\ Cardinality(H \cup {k}) = Cardinality(H) + 1
      BY <2>2, <3>1, FS_AddElement
    <3> QED
      BY <3>1, <3>2, <3>3 DEF AtMost
  <2> QED
    BY <2>1, <2>2
<1>8. \A m \in Moment : Held(Replayed(log), m) = Held(facts, m)
  BY ServedSame, SameHeld
<1>9. Over(log, Len(log), c)
  BY DEF OrderInv, Over
<1>10. FadesIn(Replayed(log), c)
  BY <1>1, <1>9 DEF CeilingInv, Fading
<1>11. ASSUME NEW m \in Moment, c <= m
       PROVE  AtMost(Held(Replayed(log), m) \cup {k})
  <2>1. Held(Replayed(log), m) \subseteq H
    BY <1>1, <1>8, <1>10, <1>11 DEF FadesIn
  <2> HIDE DEF H
  <2> QED
    BY <1>7, <2>1, AtMostFewer
<1> QED
  BY <1>11 DEF Fits

\* memory_store passes its checks.
LEMMA CeilingStore ==
    ASSUME IInv, OrderInv, OneProcess, HistoryInv, CeilingInv, TTLs \subseteq Nat,
           NEW p \in Procs, NEW k \in Keys, NEW tags \in SUBSET Tags, NEW ttl \in TTLs,
           NEW from \in Bounds, NEW to \in Bounds, StoreCall(p, k, tags, ttl, from, to)
    PROVE  CeilingInv'
<1> DEFINE e == Fact(k, tags, ttl, from, to)
           s == [do |-> "stamp", e |-> e]
<1>1. /\ todo[p] = <<>> /\ todo' = [todo EXCEPT ![p] = << s >>]
      /\ UNCHANGED <<clock, log, facts, lost, told>>
      /\ ~(IsNew(k) /\ Cardinality(LiveRows(facts)) >= MaxCount)
  BY DEF StoreCall, Idle
<1>2. Fits(k, log, Sec(clock))
  BY <1>1, CheckFits
<1>3. s.do = "stamp" /\ s.e.key = k /\ s.e.ttl >= 0
  <2>1. ttl \in Nat
    OBVIOUS
  <2> QED
    BY <2>1 DEF Fact
<1> HIDE DEF s
<1>4. DOMAIN << s >> = {1} /\ << s >>[1] = s
  OBVIOUS
<1> DEFINE q == << s >>
<1> HIDE DEF q
<1>5. DOMAIN q = {1} /\ q[1] = s
  BY <1>4 DEF q
<1>6. Admitted(q, log, clock)
  BY <1>2, <1>3, <1>5 DEF Admitted
<1>7. Dated(q)
  BY <1>3, <1>5 DEF Dated
<1>8. todo' = [todo EXCEPT ![p] = q] /\ ~lost'
  BY <1>1 DEF q, CeilingInv
<1> QED
  BY <1>1, <1>6, <1>7, <1>8, CeilingCall

\* It is stamped.
LEMMA CeilingStamp ==
    ASSUME IInv, OneProcess, CeilingInv, NEW p \in Procs, Stamp(p)
    PROVE  CeilingInv'
<1> DEFINE s == Head(todo[p])
           e == [s.e EXCEPT !.updated = clock]
<1>1. /\ todo[p] # <<>> /\ s.do = "stamp" /\ todo[p] \in Seq(Steps)
      /\ todo' = [todo EXCEPT ![p] = Write(e)]
      /\ UNCHANGED <<clock, log, facts, lost, told>>
  BY DEF Stamp, At, Idle, IInv, TypeOK
<1>2. s = todo[p][1] /\ 1 \in DOMAIN todo[p] /\ s \in Steps
  BY <1>1
<1>3. s.e \in EntryType
  BY <1>1, <1>2, StepKinds
<1>4. e.updated = clock /\ e.op = s.e.op /\ e.key = s.e.key /\ e.ttl = s.e.ttl
  BY <1>3 DEF EntryType
<1>5. s.e.ttl >= 0 /\ (s.e.op = "store" => Fits(s.e.key, log, Sec(clock)))
  BY <1>1, <1>2 DEF CeilingInv, Admitted, Dated
<1> HIDE DEF e, s
<1> DEFINE q == Write(e)
<1>6. /\ DOMAIN q = {1, 2} /\ q[1].do = "append" /\ q[2].do = "apply"
      /\ q[1].e = e /\ q[2].e = e
  BY DEF Write
<1> HIDE DEF q
<1>7. Admitted(q, log, clock)
  BY <1>4, <1>5, <1>6 DEF Admitted
<1>8. Dated(q)
  BY <1>4, <1>5, <1>6 DEF Dated
<1>9. todo' = [todo EXCEPT ![p] = q] /\ ~lost'
  BY <1>1 DEF q, CeilingInv
<1> QED
  BY <1>1, <1>7, <1>8, <1>9, CeilingCall

\* A forget adds nothing.
LEMMA CeilingForget ==
    ASSUME IInv, OneProcess, CeilingInv, NEW p \in Procs, NEW k \in Keys \cup {NoKey},
           NEW tags \in SUBSET Tags, ForgetCall(p, k, tags)
    PROVE  CeilingInv'
<1> DEFINE d == Tombstone("delete", k, {}, clock)
           t == Tombstone("delete_tags", NoKey, tags, clock)
           a == IF k # NoKey THEN Write(d) ELSE <<>>
           b == IF tags # {} THEN Write(t) ELSE <<>>
           q == a \o b
<1>1. /\ todo' = [todo EXCEPT ![p] = q]
      /\ k # NoKey \/ tags # {}
      /\ UNCHANGED <<clock, log, facts, lost, told>>
  BY DEF ForgetCall
<1>2. \A e \in {d, t} : e.op # "store" /\ e.ttl = 0
  BY DEF Tombstone
<1> HIDE DEF d, t
<1>3. /\ Write(d) \o <<>> = Write(d) /\ <<>> \o Write(t) = Write(t)
  BY DEF Write
<1>4. q \in {Write(d), Write(t), Write(d) \o Write(t)}
  BY <1>1, <1>3
<1> HIDE DEF q
<1>5. InTurn(q, d, t)
  BY <1>4, WritesInTurn
<1>6. \A i \in DOMAIN q : q[i].e.op # "store" /\ q[i].e.ttl = 0
  BY <1>2, <1>5 DEF InTurn
<1>7. Admitted(q, log, clock) /\ Dated(q)
  BY <1>6 DEF Admitted, Dated
<1>8. ~lost'
  BY <1>1 DEF CeilingInv
<1> QED
  BY <1>1, <1>7, <1>8, CeilingCall


\* One more entry, and what a rescan replays is within the limit still.
LEMMA WithinGrows ==
    ASSUME NEW l \in Seq(LogType), ReplayGood(l), Within(l),
           NEW w \in LogType, Named(w), Timed(w), w.op # "delete_tags",
           w.op = "store" => Fits(w.key, l, w.updated)
    PROVE  Within(Append(l, w))
<1> DEFINE n == Len(l)
           r == Append(l, w)
           T == Replayed(l)
           R == Replayed(r)
<1>1. /\ n \in Nat /\ Len(r) = n + 1 /\ r[n + 1] = w /\ n + 1 \in Nat /\ n + 1 \in 1..(n + 1)
      /\ \A i \in 1..n : r[i] = l[i]
      /\ SubSeq(r, 1, n + 1) = r /\ SubSeq(l, 1, n) = l /\ n \in 0..n
  OBVIOUS
<1>2. w \in EntryType /\ w.updated \in Nat
  BY DEF LogType, EntryType, Ticks
<1>3. T \in SUBSET VersionType(Keys, Tags) /\ GoodRows(T, l)
  BY DEF ReplayGood
<1>4. R = ApplyEntry(T, w, n + 1)
  BY ReplayedAppend
<1> HIDE DEF T
<1>5. ASSUME NEW x \in 0..n
      PROVE  SubSeq(r, 1, x) = SubSeq(l, 1, x)
  OBVIOUS
<1> HIDE DEF r, R, n
<1>6. ASSUME NEW x \in 0..Len(r), NEW m \in Moment, Over(r, x, m)
      PROVE  AtMost(Held(Replayed(SubSeq(r, 1, x)), m))
  <2>1. CASE x \in 0..n
    <3>1. Over(l, x, m)
      BY <1>1, <1>6, <2>1 DEF Over
    <3> QED
      BY <1>5, <2>1, <3>1 DEF Within, n
  <2>2. CASE x = n + 1
    <3>1. w.updated <= m /\ Over(l, n, m)
      BY <1>1, <1>6, <2>2 DEF Over
    <3>2. AtMost(Held(T, m))
      BY <1>1, <3>1 DEF Within, n, T
    <3>3. CASE w.op = "store"
      <4>1. AtMost(Held(T, m) \cup {w.key})
        BY <3>1, <3>3 DEF Fits, T
      <4>2. Held(R, m) \subseteq Held(T, m) \cup {w.key}
        <5> SUFFICES ASSUME NEW k \in Held(R, m)
                     PROVE  k \in Held(T, m) \cup {w.key}
          OBVIOUS
        <5>1. k \in Keys
          BY DEF Held
        <5> QED
          BY <1>1, <1>2, <1>3, <1>4, <3>3, <5>1, HeldAfter
      <4>3. AtMost(Held(R, m))
        BY <4>1, <4>2, AtMostFewer
      <4> QED
        BY <1>1, <2>2, <4>3 DEF R
    <3>4. CASE w.op # "store"
      <4>1. Held(R, m) \subseteq Held(T, m)
        <5> SUFFICES ASSUME NEW k \in Held(R, m)
                     PROVE  k \in Held(T, m)
          OBVIOUS
        <5>1. k \in Keys
          BY DEF Held
        <5> QED
          BY <1>1, <1>2, <1>3, <1>4, <3>4, <5>1, HeldAfter
      <4>2. AtMost(Held(R, m))
        BY <3>2, <4>1, AtMostFewer
      <4> QED
        BY <1>1, <2>2, <4>2 DEF R
    <3> QED
      BY <3>3, <3>4
  <2>3. x \in 0..n \/ x = n + 1
    BY <1>1
  <2> QED
    BY <2>1, <2>2, <2>3
<1> QED
  BY <1>6 DEF Within, r

\* An entry that holds from its own time on waits for nothing.
LEMMA FadingGrows ==
    ASSUME NEW l \in Seq(LogType), ReplayGood(l), Fading(l),
           NEW w \in LogType, Named(w), Timed(w), w.op # "delete_tags", w.vf <= w.updated
    PROVE  Fading(Append(l, w))
<1> DEFINE n == Len(l)
           r == Append(l, w)
           T == Replayed(l)
           R == Replayed(r)
           f == CallOf(w, n + 1)
<1>1. /\ n \in Nat /\ Len(r) = n + 1 /\ r[n + 1] = w /\ n + 1 \in Nat /\ n + 1 \in 1..(n + 1)
      /\ \A i \in 1..n : r[i] = l[i] /\ i \in 1..(n + 1)
  OBVIOUS
<1>2. /\ w \in EntryType /\ w.updated \in Nat /\ w.vf \in Nat /\ w.vt \in Nat
      /\ Sec(w.updated) = w.updated /\ Sec(w.vf) = w.vf /\ Sec(w.vt) = w.vt
  BY DEF LogType, EntryType, Ticks
<1>3. T \in SUBSET VersionType(Keys, Tags) /\ GoodRows(T, l)
  BY DEF ReplayGood
<1>4. R = ApplyEntry(T, w, n + 1)
  BY ReplayedAppend
<1>5. Sec(ValidFrom(f)) <= w.updated /\ Sec(ValidFrom(f)) \in Nat /\ Sec(f.vt) \in Nat
  BY <1>2 DEF CallOf, ValidFrom
<1> HIDE DEF r, R, n, T, f
<1>6. ASSUME NEW m \in Moment, Over(r, Len(r), m), NEW u \in Moment, m <= u,
             NEW k \in Held(R, u)
      PROVE  k \in Held(R, m)
  <2>1. w.updated <= m /\ Over(l, n, m)
    BY <1>1, <1>6 DEF Over
  <2>2. k \in Keys /\ m \in Nat /\ u \in Nat
    BY DEF Held, Moment
  <2>3. k \in Held(T, u) => k \in Held(T, m)
    BY <1>6, <2>1 DEF Fading, FadesIn, n, T
  <2>4. Inside(f, u) => Inside(f, m)
    BY <1>2, <1>5, <1>6, <2>1, <2>2 DEF Inside
  <2>5. CASE w.op = "store"
    <3>1. \A x \in Moment : k \in Held(R, x) <=> k \in Held(T, x) \/ (k = w.key /\ Inside(f, x))
      BY <1>1, <1>2, <1>3, <1>4, <2>2, <2>5, HeldAfter DEF f
    <3> QED
      BY <1>6, <2>3, <2>4, <3>1
  <2>6. CASE w.op # "store"
    <3>1. \A x \in Moment : k \in Held(R, x) <=> k \in Held(T, x) /\ k # w.key
      BY <1>1, <1>2, <1>3, <1>4, <2>2, <2>6, HeldAfter
    <3> QED
      BY <1>6, <2>3, <3>1
  <2> QED
    BY <2>5, <2>6
<1> QED
  BY <1>6 DEF Fading, FadesIn, r, R

\* An entry reaches the log.
LEMMA CeilingAppend ==
    ASSUME IInv, OrderInv, OneProcess, HistoryInv, CeilingInv, NEW p \in Procs, AppendLog(p),
           Plain(log')
    PROVE  CeilingInv'
<1> DEFINE q == todo[p]
           e == q[1].e
           w == Written(e)
           n == Len(log)
           t == Appended(q, n + 1)
<1>1. /\ q \in Seq(Steps) /\ q # <<>> /\ Head(q).do = "append" /\ GoodCall(q, log)
      /\ log \in Seq(LogType) /\ n \in Nat /\ n + 1 \in Nat
  BY DEF AppendLog, At, Idle, IInv, TypeOK, GoodCalls
<1>2. /\ Head(q) = q[1] /\ 1 \in DOMAIN q /\ e \in EntryType
      /\ DOMAIN t = 1..(Len(q) - 1) /\ 1 \in DOMAIN t
      /\ \A i \in 1..(Len(q) - 1) :
            /\ i + 1 \in DOMAIN q /\ t[i].do = q[i + 1].do
            /\ Writing(q[i + 1]) => t[i].e = q[i + 1].e
  BY <1>1, AppendedCall
<1>3. /\ log' = Append(log, w) /\ todo' = [todo EXCEPT ![p] = t]
      /\ UNCHANGED <<clock, facts, lost, told>>
  BY <1>2 DEF AppendLog, Appended
<1>4. q[1].do = "append" /\ Named(e) /\ Timed(e)
  BY <1>1, <1>2 DEF GoodCall, GoodStep
<1>5. w \in LogType /\ w.updated = Sec(e.updated) /\ Named(w) /\ Timed(w)
      /\ w.op = e.op /\ w.key = e.key
  BY <1>2, <1>4, WrittenEntry
<1>6. w.vf <= w.updated /\ w.op # "delete_tags"
  <2>1. n + 1 \in 1..Len(log') /\ log'[n + 1] = w
    BY <1>1, <1>3, <1>5
  <2> QED
    BY <2>1 DEF Plain
<1>7. /\ Admitted(q, log, clock) /\ Dated(q) /\ Within(log) /\ Fading(log) /\ ~lost
      /\ RoomIn(facts, clock) /\ \A v \in facts : v.ttl >= 0
  BY DEF CeilingInv
<1>8. \A i \in DOMAIN t : i \in Nat \ {0} /\ i + 1 # 1
  BY <1>2
<1>12. ASSUME NEW i \in 1..(Len(q) - 1)
       PROVE  q[i + 1].do # "stamp"
  <2>1. i + 1 \in DOMAIN q /\ i + 1 # 1
    BY <1>2, <1>8
  <2>2. GoodStep(q, i + 1, log)
    BY <1>1, <2>1 DEF GoodCall
  <2> QED
    BY <2>1, <2>2 DEF GoodStep
<1> HIDE DEF q, t, w, n, e
<1>9. w.op = "store" => Fits(w.key, log, w.updated)
  BY <1>2, <1>4, <1>5, <1>7 DEF Admitted, e
<1>10. Within(log') /\ Fading(log')
  BY <1>1, <1>3, <1>5, <1>6, <1>7, <1>9, WithinGrows, FadingGrows DEF HistoryInv
<1>11. Dated(t)
  BY <1>2, <1>7, <1>12 DEF Dated, Writing
<1>13. Admitted(t, log', clock)
  BY <1>2, <1>7, <1>8, <1>12 DEF Admitted, Writing
<1>14. \A r \in Procs : todo'[r] = t
  BY <1>3 DEF IInv, TypeOK, OneProcess
<1> QED
  BY <1>3, <1>7, <1>10, <1>11, <1>13, <1>14 DEF CeilingInv


\* An entry reaches the index, at once or in a replay.
LEMMA CeilingApply ==
    ASSUME IInv, OrderInv, OneProcess, HistoryInv, CeilingInv, Plain(log),
           NEW p \in Procs, ApplyIndex(p)
    PROVE  CeilingInv'
<1> DEFINE q == todo[p]
           s == q[1]
<1>1. /\ q \in Seq(Steps) /\ q # <<>> /\ Head(q).do = "apply" /\ GoodCall(q, log)
      /\ log \in Seq(LogType) /\ facts \in SUBSET VersionType(Keys, Tags)
      /\ \A v \in facts : WellFormed(v)
      /\ Shape(q, facts, log, lost)
  BY DEF ApplyIndex, At, Idle, IInv, TypeOK, GoodCalls, GoodRows, HistoryInv
<1>2. /\ Head(q) = s /\ 1 \in DOMAIN q /\ s \in Steps /\ s.do = "apply"
      /\ DOMAIN Tail(q) = 1..(Len(q) - 1) /\ Len(q) \in Nat
      /\ \A i \in 1..(Len(q) - 1) : Tail(q)[i] = q[i + 1] /\ i + 1 \in DOMAIN q /\ i + 1 # 1
  BY <1>1
<1>3. /\ s.e \in EntryType /\ Named(s.e) /\ Timed(s.e) /\ s.line \in Nat
      /\ s.line \in 1..Len(log) /\ log[s.line] = Written(s.e)
  <2>1. GoodStep(q, 1, log)
    BY <1>1, <1>2 DEF GoodCall
  <2> QED
    BY <1>1, <1>2, <2>1, StepKinds DEF GoodStep
<1>4. /\ facts' = ApplyEntry(facts, s.e, s.line) /\ todo' = [todo EXCEPT ![p] = Tail(q)]
      /\ UNCHANGED <<clock, log, lost, told>>
  BY <1>2 DEF ApplyIndex
<1>5. /\ Admitted(q, log, clock) /\ Dated(q) /\ Within(log) /\ Fading(log) /\ ~lost
      /\ RoomIn(facts, clock) /\ \A v \in facts : v.ttl >= 0
  BY DEF CeilingInv
<1>6. s.e.ttl >= 0
  BY <1>2, <1>5 DEF Dated
<1>7. /\ Written(s.e).updated = Sec(s.e.updated) /\ Written(s.e).vf = Sec(s.e.vf)
      /\ Sec(s.e.updated) \in Nat /\ Sec(s.e.vf) \in Nat
  <2>1. s.e.updated \in Nat /\ s.e.vf \in Nat
    BY <1>3 DEF EntryType, Ticks
  <2> QED
    BY <1>3, <2>1, WrittenEntry, SecType
<1>8. Sec(s.e.vf) <= Sec(s.e.updated) /\ Sec(s.e.updated) <= Sec(clock)
  BY <1>3, <1>7 DEF Plain, OrderInv
<1>9. Sec(clock) \in Nat
  BY NowIsMoment DEF Moment
<1>10. ASSUME NEW i \in 1..Len(log)
       PROVE  log[i].updated \in Nat
  <2>1. log[i] \in LogType
    BY <1>1
  <2> QED
    BY <2>1 DEF LogType, EntryType, Ticks
<1> HIDE DEF q, s
<1>11. \A v \in facts' : v.ttl >= 0
  <2> SUFFICES ASSUME NEW v \in ApplyEntry(facts, s.e, s.line)
               PROVE  v.ttl >= 0
    BY <1>4
  <2>1. v.ttl = s.e.ttl \/ \E w \in facts : v.ttl = w.ttl
    BY <1>1, <1>3, ApplyTTL
  <2> QED
    BY <1>5, <1>6, <2>1
<1>12. ASSUME NEW m \in Moment, Sec(clock) <= m
       PROVE  AtMost(Held(facts', m))
  <2>1. CASE Serving(q, facts, log, lost)
    <3>1. Same(facts', Replayed(log))
      <4>1. Same(Caught(q, facts), Replayed(log))
        BY <1>5, <2>1 DEF Serving
      <4>2. Caught(q, facts) = facts'
        BY <1>1, <1>2, <1>4 DEF Caught, s
      <4> QED
        BY <4>1, <4>2
    <3>2. Over(log, Len(log), m)
      <4>1. m \in Nat
        BY DEF Moment
      <4> QED
        BY <1>9, <1>12, <1>10, <4>1 DEF OrderInv, Over
    <3>3. Len(log) \in 0..Len(log) /\ SubSeq(log, 1, Len(log)) = log
      BY <1>1
    <3>4. AtMost(Held(Replayed(log), m))
      BY <1>5, <3>2, <3>3 DEF Within
    <3> QED
      BY <3>1, <3>4, SameHeld
  <2>2. CASE \E n \in Nat : /\ n < Len(log) /\ q = Rest(log, n)
                            /\ facts = Replayed(SubSeq(log, 1, n))
    <3>1. PICK n \in Nat : /\ n < Len(log) /\ q = Rest(log, n)
                           /\ facts = Replayed(SubSeq(log, 1, n))
      BY <2>2
    <3>2. n + 1 \in 0..Len(log) /\ n \in 0..Len(log)
      BY <1>1, <3>1
    <3>3. s = [do |-> "apply", e |-> log[n + 1], line |-> n + 1]
      BY <1>1, <3>1, <3>2, RestSteps DEF s
    <3>4. s.e = log[n + 1] /\ s.line = n + 1
      BY <3>3
    <3>5. facts' = Replayed(SubSeq(log, 1, n + 1))
      <4>1. Replayed(SubSeq(log, 1, n + 1))
              = ApplyEntry(Replayed(SubSeq(log, 1, n)), log[n + 1], n + 1)
        BY <1>1, <3>1, ReplayedNext
      <4> QED
        BY <1>4, <3>1, <3>4, <4>1
    <3>6. Over(log, n + 1, m)
      <4>1. m \in Nat /\ Len(log) \in Nat
        BY <1>1 DEF Moment
      <4>2. \A i \in 1..(n + 1) : i \in 1..Len(log)
        BY <3>2, <4>1
      <4> QED
        BY <1>9, <1>12, <1>10, <4>1, <4>2 DEF OrderInv, Over
    <3> QED
      BY <1>5, <3>2, <3>5, <3>6 DEF Within
  <2> QED
    BY <1>1, <2>1, <2>2, HeadKinds
<1>13. ASSUME NEW m \in Moment, Sec(clock) <= m
       PROVE  RowAt(facts', m)
  <2>1. Sec(s.e.vf) <= m /\ Sec(s.e.updated) <= m
    BY <1>7, <1>8, <1>9, <1>13 DEF Moment
  <2>2. RowAt(facts, m)
    BY <1>5, <1>13 DEF RoomIn
  <2> QED
    BY <1>1, <1>3, <1>4, <2>1, <2>2, ApplyRowAt
<1>14. RoomIn(facts', clock')
  BY <1>4, <1>12, <1>13 DEF RoomIn
<1>15. Admitted(Tail(q), log, clock) /\ Dated(Tail(q))
  BY <1>2, <1>5 DEF Admitted, Dated
<1>16. \A r \in Procs : todo'[r] = Tail(q)
  BY <1>4 DEF IInv, TypeOK, OneProcess
<1> QED
  BY <1>4, <1>5, <1>11, <1>14, <1>15, <1>16 DEF CeilingInv

\* The tables are dropped.
LEMMA CeilingReset ==
    ASSUME IInv, OneProcess, CeilingInv, NEW p \in Procs, Reset(p)
    PROVE  CeilingInv'
<1> DEFINE q == << [do |-> "read"] >>
<1>1. /\ facts' = {} /\ todo' = [todo EXCEPT ![p] = q]
      /\ UNCHANGED <<clock, log, lost, told>>
  BY DEF Reset
<1>2. DOMAIN q = {1} /\ q[1].do = "read"
  OBVIOUS
<1> HIDE DEF q
<1>3. Admitted(q, log, clock) /\ Dated(q)
  BY <1>2 DEF Admitted, Dated
<1>4. \A r \in Procs : todo'[r] = q
  BY <1>1 DEF IInv, TypeOK, OneProcess
<1>5. RoomIn(facts', clock')
  <2>1. \A m : Held({}, m) = {}
    BY DEF Held, Belief
  <2> QED
    BY <1>1, <2>1, AtMostNone DEF RoomIn, RowAt
<1> QED
  BY <1>1, <1>3, <1>4, <1>5 DEF CeilingInv

\* The log is read: its entries have no negative time to live.
LEMMA CeilingRead ==
    ASSUME IInv, OrderInv, OneProcess, HistoryInv, CeilingInv, NEW p \in Procs, ReadLog(p)
    PROVE  CeilingInv'
<1>1. log \in Seq(LogType) /\ UNCHANGED <<clock, log, facts, lost, told>>
  BY DEF ReadLog, IInv, TypeOK
<1>2. Replay(log, clock) = {Whole(log)}
  BY <1>1, ReplayWhole DEF OrderInv, HistoryInv, Timeless
<1> DEFINE q == Append(Whole(log), [do |-> "done"])
<1>3. todo' = [todo EXCEPT ![p] = q]
  BY <1>2 DEF ReadLog
<1>4. q = Rest(log, 0) /\ 0 \in 0..Len(log)
  BY <1>1, RestWhole
<1> HIDE DEF q
<1>5. \A i \in DOMAIN q : \/ q[i].do = "done"
                          \/ q[i].do = "apply" /\ \E j \in 1..Len(log) : q[i].e = log[j]
  <2>1. \A i \in DOMAIN Rest(log, 0) :
           \/ Rest(log, 0)[i].do = "done"
           \/ /\ Rest(log, 0)[i].do = "apply"
              /\ \E j \in 1..Len(log) : Rest(log, 0)[i].e = log[j]
    BY <1>1, <1>4, RestSteps
  <2> QED
    BY <1>4, <2>1
<1>6. \A j \in 1..Len(log) : log[j].ttl >= 0
  BY <1>1 DEF LogType
<1>7. Admitted(q, log, clock) /\ Dated(q)
  BY <1>5, <1>6 DEF Admitted, Dated
<1>8. ~lost'
  BY <1>1 DEF CeilingInv
<1> QED
  BY <1>1, <1>3, <1>7, <1>8, CeilingCall

\* The rescan ends, and calls do not fail.
LEMMA CeilingEnd ==
    ASSUME IInv, OneProcess, CeilingInv, ~MayFail, NEW p \in Procs, Rescanned(p) \/ Fail(p)
    PROVE  CeilingInv'
<1>1. todo' = [todo EXCEPT ![p] = <<>>] /\ UNCHANGED <<clock, log, facts>> /\ ~lost'
  BY DEF Rescanned, Fail
<1>2. Admitted(<<>>, log, clock) /\ Dated(<<>>)
  BY DEF Admitted, Dated
<1> QED
  BY <1>1, <1>2, CeilingCall

\* Nothing has expired.
LEMMA CeilingPrune ==
    ASSUME IInv, HistoryInv, CeilingInv, NEW p \in Procs, Prune(p)
    PROVE  CeilingInv'
<1>1. \A v \in facts : v.ttl <= 0 /\ v.ttl \in Int
  BY DEF HistoryInv, IInv, TypeOK, VersionType
<1>2. PurgeExpired(facts, clock) = facts
  BY <1>1 DEF PurgeExpired
<1>3. UNCHANGED vars
  BY <1>2 DEF Prune, vars
<1> QED
  BY <1>3 DEF CeilingInv, vars

\* Every step keeps the limit, unless it brings a later start or a forget by
\* tags into the log.
LEMMA NextCeiling ==
    ASSUME IInv, OrderInv, OneProcess, HistoryInv, CeilingInv, Plain(log), [Next]_vars, Plain(log'),
           ~MayFail, TTLs \subseteq Nat
    PROVE  CeilingInv'
<1>1. CASE UNCHANGED vars
  BY <1>1 DEF vars, CeilingInv
<1>2. CASE Tick
  BY <1>2, CeilingTick
<1>3. ASSUME NEW p \in Procs, NEW k \in Keys, NEW tags \in SUBSET Tags, NEW ttl \in TTLs,
             NEW from \in Bounds, NEW to \in Bounds, StoreCall(p, k, tags, ttl, from, to)
      PROVE  CeilingInv'
  BY <1>3, CeilingStore
<1>4. ASSUME NEW p \in Procs, NEW k \in Keys \cup {NoKey}, NEW tags \in SUBSET Tags,
             ForgetCall(p, k, tags)
      PROVE  CeilingInv'
  BY <1>4, CeilingForget
<1>5. ASSUME NEW p \in Procs, Stamp(p) \/ AppendLog(p) \/ ApplyIndex(p)
      PROVE  CeilingInv'
  BY <1>5, CeilingStamp, CeilingAppend, CeilingApply
<1>6. ASSUME NEW p \in Procs, Reset(p) \/ ReadLog(p) \/ Rescanned(p) \/ Prune(p) \/ Fail(p)
      PROVE  CeilingInv'
  BY <1>6, CeilingReset, CeilingRead, CeilingEnd, CeilingPrune
<1> QED
  BY <1>1, <1>2, <1>3, <1>4, <1>5, <1>6 DEF Next

\* Nothing is held at the start.
LEMMA InitCeiling == Init => CeilingInv
<1> SUFFICES ASSUME Init
             PROVE  CeilingInv
  OBVIOUS
<1>1. /\ log = <<>> /\ Len(<<>>) = 0 /\ facts = {} /\ ~lost /\ Replayed(<<>>) = {}
      /\ \A p \in Procs : todo[p] = <<>>
  BY ReplayedEmpty DEF Init
<1>2. \A m : Held({}, m) = {}
  BY DEF Held, Belief
<1>3. \A n \in 0..0 : SubSeq(<<>>, 1, n) = <<>>
  OBVIOUS
<1>4. Within(log)
  BY <1>1, <1>2, <1>3, AtMostNone DEF Within
<1>5. Fading(log)
  BY <1>1, <1>2 DEF Fading, FadesIn
<1>6. RoomIn(facts, clock)
  BY <1>1, <1>2, AtMostNone DEF RoomIn, RowAt
<1>7. Admitted(<<>>, log, clock) /\ Dated(<<>>)
  BY DEF Admitted, Dated
<1> QED
  BY <1>1, <1>4, <1>5, <1>6, <1>7 DEF CeilingInv

\* The log only grows: what is said in it is never taken out.
LEMMA PlainBefore ==
    ASSUME IInv, [Next]_vars, Plain(log')
    PROVE  Plain(log)
<1>1. log \in Seq(LogType)
  BY DEF IInv, TypeOK
<1>2. log' = log \/ \E w \in LogType : log' = Append(log, w)
  BY RowsChange
<1>3. Len(log) \in Nat /\ Len(log) <= Len(log') /\ \A i \in 1..Len(log) : log'[i] = log[i]
  BY <1>1, <1>2
<1>4. Len(log') \in Nat
  BY <1>1, <1>2
<1> QED
  BY <1>3, <1>4 DEF Plain

\* With one process whose calls do not fail half-way and whose times to live are
\* not negative, no more memories are live than configured, in the middle of a
\* rescan either: the store that passed its check is counted before the next one
\* is checked, nothing that is not counted begins to hold later, and every part
\* of the log that a rescan replays is within the limit too.
THEOREM SoftCeilingAlways ==
    ASSUME OneProcess, ~MayFail, TTLs \subseteq Nat
    PROVE  Spec => []SoftCeiling
<1> DEFINE Kept == Timeless /\ Plain(log) => CeilingInv
           J == IInv /\ OrderInv /\ (Timeless => HistoryInv) /\ Kept
<1>1. Init => J
  BY InitIInv, InitOrder, InitHistory, InitCeiling
<1>2. J /\ [Next]_vars => J'
  <2>1. J /\ [Next]_vars => (IInv /\ OrderInv /\ (Timeless => HistoryInv))'
    BY NextIInv, NextOrder, NextHistory, TimelessBefore
  <2>2. ASSUME J, [Next]_vars, Timeless', Plain(log')
        PROVE  CeilingInv'
    BY <2>2, TimelessBefore, PlainBefore, NextCeiling
  <2> QED
    BY <2>1, <2>2
<1>3. J => SoftCeiling
  <2> SUFFICES ASSUME J, Timeless, Plain(log)
               PROVE  Cardinality(LiveRows(facts)) <= MaxCount
    BY DEF SoftCeiling, Plain
  <2>1. facts \in SUBSET VersionType(Keys, Tags) /\ \A v \in facts : v.ttl \in Int
    BY DEF IInv, TypeOK, VersionType
  <2>2. \A v \in facts : v.ttl = 0
    BY <2>1 DEF HistoryInv, CeilingInv
  <2>3. AtMost(Held(facts, Sec(clock))) /\ RowAt(facts, Sec(clock))
    <3>1. Sec(clock) \in Moment /\ Sec(clock) <= Sec(clock)
      BY NowIsMoment DEF Moment
    <3> QED
      BY <3>1 DEF CeilingInv, RoomIn
  <2> QED
    BY <2>1, <2>2, <2>3, LiveHeld DEF AtMost
<1> QED
  BY <1>1, <1>2, <1>3, PTL DEF Spec
=============================================================================
