------------------------------- MODULE Index -------------------------------
(***************************************************************************)
(* The storage layer (type sqliteStore behind the interface storage) as a  *)
(* machine of its own: the table facts and the calls that change it.       *)
(*                                                                         *)
(* The store stamps each call from its clock while it holds its mutex, so  *)
(* transaction times never decrease: clock is the latest of them.  Nothing *)
(* is asked of the bounds a fact is given, valid_to may even precede        *)
(* valid_from: the checks belong to the caller (module Store).             *)
(***************************************************************************)
EXTENDS Bitemporal

CONSTANTS Keys, Tags,
          TTLs,       \* the time-to-live values facts are stored with
          Bounds,     \* the ticks callers name as valid_from and valid_to
          Moments,    \* the moments readers ask about
          MaxTick,    \* the clock stops there
          MaxLines    \* the number of facts stored

ASSUME IndexAssumption ==
    /\ TTLs \subseteq Int
    /\ Bounds \subseteq {t \in Nat : t = Zero \/ t >= Resolution}
    /\ Moments \subseteq {m \in Nat : m >= Resolution /\ Sec(m) = m}
    /\ MaxTick \in Nat
    /\ MaxLines \in Nat

VARIABLES facts,    \* the rows
          clock,    \* the latest transaction time, in ticks
          lines     \* entries written so far: the next fact's line follows

vars == <<facts, clock, lines>>

Lines == 1..MaxLines

TypeOK ==
    /\ facts \subseteq VersionType(Keys, Tags)
    /\ clock \in Ticks
    /\ lines \in Nat

Init ==
    /\ facts = {}
    /\ clock = Resolution
    /\ lines = 0

Tick ==
    /\ clock < MaxTick
    /\ clock' = clock + 1
    /\ UNCHANGED <<facts, lines>>

PutFact(k, tags, ttl, from, to) ==
    /\ lines < MaxLines
    /\ lines' = lines + 1
    /\ facts' = Put(facts, [key |-> k, line |-> lines + 1, tags |-> tags,
                            ttl |-> ttl, updated |-> clock, vf |-> from, vt |-> to])
    /\ UNCHANGED clock

ForgetKey(k) ==
    /\ facts' = DeleteByEntity(facts, k, clock)
    /\ UNCHANGED <<clock, lines>>

ForgetTags(tags) ==
    /\ facts' = DeleteByTags(facts, tags, clock)
    /\ UNCHANGED <<clock, lines>>

Purge ==
    /\ facts' = PurgeExpired(facts, clock)
    /\ UNCHANGED <<clock, lines>>

Next ==
    \/ Tick
    \/ \E k \in Keys, tags \in SUBSET Tags, ttl \in TTLs, from, to \in Bounds :
          PutFact(k, tags, ttl, from, to)
    \/ \E k \in Keys : ForgetKey(k)
    \/ \E tags \in SUBSET Tags : ForgetTags(tags)
    \/ Purge

Spec == Init /\ [][Next]_vars

-----------------------------------------------------------------------------
(* Properties.                                                              *)

\* The shape of the table: whole seconds everywhere, nothing stamped after the
\* clock, no forgotten row still believed, and rows of one log entry that differ
\* only in when they hold and were believed.
TableShape ==
    /\ clock >= Resolution
    /\ lines <= MaxLines
    /\ \A v \in facts : WellFormed(v) /\ Stamped(v, Sec(clock)) /\ v.line \in 1..lines
    /\ \A v, w \in facts : v.line = w.line => SameFact(v, w)

\* At every moment, and as of every transaction time, a key has at most one
\* content: whatever mix of open, closed, overlapping, sub-second or inverted
\* validities was stored, the pieces copyVersion cuts leave no moment with two
\* answers.
OneAnswer ==
    \A k \in Keys, m \in Moments :
        /\ \A x, y \in Belief(facts, k, m) : x = y
        /\ \A t \in Moments : \A x, y \in BeliefAt(facts, k, t, m) : x = y

\* The inductive invariant: what every call relies on and keeps.
IInv == TypeOK /\ TableShape /\ OneAnswer

\* What mem7 says it believed as of a second that is over is never rewritten:
\* a read with as_of answers tomorrow what it answered today, whatever is
\* stored or forgotten in between.  Only the TTL purge takes from it.
FreezesPast ==
    \/ facts' = PurgeExpired(facts, clock)
    \/ \A k \in Keys, t, m \in Moments :
         t < Sec(clock) => BeliefAt(facts', k, t, m) = BeliefAt(facts, k, t, m)

PastFrozen == [][FreezesPast]_vars

\* A content that stopped being believed about a moment, superseded, forgotten
\* or purged, is never believed about it again; copyVersion, which makes rows
\* believed "again", gives back only what the same call took.
ResurrectsNothing ==
    \A k \in Keys, m \in Moments :
        Belief(facts', k, m) \ Belief(facts, k, m) \subseteq {lines + 1}

NoResurrection == [][ResurrectsNothing]_vars

\* The rows implement the timeline: each call changes the answers, present and
\* past, the way the abstract store does.
BeliefMap == [k \in Keys |-> [m \in Moments |-> Belief(facts, k, m)]]
PastMap == [t \in Moments |-> [k \in Keys |-> [m \in Moments |->
             IF t < Sec(clock) THEN BeliefAt(facts, k, t, m) ELSE {}]]]

T == INSTANCE Timeline
        WITH now <- Sec(clock), belief <- BeliefMap, past <- PastMap

Refinement == T!Spec
=============================================================================
