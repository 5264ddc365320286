------------------------------ MODULE Timeline ------------------------------
(***************************************************************************)
(* What the index promises, without rows: for every key, a line of moments *)
(* with what is believed about each, and the same line frozen at the end   *)
(* of every second that has passed.                                        *)
(***************************************************************************)
EXTENDS Integers

CONSTANTS Keys,     \* the names facts are stored under
          Lines,    \* contents: the log entries that stated them
          Moments   \* the moments readers ask about, naturals

VARIABLES now,      \* Nat: the second of the latest transaction time
          belief,   \* belief[k][m], a set of Lines: what is believed about m
          past      \* past[t][k][m]: what was believed at t, once t has passed

vars == <<now, belief, past>>

Nothing == [k \in Keys |-> [m \in Moments |-> {}]]

Init ==
    /\ now \in Nat
    /\ belief = Nothing
    /\ past = [t \in Moments |-> Nothing]

\* What one statement is about: a period without holes.
Periods == {S \in SUBSET Moments :
               \A a, b \in S : \A m \in Moments : a < m /\ m < b => m \in S}

\* The entry l says something about k during S: it replaces what was believed
\* there, and nothing else.
Learn(k, l, S) ==
    /\ belief' = [belief EXCEPT ![k] =
                    [m \in Moments |-> IF m \in S THEN {l} ELSE belief[k][m]]]
    /\ UNCHANGED <<now, past>>

\* Some contents of some keys stop being believed; the past remembers them.
Unlearn(K, L) ==
    /\ belief' = [k \in Keys |-> [m \in Moments |->
                    IF k \in K THEN belief[k][m] \ L ELSE belief[k][m]]]
    /\ UNCHANGED <<now, past>>

\* Some contents are erased, from the past too (the TTL purge).
Erase(L) ==
    /\ belief' = [k \in Keys |-> [m \in Moments |-> belief[k][m] \ L]]
    /\ past' = [t \in Moments |-> [k \in Keys |-> [m \in Moments |->
                    past[t][k][m] \ L]]]
    /\ UNCHANGED now

\* The second now ends (and the ones up to then): what is believed is history.
Advance ==
    /\ now' \in Nat
    /\ now' > now
    /\ past' = [t \in Moments |-> IF now <= t /\ t < now' THEN belief ELSE past[t]]
    /\ UNCHANGED belief

Next ==
    \/ \E k \in Keys, l \in Lines, S \in Periods : Learn(k, l, S)
    \/ \E K \in SUBSET Keys, L \in SUBSET Lines : Unlearn(K, L)
    \/ \E L \in SUBSET Lines : Erase(L)
    \/ Advance

Spec == Init /\ [][Next]_vars
=============================================================================
