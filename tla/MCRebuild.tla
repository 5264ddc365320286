----------------------------- MODULE MCRebuild -----------------------------
(* Values for the constants of Rebuild: one tick to the second; a text that  *)
(* the log gives back as it was, and one it gives back as that.              *)
EXTENDS Rebuild

Old(op, k, text, at) == [op |-> op, key |-> k, text |-> text, updated |-> at, vf |-> Zero]

MCReadBack == [x \in Texts |-> 1]

\* Nothing changes on the way through the log.
MCFaithful == [x \in Texts |-> x]

\* Nothing; one memory; two values of one key; a forgotten key.
MCOldLogs ==
    UNION {{ <<>>, << Old("store", k, 1, 1) >>,
             << Old("store", k, 1, 1), Old("store", k, 2, 2) >>,
             << Old("store", k, 1, 1), Old("delete", k, NoVector, 2) >> } : k \in Keys}
=============================================================================
