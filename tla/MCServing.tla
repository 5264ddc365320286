----------------------------- MODULE MCServing -----------------------------
(* Values for the constants of Serving: a client that may stop reading for    *)
(* good, with calls enough to fill its queue.                                *)
EXTENDS Serving

CONSTANTS b, b1, b2, p1, p2

MCOf == [c \in {b1, b2} |-> b]
=============================================================================
