------------------------------ MODULE MCStore ------------------------------
(* Values for the constants of Store: half-second ticks, a clock that starts *)
(* at the first second.                                                      *)
EXTENDS Store

\* Every whole second the clock reaches, and the one after.
MCMoments == {2, 4, 6}

\* A time to live the tool does not refuse.
MCNegative == {-1}
=============================================================================
