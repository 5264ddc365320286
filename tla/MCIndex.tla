------------------------------ MODULE MCIndex ------------------------------
(* Values for the constants of Index: half-second ticks, a clock that starts *)
(* at the first second and lives two.                                        *)
EXTENDS Index

\* Every whole second the clock reaches, and the one after.
MCMoments == {2, 4, 6}
=============================================================================
