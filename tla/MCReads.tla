------------------------------ MODULE MCReads ------------------------------
(* Values for the constants of Reads: one tick to the second; an agent whose  *)
(* memories another reads, that other agent, an administrator, and clients    *)
(* nobody vouches for.                                                        *)
EXTENDS Reads, TLC

CONSTANTS a, b, adm

MCScopes == [read |-> [agent \in {b} |-> {a}], admin |-> {adm}]

\* Every identity, declaring another name; clients whose identity does not
\* count, declaring nobody or an agent.
MCRequests ==
    [authenticated : {TRUE}, name : Agents, declared : {a}]
        \cup [authenticated : {FALSE}, name : {b}, declared : {NoAgent, b}]

Symmetry == Permutations(Keys)
=============================================================================
