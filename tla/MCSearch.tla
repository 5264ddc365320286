------------------------------ MODULE MCSearch ------------------------------
(* Values for the constants of Search: one tick to the second; turns t9 and  *)
(* t10, whose numbers differ in width, and t11; stores by two agents, each   *)
(* in its way.                                                               *)
EXTENDS Search

Turn(n) == [idx |-> n, width |-> Digits(n)]

MCKeys == {Turn(9), Turn(10), Turn(11)}

MCAgents == {"ann", "ben"}

\* Stated for good; for the first second, when the service did not answer; and
\* from now on until the second second, which may pass before the stamp.
MCWrites ==
    {[agent |-> "ann", tags |-> {}, vf |-> 0, vt |-> 0, embedded |-> TRUE],
     [agent |-> "ben", tags |-> {}, vf |-> 1, vt |-> 2, embedded |-> FALSE],
     [agent |-> "ben", tags |-> {}, vf |-> 0, vt |-> 2, embedded |-> FALSE]}

Ask(limit, radius) ==
    [reads |-> MCAgents, tags |-> {}, asOf |-> 0, validAt |-> 0,
     limit |-> limit, radius |-> radius]

MCAsks ==
    {Ask(2, 0), [Ask(2, 2) EXCEPT !.reads = {"ann"}],
     [Ask(1, 0) EXCEPT !.asOf = 1], [Ask(1, 1) EXCEPT !.validAt = 2, !.reads = {"ann"}]}

\* The same, one of the stores tagged and one of the searches filtered.
MCTaggedWrites ==
    {[agent |-> "ann", tags |-> tags, vf |-> 0, vt |-> 0, embedded |-> tags = {}] :
        tags \in SUBSET Tags}

MCTaggedAsks == {[Ask(1, 1) EXCEPT !.tags = Tags, !.asOf = 1]}

MCSetups == {{}, {"embedder"}, {"embedder", "reranker"}}
=============================================================================
