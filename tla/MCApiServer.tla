------------------------------ MODULE MCApiServer ------------------------------
(* Two spellings of one user, a second user and the hub; two targets so that *)
(* a re-registration can change the route.                                   *)
EXTENDS ApiServer

CONSTANTS hub, alice, ALICE, bob

MCName == {hub, alice, ALICE, bob}

MCFold == [n \in MCName |-> IF n = ALICE THEN alice ELSE n]
===============================================================================
