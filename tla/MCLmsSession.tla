------------------------------ MODULE MCLmsSession ------------------------------
(* Two connections share one cookie jar; two LMSs, one with two instances. *)
EXTENDS LmsSession

CONSTANTS l1, l2, l3, m1, m2

MCLaunch == {l1, l2, l3}

MCLmsOf == [l \in MCLaunch |-> IF l = l3 THEN m2 ELSE m1]
===============================================================================
