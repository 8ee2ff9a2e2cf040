--------------------------- MODULE MCProxyConnection ---------------------------
(* The hub and two users, one of them in two spellings; two targets, so that  *)
(* a request can reach the wrong server and a route can change under the      *)
(* entry made of it.                                                          *)
EXTENDS ProxyConnection

CONSTANTS hub, alice, ALICE, bob

MCName == {hub, alice, ALICE, bob}

MCFold == [n \in MCName |-> IF n = ALICE THEN alice ELSE n]
===============================================================================
