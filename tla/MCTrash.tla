--------------------------------- MODULE MCTrash ---------------------------------
(* Two teachers delete a folder of two files and the files in it on a submit *)
(* volume, where only one of them has a .Trash; one has a file in the home.   *)
EXTENDS Trash, TLC

CONSTANTS t1, t2, h1, h2, submit, d1, d2, p1, p2, p3, d, x, y, z

MCinside == d :> {p1, p2}
MCMaxNew == (p1 :> 1) @@ (p2 :> 2) @@ (p3 :> 1)
MCMaxCount == (x :> 1) @@ (y :> 1) @@ (z :> 0)
MCbasename == (p1 :> y) @@ (p2 :> y) @@ (p3 :> z) @@ (d :> x)
MCmount == (p1 :> submit) @@ (p2 :> submit) @@ (p3 :> h1) @@ (d :> submit)
MCdev == (h1 :> d1) @@ (h2 :> d1) @@ (submit :> d2)
MChome == (t1 :> h1) @@ (t2 :> h2)
MCwritable == (t1 :> {p3, d}) @@ (t2 :> {p1, p2})
MCsticky == (t1 :> {submit}) @@ (t2 :> {})
MCopen == (t1 :> {}) @@ (t2 :> {submit})
=================================================================================
