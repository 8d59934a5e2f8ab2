----------------------------- MODULE MCPathSearch -----------------------------
(* Every undirected graph of four nodes with edges of three weights. *)
EXTENDS PathSearch

CONSTANTS l, a, b, c

Four      == {l, a, b, c}
Weights   == {0, 1, 5}
OneOrTwo  == {{c}, {b, c}}
NoneOrOne == {{}, {a}}
=============================================================================
