----------------------------- MODULE MCMeshRouter -----------------------------
(* Two other nodes, an exit and a relay. *)
EXTENDS MeshRouter

CONSTANTS l, a, b

JustA == {a}
JustB == {b}
AandB == {a, b}

Budget(up, out, queue, await) == [links |-> up, drops |-> out, inbox |-> queue, awaits |-> await]

\* Three link events; two and a dropped socket; two with handlers that await.
LinksOrDrop == {Budget(3, 0, 1, FALSE), Budget(2, 1, 2, FALSE), Budget(2, 0, 2, TRUE)}
=============================================================================
