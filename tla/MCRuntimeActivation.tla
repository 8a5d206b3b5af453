------------------------ MODULE MCRuntimeActivation ------------------------
(* Three releases of two components: the second conflicts with the others  *)
(* in one component, the first and the third hold the same trees.          *)
EXTENDS RuntimeActivation, TLC

Releases == {1, 2, 3}
Parts == {"codex", "node"}
Trees == (1 :> [codex |-> 1, node |-> 1]) @@ (2 :> [codex |-> 1, node |-> 2])
             @@ (3 :> [codex |-> 1, node |-> 1])
=============================================================================
