------------------------- MODULE MCToolInvocations -------------------------
(* Two versions of one tool, and an attempt with its successor, for TLC. *)
EXTENDS ToolInvocations, TLC

OneName == [p \in Package |-> "tool"]
ToolSymmetry == Permutations(Package) \cup Permutations(Call)
OneWork == [s \in Stage |-> "collect"]
=============================================================================
