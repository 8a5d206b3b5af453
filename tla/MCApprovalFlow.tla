---------------------------- MODULE MCApprovalFlow ----------------------------
(***************************************************************************)
(* ApprovalFlow with two collectors and two requests.                      *)
(***************************************************************************)
EXTENDS ApprovalFlow, TLC

CONSTANTS plan, c0, c1, r1, r2

Ordinals2 == c0 :> 0 @@ c1 :> 1

RequestSymmetry == Permutations(ApprovalId)
=============================================================================
