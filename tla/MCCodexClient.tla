---- MODULE MCCodexClient ----
(* Two calls of the same tool with the same arguments in one turn, and one elicitation. *)
EXTENDS CodexClient, TLC

CONSTANTS t1, i1, i2, q1

OneTurn == [i \in Items |-> t1]
SameContent == [i \in Items |-> "same"]
Subjects == [r \in Requests |-> IF r = q1 THEN i1 ELSE t1]
====
