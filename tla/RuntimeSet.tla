----------------------------- MODULE RuntimeSet -----------------------------
(***************************************************************************)
(* What the managed runtime promises: the program launches one verified    *)
(* set of components at a time, it moves from one set to the next in a     *)
(* single step, and a set that was rejected or replaced is never launched  *)
(* again.  RuntimeActivation shows that the journal, the pointer and the   *)
(* audits of the code keep this promise through crashes.                   *)
(***************************************************************************)
CONSTANT Candidates   \* the releases the stable feed may offer

VARIABLE stage        \* how far each release has come

Stages == {"unknown", "verified", "launched", "retired", "rejected"}

SetTypeOK == stage \in [Candidates -> Stages]

SetInit == stage = [c \in Candidates |-> "unknown"]

\* A release passed every check and waits for the next start.
Verify(c) ==
    /\ stage[c] = "unknown"
    /\ stage' = [stage EXCEPT ![c] = "verified"]

\* A release that is not in use is set aside for good.
Reject(c) ==
    /\ stage[c] \in {"unknown", "verified"}
    /\ stage' = [stage EXCEPT ![c] = "rejected"]

\* The next start launches c instead of what was launched before.
Launch(c) ==
    /\ stage[c] = "verified"
    /\ stage' = [d \in Candidates |->
           CASE d = c -> "launched"
             [] stage[d] = "launched" -> "retired"
             [] OTHER -> stage[d]]

SetNext == \E c \in Candidates : Verify(c) \/ Reject(c) \/ Launch(c)

SetSpec == SetInit /\ [][SetNext]_stage

\* At most one set of components is launched.
OneLaunched ==
    \A c, d \in Candidates : stage[c] = "launched" /\ stage[d] = "launched" => c = d
=============================================================================
