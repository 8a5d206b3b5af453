------------------------------ MODULE RunStatus ------------------------------
(***************************************************************************)
(* The life-cycle table of a research run (internal/core/state.go) and the *)
(* predicates over it that the store, the engine, the approval router and  *)
(* the dispatcher share.                                                   *)
(***************************************************************************)

Stages == {"plan", "collect", "synthesize", "review", "revise"}

ActiveStatuses == {"planning", "collecting", "synthesizing", "reviewing", "revising"}

TerminalStatuses == {"succeeded", "quality_failed", "failed", "cancelled"}

RunStatuses ==
    ActiveStatuses \cup TerminalStatuses
        \cup {"queued", "waiting_approval", "interrupted", "uncertain"}

\* The four ways out that every status with work in flight has.
Exits == {"failed", "cancelled", "interrupted", "uncertain"}

\* allowedTransitions: which status may follow which.
AllowedTransitions ==
    {"queued"} \X {"planning", "failed", "cancelled"}
    \cup {"planning"} \X ({"collecting", "waiting_approval"} \cup Exits)
    \cup {"collecting"} \X ({"synthesizing", "waiting_approval"} \cup Exits)
    \cup {"synthesizing"} \X ({"reviewing", "waiting_approval"} \cup Exits)
    \cup {"reviewing"} \X ({"succeeded", "revising", "planning", "quality_failed"} \cup Exits)
    \cup {"revising"} \X ({"reviewing", "waiting_approval"} \cup Exits)
    \cup {"waiting_approval"} \X (ActiveStatuses \cup Exits)
    \cup {"interrupted"} \X (ActiveStatuses \cup {"cancelled"})
    \cup {"uncertain"} \X {"cancelled", "failed"}

CanTransition(from, to) == <<from, to>> \in AllowedTransitions

IsTerminal(status) == status \in TerminalStatuses

\* RecoveryStatus: what a restart makes of a run that was active.
RecoveryStatus(externalSideEffects) ==
    IF externalSideEffects THEN "uncertain" ELSE "interrupted"

\* retiresPendingApprovals: no approval may stay actionable past these.
ClosedStatuses == TerminalStatuses \cup {"interrupted", "uncertain"}

\* The statuses RecoverInFlight treats as work that was in flight.
InFlightStatuses == ActiveStatuses \cup {"waiting_approval"}

\* activeRunStatusForStage
ActiveRunStatusForStage(stage) ==
    CASE stage = "plan" -> "planning"
      [] stage = "collect" -> "collecting"
      [] stage = "synthesize" -> "synthesizing"
      [] stage = "review" -> "reviewing"
      [] OTHER -> "revising"
=============================================================================
