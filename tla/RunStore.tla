------------------------------- MODULE RunStore -------------------------------
(***************************************************************************)
(* The durable state of one research run and the SQLite transactions that  *)
(* change it (internal/store/repository.go, research_remediation.go and    *)
(* the admission step of engineering.go).                                  *)
(*                                                                         *)
(* Every transaction takes SQLite's single writer slot before it reads     *)
(* (_txlock=immediate), so each is one atomic action here.  An action      *)
(* names the transaction and holds its committing path; a transaction that *)
(* returns an error leaves the tables alone, and its guard says when.      *)
(*                                                                         *)
(* StoreSpec lets an arbitrary client issue any transaction at any time:   *)
(* what holds of it holds whatever order the engine, the router, the       *)
(* dispatcher and the user call the store in.                              *)
(***************************************************************************)
EXTENDS RunStatus, Naturals

CONSTANTS
    AttemptId,        \* identities of stage_attempts rows
    ApprovalId,       \* identities of approvals rows
    NoAttempt,        \* the absent attempt
    MaxRevisions,     \* core.MaxRevisions: revision cycles of one report
    MaxRemediations,  \* core.MaxResearchRemediations: replans of one run
    Collectors,       \* ordinals a collect attempt may have
    MaxRevision       \* bound of this model on runs.revision

ASSUME StoreAssumption ==
    /\ NoAttempt \notin AttemptId
    /\ MaxRevisions \in Nat
    /\ MaxRemediations \in Nat
    /\ Collectors \subseteq Nat
    /\ MaxRevision \in Nat

VARIABLES
    status,        \* runs.status
    revision,      \* runs.revision, the optimistic concurrency token
    cycle,         \* runs.revision_cycle
    report,        \* the attempt that produced runs.report_artifact_id
    remediations,  \* rows of research_remediation_cycles
    attempt,       \* the stage_attempts table
    adopted,       \* attempts whose output is adopted into project memory
    approval       \* the approvals table

storeVars == <<status, revision, cycle, report, remediations, attempt, adopted, approval>>

-----------------------------------------------------------------------------
(* Rows. *)

AttemptStates == {"in_progress", "completed", "failed", "interrupted", "uncertain", "superseded"}

Ordinals == Collectors \cup 0..MaxRevisions

\* A row that was not inserted yet has state "none".  A superseded row keeps
\* its logical ordinal; the negative physical ordinal it is given only frees
\* the (run, stage, ordinal) key, which StageIsFree expresses.
Attempts ==
    [state: AttemptStates \cup {"none"}, stage: Stages, ordinal: Ordinals, external: BOOLEAN]

\* "external" is an external action whose durable boundary the decision writes;
\* "solver" is the engineering surface, whose boundary its job admission owns.
ApprovalKinds == {"read_only", "external", "solver"}

Approvals ==
    [state: {"none", "pending", "approved", "denied", "expired"},
     attempt: AttemptId \cup {NoAttempt}, kind: ApprovalKinds]

AbsentAttempt == [state |-> "none", stage |-> "plan", ordinal |-> 0, external |-> FALSE]

AbsentApproval == [state |-> "none", attempt |-> NoAttempt, kind |-> "read_only"]

-----------------------------------------------------------------------------
(* Queries. *)

InProgress(a) == attempt[a].state = "in_progress"

Active == {a \in AttemptId : InProgress(a)}

Pending == {p \in ApprovalId : approval[p].state = "pending"}

\* An external action may have happened and no result of it was accepted.
UnsettledIn(rows) == {a \in AttemptId : rows[a].external /\ rows[a].state # "completed"}

Unsettled == UnsettledIn(attempt)

FailedCollectorExists ==
    \E a \in AttemptId : attempt[a].stage = "collect" /\ attempt[a].state = "failed"

\* The uniqueness of (run, stage, ordinal) over rows that were not archived.
StageIsFree(stage, ordinal) ==
    \A a \in AttemptId :
        attempt[a].state \notin {"none", "superseded"} =>
            ~(attempt[a].stage = stage /\ attempt[a].ordinal = ordinal)

\* The attempts that can hold the final report of revision cycle c.
FinalReports(c) ==
    {a \in AttemptId :
        /\ attempt[a].state = "completed"
        /\ \/ attempt[a].stage = "synthesize" /\ attempt[a].ordinal = 0 /\ c = 0
           \/ attempt[a].stage = "revise" /\ attempt[a].ordinal = c}

\* retirePendingApprovals
Retired ==
    [p \in ApprovalId |->
        IF approval[p].state = "pending" THEN [approval[p] EXCEPT !.state = "denied"]
                                         ELSE approval[p]]

-----------------------------------------------------------------------------
(* Writes that several transactions share. *)

\* UPDATE runs SET status = next, revision = revision + 1
SetStatus(next) ==
    /\ revision < MaxRevision
    /\ CanTransition(status, next)
    /\ status' = next
    /\ revision' = revision + 1

SetAttempt(a, state) == attempt' = [attempt EXCEPT ![a].state = state]

MarkExternal(a) == attempt' = [attempt EXCEPT ![a].external = TRUE]

\* Variant: completed actions hide the open ones.
QuiescedByLastResult(requested, rows) ==
    IF \E a \in AttemptId : rows[a].state = "completed" THEN requested
    ELSE IF UnsettledIn(rows) = {} THEN requested ELSE "uncertain"

\* quiesceRunTransaction picks the status from the attempts it can see in its
\* own transaction, so a collector failed by that transaction counts too.
QuiescedStatus(requested, rows) == IF UnsettledIn(rows) = {} THEN requested ELSE "uncertain"

-----------------------------------------------------------------------------
(* Transactions. *)

\* createConversationRunConfigured
StoreInit ==
    /\ status = "queued"
    /\ revision = 0
    /\ cycle = 0
    /\ report = NoAttempt
    /\ remediations = 0
    /\ attempt = [a \in AttemptId |-> AbsentAttempt]
    /\ adopted = {}
    /\ approval = [p \in ApprovalId |-> AbsentApproval]

\* The caller's expected revision is compared with the row: a caller that read
\* an older row gets an error and changes nothing.
TransitionRun(expected, next) ==
    /\ expected = revision
    /\ SetStatus(next)
    /\ approval' = IF next \in ClosedStatuses THEN Retired ELSE approval
    /\ UNCHANGED <<cycle, report, remediations, attempt, adopted>>

\* A run that is over or uncertain is returned as it is, and a run that is
\* "interrupted" may only become "cancelled".
QuiesceCommits(requested) ==
    /\ ~IsTerminal(status) /\ status # "uncertain"
    /\ CanTransition(status, QuiescedStatus(requested, attempt))

\* Variant: the pending requests are forgotten.
QuiesceRunOnly(requested) ==
    /\ QuiesceCommits(requested)
    /\ SetStatus(QuiescedStatus(requested, attempt))
    /\ UNCHANGED <<cycle, report, remediations, attempt, adopted, approval>>

QuiesceRun(requested) ==
    /\ QuiesceCommits(requested)
    /\ SetStatus(QuiescedStatus(requested, attempt))
    /\ approval' = Retired
    /\ UNCHANGED <<cycle, report, remediations, attempt, adopted>>

\* Variant: neither the status nor the turns are looked at.
ResumeCommitsLast == Pending = {}

\* Only the last decision restores the stage; an earlier one changes nothing.
ResumeCommits == status = "waiting_approval" /\ Pending = {} /\ Active # {}

ResumeRunAfterApproval(prior) ==
    /\ ResumeCommits
    /\ SetStatus(prior)
    /\ UNCHANGED <<cycle, report, remediations, attempt, adopted, approval>>

\* Variant: every collector's output is adopted.
SucceedRunWithAll(expected) ==
    /\ expected = revision
    /\ SetStatus("succeeded")
    /\ \E final \in FinalReports(cycle) :
        /\ report' = final
        /\ adopted' = {final} \cup {a \in AttemptId : attempt[a].stage = "collect"}
    /\ approval' = Retired
    /\ UNCHANGED <<cycle, remediations, attempt>>

\* Adopts the newest final report and every completed collector's output.
SucceedRun(expected) ==
    /\ expected = revision
    /\ SetStatus("succeeded")
    /\ \E final \in FinalReports(cycle) :
        /\ report' = final
        /\ adopted' = {final} \cup
             {a \in AttemptId : attempt[a].stage = "collect" /\ attempt[a].state = "completed"}
    /\ approval' = Retired
    /\ UNCHANGED <<cycle, remediations, attempt>>

SetRunCycle(expected, c) ==
    /\ expected = revision
    /\ c \in 0..MaxRevisions
    /\ revision < MaxRevision
    /\ revision' = revision + 1
    /\ cycle' = c
    /\ UNCHANGED <<status, report, remediations, attempt, adopted, approval>>

BeginStage(a, stage, ordinal) ==
    /\ attempt[a].state = "none"
    /\ StageIsFree(stage, ordinal)
    /\ attempt' = [attempt EXCEPT ![a] =
          [state |-> "in_progress", stage |-> stage, ordinal |-> ordinal, external |-> FALSE]]
    /\ UNCHANGED <<status, revision, cycle, report, remediations, adopted, approval>>

\* The automatic-approval boundary.  It reads the run row and does not write it.
MayMarkActive(a) ==
    /\ InProgress(a)
    /\ ~FailedCollectorExists
    /\ status \in {ActiveRunStatusForStage(attempt[a].stage), "waiting_approval"}

MarkActiveStageExternalSideEffects(a) ==
    /\ MayMarkActive(a)
    /\ MarkExternal(a)
    /\ UNCHANGED <<status, revision, cycle, report, remediations, adopted, approval>>

\* CompleteStageWithExecution ("completed") and CompleteStage ("failed")
CompleteStage(a, outcome) ==
    /\ InProgress(a)
    /\ SetAttempt(a, outcome)
    /\ UNCHANGED <<status, revision, cycle, report, remediations, adopted, approval>>

\* The first failed collector closes its run in the same transaction; a later
\* one only closes its own attempt.
FailCollectStageAndQuiesceRun(a) ==
    /\ InProgress(a) /\ attempt[a].stage = "collect"
    /\ SetAttempt(a, "failed")
    /\ IF status \in ClosedStatuses
       THEN UNCHANGED <<status, revision, approval>>
       ELSE SetStatus(QuiescedStatus("failed", attempt')) /\ approval' = Retired
    /\ UNCHANGED <<cycle, report, remediations, adopted>>

\* Variant: side effects are not looked at.
RecoverAsInterrupted ==
    /\ IF status \in InFlightStatuses
       THEN /\ revision < MaxRevision
            /\ status' = "interrupted"
            /\ revision' = revision + 1
            /\ attempt' = [a \in AttemptId |->
                 IF InProgress(a) THEN [attempt[a] EXCEPT !.state = "interrupted"] ELSE attempt[a]]
       ELSE UNCHANGED <<status, revision, attempt>>
    /\ approval' = Retired
    /\ UNCHANGED <<cycle, report, remediations, adopted>>

\* The first thing a new process does: whatever was in flight is closed, and
\* no request of the dead App Server stays answerable.
RecoverInFlight ==
    /\ LET recovered == RecoveryStatus(\E a \in AttemptId :
                            attempt[a].state \in {"in_progress", "interrupted"} /\ attempt[a].external)
       IN  IF status \in InFlightStatuses
           THEN /\ revision < MaxRevision
                /\ status' = recovered
                /\ revision' = revision + 1
                /\ attempt' = [a \in AttemptId |->
                     IF InProgress(a) THEN [attempt[a] EXCEPT !.state = recovered] ELSE attempt[a]]
           ELSE UNCHANGED <<status, revision, attempt>>
    /\ approval' = [p \in ApprovalId |->
          IF p \in Pending THEN [approval[p] EXCEPT !.state = "expired"] ELSE approval[p]]
    /\ UNCHANGED <<cycle, report, remediations, adopted>>

\* The explicit resume sets the incomplete attempts aside, which frees their
\* places, unless one of them may have acted outside.
PrepareInterruptedRunForResume ==
    /\ status = "interrupted"
    /\ LET open == {a \in AttemptId : attempt[a].state \in {"in_progress", "interrupted"}}
       IN  /\ \A a \in open : ~attempt[a].external
           /\ attempt' = [a \in AttemptId |->
                IF a \in open THEN [attempt[a] EXCEPT !.state = "superseded"] ELSE attempt[a]]
    /\ UNCHANGED <<status, revision, cycle, report, remediations, adopted, approval>>

\* Variant: what the rejected attempt did is not looked at.
PrepareAnyPlanRetry(a) ==
    /\ status = "planning"
    /\ attempt[a].state = "failed" /\ attempt[a].stage = "plan"
    /\ SetAttempt(a, "superseded")
    /\ UNCHANGED <<status, revision, cycle, report, remediations, adopted, approval>>

PreparePlanContractRetry(a) ==
    /\ status = "planning"
    /\ attempt[a].state = "failed" /\ attempt[a].stage = "plan"
    /\ ~attempt[a].external
    /\ SetAttempt(a, "superseded")
    /\ UNCHANGED <<status, revision, cycle, report, remediations, adopted, approval>>

\* Seals the whole research cycle and sends the same run back to PLAN.
PrepareResearchRemediation(expected, ordinal) ==
    /\ expected = revision
    /\ status = "reviewing"
    /\ Active = {}
    /\ remediations < MaxRemediations
    /\ \E a \in AttemptId : attempt[a].state = "completed" /\ attempt[a].stage = "review"
                             /\ attempt[a].ordinal = ordinal
    /\ SetStatus("planning")
    /\ remediations' = remediations + 1
    /\ attempt' = [a \in AttemptId |->
          IF attempt[a].state = "none" THEN attempt[a] ELSE [attempt[a] EXCEPT !.state = "superseded"]]
    /\ cycle' = 0
    /\ report' = NoAttempt
    /\ approval' = Retired
    /\ UNCHANGED adopted

MayCreateApproval(a) ==
    /\ InProgress(a)
    /\ status = "waiting_approval" \/ CanTransition(status, "waiting_approval")

CreateApproval(p, a, kind) ==
    /\ approval[p].state = "none"
    /\ MayCreateApproval(a)
    /\ approval' = [approval EXCEPT ![p] = [state |-> "pending", attempt |-> a, kind |-> kind]]
    /\ UNCHANGED <<status, revision, cycle, report, remediations, attempt, adopted>>

\* The automatic decision of the router: only the row is required to be pending.
DecideApproval(p, decision) ==
    /\ p \in Pending
    /\ approval' = [approval EXCEPT ![p].state = decision]
    /\ UNCHANGED <<status, revision, cycle, report, remediations, attempt, adopted>>

\* Whether a decision of the user still reaches a live turn.
Decidable(p) ==
    /\ InProgress(approval[p].attempt)
    /\ status = "waiting_approval"
    /\ ~FailedCollectorExists

\* The decision of the user, with the side-effect boundary of an approved
\* external action in the same transaction; a stale row is retired instead.
DecideActiveApproval(p, decision) ==
    /\ p \in Pending
    /\ IF Decidable(p)
       THEN /\ approval' = [approval EXCEPT ![p].state = decision]
            /\ IF decision = "approved" /\ approval[p].kind = "external"
               THEN MarkExternal(approval[p].attempt)
               ELSE UNCHANGED attempt
       ELSE approval' = [approval EXCEPT ![p].state = "denied"] /\ UNCHANGED attempt
    /\ UNCHANGED <<status, revision, cycle, report, remediations, adopted>>

\* The boundary an admitted solver job records, from an approved solver scope.
BeginEngineeringJob(a, p) ==
    /\ approval[p] = [state |-> "approved", attempt |-> a, kind |-> "solver"]
    /\ InProgress(a) /\ attempt[a].stage = "collect"
    /\ status \in {"collecting", "waiting_approval"}
    /\ ~FailedCollectorExists
    /\ MarkExternal(a)
    /\ UNCHANGED <<status, revision, cycle, report, remediations, adopted, approval>>

-----------------------------------------------------------------------------
(* An arbitrary client. *)

\* The ordinal of a stage is its collector's, or its revision cycle.
StageOrdinals(stage) ==
    CASE stage = "collect" -> Collectors
      [] stage \in {"plan", "synthesize"} -> {0}
      [] OTHER -> 0..MaxRevisions

RunStep ==
    \/ \E next \in RunStatuses \ {"queued", "succeeded"} : TransitionRun(revision, next)
    \/ \E requested \in {"cancelled", "failed"} : QuiesceRun(requested)
    \/ \E prior \in ActiveStatuses : ResumeRunAfterApproval(prior)
    \/ SucceedRun(revision)
    \/ \E c \in 0..MaxRevisions : SetRunCycle(revision, c)
    \/ RecoverInFlight
    \/ PrepareInterruptedRunForResume
    \/ \E ordinal \in 0..MaxRevisions : PrepareResearchRemediation(revision, ordinal)

StageStep(a) ==
    \/ \E stage \in Stages : \E ordinal \in StageOrdinals(stage) : BeginStage(a, stage, ordinal)
    \/ MarkActiveStageExternalSideEffects(a)
    \/ \E outcome \in {"completed", "failed"} : CompleteStage(a, outcome)
    \/ FailCollectStageAndQuiesceRun(a)
    \/ PreparePlanContractRetry(a)

ApprovalStep(p) ==
    \/ \E a \in AttemptId, kind \in ApprovalKinds : CreateApproval(p, a, kind)
    \/ approval[p].kind = "solver" /\ DecideApproval(p, "approved")
    \/ \E decision \in {"approved", "denied"} : DecideActiveApproval(p, decision)
    \/ \E a \in AttemptId : BeginEngineeringJob(a, p)

StoreNext ==
    \/ RunStep
    \/ \E a \in AttemptId : StageStep(a)
    \/ \E p \in ApprovalId : ApprovalStep(p)

StoreSpec == StoreInit /\ [][StoreNext]_storeVars

-----------------------------------------------------------------------------
(* Properties of the tables, whatever the clients do. *)

\* The rows have their types.
StoreTypeOK ==
    /\ status \in RunStatuses
    /\ revision \in 0..MaxRevision
    /\ cycle \in 0..MaxRevisions
    /\ report \in AttemptId \cup {NoAttempt}
    /\ remediations \in 0..MaxRemediations
    /\ attempt \in [AttemptId -> Attempts]
    /\ adopted \subseteq AttemptId
    /\ approval \in [ApprovalId -> Approvals]

\* A run that is over, interrupted or uncertain has no request the user could
\* still approve: every transaction that closes a run retires its requests,
\* and none is created for a closed run.
NoOpenApprovalOnClosedRun == status \in ClosedStatuses => Pending = {}

\* Only the run that succeeded has adopted output, all of it from attempts
\* that completed in the last research cycle: neither a draft, nor a failed
\* attempt, nor a cycle sealed by a remediation reaches project memory.
OnlyCurrentOutputAdopted ==
    /\ status = "succeeded" <=> report # NoAttempt
    /\ report # NoAttempt => report \in adopted
    /\ report = NoAttempt => adopted = {}
    /\ \A a \in adopted : attempt[a].state = "completed"

\* The revision is a sound optimistic lock: whenever the run row changes, the
\* revision moves on, so no holder of an older row can write over the change.
RunRowChange == <<status, cycle, report>>' # <<status, cycle, report>> => revision' = revision + 1
RevisionGuardsRunRow == [][RunRowChange]_storeVars

\* An external action is authorised only for a turn that is still running in a
\* run that is in flight, and never after a collector has failed: the failure
\* closes the boundary of its siblings.
BoundaryOpening ==
    \A a \in AttemptId :
        attempt'[a].external /\ ~attempt[a].external =>
            /\ InProgress(a)
            /\ status \in InFlightStatuses
            /\ ~FailedCollectorExists
BoundaryOpensOnlyInLiveRun == [][BoundaryOpening]_storeVars

\* What may have acted outside is not done twice: within one research cycle no
\* two attempts of the same work both crossed their boundary, however often the
\* run is interrupted, resumed and retried.
ExternalWorkIsTriedOnce ==
    remediations = 0 =>
        \A a, b \in AttemptId :
            /\ a # b
            /\ attempt[a].external /\ attempt[b].external
            => <<attempt[a].stage, attempt[a].ordinal>> # <<attempt[b].stage, attempt[b].ordinal>>
=============================================================================
