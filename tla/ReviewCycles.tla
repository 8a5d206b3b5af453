----------------------------- MODULE ReviewCycles -----------------------------
(***************************************************************************)
(* One research run from PLAN to its verdict, as the engine drives it      *)
(* (internal/research/engine.go): plan, collect, synthesize, then the loop *)
(* of reviews, revisions and research remediations, with the process dying *)
(* anywhere and the explicit resume from the checkpoints that are left     *)
(* (internal/research/checkpoint.go).                                      *)
(*                                                                         *)
(* The engine's maps of reviews and revisions are not variables: they hold *)
(* the outputs of the completed attempts of the current research cycle,    *)
(* which is what the table says.  Approvals, sibling failures and the race *)
(* inside abort are ApprovalFlow's subject; here a turn just ends.         *)
(***************************************************************************)
EXTENDS RunStore, FiniteSets

CONSTANTS
    MaxPlanAttempts,  \* maxPlanCapabilityRecoveryAttempts
    MaxCrashes,       \* bound of this model on process crashes
    MaxFaults,        \* bound of this model on turns and steps that fail
    MaxActions        \* bound of this model on external actions of turns

ASSUME ReviewAssumption ==
    /\ AttemptId \subseteq Nat
    /\ MaxPlanAttempts \in Nat \ {0}
    /\ {MaxCrashes, MaxFaults, MaxActions} \subseteq Nat

VARIABLES
    engine,   \* where the goroutine that executes the run is
    loop,     \* runReviewCycles' own cycle
    tries,    \* recoveryAttempt of the planning in progress
    cause,    \* why the engine gives the run up
    verdict,  \* the verdict each completed review holds
    input,    \* the report each review or revision was given
    budget    \* crashes, faults and external actions left

reviewVars == <<storeVars, engine, loop, tries, cause, verdict, input, budget>>

\* "report_revision" stands for the empty action of older verdicts as well;
\* "restart" for additional_research and replan (EffectiveRemediationAction).
Verdicts == {"pass", "report_revision", "restart"}

Causes == {"failed", "cancelled", "interrupted"}

\* The positions in which the next thing the engine does is a stage.
Working == {"plan", "collect", "synthesize", "cycles"}

ReviewInit ==
    /\ StoreInit
    /\ engine = "idle"
    /\ loop = 0
    /\ tries = 1
    /\ cause = "failed"
    /\ verdict = [a \in AttemptId |-> "none"]
    /\ input = [a \in AttemptId |-> NoAttempt]
    /\ budget = [crashes |-> MaxCrashes, faults |-> MaxFaults, actions |-> MaxActions]

-----------------------------------------------------------------------------
(* The checkpoint: what the completed attempts of this research cycle hold. *)

Live == {a \in AttemptId : attempt[a].state \notin {"none", "superseded"}}

Completed(stage, ordinal) ==
    {a \in AttemptId : attempt[a].state = "completed" /\ attempt[a].stage = stage
                        /\ attempt[a].ordinal = ordinal}

Missing == {o \in Collectors : Completed("collect", o) = {}}

Cycles == 0..MaxRevisions

Reported == {c \in Cycles : FinalReports(c) # {}}

Reviewed == {c \in Cycles : Completed("review", c) # {}}

ReportOf(c) == CHOOSE a \in FinalReports(c) : TRUE

VerdictOf(c) == verdict[CHOOSE a \in Completed("review", c) : TRUE]

Passes(c) == c \in Reviewed /\ VerdictOf(c) = "pass"

\* resumePoint goes on over cycles whose failing review has its revision.
Answered(c) == c \in Reviewed /\ ~Passes(c) /\ c < MaxRevisions /\ c + 1 \in Reported

ResumeCycle == CHOOSE c \in Cycles : ~Answered(c) /\ \A b \in 0..(c - 1) : Answered(b)

ResumeAction ==
    IF Completed("plan", 0) = {} THEN "plan"
    ELSE IF Missing # {} THEN "collect"
    ELSE IF 0 \notin Reported THEN "synthesize"
    ELSE IF ResumeCycle \notin Reviewed THEN "review"
    ELSE IF Passes(ResumeCycle) THEN "succeed"
    ELSE IF ResumeCycle = MaxRevisions THEN "quality_failed"
    ELSE "revise"

\* loadCheckpoint takes no attempt that did not complete, whoever left it.
CheckpointLoads ==
    /\ \A a \in Live : attempt[a].state = "completed"
    /\ Reviewed \subseteq Reported

\* Variant: the cycle a revision already began is not expected.
CycleMatchesVerdict(action) ==
    IF action = "synthesize" THEN cycle = 0 ELSE cycle = ResumeCycle

\* validateResumeCycle: a revision may have moved the run's cycle on already.
CycleMatches(action) ==
    CASE action = "synthesize" -> cycle = 0
      [] action = "revise"     -> cycle \in {ResumeCycle, ResumeCycle + 1}
      [] OTHER                 -> cycle = ResumeCycle

\* resumeInterrupted refuses checkpoints with a hole in them.
NothingBeyond ==
    CASE ResumeAction = "plan"                     -> Live = {}
      [] ResumeAction \in {"collect", "synthesize"} -> Reported = {} /\ Reviewed = {}
      [] OTHER -> \A c \in Reported \cup Reviewed : c <= ResumeCycle

Resumable ==
    /\ CheckpointLoads
    /\ NothingBeyond
    /\ ResumeAction \in {"plan", "collect"} \/ CycleMatches(ResumeAction)

-----------------------------------------------------------------------------
(* Steps that several stages share. *)

\* The rows are used in the order of their identities.
Fresh == {a \in AttemptId : attempt[a].state = "none"
            /\ \A b \in AttemptId : b < a => attempt[b].state # "none"}

Begin(stage, ordinal, given) ==
    \E a \in Fresh :
        /\ BeginStage(a, stage, ordinal)
        /\ input' = [input EXCEPT ![a] = given]

GiveUpFor(why) == engine' = "aborting" /\ cause' = why

Spend(bound) == budget[bound] > 0 /\ budget' = [budget EXCEPT ![bound] = @ - 1]

\* A transition of a run nothing else is writing.
MoveTo(next) == TransitionRun(revision, next)

EngineAt(position) == engine = position /\ Active = {}

-----------------------------------------------------------------------------
(* Execute, resumeInterrupted. *)

\* executeQueued
ExecuteQueued ==
    /\ EngineAt("idle")
    /\ status = "queued"
    /\ MoveTo("planning")
    /\ engine' = "plan"
    /\ UNCHANGED <<loop, tries, cause, verdict, input, budget>>

\* The user's resume: the dispatcher archives the open attempts and hands the
\* run to the engine.
ResumeRun ==
    /\ engine = "idle"
    /\ PrepareInterruptedRunForResume
    /\ engine' = "loading"
    /\ UNCHANGED <<loop, tries, cause, verdict, input, budget>>

\* The status the run is given back and the position the engine takes.
Continuation(action) ==
    CASE action = "plan"       -> <<"planning", "plan">>
      [] action = "collect"    -> <<"collecting", "collect">>
      [] action = "synthesize" -> <<"synthesizing", "synthesize">>
      [] action = "revise"     -> <<"revising", "cycles">>
      [] action = "quality_failed" -> <<"reviewing", "giving_out">>
      [] OTHER                 -> <<"reviewing", "cycles">>

\* A refusal leaves the run interrupted.
ResumeInterrupted ==
    /\ engine = "loading"
    /\ IF Resumable
       THEN /\ MoveTo(Continuation(ResumeAction)[1])
            /\ engine' = Continuation(ResumeAction)[2]
            /\ loop' = IF engine' = "cycles" THEN ResumeCycle ELSE 0
            /\ tries' = 1
       ELSE /\ engine' = "idle"
            /\ UNCHANGED <<storeVars, loop, tries>>
    /\ UNCHANGED <<cause, verdict, input, budget>>

\* resumeQualityFailed: the last verdict is not read again.
GiveOut ==
    /\ EngineAt("giving_out")
    /\ MoveTo("quality_failed")
    /\ engine' = "idle"
    /\ UNCHANGED <<loop, tries, cause, verdict, input, budget>>

-----------------------------------------------------------------------------
(* PLAN, COLLECT, SYNTHESIZE: plan, continueAfterPlan, continueCollection. *)

BeginPlan ==
    /\ EngineAt("plan")
    /\ Completed("plan", 0) = {}
    /\ Begin("plan", 0, NoAttempt)
    /\ UNCHANGED <<engine, loop, tries, cause, verdict, budget>>

FinishPlan ==
    /\ EngineAt("plan")
    /\ Completed("plan", 0) # {}
    /\ MoveTo("collecting")
    /\ engine' = "collect"
    /\ UNCHANGED <<loop, tries, cause, verdict, input, budget>>

\* The plan broke the deterministic contract: the failed attempt is archived
\* and PLAN is tried again, a bounded number of times.
RetryPlan ==
    /\ EngineAt("retrying")
    /\ \E a \in AttemptId : PreparePlanContractRetry(a)
    /\ tries' = tries + 1
    /\ engine' = "plan"
    /\ UNCHANGED <<loop, cause, verdict, input, budget>>

\* A plan that may have acted outside, by an installation the user approved, is
\* not tried again.
GiveUpPlan ==
    /\ EngineAt("retrying")
    /\ ~\E a \in AttemptId : attempt[a].state = "failed" /\ attempt[a].stage = "plan"
                             /\ ~attempt[a].external
    /\ GiveUpFor("failed")
    /\ UNCHANGED <<storeVars, loop, tries, verdict, input, budget>>

\* The workers take the missing workstreams in order.
BeginCollector(o) ==
    /\ engine = "collect"
    /\ StageIsFree("collect", o)
    /\ \A earlier \in Collectors : earlier < o => ~StageIsFree("collect", earlier)
    /\ Begin("collect", o, NoAttempt)
    /\ UNCHANGED <<engine, loop, tries, cause, verdict, budget>>

FinishCollect ==
    /\ EngineAt("collect")
    /\ Missing = {}
    /\ MoveTo("synthesizing")
    /\ engine' = "synthesize"
    /\ UNCHANGED <<loop, tries, cause, verdict, input, budget>>

BeginSynthesize ==
    /\ EngineAt("synthesize")
    /\ 0 \notin Reported
    /\ Begin("synthesize", 0, NoAttempt)
    /\ UNCHANGED <<engine, loop, tries, cause, verdict, budget>>

FinishSynthesize ==
    /\ EngineAt("synthesize")
    /\ 0 \in Reported
    /\ MoveTo("reviewing")
    /\ engine' = "cycles"
    /\ loop' = 0
    /\ UNCHANGED <<tries, cause, verdict, input, budget>>

-----------------------------------------------------------------------------
(* runReviewCycles. *)

\* Variant: the revisions that exist are not looked at.
ToReviseAgain ==
    /\ loop \in Reviewed
    /\ VerdictOf(loop) = "report_revision"
    /\ loop < MaxRevisions

\* The next thing to do is a revision that does not exist yet.
ToRevise ==
    /\ loop \in Reviewed
    /\ VerdictOf(loop) = "report_revision"
    /\ loop < MaxRevisions
    /\ loop + 1 \notin Reported

\* ensureRevising, ensureReviewing
EnsureStatus ==
    /\ EngineAt("cycles")
    /\ LET wanted == IF ToRevise THEN "revising" ELSE "reviewing"
       IN  status # wanted /\ MoveTo(wanted)
    /\ UNCHANGED <<engine, loop, tries, cause, verdict, input, budget>>

\* Variant: the revised report is not taken over.
BeginReviewOfFirst ==
    /\ EngineAt("cycles") /\ status = "reviewing"
    /\ loop \notin Reviewed
    /\ Begin("review", loop, ReportOf(0))
    /\ UNCHANGED <<engine, loop, tries, cause, verdict, budget>>

BeginReview ==
    /\ EngineAt("cycles") /\ status = "reviewing"
    /\ loop \notin Reviewed
    /\ Begin("review", loop, ReportOf(loop))
    /\ UNCHANGED <<engine, loop, tries, cause, verdict, budget>>

AdvanceRunCycle ==
    /\ EngineAt("cycles") /\ status = "revising"
    /\ ToRevise
    /\ cycle < loop + 1
    /\ SetRunCycle(revision, loop + 1)
    /\ UNCHANGED <<engine, loop, tries, cause, verdict, input, budget>>

BeginRevise ==
    /\ EngineAt("cycles") /\ status = "revising"
    /\ ToRevise
    /\ cycle = loop + 1
    /\ Begin("revise", loop + 1, ReportOf(loop))
    /\ UNCHANGED <<engine, loop, tries, cause, verdict, budget>>

\* The revised report is there and the run is back in review.
NextCycle ==
    /\ EngineAt("cycles") /\ status = "reviewing"
    /\ Answered(loop) /\ VerdictOf(loop) = "report_revision"
    /\ IF cycle = loop + 1
       THEN loop' = loop + 1 /\ UNCHANGED <<engine, cause>>
       ELSE GiveUpFor("failed") /\ UNCHANGED loop
    /\ UNCHANGED <<storeVars, tries, verdict, input, budget>>

Succeed ==
    /\ EngineAt("cycles") /\ status = "reviewing"
    /\ Passes(loop)
    /\ SucceedRun(revision)
    /\ engine' = "idle"
    /\ UNCHANGED <<loop, tries, cause, verdict, input, budget>>

WantsRestart == loop \in Reviewed /\ VerdictOf(loop) = "restart"

\* A verdict that restarts research: a new research cycle of the same run.
Remediate ==
    /\ EngineAt("cycles") /\ status = "reviewing"
    /\ WantsRestart
    /\ PrepareResearchRemediation(revision, loop)
    /\ engine' = "plan"
    /\ tries' = 1
    /\ UNCHANGED <<loop, cause, verdict, input, budget>>

Exhausted ==
    \/ WantsRestart /\ remediations = MaxRemediations
    \/ loop = MaxRevisions /\ loop \in Reviewed /\ VerdictOf(loop) = "report_revision"

QualityFail ==
    /\ EngineAt("cycles") /\ status = "reviewing"
    /\ Exhausted
    /\ MoveTo("quality_failed")
    /\ engine' = "idle"
    /\ UNCHANGED <<loop, tries, cause, verdict, input, budget>>

-----------------------------------------------------------------------------
(* Turns: runStage, failStage, abort. *)

\* Releasing an external action of a turn writes its boundary first.
TurnActsOutside(a) ==
    /\ attempt[a].stage \in {"plan", "collect"} /\ ~attempt[a].external
    /\ MarkActiveStageExternalSideEffects(a)
    /\ Spend("actions")
    /\ UNCHANGED <<engine, loop, tries, cause, verdict, input>>

TurnCompletes(a) ==
    /\ CompleteStage(a, "completed")
    /\ IF attempt[a].stage = "review"
       THEN \E v \in Verdicts : verdict' = [verdict EXCEPT ![a] = v]
       ELSE UNCHANGED verdict
    /\ UNCHANGED <<engine, loop, tries, cause, input, budget>>

\* A turn that failed, was cancelled, or was interrupted by the user in the
\* browser: its attempt is failed in each case.
TurnEnds(a, why) ==
    /\ InProgress(a) /\ engine # "aborting"
    /\ IF attempt[a].stage = "collect" /\ why = "failed"
       THEN FailCollectStageAndQuiesceRun(a)
       ELSE CompleteStage(a, "failed")
    /\ GiveUpFor(why)
    /\ Spend("faults")
    /\ UNCHANGED <<loop, tries, verdict, input>>

\* A plan outside the contract, while another try is allowed.
PlanIsRejected(a) ==
    /\ attempt[a].stage = "plan" /\ tries < MaxPlanAttempts
    /\ CompleteStage(a, "failed")
    /\ engine' = "retrying"
    /\ Spend("faults")
    /\ UNCHANGED <<loop, tries, cause, verdict, input>>

\* The siblings of a collector that ended are cancelled and waited for.
SiblingStops(a) ==
    /\ engine = "aborting"
    /\ CompleteStage(a, "failed")
    /\ UNCHANGED <<engine, loop, tries, cause, verdict, input, budget>>

\* An error between two stages, or before a stage has its row.
StepFails(why) ==
    /\ engine \in Working /\ Active = {}
    /\ GiveUpFor(why)
    /\ Spend("faults")
    /\ UNCHANGED <<storeVars, loop, tries, verdict, input>>

\* Variant: the open external actions are not looked at.
AbortOrdinarily ==
    /\ EngineAt("aborting")
    /\ IF IsTerminal(status) \/ status \in {"uncertain", cause}
       THEN UNCHANGED storeVars
       ELSE MoveTo(cause)
    /\ engine' = "idle"
    /\ UNCHANGED <<loop, tries, cause, verdict, input, budget>>

Abort ==
    /\ EngineAt("aborting")
    /\ IF IsTerminal(status) \/ status \in {"uncertain", cause}
       THEN UNCHANGED storeVars
       ELSE MoveTo(QuiescedStatus(cause, attempt))
    /\ engine' = "idle"
    /\ UNCHANGED <<loop, tries, cause, verdict, input, budget>>

-----------------------------------------------------------------------------
(* The process. *)

\* The process dies and the next one recovers the store before anything else
\* runs; what the goroutine knew is gone.
Crash ==
    /\ engine # "idle"
    /\ Spend("crashes")
    /\ RecoverInFlight
    /\ engine' = "idle"
    /\ loop' = 0
    /\ tries' = 1
    /\ cause' = "failed"
    /\ UNCHANGED <<verdict, input>>

-----------------------------------------------------------------------------

StagesBegin ==
    \/ BeginPlan \/ BeginSynthesize \/ BeginReview \/ BeginRevise
    \/ \E o \in Collectors : BeginCollector(o)

StagesFinish ==
    \/ FinishPlan \/ FinishCollect \/ FinishSynthesize \/ RetryPlan \/ GiveUpPlan

CyclesStep ==
    \/ EnsureStatus \/ AdvanceRunCycle \/ NextCycle
    \/ Succeed \/ Remediate \/ QualityFail \/ GiveOut

\* A turn ends with its process, whatever its row still says.
TurnStep(a) ==
    /\ engine # "idle"
    /\ \/ TurnCompletes(a) \/ PlanIsRejected(a) \/ SiblingStops(a)
       \/ \E why \in Causes : TurnEnds(a, why)

\* What the engine does by itself once it has the run: a turn has a deadline.
EngineStep ==
    \/ \E a \in Active : TurnStep(a)
    \/ StagesBegin \/ StagesFinish \/ CyclesStep \/ ResumeInterrupted \/ Abort

ReviewNext ==
    \/ EngineStep
    \/ ExecuteQueued \/ ResumeRun \/ Crash
    \/ \E why \in Causes : StepFails(why)
    \/ \E a \in AttemptId : TurnActsOutside(a)

ReviewSpec == ReviewInit /\ [][ReviewNext]_reviewVars /\ WF_reviewVars(EngineStep)

-----------------------------------------------------------------------------
(* Properties. *)

\* Type correctness of the engine's own state.
ReviewTypeOK ==
    /\ engine \in Working \cup {"idle", "loading", "retrying", "giving_out", "aborting"}
    /\ loop \in Cycles
    /\ tries \in 1..MaxPlanAttempts
    /\ cause \in Causes
    /\ verdict \in [AttemptId -> Verdicts \cup {"none"}]
    /\ input \in [AttemptId -> AttemptId \cup {NoAttempt}]
    /\ budget \in [crashes: 0..MaxCrashes, faults: 0..MaxFaults, actions: 0..MaxActions]

\* A run succeeds with the very report a passing review of this research cycle
\* was given, over evidence of every workstream, however often it was resumed.
SuccessWasReviewed ==
    status = "succeeded" =>
        /\ Missing = {}
        /\ \E a \in Completed("review", cycle) : verdict[a] = "pass" /\ input[a] = report

\* The quality gate gives up only when no way to answer its last verdict is left:
\* the remediations are used up, or the revisions of the report are.
GivenOutOnlyWhenExhausted ==
    status = "quality_failed" =>
        \E a \in Completed("review", cycle) :
            \/ verdict[a] = "restart" /\ remediations = MaxRemediations
            \/ verdict[a] # "pass" /\ cycle = MaxRevisions

\* Wherever the process died, what it left can be resumed, unless a stage of the
\* research cycle had already failed.
CrashLeavesACheckpoint ==
    engine = "loading" => Resumable \/ \E a \in Live : attempt[a].state = "failed"

\* No ordinary ending hides an external action whose outcome is unknown, and the
\* engine never returns from a run it leaves in flight.
EndsAreHonest ==
    engine = "idle" =>
        /\ status \notin InFlightStatuses
        /\ status \in {"failed", "cancelled"} => Unsettled = {}

\* The loop of reviews, revisions, remediations and retried plans comes to an end:
\* whenever the engine has the run it gives it back.
EngineReturns == engine # "idle" ~> engine = "idle"

\* What "interrupted" offers: VERIFICATION.md promises that the explicit resume
\* archives what is incomplete and begins a fresh attempt.  It does not hold of a
\* run whose turn was interrupted, because its attempt is failed.
InterruptedRunIsResumed == engine = "loading" => Resumable
=============================================================================
