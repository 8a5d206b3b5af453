----------------------------- MODULE ApprovalFlow -----------------------------
(***************************************************************************)
(* One research run from its start to the end of collection: the engine    *)
(* with its parallel collectors (internal/research/engine.go), the Codex   *)
(* turns that ask for approvals, the approval router with its single event *)
(* loop (internal/approval/router.go), the user's concurrent decisions,    *)
(* and the dispatcher's cancellation and clean-up of the run.              *)
(*                                                                         *)
(* The actors share only the tables of RunStore.  Each action here is one  *)
(* database transaction, or one read, or one message to Codex, with the    *)
(* local state its caller carries from one to the next; between two of     *)
(* them every other actor may move.                                        *)
(***************************************************************************)
EXTENDS RunStore

CONSTANTS
    NoApproval,    \* the absent request
    Plan,          \* the attempt of the PLAN stage
    Crew,          \* the attempts of the collectors
    OrdinalOf,     \* the workstream of each collector
    AskingTurns,   \* bound of this model: the turns that make requests
    AskedKinds,    \* bound: the kinds of request they make
    Repeats,       \* bound: the requests that only repeat a denied solver call
    MaxCrashes,    \* bound of this model on process crashes
    MaxFaults,     \* bound on lost responses and aborted user requests
    MaxPrepErrors  \* bound on stages that fail before they have a row

ASSUME FlowAssumption ==
    /\ NoApproval \notin ApprovalId
    /\ Plan \in AttemptId
    /\ Crew \subseteq AttemptId \ {Plan}
    /\ OrdinalOf \in [Crew -> Collectors]
    /\ \A a, b \in Crew : OrdinalOf[a] = OrdinalOf[b] => a = b
    /\ AskingTurns \subseteq AttemptId /\ AskedKinds \subseteq {"auto", "planned"} \cup ApprovalKinds
    /\ Repeats \subseteq ApprovalId
    /\ {MaxCrashes, MaxFaults, MaxPrepErrors} \subseteq Nat

VARIABLES
    engine,     \* where the goroutine that executes the run is
    worker,     \* what the goroutine of each attempt is doing
    outcome,    \* how each attempt's goroutine returned
    abort,      \* the abort in progress: its target and what it read
    quiesced,   \* quiesceOnce of the collection
    stopped,    \* the collectors' shared context is cancelled
    cancelled,  \* the run's context is cancelled
    user,       \* the user's CancelRun request
    closing,    \* the dispatcher is shutting the process down
    router,     \* the request the router is handling, and its snapshot
    registered, \* router.pending: the requests a user can decide
    prior,      \* the status each registered request returns the run to
    decider,    \* the progress of the user's decision on each request
    request,    \* the requests as Codex sees them
    budget      \* crashes, faults and preparation errors left

engineVars == <<engine, worker, outcome, abort, quiesced, stopped>>
hostVars == <<cancelled, user, closing>>
routerVars == <<router, registered, prior, decider, request>>
flowVars == <<storeVars, engineVars, hostVars, routerVars, budget>>

\* "auto" is allowed by policy but has an external side effect, "planned" is a
\* solver call the approved plan already authorises; the rest ask the user.
RequestKinds == {"auto", "planned"} \cup ApprovalKinds

\* The tools that need no question, among them the package the user installed
\* for this very stage.
AllowedByPolicy(kind) == kind = "auto"

\* A screening cell of the approved plan, after one of its cells was approved.
AuthorizedByPlan(kind) == kind = "planned"

NoRequest == [turn |-> NoAttempt, kind |-> "auto", state |-> "none"]
NoAbort == [at |-> "idle", cause |-> "failed", next |-> "failed", revision |-> 0]
IdleRouter == [at |-> "idle", request |-> NoApproval, status |-> "queued", revision |-> 0]

FlowInit ==
    /\ StoreInit
    /\ engine = "starting"
    /\ worker = [a \in AttemptId |-> "idle"]
    /\ outcome = [a \in AttemptId |-> "none"]
    /\ abort = NoAbort
    /\ quiesced = FALSE /\ stopped = FALSE /\ cancelled = FALSE /\ closing = FALSE
    /\ user = "idle"
    /\ router = IdleRouter
    /\ registered = {}
    /\ prior = [r \in ApprovalId |-> "queued"]
    /\ decider = [r \in ApprovalId |-> "idle"]
    /\ request = [r \in ApprovalId |-> NoRequest]
    /\ budget = [crashes |-> MaxCrashes, faults |-> MaxFaults, prep |-> MaxPrepErrors]

-----------------------------------------------------------------------------
(* The engine: Execute, continueAfterPlan, collect. *)

CrewOf(stage) == IF stage = "plan" THEN {Plan} ELSE Crew

Ordinal(a) == IF a = Plan THEN 0 ELSE OrdinalOf[a]

\* The engine leaves the stage and gives the run up for `cause`.
AbortFor(cause) ==
    /\ engine' = "aborting"
    /\ abort' = [NoAbort EXCEPT !.at = "read", !.cause = cause]

\* transition: the reload accepts only the status the engine left the run in,
\* moved on by complete approval round trips.
TransitionFrom(from, to, then) ==
    IF ~cancelled /\ status = from
    THEN /\ TransitionRun(revision, to)
         /\ engine' = then
         /\ UNCHANGED abort
    ELSE /\ AbortFor(IF cancelled THEN "cancelled" ELSE "failed")
         /\ UNCHANGED storeVars

\* The goroutines of a stage start when the engine enters it.
EnterCrew(stage) ==
    worker' = IF engine' = stage
              THEN [a \in AttemptId |-> IF a \in CrewOf(stage) THEN "ready" ELSE worker[a]]
              ELSE worker

\* Execute, executeQueued: a run that is no longer queued, or cannot be read any
\* more, is left alone; one whose pinned knowledge is corrupt is given up.
StartRun ==
    /\ engine = "starting"
    /\ \/ status = "queued" /\ TransitionFrom("queued", "planning", "plan")
       \/ status = "queued" /\ AbortFor("failed") /\ UNCHANGED storeVars
       \/ /\ status # "queued" \/ cancelled
          /\ engine' = "returned"
          /\ UNCHANGED <<storeVars, abort>>
    /\ EnterCrew("plan")
    /\ UNCHANGED <<outcome, quiesced, stopped, hostVars, routerVars, budget>>

Returned(stage) == \A a \in CrewOf(stage) : worker[a] = "returned"

AllDone(stage) == \A a \in CrewOf(stage) : outcome[a] = "done"

\* The stage's error: the first in workstream order that is not a cancellation.
IsStageError(stage, error) ==
    LET own == {a \in CrewOf(stage) : outcome[a] \notin {"done", "cancelled"}}
    IN  \/ own = {} /\ error = "cancelled"
        \/ \E a \in own : error = outcome[a] /\ \A b \in own : Ordinal(a) <= Ordinal(b)

\* abort's own reading of the cause and of the run's context
AbortCause(error) == IF error = "failed" /\ cancelled THEN "cancelled" ELSE error

FinishStage(stage, from, to, then) ==
    /\ engine = stage
    /\ Returned(stage)
    /\ IF AllDone(stage)
       THEN TransitionFrom(from, to, then)
       ELSE /\ \E error \in {"cancelled", "failed", "interrupted"} :
                IsStageError(stage, error) /\ AbortFor(AbortCause(error))
            /\ UNCHANGED storeVars
    /\ UNCHANGED <<outcome, quiesced, stopped, hostVars, routerVars, budget>>

FinishPlan ==
    /\ FinishStage("plan", "planning", "collecting", "collect")
    /\ EnterCrew("collect")

\* What follows collection is another component's.
FinishCollection ==
    /\ FinishStage("collect", "collecting", "synthesizing", "handed_over")
    /\ UNCHANGED worker

-----------------------------------------------------------------------------
(* abort: two reads and a compare-and-swap, by the engine or by the first   *)
(* collector whose failure quiesces the collection.                         *)

AbortEnds ==
    /\ abort' = NoAbort
    /\ engine' = IF engine = "aborting" THEN "returned" ELSE engine
    /\ worker' = [a \in AttemptId |-> IF worker[a] = "quiescing" THEN "failing" ELSE worker[a]]

AbortReads ==
    /\ abort.at = "read"
    /\ IF IsTerminal(status) \/ status \in {"uncertain", abort.cause}
       THEN AbortEnds
       ELSE /\ abort' = [abort EXCEPT !.at = "commit", !.revision = revision,
                                      !.next = QuiescedStatus(abort.cause, attempt)]
            /\ UNCHANGED <<engine, worker>>
    /\ UNCHANGED <<storeVars, outcome, quiesced, stopped, hostVars, routerVars, budget>>

\* A write that raced is tried again from the run as it is now; a transition
\* that the table of statuses forbids is given up.
AbortCommits ==
    /\ abort.at = "commit"
    /\ \/ TransitionRun(abort.revision, abort.next) /\ AbortEnds
       \/ /\ abort.revision = revision /\ ~CanTransition(status, abort.next)
          /\ AbortEnds
          /\ UNCHANGED storeVars
       \/ /\ abort.revision # revision
          /\ abort' = [abort EXCEPT !.at = "read"]
          /\ UNCHANGED <<storeVars, engine, worker>>
    /\ UNCHANGED <<outcome, quiesced, stopped, hostVars, routerVars, budget>>

-----------------------------------------------------------------------------
(* The goroutine of an attempt: runStage, failStage, and collect's worker.  *)

\* A worker that returns an error cancels its siblings.
WorkerReturns(a, how) ==
    /\ worker' = [worker EXCEPT ![a] = "returned"]
    /\ outcome' = [outcome EXCEPT ![a] = how]
    /\ stopped' = (stopped \/ (a \in Crew /\ how # "done"))

\* A collector's own failure has to quiesce the run before it returns.
WorkerFails(a) ==
    IF a \in Crew
    THEN /\ worker' = [worker EXCEPT ![a] = "failing"]
         /\ outcome' = [outcome EXCEPT ![a] = "failed"]
         /\ UNCHANGED stopped
    ELSE WorkerReturns(a, "failed")

ContextOver == cancelled \/ stopped

StageOf(a) == IF a = Plan THEN "plan" ELSE "collect"

WorkerBegins(a) ==
    /\ worker[a] = "ready"
    /\ ~ContextOver
    /\ BeginStage(a, StageOf(a), Ordinal(a))
    /\ worker' = [worker EXCEPT ![a] = "turn"]
    /\ UNCHANGED <<engine, outcome, abort, quiesced, stopped, hostVars, routerVars, budget>>

\* Variant: only the run's own context stops a collector that waits to begin.
WorkerIsStoppedByRun(a) ==
    /\ worker[a] = "ready"
    /\ cancelled
    /\ WorkerReturns(a, "cancelled")
    /\ UNCHANGED <<storeVars, engine, abort, quiesced, hostVars, routerVars, budget>>

WorkerIsStopped(a) ==
    /\ worker[a] = "ready"
    /\ ContextOver
    /\ WorkerReturns(a, "cancelled")
    /\ UNCHANGED <<storeVars, engine, abort, quiesced, hostVars, routerVars, budget>>

\* A stage can fail before it has a row: the main thread is missing, the plan
\* does not match the remediation a collector reads back, BeginStage fails.
WorkerIsNotPrepared(a) ==
    /\ worker[a] = "ready"
    /\ ~ContextOver
    /\ budget.prep > 0
    /\ budget' = [budget EXCEPT !.prep = @ - 1]
    /\ WorkerFails(a)
    /\ UNCHANGED <<storeVars, engine, abort, quiesced, hostVars, routerVars>>

\* A turn cannot end in success while Codex waits for an answer in it.
Unanswered(a) == {r \in ApprovalId : request[r].turn = a /\ request[r].state \in {"queued", "open"}}

TurnSucceeds(a) ==
    /\ worker[a] = "turn"
    /\ ~ContextOver
    /\ Unanswered(a) = {}
    /\ IF InProgress(a)
       THEN CompleteStage(a, "completed") /\ WorkerReturns(a, "done")
       ELSE WorkerFails(a) /\ UNCHANGED storeVars
    /\ UNCHANGED <<engine, abort, quiesced, hostVars, routerVars, budget>>

\* The turn fails, passes its deadline, or returns what is not accepted.
TurnFails(a) ==
    /\ worker[a] = "turn"
    /\ IF ~InProgress(a) THEN UNCHANGED storeVars
       ELSE IF a \in Crew THEN FailCollectStageAndQuiesceRun(a)
       ELSE CompleteStage(a, "failed")
    /\ WorkerFails(a)
    /\ UNCHANGED <<engine, abort, quiesced, hostVars, routerVars, budget>>

\* Codex reports an interrupted turn, or the context was cancelled under it:
\* neither is a collector's own failure.
TurnIsBroken(a, how) ==
    /\ worker[a] = "turn"
    /\ how = "cancelled" => ContextOver
    /\ IF InProgress(a) THEN CompleteStage(a, "failed") ELSE UNCHANGED storeVars
    /\ WorkerReturns(a, how)
    /\ UNCHANGED <<engine, abort, quiesced, hostVars, routerVars, budget>>

\* quiesceOnce.Do: the first failing collector aborts the run, the others wait
\* for it and return.
CollectorQuiesces(a) ==
    /\ worker[a] = "failing"
    /\ ~quiesced
    /\ quiesced' = TRUE
    /\ worker' = [worker EXCEPT ![a] = "quiescing"]
    /\ abort' = [NoAbort EXCEPT !.at = "read"]
    /\ UNCHANGED <<storeVars, engine, outcome, stopped, hostVars, routerVars, budget>>

CollectorReturns(a) ==
    /\ worker[a] = "failing"
    /\ quiesced /\ abort.at = "idle"
    /\ WorkerReturns(a, "failed")
    /\ UNCHANGED <<storeVars, engine, abort, quiesced, hostVars, routerVars, budget>>

Worker(a) ==
    \/ WorkerBegins(a) \/ WorkerIsStopped(a) \/ WorkerIsNotPrepared(a)
    \/ TurnSucceeds(a) \/ TurnFails(a)
    \/ \E how \in {"cancelled", "interrupted"} : TurnIsBroken(a, how)
    \/ CollectorQuiesces(a) \/ CollectorReturns(a)

-----------------------------------------------------------------------------
(* The router: Run handles one request at a time. *)

\* deniedEngineeringRetry: one denial decides the stage for this solver.
DeniedBefore(a) ==
    \E p \in ApprovalId :
        /\ approval[p] = [state |-> "denied", attempt |-> a, kind |-> "solver"]

\* A live turn asks; a solver is only called from a collector.
Asks(a, r, kind) ==
    /\ worker[a] = "turn" /\ ~ContextOver
    /\ request[r].state = "none"
    /\ r \in Repeats => kind = "solver" /\ DeniedBefore(a)
    /\ kind = "solver" \/ AuthorizedByPlan(kind) => a \in Crew
    /\ request' = [request EXCEPT ![r] = [turn |-> a, kind |-> kind, state |-> "queued"]]
    /\ UNCHANGED <<storeVars, engineVars, hostVars, router, registered, prior, decider, budget>>

RouterGoes(at) == router' = [router EXCEPT !.at = at]

\* The first reads of handle: the active attempt of the thread, the policy, and
\* the denied rows of its solver.
RouterTakes(r) ==
    /\ router.at = "idle"
    /\ request[r].state = "queued"
    /\ request' = [request EXCEPT ![r].state = "open"]
    /\ LET a == request[r].turn
           kind == request[r].kind
           at == IF ~InProgress(a) THEN "decline"
                 ELSE IF AllowedByPolicy(kind) THEN "mark"
                 ELSE IF AuthorizedByPlan(kind) THEN "authorize"
                 ELSE IF kind = "solver" /\ DeniedBefore(a) THEN "retry" ELSE "load"
       IN  router' = [IdleRouter EXCEPT !.at = at, !.request = r]
    /\ UNCHANGED <<storeVars, engineVars, hostVars, registered, prior, decider, budget>>

Handled == router.request

TurnOf(r) == request[r].turn

\* Variant: the answer precedes the durable boundary.
RouterMarksLater ==
    /\ router.at = "mark"
    /\ RouterGoes(IF MayMarkActive(TurnOf(Handled)) THEN "accept" ELSE "decline")
    /\ UNCHANGED <<storeVars, engineVars, hostVars, registered, prior, decider, request, budget>>

\* An automatic external action: the durable boundary first, then the answer.
RouterMarks ==
    /\ router.at = "mark"
    /\ IF MayMarkActive(TurnOf(Handled))
       THEN MarkActiveStageExternalSideEffects(TurnOf(Handled)) /\ RouterGoes("accept")
       ELSE UNCHANGED storeVars /\ RouterGoes("decline")
    /\ UNCHANGED <<engineVars, hostVars, registered, prior, decider, request, budget>>

\* Variant: the authorisation is inserted as approved.
RouterAuthorizesAtOnce ==
    /\ router.at = "authorize"
    /\ MayCreateApproval(TurnOf(Handled))
    /\ approval' = [approval EXCEPT ![Handled] =
          [state |-> "approved", attempt |-> TurnOf(Handled), kind |-> "solver"]]
    /\ RouterGoes("accept")
    /\ UNCHANGED <<status, revision, cycle, report, remediations, attempt, adopted>>
    /\ UNCHANGED <<engineVars, hostVars, registered, prior, decider, request, budget>>

\* A planned solver call: the exact authorisation is created and approved in
\* two transactions before the answer.
RouterAuthorizes ==
    /\ router.at = "authorize"
    /\ IF MayCreateApproval(TurnOf(Handled))
       THEN CreateApproval(Handled, TurnOf(Handled), "solver") /\ RouterGoes("confirm")
       ELSE UNCHANGED storeVars /\ RouterGoes("decline")
    /\ UNCHANGED <<engineVars, hostVars, registered, prior, decider, request, budget>>

RouterConfirms ==
    /\ router.at = "confirm"
    /\ IF Handled \in Pending
       THEN DecideApproval(Handled, "approved") /\ RouterGoes("accept")
       ELSE UNCHANGED storeVars /\ RouterGoes("decline")
    /\ UNCHANGED <<engineVars, hostVars, registered, prior, decider, request, budget>>

\* A collector that asks again for a solver the user denied is failed.
RouterFailsRetry ==
    /\ router.at = "retry"
    /\ \/ FailCollectStageAndQuiesceRun(TurnOf(Handled))
       \/ ~InProgress(TurnOf(Handled)) /\ UNCHANGED storeVars
    /\ RouterGoes("decline")
    /\ UNCHANGED <<engineVars, hostVars, registered, prior, decider, request, budget>>

\* The run as it is before the request is recorded.  A run that already waits
\* must wait on a request this session knows.
RouterLoads ==
    /\ router.at = "load"
    /\ \/ /\ status # "waiting_approval"
          /\ prior' = [prior EXCEPT ![Handled] = status]
          /\ router' = [router EXCEPT !.at = "create", !.status = status, !.revision = revision]
       \/ /\ status = "waiting_approval"
          /\ \E known \in registered : prior' = [prior EXCEPT ![Handled] = prior[known]]
          /\ router' = [router EXCEPT !.at = "create", !.status = status, !.revision = revision]
       \/ /\ status = "waiting_approval" /\ registered = {}
          /\ RouterGoes("decline")
          /\ UNCHANGED prior
    /\ UNCHANGED <<storeVars, engineVars, hostVars, registered, decider, request, budget>>

RouterCreates ==
    /\ router.at = "create"
    /\ IF MayCreateApproval(TurnOf(Handled))
       THEN CreateApproval(Handled, TurnOf(Handled), request[Handled].kind) /\ RouterGoes("wait")
       ELSE UNCHANGED storeVars /\ RouterGoes("decline")
    /\ UNCHANGED <<engineVars, hostVars, registered, prior, decider, request, budget>>

Registers ==
    /\ registered' = registered \cup {Handled}
    /\ router' = IdleRouter

\* The run waits from the revision read by RouterLoads; when that write loses,
\* the request is declined and its row stays as it is.
RouterWaits ==
    /\ router.at = "wait"
    /\ \/ router.status = "waiting_approval" /\ Registers /\ UNCHANGED storeVars
       \/ /\ router.status # "waiting_approval"
          /\ TransitionRun(router.revision, "waiting_approval")
          /\ Registers
       \/ /\ router.status # "waiting_approval"
          /\ router.revision # revision \/ ~CanTransition(router.status, "waiting_approval")
          /\ RouterGoes("decline")
          /\ UNCHANGED <<storeVars, registered>>
    /\ UNCHANGED <<engineVars, hostVars, prior, decider, request, budget>>

-----------------------------------------------------------------------------
(* Answers.  A response that returns an error may or may not have arrived. *)

\* markUncertain: a run that is already closed keeps its status.
MarkUncertain ==
    IF status \in ClosedStatuses THEN UNCHANGED storeVars
    ELSE TransitionRun(revision, "uncertain")

Answered(r, answer) == request' = [request EXCEPT ![r].state = answer]

Fault == budget.faults > 0 /\ budget' = [budget EXCEPT !.faults = @ - 1]

RouterAnswers ==
    /\ \/ router.at = "accept" /\ Answered(Handled, "accepted")
       \/ router.at = "decline" /\ Answered(Handled, "declined")
    /\ router' = IdleRouter
    /\ UNCHANGED <<storeVars, engineVars, hostVars, registered, prior, decider, budget>>

\* The outcome of the answer is unknown, which stops the router; an accepted
\* external action makes its run uncertain first.
RouterLosesAnswer ==
    /\ router.at \in {"accept", "decline"}
    /\ Fault
    /\ IF router.at = "accept" THEN MarkUncertain ELSE UNCHANGED storeVars
    /\ \/ UNCHANGED request
       \/ Answered(Handled, IF router.at = "accept" THEN "accepted" ELSE "declined")
    /\ RouterGoes("stopped")
    /\ UNCHANGED <<engineVars, hostVars, registered, prior, decider>>

Router ==
    \/ \E r \in ApprovalId : RouterTakes(r)
    \/ RouterMarks \/ RouterAuthorizes \/ RouterConfirms \/ RouterFailsRetry
    \/ RouterLoads \/ RouterCreates \/ RouterWaits
    \/ RouterAnswers \/ RouterLosesAnswer

-----------------------------------------------------------------------------
(* The user: Decide runs in a goroutine of its own for every click. *)

Forgets(r) == registered' = registered \ {r}

\* The router owns the side-effect boundary of what is not a solver.
OwnsBoundary(r) == request[r].kind = "external"

\* The decision: a click on a request that is no longer live answers nobody,
\* and a second click on a decided one only makes the router forget it.
Decides(r, decision) ==
    /\ r \in registered
    /\ IF r \in Pending
       THEN DecideActiveApproval(r, decision)
       ELSE UNCHANGED storeVars
    /\ IF r \in Pending /\ Decidable(r)
       THEN decider' = [decider EXCEPT ![r] = "resume"] /\ UNCHANGED registered
       ELSE Forgets(r) /\ UNCHANGED decider
    /\ UNCHANGED <<engineVars, hostVars, router, prior, request, budget>>

\* The user's connection ends before the decision is written.
DecisionIsLost(r) ==
    /\ r \in registered /\ r \in Pending /\ OwnsBoundary(r)
    /\ Fault
    /\ MarkUncertain
    /\ UNCHANGED <<engineVars, hostVars, routerVars>>

\* The owning stage is restored before Codex hears of the decision.
Resumes(r) ==
    /\ decider[r] = "resume"
    /\ \/ ResumeRunAfterApproval(prior[r])
       \/ status = "waiting_approval" /\ Pending # {} /\ UNCHANGED storeVars
    /\ decider' = [decider EXCEPT ![r] = "respond"]
    /\ UNCHANGED <<engineVars, hostVars, router, registered, prior, request, budget>>

\* It cannot be restored: Codex gets no answer, and an approved external action
\* leaves the run uncertain.
ResumeFails(r) ==
    /\ decider[r] = "resume"
    /\ \/ /\ status # "waiting_approval" \/ (Pending = {} /\ Active = {})
          /\ UNCHANGED budget
       \/ Fault
    /\ IF approval[r].state = "approved" /\ OwnsBoundary(r) THEN MarkUncertain ELSE UNCHANGED storeVars
    /\ decider' = [decider EXCEPT ![r] = "dropped"]
    /\ Forgets(r)
    /\ UNCHANGED <<engineVars, hostVars, router, prior, request>>

\* Variant: the answer does not depend on the row.
RespondsAccepted(r) ==
    /\ decider[r] = "respond"
    /\ Answered(r, "accepted")
    /\ decider' = [decider EXCEPT ![r] = "idle"]
    /\ Forgets(r)
    /\ UNCHANGED <<storeVars, engineVars, hostVars, router, prior, budget>>

Responds(r) ==
    /\ decider[r] = "respond"
    /\ Answered(r, IF approval[r].state = "approved" THEN "accepted" ELSE "declined")
    /\ decider' = [decider EXCEPT ![r] = "idle"]
    /\ Forgets(r)
    /\ UNCHANGED <<storeVars, engineVars, hostVars, router, prior, budget>>

ResponseFails(r) ==
    /\ decider[r] = "respond"
    /\ Fault
    /\ IF OwnsBoundary(r) THEN MarkUncertain ELSE UNCHANGED storeVars
    /\ \/ UNCHANGED request
       \/ Answered(r, IF approval[r].state = "approved" THEN "accepted" ELSE "declined")
    /\ decider' = [decider EXCEPT ![r] = "idle"]
    /\ Forgets(r)
    /\ UNCHANGED <<engineVars, hostVars, router, prior>>

\* An accepted solver call is admitted by the engineering service.
SolverBegins(r) ==
    /\ request[r].state = "accepted"
    /\ worker[TurnOf(r)] = "turn"
    /\ BeginEngineeringJob(TurnOf(r), r)
    /\ UNCHANGED <<engineVars, hostVars, routerVars, budget>>

User(r) ==
    \/ \E decision \in {"approved", "denied"} : Decides(r, decision)
    \/ DecisionIsLost(r) \/ Resumes(r) \/ ResumeFails(r) \/ Responds(r) \/ ResponseFails(r)

-----------------------------------------------------------------------------
(* The dispatcher and the process. *)

\* CancelRun: the run's context first, then the durable status.
CancelSignals ==
    /\ user = "idle"
    /\ user' = "cancelling"
    /\ cancelled' = (cancelled \/ engine \notin {"returned", "over", "down"})
    /\ UNCHANGED <<storeVars, engineVars, closing, routerVars, budget>>

QuiesceOrLeave(requested) ==
    \/ QuiesceRun(requested)
    \/ ~QuiesceCommits(requested) /\ UNCHANGED storeVars

CancelQuiesces ==
    /\ user = "cancelling"
    /\ user' = "done"
    /\ QuiesceOrLeave("cancelled")
    /\ UNCHANGED <<engineVars, cancelled, closing, routerVars, budget>>

\* execute, finishErroredRun: a run that returned an error is closed unless the
\* process is going down.
FinishErroredRun ==
    /\ engine = "returned"
    /\ engine' = "over"
    /\ IF closing THEN UNCHANGED storeVars
       ELSE QuiesceOrLeave(IF cancelled THEN "cancelled" ELSE "failed")
    /\ UNCHANGED <<worker, outcome, abort, quiesced, stopped, hostVars, routerVars, budget>>

\* The router's error ends the process: Shutdown cancels the run's context.
ShutdownBegins ==
    /\ router.at = "stopped" /\ ~closing
    /\ closing' = TRUE /\ cancelled' = TRUE
    /\ UNCHANGED <<storeVars, engineVars, user, routerVars, budget>>

\* The process ends at any point, and the next one recovers the tables before
\* anything else runs.  A run still queued is queued again; nothing else is
\* resumed without the user, and the requests of the dead App Server are lost.
Restart ==
    /\ engine # "down"
    /\ \/ budget.crashes > 0 /\ budget' = [budget EXCEPT !.crashes = @ - 1]
       \/ closing /\ UNCHANGED budget
    /\ RecoverInFlight
    /\ engine' = IF status = "queued" THEN "starting" ELSE "down"
    /\ worker' = [a \in AttemptId |-> "idle"]
    /\ abort' = NoAbort
    /\ quiesced' = FALSE /\ stopped' = FALSE /\ cancelled' = FALSE /\ closing' = FALSE
    /\ user' = "idle"
    /\ router' = IdleRouter
    /\ registered' = {}
    /\ decider' = [r \in ApprovalId |-> "idle"]
    /\ request' = [r \in ApprovalId |->
          IF request[r].state \in {"queued", "open"} THEN [request[r] EXCEPT !.state = "lost"]
                                                    ELSE request[r]]
    /\ UNCHANGED <<outcome, prior>>

-----------------------------------------------------------------------------

Engine == StartRun \/ FinishPlan \/ FinishCollection \/ AbortReads \/ AbortCommits

FlowNext ==
    \/ Engine
    \/ \E a \in AttemptId : Worker(a)
    \/ \E a \in AskingTurns, r \in ApprovalId, kind \in AskedKinds : Asks(a, r, kind)
    \/ Router
    \/ \E r \in ApprovalId : User(r) \/ SolverBegins(r)
    \/ CancelSignals \/ CancelQuiesces \/ FinishErroredRun \/ ShutdownBegins \/ Restart

FlowSpec == FlowInit /\ [][FlowNext]_flowVars

\* The engine's goroutines run, and the deadline of a turn ends it whatever
\* Codex, the router and the user do.
FairEngine ==
    /\ WF_flowVars(Engine)
    /\ WF_flowVars(FinishErroredRun)
    /\ \A a \in AttemptId : WF_flowVars(Worker(a) /\ worker'[a] # worker[a])

FairFlowSpec == FlowSpec /\ FairEngine

-----------------------------------------------------------------------------
(* Properties. *)

\* What the engine, its goroutines and the dispatcher keep.
EngineTypeOK ==
    /\ engine \in {"starting", "plan", "collect", "aborting", "returned", "over", "handed_over", "down"}
    /\ worker \in [AttemptId -> {"idle", "ready", "turn", "failing", "quiescing", "returned"}]
    /\ outcome \in [AttemptId -> {"none", "done", "failed", "cancelled", "interrupted"}]
    /\ abort \in [at: {"idle", "read", "commit"}, cause: RunStatuses, next: RunStatuses, revision: 0..MaxRevision]
    /\ {quiesced, stopped, cancelled, closing} \subseteq BOOLEAN
    /\ user \in {"idle", "cancelling", "done"}

\* What the router and the user's decisions keep.
RouterTypeOK ==
    /\ router \in [at: {"idle", "mark", "authorize", "confirm", "retry", "load", "create", "wait",
                        "accept", "decline", "stopped"},
                   request: ApprovalId \cup {NoApproval}, status: RunStatuses, revision: 0..MaxRevision]
    /\ registered \subseteq ApprovalId
    /\ prior \in [ApprovalId -> RunStatuses]
    /\ decider \in [ApprovalId -> {"idle", "resume", "respond", "dropped"}]
    /\ request \in [ApprovalId -> [turn: AttemptId \cup {NoAttempt}, kind: RequestKinds,
                                   state: {"none", "queued", "open", "accepted", "declined", "lost"}]]

\* The tables and the actors' local states have their types.
FlowTypeOK == StoreTypeOK /\ EngineTypeOK /\ RouterTypeOK

\* Codex is never released into an external action whose possible side effect
\* is not already durable, nor into a solver without an approved exact scope.
ReleasedOnlyAfterBoundary ==
    \A r \in ApprovalId :
        request[r].state = "accepted" =>
            /\ request[r].kind \in {"auto", "external"} => attempt[request[r].turn].external
            /\ request[r].kind # "auto" => approval[r].state = "approved"

\* Codex never hears the opposite of what was decided: a request it saw
\* accepted was not denied, and one it saw declined was not approved.
AnswerFollowsDecision ==
    \A r \in ApprovalId :
        /\ request[r].state = "accepted" => approval[r].state \notin {"denied", "pending", "expired"}
        /\ request[r].state = "declined" => approval[r].state # "approved"

\* A collector that never began left no row behind it.
FailedBeforeItsStage == \E a \in Crew : outcome[a] = "failed" /\ attempt[a].state = "none"

\* However failures, cancellations, approvals and crashes interleave, a run
\* that ended as an ordinary failure or cancellation has no external action
\* with an unknown outcome: quiesceRunTransaction, abort and markUncertain
\* agree.  (A collector that fails before it has a row is the exception that
\* AbortSeesEveryBoundary states.)
OrdinaryEndHidesNoOutcome ==
    IsTerminal(status) /\ ~FailedBeforeItsStage => Unsettled = {}

\* A run a restart offers for resumption holds no attempt whose turn may have
\* acted externally when the process ended.
InterruptedHasNoOpenBoundary ==
    status = "interrupted" =>
        \A a \in AttemptId : attempt[a].state \in {"in_progress", "interrupted"} => ~attempt[a].external

\* Neither a late click, nor a late abort, nor a late clean-up gives a run that
\* was closed another status; only the user's cancellation of an interrupted
\* run is still to come.
ClosedStep ==
    status \in ClosedStatuses /\ status' # status =>
        status = "interrupted" /\ status' = "cancelled"
ClosedIsFinal == [][ClosedStep]_flowVars

\* The next four state what the code's comments and documents promise, and the
\* checks refute.

\* A request the user decided while its turn was live gets its answer: it is not
\* dropped while the turn still waits for it in a run that goes on.
DecidedRequestIsAnswered ==
    \A r \in ApprovalId :
        decider[r] = "dropped" /\ InProgress(request[r].turn) => status \in ClosedStatuses

\* The run waits for every request that is offered to the user on behalf of a
\* live turn: what the user answers reaches the turn that asked.
OfferedRequestIsWaitedFor ==
    \A r \in registered \cap Pending :
        InProgress(request[r].turn) => status \in ClosedStatuses \cup {"waiting_approval"}

\* A restart never presents a run as merely interrupted when the outcome of an
\* external action of it is unknown.
RecoverySeesEveryBoundary == status = "interrupted" => Unsettled = {}

\* The same for a run its own engine gave up.
AbortSeesEveryBoundary == IsTerminal(status) => Unsettled = {}

\* Whatever the user, Codex and the router do, the run does not stay in flight:
\* it is handed on to synthesis or it is closed.
RunSettles == <>[](status \in ClosedStatuses \/ engine = "handed_over")
=============================================================================
