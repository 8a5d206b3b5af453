--------------------------- MODULE EngineeringSweep ---------------------------
(***************************************************************************)
(* The solver work of one run: the planned matrix of cells the owner       *)
(* collector runs before its turn (internal/research/xfoil_matrix.go), the *)
(* one decision of the user that authorises it (internal/approval/         *)
(* core_authorizer.go), the calls a turn makes itself through the router   *)
(* (router.go), the service that executes them one at a time per project   *)
(* (internal/engineering/service.go) over its job table                    *)
(* (internal/store/engineering.go), and the readback of sealed receipts in *)
(* a later research cycle (engineering_reuse.go, su2_general_acceptance.go)*)
(*                                                                         *)
(* A scope is what an approval hashes: the exact arguments of one call.    *)
(* Scope 0 is the general SU2 case of the plan, 1..Cells are the cells of  *)
(* its XFOIL matrix, and Cells + c is the independent verification of cell *)
(* c that a reserved collector asks for after the others                   *)
(* (engine.go, xfoil_verification.go).                                     *)
(***************************************************************************)
EXTENDS RunStore, FiniteSets

CONSTANTS
    Cells,         \* the number of cells of a planned matrix
    JobId,         \* identities of engineering_jobs rows
    MaxSlots,      \* cap(service.slots), and the store's limit on running jobs
    CallScopes,    \* the calls the owner's turn may think of making itself
    CrewCallScopes, \* bound of this model on those with a second collector at work
    Drags,         \* drags at the target lift a solver may find; 0: target not reached
    CrewCycles,    \* bound of this model on research cycles with a second collector
    MaxMishaps     \* bound of this model on crashes, cancellations and steps that fail

ASSUME SweepAssumption ==
    /\ {AttemptId, ApprovalId, JobId} \subseteq SUBSET Nat
    /\ Cells \in Nat \ {0} /\ {MaxSlots, CrewCycles, MaxMishaps} \subseteq Nat
    /\ CallScopes \subseteq 0..Cells /\ CrewCallScopes \subseteq CallScopes
    /\ Drags \subseteq Nat
    /\ {0, 1, 2} = Collectors

VARIABLES
    engine,     \* what the goroutine that executes the run is at
    plan,       \* the research plan of this cycle
    demand,     \* the latest remediation asks for new solver execution
    turn,       \* each collector: its position and what it holds
    scope,      \* the call each approval row hashes
    registered, \* who waits in memory for the decision of each row
    deciding,   \* decisions stored whose run is not yet restored
    job,        \* the engineering_jobs table
    sealed,     \* the remediation that sealed each attempt
    reuse,      \* the engineering_receipt_reuses table
    stop,       \* the context of the run was cancelled
    budget      \* mishaps left

runVars == <<engine, plan, demand>>
sweepVars == <<storeVars, runVars, turn, scope, registered, deciding, job, sealed, reuse,
               stop, budget>>

Owner == 0       \* core.EngineeringScreeningOwnerOrdinal
Verifier == 2    \* core.EngineeringVerificationOrdinal
Workstreams == Collectors \ {Verifier}

Case == 0
Matrix == 1..Cells
Verifications == (Cells + 1)..(2 * Cells)
Scopes == {Case} \cup Matrix \cup Verifications

JobStates == {"none", "running", "succeeded", "failed", "uncertain"}

Positions ==
    {"idle", "sweep", "wait", "ask", "register", "held", "scope", "grant", "reuse",
     "launch", "slot", "begin", "work", "publish", "settle", "read",
     "turn", "load", "create", "mark", "enter", "pended", "failing", "over"}

AbsentJob == [state |-> "none", attempt |-> NoAttempt, scope |-> 0, approval |-> 0, cycle |-> 0,
              drag |-> 0]

Resting == [at |-> "idle", attempt |-> NoAttempt, scope |-> 0, seen |-> 0, row |-> 0, sweeping |-> FALSE]

SweepInit ==
    /\ status = "planning" /\ revision = 0 /\ cycle = 0
    /\ report = NoAttempt /\ remediations = 0 /\ adopted = {}
    /\ attempt = [a \in AttemptId |-> AbsentAttempt]
    /\ approval = [p \in ApprovalId |-> AbsentApproval]
    /\ engine = "plan"
    /\ plan = [matrix |-> FALSE, verify |-> FALSE, case |-> FALSE, crew |-> {}]
    /\ demand = FALSE
    /\ turn = [o \in Collectors |-> Resting]
    /\ scope = [p \in ApprovalId |-> 0]
    /\ registered = [p \in ApprovalId |-> "no"]
    /\ deciding = [p \in ApprovalId |-> "no"]
    /\ job = [j \in JobId |-> AbsentJob]
    /\ sealed = [a \in AttemptId |-> 0]
    /\ reuse = {}
    /\ stop = FALSE
    /\ budget = MaxMishaps

-----------------------------------------------------------------------------
(* Queries of the job table. *)

\* Rows are used in the order of their identities.
FreshAttempt == {a \in AttemptId : attempt[a].state = "none"
                    /\ \A b \in AttemptId : b < a => attempt[b].state # "none"}
FreshRow == {p \in ApprovalId : approval[p].state = "none"
                /\ \A q \in ApprovalId : q < p => approval[q].state # "none"}
FreshJob == {j \in JobId : job[j].state = "none"
                /\ \A k \in JobId : k < j => job[k].state # "none"}

Jobs == {j \in JobId : job[j].state # "none"}

\* ListRunEngineeringJobs: neither query sees a sealed research cycle.
LiveJobs == {j \in Jobs : attempt[job[j].attempt].state # "superseded"}

\* plannedXFOILScreeningRecords
ScreeningRecords == {j \in LiveJobs : job[j].scope \in Matrix}

CaseJobs == {j \in LiveJobs : job[j].scope = Case}

\* Variant: any sealed cycle will do.
SealedOnce(a) == sealed[a] > 0

\* The join of RemediationEngineeringResults: the seal of the attempt carries
\* the timestamp of the remediation.
SealedLast(a) == sealed[a] = remediations

\* RemediationEngineeringResults of the owner's general cases.
SealedCaseJobs ==
    {j \in Jobs : /\ job[j].scope = Case
                  /\ attempt[job[j].attempt].state = "superseded"
                  /\ attempt[job[j].attempt].ordinal = Owner
                  /\ SealedLast(job[j].attempt)}

\* collectWorkstream and planning look for receipts to read back only when the
\* remediation asks for no new solver execution.
ReadsBack == remediations > 0 /\ ~demand

\* reusableGeneralSU2Cases
Reusable == IF ReadsBack THEN SealedCaseJobs ELSE {}

Succeeded(jobs) == \A j \in jobs : job[j].state = "succeeded"

\* generalSU2CaseSetForRemediation
ReusableIsWhole == Succeeded(Reusable) /\ Cardinality(Reusable) <= 1

\* EngineeringReceiptReadbackOnly
ReadbackOnly(a) == InProgress(a) /\ \E j \in JobId : <<a, j>> \in reuse

\* SucceededEngineeringJobForApprovalScope
Replays(a, s) ==
    \E j \in Jobs : job[j].attempt = a /\ job[j].scope = s /\ job[j].state = "succeeded"

-----------------------------------------------------------------------------
(* Transactions of the job table, and the guards other tables get here. *)

\* requireXFOILScreeningApprovalOwner
OwnsScope(a, s) == s \in Matrix => attempt[a].ordinal = Owner

\* rejectDuplicateXFOILScreeningApproval: the same cell under way or done.
Duplicate(s) ==
    /\ s \in Matrix
    /\ \E p \in ApprovalId :
        /\ approval[p].state \in {"pending", "approved"} /\ approval[p].kind = "solver"
        /\ scope[p] = s
        /\ attempt[approval[p].attempt].state # "superseded"
        /\ \/ approval[p].state = "pending"
           \/ \A j \in Jobs : job[j].approval # p
           \/ \E j \in Jobs : job[j].approval = p /\ job[j].state # "failed"

MayCreateScoped(a, s) == MayCreateApproval(a) /\ OwnsScope(a, s) /\ ~Duplicate(s)

\* CreateApproval of a solver call
CreateScoped(p, a, s) ==
    /\ MayCreateScoped(a, s)
    /\ CreateApproval(p, a, "solver")
    /\ scope' = [scope EXCEPT ![p] = s]

Running == {j \in Jobs : job[j].state = "running"}

\* Variant: a job that failed may be tried again.
IdenticalUnlessFailed(a, s) ==
    {j \in Jobs : job[j].attempt = a /\ job[j].scope = s /\ job[j].state # "failed"}

Identical(a, s) == {j \in Jobs : job[j].attempt = a /\ job[j].scope = s}

ApprovedFor(a, s) ==
    {p \in ApprovalId : approval[p] = [state |-> "approved", attempt |-> a, kind |-> "solver"]
                        /\ scope[p] = s}

\* The admission of BeginEngineeringJob that inserts a running job.
Admissible(a, s, others) ==
    /\ OwnsScope(a, s)
    /\ Identical(a, s) = {}
    /\ ApprovedFor(a, s) # {}
    /\ Cardinality(Running) + others < MaxSlots
    /\ InProgress(a) /\ attempt[a].stage = "collect"
    /\ status \in {"collecting", "waiting_approval"}
    /\ ~FailedCollectorExists

AdmitJob(j, a, s, others) ==
    /\ Admissible(a, s, others)
    /\ \E p \in ApprovedFor(a, s) :
        /\ BeginEngineeringJob(a, p)
        /\ job' = [job EXCEPT ![j] = [state |-> "running", attempt |-> a, scope |-> s,
                                      approval |-> p, cycle |-> remediations, drag |-> 0]]

FailEngineeringJob(j) == job[j].state = "running" /\ job' = [job EXCEPT ![j].state = "failed"]

CompleteEngineeringJob(j, d) ==
    job[j].state = "running" /\ job' = [job EXCEPT ![j].state = "succeeded", ![j].drag = d]

-----------------------------------------------------------------------------
(* The deterministic winner of a sweep: recomputeXFOILSweep. *)

\* xfoilTargetWins: the lower drag, then the smaller deflection.
Wins(j, k) ==
    \/ job[j].drag < job[k].drag
    \/ job[j].drag = job[k].drag /\ job[j].scope <= job[k].scope

Feasible == {j \in ScreeningRecords : job[j].state = "succeeded" /\ job[j].drag > 0}

\* A sweep with a job under way, or with less than two candidates, has no winner.
SweepIsSettled ==
    /\ \A j \in ScreeningRecords : job[j].state \in {"succeeded", "failed"}
    /\ Cardinality({j \in ScreeningRecords : job[j].state = "succeeded"}) >= 2

Winners == IF SweepIsSettled THEN {j \in Feasible : \A k \in Feasible : Wins(j, k)} ELSE {}

\* validateIndependentXFOIL
VerifiesWinner(a, s) ==
    /\ attempt[a].ordinal = Verifier
    /\ \E j \in Winners : job[j].scope = s - Cells

-----------------------------------------------------------------------------
(* Control of a collector. *)

At(o, where) == turn[o].at = where

Held(o) == turn[o].attempt

Goes(o, where) == turn' = [turn EXCEPT ![o].at = where]

\* A sibling's failure or the user's cancellation ends the worker context.
Stopping == stop \/ \E o \in Collectors : turn[o].at \in {"failing", "over"}
                        /\ turn[o].attempt # NoAttempt /\ attempt[turn[o].attempt].state # "completed"

\* Nothing is kept of what the collector was at.
Leaves(o, where) == turn' = [turn EXCEPT ![o] = [Resting EXCEPT !.at = where, !.attempt = Held(o)]]

Fails(o) == Leaves(o, "failing")

Mishap == budget > 0 /\ budget' = budget - 1

tablesKept == UNCHANGED <<job, sealed, reuse>>
memoryKept == UNCHANGED <<registered, deciding>>
aroundKept == UNCHANGED <<runVars, stop>>

\* The steps that touch one collector only.
Alone == UNCHANGED <<storeVars, scope, budget>> /\ tablesKept /\ memoryKept /\ aroundKept

CompletedCollector(o) ==
    \E a \in AttemptId : attempt[a].stage = "collect" /\ attempt[a].ordinal = o
                          /\ attempt[a].state = "completed"

\* runStageWithBeforeTurn up to the hook the owner's plan asks for.
BeginCollector(o) ==
    /\ IF o = Verifier THEN engine = "verify" ELSE engine = "collect" /\ o \in plan.crew
    /\ At(o, "idle") /\ ~CompletedCollector(o) /\ ~Stopping
    /\ \E a \in FreshAttempt :
        /\ BeginStage(a, "collect", o)
        /\ turn' = [turn EXCEPT ![o] =
             [Resting EXCEPT !.attempt = a,
                             !.at = IF o # Owner THEN "turn"
                                    ELSE IF Reusable # {} THEN "reuse"
                                    ELSE IF plan.matrix THEN "sweep" ELSE "turn"]]
    /\ UNCHANGED <<scope, budget>> /\ tablesKept /\ memoryKept /\ aroundKept

\* AuthorizeEngineeringReceiptReuses
AuthorizeReuse(o) ==
    /\ At(o, "reuse")
    /\ reuse' = reuse \cup {<<Held(o), j>> : j \in Reusable}
    /\ Leaves(o, "turn")
    /\ UNCHANGED <<storeVars, scope, budget, job, sealed>> /\ memoryKept /\ aroundKept

\* failStage: a failure of its own closes the run, a cancelled one only itself.
CloseFailed(o) ==
    /\ At(o, "failing")
    /\ IF InProgress(Held(o))
       THEN IF stop \/ FailedCollectorExists
            THEN CompleteStage(Held(o), "failed")
            ELSE FailCollectStageAndQuiesceRun(Held(o))
       ELSE UNCHANGED storeVars
    /\ Leaves(o, "over")
    /\ UNCHANGED <<scope, budget>> /\ tablesKept /\ memoryKept /\ aroundKept

-----------------------------------------------------------------------------
(* The matrix of the plan, before the owner's turn. *)

\* A sweep that crossed the solver boundary before is not replayed.
BeginSweep(o) ==
    /\ At(o, "sweep")
    /\ IF ScreeningRecords = {} /\ status = "collecting"
       THEN turn' = [turn EXCEPT ![o].at = "wait", ![o].seen = revision]
       ELSE Fails(o)
    /\ Alone

\* AuthorizeXFOILScreening takes the run to waiting at the revision it read.
WaitForMatrix(o) ==
    /\ At(o, "wait")
    /\ IF turn[o].seen = revision
       THEN TransitionRun(revision, "waiting_approval")
            /\ turn' = [turn EXCEPT ![o].at = "ask", ![o].seen = 0]
       ELSE UNCHANGED storeVars /\ Fails(o)
    /\ UNCHANGED <<scope, budget>> /\ tablesKept /\ memoryKept /\ aroundKept

\* The visible request carries cell one.  A refused one restores the run.
AskForMatrix(o) ==
    /\ At(o, "ask")
    /\ \/ \E p \in FreshRow :
            /\ CreateScoped(p, Held(o), 1)
            /\ turn' = [turn EXCEPT ![o].at = "register", ![o].row = p]
       \/ /\ ~MayCreateScoped(Held(o), 1)
          /\ IF ResumeCommits THEN ResumeRunAfterApproval("collecting") ELSE UNCHANGED storeVars
          /\ Fails(o) /\ UNCHANGED scope
    /\ UNCHANGED budget /\ tablesKept /\ memoryKept /\ aroundKept

RegisterMatrix(o) ==
    /\ At(o, "register")
    /\ registered' = [registered EXCEPT ![turn[o].row] = "core"]
    /\ Goes(o, "held")
    /\ UNCHANGED <<storeVars, scope, deciding, budget>> /\ tablesKept /\ aroundKept

StopWaiting(o) ==
    /\ At(o, "held") /\ Stopping
    /\ registered' = [registered EXCEPT ![turn[o].row] = "no"]
    /\ Fails(o)
    /\ UNCHANGED <<storeVars, scope, deciding, budget>> /\ tablesKept /\ aroundKept

\* The remaining cells get rows of their own, each created and then decided.
CreateCellScope(o) ==
    /\ At(o, "scope")
    /\ \/ \E p \in FreshRow :
            /\ CreateScoped(p, Held(o), turn[o].scope)
            /\ turn' = [turn EXCEPT ![o].at = "grant", ![o].row = p]
       \/ /\ Stopping \/ ~MayCreateScoped(Held(o), turn[o].scope)
          /\ UNCHANGED <<storeVars, scope>> /\ Fails(o)
    /\ UNCHANGED budget /\ tablesKept /\ memoryKept /\ aroundKept

\* Where the sweep goes after the row of a cell was granted.
AfterGrant(s) == IF s < Cells THEN [at |-> "scope", scope |-> s + 1] ELSE [at |-> "launch", scope |-> 1]

GrantCellScope(o) ==
    /\ At(o, "grant")
    /\ \/ /\ DecideApproval(turn[o].row, "approved")
          /\ turn' = [turn EXCEPT ![o].at = AfterGrant(turn[o].scope).at,
                                  ![o].scope = AfterGrant(turn[o].scope).scope, ![o].row = 0]
       \/ /\ Stopping \/ turn[o].row \notin Pending
          /\ UNCHANGED storeVars /\ Fails(o)
    /\ UNCHANGED <<scope, budget>> /\ tablesKept /\ memoryKept /\ aroundKept

\* executePlannedXFOILScreening stops at the first cell that fails.  A call of
\* the turn itself only gets an error for an answer.
AfterCell(o, ok) ==
    IF ~turn[o].sweeping THEN [at |-> "turn", scope |-> Case]
    ELSE IF ~ok THEN [at |-> "failing", scope |-> Case]
    ELSE IF turn[o].scope < Cells THEN [at |-> "launch", scope |-> turn[o].scope + 1]
    ELSE [at |-> "turn", scope |-> Case]

Returns(o, ok) ==
    turn' = [turn EXCEPT ![o] = [Resting EXCEPT
                !.at = AfterCell(o, ok).at, !.attempt = Held(o), !.scope = AfterCell(o, ok).scope,
                !.sweeping = AfterCell(o, ok).at = "launch"]]

-----------------------------------------------------------------------------
(* The calls a turn makes itself, through the router. *)

\* deniedEngineeringRetry: the tools are xfoil_polar and su2_cfd.
DeniedBefore(a, s) ==
    \E p \in ApprovalId :
        /\ approval[p] = [state |-> "denied", attempt |-> a, kind |-> "solver"]
        /\ (scope[p] = Case) = (s = Case)

\* The owner and the verifier call solvers, a sibling asks for anything else.
CallsSolver(o) == o \in {Owner, Verifier}

\* The verifier may ask for nothing but an independent verification
\* (validateEngineeringVerificationApproval).
Callable(o) ==
    CASE o = Owner -> IF plan.crew = Workstreams THEN CrewCallScopes ELSE CallScopes
      [] o = Verifier -> Verifications
      [] OTHER -> {Case}

\* A readback attempt gets no solver: the request is declined in the protocol.
OpenToSolver(a) == ~ReadbackOnly(a)

\* A call that already succeeded is accepted without asking: it can only read.
ReplayCall(o, s) ==
    /\ CallsSolver(o) /\ At(o, "turn") /\ ~Stopping
    /\ OpenToSolver(Held(o)) /\ Replays(Held(o), s)
    /\ turn' = [turn EXCEPT ![o].at = "launch", ![o].scope = s]
    /\ Alone

AsksUser(o, s) ==
    /\ At(o, "turn") /\ ~Stopping
    /\ CallsSolver(o) => OpenToSolver(Held(o)) /\ ~Replays(Held(o), s)

\* One denial is the whole answer of the user for a tool.
RetryDenied(o, s) ==
    /\ CallsSolver(o) /\ AsksUser(o, s) /\ DeniedBefore(Held(o), s)
    /\ FailCollectStageAndQuiesceRun(Held(o))
    /\ Fails(o)
    /\ UNCHANGED <<scope, budget>> /\ tablesKept /\ memoryKept /\ aroundKept

\* A run that waits for a request this router does not hold refuses another.
RouterHolds == \E p \in ApprovalId : registered[p] = "router"

LoadRun(o, s) ==
    /\ AsksUser(o, s)
    /\ CallsSolver(o) => ~DeniedBefore(Held(o), s)
    /\ status = "waiting_approval" => RouterHolds
    /\ turn' = [turn EXCEPT ![o].at = "create", ![o].scope = s,
                            ![o].seen = IF status = "waiting_approval" THEN 0 ELSE revision]
    /\ Alone

CreateRequest(o) ==
    /\ At(o, "create")
    /\ \/ \E p \in FreshRow :
            /\ IF CallsSolver(o) THEN CreateScoped(p, Held(o), turn[o].scope)
               ELSE CreateApproval(p, Held(o), "external") /\ UNCHANGED scope
            /\ turn' = [turn EXCEPT ![o].at = IF turn[o].seen = 0 THEN "enter" ELSE "mark", ![o].row = p]
       \/ /\ IF CallsSolver(o) THEN ~MayCreateScoped(Held(o), turn[o].scope) ELSE ~MayCreateApproval(Held(o))
          /\ UNCHANGED <<storeVars, scope>> /\ Leaves(o, "turn")
    /\ UNCHANGED budget /\ tablesKept /\ memoryKept /\ aroundKept

\* The row exists already when the transition turns out to come too late.
MarkWaiting(o) ==
    /\ At(o, "mark")
    /\ IF turn[o].seen = revision /\ CanTransition(status, "waiting_approval")
       THEN TransitionRun(revision, "waiting_approval")
            /\ turn' = [turn EXCEPT ![o].at = "enter", ![o].seen = 0]
       ELSE UNCHANGED storeVars /\ Leaves(o, "turn")
    /\ UNCHANGED <<scope, budget>> /\ tablesKept /\ memoryKept /\ aroundKept

EnterRequest(o) ==
    /\ At(o, "enter")
    /\ registered' = [registered EXCEPT ![turn[o].row] = "router"]
    /\ Goes(o, "pended")
    /\ UNCHANGED <<storeVars, scope, deciding, budget>> /\ tablesKept /\ aroundKept

\* A turn ends by itself, or is interrupted with its worker context.
TurnFails(o) ==
    /\ turn[o].at \in {"turn", "pended"}
    /\ \/ Stopping /\ UNCHANGED budget
       \/ At(o, "turn") /\ Mishap
    /\ Fails(o)
    /\ UNCHANGED <<storeVars, scope>> /\ tablesKept /\ memoryKept /\ aroundKept

-----------------------------------------------------------------------------
(* The decision of the user: first the row, then the run, then the waiter. *)

\* CombinedController sends a decision to whoever registered the row.
Decide(p, decision) ==
    /\ registered[p] # "no" /\ deciding[p] = "no"
    /\ DecideActiveApproval(p, decision)
    /\ IF Decidable(p)
       THEN deciding' = [deciding EXCEPT ![p] = decision] /\ UNCHANGED registered
       ELSE registered' = [registered EXCEPT ![p] = "no"] /\ UNCHANGED deciding
    /\ UNCHANGED <<turn, scope, budget>> /\ tablesKept /\ aroundKept

\* ResumeRunAfterApproval returns an error unless the run waits with a live turn.
Restorable == status = "waiting_approval" /\ (Pending # {} \/ Active # {})

\* Variant: the authoriser does not look at what the user said.
CoreGoesOnAnyway(decision) == TRUE

CoreGoesOn(decision) == decision = "approved"

\* What the goroutine that waits for row p does with the answer.
Answered(p, o, restored) ==
    CASE registered[p] = "core" /\ At(o, "held") ->
           IF ~restored \/ ~CoreGoesOn(deciding[p]) THEN Fails(o)
           ELSE turn' = [turn EXCEPT ![o].at = AfterGrant(1).at, ![o].scope = AfterGrant(1).scope,
                                     ![o].sweeping = TRUE, ![o].row = 0, ![o].seen = 0]
      [] registered[p] = "router" /\ At(o, "pended") ->
           IF restored /\ deciding[p] = "approved" /\ CallsSolver(o)
             THEN turn' = [turn EXCEPT ![o].at = "launch", ![o].row = 0, ![o].seen = 0]
           ELSE IF restored THEN Leaves(o, "turn") ELSE UNCHANGED turn
      [] OTHER -> UNCHANGED turn

RestoreAndAnswer(p) ==
    /\ deciding[p] # "no"
    /\ IF ResumeCommits THEN ResumeRunAfterApproval("collecting") ELSE UNCHANGED storeVars
    /\ LET waiter == {o \in Collectors : turn[o].row = p}
       IN  IF waiter = {} THEN UNCHANGED turn ELSE \E o \in waiter : Answered(p, o, Restorable)
    /\ registered' = [registered EXCEPT ![p] = "no"]
    /\ deciding' = [deciding EXCEPT ![p] = "no"]
    /\ UNCHANGED <<scope, budget>> /\ tablesKept /\ aroundKept

-----------------------------------------------------------------------------
(* Service.execute of the call a collector is at. *)

CapabilityHolds(a) ==
    InProgress(a) /\ attempt[a].stage = "collect" /\ status \in {"collecting", "waiting_approval"}

\* A verification states its contract before it is admitted and again when it
\* has the project for itself.
ContractHolds(a, s) == CapabilityHolds(a) /\ (s \in Verifications => VerifiesWinner(a, s))

ValidateCapability(o) ==
    /\ At(o, "launch")
    /\ IF ContractHolds(Held(o), turn[o].scope) THEN Goes(o, "slot") ELSE Returns(o, FALSE)
    /\ Alone

\* Jobs of other projects come and go, and hold a slot while they do.
TakeSlot(o) ==
    /\ At(o, "slot")
    /\ \/ Goes(o, "begin")
       \/ Stopping /\ Returns(o, FALSE)
    /\ Alone

\* A job of the same attempt and spec is read back if it succeeded and refused
\* otherwise; a new one needs its own approved row, and a place among the jobs
\* that run: "others" of other projects do.
BeginJob(o) ==
    /\ At(o, "begin")
    /\ \E others \in 0..(MaxSlots - 1) : LET a == Held(o)
                                            s == turn[o].scope
       IN  \/ /\ \E j \in FreshJob : AdmitJob(j, a, s, others)
              /\ Goes(o, "work")
           \/ /\ ~Admissible(a, s, others)
              /\ IF \E j \in Identical(a, s) : job[j].state = "succeeded"
                 THEN Goes(o, "read")
                 ELSE Returns(o, FALSE)
              /\ UNCHANGED <<storeVars, job>>
    /\ UNCHANGED <<scope, budget, sealed, reuse>> /\ memoryKept /\ aroundKept

Current(o) == {j \in Identical(Held(o), turn[o].scope) : job[j].state = "running"}

\* The job of the call fails, of itself or with the context of its turn.
JobFails(o) ==
    /\ IF Stopping THEN UNCHANGED budget ELSE Mishap
    /\ \E j \in Current(o) : FailEngineeringJob(j)
    /\ Returns(o, FALSE)

ServiceKeeps == UNCHANGED <<storeVars, scope, sealed, reuse>> /\ memoryKept /\ aroundKept

\* XFOILPolar: a cell of the matrix, or its verification at a finer resolution.
WorkPolar(o) ==
    /\ At(o, "work") /\ turn[o].scope # Case
    /\ \/ /\ turn[o].scope \in Verifications => ContractHolds(Held(o), turn[o].scope)
          /\ Goes(o, "publish") /\ UNCHANGED <<job, budget>>
       \/ JobFails(o)
       \/ /\ turn[o].scope \in Verifications /\ ~ContractHolds(Held(o), turn[o].scope)
          /\ \E j \in Current(o) : FailEngineeringJob(j)
          /\ Returns(o, FALSE) /\ UNCHANGED budget
    /\ ServiceKeeps

\* SU2CFD
WorkCase(o) ==
    /\ At(o, "work") /\ turn[o].scope = Case
    /\ \/ Goes(o, "publish") /\ UNCHANGED <<job, budget>>
       \/ JobFails(o)
    /\ ServiceKeeps

\* publishFile of every output and of the receipt
Publish(o) ==
    /\ At(o, "publish")
    /\ \/ Goes(o, "settle") /\ UNCHANGED <<job, budget>>
       \/ JobFails(o)
    /\ ServiceKeeps

\* A completion that does not commit leaves the row running.
Settle(o) ==
    /\ At(o, "settle")
    /\ \/ /\ \E j \in Current(o) : \E d \in IF plan.verify /\ job[j].scope \in Matrix THEN Drags ELSE {0} :
                CompleteEngineeringJob(j, d)
          /\ Goes(o, "read") /\ UNCHANGED budget
       \/ /\ IF Stopping THEN UNCHANGED budget ELSE Mishap
          /\ Returns(o, FALSE) /\ UNCHANGED job
    /\ ServiceKeeps

\* validateIndependentXFOILReadback: a verification is held against the sweep
\* once more, whose winner must not have changed meanwhile.
ReadbackHolds(o) == turn[o].scope \in Verifications => VerifiesWinner(Held(o), turn[o].scope)

\* The receipt is read from its hash, whoever made it.
ReadCompleted(o) ==
    /\ At(o, "read")
    /\ \/ /\ ReadbackHolds(o)
          /\ Returns(o, TRUE) /\ UNCHANGED budget
       \/ /\ IF Stopping THEN UNCHANGED budget ELSE Mishap
          /\ Returns(o, FALSE)
    /\ UNCHANGED job /\ ServiceKeeps

-----------------------------------------------------------------------------
(* The end of the owner's turn. *)

\* Variant: what the matrix asked for is not counted.
AnyMatrix(a) == \A j \in ScreeningRecords : job[j].state = "succeeded"

\* validatePlannedXFOILScreeningCoverage
MatrixCovered(a) ==
    IF ~plan.matrix THEN ScreeningRecords = {}
    ELSE /\ \A s \in Matrix : Cardinality({j \in ScreeningRecords : job[j].scope = s}) = 1
         /\ \A j \in ScreeningRecords : job[j].state = "succeeded" /\ job[j].attempt = a

\* verifyPlannedSU2Cases looks at sealed receipts only when no case was run.
CaseReceipts == IF CaseJobs = {} /\ plan.case THEN Reusable ELSE CaseJobs

\* EngineeringReceiptEvidenceForCollector
MayCite(a, j) == job[j].attempt = a \/ <<a, j>> \in reuse

CaseCovered(a) ==
    IF ~plan.case THEN CaseReceipts = {}
    ELSE /\ Cardinality(CaseReceipts) = 1
         /\ \A j \in CaseReceipts : /\ job[j].state = "succeeded"
                                    /\ MayCite(a, j)

\* validateEngineeringVerificationBundle
VerificationHolds ==
    LET jobs == {j \in LiveJobs : attempt[job[j].attempt].ordinal = Verifier}
    IN  /\ Cardinality(jobs) = 1
        /\ \A j \in jobs : /\ job[j].state = "succeeded" /\ job[j].scope \in Verifications
                           /\ \E k \in ScreeningRecords : job[k].scope = job[j].scope - Cells
                                                        /\ job[k].state = "succeeded"

OutputIsAccepted(o) ==
    /\ o = Owner => MatrixCovered(Held(o)) /\ CaseCovered(Held(o))
    /\ o = Verifier => VerificationHolds

TurnEnds(o) ==
    /\ At(o, "turn") /\ ~Stopping
    /\ IF OutputIsAccepted(o)
       THEN CompleteStage(Held(o), "completed") /\ Leaves(o, "over")
       ELSE UNCHANGED storeVars /\ Fails(o)
    /\ UNCHANGED <<scope, budget>> /\ tablesKept /\ memoryKept /\ aroundKept

-----------------------------------------------------------------------------
(* The research cycle around the collectors. *)

\* The planner is given the reusable cases, and the plan then holds them.
PlanCycle ==
    /\ engine = "plan" /\ ~stop
    /\ IF ReusableIsWhole
       THEN /\ TransitionRun(revision, "collecting")
            /\ \E m, v, c \in BOOLEAN, crew \in IF remediations < CrewCycles THEN {{Owner}, Workstreams} ELSE {{Owner}} :
                 plan' = [matrix |-> m, verify |-> m /\ v /\ Cells >= 2, case |-> c \/ Reusable # {},
                          crew |-> crew]
            /\ engine' = "collect"
       ELSE QuiesceRun("failed") /\ engine' = "idle" /\ UNCHANGED plan
    /\ UNCHANGED <<demand, turn, scope, stop, budget>> /\ tablesKept /\ memoryKept

HasReturned(o) ==
    \/ At(o, "over")
    \/ At(o, "idle") /\ (Stopping \/ CompletedCollector(o))

CollectorsReturned == \A o \in plan.crew : HasReturned(o)

\* ensureEngineeringVerification looks at the coverage of the owner again.
Revalidated ==
    \A a \in AttemptId :
        attempt[a].state = "completed" /\ attempt[a].stage = "collect" /\ attempt[a].ordinal = Owner
        => MatrixCovered(a) /\ CaseCovered(a)

\* Only the sweep of one operating point has a winner to verify.
WantsVerification == plan.verify /\ ~CompletedCollector(Verifier)

BeginVerification ==
    /\ engine = "collect" /\ CollectorsReturned /\ ~Stopping
    /\ Revalidated /\ WantsVerification
    /\ engine' = "verify"
    /\ UNCHANGED <<storeVars, plan, demand, turn, scope, stop, budget>> /\ tablesKept /\ memoryKept

Collected == ~Stopping /\ Revalidated /\ (plan.verify => CompletedCollector(Verifier) /\ VerificationHolds)

\* Execute gives a run up that is not closed yet; the next stage needs it to be
\* collecting, so a run still waiting for an approval fails here.
EndCollection ==
    /\ engine \in {"collect", "verify"} /\ CollectorsReturned
    /\ IF engine = "verify" THEN HasReturned(Verifier) ELSE Stopping \/ ~WantsVerification
    /\ IF Collected /\ status = "collecting"
       THEN TransitionRun(revision, "synthesizing") /\ engine' = "write"
       ELSE /\ engine' = "idle"
            /\ IF status \in ClosedStatuses THEN UNCHANGED storeVars
               ELSE QuiesceRun(IF stop THEN "cancelled" ELSE "failed")
    /\ turn' = [o \in Collectors |-> Resting]
    /\ UNCHANGED <<plan, demand, scope, stop, budget>> /\ tablesKept /\ memoryKept

\* SYNTHESIZE and REVIEW are ReviewCycles' subject; here a review happens.
Review ==
    /\ engine \in {"write", "review"}
    /\ \/ engine = "write" /\ TransitionRun(revision, "reviewing") /\ engine' = "review"
       \/ engine = "review" /\ Active = {} /\ engine' = "review"
          /\ (\E a \in FreshAttempt : BeginStage(a, "review", 0))
       \/ /\ engine = "review" /\ engine' = "verdict"
          /\ \E a \in Active : CompleteStage(a, "completed")
    /\ UNCHANGED <<plan, demand, turn, scope, stop, budget>> /\ tablesKept /\ memoryKept

\* PrepareResearchRemediation: the seal marks the attempts of this cycle only.
Remediate(asks) ==
    /\ engine = "verdict"
    /\ PrepareResearchRemediation(revision, 0)
    /\ sealed' = [a \in AttemptId |->
          IF attempt[a].state # "superseded" /\ attempt'[a].state = "superseded"
          THEN remediations' ELSE sealed[a]]
    /\ demand' = asks
    /\ engine' = "plan"
    /\ plan' = [plan EXCEPT !.crew = {}]
    /\ UNCHANGED <<turn, scope, job, reuse, stop, budget>> /\ memoryKept

Cancel ==
    /\ engine \in {"collect", "verify"} /\ ~stop /\ Mishap
    /\ stop' = TRUE
    /\ UNCHANGED <<storeVars, runVars, turn, scope>> /\ tablesKept /\ memoryKept

\* The process dies while the collectors are at work, and the next one recovers.
Crash ==
    /\ engine \in {"collect", "verify"} /\ Mishap
    /\ RecoverInFlight
    /\ job' = [j \in JobId |->
          IF job[j].state = "running" THEN [job[j] EXCEPT !.state = "uncertain"] ELSE job[j]]
    /\ turn' = [o \in Collectors |-> Resting]
    /\ registered' = [p \in ApprovalId |-> "no"]
    /\ deciding' = [p \in ApprovalId |-> "no"]
    /\ stop' = FALSE
    /\ engine' = "down"
    /\ UNCHANGED <<plan, demand, scope, sealed, reuse>>

\* The explicit resume of an interrupted run, back to its missing collectors.
Resume ==
    /\ engine \in {"down", "prepared"} /\ status = "interrupted"
    /\ \/ engine = "down" /\ PrepareInterruptedRunForResume /\ engine' = "prepared"
       \/ engine = "prepared" /\ TransitionRun(revision, "collecting") /\ engine' = "collect"
    /\ UNCHANGED <<plan, demand, turn, scope, stop, budget>> /\ tablesKept /\ memoryKept

CollectorStep(o) ==
    \/ BeginCollector(o) \/ AuthorizeReuse(o) \/ CloseFailed(o)
    \/ BeginSweep(o) \/ WaitForMatrix(o) \/ AskForMatrix(o) \/ RegisterMatrix(o) \/ StopWaiting(o)
    \/ CreateCellScope(o) \/ GrantCellScope(o)
    \/ CreateRequest(o) \/ MarkWaiting(o) \/ EnterRequest(o)
    \/ ValidateCapability(o) \/ TakeSlot(o) \/ BeginJob(o)
    \/ WorkPolar(o) \/ WorkCase(o) \/ Publish(o) \/ Settle(o) \/ ReadCompleted(o)
    \/ TurnFails(o) \/ TurnEnds(o)

TurnStep(o) ==
    \E s \in Callable(o) : ReplayCall(o, s) \/ RetryDenied(o, s) \/ LoadRun(o, s)

EngineStep ==
    \/ PlanCycle \/ BeginVerification \/ EndCollection \/ Review
    \/ \E asks \in BOOLEAN : Remediate(asks)
    \/ Resume

SweepNext ==
    \/ \E o \in Collectors : CollectorStep(o) \/ TurnStep(o)
    \/ \E p \in ApprovalId : RestoreAndAnswer(p) \/ \E d \in {"approved", "denied"} : Decide(p, d)
    \/ EngineStep
    \/ Cancel \/ Crash

SweepSpec == SweepInit /\ [][SweepNext]_sweepVars

-----------------------------------------------------------------------------
(* Properties. *)

\* The rows and positions have their types.
SweepTypeOK ==
    /\ StoreTypeOK
    /\ engine \in {"plan", "collect", "verify", "write", "review", "verdict", "idle", "down", "prepared"}
    /\ plan \in [matrix : BOOLEAN, verify : BOOLEAN, case : BOOLEAN, crew : SUBSET Workstreams]
    /\ demand \in BOOLEAN /\ stop \in BOOLEAN
    /\ turn \in [Collectors -> [at : Positions, attempt : AttemptId \cup {NoAttempt}, scope : Scopes,
                               seen : 0..MaxRevision, row : ApprovalId \cup {0}, sweeping : BOOLEAN]]
    /\ scope \in [ApprovalId -> Scopes]
    /\ registered \in [ApprovalId -> {"no", "core", "router"}]
    /\ deciding \in [ApprovalId -> {"no", "approved", "denied"}]
    /\ job \in [JobId -> [state : JobStates, attempt : AttemptId \cup {NoAttempt}, scope : Scopes,
                          approval : ApprovalId \cup {0}, cycle : 0..MaxRemediations,
                          drag : Drags \cup {0}]]
    /\ sealed \in [AttemptId -> 0..MaxRemediations]
    /\ reuse \subseteq AttemptId \X JobId

\* A solver process is not launched twice for one call of a research cycle,
\* however often the process dies, the run is resumed, the model repeats its
\* call or the user approves it again.
CallRunsOnce ==
    \A j, k \in Jobs :
        j # k => <<job[j].scope, job[j].cycle>> # <<job[k].scope, job[k].cycle>>

\* An owner collector that is complete, in a cycle whose plan has a matrix,
\* rests on the whole of it: one succeeded job for every cell, and no other
\* screening job anywhere in the cycle.
SweepIsWhole ==
    \A a \in AttemptId :
        /\ attempt[a].state = "completed" /\ attempt[a].stage = "collect" /\ attempt[a].ordinal = Owner
        /\ plan.matrix /\ plan.crew # {}
        => /\ Cardinality(ScreeningRecords) = Cells
           /\ {job[j].scope : j \in ScreeningRecords} = Matrix
           /\ Succeeded(ScreeningRecords)

\* A cell nobody showed to the user is authorised only by the user's approval
\* of the matrix it belongs to: no denial, no cancellation and no decision on
\* a sibling's request lets the authoriser grant the rest.
GrantFollowsConsent ==
    \A p \in ApprovalId :
        /\ approval[p].state = "pending" /\ approval'[p].state = "approved"
        /\ registered[p] = "no"
        => \E q \in ApprovalId :
              /\ approval[q] = [state |-> "approved", attempt |-> approval[p].attempt, kind |-> "solver"]
              /\ scope[q] = 1 /\ q # p
MatrixNeedsConsent == [][GrantFollowsConsent]_sweepVars

\* The case a completed owner rests on was run by itself, or belongs to the
\* cycle that the latest remediation sealed; an older one is not mixed in.
ReceiptsAreCurrent ==
    \A a \in AttemptId :
        /\ attempt[a].state = "completed" /\ attempt[a].stage = "collect" /\ attempt[a].ordinal = Owner
        /\ plan.case /\ plan.crew # {}
        => \E j \in Jobs :
              /\ job[j].scope = Case /\ job[j].state = "succeeded"
              /\ \/ job[j].attempt = a
                 \/ <<a, j>> \in reuse /\ sealed[job[j].attempt] = remediations

\* Research that goes on to its report from a sweep of one operating point has
\* exactly one independent verification, and it is of the winner of the sweep
\* the report will be about.
VerifiedTheWinner ==
    engine \in {"write", "review", "verdict"} /\ plan.verify =>
        LET verified == {j \in LiveJobs : job[j].scope \in Verifications}
        IN  /\ Cardinality(verified) = 1 /\ Succeeded(verified)
            /\ {job[j].scope - Cells : j \in verified} = {job[j].scope : j \in Winners}

\* A run that waits for an approval has one the user can decide, or somebody
\* is still on the way to asking or answering.
WaitingIsAnswerable ==
    status = "waiting_approval" /\ ~Stopping =>
        \/ \E p \in Pending : registered[p] # "no"
        \/ \E p \in ApprovalId : deciding[p] # "no"
        \/ \E o \in Collectors : turn[o].at \in {"ask", "register", "enter", "failing"}
        \/ CollectorsReturned

\* A job that is running has a worker.
RunningHasWorker ==
    \A j \in Running : \E o \in Collectors : turn[o].at \in {"work", "publish", "settle"} /\ j \in Current(o)
=============================================================================
