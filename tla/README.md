# AetherOps: TLA+ models, model checking and proofs

AetherOps (Go, Windows) is a desktop workbench that runs long *research runs*:
a run is planned, collected by parallel Codex turns, synthesised, reviewed and
revised, with external actions that need an approval. Its hard part is not any
single step but what several goroutines, the user, an external App Server and
crashes do between the steps of one another, over one SQLite database and a
directory of files. This project models that part, checks it with TLC and proves
most of it with TLAPS.

Paths below are relative to `src/`; a bare package name is one of
`src/internal/`. `PROJECT.json` maps every definition of the models to the lines
it stands for and lists, under `hazards`, what is hard to test in this code, each
with its line and with the properties that would catch it going wrong.

## 1. The system

| part | state it keeps | operations | talks to | status |
|---|---|---|---|---|
| Run life cycle `core/state.go` | none (a table) | `CanTransition`, `IsTerminal`, `RecoveryStatus` | everyone | modelled |
| Repository `store/repository.go`, `research_remediation.go` | SQLite: `runs`, `stage_attempts`, `approvals`, adoption of outputs, remediation cycles | one immediate transaction per operation | all goroutines | the run's part |
| Engine `research/engine.go` | the goroutine of a run and one per collector; `quiesceOnce`; contexts; the run row it read last | `Execute`, plan, collect, synthesise, review, revise, `abort`, resume | repository, Codex | partly: contents left out |
| Checkpoint `research/checkpoint.go` | none: reads the completed attempts | `loadCheckpoint`, `resumePoint`, `validateResumeCycle` | repository | modelled |
| Approval router `approval/router.go` | `pending` map, one event loop | `handle` per request, `Decide` per click | repository, Codex, user | partly |
| Core authoriser `approval/core_authorizer.go` | the approvals of one planned matrix | authorise before a collector's turn starts | repository | modelled |
| Dispatcher `dispatch/dispatcher.go` | queue, maps of active runs under a mutex, a wake channel of capacity one, session locks | start, enqueue, cancel, discard, resume, reload, shutdown, chat | repository, engine | partly: no steering |
| Schedules `schedule/`, `store/schedules.go` | the cursor of each schedule, one firing per occurrence | tick, record missed, claim and insert, move the cursor | repository, dispatcher | modelled |
| Engineering jobs `store/engineering.go` | `engineering_jobs` and their approval scopes | admit, complete, fail, reuse, recover | engine, router, service | modelled |
| Engineering service `engineering/` | slots, one call per project, published artifacts | execute, publish, read back, verify | jobs, solvers | partly |
| Project tools `toolstudio/`, `store/tool_*.go` | packages, installations, grants, invocations, a tree of files | install, grant, reserve, launch, complete, recover | repository, files | partly |
| Runtime components `runtime/` | pointer, candidates with status, audits and the activation journal, all in files | stage, activate, commit forward, roll back, quarantine | files, feed | modelled |
| Memory `memory/`, `store/memory*.go`, `materials.go`, `cas/` | documents, chunks, active and shadow index, blobs and their registry | pin, index, forget, delete, re-index, activate, reconcile | repository, objects | modelled but for ranking |
| Knowledge `knowledge/`, `store/knowledge*.go` | generations, head, receipts of runs, ledger of edits | adopt a run, rebuild, edit, change ontology, recover | repository, files | partly |
| Codex client `codex/`, `integration/codex.go` | App Server process, pending calls, turns, tracked tool calls, offered requests | call, turn, interrupt, answer, close | engine, router | partly |
| Sessions and plan cycles `store/sessions.go`, `plan_cycles.go`, `api/server.go` | sessions with their thread, planning cycles | chat, plan, start research, delete | dispatcher, Codex | modelled |
| Evaluation, release and evidence `evalrunner/`, `evalgate/`, `releasegate/`, `*evidence/`, `cmd/` | journals, receipts, ledgers, each file written once | prepare, attach, verify, run cases, observe | files, HTTP API | partly |
| API, MCP server | almost none | validate and forward | all services | the handlers that talk, plan and start |
| Wiring `cmd/aetherops/main_windows.go` | the order of start and stop | recover, start, serve, shut down | all | partly |
| Report validation and rendering, desktop shell, browser, frontend | none that is durable | pure functions, platform I/O | – | not modelled |

How they interact. Nothing in the process owns a run: the engine's goroutines,
the router's loop, a goroutine per click, a goroutine per cancellation, the
dispatcher's clean-up and the recovery at start all write its row, and find out
about each other only through the row's `revision` and the conditions inside
each transaction. SQLite's `_txlock=immediate` makes each transaction atomic;
everything between two transactions of one actor is open to all others. The
components over files (runtime, tools, objects) have no transaction at all: a
journal, a marker or a row says how far they had got.

### What is hard, and what makes it correct

* **One external action, one truth** (engine, router, repository). A possible
  side effect is durable before Codex is released; the answer is what was
  decided; whatever ends the run, an action with an unknown outcome makes it
  `uncertain`, never an ordinary failure and never resumable.
* **One verdict** (engine, router, user, dispatcher). The actors that close a
  run race; the first verdict stands, and no approval remains that could
  revive the run.
* **One output** (engine, repository). The report that succeeds is the one that
  was reviewed, and only the outputs behind it reach project memory, after any
  number of revisions, remediations and resumes.
* **One run at a time, in order** (dispatcher). Also across a restart, an older
  row that appears late, and a cancellation.
* **Nothing twice** (jobs, tools, schedules, sessions, release): a solver call,
  a native process, an occurrence, a thread, an evaluation case is started at
  most once, whatever is retried, lost or left over by a crash.
* **Nothing half-done survives a restart** (runtime, memory, knowledge): an
  activation, an index or a generation replaces its predecessor whole or not at
  all.
* **Progress.** A turn whose caller waits returns, a run whose turn waits for an
  answer nobody gives still ends, a run that could start is started, a schedule
  catches up, and a start gets past its recovery.

## 2. Modules

```
RunStatus                   the table of statuses
  RunStore                  the durable run: every transaction, an arbitrary client
    RunStoreProofs
    ApprovalFlow            engine, collectors, router, user, dispatcher's clean-up, crash
      ApprovalFlowProofs    (EXTENDS RunStoreProofs too)
    ReviewCycles            plan, collect, synthesise, review, revise, remediate, resume
      ReviewCyclesProofs    (EXTENDS RunStoreProofs too)
    EngineeringSweep        the solver work of a run and its approvals
      EvidenceProofs        (EXTENDS RunStoreProofs too; and LiveEvidence)
Dispatcher                  the queue of several runs     SchedulingProofs
Schedules                   the tick and its cursor       SchedulingProofs
Conversations               sessions, plans, requests     WorkspaceProofs
ToolInvocations             installation, invocation      ProjectProofs
RuntimeSet                  the promise of the managed runtime
  RuntimeActivation         implements it over files      WorkspaceProofs
KnowledgeGraph              generations and their head    KnowledgeProofs
ProjectMemory               documents, indexes, blobs     ProjectProofs
CodexClient                 the App Server's client       ProjectProofs
ReleaseLedger               ledger, receipts, admission verifier
  EvaluationRun             evaluation runner and judge
  CandidateEvidence         local gates, black box, feed, incompatible host
    LiveEvidence            account, index, end-to-end, clean VM (EXTENDS both)   EvidenceProofs
MC*                         one instance for TLC of each
```

Two modules are abstract specifications that others are shown to implement:
**RunStore** (ApprovalFlow and ReviewCycles only take its transactions) and
**RuntimeSet** (the files of RuntimeActivation change one verified set for
another in a single step). Both refinements are proved; the runs `flow` and
`activation` also check them.

**RunStore** is what the repository promises: any client may issue any
transaction at any moment. Its variables are the columns that matter: `status`,
`revision` and `cycle` of the run, `report` (the attempt behind
`report_artifact_id`), the `attempt` and `approval` tables, `adopted` and
`remediations`. Each action is one Go function with its early returns as guards
and its UPDATEs as primed variables; an operation that returns an error changes
nothing, so it has no action of its own. A caller's `expectedRevision` is a
parameter. The negative physical ordinal of a superseded row is abstracted to
the uniqueness it frees (`StageIsFree`).

**ApprovalFlow** EXTENDS RunStore, so that its actors call the very same
transactions, and adds what each carries from one transaction to the next: the
engine's position (`engine`, `worker`, `outcome`), the two halves of `abort`
(`abort.at` = "read" then "commit", with the status and revision read),
`quiesceOnce` (`quiesced`), the contexts (`stopped`, `cancelled`), the router's
place in `handle` and the run it read (`router`), its map of pending requests
with the `prior` status of each (`registered`), each click's place in `Decide`
(`decider`), and the requests as Codex sees them (`request`).

| action | code |
|---|---|
| `StartRun`, `FinishPlan`, `FinishCollection` | `Execute`, `executeQueued`, `continueAfterPlan`, `continueCollection` with `transition` and its reload |
| `WorkerBegins` .. `CollectorReturns` | `runStageWithBeforeTurn`, `failStage`, and the goroutines of `collect` |
| `AbortReads`, `AbortCommits` | `abort`: `Run` and `ListStageAttempts`, then `TransitionRun` |
| `RouterTakes` .. `RouterWaits` | `handle`, one action per database call |
| `Decides`, `Resumes`, `Responds` and their failures | `Decide` |
| `CancelSignals`, `CancelQuiesces`, `FinishErroredRun` | `CancelRun`, `execute`, `finishErroredRun` |
| `RouterLosesAnswer`, `ShutdownBegins`, `Restart` | `router.Run` returns, the program shuts down, the next start runs `RecoverInFlight` |

`Asks` is Codex itself, modelled from what the router accepts: a live turn may
ask at any time, and a turn with an unanswered request does not succeed. The
kinds of request are those the router treats differently: "auto" (allowed by
policy, with an external effect), "planned" (a solver call the approved plan
authorises), "read_only", "external" (the decision writes the boundary) and
"solver" (the job's admission writes it).

**ReviewCycles** EXTENDS RunStore with the loop of the engine. Its variables are
the position (`engine`), the turns under way, and whether the process ended; the
engine's maps of reviews and revisions are not variables, for they hold the
outputs of the completed attempts of the current research cycle, which is what
the table says (`Completed`, `Reported`, `VerdictOf`). `Begin*` inserts a stage
with `runStageWithBeforeTurn`, `TurnStep` ends a turn, `ToRevise`, `Remediate`,
`Succeed`, `QualityFail` and `GiveOut` are the ways out of a review, `Abort` and
`Crash` the ways out of everything, and `ResumeRun`, `ResumeInterrupted` the
explicit resume: `CheckpointLoads`, `ResumeCycle`, `ResumeAction` and
`CycleMatches` are `loadCheckpoint`, `resumePoint` and `validateResumeCycle`.

**EngineeringSweep** EXTENDS RunStore with the owner collector that runs a
planned matrix of cells before its turn, a general case, a sibling's own call,
the verifier that repeats the winner, the job table, the service's slots, and
readback in later research cycles. An approval scope (the exact arguments of one
call) is a number. The places of `AuthorizeXFOILScreening` and
`Service.execute` are actions of their own, one per stretch in which another
actor can get in.

**Dispatcher** has several runs and keeps of each only what the dispatcher and
its queries tell apart (`run`: absent, queued, active, interrupted, uncertain,
closed), the queue, the maps of executing runs (`exec`), the requests between a
transaction and `enqueue` (`enqueuing`, `reload`), between the mutex and
`QuiesceRun` (`cancelling`), between leaving the maps and `finishErroredRun`
(`finishing`), the token of the wake channel and the loop. What an execution may
do to its row is every outcome ApprovalFlow's run may have (`ExecutedTo`), and
what a quiescing may do is `QuiescedTo`. `stamped` holds runs whose `created_at`
is taken and whose row is not inserted yet. `hushed` is a history variable.

**Conversations** has the rows of sessions, planning cycles, runs and schedules,
the App Server's threads and turns, and up to `Requests` HTTP handlers, each at
a place of `handleChat` or `handleSessionRunStart`: waiting for the session's
lock, creating the thread (`MarkConversationSessionProvisioning`,
`CreateMainThread`, `SetConversationSessionThreadIfEmpty`), in a turn, completing
the plan, inserting the run. Deleting, beginning a cycle and firing a schedule
do not take that lock, so they come between any two places.

**Schedules** has the rows of `schedules` and `schedule_firings` and the tick in
progress: `BeginTick` lists, `RecordMissed`, `QueueRun` (or `AlreadyClaimed`,
`ThreadLost`, `Refused`, `NothingToRun`) and `AdvanceCursor` are the three
transactions of `process` for one due schedule. A timetable is the set of its
occurrences; `Page` is one page of `occurrenceLimit`, `Chosen` what
`CoalesceMissed` leaves. Users enable, disable and delete at any moment.

**ToolInvocations** has package and installation rows, the tree of files a
package is materialised in, grants, invocation rows and up to `Call` calls in
progress, each at a place of `installPortable` or `RunPortableForStage`. A call
may outlive the turn that made it; `Restart` recovers what the process leaves.

**RuntimeSet** moves a release from unknown to verified, launched, retired or
rejected. **RuntimeActivation** has the files: pointer, journal with its phase,
candidate directories with their status, installed versions, audits. Every
write, rename or removal is an action; a start reconciles (`Reconcile`,
`CommitsForward`, `RollBack`), recovers what was interrupted, activates a pending
candidate (`BeginActivation` .. `RemoveJournal`) and serves; staging
(`CreateCandidate` .. `ProbeCandidate`) runs beside it.

**KnowledgeGraph** has generations, the head with its status, receipts of runs,
the ledger of edits and the documents that are adopted. One job at a time
(`AdoptRun`, `Rebuild`, `ApplyEdit`, `ActivateOntology`) goes through `ClaimHead`,
`CreateCandidate`, `CopyAndCurate`, `ProjectPatch`, `ApplyExtraction`,
`PublishSnapshot`, `Validate`, `BecomeReady` and `SwapHead`, under the mutation
guard; document changes, indexing and verification do not take it. The
recovery of a start is `ListAtStart` .. `RecoverHead`.

**ProjectMemory** has documents, the active and the shadow index, the blob
registry and the objects on disk. `PinMaterial`, `IndexRun`, `ReindexProject` and
the deletions are sequences of actions; `OpenStore`, `ReconcileBlobRegistry` and
`ReconcileObjects` are the start.

**CodexClient** has the child process with its three bounded channels (stdin,
`eventInput`, stdout), the reader, the event loop, the router's side, and the
callers, each at a place of `Turn` (or of `InterruptAll` for the browser's
hand-over). The App Server is external: it answers in any order, asks, and dies.

**ReleaseLedger**, **EvaluationRun**, **CandidateEvidence** and **LiveEvidence**
are the release gate: ledgers and receipts as contents, written once
(`Prepare`, `AttachEvidence`, `VerifyGate`); the runner with its journal, whose
cases are submitted over HTTP with an answer that may be lost; the producers,
each of which seals what it is about, observes and seals again (`Begin`,
`Observe`, `Finish*`) while candidate and source tree may change.

## 3. Model checking

| run | instance | distinct states | asks |
|---|---|---|---|
| `flow` | PLAN and two collectors, a request of any kind by any of them and the repetition of a denied one, 1 crash, 1 fault, 1 failed preparation | 772 000 | the approval protocol, the refinement of RunStore, and that the run settles |
| `dispatcher` | two runs of one project, the second scheduled, two slots shared with other projects, one `CancelRun` at a time | 817 000 | order, exclusion, wake-ups |
| `review` | one run with 2 workstreams, 1 revision, 1 remediation, 2 plan attempts, 1 crash, 1 failing turn, 2 external actions | 340 000 | what succeeds was reviewed, what a crash leaves can be resumed, the engine returns |
| `engineering` | a matrix of two cells, a general case, a sibling's call, the verifier, up to three research cycles, 1 mishap | 2 380 000 | nothing runs twice, no part passes for the whole |
| `activation` | three releases of two components, 3 crashes | 15 000 | the refinement of RuntimeSet, what is served, starts |
| `tools` | two versions of a tool, an attempt and its successor, two concurrent calls, 2 installs, 1 fault | 1 910 000 | native code runs once |
| `knowledge` | two runs, an edit, a document, an ontology change, 1 mishap | 1 820 000 | patches, swaps, recovery |
| `memory` | three documents, two contents, two indexes, a run, 2 crashes | 710 000 | the active index, the referenced objects |
| `schedule` | one schedule of each shape, five instants, pages of two, 2 faults | 230 000 | no occurrence vanishes, and catching up |
| `codex` | a turn with two like tool calls and an elicitation, a hand-over, pipes of one | 512 000 | whose result a caller gets, and that it returns |
| `conversations` | two sessions, two requests, runs and a schedule, five acts | 723 000 | threads, and which plan runs |
| `release` | thirteen gates in eight groups, two builds, two trees, three ledgers, two sessions | 2 420 000 | what an admission rests on |

**Bounds.** Every bound is a named constant. Sizes: two collectors are enough
because collectors meet only in the run's row and in "is there another one"; two
runs of a project because the dispatcher compares pairs; two cells and three
collectors because a matrix has cells that are first and last, an owner, a
sibling and a verifier; two releases that share a tree and one that does not,
because components are shared by version. Two like items are the least for which
`uniqueUnboundCall` has to refuse. Rare events have a budget: `MaxCrashes`,
`MaxFaults` (a failing turn, transaction or connection), `MaxPrepErrors` (a stage
that fails before it has a row), `MaxMishaps` (either), `MaxCancels`. Three
crashes in `activation` reach a crash in the recovery of a recovery. Counters:
`MaxRevision` caps `runs.revision` and is above the longest run of each
instance (`MaxRunChanges` in `release`); `MaxRevisions`, `MaxRemediations` and `MaxPlanAttempts` are the
code's own limits; `MaxGenerations`, `MaxOntology`, `MaxInstalls`, `MaxActs`,
`MaxRuns` and `CrewCycles` stop what users may repeat for ever. `CrewCallScopes`
leaves out that an owner calls a cell of the matrix itself while a sibling is at
work: a sibling has no cells, and the call is tried without one. `Horizon`,
`Window` and `PageSize` are scaled down together: an occurrence expires before
the horizon, and a backlog has more than one page. `PipeSize`, `InputSize` and
`OutputSize` of one make every channel full at once. In `release` the gates come
in groups (`MCPolicies`) of those whose evidence bears on each other; `MaxBuilds`
and `MaxTrees` of two let the candidate or the tree change once between any two
steps, `MaxPrepares`, `MaxLedgers`, `MaxReceipts`, `MaxSets`, `MaxSessions` and
`MaxReindexes` are what is needed to mix up evidence of two origins. The proofs of section 4 lift all
of these for what they cover.

Symmetry is used only in runs without liveness (`memory`, `tools`). Deadlock is not
checked (`CHECK_DEADLOCK FALSE`) where the system rightly ends: a run that is
closed, a budget of acts that is spent, a client that was closed, an admission
that was given.

**Fairness.** It is what the code's scheduling gives, and no more.
`FairFlowSpec`: the engine's steps, the tail of `execute`, and each collector
leaving the state it is in (goroutines run, a database call returns,
`turnTimeout` ends a turn whatever Codex does); nothing of the user, the router
or Codex, so `RunSettles` says that none of them can keep a run in flight.
`FairDispatchSpec`: the loop, the ticker's reload, the tail of `execute` and of a
request under way; executions may take for ever and users owe nothing; `StartOne`
is fair apart from `StartElsewhere` because only finitely many items come before
a startable one. `ReviewSpec`: the engine's goroutine. RuntimeActivation's
`FairSpec`: a process that stopped is started again, and a process takes its
next step. KnowledgeGraph's: the start, the recovery and the job under way, which are
one goroutine until the program is open.
`FairScheduleSpec`: `runScheduler` ticks every minute. CodexClient's: the
client's goroutines, `turnTimeout`, and an App Server that reads its stdin.

### Where the code does not do what it says

The runs above hold. The following do not, and are kept out of the list of runs,
which all pass; each was found by TLC. The ones with a configuration here are
repeated by running it; for the others, add the property to the configuration
named.

| what | how to see it |
|---|---|
| Two decisions recorded concurrently: the first resume returns the run to its stage, the second finds nothing to resume and `Decide` drops the request; the live turn that asked is never answered. | `DecidedRequestIsAnswered` in `MCApprovalFlow.cfg` |
| The router reads a waiting run, a sibling's decision resumes it, and the router offers its new request without making the run wait again; the decision is then refused as no longer active. | `OfferedRequestIsWaitedFor` in `MCApprovalFlow.cfg` with `Repeats = {}`, `AskingTurns = {c0, c1}` and `AskedKinds = {"external"}` |
| A crash between the failure of a stage and the abort of its run: recovery looks only at in-progress attempts and offers the run for resumption although an external outcome is unknown. | `MCLostOutcome.cfg` |
| `abort` reads the attempts and then swaps the status under the run's revision, which marking an attempt external does not advance. It needs a collector that fails before its stage has a row. | `MCAbortRace.cfg` |
| Cancelling the interrupted run that blocks its project does not wake the loop, unlike discarding it. | `MCSilentCancel.cfg` |
| A turn that is interrupted by the browser's hand-over ends in `failStage`; the run becomes `interrupted`, but its failed row makes every explicit resume refuse (`checkpoint.go:55`, `docs/VERIFICATION.md:44`). | `InterruptedRunIsResumed` in `MCReviewCycles.cfg` |
| A crash between marking a candidate quarantined and moving it, or between `Mkdir` and the first save of `candidate.json`, makes every later start fail (`docs/VERIFICATION.md:9`); so do two pending candidates (`updater.go:76`). | `MCBlockedStart.cfg` |
| A turn whose context ends before the child has read `turn/start` is invisible to the sweep that follows (`integration/codex.go:588-594`). | `MCOrphanTurn.cfg` |
| `Close` waits for `writeMu`, which a writer holds while the pipe is full (`client.go:905`, `985-1001`). | `MCStuckClose.cfg` |
| `AdoptRun` crashes before its head swap; at the next start `RecoverSchemaOnlyHeads` makes the old head ready first and `PendingSucceededRunAdoptions` skips the run (`store/adoption.go:93-95`). | `MCStrandedPatch.cfg` |
| The router's row is orphaned by a `MarkWaiting` that loses; the core authoriser's resume sees it pending and leaves the run waiting with nothing to decide. | `MCUnansweredWait.cfg` |
| A deleted session may be left with recoverable work or an enabled schedule; a turn of a conversation may begin while its session is at work on research. | `DeletedSessionHasNoWork`, `NoTurnDuringResearch` in `MCConversations.cfg` |

Further properties were checked during development and are not in the runs,
which ask each question once; each may be added to its configuration: every
`*TypeOK`, `QueueIsSound` and `ActiveRunIsOwned` (Dispatcher), `RunsAndReindexExclude`
(ProjectMemory), `CrashedAdoptionIsFinished` with no crash (KnowledgeGraph),
`RunsFireForward` (Schedules), `MirrorsOldestSession` and `OnlyTheLatestPlanRuns`
(Conversations), `VerifiedTheWinner` (EngineeringSweep), `NoRequestIsDropped`
(CodexClient), `ReadyToolIsInPlace` (ToolInvocations), `AuditsNameThePointer` and
`ReleaseIsFetchedOnce` (RuntimeActivation), `GivenOutOnlyWhenExhausted`
(ReviewCycles), `EvidenceSawWhatItNames` and `LiveRunFollowsEvaluation`
(release; both are proved).

## 4. Proofs

Checked by TLAPS, for every value of the constants that satisfies the named
assumptions of the modules (sets are sets, bounds are naturals, collectors have
distinct ordinals): any number of attempts, approvals, collectors, requests,
runs, releases, tools, schedules, cycles, generations, crashes and faults. A theorem about a
run's property shows in general what the run shows on its instance.

The shape is the same everywhere: an inductive invariant that is a conjunction of
named parts, a lemma per action (or per group of actions that do the same to the
state), a step lemma that splits the next-state relation, and theorems whose last
step is temporal. Each inductive invariant was checked by TLC on an instance
before it was proved.

* **RunStoreProofs**. `TypeCorrect`, `ClosedRunHasNoOpenApproval`,
  `OnlyCurrentOutputIsAdopted`, `RevisionIsSound`, `BoundaryIsGuarded`,
  `ExternalWorkIsNotRepeated`. Two state invariants are inductive together with
  `StoreTypeOK`, because each transaction that closes a run retires its requests
  and each that succeeds it sets report and adoption together; the action
  properties follow from the step alone. `ExternalWorkIsTriedOnce` needs
  `PlacesInv`: a place (stage and ordinal) holds at most one row that was not set
  aside, and a row that crossed its boundary is set aside only together with its
  whole research cycle.
* **ApprovalFlowProofs**, in four parts. (1) `FlowTypeCorrect` and
  `FlowImplementsStore` (`FlowSpec => StoreSpec`), so that
  `FlowKeepsStorePromises` transfers all of the above. A step of an actor is not a
  store transaction by its shape alone: an abort commits a status it chose
  earlier, a click resumes to a status recorded when the request was registered,
  the planned path decides an approval it created. `FlowInv` says what these
  carried values may be: `AbortIsSound`, `CrewIsSound`, `RequestsAreSound`,
  `HandledIsSound`, `PriorIsActive`, `SnapshotIsSound` (while the revision the
  router read is current, so is the status it read). (2) `ReleaseFollowsBoundary`
  and `AnswerIsTheDecision`: what the router or a click holds between two
  transactions is tied to its row by `AnswerInv` (`ScopesAreDurable`,
  `RowsMatchRequests`, `HeldIsOpen`, `PlaceIsSound`, `AnswersAreSound`). (3)
  `FirstVerdictStands`: an abort chooses its status before it writes it, and
  `VerdictInv` says why its compare-and-swap is enough (`AbortReadIsSound`,
  `AbortIsOwned`, `CollectorAbortsForFailure`, `BusyInStage`, `InterruptedIsOver`).
  (4) `OrdinaryEndIsClean` and `ResumableRunIsClean`: `EndInv` follows a boundary
  from its row to the end of the run (`QueuedIsFresh`, `PlanComesFirst`,
  `RowsFollowWorkers`, `OpenIsLive`, `AbortSawEveryBoundary`).
* **ReviewCyclesProofs**. `ReviewImplementsStore` (`ReviewSpec => StoreSpec`) gives
  `ReviewedWorkIsNotRepeated` and `ReviewedOutputIsAdopted`; `SuccessIsReviewed`,
  `CheckpointIsLeft`, `EndIsHonest` and `GivenOutIsExhausted` come from
  `ReviewInv`: every row stands in its place and turn and a completed review
  names a report that is there (`TableInv`), what may be open and what is complete
  in each position of the engine (`PositionInv`, `EngineKnows`), what a restart
  leaves (`RecoveredRows`), and how runs end. The proof found that `ResumeAction`,
  then a CASE, had overlapping guards: `CASE` leaves open which applies, while
  the code tests them in order. It is a conditional now, like the code.
* **SchedulingProofs**, of two modules. Dispatcher: `DispatchInv`: `RowTypes`, `OneGoroutinePerProject`,
  `LeftRunsAreAlone`, `OlderRunsWait`. Gives `OneRunOfAProject`, `NoRunIsLeftBehind`
  and `OlderWorkComesFirst` (an action property); `NoMoreRunsThanSlots` apart.
  Schedules: a tick works on a schedule in three transactions, between
  which users, time and the end of the process come. `SchedulesInv`: cursors stand
  on occurrences (`RowsAreSound`), the items of a tick still name the cursors
  they were listed with (`ItemsAreCurrent`), what the tick has gone through has
  its firings (`WorkIsRecorded`), and runs queued before lie behind
  (`RunsAreBehind`). Gives `OccurrencesDoNotVanish` and `NoOccurrenceRunsTwice`. The
  lemmas about pages (`FirstLemma`: the first `PageSize` members of a set are all of
  it, or leave a later one) and about the latest occurrence (`ChosenLemma`) say why
  moving the cursor past a page loses nothing.
* **ProjectProofs**, of three modules. ToolInvocations: `InstallInv` (`OneLiveInstall`, `InstallIsOwned`,
  `TreeIsPublished`, `ReadyToolIsInPlace`) and `RunInv` (`WorkHasOneOwner`,
  `FreeIsClean`, `InvocationIsMarked`, `RanIsRecorded`, `LaunchIsFresh`). Gives
  `NativeCodeRunsOnce` and `ReadyToolsAreInPlace`.
  ProjectMemory: `MemoryInv` answers two questions. The index:
  `ActivateShadowIndex` counts vectors and trusts the count; that is enough
  (`CountIsEnough`) because a shadow holds vectors of ready documents only
  (`ShadowIsClean`), and documents stand still while one is filled
  (`RunsAndReindexExclude`). The store: between a write and its registration the
  object must stay (`WritesSurvive`), which holds because objects are unlinked only at
  a start, when no call is in flight (`RestIsIdle`), and only outside a list that is
  still the truth (`ReachableIsCurrent`). Gives `IndexIsComplete`, `ReferencedIsKept`
  and `RunsAndReindexAreApart`.
  CodexClient: the client and the App Server know each other by what is in the
  pipes, so both invariants speak of messages on their way and of their order.
  `TurnInv`: a turn's call is written once and unread while the turn is unknown
  (`StartedOnce`); what the App Server said of a turn is on its way or recorded, and
  nothing follows the notification of its end (`NewsAreSound`); a caller has the
  result of its own turn. `OfferInv`: a request is on its way once, and only if it was
  asked (`RequestsAreAsked`); the end of a call is on its way only when it is over
  (`ToolsAreSound`); a call that is under way and was not asked about is tracked when
  the reader has read all that is on its way (`RunningIsTracked`), and the subject of a
  request when it has read what precedes the request (`SubjectIsTracked`): so the
  subject is always among the calls the client may bind, a like call makes the match
  ambiguous, and a unique match is the subject.
  Gives `TurnsAnswerTheirCallers` and `OffersNameTheirCalls`. The latter has a
  hypothesis about Codex, which is external: it asks for approval of a call at most
  once (`OneApprovalPerCall`, true of the instance TLC checks). The client presumes it,
  see section 5.
* **KnowledgeProofs**. The guard keeps jobs apart only while the process lives, and a
  crash leaves a candidate in the table, so the invariant speaks of every row.
  `KnowledgeInv`: `OneReceipt` (at most one usable generation has a run's receipt),
  `JobIsSound` (an adoption began when no receipt was usable, and its candidate is
  what its step says it is; from the copy on it holds all that the head holds and
  the edits that wait), `RowsAreSound` (what may be read off a row whoever left it: a
  rebuild's row, which alone a later rebuild activates, has no receipt), `HeadIsSound`,
  `CallersAreSound` (no adoption of the recovery without the recovery). Gives
  `PatchIsAppliedOnce`, `SwapLosesNothing` (an action property) and `KnowledgeTypes`.
* **WorkspaceProofs**, of two modules. Conversations: `ConversationInv` is `ThreadInv`
  (`LockIsHeld`, `ActiveHasThread`, `ThreadIsMarked`, `CreatingHasNone`,
  `ThreadsAreDistinct`) and `PlanInv` (`ToldIsComplete`, `RunHasItsPlan`). Gives
  `ThreadIsStartedOnce`, `AgreedPlanRuns`, `StalePlansNeverRun`. RuntimeActivation:
  `ActivationKeepsPromise`: the files implement
  RuntimeSet, step by step, through crashes anywhere. `ActivationInv` is
  `FileTypes`, `FilesInv` (pointer, journal and moved candidates agree) and
  `StepInv` (what each step of a start may find). Also `ServedIsVerified`,
  `AuditsNameTheServed` and `FetchedOnce`.
* **EvidenceProofs**, of two parts that share the idea of what a step may do to the
  rows somebody rests on. EngineeringSweep: the sweep issues transactions of RunStore and nothing else
  (`SweepIssuesTransactions`); from the transactions alone follows what a row keeps
  (`AttemptsAreKept`, `RequestsAreKept`), and RunStoreProofs gives `PlacesInv`. The
  rest of `SweepInv` is the memory of the process, which a crash empties: what a
  collector holds between two transactions is still what its rows say (`HeldInv`,
  `RequestInv`), a job names an attempt of its own cycle that crossed its boundary
  and an approved request of it (`JobInv`), no collector's turn outlives the
  collection and no attempt is completed with one under way (`PhaseInv`),
  the cells of a matrix are granted after the one the user saw (`MatrixInv`), and a
  readback names receipts of the cycle that was sealed (`ReuseInv`). Gives
  `SolverCallRunsOnce`, `CompletedSweepIsWhole` (as many jobs as cells, each of a
  cell, none twice: so all cells), `OwnerRestsOnCurrentReceipts` and
  `CellsFollowConsent` (an action property). LiveEvidence, that is all four release
  modules: a run only moves forward (`RunsMove`: it keeps what it was asked for, its
  revision grows whenever a session is added to those it ran in, and one that
  succeeded stays as it is), and so do tables, builds, trees and sessions
  (`ReleaseMoves`). `EvaluationInv` is what a journal knows of the runs it asked for:
  a run belongs to one case that left `not_started` first (`RunsAreAskedFor`); at
  most one case is under way and its run is not there before the program accepts it
  (`PostIsSound`); a case at the revision its journal names ran in the runner's
  session only (`ItemsAreSound`). `ReleaseInv` adds what was looked at so far: by a
  producer at work (`JobsAreSound`: as long as the second seal would succeed, what it
  saw is the build and the tree of the first), by a receipt (`EvidenceOnFile`,
  `LedgersAreSound`) and by the verifier (`ToolIsSound`: when a gate that uses the
  source has passed, its tree is no older than that of any other row, so that after
  the last gate all are the same). Gives `AskedForOnce`, `WatchedThroughout`,
  `OneBuildIsAdmitted`, `SawWhatItNames` and `LiveRunIsLater`. For the proof the
  verifier's walk over `RequiredGates` became a step to the next gate that is
  required (`NoGateWithin`), which says the same without a filtered sequence.

Every invariant and action property that a run checks is stated by a theorem.
Out of the prover's reach, and therefore left to TLC: liveness under fairness
(`RunSettles`, `StartableRunsStart`, `EngineReturns`, `StartsUnlessBlocked`,
`StartupCompletes`, `CatchesUp`, `EveryTurnReturns`), `ENABLED`, and induction over
data (that the dispatcher's queue is the sorted set of its members: `QueueIsSound`).

## 5. What is not modelled, and what was noticed

Each component's entry in `PROJECT.json` names what its modules leave out: the
contents of plans, reports, evidence, patches and manifests, ranking and
chunking, parsers of solver files, archives and signatures (one verdict), the
SPARQL sidecar, steering, login and history, calendars (a set of instants),
measurements inside a gate's receipt. Not modelled at all, because they keep no
protocol state: report and evidence validation, report rendering, paths,
secrets, identifiers, the desktop shell, browser and downloads, the frontend.

Noticed while modelling, outside the properties above:

* *Engine and router.* A second readback remediation in a row finds no receipts; a
  readback cycle whose plan also has a matrix always fails (`engine.go:820`).
  `core_authorizer.go:129-131` forgets a request on `ErrApprovalNotActive` without
  answering its waiter. The verification bundle's evidence count includes
  superseded attempts (`engine.go:1061-1068`). A failed `Settle` leaves a job
  `running` until the next start.
* *Tools.* `codexconfig.go:71` omits `tool_package_install` from the enabled tools, and
  line 74 gives a tool 120 s where a tool may take 600. PLAN is told to install a
  tool, but an external PLAN attempt is never retried. A damaged ready tool
  cannot be installed again. `ReserveToolInvocation` asks `IsTerminal`, so an
  `uncertain` run may still start native code.
* *Codex client.* `ensureResumed` holds a mutex across an RPC; `c.turns` never
  shrinks. `serverRequest/resolved` stops tracking the call of a request
  (`removeRequest`); were Codex to ask about that call again while a like call is
  under way, the second elicitation would be shown with the other call.
* *Memory and knowledge.* `materials.go:198` may toggle a document during a rebuild;
  stale heads are turned ready by a restart (`store/adoption.go:402`).
* *Conversations.* A client that disconnects while its session is provisioned
  leaves the session unusable. The history shows a plan card as ready whose
  completion was refused. `SteerThread` picks any active turn. A schedule of a
  deleted session can be enabled again.
* *Release.* Edits that are undone between two seals are not seen. The clean-VM
  source tree is not compared with the local gates'. The three live gates are not
  checked to name the same runner receipt, nor the runner's times against
  `PreparedAt`. A torn last line of a journal makes its run set unresumable
  (`docs/VERIFICATION.md:48`, `:50`). Several run sets may be started and the best used.

## 6. Plan

Done: all modules of section 2, their runs, and the proofs of section 4. Next:
modules for the dispatcher's steering, the rebuild of a legacy schema-only head,
and managed and HTTP tools.

## 7. Running it

In this directory: `tlc -config MCSchedules.cfg MCSchedules` and so on (the module of
each configuration is named after it, but for those of section 3's table:
MCApprovalFlow for LostOutcome and AbortRace, MCDispatcher for SilentCancel,
MCRuntimeActivation for BlockedStart, MCCodexClient for OrphanTurn and StuckClose,
MCKnowledgeGraph for StrandedPatch, MCEngineeringSweep for UnansweredWait);
`tlapm SchedulingProofs.tla` and likewise for each module whose name ends in
`Proofs`.
