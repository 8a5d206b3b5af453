-------------------------- MODULE ApprovalFlowProofs --------------------------
(***************************************************************************)
(* Theorems of the approval flow, for every crew of collectors, every set  *)
(* of requests and every bound, in four parts.                             *)
(*                                                                         *)
(* 1. The engine, the collectors, the router, the user and the dispatcher  *)
(*    only ever touch the tables through the transactions of RunStore:     *)
(*    FlowSpec implements StoreSpec.                                       *)
(* 2. What Codex is told, and when: it is released only after the durable  *)
(*    boundary, and it hears what was decided.                             *)
(* 3. The first verdict on a run stands.  The engine's abort, a            *)
(*    collector's failure, the router's markUncertain, the user's          *)
(*    cancellation and the dispatcher's clean-up may all close the same    *)
(*    run; whoever closes it first decides.                                *)
(* 4. The verdict is honest.  An ordinary end, and an end that may be      *)
(*    resumed, leave no external action with an unknown outcome.           *)
(***************************************************************************)
EXTENDS ApprovalFlow, RunStoreProofs

-----------------------------------------------------------------------------
(* Part 1, the inductive invariant. *)

\* What an abort may make of a run.
Endings == RunStatuses \ {"queued", "succeeded"}

AbortIsSound == abort.cause \in Endings /\ abort.next \in Endings

\* Only the attempts of a stage have a goroutine.
CrewIsSound == \A a \in AttemptId : worker[a] # "idle" => a \in Crew \cup {Plan}

\* A request comes from a turn, and is decided only after the router took it.
RequestsAreSound ==
    \A r \in ApprovalId :
        /\ request[r].state # "none" => request[r].turn \in AttemptId
        /\ r \in registered \/ decider[r] # "idle" => request[r].state \notin {"none", "queued"}

\* The request the router handles is nobody else's yet.
HandledIsSound ==
    router.at \notin {"idle", "stopped"} =>
        /\ Handled \in ApprovalId
        /\ request[Handled].state \notin {"none", "queued"}
        /\ Handled \notin registered /\ decider[Handled] = "idle"
        /\ router.at \in {"load", "create", "wait"} => request[Handled].kind \in ApprovalKinds
        /\ router.at = "confirm" => approval[Handled].state # "none" /\ approval[Handled].kind = "solver"

\* A request returns its run to the stage that was active when it was taken.
PriorIsActive ==
    \A r \in ApprovalId : r \in registered \/ decider[r] = "resume" => prior[r] \in ActiveStatuses

\* The router's snapshot of the run row is the row as long as the revision is.
SnapshotIsSound ==
    router.at \in {"create", "wait"} =>
        /\ router.revision <= revision
        /\ IF router.status = "waiting_approval"
           THEN prior[Handled] \in ActiveStatuses
           ELSE /\ prior[Handled] = router.status
                /\ router.revision = revision => router.status = status

FlowInv ==
    /\ FlowTypeOK
    /\ AbortIsSound /\ CrewIsSound /\ RequestsAreSound
    /\ HandledIsSound /\ PriorIsActive /\ SnapshotIsSound

-----------------------------------------------------------------------------
(* Every step of an actor is a transaction of the store, or none. *)

\* The endings an abort, a cancellation and a clean-up ask for.
LEMMA QuiescedLemma ==
    ASSUME NEW requested \in Endings, NEW rows
    PROVE  QuiescedStatus(requested, rows) \in Endings
    BY DEF QuiescedStatus, Endings, RunStatuses

\* A transition to any status but the first and the last is a store step.
LEMMA TransitionIsStep ==
    ASSUME NEW next \in Endings, NEW expected, TransitionRun(expected, next)
    PROVE  StoreNext
    BY DEF StoreNext, RunStep, TransitionRun, Endings

\* markUncertain closes the run or leaves it.
LEMMA UncertainIsStep ==
    ASSUME MarkUncertain
    PROVE  [StoreNext]_storeVars
    BY TransitionIsStep DEF MarkUncertain, Endings, RunStatuses

\* The cancellation and the clean-up quiesce the run or leave it.
LEMMA QuiesceIsStep ==
    ASSUME NEW requested \in {"cancelled", "failed"}, QuiesceOrLeave(requested)
    PROVE  [StoreNext]_storeVars
    BY DEF QuiesceOrLeave, StoreNext, RunStep

\* The engine moves the run to the next stage or leaves it.
LEMMA TransitionFromIsStep ==
    ASSUME NEW from, NEW to \in Endings, NEW then, TransitionFrom(from, to, then)
    PROVE  [StoreNext]_storeVars
    BY TransitionIsStep DEF TransitionFrom

\* A collector's stage is begun under its own ordinal.
LEMMA OrdinalLemma ==
    ASSUME NEW a \in Crew \cup {Plan}
    PROVE  /\ a \in AttemptId
           /\ StageOf(a) \in Stages
           /\ Ordinal(a) \in StageOrdinals(StageOf(a))
    BY FlowAssumption DEF StageOf, Stages, Ordinal, StageOrdinals

\* Whatever actor moves, the tables change by one transaction of the store.
LEMMA FlowStepIsStoreStep ==
    ASSUME FlowInv, [FlowNext]_flowVars
    PROVE  [StoreNext]_storeVars
<1> USE DEF FlowInv
<1>1. CASE Engine
  <2>1. CASE StartRun
      BY <2>1, TransitionFromIsStep DEF StartRun, Endings, RunStatuses, ActiveStatuses
  <2>2. CASE FinishPlan
      BY <2>2, TransitionFromIsStep DEF FinishPlan, FinishStage, Endings, RunStatuses, ActiveStatuses
  <2>3. CASE FinishCollection
      BY <2>3, TransitionFromIsStep
      DEF FinishCollection, FinishStage, Endings, RunStatuses, ActiveStatuses
  <2>4. CASE AbortReads
      BY <2>4 DEF AbortReads
  <2>5. CASE AbortCommits
      BY <2>5, TransitionIsStep DEF AbortCommits, AbortIsSound
  <2> QED BY <1>1, <2>1, <2>2, <2>3, <2>4, <2>5 DEF Engine
<1>2. ASSUME NEW a \in AttemptId, Worker(a) PROVE [StoreNext]_storeVars
  <2>1. ASSUME StageStep(a) PROVE StoreNext
      BY <2>1 DEF StoreNext
  <2>2. CASE WorkerBegins(a)
      BY <2>1, <2>2, OrdinalLemma DEF WorkerBegins, CrewIsSound, StageStep
  <2>3. CASE TurnSucceeds(a)
      BY <2>1, <2>3 DEF TurnSucceeds, StageStep
  <2>4. CASE TurnFails(a)
      BY <2>1, <2>4 DEF TurnFails, StageStep
  <2>5. ASSUME NEW how, TurnIsBroken(a, how) PROVE [StoreNext]_storeVars
      BY <2>1, <2>5 DEF TurnIsBroken, StageStep
  <2> QED BY <1>2, <2>2, <2>3, <2>4, <2>5
      DEF Worker, WorkerIsStopped, WorkerIsNotPrepared, CollectorQuiesces, CollectorReturns
<1>3. CASE Router
  <2>1. ASSUME router.at \notin {"idle", "stopped"}
        PROVE  Handled \in ApprovalId /\ TurnOf(Handled) \in AttemptId
      BY <2>1 DEF HandledIsSound, RequestsAreSound, TurnOf
  <2>2. CASE RouterMarks
      BY <2>1, <2>2 DEF RouterMarks, StoreNext, StageStep
  <2>3. CASE RouterAuthorizes
      BY <2>1, <2>3 DEF RouterAuthorizes, StoreNext, ApprovalStep, ApprovalKinds
  <2>4. CASE RouterConfirms
      BY <2>1, <2>4 DEF RouterConfirms, StoreNext, ApprovalStep, HandledIsSound
  <2>5. CASE RouterFailsRetry
      BY <2>1, <2>5 DEF RouterFailsRetry, StoreNext, StageStep
  <2>6. CASE RouterCreates
      BY <2>1, <2>6 DEF RouterCreates, StoreNext, ApprovalStep, HandledIsSound
  <2>7. CASE RouterWaits
      BY <2>7, TransitionIsStep DEF RouterWaits, Endings, RunStatuses
  <2>8. CASE RouterLosesAnswer
      BY <2>8, UncertainIsStep DEF RouterLosesAnswer
  <2> QED BY <1>3, <2>2, <2>3, <2>4, <2>5, <2>6, <2>7, <2>8
      DEF Router, RouterTakes, RouterLoads, RouterAnswers
<1>4. ASSUME NEW r \in ApprovalId, User(r) PROVE [StoreNext]_storeVars
  <2>1. ASSUME NEW decision \in {"approved", "denied"}, Decides(r, decision)
        PROVE  [StoreNext]_storeVars
      BY <2>1 DEF Decides, StoreNext, ApprovalStep
  <2>2. CASE DecisionIsLost(r)
      BY <2>2, UncertainIsStep DEF DecisionIsLost
  <2>3. CASE Resumes(r)
      BY <2>3 DEF Resumes, StoreNext, RunStep, PriorIsActive
  <2>4. CASE ResumeFails(r)
      BY <2>4, UncertainIsStep DEF ResumeFails
  <2>5. CASE ResponseFails(r)
      BY <2>5, UncertainIsStep DEF ResponseFails
  <2> QED BY <1>4, <2>1, <2>2, <2>3, <2>4, <2>5 DEF User, Responds
<1>5. ASSUME NEW r \in ApprovalId, SolverBegins(r) PROVE [StoreNext]_storeVars
  <2>1. TurnOf(r) \in AttemptId
      BY <1>5 DEF SolverBegins, RequestsAreSound, TurnOf
  <2> QED BY <1>5, <2>1 DEF SolverBegins, StoreNext, ApprovalStep
<1>6. CASE CancelQuiesces
    BY <1>6, QuiesceIsStep DEF CancelQuiesces
<1>7. CASE FinishErroredRun
    BY <1>7, QuiesceIsStep DEF FinishErroredRun
<1>8. CASE Restart
    BY <1>8 DEF Restart, StoreNext, RunStep
<1>9. CASE UNCHANGED storeVars
    BY <1>9
<1> QED BY <1>1, <1>2, <1>3, <1>4, <1>5, <1>6, <1>7, <1>8, <1>9
    DEF FlowNext, Asks, CancelSignals, ShutdownBegins, flowVars

-----------------------------------------------------------------------------
(* The engine's half of the invariant. *)

EngineInv == EngineTypeOK /\ AbortIsSound /\ CrewIsSound

\* The idle abort is sound.
LEMMA NoAbortLemma ==
    /\ NoAbort \in [at: {"idle", "read", "commit"}, cause: RunStatuses, next: RunStatuses,
                    revision: 0..MaxRevision]
    /\ NoAbort.cause \in Endings /\ NoAbort.next \in Endings
    BY StoreAssumption DEF NoAbort, Endings, RunStatuses, TerminalStatuses

\* An abort starts from the cause it is given.
LEMMA AbortForLemma ==
    ASSUME NEW cause \in Endings, AbortFor(cause)
    PROVE  /\ engine' = "aborting"
           /\ abort' \in [at: {"idle", "read", "commit"}, cause: RunStatuses, next: RunStatuses,
                          revision: 0..MaxRevision]
           /\ abort'.cause \in Endings /\ abort'.next \in Endings
    BY NoAbortLemma DEF AbortFor, Endings

\* The engine leaves a stage for the next one or for an abort.
LEMMA TransitionFromLemma ==
    ASSUME EngineInv, NEW from, NEW to, NEW then, TransitionFrom(from, to, then)
    PROVE  /\ engine' \in {then, "aborting"}
           /\ abort' \in [at: {"idle", "read", "commit"}, cause: RunStatuses, next: RunStatuses,
                          revision: 0..MaxRevision]
           /\ abort'.cause \in Endings /\ abort'.next \in Endings
<1>1. CASE UNCHANGED abort /\ engine' = then
    BY <1>1 DEF EngineInv, EngineTypeOK, AbortIsSound
<1>2. ASSUME NEW cause \in {"cancelled", "failed"}, AbortFor(cause)
      PROVE  /\ engine' = "aborting"
             /\ abort' \in [at: {"idle", "read", "commit"}, cause: RunStatuses, next: RunStatuses,
                            revision: 0..MaxRevision]
             /\ abort'.cause \in Endings /\ abort'.next \in Endings
  <2>1. cause \in Endings
      BY <1>2 DEF Endings, RunStatuses, TerminalStatuses
  <2> QED BY <1>2, <2>1, AbortForLemma
<1> QED BY <1>1, <1>2 DEF TransitionFrom

\* A stage ends with its next transition or with the abort of its error.
LEMMA FinishStageLemma ==
    ASSUME EngineInv, NEW stage, NEW from, NEW to, NEW then, FinishStage(stage, from, to, then)
    PROVE  /\ engine' \in {then, "aborting"}
           /\ abort' \in [at: {"idle", "read", "commit"}, cause: RunStatuses, next: RunStatuses,
                          revision: 0..MaxRevision]
           /\ abort'.cause \in Endings /\ abort'.next \in Endings
           /\ UNCHANGED <<outcome, quiesced, stopped, hostVars>>
<1>1. ASSUME NEW error \in {"cancelled", "failed", "interrupted"}
      PROVE  AbortCause(error) \in Endings
    BY DEF AbortCause, Endings, RunStatuses, TerminalStatuses
<1>2. CASE TransitionFrom(from, to, then)
    BY <1>2, TransitionFromLemma DEF FinishStage
<1>3. ASSUME NEW error \in {"cancelled", "failed", "interrupted"}, AbortFor(AbortCause(error))
      PROVE  /\ engine' = "aborting"
             /\ abort' \in [at: {"idle", "read", "commit"}, cause: RunStatuses, next: RunStatuses,
                            revision: 0..MaxRevision]
             /\ abort'.cause \in Endings /\ abort'.next \in Endings
    BY <1>1, <1>3, AbortForLemma
<1>4. TransitionFrom(from, to, then)
        \/ \E error \in {"cancelled", "failed", "interrupted"} : AbortFor(AbortCause(error))
    BY DEF FinishStage
<1> QED BY <1>2, <1>3, <1>4 DEF FinishStage

\* The goroutines of a stage are those of its crew.
LEMMA EnterCrewLemma ==
    ASSUME EngineInv, NEW stage \in {"plan", "collect"}, EnterCrew(stage)
    PROVE  /\ worker' \in [AttemptId -> {"idle", "ready", "turn", "failing", "quiescing", "returned"}]
           /\ CrewIsSound'
    BY FlowAssumption DEF EngineInv, EngineTypeOK, CrewIsSound, EnterCrew, CrewOf

\* An attempt whose goroutine runs may move on.
LEMMA WorkerLemma ==
    ASSUME EngineInv, NEW a \in AttemptId, worker[a] # "idle",
           NEW state \in {"turn", "failing", "quiescing", "returned"},
           worker' = [worker EXCEPT ![a] = state]
    PROVE  /\ worker' \in [AttemptId -> {"idle", "ready", "turn", "failing", "quiescing", "returned"}]
           /\ CrewIsSound'
    BY DEF EngineInv, EngineTypeOK, CrewIsSound

\* A goroutine that returns or fails leaves the engine's half sound.
LEMMA WorkerReturnsLemma ==
    ASSUME EngineInv, NEW a \in AttemptId, worker[a] # "idle",
           \/ \E how \in {"done", "failed", "cancelled", "interrupted"} : WorkerReturns(a, how)
           \/ WorkerFails(a),
           UNCHANGED <<engine, abort, quiesced, hostVars>>
    PROVE  EngineInv'
<1>1. CASE \E how \in {"done", "failed", "cancelled", "interrupted"} : WorkerReturns(a, how)
  <2>1. PICK how \in {"done", "failed", "cancelled", "interrupted"} : WorkerReturns(a, how)
      BY <1>1
  <2>2. /\ worker' \in [AttemptId -> {"idle", "ready", "turn", "failing", "quiescing", "returned"}]
        /\ CrewIsSound'
      BY <2>1, WorkerLemma DEF WorkerReturns
  <2>3. outcome' \in [AttemptId -> {"none", "done", "failed", "cancelled", "interrupted"}]
      BY <2>1 DEF WorkerReturns, EngineInv, EngineTypeOK
  <2>4. stopped' \in BOOLEAN
      BY <2>1 DEF WorkerReturns, EngineInv, EngineTypeOK
  <2> QED BY <2>2, <2>3, <2>4 DEF EngineInv, EngineTypeOK, AbortIsSound, hostVars
<1>2. CASE WorkerFails(a) /\ a \in Crew
    BY <1>2, WorkerLemma
    DEF EngineInv, EngineTypeOK, AbortIsSound, WorkerFails, hostVars
<1> QED BY <1>1, <1>2 DEF WorkerFails

\* The end of an abort frees its caller.
LEMMA AbortEndsLemma ==
    ASSUME EngineInv, AbortEnds, UNCHANGED <<outcome, quiesced, stopped, hostVars>>
    PROVE  EngineInv'
<1>1. worker' \in [AttemptId -> {"idle", "ready", "turn", "failing", "quiescing", "returned"}]
    BY DEF EngineInv, EngineTypeOK, AbortEnds
<1>2. CrewIsSound'
    BY DEF EngineInv, EngineTypeOK, CrewIsSound, AbortEnds
<1> QED BY <1>1, <1>2, NoAbortLemma
    DEF EngineInv, EngineTypeOK, AbortIsSound, AbortEnds, hostVars

\* No step breaks the engine's half.
LEMMA EngineStep ==
    ASSUME FlowInv, [FlowNext]_flowVars
    PROVE  EngineInv'
<1>0. EngineInv
    BY DEF FlowInv, FlowTypeOK, EngineInv
<1>1. CASE Engine
  <2>1. CASE StartRun
    <3>1. /\ engine' \in {"plan", "aborting", "returned"}
          /\ abort' \in [at: {"idle", "read", "commit"}, cause: RunStatuses, next: RunStatuses,
                         revision: 0..MaxRevision]
          /\ abort'.cause \in Endings /\ abort'.next \in Endings
      <4>1. CASE TransitionFrom("queued", "planning", "plan")
          BY <1>0, <4>1, TransitionFromLemma DEF EngineInv, EngineTypeOK, AbortIsSound
      <4>2. CASE AbortFor("failed")
        <5>1. "failed" \in Endings
            BY DEF Endings, RunStatuses, TerminalStatuses
        <5> QED BY <4>2, <5>1, AbortForLemma
      <4>3. CASE engine' = "returned" /\ UNCHANGED abort
          BY <1>0, <4>3 DEF EngineInv, EngineTypeOK, AbortIsSound
      <4> QED BY <2>1, <4>1, <4>2, <4>3 DEF StartRun
    <3> QED BY <1>0, <2>1, <3>1, EnterCrewLemma
        DEF StartRun, EngineInv, EngineTypeOK, AbortIsSound, hostVars
  <2>2. CASE FinishPlan
      BY <1>0, <2>2, FinishStageLemma, EnterCrewLemma
      DEF FinishPlan, EngineInv, EngineTypeOK, AbortIsSound, hostVars
  <2>3. CASE FinishCollection
      BY <1>0, <2>3, FinishStageLemma
      DEF FinishCollection, EngineInv, EngineTypeOK, AbortIsSound, CrewIsSound, hostVars
  <2>4. CASE AbortReads
    <3>1. CASE AbortEnds
        BY <1>0, <2>4, <3>1, AbortEndsLemma DEF AbortReads
    <3>2. CASE abort' = [abort EXCEPT !.at = "commit", !.revision = revision,
                                      !.next = QuiescedStatus(abort.cause, attempt)]
               /\ UNCHANGED <<engine, worker>>
      <4>1. QuiescedStatus(abort.cause, attempt) \in Endings
          BY <1>0, QuiescedLemma DEF EngineInv, AbortIsSound
      <4>2. revision \in 0..MaxRevision
          BY DEF FlowInv, FlowTypeOK, StoreTypeOK
      <4> QED BY <1>0, <2>4, <3>2, <4>1, <4>2
          DEF AbortReads, EngineInv, EngineTypeOK, AbortIsSound, CrewIsSound, Endings, hostVars
    <3> QED BY <2>4, <3>1, <3>2 DEF AbortReads
  <2>5. CASE AbortCommits
    <3>1. CASE AbortEnds
        BY <1>0, <2>5, <3>1, AbortEndsLemma DEF AbortCommits
    <3>2. CASE abort' = [abort EXCEPT !.at = "read"] /\ UNCHANGED <<engine, worker>>
        BY <1>0, <2>5, <3>2
        DEF AbortCommits, EngineInv, EngineTypeOK, AbortIsSound, CrewIsSound, hostVars
    <3> QED BY <2>5, <3>1, <3>2 DEF AbortCommits
  <2> QED BY <1>1, <2>1, <2>2, <2>3, <2>4, <2>5 DEF Engine
<1>2. ASSUME NEW a \in AttemptId, Worker(a) PROVE EngineInv'
  <2>1. CASE WorkerBegins(a)
      BY <1>0, <2>1, WorkerLemma
      DEF WorkerBegins, EngineInv, EngineTypeOK, AbortIsSound, hostVars
  <2>2. CASE WorkerIsStopped(a)
      BY <1>0, <2>2, WorkerReturnsLemma DEF WorkerIsStopped
  <2>3. CASE WorkerIsNotPrepared(a)
      BY <1>0, <2>3, WorkerReturnsLemma DEF WorkerIsNotPrepared
  <2>4. CASE TurnSucceeds(a)
      BY <1>0, <2>4, WorkerReturnsLemma DEF TurnSucceeds
  <2>5. CASE TurnFails(a)
      BY <1>0, <2>5, WorkerReturnsLemma DEF TurnFails
  <2>6. ASSUME NEW how \in {"cancelled", "interrupted"}, TurnIsBroken(a, how) PROVE EngineInv'
      BY <1>0, <2>6, WorkerReturnsLemma DEF TurnIsBroken
  <2>7. CASE CollectorQuiesces(a)
    <3>1. /\ abort' \in [at: {"idle", "read", "commit"}, cause: RunStatuses, next: RunStatuses,
                         revision: 0..MaxRevision]
          /\ abort'.cause \in Endings /\ abort'.next \in Endings
        BY <2>7, NoAbortLemma DEF CollectorQuiesces, NoAbort
    <3> QED BY <1>0, <2>7, <3>1, WorkerLemma
        DEF CollectorQuiesces, EngineInv, EngineTypeOK, AbortIsSound, hostVars
  <2>8. CASE CollectorReturns(a)
      BY <1>0, <2>8, WorkerReturnsLemma DEF CollectorReturns
  <2> QED BY <1>2, <2>1, <2>2, <2>3, <2>4, <2>5, <2>6, <2>7, <2>8 DEF Worker
<1>3. CASE Restart
    BY <1>0, <1>3, NoAbortLemma
    DEF Restart, EngineInv, EngineTypeOK, AbortIsSound, CrewIsSound
<1>4. CASE UNCHANGED engineVars /\ (UNCHANGED hostVars \/ CancelSignals \/ CancelQuiesces \/ ShutdownBegins)
    BY <1>0, <1>4
    DEF EngineInv, EngineTypeOK, AbortIsSound, CrewIsSound, engineVars, hostVars,
        CancelSignals, CancelQuiesces, ShutdownBegins
<1>5. CASE FinishErroredRun
    BY <1>0, <1>5
    DEF FinishErroredRun, EngineInv, EngineTypeOK, AbortIsSound, CrewIsSound, hostVars
<1>6. ASSUME NEW r \in ApprovalId, User(r) \/ SolverBegins(r) PROVE EngineInv'
    BY <1>4, <1>6
    DEF User, Decides, DecisionIsLost, Resumes, ResumeFails, Responds, ResponseFails, SolverBegins
<1>7. CASE Router
    BY <1>4, <1>7
    DEF Router, RouterTakes, RouterMarks, RouterAuthorizes, RouterConfirms, RouterFailsRetry,
        RouterLoads, RouterCreates, RouterWaits, RouterAnswers, RouterLosesAnswer
<1>8. CASE CancelSignals \/ CancelQuiesces \/ ShutdownBegins
    BY <1>4, <1>8 DEF CancelSignals, CancelQuiesces, ShutdownBegins
<1>9. CASE UNCHANGED flowVars
    BY <1>4, <1>9 DEF flowVars
<1> QED BY <1>1, <1>2, <1>3, <1>4, <1>5, <1>6, <1>7, <1>8, <1>9 DEF FlowNext, Asks

-----------------------------------------------------------------------------
(* The router's half of the invariant. *)

RouterInv ==
    RouterTypeOK /\ RequestsAreSound /\ HandledIsSound /\ PriorIsActive /\ SnapshotIsSound

\* The idle router has its type.
LEMMA IdleRouterLemma ==
    IdleRouter \in
        [at: {"idle", "mark", "authorize", "confirm", "retry", "load", "create", "wait",
              "accept", "decline", "stopped"},
         request: ApprovalId \cup {NoApproval}, status: RunStatuses, revision: 0..MaxRevision]
    BY StoreAssumption DEF IdleRouter, RunStatuses

\* While the router holds its snapshot, any step keeps it sound.
LEMMA SnapshotLemma ==
    ASSUME FlowInv, [FlowNext]_flowVars, router.at \in {"create", "wait"},
           router'.revision = router.revision, router'.status = router.status,
           Handled' = Handled, prior' = prior
    PROVE  SnapshotIsSound'
<1>1. revision \in Nat /\ router.revision \in Nat
    BY StoreAssumption DEF FlowInv, FlowTypeOK, StoreTypeOK, RouterTypeOK
<1>2. RunRowChange /\ (revision' = revision \/ revision' = revision + 1)
    BY <1>1, FlowStepIsStoreStep, RunRowLemma
<1> QED BY <1>1, <1>2 DEF FlowInv, SnapshotIsSound, RunRowChange

\* A step that leaves the router, the user's decisions and the requests alone
\* keeps their half, whatever it does to the tables.
LEMMA RouterRests ==
    ASSUME FlowInv, [FlowNext]_flowVars, UNCHANGED routerVars
    PROVE  RouterInv'
<1> USE DEF FlowInv, routerVars
<1>1. RouterTypeOK' /\ RequestsAreSound' /\ PriorIsActive'
    BY DEF FlowTypeOK, RouterTypeOK, RequestsAreSound, PriorIsActive
<1>2. HandledIsSound'
  <2>1. ASSUME router.at = "confirm"
        PROVE  approval'[Handled].state # "none" /\ approval'[Handled].kind = "solver"
      BY <2>1, FlowStepIsStoreStep, RequestLemma DEF FlowTypeOK, HandledIsSound
  <2> QED BY <2>1 DEF HandledIsSound, Handled
<1>3. SnapshotIsSound'
    BY SnapshotLemma DEF SnapshotIsSound, Handled
<1> QED BY <1>1, <1>2, <1>3 DEF RouterInv

\* Going on to the answer, or stopping, needs nothing more of the request.
LEMMA RouterGoesOn ==
    ASSUME FlowInv, router.at \notin {"idle", "stopped"},
           NEW at \in {"accept", "decline", "stopped"}, RouterGoes(at),
           UNCHANGED <<registered, prior, decider, request>>
    PROVE  RouterInv'
<1> USE DEF FlowInv, FlowTypeOK, RouterTypeOK, RouterGoes
<1>1. RouterTypeOK' /\ RequestsAreSound' /\ PriorIsActive' /\ SnapshotIsSound'
    BY DEF RequestsAreSound, PriorIsActive, SnapshotIsSound
<1>2. HandledIsSound'
    BY DEF HandledIsSound, Handled
<1> QED BY <1>1, <1>2 DEF RouterInv

\* No step of the router breaks its half.
LEMMA RouterStep ==
    ASSUME FlowInv, Router
    PROVE  RouterInv'
<1> USE DEF FlowInv, FlowTypeOK
<1>0. [FlowNext]_flowVars
    BY DEF FlowNext
<1>1. ASSUME NEW r \in ApprovalId, RouterTakes(r) PROVE RouterInv'
  <2>1. /\ r \notin registered /\ decider[r] = "idle" /\ request[r].turn \in AttemptId
        /\ request' = [request EXCEPT ![r].state = "open"]
        /\ UNCHANGED <<registered, prior, decider>>
      BY <1>1 DEF RouterTakes, RequestsAreSound
  <2>k. request[r].kind \in {"auto", "planned"} \cup ApprovalKinds
      BY DEF RouterTypeOK, RequestKinds
  <2>2. PICK at \in {"decline", "mark", "authorize", "retry", "load"} :
          /\ router' = [IdleRouter EXCEPT !.at = at, !.request = r]
          /\ at = "load" => request[r].kind \in ApprovalKinds
      BY ONLY <1>1, <2>k DEF RouterTakes, AllowedByPolicy, AuthorizedByPlan
  <2>3. RouterTypeOK'
    <3>1. router' \in [at: {"idle", "mark", "authorize", "confirm", "retry", "load", "create", "wait",
                            "accept", "decline", "stopped"},
                       request: ApprovalId \cup {NoApproval}, status: RunStatuses,
                       revision: 0..MaxRevision]
        BY ONLY <2>2, IdleRouterLemma, r \in ApprovalId,
                at \in {"decline", "mark", "authorize", "retry", "load"}
    <3>2. request' \in [ApprovalId -> [turn: AttemptId \cup {NoAttempt}, kind: RequestKinds,
                            state: {"none", "queued", "open", "accepted", "declined", "lost"}]]
        BY <2>1 DEF RouterTypeOK
    <3> QED BY <2>1, <3>1, <3>2 DEF RouterTypeOK
  <2>4. router'.at = at /\ Handled' = r
      BY <2>2 DEF IdleRouter, Handled
  <2>5. request'[r] = [request[r] EXCEPT !.state = "open"]
      BY <2>1 DEF RouterTypeOK
  <2>6. RequestsAreSound' /\ PriorIsActive'
      BY <2>1, <2>5 DEF RequestsAreSound, PriorIsActive, RouterTypeOK
  <2>7. HandledIsSound' /\ SnapshotIsSound'
      BY <2>1, <2>2, <2>4, <2>5 DEF HandledIsSound, SnapshotIsSound, RouterTypeOK
  <2> QED BY <2>3, <2>6, <2>7 DEF RouterInv
<1>2. CASE RouterMarks
    BY <1>2, RouterGoesOn DEF RouterMarks
<1>3. CASE RouterAuthorizes
  <2>1. CASE RouterGoes("decline")
      BY <1>3, <2>1, RouterGoesOn DEF RouterAuthorizes
  <2>2. CASE RouterGoes("confirm") /\ CreateApproval(Handled, TurnOf(Handled), "solver")
    <3>1. Handled' = Handled /\ router'.at = "confirm" /\ Handled \in ApprovalId
        BY <1>3, <2>2 DEF RouterAuthorizes, RouterGoes, Handled, RouterTypeOK, HandledIsSound
    <3>2. approval'[Handled].state = "pending" /\ approval'[Handled].kind = "solver"
        BY <2>2, <3>1 DEF CreateApproval, StoreTypeOK
    <3>3. RouterTypeOK' /\ RequestsAreSound' /\ PriorIsActive' /\ SnapshotIsSound'
        BY <1>3, <2>2, <3>1
        DEF RouterAuthorizes, RouterGoes, RouterTypeOK, RequestsAreSound, PriorIsActive, SnapshotIsSound
    <3> QED BY <1>3, <3>1, <3>2, <3>3 DEF RouterAuthorizes, RouterInv, HandledIsSound
  <2> QED BY <1>3, <2>1, <2>2 DEF RouterAuthorizes
<1>4. CASE RouterConfirms
    BY <1>4, RouterGoesOn DEF RouterConfirms
<1>5. CASE RouterFailsRetry
    BY <1>5, RouterGoesOn DEF RouterFailsRetry
<1>6. CASE RouterLoads
  <2>1. CASE RouterGoes("decline") /\ UNCHANGED prior
      BY <1>6, <2>1, RouterGoesOn DEF RouterLoads
  <2>2. ASSUME NEW back \in RunStatuses,
               prior' = [prior EXCEPT ![Handled] = back],
               router' = [router EXCEPT !.at = "create", !.status = status, !.revision = revision],
               IF status = "waiting_approval" THEN back \in ActiveStatuses ELSE back = status
        PROVE  RouterInv'
    <3>1. /\ Handled \in ApprovalId /\ Handled \notin registered /\ decider[Handled] = "idle"
          /\ Handled' = Handled /\ router'.at = "create"
          /\ router'.status = status /\ router'.revision = revision
          /\ request[Handled].kind \in ApprovalKinds
          /\ request[Handled].state \notin {"none", "queued"}
          /\ UNCHANGED <<storeVars, registered, decider, request>>
        BY <1>6, <2>2 DEF RouterLoads, HandledIsSound, Handled, RouterTypeOK
    <3>2. RouterTypeOK'
        BY <2>2, <3>1 DEF RouterTypeOK, StoreTypeOK
    <3>3. RequestsAreSound' /\ HandledIsSound'
        BY <3>1 DEF RequestsAreSound, HandledIsSound
    <3>4. PriorIsActive'
        BY <2>2, <3>1 DEF PriorIsActive, RouterTypeOK
    <3>5. SnapshotIsSound'
        BY <2>2, <3>1, StoreAssumption DEF SnapshotIsSound, RouterTypeOK, StoreTypeOK, storeVars
    <3> QED BY <3>2, <3>3, <3>4, <3>5 DEF RouterInv
  <2>3. ASSUME NEW known \in registered PROVE prior[known] \in ActiveStatuses
      BY <2>3 DEF PriorIsActive, RouterTypeOK
  <2> QED BY <1>6, <2>1, <2>2, <2>3 DEF RouterLoads, RunStatuses, StoreTypeOK
<1>7. CASE RouterCreates
  <2>1. CASE RouterGoes("decline")
      BY <1>7, <2>1, RouterGoesOn DEF RouterCreates
  <2>2. CASE RouterGoes("wait")
    <3>1. /\ Handled' = Handled /\ router'.at = "wait"
          /\ router'.status = router.status /\ router'.revision = router.revision
          /\ UNCHANGED <<registered, prior, decider, request>>
        BY <1>7, <2>2 DEF RouterCreates, RouterGoes, Handled, RouterTypeOK
    <3>2. RouterTypeOK' /\ RequestsAreSound' /\ HandledIsSound' /\ PriorIsActive'
        BY <1>7, <2>2, <3>1
        DEF RouterCreates, RouterGoes, RouterTypeOK, RequestsAreSound, HandledIsSound, PriorIsActive
    <3>3. SnapshotIsSound'
        BY <1>0, <1>7, <3>1, SnapshotLemma DEF RouterCreates
    <3> QED BY <3>2, <3>3 DEF RouterInv
  <2> QED BY <1>7, <2>1, <2>2 DEF RouterCreates
<1>8. CASE RouterWaits
  <2>1. CASE RouterGoes("decline") /\ UNCHANGED registered
      BY <1>8, <2>1, RouterGoesOn DEF RouterWaits
  <2>2. CASE Registers
    <3>1. prior[Handled] \in ActiveStatuses
      <4>1. CASE router.status = "waiting_approval"
          BY <1>8, <4>1 DEF RouterWaits, SnapshotIsSound
      <4>2. CASE router.status # "waiting_approval"
        <5>1. TransitionRun(router.revision, "waiting_approval")
            BY <1>8, <2>2, <4>2 DEF RouterWaits, Registers, RouterGoes, IdleRouter, RouterTypeOK
        <5>2. prior[Handled] = status /\ CanTransition(status, "waiting_approval")
            BY <1>8, <4>2, <5>1 DEF RouterWaits, SnapshotIsSound, TransitionRun, SetStatus
        <5> QED BY <5>2 DEF CanTransition, AllowedTransitions, Exits, ActiveStatuses
      <4> QED BY <4>1, <4>2
    <3>2. Handled \in ApprovalId /\ request[Handled].state \notin {"none", "queued"}
        BY <1>8 DEF RouterWaits, HandledIsSound
    <3>3. RouterTypeOK' /\ router'.at = "idle"
        BY <1>8, <2>2, <3>2, IdleRouterLemma
        DEF RouterWaits, Registers, RouterTypeOK, IdleRouter
    <3>4. RequestsAreSound' /\ PriorIsActive' /\ HandledIsSound' /\ SnapshotIsSound'
        BY <1>8, <2>2, <3>1, <3>2, <3>3
        DEF RouterWaits, Registers, RequestsAreSound, PriorIsActive, HandledIsSound, SnapshotIsSound
    <3> QED BY <3>3, <3>4 DEF RouterInv
  <2> QED BY <1>8, <2>1, <2>2 DEF RouterWaits
<1>9. ASSUME router' = IdleRouter \/ RouterGoes("stopped"), router.at \in {"accept", "decline"},
             UNCHANGED request \/ \E answer \in {"accepted", "declined"} : Answered(Handled, answer),
             UNCHANGED <<registered, prior, decider>>
      PROVE  RouterInv'
  <2>1. RouterTypeOK' /\ router'.at \in {"idle", "stopped"}
    <3>1. router'.at \in {"idle", "stopped"}
        BY <1>9 DEF RouterTypeOK, IdleRouter, RouterGoes
    <3>2. router' \in
            [at: {"idle", "mark", "authorize", "confirm", "retry", "load", "create", "wait",
                  "accept", "decline", "stopped"},
             request: ApprovalId \cup {NoApproval}, status: RunStatuses, revision: 0..MaxRevision]
        BY <1>9, IdleRouterLemma DEF RouterTypeOK, RouterGoes
    <3>3. request' \in [ApprovalId -> [turn: AttemptId \cup {NoAttempt}, kind: RequestKinds,
                        state: {"none", "queued", "open", "accepted", "declined", "lost"}]]
        BY <1>9 DEF RouterTypeOK, Answered
    <3> QED BY <1>9, <3>1, <3>2, <3>3 DEF RouterTypeOK
  <2>2. \A r \in ApprovalId :
          /\ request'[r].turn = request[r].turn
          /\ \/ request'[r].state = request[r].state
             \/ r = Handled /\ request'[r].state \in {"accepted", "declined"}
    <3>1. CASE UNCHANGED request
        BY <3>1
    <3>2. ASSUME NEW answer \in {"accepted", "declined"}, Answered(Handled, answer),
                 NEW r \in ApprovalId
          PROVE  /\ request'[r].turn = request[r].turn
                 /\ \/ request'[r].state = request[r].state
                    \/ r = Handled /\ request'[r].state = answer
        BY <3>2 DEF RouterTypeOK, Answered
    <3> QED BY <1>9, <3>1, <3>2
  <2>3. request[Handled].state # "none"
      BY <1>9 DEF HandledIsSound
  <2>4. RequestsAreSound'
      BY <1>9, <2>2, <2>3 DEF RequestsAreSound
  <2> QED BY <1>9, <2>1, <2>4 DEF RouterInv, PriorIsActive, HandledIsSound, SnapshotIsSound
<1>10. CASE RouterAnswers
    BY <1>9, <1>10 DEF RouterAnswers
<1>11. CASE RouterLosesAnswer
    BY <1>9, <1>11 DEF RouterLosesAnswer
<1> QED BY <1>1, <1>2, <1>3, <1>4, <1>5, <1>6, <1>7, <1>8, <1>10, <1>11 DEF Router

\* What the user's decision on a request may do to the router's half: forget
\* it, move its decision on, and answer it.
LEMMA DecisionLemma ==
    ASSUME FlowInv, [FlowNext]_flowVars, NEW r \in ApprovalId,
           r \in registered \/ decider[r] # "idle",
           UNCHANGED <<router, prior>>,
           UNCHANGED registered \/ Forgets(r),
           NEW how \in {"idle", "resume", "respond", "dropped"},
           decider' = [decider EXCEPT ![r] = how],
           how = "resume" => prior[r] \in ActiveStatuses,
           UNCHANGED request \/ \E answer \in {"accepted", "declined"} : Answered(r, answer)
    PROVE  RouterInv'
<1> USE DEF FlowInv, FlowTypeOK
<1>1. request' \in [ApprovalId -> [turn: AttemptId \cup {NoAttempt}, kind: RequestKinds,
                    state: {"none", "queued", "open", "accepted", "declined", "lost"}]]
    BY DEF RouterTypeOK, Answered
<1>2. \A p \in ApprovalId :
        /\ request'[p].turn = request[p].turn /\ request'[p].kind = request[p].kind
        /\ \/ request'[p].state = request[p].state
           \/ p = r /\ request'[p].state \in {"accepted", "declined"}
  <2>1. CASE UNCHANGED request
      BY <2>1
  <2>2. ASSUME NEW answer \in {"accepted", "declined"}, Answered(r, answer), NEW p \in ApprovalId
        PROVE  /\ request'[p].turn = request[p].turn /\ request'[p].kind = request[p].kind
               /\ \/ request'[p].state = request[p].state
                  \/ p = r /\ request'[p].state = answer
      BY <2>2 DEF RouterTypeOK, Answered
  <2> QED BY <2>1, <2>2
<1>3. /\ registered' \subseteq registered
      /\ \A p \in ApprovalId \ {r} : decider'[p] = decider[p]
      /\ decider'[r] = how
    BY DEF Forgets, RouterTypeOK
<1>4. request[r].state \notin {"none", "queued"} /\ request[r].turn \in AttemptId
    BY DEF RequestsAreSound
<1>5. RouterTypeOK'
    BY <1>1, <1>3 DEF RouterTypeOK
<1>6. RequestsAreSound'
    BY <1>2, <1>3, <1>4 DEF RequestsAreSound
<1>7. PriorIsActive'
    BY <1>3 DEF PriorIsActive
<1>8. HandledIsSound'
  <2> SUFFICES ASSUME router.at \notin {"idle", "stopped"} PROVE HandledIsSound'
      BY DEF HandledIsSound
  <2>1. Handled' = Handled /\ router' = router /\ Handled \in ApprovalId \ {r}
      BY DEF Handled, HandledIsSound
  <2>2. ASSUME router.at = "confirm"
        PROVE  approval'[Handled].state # "none" /\ approval'[Handled].kind = "solver"
      BY <2>2, FlowStepIsStoreStep, RequestLemma DEF HandledIsSound
  <2> QED BY <1>2, <1>3, <2>1, <2>2 DEF HandledIsSound
<1>9. SnapshotIsSound'
    BY SnapshotLemma DEF SnapshotIsSound, Handled
<1> QED BY <1>5, <1>6, <1>7, <1>8, <1>9 DEF RouterInv

\* No step of the user breaks the router's half.
LEMMA UserStep ==
    ASSUME FlowInv, NEW r \in ApprovalId, User(r)
    PROVE  RouterInv'
<1> USE DEF FlowInv, FlowTypeOK
<1>0. [FlowNext]_flowVars
    BY DEF FlowNext
<1>1. ASSUME NEW decision \in {"approved", "denied"}, Decides(r, decision) PROVE RouterInv'
  <2>1. CASE decider' = [decider EXCEPT ![r] = "resume"] /\ UNCHANGED registered
      BY <1>0, <1>1, <2>1, DecisionLemma DEF Decides, PriorIsActive
  <2>2. CASE Forgets(r) /\ UNCHANGED decider
    <3>1. decider' = [decider EXCEPT ![r] = decider[r]] /\ decider[r] \in {"idle", "resume", "respond", "dropped"}
        BY <2>2 DEF RouterTypeOK
    <3>2. decider[r] = "resume" => prior[r] \in ActiveStatuses
        BY DEF PriorIsActive
    <3> QED BY <1>0, <1>1, <2>2, <3>1, <3>2, DecisionLemma DEF Decides
  <2> QED BY <1>1, <2>1, <2>2 DEF Decides
<1>2. CASE DecisionIsLost(r)
    BY <1>0, <1>2, RouterRests DEF DecisionIsLost
<1>3. CASE Resumes(r)
    BY <1>0, <1>3, DecisionLemma DEF Resumes
<1>4. CASE ResumeFails(r)
    BY <1>0, <1>4, DecisionLemma DEF ResumeFails
<1>5. CASE Responds(r)
    BY <1>0, <1>5, DecisionLemma DEF Responds
<1>6. CASE ResponseFails(r)
    BY <1>0, <1>6, DecisionLemma DEF ResponseFails
<1> QED BY <1>1, <1>2, <1>3, <1>4, <1>5, <1>6 DEF User

\* A turn's request is new to the router and to the user.
LEMMA AskStep ==
    ASSUME FlowInv, NEW a \in AskingTurns, NEW r \in ApprovalId, NEW kind \in AskedKinds,
           Asks(a, r, kind)
    PROVE  RouterInv'
<1> USE DEF FlowInv, FlowTypeOK
<1>1. /\ request[r].state = "none"
      /\ request' = [request EXCEPT ![r] = [turn |-> a, kind |-> kind, state |-> "queued"]]
      /\ UNCHANGED <<storeVars, router, registered, prior, decider>>
    BY DEF Asks
<1>2. RouterTypeOK'
    BY <1>1, FlowAssumption DEF RouterTypeOK, RequestKinds
<1>3. RequestsAreSound' /\ PriorIsActive' /\ SnapshotIsSound'
    BY <1>1, FlowAssumption
    DEF RequestsAreSound, PriorIsActive, SnapshotIsSound, RouterTypeOK, storeVars, Handled
<1>4. HandledIsSound'
    BY <1>1 DEF HandledIsSound, Handled, RouterTypeOK, storeVars
<1> QED BY <1>2, <1>3, <1>4 DEF RouterInv

\* A new process has no requests but those whose turns are gone.
LEMMA RestartStep ==
    ASSUME FlowInv, Restart
    PROVE  RouterInv'
<1> USE DEF FlowInv, FlowTypeOK
<1>1. /\ router' = IdleRouter /\ registered' = {} /\ prior' = prior
      /\ decider' = [r \in ApprovalId |-> "idle"]
      /\ request' = [r \in ApprovalId |->
            IF request[r].state \in {"queued", "open"} THEN [request[r] EXCEPT !.state = "lost"]
                                                      ELSE request[r]]
    BY DEF Restart
<1>2. \A r \in ApprovalId :
        /\ request'[r] \in [turn: AttemptId \cup {NoAttempt}, kind: RequestKinds,
                            state: {"none", "queued", "open", "accepted", "declined", "lost"}]
        /\ request'[r].turn = request[r].turn
        /\ request'[r].state = "none" => request[r].state = "none"
        /\ request[r].state = "none" => request'[r].state = "none"
    BY <1>1 DEF RouterTypeOK
<1>3. request' \in [ApprovalId -> [turn: AttemptId \cup {NoAttempt}, kind: RequestKinds,
                    state: {"none", "queued", "open", "accepted", "declined", "lost"}]]
    BY <1>1, <1>2
<1>4. RouterTypeOK'
    BY <1>1, <1>3, IdleRouterLemma DEF RouterTypeOK
<1>5. RequestsAreSound' /\ PriorIsActive'
    BY <1>1, <1>2 DEF RequestsAreSound, PriorIsActive
<1>6. router'.at = "idle"
    BY <1>1 DEF IdleRouter
<1> QED BY <1>4, <1>5, <1>6 DEF RouterInv, HandledIsSound, SnapshotIsSound

-----------------------------------------------------------------------------
(* The invariant, and what follows from it. *)

\* The invariant holds at first.
LEMMA FlowInvInit == FlowInit => FlowInv
<1> SUFFICES ASSUME FlowInit PROVE FlowInv
    OBVIOUS
<1>1. StoreTypeOK
    BY TypeInit DEF FlowInit
<1>2. EngineTypeOK /\ AbortIsSound /\ CrewIsSound
    BY NoAbortLemma DEF FlowInit, EngineTypeOK, AbortIsSound, CrewIsSound
<1>3. \A r \in ApprovalId : request[r] = NoRequest /\ decider[r] = "idle"
    BY DEF FlowInit
<1>4. NoRequest \in [turn: AttemptId \cup {NoAttempt}, kind: RequestKinds,
                     state: {"none", "queued", "open", "accepted", "declined", "lost"}]
    BY DEF NoRequest, RequestKinds
<1>5. RouterTypeOK
    BY <1>4, IdleRouterLemma DEF FlowInit, RouterTypeOK, RunStatuses
<1>6. RequestsAreSound /\ HandledIsSound /\ PriorIsActive /\ SnapshotIsSound
    BY <1>3 DEF FlowInit, RequestsAreSound, HandledIsSound, PriorIsActive, SnapshotIsSound,
                NoRequest, IdleRouter
<1> QED BY <1>1, <1>2, <1>5, <1>6 DEF FlowInv, FlowTypeOK

\* No step breaks it.
LEMMA FlowInvStep == FlowInv /\ [FlowNext]_flowVars => FlowInv'
<1> SUFFICES ASSUME FlowInv, [FlowNext]_flowVars PROVE FlowInv'
    OBVIOUS
<1>1. StoreTypeOK'
    BY FlowStepIsStoreStep, TypeStep DEF FlowInv, FlowTypeOK
<1>2. EngineInv'
    BY EngineStep
<1>3. RouterInv'
  <2>1. CASE UNCHANGED routerVars
      BY <2>1, RouterRests
  <2>2. ASSUME NEW a \in AttemptId, Worker(a) PROVE UNCHANGED routerVars
      BY <2>2
      DEF Worker, WorkerBegins, WorkerIsStopped, WorkerIsNotPrepared, TurnSucceeds, TurnFails,
          TurnIsBroken, CollectorQuiesces, CollectorReturns
  <2>3. ASSUME Engine PROVE UNCHANGED routerVars
      BY <2>3
      DEF Engine, StartRun, FinishPlan, FinishCollection, FinishStage, AbortReads, AbortCommits
  <2>4. ASSUME NEW r \in ApprovalId, SolverBegins(r) PROVE UNCHANGED routerVars
      BY <2>4 DEF SolverBegins
  <2>5. ASSUME CancelSignals \/ CancelQuiesces \/ FinishErroredRun \/ ShutdownBegins
        PROVE  UNCHANGED routerVars
      BY <2>5 DEF CancelSignals, CancelQuiesces, FinishErroredRun, ShutdownBegins
  <2>6. UNCHANGED flowVars => UNCHANGED routerVars
      BY DEF flowVars
  <2> QED BY <2>1, <2>2, <2>3, <2>4, <2>5, <2>6, RouterStep, UserStep, AskStep, RestartStep
      DEF FlowNext
<1> QED BY <1>1, <1>2, <1>3 DEF FlowInv, FlowTypeOK, EngineInv, RouterInv

\* The invariant holds in every state.
LEMMA FlowInvariant == FlowSpec => []FlowInv
    BY FlowInvInit, FlowInvStep, PTL DEF FlowSpec

\* The actors' local states have their types in every state.
THEOREM FlowTypeCorrect == FlowSpec => []FlowTypeOK
<1>1. FlowInv => FlowTypeOK
    BY DEF FlowInv
<1> QED BY <1>1, FlowInvariant, PTL

\* The engine, the collectors, the router, the user, the dispatcher and a
\* restart act on the tables as an arbitrary client of RunStore does: whatever
\* RunStore guarantees holds of the whole flow.
THEOREM FlowImplementsStore == FlowSpec => StoreSpec
<1>1. FlowInit => StoreInit
    BY DEF FlowInit
<1>2. FlowInv /\ [FlowNext]_flowVars => [StoreNext]_storeVars
    BY FlowStepIsStoreStep
<1> QED BY <1>1, <1>2, FlowInvariant, PTL DEF FlowSpec, StoreSpec

\* In the whole flow no request stays answerable on a run that is closed, only
\* current output is adopted, the boundary of an external action opens only in
\* a live run, and no external work is done twice in one research cycle.
COROLLARY FlowKeepsStorePromises ==
    FlowSpec => /\ []NoOpenApprovalOnClosedRun
                /\ []OnlyCurrentOutputAdopted
                /\ BoundaryOpensOnlyInLiveRun
                /\ []ExternalWorkIsTriedOnce
    BY FlowImplementsStore, ClosedRunHasNoOpenApproval, OnlyCurrentOutputIsAdopted,
       BoundaryIsGuarded, ExternalWorkIsNotRepeated, PTL

-----------------------------------------------------------------------------
(* Part 2, the inductive invariant, on top of FlowInv. *)

\* The kind of approval a request of each kind is recorded under.
ScopeKind(kind) == IF kind = "planned" THEN "solver" ELSE kind

\* A turn that runs, or asked for something, has its row.
TurnsHaveRows ==
    /\ \A a \in AttemptId : worker[a] = "turn" => attempt[a].state # "none"
    /\ \A r \in ApprovalId : request[r].state # "none" => attempt[request[r].turn].state # "none"

\* A row of the approvals table belongs to a turn that exists, and the boundary
\* of an approved external scope is durable.
ScopesAreDurable ==
    \A p \in ApprovalId :
        approval[p].state # "none" =>
            /\ approval[p].attempt \in AttemptId
            /\ attempt[approval[p].attempt].state # "none"
            /\ approval[p].state = "approved" /\ approval[p].kind = "external" =>
                 attempt[approval[p].attempt].external

\* The row of a request is about that request: its turn and its kind.
RowsMatchRequests ==
    \A r \in ApprovalId :
        approval[r].state # "none" =>
            /\ request[r].state \notin {"none", "queued"}
            /\ request[r].kind # "auto"
            /\ approval[r].attempt = request[r].turn
            /\ approval[r].kind = ScopeKind(request[r].kind)

\* A request in the hands of the router or of the user was not answered yet.
Held(r) ==
    \/ router.at \notin {"idle", "stopped"} /\ r = Handled
    \/ r \in registered
    \/ decider[r] \in {"resume", "respond"}

HeldIsOpen == \A r \in ApprovalId : Held(r) => request[r].state = "open"

\* What may be answered with "accept".
Releasable(r) ==
    IF request[r].kind = "auto" THEN attempt[request[r].turn].external
                                ELSE approval[r].state = "approved"

\* What the router knows of its request at each place of handle.
PlaceIsSound ==
    router.at \notin {"idle", "stopped"} =>
        /\ router.at = "mark" => request[Handled].kind = "auto"
        /\ router.at \in {"authorize", "confirm"} => request[Handled].kind = "planned"
        /\ IF router.at = "accept" THEN Releasable(Handled) ELSE approval[Handled].state # "approved"

\* An answer that Codex has was the right one and stays so.
AnswersAreSound ==
    \A r \in ApprovalId :
        /\ request[r].state = "accepted" => Releasable(r)
        /\ request[r].state = "declined" => approval[r].state # "approved"

AnswerInv ==
    /\ TurnsHaveRows /\ ScopesAreDurable /\ RowsMatchRequests
    /\ HeldIsOpen /\ PlaceIsSound /\ AnswersAreSound

\* The invariant says what the two properties say.
LEMMA AnswerInvImplies ==
    FlowInv /\ AnswerInv => ReleasedOnlyAfterBoundary /\ AnswerFollowsDecision
    BY DEF FlowInv, FlowTypeOK, RouterTypeOK, AnswerInv, ScopesAreDurable, RowsMatchRequests, AnswersAreSound,
           Releasable, ScopeKind, ReleasedOnlyAfterBoundary, AnswerFollowsDecision

-----------------------------------------------------------------------------
(* What a step of the store leaves of the two tables. *)

\* A row stays, and a boundary once opened stays open.
LEMMA AttemptStays ==
    ASSUME StoreTypeOK, [StoreNext]_storeVars,
           NEW a \in AttemptId, attempt[a].state # "none"
    PROVE  /\ attempt'[a].state # "none"
           /\ attempt[a].external => attempt'[a].external
<1> DEFINE Stays == /\ attempt'[a].state # "none"
                    /\ attempt[a].external => attempt'[a].external
<1> USE DEF StoreTypeOK, Attempts
<1>1. ASSUME NEW b, NEW state \in AttemptStates, SetAttempt(b, state) PROVE Stays
    BY <1>1 DEF SetAttempt, AttemptStates
<1>2. ASSUME NEW b, MarkExternal(b) PROVE Stays
    BY <1>2 DEF MarkExternal
<1>3. ASSUME UNCHANGED attempt PROVE Stays
    BY <1>3
<1>4. CASE RunStep
  <2>1. CASE RecoverInFlight
    <3> DEFINE recovered == RecoveryStatus(\E b \in AttemptId :
                    attempt[b].state \in {"in_progress", "interrupted"} /\ attempt[b].external)
    <3>1. attempt'[a] = attempt[a] \/ attempt'[a] = [attempt[a] EXCEPT !.state = recovered]
        BY <2>1, Zenon DEF RecoverInFlight
    <3>2. recovered \in {"interrupted", "uncertain"}
        BY DEF RecoveryStatus
    <3> HIDE DEF recovered
    <3> QED BY <3>1, <3>2
  <2>2. CASE PrepareInterruptedRunForResume
      BY <2>2 DEF PrepareInterruptedRunForResume
  <2>3. ASSUME NEW ordinal, PrepareResearchRemediation(revision, ordinal) PROVE Stays
      BY <2>3 DEF PrepareResearchRemediation
  <2> QED BY <1>3, <1>4, <2>1, <2>2, <2>3
      DEF RunStep, TransitionRun, QuiesceRun, ResumeRunAfterApproval, SucceedRun, SetRunCycle
<1>5. ASSUME NEW b \in AttemptId, StageStep(b) PROVE Stays
  <2>1. ASSUME NEW stage, NEW ordinal, BeginStage(b, stage, ordinal) PROVE Stays
      BY <2>1 DEF BeginStage
  <2> QED BY <1>1, <1>2, <1>5, <2>1
      DEF StageStep, MarkActiveStageExternalSideEffects, CompleteStage,
          FailCollectStageAndQuiesceRun, PreparePlanContractRetry, AttemptStates
<1>6. ASSUME NEW p \in ApprovalId, ApprovalStep(p) PROVE Stays
    BY <1>2, <1>3, <1>6
    DEF ApprovalStep, CreateApproval, DecideApproval, DecideActiveApproval, BeginEngineeringJob
<1> QED BY <1>3, <1>4, <1>5, <1>6 DEF StoreNext, storeVars

\* A recorded scope stays what it is, and an approval is never taken back.
LEMMA ScopeStays ==
    ASSUME StoreTypeOK, [StoreNext]_storeVars,
           NEW p \in ApprovalId, approval[p].state # "none"
    PROVE  /\ approval'[p].state # "none"
           /\ approval'[p].attempt = approval[p].attempt
           /\ approval'[p].kind = approval[p].kind
           /\ approval[p].state = "approved" => approval'[p].state = "approved"
<1> DEFINE Stays == /\ approval'[p].state # "none"
                    /\ approval'[p].attempt = approval[p].attempt
                    /\ approval'[p].kind = approval[p].kind
                    /\ approval[p].state = "approved" => approval'[p].state = "approved"
<1> USE DEF StoreTypeOK, Approvals
<1>1. ASSUME approval' = Retired \/ approval' = approval PROVE Stays
    BY <1>1 DEF Retired
<1>2. ASSUME NEW q \in Pending, NEW state \in {"approved", "denied"},
             approval' = [approval EXCEPT ![q].state = state]
      PROVE  Stays
    BY <1>2 DEF Pending
<1>3. CASE RunStep
  <2>1. CASE RecoverInFlight
      BY <2>1 DEF RecoverInFlight, Pending
  <2> QED BY <1>1, <1>3, <2>1
      DEF RunStep, TransitionRun, QuiesceRun, ResumeRunAfterApproval, SucceedRun, SetRunCycle,
          PrepareInterruptedRunForResume, PrepareResearchRemediation
<1>4. ASSUME NEW a \in AttemptId, StageStep(a) PROVE Stays
    BY <1>1, <1>4
    DEF StageStep, BeginStage, MarkActiveStageExternalSideEffects, CompleteStage,
        FailCollectStageAndQuiesceRun, PreparePlanContractRetry
<1>5. ASSUME NEW q \in ApprovalId, ApprovalStep(q) PROVE Stays
  <2>1. ASSUME NEW a, NEW kind, CreateApproval(q, a, kind) PROVE Stays
      BY <2>1 DEF CreateApproval
  <2>2. ASSUME NEW decision \in {"approved", "denied"}, DecideActiveApproval(q, decision)
        PROVE  Stays
      BY <1>2, <2>2 DEF DecideActiveApproval
  <2>3. CASE DecideApproval(q, "approved")
      BY <1>2, <2>3 DEF DecideApproval
  <2>4. ASSUME NEW a, BeginEngineeringJob(a, q) PROVE Stays
      BY <1>1, <2>4 DEF BeginEngineeringJob
  <2> QED BY <1>5, <2>1, <2>2, <2>3, <2>4 DEF ApprovalStep
<1> QED BY <1>1, <1>3, <1>4, <1>5 DEF StoreNext, storeVars

\* No row appears and none is approved.
NoGain ==
    \A p \in ApprovalId :
        /\ approval'[p].state # "none" => approval[p].state # "none"
        /\ approval'[p].state = "approved" => approval[p].state = "approved"

\* Every transaction that is not about one approval gains none.
LEMMA OtherStepsGainNothing ==
    ASSUME StoreTypeOK,
           \/ RunStep
           \/ \E a \in AttemptId : StageStep(a)
           \/ \E a \in AttemptId, p \in ApprovalId : BeginEngineeringJob(a, p)
           \/ UNCHANGED storeVars
    PROVE  NoGain
<1>1. ASSUME approval' = Retired \/ approval' = approval PROVE NoGain
    BY <1>1 DEF Retired, NoGain, StoreTypeOK, Approvals
<1>2. CASE RecoverInFlight
    BY <1>2 DEF RecoverInFlight, Pending, NoGain, StoreTypeOK, Approvals
<1>3. CASE RunStep
    BY <1>1, <1>2, <1>3
    DEF RunStep, TransitionRun, QuiesceRun, ResumeRunAfterApproval, SucceedRun, SetRunCycle,
        PrepareInterruptedRunForResume, PrepareResearchRemediation
<1>4. ASSUME NEW a \in AttemptId, StageStep(a) PROVE NoGain
    BY <1>1, <1>4
    DEF StageStep, BeginStage, MarkActiveStageExternalSideEffects, CompleteStage,
        FailCollectStageAndQuiesceRun, PreparePlanContractRetry
<1> QED BY <1>1, <1>3, <1>4 DEF BeginEngineeringJob, storeVars

\* A decision and its boundary are one transaction, so an approved external
\* scope is durable from then on, whoever calls the store.
LEMMA ScopesStep ==
    StoreTypeOK /\ ScopesAreDurable /\ [StoreNext]_storeVars => ScopesAreDurable'
<1> SUFFICES ASSUME StoreTypeOK, ScopesAreDurable, [StoreNext]_storeVars,
                    NEW p \in ApprovalId, approval'[p].state # "none"
             PROVE  /\ approval'[p].attempt \in AttemptId
                    /\ attempt'[approval'[p].attempt].state # "none"
                    /\ approval'[p].state = "approved" /\ approval'[p].kind = "external" =>
                         attempt'[approval'[p].attempt].external
    BY DEF ScopesAreDurable
<1> DEFINE Durable == /\ approval'[p].attempt \in AttemptId
                      /\ attempt'[approval'[p].attempt].state # "none"
                      /\ approval'[p].state = "approved" /\ approval'[p].kind = "external" =>
                           attempt'[approval'[p].attempt].external
<1>1. ASSUME approval[p].state # "none",
             approval'[p].state = "approved" => approval[p].state = "approved"
      PROVE  Durable
    BY <1>1, ScopeStays, AttemptStays DEF ScopesAreDurable
<1>2. ASSUME NoGain PROVE Durable
    BY <1>1, <1>2 DEF NoGain
<1>3. ASSUME NEW q \in ApprovalId, ApprovalStep(q) PROVE Durable
  <2>1. ASSUME NEW a \in AttemptId, NEW kind, CreateApproval(q, a, kind) PROVE Durable
    <3>1. CASE p = q
      <4>1. approval'[p] = [state |-> "pending", attempt |-> a, kind |-> kind]
          BY <2>1, <3>1 DEF CreateApproval, StoreTypeOK
      <4>2. attempt'[a].state # "none"
          BY <2>1 DEF CreateApproval, MayCreateApproval, InProgress
      <4> QED BY <4>1, <4>2
    <3>2. CASE p # q
        BY <1>1, <2>1, <3>2 DEF CreateApproval, StoreTypeOK
    <3> QED BY <3>1, <3>2
  <2>2. CASE DecideApproval(q, "approved") /\ approval[q].kind = "solver"
    <3>1. approval[p].state # "none" /\ approval'[p].kind = approval[p].kind
          /\ (p # q => approval'[p] = approval[p])
        BY <2>2 DEF DecideApproval, Pending, StoreTypeOK, Approvals
    <3>2. attempt' = attempt /\ approval'[p].attempt = approval[p].attempt
        BY <2>2, <3>1, ScopeStays DEF DecideApproval
    <3> QED BY <2>2, <3>1, <3>2 DEF ScopesAreDurable
  <2>3. ASSUME NEW decision \in {"approved", "denied"}, DecideActiveApproval(q, decision)
        PROVE  Durable
    <3>1. q \in Pending /\ approval[p].state # "none"
          /\ (p # q => approval'[p] = approval[p])
        BY <2>3 DEF DecideActiveApproval, Pending, StoreTypeOK, Approvals
    <3>2. CASE p # q
        BY <1>1, <3>1, <3>2
    <3>3. CASE p = q /\ approval'[p].state = "approved" /\ approval[p].kind = "external"
      <4>1. MarkExternal(approval[p].attempt)
          BY <2>3, <3>1, <3>3 DEF DecideActiveApproval, StoreTypeOK, Approvals
      <4>2. approval[p].attempt \in AttemptId /\ approval'[p].attempt = approval[p].attempt
          BY <3>1, ScopeStays DEF ScopesAreDurable
      <4>3. attempt'[approval[p].attempt].external
          BY <4>1, <4>2 DEF MarkExternal, StoreTypeOK, Attempts
      <4> QED BY <3>1, <4>2, <4>3, AttemptStays DEF ScopesAreDurable
    <3>4. CASE p = q /\ ~(approval'[p].state = "approved" /\ approval[p].kind = "external")
        BY <3>1, <3>4, ScopeStays, AttemptStays DEF ScopesAreDurable
    <3> QED BY <3>2, <3>3, <3>4
  <2>4. ASSUME NEW a \in AttemptId, BeginEngineeringJob(a, q) PROVE Durable
      BY <1>2, <2>4, OtherStepsGainNothing
  <2> QED BY <1>3, <2>1, <2>2, <2>3, <2>4 DEF ApprovalStep
<1>4. CASE RunStep \/ (\E a \in AttemptId : StageStep(a)) \/ UNCHANGED storeVars
    BY <1>2, <1>4, OtherStepsGainNothing
<1> QED BY <1>3, <1>4 DEF StoreNext

-----------------------------------------------------------------------------
(* What a step of the flow leaves of the requests and adds to the tables. *)

\* A request keeps its turn and its kind, and goes on through its states.
RequestGoesOn(r) ==
    /\ request'[r].turn = request[r].turn
    /\ request'[r].kind = request[r].kind
    /\ request'[r].state # "none"
    /\ request[r].state # "queued" => request'[r].state # "queued"

\* An answer set once is the router's, from its place, or that of a decision.
AnswerIsDue(r) ==
    /\ request'[r].state = "accepted" =>
         \/ request[r].state = "accepted"
         \/ Held(r) /\ Releasable(r)
    /\ request'[r].state = "declined" =>
         \/ request[r].state = "declined"
         \/ Held(r) /\ approval[r].state # "approved"

\* Every request that was made goes on, and is answered as it should be.
LEMMA RequestStep ==
    ASSUME FlowInv, AnswerInv, [FlowNext]_flowVars, NEW r \in ApprovalId
    PROVE  /\ request[r].state # "none" => RequestGoesOn(r)
           /\ AnswerIsDue(r)
<1> DEFINE Sound == /\ request[r].state # "none" => RequestGoesOn(r)
                    /\ AnswerIsDue(r)
<1> USE DEF FlowInv, FlowTypeOK, RouterTypeOK, RequestGoesOn, AnswerIsDue
<1>1. ASSUME UNCHANGED request PROVE Sound
    BY <1>1
<1>2. ASSUME NEW q \in ApprovalId, Held(q), NEW answer \in {"accepted", "declined"},
             Answered(q, answer),
             IF answer = "accepted" THEN Releasable(q) ELSE approval[q].state # "approved"
      PROVE  Sound
    BY <1>2 DEF Answered
<1>3. CASE Router
  <2>1. ASSUME NEW q \in ApprovalId, RouterTakes(q) PROVE Sound
      BY <2>1 DEF RouterTakes
  <2>2. CASE RouterAnswers \/ RouterLosesAnswer
    <3>1. /\ Handled \in ApprovalId /\ Held(Handled)
          /\ \/ UNCHANGED request
             \/ router.at = "accept" /\ Answered(Handled, "accepted")
             \/ router.at = "decline" /\ Answered(Handled, "declined")
        BY <2>2 DEF RouterAnswers, RouterLosesAnswer, HandledIsSound, Held
    <3>2. IF router.at = "accept" THEN Releasable(Handled) ELSE approval[Handled].state # "approved"
        BY <2>2 DEF RouterAnswers, RouterLosesAnswer, AnswerInv, PlaceIsSound
    <3> QED BY <1>1, <1>2, <3>1, <3>2
  <2> QED BY <1>1, <1>3, <2>1, <2>2
      DEF Router, RouterMarks, RouterAuthorizes, RouterConfirms, RouterFailsRetry,
          RouterLoads, RouterCreates, RouterWaits
<1>4. ASSUME NEW q \in ApprovalId, User(q) PROVE Sound
  <2>1. CASE Responds(q) \/ ResponseFails(q)
    <3>1. /\ Held(q)
          /\ \/ UNCHANGED request
             \/ Answered(q, IF approval[q].state = "approved" THEN "accepted" ELSE "declined")
        BY <2>1 DEF Responds, ResponseFails, Held
    <3>2. approval[q].state = "approved" => Releasable(q)
        BY DEF AnswerInv, RowsMatchRequests, Releasable
    <3>3. CASE approval[q].state = "approved"
        BY <1>1, <1>2, <3>1, <3>2, <3>3
    <3>4. CASE approval[q].state # "approved"
        BY <1>1, <1>2, <3>1, <3>4
    <3> QED BY <3>3, <3>4
  <2> QED BY <1>1, <1>4, <2>1
      DEF User, Decides, DecisionIsLost, Resumes, ResumeFails, routerVars
<1>5. ASSUME NEW a \in AskingTurns, NEW q \in ApprovalId, NEW kind \in AskedKinds, Asks(a, q, kind)
      PROVE  Sound
    BY <1>5 DEF Asks
<1>6. CASE Restart
  <2>1. request'[r] = request[r] \/ request'[r] = [request[r] EXCEPT !.state = "lost"]
      BY <1>6 DEF Restart
  <2> QED BY <2>1
<1>7. CASE UNCHANGED routerVars
    BY <1>1, <1>7 DEF routerVars
<1>8. ASSUME NEW a \in AttemptId, Worker(a) PROVE UNCHANGED routerVars
    BY <1>8
    DEF Worker, WorkerBegins, WorkerIsStopped, WorkerIsNotPrepared, TurnSucceeds, TurnFails,
        TurnIsBroken, CollectorQuiesces, CollectorReturns
<1>9. ASSUME Engine PROVE UNCHANGED routerVars
    BY <1>9
    DEF Engine, StartRun, FinishPlan, FinishCollection, FinishStage, AbortReads, AbortCommits
<1> QED BY <1>3, <1>4, <1>5, <1>6, <1>7, <1>8, <1>9
    DEF FlowNext, SolverBegins, CancelSignals, CancelQuiesces, FinishErroredRun, ShutdownBegins,
        flowVars

\* A row that appears is that of the request the router handles.
RowIsDue(p) ==
    approval[p].state = "none" /\ approval'[p].state # "none" =>
        /\ router.at \in {"authorize", "create"} /\ p = Handled
        /\ approval'[p].state = "pending"
        /\ approval'[p].attempt = TurnOf(p)
        /\ approval'[p].kind = ScopeKind(request[p].kind)

\* An approval is the decision of the user, or of the planned path.
ApprovalIsDue(p) ==
    approval[p].state # "approved" /\ approval'[p].state = "approved" =>
        /\ UNCHANGED request
        /\ \/ p \in registered
           \/ router.at = "confirm" /\ p = Handled /\ router'.at = "accept"

\* Rows and approvals come from nowhere else.
LEMMA ApprovalStepIsDue ==
    ASSUME FlowInv, AnswerInv, [FlowNext]_flowVars, NEW p \in ApprovalId
    PROVE  RowIsDue(p) /\ ApprovalIsDue(p)
<1> DEFINE Due == RowIsDue(p) /\ ApprovalIsDue(p)
<1> USE DEF FlowInv, FlowTypeOK, RowIsDue, ApprovalIsDue
<1>1. ASSUME NoGain PROVE Due
    BY <1>1 DEF NoGain
<1>2. ASSUME \/ RunStep
             \/ \E a \in AttemptId : StageStep(a)
             \/ \E a \in AttemptId, q \in ApprovalId : BeginEngineeringJob(a, q)
             \/ UNCHANGED storeVars
             \/ UNCHANGED approval
      PROVE  Due
  <2>1. CASE UNCHANGED approval
      BY <2>1
  <2> QED BY <1>1, <1>2, <2>1, OtherStepsGainNothing
<1>3. ASSUME NEW next \in Endings, NEW expected, TransitionRun(expected, next) PROVE Due
  <2>1. RunStep
      BY <1>3 DEF RunStep, TransitionRun, Endings
  <2> QED BY <1>2, <2>1
<1>4. ASSUME MarkUncertain PROVE Due
    BY <1>2, <1>3, <1>4 DEF MarkUncertain, Endings, RunStatuses
<1>5. ASSUME NEW q \in ApprovalId, NEW a, NEW kind, CreateApproval(q, a, kind),
             router.at \in {"authorize", "create"}, q = Handled, a = TurnOf(q),
             kind = ScopeKind(request[q].kind)
      PROVE  Due
    BY <1>5 DEF CreateApproval, StoreTypeOK
<1>6. CASE Router
  <2>1. router.at \notin {"idle", "stopped"} =>
           Handled \in ApprovalId /\ TurnOf(Handled) \in AttemptId
      BY DEF HandledIsSound, RequestsAreSound, TurnOf
  <2>2. CASE RouterMarks
      BY <1>2, <2>1, <2>2 DEF RouterMarks, StageStep
  <2>3. CASE RouterAuthorizes
      BY <1>2, <1>5, <2>1, <2>3 DEF RouterAuthorizes, AnswerInv, PlaceIsSound, ScopeKind
  <2>4. CASE RouterConfirms
    <3>1. CASE DecideApproval(Handled, "approved") /\ RouterGoes("accept") /\ UNCHANGED request
      <4>1. router'.at = "accept" /\ router.at = "confirm"
          BY <2>4, <3>1 DEF RouterConfirms, RouterGoes, RouterTypeOK
      <4>2. approval[p].state = "none" => approval'[p].state = "none"
          BY <2>1, <3>1 DEF DecideApproval, Pending, StoreTypeOK, Approvals
      <4>3. p # Handled => approval'[p] = approval[p]
          BY <2>1, <3>1 DEF DecideApproval, StoreTypeOK, Approvals
      <4> QED BY <3>1, <4>1, <4>2, <4>3
    <3> QED BY <1>2, <2>4, <3>1 DEF RouterConfirms
  <2>5. CASE RouterFailsRetry
      BY <1>2, <2>1, <2>5 DEF RouterFailsRetry, StageStep
  <2>6. CASE RouterCreates
    <3>1. request[Handled].kind = ScopeKind(request[Handled].kind)
        BY <2>6 DEF RouterCreates, HandledIsSound, ApprovalKinds, ScopeKind
    <3> QED BY <1>2, <1>5, <2>1, <2>6, <3>1 DEF RouterCreates
  <2>7. CASE RouterWaits
      BY <1>2, <1>3, <2>7 DEF RouterWaits, Endings, RunStatuses
  <2>8. CASE RouterLosesAnswer
      BY <1>2, <1>4, <2>8 DEF RouterLosesAnswer
  <2> QED BY <1>2, <1>6, <2>2, <2>3, <2>4, <2>5, <2>6, <2>7, <2>8
      DEF Router, RouterTakes, RouterLoads, RouterAnswers
<1>7. ASSUME NEW r \in ApprovalId, User(r) PROVE Due
  <2>1. ASSUME NEW decision, Decides(r, decision) PROVE Due
    <3>1. CASE r \in Pending /\ DecideActiveApproval(r, decision)
      <4>1. p # r => approval'[p] = approval[p]
          BY <3>1 DEF DecideActiveApproval, StoreTypeOK, Approvals
      <4>2. p = r => approval[p].state # "none"
          BY <3>1 DEF Pending
      <4> QED BY <2>1, <4>1, <4>2 DEF Decides
    <3> QED BY <1>2, <2>1, <3>1 DEF Decides
  <2>2. CASE Resumes(r)
      BY <1>2, <2>2 DEF Resumes, ResumeRunAfterApproval
  <2> QED BY <1>2, <1>4, <1>7, <2>1, <2>2
      DEF User, DecisionIsLost, ResumeFails, Responds, ResponseFails
<1>8. CASE Engine
  <2>1. ASSUME NEW from, NEW to \in Endings, NEW then, TransitionFrom(from, to, then) PROVE Due
      BY <1>2, <1>3, <2>1 DEF TransitionFrom
  <2>2. CASE AbortCommits
      BY <1>2, <1>3, <2>2 DEF AbortCommits, AbortIsSound
  <2> QED BY <1>2, <1>8, <2>1, <2>2
      DEF Engine, StartRun, FinishPlan, FinishCollection, FinishStage, AbortReads, Endings,
          RunStatuses, ActiveStatuses
<1>9. ASSUME NEW a \in AttemptId, Worker(a) PROVE Due
    BY <1>2, <1>9
    DEF Worker, WorkerBegins, WorkerIsStopped, WorkerIsNotPrepared, TurnSucceeds, TurnFails,
        TurnIsBroken, CollectorQuiesces, CollectorReturns, StageStep, BeginStage, CompleteStage
<1>10. ASSUME NEW requested \in {"cancelled", "failed"}, QuiesceOrLeave(requested) PROVE Due
    BY <1>2, <1>10 DEF QuiesceOrLeave, RunStep
<1>11. ASSUME NEW r \in ApprovalId, SolverBegins(r) PROVE Due
    BY <1>2, <1>11 DEF SolverBegins, BeginEngineeringJob
<1>12. CASE Restart
    BY <1>2, <1>12 DEF Restart, RunStep
<1> QED BY <1>2, <1>6, <1>7, <1>8, <1>9, <1>10, <1>11, <1>12
    DEF FlowNext, Asks, CancelSignals, CancelQuiesces, FinishErroredRun, ShutdownBegins, flowVars

\* Only a turn that asks makes a request.
LEMMA NoRequestAppears ==
    ASSUME FlowInv, [FlowNext]_flowVars, NEW r \in ApprovalId,
           request[r].state = "none", request'[r].state # "none"
    PROVE  \E a \in AskingTurns, q \in ApprovalId, kind \in AskedKinds : Asks(a, q, kind)
<1> USE DEF FlowInv, FlowTypeOK, RouterTypeOK
<1> SUFFICES ASSUME ~(\E a \in AskingTurns, q \in ApprovalId, kind \in AskedKinds : Asks(a, q, kind))
             PROVE  request'[r].state = "none"
    OBVIOUS
<1>1. ASSUME UNCHANGED request \/ \E q \in ApprovalId : \E answer : q # r /\ Answered(q, answer)
      PROVE  request'[r].state = "none"
    BY <1>1 DEF Answered
<1>2. CASE Router
  <2>1. ASSUME NEW q \in ApprovalId, RouterTakes(q) PROVE request'[r].state = "none"
      BY <2>1 DEF RouterTakes
  <2>2. CASE RouterAnswers \/ RouterLosesAnswer
    <3>1. Handled \in ApprovalId /\ Handled # r
        BY <2>2 DEF RouterAnswers, RouterLosesAnswer, HandledIsSound
    <3> QED BY <1>1, <2>2, <3>1 DEF RouterAnswers, RouterLosesAnswer
  <2> QED BY <1>1, <1>2, <2>1, <2>2
      DEF Router, RouterMarks, RouterAuthorizes, RouterConfirms, RouterFailsRetry,
          RouterLoads, RouterCreates, RouterWaits
<1>3. ASSUME NEW q \in ApprovalId, User(q) PROVE request'[r].state = "none"
  <2>1. CASE Responds(q) \/ ResponseFails(q)
    <3>1. q # r
        BY <2>1 DEF Responds, ResponseFails, RequestsAreSound
    <3> QED BY <1>1, <2>1, <3>1 DEF Responds, ResponseFails
  <2> QED BY <1>1, <1>3, <2>1
      DEF User, Decides, DecisionIsLost, Resumes, ResumeFails, routerVars
<1>4. CASE Restart
    BY <1>4 DEF Restart
<1>5. CASE UNCHANGED routerVars
    BY <1>1, <1>5 DEF routerVars
<1>6. ASSUME NEW a \in AttemptId, Worker(a) PROVE UNCHANGED routerVars
    BY <1>6
    DEF Worker, WorkerBegins, WorkerIsStopped, WorkerIsNotPrepared, TurnSucceeds, TurnFails,
        TurnIsBroken, CollectorQuiesces, CollectorReturns
<1>7. ASSUME Engine PROVE UNCHANGED routerVars
    BY <1>7
    DEF Engine, StartRun, FinishPlan, FinishCollection, FinishStage, AbortReads, AbortCommits
<1> QED BY <1>2, <1>3, <1>4, <1>5, <1>6, <1>7
    DEF FlowNext, SolverBegins, CancelSignals, CancelQuiesces, FinishErroredRun, ShutdownBegins,
        flowVars

-----------------------------------------------------------------------------
(* The invariant is inductive. *)

\* The row of a turn is written before the turn starts, and stays.
LEMMA TurnsStep ==
    ASSUME FlowInv, AnswerInv, [FlowNext]_flowVars
    PROVE  TurnsHaveRows'
<1> USE DEF FlowInv, FlowTypeOK
<1>0. \A a \in AttemptId : attempt[a].state # "none" => attempt'[a].state # "none"
    BY FlowStepIsStoreStep, AttemptStays
<1>1. ASSUME NEW a \in AttemptId, worker'[a] = "turn" PROVE attempt'[a].state # "none"
  <2>1. ASSUME worker[a] = "turn" PROVE attempt'[a].state # "none"
      BY <1>0, <2>1 DEF AnswerInv, TurnsHaveRows
  <2>2. CASE UNCHANGED worker
      BY <1>1, <2>1, <2>2
  <2>3. ASSUME NEW b \in AttemptId, Worker(b) PROVE attempt'[a].state # "none"
    <3>1. CASE WorkerBegins(b)
      <4>1. CASE a = b
          BY <3>1, <4>1 DEF WorkerBegins, BeginStage, StoreTypeOK
      <4>2. CASE a # b
          BY <1>1, <2>1, <3>1, <4>2 DEF WorkerBegins, EngineTypeOK
      <4> QED BY <4>1, <4>2
    <3>2. ASSUME NEW state \in {"failing", "quiescing", "returned"},
                 worker' = [worker EXCEPT ![b] = state]
          PROVE  attempt'[a].state # "none"
        BY <1>1, <2>1, <3>2 DEF EngineTypeOK
    <3> QED BY <2>3, <3>1, <3>2
        DEF Worker, WorkerIsStopped, WorkerIsNotPrepared, TurnSucceeds, TurnFails, TurnIsBroken,
            CollectorQuiesces, CollectorReturns, WorkerFails, WorkerReturns
  <2>4. ASSUME \/ EnterCrew("plan") \/ EnterCrew("collect") \/ AbortEnds
        PROVE  attempt'[a].state # "none"
      BY <1>1, <2>1, <2>4 DEF EnterCrew, AbortEnds, EngineTypeOK
  <2>5. CASE Engine
      BY <2>2, <2>4, <2>5
      DEF Engine, StartRun, FinishPlan, FinishCollection, AbortReads, AbortCommits
  <2>6. CASE Restart
      BY <1>1, <2>6 DEF Restart
  <2>7. CASE Router
      BY <2>2, <2>7
      DEF Router, RouterTakes, RouterMarks, RouterAuthorizes, RouterConfirms, RouterFailsRetry,
          RouterLoads, RouterCreates, RouterWaits, RouterAnswers, RouterLosesAnswer, engineVars
  <2>8. ASSUME NEW r \in ApprovalId, User(r) \/ SolverBegins(r) PROVE UNCHANGED worker
      BY <2>8
      DEF User, Decides, DecisionIsLost, Resumes, ResumeFails, Responds, ResponseFails,
          SolverBegins, engineVars
  <2> QED BY <2>2, <2>3, <2>5, <2>6, <2>7, <2>8
      DEF FlowNext, Asks, CancelSignals, CancelQuiesces, FinishErroredRun, ShutdownBegins,
          engineVars, flowVars
<1>2. ASSUME NEW r \in ApprovalId, request'[r].state # "none"
      PROVE  attempt'[request'[r].turn].state # "none"
  <2>1. CASE request[r].state # "none"
    <3>1. request'[r].turn = request[r].turn /\ request[r].turn \in AttemptId
        BY <2>1, RequestStep DEF RequestGoesOn, RequestsAreSound
    <3> QED BY <1>0, <2>1, <3>1 DEF AnswerInv, TurnsHaveRows
  <2>2. CASE request[r].state = "none"
    <3>1. PICK a \in AskingTurns, q \in ApprovalId, kind \in AskedKinds : Asks(a, q, kind)
        BY <1>2, <2>2, NoRequestAppears
    <3>2. q = r /\ request'[r].turn = a /\ a \in AttemptId /\ worker[a] = "turn"
        BY <1>2, <2>2, <3>1, FlowAssumption DEF Asks, RouterTypeOK
    <3> QED BY <1>0, <3>2 DEF AnswerInv, TurnsHaveRows
  <2> QED BY <2>1, <2>2
<1> QED BY <1>1, <1>2 DEF TurnsHaveRows

\* A row matches its request when it is created, and neither changes.
LEMMA RowsStep ==
    ASSUME FlowInv, AnswerInv, [FlowNext]_flowVars
    PROVE  RowsMatchRequests'
<1> USE DEF FlowInv, FlowTypeOK
<1> SUFFICES ASSUME NEW r \in ApprovalId, approval'[r].state # "none"
             PROVE  /\ request'[r].state \notin {"none", "queued"}
                    /\ request'[r].kind # "auto"
                    /\ approval'[r].attempt = request'[r].turn
                    /\ approval'[r].kind = ScopeKind(request'[r].kind)
    BY DEF RowsMatchRequests
<1>1. request[r].state # "none" => RequestGoesOn(r)
    BY RequestStep
<1>2. CASE approval[r].state # "none"
  <2>1. approval'[r].attempt = approval[r].attempt /\ approval'[r].kind = approval[r].kind
      BY <1>2, FlowStepIsStoreStep, ScopeStays
  <2> QED BY <1>1, <1>2, <2>1 DEF AnswerInv, RowsMatchRequests, RequestGoesOn
<1>3. CASE approval[r].state = "none"
  <2>1. /\ router.at \in {"authorize", "create"} /\ r = Handled
        /\ approval'[r].attempt = TurnOf(r)
        /\ approval'[r].kind = ScopeKind(request[r].kind)
      BY <1>3, ApprovalStepIsDue DEF RowIsDue
  <2>2. request[r].state \notin {"none", "queued"}
      BY <2>1 DEF HandledIsSound
  <2>3. request[r].kind # "auto"
      BY <2>1 DEF HandledIsSound, ApprovalKinds, AnswerInv, PlaceIsSound
  <2> QED BY <1>1, <2>1, <2>2, <2>3 DEF RequestGoesOn, TurnOf
<1> QED BY <1>2, <1>3

\* What may be released stays so.
LEMMA ReleasableStays ==
    ASSUME FlowInv, AnswerInv, [FlowNext]_flowVars, NEW r \in ApprovalId,
           request[r].state # "none", Releasable(r)
    PROVE  Releasable(r)'
<1> USE DEF FlowInv, FlowTypeOK
<1>1. request'[r].turn = request[r].turn /\ request'[r].kind = request[r].kind
    BY RequestStep DEF RequestGoesOn
<1>2. CASE request[r].kind = "auto"
  <2>1. request[r].turn \in AttemptId /\ attempt[request[r].turn].state # "none"
      BY DEF RequestsAreSound, AnswerInv, TurnsHaveRows
  <2>2. attempt[request[r].turn].external
      BY <1>2 DEF Releasable
  <2> QED BY <1>1, <1>2, <2>1, <2>2, FlowStepIsStoreStep, AttemptStays DEF Releasable
<1>3. CASE request[r].kind # "auto"
  <2>1. approval[r].state = "approved"
      BY <1>3 DEF Releasable
  <2>2. approval'[r].state = "approved"
      BY <2>1, FlowStepIsStoreStep, ScopeStays
  <2> QED BY <1>1, <1>3, <2>2 DEF Releasable
<1> QED BY <1>2, <1>3

\* Every answer is the one that was due, and stays the right one: the row of an
\* answered request changes no more.
LEMMA AnswersStep ==
    ASSUME FlowInv, AnswerInv, [FlowNext]_flowVars
    PROVE  AnswersAreSound'
<1> USE DEF FlowInv, FlowTypeOK
<1>1. ASSUME NEW r \in ApprovalId, request'[r].state = "accepted" PROVE Releasable(r)'
  <2>1. Releasable(r) /\ request[r].state # "none"
      BY <1>1, RequestStep DEF AnswerIsDue, AnswerInv, AnswersAreSound, HeldIsOpen
  <2> QED BY <2>1, ReleasableStays
<1>2. ASSUME NEW r \in ApprovalId, request'[r].state = "declined"
      PROVE  approval'[r].state # "approved"
  <2>1. approval[r].state # "approved"
      BY <1>2, RequestStep DEF AnswerIsDue, AnswerInv, AnswersAreSound
  <2> SUFFICES ASSUME approval'[r].state = "approved" PROVE FALSE
      OBVIOUS
  <2>2. /\ UNCHANGED request
        /\ r \in registered \/ (router.at = "confirm" /\ r = Handled)
      BY <2>1, ApprovalStepIsDue DEF ApprovalIsDue
  <2>3. Held(r)
      BY <2>2 DEF Held
  <2> QED BY <1>2, <2>2, <2>3 DEF AnswerInv, HeldIsOpen
<1> QED BY <1>1, <1>2 DEF AnswersAreSound

\* Nobody takes up a request but the router, and an answer lets it go.
LEMMA HeldStep ==
    ASSUME FlowInv, AnswerInv, [FlowNext]_flowVars
    PROVE  HeldIsOpen'
<1> SUFFICES ASSUME NEW r \in ApprovalId, Held(r)' PROVE request'[r].state = "open"
    BY DEF HeldIsOpen
<1> USE DEF FlowInv, FlowTypeOK, RouterTypeOK, Held
<1>1. ASSUME Held(r), request'[r].state = request[r].state PROVE request'[r].state = "open"
    BY <1>1 DEF AnswerInv, HeldIsOpen
<1>2. CASE UNCHANGED routerVars
  <2>1. Held(r)
      BY <1>2 DEF routerVars, Handled
  <2> QED BY <1>1, <1>2, <2>1 DEF routerVars
<1>3. CASE Router
  <2>1. ASSUME NEW q \in ApprovalId, RouterTakes(q) PROVE request'[r].state = "open"
    <3>1. CASE q = r
        BY <2>1, <3>1 DEF RouterTakes
    <3>2. CASE q # r
      <4>1. Handled' = q
          BY <2>1 DEF RouterTakes, IdleRouter, Handled
      <4> QED BY <1>1, <2>1, <3>2, <4>1 DEF RouterTakes
    <3> QED BY <3>1, <3>2
  <2>2. CASE RouterAnswers \/ RouterLosesAnswer
    <3>1. /\ Handled \in ApprovalId /\ Handled \notin registered /\ decider[Handled] = "idle"
          /\ router'.at \in {"idle", "stopped"}
          /\ UNCHANGED <<registered, decider>>
        BY <2>2 DEF RouterAnswers, RouterLosesAnswer, HandledIsSound, IdleRouter, RouterGoes
    <3>2. r # Handled /\ Held(r)
        BY <3>1
    <3>3. UNCHANGED request \/ \E answer : Answered(Handled, answer)
        BY <2>2 DEF RouterAnswers, RouterLosesAnswer
    <3> QED BY <1>1, <3>1, <3>2, <3>3 DEF Answered
  <2>3. ASSUME UNCHANGED <<registered, decider, request>>, router.at \notin {"idle", "stopped"},
               NEW at, RouterGoes(at)
        PROVE  request'[r].state = "open"
    <3>1. Handled' = Handled
        BY <2>3 DEF RouterGoes, Handled
    <3> QED BY <1>1, <2>3, <3>1
  <2>4. CASE RouterLoads
    <3>1. Handled' = Handled /\ router.at = "load" /\ UNCHANGED <<registered, decider, request>>
        BY <2>4 DEF RouterLoads, RouterGoes, Handled
    <3> QED BY <1>1, <3>1
  <2>5. CASE RouterWaits /\ Registers
    <3>1. /\ router.at = "wait" /\ UNCHANGED <<decider, request>>
          /\ registered' = registered \cup {Handled} /\ router'.at = "idle"
        BY <2>5 DEF RouterWaits, Registers, IdleRouter
    <3> QED BY <1>1, <3>1
  <2> QED BY <1>3, <2>1, <2>2, <2>3, <2>4, <2>5
      DEF Router, RouterMarks, RouterAuthorizes, RouterConfirms, RouterFailsRetry, RouterCreates,
          RouterWaits
<1>4. ASSUME NEW q \in ApprovalId, User(q) PROVE request'[r].state = "open"
  <2>1. CASE Responds(q) \/ ResponseFails(q)
    <3>1. /\ q # Handled \/ router.at \in {"idle", "stopped"}
          /\ UNCHANGED router
          /\ registered' = registered \ {q}
          /\ decider' = [decider EXCEPT ![q] = "idle"]
        BY <2>1 DEF Responds, ResponseFails, Forgets, HandledIsSound
    <3>2. r # q /\ Held(r)
        BY <3>1 DEF Handled
    <3>3. UNCHANGED request \/ \E answer : Answered(q, answer)
        BY <2>1 DEF Responds, ResponseFails
    <3> QED BY <1>1, <3>2, <3>3 DEF Answered
  <2>2. CASE \/ \E decision \in {"approved", "denied"} : Decides(q, decision)
             \/ Resumes(q) \/ ResumeFails(q)
    <3>1. /\ UNCHANGED <<router, request>> /\ registered' \subseteq registered
          /\ \/ UNCHANGED decider
             \/ (q \in registered \/ decider[q] = "resume") /\ \E how : decider' = [decider EXCEPT ![q] = how]
        BY <2>2 DEF Decides, Resumes, ResumeFails, Forgets
    <3>2. Held(r)
        BY <3>1 DEF Handled
    <3> QED BY <1>1, <3>1, <3>2
  <2> QED BY <1>2, <1>4, <2>1, <2>2 DEF User, DecisionIsLost
<1>5. ASSUME NEW a \in AskingTurns, NEW q \in ApprovalId, NEW kind \in AskedKinds, Asks(a, q, kind)
      PROVE  request'[r].state = "open"
  <2>1. Held(r) /\ request[r].state = "open"
      BY <1>5 DEF Asks, Handled, AnswerInv, HeldIsOpen
  <2> QED BY <1>5, <2>1 DEF Asks
<1>6. CASE Restart
    BY <1>6 DEF Restart, IdleRouter
<1>7. ASSUME NEW a \in AttemptId, Worker(a) PROVE UNCHANGED routerVars
    BY <1>7
    DEF Worker, WorkerBegins, WorkerIsStopped, WorkerIsNotPrepared, TurnSucceeds, TurnFails,
        TurnIsBroken, CollectorQuiesces, CollectorReturns
<1>8. ASSUME Engine PROVE UNCHANGED routerVars
    BY <1>8
    DEF Engine, StartRun, FinishPlan, FinishCollection, FinishStage, AbortReads, AbortCommits
<1> QED BY <1>2, <1>3, <1>4, <1>5, <1>6, <1>7, <1>8
    DEF FlowNext, SolverBegins, CancelSignals, CancelQuiesces, FinishErroredRun, ShutdownBegins,
        flowVars

\* The router accepts only what it made durable or what was approved, at the
\* moment it decides to accept and at any later one.
LEMMA PlaceStep ==
    ASSUME FlowInv, AnswerInv, [FlowNext]_flowVars
    PROVE  PlaceIsSound'
<1> USE DEF FlowInv, FlowTypeOK
<1>1. ASSUME router'.at \in {"idle", "stopped"} PROVE PlaceIsSound'
    BY <1>1 DEF PlaceIsSound
<1>2. ASSUME router.at \notin {"idle", "stopped"}
      PROVE  /\ Handled \in ApprovalId /\ Handled \notin registered
             /\ TurnOf(Handled) \in AttemptId
             /\ request[Handled].state # "none"
             /\ request'[Handled].kind = request[Handled].kind
             /\ request'[Handled].turn = request[Handled].turn
             /\ PlaceIsSound
    BY <1>2, RequestStep DEF HandledIsSound, RequestGoesOn, AnswerInv, RequestsAreSound, TurnOf
<1>3. CASE UNCHANGED router
  <2> SUFFICES ASSUME router.at \notin {"idle", "stopped"} PROVE PlaceIsSound'
      BY <1>3 DEF PlaceIsSound
  <2>1. PICK h \in ApprovalId : h = Handled
      BY <1>2
  <2>2. Handled' = h /\ request'[h].kind = request[h].kind /\ request[h].state # "none"
      BY <1>2, <1>3, <2>1 DEF Handled
  <2>3. router.at = "accept" => Releasable(h)'
    <3>1. router.at = "accept" => Releasable(h)
        BY <1>2, <2>1 DEF PlaceIsSound
    <3> QED BY <2>2, <3>1, ReleasableStays
  <2>4. router.at # "accept" => approval'[h].state # "approved"
      BY <1>2, <1>3, <2>1, ApprovalStepIsDue DEF ApprovalIsDue, PlaceIsSound
  <2>5. /\ router.at = "mark" => request[h].kind = "auto"
        /\ router.at \in {"authorize", "confirm"} => request[h].kind = "planned"
      BY <1>2, <2>1 DEF PlaceIsSound
  <2> QED BY <1>3, <2>2, <2>3, <2>4, <2>5 DEF PlaceIsSound, Releasable
<1>4. ASSUME router.at \notin {"idle", "stopped", "accept"}, Handled' = Handled,
             router'.at \notin {"accept", "mark", "authorize"},
             router'.at = "confirm" => router.at = "authorize"
      PROVE  PlaceIsSound'
  <2>1. approval'[Handled].state # "approved"
      BY <1>2, <1>4, ApprovalStepIsDue DEF ApprovalIsDue, PlaceIsSound
  <2> QED BY <1>2, <1>4, <2>1 DEF PlaceIsSound
<1>5. CASE Router
  <2>1. ASSUME NEW r \in ApprovalId, RouterTakes(r) PROVE PlaceIsSound'
    <3>1. PICK at \in {"decline", "mark", "authorize", "retry", "load"} :
            /\ router' = [IdleRouter EXCEPT !.at = at, !.request = r]
            /\ at = "mark" => request[r].kind = "auto"
            /\ at = "authorize" => request[r].kind = "planned"
        BY <2>1 DEF RouterTakes, AllowedByPolicy, AuthorizedByPlan
    <3>2. router'.at = at /\ Handled' = r
        BY <3>1 DEF IdleRouter, Handled
    <3>3. /\ request[r].state = "queued" /\ UNCHANGED approval
          /\ request'[r].kind = request[r].kind
        BY <2>1, RequestStep DEF RouterTakes, storeVars, RequestGoesOn
    <3>4. approval'[r].state # "approved"
        BY <3>3 DEF AnswerInv, RowsMatchRequests
    <3> QED BY <3>1, <3>2, <3>3, <3>4 DEF PlaceIsSound
  <2>2. ASSUME NEW at \in {"decline", "confirm", "wait"}, RouterGoes(at),
               router.at \notin {"idle", "stopped", "accept"},
               at = "confirm" => router.at = "authorize"
        PROVE  PlaceIsSound'
    <3>1. Handled' = Handled /\ router'.at = at
        BY <2>2 DEF RouterGoes, Handled, RouterTypeOK
    <3> QED BY <1>4, <2>2, <3>1
  <2>3. ASSUME RouterGoes("accept"), router.at \in {"mark", "confirm"}, Releasable(Handled)'
        PROVE  PlaceIsSound'
    <3>1. Handled' = Handled /\ router'.at = "accept"
        BY <2>3 DEF RouterGoes, Handled, RouterTypeOK
    <3> QED BY <2>3, <3>1 DEF PlaceIsSound, Releasable
  <2>4. CASE RouterMarks
    <3>1. CASE MarkActiveStageExternalSideEffects(TurnOf(Handled)) /\ RouterGoes("accept")
      <4>1. router.at = "mark" /\ request' = request
          BY <2>4 DEF RouterMarks
      <4>2. attempt'[TurnOf(Handled)].external
          BY <1>2, <3>1, <4>1
          DEF MarkActiveStageExternalSideEffects, MarkExternal, StoreTypeOK, Attempts
      <4>3. Handled' = Handled
          BY <3>1, <4>1 DEF RouterGoes, Handled, RouterTypeOK
      <4>4. request[Handled].kind = "auto"
          BY <1>2, <4>1 DEF PlaceIsSound
      <4>5. Releasable(Handled)'
          BY <4>1, <4>2, <4>3, <4>4 DEF Releasable, TurnOf
      <4> QED BY <2>3, <3>1, <4>1, <4>5
    <3> QED BY <2>2, <2>4, <3>1 DEF RouterMarks
  <2>5. CASE RouterConfirms
    <3>1. CASE DecideApproval(Handled, "approved") /\ RouterGoes("accept")
      <4>1. router.at = "confirm" /\ request' = request
          BY <2>5 DEF RouterConfirms
      <4>2. approval'[Handled].state = "approved"
          BY <1>2, <3>1, <4>1 DEF DecideApproval, StoreTypeOK, Approvals
      <4>3. Handled' = Handled
          BY <3>1, <4>1 DEF RouterGoes, Handled, RouterTypeOK
      <4>4. request[Handled].kind = "planned"
          BY <1>2, <4>1 DEF PlaceIsSound
      <4>5. Releasable(Handled)'
          BY <4>1, <4>2, <4>3, <4>4 DEF Releasable
      <4> QED BY <2>3, <3>1, <4>1, <4>5
    <3> QED BY <2>2, <2>5, <3>1 DEF RouterConfirms
  <2>6. CASE RouterLoads
    <3>1. /\ Handled' = Handled /\ router.at = "load"
          /\ router'.at \in {"create", "decline"}
        BY <2>6 DEF RouterLoads, RouterGoes, Handled, RouterTypeOK
    <3> QED BY <1>4, <3>1
  <2>7. CASE RouterWaits
    <3>1. Registers => router'.at = "idle"
        BY DEF Registers, IdleRouter
    <3> QED BY <1>1, <2>2, <2>7, <3>1 DEF RouterWaits
  <2>8. CASE RouterAnswers \/ RouterLosesAnswer
    <3>1. router'.at \in {"idle", "stopped"}
        BY <2>8 DEF RouterAnswers, RouterLosesAnswer, IdleRouter, RouterGoes, RouterTypeOK
    <3> QED BY <1>1, <3>1
  <2> QED BY <1>5, <2>1, <2>2, <2>4, <2>5, <2>6, <2>7, <2>8
      DEF Router, RouterAuthorizes, RouterFailsRetry, RouterCreates
<1>6. CASE Restart
  <2>1. router'.at = "idle"
      BY <1>6 DEF Restart, IdleRouter
  <2> QED BY <1>1, <2>1
<1>7. ASSUME NEW r \in ApprovalId, User(r) PROVE UNCHANGED router
    BY <1>7
    DEF User, Decides, DecisionIsLost, Resumes, ResumeFails, Responds, ResponseFails, routerVars
<1>8. ASSUME NEW a \in AttemptId, Worker(a) PROVE UNCHANGED router
    BY <1>8
    DEF Worker, WorkerBegins, WorkerIsStopped, WorkerIsNotPrepared, TurnSucceeds, TurnFails,
        TurnIsBroken, CollectorQuiesces, CollectorReturns, routerVars
<1>9. ASSUME Engine PROVE UNCHANGED router
    BY <1>9
    DEF Engine, StartRun, FinishPlan, FinishCollection, FinishStage, AbortReads, AbortCommits,
        routerVars
<1> QED BY <1>3, <1>5, <1>6, <1>7, <1>8, <1>9
    DEF FlowNext, Asks, SolverBegins, CancelSignals, CancelQuiesces, FinishErroredRun,
        ShutdownBegins, routerVars, flowVars

\* The invariant holds at first.
LEMMA AnswerInvInit == FlowInit => AnswerInv
<1> SUFFICES ASSUME FlowInit PROVE AnswerInv
    OBVIOUS
<1>1. /\ \A r \in ApprovalId : request[r].state = "none" /\ approval[r].state = "none"
                                /\ decider[r] = "idle"
      /\ \A a \in AttemptId : worker[a] = "idle"
      /\ registered = {} /\ router.at = "idle"
    BY DEF FlowInit, StoreInit, NoRequest, AbsentApproval, IdleRouter
<1> QED BY <1>1
    DEF AnswerInv, TurnsHaveRows, ScopesAreDurable, RowsMatchRequests, HeldIsOpen, Held,
        PlaceIsSound, AnswersAreSound

\* No step breaks it.
LEMMA AnswerInvStep == FlowInv /\ AnswerInv /\ [FlowNext]_flowVars => AnswerInv'
<1> SUFFICES ASSUME FlowInv, AnswerInv, [FlowNext]_flowVars PROVE AnswerInv'
    OBVIOUS
<1>1. ScopesAreDurable'
    BY FlowStepIsStoreStep, ScopesStep DEF FlowInv, FlowTypeOK, AnswerInv
<1> QED BY <1>1, TurnsStep, RowsStep, HeldStep, PlaceStep, AnswersStep DEF AnswerInv

\* It holds in every state.
LEMMA AnswerInvariant == FlowSpec => []AnswerInv
<1>1. FlowInit => AnswerInv
    BY AnswerInvInit
<1>2. FlowInv /\ AnswerInv /\ [FlowNext]_flowVars => AnswerInv'
    BY AnswerInvStep
<1> QED BY <1>1, <1>2, FlowInvariant, PTL DEF FlowSpec

-----------------------------------------------------------------------------
(* What Codex is told. *)

\* Codex is never released into an external action whose possible side effect
\* is not durable yet, nor into a solver without an approved exact scope, on
\* the automatic, the planned and the user's path.
THEOREM ReleaseFollowsBoundary == FlowSpec => []ReleasedOnlyAfterBoundary
<1>1. FlowInv /\ AnswerInv => ReleasedOnlyAfterBoundary
    BY AnswerInvImplies
<1> QED BY <1>1, FlowInvariant, AnswerInvariant, PTL

\* Whatever races with the decision, Codex never hears its opposite.
THEOREM AnswerIsTheDecision == FlowSpec => []AnswerFollowsDecision
<1>1. FlowInv /\ AnswerInv => AnswerFollowsDecision
    BY AnswerInvImplies
<1> QED BY <1>1, FlowInvariant, AnswerInvariant, PTL

-----------------------------------------------------------------------------
(* Part 3, the inductive invariant, on top of FlowInv. *)

Busy(a) == worker[a] \in {"ready", "turn", "failing", "quiescing"}

Quiescing == {a \in AttemptId : worker[a] = "quiescing"}

\* Goroutines run only for the stage the engine is in.
BusyInStage ==
    \A a \in AttemptId : Busy(a) => engine \in {"plan", "collect"} /\ a \in CrewOf(engine)

\* An abort has an owner: the engine, or the collector that quiesces.
AbortIsOwned == abort.at # "idle" => engine = "aborting" \/ Quiescing # {}

\* A collector only aborts for a failure.
CollectorAbortsForFailure ==
    Quiescing # {} => abort.cause = "failed" /\ abort.next \in {"failed", "uncertain"}

\* Nothing of a run that was interrupted still runs in the engine.
InterruptedIsOver == status = "interrupted" => engine \in {"returned", "over", "down"}

\* What an abort read is true as long as the revision is.
AbortReadIsSound ==
    abort.at = "commit" =>
        /\ abort.revision <= revision
        /\ abort.revision = revision => status \notin ClosedStatuses

VerdictInv ==
    /\ BusyInStage /\ AbortIsOwned /\ CollectorAbortsForFailure
    /\ InterruptedIsOver /\ AbortReadIsSound

-----------------------------------------------------------------------------
(* What a step does to the status. *)

\* A verdict stands, and only an abort or a restart interrupts a run.
VerdictStands ==
    /\ ClosedStep
    /\ status' = "interrupted" => status = "interrupted" \/ AbortCommits \/ Restart

\* Statuses that are open when they are left.
LEMMA OpenLemma ==
    /\ \A s \in ClosedStatuses : ~CanTransition(s, "waiting_approval")
    /\ {"queued", "planning", "collecting", "waiting_approval"} \cap ClosedStatuses = {}
    /\ InFlightStatuses \cap ClosedStatuses = {}
    BY DEF CanTransition, AllowedTransitions, Exits, ClosedStatuses, TerminalStatuses,
           InFlightStatuses, ActiveStatuses

\* A write of the status from an open run, that does not interrupt it.
LEMMA OpenWrite ==
    ASSUME status \notin ClosedStatuses, status' # "interrupted"
    PROVE  VerdictStands
    BY DEF VerdictStands, ClosedStep

\* A step that leaves the status.
LEMMA StatusRests == status' = status => VerdictStands
    BY DEF VerdictStands, ClosedStep

\* markUncertain leaves a closed run alone.
LEMMA UncertainStands ==
    ASSUME MarkUncertain
    PROVE  VerdictStands
    BY OpenWrite, StatusRests DEF MarkUncertain, TransitionRun, SetStatus, storeVars

\* A cancellation or clean-up leaves a closed run alone, but for the user's
\* cancellation of an interrupted one.
LEMMA QuiesceStands ==
    ASSUME NEW requested \in {"cancelled", "failed"}, QuiesceOrLeave(requested)
    PROVE  VerdictStands
<1>1. CASE QuiesceRun(requested)
  <2>1. /\ ~IsTerminal(status) /\ status # "uncertain"
        /\ status' \in {"cancelled", "failed", "uncertain"}
        /\ CanTransition(status, status')
      BY <1>1 DEF QuiesceRun, QuiesceCommits, SetStatus, QuiescedStatus
  <2>2. status = "interrupted" => status' = "cancelled"
      BY <2>1 DEF CanTransition, AllowedTransitions, Exits, ActiveStatuses
  <2> QED BY <2>1, <2>2, OpenWrite
      DEF VerdictStands, ClosedStep, ClosedStatuses, IsTerminal
<1> QED BY <1>1, StatusRests DEF QuiesceOrLeave, storeVars

\* A collector's failure leaves a closed run alone.
LEMMA CollectorStands ==
    ASSUME NEW a, FailCollectStageAndQuiesceRun(a)
    PROVE  VerdictStands
    BY OpenWrite, StatusRests DEF FailCollectStageAndQuiesceRun, SetStatus, QuiescedStatus

\* Whoever acts, the verdict stands.
LEMMA VerdictLemma ==
    ASSUME FlowInv, VerdictInv, [FlowNext]_flowVars
    PROVE  VerdictStands
<1>1. ASSUME NEW from \in {"queued", "planning", "collecting"},
             NEW to \in {"planning", "collecting", "synthesizing"}, NEW then,
             TransitionFrom(from, to, then)
      PROVE  VerdictStands
    BY <1>1, OpenLemma, OpenWrite, StatusRests
    DEF TransitionFrom, TransitionRun, SetStatus, storeVars
<1>2. CASE Engine
  <2>1. CASE AbortCommits
    <3>1. ASSUME TransitionRun(abort.revision, abort.next) PROVE status \notin ClosedStatuses
        BY <2>1, <3>1 DEF AbortCommits, TransitionRun, VerdictInv, AbortReadIsSound
    <3> QED BY <2>1, <3>1, StatusRests DEF AbortCommits, VerdictStands, ClosedStep, storeVars
  <2> QED BY <1>1, <1>2, <2>1, StatusRests
      DEF Engine, StartRun, FinishPlan, FinishCollection, FinishStage, AbortReads, storeVars
<1>3. ASSUME NEW a \in AttemptId, Worker(a) PROVE VerdictStands
    BY <1>3, CollectorStands, StatusRests
    DEF Worker, WorkerBegins, WorkerIsStopped, WorkerIsNotPrepared, TurnSucceeds, TurnFails,
        TurnIsBroken, CollectorQuiesces, CollectorReturns, BeginStage, CompleteStage, storeVars
<1>4. CASE Router
  <2>1. CASE RouterWaits
      BY <2>1, OpenLemma, OpenWrite, StatusRests
      DEF RouterWaits, TransitionRun, SetStatus, storeVars
  <2> QED BY <1>4, <2>1, CollectorStands, UncertainStands, StatusRests
      DEF Router, RouterTakes, RouterMarks, MarkActiveStageExternalSideEffects, RouterAuthorizes,
          CreateApproval, RouterConfirms, DecideApproval, RouterFailsRetry, RouterLoads,
          RouterCreates, RouterAnswers, RouterLosesAnswer, storeVars
<1>5. ASSUME NEW r \in ApprovalId, User(r) PROVE VerdictStands
  <2>1. CASE Resumes(r)
    <3>1. prior[r] # "interrupted"
        BY <2>1 DEF Resumes, FlowInv, PriorIsActive, ActiveStatuses
    <3> QED BY <2>1, <3>1, OpenLemma, OpenWrite, StatusRests
        DEF Resumes, ResumeRunAfterApproval, ResumeCommits, SetStatus, storeVars
  <2> QED BY <1>5, <2>1, UncertainStands, StatusRests
      DEF User, Decides, DecideActiveApproval, DecisionIsLost, ResumeFails, Responds,
          ResponseFails, storeVars
<1>6. CASE Restart
    BY <1>6, OpenLemma DEF Restart, RecoverInFlight, VerdictStands, ClosedStep
<1> QED BY <1>2, <1>3, <1>4, <1>5, <1>6, QuiesceStands, StatusRests
    DEF FlowNext, Asks, SolverBegins, BeginEngineeringJob, CancelSignals, CancelQuiesces,
        FinishErroredRun, ShutdownBegins, flowVars, storeVars

-----------------------------------------------------------------------------
(* The invariant is inductive. *)

\* What an abort read stays sound while the abort does not move.
LEMMA AbortKeepsItsRead ==
    ASSUME FlowInv, VerdictInv, [FlowNext]_flowVars, UNCHANGED abort
    PROVE  AbortReadIsSound'
<1>1. revision \in Nat /\ abort.revision \in Nat
    BY StoreAssumption DEF FlowInv, FlowTypeOK, StoreTypeOK, EngineTypeOK
<1>2. RunRowChange /\ (revision' = revision \/ revision' = revision + 1)
    BY <1>1, FlowStepIsStoreStep, RunRowLemma
<1> QED BY <1>1, <1>2 DEF VerdictInv, AbortReadIsSound, RunRowChange

\* The second half of an abort moves it.
LEMMA AbortCommitsMoves ==
    ASSUME FlowInv, AbortCommits
    PROVE  abort'.at # abort.at
    BY DEF AbortCommits, AbortEnds, NoAbort, FlowInv, FlowTypeOK, EngineTypeOK

\* A step that leaves the engine, its goroutines and the abort alone.
LEMMA EngineRests ==
    ASSUME FlowInv, VerdictInv, [FlowNext]_flowVars, UNCHANGED <<engine, worker, abort>>,
           ~Restart
    PROVE  VerdictInv'
<1>1. BusyInStage' /\ AbortIsOwned' /\ CollectorAbortsForFailure'
    BY DEF VerdictInv, BusyInStage, Busy, CrewOf, AbortIsOwned, CollectorAbortsForFailure, Quiescing
<1>2. AbortReadIsSound'
    BY AbortKeepsItsRead
<1>3. InterruptedIsOver'
  <2>1. AbortCommits => FALSE
      BY AbortCommitsMoves
  <2> QED BY <2>1, VerdictLemma DEF VerdictStands, VerdictInv, InterruptedIsOver
<1> QED BY <1>1, <1>2, <1>3 DEF VerdictInv

\* The engine aborts with no goroutine left, and takes over no other abort.
LEMMA AbortForStep ==
    ASSUME FlowInv, VerdictInv, NEW cause, AbortFor(cause),
           \A a \in AttemptId : ~Busy(a), UNCHANGED worker, status' # "interrupted"
    PROVE  VerdictInv'
<1>1. Quiescing' = {} /\ \A a \in AttemptId : ~(Busy(a)')
    BY DEF Quiescing, Busy
<1>2. abort'.at = "read" /\ engine' = "aborting"
    BY DEF AbortFor, NoAbort
<1> QED BY <1>1, <1>2
    DEF VerdictInv, BusyInStage, AbortIsOwned, CollectorAbortsForFailure, InterruptedIsOver,
        AbortReadIsSound

\* A stage is left, and the first entered, with no goroutine left.
LEMMA StageIsOver ==
    ASSUME VerdictInv, StartRun \/ FinishPlan \/ FinishCollection
    PROVE  /\ \A a \in AttemptId : ~Busy(a)
           /\ engine \in {"starting", "plan", "collect"}
<1>1. CASE StartRun
    BY <1>1 DEF StartRun, VerdictInv, BusyInStage
<1>2. ASSUME NEW stage \in {"plan", "collect"}, engine = stage, Returned(stage)
      PROVE  \A a \in AttemptId : ~Busy(a)
    BY <1>2 DEF Returned, VerdictInv, BusyInStage, Busy
<1> QED BY <1>1, <1>2 DEF FinishPlan, FinishCollection, FinishStage

\* The stages follow one another when their goroutines are back.
LEMMA StageStepsKeep ==
    ASSUME FlowInv, VerdictInv, StartRun \/ FinishPlan \/ FinishCollection
    PROVE  VerdictInv'
<1>0. [FlowNext]_flowVars
    BY DEF FlowNext, Engine
<1>1. /\ \A a \in AttemptId : ~Busy(a)
      /\ engine \in {"starting", "plan", "collect"}
    BY StageIsOver
<1>2. abort.at = "idle" /\ Quiescing = {}
    BY <1>1 DEF VerdictInv, AbortIsOwned, Quiescing, Busy
<1>3. status # "interrupted"
    BY <1>1 DEF VerdictInv, InterruptedIsOver
<1>4. status' # "interrupted"
  <2>1. ~Restart
      BY <1>1 DEF Restart, StartRun, FinishPlan, FinishCollection, FinishStage, TransitionFrom, AbortFor
  <2>2. ~AbortCommits
      BY <1>2 DEF AbortCommits
  <2> QED BY <1>0, <1>3, <2>1, <2>2, VerdictLemma DEF VerdictStands
<1>5. ASSUME NEW cause, AbortFor(cause), UNCHANGED worker PROVE VerdictInv'
    BY <1>1, <1>4, <1>5, AbortForStep
<1>6. ASSUME UNCHANGED <<abort, worker>> PROVE VerdictInv'
    BY <1>1, <1>2, <1>4, <1>6
    DEF VerdictInv, BusyInStage, Busy, AbortIsOwned, CollectorAbortsForFailure, Quiescing,
        InterruptedIsOver, AbortReadIsSound
<1>7. ASSUME UNCHANGED abort, NEW stage \in {"plan", "collect"}, engine' = stage, EnterCrew(stage)
      PROVE  VerdictInv'
  <2>1. \A a \in AttemptId : worker'[a] = IF a \in CrewOf(stage) THEN "ready" ELSE worker[a]
      BY <1>7 DEF EnterCrew
  <2>2. Quiescing' = {}
      BY <1>2, <2>1 DEF Quiescing
  <2>3. BusyInStage'
      BY <1>1, <1>7, <2>1 DEF BusyInStage, Busy, CrewOf
  <2> QED BY <1>2, <1>4, <1>7, <2>2, <2>3
      DEF VerdictInv, AbortIsOwned, CollectorAbortsForFailure, InterruptedIsOver, AbortReadIsSound
<1>8. ASSUME NEW stage \in {"plan", "collect"}, engine' # stage, EnterCrew(stage)
      PROVE  UNCHANGED worker
    BY <1>8 DEF EnterCrew
<1>9. CASE StartRun
  <2>1. CASE engine' = "plan" /\ UNCHANGED abort
      BY <1>7, <1>9, <2>1 DEF StartRun
  <2>2. CASE engine' = "returned" /\ UNCHANGED abort
      BY <1>6, <1>8, <1>9, <2>2 DEF StartRun
  <2>3. ASSUME NEW cause, AbortFor(cause) PROVE VerdictInv'
      BY <1>5, <1>8, <1>9, <2>3 DEF StartRun, AbortFor
  <2> QED BY <1>9, <2>1, <2>2, <2>3 DEF StartRun, TransitionFrom
<1>10. CASE FinishPlan
  <2>1. CASE engine' = "collect" /\ UNCHANGED abort
      BY <1>7, <1>10, <2>1 DEF FinishPlan
  <2>2. ASSUME NEW cause, AbortFor(cause) PROVE VerdictInv'
      BY <1>5, <1>8, <1>10, <2>2 DEF FinishPlan, AbortFor
  <2> QED BY <1>10, <2>1, <2>2 DEF FinishPlan, FinishStage, TransitionFrom
<1>11. CASE FinishCollection
  <2>1. CASE UNCHANGED <<abort, worker>>
      BY <1>6, <2>1
  <2>2. ASSUME NEW cause, AbortFor(cause) PROVE VerdictInv'
      BY <1>5, <1>11, <2>2 DEF FinishCollection
  <2> QED BY <1>11, <2>1, <2>2 DEF FinishCollection, FinishStage, TransitionFrom
<1> QED BY <1>9, <1>10, <1>11

\* The end of an abort frees its collector, or is the end of the engine.
LEMMA AbortEndsStep ==
    ASSUME FlowInv, VerdictInv, AbortEnds, abort.at # "idle",
           status' = "interrupted" => engine = "aborting" \/ status = "interrupted"
    PROVE  VerdictInv'
<1>1. \A a \in AttemptId :
        worker'[a] = IF worker[a] = "quiescing" THEN "failing" ELSE worker[a]
    BY DEF AbortEnds
<1>2. Quiescing' = {} /\ \A a \in AttemptId : Busy(a)' => Busy(a)
    BY <1>1 DEF Quiescing, Busy
<1>3. engine = "aborting" => \A a \in AttemptId : ~Busy(a)
    BY DEF VerdictInv, BusyInStage
<1>4. BusyInStage'
    BY <1>2, <1>3 DEF VerdictInv, BusyInStage, AbortEnds, CrewOf
<1>5. abort'.at = "idle"
    BY DEF AbortEnds, NoAbort
<1>6. InterruptedIsOver'
    BY DEF AbortEnds, VerdictInv, InterruptedIsOver
<1> QED BY <1>2, <1>4, <1>5, <1>6
    DEF VerdictInv, AbortIsOwned, CollectorAbortsForFailure, AbortReadIsSound

\* Both halves of an abort.
LEMMA AbortStepsKeep ==
    ASSUME FlowInv, VerdictInv, AbortReads \/ AbortCommits
    PROVE  VerdictInv'
<1> USE DEF FlowInv, FlowTypeOK
<1>1. abort.at # "idle"
    BY DEF AbortReads, AbortCommits
<1>2. status # "interrupted"
    BY <1>1 DEF VerdictInv, AbortIsOwned, InterruptedIsOver, BusyInStage, Quiescing, Busy
<1>3. engine' = engine /\ worker' = worker =>
        /\ BusyInStage' /\ Quiescing' = Quiescing
    BY DEF VerdictInv, BusyInStage, Busy, Quiescing, CrewOf
<1>4. CASE AbortReads
  <2>1. CASE AbortEnds
      BY <1>1, <1>2, <1>4, <2>1, AbortEndsStep DEF AbortReads, storeVars
  <2>2. CASE /\ abort' = [abort EXCEPT !.at = "commit", !.revision = revision,
                                       !.next = QuiescedStatus(abort.cause, attempt)]
             /\ UNCHANGED <<engine, worker>>
             /\ ~(IsTerminal(status) \/ status \in {"uncertain", abort.cause})
    <3>1. /\ abort'.at = "commit" /\ abort'.revision = revision /\ abort'.cause = abort.cause
          /\ abort'.next = QuiescedStatus(abort.cause, attempt)
        BY <2>2 DEF EngineTypeOK
    <3>2. status' = status /\ revision' = revision /\ status \notin ClosedStatuses
        BY <1>2, <1>4, <2>2 DEF AbortReads, storeVars, ClosedStatuses, IsTerminal
    <3>3. AbortReadIsSound'
        BY <3>1, <3>2, StoreAssumption DEF AbortReadIsSound, StoreTypeOK
    <3>4. CollectorAbortsForFailure'
        BY <1>3, <2>2, <3>1 DEF VerdictInv, CollectorAbortsForFailure, QuiescedStatus
    <3>5. AbortIsOwned'
        BY <1>1, <1>3, <2>2 DEF VerdictInv, AbortIsOwned
    <3> QED BY <1>2, <1>3, <2>2, <3>2, <3>3, <3>4, <3>5 DEF VerdictInv, InterruptedIsOver
  <2> QED BY <1>4, <2>1, <2>2 DEF AbortReads
<1>5. CASE AbortCommits
  <2>1. CASE AbortEnds
    <3>1. ASSUME status' = "interrupted" PROVE engine = "aborting"
      <4>1. TransitionRun(abort.revision, abort.next)
          BY <1>2, <1>5, <3>1 DEF AbortCommits, storeVars
      <4>2. abort.next = "interrupted"
          BY <3>1, <4>1 DEF TransitionRun, SetStatus
      <4> QED BY <1>1, <4>2 DEF VerdictInv, CollectorAbortsForFailure, AbortIsOwned
    <3> QED BY <1>1, <2>1, <3>1, AbortEndsStep
  <2>2. CASE abort' = [abort EXCEPT !.at = "read"] /\ UNCHANGED <<storeVars, engine, worker>>
    <3>1. abort'.at = "read" /\ abort'.cause = abort.cause /\ abort'.next = abort.next
        BY <2>2 DEF EngineTypeOK
    <3> QED BY <1>1, <1>2, <1>3, <2>2, <3>1
        DEF VerdictInv, AbortIsOwned, CollectorAbortsForFailure, InterruptedIsOver,
            AbortReadIsSound, storeVars
  <2> QED BY <1>5, <2>1, <2>2 DEF AbortCommits
<1> QED BY <1>4, <1>5

\* A goroutine moves on while it runs.
LEMMA WorkerKeeps ==
    ASSUME FlowInv, VerdictInv, NEW a \in AttemptId, Worker(a)
    PROVE  VerdictInv'
<1> USE DEF FlowInv, FlowTypeOK
<1>0. [FlowNext]_flowVars
    BY DEF FlowNext
<1>1. Busy(a) /\ engine' = engine /\ engine \in {"plan", "collect"}
    BY DEF Worker, WorkerBegins, WorkerIsStopped, WorkerIsNotPrepared, TurnSucceeds, TurnFails,
           TurnIsBroken, CollectorQuiesces, CollectorReturns, Busy, VerdictInv, BusyInStage
<1>2. status' # "interrupted"
  <2>1. status # "interrupted"
      BY <1>1 DEF VerdictInv, InterruptedIsOver
  <2>2. ~Restart
      BY <1>1 DEF Restart
  <2>3. ASSUME AbortCommits PROVE UNCHANGED status
    <3>1. CASE TurnFails(a)
      <4>1. worker'[a] # "turn"
          BY <3>1 DEF TurnFails, WorkerFails, WorkerReturns, EngineTypeOK
      <4>2. worker'[a] = "turn"
          BY <2>3, <3>1 DEF TurnFails, AbortCommits, AbortEnds, EngineTypeOK
      <4> QED BY <4>1, <4>2
    <3> QED BY <3>1
        DEF Worker, WorkerBegins, WorkerIsStopped, WorkerIsNotPrepared, TurnSucceeds,
            TurnIsBroken, CollectorQuiesces, CollectorReturns, BeginStage, CompleteStage, storeVars
  <2> QED BY <1>0, <2>1, <2>2, <2>3, VerdictLemma DEF VerdictStands
<1>3. ASSUME NEW state \in {"turn", "failing", "returned"},
             worker[a] # "quiescing",
             worker' = [worker EXCEPT ![a] = state], UNCHANGED abort
      PROVE  VerdictInv'
  <2>1. Quiescing' = Quiescing /\ \A b \in AttemptId : Busy(b)' => Busy(b)
      BY <1>1, <1>3 DEF Quiescing, Busy, EngineTypeOK
  <2>2. BusyInStage'
      BY <1>1, <2>1 DEF VerdictInv, BusyInStage, CrewOf
  <2> QED BY <1>0, <1>1, <1>2, <1>3, <2>1, <2>2, AbortKeepsItsRead
      DEF VerdictInv, AbortIsOwned, CollectorAbortsForFailure, InterruptedIsOver
<1>4. CASE CollectorQuiesces(a)
  <2>1. worker' = [worker EXCEPT ![a] = "quiescing"]
      BY <1>4 DEF CollectorQuiesces
  <2>2. \A b \in AttemptId : Busy(b)' => Busy(b)
      BY <1>1, <2>1 DEF Busy, EngineTypeOK
  <2>3. a \in Quiescing'
      BY <2>1 DEF Quiescing, EngineTypeOK
  <2>4. abort'.at = "read" /\ abort'.cause = "failed" /\ abort'.next = "failed"
      BY <1>4 DEF CollectorQuiesces, NoAbort
  <2>5. BusyInStage'
      BY <1>1, <2>2 DEF VerdictInv, BusyInStage, CrewOf
  <2> QED BY <1>2, <2>3, <2>4, <2>5
      DEF VerdictInv, AbortIsOwned, CollectorAbortsForFailure, InterruptedIsOver, AbortReadIsSound
<1> QED BY <1>3, <1>4
    DEF Worker, WorkerBegins, WorkerIsStopped, WorkerIsNotPrepared, TurnSucceeds, TurnFails,
        TurnIsBroken, CollectorReturns, WorkerFails, WorkerReturns

\* The end of execute has nothing running under it.
LEMMA FinishKeeps ==
    ASSUME FlowInv, VerdictInv, FinishErroredRun
    PROVE  VerdictInv'
<1>1. [FlowNext]_flowVars /\ engine = "returned" /\ engine' = "over" /\ UNCHANGED <<worker, abort>>
    BY DEF FlowNext, FinishErroredRun
<1>2. AbortReadIsSound'
    BY <1>1, AbortKeepsItsRead
<1> QED BY <1>1, <1>2
    DEF VerdictInv, BusyInStage, Busy, AbortIsOwned, CollectorAbortsForFailure, Quiescing,
        InterruptedIsOver

\* A new process runs nothing.
LEMMA RestartKeeps ==
    ASSUME FlowInv, VerdictInv, Restart
    PROVE  VerdictInv'
<1>1. /\ abort'.at = "idle" /\ Quiescing' = {} /\ \A a \in AttemptId : ~(Busy(a)')
      /\ engine' = IF status = "queued" THEN "starting" ELSE "down"
    BY DEF Restart, NoAbort, Quiescing, Busy
<1>2. status = "queued" => status' = "queued"
    BY DEF Restart, RecoverInFlight, InFlightStatuses, ActiveStatuses
<1> QED BY <1>1, <1>2
    DEF VerdictInv, BusyInStage, AbortIsOwned, CollectorAbortsForFailure, InterruptedIsOver,
        AbortReadIsSound

\* The invariant holds in every state.
LEMMA VerdictInvariant == FlowSpec => []VerdictInv
<1>1. FlowInit => VerdictInv
    BY DEF FlowInit, StoreInit, NoAbort, VerdictInv, BusyInStage, Busy, AbortIsOwned,
           CollectorAbortsForFailure, Quiescing, InterruptedIsOver, AbortReadIsSound
<1>2. FlowInv /\ VerdictInv /\ [FlowNext]_flowVars => VerdictInv'
  <2> SUFFICES ASSUME FlowInv, VerdictInv, [FlowNext]_flowVars PROVE VerdictInv'
      OBVIOUS
  <2>1. CASE UNCHANGED <<engine, worker, abort>> /\ ~Restart
      BY <2>1, EngineRests
  <2>2. CASE Engine
      BY <2>2, StageStepsKeep, AbortStepsKeep DEF Engine
  <2>3. ASSUME NEW r \in ApprovalId, User(r) \/ SolverBegins(r) PROVE UNCHANGED engineVars
      BY <2>3
      DEF User, Decides, DecisionIsLost, Resumes, ResumeFails, Responds, ResponseFails, SolverBegins
  <2>4. ASSUME Router PROVE UNCHANGED engineVars
      BY <2>4
      DEF Router, RouterTakes, RouterMarks, RouterAuthorizes, RouterConfirms, RouterFailsRetry,
          RouterLoads, RouterCreates, RouterWaits, RouterAnswers, RouterLosesAnswer
  <2>5. ASSUME UNCHANGED engineVars PROVE VerdictInv'
      BY <2>1, <2>5, RestartKeeps DEF engineVars
  <2> QED BY <2>2, <2>3, <2>4, <2>5, WorkerKeeps, FinishKeeps, RestartKeeps
      DEF FlowNext, Asks, CancelSignals, CancelQuiesces, ShutdownBegins, flowVars
<1> QED BY <1>1, <1>2, FlowInvariant, PTL DEF FlowSpec

-----------------------------------------------------------------------------

\* Neither a late click, nor a late abort, nor a late clean-up gives a run that
\* was closed another status: the compare-and-swap of abort, the conditions in
\* each transaction and markUncertain's own check leave the first verdict.
THEOREM FirstVerdictStands == FlowSpec => ClosedIsFinal
<1>1. FlowInv /\ VerdictInv /\ [FlowNext]_flowVars => [ClosedStep]_flowVars
    BY VerdictLemma DEF VerdictStands
<1> QED BY <1>1, FlowInvariant, VerdictInvariant, PTL DEF FlowSpec, ClosedIsFinal
-----------------------------------------------------------------------------
(* Part 4, the inductive invariant, on top of the first three. *)

Fresh(a) == worker[a] = "idle" /\ outcome[a] = "none" /\ attempt[a].state = "none"

\* Nothing of a run that was not started yet has happened.
QueuedIsFresh == status = "queued" => \A a \in AttemptId : Fresh(a)

\* No collector moves before the plan is done.
PlanComesFirst == engine = "plan" => \A a \in Crew : Fresh(a)

\* The row and the result of an attempt are where its goroutine is.
RowsFollowWorkers ==
    \A a \in AttemptId :
        /\ worker[a] = "ready" => outcome[a] = "none" /\ attempt[a].state = "none"
        /\ worker[a] = "turn" =>
             outcome[a] = "none" /\ attempt[a].state \in {"in_progress", "failed"}
        /\ worker[a] \in {"failing", "quiescing"} =>
             a \in Crew /\ outcome[a] = "failed" /\ attempt[a].state \in {"none", "failed"}
        /\ attempt[a].state # "none" => attempt[a].stage = StageOf(a)

\* While its process lives, an attempt in progress has a turn.
OpenIsLive ==
    engine # "down" =>
        \A a \in AttemptId :
            /\ attempt[a].state \in {"none", "in_progress", "completed", "failed"}
            /\ InProgress(a) => worker[a] = "turn"

\* An abort about to end the run in an ordinary way has seen every boundary: none
\* was opened since it read the attempts.
AbortSawEveryBoundary ==
    (/\ abort.at = "commit" /\ abort.revision = revision
     /\ IsTerminal(abort.next) /\ ~FailedBeforeItsStage)
    => Unsettled = {}

EndInv ==
    /\ QueuedIsFresh /\ PlanComesFirst /\ RowsFollowWorkers /\ OpenIsLive
    /\ AbortSawEveryBoundary
    /\ OrdinaryEndHidesNoOutcome /\ InterruptedHasNoOpenBoundary


-----------------------------------------------------------------------------
(* What a step does to the attempts and to the end of the run. *)

\* A boundary is only opened in a turn of an open run without a failed collector.
Opens ==
    /\ \E b \in AttemptId : InProgress(b) /\ MarkExternal(b)
    /\ ~FailedCollectorExists
    /\ status \notin ClosedStatuses
    /\ UNCHANGED <<status, revision>>

\* A collector is failed, and its run with it.
Fails == \E b \in AttemptId : FailCollectStageAndQuiesceRun(b)

\* A step that ends the run in an ordinary way looked at every boundary.
EndsHonestly ==
    /\ status' = "queued" => status = "queued"
    /\ IsTerminal(status') => IsTerminal(status) \/ UnsettledIn(attempt') = {}
    /\ status' = "interrupted" => status = "interrupted"

LEMMA StatusRestsHonestly == status' = status => EndsHonestly
    BY DEF EndsHonestly

LEMMA QuiescedIsHonest ==
    ASSUME NEW requested, NEW rows
    PROVE  QuiescedStatus(requested, rows) \in TerminalStatuses => UnsettledIn(rows) = {}
    BY DEF QuiescedStatus, TerminalStatuses

LEMMA UncertainIsHonest ==
    ASSUME MarkUncertain
    PROVE  EndsHonestly /\ UNCHANGED attempt
    BY DEF MarkUncertain, TransitionRun, SetStatus, EndsHonestly, IsTerminal, TerminalStatuses, storeVars

LEMMA QuiesceIsHonest ==
    ASSUME NEW requested \in {"cancelled", "failed"}, QuiesceOrLeave(requested)
    PROVE  EndsHonestly /\ UNCHANGED attempt
<1>1. CASE QuiesceRun(requested)
  <2>1. status' = QuiescedStatus(requested, attempt) /\ attempt' = attempt
      BY <1>1 DEF QuiesceRun, SetStatus
  <2>2. status' \in {"cancelled", "failed", "uncertain"}
      BY <2>1 DEF QuiescedStatus
  <2> QED BY <2>1, <2>2, QuiescedIsHonest DEF EndsHonestly, IsTerminal
<1> QED BY <1>1, StatusRestsHonestly DEF QuiesceOrLeave, storeVars

LEMMA FailIsHonest ==
    ASSUME NEW a, FailCollectStageAndQuiesceRun(a)
    PROVE  EndsHonestly
<1>1. CASE UNCHANGED status
    BY <1>1, StatusRestsHonestly
<1>2. CASE SetStatus(QuiescedStatus("failed", attempt'))
  <2>1. status' = QuiescedStatus("failed", attempt')
      BY <1>2 DEF SetStatus
  <2>2. status' \in {"failed", "uncertain"}
      BY <2>1 DEF QuiescedStatus
  <2> QED BY <2>1, <2>2, QuiescedIsHonest DEF EndsHonestly, IsTerminal
<1> QED BY <1>1, <1>2 DEF FailCollectStageAndQuiesceRun

\* The steps of the router, the user and the dispatcher.
Bystander ==
    \/ Router
    \/ \E a \in AskingTurns, r \in ApprovalId, kind \in AskedKinds : Asks(a, r, kind)
    \/ \E r \in ApprovalId : User(r) \/ SolverBegins(r)
    \/ CancelSignals \/ CancelQuiesces \/ FinishErroredRun \/ ShutdownBegins
    \/ UNCHANGED flowVars

BystanderMove ==
    /\ UNCHANGED <<worker, outcome, abort>>
    /\ \/ engine' = engine
       \/ engine = "returned" /\ engine' = "over"
    /\ EndsHonestly
    /\ Opens \/ Fails \/ UNCHANGED attempt

LEMMA BystanderLemma ==
    ASSUME FlowInv, AnswerInv, Bystander
    PROVE  BystanderMove
<1> USE DEF BystanderMove
<1>1. ASSUME NEW a \in AttemptId, MarkActiveStageExternalSideEffects(a)
      PROVE  Opens /\ status' = status
    BY <1>1, OpenLemma
    DEF MarkActiveStageExternalSideEffects, MayMarkActive, Opens, ActiveRunStatusForStage,
        ClosedStatuses, TerminalStatuses
<1>2. ASSUME NEW r \in ApprovalId, NEW decision, DecideActiveApproval(r, decision)
      PROVE  status' = status /\ (Opens \/ UNCHANGED attempt)
  <2>1. approval[r].attempt \in AttemptId
      BY <1>2 DEF DecideActiveApproval, Pending, AnswerInv, ScopesAreDurable
  <2> QED BY <1>2, <2>1, OpenLemma DEF DecideActiveApproval, Decidable, Opens
<1>3. ASSUME NEW a \in AttemptId, NEW r, BeginEngineeringJob(a, r)
      PROVE  Opens /\ status' = status
    BY <1>3, OpenLemma DEF BeginEngineeringJob, Opens
<1>4. ASSUME NEW r \in ApprovalId, request[r].state # "none" PROVE TurnOf(r) \in AttemptId
    BY <1>4 DEF FlowInv, RequestsAreSound, TurnOf
<1>5. CASE Router
  <2>1. router.at \notin {"idle", "stopped"} => TurnOf(Handled) \in AttemptId
      BY <1>4 DEF FlowInv, HandledIsSound
  <2>2. CASE RouterMarks
      BY <1>1, <2>1, <2>2, StatusRestsHonestly DEF RouterMarks, engineVars, storeVars
  <2>3. CASE RouterFailsRetry
      BY <2>1, <2>3, FailIsHonest, StatusRestsHonestly DEF RouterFailsRetry, Fails, engineVars, storeVars
  <2>4. CASE RouterWaits
    <3>1. ASSUME TransitionRun(router.revision, "waiting_approval")
          PROVE  EndsHonestly /\ UNCHANGED attempt
        BY <3>1 DEF TransitionRun, SetStatus, EndsHonestly, IsTerminal, TerminalStatuses
    <3> QED BY <2>4, <3>1, StatusRestsHonestly DEF RouterWaits, engineVars, storeVars
  <2>5. CASE RouterLosesAnswer
      BY <2>5, UncertainIsHonest, StatusRestsHonestly DEF RouterLosesAnswer, engineVars, storeVars
  <2> QED BY <1>5, <2>2, <2>3, <2>4, <2>5, StatusRestsHonestly
      DEF Router, RouterTakes, RouterAuthorizes, CreateApproval, RouterConfirms, DecideApproval,
          RouterLoads, RouterCreates, RouterAnswers, engineVars, storeVars
<1>6. ASSUME NEW r \in ApprovalId, User(r) PROVE BystanderMove
  <2>1. ASSUME NEW decision, Decides(r, decision) PROVE BystanderMove
      BY <1>2, <2>1, StatusRestsHonestly DEF Decides, engineVars, storeVars
  <2>2. CASE Resumes(r)
    <3>1. prior[r] \in ActiveStatuses
        BY <2>2 DEF Resumes, FlowInv, PriorIsActive
    <3>2. ASSUME ResumeRunAfterApproval(prior[r]) PROVE EndsHonestly /\ UNCHANGED attempt
        BY <3>1, <3>2
        DEF ResumeRunAfterApproval, SetStatus, EndsHonestly, IsTerminal, TerminalStatuses, ActiveStatuses
    <3> QED BY <2>2, <3>2, StatusRestsHonestly DEF Resumes, engineVars, storeVars
  <2> QED BY <1>6, <2>1, <2>2, UncertainIsHonest, StatusRestsHonestly
      DEF User, DecisionIsLost, ResumeFails, Responds, ResponseFails, engineVars, storeVars
<1>7. ASSUME NEW r \in ApprovalId, SolverBegins(r) PROVE BystanderMove
    BY <1>3, <1>4, <1>7, StatusRestsHonestly DEF SolverBegins, engineVars, storeVars
<1> QED BY <1>5, <1>6, <1>7, QuiesceIsHonest, StatusRestsHonestly
    DEF Bystander, Asks, CancelSignals, CancelQuiesces, FinishErroredRun, ShutdownBegins,
        flowVars, engineVars, storeVars

-----------------------------------------------------------------------------
(* The invariant is inductive. *)

\* An abort about to commit leaves no turn that could open a boundary, or its
\* collector's failure forbids it.
LEMMA NothingOpensUnderAbort ==
    ASSUME FlowInv, VerdictInv, EndInv, Opens, abort.at = "commit"
    PROVE  FailedBeforeItsStage
<1>1. engine # "aborting"
  <2> SUFFICES ASSUME engine = "aborting" PROVE FALSE
      OBVIOUS
  <2>1. \A a \in AttemptId : worker[a] # "turn"
      BY DEF VerdictInv, BusyInStage, Busy
  <2> QED BY <2>1 DEF EndInv, OpenIsLive, Opens
<1>2. PICK a \in AttemptId : worker[a] = "quiescing"
    BY <1>1 DEF VerdictInv, AbortIsOwned, Quiescing
<1>3. a \in Crew /\ outcome[a] = "failed" /\ attempt[a].state \in {"none", "failed"}
    BY <1>2 DEF EndInv, RowsFollowWorkers
<1>4. attempt[a].state = "failed" => attempt[a].stage = "collect"
    BY <1>3, FlowAssumption DEF EndInv, RowsFollowWorkers, StageOf
<1> QED BY <1>3, <1>4 DEF FailedBeforeItsStage, Opens, FailedCollectorExists

\* What an abort saw is still true as long as the revision is its own.
LEMMA AbortSawIt ==
    ASSUME FlowInv, VerdictInv, EndInv, [FlowNext]_flowVars, UNCHANGED abort,
           FailedBeforeItsStage => FailedBeforeItsStage',
           Unsettled' \subseteq Unsettled \/ Opens
    PROVE  AbortSawEveryBoundary'
<1>1. revision \in Nat /\ abort.revision \in Nat
    BY StoreAssumption DEF FlowInv, FlowTypeOK, StoreTypeOK, EngineTypeOK
<1>2. revision' = revision \/ revision' = revision + 1
    BY <1>1, FlowStepIsStoreStep, RunRowLemma DEF FlowInv, FlowTypeOK
<1>3. abort.at = "commit" /\ abort.revision = revision' => abort.revision = revision
    BY <1>1, <1>2 DEF VerdictInv, AbortReadIsSound
<1>4. AbortSawEveryBoundary
    BY DEF EndInv
<1>5. abort.at = "commit" /\ Opens => FailedBeforeItsStage
    BY NothingOpensUnderAbort
<1> QED BY <1>3, <1>4, <1>5 DEF AbortSawEveryBoundary, IsTerminal

\* The router, the user and the dispatcher.
LEMMA BystandersKeep ==
    ASSUME FlowInv, AnswerInv, VerdictInv, EndInv, Bystander, [FlowNext]_flowVars
    PROVE  EndInv'
<1> USE DEF FlowInv, FlowTypeOK
<1>1. BystanderMove
    BY BystanderLemma
<1>2. attempt \in [AttemptId -> Attempts]
    BY DEF StoreTypeOK
<1>3. \A a \in AttemptId :
        /\ attempt'[a].stage = attempt[a].stage
        /\ \/ /\ attempt'[a].state = attempt[a].state
              /\ attempt'[a].external = attempt[a].external
           \/ /\ attempt'[a].state = attempt[a].state
              /\ Opens /\ InProgress(a)
           \/ /\ InProgress(a) /\ attempt'[a].state = "failed"
              /\ attempt'[a].external = attempt[a].external
  <2>1. CASE Opens
    <3>1. PICK b \in AttemptId : InProgress(b) /\ MarkExternal(b)
        BY <2>1 DEF Opens
    <3>2. \A a \in AttemptId : attempt'[a] = IF a = b THEN [attempt[a] EXCEPT !.external = TRUE]
                                                    ELSE attempt[a]
        BY <1>2, <3>1 DEF MarkExternal
    <3> QED BY <1>2, <2>1, <3>1, <3>2 DEF Attempts
  <2>2. CASE Fails
      BY <1>2, <2>2 DEF Fails, FailCollectStageAndQuiesceRun, SetAttempt, Attempts
  <2> QED BY <1>1, <2>1, <2>2 DEF BystanderMove
<1>4. Unsettled' \subseteq Unsettled \/ Opens
    BY <1>3 DEF Unsettled, UnsettledIn, InProgress
<1>5. FailedBeforeItsStage' <=> FailedBeforeItsStage
    BY <1>1, <1>3, FlowAssumption DEF BystanderMove, FailedBeforeItsStage, InProgress
<1>6. QueuedIsFresh'
    BY <1>1, <1>3 DEF BystanderMove, EndsHonestly, EndInv, QueuedIsFresh, Fresh, InProgress
<1>7. PlanComesFirst'
    BY <1>1, <1>3, FlowAssumption DEF BystanderMove, EndInv, PlanComesFirst, Fresh, InProgress
<1>8. RowsFollowWorkers'
    BY <1>1, <1>3 DEF BystanderMove, EndInv, RowsFollowWorkers, InProgress, StageOf
<1>9. OpenIsLive'
    BY <1>1, <1>3 DEF BystanderMove, EndInv, OpenIsLive, InProgress
<1>10. AbortSawEveryBoundary'
    BY <1>1, <1>4, <1>5, AbortSawIt DEF BystanderMove
<1>11. OrdinaryEndHidesNoOutcome'
  <2>1. Opens => ~IsTerminal(status')
      BY DEF Opens, IsTerminal, ClosedStatuses
  <2>2. IsTerminal(status') /\ ~FailedBeforeItsStage => Unsettled' = {}
      BY <1>1, <1>4, <2>1 DEF BystanderMove, EndsHonestly, EndInv, OrdinaryEndHidesNoOutcome, Unsettled
  <2> QED BY <1>5, <2>2 DEF OrdinaryEndHidesNoOutcome, IsTerminal
<1>12. InterruptedHasNoOpenBoundary'
    BY <1>1, <1>3
    DEF BystanderMove, EndsHonestly, Opens, ClosedStatuses, EndInv, InterruptedHasNoOpenBoundary
<1> QED BY <1>6, <1>7, <1>8, <1>9, <1>10, <1>11, <1>12 DEF EndInv

\* Only its own goroutine moves an attempt's row, apart from what the router and
\* the user do to it.
WorkerMove(a) ==
    /\ \A b \in AttemptId \ {a} :
         worker'[b] = worker[b] /\ outcome'[b] = outcome[b] /\ attempt'[b] = attempt[b]
    /\ worker[a] \in {"ready", "turn", "failing"}
    /\ engine' = engine
    /\ worker'[a] = "turn" =>
         outcome'[a] = "none" /\ attempt'[a].state \in {"in_progress", "failed"}
    /\ worker'[a] \in {"failing", "quiescing"} =>
         a \in Crew /\ outcome'[a] = "failed" /\ attempt'[a].state \in {"none", "failed"}
    /\ worker'[a] \in {"turn", "failing", "quiescing", "returned"}
    /\ attempt'[a].state # "none" => attempt'[a].stage = StageOf(a)
    /\ attempt'[a].state \in {"none", "in_progress", "completed", "failed"}
    /\ attempt'[a].state = "in_progress" => worker'[a] = "turn" /\ ~attempt'[a].external
    /\ attempt'[a].external =>
         \/ attempt[a].external /\ attempt[a].state # "completed"
         \/ attempt'[a] = attempt[a]
    /\ outcome[a] = "failed" => outcome'[a] = "failed" /\ attempt'[a] = attempt[a]

LEMMA WorkerMoveLemma ==
    ASSUME FlowInv, VerdictInv, EndInv, NEW a \in AttemptId, Worker(a)
    PROVE  WorkerMove(a) /\ EndsHonestly
<1> USE DEF FlowInv, FlowTypeOK
<1>1. /\ attempt \in [AttemptId -> Attempts]
      /\ worker \in [AttemptId -> {"idle", "ready", "turn", "failing", "quiescing", "returned"}]
      /\ outcome \in [AttemptId -> {"none", "done", "failed", "cancelled", "interrupted"}]
    BY DEF StoreTypeOK, EngineTypeOK
<1>2. /\ worker[a] = "ready" => outcome[a] = "none" /\ attempt[a].state = "none"
      /\ worker[a] = "turn" =>
           outcome[a] = "none" /\ attempt[a].state \in {"in_progress", "failed"}
      /\ worker[a] \in {"failing", "quiescing"} =>
           a \in Crew /\ outcome[a] = "failed" /\ attempt[a].state \in {"none", "failed"}
      /\ attempt[a].state # "none" => attempt[a].stage = StageOf(a)
    BY DEF EndInv, RowsFollowWorkers
<1>3. ASSUME NEW state \in {"completed", "failed"}, CompleteStage(a, state)
      PROVE  /\ \A b \in AttemptId \ {a} : attempt'[b] = attempt[b]
             /\ attempt'[a] = [attempt[a] EXCEPT !.state = state]
             /\ EndsHonestly
    BY <1>1, <1>3, StatusRestsHonestly DEF CompleteStage, SetAttempt
<1>4. ASSUME FailCollectStageAndQuiesceRun(a)
      PROVE  /\ \A b \in AttemptId \ {a} : attempt'[b] = attempt[b]
             /\ attempt'[a] = [attempt[a] EXCEPT !.state = "failed"]
             /\ EndsHonestly
    BY <1>1, <1>4, FailIsHonest DEF FailCollectStageAndQuiesceRun, SetAttempt
<1>5. ASSUME UNCHANGED storeVars PROVE UNCHANGED attempt /\ EndsHonestly
    BY <1>5, StatusRestsHonestly DEF storeVars
<1>6. ASSUME NEW how, WorkerReturns(a, how)
      PROVE  /\ worker'[a] = "returned" /\ outcome'[a] = how
             /\ \A b \in AttemptId \ {a} : worker'[b] = worker[b] /\ outcome'[b] = outcome[b]
    BY <1>1, <1>6 DEF WorkerReturns
<1>7. ASSUME WorkerFails(a)
      PROVE  /\ worker'[a] \in {"failing", "returned"} /\ outcome'[a] = "failed"
             /\ worker'[a] = "failing" => a \in Crew
             /\ \A b \in AttemptId \ {a} : worker'[b] = worker[b] /\ outcome'[b] = outcome[b]
    BY <1>1, <1>6, <1>7 DEF WorkerFails
<1>8. CASE WorkerBegins(a)
  <2>1. attempt' = [attempt EXCEPT ![a] = [state |-> "in_progress", stage |-> StageOf(a),
                                           ordinal |-> Ordinal(a), external |-> FALSE]]
      BY <1>8 DEF WorkerBegins, BeginStage
  <2>2. worker' = [worker EXCEPT ![a] = "turn"]
      BY <1>8 DEF WorkerBegins
  <2> QED BY <1>1, <1>2, <1>8, <2>1, <2>2, StatusRestsHonestly DEF WorkerBegins, BeginStage, WorkerMove
<1>9. CASE WorkerIsStopped(a)
    BY <1>1, <1>2, <1>5, <1>6, <1>9 DEF WorkerIsStopped, WorkerMove, Attempts, AttemptStates
<1>10. CASE WorkerIsNotPrepared(a)
    BY <1>1, <1>2, <1>5, <1>7, <1>10 DEF WorkerIsNotPrepared, WorkerMove, Attempts, AttemptStates
<1>11. CASE TurnSucceeds(a)
  <2>1. CASE InProgress(a)
      BY <1>1, <1>2, <1>3, <1>6, <1>11, <2>1 DEF TurnSucceeds, WorkerMove, Attempts, InProgress
  <2>2. CASE ~InProgress(a)
      BY <1>1, <1>2, <1>5, <1>7, <1>11, <2>2 DEF TurnSucceeds, WorkerMove, Attempts, InProgress
  <2> QED BY <2>1, <2>2
<1>12. CASE TurnFails(a)
  <2>1. CASE InProgress(a)
      BY <1>1, <1>2, <1>3, <1>4, <1>7, <1>12, <2>1 DEF TurnFails, WorkerMove, Attempts, InProgress
  <2>2. CASE ~InProgress(a)
      BY <1>1, <1>2, <1>5, <1>7, <1>12, <2>2 DEF TurnFails, WorkerMove, Attempts, InProgress
  <2> QED BY <2>1, <2>2
<1>13. ASSUME NEW how \in {"cancelled", "interrupted"}, TurnIsBroken(a, how)
       PROVE  WorkerMove(a) /\ EndsHonestly
  <2>1. CASE InProgress(a)
      BY <1>1, <1>2, <1>3, <1>6, <1>13, <2>1 DEF TurnIsBroken, WorkerMove, Attempts, InProgress
  <2>2. CASE ~InProgress(a)
      BY <1>1, <1>2, <1>5, <1>6, <1>13, <2>2 DEF TurnIsBroken, WorkerMove, Attempts, InProgress
  <2> QED BY <2>1, <2>2
<1>14. CASE CollectorQuiesces(a)
    BY <1>1, <1>2, <1>5, <1>14 DEF CollectorQuiesces, WorkerMove, Attempts
<1>15. CASE CollectorReturns(a)
    BY <1>1, <1>2, <1>5, <1>6, <1>15 DEF CollectorReturns, WorkerMove, Attempts
<1> QED BY <1>8, <1>9, <1>10, <1>11, <1>12, <1>13, <1>14, <1>15 DEF Worker

\* The goroutines of the attempts.
LEMMA WorkersKeep ==
    ASSUME FlowInv, VerdictInv, EndInv, [FlowNext]_flowVars, NEW a \in AttemptId, Worker(a)
    PROVE  EndInv'
<1>1. WorkerMove(a) /\ EndsHonestly
    BY WorkerMoveLemma
<1>2. engine \in {"plan", "collect"} /\ a \in CrewOf(engine)
    BY <1>1 DEF WorkerMove, VerdictInv, BusyInStage, Busy
<1>3. Unsettled' \subseteq Unsettled
    BY <1>1 DEF WorkerMove, Unsettled, UnsettledIn
<1>4. FailedBeforeItsStage => FailedBeforeItsStage'
    BY <1>1, FlowAssumption DEF WorkerMove, FailedBeforeItsStage
<1>5. QueuedIsFresh'
    BY <1>1 DEF WorkerMove, EndsHonestly, EndInv, QueuedIsFresh, Fresh
<1>6. PlanComesFirst'
    BY <1>1, <1>2, FlowAssumption DEF WorkerMove, EndInv, PlanComesFirst, Fresh, CrewOf
<1>7. RowsFollowWorkers'
    BY <1>1 DEF WorkerMove, EndInv, RowsFollowWorkers, StageOf
<1>8. OpenIsLive'
    BY <1>1 DEF WorkerMove, EndInv, OpenIsLive, InProgress
<1>9. AbortSawEveryBoundary'
  <2>1. CASE UNCHANGED abort
      BY <1>3, <1>4, <2>1, AbortSawIt
  <2>2. CASE CollectorQuiesces(a)
    <3>1. abort'.at = "read"
        BY <2>2 DEF CollectorQuiesces, NoAbort
    <3> QED BY <3>1 DEF AbortSawEveryBoundary
  <2> QED BY <2>1, <2>2
      DEF Worker, WorkerBegins, WorkerIsStopped, WorkerIsNotPrepared, TurnSucceeds, TurnFails,
          TurnIsBroken, CollectorReturns
<1>10. OrdinaryEndHidesNoOutcome'
    BY <1>1, <1>3, <1>4
    DEF EndsHonestly, EndInv, OrdinaryEndHidesNoOutcome, IsTerminal, Unsettled
<1>11. InterruptedHasNoOpenBoundary'
    BY <1>1 DEF WorkerMove, EndsHonestly, EndInv, InterruptedHasNoOpenBoundary
<1> QED BY <1>5, <1>6, <1>7, <1>8, <1>9, <1>10, <1>11 DEF EndInv

\* The engine between two stages.
LEMMA StagesKeepEnd ==
    ASSUME FlowInv, VerdictInv, EndInv, StartRun \/ FinishPlan \/ FinishCollection
    PROVE  EndInv'
<1> USE DEF FlowInv, FlowTypeOK
<1>1. (\A a \in AttemptId : ~Busy(a)) /\ engine \in {"starting", "plan", "collect"}
    BY StageIsOver
<1>2. ASSUME NEW from, NEW to \in {"planning", "collecting", "synthesizing"}, NEW then,
             TransitionFrom(from, to, then)
      PROVE  /\ UNCHANGED attempt /\ EndsHonestly
             /\ \/ engine' = then /\ status = from /\ status' = to /\ UNCHANGED abort
                \/ engine' = "aborting" /\ abort'.at = "read" /\ UNCHANGED status
    BY <1>2, StatusRestsHonestly
    DEF TransitionFrom, TransitionRun, SetStatus, AbortFor, NoAbort, EndsHonestly, IsTerminal,
        TerminalStatuses, storeVars
<1>3. ASSUME NEW cause, AbortFor(cause) PROVE engine' = "aborting" /\ abort'.at = "read"
    BY <1>3 DEF AbortFor, NoAbort
<1>4. /\ UNCHANGED <<attempt, outcome>> /\ EndsHonestly
      /\ \/ UNCHANGED abort /\ abort.at = "idle"
         \/ abort'.at = "read"
      /\ engine' \notin {"down"}
  <2>1. abort.at = "idle"
      BY <1>1 DEF VerdictInv, AbortIsOwned, Quiescing, Busy
  <2> QED BY <1>2, <1>3, <2>1, StatusRestsHonestly
      DEF StartRun, FinishPlan, FinishCollection, FinishStage, storeVars
<1>5. \/ UNCHANGED worker /\ engine' # "plan"
      \/ /\ status = "queued" /\ engine' = "plan" /\ status' # "queued"
         /\ \A a \in AttemptId : worker'[a] = IF a = Plan THEN "ready" ELSE worker[a]
      \/ /\ engine = "plan" /\ engine' = "collect" /\ status' # "queued"
         /\ \A a \in AttemptId : worker'[a] = IF a \in Crew THEN "ready" ELSE worker[a]
  <2>1. CASE StartRun
      BY <1>2, <1>3, <2>1 DEF StartRun, EnterCrew, CrewOf
  <2>2. CASE FinishPlan
      BY <1>2, <1>3, <2>2 DEF FinishPlan, FinishStage, EnterCrew, CrewOf
  <2>3. CASE FinishCollection
      BY <1>2, <1>3, <2>3 DEF FinishCollection, FinishStage
  <2> QED BY <2>1, <2>2, <2>3
<1>6. \A a \in AttemptId : ~InProgress(a)
    BY <1>1 DEF EndInv, OpenIsLive, Busy
<1>7. QueuedIsFresh'
    BY <1>4, <1>5 DEF EndsHonestly, EndInv, QueuedIsFresh, Fresh
<1>8. PlanComesFirst'
    BY <1>4, <1>5, FlowAssumption DEF EndInv, QueuedIsFresh, PlanComesFirst, Fresh
<1>9. RowsFollowWorkers'
    BY <1>4, <1>5, FlowAssumption
    DEF EndInv, QueuedIsFresh, PlanComesFirst, RowsFollowWorkers, Fresh, StageOf
<1>10. OpenIsLive'
    BY <1>1, <1>4, <1>6 DEF EndInv, OpenIsLive, InProgress
<1>11. AbortSawEveryBoundary'
    BY <1>4 DEF AbortSawEveryBoundary
<1>12. OrdinaryEndHidesNoOutcome'
    BY <1>4
    DEF EndsHonestly, EndInv, OrdinaryEndHidesNoOutcome, IsTerminal, Unsettled, FailedBeforeItsStage
<1>13. InterruptedHasNoOpenBoundary'
    BY <1>4 DEF EndsHonestly, EndInv, InterruptedHasNoOpenBoundary
<1> QED BY <1>7, <1>8, <1>9, <1>10, <1>11, <1>12, <1>13 DEF EndInv

\* Both halves of an abort.
LEMMA AbortsKeepEnd ==
    ASSUME FlowInv, VerdictInv, EndInv, AbortReads \/ AbortCommits
    PROVE  EndInv'
<1> USE DEF FlowInv, FlowTypeOK
<1>1. /\ UNCHANGED <<attempt, outcome>>
      /\ \A a \in AttemptId :
           \/ worker'[a] = worker[a]
           \/ worker[a] = "quiescing" /\ worker'[a] = "failing"
      /\ engine' = engine \/ (engine' = "returned" /\ engine = "aborting")
  <2>1. AbortEnds =>
          /\ \A a \in AttemptId :
               worker'[a] = IF worker[a] = "quiescing" THEN "failing" ELSE worker[a]
          /\ engine' = IF engine = "aborting" THEN "returned" ELSE engine
      BY DEF AbortEnds
  <2> QED BY <2>1 DEF AbortReads, AbortCommits, TransitionRun, storeVars
<1>2. \/ status' = status
      \/ /\ abort.at = "commit" /\ abort.revision = revision /\ status' = abort.next
         /\ status' # "queued"
    BY DEF AbortReads, AbortCommits, TransitionRun, SetStatus, AbortIsSound, Endings, storeVars
<1>3. FailedBeforeItsStage' = FailedBeforeItsStage /\ Unsettled' = Unsettled
    BY <1>1 DEF FailedBeforeItsStage, Unsettled, UnsettledIn
<1>4. QueuedIsFresh'
    BY <1>1, <1>2 DEF EndInv, QueuedIsFresh, Fresh
<1>5. PlanComesFirst'
    BY <1>1, FlowAssumption DEF EndInv, PlanComesFirst, Fresh
<1>6. RowsFollowWorkers'
    BY <1>1 DEF EndInv, RowsFollowWorkers, StageOf
<1>7. OpenIsLive'
    BY <1>1 DEF EndInv, OpenIsLive, InProgress
<1>8. AbortSawEveryBoundary'
  <2>1. AbortEnds => abort'.at = "idle"
      BY DEF AbortEnds, NoAbort
  <2>2. CASE AbortReads /\ ~AbortEnds
    <3>1. abort'.next = QuiescedStatus(abort.cause, attempt)
        BY <2>2 DEF AbortReads, EngineTypeOK
    <3> QED BY <1>1, <3>1, QuiescedIsHonest DEF AbortSawEveryBoundary, IsTerminal, Unsettled
  <2>3. CASE abort' = [abort EXCEPT !.at = "read"]
    <3>1. abort'.at = "read"
        BY <2>3 DEF EngineTypeOK
    <3> QED BY <3>1 DEF AbortSawEveryBoundary
  <2> QED BY <2>1, <2>2, <2>3 DEF AbortSawEveryBoundary, AbortReads, AbortCommits
<1>9. OrdinaryEndHidesNoOutcome'
    BY <1>2, <1>3 DEF EndInv, OrdinaryEndHidesNoOutcome, AbortSawEveryBoundary, IsTerminal
<1>10. InterruptedHasNoOpenBoundary'
  <2>1. CASE status' = status
      BY <1>1, <2>1 DEF EndInv, InterruptedHasNoOpenBoundary
  <2>2. CASE abort.at = "commit" /\ abort.next = "interrupted"
    <3>1. engine = "aborting"
        BY <2>2 DEF VerdictInv, CollectorAbortsForFailure, AbortIsOwned
    <3>2. \A a \in AttemptId : worker[a] # "turn"
        BY <3>1 DEF VerdictInv, BusyInStage, Busy
    <3>3. \A a \in AttemptId : attempt[a].state \notin {"in_progress", "interrupted"}
        BY <3>1, <3>2 DEF EndInv, OpenIsLive, InProgress
    <3> QED BY <1>1, <3>3 DEF InterruptedHasNoOpenBoundary
  <2> QED BY <1>2, <2>1, <2>2 DEF InterruptedHasNoOpenBoundary
<1> QED BY <1>4, <1>5, <1>6, <1>7, <1>8, <1>9, <1>10 DEF EndInv

\* A restart closes what was in flight, and looks at every boundary.
LEMMA RestartKeepsEnd ==
    ASSUME FlowInv, EndInv, Restart
    PROVE  EndInv'
<1> DEFINE recovered == RecoveryStatus(\E a \in AttemptId :
                attempt[a].state \in {"in_progress", "interrupted"} /\ attempt[a].external)
<1> USE DEF FlowInv, FlowTypeOK
<1>1. attempt \in [AttemptId -> Attempts]
    BY DEF StoreTypeOK
<1>2. /\ \A a \in AttemptId : worker'[a] = "idle"
      /\ outcome' = outcome /\ abort'.at = "idle"
      /\ engine' = IF status = "queued" THEN "starting" ELSE "down"
    BY DEF Restart, NoAbort
<1>3. \/ UNCHANGED <<status, attempt>>
      \/ /\ status \in InFlightStatuses /\ status' = recovered
         /\ \A a \in AttemptId :
              attempt'[a] = IF InProgress(a) THEN [attempt[a] EXCEPT !.state = recovered]
                                             ELSE attempt[a]
    BY DEF Restart, RecoverInFlight
<1>4. /\ recovered \in {"interrupted", "uncertain"}
      /\ recovered = "interrupted" =>
           \A a \in AttemptId :
               attempt[a].state \in {"in_progress", "interrupted"} => ~attempt[a].external
    BY DEF RecoveryStatus
<1> HIDE DEF recovered
<1>5. \A a \in AttemptId :
        /\ attempt'[a].stage = attempt[a].stage /\ attempt'[a].external = attempt[a].external
        /\ \/ attempt'[a].state = attempt[a].state
           \/ InProgress(a) /\ attempt'[a].state = recovered
    BY <1>1, <1>3 DEF Attempts
<1>6. status' = "queued" => status = "queued" /\ UNCHANGED attempt
    BY <1>3, <1>4
<1>7. status = "queued" => status' = "queued"
    BY <1>3 DEF InFlightStatuses, ActiveStatuses
<1>8. QueuedIsFresh' /\ OpenIsLive'
    BY <1>2, <1>6, <1>7 DEF EndInv, QueuedIsFresh, OpenIsLive, Fresh, InProgress
<1>9. PlanComesFirst' /\ AbortSawEveryBoundary'
    BY <1>2 DEF PlanComesFirst, AbortSawEveryBoundary
<1>10. RowsFollowWorkers'
    BY <1>2, <1>4, <1>5 DEF EndInv, RowsFollowWorkers, InProgress, StageOf
<1>11. OrdinaryEndHidesNoOutcome'
    BY <1>2, <1>3, <1>4
    DEF EndInv, OrdinaryEndHidesNoOutcome, IsTerminal, TerminalStatuses, FailedBeforeItsStage,
        Unsettled, UnsettledIn
<1>12. InterruptedHasNoOpenBoundary'
  <2>1. CASE UNCHANGED <<status, attempt>>
      BY <2>1 DEF EndInv, InterruptedHasNoOpenBoundary
  <2>2. CASE status' = recovered
      BY <1>4, <1>5, <2>2 DEF InterruptedHasNoOpenBoundary, InProgress
  <2> QED BY <1>3, <2>1, <2>2
<1> QED BY <1>8, <1>9, <1>10, <1>11, <1>12 DEF EndInv

LEMMA EndInvInit == FlowInit => EndInv
    BY DEF FlowInit, StoreInit, AbsentAttempt, NoAbort, EndInv, QueuedIsFresh, PlanComesFirst, Fresh,
           RowsFollowWorkers, OpenIsLive, InProgress, AbortSawEveryBoundary,
           OrdinaryEndHidesNoOutcome, InterruptedHasNoOpenBoundary, IsTerminal, TerminalStatuses

\* The invariant holds in every state.
LEMMA EndInvariant == FlowSpec => []EndInv
<1>1. FlowInv /\ AnswerInv /\ VerdictInv /\ EndInv /\ [FlowNext]_flowVars => EndInv'
  <2> SUFFICES ASSUME FlowInv, AnswerInv, VerdictInv, EndInv, [FlowNext]_flowVars PROVE EndInv'
      OBVIOUS
  <2>1. CASE Engine
      BY <2>1, StagesKeepEnd, AbortsKeepEnd DEF Engine
  <2>2. CASE Bystander
      BY <2>2, BystandersKeep
  <2> QED BY <2>1, <2>2, WorkersKeep, RestartKeepsEnd DEF FlowNext, Bystander
<1> QED BY <1>1, EndInvInit, FlowInvariant, AnswerInvariant, VerdictInvariant, PTL DEF FlowSpec

-----------------------------------------------------------------------------

\* However failures, cancellations, approvals and crashes interleave, a run that
\* ended as an ordinary failure or cancellation has no external action with an
\* unknown outcome: abort's second reading of the revision is enough, because
\* nothing opens a boundary without either changing the revision or finding a
\* failed collector.
THEOREM OrdinaryEndIsClean == FlowSpec => []OrdinaryEndHidesNoOutcome
<1>1. EndInv => OrdinaryEndHidesNoOutcome
    BY DEF EndInv
<1> QED BY <1>1, EndInvariant, PTL

\* A run offered for resumption, by a restart or by its engine, holds no attempt
\* whose turn may have acted externally when it stopped.
THEOREM ResumableRunIsClean == FlowSpec => []InterruptedHasNoOpenBoundary
<1>1. EndInv => InterruptedHasNoOpenBoundary
    BY DEF EndInv
<1> QED BY <1>1, EndInvariant, PTL
=============================================================================
