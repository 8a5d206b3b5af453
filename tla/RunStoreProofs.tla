---------------------------- MODULE RunStoreProofs ----------------------------
(***************************************************************************)
(* What the transactions of RunStore guarantee for every set of attempts,  *)
(* of approvals and of collectors, and every bound: an arbitrary client    *)
(* cannot break these, so no order of calls of the engine, the router, the *)
(* dispatcher and the user can.                                            *)
(***************************************************************************)
EXTENDS RunStore, TLAPS

-----------------------------------------------------------------------------
(* The table of statuses. *)

\* Every transition leads to a status, never out of a status that is over.
LEMMA TransitionLemma ==
    ASSUME NEW from, NEW to, CanTransition(from, to)
    PROVE  /\ from \in RunStatuses /\ to \in RunStatuses
           /\ ~IsTerminal(from)
    BY DEF CanTransition, AllowedTransitions, Exits, RunStatuses, ActiveStatuses,
           TerminalStatuses, IsTerminal

\* The automatic boundary is only open while the run is in flight.
LEMMA StageStatusLemma ==
    ASSUME NEW stage
    PROVE  ActiveRunStatusForStage(stage) \in InFlightStatuses
    BY DEF ActiveRunStatusForStage, InFlightStatuses, ActiveStatuses

\* A request is created only in a run that is open.
LEMMA OpenForApprovalLemma ==
    ASSUME status = "waiting_approval" \/ CanTransition(status, "waiting_approval")
    PROVE  status \notin ClosedStatuses
    BY DEF CanTransition, AllowedTransitions, Exits, ActiveStatuses, ClosedStatuses,
           TerminalStatuses

-----------------------------------------------------------------------------
(* Type correctness. *)

\* Retiring requests keeps the table an approvals table.
LEMMA RetiredLemma ==
    ASSUME approval \in [ApprovalId -> Approvals]
    PROVE  Retired \in [ApprovalId -> Approvals]
    BY DEF Retired, Approvals

\* Marking an attempt and moving it on keep the table a stage_attempts table.
LEMMA AttemptLemma ==
    ASSUME attempt \in [AttemptId -> Attempts]
    PROVE  /\ \A a : MarkExternal(a) => attempt' \in [AttemptId -> Attempts]
           /\ \A a : \A state \in AttemptStates :
                SetAttempt(a, state) => attempt' \in [AttemptId -> Attempts]
<1>1. ASSUME NEW a, MarkExternal(a) PROVE attempt' \in [AttemptId -> Attempts]
    BY <1>1 DEF MarkExternal, Attempts
<1>2. ASSUME NEW a, NEW state \in AttemptStates, SetAttempt(a, state)
      PROVE  attempt' \in [AttemptId -> Attempts]
    BY <1>2 DEF SetAttempt, Attempts
<1> QED BY <1>1, <1>2

\* The initial rows have their types.
LEMMA TypeInit == StoreInit => StoreTypeOK
    BY StoreAssumption
    DEF StoreInit, StoreTypeOK, RunStatuses, AbsentAttempt, AbsentApproval, Attempts, Approvals,
        Stages, Ordinals, ApprovalKinds

\* No transaction takes a row out of its type.
LEMMA TypeStep == StoreTypeOK /\ [StoreNext]_storeVars => StoreTypeOK'
<1> SUFFICES ASSUME StoreTypeOK, [StoreNext]_storeVars PROVE StoreTypeOK'
    OBVIOUS
<1> USE StoreAssumption DEF StoreTypeOK
<1>1. ASSUME NEW next, SetStatus(next)
      PROVE  status' \in RunStatuses /\ revision' \in 0..MaxRevision
    BY <1>1, TransitionLemma DEF SetStatus
<1>2. Retired \in [ApprovalId -> Approvals]
    BY RetiredLemma
<1>3. CASE RunStep
  <2>1. ASSUME NEW next \in RunStatuses, TransitionRun(revision, next) PROVE StoreTypeOK'
      BY <1>1, <1>2, <2>1 DEF TransitionRun
  <2>2. ASSUME NEW requested, QuiesceRun(requested) PROVE StoreTypeOK'
      BY <1>1, <1>2, <2>2 DEF QuiesceRun
  <2>3. ASSUME NEW prior, ResumeRunAfterApproval(prior) PROVE StoreTypeOK'
      BY <1>1, <2>3 DEF ResumeRunAfterApproval
  <2>4. CASE SucceedRun(revision)
      BY <1>1, <1>2, <2>4 DEF SucceedRun, FinalReports
  <2>5. ASSUME NEW c \in 0..MaxRevisions, SetRunCycle(revision, c) PROVE StoreTypeOK'
      BY <2>5 DEF SetRunCycle
  <2>6. CASE RecoverInFlight
    <3> DEFINE recovered == RecoveryStatus(\E a \in AttemptId :
                    attempt[a].state \in {"in_progress", "interrupted"} /\ attempt[a].external)
    <3>1. recovered \in {"interrupted", "uncertain"}
        BY DEF RecoveryStatus
    <3>2. status' \in RunStatuses /\ revision' \in 0..MaxRevision
        <4>1. \/ status' = recovered /\ revision' = revision + 1 /\ revision < MaxRevision
              \/ status' = status /\ revision' = revision
            BY <2>6 DEF RecoverInFlight
        <4>2. recovered \in RunStatuses
            BY <3>1 DEF RunStatuses
        <4> HIDE DEF recovered
        <4> QED BY <4>1, <4>2
    <3>3. attempt' \in [AttemptId -> Attempts]
        <4>1. ASSUME NEW a \in AttemptId PROVE [attempt[a] EXCEPT !.state = recovered] \in Attempts
            BY <3>1 DEF Attempts, AttemptStates
        <4> QED BY <2>6, <4>1 DEF RecoverInFlight
    <3>4. approval' \in [ApprovalId -> Approvals]
        <4>1. ASSUME NEW p \in ApprovalId PROVE [approval[p] EXCEPT !.state = "expired"] \in Approvals
            BY DEF Approvals
        <4> QED BY <2>6, <4>1 DEF RecoverInFlight
    <3> QED BY <2>6, <3>2, <3>3, <3>4 DEF RecoverInFlight
  <2>7. CASE PrepareInterruptedRunForResume
      BY <2>7 DEF PrepareInterruptedRunForResume, Attempts, AttemptStates
  <2>8. ASSUME NEW ordinal, PrepareResearchRemediation(revision, ordinal) PROVE StoreTypeOK'
      BY <1>1, <1>2, <2>8 DEF PrepareResearchRemediation, Attempts, AttemptStates
  <2> QED BY <1>3, <2>1, <2>2, <2>3, <2>4, <2>5, <2>6, <2>7, <2>8 DEF RunStep
<1>4. ASSUME NEW a \in AttemptId, StageStep(a) PROVE StoreTypeOK'
  <2>1. ASSUME NEW stage \in Stages, NEW ordinal \in Ordinals, BeginStage(a, stage, ordinal)
        PROVE  StoreTypeOK'
      BY <2>1 DEF BeginStage, Attempts, AttemptStates
  <2>2. CASE MarkActiveStageExternalSideEffects(a)
      BY <2>2, AttemptLemma DEF MarkActiveStageExternalSideEffects
  <2>3. ASSUME NEW outcome \in {"completed", "failed"}, CompleteStage(a, outcome) PROVE StoreTypeOK'
      BY <2>3, AttemptLemma DEF CompleteStage, AttemptStates
  <2>4. CASE FailCollectStageAndQuiesceRun(a)
      BY <1>1, <1>2, <2>4, AttemptLemma DEF FailCollectStageAndQuiesceRun, AttemptStates
  <2>5. CASE PreparePlanContractRetry(a)
      BY <2>5, AttemptLemma DEF PreparePlanContractRetry, AttemptStates
  <2>6. \A stage \in Stages : StageOrdinals(stage) \subseteq Ordinals
      BY DEF StageOrdinals, Ordinals
  <2> QED BY <1>4, <2>1, <2>2, <2>3, <2>4, <2>5, <2>6 DEF StageStep
<1>5. ASSUME NEW p \in ApprovalId, ApprovalStep(p) PROVE StoreTypeOK'
  <2>1. ASSUME NEW a \in AttemptId, NEW kind \in ApprovalKinds, CreateApproval(p, a, kind)
        PROVE  StoreTypeOK'
      BY <2>1 DEF CreateApproval, Approvals
  <2>2. CASE DecideApproval(p, "approved")
      BY <2>2 DEF DecideApproval, Approvals
  <2>3. ASSUME NEW decision \in {"approved", "denied"}, DecideActiveApproval(p, decision)
        PROVE  StoreTypeOK'
    <3>1. approval' \in [ApprovalId -> Approvals]
        BY <2>3 DEF DecideActiveApproval, Approvals
    <3>2. attempt' \in [AttemptId -> Attempts]
        BY <2>3, AttemptLemma DEF DecideActiveApproval
    <3> QED BY <2>3, <3>1, <3>2 DEF DecideActiveApproval
  <2>4. ASSUME NEW a \in AttemptId, BeginEngineeringJob(a, p) PROVE StoreTypeOK'
      BY <2>4, AttemptLemma DEF BeginEngineeringJob
  <2> QED BY <1>5, <2>1, <2>2, <2>3, <2>4 DEF ApprovalStep
<1>6. CASE UNCHANGED storeVars
    BY <1>6 DEF storeVars
<1> QED BY <1>3, <1>4, <1>5, <1>6 DEF StoreNext

\* The rows have their types in every state.
THEOREM TypeCorrect == StoreSpec => []StoreTypeOK
<1>1. StoreInit => StoreTypeOK
    BY TypeInit
<1>2. StoreTypeOK /\ [StoreNext]_storeVars => StoreTypeOK'
    BY TypeStep
<1> QED BY <1>1, <1>2, PTL DEF StoreSpec

-----------------------------------------------------------------------------
(* No request stays open on a closed run. *)

\* Retiring leaves no request pending.
LEMMA NonePendingLemma ==
    ASSUME StoreTypeOK, approval' = Retired
    PROVE  Pending' = {}
    BY DEF Retired, Pending, StoreTypeOK, Approvals

\* No transaction leaves a request pending on a run it finds or makes closed.
LEMMA NoOpenApprovalStep ==
    StoreTypeOK /\ NoOpenApprovalOnClosedRun /\ [StoreNext]_storeVars
        => NoOpenApprovalOnClosedRun'
<1> SUFFICES ASSUME StoreTypeOK, NoOpenApprovalOnClosedRun, [StoreNext]_storeVars
             PROVE  NoOpenApprovalOnClosedRun'
    OBVIOUS
<1> USE DEF NoOpenApprovalOnClosedRun
<1>1. ASSUME approval' = Retired PROVE NoOpenApprovalOnClosedRun'
    BY <1>1, NonePendingLemma
<1>2. ASSUME status' = status, approval' = approval PROVE NoOpenApprovalOnClosedRun'
    BY <1>2 DEF Pending
<1>3. CASE RunStep
  <2>1. ASSUME NEW next \in RunStatuses, TransitionRun(revision, next)
        PROVE  NoOpenApprovalOnClosedRun'
      BY <1>1, <2>1 DEF TransitionRun, SetStatus
  <2>2. ASSUME NEW requested, QuiesceRun(requested) PROVE NoOpenApprovalOnClosedRun'
      BY <1>1, <2>2 DEF QuiesceRun
  <2>3. ASSUME NEW prior \in ActiveStatuses, ResumeRunAfterApproval(prior)
        PROVE  NoOpenApprovalOnClosedRun'
      BY <2>3 DEF ResumeRunAfterApproval, SetStatus, ActiveStatuses, ClosedStatuses, TerminalStatuses
  <2>4. CASE SucceedRun(revision)
      BY <1>1, <2>4 DEF SucceedRun
  <2>5. ASSUME NEW c, SetRunCycle(revision, c) PROVE NoOpenApprovalOnClosedRun'
      BY <1>2, <2>5 DEF SetRunCycle
  <2>6. CASE RecoverInFlight
      BY <2>6 DEF RecoverInFlight, Pending, StoreTypeOK, Approvals
  <2>7. CASE PrepareInterruptedRunForResume
      BY <1>2, <2>7 DEF PrepareInterruptedRunForResume
  <2>8. ASSUME NEW ordinal, PrepareResearchRemediation(revision, ordinal)
        PROVE  NoOpenApprovalOnClosedRun'
      BY <1>1, <2>8 DEF PrepareResearchRemediation
  <2> QED BY <1>3, <2>1, <2>2, <2>3, <2>4, <2>5, <2>6, <2>7, <2>8 DEF RunStep
<1>4. ASSUME NEW a \in AttemptId, StageStep(a) PROVE NoOpenApprovalOnClosedRun'
    BY <1>1, <1>2, <1>4
    DEF StageStep, BeginStage, MarkActiveStageExternalSideEffects, CompleteStage,
        FailCollectStageAndQuiesceRun, PreparePlanContractRetry
<1>5. ASSUME NEW p \in ApprovalId, ApprovalStep(p) PROVE NoOpenApprovalOnClosedRun'
  <2>1. ASSUME NEW a, NEW kind, CreateApproval(p, a, kind) PROVE NoOpenApprovalOnClosedRun'
      BY <2>1, OpenForApprovalLemma DEF CreateApproval, MayCreateApproval
  <2>2. ASSUME p \in Pending, status' = status PROVE NoOpenApprovalOnClosedRun'
      BY <2>2
  <2>3. CASE DecideApproval(p, "approved")
      BY <2>2, <2>3 DEF DecideApproval
  <2>4. ASSUME NEW decision, DecideActiveApproval(p, decision) PROVE NoOpenApprovalOnClosedRun'
      BY <2>2, <2>4 DEF DecideActiveApproval
  <2>5. ASSUME NEW a, BeginEngineeringJob(a, p) PROVE NoOpenApprovalOnClosedRun'
      BY <1>2, <2>5 DEF BeginEngineeringJob
  <2> QED BY <1>5, <2>1, <2>3, <2>4, <2>5 DEF ApprovalStep
<1>6. CASE UNCHANGED storeVars
    BY <1>2, <1>6 DEF storeVars
<1> QED BY <1>3, <1>4, <1>5, <1>6 DEF StoreNext

\* A run that is over, interrupted or uncertain never has a request the user
\* could still approve.
THEOREM ClosedRunHasNoOpenApproval == StoreSpec => []NoOpenApprovalOnClosedRun
<1>1. StoreInit => NoOpenApprovalOnClosedRun
    BY DEF StoreInit, NoOpenApprovalOnClosedRun, Pending, AbsentApproval
<1> QED BY <1>1, NoOpenApprovalStep, TypeCorrect, PTL DEF StoreSpec

-----------------------------------------------------------------------------
(* What is adopted. *)

\* A completed attempt changes only when a remediation seals its cycle.
LEMMA CompletedLemma ==
    ASSUME StoreTypeOK, [StoreNext]_storeVars,
           NEW a \in AttemptId, attempt[a].state = "completed"
    PROVE  attempt'[a].state = "completed" \/ status = "reviewing"
<1> USE DEF StoreTypeOK, InProgress
<1>1. ASSUME NEW b, NEW state, SetAttempt(b, state), attempt[b].state # "completed"
      PROVE  attempt'[a].state = "completed"
    BY <1>1 DEF SetAttempt
<1>2. ASSUME NEW b, MarkExternal(b) PROVE attempt'[a].state = "completed"
    BY <1>2 DEF MarkExternal, Attempts
<1>3. CASE RunStep
    BY <1>3
    DEF RunStep, TransitionRun, QuiesceRun, ResumeRunAfterApproval, SucceedRun, SetRunCycle,
        RecoverInFlight, PrepareInterruptedRunForResume, PrepareResearchRemediation
<1>4. ASSUME NEW b \in AttemptId, StageStep(b) PROVE attempt'[a].state = "completed"
    BY <1>1, <1>2, <1>4
    DEF StageStep, BeginStage, MarkActiveStageExternalSideEffects, CompleteStage,
        FailCollectStageAndQuiesceRun, PreparePlanContractRetry
<1>5. ASSUME NEW p \in ApprovalId, ApprovalStep(p) PROVE attempt'[a].state = "completed"
    BY <1>2, <1>5
    DEF ApprovalStep, CreateApproval, DecideApproval, DecideActiveApproval, BeginEngineeringJob
<1> QED BY <1>3, <1>4, <1>5 DEF StoreNext, storeVars

\* A write of runs.status that is not SucceedRun's neither enters nor leaves
\* "succeeded".
LEMMA SucceededLemma ==
    ASSUME NEW next, SetStatus(next), next # "succeeded"
    PROVE  status' # "succeeded" /\ status # "succeeded"
    BY TransitionLemma DEF SetStatus, IsTerminal, TerminalStatuses

\* No transaction adopts anything but the current output, or takes from a run
\* what it adopted.
LEMMA OnlyCurrentStep ==
    StoreTypeOK /\ OnlyCurrentOutputAdopted /\ [StoreNext]_storeVars => OnlyCurrentOutputAdopted'
<1> SUFFICES ASSUME StoreTypeOK, OnlyCurrentOutputAdopted, [StoreNext]_storeVars
             PROVE  OnlyCurrentOutputAdopted'
    OBVIOUS
<1>1. ASSUME report' = report, adopted' = adopted,
             (status' = "succeeded") <=> (status = "succeeded")
      PROVE  OnlyCurrentOutputAdopted'
  <2>1. status # "reviewing" \/ adopted = {}
      BY DEF OnlyCurrentOutputAdopted
  <2>2. \A a \in adopted : attempt'[a].state = "completed"
      BY <2>1, CompletedLemma DEF OnlyCurrentOutputAdopted, StoreTypeOK
  <2> QED BY <1>1, <2>2 DEF OnlyCurrentOutputAdopted
<1>2. ASSUME report' = report, adopted' = adopted, status' = status
      PROVE  OnlyCurrentOutputAdopted'
    BY <1>1, <1>2
<1>3. ASSUME report' = report, adopted' = adopted, NEW next, SetStatus(next), next # "succeeded"
      PROVE  OnlyCurrentOutputAdopted'
    BY <1>1, <1>3, SucceededLemma
<1>4. \A requested, rows : requested # "succeeded" => QuiescedStatus(requested, rows) # "succeeded"
    BY DEF QuiescedStatus
<1>5. CASE RunStep
  <2>1. ASSUME NEW next \in RunStatuses \ {"queued", "succeeded"}, TransitionRun(revision, next)
        PROVE  OnlyCurrentOutputAdopted'
      BY <1>3, <2>1 DEF TransitionRun
  <2>2. ASSUME NEW requested \in {"cancelled", "failed"}, QuiesceRun(requested)
        PROVE  OnlyCurrentOutputAdopted'
      BY <1>3, <1>4, <2>2 DEF QuiesceRun
  <2>3. ASSUME NEW prior \in ActiveStatuses, ResumeRunAfterApproval(prior)
        PROVE  OnlyCurrentOutputAdopted'
      BY <1>3, <2>3 DEF ResumeRunAfterApproval, ActiveStatuses
  <2>4. CASE SucceedRun(revision)
    <3>1. status' = "succeeded" /\ attempt' = attempt
        BY <2>4 DEF SucceedRun, SetStatus
    <3>2. PICK final \in FinalReports(cycle) :
            /\ report' = final
            /\ adopted' = {final} \cup
                 {a \in AttemptId : attempt[a].stage = "collect" /\ attempt[a].state = "completed"}
        BY <2>4 DEF SucceedRun
    <3>3. final # NoAttempt /\ attempt[final].state = "completed"
        BY <3>2, StoreAssumption DEF FinalReports
    <3> QED BY <3>1, <3>2, <3>3 DEF OnlyCurrentOutputAdopted
  <2>5. ASSUME NEW c, SetRunCycle(revision, c) PROVE OnlyCurrentOutputAdopted'
      BY <1>2, <2>5 DEF SetRunCycle
  <2>6. CASE RecoverInFlight
      BY <1>1, <2>6
      DEF RecoverInFlight, RecoveryStatus, InFlightStatuses, ActiveStatuses
  <2>7. CASE PrepareInterruptedRunForResume
      BY <1>2, <2>7 DEF PrepareInterruptedRunForResume
  <2>8. ASSUME NEW ordinal, PrepareResearchRemediation(revision, ordinal)
        PROVE  OnlyCurrentOutputAdopted'
      BY <1>3, <2>8 DEF PrepareResearchRemediation, OnlyCurrentOutputAdopted
  <2> QED BY <1>5, <2>1, <2>2, <2>3, <2>4, <2>5, <2>6, <2>7, <2>8 DEF RunStep
<1>6. ASSUME NEW a \in AttemptId, StageStep(a) PROVE OnlyCurrentOutputAdopted'
    BY <1>2, <1>3, <1>4, <1>6
    DEF StageStep, BeginStage, MarkActiveStageExternalSideEffects, CompleteStage,
        FailCollectStageAndQuiesceRun, PreparePlanContractRetry
<1>7. ASSUME NEW p \in ApprovalId, ApprovalStep(p) PROVE OnlyCurrentOutputAdopted'
    BY <1>2, <1>7
    DEF ApprovalStep, CreateApproval, DecideApproval, DecideActiveApproval, BeginEngineeringJob
<1>8. CASE UNCHANGED storeVars
    BY <1>2, <1>8 DEF storeVars
<1> QED BY <1>5, <1>6, <1>7, <1>8 DEF StoreNext

\* Only a run that succeeded has adopted output, and all of it comes from
\* attempts that completed in its last research cycle.
THEOREM OnlyCurrentOutputIsAdopted == StoreSpec => []OnlyCurrentOutputAdopted
<1>1. StoreInit => OnlyCurrentOutputAdopted
    BY DEF StoreInit, OnlyCurrentOutputAdopted
<1> QED BY <1>1, OnlyCurrentStep, TypeCorrect, PTL DEF StoreSpec

-----------------------------------------------------------------------------
(* What a step may never do. *)

\* The run row is written with its revision, which never goes back.
LEMMA RunRowLemma ==
    ASSUME revision \in Nat, [StoreNext]_storeVars
    PROVE  /\ RunRowChange
           /\ revision' = revision \/ revision' = revision + 1
<1> USE DEF RunRowChange, SetStatus
<1>1. CASE RunStep
    BY <1>1
    DEF RunStep, TransitionRun, QuiesceRun, ResumeRunAfterApproval, SucceedRun, SetRunCycle,
        RecoverInFlight, PrepareInterruptedRunForResume, PrepareResearchRemediation
<1>2. ASSUME NEW a \in AttemptId, StageStep(a)
      PROVE  RunRowChange /\ (revision' = revision \/ revision' = revision + 1)
    BY <1>2
    DEF StageStep, BeginStage, MarkActiveStageExternalSideEffects, CompleteStage,
        FailCollectStageAndQuiesceRun, PreparePlanContractRetry
<1>3. ASSUME NEW p \in ApprovalId, ApprovalStep(p)
      PROVE  RunRowChange /\ (revision' = revision \/ revision' = revision + 1)
    BY <1>3
    DEF ApprovalStep, CreateApproval, DecideApproval, DecideActiveApproval, BeginEngineeringJob
<1>4. CASE UNCHANGED storeVars
    BY <1>4 DEF storeVars
<1> QED BY <1>1, <1>2, <1>3, <1>4 DEF StoreNext

\* Every change of the run row moves the revision on by one.
THEOREM RevisionIsSound == StoreSpec => RevisionGuardsRunRow
<1>1. ASSUME StoreTypeOK, [StoreNext]_storeVars PROVE RunRowChange \/ UNCHANGED storeVars
    BY <1>1, RunRowLemma, StoreAssumption DEF StoreTypeOK
<1> QED BY <1>1, TypeCorrect, PTL DEF StoreSpec, RevisionGuardsRunRow

\* A request that was recorded stays recorded, for the same kind of action.
LEMMA RequestLemma ==
    ASSUME StoreTypeOK, [StoreNext]_storeVars,
           NEW p \in ApprovalId, approval[p].state # "none"
    PROVE  approval'[p].state # "none" /\ approval'[p].kind = approval[p].kind
<1> USE DEF StoreTypeOK, Approvals
<1>1. ASSUME approval' = Retired \/ approval' = approval
      PROVE  approval'[p].state # "none" /\ approval'[p].kind = approval[p].kind
    BY <1>1 DEF Retired
<1>2. CASE RunStep
  <2>1. CASE RecoverInFlight
      BY <2>1 DEF RecoverInFlight
  <2> QED BY <1>1, <1>2, <2>1
      DEF RunStep, TransitionRun, QuiesceRun, ResumeRunAfterApproval, SucceedRun, SetRunCycle,
          PrepareInterruptedRunForResume, PrepareResearchRemediation
<1>3. ASSUME NEW a \in AttemptId, StageStep(a)
      PROVE  approval'[p].state # "none" /\ approval'[p].kind = approval[p].kind
    BY <1>1, <1>3
    DEF StageStep, BeginStage, MarkActiveStageExternalSideEffects, CompleteStage,
        FailCollectStageAndQuiesceRun, PreparePlanContractRetry
<1>4. ASSUME NEW q \in ApprovalId, ApprovalStep(q)
      PROVE  approval'[p].state # "none" /\ approval'[p].kind = approval[p].kind
    BY <1>1, <1>4
    DEF ApprovalStep, CreateApproval, DecideApproval, DecideActiveApproval, BeginEngineeringJob
<1>5. CASE UNCHANGED storeVars
    BY <1>5 DEF storeVars
<1> QED BY <1>2, <1>3, <1>4, <1>5 DEF StoreNext

\* The boundary of an external action opens only for a live turn of a run that
\* is in flight and has no failed collector.
THEOREM BoundaryIsGuarded == StoreSpec => BoundaryOpensOnlyInLiveRun
<1>1. ASSUME StoreTypeOK, StoreTypeOK', [StoreNext]_storeVars
      PROVE  BoundaryOpening \/ UNCHANGED storeVars
  <2> DEFINE Guarded(b) == /\ InProgress(b)
                           /\ status \in InFlightStatuses
                           /\ ~FailedCollectorExists
  <2>1. ASSUME \A b \in AttemptId : attempt'[b].external => attempt[b].external
        PROVE  BoundaryOpening
      BY <2>1 DEF BoundaryOpening
  <2>2. ASSUME NEW a, MarkExternal(a), Guarded(a) PROVE BoundaryOpening
      BY <1>1, <2>2 DEF BoundaryOpening, MarkExternal, StoreTypeOK, Attempts
  <2>3. ASSUME NEW a, NEW state, SetAttempt(a, state) PROVE BoundaryOpening
      BY <1>1, <2>1, <2>3 DEF SetAttempt, StoreTypeOK, Attempts
  <2>4. CASE RunStep
    <3>1. CASE UNCHANGED attempt
        BY <2>1, <3>1
    <3>2. CASE RecoverInFlight
        <4>1. ASSUME NEW b \in AttemptId, NEW state,
                     attempt'[b] = [attempt[b] EXCEPT !.state = state] \/ attempt'[b] = attempt[b]
              PROVE  attempt'[b].external = attempt[b].external
            BY <1>1, <4>1 DEF StoreTypeOK, Attempts
        <4>2. ASSUME NEW b \in AttemptId
              PROVE  \/ attempt'[b] = attempt[b]
                     \/ \E state : attempt'[b] = [attempt[b] EXCEPT !.state = state]
            BY <1>1, <3>2, Zenon DEF RecoverInFlight, StoreTypeOK
        <4> QED BY <2>1, <4>1, <4>2
    <3>3. CASE PrepareInterruptedRunForResume
        BY <1>1, <2>1, <3>3 DEF PrepareInterruptedRunForResume, StoreTypeOK, Attempts
    <3>4. ASSUME NEW ordinal, PrepareResearchRemediation(revision, ordinal) PROVE BoundaryOpening
        BY <1>1, <2>1, <3>4 DEF PrepareResearchRemediation, StoreTypeOK, Attempts
    <3> QED BY <2>4, <3>1, <3>2, <3>3, <3>4
        DEF RunStep, TransitionRun, QuiesceRun, ResumeRunAfterApproval, SucceedRun, SetRunCycle
  <2>5. ASSUME NEW a \in AttemptId, StageStep(a) PROVE BoundaryOpening
    <3>1. ASSUME NEW stage, NEW ordinal, BeginStage(a, stage, ordinal) PROVE BoundaryOpening
        BY <1>1, <2>1, <3>1 DEF BeginStage, StoreTypeOK, Attempts
    <3>2. CASE MarkActiveStageExternalSideEffects(a)
        BY <2>2, <3>2, StageStatusLemma
        DEF MarkActiveStageExternalSideEffects, MayMarkActive, InFlightStatuses
    <3> QED BY <2>3, <2>5, <3>1, <3>2
        DEF StageStep, CompleteStage, FailCollectStageAndQuiesceRun, PreparePlanContractRetry
  <2>6. ASSUME NEW p \in ApprovalId, ApprovalStep(p) PROVE BoundaryOpening
    <3>1. CASE UNCHANGED attempt
        BY <2>1, <3>1
    <3>2. ASSUME NEW decision, DecideActiveApproval(p, decision) PROVE BoundaryOpening
        BY <2>2, <3>1, <3>2 DEF DecideActiveApproval, Decidable, InFlightStatuses
    <3>3. ASSUME NEW a, BeginEngineeringJob(a, p) PROVE BoundaryOpening
        BY <2>2, <3>3 DEF BeginEngineeringJob, InFlightStatuses, ActiveStatuses
    <3> QED BY <2>6, <3>1, <3>2, <3>3 DEF ApprovalStep, CreateApproval, DecideApproval
  <2> QED BY <1>1, <2>4, <2>5, <2>6 DEF StoreNext
<1> QED BY <1>1, TypeCorrect, PTL DEF StoreSpec, BoundaryOpensOnlyInLiveRun

-----------------------------------------------------------------------------
(* What may have acted outside is not done twice. *)

InPlace(a) == attempt[a].state \notin {"none", "superseded"}

SamePlace(a, b) == attempt[a].stage = attempt[b].stage /\ attempt[a].ordinal = attempt[b].ordinal

\* The inductive form: a place has one row that was not set aside, and a row
\* that crossed its boundary is set aside only with its whole research cycle.
PlacesInv ==
    /\ \A a \in AttemptId : attempt[a].state = "none" => ~attempt[a].external
    /\ \A a \in AttemptId :
         remediations = 0 /\ attempt[a].state = "superseded" => ~attempt[a].external
    /\ \A a, b \in AttemptId : a # b /\ InPlace(a) /\ InPlace(b) => ~SamePlace(a, b)

\* The inductive form says what the property says.
LEMMA PlacesLemma == StoreTypeOK /\ PlacesInv => ExternalWorkIsTriedOnce
    BY DEF PlacesInv, ExternalWorkIsTriedOnce, InPlace, SamePlace

\* No transaction puts two rows in one place or sets aside what acted outside.
LEMMA PlacesStep == StoreTypeOK /\ PlacesInv /\ [StoreNext]_storeVars => PlacesInv'
<1> SUFFICES ASSUME StoreTypeOK, PlacesInv, [StoreNext]_storeVars PROVE PlacesInv'
    OBVIOUS
<1> DEFINE
      Kept(a) ==
        /\ attempt'[a].stage = attempt[a].stage
        /\ attempt'[a].ordinal = attempt[a].ordinal
        /\ attempt'[a].external = attempt[a].external
        /\ attempt'[a].state = "none" => attempt[a].state = "none"
        /\ attempt[a].state \in {"none", "superseded"} => attempt'[a].state \in {"none", "superseded"}
        /\ attempt'[a].state = "superseded" =>
             \/ attempt[a].state = "superseded"
             \/ ~attempt[a].external
             \/ remediations' # 0
<1>1. ASSUME \A a \in AttemptId : Kept(a), remediations' = 0 => remediations = 0
      PROVE  PlacesInv'
    BY <1>1 DEF PlacesInv, InPlace, SamePlace
<1>2. ASSUME attempt' = attempt, remediations' = remediations PROVE PlacesInv'
    BY <1>2 DEF PlacesInv, InPlace, SamePlace
<1>3. ASSUME NEW a \in AttemptId, NEW state \in AttemptStates, SetAttempt(a, state),
             attempt[a].state \notin {"none", "superseded"},
             state = "superseded" => ~attempt[a].external,
             remediations' = remediations
      PROVE  PlacesInv'
  <2>1. \A b \in AttemptId : Kept(b)
      BY <1>3 DEF SetAttempt, StoreTypeOK, Attempts, AttemptStates
  <2> QED BY <1>1, <1>3, <2>1
<1>4. ASSUME NEW a, MarkExternal(a), InProgress(a), remediations' = remediations
      PROVE  PlacesInv'
  <2>1. ASSUME NEW b \in AttemptId
        PROVE  /\ attempt'[b].stage = attempt[b].stage
               /\ attempt'[b].ordinal = attempt[b].ordinal
               /\ attempt'[b].state = attempt[b].state
               /\ b # a => attempt'[b].external = attempt[b].external
      BY <1>4 DEF MarkExternal, StoreTypeOK, Attempts
  <2> QED BY <1>4, <2>1 DEF PlacesInv, InPlace, SamePlace, InProgress
<1>5. CASE RunStep
  <2>1. CASE UNCHANGED <<attempt, remediations>>
      BY <1>2, <2>1
  <2>2. CASE RecoverInFlight
    <3>1. remediations' = remediations
        BY <2>2 DEF RecoverInFlight
    <3>2. ASSUME NEW a \in AttemptId PROVE Kept(a)
        BY <2>2 DEF RecoverInFlight, RecoveryStatus, InProgress, StoreTypeOK, Attempts
    <3> QED BY <1>1, <3>1, <3>2
  <2>3. CASE PrepareInterruptedRunForResume
    <3>1. ASSUME NEW a \in AttemptId PROVE Kept(a)
        BY <2>3 DEF PrepareInterruptedRunForResume, StoreTypeOK, Attempts
    <3> QED BY <1>1, <2>3, <3>1 DEF PrepareInterruptedRunForResume
  <2>4. ASSUME NEW ordinal, PrepareResearchRemediation(revision, ordinal) PROVE PlacesInv'
    <3>1. remediations' # 0
        BY <2>4 DEF PrepareResearchRemediation, StoreTypeOK
    <3>2. ASSUME NEW a \in AttemptId PROVE Kept(a)
        BY <2>4, <3>1 DEF PrepareResearchRemediation, StoreTypeOK, Attempts
    <3> QED BY <1>1, <3>1, <3>2
  <2> QED BY <1>5, <2>1, <2>2, <2>3, <2>4
      DEF RunStep, TransitionRun, QuiesceRun, ResumeRunAfterApproval, SucceedRun, SetRunCycle
<1>6. ASSUME NEW a \in AttemptId, StageStep(a) PROVE PlacesInv'
  <2>1. ASSUME NEW stage, NEW ordinal, BeginStage(a, stage, ordinal) PROVE PlacesInv'
    <3>1. attempt'[a] =
            [state |-> "in_progress", stage |-> stage, ordinal |-> ordinal, external |-> FALSE]
        BY <2>1 DEF BeginStage, StoreTypeOK
    <3>2. \A b \in AttemptId : b # a => attempt'[b] = attempt[b]
        BY <2>1 DEF BeginStage, StoreTypeOK
    <3>3. \A b \in AttemptId : b # a /\ InPlace(b) =>
              ~(attempt[b].stage = stage /\ attempt[b].ordinal = ordinal)
        BY <2>1 DEF BeginStage, StageIsFree, InPlace
    <3> QED BY <2>1, <3>1, <3>2, <3>3 DEF BeginStage, PlacesInv, InPlace, SamePlace
  <2>2. CASE MarkActiveStageExternalSideEffects(a)
      BY <1>4, <2>2 DEF MarkActiveStageExternalSideEffects, MayMarkActive
  <2>3. ASSUME NEW outcome \in {"completed", "failed"}, CompleteStage(a, outcome) PROVE PlacesInv'
      BY <1>3, <2>3 DEF CompleteStage, InProgress, AttemptStates
  <2>4. CASE FailCollectStageAndQuiesceRun(a)
      BY <1>3, <2>4 DEF FailCollectStageAndQuiesceRun, InProgress, AttemptStates
  <2>5. CASE PreparePlanContractRetry(a)
      BY <1>3, <2>5 DEF PreparePlanContractRetry, AttemptStates
  <2> QED BY <1>6, <2>1, <2>2, <2>3, <2>4, <2>5 DEF StageStep
<1>7. ASSUME NEW p \in ApprovalId, ApprovalStep(p) PROVE PlacesInv'
    BY <1>2, <1>4, <1>7
    DEF ApprovalStep, CreateApproval, DecideApproval, DecideActiveApproval, Decidable,
        BeginEngineeringJob
<1>8. CASE UNCHANGED storeVars
    BY <1>2, <1>8 DEF storeVars
<1> QED BY <1>5, <1>6, <1>7, <1>8 DEF StoreNext

\* Within one research cycle no two attempts of the same work both crossed the
\* boundary of an external action, however often the run is recovered, resumed
\* and retried.
THEOREM ExternalWorkIsNotRepeated == StoreSpec => []ExternalWorkIsTriedOnce
<1>1. StoreInit => PlacesInv
    BY DEF StoreInit, PlacesInv, AbsentAttempt, InPlace
<1>2. StoreTypeOK /\ PlacesInv /\ [StoreNext]_storeVars => PlacesInv'
    BY PlacesStep
<1>3. StoreTypeOK /\ PlacesInv => ExternalWorkIsTriedOnce
    BY PlacesLemma
<1> QED BY <1>1, <1>2, <1>3, TypeCorrect, PTL DEF StoreSpec
=============================================================================
