----------------------------- MODULE EvidenceProofs -----------------------------
(***************************************************************************)
(* What evidence rests on: the evidence of a run, that its sweep of        *)
(* engineering cases gathers, and the evidence of a release, that its      *)
(* admission is given on.  The two share nothing but the argument: what a  *)
(* step may do to the rows somebody rests on.                              *)
(*                                                                         *)
(* The sweep, for every number of cells, of attempts, of approvals and of  *)
(* jobs: a solver call happens once, a complete sweep is whole, a receipt  *)
(* read back is current and a cell is authorised by the user's consent.    *)
(* The collectors, the engine and the user only issue transactions of      *)
(* RunStore (StoreStep), so what its rows keep, whatever the order of the  *)
(* calls (AttemptsAreKept, RequestsAreKept), and its invariants hold of    *)
(* the sweep as well.  The rest is about the memory of the process: what a *)
(* collector holds (HeldInv, RequestInv), which jobs are of which research *)
(* cycle (JobInv), and that no collector's turn outlives the collection    *)
(* (PhaseInv).                                                             *)
(*                                                                         *)
(* The release, for every policy and every number of cases, of sessions,   *)
(* of runs, of builds, of trees and of ledgers: each case of a passed      *)
(* evaluation ran once, in the one session that was watched, and an        *)
(* admission rests on one build and one source tree.  EvaluationInv says   *)
(* what a journal knows of the runs it asked for, ReleaseInv what a        *)
(* producer at work, its receipt and the admission tool have looked at;    *)
(* RunsMove and ReleaseMoves are what a step may do to any of it.          *)
(***************************************************************************)
EXTENDS EngineeringSweep, RunStoreProofs, LiveEvidence, FiniteSetTheorems,
        SequenceTheorems, WellFoundedInduction

-----------------------------------------------------------------------------
(* What every transaction of RunStore keeps of a row that was inserted. *)

AttemptKept(a) ==
    attempt[a].state # "none" =>
        /\ attempt'[a].state # "none"
        /\ attempt'[a].stage = attempt[a].stage /\ attempt'[a].ordinal = attempt[a].ordinal
        /\ attempt[a].external => attempt'[a].external
        /\ attempt[a].state = "superseded" => attempt'[a].state = "superseded"
        /\ attempt'[a].state = "in_progress" => attempt[a].state = "in_progress"
        /\ (remediations' = remediations /\ attempt[a].external) =>
             (attempt'[a].state = "superseded" => attempt[a].state = "superseded")
        /\ (remediations' = remediations /\ attempt[a].state = "completed") =>
             attempt'[a].state = "completed"
        /\ remediations' # remediations => attempt'[a].state = "superseded"

RequestKept(p) ==
    approval[p].state # "none" =>
        /\ approval'[p].state # "none"
        /\ approval'[p].kind = approval[p].kind /\ approval'[p].attempt = approval[p].attempt
        /\ approval[p].state = "approved" => approval'[p].state = "approved"

\* An attempt keeps its place, its boundary and its seal, and only a new
\* research cycle takes away what was completed or acted outside.
LEMMA AttemptsAreKept ==
    ASSUME StoreTypeOK, [StoreNext]_storeVars
    PROVE  /\ \A a \in AttemptId : AttemptKept(a)
           /\ remediations' \in {remediations, remediations + 1}
<1> USE DEF InProgress, AttemptKept
<1>0. /\ attempt \in [AttemptId -> Attempts] /\ remediations \in Nat
      /\ \A a \in AttemptId : attempt[a] \in Attempts
    BY StoreAssumption DEF StoreTypeOK
<1>1. ASSUME NEW b, NEW state, SetAttempt(b, state), remediations' = remediations,
             b \in AttemptId => \/ attempt[b].state = "in_progress"
                                \/ attempt[b].state = "failed" /\ ~attempt[b].external,
             state \in {"completed", "failed", "superseded"},
             state = "superseded" => (b \in AttemptId => ~attempt[b].external)
      PROVE  \A a \in AttemptId : AttemptKept(a)
  <2>1. ASSUME NEW a \in AttemptId
        PROVE  \/ attempt'[a] = attempt[a]
               \/ a = b /\ attempt'[a] = [attempt[a] EXCEPT !.state = state]
    BY <1>0, <1>1 DEF SetAttempt
  <2>2. ASSUME NEW a \in AttemptId, attempt'[a] = [attempt[a] EXCEPT !.state = state]
        PROVE  /\ attempt'[a].state = state /\ attempt'[a].stage = attempt[a].stage
               /\ attempt'[a].ordinal = attempt[a].ordinal
               /\ attempt'[a].external = attempt[a].external
    BY <1>0, <2>2 DEF Attempts
  <2> QED
    BY <1>1, <2>1, <2>2
<1>2. ASSUME NEW b, MarkExternal(b), remediations' = remediations
      PROVE  \A a \in AttemptId : AttemptKept(a)
  <2>1. ASSUME NEW a \in AttemptId
        PROVE  attempt'[a] = attempt[a] \/ attempt'[a] = [attempt[a] EXCEPT !.external = TRUE]
    BY <1>0, <1>2 DEF MarkExternal
  <2>2. ASSUME NEW a \in AttemptId, attempt'[a] = [attempt[a] EXCEPT !.external = TRUE]
        PROVE  /\ attempt'[a].state = attempt[a].state /\ attempt'[a].stage = attempt[a].stage
               /\ attempt'[a].ordinal = attempt[a].ordinal
               /\ attempt'[a].external
    BY <1>0, <2>2 DEF Attempts
  <2> QED
    BY <1>2, <2>1, <2>2
<1>3. ASSUME attempt' = attempt, remediations' = remediations
      PROVE  \A a \in AttemptId : AttemptKept(a)
  BY <1>3
<1>4. CASE RunStep
  <2>1. CASE UNCHANGED <<attempt, remediations>>
    BY <1>3, <2>1
  <2>2. CASE RecoverInFlight
    <3> DEFINE recovered == RecoveryStatus(\E a \in AttemptId :
                    attempt[a].state \in {"in_progress", "interrupted"} /\ attempt[a].external)
    <3>1. recovered \in {"interrupted", "uncertain"}
      BY DEF RecoveryStatus
    <3>2. /\ remediations' = remediations
          /\ \/ attempt' = attempt
             \/ attempt' = [a \in AttemptId |->
                  IF InProgress(a) THEN [attempt[a] EXCEPT !.state = recovered] ELSE attempt[a]]
      BY <2>2 DEF RecoverInFlight
    <3> HIDE DEF recovered
    <3>3. ASSUME NEW a \in AttemptId
          PROVE  \/ attempt'[a] = attempt[a]
                 \/ attempt[a].state = "in_progress" /\ attempt'[a] = [attempt[a] EXCEPT !.state = recovered]
      BY <3>2
    <3>4. ASSUME NEW a \in AttemptId, attempt'[a] = [attempt[a] EXCEPT !.state = recovered]
          PROVE  /\ attempt'[a].state = recovered /\ attempt'[a].stage = attempt[a].stage
                 /\ attempt'[a].ordinal = attempt[a].ordinal
                 /\ attempt'[a].external = attempt[a].external
      BY <1>0, <3>4 DEF Attempts
    <3> QED
      BY <3>1, <3>2, <3>3, <3>4
  <2>3. CASE PrepareInterruptedRunForResume
    <3>1. remediations' = remediations
      BY <2>3 DEF PrepareInterruptedRunForResume
    <3>2. ASSUME NEW a \in AttemptId
          PROVE  \/ attempt'[a] = attempt[a]
                 \/ /\ attempt[a].state \in {"in_progress", "interrupted"} /\ ~attempt[a].external
                    /\ attempt'[a] = [attempt[a] EXCEPT !.state = "superseded"]
      BY <2>3 DEF PrepareInterruptedRunForResume
    <3>3. ASSUME NEW a \in AttemptId, attempt'[a] = [attempt[a] EXCEPT !.state = "superseded"]
          PROVE  /\ attempt'[a].state = "superseded" /\ attempt'[a].stage = attempt[a].stage
                 /\ attempt'[a].ordinal = attempt[a].ordinal
                 /\ attempt'[a].external = attempt[a].external
      BY <1>0, <3>3 DEF Attempts
    <3> QED
      BY <3>1, <3>2, <3>3
  <2>4. ASSUME NEW ordinal, PrepareResearchRemediation(revision, ordinal)
        PROVE  (\A a \in AttemptId : AttemptKept(a)) /\ remediations' = remediations + 1
    <3>1. remediations' = remediations + 1
      BY <2>4 DEF PrepareResearchRemediation
    <3>2. ASSUME NEW a \in AttemptId, attempt[a].state # "none"
          PROVE  attempt'[a] = [attempt[a] EXCEPT !.state = "superseded"]
      BY <2>4, <3>2 DEF PrepareResearchRemediation
    <3>3. ASSUME NEW a \in AttemptId, attempt'[a] = [attempt[a] EXCEPT !.state = "superseded"]
          PROVE  /\ attempt'[a].state = "superseded" /\ attempt'[a].stage = attempt[a].stage
                 /\ attempt'[a].ordinal = attempt[a].ordinal
                 /\ attempt'[a].external = attempt[a].external
      BY <1>0, <3>3 DEF Attempts
    <3>4. remediations' # remediations
      BY <1>0, <3>1
    <3>5. ASSUME NEW a \in AttemptId PROVE AttemptKept(a)
      BY <3>2, <3>3, <3>4
    <3> QED
      BY <3>1, <3>5
  <2>5. RecoverInFlight \/ PrepareInterruptedRunForResume => remediations' = remediations
    BY DEF RecoverInFlight, PrepareInterruptedRunForResume
  <2> QED
    BY <1>4, <2>1, <2>2, <2>3, <2>4, <2>5
    DEF RunStep, TransitionRun, QuiesceRun, ResumeRunAfterApproval, SucceedRun, SetRunCycle
<1>5. ASSUME NEW b \in AttemptId, StageStep(b)
      PROVE  (\A a \in AttemptId : AttemptKept(a)) /\ remediations' = remediations
  <2>1. ASSUME NEW stage, NEW ordinal, BeginStage(b, stage, ordinal)
        PROVE  \A a \in AttemptId : AttemptKept(a)
    <3>1. /\ attempt[b].state = "none" /\ remediations' = remediations
          /\ \A a \in AttemptId \ {b} : attempt'[a] = attempt[a]
      BY <1>0, <2>1 DEF BeginStage
    <3> QED
      BY <3>1
  <2>2. CASE MarkActiveStageExternalSideEffects(b)
    BY <1>2, <2>2 DEF MarkActiveStageExternalSideEffects
  <2>3. ASSUME NEW outcome \in {"completed", "failed"}, CompleteStage(b, outcome)
        PROVE  \A a \in AttemptId : AttemptKept(a)
    BY <1>1, <2>3 DEF CompleteStage
  <2>4. CASE FailCollectStageAndQuiesceRun(b)
    BY <1>1, <2>4 DEF FailCollectStageAndQuiesceRun
  <2>5. CASE PreparePlanContractRetry(b)
    BY <1>1, <2>5 DEF PreparePlanContractRetry
  <2>6. remediations' = remediations
    BY <1>5 DEF StageStep, BeginStage, MarkActiveStageExternalSideEffects, CompleteStage,
                FailCollectStageAndQuiesceRun, PreparePlanContractRetry
  <2> QED
    BY <1>5, <2>1, <2>2, <2>3, <2>4, <2>5, <2>6 DEF StageStep
<1>6. ASSUME NEW p \in ApprovalId, ApprovalStep(p)
      PROVE  (\A a \in AttemptId : AttemptKept(a)) /\ remediations' = remediations
  <2>1. remediations' = remediations /\ (attempt' = attempt \/ \E b : MarkExternal(b))
    BY <1>6 DEF ApprovalStep, CreateApproval, DecideApproval, DecideActiveApproval, BeginEngineeringJob
  <2> QED
    BY <1>2, <1>3, <2>1
<1>7. CASE UNCHANGED storeVars
  BY <1>3, <1>7 DEF storeVars
<1>8. RunStep => remediations' \in {remediations, remediations + 1}
  BY DEF RunStep, TransitionRun, QuiesceRun, ResumeRunAfterApproval, SucceedRun, SetRunCycle,
         RecoverInFlight, PrepareInterruptedRunForResume, PrepareResearchRemediation
<1>9. UNCHANGED storeVars => remediations' = remediations
  BY DEF storeVars
<1> QED
  BY <1>4, <1>5, <1>6, <1>7, <1>8, <1>9 DEF StoreNext

\* A request stays what it was asked for, and an approval stays one.
LEMMA RequestsAreKept ==
    ASSUME StoreTypeOK, [StoreNext]_storeVars
    PROVE  \A p \in ApprovalId : RequestKept(p)
<1> USE DEF RequestKept
<1>0. /\ approval \in [ApprovalId -> Approvals]
      /\ \A p \in ApprovalId : approval[p] \in Approvals
  BY DEF StoreTypeOK
<1>1. ASSUME \A p \in ApprovalId :
               \/ approval'[p] = approval[p]
               \/ approval[p].state = "none"
               \/ /\ approval[p].state = "pending"
                  /\ \E state \in {"approved", "denied", "expired"} :
                       approval'[p] = [approval[p] EXCEPT !.state = state]
      PROVE  \A p \in ApprovalId : RequestKept(p)
  <2>1. ASSUME NEW p \in ApprovalId, NEW state \in {"approved", "denied", "expired"},
               approval'[p] = [approval[p] EXCEPT !.state = state]
        PROVE  /\ approval'[p].state = state /\ approval'[p].kind = approval[p].kind
               /\ approval'[p].attempt = approval[p].attempt
    BY <1>0, <2>1 DEF Approvals
  <2> QED
    BY <1>1, <2>1
<1>2. ASSUME approval' = approval \/ approval' = Retired
      PROVE  \A p \in ApprovalId : RequestKept(p)
  <2>1. \A p \in ApprovalId :
          \/ approval'[p] = approval[p]
          \/ /\ approval[p].state = "pending"
             /\ approval'[p] = [approval[p] EXCEPT !.state = "denied"]
    BY <1>2 DEF Retired
  <2> QED
    BY <1>1, <2>1
<1>3. CASE RunStep
  <2>1. CASE RecoverInFlight
    <3>1. \A p \in ApprovalId :
            \/ approval'[p] = approval[p]
            \/ /\ approval[p].state = "pending"
               /\ approval'[p] = [approval[p] EXCEPT !.state = "expired"]
      BY <2>1 DEF RecoverInFlight, Pending
    <3> QED
      BY <1>1, <3>1
  <2> QED
    BY <1>2, <1>3, <2>1
    DEF RunStep, TransitionRun, QuiesceRun, ResumeRunAfterApproval, SucceedRun, SetRunCycle,
        PrepareInterruptedRunForResume, PrepareResearchRemediation
<1>4. ASSUME NEW a \in AttemptId, StageStep(a) PROVE \A p \in ApprovalId : RequestKept(p)
  BY <1>2, <1>4
  DEF StageStep, BeginStage, MarkActiveStageExternalSideEffects, CompleteStage,
      FailCollectStageAndQuiesceRun, PreparePlanContractRetry
<1>5. ASSUME NEW q \in ApprovalId, ApprovalStep(q) PROVE \A p \in ApprovalId : RequestKept(p)
  <2>1. ASSUME NEW a, NEW kind, CreateApproval(q, a, kind)
        PROVE  \A p \in ApprovalId : RequestKept(p)
    <3>1. /\ approval[q].state = "none"
          /\ \A p \in ApprovalId \ {q} : approval'[p] = approval[p]
      BY <1>0, <2>1 DEF CreateApproval
    <3> QED
      BY <1>1, <3>1
  <2>2. ASSUME NEW decision \in {"approved", "denied"}, q \in Pending,
               approval' = [approval EXCEPT ![q].state = decision]
        PROVE  \A p \in ApprovalId : RequestKept(p)
    <3>1. /\ approval[q].state = "pending"
          /\ approval'[q] = [approval[q] EXCEPT !.state = decision]
          /\ \A p \in ApprovalId \ {q} : approval'[p] = approval[p]
      BY <1>0, <2>2 DEF Pending
    <3> QED
      BY <1>1, <3>1
  <2>3. CASE DecideApproval(q, "approved")
    BY <2>2, <2>3 DEF DecideApproval
  <2>4. ASSUME NEW decision \in {"approved", "denied"}, DecideActiveApproval(q, decision)
        PROVE  \A p \in ApprovalId : RequestKept(p)
    BY <2>2, <2>4 DEF DecideActiveApproval
  <2>5. ASSUME NEW a, BeginEngineeringJob(a, q) PROVE \A p \in ApprovalId : RequestKept(p)
    BY <1>2, <2>5 DEF BeginEngineeringJob
  <2> QED
    BY <1>5, <2>1, <2>3, <2>4, <2>5 DEF ApprovalStep
<1>6. CASE UNCHANGED storeVars
  BY <1>2, <1>6 DEF storeVars
<1> QED
  BY <1>3, <1>4, <1>5, <1>6 DEF StoreNext

-----------------------------------------------------------------------------
(* How the memory of a collector moves. *)

TurnRows ==
    [at : Positions, attempt : AttemptId \cup {NoAttempt}, scope : Scopes,
     seen : 0..MaxRevision, row : ApprovalId \cup {0}, sweeping : BOOLEAN]

\* Collector o goes to a position, for the call and the row it holds there.
Moves(o, where, s, p) ==
    /\ turn' \in [Collectors -> TurnRows]
    /\ \A x \in Collectors \ {o} : turn'[x] = turn[x]
    /\ turn'[o].at = where /\ turn'[o].attempt = turn[o].attempt
    /\ turn'[o].scope = s /\ turn'[o].row = p

LEMMA ScopesLemma ==
    /\ Owner \in Collectors /\ Verifier \in Collectors /\ Owner # Verifier
    /\ Scopes \subseteq Nat /\ Cells \in Nat \ {0}
    /\ Case \in Scopes /\ Matrix \subseteq Scopes /\ Verifications \subseteq Scopes
    /\ 1 \in Matrix /\ Case \notin Matrix
    /\ \A s \in Verifications : s \notin Matrix /\ s # Case
    /\ \A s \in Scopes : s < Cells => s + 1 \in Matrix
    BY SweepAssumption DEF Owner, Verifier, Scopes, Case, Matrix, Verifications

LEMMA GoesLemma ==
    ASSUME turn \in [Collectors -> TurnRows], NEW o \in Collectors, NEW where \in Positions,
           Goes(o, where)
    PROVE  Moves(o, where, turn[o].scope, turn[o].row)
    BY DEF Goes, Moves, TurnRows

LEMMA LeavesLemma ==
    ASSUME turn \in [Collectors -> TurnRows], NEW o \in Collectors, NEW where \in Positions,
           Leaves(o, where)
    PROVE  Moves(o, where, Case, 0)
<1> DEFINE left == [Resting EXCEPT !.at = where, !.attempt = Held(o)]
<1>1. Held(o) \in AttemptId \cup {NoAttempt} /\ 0 \in 0..MaxRevision /\ 0 \in Scopes
  BY StoreAssumption DEF Held, TurnRows, Scopes, Case
<1>2. Resting \in TurnRows /\ Resting.scope = 0 /\ Resting.row = 0
  BY <1>1 DEF Resting, TurnRows, Positions
<1>3. /\ left \in TurnRows /\ left.at = where /\ left.attempt = Held(o)
      /\ left.scope = 0 /\ left.row = 0
  BY <1>1, <1>2 DEF TurnRows
<1>4. turn' = [turn EXCEPT ![o] = left]
  BY DEF Leaves
<1> HIDE DEF left
<1> QED
  BY <1>3, <1>4 DEF Held, Moves, Case

LEMMA ReturnsLemma ==
    ASSUME turn \in [Collectors -> TurnRows], NEW o \in Collectors, NEW ok, Returns(o, ok)
    PROVE  \/ Moves(o, "turn", Case, 0)
           \/ Moves(o, "failing", Case, 0)
           \/ turn[o].scope < Cells /\ Moves(o, "launch", turn[o].scope + 1, 0)
<1> DEFINE where == AfterCell(o, ok).at
           s == AfterCell(o, ok).scope
           b == AfterCell(o, ok).at = "launch"
           left == [Resting EXCEPT !.at = where, !.attempt = Held(o), !.scope = s, !.sweeping = b]
<1>1. Held(o) \in AttemptId \cup {NoAttempt} /\ 0 \in 0..MaxRevision /\ 0 \in Scopes
  BY StoreAssumption DEF Held, TurnRows, Scopes, Case
<1>2. Resting \in TurnRows /\ Resting.row = 0
  BY <1>1 DEF Resting, TurnRows, Positions
<1>3. turn[o].scope \in Scopes
  BY DEF TurnRows
<1>4. /\ s \in Scopes
      /\ \/ where = "turn" /\ s = Case
         \/ where = "failing" /\ s = Case
         \/ where = "launch" /\ turn[o].scope < Cells /\ s = turn[o].scope + 1
  BY <1>3, ScopesLemma DEF AfterCell
<1>5. where \in Positions /\ b \in BOOLEAN
  BY <1>4 DEF Positions
<1>6. turn' = [turn EXCEPT ![o] = left]
  BY DEF Returns
<1> HIDE DEF where, s, b
<1>7. /\ left \in TurnRows /\ left.at = where /\ left.attempt = Held(o)
      /\ left.scope = s /\ left.row = 0
  BY <1>1, <1>2, <1>4, <1>5 DEF TurnRows
<1> HIDE DEF left
<1>8. Moves(o, where, s, 0)
  BY <1>6, <1>7 DEF Held, Moves
<1> QED
  BY <1>4, <1>8

-----------------------------------------------------------------------------
(* What a collector holds, and where it goes from where it is. *)

ByOwner == {"sweep", "wait", "ask", "register", "held", "scope", "grant", "reuse"}

Executing == {"launch", "slot", "begin", "work", "publish", "settle", "read"}

Asking == {"create", "mark", "enter", "pended"}

ScopesOf(o) == IF o = Verifier THEN Verifications ELSE {Case} \cup Matrix

HeldRow(o) ==
    /\ turn[o].at # "idle" =>
         /\ Held(o) \in AttemptId /\ attempt[Held(o)].state # "none"
         /\ attempt[Held(o)].stage = "collect" /\ attempt[Held(o)].ordinal = o
    /\ turn[o].at \in ByOwner => o = Owner
    /\ turn[o].at \in Executing => CallsSolver(o)
    /\ turn[o].at \in Executing \cup Asking /\ CallsSolver(o) => turn[o].scope \in ScopesOf(o)
    /\ turn[o].at \in {"scope", "grant"} => turn[o].scope \in Matrix
    /\ turn[o].at = "over" => ~InProgress(Held(o))

\* A collector that is at work holds a collect attempt of its own ordinal, and
\* only a scope its ordinal may call.
HeldInv == \A o \in Collectors : HeldRow(o)

Decided(p) == approval[p].state = "approved"

ConsentOf(a) ==
    \E q \in ApprovalId :
        approval[q] = [state |-> "approved", attempt |-> a, kind |-> "solver"] /\ scope[q] = 1

RequestRow(o) ==
    /\ turn[o].at \in {"register", "held", "grant"} =>
         /\ turn[o].row \in ApprovalId /\ approval[turn[o].row].state # "none"
         /\ approval[turn[o].row].kind = "solver" /\ approval[turn[o].row].attempt = Held(o)
    /\ turn[o].at \in {"register", "held"} => scope[turn[o].row] = 1
    /\ turn[o].at \in {"scope", "grant"} => ConsentOf(Held(o))

\* The owner asks for cell one, and holds the user's approval of it while the
\* authoriser grants the rest.
RequestInv ==
    /\ \A o \in Collectors : RequestRow(o)
    /\ \A p \in ApprovalId : deciding[p] = "approved" => Decided(p)

\* Where a collector goes with the call and the row it has.
Paths ==
    {<<"sweep", "wait">>, <<"wait", "ask">>, <<"register", "held">>, <<"mark", "enter">>,
     <<"enter", "pended">>, <<"launch", "slot">>, <<"slot", "begin">>, <<"begin", "work">>,
     <<"begin", "read">>, <<"work", "publish">>, <<"publish", "settle">>, <<"settle", "read">>}

\* Every way a collector that began goes.
Walks(o) ==
    \/ \E where \in {"turn", "failing"} : Moves(o, where, Case, 0)
    \/ Moves(o, "over", Case, 0) /\ attempt'[Held(o)].state # "in_progress"
    \/ \E path \in Paths : At(o, path[1]) /\ Moves(o, path[2], turn[o].scope, turn[o].row)
    \/ At(o, "ask") /\ \E p \in FreshRow :
          CreateScoped(p, Held(o), 1) /\ Moves(o, "register", turn[o].scope, p)
    \/ At(o, "scope") /\ \E p \in FreshRow :
          CreateScoped(p, Held(o), turn[o].scope) /\ Moves(o, "grant", turn[o].scope, p)
    \/ At(o, "create") /\ \E p \in FreshRow, where \in {"enter", "mark"} : Moves(o, where, turn[o].scope, p)
    \/ /\ At(o, "grant") \/ (At(o, "held") /\ Decided(turn[o].row))
       /\ \/ \E s \in Matrix : Moves(o, "scope", s, 0)
          \/ Moves(o, "launch", 1, 0)
    \/ turn[o].at \in Executing /\ turn[o].scope < Cells /\ Moves(o, "launch", turn[o].scope + 1, 0)
    \/ At(o, "turn") /\ CallsSolver(o) /\ \E s \in Callable(o) : Moves(o, "launch", s, turn[o].row)
    \/ At(o, "turn") /\ \E s \in Callable(o) : Moves(o, "create", s, turn[o].row)
    \/ At(o, "pended") /\ CallsSolver(o) /\ Moves(o, "launch", turn[o].scope, 0)

TurnType == turn \in [Collectors -> TurnRows] /\ revision \in 0..MaxRevision

LEMMA TurnTypeLemma == ASSUME SweepTypeOK PROVE TurnType
    BY DEF SweepTypeOK, StoreTypeOK, TurnType, TurnRows

\* The steps of one collector after its first, without the calls of its turn.
CollectorWork(o) ==
    \/ AuthorizeReuse(o) \/ CloseFailed(o)
    \/ BeginSweep(o) \/ WaitForMatrix(o) \/ AskForMatrix(o) \/ RegisterMatrix(o) \/ StopWaiting(o)
    \/ CreateCellScope(o) \/ GrantCellScope(o)
    \/ CreateRequest(o) \/ MarkWaiting(o) \/ EnterRequest(o)
    \/ ValidateCapability(o) \/ TakeSlot(o) \/ BeginJob(o)
    \/ WorkPolar(o) \/ WorkCase(o) \/ Publish(o) \/ Settle(o) \/ ReadCompleted(o)
    \/ TurnFails(o) \/ TurnEnds(o)

LEMMA FailsLemma ==
    ASSUME TurnType, NEW o \in Collectors, Fails(o) PROVE Walks(o)
<1>1. "failing" \in Positions
  BY DEF Positions
<1> QED
  BY <1>1, LeavesLemma DEF TurnType, Fails, Walks

LEMMA RestsLemma ==
    ASSUME TurnType, NEW o \in Collectors, Leaves(o, "turn") PROVE Walks(o)
<1>1. "turn" \in Positions
  BY DEF Positions
<1> QED
  BY <1>1, LeavesLemma DEF TurnType, Walks

LEMMA FollowsLemma ==
    ASSUME TurnType, NEW o \in Collectors, NEW path \in Paths, At(o, path[1]), Goes(o, path[2])
    PROVE  Walks(o)
<1>1. path[2] \in Positions
  BY DEF Positions, Paths
<1>2. Moves(o, path[2], turn[o].scope, turn[o].row)
  BY <1>1, GoesLemma DEF TurnType
<1> QED
  BY <1>2 DEF Walks

LEMMA ComesBackLemma ==
    ASSUME TurnType, NEW o \in Collectors, NEW ok, turn[o].at \in Executing, Returns(o, ok)
    PROVE  Walks(o)
<1>1. \/ Moves(o, "turn", Case, 0)
      \/ Moves(o, "failing", Case, 0)
      \/ turn[o].scope < Cells /\ Moves(o, "launch", turn[o].scope + 1, 0)
  BY ReturnsLemma DEF TurnType
<1> QED
  BY <1>1 DEF Walks

LEMMA AfterGrantLemma ==
    ASSUME NEW s \in Matrix
    PROVE  \/ AfterGrant(s).at = "scope" /\ AfterGrant(s).scope \in Matrix
           \/ AfterGrant(s).at = "launch" /\ AfterGrant(s).scope = 1
    BY ScopesLemma DEF AfterGrant

LEMMA WorkWalks ==
    ASSUME SweepTypeOK, HeldInv, NEW o \in Collectors, CollectorWork(o)
    PROVE  Walks(o) /\ turn[o].at # "idle"
<1>0. TurnType /\ turn \in [Collectors -> TurnRows] /\ revision \in 0..MaxRevision
      /\ HeldRow(o) /\ turn[o] \in TurnRows /\ 0 \in 0..MaxRevision
  BY TurnTypeLemma, StoreAssumption DEF TurnType, HeldInv
<1>1. turn[o].at # "idle"
  BY DEF CollectorWork, AuthorizeReuse, CloseFailed, BeginSweep, WaitForMatrix, AskForMatrix,
         RegisterMatrix, StopWaiting, CreateCellScope, GrantCellScope, CreateRequest, MarkWaiting,
         EnterRequest, ValidateCapability, TakeSlot, BeginJob, WorkPolar, WorkCase, Publish, Settle,
         ReadCompleted, TurnFails, TurnEnds, At
<1> SUFFICES Walks(o)
  BY <1>1
<1>2. Fails(o) => Walks(o)
  BY <1>0, FailsLemma
<1>3. Leaves(o, "turn") => Walks(o)
  BY <1>0, RestsLemma
<1>4. ASSUME NEW ok, turn[o].at \in Executing, Returns(o, ok) PROVE Walks(o)
  BY <1>0, <1>4, ComesBackLemma
<1>5. ASSUME NEW where, Leaves(o, "over"), attempt'[Held(o)].state # "in_progress" PROVE Walks(o)
  <2>1. "over" \in Positions
    BY DEF Positions
  <2> QED
    BY <1>0, <1>5, <2>1, LeavesLemma DEF Walks
<1>6. CASE AuthorizeReuse(o)
  BY <1>3, <1>6 DEF AuthorizeReuse
<1>7. CASE CloseFailed(o) \/ TurnEnds(o)
  <2>1. Held(o) \in AttemptId /\ attempt[Held(o)] \in Attempts /\ attempt \in [AttemptId -> Attempts]
    BY <1>0, <1>1 DEF HeldRow, SweepTypeOK, StoreTypeOK
  <2>2. ASSUME NEW state \in {"failed", "completed"}, SetAttempt(Held(o), state)
        PROVE  attempt'[Held(o)].state # "in_progress"
    BY <2>1, <2>2 DEF SetAttempt, Attempts
  <2>3. CASE CloseFailed(o)
    <3>1. attempt'[Held(o)].state # "in_progress"
      BY <2>2, <2>3 DEF CloseFailed, CompleteStage, FailCollectStageAndQuiesceRun, storeVars, InProgress
    <3> QED
      BY <1>5, <2>3, <3>1 DEF CloseFailed
  <2>4. CASE TurnEnds(o)
    BY <1>2, <1>5, <2>2, <2>4 DEF TurnEnds, CompleteStage
  <2> QED
    BY <1>7, <2>3, <2>4
<1>8. CASE BeginSweep(o)
  <2>1. ASSUME turn' = [turn EXCEPT ![o].at = "wait", ![o].seen = revision] PROVE Walks(o)
    <3>1. Moves(o, "wait", turn[o].scope, turn[o].row)
      BY <1>0, <2>1 DEF Moves, TurnRows, Positions
    <3>2. <<"sweep", "wait">> \in Paths /\ At(o, "sweep")
      BY <1>8 DEF Paths, BeginSweep
    <3> QED
      BY <3>1, <3>2 DEF Walks
  <2> QED
    BY <1>2, <1>8, <2>1 DEF BeginSweep
<1>9. CASE WaitForMatrix(o)
  <2>1. ASSUME turn' = [turn EXCEPT ![o].at = "ask", ![o].seen = 0] PROVE Walks(o)
    <3>1. Moves(o, "ask", turn[o].scope, turn[o].row)
      BY <1>0, <2>1 DEF Moves, TurnRows, Positions
    <3>2. <<"wait", "ask">> \in Paths /\ At(o, "wait")
      BY <1>9 DEF Paths, WaitForMatrix
    <3> QED
      BY <3>1, <3>2 DEF Walks
  <2> QED
    BY <1>2, <1>9, <2>1 DEF WaitForMatrix
<1>10. CASE AskForMatrix(o)
  <2>1. ASSUME NEW p \in FreshRow, turn' = [turn EXCEPT ![o].at = "register", ![o].row = p],
               CreateScoped(p, Held(o), 1)
        PROVE  Walks(o)
    <3>1. Moves(o, "register", turn[o].scope, p)
      BY <1>0, <2>1 DEF Moves, TurnRows, Positions, FreshRow
    <3> QED
      BY <1>10, <2>1, <3>1 DEF Walks, AskForMatrix
  <2> QED
    BY <1>2, <1>10, <2>1 DEF AskForMatrix
<1>11. CASE RegisterMatrix(o) \/ EnterRequest(o)
  <2>1. <<"register", "held">> \in Paths /\ <<"enter", "pended">> \in Paths
    BY DEF Paths
  <2> QED
    BY <1>0, <1>11, <2>1, FollowsLemma DEF RegisterMatrix, EnterRequest
<1>12. CASE StopWaiting(o) \/ TurnFails(o)
  BY <1>2, <1>12 DEF StopWaiting, TurnFails
<1>13. CASE CreateCellScope(o)
  <2>1. ASSUME NEW p \in FreshRow, turn' = [turn EXCEPT ![o].at = "grant", ![o].row = p],
               CreateScoped(p, Held(o), turn[o].scope)
        PROVE  Walks(o)
    <3>1. Moves(o, "grant", turn[o].scope, p)
      BY <1>0, <2>1 DEF Moves, TurnRows, Positions, FreshRow
    <3> QED
      BY <1>13, <2>1, <3>1 DEF Walks, CreateCellScope
  <2> QED
    BY <1>2, <1>13, <2>1 DEF CreateCellScope
<1>14. CASE GrantCellScope(o)
  <2> DEFINE next == AfterGrant(turn[o].scope)
  <2>1. turn[o].scope \in Matrix
    BY <1>0, <1>14 DEF HeldRow, GrantCellScope, At
  <2>2. \/ next.at = "scope" /\ next.scope \in Matrix
        \/ next.at = "launch" /\ next.scope = 1
    BY <2>1, AfterGrantLemma
  <2>3. next.at \in Positions /\ next.scope \in Scopes
    BY <2>2, ScopesLemma DEF Positions
  <2> HIDE DEF next
  <2>4. ASSUME turn' = [turn EXCEPT ![o].at = next.at, ![o].scope = next.scope, ![o].row = 0]
        PROVE  Walks(o)
    <3>1. Moves(o, next.at, next.scope, 0)
      BY <1>0, <2>3, <2>4 DEF Moves, TurnRows
    <3>2. (\E s \in Matrix : Moves(o, "scope", s, 0)) \/ Moves(o, "launch", 1, 0)
      BY ONLY <2>2, <3>1
    <3>3. At(o, "grant")
      BY <1>14 DEF GrantCellScope
    <3> QED
      BY ONLY <3>2, <3>3 DEF Walks
  <2> QED
    BY <1>2, <1>14, <2>4 DEF GrantCellScope, next
<1>15. CASE CreateRequest(o)
  <2>1. ASSUME NEW p \in FreshRow, NEW where \in {"enter", "mark"},
               turn' = [turn EXCEPT ![o].at = where, ![o].row = p]
        PROVE  Walks(o)
    <3>1. Moves(o, where, turn[o].scope, p)
      BY <1>0, <2>1 DEF Moves, TurnRows, Positions, FreshRow
    <3> QED
      BY <1>15, <2>1, <3>1 DEF Walks, CreateRequest
  <2> QED
    BY <1>3, <1>15, <2>1 DEF CreateRequest
<1>16. CASE MarkWaiting(o)
  <2>1. ASSUME turn' = [turn EXCEPT ![o].at = "enter", ![o].seen = 0] PROVE Walks(o)
    <3>1. Moves(o, "enter", turn[o].scope, turn[o].row)
      BY <1>0, <2>1 DEF Moves, TurnRows, Positions
    <3>2. <<"mark", "enter">> \in Paths /\ At(o, "mark")
      BY <1>16 DEF Paths, MarkWaiting
    <3> QED
      BY <3>1, <3>2 DEF Walks
  <2> QED
    BY <1>3, <1>16, <2>1 DEF MarkWaiting
<1>17. CASE \/ ValidateCapability(o) \/ TakeSlot(o) \/ BeginJob(o) \/ WorkPolar(o) \/ WorkCase(o)
            \/ Publish(o) \/ Settle(o) \/ ReadCompleted(o)
  <2>1. turn[o].at \in Executing
    BY <1>17 DEF ValidateCapability, TakeSlot, BeginJob, WorkPolar, WorkCase, Publish, Settle,
                 ReadCompleted, At, Executing
  <2>2. \/ \E ok : Returns(o, ok)
        \/ At(o, "launch") /\ Goes(o, "slot")
        \/ At(o, "slot") /\ Goes(o, "begin")
        \/ At(o, "begin") /\ (Goes(o, "work") \/ Goes(o, "read"))
        \/ At(o, "work") /\ Goes(o, "publish")
        \/ At(o, "publish") /\ Goes(o, "settle")
        \/ At(o, "settle") /\ Goes(o, "read")
    BY <1>17 DEF ValidateCapability, TakeSlot, BeginJob, WorkPolar, WorkCase, Publish, Settle,
                 ReadCompleted, JobFails
  <2>3. /\ <<"launch", "slot">> \in Paths /\ <<"slot", "begin">> \in Paths
        /\ <<"begin", "work">> \in Paths /\ <<"begin", "read">> \in Paths
        /\ <<"work", "publish">> \in Paths /\ <<"publish", "settle">> \in Paths
        /\ <<"settle", "read">> \in Paths
    BY DEF Paths
  <2> QED
    BY <1>0, <1>4, <2>1, <2>2, <2>3, FollowsLemma
<1> QED
  BY <1>6, <1>7, <1>8, <1>9, <1>10, <1>11, <1>12, <1>13, <1>14, <1>15, <1>16, <1>17
  DEF CollectorWork

LEMMA TurnWalks ==
    ASSUME SweepTypeOK, NEW o \in Collectors, TurnStep(o)
    PROVE  Walks(o) /\ turn[o].at # "idle"
<1>0. TurnType /\ turn \in [Collectors -> TurnRows] /\ revision \in 0..MaxRevision
      /\ turn[o] \in TurnRows /\ 0 \in 0..MaxRevision
  BY TurnTypeLemma, StoreAssumption DEF TurnType
<1>1. PICK s \in Callable(o) : ReplayCall(o, s) \/ RetryDenied(o, s) \/ LoadRun(o, s)
  BY DEF TurnStep
<1>2. turn[o].at = "turn" /\ At(o, "turn")
  BY <1>1 DEF ReplayCall, RetryDenied, LoadRun, AsksUser, At
<1>3. s \in Scopes
  BY SweepAssumption, ScopesLemma DEF Callable, Scopes, Case, Matrix
<1>4. CASE ReplayCall(o, s)
  <2>1. Moves(o, "launch", s, turn[o].row)
    BY <1>0, <1>3, <1>4 DEF ReplayCall, Moves, TurnRows, Positions
  <2> QED
    BY <1>2, <1>4, <2>1 DEF Walks, ReplayCall
<1>5. CASE RetryDenied(o, s)
  BY <1>0, <1>2, <1>5, FailsLemma DEF RetryDenied
<1>6. CASE LoadRun(o, s)
  <2>1. PICK seen \in 0..MaxRevision :
          turn' = [turn EXCEPT ![o].at = "create", ![o].scope = s, ![o].seen = seen]
    BY <1>0, <1>6 DEF LoadRun
  <2>2. Moves(o, "create", s, turn[o].row)
    BY <1>0, <1>3, <2>1 DEF Moves, TurnRows, Positions
  <2> QED
    BY <1>2, <2>2 DEF Walks
<1> QED
  BY <1>1, <1>2, <1>4, <1>5, <1>6

LEMMA AnswerWalks ==
    ASSUME SweepTypeOK, RequestInv, NEW p \in ApprovalId, RestoreAndAnswer(p)
    PROVE  UNCHANGED turn \/ (\E o \in Collectors : Walks(o) /\ turn[o].at # "idle")
<1>0. TurnType /\ turn \in [Collectors -> TurnRows] /\ 0 \in 0..MaxRevision
      /\ \A o \in Collectors : turn[o] \in TurnRows
  BY TurnTypeLemma, StoreAssumption DEF TurnType
<1>1. ASSUME NEW o \in Collectors, turn[o].row = p, NEW restored, Answered(p, o, restored)
      PROVE  UNCHANGED turn \/ (Walks(o) /\ turn[o].at # "idle")
  <2>1. CASE At(o, "held") /\ registered[p] = "core"
    <3> DEFINE next == AfterGrant(1)
    <3>1. CASE Fails(o)
      BY <1>0, <2>1, <3>1, FailsLemma DEF At
    <3>2. CASE /\ deciding[p] = "approved"
               /\ turn' = [turn EXCEPT ![o].at = next.at, ![o].scope = next.scope,
                                     ![o].sweeping = TRUE, ![o].row = 0, ![o].seen = 0]
      <4>1. \/ next.at = "scope" /\ next.scope \in Matrix
            \/ next.at = "launch" /\ next.scope = 1
        BY ScopesLemma, AfterGrantLemma
      <4>2. next.at \in Positions /\ next.scope \in Scopes
        BY <4>1, ScopesLemma DEF Positions
      <4> HIDE DEF next
      <4> DEFINE left == [turn[o] EXCEPT !.at = next.at, !.scope = next.scope,
                                        !.sweeping = TRUE, !.row = 0, !.seen = 0]
      <4>3. /\ left \in TurnRows /\ left.at = next.at /\ left.attempt = turn[o].attempt
            /\ left.scope = next.scope /\ left.row = 0
        BY <1>0, <4>2 DEF TurnRows
      <4>4. turn' = [turn EXCEPT ![o] = left]
        BY <3>2
      <4> HIDE DEF left
      <4>5. Moves(o, next.at, next.scope, 0)
        BY <1>0, <4>3, <4>4 DEF Moves
      <4>6. Decided(turn[o].row)
        BY <1>1, <3>2 DEF RequestInv
      <4>7. (\E s \in Matrix : Moves(o, "scope", s, 0)) \/ Moves(o, "launch", 1, 0)
        BY ONLY <4>1, <4>5
      <4>8. turn[o].at # "idle"
        BY <2>1 DEF At
      <4>9. Walks(o)
        BY ONLY <2>1, <4>6, <4>7 DEF Walks
      <4> QED
        BY <4>8, <4>9
    <3> HIDE DEF next
    <3>3. \/ Fails(o)
          \/ /\ CoreGoesOn(deciding[p])
             /\ turn' = [turn EXCEPT ![o].at = next.at, ![o].scope = next.scope,
                                   ![o].sweeping = TRUE, ![o].row = 0, ![o].seen = 0]
      BY <1>1, <2>1 DEF Answered, next
    <3> QED
      BY <3>1, <3>2, <3>3 DEF CoreGoesOn
  <2>2. CASE At(o, "pended") /\ registered[p] = "router"
    <3>1. \/ CallsSolver(o) /\ turn' = [turn EXCEPT ![o].at = "launch", ![o].row = 0, ![o].seen = 0]
          \/ Leaves(o, "turn")
          \/ UNCHANGED turn
      BY <1>1, <2>2 DEF Answered
    <3>2. ASSUME CallsSolver(o), turn' = [turn EXCEPT ![o].at = "launch", ![o].row = 0, ![o].seen = 0]
          PROVE  Walks(o)
      <4> DEFINE left == [turn[o] EXCEPT !.at = "launch", !.row = 0, !.seen = 0]
      <4>1. Moves(o, "launch", turn[o].scope, 0)
        <5>1. /\ left \in TurnRows /\ left.at = "launch" /\ left.attempt = turn[o].attempt
              /\ left.scope = turn[o].scope /\ left.row = 0
          BY <1>0 DEF TurnRows, Positions
        <5>2. turn' = [turn EXCEPT ![o] = left]
          BY <3>2
        <5> HIDE DEF left
        <5> QED
          BY <1>0, <5>1, <5>2 DEF Moves
      <4> QED
        BY <2>2, <3>2, <4>1 DEF Walks
    <3>3. turn[o].at # "idle"
      BY <2>2 DEF At
    <3> QED
      BY <1>0, <3>1, <3>2, <3>3, RestsLemma
  <2>3. CASE /\ ~(At(o, "held") /\ registered[p] = "core")
             /\ ~(At(o, "pended") /\ registered[p] = "router")
    BY <1>1, <2>3 DEF Answered
  <2> QED
    BY <2>1, <2>2, <2>3
<1> QED
  BY <1>1 DEF RestoreAndAnswer

-----------------------------------------------------------------------------
(* The sweep issues transactions of RunStore and nothing else. *)

LEMMA StoreStep ==
    ASSUME SweepTypeOK, HeldInv, RequestInv, [SweepNext]_sweepVars
    PROVE  [StoreNext]_storeVars
<1>1. ASSUME NEW next \in {"waiting_approval", "collecting", "synthesizing", "reviewing"},
             TransitionRun(revision, next)
      PROVE  StoreNext
  BY <1>1 DEF StoreNext, RunStep, RunStatuses, ActiveStatuses
<1>2. ASSUME NEW requested \in {"cancelled", "failed"}, QuiesceRun(requested) PROVE StoreNext
  BY <1>2 DEF StoreNext, RunStep
<1>3. ResumeRunAfterApproval("collecting") => StoreNext
  BY DEF StoreNext, RunStep, ActiveStatuses
<1>4. ASSUME NEW a \in AttemptId, NEW o \in Collectors, BeginStage(a, "collect", o)
      PROVE  StoreNext
  <2>1. StageStep(a)
    BY <1>4 DEF StageStep, StageOrdinals, Stages
  <2> QED
    BY <2>1 DEF StoreNext
<1>5. ASSUME NEW a \in AttemptId, BeginStage(a, "review", 0) PROVE StoreNext
  <2>1. 0 \in 0..MaxRevisions
    BY StoreAssumption
  <2>2. StageStep(a)
    BY <1>5, <2>1 DEF StageStep, StageOrdinals, Stages
  <2> QED
    BY <2>2 DEF StoreNext
<1>6. ASSUME NEW a \in AttemptId, NEW outcome \in {"completed", "failed"},
             CompleteStage(a, outcome) \/ FailCollectStageAndQuiesceRun(a)
      PROVE  StoreNext
  BY <1>6 DEF StoreNext, StageStep
<1>7. ASSUME NEW p \in ApprovalId, NEW a \in AttemptId, NEW kind \in {"solver", "external"},
             CreateApproval(p, a, kind)
      PROVE  StoreNext
  BY <1>7 DEF StoreNext, ApprovalStep, ApprovalKinds
<1>8. ASSUME NEW p \in ApprovalId, NEW a \in AttemptId, BeginEngineeringJob(a, p) PROVE StoreNext
  BY <1>8 DEF StoreNext, ApprovalStep
<1>9. ASSUME NEW o \in Collectors, CollectorStep(o) PROVE [StoreNext]_storeVars
  <2>1. CASE BeginCollector(o)
    BY <1>4, <2>1 DEF BeginCollector, FreshAttempt
  <2>2. ASSUME CollectorWork(o) PROVE Held(o) \in AttemptId /\ turn[o].at # "idle"
    BY <2>2, WorkWalks DEF HeldInv, HeldRow
  <2>3. CASE \/ AuthorizeReuse(o) \/ BeginSweep(o) \/ RegisterMatrix(o) \/ StopWaiting(o)
             \/ EnterRequest(o) \/ ValidateCapability(o) \/ TakeSlot(o) \/ WorkPolar(o)
             \/ WorkCase(o) \/ Publish(o) \/ Settle(o) \/ ReadCompleted(o) \/ TurnFails(o)
    BY <2>3 DEF AuthorizeReuse, BeginSweep, RegisterMatrix, StopWaiting, EnterRequest,
                ValidateCapability, TakeSlot, WorkPolar, WorkCase, Publish, Settle, ReadCompleted,
                TurnFails, Alone, ServiceKeeps
  <2>4. CASE CloseFailed(o) \/ TurnEnds(o)
    BY <1>6, <2>2, <2>4 DEF CollectorWork, CloseFailed, TurnEnds
  <2>5. CASE WaitForMatrix(o) \/ MarkWaiting(o)
    BY <1>1, <2>5 DEF WaitForMatrix, MarkWaiting
  <2>6. CASE AskForMatrix(o) \/ CreateCellScope(o) \/ CreateRequest(o)
    BY <1>3, <1>7, <2>2, <2>6
    DEF CollectorWork, AskForMatrix, CreateCellScope, CreateRequest, CreateScoped, FreshRow
  <2>7. CASE GrantCellScope(o)
    <3>1. turn[o].row \in ApprovalId /\ approval[turn[o].row].kind = "solver"
      BY <2>7 DEF GrantCellScope, At, RequestInv, RequestRow
    <3>2. DecideApproval(turn[o].row, "approved") => StoreNext
      BY <3>1 DEF StoreNext, ApprovalStep
    <3> QED
      BY <2>7, <3>2 DEF GrantCellScope
  <2>8. CASE BeginJob(o)
    <3>1. ASSUME NEW j, NEW s, NEW others, AdmitJob(j, Held(o), s, others) PROVE StoreNext
      BY <1>8, <2>2, <2>8, <3>1 DEF CollectorWork, AdmitJob, ApprovedFor
    <3> QED
      BY <2>8, <3>1 DEF BeginJob
  <2> QED
    BY <1>9, <2>1, <2>3, <2>4, <2>5, <2>6, <2>7, <2>8 DEF CollectorStep
<1>10. ASSUME NEW o \in Collectors, TurnStep(o) PROVE [StoreNext]_storeVars
  <2>1. Held(o) \in AttemptId
    BY <1>10, TurnWalks DEF HeldInv, HeldRow
  <2> QED
    BY <1>6, <1>10, <2>1 DEF TurnStep, ReplayCall, RetryDenied, LoadRun, Alone
<1>11. ASSUME NEW p \in ApprovalId, RestoreAndAnswer(p) PROVE [StoreNext]_storeVars
  BY <1>3, <1>11 DEF RestoreAndAnswer
<1>12. ASSUME NEW p \in ApprovalId, NEW d \in {"approved", "denied"}, Decide(p, d)
       PROVE  [StoreNext]_storeVars
  BY <1>12 DEF Decide, StoreNext, ApprovalStep
<1>13. CASE EngineStep
  <2>1. CASE PlanCycle \/ EndCollection
    BY <1>1, <1>2, <2>1 DEF PlanCycle, EndCollection
  <2>2. CASE BeginVerification
    BY <2>2 DEF BeginVerification
  <2>3. CASE Review
    <3>1. ASSUME NEW a \in Active, CompleteStage(a, "completed") PROVE StoreNext
      BY <1>6, <3>1 DEF Active
    <3> QED
      BY <1>1, <1>5, <2>3, <3>1 DEF Review, FreshAttempt
  <2>4. ASSUME NEW asks, Remediate(asks) PROVE StoreNext
    <3>1. 0 \in 0..MaxRevisions
      BY StoreAssumption
    <3> QED
      BY <2>4, <3>1 DEF Remediate, StoreNext, RunStep
  <2>5. CASE Resume
    BY <1>1, <2>5 DEF Resume, StoreNext, RunStep
  <2> QED
    BY <1>13, <2>1, <2>2, <2>3, <2>4, <2>5 DEF EngineStep
<1>14. CASE Cancel \/ Crash
  BY <1>14 DEF Cancel, Crash, StoreNext, RunStep
<1>15. CASE UNCHANGED sweepVars
  BY <1>15 DEF sweepVars
<1> QED
  BY <1>9, <1>10, <1>11, <1>12, <1>13, <1>14, <1>15 DEF SweepNext

-----------------------------------------------------------------------------
(* What a step does to the memory of the collectors and to the jobs. *)

Begins(o) ==
    \E a \in AttemptId :
        /\ BeginCollector(o) /\ turn[o].at = "idle"
        /\ attempt[a].state = "none" /\ attempt'[a].state = "in_progress"
        /\ attempt'[a].stage = "collect" /\ attempt'[a].ordinal = o
        /\ turn' \in [Collectors -> TurnRows]
        /\ \A x \in Collectors \ {o} : turn'[x] = turn[x]
        /\ turn'[o].attempt = a
        /\ turn'[o].at \in {"turn", "sweep", "reuse"}
        /\ turn'[o].at \in {"sweep", "reuse"} => o = Owner

AllRest == turn' \in [Collectors -> TurnRows] /\ \A o \in Collectors : turn'[o].at = "idle"

LEMMA BeginsLemma ==
    ASSUME SweepTypeOK, NEW o \in Collectors, BeginCollector(o) PROVE Begins(o)
<1>0. /\ turn \in [Collectors -> TurnRows] /\ attempt \in [AttemptId -> Attempts]
      /\ 0 \in 0..MaxRevision
  BY TurnTypeLemma, StoreAssumption DEF TurnType, SweepTypeOK, StoreTypeOK
<1> DEFINE where == IF o # Owner THEN "turn"
                    ELSE IF Reusable # {} THEN "reuse"
                    ELSE IF plan.matrix THEN "sweep" ELSE "turn"
<1>1. PICK a \in FreshAttempt :
        /\ BeginStage(a, "collect", o)
        /\ turn' = [turn EXCEPT ![o] = [Resting EXCEPT !.attempt = a, !.at = where]]
  BY DEF BeginCollector
<1>2. /\ where \in Positions /\ where \in {"turn", "sweep", "reuse"}
      /\ where \in {"sweep", "reuse"} => o = Owner
  BY DEF Positions
<1> HIDE DEF where
<1> DEFINE begun == [Resting EXCEPT !.attempt = a, !.at = where]
<1>3. a \in AttemptId /\ attempt[a].state = "none"
  BY <1>1 DEF FreshAttempt
<1>4. Resting \in TurnRows
  BY <1>0, ScopesLemma DEF Resting, TurnRows, Positions, Case
<1>5. begun \in TurnRows /\ begun.attempt = a /\ begun.at = where
  BY <1>2, <1>3, <1>4 DEF TurnRows
<1>6. turn' = [turn EXCEPT ![o] = begun]
  BY <1>1
<1> HIDE DEF begun
<1>7. /\ attempt'[a].state = "in_progress" /\ attempt'[a].stage = "collect"
      /\ attempt'[a].ordinal = o
  BY <1>0, <1>1, <1>3 DEF BeginStage
<1>8. turn[o].at = "idle"
  BY DEF BeginCollector, At
<1>9. /\ turn' \in [Collectors -> TurnRows]
      /\ \A x \in Collectors \ {o} : turn'[x] = turn[x]
      /\ turn'[o] = begun
  BY <1>0, <1>5, <1>6
<1> QED
  BY <1>2, <1>3, <1>5, <1>7, <1>8, <1>9 DEF Begins

LEMMA TurnsMove ==
    ASSUME SweepTypeOK, HeldInv, RequestInv, [SweepNext]_sweepVars
    PROVE  \/ UNCHANGED turn
           \/ \E o \in Collectors : Walks(o) /\ turn[o].at # "idle"
           \/ \E o \in Collectors : Begins(o)
           \/ (EndCollection \/ Crash) /\ AllRest
<1>1. ASSUME NEW o \in Collectors, CollectorStep(o) PROVE Begins(o) \/ (Walks(o) /\ turn[o].at # "idle")
  <2>1. BeginCollector(o) \/ CollectorWork(o)
    BY <1>1 DEF CollectorStep, CollectorWork
  <2> QED
    BY <2>1, BeginsLemma, WorkWalks
<1>2. ASSUME NEW o \in Collectors, TurnStep(o) PROVE Walks(o) /\ turn[o].at # "idle"
  BY <1>2, TurnWalks
<1>3. ASSUME NEW p \in ApprovalId, RestoreAndAnswer(p)
      PROVE  UNCHANGED turn \/ (\E o \in Collectors : Walks(o) /\ turn[o].at # "idle")
  BY <1>3, AnswerWalks
<1>4. ASSUME turn' = [o \in Collectors |-> Resting] PROVE AllRest
  <2>1. 0 \in 0..MaxRevision
    BY StoreAssumption
  <2>2. Resting \in TurnRows /\ Resting.at = "idle"
    BY <2>1, ScopesLemma DEF Resting, TurnRows, Positions, Case
  <2> QED
    BY <1>4, <2>2 DEF AllRest
<1>5. ASSUME NEW p, NEW d, Decide(p, d) PROVE UNCHANGED turn
  BY <1>5 DEF Decide
<1>6. EngineStep => UNCHANGED turn \/ (EndCollection /\ AllRest)
  BY <1>4 DEF EngineStep, PlanCycle, BeginVerification, EndCollection, Review, Remediate, Resume
<1>7. Cancel \/ Crash => UNCHANGED turn \/ (Crash /\ AllRest)
  BY <1>4 DEF Cancel, Crash
<1>8. UNCHANGED sweepVars => UNCHANGED turn
  BY DEF sweepVars
<1> QED
  BY <1>1, <1>2, <1>3, <1>5, <1>6, <1>7, <1>8 DEF SweepNext

\* The scope of a request is what it was asked for.
LEMMA ScopesAreKept ==
    ASSUME SweepTypeOK, HeldInv, [SweepNext]_sweepVars
    PROVE  /\ scope' \in [ApprovalId -> Scopes]
           /\ \A p \in ApprovalId : approval[p].state # "none" => scope'[p] = scope[p]
<1>0. scope \in [ApprovalId -> Scopes]
  BY DEF SweepTypeOK
<1>1. CASE UNCHANGED scope
  BY <1>0, <1>1
<1>2. ASSUME NEW p, NEW a, NEW s \in Scopes, CreateScoped(p, a, s)
      PROVE  /\ scope' \in [ApprovalId -> Scopes]
             /\ \A q \in ApprovalId : approval[q].state # "none" => scope'[q] = scope[q]
  BY <1>0, <1>2 DEF CreateScoped, CreateApproval
<1>3. ASSUME NEW o \in Collectors, AskForMatrix(o) \/ CreateCellScope(o) \/ CreateRequest(o)
      PROVE  UNCHANGED scope \/ (\E p, a : \E s \in Scopes : CreateScoped(p, a, s))
  <2>1. 1 \in Scopes /\ turn[o].scope \in Scopes
    BY ScopesLemma, TurnTypeLemma DEF TurnType, TurnRows
  <2> QED
    BY <1>3, <2>1 DEF AskForMatrix, CreateCellScope, CreateRequest
<1>4. ASSUME NEW o \in Collectors, CollectorStep(o)
      PROVE  UNCHANGED scope \/ (AskForMatrix(o) \/ CreateCellScope(o) \/ CreateRequest(o))
  BY <1>4 DEF CollectorStep, BeginCollector, AuthorizeReuse, CloseFailed, BeginSweep,
              WaitForMatrix, RegisterMatrix, StopWaiting, GrantCellScope, MarkWaiting, EnterRequest,
              ValidateCapability, TakeSlot, BeginJob, WorkPolar, WorkCase, Publish, Settle,
              ReadCompleted, TurnFails, TurnEnds, Alone, ServiceKeeps
<1>5. ASSUME NEW o \in Collectors, TurnStep(o) PROVE UNCHANGED scope
  BY <1>5 DEF TurnStep, ReplayCall, RetryDenied, LoadRun, Alone
<1>6. ASSUME NEW p, RestoreAndAnswer(p) \/ \E d : Decide(p, d) PROVE UNCHANGED scope
  BY <1>6 DEF RestoreAndAnswer, Decide
<1>7. EngineStep => UNCHANGED scope
  BY DEF EngineStep, PlanCycle, BeginVerification, EndCollection, Review, Remediate, Resume
<1>8. Cancel \/ Crash \/ UNCHANGED sweepVars => UNCHANGED scope
  BY DEF Cancel, Crash, sweepVars
<1> QED
  BY <1>1, <1>2, <1>3, <1>4, <1>5, <1>6, <1>7, <1>8 DEF SweepNext

\* A collector keeps to its attempt and its scopes.
LEMMA HeldStep ==
    ASSUME SweepTypeOK, HeldInv, RequestInv, [SweepNext]_sweepVars
    PROVE  HeldInv' /\ turn' \in [Collectors -> TurnRows]
<1>0. turn \in [Collectors -> TurnRows] /\ \A o \in Collectors : HeldRow(o)
  BY TurnTypeLemma DEF TurnType, HeldInv
<1>1. \A a \in AttemptId : AttemptKept(a)
  BY StoreStep, AttemptsAreKept DEF SweepTypeOK
<1>2. ASSUME NEW o \in Collectors, turn[o].at # "idle", turn'[o].attempt = turn[o].attempt
      PROVE  /\ turn'[o].attempt \in AttemptId /\ attempt'[turn'[o].attempt].state # "none"
             /\ attempt'[turn'[o].attempt].stage = "collect"
             /\ attempt'[turn'[o].attempt].ordinal = o
             /\ attempt'[turn'[o].attempt].state = "in_progress" => InProgress(Held(o))
  BY <1>0, <1>1, <1>2 DEF AttemptKept, HeldRow, Held, InProgress
<1>3. ASSUME NEW o \in Collectors, turn'[o] = turn[o] PROVE HeldRow(o)'
  BY <1>0, <1>2, <1>3 DEF HeldRow, Held, CallsSolver, InProgress
<1>4. ASSUME NEW o \in Collectors, Walks(o), turn[o].at # "idle"
      PROVE  HeldRow(o)' /\ turn' \in [Collectors -> TurnRows]
                        /\ \A x \in Collectors \ {o} : turn'[x] = turn[x]
  <2>1. /\ CallsSolver(o)' <=> CallsSolver(o)
        /\ turn[o].at \in Executing \cup Asking /\ CallsSolver(o) => turn[o].scope \in ScopesOf(o)
        /\ turn[o].at \in Executing => CallsSolver(o)
        /\ turn[o].at \in ByOwner => o = Owner
        /\ HeldRow(o)
    BY <1>0 DEF HeldRow, CallsSolver
  <2>2. ASSUME NEW where, NEW s, NEW p, Moves(o, where, s, p),
               where # "idle",
               where \in ByOwner => o = Owner,
               where \in Executing => CallsSolver(o),
               where \in Executing \cup Asking /\ CallsSolver(o) => s \in ScopesOf(o),
               where \in {"scope", "grant"} => s \in Matrix,
               where = "over" => attempt'[Held(o)].state # "in_progress"
        PROVE  HeldRow(o)' /\ turn' \in [Collectors -> TurnRows]
                          /\ \A x \in Collectors \ {o} : turn'[x] = turn[x]
    BY <1>2, <1>4, <2>1, <2>2 DEF Moves, HeldRow, Held, InProgress
  <2>3. \A s \in Callable(o) : CallsSolver(o) => s \in ScopesOf(o)
    BY SweepAssumption, ScopesLemma DEF Callable, CallsSolver, ScopesOf, Case, Matrix
  <2>4. ASSUME NEW where \in {"turn", "failing"}, Moves(o, where, Case, 0)
        PROVE  HeldRow(o)' /\ turn' \in [Collectors -> TurnRows]
                          /\ \A x \in Collectors \ {o} : turn'[x] = turn[x]
    BY <2>2, <2>4 DEF ByOwner, Executing, Asking
  <2>5. CASE Moves(o, "over", Case, 0) /\ attempt'[Held(o)].state # "in_progress"
    BY <2>2, <2>5 DEF ByOwner, Executing, Asking
  <2>6. ASSUME NEW path \in Paths, At(o, path[1]), Moves(o, path[2], turn[o].scope, turn[o].row)
        PROVE  HeldRow(o)' /\ turn' \in [Collectors -> TurnRows]
                          /\ \A x \in Collectors \ {o} : turn'[x] = turn[x]
    <3>1. /\ path[2] \notin {"idle", "over", "scope", "grant"}
          /\ path[2] \in ByOwner => path[1] \in ByOwner
          /\ path[2] \in Executing => path[1] \in Executing
          /\ path[2] \in Asking => path[1] \in Asking
      BY DEF Paths, ByOwner, Executing, Asking
    <3>2. turn[o].at = path[1]
      BY <2>6 DEF At
    <3> QED
      BY <2>1, <2>2, <2>6, <3>1, <3>2
  <2>7. ASSUME NEW p, At(o, "ask"), Moves(o, "register", turn[o].scope, p)
        PROVE  HeldRow(o)' /\ turn' \in [Collectors -> TurnRows]
                          /\ \A x \in Collectors \ {o} : turn'[x] = turn[x]
    BY <2>1, <2>2, <2>7 DEF At, ByOwner, Executing, Asking
  <2>8. ASSUME NEW p, At(o, "scope"), Moves(o, "grant", turn[o].scope, p)
        PROVE  HeldRow(o)' /\ turn' \in [Collectors -> TurnRows]
                          /\ \A x \in Collectors \ {o} : turn'[x] = turn[x]
    <3>1. turn[o].scope \in Matrix
      BY <2>1, <2>8 DEF HeldRow, At
    <3> QED
      BY <2>1, <2>2, <2>8, <3>1 DEF At, ByOwner, Executing, Asking
  <2>9. ASSUME NEW p, NEW where \in {"enter", "mark"}, At(o, "create"), Moves(o, where, turn[o].scope, p)
        PROVE  HeldRow(o)' /\ turn' \in [Collectors -> TurnRows]
                          /\ \A x \in Collectors \ {o} : turn'[x] = turn[x]
    BY <2>1, <2>2, <2>9 DEF At, ByOwner, Executing, Asking
  <2>10. ASSUME turn[o].at \in {"grant", "held"}, NEW s \in Matrix,
                Moves(o, "scope", s, 0) \/ (s = 1 /\ Moves(o, "launch", s, 0))
         PROVE  HeldRow(o)' /\ turn' \in [Collectors -> TurnRows]
                           /\ \A x \in Collectors \ {o} : turn'[x] = turn[x]
    <3>1. o = Owner
      BY <2>1, <2>10 DEF ByOwner
    <3>2. CallsSolver(o) /\ s \in ScopesOf(o)
      BY <2>10, <3>1, ScopesLemma DEF CallsSolver, ScopesOf
    <3> QED
      BY <2>2, <2>10, <3>1, <3>2 DEF ByOwner, Executing, Asking
  <2>11. CASE turn[o].at \in Executing /\ turn[o].scope < Cells /\ Moves(o, "launch", turn[o].scope + 1, 0)
    <3>1. turn[o].scope \in ScopesOf(o) /\ CallsSolver(o)
      BY <2>1, <2>11
    <3>2. o # Verifier /\ turn[o].scope + 1 \in Matrix
      BY <2>11, <3>1, ScopesLemma, SweepAssumption DEF ScopesOf, Verifications, Matrix, Case
    <3> QED
      BY <2>2, <2>11, <3>1, <3>2 DEF ByOwner, Executing, Asking, ScopesOf
  <2>12. ASSUME NEW s \in Callable(o), NEW p, Moves(o, "create", s, p) \/ (CallsSolver(o) /\ Moves(o, "launch", s, p))
         PROVE  HeldRow(o)' /\ turn' \in [Collectors -> TurnRows]
                           /\ \A x \in Collectors \ {o} : turn'[x] = turn[x]
    BY <2>2, <2>3, <2>12 DEF ByOwner, Executing, Asking
  <2>13. CASE At(o, "pended") /\ CallsSolver(o) /\ Moves(o, "launch", turn[o].scope, 0)
    BY <2>1, <2>2, <2>13 DEF At, ByOwner, Executing, Asking
  <2>14. 1 \in Matrix
    BY ScopesLemma
  <2> QED
    BY <1>4, <2>4, <2>5, <2>6, <2>7, <2>8, <2>9, <2>10, <2>11, <2>12, <2>13, <2>14 DEF Walks, At
<1>5. ASSUME NEW o \in Collectors, Begins(o) PROVE HeldRow(o)'
  BY <1>5 DEF Begins, HeldRow, Held, InProgress, ByOwner, Executing, Asking
<1>6. CASE UNCHANGED turn
  BY <1>0, <1>3, <1>6 DEF HeldInv
<1>7. ASSUME NEW o \in Collectors, Walks(o), turn[o].at # "idle"
      PROVE  HeldInv' /\ turn' \in [Collectors -> TurnRows]
  BY <1>3, <1>4, <1>7 DEF HeldInv
<1>8. ASSUME NEW o \in Collectors, Begins(o) PROVE HeldInv' /\ turn' \in [Collectors -> TurnRows]
  <2>1. /\ turn' \in [Collectors -> TurnRows]
        /\ \A x \in Collectors \ {o} : turn'[x] = turn[x]
    BY <1>8 DEF Begins
  <2> QED
    BY <1>3, <1>5, <1>8, <2>1 DEF HeldInv
<1>9. CASE AllRest
  BY <1>9 DEF AllRest, HeldInv, HeldRow, ByOwner, Executing, Asking
<1> QED
  BY <1>6, <1>7, <1>8, <1>9, TurnsMove

-----------------------------------------------------------------------------
(* What the owner was told and what the user decided. *)

LEMMA ConsentIsKept ==
    ASSUME SweepTypeOK, HeldInv, RequestInv, [SweepNext]_sweepVars
    PROVE  \A a : ConsentOf(a) => ConsentOf(a)'
<1>1. \A p \in ApprovalId : RequestKept(p)
  BY StoreStep, RequestsAreKept DEF SweepTypeOK
<1>2. \A p \in ApprovalId : approval[p].state # "none" => scope'[p] = scope[p]
  BY ScopesAreKept
<1>3. approval \in [ApprovalId -> Approvals] /\ approval' \in [ApprovalId -> Approvals]
  BY StoreStep, TypeStep DEF SweepTypeOK, StoreTypeOK
<1> SUFFICES ASSUME NEW a, ConsentOf(a) PROVE ConsentOf(a)'
  OBVIOUS
<1>4. PICK q \in ApprovalId :
        approval[q] = [state |-> "approved", attempt |-> a, kind |-> "solver"] /\ scope[q] = 1
  BY DEF ConsentOf
<1>5. /\ approval[q].state = "approved" /\ approval[q].attempt = a /\ approval[q].kind = "solver"
  BY <1>4
<1>6. /\ approval'[q].state = "approved" /\ approval'[q].attempt = a /\ approval'[q].kind = "solver"
      /\ scope'[q] = 1
  BY <1>1, <1>2, <1>4, <1>5 DEF RequestKept
<1>7. approval'[q] = [state |-> "approved", attempt |-> a, kind |-> "solver"]
  BY <1>3, <1>6 DEF Approvals
<1> QED
  BY <1>6, <1>7 DEF ConsentOf

\* A decision the user has to be told about is in its row.
LEMMA DecidingStep ==
    ASSUME SweepTypeOK, HeldInv, RequestInv, [SweepNext]_sweepVars
    PROVE  \A p \in ApprovalId : deciding'[p] = "approved" => approval'[p].state = "approved"
<1>1. \A p \in ApprovalId : RequestKept(p)
  BY StoreStep, RequestsAreKept DEF SweepTypeOK
<1>2. \A p \in ApprovalId : deciding[p] = "approved" => approval[p].state = "approved"
  BY DEF RequestInv, Decided
<1>3. deciding \in [ApprovalId -> {"no", "approved", "denied"}] /\ approval \in [ApprovalId -> Approvals]
  BY DEF SweepTypeOK, StoreTypeOK
<1>4. CASE UNCHANGED deciding
  BY <1>1, <1>2, <1>4 DEF RequestKept
<1>5. ASSUME NEW q \in ApprovalId, RestoreAndAnswer(q)
      PROVE  \A p \in ApprovalId : deciding'[p] = "approved" => approval'[p].state = "approved"
  <2>1. \A p \in ApprovalId : deciding'[p] = "approved" => deciding[p] = "approved"
    BY <1>3, <1>5 DEF RestoreAndAnswer
  <2> QED
    BY <1>1, <1>2, <2>1 DEF RequestKept
<1>6. ASSUME NEW q \in ApprovalId, NEW d \in {"approved", "denied"}, Decide(q, d)
      PROVE  \A p \in ApprovalId : deciding'[p] = "approved" => approval'[p].state = "approved"
  <2>1. CASE Decidable(q)
    <3>1. /\ \A p \in ApprovalId \ {q} : deciding'[p] = deciding[p]
          /\ deciding'[q] = d /\ approval'[q].state = d
      BY <1>3, <1>6, <2>1 DEF Decide, DecideActiveApproval, Approvals
    <3> QED
      BY <1>1, <1>2, <3>1 DEF RequestKept
  <2> QED
    BY <1>4, <1>6, <2>1 DEF Decide
<1>7. CASE Crash
  BY <1>7 DEF Crash
<1>8. ASSUME NEW o \in Collectors, CollectorStep(o) \/ TurnStep(o) PROVE UNCHANGED deciding
  BY <1>8 DEF CollectorStep, BeginCollector, AuthorizeReuse, CloseFailed, BeginSweep, AskForMatrix,
              CreateCellScope, CreateRequest,
              WaitForMatrix, RegisterMatrix, StopWaiting, GrantCellScope, MarkWaiting, EnterRequest,
              ValidateCapability, TakeSlot, BeginJob, WorkPolar, WorkCase, Publish, Settle,
              ReadCompleted, TurnFails, TurnEnds, Alone, ServiceKeeps, TurnStep, ReplayCall,
              RetryDenied, LoadRun, memoryKept
<1>9. EngineStep \/ Cancel \/ UNCHANGED sweepVars => UNCHANGED deciding
  BY DEF EngineStep, PlanCycle, BeginVerification, EndCollection, Review, Remediate, Resume, Cancel,
         sweepVars, memoryKept
<1> QED
  BY <1>4, <1>5, <1>6, <1>7, <1>8, <1>9 DEF SweepNext

LEMMA RequestStep ==
    ASSUME SweepTypeOK, HeldInv, RequestInv, [SweepNext]_sweepVars
    PROVE  RequestInv'
<1>0. turn \in [Collectors -> TurnRows] /\ \A o \in Collectors : RequestRow(o)
  BY TurnTypeLemma DEF TurnType, RequestInv
<1>1. \A p \in ApprovalId : RequestKept(p)
  BY StoreStep, RequestsAreKept DEF SweepTypeOK
<1>2. \A p \in ApprovalId : approval[p].state # "none" => scope'[p] = scope[p]
  BY ScopesAreKept
<1>3. \A a : ConsentOf(a) => ConsentOf(a)'
  BY ConsentIsKept
<1>4. ASSUME NEW o \in Collectors, turn'[o] = turn[o] PROVE RequestRow(o)'
  BY <1>0, <1>1, <1>2, <1>3, <1>4 DEF RequestRow, RequestKept, Held
<1>5. ASSUME NEW o \in Collectors, turn'[o].at \notin {"register", "held", "grant", "scope"}
      PROVE  RequestRow(o)'
  BY <1>5 DEF RequestRow
<1>6. ASSUME NEW o \in Collectors, NEW p \in ApprovalId, NEW s,
             CreateScoped(p, Held(o), s), turn'[o].attempt = turn[o].attempt, turn'[o].row = p
      PROVE  /\ turn'[o].row \in ApprovalId /\ approval'[turn'[o].row].state # "none"
             /\ approval'[turn'[o].row].kind = "solver" /\ approval'[turn'[o].row].attempt = turn'[o].attempt
             /\ scope'[turn'[o].row] = s
  <2>1. approval \in [ApprovalId -> Approvals] /\ scope \in [ApprovalId -> Scopes]
    BY DEF SweepTypeOK, StoreTypeOK
  <2> QED
    BY <1>6, <2>1 DEF CreateScoped, CreateApproval, Held
<1>7. ASSUME NEW o \in Collectors, Walks(o), turn[o].at # "idle" PROVE RequestRow(o)'
  <2>1. \A where, s, p : Moves(o, where, s, p) => turn'[o].at = where /\ turn'[o].attempt = turn[o].attempt
                                                 /\ turn'[o].row = p
    BY DEF Moves
  <2>2. ASSUME NEW path \in Paths, At(o, path[1]), Moves(o, path[2], turn[o].scope, turn[o].row)
        PROVE  RequestRow(o)'
    <3>1. path[2] \notin {"register", "grant", "scope"} /\ (path[2] = "held" => path[1] = "register")
      BY DEF Paths
    <3>2. /\ turn'[o].at = path[2] /\ turn[o].at = path[1] /\ turn'[o].row = turn[o].row
          /\ turn'[o].attempt = turn[o].attempt
      BY <2>1, <2>2 DEF At
    <3> QED
      BY <1>0, <1>1, <1>2, <3>1, <3>2 DEF RequestRow, RequestKept, Held
  <2>3. ASSUME NEW p \in FreshRow, CreateScoped(p, Held(o), 1), Moves(o, "register", turn[o].scope, p)
        PROVE  RequestRow(o)'
    <3>1. /\ p \in ApprovalId /\ turn'[o].at = "register" /\ turn'[o].attempt = turn[o].attempt
          /\ turn'[o].row = p
      BY <2>1, <2>3 DEF FreshRow
    <3>2. /\ turn'[o].row \in ApprovalId /\ approval'[turn'[o].row].state # "none"
          /\ approval'[turn'[o].row].kind = "solver"
          /\ approval'[turn'[o].row].attempt = turn'[o].attempt
          /\ scope'[turn'[o].row] = 1
      BY <1>6, <2>3, <3>1
    <3> QED
      BY <3>1, <3>2 DEF RequestRow, Held
  <2>4. ASSUME NEW p \in FreshRow, At(o, "scope"), CreateScoped(p, Held(o), turn[o].scope),
               Moves(o, "grant", turn[o].scope, p)
        PROVE  RequestRow(o)'
    <3>1. ConsentOf(Held(o))'
      <4>1. ConsentOf(Held(o))
        BY <1>0, <2>4 DEF At, RequestRow
      <4>2. turn'[o].attempt = turn[o].attempt
        BY <2>1, <2>4
      <4> QED
        BY <1>3, <4>1, <4>2 DEF Held
    <3>2. /\ p \in ApprovalId /\ turn'[o].at = "grant" /\ turn'[o].attempt = turn[o].attempt
          /\ turn'[o].row = p
      BY <2>1, <2>4 DEF FreshRow
    <3>3. /\ turn'[o].row \in ApprovalId /\ approval'[turn'[o].row].state # "none"
          /\ approval'[turn'[o].row].kind = "solver"
          /\ approval'[turn'[o].row].attempt = turn'[o].attempt
      BY <1>6, <2>4, <3>2
    <3> QED
      BY <3>1, <3>2, <3>3 DEF RequestRow, Held
  <2>5. ASSUME At(o, "grant") \/ (At(o, "held") /\ Decided(turn[o].row)), NEW s, Moves(o, "scope", s, 0)
        PROVE  RequestRow(o)'
    <3>1. ConsentOf(Held(o))
      <4>1. CASE At(o, "held") /\ Decided(turn[o].row)
        <5>1. /\ turn[o].row \in ApprovalId /\ approval[turn[o].row].kind = "solver"
              /\ approval[turn[o].row].attempt = Held(o) /\ scope[turn[o].row] = 1
              /\ approval[turn[o].row].state = "approved"
          BY <1>0, <4>1 DEF At, RequestRow, Decided
        <5>2. approval[turn[o].row] \in Approvals
          BY <5>1 DEF SweepTypeOK, StoreTypeOK
        <5>3. approval[turn[o].row] = [state |-> "approved", attempt |-> Held(o), kind |-> "solver"]
          BY <5>1, <5>2 DEF Approvals
        <5> QED
          BY <5>1, <5>3 DEF ConsentOf
      <4>2. CASE At(o, "grant")
        BY <1>0, <4>2 DEF At, RequestRow
      <4> QED
        BY <2>5, <4>1, <4>2
    <3>2. turn'[o].at = "scope" /\ turn'[o].attempt = turn[o].attempt
      BY <2>1, <2>5
    <3>3. ConsentOf(Held(o))'
      BY <1>3, <3>1, <3>2 DEF Held
    <3> QED
      BY <3>2, <3>3 DEF RequestRow
  <2>6. ASSUME NEW where, where \notin {"register", "held", "grant", "scope"}, NEW s, NEW p, Moves(o, where, s, p)
        PROVE  RequestRow(o)'
    BY <1>5, <2>1, <2>6
  <2> QED
    BY <1>7, <2>2, <2>3, <2>4, <2>5, <2>6 DEF Walks
<1>8. ASSUME NEW o \in Collectors, Walks(o), turn[o].at # "idle"
      PROVE  \A x \in Collectors : RequestRow(x)'
  <2>1. \A x \in Collectors \ {o} : turn'[x] = turn[x]
    BY <1>8 DEF Walks, Moves
  <2> QED
    BY <1>4, <1>7, <1>8, <2>1
<1>9. ASSUME NEW o \in Collectors, Begins(o) PROVE \A x \in Collectors : RequestRow(x)'
  <2>1. /\ turn'[o].at \notin {"register", "held", "grant", "scope"}
        /\ \A x \in Collectors \ {o} : turn'[x] = turn[x]
    BY <1>9 DEF Begins
  <2> QED
    BY <1>4, <1>5, <2>1
<1>10. AllRest => \A x \in Collectors : RequestRow(x)'
  BY <1>5 DEF AllRest
<1>11. \A x \in Collectors : RequestRow(x)'
  BY <1>4, <1>8, <1>9, <1>10, TurnsMove
<1>12. \A p \in ApprovalId : deciding'[p] = "approved" => approval'[p].state = "approved"
  BY DecidingStep
<1> QED
  BY <1>11, <1>12 DEF RequestInv, Decided

-----------------------------------------------------------------------------
(* The job table, and the other tables of the sweep. *)

JobRows ==
    [state : JobStates, attempt : AttemptId \cup {NoAttempt}, scope : Scopes,
     approval : ApprovalId \cup {0}, cycle : 0..MaxRemediations, drag : Drags \cup {0}]

JobKept(j) ==
    /\ job'[j].attempt = job[j].attempt /\ job'[j].scope = job[j].scope
    /\ job'[j].cycle = job[j].cycle
    /\ job'[j].state = "none" <=> job[j].state = "none"
    /\ job[j].state = "succeeded" => job'[j].state = "succeeded"

\* Collector o is admitted to run job k.
Admits(o, k) ==
    /\ At(o, "begin")
    /\ job[k].state = "none" /\ Identical(Held(o), turn[o].scope) = {}
    /\ \A j \in JobId \ {k} : job'[j] = job[j]
    /\ job'[k].state = "running" /\ job'[k].attempt = Held(o)
    /\ job'[k].scope = turn[o].scope /\ job'[k].cycle = remediations
    /\ InProgress(Held(o)) /\ attempt'[Held(o)].state = "in_progress"
    /\ attempt'[Held(o)].external /\ remediations' = remediations

JobsStep ==
    \/ \A j \in JobId : JobKept(j)
    \/ \E o \in Collectors, k \in JobId : Admits(o, k)

LEMMA JobStateLemma ==
    ASSUME job \in [JobId -> JobRows], NEW k \in JobId, job[k].state = "running",
           NEW state \in JobStates \ {"none"}, NEW d \in Drags \cup {0},
           job' = [job EXCEPT ![k].state = state] \/ job' = [job EXCEPT ![k].state = state, ![k].drag = d]
    PROVE  job' \in [JobId -> JobRows] /\ \A j \in JobId : JobKept(j)
<1>1. job[k] \in JobRows
  OBVIOUS
<1>2. ASSUME NEW row \in JobRows, row.state = state, row.attempt = job[k].attempt,
             row.scope = job[k].scope, row.cycle = job[k].cycle, job' = [job EXCEPT ![k] = row]
      PROVE  job' \in [JobId -> JobRows] /\ \A j \in JobId : JobKept(j)
  BY <1>2 DEF JobKept
<1>3. CASE job' = [job EXCEPT ![k].state = state]
  <2> DEFINE row == [job[k] EXCEPT !.state = state]
  <2>1. /\ row \in JobRows /\ row.state = state /\ row.attempt = job[k].attempt
        /\ row.scope = job[k].scope /\ row.cycle = job[k].cycle
    BY <1>1 DEF JobRows
  <2>2. job' = [job EXCEPT ![k] = row]
    BY <1>3
  <2> HIDE DEF row
  <2> QED
    BY <1>2, <2>1, <2>2
<1>4. CASE job' = [job EXCEPT ![k].state = state, ![k].drag = d]
  <2> DEFINE row == [job[k] EXCEPT !.state = state, !.drag = d]
  <2>1. /\ row \in JobRows /\ row.state = state /\ row.attempt = job[k].attempt
        /\ row.scope = job[k].scope /\ row.cycle = job[k].cycle
    BY <1>1 DEF JobRows
  <2>2. job' = [job EXCEPT ![k] = row]
    BY <1>4
  <2> HIDE DEF row
  <2> QED
    BY <1>2, <2>1, <2>2
<1> QED
  BY <1>3, <1>4

\* A job row keeps its call, its attempt and its research cycle, a result is
\* not taken back, and a new job is of the attempt and the scope a collector
\* holds, which had no job before.
LEMMA JobsMove ==
    ASSUME SweepTypeOK, HeldInv, [SweepNext]_sweepVars
    PROVE  job' \in [JobId -> JobRows] /\ JobsStep
<1>0. job \in [JobId -> JobRows] /\ turn \in [Collectors -> TurnRows]
  BY TurnTypeLemma DEF SweepTypeOK, JobRows, TurnType
<1>1. CASE UNCHANGED job
  BY <1>0, <1>1 DEF JobsStep, JobKept
<1>2. ASSUME NEW k \in Jobs, FailEngineeringJob(k) PROVE job' \in [JobId -> JobRows] /\ JobsStep
  BY <1>0, <1>2, JobStateLemma DEF FailEngineeringJob, Jobs, JobStates, JobsStep
<1>3. ASSUME NEW k \in Jobs, NEW d \in Drags \cup {0}, CompleteEngineeringJob(k, d)
      PROVE  job' \in [JobId -> JobRows] /\ JobsStep
  BY <1>0, <1>3, JobStateLemma DEF CompleteEngineeringJob, Jobs, JobStates, JobsStep
<1>4. ASSUME NEW o \in Collectors, JobFails(o) PROVE job' \in [JobId -> JobRows] /\ JobsStep
  BY <1>2, <1>4 DEF JobFails, Current, Identical
<1>5. ASSUME NEW o \in Collectors, WorkPolar(o) \/ WorkCase(o) \/ Publish(o) \/ Settle(o)
      PROVE  job' \in [JobId -> JobRows] /\ JobsStep
  BY <1>1, <1>2, <1>3, <1>4, <1>5 DEF WorkPolar, WorkCase, Publish, Settle, Current, Identical
<1>6. ASSUME NEW o \in Collectors, BeginJob(o) PROVE job' \in [JobId -> JobRows] /\ JobsStep
  <2>1. ASSUME NEW k \in FreshJob, NEW others, At(o, "begin"), AdmitJob(k, Held(o), turn[o].scope, others)
        PROVE  job' \in [JobId -> JobRows] /\ JobsStep
    <3>1. PICK p \in ApprovedFor(Held(o), turn[o].scope) :
            /\ BeginEngineeringJob(Held(o), p)
            /\ job' = [job EXCEPT ![k] = [state |-> "running", attempt |-> Held(o),
                          scope |-> turn[o].scope, approval |-> p, cycle |-> remediations, drag |-> 0]]
      BY <2>1 DEF AdmitJob
    <3> DEFINE row == [state |-> "running", attempt |-> Held(o), scope |-> turn[o].scope,
                       approval |-> p, cycle |-> remediations, drag |-> 0]
    <3>2. /\ Held(o) \in AttemptId /\ turn[o].scope \in Scopes /\ remediations \in 0..MaxRemediations
          /\ p \in ApprovalId /\ k \in JobId /\ job[k].state = "none"
      BY <1>0, <2>1, <3>1 DEF HeldInv, HeldRow, At, TurnRows, SweepTypeOK, StoreTypeOK, ApprovedFor,
                              FreshJob
    <3>3. /\ row \in JobRows /\ row.state = "running" /\ row.attempt = Held(o)
          /\ row.scope = turn[o].scope /\ row.cycle = remediations
      BY <3>2 DEF JobRows, JobStates
    <3>4. job' = [job EXCEPT ![k] = row]
      BY <3>1
    <3> HIDE DEF row
    <3>5. /\ Identical(Held(o), turn[o].scope) = {} /\ InProgress(Held(o))
      BY <2>1 DEF AdmitJob, Admissible
    <3>6. attempt \in [AttemptId -> Attempts]
      BY DEF SweepTypeOK, StoreTypeOK
    <3>7. /\ attempt'[Held(o)].state = "in_progress" /\ attempt'[Held(o)].external
          /\ remediations' = remediations
      <4>1. attempt' = [attempt EXCEPT ![Held(o)].external = TRUE] /\ remediations' = remediations
        BY <3>1 DEF BeginEngineeringJob, MarkExternal
      <4>2. attempt[Held(o)] \in Attempts /\ attempt[Held(o)].state = "in_progress"
        BY <3>2, <3>5, <3>6 DEF InProgress
      <4> QED
        BY <3>2, <3>6, <4>1, <4>2 DEF Attempts
    <3>8. job' \in [JobId -> JobRows] /\ job'[k] = row /\ \A j \in JobId \ {k} : job'[j] = job[j]
      BY <1>0, <3>2, <3>3, <3>4
    <3>9. Admits(o, k)
      BY <2>1, <3>2, <3>3, <3>5, <3>7, <3>8 DEF Admits
    <3> QED
      BY <3>2, <3>8, <3>9 DEF JobsStep
  <2> QED
    BY <1>1, <1>6, <2>1 DEF BeginJob
<1>7. CASE Crash
  <2>1. ASSUME NEW j \in JobId
        PROVE  /\ job'[j] \in JobRows
               /\ job'[j].attempt = job[j].attempt /\ job'[j].scope = job[j].scope
               /\ job'[j].cycle = job[j].cycle
               /\ job'[j].state = job[j].state \/ (job[j].state = "running" /\ job'[j].state = "uncertain")
    <3>1. job[j] \in JobRows
      BY <1>0
    <3>2. \/ job'[j] = job[j]
          \/ job[j].state = "running" /\ job'[j] = [job[j] EXCEPT !.state = "uncertain"]
      BY <1>7 DEF Crash
    <3> QED
      BY <3>1, <3>2 DEF JobRows, JobStates
  <2>2. \E f : job' = [j \in JobId |-> f[j]]
    <3>1. job' = [j \in JobId |->
             IF job[j].state = "running" THEN [job[j] EXCEPT !.state = "uncertain"] ELSE job[j]]
      BY <1>7 DEF Crash
    <3>2. job' = [j \in JobId |-> job'[j]]
      BY <3>1
    <3> QED
      BY <3>2
  <2>3. job' \in [JobId -> JobRows]
    BY <2>1, <2>2
  <2> QED
    BY <2>1, <2>3 DEF JobsStep, JobKept
<1>8. ASSUME NEW o \in Collectors, CollectorStep(o) \/ TurnStep(o)
      PROVE  \/ WorkPolar(o) \/ WorkCase(o) \/ Publish(o) \/ Settle(o) \/ BeginJob(o)
             \/ UNCHANGED job
  BY <1>8 DEF CollectorStep, BeginCollector, AuthorizeReuse, CloseFailed, BeginSweep, AskForMatrix,
              CreateCellScope, CreateRequest,
              WaitForMatrix, RegisterMatrix, StopWaiting, GrantCellScope, MarkWaiting, EnterRequest,
              ValidateCapability, TakeSlot, ReadCompleted, TurnFails, TurnEnds, Alone, ServiceKeeps,
              TurnStep, ReplayCall, RetryDenied, LoadRun, tablesKept
<1>9. ASSUME NEW p, RestoreAndAnswer(p) \/ \E d : Decide(p, d) PROVE UNCHANGED job
  BY <1>9 DEF RestoreAndAnswer, Decide, tablesKept
<1>10. EngineStep \/ Cancel \/ UNCHANGED sweepVars => UNCHANGED job
  BY DEF EngineStep, PlanCycle, BeginVerification, EndCollection, Review, Remediate, Resume, Cancel,
         sweepVars, tablesKept
<1> QED
  BY <1>1, <1>5, <1>6, <1>7, <1>8, <1>9, <1>10 DEF SweepNext

\* The tables and the memory keep their types.
LEMMA SweepTypeStep ==
    ASSUME SweepTypeOK, HeldInv, RequestInv, [SweepNext]_sweepVars
    PROVE  SweepTypeOK'
<1>1. StoreTypeOK'
  BY StoreStep, TypeStep DEF SweepTypeOK
<1>2. turn' \in [Collectors -> TurnRows] /\ scope' \in [ApprovalId -> Scopes]
  BY HeldStep, ScopesAreKept
<1>3. job' \in [JobId -> JobRows]
  BY JobsMove
<1>4. /\ sealed' \in [AttemptId -> 0..MaxRemediations]
      /\ reuse' \subseteq AttemptId \X JobId
  <2>0. sealed \in [AttemptId -> 0..MaxRemediations] /\ reuse \subseteq AttemptId \X JobId
    BY DEF SweepTypeOK
  <2>1. ASSUME NEW asks, Remediate(asks)
        PROVE  sealed' \in [AttemptId -> 0..MaxRemediations] /\ reuse' = reuse
    <3>1. remediations' \in 0..MaxRemediations
      BY <1>1 DEF StoreTypeOK
    <3> QED
      BY <2>0, <2>1, <3>1 DEF Remediate
  <2>2. ASSUME NEW o \in Collectors, AuthorizeReuse(o)
        PROVE  sealed' = sealed /\ reuse' \subseteq AttemptId \X JobId
    <3>1. Held(o) \in AttemptId
      BY <2>2 DEF AuthorizeReuse, At, HeldInv, HeldRow
    <3>2. Reusable \subseteq JobId
      BY DEF Reusable, SealedCaseJobs, Jobs
    <3> QED
      BY <2>0, <2>2, <3>1, <3>2 DEF AuthorizeReuse
  <2>3. ASSUME NEW o \in Collectors, CollectorStep(o) \/ TurnStep(o)
        PROVE  AuthorizeReuse(o) \/ UNCHANGED <<sealed, reuse>>
    BY <2>3 DEF CollectorStep, BeginCollector, CloseFailed, BeginSweep, AskForMatrix,
              CreateCellScope, CreateRequest, BeginJob,
              WaitForMatrix, RegisterMatrix, StopWaiting, GrantCellScope, MarkWaiting, EnterRequest,
              ValidateCapability, TakeSlot, WorkPolar, WorkCase, Publish, Settle, ReadCompleted,
              TurnFails, TurnEnds, Alone, ServiceKeeps, TurnStep, ReplayCall, RetryDenied, LoadRun,
              tablesKept
  <2>4. ASSUME NEW p, RestoreAndAnswer(p) \/ \E d : Decide(p, d) PROVE UNCHANGED <<sealed, reuse>>
    BY <2>4 DEF RestoreAndAnswer, Decide, tablesKept
  <2>5. ASSUME EngineStep PROVE (\E asks : Remediate(asks)) \/ UNCHANGED <<sealed, reuse>>
    BY <2>5 DEF EngineStep, PlanCycle, BeginVerification, EndCollection, Review, Resume, tablesKept
  <2>6. Cancel \/ Crash \/ UNCHANGED sweepVars => UNCHANGED <<sealed, reuse>>
    BY DEF Cancel, Crash, sweepVars, tablesKept
  <2> QED
    BY <2>0, <2>1, <2>2, <2>3, <2>4, <2>5, <2>6 DEF SweepNext
<1>5. /\ registered' \in [ApprovalId -> {"no", "core", "router"}]
      /\ deciding' \in [ApprovalId -> {"no", "approved", "denied"}]
  <2>0. /\ registered \in [ApprovalId -> {"no", "core", "router"}]
        /\ deciding \in [ApprovalId -> {"no", "approved", "denied"}]
    BY DEF SweepTypeOK
  <2>1. ASSUME NEW o \in Collectors, RegisterMatrix(o) \/ StopWaiting(o) \/ EnterRequest(o)
        PROVE  /\ registered' \in [ApprovalId -> {"no", "core", "router"}]
               /\ deciding' = deciding
    BY <2>0, <2>1 DEF RegisterMatrix, StopWaiting, EnterRequest
  <2>2. ASSUME NEW o \in Collectors, CollectorStep(o) \/ TurnStep(o)
        PROVE  \/ RegisterMatrix(o) \/ StopWaiting(o) \/ EnterRequest(o)
               \/ UNCHANGED <<registered, deciding>>
    BY <2>2 DEF CollectorStep, BeginCollector, AuthorizeReuse, CloseFailed, BeginSweep, AskForMatrix,
              CreateCellScope, CreateRequest, BeginJob, WaitForMatrix, GrantCellScope, MarkWaiting,
              ValidateCapability, TakeSlot, WorkPolar, WorkCase, Publish, Settle, ReadCompleted,
              TurnFails, TurnEnds, Alone, ServiceKeeps, TurnStep, ReplayCall, RetryDenied, LoadRun,
              memoryKept
  <2>3. ASSUME NEW p \in ApprovalId, NEW d \in {"approved", "denied"}, RestoreAndAnswer(p) \/ Decide(p, d)
        PROVE  /\ registered' \in [ApprovalId -> {"no", "core", "router"}]
               /\ deciding' \in [ApprovalId -> {"no", "approved", "denied"}]
    BY <2>0, <2>3 DEF RestoreAndAnswer, Decide
  <2>4. EngineStep \/ Cancel \/ UNCHANGED sweepVars => UNCHANGED <<registered, deciding>>
    BY DEF EngineStep, PlanCycle, BeginVerification, EndCollection, Review, Remediate, Resume, Cancel,
           sweepVars, memoryKept
  <2>5. ASSUME Crash
        PROVE  /\ registered' \in [ApprovalId -> {"no", "core", "router"}]
               /\ deciding' \in [ApprovalId -> {"no", "approved", "denied"}]
    BY <2>5 DEF Crash
  <2> QED
    BY <2>0, <2>1, <2>2, <2>3, <2>4, <2>5 DEF SweepNext
<1>6. /\ engine' \in {"plan", "collect", "verify", "write", "review", "verdict", "idle", "down", "prepared"}
      /\ plan' \in [matrix : BOOLEAN, verify : BOOLEAN, case : BOOLEAN, crew : SUBSET Workstreams]
      /\ demand' \in BOOLEAN /\ stop' \in BOOLEAN
  <2>0. /\ engine \in {"plan", "collect", "verify", "write", "review", "verdict", "idle", "down", "prepared"}
        /\ plan \in [matrix : BOOLEAN, verify : BOOLEAN, case : BOOLEAN, crew : SUBSET Workstreams]
        /\ demand \in BOOLEAN /\ stop \in BOOLEAN
    BY DEF SweepTypeOK
  <2>1. CASE UNCHANGED <<runVars, stop>>
    BY <2>0, <2>1 DEF runVars
  <2>2. ASSUME NEW o \in Collectors, CollectorStep(o) \/ TurnStep(o) PROVE UNCHANGED <<runVars, stop>>
    BY <2>2 DEF CollectorStep, BeginCollector, AuthorizeReuse, CloseFailed, BeginSweep, AskForMatrix,
              CreateCellScope, CreateRequest, BeginJob, WaitForMatrix, GrantCellScope, MarkWaiting,
              RegisterMatrix, StopWaiting, EnterRequest,
              ValidateCapability, TakeSlot, WorkPolar, WorkCase, Publish, Settle, ReadCompleted,
              TurnFails, TurnEnds, Alone, ServiceKeeps, TurnStep, ReplayCall, RetryDenied, LoadRun,
              aroundKept
  <2>3. ASSUME NEW p, RestoreAndAnswer(p) \/ \E d : Decide(p, d) PROVE UNCHANGED <<runVars, stop>>
    BY <2>3 DEF RestoreAndAnswer, Decide, aroundKept
  <2>4. CASE PlanCycle
    <3>1. {Owner} \subseteq Workstreams
      BY ScopesLemma DEF Workstreams
    <3>2. plan' \in [matrix : BOOLEAN, verify : BOOLEAN, case : BOOLEAN, crew : SUBSET Workstreams]
      <4>1. CASE ReusableIsWhole
        <5>1. PICK m \in BOOLEAN, v \in BOOLEAN, c \in BOOLEAN, crew \in {{Owner}, Workstreams} :
                plan' = [matrix |-> m, verify |-> m /\ v /\ Cells >= 2, case |-> c \/ Reusable # {},
                         crew |-> crew]
          BY <2>4, <4>1 DEF PlanCycle
        <5> DEFINE verify == m /\ v /\ Cells >= 2
                   case == c \/ Reusable # {}
        <5>2. verify \in BOOLEAN /\ case \in BOOLEAN /\ crew \subseteq Workstreams
          BY <3>1
        <5>3. plan' = [matrix |-> m, verify |-> verify, case |-> case, crew |-> crew]
          BY <5>1
        <5> HIDE DEF verify, case
        <5> QED
          BY <5>2, <5>3
      <4>2. CASE ~ReusableIsWhole
        BY <2>0, <2>4, <4>2 DEF PlanCycle
      <4> QED
        BY <4>1, <4>2
    <3> QED
      BY <2>0, <2>4, <3>2 DEF PlanCycle
  <2>5. CASE BeginVerification \/ EndCollection \/ Review \/ Resume
    BY <2>0, <2>5 DEF BeginVerification, EndCollection, Review, Resume
  <2>6. ASSUME NEW asks \in BOOLEAN, Remediate(asks)
        PROVE  /\ engine' = "plan" /\ demand' \in BOOLEAN /\ stop' = stop
               /\ plan' \in [matrix : BOOLEAN, verify : BOOLEAN, case : BOOLEAN, crew : SUBSET Workstreams]
    BY <2>0, <2>6 DEF Remediate
  <2>7. CASE Cancel \/ Crash
    BY <2>0, <2>7 DEF Cancel, Crash, runVars
  <2> QED
    BY <2>0, <2>1, <2>2, <2>3, <2>4, <2>5, <2>6, <2>7 DEF SweepNext, EngineStep, sweepVars
<1> QED
  BY <1>1, <1>2, <1>3, <1>4, <1>5, <1>6 DEF SweepTypeOK, TurnRows, JobRows

LEMMA SweepTypeInit == SweepInit => SweepTypeOK
<1> SUFFICES ASSUME SweepInit PROVE SweepTypeOK
  OBVIOUS
<1>1. /\ 0 \in 0..MaxRevision /\ 0 \in 0..MaxRevisions /\ 0 \in 0..MaxRemediations
      /\ 0 \in Scopes
  BY StoreAssumption, ScopesLemma DEF Case
<1>2. StoreTypeOK
  BY <1>1 DEF SweepInit, StoreTypeOK, AbsentAttempt, AbsentApproval, Attempts, Approvals, Ordinals,
              Stages, ApprovalKinds, RunStatuses, ActiveStatuses
<1>3. Resting \in TurnRows /\ AbsentJob \in JobRows
  BY <1>1 DEF Resting, TurnRows, Positions, AbsentJob, JobRows, JobStates
<1>4. turn \in [Collectors -> TurnRows] /\ job \in [JobId -> JobRows]
  BY <1>3 DEF SweepInit
<1> QED
  BY <1>1, <1>2, <1>4 DEF SweepInit, SweepTypeOK, TurnRows, JobRows

-----------------------------------------------------------------------------
(* Jobs and research cycles. *)

CollectorOf(s) == IF s \in Verifications THEN Verifier ELSE Owner

JobRow(j) ==
    LET a == job[j].attempt
    IN  /\ a \in AttemptId /\ attempt[a].state # "none"
        /\ attempt[a].stage = "collect" /\ attempt[a].ordinal = CollectorOf(job[j].scope)
        /\ job[j].cycle <= remediations
        /\ job[j].cycle = remediations => attempt[a].state # "superseded" /\ attempt[a].external
        /\ job[j].cycle < remediations => attempt[a].state = "superseded"

\* A job is of a collector that may call its scope, and the attempt of a job
\* is set aside by the end of its research cycle and by nothing else.
JobInv == \A j \in Jobs : JobRow(j)

\* A job that is admitted now is of a place whose call has no job yet.
LEMMA AdmittedLemma ==
    ASSUME SweepTypeOK, HeldInv, NEW o \in Collectors, NEW k \in JobId, Admits(o, k)
    PROVE  /\ Held(o) \in AttemptId /\ InProgress(Held(o))
           /\ attempt[Held(o)].stage = "collect" /\ attempt[Held(o)].ordinal = o
           /\ CollectorOf(turn[o].scope) = o /\ turn[o].scope \in ScopesOf(o)
<1>1. HeldRow(o) /\ turn[o].at = "begin"
  BY DEF HeldInv, Admits, At
<1>2. CallsSolver(o) /\ turn[o].scope \in ScopesOf(o)
  BY <1>1 DEF HeldRow, Executing
<1>3. CollectorOf(turn[o].scope) = o
  BY <1>2, ScopesLemma DEF CallsSolver, ScopesOf, CollectorOf
<1> QED
  BY <1>1, <1>2, <1>3 DEF HeldRow, Admits

LEMMA JobStep ==
    ASSUME SweepTypeOK, HeldInv, RequestInv, JobInv, [SweepNext]_sweepVars
    PROVE  JobInv'
<1>1. /\ \A a \in AttemptId : AttemptKept(a)
      /\ remediations' \in {remediations, remediations + 1}
  BY StoreStep, AttemptsAreKept DEF SweepTypeOK
<1>2. job \in [JobId -> JobRows] /\ job' \in [JobId -> JobRows] /\ remediations \in Nat
  BY JobsMove, StoreAssumption DEF SweepTypeOK, StoreTypeOK, JobRows
<1>3. ASSUME NEW j \in Jobs,
             job'[j].attempt = job[j].attempt, job'[j].scope = job[j].scope, job'[j].cycle = job[j].cycle
      PROVE  JobRow(j)'
  <2>1. JobRow(j) /\ job[j].cycle \in Nat
    BY <1>2, StoreAssumption DEF JobInv, Jobs, JobRows
  <2>2. AttemptKept(job[j].attempt)
    BY <1>1, <2>1 DEF JobRow
  <2>3. CollectorOf(job[j].scope)' = CollectorOf(job[j].scope)
    BY <1>3 DEF CollectorOf
  <2>4. CASE remediations' = remediations
    BY <1>3, <2>1, <2>2, <2>3, <2>4 DEF JobRow, AttemptKept
  <2>5. CASE remediations' = remediations + 1
    <3>1. remediations' # remediations /\ job[j].cycle < remediations' /\ job[j].cycle # remediations'
      BY <1>2, <2>1, <2>5 DEF JobRow
    <3> QED
      BY <1>3, <2>1, <2>2, <2>3, <2>5, <3>1 DEF JobRow, AttemptKept
  <2> QED
    BY <1>1, <2>4, <2>5
<1>4. ASSUME \A j \in JobId : JobKept(j) PROVE JobInv'
  BY <1>3, <1>4 DEF JobKept, JobInv, Jobs
<1>5. ASSUME NEW o \in Collectors, NEW k \in JobId, Admits(o, k) PROVE JobInv'
  <2>1. /\ Held(o) \in AttemptId /\ InProgress(Held(o))
        /\ attempt[Held(o)].stage = "collect" /\ attempt[Held(o)].ordinal = o
        /\ CollectorOf(turn[o].scope) = o
    BY <1>5, AdmittedLemma
  <2>2. AttemptKept(Held(o)) /\ attempt[Held(o)].state = "in_progress"
    BY <1>1, <2>1 DEF InProgress
  <2>3. /\ job'[k].attempt = Held(o) /\ job'[k].scope = turn[o].scope /\ job'[k].cycle = remediations
        /\ attempt'[Held(o)].state = "in_progress" /\ attempt'[Held(o)].external
        /\ remediations' = remediations
    BY <1>5 DEF Admits
  <2>4. CollectorOf(job[k].scope)' = CollectorOf(turn[o].scope)
    BY <2>3 DEF CollectorOf
  <2>5. JobRow(k)'
    BY <1>2, <2>1, <2>2, <2>3, <2>4 DEF JobRow, AttemptKept
  <2>6. \A j \in JobId \ {k} : job'[j] = job[j]
    BY <1>5 DEF Admits
  <2> QED
    BY <1>3, <2>5, <2>6 DEF JobInv, Jobs
<1> QED
  BY <1>4, <1>5, JobsMove DEF JobsStep

LEMMA CallStep ==
    ASSUME SweepTypeOK, PlacesInv, HeldInv, RequestInv, JobInv, CallRunsOnce, [SweepNext]_sweepVars
    PROVE  CallRunsOnce'
<1>1. ASSUME \A j \in JobId : JobKept(j) PROVE CallRunsOnce'
  BY <1>1 DEF JobKept, CallRunsOnce, Jobs
<1>2. ASSUME NEW o \in Collectors, NEW k \in JobId, Admits(o, k) PROVE CallRunsOnce'
  <2>1. /\ Held(o) \in AttemptId /\ InProgress(Held(o))
        /\ attempt[Held(o)].stage = "collect" /\ attempt[Held(o)].ordinal = o
        /\ CollectorOf(turn[o].scope) = o
    BY <1>2, AdmittedLemma
  <2>2. ASSUME NEW j \in Jobs PROVE <<job[j].scope, job[j].cycle>> # <<turn[o].scope, remediations>>
    <3>1. SUFFICES ASSUME job[j].scope = turn[o].scope, job[j].cycle = remediations PROVE FALSE
      OBVIOUS
    <3>2. /\ job[j].attempt \in AttemptId
          /\ InPlace(job[j].attempt) /\ attempt[job[j].attempt].stage = "collect"
          /\ attempt[job[j].attempt].ordinal = o
      BY <2>1, <3>1 DEF JobInv, JobRow, InPlace
    <3>3. job[j].attempt = Held(o)
      BY <2>1, <3>2 DEF PlacesInv, InPlace, SamePlace, InProgress
    <3>4. j \in Identical(Held(o), turn[o].scope)
      BY <3>1, <3>3 DEF Identical
    <3> QED
      BY <1>2, <3>4 DEF Admits
  <2>3. /\ \A j \in JobId \ {k} : job'[j] = job[j]
        /\ job'[k].scope = turn[o].scope /\ job'[k].cycle = remediations
        /\ k \notin Jobs
    BY <1>2 DEF Admits, Jobs
  <2>4. ASSUME NEW j \in JobId \ {k}, j \in Jobs'
        PROVE  j \in Jobs /\ <<job'[j].scope, job'[j].cycle>> # <<job'[k].scope, job'[k].cycle>>
    BY <2>2, <2>3, <2>4 DEF Jobs
  <2>5. ASSUME NEW i \in JobId \ {k}, NEW j \in JobId \ {k}, i \in Jobs, j \in Jobs, i # j
        PROVE  <<job'[i].scope, job'[i].cycle>> # <<job'[j].scope, job'[j].cycle>>
    BY <2>3, <2>5 DEF CallRunsOnce
  <2> QED
    BY <2>4, <2>5 DEF CallRunsOnce, Jobs
<1> QED
  BY <1>1, <1>2, JobsMove DEF JobsStep

-----------------------------------------------------------------------------
(* The phases of the engine. *)

\* The engine and its plan change in a step of the engine or with the process.
LEMMA EngineMoves ==
    ASSUME [SweepNext]_sweepVars
    PROVE  EngineStep \/ Crash \/ UNCHANGED <<engine, plan>>
<1>1. ASSUME NEW o \in Collectors, CollectorStep(o) \/ TurnStep(o) PROVE UNCHANGED <<engine, plan>>
  BY <1>1 DEF CollectorStep, BeginCollector, AuthorizeReuse, CloseFailed, BeginSweep, AskForMatrix,
              CreateCellScope, CreateRequest, BeginJob, WaitForMatrix, GrantCellScope, MarkWaiting,
              RegisterMatrix, StopWaiting, EnterRequest,
              ValidateCapability, TakeSlot, WorkPolar, WorkCase, Publish, Settle, ReadCompleted,
              TurnFails, TurnEnds, Alone, ServiceKeeps, TurnStep, ReplayCall, RetryDenied, LoadRun,
              aroundKept, runVars
<1>2. ASSUME NEW p, RestoreAndAnswer(p) \/ \E d : Decide(p, d) PROVE UNCHANGED <<engine, plan>>
  BY <1>2 DEF RestoreAndAnswer, Decide, aroundKept, runVars
<1>3. Cancel \/ UNCHANGED sweepVars => UNCHANGED <<engine, plan>>
  BY DEF Cancel, sweepVars, runVars
<1> QED
  BY <1>1, <1>2, <1>3 DEF SweepNext

\* Only a crash makes a run interrupted.
LEMMA StatusMoves ==
    ASSUME SweepTypeOK, HeldInv, RequestInv, [SweepNext]_sweepVars, status' = "interrupted"
    PROVE  status = "interrupted" \/ Crash
<1>1. ASSUME NEW requested \in {"cancelled", "failed"}, NEW rows, status' = QuiescedStatus(requested, rows)
      PROVE  FALSE
  BY <1>1 DEF QuiescedStatus
<1>2. ASSUME NEW next \in {"waiting_approval", "collecting", "synthesizing", "reviewing"},
             TransitionRun(revision, next)
      PROVE  FALSE
  BY <1>2 DEF TransitionRun, SetStatus
<1>3. ASSUME NEW requested \in {"cancelled", "failed"}, QuiesceRun(requested) PROVE FALSE
  BY <1>1, <1>3 DEF QuiesceRun, SetStatus
<1>4. ResumeRunAfterApproval("collecting") => FALSE
  BY DEF ResumeRunAfterApproval, SetStatus
<1>5. ASSUME NEW a, FailCollectStageAndQuiesceRun(a) PROVE status' = status
  BY <1>1, <1>5 DEF FailCollectStageAndQuiesceRun, SetStatus
<1>6. CASE UNCHANGED status
  BY <1>6
<1>7. ASSUME NEW o \in Collectors, CollectorStep(o) PROVE status' = status
  <2>1. CASE BeginCollector(o) \/ AuthorizeReuse(o) \/ BeginSweep(o) \/ RegisterMatrix(o) \/ StopWaiting(o)
             \/ EnterRequest(o) \/ ValidateCapability(o) \/ TakeSlot(o) \/ WorkPolar(o)
             \/ WorkCase(o) \/ Publish(o) \/ Settle(o) \/ ReadCompleted(o) \/ TurnFails(o)
    BY <2>1 DEF BeginCollector, BeginStage, AuthorizeReuse, BeginSweep, RegisterMatrix, StopWaiting,
                EnterRequest, ValidateCapability, TakeSlot, WorkPolar, WorkCase, Publish, Settle,
                ReadCompleted, TurnFails, Alone, ServiceKeeps, storeVars
  <2>2. CASE CloseFailed(o) \/ TurnEnds(o)
    BY <1>5, <2>2 DEF CloseFailed, TurnEnds, CompleteStage, storeVars
  <2>3. CASE WaitForMatrix(o) \/ MarkWaiting(o)
    BY <1>2, <2>3 DEF WaitForMatrix, MarkWaiting, storeVars
  <2>4. CASE AskForMatrix(o) \/ CreateCellScope(o) \/ CreateRequest(o)
    BY <1>4, <2>4 DEF AskForMatrix, CreateCellScope, CreateRequest, CreateScoped, CreateApproval,
                      storeVars
  <2>5. CASE GrantCellScope(o) \/ BeginJob(o)
    BY <2>5 DEF GrantCellScope, DecideApproval, BeginJob, AdmitJob, BeginEngineeringJob, storeVars
  <2> QED
    BY <1>7, <2>1, <2>2, <2>3, <2>4, <2>5 DEF CollectorStep
<1>8. ASSUME NEW o \in Collectors, TurnStep(o) PROVE status' = status
  BY <1>5, <1>8 DEF TurnStep, ReplayCall, RetryDenied, LoadRun, Alone, storeVars
<1>9. ASSUME NEW p, RestoreAndAnswer(p) \/ \E d : Decide(p, d) PROVE status' = status
  BY <1>4, <1>9 DEF RestoreAndAnswer, Decide, DecideActiveApproval, storeVars
<1>10. ASSUME EngineStep PROVE status' = status
  <2>1. CASE PlanCycle \/ EndCollection
    BY <1>2, <1>3, <2>1 DEF PlanCycle, EndCollection, storeVars
  <2>2. CASE BeginVerification
    BY <2>2 DEF BeginVerification, storeVars
  <2>3. CASE Review
    BY <1>2, <2>3 DEF Review, BeginStage, CompleteStage
  <2>4. ASSUME NEW asks, Remediate(asks) PROVE FALSE
    BY <2>4 DEF Remediate, PrepareResearchRemediation, SetStatus
  <2>5. CASE Resume
    BY <1>2, <2>5 DEF Resume, PrepareInterruptedRunForResume
  <2> QED
    BY <1>10, <2>1, <2>2, <2>3, <2>4, <2>5 DEF EngineStep
<1>11. Cancel \/ UNCHANGED sweepVars => status' = status
  BY DEF Cancel, sweepVars, storeVars
<1> QED
  BY <1>7, <1>8, <1>9, <1>10, <1>11 DEF SweepNext

Closing == {"failed", "interrupted", "uncertain", "superseded"}

AttemptMoves(a) ==
    \/ attempt'[a].state = attempt[a].state
    \/ InPlace(a) /\ attempt'[a].state \in Closing
    \/ \E o \in Collectors : Begins(o) /\ turn'[o].attempt = a
    \/ \E o \in Collectors :
          TurnEnds(o) /\ OutputIsAccepted(o) /\ a = Held(o) /\ attempt'[a].state = "completed"
    \/ Review /\ attempt'[a].stage = "review"
    \/ Review /\ engine = "review" /\ InProgress(a) /\ attempt'[a].state = "completed"

\* A turn begins for a collector that takes it up, and completes when its
\* output is accepted; the review is the engine's own.
LEMMA AttemptsMove ==
    ASSUME SweepTypeOK, HeldInv, RequestInv, [SweepNext]_sweepVars
    PROVE  \A a \in AttemptId : AttemptMoves(a)
<1>0. /\ attempt \in [AttemptId -> Attempts]
      /\ \A a \in AttemptId : attempt[a] \in Attempts
  BY DEF SweepTypeOK, StoreTypeOK
<1>1. ASSUME attempt' = attempt PROVE \A a \in AttemptId : AttemptMoves(a)
  BY <1>1 DEF AttemptMoves
<1>2. ASSUME NEW b, MarkExternal(b) PROVE \A a \in AttemptId : AttemptMoves(a)
  <2>1. ASSUME NEW a \in AttemptId PROVE attempt'[a].state = attempt[a].state
    BY <1>0, <1>2 DEF MarkExternal, Attempts
  <2> QED
    BY <2>1 DEF AttemptMoves
<1>3. ASSUME NEW b, NEW state, SetAttempt(b, state)
      PROVE  \A a \in AttemptId : \/ attempt'[a].state = attempt[a].state
                                  \/ a = b /\ attempt'[a].state = state
  BY <1>0, <1>3 DEF SetAttempt, Attempts
<1>4. ASSUME NEW b, InProgress(b), SetAttempt(b, "failed") PROVE \A a \in AttemptId : AttemptMoves(a)
  BY <1>3, <1>4 DEF AttemptMoves, InPlace, InProgress, Closing
<1>5. ASSUME NEW b, FailCollectStageAndQuiesceRun(b) \/ CompleteStage(b, "failed")
      PROVE  \A a \in AttemptId : AttemptMoves(a)
  BY <1>4, <1>5 DEF FailCollectStageAndQuiesceRun, CompleteStage
<1>6. ASSUME NEW b, NEW stage, NEW ordinal, BeginStage(b, stage, ordinal)
      PROVE  \A a \in AttemptId : \/ attempt'[a].state = attempt[a].state
                                  \/ a = b /\ attempt'[a].stage = stage
  BY <1>0, <1>6 DEF BeginStage, Attempts
<1>7. ASSUME NEW o \in Collectors, CollectorStep(o) PROVE \A a \in AttemptId : AttemptMoves(a)
  <2>1. CASE BeginCollector(o)
    <3>1. PICK b \in FreshAttempt : BeginStage(b, "collect", o) /\ turn'[o].attempt = b
      <4>1. turn \in [Collectors -> TurnRows]
        BY TurnTypeLemma DEF TurnType
      <4> QED
        BY <2>1, <4>1 DEF BeginCollector, Resting
    <3>2. Begins(o)
      BY <2>1, BeginsLemma
    <3>3. ASSUME NEW a \in AttemptId PROVE attempt'[a].state = attempt[a].state \/ a = b
      BY <1>0, <3>1 DEF BeginStage
    <3> QED
      BY <3>1, <3>2, <3>3 DEF AttemptMoves
  <2>2. CASE CloseFailed(o)
    BY <1>1, <1>5, <2>2 DEF CloseFailed, storeVars
  <2>3. CASE TurnEnds(o)
    <3>1. CASE OutputIsAccepted(o) /\ CompleteStage(Held(o), "completed")
      BY <1>3, <2>3, <3>1 DEF CompleteStage, AttemptMoves
    <3> QED
      BY <1>1, <2>3, <3>1 DEF TurnEnds, storeVars
  <2>4. CASE BeginJob(o)
    BY <1>1, <1>2, <2>4 DEF BeginJob, AdmitJob, BeginEngineeringJob, storeVars
  <2>5. CASE AuthorizeReuse(o) \/ BeginSweep(o) \/ RegisterMatrix(o) \/ StopWaiting(o)
             \/ EnterRequest(o) \/ ValidateCapability(o) \/ TakeSlot(o) \/ WorkPolar(o)
             \/ WorkCase(o) \/ Publish(o) \/ Settle(o) \/ ReadCompleted(o) \/ TurnFails(o)
    BY <1>1, <2>5 DEF AuthorizeReuse, BeginSweep, RegisterMatrix, StopWaiting,
                EnterRequest, ValidateCapability, TakeSlot, WorkPolar, WorkCase, Publish, Settle,
                ReadCompleted, TurnFails, Alone, ServiceKeeps, storeVars
  <2>6. CASE WaitForMatrix(o) \/ MarkWaiting(o) \/ AskForMatrix(o) \/ CreateCellScope(o)
             \/ CreateRequest(o) \/ GrantCellScope(o)
    BY <1>1, <2>6 DEF WaitForMatrix, MarkWaiting, AskForMatrix, CreateCellScope, CreateRequest,
                GrantCellScope, TransitionRun, ResumeRunAfterApproval, CreateScoped, CreateApproval,
                DecideApproval, storeVars
  <2> QED
    BY <1>7, <2>1, <2>2, <2>3, <2>4, <2>5, <2>6 DEF CollectorStep
<1>8. ASSUME NEW o \in Collectors, TurnStep(o) PROVE \A a \in AttemptId : AttemptMoves(a)
  BY <1>1, <1>5, <1>8 DEF TurnStep, ReplayCall, RetryDenied, LoadRun, Alone, storeVars
<1>9. ASSUME NEW p, RestoreAndAnswer(p) \/ \E d : Decide(p, d) PROVE \A a \in AttemptId : AttemptMoves(a)
  BY <1>1, <1>2, <1>9 DEF RestoreAndAnswer, ResumeRunAfterApproval, Decide, DecideActiveApproval, storeVars
<1>10. ASSUME NEW state \in Closing,
              \A a \in AttemptId : \/ attempt'[a] = attempt[a]
                                   \/ InPlace(a) /\ attempt'[a] = [attempt[a] EXCEPT !.state = state]
       PROVE  \A a \in AttemptId : AttemptMoves(a)
  <2>1. ASSUME NEW a \in AttemptId, attempt'[a] = [attempt[a] EXCEPT !.state = state]
        PROVE  attempt'[a].state = state
    BY <1>0, <2>1 DEF Attempts
  <2> QED
    BY <1>10, <2>1 DEF AttemptMoves
<1>11. ASSUME EngineStep PROVE \A a \in AttemptId : AttemptMoves(a)
  <2>1. CASE PlanCycle \/ EndCollection \/ BeginVerification
    BY <1>1, <2>1 DEF PlanCycle, EndCollection, BeginVerification, TransitionRun, QuiesceRun, storeVars
  <2>2. CASE Review
    <3>1. ASSUME NEW b \in Active, engine = "review", CompleteStage(b, "completed")
          PROVE  \A a \in AttemptId : AttemptMoves(a)
      BY <1>3, <2>2, <3>1 DEF CompleteStage, AttemptMoves, Active
    <3>2. ASSUME NEW b, BeginStage(b, "review", 0) PROVE \A a \in AttemptId : AttemptMoves(a)
      BY <1>6, <2>2, <3>2 DEF AttemptMoves
    <3> QED
      BY <1>1, <2>2, <3>1, <3>2 DEF Review, TransitionRun
  <2>3. ASSUME NEW asks, Remediate(asks) PROVE \A a \in AttemptId : AttemptMoves(a)
    <3>1. ASSUME NEW a \in AttemptId
          PROVE  attempt'[a].state = attempt[a].state \/ (InPlace(a) /\ attempt'[a].state = "superseded")
      BY <1>0, <2>3 DEF Remediate, PrepareResearchRemediation, InPlace, Attempts
    <3> QED
      BY <3>1 DEF AttemptMoves, Closing
  <2>4. CASE Resume
    <3>1. CASE PrepareInterruptedRunForResume
      <4>1. \A a \in AttemptId :
               \/ attempt'[a] = attempt[a]
               \/ InPlace(a) /\ attempt'[a] = [attempt[a] EXCEPT !.state = "superseded"]
        BY <3>1 DEF PrepareInterruptedRunForResume, InPlace
      <4> QED
        BY <1>10, <4>1 DEF Closing
    <3> QED
      BY <1>1, <2>4, <3>1 DEF Resume, TransitionRun
  <2> QED
    BY <1>11, <2>1, <2>2, <2>3, <2>4 DEF EngineStep
<1>12. ASSUME Crash PROVE \A a \in AttemptId : AttemptMoves(a)
  <2> DEFINE recovered == RecoveryStatus(\E a \in AttemptId :
                  attempt[a].state \in {"in_progress", "interrupted"} /\ attempt[a].external)
  <2>1. recovered \in Closing
    BY DEF RecoveryStatus, Closing
  <2>2. \/ attempt' = attempt
        \/ attempt' = [a \in AttemptId |->
             IF InProgress(a) THEN [attempt[a] EXCEPT !.state = recovered] ELSE attempt[a]]
    BY <1>12 DEF Crash, RecoverInFlight
  <2> HIDE DEF recovered
  <2>3. \A a \in AttemptId :
           \/ attempt'[a] = attempt[a]
           \/ InPlace(a) /\ attempt'[a] = [attempt[a] EXCEPT !.state = recovered]
    BY <2>2 DEF InPlace, InProgress
  <2> QED
    BY <1>10, <2>1, <2>3
<1>13. Cancel \/ UNCHANGED sweepVars => attempt' = attempt
  BY DEF Cancel, sweepVars, storeVars
<1> QED
  BY <1>1, <1>7, <1>8, <1>9, <1>11, <1>12, <1>13 DEF SweepNext

\* A collector has a turn only while the engine collects, and the verifier
\* only while it verifies.
RestInv ==
    /\ engine \notin {"collect", "verify"} => \A o \in Collectors : turn[o].at = "idle"
    /\ engine # "verify" => turn[Verifier].at = "idle"
    /\ \A o \in Workstreams \ plan.crew : turn[o].at = "idle"

InterruptedInv == engine \notin {"down", "prepared"} => status # "interrupted"

\* A research cycle is planned when everything of the cycle before is sealed.
PlanningInv == engine = "plan" => \A a \in AttemptId : ~InPlace(a)

\* A collect attempt that is open has a collector, or the process died with it.
WorkedOn(a) ==
    \/ \E o \in Collectors : turn[o].at \notin {"idle", "over"} /\ Held(o) = a
    \/ engine = "idle"
    \/ engine = "down" /\ status # "interrupted"

PhaseInv ==
    /\ RestInv /\ InterruptedInv /\ PlanningInv
    /\ \A a \in AttemptId : InProgress(a) /\ attempt[a].stage = "collect" => WorkedOn(a)

LEMMA RestsWith ==
    ASSUME EndCollection \/ Crash PROVE \A o \in Collectors : turn'[o].at = "idle"
    BY DEF EndCollection, Crash, Resting

LEMMA RestStep ==
    ASSUME SweepTypeOK, HeldInv, RequestInv, RestInv, [SweepNext]_sweepVars
    PROVE  RestInv'
<1>0. Workstreams \subseteq Collectors /\ Verifier \in Collectors
  BY ScopesLemma DEF Workstreams
<1>1. CASE EndCollection \/ Crash
  BY <1>0, <1>1, RestsWith DEF RestInv
<1>2. CASE EngineStep /\ ~EndCollection
  <2>1. UNCHANGED turn
    BY <1>2 DEF EngineStep, PlanCycle, BeginVerification, Review, Remediate, Resume
  <2>2. CASE PlanCycle \/ (\E asks : Remediate(asks))
    <3>1. \A o \in Collectors : turn[o].at = "idle"
      BY <2>2 DEF PlanCycle, Remediate, RestInv
    <3> QED
      BY <1>0, <2>1, <3>1 DEF RestInv
  <2>3. CASE BeginVerification \/ Review \/ Resume
    <3>1. plan' = plan
      BY <2>3 DEF BeginVerification, Review, Resume
    <3>2. /\ engine' \notin {"collect", "verify"} => engine \notin {"collect", "verify"}
          /\ engine' # "verify" => engine # "verify"
      BY <2>3 DEF BeginVerification, Review, Resume
    <3> QED
      BY <2>1, <3>1, <3>2 DEF RestInv
  <2> QED
    BY <1>2, <2>2, <2>3 DEF EngineStep
<1>3. ASSUME UNCHANGED <<engine, plan>>, NEW o \in Collectors, turn[o].at # "idle", Walks(o)
      PROVE  RestInv'
  <2>1. \A x \in Collectors : turn[x].at = "idle" => turn'[x].at = "idle"
    BY <1>3 DEF Walks, Moves
  <2> QED
    BY <1>0, <1>3, <2>1 DEF RestInv
<1>4. ASSUME UNCHANGED <<engine, plan>>, NEW o \in Collectors, Begins(o) PROVE RestInv'
  <2>1. /\ o = Verifier => engine = "verify"
        /\ o # Verifier => engine = "collect" /\ o \in plan.crew
        /\ \A x \in Collectors \ {o} : turn'[x] = turn[x]
    BY <1>4 DEF Begins, BeginCollector
  <2> QED
    BY <1>0, <1>4, <2>1 DEF RestInv, Workstreams
<1>5. CASE UNCHANGED <<engine, plan>> /\ UNCHANGED turn
  BY <1>5 DEF RestInv
<1> QED
  BY <1>1, <1>2, <1>3, <1>4, <1>5, EngineMoves, TurnsMove

LEMMA InterruptedStep ==
    ASSUME SweepTypeOK, HeldInv, RequestInv, InterruptedInv, [SweepNext]_sweepVars
    PROVE  InterruptedInv'
<1> SUFFICES ASSUME engine' \notin {"down", "prepared"}, status' = "interrupted" PROVE FALSE
  BY DEF InterruptedInv
<1>1. ~Crash
  BY DEF Crash
<1>2. status = "interrupted" /\ engine \in {"down", "prepared"}
  BY <1>1, StatusMoves DEF InterruptedInv
<1>3. Resume
  BY <1>1, <1>2, EngineMoves
  DEF EngineStep, PlanCycle, BeginVerification, EndCollection, Review, Remediate
<1> QED
  BY <1>3 DEF Resume, TransitionRun, SetStatus

LEMMA PlanningStep ==
    ASSUME SweepTypeOK, HeldInv, RequestInv, RestInv, PlanningInv, [SweepNext]_sweepVars
    PROVE  PlanningInv'
<1> SUFFICES ASSUME engine' = "plan", NEW a \in AttemptId PROVE ~InPlace(a)'
  BY DEF PlanningInv
<1>1. CASE engine = "plan"
  <2>1. AttemptMoves(a) /\ ~InPlace(a)
    BY <1>1, AttemptsMove DEF PlanningInv
  <2>2. \A o \in Collectors : turn[o].at = "idle"
    BY <1>1 DEF RestInv
  <2>3. ASSUME NEW o \in Collectors PROVE ~Begins(o) /\ ~TurnEnds(o)
    BY <1>1, <2>2 DEF Begins, BeginCollector, TurnEnds, At
  <2>4. ~Review
    BY <1>1 DEF Review
  <2>5. attempt'[a].state = attempt[a].state
    BY <2>1, <2>3, <2>4 DEF AttemptMoves
  <2> QED
    BY <2>1, <2>5 DEF InPlace
<1>2. CASE engine # "plan"
  <2>1. PICK asks : Remediate(asks)
    BY <1>2, EngineMoves
    DEF EngineStep, PlanCycle, BeginVerification, EndCollection, Review, Resume, Crash
  <2>2. attempt[a] \in Attempts
    BY DEF SweepTypeOK, StoreTypeOK
  <2> QED
    BY <2>1, <2>2 DEF Remediate, PrepareResearchRemediation, InPlace, Attempts
<1> QED
  BY <1>1, <1>2

LEMMA WorkedOnStep ==
    ASSUME SweepTypeOK, HeldInv, RequestInv, PhaseInv, [SweepNext]_sweepVars,
           NEW a \in AttemptId, InProgress(a)', attempt'[a].stage = "collect"
    PROVE  WorkedOn(a)'
<1>1. AttemptMoves(a) /\ attempt'[a].state = "in_progress"
  BY AttemptsMove DEF InProgress
<1>2. ASSUME NEW o \in Collectors, Begins(o), turn'[o].attempt = a PROVE WorkedOn(a)'
  BY <1>2 DEF Begins, WorkedOn, Held
<1>3. CASE attempt'[a].state = attempt[a].state
  <2>1. InProgress(a) /\ attempt[a].stage = "collect"
    <3>1. AttemptKept(a)
      BY StoreStep, AttemptsAreKept DEF SweepTypeOK
    <3> QED
      BY <1>1, <1>3, <3>1 DEF AttemptKept, InProgress
  <2>2. WorkedOn(a)
    BY <2>1 DEF PhaseInv
  <2>3. ASSUME NEW o \in Collectors, turn[o].at \notin {"idle", "over"}, Held(o) = a
        PROVE  WorkedOn(a)'
    <3>1. engine \in {"collect", "verify"}
      BY <2>3 DEF PhaseInv, RestInv
    <3>2. CASE Crash
      <4>1. status \notin InFlightStatuses
        <5>1. ASSUME status \in InFlightStatuses PROVE attempt'[a].state # "in_progress"
          <6> DEFINE recovered == RecoveryStatus(\E b \in AttemptId :
                         attempt[b].state \in {"in_progress", "interrupted"} /\ attempt[b].external)
          <6>1. recovered # "in_progress"
            BY DEF RecoveryStatus
          <6>2. attempt' = [b \in AttemptId |->
                   IF InProgress(b) THEN [attempt[b] EXCEPT !.state = recovered] ELSE attempt[b]]
            BY <3>2, <5>1 DEF Crash, RecoverInFlight
          <6> HIDE DEF recovered
          <6>3. attempt[a] \in Attempts
            BY DEF SweepTypeOK, StoreTypeOK
          <6>4. attempt'[a] = [attempt[a] EXCEPT !.state = recovered]
            BY <2>1, <6>2
          <6> QED
            BY <6>1, <6>3, <6>4 DEF Attempts
        <5> QED
          BY <1>1, <5>1
      <4>2. status' = status /\ engine' = "down"
        BY <3>2, <4>1 DEF Crash, RecoverInFlight
      <4>3. status # "interrupted"
        BY <3>1 DEF PhaseInv, InterruptedInv
      <4> QED
        BY <4>2, <4>3 DEF WorkedOn
    <3>3. CASE EndCollection
      <4>1. \A x \in plan.crew : HasReturned(x)
        BY <3>3 DEF EndCollection, CollectorsReturned
      <4>2. HasReturned(o) \/ turn[o].at = "idle"
        <5>1. CASE o = Verifier
          BY <3>3, <5>1 DEF EndCollection, PhaseInv, RestInv
        <5>2. CASE o # Verifier
          BY <4>1, <5>2 DEF PhaseInv, RestInv, Workstreams
        <5> QED
          BY <5>1, <5>2
      <4> QED
        BY <2>3, <4>2 DEF HasReturned, At
    <3>4. ASSUME NEW x \in Collectors, Walks(x), turn[x].at # "idle" PROVE WorkedOn(a)'
      <4>1. CASE x = o
        <5>1. turn'[o].attempt = a /\ turn'[o].at \notin {"idle", "over"}
          <6>1. ASSUME NEW where, NEW s, NEW p, Moves(o, where, s, p), where \notin {"idle", "over"}
                PROVE  turn'[o].attempt = a /\ turn'[o].at \notin {"idle", "over"}
            BY <2>3, <6>1 DEF Moves, Held
          <6>2. \A path \in Paths : path[2] \notin {"idle", "over"}
            BY DEF Paths
          <6>3. attempt'[Held(o)].state = "in_progress"
            BY <1>1, <2>3
          <6> QED
            BY <3>4, <4>1, <6>1, <6>2, <6>3 DEF Walks
        <5> QED
          BY <5>1 DEF WorkedOn, Held
      <4>2. CASE x # o
        <5>1. turn'[o] = turn[o]
          BY <3>4, <4>2 DEF Walks, Moves
        <5> QED
          BY <2>3, <5>1 DEF WorkedOn, Held
      <4> QED
        BY <4>1, <4>2
    <3>5. ASSUME NEW x \in Collectors, Begins(x) PROVE WorkedOn(a)'
      <4>1. turn'[o] = turn[o]
        BY <2>3, <3>5 DEF Begins
      <4> QED
        BY <2>3, <4>1 DEF WorkedOn, Held
    <3>6. CASE UNCHANGED turn
      BY <2>3, <3>6 DEF WorkedOn, Held
    <3> QED
      BY <3>2, <3>3, <3>4, <3>5, <3>6, TurnsMove
  <2>4. CASE engine = "idle"
    <3>1. engine' = "idle"
      BY <2>4, EngineMoves
      DEF EngineStep, PlanCycle, BeginVerification, EndCollection, Review, Remediate, Resume, Crash
    <3> QED
      BY <3>1 DEF WorkedOn
  <2>5. CASE engine = "down" /\ status # "interrupted"
    <3>1. engine' = "down" /\ ~Crash
      BY <2>5, EngineMoves
      DEF EngineStep, PlanCycle, BeginVerification, EndCollection, Review, Remediate, Resume, Crash
    <3>2. status' # "interrupted"
      BY <2>5, <3>1, StatusMoves
    <3> QED
      BY <3>1, <3>2 DEF WorkedOn
  <2> QED
    BY <2>2, <2>3, <2>4, <2>5 DEF WorkedOn
<1> QED
  BY <1>1, <1>2, <1>3 DEF AttemptMoves, Closing

LEMMA PhaseStep ==
    ASSUME SweepTypeOK, HeldInv, RequestInv, PhaseInv, [SweepNext]_sweepVars
    PROVE  PhaseInv'
<1>1. RestInv'
  BY RestStep DEF PhaseInv
<1>2. InterruptedInv'
  BY InterruptedStep DEF PhaseInv
<1>3. PlanningInv'
  BY PlanningStep DEF PhaseInv
<1>4. ASSUME NEW a \in AttemptId, InProgress(a)', attempt'[a].stage = "collect" PROVE WorkedOn(a)'
  BY <1>4, WorkedOnStep
<1> QED
  BY <1>1, <1>2, <1>3, <1>4 DEF PhaseInv

-----------------------------------------------------------------------------
(* What a completed owner rests on. *)

OwnerDone(a) ==
    attempt[a].state = "completed" /\ attempt[a].stage = "collect" /\ attempt[a].ordinal = Owner

\* Every cell of the matrix was run by the owner's attempt and succeeded.
CellsOf(a) ==
    \A s \in Matrix : \E j \in Jobs :
        job[j].scope = s /\ job[j].state = "succeeded" /\ job[j].attempt = a

MatrixInv == \A a \in AttemptId : OwnerDone(a) /\ plan.matrix /\ plan.crew # {} => CellsOf(a)

\* What is read back is a job of a cycle that was sealed.
ReuseInv ==
    \A a \in AttemptId, j \in JobId :
        <<a, j>> \in reuse => j \in Jobs /\ attempt[job[j].attempt].state = "superseded"

\* An owner is done because its own output was accepted, and as long as it is
\* the plan and the seals of its cycle stay.
LEMMA OwnerDoneMoves ==
    ASSUME SweepTypeOK, HeldInv, RequestInv, PhaseInv, [SweepNext]_sweepVars,
           NEW a \in AttemptId, OwnerDone(a)', plan'.crew # {}
    PROVE  /\ plan' = plan /\ remediations' = remediations
           /\ OwnerDone(a) \/ (TurnEnds(Owner) /\ OutputIsAccepted(Owner) /\ a = Held(Owner))
<1>1. AttemptMoves(a) /\ AttemptKept(a)
  BY AttemptsMove, StoreStep, AttemptsAreKept DEF SweepTypeOK
<1>2. attempt'[a].state = "completed" /\ attempt'[a].stage = "collect" /\ attempt'[a].ordinal = Owner
  BY DEF OwnerDone
<1>3. attempt[a].state # "none" => attempt[a].stage = "collect" /\ attempt[a].ordinal = Owner
  BY <1>1, <1>2 DEF AttemptKept
<1>4. ASSUME NEW o \in Collectors, TurnEnds(o), OutputIsAccepted(o), a = Held(o)
      PROVE  o = Owner
  <2>1. attempt[a].state # "none" /\ attempt[a].ordinal = o
    BY <1>4 DEF TurnEnds, At, HeldInv, HeldRow
  <2> QED
    BY <1>3, <2>1
<1>5. ~(Review /\ engine = "review" /\ InProgress(a))
  <2>1. SUFFICES ASSUME engine = "review", InProgress(a) PROVE FALSE
    OBVIOUS
  <2>2. WorkedOn(a)
    BY <1>3, <2>1 DEF PhaseInv, InProgress
  <2>3. \A o \in Collectors : turn[o].at = "idle"
    BY <2>1 DEF PhaseInv, RestInv
  <2> QED
    BY <2>1, <2>2, <2>3 DEF WorkedOn
<1>6. ASSUME NEW o \in Collectors, Begins(o), turn'[o].attempt = a PROVE FALSE
  BY <1>2, <1>6 DEF Begins
<1>7. OwnerDone(a) \/ (TurnEnds(Owner) /\ OutputIsAccepted(Owner) /\ a = Held(Owner))
  <2>1. CASE attempt'[a].state = attempt[a].state
    BY <1>2, <1>3, <2>1 DEF OwnerDone
  <2> QED
    BY <1>1, <1>2, <1>4, <1>5, <1>6, <2>1 DEF AttemptMoves, Closing
<1>8. InPlace(a)
  BY <1>7 DEF OwnerDone, TurnEnds, CompleteStage, InPlace, InProgress
<1>9. plan' = plan
  <2>1. ~PlanCycle
    BY <1>8 DEF PlanCycle, PhaseInv, PlanningInv
  <2>2. \A asks : ~Remediate(asks)
    BY DEF Remediate, SweepTypeOK
  <2> QED
    BY <2>1, <2>2, EngineMoves DEF EngineStep, BeginVerification, EndCollection, Review, Resume, Crash
<1>10. remediations' = remediations
  <2>1. attempt[a].state # "none"
    BY <1>8 DEF InPlace
  <2> QED
    BY <1>1, <1>2, <2>1 DEF AttemptKept
<1> QED
  BY <1>7, <1>9, <1>10

LEMMA MatrixStep ==
    ASSUME SweepTypeOK, HeldInv, RequestInv, PhaseInv, MatrixInv, [SweepNext]_sweepVars
    PROVE  MatrixInv'
<1> SUFFICES ASSUME NEW a \in AttemptId, OwnerDone(a)', plan'.matrix, plan'.crew # {}
             PROVE  CellsOf(a)'
  BY DEF MatrixInv
<1>1. plan.matrix /\ plan.crew # {}
  BY OwnerDoneMoves
<1>2. CellsOf(a)
  <2>1. CASE OwnerDone(a)
    BY <1>1, <2>1 DEF MatrixInv
  <2>2. CASE OutputIsAccepted(Owner) /\ a = Held(Owner)
    <3>1. /\ \A s \in Matrix : Cardinality({j \in ScreeningRecords : job[j].scope = s}) = 1
          /\ \A j \in ScreeningRecords : job[j].state = "succeeded" /\ job[j].attempt = a
      BY <1>1, <2>2 DEF OutputIsAccepted, MatrixCovered
    <3>2. ASSUME NEW s \in Matrix PROVE \E j \in ScreeningRecords : job[j].scope = s
      <4>1. {j \in ScreeningRecords : job[j].scope = s} # {}
        BY <3>1, FS_EmptySet
      <4> QED
        BY <4>1
    <3> QED
      BY <3>1, <3>2 DEF CellsOf, ScreeningRecords, LiveJobs
  <2> QED
    BY <2>1, <2>2, OwnerDoneMoves
<1>3. \A j \in Jobs : /\ j \in Jobs' /\ job'[j].scope = job[j].scope /\ job'[j].attempt = job[j].attempt
                      /\ job[j].state = "succeeded" => job'[j].state = "succeeded"
  <2>1. CASE \A j \in JobId : JobKept(j)
    BY <2>1 DEF JobKept, Jobs
  <2>2. ASSUME NEW o \in Collectors, NEW k \in JobId, Admits(o, k)
        PROVE  \A j \in Jobs : job'[j] = job[j]
    BY <2>2 DEF Admits, Jobs
  <2> QED
    BY <2>1, <2>2, JobsMove DEF JobsStep, Jobs
<1> QED
  BY <1>2, <1>3 DEF CellsOf

LEMMA ReuseStep ==
    ASSUME SweepTypeOK, HeldInv, RequestInv, JobInv, ReuseInv, [SweepNext]_sweepVars
    PROVE  ReuseInv' /\ reuse \subseteq reuse'
<1>1. ASSUME NEW o \in Collectors, CollectorStep(o) \/ TurnStep(o)
      PROVE  AuthorizeReuse(o) \/ UNCHANGED reuse
  BY <1>1 DEF CollectorStep, BeginCollector, CloseFailed, BeginSweep, AskForMatrix,
              CreateCellScope, CreateRequest, BeginJob,
              WaitForMatrix, RegisterMatrix, StopWaiting, GrantCellScope, MarkWaiting, EnterRequest,
              ValidateCapability, TakeSlot, WorkPolar, WorkCase, Publish, Settle, ReadCompleted,
              TurnFails, TurnEnds, Alone, ServiceKeeps, TurnStep, ReplayCall, RetryDenied, LoadRun,
              tablesKept
<1>2. ASSUME NEW p, RestoreAndAnswer(p) \/ \E d : Decide(p, d) PROVE UNCHANGED reuse
  BY <1>2 DEF RestoreAndAnswer, Decide, tablesKept
<1>3. EngineStep \/ Cancel \/ Crash \/ UNCHANGED sweepVars => UNCHANGED reuse
  BY DEF EngineStep, PlanCycle, BeginVerification, EndCollection, Review, Remediate, Resume, Cancel,
         Crash, sweepVars, tablesKept
<1>4. (\E o \in Collectors : AuthorizeReuse(o)) \/ UNCHANGED reuse
  BY <1>1, <1>2, <1>3 DEF SweepNext
<1>5. ASSUME NEW j \in Jobs, attempt[job[j].attempt].state = "superseded"
      PROVE  j \in Jobs' /\ attempt'[job'[j].attempt].state = "superseded"
  <2>1. /\ job[j].attempt \in AttemptId /\ AttemptKept(job[j].attempt)
    BY StoreStep, AttemptsAreKept DEF SweepTypeOK, JobInv, JobRow
  <2>2. job'[j].attempt = job[j].attempt /\ j \in Jobs'
    <3>1. CASE \A i \in JobId : JobKept(i)
      BY <3>1 DEF JobKept, Jobs
    <3>2. ASSUME NEW o \in Collectors, NEW k \in JobId, Admits(o, k) PROVE job'[j] = job[j]
      BY <3>2 DEF Admits, Jobs
    <3> QED
      BY <3>1, <3>2, JobsMove DEF JobsStep, Jobs
  <2> QED
    BY <1>5, <2>1, <2>2 DEF AttemptKept
<1>6. ASSUME NEW a \in AttemptId, NEW j \in JobId, <<a, j>> \in reuse'
      PROVE  j \in Jobs /\ attempt[job[j].attempt].state = "superseded"
  <2>1. CASE <<a, j>> \in reuse
    BY <2>1 DEF ReuseInv
  <2>2. ASSUME NEW o \in Collectors, AuthorizeReuse(o), <<a, j>> \notin reuse
        PROVE  j \in Jobs /\ attempt[job[j].attempt].state = "superseded"
    <3>1. j \in Reusable
      BY <1>6, <2>2 DEF AuthorizeReuse
    <3> QED
      BY <3>1 DEF Reusable, SealedCaseJobs
  <2> QED
    BY <1>4, <1>6, <2>1, <2>2
<1>7. reuse \subseteq reuse'
  BY <1>4 DEF AuthorizeReuse
<1> QED
  BY <1>5, <1>6, <1>7 DEF ReuseInv

LEMMA ReceiptsStep ==
    ASSUME SweepTypeOK, HeldInv, RequestInv, JobInv, PhaseInv, ReuseInv, ReceiptsAreCurrent,
           [SweepNext]_sweepVars
    PROVE  ReceiptsAreCurrent'
<1> DEFINE Rests(a, j) ==
             /\ job[j].scope = Case /\ job[j].state = "succeeded"
             /\ \/ job[j].attempt = a
                \/ <<a, j>> \in reuse /\ sealed[job[j].attempt] = remediations
<1> SUFFICES ASSUME NEW a \in AttemptId, OwnerDone(a)', plan'.case, plan'.crew # {}
             PROVE  \E j \in Jobs' : Rests(a, j)'
  BY DEF ReceiptsAreCurrent, OwnerDone
<1>1. plan' = plan /\ remediations' = remediations
  BY OwnerDoneMoves
<1>2. \E j \in Jobs : Rests(a, j)
  <2>1. CASE OwnerDone(a)
    BY <1>1, <2>1 DEF ReceiptsAreCurrent, OwnerDone
  <2>2. CASE OutputIsAccepted(Owner) /\ a = Held(Owner)
    <3>1. /\ Cardinality(CaseReceipts) = 1
          /\ \A j \in CaseReceipts : job[j].state = "succeeded" /\ MayCite(a, j)
      BY <1>1, <2>2 DEF OutputIsAccepted, CaseCovered
    <3>2. CaseReceipts # {}
      BY <3>1, FS_EmptySet
    <3>3. PICK j \in CaseReceipts : job[j].state = "succeeded" /\ MayCite(a, j)
      BY <3>1, <3>2
    <3>4. CASE j \in CaseJobs
      <4>1. j \in Jobs /\ job[j].scope = Case /\ attempt[job[j].attempt].state # "superseded"
        BY <3>4 DEF CaseJobs, LiveJobs
      <4>2. j \in JobId
        BY <4>1 DEF Jobs
      <4>3. <<a, j>> \notin reuse
        BY <4>1, <4>2 DEF ReuseInv
      <4> QED
        BY <3>3, <4>1, <4>3 DEF MayCite
    <3>5. CASE j \in Reusable
      <4>1. /\ j \in Jobs /\ job[j].scope = Case
            /\ sealed[job[j].attempt] = remediations
        BY <3>5 DEF Reusable, SealedCaseJobs, SealedLast
      <4> QED
        BY <3>3, <4>1 DEF MayCite
    <3> QED
      BY <3>4, <3>5 DEF CaseReceipts
  <2> QED
    BY <2>1, <2>2, OwnerDoneMoves
<1>3. PICK j \in Jobs : Rests(a, j)
  BY <1>2
<1>4. /\ j \in Jobs' /\ job'[j].scope = job[j].scope /\ job'[j].attempt = job[j].attempt
      /\ job'[j].state = "succeeded"
  <2>1. CASE \A i \in JobId : JobKept(i)
    BY <1>3, <2>1 DEF JobKept, Jobs
  <2>2. ASSUME NEW o \in Collectors, NEW k \in JobId, Admits(o, k) PROVE job'[j] = job[j]
    BY <2>2 DEF Admits, Jobs
  <2> QED
    BY <1>3, <2>1, <2>2, JobsMove DEF JobsStep, Jobs
<1>5. reuse \subseteq reuse'
  BY ReuseStep
<1>6. sealed' = sealed
  <2>1. ASSUME NEW asks, Remediate(asks) PROVE FALSE
    BY <1>1, <2>1 DEF Remediate, SweepTypeOK
  <2>2. ASSUME NEW o \in Collectors, CollectorStep(o) \/ TurnStep(o) PROVE UNCHANGED sealed
    BY <2>2 DEF CollectorStep, BeginCollector, AuthorizeReuse, CloseFailed, BeginSweep, AskForMatrix,
              CreateCellScope, CreateRequest, BeginJob,
              WaitForMatrix, RegisterMatrix, StopWaiting, GrantCellScope, MarkWaiting, EnterRequest,
              ValidateCapability, TakeSlot, WorkPolar, WorkCase, Publish, Settle, ReadCompleted,
              TurnFails, TurnEnds, Alone, ServiceKeeps, TurnStep, ReplayCall, RetryDenied, LoadRun,
              tablesKept
  <2>3. ASSUME NEW p, RestoreAndAnswer(p) \/ \E d : Decide(p, d) PROVE UNCHANGED sealed
    BY <2>3 DEF RestoreAndAnswer, Decide, tablesKept
  <2>4. EngineStep => (\E asks : Remediate(asks)) \/ UNCHANGED sealed
    BY DEF EngineStep, PlanCycle, BeginVerification, EndCollection, Review, Resume, tablesKept
  <2>5. Cancel \/ Crash \/ UNCHANGED sweepVars => UNCHANGED sealed
    BY DEF Cancel, Crash, sweepVars, tablesKept
  <2> QED
    BY <2>1, <2>2, <2>3, <2>4, <2>5 DEF SweepNext
<1> QED
  BY <1>1, <1>3, <1>4, <1>5, <1>6

\* One job for each cell, all of one attempt of this cycle, are all there is.
LEMMA WholeLemma ==
    ASSUME SweepTypeOK, JobInv, MatrixInv, CallRunsOnce
    PROVE  SweepIsWhole
<1> SUFFICES ASSUME NEW a \in AttemptId, OwnerDone(a), plan.matrix, plan.crew # {}
             PROVE  /\ Cardinality(ScreeningRecords) = Cells
                    /\ {job[j].scope : j \in ScreeningRecords} = Matrix
                    /\ Succeeded(ScreeningRecords)
  BY DEF SweepIsWhole, OwnerDone
<1>1. CellsOf(a)
  BY DEF MatrixInv
<1> DEFINE cell == [s \in Matrix |-> CHOOSE j \in Jobs : job[j].scope = s /\ job[j].state = "succeeded"
                                                        /\ job[j].attempt = a]
<1>2. ASSUME NEW s \in Matrix
      PROVE  /\ cell[s] \in Jobs /\ job[cell[s]].scope = s
             /\ job[cell[s]].state = "succeeded" /\ job[cell[s]].attempt = a
  BY <1>1 DEF CellsOf
<1> HIDE DEF cell
<1>3. ASSUME NEW s \in Matrix PROVE cell[s] \in ScreeningRecords
  BY <1>2 DEF ScreeningRecords, LiveJobs, OwnerDone
<1>4. ASSUME NEW j \in LiveJobs PROVE job[j].cycle = remediations
  <2>1. job[j].cycle <= remediations /\ ~(job[j].cycle < remediations)
    BY DEF LiveJobs, JobInv, JobRow
  <2>2. job[j].cycle \in Nat /\ remediations \in Nat
    BY StoreAssumption DEF LiveJobs, Jobs, SweepTypeOK, StoreTypeOK
  <2> QED
    BY <2>1, <2>2
<1>5. ASSUME NEW j \in ScreeningRecords PROVE job[j].scope \in Matrix /\ j = cell[job[j].scope]
  <2>1. job[j].scope \in Matrix /\ j \in LiveJobs
    BY DEF ScreeningRecords
  <2>2. cell[job[j].scope] \in LiveJobs /\ job[cell[job[j].scope]].scope = job[j].scope
    BY <1>2, <1>3, <2>1 DEF ScreeningRecords
  <2>3. job[j].cycle = job[cell[job[j].scope]].cycle
    BY <1>4, <2>1, <2>2
  <2> QED
    BY <2>1, <2>2, <2>3 DEF CallRunsOnce, LiveJobs
<1>6. cell \in Bijection(Matrix, ScreeningRecords)
  <2>1. cell = [s \in Matrix |-> cell[s]]
    BY DEF cell
  <2>2. cell \in [Matrix -> ScreeningRecords]
    BY <1>3, <2>1
  <2>3. IsInjective(cell)
    BY <1>2, <2>2 DEF IsInjective
  <2>4. \A j \in ScreeningRecords : \E s \in Matrix : cell[s] = j
    BY <1>5
  <2> QED
    BY <2>2, <2>3, <2>4 DEF Bijection, Injection, Surjection
<1>7. IsFiniteSet(Matrix) /\ Cardinality(Matrix) = Cells
  <2>1. Cells \in Int /\ Cells >= 1
    BY SweepAssumption
  <2>2. IsFiniteSet(1..Cells) /\ Cardinality(1..Cells) = IF 1 > Cells THEN 0 ELSE Cells - 1 + 1
    BY <2>1, FS_Interval
  <2> QED
    BY <2>1, <2>2 DEF Matrix
<1>8. Cardinality(ScreeningRecords) = Cells
  <2>1. ExistsBijection(Matrix, ScreeningRecords)
    BY <1>6 DEF ExistsBijection
  <2> QED
    BY <1>7, <2>1, FS_Bijection
<1>9. {job[j].scope : j \in ScreeningRecords} = Matrix
  BY <1>2, <1>3, <1>5
<1>10. Succeeded(ScreeningRecords)
  BY <1>2, <1>5 DEF Succeeded
<1> QED
  BY <1>8, <1>9, <1>10

\* What is granted was granted by the authoriser for a cell, or by the user.
LEMMA GrantsLemma ==
    ASSUME SweepTypeOK, HeldInv, RequestInv, [SweepNext]_sweepVars,
           NEW p \in ApprovalId, approval[p].state = "pending", approval'[p].state = "approved"
    PROVE  \/ \E o \in Collectors : GrantCellScope(o) /\ p = turn[o].row
           \/ registered[p] # "no"
<1>0. approval \in [ApprovalId -> Approvals] /\ approval[p] \in Approvals
  BY DEF SweepTypeOK, StoreTypeOK
<1>1. approval' # approval
  OBVIOUS
<1>2. ASSUME approval' = Retired PROVE FALSE
  BY <1>0, <1>2 DEF Retired, Approvals
<1>3. ASSUME NEW q, NEW a, NEW kind, CreateApproval(q, a, kind) PROVE FALSE
  BY <1>0, <1>3 DEF CreateApproval
<1>4. ASSUME NEW next, TransitionRun(revision, next) PROVE FALSE
  BY <1>1, <1>2, <1>4 DEF TransitionRun
<1>5. ASSUME NEW requested, QuiesceRun(requested) PROVE FALSE
  BY <1>2, <1>5 DEF QuiesceRun
<1>6. ASSUME NEW a, FailCollectStageAndQuiesceRun(a) PROVE FALSE
  BY <1>1, <1>2, <1>6 DEF FailCollectStageAndQuiesceRun
<1>7. ASSUME NEW o \in Collectors, CollectorStep(o) PROVE GrantCellScope(o) /\ p = turn[o].row
  <2>1. CASE BeginCollector(o) \/ AuthorizeReuse(o) \/ BeginSweep(o) \/ RegisterMatrix(o) \/ StopWaiting(o)
             \/ EnterRequest(o) \/ ValidateCapability(o) \/ TakeSlot(o) \/ WorkPolar(o)
             \/ WorkCase(o) \/ Publish(o) \/ Settle(o) \/ ReadCompleted(o) \/ TurnFails(o)
    BY <1>1, <2>1 DEF BeginCollector, BeginStage, AuthorizeReuse, BeginSweep, RegisterMatrix, StopWaiting,
                EnterRequest, ValidateCapability, TakeSlot, WorkPolar, WorkCase, Publish, Settle,
                ReadCompleted, TurnFails, Alone, ServiceKeeps, storeVars
  <2>2. CASE CloseFailed(o) \/ TurnEnds(o)
    BY <1>1, <1>6, <2>2 DEF CloseFailed, TurnEnds, CompleteStage, storeVars
  <2>3. CASE WaitForMatrix(o) \/ MarkWaiting(o)
    BY <1>1, <1>4, <2>3 DEF WaitForMatrix, MarkWaiting, storeVars
  <2>4. CASE AskForMatrix(o) \/ CreateCellScope(o) \/ CreateRequest(o)
    BY <1>1, <1>3, <2>4 DEF AskForMatrix, CreateCellScope, CreateRequest, CreateScoped,
                      ResumeRunAfterApproval, storeVars
  <2>5. CASE BeginJob(o)
    BY <1>1, <2>5 DEF BeginJob, AdmitJob, BeginEngineeringJob, storeVars
  <2>6. CASE GrantCellScope(o)
    BY <1>0, <1>1, <2>6 DEF GrantCellScope, DecideApproval, storeVars
  <2> QED
    BY <1>7, <2>1, <2>2, <2>3, <2>4, <2>5, <2>6 DEF CollectorStep
<1>8. ASSUME NEW o \in Collectors, TurnStep(o) PROVE FALSE
  BY <1>1, <1>6, <1>8 DEF TurnStep, ReplayCall, RetryDenied, LoadRun, Alone, storeVars
<1>9. ASSUME NEW q, RestoreAndAnswer(q) PROVE FALSE
  BY <1>1, <1>9 DEF RestoreAndAnswer, ResumeRunAfterApproval, storeVars
<1>10. ASSUME NEW q \in ApprovalId, NEW d, Decide(q, d) PROVE registered[p] # "no"
  <2>1. registered[q] # "no" /\ DecideActiveApproval(q, d)
    BY <1>10 DEF Decide
  <2>2. p = q
    BY <1>0, <2>1 DEF DecideActiveApproval
  <2> QED
    BY <2>1, <2>2
<1>11. ASSUME EngineStep PROVE FALSE
  <2>1. CASE PlanCycle \/ EndCollection
    BY <1>1, <1>4, <1>5, <2>1 DEF PlanCycle, EndCollection, storeVars
  <2>2. CASE BeginVerification
    BY <1>1, <2>2 DEF BeginVerification, storeVars
  <2>3. CASE Review
    BY <1>1, <1>4, <2>3 DEF Review, BeginStage, CompleteStage
  <2>4. ASSUME NEW asks, Remediate(asks) PROVE FALSE
    BY <1>2, <2>4 DEF Remediate, PrepareResearchRemediation
  <2>5. CASE Resume
    BY <1>1, <1>4, <2>5 DEF Resume, PrepareInterruptedRunForResume
  <2> QED
    BY <1>11, <2>1, <2>2, <2>3, <2>4, <2>5 DEF EngineStep
<1>12. ASSUME Crash PROVE FALSE
  BY <1>0, <1>12 DEF Crash, RecoverInFlight, Pending, Approvals
<1>13. Cancel \/ UNCHANGED sweepVars => FALSE
  BY <1>1 DEF Cancel, sweepVars, storeVars
<1> QED
  BY <1>7, <1>8, <1>9, <1>10, <1>11, <1>12, <1>13 DEF SweepNext

LEMMA ConsentStep ==
    ASSUME SweepTypeOK, HeldInv, RequestInv, [SweepNext]_sweepVars
    PROVE  GrantFollowsConsent
<1> SUFFICES ASSUME NEW p \in ApprovalId, approval[p].state = "pending",
                    approval'[p].state = "approved", registered[p] = "no"
             PROVE  \E q \in ApprovalId :
                      /\ approval[q] = [state |-> "approved", attempt |-> approval[p].attempt,
                                        kind |-> "solver"]
                      /\ scope[q] = 1 /\ q # p
  BY DEF GrantFollowsConsent
<1>1. PICK o \in Collectors : GrantCellScope(o) /\ p = turn[o].row
  BY GrantsLemma
<1>2. RequestRow(o) /\ turn[o].at = "grant"
  BY <1>1 DEF RequestInv, GrantCellScope, At
<1>3. approval[p].attempt = Held(o) /\ ConsentOf(Held(o))
  BY <1>1, <1>2 DEF RequestRow
<1>4. PICK q \in ApprovalId :
        approval[q] = [state |-> "approved", attempt |-> Held(o), kind |-> "solver"] /\ scope[q] = 1
  BY <1>3 DEF ConsentOf
<1>5. q # p
  BY <1>4
<1> QED
  BY <1>3, <1>4, <1>5

-----------------------------------------------------------------------------
(* The theorems. *)

SweepInv ==
    /\ SweepTypeOK /\ PlacesInv /\ HeldInv /\ RequestInv /\ JobInv /\ CallRunsOnce /\ PhaseInv
    /\ MatrixInv /\ ReuseInv /\ ReceiptsAreCurrent

LEMMA SweepInvInit == SweepInit => SweepInv
<1> SUFFICES ASSUME SweepInit PROVE SweepInv
  OBVIOUS
<1>1. SweepTypeOK
  BY SweepTypeInit
<1>2. /\ \A a \in AttemptId : attempt[a] = AbsentAttempt
      /\ \A p \in ApprovalId : approval[p] = AbsentApproval /\ deciding[p] = "no"
      /\ \A o \in Collectors : turn[o] = Resting
      /\ \A j \in JobId : job[j] = AbsentJob
      /\ reuse = {} /\ engine = "plan" /\ status = "planning"
  BY DEF SweepInit
<1>3. PlacesInv
  BY <1>2 DEF PlacesInv, InPlace, AbsentAttempt
<1>4. \A o \in Collectors : turn[o].at = "idle"
  BY <1>2 DEF Resting
<1>5. HeldInv /\ RequestInv
  BY <1>2, <1>4 DEF HeldInv, HeldRow, RequestInv, RequestRow, ByOwner, Executing, Asking
<1>6. Jobs = {}
  BY <1>2 DEF Jobs, AbsentJob
<1>7. JobInv /\ CallRunsOnce
  BY <1>6 DEF JobInv, CallRunsOnce
<1>8. PhaseInv
  BY <1>2, <1>4, ScopesLemma DEF PhaseInv, RestInv, InterruptedInv, PlanningInv, InPlace, InProgress,
                                 AbsentAttempt, Workstreams
<1>9. MatrixInv /\ ReuseInv /\ ReceiptsAreCurrent
  BY <1>2 DEF MatrixInv, OwnerDone, ReuseInv, ReceiptsAreCurrent, AbsentAttempt
<1> QED
  BY <1>1, <1>3, <1>5, <1>7, <1>8, <1>9 DEF SweepInv

LEMMA SweepInvStep == SweepInv /\ [SweepNext]_sweepVars => SweepInv'
<1> SUFFICES ASSUME SweepInv, [SweepNext]_sweepVars PROVE SweepInv'
  OBVIOUS
<1> USE DEF SweepInv
<1>1. SweepTypeOK'
  BY SweepTypeStep
<1>2. PlacesInv'
  BY StoreStep, PlacesStep DEF SweepTypeOK
<1>3. HeldInv' /\ RequestInv'
  BY HeldStep, RequestStep
<1>4. JobInv' /\ CallRunsOnce'
  BY JobStep, CallStep
<1>5. PhaseInv'
  BY PhaseStep
<1>6. MatrixInv' /\ ReuseInv'
  BY MatrixStep, ReuseStep
<1>7. ReceiptsAreCurrent'
  BY ReceiptsStep
<1> QED
  BY <1>1, <1>2, <1>3, <1>4, <1>5, <1>6, <1>7

LEMMA SweepInvAlways == SweepSpec => []SweepInv
  BY SweepInvInit, SweepInvStep, PTL DEF SweepSpec

\* Collectors, router, authoriser, service and engine change the rows of the
\* run repository by its transactions and in no other way.
THEOREM SweepIssuesTransactions == SweepSpec => [][StoreNext]_storeVars
<1>1. SweepInv /\ [SweepNext]_sweepVars => [StoreNext]_storeVars
  BY StoreStep DEF SweepInv
<1> QED
  BY <1>1, SweepInvAlways, PTL DEF SweepSpec

\* The rows of the job, approval and reuse tables, the registrations of the two
\* controllers and the positions of the collectors have their types.
THEOREM SweepIsTyped == SweepSpec => []SweepTypeOK
<1>1. SweepInv => SweepTypeOK
  BY DEF SweepInv
<1> QED
  BY <1>1, SweepInvAlways, PTL

\* A solver process is launched at most once for a call of a research cycle,
\* whatever the number of attempts, approvals and crashes (BeginEngineeringJob
\* of internal/store/engineering.go behind the router and the sweep).
THEOREM SolverCallRunsOnce == SweepSpec => []CallRunsOnce
<1>1. SweepInv => CallRunsOnce
  BY DEF SweepInv
<1> QED
  BY <1>1, SweepInvAlways, PTL

\* A completed owner of a cycle with a matrix has one succeeded job for each
\* cell, and there is no other screening job in the cycle
\* (validatePlannedXFOILScreeningCoverage of internal/research/xfoil_matrix.go).
THEOREM CompletedSweepIsWhole == SweepSpec => []SweepIsWhole
<1>1. SweepInv => SweepIsWhole
  BY WholeLemma DEF SweepInv
<1> QED
  BY <1>1, SweepInvAlways, PTL

\* The case a completed owner rests on is of its own attempt or of the cycle
\* the latest remediation sealed (internal/research/su2_general_acceptance.go,
\* engineering_reuse.go).
THEOREM OwnerRestsOnCurrentReceipts == SweepSpec => []ReceiptsAreCurrent
<1>1. SweepInv => ReceiptsAreCurrent
  BY DEF SweepInv
<1> QED
  BY <1>1, SweepInvAlways, PTL

\* The authoriser grants the cells nobody was shown only after the user approved
\* the cell that stands for the matrix, in the same attempt
\* (internal/approval/core_authorizer.go).
THEOREM CellsFollowConsent == SweepSpec => MatrixNeedsConsent
<1>1. SweepInv /\ [SweepNext]_sweepVars => [GrantFollowsConsent]_sweepVars
  BY ConsentStep DEF SweepInv
<1> QED
  BY <1>1, SweepInvAlways, PTL DEF SweepSpec, MatrixNeedsConsent

-----------------------------------------------------------------------------
(* Release: the runs of an evaluation. *)

RunEndings == {"live", "succeeded", "stopped"}
RunRows ==
    [for : Cases \cup {"live"}, set : Nat, status : RunEndings, rev : Nat, build : Nat,
     in : SUBSET Nat, defect : Defects]
CaseRows ==
    [state : {"not_started", "submitting", "ambiguous", "started", "terminal",
              "submission_failed"},
     run : Nat, status : RunEndings \cup {"none"}, rev : Nat]
JournalRows == [build : Nat, session : Nat, cases : [Cases -> CaseRows]]

LedgerFiles == IsFiniteSet(ledgers) /\ build \in Nat /\ tree \in Nat

EvaluationTypes ==
    /\ LedgerFiles
    /\ app \in [open : BOOLEAN, no : Nat, build : Nat, prepared : Nat]
    /\ runs \in Seq(RunRows) /\ sets \in Seq(JournalRows)
    /\ runner \in [set : {0} \cup DOMAIN sets, post : {"none", "sent", "accepted"}, run : Nat]

\* A run of a journal is of a case the journal has asked for, it is the only
\* one, and it has been worked on since the journal's session at the earliest.
RunIsAskedFor(i) ==
    runs[i].set # 0 =>
        /\ runs[i].set \in DOMAIN sets /\ runs[i].for \in Cases
        /\ sets[runs[i].set].cases[runs[i].for].state # "not_started"
        /\ runs[i].in # {}
        /\ \A s \in runs[i].in : sets[runs[i].set].session <= s /\ s <= app.no
RunsAreAskedFor ==
    /\ \A i \in DOMAIN runs : RunIsAskedFor(i)
    /\ \A i, k \in DOMAIN runs :
          runs[i].set # 0 /\ runs[i].set = runs[k].set /\ runs[i].for = runs[k].for => i = k
    /\ \A n \in DOMAIN sets : sets[n].session <= app.no

\* The case whose submission the runner announced and has not settled; no
\* other is, and its run is not there before the program accepts it.
UnderWay(c) == sets[runner.set].cases[c].state = "submitting"
PostIsSound ==
    /\ runner.set = 0 => runner.post = "none"
    /\ runner.set # 0 =>
         /\ runner.post = "none" => \A c \in Cases : ~UnderWay(c)
         /\ runner.post # "none" => \E c \in Cases : UnderWay(c)
         /\ \A c, d \in Cases : UnderWay(c) /\ UnderWay(d) => c = d
         /\ runner.post = "sent" =>
               \A i \in DOMAIN runs : \A c \in Cases :
                   UnderWay(c) => ~(runs[i].set = runner.set /\ runs[i].for = c)
         /\ runner.post = "accepted" =>
               /\ runner.run \in DOMAIN runs
               /\ runs[runner.run].set = runner.set
               /\ \A c \in Cases : UnderWay(c) => runs[runner.run].for = c
               /\ runs[runner.run].rev >= 1
               /\ runs[runner.run].rev = 1 =>
                     runs[runner.run].in = {sets[runner.set].session}

\* What a journal, or a receipt made of it, says of a case: which run it is,
\* and while that run has not changed since, that it ran in one session.
ItemIsOf(item, n, c) ==
    item.state \in {"started", "terminal"} =>
        /\ item.run \in DOMAIN runs
        /\ runs[item.run].set = n /\ runs[item.run].for = c
        /\ item.rev <= runs[item.run].rev
        /\ item.rev = runs[item.run].rev => runs[item.run].in = {sets[n].session}
ItemsAreSound ==
    \A n \in DOMAIN sets : \A c \in Cases : ItemIsOf(sets[n].cases[c], n, c)

ReceiptIsOf(rr) ==
    /\ rr.set \in DOMAIN sets /\ rr.session = sets[rr.set].session
    /\ rr.cases \in [Cases -> CaseRows]
    /\ \A c \in Cases : ItemIsOf(rr.cases[c], rr.set, c)
ReceiptsAreSound == \A rr \in runnerReceipts : ReceiptIsOf(rr)

\* A run that succeeded is over, so what a passed evaluation found stays true.
PassedIn(e, c) ==
    /\ e.receipt.cases[c].state = "terminal"
    /\ runs[e.receipt.cases[c].run].status = "succeeded"
    /\ runs[e.receipt.cases[c].run].in = {e.receipt.session}
EvaluationIsSound(e) ==
    /\ ReceiptIsOf(e.receipt) /\ e.set = e.receipt.set
    /\ e.sessions \in Nat /\ e.sessions <= app.no /\ e.receipt.session <= e.sessions
    /\ e.passed => \A c \in Cases : PassedIn(e, c)
EvaluationsAreSound == \A e \in evaluations : EvaluationIsSound(e)

EvaluationInv ==
    /\ EvaluationTypes /\ RunsAreAskedFor /\ PostIsSound
    /\ ItemsAreSound /\ ReceiptsAreSound /\ EvaluationsAreSound

-----------------------------------------------------------------------------
(* Tables, and what a step may do to a row. *)

LEMMA RunTables ==
    ASSUME EvaluationTypes
    PROVE  /\ Len(runs) \in Nat /\ DOMAIN runs = 1..Len(runs)
           /\ \A i \in DOMAIN runs : runs[i] \in RunRows
           /\ Len(sets) \in Nat /\ DOMAIN sets = 1..Len(sets)
           /\ \A n \in DOMAIN sets : sets[n] \in JournalRows
           /\ Cases \subseteq Nat /\ "none" \in Defects
BY EvaluationAssumption DEF EvaluationTypes, Cases

LEMMA RowOf ==
    ASSUME NEW S, NEW table \in Seq(S), NEW i \in DOMAIN table
    PROVE  table[i] \in S
BY LenProperties

LEMMA PreparedIsANumber ==
    ASSUME IsFiniteSet(ledgers) PROVE Prepared \in Nat
<1>1. IsFiniteSet({l \in ledgers : l.rev = 1})
  BY FS_Subset
<1> QED
  BY <1>1, FS_CardinalityType DEF Prepared

\* A row keeps what it is of; it changes with a new revision, works on in the
\* session of the time only, and not after it succeeded.
RunMoves(i) ==
    /\ runs'[i].for = runs[i].for /\ runs'[i].set = runs[i].set
    /\ runs'[i].build = runs[i].build
    /\ runs[i].rev <= runs'[i].rev
    /\ runs'[i].rev = runs[i].rev => runs'[i].in = runs[i].in
    /\ runs'[i].in \in {runs[i].in, runs[i].in \cup {app.no}}
    /\ runs[i].status = "succeeded" =>
          runs'[i].status = "succeeded" /\ runs'[i].in = runs[i].in
RunsMove == DOMAIN runs \subseteq DOMAIN runs' /\ \A i \in DOMAIN runs : RunMoves(i)

\* Every row is changed in its own way.
LEMMA ChangedRuns ==
    ASSUME EvaluationTypes,
           runs' = [i \in DOMAIN runs |-> runs'[i]], \A i \in DOMAIN runs : runs'[i] \in RunRows
    PROVE  runs' \in Seq(RunRows) /\ DOMAIN runs' = DOMAIN runs
<1>1. Len(runs) \in Nat /\ DOMAIN runs = 1..Len(runs)
  BY RunTables
<1>2. runs' \in [1..Len(runs) -> RunRows]
  BY <1>1
<1> QED
  BY <1>1, <1>2

LEMMA SameRuns ==
    ASSUME EvaluationTypes, runs' = runs PROVE RunsMove
<1>1. \A i \in DOMAIN runs : runs[i].rev \in Nat
  BY RunTables DEF RunRows
<1> QED
  BY <1>1 DEF RunsMove, RunMoves

\* The program closes.
LEMMA ClosedRuns ==
    ASSUME EvaluationTypes, CloseApp
    PROVE  RunsMove /\ runs' \in Seq(RunRows) /\ DOMAIN runs' = DOMAIN runs
<1>0. \A i \in DOMAIN runs : runs[i] \in RunRows
  BY RunTables
<1>1. ASSUME NEW i \in DOMAIN runs
      PROVE  RunMoves(i) /\ runs'[i] \in RunRows
  <2>0. runs[i] \in RunRows /\ runs[i].rev \in Nat /\ runs[i].rev + 1 \in Nat
    BY <1>0 DEF RunRows
  <2>1. CASE runs[i].status = "live"
    <3> DEFINE row == [runs[i] EXCEPT !.status = "stopped", !.rev = @ + 1]
    <3>3. row \in RunRows
      BY <2>0 DEF RunRows, RunEndings
    <3>1. /\ row.status = "stopped" /\ row.rev = runs[i].rev + 1
          /\ row.for = runs[i].for /\ row.set = runs[i].set /\ row.build = runs[i].build
          /\ row.in = runs[i].in
      BY <2>0 DEF RunRows, RunEndings
    <3>2. runs'[i] = row /\ runs[i].rev \in Nat
      BY <2>0, <2>1 DEF CloseApp, RunRows
    <3> HIDE DEF row
    <3> QED
      BY <2>1, <3>1, <3>2, <3>3 DEF RunMoves
  <2>2. CASE runs[i].status # "live"
    <3>1. runs'[i] = runs[i] /\ runs[i].rev \in Nat
      BY <2>0, <2>2 DEF CloseApp, RunRows
    <3> QED
      BY <2>0, <3>1 DEF RunMoves
  <2> QED
    BY <2>1, <2>2
<1>2. runs' = [i \in DOMAIN runs |-> runs'[i]]
  BY DEF CloseApp
<1>3. runs' \in Seq(RunRows) /\ DOMAIN runs' = DOMAIN runs
  BY <1>1, <1>2, ChangedRuns
<1> QED
  BY <1>1, <1>3 DEF RunsMove

\* One row is replaced by a later one.
LEMMA ChangedRun ==
    ASSUME EvaluationTypes, NEW i \in DOMAIN runs, NEW row \in RunRows,
           runs' = [runs EXCEPT ![i] = row],
           row.for = runs[i].for, row.set = runs[i].set, row.build = runs[i].build,
           row.rev = runs[i].rev + 1, row.in \in {runs[i].in, runs[i].in \cup {app.no}},
           runs[i].status # "succeeded"
    PROVE  RunsMove /\ runs' \in Seq(RunRows) /\ DOMAIN runs' = DOMAIN runs
<1>1. /\ runs \in Seq(RunRows) /\ \A k \in DOMAIN runs : runs[k].rev \in Nat
      /\ i \in 1..Len(runs)
  BY RunTables DEF EvaluationTypes, RunRows
<1>2. runs' \in Seq(RunRows) /\ DOMAIN runs' = DOMAIN runs
  BY <1>1
<1>3. runs'[i] = row /\ \A k \in DOMAIN runs \ {i} : runs'[k] = runs[k]
  BY <1>1
<1>4. ASSUME NEW k \in DOMAIN runs PROVE RunMoves(k)
  BY <1>1, <1>3 DEF RunMoves
<1> QED
  BY <1>2, <1>4 DEF RunsMove

LEMMA EndedRun ==
    ASSUME EvaluationTypes, NEW i \in DOMAIN runs, RunEnds(i) \/ ResumeRun(i)
    PROVE  RunsMove /\ runs' \in Seq(RunRows) /\ DOMAIN runs' = DOMAIN runs
<1>0. /\ runs[i] \in RunRows /\ "none" \in Defects /\ app.no \in Nat
      /\ runs[i].rev \in Nat /\ runs[i].rev + 1 \in Nat
      /\ runs[i].in \cup {app.no} \in SUBSET Nat
  <2>1. runs[i] \in RunRows /\ "none" \in Defects
    BY RunTables
  <2>2. app.no \in Nat
    BY DEF EvaluationTypes
  <2>3. runs[i].rev \in Nat /\ runs[i].in \in SUBSET Nat
    BY <2>1 DEF RunRows
  <2>4. runs[i].rev + 1 \in Nat
    BY <2>3
  <2>5. runs[i].in \cup {app.no} \in SUBSET Nat
    BY <2>2, <2>3
  <2> QED
    BY <2>1, <2>2, <2>3, <2>4, <2>5
<1>1. CASE RunEnds(i)
  <2>1. PICK s \in {"succeeded", "stopped"}, d \in Defects :
            runs' = [runs EXCEPT ![i].status = s, ![i].defect = d, ![i].rev = @ + 1]
    BY <1>1 DEF RunEnds
  <2> DEFINE row == [runs[i] EXCEPT !.status = s, !.defect = d, !.rev = @ + 1]
  <2>4. row \in RunRows
    BY <1>0 DEF RunRows, RunEndings
  <2>2. /\ row.rev = runs[i].rev + 1 /\ row.in = runs[i].in
        /\ row.for = runs[i].for /\ row.set = runs[i].set /\ row.build = runs[i].build
    BY <1>0 DEF RunRows, RunEndings
  <2>3. runs' = [runs EXCEPT ![i] = row] /\ runs[i].status # "succeeded"
    BY <1>1, <2>1 DEF RunEnds
  <2> HIDE DEF row
  <2> QED
    BY <2>2, <2>3, <2>4, ChangedRun
<1>2. CASE ResumeRun(i)
  <2> DEFINE row == [runs[i] EXCEPT !.status = "live", !.rev = @ + 1,
                                    !.in = @ \cup {app.no}]
  <2>4. row \in RunRows
    BY <1>0 DEF RunRows, RunEndings
  <2>2. /\ row.rev = runs[i].rev + 1 /\ row.in = runs[i].in \cup {app.no}
        /\ row.for = runs[i].for /\ row.set = runs[i].set /\ row.build = runs[i].build
    BY <1>0 DEF RunRows, RunEndings
  <2>3. runs' = [runs EXCEPT ![i] = row] /\ runs[i].status # "succeeded"
    BY <1>2 DEF ResumeRun
  <2> HIDE DEF row
  <2> QED
    BY <2>2, <2>3, <2>4, ChangedRun
<1> QED
  BY <1>1, <1>2

\* A run is inserted.
LEMMA InsertedRun ==
    ASSUME EvaluationTypes, NEW for \in Cases \cup {"live"}, NEW set \in Nat,
           runs' = Append(runs, NewRun(for, set))
    PROVE  /\ RunsMove /\ runs' \in Seq(RunRows)
           /\ DOMAIN runs' = DOMAIN runs \cup {Len(runs) + 1}
           /\ Len(runs) + 1 \notin DOMAIN runs /\ Len(runs) + 1 \in Nat
           /\ \A i \in DOMAIN runs : runs'[i] = runs[i]
           /\ runs'[Len(runs) + 1] =
                 [for |-> for, set |-> set, status |-> "live", rev |-> 1,
                  build |-> app.build, in |-> {app.no}, defect |-> "none"]
<1>1. /\ runs \in Seq(RunRows) /\ Len(runs) \in Nat /\ DOMAIN runs = 1..Len(runs)
      /\ app.no \in Nat /\ app.build \in Nat /\ "none" \in Defects
      /\ \A i \in DOMAIN runs : runs[i].rev \in Nat
  BY RunTables DEF EvaluationTypes, RunRows
<1>2. NewRun(for, set) \in RunRows
  BY <1>1 DEF NewRun, RunRows, RunEndings
<1>3. /\ runs' \in Seq(RunRows) /\ DOMAIN runs' = 1..(Len(runs) + 1)
      /\ \A i \in DOMAIN runs : runs'[i] = runs[i]
      /\ runs'[Len(runs) + 1] = NewRun(for, set)
  BY <1>1, <1>2
<1>4. RunsMove
  BY <1>1, <1>3 DEF RunsMove, RunMoves
<1> QED
  BY <1>1, <1>3, <1>4 DEF NewRun

-----------------------------------------------------------------------------
(* What is known of a run stays true. *)

JournalsKeep ==
    /\ DOMAIN sets \subseteq DOMAIN sets'
    /\ \A n \in DOMAIN sets : sets'[n].session = sets[n].session

LEMMA ItemStays ==
    ASSUME EvaluationTypes, RunsMove, runs' \in Seq(RunRows), JournalsKeep,
           NEW n \in DOMAIN sets, NEW c, NEW item \in CaseRows, ItemIsOf(item, n, c)
    PROVE  ItemIsOf(item, n, c)'
<1> SUFFICES ASSUME item.state \in {"started", "terminal"}
             PROVE  ItemIsOf(item, n, c)'
  BY DEF ItemIsOf
<1> DEFINE i == item.run
<1>1. /\ i \in DOMAIN runs /\ runs[i].set = n /\ runs[i].for = c
      /\ item.rev <= runs[i].rev
      /\ item.rev = runs[i].rev => runs[i].in = {sets[n].session}
  BY DEF ItemIsOf
<1>2. /\ i \in DOMAIN runs' /\ RunMoves(i) /\ sets'[n].session = sets[n].session
      /\ item.rev \in Nat /\ runs[i].rev \in Nat
  BY <1>1, RunTables DEF RunsMove, JournalsKeep, CaseRows, RunRows
<1>3. runs'[i].rev \in Nat
  <2>1. runs'[i] \in RunRows
    BY <1>2, RowOf
  <2> QED
    BY <2>1 DEF RunRows
<1> HIDE DEF i
<1>4. /\ runs'[i].set = n /\ runs'[i].for = c /\ item.rev <= runs'[i].rev
      /\ item.rev = runs'[i].rev => runs'[i].in = {sets'[n].session}
  BY <1>1, <1>2, <1>3 DEF RunMoves
<1> QED
  BY <1>2, <1>4 DEF ItemIsOf, i

LEMMA ReceiptStays ==
    ASSUME EvaluationTypes, RunsMove, runs' \in Seq(RunRows), JournalsKeep,
           NEW rr, ReceiptIsOf(rr)
    PROVE  ReceiptIsOf(rr)'
<1>1. /\ rr.set \in DOMAIN sets /\ rr.session = sets[rr.set].session
      /\ rr.cases \in [Cases -> CaseRows]
      /\ \A c \in Cases : ItemIsOf(rr.cases[c], rr.set, c)
  BY DEF ReceiptIsOf
<1>2. rr.set \in DOMAIN sets' /\ rr.session = sets'[rr.set].session
  BY <1>1 DEF JournalsKeep
<1>3. ASSUME NEW c \in Cases PROVE ItemIsOf(rr.cases[c], rr.set, c)'
  <2>1. rr.cases[c] \in CaseRows /\ ItemIsOf(rr.cases[c], rr.set, c)
    BY <1>1
  <2> QED
    BY <1>1, <2>1, ItemStays
<1> QED
  BY <1>1, <1>2, <1>3 DEF ReceiptIsOf

LEMMA EvaluationStays ==
    ASSUME EvaluationTypes, RunsMove, runs' \in Seq(RunRows), JournalsKeep,
           app'.no \in Nat, app.no <= app'.no,
           NEW e, EvaluationIsSound(e)
    PROVE  EvaluationIsSound(e)'
<1>1. /\ ReceiptIsOf(e.receipt)' /\ e.set = e.receipt.set /\ e.sessions \in Nat
      /\ e.sessions <= app'.no /\ e.receipt.session <= e.sessions
  BY ReceiptStays DEF EvaluationIsSound, EvaluationTypes
<1>2. ASSUME NEW c \in Cases, e.passed PROVE PassedIn(e, c)'
  <2>1. PassedIn(e, c) /\ ItemIsOf(e.receipt.cases[c], e.receipt.set, c)
    BY <1>2 DEF EvaluationIsSound, ReceiptIsOf
  <2>2. RunMoves(e.receipt.cases[c].run)
    BY <2>1 DEF PassedIn, ItemIsOf, RunsMove
  <2> QED
    BY <2>1, <2>2 DEF PassedIn, RunMoves
<1> QED
  BY <1>1, <1>2 DEF EvaluationIsSound

LEMMA KnowledgeStays ==
    ASSUME EvaluationInv, RunsMove, runs' \in Seq(RunRows), JournalsKeep,
           app'.no \in Nat, app.no <= app'.no,
           UNCHANGED <<runnerReceipts, evaluations>>
    PROVE  ReceiptsAreSound' /\ EvaluationsAreSound'
<1>1. \A rr \in runnerReceipts : ReceiptIsOf(rr)'
  BY ReceiptStays DEF EvaluationInv, ReceiptsAreSound
<1>2. \A e \in evaluations : EvaluationIsSound(e)'
  BY EvaluationStays DEF EvaluationInv, EvaluationsAreSound
<1> QED
  BY <1>1, <1>2 DEF ReceiptsAreSound, EvaluationsAreSound

-----------------------------------------------------------------------------
(* The program and its runs. *)

LEMMA RunsOnly ==
    ASSUME EvaluationInv, RunsMove, runs' \in Seq(RunRows), DOMAIN runs' = DOMAIN runs,
           LedgerFiles',
           app' \in [open : BOOLEAN, no : Nat, build : Nat, prepared : Nat], app.no <= app'.no,
           UNCHANGED <<sets, runner, runnerReceipts, evaluations>>
    PROVE  EvaluationInv'
<1> USE DEF EvaluationInv
<1>0. /\ app.no \in Nat /\ app'.no \in Nat
      /\ \A i \in DOMAIN runs : /\ RunMoves(i) /\ runs[i].rev \in Nat /\ runs'[i].rev \in Nat
                                /\ runs[i].in \subseteq Nat
      /\ \A n \in DOMAIN sets : sets[n].session \in Nat /\ sets[n].cases \in [Cases -> CaseRows]
  <2>1. app.no \in Nat /\ app'.no \in Nat
    BY DEF EvaluationTypes
  <2>2. ASSUME NEW i \in DOMAIN runs
        PROVE  /\ RunMoves(i) /\ runs[i].rev \in Nat /\ runs'[i].rev \in Nat
               /\ runs[i].in \subseteq Nat
    <3>1. runs[i] \in RunRows /\ runs'[i] \in RunRows
      BY RowOf, RunTables
    <3> QED
      BY <3>1 DEF RunRows, RunsMove
  <2>3. ASSUME NEW n \in DOMAIN sets
        PROVE  sets[n].session \in Nat /\ sets[n].cases \in [Cases -> CaseRows]
    <3>1. sets[n] \in JournalRows
      BY RunTables
    <3> QED
      BY <3>1 DEF JournalRows
  <2> QED
    BY <2>1, <2>2, <2>3
<1>1. JournalsKeep
  BY DEF JournalsKeep
<1>2. EvaluationTypes'
  BY DEF EvaluationTypes
<1>3. RunsAreAskedFor'
  <2>1. ASSUME NEW i \in DOMAIN runs PROVE RunIsAskedFor(i)'
    <3> SUFFICES ASSUME runs'[i].set # 0
                 PROVE  RunIsAskedFor(i)'
      BY DEF RunIsAskedFor
    <3>1. /\ runs'[i].set = runs[i].set /\ runs'[i].for = runs[i].for
          /\ runs'[i].in \in {runs[i].in, runs[i].in \cup {app.no}}
      BY <1>0 DEF RunMoves
    <3>2. /\ runs[i].set \in DOMAIN sets /\ runs[i].for \in Cases
          /\ sets[runs[i].set].cases[runs[i].for].state # "not_started"
          /\ runs[i].in # {}
          /\ \A s \in runs[i].in : sets[runs[i].set].session <= s /\ s <= app.no
          /\ sets[runs[i].set].session <= app.no
      BY <3>1 DEF RunsAreAskedFor, RunIsAskedFor
    <3>3. /\ runs'[i].in # {}
          /\ \A s \in runs'[i].in : sets[runs[i].set].session <= s /\ s <= app'.no
      BY <1>0, <3>1, <3>2
    <3> QED
      BY <3>1, <3>2, <3>3 DEF RunIsAskedFor
  <2> QED
    BY <1>0, <2>1 DEF RunsAreAskedFor, RunMoves
<1>4. PostIsSound'
  <2>1. ASSUME runner.set # 0, runner.post = "accepted", runs'[runner.run].rev = 1
        PROVE  runs'[runner.run].in = {sets[runner.set].session}
    <3>1. /\ runner.run \in DOMAIN runs /\ runs[runner.run].rev >= 1
          /\ runs[runner.run].rev = 1 =>
                    runs[runner.run].in = {sets[runner.set].session}
      BY <2>1 DEF PostIsSound
    <3>2. RunMoves(runner.run) /\ runs[runner.run].rev \in Nat
      BY <1>0, <3>1
    <3> QED
      BY <2>1, <3>1, <3>2 DEF RunMoves
  <2>2. ASSUME runner.set # 0, runner.post = "accepted"
        PROVE  /\ runner.run \in DOMAIN runs' /\ runs'[runner.run].set = runner.set
               /\ \A c \in Cases : UnderWay(c) => runs'[runner.run].for = c
               /\ runs'[runner.run].rev >= 1
    <3>1. /\ runner.run \in DOMAIN runs /\ runs[runner.run].rev >= 1
          /\ runs[runner.run].set = runner.set
          /\ \A c \in Cases : UnderWay(c) => runs[runner.run].for = c
      BY <2>2 DEF PostIsSound
    <3>2. /\ RunMoves(runner.run) /\ runs[runner.run].rev \in Nat
          /\ runs'[runner.run].rev \in Nat
      BY <1>0, <3>1
    <3> QED
      BY <3>1, <3>2 DEF RunMoves
  <2>3. ASSUME runner.set # 0, runner.post = "sent"
        PROVE  \A i \in DOMAIN runs' : \A c \in Cases :
                   UnderWay(c) => ~(runs'[i].set = runner.set /\ runs'[i].for = c)
    BY <1>0, <2>3 DEF PostIsSound, RunMoves
  <2>4. \A c : UnderWay(c)' <=> UnderWay(c)
    BY DEF UnderWay
  <2> QED
    BY <2>1, <2>2, <2>3, <2>4 DEF PostIsSound
<1>5. ItemsAreSound'
  <2>1. ASSUME NEW n \in DOMAIN sets, NEW c \in Cases
        PROVE  ItemIsOf(sets[n].cases[c], n, c)'
    <3>1. sets[n].cases[c] \in CaseRows /\ ItemIsOf(sets[n].cases[c], n, c)
      BY <1>0 DEF ItemsAreSound
    <3>2. \A item \in CaseRows : ItemIsOf(item, n, c) => ItemIsOf(item, n, c)'
      BY <1>1, ItemStays
    <3> QED
      BY <3>1, <3>2 DEF ItemIsOf
  <2> QED
    BY <2>1 DEF ItemsAreSound
<1>6. ReceiptsAreSound' /\ EvaluationsAreSound'
  BY <1>0, <1>1, KnowledgeStays
<1> QED
  BY <1>2, <1>3, <1>4, <1>5, <1>6

LEMMA ProgramStep ==
    ASSUME EvaluationInv, LedgerFiles',
           \/ OpenApp \/ CloseApp
           \/ \E i \in DOMAIN runs : RunEnds(i) \/ ResumeRun(i)
    PROVE  EvaluationInv'
<1>0. /\ app \in [open : BOOLEAN, no : Nat, build : Nat, prepared : Nat] /\ app.no \in Nat
      /\ EvaluationTypes /\ build \in Nat /\ Prepared \in Nat
  BY PreparedIsANumber DEF EvaluationInv, EvaluationTypes, LedgerFiles
<1>1. CASE OpenApp
  <2>1. app' \in [open : BOOLEAN, no : Nat, build : Nat, prepared : Nat] /\ app.no <= app'.no
    BY <1>0, <1>1 DEF OpenApp
  <2>2. RunsMove /\ runs' = runs /\ UNCHANGED <<sets, runner, runnerReceipts, evaluations>>
    BY <1>0, <1>1, SameRuns DEF OpenApp
  <2>3. runs' \in Seq(RunRows)
    BY <1>0, <2>2 DEF EvaluationTypes
  <2> QED
    BY <2>1, <2>2, <2>3, RunsOnly
<1>2. CASE CloseApp
  <2>3. app' = [app EXCEPT !.open = FALSE]
    BY <1>2 DEF CloseApp
  <2>1. app' \in [open : BOOLEAN, no : Nat, build : Nat, prepared : Nat] /\ app.no <= app'.no
    <3>1. app' \in [open : BOOLEAN, no : Nat, build : Nat, prepared : Nat]
      BY <1>0, <2>3
    <3>2. app'.no = app.no
      BY <1>0, <2>3
    <3> QED
      BY <1>0, <3>1, <3>2
  <2>2. UNCHANGED <<sets, runner, runnerReceipts, evaluations>>
    BY <1>2 DEF CloseApp
  <2> QED
    BY <1>0, <1>2, <2>1, <2>2, ClosedRuns, RunsOnly
<1>3. ASSUME NEW i \in DOMAIN runs, RunEnds(i) \/ ResumeRun(i)
      PROVE  EvaluationInv'
  <2>1. app' = app /\ UNCHANGED <<sets, runner, runnerReceipts, evaluations>>
    BY <1>3 DEF RunEnds, ResumeRun
  <2>2. app' \in [open : BOOLEAN, no : Nat, build : Nat, prepared : Nat] /\ app.no <= app'.no
    BY <1>0, <2>1
  <2> QED
    BY <1>0, <1>3, <2>1, <2>2, EndedRun, RunsOnly
<1> QED
  BY <1>1, <1>2, <1>3

-----------------------------------------------------------------------------
(* The runner and its journals. *)

\* The journal's state of one case is recorded.
LEMMA Recorded ==
    ASSUME EvaluationTypes, runner.set # 0, NEW c \in Cases, NEW event \in CaseRows,
           Record(c, event)
    PROVE  /\ sets' \in Seq(JournalRows) /\ DOMAIN sets' = DOMAIN sets
           /\ \A m \in DOMAIN sets : sets'[m].session = sets[m].session
           /\ \A m \in DOMAIN sets, d \in Cases :
                  sets'[m].cases[d] = IF m = runner.set /\ d = c THEN event
                                      ELSE sets[m].cases[d]
<1> DEFINE n == runner.set
           row == [sets[n] EXCEPT !.cases = [@ EXCEPT ![c] = event]]
<1>1. /\ sets \in Seq(JournalRows) /\ n \in 1..Len(sets) /\ DOMAIN sets = 1..Len(sets)
      /\ sets[n] \in JournalRows /\ n \in DOMAIN sets
  BY RunTables DEF EvaluationTypes
<1>2. sets[n].cases \in [Cases -> CaseRows]
  BY <1>1 DEF JournalRows
<1>3. /\ [sets[n].cases EXCEPT ![c] = event] \in [Cases -> CaseRows]
      /\ \A d \in Cases : [sets[n].cases EXCEPT ![c] = event][d] =
                              IF d = c THEN event ELSE sets[n].cases[d]
  BY <1>2
<1>4. row \in JournalRows /\ row.session = sets[n].session
      /\ row.cases = [sets[n].cases EXCEPT ![c] = event]
  BY <1>1, <1>3 DEF JournalRows
<1>5. sets' = [sets EXCEPT ![n] = row]
  BY DEF Record
<1> HIDE DEF row, n
<1>6. /\ sets' \in Seq(JournalRows) /\ DOMAIN sets' = DOMAIN sets
      /\ \A m \in DOMAIN sets : sets'[m] = IF m = n THEN row ELSE sets[m]
  BY <1>1, <1>4, <1>5
<1> QED
  BY <1>3, <1>4, <1>6 DEF n

\* A step of the runner: every state of a case it records is true of its run.
LEMMA RunnerOnly ==
    ASSUME EvaluationInv, LedgerFiles', UNCHANGED <<app, runs, runnerReceipts, evaluations>>,
           sets' \in Seq(JournalRows), JournalsKeep,
           runner' \in [set : {0} \cup DOMAIN sets', post : {"none", "sent", "accepted"},
                        run : Nat],
           PostIsSound',
           \A m \in DOMAIN sets, d \in Cases :
               \/ sets'[m].cases[d] = sets[m].cases[d]
               \/ /\ ItemIsOf(sets'[m].cases[d], m, d)
                  /\ sets'[m].cases[d].state # "not_started",
           \A m \in DOMAIN sets' \ DOMAIN sets :
               /\ sets'[m].session <= app.no
               /\ \A d \in Cases : sets'[m].cases[d] = NotStarted
    PROVE  EvaluationInv'
<1> USE DEF EvaluationInv
<1>1. EvaluationTypes' /\ RunsMove /\ runs' \in Seq(RunRows) /\ app'.no \in Nat /\ app.no <= app'.no
  BY SameRuns DEF EvaluationTypes
<1>2. ReceiptsAreSound' /\ EvaluationsAreSound'
  BY <1>1, KnowledgeStays
<1>3. ItemsAreSound'
  <2>1. ASSUME NEW m \in DOMAIN sets', NEW d \in Cases
        PROVE  ItemIsOf(sets[m].cases[d], m, d)'
    <3>1. CASE m \in DOMAIN sets
      <4>1. ItemIsOf(sets'[m].cases[d], m, d)
        BY <3>1 DEF ItemsAreSound
      <4>2. sets'[m].session = sets[m].session
        BY <3>1 DEF JournalsKeep
      <4> QED
        BY <4>1, <4>2 DEF ItemIsOf
    <3>2. CASE m \notin DOMAIN sets
      <4>1. sets'[m].cases[d].state = "not_started"
        BY <3>2 DEF NotStarted, CaseState
      <4> QED
        BY <4>1 DEF ItemIsOf
    <3> QED
      BY <3>1, <3>2
  <2> QED
    BY <2>1 DEF ItemsAreSound
<1>4. RunsAreAskedFor'
  <2>1. ASSUME NEW i \in DOMAIN runs PROVE RunIsAskedFor(i)'
    <3> SUFFICES ASSUME runs[i].set # 0
                 PROVE  RunIsAskedFor(i)'
      BY DEF RunIsAskedFor
    <3>1. /\ runs[i].set \in DOMAIN sets /\ runs[i].for \in Cases
          /\ sets[runs[i].set].cases[runs[i].for].state # "not_started"
          /\ runs[i].in # {}
          /\ \A s \in runs[i].in : sets[runs[i].set].session <= s /\ s <= app.no
      BY DEF RunsAreAskedFor, RunIsAskedFor
    <3>2. /\ runs[i].set \in DOMAIN sets'
          /\ sets'[runs[i].set].session = sets[runs[i].set].session
          /\ sets'[runs[i].set].cases[runs[i].for].state # "not_started"
      BY <3>1 DEF JournalsKeep
    <3> QED
      BY <3>1, <3>2 DEF RunIsAskedFor
  <2>2. \A n \in DOMAIN sets' : sets'[n].session <= app.no
    BY DEF RunsAreAskedFor, JournalsKeep
  <2> QED
    BY <2>1, <2>2 DEF RunsAreAskedFor
<1> QED
  BY <1>1, <1>2, <1>3, <1>4

\* The first case of the dataset's order not submitted yet is there.
LEMMA NextCaseExists ==
    ASSUME NEW n \in DOMAIN sets, \E c \in Cases : sets[n].cases[c].state = "not_started"
    PROVE  /\ NextCase(sets[n]) \in Cases
           /\ sets[n].cases[NextCase(sets[n])].state = "not_started"
<1> DEFINE T == {c \in Cases : sets[n].cases[c].state = "not_started"}
           R == OpToRel(<, Nat)
<1>0. Cases = 1..CaseCount /\ CaseCount \in Nat
  BY EvaluationAssumption DEF Cases
<1>1. T \subseteq Nat /\ T # {}
  BY <1>0
<1>2. IsWellFoundedOn(R, Nat)
  BY NatLessThanWellFounded
<1>3. PICK c \in T : \A d \in T : ~(<<d, c>> \in R)
  <2> HIDE DEF T, R
  <2> QED
    BY <1>1, <1>2, WFMin
<1>4. \A d \in T : ~(d < c)
  BY <1>1, <1>3 DEF OpToRel
<1>5. \A d \in 1..c - 1 : sets[n].cases[d].state # "not_started"
  <2> SUFFICES ASSUME NEW d \in 1..c - 1, sets[n].cases[d].state = "not_started"
               PROVE  FALSE
    OBVIOUS
  <2>1. d \in T /\ d < c
    BY <1>0, <1>1
  <2> QED
    BY <1>4, <2>1
<1>6. c \in Cases /\ sets[n].cases[c].state = "not_started"
  OBVIOUS
<1> QED
  BY <1>5, <1>6 DEF NextCase

LEMMA CreateStep ==
    ASSUME EvaluationInv, LedgerFiles', CreateJournal PROVE EvaluationInv'
<1> DEFINE n == Len(sets) + 1
           new == [build |-> build, session |-> app.no, cases |-> [c \in Cases |-> NotStarted]]
<1>0. /\ EvaluationTypes /\ app.no \in Nat /\ build \in Nat
      /\ sets \in Seq(JournalRows) /\ Len(sets) \in Nat /\ DOMAIN sets = 1..Len(sets)
  BY RunTables DEF EvaluationInv, EvaluationTypes, LedgerFiles
<1>1. new \in JournalRows /\ new.session = app.no /\ \A d \in Cases : new.cases[d] = NotStarted
  BY <1>0 DEF JournalRows, CaseRows, NotStarted, CaseState
<1>2. /\ sets' = Append(sets, new) /\ runner' \in {[NoRunner EXCEPT !.set = n], NoRunner}
      /\ UNCHANGED <<app, runs, runnerReceipts, evaluations>>
  BY DEF CreateJournal
<1> HIDE DEF new
<1>3. /\ sets' \in Seq(JournalRows) /\ DOMAIN sets' = DOMAIN sets \cup {n} /\ n \notin DOMAIN sets
      /\ \A m \in DOMAIN sets : sets'[m] = sets[m]
      /\ sets'[n] = new
  BY <1>0, <1>1, <1>2
<1>4. JournalsKeep
  BY <1>3 DEF JournalsKeep
<1>5. runner' \in {[set |-> n, post |-> "none", run |-> 0], [set |-> 0, post |-> "none", run |-> 0]}
  BY <1>2 DEF NoRunner
<1>6. runner' \in [set : {0} \cup DOMAIN sets', post : {"none", "sent", "accepted"}, run : Nat]
  BY <1>3, <1>5
<1>7. PostIsSound'
  <2>1. runner'.post = "none" /\ runner'.set \in {n, 0}
    BY <1>5
  <2>2. \A c \in Cases : sets'[n].cases[c].state = "not_started"
    BY <1>1, <1>3 DEF NotStarted, CaseState
  <2>3. runner'.set # 0 => \A c \in Cases : ~UnderWay(c)'
    BY <2>1, <2>2 DEF UnderWay
  <2> QED
    BY <2>1, <2>3 DEF PostIsSound
<1>8. \A m \in DOMAIN sets, d \in Cases : sets'[m].cases[d] = sets[m].cases[d]
  BY <1>3
<1>9. \A m \in DOMAIN sets' \ DOMAIN sets :
          sets'[m].session <= app.no /\ \A d \in Cases : sets'[m].cases[d] = NotStarted
  BY <1>0, <1>1, <1>3
<1> HIDE DEF n
<1> QED
  BY <1>2, <1>3, <1>4, <1>6, <1>7, <1>8, <1>9, RunnerOnly

LEMMA ResumeStep ==
    ASSUME EvaluationInv, LedgerFiles', NEW n \in DOMAIN sets, ResumeJournal(n)
    PROVE  EvaluationInv'
<1> DEFINE cases == [c \in Cases |-> IF sets[n].cases[c].state = "submitting"
                                     THEN Ambiguous ELSE sets[n].cases[c]]
           row == [sets[n] EXCEPT !.cases = cases]
<1>0. /\ EvaluationTypes /\ sets \in Seq(JournalRows) /\ sets[n] \in JournalRows
      /\ n \in 1..Len(sets) /\ DOMAIN sets = 1..Len(sets) /\ Len(sets) \in Nat
  BY RunTables DEF EvaluationInv, EvaluationTypes
<1>1. sets[n].cases \in [Cases -> CaseRows] /\ Ambiguous \in CaseRows
  BY <1>0 DEF JournalRows, CaseRows, Ambiguous, CaseState
<1>2. cases \in [Cases -> CaseRows]
  BY <1>1
<1>3. row \in JournalRows /\ row.session = sets[n].session /\ row.cases = cases
  BY <1>0, <1>2 DEF JournalRows
<1>4. /\ sets' = [sets EXCEPT ![n] = row] /\ runner' = [NoRunner EXCEPT !.set = n]
      /\ UNCHANGED <<app, runs, runnerReceipts, evaluations>>
  BY DEF ResumeJournal, ResolveCrashSubmitting, ResolvedCrash
<1>5. \A c \in Cases : \/ cases[c] = sets[n].cases[c] /\ cases[c].state # "submitting"
                       \/ cases[c] = Ambiguous
  OBVIOUS
<1> HIDE DEF row, cases
<1>6. /\ sets' \in Seq(JournalRows) /\ DOMAIN sets' = DOMAIN sets
      /\ \A m \in DOMAIN sets : sets'[m] = IF m = n THEN row ELSE sets[m]
  BY <1>0, <1>3, <1>4
<1>7. JournalsKeep
  BY <1>3, <1>6 DEF JournalsKeep
<1>8. runner' = [set |-> n, post |-> "none", run |-> 0]
  BY <1>4 DEF NoRunner
<1>9. runner' \in [set : {0} \cup DOMAIN sets', post : {"none", "sent", "accepted"}, run : Nat]
  BY <1>6, <1>8
<1>10. Ambiguous.state = "ambiguous"
  BY DEF Ambiguous, CaseState
<1>11. PostIsSound'
  <2>1. runner'.post = "none" /\ runner'.set = n
    BY <1>8
  <2>2. sets'[n].cases = cases
    BY <1>3, <1>6
  <2>3. \A c \in Cases : ~UnderWay(c)'
    BY <1>5, <1>10, <2>1, <2>2 DEF UnderWay
  <2> QED
    BY <2>1, <2>3 DEF PostIsSound
<1>12. ASSUME NEW m \in DOMAIN sets, NEW d \in Cases
       PROVE  \/ sets'[m].cases[d] = sets[m].cases[d]
              \/ /\ ItemIsOf(sets'[m].cases[d], m, d)
                 /\ sets'[m].cases[d].state # "not_started"
  BY <1>3, <1>5, <1>6, <1>10 DEF ItemIsOf
<1> QED
  BY <1>4, <1>6, <1>7, <1>9, <1>11, <1>12, RunnerOnly

\* A step that records the state of one case of the runner's journal.
LEMMA RecordStep ==
    ASSUME EvaluationInv, LedgerFiles', UNCHANGED <<app, runs, runnerReceipts, evaluations>>,
           runner.set # 0, NEW c \in Cases, NEW event \in CaseRows, Record(c, event),
           ItemIsOf(event, runner.set, c), event.state # "not_started",
           runner'.set = runner.set, runner' \in [set : {runner.set}, post : {"none", "sent", "accepted"}, run : Nat],
           PostIsSound'
    PROVE  EvaluationInv'
<1>1. EvaluationTypes /\ runner.set \in DOMAIN sets
  BY DEF EvaluationInv, EvaluationTypes
<1>2. /\ sets' \in Seq(JournalRows) /\ DOMAIN sets' = DOMAIN sets
      /\ \A m \in DOMAIN sets : sets'[m].session = sets[m].session
      /\ \A m \in DOMAIN sets, d \in Cases :
             sets'[m].cases[d] = IF m = runner.set /\ d = c THEN event ELSE sets[m].cases[d]
  BY <1>1, Recorded
<1>3. JournalsKeep
  BY <1>2 DEF JournalsKeep
<1>4. runner' \in [set : {0} \cup DOMAIN sets', post : {"none", "sent", "accepted"}, run : Nat]
  BY <1>1, <1>2
<1>5. \A m \in DOMAIN sets, d \in Cases :
          \/ sets'[m].cases[d] = sets[m].cases[d]
          \/ ItemIsOf(sets'[m].cases[d], m, d) /\ sets'[m].cases[d].state # "not_started"
  BY <1>2
<1> QED
  BY <1>2, <1>3, <1>4, <1>5, RunnerOnly

\* Which case is under way after a state is recorded.
LEMMA UnderWayAfter ==
    ASSUME EvaluationTypes, runner.set # 0, NEW c \in Cases, NEW event \in CaseRows,
           Record(c, event), runner'.set = runner.set
    PROVE  \A d \in Cases : UnderWay(d)' <=> IF d = c THEN event.state = "submitting" ELSE UnderWay(d)
<1>1. runner.set \in DOMAIN sets
  BY DEF EvaluationTypes
<1> QED
  BY <1>1, Recorded DEF UnderWay

LEMMA IntentStep ==
    ASSUME EvaluationInv, LedgerFiles', SubmitIntent PROVE EvaluationInv'
<1> DEFINE n == runner.set
           c == NextCase(sets[n])
<1>0. /\ EvaluationTypes /\ runner \in [set : {0} \cup DOMAIN sets, post : {"none", "sent", "accepted"}, run : Nat]
      /\ n # 0 /\ runner.post = "none" /\ n \in DOMAIN sets
      /\ \E d \in Cases : sets[n].cases[d].state = "not_started"
      /\ \A d \in Cases : ~UnderWay(d)
  BY DEF SubmitIntent, Driving, Journal, EvaluationInv, EvaluationTypes, PostIsSound
<1>1. c \in Cases /\ sets[n].cases[c].state = "not_started"
  BY <1>0, NextCaseExists
<1>2. /\ Record(c, Submitting) /\ runner' = [runner EXCEPT !.post = "sent"]
      /\ UNCHANGED <<app, runs, runnerReceipts, evaluations>>
  BY DEF SubmitIntent, Journal
<1>3. Submitting \in CaseRows /\ Submitting.state = "submitting"
  BY DEF Submitting, CaseState, CaseRows
<1>4. /\ runner'.set = n /\ runner'.post = "sent"
      /\ runner' \in [set : {n}, post : {"none", "sent", "accepted"}, run : Nat]
  BY <1>0, <1>2
<1> HIDE DEF n, c
<1>5. \A d \in Cases : UnderWay(d)' <=> d = c
  BY <1>0, <1>1, <1>2, <1>3, <1>4, UnderWayAfter DEF n
<1>6. \A i \in DOMAIN runs : ~(runs[i].set = n /\ runs[i].for = c)
  BY <1>0, <1>1 DEF EvaluationInv, RunsAreAskedFor, RunIsAskedFor
<1>7. PostIsSound'
  BY <1>0, <1>1, <1>2, <1>4, <1>5, <1>6 DEF PostIsSound
<1>8. ItemIsOf(Submitting, n, c)
  BY <1>3 DEF ItemIsOf
<1> QED
  BY <1>0, <1>1, <1>2, <1>3, <1>4, <1>7, <1>8, RecordStep DEF n

LEMMA AnswerStep ==
    ASSUME EvaluationInv, LedgerFiles', PostAnswered PROVE EvaluationInv'
<1> DEFINE n == runner.set
           c == Submitted
<1>0. /\ EvaluationTypes /\ runner \in [set : {0} \cup DOMAIN sets, post : {"none", "sent", "accepted"}, run : Nat]
      /\ n # 0 /\ runner.post # "none" /\ n \in DOMAIN sets
      /\ \E d \in Cases : UnderWay(d)
      /\ \A d, f \in Cases : UnderWay(d) /\ UnderWay(f) => d = f
  BY DEF PostAnswered, Driving, EvaluationInv, EvaluationTypes, PostIsSound
<1>1. c \in Cases /\ UnderWay(c) /\ \A d \in Cases : UnderWay(d) => d = c
  <2>1. \E d \in Cases : sets[runner.set].cases[d].state = "submitting"
    BY <1>0 DEF UnderWay
  <2>2. c \in Cases /\ sets[runner.set].cases[c].state = "submitting"
    BY <2>1 DEF Submitted, Journal
  <2> QED
    BY <1>0, <2>2 DEF UnderWay
<1>2. PICK event \in {CaseState("started", runner.run, "live", 1),
                       CaseState("submission_failed", 0, "none", 0), Ambiguous} :
          /\ Record(c, event)
          /\ event.state = "started" => runner.post = "accepted"
          /\ runner' = [NoRunner EXCEPT !.set = n]
          /\ UNCHANGED <<app, runs, runnerReceipts, evaluations>>
  BY DEF PostAnswered, CaseState, Ambiguous
<1>3. /\ event \in CaseRows /\ event.state \in {"started", "submission_failed", "ambiguous"}
      /\ event.state = "started" => event.run = runner.run /\ event.rev = 1
  BY <1>0 DEF CaseRows, CaseState, Ambiguous, RunEndings
<1>4. /\ runner'.set = n /\ runner'.post = "none"
      /\ runner' \in [set : {n}, post : {"none", "sent", "accepted"}, run : Nat]
  BY <1>2 DEF NoRunner
<1> HIDE DEF n, c
<1>5. \A d \in Cases : ~UnderWay(d)'
  BY <1>0, <1>1, <1>2, <1>3, <1>4, UnderWayAfter DEF n
<1>6. PostIsSound'
  BY <1>0, <1>4, <1>5 DEF PostIsSound
<1>7. ItemIsOf(event, n, c)
  <2> SUFFICES ASSUME event.state = "started" PROVE ItemIsOf(event, n, c)
    BY <1>3 DEF ItemIsOf
  <2>1. /\ runner.run \in DOMAIN runs /\ runs[runner.run].set = n
        /\ runs[runner.run].for = c /\ runs[runner.run].rev >= 1
        /\ runs[runner.run].rev = 1 => runs[runner.run].in = {sets[n].session}
    BY <1>0, <1>1, <1>2 DEF EvaluationInv, PostIsSound, n
  <2>2. runs[runner.run].rev \in Nat
    BY <1>0, <2>1, RunTables DEF RunRows
  <2> QED
    BY <1>3, <2>1, <2>2 DEF ItemIsOf
<1> QED
  BY <1>0, <1>1, <1>2, <1>3, <1>4, <1>6, <1>7, RecordStep DEF n

LEMMA PollStep ==
    ASSUME EvaluationInv, LedgerFiles', NEW c \in Cases, PollStarted(c) PROVE EvaluationInv'
<1> DEFINE n == runner.set
           item == sets[n].cases[c]
           run == runs[item.run]
           event == CaseState(IF ObservedTerminal(run.status) THEN "terminal" ELSE "started",
                              item.run, run.status, run.rev)
<1>0. /\ EvaluationTypes /\ runner \in [set : {0} \cup DOMAIN sets, post : {"none", "sent", "accepted"}, run : Nat]
      /\ n # 0 /\ runner.post = "none" /\ n \in DOMAIN sets
      /\ \A d \in Cases : ~UnderWay(d)
      /\ item.state = "started" /\ app.no = sets[n].session
  BY DEF PollStarted, AllSubmitted, Driving, Journal, Reaches, EvaluationInv, EvaluationTypes,
         PostIsSound
<1>1. /\ item.run \in DOMAIN runs /\ run.set = n /\ run.for = c
      /\ run \in RunRows /\ run.in # {}
      /\ \A s \in run.in : sets[n].session <= s /\ s <= app.no
  BY <1>0, RunTables
     DEF EvaluationInv, ItemsAreSound, ItemIsOf, RunsAreAskedFor, RunIsAskedFor
<1>2. /\ Record(c, event) /\ runner' = runner
      /\ UNCHANGED <<app, runs, runnerReceipts, evaluations>>
  BY DEF PollStarted, Journal
<1>3. /\ event \in CaseRows /\ event.state \in {"terminal", "started"}
      /\ event.run = item.run /\ event.rev = run.rev
  <2>1. run.status \in RunEndings /\ run.rev \in Nat
    BY <1>1 DEF RunRows
  <2>2. item.run \in Nat
    BY <1>0, <1>1, RunTables
  <2> HIDE DEF run, item
  <2> QED
    BY <2>1, <2>2 DEF CaseState, CaseRows
<1>4. run.in = {sets[n].session}
  <2>1. run.in \subseteq Nat /\ app.no \in Nat
    BY <1>0, <1>1 DEF RunRows, EvaluationTypes
  <2> HIDE DEF run
  <2> QED
    BY <1>0, <1>1, <2>1
<1>5. ItemIsOf(event, n, c)
  <2>1. run.rev \in Nat
    BY <1>1 DEF RunRows
  <2> HIDE DEF event, item, n
  <2> QED
    BY <1>1, <1>3, <1>4, <2>1 DEF ItemIsOf
<1>6. runner' \in [set : {n}, post : {"none", "sent", "accepted"}, run : Nat] /\ runner'.set = n
  BY <1>0, <1>2
<1> HIDE DEF event, item
<1>7. \A d \in Cases : ~UnderWay(d)'
  BY <1>0, <1>2, <1>3, <1>6, UnderWayAfter
<1>8. PostIsSound'
  BY <1>0, <1>2, <1>6, <1>7 DEF PostIsSound
<1> QED
  BY <1>0, <1>2, <1>3, <1>5, <1>6, <1>8, RecordStep

\* A run is inserted: for the case under way, or for no journal at all.
LEMMA InsertStep ==
    ASSUME EvaluationInv, LedgerFiles', UNCHANGED <<app, sets, runnerReceipts, evaluations>>,
           NEW for \in Cases \cup {"live"}, NEW set \in {0} \cup DOMAIN sets,
           runs' = Append(runs, NewRun(for, set)),
           set # 0 => /\ for \in Cases /\ sets[set].cases[for].state # "not_started"
                      /\ sets[set].session = app.no
                      /\ \A i \in DOMAIN runs : ~(runs[i].set = set /\ runs[i].for = for),
           runner' \in [set : {0} \cup DOMAIN sets, post : {"none", "sent", "accepted"}, run : Nat],
           PostIsSound'
    PROVE  EvaluationInv'
<1>k. PICK k : k = Len(runs) + 1
  OBVIOUS
<1>0. EvaluationTypes /\ app.no \in Nat /\ set \in Nat
  BY RunTables DEF EvaluationInv, EvaluationTypes
<1>1. /\ RunsMove /\ runs' \in Seq(RunRows) /\ DOMAIN runs' = DOMAIN runs \cup {k}
      /\ k \notin DOMAIN runs /\ \A i \in DOMAIN runs : runs'[i] = runs[i]
      /\ runs'[k] = [for |-> for, set |-> set, status |-> "live", rev |-> 1,
                     build |-> app.build, in |-> {app.no}, defect |-> "none"]
  BY <1>k, <1>0, InsertedRun
<1>2. EvaluationTypes'
  BY <1>1 DEF EvaluationInv, EvaluationTypes
<1>3. JournalsKeep
  BY DEF JournalsKeep
<1>4. ReceiptsAreSound' /\ EvaluationsAreSound'
  BY <1>0, <1>1, <1>3, KnowledgeStays
<1>5. ItemsAreSound'
  <2>1. ASSUME NEW n \in DOMAIN sets, NEW c \in Cases
        PROVE  ItemIsOf(sets[n].cases[c], n, c)'
    <3>1. ItemIsOf(sets[n].cases[c], n, c)
      BY DEF EvaluationInv, ItemsAreSound
    <3> QED
      BY <1>1, <3>1 DEF ItemIsOf
  <2> QED
    BY <2>1 DEF ItemsAreSound
<1>6. RunsAreAskedFor'
  <2>1. ASSUME NEW i \in DOMAIN runs PROVE RunIsAskedFor(i)'
    BY <1>1 DEF EvaluationInv, RunsAreAskedFor, RunIsAskedFor
  <2>2. RunIsAskedFor(k)'
    <3>1. runs'[k].set = set /\ runs'[k].for = for /\ runs'[k].in = {app.no}
      BY <1>1
    <3>2. CASE set = 0
      BY <3>1, <3>2 DEF RunIsAskedFor
    <3>3. CASE set # 0
      <4>1. set \in DOMAIN sets /\ app.no <= app.no
        BY <1>0, <3>3
      <4>2. \A s \in {app.no} : sets[set].session <= s /\ s <= app.no
        BY <4>1, <3>3
      <4> QED
        BY <3>1, <3>3, <4>1, <4>2 DEF RunIsAskedFor
    <3> QED
      BY <3>2, <3>3
  <2>3. ASSUME NEW i \in DOMAIN runs', NEW j \in DOMAIN runs',
               runs'[i].set # 0, runs'[i].set = runs'[j].set, runs'[i].for = runs'[j].for
        PROVE  i = j
    BY <1>1, <2>3 DEF EvaluationInv, RunsAreAskedFor
  <2>4. \A n \in DOMAIN sets : sets[n].session <= app.no
    BY DEF EvaluationInv, RunsAreAskedFor
  <2>5. \A i \in DOMAIN runs' : RunIsAskedFor(i)'
    BY <1>1, <2>1, <2>2
  <2> QED
    BY <2>3, <2>4, <2>5 DEF RunsAreAskedFor
<1> QED
  BY <1>2, <1>4, <1>5, <1>6 DEF EvaluationInv

LEMMA AcceptStep ==
    ASSUME EvaluationInv, LedgerFiles', AcceptPost PROVE EvaluationInv'
<1> DEFINE n == runner.set
           c == Submitted
           k == Len(runs) + 1
<1>0. /\ EvaluationTypes /\ runner \in [set : {0} \cup DOMAIN sets, post : {"none", "sent", "accepted"}, run : Nat]
      /\ n # 0 /\ runner.post = "sent" /\ n \in DOMAIN sets
      /\ \E d \in Cases : UnderWay(d)
      /\ \A d, f \in Cases : UnderWay(d) /\ UnderWay(f) => d = f
      /\ \A i \in DOMAIN runs : \A d \in Cases :
            UnderWay(d) => ~(runs[i].set = runner.set /\ runs[i].for = d)
      /\ sets[n].session = app.no
  BY DEF AcceptPost, Reaches, Journal, EvaluationInv, EvaluationTypes, PostIsSound
<1>1. c \in Cases /\ UnderWay(c) /\ \A d \in Cases : UnderWay(d) => d = c
  <2>1. \E d \in Cases : sets[runner.set].cases[d].state = "submitting"
    BY <1>0 DEF UnderWay
  <2>2. c \in Cases /\ sets[runner.set].cases[c].state = "submitting"
    BY <2>1 DEF Submitted, Journal
  <2> QED
    BY <1>0, <2>2 DEF UnderWay
<1>2. /\ runs' = Append(runs, NewRun(c, n))
      /\ runner' = [runner EXCEPT !.post = "accepted", !.run = k]
      /\ UNCHANGED <<app, sets, runnerReceipts, evaluations>>
  BY DEF AcceptPost
<1> HIDE DEF c
<1>3. n \in Nat
  BY <1>0, RunTables
<1>4. /\ DOMAIN runs' = DOMAIN runs \cup {k} /\ k \in Nat
      /\ runs'[k] = [for |-> c, set |-> n, status |-> "live", rev |-> 1,
                     build |-> app.build, in |-> {app.no}, defect |-> "none"]
  BY <1>0, <1>1, <1>2, <1>3, InsertedRun
<1> HIDE DEF k
<1>5. /\ runner'.set = n /\ runner'.post = "accepted" /\ runner'.run = k
      /\ runner' \in [set : {0} \cup DOMAIN sets, post : {"none", "sent", "accepted"}, run : Nat]
  BY <1>0, <1>2, <1>4
<1>6. \A d \in Cases : UnderWay(d)' <=> UnderWay(d)
  BY <1>2, <1>5 DEF UnderWay
<1>7. PostIsSound'
  <2>1. runner'.set # 0 /\ runner'.post = "accepted"
    BY <1>0, <1>5
  <2>2. (\E d \in Cases : UnderWay(d)') /\ \A d, f \in Cases : UnderWay(d)' /\ UnderWay(f)' => d = f
    BY <1>0, <1>6
  <2>3. /\ runner'.run \in DOMAIN runs' /\ runs'[runner'.run].set = runner'.set
        /\ \A d \in Cases : UnderWay(d)' => runs'[runner'.run].for = d
        /\ runs'[runner'.run].rev >= 1
        /\ runs'[runner'.run].in = {sets'[runner'.set].session}
    BY <1>0, <1>1, <1>2, <1>4, <1>5, <1>6
  <2> QED
    BY <2>1, <2>2, <2>3 DEF PostIsSound
<1>8. sets[n].cases[c].state # "not_started"
  BY <1>1 DEF UnderWay
<1>9. \A i \in DOMAIN runs : ~(runs[i].set = n /\ runs[i].for = c)
  BY <1>0, <1>1
<1> HIDE DEF n
<1> QED
  BY <1>0, <1>1, <1>2, <1>5, <1>7, <1>8, <1>9, InsertStep

LEMMA EndRunnerStep ==
    ASSUME EvaluationInv, LedgerFiles',
           runner' = NoRunner, UNCHANGED <<app, runs, sets, evaluations>>,
           \A rr \in runnerReceipts' : rr \in runnerReceipts \/ ReceiptIsOf(rr)
    PROVE  EvaluationInv'
<1> USE DEF EvaluationInv
<1>0. runner'.set = 0 /\ runner'.post = "none" /\ runner'.run = 0
  BY DEF NoRunner
<1>1. EvaluationTypes'
  BY DEF EvaluationTypes, NoRunner
<1>2. PostIsSound'
  BY <1>0 DEF PostIsSound
<1>3. RunsAreAskedFor' /\ ItemsAreSound'
  BY DEF RunsAreAskedFor, RunIsAskedFor, ItemsAreSound, ItemIsOf
<1>4. ASSUME NEW rr, ReceiptIsOf(rr) PROVE ReceiptIsOf(rr)'
  BY <1>4 DEF ReceiptIsOf, ItemIsOf
<1>5. ReceiptsAreSound'
  BY <1>4 DEF ReceiptsAreSound
<1>6. EvaluationsAreSound'
  BY <1>4 DEF EvaluationsAreSound, EvaluationIsSound, PassedIn
<1> QED
  BY <1>1, <1>2, <1>3, <1>5, <1>6

LEMMA FinishSetStep ==
    ASSUME EvaluationInv, LedgerFiles', RunnerDies \/ FinishSet PROVE EvaluationInv'
<1>1. CASE RunnerDies
  BY <1>1, EndRunnerStep DEF RunnerDies
<1>2. CASE FinishSet
  <2> DEFINE n == runner.set
             rr == BuildReceipt(n)
  <2>1. n \in DOMAIN sets /\ EvaluationTypes
    BY <1>2 DEF FinishSet, AllSubmitted, Driving, EvaluationInv, EvaluationTypes
  <2>2. sets[n].cases \in [Cases -> CaseRows]
    BY <2>1, RunTables DEF JournalRows
  <2>3. rr.set = n /\ rr.session = sets[n].session /\ rr.cases = sets[n].cases
    BY DEF BuildReceipt
  <2> HIDE DEF n, rr
  <2>4. ReceiptIsOf(rr)
    BY <2>1, <2>2, <2>3 DEF ReceiptIsOf, EvaluationInv, ItemsAreSound
  <2>5. /\ runnerReceipts' = runnerReceipts \cup {rr} /\ runner' = NoRunner
        /\ UNCHANGED <<app, runs, sets, evaluations>>
    BY <1>2 DEF FinishSet, n, rr
  <2> QED
    BY <2>4, <2>5, EndRunnerStep
<1> QED
  BY <1>1, <1>2

\* The verifier's new evaluation is true of the runs it judges.
LEMMA VerifyStep ==
    ASSUME EvaluationInv, LedgerFiles', NEW l, NEW rr \in runnerReceipts, VerifyRunner(l, rr)
    PROVE  EvaluationInv'
<1> DEFINE passed == \A c \in Cases : CaseHolds(runs[rr.cases[c].run])
           e == [set |-> rr.set, receipt |-> rr, build |-> build, passed |-> passed,
                 prepared |-> Prepared, sessions |-> app.no]
<1>0. /\ EvaluationTypes /\ app.no \in Nat /\ ReceiptIsOf(rr)
      /\ UNCHANGED <<app, runs, sets, runner, runnerReceipts>>
      /\ evaluations' = evaluations \cup {e}
      /\ \A c \in Cases : rr.cases[c].state = "terminal"
      /\ \A c \in Cases : runs[rr.cases[c].run].rev = rr.cases[c].rev
  BY DEF VerifyRunner, RunnerExecutionHolds, AsObserved, SameRow, ReceiptIsLive, Eligible,
         EvaluationInv, EvaluationTypes, ReceiptsAreSound
<1>1. e.set = rr.set /\ e.receipt = rr /\ e.sessions = app.no /\ (e.passed <=> passed)
  OBVIOUS
<1>2. \A c \in Cases : runs[rr.cases[c].run].in = {rr.session}
  BY <1>0 DEF ReceiptIsOf, ItemIsOf
<1>3. passed => \A c \in Cases : runs[rr.cases[c].run].status = "succeeded"
  BY DEF CaseHolds
<1>4. rr.session <= app.no
  BY <1>0 DEF ReceiptIsOf, EvaluationInv, RunsAreAskedFor
<1> HIDE DEF e, passed
<1>5. EvaluationIsSound(e)
  <2>1. e.passed => \A c \in Cases : PassedIn(e, c)
    BY <1>0, <1>1, <1>2, <1>3 DEF PassedIn
  <2> QED
    BY <1>0, <1>1, <1>4, <2>1 DEF EvaluationIsSound
<1>6. /\ EvaluationTypes' /\ PostIsSound' /\ RunsAreAskedFor' /\ ItemsAreSound'
      /\ ReceiptsAreSound'
  <2>1. EvaluationTypes'
    BY <1>0 DEF EvaluationTypes
  <2>2. PostIsSound'
    <3>1. \A c \in Cases : UnderWay(c)' <=> UnderWay(c)
      BY <1>0 DEF UnderWay
    <3> QED
      BY <1>0, <3>1 DEF EvaluationInv, PostIsSound
  <2>3. RunsAreAskedFor'
    BY <1>0 DEF EvaluationInv, RunsAreAskedFor, RunIsAskedFor
  <2>4. ItemsAreSound'
    BY <1>0 DEF EvaluationInv, ItemsAreSound, ItemIsOf
  <2>5. ReceiptsAreSound'
    BY <1>0 DEF EvaluationInv, ReceiptsAreSound, ReceiptIsOf, ItemIsOf
  <2> QED
    BY <2>1, <2>2, <2>3, <2>4, <2>5
<1>7. ASSUME NEW f, EvaluationIsSound(f) PROVE EvaluationIsSound(f)'
  BY <1>0, <1>7 DEF EvaluationIsSound, PassedIn, ReceiptIsOf, ItemIsOf
<1>8. EvaluationsAreSound'
  BY <1>0, <1>5, <1>7 DEF EvaluationsAreSound, EvaluationInv
<1> QED
  BY <1>6, <1>8 DEF EvaluationInv

\* The step that leaves the evaluation alone.
LEMMA EvaluationUnchanged ==
    ASSUME EvaluationInv, LedgerFiles', UNCHANGED evaluationVars
    PROVE  EvaluationInv'
<1>0. UNCHANGED <<app, runs, sets, runner, runnerReceipts, evaluations>>
  BY DEF evaluationVars
<1>1. ASSUME NEW rr, ReceiptIsOf(rr) PROVE ReceiptIsOf(rr)'
  BY <1>0, <1>1 DEF ReceiptIsOf, ItemIsOf
<1>2. ASSUME NEW e, EvaluationIsSound(e) PROVE EvaluationIsSound(e)'
  BY <1>0, <1>1, <1>2 DEF EvaluationIsSound, PassedIn
<1>3. EvaluationTypes' /\ PostIsSound' /\ RunsAreAskedFor' /\ ItemsAreSound'
  <2>1. EvaluationTypes'
    BY <1>0 DEF EvaluationInv, EvaluationTypes
  <2>2. PostIsSound'
    <3>1. \A c \in Cases : UnderWay(c)' <=> UnderWay(c)
      BY <1>0 DEF UnderWay
    <3> QED
      BY <1>0, <3>1 DEF EvaluationInv, PostIsSound
  <2>3. RunsAreAskedFor'
    BY <1>0 DEF EvaluationInv, RunsAreAskedFor, RunIsAskedFor
  <2>4. ItemsAreSound'
    BY <1>0 DEF EvaluationInv, ItemsAreSound, ItemIsOf
  <2> QED
    BY <2>1, <2>2, <2>3, <2>4
<1>4. ReceiptsAreSound' /\ EvaluationsAreSound'
  BY <1>0, <1>1, <1>2 DEF EvaluationInv, ReceiptsAreSound, EvaluationsAreSound
<1> QED
  BY <1>3, <1>4 DEF EvaluationInv

-----------------------------------------------------------------------------
(* Release: the steps of the whole system. *)

\* What the programs that write evidence leave alone.
LEMMA EvidenceStepKeeps ==
    /\ EvaluationNext => UNCHANGED <<required, build, tree, ledgers, tool, admission>>
    /\ CandidateNext => UNCHANGED <<required, build, tree, ledgers, tool, admission>>
    /\ LiveNext => UNCHANGED <<required, build, tree, ledgers, tool, admission>>
<1>1. EvaluationNext => UNCHANGED <<required, build, tree, ledgers, tool, admission>>
  BY DEF EvaluationNext, OpenApp, CloseApp, RunEnds, ResumeRun, CreateJournal, ResumeJournal,
         SubmitIntent, AcceptPost, PostAnswered, PollStarted, RunnerDies, FinishSet,
         VerifyRunner, ledgerVars
<1>2. CandidateNext => UNCHANGED <<required, build, tree, ledgers, tool, admission>>
  BY DEF CandidateNext, BeginLocal, BeginPackaged, BeginFeed, BeginHost, Begin, Observe,
         FinishLocal, FinishPackaged, FinishFeedOrHost, Abandon, ChangesJob, EndsJob
<1>3. LiveNext => UNCHANGED <<required, build, tree, ledgers, tool, admission>>
  BY DEF LiveNext, BeginAuth, AuthStep, FinishAuth, BeginShadow, SubmitReindex, SearchIndex,
         FinalizeShadow, BeginLive, SubmitLiveRun, ObserveLiveRun, QueryAndEdit, FinalizeLive,
         CaptureHostReference, RunCampaign, FinalizeCampaign, Begin, ChangesJob, EndsJob
<1> QED
  BY <1>1, <1>2, <1>3

LEMMA LedgerFilesStay ==
    ASSUME LedgerFiles, [Next]_allVars PROVE LedgerFiles'
<1>1. /\ ledgers' = ledgers \/ \E l : ledgers' = ledgers \cup {l}
      /\ build' \in {build, build + 1} /\ tree' \in {tree, tree + 1}
  <2>1. CASE LedgerNext
    BY <2>1 DEF LedgerNext, Prepare, AttachEvidence, WriteLedger, BeginVerify, VerifyGate,
                FinishVerify, Rebuild, EditSource
  <2>2. CASE ~LedgerNext
    BY <2>2, EvidenceStepKeeps DEF Next, allVars, ledgerVars
  <2> QED
    BY <2>1, <2>2
<1> QED
  BY <1>1, FS_AddElement DEF LedgerFiles

\* The end-to-end run is of no journal.
LEMMA LiveRunStep ==
    ASSUME EvaluationInv, LedgerFiles', SubmitLiveRun PROVE EvaluationInv'
<1>0. /\ EvaluationTypes /\ runs' = Append(runs, NewRun("live", 0))
      /\ UNCHANGED <<app, sets, runner, runnerReceipts, evaluations>>
      /\ runner \in [set : {0} \cup DOMAIN sets, post : {"none", "sent", "accepted"}, run : Nat]
  BY DEF SubmitLiveRun, EvaluationInv, EvaluationTypes
<1>k. PICK k : k = Len(runs) + 1
  OBVIOUS
<1>1. /\ DOMAIN runs' = DOMAIN runs \cup {k} /\ runs'[k].set = 0
      /\ \A i \in DOMAIN runs : runs'[i] = runs[i]
  <2>1. "live" \in Cases \cup {"live"} /\ 0 \in Nat
    OBVIOUS
  <2>2. /\ DOMAIN runs' = DOMAIN runs \cup {Len(runs) + 1}
        /\ \A i \in DOMAIN runs : runs'[i] = runs[i]
        /\ runs'[Len(runs) + 1] = [for |-> "live", set |-> 0, status |-> "live", rev |-> 1,
                     build |-> app.build, in |-> {app.no}, defect |-> "none"]
    BY <1>0, <2>1, InsertedRun
  <2> QED
    BY <1>k, <2>2
<1>2. \A c \in Cases : UnderWay(c)' <=> UnderWay(c)
  BY <1>0 DEF UnderWay
<1>3. PostIsSound'
  BY <1>0, <1>1, <1>2 DEF PostIsSound, EvaluationInv
<1> QED
  BY <1>0, <1>3, InsertStep

LEMMA InitIsSound ==
    ASSUME Init PROVE EvaluationInv
<1>1. /\ app = [open |-> FALSE, no |-> 0, build |-> 0, prepared |-> 0]
      /\ runs = <<>> /\ sets = <<>> /\ runner = [set |-> 0, post |-> "none", run |-> 0]
      /\ runnerReceipts = {} /\ evaluations = {} /\ ledgers = {} /\ build = 1 /\ tree = 1
  BY DEF Init, EvaluationInit, LedgerInit, NoRunner
<1>2. LedgerFiles
  BY <1>1, FS_EmptySet DEF LedgerFiles
<1>3. runs \in Seq(RunRows) /\ sets \in Seq(JournalRows) /\ DOMAIN runs = {} /\ DOMAIN sets = {}
  BY <1>1
<1>4. EvaluationTypes
  BY <1>1, <1>2, <1>3 DEF EvaluationTypes
<1> QED
  BY <1>1, <1>3, <1>4
     DEF EvaluationInv, RunsAreAskedFor, PostIsSound, ItemsAreSound, ReceiptsAreSound,
         EvaluationsAreSound

LEMMA EvaluationStep ==
    ASSUME EvaluationInv, [Next]_allVars PROVE EvaluationInv'
<1>0. LedgerFiles'
  BY LedgerFilesStay DEF EvaluationInv, EvaluationTypes
<1>1. CASE EvaluationNext
  <2>1. CASE OpenApp \/ CloseApp \/ \E i \in DOMAIN runs : RunEnds(i) \/ ResumeRun(i)
    BY <1>0, <2>1, ProgramStep
  <2>2. CASE CreateJournal \/ \E n \in DOMAIN sets : ResumeJournal(n)
    BY <1>0, <2>2, CreateStep, ResumeStep
  <2>3. CASE SubmitIntent \/ AcceptPost \/ PostAnswered
    BY <1>0, <2>3, IntentStep, AcceptStep, AnswerStep
  <2>4. CASE \E c \in Cases : PollStarted(c)
    BY <1>0, <2>4, PollStep
  <2>5. CASE RunnerDies \/ FinishSet
    BY <1>0, <2>5, FinishSetStep
  <2>6. CASE \E l \in ledgers, rr \in runnerReceipts : VerifyRunner(l, rr)
    BY <1>0, <2>6, VerifyStep
  <2> QED
    BY <1>1, <2>1, <2>2, <2>3, <2>4, <2>5, <2>6 DEF EvaluationNext
<1>2. CASE SubmitLiveRun
  BY <1>0, <1>2, LiveRunStep
<1>3. CASE UNCHANGED evaluationVars
  BY <1>0, <1>3, EvaluationUnchanged
<1>4. LiveNext => SubmitLiveRun \/ UNCHANGED evaluationVars
  BY DEF LiveNext, BeginAuth, AuthStep, FinishAuth, BeginShadow, SubmitReindex, SearchIndex,
         FinalizeShadow, BeginLive, ObserveLiveRun, QueryAndEdit, FinalizeLive,
         CaptureHostReference, RunCampaign, FinalizeCampaign, LeavesRuns
<1>5. Next => EvaluationNext \/ SubmitLiveRun \/ UNCHANGED evaluationVars
  BY <1>4 DEF Next
<1>6. EvaluationNext \/ SubmitLiveRun \/ UNCHANGED evaluationVars
  BY <1>5 DEF allVars
<1> QED
  BY <1>1, <1>2, <1>3, <1>6

LEMMA EvaluationAlways == ReleaseSpec => []EvaluationInv
<1>1. Init => EvaluationInv
  BY InitIsSound
<1>2. EvaluationInv /\ [Next]_allVars => EvaluationInv'
  BY EvaluationStep
<1> QED
  BY <1>1, <1>2, PTL DEF ReleaseSpec

\* Of a set that passed, every case has exactly one run in the program's
\* database, whatever number of cases, journals, sessions and runs there are:
\* a submission without a readable answer is never made again
\* (evalrunner/runner.go resolveCrashSubmitting, submitNotStarted).
THEOREM AskedForOnce == ReleaseSpec => []CaseRunsOnce
<1>1. EvaluationInv => CaseRunsOnce
  <2> SUFFICES ASSUME EvaluationInv, NEW e \in evaluations, e.passed, NEW c \in Cases
               PROVE  Cardinality({i \in DOMAIN runs :
                                      runs[i].set = e.set /\ runs[i].for = c}) = 1
    BY DEF CaseRunsOnce
  <2> DEFINE r == e.receipt.cases[c].run
  <2>1. EvaluationIsSound(e) /\ EvaluationTypes /\ RunsAreAskedFor
    BY DEF EvaluationInv, EvaluationsAreSound
  <2>2. /\ e.set \in DOMAIN sets /\ r \in DOMAIN runs
        /\ runs[r].set = e.set /\ runs[r].for = c
    BY <2>1 DEF EvaluationIsSound, PassedIn, ReceiptIsOf, ItemIsOf
  <2>3. e.set # 0
    BY <2>1, <2>2, RunTables
  <2> HIDE DEF r
  <2>4. {i \in DOMAIN runs : runs[i].set = e.set /\ runs[i].for = c} = {r}
    BY <2>1, <2>2, <2>3 DEF RunsAreAskedFor
  <2> QED
    BY <2>4, FS_Singleton
<1> QED
  BY <1>1, EvaluationAlways, PTL

\* The runs of a set that passed ran in the session the runner watched and in
\* no other, although a run that stopped may be resumed at any time and the
\* verifier looks only after the program was closed
\* (evalgate/runner_execution.go VerifyRunnerExecution).
THEOREM WatchedThroughout == ReleaseSpec => []EvaluatedInOneSession
<1>1. EvaluationInv => EvaluatedInOneSession
  BY DEF EvaluationInv, EvaluationsAreSound, EvaluationIsSound, PassedIn,
         EvaluatedInOneSession
<1> QED
  BY <1>1, EvaluationAlways, PTL

-----------------------------------------------------------------------------
(* Release: the producers of evidence, the ledgers and the admission. *)

LiveGates == {"live_auth_exact_models", Shadow, Live}

IsWork(work) ==
    /\ DOMAIN work = {"tip", "build", "tree", "at", "shows", "saw", "with"}
    /\ DOMAIN work.saw = {"builds", "trees"}
    /\ work.build \in Nat /\ work.tree \in Nat /\ work.at \in Nat
    /\ work.saw.builds \subseteq Nat /\ work.saw.trees \subseteq Nat
    /\ work.tip \in ledgers

\* A producer has looked at nothing older than what it sealed at its start;
\* one that watches the program has seen the build of its session only, and
\* one in a virtual machine the package it installed.
SealedWork(g, work) ==
    /\ work.build <= build /\ work.tree <= tree
    /\ g \notin CleanVM =>
          /\ work.tip.build = work.build
          /\ \A b \in work.saw.builds : work.build <= b /\ b <= build
    /\ UsesSourceTree(g) =>
          /\ \A t \in work.saw.trees : work.tree <= t /\ t <= tree
          /\ work.at > 0 => work.saw.trees # {}
SessionWork(g, work) ==
    g \in LiveGates =>
        /\ work.with.session.no \in Nat /\ work.with.session.no <= app.no
        /\ work.with.session.no = app.no => app.build = work.build
        /\ work.saw.builds \subseteq {work.build}
PackageWork(g, work) ==
    g \in CleanVM =>
        /\ DOMAIN work.with = {"package"}
        /\ work.at > 0 => work.saw.builds = {work.with.package}

\* The end-to-end producer: the evaluation it rests on, and its run.
EvaluatedBefore(e, session) ==
    e \in evaluations /\ e.passed /\ e.sessions < session.no
LiveWork(g, work) ==
    g = Live =>
        /\ DOMAIN work.with = {"session", "evaluation", "run", "rev"}
        /\ EvaluatedBefore(work.with.evaluation, work.with.session)
        /\ work.at > 0 =>
              LET run == runs[work.with.run]
              IN  /\ work.with.run \in DOMAIN runs
                  /\ run.build = work.build /\ run.in # {}
                  /\ \A s \in run.in : work.with.session.no <= s /\ s <= app.no
        /\ work.at > 1 =>
              LET run == runs[work.with.run]
              IN  run.status = "succeeded" /\ run.in = {work.with.session.no}

WorkIsSound(g, work) ==
    /\ IsWork(work) /\ SealedWork(g, work) /\ SessionWork(g, work)
    /\ PackageWork(g, work) /\ LiveWork(g, work)
JobsAreSound ==
    /\ DOMAIN jobs = required
    /\ \A g \in required : jobs[g] # NoJob => WorkIsSound(g, jobs[g])

\* What a receipt says was looked at is what it names.
EvidenceIsSound(r) ==
    /\ r.gate \in required /\ r.build \in 1..MaxBuilds
    /\ r.saw.builds \subseteq {r.build}
    /\ UsesSourceTree(r.gate) =>
          /\ r.names["source-tree"] \in Nat /\ r.names["source-tree"] <= tree
          /\ r.saw.trees = {r.names["source-tree"]}
    /\ r.gate = Live =>
          LET run == runs[r.names["run"]]
          IN  /\ EvaluatedBefore(r.names["evaluation"], r.names["session"])
              /\ r.names["run"] \in DOMAIN runs /\ run.status = "succeeded"
              /\ run.build = r.build /\ run.in = {r.names["session"].no}
EvidenceOnFile == \A r \in receipts : EvidenceIsSound(r)

LedgerIsSound(l) ==
    /\ l.prep \in 1..MaxPrepares /\ l.build \in 1..MaxBuilds
    /\ DOMAIN l.rows = required
    /\ \A g \in required :
          l.rows[g] = None \/ (l.rows[g] \in receipts /\ l.rows[g].gate = g)
LedgersAreSound == \A l \in ledgers : LedgerIsSound(l)

\* When a gate that used the source has passed, its tree is no older than the
\* tree of any other row: the tree was then the one the row names.
GateIsVerified(l, g) ==
    /\ l.rows[g] # None /\ l.rows[g].build = l.build
    /\ UsesSourceTree(g) =>
          \A h \in TreeGates : l.rows[h] # None =>
             l.rows[h].names["source-tree"] <= l.rows[g].names["source-tree"]
VerifiedUpTo(l, n) ==
    \A i \in DOMAIN RequiredGates :
        i <= n /\ RequiredGates[i] \in required => GateIsVerified(l, RequiredGates[i])
ToolIsSound ==
    /\ tool # Idle =>
          /\ tool = [mode |-> "verify", build |-> tool.build, ledger |-> tool.ledger,
                     at |-> tool.at]
          /\ tool.ledger \in ledgers /\ tool.at \in Nat
          /\ VerifiedUpTo(tool.ledger, tool.at)
    /\ admission # None =>
          /\ admission.ledger \in ledgers
          /\ \A g \in required : GateIsVerified(admission.ledger, g)

ReleaseTables ==
    /\ required \in Policies /\ build \in 1..MaxBuilds /\ tree \in 1..MaxTrees
    /\ app.build <= build /\ app.no <= MaxSessions

ReleaseInv ==
    /\ EvaluationInv /\ ReleaseTables /\ JobsAreSound /\ EvidenceOnFile
    /\ LedgersAreSound /\ ToolIsSound

-----------------------------------------------------------------------------
(* What a step may do to what the producers rest on. *)

AppMoves ==
    /\ app'.no \in Nat /\ app'.build \in Nat /\ app'.build <= build' /\ app'.no <= MaxSessions
    /\ (app'.no = app.no /\ app'.build = app.build) \/ app.no < app'.no
TablesMove ==
    /\ required' = required /\ ledgers \subseteq ledgers' /\ receipts \subseteq receipts'
    /\ evaluations \subseteq evaluations'
    /\ build <= build' /\ build' \in 1..MaxBuilds /\ tree <= tree' /\ tree' \in 1..MaxTrees
ReleaseMoves == AppMoves /\ TablesMove /\ RunsMove

LEMMA Bounds ==
    /\ MaxBuilds \in Nat /\ MaxTrees \in Nat /\ MaxPrepares \in Nat /\ MaxSessions \in Nat
    /\ MaxRuns \in Nat
BY LedgerAssumption, EvaluationAssumption

LEMMA ReleaseTypes ==
    ASSUME ReleaseInv
    PROVE  /\ build \in Nat /\ tree \in Nat /\ app.no \in Nat /\ app.build \in Nat
           /\ app.open \in BOOLEAN
BY DEF ReleaseInv, ReleaseTables, EvaluationInv, EvaluationTypes

LEMMA AppendedRun ==
    ASSUME EvaluationTypes, NEW row, runs' = Append(runs, row) PROVE RunsMove
<1>1. runs \in Seq(RunRows) /\ \A i \in DOMAIN runs : runs[i].rev \in Nat
  BY RunTables DEF EvaluationTypes, RunRows
<1>2. DOMAIN runs \subseteq DOMAIN runs' /\ \A i \in DOMAIN runs : runs'[i] = runs[i]
  BY <1>1
<1> QED
  BY <1>1, <1>2 DEF RunsMove, RunMoves

LEMMA EvaluationMoves ==
    ASSUME ReleaseInv, EvaluationNext
    PROVE  AppMoves /\ RunsMove /\ evaluations \subseteq evaluations'
<1>0. /\ EvaluationTypes /\ build' = build /\ app.no <= MaxSessions /\ app.build <= build
      /\ build \in Nat /\ MaxSessions \in Nat
      /\ app \in [open : BOOLEAN, no : Nat, build : Nat, prepared : Nat]
  BY EvidenceStepKeeps, Bounds DEF ReleaseInv, ReleaseTables, EvaluationInv, EvaluationTypes
<1>1. CASE OpenApp
  <2>1. runs' = runs /\ evaluations' = evaluations /\ app'.no = app.no + 1 /\ app'.build = build
        /\ app.no < MaxSessions
    BY <1>1 DEF OpenApp
  <2> QED
    BY <1>0, <2>1, SameRuns DEF AppMoves
<1>2. CASE CloseApp
  <2>1. evaluations' = evaluations /\ app'.no = app.no /\ app'.build = app.build
    BY <1>0, <1>2 DEF CloseApp
  <2> QED
    BY <1>0, <1>2, <2>1, ClosedRuns DEF AppMoves
<1>3. CASE app' = app /\ evaluations' = evaluations
           /\ (runs' = runs \/ \E row : runs' = Append(runs, row))
  BY <1>0, <1>3, SameRuns, AppendedRun DEF AppMoves
<1>4. CASE \E i \in DOMAIN runs : RunEnds(i) \/ ResumeRun(i)
  <2>1. app' = app /\ evaluations' = evaluations
    BY <1>4 DEF RunEnds, ResumeRun
  <2> QED
    BY <1>0, <1>4, <2>1, EndedRun DEF AppMoves
<1>5. CASE \E l \in ledgers, rr \in runnerReceipts : VerifyRunner(l, rr)
  <2>1. app' = app /\ runs' = runs /\ evaluations \subseteq evaluations'
    BY <1>5 DEF VerifyRunner
  <2> QED
    BY <1>0, <2>1, SameRuns DEF AppMoves
<1>6. CASE \/ CreateJournal \/ (\E n \in DOMAIN sets : ResumeJournal(n)) \/ SubmitIntent
           \/ AcceptPost \/ PostAnswered \/ (\E c \in Cases : PollStarted(c))
           \/ RunnerDies \/ FinishSet
  BY <1>3, <1>6 DEF CreateJournal, ResumeJournal, SubmitIntent, AcceptPost, PostAnswered,
                    PollStarted, RunnerDies, FinishSet
<1> QED
  BY <1>1, <1>2, <1>4, <1>5, <1>6 DEF EvaluationNext

LEMMA StepMoves ==
    ASSUME ReleaseInv, [Next]_allVars PROVE ReleaseMoves
<1>0. /\ EvaluationTypes /\ build \in Nat /\ tree \in Nat /\ app.no \in Nat /\ app.build \in Nat
      /\ build \in 1..MaxBuilds /\ tree \in 1..MaxTrees /\ app.build <= build
      /\ app.no <= MaxSessions /\ MaxBuilds \in Nat /\ MaxTrees \in Nat
  BY ReleaseTypes, Bounds DEF ReleaseInv, ReleaseTables, EvaluationInv
<1>1. CASE LedgerNext /\ UNCHANGED <<evaluationVars, jobs, index>>
  <2>1. app' = app /\ runs' = runs /\ evaluations' = evaluations
    BY <1>1 DEF evaluationVars
  <2>2. /\ required' = required /\ ledgers \subseteq ledgers' /\ receipts' = receipts
        /\ build' = build \/ (build < MaxBuilds /\ build' = build + 1)
        /\ tree' = tree \/ (tree < MaxTrees /\ tree' = tree + 1)
    BY <1>1 DEF LedgerNext, Prepare, AttachEvidence, WriteLedger, BeginVerify, VerifyGate,
                FinishVerify, Rebuild, EditSource
  <2>3. build <= build' /\ build' \in 1..MaxBuilds /\ tree <= tree' /\ tree' \in 1..MaxTrees
    BY <1>0, <2>2
  <2> QED
    BY <1>0, <2>1, <2>2, <2>3, SameRuns DEF ReleaseMoves, AppMoves, TablesMove
<1>2. ASSUME UNCHANGED <<required, build, tree, ledgers>>, receipts \subseteq receipts',
             AppMoves, RunsMove, evaluations \subseteq evaluations'
      PROVE  ReleaseMoves
  BY <1>0, <1>2 DEF ReleaseMoves, TablesMove
<1>3. CASE EvaluationNext
  <2>1. receipts \subseteq receipts'
    BY <1>3 DEF EvaluationNext, OpenApp, CloseApp, RunEnds, ResumeRun, CreateJournal,
         ResumeJournal, SubmitIntent, AcceptPost, PostAnswered, PollStarted, RunnerDies,
         FinishSet, VerifyRunner, WriteReceipt, ledgerVars
  <2> QED
    BY <1>2, <1>3, <2>1, EvaluationMoves, EvidenceStepKeeps
<1>4. CASE CandidateNext /\ UNCHANGED evaluationVars
  <2>1. receipts \subseteq receipts'
    BY <1>4 DEF CandidateNext, BeginLocal, BeginPackaged, BeginFeed, BeginHost, Begin, Observe,
         FinishLocal, FinishPackaged, FinishFeedOrHost, Abandon, ChangesJob, WriteReceipt
  <2>2. app' = app /\ runs' = runs /\ evaluations' = evaluations /\ build' = build
    BY <1>4, EvidenceStepKeeps DEF evaluationVars
  <2> QED
    BY <1>0, <1>2, <1>4, <2>1, <2>2, SameRuns, EvidenceStepKeeps DEF AppMoves
<1>5. CASE LiveNext
  <2>1. receipts \subseteq receipts'
    BY <1>5 DEF LiveNext, BeginAuth, AuthStep, FinishAuth, BeginShadow, SubmitReindex,
         SearchIndex, FinalizeShadow, BeginLive, SubmitLiveRun, ObserveLiveRun, QueryAndEdit,
         FinalizeLive, CaptureHostReference, RunCampaign, FinalizeCampaign, Begin, ChangesJob,
         WriteReceipt
  <2>2. /\ app' = app /\ evaluations' = evaluations
        /\ runs' = runs \/ \E row : runs' = Append(runs, row)
    BY <1>5 DEF LiveNext, BeginAuth, AuthStep, FinishAuth, BeginShadow, SubmitReindex,
         SearchIndex, FinalizeShadow, BeginLive, SubmitLiveRun, ObserveLiveRun, QueryAndEdit,
         FinalizeLive, CaptureHostReference, RunCampaign, FinalizeCampaign, LeavesRuns,
         evaluationVars
  <2>3. RunsMove
    BY <1>0, <2>2, SameRuns, AppendedRun
  <2>4. build' = build
    BY <1>5, EvidenceStepKeeps
  <2> QED
    BY <1>0, <1>2, <1>5, <2>1, <2>2, <2>3, <2>4, EvidenceStepKeeps DEF AppMoves
<1>6. CASE UNCHANGED allVars
  BY <1>0, <1>2, <1>6, SameRuns DEF allVars, ledgerVars, evaluationVars, AppMoves
<1> QED
  BY <1>1, <1>3, <1>4, <1>5, <1>6 DEF Next

\* A producer's work stays sound while the rest of the system moves on.
LEMMA WorkStays ==
    ASSUME ReleaseInv, ReleaseMoves, NEW g \in required, NEW work, WorkIsSound(g, work)
    PROVE  WorkIsSound(g, work)'
<1>0. /\ build \in Nat /\ tree \in Nat /\ app.no \in Nat /\ app.build \in Nat
      /\ build' \in Nat /\ tree' \in Nat
      /\ IsWork(work) /\ SealedWork(g, work) /\ SessionWork(g, work)
      /\ PackageWork(g, work) /\ LiveWork(g, work)
  BY ReleaseTypes, Bounds DEF ReleaseMoves, TablesMove, WorkIsSound
<1>1. IsWork(work)'
  BY <1>0 DEF IsWork, ReleaseMoves, TablesMove
<1>2. SealedWork(g, work)'
  BY <1>0 DEF SealedWork, IsWork, ReleaseMoves, TablesMove
<1>3. SessionWork(g, work)'
  BY <1>0 DEF SessionWork, ReleaseMoves, AppMoves
<1>4. PackageWork(g, work)'
  BY <1>0 DEF PackageWork
<1>5. LiveWork(g, work)'
  <2> SUFFICES ASSUME g = Live
               PROVE  LiveWork(g, work)'
    BY DEF LiveWork
  <2> DEFINE i == work.with.run
  <2>0. work.with.session.no \in Nat /\ work.with.session.no <= app.no /\ app.no <= app'.no
        /\ app'.no \in Nat
    BY <1>0 DEF SessionWork, LiveGates, ReleaseMoves, AppMoves
  <2>1. EvaluatedBefore(work.with.evaluation, work.with.session)'
    BY <1>0 DEF LiveWork, EvaluatedBefore, ReleaseMoves, TablesMove
  <2>2. ASSUME work.at > 0
        PROVE  /\ i \in DOMAIN runs' /\ runs'[i].build = work.build /\ runs'[i].in # {}
               /\ \A s \in runs'[i].in : work.with.session.no <= s /\ s <= app'.no
               /\ work.at > 1 =>
                    runs'[i].status = "succeeded" /\ runs'[i].in = {work.with.session.no}
    <3>1. /\ i \in DOMAIN runs /\ runs[i].build = work.build /\ runs[i].in # {}
          /\ \A s \in runs[i].in : work.with.session.no <= s /\ s <= app.no
          /\ work.at > 1 =>
               runs[i].status = "succeeded" /\ runs[i].in = {work.with.session.no}
      BY <1>0, <2>2 DEF LiveWork
    <3>2. i \in DOMAIN runs' /\ RunMoves(i)
      BY <3>1 DEF ReleaseMoves, RunsMove
    <3>3. runs[i].in \subseteq Nat
      BY <3>1, RunTables DEF ReleaseInv, EvaluationInv, RunRows
    <3> HIDE DEF i
    <3>4. /\ runs'[i].build = runs[i].build
          /\ runs'[i].in \in {runs[i].in, runs[i].in \cup {app.no}}
          /\ runs[i].status = "succeeded" =>
               runs'[i].status = "succeeded" /\ runs'[i].in = runs[i].in
      BY <3>2 DEF RunMoves
    <3>5. \A s \in runs'[i].in : work.with.session.no <= s /\ s <= app'.no
      <4> SUFFICES ASSUME NEW s \in runs'[i].in
                   PROVE  work.with.session.no <= s /\ s <= app'.no
        OBVIOUS
      <4>1. s \in runs[i].in \/ s = app.no
        BY <3>4
      <4> QED
        BY <1>0, <2>0, <3>1, <3>3, <4>1
    <3> QED
      BY <3>1, <3>2, <3>4, <3>5
  <2>3. DOMAIN work.with = {"session", "evaluation", "run", "rev"} /\ work.at \in Nat
    BY <1>0 DEF LiveWork, IsWork
  <2> QED
    BY <2>1, <2>2, <2>3 DEF LiveWork
<1> QED
  BY <1>1, <1>2, <1>3, <1>4, <1>5 DEF WorkIsSound

\* One producer takes a step, begins or ends; the others wait.
LEMMA OneProducer ==
    ASSUME ReleaseInv, ReleaseMoves, NEW g \in required, NEW work,
           jobs' = [jobs EXCEPT ![g] = work], work # NoJob => WorkIsSound(g, work)'
    PROVE  JobsAreSound'
<1>1. DOMAIN jobs = required /\ required' = required
  BY DEF ReleaseInv, JobsAreSound, ReleaseMoves, TablesMove
<1>2. jobs'[g] = work /\ \A h \in required \ {g} : jobs'[h] = jobs[h]
  BY <1>1
<1>3. ASSUME NEW h \in required, jobs'[h] # NoJob PROVE WorkIsSound(h, jobs[h])'
  <2>1. PICK x : x = jobs'[h]
    OBVIOUS
  <2>2. WorkIsSound(h, x)'
    <3>1. CASE h = g
      BY <1>2, <1>3, <2>1, <3>1
    <3>2. CASE h # g
      BY <1>2, <1>3, <2>1, <3>2, WorkStays DEF ReleaseInv, JobsAreSound
    <3> QED
      BY <3>1, <3>2
  <2> QED
    BY <2>1, <2>2
<1> QED
  BY <1>1, <1>2, <1>3 DEF JobsAreSound

LEMMA NoProducer ==
    ASSUME ReleaseInv, ReleaseMoves, jobs' = jobs PROVE JobsAreSound'
<1>1. ASSUME NEW h \in required, jobs'[h] # NoJob PROVE WorkIsSound(h, jobs[h])'
  <2>1. PICK x : x = jobs'[h]
    OBVIOUS
  <2>2. WorkIsSound(h, x)'
    BY <1>1, <2>1, WorkStays DEF ReleaseInv, JobsAreSound
  <2> QED
    BY <2>1, <2>2
<1>2. DOMAIN jobs = required /\ required' = required
  BY DEF ReleaseInv, JobsAreSound, ReleaseMoves, TablesMove
<1> QED
  BY <1>1, <1>2 DEF JobsAreSound

-----------------------------------------------------------------------------
(* What the producers do to their work. *)

LEMMA GateKinds ==
    ASSUME NEW g
    PROVE  /\ g \in ObservedHere => g \notin LiveGates /\ g \notin CleanVM /\ g # Live
           /\ g \in LiveGates => ~UsesSourceTree(g) /\ g \notin CleanVM
           /\ g \in CleanVM => ~UsesSourceTree(g) /\ g \notin LiveGates /\ g # Live
           /\ UsesSourceTree(g) => g \in LocalGates /\ g # Live
           /\ LocalGates \subseteq ObservedHere
           /\ {"live_auth_exact_models", Shadow, Live} = LiveGates
           /\ "packaged_blackbox" \in ObservedHere /\ "production_update_feed" \in ObservedHere
           /\ "incompatible_su2_host" \in ObservedHere
<1>1. LocalGates = {"local_source_tests", "gate0_windows_host", "rag_50000",
                    "scheduler_recovery"}
  BY DEF LocalGates, RequiredGates
<1> QED
  BY <1>1 DEF ObservedHere, LiveGates, CleanVM, UsesSourceTree, Shadow, Live

LEMMA BegunWork ==
    ASSUME ReleaseInv, ReleaseMoves, UNCHANGED <<build, tree>>,
           NEW g, NEW l \in ledgers, NEW with, NEW work, work = Job(l, with),
           g \notin CleanVM => l.build = build
    PROVE  /\ IsWork(work)' /\ SealedWork(g, work)'
           /\ work.with = with /\ work.at = 0 /\ work.saw.builds = {} /\ work.build = build
           /\ work # NoJob
<1>1. build \in Nat /\ tree \in Nat /\ l \in ledgers'
  BY ReleaseTypes DEF ReleaseMoves, TablesMove
<1>2. /\ work = [tip |-> l, build |-> build, tree |-> tree, at |-> 0, shows |-> {},
                 saw |-> [builds |-> {}, trees |-> {}], with |-> with]
  BY DEF Job, NothingSeen
<1>3. work # NoJob
  <2>1. "at" \in DOMAIN work /\ "at" \notin DOMAIN NoJob
    BY <1>2 DEF NoJob
  <2> QED
    BY <2>1
<1>4. IsWork(work)'
  BY <1>1, <1>2 DEF IsWork
<1>5. SealedWork(g, work)'
  BY <1>1, <1>2 DEF SealedWork
<1> QED
  BY <1>2, <1>3, <1>4, <1>5

Versions(builds, trees) == builds \subseteq Nat /\ trees \subseteq Nat

LEMMA ObservedWork ==
    ASSUME NEW work, IsWork(work), NEW fact, NEW builds, NEW trees, Versions(builds, trees),
           NEW new, new = Observed(work, fact, builds, trees)
    PROVE  /\ IsWork(new) /\ new.tip = work.tip /\ new.build = work.build
           /\ new.tree = work.tree /\ new.with = work.with /\ new.at = work.at + 1
           /\ new.saw.builds = work.saw.builds \cup builds
           /\ new.saw.trees = work.saw.trees \cup trees
<1> DEFINE saw == [work.saw EXCEPT !.builds = @ \cup builds, !.trees = @ \cup trees]
<1>1. new = [work EXCEPT !.at = @ + 1, !.shows = @ \cup {fact}, !.saw = saw]
  BY DEF Observed
<1>2. /\ DOMAIN saw = {"builds", "trees"} /\ saw.builds = work.saw.builds \cup builds
      /\ saw.trees = work.saw.trees \cup trees
  BY DEF IsWork
<1> HIDE DEF saw
<1>3. /\ DOMAIN new = {"tip", "build", "tree", "at", "shows", "saw", "with"}
      /\ new.tip = work.tip /\ new.build = work.build /\ new.tree = work.tree
      /\ new.with = work.with /\ new.at = work.at + 1 /\ new.saw = saw
  BY <1>1 DEF IsWork
<1>4. /\ work.build \in Nat /\ work.tree \in Nat /\ work.at + 1 \in Nat /\ work.tip \in ledgers
      /\ work.saw.builds \cup builds \subseteq Nat /\ work.saw.trees \cup trees \subseteq Nat
  <2>1. /\ work.build \in Nat /\ work.tree \in Nat /\ work.at \in Nat /\ work.tip \in ledgers
        /\ work.saw.builds \subseteq Nat /\ work.saw.trees \subseteq Nat
    BY DEF IsWork
  <2>2. work.at + 1 \in Nat
    BY <2>1
  <2>3. work.saw.builds \cup builds \subseteq Nat
    BY <2>1 DEF Versions
  <2>4. work.saw.trees \cup trees \subseteq Nat
    BY <2>1 DEF Versions
  <2> QED
    BY <2>1, <2>2, <2>3, <2>4
<1>5. /\ new.saw.builds = work.saw.builds \cup builds
      /\ new.saw.trees = work.saw.trees \cup trees
  BY <1>2, <1>3
<1>6. IsWork(new)
  BY <1>2, <1>3, <1>4, <1>5 DEF IsWork
<1> QED
  BY <1>3, <1>5, <1>6

\* The gates observed on the build host.
LEMMA HostObserves ==
    ASSUME ReleaseInv, ReleaseMoves, NEW g \in required, Observe(g) PROVE JobsAreSound'
<1> DEFINE fact == Plan(g)[jobs[g].at + 1]
           builds == IF RunsCandidate(fact) THEN {build} ELSE {}
           trees == IF UsesSourceTree(g) THEN {tree} ELSE {}
<1>1. PICK new : new = Observed(jobs[g], fact, builds, trees)
  OBVIOUS
<1>2. /\ jobs[g] # NoJob /\ g \in ObservedHere /\ UNCHANGED <<build, tree, ledgers>>
      /\ jobs' = [jobs EXCEPT ![g] = new]
  BY <1>1 DEF Observe, Working, ChangesJob
<1>3. /\ build \in Nat /\ tree \in Nat /\ WorkIsSound(g, jobs[g])
      /\ IsWork(jobs[g]) /\ SealedWork(g, jobs[g])
  BY <1>2, ReleaseTypes DEF ReleaseInv, JobsAreSound, WorkIsSound
<1>4. Versions(builds, trees)
  BY <1>3 DEF Versions
<1>5. builds \subseteq {build} /\ trees \subseteq {tree} /\ (UsesSourceTree(g) => trees # {})
  OBVIOUS
<1> HIDE DEF fact, builds, trees
<1>6. /\ IsWork(new) /\ new.tip = jobs[g].tip /\ new.build = jobs[g].build
      /\ new.tree = jobs[g].tree /\ new.at = jobs[g].at + 1
      /\ new.saw.builds = jobs[g].saw.builds \cup builds
      /\ new.saw.trees = jobs[g].saw.trees \cup trees
  BY <1>1, <1>3, <1>4, ObservedWork
<1>7. IsWork(new)'
  BY <1>2, <1>6 DEF IsWork
<1>8. SealedWork(g, new)'
  <2>1. new.build <= build' /\ new.tree <= tree'
    BY <1>2, <1>3, <1>6 DEF SealedWork
  <2>2. ASSUME g \notin CleanVM
        PROVE  new.tip.build = new.build
               /\ \A b \in new.saw.builds : new.build <= b /\ b <= build'
    <3>1. /\ jobs[g].tip.build = jobs[g].build /\ jobs[g].build <= build
          /\ \A b \in jobs[g].saw.builds : jobs[g].build <= b /\ b <= build
      BY <1>3, <2>2 DEF SealedWork
    <3>2. ASSUME NEW b \in new.saw.builds PROVE new.build <= b /\ b <= build'
      <4>1. b \in jobs[g].saw.builds \/ b = build
        BY <1>5, <1>6
      <4> QED
        BY <1>2, <1>3, <1>6, <3>1, <4>1
    <3> QED
      BY <1>6, <3>1, <3>2
  <2>3. ASSUME UsesSourceTree(g)
        PROVE  /\ \A t \in new.saw.trees : new.tree <= t /\ t <= tree'
               /\ new.at > 0 => new.saw.trees # {}
    <3>1. /\ jobs[g].tree <= tree
          /\ \A t \in jobs[g].saw.trees : jobs[g].tree <= t /\ t <= tree
      BY <1>3, <2>3 DEF SealedWork
    <3>2. ASSUME NEW t \in new.saw.trees PROVE new.tree <= t /\ t <= tree'
      <4>1. t \in jobs[g].saw.trees \/ t = tree
        BY <1>5, <1>6
      <4> QED
        BY <1>2, <1>3, <1>6, <3>1, <4>1
    <3>3. new.saw.trees # {}
      BY <1>5, <1>6, <2>3
    <3> QED
      BY <3>2, <3>3
  <2> QED
    BY <2>1, <2>2, <2>3 DEF SealedWork
<1>9. SessionWork(g, new)' /\ PackageWork(g, new)' /\ LiveWork(g, new)'
  BY <1>2, GateKinds DEF SessionWork, PackageWork, LiveWork
<1>10. WorkIsSound(g, new)'
  BY <1>7, <1>8, <1>9 DEF WorkIsSound
<1> QED
  BY <1>2, <1>10, OneProducer

LEMMA BoundLedger ==
    ASSUME NEW g, NEW l, NEW with, Begin(g, l, with)
    PROVE  /\ g \in required /\ l.build = build /\ UNCHANGED <<build, tree>>
           /\ jobs' = [jobs EXCEPT ![g] = Job(l, with)]
BY DEF Begin, LedgerBound, ChangesJob

LEMMA EndedWork ==
    ASSUME ReleaseInv, ReleaseMoves, NEW g \in required, EndsJob(g) PROVE JobsAreSound'
BY OneProducer DEF EndsJob

LEMMA CandidateJobs ==
    ASSUME ReleaseInv, ReleaseMoves, CandidateNext PROVE JobsAreSound'
<1>1. ASSUME NEW g \in ObservedHere, NEW l \in ledgers, Begin(g, l, None)
      PROVE  JobsAreSound'
  <2>1. PICK work : work = Job(l, None)
    OBVIOUS
  <2>2. /\ g \in required /\ l.build = build /\ UNCHANGED <<build, tree>>
        /\ jobs' = [jobs EXCEPT ![g] = work]
    BY <1>1, <2>1, BoundLedger
  <2>3. IsWork(work)' /\ SealedWork(g, work)'
    BY <2>1, <2>2, BegunWork
  <2>4. SessionWork(g, work)' /\ PackageWork(g, work)' /\ LiveWork(g, work)'
    BY GateKinds DEF SessionWork, PackageWork, LiveWork
  <2>5. WorkIsSound(g, work)'
    BY <2>3, <2>4 DEF WorkIsSound
  <2> QED
    BY <2>2, <2>5, OneProducer
<1>2. CASE \E l \in ledgers : \/ \E g \in LocalGates : BeginLocal(g, l)
                              \/ BeginPackaged(l) \/ BeginFeed(l) \/ BeginHost(l)
  BY <1>1, <1>2, GateKinds DEF BeginLocal, BeginPackaged, BeginFeed, BeginHost
<1>3. CASE \E g \in required : Observe(g)
  BY <1>3, HostObserves
<1>4. CASE \E g \in required : EndsJob(g)
  BY <1>4, EndedWork
<1> QED
  BY <1>2, <1>3, <1>4
     DEF CandidateNext, FinishLocal, FinishFeedOrHost, Abandon, FinishPackaged

\* The gates observed in a session of the program.
LEMMA SessionObserves ==
    ASSUME ReleaseInv, ReleaseMoves, UNCHANGED <<build, tree, ledgers, app>>,
           NEW g \in LiveGates, g \in required, jobs[g] # NoJob, StillThere(jobs[g]),
           NEW fact, NEW new, new = Observed(jobs[g], fact, {app.build}, {})
    PROVE  /\ IsWork(new)' /\ SealedWork(g, new)' /\ SessionWork(g, new)'
           /\ PackageWork(g, new)'
           /\ new.with = jobs[g].with /\ new.at = jobs[g].at + 1
           /\ new.build = jobs[g].build /\ app.build = jobs[g].build
           /\ jobs[g].with.session.no = app.no
<1>1. /\ build \in Nat /\ tree \in Nat /\ app.build \in Nat
      /\ IsWork(jobs[g]) /\ SealedWork(g, jobs[g]) /\ SessionWork(g, jobs[g])
  BY ReleaseTypes DEF ReleaseInv, JobsAreSound, WorkIsSound
<1>2. app.build = jobs[g].build /\ jobs[g].with.session.no = app.no
  BY <1>1 DEF SessionWork, StillThere
<1> DEFINE builds == {app.build}
           trees == {}
<1>3. Versions(builds, trees) /\ new = Observed(jobs[g], fact, builds, trees)
  BY <1>1 DEF Versions
<1>b. builds = {app.build}
  OBVIOUS
<1> HIDE DEF builds, trees
<1>4. /\ IsWork(new) /\ new.tip = jobs[g].tip /\ new.build = jobs[g].build
      /\ new.tree = jobs[g].tree /\ new.with = jobs[g].with /\ new.at = jobs[g].at + 1
      /\ new.saw.builds = jobs[g].saw.builds \cup builds
  <2>1. IsWork(jobs[g])
    BY <1>1
  <2> QED
    BY ONLY <1>3, <2>1, ObservedWork
<1>5. IsWork(new)'
  BY <1>4 DEF IsWork
<1>6. g \notin CleanVM /\ ~UsesSourceTree(g)
  BY GateKinds
<1>7. SealedWork(g, new)'
  <2>1. /\ jobs[g].tip.build = jobs[g].build /\ jobs[g].build <= build /\ jobs[g].tree <= tree
        /\ \A b \in jobs[g].saw.builds : jobs[g].build <= b /\ b <= build
    BY <1>1, <1>6 DEF SealedWork
  <2>2. ASSUME NEW b \in new.saw.builds PROVE new.build <= b /\ b <= build'
    <3>1. b \in jobs[g].saw.builds \/ b = app.build
      BY <1>4, <1>b
    <3> QED
      BY <1>1, <1>2, <1>4, <2>1, <3>1
  <2> QED
    BY <1>4, <1>6, <2>1, <2>2 DEF SealedWork
<1>8. SessionWork(g, new)'
  BY <1>1, <1>2, <1>4, <1>b DEF SessionWork
<1>9. PackageWork(g, new)'
  BY <1>6 DEF PackageWork
<1> QED
  BY <1>2, <1>4, <1>5, <1>7, <1>8, <1>9

LEMMA SessionBegins ==
    ASSUME ReleaseInv, ReleaseMoves, UNCHANGED app, SessionBound,
           NEW g \in LiveGates, NEW l \in ledgers, NEW with, with.session = app,
           Begin(g, l, with), NEW work, work = Job(l, with), LiveWork(g, work)'
    PROVE  JobsAreSound'
<1>1. /\ g \in required /\ l.build = build /\ UNCHANGED <<build, tree>>
      /\ jobs' = [jobs EXCEPT ![g] = work]
  BY BoundLedger
<1>2. /\ IsWork(work)' /\ SealedWork(g, work)' /\ work.with = with /\ work.saw.builds = {}
      /\ work.build = build
  <2>1. IsWork(work)' /\ SealedWork(g, work)'
    BY <1>1, BegunWork
  <2>2. work.with = with /\ work.saw.builds = {} /\ work.build = build
    BY DEF Job, NothingSeen
  <2> QED
    BY <2>1, <2>2
<1>3. SessionWork(g, work)'
  BY <1>2, ReleaseTypes DEF SessionWork, SessionBound
<1>4. PackageWork(g, work)'
  BY GateKinds DEF PackageWork
<1>5. WorkIsSound(g, work)'
  BY <1>2, <1>3, <1>4 DEF WorkIsSound
<1> QED
  BY <1>1, <1>5, OneProducer

LEMMA LiveKeeps ==
    ASSUME LiveNext
    PROVE  UNCHANGED <<build, tree, ledgers, app, evaluations>>
<1>1. UNCHANGED <<app, evaluations>>
  BY DEF LiveNext, BeginAuth, AuthStep, FinishAuth, BeginShadow, SubmitReindex, SearchIndex,
         FinalizeShadow, BeginLive, SubmitLiveRun, ObserveLiveRun, QueryAndEdit, FinalizeLive,
         CaptureHostReference, RunCampaign, FinalizeCampaign, LeavesRuns, evaluationVars
<1> QED
  BY <1>1, EvidenceStepKeeps

\* The observations of the account and of the index.
LEMMA SessionLooks ==
    ASSUME ReleaseInv, ReleaseMoves, LiveNext, NEW g \in LiveGates, g \in required, g # Live,
           jobs[g] # NoJob, StillThere(jobs[g]), NEW fact, LiveStep(g, fact)
    PROVE  JobsAreSound'
<1>1. PICK new : new = Observed(jobs[g], fact, {app.build}, {})
  OBVIOUS
<1>2. UNCHANGED <<build, tree, ledgers, app>> /\ jobs' = [jobs EXCEPT ![g] = new]
  BY <1>1, LiveKeeps DEF LiveStep
<1>3. IsWork(new)' /\ SealedWork(g, new)' /\ SessionWork(g, new)' /\ PackageWork(g, new)'
  BY <1>1, <1>2, SessionObserves
<1>4. LiveWork(g, new)'
  BY DEF LiveWork
<1>5. WorkIsSound(g, new)'
  BY <1>3, <1>4 DEF WorkIsSound
<1> QED
  BY <1>2, <1>5, OneProducer

\* What the end-to-end producer remembers besides what it observes.
LEMMA LiveWorkKept ==
    ASSUME ReleaseInv, ReleaseMoves, LiveNext, Live \in required, jobs[Live] # NoJob,
           NEW work, IsWork(work)', SealedWork(Live, work)', SessionWork(Live, work)',
           PackageWork(Live, work)', work.with = jobs[Live].with,
           NEW with, with.session = work.with.session,
           with.evaluation = work.with.evaluation,
           DOMAIN with = {"session", "evaluation", "run", "rev"},
           work.at > 0, with.run \in DOMAIN runs', runs'[with.run].build = work.build,
           runs'[with.run].in = {with.session.no},
           work.at > 1 => runs'[with.run].status = "succeeded",
           NEW new, new = [work EXCEPT !.with = with],
           jobs' = [jobs EXCEPT ![Live] = new]
    PROVE  JobsAreSound'
<1>1. /\ DOMAIN new = {"tip", "build", "tree", "at", "shows", "saw", "with"}
      /\ new.tip = work.tip /\ new.build = work.build /\ new.tree = work.tree
      /\ new.at = work.at /\ new.saw = work.saw /\ new.with = with
  BY DEF IsWork
<1>2. IsWork(new)'
  BY <1>1 DEF IsWork
<1>3. Live \in LiveGates /\ Live \notin CleanVM /\ ~UsesSourceTree(Live)
  BY GateKinds
<1>4. SealedWork(Live, new)' /\ SessionWork(Live, new)' /\ PackageWork(Live, new)'
  BY <1>1, <1>3 DEF SealedWork, SessionWork, PackageWork
<1>5. /\ with.session.no \in Nat /\ with.session.no <= app'.no
      /\ EvaluatedBefore(with.evaluation, with.session)'
  <2>1. WorkIsSound(Live, jobs[Live])
    BY DEF ReleaseInv, JobsAreSound
  <2>2. EvaluatedBefore(work.with.evaluation, work.with.session)
    BY <2>1 DEF WorkIsSound, LiveWork
  <2>3. EvaluatedBefore(with.evaluation, with.session)
    BY <2>2 DEF EvaluatedBefore
  <2>4. work.with.session.no \in Nat /\ work.with.session.no <= app'.no
    BY <1>3 DEF SessionWork
  <2> QED
    BY <2>3, <2>4 DEF EvaluatedBefore, ReleaseMoves, TablesMove
<1>6. LiveWork(Live, new)'
  BY <1>1, <1>5 DEF LiveWork
<1>7. WorkIsSound(Live, new)'
  BY <1>2, <1>4, <1>6 DEF WorkIsSound
<1> QED
  BY <1>7, OneProducer

LEMMA LiveLooks ==
    ASSUME ReleaseInv, ReleaseMoves, LiveNext, Live \in required, jobs[Live] # NoJob,
           StillThere(jobs[Live]),
           \/ SubmitLiveRun \/ ObserveLiveRun \/ QueryAndEdit
    PROVE  JobsAreSound'
<1> DEFINE old == jobs[Live]
           with == old.with
<1>0. Live \in LiveGates /\ UNCHANGED <<build, tree, ledgers, app>>
  BY GateKinds, LiveKeeps
<1>1. /\ WorkIsSound(Live, old) /\ LiveWork(Live, old) /\ IsWork(old)
      /\ DOMAIN with = {"session", "evaluation", "run", "rev"} /\ old.at \in Nat
      /\ app.no \in Nat
  BY ReleaseTypes DEF ReleaseInv, JobsAreSound, WorkIsSound, LiveWork, IsWork
<1>2. ASSUME NEW fact, NEW work, work = Observed(old, fact, {app.build}, {})
      PROVE  /\ IsWork(work)' /\ SealedWork(Live, work)' /\ SessionWork(Live, work)'
             /\ PackageWork(Live, work)'
             /\ work.with = with /\ work.at = old.at + 1
             /\ work.build = old.build /\ app.build = old.build
             /\ with.session.no = app.no
  BY <1>0, <1>2, SessionObserves
<1>3. CASE SubmitLiveRun
  <2>1. PICK work : work = Observed(old, "submitted", {app.build}, {})
    OBVIOUS
  <2>2. PICK k : k = Len(runs) + 1
    OBVIOUS
  <2>3. PICK w : w = [with EXCEPT !.run = k]
    OBVIOUS
  <2>4. PICK new : new = [work EXCEPT !.with = w]
    OBVIOUS
  <2>5. /\ IsWork(work)' /\ SealedWork(Live, work)' /\ SessionWork(Live, work)'
        /\ PackageWork(Live, work)' /\ work.with = with /\ work.at = old.at + 1
        /\ work.build = old.build /\ app.build = old.build /\ with.session.no = app.no
    BY <1>2, <2>1
  <2>6. /\ old.at = 0 /\ runs' = Append(runs, NewRun("live", 0))
        /\ jobs' = [jobs EXCEPT ![Live] = new]
    <3>1. new = [work EXCEPT !.with.run = k]
      BY <2>3, <2>4, <2>5
    <3> QED
      BY <1>3, <2>1, <2>2, <3>1 DEF SubmitLiveRun
  <2>7. /\ DOMAIN w = {"session", "evaluation", "run", "rev"} /\ w.run = k
        /\ w.session = with.session /\ w.evaluation = with.evaluation
    BY <1>1, <2>3
  <2>8. k \in DOMAIN runs' /\ runs'[k].build = app.build /\ runs'[k].in = {app.no}
    <3>1. EvaluationTypes /\ "live" \in Cases \cup {"live"} /\ 0 \in Nat
      BY DEF ReleaseInv, EvaluationInv
    <3>2. /\ DOMAIN runs' = DOMAIN runs \cup {k}
          /\ runs'[k] = [for |-> "live", set |-> 0, status |-> "live", rev |-> 1,
                         build |-> app.build, in |-> {app.no}, defect |-> "none"]
      BY <2>2, <2>6, <3>1, InsertedRun
    <3> QED
      BY <3>2
  <2>9. work.at > 0 /\ ~(work.at > 1)
    BY <2>5, <2>6
  <2> HIDE DEF old, with
  <2> QED
    BY <2>4, <2>5, <2>6, <2>7, <2>8, <2>9, LiveWorkKept DEF old, with
<1>4. CASE ObserveLiveRun
  <2>1. PICK work : work = Observed(old, "succeeded", {app.build}, {})
    OBVIOUS
  <2>2. PICK w : w = [with EXCEPT !.rev = runs[with.run].rev]
    OBVIOUS
  <2>3. PICK new : new = [work EXCEPT !.with = w]
    OBVIOUS
  <2>4. /\ IsWork(work)' /\ SealedWork(Live, work)' /\ SessionWork(Live, work)'
        /\ PackageWork(Live, work)' /\ work.with = with /\ work.at = old.at + 1
        /\ work.build = old.build /\ with.session.no = app.no
    BY <1>2, <2>1
  <2>5. /\ old.at = 1 /\ runs[with.run].status = "succeeded" /\ runs' = runs
        /\ jobs' = [jobs EXCEPT ![Live] = new]
    <3>1. new = [work EXCEPT !.with.rev = runs[with.run].rev]
      BY <2>2, <2>3, <2>4
    <3> QED
      BY <1>4, <2>1, <3>1 DEF ObserveLiveRun, LeavesRuns, evaluationVars
  <2>6. /\ DOMAIN w = {"session", "evaluation", "run", "rev"} /\ w.run = with.run
        /\ w.session = with.session /\ w.evaluation = with.evaluation
    BY <1>1, <2>2
  <2>7. /\ w.run \in DOMAIN runs' /\ runs'[w.run].build = old.build
        /\ runs'[w.run].in = {app.no} /\ runs'[w.run].status = "succeeded"
    <3>1. /\ with.run \in DOMAIN runs /\ runs[with.run].build = old.build
          /\ runs[with.run].in # {}
          /\ \A s \in runs[with.run].in : app.no <= s /\ s <= app.no
      BY <1>1, <2>4, <2>5 DEF LiveWork
    <3>2. runs[with.run].in \subseteq Nat
      BY <3>1, RunTables DEF ReleaseInv, EvaluationInv, RunRows
    <3>3. runs[with.run].in = {app.no}
      BY <1>1, <3>1, <3>2
    <3> QED
      BY <2>5, <2>6, <3>1, <3>3
  <2>8. work.at > 0
    BY <2>4, <2>5
  <2> HIDE DEF old, with
  <2> QED
    BY <2>3, <2>4, <2>5, <2>6, <2>7, <2>8, LiveWorkKept DEF old, with
<1>5. CASE QueryAndEdit
  <2>1. PICK work : work = Observed(old, "edited", {app.build}, {})
    OBVIOUS
  <2>2. /\ IsWork(work)' /\ SealedWork(Live, work)' /\ SessionWork(Live, work)'
        /\ PackageWork(Live, work)' /\ work.with = with /\ work.at = old.at + 1
        /\ work.build = old.build /\ with.session.no = app.no
    BY <1>2, <2>1
  <2>3. /\ old.at = 2 /\ runs' = runs /\ evaluations' = evaluations /\ app' = app
        /\ jobs' = [jobs EXCEPT ![Live] = work]
    BY <1>5, <2>1 DEF QueryAndEdit, LiveStep, LeavesRuns, evaluationVars
  <2>4. LiveWork(Live, work)'
    BY <1>1, <2>2, <2>3 DEF LiveWork, EvaluatedBefore
  <2>5. WorkIsSound(Live, work)'
    BY <2>2, <2>4 DEF WorkIsSound
  <2> QED
    BY <2>3, <2>5, OneProducer
<1> QED
  BY <1>3, <1>4, <1>5

LEMMA PackageInstalled ==
    ASSUME ReleaseInv, ReleaseMoves, LiveNext, NEW g \in required, RunCampaign(g)
    PROVE  JobsAreSound'
<1>0. /\ g \in CleanVM /\ jobs[g] # NoJob /\ build \in Nat
      /\ IsWork(jobs[g]) /\ SealedWork(g, jobs[g]) /\ PackageWork(g, jobs[g])
      /\ UNCHANGED <<build, tree, ledgers>>
  BY ReleaseTypes, LiveKeeps DEF RunCampaign, Working, ReleaseInv, JobsAreSound, WorkIsSound
<1>1. PICK package \in 1..build :
          jobs' = [jobs EXCEPT ![g] =
                     [@ EXCEPT !.at = 1, !.with.package = package,
                               !.saw.builds = {package},
                               !.saw.trees = {jobs[g].tree},
                               !.shows = CleanVMContract]]
  BY DEF RunCampaign
<1>2. PICK new : new = [jobs[g] EXCEPT !.at = 1, !.with.package = package,
                               !.saw.builds = {package},
                               !.saw.trees = {jobs[g].tree},
                               !.shows = CleanVMContract]
  OBVIOUS
<1>3. jobs' = [jobs EXCEPT ![g] = new]
  BY <1>1, <1>2
<1> DEFINE saw == [jobs[g].saw EXCEPT !.builds = {package}, !.trees = {jobs[g].tree}]
           with == [jobs[g].with EXCEPT !.package = package]
<1>4. /\ DOMAIN saw = {"builds", "trees"} /\ saw.builds = {package}
      /\ saw.trees = {jobs[g].tree}
      /\ DOMAIN with = {"package"} /\ with.package = package
  BY <1>0 DEF IsWork, PackageWork
<1>5. new = [jobs[g] EXCEPT !.at = 1, !.with = with, !.saw = saw, !.shows = CleanVMContract]
  BY <1>2
<1> HIDE DEF saw, with
<1>6. /\ DOMAIN new = {"tip", "build", "tree", "at", "shows", "saw", "with"}
      /\ new.tip = jobs[g].tip /\ new.build = jobs[g].build /\ new.tree = jobs[g].tree
      /\ new.at = 1 /\ new.saw = saw /\ new.with = with
  BY <1>0, <1>5 DEF IsWork
<1>7. IsWork(new)'
  BY <1>0, <1>4, <1>6 DEF IsWork
<1>8. SealedWork(g, new)' /\ PackageWork(g, new)'
  BY <1>0, <1>4, <1>6, GateKinds DEF SealedWork, PackageWork
<1>9. SessionWork(g, new)' /\ LiveWork(g, new)'
  BY <1>0, GateKinds DEF SessionWork, LiveWork
<1>10. WorkIsSound(g, new)'
  BY <1>7, <1>8, <1>9 DEF WorkIsSound
<1> QED
  BY <1>3, <1>10, OneProducer

LEMMA LiveProducers ==
    ASSUME ReleaseInv, ReleaseMoves, LiveNext PROVE JobsAreSound'
<1>0. UNCHANGED <<build, tree, ledgers, app, evaluations>> /\ LiveGates = {"live_auth_exact_models", Shadow, Live}
  BY LiveKeeps DEF LiveGates
<1>n. "live_auth_exact_models" # Live /\ Shadow # Live
  BY DEF Live, Shadow
<1>1. CASE \E l \in ledgers : BeginAuth(l)
  <2> DEFINE g == "live_auth_exact_models"
  <2>1. PICK l \in ledgers : BeginAuth(l)
    BY <1>1
  <2>2. PICK with : with = [session |-> app]
    OBVIOUS
  <2>3. PICK work : work = Job(l, with)
    OBVIOUS
  <2>4. SessionBound /\ Begin(g, l, with) /\ with.session = app
    BY <2>1, <2>2 DEF BeginAuth
  <2>5. LiveWork(g, work)'
    BY <1>n DEF LiveWork
  <2> QED
    BY <1>0, <2>3, <2>4, <2>5, SessionBegins
<1>2. CASE \E l \in ledgers, rr \in runnerReceipts : BeginShadow(l, rr)
  <2>1. PICK l \in ledgers, rr \in runnerReceipts : BeginShadow(l, rr)
    BY <1>2
  <2>2. PICK with : with = [session |-> app, runner |-> rr, documents |-> Documents,
                            index |-> index]
    OBVIOUS
  <2>3. PICK work : work = Job(l, with)
    OBVIOUS
  <2>4. SessionBound /\ Begin(Shadow, l, with) /\ with.session = app
    BY <2>1, <2>2 DEF BeginShadow
  <2>5. LiveWork(Shadow, work)'
    BY <1>n DEF LiveWork
  <2> QED
    BY <1>0, <2>3, <2>4, <2>5, SessionBegins
<1>3. CASE \E l \in ledgers, e \in evaluations : BeginLive(l, e)
  <2>1. PICK l \in ledgers, e \in evaluations : BeginLive(l, e)
    BY <1>3
  <2>2. PICK with : with = [session |-> app, evaluation |-> e, run |-> 0, rev |-> 0]
    OBVIOUS
  <2>3. PICK work : work = Job(l, with)
    OBVIOUS
  <2>4. /\ SessionBound /\ Begin(Live, l, with) /\ with.session = app /\ with.evaluation = e
        /\ e.passed /\ e.sessions < app.no
        /\ DOMAIN with = {"session", "evaluation", "run", "rev"}
    <3>1. e.sessions \in Nat /\ app.no \in Nat
      BY ReleaseTypes DEF ReleaseInv, EvaluationInv, EvaluationsAreSound, EvaluationIsSound
    <3> QED
      BY <2>1, <2>2, <3>1 DEF BeginLive, LaterSession
  <2>5. work.with = with /\ work.at = 0
    BY <2>3 DEF Job
  <2>6. LiveWork(Live, work)'
    BY <1>0, <2>4, <2>5 DEF LiveWork, EvaluatedBefore
  <2> QED
    BY <1>0, <2>3, <2>4, <2>6, SessionBegins
<1>4. CASE "live_auth_exact_models" \in required /\ AuthStep
  <2>1. PICK g : g = "live_auth_exact_models"
    OBVIOUS
  <2>2. /\ g \in LiveGates /\ g \in required /\ g # Live /\ jobs[g] # NoJob
        /\ StillThere(jobs[g]) /\ LiveStep(g, AuthPlan[jobs[g].at + 1])
    BY <1>0, <1>n, <1>4, <2>1 DEF AuthStep, Working
  <2> QED
    BY <2>2, SessionLooks
<1>5. CASE Shadow \in required /\ (SubmitReindex \/ SearchIndex)
  <2>2. /\ Shadow \in LiveGates /\ jobs[Shadow] # NoJob /\ StillThere(jobs[Shadow])
        /\ LiveStep(Shadow, "reindexed") \/ LiveStep(Shadow, "searched")
    BY <1>0, <1>5 DEF SubmitReindex, SearchIndex, Working
  <2> QED
    BY <1>n, <1>5, <2>2, SessionLooks
<1>6. CASE Live \in required /\ (SubmitLiveRun \/ ObserveLiveRun \/ QueryAndEdit)
  <2>1. jobs[Live] # NoJob /\ StillThere(jobs[Live])
    BY <1>6 DEF SubmitLiveRun, ObserveLiveRun, QueryAndEdit, Working
  <2> QED
    BY <1>6, <2>1, LiveLooks
<1>7. ASSUME NEW g \in CleanVM \cap required, NEW l \in ledgers, CaptureHostReference(g, l)
      PROVE  JobsAreSound'
  <2>1. PICK with : with = [package |-> 0]
    OBVIOUS
  <2>2. PICK work : work = Job(l, with)
    OBVIOUS
  <2>3. IsWork(work)' /\ SealedWork(g, work)' /\ work.with = with /\ work.at = 0
    BY <1>0, <2>2, BegunWork
  <2>4. SessionWork(g, work)' /\ PackageWork(g, work)' /\ LiveWork(g, work)'
    BY <2>1, <2>3, GateKinds DEF SessionWork, PackageWork, LiveWork
  <2>5. WorkIsSound(g, work)' /\ jobs' = [jobs EXCEPT ![g] = work]
    BY <1>7, <2>1, <2>2, <2>3, <2>4 DEF WorkIsSound, CaptureHostReference
  <2> QED
    BY <2>5, OneProducer
<1>8. CASE \E g \in CleanVM \cap required : RunCampaign(g)
  BY <1>8, PackageInstalled
<1>9. CASE \E g \in required : EndsJob(g)
  BY <1>9, EndedWork
<1>10. \/ \E l \in ledgers : BeginAuth(l)
       \/ "live_auth_exact_models" \in required /\ AuthStep
       \/ \E l \in ledgers, rr \in runnerReceipts : BeginShadow(l, rr)
       \/ Shadow \in required /\ (SubmitReindex \/ SearchIndex)
       \/ \E l \in ledgers, e \in evaluations : BeginLive(l, e)
       \/ Live \in required /\ (SubmitLiveRun \/ ObserveLiveRun \/ QueryAndEdit)
       \/ \E g \in CleanVM \cap required, l \in ledgers : CaptureHostReference(g, l)
       \/ \E g \in CleanVM \cap required : RunCampaign(g)
       \/ \E g \in required : EndsJob(g)
  BY DEF LiveNext, FinishAuth, FinalizeShadow, FinalizeLive, FinalizeCampaign
<1> QED
  BY <1>1, <1>2, <1>3, <1>4, <1>5, <1>6, <1>7, <1>8, <1>9, <1>10

LEMMA ProducersStep ==
    ASSUME ReleaseInv, [Next]_allVars PROVE JobsAreSound'
<1>0. ReleaseMoves
  BY StepMoves
<1>1. CASE jobs' = jobs
  BY <1>0, <1>1, NoProducer
<1>2. CASE CandidateNext
  BY <1>0, <1>2, CandidateJobs
<1>3. CASE LiveNext
  BY <1>0, <1>3, LiveProducers
<1> QED
  BY <1>1, <1>2, <1>3 DEF Next, allVars

-----------------------------------------------------------------------------
(* The receipts. *)

LEMMA EvidenceStays ==
    ASSUME ReleaseInv, ReleaseMoves, NEW r, EvidenceIsSound(r) PROVE EvidenceIsSound(r)'
<1>0. tree \in Nat /\ tree' \in Nat /\ tree <= tree' /\ required' = required
      /\ evaluations \subseteq evaluations'
  BY ReleaseTypes, Bounds DEF ReleaseMoves, TablesMove
<1>1. UsesSourceTree(r.gate) =>
          /\ r.names["source-tree"] \in Nat /\ r.names["source-tree"] <= tree'
          /\ r.saw.trees = {r.names["source-tree"]}
  BY <1>0 DEF EvidenceIsSound
<1>2. ASSUME r.gate = Live
      PROVE  /\ EvaluatedBefore(r.names["evaluation"], r.names["session"])'
             /\ r.names["run"] \in DOMAIN runs'
             /\ runs'[r.names["run"]].status = "succeeded"
             /\ runs'[r.names["run"]].build = r.build
             /\ runs'[r.names["run"]].in = {r.names["session"].no}
  <2>1. /\ EvaluatedBefore(r.names["evaluation"], r.names["session"])
        /\ r.names["run"] \in DOMAIN runs
        /\ runs[r.names["run"]].status = "succeeded"
        /\ runs[r.names["run"]].build = r.build
        /\ runs[r.names["run"]].in = {r.names["session"].no}
    BY <1>2 DEF EvidenceIsSound
  <2>2. r.names["run"] \in DOMAIN runs' /\ RunMoves(r.names["run"])
    BY <2>1 DEF ReleaseMoves, RunsMove
  <2>3. EvaluatedBefore(r.names["evaluation"], r.names["session"])'
    BY <1>0, <2>1 DEF EvaluatedBefore
  <2> QED
    BY <2>1, <2>2, <2>3 DEF RunMoves
<1>3. r.gate \in required' /\ r.build \in 1..MaxBuilds /\ r.saw.builds \subseteq {r.build}
  BY <1>0 DEF EvidenceIsSound
<1> QED
  BY <1>1, <1>2, <1>3 DEF EvidenceIsSound

LEMMA OneReceipt ==
    ASSUME ReleaseInv, ReleaseMoves, NEW r, WriteReceipt(r), EvidenceIsSound(r)
    PROVE  EvidenceOnFile'
BY EvidenceStays DEF WriteReceipt, ReleaseInv, EvidenceOnFile

LEMMA NoReceipt ==
    ASSUME ReleaseInv, ReleaseMoves, receipts' = receipts PROVE EvidenceOnFile'
BY EvidenceStays DEF ReleaseInv, EvidenceOnFile

\* A producer whose seal still holds, or who watched one session, has seen
\* nothing but the build of its ledger.
LEMMA SawItsBuild ==
    ASSUME ReleaseInv, NEW g \in required, jobs[g] # NoJob,
           \/ g \in ObservedHere /\ build = jobs[g].build
           \/ g \in LiveGates
           \/ g \in CleanVM /\ jobs[g].at = 1 /\ jobs[g].with.package = jobs[g].tip.build
    PROVE  /\ jobs[g].saw.builds \subseteq {jobs[g].tip.build}
           /\ jobs[g].tip.build \in 1..MaxBuilds
<1>0. /\ IsWork(jobs[g]) /\ SealedWork(g, jobs[g]) /\ SessionWork(g, jobs[g])
      /\ PackageWork(g, jobs[g]) /\ build \in Nat
  BY ReleaseTypes DEF ReleaseInv, JobsAreSound, WorkIsSound
<1>1. jobs[g].tip.build \in 1..MaxBuilds
  BY <1>0 DEF IsWork, ReleaseInv, LedgersAreSound, LedgerIsSound
<1>2. CASE g \in ObservedHere /\ build = jobs[g].build
  <2>1. /\ jobs[g].tip.build = build
        /\ \A b \in jobs[g].saw.builds : build <= b /\ b <= build
        /\ jobs[g].saw.builds \subseteq Nat
    BY <1>0, <1>2, GateKinds DEF SealedWork, IsWork
  <2>2. ASSUME NEW b \in jobs[g].saw.builds PROVE b = build
    BY <1>0, <2>1
  <2> QED
    BY <1>1, <2>1, <2>2
<1>3. CASE g \in LiveGates
  BY <1>0, <1>1, <1>3, GateKinds DEF SealedWork, SessionWork
<1>4. CASE g \in CleanVM /\ jobs[g].at = 1 /\ jobs[g].with.package = jobs[g].tip.build
  BY <1>0, <1>1, <1>4 DEF PackageWork
<1> QED
  BY <1>2, <1>3, <1>4

LEMMA ReceiptFields ==
    ASSUME NEW g, NEW tip, NEW after, NEW shows, NEW names, NEW saw, NEW r,
           r = NewReceipt(g, tip, after, shows, names, saw)
    PROVE  r.gate = g /\ r.build = tip.build /\ r.names = names /\ r.saw = saw
BY DEF NewReceipt

\* The receipt of a gate that needed no source and no run of the program's own.
LEMMA PlainReceipt ==
    ASSUME NEW r, r.gate \in required, r.build \in 1..MaxBuilds,
           r.saw.builds \subseteq {r.build}, ~UsesSourceTree(r.gate), r.gate # Live
    PROVE  EvidenceIsSound(r)
BY DEF EvidenceIsSound

LEMMA PlansAreLong ==
    ASSUME NEW g \in LocalGates PROVE Len(Plan(g)) > 0
<1>1. Plan(g) = LocalPlan(g)
  <2>1. g # "packaged_blackbox" /\ g # "production_update_feed"
    BY DEF LocalGates, RequiredGates
  <2> QED
    BY <2>1, Zenon DEF Plan
<1>2. LocalPlan(g) \in {<<"toolchain", "source_suite">>, <<"packaged_gate0", "root_removed">>,
                        <<"toolchain", "rag_test", "root_removed">>,
                        <<"toolchain", "contracts", "forced_exit">>}
  BY DEF LocalPlan
<1>3. /\ Len(<<"toolchain", "source_suite">>) > 0
      /\ Len(<<"packaged_gate0", "root_removed">>) > 0
      /\ Len(<<"toolchain", "rag_test", "root_removed">>) > 0
      /\ Len(<<"toolchain", "contracts", "forced_exit">>) > 0
  OBVIOUS
<1> QED
  BY <1>1, <1>2, <1>3

LEMMA LocalReceipt ==
    ASSUME ReleaseInv, ReleaseMoves, NEW g \in required, FinishLocal(g) PROVE EvidenceOnFile'
<1>1. PICK names : names = LocalNames(g)
  OBVIOUS
<1>2. PICK r : r = NewReceipt(g, jobs[g].tip, build, jobs[g].shows, names, jobs[g].saw)
  OBVIOUS
<1>3. /\ g \in LocalGates /\ jobs[g] # NoJob /\ jobs[g].at = Len(Plan(g))
      /\ build = jobs[g].build /\ (UsesSourceTree(g) => tree = jobs[g].tree)
      /\ WriteReceipt(r)
  BY <1>1, <1>2 DEF FinishLocal, ObservedAll, Working, Reauthenticated, Unchanged
<1>4. r.gate = g /\ r.build = jobs[g].tip.build /\ r.names = names /\ r.saw = jobs[g].saw
  BY <1>2, ReceiptFields
<1>5. g \in ObservedHere /\ g # Live
  BY <1>3, GateKinds
<1>6. /\ jobs[g].saw.builds \subseteq {jobs[g].tip.build}
      /\ jobs[g].tip.build \in 1..MaxBuilds
  BY <1>3, <1>5, SawItsBuild
<1>7. ASSUME UsesSourceTree(g)
      PROVE  /\ names["source-tree"] \in Nat /\ names["source-tree"] <= tree
             /\ jobs[g].saw.trees = {names["source-tree"]}
  <2>1. names["source-tree"] = jobs[g].tree
    BY <1>1, <1>7 DEF LocalNames, EvidencePolicy, UsesSourceTree
  <2>2. jobs[g].at > 0
    BY <1>3, PlansAreLong
  <2>3. /\ tree \in Nat /\ jobs[g].saw.trees \subseteq Nat
        /\ \A t \in jobs[g].saw.trees : tree <= t /\ t <= tree
        /\ jobs[g].saw.trees # {}
    BY <1>3, <1>7, <2>2, ReleaseTypes
       DEF ReleaseInv, JobsAreSound, WorkIsSound, IsWork, SealedWork
  <2>4. jobs[g].saw.trees = {tree}
    <3>1. \A t \in jobs[g].saw.trees : t = tree
      BY <2>3
    <3> QED
      BY <2>3, <3>1
  <2> QED
    BY <1>3, <1>7, <2>1, <2>3, <2>4
<1>8. EvidenceIsSound(r)
  BY <1>4, <1>5, <1>6, <1>7 DEF EvidenceIsSound
<1> QED
  BY <1>3, <1>8, OneReceipt

LEMMA HostReceipts ==
    ASSUME ReleaseInv, ReleaseMoves, NEW g \in required,
           \/ g = "packaged_blackbox" /\ FinishPackaged
           \/ FinishFeedOrHost(g)
    PROVE  EvidenceOnFile'
<1>1. /\ g \in {"packaged_blackbox", "production_update_feed", "incompatible_su2_host"}
      /\ jobs[g] # NoJob /\ build = jobs[g].build
      /\ \E after, shows, names :
            WriteReceipt(NewReceipt(g, jobs[g].tip, after, shows, names, jobs[g].saw))
  BY DEF FinishPackaged, FinishFeedOrHost, ObservedAll, Working, Reauthenticated, Unchanged
<1>2. PICK r : WriteReceipt(r) /\ \E after, shows, names :
                  r = NewReceipt(g, jobs[g].tip, after, shows, names, jobs[g].saw)
  BY <1>1
<1>3. r.gate = g /\ r.build = jobs[g].tip.build /\ r.saw = jobs[g].saw
  BY <1>2, ReceiptFields
<1>4. g \in ObservedHere /\ g # Live /\ ~UsesSourceTree(g)
  BY <1>1, GateKinds DEF UsesSourceTree
<1>5. /\ jobs[g].saw.builds \subseteq {jobs[g].tip.build}
      /\ jobs[g].tip.build \in 1..MaxBuilds
  BY <1>1, <1>4, SawItsBuild
<1>6. EvidenceIsSound(r)
  BY <1>3, <1>4, <1>5, PlainReceipt
<1> QED
  BY <1>2, <1>6, OneReceipt

LEMMA SessionReceipts ==
    ASSUME ReleaseInv, ReleaseMoves,
           \/ "live_auth_exact_models" \in required /\ FinishAuth
           \/ Shadow \in required /\ FinalizeShadow
    PROVE  EvidenceOnFile'
<1>1. PICK g \in {"live_auth_exact_models", Shadow} :
          /\ g \in required /\ jobs[g] # NoJob
          /\ \E after, shows, names :
                WriteReceipt(NewReceipt(g, jobs[g].tip, after, shows, names, jobs[g].saw))
  BY DEF FinishAuth, FinalizeShadow, Working
<1>2. PICK r : WriteReceipt(r) /\ \E after, shows, names :
                  r = NewReceipt(g, jobs[g].tip, after, shows, names, jobs[g].saw)
  BY <1>1
<1>3. r.gate = g /\ r.build = jobs[g].tip.build /\ r.saw = jobs[g].saw
  BY <1>2, ReceiptFields
<1>4. g \in LiveGates /\ g # Live
  BY <1>1 DEF LiveGates, Shadow, Live
<1>5. ~UsesSourceTree(g)
  BY <1>4, GateKinds
<1>6. /\ jobs[g].saw.builds \subseteq {jobs[g].tip.build}
      /\ jobs[g].tip.build \in 1..MaxBuilds
  BY <1>1, <1>4, SawItsBuild
<1>7. EvidenceIsSound(r)
  BY <1>1, <1>3, <1>4, <1>5, <1>6, PlainReceipt
<1> QED
  BY <1>2, <1>7, OneReceipt

LEMMA LiveReceipt ==
    ASSUME ReleaseInv, ReleaseMoves, Live \in required, FinalizeLive PROVE EvidenceOnFile'
<1> DEFINE with == jobs[Live].with
<1>1. PICK names : names = [n \in EvidencePolicy(Live) |->
                 CASE n = "runner-receipt" -> with.evaluation.receipt
                   [] n = "evaluation"     -> with.evaluation
                   [] n = "session"        -> with.session
                   [] n = "run"            -> with.run]
  OBVIOUS
<1>2. PICK r : r = NewReceipt(Live, jobs[Live].tip, build, LiveContract, names, jobs[Live].saw)
  OBVIOUS
<1>3. /\ jobs[Live] # NoJob /\ jobs[Live].at = 3 /\ build = jobs[Live].build
      /\ runs[with.run].build = build
      /\ WriteReceipt(r)
  BY <1>1, <1>2 DEF FinalizeLive, Working, DurableRunHolds
<1>4. r.gate = Live /\ r.build = jobs[Live].tip.build /\ r.names = names
      /\ r.saw = jobs[Live].saw
  BY <1>2, ReceiptFields
<1>5. Live \in LiveGates /\ ~UsesSourceTree(Live) /\ Live \notin CleanVM
  BY GateKinds
<1>6. /\ jobs[Live].saw.builds \subseteq {jobs[Live].tip.build}
      /\ jobs[Live].tip.build \in 1..MaxBuilds
  BY <1>3, <1>5, SawItsBuild
<1>7. /\ names["evaluation"] = with.evaluation /\ names["session"] = with.session
      /\ names["run"] = with.run
  <2>1. EvidencePolicy("live_end_to_end")
            = {"runner-receipt", "evaluation", "session", "run"}
    BY DEF EvidencePolicy, UsesSourceTree, CleanVM
  <2>2. EvidencePolicy(Live) = {"runner-receipt", "evaluation", "session", "run"}
    BY <2>1 DEF Live
  <2> QED
    BY <1>1, <2>2
<1>8. /\ EvaluatedBefore(with.evaluation, with.session)
      /\ with.run \in DOMAIN runs /\ runs[with.run].status = "succeeded"
      /\ runs[with.run].in = {with.session.no}
      /\ jobs[Live].tip.build = jobs[Live].build
  BY <1>3, <1>5 DEF ReleaseInv, JobsAreSound, WorkIsSound, LiveWork, SealedWork
<1>9. EvidenceIsSound(r)
  BY <1>3, <1>4, <1>5, <1>6, <1>7, <1>8 DEF EvidenceIsSound
<1> QED
  BY <1>3, <1>9, OneReceipt

LEMMA CampaignReceipt ==
    ASSUME ReleaseInv, ReleaseMoves, NEW g \in required, NEW e, FinalizeCampaign(g, e)
    PROVE  EvidenceOnFile'
<1>1. /\ g \in CleanVM /\ jobs[g] # NoJob /\ jobs[g].at = 1
      /\ jobs[g].with.package = jobs[g].tip.build
      /\ \E after, shows, names :
            WriteReceipt(NewReceipt(g, jobs[g].tip, after, shows, names, jobs[g].saw))
  BY DEF FinalizeCampaign, Working
<1>2. PICK r : WriteReceipt(r) /\ \E after, shows, names :
                  r = NewReceipt(g, jobs[g].tip, after, shows, names, jobs[g].saw)
  BY <1>1
<1>3. r.gate = g /\ r.build = jobs[g].tip.build /\ r.saw = jobs[g].saw
  BY <1>2, ReceiptFields
<1>4. g # Live /\ ~UsesSourceTree(g)
  BY <1>1, GateKinds
<1>5. /\ jobs[g].saw.builds \subseteq {jobs[g].tip.build}
      /\ jobs[g].tip.build \in 1..MaxBuilds
  BY <1>1, SawItsBuild
<1>6. EvidenceIsSound(r)
  BY <1>3, <1>4, <1>5, PlainReceipt
<1> QED
  BY <1>2, <1>6, OneReceipt

LEMMA QualityReceipt ==
    ASSUME ReleaseInv, ReleaseMoves, NEW l \in ledgers, NEW rr, VerifyRunner(l, rr)
    PROVE  EvidenceOnFile'
<1>1. CASE receipts' = receipts
  BY <1>1, NoReceipt
<1>2. CASE \E after, shows, names :
              WriteReceipt(NewReceipt("live_quality_12", l, after, shows, names,
                                      [NothingSeen EXCEPT !.builds = {rr.build}]))
  <2>1. PICK r : WriteReceipt(r) /\ \E after, shows, names :
                    r = NewReceipt("live_quality_12", l, after, shows, names,
                                   [NothingSeen EXCEPT !.builds = {rr.build}])
    BY <1>2
  <2>2. /\ r.gate = "live_quality_12" /\ r.build = l.build
        /\ r.saw = [NothingSeen EXCEPT !.builds = {rr.build}]
    BY <2>1, ReceiptFields
  <2>3. r.saw.builds = {rr.build}
    BY <2>2 DEF NothingSeen
  <2>4. l.build = build /\ rr.build = build /\ "live_quality_12" \in required
    BY DEF VerifyRunner, LedgerBound, RowOpen, ReceiptIsLive
  <2>5. l.build \in 1..MaxBuilds
    BY DEF ReleaseInv, LedgersAreSound, LedgerIsSound
  <2>6. r.gate # Live /\ ~UsesSourceTree(r.gate)
    BY <2>2 DEF Live, UsesSourceTree
  <2>7. EvidenceIsSound(r)
    BY <2>2, <2>3, <2>4, <2>5, <2>6, PlainReceipt
  <2> QED
    BY <2>1, <2>7, OneReceipt
<1> QED
  BY <1>1, <1>2 DEF VerifyRunner

LEMMA EvidenceStep ==
    ASSUME ReleaseInv, [Next]_allVars PROVE EvidenceOnFile'
<1>0. ReleaseMoves
  BY StepMoves
<1>1. CASE receipts' = receipts
  BY <1>0, <1>1, NoReceipt
<1>2. CASE \E l \in ledgers, rr \in runnerReceipts : VerifyRunner(l, rr)
  BY <1>0, <1>2, QualityReceipt
<1>3. CASE \E g \in required : FinishLocal(g)
  BY <1>0, <1>3, LocalReceipt
<1>4. CASE (\E g \in required : FinishFeedOrHost(g))
           \/ ("packaged_blackbox" \in required /\ FinishPackaged)
  BY <1>0, <1>4, HostReceipts
<1>5. CASE ("live_auth_exact_models" \in required /\ FinishAuth)
           \/ (Shadow \in required /\ FinalizeShadow)
  BY <1>0, <1>5, SessionReceipts
<1>6. CASE Live \in required /\ FinalizeLive
  BY <1>0, <1>6, LiveReceipt
<1>7. CASE \E g \in required, e \in evaluations : FinalizeCampaign(g, e)
  BY <1>0, <1>7, CampaignReceipt
<1>8. LedgerNext => receipts' = receipts
  BY DEF LedgerNext, Prepare, AttachEvidence, WriteLedger, BeginVerify, VerifyGate,
         FinishVerify, Rebuild, EditSource
<1>9. EvaluationNext =>
          receipts' = receipts \/ \E l \in ledgers, rr \in runnerReceipts : VerifyRunner(l, rr)
  BY DEF EvaluationNext, OpenApp, CloseApp, RunEnds, ResumeRun, CreateJournal, ResumeJournal,
         SubmitIntent, AcceptPost, PostAnswered, PollStarted, RunnerDies, FinishSet, ledgerVars
<1>10. CandidateNext =>
          \/ receipts' = receipts
          \/ \E g \in required : FinishLocal(g) \/ FinishFeedOrHost(g)
          \/ "packaged_blackbox" \in required /\ FinishPackaged
  BY DEF CandidateNext, BeginLocal, BeginPackaged, BeginFeed, BeginHost, Begin, Observe,
         Abandon, ChangesJob
<1>11. LiveNext =>
          \/ receipts' = receipts
          \/ "live_auth_exact_models" \in required /\ FinishAuth
          \/ Shadow \in required /\ FinalizeShadow
          \/ Live \in required /\ FinalizeLive
          \/ \E g \in required, e \in evaluations : FinalizeCampaign(g, e)
  BY DEF LiveNext, BeginAuth, AuthStep, BeginShadow, SubmitReindex, SearchIndex, BeginLive,
         SubmitLiveRun, ObserveLiveRun, QueryAndEdit, CaptureHostReference, RunCampaign, Begin,
         ChangesJob
<1>12. UNCHANGED allVars => receipts' = receipts
  BY DEF allVars, ledgerVars
<1> QED
  BY <1>1, <1>2, <1>3, <1>4, <1>5, <1>6, <1>7, <1>8, <1>9, <1>10, <1>11, <1>12 DEF Next

-----------------------------------------------------------------------------
(* The ledgers and the admission. *)

LEMMA LedgerStays ==
    ASSUME ReleaseInv, ReleaseMoves, NEW l, LedgerIsSound(l) PROVE LedgerIsSound(l)'
BY DEF LedgerIsSound, ReleaseMoves, TablesMove

LEMMA OneLedger ==
    ASSUME ReleaseInv, ReleaseMoves, NEW l, WriteLedger(l), LedgerIsSound(l)
    PROVE  LedgersAreSound'
BY LedgerStays DEF WriteLedger, ReleaseInv, LedgersAreSound

LEMMA LedgersStep ==
    ASSUME ReleaseInv, [Next]_allVars PROVE LedgersAreSound'
<1>0. ReleaseMoves
  BY StepMoves
<1>1. CASE Prepare
  <2>1. PICK l : l = FirstLedger(Prepared + 1, build)
    OBVIOUS
  <2>2. Prepared \in Nat /\ Prepared < MaxPrepares /\ WriteLedger(l)
    BY <1>1, <2>1, PreparedIsANumber
       DEF Prepare, ReleaseInv, EvaluationInv, EvaluationTypes, LedgerFiles
  <2>3. l.prep = Prepared + 1 /\ l.build = build /\ l.rows = [g \in required |-> None]
    BY <2>1 DEF FirstLedger
  <2>4. Prepared + 1 \in 1..MaxPrepares /\ build \in 1..MaxBuilds
    BY <2>2, Bounds DEF ReleaseInv, ReleaseTables
  <2>5. LedgerIsSound(l)
    BY <2>3, <2>4 DEF LedgerIsSound
  <2> QED
    BY <1>0, <2>2, <2>5, OneLedger
<1>2. CASE \E l \in ledgers, r \in receipts : AttachEvidence(l, r)
  <2>1. PICK l \in ledgers, r \in receipts : AttachEvidence(l, r)
    BY <1>2
  <2>2. PICK rows : rows = [l.rows EXCEPT ![r.gate] = r]
    OBVIOUS
  <2>3. PICK m : m = [prep |-> l.prep, build |-> l.build, rev |-> l.rev + 1, rows |-> rows,
                      prev |-> l]
    OBVIOUS
  <2>4. r.gate \in required /\ WriteLedger(m) /\ LedgerIsSound(l)
    BY <2>1, <2>2, <2>3
       DEF AttachEvidence, CanAttach, ReceiptHolds, ReleaseInv, LedgersAreSound
  <2>5. /\ DOMAIN rows = required
        /\ \A g \in required : rows[g] = IF g = r.gate THEN r ELSE l.rows[g]
    BY <2>2, <2>4 DEF LedgerIsSound
  <2>6. LedgerIsSound(m)
    BY <2>3, <2>4, <2>5 DEF LedgerIsSound
  <2> QED
    BY <1>0, <2>4, <2>6, OneLedger
<1>3. CASE ledgers' = ledgers
  BY <1>0, <1>3, LedgerStays DEF ReleaseInv, LedgersAreSound
<1>4. LedgerNext => \/ Prepare \/ ledgers' = ledgers
                    \/ \E l \in ledgers, r \in receipts : AttachEvidence(l, r)
  BY DEF LedgerNext, BeginVerify, VerifyGate, FinishVerify, Rebuild, EditSource
<1> QED
  BY <1>1, <1>2, <1>3, <1>4, EvidenceStepKeeps DEF Next, allVars, ledgerVars

LEMMA GateList == /\ DOMAIN RequiredGates = 1..13 /\ Len(RequiredGates) = 13
BY DEF RequiredGates

LEMMA PassedGate ==
    ASSUME NEW l, NEW g, GateResult(l, g) = "passed"
    PROVE  /\ l.rows[g] # None /\ l.rows[g] \in receipts
           /\ l.rows[g].gate = g /\ l.rows[g].build = l.build
           /\ DetailsHold(l.rows[g], PreparedFor(l, g))
<1> DEFINE r == l.rows[g]
           holds == /\ r \in receipts
                    /\ ReceiptHolds(r)
                    /\ r.gate = g
                    /\ r.build = l.build
                    /\ r.tip = PreparedFor(l, g)
                    /\ DetailsHold(r, PreparedFor(l, g))
<1>1. GateResult(l, g) = CASE r = None /\ g \in External    -> "blocked_external"
                           [] r = None /\ g \notin External -> "not_evidenced"
                           [] r # None /\ ~holds -> "invalid_evidence"
                           [] OTHER -> "passed"
  BY DEF GateResult
<1>2. r # None /\ holds
  <2> HIDE DEF r, holds
  <2>1. ~(r = None /\ g \in External)
    BY <1>1
  <2>2. ~(r = None /\ g \notin External)
    BY <1>1
  <2>3. ~(r # None /\ ~holds)
    BY <1>1
  <2> QED
    BY <2>1, <2>2, <2>3
<1> QED
  BY <1>2

LEMMA TreeIsSealed ==
    ASSUME NEW r, NEW at, DetailsHold(r, at), UsesSourceTree(r.gate)
    PROVE  r.names["source-tree"] = tree
<1>1. /\ r.gate \in LocalGates /\ r.gate \notin CleanVM
      /\ r.gate \notin {"packaged_blackbox", "live_auth_exact_models",
            "live_embeddings_shadow", "live_quality_12", "live_end_to_end",
            "production_update_feed"}
  <2>1. r.gate \in {"local_source_tests", "rag_50000", "scheduler_recovery"}
    BY DEF UsesSourceTree
  <2> QED
    BY <2>1, GateKinds DEF CleanVM
<1>2. LocalDetailsHold(r) /\ ArtifactHolds(r) /\ SourceTreeUnchanged(r)
  BY <1>1 DEF DetailsHold
<1> QED
  BY <1>2 DEF SourceTreeUnchanged, SealedTreeIs

LEMMA VerifiedNow ==
    ASSUME ReleaseInv, NEW l \in ledgers, NEW g \in required, GateResult(l, g) = "passed"
    PROVE  GateIsVerified(l, g)
<1>1. /\ l.rows[g] # None /\ l.rows[g] \in receipts /\ l.rows[g].gate = g
      /\ l.rows[g].build = l.build /\ DetailsHold(l.rows[g], PreparedFor(l, g))
  BY PassedGate
<1>2. ASSUME UsesSourceTree(g), NEW h \in TreeGates, l.rows[h] # None
      PROVE  l.rows[h].names["source-tree"] <= l.rows[g].names["source-tree"]
  <2>1. l.rows[g].names["source-tree"] = tree
    BY <1>1, <1>2, TreeIsSealed
  <2>2. l.rows[h] \in receipts /\ l.rows[h].gate = h /\ UsesSourceTree(h)
    BY <1>2 DEF TreeGates, ReleaseInv, LedgersAreSound, LedgerIsSound
  <2>3. l.rows[h].names["source-tree"] <= tree
    BY <2>2 DEF ReleaseInv, EvidenceOnFile, EvidenceIsSound
  <2> QED
    BY <2>1, <2>3
<1> QED
  BY <1>1, <1>2 DEF GateIsVerified

LEMMA VerifiedStays ==
    ASSUME NEW l, required' = required
    PROVE  /\ \A g : GateIsVerified(l, g) => GateIsVerified(l, g)'
           /\ \A n : VerifiedUpTo(l, n) => VerifiedUpTo(l, n)'
<1>1. TreeGates' = TreeGates
  BY DEF TreeGates
<1>2. ASSUME NEW g, GateIsVerified(l, g) PROVE GateIsVerified(l, g)'
  BY <1>1, <1>2 DEF GateIsVerified
<1> QED
  BY <1>2 DEF VerifiedUpTo

LEMMA GateVerified ==
    ASSUME ReleaseInv, ReleaseMoves, VerifyGate PROVE ToolIsSound'
<1> DEFINE l == tool.ledger
<1>0. /\ tool # Idle /\ required' = required /\ ledgers' = ledgers /\ admission' = admission
      /\ tool = [mode |-> "verify", build |-> tool.build, ledger |-> l, at |-> tool.at]
      /\ l \in ledgers /\ tool.at \in Nat /\ VerifiedUpTo(l, tool.at)
  BY DEF VerifyGate, ReleaseInv, ToolIsSound
<1>1. PICK i \in DOMAIN RequiredGates :
          /\ tool.at < i /\ RequiredGates[i] \in required
          /\ NoGateWithin(tool.at + 1, i - 1)
          /\ tool' = IF GateResult(l, RequiredGates[i]) = "passed"
                     THEN [tool EXCEPT !.at = i]
                     ELSE Idle
  BY DEF VerifyGate
<1>a. admission' # None => /\ admission'.ledger \in ledgers'
                           /\ \A g \in required' : GateIsVerified(admission.ledger, g)'
  <2>1. PICK m : m = admission.ledger
    OBVIOUS
  <2>2. admission # None => m \in ledgers /\ \A g \in required : GateIsVerified(m, g)
    BY <2>1 DEF ReleaseInv, ToolIsSound
  <2>3. admission'.ledger = m
    BY <1>0, <2>1
  <2>4. admission # None => \A g \in required : GateIsVerified(m, g)'
    BY <1>0, <2>2, VerifiedStays
  <2> QED
    BY <1>0, <2>2, <2>3, <2>4
<1>2. CASE tool' = Idle
  BY <1>a, <1>2 DEF ToolIsSound
<1>3. CASE GateResult(l, RequiredGates[i]) = "passed"
  <2>1. tool' = [mode |-> "verify", build |-> tool.build, ledger |-> l, at |-> i]
    BY <1>0, <1>1, <1>3
  <2>2. GateIsVerified(l, RequiredGates[i])
    BY <1>0, <1>1, <1>3, VerifiedNow
  <2>3. i \in Nat
    BY <1>1, GateList
  <2>4. VerifiedUpTo(l, i)
    <3> SUFFICES ASSUME NEW k \in DOMAIN RequiredGates, k <= i, RequiredGates[k] \in required
                 PROVE  GateIsVerified(l, RequiredGates[k])
      BY DEF VerifiedUpTo
    <3>0. k \in Nat
      BY GateList
    <3>1. CASE k <= tool.at
      BY <1>0, <3>1 DEF VerifiedUpTo
    <3>2. CASE k = i
      BY <2>2, <3>2
    <3>3. CASE k \in tool.at + 1 .. i - 1
      BY <1>1, <3>3 DEF NoGateWithin
    <3> QED
      BY <1>0, <2>3, <3>0, <3>1, <3>2, <3>3
  <2>5. PICK m : m = l
    OBVIOUS
  <2>6. VerifiedUpTo(m, i)' /\ m \in ledgers'
    BY <1>0, <2>4, <2>5, VerifiedStays
  <2>7. tool'.ledger = m /\ tool'.at = i /\ tool'.build = tool.build
    BY <2>1, <2>5
  <2> QED
    BY <1>a, <2>1, <2>3, <2>5, <2>6, <2>7 DEF ToolIsSound
<1> QED
  BY <1>1, <1>2, <1>3

LEMMA VerificationEnds ==
    ASSUME ReleaseInv, ReleaseMoves, FinishVerify PROVE ToolIsSound'
<1> DEFINE l == tool.ledger
<1>0. /\ tool # Idle /\ required' = required /\ ledgers' = ledgers /\ tool' = Idle
      /\ l \in ledgers /\ tool.at \in Nat /\ VerifiedUpTo(l, tool.at)
      /\ NoGateWithin(tool.at + 1, Len(RequiredGates))
  BY DEF FinishVerify, ReleaseInv, ToolIsSound
<1>1. ASSUME NEW g \in required PROVE GateIsVerified(l, g)
  <2>1. g \in Gates
    BY LedgerAssumption DEF ReleaseInv, ReleaseTables
  <2>2. PICK k \in DOMAIN RequiredGates : g = RequiredGates[k]
    BY <2>1 DEF Gates
  <2>3. k \in Nat /\ k <= 13
    BY GateList
  <2>4. CASE k <= tool.at
    BY <1>0, <2>2, <2>4 DEF VerifiedUpTo
  <2>5. CASE k \in tool.at + 1 .. 13
    BY <1>0, <2>2, <2>5, GateList DEF NoGateWithin
  <2> QED
    BY <1>0, <2>3, <2>4, <2>5
<1>2. PICK m : m = IF admission' = admission THEN admission.ledger ELSE l
  OBVIOUS
<1>3. /\ admission' # None => admission'.ledger = m
      /\ admission' # None => m \in ledgers /\ \A g \in required : GateIsVerified(m, g)
  <2>1. CASE admission' = admission
    BY <1>2, <2>1 DEF ReleaseInv, ToolIsSound
  <2>2. CASE admission' # admission
    <3>1. admission' = [gate |-> "all", ledger |-> l] /\ m = l
      BY <1>2, <2>2 DEF FinishVerify
    <3> QED
      BY <1>0, <1>1, <3>1
  <2> QED
    BY <2>1, <2>2
<1>4. admission' # None => \A g \in required : GateIsVerified(m, g)'
  BY <1>0, <1>3, VerifiedStays
<1> QED
  BY <1>0, <1>3, <1>4 DEF ToolIsSound

LEMMA ToolKept ==
    ASSUME ReleaseInv, ReleaseMoves, admission' = admission,
           \/ tool' = tool
           \/ \E l \in ledgers : tool' = [mode |-> "verify", build |-> build, ledger |-> l,
                                          at |-> 0]
    PROVE  ToolIsSound'
<1>0. required' = required /\ ledgers \subseteq ledgers'
  BY DEF ReleaseMoves, TablesMove
<1>1. PICK m : m = admission.ledger
  OBVIOUS
<1>2. admission' # None => m \in ledgers' /\ \A g \in required' : GateIsVerified(m, g)'
  BY <1>0, <1>1, VerifiedStays DEF ReleaseInv, ToolIsSound
<1>3. PICK l : l = tool'.ledger
  OBVIOUS
<1>4. ASSUME tool' # Idle
      PROVE  /\ tool' = [mode |-> "verify", build |-> tool'.build, ledger |-> tool'.ledger,
                         at |-> tool'.at]
             /\ l \in ledgers /\ tool'.at \in Nat /\ VerifiedUpTo(l, tool'.at)
  <2>1. CASE tool' = tool
    BY <1>3, <1>4, <2>1 DEF ReleaseInv, ToolIsSound
  <2>2. CASE \E k \in ledgers : tool' = [mode |-> "verify", build |-> build, ledger |-> k,
                                         at |-> 0]
    <3>1. \A i \in DOMAIN RequiredGates : ~(i <= 0)
      BY GateList
    <3>2. VerifiedUpTo(l, 0)
      BY <3>1 DEF VerifiedUpTo
    <3> QED
      BY <1>3, <2>2, <3>2
  <2> QED
    BY <2>1, <2>2
<1>5. PICK n : n = tool'.at
  OBVIOUS
<1>6. tool' # Idle => VerifiedUpTo(l, n)'
  BY <1>0, <1>4, <1>5, VerifiedStays
<1> QED
  BY <1>0, <1>1, <1>2, <1>3, <1>4, <1>5, <1>6 DEF ToolIsSound

LEMMA ToolStep ==
    ASSUME ReleaseInv, [Next]_allVars PROVE ToolIsSound'
<1>0. ReleaseMoves
  BY StepMoves
<1>1. CASE VerifyGate
  BY <1>0, <1>1, GateVerified
<1>2. CASE FinishVerify
  BY <1>0, <1>2, VerificationEnds
<1>3. CASE UNCHANGED <<tool, admission>>
  BY <1>0, <1>3, ToolKept
<1>4. CASE \E l \in ledgers : BeginVerify(l)
  BY <1>0, <1>4, ToolKept DEF BeginVerify
<1>5. LedgerNext => \/ VerifyGate \/ FinishVerify \/ UNCHANGED <<tool, admission>>
                    \/ \E l \in ledgers : BeginVerify(l)
  BY DEF LedgerNext, Prepare, AttachEvidence, WriteLedger, Rebuild, EditSource
<1> QED
  BY <1>1, <1>2, <1>3, <1>4, <1>5, EvidenceStepKeeps DEF Next, allVars, ledgerVars

-----------------------------------------------------------------------------
(* Release: what holds of every admission. *)

LEMMA ReleaseInit ==
    ASSUME Init PROVE ReleaseInv
<1>1. /\ required \in Policies /\ build = 1 /\ tree = 1 /\ ledgers = {} /\ receipts = {}
      /\ tool = Idle /\ admission = None /\ jobs = [g \in required |-> NoJob]
      /\ app = [open |-> FALSE, no |-> 0, build |-> 0, prepared |-> 0]
  BY DEF Init, LedgerInit, EvaluationInit, CandidateInit
<1>2. EvaluationInv
  BY InitIsSound
<1>3. ReleaseTables
  BY <1>1, LedgerAssumption, Bounds DEF ReleaseTables
<1>4. JobsAreSound
  BY <1>1 DEF JobsAreSound
<1>5. EvidenceOnFile /\ LedgersAreSound /\ ToolIsSound
  BY <1>1 DEF EvidenceOnFile, LedgersAreSound, ToolIsSound
<1> QED
  BY <1>2, <1>3, <1>4, <1>5 DEF ReleaseInv

LEMMA ReleaseStep ==
    ASSUME ReleaseInv, [Next]_allVars PROVE ReleaseInv'
<1>1. ReleaseMoves
  BY StepMoves
<1>2. EvaluationInv'
  BY EvaluationStep DEF ReleaseInv
<1>3. ReleaseTables'
  BY <1>1 DEF ReleaseInv, ReleaseTables, ReleaseMoves, AppMoves, TablesMove
<1> QED
  BY <1>2, <1>3, ProducersStep, EvidenceStep, LedgersStep, ToolStep DEF ReleaseInv

LEMMA ReleaseAlways == ReleaseSpec => []ReleaseInv
<1>1. Init => ReleaseInv
  BY ReleaseInit
<1>2. ReleaseInv /\ [Next]_allVars => ReleaseInv'
  BY ReleaseStep
<1> QED
  BY <1>1, <1>2, PTL DEF ReleaseSpec

\* Every release state is one the program can be in, whatever policy, builds,
\* trees, ledgers, sessions and runs there are (releasegate/types.go).
THEOREM ReleaseIsTyped == ReleaseSpec => []ReleaseTypeOK
<1>1. ReleaseInv => ReleaseTypeOK
  <2> SUFFICES ASSUME ReleaseInv
               PROVE  ReleaseTypeOK
    OBVIOUS
  <2>1. \A i \in DOMAIN runs : runs[i].status \in {"live", "succeeded", "stopped"}
    BY RunTables DEF ReleaseInv, EvaluationInv, RunRows, RunEndings
  <2>2. app.no \in 0..MaxSessions
    BY ReleaseTypes, Bounds DEF ReleaseInv, ReleaseTables
  <2>3. /\ \A l \in ledgers : l.prep \in 1..MaxPrepares /\ l.build \in 1..MaxBuilds
        /\ \A r \in receipts : r.gate \in required /\ r.build \in 1..MaxBuilds
    BY DEF ReleaseInv, LedgersAreSound, LedgerIsSound, EvidenceOnFile, EvidenceIsSound
  <2> QED
    BY <2>1, <2>2, <2>3 DEF ReleaseTypeOK, ReleaseInv, ReleaseTables, JobsAreSound
<1> QED
  BY <1>1, ReleaseAlways, PTL

\* Every receipt was gathered from the build its ledger names and, where the
\* source was used, from the tree whose hash it carries: the candidate and the
\* tree may change at any moment, but a producer seals them again at its end
\* (localreleaseevidence/evidence_windows.go generate,
\* packagedblackbox/main_windows.go run, productionfeed, su2hostevidence).
THEOREM SawWhatItNames == ReleaseSpec => []EvidenceSawWhatItNames
<1>1. ReleaseInv => EvidenceSawWhatItNames
  BY DEF ReleaseInv, EvidenceOnFile, EvidenceIsSound, EvidenceSawWhatItNames
<1> QED
  BY <1>1, ReleaseAlways, PTL

\* Whatever list of gates, number of builds, trees, ledgers and receipts: an
\* admission rests on evidence of one build and one source tree.  The tree a
\* gate was verified against is no older than that of any row, and every gate
\* of the list was verified, so no two rows differ (releasegate.go Verify,
\* verifyEvidenceDetailsForLedger).
THEOREM OneBuildIsAdmitted == ReleaseSpec => []AdmissionRestsOnOneBuild
<1>1. ReleaseInv => AdmissionRestsOnOneBuild
  <2> SUFFICES ASSUME ReleaseInv, admission # None
               PROVE  LET row == admission.ledger.rows
                      IN  /\ \A g \in required :
                                /\ row[g] # None /\ row[g].gate = g
                                /\ row[g].saw.builds \subseteq {admission.ledger.build}
                          /\ \A g, h \in TreeGates : row[g].saw.trees = row[h].saw.trees
    BY DEF AdmissionRestsOnOneBuild
  <2> DEFINE l == admission.ledger
  <2>1. l \in ledgers /\ \A g \in required : GateIsVerified(l, g)
    BY DEF ReleaseInv, ToolIsSound
  <2>2. ASSUME NEW g \in required
        PROVE  /\ l.rows[g] # None /\ l.rows[g].gate = g /\ l.rows[g].build = l.build
               /\ EvidenceIsSound(l.rows[g])
    BY <2>1 DEF ReleaseInv, LedgersAreSound, LedgerIsSound, GateIsVerified, EvidenceOnFile
  <2>3. ASSUME NEW g \in required PROVE l.rows[g].saw.builds \subseteq {l.build}
    BY <2>2 DEF EvidenceIsSound
  <2>4. ASSUME NEW g \in TreeGates, NEW h \in TreeGates
        PROVE  l.rows[g].saw.trees = l.rows[h].saw.trees
    <3>1. g \in required /\ h \in required /\ UsesSourceTree(g) /\ UsesSourceTree(h)
      BY DEF TreeGates
    <3>2. /\ l.rows[g].saw.trees = {l.rows[g].names["source-tree"]}
          /\ l.rows[h].saw.trees = {l.rows[h].names["source-tree"]}
          /\ l.rows[g].names["source-tree"] \in Nat /\ l.rows[h].names["source-tree"] \in Nat
      BY <2>2, <3>1 DEF EvidenceIsSound
    <3>3. /\ l.rows[g].names["source-tree"] <= l.rows[h].names["source-tree"]
          /\ l.rows[h].names["source-tree"] <= l.rows[g].names["source-tree"]
      BY <2>1, <2>2, <3>1 DEF GateIsVerified
    <3>4. l.rows[g].names["source-tree"] = l.rows[h].names["source-tree"]
      BY <3>2, <3>3
    <3> QED
      BY <3>2, <3>4
  <2> QED
    BY <2>2, <2>3, <2>4
<1> QED
  BY <1>1, ReleaseAlways, PTL

\* The run of the end-to-end evidence succeeded within one session of the
\* named build, opened after the last session that any run of its evaluation
\* ran in (livee2eevidence/live.go authenticateLiveInputs and
\* validateEvaluation, offline.go FinalizeOffline).
THEOREM LiveRunIsLater == ReleaseSpec => []LiveRunFollowsEvaluation
<1>1. ReleaseInv => LiveRunFollowsEvaluation
  <2> SUFFICES ASSUME ReleaseInv, NEW r \in receipts, r.gate = Live
               PROVE  LET run == runs[r.names["run"]]
                          judged == r.names["evaluation"].receipt
                      IN  /\ run.status = "succeeded" /\ run.build = r.build
                          /\ run.in = {r.names["session"].no}
                          /\ \A c \in Cases : \A s \in runs[judged.cases[c].run].in :
                                s < r.names["session"].no
    BY DEF LiveRunFollowsEvaluation
  <2> DEFINE e == r.names["evaluation"]
             no == r.names["session"].no
  <2>1. /\ runs[r.names["run"]].status = "succeeded" /\ runs[r.names["run"]].build = r.build
        /\ runs[r.names["run"]].in = {no} /\ r.names["run"] \in DOMAIN runs
        /\ e \in evaluations /\ e.passed /\ e.sessions < no
    BY DEF ReleaseInv, EvidenceOnFile, EvidenceIsSound, EvaluatedBefore
  <2>2. EvaluationIsSound(e)
    BY <2>1 DEF ReleaseInv, EvaluationInv, EvaluationsAreSound
  <2>3. ASSUME NEW c \in Cases, NEW s \in runs[e.receipt.cases[c].run].in
        PROVE  s < no
    <3>1. s = e.receipt.session /\ e.receipt.session <= e.sessions /\ e.sessions \in Nat
      BY <2>1, <2>2, <2>3 DEF EvaluationIsSound, PassedIn
    <3>2. e.receipt.session \in Nat
      BY <2>2, RunTables
         DEF EvaluationIsSound, ReceiptIsOf, ReleaseInv, EvaluationInv, JournalRows
    <3>3. no \in Nat
      BY <2>1, RunTables DEF ReleaseInv, EvaluationInv, RunRows
    <3> QED
      BY <2>1, <3>1, <3>2, <3>3
  <2> QED
    BY <2>1, <2>3
<1> QED
  BY <1>1, ReleaseAlways, PTL
=============================================================================
