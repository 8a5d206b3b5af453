-------------------------- MODULE ReviewCyclesProofs --------------------------
(***************************************************************************)
(* Theorems of the review cycles, for any number of attempts, workstreams, *)
(* revisions, remediations, crashes and failed turns.                      *)
(*                                                                         *)
(* 1. The engine only ever touches the tables through the transactions of  *)
(*    RunStore: ReviewSpec implements StoreSpec, so that what an arbitrary  *)
(*    client cannot break (RunStoreProofs) the engine cannot break.        *)
(* 2. What the table says of the work done (TableInv), and where the       *)
(*    engine stands over it (RunInv).  Together they are inductive.        *)
(* 3. The report a run succeeds with is the one a passing review was given, *)
(*    an ending hides nothing, the quality gate gives a run out only when  *)
(*    nothing is left, and every crash leaves a checkpoint the explicit    *)
(*    resume accepts.                                                      *)
(***************************************************************************)
EXTENDS ReviewCycles, RunStoreProofs, WellFoundedInduction

-----------------------------------------------------------------------------
(* The engine implements the store's client. *)

\* A transition of the run row is one any client may ask for.
LEMMA MoveIsAStep ==
    ASSUME NEW next \in RunStatuses \ {"queued", "succeeded"}, MoveTo(next) PROVE StoreNext
    BY DEF MoveTo, StoreNext, RunStep

\* A stage begins where its stage belongs.
LEMMA BeginIsAStep ==
    ASSUME NEW stage \in Stages, NEW ordinal \in StageOrdinals(stage), NEW given,
           Begin(stage, ordinal, given)
    PROVE  StoreNext
<1>1. PICK a \in AttemptId : BeginStage(a, stage, ordinal)
    BY DEF Begin, Fresh
<1>2. StageStep(a)
    BY <1>1 DEF StageStep
<1> QED BY <1>2 DEF StoreNext

\* The statuses the engine asks for.
LEMMA AskedLemma ==
    /\ \A action : Continuation(action)[1] \in RunStatuses \ {"queued", "succeeded"}
    /\ \A why \in Causes : \A rows : QuiescedStatus(why, rows) \in RunStatuses \ {"queued", "succeeded"}
<1>1. ASSUME NEW action PROVE Continuation(action)[1] \in RunStatuses \ {"queued", "succeeded"}
    BY DEF Continuation, RunStatuses, ActiveStatuses
<1>2. ASSUME NEW why \in Causes, NEW rows
      PROVE  QuiescedStatus(why, rows) \in RunStatuses \ {"queued", "succeeded"}
    BY DEF Causes, QuiescedStatus, RunStatuses, TerminalStatuses
<1> QED BY <1>1, <1>2

\* Every step of the engine, of a turn and of the process is a transaction of
\* the store or leaves its tables alone.
LEMMA StepImplementsStore ==
    ASSUME ReviewTypeOK, [ReviewNext]_reviewVars PROVE [StoreNext]_storeVars
<1> USE DEF ReviewTypeOK
<1>1. CASE UNCHANGED reviewVars
    BY <1>1 DEF reviewVars
<1>2. CASE StagesBegin
  <2>1. CASE BeginPlan
      BY <2>1, BeginIsAStep DEF BeginPlan, Stages, StageOrdinals
  <2>2. CASE BeginSynthesize
      BY <2>2, BeginIsAStep DEF BeginSynthesize, Stages, StageOrdinals
  <2>3. CASE BeginReview
      BY <2>3, BeginIsAStep DEF BeginReview, Stages, StageOrdinals, Cycles
  <2>4. CASE BeginRevise
    <3>1. loop + 1 \in 0..MaxRevisions
        BY <2>4, StoreAssumption DEF BeginRevise, ToRevise, Cycles
    <3> QED BY <2>4, <3>1, BeginIsAStep DEF BeginRevise, Stages, StageOrdinals
  <2>5. ASSUME NEW o \in Collectors, BeginCollector(o) PROVE StoreNext
      BY <2>5, BeginIsAStep DEF BeginCollector, Stages, StageOrdinals
  <2> QED BY <1>2, <2>1, <2>2, <2>3, <2>4, <2>5 DEF StagesBegin
<1>3. CASE StagesFinish
  <2>1. ASSUME NEW next \in {"collecting", "synthesizing", "reviewing"}, MoveTo(next) PROVE StoreNext
      BY <2>1, MoveIsAStep DEF RunStatuses, ActiveStatuses
  <2>2. CASE RetryPlan
      BY <2>2 DEF RetryPlan, StoreNext, StageStep
  <2> QED BY <1>3, <2>1, <2>2 DEF StagesFinish, FinishPlan, FinishCollect, FinishSynthesize, GiveUpPlan
<1>4. CASE CyclesStep
  <2>1. ASSUME NEW next \in {"revising", "reviewing", "quality_failed"}, MoveTo(next) PROVE StoreNext
      BY <2>1, MoveIsAStep DEF RunStatuses, ActiveStatuses, TerminalStatuses
  <2>2. CASE EnsureStatus
      BY <2>1, <2>2 DEF EnsureStatus
  <2>3. CASE AdvanceRunCycle
      BY <2>3 DEF AdvanceRunCycle, SetRunCycle, StoreNext, RunStep
  <2>4. CASE NextCycle
      BY <2>4 DEF NextCycle
  <2>5. CASE Succeed
      BY <2>5 DEF Succeed, StoreNext, RunStep
  <2>6. CASE Remediate
      BY <2>6 DEF Remediate, StoreNext, RunStep, Cycles
  <2>7. CASE QualityFail \/ GiveOut
      BY <2>1, <2>7 DEF QualityFail, GiveOut
  <2> QED BY <1>4, <2>2, <2>3, <2>4, <2>5, <2>6, <2>7 DEF CyclesStep
<1>5. CASE ResumeInterrupted
    BY <1>5, AskedLemma, MoveIsAStep DEF ResumeInterrupted
<1>6. CASE Abort
    BY <1>6, AskedLemma, MoveIsAStep DEF Abort
<1>7. ASSUME NEW a \in AttemptId, TurnStep(a) \/ TurnActsOutside(a) PROVE StoreNext
  <2>1. StageStep(a)
      BY <1>7
      DEF TurnStep, TurnActsOutside, TurnCompletes, PlanIsRejected, SiblingStops, TurnEnds, StageStep
  <2> QED BY <2>1 DEF StoreNext
<1>8. CASE ExecuteQueued
    BY <1>8, MoveIsAStep DEF ExecuteQueued, RunStatuses, ActiveStatuses
<1>9. CASE ResumeRun \/ Crash
    BY <1>9 DEF ResumeRun, Crash, StoreNext, RunStep
<1>10. ASSUME NEW why, StepFails(why) PROVE UNCHANGED storeVars
    BY <1>10 DEF StepFails
<1> QED BY <1>1, <1>2, <1>3, <1>4, <1>5, <1>6, <1>7, <1>8, <1>9, <1>10 DEF ReviewNext, EngineStep, Active

\* The initial table is a new run's.
LEMMA InitImplementsStore == ReviewInit => StoreInit
    BY DEF ReviewInit

-----------------------------------------------------------------------------
(* The inductive invariant: the table of attempts. *)

\* A row is where its stage belongs, within the cycles the run has begun.
InItsPlace(a) ==
    /\ attempt[a].stage \in {"plan", "synthesize"} => attempt[a].ordinal = 0
    /\ attempt[a].stage = "collect" => attempt[a].ordinal \in Collectors
    /\ attempt[a].stage = "review" => attempt[a].ordinal \in 0..cycle
    /\ attempt[a].stage = "revise" => attempt[a].ordinal \in 1..cycle

\* A stage begins when the one before it is complete.
InItsTurn(a) ==
    /\ attempt[a].stage \in {"collect", "synthesize"} => Completed("plan", 0) # {}
    /\ attempt[a].stage = "synthesize" => Missing = {}
    /\ attempt[a].stage = "review" => attempt[a].ordinal \in Reported

\* A review has the report of its cycle, and a verdict when it is complete.
ReviewIsSound(a) ==
    attempt[a].stage = "review" =>
        /\ input[a] \in FinalReports(attempt[a].ordinal)
        /\ attempt[a].state = "completed" => verdict[a] \in Verdicts

RowIsSound(a) == InItsPlace(a) /\ InItsTurn(a) /\ ReviewIsSound(a)

\* A revision cycle begins when the review before it asks for it.
AskedFor(c) == \E a \in Completed("review", c) : verdict[a] = "report_revision"

CyclesAreAskedFor == \A c \in Cycles : c < cycle => AskedFor(c)

TableInv == (\A a \in Live : RowIsSound(a)) /\ CyclesAreAskedFor

-----------------------------------------------------------------------------
(* The inductive invariant: the engine over its table. *)

\* The status of the run in each position of the engine.
StatusAt(position) ==
    CASE position = "idle"                 -> ClosedStatuses \cup {"queued"}
      [] position = "loading"              -> {"interrupted"}
      [] position \in {"plan", "retrying"} -> {"planning"}
      [] position = "collect"              -> {"collecting"}
      [] position = "synthesize"           -> {"synthesizing"}
      [] position = "giving_out"           -> {"reviewing"}
      [] position = "cycles"               -> {"reviewing", "revising"}
      [] OTHER                             -> ActiveStatuses \cup {"failed", "uncertain"}

\* The stages that may have a turn in each position of the engine.  A process
\* that died while it closed the run leaves the rows of its turns behind.
TurnsAt(position) ==
    CASE position \in {"plan", "synthesize"}    -> {position}
      [] position \in {"collect", "aborting"}   -> {"collect"}
      [] position = "cycles"                    -> {"review", "revise"}
      [] position = "idle" /\ status \in {"failed", "uncertain"} -> Stages
      [] OTHER                                  -> {}

PositionInv ==
    /\ status \in StatusAt(engine)
    /\ \A a \in Active : attempt[a].stage \in TurnsAt(engine)
    /\ \A a, b \in Active : attempt[a].stage # "collect" => a = b
    /\ engine = "retrying" => tries < MaxPlanAttempts

\* What the engine knows of the table where it stands.
EngineKnows ==
    /\ engine \in {"plan", "retrying", "collect", "synthesize"} => cycle = 0
    /\ engine \in {"collect", "synthesize"} => Completed("plan", 0) # {}
    /\ engine = "synthesize" => Missing = {}
    /\ engine = "cycles" => loop \in Reported /\ cycle \in {loop, loop + 1}
    /\ engine = "giving_out" =>
         /\ cycle = MaxRevisions
         /\ \E a \in Completed("review", cycle) : verdict[a] # "pass"

\* What a restart made of a row goes with what it made of the run.
RecoveredRows ==
    \A a \in AttemptId :
        /\ status = "queued" => attempt[a].state = "none"
        /\ attempt[a].state = "uncertain" => status = "uncertain"
        /\ attempt[a].state = "interrupted" => status = "interrupted" /\ engine = "idle"

\* An ordinary end looked at every external action.
EndsAreClean == status \in {"failed", "cancelled"} => Unsettled = {}

RunInv ==
    /\ PositionInv /\ EngineKnows /\ RecoveredRows
    /\ EndsAreClean /\ SuccessWasReviewed /\ GivenOutOnlyWhenExhausted

ReviewInv == StoreTypeOK /\ PlacesInv /\ ReviewTypeOK /\ TableInv /\ RunInv

-----------------------------------------------------------------------------
(* What the table says. *)

\* A place has one row, so a cycle has one verdict.
LEMMA VerdictLemma ==
    ASSUME PlacesInv, NEW c, NEW a \in Completed("review", c)
    PROVE  VerdictOf(c) = verdict[a]
<1>1. \A b \in Completed("review", c) : b = a
    BY DEF Completed, Live, PlacesInv, InPlace, SamePlace
<1>2. (CHOOSE b \in Completed("review", c) : TRUE) = a
    BY <1>1
<1> QED BY <1>2 DEF VerdictOf

\* A reviewed cycle has a review that holds its verdict.
LEMMA ReviewedLemma ==
    ASSUME PlacesInv, NEW c \in Reviewed
    PROVE  \E a \in Completed("review", c) : VerdictOf(c) = verdict[a]
BY VerdictLemma DEF Reviewed

\* A reported cycle has its report.
LEMMA ReportLemma ==
    ASSUME NEW c \in Reported PROVE ReportOf(c) \in FinalReports(c)
BY DEF Reported, ReportOf

\* A cycle has one final report.
LEMMA OneReport ==
    ASSUME PlacesInv, TableInv, NEW c, NEW a \in FinalReports(c), NEW b \in FinalReports(c)
    PROVE  a = b
<1>1. a \in Live /\ b \in Live
    BY DEF FinalReports, Live
<1>2. \A d \in Live : attempt[d].stage = "revise" => attempt[d].ordinal # 0
    BY StoreAssumption DEF TableInv, RowIsSound, InItsPlace
<1>3. attempt[a].stage = attempt[b].stage /\ attempt[a].ordinal = attempt[b].ordinal
    BY <1>1, <1>2 DEF FinalReports
<1> QED BY <1>1, <1>3 DEF PlacesInv, InPlace, SamePlace, Live

\* A cycle the run has left asked for a revision.
LEMMA AskedForLemma ==
    ASSUME PlacesInv, StoreTypeOK, TableInv, NEW c \in Cycles, c < cycle
    PROVE  c \in Reviewed /\ VerdictOf(c) = "report_revision"
BY VerdictLemma DEF TableInv, CyclesAreAskedFor, AskedFor, Reviewed

\* Only a cycle the run has begun has a report or a review, and every review has
\* its report.
LEMMA BegunLemma ==
    ASSUME StoreTypeOK, TableInv, NEW c \in Cycles
    PROVE  /\ c \in Reported => c <= cycle
           /\ c \in Reviewed => c <= cycle /\ c \in Reported
<1>0. c \in Nat /\ cycle \in Nat
    BY StoreAssumption DEF Cycles, StoreTypeOK
<1>1. ASSUME c \in Reported PROVE c <= cycle
  <2>1. PICK a \in FinalReports(c) : TRUE
      BY <1>1 DEF Reported
  <2>2. a \in Live /\ InItsPlace(a)
      BY <2>1 DEF FinalReports, Live, TableInv, RowIsSound
  <2> QED BY <1>0, <2>1, <2>2 DEF FinalReports, InItsPlace
<1>2. ASSUME c \in Reviewed PROVE c <= cycle /\ c \in Reported
  <2>1. PICK a \in Completed("review", c) : TRUE
      BY <1>2 DEF Reviewed
  <2> QED BY <1>0, <2>1 DEF Completed, Live, TableInv, RowIsSound, InItsPlace, InItsTurn
<1> QED BY <1>1, <1>2

\* Wherever the run got to, the stages before were completed.
LEMMA BehindLemma ==
    ASSUME PlacesInv, StoreTypeOK, TableInv, NEW a \in Live
    PROVE  /\ attempt[a].stage # "plan" => Completed("plan", 0) # {}
           /\ attempt[a].stage \notin {"plan", "collect"} => Missing = {}
           /\ attempt[a].stage \in {"review", "revise"} => 0 \in Reported
<1>1. 0 \in Cycles /\ cycle \in Nat
    BY StoreAssumption DEF Cycles, StoreTypeOK
<1>2. RowIsSound(a)
    BY DEF TableInv
<1>3. 0 \in Reported => Completed("plan", 0) # {} /\ Missing = {}
  <2>1. SUFFICES ASSUME NEW b \in FinalReports(0) PROVE Completed("plan", 0) # {} /\ Missing = {}
      BY DEF Reported
  <2>2. b \in Live /\ RowIsSound(b)
      BY <2>1 DEF FinalReports, Live, TableInv
  <2>3. attempt[b].stage = "synthesize"
      BY <1>1, <2>1, <2>2 DEF FinalReports, RowIsSound, InItsPlace
  <2> QED BY <2>2, <2>3 DEF RowIsSound, InItsTurn
<1>4. attempt[a].stage \in {"review", "revise"} => 0 \in Reported
  <2>1. CASE cycle > 0
      BY <1>1, <2>1, AskedForLemma, BegunLemma
  <2>2. CASE cycle = 0
      BY <1>1, <1>2, <2>2 DEF RowIsSound, InItsPlace, InItsTurn
  <2> QED BY <1>1, <2>1, <2>2
<1>5. attempt[a].stage \in Stages
    BY DEF Live, StoreTypeOK, Attempts
<1> QED BY <1>2, <1>3, <1>4, <1>5 DEF RowIsSound, InItsTurn, Stages

-----------------------------------------------------------------------------
(* The checkpoint. *)

\* A set of naturals that is not empty has a least member.
LEMMA LeastLemma ==
    ASSUME NEW S, S \subseteq Nat, S # {}
    PROVE  \E x \in S : \A y \in S : x <= y
<1>1. PICK R : /\ IsWellFoundedOn(R, Nat)
               /\ \A x, y \in Nat : y < x => <<y, x>> \in R
  <2>1. IsWellFoundedOn(OpToRel(<, Nat), Nat)
      BY NatLessThanWellFounded
  <2>2. \A x, y \in Nat : y < x => <<y, x>> \in OpToRel(<, Nat)
      BY DEF OpToRel
  <2> QED BY <2>1, <2>2
<1>2. PICK x \in S : \A y \in S : ~ (<<y, x>> \in R)
    BY <1>1, WFMin
<1>3. \A y \in S : ~ (y < x)
    BY <1>1, <1>2
<1>4. \A y \in S : x <= y
    BY <1>3
<1> QED BY <1>4

\* The cycle to resume at exists: it is the first without an answer.
LEMMA ResumeCycleLemma ==
    /\ ResumeCycle \in Cycles
    /\ ~Answered(ResumeCycle)
    /\ \A b \in 0..(ResumeCycle - 1) : Answered(b)
<1> DEFINE Open == {c \in Cycles : ~Answered(c)}
<1>1. MaxRevisions \in Open
    BY StoreAssumption DEF Cycles, Answered
<1>2. PICK x \in Open : \A y \in Open : x <= y
  <2>1. Open \subseteq Nat /\ Open # {}
      BY <1>1 DEF Cycles
  <2> HIDE DEF Open
  <2> QED BY <2>1, LeastLemma
<1>3. x \in Cycles /\ ~Answered(x)
    BY <1>2
<1>4. ASSUME NEW b \in 0..(x - 1) PROVE Answered(b)
    BY <1>2, <1>3, <1>4, StoreAssumption DEF Cycles
<1> QED BY <1>3, <1>4 DEF ResumeCycle

\* Where the run has its first report, the cycle to resume at is the one it is in,
\* or the one before when the revision it began has no report yet.
LEMMA ResumeCycleIsCurrent ==
    ASSUME PlacesInv, StoreTypeOK, TableInv, 0 \in Reported
    PROVE  /\ ResumeCycle \in Reported
           /\ \/ cycle = ResumeCycle
              \/ /\ cycle = ResumeCycle + 1 /\ cycle \notin Reported
                 /\ ResumeCycle \in Reviewed /\ ~Passes(ResumeCycle)
                 /\ ResumeCycle < MaxRevisions
<1> DEFINE k == ResumeCycle
<1>1. /\ k \in Cycles /\ ~Answered(k)
      /\ \A b \in 0..(k - 1) : Answered(b)
    BY ResumeCycleLemma
<1> HIDE DEF k
<1>2. k \in 0..MaxRevisions /\ cycle \in 0..MaxRevisions /\ MaxRevisions \in Nat
    BY <1>1, StoreAssumption DEF Cycles, StoreTypeOK
<1>3. k \in Reported
  <2>1. CASE k = 0
      BY <2>1
  <2>2. CASE k > 0
    <3>1. k - 1 \in 0..(k - 1) /\ (k - 1) + 1 = k
        BY <1>2, <2>2
    <3> QED BY <1>1, <3>1 DEF Answered
  <2> QED BY <1>2, <2>1, <2>2
<1>4. k <= cycle
    BY <1>1, <1>3, BegunLemma
<1>5. CASE k < cycle
  <2>1. k \in Reviewed /\ VerdictOf(k) = "report_revision"
      BY <1>1, <1>5, AskedForLemma
  <2>2. k + 1 \notin Reported
      BY <1>1, <1>2, <1>5, <2>1 DEF Answered, Passes
  <2>3. ~(k + 1 < cycle)
    <3>1. SUFFICES ASSUME k + 1 < cycle PROVE FALSE
        OBVIOUS
    <3>2. k + 1 \in Cycles
        BY <1>2, <3>1 DEF Cycles
    <3> QED BY <2>2, <3>1, <3>2, AskedForLemma, BegunLemma
  <2>4. cycle = k + 1
      BY <1>2, <1>5, <2>3
  <2> QED BY <1>2, <1>3, <2>1, <2>2, <2>4 DEF Passes, k
<1>6. CASE k = cycle
    BY <1>3, <1>6 DEF k
<1> QED BY <1>2, <1>4, <1>5, <1>6

\* A table of completed attempts is a checkpoint the resume accepts.
LEMMA CompletedIsResumable ==
    ASSUME PlacesInv, StoreTypeOK, TableInv,
           \A a \in Live : attempt[a].state = "completed"
    PROVE  Resumable
<1> DEFINE k == ResumeCycle
<1>0. 0 \in Cycles /\ cycle \in Nat /\ Reported \subseteq Cycles /\ Reviewed \subseteq Cycles
    BY StoreAssumption DEF Cycles, StoreTypeOK, Reported, Reviewed
<1>1. CheckpointLoads
    BY <1>0, BegunLemma DEF CheckpointLoads
<1>2. 0 \notin Reported => Reported = {} /\ Reviewed = {} /\ cycle = 0
  <2>1. SUFFICES ASSUME 0 \notin Reported PROVE Reported = {} /\ Reviewed = {} /\ cycle = 0
      OBVIOUS
  <2>2. cycle = 0
      BY <1>0, <2>1, AskedForLemma, BegunLemma
  <2> QED BY <1>0, <2>1, <2>2, BegunLemma DEF Cycles
<1>3. Completed("plan", 0) = {} => Live = {}
  <2>1. SUFFICES ASSUME Completed("plan", 0) = {}, NEW a \in Live PROVE FALSE
      OBVIOUS
  <2>2. attempt[a].stage = "plan"
      BY <2>1, BehindLemma
  <2> QED BY <2>1, <2>2 DEF TableInv, RowIsSound, InItsPlace, Completed, Live
<1>4. Missing # {} => 0 \notin Reported
  <2>1. SUFFICES ASSUME NEW a \in FinalReports(0) PROVE Missing = {}
      BY DEF Reported
  <2> QED BY <2>1, BehindLemma DEF FinalReports, Live
<1>5. CASE Completed("plan", 0) = {}
  <2>1. ResumeAction = "plan"
      BY <1>5 DEF ResumeAction
  <2> QED BY <1>1, <1>3, <1>5, <2>1 DEF Resumable, NothingBeyond
<1>6. CASE Completed("plan", 0) # {} /\ Missing # {}
  <2>1. ResumeAction = "collect"
      BY <1>6 DEF ResumeAction
  <2> QED BY <1>1, <1>2, <1>4, <1>6, <2>1 DEF Resumable, NothingBeyond
<1>7. CASE Completed("plan", 0) # {} /\ Missing = {} /\ 0 \notin Reported
  <2>1. ResumeAction = "synthesize"
      BY <1>7 DEF ResumeAction
  <2> QED BY <1>1, <1>2, <1>7, <2>1 DEF Resumable, NothingBeyond, CycleMatches
<1>8. CASE Completed("plan", 0) # {} /\ Missing = {} /\ 0 \in Reported
  <2>1. ResumeAction \in {"review", "succeed", "quality_failed", "revise"}
      BY <1>8 DEF ResumeAction
  <2>2. /\ ResumeCycle \in Reported
        /\ \/ cycle = ResumeCycle
           \/ /\ cycle = ResumeCycle + 1 /\ cycle \notin Reported
              /\ ResumeCycle \in Reviewed /\ ~Passes(ResumeCycle)
              /\ ResumeCycle < MaxRevisions
      BY <1>8, ResumeCycleIsCurrent
  <2>3. ResumeCycle \in 0..MaxRevisions /\ MaxRevisions \in Nat
      BY ResumeCycleLemma, StoreAssumption DEF Cycles
  <2>4. \A c \in Reported \cup Reviewed : c <= ResumeCycle
    <3>1. SUFFICES ASSUME NEW c \in Reported \cup Reviewed PROVE c <= ResumeCycle
        OBVIOUS
    <3>2. c \in Reported /\ c <= cycle /\ c \in Nat
        BY <1>0, <3>1, BegunLemma, StoreAssumption DEF Cycles
    <3> QED BY <2>2, <2>3, <3>2
  <2>5. cycle # ResumeCycle => ResumeAction = "revise"
      BY <1>8, <2>2, <2>3 DEF ResumeAction
  <2>6. NothingBeyond
      BY <2>1, <2>4 DEF NothingBeyond
  <2>7. CycleMatches(ResumeAction)
      BY <2>1, <2>2, <2>5 DEF CycleMatches
  <2> QED BY <1>1, <2>6, <2>7 DEF Resumable
<1> QED BY <1>5, <1>6, <1>7, <1>8

-----------------------------------------------------------------------------
(* What a step does to the table. *)

\* A row keeps its stage and ordinal, and a review the report it was given.
Kept(a) ==
    /\ attempt'[a].stage = attempt[a].stage
    /\ attempt'[a].ordinal = attempt[a].ordinal
    /\ input'[a] = input[a]

\* Within a research cycle what is complete stays so, with its verdict.
RowsGoOn ==
    /\ cycle <= cycle'
    /\ \A a \in AttemptId : attempt[a].state = "completed" =>
         Kept(a) /\ attempt'[a].state = "completed" /\ verdict'[a] = verdict[a]

\* A row of the next state was one of this state, and a review that becomes
\* complete has a verdict.
GoesOn(a) ==
    /\ a \in Live /\ Kept(a)
    /\ attempt'[a].state = "completed" /\ attempt[a].stage = "review" => verdict'[a] \in Verdicts

\* What the table holds only grows.
LEMMA GrowLemma ==
    ASSUME StoreTypeOK, StoreTypeOK', RowsGoOn
    PROVE  /\ \A stage, ordinal : Completed(stage, ordinal) \subseteq Completed(stage, ordinal)'
           /\ \A c : FinalReports(c) \subseteq FinalReports(c)'
           /\ Missing' \subseteq Missing
           /\ Reported \subseteq Reported' /\ Reviewed \subseteq Reviewed'
           /\ \A c : AskedFor(c) => AskedFor(c)'
<1>1. ASSUME NEW stage, NEW ordinal
      PROVE  Completed(stage, ordinal) \subseteq Completed(stage, ordinal)'
    BY DEF RowsGoOn, Kept, Completed, Live
<1>2. ASSUME NEW c PROVE FinalReports(c) \subseteq FinalReports(c)'
    BY DEF RowsGoOn, Kept, FinalReports
<1>3. Missing' \subseteq Missing
    BY <1>1 DEF Missing
<1>4. Reported \subseteq Reported'
    BY <1>2 DEF Reported
<1>5. Reviewed \subseteq Reviewed'
    BY <1>1 DEF Reviewed
<1>6. ASSUME NEW c, AskedFor(c) PROVE AskedFor(c)'
  <2>1. PICK a \in Completed("review", c) : verdict[a] = "report_revision"
      BY <1>6 DEF AskedFor
  <2>2. verdict'[a] = verdict[a]
      BY <2>1 DEF RowsGoOn, Completed, Live
  <2> QED BY <1>1, <2>1, <2>2 DEF AskedFor
<1> QED BY <1>1, <1>2, <1>3, <1>4, <1>5, <1>6

\* A row that goes on stays sound.
LEMMA RowGoesOn ==
    ASSUME StoreTypeOK, StoreTypeOK', TableInv, RowsGoOn, NEW a, GoesOn(a)
    PROVE  RowIsSound(a)'
<1>1. RowIsSound(a)
    BY DEF TableInv, GoesOn
<1>2. cycle \in Nat /\ cycle' \in Nat /\ cycle <= cycle'
    BY StoreAssumption DEF StoreTypeOK, RowsGoOn
<1>3. InItsPlace(a)'
    BY <1>1, <1>2 DEF RowIsSound, InItsPlace, GoesOn, Kept
<1>4. InItsTurn(a)'
    BY <1>1, GrowLemma DEF RowIsSound, InItsTurn, GoesOn, Kept
<1>5. ReviewIsSound(a)'
    BY <1>1, GrowLemma DEF RowIsSound, ReviewIsSound, GoesOn, Kept
<1> QED BY <1>3, <1>4, <1>5 DEF RowIsSound

\* The table stays sound when each of its rows goes on, or is sound where it is.
LEMMA TableGoesOn ==
    ASSUME StoreTypeOK, StoreTypeOK', TableInv, RowsGoOn, cycle' = cycle,
           \A a \in Live' : GoesOn(a) \/ RowIsSound(a)'
    PROVE  TableInv'
<1>1. \A a \in Live' : RowIsSound(a)'
    BY RowGoesOn
<1>2. \A c \in Cycles : c < cycle => AskedFor(c)'
    BY GrowLemma DEF TableInv, CyclesAreAskedFor
<1>3. CyclesAreAskedFor'
    BY <1>2 DEF CyclesAreAskedFor, Cycles
<1> QED BY <1>1, <1>3 DEF TableInv

\* A table nobody touches says the same.
LEMMA SameTable ==
    ASSUME attempt' = attempt
    PROVE  /\ Live' = Live /\ Active' = Active /\ Unsettled' = Unsettled
           /\ \A stage, ordinal : Completed(stage, ordinal)' = Completed(stage, ordinal)
           /\ \A c : FinalReports(c)' = FinalReports(c)
           /\ Missing' = Missing /\ Reported' = Reported /\ Reviewed' = Reviewed
<1>1. Live' = Live /\ Active' = Active /\ Unsettled' = Unsettled
    BY DEF Live, Active, InProgress, Unsettled, UnsettledIn
<1>2. ASSUME NEW stage, NEW ordinal PROVE Completed(stage, ordinal)' = Completed(stage, ordinal)
    BY <1>1 DEF Completed
<1>3. ASSUME NEW c PROVE FinalReports(c)' = FinalReports(c)
    BY DEF FinalReports
<1>4. Missing' = Missing /\ Reported' = Reported /\ Reviewed' = Reviewed
    BY <1>2, <1>3 DEF Missing, Reported, Reviewed
<1> QED BY <1>1, <1>2, <1>3, <1>4

\* The rows a step of the engine between two turns leaves alone stay sound, and
\* the statuses of the rows go with the run's.
LEMMA QuietStep ==
    ASSUME ReviewInv, StoreTypeOK', UNCHANGED <<attempt, verdict, input, cycle>>, Active = {},
           status' \in StatusAt(engine'), engine' # "retrying",
           status # "uncertain" \/ status' = "uncertain",
           engine # "idle" \/ status = "queued", status' # "queued"
    PROVE  TableInv' /\ PositionInv' /\ RecoveredRows'
<1>1. TableInv'
  <2>1. RowsGoOn
      BY StoreAssumption DEF ReviewInv, RowsGoOn, Kept, StoreTypeOK
  <2>2. ASSUME NEW a \in Live' PROVE GoesOn(a)
    <3>1. a \in Live /\ Kept(a)
        BY <2>2, SameTable DEF Kept
    <3> QED BY <3>1 DEF GoesOn, ReviewInv, TableInv, RowIsSound, ReviewIsSound
  <2> QED BY <2>1, <2>2, TableGoesOn DEF ReviewInv
<1>2. PositionInv'
    BY SameTable DEF PositionInv
<1>3. RecoveredRows'
    BY DEF ReviewInv, RunInv, RecoveredRows
<1> QED BY <1>1, <1>2, <1>3

-----------------------------------------------------------------------------
(* The engine between two turns. *)

\* What a transition of the run writes.
LEMMA MoveLemma ==
    ASSUME NEW next, MoveTo(next)
    PROVE  /\ status' = next /\ next # "queued"
           /\ UNCHANGED <<cycle, report, remediations, attempt, adopted>>
BY DEF MoveTo, TransitionRun, SetStatus, CanTransition, AllowedTransitions, ActiveStatuses, Exits

\* A run that is not over has nothing to show for its end.
Open(s) == s \notin {"failed", "cancelled", "succeeded", "quality_failed"}

LEMMA OpenLemma ==
    ASSUME Open(status')
    PROVE  EndsAreClean' /\ SuccessWasReviewed' /\ GivenOutOnlyWhenExhausted'
BY DEF Open, EndsAreClean, SuccessWasReviewed, GivenOutOnlyWhenExhausted

\* The run is open wherever the engine works.
LEMMA WorkingLemma ==
    ASSUME ReviewInv
    PROVE  /\ engine \in {"plan", "retrying"} => status = "planning"
           /\ engine = "collect" => status = "collecting"
           /\ engine = "synthesize" => status = "synthesizing"
           /\ engine = "cycles" => status \in {"reviewing", "revising"}
           /\ engine = "giving_out" => status = "reviewing"
           /\ engine = "loading" => status = "interrupted"
           /\ engine = "aborting" => status \in ActiveStatuses \cup {"failed", "uncertain"}
           /\ engine = "idle" => status \in ClosedStatuses \cup {"queued"}
BY DEF ReviewInv, RunInv, PositionInv, StatusAt

\* A new run has no rows, so it is in its first cycle.
LEMMA ExecuteQueuedStep ==
    ASSUME ReviewInv, StoreTypeOK', ExecuteQueued
    PROVE  ReviewTypeOK' /\ TableInv' /\ RunInv'
<1>1. /\ status' = "planning" /\ UNCHANGED <<attempt, cycle, verdict, input>>
      /\ engine' = "plan" /\ UNCHANGED <<loop, tries, cause, budget>>
    BY MoveLemma DEF ExecuteQueued
<1>2. ReviewTypeOK'
    BY <1>1 DEF ReviewInv, ReviewTypeOK, Working
<1>3. TableInv' /\ PositionInv' /\ RecoveredRows'
  <2>1. status' \in StatusAt(engine')
      BY <1>1 DEF StatusAt
  <2> QED BY <1>1, <2>1, QuietStep DEF ExecuteQueued, EngineAt
<1>4. cycle = 0
  <2>1. Completed("review", 0) = {}
      BY DEF ExecuteQueued, ReviewInv, RunInv, RecoveredRows, Completed, Live
  <2>2. ~AskedFor(0)
      BY <2>1 DEF AskedFor
  <2> QED BY <2>2, StoreAssumption DEF ReviewInv, TableInv, CyclesAreAskedFor, Cycles, StoreTypeOK
<1>5. EngineKnows'
    BY <1>1, <1>4 DEF EngineKnows
<1> QED BY <1>1, <1>2, <1>3, <1>5, OpenLemma DEF RunInv, Open

\* From one stage to the next.
LEMMA FinishStep ==
    ASSUME ReviewInv, StoreTypeOK', FinishPlan \/ FinishCollect \/ FinishSynthesize
    PROVE  ReviewTypeOK' /\ TableInv' /\ RunInv'
<1>1. /\ UNCHANGED <<attempt, cycle, verdict, input, tries, cause, budget>>
      /\ Active = {} /\ engine \in {"plan", "collect", "synthesize"}
      /\ \/ /\ status' = "collecting" /\ engine' = "collect" /\ loop' = loop
            /\ Completed("plan", 0) # {}
         \/ /\ status' = "synthesizing" /\ engine' = "synthesize" /\ loop' = loop
            /\ Missing = {} /\ engine = "collect"
         \/ /\ status' = "reviewing" /\ engine' = "cycles" /\ loop' = 0
            /\ 0 \in Reported
    BY MoveLemma DEF FinishPlan, FinishCollect, FinishSynthesize, EngineAt
<1>2. ReviewTypeOK'
    BY <1>1, StoreAssumption DEF ReviewInv, ReviewTypeOK, Working, Cycles
<1>3. TableInv' /\ PositionInv' /\ RecoveredRows'
  <2>1. status' \in StatusAt(engine')
      BY <1>1 DEF StatusAt
  <2>2. status # "uncertain"
      BY <1>1, WorkingLemma
  <2> QED BY <1>1, <2>1, <2>2, QuietStep
<1>4. EngineKnows'
    BY <1>1, SameTable DEF EngineKnows, ReviewInv, RunInv
<1> QED BY <1>1, <1>2, <1>3, <1>4, OpenLemma DEF RunInv, Open

\* The engine gives the run up, for want of a way on or after an error.
LEMMA GiveUpStep ==
    ASSUME ReviewInv, StoreTypeOK', UNCHANGED <<storeVars, loop, tries, verdict, input>>,
           engine \in Working \cup {"retrying"}, Active = {}, NEW why \in Causes, GiveUpFor(why),
           budget' \in [crashes: 0..MaxCrashes, faults: 0..MaxFaults, actions: 0..MaxActions]
    PROVE  ReviewTypeOK' /\ TableInv' /\ RunInv'
<1>1. /\ UNCHANGED <<status, attempt, cycle, verdict, input, loop, tries, report, remediations>>
      /\ engine' = "aborting" /\ cause' \in Causes
    BY DEF storeVars, GiveUpFor
<1>2. ReviewTypeOK'
    BY <1>1 DEF ReviewInv, ReviewTypeOK
<1>3. status \in ActiveStatuses
    BY WorkingLemma DEF Working, ActiveStatuses
<1>4. TableInv' /\ PositionInv' /\ RecoveredRows'
  <2>1. status' \in StatusAt(engine')
      BY <1>1, <1>3 DEF StatusAt
  <2>2. status # "uncertain" /\ status # "queued" /\ engine # "idle"
      BY <1>3 DEF ActiveStatuses, Working
  <2> QED BY <1>1, <2>1, <2>2, QuietStep
<1>5. EngineKnows'
    BY <1>1 DEF EngineKnows
<1> QED BY <1>1, <1>2, <1>3, <1>4, <1>5, OpenLemma DEF RunInv, Open, ActiveStatuses

\* What is spent stays within its bound.
LEMMA SpendLemma ==
    ASSUME ReviewTypeOK, NEW bound \in {"crashes", "faults", "actions"}, Spend(bound)
    PROVE  budget' \in [crashes: 0..MaxCrashes, faults: 0..MaxFaults, actions: 0..MaxActions]
<1> DEFINE B == [crashes: 0..MaxCrashes, faults: 0..MaxFaults, actions: 0..MaxActions]
<1>1. budget \in B /\ MaxCrashes \in Nat /\ MaxFaults \in Nat /\ MaxActions \in Nat
    BY ReviewAssumption DEF ReviewTypeOK
<1> QED BY <1>1 DEF Spend

LEMMA StepFailsStep ==
    ASSUME ReviewInv, StoreTypeOK', NEW why \in Causes, StepFails(why)
    PROVE  ReviewTypeOK' /\ TableInv' /\ RunInv'
<1>1. ReviewTypeOK
    BY DEF ReviewInv
<1>2. budget' \in [crashes: 0..MaxCrashes, faults: 0..MaxFaults, actions: 0..MaxActions]
    BY <1>1, SpendLemma DEF StepFails
<1> QED BY <1>2, GiveUpStep DEF StepFails

LEMMA GiveUpPlanStep ==
    ASSUME ReviewInv, StoreTypeOK', GiveUpPlan
    PROVE  ReviewTypeOK' /\ TableInv' /\ RunInv'
<1>1. budget' \in [crashes: 0..MaxCrashes, faults: 0..MaxFaults, actions: 0..MaxActions]
    BY DEF ReviewInv, ReviewTypeOK, GiveUpPlan
<1> QED BY <1>1, GiveUpStep DEF GiveUpPlan, EngineAt, Causes

\* An abort closes the run, and an ordinary end has looked at the open actions.
LEMMA AbortStep ==
    ASSUME ReviewInv, StoreTypeOK', Abort
    PROVE  ReviewTypeOK' /\ TableInv' /\ RunInv'
<1>1. /\ UNCHANGED <<attempt, cycle, verdict, input, loop, tries, cause, budget, report, remediations>>
      /\ Active = {} /\ engine = "aborting" /\ engine' = "idle"
      /\ \/ status' = status /\ (IsTerminal(status) \/ status \in {"uncertain", cause})
         \/ status' = QuiescedStatus(cause, attempt) /\ status # "uncertain"
    BY MoveLemma DEF Abort, EngineAt, storeVars
<1>2. ReviewTypeOK' /\ cause \in Causes
    BY <1>1 DEF ReviewInv, ReviewTypeOK
<1>3. status \in ActiveStatuses \cup {"failed", "uncertain"}
    BY <1>1, WorkingLemma
<1>4. /\ status' \in {"failed", "cancelled", "interrupted", "uncertain"}
      /\ status # "uncertain" \/ status' = "uncertain"
    BY <1>1, <1>2, <1>3 DEF Causes, QuiescedStatus, IsTerminal, TerminalStatuses, ActiveStatuses
<1>5. TableInv' /\ PositionInv' /\ RecoveredRows'
  <2>1. status' \in StatusAt(engine')
      BY <1>1, <1>4 DEF StatusAt, ClosedStatuses, TerminalStatuses
  <2> QED BY <1>1, <1>4, <2>1, QuietStep
<1>6. EngineKnows'
    BY <1>1 DEF EngineKnows
<1>7. EndsAreClean'
  <2>1. CASE status' = status
      BY <1>1, <2>1, SameTable DEF EndsAreClean, ReviewInv, RunInv
  <2>2. CASE status' = QuiescedStatus(cause, attempt)
      BY <1>1, <2>2, SameTable DEF EndsAreClean, QuiescedStatus, Unsettled
  <2> QED BY <1>1, <2>1, <2>2
<1>8. SuccessWasReviewed' /\ GivenOutOnlyWhenExhausted'
    BY <1>4 DEF SuccessWasReviewed, GivenOutOnlyWhenExhausted
<1> QED BY <1>2, <1>5, <1>6, <1>7, <1>8 DEF RunInv

-----------------------------------------------------------------------------
(* The loop of reviews and revisions. *)

\* In the loop the engine stands in the run's cycle, or has begun the next.
LEMMA LoopLemma ==
    ASSUME ReviewInv, engine = "cycles"
    PROVE  /\ loop \in Reported /\ loop \in Cycles /\ loop \in 0..MaxRevisions
           /\ cycle \in {loop, loop + 1}
           /\ cycle # loop => loop \in Reviewed /\ VerdictOf(loop) = "report_revision"
<1>1. loop \in Reported /\ loop \in Cycles /\ cycle \in {loop, loop + 1}
    BY DEF ReviewInv, RunInv, EngineKnows, ReviewTypeOK
<1>2. loop \in 0..MaxRevisions /\ MaxRevisions \in Nat
    BY <1>1, StoreAssumption DEF Cycles
<1>3. cycle # loop => loop < cycle
    BY <1>1, <1>2
<1> QED BY <1>1, <1>2, <1>3, AskedForLemma DEF ReviewInv

LEMMA EnsureStatusStep ==
    ASSUME ReviewInv, StoreTypeOK', EnsureStatus
    PROVE  ReviewTypeOK' /\ TableInv' /\ RunInv'
<1>1. /\ UNCHANGED <<attempt, cycle, verdict, input, engine, loop, tries, cause, budget>>
      /\ Active = {} /\ engine = "cycles" /\ status' \in {"reviewing", "revising"}
    BY MoveLemma DEF EnsureStatus, EngineAt
<1>2. ReviewTypeOK'
    BY <1>1 DEF ReviewInv, ReviewTypeOK
<1>3. TableInv' /\ PositionInv' /\ RecoveredRows'
  <2>1. status' \in StatusAt(engine')
      BY <1>1 DEF StatusAt
  <2>2. status # "uncertain"
      BY <1>1, WorkingLemma
  <2> QED BY <1>1, <2>1, <2>2, QuietStep
<1>4. EngineKnows'
    BY <1>1, SameTable DEF EngineKnows, ReviewInv, RunInv
<1> QED BY <1>1, <1>2, <1>3, <1>4, OpenLemma DEF RunInv, Open

\* A revision moves the run's cycle on after the review that asks for it.
LEMMA AdvanceRunCycleStep ==
    ASSUME ReviewInv, StoreTypeOK', AdvanceRunCycle
    PROVE  ReviewTypeOK' /\ TableInv' /\ RunInv'
<1>1. /\ UNCHANGED <<attempt, status, verdict, input, engine, loop, tries, cause, budget>>
      /\ Active = {} /\ engine = "cycles" /\ status = "revising"
      /\ cycle < loop + 1 /\ cycle' = loop + 1
      /\ loop \in Reviewed /\ VerdictOf(loop) = "report_revision"
    BY DEF AdvanceRunCycle, EngineAt, SetRunCycle, ToRevise
<1>2. /\ loop \in Reported /\ loop \in Cycles /\ loop \in 0..MaxRevisions
      /\ cycle = loop /\ MaxRevisions \in Nat
    BY <1>1, LoopLemma, StoreAssumption
<1>3. ReviewTypeOK'
    BY <1>1 DEF ReviewInv, ReviewTypeOK
<1>4. TableInv'
  <2>1. RowsGoOn
      BY <1>1, <1>2 DEF RowsGoOn, Kept
  <2>2. ASSUME NEW a \in Live' PROVE RowIsSound(a)'
    <3>1. a \in Live /\ Kept(a)
        BY <1>1, <2>2, SameTable DEF Kept
    <3>2. GoesOn(a)
        BY <1>1, <3>1 DEF GoesOn, ReviewInv, TableInv, RowIsSound, ReviewIsSound
    <3> QED BY <2>1, <3>2, RowGoesOn DEF ReviewInv
  <2>3. AskedFor(loop)
      BY <1>1, ReviewedLemma DEF AskedFor, ReviewInv
  <2>4. ASSUME NEW c \in Cycles, c < cycle' PROVE AskedFor(c)'
    <3>1. c < cycle \/ c = loop
        BY <1>1, <1>2, <2>4 DEF Cycles
    <3>2. AskedFor(c)
        BY <2>3, <3>1 DEF ReviewInv, TableInv, CyclesAreAskedFor
    <3> QED BY <2>1, <3>2, GrowLemma DEF ReviewInv
  <2>5. CyclesAreAskedFor'
      BY <2>4 DEF CyclesAreAskedFor, Cycles
  <2> QED BY <2>2, <2>5 DEF TableInv
<1>5. PositionInv' /\ RecoveredRows'
    BY <1>1, SameTable DEF PositionInv, RecoveredRows, StatusAt, ReviewInv, RunInv
<1>6. EngineKnows'
    BY <1>1, <1>2, SameTable DEF EngineKnows
<1> QED BY <1>1, <1>3, <1>4, <1>5, <1>6, OpenLemma DEF RunInv, Open

\* The loop follows the run's cycle: its way to give up is never taken.
LEMMA NextCycleStep ==
    ASSUME ReviewInv, StoreTypeOK', NextCycle
    PROVE  ReviewTypeOK' /\ TableInv' /\ RunInv'
<1>1. /\ UNCHANGED <<storeVars, verdict, input, tries, budget>>
      /\ UNCHANGED <<attempt, status, cycle, report, remediations>>
      /\ Active = {} /\ engine = "cycles" /\ status = "reviewing"
      /\ loop < MaxRevisions /\ loop + 1 \in Reported
    BY DEF NextCycle, EngineAt, storeVars, Answered
<1>2. loop \in 0..MaxRevisions /\ cycle \in {loop, loop + 1} /\ MaxRevisions \in Nat
    BY <1>1, LoopLemma, StoreAssumption
<1>3. loop + 1 \in Cycles
    BY <1>1, <1>2 DEF Cycles
<1>4. cycle = loop + 1
    BY <1>1, <1>2, <1>3, BegunLemma DEF ReviewInv
<1>5. loop' = loop + 1 /\ UNCHANGED <<engine, cause>>
    BY <1>4 DEF NextCycle
<1>6. ReviewTypeOK'
    BY <1>1, <1>3, <1>5 DEF ReviewInv, ReviewTypeOK, Cycles
<1>7. TableInv' /\ PositionInv' /\ RecoveredRows'
  <2>1. status' \in StatusAt(engine')
      BY <1>1, <1>5 DEF StatusAt
  <2> QED BY <1>1, <1>5, <2>1, QuietStep
<1>8. EngineKnows'
    BY <1>1, <1>4, <1>5, SameTable DEF EngineKnows
<1> QED BY <1>1, <1>6, <1>7, <1>8, OpenLemma DEF RunInv, Open

\* The run succeeds with the report its passing review was given.
LEMMA SucceedStep ==
    ASSUME ReviewInv, StoreTypeOK', Succeed
    PROVE  ReviewTypeOK' /\ TableInv' /\ RunInv'
<1>1. /\ UNCHANGED <<attempt, cycle, verdict, input, loop, tries, cause, budget>>
      /\ Active = {} /\ engine = "cycles" /\ engine' = "idle" /\ status' = "succeeded"
      /\ report' \in FinalReports(cycle) /\ Passes(loop)
    BY DEF Succeed, SucceedRun, SetStatus, EngineAt
<1>2. ReviewTypeOK'
    BY <1>1 DEF ReviewInv, ReviewTypeOK
<1>3. TableInv' /\ PositionInv' /\ RecoveredRows'
  <2>1. status' \in StatusAt(engine')
      BY <1>1 DEF StatusAt, ClosedStatuses, TerminalStatuses
  <2>2. status # "uncertain"
      BY <1>1, WorkingLemma
  <2> QED BY <1>1, <2>1, <2>2, QuietStep
<1>4. cycle = loop
    BY <1>1, LoopLemma DEF Passes
<1>5. PICK a \in Completed("review", cycle) : verdict[a] = "pass"
    BY <1>1, <1>4, ReviewedLemma DEF Passes, ReviewInv
<1>6. a \in Live /\ attempt[a].stage = "review" /\ attempt[a].ordinal = cycle
    BY DEF Completed, Live
<1>7. input[a] = report'
  <2>1. input[a] \in FinalReports(cycle)
      BY <1>6 DEF ReviewInv, TableInv, RowIsSound, ReviewIsSound
  <2> QED BY <1>1, <2>1, OneReport DEF ReviewInv
<1>8. Missing = {}
    BY <1>6, BehindLemma DEF ReviewInv
<1>9. SuccessWasReviewed'
    BY <1>1, <1>5, <1>7, <1>8, SameTable DEF SuccessWasReviewed
<1>10. EngineKnows' /\ EndsAreClean' /\ GivenOutOnlyWhenExhausted'
    BY <1>1 DEF EngineKnows, EndsAreClean, GivenOutOnlyWhenExhausted
<1> QED BY <1>2, <1>3, <1>9, <1>10 DEF RunInv

\* The quality gate gives the run out when the last verdict has no answer left.
LEMMA GiveOutStep ==
    ASSUME ReviewInv, StoreTypeOK', QualityFail \/ GiveOut
    PROVE  ReviewTypeOK' /\ TableInv' /\ RunInv'
<1>1. /\ UNCHANGED <<attempt, cycle, remediations, verdict, input, loop, tries, cause, budget>>
      /\ Active = {} /\ engine' = "idle" /\ status' = "quality_failed"
      /\ \/ engine = "cycles" /\ Exhausted
         \/ engine = "giving_out"
    BY MoveLemma DEF QualityFail, GiveOut, EngineAt
<1>2. ReviewTypeOK'
    BY <1>1 DEF ReviewInv, ReviewTypeOK
<1>3. TableInv' /\ PositionInv' /\ RecoveredRows'
  <2>1. status' \in StatusAt(engine')
      BY <1>1 DEF StatusAt, ClosedStatuses, TerminalStatuses
  <2>2. status # "uncertain"
      BY <1>1, WorkingLemma
  <2> QED BY <1>1, <2>1, <2>2, QuietStep
<1>4. \E a \in Completed("review", cycle) :
          \/ verdict[a] = "restart" /\ remediations = MaxRemediations
          \/ verdict[a] # "pass" /\ cycle = MaxRevisions
  <2>1. CASE engine = "giving_out"
      BY <2>1 DEF ReviewInv, RunInv, EngineKnows
  <2>2. CASE engine = "cycles" /\ Exhausted
    <3>1. loop \in Reviewed
        BY <2>2 DEF Exhausted, WantsRestart
    <3>2. PICK a \in Completed("review", loop) : verdict[a] = VerdictOf(loop)
        BY <3>1, ReviewedLemma DEF ReviewInv
    <3>3. /\ loop \in 0..MaxRevisions /\ cycle \in 0..MaxRevisions /\ cycle \in {loop, loop + 1}
          /\ cycle # loop => VerdictOf(loop) = "report_revision"
        BY <2>2, LoopLemma DEF ReviewInv, StoreTypeOK
    <3>4. cycle = loop
        BY <2>2, <3>3, StoreAssumption DEF Exhausted, WantsRestart
    <3> QED BY <2>2, <3>2, <3>4 DEF Exhausted, WantsRestart
  <2> QED BY <1>1, <2>1, <2>2
<1>5. GivenOutOnlyWhenExhausted'
    BY <1>1, <1>4, SameTable DEF GivenOutOnlyWhenExhausted
<1>6. EngineKnows' /\ EndsAreClean' /\ SuccessWasReviewed'
    BY <1>1 DEF EngineKnows, EndsAreClean, SuccessWasReviewed
<1> QED BY <1>2, <1>3, <1>5, <1>6 DEF RunInv

-----------------------------------------------------------------------------
(* The explicit resume, a retried plan and a remediation. *)

\* What was incomplete is set aside; what is left completed or failed.
LEMMA ResumeRunStep ==
    ASSUME ReviewInv, StoreTypeOK', ResumeRun
    PROVE  ReviewTypeOK' /\ TableInv' /\ RunInv'
<1>1. /\ UNCHANGED <<status, cycle, report, remediations>>
      /\ UNCHANGED <<loop, tries, cause, verdict, input, budget>>
      /\ engine' = "loading" /\ status = "interrupted"
    BY DEF ResumeRun, PrepareInterruptedRunForResume
<1>2. ReviewTypeOK'
    BY <1>1 DEF ReviewInv, ReviewTypeOK
<1>3. ASSUME NEW a \in AttemptId
      PROVE  /\ attempt'[a].stage = attempt[a].stage /\ attempt'[a].ordinal = attempt[a].ordinal
             /\ attempt'[a].state = IF attempt[a].state \in {"in_progress", "interrupted"}
                                    THEN "superseded" ELSE attempt[a].state
    BY DEF ResumeRun, PrepareInterruptedRunForResume, ReviewInv, StoreTypeOK, Attempts
<1>4. TableInv'
  <2>1. RowsGoOn
      BY <1>1, <1>3, StoreAssumption DEF RowsGoOn, Kept, ReviewInv, StoreTypeOK
  <2>2. ASSUME NEW a \in Live' PROVE GoesOn(a)
    <3>1. a \in Live /\ Kept(a) /\ attempt'[a].state = attempt[a].state
        BY <1>1, <1>3, <2>2 DEF Live, Kept
    <3> QED BY <1>1, <3>1 DEF GoesOn, ReviewInv, TableInv, RowIsSound, ReviewIsSound
  <2> QED BY <1>1, <2>1, <2>2, TableGoesOn DEF ReviewInv
<1>5. Active' = {}
    BY <1>3 DEF Active, InProgress
<1>6. PositionInv'
    BY <1>1, <1>5 DEF PositionInv, StatusAt
<1>7. RecoveredRows'
    BY <1>1, <1>3 DEF RecoveredRows, ReviewInv, RunInv
<1>8. EngineKnows'
    BY <1>1 DEF EngineKnows
<1> QED BY <1>1, <1>2, <1>4, <1>6, <1>7, <1>8, OpenLemma DEF RunInv, Open

\* A run that is loading has no turn.
LEMMA LoadingLemma ==
    ASSUME ReviewInv, engine = "loading" PROVE Active = {}
BY DEF ReviewInv, RunInv, PositionInv, TurnsAt

\* The engine takes the position the checkpoint names, and what it must know of
\* the table there is what the checkpoint was examined for.
LEMMA ResumeInterruptedStep ==
    ASSUME ReviewInv, StoreTypeOK', ResumeInterrupted
    PROVE  ReviewTypeOK' /\ TableInv' /\ RunInv'
<1>1. /\ UNCHANGED <<attempt, cycle, report, remediations, cause, verdict, input, budget>>
      /\ engine = "loading" /\ status = "interrupted" /\ Active = {}
      /\ \/ status' = "interrupted" /\ engine' = "idle" /\ UNCHANGED <<loop, tries>>
         \/ /\ Resumable
            /\ status' = Continuation(ResumeAction)[1] /\ engine' = Continuation(ResumeAction)[2]
            /\ loop' = IF engine' = "cycles" THEN ResumeCycle ELSE 0
            /\ tries' = 1
  <2>1. engine = "loading" /\ status = "interrupted" /\ Active = {}
      BY WorkingLemma, LoadingLemma DEF ResumeInterrupted
  <2>2. CASE Resumable
      BY <2>1, <2>2, MoveLemma DEF ResumeInterrupted
  <2>3. CASE ~Resumable
      BY <2>1, <2>3 DEF ResumeInterrupted, storeVars
  <2> QED BY <2>2, <2>3
<1>2. CASE status' = "interrupted" /\ engine' = "idle" /\ UNCHANGED <<loop, tries>>
  <2>1. ReviewTypeOK'
      BY <1>1, <1>2 DEF ReviewInv, ReviewTypeOK
  <2>2. status' \in StatusAt(engine')
      BY <1>2 DEF StatusAt, ClosedStatuses
  <2>3. TableInv' /\ PositionInv' /\ RecoveredRows'
      BY <1>1, <1>2, <2>2, QuietStep
  <2>4. EngineKnows'
      BY <1>2 DEF EngineKnows
  <2> QED BY <1>2, <2>1, <2>3, <2>4, OpenLemma DEF RunInv, Open
<1>3. ASSUME Resumable,
             status' = Continuation(ResumeAction)[1], engine' = Continuation(ResumeAction)[2],
             loop' = IF engine' = "cycles" THEN ResumeCycle ELSE 0, tries' = 1
      PROVE  ReviewTypeOK' /\ TableInv' /\ RunInv'
  <2>1. status' \in StatusAt(engine') /\ Open(status') /\ status' \in ActiveStatuses
      BY <1>3 DEF Continuation, StatusAt, Open, ActiveStatuses
  <2>2. engine' \in {"plan", "collect", "synthesize", "cycles", "giving_out"}
      BY <1>3 DEF Continuation
  <2>3. ReviewTypeOK'
    <3>1. loop' \in Cycles
        BY <1>3, ResumeCycleLemma, StoreAssumption DEF Cycles
    <3>2. tries' \in 1..MaxPlanAttempts
        BY <1>3, ReviewAssumption
    <3> QED BY <1>1, <2>2, <3>1, <3>2 DEF ReviewInv, ReviewTypeOK, Working
  <2>4. TableInv' /\ PositionInv' /\ RecoveredRows'
    <3>1. engine' # "retrying" /\ status' # "queued" /\ status # "uncertain" /\ engine # "idle"
        BY <1>1, <2>1, <2>2 DEF ActiveStatuses
    <3> QED BY <1>1, <2>1, <3>1, QuietStep
  <2>5. Reviewed = {} => cycle = 0
    <3>1. 0 \in Cycles /\ cycle \in Nat
        BY StoreAssumption DEF Cycles, ReviewInv, StoreTypeOK
    <3> QED BY <3>1, AskedForLemma DEF ReviewInv
  <2>6. EngineKnows'
    <3>1. CASE ResumeAction = "plan"
      <4>1. cycle = 0
          BY <1>3, <2>5, <3>1 DEF Resumable, NothingBeyond, Reviewed, Completed, Live
      <4>2. engine' = "plan"
          BY <1>3, <3>1 DEF Continuation
      <4> QED BY <1>1, <4>1, <4>2 DEF EngineKnows
    <3>2. CASE ResumeAction = "collect"
      <4>1. cycle = 0 /\ Completed("plan", 0) # {}
          BY <1>3, <2>5, <3>2 DEF Resumable, NothingBeyond, ResumeAction
      <4>2. engine' = "collect"
          BY <1>3, <3>2 DEF Continuation
      <4> QED BY <1>1, <4>1, <4>2, SameTable DEF EngineKnows
    <3>3. CASE ResumeAction = "synthesize"
      <4>1. cycle = 0 /\ Completed("plan", 0) # {} /\ Missing = {}
          BY <1>3, <2>5, <3>3 DEF Resumable, NothingBeyond, ResumeAction
      <4>2. engine' = "synthesize"
          BY <1>3, <3>3 DEF Continuation
      <4> QED BY <1>1, <4>1, <4>2, SameTable DEF EngineKnows
    <3>4. CASE ResumeAction \notin {"plan", "collect", "synthesize"}
      <4>1. 0 \in Reported /\ CycleMatches(ResumeAction)
          BY <1>3, <3>4 DEF ResumeAction, Resumable
      <4>2. ResumeCycle \in Reported
          BY <4>1, ResumeCycleIsCurrent DEF ReviewInv
      <4>3. CASE ResumeAction = "quality_failed"
        <5>1. ResumeCycle \in Reviewed /\ ~Passes(ResumeCycle) /\ ResumeCycle = MaxRevisions
            BY <4>3 DEF ResumeAction
        <5>2. cycle = MaxRevisions
            BY <4>1, <4>3, <5>1 DEF CycleMatches
        <5>3. \E a \in Completed("review", cycle) : verdict[a] # "pass"
            BY <5>1, <5>2, ReviewedLemma DEF Passes, ReviewInv
        <5>4. engine' = "giving_out"
            BY <1>3, <4>3 DEF Continuation
        <5> QED BY <1>1, <5>2, <5>3, <5>4, SameTable DEF EngineKnows
      <4>4. CASE ResumeAction # "quality_failed"
        <5>1. engine' = "cycles"
            BY <1>3, <3>4, <4>4 DEF Continuation
        <5>2. cycle \in {ResumeCycle, ResumeCycle + 1}
            BY <3>4, <4>1 DEF CycleMatches
        <5> QED BY <1>1, <1>3, <4>2, <5>1, <5>2, SameTable DEF EngineKnows
      <4> QED BY <4>3, <4>4
    <3> QED BY <3>1, <3>2, <3>3, <3>4
  <2> QED BY <2>1, <2>3, <2>4, <2>6, OpenLemma DEF RunInv
<1> QED BY <1>1, <1>2, <1>3

\* A remediation sets the whole table aside.
LEMMA RemediateStep ==
    ASSUME ReviewInv, StoreTypeOK', Remediate
    PROVE  ReviewTypeOK' /\ TableInv' /\ RunInv'
<1>1. /\ UNCHANGED <<loop, cause, verdict, input, budget>>
      /\ tries' = 1 /\ engine' = "plan" /\ status' = "planning" /\ cycle' = 0
    BY DEF Remediate, PrepareResearchRemediation, SetStatus
<1>2. \A a \in AttemptId : attempt'[a].state \in {"none", "superseded"}
    BY DEF Remediate, PrepareResearchRemediation, ReviewInv, StoreTypeOK, Attempts
<1>3. Live' = {} /\ Active' = {}
    BY <1>2 DEF Live, Active, InProgress
<1>4. ReviewTypeOK'
    BY <1>1, ReviewAssumption DEF ReviewInv, ReviewTypeOK, Working
<1>5. TableInv'
    BY <1>1, <1>3, StoreAssumption DEF TableInv, CyclesAreAskedFor, Cycles
<1>6. PositionInv' /\ RecoveredRows'
    BY <1>1, <1>2, <1>3 DEF PositionInv, StatusAt, RecoveredRows
<1>7. EngineKnows'
    BY <1>1 DEF EngineKnows
<1> QED BY <1>1, <1>4, <1>5, <1>6, <1>7, OpenLemma DEF RunInv, Open

-----------------------------------------------------------------------------
(* A turn begins. *)

\* The turns of each stage have their position of the engine to themselves.
LEMMA TurnsLemma ==
    ASSUME ReviewInv, engine # "idle", NEW a \in Active
    PROVE  /\ attempt[a].stage = "plan" => engine = "plan"
           /\ attempt[a].stage = "synthesize" => engine = "synthesize"
           /\ attempt[a].stage \in {"review", "revise"} => engine = "cycles"
           /\ attempt[a].stage = "collect" => engine \in {"collect", "aborting"}
           /\ engine \in {"plan", "collect", "synthesize", "cycles", "aborting"}
           /\ attempt[a].stage # "collect" => Active = {a}
BY DEF ReviewInv, RunInv, PositionInv, TurnsAt

\* A new row is sound when its stage may begin, and nothing else changes.
LEMMA BeginStep ==
    ASSUME ReviewInv, StoreTypeOK',
           NEW stage \in Stages, NEW ordinal \in Ordinals, NEW given \in AttemptId \cup {NoAttempt},
           Begin(stage, ordinal, given), UNCHANGED <<engine, loop, tries, cause, verdict, budget>>,
           engine \in {"plan", "collect", "synthesize", "cycles"}, stage \in TurnsAt(engine),
           stage = "collect" \/ Active = {},
           stage \in {"plan", "synthesize"} => ordinal = 0,
           stage = "collect" => ordinal \in Collectors,
           stage = "review" => ordinal \in 0..cycle /\ ordinal \in Reported
                                 /\ given \in FinalReports(ordinal),
           stage = "revise" => ordinal \in 1..cycle,
           stage \in {"collect", "synthesize"} => Completed("plan", 0) # {},
           stage = "synthesize" => Missing = {}
    PROVE  ReviewTypeOK' /\ TableInv' /\ RunInv'
<1>1. PICK a \in AttemptId :
        /\ attempt[a].state = "none"
        /\ attempt' = [attempt EXCEPT ![a] =
             [state |-> "in_progress", stage |-> stage, ordinal |-> ordinal, external |-> FALSE]]
        /\ UNCHANGED <<status, revision, cycle, report, remediations, adopted, approval>>
        /\ input' = [input EXCEPT ![a] = given]
    BY DEF Begin, Fresh, BeginStage
<1>2. /\ attempt'[a] =
            [state |-> "in_progress", stage |-> stage, ordinal |-> ordinal, external |-> FALSE]
      /\ input'[a] = given
      /\ \A b \in AttemptId : b # a => attempt'[b] = attempt[b] /\ input'[b] = input[b]
    BY <1>1 DEF ReviewInv, StoreTypeOK, ReviewTypeOK
<1>3. ReviewTypeOK'
    BY <1>1 DEF ReviewInv, ReviewTypeOK
<1>4. RowsGoOn
    BY <1>1, <1>2, StoreAssumption DEF RowsGoOn, Kept, ReviewInv, StoreTypeOK
<1>5. RowIsSound(a)'
  <2>1. /\ Completed("plan", 0) \subseteq Completed("plan", 0)' /\ Missing' \subseteq Missing
        /\ Reported \subseteq Reported' /\ FinalReports(ordinal) \subseteq FinalReports(ordinal)'
      BY <1>4, GrowLemma DEF ReviewInv
  <2>2. InItsPlace(a)'
      BY <1>1, <1>2 DEF InItsPlace
  <2>3. InItsTurn(a)'
      BY <1>2, <2>1 DEF InItsTurn
  <2>4. ReviewIsSound(a)'
      BY <1>2, <2>1 DEF ReviewIsSound
  <2> QED BY <2>2, <2>3, <2>4 DEF RowIsSound
<1>6. TableInv'
  <2>1. ASSUME NEW b \in Live', b # a PROVE GoesOn(b)
    <3>1. b \in Live /\ Kept(b) /\ attempt'[b].state = attempt[b].state
        BY <1>2, <2>1 DEF Live, Kept
    <3> QED BY <3>1 DEF GoesOn, ReviewInv, TableInv, RowIsSound, ReviewIsSound
  <2> QED BY <1>1, <1>4, <1>5, <2>1, TableGoesOn DEF ReviewInv
<1>7. Active' = Active \cup {a}
    BY <1>2 DEF Active, InProgress
<1>8. PositionInv'
  <2>1. status' \in StatusAt(engine') /\ (engine' = "retrying" => tries' < MaxPlanAttempts)
      BY <1>1 DEF ReviewInv, RunInv, PositionInv
  <2>2. TurnsAt(engine)' = TurnsAt(engine)
      BY <1>1 DEF TurnsAt
  <2>3. ASSUME NEW b \in Active' PROVE attempt'[b].stage \in TurnsAt(engine)
      BY <1>2, <1>7, <2>3 DEF ReviewInv, RunInv, PositionInv, Active
  <2>4. ASSUME NEW b \in Active', NEW c \in Active', attempt'[b].stage # "collect" PROVE b = c
    <3>1. CASE Active = {}
        BY <1>7, <2>4, <3>1
    <3>2. CASE stage = "collect"
      <4>1. engine = "collect"
          BY <3>2 DEF TurnsAt
      <4>2. \A d \in Active : attempt[d].stage = "collect"
          BY <4>1 DEF ReviewInv, RunInv, PositionInv, TurnsAt
      <4> QED BY <1>2, <1>7, <2>4, <3>2, <4>2 DEF Active
    <3> QED BY <3>1, <3>2
  <2> QED BY <2>1, <2>2, <2>3, <2>4 DEF PositionInv
<1>9. status \in ActiveStatuses /\ engine' = engine
    BY WorkingLemma DEF ActiveStatuses
<1>10. RecoveredRows'
    BY <1>1, <1>2, <1>9 DEF RecoveredRows, ReviewInv, RunInv, ActiveStatuses
<1>11. EngineKnows'
  <2>1. engine # "giving_out"
      OBVIOUS
  <2> QED BY <1>1, <1>4, <2>1, GrowLemma DEF EngineKnows, ReviewInv, RunInv
<1> QED BY <1>1, <1>3, <1>6, <1>8, <1>9, <1>10, <1>11, OpenLemma DEF RunInv, Open, ActiveStatuses

\* Each stage begins where it may.
LEMMA BeginsStep ==
    ASSUME ReviewInv, StoreTypeOK', StagesBegin
    PROVE  ReviewTypeOK' /\ TableInv' /\ RunInv'
<1>0. /\ NoAttempt \in AttemptId \cup {NoAttempt} /\ 0 \in Ordinals
      /\ Cycles = 0..MaxRevisions /\ MaxRevisions \in Nat /\ cycle \in 0..MaxRevisions
      /\ Collectors \subseteq Ordinals /\ Cycles \subseteq Ordinals
    BY StoreAssumption DEF Ordinals, Cycles, ReviewInv, StoreTypeOK
<1>1. CASE BeginPlan
  <2>1. engine = "plan" /\ Active = {} /\ "plan" \in TurnsAt(engine) /\ "plan" \in Stages
      BY <1>1 DEF BeginPlan, EngineAt, TurnsAt, Stages
  <2>2. Begin("plan", 0, NoAttempt) /\ UNCHANGED <<engine, loop, tries, cause, verdict, budget>>
      BY <1>1 DEF BeginPlan
  <2> QED BY <1>0, <2>1, <2>2, BeginStep
<1>2. CASE BeginSynthesize
  <2>1. /\ engine = "synthesize" /\ Active = {} /\ "synthesize" \in TurnsAt(engine)
        /\ "synthesize" \in Stages
      BY <1>2 DEF BeginSynthesize, EngineAt, TurnsAt, Stages
  <2>2. Begin("synthesize", 0, NoAttempt) /\ UNCHANGED <<engine, loop, tries, cause, verdict, budget>>
      BY <1>2 DEF BeginSynthesize
  <2>3. Completed("plan", 0) # {} /\ Missing = {}
      BY <2>1 DEF ReviewInv, RunInv, EngineKnows
  <2> QED BY <1>0, <2>1, <2>2, <2>3, BeginStep
<1>3. CASE BeginReview
  <2>1. engine = "cycles" /\ Active = {} /\ "review" \in TurnsAt(engine) /\ "review" \in Stages
      BY <1>3 DEF BeginReview, EngineAt, TurnsAt, Stages
  <2>2. /\ Begin("review", loop, ReportOf(loop))
        /\ UNCHANGED <<engine, loop, tries, cause, verdict, budget>>
      BY <1>3 DEF BeginReview
  <2>3. loop \in Reported /\ loop \in Cycles /\ loop \in 0..cycle
      BY <1>0, <2>1, LoopLemma
  <2>4. ReportOf(loop) \in FinalReports(loop) /\ ReportOf(loop) \in AttemptId
      BY <2>3, ReportLemma DEF FinalReports
  <2> QED BY <1>0, <2>1, <2>2, <2>3, <2>4, BeginStep
<1>4. CASE BeginRevise
  <2>1. engine = "cycles" /\ Active = {} /\ "revise" \in TurnsAt(engine) /\ "revise" \in Stages
      BY <1>4 DEF BeginRevise, EngineAt, TurnsAt, Stages
  <2>2. /\ Begin("revise", loop + 1, ReportOf(loop)) /\ cycle = loop + 1
        /\ UNCHANGED <<engine, loop, tries, cause, verdict, budget>>
      BY <1>4 DEF BeginRevise
  <2>3. loop \in Reported /\ loop \in 0..MaxRevisions
      BY <2>1, LoopLemma
  <2>4. loop + 1 \in Ordinals /\ loop + 1 \in 1..cycle
      BY <1>0, <2>2, <2>3
  <2>5. ReportOf(loop) \in AttemptId
      BY <2>3, ReportLemma DEF FinalReports
  <2> QED BY <2>1, <2>2, <2>4, <2>5, BeginStep
<1>5. ASSUME NEW o \in Collectors, BeginCollector(o) PROVE ReviewTypeOK' /\ TableInv' /\ RunInv'
  <2>1. engine = "collect" /\ "collect" \in TurnsAt(engine) /\ "collect" \in Stages
      BY <1>5 DEF BeginCollector, TurnsAt, Stages
  <2>2. Begin("collect", o, NoAttempt) /\ UNCHANGED <<engine, loop, tries, cause, verdict, budget>>
      BY <1>5 DEF BeginCollector
  <2>3. Completed("plan", 0) # {}
      BY <2>1 DEF ReviewInv, RunInv, EngineKnows
  <2>4. o \in Ordinals
      BY <1>0, <1>5
  <2> QED BY <1>0, <1>5, <2>1, <2>2, <2>3, <2>4, BeginStep
<1> QED BY <1>1, <1>2, <1>3, <1>4, <1>5 DEF StagesBegin

-----------------------------------------------------------------------------
(* A turn acts, or ends. *)

\* What settling a row does: the row leaves its turn, the others stay.
LEMMA SettleLemma ==
    ASSUME ReviewInv, StoreTypeOK', NEW a \in AttemptId, attempt[a].state \in {"in_progress", "failed"},
           NEW state \in {"completed", "failed", "superseded"}, SetAttempt(a, state),
           cycle' = cycle, input' = input,
           \A b \in AttemptId : b # a => verdict'[b] = verdict[b],
           state = "completed" /\ attempt[a].stage = "review" => verdict'[a] \in Verdicts
    PROVE  /\ TableInv' /\ RowsGoOn
           /\ Active' = Active \ {a} /\ Unsettled' \subseteq Unsettled
           /\ \A b \in AttemptId :
                /\ attempt'[b].stage = attempt[b].stage
                /\ b # a => attempt'[b].state = attempt[b].state
           /\ attempt'[a].state = state
<1>1. /\ attempt'[a].state = state
      /\ attempt'[a].stage = attempt[a].stage /\ attempt'[a].ordinal = attempt[a].ordinal
      /\ attempt'[a].external = attempt[a].external
      /\ \A b \in AttemptId : b # a => attempt'[b] = attempt[b]
    BY DEF SetAttempt, ReviewInv, StoreTypeOK, Attempts
<1>2. RowsGoOn
    BY <1>1, StoreAssumption DEF RowsGoOn, Kept, ReviewInv, StoreTypeOK
<1>3. ASSUME NEW b \in Live' PROVE GoesOn(b)
  <2>1. CASE b = a
      BY <1>1, <1>3, <2>1 DEF GoesOn, Live, Kept
  <2>2. CASE b # a
    <3>1. b \in Live /\ Kept(b) /\ attempt'[b].state = attempt[b].state
        BY <1>1, <1>3, <2>2 DEF Live, Kept
    <3> QED BY <2>2, <3>1 DEF GoesOn, Live, ReviewInv, TableInv, RowIsSound, ReviewIsSound
  <2> QED BY <2>1, <2>2
<1>4. TableInv'
    BY <1>2, <1>3, TableGoesOn DEF ReviewInv
<1>5. Active' = Active \ {a}
    BY <1>1 DEF Active, InProgress
<1>6. Unsettled' \subseteq Unsettled
    BY <1>1 DEF Unsettled, UnsettledIn
<1> QED BY <1>1, <1>2, <1>4, <1>5, <1>6

\* The plan that broke the contract leaves its place.
LEMMA RetryPlanStep ==
    ASSUME ReviewInv, StoreTypeOK', RetryPlan
    PROVE  ReviewTypeOK' /\ TableInv' /\ RunInv'
<1>1. PICK a \in AttemptId :
        /\ attempt[a].state = "failed" /\ SetAttempt(a, "superseded")
        /\ UNCHANGED <<status, cycle, report, remediations>>
    BY DEF RetryPlan, PreparePlanContractRetry
<1>2. /\ UNCHANGED <<loop, cause, verdict, input, budget>>
      /\ engine = "retrying" /\ engine' = "plan" /\ tries' = tries + 1 /\ Active = {}
    BY DEF RetryPlan, EngineAt
<1>3. ReviewTypeOK'
    BY <1>2, ReviewAssumption DEF ReviewInv, RunInv, PositionInv, ReviewTypeOK, Working
<1>4. /\ TableInv' /\ Active' = {}
      /\ \A b \in AttemptId : b # a => attempt'[b].state = attempt[b].state
      /\ attempt'[a].state = "superseded"
    BY <1>1, <1>2, SettleLemma
<1>5. status = "planning" /\ cycle = 0
    BY <1>2, WorkingLemma DEF ReviewInv, RunInv, EngineKnows
<1>6. PositionInv' /\ EngineKnows'
    BY <1>1, <1>2, <1>4, <1>5 DEF PositionInv, StatusAt, EngineKnows
<1>7. RecoveredRows'
    BY <1>1, <1>2, <1>4, <1>5 DEF RecoveredRows, ReviewInv, RunInv
<1> QED BY <1>1, <1>3, <1>4, <1>5, <1>6, <1>7, OpenLemma DEF RunInv, Open

\* A turn acts outside only while its run is in flight.
LEMMA TurnActsStep ==
    ASSUME ReviewInv, StoreTypeOK', NEW a \in AttemptId, TurnActsOutside(a)
    PROVE  ReviewTypeOK' /\ TableInv' /\ RunInv'
<1>1. /\ UNCHANGED <<status, cycle, report, remediations>>
      /\ UNCHANGED <<engine, loop, tries, cause, verdict, input>>
      /\ a \in Active /\ MarkExternal(a) /\ status \in InFlightStatuses
    BY StageStatusLemma
    DEF TurnActsOutside, MarkActiveStageExternalSideEffects, MayMarkActive, Active, InFlightStatuses
<1>2. \A b \in AttemptId : /\ attempt'[b].state = attempt[b].state
                           /\ attempt'[b].stage = attempt[b].stage
                           /\ attempt'[b].ordinal = attempt[b].ordinal
    BY <1>1 DEF MarkExternal, ReviewInv, StoreTypeOK, Attempts
<1>3. ReviewTypeOK'
  <2>1. ReviewTypeOK
      BY DEF ReviewInv
  <2>2. budget' \in [crashes: 0..MaxCrashes, faults: 0..MaxFaults, actions: 0..MaxActions]
      BY <2>1, SpendLemma DEF TurnActsOutside
  <2> QED BY <1>1, <2>1, <2>2 DEF ReviewTypeOK
<1>4. RowsGoOn
    BY <1>1, <1>2, StoreAssumption DEF RowsGoOn, Kept, ReviewInv, StoreTypeOK
<1>5. TableInv'
  <2>1. ASSUME NEW b \in Live' PROVE GoesOn(b)
    <3>1. b \in Live /\ Kept(b) /\ attempt'[b].state = attempt[b].state
        BY <1>1, <1>2, <2>1 DEF Live, Kept
    <3> QED BY <1>1, <3>1 DEF GoesOn, ReviewInv, TableInv, RowIsSound, ReviewIsSound
  <2> QED BY <1>1, <1>4, <2>1, TableGoesOn DEF ReviewInv
<1>6. Active' = Active
    BY <1>2 DEF Active, InProgress
<1>7. PositionInv'
  <2>1. \A b \in Active : attempt'[b].stage = attempt[b].stage
      BY <1>2 DEF Active
  <2>2. TurnsAt(engine)' = TurnsAt(engine) /\ StatusAt(engine)' = StatusAt(engine)
      BY <1>1 DEF TurnsAt, StatusAt
  <2> QED BY <1>1, <1>6, <2>1, <2>2 DEF PositionInv, ReviewInv, RunInv
<1>8. EngineKnows'
  <2>1. engine # "giving_out"
      BY <1>1 DEF ReviewInv, RunInv, PositionInv, TurnsAt
  <2> QED BY <1>1, <1>4, <2>1, GrowLemma DEF EngineKnows, ReviewInv, RunInv
<1>9. RecoveredRows'
    BY <1>1, <1>2 DEF RecoveredRows, ReviewInv, RunInv
<1>10. Open(status')
    BY <1>1 DEF Open, InFlightStatuses, ActiveStatuses
<1> QED BY <1>3, <1>5, <1>7, <1>8, <1>9, <1>10, OpenLemma DEF RunInv

\* A turn that ends without a change of the engine's position: it completed, or
\* it is cancelled with the run.
LEMMA TurnSettles ==
    ASSUME ReviewInv, StoreTypeOK', engine # "idle", NEW a \in AttemptId,
           NEW outcome \in {"completed", "failed"}, CompleteStage(a, outcome),
           UNCHANGED <<engine, loop, tries, cause, input, budget>>,
           verdict' \in [AttemptId -> Verdicts \cup {"none"}],
           \A b \in AttemptId : b # a => verdict'[b] = verdict[b],
           outcome = "completed" /\ attempt[a].stage = "review" => verdict'[a] \in Verdicts
    PROVE  ReviewTypeOK' /\ TableInv' /\ RunInv'
<1>1. /\ UNCHANGED <<status, cycle, report, remediations>>
      /\ a \in Active /\ SetAttempt(a, outcome) /\ attempt[a].state = "in_progress"
    BY DEF CompleteStage, Active, InProgress
<1>2. ReviewTypeOK'
    BY DEF ReviewInv, ReviewTypeOK
<1>3. /\ TableInv' /\ RowsGoOn
      /\ Active' = Active \ {a} /\ Unsettled' \subseteq Unsettled
      /\ \A b \in AttemptId : /\ attempt'[b].stage = attempt[b].stage
                              /\ b # a => attempt'[b].state = attempt[b].state
      /\ attempt'[a].state = outcome
    BY <1>1, SettleLemma
<1>4. PositionInv'
  <2>1. \A b \in Active' : b \in Active /\ attempt'[b].stage = attempt[b].stage
      BY <1>3 DEF Active
  <2>2. TurnsAt(engine)' = TurnsAt(engine) /\ StatusAt(engine)' = StatusAt(engine)
      BY <1>1 DEF TurnsAt, StatusAt
  <2> QED BY <1>1, <2>1, <2>2 DEF PositionInv, ReviewInv, RunInv
<1>5. EngineKnows'
  <2>1. engine # "giving_out"
      BY <1>1 DEF ReviewInv, RunInv, PositionInv, TurnsAt
  <2> QED BY <1>1, <1>3, <2>1, GrowLemma DEF EngineKnows, ReviewInv, RunInv
<1>6. RecoveredRows'
    BY <1>1, <1>3 DEF RecoveredRows, ReviewInv, RunInv
<1>7. EndsAreClean'
    BY <1>1, <1>3 DEF EndsAreClean, ReviewInv, RunInv
<1>8. status' \notin {"succeeded", "quality_failed"}
    BY <1>1, WorkingLemma, TurnsLemma DEF ActiveStatuses
<1>9. SuccessWasReviewed' /\ GivenOutOnlyWhenExhausted'
    BY <1>8 DEF SuccessWasReviewed, GivenOutOnlyWhenExhausted
<1> QED BY <1>2, <1>3, <1>4, <1>5, <1>6, <1>7, <1>9 DEF RunInv

\* A turn that fails takes the engine to its abort; the siblings of a collector
\* are still there to be cancelled.
LEMMA TurnEndsStep ==
    ASSUME ReviewInv, StoreTypeOK', engine # "idle", NEW a \in AttemptId, NEW why \in Causes,
           TurnEnds(a, why)
    PROVE  ReviewTypeOK' /\ TableInv' /\ RunInv'
<1>1. /\ a \in Active /\ attempt[a].state = "in_progress" /\ engine # "aborting"
      /\ engine' = "aborting" /\ cause' = why /\ UNCHANGED <<loop, tries, verdict, input>>
      /\ SetAttempt(a, "failed") /\ UNCHANGED <<cycle, report, remediations>>
      /\ \/ status' = status
         \/ status' = QuiescedStatus("failed", attempt')
    BY DEF TurnEnds, CompleteStage, FailCollectStageAndQuiesceRun, Active, InProgress, GiveUpFor, SetStatus
<1>2. ReviewTypeOK'
  <2>1. ReviewTypeOK
      BY DEF ReviewInv
  <2>2. budget' \in [crashes: 0..MaxCrashes, faults: 0..MaxFaults, actions: 0..MaxActions]
      BY <2>1, SpendLemma DEF TurnEnds
  <2> QED BY <1>1, <2>1, <2>2 DEF ReviewTypeOK
<1>3. /\ TableInv'
      /\ Active' = Active \ {a} /\ Unsettled' \subseteq Unsettled
      /\ \A b \in AttemptId : /\ attempt'[b].stage = attempt[b].stage
                              /\ b # a => attempt'[b].state = attempt[b].state
      /\ attempt'[a].state = "failed"
    BY <1>1, SettleLemma
<1>4. status \in ActiveStatuses
    BY <1>1, WorkingLemma, TurnsLemma DEF ActiveStatuses
<1>5. status' \in ActiveStatuses \cup {"failed", "uncertain"}
    BY <1>1, <1>4 DEF QuiescedStatus
<1>6. PositionInv'
  <2>1. ASSUME NEW b \in Active' PROVE attempt'[b].stage = "collect"
    <3>1. b \in Active /\ b # a /\ attempt'[b].stage = attempt[b].stage
        BY <1>3, <2>1 DEF Active
    <3>2. attempt[b].stage = "collect"
        BY <1>1, <3>1, TurnsLemma
    <3> QED BY <3>1, <3>2
  <2>2. status' \in StatusAt(engine')
      BY <1>1, <1>5 DEF StatusAt
  <2>3. TurnsAt(engine)' = {"collect"}
      BY <1>1 DEF TurnsAt
  <2> QED BY <1>1, <2>1, <2>2, <2>3 DEF PositionInv
<1>7. EngineKnows'
    BY <1>1 DEF EngineKnows
<1>8. RecoveredRows'
    BY <1>1, <1>3, <1>4, <1>5 DEF RecoveredRows, ReviewInv, RunInv, ActiveStatuses
<1>9. EndsAreClean'
    BY <1>1, <1>3, <1>4 DEF EndsAreClean, QuiescedStatus, Unsettled, ActiveStatuses
<1>10. SuccessWasReviewed' /\ GivenOutOnlyWhenExhausted'
    BY <1>5 DEF SuccessWasReviewed, GivenOutOnlyWhenExhausted, ActiveStatuses
<1> QED BY <1>2, <1>3, <1>6, <1>7, <1>8, <1>9, <1>10 DEF RunInv

\* A plan that broke the contract is the only turn there is.
LEMMA PlanIsRejectedStep ==
    ASSUME ReviewInv, StoreTypeOK', engine # "idle", NEW a \in AttemptId, PlanIsRejected(a)
    PROVE  ReviewTypeOK' /\ TableInv' /\ RunInv'
<1>1. /\ UNCHANGED <<status, cycle, report, remediations, loop, tries, cause, verdict, input>>
      /\ a \in Active /\ SetAttempt(a, "failed") /\ attempt[a].state = "in_progress"
      /\ attempt[a].stage = "plan" /\ tries < MaxPlanAttempts /\ engine' = "retrying"
    BY DEF PlanIsRejected, CompleteStage, Active, InProgress
<1>2. ReviewTypeOK'
  <2>1. ReviewTypeOK
      BY DEF ReviewInv
  <2>2. budget' \in [crashes: 0..MaxCrashes, faults: 0..MaxFaults, actions: 0..MaxActions]
      BY <2>1, SpendLemma DEF PlanIsRejected
  <2> QED BY <1>1, <2>1, <2>2 DEF ReviewTypeOK
<1>3. engine = "plan" /\ Active = {a}
    BY <1>1, TurnsLemma
<1>4. status = "planning" /\ cycle = 0
    BY <1>3, WorkingLemma DEF ReviewInv, RunInv, EngineKnows
<1>5. /\ TableInv' /\ Active' = {}
      /\ \A b \in AttemptId : b # a => attempt'[b].state = attempt[b].state
      /\ attempt'[a].state = "failed"
    BY <1>1, <1>3, SettleLemma
<1>6. PositionInv' /\ EngineKnows'
    BY <1>1, <1>4, <1>5 DEF PositionInv, StatusAt, EngineKnows
<1>7. RecoveredRows'
    BY <1>1, <1>4, <1>5 DEF RecoveredRows, ReviewInv, RunInv
<1> QED BY <1>1, <1>2, <1>4, <1>5, <1>6, <1>7, OpenLemma DEF RunInv, Open

\* Whatever the turn, its end keeps the invariant.
LEMMA TurnStepStep ==
    ASSUME ReviewInv, StoreTypeOK', NEW a \in AttemptId, TurnStep(a)
    PROVE  ReviewTypeOK' /\ TableInv' /\ RunInv'
<1>1. engine # "idle" /\ verdict \in [AttemptId -> Verdicts \cup {"none"}]
    BY DEF TurnStep, ReviewInv, ReviewTypeOK
<1>2. CASE TurnCompletes(a)
  <2>1. /\ verdict' \in [AttemptId -> Verdicts \cup {"none"}]
        /\ \A b \in AttemptId : b # a => verdict'[b] = verdict[b]
        /\ attempt[a].stage = "review" => verdict'[a] \in Verdicts
      BY <1>1, <1>2 DEF TurnCompletes
  <2>2. /\ CompleteStage(a, "completed")
        /\ UNCHANGED <<engine, loop, tries, cause, input, budget>>
      BY <1>2 DEF TurnCompletes
  <2> QED BY <1>1, <2>1, <2>2, TurnSettles
<1>3. CASE SiblingStops(a)
  <2>1. /\ CompleteStage(a, "failed")
        /\ UNCHANGED <<engine, loop, tries, cause, verdict, input, budget>>
      BY <1>3 DEF SiblingStops
  <2> QED BY <1>1, <2>1, TurnSettles
<1> QED BY <1>1, <1>2, <1>3, PlanIsRejectedStep, TurnEndsStep DEF TurnStep

-----------------------------------------------------------------------------
(* The process dies. *)

\* The rows of the turns go with what the restart makes of the run.
LEMMA CrashStep ==
    ASSUME ReviewInv, StoreTypeOK', Crash
    PROVE  ReviewTypeOK' /\ TableInv' /\ RunInv'
<1> DEFINE recovered == RecoveryStatus(\E a \in AttemptId :
                  attempt[a].state \in {"in_progress", "interrupted"} /\ attempt[a].external)
<1>1. /\ UNCHANGED <<cycle, report, remediations, verdict, input>>
      /\ engine # "idle" /\ engine' = "idle" /\ loop' = 0 /\ tries' = 1 /\ cause' = "failed"
      /\ recovered \in {"interrupted", "uncertain"}
      /\ \/ /\ status \in InFlightStatuses /\ status' = recovered
            /\ attempt' = [a \in AttemptId |->
                 IF InProgress(a) THEN [attempt[a] EXCEPT !.state = recovered] ELSE attempt[a]]
         \/ status \notin InFlightStatuses /\ UNCHANGED <<status, attempt>>
    BY DEF Crash, RecoverInFlight, RecoveryStatus
<1> HIDE DEF recovered
<1>2. ReviewTypeOK'
  <2>1. ReviewTypeOK
      BY DEF ReviewInv
  <2>2. budget' \in [crashes: 0..MaxCrashes, faults: 0..MaxFaults, actions: 0..MaxActions]
      BY <2>1, SpendLemma DEF Crash
  <2> QED BY <1>1, <2>1, <2>2, StoreAssumption, ReviewAssumption DEF ReviewTypeOK, Cycles, Causes
<1>3. CASE status \notin InFlightStatuses /\ UNCHANGED <<status, attempt>>
  <2>1. /\ engine \in {"loading", "aborting"}
        /\ status \in {"interrupted", "failed", "uncertain"}
        /\ engine = "loading" <=> status = "interrupted"
      BY <1>1, <1>3, WorkingLemma DEF InFlightStatuses, ActiveStatuses, ReviewInv, ReviewTypeOK, Working
  <2>2. TableInv'
    <3>1. RowsGoOn
        BY <1>1, <1>3, StoreAssumption DEF RowsGoOn, Kept, ReviewInv, StoreTypeOK
    <3>2. ASSUME NEW a \in Live' PROVE GoesOn(a)
      <4>1. a \in Live /\ Kept(a)
          BY <1>1, <1>3, <3>2, SameTable DEF Kept
      <4> QED BY <1>1, <1>3, <4>1 DEF GoesOn, ReviewInv, TableInv, RowIsSound, ReviewIsSound
    <3> QED BY <1>1, <3>1, <3>2, TableGoesOn DEF ReviewInv
  <2>3. PositionInv'
    <3>1. status' \in StatusAt(engine')
        BY <1>1, <1>3, <2>1 DEF StatusAt, ClosedStatuses, TerminalStatuses
    <3>2. \A a \in Active : attempt[a].stage \in TurnsAt(engine)'
      <4>1. engine = "loading" => Active = {}
          BY LoadingLemma
      <4>2. status \in {"failed", "uncertain"} => TurnsAt(engine)' = Stages
          BY <1>1, <1>3 DEF TurnsAt
      <4>3. \A a \in Active : attempt[a].stage \in Stages
          BY DEF Active, ReviewInv, StoreTypeOK, Attempts
      <4> QED BY <2>1, <4>1, <4>2, <4>3
    <3> QED BY <1>1, <1>3, <3>1, <3>2, SameTable DEF PositionInv, ReviewInv, RunInv
  <2>4. EngineKnows'
      BY <1>1 DEF EngineKnows
  <2>5. RecoveredRows'
      BY <1>1, <1>3 DEF RecoveredRows, ReviewInv, RunInv
  <2>6. EndsAreClean'
      BY <1>3, SameTable DEF EndsAreClean, ReviewInv, RunInv
  <2>7. SuccessWasReviewed' /\ GivenOutOnlyWhenExhausted'
      BY <1>3, <2>1 DEF SuccessWasReviewed, GivenOutOnlyWhenExhausted
  <2> QED BY <1>2, <2>2, <2>3, <2>4, <2>5, <2>6, <2>7 DEF RunInv
<1>4. CASE /\ status \in InFlightStatuses /\ status' = recovered
           /\ attempt' = [a \in AttemptId |->
                IF InProgress(a) THEN [attempt[a] EXCEPT !.state = recovered] ELSE attempt[a]]
  <2>1. ASSUME NEW a \in AttemptId
        PROVE  /\ attempt'[a].stage = attempt[a].stage /\ attempt'[a].ordinal = attempt[a].ordinal
               /\ attempt'[a].state = IF attempt[a].state = "in_progress" THEN recovered
                                                                          ELSE attempt[a].state
      BY <1>4 DEF InProgress, ReviewInv, StoreTypeOK, Attempts
  <2>2. status' \in {"interrupted", "uncertain"}
      BY <1>1, <1>4
  <2>3. TableInv'
    <3>1. RowsGoOn
        BY <1>1, <2>1, StoreAssumption DEF RowsGoOn, Kept, ReviewInv, StoreTypeOK
    <3>2. ASSUME NEW a \in Live' PROVE GoesOn(a)
      <4>1. a \in Live /\ Kept(a)
          BY <1>1, <2>1, <3>2 DEF Kept, Live
      <4>2. attempt'[a].state = "completed" => attempt[a].state = "completed"
          BY <1>1, <2>1, <4>1 DEF Live
      <4> QED BY <1>1, <4>1, <4>2 DEF GoesOn, ReviewInv, TableInv, RowIsSound, ReviewIsSound
    <3> QED BY <1>1, <3>1, <3>2, TableGoesOn DEF ReviewInv
  <2>4. Active' = {}
      BY <1>1, <2>1 DEF Active, InProgress
  <2>5. PositionInv'
      BY <1>1, <2>2, <2>4 DEF PositionInv, StatusAt, ClosedStatuses
  <2>6. EngineKnows'
      BY <1>1 DEF EngineKnows
  <2>7. RecoveredRows'
    <3>1. ASSUME NEW a \in AttemptId, attempt[a].state \in {"interrupted", "uncertain"} PROVE FALSE
        BY <1>1, <1>4, <3>1
        DEF RecoveredRows, ReviewInv, RunInv, InFlightStatuses, ActiveStatuses
    <3> QED BY <1>1, <1>4, <2>1, <2>2, <3>1 DEF RecoveredRows
  <2> QED BY <1>2, <2>2, <2>3, <2>5, <2>6, <2>7, OpenLemma DEF RunInv, Open
<1> QED BY <1>1, <1>3, <1>4

-----------------------------------------------------------------------------
(* The inductive invariant. *)

\* A new run has an empty table.
LEMMA ReviewInvInit == ReviewInit => ReviewInv
<1> SUFFICES ASSUME ReviewInit PROVE ReviewInv
    OBVIOUS
<1>1. StoreInit /\ StoreTypeOK
    BY InitImplementsStore, TypeInit
<1>2. \A a \in AttemptId : attempt[a].state = "none" /\ ~attempt[a].external
    BY <1>1 DEF StoreInit, AbsentAttempt
<1>3. PlacesInv
    BY <1>2 DEF PlacesInv, InPlace
<1>4. ReviewTypeOK
    BY StoreAssumption, ReviewAssumption DEF ReviewInit, ReviewTypeOK, Cycles, Causes
<1>5. TableInv
    BY <1>1, <1>2, StoreAssumption DEF TableInv, Live, CyclesAreAskedFor, Cycles, StoreInit
<1>6. RunInv
    BY <1>1, <1>2
    DEF ReviewInit, StoreInit, RunInv, PositionInv, StatusAt, EngineKnows, RecoveredRows, EndsAreClean,
        SuccessWasReviewed, GivenOutOnlyWhenExhausted, Active, InProgress
<1> QED BY <1>1, <1>3, <1>4, <1>5, <1>6 DEF ReviewInv

\* No step of the engine, of a turn or of the process breaks it.
LEMMA ReviewInvStep == ReviewInv /\ [ReviewNext]_reviewVars => ReviewInv'
<1> SUFFICES ASSUME ReviewInv, [ReviewNext]_reviewVars PROVE ReviewInv'
    OBVIOUS
<1>1. StoreTypeOK' /\ PlacesInv'
    BY StepImplementsStore, TypeStep, PlacesStep DEF ReviewInv
<1>2. CASE UNCHANGED reviewVars
  <2>1. ReviewTypeOK'
      BY <1>2 DEF reviewVars, ReviewInv, ReviewTypeOK
  <2>2. UNCHANGED <<attempt, cycle, status, report, remediations, engine, loop, tries, verdict, input>>
      BY <1>2 DEF reviewVars, storeVars
  <2>3. TableInv'
    <3>1. RowsGoOn
        BY <2>2, StoreAssumption DEF RowsGoOn, Kept, ReviewInv, StoreTypeOK
    <3>2. ASSUME NEW a \in Live' PROVE GoesOn(a)
      <4>1. a \in Live /\ Kept(a)
          BY <2>2, <3>2, SameTable DEF Kept
      <4> QED BY <2>2, <4>1 DEF GoesOn, ReviewInv, TableInv, RowIsSound, ReviewIsSound
    <3> QED BY <1>1, <2>2, <3>1, <3>2, TableGoesOn DEF ReviewInv
  <2>4. PositionInv' /\ EngineKnows' /\ RecoveredRows' /\ EndsAreClean'
      BY <2>2, SameTable
      DEF PositionInv, TurnsAt, StatusAt, EngineKnows, RecoveredRows, EndsAreClean, ReviewInv, RunInv
  <2>5. SuccessWasReviewed' /\ GivenOutOnlyWhenExhausted'
      BY <2>2, SameTable DEF SuccessWasReviewed, GivenOutOnlyWhenExhausted, ReviewInv, RunInv
  <2> QED BY <1>1, <2>1, <2>3, <2>4, <2>5 DEF ReviewInv, RunInv
<1>3. CASE ReviewNext
  <2> SUFFICES ReviewTypeOK' /\ TableInv' /\ RunInv'
      BY <1>1 DEF ReviewInv
  <2>1. CASE StagesBegin
      BY <1>1, <2>1, BeginsStep
  <2>2. CASE StagesFinish
      BY <1>1, <2>2, FinishStep, RetryPlanStep, GiveUpPlanStep DEF StagesFinish
  <2>3. CASE CyclesStep
      BY <1>1, <2>3, EnsureStatusStep, AdvanceRunCycleStep, NextCycleStep, SucceedStep, RemediateStep,
         GiveOutStep DEF CyclesStep
  <2>4. CASE ResumeInterrupted
      BY <1>1, <2>4, ResumeInterruptedStep
  <2>5. CASE Abort
      BY <1>1, <2>5, AbortStep
  <2>6. ASSUME NEW a \in AttemptId, TurnStep(a) PROVE ReviewTypeOK' /\ TableInv' /\ RunInv'
      BY <1>1, <2>6, TurnStepStep
  <2>7. CASE ExecuteQueued \/ ResumeRun \/ Crash
      BY <1>1, <2>7, ExecuteQueuedStep, ResumeRunStep, CrashStep
  <2>8. ASSUME NEW why \in Causes, StepFails(why) PROVE ReviewTypeOK' /\ TableInv' /\ RunInv'
      BY <1>1, <2>8, StepFailsStep
  <2>9. ASSUME NEW a \in AttemptId, TurnActsOutside(a) PROVE ReviewTypeOK' /\ TableInv' /\ RunInv'
      BY <1>1, <2>9, TurnActsStep
  <2> QED BY <1>3, <2>1, <2>2, <2>3, <2>4, <2>5, <2>6, <2>7, <2>8, <2>9 DEF ReviewNext, EngineStep, Active
<1> QED BY <1>2, <1>3

\* The table says what work was done and the engine stands where it says, in
\* every state of every run of the engine.
THEOREM ReviewInvariant == ReviewSpec => []ReviewInv
BY ReviewInvInit, ReviewInvStep, PTL DEF ReviewSpec

-----------------------------------------------------------------------------
(* What follows. *)

\* The engine and its process are a client of the store: whatever RunStoreProofs
\* proves of the tables holds of every run of the engine.
THEOREM ReviewImplementsStore == ReviewSpec => StoreSpec
<1>1. ReviewInv /\ [ReviewNext]_reviewVars => [StoreNext]_storeVars
    BY StepImplementsStore DEF ReviewInv
<1> QED BY <1>1, InitImplementsStore, ReviewInvariant, PTL DEF ReviewSpec, StoreSpec

\* Within one research cycle no external work is done twice, however often the
\* run dies, is resumed or its plan is retried.
THEOREM ReviewedWorkIsNotRepeated == ReviewSpec => []ExternalWorkIsTriedOnce
BY ReviewImplementsStore, ExternalWorkIsNotRepeated

\* Only the run that succeeded has adopted output, all of it of the research
\* cycle it succeeded in.
THEOREM ReviewedOutputIsAdopted == ReviewSpec => []OnlyCurrentOutputAdopted
BY ReviewImplementsStore, OnlyCurrentOutputIsAdopted

\* A run succeeds with the very report a passing review of this research cycle
\* was given, over evidence of every workstream.
THEOREM SuccessIsReviewed == ReviewSpec => []SuccessWasReviewed
<1>1. ReviewInv => SuccessWasReviewed
    BY DEF ReviewInv, RunInv
<1> QED BY <1>1, ReviewInvariant, PTL

\* The quality gate gives a run out only when its last verdict has no answer left.
THEOREM GivenOutIsExhausted == ReviewSpec => []GivenOutOnlyWhenExhausted
<1>1. ReviewInv => GivenOutOnlyWhenExhausted
    BY DEF ReviewInv, RunInv
<1> QED BY <1>1, ReviewInvariant, PTL

\* The engine never returns from a run it leaves in flight, and an ordinary end
\* hides no external action.
THEOREM EndIsHonest == ReviewSpec => []EndsAreHonest
<1>1. ReviewInv => EndsAreHonest
    BY WorkingLemma
    DEF EndsAreHonest, ReviewInv, RunInv, EndsAreClean, InFlightStatuses, ActiveStatuses,
        ClosedStatuses, TerminalStatuses
<1> QED BY <1>1, ReviewInvariant, PTL

\* Wherever the process died, what it left can be resumed, unless a stage of the
\* research cycle had already failed.
THEOREM CheckpointIsLeft == ReviewSpec => []CrashLeavesACheckpoint
<1>1. ASSUME ReviewInv PROVE CrashLeavesACheckpoint
  <2>1. SUFFICES ASSUME engine = "loading", \A a \in Live : attempt[a].state # "failed"
                 PROVE  Resumable
      BY DEF CrashLeavesACheckpoint
  <2>2. Active = {} /\ status = "interrupted"
      BY <1>1, <2>1, LoadingLemma, WorkingLemma
  <2>3. ASSUME NEW a \in Live PROVE attempt[a].state = "completed"
    <3>1. attempt[a].state # "in_progress"
        BY <2>2 DEF Active, InProgress, Live
    <3>2. attempt[a].state \notin {"uncertain", "interrupted"}
        BY <1>1, <2>1, <2>2 DEF RecoveredRows, ReviewInv, RunInv, Live
    <3>3. attempt[a].state \in AttemptStates
        BY <1>1 DEF Live, ReviewInv, StoreTypeOK, Attempts
    <3> QED BY <2>1, <3>1, <3>2, <3>3 DEF AttemptStates, Live
  <2> QED BY <1>1, <2>3, CompletedIsResumable DEF ReviewInv
<1> QED BY <1>1, ReviewInvariant, PTL
=============================================================================
