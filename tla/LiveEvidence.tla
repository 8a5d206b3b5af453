---------------------------- MODULE LiveEvidence ----------------------------
(***************************************************************************)
(* The evidence that needs the live program: the account and its models    *)
(* (internal/liveauthevidence), the rebuilding of a project's vector index *)
(* (internal/liveembeddingsevidence), one research run from end to end     *)
(* (internal/livee2eevidence), and the campaign in a clean virtual machine *)
(* (internal/cleanvmevidence); composed with the ledger, the evaluation    *)
(* and the evidence about the candidate.                                   *)
(*                                                                         *)
(* The first observation that fails ends a producer for good: its journal  *)
(* was created exclusively and is never resumed (Abandon).  The second     *)
(* half, with the program closed, reads what the first half left.          *)
(***************************************************************************)
EXTENDS EvaluationRun, CandidateEvidence

CONSTANT MaxReindexes  \* bound: rebuilds of the index

ASSUME LiveAssumption == MaxReindexes \in Nat

VARIABLE index  \* how often the program rebuilt the project's vector index

allVars == <<ledgerVars, evaluationVars, jobs, index>>

(* The evidence session: its descriptor names a process that is still      *)
(* there and runs the candidate.                                           *)
SessionBound == app.open /\ app.build = build
StillThere(job) == app.open /\ app.no = job.with.session.no

LiveStep(g, fact) ==
    jobs' = [jobs EXCEPT ![g] = Observed(@, fact, {app.build}, {})]

LeavesRuns == UNCHANGED evaluationVars

(***************************************************************************)
(* The account and the exact models.                                       *)
(***************************************************************************)
AuthPlan == <<"account", "status">>

BeginAuth(l) ==
    /\ SessionBound
    /\ Begin("live_auth_exact_models", l, [session |-> app])
    /\ LeavesRuns /\ UNCHANGED index

AuthStep ==
    LET g == "live_auth_exact_models"
    IN  /\ Working(g) /\ jobs[g].at < 2
        /\ StillThere(jobs[g])
        /\ LiveStep(g, AuthPlan[jobs[g].at + 1])
        /\ ChangesJob /\ LeavesRuns /\ UNCHANGED index

FinishAuth ==
    LET g == "live_auth_exact_models"
    IN  /\ Working(g) /\ jobs[g].at = 2
        /\ StillThere(jobs[g])
        /\ build = jobs[g].build
        /\ WriteReceipt(NewReceipt(g, jobs[g].tip, build,
              jobs[g].shows, [n \in EvidencePolicy(g) |-> jobs[g].with.session],
              jobs[g].saw))
        /\ EndsJob(g) /\ LeavesRuns /\ UNCHANGED index

(***************************************************************************)
(* The vector index, rebuilt once in the runner's own session, with the    *)
(* documents its runs left.  Every run that succeeds brings documents.     *)
(***************************************************************************)
Shadow == "live_embeddings_shadow"
Documents == Cardinality({i \in DOMAIN runs : runs[i].status = "succeeded"})

BeginShadow(l, rr) ==
    /\ SessionBound
    /\ ReceiptIsLive(rr, build)
    /\ rr.prepared >= l.prep
    /\ app.no = rr.session
    /\ Documents > 0
    /\ Begin(Shadow, l, [session |-> app, runner |-> rr,
                         documents |-> Documents, index |-> index])
    /\ LeavesRuns /\ UNCHANGED index

(* The POST; once it is on its way the index may be rebuilt although the   *)
(* producer never learns of it.                                            *)
SubmitReindex ==
    /\ Working(Shadow) /\ jobs[Shadow].at = 0
    /\ StillThere(jobs[Shadow])
    /\ build = jobs[Shadow].build
    /\ index < MaxReindexes
    /\ index' = index + 1
    /\ LiveStep(Shadow, "reindexed")
    /\ ChangesJob /\ LeavesRuns

(* One revision further, a new active index, and the documents the same. *)
IndexAsObserved(job) ==
    /\ index = job.with.index + 1
    /\ Documents = job.with.documents

SearchIndex ==
    /\ Working(Shadow) /\ jobs[Shadow].at = 1
    /\ StillThere(jobs[Shadow])
    /\ IndexAsObserved(jobs[Shadow])
    /\ build = jobs[Shadow].build
    /\ LiveStep(Shadow, "searched")
    /\ ChangesJob /\ LeavesRuns /\ UNCHANGED index

(* With the program closed: the durable documents and vectors are still    *)
(* those of the live observation.                                          *)
FinalizeShadow ==
    LET job == jobs[Shadow]
    IN  /\ Working(Shadow) /\ job.at = 2
        /\ ~app.open
        /\ build = job.build
        /\ IndexAsObserved(job)
        /\ WriteReceipt(NewReceipt(Shadow, job.tip, build,
              ShadowContract,
              [n \in EvidencePolicy(Shadow) |->
                 IF n = "memory-index" THEN index ELSE job.with.runner],
              job.saw))
        /\ EndsJob(Shadow) /\ LeavesRuns /\ UNCHANGED index

(***************************************************************************)
(* One research run from end to end, in a session opened after the         *)
(* evaluation was verified.                                                *)
(***************************************************************************)
Live == "live_end_to_end"

(* The evaluation judges the receipt it names; the session started no      *)
(* earlier than it was verified.                                           *)
LaterSession(e) == app.no > e.sessions

BeginLive(l, e) ==
    /\ SessionBound
    /\ ReceiptIsLive(e.receipt, build)
    /\ e.receipt.prepared >= l.prep
    /\ e.passed /\ e.build = build
    /\ LaterSession(e)
    /\ Begin(Live, l, [session |-> app, evaluation |-> e, run |-> 0, rev |-> 0])
    /\ LeavesRuns /\ UNCHANGED index

(* The POST is made once for the journal.                                  *)
SubmitLiveRun ==
    /\ Working(Live) /\ jobs[Live].at = 0
    /\ StillThere(jobs[Live])
    /\ build = jobs[Live].build
    /\ Len(runs) < MaxRuns
    /\ runs' = Append(runs, NewRun("live", 0))
    /\ jobs' = [jobs EXCEPT ![Live] =
                  [Observed(@, "submitted", {app.build}, {})
                     EXCEPT !.with.run = Len(runs) + 1]]
    /\ ChangesJob
    /\ UNCHANGED <<app, sets, runner, runnerReceipts, evaluations, index>>

ObserveLiveRun ==
    LET run == runs[jobs[Live].with.run]
    IN  /\ Working(Live) /\ jobs[Live].at = 1
        /\ StillThere(jobs[Live])
        /\ run.status = "succeeded"
        /\ build = jobs[Live].build
        /\ jobs' = [jobs EXCEPT ![Live] =
                      [Observed(@, "succeeded", {app.build}, {})
                         EXCEPT !.with.rev = run.rev]]
        /\ ChangesJob /\ LeavesRuns /\ UNCHANGED index

(* The query and the edit of the run's graph, each a POST of its own. *)
QueryAndEdit ==
    /\ Working(Live) /\ jobs[Live].at = 2
    /\ StillThere(jobs[Live])
    /\ build = jobs[Live].build
    /\ LiveStep(Live, "edited")
    /\ ChangesJob /\ LeavesRuns /\ UNCHANGED index

(* What the second half finds in the durable run: its row as observed, and *)
(* no defect in its stages, sources, solver receipts and graph.            *)
DurableRunHolds(job) ==
    /\ runs[job.with.run].status = "succeeded"
    /\ runs[job.with.run].rev = job.with.rev
    /\ runs[job.with.run].build = job.build
StagesVerified(run)  == run.defect # "stages"
SourcesVerified(run) == run.defect # "sources"
SolverVerified(run)  == run.defect # "solver"
GraphVerified(run)   == run.defect # "graph"

FinalizeLive ==
    LET job == jobs[Live]
        run == runs[job.with.run]
    IN  /\ Working(Live) /\ job.at = 3
        /\ ~app.open
        /\ build = job.build
        /\ DurableRunHolds(job)
        /\ StagesVerified(run) /\ SourcesVerified(run)
        /\ SolverVerified(run) /\ GraphVerified(run)
        /\ WriteReceipt(NewReceipt(Live, job.tip, build, LiveContract,
              [n \in EvidencePolicy(Live) |->
                 CASE n = "runner-receipt" -> job.with.evaluation.receipt
                   [] n = "evaluation"     -> job.with.evaluation
                   [] n = "session"        -> job.with.session
                   [] n = "run"            -> job.with.run],
              job.saw))
        /\ EndsJob(Live) /\ LeavesRuns /\ UNCHANGED index

(***************************************************************************)
(* The clean virtual machine.  The build host seals the tree and names the *)
(* ledger; the campaign installs a package, of whatever build, and takes   *)
(* its notes (one that misses something comes to nothing); the end         *)
(* compares the package with the ledger.  Neither the candidate's          *)
(* directory nor the tree is looked at again.                              *)
(***************************************************************************)
CaptureHostReference(g, l) ==
    /\ g \in CleanVM
    /\ ~Working(g) /\ RowOpen(l, g) /\ ChainHolds(l)
    /\ jobs' = [jobs EXCEPT ![g] = Job(l, [package |-> 0])]
    /\ ChangesJob /\ LeavesRuns /\ UNCHANGED index

RunCampaign(g) ==
    /\ g \in CleanVM /\ Working(g) /\ jobs[g].at = 0
    /\ \E package \in 1 .. build :
          jobs' = [jobs EXCEPT ![g] =
                     [@ EXCEPT !.at = 1, !.with.package = package,
                               !.saw.builds = {package},
                               !.saw.trees = {jobs[g].tree},
                               !.shows = CleanVMContract]]
    /\ ChangesJob /\ LeavesRuns /\ UNCHANGED index

FinalizeCampaign(g, e) ==
    LET job == jobs[g]
    IN  /\ g \in CleanVM /\ Working(g) /\ job.at = 1
        /\ job.with.package = job.tip.build
        /\ job.shows = CleanVMContract
        /\ ReceiptIsLive(e.receipt, job.tip.build)
        /\ e.passed /\ e.build = job.tip.build
        /\ WriteReceipt(NewReceipt(g, job.tip, job.tip.build, job.shows,
              [n \in EvidencePolicy(g) |->
                 CASE n = "source-tree"    -> job.tree
                   [] n = "runner-receipt" -> e.receipt
                   [] n = "evaluation"     -> e
                   [] n = "package"        -> job.with.package],
              job.saw))
        /\ EndsJob(g) /\ LeavesRuns /\ UNCHANGED index

LiveNext ==
    /\ admission = None
    /\ \/ \E l \in ledgers : BeginAuth(l)
       \/ "live_auth_exact_models" \in required /\ (AuthStep \/ FinishAuth)
       \/ \E l \in ledgers, rr \in runnerReceipts : BeginShadow(l, rr)
       \/ Shadow \in required /\ (SubmitReindex \/ SearchIndex \/ FinalizeShadow)
       \/ \E l \in ledgers, e \in evaluations : BeginLive(l, e)
       \/ Live \in required
             /\ (SubmitLiveRun \/ ObserveLiveRun \/ QueryAndEdit \/ FinalizeLive)
       \/ \E g \in CleanVM \intersect required :
             \/ \E l \in ledgers : CaptureHostReference(g, l)
             \/ RunCampaign(g)
             \/ \E e \in evaluations : FinalizeCampaign(g, e)

Init ==
    /\ LedgerInit
    /\ EvaluationInit
    /\ CandidateInit
    /\ index = 0

Next ==
    \/ LedgerNext /\ UNCHANGED <<evaluationVars, jobs, index>>
    \/ EvaluationNext /\ UNCHANGED <<jobs, index>>
    \/ CandidateNext /\ UNCHANGED <<evaluationVars, index>>
    \/ LiveNext

ReleaseSpec == Init /\ [][Next]_allVars

(***************************************************************************)
(* Properties.                                                             *)
(***************************************************************************)

ReleaseTypeOK ==
    /\ required \in Policies
    /\ build \in 1 .. MaxBuilds /\ tree \in 1 .. MaxTrees
    /\ \A l \in ledgers : l.prep \in 1 .. MaxPrepares /\ l.build \in 1 .. MaxBuilds
    /\ \A r \in receipts : r.gate \in required /\ r.build \in 1 .. MaxBuilds
    /\ DOMAIN jobs = required
    /\ app.no \in 0 .. MaxSessions
    /\ \A i \in DOMAIN runs :
          runs[i].status \in {"live", "succeeded", "stopped"}

(* The gates whose observation used the source tree. *)
TreeGates == {g \in required : UsesSourceTree(g)}

(* A release is admitted on evidence of one build and one source: each     *)
(* gate's evidence passed and ran nothing but the build of the admitted    *)
(* ledger, and all the gates that tested the source tested the same tree,  *)
(* although each gate was observed, attached and checked again at a        *)
(* different moment, with the tree and the candidate free to change        *)
(* between (releasegate.go Verify, verifyEvidenceDetailsForLedger).        *)
AdmissionRestsOnOneBuild ==
    admission # None =>
        LET row == admission.ledger.rows
        IN  /\ \A g \in required :
                  /\ row[g] # None /\ row[g].gate = g
                  /\ row[g].saw.builds \subseteq {admission.ledger.build}
            /\ \A g, h \in TreeGates : row[g].saw.trees = row[h].saw.trees

(* The run of the end-to-end evidence succeeded within one session, which  *)
(* ran the named build and was opened after every run of the evaluation it *)
(* rests on had ended: what was judged and what was shown cannot be one    *)
(* sitting with the program (livee2eevidence/live.go authenticateLiveInputs*)
(* and validateEvaluation, offline.go FinalizeOffline).                    *)
LiveRunFollowsEvaluation ==
    \A r \in receipts : r.gate = Live =>
        LET run == runs[r.names["run"]]
            judged == r.names["evaluation"].receipt
        IN  /\ run.status = "succeeded" /\ run.build = r.build
            /\ run.in = {r.names["session"].no}
            /\ \A c \in Cases : \A s \in runs[judged.cases[c].run].in :
                  s < r.names["session"].no
=============================================================================
