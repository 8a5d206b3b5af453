--------------------------- MODULE EvaluationRun ---------------------------
(***************************************************************************)
(* The live evaluation a release is judged by: the packaged program in an  *)
(* evaluation session, the runner that submits one research run per case   *)
(* and watches them through the HTTP API, its journal and its receipt      *)
(* (internal/evalrunner), and the verifier that judges the durable runs    *)
(* once the program is closed (internal/evalgate, cmd/releaseeval).        *)
(*                                                                         *)
(* Times are counters: a receipt remembers how many ledgers had been       *)
(* prepared and how many sessions opened when it was made.  What the       *)
(* verifier reads of a run besides its row is whether a defect is in it.   *)
(***************************************************************************)
EXTENDS ReleaseLedger

CONSTANTS
    CaseCount,    \* cases of the dataset (twelve in the program)
    Defects,      \* what may be wrong inside a succeeded run; "none" is one
    MaxSets,      \* bound: journals
    MaxSessions,  \* bound: times the program is opened
    MaxRuns,      \* bound: research runs
    MaxRunChanges   \* bound: changes of one run

VARIABLES
    app,          \* the program: open or not, its session, build, opening time
    runs,         \* the research runs in its database
    sets,         \* the runner's journals
    runner,       \* the runner process: its journal and its POST in flight
    runnerReceipts,
    evaluations   \* the verifier's results, with the receipts they judge

evaluationVars == <<app, runs, sets, runner, runnerReceipts, evaluations>>

ASSUME EvaluationAssumption ==
    /\ {CaseCount, MaxSessions, MaxRuns, MaxRunChanges} \subseteq Nat \ {0}
    /\ MaxSets \in Nat
    /\ "none" \in Defects

Cases == 1 .. CaseCount
NoRunner == [set |-> 0, post |-> "none", run |-> 0]

NeedsLiveRuns ==
    required \intersect (CleanVM \union
        {"live_embeddings_shadow", "live_end_to_end", "live_quality_12"}) # {}
NeedsSession == NeedsLiveRuns \/ "live_auth_exact_models" \in required

(***************************************************************************)
(* The program and its runs.  A run ends while the program is open; when   *)
(* it closes or dies a run under way is found interrupted at the next      *)
(* start, and nobody reads the row before.  A run that failed, missed its  *)
(* quality or was interrupted is "stopped": each can be resumed.  in is    *)
(* the set of sessions that worked on the run.                             *)
(***************************************************************************)
NewRun(for, set) ==
    [for |-> for, set |-> set, status |-> "live", rev |-> 1,
     build |-> app.build, in |-> {app.no}, defect |-> "none"]

OpenApp ==
    /\ NeedsSession
    /\ ~app.open /\ app.no < MaxSessions
    /\ app' = [open |-> TRUE, no |-> app.no + 1, build |-> build,
               prepared |-> Prepared]
    /\ UNCHANGED <<ledgerVars, runs, sets, runner, runnerReceipts, evaluations>>

CloseApp ==
    /\ app.open
    /\ app' = [app EXCEPT !.open = FALSE]
    /\ runs' = [i \in DOMAIN runs |->
                  IF runs[i].status = "live"
                  THEN [runs[i] EXCEPT !.status = "stopped", !.rev = @ + 1]
                  ELSE runs[i]]
    /\ UNCHANGED <<ledgerVars, sets, runner, runnerReceipts, evaluations>>

RunEnds(i) ==
    /\ app.open
    /\ runs[i].status = "live"
    /\ \E s \in {"succeeded", "stopped"}, d \in Defects :
          /\ s # "succeeded" => d = "none"
          /\ runs' = [runs EXCEPT ![i].status = s, ![i].defect = d,
                                  ![i].rev = @ + 1]
    /\ UNCHANGED <<ledgerVars, app, sets, runner, runnerReceipts, evaluations>>

(* The user resumes a run the runner may already have seen ended. *)
ResumeRun(i) ==
    /\ app.open
    /\ runs[i].status = "stopped"
    /\ runs[i].rev < MaxRunChanges
    /\ runs' = [runs EXCEPT ![i].status = "live", ![i].rev = @ + 1,
                            ![i].in = @ \union {app.no}]
    /\ UNCHANGED <<ledgerVars, app, sets, runner, runnerReceipts, evaluations>>

(***************************************************************************)
(* The runner's journal: one state per case, appended and synchronised     *)
(* before the step it announces.  A journal remembers the session it was   *)
(* started in: a program started again listens on another port.            *)
(***************************************************************************)
CaseState(state, run, status, rev) ==
    [state |-> state, run |-> run, status |-> status, rev |-> rev]
NotStarted == CaseState("not_started", 0, "none", 0)
Submitting == CaseState("submitting", 0, "none", 0)
Ambiguous  == CaseState("ambiguous", 0, "none", 0)

ObservedTerminal(status) == status # "live"
Settled(c) == c.state \in {"terminal", "ambiguous", "submission_failed"}
RunnerComplete(set) == \A c \in Cases : Settled(set.cases[c])

(* The dataset's order: the first case not submitted yet. *)
NextCase(set) ==
    CHOOSE c \in Cases : /\ set.cases[c].state = "not_started"
                         /\ \A d \in 1 .. c - 1 :
                               set.cases[d].state # "not_started"

JournalMatches(set) == set.build = build /\ set.session = app.no
Preflight == app.open /\ app.build = build
Reaches(set) == app.open /\ app.no = set.session

CreateJournal ==
    /\ NeedsLiveRuns
    /\ runner = NoRunner
    /\ app.open
    /\ Len(sets) < MaxSets
    /\ sets' = Append(sets, [build |-> build, session |-> app.no,
                             cases |-> [c \in Cases |-> NotStarted]])
    /\ runner' = IF Preflight
                 THEN [NoRunner EXCEPT !.set = Len(sets) + 1] ELSE NoRunner
    /\ UNCHANGED <<ledgerVars, app, runs, runnerReceipts, evaluations>>

(* A submission whose outcome a dead runner did not record is never made   *)
(* again.                                                                  *)
ResolvedCrash(set) ==
    [set EXCEPT !.cases = [c \in Cases |-> IF @[c].state = "submitting"
                                           THEN Ambiguous ELSE @[c]]]

(* Variant: the submission is made again. *)
RetriedCrash(set) ==
    [set EXCEPT !.cases = [c \in Cases |-> IF @[c].state = "submitting"
                                           THEN NotStarted ELSE @[c]]]

ResolveCrashSubmitting(set) == ResolvedCrash(set)

ResumeJournal(n) ==
    /\ runner = NoRunner
    /\ JournalMatches(sets[n]) /\ Preflight
    /\ sets' = [sets EXCEPT ![n] = ResolveCrashSubmitting(@)]
    /\ runner' = [NoRunner EXCEPT !.set = n]
    /\ UNCHANGED <<ledgerVars, app, runs, runnerReceipts, evaluations>>

Driving == runner.set # 0
Journal == sets[runner.set]
Record(c, event) == sets' = [sets EXCEPT ![runner.set].cases[c] = event]

SubmitIntent ==
    /\ Driving /\ runner.post = "none"
    /\ \E c \in Cases : Journal.cases[c].state = "not_started"
    /\ Record(NextCase(Journal), Submitting)
    /\ runner' = [runner EXCEPT !.post = "sent"]
    /\ UNCHANGED <<ledgerVars, app, runs, runnerReceipts, evaluations>>

Submitted == CHOOSE c \in Cases : Journal.cases[c].state = "submitting"

(* The program inserts the run the POST asks for. *)
AcceptPost ==
    /\ runner.post = "sent"
    /\ Reaches(Journal)
    /\ Len(runs) < MaxRuns
    /\ runs' = Append(runs, NewRun(Submitted, runner.set))
    /\ runner' = [runner EXCEPT !.post = "accepted", !.run = Len(runs) + 1]
    /\ UNCHANGED <<ledgerVars, app, sets, runnerReceipts, evaluations>>

(* The answer: the run; an error status, with which the run may still have *)
(* been inserted; or no answer that can be read.                           *)
PostAnswered ==
    /\ Driving /\ runner.post # "none"
    /\ \/ /\ runner.post = "accepted"
          /\ Record(Submitted, CaseState("started", runner.run, "live", 1))
       \/ Record(Submitted, CaseState("submission_failed", 0, "none", 0))
       \/ Record(Submitted, Ambiguous)
    /\ runner' = [NoRunner EXCEPT !.set = runner.set]
    /\ UNCHANGED <<ledgerVars, app, runs, runnerReceipts, evaluations>>

AllSubmitted ==
    /\ Driving /\ runner.post = "none"
    /\ \A c \in Cases : Journal.cases[c].state # "not_started"

(* The row as GET returned it; an error of the request ends the runner. *)
PollStarted(c) ==
    /\ AllSubmitted
    /\ Journal.cases[c].state = "started"
    /\ Reaches(Journal)
    /\ LET run == runs[Journal.cases[c].run]
           now == CaseState(IF ObservedTerminal(run.status)
                            THEN "terminal" ELSE "started",
                            Journal.cases[c].run, run.status, run.rev)
       IN  /\ run.build = Journal.build
           /\ now # Journal.cases[c]
           /\ Record(c, now)
    /\ UNCHANGED <<ledgerVars, app, runs, runner, runnerReceipts, evaluations>>

RunnerDies ==
    /\ Driving
    /\ runner' = NoRunner
    /\ UNCHANGED <<ledgerVars, app, runs, sets, runnerReceipts, evaluations>>

(* A receipt is written even when its set can never be verified; a         *)
(* complete journal that is resumed gives a further receipt, of later.     *)
BuildReceipt(n) ==
    [set |-> n, build |-> sets[n].build, session |-> sets[n].session,
     cases |-> sets[n].cases, prepared |-> Prepared]

FinishSet ==
    /\ AllSubmitted
    /\ RunnerComplete(Journal)
    /\ Cardinality(runnerReceipts) < MaxReceipts
    /\ runnerReceipts' = runnerReceipts \union {BuildReceipt(runner.set)}
    /\ runner' = NoRunner
    /\ UNCHANGED <<ledgerVars, app, runs, sets, evaluations>>

Eligible(rr) == \A c \in Cases : rr.cases[c].state = "terminal"

(* LoadReceipt: an eligible receipt of this build, each run named once. *)
ReceiptIsLive(rr, b) ==
    /\ Eligible(rr)
    /\ rr.build = b
    /\ \A c, d \in Cases : rr.cases[c].run = rr.cases[d].run => c = d

(***************************************************************************)
(* The verifier, with the program closed and kept closed.                  *)
(***************************************************************************)

(* The row is as the runner last saw it: its status and when it changed. *)
SameRow(item, c) ==
    /\ runs[item.run].status = item.status
    /\ runs[item.run].rev = item.rev

(* Variant: any later state of the run will do. *)
SameCase(item, c) == runs[item.run].for = c

AsObserved(item, c) == SameRow(item, c)

RunnerExecutionHolds(rr) ==
    \A c \in Cases : LET item == rr.cases[c]
                     IN  /\ runs[item.run].build = rr.build
                         /\ runs[item.run].for = c
                         /\ AsObserved(item, c)

CaseHolds(run) == run.status = "succeeded" /\ run.defect = "none"

(* verify-runner: the result is written in either case, the evidence only  *)
(* when every case passed.                                                 *)
VerifyRunner(l, rr) ==
    /\ ~app.open
    /\ LedgerBound(l, "live_quality_12")
    /\ ReceiptIsLive(rr, build)
    /\ RunnerExecutionHolds(rr)
    /\ Cardinality(evaluations) < MaxReceipts
    /\ LET passed == \A c \in Cases : CaseHolds(runs[rr.cases[c].run])
           evaluation == [set |-> rr.set, receipt |-> rr, build |-> build,
                          passed |-> passed, prepared |-> Prepared,
                          sessions |-> app.no]
       IN  /\ evaluations' = evaluations \union {evaluation}
           /\ IF passed
              THEN WriteReceipt(NewReceipt("live_quality_12", l, l.build, {},
                     [n \in EvidencePolicy("live_quality_12") |->
                        IF n = "evaluation" THEN evaluation ELSE rr],
                     [NothingSeen EXCEPT !.builds = {rr.build}]))
              ELSE UNCHANGED receipts
    /\ UNCHANGED <<required, build, tree, ledgers, tool, admission>>
    /\ UNCHANGED <<app, runs, sets, runner, runnerReceipts>>

EvaluationInit ==
    /\ app = [open |-> FALSE, no |-> 0, build |-> 0, prepared |-> 0]
    /\ runs = <<>> /\ sets = <<>>
    /\ runner = NoRunner
    /\ runnerReceipts = {} /\ evaluations = {}

EvaluationNext ==
    /\ admission = None
    /\ \/ OpenApp \/ CloseApp
       \/ \E i \in DOMAIN runs : RunEnds(i) \/ ResumeRun(i)
       \/ CreateJournal
       \/ \E n \in DOMAIN sets : ResumeJournal(n)
       \/ SubmitIntent \/ AcceptPost \/ PostAnswered
       \/ \E c \in Cases : PollStarted(c)
       \/ RunnerDies \/ FinishSet
       \/ \E l \in ledgers, rr \in runnerReceipts : VerifyRunner(l, rr)

(***************************************************************************)
(* Properties.                                                             *)
(***************************************************************************)

(* A set that passed asked the program for each case exactly once,         *)
(* whatever the runner lived through: killed between the intent and the    *)
(* answer, resumed, its POST accepted without a readable answer            *)
(* (evalrunner/runner.go resolveCrashSubmitting, submitNotStarted).        *)
CaseRunsOnce ==
    \A e \in evaluations : e.passed =>
        \A c \in Cases :
            Cardinality({i \in DOMAIN runs :
                            runs[i].set = e.set /\ runs[i].for = c}) = 1

(* Every run of a passed evaluation ran from its start to its success in   *)
(* the one session the runner watched: a run the runner saw fail, and      *)
(* somebody resumed afterwards, does not count                             *)
(* (evalgate/runner_execution.go VerifyRunnerExecution).                   *)
EvaluatedInOneSession ==
    \A e \in evaluations : e.passed =>
        \A c \in Cases : runs[e.receipt.cases[c].run].in = {e.receipt.session}
=============================================================================
