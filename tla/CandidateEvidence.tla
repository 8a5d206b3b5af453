------------------------- MODULE CandidateEvidence -------------------------
(***************************************************************************)
(* The programs that observe the packaged candidate, or the source tree it *)
(* was built from, on the build host and write a receipt: the local gates  *)
(* (internal/localreleaseevidence), the black-box campaign                 *)
(* (cmd/packagedblackbox), the production update feed                      *)
(* (internal/productionfeed) and the incompatible host                     *)
(* (internal/su2hostevidence).                                             *)
(*                                                                         *)
(* A producer seals what it is about, observes one thing after another     *)
(* and seals again.  The candidate and the tree can change in between, and *)
(* the producer can be killed: what it reserved stays, empty, and another  *)
(* may start.                                                              *)
(***************************************************************************)
EXTENDS ReleaseLedger

VARIABLE jobs  \* per gate: the producer at work, or NoJob

NoJob == [tip |-> NoLedger]

Job(l, with) ==
    [tip |-> l, build |-> build, tree |-> tree, at |-> 0, shows |-> {},
     saw |-> NothingSeen, with |-> with]

Working(g) == jobs[g] # NoJob
ChangesJob == UNCHANGED <<required, build, tree, ledgers, receipts, tool, admission>>
EndsJob(g) ==
    /\ jobs' = [jobs EXCEPT ![g] = NoJob]
    /\ UNCHANGED <<required, build, tree, ledgers, tool, admission>>

Begin(g, l, with) ==
    /\ g \in required /\ ~Working(g)
    /\ LedgerBound(l, g)
    /\ jobs' = [jobs EXCEPT ![g] = Job(l, with)]
    /\ ChangesJob

(* One observation shows its fact by looking at these builds and trees.    *)
Observed(job, fact, builds, trees) ==
    [job EXCEPT !.at = @ + 1,
                !.shows = @ \union {fact},
                !.saw.builds = @ \union builds,
                !.saw.trees = @ \union trees]

(* The producer is killed, or an observation fails.  A local gate and the  *)
(* black-box campaign go on after a failure and write a receipt that says  *)
(* "failed", with which nothing can be done; the others write none.        *)
Abandon(g) ==
    /\ Working(g)
    /\ EndsJob(g)
    /\ UNCHANGED receipts

(***************************************************************************)
(* The fixed plan of each gate, and what an observation looks at.          *)
(***************************************************************************)
LocalPlan(g) ==
    CASE g = "local_source_tests" -> <<"toolchain", "source_suite">>
      [] g = "gate0_windows_host" -> <<"packaged_gate0", "root_removed">>
      [] g = "rag_50000"          -> <<"toolchain", "rag_test", "root_removed">>
      [] OTHER -> <<"toolchain", "contracts", "forced_exit">>

(* Kill a seeded program and let it recover; tamper with its runtime and   *)
(* its sidecar.                                                            *)
CampaignPlan == <<"forced_termination_recovery", "tamper">>
FeedPlan == <<"trusted", "fetched", "staged", "activated", "root_removed">>
HostPlan == <<"incompatible", "preflight_refused">>

ObservedHere ==
    LocalGates \union {"packaged_blackbox", "production_update_feed",
                       "incompatible_su2_host"}

Plan(g) == CASE g \in LocalGates               -> LocalPlan(g)
             [] g = "packaged_blackbox"        -> CampaignPlan
             [] g = "production_update_feed"   -> FeedPlan
             [] OTHER                          -> HostPlan

(* The observations that start the candidate's executable.  The feed       *)
(* campaign asks it only for its embedded trust root.                      *)
RunsCandidate(fact) ==
    fact \in {"packaged_gate0", "forced_termination_recovery", "tamper",
              "trusted", "preflight_refused"}

BeginLocal(g, l) == g \in LocalGates /\ Begin(g, l, None)
BeginPackaged(l) == Begin("packaged_blackbox", l, None)
BeginFeed(l)     == Begin("production_update_feed", l, None)
BeginHost(l)     == Begin("incompatible_su2_host", l, None)

Observe(g) ==
    /\ g \in ObservedHere /\ Working(g)
    /\ jobs[g].at < Len(Plan(g))
    /\ LET fact == Plan(g)[jobs[g].at + 1]
       IN  jobs' = [jobs EXCEPT ![g] =
                      Observed(@, fact,
                               IF RunsCandidate(fact) THEN {build} ELSE {},
                               IF UsesSourceTree(g) THEN {tree} ELSE {})]
    /\ ChangesJob

ObservedAll(g) == Working(g) /\ jobs[g].at = Len(Plan(g))

(***************************************************************************)
(* The candidate and the tree are sealed again; then the receipt.          *)
(***************************************************************************)
Unchanged(g) ==
    /\ build = jobs[g].build
    /\ UsesSourceTree(g) => tree = jobs[g].tree

(* Variant: only the candidate is. *)
SameCandidate(g) == build = jobs[g].build

Reauthenticated(g) == Unchanged(g)

LocalNames(g) ==
    [n \in EvidencePolicy(g) |->
       IF n = "source-tree" THEN jobs[g].tree ELSE jobs[g].build]

FinishLocal(g) ==
    /\ g \in LocalGates /\ ObservedAll(g)
    /\ Reauthenticated(g)
    /\ WriteReceipt(NewReceipt(g, jobs[g].tip, build, jobs[g].shows,
                               LocalNames(g), jobs[g].saw))
    /\ EndsJob(g)

FinishPackaged ==
    LET g == "packaged_blackbox"
    IN  /\ ObservedAll(g)
        /\ Reauthenticated(g)
        /\ WriteReceipt(NewReceipt(g, jobs[g].tip, jobs[g].tip.build,
              jobs[g].shows \union {"candidate_stability", "fixture_cleanup"},
              <<>>, jobs[g].saw))
        /\ EndsJob(g)

FinishFeedOrHost(g) ==
    /\ g \in {"production_update_feed", "incompatible_su2_host"}
    /\ ObservedAll(g)
    /\ Reauthenticated(g)
    /\ WriteReceipt(NewReceipt(g, jobs[g].tip, build, jobs[g].shows,
          [n \in EvidencePolicy(g) |-> jobs[g].tip], jobs[g].saw))
    /\ EndsJob(g)

CandidateInit == jobs = [g \in required |-> NoJob]

CandidateNext ==
    /\ admission = None
    /\ \/ \E l \in ledgers :
             \/ \E g \in LocalGates : BeginLocal(g, l)
             \/ BeginPackaged(l) \/ BeginFeed(l) \/ BeginHost(l)
       \/ \E g \in required :
             \/ Observe(g)
             \/ FinishLocal(g)
             \/ FinishFeedOrHost(g)
             \/ Abandon(g)
       \/ "packaged_blackbox" \in required /\ FinishPackaged

(***************************************************************************)
(* Properties.                                                             *)
(***************************************************************************)

(* Evidence that passed was gathered from nothing but what it names: every *)
(* run of the candidate ran the ledger's build and every command that used *)
(* the source used the tree whose hash the receipt carries, although both  *)
(* may change at any moment of the observation                             *)
(* (localreleaseevidence/evidence_windows.go generate,                     *)
(* packagedblackbox/main_windows.go run, productionfeed, su2hostevidence). *)
EvidenceSawWhatItNames ==
    \A r \in receipts :
        /\ r.saw.builds \subseteq {r.build}
        /\ UsesSourceTree(r.gate) => r.saw.trees \subseteq {r.names["source-tree"]}
=============================================================================
