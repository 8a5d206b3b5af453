--------------------------- MODULE KnowledgeGraph ---------------------------
(***************************************************************************)
(* The knowledge graph of one project (internal/knowledge on the store):   *)
(* generations are built beside the one the head points to and replace it  *)
(* in one transaction.  A generation is built from a succeeded run         *)
(* (AdoptRun) or by a rebuild; edits are first tried in a disposable       *)
(* generation.  The mutation guard lets one of these jobs run at a time,   *)
(* but not the changes of the documents, the indexing of a run, the        *)
(* recovery of unadopted runs and the verification of snapshots, which     *)
(* only write the head's status.  The process may end between any two      *)
(* transactions.                                                           *)
(*                                                                         *)
(* A generation holds the patches of runs, the edits and the documents     *)
(* that were projected into it.                                            *)
(***************************************************************************)
EXTENDS Naturals, Sequences, FiniteSets, FiniteSetsExt, SequencesExt

CONSTANTS
    Runs, Edits, Docs,
    MaxGenerations,   \* bound on the generations before a user's request that adds one
    MaxOntology,      \* bound on the activations of a new ontology
    MaxMishaps        \* bound on the crashes and the errors of files, turns and sidecar

VARIABLES
    gens,      \* knowledge_generations, in the order of their creation
    head,      \* project_knowledge_heads: the generation and its status
    ledger,    \* knowledge_curation_events: the generation an edit targets, or 0
    docs,      \* documents: "out" or "in" (graph_adopt), "gone" when forgotten
    ontology,  \* the active ontology version
    runs,      \* the project's runs
    indexed,   \* runs whose documents are in the memory index
    engine,    \* what follows the success of a run: the run and its step
    rec,       \* RecoverSuccessfulRunAdoptions: its step and its list
    job,       \* the holder of the mutation guard
    phase,     \* the start of the program
    mishaps    \* crashes and errors that happened

vars == <<gens, head, ledger, docs, ontology, runs, indexed, engine, rec, job, phase, mishaps>>

None == "none"

ASSUME KnowledgeAssumption ==
    /\ None \notin Runs
    /\ IsFiniteSet(Runs)
    /\ MaxOntology \in Nat /\ MaxMishaps \in Nat

NoJob == [kind |-> None, by |-> "user", item |-> None, seen |-> "ready",
          gen |-> 0, docs |-> {}, step |-> None]
NoWork == [run |-> None, step |-> None]
NoRecovery == [step |-> None, queue |-> <<>>]

GenerationStates == {"building", "validating", "ready", "retired", "failed"}
Unfinished == {"building", "validating"}
Usable == {"ready", "retired"}
HeadStatuses == {"ready", "stale", "failed"}

\* The head always points to a validated generation, and every other one
\* that was validated is waiting or retired.
KnowledgeTypeOK ==
    /\ \A g \in DOMAIN gens : gens[g] \in
          [state : GenerationStates, origin : {"root", "run", "rebuild", "scratch"},
           ontology : 0..MaxOntology, run : Runs \cup {None},
           batch : {None, "open", "applied", "failed"}, snapshot : BOOLEAN,
           holds : SUBSET (Runs \cup Edits \cup Docs)]
    /\ head \in [gen : DOMAIN gens, status : HeadStatuses]
    /\ gens[head.gen].state = "ready" /\ gens[head.gen].snapshot
    /\ ledger \in [Edits -> {0} \cup {g \in DOMAIN gens : gens[g].state \in Usable}]
    /\ docs \in [Docs -> {"out", "in", "gone"}]
    /\ ontology \in 0..MaxOntology
    /\ runs \in [Runs -> {"none", "open", "succeeded"}]
    /\ indexed \subseteq {r \in Runs : runs[r] = "succeeded"}
    /\ engine \in [run : Runs \cup {None}, step : {None, "index", "adopt", "adopting"}]
    /\ rec.step \in {None, "next", "quarantine", "index", "adopt", "adopting"}
    /\ rec.queue \in Seq(Runs)
    /\ job.kind \in {None, "adopt", "rebuild", "edit"}
    /\ job.gen \in {0} \cup DOMAIN gens
    /\ phase \in {"scratch", "heads", "adoptions", "open"}
    /\ mishaps \in 0..MaxMishaps

NewGeneration(origin) ==
    [state |-> "building", origin |-> origin, ontology |-> ontology, run |-> None,
     batch |-> None, snapshot |-> FALSE, holds |-> {}]

\* A project is created with a validated generation of its ontology alone.
Init ==
    /\ gens = <<[state |-> "ready", origin |-> "root", ontology |-> 0, run |-> None,
                 batch |-> None, snapshot |-> TRUE, holds |-> {}]>>
    /\ head = [gen |-> 1, status |-> "ready"]
    /\ ledger = [e \in Edits |-> 0]
    /\ docs = [d \in Docs |-> "out"]
    /\ ontology = 0
    /\ runs = [r \in Runs |-> "none"]
    /\ indexed = {}
    /\ engine = NoWork
    /\ rec = NoRecovery
    /\ job = NoJob
    /\ phase = "open"
    /\ mishaps = 0

-----------------------------------------------------------------------------
(* Operations of the store. *)

MarkHead(status) == head' = [head EXCEPT !.status = status]

SetGen(g, field, value) == [gens EXCEPT ![g][field] = value]

\* The rows of a generation can be written only while it is building: every
\* table of a projection has the lock.
Building(g) == gens[g].state = "building"

\* The rows of one validated patch.
AppendProjection(g, rows) == SetGen(g, "holds", gens[g].holds \cup rows)

OpenBatch(g) == SetGen(g, "batch", "open")

\* A candidate is given up with the batches it has not finished.
GivenUp(gen) == [gen EXCEPT !.state = "failed", !.batch = IF @ = "open" THEN "failed" ELSE @]

\* The generations that carry the applied receipt of a run.
Receipts(r, states) == {g \in DOMAIN gens : gens[g].run = r /\ gens[g].state \in states}

\* Variant: only the active generation is searched.
AppliedToTheHead(r) == IF gens[head.gen].run = r THEN head.gen ELSE 0

\* AppliedKnowledgeForRun: the active one, a ready one, the newest.
Applied(r) ==
    LET found == Receipts(r, Usable)
        ready == Receipts(r, {"ready"})
    IN  CASE found = {} -> 0
          [] head.gen \in found -> head.gen
          [] head.gen \notin found /\ ready # {} -> Max(ready)
          [] OTHER -> Max(found)

\* PendingSucceededRunAdoptions.
IsPending(r) ==
    /\ runs[r] = "succeeded"
    /\ \/ Receipts(r, Usable) = {}
       \/ head.status # "ready" /\ Receipts(r, {"ready"}) \ {head.gen} # {}

PendingAdoptions == SetToSeq({r \in Runs : IsPending(r)})

AdoptedDocs == {d \in Docs : docs[d] = "in"}
HeldDocs(g) == gens[g].holds \cap Docs

\* The transaction of ActivateKnowledgeGeneration with its trigger.  It reads
\* the head it replaces, whatever its caller had read before.
Activate(g, current) ==
    /\ head' = [gen |-> g, status |-> "ready"]
    /\ gens' = IF g = head.gen THEN current
               ELSE [current EXCEPT ![g].state = "ready", ![head.gen].state = "retired"]

\* A row of the ledger or of a document that was projected and is no longer
\* adopted makes the copy of the projection abort.
Copyable == HeldDocs(head.gen) \subseteq AdoptedDocs

PendingEdits(g) == {e \in Edits : ledger[e] = g}

\* The projection of a generation with its pending edits applied.
Curated(g) == gens[g].holds \cup PendingEdits(g)

Mishap ==
    /\ mishaps < MaxMishaps
    /\ mishaps' = mishaps + 1

Serving == phase = "open"
OpenRun == \E r \in Runs : runs[r] = "open"

-----------------------------------------------------------------------------
(* The caller of a job learns its result: the goroutine of the run, the    *)
(* recovery, which leaves the rest of the project's list after a failure,  *)
(* or the user.                                                            *)

\* Variant: a failed run is tried again instead of blocking its project.
AnswerRetried(caller, ok) ==
    CASE caller = "engine" -> engine' = NoWork /\ UNCHANGED rec
      [] caller = "recovery" ->
            /\ rec' = [step |-> "next", queue |-> IF ok THEN Tail(rec.queue) ELSE rec.queue]
            /\ UNCHANGED engine
      [] caller = "user" -> UNCHANGED <<engine, rec>>

Answer(caller, ok) ==
    CASE caller = "engine" -> engine' = NoWork /\ UNCHANGED rec
      [] caller = "recovery" ->
            /\ rec' = [step |-> "next", queue |-> IF ok THEN Tail(rec.queue) ELSE <<>>]
            /\ UNCHANGED engine
      [] caller = "user" -> UNCHANGED <<engine, rec>>

CallerWaits(caller) ==
    CASE caller = "engine" -> engine' = [engine EXCEPT !.step = "adopting"] /\ UNCHANGED rec
      [] caller = "recovery" -> rec' = [rec EXCEPT !.step = "adopting"] /\ UNCHANGED engine

Calls(caller, r) ==
    CASE caller = "engine" -> engine = [run |-> r, step |-> "adopt"]
      [] caller = "recovery" -> rec.step = "adopt" /\ Head(rec.queue) = r

Callers == {"engine", "recovery"}

GuardIsFree == job.kind = None

-----------------------------------------------------------------------------
(* AdoptRun before it claims the head. *)

\* The guard is taken: the error leaves the head as it is.
AdoptIsBusy(caller, r) ==
    /\ Calls(caller, r)
    /\ ~GuardIsFree
    /\ Answer(caller, FALSE)
    /\ UNCHANGED <<gens, head, ledger, docs, ontology, runs, indexed, job, phase, mishaps>>

\* The receipt is already in a generation.  One that is ready but not active
\* is activated while the head is not ready; otherwise nothing is left to do.
AdoptFindsReceipt(caller, r) ==
    LET g == Applied(r)
        waiting == g # 0 /\ g # head.gen /\ gens[g].state = "ready"
    IN  /\ Calls(caller, r)
        /\ GuardIsFree
        /\ g # 0
        /\ \/ /\ waiting /\ head.status # "ready"
              /\ Activate(g, gens)
              /\ Answer(caller, TRUE)
           \/ /\ ~(waiting /\ head.status # "ready")
              /\ Answer(caller, head.status # "failed")
              /\ UNCHANGED <<gens, head>>
        /\ UNCHANGED <<ledger, docs, ontology, runs, indexed, job, phase, mishaps>>

\* Errors before the candidate exists: the sidecar or the store fails, the
\* head has failed, or an adopted document was never projected.  Only the
\* last one, which comes after the receipts were looked up, marks the head.
AdoptIsRefused(caller, r) ==
    /\ Calls(caller, r)
    /\ GuardIsFree
    /\ \/ /\ Mishap
          /\ UNCHANGED head
       \/ /\ Applied(r) = 0
          /\ head.status = "failed"
          /\ UNCHANGED <<head, mishaps>>
       \/ /\ Applied(r) = 0
          /\ head.status # "failed"
          /\ ~(AdoptedDocs \subseteq HeldDocs(head.gen))
          /\ MarkHead("stale")
          /\ UNCHANGED mishaps
    /\ Answer(caller, FALSE)
    /\ UNCHANGED <<gens, ledger, docs, ontology, runs, indexed, job, phase>>

AdoptBegins(caller, r) ==
    /\ Calls(caller, r)
    /\ GuardIsFree
    /\ Applied(r) = 0
    /\ head.status # "failed"
    /\ AdoptedDocs \subseteq HeldDocs(head.gen)
    /\ job' = [NoJob EXCEPT !.kind = "adopt", !.by = caller, !.item = r,
                            !.seen = head.status, !.step = "claim"]
    /\ CallerWaits(caller)
    /\ UNCHANGED <<gens, head, ledger, docs, ontology, runs, indexed, phase, mishaps>>

JobIs(kind, step) == job.kind = kind /\ job.step = step
NextStep(step) == job' = [job EXCEPT !.step = step]

\* SetKnowledgeHeadStatus compares the revision that was read; every write of
\* the status while the guard is held moves a ready head to another status.
ClaimHead ==
    /\ JobIs("adopt", "claim")
    /\ job.seen = "ready" => head.status = "ready"
    /\ IF job.seen = "ready" THEN MarkHead("stale") ELSE UNCHANGED head
    /\ NextStep("create")
    /\ UNCHANGED <<gens, ledger, docs, ontology, runs, indexed, engine, rec, phase, mishaps>>

-----------------------------------------------------------------------------
(* A candidate of AdoptRun or Rebuild, one transaction after the other.    *)

CreateCandidate ==
    /\ job.step = "create"
    /\ gens' = Append(gens, NewGeneration(IF job.kind = "adopt" THEN "run" ELSE "rebuild"))
    /\ job' = [job EXCEPT !.gen = Len(gens) + 1, !.step = "copy"]
    /\ UNCHANGED <<head, ledger, docs, ontology, runs, indexed, engine, rec, phase, mishaps>>

Candidate == gens[job.gen]

\* copyActiveProjection and applyPendingCuration.
CopyAndCurate ==
    /\ job.kind \in {"adopt", "rebuild"} /\ job.step = "copy"
    /\ Copyable
    /\ Building(job.gen)
    /\ gens' = SetGen(job.gen, "holds", Curated(head.gen))
    /\ NextStep("project")
    /\ UNCHANGED <<head, ledger, docs, ontology, runs, indexed, engine, rec, phase, mishaps>>

\* The projection of the run's patch, then the receipt that it was applied.
ProjectPatch ==
    /\ JobIs("adopt", "project")
    /\ Building(job.gen)
    /\ gens' = [AppendProjection(job.gen, {job.item}) EXCEPT ![job.gen].run = job.item]
    /\ NextStep("publish")
    /\ UNCHANGED <<head, ledger, docs, ontology, runs, indexed, engine, rec, phase, mishaps>>

\* projectPinnedDocuments: the documents are listed, a batch is recorded and
\* the turns of the extractor and of the reviewer follow.
BeginExtraction ==
    /\ JobIs("rebuild", "project")
    /\ LET pending == AdoptedDocs \ HeldDocs(head.gen)
       IN  /\ pending # {} => Building(job.gen)
           /\ gens' = IF pending = {} THEN gens ELSE OpenBatch(job.gen)
           /\ job' = [job EXCEPT !.docs = pending,
                                 !.step = IF pending = {} THEN "publish" ELSE "extract"]
    /\ UNCHANGED <<head, ledger, docs, ontology, runs, indexed, engine, rec, phase, mishaps>>

ApplyExtraction ==
    /\ JobIs("rebuild", "extract")
    /\ job.docs \subseteq AdoptedDocs
    /\ Building(job.gen)
    /\ gens' = [AppendProjection(job.gen, job.docs) EXCEPT ![job.gen].batch = "applied"]
    /\ NextStep("publish")
    /\ UNCHANGED <<head, ledger, docs, ontology, runs, indexed, engine, rec, phase, mishaps>>

PublishSnapshot ==
    /\ job.step = "publish"
    /\ Building(job.gen)
    /\ gens' = SetGen(job.gen, "snapshot", TRUE)
    /\ NextStep("validate")
    /\ UNCHANGED <<head, ledger, docs, ontology, runs, indexed, engine, rec, phase, mishaps>>

Validate ==
    /\ job.step = "validate"
    /\ Building(job.gen)
    /\ gens' = SetGen(job.gen, "state", "validating")
    /\ NextStep("load")
    /\ UNCHANGED <<head, ledger, docs, ontology, runs, indexed, engine, rec, phase, mishaps>>

\* The sidecar loads the snapshot and the generation becomes ready.
BecomeReady ==
    /\ job.step = "load"
    /\ Candidate.state = "validating"
    /\ gens' = SetGen(job.gen, "state", "ready")
    /\ NextStep("swap")
    /\ UNCHANGED <<head, ledger, docs, ontology, runs, indexed, engine, rec, phase, mishaps>>

SwapHead ==
    /\ job.step = "swap"
    /\ Activate(job.gen, gens)
    /\ job' = NoJob
    /\ Answer(job.by, TRUE)
    /\ UNCHANGED <<ledger, docs, ontology, runs, indexed, phase, mishaps>>

\* Why the next transaction of the job cannot succeed: the head moved, a
\* document of the copied projection is no longer adopted, or the recovery
\* has failed the candidate.
Prevented ==
    \/ JobIs("adopt", "claim") /\ job.seen = "ready" /\ head.status # "ready"
    \/ job.step = "copy" /\ ~Copyable
    \/ JobIs("rebuild", "extract") /\ ~(job.docs \subseteq AdoptedDocs)
    \/ job.gen # 0 /\ job.step # "copy" /\ Candidate.state = "failed"

\* The deferred functions of AdoptRun and Rebuild: an unfinished candidate
\* fails; AdoptRun leaves the head stale, Rebuild leaves it as it is.
JobFails ==
    /\ job.kind \in {"adopt", "rebuild"}
    /\ \/ Prevented /\ UNCHANGED mishaps
       \/ Mishap
    /\ gens' = IF job.gen # 0 /\ Candidate.state \in Unfinished
               THEN [gens EXCEPT ![job.gen] = GivenUp(@)]
               ELSE gens
    /\ IF job.kind = "adopt" THEN MarkHead("stale") ELSE UNCHANGED head
    /\ job' = NoJob
    /\ Answer(job.by, FALSE)
    /\ UNCHANGED <<ledger, docs, ontology, runs, indexed, phase>>

-----------------------------------------------------------------------------
(* Rebuild before its candidate. *)

\* Generations whose snapshot and extraction are complete and which were not
\* activated.
SnapshotComplete ==
    {g \in DOMAIN gens \ {head.gen} :
        gens[g].state \in Unfinished \cup {"ready"} /\ gens[g].snapshot /\ gens[g].batch = "applied"}

\* recoverSnapshotCompletePinnedCandidate.
RebuildRecovers ==
    /\ Serving /\ GuardIsFree
    /\ SnapshotComplete # {}
    /\ LET g == Max(SnapshotComplete)
       IN  \/ /\ Activate(g, SetGen(g, "state", "ready"))
              /\ UNCHANGED mishaps
           \/ /\ Mishap
              /\ gens' = IF gens[g].state \in Unfinished THEN SetGen(g, "state", "failed") ELSE gens
              /\ UNCHANGED head
    /\ UNCHANGED <<ledger, docs, ontology, runs, indexed, engine, rec, job, phase>>

\* quarantineIncompletePinnedCandidates and quarantineIncompleteRebuild-
\* Candidates, whose contract is that of the active ontology.
Quarantined(g) ==
    /\ gens[g].state \in Unfinished
    /\ \/ gens[g].batch # None
       \/ gens[g].origin = "rebuild" /\ gens[g].ontology = ontology

RebuildBegins ==
    /\ Serving /\ GuardIsFree
    /\ SnapshotComplete = {}
    /\ Len(gens) < MaxGenerations
    /\ gens' = [g \in DOMAIN gens |->
                  IF Quarantined(g) THEN GivenUp(gens[g]) ELSE gens[g]]
    /\ job' = [NoJob EXCEPT !.kind = "rebuild", !.step = "create"]
    /\ UNCHANGED <<head, ledger, docs, ontology, runs, indexed, engine, rec, phase, mishaps>>

-----------------------------------------------------------------------------
(* Edits, ontology and documents. *)

\* ApplyEdit tries the edit in a disposable generation of the head's
\* ontology, which must still be the active one.
BeginEdit(e) ==
    /\ Serving /\ GuardIsFree
    /\ ledger[e] = 0
    /\ gens[head.gen].ontology = ontology
    /\ Len(gens) < MaxGenerations
    /\ gens' = Append(gens, NewGeneration("scratch"))
    /\ job' = [NoJob EXCEPT !.kind = "edit", !.item = e, !.gen = Len(gens) + 1, !.step = "copy"]
    /\ UNCHANGED <<head, ledger, docs, ontology, runs, indexed, engine, rec, phase, mishaps>>

\* The disposable generation is removed and the edit appended to the ledger
\* of the head's generation.
AppendCuration ==
    /\ JobIs("edit", "copy")
    /\ Copyable
    /\ gens' = Front(gens)
    /\ ledger' = [ledger EXCEPT ![job.item] = head.gen]
    /\ MarkHead("stale")
    /\ job' = NoJob
    /\ UNCHANGED <<docs, ontology, runs, indexed, engine, rec, phase, mishaps>>

RejectEdit ==
    /\ JobIs("edit", "copy")
    /\ \/ ~Copyable /\ UNCHANGED mishaps
       \/ Mishap
    /\ gens' = Front(gens)
    /\ job' = NoJob
    /\ UNCHANGED <<head, ledger, docs, ontology, runs, indexed, engine, rec, phase>>

\* Variant: the mutation guard is not acquired.
ActivateOntologyUnguarded ==
    /\ Serving
    /\ ontology < MaxOntology
    /\ ontology' = ontology + 1
    /\ MarkHead("stale")
    /\ UNCHANGED <<gens, ledger, docs, runs, indexed, engine, rec, job, phase, mishaps>>

ActivateOntology ==
    /\ Serving /\ GuardIsFree
    /\ ontology < MaxOntology
    /\ ontology' = ontology + 1
    /\ MarkHead("stale")
    /\ UNCHANGED <<gens, ledger, docs, runs, indexed, engine, rec, job, phase, mishaps>>

\* UpdatePinnedMaterialGraphAdopt takes no guard.
ChangeAdoption(d) ==
    /\ Serving /\ ~OpenRun
    /\ docs[d] # "gone"
    /\ docs' = [docs EXCEPT ![d] = IF @ = "in" THEN "out" ELSE "in"]
    /\ MarkHead("stale")
    /\ UNCHANGED <<gens, ledger, ontology, runs, indexed, engine, rec, job, phase, mishaps>>

\* ForgetMemoryDocument keeps the row, no longer adopted, while a generation
\* refers to it and deletes it otherwise.
ForgetDocument(d) ==
    /\ Serving /\ ~OpenRun
    /\ docs[d] # "gone"
    /\ docs' = [docs EXCEPT ![d] = "gone"]
    /\ IF docs[d] = "in" /\ \E g \in DOMAIN gens : d \in gens[g].holds
       THEN MarkHead("stale") ELSE UNCHANGED head
    /\ UNCHANGED <<gens, ledger, ontology, runs, indexed, engine, rec, job, phase, mishaps>>

\* A reader finds that the head's snapshot does not verify.
SnapshotFailsVerification ==
    /\ Serving
    /\ Mishap
    /\ MarkHead("failed")
    /\ UNCHANGED <<gens, ledger, docs, ontology, runs, indexed, engine, rec, job, phase>>

-----------------------------------------------------------------------------
(* Runs and what follows their success. *)

Submit(r) ==
    /\ Serving
    /\ runs[r] = "none"
    /\ head.status = "ready"
    /\ runs' = [runs EXCEPT ![r] = "open"]
    /\ UNCHANGED <<gens, head, ledger, docs, ontology, indexed, engine, rec, job, phase, mishaps>>

\* The dispatcher works on one run of the project at a time.
Succeed(r) ==
    /\ Serving
    /\ runs[r] = "open"
    /\ engine = NoWork
    /\ runs' = [runs EXCEPT ![r] = "succeeded"]
    /\ engine' = [run |-> r, step |-> "index"]
    /\ UNCHANGED <<gens, head, ledger, docs, ontology, indexed, rec, job, phase, mishaps>>

\* A run that ends otherwise is never adopted: r may stand for the next one.
EndOtherwise(r) ==
    /\ Serving
    /\ runs[r] = "open"
    /\ runs' = [runs EXCEPT ![r] = "none"]
    /\ UNCHANGED <<gens, head, ledger, docs, ontology, indexed, engine, rec, job, phase, mishaps>>

\* IndexRun: a new document is rejected while another run of the project is
\* not terminal.
CanIndex(r) == r \in indexed \/ ~OpenRun

IndexRun ==
    /\ engine.step = "index"
    /\ CanIndex(engine.run)
    /\ indexed' = indexed \cup {engine.run}
    /\ engine' = [engine EXCEPT !.step = "adopt"]
    /\ UNCHANGED <<gens, head, ledger, docs, ontology, runs, rec, job, phase, mishaps>>

IndexRunFails ==
    /\ engine.step = "index"
    /\ \/ ~CanIndex(engine.run) /\ UNCHANGED mishaps
       \/ Mishap
    /\ IF head.status = "failed" THEN UNCHANGED head ELSE MarkHead("stale")
    /\ engine' = NoWork
    /\ UNCHANGED <<gens, ledger, docs, ontology, runs, indexed, rec, job, phase>>

-----------------------------------------------------------------------------
(* RecoverSuccessfulRunAdoptions, at the start and when the user stores the *)
(* key of the embeddings.                                                   *)

ListPending ==
    /\ rec = NoRecovery
    /\ rec' = [step |-> "next", queue |-> PendingAdoptions]
    /\ UNCHANGED <<gens, head, ledger, docs, ontology, runs, indexed, engine, job, phase, mishaps>>

ListAtStart == phase = "adoptions" /\ ListPending

KeyStored == Serving /\ Len(gens) < MaxGenerations /\ ListPending

RecoverNext ==
    /\ rec.step = "next"
    /\ rec.queue # <<>>
    /\ IF head.status = "ready" THEN MarkHead("stale") ELSE UNCHANGED head
    /\ rec' = [rec EXCEPT !.step = "quarantine"]
    /\ UNCHANGED <<gens, ledger, docs, ontology, runs, indexed, engine, job, phase, mishaps>>

\* FailIncompleteRunKnowledgeCandidates: only candidates with the receipt.
RecoverQuarantines ==
    /\ rec.step = "quarantine"
    /\ gens' = [g \in DOMAIN gens |->
                  IF g \in Receipts(Head(rec.queue), Unfinished)
                  THEN [gens[g] EXCEPT !.state = "failed"] ELSE gens[g]]
    /\ rec' = [rec EXCEPT !.step = "index"]
    /\ UNCHANGED <<head, ledger, docs, ontology, runs, indexed, engine, job, phase, mishaps>>

RecoverIndexes ==
    /\ rec.step = "index"
    /\ CanIndex(Head(rec.queue))
    /\ indexed' = indexed \cup {Head(rec.queue)}
    /\ rec' = [rec EXCEPT !.step = "adopt"]
    /\ UNCHANGED <<gens, head, ledger, docs, ontology, runs, engine, job, phase, mishaps>>

RecoverIndexFails ==
    /\ rec.step = "index"
    /\ \/ ~CanIndex(Head(rec.queue)) /\ UNCHANGED mishaps
       \/ Mishap
    /\ Answer("recovery", FALSE)
    /\ UNCHANGED <<gens, head, ledger, docs, ontology, runs, indexed, job, phase>>

RecoveryEnds ==
    /\ rec.step = "next"
    /\ rec.queue = <<>>
    /\ rec' = NoRecovery
    /\ phase' = "open"
    /\ UNCHANGED <<gens, head, ledger, docs, ontology, runs, indexed, engine, job, mishaps>>

-----------------------------------------------------------------------------
(* The process ends; the next start. *)

Crash ==
    /\ Mishap
    /\ engine' = NoWork
    /\ rec' = NoRecovery
    /\ job' = NoJob
    /\ phase' = "scratch"
    /\ UNCHANGED <<gens, head, ledger, docs, ontology, runs, indexed>>

\* RecoverCurationValidationCandidates deletes a disposable generation, the
\* last one when there is one.
RemoveScratch ==
    /\ phase = "scratch"
    /\ gens' = IF Last(gens).origin = "scratch" THEN Front(gens) ELSE gens
    /\ phase' = "heads"
    /\ UNCHANGED <<head, ledger, docs, ontology, runs, indexed, engine, rec, job, mishaps>>

\* RecoverSchemaOnlyHeads: a head whose snapshot verifies becomes ready,
\* whatever made it stale; one that does not verify fails.
RecoverHead ==
    /\ phase = "heads"
    /\ \/ Activate(head.gen, gens) /\ UNCHANGED mishaps
       \/ Mishap /\ MarkHead("failed") /\ UNCHANGED gens
    /\ phase' = "adoptions"
    /\ UNCHANGED <<ledger, docs, ontology, runs, indexed, engine, rec, job>>

-----------------------------------------------------------------------------

AdoptCall(caller, r) ==
    \/ AdoptIsBusy(caller, r) \/ AdoptFindsReceipt(caller, r)
    \/ AdoptIsRefused(caller, r) \/ AdoptBegins(caller, r)

JobStep ==
    \/ ClaimHead \/ CreateCandidate \/ CopyAndCurate \/ ProjectPatch
    \/ BeginExtraction \/ ApplyExtraction \/ PublishSnapshot \/ Validate
    \/ BecomeReady \/ SwapHead \/ JobFails \/ AppendCuration \/ RejectEdit

RecoveryStep ==
    \/ RecoverNext \/ RecoverQuarantines \/ RecoverIndexes \/ RecoverIndexFails
    \/ RecoveryEnds
    \/ \E r \in Runs : AdoptCall("recovery", r)

StartStep == RemoveScratch \/ RecoverHead \/ ListAtStart

EngineStep == IndexRun \/ IndexRunFails \/ \E r \in Runs : AdoptCall("engine", r)

UserStep ==
    \/ RebuildRecovers \/ RebuildBegins \/ ActivateOntology \/ SnapshotFailsVerification
    \/ KeyStored
    \/ \E e \in Edits : BeginEdit(e)
    \/ \E d \in Docs : ChangeAdoption(d) \/ ForgetDocument(d)
    \/ \E r \in Runs : Submit(r) \/ Succeed(r) \/ EndOtherwise(r)

Next == JobStep \/ RecoveryStep \/ StartStep \/ EngineStep \/ UserStep \/ Crash

Spec == Init /\ [][Next]_vars

\* A start, the recovery it waits for and the job that recovery began run on:
\* they are one goroutine until the program is open.
FairSpec == Spec /\ WF_vars(StartStep \/ RecoveryStep \/ JobStep)

-----------------------------------------------------------------------------
(* Properties. *)

\* However often and by whomever a run is adopted, and wherever the process
\* ends, the patch of its report is applied to at most one generation that
\* can become or was active (recovery.go:34).
PatchAppliedOnce == \A r \in Runs : Cardinality(Receipts(r, Usable)) <= 1

\* A job that swaps the head loses nothing the head held, applies every edit
\* that was accepted on it and uses the ontology that is active at the swap,
\* although all three were read many transactions earlier.
SwapKeepsTheLedger ==
    [][SwapHead =>
        /\ Curated(head.gen) \subseteq gens[job.gen].holds
        /\ gens[job.gen].ontology = ontology]_vars

\* The recovery at the start ends and the program opens, whatever fails in it
\* (recovery.go:18).
StartupCompletes == phase # "open" ~> phase = "open"

\* A validated candidate that a crash left ready is activated by the recovery
\* of the start: a ready head does not hide it (store/adoption.go:93).
CrashedAdoptionIsFinished ==
    phase = "open" /\ head.status = "ready" =>
        \A r \in Runs : Receipts(r, {"ready"}) \ {head.gen} # {} => r \in gens[head.gen].holds
=============================================================================
