--------------------------- MODULE ProjectMemory ---------------------------
(***************************************************************************)
(* One project's memory: the documents it can retrieve, the embedding      *)
(* index they are retrieved through, the shadow index a reindexing fills   *)
(* beside it, and the content-addressed files and the registry rows that   *)
(* hold the bytes (src/internal/store/memory.go, memory_shadow.go and      *)
(* materials.go, src/internal/memory/service.go, src/internal/cas).        *)
(*                                                                         *)
(* Every database method is one transaction, hence one action; the calls   *)
(* that put several of them together (PinMaterial, IndexRun,               *)
(* ReindexProject) are sequences of actions between which the other        *)
(* callers, and a crash, take their turns.  A document has one chunk, so   *)
(* an index is complete when its vectors cover the ready documents.  A     *)
(* deleted document, a finished run and an index that was retired or       *)
(* failed are never read again: their identifiers return to the pool.      *)
(***************************************************************************)
EXTENDS Naturals, FiniteSets

CONSTANTS
    Docs,       \* document identifiers
    Blobs,      \* contents, named by their SHA-256
    Indexes,    \* embedding index identifiers
    Runs,       \* the project's runs that are not yet terminal
    None,       \* no blob, no index, no run
    MaxCrashes  \* bound: process ends

ASSUME MemoryAssumption ==
    /\ None \notin Blobs \cup Indexes \cup Runs
    /\ IsFiniteSet(Docs) /\ IsFiniteSet(Indexes)
    /\ MaxCrashes \in Nat

VARIABLES
    files,      \* the objects the CAS directory holds
    registry,   \* rows of the blobs table
    reachable,  \* the set ReconcileBlobRegistry hands to the CAS at startup
    docs,       \* rows of documents: status, blob, whether from an artifact
    cited,      \* documents a knowledge generation refers to
    pins,       \* the indexing calls in flight, by the document they make
    indexes,    \* rows of embedding_indexes: "none", "building" or "active"
    vectors,    \* rows of embeddings, by index
    head,       \* the row of project_memory_heads
    reindex,    \* the ReindexProject call in flight
    runs,       \* rows of runs: status, output and whether it was accepted
    adopted,    \* blobs of artifacts, accepted or of a succeeded run
    phase,      \* "up", or how far the start has come
    crashes     \* process ends so far

memoryVars == <<files, registry, reachable, docs, cited, pins, indexes, vectors,
                head, reindex, runs, adopted, phase, crashes>>
storeVars  == <<files, registry, reachable, adopted>>
indexVars  == <<indexes, vectors, head>>
envVars    == <<phase, crashes>>

NoDoc  == [status |-> "none", blob |-> None, artifact |-> FALSE]
NoPin  == [stage |-> "idle", blob |-> None, artifact |-> FALSE]
NoRun  == [status |-> "none", output |-> None, accepted |-> FALSE]
NoWork == [stage |-> "idle", index |-> None, todo |-> {}]

MemoryTypeOK ==
    /\ files \subseteq Blobs /\ registry \subseteq Blobs
    /\ reachable \subseteq Blobs /\ cited \subseteq Docs
    /\ docs \in [Docs -> [status : {"none", "ready", "forgotten"},
                          blob : Blobs \cup {None}, artifact : BOOLEAN]]
    /\ pins \in [Docs -> [stage : {"idle", "allowed", "stored", "registered"},
                          blob : Blobs \cup {None}, artifact : BOOLEAN]]
    /\ indexes \in [Indexes -> {"none", "building", "active"}]
    /\ vectors \in [Indexes -> SUBSET Docs]
    /\ head \in [active : Indexes \cup {None}, shadow : Indexes \cup {None},
                 state : {"empty", "ready", "reindexing", "failed"}]
    /\ reindex \in [stage : {"idle", "begun", "filling"},
                    index : Indexes \cup {None}, todo : SUBSET Docs]
    /\ runs \in [Runs -> [status : {"none", "queued", "working", "interrupted"},
                          output : Blobs \cup {None}, accepted : BOOLEAN]]
    /\ adopted \in [Blobs -> {"none", "accepted", "succeeded"}]
    /\ phase \in {"up", "down", "opened", "registry", "files"}
    /\ crashes \in 0..MaxCrashes

MemoryInit ==
    /\ files = {} /\ registry = {} /\ reachable = {} /\ cited = {}
    /\ docs = [d \in Docs |-> NoDoc]
    /\ pins = [d \in Docs |-> NoPin]
    /\ indexes = [i \in Indexes |-> "none"]
    /\ vectors = [i \in Indexes |-> {}]
    /\ head = [active |-> None, shadow |-> None, state |-> "empty"]
    /\ reindex = NoWork
    /\ runs = [r \in Runs |-> NoRun]
    /\ adopted = [b \in Blobs |-> "none"]
    /\ phase = "up" /\ crashes = 0

-----------------------------------------------------------------------------
(* What the transactions read. *)

\* The documents the project retrieves.
Ready == {d \in Docs : docs[d].status = "ready"}

\* The runs that are neither terminal nor absent.
Blocking == {r \in Runs : runs[r].status # "none"}

\* The shadow indexes being filled.
Building == {i \in Indexes : indexes[i] = "building"}

\* Variant: only runs are looked for, not a shadow index.
MutationAllowedDuringReindex == Blocking = {}

\* rejectMemoryMutationWithProjectWork: documents change only while the
\* project has no unfinished run and no shadow index.
MutationAllowed == Blocking = {} /\ Building = {}

\* The blobs of documents, tombstones included, and of what runs stored.
DocumentBlobs(ds) == {ds[d].blob : d \in {e \in Docs : ds[e].status # "none"}}
RunBlobs == {b \in Blobs : adopted[b] # "none"}
                \cup {runs[r].output : r \in {q \in Runs : runs[q].accepted}}

\* blobReferenceCount, asked inside the deletion, of the rows that are left.
StillReferenced(b, left) == b \in DocumentBlobs(left) \cup RunBlobs

\* Variant: the query forgets the stages of a run not yet over.
ReachableWithoutStages ==
    DocumentBlobs(docs) \cup {b \in Blobs : adopted[b] # "none"}

\* The query of ReconcileBlobRegistry.
Reachable == DocumentBlobs(docs) \cup RunBlobs

\* recordActiveMemoryMutation: a reindexing or a failure stays on the head.
MutatedHead(i) ==
    [head EXCEPT !.active = i,
                 !.state = IF @ \in {"reindexing", "failed"} THEN @ ELSE "ready",
                 !.shadow = IF head.state = "reindexing" THEN @ ELSE None]

\* The check of ActivateShadowIndex: one vector per chunk of a ready document.
CountsMatch(i) == Ready # {} /\ Cardinality(vectors[i]) = Cardinality(Ready)

-----------------------------------------------------------------------------
(* Adding documents: PinMaterial and, from its third step, IndexRun. *)

\* PinMaterial begins: the memory must be free before bytes are stored.
BeginPin(d, b) ==
    /\ phase = "up" /\ MutationAllowed
    /\ docs[d].status = "none" /\ pins[d].stage = "idle"
    /\ pins' = [pins EXCEPT ![d] = [stage |-> "allowed", blob |-> b, artifact |-> FALSE]]
    /\ UNCHANGED <<storeVars, docs, cited, indexVars, reindex, runs, envVars>>

\* PutReader: the object is written, or is found already there.
PutMaterial(d) ==
    /\ phase = "up" /\ pins[d].stage = "allowed"
    /\ files' = files \cup {pins[d].blob}
    /\ pins' = [pins EXCEPT ![d].stage = "stored"]
    /\ UNCHANGED <<registry, reachable, adopted, docs, cited, indexVars, reindex,
                   runs, envVars>>

\* The object is read back and verified, and then registered.
RegisterMaterial(d) ==
    /\ phase = "up" /\ pins[d].stage = "stored" /\ pins[d].blob \in files
    /\ registry' = registry \cup {pins[d].blob}
    /\ pins' = [pins EXCEPT ![d].stage = "registered"]
    /\ UNCHANGED <<files, reachable, adopted, docs, cited, indexVars, reindex, runs,
                   envVars>>

\* IndexRun takes an artifact of a succeeded run that has no document yet;
\* it reads the object before it asks for the embeddings.
BeginIndexRun(d, b) ==
    /\ phase = "up" /\ adopted[b] = "succeeded" /\ b \in files
    /\ docs[d].status = "none" /\ pins[d].stage = "idle"
    /\ ~\E e \in Ready : docs[e].artifact /\ docs[e].blob = b
    /\ pins' = [pins EXCEPT ![d] = [stage |-> "registered", blob |-> b, artifact |-> TRUE]]
    /\ UNCHANGED <<storeVars, docs, cited, indexVars, reindex, runs, envVars>>

\* IndexDocument, after the embeddings came back: the guard is checked again,
\* the blob must still be registered, an artifact must be of a succeeded run,
\* and the vectors go into the active index, made if there is none.
IndexDocument(d) ==
    LET b == pins[d].blob IN
    /\ phase = "up" /\ pins[d].stage = "registered" /\ MutationAllowed
    /\ b \in registry
    /\ pins[d].artifact => adopted[b] = "succeeded"
    /\ \E i \in Indexes :
        /\ IF head.active = None THEN indexes[i] = "none" ELSE i = head.active
        /\ indexes' = [indexes EXCEPT ![i] = "active"]
        /\ vectors' = [vectors EXCEPT ![i] = @ \cup {d}]
        /\ head' = MutatedHead(i)
    /\ docs' = [docs EXCEPT ![d] = [status |-> "ready", blob |-> b,
                                    artifact |-> pins[d].artifact]]
    /\ pins' = [pins EXCEPT ![d] = NoPin]
    /\ UNCHANGED <<storeVars, cited, reindex, runs, envVars>>

\* A refusal, a failed embedding request or a cancelled call: nothing that
\* was stored or registered is taken back.
AbandonPin(d) ==
    /\ phase = "up" /\ pins[d].stage # "idle"
    /\ pins' = [pins EXCEPT ![d] = NoPin]
    /\ UNCHANGED <<storeVars, docs, cited, indexVars, reindex, runs, envVars>>

-----------------------------------------------------------------------------
(* Removing documents. *)

\* A knowledge generation projects a ready document.
CiteDocument(d) ==
    /\ phase = "up" /\ d \in Ready \ cited
    /\ cited' = cited \cup {d}
    /\ UNCHANGED <<storeVars, docs, pins, indexVars, reindex, runs, envVars>>

\* ForgetMemoryDocument of a document the graph cites leaves a tombstone: the
\* row, its chunks and its vectors stay.
Tombstone(d) ==
    /\ phase = "up" /\ MutationAllowed /\ d \in Ready \cap cited
    /\ docs' = [docs EXCEPT ![d].status = "forgotten"]
    /\ head' = MutatedHead(head.active)
    /\ UNCHANGED <<storeVars, cited, pins, indexes, vectors, reindex, runs, envVars>>

\* Of any other it deletes the row, the chunks and the vectors, and the
\* registry row of a blob nothing refers to.  The object stays until the next
\* start: a call that finds it there may be about to register it.
DeleteDocument(d) ==
    LET left == [docs EXCEPT ![d] = NoDoc]
        b    == docs[d].blob
    IN
    /\ phase = "up" /\ MutationAllowed /\ d \in Ready \ cited
    /\ docs' = left
    /\ vectors' = [i \in Indexes |-> vectors[i] \ {d}]
    /\ head' = MutatedHead(head.active)
    /\ registry' = IF StillReferenced(b, left) THEN registry ELSE registry \ {b}
    /\ UNCHANGED <<files, reachable, adopted, cited, pins, indexes, reindex, runs,
                   envVars>>

-----------------------------------------------------------------------------
(* ReindexProject. *)

\* BeginShadowIndex: refused while a run is unfinished or another shadow
\* index is being filled.
BeginShadowIndex(i) ==
    /\ phase = "up" /\ reindex.stage = "idle"
    /\ Blocking = {} /\ Building = {} /\ indexes[i] = "none"
    /\ indexes' = [indexes EXCEPT ![i] = "building"]
    /\ head' = [head EXCEPT !.shadow = i, !.state = "reindexing"]
    /\ reindex' = [stage |-> "begun", index |-> i, todo |-> {}]
    /\ UNCHANGED <<storeVars, docs, cited, pins, vectors, runs, envVars>>

\* ShadowChunks lists what is to be embedded.
ShadowChunks ==
    /\ phase = "up" /\ reindex.stage = "begun"
    /\ reindex' = [reindex EXCEPT !.stage = "filling",
                                  !.todo = Ready \ vectors[reindex.index]]
    /\ UNCHANGED <<storeVars, docs, cited, pins, indexVars, runs, envVars>>

\* AddShadowEmbeddings: one batch, each chunk of a document still ready.
AddShadowEmbeddings(d) ==
    /\ phase = "up" /\ reindex.stage = "filling" /\ d \in reindex.todo
    /\ indexes[reindex.index] = "building" /\ d \in Ready
    /\ vectors' = [vectors EXCEPT ![reindex.index] = @ \cup {d}]
    /\ reindex' = [reindex EXCEPT !.todo = @ \ {d}]
    /\ UNCHANGED <<storeVars, docs, cited, pins, indexes, head, runs, envVars>>

\* The old active index is retired and the shadow takes its place.
Activate(i) ==
    /\ indexes' = [j \in Indexes |-> IF j = i THEN "active" ELSE "none"]
    /\ vectors' = [j \in Indexes |-> IF j = i THEN vectors[i] ELSE {}]
    /\ head' = [active |-> i, shadow |-> None, state |-> "ready"]

\* FailShadowIndex: the active index is left as it is.
FailShadow(i) ==
    /\ indexes' = [indexes EXCEPT ![i] = "none"]
    /\ vectors' = [vectors EXCEPT ![i] = {}]
    /\ head' = [head EXCEPT !.shadow = None, !.state = "failed"]

\* ActivateShadowIndex at the end of the call, or the failure it records.
FinishReindex ==
    /\ phase = "up" /\ reindex.stage = "filling" /\ reindex.todo = {}
    /\ IF CountsMatch(reindex.index) THEN Activate(reindex.index)
                                     ELSE FailShadow(reindex.index)
    /\ reindex' = NoWork
    /\ UNCHANGED <<storeVars, docs, cited, pins, runs, envVars>>

\* Any error on the way, or the cancellation of the call.
ReindexFails ==
    /\ phase = "up" /\ reindex.stage # "idle"
    /\ FailShadow(reindex.index)
    /\ reindex' = NoWork
    /\ UNCHANGED <<storeVars, docs, cited, pins, runs, envVars>>

-----------------------------------------------------------------------------
(* The runs, as far as the memory and the store see them. *)

\* CreateConversationRun and CreateScheduledRun: refused while a shadow
\* index is being filled.
CreateRun(r) ==
    /\ phase = "up" /\ runs[r].status = "none" /\ Building = {}
    /\ runs' = [runs EXCEPT ![r].status = "queued"]
    /\ UNCHANGED <<storeVars, docs, cited, pins, indexVars, reindex, envVars>>

\* The rows of an accepted output stay, under the better of its two claims.
Kept(r, claim) ==
    [b \in Blobs |->
        IF runs[r].accepted /\ b = runs[r].output /\ adopted[b] # "succeeded"
        THEN claim ELSE adopted[b]]

\* A queued or resumed run executes, and a stage stores its output.
StoreOutput(r, b) ==
    /\ phase = "up" /\ runs[r].status \in {"queued", "interrupted"}
    /\ files' = files \cup {b}
    /\ runs' = [runs EXCEPT ![r] = [status |-> "working", output |-> b, accepted |-> FALSE]]
    /\ adopted' = Kept(r, "accepted")
    /\ UNCHANGED <<registry, reachable, docs, cited, pins, indexVars, reindex, envVars>>

\* The transaction that completes the stage registers the blob with the rows
\* that refer to it.
AcceptOutput(r) ==
    /\ phase = "up" /\ runs[r].status = "working" /\ ~runs[r].accepted
    /\ registry' = registry \cup {runs[r].output}
    /\ runs' = [runs EXCEPT ![r].accepted = TRUE]
    /\ UNCHANGED <<files, reachable, adopted, docs, cited, pins, indexVars, reindex,
                   envVars>>

\* A run ends; its accepted artifacts keep their rows, and those of a
\* succeeded run may enter the memory.
EndRun(r, how) ==
    /\ phase = "up" /\ runs[r].status # "none"
    /\ how = "succeeded" => runs[r].status = "working" /\ runs[r].accepted
    /\ runs' = [runs EXCEPT ![r] = NoRun]
    /\ adopted' = Kept(r, IF how = "succeeded" THEN "succeeded" ELSE "accepted")
    /\ UNCHANGED <<files, registry, reachable, docs, cited, pins, indexVars, reindex,
                   envVars>>

-----------------------------------------------------------------------------
(* The process ends, and starts again. *)

Crash ==
    /\ crashes < MaxCrashes
    /\ phase' = "down" /\ crashes' = crashes + 1
    /\ pins' = [d \in Docs |-> NoPin]
    /\ reindex' = NoWork
    /\ UNCHANGED <<storeVars, docs, cited, indexVars, runs>>

\* Open resolves an unfinished shadow index without another embedding
\* request: it is activated if it is complete and no run is unfinished.
OpenStore ==
    /\ phase = "down" /\ phase' = "opened"
    /\ IF Building = {} THEN UNCHANGED indexVars
       ELSE \E i \in Building :
              IF Blocking = {} /\ CountsMatch(i) THEN Activate(i) ELSE FailShadow(i)
    /\ UNCHANGED <<storeVars, docs, cited, pins, reindex, runs, crashes>>

\* ReconcileBlobRegistry drops the rows nothing refers to.
ReconcileBlobRegistry ==
    /\ phase = "opened" /\ phase' = "registry"
    /\ registry' = registry \cap Reachable
    /\ reachable' = Reachable
    /\ UNCHANGED <<files, adopted, docs, cited, pins, indexVars, reindex, runs, crashes>>

\* Reconcile unlinks the objects outside the set it was handed.
ReconcileObjects ==
    /\ phase = "registry" /\ phase' = "files"
    /\ files' = files \cap reachable
    /\ reachable' = {}
    /\ UNCHANGED <<registry, adopted, docs, cited, pins, indexVars, reindex, runs,
                   crashes>>

\* RecoverInFlight, and the program serves again.
RecoverRuns ==
    /\ phase = "files" /\ phase' = "up"
    /\ runs' = [r \in Runs |-> IF runs[r].status = "working"
                               THEN [runs[r] EXCEPT !.status = "interrupted"]
                               ELSE runs[r]]
    /\ UNCHANGED <<storeVars, docs, cited, pins, indexVars, reindex, crashes>>

MemoryNext ==
    \/ \E d \in Docs :
        \/ \E b \in Blobs : BeginPin(d, b) \/ BeginIndexRun(d, b)
        \/ PutMaterial(d) \/ RegisterMaterial(d) \/ IndexDocument(d) \/ AbandonPin(d)
        \/ CiteDocument(d) \/ Tombstone(d) \/ DeleteDocument(d)
        \/ AddShadowEmbeddings(d)
    \/ \E i \in Indexes : BeginShadowIndex(i)
    \/ ShadowChunks \/ FinishReindex \/ ReindexFails
    \/ \E r \in Runs :
        \/ CreateRun(r) \/ AcceptOutput(r)
        \/ \E b \in Blobs : StoreOutput(r, b)
        \/ \E how \in {"succeeded", "ended"} : EndRun(r, how)
    \/ Crash \/ OpenStore \/ ReconcileBlobRegistry \/ ReconcileObjects \/ RecoverRuns

MemorySpec == MemoryInit /\ [][MemoryNext]_memoryVars

-----------------------------------------------------------------------------
(* What the memory promises. *)

\* Retrieval never misses a document: the head names the one active index,
\* and that index has a vector for every ready document, through every
\* reindexing, forgetting and crash (ActivateShadowIndex, memory.go).
ActiveIndexIsComplete ==
    /\ {i \in Indexes : indexes[i] = "active"} = {head.active} \ {None}
    /\ Ready \subseteq IF head.active = None THEN {} ELSE vectors[head.active]

\* What a row refers to can be read: its blob is registered, and the object
\* is in the store.  Startup reclaims objects while an earlier process may
\* have stopped anywhere between writing one and referring to it
\* (ReconcileBlobRegistry in memory.go, Reconcile in cas/store.go).
ReferencedIsStored == DocumentBlobs(docs) \cup RunBlobs \subseteq registry \cap files

\* Research and reindexing exclude each other, in both directions: no run is
\* unfinished while a shadow index is being filled, and the head owns the
\* shadow (memory_shadow.go, rejectRunWithMemoryReindex and its inverse).
RunsAndReindexExclude ==
    /\ Building # {} => Blocking = {}
    /\ Building = {head.shadow} \ {None}
=============================================================================
