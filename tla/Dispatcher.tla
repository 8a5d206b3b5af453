------------------------------ MODULE Dispatcher ------------------------------
(***************************************************************************)
(* The run queue (internal/dispatch/dispatcher.go): an in-memory queue and *)
(* maps of executing runs under one mutex, a scheduling loop woken through *)
(* a channel of capacity one, and the durable status of every run, which   *)
(* goroutines change without that mutex.                                   *)
(*                                                                         *)
(* A run is a number, in the order of runs.created_at, which is taken      *)
(* before the transaction that inserts the row.  Runs holds the runs of    *)
(* some projects; those of every other project share only the slots and    *)
(* the wake channel with them, and are a number of slots taken.            *)
(*                                                                         *)
(* One scan of the queue by startOne is one step: its queries are not one  *)
(* snapshot in the code, but a row that changes between them is a row that *)
(* changes right after.  A signal is part of the step it follows: it only  *)
(* leaves the token in the channel, and no step reads the token together   *)
(* with a row.                                                             *)
(***************************************************************************)
EXTENDS Naturals, SequencesExt

CONSTANTS
    Runs,           \* the runs, by created_at
    Project,        \* the project of each run
    Scheduled,      \* the runs the scheduler inserts, the others are the user's
    MaxConcurrent,  \* MaxConcurrentRuns
    MaxCancels      \* bound of this model on the calls of CancelRun under way

ASSUME DispatchAssumption ==
    /\ Runs \subseteq Nat
    /\ Scheduled \subseteq Runs
    /\ MaxConcurrent \in Nat \ {0}
    /\ MaxCancels \in Nat

VARIABLES
    run,         \* runs.status, the active statuses as one
    stamped,     \* runs whose created_at is taken and whose row is not inserted
    queue,       \* dispatcher.queue (queued holds its members)
    exec,        \* the goroutine of each run in activeCancels
    elsewhere,   \* entries of activeCancels for runs of projects outside Runs
    finishing,   \* runs whose goroutine left the maps for finishErroredRun
    enqueuing,   \* requests between their transaction and enqueue
    reload,      \* rows ReloadQueued read and did not enqueue yet
    cancelling,  \* CancelRun calls between the mutex and QuiesceRun
    wake,        \* the token in the wake channel
    loop,        \* the scheduling loop: waiting on the channel, or scanning
    process,     \* "up"; "ending" once its context is cancelled; "closed" by Shutdown
    hushed       \* history: a run closed since the last signal by a
                 \* cancellation that nothing signals

durable == <<run, stamped>>
active == <<exec, elsewhere>>
callers == <<enqueuing, reload, cancelling>>
control == <<loop, process>>
dispatchVars == <<durable, queue, active, finishing, callers, wake, control, hushed>>

-----------------------------------------------------------------------------
RowStates == {"absent", "queued", "active", "interrupted", "uncertain", "closed"}

Unresolved == {"queued", "active", "interrupted", "uncertain"}

Running == {r \in Runs : exec[r] # "none"}

BusyProjects == {Project[r] : r \in Running}

Older(r) == {s \in Runs : s < r /\ Project[s] = Project[r]}

\* Variant: an interrupted run does not block.
EarlierRunIsBusy(r) == \E s \in Older(r) : run[s] \in Unresolved \ {"interrupted"}

\* HasEarlierUnresolvedRun
HasEarlierUnresolvedRun(r) == \E s \in Older(r) : run[s] \in Unresolved

\* signalLocked: a token that is already in the channel is enough.
Signal == wake' = TRUE /\ hushed' = FALSE

\* Variant: the loop is not signalled.
EnqueueSilently(r) ==
    /\ UNCHANGED <<wake, hushed>>
    /\ IF process = "closed" \/ Contains(queue, r) \/ r \in Running
       THEN UNCHANGED queue
       ELSE queue' = Append(queue, r)

\* enqueue: false, and no signal, for a run that is queued or executing.
Enqueue(r) ==
    IF process = "closed" \/ Contains(queue, r) \/ r \in Running
    THEN UNCHANGED <<queue, wake, hushed>>
    ELSE queue' = Append(queue, r) /\ Signal

\* quiesceRunTransaction: a closed or uncertain run is left alone, an
\* interrupted one has no way to "failed" or "uncertain", and a queued one has
\* no attempt with a side effect.
QuiescedTo(r) ==
    CASE run[r] = "active" -> {"closed", "uncertain"}
      [] run[r] = "queued" -> {"closed"}
      [] run[r] = "interrupted" -> {"closed", "interrupted"}
      [] OTHER -> {run[r]}

SetRun(r, next) == run' = [run EXCEPT ![r] = next]

-----------------------------------------------------------------------------
(* Requests.  They stop with the context of the process. *)

\* Start, with no row in the database.
DispatchInit ==
    /\ run = [r \in Runs |-> "absent"]
    /\ stamped = {}
    /\ queue = <<>>
    /\ exec = [r \in Runs |-> "none"]
    /\ elsewhere = 0
    /\ finishing = {}
    /\ enqueuing = {} /\ reload = {} /\ cancelling = {}
    /\ wake = TRUE
    /\ loop = "waiting"
    /\ process = "up"
    /\ hushed = FALSE

\* created_at of the next run; the numbers follow it.
Stamps(r) ==
    /\ process = "up"
    /\ run[r] = "absent" /\ r \notin stamped
    /\ \A s \in Runs : s < r => run[s] # "absent" \/ s \in stamped
    /\ stamped' = stamped \cup {r}
    /\ UNCHANGED <<run, queue, active, finishing, callers, wake, control, hushed>>

\* startSessionRun inserts and enqueues; the scheduler only inserts.
Inserts(r) ==
    /\ r \in stamped
    /\ stamped' = stamped \ {r}
    /\ SetRun(r, "queued")
    /\ enqueuing' = IF r \in Scheduled THEN enqueuing ELSE enqueuing \cup {r}
    /\ UNCHANGED <<queue, active, finishing, reload, cancelling, wake, control, hushed>>

\* ResumeRun, after PrepareInterruptedRunForResume committed.
Resumes(r) ==
    /\ process = "up"
    /\ run[r] = "interrupted"
    /\ enqueuing' = enqueuing \cup {r}
    /\ UNCHANGED <<durable, queue, active, finishing, reload, cancelling,
                   wake, control, hushed>>

Enqueues(r) ==
    /\ r \in enqueuing
    /\ enqueuing' = enqueuing \ {r}
    /\ Enqueue(r)
    /\ UNCHANGED <<durable, active, finishing, reload, cancelling, control>>

\* ReloadQueued: one query, then one enqueue for each row, oldest first.
ReloadLists ==
    /\ reload = {} /\ process = "up"
    /\ reload' = {r \in Runs : run[r] = "queued"}
    /\ UNCHANGED <<durable, queue, active, finishing, enqueuing, cancelling,
                   wake, control, hushed>>

ReloadEnqueues(r) ==
    /\ r \in reload /\ \A s \in reload : r <= s
    /\ reload' = reload \ {r}
    /\ Enqueue(r)
    /\ UNCHANGED <<durable, active, finishing, enqueuing, cancelling, control>>

\* CancelRun, the part under the mutex.
CancelDequeues(r) ==
    /\ process = "up"
    /\ run[r] # "absent" /\ r \notin cancelling
    /\ Cardinality(cancelling) < MaxCancels
    /\ queue' = SelectSeq(queue, LAMBDA s : s # r)
    /\ cancelling' = cancelling \cup {r}
    /\ UNCHANGED <<durable, active, finishing, enqueuing, reload, wake, control, hushed>>

\* CancelRun, the transaction: nothing is signalled after it.
CancelQuiesces(r) ==
    /\ r \in cancelling
    /\ cancelling' = cancelling \ {r}
    /\ \E next \in QuiescedTo(r) :
        /\ SetRun(r, next)
        /\ hushed' = (hushed \/ (next # run[r] /\ exec[r] = "none" /\ r \notin finishing))
    /\ UNCHANGED <<stamped, queue, active, finishing, enqueuing, reload, wake, control>>

\* DiscardRun
Discards(r) ==
    /\ process = "up"
    /\ run[r] \in {"interrupted", "uncertain"}
    /\ SetRun(r, "closed")
    /\ Signal
    /\ UNCHANGED <<stamped, queue, active, finishing, callers, control>>

-----------------------------------------------------------------------------
(* The loop and the goroutines it starts. *)

LoopWakes ==
    /\ loop = "waiting" /\ process = "up"
    /\ wake
    /\ wake' = FALSE
    /\ loop' = "scanning"
    /\ UNCHANGED <<durable, queue, active, finishing, callers, process, hushed>>

\* Variant: activeProjects is not consulted.
EligibleByRows(r) == ~HasEarlierUnresolvedRun(r)

Eligible(r) == Project[r] \notin BusyProjects /\ ~HasEarlierUnresolvedRun(r)

\* startOne; its query of the older runs fails once the context is cancelled.
SlotIsFree == process = "up" /\ Cardinality(Running) + elsewhere < MaxConcurrent

MayStart(i) == SlotIsFree /\ Eligible(queue[i])

\* startOne takes the first item that may start.
StartOne ==
    /\ loop = "scanning"
    /\ \E i \in DOMAIN queue :
        /\ MayStart(i)
        /\ \A j \in 1..(i - 1) : ~MayStart(j)
        /\ queue' = RemoveAt(queue, i)
        /\ exec' = [exec EXCEPT ![queue[i]] = "executing"]
    /\ UNCHANGED <<durable, elsewhere, finishing, callers, wake, control, hushed>>

\* startOne takes an item of another project.
StartElsewhere ==
    /\ loop = "scanning"
    /\ SlotIsFree
    /\ elsewhere' = elsewhere + 1
    /\ UNCHANGED <<durable, queue, exec, finishing, callers, wake, control, hushed>>

ScanEnds ==
    /\ loop = "scanning"
    /\ \A i \in DOMAIN queue : ~MayStart(i)
    /\ loop' = "waiting"
    /\ UNCHANGED <<durable, queue, active, finishing, callers, wake, process, hushed>>

\* Execute: a queued run begins, an interrupted one continues.
ExecuteBegins(r) ==
    /\ exec[r] = "executing"
    /\ run[r] \in {"queued", "interrupted"}
    /\ SetRun(r, "active")
    /\ UNCHANGED <<stamped, queue, active, finishing, callers, wake, control, hushed>>

\* What Execute leaves of a run: it finished, refused or aborted it, or could
\* not record that it did.
ExecutedTo(r) ==
    CASE run[r] = "active" -> {"active", "interrupted", "uncertain", "closed"}
      [] run[r] \in {"queued", "interrupted"} -> {run[r], "closed"}
      [] OTHER -> {run[r]}

ExecuteReturns(r) ==
    /\ exec[r] = "executing"
    /\ \E next \in ExecutedTo(r) : SetRun(r, next)
    /\ exec' = [exec EXCEPT ![r] = "returned"]
    /\ UNCHANGED <<stamped, queue, elsewhere, finishing, callers, wake, control, hushed>>

\* execute leaves the maps and reads closed under the mutex; only of a closed
\* run can Execute have returned no error.  A second goroutine of a run that is
\* still to be finished is one member of finishing.
Releases(r) ==
    /\ exec[r] = "returned"
    /\ exec' = [exec EXCEPT ![r] = "none"]
    /\ \/ /\ process # "closed"
          /\ finishing' = finishing \cup {r}
          /\ UNCHANGED <<wake, hushed>>
       \/ /\ run[r] = "closed" \/ process = "closed"
          /\ Signal
          /\ UNCHANGED finishing
    /\ UNCHANGED <<durable, queue, elsewhere, callers, control>>

\* The same for a run of another project.
ElsewhereReleases ==
    /\ elsewhere > 0
    /\ elsewhere' = elsewhere - 1
    /\ Signal
    /\ UNCHANGED <<durable, queue, exec, finishing, callers, control>>

\* finishErroredRun: whatever the run is by now is what it quiesces.
FinishErroredRun(r) ==
    /\ r \in finishing
    /\ \E next \in QuiescedTo(r) : SetRun(r, next)
    /\ finishing' = finishing \ {r}
    /\ Signal
    /\ UNCHANGED <<stamped, queue, active, callers, control>>

-----------------------------------------------------------------------------
(* The process. *)

\* The signal context of the program, from which the dispatcher's derives.
ContextOver ==
    /\ process = "up"
    /\ process' = "ending"
    /\ UNCHANGED <<durable, queue, active, finishing, callers, wake, loop, hushed>>

\* Shutdown; the server was shut down before, which waits for its requests.
Shutdown ==
    /\ process # "closed"
    /\ enqueuing = {} /\ cancelling = {}
    /\ process' = "closed"
    /\ UNCHANGED <<durable, queue, active, finishing, callers, wake, loop, hushed>>

\* A crash or an exit, then RecoverInFlight and Start of the next process.
Restart ==
    /\ run' \in [Runs -> RowStates]
    /\ \A r \in Runs : IF run[r] = "active" THEN run'[r] \in {"interrupted", "uncertain"}
                                            ELSE run'[r] = run[r]
    /\ queue' = SetToSortSeq({r \in Runs : run[r] = "queued"}, <)
    /\ exec' = [r \in Runs |-> "none"]
    /\ elsewhere' = 0
    /\ finishing' = {}
    /\ stamped' = {} /\ enqueuing' = {} /\ reload' = {} /\ cancelling' = {}
    /\ wake' = TRUE
    /\ loop' = "waiting"
    /\ process' = "up"
    /\ hushed' = FALSE

Loop == LoopWakes \/ StartOne \/ StartElsewhere \/ ScanEnds

Execution(r) == ExecuteBegins(r) \/ ExecuteReturns(r) \/ Releases(r)

Reload == ReloadLists \/ \E r \in Runs : ReloadEnqueues(r)

Request(r) == Stamps(r) \/ Resumes(r) \/ CancelDequeues(r) \/ Discards(r)

Reply(r) == Inserts(r) \/ Enqueues(r) \/ CancelQuiesces(r)

DispatchNext ==
    \/ Loop
    \/ Reload
    \/ \E r \in Runs : Execution(r) \/ FinishErroredRun(r) \/ Request(r) \/ Reply(r)
    \/ ElsewhereReleases
    \/ ContextOver
    \/ Shutdown
    \/ Restart

DispatchSpec == DispatchInit /\ [][DispatchNext]_dispatchVars

\* The Go runtime schedules the loop, the ticker of the scheduler and the tail
\* of execute, and a request under way reaches enqueue.  An item that stays
\* startable is passed over only by the finitely many items before it, hence
\* StartOne apart from StartElsewhere.  Nothing is assumed of an execution,
\* which may wait for its user, nor of the user.
FairDispatchSpec ==
    /\ DispatchSpec
    /\ WF_dispatchVars(LoopWakes) /\ WF_dispatchVars(StartOne) /\ WF_dispatchVars(ScanEnds)
    /\ WF_dispatchVars(Reload)
    /\ \A r \in Runs :
        /\ WF_dispatchVars(Releases(r)) /\ WF_dispatchVars(FinishErroredRun(r))
        /\ WF_dispatchVars(Enqueues(r))

-----------------------------------------------------------------------------
(* Properties. *)

\* The variables have their types.
DispatchTypeOK ==
    /\ run \in [Runs -> RowStates]
    /\ queue \in Seq(Runs)
    /\ exec \in [Runs -> {"none", "executing", "returned"}]
    /\ finishing \cup stamped \cup enqueuing \cup reload \cup cancelling \subseteq Runs
    /\ elsewhere \in 0..MaxConcurrent
    /\ loop \in {"waiting", "scanning"}
    /\ {wake, hushed} \subseteq BOOLEAN /\ process \in {"up", "ending", "closed"}

\* startOne never hands out a run twice, more runs than the limit, or two runs
\* of a project, however enqueue, ReloadQueued and CancelRun interleave.
QueueIsSound ==
    /\ IsInjective(queue)
    /\ ToSet(queue) \cap Running = {}
    /\ Cardinality(Running) + elsewhere <= MaxConcurrent
    /\ \A r, s \in Running : Project[r] = Project[s] => r = s

\* Two runs of one project are in progress in the database only while a
\* goroutine of one of them is on its way to finishErroredRun: a row inserted
\* with an older created_at does not defeat activeProjects.
OneActiveRunPerProject ==
    \A r, s \in Runs :
        r # s /\ Project[r] = Project[s] /\ run[r] = "active" /\ run[s] = "active"
            => {r, s} \cap finishing # {}

\* A run that is in progress in the database has a goroutine that will close
\* it: none is left to block its project until the next start of the program,
\* unless this process is already shutting down.
ActiveRunIsOwned ==
    process = "closed" \/ \A r \in Runs : run[r] = "active" => r \in Running \cup finishing

\* A run begins only when every older run of its project that began before is
\* resolved: neither a restart, which loses activeProjects, nor a late insert
\* lets it bypass interrupted or uncertain work.
NoBypassStep ==
    \A r \in Runs :
        run[r] # "active" /\ run'[r] = "active" =>
            \A s \in Older(r) : run[s] \notin {"active", "interrupted", "uncertain"}
NoOlderWorkIsBypassed == [][NoBypassStep]_dispatchVars

\* A run that could be started now.
Startable(r) ==
    /\ run[r] = "queued" /\ r \notin Running
    /\ SlotIsFree /\ Eligible(r)

\* A run that could be started does not wait for ever, unless the run it
\* waited for was closed by a cancellation that nothing signals, or the
\* program restarts again and again.
StartableRunsStart ==
    []<><<Restart>>_dispatchVars \/ \A r \in Runs : []<>(~Startable(r) \/ hushed)

\* The same without the exception: whoever resolves the older run, the queue is
\* woken (docs/VERIFICATION.md:44).
ResolvedRunsWakeTheQueue ==
    []<><<Restart>>_dispatchVars \/ \A r \in Runs : []<>~Startable(r)
=============================================================================
