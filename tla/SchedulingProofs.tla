-------------------------- MODULE SchedulingProofs ---------------------------
(***************************************************************************)
(* What starts the runs: the theorems of the queue (Dispatcher), and those of*)
(* the scheduler (Schedules) that fills it, each with its own invariant.   *)
(***************************************************************************)
EXTENDS Dispatcher, Schedules, FiniteSetTheorems, WellFoundedInduction, TLAPS

(***************************************************************************)
(* Theorems of the run queue, for any number of runs, projects and slots.  *)
(*                                                                         *)
(* That one run of a project is in progress is not inductive: the row is   *)
(* changed by goroutines, without the mutex, and outlives the entry of     *)
(* activeCancels.  The invariant follows the goroutine of a run from the   *)
(* step that hands it out (OneGoroutinePerProject), says what becomes of   *)
(* its row when it is gone (LeftRunsAreAlone: only a process that shuts    *)
(* down leaves one in progress, and starts nothing after), and keeps what  *)
(* startOne has seen of the older runs (OlderRunsWait), which no later     *)
(* insertion, cancellation or clean-up changes for the worse.  The order   *)
(* of the queue and what is in it are not needed: startOne looks at the    *)
(* rows and at activeProjects again for every item.                        *)
(***************************************************************************)

-----------------------------------------------------------------------------
(* The invariant. *)

RowTypes ==
    /\ run \in [Runs -> RowStates]
    /\ exec \in [Runs -> {"none", "executing", "returned"}]
    /\ process \in {"up", "ending", "closed"}

\* activeProjects
OneGoroutinePerProject == \A r, s \in Running : Project[r] = Project[s] => r = s

\* In progress in the database, and no goroutine will close it.
Left == {r \in Runs : run[r] = "active" /\ r \notin Running \cup finishing}

LeftRunsAreAlone ==
    \A r \in Left :
        /\ process = "closed"
        /\ \A s \in Running \cup Left : Project[r] = Project[s] => r = s

\* An older run that appears after its younger one was started is not begun.
OlderRunsWait ==
    \A r \in Running : \A s \in Older(r) : run[s] \in {"absent", "queued", "closed"}

\* MaxConcurrentRuns
SlotsAreKept ==
    /\ IsFiniteSet(Running)
    /\ elsewhere \in Nat
    /\ Cardinality(Running) + elsewhere <= MaxConcurrent

DispatchInv ==
    RowTypes /\ OneGoroutinePerProject /\ LeftRunsAreAlone /\ OlderRunsWait

-----------------------------------------------------------------------------
(* Rows and goroutines. *)

\* A step that changes no row and no goroutine.
LEMMA QuietStep ==
    ASSUME DispatchInv, UNCHANGED <<run, exec, finishing>>,
           process' = process \/ process' = "closed" \/ (process = "up" /\ process' = "ending")
    PROVE  DispatchInv'
<1>1. Running' = Running /\ Left' = Left
    BY DEF Running, Left
<1>2. RowTypes'
    BY DEF DispatchInv, RowTypes
<1>3. OneGoroutinePerProject'
    BY <1>1 DEF DispatchInv, OneGoroutinePerProject
<1>4. LeftRunsAreAlone'
    BY <1>1 DEF DispatchInv, LeftRunsAreAlone
<1>5. OlderRunsWait'
    BY <1>1 DEF DispatchInv, OlderRunsWait, Older
<1> QED BY <1>2, <1>3, <1>4, <1>5 DEF DispatchInv

\* What a cancellation or a clean-up makes of a row is not in progress, and a
\* row that was absent, queued or closed does not become interrupted work.
LEMMA QuiescedRow ==
    ASSUME RowTypes, NEW r \in Runs, NEW next \in QuiescedTo(r)
    PROVE  /\ next \in RowStates \ {"active"}
           /\ run[r] \in {"absent", "queued", "closed"} => next \in {"absent", "queued", "closed"}
<1>1. run[r] \in RowStates
    BY DEF RowTypes
<1> QED BY <1>1 DEF QuiescedTo, RowStates

\* A step that takes a row out of progress, or leaves it so, whoever makes it.
LEMMA RowStep ==
    ASSUME DispatchInv, NEW r \in Runs, NEW next \in RowStates \ {"active"},
           run[r] \in {"absent", "queued", "closed"} => next \in {"absent", "queued", "closed"},
           run' = [run EXCEPT ![r] = next],
           finishing' = finishing \/ finishing' = finishing \ {r},
           UNCHANGED <<exec, process>>
    PROVE  DispatchInv'
<1>1. Running' = Running
    BY DEF Running
<1>2. RowTypes'
    BY DEF DispatchInv, RowTypes
<1>3. run'[r] = next /\ \A s \in Runs \ {r} : run'[s] = run[s]
    BY DEF DispatchInv, RowTypes
<1>4. Left' \subseteq Left
    BY <1>1, <1>3 DEF Left
<1>5. OneGoroutinePerProject'
    BY <1>1 DEF DispatchInv, OneGoroutinePerProject
<1>6. LeftRunsAreAlone'
    BY <1>1, <1>4 DEF DispatchInv, LeftRunsAreAlone
<1>7. OlderRunsWait'
    BY <1>1, <1>3 DEF DispatchInv, OlderRunsWait, Older
<1> QED BY <1>2, <1>5, <1>6, <1>7 DEF DispatchInv

-----------------------------------------------------------------------------
(* The steps of the loop and of the goroutines. *)

\* startOne takes a run of a project that has no goroutine and no older
\* unresolved run, in a process that is up.
LEMMA StartStep == ASSUME DispatchInv, StartOne PROVE DispatchInv'
<1>1. PICK i \in DOMAIN queue :
          /\ MayStart(i)
          /\ exec' = [exec EXCEPT ![queue[i]] = "executing"]
    BY DEF StartOne
<1>2. UNCHANGED <<run, finishing, process>>
    BY DEF StartOne, durable, control
<1>3. process = "up" /\ Project[queue[i]] \notin BusyProjects /\ ~HasEarlierUnresolvedRun(queue[i])
    BY <1>1 DEF MayStart, SlotIsFree, Eligible
<1>4. Running \subseteq Running' /\ Running' \subseteq Running \cup {queue[i]}
    BY <1>1 DEF Running, DispatchInv, RowTypes
<1>5. RowTypes'
    BY <1>1, <1>2 DEF DispatchInv, RowTypes
<1>6. OneGoroutinePerProject'
    BY <1>3, <1>4 DEF DispatchInv, OneGoroutinePerProject, BusyProjects
<1>7. Left' \subseteq Left
    BY <1>2, <1>4 DEF Left
<1>8. LeftRunsAreAlone'
    BY <1>3, <1>7 DEF DispatchInv, LeftRunsAreAlone
<1>9. OlderRunsWait'
  <2> SUFFICES ASSUME NEW r \in Running', NEW s \in Older(r)
               PROVE  run[s] \in {"absent", "queued", "closed"}
      BY <1>2 DEF OlderRunsWait, Older
  <2>1. CASE r \in Running
      BY <2>1 DEF DispatchInv, OlderRunsWait
  <2>2. CASE r = queue[i]
    <3>1. run[s] \in RowStates \ Unresolved
        BY <1>3, <2>2 DEF HasEarlierUnresolvedRun, Older, DispatchInv, RowTypes
    <3> QED BY <3>1 DEF RowStates, Unresolved
  <2> QED BY <1>4, <2>1, <2>2
<1> QED BY <1>5, <1>6, <1>8, <1>9 DEF DispatchInv

\* The run that begins is the only one of its project with a goroutine, so that
\* no younger run has been started over it.
LEMMA BeginStep == ASSUME DispatchInv, NEW r \in Runs, ExecuteBegins(r) PROVE DispatchInv'
<1>1. /\ exec[r] = "executing" /\ run' = [run EXCEPT ![r] = "active"]
      /\ UNCHANGED <<exec, finishing, process>>
    BY DEF ExecuteBegins, SetRun, active, control
<1>2. Running' = Running /\ r \in Running
    BY <1>1 DEF Running
<1>3. run'[r] = "active" /\ \A s \in Runs \ {r} : run'[s] = run[s]
    BY <1>1 DEF DispatchInv, RowTypes
<1>4. RowTypes'
    BY <1>1 DEF DispatchInv, RowTypes, RowStates
<1>5. OneGoroutinePerProject'
    BY <1>2 DEF DispatchInv, OneGoroutinePerProject
<1>6. Left' = Left
    BY <1>1, <1>2, <1>3 DEF Left
<1>7. LeftRunsAreAlone'
    BY <1>1, <1>2, <1>6 DEF DispatchInv, LeftRunsAreAlone
<1>8. OlderRunsWait'
  <2> SUFFICES ASSUME NEW s \in Running, NEW o \in Older(s)
               PROVE  run'[o] \in {"absent", "queued", "closed"}
      BY <1>2 DEF OlderRunsWait, Older
  <2>1. CASE o = r
    <3>1. r < s /\ Project[r] = Project[s] /\ r \in Nat
        BY <2>1, DispatchAssumption DEF Older
    <3>2. r = s
        BY <1>2, <3>1 DEF DispatchInv, OneGoroutinePerProject
    <3> QED BY <3>1, <3>2
  <2>2. CASE o # r
      BY <1>3, <2>2 DEF DispatchInv, OlderRunsWait, Older
  <2> QED BY <2>1, <2>2
<1> QED BY <1>4, <1>5, <1>7, <1>8 DEF DispatchInv

\* Execute returns, and the run keeps its entry in activeCancels.
LEMMA ReturnStep == ASSUME DispatchInv, NEW r \in Runs, ExecuteReturns(r) PROVE DispatchInv'
<1>1. PICK next \in ExecutedTo(r) : run' = [run EXCEPT ![r] = next]
    BY DEF ExecuteReturns, SetRun
<1>2. /\ exec[r] = "executing" /\ exec' = [exec EXCEPT ![r] = "returned"]
      /\ UNCHANGED <<finishing, process>>
    BY DEF ExecuteReturns, control
<1>3. next \in RowStates
    BY DEF ExecutedTo, RowStates, DispatchInv, RowTypes
<1>4. RowTypes'
    BY <1>1, <1>2, <1>3 DEF DispatchInv, RowTypes
<1>5. Running' = Running /\ r \in Running
    BY <1>2 DEF Running, DispatchInv, RowTypes
<1>6. \A s \in Runs \ {r} : run'[s] = run[s]
    BY <1>1 DEF DispatchInv, RowTypes
<1>7. OneGoroutinePerProject'
    BY <1>5 DEF DispatchInv, OneGoroutinePerProject
<1>8. Left' = Left
    BY <1>2, <1>5, <1>6 DEF Left
<1>9. LeftRunsAreAlone'
    BY <1>2, <1>5, <1>8 DEF DispatchInv, LeftRunsAreAlone
<1>10. OlderRunsWait'
  <2> SUFFICES ASSUME NEW s \in Running, NEW o \in Older(s)
               PROVE  run'[o] \in {"absent", "queued", "closed"}
      BY <1>5 DEF OlderRunsWait, Older
  <2>1. o \in Runs /\ o # r
    <3>1. o < s /\ Project[o] = Project[s] /\ o \in Nat
        BY DispatchAssumption DEF Older
    <3>2. o # s
        BY <3>1
    <3> QED BY <1>5, <3>1, <3>2 DEF DispatchInv, OneGoroutinePerProject, Older
  <2> QED BY <1>6, <2>1 DEF DispatchInv, OlderRunsWait
<1> QED BY <1>4, <1>7, <1>9, <1>10 DEF DispatchInv

\* The tail of execute: a run that is left in progress goes to finishErroredRun,
\* unless the dispatcher is closed, and then it was the last of its project.
LEMMA ReleaseStep == ASSUME DispatchInv, NEW r \in Runs, Releases(r) PROVE DispatchInv'
<1>1. /\ exec[r] = "returned" /\ exec' = [exec EXCEPT ![r] = "none"]
      /\ UNCHANGED <<run, process>>
      /\ \/ finishing' = finishing \cup {r}
         \/ finishing' = finishing /\ (run[r] = "closed" \/ process = "closed")
    BY DEF Releases, durable, control
<1>2. RowTypes'
    BY <1>1 DEF DispatchInv, RowTypes
<1>3. r \in Running /\ Running' = Running \ {r}
    BY <1>1 DEF Running, DispatchInv, RowTypes
<1>4. OneGoroutinePerProject'
    BY <1>3 DEF DispatchInv, OneGoroutinePerProject
<1>5. Left' \subseteq Left \/ (Left' \subseteq Left \cup {r} /\ process = "closed")
    BY <1>1, <1>3 DEF Left
<1>6. LeftRunsAreAlone'
  <2>1. CASE Left' \subseteq Left
      BY <1>1, <1>3, <2>1 DEF DispatchInv, LeftRunsAreAlone
  <2>2. CASE Left' \subseteq Left \cup {r} /\ process = "closed"
    <3>1. \A s \in (Running \cup Left) \ {r} : Project[s] # Project[r]
        BY <1>3 DEF DispatchInv, OneGoroutinePerProject, LeftRunsAreAlone
    <3> QED BY <1>1, <1>3, <2>2, <3>1 DEF DispatchInv, LeftRunsAreAlone
  <2> QED BY <1>5, <2>1, <2>2
<1>7. OlderRunsWait'
    BY <1>1, <1>3 DEF DispatchInv, OlderRunsWait, Older
<1> QED BY <1>2, <1>4, <1>6, <1>7 DEF DispatchInv

\* RecoverInFlight leaves no run in progress, and there is no goroutine yet.
LEMMA RestartStep == ASSUME DispatchInv, Restart PROVE DispatchInv'
<1>1. /\ run' \in [Runs -> RowStates] /\ exec' = [r \in Runs |-> "none"]
      /\ process' = "up"
    BY DEF Restart
<1>2. \A r \in Runs : run'[r] # "active"
    BY DEF Restart
<1>3. Running' = {} /\ Left' = {}
    BY <1>1, <1>2 DEF Running, Left
<1> QED BY <1>1, <1>3
        DEF DispatchInv, RowTypes, OneGoroutinePerProject, LeftRunsAreAlone, OlderRunsWait

-----------------------------------------------------------------------------
(* The invariant is inductive. *)

LEMMA DispatchInitial == DispatchInit => DispatchInv
<1> SUFFICES ASSUME DispatchInit PROVE DispatchInv
    OBVIOUS
<1>1. RowTypes
    BY DEF DispatchInit, RowTypes, RowStates
<1>2. Running = {} /\ Left = {}
    BY DEF DispatchInit, Running, Left
<1> QED BY <1>1, <1>2
        DEF DispatchInv, OneGoroutinePerProject, LeftRunsAreAlone, OlderRunsWait

LEMMA DispatchStep == ASSUME DispatchInv, [DispatchNext]_dispatchVars PROVE DispatchInv'
<1>1. CASE Loop
  <2>1. CASE LoopWakes \/ StartElsewhere \/ ScanEnds
      BY <2>1, QuietStep DEF LoopWakes, StartElsewhere, ScanEnds, durable, active, control
  <2>2. CASE StartOne
      BY <2>2, StartStep
  <2> QED BY <1>1, <2>1, <2>2 DEF Loop
<1>2. CASE Reload
    BY <1>2, QuietStep DEF Reload, ReloadLists, ReloadEnqueues, durable, active, control
<1>3. ASSUME NEW r \in Runs, Execution(r) PROVE DispatchInv'
    BY <1>3, BeginStep, ReturnStep, ReleaseStep DEF Execution
<1>4. ASSUME NEW r \in Runs, FinishErroredRun(r) PROVE DispatchInv'
  <2>1. PICK next \in QuiescedTo(r) : run' = [run EXCEPT ![r] = next]
      BY <1>4 DEF FinishErroredRun, SetRun
  <2>2. finishing' = finishing \ {r} /\ UNCHANGED <<exec, process>>
      BY <1>4 DEF FinishErroredRun, active, control
  <2>3. /\ next \in RowStates \ {"active"}
        /\ run[r] \in {"absent", "queued", "closed"} => next \in {"absent", "queued", "closed"}
      BY QuiescedRow DEF DispatchInv
  <2> QED BY <2>1, <2>2, <2>3, RowStep
<1>5. ASSUME NEW r \in Runs, Request(r) PROVE DispatchInv'
  <2>1. CASE Stamps(r) \/ Resumes(r) \/ CancelDequeues(r)
      BY <2>1, QuietStep DEF Stamps, Resumes, CancelDequeues, durable, active, control
  <2>2. CASE Discards(r)
      BY <2>2, RowStep DEF Discards, SetRun, RowStates, active, control
  <2> QED BY <1>5, <2>1, <2>2 DEF Request
<1>6. ASSUME NEW r \in Runs, Reply(r) PROVE DispatchInv'
  <2>1. CASE Inserts(r)
      BY <2>1, RowStep DEF Inserts, SetRun, RowStates, active, control
  <2>2. CASE Enqueues(r)
      BY <2>2, QuietStep DEF Enqueues, durable, active, control
  <2>3. CASE CancelQuiesces(r)
    <3>1. PICK next \in QuiescedTo(r) : run' = [run EXCEPT ![r] = next]
        BY <2>3 DEF CancelQuiesces, SetRun
    <3>2. UNCHANGED <<finishing, exec, process>>
        BY <2>3 DEF CancelQuiesces, active, control
    <3>3. /\ next \in RowStates \ {"active"}
          /\ run[r] \in {"absent", "queued", "closed"} => next \in {"absent", "queued", "closed"}
        BY QuiescedRow DEF DispatchInv
    <3> QED BY <3>1, <3>2, <3>3, RowStep
  <2> QED BY <1>6, <2>1, <2>2, <2>3 DEF Reply
<1>7. CASE ElsewhereReleases
    BY <1>7, QuietStep DEF ElsewhereReleases, durable, control
<1>8. CASE ContextOver \/ Shutdown
    BY <1>8, QuietStep DEF ContextOver, Shutdown, durable, active
<1>9. CASE Restart
    BY <1>9, RestartStep
<1>10. CASE UNCHANGED dispatchVars
    BY <1>10, QuietStep DEF dispatchVars, durable, active, control
<1> QED BY <1>1, <1>2, <1>3, <1>4, <1>5, <1>6, <1>7, <1>8, <1>9, <1>10 DEF DispatchNext

\* The invariant holds in every state.
THEOREM DispatchInvariant == DispatchSpec => []DispatchInv
<1>1. DispatchInv /\ [DispatchNext]_dispatchVars => DispatchInv'
    BY DispatchStep
<1> QED BY <1>1, DispatchInitial, PTL DEF DispatchSpec

-----------------------------------------------------------------------------
(* What it shows. *)

\* Two runs of one project are in progress in the database only while a
\* goroutine of one of them is on its way to finishErroredRun.
THEOREM OneRunOfAProject == DispatchSpec => []OneActiveRunPerProject
<1>1. DispatchInv => OneActiveRunPerProject
  <2> SUFFICES ASSUME DispatchInv, NEW r \in Runs, NEW s \in Runs, r # s, Project[r] = Project[s],
                      run[r] = "active", run[s] = "active", {r, s} \cap finishing = {}
               PROVE  FALSE
      BY DEF OneActiveRunPerProject
  <2>1. r \in Running \cup Left /\ s \in Running \cup Left
      BY DEF Left
  <2> QED BY <2>1 DEF DispatchInv, OneGoroutinePerProject, LeftRunsAreAlone
<1> QED BY <1>1, DispatchInvariant, PTL

\* A run in progress has a goroutine that will close it, until the shutdown.
THEOREM NoRunIsLeftBehind == DispatchSpec => []ActiveRunIsOwned
<1>1. DispatchInv => ActiveRunIsOwned
    BY DEF DispatchInv, LeftRunsAreAlone, Left, ActiveRunIsOwned
<1> QED BY <1>1, DispatchInvariant, PTL

\* Only the goroutine of a run makes it one in progress.
LEMMA OnlyExecutionBegins ==
    ASSUME DispatchInv, [DispatchNext]_dispatchVars, NEW r \in Runs,
           run[r] # "active", run'[r] = "active"
    PROVE  r \in Running
<1>1. ASSUME NEW s \in Runs, NEW next \in RowStates \ {"active"}, run' = [run EXCEPT ![s] = next]
      PROVE  FALSE
    BY <1>1 DEF DispatchInv, RowTypes
<1>2. ASSUME NEW s \in Runs, NEW next \in QuiescedTo(s), run' = [run EXCEPT ![s] = next]
      PROVE  FALSE
    BY <1>1, <1>2, QuiescedRow DEF DispatchInv
<1>3. ASSUME UNCHANGED run PROVE FALSE
    BY <1>3
<1>4. CASE Loop
    BY <1>3, <1>4 DEF Loop, LoopWakes, StartOne, StartElsewhere, ScanEnds, durable
<1>5. CASE Reload
    BY <1>3, <1>5 DEF Reload, ReloadLists, ReloadEnqueues, durable
<1>6. ASSUME NEW s \in Runs, Execution(s) PROVE r \in Running
  <2>1. CASE ExecuteBegins(s)
      BY <2>1 DEF ExecuteBegins, SetRun, Running, DispatchInv, RowTypes
  <2>2. CASE ExecuteReturns(s)
      BY <2>2 DEF ExecuteReturns, SetRun, Running, DispatchInv, RowTypes
  <2>3. CASE Releases(s)
      BY <1>3, <2>3 DEF Releases, durable
  <2> QED BY <1>6, <2>1, <2>2, <2>3 DEF Execution
<1>7. ASSUME NEW s \in Runs, FinishErroredRun(s) PROVE FALSE
    BY <1>2, <1>7 DEF FinishErroredRun, SetRun
<1>8. ASSUME NEW s \in Runs, Request(s) PROVE FALSE
  <2>1. CASE Stamps(s) \/ Resumes(s) \/ CancelDequeues(s)
      BY <1>3, <2>1 DEF Stamps, Resumes, CancelDequeues, durable
  <2>2. CASE Discards(s)
      BY <1>1, <2>2 DEF Discards, SetRun, RowStates
  <2> QED BY <1>8, <2>1, <2>2 DEF Request
<1>9. ASSUME NEW s \in Runs, Reply(s) PROVE FALSE
  <2>1. CASE Inserts(s)
      BY <1>1, <2>1 DEF Inserts, SetRun, RowStates
  <2>2. CASE Enqueues(s)
      BY <1>3, <2>2 DEF Enqueues, durable
  <2>3. CASE CancelQuiesces(s)
      BY <1>2, <2>3 DEF CancelQuiesces, SetRun
  <2> QED BY <1>9, <2>1, <2>2, <2>3 DEF Reply
<1>10. CASE ElsewhereReleases \/ ContextOver \/ Shutdown
    BY <1>3, <1>10 DEF ElsewhereReleases, ContextOver, Shutdown, durable
<1>11. CASE Restart
    BY <1>11 DEF Restart
<1>12. CASE UNCHANGED dispatchVars
    BY <1>3, <1>12 DEF dispatchVars, durable
<1> QED BY <1>4, <1>5, <1>6, <1>7, <1>8, <1>9, <1>10, <1>11, <1>12 DEF DispatchNext

\* No run begins over older work of its project that began before it.
THEOREM OlderWorkComesFirst == DispatchSpec => NoOlderWorkIsBypassed
<1>1. DispatchInv /\ [DispatchNext]_dispatchVars => [NoBypassStep]_dispatchVars
  <2> SUFFICES ASSUME DispatchInv, [DispatchNext]_dispatchVars, NEW r \in Runs,
                      run[r] # "active", run'[r] = "active"
               PROVE  \A s \in Older(r) : run[s] \notin {"active", "interrupted", "uncertain"}
      BY DEF NoBypassStep
  <2>1. r \in Running
      BY OnlyExecutionBegins
  <2> QED BY <2>1 DEF DispatchInv, OlderRunsWait
<1> QED BY <1>1, DispatchInvariant, PTL DEF DispatchSpec, NoOlderWorkIsBypassed

-----------------------------------------------------------------------------
(* The slots. *)

\* Every step but those of startOne leaves as many goroutines or fewer.
LEMMA FewerGoroutines ==
    ASSUME SlotsAreKept, Running' \subseteq Running, elsewhere' \in Nat, elsewhere' <= elsewhere
    PROVE  SlotsAreKept'
<1>1. IsFiniteSet(Running') /\ Cardinality(Running') <= Cardinality(Running)
    BY FS_Subset DEF SlotsAreKept
<1>2. Cardinality(Running) \in Nat /\ Cardinality(Running') \in Nat
    BY <1>1, FS_CardinalityType DEF SlotsAreKept
<1>3. MaxConcurrent \in Nat /\ elsewhere \in Nat
    BY DispatchAssumption DEF SlotsAreKept
<1> QED BY <1>1, <1>2, <1>3 DEF SlotsAreKept

LEMMA SlotsStep ==
    ASSUME RowTypes, SlotsAreKept, [DispatchNext]_dispatchVars PROVE SlotsAreKept'
<1> USE DEF active
<1>1. ASSUME UNCHANGED <<exec, elsewhere>> PROVE SlotsAreKept'
    BY <1>1 DEF SlotsAreKept, Running
<1>2. CASE StartOne
  <2>1. PICK i \in DOMAIN queue :
            /\ MayStart(i)
            /\ exec' = [exec EXCEPT ![queue[i]] = "executing"]
      BY <1>2 DEF StartOne
  <2>2. elsewhere' = elsewhere /\ Cardinality(Running) + elsewhere < MaxConcurrent
      BY <1>2, <2>1 DEF StartOne, MayStart, SlotIsFree
  <2>3. Running' = Running \/ Running' = Running \cup {queue[i]}
      BY <2>1 DEF Running, RowTypes
  <2>4. CASE Running' = Running
      BY <2>2, <2>4 DEF SlotsAreKept
  <2>5. CASE Running' = Running \cup {queue[i]}
    <3>1. /\ IsFiniteSet(Running')
          /\ Cardinality(Running') \in {Cardinality(Running), Cardinality(Running) + 1}
        BY <2>5, FS_AddElement DEF SlotsAreKept
    <3>2. Cardinality(Running) \in Nat /\ elsewhere \in Nat /\ MaxConcurrent \in Nat
        BY FS_CardinalityType, DispatchAssumption DEF SlotsAreKept
    <3> QED BY <2>2, <3>1, <3>2 DEF SlotsAreKept
  <2> QED BY <2>3, <2>4, <2>5
<1>3. CASE StartElsewhere
  <2>1. /\ exec' = exec /\ elsewhere' = elsewhere + 1
        /\ Cardinality(Running) + elsewhere < MaxConcurrent
      BY <1>3 DEF StartElsewhere, SlotIsFree
  <2>2. Running' = Running
      BY <2>1 DEF Running
  <2>3. Cardinality(Running) \in Nat /\ elsewhere \in Nat /\ MaxConcurrent \in Nat
      BY FS_CardinalityType, DispatchAssumption DEF SlotsAreKept
  <2> QED BY <2>1, <2>2, <2>3 DEF SlotsAreKept
<1>4. CASE LoopWakes \/ ScanEnds \/ Reload
    BY <1>1, <1>4 DEF LoopWakes, ScanEnds, Reload, ReloadLists, ReloadEnqueues
<1>5. ASSUME NEW r \in Runs, Execution(r) PROVE SlotsAreKept'
  <2>1. Running' \subseteq Running /\ elsewhere' = elsewhere
      BY <1>5 DEF Execution, ExecuteBegins, ExecuteReturns, Releases, Running, RowTypes
  <2> QED BY <2>1, FewerGoroutines DEF SlotsAreKept
<1>6. ASSUME NEW r \in Runs, FinishErroredRun(r) \/ Request(r) \/ Reply(r) PROVE SlotsAreKept'
    BY <1>1, <1>6
    DEF FinishErroredRun, Request, Stamps, Resumes, CancelDequeues, Discards,
        Reply, Inserts, Enqueues, CancelQuiesces
<1>7. CASE ElsewhereReleases
  <2>1. exec' = exec /\ elsewhere > 0 /\ elsewhere' = elsewhere - 1
      BY <1>7 DEF ElsewhereReleases
  <2>2. Running' \subseteq Running
      BY <2>1 DEF Running
  <2>3. elsewhere' \in Nat /\ elsewhere' <= elsewhere
      BY <2>1 DEF SlotsAreKept
  <2> QED BY <2>2, <2>3, FewerGoroutines
<1>8. CASE ContextOver \/ Shutdown
    BY <1>1, <1>8 DEF ContextOver, Shutdown
<1>9. CASE Restart
  <2>1. Running' = {} /\ elsewhere' = 0
      BY <1>9 DEF Restart, Running
  <2> QED BY <2>1, FewerGoroutines DEF SlotsAreKept
<1>10. CASE UNCHANGED dispatchVars
    BY <1>1, <1>10 DEF dispatchVars
<1> QED BY <1>2, <1>3, <1>4, <1>5, <1>6, <1>7, <1>8, <1>9, <1>10 DEF DispatchNext, Loop

\* No more runs execute at once than MaxConcurrentRuns, counting those of every
\* project and whoever enqueues, cancels or restarts.
THEOREM NoMoreRunsThanSlots == DispatchSpec => []SlotsAreKept
<1>1. DispatchInit => SlotsAreKept
  <2> SUFFICES ASSUME DispatchInit PROVE SlotsAreKept
      OBVIOUS
  <2>1. Running = {} /\ elsewhere = 0
      BY DEF DispatchInit, Running
  <2>2. IsFiniteSet(Running) /\ Cardinality(Running) = 0
      BY <2>1, FS_EmptySet
  <2> QED BY <2>1, <2>2, DispatchAssumption DEF SlotsAreKept
<1>2. DispatchInv => RowTypes
    BY DEF DispatchInv
<1>3. RowTypes /\ SlotsAreKept /\ [DispatchNext]_dispatchVars => SlotsAreKept'
    BY SlotsStep
<1> QED BY <1>1, <1>2, <1>3, DispatchInvariant, PTL DEF DispatchSpec

-----------------------------------------------------------------------------
(***************************************************************************)
(* Theorems of the scheduler, for any set of schedules and timetables, any *)
(* horizon, window and page size, and any number of failures.              *)
(*                                                                         *)
(* A tick works on one schedule at a time in three transactions, and the   *)
(* user, the clock and the end of the process come between them.  What     *)
(* makes the three add up is that a tick's item keeps naming the cursor of *)
(* its schedule (ItemsAreCurrent) and that each transaction leaves its     *)
(* firings behind (WorkIsRecorded): when the cursor moves, the occurrences *)
(* it passes have been dealt with, or remain due after it.                 *)
(***************************************************************************)

-----------------------------------------------------------------------------
(* Sets of instants. *)

\* A set of naturals that is not empty has a least member.
LEMMA SmallestLemma ==
    ASSUME NEW S, S \subseteq Nat, S # {}
    PROVE  \E x \in S : \A y \in S : x <= y
<1>1. PICK R : /\ IsWellFoundedOn(R, Nat)
               /\ \A x, y \in Nat : y < x => <<y, x>> \in R
  <2>1. IsWellFoundedOn(OpToRel(<, Nat), Nat)
      BY NatLessThanWellFounded
  <2>2. \A x, y \in Nat : y < x => <<y, x>> \in OpToRel(<, Nat)
      BY DEF OpToRel
  <2> QED BY <2>1, <2>2
<1>2. PICK x \in S : \A y \in S : ~ (<<y, x>> \in R)
    BY <1>1, WFMin
<1>3. \A y \in S : ~ (y < x)
    BY <1>1, <1>2
<1>4. \A y \in S : x <= y
    BY <1>3
<1> QED BY <1>4

\* Least and Latest name members of the set.
LEMMA LeastLemma ==
    ASSUME NEW S \in SUBSET Instant, S # {}
    PROVE  Least(S) \in S /\ \A u \in S : Least(S) <= u
<1>1. S \subseteq Nat
    BY ScheduleAssumption DEF Instant
<1>2. PICK x \in S : \A y \in S : x <= y
    BY <1>1, SmallestLemma
<1> QED BY <1>2 DEF Least

LEMMA LatestLemma ==
    ASSUME NEW S \in SUBSET Instant, S # {}
    PROVE  Latest(S) \in S /\ \A u \in S : u <= Latest(S)
<1> DEFINE Back == {Horizon - t : t \in S}
<1>0. Horizon \in Nat
    BY ScheduleAssumption
<1>1. \A t \in S : t \in Nat /\ t <= Horizon /\ Horizon - t \in Nat
    BY <1>0 DEF Instant
<1>2. PICK x \in Back : \A y \in Back : x <= y
  <2>1. Back \subseteq Nat
      BY <1>1
  <2>2. Back # {}
      OBVIOUS
  <2> HIDE DEF Back
  <2> QED BY <2>1, <2>2, SmallestLemma
<1>3. PICK t \in S : x = Horizon - t
    BY <1>2
<1>4. ASSUME NEW u \in S PROVE u <= t
  <2>1. Horizon - t <= Horizon - u
      BY <1>2, <1>3, <1>4
  <2> QED BY <1>0, <1>1, <1>3, <1>4, <2>1
<1> QED BY <1>3, <1>4 DEF Latest

\* The first occurrence after an instant.
LEMMA NextLemma ==
    ASSUME NEW times \in SUBSET Instant, NEW t \in Nat
    PROVE  /\ Next(times, t) = Never => \A u \in times : u <= t
           /\ Next(times, t) # Never =>
                /\ Next(times, t) \in times /\ t < Next(times, t)
                /\ \A u \in times : u <= t \/ Next(times, t) <= u
<1> DEFINE later == {u \in times : u > t}
<1>0. Horizon \in Nat /\ 0 \notin Instant
    BY ScheduleAssumption DEF Instant
<1>1. CASE later = {}
    BY <1>0, <1>1 DEF Next, Never, Instant
<1>2. CASE later # {}
  <2>1. Least(later) \in later /\ \A u \in later : Least(later) <= u
      BY <1>2, LeastLemma
  <2>2. Next(times, t) = Least(later)
      BY <1>2 DEF Next
  <2>3. Next(times, t) # Never
      BY <1>0, <2>1, <2>2 DEF Never
  <2> QED BY <1>0, <2>1, <2>2, <2>3 DEF Instant
<1> QED BY <1>1, <1>2

\* The first PageSize members of a set: all of them, or there is a later one.
FirstOf(all) == {t \in all : Cardinality({u \in all : u < t}) < PageSize}

LEMMA FirstLemma ==
    ASSUME NEW all \in SUBSET Instant, all # {}
    PROVE  /\ FirstOf(all) # {} /\ FirstOf(all) \subseteq all
           /\ Cardinality(all) > PageSize => \E q \in all : \A p \in FirstOf(all) : p < q
           /\ ~(Cardinality(all) > PageSize) => FirstOf(all) = all
<1> DEFINE before(t) == {u \in all : u < t}
           m == Latest(all)
           l == Least(all)
<1>0. /\ PageSize \in Nat /\ PageSize > 0
      /\ \A u \in all : u \in Nat
    BY ScheduleAssumption DEF Instant
<1>1. IsFiniteSet(all)
  <2>1. IsFiniteSet(Instant)
      BY ScheduleAssumption, FS_Interval DEF Instant
  <2> QED BY <2>1, FS_Subset
<1>2. \A t : IsFiniteSet(before(t)) /\ Cardinality(before(t)) \in Nat
  <2> TAKE t
  <2>1. before(t) \subseteq all
      OBVIOUS
  <2> HIDE DEF before
  <2> QED BY <1>1, <2>1, FS_Subset, FS_CardinalityType
<1>3. Cardinality(all) \in Nat
    BY <1>1, FS_CardinalityType
<1>4. l \in all /\ \A u \in all : l <= u
    BY LeastLemma
<1>5. m \in all /\ \A u \in all : u <= m
    BY LatestLemma
<1> HIDE DEF l, m
<1>6. l \in FirstOf(all)
  <2>1. before(l) = {}
      BY <1>0, <1>4
  <2>2. Cardinality(before(l)) = 0
      BY <2>1, FS_EmptySet
  <2> QED BY <1>0, <1>4, <2>2 DEF FirstOf
<1>7. Cardinality(before(m)) = Cardinality(all) - 1
  <2>1. before(m) = all \ {m}
      BY <1>0, <1>5
  <2> QED BY <1>1, <1>5, <2>1, FS_RemoveElement
<1>8. ASSUME NEW p \in all, NEW q \in all, q <= p
      PROVE  Cardinality(before(q)) <= Cardinality(before(p))
  <2>1. before(q) \subseteq before(p)
      BY <1>0, <1>8
  <2> HIDE DEF before
  <2> QED BY <1>2, <2>1, FS_Subset
<1>9. ASSUME Cardinality(all) > PageSize, NEW p \in FirstOf(all) PROVE p < m
  <2>1. p \in all /\ Cardinality(before(p)) < PageSize
      BY <1>9 DEF FirstOf
  <2>2. ASSUME m <= p PROVE FALSE
    <3>1. Cardinality(before(m)) <= Cardinality(before(p))
        BY <1>5, <1>8, <2>1, <2>2
    <3> HIDE DEF before
    <3> QED BY <1>0, <1>2, <1>3, <1>7, <1>9, <2>1, <3>1
  <2> QED BY <1>0, <1>5, <2>1, <2>2
<1>10. ASSUME ~(Cardinality(all) > PageSize), NEW t \in all PROVE t \in FirstOf(all)
  <2>1. Cardinality(before(t)) <= Cardinality(before(m))
      BY <1>5, <1>8, <1>10
  <2>2. Cardinality(before(t)) < PageSize
    <3> HIDE DEF before
    <3> QED BY <1>0, <1>2, <1>3, <1>7, <1>10, <2>1
  <2> QED BY <1>10, <2>2 DEF FirstOf
<1> QED BY <1>5, <1>6, <1>9, <1>10 DEF FirstOf

-----------------------------------------------------------------------------
(* The inductive invariant. *)

\* A cursor stands on an occurrence; a schedule that is gone has none.
RowsAreSound ==
    \A s \in ScheduleId :
        /\ schedule[s].next \in schedule[s].times \cup {Never}
        /\ ~Present(s) => schedule[s].times = {}
        /\ schedule[s].status = "absent" => started[s] = <<>>

\* The items of a tick belong to schedules of their own and still name their
\* cursors: only the tick moves a cursor, and it does so last.
ItemsAreCurrent ==
    /\ tick.now <= clock
    /\ tick.stage # "idle" => tick.due # {}
    /\ \A i, j \in tick.due : i.id = j.id => i = j
    /\ \A i \in tick.due :
        /\ i.next \in 1..tick.now
        /\ schedule[i.id].status # "absent"
        /\ Present(i.id) => schedule[i.id].next = i.next

\* What a tick has gone through is in the table of firings.
WorkIsRecorded ==
    /\ tick.stage \in {"recorded", "claimed"} =>
           \A t \in Expired : firing[Item.id][t] # "none"
    /\ tick.stage = "claimed" => \A t \in Chosen : firing[Item.id][t] # "none"

\* A run was queued for an occurrence that lay behind the clock, lies behind
\* the cursor too or has its firing, and is none a tick in progress overlooks.
RunsAreBehind ==
    \A s \in ScheduleId : \A k \in 1..Len(started[s]) :
        /\ started[s][k] <= clock
        /\ Present(s) =>
             \/ schedule[s].next = Never
             \/ started[s][k] < schedule[s].next
             \/ /\ started[s][k] \in schedule[s].times
                /\ firing[s][started[s][k]] # "none"
        /\ \A i \in tick.due : i.id = s => started[s][k] <= tick.now

SchedulesInv ==
    /\ ScheduleTypeOK
    /\ RowsAreSound /\ ItemsAreCurrent /\ WorkIsRecorded
    /\ RunsAreBehind /\ RunsFireForward /\ NoOccurrenceVanishes

-----------------------------------------------------------------------------
(* What the operators of the tick yield. *)

LEMMA InitIsSound == ScheduleInit => SchedulesInv
<1> SUFFICES ASSUME ScheduleInit PROVE SchedulesInv
    OBVIOUS
<1>0. Horizon \in Nat /\ MaxFaults \in Nat
    BY ScheduleAssumption
<1>1. ScheduleTypeOK
  <2>1. Absent \in [status : {"absent", "present", "deleted"},
                    times : Timetables \cup {{}}, since : 0..Horizon,
                    enabled : BOOLEAN, next : Instant \cup {Never}]
      BY <1>0 DEF Absent
  <2>2. <<>> \in Seq(Instant)
      OBVIOUS
  <2>3. Idle \in [stage : {"idle", "listed", "recorded", "claimed"}, now : 0..Horizon,
                  due : SUBSET [id : ScheduleId, next : Instant]]
      BY <1>0 DEF Idle
  <2>4. /\ clock \in 0..Horizon /\ faults \in 0..MaxFaults
        /\ bound \subseteq ScheduleId /\ blocked \in BOOLEAN
    <3>1. clock = 0 /\ faults = 0 /\ bound = ScheduleId /\ blocked = FALSE
        BY DEF ScheduleInit
    <3>2. 0 \in 0..Horizon /\ 0 \in 0..MaxFaults
        BY <1>0
    <3> QED BY <3>1, <3>2
  <2>5. firing \in [ScheduleId -> [Instant -> {"none", "missed_expired", "queued",
                                             "blocked_main_thread_lost"}]]
      BY DEF ScheduleInit
  <2>6. /\ schedule = [s \in ScheduleId |-> Absent]
        /\ started = [s \in ScheduleId |-> <<>>] /\ tick = Idle
      BY DEF ScheduleInit
  <2>7. /\ schedule \in [ScheduleId -> [status : {"absent", "present", "deleted"},
                                       times : Timetables \cup {{}}, since : 0..Horizon,
                                       enabled : BOOLEAN, next : Instant \cup {Never}]]
        /\ started \in [ScheduleId -> Seq(Instant)]
    <3> HIDE DEF Absent
    <3> QED BY <2>1, <2>2, <2>6
  <2> QED BY <2>3, <2>4, <2>5, <2>6, <2>7 DEF ScheduleTypeOK
<1>2. \A s \in ScheduleId : schedule[s] = Absent /\ started[s] = <<>>
    BY DEF ScheduleInit
<1>3. RowsAreSound
    BY <1>2 DEF RowsAreSound, Absent
<1>4. tick.stage = "idle" /\ tick.now = 0 /\ tick.due = {} /\ clock = 0
    BY DEF ScheduleInit, Idle
<1>5. ItemsAreCurrent /\ WorkIsRecorded
    BY <1>4 DEF ItemsAreCurrent, WorkIsRecorded
<1>6. RunsAreBehind /\ RunsFireForward
    BY <1>2 DEF RunsAreBehind, RunsFireForward
<1>7. NoOccurrenceVanishes
    BY <1>2 DEF NoOccurrenceVanishes, Present, Absent
<1> QED BY <1>1, <1>3, <1>5, <1>6, <1>7 DEF SchedulesInv

\* The fields of a row and of the tick have their types.
LEMMA FieldsLemma ==
    ASSUME ScheduleTypeOK
    PROVE  /\ Horizon \in Nat /\ clock \in Nat /\ tick.now \in Nat /\ tick.now <= Horizon
           /\ tick.due \in SUBSET [id : ScheduleId, next : Instant]
           /\ tick.stage \in {"idle", "listed", "recorded", "claimed"}
           /\ \A s \in ScheduleId :
                /\ schedule[s].times \in SUBSET Instant
                /\ schedule[s].next \in Instant \cup {Never}
                /\ schedule[s].since \in Nat
                /\ started[s] \in Seq(Instant)
           /\ \A t \in Instant : t \in Nat /\ 1 <= t /\ t <= Horizon
<1>1. /\ Horizon \in Nat /\ Timetables \subseteq SUBSET Instant
      /\ \A t \in Instant : t \in Nat /\ 1 <= t /\ t <= Horizon
    BY ScheduleAssumption DEF Instant
<1>2. clock \in 0..Horizon /\ tick.now \in 0..Horizon
    BY DEF ScheduleTypeOK
<1>3. clock \in Nat /\ tick.now \in Nat /\ tick.now <= Horizon
    BY <1>1, <1>2
<1>4. /\ tick.due \in SUBSET [id : ScheduleId, next : Instant]
      /\ tick.stage \in {"idle", "listed", "recorded", "claimed"}
    BY DEF ScheduleTypeOK
<1>5. ASSUME NEW s \in ScheduleId
      PROVE  /\ schedule[s].times \in SUBSET Instant
             /\ schedule[s].next \in Instant \cup {Never}
             /\ schedule[s].since \in Nat
             /\ started[s] \in Seq(Instant)
  <2>1. schedule[s] \in [status : {"absent", "present", "deleted"},
                         times : Timetables \cup {{}}, since : 0..Horizon,
                         enabled : BOOLEAN, next : Instant \cup {Never}]
      BY DEF ScheduleTypeOK
  <2>2. /\ schedule[s].times \in Timetables \cup {{}} /\ schedule[s].since \in 0..Horizon
        /\ schedule[s].next \in Instant \cup {Never}
      BY <2>1
  <2>3. schedule[s].times \in SUBSET Instant
      BY <1>1, <2>2
  <2>4. started[s] \in Seq(Instant)
      BY DEF ScheduleTypeOK
  <2> QED BY <1>1, <2>2, <2>3, <2>4
<1> QED BY <1>1, <1>3, <1>4, <1>5

\* A tick in progress has an item.
LEMMA ItemLemma ==
    ASSUME ScheduleTypeOK, ItemsAreCurrent, tick.stage # "idle"
    PROVE  /\ Item \in tick.due /\ Item.id \in ScheduleId
           /\ Item.next \in Nat /\ 1 <= Item.next /\ Item.next <= tick.now
           /\ Times \in SUBSET Instant
           /\ schedule[Item.id].status # "absent"
           /\ Present(Item.id) => schedule[Item.id].next = Item.next
<1> DEFINE cursors == {i.next : i \in tick.due}
<1>0. /\ tick.now \in Nat
      /\ tick.due \in SUBSET [id : ScheduleId, next : Instant]
      /\ \A s \in ScheduleId : schedule[s].times \in SUBSET Instant
    BY FieldsLemma
<1>1. \A i \in tick.due : /\ i.id \in ScheduleId
                          /\ i.next \in Nat /\ 1 <= i.next /\ i.next <= tick.now
    BY <1>0 DEF ItemsAreCurrent
<1>2. tick.due # {}
    BY DEF ItemsAreCurrent
<1>3. PICK c \in cursors : \A d \in cursors : c <= d
  <2>1. cursors \subseteq Nat
      BY <1>1
  <2>2. cursors # {}
      BY <1>2
  <2> HIDE DEF cursors
  <2> QED BY <2>1, <2>2, SmallestLemma
<1>4. PICK i \in tick.due : \A j \in tick.due : i.next <= j.next
    BY <1>3
<1>5. Item \in tick.due
    BY <1>4 DEF Item
<1> QED BY <1>0, <1>1, <1>5 DEF ItemsAreCurrent, Times

\* The page of a tick: what it holds, and what it leaves.
LEMMA PageLemma ==
    ASSUME ScheduleTypeOK, ItemsAreCurrent, tick.stage # "idle"
    PROVE  /\ Page \subseteq Overdue /\ Overdue \in SUBSET Instant
           /\ MoreDue => \E q \in Overdue : \A p \in Page : p < q
           /\ ~MoreDue => Page = Overdue
           /\ Overdue # {} => Latest(Page) \in Page /\ \A u \in Page : u <= Latest(Page)
<1>1. Overdue \in SUBSET Instant
    BY ItemLemma DEF Overdue
<1>2. Page = FirstOf(Overdue)
    BY DEF Page, FirstOf
<1>3. CASE Overdue = {}
  <2>1. Page = {}
      BY <1>2, <1>3 DEF FirstOf
  <2>2. Cardinality(Overdue) = 0 /\ PageSize \in Nat
      BY <1>3, FS_EmptySet, ScheduleAssumption
  <2>3. ~MoreDue
      BY <2>2 DEF MoreDue
  <2> QED BY <1>1, <1>3, <2>1, <2>3
<1>4. CASE Overdue # {}
  <2>1. /\ Page # {} /\ Page \subseteq Overdue
        /\ MoreDue => \E q \in Overdue : \A p \in Page : p < q
        /\ ~MoreDue => Page = Overdue
      BY <1>1, <1>2, <1>4, FirstLemma DEF MoreDue
  <2>2. Latest(Page) \in Page /\ \A u \in Page : u <= Latest(Page)
      BY <1>1, <2>1, LatestLemma
  <2> QED BY <1>1, <2>1, <2>2
<1> QED BY <1>3, <1>4

\* The occurrence a run is queued for is the latest of the backlog; with no
\* later page to come, the latest is chosen or has expired.
LEMMA ChosenLemma ==
    ASSUME ScheduleTypeOK, ItemsAreCurrent, tick.stage # "idle"
    PROVE  /\ \A t \in Chosen : /\ ~MoreDue /\ t \in Overdue
                                /\ \A u \in Overdue : u <= t
           /\ ~MoreDue /\ Overdue # {} => Latest(Page) \in Expired \cup Chosen
<1>0. /\ Page \subseteq Overdue /\ Overdue \in SUBSET Instant
      /\ ~MoreDue => Page = Overdue
      /\ Overdue # {} => Latest(Page) \in Page /\ \A u \in Page : u <= Latest(Page)
    BY PageLemma
<1>1. /\ Window \in Nat /\ tick.now \in Nat
      /\ \A t \in Instant : t \in Nat
    BY FieldsLemma, ScheduleAssumption
<1>2. Recent \in SUBSET Instant /\ Recent \subseteq Page
    BY <1>0 DEF Recent
<1>3. ASSUME NEW t \in Chosen
      PROVE  ~MoreDue /\ t \in Overdue /\ \A u \in Overdue : u <= t
  <2>1. ~MoreDue /\ Recent # {} /\ t = Latest(Recent)
      BY <1>3 DEF Chosen
  <2>2. t \in Recent /\ \A u \in Recent : u <= t
      BY <1>2, <2>1, LatestLemma
  <2>3. ASSUME NEW u \in Overdue PROVE u <= t
    <3>1. u \in Page /\ u \in Nat /\ t \in Nat /\ tick.now <= t + Window
        BY <1>0, <1>1, <1>2, <2>1, <2>2 DEF Recent
    <3>2. CASE tick.now <= u + Window
        BY <2>2, <3>1, <3>2 DEF Recent
    <3>3. CASE ~(tick.now <= u + Window)
        BY <1>1, <3>1, <3>3
    <3> QED BY <3>2, <3>3
  <2> QED BY <1>0, <1>2, <2>1, <2>2, <2>3
<1>4. ASSUME ~MoreDue, Overdue # {} PROVE Latest(Page) \in Expired \cup Chosen
  <2> DEFINE p == Latest(Page)
  <2>1. p \in Page /\ p \in Nat /\ \A u \in Page : u <= p
      BY <1>0, <1>1, <1>4
  <2> HIDE DEF p
  <2>2. CASE p + Window < tick.now
      BY <2>1, <2>2 DEF Expired, p
  <2>3. CASE ~(p + Window < tick.now)
    <3>1. p \in Recent
        BY <1>1, <2>1, <2>3 DEF Recent
    <3>2. Latest(Recent) \in Recent /\ \A u \in Recent : u <= Latest(Recent)
        BY <1>2, <3>1, LatestLemma
    <3>3. p <= Latest(Recent) /\ Latest(Recent) <= p /\ Latest(Recent) \in Nat
        BY <1>0, <1>1, <1>2, <2>1, <3>1, <3>2
    <3>4. p = Latest(Recent)
        BY <2>1, <3>3
    <3> QED BY <1>4, <3>1, <3>4 DEF Chosen, p
  <2> QED BY <2>2, <2>3
<1> QED BY <1>3, <1>4

\* The operators of a tick depend on its item and the timetable only.
LEMMA ItemStands ==
    ASSUME tick'.due = tick.due, tick'.now = tick.now,
           schedule'[Item.id].times = schedule[Item.id].times
    PROVE  /\ Item' = Item /\ Overdue' = Overdue /\ Page' = Page
           /\ Expired' = Expired /\ Chosen' = Chosen
<1>1. Item' = Item
    BY DEF Item
<1>2. Times' = Times
    BY <1>1 DEF Times
<1>3. Overdue' = Overdue
    BY <1>1, <1>2 DEF Overdue
<1>4. Page' = Page /\ MoreDue' = MoreDue
    BY <1>3 DEF Page, MoreDue
<1>5. Expired' = Expired /\ Recent' = Recent
    BY <1>4 DEF Expired, Recent
<1>6. Chosen' = Chosen
    BY <1>4, <1>5 DEF Chosen
<1> QED BY <1>1, <1>3, <1>4, <1>5, <1>6

\* A schedule without occurrences has nothing overdue.
LEMMA NothingOverdue ==
    ASSUME Times = {}
    PROVE  Expired = {} /\ Chosen = {}
<1>1. Overdue = {}
    BY DEF Overdue
<1>2. Page = {}
    BY <1>1 DEF Page
<1>3. Expired = {} /\ Recent = {}
    BY <1>2 DEF Expired, Recent
<1> QED BY <1>3 DEF Chosen

\* When an item is done with, the rest of the tick is as it was.
LEMMA DoneLemma ==
    ASSUME ScheduleTypeOK, ItemsAreCurrent, tick.stage # "idle", tick' = Done
    PROVE  /\ tick'.stage \in {"idle", "listed"} /\ tick'.now \in 0..tick.now
           /\ tick'.stage # "idle" => tick'.due # {} /\ tick'.now = tick.now
           /\ tick'.stage = "idle" => tick'.due = {}
           /\ tick'.due \subseteq tick.due \ {Item}
           /\ tick' \in [stage : {"idle", "listed", "recorded", "claimed"}, now : 0..Horizon,
                         due : SUBSET [id : ScheduleId, next : Instant]]
<1>0. /\ tick \in [stage : {"idle", "listed", "recorded", "claimed"}, now : 0..Horizon,
                   due : SUBSET [id : ScheduleId, next : Instant]]
      /\ tick.now \in Nat /\ Horizon \in Nat
    BY FieldsLemma DEF ScheduleTypeOK
<1>1. CASE tick.due \ {Item} = {}
  <2>1. tick' = Idle
      BY <1>1 DEF Done
  <2> QED BY <1>0, <2>1 DEF Idle
<1>2. CASE tick.due \ {Item} # {}
  <2>1. tick' = [tick EXCEPT !.stage = "listed", !.due = tick.due \ {Item}]
      BY <1>2 DEF Done
  <2>2. tick'.stage = "listed" /\ tick'.now = tick.now /\ tick'.due = tick.due \ {Item}
      BY <1>0, <2>1
  <2>3. tick' \in [stage : {"idle", "listed", "recorded", "claimed"}, now : 0..Horizon,
                   due : SUBSET [id : ScheduleId, next : Instant]]
      BY <1>0, <2>1
  <2> QED BY <1>0, <1>2, <2>2, <2>3
<1> QED BY <1>1, <1>2

-----------------------------------------------------------------------------
(* Types. *)

ScheduleRow == [status : {"absent", "present", "deleted"},
                times : Timetables \cup {{}}, since : 0..Horizon,
                enabled : BOOLEAN, next : Instant \cup {Never}]

TickRow == [stage : {"idle", "listed", "recorded", "claimed"}, now : 0..Horizon,
            due : SUBSET [id : ScheduleId, next : Instant]]

FiringState == {"none", "missed_expired", "queued", "blocked_main_thread_lost"}

\* Parsed.Next yields an occurrence or none.
LEMMA NextType ==
    ASSUME NEW times \in SUBSET Instant, NEW t \in Nat
    PROVE  Next(times, t) \in Instant \cup {Never}
BY NextLemma

\* Every step keeps the types.
LEMMA TypeStep ==
    ASSUME SchedulesInv, [ScheduleNext]_scheduleVars
    PROVE  ScheduleTypeOK'
<1>0. /\ clock \in 0..Horizon /\ faults \in 0..MaxFaults
      /\ schedule \in [ScheduleId -> ScheduleRow]
      /\ firing \in [ScheduleId -> [Instant -> FiringState]]
      /\ started \in [ScheduleId -> Seq(Instant)]
      /\ bound \subseteq ScheduleId /\ blocked \in BOOLEAN
      /\ tick \in TickRow
      /\ ScheduleTypeOK /\ ItemsAreCurrent
    BY DEF SchedulesInv, ScheduleTypeOK, ScheduleRow, TickRow, FiringState
<1>1. Horizon \in Nat /\ MaxFaults \in Nat /\ clock \in Nat
    BY <1>0, ScheduleAssumption
<1> SUFFICES /\ clock' \in 0..Horizon /\ faults' \in 0..MaxFaults
             /\ schedule' \in [ScheduleId -> ScheduleRow]
             /\ firing' \in [ScheduleId -> [Instant -> FiringState]]
             /\ started' \in [ScheduleId -> Seq(Instant)]
             /\ bound' \subseteq ScheduleId /\ blocked' \in BOOLEAN
             /\ tick' \in TickRow
    BY DEF ScheduleTypeOK, ScheduleRow, TickRow, FiringState
<1>2. CASE UNCHANGED scheduleVars
    BY <1>0, <1>2 DEF scheduleVars
<1>3. ASSUME tick.stage # "idle"
      PROVE  /\ Item.id \in ScheduleId /\ Times \in SUBSET Instant
             /\ Overdue \in SUBSET Instant /\ Page \subseteq Overdue
             /\ \A t \in Chosen : t \in Overdue
             /\ tick' = Done => tick' \in TickRow
  <2>1. tick' = Done => tick' \in TickRow
      BY <1>0, <1>3, DoneLemma DEF TickRow
  <2> QED BY <1>0, <1>3, <2>1, ItemLemma, PageLemma, ChosenLemma
<1>4. \A stage \in {"listed", "recorded", "claimed"} :
         [tick EXCEPT !.stage = stage] \in TickRow
    BY <1>0 DEF TickRow
<1>5. CASE BeginTick
  <2> DEFINE due == {s \in ScheduleId : /\ Present(s) /\ schedule[s].enabled
                                        /\ schedule[s].next \in 1..clock}
  <2>1. \A s \in due : [id |-> s, next |-> schedule[s].next] \in [id : ScheduleId, next : Instant]
      BY <1>0, <1>1 DEF Instant
  <2>2. tick' = [stage |-> "listed", now |-> clock,
                 due |-> {[id |-> s, next |-> schedule[s].next] : s \in due}]
      BY <1>5 DEF BeginTick
  <2>3. tick' \in TickRow
    <3> HIDE DEF due
    <3> QED BY <1>0, <2>1, <2>2 DEF TickRow
  <2> QED BY <1>0, <1>5, <2>3 DEF BeginTick, envVars
<1>6. CASE RecordMissed
  <2>1. tick.stage # "idle"
      BY <1>6 DEF RecordMissed
  <2> DEFINE row == [t \in Instant |->
            IF t \in Expired /\ firing[Item.id][t] = "none" THEN "missed_expired"
            ELSE firing[Item.id][t]]
  <2>2. firing[Item.id] \in [Instant -> FiringState]
      BY <1>0, <1>3, <2>1
  <2>3. row \in [Instant -> FiringState]
      BY <2>2 DEF FiringState
  <2>4. firing' = [firing EXCEPT ![Item.id] = row]
      BY <1>6 DEF RecordMissed
  <2>5. firing' \in [ScheduleId -> [Instant -> FiringState]]
    <3> HIDE DEF row
    <3> QED BY <1>0, <2>3, <2>4
  <2> QED BY <1>0, <1>4, <1>6, <2>5 DEF RecordMissed, envVars
<1>7. CASE NothingToRun
    BY <1>0, <1>4, <1>7 DEF NothingToRun, envVars
<1>8. CASE AdvanceCursor
  <2>1. tick.stage # "idle"
      BY <1>8 DEF AdvanceCursor
  <2>2. CASE Present(Item.id) /\ schedule[Item.id].next = Item.next
    <3>1. Item.next \in 1..tick.now /\ tick.now \in Nat /\ Item.next \in Instant \cup {Never}
        BY <1>0, <1>3, <2>1, <2>2, ItemLemma, FieldsLemma
    <3>2. Item.next \in Times
        BY <1>3, <2>1, <2>2, <3>1 DEF SchedulesInv, RowsAreSound, Never, Times
    <3>3. Overdue # {}
        BY <3>1, <3>2 DEF Overdue
    <3>4. Latest(Page) \in Instant
        BY <1>0, <1>3, <2>1, <3>3, PageLemma
    <3>5. Next(Times, Latest(Page)) \in Instant \cup {Never}
        BY <1>3, <2>1, <3>4, NextType DEF Instant
    <3>6. schedule' = [schedule EXCEPT ![Item.id].next = Next(Times, Latest(Page))]
        BY <1>8, <2>2 DEF AdvanceCursor
    <3>7. [schedule[Item.id] EXCEPT !.next = Next(Times, Latest(Page))] \in ScheduleRow
      <4>1. schedule[Item.id] \in ScheduleRow
          BY <1>0, <1>3, <2>1
      <4> HIDE DEF Next
      <4> QED BY <3>5, <4>1 DEF ScheduleRow
    <3>8. schedule' \in [ScheduleId -> ScheduleRow]
        BY <1>0, <1>3, <2>1, <3>6, <3>7
    <3> QED BY <1>0, <1>3, <1>8, <2>1, <3>8 DEF AdvanceCursor, envVars
  <2>3. CASE ~(Present(Item.id) /\ schedule[Item.id].next = Item.next)
      BY <1>0, <1>3, <1>8, <2>1, <2>3 DEF AdvanceCursor, envVars
  <2> QED BY <2>2, <2>3
<1>9. ASSUME tick.stage = "recorded", NEW t \in Chosen,
             \/ QueueRun(Item.id, t) \/ AlreadyClaimed(Item.id, t)
             \/ ThreadLost(Item.id, t) \/ Refused(Item.id, t)
      PROVE  /\ clock' \in 0..Horizon /\ faults' \in 0..MaxFaults
             /\ schedule' \in [ScheduleId -> ScheduleRow]
             /\ firing' \in [ScheduleId -> [Instant -> FiringState]]
             /\ started' \in [ScheduleId -> Seq(Instant)]
             /\ bound' \subseteq ScheduleId /\ blocked' \in BOOLEAN
             /\ tick' \in TickRow
  <2>1. Item.id \in ScheduleId /\ t \in Instant /\ (tick' = Done => tick' \in TickRow)
      BY <1>3, <1>9
  <2>2. \A v \in FiringState : [firing EXCEPT ![Item.id][t] = v]
                                   \in [ScheduleId -> [Instant -> FiringState]]
      BY <1>0, <2>1
  <2>3. CASE QueueRun(Item.id, t)
    <3>1. firing' \in [ScheduleId -> [Instant -> FiringState]]
        BY <2>2, <2>3 DEF QueueRun, FiringState
    <3>2. Append(started[Item.id], t) \in Seq(Instant)
        BY <1>0, <2>1
    <3>3. started' \in [ScheduleId -> Seq(Instant)]
        BY <1>0, <2>1, <2>3, <3>2 DEF QueueRun
    <3> QED BY <1>0, <1>4, <2>3, <3>1, <3>3 DEF QueueRun, envVars
  <2>4. CASE AlreadyClaimed(Item.id, t)
      BY <1>0, <1>4, <2>4 DEF AlreadyClaimed, envVars
  <2>5. CASE ThreadLost(Item.id, t)
    <3>1. firing' \in [ScheduleId -> [Instant -> FiringState]]
        BY <2>2, <2>5 DEF ThreadLost, FiringState
    <3>2. [schedule[Item.id] EXCEPT !.enabled = FALSE] \in ScheduleRow
      <4>1. schedule[Item.id] \in ScheduleRow
          BY <1>0, <2>1
      <4> QED BY ONLY <4>1 DEF ScheduleRow
    <3>3. schedule' = [schedule EXCEPT ![Item.id] = [schedule[Item.id] EXCEPT !.enabled = FALSE]]
        BY <2>5 DEF ThreadLost
    <3>4. schedule' \in [ScheduleId -> ScheduleRow]
        BY <1>0, <2>1, <3>2, <3>3
    <3> QED BY <1>0, <2>1, <2>5, <3>1, <3>4 DEF ThreadLost, envVars
  <2>6. CASE Refused(Item.id, t)
      BY <1>0, <2>1, <2>6 DEF Refused, envVars
  <2> QED BY <1>9, <2>3, <2>4, <2>5, <2>6
<1>10. CASE ItemFails
  <2>1. faults' \in 0..MaxFaults
      BY <1>0, <1>1, <1>10 DEF ItemFails
  <2> QED BY <1>0, <1>3, <1>10, <2>1 DEF ItemFails, envVars
<1>11. CASE Elapse
  <2>1. clock' \in 0..Horizon
      BY <1>1, <1>11 DEF Elapse
  <2> QED BY <1>0, <1>11, <2>1 DEF Elapse
<1>12. CASE ChangeProject
    BY <1>0, <1>12 DEF ChangeProject
<1>13. CASE Crash
  <2>1. faults' \in 0..MaxFaults
      BY <1>0, <1>1, <1>13 DEF Crash
  <2>2. Idle \in TickRow
      BY <1>1 DEF Idle, TickRow
  <2> QED BY <1>0, <1>13, <2>1, <2>2 DEF Crash, envVars
<1>14. ASSUME NEW s \in ScheduleId, NEW times \in Timetables, CreateSchedule(s, times)
       PROVE  /\ UNCHANGED <<clock, faults, firing, started, bound, blocked, tick>>
              /\ schedule' \in [ScheduleId -> ScheduleRow]
  <2>1. times \in SUBSET Instant
      BY ScheduleAssumption DEF Instant
  <2> DEFINE row == [status |-> "present", times |-> times, since |-> clock,
                     enabled |-> TRUE, next |-> Next(times, clock)]
  <2>2. Next(times, clock) \in Instant \cup {Never}
      BY <1>1, <2>1, NextType
  <2>3. row \in ScheduleRow
      BY <1>0, <2>2 DEF ScheduleRow
  <2>4. schedule' = [schedule EXCEPT ![s] = row]
      BY <1>14 DEF CreateSchedule
  <2>5. schedule' \in [ScheduleId -> ScheduleRow]
    <3> HIDE DEF row
    <3> QED BY <1>0, <2>3, <2>4
  <2> QED BY <1>14, <2>5 DEF CreateSchedule, envVars
<1>15. ASSUME NEW s \in ScheduleId, SetEnabled(s)
       PROVE  /\ UNCHANGED <<clock, faults, firing, started, bound, blocked, tick>>
              /\ schedule' \in [ScheduleId -> ScheduleRow]
  <2>1. [schedule[s] EXCEPT !.enabled = ~schedule[s].enabled] \in ScheduleRow
      BY <1>0 DEF ScheduleRow
  <2>2. schedule' = [schedule EXCEPT ![s] = [schedule[s] EXCEPT !.enabled = ~schedule[s].enabled]]
      BY <1>15 DEF SetEnabled
  <2> QED BY <1>0, <1>15, <2>1, <2>2 DEF SetEnabled, envVars
<1>16. ASSUME NEW s \in ScheduleId, DeleteSchedule(s)
       PROVE  /\ UNCHANGED <<clock, faults, started, bound, blocked, tick>>
              /\ schedule' \in [ScheduleId -> ScheduleRow]
              /\ firing' \in [ScheduleId -> [Instant -> FiringState]]
  <2>1. [Absent EXCEPT !.status = "deleted"] \in ScheduleRow
    <3>1. Absent \in ScheduleRow
        BY <1>1 DEF Absent, ScheduleRow
    <3> QED BY <3>1 DEF ScheduleRow
  <2>2. schedule' \in [ScheduleId -> ScheduleRow]
      BY <1>0, <1>16, <2>1 DEF DeleteSchedule
  <2>3. firing' \in [ScheduleId -> [Instant -> FiringState]]
      BY <1>0, <1>16 DEF DeleteSchedule, FiringState
  <2> QED BY <1>16, <2>2, <2>3 DEF DeleteSchedule, envVars
<1>17. ASSUME NEW s \in ScheduleId, ChangeThread(s)
       PROVE  /\ UNCHANGED <<clock, faults, schedule, firing, started, blocked, tick>>
              /\ bound' \subseteq ScheduleId
    BY <1>0, <1>17 DEF ChangeThread
<1>18. CASE ScheduleNext
    BY <1>0, <1>5, <1>6, <1>7, <1>8, <1>9, <1>10, <1>11, <1>12, <1>13, <1>14, <1>15, <1>16,
       <1>17, <1>18 DEF ScheduleNext, TickStep
<1> QED BY <1>2, <1>18

-----------------------------------------------------------------------------
(* The steps. *)

\* A step that leaves status, timetable and cursor of a schedule alone.
SameRow(s) ==
    /\ schedule'[s].status = schedule[s].status /\ schedule'[s].times = schedule[s].times
    /\ schedule'[s].since = schedule[s].since /\ schedule'[s].next = schedule[s].next

\* A step that goes on with the tick, or ends it.
TickGoesOn ==
    /\ tick'.due \subseteq tick.due /\ tick'.now \in Nat /\ tick'.now <= tick.now
    /\ tick'.stage # "idle" => tick'.due # {}
    /\ tick'.due # {} => tick'.now = tick.now

\* Firings are added, not taken away.
FiringsStay ==
    \A s \in ScheduleId : \A t \in Instant : firing[s][t] # "none" => firing'[s][t] # "none"

\* Such steps keep all but the bookkeeping of the tick itself.
LEMMA StandLemma ==
    ASSUME SchedulesInv, \A s \in ScheduleId : SameRow(s), started' = started,
           FiringsStay, TickGoesOn, clock' \in Nat, clock <= clock'
    PROVE  /\ RowsAreSound' /\ ItemsAreCurrent' /\ RunsAreBehind'
           /\ RunsFireForward' /\ NoOccurrenceVanishes'
<1>0. /\ clock \in Nat /\ tick.now \in Nat
      /\ tick.due \in SUBSET [id : ScheduleId, next : Instant]
      /\ \A s \in ScheduleId :
            /\ schedule[s].times \in SUBSET Instant
            /\ schedule[s].next \in Instant \cup {Never}
            /\ started[s] \in Seq(Instant)
      /\ \A t \in Instant : t \in Nat /\ 1 <= t
    BY FieldsLemma DEF SchedulesInv
<1>1. \A s \in ScheduleId : Present(s)' = Present(s)
    BY DEF SameRow, Present
<1>2. RowsAreSound'
    BY <1>1 DEF SchedulesInv, RowsAreSound, SameRow
<1>3. ItemsAreCurrent'
    BY <1>0, <1>1 DEF SchedulesInv, ItemsAreCurrent, SameRow, TickGoesOn
<1>4. RunsAreBehind'
  <2> SUFFICES ASSUME NEW s \in ScheduleId, NEW k \in 1..Len(started[s])
               PROVE  /\ started[s][k] <= clock'
                      /\ Present(s)' =>
                           \/ schedule'[s].next = Never
                           \/ started[s][k] < schedule'[s].next
                           \/ /\ started[s][k] \in schedule'[s].times
                              /\ firing'[s][started[s][k]] # "none"
                      /\ \A i \in tick'.due : i.id = s => started[s][k] <= tick'.now
      BY DEF RunsAreBehind
  <2>1. /\ started[s][k] <= clock
        /\ Present(s) =>
             \/ schedule[s].next = Never
             \/ started[s][k] < schedule[s].next
             \/ /\ started[s][k] \in schedule[s].times
                /\ firing[s][started[s][k]] # "none"
        /\ \A i \in tick.due : i.id = s => started[s][k] <= tick.now
      BY DEF SchedulesInv, RunsAreBehind
  <2>2. started[s][k] \in Instant /\ started[s][k] \in Nat
      BY <1>0
  <2>3. started[s][k] <= clock'
      BY <1>0, <2>1, <2>2
  <2>4. \A i \in tick'.due : i.id = s => started[s][k] <= tick'.now
      BY <2>1 DEF TickGoesOn
  <2>5. ASSUME firing[s][started[s][k]] # "none" PROVE firing'[s][started[s][k]] # "none"
      BY <2>2, <2>5 DEF FiringsStay
  <2>6. schedule'[s].next = schedule[s].next /\ schedule'[s].times = schedule[s].times
      BY DEF SameRow
  <2> QED BY <1>1, <2>1, <2>3, <2>4, <2>5, <2>6
<1>5. RunsFireForward'
    BY DEF SchedulesInv, RunsFireForward
<1>6. NoOccurrenceVanishes'
  <2> SUFFICES ASSUME NEW s \in ScheduleId, Present(s), NEW t \in schedule[s].times,
                      schedule[s].since < t,
                      schedule[s].next = Never \/ t < schedule[s].next
               PROVE  \/ \E u \in schedule[s].times : t <= u /\ firing'[s][u] # "none"
                      \/ schedule[s].next \in 1..clock'
      BY <1>1 DEF NoOccurrenceVanishes, SameRow
  <2>1. CASE \E u \in schedule[s].times : t <= u /\ firing[s][u] # "none"
      BY <1>0, <2>1 DEF FiringsStay
  <2>2. CASE schedule[s].next \in 1..clock
      BY <1>0, <2>2
  <2>3. \/ \E u \in schedule[s].times : t <= u /\ firing[s][u] # "none"
        \/ schedule[s].next \in 1..clock
      BY DEF SchedulesInv, NoOccurrenceVanishes
  <2> QED BY <2>1, <2>2, <2>3
<1> QED BY <1>2, <1>3, <1>4, <1>5, <1>6

\* The part of the invariant that is not about types.
StepInv ==
    /\ RowsAreSound /\ ItemsAreCurrent /\ WorkIsRecorded
    /\ RunsAreBehind /\ RunsFireForward /\ NoOccurrenceVanishes

\* A tick that drops its item, or ends, while the tables stand.
LEMMA DropStep ==
    ASSUME SchedulesInv, tick.stage # "idle", tick' = Done \/ tick' = Idle,
           \A s \in ScheduleId : SameRow(s), started' = started, FiringsStay, clock' = clock
    PROVE  StepInv'
<1>0. ScheduleTypeOK /\ ItemsAreCurrent /\ clock \in Nat /\ tick.now \in Nat
    BY FieldsLemma DEF SchedulesInv
<1>1. TickGoesOn /\ tick'.stage \in {"idle", "listed"}
  <2>1. CASE tick' = Done
      BY <1>0, <2>1, DoneLemma DEF TickGoesOn
  <2>2. CASE tick' = Idle
      BY <1>0, <2>2 DEF TickGoesOn, Idle
  <2> QED BY <2>1, <2>2
<1>2. WorkIsRecorded'
    BY <1>1 DEF WorkIsRecorded
<1> QED BY <1>0, <1>1, <1>2, StandLemma DEF StepInv

\* A tick that goes on to its next transaction, the timetables standing.
LEMMA StageStep ==
    ASSUME SchedulesInv, NEW stage \in {"recorded", "claimed"}, tick.stage # "idle",
           tick' = [tick EXCEPT !.stage = stage],
           \A s \in ScheduleId : SameRow(s), started' = started, FiringsStay, clock' = clock,
           \A t \in Expired : firing'[Item.id][t] # "none",
           stage = "claimed" => \A t \in Chosen : firing'[Item.id][t] # "none"
    PROVE  StepInv'
<1>0. ScheduleTypeOK /\ ItemsAreCurrent /\ clock \in Nat /\ tick.now \in Nat
    BY FieldsLemma DEF SchedulesInv
<1>1. tick'.stage = stage /\ tick'.now = tick.now /\ tick'.due = tick.due
  <2>1. tick \in TickRow
      BY <1>0 DEF ScheduleTypeOK, TickRow
  <2> QED BY <2>1 DEF TickRow
<1>2. TickGoesOn
    BY <1>0, <1>1 DEF TickGoesOn, ItemsAreCurrent
<1>3. Item' = Item /\ Expired' = Expired /\ Chosen' = Chosen
  <2>1. schedule'[Item.id].times = schedule[Item.id].times
      BY <1>0, ItemLemma DEF SameRow
  <2> QED BY <1>1, <2>1, ItemStands
<1>4. WorkIsRecorded'
    BY <1>1, <1>3 DEF WorkIsRecorded
<1> QED BY <1>0, <1>2, <1>4, StandLemma DEF StepInv

\* A step of the user or of time, the tick and the timetables standing.
LEMMA OutsideStep ==
    ASSUME SchedulesInv, tick' = tick, \A s \in ScheduleId : SameRow(s),
           UNCHANGED <<firing, started>>, clock' \in Nat, clock <= clock'
    PROVE  StepInv'
<1>0. ScheduleTypeOK /\ ItemsAreCurrent /\ tick.now \in Nat
    BY FieldsLemma DEF SchedulesInv
<1>1. TickGoesOn /\ FiringsStay
    BY <1>0 DEF TickGoesOn, ItemsAreCurrent, FiringsStay
<1>2. WorkIsRecorded'
  <2>1. CASE tick.stage = "idle"
      BY <2>1 DEF WorkIsRecorded
  <2>2. CASE tick.stage # "idle"
    <3>1. schedule'[Item.id].times = schedule[Item.id].times
        BY <1>0, <2>2, ItemLemma DEF SameRow
    <3>2. Item' = Item /\ Expired' = Expired /\ Chosen' = Chosen
        BY <3>1, ItemStands
    <3> QED BY <3>2 DEF WorkIsRecorded, SchedulesInv
  <2> QED BY <2>1, <2>2
<1> QED BY <1>1, <1>2, StandLemma DEF StepInv

\* Nothing changes for the rows when the table is left alone.
LEMMA RowsStand ==
    ASSUME schedule' = schedule
    PROVE  \A s \in ScheduleId : SameRow(s)
BY DEF SameRow

LEMMA BeginTickStep ==
    ASSUME SchedulesInv, BeginTick
    PROVE  StepInv'
<1> DEFINE due == {s \in ScheduleId : /\ Present(s) /\ schedule[s].enabled
                                      /\ schedule[s].next \in 1..clock}
           items == {[id |-> s, next |-> schedule[s].next] : s \in due}
<1>0. /\ clock \in Nat
      /\ \A s \in ScheduleId : started[s] \in Seq(Instant)
      /\ \A t \in Instant : t \in Nat
    BY FieldsLemma DEF SchedulesInv
<1>1. /\ tick' = [stage |-> "listed", now |-> clock, due |-> items]
      /\ due # {} /\ tick.stage = "idle"
      /\ UNCHANGED <<clock, schedule, firing, started>>
    BY DEF BeginTick, envVars
<1>2. /\ \A i \in items : i.id \in due /\ i.next = schedule[i.id].next
      /\ \A i, j \in items : i.id = j.id => i = j
      /\ items # {}
  <2>1. \A i \in items : \E s \in due : i = [id |-> s, next |-> schedule[s].next]
      OBVIOUS
  <2>2. \A i \in items : i.id \in due /\ i = [id |-> i.id, next |-> schedule[i.id].next]
    <3> HIDE DEF due, items
    <3> QED BY <2>1
  <2>3. items # {}
    <3> HIDE DEF due
    <3> QED BY <1>1
  <2> HIDE DEF due, items
  <2> QED BY <2>2, <2>3
<1>3. tick'.stage = "listed" /\ tick'.now = clock /\ tick'.due = items
    BY <1>1
<1>4. \A s \in due : /\ s \in ScheduleId /\ Present(s) /\ schedule[s].status # "absent"
                     /\ schedule[s].next \in 1..clock
    BY DEF Present
<1>5. \A s \in ScheduleId : Present(s)' = Present(s)
    BY <1>1 DEF Present
<1> HIDE DEF due, items
<1>6. RowsAreSound' /\ RunsFireForward' /\ NoOccurrenceVanishes'
    BY <1>1, <1>5 DEF SchedulesInv, RowsAreSound, RunsFireForward, NoOccurrenceVanishes
<1>7. ItemsAreCurrent'
    BY <1>0, <1>1, <1>2, <1>3, <1>4, <1>5 DEF ItemsAreCurrent
<1>8. WorkIsRecorded'
    BY <1>3 DEF WorkIsRecorded
<1>9. RunsAreBehind'
    BY <1>1, <1>3, <1>5 DEF SchedulesInv, RunsAreBehind
<1> QED BY <1>6, <1>7, <1>8, <1>9 DEF StepInv

LEMMA RecordMissedStep ==
    ASSUME SchedulesInv, RecordMissed
    PROVE  StepInv'
<1>0. /\ ScheduleTypeOK /\ ItemsAreCurrent /\ tick.stage # "idle"
      /\ firing \in [ScheduleId -> [Instant -> FiringState]]
    BY DEF SchedulesInv, RecordMissed, ScheduleTypeOK, FiringState
<1>1. Item.id \in ScheduleId /\ Expired \subseteq Instant
    BY <1>0, ItemLemma, PageLemma DEF Expired
<1>2. /\ tick' = [tick EXCEPT !.stage = "recorded"]
      /\ UNCHANGED <<clock, schedule, started>>
      /\ firing' = [firing EXCEPT ![Item.id] = [t \in Instant |->
            IF t \in Expired /\ firing[Item.id][t] = "none" THEN "missed_expired"
            ELSE firing[Item.id][t]]]
    BY DEF RecordMissed, envVars
<1>3. \A t \in Expired : firing'[Item.id][t] # "none"
    BY <1>0, <1>1, <1>2
<1>4. FiringsStay
    BY <1>0, <1>1, <1>2 DEF FiringsStay
<1> QED BY <1>0, <1>2, <1>3, <1>4, RowsStand, StageStep

LEMMA NothingToRunStep ==
    ASSUME SchedulesInv, NothingToRun
    PROVE  StepInv'
<1>1. /\ tick.stage = "recorded" /\ Chosen = {}
      /\ tick' = [tick EXCEPT !.stage = "claimed"]
      /\ UNCHANGED <<clock, schedule, firing, started>>
    BY DEF NothingToRun, envVars
<1>2. \A t \in Expired : firing'[Item.id][t] # "none"
    BY <1>1 DEF SchedulesInv, WorkIsRecorded
<1> QED BY <1>1, <1>2, RowsStand, StageStep DEF FiringsStay

LEMMA AlreadyClaimedStep ==
    ASSUME SchedulesInv, tick.stage = "recorded", NEW t \in Chosen, AlreadyClaimed(Item.id, t)
    PROVE  StepInv'
<1>1. /\ firing[Item.id][t] # "none"
      /\ tick' = [tick EXCEPT !.stage = "claimed"]
      /\ UNCHANGED <<clock, schedule, firing, started>>
    BY DEF AlreadyClaimed, envVars
<1>2. \A u \in Expired : firing'[Item.id][u] # "none"
    BY <1>1 DEF SchedulesInv, WorkIsRecorded
<1>3. \A u \in Chosen : u = t
    BY DEF Chosen
<1> QED BY <1>1, <1>2, <1>3, RowsStand, StageStep DEF FiringsStay

LEMMA QueueRunStep ==
    ASSUME SchedulesInv, tick.stage = "recorded", NEW t \in Chosen, QueueRun(Item.id, t)
    PROVE  StepInv'
<1> DEFINE id == Item.id
<1>0. /\ ScheduleTypeOK /\ ItemsAreCurrent /\ tick.stage # "idle"
      /\ firing \in [ScheduleId -> [Instant -> FiringState]]
      /\ clock \in Nat /\ tick.now \in Nat
      /\ started \in [ScheduleId -> Seq(Instant)]
      /\ \A u \in Instant : u \in Nat
    BY FieldsLemma DEF SchedulesInv, ScheduleTypeOK, FiringState
<1>1. /\ id \in ScheduleId /\ Item \in tick.due /\ schedule[id].status # "absent"
      /\ Item.next \in Nat /\ (Present(id) => schedule[id].next = Item.next)
    BY <1>0, ItemLemma
<1>2. t \in Overdue /\ \A u \in Overdue : u <= t
    BY <1>0, ChosenLemma
<1>3. /\ t \in Instant /\ t \in Nat /\ t \in schedule[id].times
      /\ Item.next <= t /\ t <= tick.now
    BY <1>0, <1>2, ItemLemma DEF Overdue, Times
<1>4. Present(id) /\ schedule[id].next = Item.next
    BY <1>1, <1>3 DEF SchedulesInv, RowsAreSound
<1>5. /\ firing[id][t] = "none"
      /\ firing' = [firing EXCEPT ![id][t] = "queued"]
      /\ started' = [started EXCEPT ![id] = Append(started[id], t)]
      /\ tick' = [tick EXCEPT !.stage = "claimed"]
      /\ UNCHANGED <<clock, schedule>>
    BY DEF QueueRun, envVars
<1>6. FiringsStay /\ firing'[id][t] # "none"
    BY <1>0, <1>1, <1>3, <1>5 DEF FiringsStay
<1>7. tick'.stage = "claimed" /\ tick'.now = tick.now /\ tick'.due = tick.due
  <2>1. tick \in TickRow
      BY <1>0 DEF ScheduleTypeOK, TickRow
  <2> QED BY <1>5, <2>1 DEF TickRow
<1>8. \A s \in ScheduleId : Present(s)' = Present(s)
    BY <1>5 DEF Present
<1>9. tick.now <= clock
    BY <1>0 DEF ItemsAreCurrent
<1>10. \* The runs queued before are of earlier occurrences.
       ASSUME NEW k \in 1..Len(started[id]) PROVE started[id][k] < t
  <2> DEFINE u == started[id][k]
  <2> SUFFICES u < t
      OBVIOUS
  <2>1. u \in Instant /\ u \in Nat
      BY <1>0, <1>1
  <2>2. /\ u <= tick.now
        /\ \/ schedule[id].next = Never
           \/ u < schedule[id].next
           \/ u \in schedule[id].times /\ firing[id][u] # "none"
      BY <1>1, <1>4 DEF SchedulesInv, RunsAreBehind
  <2> HIDE DEF u
  <2>3. schedule[id].next # Never
      BY <1>0, <1>4, ItemLemma DEF Never
  <2>4. CASE u < schedule[id].next
      BY <1>1, <1>3, <1>4, <2>1, <2>4
  <2>5. CASE ~(u < schedule[id].next)
    <3>1. u \in schedule[id].times /\ firing[id][u] # "none" /\ Item.next <= u
        BY <1>1, <1>4, <2>1, <2>2, <2>3, <2>5
    <3>2. u \in Overdue
        BY <2>2, <3>1 DEF Overdue, Times
    <3>3. u <= t /\ u # t
        BY <1>2, <1>5, <3>1, <3>2
    <3> QED BY <1>3, <2>1, <3>3
  <2> QED BY <2>4, <2>5
<1>11. RowsAreSound'
    BY <1>1, <1>0, <1>5, <1>8 DEF SchedulesInv, RowsAreSound
<1>12. ItemsAreCurrent'
    BY <1>0, <1>5, <1>7 DEF ItemsAreCurrent, Present
<1>13. WorkIsRecorded'
  <2>1. Item' = Item /\ Expired' = Expired /\ Chosen' = Chosen
      BY <1>5, <1>7, ItemStands
  <2>2. \A u \in Expired : firing[id][u] # "none" /\ u \in Instant
      BY <1>0, PageLemma DEF SchedulesInv, WorkIsRecorded, Expired
  <2>3. \A u \in Chosen : u = t
      BY DEF Chosen
  <2> QED BY <1>1, <1>6, <1>7, <2>1, <2>2, <2>3 DEF WorkIsRecorded, FiringsStay
<1>14. \A s \in ScheduleId : \A k \in 1..Len(started'[s]) :
          \/ k \in 1..Len(started[s]) /\ started'[s][k] = started[s][k]
          \/ s = id /\ k = Len(started[id]) + 1 /\ started'[s][k] = t
    BY <1>0, <1>1, <1>3, <1>5
<1>15. RunsAreBehind'
  <2> SUFFICES ASSUME NEW s \in ScheduleId, NEW k \in 1..Len(started'[s])
               PROVE  /\ started'[s][k] <= clock
                      /\ Present(s) =>
                           \/ schedule[s].next = Never
                           \/ started'[s][k] < schedule[s].next
                           \/ /\ started'[s][k] \in schedule[s].times
                              /\ firing'[s][started'[s][k]] # "none"
                      /\ \A i \in tick.due : i.id = s => started'[s][k] <= tick.now
      BY <1>5, <1>7, <1>8 DEF RunsAreBehind
  <2>1. CASE k \in 1..Len(started[s]) /\ started'[s][k] = started[s][k]
    <3>1. /\ started[s][k] <= clock
          /\ Present(s) =>
               \/ schedule[s].next = Never
               \/ started[s][k] < schedule[s].next
               \/ /\ started[s][k] \in schedule[s].times
                  /\ firing[s][started[s][k]] # "none"
          /\ \A i \in tick.due : i.id = s => started[s][k] <= tick.now
        BY <2>1 DEF SchedulesInv, RunsAreBehind
    <3>2. started[s][k] \in Instant
        BY <1>0, <2>1
    <3>3. firing[s][started[s][k]] # "none" => firing'[s][started[s][k]] # "none"
        BY <1>6, <3>2 DEF FiringsStay
    <3> QED BY <2>1, <3>1, <3>3
  <2>2. CASE s = id /\ k = Len(started[id]) + 1 /\ started'[s][k] = t
    <3>1. t <= clock
        BY <1>0, <1>3, <1>9
    <3> QED BY <1>3, <1>6, <2>2, <3>1
  <2> QED BY <1>14, <2>1, <2>2
<1>16. RunsFireForward'
  <2> SUFFICES ASSUME NEW s \in ScheduleId, NEW i \in 1..Len(started'[s]),
                      NEW j \in 1..Len(started'[s]), i < j
               PROVE  started'[s][i] < started'[s][j]
      BY DEF RunsFireForward
  <2>1. Len(started[s]) \in Nat /\ Len(started[id]) \in Nat
      BY <1>0, <1>1
  <2>2. CASE j \in 1..Len(started[s]) /\ started'[s][j] = started[s][j]
    <3>1. i \in 1..Len(started[s]) /\ started'[s][i] = started[s][i]
        BY <1>14, <2>1, <2>2
    <3> QED BY <2>2, <3>1 DEF SchedulesInv, RunsFireForward
  <2>3. CASE s = id /\ j = Len(started[id]) + 1 /\ started'[s][j] = t
    <3>1. i \in 1..Len(started[s]) /\ started'[s][i] = started[s][i]
        BY <1>14, <2>1, <2>3
    <3> QED BY <1>10, <2>3, <3>1
  <2> QED BY <1>14, <2>2, <2>3
<1>17. NoOccurrenceVanishes'
  <2>1. \A s \in ScheduleId : schedule[s].times \in SUBSET Instant
      BY <1>0, FieldsLemma
  <2> QED BY <1>5, <1>6, <1>8, <2>1 DEF SchedulesInv, NoOccurrenceVanishes, FiringsStay
<1> QED BY <1>11, <1>12, <1>13, <1>15, <1>16, <1>17 DEF StepInv

LEMMA ThreadLostStep ==
    ASSUME SchedulesInv, tick.stage = "recorded", NEW t \in Chosen, ThreadLost(Item.id, t)
    PROVE  StepInv'
<1>0. /\ ScheduleTypeOK /\ ItemsAreCurrent /\ tick.stage # "idle"
      /\ firing \in [ScheduleId -> [Instant -> FiringState]]
      /\ schedule \in [ScheduleId -> ScheduleRow]
    BY DEF SchedulesInv, ScheduleTypeOK, FiringState, ScheduleRow
<1>1. Item.id \in ScheduleId /\ t \in Instant
    BY <1>0, ItemLemma, ChosenLemma, PageLemma
<1>2. /\ firing' = [firing EXCEPT ![Item.id][t] = "blocked_main_thread_lost"]
      /\ schedule' = [schedule EXCEPT ![Item.id].enabled = FALSE]
      /\ tick' = Done /\ UNCHANGED <<clock, started>>
    BY DEF ThreadLost, envVars
<1>3. FiringsStay
    BY <1>0, <1>1, <1>2 DEF FiringsStay
<1>4. \A s \in ScheduleId : SameRow(s)
    BY <1>0, <1>1, <1>2 DEF SameRow, ScheduleRow
<1> QED BY <1>0, <1>2, <1>3, <1>4, DropStep

\* The cursor moves: what it passes has its firing, or it is still overdue.
LEMMA AdvanceCursorStep ==
    ASSUME SchedulesInv, AdvanceCursor
    PROVE  StepInv'
<1> DEFINE id == Item.id
           last == Latest(Page)
           next == Next(Times, last)
<1>0. /\ ScheduleTypeOK /\ ItemsAreCurrent /\ tick.stage = "claimed"
      /\ schedule \in [ScheduleId -> ScheduleRow]
      /\ tick' = Done /\ UNCHANGED <<clock, firing, started>>
    BY DEF SchedulesInv, AdvanceCursor, ScheduleTypeOK, ScheduleRow, envVars
<1>1. /\ clock \in Nat /\ tick.now \in Nat /\ tick.now <= clock
      /\ \A u \in Instant : u \in Nat /\ 1 <= u
      /\ started \in [ScheduleId -> Seq(Instant)]
      /\ \A s \in ScheduleId : schedule[s].times \in SUBSET Instant
                               /\ schedule[s].next \in Instant \cup {Never}
    BY <1>0, FieldsLemma DEF ItemsAreCurrent, ScheduleTypeOK
<1>2. CASE ~(Present(id) /\ schedule[id].next = Item.next)
  <2>1. schedule' = schedule
      BY <1>2 DEF AdvanceCursor
  <2> QED BY <1>0, <2>1, RowsStand, DropStep DEF FiringsStay
<1>3. CASE Present(id) /\ schedule[id].next = Item.next
  <2>1. /\ id \in ScheduleId /\ Item \in tick.due /\ Times = schedule[id].times
        /\ Times \in SUBSET Instant
        /\ Item.next \in Nat /\ 1 <= Item.next /\ Item.next <= tick.now
      BY <1>0, ItemLemma DEF Times
  <2>2. Item.next \in Overdue
    <3>1. schedule[id].next \in schedule[id].times \cup {Never}
        BY <2>1 DEF SchedulesInv, RowsAreSound
    <3> QED BY <1>3, <2>1, <3>1 DEF Overdue, Never
  <2>3. /\ Page \subseteq Overdue /\ last \in Page /\ last \in Times /\ last \in Nat
        /\ last \in Instant /\ Item.next <= last /\ last <= tick.now
    <3>1. Page \subseteq Overdue /\ last \in Page
        BY <1>0, <2>2, PageLemma
    <3> HIDE DEF last
    <3> QED BY <1>1, <2>1, <3>1 DEF Overdue
  <2>4. /\ next = Never => \A u \in Times : u <= last
        /\ next # Never => /\ next \in Times /\ last < next
                           /\ \A u \in Times : u <= last \/ next <= u
    <3> HIDE DEF last
    <3> QED BY <2>1, <2>3, NextLemma
  <2>5. schedule' = [schedule EXCEPT ![id].next = next]
      BY <1>3 DEF AdvanceCursor
  <2> HIDE DEF next, last, id
  <2>6. /\ \A s \in ScheduleId : /\ schedule'[s].times = schedule[s].times
                                 /\ schedule'[s].status = schedule[s].status
                                 /\ schedule'[s].since = schedule[s].since
                                 /\ s # id => schedule'[s].next = schedule[s].next
        /\ schedule'[id].next = next
      BY <1>0, <2>1, <2>5 DEF ScheduleRow
  <2>7. \A s \in ScheduleId : Present(s)' = Present(s)
      BY <2>6 DEF Present
  <2>8. /\ tick'.stage \in {"idle", "listed"}
        /\ tick'.stage # "idle" => tick'.due # {}
        /\ tick'.due # {} => tick'.now = tick.now
        /\ tick'.now \in Nat /\ tick'.now <= tick.now
        /\ tick'.due \subseteq tick.due \ {Item}
      BY <1>0, <1>1, DoneLemma
  <2>9. RowsAreSound'
    <3>1. \A s \in ScheduleId : /\ schedule[s].next \in schedule[s].times \cup {Never}
                                /\ ~Present(s) => schedule[s].times = {}
                                /\ schedule[s].status = "absent" => started[s] = <<>>
        BY DEF SchedulesInv, RowsAreSound
    <3>2. next \in schedule[id].times \cup {Never}
        BY <2>1, <2>4
    <3> QED BY <1>0, <2>6, <2>7, <3>1, <3>2 DEF RowsAreSound
  <2>10. ItemsAreCurrent'
    <3> SUFFICES ASSUME NEW i \in tick'.due
                 PROVE  /\ i.next \in 1..tick.now
                        /\ schedule'[i.id].status # "absent"
                        /\ Present(i.id) => schedule'[i.id].next = i.next
      <4>1. \A i, j \in tick'.due : i.id = j.id => i = j
          BY <1>0, <2>8 DEF ItemsAreCurrent
      <4>2. tick'.now <= clock'
          BY <1>0, <1>1, <2>8
      <4>3. \A i \in tick'.due : i.id \in ScheduleId
          BY <1>0, <2>8, FieldsLemma
      <4> QED BY <2>7, <2>8, <4>1, <4>2, <4>3 DEF ItemsAreCurrent
    <3>1. i \in tick.due /\ i # Item /\ i.id \in ScheduleId
        BY <1>0, <2>8, FieldsLemma
    <3>2. i.id # id
        BY <1>0, <2>1, <3>1 DEF ItemsAreCurrent, id
    <3> QED BY <1>0, <2>6, <3>1, <3>2 DEF ItemsAreCurrent
  <2>11. WorkIsRecorded'
      BY <2>8 DEF WorkIsRecorded
  <2>12. RunsAreBehind'
    <3> SUFFICES ASSUME NEW s \in ScheduleId, NEW k \in 1..Len(started[s])
                 PROVE  /\ started[s][k] <= clock
                        /\ Present(s) =>
                             \/ schedule'[s].next = Never
                             \/ started[s][k] < schedule'[s].next
                             \/ /\ started[s][k] \in schedule[s].times
                                /\ firing[s][started[s][k]] # "none"
                        /\ \A i \in tick'.due : i.id = s => started[s][k] <= tick'.now
        BY <1>0, <2>6, <2>7 DEF RunsAreBehind
    <3> DEFINE u == started[s][k]
    <3>1. /\ u <= clock
          /\ Present(s) =>
               \/ schedule[s].next = Never
               \/ u < schedule[s].next
               \/ u \in schedule[s].times /\ firing[s][u] # "none"
          /\ \A i \in tick.due : i.id = s => u <= tick.now
        BY DEF SchedulesInv, RunsAreBehind
    <3>2. u \in Instant /\ u \in Nat
        BY <1>1
    <3> SUFFICES /\ u <= clock
                 /\ Present(s) =>
                      \/ schedule'[s].next = Never
                      \/ u < schedule'[s].next
                      \/ u \in schedule[s].times /\ firing[s][u] # "none"
                 /\ \A i \in tick'.due : i.id = s => u <= tick'.now
        OBVIOUS
    <3> HIDE DEF u
    <3>3. \A i \in tick'.due : i.id = s => u <= tick'.now
        BY <2>8, <3>1
    <3>4. CASE s # id
        BY <2>6, <3>1, <3>3, <3>4
    <3>5. CASE s = id
      <4>1. ASSUME u < schedule[s].next, next # Never PROVE u < next
        <5>1. /\ schedule[s].next = Item.next /\ last < next /\ next \in Nat
              /\ Item.next <= last
            BY <1>1, <1>3, <2>1, <2>3, <2>4, <3>5, <4>1 DEF id
        <5> QED BY <2>1, <2>3, <3>2, <4>1, <5>1
      <4>2. schedule[s].next # Never
          BY <1>3, <2>1, <3>5 DEF Never, id
      <4> QED BY <2>6, <3>1, <3>3, <3>5, <4>1, <4>2
    <3> QED BY <3>4, <3>5
  <2>13. RunsFireForward'
      BY <1>0 DEF SchedulesInv, RunsFireForward
  <2>14. NoOccurrenceVanishes'
    <3> SUFFICES ASSUME NEW s \in ScheduleId, Present(s), NEW t \in schedule[s].times,
                        schedule[s].since < t,
                        schedule'[s].next = Never \/ t < schedule'[s].next
                 PROVE  \/ \E u \in schedule[s].times : t <= u /\ firing[s][u] # "none"
                        \/ schedule'[s].next \in 1..clock
        BY <1>0, <2>6, <2>7 DEF NoOccurrenceVanishes
    <3>1. CASE s # id
        BY <2>6, <3>1 DEF SchedulesInv, NoOccurrenceVanishes
    <3>2. CASE s = id /\ ~MoreDue
      <4>1. last \in Expired \cup Chosen
          BY <1>0, <2>2, <3>2, ChosenLemma DEF last
      <4>2. firing[id][last] # "none"
          BY <1>0, <4>1 DEF SchedulesInv, WorkIsRecorded, id
      <4>3. t <= last
        <5>1. t \in Times /\ t \in Nat /\ (next = Never \/ t < next)
            BY <1>1, <2>1, <2>6, <3>2
        <5>2. CASE next = Never
            BY <2>4, <5>1, <5>2
        <5>3. CASE next # Never
          <6>1. next \in Nat /\ (t <= last \/ next <= t)
              BY <1>1, <2>1, <2>4, <5>1, <5>3
          <6> QED BY <5>1, <5>3, <6>1
        <5> QED BY <5>2, <5>3
      <4> QED BY <2>1, <2>3, <3>2, <4>2, <4>3
    <3>3. CASE s = id /\ MoreDue
      <4>1. PICK q \in Overdue : \A p \in Page : p < q
          BY <1>0, <3>3, PageLemma
      <4>2. last < q /\ q \in Times /\ q \in Nat /\ q <= tick.now
          BY <1>1, <2>1, <2>3, <4>1 DEF Overdue
      <4>3. next # Never /\ next \in Times /\ next <= q
          BY <2>3, <2>4, <4>2
      <4>4. next \in Nat /\ 1 <= next
          BY <1>1, <2>1, <4>3
      <4> QED BY <1>1, <2>6, <3>3, <4>2, <4>3, <4>4
    <3> QED BY <3>1, <3>2, <3>3
  <2> QED BY <2>9, <2>10, <2>11, <2>12, <2>13, <2>14 DEF StepInv
<1> QED BY <1>2, <1>3

LEMMA CreateScheduleStep ==
    ASSUME SchedulesInv, NEW s \in ScheduleId, NEW times \in Timetables,
           CreateSchedule(s, times)
    PROVE  StepInv'
<1>0. /\ ScheduleTypeOK /\ ItemsAreCurrent
      /\ schedule \in [ScheduleId -> ScheduleRow]
      /\ times \in SUBSET Instant
    BY ScheduleAssumption DEF SchedulesInv, ScheduleTypeOK, ScheduleRow, Instant
<1>1. /\ clock \in Nat /\ tick.now \in Nat
      /\ tick.due \in SUBSET [id : ScheduleId, next : Instant]
      /\ tick.stage \in {"idle", "listed", "recorded", "claimed"}
      /\ \A t \in Instant : t \in Nat
    BY <1>0, FieldsLemma
<1>2. /\ schedule[s].status = "absent" /\ Next(times, clock) # Never
      /\ UNCHANGED <<clock, firing, started, tick>>
      /\ schedule' = [schedule EXCEPT ![s] = [status |-> "present", times |-> times,
                        since |-> clock, enabled |-> TRUE, next |-> Next(times, clock)]]
    BY DEF CreateSchedule, envVars
<1>3. /\ Next(times, clock) \in times
      /\ \A u \in times : u <= clock \/ Next(times, clock) <= u
    BY <1>0, <1>1, <1>2, NextLemma
<1>4. /\ schedule'[s].status = "present" /\ schedule'[s].times = times
      /\ schedule'[s].since = clock /\ schedule'[s].next = Next(times, clock)
      /\ \A r \in ScheduleId \ {s} : schedule'[r] = schedule[r]
    BY <1>0, <1>2
<1>5. \A r \in ScheduleId \ {s} : Present(r)' = Present(r)
    BY <1>4 DEF Present
<1>6. started[s] = <<>> /\ \A i \in tick.due : i.id # s
    BY <1>0, <1>2 DEF SchedulesInv, RowsAreSound, ItemsAreCurrent
<1> HIDE DEF Next
<1>7. RowsAreSound'
  <2>1. Present(s)'
      BY <1>4 DEF Present
  <2> QED BY <1>2, <1>3, <1>4, <1>5, <1>6, <2>1 DEF SchedulesInv, RowsAreSound
<1>8. ItemsAreCurrent'
    BY <1>0, <1>1, <1>2, <1>4, <1>5, <1>6 DEF ItemsAreCurrent
<1>9. WorkIsRecorded'
  <2>1. CASE tick.stage = "idle"
      BY <1>2, <2>1 DEF WorkIsRecorded
  <2>2. CASE tick.stage # "idle"
    <3>1. Item.id \in ScheduleId \ {s}
        BY <1>0, <1>6, <2>2, ItemLemma
    <3>2. schedule'[Item.id].times = schedule[Item.id].times
        BY <1>4, <3>1
    <3>3. Item' = Item /\ Expired' = Expired /\ Chosen' = Chosen
        BY <1>2, <3>2, ItemStands
    <3> QED BY <1>2, <3>3 DEF WorkIsRecorded, SchedulesInv
  <2> QED BY <2>1, <2>2
<1>10. RunsAreBehind'
  <2> SUFFICES ASSUME NEW r \in ScheduleId, NEW k \in 1..Len(started[r])
               PROVE  /\ started[r][k] <= clock
                      /\ Present(r)' =>
                           \/ schedule'[r].next = Never
                           \/ started[r][k] < schedule'[r].next
                           \/ /\ started[r][k] \in schedule'[r].times
                              /\ firing[r][started[r][k]] # "none"
                      /\ \A i \in tick.due : i.id = r => started[r][k] <= tick.now
      BY <1>2 DEF RunsAreBehind
  <2>1. r # s
      BY <1>6
  <2> QED BY <1>4, <1>5, <2>1 DEF SchedulesInv, RunsAreBehind
<1>11. RunsFireForward'
    BY <1>2 DEF SchedulesInv, RunsFireForward
<1>12. NoOccurrenceVanishes'
  <2> SUFFICES ASSUME NEW r \in ScheduleId, Present(r)', NEW t \in schedule'[r].times,
                      schedule'[r].since < t,
                      schedule'[r].next = Never \/ t < schedule'[r].next
               PROVE  \/ \E u \in schedule'[r].times : t <= u /\ firing[r][u] # "none"
                      \/ schedule'[r].next \in 1..clock
      BY <1>2 DEF NoOccurrenceVanishes
  <2>1. CASE r = s
    <3>1. t \in times /\ clock < t /\ t < Next(times, clock)
        BY <1>2, <1>4, <2>1
    <3>2. t \in Nat /\ Next(times, clock) \in Nat
        BY <1>0, <1>1, <1>3, <3>1
    <3> QED BY <1>1, <1>3, <3>1, <3>2
  <2>2. CASE r # s
      BY <1>4, <1>5, <2>2 DEF SchedulesInv, NoOccurrenceVanishes
  <2> QED BY <2>1, <2>2
<1> QED BY <1>7, <1>8, <1>9, <1>10, <1>11, <1>12 DEF StepInv

LEMMA SetEnabledStep ==
    ASSUME SchedulesInv, NEW s \in ScheduleId, SetEnabled(s)
    PROVE  StepInv'
<1>0. /\ schedule \in [ScheduleId -> ScheduleRow] /\ clock \in Nat
    BY FieldsLemma DEF SchedulesInv, ScheduleTypeOK, ScheduleRow
<1>1. /\ schedule' = [schedule EXCEPT ![s].enabled = ~schedule[s].enabled]
      /\ UNCHANGED <<clock, firing, started, tick>>
    BY DEF SetEnabled, envVars
<1>2. \A r \in ScheduleId : SameRow(r)
    BY <1>0, <1>1 DEF SameRow, ScheduleRow
<1> QED BY <1>0, <1>1, <1>2, OutsideStep

LEMMA DeleteScheduleStep ==
    ASSUME SchedulesInv, NEW s \in ScheduleId, DeleteSchedule(s)
    PROVE  StepInv'
<1>0. /\ ScheduleTypeOK /\ ItemsAreCurrent
      /\ schedule \in [ScheduleId -> ScheduleRow]
      /\ firing \in [ScheduleId -> [Instant -> FiringState]]
    BY DEF SchedulesInv, ScheduleTypeOK, ScheduleRow, FiringState
<1>1. /\ clock \in Nat /\ tick.now \in Nat
      /\ tick.due \in SUBSET [id : ScheduleId, next : Instant]
    BY <1>0, FieldsLemma
<1>2. /\ schedule' = [schedule EXCEPT ![s] = [Absent EXCEPT !.status = "deleted"]]
      /\ firing' = [firing EXCEPT ![s] = [t \in Instant |-> "none"]]
      /\ UNCHANGED <<clock, started, tick>>
    BY DEF DeleteSchedule, envVars
<1>3. /\ schedule'[s].status = "deleted" /\ schedule'[s].times = {}
      /\ schedule'[s].next = Never
    BY <1>0, <1>2 DEF Absent
<1>4. \A r \in ScheduleId \ {s} : schedule'[r] = schedule[r] /\ firing'[r] = firing[r]
    BY <1>0, <1>2
<1>5. ~Present(s)' /\ \A r \in ScheduleId \ {s} : Present(r)' = Present(r)
    BY <1>3, <1>4 DEF Present
<1>6. RowsAreSound'
    BY <1>2, <1>3, <1>4, <1>5 DEF SchedulesInv, RowsAreSound
<1>7. ItemsAreCurrent'
  <2>1. \A i \in tick.due : schedule'[i.id].status # "absent"
                            /\ (Present(i.id)' => schedule'[i.id].next = i.next)
      BY <1>0, <1>1, <1>3, <1>4, <1>5 DEF ItemsAreCurrent
  <2> QED BY <1>0, <1>2, <2>1 DEF ItemsAreCurrent
<1>8. WorkIsRecorded'
  <2>1. CASE tick.stage = "idle"
      BY <1>2, <2>1 DEF WorkIsRecorded
  <2>2. CASE tick.stage # "idle" /\ Item.id = s
    <3>1. Item' = Item
        BY <1>2 DEF Item
    <3>2. Times' = {}
        BY <1>3, <2>2, <3>1 DEF Times
    <3>3. Expired' = {} /\ Chosen' = {}
      <4>1. Overdue' = {}
          BY <3>2 DEF Overdue
      <4>2. Page' = {}
          BY <4>1 DEF Page
      <4>3. Expired' = {} /\ Recent' = {}
          BY <4>2 DEF Expired, Recent
      <4> QED BY <4>3 DEF Chosen
    <3> QED BY <3>3 DEF WorkIsRecorded
  <2>3. CASE tick.stage # "idle" /\ Item.id # s
    <3>1. Item.id \in ScheduleId \ {s}
        BY <1>0, <2>3, ItemLemma
    <3>2. schedule'[Item.id].times = schedule[Item.id].times /\ firing'[Item.id] = firing[Item.id]
        BY <1>4, <3>1
    <3>3. Item' = Item /\ Expired' = Expired /\ Chosen' = Chosen
        BY <1>2, <3>2, ItemStands
    <3> QED BY <1>2, <3>2, <3>3 DEF WorkIsRecorded, SchedulesInv
  <2> QED BY <2>1, <2>2, <2>3
<1>9. RunsAreBehind'
  <2> SUFFICES ASSUME NEW r \in ScheduleId, NEW k \in 1..Len(started[r])
               PROVE  /\ started[r][k] <= clock
                      /\ Present(r)' =>
                           \/ schedule'[r].next = Never
                           \/ started[r][k] < schedule'[r].next
                           \/ /\ started[r][k] \in schedule'[r].times
                              /\ firing'[r][started[r][k]] # "none"
                      /\ \A i \in tick.due : i.id = r => started[r][k] <= tick.now
      BY <1>2 DEF RunsAreBehind
  <2> QED BY <1>4, <1>5 DEF SchedulesInv, RunsAreBehind
<1>10. RunsFireForward'
    BY <1>2 DEF SchedulesInv, RunsFireForward
<1>11. NoOccurrenceVanishes'
  <2> SUFFICES ASSUME NEW r \in ScheduleId, Present(r)', NEW t \in schedule'[r].times,
                      schedule'[r].since < t,
                      schedule'[r].next = Never \/ t < schedule'[r].next
               PROVE  \/ \E u \in schedule'[r].times : t <= u /\ firing'[r][u] # "none"
                      \/ schedule'[r].next \in 1..clock
      BY <1>2 DEF NoOccurrenceVanishes
  <2> QED BY <1>4, <1>5 DEF SchedulesInv, NoOccurrenceVanishes
<1> QED BY <1>6, <1>7, <1>8, <1>9, <1>10, <1>11 DEF StepInv

\* Every step keeps the invariant.
LEMMA SchedulesStep ==
    SchedulesInv /\ [ScheduleNext]_scheduleVars => SchedulesInv'
<1> SUFFICES ASSUME SchedulesInv, [ScheduleNext]_scheduleVars PROVE SchedulesInv'
    OBVIOUS
<1>0. clock \in Nat /\ Horizon \in Nat
    BY FieldsLemma DEF SchedulesInv
<1>1. ScheduleTypeOK'
    BY TypeStep
<1>2. StepInv'
  <2>1. CASE UNCHANGED scheduleVars
      BY <1>0, <2>1, RowsStand, OutsideStep DEF scheduleVars
  <2>2. CASE BeginTick
      BY <2>2, BeginTickStep
  <2>3. CASE RecordMissed
      BY <2>3, RecordMissedStep
  <2>4. CASE NothingToRun
      BY <2>4, NothingToRunStep
  <2>5. CASE AdvanceCursor
      BY <2>5, AdvanceCursorStep
  <2>6. ASSUME tick.stage = "recorded", NEW t \in Chosen,
               \/ QueueRun(Item.id, t) \/ AlreadyClaimed(Item.id, t)
               \/ ThreadLost(Item.id, t) \/ Refused(Item.id, t)
        PROVE  StepInv'
    <3>1. CASE QueueRun(Item.id, t)
        BY <2>6, <3>1, QueueRunStep
    <3>2. CASE AlreadyClaimed(Item.id, t)
        BY <2>6, <3>2, AlreadyClaimedStep
    <3>3. CASE ThreadLost(Item.id, t)
        BY <2>6, <3>3, ThreadLostStep
    <3>4. CASE Refused(Item.id, t)
      <4>1. tick.stage # "idle" /\ tick' = Done /\ UNCHANGED <<clock, schedule, firing, started>>
          BY <2>6, <3>4 DEF Refused, envVars
      <4> QED BY <4>1, RowsStand, DropStep DEF FiringsStay
    <3> QED BY <2>6, <3>1, <3>2, <3>3, <3>4
  <2>7. CASE ItemFails \/ Crash
    <3>1. /\ tick.stage # "idle" /\ (tick' = Done \/ tick' = Idle)
          /\ UNCHANGED <<clock, schedule, firing, started>>
        BY <2>7 DEF ItemFails, Crash, envVars
    <3> QED BY <3>1, RowsStand, DropStep DEF FiringsStay
  <2>8. CASE Elapse
    <3>1. /\ clock' = clock + 1 /\ tick' = tick
          /\ UNCHANGED <<schedule, firing, started>>
        BY <2>8 DEF Elapse
    <3>2. clock' \in Nat /\ clock <= clock'
        BY <1>0, <3>1
    <3> QED BY <3>1, <3>2, RowsStand, OutsideStep
  <2>9. CASE ChangeProject \/ \E s \in ScheduleId : ChangeThread(s)
    <3>1. UNCHANGED <<clock, schedule, firing, started, tick>>
        BY <2>9 DEF ChangeProject, ChangeThread
    <3> QED BY <1>0, <3>1, RowsStand, OutsideStep
  <2>10. ASSUME NEW s \in ScheduleId,
                \/ \E times \in Timetables : CreateSchedule(s, times)
                \/ SetEnabled(s) \/ DeleteSchedule(s)
         PROVE  StepInv'
      BY <2>10, CreateScheduleStep, SetEnabledStep, DeleteScheduleStep
  <2> QED BY <2>1, <2>2, <2>3, <2>4, <2>5, <2>6, <2>7, <2>8, <2>9, <2>10
       DEF ScheduleNext, TickStep
<1> QED BY <1>1, <1>2 DEF StepInv, SchedulesInv

-----------------------------------------------------------------------------
(* The theorems. *)

\* The invariant holds throughout: cursors stand on occurrences, the items of
\* a tick name the cursors they were listed with, and what a tick has gone
\* through is in schedule_firings (Service.process, service.go).
THEOREM ScheduleInvariant == ScheduleSpec => []SchedulesInv
BY InitIsSound, SchedulesStep, PTL DEF ScheduleSpec

\* The cursor of a schedule passes no occurrence in silence, whatever fails or
\* ends between recording, claiming and moving it, whichever page of a long
\* backlog a tick takes, and whatever the user does meanwhile.
THEOREM OccurrencesDoNotVanish == ScheduleSpec => []NoOccurrenceVanishes
<1>1. SchedulesInv => NoOccurrenceVanishes
    BY DEF SchedulesInv
<1> QED BY <1>1, ScheduleInvariant, PTL

\* The runs of a schedule are for ever later occurrences, so that none is run
\* twice (CreateScheduledRun, store/schedules.go).
THEOREM NoOccurrenceRunsTwice == ScheduleSpec => []RunsFireForward
<1>1. SchedulesInv => RunsFireForward
    BY DEF SchedulesInv
<1> QED BY <1>1, ScheduleInvariant, PTL

\* The tables and the tick keep their types.
THEOREM ScheduleTypes == ScheduleSpec => []ScheduleTypeOK
<1>1. SchedulesInv => ScheduleTypeOK
    BY DEF SchedulesInv
<1> QED BY <1>1, ScheduleInvariant, PTL
==============================================================================
