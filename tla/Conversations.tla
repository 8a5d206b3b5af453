--------------------------- MODULE Conversations ---------------------------
(***************************************************************************)
(* The conversations of a project: the sessions and their Codex threads    *)
(* (src/internal/store/sessions.go), the planning cycles of a session      *)
(* (store/plan_cycles.go), and the requests that talk in one, plan in one  *)
(* or start research from one (api/server.go, dispatch/dispatcher.go,      *)
(* integration/codex.go).                                                  *)
(*                                                                         *)
(* A request is an HTTP handler: it waits for the conversation lock of its *)
(* session, gives the session a thread if it has none, and either runs one *)
(* Codex turn or inserts one run.  Every database call of it is a step of  *)
(* its own, and the browser may go away between any two.  Sessions are     *)
(* deleted, planning cycles begun, schedules made and fired without that   *)
(* lock.  The threads and the turns in them are the App Server's and       *)
(* survive the process.                                                    *)
(*                                                                         *)
(* Sessions, cycles, runs, threads and turns are numbered by creation, so  *)
(* that the oldest and the latest are the least and the greatest number.   *)
(***************************************************************************)
EXTENDS Naturals, FiniteSetsExt, SequencesExt

CONSTANTS
    Sessions,    \* the sessions the project may have, by created_at
    Requests,    \* requests under way at a time
    MaxRuns,     \* bound: the runs there are when a schedule still fires
    MaxActs      \* bound: what users do, requests included, and process ends

ASSUME ConversationAssumption ==
    /\ Sessions \subseteq Nat \ {0} /\ 1 \in Sessions
    /\ Requests \subseteq Nat \ {0} /\ IsFiniteSet(Requests)
    /\ MaxRuns \in Nat /\ MaxActs \in Nat

VARIABLES
    session,     \* the rows of conversation_sessions
    mainThread,  \* projects.main_thread_id, 0 when empty
    cycles,      \* the rows of conversation_plan_cycles
    runs,        \* the rows of runs
    schedule,    \* the one schedule of the project
    threads,     \* the session each thread of the App Server was started for
    turns,       \* the turns those threads have completed
    mutex,       \* dispatcher.conversations: the request that holds each lock
    req,         \* the requests
    working,     \* the runs in dispatcher.queue or dispatcher.activeCancels
    acts,        \* acts of users, and process ends, so far
    told         \* history: the plans a caller was told are ready

rows         == <<session, mainThread, cycles, runs, schedule>>
codex        == <<threads, turns>>
conversationVars == <<rows, codex, mutex, req, working, acts, told>>

-----------------------------------------------------------------------------
\* A run that is queued or executes is open; the recoverable statuses are one.
Unresolved == {"open", "interrupted"}

Idle == [kind |-> "none", pc |-> "idle", session |-> 0, cycle |-> 0,
         thread |-> 0, result |-> 0]

NoSchedule == [row |-> "absent", session |-> 0, thread |-> 0, enabled |-> FALSE]

AbsentSession == [row |-> "absent", status |-> "unprovisioned", thread |-> 0]

NewSession == [AbsentSession EXCEPT !.row = "live"]

\* CreateProject inserts the first session with the project.
ConversationInit ==
    /\ session = [s \in Sessions |-> IF s = 1 THEN NewSession ELSE AbsentSession]
    /\ mainThread = 0
    /\ cycles = <<>> /\ runs = <<>> /\ threads = <<>> /\ turns = 0
    /\ schedule = NoSchedule
    /\ mutex = [s \in Sessions |-> 0]
    /\ req = [q \in Requests |-> Idle]
    /\ working = {}
    /\ acts = 0 /\ told = {}

Live == {s \in Sessions : session[s].row = "live"}

\* DefaultConversationSession: ORDER BY created_at, id LIMIT 1
Oldest(live) == CHOOSE s \in live : \A t \in live : s <= t

CyclesOf(s) == {c \in DOMAIN cycles : cycles[c].session = s}

\* LatestConversationPlanCycle
IsLatest(c) == \A d \in CyclesOf(cycles[c].session) : d <= c

\* RequireActiveConversationPlanCycle
IsActive(s, c) == c \in CyclesOf(s) /\ cycles[c].status = "active" /\ IsLatest(c)

\* sessionHasResearchWork looks at the dispatcher's memory only.
HasResearchWork(s) == \E r \in working : runs[r].session = s

\* The unresolved runs of the project.
UnresolvedRuns == {r \in DOMAIN runs : runs[r].status \in Unresolved}

\* The rows that ReloadQueued, and Start, enqueue.
QueuedRows == {r \in DOMAIN runs : runs[r].status = "open"}

Acts == acts < MaxActs /\ acts' = acts + 1

-----------------------------------------------------------------------------
(* Sessions, planning cycles and schedules: one transaction each, without  *)
(* the conversation lock.                                                  *)

\* CreateConversationSession
CreateSession(s) ==
    /\ Acts
    /\ session[s].row = "absent"
    /\ Live # {} /\ \A t \in Sessions : t < s => session[t].row # "absent"
    /\ session' = [session EXCEPT ![s] = NewSession]
    /\ UNCHANGED <<mainThread, cycles, runs, schedule, codex, mutex, req, working,
                   told>>

MayDelete(s) ==
    /\ \A r \in UnresolvedRuns : runs[r].session # s
    /\ ~(schedule.enabled /\ schedule.session = s)
    /\ Live # {s}

\* DeleteConversationSession: the row stays, marked, and the project's field
\* mirrors the thread of the session that is now the oldest.
DeleteSession(s) ==
    /\ Acts
    /\ s \in Live /\ MayDelete(s)
    /\ session' = [session EXCEPT ![s].row = "deleted"]
    /\ mainThread' = session[Oldest(Live \ {s})].thread
    /\ UNCHANGED <<cycles, runs, schedule, codex, mutex, req, working, told>>

\* No work of the project is unresolved and no thread is in doubt.
ProjectIsIdle ==
    /\ UnresolvedRuns = {}
    /\ \A s \in Live : session[s].status \notin {"provisioning", "creation_unknown"}

\* DeleteProject: every row that refers to the project goes with it.
DeleteProject ==
    /\ Acts
    /\ Live # {} /\ ProjectIsIdle
    /\ session' = [s \in Sessions |-> [session[s] EXCEPT !.row = "gone"]]
    /\ cycles' = [c \in DOMAIN cycles |-> [cycles[c] EXCEPT !.status = "gone"]]
    /\ runs' = [r \in DOMAIN runs |-> [runs[r] EXCEPT !.status = "gone"]]
    /\ schedule' = NoSchedule
    /\ mainThread' = 0
    /\ UNCHANGED <<codex, mutex, req, working, told>>

Superseded(c) == [cycles[c] EXCEPT !.status = "superseded"]

\* BeginConversationPlanCycle: whatever plan the session had is superseded.
BeginPlanCycle(s) ==
    /\ Acts
    /\ s \in Live
    /\ cycles' = Append([c \in DOMAIN cycles |->
                            IF c \in CyclesOf(s) /\ cycles[c].status \in {"active", "ready"}
                            THEN Superseded(c) ELSE cycles[c]],
                        [session |-> s, status |-> "active", plan |-> 0, run |-> 0])
    /\ UNCHANGED <<session, mainThread, runs, schedule, codex, mutex, req, working,
                   told>>

\* DeleteSchedule
DropSchedule ==
    /\ Acts
    /\ schedule.row = "present"
    /\ schedule' = NoSchedule
    /\ UNCHANGED <<session, mainThread, cycles, runs, codex, mutex, req, working,
                   told>>

\* SetScheduleEnabled
ToggleSchedule ==
    /\ Acts
    /\ schedule.row = "present"
    /\ schedule' = [schedule EXCEPT !.enabled = ~@]
    /\ UNCHANGED <<session, mainThread, cycles, runs, codex, mutex, req, working,
                   told>>

NewRun(s, t, c, plan) ==
    [session |-> s, thread |-> t, cycle |-> c, plan |-> plan, status |-> "open"]

\* CreateScheduledRun: the session is read in the transaction.  The occurrences
\* themselves are the subject of Schedules.
FireSchedule ==
    /\ schedule.enabled
    /\ LET s == schedule.session IN
       IF s \in Live /\ session[s].thread = schedule.thread
       THEN /\ Len(runs) < MaxRuns
            /\ runs' = Append(runs, NewRun(s, schedule.thread, 0, 0))
            /\ UNCHANGED schedule
       ELSE /\ schedule' = [schedule EXCEPT !.enabled = FALSE]
            /\ UNCHANGED runs
    /\ UNCHANGED <<session, mainThread, cycles, codex, mutex, req, working, acts, told>>

\* ReloadQueued, after a tick of the scheduler
ReloadQueued ==
    /\ working' = working \cup QueuedRows
    /\ working' # working
    /\ UNCHANGED <<rows, codex, mutex, req, acts, told>>
-----------------------------------------------------------------------------
(* Requests.  A request that finds nothing to do, fails or is answered     *)
(* becomes idle and frees the lock of its session.                         *)

Busy(q) == req[q].pc # "idle"

Answers(q) ==
    /\ req' = [req EXCEPT ![q] = Idle]
    /\ mutex' = [s \in Sessions |-> IF mutex[s] = q THEN 0 ELSE mutex[s]]

MovesTo(q, pc) == req' = [req EXCEPT ![q].pc = pc]

Arrives(q, kind, pc, s, c, t) ==
    /\ ~Busy(q) /\ Acts
    /\ req' = [req EXCEPT ![q] = [kind |-> kind, pc |-> pc, session |-> s, cycle |-> c,
                                 thread |-> t, result |-> 0]]
    /\ UNCHANGED <<rows, codex, mutex, working, told>>

\* handleChat: a message of a conversation, or one for a plan that is active
\* when the handler looks, before it waits for the lock.
ChatArrives(q, s, c) ==
    /\ s \in Live
    /\ c # 0 => IsActive(s, c)
    /\ Arrives(q, "chat", "waiting", s, c, 0)

\* handleSessionRunStart, and handlePlannedSessionRunStart of a plan cycle that
\* the page shows, in whatever state it is by now.
RunArrives(q, s, c) ==
    /\ s \in Live
    /\ Arrives(q, IF c = 0 THEN "ask" ELSE "planned", "waiting", s, c, 0)

\* handleSchedules and CreateSchedule read the session before they insert.
ScheduleArrives(q, s) ==
    /\ s \in Live /\ session[s].thread # 0
    /\ schedule.row = "absent"
    /\ Arrives(q, "schedule", "inserting", s, 0, session[s].thread)

InsertSchedule(q) ==
    /\ req[q].kind = "schedule"
    /\ Answers(q)
    /\ schedule' = IF session[req[q].session].row # "gone" /\ schedule.row = "absent"
                   THEN [row |-> "present", session |-> req[q].session,
                         thread |-> req[q].thread, enabled |-> TRUE]
                   ELSE schedule
    /\ UNCHANGED <<session, mainThread, cycles, runs, codex, working, acts, told>>

\* Variant: a thread that may already exist is asked for again.
InDoubtUnlessUnknown(s) == session[s].status = "creation_unknown"

\* The outcome of an earlier thread/start is not known.
InDoubt(s) == session[s].status \in {"provisioning", "creation_unknown"}

\* The conversation lock.  ChatSession refuses a session with research work; then
\* UpdateConversationSessionSettings, and ensureSessionThread up to its
\* MarkConversationSessionProvisioning.
TakesLock(q) ==
    LET s == req[q].session
        refused == \/ req[q].kind = "chat" /\ HasResearchWork(s)
                   \/ s \notin Live
                   \/ session[s].thread = 0 /\ InDoubt(s)
    IN
    /\ req[q].pc = "waiting" /\ mutex[s] = 0
    /\ \/ refused /\ Answers(q) /\ UNCHANGED session
       \/ /\ ~refused /\ session[s].thread # 0
          /\ mutex' = [mutex EXCEPT ![s] = q]
          /\ req' = [req EXCEPT ![q].pc = "ready", ![q].thread = session[s].thread]
          /\ UNCHANGED session
       \/ /\ ~refused /\ session[s].thread = 0
          /\ mutex' = [mutex EXCEPT ![s] = q]
          /\ session' = [session EXCEPT ![s].status = "provisioning"]
          /\ MovesTo(q, "creating")
    /\ UNCHANGED <<mainThread, cycles, runs, schedule, codex, working, acts, told>>

\* CreateMainThread: the App Server starts a thread, and its answer arrives.
StartThread(q) ==
    /\ req[q].pc = "creating"
    /\ threads' = Append(threads, req[q].session)
    /\ req' = [req EXCEPT ![q].pc = "created", ![q].thread = Len(threads) + 1]
    /\ UNCHANGED <<rows, turns, mutex, working, acts, told>>

\* It fails, or its answer is lost.  MarkConversationSessionCreationUnknown runs
\* in the context of the request, and fails with it.
LosesThread(q) ==
    LET s == req[q].session IN
    /\ req[q].pc = "creating"
    /\ threads' \in {threads, Append(threads, s)}
    /\ session' \in {session, IF s \in Live
                              THEN [session EXCEPT ![s].status = "creation_unknown"]
                              ELSE session}
    /\ Answers(q)
    /\ UNCHANGED <<mainThread, cycles, runs, schedule, turns, working, acts, told>>

\* SetConversationSessionThreadIfEmpty
RecordThread(q) ==
    LET s == req[q].session IN
    /\ req[q].pc = "created"
    /\ IF s \in Live
       THEN /\ session' = [session EXCEPT ![s].status = "active", ![s].thread = req[q].thread]
            /\ mainThread' = IF mainThread = 0 /\ s = Oldest(Live)
                             THEN req[q].thread ELSE mainThread
            /\ MovesTo(q, "ready") /\ UNCHANGED mutex
       ELSE Answers(q) /\ UNCHANGED <<session, mainThread>>
    /\ UNCHANGED <<cycles, runs, schedule, codex, working, acts, told>>

-----------------------------------------------------------------------------
(* The turn of a chat.                                                     *)

\* ChatSession looks at the plan again, and starts the turn.
StartTurn(q) ==
    /\ req[q].kind = "chat" /\ req[q].pc = "ready"
    /\ IF req[q].cycle = 0 \/ IsActive(req[q].session, req[q].cycle)
       THEN MovesTo(q, "talking") /\ UNCHANGED mutex
       ELSE Answers(q)
    /\ UNCHANGED <<rows, codex, working, acts, told>>

\* What a turn comes to: a plan turn must answer in the structure asked for.
Replies(c) == IF c = 0 THEN {"message"} ELSE {"questions", "plan", "malformed"}

\* Codex completes the turn; the lock is free again before handleChat records a
\* plan.
EndTurn(q, reply) ==
    /\ req[q].pc = "talking"
    /\ turns' = turns + 1
    /\ IF reply = "plan"
       THEN /\ req' = [req EXCEPT ![q].pc = "completing", ![q].result = turns + 1]
            /\ mutex' = [mutex EXCEPT ![req[q].session] = 0]
       ELSE Answers(q)
    /\ UNCHANGED <<rows, threads, working, acts, told>>

\* Variant: a plan that is already ready is replaced.
CompletePlanAgain(q) ==
    LET c == req[q].cycle IN
    /\ req[q].pc = "completing"
    /\ IF cycles[c].status \in {"active", "ready"} /\ IsLatest(c)
       THEN /\ cycles' = [cycles EXCEPT ![c].status = "ready", ![c].plan = req[q].result]
            /\ told' = told \cup {<<c, req[q].result>>}
       ELSE UNCHANGED <<cycles, told>>
    /\ Answers(q)
    /\ UNCHANGED <<session, mainThread, runs, schedule, codex, working, acts>>

\* CompleteConversationPlanCycle, then the answer of handleChat.
CompletePlan(q) ==
    LET c == req[q].cycle IN
    /\ req[q].pc = "completing"
    /\ IF IsActive(req[q].session, c)
       THEN /\ cycles' = [cycles EXCEPT ![c].status = "ready", ![c].plan = req[q].result]
            /\ told' = told \cup {<<c, req[q].result>>}
       ELSE UNCHANGED <<cycles, told>>
    /\ Answers(q)
    /\ UNCHANGED <<session, mainThread, runs, schedule, codex, working, acts>>

\* The browser goes away or a call fails: the context of the request ends.
Fails(q) ==
    /\ req[q].pc \in {"created", "ready", "talking", "completing", "inserting"}
    /\ Answers(q)
    /\ UNCHANGED <<rows, codex, working, acts, told>>
-----------------------------------------------------------------------------
(* The run of a research request, of a plan or of a question.              *)

\* createConversationRunConfigured reads the session, and the state of the
\* project's knowledge graph, before its transaction.
ReadSession(q) ==
    LET s == req[q].session IN
    /\ req[q].kind \in {"ask", "planned"} /\ req[q].pc = "ready"
    /\ IF s \in Live /\ session[s].thread = req[q].thread
       THEN MovesTo(q, "inserting") /\ UNCHANGED mutex
       ELSE Answers(q)
    /\ UNCHANGED <<rows, codex, working, acts, told>>

\* The plan is the latest of its session, ready, and not consumed.
Runnable(s, c) == c \in CyclesOf(s) /\ cycles[c].status = "ready" /\ IsLatest(c)

\* The plan belongs to the run that is inserted with it.
ConsumedBy(c, r) == [cycles EXCEPT ![c].status = "consumed", ![c].run = r]

\* The transaction of createConversationRunConfigured: a session that was
\* deleted meanwhile still has its row, and the run refers to that.
InsertRun(q) ==
    LET s == req[q].session  c == req[q].cycle  r == Len(runs) + 1 IN
    /\ req[q].kind \in {"ask", "planned"} /\ req[q].pc = "inserting"
    /\ IF session[s].row # "gone" /\ (c # 0 => Runnable(s, c))
       THEN /\ runs' = Append(runs, NewRun(s, req[q].thread, c,
                                           IF c = 0 THEN 0 ELSE cycles[c].plan))
            /\ cycles' = IF c = 0 THEN cycles ELSE ConsumedBy(c, r)
            /\ req' = [req EXCEPT ![q].pc = "enqueuing", ![q].result = r]
            /\ UNCHANGED mutex
       ELSE Answers(q) /\ UNCHANGED <<runs, cycles>>
    /\ UNCHANGED <<session, mainThread, schedule, codex, working, acts, told>>

\* The caller of the request is told that the run is under way, or that the
\* dispatcher is stopped when ReloadQueued was faster.
EnqueueRun(q) ==
    /\ req[q].pc = "enqueuing"
    /\ working' = working \cup {req[q].result}
    /\ Answers(q)
    /\ UNCHANGED <<rows, codex, acts, told>>

-----------------------------------------------------------------------------
(* The runs that occupy a session; Dispatcher has their life in detail.    *)

\* Executor.Execute returns: the run is closed, or left to the user.  One that was
\* resumed or cancelled meanwhile has another status already.
EndRun(r) ==
    /\ r \in working
    /\ \A e \in UnresolvedRuns : e >= r
    /\ working' = working \ {r}
    /\ IF r \in UnresolvedRuns
       THEN \E end \in {"closed", "interrupted"} : runs' = [runs EXCEPT ![r].status = end]
       ELSE UNCHANGED runs
    /\ UNCHANGED <<session, mainThread, cycles, schedule, codex, mutex, req, acts, told>>

\* CancelRun of a run that is not executing, DiscardRun
CancelRun(r) ==
    /\ Acts
    /\ r \in UnresolvedRuns
    /\ runs' = [runs EXCEPT ![r].status = "closed"]
    /\ working' \in {working, working \ {r}}
    /\ UNCHANGED <<session, mainThread, cycles, schedule, codex, mutex, req, told>>

\* ResumeRun, without the conversation lock
ResumeRun(r) ==
    /\ Acts
    /\ r \in UnresolvedRuns \ working /\ runs[r].status = "interrupted"
    /\ working' = working \cup {r}
    /\ UNCHANGED <<rows, codex, mutex, req, told>>

\* The process ends, and the next one recovers.  A thread that was being asked
\* for may have been started, and a run that was executing is left to the user.
ProcessCrash ==
    /\ Acts
    /\ LET creating == {req[q].session : q \in {p \in Requests : req[p].pc = "creating"}} IN
       \E started \in SUBSET creating : threads' = threads \o SetToSeq(started)
    /\ req' = [q \in Requests |-> Idle]
    /\ mutex' = [s \in Sessions |-> 0]
    /\ \E executing \in SUBSET (working \cap QueuedRows) :
          /\ Cardinality(executing) <= 1
          /\ runs' = [r \in DOMAIN runs |-> IF r \in executing
                                            THEN [runs[r] EXCEPT !.status = "interrupted"]
                                            ELSE runs[r]]
          /\ working' = QueuedRows \ executing
    /\ UNCHANGED <<session, mainThread, cycles, schedule, turns, told>>

-----------------------------------------------------------------------------
Request(q) ==
    \/ InsertSchedule(q)
    \/ StartThread(q) \/ LosesThread(q) \/ RecordThread(q)
    \/ StartTurn(q) \/ (\E reply \in Replies(req[q].cycle) : EndTurn(q, reply)) \/ CompletePlan(q)
    \/ ReadSession(q) \/ InsertRun(q) \/ EnqueueRun(q)
    \/ Fails(q)

User ==
    \/ \E s \in Sessions : CreateSession(s) \/ DeleteSession(s) \/ BeginPlanCycle(s)
    \/ DeleteProject \/ ToggleSchedule \/ DropSchedule
    \/ \E q \in Requests, s \in Sessions :
          \/ \E c \in {0} \cup DOMAIN cycles : ChatArrives(q, s, c)
          \/ \E c \in {0} \cup CyclesOf(s) : RunArrives(q, s, c)
          \/ ScheduleArrives(q, s)
    \/ \E r \in DOMAIN runs : CancelRun(r) \/ ResumeRun(r)

ConversationNext ==
    \/ User
    \/ \E q \in Requests : TakesLock(q) \/ Request(q)
    \/ FireSchedule \/ ReloadQueued \/ (\E r \in working : EndRun(r))
    \/ ProcessCrash

ConversationSpec == ConversationInit /\ [][ConversationNext]_conversationVars

-----------------------------------------------------------------------------
SessionIds == Sessions \cup {0}

Bounded(n) == 0 .. n

ConversationTypeOK ==
    /\ session \in [Sessions -> [row : {"absent", "live", "deleted", "gone"},
                                 status : {"unprovisioned", "provisioning",
                                           "creation_unknown", "active"},
                                 thread : Nat]]
    /\ mainThread \in Bounded(Len(threads))
    /\ \A c \in DOMAIN cycles :
          cycles[c] \in [session : Sessions,
                         status : {"active", "ready", "consumed", "superseded", "gone"},
                         plan : Bounded(turns), run : Bounded(Len(runs))]
    /\ \A r \in DOMAIN runs :
          runs[r] \in [session : Sessions, thread : Bounded(Len(threads)),
                       cycle : Bounded(Len(cycles)), plan : Bounded(turns),
                       status : Unresolved \cup {"closed", "gone"}]
    /\ schedule \in [row : {"absent", "present"}, session : SessionIds,
                     thread : Bounded(Len(threads)), enabled : BOOLEAN]
    /\ Range(threads) \subseteq Sessions
    /\ mutex \in [Sessions -> Requests \cup {0}]
    /\ working \subseteq DOMAIN runs
    /\ acts \in Bounded(MaxActs)

\* The App Server is asked for the thread of a session once, whatever becomes of
\* the answer, of the request and of the process (ensureSessionThread).
ThreadStartedOnce ==
    \A s \in Sessions : Cardinality({t \in DOMAIN threads : threads[t] = s}) <= 1

\* The plan a caller was told is ready is the plan on record ever after, and the
\* one and only run of that cycle executes it (store/plan_cycles.go).
AgreedPlanIsWhatRuns ==
    /\ \A agreed \in told : cycles[agreed[1]].plan = agreed[2]
    /\ \A r \in DOMAIN runs : runs[r].cycle # 0 =>
          /\ <<runs[r].cycle, runs[r].plan>> \in
                 {<<c, cycles[c].plan>> : c \in DOMAIN cycles}
          /\ \A other \in DOMAIN runs \ {r} : runs[other].cycle # runs[r].cycle

\* A plan that a newer cycle of its session has replaced is never started: a
\* stale page cannot run it (repository.go, CreatePlannedConversationRunConfigured).
OnlyTheLatestPlanRuns ==
    [][\A r \in DOMAIN runs' \ DOMAIN runs : runs'[r].cycle # 0 =>
          \A d \in CyclesOf(runs'[r].session) : d <= runs'[r].cycle]_conversationVars

\* The thread on the project row is that of its oldest session that is left
\* (the comment of SetConversationSessionThreadIfEmpty).
MirrorsOldestSession ==
    Live # {} => mainThread = session[Oldest(Live)].thread

-----------------------------------------------------------------------------
(* Promises of the comments that the code does not keep.                   *)

\* DeleteConversationSession: recoverable work and enabled schedules make the
\* operation unsafe and are rejected.
DeletedSessionHasNoWork ==
    \A s \in Sessions : session[s].row = "deleted" =>
        /\ \A r \in UnresolvedRuns : runs[r].session # s
        /\ ~(schedule.enabled /\ schedule.session = s)

\* ErrProjectResearchActive: no turn of a conversation while its thread is at
\* work on research.
NoTurnDuringResearch ==
    [][\A q \in Requests : (req[q].pc = "ready" /\ req'[q].pc = "talking") =>
          ~HasResearchWork(req[q].session)]_conversationVars
=============================================================================
