----------------------------- MODULE WorkspaceProofs -----------------------------
(***************************************************************************)
(* Theorems of what the program keeps in a workspace beside its runs: the  *)
(* conversations research is planned in, and the release of the runtime    *)
(* that serves them.                                                       *)
(*                                                                         *)
(* Conversations, for any number of sessions, of requests under way and of *)
(* crashes: a session never has two threads, and the plan that was agreed  *)
(* on is the one that runs, once.                                          *)
(*                                                                         *)
(* The runtime activation, for any number of releases, components and      *)
(* crashes: the files of the code implement the set that changes in one    *)
(* step (RuntimeSet), what is served is what was verified, and a release   *)
(* is requested from the network once.                                     *)
(***************************************************************************)
EXTENDS Conversations, RuntimeActivation, FiniteSetTheorems, SequenceTheorems, TLAPS

-----------------------------------------------------------------------------
(* The inductive invariant. *)

SessionRows == [row : {"absent", "live", "deleted", "gone"},
                status : {"unprovisioned", "provisioning", "creation_unknown", "active"},
                thread : Nat]
CycleRows == [session : Sessions,
              status : {"active", "ready", "consumed", "superseded", "gone"},
              plan : Nat, run : Nat]
RunRows == [session : Sessions, thread : Nat, cycle : Nat, plan : Nat,
            status : Unresolved \cup {"closed", "gone"}]
ScheduleRows == [row : {"absent", "present"}, session : SessionIds, thread : Nat,
                 enabled : BOOLEAN]
RequestStates == [kind : {"none", "chat", "ask", "planned", "schedule"},
                  pc : {"idle", "waiting", "creating", "created", "ready", "talking",
                        "completing", "inserting", "enqueuing"},
                  session : SessionIds, cycle : Nat, thread : Nat, result : Nat]

RowTypes ==
    /\ session \in [Sessions -> SessionRows]
    /\ cycles \in Seq(CycleRows)
    /\ runs \in Seq(RunRows)
    /\ schedule \in ScheduleRows
    /\ threads \in Seq(Sessions) /\ turns \in Nat
    /\ mutex \in [Sessions -> Requests \cup {0}]
    /\ req \in [Requests -> RequestStates]
    /\ \A q \in Requests : req[q].pc # "idle" => req[q].session \in Sessions

\* The request that is between taking the lock and the end of its turn holds it.
LockIsHeld ==
    \A q \in Requests : req[q].pc \in {"creating", "created", "ready", "talking"} =>
        mutex[req[q].session] = q

\* What a row tells of the thread of its session: an active session has one, a
\* session with one was marked first, and one that is marked has none as long
\* as the request that marked it still asks for it.
ActiveHasThread ==
    /\ \A s \in Sessions : session[s].status = "active" => session[s].thread # 0
    /\ \A q \in Requests : req[q].pc = "created" => req[q].thread # 0

Marked(s) == session[s].row # "absent" /\ session[s].status # "unprovisioned"

ThreadIsMarked == \A t \in DOMAIN threads : Marked(threads[t])

CreatingHasNone ==
    \A q \in Requests : req[q].pc = "creating" =>
        /\ Marked(req[q].session)
        /\ \A t \in DOMAIN threads : threads[t] # req[q].session

ThreadsAreDistinct == \A t, u \in DOMAIN threads : threads[t] = threads[u] => t = u

ThreadInv ==
    LockIsHeld /\ ActiveHasThread /\ ThreadIsMarked /\ CreatingHasNone /\ ThreadsAreDistinct

\* A plan that was reported is complete, and nothing completes it again.
ToldIsComplete ==
    \A agreed \in told :
        /\ agreed[1] \in DOMAIN cycles
        /\ cycles[agreed[1]].plan = agreed[2] /\ cycles[agreed[1]].status # "active"

\* The cycle of a run is consumed by it, with the plan of the run.
RunHasItsPlan ==
    /\ \A r \in DOMAIN runs : runs[r].cycle # 0 =>
          /\ runs[r].cycle \in DOMAIN cycles
          /\ cycles[runs[r].cycle].plan = runs[r].plan
          /\ cycles[runs[r].cycle].status \in {"consumed", "gone"}
    /\ \A r, o \in DOMAIN runs : runs[r].cycle # 0 /\ runs[r].cycle = runs[o].cycle => r = o

PlanInv == ToldIsComplete /\ RunHasItsPlan

ConversationInv == RowTypes /\ ThreadInv /\ PlanInv

-----------------------------------------------------------------------------
(* Sequences, locks and requests. *)

\* A table whose rows change in place stays a table of the same length.
LEMMA SameTable ==
    ASSUME NEW S, NEW s \in Seq(S), NEW t \in [DOMAIN s -> S]
    PROVE  t \in Seq(S) /\ Len(t) = Len(s) /\ DOMAIN t = DOMAIN s
<1>1. Len(s) \in Nat /\ DOMAIN s = 1..Len(s)
    BY LenProperties
<1>2. t \in [1..Len(s) -> S]
    BY <1>1
<1>3. t \in Seq(S) /\ Len(t) = Len(s)
    BY <1>1, <1>2
<1> QED BY <1>1, <1>2, <1>3

\* A row that is added gets the next number.
LEMMA NewRow ==
    ASSUME NEW S, NEW s \in Seq(S), NEW e \in S
    PROVE  /\ Append(s, e) \in Seq(S)
           /\ Len(s) + 1 \in Nat \ {0} /\ Len(s) + 1 \notin DOMAIN s
           /\ DOMAIN Append(s, e) = DOMAIN s \cup {Len(s) + 1}
           /\ Append(s, e)[Len(s) + 1] = e
           /\ \A i \in DOMAIN s : Append(s, e)[i] = s[i]
<1>1. /\ Append(s, e) \in Seq(S) /\ Len(Append(s, e)) = Len(s) + 1
      /\ \A i \in 1..Len(s) : Append(s, e)[i] = s[i]
      /\ Append(s, e)[Len(s) + 1] = e
    BY AppendProperties
<1>2. /\ Len(s) \in Nat /\ DOMAIN s = 1..Len(s)
      /\ DOMAIN Append(s, e) = 1..(Len(s) + 1)
    BY <1>1, LenProperties
<1> QED BY <1>1, <1>2

LEMMA RowLemma ==
    ASSUME NEW S, NEW s \in Seq(S)
    PROVE  /\ \A i \in DOMAIN s : s[i] \in S
           /\ DOMAIN s \subseteq Nat \ {0}
    BY LenProperties, ElementOfSeq

LEMMA TableRows ==
    ASSUME RowTypes
    PROVE  /\ \A c \in DOMAIN cycles : cycles[c] \in CycleRows
           /\ \A r \in DOMAIN runs : runs[r] \in RunRows
           /\ \A t \in DOMAIN threads : threads[t] \in Sessions
           /\ DOMAIN cycles \subseteq Nat \ {0} /\ DOMAIN runs \subseteq Nat \ {0}
    BY RowLemma DEF RowTypes

\* An answer frees the lock of the request and no other.
LEMMA AnswersLemma ==
    ASSUME RowTypes, NEW q \in Requests, Answers(q)
    PROVE  /\ req' \in [Requests -> RequestStates] /\ mutex' \in [Sessions -> Requests \cup {0}]
           /\ \A p \in Requests : req'[p].pc # "idle" => p # q /\ req'[p] = req[p]
           /\ \A p \in Requests : req'[p].pc # "idle" => req'[p].session \in Sessions
           /\ LockIsHeld => LockIsHeld'
<1>1. Idle \in RequestStates
    BY DEF Idle, RequestStates, SessionIds
<1>2. /\ req' \in [Requests -> RequestStates]
      /\ \A p \in Requests : req'[p] = IF p = q THEN Idle ELSE req[p]
    BY <1>1 DEF Answers, RowTypes
<1>3. mutex' \in [Sessions -> Requests \cup {0}]
    BY DEF Answers, RowTypes
<1>4. Idle.pc = "idle"
    BY DEF Idle
<1>5. LockIsHeld => LockIsHeld'
    BY <1>2, <1>4 DEF LockIsHeld, Answers, RowTypes
<1> QED BY <1>2, <1>3, <1>4, <1>5 DEF RowTypes

\* A request that is under way takes a step, in one of the three ways in which
\* actions write it.
LEMMA MovesForms ==
    ASSUME RowTypes, NEW q \in Requests, req[q].pc # "idle",
           NEW pc \in {"creating", "created", "ready", "talking", "completing", "inserting",
                       "enqueuing"},
           NEW n \in Nat,
           \/ req' = [req EXCEPT ![q].pc = pc]
           \/ req' = [req EXCEPT ![q].pc = pc, ![q].thread = n]
           \/ req' = [req EXCEPT ![q].pc = pc, ![q].result = n]
    PROVE  /\ req' \in [Requests -> RequestStates]
           /\ req'[q].pc = pc /\ req'[q].session = req[q].session
           /\ req' = [req EXCEPT ![q].pc = pc, ![q].thread = n] => req'[q].thread = n
           /\ \A p \in Requests : p # q => req'[p] = req[p]
           /\ \A p \in Requests : req'[p].pc # "idle" => req'[p].session \in Sessions
<1>1. req[q] \in RequestStates
    BY DEF RowTypes
<1>2. req[q].thread \in Nat /\ req[q].result \in Nat
    BY <1>1 DEF RequestStates
<1>3. \E t, m \in Nat :
          /\ req' = [req EXCEPT ![q] = [@ EXCEPT !.pc = pc, !.thread = t, !.result = m]]
          /\ req' = [req EXCEPT ![q].pc = pc, ![q].thread = n] => t = n
  <2>1. CASE req' = [req EXCEPT ![q].pc = pc, ![q].thread = n]
    <3>1. [req[q] EXCEPT !.pc = pc, !.thread = n]
              = [req[q] EXCEPT !.pc = pc, !.thread = n, !.result = req[q].result]
        BY ONLY <1>1 DEF RequestStates
    <3>2. req' = [req EXCEPT ![q] = [@ EXCEPT !.pc = pc, !.thread = n, !.result = req[q].result]]
        BY <2>1, <3>1
    <3> QED BY <1>2, <3>2
  <2>2. CASE /\ req' = [req EXCEPT ![q].pc = pc]
             /\ req' # [req EXCEPT ![q].pc = pc, ![q].thread = n]
    <3>1. [req[q] EXCEPT !.pc = pc]
              = [req[q] EXCEPT !.pc = pc, !.thread = req[q].thread, !.result = req[q].result]
        BY ONLY <1>1 DEF RequestStates
    <3>2. req' = [req EXCEPT ![q] = [@ EXCEPT !.pc = pc, !.thread = req[q].thread, !.result = req[q].result]]
        BY <2>2, <3>1
    <3> QED BY <1>2, <2>2, <3>2
  <2>3. CASE /\ req' = [req EXCEPT ![q].pc = pc, ![q].result = n]
             /\ req' # [req EXCEPT ![q].pc = pc, ![q].thread = n]
    <3>1. [req[q] EXCEPT !.pc = pc, !.result = n]
              = [req[q] EXCEPT !.pc = pc, !.thread = req[q].thread, !.result = n]
        BY ONLY <1>1 DEF RequestStates
    <3>2. req' = [req EXCEPT ![q] = [@ EXCEPT !.pc = pc, !.thread = req[q].thread, !.result = n]]
        BY <2>3, <3>1
    <3> QED BY <1>2, <2>3, <3>2
  <2> QED BY <2>1, <2>2, <2>3
<1>4. PICK t \in Nat, m \in Nat :
          /\ req' = [req EXCEPT ![q] = [@ EXCEPT !.pc = pc, !.thread = t, !.result = m]]
          /\ req' = [req EXCEPT ![q].pc = pc, ![q].thread = n] => t = n
    BY <1>3
<1> DEFINE r == [req[q] EXCEPT !.pc = pc, !.thread = t, !.result = m]
<1>5. r \in RequestStates /\ r.pc = pc /\ r.session = req[q].session /\ r.thread = t
    BY ONLY <1>1, <1>4, q \in Requests,
            pc \in {"creating", "created", "ready", "talking", "completing", "inserting",
                    "enqueuing"}
    DEF RequestStates
<1>6. req' = [req EXCEPT ![q] = r]
    BY <1>4
<1>7. req[q].session \in Sessions
    BY DEF RowTypes
<1> HIDE DEF r
<1>8. /\ req' \in [Requests -> RequestStates] /\ req'[q] = r
      /\ \A p \in Requests : p # q => req'[p] = req[p]
    BY <1>5, <1>6 DEF RowTypes
<1> QED BY <1>4, <1>5, <1>7, <1>8 DEF RowTypes

-----------------------------------------------------------------------------
(* Type correctness. *)

\* Steps of a request that write no table.
LEMMA RequestTypes ==
    ASSUME RowTypes, UNCHANGED <<session, cycles, runs, schedule, threads, turns>>,
           req' \in [Requests -> RequestStates], mutex' \in [Sessions -> Requests \cup {0}],
           \A q \in Requests : req'[q].pc # "idle" => req'[q].session \in Sessions
    PROVE  RowTypes'
    BY DEF RowTypes

LEMMA UserTypes == ASSUME RowTypes, User PROVE RowTypes'
<1> USE ConversationAssumption
<1>1. ASSUME NEW s \in Sessions, CreateSession(s) \/ DeleteSession(s) PROVE RowTypes'
  <2>1. NewSession \in SessionRows
      BY DEF NewSession, AbsentSession, SessionRows
  <2>2. session \in [Sessions -> SessionRows] /\ session[s] \in SessionRows
      BY DEF RowTypes
  <2>3. [session[s] EXCEPT !.row = "deleted"] \in SessionRows
      BY <2>2 DEF SessionRows
  <2>4. session' \in [Sessions -> SessionRows]
      BY <1>1, <2>1, <2>2, <2>3 DEF CreateSession, DeleteSession
  <2> QED BY <1>1, <2>4 DEF CreateSession, DeleteSession, RowTypes, codex
<1>2. ASSUME NEW s \in Sessions, BeginPlanCycle(s) PROVE RowTypes'
  <2> DEFINE old == [c \in DOMAIN cycles |->
                        IF c \in CyclesOf(s) /\ cycles[c].status \in {"active", "ready"}
                        THEN Superseded(c) ELSE cycles[c]]
             new == [session |-> s, status |-> "active", plan |-> 0, run |-> 0]
  <2>0. \A c \in DOMAIN cycles : cycles[c] \in CycleRows
      BY TableRows
  <2>1. \A c \in DOMAIN cycles : Superseded(c) \in CycleRows
      BY <2>0 DEF CycleRows, Superseded
  <2>2. old \in [DOMAIN cycles -> CycleRows] /\ new \in CycleRows
      BY <2>0, <2>1 DEF CycleRows
  <2>3. cycles' = Append(old, new)
      BY <1>2 DEF BeginPlanCycle
  <2> HIDE DEF old, new
  <2>4. old \in Seq(CycleRows)
      BY <2>2, SameTable DEF RowTypes
  <2>5. cycles' \in Seq(CycleRows)
      BY <2>2, <2>3, <2>4, NewRow
  <2>6. UNCHANGED <<session, mainThread, runs, schedule, codex, mutex, req>>
      BY <1>2 DEF BeginPlanCycle
  <2> QED BY <2>5, <2>6 DEF RowTypes, codex
<1>3. CASE DeleteProject
  <2>1. session' \in [Sessions -> SessionRows]
    <3>1. ASSUME NEW s \in Sessions
          PROVE  [session[s] EXCEPT !.row = "gone"] \in SessionRows
      <4>1. session[s] \in SessionRows
          BY DEF RowTypes
      <4> QED BY ONLY <4>1 DEF SessionRows
    <3> QED BY <1>3, <3>1 DEF DeleteProject
  <2>2. cycles' \in Seq(CycleRows)
    <3>0. \A c \in DOMAIN cycles : cycles[c] \in CycleRows
        BY TableRows
    <3>1. \A c \in DOMAIN cycles : [cycles[c] EXCEPT !.status = "gone"] \in CycleRows
        BY <3>0 DEF CycleRows
    <3>2. cycles' \in [DOMAIN cycles -> CycleRows]
        BY <1>3, <3>1 DEF DeleteProject
    <3> QED BY <3>2, SameTable DEF RowTypes
  <2>3. runs' \in Seq(RunRows) /\ DOMAIN runs' = DOMAIN runs
    <3>0. \A r \in DOMAIN runs : runs[r] \in RunRows
        BY TableRows
    <3>1. \A r \in DOMAIN runs : [runs[r] EXCEPT !.status = "gone"] \in RunRows
        BY <3>0 DEF RunRows
    <3>2. runs' \in [DOMAIN runs -> RunRows]
        BY <1>3, <3>1 DEF DeleteProject
    <3> QED BY <3>2, SameTable DEF RowTypes
  <2>4. NoSchedule \in ScheduleRows
      BY DEF NoSchedule, ScheduleRows, SessionIds
  <2> QED BY <1>3, <2>1, <2>2, <2>3, <2>4 DEF DeleteProject, RowTypes, codex
<1>4. CASE ToggleSchedule \/ DropSchedule
  <2>0. schedule \in ScheduleRows
      BY DEF RowTypes
  <2>1. schedule' \in ScheduleRows
    <3>1. CASE DropSchedule
        BY <3>1 DEF DropSchedule, NoSchedule, ScheduleRows, SessionIds
    <3>2. CASE ToggleSchedule
      <4>1. (~schedule.enabled) \in {TRUE, FALSE}
        <5>1. schedule.enabled \in {TRUE, FALSE}
            BY <2>0 DEF ScheduleRows
        <5> QED BY <5>1, Zenon
      <4>2. [schedule EXCEPT !.enabled = ~schedule.enabled] \in ScheduleRows
          BY <2>0, <4>1 DEF ScheduleRows
      <4> QED BY <3>2, <4>2 DEF ToggleSchedule
    <3> QED BY <1>4, <3>1, <3>2
  <2> QED BY <1>4, <2>1 DEF ToggleSchedule, DropSchedule, RowTypes, codex
<1>5. ASSUME NEW q \in Requests, NEW kind \in {"chat", "ask", "planned", "schedule"},
             NEW pc \in {"waiting", "inserting"}, NEW s \in Sessions, NEW c \in Nat, NEW t \in Nat,
             Arrives(q, kind, pc, s, c, t)
      PROVE  RowTypes'
  <2> DEFINE new == [kind |-> kind, pc |-> pc, session |-> s, cycle |-> c, thread |-> t, result |-> 0]
  <2>1. new \in RequestStates /\ req' = [req EXCEPT ![q] = new] /\ new.session \in Sessions
      BY <1>5 DEF RequestStates, SessionIds, Arrives
  <2> HIDE DEF new
  <2>2. /\ req' \in [Requests -> RequestStates]
        /\ \A p \in Requests : req'[p].pc # "idle" => req'[p].session \in Sessions
      BY <2>1 DEF RowTypes
  <2> QED BY <1>5, <2>2, RequestTypes DEF Arrives, rows, codex, RowTypes
<1>6. ASSUME NEW q \in Requests, NEW s \in Sessions,
             \/ \E c \in {0} \cup DOMAIN cycles : ChatArrives(q, s, c)
             \/ \E c \in {0} \cup CyclesOf(s) : RunArrives(q, s, c)
             \/ ScheduleArrives(q, s)
      PROVE  RowTypes'
  <2>1. DOMAIN cycles \subseteq Nat /\ CyclesOf(s) \subseteq Nat
      BY RowLemma DEF RowTypes, CyclesOf
  <2>2. session[s].thread \in Nat
      BY DEF RowTypes, SessionRows
  <2> QED BY <1>5, <1>6, <2>1, <2>2 DEF ChatArrives, RunArrives, ScheduleArrives
<1>7. ASSUME NEW r \in DOMAIN runs, CancelRun(r) \/ ResumeRun(r) PROVE RowTypes'
  <2>0. /\ \A o \in DOMAIN runs : runs[o] \in RunRows
        /\ runs = [o \in DOMAIN runs |-> runs[o]]
      BY TableRows, LenProperties DEF RowTypes
  <2>1. [runs[r] EXCEPT !.status = "closed"] \in RunRows
      BY <2>0 DEF RunRows
  <2>2. runs' \in [DOMAIN runs -> RunRows]
      BY <1>7, <2>0, <2>1 DEF CancelRun, ResumeRun, rows
  <2>3. runs' \in Seq(RunRows) /\ DOMAIN runs' = DOMAIN runs
      BY <2>2, SameTable DEF RowTypes
  <2> QED BY <1>7, <2>3 DEF CancelRun, ResumeRun, rows, codex, RowTypes
<1> QED BY <1>1, <1>2, <1>3, <1>4, <1>6, <1>7 DEF User

LEMMA RequestStepTypes == ASSUME RowTypes, NEW q \in Requests, TakesLock(q) \/ Request(q) PROVE RowTypes'
<1> USE ConversationAssumption
<1> DEFINE s == req[q].session
<1>0. req[q] \in RequestStates /\ (req[q].pc # "idle" => s \in Sessions)
    BY DEF RowTypes
<1>1. CASE TakesLock(q)
  <2>1. s \in Sessions /\ session[s] \in SessionRows /\ req[q].pc = "waiting"
      BY <1>0, <1>1 DEF TakesLock, RowTypes
  <2>2. session' \in [Sessions -> SessionRows]
    <3>1. [session[s] EXCEPT !.status = "provisioning"] \in SessionRows
        BY <2>1 DEF SessionRows
    <3>2. session \in [Sessions -> SessionRows]
        BY DEF RowTypes
    <3> QED BY <1>1, <2>1, <3>1, <3>2 DEF TakesLock
  <2>3. CASE Answers(q)
      BY <1>1, <2>2, <2>3, AnswersLemma DEF TakesLock, RowTypes, codex
  <2>4. CASE ~Answers(q)
    <3>1. mutex' = [mutex EXCEPT ![s] = q] /\ s \in Sessions
        BY <1>1, <2>1, <2>4 DEF TakesLock
    <3>2. PICK pc \in {"ready", "creating"} :
            \/ req' = [req EXCEPT ![q].pc = pc]
            \/ req' = [req EXCEPT ![q].pc = pc, ![q].thread = session[s].thread]
        BY <1>1, <2>4 DEF TakesLock, MovesTo
    <3>3. session[s].thread \in Nat
        BY <2>1 DEF SessionRows
    <3>4. /\ req' \in [Requests -> RequestStates]
          /\ \A p \in Requests : req'[p].pc # "idle" => req'[p].session \in Sessions
        BY <2>1, <3>2, <3>3, MovesForms
    <3> QED BY <1>1, <2>2, <3>1, <3>4 DEF TakesLock, RowTypes, codex
  <2> QED BY <2>3, <2>4
<1>2. CASE InsertSchedule(q)
  <2>1. schedule' \in ScheduleRows
    <3>1. [row |-> "present", session |-> s, thread |-> req[q].thread, enabled |-> TRUE] \in ScheduleRows
        BY <1>0 DEF ScheduleRows, RequestStates
    <3>2. schedule \in ScheduleRows
        BY DEF RowTypes
    <3> QED BY <1>2, <3>1, <3>2 DEF InsertSchedule
  <2> QED BY <1>2, <2>1, AnswersLemma DEF InsertSchedule, RowTypes, codex
<1>3. CASE StartThread(q)
  <2>1. s \in Sessions /\ Len(threads) + 1 \in Nat /\ threads' \in Seq(Sessions)
      BY <1>0, <1>3, NewRow DEF StartThread, RowTypes
  <2>2. /\ req' \in [Requests -> RequestStates]
        /\ \A p \in Requests : req'[p].pc # "idle" => req'[p].session \in Sessions
      BY <1>3, <2>1, MovesForms DEF StartThread
  <2> QED BY <1>3, <2>1, <2>2 DEF StartThread, RowTypes, rows
<1>4. CASE LosesThread(q)
  <2>1. s \in Sessions /\ threads' \in Seq(Sessions) /\ session[s] \in SessionRows
    <3>1. s \in Sessions /\ session[s] \in SessionRows
        BY <1>0, <1>4 DEF LosesThread, RowTypes
    <3>2. Append(threads, s) \in Seq(Sessions)
        BY <3>1, NewRow DEF RowTypes
    <3> QED BY <1>4, <3>1, <3>2 DEF LosesThread, RowTypes
  <2>2. session' \in [Sessions -> SessionRows]
    <3>1. [session[s] EXCEPT !.status = "creation_unknown"] \in SessionRows
        BY <2>1 DEF SessionRows
    <3> QED BY <1>4, <2>1, <3>1 DEF LosesThread, RowTypes
  <2> QED BY <1>4, <2>1, <2>2, AnswersLemma DEF LosesThread, RowTypes
<1>5. CASE RecordThread(q)
  <2>1. s \in Sessions /\ req[q].thread \in Nat /\ session[s] \in SessionRows
      BY <1>0, <1>5 DEF RecordThread, RequestStates, RowTypes
  <2>2. session' \in [Sessions -> SessionRows]
    <3>1. [session[s] EXCEPT !.status = "active", !.thread = req[q].thread] \in SessionRows
        BY <2>1 DEF SessionRows
    <3>2. \/ session' = session
          \/ session' = [session EXCEPT ![s] = [session[s] EXCEPT !.status = "active",
                                                                !.thread = req[q].thread]]
        BY <1>5, <2>1 DEF RecordThread, RowTypes, SessionRows
    <3>3. session \in [Sessions -> SessionRows]
        BY DEF RowTypes
    <3> QED BY <2>1, <3>1, <3>2, <3>3
  <2>3. CASE Answers(q)
      BY <1>5, <2>2, <2>3, AnswersLemma DEF RecordThread, RowTypes, codex
  <2>4. CASE ~Answers(q)
    <3>1. /\ req' \in [Requests -> RequestStates]
          /\ \A p \in Requests : req'[p].pc # "idle" => req'[p].session \in Sessions
        BY <1>5, <2>1, <2>4, MovesForms DEF RecordThread, MovesTo
    <3> QED BY <1>5, <2>2, <2>4, <3>1 DEF RecordThread, RowTypes, codex
  <2> QED BY <2>3, <2>4
<1>6. CASE StartTurn(q) \/ ReadSession(q)
  <2>1. CASE Answers(q)
      BY <1>6, <2>1, AnswersLemma, RequestTypes DEF StartTurn, ReadSession, rows, codex
  <2>2. CASE ~Answers(q)
    <3>1. PICK pc \in {"talking", "inserting"} : req' = [req EXCEPT ![q].pc = pc]
        BY <1>6, <2>2 DEF StartTurn, ReadSession, MovesTo
    <3>2. UNCHANGED mutex /\ req[q].pc # "idle" /\ 0 \in Nat
        BY <1>6, <2>2 DEF StartTurn, ReadSession
    <3>3. /\ req' \in [Requests -> RequestStates]
          /\ \A p \in Requests : req'[p].pc # "idle" => req'[p].session \in Sessions
        BY <3>1, <3>2, MovesForms
    <3> QED BY <1>6, <3>2, <3>3, RequestTypes DEF StartTurn, ReadSession, rows, codex, RowTypes
  <2> QED BY <2>1, <2>2
<1>7. ASSUME NEW reply, EndTurn(q, reply) PROVE RowTypes'
  <2>1. turns + 1 \in Nat
      BY DEF RowTypes
  <2>2. CASE Answers(q)
      BY <1>7, <2>1, <2>2, AnswersLemma DEF EndTurn, RowTypes, rows
  <2>3. CASE ~Answers(q)
    <3>1. /\ req' = [req EXCEPT ![q].pc = "completing", ![q].result = turns + 1]
          /\ mutex' = [mutex EXCEPT ![s] = 0] /\ req[q].pc # "idle"
        BY <1>7, <2>3 DEF EndTurn
    <3>2. /\ req' \in [Requests -> RequestStates]
          /\ \A p \in Requests : req'[p].pc # "idle" => req'[p].session \in Sessions
        BY <2>1, <3>1, MovesForms
    <3> QED BY <1>7, <2>1, <3>1, <3>2 DEF EndTurn, RowTypes, rows
  <2> QED BY <2>2, <2>3
<1>8. CASE CompletePlan(q)
  <2> DEFINE c == req[q].cycle
  <2>1. cycles' \in Seq(CycleRows)
    <3>1. \A d \in DOMAIN cycles : cycles[d] \in CycleRows
        BY TableRows
    <3>2. req[q].result \in Nat
        BY <1>0 DEF RequestStates
    <3>3. CASE IsActive(s, c)
      <4>1. c \in DOMAIN cycles
          BY <3>3 DEF IsActive, CyclesOf
      <4>2. [cycles[c] EXCEPT !.status = "ready", !.plan = req[q].result] \in CycleRows
          BY <3>1, <3>2, <4>1 DEF CycleRows
      <4>3. cycles = [d \in DOMAIN cycles |-> cycles[d]]
          BY LenProperties DEF RowTypes
      <4>4. cycles' = [d \in DOMAIN cycles |->
                          IF d = c THEN [cycles[c] EXCEPT !.status = "ready", !.plan = req[q].result]
                          ELSE cycles[d]]
          BY <1>8, <3>1, <3>3, <4>1, <4>3 DEF CompletePlan, CycleRows
      <4>5. cycles' \in [DOMAIN cycles -> CycleRows]
          BY <3>1, <4>2, <4>4
      <4> QED BY <4>5, SameTable DEF RowTypes
    <3> QED BY <1>8, <3>3 DEF CompletePlan, RowTypes
  <2> QED BY <1>8, <2>1, AnswersLemma DEF CompletePlan, RowTypes, codex
<1>9. CASE InsertRun(q)
  <2> DEFINE c == req[q].cycle
             r == Len(runs) + 1
             new == NewRun(s, req[q].thread, c, IF c = 0 THEN 0 ELSE cycles[c].plan)
  <2>1. CASE Answers(q) /\ UNCHANGED <<runs, cycles>>
      BY <1>9, <2>1, AnswersLemma DEF InsertRun, RowTypes, codex
  <2>2. CASE ~(Answers(q) /\ UNCHANGED <<runs, cycles>>)
    <3>1. /\ runs' = Append(runs, new) /\ cycles' = IF c = 0 THEN cycles ELSE ConsumedBy(c, r)
          /\ req' = [req EXCEPT ![q].pc = "enqueuing", ![q].result = r]
          /\ UNCHANGED mutex /\ req[q].pc # "idle" /\ (c # 0 => c \in DOMAIN cycles)
        BY <1>9, <2>2 DEF InsertRun, Runnable, CyclesOf
    <3>2. \A d \in DOMAIN cycles : cycles[d] \in CycleRows
        BY TableRows
    <3>3. new \in RunRows /\ r \in Nat
      <4>1. c # 0 => cycles[c].plan \in Nat
          BY <3>1, <3>2 DEF CycleRows
      <4>2. c \in Nat /\ req[q].thread \in Nat /\ s \in Sessions /\ r \in Nat
          BY <1>0, <3>1, LenProperties DEF RequestStates, RowTypes
      <4> QED BY <4>1, <4>2 DEF NewRun, RunRows, Unresolved
    <3>4. cycles' \in Seq(CycleRows)
      <4>1. CASE c # 0
        <5>1. [cycles[c] EXCEPT !.status = "consumed", !.run = r] \in CycleRows
            BY <3>1, <3>2, <3>3, <4>1 DEF CycleRows
        <5>2. cycles = [d \in DOMAIN cycles |-> cycles[d]]
            BY LenProperties DEF RowTypes
        <5>3. cycles' = [d \in DOMAIN cycles |->
                            IF d = c THEN [cycles[c] EXCEPT !.status = "consumed", !.run = r]
                            ELSE cycles[d]]
            BY <3>1, <3>2, <4>1, <5>2 DEF ConsumedBy, CycleRows
        <5>4. cycles' \in [DOMAIN cycles -> CycleRows]
            BY <3>2, <5>1, <5>3
        <5> QED BY <5>4, SameTable DEF RowTypes
      <4> QED BY <3>1, <4>1 DEF RowTypes
    <3>5. runs' \in Seq(RunRows) /\ DOMAIN runs \subseteq DOMAIN runs'
        BY <3>1, <3>3, NewRow DEF RowTypes
    <3>6. /\ req' \in [Requests -> RequestStates]
          /\ \A p \in Requests : req'[p].pc # "idle" => req'[p].session \in Sessions
        BY <3>1, <3>3, MovesForms
    <3> QED BY <1>9, <3>1, <3>4, <3>5, <3>6 DEF InsertRun, RowTypes, codex
  <2> QED BY <2>1, <2>2
<1>10. CASE Fails(q)
    BY <1>10, AnswersLemma, RequestTypes DEF Fails, rows, codex
<1>11. CASE EnqueueRun(q)
    BY <1>11, AnswersLemma, RequestTypes DEF EnqueueRun, rows, codex
<1> QED BY <1>1, <1>2, <1>3, <1>4, <1>5, <1>6, <1>7, <1>8, <1>9, <1>10, <1>11 DEF Request

\* The threads a crash may leave behind: each session once.
LEMMA StartedLemma ==
    ASSUME RowTypes, NEW started,
           started \subseteq {req[q].session : q \in {p \in Requests : req[p].pc = "creating"}}
    PROVE  /\ SetToSeq(started) \in Seq(Sessions)
           /\ \A i \in DOMAIN SetToSeq(started) : SetToSeq(started)[i] \in started
           /\ \A i, j \in DOMAIN SetToSeq(started) :
                SetToSeq(started)[i] = SetToSeq(started)[j] => i = j
<1> USE ConversationAssumption
<1> DEFINE asking == {p \in Requests : req[p].pc = "creating"}
           asked  == {req[q].session : q \in asking}
           f      == [q \in asking |-> req[q].session]
<1>1. IsFiniteSet(asking)
    BY FS_Subset
<1>2. f \in Surjection(asking, asked)
    BY DEF Surjection
<1>3. IsFiniteSet(asked) /\ started \subseteq asked
    BY <1>1, <1>2, FS_Surjection
<1>4. IsFiniteSet(started)
    BY <1>3, FS_Subset
<1>5. asked \subseteq Sessions
    BY DEF RowTypes
<1> DEFINE n == Cardinality(started)
<1>6. n \in Nat /\ ExistsBijection(1..n, started)
    BY <1>4, FS_CardinalityType
<1>7. \E g \in [1..n -> started] : IsInjective(g)
    BY <1>6 DEF ExistsBijection, Bijection, Injection
<1>8. SetToSeq(started) \in [1..n -> started] /\ IsInjective(SetToSeq(started))
    BY <1>7 DEF SetToSeq
<1> HIDE DEF n
<1>9. SetToSeq(started) \in Seq(Sessions) /\ DOMAIN SetToSeq(started) = 1..n
  <2>1. SetToSeq(started) \in [1..n -> Sessions]
      BY <1>3, <1>5, <1>8
  <2> QED BY <1>6, <2>1
<1> QED BY <1>8, <1>9 DEF IsInjective

LEMMA CrashTypes == ASSUME RowTypes, ProcessCrash PROVE RowTypes'
<1>1. threads' \in Seq(Sessions)
    BY StartedLemma, ConcatProperties DEF ProcessCrash, RowTypes
<1>2. /\ req' \in [Requests -> RequestStates]
      /\ \A p \in Requests : req'[p].pc = "idle"
    BY DEF ProcessCrash, Idle, RequestStates, SessionIds
<1>3. mutex' \in [Sessions -> Requests \cup {0}]
    BY DEF ProcessCrash
<1>4. runs' \in Seq(RunRows)
  <2>1. \A r \in DOMAIN runs : runs[r] \in RunRows
      BY TableRows
  <2>2. \A r \in DOMAIN runs : [runs[r] EXCEPT !.status = "interrupted"] \in RunRows
      BY <2>1 DEF RunRows, Unresolved
  <2>3. runs' \in [DOMAIN runs -> RunRows]
      BY <2>1, <2>2 DEF ProcessCrash
  <2> QED BY <2>3, SameTable DEF RowTypes
<1> QED BY <1>1, <1>2, <1>3, <1>4 DEF ProcessCrash, RowTypes

LEMMA TypeStep == RowTypes /\ [ConversationNext]_conversationVars => RowTypes'
<1> SUFFICES ASSUME RowTypes, [ConversationNext]_conversationVars PROVE RowTypes'
    OBVIOUS
<1>1. CASE FireSchedule
  <2> DEFINE s == schedule.session
             new == NewRun(s, schedule.thread, 0, 0)
  <2>1. schedule \in ScheduleRows
      BY DEF RowTypes
  <2>2. CASE runs' = Append(runs, new) /\ s \in Live /\ UNCHANGED schedule
    <3>1. new \in RunRows
        BY <2>1, <2>2 DEF Live, NewRun, RunRows, ScheduleRows, Unresolved
    <3>2. runs' \in Seq(RunRows)
        BY <2>2, <3>1, NewRow DEF RowTypes
    <3> QED BY <1>1, <2>2, <3>2 DEF FireSchedule, RowTypes, codex
  <2>3. CASE schedule' = [schedule EXCEPT !.enabled = FALSE] /\ UNCHANGED runs
    <3>1. schedule' \in ScheduleRows
        BY <2>1, <2>3 DEF ScheduleRows
    <3> QED BY <1>1, <2>3, <3>1 DEF FireSchedule, RowTypes, codex
  <2> QED BY <1>1, <2>2, <2>3 DEF FireSchedule
<1>2. CASE ReloadQueued
    BY <1>2 DEF ReloadQueued, RowTypes, rows, codex
<1>3. ASSUME NEW r, EndRun(r) PROVE RowTypes'
  <2>1. \A o \in DOMAIN runs : runs[o] \in RunRows
      BY TableRows
  <2>2. ASSUME NEW end \in {"closed", "interrupted"}, r \in UnresolvedRuns,
               runs' = [runs EXCEPT ![r].status = end]
        PROVE  runs' \in Seq(RunRows)
    <3>1. r \in DOMAIN runs /\ runs = [o \in DOMAIN runs |-> runs[o]]
        BY <2>2, LenProperties DEF UnresolvedRuns, RowTypes
    <3>2. [runs[r] EXCEPT !.status = end] \in RunRows
        BY <2>1, <3>1 DEF RunRows, Unresolved
    <3>3. runs' \in [DOMAIN runs -> RunRows]
        BY <2>1, <2>2, <3>1, <3>2
    <3> QED BY <3>3, SameTable DEF RowTypes
  <2>3. runs' \in Seq(RunRows)
      BY <1>3, <2>2 DEF EndRun, RowTypes
  <2> QED BY <1>3, <2>3 DEF EndRun, RowTypes, codex
<1>4. CASE UNCHANGED conversationVars
    BY <1>4 DEF conversationVars, rows, codex, RowTypes
<1> QED BY <1>1, <1>2, <1>3, <1>4, UserTypes, RequestStepTypes, CrashTypes DEF ConversationNext

-----------------------------------------------------------------------------
(* Threads. *)

\* Steps that start no thread, unmark no session and make no request ask for one.
LEMMA ThreadFrame ==
    ASSUME RowTypes, ThreadInv, LockIsHeld', UNCHANGED threads,
           \A s \in Sessions : Marked(s) => Marked(s)',
           \A s \in Sessions : session'[s].status = "active" => session'[s].thread # 0,
           \A q \in Requests : req'[q].pc = "creating" => req'[q] = req[q],
           \A q \in Requests : req'[q].pc = "created" => req'[q] = req[q]
    PROVE  ThreadInv'
<1>1. \A t \in DOMAIN threads : threads[t] \in Sessions
    BY TableRows
<1>2. \A q \in Requests : req[q].pc = "creating" => req[q].session \in Sessions
    BY DEF RowTypes
<1>3. ActiveHasThread'
    BY DEF ThreadInv, ActiveHasThread
<1>4. ThreadIsMarked'
    BY <1>1 DEF ThreadInv, ThreadIsMarked
<1>5. CreatingHasNone'
    BY <1>2 DEF ThreadInv, CreatingHasNone
<1>6. ThreadsAreDistinct'
    BY DEF ThreadInv, ThreadsAreDistinct
<1> QED BY <1>3, <1>4, <1>5, <1>6 DEF ThreadInv

\* Steps that leave the rows of the sessions and the threads alone.
LEMMA SessionFrame ==
    ASSUME RowTypes, ThreadInv, LockIsHeld', UNCHANGED <<session, threads>>,
           \A q \in Requests : req'[q].pc \in {"creating", "created"} => req'[q] = req[q]
    PROVE  ThreadInv'
<1>1. \A s \in Sessions : Marked(s) => Marked(s)'
    BY DEF Marked
<1>2. \A s \in Sessions : session'[s].status = "active" => session'[s].thread # 0
    BY DEF ThreadInv, ActiveHasThread
<1> QED BY <1>1, <1>2, ThreadFrame

\* Steps of one request that leave the locks alone.
LEMMA LockFrame ==
    ASSUME LockIsHeld, NEW q \in Requests, UNCHANGED mutex,
           \A p \in Requests : p # q => req'[p] = req[p],
           \/ req'[q].pc \notin {"creating", "created", "ready", "talking"}
           \/ /\ req[q].pc \in {"creating", "created", "ready", "talking"}
              /\ req'[q].session = req[q].session
    PROVE  LockIsHeld'
    BY DEF LockIsHeld

LEMMA UserThreads == ASSUME RowTypes, ThreadInv, User PROVE ThreadInv'
<1> USE ConversationAssumption
<1>0. ASSUME UNCHANGED <<req, mutex>> PROVE LockIsHeld'
    BY <1>0 DEF ThreadInv, LockIsHeld
<1>1. ASSUME NEW s \in Sessions, CreateSession(s) PROVE ThreadInv'
  <2>1. /\ session[s].row = "absent" /\ session'[s] = NewSession
        /\ \A o \in Sessions : o # s => session'[o] = session[o]
        /\ UNCHANGED <<threads, req, mutex>>
      BY <1>1 DEF CreateSession, RowTypes, codex
  <2>2. \A o \in Sessions : Marked(o) => Marked(o)'
      BY <2>1 DEF Marked
  <2>3. NewSession.status = "unprovisioned"
      BY DEF NewSession, AbsentSession
  <2>4. \A o \in Sessions : session'[o].status = "active" => session'[o].thread # 0
      BY <2>1, <2>3 DEF ThreadInv, ActiveHasThread
  <2> QED BY <1>0, <2>1, <2>2, <2>4, ThreadFrame
<1>2. ASSUME UNCHANGED <<threads, req, mutex>>,
             \A o \in Sessions : /\ session'[o].status = session[o].status
                                 /\ session'[o].thread = session[o].thread
                                 /\ session'[o].row = session[o].row \/ session'[o].row # "absent"
      PROVE  ThreadInv'
  <2>1. \A o \in Sessions : Marked(o) => Marked(o)'
      BY <1>2 DEF Marked
  <2>2. \A o \in Sessions : session'[o].status = "active" => session'[o].thread # 0
      BY <1>2 DEF ThreadInv, ActiveHasThread
  <2> QED BY <1>0, <1>2, <2>1, <2>2, ThreadFrame
<1>3. ASSUME NEW s \in Sessions, DeleteSession(s) PROVE ThreadInv'
  <2>1. session \in [Sessions -> SessionRows] /\ \A o \in Sessions : session[o] \in SessionRows
      BY DEF RowTypes
  <2>2. \A o \in Sessions : /\ session'[o].status = session[o].status
                            /\ session'[o].thread = session[o].thread
                            /\ session'[o].row = session[o].row \/ session'[o].row # "absent"
      BY <1>3, <2>1 DEF DeleteSession, SessionRows
  <2> QED BY <1>2, <1>3, <2>2 DEF DeleteSession, codex
<1>4. CASE DeleteProject
  <2>1. \A o \in Sessions : session[o] \in SessionRows
      BY DEF RowTypes
  <2>2. \A o \in Sessions : /\ session'[o].status = session[o].status
                            /\ session'[o].thread = session[o].thread
                            /\ session'[o].row = session[o].row \/ session'[o].row # "absent"
      BY <1>4, <2>1 DEF DeleteProject, SessionRows
  <2> QED BY <1>2, <1>4, <2>2 DEF DeleteProject, codex
<1>5. ASSUME UNCHANGED <<session, threads, req, mutex>> PROVE ThreadInv'
    BY <1>0, <1>5, SessionFrame
<1>6. ASSUME NEW s \in Sessions, BeginPlanCycle(s) PROVE ThreadInv'
    BY <1>5, <1>6 DEF BeginPlanCycle, codex
<1>7. CASE ToggleSchedule \/ DropSchedule
    BY <1>5, <1>7 DEF ToggleSchedule, DropSchedule, codex
<1>8. ASSUME NEW q \in Requests, NEW kind, NEW pc \in {"waiting", "inserting"}, NEW s, NEW c, NEW t,
             Arrives(q, kind, pc, s, c, t)
      PROVE  ThreadInv'
  <2>1. req'[q].pc = pc /\ \A p \in Requests : p # q => req'[p] = req[p]
      BY <1>8 DEF Arrives, RowTypes
  <2>2. UNCHANGED <<session, threads, mutex>>
      BY <1>8 DEF Arrives, rows, codex
  <2>3. LockIsHeld'
      BY <2>1, <2>2, LockFrame DEF ThreadInv
  <2> QED BY <2>1, <2>2, <2>3, SessionFrame
<1>9. ASSUME NEW r, CancelRun(r) \/ ResumeRun(r) PROVE ThreadInv'
    BY <1>5, <1>9 DEF CancelRun, ResumeRun, codex, rows
<1> QED BY <1>1, <1>3, <1>4, <1>6, <1>7, <1>8, <1>9
    DEF User, ChatArrives, RunArrives, ScheduleArrives

\* A session is asked to have a thread only when it was never marked, and by
\* the request that holds its lock.
LEMMA TakesLockThreads ==
    ASSUME RowTypes, ThreadInv, NEW q \in Requests, TakesLock(q) PROVE ThreadInv'
<1> PICK s : s = req[q].session
    OBVIOUS
<1>0. /\ req[q] \in RequestStates /\ s \in Sessions /\ session \in [Sessions -> SessionRows]
      /\ session[s] \in SessionRows
      /\ req[q].pc = "waiting" /\ mutex[s] = 0 /\ UNCHANGED threads
    BY DEF TakesLock, RowTypes, codex
<1>1. CASE Answers(q) /\ UNCHANGED session
    BY <1>0, <1>1, AnswersLemma, SessionFrame DEF ThreadInv
<1>2. CASE ~(Answers(q) /\ UNCHANGED session)
  <2>1. PICK pc \in {"ready", "creating"} :
          /\ \/ req' = [req EXCEPT ![q].pc = pc]
             \/ req' = [req EXCEPT ![q].pc = pc, ![q].thread = session[s].thread]
          /\ mutex' = [mutex EXCEPT ![s] = q]
          /\ pc = "ready" => UNCHANGED session
          /\ pc = "creating" => /\ session' = [session EXCEPT ![s].status = "provisioning"]
                                /\ s \in Live /\ session[s].thread = 0 /\ ~InDoubt(s)
      BY <1>2 DEF TakesLock, MovesTo
  <2>2. session[s].thread \in Nat
      BY <1>0 DEF SessionRows
  <2>3. /\ req'[q].pc = pc /\ req'[q].session = s
        /\ \A p \in Requests : p # q => req'[p] = req[p]
    <3>1. pc \in {"creating", "created", "ready", "talking", "completing", "inserting", "enqueuing"}
        OBVIOUS
    <3>2. /\ req[q].pc # "idle"
          /\ \/ req' = [req EXCEPT ![q].pc = pc]
             \/ req' = [req EXCEPT ![q].pc = pc, ![q].thread = session[s].thread]
        BY <1>0, <2>1
    <3>3. /\ req'[q].pc = pc /\ req'[q].session = req[q].session
          /\ \A p \in Requests : p # q => req'[p] = req[p]
        BY <2>2, <3>1, <3>2, MovesForms
    <3> QED BY <3>3
  <2>4. LockIsHeld'
    <3>1. \A p \in Requests : req[p].pc \in {"creating", "created", "ready", "talking"} =>
                req[p].session # s /\ req[p].session \in Sessions
        BY <1>0, ConversationAssumption DEF ThreadInv, LockIsHeld, RowTypes
    <3> QED BY <1>0, <2>1, <2>3, <3>1 DEF ThreadInv, LockIsHeld, RowTypes
  <2>5. CASE pc = "ready"
      BY <1>0, <2>1, <2>3, <2>4, <2>5, SessionFrame
  <2>6. CASE pc = "creating"
    <3>1. session[s].status = "unprovisioned" /\ session[s].row = "live"
        BY <1>0, <2>1, <2>6 DEF ThreadInv, ActiveHasThread, SessionRows, InDoubt, Live
    <3>2. /\ session'[s].status = "provisioning" /\ session'[s].row = "live"
          /\ \A o \in Sessions : o # s => session'[o] = session[o]
        BY <1>0, <2>1, <2>6, <3>1 DEF SessionRows
    <3>3. \A t \in DOMAIN threads : threads[t] # s /\ threads[t] \in Sessions
        BY <3>1, TableRows DEF ThreadInv, ThreadIsMarked, Marked
    <3>4. ActiveHasThread'
        BY <2>3, <2>6, <3>2 DEF ThreadInv, ActiveHasThread
    <3>5. ThreadIsMarked'
        BY <1>0, <3>2, <3>3 DEF ThreadInv, ThreadIsMarked, Marked
    <3>6. CreatingHasNone'
      <4>1. \A o \in Sessions : Marked(o) => Marked(o)'
          BY <3>2 DEF Marked
      <4>2. Marked(s)'
          BY <3>2 DEF Marked
      <4>3. \A p \in Requests : req[p].pc = "creating" => req[p].session \in Sessions
          BY DEF RowTypes
      <4> QED BY <1>0, <2>3, <3>3, <4>1, <4>2, <4>3 DEF ThreadInv, CreatingHasNone
    <3>7. ThreadsAreDistinct'
        BY <1>0 DEF ThreadInv, ThreadsAreDistinct
    <3> QED BY <2>4, <3>4, <3>5, <3>6, <3>7 DEF ThreadInv
  <2> QED BY <2>1, <2>5, <2>6
<1> QED BY <1>1, <1>2

\* A request that asks is alone with its session: what comes of it is the only
\* thread the session will ever have.
LEMMA ThreadStarts ==
    ASSUME RowTypes, ThreadInv, NEW q \in Requests, req[q].pc = "creating",
           threads' = threads \/ threads' = Append(threads, req[q].session),
           \A p \in Requests : p # q => req'[p] = req[p] \/ req'[p].pc = "idle",
           req'[q].pc # "creating", req'[q].pc = "created" => req'[q].thread # 0,
           \A s \in Sessions : Marked(s) => Marked(s)',
           \A s \in Sessions : session'[s].status = "active" => session'[s].thread # 0,
           LockIsHeld'
    PROVE  ThreadInv'
<1> PICK s : s = req[q].session
    OBVIOUS
<1>1. s \in Sessions /\ Marked(s) /\ \A t \in DOMAIN threads : threads[t] # s /\ threads[t] \in Sessions
    BY TableRows DEF RowTypes, ThreadInv, CreatingHasNone
<1>2. /\ \A t \in DOMAIN threads : t \in DOMAIN threads' /\ threads'[t] = threads[t]
      /\ \A t, u \in DOMAIN threads' \ DOMAIN threads : threads'[t] = s /\ t = u
  <2>1. /\ DOMAIN Append(threads, s) = DOMAIN threads \cup {Len(threads) + 1}
        /\ Append(threads, s)[Len(threads) + 1] = s
        /\ \A t \in DOMAIN threads : Append(threads, s)[t] = threads[t]
      BY <1>1, NewRow DEF RowTypes
  <2> QED BY <2>1
<1>3. \A p \in Requests : p # q /\ req[p].pc = "creating" =>
        req[p].session # s /\ req[p].session \in Sessions
    BY DEF ThreadInv, LockIsHeld, RowTypes
<1>4. ActiveHasThread'
    BY DEF ThreadInv, ActiveHasThread
<1>5. ThreadIsMarked'
    BY <1>1, <1>2 DEF ThreadInv, ThreadIsMarked
<1>6. CreatingHasNone'
    BY <1>1, <1>2, <1>3 DEF ThreadInv, CreatingHasNone
<1>7. ThreadsAreDistinct'
    BY <1>1, <1>2 DEF ThreadInv, ThreadsAreDistinct
<1> QED BY <1>4, <1>5, <1>6, <1>7 DEF ThreadInv

LEMMA RequestThreads == ASSUME RowTypes, ThreadInv, NEW q \in Requests, Request(q) PROVE ThreadInv'
<1> PICK s : s = req[q].session
    OBVIOUS
<1>0. req[q] \in RequestStates /\ (req[q].pc # "idle" => s \in Sessions)
    BY DEF RowTypes
<1>1. ASSUME Answers(q), UNCHANGED <<session, threads>> PROVE ThreadInv'
    BY <1>1, AnswersLemma, SessionFrame DEF ThreadInv
<1>2. ASSUME NEW pc \in {"ready", "talking", "inserting", "enqueuing"}, NEW n \in Nat,
             \/ req' = [req EXCEPT ![q].pc = pc]
             \/ req' = [req EXCEPT ![q].pc = pc, ![q].result = n],
             pc \in {"ready", "talking"} => req[q].pc \in {"created", "ready"},
             req[q].pc # "idle", UNCHANGED <<session, threads, mutex>>
      PROVE  ThreadInv'
  <2>1. /\ req'[q].pc = pc /\ req'[q].session = req[q].session
        /\ \A p \in Requests : p # q => req'[p] = req[p]
      BY <1>2, MovesForms
  <2>2. LockIsHeld'
      BY <1>2, <2>1, LockFrame DEF ThreadInv
  <2> QED BY <1>2, <2>1, <2>2, SessionFrame
<1>3. CASE StartThread(q)
  <2>1. Len(threads) + 1 \in Nat \ {0}
      BY <1>0, <1>3, NewRow DEF StartThread, RowTypes
  <2>2. /\ req'[q].pc = "created" /\ req'[q].session = req[q].session
        /\ req'[q].thread = Len(threads) + 1
        /\ \A p \in Requests : p # q => req'[p] = req[p]
      BY <1>3, <2>1, MovesForms DEF StartThread
  <2>3. LockIsHeld'
      BY <1>3, <2>2, LockFrame DEF ThreadInv, StartThread
  <2>4. UNCHANGED session
      BY <1>3 DEF StartThread, rows
  <2>5. \A o \in Sessions : Marked(o) => Marked(o)'
      BY <2>4 DEF Marked
  <2>6. \A o \in Sessions : session'[o].status = "active" => session'[o].thread # 0
      BY <2>4 DEF ThreadInv, ActiveHasThread
  <2> QED BY <1>3, <2>1, <2>2, <2>3, <2>5, <2>6, ThreadStarts DEF StartThread
<1>4. CASE LosesThread(q)
  <2>1. session \in [Sessions -> SessionRows] /\ s \in Sessions
      BY <1>0, <1>4 DEF LosesThread, RowTypes
  <2>2. session' = session \/ session' = [session EXCEPT ![s].status = "creation_unknown"]
      BY <1>4 DEF LosesThread
  <2>3. \A o \in Sessions : /\ session'[o].row = session[o].row
                            /\ \/ session'[o] = session[o]
                               \/ session'[o].status = "creation_unknown"
      BY <2>1, <2>2 DEF SessionRows
  <2>4. \A o \in Sessions : Marked(o) => Marked(o)'
      BY <2>3 DEF Marked
  <2>5. \A o \in Sessions : session'[o].status = "active" => session'[o].thread # 0
      BY <2>3 DEF ThreadInv, ActiveHasThread
  <2>6. LockIsHeld' /\ \A p \in Requests : req'[p].pc # "idle" => p # q /\ req'[p] = req[p]
      BY <1>4, AnswersLemma DEF LosesThread, ThreadInv
  <2> QED BY <1>4, <2>4, <2>5, <2>6, ThreadStarts DEF LosesThread
<1>5. CASE RecordThread(q)
  <2>1. CASE Answers(q) /\ UNCHANGED session
      BY <1>1, <1>5, <2>1 DEF RecordThread, codex
  <2>2. CASE ~(Answers(q) /\ UNCHANGED session)
    <3>1. /\ session' = [session EXCEPT ![s].status = "active", ![s].thread = req[q].thread]
          /\ s \in Live /\ MovesTo(q, "ready") /\ UNCHANGED <<mutex, threads>> /\ req[q].pc = "created"
        BY <1>5, <2>2 DEF RecordThread, codex
    <3>2. /\ session \in [Sessions -> SessionRows] /\ s \in Sessions
          /\ session[s] \in SessionRows /\ session[s].row = "live"
        BY <3>1 DEF Live, RowTypes
    <3>3. /\ session'[s].row = "live" /\ session'[s].status = "active"
          /\ session'[s].thread = req[q].thread
          /\ \A o \in Sessions : o # s => session'[o] = session[o]
        BY <3>1, <3>2 DEF SessionRows
    <3>4. req[q].thread # 0
        BY <3>1 DEF ThreadInv, ActiveHasThread
    <3>5. \A o \in Sessions : Marked(o) => Marked(o)'
        BY <3>3 DEF Marked
    <3>6. \A o \in Sessions : session'[o].status = "active" => session'[o].thread # 0
        BY <3>3, <3>4 DEF ThreadInv, ActiveHasThread
    <3>7. /\ req'[q].pc = "ready" /\ req'[q].session = req[q].session
          /\ \A p \in Requests : p # q => req'[p] = req[p]
        BY <3>1, MovesForms, 0 \in Nat DEF MovesTo
    <3>8. LockIsHeld'
        BY <3>1, <3>7, LockFrame DEF ThreadInv
    <3> QED BY <3>1, <3>5, <3>6, <3>7, <3>8, ThreadFrame
  <2> QED BY <2>1, <2>2
<1>6. CASE StartTurn(q) \/ ReadSession(q)
  <2>1. CASE Answers(q)
      BY <1>1, <1>6, <2>1 DEF StartTurn, ReadSession, rows, codex
  <2>2. CASE ~Answers(q)
    <3>1. \/ req' = [req EXCEPT ![q].pc = "talking"] 
          \/ req' = [req EXCEPT ![q].pc = "inserting"]
        BY <1>6, <2>2 DEF StartTurn, ReadSession, MovesTo
    <3>2. UNCHANGED <<session, threads, mutex>> /\ req[q].pc = "ready" /\ 0 \in Nat
        BY <1>6, <2>2 DEF StartTurn, ReadSession, rows, codex
    <3> QED BY <1>2, <3>1, <3>2
  <2> QED BY <2>1, <2>2
<1>7. ASSUME NEW reply, EndTurn(q, reply) PROVE ThreadInv'
  <2>1. turns + 1 \in Nat /\ UNCHANGED <<session, threads>> /\ req[q].pc = "talking"
      BY <1>7 DEF RowTypes, EndTurn, rows
  <2>2. CASE Answers(q)
      BY <1>1, <2>1, <2>2
  <2>3. CASE ~Answers(q)
    <3>1. /\ req' = [req EXCEPT ![q].pc = "completing", ![q].result = turns + 1]
          /\ mutex' = [mutex EXCEPT ![s] = 0]
        BY <1>7, <2>3 DEF EndTurn
    <3>2. /\ req'[q].pc = "completing" /\ \A p \in Requests : p # q => req'[p] = req[p]
        BY <2>1, <3>1, MovesForms
    <3>3. LockIsHeld'
        BY <2>1, <3>1, <3>2 DEF ThreadInv, LockIsHeld, RowTypes
    <3> QED BY <2>1, <3>2, <3>3, SessionFrame
  <2> QED BY <2>2, <2>3
<1>8. CASE InsertRun(q)
  <2>1. CASE Answers(q)
      BY <1>1, <1>8, <2>1 DEF InsertRun, codex
  <2>2. CASE ~Answers(q)
    <3>1. Len(runs) + 1 \in Nat
        BY LenProperties DEF RowTypes
    <3>2. /\ req' = [req EXCEPT ![q].pc = "enqueuing", ![q].result = Len(runs) + 1]
          /\ UNCHANGED <<session, threads, mutex>> /\ req[q].pc # "idle"
        BY <1>8, <2>2 DEF InsertRun, codex
    <3> QED BY <1>2, <3>1, <3>2
  <2> QED BY <2>1, <2>2
<1>9. CASE InsertSchedule(q) \/ CompletePlan(q) \/ EnqueueRun(q) \/ Fails(q)
    BY <1>1, <1>9 DEF InsertSchedule, CompletePlan, EnqueueRun, Fails, rows, codex
<1> QED BY <1>3, <1>4, <1>5, <1>6, <1>7, <1>8, <1>9 DEF Request

\* The process ends: what was asked for may have been started, and the row of
\* its session was marked before.
LEMMA CrashThreads == ASSUME RowTypes, ThreadInv, ProcessCrash PROVE ThreadInv'
<1> PICK started :
        /\ started \subseteq {req[q].session : q \in {p \in Requests : req[p].pc = "creating"}}
        /\ threads' = threads \o SetToSeq(started)
    BY DEF ProcessCrash
<1> DEFINE n == Len(threads)
           new == SetToSeq(started)
<1>1. /\ new \in Seq(Sessions)
      /\ \A i \in DOMAIN new : new[i] \in started
      /\ \A i, j \in DOMAIN new : new[i] = new[j] => i = j
    BY StartedLemma
<1> HIDE DEF new
<1>2. /\ n \in Nat /\ Len(new) \in Nat
      /\ DOMAIN threads = 1..n /\ DOMAIN new = 1..Len(new) /\ DOMAIN threads' = 1..(n + Len(new))
      /\ \A i \in 1..(n + Len(new)) : threads'[i] = IF i <= n THEN threads[i] ELSE new[i - n]
  <2>1. /\ threads' = threads \o new /\ threads \in Seq(Sessions)
      BY DEF new, RowTypes
  <2>2. /\ threads' \in Seq(Sessions) /\ Len(threads') = n + Len(new)
        /\ \A i \in 1..(n + Len(new)) : threads'[i] = IF i <= n THEN threads[i] ELSE new[i - n]
      BY <1>1, <2>1, ConcatProperties
  <2> QED BY <1>1, <2>1, <2>2, LenProperties
<1> HIDE DEF n
<1>3. \A s \in started : Marked(s) /\ \A t \in DOMAIN threads : threads[t] # s
    BY DEF ThreadInv, CreatingHasNone
<1>4. \A i \in DOMAIN threads' :
        \/ i \in DOMAIN threads /\ threads'[i] = threads[i]
        \/ i - n \in DOMAIN new /\ threads'[i] = new[i - n] /\ threads'[i] \in started
  <2> SUFFICES ASSUME NEW i \in DOMAIN threads', ~(i \in DOMAIN threads /\ threads'[i] = threads[i])
               PROVE  i - n \in DOMAIN new /\ threads'[i] = new[i - n] /\ threads'[i] \in started
      OBVIOUS
  <2>1. i \in 1..(n + Len(new)) /\ ~(i <= n)
      BY <1>2
  <2>2. i - n \in 1..Len(new)
      BY <1>2, <2>1
  <2> QED BY <1>1, <1>2, <2>1, <2>2
<1>5. UNCHANGED session /\ \A q \in Requests : req'[q].pc = "idle"
    BY DEF ProcessCrash, Idle
<1>6. ThreadIsMarked'
    BY <1>3, <1>4, <1>5 DEF ThreadInv, ThreadIsMarked, Marked
<1>7. ThreadsAreDistinct'
  <2> SUFFICES ASSUME NEW i \in DOMAIN threads', NEW j \in DOMAIN threads', threads'[i] = threads'[j]
               PROVE  i = j
      BY DEF ThreadsAreDistinct
  <2>1. CASE i \in DOMAIN threads /\ threads'[i] = threads[i]
      BY <1>3, <1>4, <2>1 DEF ThreadInv, ThreadsAreDistinct
  <2>2. CASE i - n \in DOMAIN new /\ threads'[i] = new[i - n] /\ threads'[i] \in started
    <3>1. j - n \in DOMAIN new /\ threads'[j] = new[j - n]
        BY <1>3, <1>4, <2>2
    <3>2. i - n = j - n
        BY <1>1, <2>2, <3>1
    <3> QED BY <1>2, <3>2
  <2> QED BY <1>4, <2>1, <2>2
<1>8. ActiveHasThread' /\ LockIsHeld' /\ CreatingHasNone'
    BY <1>5 DEF ThreadInv, ActiveHasThread, LockIsHeld, CreatingHasNone
<1> QED BY <1>6, <1>7, <1>8 DEF ThreadInv

LEMMA ThreadStep == RowTypes /\ ThreadInv /\ [ConversationNext]_conversationVars => ThreadInv'
<1> SUFFICES ASSUME RowTypes, ThreadInv, [ConversationNext]_conversationVars PROVE ThreadInv'
    OBVIOUS
<1>1. ASSUME UNCHANGED <<session, threads, req, mutex>> PROVE ThreadInv'
  <2>1. LockIsHeld'
      BY <1>1 DEF ThreadInv, LockIsHeld
  <2> QED BY <1>1, <2>1, SessionFrame
<1>2. ASSUME NEW r, FireSchedule \/ ReloadQueued \/ EndRun(r) \/ UNCHANGED conversationVars
      PROVE  ThreadInv'
    BY <1>1, <1>2 DEF FireSchedule, ReloadQueued, EndRun, conversationVars, rows, codex
<1> QED BY <1>2, UserThreads, TakesLockThreads, RequestThreads, CrashThreads DEF ConversationNext

-----------------------------------------------------------------------------
(* Plans. *)

\* Steps that touch no cycle, no report of a plan and no plan of a run.
LEMMA PlanFrame ==
    ASSUME PlanInv, UNCHANGED <<cycles, told>>,
           DOMAIN runs' = DOMAIN runs,
           \A r \in DOMAIN runs : runs'[r].cycle = runs[r].cycle /\ runs'[r].plan = runs[r].plan
    PROVE  PlanInv'
    BY DEF PlanInv, ToldIsComplete, RunHasItsPlan

\* Cycles end, and runs with them, with the plan they have.
LEMMA CyclesMoveOn ==
    ASSUME PlanInv, UNCHANGED told,
           DOMAIN cycles \subseteq DOMAIN cycles', DOMAIN runs' = DOMAIN runs,
           \A c \in DOMAIN cycles :
              /\ cycles'[c].plan = cycles[c].plan
              /\ \/ cycles'[c].status = cycles[c].status \/ cycles'[c].status = "gone"
                 \/ cycles[c].status \in {"active", "ready"} /\ cycles'[c].status = "superseded",
           \A r \in DOMAIN runs : runs'[r].cycle = runs[r].cycle /\ runs'[r].plan = runs[r].plan
    PROVE  PlanInv'
    BY DEF PlanInv, ToldIsComplete, RunHasItsPlan

LEMMA UserPlans == ASSUME RowTypes, PlanInv, User PROVE PlanInv'
<1>0. /\ \A c \in DOMAIN cycles : cycles[c] \in CycleRows
      /\ \A r \in DOMAIN runs : runs[r] \in RunRows
    BY TableRows
<1>1. ASSUME NEW s \in Sessions, BeginPlanCycle(s) PROVE PlanInv'
  <2> DEFINE old == [c \in DOMAIN cycles |->
                        IF c \in CyclesOf(s) /\ cycles[c].status \in {"active", "ready"}
                        THEN Superseded(c) ELSE cycles[c]]
             new == [session |-> s, status |-> "active", plan |-> 0, run |-> 0]
  <2>1. \A c \in DOMAIN cycles : /\ Superseded(c) \in CycleRows
                                 /\ Superseded(c).plan = cycles[c].plan
                                 /\ Superseded(c).status = "superseded"
      BY <1>0 DEF CycleRows, Superseded
  <2>2. /\ old \in [DOMAIN cycles -> CycleRows] /\ new \in CycleRows
        /\ \A c \in DOMAIN cycles :
              /\ old[c].plan = cycles[c].plan
              /\ \/ old[c].status = cycles[c].status
                 \/ cycles[c].status \in {"active", "ready"} /\ old[c].status = "superseded"
      BY <1>0, <2>1 DEF CycleRows
  <2>3. cycles' = Append(old, new) /\ UNCHANGED <<runs, told>>
      BY <1>1 DEF BeginPlanCycle
  <2> HIDE DEF old, new
  <2>4. old \in Seq(CycleRows) /\ DOMAIN old = DOMAIN cycles
      BY <2>2, SameTable DEF RowTypes
  <2>5. /\ DOMAIN cycles \subseteq DOMAIN cycles'
        /\ \A c \in DOMAIN cycles : cycles'[c] = old[c]
      BY <2>2, <2>3, <2>4, NewRow
  <2>6. \A c \in DOMAIN cycles :
          /\ cycles'[c].plan = cycles[c].plan
          /\ \/ cycles'[c].status = cycles[c].status \/ cycles'[c].status = "gone"
             \/ cycles[c].status \in {"active", "ready"} /\ cycles'[c].status = "superseded"
      BY <2>2, <2>5
  <2> QED BY <2>3, <2>5, <2>6, CyclesMoveOn
<1>2. CASE DeleteProject
  <2>1. /\ DOMAIN cycles' = DOMAIN cycles
        /\ \A c \in DOMAIN cycles :
              /\ cycles'[c].plan = cycles[c].plan
              /\ \/ cycles'[c].status = cycles[c].status \/ cycles'[c].status = "gone"
                 \/ cycles[c].status \in {"active", "ready"} /\ cycles'[c].status = "superseded"
      BY <1>0, <1>2 DEF DeleteProject, CycleRows
  <2>2. /\ DOMAIN runs' = DOMAIN runs
        /\ \A r \in DOMAIN runs : runs'[r].cycle = runs[r].cycle /\ runs'[r].plan = runs[r].plan
      BY <1>0, <1>2 DEF DeleteProject, RunRows
  <2>3. UNCHANGED told
      BY <1>2 DEF DeleteProject
  <2> QED BY <2>1, <2>2, <2>3, CyclesMoveOn
<1>3. ASSUME UNCHANGED <<cycles, runs, told>> PROVE PlanInv'
    BY <1>3, PlanFrame
<1>4. ASSUME NEW s, CreateSession(s) \/ DeleteSession(s) PROVE PlanInv'
    BY <1>3, <1>4 DEF CreateSession, DeleteSession
<1>5. CASE ToggleSchedule \/ DropSchedule
    BY <1>3, <1>5 DEF ToggleSchedule, DropSchedule
<1>6. ASSUME NEW q, NEW s, NEW c, ChatArrives(q, s, c) \/ RunArrives(q, s, c) \/ ScheduleArrives(q, s)
      PROVE  PlanInv'
    BY <1>3, <1>6 DEF ChatArrives, RunArrives, ScheduleArrives, Arrives, rows
<1>7. ASSUME NEW r \in DOMAIN runs, CancelRun(r) PROVE PlanInv'
  <2>1. /\ DOMAIN runs' = DOMAIN runs /\ UNCHANGED <<cycles, told>>
        /\ \A o \in DOMAIN runs : runs'[o].cycle = runs[o].cycle /\ runs'[o].plan = runs[o].plan
      BY <1>0, <1>7 DEF CancelRun, RunRows
  <2> QED BY <2>1, PlanFrame
<1>8. ASSUME NEW r, ResumeRun(r) PROVE PlanInv'
    BY <1>3, <1>8 DEF ResumeRun, rows
<1> QED BY <1>1, <1>2, <1>4, <1>5, <1>6, <1>7, <1>8 DEF User

\* A run is inserted for a plan that is ready, which none has, and consumes it.
LEMMA InsertRunPlans == ASSUME RowTypes, PlanInv, NEW q \in Requests, InsertRun(q) PROVE PlanInv'
<1> PICK s, c, r : s = req[q].session /\ c = req[q].cycle /\ r = Len(runs) + 1
    OBVIOUS
<1>0. /\ \A d \in DOMAIN cycles : cycles[d] \in CycleRows
      /\ \A o \in DOMAIN runs : runs[o] \in RunRows
    BY TableRows
<1>1. CASE UNCHANGED <<runs, cycles>>
    BY <1>1, PlanFrame DEF InsertRun
<1>2. CASE ~UNCHANGED <<runs, cycles>>
  <2> DEFINE new == NewRun(s, req[q].thread, c, IF c = 0 THEN 0 ELSE cycles[c].plan)
  <2>1. /\ runs' = Append(runs, new) /\ UNCHANGED told
        /\ c = 0 => UNCHANGED cycles
        /\ c # 0 => cycles' = ConsumedBy(c, r) /\ c \in DOMAIN cycles /\ cycles[c].status = "ready"
        /\ req[q].pc = "inserting"
      BY <1>2 DEF InsertRun, Runnable, CyclesOf
  <2>2. new \in RunRows /\ new.cycle = c /\ new.plan = (IF c = 0 THEN 0 ELSE cycles[c].plan)
    <3>1. c # 0 => cycles[c].plan \in Nat
        BY <1>0, <2>1 DEF CycleRows
    <3>2. c \in Nat /\ req[q].thread \in Nat /\ s \in Sessions
        BY <2>1 DEF RequestStates, RowTypes
    <3> QED BY <3>1, <3>2 DEF NewRun, RunRows, Unresolved
  <2> HIDE DEF new
  <2>3. /\ DOMAIN runs' = DOMAIN runs \cup {r} /\ r \notin DOMAIN runs /\ runs'[r] = new
        /\ \A o \in DOMAIN runs : runs'[o] = runs[o]
      BY <2>1, <2>2, NewRow DEF RowTypes
  <2>4. /\ DOMAIN cycles' = DOMAIN cycles
        /\ \A d \in DOMAIN cycles :
              /\ cycles'[d].plan = cycles[d].plan
              /\ d # c => cycles'[d].status = cycles[d].status
        /\ c # 0 => cycles'[c].status = "consumed"
    <3>1. CASE c = 0
        BY <2>1, <3>1
    <3>2. CASE c # 0
        BY <1>0, <2>1, <3>2 DEF ConsumedBy, CycleRows
    <3> QED BY <3>1, <3>2
  <2>5. c # 0 => \A o \in DOMAIN runs : runs[o].cycle # c
      BY <2>1 DEF PlanInv, RunHasItsPlan
  <2>6. ToldIsComplete'
      BY <2>1, <2>4 DEF PlanInv, ToldIsComplete
  <2>7. RunHasItsPlan'
    <3>1. \A o \in DOMAIN runs' : runs'[o].cycle # 0 =>
            /\ runs'[o].cycle \in DOMAIN cycles'
            /\ cycles'[runs'[o].cycle].plan = runs'[o].plan
            /\ cycles'[runs'[o].cycle].status \in {"consumed", "gone"}
        BY <2>1, <2>2, <2>3, <2>4, <2>5 DEF PlanInv, RunHasItsPlan
    <3>2. \A o, p \in DOMAIN runs' : runs'[o].cycle # 0 /\ runs'[o].cycle = runs'[p].cycle => o = p
        BY <2>2, <2>3, <2>5 DEF PlanInv, RunHasItsPlan
    <3> QED BY <3>1, <3>2 DEF RunHasItsPlan
  <2> QED BY <2>6, <2>7 DEF PlanInv
<1> QED BY <1>1, <1>2

\* A plan is completed while its cycle is active, before anyone is told of it.
LEMMA CompletePlanPlans ==
    ASSUME RowTypes, PlanInv, NEW q \in Requests, CompletePlan(q) PROVE PlanInv'
<1> PICK c, n : c = req[q].cycle /\ n = req[q].result
    OBVIOUS
<1>1. CASE UNCHANGED <<cycles, told>>
    BY <1>1, PlanFrame DEF CompletePlan
<1>2. CASE ~UNCHANGED <<cycles, told>>
  <2>1. /\ cycles' = [cycles EXCEPT ![c].status = "ready", ![c].plan = n]
        /\ told' = told \cup {<<c, n>>} /\ UNCHANGED runs
        /\ c \in DOMAIN cycles /\ cycles[c].status = "active"
      BY <1>2 DEF CompletePlan, IsActive, CyclesOf
  <2>2. \A d \in DOMAIN cycles : cycles[d] \in CycleRows
      BY TableRows
  <2>3. /\ DOMAIN cycles' = DOMAIN cycles
        /\ cycles'[c].status = "ready" /\ cycles'[c].plan = n
        /\ \A d \in DOMAIN cycles : d # c => cycles'[d] = cycles[d]
      BY <2>1, <2>2 DEF CycleRows
  <2>4. \A agreed \in told : agreed[1] # c
      BY <2>1 DEF PlanInv, ToldIsComplete
  <2>5. \A r \in DOMAIN runs : runs[r].cycle # 0 => runs[r].cycle # c
      BY <2>1 DEF PlanInv, RunHasItsPlan
  <2>6. ToldIsComplete'
      BY <2>1, <2>3, <2>4 DEF PlanInv, ToldIsComplete
  <2>7. RunHasItsPlan'
      BY <2>1, <2>3, <2>5 DEF PlanInv, RunHasItsPlan
  <2> QED BY <2>6, <2>7 DEF PlanInv
<1> QED BY <1>1, <1>2

LEMMA PlanStep == RowTypes /\ PlanInv /\ [ConversationNext]_conversationVars => PlanInv'
<1> SUFFICES ASSUME RowTypes, PlanInv, [ConversationNext]_conversationVars PROVE PlanInv'
    OBVIOUS
<1>0. \A r \in DOMAIN runs : runs[r] \in RunRows
    BY TableRows
<1>1. ASSUME UNCHANGED <<cycles, runs, told>> PROVE PlanInv'
    BY <1>1, PlanFrame
<1>2. ASSUME NEW q \in Requests, TakesLock(q) PROVE PlanInv'
    BY <1>1, <1>2 DEF TakesLock
<1>3. ASSUME NEW q \in Requests, Request(q) PROVE PlanInv'
  <2>1. ASSUME NEW reply, EndTurn(q, reply) PROVE PlanInv'
      BY <1>1, <2>1 DEF EndTurn, rows
  <2>2. CASE \/ InsertSchedule(q) \/ StartThread(q) \/ LosesThread(q) \/ RecordThread(q)
             \/ StartTurn(q) \/ ReadSession(q) \/ EnqueueRun(q) \/ Fails(q)
      BY <1>1, <2>2
      DEF InsertSchedule, StartThread, LosesThread, RecordThread, StartTurn, ReadSession, EnqueueRun,
          Fails, rows
  <2> QED BY <1>3, <2>1, <2>2, InsertRunPlans, CompletePlanPlans DEF Request
<1>4. CASE FireSchedule
  <2>1. CASE UNCHANGED runs
      BY <1>1, <1>4, <2>1 DEF FireSchedule
  <2>2. CASE ~UNCHANGED runs
    <3> DEFINE new == NewRun(schedule.session, schedule.thread, 0, 0)
    <3>1. runs' = Append(runs, new) /\ schedule.session \in Live
        BY <1>4, <2>2 DEF FireSchedule
    <3>2. new \in RunRows /\ new.cycle = 0
        BY <3>1 DEF Live, NewRun, RunRows, ScheduleRows, Unresolved, RowTypes
    <3> HIDE DEF new
    <3>3. \E r : /\ DOMAIN runs' = DOMAIN runs \cup {r} /\ runs'[r].cycle = 0
                 /\ \A o \in DOMAIN runs : runs'[o] = runs[o]
        BY <3>1, <3>2, NewRow DEF RowTypes
    <3>4. UNCHANGED <<cycles, told>>
        BY <1>4 DEF FireSchedule
    <3> QED BY <3>3, <3>4 DEF PlanInv, ToldIsComplete, RunHasItsPlan
  <2> QED BY <2>1, <2>2
<1>5. ASSUME NEW r, EndRun(r) PROVE PlanInv'
  <2>1. /\ DOMAIN runs' = DOMAIN runs /\ UNCHANGED <<cycles, told>>
        /\ \A o \in DOMAIN runs : runs'[o].cycle = runs[o].cycle /\ runs'[o].plan = runs[o].plan
      BY <1>0, <1>5 DEF EndRun, RunRows
  <2> QED BY <2>1, PlanFrame
<1>6. CASE ProcessCrash
  <2>1. /\ DOMAIN runs' = DOMAIN runs /\ UNCHANGED <<cycles, told>>
        /\ \A o \in DOMAIN runs : runs'[o].cycle = runs[o].cycle /\ runs'[o].plan = runs[o].plan
      BY <1>0, <1>6 DEF ProcessCrash, RunRows
  <2> QED BY <2>1, PlanFrame
<1>7. CASE ReloadQueued \/ UNCHANGED conversationVars
    BY <1>1, <1>7 DEF ReloadQueued, conversationVars, rows
<1> QED BY <1>2, <1>3, <1>4, <1>5, <1>6, <1>7, UserPlans DEF ConversationNext

-----------------------------------------------------------------------------
(* The theorems. *)

LEMMA ConversationInitial == ConversationInit => ConversationInv
<1> SUFFICES ASSUME ConversationInit PROVE ConversationInv
    OBVIOUS
<1> USE ConversationAssumption DEF ConversationInit
<1>1. NewSession \in SessionRows /\ AbsentSession \in SessionRows
    BY DEF NewSession, AbsentSession, SessionRows
<1>2. Idle \in RequestStates /\ NoSchedule \in ScheduleRows
    BY DEF Idle, RequestStates, NoSchedule, ScheduleRows, SessionIds
<1>3. /\ cycles \in Seq(CycleRows) /\ runs \in Seq(RunRows) /\ threads \in Seq(Sessions)
      /\ DOMAIN cycles = {} /\ DOMAIN runs = {} /\ DOMAIN threads = {}
  <2>1. \A S : <<>> \in Seq(S) /\ DOMAIN <<>> = {}
      BY EmptySeq
  <2> QED BY <2>1
<1>4. \A q \in Requests : req[q].pc = "idle"
    BY DEF Idle
<1>5. RowTypes
    BY <1>1, <1>2, <1>3, <1>4 DEF RowTypes
<1>6. \A s \in Sessions : session[s].status = "unprovisioned"
    BY DEF NewSession, AbsentSession
<1>7. ThreadInv
    BY <1>3, <1>4, <1>6
    DEF ThreadInv, LockIsHeld, ActiveHasThread, ThreadIsMarked, CreatingHasNone, ThreadsAreDistinct
<1>8. PlanInv
    BY <1>3 DEF PlanInv, ToldIsComplete, RunHasItsPlan
<1> QED BY <1>5, <1>7, <1>8 DEF ConversationInv

\* The invariant holds in every state.
THEOREM ConversationInvariant == ConversationSpec => []ConversationInv
<1>1. ConversationInv /\ [ConversationNext]_conversationVars => ConversationInv'
    BY TypeStep, ThreadStep, PlanStep DEF ConversationInv
<1> QED BY <1>1, ConversationInitial, PTL DEF ConversationSpec

\* The App Server is asked for the thread of a session once, whatever becomes of
\* the answer, of the request and of the process.
THEOREM ThreadIsStartedOnce == ConversationSpec => []ThreadStartedOnce
<1>1. ConversationInv => ThreadStartedOnce
  <2> SUFFICES ASSUME ConversationInv, NEW s \in Sessions
               PROVE  Cardinality({t \in DOMAIN threads : threads[t] = s}) <= 1
      BY DEF ThreadStartedOnce
  <2> DEFINE mine == {t \in DOMAIN threads : threads[t] = s}
  <2>1. CASE mine = {}
      BY <2>1, FS_EmptySet
  <2>2. ASSUME NEW t \in mine PROVE Cardinality(mine) <= 1
    <3>1. mine = {t}
        BY <2>2 DEF ConversationInv, ThreadInv, ThreadsAreDistinct
    <3>2. Cardinality({t}) = 1
        BY FS_Singleton
    <3> HIDE DEF mine
    <3> QED BY <3>1, <3>2
  <2> QED BY <2>1, <2>2
<1> QED BY <1>1, ConversationInvariant, PTL

\* The plan a caller was told is ready is the plan on record ever after, and the
\* one and only run of that cycle executes it.
THEOREM AgreedPlanRuns == ConversationSpec => []AgreedPlanIsWhatRuns
<1>1. ConversationInv => AgreedPlanIsWhatRuns
    BY DEF ConversationInv, PlanInv, ToldIsComplete, RunHasItsPlan, AgreedPlanIsWhatRuns
<1> QED BY <1>1, ConversationInvariant, PTL

\* A plan that a newer cycle of its session has replaced is never started.
THEOREM StalePlansNeverRun == ConversationSpec => OnlyTheLatestPlanRuns
<1> DEFINE latest == \A r \in DOMAIN runs' \ DOMAIN runs : runs'[r].cycle # 0 =>
                        \A d \in CyclesOf(runs'[r].session) : d <= runs'[r].cycle
<1>1. RowTypes /\ [ConversationNext]_conversationVars => latest
  <2> SUFFICES ASSUME RowTypes, [ConversationNext]_conversationVars PROVE latest
      OBVIOUS
  <2>1. ASSUME DOMAIN runs' = DOMAIN runs PROVE latest
      BY <2>1
  <2>2. CASE FireSchedule
    <3> DEFINE new == NewRun(schedule.session, schedule.thread, 0, 0)
    <3>1. CASE UNCHANGED runs
        BY <2>1, <3>1
    <3>2. CASE ~UNCHANGED runs
      <4>1. runs' = Append(runs, new) /\ schedule.session \in Live
          BY <2>2, <3>2 DEF FireSchedule
      <4>2. new \in RunRows /\ new.cycle = 0
          BY <4>1 DEF Live, NewRun, RunRows, ScheduleRows, Unresolved, RowTypes
      <4> HIDE DEF new
      <4>3. \A r \in DOMAIN runs' \ DOMAIN runs : runs'[r].cycle = 0
          BY <4>1, <4>2, NewRow DEF RowTypes
      <4> QED BY <4>3
    <3> QED BY <3>1, <3>2
  <2>3. ASSUME NEW q \in Requests, InsertRun(q) PROVE latest
    <3> DEFINE s == req[q].session
               c == req[q].cycle
               new == NewRun(s, req[q].thread, c, IF c = 0 THEN 0 ELSE cycles[c].plan)
    <3>1. CASE UNCHANGED runs
        BY <2>1, <3>1
    <3>2. CASE ~UNCHANGED runs
      <4>1. runs' = Append(runs, new) /\ (c # 0 => Runnable(s, c)) /\ req[q].pc = "inserting"
          BY <2>3, <3>2 DEF InsertRun
      <4>2. \A d \in DOMAIN cycles : cycles[d] \in CycleRows
          BY TableRows
      <4>3. c # 0 => cycles[c].plan \in Nat
          BY <4>1, <4>2 DEF Runnable, CyclesOf, CycleRows
      <4>4. c \in Nat /\ req[q].thread \in Nat /\ s \in Sessions
          BY <4>1 DEF RequestStates, RowTypes
      <4>5. new \in RunRows /\ new.cycle = c /\ new.session = s
          BY <4>3, <4>4 DEF NewRun, RunRows, Unresolved
      <4>6. c # 0 => \A d \in CyclesOf(s) : d <= c
          BY <4>1 DEF Runnable, IsLatest, CyclesOf
      <4> HIDE DEF new, c, s
      <4>7. \A r \in DOMAIN runs' \ DOMAIN runs : runs'[r] = new
          BY <4>1, <4>5, NewRow DEF RowTypes
      <4> QED BY <4>5, <4>6, <4>7
    <3> QED BY <3>1, <3>2
  <2>4. ASSUME NEW q \in Requests, TakesLock(q) \/ Request(q), ~InsertRun(q) PROVE UNCHANGED runs
      BY <2>4
      DEF TakesLock, Request, InsertSchedule, StartThread, LosesThread, RecordThread, StartTurn,
          EndTurn, CompletePlan, ReadSession, EnqueueRun, Fails, rows
  <2>5. CASE User \/ ProcessCrash
    <3>1. DOMAIN runs' = DOMAIN runs
        BY <2>5
        DEF User, CreateSession, DeleteSession, BeginPlanCycle, DeleteProject, ToggleSchedule,
            DropSchedule, ChatArrives, RunArrives, ScheduleArrives, Arrives, CancelRun, ResumeRun,
            ProcessCrash, rows
    <3> QED BY <2>1, <3>1
  <2>6. ASSUME NEW r, EndRun(r) \/ ReloadQueued \/ UNCHANGED conversationVars PROVE latest
    <3>1. DOMAIN runs' = DOMAIN runs
        BY <2>6 DEF EndRun, ReloadQueued, conversationVars, rows
    <3> QED BY <2>1, <3>1
  <2> HIDE DEF latest
  <2> QED BY <2>1, <2>2, <2>3, <2>4, <2>5, <2>6 DEF ConversationNext
<1>2. ConversationInv => RowTypes
    BY DEF ConversationInv
<1> QED BY <1>1, <1>2, ConversationInvariant, PTL DEF ConversationSpec, OnlyTheLatestPlanRuns

-----------------------------------------------------------------------------
(***************************************************************************)
(* The refinement rests on what each step of a start may find on the disk  *)
(* after a crash at any earlier one.  The heart of it is that a pointer    *)
(* that was swapped is never put back: while the journal names the         *)
(* candidate the pointer names (Swapped), its trees are installed, every   *)
(* other candidate can be read and its audit is one commitForwardActivation*)
(* accepts (JournalIsSound, PointerIsVerified), so that the start commits  *)
(* it forward.  A start that rolls back therefore restores the pointer to  *)
(* what it already is.                                                     *)
(***************************************************************************)

(* The invariant. *)

Journaled == journal # NoJournal

\* The activation under way has reached its pointer.
Swapped == Journaled /\ pointer = journal.candidate

FileTypes ==
    /\ audit \in [Candidates -> CandidateStatuses \cup {"none", "bare"}]
    /\ moved \subseteq Candidates
    /\ pointer \in Candidates \cup {None}
    /\ journal = NoJournal
       \/ journal \in [phase : Phases, candidate : Candidates, previous : Candidates \cup {None}]
    /\ proc \in [at : Steps, cand : Candidates \cup {None}, by : Callers]

MovedAreGone == \A c \in moved : audit[c] = "none"

PointerIsVerified ==
    pointer # None =>
        /\ Installed(pointer)
        /\ audit[pointer] = "active" \/ (Swapped /\ audit[pointer] = "pending")

JournalIsSound ==
    Journaled =>
        /\ journal.candidate # journal.previous
        /\ pointer \in {journal.candidate, journal.previous}
        /\ Swapped => Unreadable = {}
        /\ ~Swapped => audit[journal.candidate] \in {"pending", "quarantined", "none"}

OneIsActive == ~Swapped => WithStatus("active") \subseteq {pointer}

FilesInv == MovedAreGone /\ PointerIsVerified /\ JournalIsSound /\ OneIsActive

AuditsAreNormal ==
    /\ WithStatus("active") \subseteq {pointer}
    /\ pointer # None => audit[pointer] = "active"

\* The candidate whose file the step works on.
WorksOn(status) == proc.cand \in Candidates /\ audit[proc.cand] \in status

Quarantines == proc.at \in {"mark", "move"}

RollsBack == proc.by = "back"

\* The program is open, or staging in the background.
Serves == InService \/ (Quarantines /\ proc.by = "stage")

\* A start that works without a journal, or is past it.
WithoutJournal ==
    proc.at \in {"recover", "verify", "commit", "resolve"} \/ Serves
        \/ (Quarantines /\ ~RollsBack)
    => ~Journaled

WithJournal ==
    /\ proc.at \in {"back", "point", "swapped", "audits", "settled", "close"} => Journaled
    /\ proc.at \in {"back", "point"} => ~Swapped
    /\ proc.at \in {"swapped", "settled"} => Swapped
    /\ proc.at \in {"audits", "close"} => (RollsBack <=> ~Swapped)
    /\ proc.at \in {"settled", "close"} => AuditsAreNormal
    /\ At("audits") => pointer # None
    /\ Quarantines /\ RollsBack => Journaled /\ ~Swapped /\ proc.cand = journal.candidate

\* Who asked for the step.
CallerIsKept ==
    /\ proc.at \in {"open", "verify", "commit", "point", "swapped", "settled"} => ~RollsBack
    /\ Quarantines => proc.by # "open"

CandidateIsKept ==
    /\ proc.at \in {"verify", "commit"} => WorksOn({"pending"}) /\ Unreadable = {}
    /\ At("point") => /\ proc.cand = journal.candidate
                      /\ WorksOn({"pending"}) /\ Unreadable = {}
                      /\ Installed(proc.cand)
    /\ At("mark") => WorksOn({"downloading", "verifying", "pending"})
    /\ At("move") => WorksOn({"quarantined"})
    /\ At("create") => WorksOn({"bare"})
    /\ At("download") => WorksOn({"downloading"})
    /\ At("probe") => WorksOn({"verifying"})

ServesThePointer == Serves => serving = pointer

StepInv == WithoutJournal /\ WithJournal /\ CallerIsKept /\ CandidateIsKept /\ ServesThePointer

ActivationInv == FileTypes /\ FilesInv /\ StepInv

\* What was requested has left a trace that the check for updates finds.
FetchLeavesATrace ==
    /\ fetched \in [Candidates -> {0, 1}]
    /\ \A c \in Candidates : fetched[c] = 1 => c \in moved \/ audit[c] \notin {"none", "bare"}

-----------------------------------------------------------------------------
(* The least candidate, and the steps of the process. *)

\* The directory is read in the order of the numbers, and has a first entry.
LEMMA MinIsLeast ==
    ASSUME NEW S, S \subseteq Nat, S # {}
    PROVE  Min(S) \in S /\ \A y \in S : Min(S) <= y
<1>1. PICK R : /\ IsWellFoundedOn(R, Nat)
               /\ \A x, y \in Nat : y < x => <<y, x>> \in R
  <2>1. IsWellFoundedOn(OpToRel(<, Nat), Nat)
      BY NatLessThanWellFounded
  <2>2. \A x, y \in Nat : y < x => <<y, x>> \in OpToRel(<, Nat)
      BY DEF OpToRel
  <2> QED BY <2>1, <2>2
<1>2. PICK x \in S : \A y \in S : ~ (<<y, x>> \in R)
    BY <1>1, WFMin
<1>3. \A y \in S : ~ (y < x)
    BY <1>1, <1>2
<1>4. \A y \in S : x <= y
    BY <1>3
<1> QED BY <1>4 DEF Min

LEMMA LeastCandidate ==
    ASSUME NEW S, S \subseteq Candidates, S # {} PROVE Min(S) \in S
BY MinIsLeast, CandidatesAssumption

\* The step the process goes to, with its candidate and its caller.
LEMMA Goes ==
    ASSUME FileTypes, NEW step \in Steps, GoTo(step)
    PROVE  /\ proc' \in [at : Steps, cand : Candidates \cup {None}, by : Callers]
           /\ proc'.at = step /\ proc'.cand = proc.cand /\ proc'.by = proc.by
BY DEF FileTypes, GoTo

LEMMA Works ==
    ASSUME NEW step \in Steps, NEW c \in Candidates \cup {None}, NEW caller \in Callers,
           Work(step, c, caller)
    PROVE  /\ proc' \in [at : Steps, cand : Candidates \cup {None}, by : Callers]
           /\ proc'.at = step /\ proc'.cand = c /\ proc'.by = caller
BY DEF Work

\* A step that writes no file.
LEMMA NothingWritten ==
    ASSUME FileTypes, FilesInv, UNCHANGED disk,
           proc' \in [at : Steps, cand : Candidates \cup {None}, by : Callers]
    PROVE  /\ FileTypes' /\ FilesInv'
           /\ Journaled' = Journaled /\ Swapped' = Swapped /\ Unreadable' = Unreadable
           /\ AuditsAreNormal' = AuditsAreNormal
<1>1. UNCHANGED <<audit, moved, versions, pointer, journal>>
    BY DEF disk
<1>2. FileTypes'
    BY <1>1 DEF FileTypes
<1>3. /\ Journaled' = Journaled /\ Swapped' = Swapped /\ Unreadable' = Unreadable
      /\ WithStatus("active")' = WithStatus("active")
    BY <1>1 DEF Journaled, Swapped, Unreadable, WithStatus
<1>4. FilesInv'
    BY <1>1, <1>3
    DEF FilesInv, MovedAreGone, PointerIsVerified, JournalIsSound, OneIsActive, Installed
<1> QED BY <1>1, <1>2, <1>3, <1>4 DEF AuditsAreNormal

-----------------------------------------------------------------------------
(* The steps that write no file. *)

\* A process that is not running keeps nothing, and refuses nothing but the
\* start.
LEMMA EndStep ==
    ASSUME ActivationInv, UNCHANGED disk, GoTo("down") \/ GoTo("refused")
    PROVE  ActivationInv'
<1>1. /\ proc' \in [at : Steps, cand : Candidates \cup {None}, by : Callers]
      /\ proc'.at \in {"down", "refused"}
    BY Goes DEF ActivationInv, Steps
<1>2. FileTypes' /\ FilesInv'
    BY <1>1, NothingWritten DEF ActivationInv
<1>3. StepInv'
    BY <1>1 DEF StepInv, WithoutJournal, WithJournal, CallerIsKept, CandidateIsKept,
                ServesThePointer, Serves, InService, Quarantines, At
<1> QED BY <1>2, <1>3 DEF ActivationInv

LEMMA StartStep == ASSUME ActivationInv, Start PROVE ActivationInv'
<1>1. /\ proc' \in [at : Steps, cand : Candidates \cup {None}, by : Callers]
      /\ proc'.at = "open" /\ proc'.by = "open"
    BY Works DEF Start, Steps, Callers
<1>2. FileTypes' /\ FilesInv'
    BY <1>1, NothingWritten DEF ActivationInv, Start
<1>3. StepInv'
    BY <1>1 DEF StepInv, WithoutJournal, WithJournal, CallerIsKept, CandidateIsKept,
                ServesThePointer, Serves, InService, Quarantines, At, RollsBack
<1> QED BY <1>2, <1>3 DEF ActivationInv

\* The start commits forward exactly what was swapped.
LEMMA SwappedIsCommittedForward ==
    ASSUME FileTypes, FilesInv, Journaled
    PROVE  pointer = journal.candidate /\ CommitsForward(pointer) <=> Swapped
<1>1. journal.candidate \in Candidates
    BY DEF FileTypes, Journaled
<1>2. ASSUME Swapped PROVE CommitsForward(pointer)
  <2>1. pointer \in Candidates /\ pointer # None
      BY <1>1, <1>2, CandidatesAssumption DEF Swapped
  <2>2. \A k \in Components : versions[k] # None
      BY <2>1, ContentAssumption DEF FilesInv, PointerIsVerified, Installed
  <2> QED BY <2>1, <2>2 DEF CommitsForward, FilesInv, PointerIsVerified
<1> QED BY <1>2 DEF Swapped, Journaled

LEMMA ReconcileStep == ASSUME ActivationInv, Reconcile PROVE ActivationInv'
<1>1. UNCHANGED disk /\ proc.at = "open"
    BY DEF Reconcile, At
<1>2. PICK step \in {"recover", "swapped", "audits", "back"} :
          /\ GoTo(step)
          /\ step = "recover" => ~Journaled
          /\ step \in {"swapped", "audits"} => Journaled /\ Swapped
          /\ step = "back" => Journaled /\ ~Swapped
  <2>1. CASE journal = NoJournal
      BY <2>1 DEF Reconcile, Journaled
  <2>2. CASE journal # NoJournal
    <3>1. pointer = journal.candidate /\ CommitsForward(pointer) <=> Swapped
        BY <2>2, SwappedIsCommittedForward DEF ActivationInv, Journaled
    <3> QED BY <2>2, <3>1 DEF Reconcile, Journaled
  <2> QED BY <2>1, <2>2
<1>3. /\ proc' \in [at : Steps, cand : Candidates \cup {None}, by : Callers]
      /\ proc'.at = step /\ proc'.by = proc.by
    BY <1>2, Goes DEF ActivationInv, Steps
<1>4. /\ FileTypes' /\ FilesInv'
      /\ Journaled' = Journaled /\ Swapped' = Swapped
      /\ UNCHANGED pointer
    BY <1>1, <1>3, NothingWritten DEF ActivationInv, disk
<1>5. proc'.by # "back"
    BY <1>1, <1>3 DEF ActivationInv, StepInv, CallerIsKept, RollsBack
<1>6. step = "audits" => pointer # None
    BY <1>2, CandidatesAssumption DEF Swapped, Journaled, ActivationInv, FileTypes
<1>7. StepInv'
    BY <1>2, <1>3, <1>4, <1>5, <1>6
    DEF StepInv, WithoutJournal, WithJournal, CallerIsKept, CandidateIsKept,
        ServesThePointer, Serves, InService, Quarantines, At, RollsBack
<1> QED BY <1>4, <1>7 DEF ActivationInv

\* quarantineCandidate is called for a candidate that was never adopted, without
\* a journal.
LEMMA QuarantineStep ==
    ASSUME ActivationInv, UNCHANGED <<disk, serving>>, ~Journaled,
           NEW c \in Candidates, audit[c] \in {"downloading", "verifying", "pending"},
           NEW caller \in {"recover", "activate", "stage"}, QuarantineBy(c, caller),
           caller = "stage" => Serves
    PROVE  ActivationInv'
<1>1. /\ proc' \in [at : Steps, cand : Candidates \cup {None}, by : Callers]
      /\ proc'.at = "mark" /\ proc'.cand = c /\ proc'.by = caller
    BY Works DEF QuarantineBy, Steps, Callers
<1>2. FileTypes' /\ FilesInv' /\ Journaled' = Journaled
    BY <1>1, NothingWritten DEF ActivationInv
<1>3. UNCHANGED <<audit, pointer, serving>>
    BY DEF disk
<1>4. caller = "stage" => serving = pointer
    BY DEF ActivationInv, StepInv, ServesThePointer
<1>5. StepInv'
    BY <1>1, <1>2, <1>3, <1>4
    DEF StepInv, WithoutJournal, WithJournal, CallerIsKept, CandidateIsKept, WorksOn,
        ServesThePointer, Serves, InService, Quarantines, At, RollsBack
<1> QED BY <1>2, <1>5 DEF ActivationInv

LEMMA RecoverStep == ASSUME ActivationInv, RecoverInterrupted PROVE ActivationInv'
<1>1. Min(Interrupted) \in Interrupted
    BY LeastCandidate DEF RecoverInterrupted, Interrupted, WithStatus
<1>2. PICK c : c = Min(Interrupted)
    OBVIOUS
<1>3. c \in Candidates /\ audit[c] \in {"downloading", "verifying", "pending"}
    BY <1>1, <1>2 DEF Interrupted, WithStatus
<1>4. UNCHANGED <<disk, serving>> /\ QuarantineBy(c, "recover")
    BY <1>2 DEF RecoverInterrupted
<1>5. ~Journaled
    BY DEF RecoverInterrupted, At, ActivationInv, StepInv, WithoutJournal
<1> QED BY <1>3, <1>4, <1>5, QuarantineStep

\* The one pending candidate is taken on when every other can be read.
LEMMA ChooseStep == ASSUME ActivationInv, ChoosePending PROVE ActivationInv'
<1>1. UNCHANGED disk /\ proc.at = "recover" /\ ~Journaled
    BY DEF ChoosePending, At, ActivationInv, StepInv, WithoutJournal
<1>2. CASE GoTo("refused")
    BY <1>1, <1>2, EndStep
<1>3. CASE GoTo("resolve")
  <2>1. /\ proc' \in [at : Steps, cand : Candidates \cup {None}, by : Callers]
        /\ proc'.at = "resolve"
      BY <1>3, Goes DEF ActivationInv, Steps
  <2>2. FileTypes' /\ FilesInv' /\ Journaled' = Journaled
      BY <1>1, <2>1, NothingWritten DEF ActivationInv
  <2>3. StepInv'
      BY <1>1, <2>1, <2>2
      DEF StepInv, WithoutJournal, WithJournal, CallerIsKept, CandidateIsKept,
          ServesThePointer, Serves, InService, Quarantines, At
  <2> QED BY <2>2, <2>3 DEF ActivationInv
<1>4. CASE Unreadable = {} /\ Pending # {} /\ Work("verify", Min(Pending), "activate")
  <2>1. Min(Pending) \in Pending
      BY <1>4, LeastCandidate DEF Pending, WithStatus
  <2>2. PICK c : c = Min(Pending)
      OBVIOUS
  <2>3. c \in Candidates /\ audit[c] = "pending"
      BY <2>1, <2>2 DEF Pending, WithStatus
  <2>4. /\ proc' \in [at : Steps, cand : Candidates \cup {None}, by : Callers]
        /\ proc'.at = "verify" /\ proc'.cand = c /\ proc'.by = "activate"
      BY <1>4, <2>2, <2>3, Works DEF Steps, Callers
  <2>5. /\ FileTypes' /\ FilesInv' /\ Journaled' = Journaled
        /\ Unreadable' = Unreadable /\ UNCHANGED audit
      BY <1>1, <2>4, NothingWritten DEF ActivationInv, disk
  <2>6. StepInv'
      BY <1>1, <1>4, <2>3, <2>4, <2>5
      DEF StepInv, WithoutJournal, WithJournal, CallerIsKept, CandidateIsKept, WorksOn,
          ServesThePointer, Serves, InService, Quarantines, At, RollsBack
  <2> QED BY <2>5, <2>6 DEF ActivationInv
<1> QED BY <1>2, <1>3, <1>4 DEF ChoosePending

LEMMA VerifyStep == ASSUME ActivationInv, VerifyPending PROVE ActivationInv'
<1>1. /\ UNCHANGED <<disk, serving>> /\ proc.at = "verify" /\ proc.by # "back"
      /\ ~Journaled /\ proc.cand \in Candidates /\ audit[proc.cand] = "pending"
      /\ Unreadable = {}
    BY DEF VerifyPending, At, ActivationInv, StepInv, WithoutJournal, CandidateIsKept, WorksOn,
           CallerIsKept, RollsBack
<1>2. CASE QuarantineBy(proc.cand, "activate")
  <2>1. PICK c : c = proc.cand
      OBVIOUS
  <2> QED BY <1>1, <1>2, <2>1, QuarantineStep
<1>3. CASE GoTo("commit")
  <2>1. /\ proc' \in [at : Steps, cand : Candidates \cup {None}, by : Callers]
        /\ proc'.at = "commit" /\ proc'.cand = proc.cand /\ proc'.by = proc.by
      BY <1>3, Goes DEF ActivationInv, Steps
  <2>2. /\ FileTypes' /\ FilesInv' /\ Journaled' = Journaled
        /\ Unreadable' = Unreadable /\ UNCHANGED audit
      BY <1>1, <2>1, NothingWritten DEF ActivationInv, disk
  <2>3. StepInv'
      BY <1>1, <2>1, <2>2
      DEF StepInv, WithoutJournal, WithJournal, CallerIsKept, CandidateIsKept, WorksOn,
          ServesThePointer, Serves, InService, Quarantines, At, RollsBack
  <2> QED BY <2>2, <2>3 DEF ActivationInv
<1> QED BY <1>2, <1>3 DEF VerifyPending

\* A pass over the audits of a swapped candidate finds nothing that stops it.
LEMMA SwappedAuditsPass ==
    ASSUME FileTypes, FilesInv, Swapped, ~RollsBack PROVE Broken = {}
<1>1. AuditTarget = pointer /\ pointer # None
    BY CandidatesAssumption DEF Swapped, Journaled, AuditTarget, RollsBack, FileTypes
<1>2. audit[pointer] \in {"active", "pending"} /\ Unreadable = {}
    BY <1>1 DEF FilesInv, PointerIsVerified, JournalIsSound, Swapped
<1> QED BY <1>1, <1>2 DEF Broken

LEMMA AuditsFailStep == ASSUME ActivationInv, AuditsFail PROVE ActivationInv'
<1>1. UNCHANGED disk /\ Broken # {} /\ At("audits")
    BY DEF AuditsFail
<1>2. RollsBack
    BY <1>1, SwappedAuditsPass DEF ActivationInv, StepInv, WithJournal, At
<1>3. GoTo("refused")
    BY <1>2 DEF AuditsFail, RollsBack
<1> QED BY <1>1, <1>3, EndStep

\* When the pass is done, the pointer's candidate is the active one.
LEMMA AuditsDoneStep == ASSUME ActivationInv, AuditsDone PROVE ActivationInv'
<1>1. /\ UNCHANGED disk /\ proc.at = "audits" /\ Stale \cup Broken = {}
      /\ Journaled /\ (RollsBack <=> ~Swapped) /\ pointer # None
    BY DEF AuditsDone, At, ActivationInv, StepInv, WithJournal
<1>2. AuditTarget = pointer
    BY <1>1 DEF AuditTarget, RollsBack, Swapped, ActivationInv, FilesInv, JournalIsSound
<1>3. pointer \in Candidates /\ pointer \notin Unreadable /\ audit[pointer] # "none"
  <2>1. pointer \in Candidates
      BY <1>1 DEF ActivationInv, FileTypes
  <2>2. Unreadable = {} /\ audit[AuditTarget] # "none"
      BY <1>1 DEF Broken
  <2> QED BY <1>2, <2>1, <2>2
<1>4. audit[pointer] = "active"
    BY <1>1, <1>2, <1>3 DEF Stale, DesiredAudit
<1>5. WithStatus("active") \subseteq {pointer}
  <2> SUFFICES ASSUME NEW c \in Candidates, audit[c] = "active", c # pointer PROVE FALSE
      BY DEF WithStatus
  <2>1. c \notin Unreadable
      BY DEF Unreadable, WithStatus
  <2>2. DesiredAudit(c) = "superseded"
      BY <1>2 DEF DesiredAudit
  <2> QED BY <1>1, <2>1, <2>2 DEF Stale
<1>6. PICK step \in {"close", "settled"} : GoTo(step) /\ (step = "settled" => ~RollsBack)
    BY DEF AuditsDone, RollsBack
<1>7. /\ proc' \in [at : Steps, cand : Candidates \cup {None}, by : Callers]
      /\ proc'.at = step /\ proc'.by = proc.by
    BY <1>6, Goes DEF ActivationInv, Steps
<1>8. /\ FileTypes' /\ FilesInv'
      /\ Journaled' = Journaled /\ Swapped' = Swapped /\ AuditsAreNormal' = AuditsAreNormal
    BY <1>1, <1>7, NothingWritten DEF ActivationInv
<1>9. StepInv'
    BY <1>1, <1>4, <1>5, <1>6, <1>7, <1>8
    DEF StepInv, WithoutJournal, WithJournal, CallerIsKept, CandidateIsKept, AuditsAreNormal,
        ServesThePointer, Serves, InService, Quarantines, At, RollsBack
<1> QED BY <1>8, <1>9 DEF ActivationInv

LEMMA ResolveStep == ASSUME ActivationInv, ResolveRuntime PROVE ActivationInv'
<1>1. /\ UNCHANGED disk /\ ~Journaled /\ serving' = pointer
    BY DEF ResolveRuntime, At, ActivationInv, StepInv, WithoutJournal
<1>2. /\ proc' \in [at : Steps, cand : Candidates \cup {None}, by : Callers]
      /\ proc'.at = "up"
    BY Works DEF ResolveRuntime, Steps, Callers
<1>3. FileTypes' /\ FilesInv' /\ Journaled' = Journaled /\ UNCHANGED pointer
    BY <1>1, <1>2, NothingWritten DEF ActivationInv, disk
<1>4. StepInv'
    BY <1>1, <1>2, <1>3
    DEF StepInv, WithoutJournal, WithJournal, CallerIsKept, CandidateIsKept,
        ServesThePointer, Serves, InService, Quarantines, At
<1> QED BY <1>3, <1>4 DEF ActivationInv

LEMMA StageFailsStep == ASSUME ActivationInv, StageFails PROVE ActivationInv'
<1>1. /\ UNCHANGED <<disk, serving>> /\ ~Journaled /\ Serves /\ QuarantineBy(proc.cand, "stage")
      /\ proc.cand \in Candidates /\ audit[proc.cand] \in {"downloading", "verifying"}
    BY DEF StageFails, At, ActivationInv, StepInv, WithoutJournal, CandidateIsKept, WorksOn,
           Serves, InService
<1>2. PICK c : c = proc.cand
    OBVIOUS
<1> QED BY <1>1, <1>2, QuarantineStep

-----------------------------------------------------------------------------
(* The rollback and the quarantine. *)

\* What follows a rejected candidate: the audits of the previous one, if any.
LEMMA AfterRejectionKeeps ==
    ASSUME FileTypes', FilesInv', Journaled', ~Swapped',
           proc'.at = IF journal'.previous = None THEN "close" ELSE "audits", proc'.by = "back"
    PROVE  StepInv'
<1>1. pointer' = journal'.previous /\ WithStatus("active")' \subseteq {pointer'}
    BY DEF FilesInv, JournalIsSound, OneIsActive, Swapped, Journaled
<1>2. At("close")' => AuditsAreNormal'
    BY <1>1 DEF AuditsAreNormal, At
<1>3. At("audits")' => pointer' # None
    BY <1>1 DEF At
<1> QED BY <1>2, <1>3
    DEF StepInv, WithoutJournal, WithJournal, CallerIsKept, CandidateIsKept,
        ServesThePointer, Serves, InService, Quarantines, At, RollsBack

\* A rollback leaves the pointer where it is.
LEMMA RollBackStep == ASSUME ActivationInv, RollBack PROVE ActivationInv'
<1>1. proc.at = "back" /\ Journaled /\ ~Swapped
    BY DEF RollBack, At, ActivationInv, StepInv, WithJournal
<1>2. pointer' = journal.previous /\ pointer = journal.previous
    BY <1>1 DEF RollBack, ActivationInv, FilesInv, JournalIsSound, Swapped
<1>3. UNCHANGED disk
    BY <1>2 DEF RollBack, disk
<1>4. PICK c \in Candidates : c = journal.candidate
    BY <1>1 DEF ActivationInv, FileTypes, Journaled
<1>5. CASE c \notin Unreadable /\ audit[c] # "none" /\ QuarantineBy(c, "back")
  <2>1. /\ proc' \in [at : Steps, cand : Candidates \cup {None}, by : Callers]
        /\ proc'.at = "mark" /\ proc'.cand = c /\ proc'.by = "back"
      BY <1>5, Works DEF QuarantineBy, Steps, Callers
  <2>2. /\ FileTypes' /\ FilesInv' /\ Journaled' = Journaled /\ Swapped' = Swapped
        /\ UNCHANGED <<audit, journal>>
      BY <1>3, <2>1, NothingWritten DEF ActivationInv, disk
  <2>3. audit[c] = "pending"
      BY <1>1, <1>4, <1>5 DEF ActivationInv, FilesInv, JournalIsSound, Unreadable, WithStatus
  <2>4. StepInv'
      BY <1>1, <1>4, <2>1, <2>2, <2>3
      DEF StepInv, WithoutJournal, WithJournal, CallerIsKept, CandidateIsKept, WorksOn,
          ServesThePointer, Serves, InService, Quarantines, At, RollsBack
  <2> QED BY <2>2, <2>4 DEF ActivationInv
<1>6. CASE Work("refused", None, "back")
  <2>1. /\ proc' \in [at : Steps, cand : Candidates \cup {None}, by : Callers]
        /\ proc'.at = "refused"
      BY <1>6, Works DEF Steps, Callers
  <2>2. FileTypes' /\ FilesInv'
      BY <1>3, <2>1, NothingWritten DEF ActivationInv
  <2>3. StepInv'
      BY <2>1 DEF StepInv, WithoutJournal, WithJournal, CallerIsKept, CandidateIsKept,
                  ServesThePointer, Serves, InService, Quarantines, At
  <2> QED BY <2>2, <2>3 DEF ActivationInv
<1>7. CASE Work(AfterRejection, None, "back")
  <2>1. AfterRejection \in {"close", "audits"}
      BY DEF AfterRejection
  <2>2. /\ proc' \in [at : Steps, cand : Candidates \cup {None}, by : Callers]
        /\ proc'.at = AfterRejection /\ proc'.by = "back"
      BY <1>7, <2>1, Works DEF Steps, Callers
  <2>3. /\ FileTypes' /\ FilesInv' /\ Journaled' = Journaled /\ Swapped' = Swapped
        /\ UNCHANGED journal
      BY <1>3, <2>2, NothingWritten DEF ActivationInv, disk
  <2>4. StepInv'
      BY <1>1, <2>2, <2>3, AfterRejectionKeeps DEF AfterRejection
  <2> QED BY <2>3, <2>4 DEF ActivationInv
<1> QED BY <1>4, <1>5, <1>6, <1>7 DEF RollBack

\* A write to the file of a candidate that is neither active nor the one the
\* pointer was just swapped to.
LEMMA AuditWritten ==
    ASSUME FileTypes, FilesInv, ~Swapped, NEW c \in Candidates, audit[c] # "active",
           NEW status \in (CandidateStatuses \cup {"none", "bare"}) \ {"active"},
           audit' = [audit EXCEPT ![c] = status],
           moved' = moved \/ moved' = moved \cup {c},
           c \in moved' => status = "none",
           Journaled /\ c = journal.candidate => status \in {"pending", "quarantined", "none"},
           UNCHANGED <<versions, pointer, journal>>,
           proc' \in [at : Steps, cand : Candidates \cup {None}, by : Callers]
    PROVE  /\ FileTypes' /\ FilesInv' /\ Journaled' = Journaled /\ ~Swapped'
           /\ audit'[c] = status /\ \A d \in Candidates \ {c} : audit'[d] = audit[d]
           /\ c # pointer
<1>1. audit'[c] = status /\ \A d \in Candidates \ {c} : audit'[d] = audit[d]
    BY DEF FileTypes
<1>2. c # pointer
    BY CandidatesAssumption DEF FilesInv, PointerIsVerified
<1>3. Journaled' = Journaled /\ Swapped' = Swapped
    BY DEF Journaled, Swapped
<1>4. FileTypes'
  <2>1. audit' \in [Candidates -> CandidateStatuses \cup {"none", "bare"}]
      BY DEF FileTypes
  <2> QED BY <2>1 DEF FileTypes
<1>5. MovedAreGone'
    BY <1>1 DEF FilesInv, MovedAreGone, FileTypes
<1>6. PointerIsVerified'
    BY <1>1, <1>2, <1>3 DEF FilesInv, PointerIsVerified, Installed, FileTypes
<1>7. JournalIsSound'
  <2> SUFFICES ASSUME Journaled
               PROVE  audit'[journal.candidate] \in {"pending", "quarantined", "none"}
      BY <1>3 DEF JournalIsSound, FilesInv
  <2>1. journal.candidate \in Candidates
      BY DEF FileTypes, Journaled
  <2> QED BY <1>1, <2>1 DEF FilesInv, JournalIsSound
<1>8. OneIsActive'
    BY <1>1, <1>3 DEF FilesInv, OneIsActive, WithStatus
<1> QED BY <1>1, <1>2, <1>3, <1>4, <1>5, <1>6, <1>7, <1>8 DEF FilesInv

\* The candidate that is quarantined: its file, its caller and the journal.
LEMMA QuarantineIsSafe ==
    ASSUME ActivationInv, Quarantines
    PROVE  /\ ~Swapped /\ proc.cand \in Candidates /\ proc.by # "open"
           /\ RollsBack => Journaled /\ proc.cand = journal.candidate
           /\ ~RollsBack => ~Journaled
           /\ proc.by = "stage" => serving = pointer
           /\ At("mark") => audit[proc.cand] \in {"downloading", "verifying", "pending"}
           /\ At("move") => audit[proc.cand] = "quarantined"
BY DEF ActivationInv, StepInv, WithoutJournal, WithJournal, CallerIsKept, CandidateIsKept,
       WorksOn, ServesThePointer, Serves, Quarantines, At, Swapped

LEMMA MarkStep == ASSUME ActivationInv, MarkQuarantined PROVE ActivationInv'
<1>1. proc.at = "mark" /\ Quarantines
    BY DEF MarkQuarantined, At, Quarantines
<1>2. PICK c \in Candidates : c = proc.cand
    BY <1>1, QuarantineIsSafe
<1>3. audit[c] \in {"downloading", "verifying", "pending"}
    BY <1>1, <1>2, QuarantineIsSafe DEF At
<1>4. /\ proc' \in [at : Steps, cand : Candidates \cup {None}, by : Callers]
      /\ proc'.at = "move" /\ proc'.cand = c /\ proc'.by = proc.by
    BY <1>2, Goes DEF MarkQuarantined, ActivationInv, Steps
<1>5. c \notin moved /\ UNCHANGED <<moved, versions, pointer, journal, serving>>
    BY <1>3 DEF MarkQuarantined, ActivationInv, FilesInv, MovedAreGone
<1>6. /\ FileTypes' /\ FilesInv' /\ Journaled' = Journaled /\ ~Swapped'
      /\ audit'[c] = "quarantined"
  <2>1. audit' = [audit EXCEPT ![c] = "quarantined"]
      BY <1>2 DEF MarkQuarantined
  <2>2. ~Swapped
      BY <1>1, QuarantineIsSafe
  <2> QED BY <1>3, <1>4, <1>5, <2>1, <2>2, AuditWritten DEF ActivationInv, CandidateStatuses
<1>7. StepInv'
    BY <1>1, <1>2, <1>4, <1>5, <1>6, QuarantineIsSafe
    DEF StepInv, WithoutJournal, WithJournal, CallerIsKept, CandidateIsKept, WorksOn,
        ServesThePointer, Serves, InService, Quarantines, At, RollsBack
<1> QED BY <1>6, <1>7 DEF ActivationInv

LEMMA MoveStep == ASSUME ActivationInv, MoveToQuarantine PROVE ActivationInv'
<1>1. proc.at = "move" /\ Quarantines
    BY DEF MoveToQuarantine, At, Quarantines
<1>2. PICK c \in Candidates : c = proc.cand
    BY <1>1, QuarantineIsSafe
<1>3. audit[c] = "quarantined"
    BY <1>1, <1>2, QuarantineIsSafe DEF At
<1>4. PICK step \in Steps : GoTo(step) /\ step = CASE proc.by = "back" -> AfterRejection
                                                    [] proc.by = "recover" -> "recover"
                                                    [] proc.by = "activate" -> "refused"
                                                    [] proc.by = "stage" -> "up"
  <2>1. proc.by \in {"back", "recover", "activate", "stage"}
      BY <1>1, QuarantineIsSafe DEF ActivationInv, FileTypes, Callers
  <2> QED BY <2>1 DEF MoveToQuarantine, Steps, AfterRejection
<1>5. /\ proc' \in [at : Steps, cand : Candidates \cup {None}, by : Callers]
      /\ proc'.at = step /\ proc'.by = proc.by
    BY <1>4, Goes DEF ActivationInv
<1>6. UNCHANGED <<versions, pointer, journal, serving>>
    BY DEF MoveToQuarantine
<1>7. FileTypes' /\ FilesInv' /\ Journaled' = Journaled /\ ~Swapped'
  <2>1. audit' = [audit EXCEPT ![c] = "none"] /\ moved' = moved \cup {c}
      BY <1>2 DEF MoveToQuarantine
  <2>2. ~Swapped
      BY <1>1, QuarantineIsSafe
  <2> QED BY <1>3, <1>5, <1>6, <2>1, <2>2, AuditWritten DEF ActivationInv
<1>8. CASE RollsBack
  <2>1. proc'.by = "back" /\ proc'.at = AfterRejection /\ Journaled'
      BY <1>1, <1>4, <1>5, <1>7, <1>8, QuarantineIsSafe DEF RollsBack
  <2>2. StepInv'
      BY <1>6, <1>7, <2>1, AfterRejectionKeeps DEF AfterRejection
  <2> QED BY <1>7, <2>2 DEF ActivationInv
<1>9. CASE ~RollsBack
  <2>1. ~Journaled' /\ proc'.at \in {"recover", "refused", "up"}
      BY <1>1, <1>4, <1>5, <1>7, <1>9, QuarantineIsSafe
      DEF RollsBack, ActivationInv, FileTypes, Callers
  <2>2. proc'.at = "up" => serving' = pointer'
      BY <1>1, <1>4, <1>5, <1>6, <1>9, QuarantineIsSafe
      DEF RollsBack, ActivationInv, FileTypes, Callers
  <2>3. StepInv'
      BY <2>1, <2>2
      DEF StepInv, WithoutJournal, WithJournal, CallerIsKept, CandidateIsKept,
          ServesThePointer, Serves, InService, Quarantines, At
  <2> QED BY <1>7, <2>3 DEF ActivationInv
<1> QED BY <1>8, <1>9

-----------------------------------------------------------------------------
(* The activation. *)

\* A version directory is only written while it is empty, and so never under
\* the pointer.
LEMMA CommitVersionStep ==
    ASSUME ActivationInv, NEW k \in Components, CommitVersion(k) PROVE ActivationInv'
<1>1. /\ proc.at = "commit" /\ ~Journaled /\ proc.by # "back"
      /\ proc.cand \in Candidates /\ audit[proc.cand] = "pending" /\ Unreadable = {}
    BY DEF CommitVersion, At, ActivationInv, StepInv, WithoutJournal, CandidateIsKept, WorksOn,
           CallerIsKept, RollsBack
<1>2. UNCHANGED <<audit, moved, pointer, journal, serving>>
    BY DEF CommitVersion
<1>3. CASE UNCHANGED versions /\ QuarantineBy(proc.cand, "activate")
  <2>1. PICK c : c = proc.cand
      OBVIOUS
  <2> QED BY <1>1, <1>2, <1>3, <2>1, QuarantineStep DEF disk
<1>4. CASE versions[k] = None /\ UNCHANGED proc
  <2>1. pointer = None
    <3> SUFFICES ASSUME pointer # None PROVE FALSE
        OBVIOUS
    <3>1. pointer \in Candidates /\ versions[k] = Content[pointer][k]
        BY DEF ActivationInv, FileTypes, FilesInv, PointerIsVerified, Installed
    <3> QED BY <1>4, <3>1, ContentAssumption
  <2>2. FileTypes'
      BY <1>2, <1>4 DEF ActivationInv, FileTypes
  <2>3. Journaled' = Journaled /\ Swapped' = Swapped /\ Unreadable' = Unreadable
      BY <1>2 DEF Journaled, Swapped, Unreadable, WithStatus
  <2>4. FilesInv'
      BY <1>2, <2>1, <2>3
      DEF ActivationInv, FilesInv, MovedAreGone, PointerIsVerified, JournalIsSound, OneIsActive,
          WithStatus
  <2>5. StepInv'
      BY <1>1, <1>2, <1>4, <2>3
      DEF StepInv, WithoutJournal, WithJournal, CallerIsKept, CandidateIsKept, WorksOn,
          ServesThePointer, Serves, InService, Quarantines, At, RollsBack
  <2> QED BY <2>2, <2>4, <2>5 DEF ActivationInv
<1> QED BY <1>3, <1>4 DEF CommitVersion

LEMMA BeginStep == ASSUME ActivationInv, BeginActivation PROVE ActivationInv'
<1>1. /\ proc.at = "commit" /\ ~Journaled /\ proc.by # "back"
      /\ proc.cand \in Candidates /\ audit[proc.cand] = "pending" /\ Unreadable = {}
    BY DEF BeginActivation, At, ActivationInv, StepInv, WithoutJournal, CandidateIsKept, WorksOn,
           CallerIsKept, RollsBack
<1>2. UNCHANGED <<audit, moved, versions, pointer, serving>>
    BY DEF BeginActivation
<1>3. /\ proc' \in [at : Steps, cand : Candidates \cup {None}, by : Callers]
      /\ proc'.at = "point" /\ proc'.cand = proc.cand /\ proc'.by = proc.by
    BY Goes DEF BeginActivation, ActivationInv, Steps
<1>4. /\ journal' \in [phase : Phases, candidate : Candidates, previous : Candidates \cup {None}]
      /\ journal'.candidate = proc.cand /\ journal'.previous = pointer
      /\ journal'.phase = "activating"
    BY <1>1 DEF BeginActivation, Phases, ActivationInv, FileTypes
<1>5. proc.cand # pointer
    BY <1>1, CandidatesAssumption DEF ActivationInv, FilesInv, PointerIsVerified, Swapped
<1>6. Journaled' /\ ~Swapped' /\ ~Swapped
    BY <1>1, <1>2, <1>4, <1>5 DEF Journaled, Swapped, NoJournal
<1>7. FileTypes'
    BY <1>2, <1>3, <1>4 DEF ActivationInv, FileTypes
<1>8. Unreadable' = Unreadable /\ WithStatus("active")' = WithStatus("active")
    BY <1>2 DEF Unreadable, WithStatus
<1>9. FilesInv'
    BY <1>1, <1>2, <1>4, <1>5, <1>6, <1>8
    DEF ActivationInv, FilesInv, MovedAreGone, PointerIsVerified, JournalIsSound, OneIsActive,
        Installed
<1>10. Installed(proc.cand)'
    BY <1>2, <1>3 DEF BeginActivation, Committed, Installed
<1>11. StepInv'
    BY <1>1, <1>2, <1>3, <1>4, <1>6, <1>8, <1>10
    DEF StepInv, WithoutJournal, WithJournal, CallerIsKept, CandidateIsKept, WorksOn,
        ServesThePointer, Serves, InService, Quarantines, At, RollsBack
<1> QED BY <1>7, <1>9, <1>11 DEF ActivationInv

LEMMA SwapStep == ASSUME ActivationInv, SwapPointer PROVE ActivationInv'
<1>1. /\ proc.at = "point" /\ Journaled /\ ~Swapped /\ proc.by # "back"
      /\ proc.cand = journal.candidate /\ proc.cand \in Candidates
      /\ audit[proc.cand] = "pending" /\ Unreadable = {} /\ Installed(proc.cand)
    BY DEF SwapPointer, At, ActivationInv, StepInv, WithJournal, CandidateIsKept, WorksOn,
           CallerIsKept, RollsBack
<1>2. pointer' = proc.cand /\ UNCHANGED <<audit, moved, versions, journal, serving>>
    BY DEF SwapPointer
<1>3. /\ proc' \in [at : Steps, cand : Candidates \cup {None}, by : Callers]
      /\ proc'.at = "swapped" /\ proc'.cand = proc.cand /\ proc'.by = proc.by
    BY Goes DEF SwapPointer, ActivationInv, Steps
<1>4. Journaled' /\ Swapped'
    BY <1>1, <1>2 DEF Journaled, Swapped
<1>5. FileTypes'
    BY <1>1, <1>2, <1>3 DEF ActivationInv, FileTypes
<1>6. Unreadable' = {} /\ Installed(pointer)' /\ audit'[pointer'] = "pending"
    BY <1>1, <1>2 DEF Unreadable, WithStatus, Installed
<1>7. FilesInv'
    BY <1>1, <1>2, <1>4, <1>6
    DEF ActivationInv, FilesInv, MovedAreGone, PointerIsVerified, JournalIsSound, OneIsActive
<1>8. StepInv'
    BY <1>1, <1>2, <1>3, <1>4
    DEF StepInv, WithoutJournal, WithJournal, CallerIsKept, CandidateIsKept, WorksOn,
        ServesThePointer, Serves, InService, Quarantines, At, RollsBack
<1> QED BY <1>5, <1>7, <1>8 DEF ActivationInv

\* The phase of the journal changes neither its candidate nor what is swapped.
LEMMA PhaseAdvances ==
    ASSUME FileTypes, FilesInv, Journaled, NEW phase \in Phases, NEW step \in Steps,
           AdvanceTo(phase, step)
    PROVE  /\ FileTypes' /\ FilesInv' /\ Journaled' /\ Swapped' = Swapped
           /\ AuditsAreNormal' = AuditsAreNormal
           /\ UNCHANGED <<audit, pointer>>
           /\ proc'.at = step /\ proc'.by = proc.by
<1>1. /\ journal \in [phase : Phases, candidate : Candidates, previous : Candidates \cup {None}]
      /\ UNCHANGED <<audit, moved, versions, pointer, serving>>
    BY DEF FileTypes, Journaled, AdvanceTo
<1>2. /\ journal' \in [phase : Phases, candidate : Candidates, previous : Candidates \cup {None}]
      /\ journal'.candidate = journal.candidate /\ journal'.previous = journal.previous
      /\ journal'.phase = phase
    BY <1>1 DEF AdvanceTo
<1>3. Journaled' /\ Swapped' = Swapped
    BY <1>1, <1>2 DEF Journaled, Swapped, NoJournal, Phases
<1>4. /\ proc' \in [at : Steps, cand : Candidates \cup {None}, by : Callers]
      /\ proc'.at = step /\ proc'.by = proc.by
    BY Goes DEF AdvanceTo
<1>5. FileTypes'
    BY <1>1, <1>2, <1>4 DEF FileTypes
<1>6. Unreadable' = Unreadable /\ WithStatus("active")' = WithStatus("active")
    BY <1>1 DEF Unreadable, WithStatus
<1>7. FilesInv'
    BY <1>1, <1>2, <1>3, <1>6
    DEF FilesInv, MovedAreGone, PointerIsVerified, JournalIsSound, OneIsActive, Installed
<1>8. AuditsAreNormal' = AuditsAreNormal
    BY <1>1, <1>6 DEF AuditsAreNormal
<1> QED BY <1>1, <1>3, <1>4, <1>5, <1>7, <1>8

LEMMA AdvanceStep ==
    ASSUME ActivationInv, AdvanceToSwapped \/ AdvanceToActive PROVE ActivationInv'
<1>1. /\ proc.at \in {"swapped", "settled"} /\ Journaled /\ Swapped /\ ~RollsBack
      /\ proc.at = "settled" => AuditsAreNormal
    BY DEF AdvanceToSwapped, AdvanceToActive, At, ActivationInv, StepInv, WithJournal, CallerIsKept
<1>2. pointer # None
    BY <1>1, CandidatesAssumption DEF Swapped, Journaled, ActivationInv, FileTypes
<1>3. PICK phase \in Phases, step \in {"audits", "close"} :
          AdvanceTo(phase, step) /\ (step = "close" => proc.at = "settled")
    BY DEF AdvanceToSwapped, AdvanceToActive, At, Phases
<1>4. step \in Steps
    BY DEF Steps
<1>5. /\ FileTypes' /\ FilesInv' /\ Journaled' /\ Swapped' = Swapped
      /\ AuditsAreNormal' = AuditsAreNormal
      /\ UNCHANGED <<audit, pointer>>
      /\ proc'.at = step /\ proc'.by = proc.by
    BY <1>1, <1>3, <1>4, PhaseAdvances DEF ActivationInv
<1>6. StepInv'
    BY <1>1, <1>2, <1>3, <1>5
    DEF StepInv, WithoutJournal, WithJournal, CallerIsKept, CandidateIsKept,
        ServesThePointer, Serves, InService, Quarantines, At, RollsBack
<1> QED BY <1>5, <1>6 DEF ActivationInv

\* One file of the pass: the pointer's candidate becomes the active one, what
\* was active before becomes superseded.
LEMMA NormalizedAudit ==
    ASSUME ActivationInv, NormalizeAudit
    PROVE  \E c \in Candidates :
              /\ c \notin moved /\ c \notin Unreadable
              /\ \/ c = pointer /\ audit' = [audit EXCEPT ![c] = "active"]
                 \/ /\ c # pointer /\ audit[c] = "active"
                    /\ audit' = [audit EXCEPT ![c] = "superseded"]
<1>1. /\ proc.at = "audits" /\ Stale # {} /\ Journaled
      /\ RollsBack <=> ~Swapped
    BY DEF NormalizeAudit, At, ActivationInv, StepInv, WithJournal
<1>2. AuditTarget = pointer
    BY <1>1 DEF AuditTarget, RollsBack, Swapped, ActivationInv, FilesInv, JournalIsSound
<1>3. Min(Stale) \in Stale
    BY <1>1, LeastCandidate DEF Stale
<1>4. PICK c : c = Min(Stale)
    OBVIOUS
<1>5. /\ c \in Candidates \ Unreadable /\ audit[c] # "none" /\ audit[c] # DesiredAudit(c)
      /\ audit' = [audit EXCEPT ![c] = DesiredAudit(c)]
    BY <1>3, <1>4 DEF Stale, NormalizeAudit
<1>6. c \notin moved
    BY <1>5 DEF ActivationInv, FilesInv, MovedAreGone
<1> QED BY <1>2, <1>5, <1>6 DEF DesiredAudit

LEMMA NormalizeStep == ASSUME ActivationInv, NormalizeAudit PROVE ActivationInv'
<1>1. proc.at = "audits" /\ Journaled /\ pointer # None
    BY DEF NormalizeAudit, At, ActivationInv, StepInv, WithJournal
<1>2. UNCHANGED <<moved, versions, pointer, journal, proc, serving>>
    BY DEF NormalizeAudit
<1>3. PICK c \in Candidates :
          /\ c \notin moved /\ c \notin Unreadable
          /\ \/ c = pointer /\ audit' = [audit EXCEPT ![c] = "active"]
             \/ /\ c # pointer /\ audit[c] = "active"
                /\ audit' = [audit EXCEPT ![c] = "superseded"]
    BY NormalizedAudit
<1>4. Journaled' = Journaled /\ Swapped' = Swapped
    BY <1>2 DEF Journaled, Swapped
<1>5. FileTypes'
  <2>1. audit' \in [Candidates -> CandidateStatuses \cup {"none", "bare"}]
      BY <1>3 DEF ActivationInv, FileTypes, CandidateStatuses
  <2> QED BY <1>2, <2>1 DEF ActivationInv, FileTypes
<1>6. /\ c = pointer => audit'[c] = "active"
      /\ c # pointer => audit[c] = "active" /\ audit'[c] = "superseded"
      /\ \A d \in Candidates \ {c} : audit'[d] = audit[d]
    BY <1>3 DEF ActivationInv, FileTypes
<1>7. MovedAreGone'
    BY <1>2, <1>3, <1>6 DEF ActivationInv, FilesInv, MovedAreGone, FileTypes
<1>8. PointerIsVerified'
    BY <1>2, <1>4, <1>6 DEF ActivationInv, FilesInv, PointerIsVerified, Installed, FileTypes
<1>9. JournalIsSound'
  <2>1. journal.candidate \in Candidates
      BY <1>1 DEF ActivationInv, FileTypes, Journaled
  <2>2. Unreadable' = Unreadable
      BY <1>3, <1>6 DEF Unreadable, WithStatus
  <2>3. ~Swapped => c # journal.candidate
      BY <1>1, <1>6 DEF ActivationInv, FilesInv, JournalIsSound, Swapped
  <2> QED BY <1>2, <1>4, <1>6, <2>1, <2>2, <2>3 DEF ActivationInv, FilesInv, JournalIsSound
<1>10. OneIsActive'
  <2>1. WithStatus("active")' \subseteq WithStatus("active") \cup {pointer}
      BY <1>6 DEF WithStatus
  <2> QED BY <1>2, <1>4, <2>1 DEF ActivationInv, FilesInv, OneIsActive
<1>11. StepInv'
    BY <1>1, <1>2, <1>4
    DEF ActivationInv, StepInv, WithoutJournal, WithJournal, CallerIsKept, CandidateIsKept,
        WorksOn, ServesThePointer, Serves, InService, Quarantines, At, RollsBack
<1> QED BY <1>5, <1>7, <1>8, <1>9, <1>10, <1>11 DEF ActivationInv, FilesInv

LEMMA RemoveJournalStep == ASSUME ActivationInv, RemoveJournal PROVE ActivationInv'
<1>1. AuditsAreNormal
    BY DEF RemoveJournal, At, ActivationInv, StepInv, WithJournal
<1>2. journal' = NoJournal /\ UNCHANGED <<audit, moved, versions, pointer, serving>>
    BY DEF RemoveJournal
<1>3. /\ proc' \in [at : Steps, cand : Candidates \cup {None}, by : Callers]
      /\ proc'.at \in {"resolve", "recover"}
    BY Goes DEF RemoveJournal, ActivationInv, Steps
<1>4. ~Journaled' /\ ~Swapped'
    BY <1>2 DEF Journaled, Swapped
<1>5. FileTypes'
    BY <1>2, <1>3 DEF ActivationInv, FileTypes
<1>6. FilesInv'
    BY <1>1, <1>2, <1>4
    DEF ActivationInv, FilesInv, MovedAreGone, PointerIsVerified, JournalIsSound, OneIsActive,
        Installed, AuditsAreNormal, WithStatus
<1>7. StepInv'
    BY <1>3, <1>4
    DEF StepInv, WithoutJournal, WithJournal, CallerIsKept, CandidateIsKept,
        ServesThePointer, Serves, InService, Quarantines, At
<1> QED BY <1>5, <1>6, <1>7 DEF ActivationInv

-----------------------------------------------------------------------------
(* The program is open: a release is staged. *)

LEMMA CheckStep ==
    ASSUME ActivationInv, NEW c \in Candidates, CheckForUpdate(c) PROVE ActivationInv'
<1>1. /\ ~Journaled /\ serving = pointer /\ audit[c] = "none" /\ c \notin moved
    BY DEF CheckForUpdate, KnownRelease, At, ActivationInv, StepInv, WithoutJournal,
           ServesThePointer, Serves, InService
<1>2. UNCHANGED <<moved, versions, pointer, journal, serving>>
    BY DEF CheckForUpdate
<1>3. /\ proc' \in [at : Steps, cand : Candidates \cup {None}, by : Callers]
      /\ proc'.at = "create" /\ proc'.cand = c
    BY Works DEF CheckForUpdate, Steps, Callers
<1>4. FileTypes' /\ FilesInv' /\ Journaled' = Journaled /\ audit'[c] = "bare"
  <2>1. audit' = [audit EXCEPT ![c] = "bare"] /\ ~Swapped
      BY <1>1 DEF CheckForUpdate, Swapped
  <2> QED BY <1>1, <1>2, <1>3, <2>1, AuditWritten DEF ActivationInv, CandidateStatuses
<1>5. StepInv'
    BY <1>1, <1>2, <1>3, <1>4
    DEF StepInv, WithoutJournal, WithJournal, CallerIsKept, CandidateIsKept, WorksOn,
        ServesThePointer, Serves, InService, Quarantines, At
<1> QED BY <1>4, <1>5 DEF ActivationInv

\* The candidate that is staged while the program serves the pointer's.
LEMMA StagedCandidate ==
    ASSUME ActivationInv, At("create") \/ At("download") \/ At("probe")
    PROVE  /\ ~Journaled /\ serving = pointer /\ proc.cand \in Candidates
           /\ At("create") => audit[proc.cand] = "bare"
           /\ At("download") => audit[proc.cand] = "downloading"
           /\ At("probe") => audit[proc.cand] = "verifying"
BY DEF At, ActivationInv, StepInv, WithoutJournal, CandidateIsKept, WorksOn,
       ServesThePointer, Serves, InService

LEMMA StageStep ==
    ASSUME ActivationInv, CreateCandidate \/ DownloadArtifacts \/ ProbeCandidate
    PROVE  ActivationInv'
<1>1. At("create") \/ At("download") \/ At("probe")
    BY DEF CreateCandidate, DownloadArtifacts, ProbeCandidate
<1>2. PICK c \in Candidates : c = proc.cand
    BY <1>1, StagedCandidate
<1>3. PICK status \in {"downloading", "verifying", "pending"}, step \in {"download", "probe", "up"} :
          /\ Save(status, step)
          /\ step = "download" => status = "downloading"
          /\ step = "probe" => status = "verifying"
    BY DEF CreateCandidate, DownloadArtifacts, ProbeCandidate
<1>4. step \in Steps
    BY DEF Steps
<1>5. /\ proc' \in [at : Steps, cand : Candidates \cup {None}, by : Callers]
      /\ proc'.at = step /\ proc'.cand = c
    BY <1>2, <1>3, <1>4, Goes DEF Save, ActivationInv
<1>6. /\ ~Journaled /\ serving = pointer
      /\ audit[c] \in {"bare", "downloading", "verifying"}
    BY <1>1, <1>2, StagedCandidate
<1>7. c \notin moved /\ UNCHANGED <<moved, versions, pointer, journal, serving>>
    BY <1>3, <1>6 DEF Save, ActivationInv, FilesInv, MovedAreGone
<1>8. FileTypes' /\ FilesInv' /\ Journaled' = Journaled /\ audit'[c] = status
  <2>1. audit' = [audit EXCEPT ![c] = status] /\ ~Swapped
      BY <1>2, <1>3, <1>6 DEF Save, Swapped
  <2> QED BY <1>5, <1>6, <1>7, <2>1, AuditWritten DEF ActivationInv, CandidateStatuses
<1>9. StepInv'
    BY <1>3, <1>5, <1>6, <1>7, <1>8
    DEF StepInv, WithoutJournal, WithJournal, CallerIsKept, CandidateIsKept, WorksOn,
        ServesThePointer, Serves, InService, Quarantines, At
<1> QED BY <1>8, <1>9 DEF ActivationInv

-----------------------------------------------------------------------------
(* The invariant is inductive. *)

LEMMA ActivationInitial == Init => ActivationInv
<1> SUFFICES ASSUME Init PROVE ActivationInv
    OBVIOUS
<1>1. FileTypes
    BY DEF Init, FileTypes, Steps, Callers
<1>2. FilesInv
    BY DEF Init, FilesInv, MovedAreGone, PointerIsVerified, JournalIsSound, OneIsActive,
           Journaled, Swapped, WithStatus
<1>3. StepInv
    BY DEF Init, StepInv, WithoutJournal, WithJournal, CallerIsKept, CandidateIsKept,
           ServesThePointer, Serves, InService, Quarantines, At, Journaled
<1> QED BY <1>1, <1>2, <1>3 DEF ActivationInv

LEMMA ActivationStep == ASSUME ActivationInv, [Next]_vars PROVE ActivationInv'
<1>1. CASE Start
    BY <1>1, StartStep
<1>2. CASE Stop \/ Crash
    BY <1>2, EndStep DEF Stop, Crash
<1>3. CASE Reconcile \/ RollBack \/ MarkQuarantined \/ MoveToQuarantine
    BY <1>3, ReconcileStep, RollBackStep, MarkStep, MoveStep
<1>4. CASE RecoverInterrupted \/ ChoosePending \/ VerifyPending
    BY <1>4, RecoverStep, ChooseStep, VerifyStep
<1>5. ASSUME NEW k \in Components, CommitVersion(k) PROVE ActivationInv'
    BY <1>5, CommitVersionStep
<1>6. CASE BeginActivation \/ SwapPointer \/ AdvanceToSwapped \/ AdvanceToActive
    BY <1>6, BeginStep, SwapStep, AdvanceStep
<1>7. CASE NormalizeAudit \/ AuditsFail \/ AuditsDone
    BY <1>7, NormalizeStep, AuditsFailStep, AuditsDoneStep
<1>8. CASE RemoveJournal \/ ResolveRuntime
    BY <1>8, RemoveJournalStep, ResolveStep
<1>9. CASE CreateCandidate \/ DownloadArtifacts \/ ProbeCandidate \/ StageFails
    BY <1>9, StageStep, StageFailsStep
<1>10. ASSUME NEW c \in Candidates, CheckForUpdate(c) PROVE ActivationInv'
    BY <1>10, CheckStep
<1>11. CASE UNCHANGED vars
  <2>1. FileTypes' /\ FilesInv'
      BY <1>11, NothingWritten DEF ActivationInv, vars, disk, FileTypes
  <2>2. StepInv'
      BY <1>11
      DEF vars, ActivationInv, StepInv, WithoutJournal, WithJournal, CallerIsKept, CandidateIsKept,
          WorksOn, ServesThePointer, Serves, InService, Quarantines, At, RollsBack, Journaled,
          Swapped, AuditsAreNormal, Unreadable, WithStatus, Installed
  <2> QED BY <2>1, <2>2 DEF ActivationInv
<1> QED BY <1>1, <1>2, <1>3, <1>4, <1>5, <1>6, <1>7, <1>8, <1>9, <1>10, <1>11 DEF Next, ProcessStep

\* The invariant holds in every state.
THEOREM ActivationInvariant == Spec => []ActivationInv
<1>1. ActivationInv /\ [Next]_vars => ActivationInv'
    BY ActivationStep
<1> QED BY <1>1, ActivationInitial, PTL DEF Spec

-----------------------------------------------------------------------------
(* The refinement of RuntimeSet. *)

StageMap == [c \in Candidates |-> StageOf(c)]

\* Only what the pointer, the quarantine and the audits say is promised.
LEMMA PromiseKept ==
    ASSUME UNCHANGED <<audit, moved, pointer>> PROVE UNCHANGED StageMap
BY DEF StageMap, StageOf

\* A write to one candidate's file says nothing of the others.
LEMMA OneStageWritten ==
    ASSUME FileTypes, NEW c \in Candidates, NEW status, audit' = [audit EXCEPT ![c] = status],
           moved' = moved \/ moved' = moved \cup {c}, UNCHANGED pointer
    PROVE  StageMap' = [StageMap EXCEPT ![c] = StageOf(c)']
<1>1. \A d \in Candidates \ {c} : StageOf(d)' = StageOf(d)
  <2>1. \A d \in Candidates \ {c} : audit'[d] = audit[d] /\ (d \in moved' <=> d \in moved)
      BY DEF FileTypes
  <2> QED BY <2>1 DEF StageOf
<1> QED BY <1>1 DEF StageMap

LEMMA RejectsMarked ==
    ASSUME ActivationInv, MarkQuarantined PROVE \E c \in Candidates : Promise!Reject(c)
<1>1. proc.at = "mark" /\ Quarantines
    BY DEF MarkQuarantined, At, Quarantines
<1>2. PICK c \in Candidates : c = proc.cand
    BY <1>1, QuarantineIsSafe
<1>3. audit[c] \in {"downloading", "verifying", "pending"} /\ ~Swapped
    BY <1>1, <1>2, QuarantineIsSafe DEF At
<1>4. /\ audit' = [audit EXCEPT ![c] = "quarantined"] /\ UNCHANGED <<moved, pointer>>
      /\ audit'[c] = "quarantined"
    BY <1>2 DEF MarkQuarantined, ActivationInv, FileTypes
<1>5. c \notin moved /\ c # pointer
    BY <1>3, CandidatesAssumption
    DEF ActivationInv, FilesInv, MovedAreGone, PointerIsVerified
<1>6. StageOf(c) \in {"unknown", "verified"} /\ StageOf(c)' = "rejected"
    BY <1>3, <1>4, <1>5 DEF StageOf
<1>7. StageMap' = [StageMap EXCEPT ![c] = "rejected"]
    BY <1>4, <1>6, OneStageWritten DEF ActivationInv
<1>8. StageMap[c] \in {"unknown", "verified"}
    BY <1>6 DEF StageMap
<1> QED BY <1>7, <1>8 DEF Promise!Reject, StageMap

LEMMA MovedStaysRejected == ASSUME ActivationInv, MoveToQuarantine PROVE UNCHANGED StageMap
<1>1. proc.at = "move" /\ Quarantines
    BY DEF MoveToQuarantine, At, Quarantines
<1>2. PICK c \in Candidates : c = proc.cand
    BY <1>1, QuarantineIsSafe
<1>3. audit[c] = "quarantined" /\ ~Swapped
    BY <1>1, <1>2, QuarantineIsSafe DEF At
<1>4. audit' = [audit EXCEPT ![c] = "none"] /\ moved' = moved \cup {c} /\ UNCHANGED pointer
    BY <1>2 DEF MoveToQuarantine
<1>5. c # pointer
    BY <1>3, CandidatesAssumption DEF ActivationInv, FilesInv, PointerIsVerified
<1>6. StageOf(c) = "rejected" /\ StageOf(c)' = "rejected"
    BY <1>3, <1>4, <1>5 DEF StageOf
<1>7. StageMap' = [StageMap EXCEPT ![c] = "rejected"] /\ StageMap[c] = "rejected"
    BY <1>4, <1>6, OneStageWritten DEF ActivationInv, StageMap
<1> QED BY <1>7 DEF StageMap

\* The swap of the pointer launches the candidate and retires the one before.
LEMMA LaunchesSwapped ==
    ASSUME ActivationInv, SwapPointer PROVE \E c \in Candidates : Promise!Launch(c)
<1>1. /\ ~Swapped /\ proc.cand \in Candidates /\ audit[proc.cand] = "pending"
    BY DEF SwapPointer, At, ActivationInv, StepInv, WithJournal, CandidateIsKept, WorksOn
<1>2. PICK c \in Candidates : c = proc.cand
    BY <1>1
<1>3. pointer' = c /\ UNCHANGED <<audit, moved>>
    BY <1>2 DEF SwapPointer
<1>4. /\ c \notin moved /\ c # pointer
      /\ pointer # None => audit[pointer] = "active" /\ pointer \notin moved
    BY <1>1, <1>2, CandidatesAssumption
    DEF ActivationInv, FilesInv, MovedAreGone, PointerIsVerified
<1>5. StageOf(c) = "verified" /\ StageOf(c)' = "launched"
    BY <1>1, <1>2, <1>3, <1>4 DEF StageOf
<1>6. ASSUME NEW d \in Candidates, d = pointer
      PROVE  StageOf(d) = "launched" /\ StageOf(d)' = "retired"
    BY <1>3, <1>4, <1>6, CandidatesAssumption DEF StageOf
<1>7. ASSUME NEW d \in Candidates, d # pointer, d # c
      PROVE  StageOf(d) # "launched" /\ StageOf(d)' = StageOf(d)
    BY <1>3, <1>7 DEF StageOf
<1>8. \A d \in Candidates :
         StageOf(d)' = CASE d = c -> "launched"
                         [] StageOf(d) = "launched" -> "retired"
                         [] OTHER -> StageOf(d)
    BY <1>4, <1>5, <1>6, <1>7
<1>9. /\ StageMap[c] = "verified"
      /\ StageMap' = [d \in Candidates |->
            CASE d = c -> "launched"
              [] StageMap[d] = "launched" -> "retired"
              [] OTHER -> StageMap[d]]
    BY <1>5, <1>8 DEF StageMap
<1> QED BY <1>9 DEF Promise!Launch, StageMap

LEMMA NormalizedStaysLaunched == ASSUME ActivationInv, NormalizeAudit PROVE UNCHANGED StageMap
<1>1. PICK c \in Candidates :
          /\ c \notin moved /\ c \notin Unreadable
          /\ \/ c = pointer /\ audit' = [audit EXCEPT ![c] = "active"]
             \/ /\ c # pointer /\ audit[c] = "active"
                /\ audit' = [audit EXCEPT ![c] = "superseded"]
    BY NormalizedAudit
<1>2. UNCHANGED <<moved, pointer>>
    BY DEF NormalizeAudit
<1>3. StageOf(c)' = StageOf(c)
    BY <1>1, <1>2 DEF StageOf, ActivationInv, FileTypes
<1>4. StageMap' = [StageMap EXCEPT ![c] = StageOf(c)] /\ StageMap[c] = StageOf(c)
    BY <1>1, <1>2, <1>3, OneStageWritten DEF ActivationInv, StageMap
<1> QED BY <1>4 DEF StageMap

LEMMA CheckedIsUnknown ==
    ASSUME ActivationInv, NEW c \in Candidates, CheckForUpdate(c) PROVE UNCHANGED StageMap
<1>1. /\ ~Journaled /\ audit[c] = "none" /\ c \notin moved
      /\ audit' = [audit EXCEPT ![c] = "bare"] /\ UNCHANGED <<moved, pointer>>
    BY DEF CheckForUpdate, KnownRelease, At, ActivationInv, StepInv, WithoutJournal, Serves,
           InService
<1>2. c # pointer
    BY <1>1, CandidatesAssumption DEF ActivationInv, FilesInv, PointerIsVerified
<1>3. StageOf(c)' = StageOf(c)
    BY <1>1, <1>2 DEF StageOf, ActivationInv, FileTypes
<1>4. StageMap' = [StageMap EXCEPT ![c] = StageOf(c)] /\ StageMap[c] = StageOf(c)
    BY <1>1, <1>3, OneStageWritten DEF ActivationInv, StageMap
<1> QED BY <1>4 DEF StageMap

\* A candidate that is staged becomes known with its last check.
LEMMA VerifiesStaged ==
    ASSUME ActivationInv, CreateCandidate \/ DownloadArtifacts \/ ProbeCandidate
    PROVE  UNCHANGED StageMap \/ \E c \in Candidates : Promise!Verify(c)
<1>1. At("create") \/ At("download") \/ At("probe")
    BY DEF CreateCandidate, DownloadArtifacts, ProbeCandidate
<1>2. PICK c \in Candidates : c = proc.cand
    BY <1>1, StagedCandidate
<1>3. ~Journaled /\ audit[c] \in {"bare", "downloading", "verifying"}
    BY <1>1, <1>2, StagedCandidate
<1>4. PICK status \in {"downloading", "verifying", "pending"} :
          audit' = [audit EXCEPT ![c] = status] /\ UNCHANGED <<moved, pointer>>
    BY <1>2 DEF CreateCandidate, DownloadArtifacts, ProbeCandidate, Save
<1>5. c \notin moved /\ c # pointer
    BY <1>3, CandidatesAssumption DEF ActivationInv, FilesInv, MovedAreGone, PointerIsVerified
<1>6. audit'[c] = status
    BY <1>4 DEF ActivationInv, FileTypes
<1>7. StageOf(c) = "unknown" /\ StageOf(c)' \in {"unknown", "verified"}
    BY <1>3, <1>4, <1>5, <1>6 DEF StageOf
<1>8. StageMap' = [StageMap EXCEPT ![c] = StageOf(c)'] /\ StageMap[c] = "unknown"
    BY <1>4, <1>7, OneStageWritten DEF ActivationInv, StageMap
<1>9. CASE StageOf(c)' = "unknown"
    BY <1>8, <1>9 DEF StageMap
<1>10. CASE StageOf(c)' = "verified"
    BY <1>8, <1>10 DEF Promise!Verify, StageMap
<1> QED BY <1>7, <1>9, <1>10

LEMMA PromiseStep ==
    ASSUME ActivationInv, [Next]_vars PROVE Promise!SetNext \/ UNCHANGED StageMap
<1>1. CASE UNCHANGED <<audit, moved, pointer>>
    BY <1>1, PromiseKept
<1>2. CASE RollBack
  <2>1. pointer' = pointer /\ UNCHANGED <<audit, moved>>
    <3>1. Journaled /\ ~Swapped
        BY <1>2 DEF RollBack, At, ActivationInv, StepInv, WithJournal
    <3> QED BY <1>2, <3>1 DEF RollBack, ActivationInv, FilesInv, JournalIsSound, Swapped
  <2> QED BY <2>1, PromiseKept
<1>3. CASE MarkQuarantined \/ MoveToQuarantine
    BY <1>3, RejectsMarked, MovedStaysRejected DEF Promise!SetNext
<1>4. CASE SwapPointer \/ NormalizeAudit
    BY <1>4, LaunchesSwapped, NormalizedStaysLaunched DEF Promise!SetNext
<1>5. CASE CreateCandidate \/ DownloadArtifacts \/ ProbeCandidate
    BY <1>5, VerifiesStaged DEF Promise!SetNext
<1>6. ASSUME NEW c \in Candidates, CheckForUpdate(c) PROVE UNCHANGED StageMap
    BY <1>6, CheckedIsUnknown
<1>7. CASE Start \/ Stop \/ Crash \/ Reconcile \/ RecoverInterrupted \/ ChoosePending
          \/ VerifyPending \/ AuditsFail \/ AuditsDone \/ ResolveRuntime \/ StageFails
    BY <1>1, <1>7
    DEF Start, Stop, Crash, Reconcile, RecoverInterrupted, ChoosePending, VerifyPending,
        AuditsFail, AuditsDone, ResolveRuntime, StageFails, disk
<1>8. CASE (\E k \in Components : CommitVersion(k)) \/ BeginActivation \/ AdvanceToSwapped
          \/ AdvanceToActive \/ RemoveJournal
    BY <1>1, <1>8
    DEF CommitVersion, BeginActivation, AdvanceToSwapped, AdvanceToActive, AdvanceTo, RemoveJournal
<1>9. CASE UNCHANGED vars
    BY <1>1, <1>9 DEF vars
<1> QED BY <1>2, <1>3, <1>4, <1>5, <1>6, <1>7, <1>8, <1>9 DEF Next, ProcessStep

\* The journal, the pointer and the audits implement the set of components that
\* changes in one step, with a crash between any two writes.
THEOREM ActivationKeepsPromise == Spec => KeepsPromise
<1>1. Init => Promise!SetInit
    BY CandidatesAssumption DEF Init, Promise!SetInit, StageOf
<1>2. ActivationInv /\ [Next]_vars => [Promise!SetNext]_StageMap
    BY PromiseStep
<1>3. ActivationInv /\ [Next]_vars => [Promise!SetNext]_([c \in Candidates |-> StageOf(c)])
    BY <1>2 DEF StageMap
<1> QED BY <1>1, <1>3, ActivationInvariant, PTL DEF Spec, KeepsPromise, Promise!SetSpec

-----------------------------------------------------------------------------
(* What else it shows. *)

\* The program runs exactly the trees the pointer's candidate was verified with.
THEOREM ServedIsVerified == Spec => []ServedSetIsTheVerifiedOne
<1>1. ActivationInv => ServedSetIsTheVerifiedOne
    BY DEF ActivationInv, StepInv, WithoutJournal, ServesThePointer, Serves, Journaled,
           FilesInv, PointerIsVerified, ServedSetIsTheVerifiedOne
<1> QED BY <1>1, ActivationInvariant, PTL

\* Once the files are reconciled, the audits name the pointer's candidate.
THEOREM AuditsNameTheServed == Spec => []AuditsNameThePointer
<1>1. ActivationInv => AuditsNameThePointer
  <2> SUFFICES ASSUME ActivationInv, InService \/ At("resolve")
               PROVE  WithStatus("active") = {pointer} \ {None}
      BY DEF AuditsNameThePointer
  <2>1. ~Journaled /\ ~Swapped
      BY DEF ActivationInv, StepInv, WithoutJournal, Serves, At, Swapped
  <2>2. WithStatus("active") \subseteq {pointer}
      BY <2>1 DEF ActivationInv, FilesInv, OneIsActive
  <2>3. pointer # None => pointer \in WithStatus("active")
      BY <2>1 DEF ActivationInv, FilesInv, PointerIsVerified, WithStatus, FileTypes
  <2>4. None \notin WithStatus("active")
      BY CandidatesAssumption DEF WithStatus
  <2> QED BY <2>2, <2>3, <2>4
<1> QED BY <1>1, ActivationInvariant, PTL

\* A candidate is created where there was no trace of it, and no write erases one.
LEMMA FetchStep ==
    ASSUME ActivationInv, FetchLeavesATrace, [Next]_vars PROVE FetchLeavesATrace'
<1>1. CASE UNCHANGED <<audit, moved, fetched>>
    BY <1>1 DEF FetchLeavesATrace
<1>2. CASE MarkQuarantined \/ DownloadArtifacts \/ ProbeCandidate
  <2>1. PICK c \in Candidates, status \in {"quarantined", "verifying", "pending"} :
            audit' = [audit EXCEPT ![c] = status]
    <3>1. CASE MarkQuarantined
        BY <3>1, QuarantineIsSafe DEF MarkQuarantined, Quarantines, At
    <3>2. CASE DownloadArtifacts \/ ProbeCandidate
        BY <3>2, StagedCandidate DEF DownloadArtifacts, ProbeCandidate, Save
    <3> QED BY <1>2, <3>1, <3>2
  <2>2. UNCHANGED <<moved, fetched>>
      BY <1>2 DEF MarkQuarantined, DownloadArtifacts, ProbeCandidate, Save
  <2>3. audit'[c] = status /\ \A d \in Candidates \ {c} : audit'[d] = audit[d]
      BY <2>1 DEF ActivationInv, FileTypes
  <2> QED BY <2>2, <2>3 DEF FetchLeavesATrace
<1>3. CASE MoveToQuarantine
  <2>1. PICK c \in Candidates : c = proc.cand
      BY <1>3, QuarantineIsSafe DEF MoveToQuarantine, Quarantines, At
  <2>2. /\ audit' = [audit EXCEPT ![c] = "none"] /\ moved' = moved \cup {c} /\ UNCHANGED fetched
      BY <1>3, <2>1 DEF MoveToQuarantine
  <2>3. \A d \in Candidates \ {c} : audit'[d] = audit[d]
      BY <2>2 DEF ActivationInv, FileTypes
  <2> QED BY <2>2, <2>3 DEF FetchLeavesATrace
<1>4. CASE NormalizeAudit
  <2>1. PICK c \in Candidates, status \in {"active", "superseded"} :
            audit' = [audit EXCEPT ![c] = status]
      BY <1>4, NormalizedAudit
  <2>2. audit'[c] = status /\ \A d \in Candidates \ {c} : audit'[d] = audit[d]
      BY <2>1 DEF ActivationInv, FileTypes
  <2> QED BY <1>4, <2>2 DEF NormalizeAudit, FetchLeavesATrace
<1>5. ASSUME NEW c \in Candidates, CheckForUpdate(c) PROVE FetchLeavesATrace'
  <2>1. audit' = [audit EXCEPT ![c] = "bare"] /\ UNCHANGED <<moved, fetched>>
      BY <1>5 DEF CheckForUpdate
  <2>2. \A d \in Candidates \ {c} : audit'[d] = audit[d]
      BY <2>1 DEF ActivationInv, FileTypes
  <2>3. fetched[c] = 0
      BY <1>5 DEF CheckForUpdate, KnownRelease, FetchLeavesATrace
  <2> QED BY <2>1, <2>2, <2>3 DEF FetchLeavesATrace
<1>6. CASE CreateCandidate
  <2>1. PICK c \in Candidates : c = proc.cand
      BY <1>6, StagedCandidate DEF CreateCandidate
  <2>2. audit[c] = "bare" /\ c \notin moved
      BY <1>6, <2>1, StagedCandidate DEF CreateCandidate, ActivationInv, FilesInv, MovedAreGone
  <2>3. /\ audit' = [audit EXCEPT ![c] = "downloading"] /\ UNCHANGED moved
        /\ fetched' = [fetched EXCEPT ![c] = fetched[c] + 1]
      BY <1>6, <2>1 DEF CreateCandidate, Save
  <2>4. audit'[c] = "downloading" /\ \A d \in Candidates \ {c} : audit'[d] = audit[d]
      BY <2>3 DEF ActivationInv, FileTypes
  <2>5. fetched[c] = 0
      BY <2>2 DEF FetchLeavesATrace
  <2>6. fetched' = [fetched EXCEPT ![c] = 1]
      BY <2>3, <2>5
  <2> QED BY <2>3, <2>4, <2>6 DEF FetchLeavesATrace
<1>7. CASE Start \/ Stop \/ Crash \/ Reconcile \/ RollBack \/ RecoverInterrupted \/ ChoosePending
          \/ VerifyPending \/ AuditsFail \/ AuditsDone \/ ResolveRuntime \/ StageFails
    BY <1>1, <1>7
    DEF Start, Stop, Crash, Reconcile, RollBack, RecoverInterrupted, ChoosePending, VerifyPending,
        AuditsFail, AuditsDone, ResolveRuntime, StageFails, disk
<1>8. CASE (\E k \in Components : CommitVersion(k)) \/ BeginActivation \/ SwapPointer
          \/ AdvanceToSwapped \/ AdvanceToActive \/ RemoveJournal
    BY <1>1, <1>8
    DEF CommitVersion, BeginActivation, SwapPointer, AdvanceToSwapped, AdvanceToActive, AdvanceTo,
        RemoveJournal
<1>9. CASE UNCHANGED vars
    BY <1>1, <1>9 DEF vars
<1> QED BY <1>2, <1>3, <1>4, <1>5, <1>6, <1>7, <1>8, <1>9 DEF Next, ProcessStep

\* However starts, crashes and checks follow each other, a release is requested
\* from the network at most once.
THEOREM FetchedOnce == Spec => []ReleaseIsFetchedOnce
<1>1. Init => FetchLeavesATrace
    BY DEF Init, FetchLeavesATrace
<1>2. ActivationInv /\ FetchLeavesATrace /\ [Next]_vars => FetchLeavesATrace'
    BY FetchStep
<1>3. FetchLeavesATrace => ReleaseIsFetchedOnce
    BY DEF FetchLeavesATrace, ReleaseIsFetchedOnce
<1> QED BY <1>1, <1>2, <1>3, ActivationInvariant, PTL DEF Spec
=============================================================================
