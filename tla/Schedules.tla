----------------------------- MODULE Schedules -----------------------------
(***************************************************************************)
(* The scheduler (src/internal/schedule/service.go, spec.go) over its two  *)
(* tables (src/internal/store/schedules.go): the schedules with their      *)
(* cursor next_run_at, and one firing row per occurrence that was dealt    *)
(* with.                                                                   *)
(*                                                                         *)
(* One goroutine ticks.  A tick lists the due schedules and, for each,     *)
(* records what expired, claims the latest occurrence together with the    *)
(* run it queues, and moves the cursor: three transactions, and the        *)
(* process may end, or a transaction fail, between any two of them.  The   *)
(* user enables, disables and deletes schedules at any moment.             *)
(*                                                                         *)
(* A timetable stands for a parsed "at", "every" or "cron" expression: the *)
(* set of its occurrences up to the horizon.                               *)
(***************************************************************************)
EXTENDS Naturals, Sequences, FiniteSets

CONSTANTS
    ScheduleId,  \* schedule identifiers, each created at most once
    Horizon,     \* bound: the last instant of the clock
    Timetables,  \* the timetables a schedule may be created with
    Window,      \* an occurrence older than this is recorded, not run (24 h)
    PageSize,    \* maxOccurrencesPerTick
    MaxFaults    \* bound: failed transactions and process ends

ASSUME ScheduleAssumption ==
    /\ Horizon \in Nat /\ Window \in Nat /\ MaxFaults \in Nat
    /\ PageSize \in Nat \ {0}
    /\ Timetables \subseteq SUBSET (1..Horizon)

Instant == 1..Horizon
Never   == 0         \* next_run_at IS NULL

VARIABLES
    clock,      \* the wall clock
    schedule,   \* the rows of schedules
    firing,     \* the rows of schedule_firings, by schedule and occurrence
    started,    \* the occurrences runs were queued for, in order, by schedule
    bound,      \* schedules whose session still has the thread they name
    blocked,    \* the graph is not ready, or a shadow index is being filled
    tick,       \* the tick in progress
    faults      \* faults so far

scheduleVars == <<clock, schedule, firing, started, bound, blocked, tick, faults>>
envVars      == <<clock, bound, blocked>>

Idle == [stage |-> "idle", now |-> 0, due |-> {}]
Absent == [status |-> "absent", times |-> {}, since |-> 0, enabled |-> FALSE,
           next |-> Never]

ScheduleTypeOK ==
    /\ clock \in 0..Horizon
    /\ schedule \in [ScheduleId -> [status : {"absent", "present", "deleted"},
                                    times : Timetables \cup {{}}, since : 0..Horizon,
                                    enabled : BOOLEAN, next : Instant \cup {Never}]]
    /\ firing \in [ScheduleId -> [Instant -> {"none", "missed_expired", "queued",
                                              "blocked_main_thread_lost"}]]
    /\ started \in [ScheduleId -> Seq(Instant)]
    /\ bound \subseteq ScheduleId /\ blocked \in BOOLEAN
    /\ tick \in [stage : {"idle", "listed", "recorded", "claimed"}, now : 0..Horizon,
                 due : SUBSET [id : ScheduleId, next : Instant]]
    /\ faults \in 0..MaxFaults

ScheduleInit ==
    /\ clock = 0 /\ faults = 0 /\ blocked = FALSE /\ bound = ScheduleId
    /\ schedule = [s \in ScheduleId |-> Absent]
    /\ firing = [s \in ScheduleId |-> [t \in Instant |-> "none"]]
    /\ started = [s \in ScheduleId |-> <<>>]
    /\ tick = Idle

-----------------------------------------------------------------------------
(* What process computes for one due schedule. *)

Least(ts) == CHOOSE t \in ts : \A u \in ts : t <= u
Latest(ts) == CHOOSE t \in ts : \A u \in ts : u <= t

\* Parsed.Next: the first occurrence after an instant, if there is one.
Next(times, t) ==
    LET later == {u \in times : u > t} IN IF later = {} THEN Never ELSE Least(later)

\* The list is worked through by cursor and identifier.
Item == CHOOSE i \in tick.due : \A j \in tick.due : i.next <= j.next
Times == schedule[Item.id].times

\* All that is due; the page of it a tick takes; whether more remains.
Overdue == {t \in Times : Item.next <= t /\ t <= tick.now}
Page    == LET all == Overdue IN
           {t \in all : Cardinality({u \in all : u < t}) < PageSize}
MoreDue == Cardinality(Overdue) > PageSize

\* What expired, and what CoalesceMissed chooses from.
Expired == {t \in Page : t + Window < tick.now}
Recent  == {t \in Page : tick.now <= t + Window}

\* The occurrence a run is queued for, if any: an intermediate page leaves it
\* to the last one.
Chosen == LET recent == Recent IN
          IF MoreDue \/ recent = {} THEN {} ELSE {Latest(recent)}

\* The item is done with, well or ill: the next one, or the end of the tick.
Done ==
    LET rest == tick.due \ {Item} IN
    IF rest = {} THEN Idle ELSE [tick EXCEPT !.stage = "listed", !.due = rest]

Present(s) == schedule[s].status = "present"

-----------------------------------------------------------------------------
(* The tick. *)

\* ListDueSchedules.
BeginTick ==
    LET due == {s \in ScheduleId : /\ Present(s) /\ schedule[s].enabled
                                   /\ schedule[s].next \in 1..clock}
    IN
    /\ tick.stage = "idle" /\ due # {}
    /\ tick' = [stage |-> "listed", now |-> clock,
                due |-> {[id |-> s, next |-> schedule[s].next] : s \in due}]
    /\ UNCHANGED <<envVars, schedule, firing, started, faults>>

\* RecordMissedSchedule for each expired occurrence, unless it has a row.  Of
\* a schedule deleted meanwhile nothing is overdue any more: what the code
\* attempts for it fails the foreign key.
RecordMissed ==
    LET s == Item.id IN
    /\ tick.stage = "listed"
    /\ tick' = [tick EXCEPT !.stage = "recorded"]
    /\ LET expired == Expired IN
       firing' = [firing EXCEPT ![s] = [t \in Instant |->
            IF t \in expired /\ @[t] = "none" THEN "missed_expired" ELSE @[t]]]
    /\ UNCHANGED <<envVars, schedule, started, faults>>

\* No occurrence to run, and none to claim.
NothingToRun ==
    /\ tick.stage = "recorded" /\ Chosen = {}
    /\ tick' = [tick EXCEPT !.stage = "claimed"]
    /\ UNCHANGED <<envVars, schedule, firing, started, faults>>

\* CreateScheduledRun: the claim and the run are one transaction.
QueueRun(s, t) ==
    /\ firing[s][t] = "none" /\ s \in bound /\ ~blocked
    /\ firing' = [firing EXCEPT ![s][t] = "queued"]
    /\ started' = [started EXCEPT ![s] = Append(@, t)]
    /\ tick' = [tick EXCEPT !.stage = "claimed"]
    /\ UNCHANGED <<envVars, schedule, faults>>

\* Variant: a claim an earlier tick made is an error of this one.
AlreadyClaimedIsAnError(s, t) ==
    /\ firing[s][t] # "none"
    /\ tick' = Done
    /\ UNCHANGED <<envVars, schedule, firing, started, faults>>

\* The occurrence was claimed before the process ended, or before the
\* transaction that moves the cursor failed: no second run.
AlreadyClaimed(s, t) ==
    /\ firing[s][t] # "none"
    /\ tick' = [tick EXCEPT !.stage = "claimed"]
    /\ UNCHANGED <<envVars, schedule, firing, started, faults>>

\* The session lost the thread the schedule names: the firing says so, the
\* schedule is disabled, and the error leaves the cursor where it is.
ThreadLost(s, t) ==
    /\ firing[s][t] = "none" /\ s \notin bound
    /\ firing' = [firing EXCEPT ![s][t] = "blocked_main_thread_lost"]
    /\ schedule' = [schedule EXCEPT ![s].enabled = FALSE]
    /\ tick' = Done
    /\ UNCHANGED <<envVars, started, faults>>

\* Variant: the error of a refused run is dropped and the cursor moves.
RefusalIsDropped(s, t) ==
    /\ firing[s][t] = "none" /\ s \in bound /\ blocked
    /\ tick' = [tick EXCEPT !.stage = "claimed"]
    /\ UNCHANGED <<envVars, schedule, firing, started, faults>>

\* The graph is not ready or a shadow index is being filled: the transaction
\* is rolled back, the claim with it, and a later tick tries again.
Refused(s, t) ==
    /\ firing[s][t] = "none" /\ s \in bound /\ blocked
    /\ tick' = Done
    /\ UNCHANGED <<envVars, schedule, firing, started, faults>>

\* UpdateScheduleTimes, if the cursor is still the one that was listed.
AdvanceCursor ==
    LET s == Item.id IN
    /\ tick.stage = "claimed"
    /\ schedule' = IF Present(s) /\ schedule[s].next = Item.next
                   THEN [schedule EXCEPT ![s].next = Next(Times, Latest(Page))]
                   ELSE schedule
    /\ tick' = Done
    /\ UNCHANGED <<envVars, firing, started, faults>>

\* A transaction of process fails.
ItemFails ==
    /\ tick.stage # "idle" /\ faults < MaxFaults /\ faults' = faults + 1
    /\ tick' = Done
    /\ UNCHANGED <<envVars, schedule, firing, started>>

TickStep ==
    \/ BeginTick \/ RecordMissed \/ NothingToRun \/ AdvanceCursor
    \/ /\ tick.stage = "recorded"
       /\ \E t \in Chosen : LET s == Item.id IN
            QueueRun(s, t) \/ AlreadyClaimed(s, t) \/ ThreadLost(s, t) \/ Refused(s, t)

-----------------------------------------------------------------------------
(* The user, and the rest of the program. *)

\* Create: the first occurrence after now must exist.
CreateSchedule(s, times) ==
    /\ schedule[s].status = "absent" /\ Next(times, clock) # Never
    /\ schedule' = [schedule EXCEPT ![s] = [status |-> "present", times |-> times,
                        since |-> clock, enabled |-> TRUE, next |-> Next(times, clock)]]
    /\ UNCHANGED <<envVars, firing, started, tick, faults>>

\* SetScheduleEnabled does not touch the cursor.
SetEnabled(s) ==
    /\ Present(s)
    /\ schedule' = [schedule EXCEPT ![s].enabled = ~@]
    /\ UNCHANGED <<envVars, firing, started, tick, faults>>

\* DeleteSchedule takes the firings along.
DeleteSchedule(s) ==
    /\ Present(s)
    /\ schedule' = [schedule EXCEPT ![s] = [Absent EXCEPT !.status = "deleted"]]
    /\ firing' = [firing EXCEPT ![s] = [t \in Instant |-> "none"]]
    /\ UNCHANGED <<envVars, started, tick, faults>>

\* Time passes.
Elapse ==
    /\ clock < Horizon /\ clock' = clock + 1
    /\ UNCHANGED <<bound, blocked, schedule, firing, started, tick, faults>>

\* The session of a schedule gets another thread, or its own back.
ChangeThread(s) ==
    /\ bound' = IF s \in bound THEN bound \ {s} ELSE bound \cup {s}
    /\ UNCHANGED <<clock, blocked, schedule, firing, started, tick, faults>>

\* The graph or the memory of the project becomes busy, or free.
ChangeProject ==
    /\ blocked' = ~blocked
    /\ UNCHANGED <<clock, bound, schedule, firing, started, tick, faults>>

\* The process ends and starts again: the tables are all that is left.
Crash ==
    /\ tick.stage # "idle" /\ faults < MaxFaults /\ faults' = faults + 1
    /\ tick' = Idle
    /\ UNCHANGED <<envVars, schedule, firing, started>>

ScheduleNext ==
    \/ TickStep \/ ItemFails \/ Elapse \/ ChangeProject \/ Crash
    \/ \E s \in ScheduleId :
        \/ \E times \in Timetables : CreateSchedule(s, times)
        \/ SetEnabled(s) \/ DeleteSchedule(s) \/ ChangeThread(s)

ScheduleSpec == ScheduleInit /\ [][ScheduleNext]_scheduleVars

\* runScheduler ticks every minute for as long as the program runs.
FairScheduleSpec == ScheduleSpec /\ WF_scheduleVars(TickStep)

-----------------------------------------------------------------------------
(* What the scheduler promises. *)

\* The runs of a schedule are queued for later and later occurrences, hence
\* at most one for each: whatever stopped between the claim and the move of
\* the cursor (the comment of CreateScheduledRun, store/schedules.go).
RunsFireForward ==
    \A s \in ScheduleId : \A i \in 1..Len(started[s]), j \in 1..Len(started[s]) :
        i < j => started[s][i] < started[s][j]

\* The cursor passes no occurrence in silence: it, or a later one that was
\* coalesced with it, has a firing, or the backlog it is part of is not yet
\* worked off (process, service.go).
NoOccurrenceVanishes ==
    \A s \in ScheduleId : Present(s) =>
        \A t \in schedule[s].times :
            /\ schedule[s].since < t
            /\ schedule[s].next = Never \/ t < schedule[s].next
            => \/ \E u \in schedule[s].times : t <= u /\ firing[s][u] # "none"
               \/ schedule[s].next \in 1..clock

Due(s) == Present(s) /\ schedule[s].enabled /\ schedule[s].next \in 1..clock

\* Once the project stays free, every enabled schedule works off its
\* backlog: no crash, failure or lost thread leaves a cursor that each later
\* tick trips over.
CatchesUp == <>[]~blocked => \A s \in ScheduleId : []<>~Due(s)
=============================================================================
