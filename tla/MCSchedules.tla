---------------------------- MODULE MCSchedules ----------------------------
(* An "at", an "every" and an irregular "cron" timetable for TLC. *)
EXTENDS Schedules

Tables == {{2}, 1..Horizon, {1, 2, 3, Horizon}}
=============================================================================
