---------------------------- MODULE MCDispatcher ----------------------------
(* Two runs of one project: the user creates the first, the scheduler the    *)
(* second; runs of other projects come and go.                               *)
EXTENDS Dispatcher

TwoRuns == {1, 2}
OneProject == <<"wing", "wing">>
SecondScheduled == {2}
=============================================================================
