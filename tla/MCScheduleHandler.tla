------------------------- MODULE MCScheduleHandler -------------------------
(***************************************************************************)
(* Small instance of ScheduleHandler: three timers, so that a task can add *)
(* one timer and stop another in the middle of a scan; delays of zero (the *)
(* delay startConnection uses), one and two clock steps.                   *)
(***************************************************************************)
EXTENDS ScheduleHandler

MCDelays == {0, 1, 2}
=============================================================================
