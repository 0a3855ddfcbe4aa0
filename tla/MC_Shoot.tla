------------------------------- MODULE MC_Shoot -------------------------------
(* Model-checking instance of Shoot: two threads, three draws (so that the *)
(* static split has a remainder iteration), both schedules.               *)
EXTENDS Shoot

MCDurations == {1, 2}
MCEngineCalls == {1, 2}
MCSchedules == {"static", "dynamic"}
=============================================================================
