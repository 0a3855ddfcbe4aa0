---------------------------- MODULE ShootAbstract ----------------------------
(***************************************************************************)
(* What shoot_vector (src/src/median_calculation/run_random_vector.cpp)    *)
(* promises its caller, with the threads, the schedule and the timing     *)
(* left out: the result vector starts with N default rows; each index is   *)
(* computed once, in any order, and its row is never replaced; the call    *)
(* returns once every row is computed, or the process ends early.          *)
(***************************************************************************)
EXTENDS Naturals

CONSTANTS
  N,      \* num_random_vector
  Rows,   \* the rows a draw may compute
  NoRow   \* the default row of a result vector sized to N

VARIABLES
  out,    \* the result vector
  st      \* "running", "returned" or "aborted"

avars == <<out, st>>

Indices == 0 .. N - 1

AInit ==
  /\ out = [i \in Indices |-> NoRow]
  /\ st = "running"

(* One index computed: its row is stored, once.  The row is named by the *)
(* next state so that Rows may be any set.                               *)
Compute(i) ==
  /\ st = "running"
  /\ out[i] = NoRow
  /\ out'[i] \in Rows
  /\ out' = [out EXCEPT ![i] = out'[i]]
  /\ UNCHANGED st

(* The call returns its vector, every row computed. *)
Finish ==
  /\ st = "running"
  /\ \A i \in Indices : out[i] # NoRow
  /\ st' = "returned"
  /\ UNCHANGED out

(* The process ends inside the call. *)
Fail ==
  /\ st = "running"
  /\ st' = "aborted"
  /\ UNCHANGED out

ANext == (\E i \in Indices : Compute(i)) \/ Finish \/ Fail

(* What the caller may observe step by step. *)
ASafety == AInit /\ [][ANext]_avars

(* ... and a call whose rows are all computed returns. *)
ASpec == ASafety /\ WF_avars(Finish)

=============================================================================
