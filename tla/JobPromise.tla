----------------------------- MODULE JobPromise -----------------------------
(***************************************************************************)
(* What a script that runs without a terminal may rely on when it runs a   *)
(* command (src/src/cmd-exec.cc, Job::LaunchJob): the next statement runs  *)
(* only when every process of the pipeline is over, and the status it sees *)
(* is the status of the last one.  The code keeps the second half for the  *)
(* first job only: from then on SIGCHLD is ignored between jobs, and a     *)
(* process that is quick enough leaves no status behind, so that success   *)
(* may be reported instead.                                                *)
(***************************************************************************)
EXTENDS Naturals

CONSTANTS Statuses, MaxLen

VARIABLES
  phase,   \* "idle", "busy" with a job, or "over"
  todo,    \* how many processes of the job have still to end
  truth,   \* how the last process of the job ended
  said,    \* the status reported for it
  fresh    \* no job was reported yet

vars == <<phase, todo, truth, said, fresh>>

Init == phase = "idle" /\ todo = 0 /\ truth = "ok" /\ said = "ok" /\ fresh = TRUE

Start ==
  /\ phase = "idle"
  /\ phase' = "busy" /\ todo' \in 1..MaxLen
  /\ truth' = "ok" /\ said' = "ok"
  /\ UNCHANGED fresh

\* Some process of the job ends: it may be the last of the pipeline.
ProcessEnds ==
  /\ phase = "busy" /\ todo > 0
  /\ todo' = todo - 1
  /\ truth' \in Statuses
  /\ UNCHANGED <<phase, said, fresh>>

Return ==
  /\ phase = "busy" /\ todo = 0
  /\ phase' = "idle"
  /\ said' \in (IF fresh THEN {truth} ELSE {truth, "ok"})
  /\ fresh' = FALSE
  /\ UNCHANGED <<todo, truth>>

\* A builtin: no process, and success whatever it did.
RunBuiltin ==
  /\ phase = "idle"
  /\ truth' = "ok" /\ said' = "ok"
  /\ UNCHANGED <<phase, todo, fresh>>

\* exit, a failed fork, or the signal that killed the last command.
Quit ==
  /\ phase # "over"
  /\ phase' = "over" /\ todo' = 0 /\ truth' = "ok" /\ said' = "ok"
  /\ UNCHANGED fresh

Next == Start \/ ProcessEnds \/ Return \/ RunBuiltin \/ Quit

Spec == Init /\ [][Next]_vars
=============================================================================
