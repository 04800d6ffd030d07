---------------------------- MODULE JobRefinement ----------------------------
(***************************************************************************)
(* JobControl, run without a terminal and outside the prompt, implements   *)
(* JobPromise.                                                             *)
(***************************************************************************)
EXTENDS JobControl

CONSTANT MaxLen   \* the longest pipeline of Shapes

ASSUME MaxLenAssumption ==
  MaxLen \in Nat /\ \A shape \in Shapes : Len(shape) <= MaxLen

Over(p) == proc[p].st \in {"zombie", "gone"}

phaseMap == IF Halted THEN "over" ELSE IF pc = "idle" THEN "idle" ELSE "busy"
todoMap ==
  IF phaseMap # "busy" THEN 0
  ELSE Len(job.shape) - Cardinality({p \in JobPids : Over(p)})
truthMap ==
  IF ~Halted /\ job.pids # <<>> /\ Launched /\ Over(LastPid)
  THEN proc[LastPid].stat ELSE "ok"
saidMap == IF Halted THEN "ok" ELSE report.status
freshMap == IF pc = "idle" THEN born = 0 ELSE born = Len(job.pids)

Promise == INSTANCE JobPromise WITH
  Statuses <- Outcomes,
  phase <- phaseMap, todo <- todoMap, truth <- truthMap,
  said <- saidMap, fresh <- freshMap

\* A script goes on after a command only when each of its processes is over,
\* the first command's status is exact, and a later one's is either exact or
\* the success of a status that was lost (LaunchJob, WaitForJob, Status).
KeepsPromise == Promise!Spec

-----------------------------------------------------------------------------
(* Why it does: what holds of a script besides Inductive.                  *)

(* The mode: a script's own commands, none of them a && b &.               *)
Script == ~Tty /\ ~Repl /\ "andor" \notin Forms

Quiet == \A p \in Pids : proc[p].st \in {"none", "gone"}

(* The processes of the job are the newest, and only they may still run.   *)
OwnProcesses ==
  /\ Len(job.pids) <= born
  /\ \A i \in DOMAIN job.pids : job.pids[i] = born - Len(job.pids) + i
  /\ \A p \in Pids : p <= born => proc[p].st # "none"
  /\ \A p \in Pids : proc[p].st \notin {"none", "gone"} => p \in JobPids

(* A process is marked only once it was reaped, and none is left when the  *)
(* loop over waitpid is over.                                              *)
Reaped ==
  /\ pc \in {"idle", "report"} => Quiet
  /\ \A p \in Pids : ~seen[p].stopped /\ (seen[p].completed => proc[p].st = "gone")

(* The segment is as the only process of the job left it, and so is what   *)
(* LaunchJob made of it.                                                   *)
Segment ==
  /\ Len(job.pids) = 1 /\ Launched /\ proc[LastPid].wrote # "none" =>
       (shm <=> proc[LastPid].wrote = "error")
  /\ report.done /\ job.pids # <<>> => pc = "idle" /\ report.threw = shm

(* Until the first job is over SIGCHLD has its default action, so that no  *)
(* status of that job is lost.                                             *)
FirstJob ==
  freshMap /\ ~Halted =>
    /\ pc # "report" => sigchld = "DFL"
    /\ \A p \in JobPids : proc[p].st = "gone" => seen[p].status = proc[p].stat

\* The four facts which, with Inductive, every step of a script preserves:
\* what NothingOutlives, ErrorIsOwn and KeepsPromise rest on.
ScriptInductive == OwnProcesses /\ Reaped /\ Segment /\ FirstJob
=============================================================================
