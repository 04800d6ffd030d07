----------------------------- MODULE JobControl -----------------------------
(***************************************************************************)
(* Job control of shell++: how the interpreter's own process forks the     *)
(* processes of a pipeline, gives them the terminal, waits for them and    *)
(* looks for the error of a command that could not be started              *)
(* (src/src/cmd-exec.cc, src/src/env-shell.cc).                            *)
(*                                                                         *)
(* The shell is one actor, whose program counter is pc; every process it   *)
(* forks is another.  Of the kernel the model keeps what wait(2), fork(2), *)
(* setpgid(2) and tcsetpgrp(3) say: a child that ends while SIGCHLD is     *)
(* ignored leaves no zombie and no status, a process group lives while it  *)
(* has a member, waitpid(WAIT_ANY, WUNTRACED) reports any child that ended *)
(* or stopped, once.                                                       *)
(***************************************************************************)
EXTENDS Integers, Sequences, FiniteSets

CONSTANTS
  Tty,      \* isatty(shell_terminal_): the shell reads from a terminal
  Repl,     \* interective_exec_: commands come from the prompt, not a script
  Shapes,   \* the pipelines the commands may be, each a sequence of kinds
  Forms,    \* how they may be run: "fg", "bg" (cmd &), "andor" (a && b &)
  MaxPids   \* bound: how many processes the shell ever forks

Builtins == {"cd", "exit"}                       \* CmdEntry::Type::kIn
Kinds == {"ext", "bad", "decl", "sub"} \cup Builtins
Outcomes == {"ok", "fail", "int"}                \* exit 0, exit n, by SIGINT

ASSUME ModeAssumption == Tty \in BOOLEAN /\ Repl \in BOOLEAN
ASSUME ShapesAssumption == Shapes \subseteq (Seq(Kinds) \ {<<>>})
ASSUME FormsAssumption == Forms \subseteq {"fg", "bg", "andor"}
ASSUME MaxPidsAssumption == MaxPids \in Nat \ {0}

VARIABLES
  pc,       \* where the shell is
  job,      \* the Job object being run, or the last one
  born,     \* how many processes were forked: they are 1..born
  proc,     \* the kernel's view of each process
  seen,     \* ProcessBase::completed_, stopped_, status_ of each process
  sigchld,  \* the shell's disposition of SIGCHLD
  shm,      \* CmdSharedError::error, in the segment all processes share
  fgpg,     \* the terminal's foreground group; 0 is the shell's own
  builtin,  \* CmdInEntry::status_ of the builtin run last
  last,     \* EnvShell's last_foreground_pid_, _background_pid_, _exit_code_
  report    \* what the last finished LaunchJob told its caller

kernelVars == <<born, proc, sigchld, fgpg>>
vars == <<pc, job, born, proc, seen, sigchld, shm, fgpg, builtin, last, report>>

Pids == 1..MaxPids
Halted == pc \in {"exited", "killed"}

Unborn == [kind |-> "none", grp |-> 0, pg |-> 0, st |-> "none",
           stat |-> "ok", told |-> FALSE, wrote |-> "none"]
Unmarked == [completed |-> FALSE, stopped |-> FALSE, status |-> "ok"]
NoReport == [done |-> FALSE, status |-> "ok", threw |-> FALSE, broke |-> FALSE]
NewJob(shape, form) == [shape |-> shape, form |-> form, pids |-> <<>>, pgid |-> 0]

Init ==
  /\ pc = "idle"
  /\ job = NewJob(<<>>, "fg")
  /\ born = 0
  /\ proc = [p \in Pids |-> Unborn]
  /\ seen = [p \in Pids |-> Unmarked]
  /\ sigchld = IF Tty THEN "IGN" ELSE "DFL"
  /\ shm = FALSE
  /\ fgpg = 0
  /\ builtin = "ok"
  /\ last = [fg |-> -1, bg |-> -1, exit |-> "none"]
  /\ report = NoReport

JobPids == {job.pids[i] : i \in DOMAIN job.pids}
LastPid == job.pids[Len(job.pids)]
Launched == Len(job.pids) = Len(job.shape)

(* Job::Status(): the status of the last process; a process nobody reaped  *)
(* still has the status_ it was built with, that of success.               *)
Status == IF job.pids = <<>> THEN "ok" ELSE seen[LastPid].status

GroupExists(g) == \E q \in Pids : proc[q].pg = g /\ proc[q].st \notin {"none", "gone"}

(* setpgid(p, grp): EPERM once every process of the group was reaped.      *)
Joined(p) ==
  IF /\ proc[p].st # "gone"
     /\ proc[p].grp = p \/ GroupExists(proc[p].grp)
  THEN proc[p].grp ELSE proc[p].pg

-----------------------------------------------------------------------------
(* The shell's process.                                                    *)

(* The statement executor builds a Job and calls LaunchJob: a pipeline, or *)
(* one process that is not a builtin.                                      *)
Launch(shape, form) ==
  /\ pc = "idle"
  /\ form \in Forms \ {"andor"}
  /\ Len(shape) = 1 => shape[1] \notin Builtins
  /\ born + Len(shape) <= MaxPids
  /\ pc' = "fork"
  /\ job' = NewJob(shape, form)
  /\ seen' = [p \in Pids |-> Unmarked]
  /\ report' = NoReport
  /\ UNCHANGED <<kernelVars, shm, builtin, last>>

(* A lone builtin runs in the shell's own process: cd records whether it   *)
(* failed in its entry only, exit ends the shell.                          *)
LaunchInternalCmd(shape, form) ==
  /\ pc = "idle"
  /\ form \in Forms \ {"andor"}
  /\ Len(shape) = 1 /\ shape[1] \in Builtins
  /\ job' = NewJob(shape, form)
  /\ seen' = [p \in Pids |-> Unmarked]
  /\ report' = [NoReport EXCEPT !.done = shape[1] = "cd"]
  /\ \/ /\ shape[1] = "cd"
        /\ builtin' \in {"ok", "fail"}
        /\ pc' = "idle"
     \/ /\ shape[1] = "exit"
        /\ pc' = "exited"
        /\ UNCHANGED builtin
  /\ UNCHANGED <<kernelVars, shm, last>>

(* a && b & : a process forked outside any Job runs the whole list; the    *)
(* caller gets 0, also when fork fails.                                    *)
ForkAndOr ==
  /\ pc = "idle"
  /\ "andor" \in Forms
  /\ born < MaxPids
  /\ job' = NewJob(<<>>, "andor")
  /\ seen' = [p \in Pids |-> Unmarked]
  /\ report' = NoReport
  /\ \/ /\ born' = born + 1
        /\ proc' = [proc EXCEPT ![born + 1] =
                      [Unborn EXCEPT !.kind = "andor", !.st = "running"]]
     \/ UNCHANGED <<born, proc>>
  /\ UNCHANGED <<pc, sigchld, shm, fgpg, builtin, last>>

\* Mutant: a background job is given the terminal too.
AfterForkForeground(pids) ==
  IF Len(pids) < Len(job.shape) THEN "fork" ELSE IF Tty THEN "putfg" ELSE "sigdfl"

(* Where the loop over process_ goes once process i has been forked.       *)
AfterFork(pids) ==
  IF Len(pids) < Len(job.shape) THEN "fork"
  ELSE IF ~Tty THEN "sigdfl"
  ELSE IF job.form = "fg" THEN "putfg"
  ELSE "idle"                         \* PutJobInBackground(0) does nothing

Fork ==
  LET p == born + 1
      pids == Append(job.pids, p)
  IN
  /\ pc = "fork"
  /\ born' = p
  /\ proc' = [proc EXCEPT ![p] =
                [Unborn EXCEPT !.kind = job.shape[Len(pids)],
                               !.grp = IF job.pgid = 0 THEN p ELSE job.pgid,
                               !.st = "forked"]]
  /\ job' = [job EXCEPT !.pids = pids]
  /\ last' = IF job.form = "fg" THEN [last EXCEPT !.fg = p]
                                ELSE [last EXCEPT !.bg = p]
  /\ pc' = IF Tty THEN "setpgid" ELSE AfterFork(pids)
  /\ UNCHANGED <<seen, sigchld, shm, fgpg, builtin, report>>

(* fork() or pipe() failed: exit(1), whatever is already running.          *)
ForkFails ==
  /\ pc = "fork"
  /\ pc' = "exited"
  /\ UNCHANGED <<job, kernelVars, seen, shm, builtin, last, report>>

ParentSetpgid ==
  /\ pc = "setpgid"
  /\ job' = [job EXCEPT !.pgid = IF @ = 0 THEN LastPid ELSE @]
  /\ proc' = [proc EXCEPT ![LastPid].pg = Joined(LastPid)]
  /\ pc' = AfterFork(job.pids)
  /\ UNCHANGED <<born, seen, sigchld, shm, fgpg, builtin, last, report>>

(* PutJobInForeground: tcsetpgrp fails when the group is already gone.     *)
PutJobInForeground ==
  /\ pc = "putfg"
  /\ fgpg' = IF GroupExists(job.pgid) THEN job.pgid ELSE fgpg
  /\ pc' = "sigdfl"
  /\ UNCHANGED <<job, born, proc, seen, sigchld, shm, builtin, last, report>>

\* Mutant: SIGCHLD stays ignored while the shell waits.
StartWaitIgnoring ==
  /\ pc = "sigdfl"
  /\ sigchld' = "IGN"
  /\ pc' = "wait"
  /\ UNCHANGED <<job, born, proc, seen, shm, fgpg, builtin, last, report>>

StartWait ==
  /\ pc = "sigdfl"
  /\ sigchld' = "DFL"
  /\ pc' = "wait"
  /\ UNCHANGED <<job, born, proc, seen, shm, fgpg, builtin, last, report>>

AfterWait == IF Tty THEN "restore" ELSE "report"

\* Mutant: the pid is not compared, every process of the job is marked.
MarkedAll(p, s) ==
  [q \in Pids |-> [completed |-> s # "stop", stopped |-> s = "stop", status |-> s]]

(* MarkProcessStatus on a child of this job.                               *)
Marked(p, s) ==
  [seen EXCEPT ![p] = [completed |-> @.completed \/ s # "stop",
                       stopped |-> @.stopped \/ s = "stop",
                       status |-> s]]

\* Mutant: waitpid is called once, the rest of the pipeline is not waited for.
MarkOnce(p, s) ==
  /\ seen' = IF p \in JobPids THEN Marked(p, s) ELSE seen
  /\ pc' = AfterWait /\ sigchld' = "IGN"

(* waitpid returned p: the loop goes on only if p belongs to this job and  *)
(* some process of the job has neither completed nor stopped.              *)
MarkAndLoop(p, s) ==
  IF p \in JobPids
  THEN /\ seen' = Marked(p, s)
       /\ IF \E q \in JobPids : ~seen'[q].completed /\ ~seen'[q].stopped
          THEN UNCHANGED <<pc, sigchld>>
          ELSE pc' = AfterWait /\ sigchld' = "IGN"
  ELSE /\ UNCHANGED seen
       /\ pc' = AfterWait /\ sigchld' = "IGN"

WaitReap(p) ==
  /\ pc = "wait"
  /\ proc[p].st = "zombie"
  /\ proc' = [proc EXCEPT ![p].st = "gone"]
  /\ \/ /\ proc[p].stat # "int"
        /\ MarkAndLoop(p, proc[p].stat)
        /\ UNCHANGED report
     \/ /\ proc[p].stat = "int" /\ Repl     \* set_stop(kBreak); return
        /\ pc' = AfterWait
        /\ report' = [report EXCEPT !.broke = TRUE]
        /\ UNCHANGED <<seen, sigchld>>
     \/ /\ proc[p].stat = "int" /\ ~Repl    \* kill(getpid(), SIGINT)
        /\ pc' = "killed"
        /\ UNCHANGED <<seen, sigchld, report>>
  /\ UNCHANGED <<job, born, shm, fgpg, builtin, last>>

WaitStopped(p) ==
  /\ pc = "wait"
  /\ proc[p].st = "stopped" /\ ~proc[p].told
  /\ proc' = [proc EXCEPT ![p].told = TRUE]
  /\ MarkAndLoop(p, "stop")
  /\ UNCHANGED <<job, born, shm, fgpg, builtin, last, report>>

\* Mutant: waitpid is called again after it failed.
WaitNoChildRetry ==
  /\ pc = "wait"
  /\ \A p \in Pids : proc[p].st \in {"none", "gone"}
  /\ UNCHANGED vars

(* waitpid fails with ECHILD: nothing was left to wait for.                *)
WaitNoChild ==
  /\ pc = "wait"
  /\ \A p \in Pids : proc[p].st \in {"none", "gone"}
  /\ pc' = AfterWait /\ sigchld' = "IGN"
  /\ UNCHANGED <<job, born, proc, seen, shm, fgpg, builtin, last, report>>

\* Mutant: the terminal is not taken back.
RestoreForgotten ==
  /\ pc = "restore"
  /\ pc' = "report"
  /\ UNCHANGED <<job, born, proc, seen, sigchld, shm, fgpg, builtin, last, report>>

(* The end of PutJobInForeground: the terminal goes back to the shell.     *)
Restore ==
  /\ pc = "restore"
  /\ fgpg' = 0
  /\ pc' = "report"
  /\ UNCHANGED <<job, born, proc, seen, sigchld, shm, builtin, last, report>>

(* The end of LaunchJob: the exit code is stored and CheckCmdError throws  *)
(* if the shared segment says that a command failed.                       *)
Report ==
  /\ pc = "report"
  /\ last' = [last EXCEPT !.exit = Status]
  /\ report' = [report EXCEPT !.done = TRUE, !.status = Status, !.threw = shm]
  /\ pc' = "idle"
  /\ UNCHANGED <<job, kernelVars, seen, shm, builtin>>

ShellStep ==
  \/ Fork \/ ParentSetpgid \/ PutJobInForeground \/ StartWait
  \/ \E p \in Pids : WaitReap(p) \/ WaitStopped(p)
  \/ WaitNoChild \/ Restore \/ Report

-----------------------------------------------------------------------------
(* The processes it forked.                                                *)

shellVars == <<pc, job, born, seen, sigchld, fgpg, builtin, last, report>>

(* SetUpFilesDescriptor: the child joins its group too.  Its own call of   *)
(* Tcsetpgrp does nothing, because its pid is not the shell's.             *)
ChildSetUp(p) ==
  /\ proc[p].st = "forked"
  /\ proc' = [proc EXCEPT ![p] =
                [@ EXCEPT !.pg = IF Tty THEN Joined(p) ELSE proc[p].pg,
                          !.st = IF proc[p].kind = "sub" THEN "running" ELSE "setup"]]
  /\ UNCHANGED <<shellVars, shm>>

\* Mutant: the child does not clear the error of an earlier command.
ChildKeepsError(p) ==
  /\ proc[p].st = "setup"
  /\ proc' = [proc EXCEPT ![p] = [@ EXCEPT !.st = "cleared", !.wrote = "clear"]]
  /\ UNCHANGED <<shellVars, shm>>

(* Process::LaunchProcess: err->error = false.                             *)
ChildClearError(p) ==
  /\ proc[p].st = "setup"
  /\ shm' = FALSE
  /\ proc' = [proc EXCEPT ![p] = [@ EXCEPT !.st = "cleared", !.wrote = "clear"]]
  /\ UNCHANGED shellVars

(* A child that ends while its parent ignores SIGCHLD is reaped at once.   *)
Ended(p, s) ==
  [proc EXCEPT ![p] =
     [@ EXCEPT !.st = IF sigchld = "IGN" \/ Halted THEN "gone" ELSE "zombie",
               !.stat = s]]

(* execvp succeeds, or a declared command or a builtin starts to run.      *)
ChildStart(p) ==
  /\ proc[p].st = "cleared" /\ proc[p].kind # "bad"
  /\ proc' = [proc EXCEPT ![p].st = "running"]
  /\ UNCHANGED <<shellVars, shm>>

(* execvp fails, or a declared command throws: err->error = true, exit(-1).*)
ChildFails(p) ==
  /\ \/ proc[p].st = "cleared" /\ proc[p].kind = "bad"
     \/ proc[p].st = "running" /\ proc[p].kind = "decl"
  /\ shm' = TRUE
  /\ proc' = [Ended(p, "fail") EXCEPT ![p].wrote = "error"]
  /\ UNCHANGED shellVars

(* A process that interprets shell code runs a command of its own, whose   *)
(* LaunchProcess clears or sets the same segment.                          *)
ChildRunsCmd(p) ==
  /\ proc[p].st = "running" /\ proc[p].kind \in {"decl", "sub", "andor"}
  /\ shm' \in BOOLEAN
  /\ proc' = [proc EXCEPT ![p].wrote = IF shm' THEN "error" ELSE "clear"]
  /\ UNCHANGED shellVars

(* A builtin of a pipeline runs in the child, which then calls exit(0).    *)
ChildExits(p) ==
  /\ proc[p].st = "running"
  /\ \E s \in {"ok", "fail"} :
       /\ proc[p].kind = "cd" => s = "ok"
       /\ proc' = Ended(p, s)
  /\ UNCHANGED <<shellVars, shm>>

(* SIGINT, which a process that set itself up takes by default.            *)
ChildInterrupted(p) ==
  /\ proc[p].st \in {"setup", "cleared", "running"}
  /\ proc' = Ended(p, "int")
  /\ UNCHANGED <<shellVars, shm>>

(* Ctrl-Z, or a background process that reads the terminal; and SIGCONT.   *)
ChildStops(p) ==
  /\ Tty
  /\ proc[p].st = "running"
  /\ proc' = [proc EXCEPT ![p] = [@ EXCEPT !.st = "stopped", !.told = FALSE]]
  /\ UNCHANGED <<shellVars, shm>>

ChildContinues(p) ==
  /\ proc[p].st = "stopped"
  /\ proc' = [proc EXCEPT ![p].st = "running"]
  /\ UNCHANGED <<shellVars, shm>>

(* What every process does sooner or later, if commands do end.            *)
ChildStep(p) ==
  ChildSetUp(p) \/ ChildClearError(p) \/ ChildStart(p) \/ ChildExits(p)
  \/ (proc[p].st = "cleared" /\ ChildFails(p))

(* The user leaves the prompt alone, or the shell is no more.              *)
Rest == (pc = "idle" \/ Halted) /\ UNCHANGED vars

Next ==
  \/ \E shape \in Shapes, form \in Forms :
       Launch(shape, form) \/ LaunchInternalCmd(shape, form)
  \/ ForkAndOr
  \/ ForkFails
  \/ ShellStep
  \/ \E p \in Pids :
       \/ ChildStep(p) \/ ChildFails(p) \/ ChildRunsCmd(p)
       \/ ChildInterrupted(p) \/ ChildStops(p) \/ ChildContinues(p)
  \/ Rest

Spec == Init /\ [][Next]_vars

(* The shell runs whenever it can, and so does each process: commands end. *)
Fairness ==
  /\ WF_vars(ShellStep)
  /\ \A p \in Pids : WF_vars(ChildStep(p))

FairSpec == Spec /\ Fairness

-----------------------------------------------------------------------------
(* What should be true of it.                                              *)

KernelType ==
  [kind : Kinds \cup {"none", "andor"}, grp : 0..MaxPids, pg : 0..MaxPids,
   st : {"none", "forked", "setup", "cleared", "running", "stopped", "zombie", "gone"},
   stat : Outcomes, told : BOOLEAN, wrote : {"none", "clear", "error"}]
MarkType == [completed : BOOLEAN, stopped : BOOLEAN, status : Outcomes \cup {"stop"}]
JobType ==
  [shape : Seq(Kinds), form : {"fg", "bg", "andor"}, pids : Seq(Pids), pgid : 0..MaxPids]
LastType == [fg : Int, bg : Int, exit : Outcomes \cup {"none", "stop"}]
ReportType ==
  [done : BOOLEAN, status : Outcomes \cup {"stop"}, threw : BOOLEAN, broke : BOOLEAN]

\* Every variable stays in its domain, and a Job never holds more processes than
\* its pipeline has, nor a pid that was not forked (LaunchJob).
TypeOK ==
  /\ pc \in {"idle", "fork", "setpgid", "putfg", "sigdfl", "wait", "restore",
             "report", "exited", "killed"}
  /\ born \in 0..MaxPids
  /\ job \in JobType
  /\ Len(job.pids) <= Len(job.shape)
  /\ \A i \in DOMAIN job.pids : job.pids[i] <= born
  /\ proc \in [Pids -> KernelType]
  /\ seen \in [Pids -> MarkType]
  /\ sigchld \in {"DFL", "IGN"}
  /\ shm \in BOOLEAN
  /\ fgpg \in 0..MaxPids
  /\ builtin \in Outcomes
  /\ last \in LastType
  /\ report \in ReportType

\* A status other than success that LaunchJob reports is never invented, nor
\* taken from another process: it is how the last process of that very
\* pipeline ended, or that it was stopped (WaitForJob, MarkProcessStatus,
\* Status).
ReportSound ==
  /\ report.done /\ report.status \notin {"ok", "stop"} =>
       proc[LastPid].st = "gone" /\ proc[LastPid].stat = report.status
  /\ report.status = "stop" => Tty /\ Launched

\* The terminal belongs to the shell except while it waits for the foreground
\* job it gave it to: not in idle, not to a background job, and not to a job
\* that is over (PutJobInForeground).
TerminalOwner ==
  fgpg # 0 => /\ Tty /\ pc \in {"sigdfl", "wait", "restore", "killed"}
              /\ job.form = "fg" /\ fgpg = job.pgid

\* Without a terminal and outside the prompt, nothing a script ran as a command
\* or with & outlives the statement: when the interpreter goes on, every process
\* was reaped, whatever the order in which they ended (WaitForJob).
NothingOutlives == pc = "idle" => \A p \in Pids : proc[p].st \in {"none", "gone"}

\* CheckCmdError throws for a job of one process that came to write the shared
\* segment exactly when an error is what it wrote last, although the segment is
\* one for the shell's whole life.
ErrorIsOwn ==
  pc = "idle" /\ report.done /\ Len(job.pids) = 1 /\ Launched
    /\ proc[LastPid].wrote # "none" =>
    (report.threw <=> proc[LastPid].wrote = "error")

\* The interpreter comes back from every job, if the commands it runs end and
\* none of them is stopped (LaunchJob, WaitForJob).
JobReturns == pc = "fork" ~> (pc = "idle" \/ Halted)

-----------------------------------------------------------------------------
(* Why those that are invariants are: an inductive invariant.              *)

Waiting == {"putfg", "sigdfl", "wait", "restore", "report"}

(* There is a process left to fork exactly in the loop, and a pid for it.  *)
Room ==
  /\ pc = "fork" => Len(job.pids) < Len(job.shape)
  /\ pc \in {"fork", "setpgid"} =>
       born + Len(job.shape) <= MaxPids + Len(job.pids)
  /\ pc \in {"setpgid"} \cup Waiting => job.pids # <<>>
  /\ pc \in Waiting => Launched

Owner ==
  /\ TerminalOwner
  /\ pc \in {"setpgid", "putfg", "restore"} => Tty
  /\ pc \in {"putfg", "restore"} => job.form = "fg"
  /\ pc \in {"sigdfl", "wait", "restore"} /\ Tty => job.form = "fg"

(* What a mark says of a process never stops being true of it.             *)
Kept ==
  /\ \A p \in Pids :
       /\ p > born => proc[p].st = "none"
       /\ proc[p].st = "stopped" => Tty
       /\ seen[p].status = "stop" => Tty
       /\ seen[p].status \notin {"ok", "stop"} =>
            proc[p].st = "gone" /\ proc[p].stat = seen[p].status
  /\ report.done => pc \in {"idle", "exited"}
  /\ report.status # "ok" =>
       report.done /\ job.pids # <<>> /\ Launched /\ report.status = Status

\* The four facts together, which every step of the shell and of its children
\* preserves: what TypeOK, TerminalOwner and ReportSound rest on.
Inductive == TypeOK /\ Room /\ Owner /\ Kept

-----------------------------------------------------------------------------
(* What the code's comments, tests and documents say, and the code does    *)
(* not do.                                                                 *)

\* "return signal SIGCHLD for default action to get the result of child
\* process" (cmd-exec.cc:400): success is reported only of a pipeline whose last
\* process succeeded.
FailureReported ==
  pc = "idle" /\ report.done /\ ~report.threw /\ report.status = "ok"
    /\ job.pids # <<>> => proc[LastPid].stat = "ok"
=============================================================================
