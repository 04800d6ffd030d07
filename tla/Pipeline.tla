------------------------------ MODULE Pipeline ------------------------------
(***************************************************************************)
(* Pipes, redirections and command substitution: how the shell builds a    *)
(* Job from a command line (src/src/interpreter/cmd-executor.cc), connects *)
(* its processes (Job::LaunchJob, SetUpFilesDescriptor in                  *)
(* src/src/cmd-exec.cc) and reads what $(...) captures (ReadPipe).         *)
(*                                                                         *)
(* Descriptors are numbers in the table of a process, as in the code, so   *)
(* that a descriptor closed twice, or kept by the wrong process, is seen.  *)
(* Data are units: a pipe holds Cap of them, and a unit is the numbers of  *)
(* the line and the command that wrote it, 0 for the text of << and <<<.   *)
(* Of waiting, signals and the groups of processes are JobControl's.       *)
(***************************************************************************)
EXTENDS Integers, Sequences, FiniteSets

CONSTANTS
  Lines,     \* what is run: a sequence of sets of command lines, one of each
  Ttys,      \* what isatty(shell_terminal) may be
  Garbage,   \* what the uninitialised mypipe[0] may hold
  Cap,       \* how many units a pipe holds
  Size,      \* how many units the command "gen" writes
  Text,      \* how many units the text of a << is
  MaxFd,     \* bound: descriptors are 0..MaxFd
  MaxPipes,  \* bound: pipes in use at a time
  MaxPids    \* bound: processes in use at a time

(* Lines.  A line is [form, cmds]: "fg", "bg" (&) or "get" ($()), and       *)
(* commands [do, redirs].  A redirection is [op, n, all, to]: its operator, *)
(* its integer (0 if none), whether it is for both outputs, and the         *)
(* descriptor of >& and <&; to = -1 is a file that cannot be opened or a    *)
(* descriptor fd_map does not know.                                         *)
Redirection == [op : {">", "<", "<<", ">&", "<&"}, n : Nat, all : BOOLEAN, to : -1..2]
Command == [do : {"gen", "cat", "head", "warn", "bad", "cd"}, redirs : Seq(Redirection)]
CommandLine == [form : {"fg", "bg", "get"}, cmds : Seq(Command) \ {<<>>}]

ASSUME LinesAssumption == Lines \in Seq(SUBSET CommandLine)
ASSUME GarbageAssumption == Garbage \subseteq Int
ASSUME TtysAssumption == Ttys \subseteq BOOLEAN
ASSUME SizesAssumption == Cap \in Nat \ {0} /\ Size \in Nat /\ Text \in Nat
ASSUME BoundsAssumption == {MaxFd, MaxPipes, MaxPids} \subseteq Nat /\ MaxFd >= 2

VARIABLES
  tty,     \* isatty(shell_terminal)
  pc,      \* where the shell is
  line,    \* the command line it runs, or ran last
  at,      \* the command and the redirection PopulateCmd is at
  job,     \* the Job: stdin_, stdout_, stderr_, process_
  cap,     \* the pipes of a capture: numbers of their ends
  loop,    \* the locals of LaunchJob: i, infile, outfile, mypipe[0]
  fds,     \* the descriptor table of every process
  pipes,   \* the kernel's pipes
  proc,    \* the processes
  shm,     \* CmdSharedError::error
  sigchld, \* what the shell does with SIGCHLD: "DFL" or "IGN"
  sink,    \* what arrived on the shell's stdout, its stderr, in a file
  got,     \* what ReadPipe has read, and from which pipes it goes on reading
  result,  \* what the line gave, once it has ended
  odd,     \* history: was there an exception, a stray close
  ran      \* how many lines were started

shellVars == <<line, at, job, cap, loop, result, odd, ran>>
kernelVars == <<fds, pipes, proc, shm, sigchld, sink>>
vars == <<tty, pc, shellVars, kernelVars, got>>

-----------------------------------------------------------------------------
(* Descriptors.                                                            *)

Shell == 0
Pids == 1..MaxPids
Fds == 0..MaxFd
Pipes == 1..MaxPipes

Closed == [of |-> "none", pipe |-> 0]
Std(s) == [of |-> s, pipe |-> 0]
File   == [of |-> "file", pipe |-> 0]
R(q)   == [of |-> "r", pipe |-> q]
W(q)   == [of |-> "w", pipe |-> q]

AllClosed == [f \in Fds |-> Closed]
ShellTable == [AllClosed EXCEPT ![0] = Std("in"), ![1] = Std("out"), ![2] = Std("err")]

\* open gives out the lowest number that is closed, pipe the two lowest.
OpenGives(t, f) == t[f] = Closed /\ \A h \in 0..(f - 1) : t[h] # Closed
PipeGives(t, f, g) ==
  /\ OpenGives(t, f)
  /\ f < g /\ t[g] = Closed
  /\ \A h \in (f + 1)..(g - 1) : t[h] # Closed
Piped(t, q, f, g) == [t EXCEPT ![f] = R(q), ![g] = W(q)]

Close(t, fd) == IF fd \in Fds THEN [t EXCEPT ![fd] = Closed] ELSE t
CloseUnless(t, fd, kept) == IF fd = kept THEN t ELSE Close(t, fd)
Dup2(t, from, to) == IF t[from] = Closed THEN t ELSE [t EXCEPT ![to] = t[from]]
Holders(d) == {o \in {Shell} \cup Pids : \E f \in Fds : fds[o][f] = d}
\* The pipes somebody uses, and the one pipe makes.
Used == {fds[o][f].pipe : o \in {Shell} \cup Pids, f \in Fds}
NewPipe(used, q) == q \notin used /\ 1..(q - 1) \subseteq used

CloseFileDescriptor(t, fd) == IF fd \in {1, 2} THEN t ELSE Close(t, fd)

Moved(t, fd, std) ==
  IF fd = std THEN t ELSE CloseFileDescriptor(Dup2(t, fd, std), fd)

\* Mutant: stderr is moved before stdout.
SetUpErrorFirst(t, infile, outfile, errfile) ==
  Moved(Moved(Moved(t, infile, 0), errfile, 2), outfile, 1)

SetUpFilesDescriptor(t, infile, outfile, errfile) ==
  LET withIn == Moved(t, infile, 0)
      both == Dup2(Dup2(withIn, errfile, 2), outfile, 1)
  IN IF outfile = errfile
     THEN CloseFileDescriptor(both, outfile)
     ELSE Moved(Moved(withIn, outfile, 1), errfile, 2)

-----------------------------------------------------------------------------
(* Jobs.                                                                   *)

NoLine == [form |-> "fg", cmds |-> <<>>]
NoUnit == <<0, 0>>
NoProcess == [st |-> "none", do |-> "none", tag |-> NoUnit, left |-> 0, held |-> NoUnit,
              io |-> <<0, 1, 2>>, status |-> "ok"]
NoResult == [ended |-> FALSE, status |-> "ok", out |-> <<>>, err |-> <<>>]
NewJob == [stdin |-> 0, stdout |-> 1, stderr |-> 2, cmds |-> <<>>, pids |-> <<>>]
NoCapture == [out |-> -1, outw |-> -1, err |-> -1, errw |-> -1]
NoPipe == [buf |-> <<>>, nonblock |-> FALSE, by |-> "none"]
CapturePipe == [buf |-> <<>>, nonblock |-> TRUE, by |-> "capture"]
JobPipe == [buf |-> <<>>, nonblock |-> FALSE, by |-> "job"]
TextPipe == [buf |-> [i \in 1..Text |-> <<ran, 0>>], nonblock |-> FALSE, by |-> "text"]

IsPipeline == Len(line.cmds) > 1
Captured == line.form = "get"
Foreground == line.form = "fg"
JobPids == {job.pids[i] : i \in DOMAIN job.pids}

Init ==
  /\ tty \in Ttys
  /\ pc = "idle"
  /\ line = NoLine
  /\ at = [cmd |-> 1, redir |-> 1]
  /\ job = NewJob
  /\ cap = NoCapture
  /\ loop = [i |-> 1, infile |-> 0, outfile |-> 1, pipe0 |-> 0]
  /\ fds = [o \in {Shell} \cup Pids |-> IF o = Shell THEN ShellTable ELSE AllClosed]
  /\ pipes = [q \in Pipes |-> NoPipe]
  /\ proc = [p \in Pids |-> NoProcess]
  /\ shm = FALSE
  /\ sigchld = IF tty THEN "IGN" ELSE "DFL"
  /\ sink = [out |-> <<>>, err |-> <<>>, file |-> <<>>]
  /\ got = [out |-> <<>>, err |-> <<>>, open |-> {}]
  /\ result = NoResult
  /\ odd = [threw |-> FALSE, stray |-> FALSE]
  /\ ran = 0

(* The interpreter reaches a command statement or a $(...).                *)
Start ==
  /\ pc = "idle"
  /\ ran < Len(Lines)
  /\ \E l \in Lines[ran + 1] :
       /\ line' = l
       /\ pc' = IF l.form = "get" THEN "capture" ELSE "populate"
  /\ at' = [cmd |-> 1, redir |-> 1]
  /\ job' = NewJob
  /\ cap' = NoCapture
  /\ proc' = [p \in Pids |-> IF proc[p].st \in {"ended", "reaped"} THEN NoProcess ELSE proc[p]]
  /\ sink' = [out |-> <<>>, err |-> <<>>, file |-> <<>>]
  /\ got' = [out |-> <<>>, err |-> <<>>, open |-> {}]
  /\ result' = NoResult
  /\ ran' = ran + 1
  /\ UNCHANGED <<tty, loop, fds, pipes, shm, sigchld, odd>>

(* An exception leaves the executors; nothing closes what they opened.     *)
Throw ==
  /\ pc' = "idle"
  /\ odd' = [odd EXCEPT !.threw = TRUE]
  /\ UNCHANGED <<job, result, got>>

(* Two pipes are made for a capture, whose write ends do not block.        *)
OpenCapture ==
  /\ pc = "capture"
  /\ \E q, r \in Pipes :
       /\ NewPipe(Used, q) /\ NewPipe(Used \cup {q}, r)
       /\ \E f, g \in Fds :
            /\ PipeGives(fds[Shell], f, g)
            /\ \E h, k \in Fds :
                 LET half == Piped(fds[Shell], q, f, g)
                 IN /\ PipeGives(half, h, k)
                    /\ cap' = [out |-> f, outw |-> g, err |-> h, errw |-> k]
                    /\ fds' = [fds EXCEPT ![Shell] = Piped(half, r, h, k)]
       /\ pipes' = [pipes EXCEPT ![q] = CapturePipe, ![r] = CapturePipe]
  /\ job' = IF IsPipeline THEN job
            ELSE [job EXCEPT !.stdout = cap'.outw, !.stderr = cap'.errw]
  /\ pc' = "populate"
  /\ UNCHANGED <<tty, line, at, loop, proc, shm, sigchld, sink, got, result, odd, ran>>

Redirs == line.cmds[at.cmd].redirs

\* What a redirection r to the descriptor fd changes of a job.
Redirected(j, r, fd) ==
  LET ins == IF r.op \in {"<", "<<", "<&"} THEN [j EXCEPT !.stdin = fd] ELSE j
      isOut == r.n = 1 \/ (r.n = 0 /\ r.op \in {">", ">&"})
  IN IF r.all THEN [ins EXCEPT !.stdout = fd, !.stderr = fd]
     ELSE IF r.n = 2 THEN [ins EXCEPT !.stderr = fd]
     ELSE IF isOut THEN [ins EXCEPT !.stdout = fd] ELSE ins

(* One redirection of the list PrepareData goes through.  The text of << is *)
(* written before anybody could read it: a longer one than the pipe holds   *)
(* stops the shell for good.                                                *)
Redirect ==
  /\ pc = "populate"
  /\ at.redir <= Len(Redirs)
  /\ LET r == Redirs[at.redir]
     IN IF r.to = -1
        THEN Throw /\ UNCHANGED <<at, fds, pipes>>
        ELSE /\ \/ /\ r.op \in {">", "<"}
                   /\ \E f \in Fds :
                        /\ OpenGives(fds[Shell], f)
                        /\ job' = Redirected(job, r, f)
                        /\ fds' = [fds EXCEPT ![Shell][f] = File]
                   /\ UNCHANGED pipes
                \/ /\ r.op = "<<"
                   /\ Text <= Cap
                   /\ \E q \in Pipes :
                        /\ NewPipe(Used, q)
                        /\ \E f, g \in Fds :
                             /\ PipeGives(fds[Shell], f, g)
                             /\ job' = Redirected(job, r, f)
                             /\ fds' = [fds EXCEPT ![Shell][f] = R(q)]
                        /\ pipes' = [pipes EXCEPT ![q] = TextPipe]
                \/ /\ r.op \in {">&", "<&"}
                   /\ job' = Redirected(job, r, r.to)
                   /\ UNCHANGED <<fds, pipes>>
             /\ at' = [at EXCEPT !.redir = @ + 1]
             /\ UNCHANGED <<pc, result, got, odd>>
  /\ UNCHANGED <<tty, line, cap, loop, proc, shm, sigchld, sink, ran>>

(* The command joins the job: PrepareData adds it, and in a pipeline       *)
(* PopulateCmd adds it once more.  A captured pipeline gets its outputs    *)
(* last, whatever its redirections said.                                   *)
AddCommand ==
  /\ pc = "populate"
  /\ at.redir > Len(Redirs)
  /\ LET twice == IsPipeline /\ Redirs # <<>>
         cmds == job.cmds \o (IF twice THEN <<at.cmd, at.cmd>> ELSE <<at.cmd>>)
         last == at.cmd = Len(line.cmds)
         added == [job EXCEPT !.cmds = cmds]
     IN /\ job' = IF last /\ IsPipeline /\ Captured
                  THEN [added EXCEPT !.stdout = cap.outw, !.stderr = cap.errw]
                  ELSE added
        /\ pc' = IF last THEN "launch" ELSE "populate"
        /\ at' = IF last THEN at ELSE [cmd |-> at.cmd + 1, redir |-> 1]
  /\ UNCHANGED <<tty, line, cap, loop, kernelVars, got, result, odd, ran>>

-----------------------------------------------------------------------------
(* Launching.                                                              *)

Do(i) == line.cmds[job.cmds[i]].do
IsInternal == Len(job.cmds) = 1 /\ Do(1) = "cd"
N == Len(job.cmds)

\* What a write of unit to d does to the pipes and the sinks, if it succeeds.
Written(d, unit) ==
  /\ pipes' = IF d.of = "w" THEN [pipes EXCEPT ![d.pipe].buf = Append(@, unit)] ELSE pipes
  /\ sink' = IF d.of \in DOMAIN sink THEN [sink EXCEPT ![d.of] = Append(@, unit)] ELSE sink

Full(d) == d.of = "w" /\ Len(pipes[d.pipe].buf) = Cap

(* A builtin runs in the shell: a failing cd writes one message.           *)
LaunchInternalCmd ==
  /\ pc = "launch"
  /\ IsInternal
  /\ LET t == fds[Shell]
         d == t[job.stderr]
     IN /\ IF Full(d) THEN UNCHANGED <<pipes, sink>> ELSE Written(d, <<ran, 1>>)
        /\ fds' = [fds EXCEPT ![Shell] =
             CloseUnless(CloseUnless(CloseUnless(t, job.stdin, 0), job.stdout, 1), job.stderr, 2)]
  /\ pc' = "launched"
  /\ UNCHANGED <<tty, line, at, job, cap, loop, proc, shm, sigchld, got, result, odd, ran>>

BeginLoop ==
  /\ pc = "launch"
  /\ ~IsInternal
  /\ \E g \in Garbage :
       loop' = [i |-> 1, infile |-> job.stdin, outfile |-> job.stdout, pipe0 |-> g]
  /\ pc' = "fork"
  /\ UNCHANGED <<tty, line, at, job, cap, kernelVars, got, result, odd, ran>>

Started(i, infile, outfile) ==
  [st |-> "forked", do |-> Do(i), tag |-> <<ran, job.cmds[i]>>,
   left |-> IF Do(i) = "gen" THEN Size ELSE 1, held |-> NoUnit,
   io |-> <<infile, outfile, job.stderr>>, status |-> "ok"]

NewProcess(p) == proc[p].st = "none" /\ \A o \in 1..(p - 1) : proc[o].st # "none"

\* fork gives the new process p a copy of the shell's table t.
Forks(p, t, outfile) ==
  /\ fds' = [fds EXCEPT ![Shell] = t, ![p] = t]
  /\ proc' = [proc EXCEPT ![p] = Started(loop.i, loop.infile, outfile)]
  /\ job' = [job EXCEPT !.pids = Append(@, p)]

(* The next process, with a pipe to the one after it unless it is the last. *)
Fork ==
  /\ pc = "fork"
  /\ \E p \in Pids :
       /\ NewProcess(p)
       /\ \/ /\ loop.i < N
             /\ \E q \in Pipes :
                  /\ NewPipe(Used, q)
                  /\ \E f, g \in Fds :
                       /\ PipeGives(fds[Shell], f, g)
                       /\ loop' = [loop EXCEPT !.outfile = g, !.pipe0 = f]
                       /\ Forks(p, Piped(fds[Shell], q, f, g), g)
                  /\ pipes' = [pipes EXCEPT ![q] = JobPipe]
          \/ /\ loop.i >= N
             /\ loop' = [loop EXCEPT !.outfile = job.stdout]
             /\ Forks(p, fds[Shell], job.stdout)
             /\ UNCHANGED pipes
  /\ pc' = "tidy"
  /\ UNCHANGED <<tty, line, at, cap, shm, sigchld, sink, got, result, odd, ran>>

\* Mutant: the shell keeps the write end of the pipe it made.
TidiedInput == CloseUnless(fds[Shell], loop.infile, job.stdin)

\* The shell's table after it closed what process i was given.
Tidied ==
  CloseUnless(CloseUnless(fds[Shell], loop.infile, job.stdin), loop.outfile, job.stdout)

(* "clean up after pipes", and after the last process the end of a pipe     *)
(* that was closed before or, when there is one process, never made.  The   *)
(* shell waits without a terminal even for what is captured or in the       *)
(* background; only while it waits does it keep the children that end.      *)
Tidy ==
  /\ pc = "tidy"
  /\ LET last == loop.i = N
         rest == IF last THEN CloseUnless(Tidied, loop.pipe0, job.stdin) ELSE Tidied
     IN /\ fds' = [fds EXCEPT ![Shell] = rest]
        /\ odd' = [odd EXCEPT !.stray = @ \/ rest # Tidied]
        /\ pc' = IF ~last THEN "fork"
                 ELSE IF ~tty \/ Foreground THEN "wait" ELSE "launched"
        /\ sigchld' = IF pc' = "wait" THEN "DFL" ELSE sigchld
  /\ loop' = [loop EXCEPT !.i = @ + 1, !.infile = loop.pipe0]
  /\ UNCHANGED <<tty, line, at, job, cap, pipes, proc, shm, sink, got, result, ran>>

(* The end of WaitForJob and of LaunchJob: the status is that of the last   *)
(* process, or of a success if nobody reaped it.                            *)
WaitEnds ==
  /\ sigchld' = "IGN"
  /\ IF shm
     THEN Throw
     ELSE /\ result' = [result EXCEPT !.status =
               IF proc'[job.pids[N]].st = "reaped" THEN proc[job.pids[N]].status ELSE @]
          /\ pc' = "launched"
          /\ UNCHANGED <<job, got, odd>>

(* waitpid gives a child: the wait goes on only if it is one of the job's   *)
(* and not all of those have been given.                                    *)
WaitFor(p) ==
  /\ proc[p].st = "zombie"
  /\ proc' = [proc EXCEPT ![p].st = IF p \in JobPids THEN "reaped" ELSE "ended"]
  /\ IF p \in JobPids /\ \E q \in JobPids : proc'[q].st # "reaped"
     THEN UNCHANGED <<pc, sigchld, job, result, got, odd>>
     ELSE WaitEnds

(* waitpid fails: no child is left.                                         *)
WaitNoChild ==
  /\ \A p \in Pids : proc[p].st \in {"none", "reaped", "ended"}
  /\ UNCHANGED proc
  /\ WaitEnds

Wait ==
  /\ pc = "wait"
  /\ WaitNoChild \/ \E p \in Pids : WaitFor(p)
  /\ UNCHANGED <<tty, line, at, cap, loop, fds, pipes, shm, sink, ran>>

\* Mutant: a capture keeps the write end of stderr open.
ClosedStdout == Close(fds[Shell], cap.outw)

ClosedWrites == Close(Close(fds[Shell], cap.outw), cap.errw)

\* Mutant: a capture does not close what it has read stderr from.
ClosedOut == Close(fds[Shell], cap.out)

ClosedReads == Close(Close(fds[Shell], cap.out), cap.err)

(* LaunchJob is back: a capture closes its write ends and goes on to read.  *)
Return ==
  /\ pc = "launched"
  /\ IF Captured
     THEN /\ fds' = [fds EXCEPT ![Shell] = ClosedWrites]
          /\ got' = [got EXCEPT !.open = {"out", "err"}]
          /\ pc' = "read"
          /\ UNCHANGED result
     ELSE /\ result' = [result EXCEPT !.ended = TRUE]
          /\ pc' = "idle"
          /\ UNCHANGED <<fds, got>>
  /\ UNCHANGED <<tty, line, at, job, cap, loop, pipes, proc, shm, sigchld, sink, odd, ran>>

Readable(d) == d.of = "r" /\ (pipes[d.pipe].buf # <<>> \/ Holders(W(d.pipe)) = {})
SelectFails == \E x \in got.open : fds[Shell][cap[x]] = Closed

(* One read of ReadPipe: a unit, or the end of the file.                   *)
ReadPipe ==
  /\ pc = "read"
  /\ ~SelectFails
  /\ \E x \in {"out", "err"} :
       LET d == fds[Shell][cap[x]]
           buf == pipes[d.pipe].buf
       IN /\ x \in got.open
          /\ Readable(d)
          /\ IF buf # <<>>
             THEN /\ got' = [got EXCEPT ![x] = Append(@, Head(buf))]
                  /\ pipes' = [pipes EXCEPT ![d.pipe].buf = Tail(@)]
             ELSE got' = [got EXCEPT !.open = @ \ {x}] /\ UNCHANGED pipes
  /\ UNCHANGED <<tty, pc, shellVars, fds, proc, shm, sigchld, sink>>

(* The captured text becomes a command object; ExecCmdExpr gives it an     *)
(* empty string for what was read from stderr.                             *)
EndCapture ==
  /\ pc = "read"
  /\ got.open = {} \/ SelectFails
  /\ fds' = [fds EXCEPT ![Shell] = ClosedReads]
  /\ result' = [result EXCEPT !.ended = TRUE, !.out = got.out, !.err = <<>>]
  /\ pc' = "idle"
  /\ UNCHANGED <<tty, line, at, job, cap, loop, pipes, proc, shm, sigchld, sink, got, odd, ran>>

ShellStep ==
  \/ Start \/ OpenCapture \/ Redirect \/ AddCommand
  \/ LaunchInternalCmd \/ BeginLoop \/ Fork \/ Tidy \/ Wait
  \/ Return \/ ReadPipe \/ EndCapture

-----------------------------------------------------------------------------
(* The processes: "gen" writes Size units, "cat" copies its input to its   *)
(* end, "head" copies one unit and ends, "warn" writes one unit to stderr  *)
(* and fails, "bad" cannot be executed.                                    *)

\* A child that ends while SIGCHLD is ignored is not kept for waitpid.
ProcessEnds(p, status) ==
  /\ proc' = [proc EXCEPT ![p].st = IF sigchld = "IGN" THEN "ended" ELSE "zombie",
                          ![p].status = status]
  /\ fds' = [fds EXCEPT ![p] = AllClosed]

(* LaunchProcess: the child clears the error flag, and sets it when        *)
(* execvp fails.                                                           *)
LaunchProcess(p) ==
  /\ proc[p].st = "forked"
  /\ shm' = (proc[p].do = "bad")
  /\ IF proc[p].do = "bad"
     THEN ProcessEnds(p, "fail")
     ELSE /\ fds' = [fds EXCEPT ![p] = SetUpFilesDescriptor(@, proc[p].io[1], proc[p].io[2], proc[p].io[3])]
          /\ proc' = [proc EXCEPT ![p].st = "running"]
  /\ UNCHANGED <<tty, pc, shellVars, pipes, sigchld, sink, got>>

Running(p) == proc[p].st = "running"
Copies(p) == proc[p].do \in {"cat", "head"}
HasUnit(p) == IF Copies(p) THEN proc[p].held # NoUnit ELSE proc[p].left > 0
Unit(p) == IF Copies(p) THEN proc[p].held ELSE proc[p].tag

\* The process after a write or a read of one unit.
Wrote(p) ==
  IF proc[p].do = "cat" THEN [proc[p] EXCEPT !.held = NoUnit]
  ELSE [proc[p] EXCEPT !.held = NoUnit, !.left = @ - 1]

(* A write ends the process when nobody could read (SIGPIPE) or the         *)
(* descriptor is no use; a full pipe blocks it, unless O_NONBLOCK makes the *)
(* write fail.                                                              *)
ProcessWrites(p) ==
  /\ Running(p)
  /\ HasUnit(p)
  /\ LET d == fds[p][IF proc[p].do = "warn" THEN 2 ELSE 1]
         broken == d.of \in {"none", "r", "in"} \/ (d.of = "w" /\ Holders(R(d.pipe)) = {})
     IN IF broken \/ (Full(d) /\ pipes[d.pipe].nonblock)
        THEN ProcessEnds(p, "fail") /\ UNCHANGED <<pipes, sink>>
        ELSE /\ ~Full(d)
             /\ Written(d, Unit(p))
             /\ proc' = [proc EXCEPT ![p] = Wrote(p)]
             /\ UNCHANGED fds
  /\ UNCHANGED <<tty, pc, shellVars, shm, sigchld, got>>

\* Nothing comes from the terminal, a file or a closed descriptor.
ProcessReads(p) ==
  /\ Running(p)
  /\ Copies(p)
  /\ proc[p].held = NoUnit
  /\ proc[p].left > 0
  /\ LET d == fds[p][0]
     IN IF d.of = "r" /\ pipes[d.pipe].buf # <<>>
        THEN /\ proc' = [proc EXCEPT ![p].held = Head(pipes[d.pipe].buf)]
             /\ pipes' = [pipes EXCEPT ![d.pipe].buf = Tail(@)]
        ELSE /\ d.of = "r" => Readable(d)
             /\ proc' = [proc EXCEPT ![p].left = 0]
             /\ UNCHANGED pipes
  /\ UNCHANGED <<tty, pc, shellVars, fds, shm, sigchld, sink, got>>

ProcessExits(p) ==
  /\ Running(p)
  /\ ~HasUnit(p)
  /\ proc[p].left = 0
  /\ ProcessEnds(p, IF proc[p].do = "warn" THEN "fail" ELSE "ok")
  /\ UNCHANGED <<tty, pc, shellVars, pipes, shm, sigchld, sink, got>>

ProcessStep(p) ==
  LaunchProcess(p) \/ ProcessWrites(p) \/ ProcessReads(p) \/ ProcessExits(p)

Next == ShellStep \/ \E p \in Pids : ProcessStep(p)

Spec == Init /\ [][Next]_vars
FairSpec == Spec /\ WF_vars(ShellStep) /\ \A p \in Pids : WF_vars(ProcessStep(p))

-----------------------------------------------------------------------------
(* Properties.                                                             *)

\* Two processes never can write to a pipe of a pipeline: its reader sees the end
\* when its writer ends (the closes of LaunchJob between two forks, cmd-exec.cc:593).
OneWriter ==
  \A q \in Pipes : pipes[q].by = "job" => Cardinality(Holders(W(q)) \ {Shell}) <= 1

\* When a line has ended, without an exception and a stray close, the shell holds no write end and
\* reads from no pipe but texts it wrote itself: no later command is kept
\* from its end of file (LaunchJob and the captures close what they opened).
NothingKept ==
  pc = "idle" /\ ~odd.threw /\ ~odd.stray =>
    \A f \in Fds : LET d == fds[Shell][f]
                   IN d.of # "w" /\ (d.of = "r" => pipes[d.pipe].by = "text")

(* What OneWriter and NothingKept rest on: which numbers of the shell's    *)
(* table the code may close, and which of them are pipes.                  *)

Descriptors ==
  {Closed, Std("in"), Std("out"), Std("err"), File} \cup
  {R(q) : q \in Pipes} \cup {W(q) : q \in Pipes}
Units == Nat \X Nat

Tables == [Fds -> Descriptors]
JobRecords == [stdin : Fds, stdout : Fds, stderr : Fds,
               cmds : Seq(DOMAIN line.cmds), pids : Seq(Pids)]
PipeRecords == [buf : Seq(Units), nonblock : BOOLEAN, by : {"none", "capture", "job", "text"}]
ProcessRecords ==
  [st : {"none", "forked", "running", "zombie", "reaped", "ended"},
   do : {"none", "gen", "cat", "head", "warn", "bad", "cd"},
   tag : Units, left : Int, held : Units, io : Fds \X Fds \X Fds, status : {"ok", "fail"}]

TypeOK ==
  /\ pc \in {"idle", "capture", "populate", "launch", "fork", "tidy", "wait", "launched", "read"}
  /\ at \in [cmd : Nat \ {0}, redir : Nat \ {0}]
  /\ job \in JobRecords
  /\ cap \in [out : Int, outw : Int, err : Int, errw : Int]
  /\ loop \in [i : Nat, infile : Int, outfile : Int, pipe0 : Int]
  /\ fds \in [{Shell} \cup Pids -> Tables]
  /\ pipes \in [Pipes -> PipeRecords]
  /\ proc \in [Pids -> ProcessRecords]
  /\ odd \in [threw : BOOLEAN, stray : BOOLEAN]
  /\ ran \in Nat

\* The line is one that was started, and its commands join the job in their order.
LineRuns ==
  /\ pc # "idle" => ran \in DOMAIN Lines /\ line \in Lines[ran]
  /\ pc \in {"capture", "populate"} => at.cmd \in DOMAIN line.cmds /\ Len(job.cmds) >= at.cmd - 1
  /\ pc = "launch" => Len(job.cmds) >= Len(line.cmds)
  /\ pc \in {"fork", "tidy"} => loop.i \in 1..N

\* The shell's 1 and 2 are open, and 0 until a stray close.
Kept == IF odd.stray THEN {1, 2} ELSE {0, 1, 2}
KeptOpen == \A f \in Kept : fds[Shell][f] # Closed

Alive(fd) == fds[Shell][fd] # Closed \/ (fd = 0 /\ odd.stray)
JobIsOpen ==
  pc \in {"capture", "populate", "launch", "fork", "tidy"} => Alive(job.stdin) /\ Alive(job.stdout)

\* A builtin is given no number the shell must keep.
IsBuiltin == Len(line.cmds) = 1 /\ line.cmds[1].do = "cd"
BuiltinCloses ==
  pc \in {"capture", "populate", "launch"} /\ IsBuiltin =>
    /\ job.stdin \notin Kept \ {0}
    /\ job.stdout \notin Kept \ {1}
    /\ job.stderr \notin Kept \ {2}

\* A capture has four numbers of its own.
CaptureCloses ==
  /\ {cap.out, cap.outw, cap.err, cap.errw} \cap Kept = {}
  /\ Captured /\ pc \notin {"idle", "capture"} =>
       {cap.out, cap.outw, cap.err, cap.errw} \subseteq Fds
  /\ Captured /\ pc = "populate" => Alive(cap.outw)
  /\ pc \in {"capture", "read"} => Captured

\* A number LaunchJob got from pipe: not one of the job's.
Own(fd) ==
  /\ fd \in Fds \ {1, 2}
  /\ fd \in {0, job.stdin, job.stdout} => fd = 0 /\ odd.stray
LoopCloses ==
  /\ pc \in {"fork", "tidy"} => loop.infile = job.stdin \/ Own(loop.infile)
  /\ pc = "tidy" /\ loop.i < N => Own(loop.outfile) /\ loop.outfile # 0 /\ Own(loop.pipe0)
  /\ pc = "tidy" /\ loop.i >= N => loop.outfile = job.stdout

\* Who holds the ends of the pipes.
Holds(o, d) == \E f \in Fds : fds[o][f] = d
WriterAlone ==
  \A q \in Pipes : pipes[q].by = "job" =>
    \A p, o \in Pids : Holds(p, W(q)) /\ Holds(o, W(q)) => p = o
OwnOutfile(f) == pc = "tidy" /\ loop.i < N /\ f = loop.outfile
ShellLetsGo ==
  \A q \in Pipes, f \in Fds :
    pipes[q].by = "job" /\ fds[Shell][f] = W(q) => OwnOutfile(f)

Capturing == Captured /\ pc \in {"populate", "launch", "fork", "tidy", "wait", "launched"}
WritesHeld ==
  \A q \in Pipes, f \in Fds : fds[Shell][f] = W(q) =>
    OwnOutfile(f) \/ (Capturing /\ f \in {cap.outw, cap.errw})
ReadsHeld ==
  \A q \in Pipes, f \in Fds : fds[Shell][f] = R(q) =>
    \/ pipes[q].by = "text"
    \/ Captured /\ (Capturing \/ pc = "read") /\ f \in {cap.out, cap.err}
    \/ pc \in {"fork", "tidy"} /\ f = loop.infile /\ f # job.stdin
    \/ pc = "tidy" /\ loop.i < N /\ f = loop.pipe0
EndsKnown == ~odd.threw /\ ~odd.stray => WritesHeld /\ ReadsHeld

Inductive ==
  /\ TypeOK /\ LineRuns
  /\ KeptOpen /\ JobIsOpen /\ BuiltinCloses /\ CaptureCloses /\ LoopCloses
  /\ WriterAlone /\ ShellLetsGo /\ EndsKnown

RedirsOf(k) == {line.cmds[k].redirs[i] : i \in DOMAIN line.cmds[k].redirs}

\* What a line means: what the last of its commands writes to its stdout, when each
\* has the output of the one before it as its input.
Meant ==
  LET text == IF \E r \in RedirsOf(1) : r.op = "<<" THEN [i \in 1..Text |-> <<ran, 0>>] ELSE <<>>
      joined(k) == \E r \in RedirsOf(k) : r.op = ">&" /\ r.n = 2 /\ r.to = 1
      step[k \in 0..Len(line.cmds)] ==
        IF k = 0 THEN text
        ELSE CASE line.cmds[k].do = "gen" -> [i \in 1..Size |-> <<ran, k>>]
               [] line.cmds[k].do = "cat" -> step[k - 1]
               [] line.cmds[k].do = "head" -> SubSeq(step[k - 1], 1, 1)
               [] line.cmds[k].do \in {"warn", "cd"} /\ joined(k) -> << <<ran, k>> >>
               [] OTHER -> <<>>
  IN step[Len(line.cmds)]

\* Where the output of the last command goes.
Goes ==
  LET redirs == RedirsOf(Len(line.cmds))
  IN IF \E r \in redirs : r.op = ">" /\ r.n # 2 THEN "file"
     ELSE IF \E r \in redirs : r.op = ">&" /\ r.n = 1 /\ r.to = 2 THEN "err" ELSE "out"
\* Lines whose commands but the last keep their output for the next one.
Plain ==
  \A k \in 1..(Len(line.cmds) - 1) : \A r \in RedirsOf(k) :
    r.op \in {"<<", "<", "<&"} \/ r.n = 2
IsPrefixOf(a, b) == Len(a) <= Len(b) /\ a = SubSeq(b, 1, Len(a))
Arrived == 
  IF Captured THEN result.out ELSE SelectSeq(sink[Goes], LAMBDA u : u[1] = ran)

Going(p) == proc[p].st \in {"forked", "running"}
JobIsOver == \A p \in JobPids : ~Going(p)
\* Children of earlier lines that were not gone when this one began.
Strangers == {p \in Pids \ JobPids : proc[p].st # "none"}

\* What arrives in a file, on the shell's stdout or in the value of $(...) is what the
\* line means, in order and from the last command only: at no time anything else, and
\* all of it once the job is over or the capture is read.  The shell goes on before the
\* job is over only on a terminal, after & or when a child of an earlier line ended
\* meanwhile (MarkProcessStatus).  A capture may lack the end of a text that is
\* longer than a pipe holds (its write end does not block, and without a terminal
\* nobody reads before all processes ended), or all of it, if the uninitialised
\* mypipe[0] was the number of the pipe that is read.
OutputArrives ==
  result.ended /\ Plain /\ (Captured => ~odd.stray /\ Goes = "out")
    => /\ IsPrefixOf(Arrived, Meant)
       /\ JobIsOver \/ (tty /\ (Captured \/ ~Foreground \/ Strangers # {}))
       /\ \/ Len(Arrived) = Len(Meant)
          \/ Captured /\ Len(Arrived) >= Cap
          \/ ~Captured /\ ~JobIsOver

\* Every process that writes more than a pipe holds is read to its end.
Drained ==
  \A i \in 1..(N - 1) :
    Do(i) \in {"gen", "cat"} /\ (Size > Cap \/ Text > Cap) => Do(i + 1) = "cat"

\* The shell comes back from every job it launches whose commands read what is
\* written to them; the first writer of a pipe that nobody empties is never told
\* (it holds a read end of its own pipe) and the shell waits for it.  The shell
\* may also wait for ever for a child of an earlier line, when its own are over
\* and one of them ended while SIGCHLD was ignored.  A stray close
\* can take the shell's stdin, which makes 0 the number of a pipe.
WaitsForStrangers ==
  pc = "wait" /\ JobIsOver /\ \E p \in Strangers : Going(p)
JobEnds ==
  [](pc = "launch" /\ Drained
       => <>(pc = "idle" \/ odd.stray) \/ <>[]WaitsForStrangers)

=============================================================================
