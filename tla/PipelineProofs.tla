-------------------------- MODULE PipelineProofs --------------------------
(***************************************************************************)
(* Proofs about Pipeline: which descriptors the shell closes, and that no  *)
(* end of a pipe is held by somebody who should not hold it.               *)
(***************************************************************************)
EXTENDS Pipeline, FiniteSetTheorems, TLAPS

\* Every descriptor of s is one of t, or closed.
Within(s, t) ==
  s \in Tables /\ \A f \in Fds : s[f] = Closed \/ \E g \in Fds : s[f] = t[g]

-----------------------------------------------------------------------------
(* Tables.                                                                 *)

LEMMA NumbersInt == Fds \subseteq Nat /\ Pids \subseteq Nat \ {0} /\ Pipes \subseteq Nat \ {0} /\ {0, 1, 2} \subseteq Fds
  BY BoundsAssumption DEF Fds, Pids, Pipes

LEMMA Ends ==
  ASSUME NEW q, NEW r
  PROVE  /\ R(q) # Closed /\ W(q) # Closed /\ R(q) # W(r) /\ File # Closed
         /\ R(q) # File /\ W(q) # File
         /\ R(q) = R(r) => q = r
         /\ W(q) = W(r) => q = r
         /\ R(q).pipe = q /\ W(q).pipe = q
         /\ R(q).of = "r" /\ W(q).of = "w"
  BY DEF R, W, Closed, File

LEMMA Kinds ==
  /\ Closed \in Descriptors /\ File \in Descriptors
  /\ \A q \in Pipes : R(q) \in Descriptors /\ W(q) \in Descriptors
  /\ \A d \in Descriptors : d.of = "w" => d.pipe \in Pipes /\ d = W(d.pipe)
  /\ \A d \in Descriptors : d.of = "r" => d.pipe \in Pipes /\ d = R(d.pipe)
<1>1. Closed \in Descriptors /\ File \in Descriptors
  BY DEF Descriptors
<1>2. \A q \in Pipes : R(q) \in Descriptors /\ W(q) \in Descriptors
  BY DEF Descriptors
<1>3. ASSUME NEW d \in Descriptors
      PROVE  /\ d.of = "w" => d.pipe \in Pipes /\ d = W(d.pipe)
             /\ d.of = "r" => d.pipe \in Pipes /\ d = R(d.pipe)
  <2>1. CASE \E q \in Pipes : d = R(q)
    BY <2>1 DEF R
  <2>2. CASE \E q \in Pipes : d = W(q)
    BY <2>2 DEF W
  <2>3. CASE d \in {Closed, Std("in"), Std("out"), Std("err"), File}
    BY <2>3 DEF Closed, Std, File
  <2> QED BY <2>1, <2>2, <2>3 DEF Descriptors
<1> QED BY <1>1, <1>2, <1>3

LEMMA CloseUnlessIs ==
  ASSUME NEW t \in Tables, NEW fd, NEW kept
  PROVE  /\ CloseUnless(t, fd, kept) \in Tables
         /\ \A f \in Fds :
              CloseUnless(t, fd, kept)[f] = IF f = fd /\ fd # kept THEN Closed ELSE t[f]
  BY Kinds DEF CloseUnless, Close, Tables

LEMMA CloseIs ==
  ASSUME NEW t \in Tables, NEW fd
  PROVE  /\ Close(t, fd) \in Tables
         /\ \A f \in Fds : Close(t, fd)[f] = IF f = fd THEN Closed ELSE t[f]
  BY Kinds DEF Close, Tables

LEMMA WithinOnce ==
  ASSUME NEW t \in Tables, NEW fd \in Fds, NEW from \in Fds
  PROVE  /\ Within(t, t)
         /\ Within(CloseFileDescriptor(t, fd), t)
         /\ Within(Dup2(t, from, fd), t)
<1>1. Within(t, t)
  BY DEF Within, Tables
<1>2. Within(CloseFileDescriptor(t, fd), t)
  BY <1>1, CloseIs DEF Within, CloseFileDescriptor
<1>3. Within(Dup2(t, from, fd), t)
  BY <1>1 DEF Within, Dup2, Tables
<1> QED BY <1>1, <1>2, <1>3

LEMMA WithinTwice ==
  ASSUME NEW t, NEW s, NEW u, Within(s, t), Within(u, s)
  PROVE  Within(u, t)
  BY DEF Within

LEMMA MovedWithin ==
  ASSUME NEW t \in Tables, NEW fd \in Fds, NEW std \in Fds
  PROVE  Within(Moved(t, fd, std), t)
<1>1. CASE fd = std
  BY <1>1, WithinOnce DEF Moved
<1>2. CASE fd # std
  <2>1. Within(Dup2(t, fd, std), t)
    BY WithinOnce
  <2>2. Within(CloseFileDescriptor(Dup2(t, fd, std), fd), Dup2(t, fd, std))
    BY <2>1, WithinOnce DEF Within
  <2> QED BY <1>2, <2>1, <2>2, WithinTwice DEF Moved
<1> QED BY <1>1, <1>2

\* What a process is given as its standard descriptors are descriptors it had.
LEMMA SetUpWithin ==
  ASSUME NEW t \in Tables, NEW infile \in Fds, NEW outfile \in Fds, NEW errfile \in Fds
  PROVE  Within(SetUpFilesDescriptor(t, infile, outfile, errfile), t)
<1> DEFINE withIn == Moved(t, infile, 0)
           one == Dup2(withIn, errfile, 2)
           both == Dup2(one, outfile, 1)
<1>0. {0, 1, 2} \subseteq Fds
  BY NumbersInt
<1>1. Within(withIn, t)
  BY <1>0, MovedWithin
<1> HIDE DEF withIn
<1>2. Within(one, t)
  <2>1. Within(one, withIn)
    BY <1>0, <1>1, WithinOnce DEF Within
  <2> QED BY <1>1, <2>1, WithinTwice
<1>3. Within(both, t)
  <2> HIDE DEF one
  <2>1. Within(both, one)
    BY <1>0, <1>2, WithinOnce DEF Within
  <2> QED BY <1>2, <2>1, WithinTwice
<1>4. Within(CloseFileDescriptor(both, outfile), t)
  <2> HIDE DEF both
  <2>1. Within(CloseFileDescriptor(both, outfile), both)
    BY <1>3, WithinOnce DEF Within
  <2> QED BY <1>3, <2>1, WithinTwice
<1>5. Within(Moved(Moved(withIn, outfile, 1), errfile, 2), t)
  <2> DEFINE out == Moved(withIn, outfile, 1)
  <2>0. Within(out, withIn)
    BY <1>0, <1>1, MovedWithin DEF Within
  <2>1. Within(out, t)
    BY <1>1, <2>0, WithinTwice
  <2> HIDE DEF out
  <2>2. Within(Moved(out, errfile, 2), out)
    BY <1>0, <2>1, MovedWithin DEF Within
  <2> QED BY <2>1, <2>2, WithinTwice DEF out
<1> QED BY <1>4, <1>5 DEF SetUpFilesDescriptor, withIn, one, both

-----------------------------------------------------------------------------
(* Types.                                                                  *)

LEMMA LineTyped ==
  ASSUME LineRuns, pc # "idle"
  PROVE  /\ line \in CommandLine
         /\ line.cmds \in Seq(Command) /\ Len(line.cmds) \in Nat \ {0}
         /\ DOMAIN line.cmds = 1..Len(line.cmds)
         /\ \A k \in DOMAIN line.cmds :
              /\ line.cmds[k] \in Command
              /\ \A i \in 1..Len(line.cmds[k].redirs) : line.cmds[k].redirs[i] \in Redirection
<1>1. line \in CommandLine
  BY LinesAssumption DEF LineRuns
<1>2. line.cmds \in Seq(Command) \ {<<>>}
  BY <1>1 DEF CommandLine
<1>3. /\ Len(line.cmds) \in Nat \ {0} /\ DOMAIN line.cmds = 1..Len(line.cmds)
      /\ \A k \in DOMAIN line.cmds : line.cmds[k] \in Command
  BY <1>2
<1>4. ASSUME NEW k \in DOMAIN line.cmds, NEW i \in 1..Len(line.cmds[k].redirs)
      PROVE  line.cmds[k].redirs[i] \in Redirection
  BY <1>3, <1>4 DEF Command
<1> QED BY <1>1, <1>2, <1>3, <1>4

LEMMA NewRecords ==
  /\ NoProcess \in ProcessRecords
  /\ NoPipe \in PipeRecords /\ CapturePipe \in PipeRecords /\ JobPipe \in PipeRecords
  /\ NewJob \in JobRecords
<1>1. NoProcess \in ProcessRecords
  <2>1. <<0, 1, 2>> \in Fds \X Fds \X Fds /\ NoUnit \in Units
    BY NumbersInt DEF NoUnit, Units
  <2> QED BY <2>1 DEF NoProcess, ProcessRecords
<1>2. NoPipe \in PipeRecords /\ CapturePipe \in PipeRecords /\ JobPipe \in PipeRecords
  BY DEF NoPipe, CapturePipe, JobPipe, PipeRecords
<1>3. NewJob \in JobRecords
  BY NumbersInt DEF NewJob, JobRecords
<1> QED BY <1>1, <1>2, <1>3

LEMMA TextRecord == ran \in Nat => TextPipe \in PipeRecords
<1>1. ran \in Nat => [i \in 1..Text |-> <<ran, 0>>] \in Seq(Units)
  BY SizesAssumption DEF Units
<1> QED BY <1>1 DEF TextPipe, PipeRecords

LEMMA TypesStart ==
  ASSUME Init
  PROVE  TypeOK
<1>1. fds \in [{Shell} \cup Pids -> Tables]
  <2>1. AllClosed \in Tables /\ ShellTable \in Tables
    BY NumbersInt DEF ShellTable, AllClosed, Std, Closed, Descriptors, Tables
  <2> QED BY <2>1 DEF Init
<1>2. pipes \in [Pipes -> PipeRecords] /\ proc \in [Pids -> ProcessRecords] /\ job \in JobRecords
  BY NewRecords DEF Init
<1>3. /\ cap \in [out : Int, outw : Int, err : Int, errw : Int]
      /\ loop \in [i : Nat, infile : Int, outfile : Int, pipe0 : Int]
  BY DEF Init, NoCapture
<1> QED BY <1>1, <1>2, <1>3 DEF Init, TypeOK

LEMMA StartTypes ==
  ASSUME TypeOK, Start
  PROVE  TypeOK'
<1>1. proc' \in [Pids -> ProcessRecords]
  <2>1. proc \in [Pids -> ProcessRecords]
    BY DEF TypeOK
  <2>2. proc' = [p \in Pids |-> IF proc[p].st \in {"ended", "reaped"} THEN NoProcess ELSE proc[p]]
    BY DEF Start
  <2> QED BY <2>1, <2>2, NewRecords
<1>2. job' \in JobRecords'
  <2>1. job' = NewJob
    BY DEF Start
  <2> QED BY <2>1, NumbersInt DEF NewJob, JobRecords
<1>3. /\ cap' \in [out : Int, outw : Int, err : Int, errw : Int]
      /\ at' \in [cmd : Nat \ {0}, redir : Nat \ {0}]
      /\ ran' \in Nat
      /\ pc' \in {"capture", "populate"}
  BY DEF Start, NoCapture, TypeOK
<1>4. UNCHANGED <<loop, fds, pipes, odd>>
  BY DEF Start
<1> QED BY <1>1, <1>2, <1>3, <1>4 DEF TypeOK

LEMMA PipedIs ==
  ASSUME NEW t \in Tables, NEW q \in Pipes, NEW f \in Fds, NEW g \in Fds, f # g
  PROVE  /\ Piped(t, q, f, g) \in Tables
         /\ \A h \in Fds : Piped(t, q, f, g)[h] =
              IF h = f THEN R(q) ELSE IF h = g THEN W(q) ELSE t[h]
<1>1. R(q) \in Descriptors /\ W(q) \in Descriptors
  BY Kinds
<1> QED BY <1>1 DEF Piped, Tables

LEMMA TablesOf ==
  ASSUME TypeOK
  PROVE  fds[Shell] \in Tables /\ \A p \in Pids : fds[p] \in Tables
  BY DEF TypeOK

LEMMA OpenCaptureTypes ==
  ASSUME TypeOK, OpenCapture
  PROVE  TypeOK'
<1> USE NumbersInt
<1>1. PICK q \in Pipes, r \in Pipes :
        /\ pipes' = [pipes EXCEPT ![q] = CapturePipe, ![r] = CapturePipe]
        /\ \E f, g, h, k \in Fds :
             /\ f # g /\ h # k
             /\ cap' = [out |-> f, outw |-> g, err |-> h, errw |-> k]
             /\ fds' = [fds EXCEPT ![Shell] = Piped(Piped(fds[Shell], q, f, g), r, h, k)]
  <2>1. ASSUME NEW t, NEW f \in Fds, NEW g \in Fds, PipeGives(t, f, g)
        PROVE  f # g
    BY <2>1 DEF PipeGives
  <2> QED BY ZenonT(30), <2>1 DEF OpenCapture
<1>2. PICK f, g, h, k \in Fds :
             /\ f # g /\ h # k
             /\ cap' = [out |-> f, outw |-> g, err |-> h, errw |-> k]
             /\ fds' = [fds EXCEPT ![Shell] = Piped(Piped(fds[Shell], q, f, g), r, h, k)]
  BY <1>1
<1>3. fds' \in [{Shell} \cup Pids -> Tables]
  <2>1. Piped(fds[Shell], q, f, g) \in Tables
    BY <1>2, TablesOf, PipedIs
  <2>2. Piped(Piped(fds[Shell], q, f, g), r, h, k) \in Tables
    BY <1>2, <2>1, PipedIs
  <2>3. fds \in [{Shell} \cup Pids -> Tables]
    BY DEF TypeOK
  <2> QED BY <1>2, <2>2, <2>3
<1>4. pipes' \in [Pipes -> PipeRecords]
  <2>1. pipes \in [Pipes -> PipeRecords]
    BY DEF TypeOK
  <2> QED BY <1>1, <2>1, NewRecords
<1>5. cap' \in [out : Int, outw : Int, err : Int, errw : Int]
  BY <1>2
<1>6. job' \in JobRecords'
  <2>1. job' \in {job, [job EXCEPT !.stdout = g, !.stderr = k]} /\ line' = line
    BY <1>2 DEF OpenCapture
  <2>2. job \in JobRecords
    BY DEF TypeOK
  <2> QED BY <2>1, <2>2 DEF JobRecords
<1>7. UNCHANGED <<at, loop, proc, odd, ran>> /\ pc' = "populate"
  BY DEF OpenCapture
<1> QED BY <1>3, <1>4, <1>5, <1>6, <1>7 DEF TypeOK

\* What a redirection changes of a job.
LEMMA RedirectedIs ==
  ASSUME job \in JobRecords, NEW r, NEW fd \in Fds
  PROVE  /\ Redirected(job, r, fd) \in JobRecords
         /\ Redirected(job, r, fd).cmds = job.cmds
         /\ Redirected(job, r, fd).stdin \in {job.stdin, fd}
         /\ Redirected(job, r, fd).stdout \in {job.stdout, fd}
         /\ Redirected(job, r, fd).stderr \in {job.stderr, fd}
  BY DEF JobRecords, Redirected

LEMMA RedirectionTyped ==
  ASSUME TypeOK, LineRuns, pc = "populate", at.redir <= Len(Redirs)
  PROVE  Redirs[at.redir] \in Redirection
<1>1. at.cmd \in DOMAIN line.cmds
  BY DEF LineRuns
<1>2. at.redir \in Nat \ {0}
  BY DEF TypeOK
<1>3. line.cmds[at.cmd] \in Command
  BY <1>1, LineTyped
<1>4. Redirs \in Seq(Redirection)
  BY <1>3 DEF Command, Redirs
<1> QED BY <1>2, <1>4

\* The four ways a redirection is carried out.
LEMMA RedirectCases ==
  ASSUME TypeOK, LineRuns, Redirect
  PROVE  LET r == Redirs[at.redir]
         IN /\ r \in Redirection
            /\ \/ /\ r.to = -1
                  /\ UNCHANGED <<at, job, fds, pipes>>
                  /\ pc' = "idle" /\ odd' = [odd EXCEPT !.threw = TRUE]
               \/ /\ at' = [at EXCEPT !.redir = @ + 1]
                  /\ UNCHANGED <<pc, odd>>
                  /\ \/ \E f \in Fds : /\ fds[Shell][f] = Closed
                                       /\ job' = Redirected(job, r, f)
                                       /\ fds' = [fds EXCEPT ![Shell][f] = File]
                                       /\ UNCHANGED pipes
                     \/ \E q \in Pipes, f \in Fds :
                           /\ NewPipe(Used, q)
                           /\ fds[Shell][f] = Closed
                           /\ job' = Redirected(job, r, f)
                           /\ fds' = [fds EXCEPT ![Shell][f] = R(q)]
                           /\ pipes' = [pipes EXCEPT ![q] = TextPipe]
                     \/ /\ r.op \in {">&", "<&"} /\ r.to \in {0, 1, 2}
                        /\ job' = Redirected(job, r, r.to)
                        /\ UNCHANGED <<fds, pipes>>
<1>1. Redirs[at.redir] \in Redirection
  BY RedirectionTyped DEF Redirect
<1>2. CASE Redirs[at.redir].to = -1
  BY <1>1, <1>2 DEF Redirect, Throw
<1>3. CASE Redirs[at.redir].to # -1
  <2>1. Redirs[at.redir].to \in {0, 1, 2}
    BY <1>1, <1>3 DEF Redirection
  <2> QED BY <1>1, <1>3, <2>1 DEF Redirect, OpenGives, PipeGives
<1> QED BY <1>2, <1>3

LEMMA RedirectTypes ==
  ASSUME TypeOK, LineRuns, Redirect
  PROVE  TypeOK'
<1> DEFINE r == Redirs[at.redir]
<1>0. /\ job \in JobRecords /\ fds \in [{Shell} \cup Pids -> Tables]
      /\ pipes \in [Pipes -> PipeRecords] /\ ran \in Nat
  BY DEF TypeOK
<1>1. /\ fds' \in [{Shell} \cup Pids -> Tables]
      /\ pipes' \in [Pipes -> PipeRecords]
      /\ job' \in JobRecords
  <2>1. CASE UNCHANGED <<job, fds, pipes>>
    BY <1>0, <2>1
  <2>2. CASE \E q \in Pipes, f \in Fds, d \in Descriptors :
               /\ job' = Redirected(job, r, f)
               /\ fds' = [fds EXCEPT ![Shell][f] = d]
               /\ pipes' \in {pipes, [pipes EXCEPT ![q] = TextPipe]}
    <3>1. PICK q \in Pipes, f \in Fds, d \in Descriptors :
               /\ job' = Redirected(job, r, f)
               /\ fds' = [fds EXCEPT ![Shell][f] = d]
               /\ pipes' \in {pipes, [pipes EXCEPT ![q] = TextPipe]}
      BY <2>2
    <3>2. job' \in JobRecords
      BY <1>0, <3>1, RedirectedIs
    <3>3. fds' \in [{Shell} \cup Pids -> Tables]
      BY <1>0, <3>1 DEF Tables
    <3>4. pipes' \in [Pipes -> PipeRecords]
      BY <1>0, <3>1, TextRecord
    <3> QED BY <3>2, <3>3, <3>4
  <2>3. CASE \E f \in Fds : job' = Redirected(job, r, f) /\ UNCHANGED <<fds, pipes>>
    BY <1>0, <2>3, RedirectedIs
  <2>4. CASE \E f \in Fds : /\ job' = Redirected(job, r, f)
                            /\ fds' = [fds EXCEPT ![Shell][f] = File]
                            /\ UNCHANGED pipes
    <3>1. PICK f \in Fds : /\ job' = Redirected(job, r, f)
                           /\ fds' = [fds EXCEPT ![Shell][f] = File]
                           /\ UNCHANGED pipes
      BY <2>4
    <3>2. job' \in JobRecords
      BY <1>0, <3>1, RedirectedIs
    <3>3. fds' \in [{Shell} \cup Pids -> Tables]
      BY <1>0, <3>1, Kinds DEF Tables
    <3> QED BY <1>0, <3>1, <3>2, <3>3
  <2> HIDE DEF r
  <2> QED BY <2>1, <2>2, <2>3, <2>4, RedirectCases, Kinds, NumbersInt DEF r
<1>2. UNCHANGED <<cap, loop, proc, ran, line>>
  BY DEF Redirect
<1>3. /\ at' \in [cmd : Nat \ {0}, redir : Nat \ {0}]
      /\ odd' \in [threw : BOOLEAN, stray : BOOLEAN]
      /\ pc' \in {"populate", "idle"}
  <2>1. /\ at' \in {at, [at EXCEPT !.redir = @ + 1]}
        /\ odd' \in {odd, [odd EXCEPT !.threw = TRUE]}
        /\ pc' \in {"populate", "idle"}
    BY DEF Redirect, Throw
  <2>2. at \in [cmd : Nat \ {0}, redir : Nat \ {0}] /\ odd \in [threw : BOOLEAN, stray : BOOLEAN]
    BY DEF TypeOK
  <2>3. [at EXCEPT !.redir = @ + 1] \in [cmd : Nat \ {0}, redir : Nat \ {0}]
    <3>1. at.cmd \in Nat \ {0} /\ at.redir + 1 \in Nat \ {0}
      BY <2>2
    <3> QED BY <2>2, <3>1
  <2>4. [odd EXCEPT !.threw = TRUE] \in [threw : BOOLEAN, stray : BOOLEAN]
    BY <2>2
  <2> QED BY <2>1, <2>2, <2>3, <2>4
<1>4. JobRecords' = JobRecords
  BY <1>2 DEF JobRecords
<1> QED BY <1>1, <1>2, <1>3, <1>4 DEF TypeOK

LEMMA OnceOrTwice ==
  ASSUME NEW S, NEW x \in S
  PROVE  <<x>> \in Seq(S) /\ <<x, x>> \in Seq(S)
  OBVIOUS

LEMMA Joined ==
  ASSUME NEW S, NEW a \in Seq(S), NEW b \in Seq(S)
  PROVE  Len(a) \in Nat /\ Len(b) \in Nat /\ Len(a \o b) = Len(a) + Len(b)
  OBVIOUS

LEMMA FirstOne ==
  ASSUME NEW S, NEW a \in Seq(S), Len(a) = 1
  PROVE  a[1] \in S
  OBVIOUS

LEMMA AddCommandTypes ==
  ASSUME TypeOK, LineRuns, CaptureCloses, AddCommand
  PROVE  TypeOK'
<1>1. at.cmd \in DOMAIN line.cmds /\ at \in [cmd : Nat \ {0}, redir : Nat \ {0}] /\ job \in JobRecords
  BY DEF AddCommand, LineRuns, TypeOK
<1>2. job' \in JobRecords
  <2>1. PICK s \in {<<at.cmd>>, <<at.cmd, at.cmd>>} :
          job' = IF at.cmd = Len(line.cmds) /\ IsPipeline /\ Captured
                 THEN [job EXCEPT !.cmds = job.cmds \o s, !.stdout = cap.outw, !.stderr = cap.errw]
                 ELSE [job EXCEPT !.cmds = job.cmds \o s]
    BY DEF AddCommand
  <2>2. s \in Seq(DOMAIN line.cmds)
    BY <1>1, <2>1, OnceOrTwice
  <2>3. job.cmds \o s \in Seq(DOMAIN line.cmds)
    BY <1>1, <2>2 DEF JobRecords
  <2>4. Captured => cap.outw \in Fds /\ cap.errw \in Fds
    BY DEF CaptureCloses, AddCommand
  <2> QED BY <1>1, <2>1, <2>3, <2>4 DEF JobRecords
<1>3. /\ at' \in [cmd : Nat \ {0}, redir : Nat \ {0}]
      /\ pc' \in {"launch", "populate"}
      /\ UNCHANGED <<line, cap, loop, fds, pipes, proc, odd, ran>>
  BY <1>1 DEF AddCommand, kernelVars
<1>4. JobRecords' = JobRecords
  BY <1>3 DEF JobRecords
<1> QED BY <1>2, <1>3, <1>4 DEF TypeOK

LEMMA WrittenTypes ==
  ASSUME pipes \in [Pipes -> PipeRecords],
         NEW d \in Descriptors, NEW unit \in Units, Written(d, unit)
  PROVE  /\ pipes' \in [Pipes -> PipeRecords]
         /\ \A q \in Pipes : pipes'[q].by = pipes[q].by
<1>1. CASE d.of = "w"
  <2>1. d.pipe \in Pipes
    BY <1>1, Kinds
  <2>2. Append(pipes[d.pipe].buf, unit) \in Seq(Units)
    BY <2>1 DEF PipeRecords
  <2>3. pipes' = [pipes EXCEPT ![d.pipe] = [@ EXCEPT !.buf = Append(pipes[d.pipe].buf, unit)]]
    BY <1>1, <2>1 DEF Written
  <2>4. [pipes[d.pipe] EXCEPT !.buf = Append(pipes[d.pipe].buf, unit)] \in PipeRecords
    BY <2>1, <2>2 DEF PipeRecords
  <2>5. [pipes[d.pipe] EXCEPT !.buf = Append(pipes[d.pipe].buf, unit)].by = pipes[d.pipe].by
    BY <2>1 DEF PipeRecords
  <2> QED BY <2>1, <2>3, <2>4, <2>5
<1>2. CASE d.of # "w"
  BY <1>2 DEF Written
<1> QED BY <1>1, <1>2

LEMMA ReadTypes ==
  ASSUME pipes \in [Pipes -> PipeRecords], NEW q \in Pipes, pipes[q].buf # <<>>,
         pipes' = [pipes EXCEPT ![q].buf = Tail(@)]
  PROVE  /\ pipes' \in [Pipes -> PipeRecords]
         /\ \A r \in Pipes : pipes'[r].by = pipes[r].by
         /\ Head(pipes[q].buf) \in Units
<1>1. pipes[q].buf \in Seq(Units)
  BY DEF PipeRecords
<1>2. Tail(pipes[q].buf) \in Seq(Units) /\ Head(pipes[q].buf) \in Units
  BY <1>1
<1>3. /\ [pipes[q] EXCEPT !.buf = Tail(pipes[q].buf)] \in PipeRecords
      /\ [pipes[q] EXCEPT !.buf = Tail(pipes[q].buf)].by = pipes[q].by
  BY <1>2 DEF PipeRecords
<1>4. pipes' = [pipes EXCEPT ![q] = [@ EXCEPT !.buf = Tail(pipes[q].buf)]]
  OBVIOUS
<1> QED BY <1>2, <1>3, <1>4

LEMMA LaunchInternalTypes ==
  ASSUME TypeOK, LaunchInternalCmd
  PROVE  TypeOK'
<1> DEFINE one == CloseUnless(fds[Shell], job.stdin, 0)
           two == CloseUnless(one, job.stdout, 1)
           three == CloseUnless(two, job.stderr, 2)
<1>0. /\ job \in JobRecords /\ fds \in [{Shell} \cup Pids -> Tables]
      /\ pipes \in [Pipes -> PipeRecords] /\ ran \in Nat
  BY DEF TypeOK
<1>1. one \in Tables
  BY TablesOf, CloseUnlessIs
<1>2. two \in Tables
  <2> HIDE DEF one
  <2> QED BY <1>1, CloseUnlessIs
<1>3. three \in Tables
  <2> HIDE DEF two
  <2> QED BY <1>2, CloseUnlessIs
<1>4. fds' \in [{Shell} \cup Pids -> Tables]
  <2>1. fds' = [fds EXCEPT ![Shell] = three]
    BY DEF LaunchInternalCmd
  <2> HIDE DEF three
  <2> QED BY <1>0, <1>3, <2>1
<1>5. pipes' \in [Pipes -> PipeRecords]
  <2>1. <<ran, 1>> \in Units /\ fds[Shell][job.stderr] \in Descriptors
    BY <1>0 DEF Units, Tables, JobRecords
  <2>2. CASE UNCHANGED pipes
    BY <1>0, <2>2
  <2>3. CASE Written(fds[Shell][job.stderr], <<ran, 1>>)
    BY <1>0, <2>1, <2>3, WrittenTypes
  <2> QED BY <2>2, <2>3 DEF LaunchInternalCmd
<1>6. pc' = "launched" /\ UNCHANGED <<line, at, job, cap, loop, proc, odd, ran>>
  BY DEF LaunchInternalCmd
<1>7. JobRecords' = JobRecords
  BY <1>6 DEF JobRecords
<1> QED BY <1>4, <1>5, <1>6, <1>7 DEF TypeOK

LEMMA BeginLoopTypes ==
  ASSUME TypeOK, BeginLoop
  PROVE  TypeOK'
<1>1. loop' \in [i : Nat, infile : Int, outfile : Int, pipe0 : Int]
  <2>1. job.stdin \in Int /\ job.stdout \in Int
    <3>1. job \in JobRecords
      BY DEF TypeOK
    <3>2. job.stdin \in Fds /\ job.stdout \in Fds
      BY <3>1 DEF JobRecords
    <3> QED BY <3>2, BoundsAssumption DEF Fds
  <2> QED BY <2>1, GarbageAssumption DEF BeginLoop
<1>2. pc' = "fork" /\ UNCHANGED <<line, at, job, cap, fds, pipes, proc, odd, ran>>
  BY DEF BeginLoop, kernelVars
<1>3. JobRecords' = JobRecords
  BY <1>2 DEF JobRecords
<1> QED BY <1>1, <1>2, <1>3 DEF TypeOK

\* A fork makes a process, and a pipe unless it is the last.
LEMMA ForkCases ==
  ASSUME TypeOK, Fork
  PROVE  \E p \in Pids :
           \/ \E q \in Pipes, f \in Fds, g \in Fds :
                /\ loop.i < N /\ f < g
                /\ fds[Shell][f] = Closed /\ fds[Shell][g] = Closed
                /\ NewPipe(Used, q)
                /\ loop' = [loop EXCEPT !.outfile = g, !.pipe0 = f]
                /\ Forks(p, Piped(fds[Shell], q, f, g), g)
                /\ pipes' = [pipes EXCEPT ![q] = JobPipe]
           \/ /\ loop.i >= N
              /\ loop' = [loop EXCEPT !.outfile = job.stdout]
              /\ Forks(p, fds[Shell], job.stdout)
              /\ UNCHANGED pipes
  BY DEF Fork, PipeGives, OpenGives

LEMMA ForksTypes ==
  ASSUME TypeOK, LineRuns, LoopCloses, pc = "fork",
         NEW p \in Pids, NEW t \in Tables, NEW outfile \in Fds, Forks(p, t, outfile)
  PROVE  /\ fds' \in [{Shell} \cup Pids -> Tables]
         /\ proc' \in [Pids -> ProcessRecords]
         /\ job' \in JobRecords
<1>0. /\ job \in JobRecords /\ fds \in [{Shell} \cup Pids -> Tables]
      /\ proc \in [Pids -> ProcessRecords] /\ ran \in Nat
  BY DEF TypeOK
<1>1. fds' \in [{Shell} \cup Pids -> Tables]
  BY <1>0 DEF Forks
<1>2. Started(loop.i, loop.infile, outfile) \in ProcessRecords
  <2>1. job.cmds[loop.i] \in DOMAIN line.cmds
    BY <1>0 DEF LineRuns, JobRecords, N
  <2>2. Do(loop.i) \in {"gen", "cat", "head", "warn", "bad", "cd"}
    BY <2>1, LineTyped DEF Do, Command
  <2>3. <<ran, job.cmds[loop.i]>> \in Units
    BY <1>0, <2>1, LineTyped DEF Units
  <2>4. <<loop.infile, outfile, job.stderr>> \in Fds \X Fds \X Fds
    BY <1>0 DEF LoopCloses, Own, JobRecords
  <2>5. NoUnit \in Units
    BY DEF NoUnit, Units
  <2>6. (IF Do(loop.i) = "gen" THEN Size ELSE 1) \in Int
    BY SizesAssumption
  <2> QED BY <2>2, <2>3, <2>4, <2>5, <2>6 DEF Started, ProcessRecords
<1>3. proc' \in [Pids -> ProcessRecords]
  BY <1>0, <1>2 DEF Forks
<1>4. job' \in JobRecords
  <2>1. job' = [job EXCEPT !.pids = Append(job.pids, p)]
    BY DEF Forks
  <2>2. Append(job.pids, p) \in Seq(Pids)
    BY <1>0 DEF JobRecords
  <2> QED BY <1>0, <2>1, <2>2 DEF JobRecords
<1> QED BY <1>1, <1>3, <1>4

LEMMA ForkTypes ==
  ASSUME TypeOK, LineRuns, LoopCloses, Fork
  PROVE  TypeOK'
<1>0. /\ job \in JobRecords /\ pipes \in [Pipes -> PipeRecords]
      /\ loop \in [i : Nat, infile : Int, outfile : Int, pipe0 : Int]
      /\ job.stdout \in Fds /\ Fds \subseteq Int
  BY BoundsAssumption DEF TypeOK, JobRecords, Fds
<1>1. /\ fds' \in [{Shell} \cup Pids -> Tables]
      /\ proc' \in [Pids -> ProcessRecords]
      /\ job' \in JobRecords
      /\ pipes' \in [Pipes -> PipeRecords]
      /\ loop' \in [i : Nat, infile : Int, outfile : Int, pipe0 : Int]
  <2>1. PICK p \in Pids :
           \/ \E q \in Pipes, f \in Fds, g \in Fds :
                /\ loop.i < N /\ f < g
                /\ fds[Shell][f] = Closed /\ fds[Shell][g] = Closed
                /\ NewPipe(Used, q)
                /\ loop' = [loop EXCEPT !.outfile = g, !.pipe0 = f]
                /\ Forks(p, Piped(fds[Shell], q, f, g), g)
                /\ pipes' = [pipes EXCEPT ![q] = JobPipe]
           \/ /\ loop.i >= N
              /\ loop' = [loop EXCEPT !.outfile = job.stdout]
              /\ Forks(p, fds[Shell], job.stdout)
              /\ UNCHANGED pipes
    BY ForkCases
  <2>2. CASE \E q \in Pipes, f \in Fds, g \in Fds :
                /\ f < g
                /\ loop' = [loop EXCEPT !.outfile = g, !.pipe0 = f]
                /\ Forks(p, Piped(fds[Shell], q, f, g), g)
                /\ pipes' = [pipes EXCEPT ![q] = JobPipe]
    <3>1. PICK q \in Pipes, f \in Fds, g \in Fds :
                /\ f < g
                /\ loop' = [loop EXCEPT !.outfile = g, !.pipe0 = f]
                /\ Forks(p, Piped(fds[Shell], q, f, g), g)
                /\ pipes' = [pipes EXCEPT ![q] = JobPipe]
      BY <2>2
    <3>2. f # g
      BY <1>0, <3>1
    <3>3. Piped(fds[Shell], q, f, g) \in Tables
      BY <3>2, PipedIs, TablesOf
    <3>4. /\ fds' \in [{Shell} \cup Pids -> Tables]
          /\ proc' \in [Pids -> ProcessRecords]
          /\ job' \in JobRecords
      BY <3>1, <3>3, ForksTypes DEF Fork
    <3>5. pipes' \in [Pipes -> PipeRecords]
      BY <1>0, <3>1, NewRecords
    <3>6. loop' \in [i : Nat, infile : Int, outfile : Int, pipe0 : Int]
      BY <1>0, <3>1
    <3> QED BY <3>4, <3>5, <3>6
  <2>3. CASE /\ loop' = [loop EXCEPT !.outfile = job.stdout]
             /\ Forks(p, fds[Shell], job.stdout)
             /\ UNCHANGED pipes
    <3>1. /\ fds' \in [{Shell} \cup Pids -> Tables]
          /\ proc' \in [Pids -> ProcessRecords]
          /\ job' \in JobRecords
      BY <1>0, <2>3, ForksTypes, TablesOf DEF Fork
    <3> QED BY <1>0, <2>3, <3>1
  <2> QED BY <2>1, <2>2, <2>3
<1>2. pc' = "tidy" /\ UNCHANGED <<line, at, cap, odd, ran>>
  BY DEF Fork
<1>3. JobRecords' = JobRecords
  BY <1>2 DEF JobRecords
<1> QED BY <1>1, <1>2, <1>3 DEF TypeOK

\* The shell's table after Tidy.
LEMMA TidiedIs ==
  ASSUME TypeOK
  PROVE  /\ Tidied \in Tables
         /\ \A f \in Fds : Tidied[f] =
              IF (f = loop.infile /\ f # job.stdin) \/ (f = loop.outfile /\ f # job.stdout)
              THEN Closed ELSE fds[Shell][f]
<1> DEFINE one == CloseUnless(fds[Shell], loop.infile, job.stdin)
<1>1. one \in Tables /\ \A f \in Fds :
        one[f] = IF f = loop.infile /\ loop.infile # job.stdin THEN Closed ELSE fds[Shell][f]
  BY TablesOf, CloseUnlessIs
<1> HIDE DEF one
<1>2. /\ CloseUnless(one, loop.outfile, job.stdout) \in Tables
      /\ \A f \in Fds : CloseUnless(one, loop.outfile, job.stdout)[f] =
           IF f = loop.outfile /\ loop.outfile # job.stdout THEN Closed ELSE one[f]
  BY <1>1, CloseUnlessIs
<1> QED BY <1>1, <1>2 DEF Tidied, one

LEMMA TidyIs ==
  ASSUME TypeOK, Tidy
  PROVE  \E t \in Tables :
           /\ fds' = [fds EXCEPT ![Shell] = t]
           /\ odd' = [odd EXCEPT !.stray = odd.stray \/ t # Tidied]
           /\ loop.i # N => t = Tidied
           /\ \A f \in Fds : t[f] = IF loop.i = N /\ f = loop.pipe0 /\ f # job.stdin
                                    THEN Closed ELSE Tidied[f]
<1> DEFINE t == IF loop.i = N THEN CloseUnless(Tidied, loop.pipe0, job.stdin) ELSE Tidied
<1>1. /\ fds' = [fds EXCEPT ![Shell] = t]
      /\ odd' = [odd EXCEPT !.stray = odd.stray \/ t # Tidied]
  BY DEF Tidy
<1>2. t \in Tables /\ \A f \in Fds : t[f] = IF loop.i = N /\ f = loop.pipe0 /\ f # job.stdin
                                    THEN Closed ELSE Tidied[f]
  BY TidiedIs, CloseUnlessIs
<1>3. loop.i # N => t = Tidied
  OBVIOUS
<1> HIDE DEF t
<1> QED BY <1>1, <1>2, <1>3

LEMMA TidyTypes ==
  ASSUME TypeOK, Tidy
  PROVE  TypeOK'
<1>0. /\ fds \in [{Shell} \cup Pids -> Tables]
      /\ loop \in [i : Nat, infile : Int, outfile : Int, pipe0 : Int]
      /\ odd \in [threw : BOOLEAN, stray : BOOLEAN]
  BY DEF TypeOK
<1>1. PICK t \in Tables : /\ fds' = [fds EXCEPT ![Shell] = t]
                         /\ odd' = [odd EXCEPT !.stray = odd.stray \/ t # Tidied]
  BY TidyIs
<1>2. fds' \in [{Shell} \cup Pids -> Tables]
  BY <1>0, <1>1
<1>3. odd' \in [threw : BOOLEAN, stray : BOOLEAN]
  <2>1. (odd.stray \/ t # Tidied) \in BOOLEAN
    OBVIOUS
  <2> QED BY <1>0, <1>1, <2>1
<1>4. loop' \in [i : Nat, infile : Int, outfile : Int, pipe0 : Int]
  <2>1. loop' = [loop EXCEPT !.i = loop.i + 1, !.infile = loop.pipe0]
    BY DEF Tidy
  <2>2. loop.i + 1 \in Nat
    BY <1>0
  <2> QED BY <1>0, <2>1, <2>2
<1>5. /\ pc' \in {"fork", "wait", "launched"}
      /\ UNCHANGED <<line, at, job, cap, pipes, proc, ran>>
  BY DEF Tidy
<1>6. JobRecords' = JobRecords
  BY <1>5 DEF JobRecords
<1> QED BY <1>2, <1>3, <1>4, <1>5, <1>6 DEF TypeOK

LEMMA WaitTypes ==
  ASSUME TypeOK, Wait
  PROVE  TypeOK'
<1>1. /\ pc' \in {"wait", "idle", "launched"}
      /\ odd' \in {odd, [odd EXCEPT !.threw = TRUE]}
      /\ UNCHANGED <<line, at, job, cap, loop, fds, pipes, ran>>
  BY DEF Wait, WaitFor, WaitNoChild, WaitEnds, Throw
<1>2. odd' \in [threw : BOOLEAN, stray : BOOLEAN]
  <2>1. odd \in [threw : BOOLEAN, stray : BOOLEAN]
    BY DEF TypeOK
  <2> QED BY <1>1, <2>1
<1>3. JobRecords' = JobRecords
  BY <1>1 DEF JobRecords
<1>4. proc' \in [Pids -> ProcessRecords]
  <2>1. proc \in [Pids -> ProcessRecords]
    BY DEF TypeOK
  <2>2. CASE WaitNoChild
    BY <2>1, <2>2 DEF WaitNoChild
  <2>3. ASSUME NEW p \in Pids, WaitFor(p)
        PROVE  proc' \in [Pids -> ProcessRecords]
    <3>1. PICK st \in {"reaped", "ended"} : proc' = [proc EXCEPT ![p].st = st]
      BY <2>3 DEF WaitFor
    <3>2. [proc[p] EXCEPT !.st = st] \in ProcessRecords
      BY <2>1 DEF ProcessRecords
    <3> QED BY <2>1, <3>1, <3>2
  <2> QED BY <2>2, <2>3 DEF Wait
<1> QED BY <1>1, <1>2, <1>3, <1>4 DEF TypeOK

LEMMA ClosedIs ==
  ASSUME TypeOK
  PROVE  /\ ClosedWrites \in Tables /\ ClosedReads \in Tables
         /\ \A f \in Fds : ClosedWrites[f] =
              IF f \in {cap.outw, cap.errw} THEN Closed ELSE fds[Shell][f]
         /\ \A f \in Fds : ClosedReads[f] =
              IF f \in {cap.out, cap.err} THEN Closed ELSE fds[Shell][f]
<1>1. ASSUME NEW fd, NEW also
      PROVE  /\ Close(Close(fds[Shell], fd), also) \in Tables
             /\ \A f \in Fds : Close(Close(fds[Shell], fd), also)[f] =
                  IF f \in {fd, also} THEN Closed ELSE fds[Shell][f]
  <2> DEFINE one == Close(fds[Shell], fd)
  <2>1. one \in Tables /\ \A f \in Fds : one[f] = IF f = fd THEN Closed ELSE fds[Shell][f]
    BY TablesOf, CloseIs
  <2> HIDE DEF one
  <2>2. /\ Close(one, also) \in Tables
        /\ \A f \in Fds : Close(one, also)[f] = IF f = also THEN Closed ELSE one[f]
    BY <2>1, CloseIs
  <2> QED BY <2>1, <2>2 DEF one
<1> QED BY <1>1 DEF ClosedWrites, ClosedReads

LEMMA ReturnTypes ==
  ASSUME TypeOK, Return
  PROVE  TypeOK'
<1>1. fds' \in [{Shell} \cup Pids -> Tables]
  <2>1. fds \in [{Shell} \cup Pids -> Tables]
    BY DEF TypeOK
  <2>2. fds' \in {fds, [fds EXCEPT ![Shell] = ClosedWrites]}
    BY DEF Return
  <2> QED BY <2>1, <2>2, ClosedIs
<1>2. /\ pc' \in {"read", "idle"}
      /\ UNCHANGED <<line, at, job, cap, loop, pipes, proc, odd, ran>>
  BY DEF Return
<1>3. JobRecords' = JobRecords
  BY <1>2 DEF JobRecords
<1> QED BY <1>1, <1>2, <1>3 DEF TypeOK

LEMMA EndCaptureTypes ==
  ASSUME TypeOK, EndCapture
  PROVE  TypeOK'
<1>1. fds' \in [{Shell} \cup Pids -> Tables]
  <2>1. fds \in [{Shell} \cup Pids -> Tables]
    BY DEF TypeOK
  <2>2. fds' = [fds EXCEPT ![Shell] = ClosedReads]
    BY DEF EndCapture
  <2> QED BY <2>1, <2>2, ClosedIs
<1>2. /\ pc' = "idle"
      /\ UNCHANGED <<line, at, job, cap, loop, pipes, proc, odd, ran>>
  BY DEF EndCapture
<1>3. JobRecords' = JobRecords
  BY <1>2 DEF JobRecords
<1> QED BY <1>1, <1>2, <1>3 DEF TypeOK

LEMMA ReadPipeTypes ==
  ASSUME TypeOK, CaptureCloses, ReadPipe
  PROVE  TypeOK' /\ \A q \in Pipes : pipes'[q].by = pipes[q].by
<1>0. pipes \in [Pipes -> PipeRecords]
  BY DEF TypeOK
<1>1. pipes' \in [Pipes -> PipeRecords] /\ \A q \in Pipes : pipes'[q].by = pipes[q].by
  <2>1. PICK x \in {"out", "err"} :
          LET d == fds[Shell][cap[x]]
          IN /\ Readable(d)
             /\ \/ UNCHANGED pipes
                \/ /\ pipes[d.pipe].buf # <<>>
                   /\ pipes' = [pipes EXCEPT ![d.pipe].buf = Tail(@)]
    BY DEF ReadPipe
  <2> DEFINE d == fds[Shell][cap[x]]
  <2>2. cap[x] \in Fds
    BY DEF CaptureCloses, ReadPipe
  <2>3. d \in Descriptors
    BY <2>2, TablesOf DEF Tables
  <2>4. d.pipe \in Pipes
    BY <2>1, <2>3, Kinds DEF Readable
  <2> HIDE DEF d
  <2>5. CASE UNCHANGED pipes
    BY <1>0, <2>5
  <2>6. CASE pipes[d.pipe].buf # <<>> /\ pipes' = [pipes EXCEPT ![d.pipe].buf = Tail(@)]
    BY <1>0, <2>4, <2>6, ReadTypes
  <2> QED BY <2>1, <2>5, <2>6 DEF d
<1>2. UNCHANGED <<pc, line, at, job, cap, loop, fds, proc, odd, ran>>
  BY DEF ReadPipe, shellVars
<1>3. JobRecords' = JobRecords
  BY <1>2 DEF JobRecords
<1> QED BY <1>1, <1>2, <1>3 DEF TypeOK

-----------------------------------------------------------------------------
(* The processes.                                                          *)

\* What a step of a process leaves of the tables and the pipes.
ProcessFrame ==
  /\ UNCHANGED <<pc, shellVars>>
  /\ fds'[Shell] = fds[Shell]
  /\ \A o \in Pids : Within(fds'[o], fds[o])
  /\ \A q \in Pipes : pipes'[q].by = pipes[q].by

LEMMA ProcessSteady ==
  ASSUME TypeOK, UNCHANGED <<pc, shellVars>>,
         fds' \in [{Shell} \cup Pids -> Tables], pipes' \in [Pipes -> PipeRecords],
         proc' \in [Pids -> ProcessRecords]
  PROVE  TypeOK'
<1>1. UNCHANGED <<pc, line, at, job, cap, loop, odd, ran>>
  BY DEF shellVars
<1>2. JobRecords' = JobRecords
  BY <1>1 DEF JobRecords
<1> QED BY <1>1, <1>2 DEF TypeOK

LEMMA NoTable ==
  ASSUME NEW t \in Tables
  PROVE  Within(AllClosed, t) /\ Within(t, t)
<1>1. AllClosed \in Tables /\ \A f \in Fds : AllClosed[f] = Closed
  BY Kinds DEF AllClosed, Tables
<1> QED BY <1>1 DEF Within

\* A process that ends closes what it held; otherwise it may change its own table.
LEMMA TableOfOne ==
  ASSUME TypeOK, NEW p \in Pids, NEW t, Within(t, fds[p]), fds' = [fds EXCEPT ![p] = t]
  PROVE  /\ fds' \in [{Shell} \cup Pids -> Tables]
         /\ fds'[Shell] = fds[Shell]
         /\ \A o \in Pids : Within(fds'[o], fds[o])
<1>1. fds \in [{Shell} \cup Pids -> Tables] /\ t \in Tables
  BY DEF TypeOK, Within
<1>2. p # Shell
  BY NumbersInt DEF Shell
<1>3. \A o \in Pids : Within(fds[o], fds[o])
  BY <1>1, NoTable
<1>4. \A o \in Pids : fds'[o] = IF o = p THEN t ELSE fds[o]
  BY <1>1
<1> QED BY <1>1, <1>2, <1>3, <1>4

LEMMA TablesSame ==
  ASSUME TypeOK, UNCHANGED fds
  PROVE  /\ fds' \in [{Shell} \cup Pids -> Tables]
         /\ fds'[Shell] = fds[Shell]
         /\ \A o \in Pids : Within(fds'[o], fds[o])
  BY NoTable DEF TypeOK

LEMMA EndsTypes ==
  ASSUME TypeOK, NEW p \in Pids, NEW status \in {"ok", "fail"}, ProcessEnds(p, status)
  PROVE  /\ proc' \in [Pids -> ProcessRecords]
         /\ fds' \in [{Shell} \cup Pids -> Tables]
         /\ fds'[Shell] = fds[Shell]
         /\ \A o \in Pids : Within(fds'[o], fds[o])
<1>1. proc \in [Pids -> ProcessRecords]
  BY DEF TypeOK
<1>2. PICK st \in {"ended", "zombie"} : proc' = [proc EXCEPT ![p].st = st, ![p].status = status]
  BY DEF ProcessEnds
<1>3. [proc[p] EXCEPT !.st = st, !.status = status] \in ProcessRecords
  BY <1>1 DEF ProcessRecords
<1>4. proc' \in [Pids -> ProcessRecords]
  BY <1>1, <1>2, <1>3
<1>5. Within(AllClosed, fds[p])
  BY NoTable, TablesOf
<1> QED BY <1>4, <1>5, TableOfOne DEF ProcessEnds

LEMMA LaunchProcessFrame ==
  ASSUME TypeOK, NEW p \in Pids, LaunchProcess(p)
  PROVE  TypeOK' /\ ProcessFrame
<1>1. proc \in [Pids -> ProcessRecords]
  BY DEF TypeOK
<1>2. UNCHANGED <<pc, shellVars>> /\ pipes' = pipes
  BY DEF LaunchProcess
<1>3. /\ proc' \in [Pids -> ProcessRecords]
      /\ fds' \in [{Shell} \cup Pids -> Tables]
      /\ fds'[Shell] = fds[Shell]
      /\ \A o \in Pids : Within(fds'[o], fds[o])
  <2>1. CASE ProcessEnds(p, "fail")
    BY <2>1, EndsTypes
  <2> DEFINE t == SetUpFilesDescriptor(fds[p], proc[p].io[1], proc[p].io[2], proc[p].io[3])
  <2>2. CASE fds' = [fds EXCEPT ![p] = t] /\ proc' = [proc EXCEPT ![p].st = "running"]
    <3>1. proc[p].io[1] \in Fds /\ proc[p].io[2] \in Fds /\ proc[p].io[3] \in Fds
      BY <1>1 DEF ProcessRecords
    <3>2. Within(t, fds[p])
      BY <3>1, SetUpWithin, TablesOf
    <3>3. proc' \in [Pids -> ProcessRecords]
      <4>1. [proc[p] EXCEPT !.st = "running"] \in ProcessRecords
        BY <1>1 DEF ProcessRecords
      <4> QED BY <1>1, <2>2, <4>1
    <3> HIDE DEF t
    <3> QED BY <2>2, <3>2, <3>3, TableOfOne
  <2> QED BY <2>1, <2>2 DEF LaunchProcess
<1>4. pipes' \in [Pipes -> PipeRecords]
  BY <1>2 DEF TypeOK
<1> QED BY <1>2, <1>3, <1>4, ProcessSteady DEF ProcessFrame

LEMMA ProcessWritesFrame ==
  ASSUME TypeOK, NEW p \in Pids, ProcessWrites(p)
  PROVE  TypeOK' /\ ProcessFrame
<1>1. proc \in [Pids -> ProcessRecords] /\ pipes \in [Pipes -> PipeRecords]
  BY DEF TypeOK
<1>2. UNCHANGED <<pc, shellVars>>
  BY DEF ProcessWrites
<1>3. CASE ProcessEnds(p, "fail") /\ UNCHANGED pipes
  <2>1. pipes' \in [Pipes -> PipeRecords] /\ \A q \in Pipes : pipes'[q].by = pipes[q].by
    BY <1>1, <1>3
  <2> QED BY <1>2, <1>3, <2>1, EndsTypes, ProcessSteady DEF ProcessFrame
<1>4. CASE \E n \in Fds : /\ Written(fds[p][n], Unit(p))
                         /\ proc' = [proc EXCEPT ![p] = Wrote(p)]
                         /\ UNCHANGED fds
  <2>1. PICK n \in Fds : /\ Written(fds[p][n], Unit(p))
                         /\ proc' = [proc EXCEPT ![p] = Wrote(p)]
                         /\ UNCHANGED fds
    BY <1>4
  <2>2. fds[p][n] \in Descriptors
    BY TablesOf DEF Tables
  <2>3. Unit(p) \in Units
    BY <1>1 DEF Unit, ProcessRecords
  <2>4. pipes' \in [Pipes -> PipeRecords] /\ \A q \in Pipes : pipes'[q].by = pipes[q].by
    BY <1>1, <2>1, <2>2, <2>3, WrittenTypes
  <2>5. Wrote(p) \in ProcessRecords
    <3>1. NoUnit \in Units
      BY DEF NoUnit, Units
    <3>2. proc[p] \in ProcessRecords /\ proc[p].left - 1 \in Int
      BY <1>1 DEF ProcessRecords
    <3> QED BY <3>1, <3>2 DEF Wrote, ProcessRecords
  <2>6. proc' \in [Pids -> ProcessRecords]
    BY <1>1, <2>1, <2>5
  <2> QED BY <1>2, <2>1, <2>4, <2>6, TablesSame, ProcessSteady DEF ProcessFrame
<1> QED BY <1>3, <1>4, NumbersInt DEF ProcessWrites

LEMMA ProcessReadsFrame ==
  ASSUME TypeOK, NEW p \in Pids, ProcessReads(p)
  PROVE  TypeOK' /\ ProcessFrame
<1> DEFINE d == fds[p][0]
<1>1. /\ proc \in [Pids -> ProcessRecords] /\ pipes \in [Pipes -> PipeRecords]
      /\ proc[p] \in ProcessRecords /\ d \in Descriptors
  <2>1. fds[p] \in Tables /\ 0 \in Fds
    BY TablesOf, NumbersInt
  <2>2. d \in Descriptors
    BY <2>1 DEF Tables
  <2> QED BY <2>2 DEF TypeOK
<1>2. UNCHANGED <<pc, shellVars, fds>>
  BY DEF ProcessReads
<1>3. /\ proc' \in [Pids -> ProcessRecords] /\ pipes' \in [Pipes -> PipeRecords]
      /\ \A q \in Pipes : pipes'[q].by = pipes[q].by
  <2> HIDE DEF d
  <2>1. CASE /\ d.of = "r" /\ pipes[d.pipe].buf # <<>>
             /\ proc' = [proc EXCEPT ![p].held = Head(pipes[d.pipe].buf)]
             /\ pipes' = [pipes EXCEPT ![d.pipe].buf = Tail(@)]
    <3>1. d.pipe \in Pipes
      BY <1>1, <2>1, Kinds
    <3>2. /\ pipes' \in [Pipes -> PipeRecords]
          /\ \A q \in Pipes : pipes'[q].by = pipes[q].by
          /\ Head(pipes[d.pipe].buf) \in Units
      BY <1>1, <2>1, <3>1, ReadTypes
    <3>3. [proc[p] EXCEPT !.held = Head(pipes[d.pipe].buf)] \in ProcessRecords
      BY <1>1, <3>2 DEF ProcessRecords
    <3> QED BY <1>1, <2>1, <3>2, <3>3
  <2>2. CASE proc' = [proc EXCEPT ![p].left = 0] /\ UNCHANGED pipes
    <3>1. [proc[p] EXCEPT !.left = 0] \in ProcessRecords
      BY <1>1 DEF ProcessRecords
    <3> QED BY <1>1, <2>2, <3>1
  <2> QED BY <2>1, <2>2 DEF ProcessReads, d
<1> QED BY <1>2, <1>3, TablesSame, ProcessSteady DEF ProcessFrame

LEMMA ProcessExitsFrame ==
  ASSUME TypeOK, NEW p \in Pids, ProcessExits(p)
  PROVE  TypeOK' /\ ProcessFrame
<1>1. UNCHANGED <<pc, shellVars, pipes>>
  BY DEF ProcessExits
<1>2. pipes' \in [Pipes -> PipeRecords]
  BY <1>1 DEF TypeOK
<1>3. \E status \in {"ok", "fail"} : ProcessEnds(p, status)
  BY DEF ProcessExits
<1> QED BY <1>1, <1>2, <1>3, EndsTypes, ProcessSteady DEF ProcessFrame

-----------------------------------------------------------------------------
(* The steps.                                                              *)

\* A process that has W(q) after a step of processes had it before.
LEMMA FrameKeeps ==
  ASSUME Inductive, TypeOK', ProcessFrame
  PROVE  Inductive'
<1>1. /\ UNCHANGED <<pc, line, at, job, cap, loop, odd, ran>>
      /\ fds'[Shell] = fds[Shell]
      /\ \A q \in Pipes : pipes'[q].by = pipes[q].by
  BY DEF ProcessFrame, shellVars
<1>2. LineRuns'
  BY <1>1 DEF Inductive, LineRuns, N
<1>3. KeptOpen' /\ JobIsOpen'
  BY <1>1 DEF Inductive, KeptOpen, JobIsOpen, Kept, Alive
<1>4. BuiltinCloses' /\ CaptureCloses'
  BY <1>1 DEF Inductive, BuiltinCloses, IsBuiltin, CaptureCloses, Kept, Alive, Captured
<1>5. LoopCloses'
  BY <1>1 DEF Inductive, LoopCloses, Own, N
<1>6. WriterAlone'
  <2>1. ASSUME NEW q \in Pipes, NEW o \in Pids, Holds(o, W(q))'
        PROVE  Holds(o, W(q))
    <3>1. PICK f \in Fds : fds'[o][f] = W(q)
      BY <2>1 DEF Holds
    <3>2. fds'[o][f] # Closed
      BY <3>1, Ends
    <3> QED BY <3>1, <3>2 DEF ProcessFrame, Within, Holds
  <2>2. WriterAlone
    BY DEF Inductive
  <2> QED BY <1>1, <2>1, <2>2 DEF WriterAlone
<1>7. ShellLetsGo'
  BY <1>1 DEF Inductive, ShellLetsGo, OwnOutfile, N
<1>8. EndsKnown'
  BY <1>1 DEF Inductive, EndsKnown, WritesHeld, ReadsHeld, OwnOutfile, Capturing, Captured, N
<1> QED BY <1>2, <1>3, <1>4, <1>5, <1>6, <1>7, <1>8 DEF Inductive

LEMMA InitKeeps ==
  ASSUME Init
  PROVE  Inductive
<1>1. TypeOK
  BY TypesStart
<1>2. /\ \A o \in Pids, f \in Fds : fds[o][f] = Closed
      /\ \A f \in Fds : fds[Shell][f] = IF f = 0 THEN Std("in") ELSE IF f = 1 THEN Std("out")
                                      ELSE IF f = 2 THEN Std("err") ELSE Closed
  <2>1. fds = [o \in {Shell} \cup Pids |-> IF o = Shell THEN ShellTable ELSE AllClosed]
    BY DEF Init
  <2>2. \A o \in Pids : o # Shell
    BY NumbersInt DEF Shell
  <2> QED BY <2>1, <2>2, NumbersInt DEF ShellTable, AllClosed
<1>3. LineRuns /\ JobIsOpen /\ BuiltinCloses /\ LoopCloses
  BY DEF Init, LineRuns, JobIsOpen, BuiltinCloses, LoopCloses
<1>4. KeptOpen
  BY <1>2, NumbersInt DEF Init, KeptOpen, Kept, Std, Closed
<1>5. CaptureCloses
  BY DEF Init, CaptureCloses, NoCapture, Kept, NoLine, Captured
<1>6. ASSUME NEW q \in Pipes, NEW f \in Fds
      PROVE  fds[Shell][f] # W(q) /\ fds[Shell][f] # R(q)
  BY <1>2 DEF Std, Closed, W, R
<1>7. WriterAlone /\ ShellLetsGo /\ EndsKnown
  <2>1. WriterAlone
    BY <1>2, Ends DEF WriterAlone, Holds
  <2>2. ShellLetsGo
    BY <1>6 DEF ShellLetsGo
  <2>3. EndsKnown
    BY <1>6 DEF EndsKnown, WritesHeld, ReadsHeld
  <2> QED BY <2>1, <2>2, <2>3
<1> QED BY <1>1, <1>3, <1>4, <1>5, <1>7 DEF Inductive

LEMMA StartKeeps ==
  ASSUME Inductive, Start
  PROVE  Inductive'
<1>1. TypeOK'
  BY StartTypes DEF Inductive
<1>2. /\ pc = "idle" /\ pc' \in {"capture", "populate"}
      /\ pc' = "populate" => line'.form # "get"
      /\ pc' = "capture" => line'.form = "get"
      /\ UNCHANGED <<loop, fds, pipes, odd>>
      /\ at' = [cmd |-> 1, redir |-> 1] /\ job' = NewJob /\ cap' = NoCapture
      /\ ran' = ran + 1 /\ ran < Len(Lines) /\ line' \in Lines[ran + 1]
  BY DEF Start
<1>3. LineRuns'
  <2>1. ran \in Nat /\ Lines \in Seq(SUBSET CommandLine)
    BY LinesAssumption DEF Inductive, TypeOK
  <2>2. ran' \in DOMAIN Lines /\ line' \in Lines[ran']
    BY <1>2, <2>1
  <2>3. line' \in CommandLine
    BY <2>1, <2>2
  <2>4. 1 \in DOMAIN line'.cmds
    BY <2>3 DEF CommandLine
  <2>5. Len(job'.cmds) = 0 /\ at'.cmd = 1
    BY <1>2 DEF NewJob
  <2> QED BY <1>2, <2>2, <2>4, <2>5 DEF LineRuns
<1>4. KeptOpen' /\ JobIsOpen'
  <2>1. KeptOpen'
    BY <1>2 DEF Inductive, KeptOpen, Kept
  <2>2. job'.stdin = 0 /\ job'.stdout = 1
    BY <1>2 DEF NewJob
  <2> QED BY <1>2, <2>1, <2>2 DEF JobIsOpen, Alive, KeptOpen, Kept
<1>5. BuiltinCloses' /\ CaptureCloses'
  BY <1>2 DEF BuiltinCloses, CaptureCloses, Kept, NewJob, NoCapture, Captured
<1>6. LoopCloses'
  BY <1>2 DEF LoopCloses
<1>7. WriterAlone' /\ ShellLetsGo'
  BY <1>2 DEF Inductive, WriterAlone, Holds, ShellLetsGo, OwnOutfile
<1>8. EndsKnown'
  BY <1>2 DEF Inductive, EndsKnown, WritesHeld, ReadsHeld, OwnOutfile, Capturing
<1> QED BY <1>1, <1>3, <1>4, <1>5, <1>6, <1>7, <1>8 DEF Inductive

LEMMA UnusedIs ==
  ASSUME NEW q \in Pipes, NEW o \in {Shell} \cup Pids, NEW f \in Fds, q \notin Used
  PROVE  fds[o][f] # R(q) /\ fds[o][f] # W(q)
  BY Ends DEF Used

\* The four numbers of a capture were closed, and are the ends of two pipes nobody used.
CaptureMakes(q, r, f, g, h, k) ==
  /\ q \notin Used /\ r \notin Used /\ q # r
  /\ \A x \in {f, g, h, k} : fds[Shell][x] = Closed
  /\ f # g /\ f # h /\ f # k /\ g # h /\ g # k /\ h # k
  /\ pipes' = [pipes EXCEPT ![q] = CapturePipe, ![r] = CapturePipe]
  /\ cap' = [out |-> f, outw |-> g, err |-> h, errw |-> k]
  /\ job' \in {job, [job EXCEPT !.stdout = g, !.stderr = k]}
  /\ \A o \in Pids : fds'[o] = fds[o]
  /\ \A x \in Fds : fds'[Shell][x] =
       IF x = f THEN R(q) ELSE IF x = g THEN W(q)
       ELSE IF x = h THEN R(r) ELSE IF x = k THEN W(r) ELSE fds[Shell][x]

LEMMA OpenCaptureIs ==
  ASSUME TypeOK, OpenCapture
  PROVE  \E q \in Pipes, r \in Pipes, f \in Fds, g \in Fds, h \in Fds, k \in Fds :
           CaptureMakes(q, r, f, g, h, k)
<1>1. PICK q \in Pipes, r \in Pipes, f \in Fds, g \in Fds, h \in Fds, k \in Fds :
        /\ NewPipe(Used, q) /\ NewPipe(Used \cup {q}, r)
        /\ PipeGives(fds[Shell], f, g)
        /\ PipeGives(Piped(fds[Shell], q, f, g), h, k)
        /\ pipes' = [pipes EXCEPT ![q] = CapturePipe, ![r] = CapturePipe]
        /\ cap' = [out |-> f, outw |-> g, err |-> h, errw |-> k]
        /\ fds' = [fds EXCEPT ![Shell] = Piped(Piped(fds[Shell], q, f, g), r, h, k)]
  BY ZenonT(30) DEF OpenCapture
<1> DEFINE half == Piped(fds[Shell], q, f, g)
<1>2. /\ fds[Shell][f] = Closed /\ fds[Shell][g] = Closed /\ f # g
      /\ half[h] = Closed /\ half[k] = Closed /\ h # k
  <2>1. f < g /\ h < k /\ f \in Nat /\ g \in Nat /\ h \in Nat /\ k \in Nat
    BY <1>1, NumbersInt DEF PipeGives
  <2>2. f # g /\ h # k
    BY <2>1
  <2> HIDE DEF half
  <2> QED BY <1>1, <2>2 DEF PipeGives, OpenGives, half
<1>3. half \in Tables /\ \A x \in Fds : half[x] =
              IF x = f THEN R(q) ELSE IF x = g THEN W(q) ELSE fds[Shell][x]
  BY <1>2, TablesOf, PipedIs
<1> HIDE DEF half
<1>4. h \notin {f, g} /\ k \notin {f, g}
  BY <1>2, <1>3, Ends
<1>5. \A x \in Fds : Piped(half, r, h, k)[x] =
              IF x = h THEN R(r) ELSE IF x = k THEN W(r) ELSE half[x]
  BY <1>2, <1>3, PipedIs
<1>6. /\ \A o \in Pids : fds'[o] = fds[o]
      /\ fds'[Shell] = Piped(half, r, h, k)
  <2>1. fds \in [{Shell} \cup Pids -> Tables] /\ \A o \in Pids : o # Shell
    BY NumbersInt DEF TypeOK, Shell
  <2> QED BY <1>1, <2>1 DEF half
<1>7. q \notin Used /\ r \notin Used /\ q # r
  BY <1>1 DEF NewPipe
<1>8. job' \in {job, [job EXCEPT !.stdout = g, !.stderr = k]}
  BY <1>1 DEF OpenCapture
<1>9. fds[Shell][h] = Closed /\ fds[Shell][k] = Closed
  BY <1>2, <1>3, <1>4
<1>10. \A x \in Fds : fds'[Shell][x] =
                IF x = f THEN R(q) ELSE IF x = g THEN W(q)
                ELSE IF x = h THEN R(r) ELSE IF x = k THEN W(r) ELSE fds[Shell][x]
  BY <1>3, <1>4, <1>5, <1>6
<1>11. f # h /\ f # k /\ g # h /\ g # k
  BY <1>4
<1> HIDE DEF half
<1>12. CaptureMakes(q, r, f, g, h, k)
  BY <1>1, <1>2, <1>6, <1>7, <1>8, <1>9, <1>10, <1>11 DEF CaptureMakes
<1> QED BY <1>12

LEMMA OpenCaptureKeeps ==
  ASSUME Inductive, OpenCapture
  PROVE  Inductive'
<1>1. TypeOK' /\ TypeOK
  BY OpenCaptureTypes DEF Inductive
<1>2. PICK q \in Pipes, r \in Pipes, f \in Fds, g \in Fds, h \in Fds, k \in Fds :
           CaptureMakes(q, r, f, g, h, k)
  BY <1>1, OpenCaptureIs
<1>3. pc = "capture" /\ pc' = "populate" /\ UNCHANGED <<line, at, loop, odd, ran>>
  BY DEF OpenCapture
<1> USE DEF CaptureMakes
<1>4. \A x \in {f, g, h, k} : x \notin Kept
  BY <1>2 DEF Inductive, KeptOpen
<1>5. \A x \in Fds : fds[Shell][x] # Closed => fds'[Shell][x] = fds[Shell][x]
  BY <1>2
<1>6. \A p \in Pipes : pipes'[p].by = IF p \in {q, r} THEN "capture" ELSE pipes[p].by
  BY <1>1, <1>2 DEF TypeOK, CapturePipe
<1>job. /\ job'.stdin = job.stdin /\ job'.stdout \in {job.stdout, g}
        /\ job'.stderr \in {job.stderr, k} /\ job'.cmds = job.cmds
        /\ job \in JobRecords /\ job.stdin \in Fds /\ job.stdout \in Fds
  <2>1. job \in JobRecords
    BY <1>1 DEF TypeOK
  <2> QED BY <1>2, <2>1 DEF JobRecords
<1>cap. cap'.out = f /\ cap'.outw = g /\ cap'.err = h /\ cap'.errw = k
  BY <1>2
<1>new. /\ fds'[Shell][f] = R(q) /\ fds'[Shell][g] = W(q)
        /\ fds'[Shell][h] = R(r) /\ fds'[Shell][k] = W(r)
  BY <1>2
<1>7. LineRuns'
  BY <1>3, <1>job DEF Inductive, LineRuns
<1>8. KeptOpen'
  BY <1>3, <1>5, NumbersInt DEF Inductive, KeptOpen, Kept
<1>9. JobIsOpen'
  <2>1. Alive(job.stdin) /\ Alive(job.stdout)
    BY <1>3 DEF Inductive, JobIsOpen
  <2>2. Alive(g)'
    BY <1>new, Ends DEF Alive
  <2> QED BY <1>3, <1>5, <1>job, <2>1, <2>2 DEF JobIsOpen, Alive
<1>10. BuiltinCloses'
  BY <1>3, <1>4, <1>job DEF Inductive, BuiltinCloses, IsBuiltin, Kept
<1>11. CaptureCloses'
  BY <1>2, <1>3, <1>4, <1>cap, <1>new, Ends DEF CaptureCloses, Kept, Alive, Captured
<1>12. LoopCloses'
  BY <1>3 DEF LoopCloses
<1>13. WriterAlone'
  BY <1>2, <1>6 DEF Inductive, WriterAlone, Holds
<1>14. ASSUME NEW p \in Pipes, NEW x \in Fds
       PROVE  /\ fds'[Shell][x] = W(p) =>
                   (x \in {g, k} /\ p \in {q, r}) \/ (fds[Shell][x] = W(p) /\ p \notin {q, r})
              /\ fds'[Shell][x] = R(p) =>
                   (x \in {f, h} /\ p \in {q, r}) \/ (fds[Shell][x] = R(p) /\ p \notin {q, r})
  <2>1. CASE x = f \/ x = h
    BY <1>new, <2>1, Ends
  <2>2. CASE x = g \/ x = k
    BY <1>new, <2>2, Ends
  <2>3. CASE x \notin {f, g, h, k}
    <3>1. fds'[Shell][x] = fds[Shell][x]
      BY <1>2, <2>3
    <3>2. /\ fds[Shell][x] # R(q) /\ fds[Shell][x] # W(q)
          /\ fds[Shell][x] # R(r) /\ fds[Shell][x] # W(r)
      BY <1>2, UnusedIs
    <3> QED BY <3>1, <3>2
  <2> QED BY <2>1, <2>2, <2>3
<1>15. ShellLetsGo'
  BY <1>3, <1>6, <1>14 DEF Inductive, ShellLetsGo, OwnOutfile
<1>16. EndsKnown'
  <2>1. Captured' /\ Captured /\ Capturing'
    BY <1>3 DEF Inductive, CaptureCloses, Captured, Capturing
  <2>2. ASSUME WritesHeld PROVE WritesHeld'
    BY <1>3, <1>14, <1>cap, <2>1, <2>2 DEF WritesHeld, OwnOutfile, Capturing
  <2>3. ASSUME ReadsHeld PROVE ReadsHeld'
    BY <1>3, <1>6, <1>14, <1>cap, <2>1, <2>3 DEF ReadsHeld, Capturing
  <2> QED BY <1>3, <2>2, <2>3 DEF Inductive, EndsKnown
<1> QED BY <1>1, <1>7, <1>8, <1>9, <1>10, <1>11, <1>12, <1>13, <1>15, <1>16 DEF Inductive

(* A line that is one builtin redirects nothing to a descriptor of the     *)
(* shell: LaunchInternalCmd would close it (cd 2>&1 closes 1), and the next *)
(* pipe would be given that number, which Process and Job take for the     *)
(* shell's own and never close.                                            *)
BuiltinsKeepNumbers ==
  \A i \in DOMAIN Lines : \A l \in Lines[i] :
    Len(l.cmds) = 1 /\ l.cmds[1].do = "cd" =>
      \A k \in DOMAIN l.cmds[1].redirs : l.cmds[1].redirs[k].op \notin {">&", "<&"}
\* mypipe[0] of a job of one process is not, by chance, the shell's stdout or stderr.
GarbageIsNoOutput == Garbage \cap {1, 2} = {}

\* The shell's table, when a number that was closed is given a new descriptor.
LEMMA OpenKeeps ==
  ASSUME TypeOK, KeptOpen, NEW f \in Fds, fds[Shell][f] = Closed,
         NEW d \in Descriptors, d # Closed, fds' = [fds EXCEPT ![Shell][f] = d],
         UNCHANGED odd
  PROVE  /\ f \notin Kept /\ KeptOpen'
         /\ \A x \in Fds : fds'[Shell][x] = IF x = f THEN d ELSE fds[Shell][x]
         /\ \A o \in Pids : fds'[o] = fds[o]
         /\ \A x \in Fds : Alive(x) => Alive(x)'
         /\ Alive(f)'
<1>1. /\ \A x \in Fds : fds'[Shell][x] = IF x = f THEN d ELSE fds[Shell][x]
      /\ \A o \in Pids : fds'[o] = fds[o]
  <2>1. fds \in [{Shell} \cup Pids -> Tables] /\ \A o \in Pids : o # Shell
    BY NumbersInt DEF TypeOK, Shell
  <2> QED BY <2>1 DEF Tables
<1>2. f \notin Kept /\ KeptOpen'
  BY <1>1, NumbersInt DEF KeptOpen, Kept
<1>3. (\A x \in Fds : Alive(x) => Alive(x)') /\ Alive(f)'
  BY <1>1 DEF Alive
<1> QED BY <1>1, <1>2, <1>3

LEMMA RedirectKeeps ==
  ASSUME BuiltinsKeepNumbers, Inductive, Redirect
  PROVE  Inductive'
<1>1. TypeOK' /\ TypeOK /\ LineRuns
  BY RedirectTypes DEF Inductive
<1>2. pc = "populate" /\ UNCHANGED <<line, cap, loop, ran>>
  BY DEF Redirect
<1> DEFINE r == Redirs[at.redir]
<1>3. job \in JobRecords /\ pipes \in [Pipes -> PipeRecords]
  BY <1>1 DEF TypeOK
<1>4. CASE /\ UNCHANGED <<at, job, fds, pipes>>
           /\ pc' = "idle" /\ odd' = [odd EXCEPT !.threw = TRUE]
  <2>1. odd'.stray = odd.stray /\ odd'.threw = TRUE
    BY <1>1, <1>4 DEF TypeOK
  <2>2. LineRuns' /\ JobIsOpen' /\ BuiltinCloses' /\ LoopCloses'
    BY <1>4 DEF LineRuns, JobIsOpen, BuiltinCloses, LoopCloses
  <2>3. KeptOpen' /\ CaptureCloses'
    BY <1>2, <1>4, <2>1 DEF Inductive, KeptOpen, CaptureCloses, Kept, Captured
  <2>4. WriterAlone' /\ ShellLetsGo'
    BY <1>2, <1>4 DEF Inductive, WriterAlone, Holds, ShellLetsGo, OwnOutfile
  <2>5. EndsKnown'
    BY <2>1 DEF EndsKnown
  <2> QED BY <1>1, <2>2, <2>3, <2>4, <2>5 DEF Inductive
<1>5. ASSUME at' = [at EXCEPT !.redir = @ + 1], UNCHANGED <<pc, odd>>,
             NEW fd \in Fds, job' = Redirected(job, r, fd),
             Alive(fd)', fd \notin Kept \/ ~IsBuiltin,
             KeptOpen', \A x \in Fds : Alive(x) => Alive(x)',
             \A o \in Pids : fds'[o] = fds[o],
             \A p \in Pipes, x \in Fds :
               /\ fds'[Shell][x] = W(p) => fds[Shell][x] = W(p) /\ pipes'[p].by = pipes[p].by
               /\ fds'[Shell][x] = R(p) => \/ fds[Shell][x] = R(p) /\ pipes'[p].by = pipes[p].by
                                          \/ pipes'[p].by = "text",
             \A p \in Pipes : pipes'[p].by = "job" => pipes[p].by = "job"
      PROVE  Inductive'
  <2>1. /\ job'.stdin \in {job.stdin, fd} /\ job'.stdout \in {job.stdout, fd}
        /\ job'.stderr \in {job.stderr, fd} /\ job'.cmds = job.cmds
        /\ job.stdin \in Fds /\ job.stdout \in Fds
    <3> HIDE DEF r
    <3>1. job.stdin \in Fds /\ job.stdout \in Fds
      BY <1>3 DEF JobRecords
    <3> QED BY <1>3, <1>5, <3>1, RedirectedIs
  <2> HIDE DEF r
  <2>2. at'.cmd = at.cmd
    BY <1>1, <1>5 DEF TypeOK
  <2>3. LineRuns'
    BY <1>1, <1>2, <1>5, <2>1, <2>2 DEF LineRuns
  <2>4. JobIsOpen'
    <3>1. Alive(job.stdin) /\ Alive(job.stdout)
      BY <1>2 DEF Inductive, JobIsOpen
    <3>2. /\ fds'[Shell][job.stdin] # Closed \/ (job.stdin = 0 /\ odd.stray)
          /\ fds'[Shell][job.stdout] # Closed \/ (job.stdout = 0 /\ odd.stray)
          /\ fds'[Shell][fd] # Closed \/ (fd = 0 /\ odd.stray)
      BY <1>5, <2>1, <3>1 DEF Alive
    <3> QED BY <1>5, <2>1, <3>2 DEF JobIsOpen, Alive
  <2>5. BuiltinCloses'
    BY <1>2, <1>5, <2>1 DEF Inductive, BuiltinCloses, IsBuiltin, Kept
  <2>6. CaptureCloses'
    BY <1>2, <1>5 DEF Inductive, CaptureCloses, Kept, Captured, Alive
  <2>7. LoopCloses'
    BY <1>2, <1>5 DEF LoopCloses
  <2>8. WriterAlone'
    BY <1>5 DEF Inductive, WriterAlone, Holds
  <2>9. ShellLetsGo'
    BY <1>2, <1>5 DEF Inductive, ShellLetsGo, OwnOutfile
  <2>10. EndsKnown'
    <3>1. ASSUME WritesHeld PROVE WritesHeld'
      BY <1>2, <1>5, <3>1 DEF WritesHeld, OwnOutfile, Capturing, Captured
    <3>2. ASSUME ReadsHeld PROVE ReadsHeld'
      BY <1>2, <1>5, <3>2 DEF ReadsHeld, Capturing, Captured
    <3> QED BY <1>5, <3>1, <3>2 DEF Inductive, EndsKnown
  <2> QED BY <1>1, <1>5, <2>3, <2>4, <2>5, <2>6, <2>7, <2>8, <2>9, <2>10 DEF Inductive
<1>6. CASE \E f \in Fds : /\ at' = [at EXCEPT !.redir = @ + 1] /\ UNCHANGED <<pc, odd>>
                          /\ fds[Shell][f] = Closed
                          /\ job' = Redirected(job, r, f)
                          /\ fds' = [fds EXCEPT ![Shell][f] = File]
                          /\ UNCHANGED pipes
  <2>1. PICK f \in Fds : /\ at' = [at EXCEPT !.redir = @ + 1] /\ UNCHANGED <<pc, odd>>
                          /\ fds[Shell][f] = Closed
                          /\ job' = Redirected(job, r, f)
                          /\ fds' = [fds EXCEPT ![Shell][f] = File]
                          /\ UNCHANGED pipes
    BY <1>6
  <2> HIDE DEF r
  <2>2. /\ f \notin Kept /\ KeptOpen'
        /\ \A x \in Fds : fds'[Shell][x] = IF x = f THEN File ELSE fds[Shell][x]
        /\ \A o \in Pids : fds'[o] = fds[o]
        /\ \A x \in Fds : Alive(x) => Alive(x)'
        /\ Alive(f)'
    BY <1>1, <2>1, Kinds, Ends, OpenKeeps DEF Inductive
  <2>3. ASSUME NEW p \in Pipes, NEW x \in Fds
        PROVE  /\ fds'[Shell][x] = W(p) => fds[Shell][x] = W(p)
               /\ fds'[Shell][x] = R(p) => fds[Shell][x] = R(p)
    BY <2>2, Ends
  <2> QED BY <1>5, <2>1, <2>2, <2>3
<1>7. CASE \E q \in Pipes, f \in Fds :
             /\ at' = [at EXCEPT !.redir = @ + 1] /\ UNCHANGED <<pc, odd>>
             /\ NewPipe(Used, q)
             /\ fds[Shell][f] = Closed
             /\ job' = Redirected(job, r, f)
             /\ fds' = [fds EXCEPT ![Shell][f] = R(q)]
             /\ pipes' = [pipes EXCEPT ![q] = TextPipe]
  <2>1. PICK q \in Pipes, f \in Fds :
             /\ at' = [at EXCEPT !.redir = @ + 1] /\ UNCHANGED <<pc, odd>>
             /\ NewPipe(Used, q)
             /\ fds[Shell][f] = Closed
             /\ job' = Redirected(job, r, f)
             /\ fds' = [fds EXCEPT ![Shell][f] = R(q)]
             /\ pipes' = [pipes EXCEPT ![q] = TextPipe]
    BY <1>7
  <2> HIDE DEF r
  <2>2. /\ f \notin Kept /\ KeptOpen'
        /\ \A x \in Fds : fds'[Shell][x] = IF x = f THEN R(q) ELSE fds[Shell][x]
        /\ \A o \in Pids : fds'[o] = fds[o]
        /\ \A x \in Fds : Alive(x) => Alive(x)'
        /\ Alive(f)'
    BY <1>1, <2>1, Kinds, Ends, OpenKeeps DEF Inductive
  <2>3. \A p \in Pipes : pipes'[p].by = IF p = q THEN "text" ELSE pipes[p].by
    BY <1>3, <2>1 DEF TextPipe
  <2>4. ASSUME NEW p \in Pipes, NEW x \in Fds
        PROVE  /\ fds'[Shell][x] = W(p) => fds[Shell][x] = W(p) /\ pipes'[p].by = pipes[p].by
               /\ fds'[Shell][x] = R(p) => \/ fds[Shell][x] = R(p) /\ pipes'[p].by = pipes[p].by
                                          \/ pipes'[p].by = "text"
    <3>1. CASE x = f
      BY <2>2, <2>3, <3>1, Ends
    <3>2. CASE x # f
      <4>1. fds[Shell][x] # R(q) /\ fds[Shell][x] # W(q)
        BY <2>1, UnusedIs DEF NewPipe
      <4> QED BY <2>2, <2>3, <3>2, <4>1
    <3> QED BY <3>1, <3>2
  <2>5. \A p \in Pipes : pipes'[p].by = "job" => pipes[p].by = "job"
    BY <2>3
  <2> QED BY <1>5, <2>1, <2>2, <2>4, <2>5
<1>8. CASE /\ at' = [at EXCEPT !.redir = @ + 1] /\ UNCHANGED <<pc, odd>>
           /\ r.op \in {">&", "<&"} /\ r.to \in {0, 1, 2}
           /\ job' = Redirected(job, r, r.to)
           /\ UNCHANGED <<fds, pipes>>
  <2>1. ~IsBuiltin
    <3>1. SUFFICES ASSUME IsBuiltin PROVE FALSE
      OBVIOUS
    <3>2. line.cmds[1].redirs \in Seq(Redirection) /\ DOMAIN line.cmds = {1}
      <4>1. DOMAIN line.cmds = {1}
        BY <1>1, <1>2, <3>1, LineTyped DEF IsBuiltin
      <4> QED BY <1>1, <1>2, <4>1, LineTyped DEF Command
    <3>3. at.cmd = 1
      BY <1>1, <1>2, <3>2 DEF LineRuns
    <3>4. at.redir \in DOMAIN line.cmds[1].redirs
      <4>1. at.redir \in Nat \ {0} /\ at.redir <= Len(line.cmds[1].redirs)
        BY <1>1, <3>3 DEF TypeOK, Redirect, Redirs
      <4> QED BY <3>2, <4>1
    <3>5. ran \in DOMAIN Lines /\ line \in Lines[ran]
      BY <1>1, <1>2 DEF LineRuns
    <3>6. r.op \notin {">&", "<&"}
      BY <3>1, <3>3, <3>4, <3>5 DEF BuiltinsKeepNumbers, IsBuiltin, Redirs
    <3> QED BY <1>8, <3>6
  <2>2. PICK fd \in {0, 1, 2} : fd = r.to
    BY <1>8
  <2> HIDE DEF r
  <2>3. KeptOpen' /\ fd \in Fds /\ Alive(fd)
    BY <1>8, NumbersInt DEF Inductive, KeptOpen, Kept, Alive
  <2>4. fds' = fds /\ odd' = odd /\ pipes' = pipes /\ job' = Redirected(job, r, fd)
    BY <1>8, <2>2
  <2>5. Alive(fd)' /\ \A x \in Fds : Alive(x) => Alive(x)'
    BY <2>3, <2>4 DEF Alive
  <2> QED BY <1>5, <1>8, <2>1, <2>3, <2>4, <2>5
<1>9. \/ /\ UNCHANGED <<at, job, fds, pipes>>
         /\ pc' = "idle" /\ odd' = [odd EXCEPT !.threw = TRUE]
      \/ /\ at' = [at EXCEPT !.redir = @ + 1] /\ UNCHANGED <<pc, odd>>
         /\ \/ \E f \in Fds : /\ fds[Shell][f] = Closed
                              /\ job' = Redirected(job, r, f)
                              /\ fds' = [fds EXCEPT ![Shell][f] = File]
                              /\ UNCHANGED pipes
            \/ \E q \in Pipes, f \in Fds :
                  /\ NewPipe(Used, q)
                  /\ fds[Shell][f] = Closed
                  /\ job' = Redirected(job, r, f)
                  /\ fds' = [fds EXCEPT ![Shell][f] = R(q)]
                  /\ pipes' = [pipes EXCEPT ![q] = TextPipe]
            \/ /\ r.op \in {">&", "<&"} /\ r.to \in {0, 1, 2}
               /\ job' = Redirected(job, r, r.to)
               /\ UNCHANGED <<fds, pipes>>
  BY <1>1, RedirectCases
<1> HIDE DEF r
<1> QED BY <1>4, <1>6, <1>7, <1>8, <1>9

LEMMA AddCommandKeeps ==
  ASSUME Inductive, AddCommand
  PROVE  Inductive'
<1>1. TypeOK' /\ TypeOK /\ LineRuns
  BY AddCommandTypes DEF Inductive
<1>2. /\ pc = "populate" /\ pc' \in {"populate", "launch"}
      /\ UNCHANGED <<line, cap, loop, fds, pipes, odd, ran>>
      /\ at.cmd = Len(line.cmds) => pc' = "launch"
      /\ at.cmd # Len(line.cmds) => pc' = "populate" /\ at'.cmd = at.cmd + 1
  BY DEF AddCommand, kernelVars
<1>3. job \in JobRecords /\ at.cmd \in Nat
  BY <1>1 DEF TypeOK
<1>4. /\ job'.stdin = job.stdin
      /\ IF at.cmd = Len(line.cmds) /\ IsPipeline /\ Captured
         THEN job'.stdout = cap.outw /\ job'.stderr = cap.errw
         ELSE job'.stdout = job.stdout /\ job'.stderr = job.stderr
  BY <1>3 DEF AddCommand, JobRecords
<1>5. LineRuns'
  <2>1. PICK s \in {<<at.cmd>>, <<at.cmd, at.cmd>>} : job'.cmds = job.cmds \o s
    BY <1>3 DEF AddCommand, JobRecords
  <2>2. at.cmd \in DOMAIN line.cmds /\ DOMAIN line.cmds = 1..Len(line.cmds)
        /\ Len(line.cmds) \in Nat /\ Len(job.cmds) >= at.cmd - 1
    BY <1>1, <1>2, LineTyped DEF LineRuns
  <2>3. Len(job.cmds) \in Nat /\ Len(s) \in Nat \ {0} /\ Len(job'.cmds) = Len(job.cmds) + Len(s)
    <3>1. s \in Seq(DOMAIN line.cmds)
      BY <2>1, <2>2, OnceOrTwice
    <3>2. Len(s) \in {1, 2}
      BY <2>1
    <3>3. job.cmds \in Seq(DOMAIN line.cmds)
      BY <1>3 DEF JobRecords
    <3>4. Len(job.cmds) \in Nat /\ Len(job.cmds \o s) = Len(job.cmds) + Len(s)
      BY <3>1, <3>3, Joined
    <3>5. Len(s) \in Nat \ {0}
      BY <3>2
    <3> QED BY <2>1, <3>4, <3>5
  <2>4. Len(job'.cmds) >= at.cmd
    BY <1>3, <2>2, <2>3
  <2>5. CASE at.cmd = Len(line.cmds)
    BY <1>1, <1>2, <2>4, <2>5 DEF LineRuns
  <2>6. CASE at.cmd # Len(line.cmds)
    <3>1. pc' = "populate" /\ at'.cmd \in DOMAIN line.cmds /\ Len(job'.cmds) >= at'.cmd - 1
      BY <1>2, <1>3, <2>2, <2>4, <2>6
    <3> QED BY <1>1, <1>2, <3>1 DEF LineRuns
  <2> QED BY <2>5, <2>6
<1>6. KeptOpen'
  BY <1>2 DEF Inductive, KeptOpen, Kept
<1>7. JobIsOpen'
  BY <1>2, <1>4 DEF Inductive, JobIsOpen, CaptureCloses, Alive
<1>8. BuiltinCloses'
  BY <1>2, <1>4 DEF Inductive, BuiltinCloses, IsBuiltin, IsPipeline, Kept
<1>9. CaptureCloses'
  BY <1>2 DEF Inductive, CaptureCloses, Kept, Captured, Alive
<1>10. LoopCloses'
  BY <1>2 DEF LoopCloses
<1>11. WriterAlone' /\ ShellLetsGo'
  BY <1>2 DEF Inductive, WriterAlone, Holds, ShellLetsGo, OwnOutfile
<1>12. EndsKnown'
  BY <1>2 DEF Inductive, EndsKnown, WritesHeld, ReadsHeld, OwnOutfile, Capturing, Captured
<1> QED BY <1>1, <1>5, <1>6, <1>7, <1>8, <1>9, <1>10, <1>11, <1>12 DEF Inductive

LEMMA LaunchInternalIs ==
  ASSUME TypeOK, LaunchInternalCmd
  PROVE  /\ \A o \in Pids : fds'[o] = fds[o]
         /\ \A f \in Fds : fds'[Shell][f] =
              IF \/ f = job.stdin /\ f # 0
                 \/ f = job.stdout /\ f # 1
                 \/ f = job.stderr /\ f # 2
              THEN Closed ELSE fds[Shell][f]
         /\ \A q \in Pipes : pipes'[q].by = pipes[q].by
<1> DEFINE one == CloseUnless(fds[Shell], job.stdin, 0)
           two == CloseUnless(one, job.stdout, 1)
           three == CloseUnless(two, job.stderr, 2)
<1>0. /\ job \in JobRecords /\ fds \in [{Shell} \cup Pids -> Tables]
      /\ pipes \in [Pipes -> PipeRecords] /\ ran \in Nat
      /\ \A o \in Pids : o # Shell
  BY NumbersInt DEF TypeOK, Shell
<1>1. /\ one \in Tables
      /\ \A f \in Fds : one[f] = IF f = job.stdin /\ f # 0 THEN Closed ELSE fds[Shell][f]
  BY TablesOf, CloseUnlessIs
<1>2. /\ two \in Tables
      /\ \A f \in Fds : two[f] = IF f = job.stdout /\ f # 1 THEN Closed ELSE one[f]
  <2> HIDE DEF one
  <2> QED BY <1>1, CloseUnlessIs
<1>3. \A f \in Fds : three[f] = IF f = job.stderr /\ f # 2 THEN Closed ELSE two[f]
  <2> HIDE DEF two
  <2> QED BY <1>2, CloseUnlessIs
<1>4. fds' = [fds EXCEPT ![Shell] = three]
  BY DEF LaunchInternalCmd
<1>5. \A q \in Pipes : pipes'[q].by = pipes[q].by
  <2>1. <<ran, 1>> \in Units /\ fds[Shell][job.stderr] \in Descriptors
    BY <1>0 DEF Units, Tables, JobRecords
  <2>2. CASE UNCHANGED pipes
    BY <2>2
  <2>3. CASE Written(fds[Shell][job.stderr], <<ran, 1>>)
    BY <1>0, <2>1, <2>3, WrittenTypes
  <2> QED BY <2>2, <2>3 DEF LaunchInternalCmd
<1> HIDE DEF one, two, three
<1> QED BY <1>0, <1>1, <1>2, <1>3, <1>4, <1>5

LEMMA LaunchInternalKeeps ==
  ASSUME Inductive, LaunchInternalCmd
  PROVE  Inductive'
<1>1. TypeOK' /\ TypeOK /\ LineRuns
  BY LaunchInternalTypes DEF Inductive
<1>2. /\ pc = "launch" /\ pc' = "launched"
      /\ UNCHANGED <<line, at, job, cap, loop, odd, ran>>
  BY DEF LaunchInternalCmd
<1>3. IsBuiltin
  <2>1. Len(line.cmds) \in Nat \ {0} /\ DOMAIN line.cmds = 1..Len(line.cmds)
    BY <1>1, <1>2, LineTyped
  <2>2. Len(job.cmds) = 1 /\ line.cmds[job.cmds[1]].do = "cd" /\ Len(job.cmds) >= Len(line.cmds)
    BY <1>1, <1>2 DEF LaunchInternalCmd, IsInternal, Do, LineRuns
  <2>3. Len(line.cmds) = 1
    <3>1. PICK n \in Nat \ {0} : n = Len(line.cmds)
      BY <2>1
    <3>2. 1 >= n
      BY <2>2, <3>1
    <3>3. n = 1
      BY <3>2
    <3> QED BY <3>1, <3>3
  <2>4. job.cmds[1] \in DOMAIN line.cmds
    <3>1. job.cmds \in Seq(DOMAIN line.cmds)
      BY <1>1 DEF TypeOK, JobRecords
    <3> QED BY <2>2, <3>1, FirstOne
  <2> QED BY <2>1, <2>2, <2>3, <2>4 DEF IsBuiltin
<1>4. /\ \A o \in Pids : fds'[o] = fds[o]
      /\ \A f \in Fds : fds'[Shell][f] = Closed \/ fds'[Shell][f] = fds[Shell][f]
      /\ \A f \in Kept : fds'[Shell][f] = fds[Shell][f]
      /\ \A q \in Pipes : pipes'[q].by = pipes[q].by
  <2>1. BuiltinCloses
    BY DEF Inductive
  <2>2. job.stdin \notin Kept \ {0} /\ job.stdout \notin Kept \ {1} /\ job.stderr \notin Kept \ {2}
    BY <1>2, <1>3, <2>1 DEF BuiltinCloses
  <2>3. Kept \subseteq Fds
    BY NumbersInt DEF Kept
  <2> QED BY <1>1, <2>2, <2>3, LaunchInternalIs
<1>5. LineRuns' /\ JobIsOpen' /\ BuiltinCloses' /\ LoopCloses'
  BY <1>1, <1>2 DEF LineRuns, JobIsOpen, BuiltinCloses, LoopCloses
<1>6. KeptOpen'
  BY <1>2, <1>4 DEF Inductive, KeptOpen, Kept
<1>7. CaptureCloses'
  BY <1>2 DEF Inductive, CaptureCloses, Kept, Captured
<1>8. WriterAlone'
  BY <1>4 DEF Inductive, WriterAlone, Holds
<1>9. ShellLetsGo'
  BY <1>2, <1>4, Ends DEF Inductive, ShellLetsGo, OwnOutfile
<1>10. EndsKnown'
  <2>1. ASSUME WritesHeld PROVE WritesHeld'
    BY <1>2, <1>4, <2>1, Ends DEF WritesHeld, OwnOutfile, Capturing, Captured
  <2>2. ASSUME ReadsHeld PROVE ReadsHeld'
    BY <1>2, <1>4, <2>2, Ends DEF ReadsHeld, Capturing, Captured
  <2> QED BY <1>2, <2>1, <2>2 DEF Inductive, EndsKnown
<1> QED BY <1>1, <1>5, <1>6, <1>7, <1>8, <1>9, <1>10 DEF Inductive

LEMMA BeginLoopKeeps ==
  ASSUME Inductive, BeginLoop
  PROVE  Inductive'
<1>1. TypeOK' /\ TypeOK /\ LineRuns
  BY BeginLoopTypes DEF Inductive
<1>2. /\ pc = "launch" /\ pc' = "fork"
      /\ UNCHANGED <<line, at, job, cap, fds, pipes, odd, ran>>
  BY DEF BeginLoop, kernelVars
<1>3. loop'.i = 1 /\ loop'.infile = job.stdin
  BY DEF BeginLoop
<1>4. LineRuns'
  <2>1. Len(job.cmds) >= Len(line.cmds) /\ Len(line.cmds) \in Nat \ {0} /\ Len(job.cmds) \in Nat
    BY SMTT(30), <1>1, <1>2, LineTyped DEF LineRuns, TypeOK, JobRecords
  <2>2. 1 \in 1..Len(job.cmds)
    BY <2>1
  <2> QED BY <1>1, <1>2, <1>3, <2>2 DEF LineRuns, N
<1>5. KeptOpen' /\ JobIsOpen' /\ BuiltinCloses' /\ CaptureCloses'
  <2>1. KeptOpen' /\ JobIsOpen'
    BY <1>2 DEF Inductive, KeptOpen, JobIsOpen, Kept, Alive
  <2>2. BuiltinCloses' /\ CaptureCloses'
    BY <1>2 DEF Inductive, BuiltinCloses, CaptureCloses, Kept, Captured
  <2> QED BY <2>1, <2>2
<1>6. LoopCloses'
  BY <1>2, <1>3 DEF LoopCloses
<1>7. WriterAlone' /\ ShellLetsGo'
  BY <1>2 DEF Inductive, WriterAlone, Holds, ShellLetsGo, OwnOutfile
<1>8. EndsKnown'
  BY <1>2 DEF Inductive, EndsKnown, WritesHeld, ReadsHeld, OwnOutfile, Capturing, Captured
<1> QED BY <1>1, <1>4, <1>5, <1>6, <1>7, <1>8 DEF Inductive

LEMMA ForkKeeps ==
  ASSUME Inductive, Fork
  PROVE  Inductive'
<1>1. TypeOK' /\ TypeOK /\ LineRuns
  BY ForkTypes DEF Inductive
<1>2. pc = "fork" /\ pc' = "tidy" /\ UNCHANGED <<line, at, cap, odd, ran>>
  BY DEF Fork
<1>3. /\ job \in JobRecords /\ loop \in [i : Nat, infile : Int, outfile : Int, pipe0 : Int]
      /\ fds \in [{Shell} \cup Pids -> Tables] /\ pipes \in [Pipes -> PipeRecords]
      /\ \A o \in Pids : o # Shell
  BY <1>1, NumbersInt DEF TypeOK, Shell
<1>4. /\ KeptOpen /\ JobIsOpen /\ BuiltinCloses /\ CaptureCloses /\ LoopCloses
      /\ WriterAlone /\ ShellLetsGo /\ EndsKnown
  BY DEF Inductive
<1>5. PICK p \in Pids :
           \/ \E q \in Pipes, f \in Fds, g \in Fds :
                /\ loop.i < N /\ f < g
                /\ fds[Shell][f] = Closed /\ fds[Shell][g] = Closed
                /\ NewPipe(Used, q)
                /\ loop' = [loop EXCEPT !.outfile = g, !.pipe0 = f]
                /\ Forks(p, Piped(fds[Shell], q, f, g), g)
                /\ pipes' = [pipes EXCEPT ![q] = JobPipe]
           \/ /\ loop.i >= N
              /\ loop' = [loop EXCEPT !.outfile = job.stdout]
              /\ Forks(p, fds[Shell], job.stdout)
              /\ UNCHANGED pipes
  BY <1>1, ForkCases
<1>6. ASSUME NEW t, NEW outfile, Forks(p, t, outfile)
      PROVE  /\ job'.stdin = job.stdin /\ job'.stdout = job.stdout /\ job'.stderr = job.stderr
             /\ job'.cmds = job.cmds
             /\ fds'[Shell] = t /\ fds'[p] = t
             /\ \A o \in Pids : o # p => fds'[o] = fds[o]
  <2>1. job' = [job EXCEPT !.pids = Append(@, p)] /\ fds' = [fds EXCEPT ![Shell] = t, ![p] = t]
    BY <1>6 DEF Forks
  <2> QED BY <1>3, <2>1 DEF JobRecords
<1>7. /\ \A q \in Pipes, f \in Fds : fds[Shell][f] = W(q) => pipes[q].by # "job"
      /\ Alive(job.stdin) /\ Alive(job.stdout)
      /\ loop.infile = job.stdin \/ Own(loop.infile)
      /\ loop.i \in 1..N
  BY <1>1, <1>2, <1>4 DEF ShellLetsGo, OwnOutfile, JobIsOpen, LoopCloses, LineRuns
<1>8. CASE /\ loop.i >= N
           /\ loop' = [loop EXCEPT !.outfile = job.stdout]
           /\ Forks(p, fds[Shell], job.stdout)
           /\ UNCHANGED pipes
  <2>1. /\ job'.stdin = job.stdin /\ job'.stdout = job.stdout /\ job'.stderr = job.stderr
        /\ job'.cmds = job.cmds
        /\ fds'[Shell] = fds[Shell] /\ fds'[p] = fds[Shell]
        /\ \A o \in Pids : o # p => fds'[o] = fds[o]
    BY <1>6, <1>8
  <2>2. /\ loop'.i = loop.i /\ loop'.infile = loop.infile
        /\ loop'.outfile = job.stdout /\ loop'.pipe0 = loop.pipe0
        /\ pipes' = pipes /\ N' = N /\ ~(loop'.i < N)
    <3>1. N' = N
      BY <2>1 DEF N
    <3>2. ~(loop.i < N)
      <4>1. N \in Nat /\ loop.i \in Nat
        BY <1>3 DEF N, JobRecords
      <4> QED BY <1>8, <4>1
    <3> QED BY <1>3, <1>8, <3>1, <3>2
  <2>3. LineRuns'
    BY <1>1, <1>2, <1>7, <2>2 DEF LineRuns
  <2>4. KeptOpen' /\ JobIsOpen' /\ BuiltinCloses' /\ CaptureCloses'
    <3>1. KeptOpen' /\ JobIsOpen'
      BY <1>2, <1>4, <2>1 DEF KeptOpen, JobIsOpen, Kept, Alive
    <3>2. BuiltinCloses' /\ CaptureCloses'
      BY <1>2, <1>4, <2>1 DEF BuiltinCloses, CaptureCloses, Kept, Captured
    <3> QED BY <3>1, <3>2
  <2>5. LoopCloses'
    BY <1>2, <1>7, <2>1, <2>2 DEF LoopCloses, Own
  <2>6. WriterAlone'
    <3>1. ASSUME NEW q \in Pipes, pipes'[q].by = "job", NEW o \in Pids, Holds(o, W(q))'
          PROVE  o # p /\ Holds(o, W(q))
      BY <1>7, <2>1, <2>2, <3>1 DEF Holds
    <3> QED BY <1>4, <2>2, <3>1 DEF WriterAlone
  <2>7. ShellLetsGo'
    BY <1>7, <2>1, <2>2 DEF ShellLetsGo
  <2>8. EndsKnown'
    <3>1. ASSUME WritesHeld PROVE WritesHeld'
      BY <1>2, <2>1, <2>2, <3>1 DEF WritesHeld, OwnOutfile, Capturing, Captured
    <3>2. ASSUME ReadsHeld PROVE ReadsHeld'
      BY <1>2, <2>1, <2>2, <3>2 DEF ReadsHeld, Capturing, Captured
    <3> QED BY <1>2, <1>4, <3>1, <3>2 DEF EndsKnown
  <2> QED BY <1>1, <2>3, <2>4, <2>5, <2>6, <2>7, <2>8 DEF Inductive
<1>9. ASSUME NEW q \in Pipes, NEW f \in Fds, NEW g \in Fds,
             loop.i < N, f < g, fds[Shell][f] = Closed, fds[Shell][g] = Closed,
             NewPipe(Used, q),
             loop' = [loop EXCEPT !.outfile = g, !.pipe0 = f],
             Forks(p, Piped(fds[Shell], q, f, g), g),
             pipes' = [pipes EXCEPT ![q] = JobPipe]
      PROVE  Inductive'
  <2>0. f # g /\ g # 0
    BY <1>9, NumbersInt
  <2>1. /\ job'.stdin = job.stdin /\ job'.stdout = job.stdout /\ job'.stderr = job.stderr
        /\ job'.cmds = job.cmds
        /\ fds'[Shell] = Piped(fds[Shell], q, f, g) /\ fds'[p] = Piped(fds[Shell], q, f, g)
        /\ \A o \in Pids : o # p => fds'[o] = fds[o]
    BY <1>6, <1>9
  <2>2. /\ loop'.i = loop.i /\ loop'.infile = loop.infile
        /\ loop'.outfile = g /\ loop'.pipe0 = f /\ N' = N
    BY <1>3, <1>9, <2>1 DEF N
  <2>3. \A x \in Fds : Piped(fds[Shell], q, f, g)[x] =
              IF x = f THEN R(q) ELSE IF x = g THEN W(q) ELSE fds[Shell][x]
    BY <1>3, <2>0, PipedIs
  <2>4. \A r \in Pipes : pipes'[r].by = IF r = q THEN "job" ELSE pipes[r].by
    BY <1>3, <1>9 DEF JobPipe
  <2>5. \A o \in {Shell} \cup Pids, x \in Fds : fds[o][x] # R(q) /\ fds[o][x] # W(q)
    BY <1>9, UnusedIs DEF NewPipe
  <2>6. ASSUME NEW r \in Pipes, NEW x \in Fds
        PROVE  /\ fds'[Shell][x] = W(r) => (x = g /\ r = q) \/ (fds[Shell][x] = W(r) /\ r # q)
               /\ fds'[Shell][x] = R(r) => (x = f /\ r = q) \/ (fds[Shell][x] = R(r) /\ r # q)
    <3>1. CASE x = f
      BY <2>1, <2>3, <3>1, Ends
    <3>2. CASE x = g
      BY <2>0, <2>1, <2>3, <3>2, Ends
    <3>3. CASE x \notin {f, g}
      BY <2>1, <2>3, <2>5, <3>3
    <3> QED BY <3>1, <3>2, <3>3
  <2>7. LineRuns'
    BY <1>1, <1>2, <1>7, <2>2 DEF LineRuns
  <2>8. /\ f \notin Kept /\ g \notin Kept
        /\ \A x \in Fds : fds[Shell][x] # Closed => fds'[Shell][x] = fds[Shell][x]
    BY <1>4, <1>9, <2>1, <2>3 DEF KeptOpen
  <2>9. Own(f) /\ Own(g)
    BY <1>7, <1>9, <2>8 DEF Own, Kept, Alive
  <2>10. KeptOpen' /\ JobIsOpen'
    <3>1. Kept \subseteq Fds /\ job.stdin \in Fds /\ job.stdout \in Fds
      BY <1>3, NumbersInt DEF Kept, JobRecords
    <3>2. KeptOpen'
      BY <1>2, <1>4, <2>8, <3>1 DEF KeptOpen, Kept
    <3>3. JobIsOpen'
      BY <1>2, <1>7, <2>1, <2>8, <3>1 DEF JobIsOpen, Alive
    <3> QED BY <3>2, <3>3
  <2>11. BuiltinCloses' /\ CaptureCloses'
    BY <1>2, <1>4 DEF BuiltinCloses, CaptureCloses, Kept, Captured
  <2>12. LoopCloses'
    <3>1. f \notin {1, 2}
      BY <2>9 DEF Own
    <3>2. ~(loop.i >= N)
      <4>1. N \in Nat /\ loop.i \in Nat
        BY <1>3 DEF N, JobRecords
      <4> QED BY <1>9, <4>1
    <3> QED BY <1>2, <1>7, <2>0, <2>1, <2>2, <2>9, <3>1, <3>2 DEF LoopCloses, Own
  <2>13. WriterAlone'
    <3>1. ASSUME NEW r \in Pipes, pipes'[r].by = "job", NEW o \in Pids, Holds(o, W(r))'
          PROVE  IF r = q THEN o = p ELSE Holds(o, W(r)) /\ pipes[r].by = "job"
      <4>1. PICK x \in Fds : fds'[o][x] = W(r)
        BY <3>1 DEF Holds
      <4>2. CASE o = p
        <5>1. fds'[Shell][x] = W(r)
          BY <2>1, <4>1, <4>2
        <5>2. r = q
          BY <1>7, <2>4, <2>6, <3>1, <5>1
        <5> QED BY <4>2, <5>2
      <4>3. CASE o # p
        <5>1. fds[o][x] = W(r)
          BY <2>1, <4>1, <4>3
        <5>2. r # q
          BY <2>5, <5>1
        <5> QED BY <2>4, <3>1, <5>1, <5>2 DEF Holds
      <4> QED BY <4>2, <4>3
    <3> QED BY <1>4, <3>1 DEF WriterAlone
  <2>14. ShellLetsGo'
    BY <1>2, <1>7, <1>9, <2>2, <2>4, <2>6 DEF ShellLetsGo, OwnOutfile
  <2>15. EndsKnown'
    <3>1. ASSUME WritesHeld PROVE WritesHeld'
      BY <1>2, <1>9, <2>2, <2>6, <3>1 DEF WritesHeld, OwnOutfile, Capturing, Captured
    <3>2. ASSUME ReadsHeld PROVE ReadsHeld'
      BY <1>2, <1>9, <2>1, <2>2, <2>4, <2>6, <3>2 DEF ReadsHeld, Capturing, Captured
    <3> QED BY <1>2, <1>4, <3>1, <3>2 DEF EndsKnown
  <2> QED BY <1>1, <2>7, <2>10, <2>11, <2>12, <2>13, <2>14, <2>15 DEF Inductive
<1> QED BY <1>5, <1>8, <1>9

LEMMA TidyKeeps ==
  ASSUME Inductive, Tidy, loop.pipe0 \in {1, 2} => loop.pipe0 = job.stdin
  PROVE  Inductive'
<1>1. TypeOK' /\ TypeOK /\ LineRuns
  BY TidyTypes DEF Inductive
<1>2. /\ pc = "tidy" /\ UNCHANGED <<line, at, job, cap, pipes, ran>>
      /\ loop.i = N => pc' \in {"wait", "launched"}
      /\ loop.i # N => pc' = "fork"
  BY DEF Tidy
<1>3. /\ job \in JobRecords /\ loop \in [i : Nat, infile : Int, outfile : Int, pipe0 : Int]
      /\ fds \in [{Shell} \cup Pids -> Tables] /\ odd \in [threw : BOOLEAN, stray : BOOLEAN]
      /\ \A o \in Pids : o # Shell
  BY <1>1, NumbersInt DEF TypeOK, Shell
<1>4. /\ KeptOpen /\ JobIsOpen /\ BuiltinCloses /\ CaptureCloses /\ LoopCloses
      /\ WriterAlone /\ ShellLetsGo /\ EndsKnown
  BY DEF Inductive
<1>5. loop'.i = loop.i + 1 /\ loop'.infile = loop.pipe0 /\ loop'.pipe0 = loop.pipe0
  BY <1>3 DEF Tidy
<1>6. N' = N /\ N \in Nat /\ loop.i \in 1..N
  BY <1>1, <1>2, <1>3 DEF N, JobRecords, LineRuns
<1>7. PICK t \in Tables :
        /\ fds' = [fds EXCEPT ![Shell] = t]
        /\ odd' = [odd EXCEPT !.stray = odd.stray \/ t # Tidied]
        /\ loop.i # N => t = Tidied
        /\ \A f \in Fds : t[f] = IF loop.i = N /\ f = loop.pipe0 /\ f # job.stdin
                                 THEN Closed ELSE Tidied[f]
  BY <1>1, TidyIs
<1>8. /\ fds'[Shell] = t /\ \A o \in Pids : fds'[o] = fds[o]
      /\ odd'.threw = odd.threw
      /\ odd'.stray <=> (odd.stray \/ t # Tidied)
  BY <1>3, <1>7
<1>9. \A f \in Fds : Tidied[f] =
        IF (f = loop.infile /\ f # job.stdin) \/ (f = loop.outfile /\ f # job.stdout)
        THEN Closed ELSE fds[Shell][f]
  BY <1>1, TidiedIs
<1>10. \A f \in Fds : t[f] = Closed \/ t[f] = fds[Shell][f]
  BY <1>7, <1>9
<1>11. /\ loop.infile = job.stdin \/ Own(loop.infile)
       /\ loop.outfile = job.stdout \/ (Own(loop.outfile) /\ loop.outfile # 0)
       /\ loop.i < N => Own(loop.outfile) /\ loop.outfile # 0 /\ Own(loop.pipe0)
       /\ Alive(job.stdin) /\ Alive(job.stdout)
  <2>1. loop.i < N \/ loop.i >= N
    BY <1>6
  <2> QED BY <1>2, <1>4, <2>1 DEF LoopCloses, JobIsOpen
<1>12. ASSUME NEW f \in Fds, f \in Kept \/ f = job.stdin \/ f = job.stdout,
              fds[Shell][f] # Closed
       PROVE  Tidied[f] # Closed \/ (f = 0 /\ odd.stray)
  BY <1>9, <1>11, <1>12 DEF Own, Kept
<1>13. LineRuns'
  <2>1. loop.i # N => loop.i + 1 \in 1..N
    BY <1>6
  <2> QED BY <1>1, <1>2, <1>5, <1>6, <2>1 DEF LineRuns
<1>14. KeptOpen'
  <2>1. ASSUME NEW f \in Kept' PROVE t[f] # Closed
    <3>1. f \in Kept /\ f \in Fds /\ (f = 0 => ~odd'.stray)
      BY <1>8, <2>1, NumbersInt DEF Kept
    <3>2. fds[Shell][f] # Closed
      BY <1>4, <3>1 DEF KeptOpen
    <3>3. Tidied[f] # Closed
      BY <1>8, <1>12, <3>1, <3>2
    <3>4. CASE f = 0
      BY <1>8, <3>1, <3>3, <3>4
    <3>5. CASE f # 0
      <4>1. f \in {1, 2}
        BY <2>1, <3>5 DEF Kept
      <4> QED BY <1>7, <1>11, <3>1, <3>3, <4>1
    <3> QED BY <3>4, <3>5
  <2> QED BY <1>8, <2>1 DEF KeptOpen
<1>15. JobIsOpen'
  <2>1. CASE loop.i # N
    <3>1. job.stdin \in Fds /\ job.stdout \in Fds
      BY <1>3 DEF JobRecords
    <3>2. t = Tidied /\ (odd'.stray <=> odd.stray)
      BY <1>7, <1>8, <2>1
    <3>3. /\ t[job.stdin] # Closed \/ (job.stdin = 0 /\ odd.stray)
          /\ t[job.stdout] # Closed \/ (job.stdout = 0 /\ odd.stray)
      BY <1>11, <1>12, <3>1, <3>2 DEF Alive
    <3> QED BY <1>2, <1>8, <3>2, <3>3 DEF JobIsOpen, Alive
  <2>2. CASE loop.i = N
    BY <1>2, <2>2 DEF JobIsOpen
  <2> QED BY <2>1, <2>2
<1>16. BuiltinCloses' /\ CaptureCloses'
  <2>1. Kept' \subseteq Kept
    BY <1>8 DEF Kept
  <2> QED BY <1>2, <1>4, <2>1 DEF BuiltinCloses, CaptureCloses, Captured
<1>17. LoopCloses'
  <2>1. CASE loop.i # N
    <3>1. loop.i < N
      BY <1>6, <2>1
    <3>2. pc' = "fork" /\ Own(loop.pipe0)
      BY <1>2, <1>11, <2>1, <3>1
    <3>3. Own(loop.infile)'
      BY <1>2, <1>5, <1>7, <1>8, <2>1, <3>2 DEF Own
    <3> QED BY <1>2, <3>2, <3>3 DEF LoopCloses
  <2>2. CASE loop.i = N
    BY <1>2, <2>2 DEF LoopCloses
  <2> QED BY <2>1, <2>2
<1>18. WriterAlone'
  BY <1>2, <1>4, <1>8 DEF WriterAlone, Holds
<1>19. ASSUME NEW f \in Fds, t[f] # Closed
       PROVE  /\ t[f] = fds[Shell][f]
              /\ ~(f = loop.infile /\ f # job.stdin)
              /\ ~OwnOutfile(f)
  <2>1. Tidied[f] = t[f]
    BY <1>7, <1>19
  <2>2. t[f] = fds[Shell][f] /\ ~(f = loop.infile /\ f # job.stdin)
    BY <1>9, <1>19, <2>1
  <2>3. ~OwnOutfile(f)
    <3>1. SUFFICES ASSUME loop.i < N, f = loop.outfile PROVE FALSE
      BY DEF OwnOutfile
    <3>2. loop.outfile # job.stdout
      BY <1>11, <3>1 DEF Own
    <3> QED BY <1>9, <1>19, <2>1, <3>1, <3>2
  <2> QED BY <2>2, <2>3
<1>20. ShellLetsGo'
  BY <1>2, <1>4, <1>8, <1>19, Ends DEF ShellLetsGo
<1>21. EndsKnown'
  <2>1. SUFFICES ASSUME ~odd.threw, ~odd.stray, t = Tidied
                 PROVE  (WritesHeld /\ ReadsHeld)'
    BY <1>8 DEF EndsKnown
  <2>2. WritesHeld /\ ReadsHeld
    BY <1>4, <2>1 DEF EndsKnown
  <2>3. Capturing' = Capturing /\ Captured' = Captured
    BY <1>2 DEF Capturing, Captured
  <2>4. WritesHeld'
    BY <1>2, <1>8, <1>19, <2>2, <2>3, Ends DEF WritesHeld
  <2>5. ASSUME NEW q \in Pipes, NEW f \in Fds, t[f] = R(q)
        PROVE  \/ pipes[q].by = "text"
               \/ Captured /\ Capturing /\ f \in {cap.out, cap.err}
               \/ pc' = "fork" /\ f = loop.pipe0 /\ f # job.stdin
    <3>1. fds[Shell][f] = R(q) /\ ~(f = loop.infile /\ f # job.stdin)
      BY <1>19, <2>5, Ends
    <3>2. \/ pipes[q].by = "text"
          \/ Captured /\ Capturing /\ f \in {cap.out, cap.err}
          \/ loop.i < N /\ f = loop.pipe0
      BY <1>2, <2>2, <3>1 DEF ReadsHeld
    <3>3. CASE loop.i < N /\ f = loop.pipe0
      <4>1. loop.i # N /\ f # job.stdin
        BY <1>6, <1>11, <2>1, <3>3 DEF Own
      <4> QED BY <1>2, <3>3, <4>1
    <3> QED BY <3>2, <3>3
  <2>6. ReadsHeld'
    BY <1>2, <1>5, <1>8, <2>3, <2>5 DEF ReadsHeld
  <2> QED BY <2>4, <2>6
<1> QED BY <1>1, <1>13, <1>14, <1>15, <1>16, <1>17, <1>18, <1>20, <1>21 DEF Inductive

\* The steps after the processes were made only close numbers of a capture.
LEMMA ClosingKeeps ==
  ASSUME Inductive, TypeOK', UNCHANGED <<line, at, job, cap, loop, pipes, ran>>,
         pc \in {"wait", "launched", "read"}, pc' \in {"idle", "wait", "launched", "read"},
         pc' = "wait" => pc = "wait",
         odd'.stray = odd.stray,
         \A o \in Pids : fds'[o] = fds[o],
         \A f \in Fds : fds'[Shell][f] = fds[Shell][f] \/ (fds'[Shell][f] = Closed /\ f \notin Kept),
         pc' = "read" => Captured,
         EndsKnown'
  PROVE  Inductive'
<1>1. LineRuns' /\ JobIsOpen' /\ BuiltinCloses' /\ LoopCloses'
  BY DEF Inductive, LineRuns, JobIsOpen, BuiltinCloses, LoopCloses
<1>2. KeptOpen'
  BY NumbersInt DEF Inductive, KeptOpen, Kept
<1>3. CaptureCloses'
  BY DEF Inductive, CaptureCloses, Kept, Captured
<1>4. WriterAlone'
  BY DEF Inductive, WriterAlone, Holds
<1>5. ShellLetsGo'
  BY Ends DEF Inductive, ShellLetsGo, OwnOutfile
<1> QED BY <1>1, <1>2, <1>3, <1>4, <1>5 DEF Inductive

LEMMA WaitKeeps ==
  ASSUME Inductive, Wait
  PROVE  Inductive'
<1>1. TypeOK' /\ TypeOK
  BY WaitTypes DEF Inductive
<1>2. /\ pc = "wait" /\ UNCHANGED <<line, at, job, cap, loop, fds, pipes, ran>>
      /\ \/ pc' \in {"wait", "launched"} /\ UNCHANGED odd
         \/ pc' = "idle" /\ odd' = [odd EXCEPT !.threw = TRUE]
  BY DEF Wait, WaitFor, WaitNoChild, WaitEnds, Throw
<1>3. odd'.stray = odd.stray /\ (pc' = "idle" => odd'.threw = TRUE)
  BY <1>1, <1>2 DEF TypeOK
<1>4. EndsKnown'
  BY <1>2, <1>3
     DEF Inductive, EndsKnown, WritesHeld, ReadsHeld, OwnOutfile, Capturing, Captured
<1> QED BY <1>1, <1>2, <1>3, <1>4, ClosingKeeps

LEMMA ReturnKeeps ==
  ASSUME Inductive, Return
  PROVE  Inductive'
<1>1. TypeOK' /\ TypeOK
  BY ReturnTypes DEF Inductive
<1>2. /\ pc = "launched" /\ UNCHANGED <<line, at, job, cap, loop, pipes, ran, odd>>
      /\ \/ Captured /\ pc' = "read" /\ fds' = [fds EXCEPT ![Shell] = ClosedWrites]
         \/ ~Captured /\ pc' = "idle" /\ fds' = fds
  BY DEF Return
<1>3. /\ \A o \in Pids : fds'[o] = fds[o]
      /\ \A f \in Fds : fds'[Shell][f] =
           IF Captured /\ f \in {cap.outw, cap.errw} THEN Closed ELSE fds[Shell][f]
  <2>1. fds \in [{Shell} \cup Pids -> Tables] /\ \A o \in Pids : o # Shell
    BY <1>1, NumbersInt DEF TypeOK, Shell
  <2> QED BY <1>1, <1>2, <2>1, ClosedIs
<1>4. \A f \in Fds : fds'[Shell][f] = fds[Shell][f] \/ (fds'[Shell][f] = Closed /\ f \notin Kept)
  BY <1>3 DEF Inductive, CaptureCloses
<1>5. EndsKnown'
  <2>1. ASSUME WritesHeld PROVE WritesHeld'
    BY <1>2, <1>3, <2>1, Ends DEF WritesHeld, OwnOutfile, Capturing
  <2>2. ASSUME ReadsHeld PROVE ReadsHeld'
    BY <1>2, <1>3, <2>2, Ends DEF ReadsHeld, Captured
  <2> QED BY <1>2, <2>1, <2>2 DEF Inductive, EndsKnown
<1> QED BY <1>1, <1>2, <1>3, <1>4, <1>5, ClosingKeeps

LEMMA ReadPipeKeeps ==
  ASSUME Inductive, ReadPipe
  PROVE  Inductive'
<1>1. TypeOK' /\ TypeOK /\ \A q \in Pipes : pipes'[q].by = pipes[q].by
  BY ReadPipeTypes DEF Inductive
<1>2. UNCHANGED <<pc, shellVars, fds>>
  BY DEF ReadPipe
<1>3. ProcessFrame
  BY <1>1, <1>2, TablesSame DEF ProcessFrame
<1> QED BY <1>1, <1>3, FrameKeeps

LEMMA EndCaptureKeeps ==
  ASSUME Inductive, EndCapture
  PROVE  Inductive'
<1>1. TypeOK' /\ TypeOK
  BY EndCaptureTypes DEF Inductive
<1>2. /\ pc = "read" /\ UNCHANGED <<line, at, job, cap, loop, pipes, ran, odd>>
      /\ pc' = "idle" /\ fds' = [fds EXCEPT ![Shell] = ClosedReads]
  BY DEF EndCapture
<1>3. /\ \A o \in Pids : fds'[o] = fds[o]
      /\ \A f \in Fds : fds'[Shell][f] =
           IF f \in {cap.out, cap.err} THEN Closed ELSE fds[Shell][f]
  <2>1. fds \in [{Shell} \cup Pids -> Tables] /\ \A o \in Pids : o # Shell
    BY <1>1, NumbersInt DEF TypeOK, Shell
  <2> QED BY <1>1, <1>2, <2>1, ClosedIs
<1>4. \A f \in Fds : fds'[Shell][f] = fds[Shell][f] \/ (fds'[Shell][f] = Closed /\ f \notin Kept)
  BY <1>3 DEF Inductive, CaptureCloses
<1>5. EndsKnown'
  <2>1. ASSUME WritesHeld PROVE WritesHeld'
    BY <1>2, <1>3, <2>1, Ends DEF WritesHeld, OwnOutfile, Capturing
  <2>2. ASSUME ReadsHeld PROVE ReadsHeld'
    BY <1>2, <1>3, <2>2, Ends DEF ReadsHeld, Capturing
  <2> QED BY <1>2, <2>1, <2>2 DEF Inductive, EndsKnown
<1> QED BY <1>1, <1>2, <1>3, <1>4, <1>5, ClosingKeeps

\* A mypipe[0] that was never set and is 1 or 2 makes the shell close that: a stray close.
LEMMA TidyStrays ==
  ASSUME Inductive, Tidy, loop.pipe0 \in {1, 2}, loop.pipe0 # job.stdin
  PROVE  odd'.stray
<1>1. TypeOK /\ LineRuns /\ KeptOpen /\ LoopCloses
  BY DEF Inductive
<1>2. PICK t \in Tables :
        /\ odd' = [odd EXCEPT !.stray = odd.stray \/ t # Tidied]
        /\ \A f \in Fds : t[f] = IF loop.i = N /\ f = loop.pipe0 /\ f # job.stdin
                                 THEN Closed ELSE Tidied[f]
  BY <1>1, TidyIs
<1>3. odd'.stray <=> (odd.stray \/ t # Tidied)
  BY <1>1, <1>2 DEF TypeOK
<1>4. pc = "tidy" /\ loop.i \in 1..N /\ N \in Nat /\ loop.pipe0 \in Fds
  <2>1. pc = "tidy"
    BY DEF Tidy
  <2>2. job \in JobRecords
    BY <1>1 DEF TypeOK
  <2>3. N \in Nat
    BY <2>2 DEF JobRecords, N
  <2> QED BY <1>1, <2>1, <2>3, NumbersInt DEF LineRuns
<1>5. loop.i = N
  <2>1. ~(loop.i < N)
    BY <1>1, <1>4 DEF LoopCloses, Own
  <2> QED BY <1>4, <2>1
<1>6. Tidied[loop.pipe0] = fds[Shell][loop.pipe0]
  <2>1. loop.infile = job.stdin \/ loop.infile # loop.pipe0
    BY <1>1, <1>4 DEF LoopCloses, Own
  <2>2. loop.outfile = job.stdout
    <3>1. loop.i >= N
      BY <1>4, <1>5
    <3> QED BY <1>1, <1>4, <3>1 DEF LoopCloses
  <2> QED BY <1>1, <1>4, <2>1, <2>2, TidiedIs
<1>7. fds[Shell][loop.pipe0] # Closed
  BY <1>1 DEF KeptOpen, Kept
<1> QED BY <1>2, <1>3, <1>4, <1>5, <1>6, <1>7

-----------------------------------------------------------------------------
(* The theorems.                                                           *)

\* What mypipe[0] holds before a pipe was made does no harm.
GarbageKept == pc \in {"fork", "tidy"} => loop.pipe0 \notin {1, 2}

OddOK == odd \in [threw : BOOLEAN, stray : BOOLEAN]

LEMMA StepKeeps ==
  ASSUME BuiltinsKeepNumbers, Inductive, [Next]_vars
  PROVE  \/ Inductive'
         \/ Tidy /\ loop.pipe0 \in {1, 2} /\ odd'.stray
<1>1. CASE ShellStep /\ ~Tidy
  BY <1>1, StartKeeps, OpenCaptureKeeps, RedirectKeeps, AddCommandKeeps, LaunchInternalKeeps,
     BeginLoopKeeps, ForkKeeps, WaitKeeps, ReturnKeeps, ReadPipeKeeps, EndCaptureKeeps
     DEF ShellStep
<1>2. CASE Tidy
  BY <1>2, TidyKeeps, TidyStrays
<1>3. CASE \E p \in Pids : ProcessStep(p)
  BY <1>3, LaunchProcessFrame, ProcessWritesFrame, ProcessReadsFrame, ProcessExitsFrame, FrameKeeps
     DEF ProcessStep, Inductive
<1>4. CASE UNCHANGED vars
  <2>1. UNCHANGED <<pc, shellVars, fds, pipes, proc>>
    BY <1>4 DEF vars, kernelVars
  <2>2. TypeOK
    BY DEF Inductive
  <2>3. TypeOK'
    <3>1. /\ fds' \in [{Shell} \cup Pids -> Tables] /\ pipes' \in [Pipes -> PipeRecords]
          /\ proc' \in [Pids -> ProcessRecords]
      BY <2>1, <2>2 DEF TypeOK
    <3> QED BY <2>1, <2>2, <3>1, ProcessSteady
  <2>4. ProcessFrame
    BY <2>1, <2>2, TablesSame DEF ProcessFrame
  <2> QED BY <2>3, <2>4, FrameKeeps
<1> QED BY <1>1, <1>2, <1>3, <1>4 DEF Next

\* Nothing but BeginLoop and Fork gives mypipe[0] a value.
LEMMA GarbageStays ==
  ASSUME GarbageIsNoOutput, Inductive, GarbageKept, [Next]_vars
  PROVE  GarbageKept'
<1> USE DEF GarbageKept
<1>1. CASE BeginLoop
  BY <1>1 DEF BeginLoop, GarbageIsNoOutput
<1>2. CASE Fork
  <2>1. TypeOK /\ KeptOpen
    BY DEF Inductive
  <2>2. loop \in [i : Nat, infile : Int, outfile : Int, pipe0 : Int]
    BY <2>1 DEF TypeOK
  <2>3. loop'.pipe0 = loop.pipe0 \/ fds[Shell][loop'.pipe0] = Closed
    BY <1>2, <2>1, <2>2, ForkCases
  <2> QED BY <1>2, <2>1, <2>3 DEF Fork, KeptOpen, Kept
<1>3. CASE Tidy
  BY <1>3 DEF Tidy, Inductive, TypeOK
<1>4. CASE UNCHANGED loop /\ (pc' = pc \/ pc' \notin {"fork", "tidy"})
  BY <1>4
<1>5. CASE \E p \in Pids : ProcessStep(p)
  BY <1>4, <1>5
     DEF ProcessStep, LaunchProcess, ProcessWrites, ProcessReads, ProcessExits, shellVars
<1>6. CASE \/ Start \/ OpenCapture \/ Redirect \/ AddCommand \/ LaunchInternalCmd
           \/ Wait \/ Return \/ ReadPipe \/ EndCapture
  BY <1>6 DEF Start, OpenCapture, Redirect, AddCommand, LaunchInternalCmd, Wait, WaitFor, WaitNoChild,
              WaitEnds, Return, ReadPipe, EndCapture, Throw, shellVars
<1> QED BY <1>1, <1>2, <1>3, <1>4, <1>5, <1>6 DEF Next, ShellStep, vars, shellVars

\* A stray close is never forgotten.
LEMMA StrayStays ==
  ASSUME OddOK, [Next]_vars
  PROVE  OddOK' /\ (odd.stray => odd'.stray)
<1> USE DEF OddOK
<1>1. CASE UNCHANGED odd
  BY <1>1
<1>2. CASE odd' = [odd EXCEPT !.threw = TRUE]
  BY <1>2
<1>3. CASE \E t : odd' = [odd EXCEPT !.stray = odd.stray \/ t # Tidied]
  <2>1. PICK t : odd' = [odd EXCEPT !.stray = odd.stray \/ t # Tidied]
    BY <1>3
  <2>2. (odd.stray \/ t # Tidied) \in BOOLEAN
    OBVIOUS
  <2> QED BY <2>1, <2>2
<1>4. UNCHANGED odd \/ odd' = [odd EXCEPT !.threw = TRUE] \/ Tidy
  <2>1. CASE ShellStep
    BY <2>1 DEF ShellStep, Start, OpenCapture, Redirect, AddCommand, LaunchInternalCmd, BeginLoop,
                Fork, Wait, WaitFor, WaitNoChild, WaitEnds, Return, ReadPipe, EndCapture, Throw, shellVars
  <2>2. CASE \E p \in Pids : ProcessStep(p)
    BY <2>2 DEF ProcessStep, LaunchProcess, ProcessWrites, ProcessReads, ProcessExits, shellVars
  <2>3. CASE UNCHANGED vars
    BY <2>3 DEF vars, shellVars
  <2> QED BY <2>1, <2>2, <2>3 DEF Next
<1>5. Tidy => \E t : odd' = [odd EXCEPT !.stray = odd.stray \/ t # Tidied]
  BY DEF Tidy
<1> QED BY <1>1, <1>2, <1>3, <1>4, <1>5

LEMMA AtMostOne ==
  ASSUME Inductive
  PROVE  OneWriter
<1>1. SUFFICES ASSUME NEW q \in Pipes, pipes[q].by = "job"
               PROVE  Cardinality(Holders(W(q)) \ {Shell}) <= 1
  BY DEF OneWriter
<1> DEFINE S == Holders(W(q)) \ {Shell}
<1>2. S \subseteq Pids /\ \A o \in S : Holds(o, W(q))
  BY DEF Holders, Holds
<1>3. \A p, o \in S : p = o
  BY <1>1, <1>2 DEF Inductive, WriterAlone
<1>4. CASE S = {}
  BY <1>4, FS_EmptySet
<1>5. CASE S # {}
  <2>1. PICK p : S = {p}
    BY <1>3, <1>5
  <2>2. Cardinality(S) = 1
    BY <2>1, FS_Singleton
  <2> QED BY <2>2
<1> QED BY <1>4, <1>5

LEMMA NoneKept ==
  ASSUME Inductive
  PROVE  NothingKept
<1>1. SUFFICES ASSUME pc = "idle", ~odd.threw, ~odd.stray, NEW f \in Fds
               PROVE  /\ fds[Shell][f].of # "w"
                      /\ fds[Shell][f].of = "r" => pipes[fds[Shell][f].pipe].by = "text"
  BY DEF NothingKept
<1>2. WritesHeld /\ ReadsHeld
  BY <1>1 DEF Inductive, EndsKnown
<1>3. fds[Shell][f] \in Descriptors
  BY TablesOf DEF Inductive, Tables
<1>4. fds[Shell][f].of # "w"
  BY <1>1, <1>2, <1>3, Kinds DEF WritesHeld, OwnOutfile, Capturing
<1>5. fds[Shell][f].of = "r" => pipes[fds[Shell][f].pipe].by = "text"
  BY <1>1, <1>2, <1>3, Kinds DEF ReadsHeld, Capturing
<1> QED BY <1>4, <1>5

\* As long as mypipe[0] is not the number of the shell's stdout or stderr by chance, and a
\* builtin is not redirected to a descriptor of the shell, the numbers LaunchJob and the
\* captures close are their own, and every end of a pipe in the shell is accounted for.
THEOREM EndsAccounted ==
  ASSUME BuiltinsKeepNumbers, GarbageIsNoOutput
  PROVE  Spec => []Inductive
<1>1. Init => Inductive /\ GarbageKept
  BY InitKeeps DEF Init, GarbageKept
<1>2. Inductive /\ GarbageKept /\ [Next]_vars => (Inductive /\ GarbageKept)'
  <2> SUFFICES ASSUME Inductive, GarbageKept, [Next]_vars
               PROVE  Inductive' /\ GarbageKept'
    OBVIOUS
  <2>1. GarbageKept'
    BY GarbageStays
  <2>2. ~(Tidy /\ loop.pipe0 \in {1, 2})
    BY DEF Tidy, GarbageKept
  <2> QED BY <2>1, <2>2, StepKeeps
<1> QED BY <1>1, <1>2, PTL DEF Spec

\* Two processes never can write to a pipe of a pipeline: its reader sees the end when its
\* writer ends (the closes of LaunchJob, cmd-exec.cc:593).
THEOREM WritersAreAlone ==
  ASSUME BuiltinsKeepNumbers, GarbageIsNoOutput
  PROVE  Spec => []OneWriter
  BY EndsAccounted, AtMostOne, PTL

\* Whatever mypipe[0] holds: until it makes the shell close a number for nothing, pipes have
\* one writer.
THEOREM UntilAStrayClose ==
  ASSUME BuiltinsKeepNumbers
  PROVE  Spec => [](OneWriter \/ odd.stray) /\ []NothingKept
<1>1. Init => OddOK /\ (Inductive \/ odd.stray)
  <2>1. Init => OddOK
    BY DEF Init, OddOK
  <2> QED BY <2>1, InitKeeps
<1>2. OddOK /\ (Inductive \/ odd.stray) /\ [Next]_vars => (OddOK /\ (Inductive \/ odd.stray))'
  BY StepKeeps, StrayStays
<1>3. Inductive \/ odd.stray => (OneWriter \/ odd.stray) /\ NothingKept
  BY AtMostOne, NoneKept DEF NothingKept
<1> QED BY <1>1, <1>2, <1>3, PTL DEF Spec

\* Between two lines, unless an exception left one or a number was closed for nothing, the
\* shell holds no write end and reads from no pipe but texts it wrote itself.
THEOREM NothingIsKept ==
  ASSUME BuiltinsKeepNumbers
  PROVE  Spec => []NothingKept
  BY UntilAStrayClose, PTL
=============================================================================
