-------------------------- MODULE JobControlProofs --------------------------
(***************************************************************************)
(* Proofs about JobControl, for every terminal mode, every set of          *)
(* pipelines and every number of processes; and then about what a script   *)
(* may rely on: nothing outlives the statement that ran it, the error that *)
(* is thrown is the command's own, and JobControl implements JobPromise.   *)
(***************************************************************************)
EXTENDS JobRefinement, FiniteSetTheorems, TLAPS

(* The types of what the actions write.                                    *)

LEMMA UnbornTyped == Unborn \in KernelType
  BY MaxPidsAssumption DEF Unborn, KernelType, Outcomes

LEMMA UnmarkedTyped == Unmarked \in MarkType
  BY DEF Unmarked, MarkType, Outcomes

LEMMA NoReportTyped == NoReport \in ReportType
  BY DEF NoReport, ReportType, Outcomes

LEMMA NewJobTyped ==
  ASSUME NEW shape \in Seq(Kinds), NEW form \in {"fg", "bg", "andor"}
  PROVE  NewJob(shape, form) \in JobType
  BY MaxPidsAssumption DEF NewJob, JobType

LEMMA NoJobTyped ==
  ASSUME NEW form \in {"fg", "bg", "andor"}
  PROVE  NewJob(<<>>, form) \in JobType
<1>1. <<>> \in Seq(Kinds)
  OBVIOUS
<1> QED
  BY <1>1, NewJobTyped

LEMMA JoinedTyped ==
  ASSUME TypeOK, NEW p \in Pids
  PROVE  Joined(p) \in 0..MaxPids
  BY DEF TypeOK, Joined, KernelType

LEMMA EndedTyped ==
  ASSUME TypeOK, NEW p \in Pids, NEW s \in Outcomes
  PROVE  /\ Ended(p, s) \in [Pids -> KernelType]
         /\ \A q \in Pids : q # p => Ended(p, s)[q] = proc[q]
         /\ Ended(p, s)[p].st \in {"gone", "zombie"}
<1> DEFINE e == IF sigchld = "IGN" \/ Halted THEN "gone" ELSE "zombie"
           r == [proc[p] EXCEPT !.st = e, !.stat = s]
<1>1. proc \in [Pids -> KernelType]
  BY DEF TypeOK
<1>2. r \in KernelType /\ r.st \in {"gone", "zombie"}
  BY <1>1 DEF KernelType
<1>3. Ended(p, s) = [proc EXCEPT ![p] = r]
  BY DEF Ended
<1> HIDE DEF r
<1> QED
  BY <1>1, <1>2, <1>3

LEMMA MarkedTyped ==
  ASSUME TypeOK, NEW p \in Pids, NEW s \in Outcomes \cup {"stop"}
  PROVE  /\ Marked(p, s) \in [Pids -> MarkType]
         /\ \A q \in Pids : q # p => Marked(p, s)[q] = seen[q]
         /\ Marked(p, s)[p].status = s
<1> DEFINE r == [completed |-> seen[p].completed \/ s # "stop",
                 stopped |-> seen[p].stopped \/ s = "stop",
                 status |-> s]
<1>1. seen \in [Pids -> MarkType]
  BY DEF TypeOK
<1>2. r \in MarkType /\ r.status = s
  BY <1>1 DEF MarkType
<1>3. Marked(p, s) = [seen EXCEPT ![p] = r]
  BY DEF Marked
<1> HIDE DEF r
<1> QED
  BY <1>1, <1>2, <1>3

LEMMA JobPidsArePids ==
  ASSUME TypeOK
  PROVE  JobPids \subseteq Pids /\ (job.pids # <<>> => LastPid \in JobPids)
  BY DEF TypeOK, JobType, JobPids, LastPid

-----------------------------------------------------------------------------
(* The inductive invariant holds initially and is kept by each action.     *)

LEMMA InitInductive == Init => Inductive
<1> SUFFICES ASSUME Init PROVE Inductive
  OBVIOUS
<1>1. TypeOK
  <2>1. job \in JobType
    BY NoJobTyped DEF Init
  <2>2. proc \in [Pids -> KernelType] /\ seen \in [Pids -> MarkType]
    BY UnbornTyped, UnmarkedTyped DEF Init
  <2>3. report \in ReportType
    BY NoReportTyped DEF Init
  <2>4. last \in LastType
    BY DEF Init, LastType
  <2>5. Len(job.pids) <= Len(job.shape) /\ DOMAIN job.pids = {}
    BY DEF Init, NewJob
  <2>6. pc = "idle" /\ born \in 0..MaxPids /\ fgpg \in 0..MaxPids
    BY MaxPidsAssumption DEF Init
  <2>7. sigchld \in {"DFL", "IGN"} /\ shm \in BOOLEAN /\ builtin \in Outcomes
    BY DEF Init, Outcomes
  <2> QED
    BY <2>1, <2>2, <2>3, <2>4, <2>5, <2>6, <2>7 DEF TypeOK
<1>2. Room
  BY DEF Init, Room, Waiting
<1>3. Owner
  BY DEF Init, Owner, TerminalOwner
<1>4. Kept
  BY DEF Init, Kept, Unborn, Unmarked, NoReport
<1> QED
  BY <1>1, <1>2, <1>3, <1>4 DEF Inductive

LEMMA LaunchInductive ==
  ASSUME Inductive, NEW shape \in Shapes, NEW form \in Forms, Launch(shape, form)
  PROVE  Inductive'
<1> USE DEF Inductive
<1>1. shape \in Seq(Kinds) /\ Len(shape) \in Nat \ {0} /\ form \in {"fg", "bg", "andor"}
  BY ShapesAssumption, FormsAssumption
<1>2. job' \in JobType /\ seen' \in [Pids -> MarkType] /\ report' \in ReportType
  BY <1>1, NewJobTyped, UnmarkedTyped, NoReportTyped DEF Launch
<1>3. TypeOK'
  BY <1>1, <1>2 DEF TypeOK, Launch, NewJob, kernelVars
<1>4. Room'
  BY <1>1, MaxPidsAssumption DEF TypeOK, Launch, Room, NewJob, kernelVars, Waiting
<1>5. Owner'
  BY DEF Launch, Owner, TerminalOwner, kernelVars
<1>6. Kept'
  BY DEF Launch, Kept, kernelVars, Unmarked, NoReport
<1> QED
  BY <1>3, <1>4, <1>5, <1>6

LEMMA InternalInductive ==
  ASSUME Inductive, NEW shape \in Shapes, NEW form \in Forms,
         LaunchInternalCmd(shape, form)
  PROVE  Inductive'
<1> USE DEF Inductive
<1>1. shape \in Seq(Kinds) /\ Len(shape) = 1 /\ form \in {"fg", "bg", "andor"}
  BY ShapesAssumption, FormsAssumption DEF LaunchInternalCmd
<1>2. job' \in JobType /\ seen' \in [Pids -> MarkType]
  BY <1>1, NewJobTyped, UnmarkedTyped DEF LaunchInternalCmd
<1>3. report' \in ReportType /\ report'.status = "ok"
  BY DEF LaunchInternalCmd, NoReport, ReportType, Outcomes
<1>4. TypeOK'
  BY <1>1, <1>2, <1>3 DEF TypeOK, LaunchInternalCmd, NewJob, kernelVars, Outcomes
<1>5. Room'
  BY <1>1 DEF LaunchInternalCmd, Room, Waiting
<1>6. Owner'
  BY DEF LaunchInternalCmd, Owner, TerminalOwner, kernelVars
<1>7. Kept'
  BY <1>3 DEF LaunchInternalCmd, Kept, kernelVars, Unmarked
<1> QED
  BY <1>4, <1>5, <1>6, <1>7

LEMMA AndOrInductive ==
  ASSUME Inductive, ForkAndOr
  PROVE  Inductive'
<1> USE DEF Inductive
<1>1. job' \in JobType /\ seen' \in [Pids -> MarkType] /\ report' \in ReportType
  BY NoJobTyped, UnmarkedTyped, NoReportTyped DEF ForkAndOr
<1>2. [Unborn EXCEPT !.kind = "andor", !.st = "running"] \in KernelType
  BY UnbornTyped DEF KernelType
<1>3. proc' \in [Pids -> KernelType] /\ born' \in 0..MaxPids
  BY <1>2, MaxPidsAssumption DEF ForkAndOr, TypeOK
<1>4. TypeOK'
  <2>1. Len(job.pids)' <= Len(job.shape)' /\ DOMAIN job'.pids = {}
    BY DEF ForkAndOr, NewJob
  <2> QED
    BY <1>1, <1>3, <2>1 DEF TypeOK, ForkAndOr
<1>5. Room'
  BY DEF ForkAndOr, Room, Waiting
<1>6. Owner'
  BY DEF ForkAndOr, Owner, TerminalOwner
<1>7. Kept'
  <2>1. \A q \in Pids : seen'[q].status = "ok"
    BY DEF ForkAndOr, Unmarked
  <2>2. report'.status = "ok" /\ ~report'.done
    BY DEF ForkAndOr, NoReport
  <2>3. ASSUME NEW q \in Pids
        PROVE  (q > born' => proc'[q].st = "none") /\ (proc'[q].st = "stopped" => Tty)
    <3>1. CASE UNCHANGED <<born, proc>>
      BY <3>1 DEF Kept
    <3>2. CASE /\ born' = born + 1
               /\ proc' = [proc EXCEPT ![born + 1] =
                      [Unborn EXCEPT !.kind = "andor", !.st = "running"]]
      <4>1. CASE q = born + 1
        BY <3>2, <4>1 DEF TypeOK, Pids
      <4>2. CASE q # born + 1
        BY <3>2, <4>2, MaxPidsAssumption DEF TypeOK, Pids, Kept
      <4> QED
        BY <4>1, <4>2
    <3> QED
      BY <3>1, <3>2 DEF ForkAndOr
  <2> QED
    BY <2>1, <2>2, <2>3 DEF Kept
<1> QED
  BY <1>4, <1>5, <1>6, <1>7

LEMMA ForkInductive ==
  ASSUME Inductive, Fork
  PROVE  Inductive'
<1> USE DEF Inductive
<1> DEFINE p == born + 1
           pids == Append(job.pids, p)
           child == [Unborn EXCEPT !.kind = job.shape[Len(pids)],
                                   !.grp = IF job.pgid = 0 THEN p ELSE job.pgid,
                                   !.st = "forked"]
<1>1. /\ pc = "fork" /\ born' = p /\ job' = [job EXCEPT !.pids = pids]
      /\ proc' = [proc EXCEPT ![p] = child]
      /\ UNCHANGED <<seen, sigchld, shm, fgpg, builtin, report>>
      /\ pc' = IF Tty THEN "setpgid" ELSE AfterFork(pids)
  BY DEF Fork
<1>2. p \in Pids /\ born \in 0..MaxPids
  BY <1>1, MaxPidsAssumption DEF Room, TypeOK, JobType, Pids
<1>3. /\ pids \in Seq(Pids) /\ Len(pids) = Len(job.pids) + 1 /\ Len(pids) <= Len(job.shape)
      /\ pids # <<>>
      /\ \A i \in DOMAIN pids : pids[i] <= p
  <2>1. /\ job.pids \in Seq(Pids) /\ Len(job.pids) \in Nat
        /\ job.shape \in Seq(Kinds) /\ Len(job.shape) \in Nat
        /\ Len(job.pids) < Len(job.shape)
    BY <1>1 DEF TypeOK, JobType, Room
  <2>2. pids \in Seq(Pids) /\ Len(pids) = Len(job.pids) + 1
    BY <2>1, <1>2
  <2>3. DOMAIN pids = 1..Len(pids) /\ DOMAIN job.pids = 1..Len(job.pids)
    BY <2>1, <2>2
  <2>4. ASSUME NEW i \in DOMAIN pids PROVE pids[i] <= p
    <3>1. CASE i = Len(job.pids) + 1
      BY <3>1, <2>1, <1>2
    <3>2. CASE i \in 1..Len(job.pids)
      <4>1. pids[i] = job.pids[i] /\ job.pids[i] \in Pids
        BY <3>2, <2>1
      <4>2. job.pids[i] <= born
        BY <3>2, <2>3 DEF TypeOK
      <4> QED
        BY <4>1, <4>2, <1>2 DEF Pids
    <3> QED
      BY <3>1, <3>2, <2>1, <2>2, <2>3
  <2>5. pids # <<>>
    <3>1. Len(pids) # 0 /\ Len(<<>>) = 0
      BY <2>1, <2>2
    <3> QED
      BY <3>1
  <2> HIDE DEF pids
  <2> QED
    BY <2>1, <2>2, <2>4, <2>5
<1>4. child \in KernelType
  <2>1. job.shape[Len(pids)] \in Kinds
    BY <1>3 DEF TypeOK, JobType
  <2>2. (IF job.pgid = 0 THEN p ELSE job.pgid) \in 0..MaxPids
    BY <1>2 DEF TypeOK, JobType, Pids
  <2> QED
    BY <2>1, <2>2, UnbornTyped DEF KernelType
<1>5. proc' \in [Pids -> KernelType]
  BY <1>1, <1>2, <1>4 DEF TypeOK
<1>6. job' \in JobType /\ job'.pids = pids /\ job'.shape = job.shape /\ job'.form = job.form
  BY <1>1, <1>3 DEF TypeOK, JobType
<1>7. last' \in LastType
  BY <1>2 DEF Fork, TypeOK, LastType, Pids
<1>8. pc' \in {"setpgid", "fork", "sigdfl"} /\ (pc' = "setpgid" <=> Tty)
      /\ (pc' = "fork" => Len(pids) < Len(job.shape))
      /\ (pc' = "sigdfl" => Len(pids) = Len(job.shape))
  <2>1. Len(job.shape) \in Nat /\ Len(pids) \in Nat
    BY <1>3 DEF TypeOK, JobType
  <2> HIDE DEF pids
  <2>2. CASE Tty
    BY <2>2, <1>1
  <2>3. CASE ~Tty /\ Len(pids) < Len(job.shape)
    <3>1. AfterFork(pids) = "fork"
      BY <2>3 DEF AfterFork
    <3> QED
      BY <3>1, <2>3, <1>1
  <2>4. CASE ~Tty /\ ~(Len(pids) < Len(job.shape))
    <3>1. AfterFork(pids) = "sigdfl"
      BY <2>4 DEF AfterFork
    <3> QED
      BY <3>1, <2>1, <2>4, <1>1, <1>3
  <2> QED
    BY <2>2, <2>3, <2>4, ModeAssumption
<1>9. TypeOK'
  <2>1. born' \in 0..MaxPids
    BY <1>1, <1>2 DEF Pids
  <2> QED
    BY <1>1, <1>3, <1>5, <1>6, <1>7, <1>8, <2>1 DEF TypeOK
<1>10. Room'
  <2>1. born \in Nat /\ MaxPids \in Nat /\ Len(job.shape) \in Nat /\ Len(job.pids) \in Nat
    BY MaxPidsAssumption DEF TypeOK, JobType
  <2>2. born + Len(job.shape) <= MaxPids + Len(job.pids)
    BY <1>1 DEF Room
  <2> HIDE DEF pids, p
  <2>3. p = born + 1
    BY DEF p
  <2> QED
    BY SMTT(30), <1>1, <1>3, <1>6, <1>8, <2>1, <2>2, <2>3 DEF Room, Waiting, Launched
<1>11. Owner'
  BY <1>1, <1>8 DEF Owner, TerminalOwner
<1>12. Kept'
  <2>1. report.status = "ok" /\ ~report.done
    BY <1>1 DEF Kept
  <2>2. ASSUME NEW q \in Pids
        PROVE  /\ q > born' => proc'[q].st = "none"
               /\ proc'[q].st = "stopped" => Tty
               /\ seen[q].status = "stop" => Tty
               /\ seen[q].status \notin {"ok", "stop"} =>
                    proc'[q].st = "gone" /\ proc'[q].stat = seen[q].status
    <3>1. CASE q = p
      <4>1. proc[q].st = "none"
        BY <3>1, <1>2 DEF Kept
      <4>2. proc'[q].st = "forked"
        BY <1>1, <1>2, <3>1 DEF TypeOK, Unborn
      <4> QED
        BY <1>1, <1>2, <3>1, <4>1, <4>2 DEF Kept, Pids
    <3>2. CASE q # p
      BY <1>1, <1>2, <3>2 DEF Kept, Pids, TypeOK
    <3> QED
      BY <3>1, <3>2
  <2> QED
    BY <1>1, <2>1, <2>2 DEF Kept
<1> QED
  BY <1>9, <1>10, <1>11, <1>12

LEMMA ForkFailsInductive ==
  ASSUME Inductive, ForkFails
  PROVE  Inductive'
<1> USE DEF Inductive, ForkFails, kernelVars
<1>1. TypeOK'
  BY DEF TypeOK
<1>2. Room' /\ Owner'
  BY DEF Room, Owner, TerminalOwner, Waiting, Launched
<1>3. Kept'
  BY DEF Kept, Status, LastPid, Launched
<1> QED
  BY <1>1, <1>2, <1>3

LEMMA SetpgidInductive ==
  ASSUME Inductive, ParentSetpgid
  PROVE  Inductive'
<1> USE DEF Inductive
<1>1. /\ pc = "setpgid" /\ job' = [job EXCEPT !.pgid = IF @ = 0 THEN LastPid ELSE @]
      /\ proc' = [proc EXCEPT ![LastPid].pg = Joined(LastPid)]
      /\ pc' = AfterFork(job.pids)
      /\ UNCHANGED <<born, seen, sigchld, shm, fgpg, builtin, last, report>>
  BY DEF ParentSetpgid
<1>2. LastPid \in Pids
  BY <1>1, JobPidsArePids DEF Room
<1>3. proc' \in [Pids -> KernelType]
      /\ \A q \in Pids : proc'[q].st = proc[q].st /\ proc'[q].stat = proc[q].stat
  <2>1. [proc[LastPid] EXCEPT !.pg = Joined(LastPid)] \in KernelType
    BY <1>2, JoinedTyped DEF TypeOK, KernelType
  <2> QED
    BY <1>1, <1>2, <2>1 DEF TypeOK, KernelType
<1>4. job' \in JobType /\ job'.pids = job.pids /\ job'.shape = job.shape /\ job'.form = job.form
  <2>1. (IF job.pgid = 0 THEN LastPid ELSE job.pgid) \in 0..MaxPids
    BY <1>2 DEF TypeOK, JobType, Pids
  <2> QED
    BY <1>1, <2>1 DEF TypeOK, JobType
<1>5. Tty
  BY <1>1 DEF Owner
<1>6. pc' \in {"fork", "putfg", "idle"}
      /\ (pc' = "putfg" => job.form = "fg" /\ Len(job.pids) >= Len(job.shape))
      /\ (pc' = "fork" => Len(job.pids) < Len(job.shape))
  <2>1. Len(job.pids) \in Nat /\ Len(job.shape) \in Nat
    BY DEF TypeOK, JobType
  <2>2. CASE Len(job.pids) < Len(job.shape)
    <3>1. AfterFork(job.pids) = "fork"
      BY <2>2 DEF AfterFork
    <3> QED
      BY <3>1, <2>2, <1>1
  <2>3. CASE ~(Len(job.pids) < Len(job.shape))
    <3>1. AfterFork(job.pids) = IF job.form = "fg" THEN "putfg" ELSE "idle"
      BY <2>3, <1>5 DEF AfterFork
    <3> QED
      BY <3>1, <2>1, <2>3, <1>1
  <2> QED
    BY <2>2, <2>3
<1>7. TypeOK'
  BY <1>1, <1>3, <1>4, <1>6 DEF TypeOK
<1>8. Room'
  BY <1>1, <1>4, <1>6 DEF Room, Waiting, Launched, TypeOK, JobType
<1>9. Owner'
  BY <1>1, <1>4, <1>5, <1>6 DEF Owner, TerminalOwner
<1>10. Kept'
  BY <1>1, <1>3 DEF Kept
<1> QED
  BY <1>7, <1>8, <1>9, <1>10

(* The steps that touch no process and no mark.                            *)
LEMMA QuietShellInductive ==
  ASSUME Inductive, PutJobInForeground \/ StartWait \/ WaitNoChild \/ Restore
  PROVE  Inductive'
<1> USE DEF Inductive
<1>1. UNCHANGED <<job, born, proc, seen, shm, builtin, last, report>>
      /\ fgpg' \in {0, fgpg, job.pgid} /\ sigchld' \in {sigchld, "DFL", "IGN"}
      /\ pc \in Waiting /\ pc' \in Waiting
  BY DEF PutJobInForeground, StartWait, WaitNoChild, Restore, AfterWait, Waiting
<1>2. TypeOK'
  <2>1. job.pgid \in 0..MaxPids /\ 0 \in 0..MaxPids
    BY MaxPidsAssumption DEF TypeOK, JobType
  <2> QED
    BY <1>1, <2>1 DEF TypeOK, Waiting
<1>3. Room'
  BY <1>1 DEF Room, Waiting, Launched
<1>4. Owner'
  BY DEF Owner, TerminalOwner, PutJobInForeground, StartWait, WaitNoChild, Restore, AfterWait
<1>5. Kept'
  BY <1>1 DEF Kept, Status, LastPid, Launched, Waiting
<1> QED
  BY <1>2, <1>3, <1>4, <1>5

LEMMA MarkAndLoopEffect ==
  ASSUME TypeOK, NEW p \in Pids, NEW s \in Outcomes \cup {"stop"}, MarkAndLoop(p, s)
  PROVE  /\ seen' = Marked(p, s) \/ seen' = seen
         /\ pc' = pc \/ pc' = AfterWait
         /\ sigchld' = sigchld \/ sigchld' = "IGN"
  BY DEF MarkAndLoop

(* waitpid returned a child, which had ended or stopped.                   *)
LEMMA WaitInductive ==
  ASSUME Inductive, NEW p \in Pids, WaitReap(p) \/ WaitStopped(p)
  PROVE  Inductive'
<1> USE DEF Inductive
<1> DEFINE s == IF WaitReap(p) THEN proc[p].stat ELSE "stop"
<1>1. /\ pc = "wait" /\ proc[p].st \in {"zombie", "stopped"}
      /\ pc' \in {"wait", AfterWait, "killed"}
      /\ UNCHANGED <<job, born, shm, fgpg, builtin, last>>
      /\ report' \in {report, [report EXCEPT !.broke = TRUE]}
  BY DEF WaitReap, WaitStopped, MarkAndLoop
<1>2. proc[p].stat \in Outcomes
  BY DEF TypeOK, KernelType
<1>3. /\ seen' \in {seen, Marked(p, s)}
      /\ sigchld' \in {sigchld, "IGN"}
  BY DEF WaitReap, WaitStopped, MarkAndLoop
<1>4. proc' \in [Pids -> KernelType] /\ \A q \in Pids \ {p} : proc'[q] = proc[q]
  <2>1. CASE WaitReap(p)
    BY ZenonT(30), <2>1 DEF WaitReap, TypeOK, KernelType
  <2>2. CASE WaitStopped(p)
    BY ZenonT(30), <2>2 DEF WaitStopped, TypeOK, KernelType
  <2> QED
    BY <2>1, <2>2
<1>5. /\ proc'[p].stat = proc[p].stat
      /\ WaitReap(p) => proc'[p].st = "gone"
      /\ ~WaitReap(p) => proc'[p].st = "stopped" /\ s = "stop"
  <2>1. CASE WaitReap(p)
    BY <2>1 DEF WaitReap, TypeOK, KernelType
  <2>2. CASE ~WaitReap(p)
    BY <2>2 DEF WaitStopped, TypeOK, KernelType
  <2> QED
    BY <2>1, <2>2
<1>6. s \in Outcomes \cup {"stop"} /\ seen' \in [Pids -> MarkType]
  BY <1>2, <1>3, MarkedTyped DEF TypeOK
<1>7. report' \in ReportType /\ report'.status = report.status /\ report'.done = report.done
  BY <1>1 DEF TypeOK, ReportType
<1>8. AfterWait \in {"restore", "report"} /\ (AfterWait = "restore" => Tty)
      /\ (Tty => AfterWait = "restore")
  BY DEF AfterWait
<1>9. TypeOK'
  BY <1>1, <1>3, <1>4, <1>6, <1>7, <1>8 DEF TypeOK
<1>10. Room'
  BY <1>1, <1>8 DEF Room, Waiting, Launched
<1>11. Owner'
  BY <1>1, <1>8 DEF Owner, TerminalOwner
<1>12. Kept'
  <2>1. report.status = "ok" /\ ~report.done
    BY <1>1 DEF Kept
  <2>2. ASSUME NEW q \in Pids, q # p
        PROVE  proc'[q] = proc[q] /\ seen'[q] = seen[q]
    BY <2>2, <1>3, <1>4, <1>6, MarkedTyped
  <2>3. seen'[p].status \in {seen[p].status, s}
    BY <1>3, <1>6, MarkedTyped
  <2>4. /\ seen[p].status \in {"ok", "stop"}
        /\ seen[p].status = "stop" \/ proc[p].st = "stopped" => Tty
        /\ p <= born
    BY <1>1 DEF Kept, TypeOK, Pids
  <2>5. /\ p > born => proc'[p].st = "none"
        /\ proc'[p].st = "stopped" => Tty
        /\ seen'[p].status = "stop" => Tty
        /\ seen'[p].status \notin {"ok", "stop"} =>
             proc'[p].st = "gone" /\ proc'[p].stat = seen'[p].status
    <3>1. CASE WaitReap(p)
      BY <3>1, <1>2, <1>5, <2>3, <2>4 DEF Outcomes, TypeOK, Pids
    <3>2. CASE ~WaitReap(p)
      <4>1. proc[p].st = "stopped"
        BY <3>2 DEF WaitStopped
      <4> QED
        BY <3>2, <4>1, <1>5, <2>3, <2>4 DEF TypeOK, Pids
    <3> QED
      BY <3>1, <3>2
  <2> QED
    BY <1>1, <1>7, <2>1, <2>2, <2>5 DEF Kept
<1> QED
  BY <1>9, <1>10, <1>11, <1>12

LEMMA ReportInductive ==
  ASSUME Inductive, Report
  PROVE  Inductive'
<1> USE DEF Inductive
<1>1. Status \in Outcomes \cup {"stop"}
  BY JobPidsArePids DEF Status, TypeOK, MarkType, Outcomes
<1>2. last' \in LastType /\ report' \in ReportType
      /\ report'.status = Status /\ report'.done = TRUE
  BY <1>1 DEF Report, TypeOK, LastType, ReportType
<1>3. TypeOK'
  BY <1>2 DEF Report, TypeOK, kernelVars
<1>4. Room' /\ Owner'
  BY DEF Report, Room, Owner, TerminalOwner, Waiting, kernelVars
<1>5. Kept'
  <2>1. job.pids # <<>> /\ Launched
    BY DEF Report, Room, Waiting
  <2>2. report'.status = Status' /\ job'.pids # <<>> /\ Launched'
    BY <1>2, <2>1 DEF Report, Status, LastPid, Launched
  <2> QED
    BY <1>2, <2>2 DEF Report, Kept, kernelVars
<1> QED
  BY <1>3, <1>4, <1>5

(* Every step of a child: it moves its own entry only, and an entry that   *)
(* is gone, or was never used, never moves.                                *)
LEMMA ChildEffect ==
  ASSUME Inductive, NEW p \in Pids,
         \/ ChildSetUp(p) \/ ChildClearError(p) \/ ChildStart(p) \/ ChildFails(p)
         \/ ChildRunsCmd(p) \/ ChildExits(p) \/ ChildInterrupted(p)
         \/ ChildStops(p) \/ ChildContinues(p)
  PROVE  /\ UNCHANGED shellVars
         /\ shm' \in BOOLEAN
         /\ proc' \in [Pids -> KernelType]
         /\ \A q \in Pids \ {p} : proc'[q] = proc[q]
         /\ proc[p].st \notin {"none", "gone"}
         /\ proc'[p].st = "stopped" => Tty
<1> USE DEF Inductive
<1>1. TypeOK /\ "fail" \in Outcomes /\ "ok" \in Outcomes /\ "int" \in Outcomes
  BY DEF Outcomes
<1>2. CASE ChildSetUp(p)
  <2>1. (IF Tty THEN Joined(p) ELSE proc[p].pg) \in 0..MaxPids
    BY <1>1, JoinedTyped DEF TypeOK, KernelType
  <2> DEFINE r == [proc[p] EXCEPT !.pg = IF Tty THEN Joined(p) ELSE proc[p].pg,
                      !.st = IF proc[p].kind = "sub" THEN "running" ELSE "setup"]
  <2>2. r \in KernelType /\ r.st \in {"running", "setup"}
    BY <2>1 DEF TypeOK, KernelType
  <2>3. proc' = [proc EXCEPT ![p] = r]
    BY <1>2 DEF ChildSetUp
  <2>0. UNCHANGED <<shellVars, shm>> /\ proc[p].st = "forked"
    BY <1>2 DEF ChildSetUp
  <2> HIDE DEF r
  <2>4. proc' \in [Pids -> KernelType] /\ (\A q \in Pids \ {p} : proc'[q] = proc[q])
        /\ proc'[p] = r
    BY <2>2, <2>3 DEF TypeOK
  <2> QED
    BY <2>0, <2>2, <2>4 DEF TypeOK
<1>3. CASE ChildClearError(p)
  BY ZenonT(30), <1>3 DEF ChildClearError, TypeOK, KernelType
<1>4. CASE ChildStart(p)
  BY ZenonT(30), <1>4 DEF ChildStart, TypeOK, KernelType
<1>5. CASE ChildFails(p)
  <2>1. Ended(p, "fail") \in [Pids -> KernelType]
    BY <1>1, EndedTyped
  <2>2. [Ended(p, "fail") EXCEPT ![p].wrote = "error"] \in [Pids -> KernelType]
    BY <2>1 DEF KernelType
  <2>3. \A q \in Pids : q # p => Ended(p, "fail")[q] = proc[q]
    BY <1>1, EndedTyped
  <2>4. [Ended(p, "fail") EXCEPT ![p].wrote = "error"][p].st \in {"gone", "zombie"}
    BY <1>1, <2>1, EndedTyped DEF KernelType
  <2> HIDE DEF Ended
  <2>5. /\ proc' = [Ended(p, "fail") EXCEPT ![p].wrote = "error"]
        /\ UNCHANGED shellVars /\ shm' = TRUE /\ proc[p].st \in {"cleared", "running"}
    BY <1>5 DEF ChildFails
  <2> QED
    BY <2>1, <2>2, <2>3, <2>4, <2>5
<1>6. CASE ChildRunsCmd(p)
  <2> DEFINE w == IF shm' THEN "error" ELSE "clear"
  <2>1. /\ proc' = [proc EXCEPT ![p].wrote = w]
        /\ UNCHANGED shellVars /\ shm' \in BOOLEAN /\ proc[p].st = "running"
    BY <1>6 DEF ChildRunsCmd
  <2>2. w \in {"clear", "error"}
    OBVIOUS
  <2> HIDE DEF w
  <2>3. proc' \in [Pids -> KernelType] /\ (\A q \in Pids \ {p} : proc'[q] = proc[q])
        /\ proc'[p].st = "running"
    BY ZenonT(30), <2>1, <2>2 DEF TypeOK, KernelType
  <2> QED
    BY <2>1, <2>3
<1>7. CASE ChildExits(p)
  <2>1. PICK s \in Outcomes : proc' = Ended(p, s)
    BY <1>1, <1>7 DEF ChildExits
  <2> QED
    BY <1>1, <1>7, <2>1, EndedTyped DEF ChildExits, TypeOK
<1>8. CASE ChildInterrupted(p)
  BY <1>1, <1>8, EndedTyped DEF ChildInterrupted, TypeOK
<1>9. CASE ChildStops(p)
  BY ZenonT(30), <1>9 DEF ChildStops, TypeOK, KernelType
<1>10. CASE ChildContinues(p)
  BY ZenonT(30), <1>10 DEF ChildContinues, TypeOK, KernelType
<1> QED
  BY <1>2, <1>3, <1>4, <1>5, <1>6, <1>7, <1>8, <1>9, <1>10

LEMMA ChildInductive ==
  ASSUME Inductive, NEW p \in Pids,
         /\ UNCHANGED shellVars
         /\ shm' \in BOOLEAN
         /\ proc' \in [Pids -> KernelType]
         /\ \A q \in Pids \ {p} : proc'[q] = proc[q]
         /\ proc[p].st \notin {"none", "gone"}
         /\ proc'[p].st = "stopped" => Tty
  PROVE  Inductive'
<1> USE DEF Inductive, shellVars
<1>1. TypeOK'
  BY DEF TypeOK
<1>2. Room' /\ Owner'
  BY DEF Room, Owner, TerminalOwner, Waiting, Launched
<1>3. Kept'
  <2>1. seen[p].status \in {"ok", "stop"} /\ ~(p > born)
    BY DEF Kept
  <2>2. ASSUME NEW q \in Pids
        PROVE  /\ q > born => proc'[q].st = "none"
               /\ proc'[q].st = "stopped" => Tty
               /\ seen[q].status = "stop" => Tty
               /\ seen[q].status \notin {"ok", "stop"} =>
                    proc'[q].st = "gone" /\ proc'[q].stat = seen[q].status
    BY <2>1 DEF Kept
  <2> QED
    BY <2>2 DEF Kept, Status, LastPid, Launched
<1> QED
  BY <1>1, <1>2, <1>3

LEMMA InductiveStep ==
  ASSUME Inductive, [Next]_vars
  PROVE  Inductive'
<1>1. ASSUME NEW shape \in Shapes, NEW form \in Forms,
             Launch(shape, form) \/ LaunchInternalCmd(shape, form)
      PROVE  Inductive'
  BY <1>1, LaunchInductive, InternalInductive
<1>2. CASE ForkAndOr
  BY <1>2, AndOrInductive
<1>3. CASE ForkFails
  BY <1>3, ForkFailsInductive
<1>4. CASE ShellStep
  BY <1>4, ForkInductive, SetpgidInductive, QuietShellInductive, WaitInductive,
     ReportInductive DEF ShellStep
<1>5. ASSUME NEW p \in Pids,
             \/ ChildStep(p) \/ ChildFails(p) \/ ChildRunsCmd(p)
             \/ ChildInterrupted(p) \/ ChildStops(p) \/ ChildContinues(p)
      PROVE  Inductive'
  <2>1. \/ ChildSetUp(p) \/ ChildClearError(p) \/ ChildStart(p) \/ ChildFails(p)
        \/ ChildRunsCmd(p) \/ ChildExits(p) \/ ChildInterrupted(p)
        \/ ChildStops(p) \/ ChildContinues(p)
    BY <1>5 DEF ChildStep
  <2> QED
    BY <2>1, ChildEffect, ChildInductive
<1>6. CASE UNCHANGED vars
  BY <1>6 DEF vars, Inductive, TypeOK, Room, Owner, TerminalOwner, Kept, Status,
     LastPid, Launched, Waiting
<1> QED
  BY <1>1, <1>2, <1>3, <1>4, <1>5, <1>6 DEF Next, Rest

-----------------------------------------------------------------------------
(* The theorems.                                                           *)

\* The inductive invariant holds of every behaviour: after any sequence of
\* launches, waits, signals and steps of the children, in any order.
THEOREM Invariance == Spec => []Inductive
<1>1. Inductive /\ [Next]_vars => Inductive'
  BY InductiveStep
<1> QED
  BY InitInductive, <1>1, PTL DEF Spec

\* Every variable keeps its type, and a Job never outgrows its pipeline.
THEOREM TypeCorrect == Spec => []TypeOK
  BY Invariance, PTL DEF Inductive

\* The terminal belongs to the shell unless it waits for the foreground job it
\* gave it to, however the children end, stop or lose their group.
THEOREM TerminalIsReturned == Spec => []TerminalOwner
<1>1. Inductive => TerminalOwner
  BY DEF Inductive, Owner
<1> QED
  BY <1>1, Invariance, PTL

\* A failure that LaunchJob reports is how the last process of that pipeline
\* really ended, whatever other children were reaped and whatever was lost.
THEOREM ReportsAreSound == Spec => []ReportSound
<1>1. Inductive => ReportSound
  <2> SUFFICES ASSUME Inductive PROVE ReportSound
    OBVIOUS
  <2>1. CASE report.status = "ok"
    BY <2>1 DEF ReportSound
  <2>2. CASE report.status # "ok"
    <3>1. job.pids # <<>> /\ Launched /\ report.status = seen[LastPid].status
      BY <2>2 DEF Inductive, Kept, Status
    <3>2. LastPid \in Pids
      BY <3>1, JobPidsArePids DEF Inductive
    <3> QED
      BY <2>2, <3>1, <3>2 DEF ReportSound, Inductive, Kept
  <2> QED
    BY <2>1, <2>2
<1> QED
  BY <1>1, Invariance, PTL

-----------------------------------------------------------------------------
(* A script has no terminal, is not the prompt and here runs no a && b &.  *)

Invariants == Inductive /\ ScriptInductive

(* Where a script's shell never is, and what its children never do.        *)
LEMMA ScriptPlaces ==
  ASSUME Script, Inductive
  PROVE  /\ pc \in {"idle", "fork", "sigdfl", "wait", "report", "exited", "killed"}
         /\ AfterWait = "report"
         /\ \A p \in Pids : proc[p].st # "stopped" /\ seen[p].status # "stop"
  BY DEF Script, Inductive, TypeOK, Owner, AfterWait, Kept

(* A sequence of n numbers that rises by one up to b takes the n values    *)
(* below b.                                                                *)
LEMMA RisingRange ==
  ASSUME NEW b \in Nat, NEW n \in Nat, NEW f,
         \A i \in 1..n : f[i] = b - n + i
  PROVE  {f[i] : i \in 1..n} = (b - n + 1)..b
<1>1. ASSUME NEW i \in 1..n PROVE f[i] \in (b - n + 1)..b
  BY <1>1
<1>2. ASSUME NEW x \in (b - n + 1)..b PROVE \E i \in 1..n : x = f[i]
  <2>1. x - (b - n) \in 1..n /\ b - n + (x - (b - n)) = x
    BY <1>2
  <2>2. f[x - (b - n)] = x
    BY <2>1
  <2> QED
    BY <2>1, <2>2
<1> QED
  BY <1>1, <1>2

(* The processes of the job are the last ones that were forked.            *)
LEMMA JobPidsAreLast ==
  ASSUME TypeOK, OwnProcesses
  PROVE  /\ JobPids = (born - Len(job.pids) + 1)..born
         /\ Len(job.pids) \in Nat /\ born \in Nat
         /\ job.pids # <<>> => LastPid = born /\ LastPid \in Pids /\ LastPid \in JobPids
<1> DEFINE n == Len(job.pids)
           f == job.pids
<1>1. f \in Seq(Pids) /\ n \in Nat /\ born \in Nat /\ DOMAIN f = 1..n
  BY MaxPidsAssumption DEF TypeOK, JobType
<1>2. \A i \in 1..n : f[i] = born - n + i
  BY <1>1 DEF OwnProcesses
<1>3. JobPids = {f[i] : i \in 1..n}
  BY <1>1 DEF JobPids
<1>4. f # <<>> => n \in 1..n
  BY <1>1
<1>5. LastPid = f[n]
  BY DEF LastPid
<1> HIDE DEF f, n
<1>6. JobPids = (born - n + 1)..born
  BY <1>1, <1>2, <1>3, RisingRange
<1>7. f # <<>> => LastPid = born
  BY <1>1, <1>2, <1>4, <1>5
<1> QED
  BY <1>1, <1>6, <1>7, JobPidsArePids DEF f, n

-----------------------------------------------------------------------------
(* Each step of a script keeps ScriptInductive.                            *)

LEMMA InitScript == Script /\ Init => ScriptInductive
<1> SUFFICES ASSUME Script, Init PROVE ScriptInductive
  OBVIOUS
<1>1. /\ job.pids = <<>> /\ Len(job.pids) = 0 /\ DOMAIN job.pids = {} /\ born = 0
      /\ pc = "idle" /\ ~report.done /\ JobPids = {}
      /\ \A p \in Pids : proc[p].st = "none" /\ seen[p] = Unmarked
      /\ sigchld = "DFL" \/ Tty
  BY DEF Init, NewJob, Unborn, NoReport, JobPids
<1>2. OwnProcesses
  BY <1>1 DEF OwnProcesses, Pids
<1>3. Reaped /\ Segment
  BY <1>1 DEF Reaped, Quiet, Segment, Unmarked
<1>4. FirstJob
  BY <1>1 DEF FirstJob, Script
<1> QED
  BY <1>2, <1>3, <1>4 DEF ScriptInductive

LEMMA LaunchScript ==
  ASSUME Script, Invariants, NEW shape \in Shapes, NEW form \in Forms,
         Launch(shape, form) \/ LaunchInternalCmd(shape, form)
  PROVE  ScriptInductive'
<1> USE DEF Invariants, ScriptInductive, kernelVars
<1>1. /\ job' = NewJob(shape, form) /\ seen' = [p \in Pids |-> Unmarked]
      /\ UNCHANGED <<kernelVars, shm>> /\ pc = "idle"
      /\ pc' \in {"fork", "idle", "exited"}
      /\ pc' = "idle" \/ ~report'.done
  <2>1. CASE Launch(shape, form)
    BY <2>1 DEF Launch, NoReport
  <2>2. CASE LaunchInternalCmd(shape, form)
    BY <2>2 DEF LaunchInternalCmd, NoReport
  <2> QED
    BY <2>1, <2>2
<1>2. job'.pids = <<>> /\ Len(job'.pids) = 0 /\ DOMAIN job'.pids = {} /\ JobPids' = {}
  BY <1>1 DEF NewJob, JobPids
<1>3. Quiet /\ Quiet' /\ born \in Nat
  BY <1>1, MaxPidsAssumption DEF Reaped, Quiet, Inductive, TypeOK
<1>4. OwnProcesses'
  BY <1>1, <1>2, <1>3 DEF OwnProcesses, Quiet
<1>5. Reaped'
  BY <1>1, <1>3 DEF Reaped, Unmarked
<1>6. Segment'
  BY <1>1, <1>2 DEF Segment
<1>7. FirstJob'
  BY <1>1, <1>2, <1>3 DEF FirstJob, freshMap, OwnProcesses, Halted
<1> QED
  BY <1>4, <1>5, <1>6, <1>7

LEMMA ForkScript ==
  ASSUME Script, Invariants, Fork
  PROVE  ScriptInductive'
<1> USE DEF Invariants, ScriptInductive
<1> DEFINE p == born + 1
           child == [Unborn EXCEPT !.kind = job.shape[Len(Append(job.pids, p))],
                                   !.grp = IF job.pgid = 0 THEN p ELSE job.pgid,
                                   !.st = "forked"]
<1>1. /\ pc = "fork" /\ born' = p
      /\ job'.pids = Append(job.pids, p) /\ job'.shape = job.shape
      /\ proc' = [proc EXCEPT ![p] = child]
      /\ UNCHANGED <<seen, sigchld, shm, report>>
      /\ pc' \in {"fork", "sigdfl"}
  BY DEF Fork, AfterFork, Script, Inductive, TypeOK, JobType
<1>2. child.st = "forked" /\ child.wrote = "none"
  BY DEF Unborn
<1> HIDE DEF child
<1>3. p \in Pids /\ born \in Nat /\ Len(job.pids) \in Nat /\ job.pids \in Seq(Pids)
      /\ proc \in [Pids -> KernelType]
  BY <1>1, MaxPidsAssumption DEF Inductive, Room, TypeOK, JobType, Pids
<1>4. proc'[p] = child /\ \A q \in Pids : q # p => proc'[q] = proc[q]
  BY <1>1, <1>3
<1>5. Len(job'.pids) = Len(job.pids) + 1 /\ DOMAIN job'.pids = 1..(Len(job.pids) + 1)
  BY <1>1, <1>3
<1>6. /\ \A i \in 1..Len(job.pids) : job'.pids[i] = job.pids[i]
      /\ job'.pids[Len(job.pids) + 1] = p
      /\ LastPid' = p
  BY <1>1, <1>3, <1>5 DEF LastPid
<1>7. JobPids' = JobPids \cup {p}
  <2>1. JobPids' = {job'.pids[i] : i \in 1..(Len(job.pids) + 1)}
    BY <1>5 DEF JobPids
  <2>2. JobPids = {job.pids[i] : i \in 1..Len(job.pids)}
    BY <1>3 DEF JobPids
  <2>3. 1..(Len(job.pids) + 1) = 1..Len(job.pids) \cup {Len(job.pids) + 1}
    BY <1>3
  <2> QED
    BY <1>6, <2>1, <2>2, <2>3
<1>8. OwnProcesses'
  <2>1. Len(job'.pids) <= born'
    BY <1>1, <1>3, <1>5 DEF OwnProcesses
  <2>2. ASSUME NEW i \in DOMAIN job'.pids
        PROVE  job'.pids[i] = born' - Len(job'.pids) + i
    <3> DEFINE n == Len(job.pids)
    <3>1. n \in Nat /\ Len(job'.pids) = n + 1 /\ i \in 1..(n + 1) /\ DOMAIN job.pids = 1..n
          /\ born \in Nat /\ born' = born + 1
      BY <1>1, <1>3, <1>5
    <3>2. CASE i = n + 1
      <4>1. job'.pids[i] = born + 1
        BY <1>6, <3>2
      <4> HIDE DEF n
      <4> QED
        BY <3>1, <3>2, <4>1
    <3>3. CASE i \in 1..n
      <4>1. job'.pids[i] = born - n + i
        BY <1>6, <3>1, <3>3 DEF OwnProcesses
      <4> HIDE DEF n
      <4> QED
        BY <3>1, <3>3, <4>1
    <3> HIDE DEF n
    <3> QED
      BY <3>1, <3>2, <3>3
  <2>3. \A q \in Pids : q <= born' => proc'[q].st # "none"
    BY <1>1, <1>2, <1>3, <1>4 DEF OwnProcesses, Pids
  <2>4. \A q \in Pids : proc'[q].st \notin {"none", "gone"} => q \in JobPids'
    BY <1>4, <1>7 DEF OwnProcesses
  <2> QED
    BY <2>1, <2>2, <2>3, <2>4 DEF OwnProcesses
<1>9. Reaped'
  <2>1. proc[p].st = "none"
    BY <1>3 DEF Inductive, Kept
  <2> QED
    BY <1>1, <1>4, <2>1 DEF Reaped
<1>10. Segment'
  BY <1>1, <1>2, <1>4, <1>6 DEF Segment, Inductive, Kept
<1>11. FirstJob'
  <2>1. freshMap' => freshMap
    BY <1>1, <1>3, <1>5 DEF freshMap
  <2> QED
    BY <1>1, <1>2, <1>4, <1>7, <2>1 DEF FirstJob, Halted, OwnProcesses
<1> QED
  BY <1>8, <1>9, <1>10, <1>11

(* The steps that move no process.                                         *)
LEMMA QuietShellScript ==
  ASSUME Script, Invariants, ForkFails \/ StartWait \/ WaitNoChild \/ UNCHANGED vars
  PROVE  ScriptInductive'
<1> USE DEF Invariants, ScriptInductive, kernelVars
<1>1. /\ UNCHANGED <<job, born, proc, seen, shm, report>>
      /\ \/ pc' = "exited"
         \/ pc = "sigdfl" /\ pc' = "wait" /\ sigchld' = "DFL"
         \/ pc = "wait" /\ pc' = "report" /\ Quiet
         \/ UNCHANGED <<pc, sigchld>>
      /\ pc' = pc \/ pc # "idle"
  BY ScriptPlaces DEF ForkFails, StartWait, WaitNoChild, Quiet, vars
<1>2. OwnProcesses'
  BY <1>1 DEF OwnProcesses, JobPids
<1>3. Reaped'
  BY <1>1 DEF Reaped, Quiet
<1>4. Segment'
  BY <1>1 DEF Segment, Launched, LastPid
<1>5. FirstJob'
  BY <1>1 DEF FirstJob, freshMap, Halted, JobPids
<1> QED
  BY <1>2, <1>3, <1>4, <1>5

LEMMA WaitScript ==
  ASSUME Script, Invariants, NEW p \in Pids, WaitReap(p) \/ WaitStopped(p)
  PROVE  ScriptInductive'
<1> USE DEF Invariants, ScriptInductive
<1>1. /\ WaitReap(p) /\ pc = "wait" /\ proc[p].st = "zombie"
      /\ UNCHANGED <<job, born, shm>>
      /\ proc' = [proc EXCEPT ![p].st = "gone"]
      /\ AfterWait = "report"
  BY ScriptPlaces DEF WaitReap, WaitStopped
<1>2. TypeOK /\ proc[p].stat \in Outcomes /\ proc \in [Pids -> KernelType]
  BY DEF Inductive, TypeOK, KernelType
<1>3. /\ proc'[p] = [proc[p] EXCEPT !.st = "gone"]
      /\ \A q \in Pids : q # p => proc'[q] = proc[q]
  BY <1>1, <1>2
<1>4. /\ proc'[p].st = "gone" /\ proc'[p].stat = proc[p].stat
      /\ proc'[p].wrote = proc[p].wrote
  BY <1>2, <1>3 DEF KernelType
<1>5. p \in JobPids /\ JobPids \subseteq Pids
  BY <1>1, <1>2, JobPidsArePids DEF OwnProcesses
<1>6. \/ pc' = "killed" /\ UNCHANGED <<seen, sigchld, report>>
      \/ /\ seen' = Marked(p, proc[p].stat) /\ UNCHANGED report
         /\ \/ UNCHANGED <<pc, sigchld>>
            \/ pc' = "report" /\ \A q \in JobPids : seen'[q].completed \/ seen'[q].stopped
  BY <1>1, <1>5 DEF WaitReap, MarkAndLoop, Script
<1>7. /\ \A q \in Pids : q # p => seen'[q] = seen[q]
      /\ \/ seen' = seen
         \/ seen'[p] = [completed |-> TRUE, stopped |-> FALSE, status |-> proc[p].stat]
  <2>1. CASE seen' = seen
    BY <2>1
  <2>2. CASE seen' = Marked(p, proc[p].stat)
    <3>1. proc[p].stat # "stop" /\ seen[p] \in MarkType
      BY <1>2 DEF TypeOK, Outcomes
    <3>2. ~seen[p].stopped
      BY DEF Reaped
    <3>3. Marked(p, proc[p].stat)[p] = [completed |-> seen[p].completed \/ proc[p].stat # "stop",
                       stopped |-> seen[p].stopped \/ proc[p].stat = "stop",
                       status |-> proc[p].stat]
      BY <1>2 DEF Marked, TypeOK
    <3>4. seen[p].completed \in BOOLEAN
      BY <3>1 DEF MarkType
    <3>5. seen'[p] = [completed |-> TRUE, stopped |-> FALSE, status |-> proc[p].stat]
      BY <2>2, <3>1, <3>2, <3>3, <3>4
    <3>6. \A q \in Pids : q # p => seen'[q] = seen[q]
      BY <1>2, <2>2, MarkedTyped
    <3> QED
      BY <3>5, <3>6
  <2> QED
    BY <1>6, <2>1, <2>2
<1>8. OwnProcesses'
  <2>1. JobPids' = JobPids
    BY <1>1 DEF JobPids
  <2> QED
    BY <1>1, <1>3, <1>4, <2>1 DEF OwnProcesses
<1>9. ASSUME NEW q \in Pids
      PROVE  ~seen'[q].stopped /\ (seen'[q].completed => proc'[q].st = "gone")
  <2>1. CASE q = p
    BY <1>4, <1>7, <2>1 DEF Reaped
  <2>2. CASE q # p
    BY <1>3, <1>7, <2>2 DEF Reaped
  <2> QED
    BY <2>1, <2>2
<1>10. Reaped'
  <2>1. ASSUME pc' \in {"idle", "report"}, NEW q \in Pids
        PROVE  proc'[q].st \in {"none", "gone"}
    <3>1. \A r \in JobPids : seen'[r].completed
      BY <1>1, <1>5, <1>6, <1>9, <2>1
    <3>2. CASE q \in JobPids
      BY <1>9, <3>1, <3>2
    <3>3. CASE q \notin JobPids
      BY <1>3, <1>5, <3>3 DEF OwnProcesses
    <3> QED
      BY <3>2, <3>3
  <2> QED
    BY <1>9, <2>1 DEF Reaped, Quiet
<1>11. Segment'
  <2>1. Launched' = Launched /\ LastPid' = LastPid
    BY <1>1 DEF Launched, LastPid
  <2>2. job.pids # <<>> => LastPid \in Pids
    BY <1>2, JobPidsArePids
  <2>3. Len(job.pids) = 1 => job.pids # <<>>
    <3>1. Len(<<>>) = 0
      OBVIOUS
    <3> QED
      BY <3>1
  <2>4. ~report'.done
    BY <1>1 DEF Inductive, Kept, WaitReap, TypeOK, ReportType
  <2>5. LastPid \in Pids => proc'[LastPid].wrote = proc[LastPid].wrote
    BY <1>3, <1>4
  <2> QED
    BY <1>1, <2>1, <2>2, <2>3, <2>4, <2>5 DEF Segment
<1>12. FirstJob'
  <2>1. ASSUME freshMap', ~Halted'
        PROVE  /\ pc' # "report" => sigchld' = "DFL"
               /\ \A q \in JobPids' : proc'[q].st = "gone" => seen'[q].status = proc'[q].stat
    <3>1. freshMap /\ ~Halted /\ JobPids' = JobPids /\ pc' # "killed"
      BY <1>1, <1>6, <2>1 DEF freshMap, Halted, JobPids
    <3>2. seen'[p].status = proc[p].stat
      BY <1>2, <1>6, <3>1, MarkedTyped
    <3> QED
      BY <1>1, <1>3, <1>4, <1>5, <1>6, <1>7, <3>1, <3>2 DEF FirstJob
  <2> QED
    BY <2>1 DEF FirstJob
<1> QED
  BY <1>8, <1>10, <1>11, <1>12

LEMMA ReportScript ==
  ASSUME Script, Invariants, Report
  PROVE  ScriptInductive'
<1> USE DEF Invariants, ScriptInductive, kernelVars
<1>1. /\ pc = "report" /\ pc' = "idle" /\ UNCHANGED <<job, born, proc, seen, sigchld, shm>>
      /\ job.pids # <<>> /\ report'.threw = shm'
  BY DEF Report, Inductive, Room, Waiting, TypeOK, ReportType
<1>2. OwnProcesses' /\ Reaped'
  BY <1>1 DEF OwnProcesses, JobPids, Reaped, Quiet
<1>3. Segment'
  BY <1>1 DEF Segment, Launched, LastPid
<1>4. ~freshMap'
  BY <1>1, JobPidsAreLast, MaxPidsAssumption DEF freshMap, Inductive, Pids
<1> QED
  BY <1>2, <1>3, <1>4 DEF FirstJob

(* What a step of a child does to its own entry: it never brings one back  *)
(* to what it was before the fork, is reaped only while SIGCHLD is ignored *)
(* or the shell is gone, and writes the segment and its entry alike.       *)
LEMMA ChildWrites ==
  ASSUME Inductive, NEW p \in Pids,
         \/ ChildSetUp(p) \/ ChildClearError(p) \/ ChildStart(p) \/ ChildFails(p)
         \/ ChildRunsCmd(p) \/ ChildExits(p) \/ ChildInterrupted(p)
         \/ ChildStops(p) \/ ChildContinues(p)
  PROVE  /\ proc'[p].st # "none"
         /\ ~Over(p)
         /\ proc'[p].st = "gone" => sigchld = "IGN" \/ Halted
         /\ \/ shm' = shm /\ proc'[p].wrote = proc[p].wrote
            \/ shm' = TRUE /\ proc'[p].wrote = "error"
            \/ shm' = FALSE /\ proc'[p].wrote = "clear"
<1>1. TypeOK /\ "fail" \in Outcomes /\ "ok" \in Outcomes /\ "int" \in Outcomes
      /\ proc \in [Pids -> KernelType] /\ proc[p] \in KernelType
  BY DEF Outcomes, Inductive, TypeOK
<1>2. ASSUME NEW s \in Outcomes
      PROVE  /\ Ended(p, s)[p].st = IF sigchld = "IGN" \/ Halted THEN "gone" ELSE "zombie"
             /\ Ended(p, s)[p].wrote = proc[p].wrote
             /\ [Ended(p, s) EXCEPT ![p].wrote = "error"][p].wrote = "error"
             /\ [Ended(p, s) EXCEPT ![p].wrote = "error"][p].st = Ended(p, s)[p].st
  <2> DEFINE e == IF sigchld = "IGN" \/ Halted THEN "gone" ELSE "zombie"
             r == [proc[p] EXCEPT !.st = e, !.stat = s]
  <2>1. r.st = e /\ r.wrote = proc[p].wrote /\ r \in KernelType
    BY <1>1 DEF KernelType
  <2>2. Ended(p, s) = [proc EXCEPT ![p] = r]
    BY DEF Ended
  <2> HIDE DEF r
  <2>3. Ended(p, s)[p] = r /\ Ended(p, s) \in [Pids -> KernelType]
    BY <1>1, <2>1, <2>2
  <2>4. [Ended(p, s) EXCEPT ![p].wrote = "error"][p] = [r EXCEPT !.wrote = "error"]
    BY <2>3
  <2>5. [r EXCEPT !.wrote = "error"].wrote = "error" /\ [r EXCEPT !.wrote = "error"].st = r.st
    BY <2>1 DEF KernelType
  <2> HIDE DEF Ended, e
  <2>6. Ended(p, s)[p].st = e /\ Ended(p, s)[p].wrote = proc[p].wrote
    BY <2>1, <2>3
  <2>7. /\ [Ended(p, s) EXCEPT ![p].wrote = "error"][p].wrote = "error"
        /\ [Ended(p, s) EXCEPT ![p].wrote = "error"][p].st = e
    BY <2>1, <2>4, <2>5
  <2> QED
    BY <2>6, <2>7 DEF e
<1>3. CASE ChildSetUp(p)
  <2> DEFINE r == [proc[p] EXCEPT !.pg = IF Tty THEN Joined(p) ELSE proc[p].pg,
                      !.st = IF proc[p].kind = "sub" THEN "running" ELSE "setup"]
  <2>1. r.st \in {"running", "setup"} /\ r.wrote = proc[p].wrote
    BY <1>1 DEF KernelType
  <2>2. proc' = [proc EXCEPT ![p] = r] /\ shm' = shm /\ proc[p].st = "forked"
    BY <1>3 DEF ChildSetUp
  <2> HIDE DEF r
  <2> QED
    BY <1>1, <2>1, <2>2 DEF Over
<1>4. CASE ChildClearError(p)
  BY <1>1, <1>4 DEF ChildClearError, KernelType, Over
<1>5. CASE ChildStart(p) \/ ChildContinues(p)
  BY <1>1, <1>5 DEF ChildStart, ChildContinues, KernelType, Over
<1>6. CASE ChildFails(p)
  <2>1. /\ shm' = TRUE /\ proc' = [Ended(p, "fail") EXCEPT ![p].wrote = "error"]
        /\ proc[p].st \in {"cleared", "running"}
    BY <1>6 DEF ChildFails
  <2> QED
    BY <1>1, <1>2, <2>1 DEF Over
<1>7. CASE ChildRunsCmd(p)
  <2> DEFINE w == IF shm' THEN "error" ELSE "clear"
  <2>1. proc' = [proc EXCEPT ![p].wrote = w] /\ shm' \in BOOLEAN /\ proc[p].st = "running"
    BY <1>7 DEF ChildRunsCmd
  <2>2. \/ w = "error" /\ shm' = TRUE
        \/ w = "clear" /\ shm' = FALSE
    BY <2>1
  <2> HIDE DEF w
  <2>3. proc'[p].wrote = w /\ proc'[p].st = "running"
    BY <1>1, <2>1 DEF KernelType
  <2> QED
    BY <2>1, <2>2, <2>3 DEF Over
<1>8. CASE ChildExits(p) \/ ChildInterrupted(p)
  <2>1. PICK s \in Outcomes : proc' = Ended(p, s)
    BY <1>1, <1>8 DEF ChildExits, ChildInterrupted
  <2>2. shm' = shm /\ proc[p].st \in {"setup", "cleared", "running"}
    BY <1>8 DEF ChildExits, ChildInterrupted
  <2> QED
    BY <1>2, <2>1, <2>2 DEF Over
<1>9. CASE ChildStops(p)
  BY <1>1, <1>9 DEF ChildStops, KernelType, Over
<1> QED
  BY <1>3, <1>4, <1>5, <1>6, <1>7, <1>8, <1>9

LEMMA ChildScript ==
  ASSUME Script, Invariants, NEW p \in Pids,
         \/ ChildSetUp(p) \/ ChildClearError(p) \/ ChildStart(p) \/ ChildFails(p)
         \/ ChildRunsCmd(p) \/ ChildExits(p) \/ ChildInterrupted(p)
         \/ ChildStops(p) \/ ChildContinues(p)
  PROVE  ScriptInductive'
<1> USE DEF Invariants, ScriptInductive
<1>1. /\ UNCHANGED shellVars
      /\ \A q \in Pids \ {p} : proc'[q] = proc[q]
      /\ proc[p].st \notin {"none", "gone"}
  BY ChildEffect
<1>2. /\ p \in JobPids /\ ~Quiet /\ pc \notin {"idle", "report"} /\ JobPids' = JobPids
      /\ p <= born
  BY <1>1, JobPidsAreLast DEF OwnProcesses, Quiet, Reaped, shellVars, JobPids, Inductive
<1>3. OwnProcesses'
  BY <1>1, <1>2, ChildWrites DEF OwnProcesses, shellVars
<1>4. Reaped'
  BY <1>1, <1>2 DEF Reaped, shellVars
<1>5. Segment'
  <2>1. Launched' = Launched /\ LastPid' = LastPid /\ job' = job
    BY <1>1 DEF Launched, LastPid, shellVars
  <2>2. Len(job.pids) = 1 => LastPid = p
    <3>1. Len(<<>>) = 0
      OBVIOUS
    <3>2. ASSUME Len(job.pids) = 1 PROVE born = p
      <4>1. JobPids = (born - 1 + 1)..born /\ born \in Nat
        BY <3>2, JobPidsAreLast DEF Inductive
      <4> QED
        BY <4>1, <1>2
    <3>3. job.pids # <<>> => LastPid = born
      BY JobPidsAreLast DEF Inductive
    <3> QED
      BY <3>1, <3>2, <3>3
  <2>3. report.done /\ job.pids # <<>> => pc = "idle"
    BY DEF Segment
  <2>4. report' = report
    BY <1>1 DEF shellVars
  <2>5. \/ shm' = shm /\ proc'[p].wrote = proc[p].wrote
        \/ shm' = TRUE /\ proc'[p].wrote = "error"
        \/ shm' = FALSE /\ proc'[p].wrote = "clear"
    BY ChildWrites
  <2> QED
    BY <1>2, <2>1, <2>2, <2>3, <2>4, <2>5 DEF Segment
<1>6. FirstJob'
  <2>1. ASSUME freshMap', ~Halted'
        PROVE  /\ pc' # "report" => sigchld' = "DFL"
               /\ \A q \in JobPids' : proc'[q].st = "gone" => seen'[q].status = proc'[q].stat
    <3>1. freshMap /\ ~Halted /\ sigchld = "DFL"
      BY <1>1, <1>2, <2>1 DEF freshMap, Halted, FirstJob, shellVars
    <3>2. proc'[p].st # "gone"
      BY <3>1, ChildWrites
    <3>3. JobPids \subseteq Pids
      BY JobPidsArePids DEF Inductive
    <3> QED
      BY <1>1, <1>2, <3>1, <3>2, <3>3 DEF FirstJob, shellVars
  <2> QED
    BY <2>1 DEF FirstJob
<1> QED
  BY <1>3, <1>4, <1>5, <1>6

-----------------------------------------------------------------------------
(* The theorems about the states of a script.                              *)

LEMMA ScriptStep ==
  ASSUME Script, Invariants, [Next]_vars
  PROVE  ScriptInductive'
<1>1. ASSUME NEW shape \in Shapes, NEW form \in Forms,
             Launch(shape, form) \/ LaunchInternalCmd(shape, form)
      PROVE  ScriptInductive'
  BY <1>1, LaunchScript
<1>2. CASE ForkAndOr
  BY <1>2 DEF ForkAndOr, Script
<1>3. CASE ForkFails \/ UNCHANGED vars
  BY <1>3, QuietShellScript
<1>4. CASE ShellStep
  <2>1. ~(ParentSetpgid \/ PutJobInForeground \/ Restore)
    BY ScriptPlaces DEF ParentSetpgid, PutJobInForeground, Restore, Invariants
  <2> QED
    BY <1>4, <2>1, ForkScript, QuietShellScript, WaitScript, ReportScript DEF ShellStep
<1>5. ASSUME NEW p \in Pids,
             \/ ChildStep(p) \/ ChildFails(p) \/ ChildRunsCmd(p)
             \/ ChildInterrupted(p) \/ ChildStops(p) \/ ChildContinues(p)
      PROVE  ScriptInductive'
  <2>1. \/ ChildSetUp(p) \/ ChildClearError(p) \/ ChildStart(p) \/ ChildFails(p)
        \/ ChildRunsCmd(p) \/ ChildExits(p) \/ ChildInterrupted(p)
        \/ ChildStops(p) \/ ChildContinues(p)
    BY <1>5 DEF ChildStep
  <2> QED
    BY <2>1, ChildScript
<1> QED
  BY <1>1, <1>2, <1>3, <1>4, <1>5 DEF Next, Rest

\* What a script adds to the inductive invariant holds of every behaviour.
THEOREM ScriptInvariance == ASSUME Script PROVE Spec => []Invariants
<1>1. Init => Invariants
  BY InitInductive, InitScript DEF Invariants
<1>2. Invariants /\ [Next]_vars => Invariants'
  BY ScriptStep, InductiveStep DEF Invariants
<1> QED
  BY <1>1, <1>2, PTL DEF Spec

\* When a script goes on after a command or a command run with &, every process
\* it ever forked is over and reaped, whatever the order in which they ended.
THEOREM NothingIsLeft == ASSUME Script PROVE Spec => []NothingOutlives
<1>1. Invariants => NothingOutlives
  BY DEF Invariants, ScriptInductive, Reaped, Quiet, NothingOutlives
<1> QED
  BY <1>1, ScriptInvariance, PTL

\* CheckCmdError throws after a job of one process exactly when that process
\* left an error in the segment, whatever earlier commands wrote there.
THEOREM ErrorsAreOwn == ASSUME Script PROVE Spec => []ErrorIsOwn
<1>1. Invariants => ErrorIsOwn
  <2> SUFFICES ASSUME Invariants, report.done, Len(job.pids) = 1, Launched,
                      proc[LastPid].wrote # "none"
               PROVE  report.threw <=> proc[LastPid].wrote = "error"
    BY DEF ErrorIsOwn
  <2>1. job.pids # <<>>
    <3>1. Len(<<>>) = 0
      OBVIOUS
    <3> QED
      BY <3>1
  <2> QED
    BY <2>1 DEF Invariants, ScriptInductive, Segment
<1> QED
  BY <1>1, ScriptInvariance, PTL
-----------------------------------------------------------------------------
(* The refinement: each step of a script is a step of JobPromise, or       *)
(* changes nothing JobPromise sees.                                        *)

OverPids == {p \in JobPids : Over(p)}

Stutters ==
  /\ phaseMap' = phaseMap /\ todoMap' = todoMap /\ truthMap' = truthMap
  /\ saidMap' = saidMap /\ freshMap' = freshMap

(* How many processes of the job are over: all of them when no other       *)
(* remains, else fewer.                                                    *)
LEMMA OverCount ==
  ASSUME TypeOK, OwnProcesses
  PROVE  /\ IsFiniteSet(OverPids) /\ Cardinality(OverPids) \in Nat
         /\ Cardinality(OverPids) <= Len(job.pids)
         /\ (\A p \in JobPids : Over(p)) => Cardinality(OverPids) = Len(job.pids)
         /\ (\E p \in JobPids : ~Over(p)) => Cardinality(OverPids) < Len(job.pids)
<1> DEFINE n == Len(job.pids)
<1>1. JobPids = (born - n + 1)..born /\ n \in Nat /\ born \in Nat /\ n <= born
  BY JobPidsAreLast DEF OwnProcesses
<1> HIDE DEF n
<1>2. IsFiniteSet(JobPids) /\ Cardinality(JobPids) = n
  <2>1. born - n + 1 \in Int /\ born \in Int
    BY <1>1
  <2>2. /\ IsFiniteSet((born - n + 1)..born)
        /\ Cardinality((born - n + 1)..born) =
             IF born - n + 1 > born THEN 0 ELSE born - (born - n + 1) + 1
    BY <2>1, FS_Interval
  <2>3. (IF born - n + 1 > born THEN 0 ELSE born - (born - n + 1) + 1) = n
    BY <1>1
  <2> QED
    BY <1>1, <2>2, <2>3
<1>3. OverPids \in SUBSET JobPids
  BY DEF OverPids
<1>4. /\ IsFiniteSet(OverPids) /\ Cardinality(OverPids) <= n
      /\ Cardinality(OverPids) = n => OverPids = JobPids
  BY <1>2, <1>3, FS_Subset
<1>5. Cardinality(OverPids) \in Nat
  BY <1>4, FS_CardinalityType
<1>6. (\A p \in JobPids : Over(p)) => OverPids = JobPids
  BY DEF OverPids
<1>7. (\E p \in JobPids : ~Over(p)) => OverPids # JobPids
  BY DEF OverPids
<1>8. (\E p \in JobPids : ~Over(p)) => Cardinality(OverPids) < n
  BY <1>1, <1>4, <1>5, <1>7
<1> QED
  BY <1>2, <1>4, <1>5, <1>6, <1>8 DEF n

LEMMA InitPromise == Init => Promise!Init
<1> SUFFICES ASSUME Init PROVE Promise!Init
  OBVIOUS
<1>1. pc = "idle" /\ job.pids = <<>> /\ born = 0 /\ report.status = "ok"
  BY DEF Init, NewJob, NoReport
<1> QED
  BY <1>1 DEF Promise!Init, phaseMap, todoMap, truthMap, saidMap, freshMap, Halted

LEMMA LaunchPromise ==
  ASSUME Script, Invariants, NEW shape \in Shapes, NEW form \in Forms,
         Launch(shape, form)
  PROVE  Promise!Start
<1> USE DEF Invariants, ScriptInductive, kernelVars
<1>1. /\ pc = "idle" /\ pc' = "fork" /\ born' = born
      /\ job'.pids = <<>> /\ job'.shape = shape /\ JobPids' = {}
      /\ report'.status = "ok"
  BY DEF Launch, NewJob, NoReport, JobPids
<1>2. Len(shape) \in 1..MaxLen
  BY ShapesAssumption, MaxLenAssumption
<1>3. todoMap' = Len(shape)
  <2>1. Cardinality({}) = 0
    BY FS_EmptySet
  <2>2. {p \in JobPids : Over(p)}' = {}
    BY <1>1
  <2>3. phaseMap' = "busy"
    BY <1>1 DEF phaseMap, Halted
  <2> QED
    BY <1>1, <1>2, <2>1, <2>2, <2>3 DEF todoMap
<1>4. freshMap' = freshMap
  <2>1. Len(<<>>) = 0
    OBVIOUS
  <2> QED
    BY <1>1, <2>1 DEF freshMap
<1>5. phaseMap = "idle" /\ phaseMap' = "busy" /\ truthMap' = "ok" /\ saidMap' = "ok"
  BY <1>1 DEF phaseMap, Halted, truthMap, saidMap
<1> QED
  BY <1>2, <1>3, <1>4, <1>5 DEF Promise!Start

LEMMA InternalPromise ==
  ASSUME Script, Invariants, NEW shape \in Shapes, NEW form \in Forms,
         LaunchInternalCmd(shape, form)
  PROVE  Promise!RunBuiltin \/ Promise!Quit
<1> USE DEF Invariants, ScriptInductive, kernelVars
<1>1. /\ pc = "idle" /\ pc' \in {"idle", "exited"} /\ born' = born
      /\ job'.pids = <<>> /\ report'.status = "ok"
  BY DEF LaunchInternalCmd, NewJob, NoReport
<1>2. freshMap' = freshMap
  <2>1. Len(<<>>) = 0
    OBVIOUS
  <2> QED
    BY <1>1, <2>1 DEF freshMap
<1>3. phaseMap = "idle" /\ todoMap = 0 /\ todoMap' = 0 /\ truthMap' = "ok" /\ saidMap' = "ok"
  BY <1>1 DEF phaseMap, todoMap, Halted, truthMap, saidMap
<1>4. phaseMap' = "idle" \/ phaseMap' = "over"
  BY <1>1 DEF phaseMap, Halted
<1> QED
  BY <1>2, <1>3, <1>4 DEF Promise!RunBuiltin, Promise!Quit

LEMMA QuitPromise ==
  ASSUME ~Halted, Halted', pc # "idle", UNCHANGED <<job, born>>
  PROVE  Promise!Quit
  BY DEF Promise!Quit, phaseMap, todoMap, truthMap, saidMap, freshMap, Halted

LEMMA ForkPromise ==
  ASSUME Script, Invariants, Fork
  PROVE  Stutters
<1> USE DEF Invariants, ScriptInductive
<1>0. PICK p : p = born + 1
  OBVIOUS
<1>1. /\ pc = "fork" /\ pc' \in {"fork", "sigdfl"} /\ born' = p /\ report' = report
      /\ job'.pids = Append(job.pids, p) /\ job'.shape = job.shape
  BY <1>0 DEF Fork, AfterFork, Script, Inductive, TypeOK, JobType
<1>2. p \in Pids /\ born \in Nat /\ job.pids \in Seq(Pids) /\ Len(job.pids) \in Nat
      /\ Len(job.pids) < Len(job.shape) /\ Len(job.shape) \in Nat
  BY <1>0, <1>1, MaxPidsAssumption DEF Inductive, Room, TypeOK, JobType, Pids
<1>3. proc'[p].st = "forked" /\ \A q \in Pids : q # p => proc'[q] = proc[q]
  <2> DEFINE child == [Unborn EXCEPT !.kind = job.shape[Len(Append(job.pids, p))],
                                     !.grp = IF job.pgid = 0 THEN p ELSE job.pgid,
                                     !.st = "forked"]
  <2>1. child.st = "forked"
    BY DEF Unborn
  <2>2. proc' = [proc EXCEPT ![p] = child]
    BY <1>0 DEF Fork
  <2> HIDE DEF child
  <2> QED
    BY <1>2, <2>1, <2>2 DEF Inductive, TypeOK
<1>4. Len(job'.pids) = Len(job.pids) + 1 /\ LastPid' = p
  BY <1>1, <1>2 DEF LastPid
<1>5. JobPids' = JobPids \cup {p}
  <2> DEFINE n == Len(job.pids)
  <2>1. JobPids' = {job'.pids[i] : i \in 1..(n + 1)} /\ JobPids = {job.pids[i] : i \in 1..n}
    BY <1>1, <1>2, <1>4 DEF JobPids
  <2>2. 1..(n + 1) = 1..n \cup {n + 1} /\ job'.pids[n + 1] = p
        /\ \A i \in 1..n : job'.pids[i] = job.pids[i]
    BY <1>1, <1>2
  <2> QED
    BY <2>1, <2>2
<1>6. {q \in JobPids : Over(q)}' = {q \in JobPids : Over(q)}
  <2>1. JobPids \subseteq Pids /\ p \notin JobPids
    <3>1. \A q \in JobPids : q <= born
      BY JobPidsAreLast DEF Inductive
    <3> QED
      BY <1>0, <1>2, <3>1, JobPidsArePids DEF Inductive
  <2>2. ~Over(p)'
    BY <1>3 DEF Over
  <2>3. \A q \in JobPids : Over(q)' <=> Over(q)
    BY <1>3, <2>1 DEF Over
  <2> QED
    BY <1>5, <2>1, <2>2, <2>3
<1>7. phaseMap = "busy" /\ phaseMap' = "busy"
  BY <1>1 DEF phaseMap, Halted
<1>8. todoMap' = todoMap
  BY <1>1, <1>6, <1>7 DEF todoMap
<1>9. truthMap' = "ok" /\ truthMap = "ok"
  BY <1>1, <1>2, <1>3, <1>4 DEF truthMap, Over, Launched
<1>10. freshMap' = freshMap
  <2>1. born' = born + 1 /\ born \in Nat /\ Len(job.pids) \in Nat
    BY <1>0, <1>1, <1>2
  <2>2. born' = Len(job'.pids) <=> born = Len(job.pids)
    BY <1>4, <2>1
  <2> QED
    BY <1>1, <2>2 DEF freshMap
<1>11. saidMap' = saidMap
  BY <1>1 DEF saidMap, Halted
<1> QED
  BY <1>7, <1>8, <1>9, <1>10, <1>11 DEF Stutters

(* The steps of the shell while it is busy that JobPromise does not see.   *)
LEMMA QuietPromise ==
  ASSUME UNCHANGED <<job, born, report>>,
         phaseMap' = phaseMap,
         Halted' = Halted,
         \A p \in JobPids : proc'[p].stat = proc[p].stat /\ Over(p)' = Over(p),
         job.pids # <<>> => LastPid \in JobPids
  PROVE  Stutters
<1>1. JobPids' = JobPids /\ LastPid' = LastPid /\ Launched' = Launched
  BY DEF JobPids, LastPid, Launched
<1>2. {p \in JobPids : Over(p)}' = {p \in JobPids : Over(p)}
  BY <1>1
<1>3. todoMap' = todoMap
  BY <1>2 DEF todoMap
<1>4. truthMap' = truthMap
  BY <1>1 DEF truthMap
<1>5. saidMap' = saidMap
  BY DEF saidMap
<1>6. freshMap' = freshMap
  <2>1. (pc' = "idle" <=> pc = "idle") \/ Halted
    BY DEF phaseMap
  <2>2. Halted => pc # "idle" /\ pc' # "idle"
    BY DEF Halted
  <2> QED
    BY <2>1, <2>2 DEF freshMap
<1> QED
  BY <1>3, <1>4, <1>5, <1>6 DEF Stutters

LEMMA WaitPromise ==
  ASSUME Script, Invariants, NEW p \in Pids, WaitReap(p) \/ WaitStopped(p)
  PROVE  Stutters \/ Promise!Quit
<1> USE DEF Invariants, ScriptInductive
<1>1. /\ WaitReap(p) /\ pc = "wait" /\ proc[p].st = "zombie"
      /\ UNCHANGED <<job, born>>
      /\ proc' = [proc EXCEPT ![p].st = "gone"]
      /\ \/ pc' = "killed"
         \/ pc' \in {"wait", "report"} /\ UNCHANGED report
  BY ScriptPlaces DEF WaitReap, WaitStopped, MarkAndLoop, Script
<1>2. CASE pc' = "killed"
  BY <1>1, <1>2, QuitPromise DEF Halted
<1>3. CASE pc' \in {"wait", "report"} /\ UNCHANGED report
  <2>1. phaseMap' = phaseMap /\ Halted' = Halted
    BY <1>1, <1>3 DEF phaseMap, Halted
  <2>2. ASSUME NEW q \in Pids PROVE proc'[q].stat = proc[q].stat /\ Over(q)' = Over(q)
    BY <1>1 DEF Inductive, TypeOK, KernelType, Over
  <2> QED
    BY <1>1, <1>3, <2>1, <2>2, JobPidsArePids, QuietPromise DEF Inductive
<1> QED
  BY <1>1, <1>2, <1>3

LEMMA ReportPromise ==
  ASSUME Script, Invariants, Report
  PROVE  Promise!Return
<1> USE DEF Invariants, ScriptInductive, kernelVars
<1>1. /\ pc = "report" /\ pc' = "idle" /\ UNCHANGED <<job, born, proc, seen>>
      /\ job.pids # <<>> /\ Launched /\ report'.status = seen[LastPid].status
  BY DEF Report, Status, Inductive, Room, Waiting, TypeOK, ReportType
<1>2. TypeOK /\ Quiet /\ LastPid \in JobPids /\ JobPids \subseteq Pids
  BY <1>1, JobPidsArePids DEF Reaped, Inductive
<1>3. \A p \in JobPids : proc[p].st = "gone"
  <2>1. \A p \in JobPids : p <= born
    BY <1>2, JobPidsAreLast
  <2> QED
    BY <1>2, <2>1 DEF Quiet, OwnProcesses
<1>4. todoMap = 0
  <2>1. Cardinality(OverPids) = Len(job.pids)
    BY <1>2, <1>3, OverCount DEF Over
  <2>2. Len(job.shape) \in Nat /\ Len(job.pids) = Len(job.shape)
    BY <1>1, <1>2 DEF TypeOK, JobType, Launched
  <2>3. phaseMap = "busy"
    BY <1>1 DEF phaseMap, Halted
  <2> QED
    BY <2>1, <2>2, <2>3 DEF todoMap, OverPids
<1>5. phaseMap = "busy" /\ phaseMap' = "idle" /\ todoMap' = 0
  BY <1>1 DEF phaseMap, todoMap, Halted
<1>6. truthMap = proc[LastPid].stat /\ truthMap' = proc[LastPid].stat
  BY <1>1, <1>2, <1>3 DEF truthMap, Launched, LastPid, Over, Halted
<1>7. saidMap' = seen[LastPid].status
  BY <1>1 DEF saidMap, Halted
<1>8. seen[LastPid].status \in {proc[LastPid].stat, "ok"}
  BY <1>2, ScriptPlaces DEF Inductive, Kept
<1>9. freshMap => seen[LastPid].status = proc[LastPid].stat
  BY <1>1, <1>2, <1>3 DEF FirstJob, Halted
<1>10. ~freshMap'
  BY <1>1, JobPidsAreLast, MaxPidsAssumption DEF freshMap, Inductive, Pids
<1> QED
  BY <1>4, <1>5, <1>6, <1>7, <1>8, <1>9, <1>10 DEF Promise!Return, freshMap

LEMMA ChildPromise ==
  ASSUME Script, Invariants, Invariants', NEW p \in Pids,
         \/ ChildSetUp(p) \/ ChildClearError(p) \/ ChildStart(p) \/ ChildFails(p)
         \/ ChildRunsCmd(p) \/ ChildExits(p) \/ ChildInterrupted(p)
         \/ ChildStops(p) \/ ChildContinues(p)
  PROVE  Stutters \/ Promise!ProcessEnds
<1> USE DEF Invariants, ScriptInductive
<1>1. /\ UNCHANGED shellVars
      /\ \A q \in Pids \ {p} : proc'[q] = proc[q]
      /\ proc[p].st \notin {"none", "gone"}
  BY ChildEffect
<1>2. UNCHANGED <<pc, job, born, report>> /\ JobPids' = JobPids /\ LastPid' = LastPid
      /\ Launched' = Launched /\ Halted' = Halted /\ phaseMap' = phaseMap
      /\ freshMap' = freshMap /\ saidMap' = saidMap
  BY <1>1 DEF shellVars, JobPids, LastPid, Launched, Halted, phaseMap, freshMap, saidMap
<1>3. /\ TypeOK /\ p \in JobPids /\ JobPids \subseteq Pids /\ ~Over(p) /\ pc # "idle"
      /\ job.pids # <<>> => LastPid \in JobPids
  BY <1>1, JobPidsArePids, ChildWrites DEF OwnProcesses, Quiet, Reaped, Inductive
<1>4. CASE Halted
  BY <1>2, <1>4 DEF Stutters, phaseMap, todoMap, truthMap
<1>5. CASE ~Halted
  <2>1. phaseMap = "busy"
    BY <1>3, <1>5 DEF phaseMap
  <2>2. truthMap' \in Outcomes
    BY <1>2, <1>3 DEF truthMap, Inductive, TypeOK, KernelType, Outcomes
  <2>3. /\ IsFiniteSet(OverPids) /\ Cardinality(OverPids) \in Nat
        /\ Cardinality(OverPids) < Len(job.shape) /\ Len(job.shape) \in Nat
    <3>1. Cardinality(OverPids) < Len(job.pids) /\ Len(job.pids) <= Len(job.shape)
          /\ Len(job.pids) \in Nat /\ Len(job.shape) \in Nat
      BY <1>3, OverCount DEF TypeOK, JobType
    <3> QED
      BY <1>3, <3>1, OverCount
  <2>4. CASE ~Over(p)'
    <3>1. {q \in JobPids : Over(q)}' = {q \in JobPids : Over(q)}
      BY <1>1, <1>2, <1>3, <2>4 DEF Over
    <3>2. todoMap' = todoMap
      BY <1>2, <3>1 DEF todoMap
    <3>3. truthMap' = truthMap
      <4>1. LastPid # p /\ job.pids # <<>> => proc'[LastPid] = proc[LastPid]
        BY <1>1, <1>3
      <4>2. LastPid = p => truthMap = "ok" /\ truthMap' = "ok"
        BY <1>2, <1>3, <2>4 DEF truthMap, Over
      <4> QED
        BY <1>2, <4>1, <4>2 DEF truthMap, Over
    <3> QED
      BY <1>2, <3>2, <3>3 DEF Stutters
  <2>5. CASE Over(p)'
    <3>1. {q \in JobPids : Over(q)}' = OverPids \cup {p}
      BY <1>1, <1>2, <1>3, <2>5 DEF Over, OverPids
    <3>2. Cardinality(OverPids \cup {p}) = Cardinality(OverPids) + 1
      BY <1>3, <2>3, FS_AddElement DEF OverPids
    <3>3. todoMap = Len(job.shape) - Cardinality(OverPids)
          /\ todoMap' = Len(job.shape) - (Cardinality(OverPids) + 1)
      BY <1>2, <2>1, <3>1, <3>2 DEF todoMap, OverPids
    <3>4. todoMap > 0 /\ todoMap' = todoMap - 1
      BY <2>3, <3>3
    <3> QED
      BY <1>2, <2>1, <2>2, <3>4 DEF Promise!ProcessEnds
  <2> QED
    BY <2>4, <2>5
<1> QED
  BY <1>4, <1>5

LEMMA PromiseStep ==
  ASSUME Script, Invariants, Invariants', [Next]_vars
  PROVE  Promise!Next \/ Stutters
<1>1. ASSUME NEW shape \in Shapes, NEW form \in Forms,
             Launch(shape, form) \/ LaunchInternalCmd(shape, form)
      PROVE  Promise!Next
  BY <1>1, LaunchPromise, InternalPromise DEF Promise!Next
<1>2. CASE ForkAndOr
  BY <1>2 DEF ForkAndOr, Script
<1>3. CASE ForkFails
  BY <1>3, QuitPromise DEF ForkFails, Halted, kernelVars, Promise!Next
<1>4. CASE ShellStep
  <2>1. ~(ParentSetpgid \/ PutJobInForeground \/ Restore)
    BY ScriptPlaces DEF ParentSetpgid, PutJobInForeground, Restore, Invariants
  <2>2. ASSUME StartWait \/ WaitNoChild PROVE Stutters
    <3>1. UNCHANGED <<job, born, proc, report>> /\ phaseMap' = phaseMap /\ Halted' = Halted
      BY <2>2, ScriptPlaces DEF StartWait, WaitNoChild, phaseMap, Halted, Invariants
    <3>2. \A p \in JobPids : proc'[p].stat = proc[p].stat /\ Over(p)' = Over(p)
      BY <3>1 DEF Over
    <3> QED
      BY <3>1, <3>2, JobPidsArePids, QuietPromise DEF Invariants, Inductive
  <2> QED
    BY <1>4, <2>1, <2>2, ForkPromise, WaitPromise, ReportPromise DEF ShellStep, Promise!Next
<1>5. ASSUME NEW p \in Pids,
             \/ ChildStep(p) \/ ChildFails(p) \/ ChildRunsCmd(p)
             \/ ChildInterrupted(p) \/ ChildStops(p) \/ ChildContinues(p)
      PROVE  Promise!Next \/ Stutters
  <2>1. \/ ChildSetUp(p) \/ ChildClearError(p) \/ ChildStart(p) \/ ChildFails(p)
        \/ ChildRunsCmd(p) \/ ChildExits(p) \/ ChildInterrupted(p)
        \/ ChildStops(p) \/ ChildContinues(p)
    BY <1>5 DEF ChildStep
  <2> QED
    BY <2>1, ChildPromise DEF Promise!Next
<1>6. CASE UNCHANGED vars
  <2>1. /\ UNCHANGED <<job, born, report, proc, pc>>
    BY <1>6 DEF vars
  <2> QED
    BY <2>1 DEF Stutters, phaseMap, todoMap, truthMap, saidMap, freshMap, Halted, JobPids,
       Over, LastPid, Launched
<1> QED
  BY <1>1, <1>2, <1>3, <1>4, <1>5, <1>6 DEF Next, Rest

\* JobControl, run by a script, implements JobPromise: the next statement runs
\* only when each process of the pipeline is over; the status the first command
\* reports is exact, and a later one is exact or the success of a lost status.
THEOREM ScriptKeepsPromise == ASSUME Script PROVE Spec => KeepsPromise
<1>1. Invariants /\ Invariants' /\ [Next]_vars => [Promise!Next]_(Promise!vars)
  BY PromiseStep DEF Stutters, Promise!vars
<1> QED
  BY InitPromise, <1>1, ScriptInvariance, PTL DEF Spec, KeepsPromise, Promise!Spec
=============================================================================
