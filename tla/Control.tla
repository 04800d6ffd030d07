------------------------------ MODULE Control ------------------------------
(***************************************************************************)
(* Control flow of the statement executor: blocks, if, while, for, switch, *)
(* try/catch/finally, function calls, annotations, classes with decorated  *)
(* methods and deferred statements, for every program they can build       *)
(* (src/src/interpreter/stmt-executor.cc, scope-executor.cc,               *)
(* expr-executor.cc, objects/func-object.cc).                              *)
(*                                                                         *)
(* The C++ stack is the sequence ctl: one frame per executor that keeps or *)
(* consumes a stop flag, the innermost last.  break, continue and return   *)
(* call set_stop on their parent, which hands the flag down the stack at   *)
(* once and stores it in the lists and loops on its way; a thrown          *)
(* RunTimeError unwinds the stack frame by frame.  The program is not      *)
(* fixed: wherever a statement may stand, any statement may.               *)
(***************************************************************************)
EXTENDS Integers, Sequences

CONSTANTS
  Programs,   \* sorts of program: the kinds of statement one is made of, the
              \* clauses of it that are quiet, and a bound: frames on the stack
  MaxDefers   \* bound: deferred statements of a function

Loops == {"while", "for"}
Jumps == {"break", "continue", "return"}
Decls == {"annotation", "class"}
Clauses == {"switch", "finally", "defer", "decorator"}
AllStmts ==
  Loops \cup Jumps \cup Decls
    \cup {"if", "switch", "try", "call", "throw", "fail", "defer"}

ASSUME ProgramsAssumption ==
  Programs \subseteq
    [stmts : SUBSET AllStmts, quiet : SUBSET Clauses, depth : Nat \ {0, 1}]
ASSUME BoundsAssumption == MaxDefers \in Nat

VARIABLES
  program,  \* the sort of program that runs
  ctl,      \* the executors that are active, outermost first
  exc       \* the RunTimeError in flight: of an object the user threw, or of
            \* the interpreter; "terminate" once one leaves a deferred statement

vars == <<program, ctl, exc>>

Stmts == program.stmts
MaxDepth == program.depth

(* A quiet "switch", "finally" or "defer" holds no jump nor decorator, and *)
(* no failing statement either if it is "finally"; "decorator": no break   *)
(* or continue leaves a decorator, and its deferred statements hold no jump. *)
Quiet == program.quiet

Frame(role) ==
  [role |-> role, flag |-> "go", phase |-> "body", finally |-> FALSE,
   saved |-> "none", defers |-> <<>>, made |-> 0, cur |-> 0]
List == Frame("list")

\* What runs a body of its own, with deferred statements.  A "decorator" is a
\* function called by the annotation or the class below it.
Mains == {"root", "func", "decorator"}

Depth == Len(ctl)
Top == ctl[Depth]
Below == SubSeq(ctl, 1, Depth - 1)
ReplaceTop(f) == [ctl EXCEPT ![Depth] = f]

Init ==
  /\ program \in Programs
  /\ ctl = <<Frame("root"), List>> /\ exc = "none"

-----------------------------------------------------------------------------
(* Stop flags.                                                             *)

\* Mutant: for hands break and continue to the loop around it.
PassThroughFor(role, flag) ==
  IF role = "while" /\ flag \in {"break", "continue"} THEN "go"
  ELSE IF role \in {"func", "root"} THEN "none" ELSE flag

\* Mutant: an annotation hands return to its parent, as a class does.
PassThroughAnnotation(role, flag) ==
  IF role \in Loops /\ flag \in {"break", "continue"}
  THEN IF role = "while" THEN "go" ELSE "none"
  ELSE IF role \in {"func", "root"} THEN "none" ELSE flag

(* The flag that an executor's set_stop hands to its parent's: a call hands *)
(* on none, an annotation all but return.  Nothing ever sets kThrow, which *)
(* try would turn into kGo and a call let through.                         *)
Passed(role, flag) ==
  IF role \in Loops /\ flag \in {"break", "continue"}
  THEN IF role = "while" THEN "go" ELSE "none"
  ELSE IF role \in {"func", "root"} \/ (role = "annotation" /\ flag = "return")
  THEN "none" ELSE flag

(* What reaches each frame when the innermost one is told something.       *)
Reaches(flag) ==
  LET at[i \in 1..Depth] == IF i = Depth THEN flag ELSE Passed(ctl[i + 1].role, at[i + 1])
  IN  at

SetStop(flag) ==
  LET at == Reaches(flag) IN
  [i \in 1..Depth |->
     IF ctl[i].role \in {"list"} \cup Loops /\ at[i] # "none"
     THEN [ctl[i] EXCEPT !.flag = at[i]]
     ELSE ctl[i]]

-----------------------------------------------------------------------------
(* Statements.  The innermost frame is a list that was not told to stop.   *)

(* The frames of the running function, and the clauses they belong to.     *)
Main == CHOOSE i \in 1..Depth :
          /\ ctl[i].role \in Mains
          /\ \A j \in (i + 1)..Depth : ctl[j].role \notin Mains
Within(clause) ==
  \E i \in Main..Depth :
    \/ clause = "switch" /\ ctl[i].role = "switch"
    \/ clause = "finally" /\ ctl[i].role = "try" /\ ctl[i].phase = "finally"
    \/ clause = "defer" /\ ctl[i].role \in Mains /\ ctl[i].phase = "deferred"
    \/ clause = "decorator" /\ ctl[i].role = "decorator" /\ ctl[i].phase = "deferred"
InQuiet == \E clause \in Quiet : Within(clause)

(* A break or continue of a decorator that is in no loop of its own.       *)
Stray(kind) ==
  /\ kind # "return" /\ ctl[Main].role = "decorator"
  /\ \A i \in Main..Depth : ctl[i].role \notin Loops

AtStmt(kind) ==
  /\ exc = "none"
  /\ Top.role = "list" /\ Top.flag = "go"
  /\ kind \in Stmts

Jump(kind) ==
  /\ AtStmt(kind) /\ kind \in Jumps
  /\ ~InQuiet /\ ("decorator" \in Quiet => ~Stray(kind))
  /\ ctl' = SetStop(kind)
  /\ UNCHANGED exc

MayFail ==
  "finally" \in Quiet =>
    \A i \in 1..Depth : ~(ctl[i].role = "try" /\ ctl[i].phase = "finally")

(* The user throws an object, or a statement or a condition fails.         *)
Throw(kind) ==
  /\ AtStmt(kind) /\ kind \in {"throw", "fail"} /\ MayFail
  /\ exc' = IF kind = "throw" THEN "object" ELSE "error"
  /\ UNCHANGED ctl

(* if, or the block of a function or of a try, starts its block at once.   *)
OpenBlock(kind, frame) ==
  /\ AtStmt(kind)
  /\ Depth + 2 <= MaxDepth
  /\ ctl' = ctl \o <<frame, List>>
  /\ UNCHANGED exc

If == OpenBlock("if", Frame("if"))
Call == OpenBlock("call", Frame("func"))
Try == \E has_finally \in BOOLEAN :
         OpenBlock("try", [Frame("try") EXCEPT !.finally = has_finally])

(* A loop, a switch or a declaration first evaluates something.  A chain of *)
(* annotations is one frame, and so is a class with the classes in it.     *)
OpenHead(kind) ==
  /\ AtStmt(kind) /\ kind \in Loops \cup Decls \cup {"switch"}
  /\ kind \in Decls => ~InQuiet
  /\ Depth + 2 <= MaxDepth
  /\ ctl' = Append(ctl, Frame(kind))
  /\ UNCHANGED exc

(* The statement goes on the stack of the innermost main executor.         *)
Defer ==
  /\ AtStmt("defer")
  /\ "defer" \in Quiet => ~Within("defer")
  /\ ctl[Main].made < MaxDefers
  /\ ctl' = [ctl EXCEPT ![Main] =
               [@ EXCEPT !.made = ctl[Main].made + 1,
                         !.defers = Append(ctl[Main].defers, ctl[Main].made + 1)]]
  /\ UNCHANGED exc

(* A list ends when it was told to stop or has no more statements; if has  *)
(* nothing to do after its block.                                          *)
EndList ==
  /\ exc = "none" /\ Top.role \in {"list", "if"}
  /\ ctl' = Below
  /\ UNCHANGED exc

(* Evaluating the head of a loop, of a case or of a declaration fails.     *)
HeadFails ==
  /\ exc = "none" /\ MayFail
  /\ \/ Top.role \in Loops /\ Top.flag \in {"go", "continue"}
     \/ Top.role \in Decls \cup {"switch"}
  /\ exc' = "error"
  /\ UNCHANGED ctl

\* Mutant: return is forgotten where the loop looks at its flag.
LoopForgetsReturn ==
  /\ exc = "none" /\ Top.role \in Loops /\ Top.flag \notin {"break", "throw"}
  /\ ctl' = Append(ctl, List)
  /\ UNCHANGED exc

LoopIterates ==
  /\ exc = "none" /\ Top.role \in Loops /\ Top.flag \notin {"break", "throw", "return"}
  /\ ctl' = Append(ctl, List)
  /\ UNCHANGED exc

\* Mutant: a loop that ends clears the flags of all that is around it.
LoopEndResets ==
  /\ exc = "none" /\ Top.role \in Loops
  /\ ctl' = [i \in 1..(Depth - 1) |-> [ctl[i] EXCEPT !.flag = "go"]]
  /\ UNCHANGED exc

LoopEnds ==
  /\ exc = "none" /\ Top.role \in Loops
  /\ ctl' = Below
  /\ UNCHANGED exc

(* Each case that matches runs, whatever the ones before it did; default   *)
(* if none did.                                                            *)
SwitchCase ==
  /\ exc = "none" /\ Top.role = "switch" /\ Top.phase # "default"
  /\ \E phase \in {"case", "default"} :
       /\ phase = "default" => Top.phase = "body"
       /\ ctl' = Append(ReplaceTop([Top EXCEPT !.phase = phase]), List)
  /\ UNCHANGED exc

SwitchEnds ==
  /\ exc = "none" /\ Top.role = "switch"
  /\ ctl' = Below
  /\ UNCHANGED exc

(* The class that an annotation decorates is declared first.               *)
AnnotatedClass ==
  /\ exc = "none" /\ Top.role = "annotation" /\ "class" \in Stmts
  /\ Depth + 1 < MaxDepth
  /\ ctl' = Append(ctl, Frame("class"))
  /\ UNCHANGED exc

(* An annotation, or a class for a method, calls a decorator, of which the *)
(* executor is the parent: no FuncCallExecutor is between them.            *)
Decorate ==
  /\ exc = "none" /\ Top.role \in Decls
  /\ Depth + 2 <= MaxDepth
  /\ ctl' = ctl \o <<Frame("decorator"), List>>
  /\ UNCHANGED exc

DeclEnds ==
  /\ exc = "none" /\ Top.role \in Decls
  /\ ctl' = Below
  /\ UNCHANGED exc

-----------------------------------------------------------------------------
(* Exceptions and deferred statements.                                     *)

RunFinally(saved) ==
  /\ ctl' = Append(ReplaceTop([Top EXCEPT !.phase = "finally", !.saved = saved]), List)
  /\ exc' = "none"

(* The first catch that names the exception runs; its expressions and its  *)
(* block are outside the try.                                              *)
Catch ==
  /\ exc \in {"object", "error"}
  /\ Top.role = "try" /\ Top.phase = "body"
  /\ ctl' = Append(ReplaceTop([Top EXCEPT !.phase = "catch"]), List)
  /\ exc' = "none"

CatchFails ==
  /\ MayFail /\ exc \in {"object", "error"}
  /\ Top.role = "try" /\ Top.phase = "body"
  /\ ctl' = Below
  /\ exc' = "error"

NoCatch ==
  /\ exc \in {"object", "error"}
  /\ Top.role = "try" /\ Top.phase = "body"
  /\ IF Top.finally THEN RunFinally(exc) ELSE ctl' = Below /\ UNCHANGED exc

TryEnds ==
  /\ exc = "none" /\ Top.role = "try"
  /\ IF Top.finally /\ Top.phase # "finally"
     THEN RunFinally("none")
     ELSE ctl' = Below /\ exc' = Top.saved

Unwind ==
  /\ exc \in {"object", "error"}
  /\ \/ Top.role \in {"list", "if", "switch"} \cup Loops
     \/ Top.role = "try" /\ Top.phase # "body"
  /\ ctl' = Below
  /\ UNCHANGED exc

(* A declaration throws an error of its own, without the object.           *)
DeclFails ==
  /\ exc \in {"object", "error"} /\ Top.role \in Decls
  /\ ctl' = Below
  /\ exc' = "error"

(* The body of a function or of the script is left, by whatever way: the   *)
(* deferred statements run, the last one first.                            *)
BodyEnds ==
  /\ exc # "terminate"
  /\ Top.role \in Mains /\ Top.phase = "body"
  /\ ctl' = ReplaceTop([Top EXCEPT !.phase = "leaving", !.saved = exc])
  /\ exc' = "none"

\* Mutant: the statement deferred first runs first.
RunFirstDeferred ==
  /\ exc = "none"
  /\ Top.role \in Mains /\ Top.phase = "leaving" /\ Top.defers # <<>>
  /\ Depth < MaxDepth
  /\ ctl' = Append(ReplaceTop([Top EXCEPT !.phase = "deferred", !.cur = Top.defers[1]]), List)
  /\ UNCHANGED exc

RunDeferred ==
  /\ exc = "none"
  /\ Top.role \in Mains /\ Top.phase = "leaving" /\ Top.defers # <<>>
  /\ Depth < MaxDepth
  /\ ctl' = Append(ReplaceTop([Top EXCEPT !.phase = "deferred",
                                          !.cur = Top.defers[Len(Top.defers)]]), List)
  /\ UNCHANGED exc

(* defer_stack_.pop() after the statement ran.                             *)
DeferredEnds ==
  /\ exc = "none"
  /\ Top.role \in Mains /\ Top.phase = "deferred"
  /\ ctl' = ReplaceTop([Top EXCEPT !.phase = "leaving",
                                   !.defers = SubSeq(Top.defers, 1, Len(Top.defers) - 1)])
  /\ UNCHANGED exc

(* They run in a destructor, which nothing may leave by an exception.      *)
DeferredThrows ==
  /\ exc \in {"object", "error"}
  /\ Top.role \in Mains /\ Top.phase = "deferred"
  /\ exc' = "terminate"
  /\ UNCHANGED ctl

(* FuncCallExecutor throws a RunTimeError of its own, without the object.  *)
Returns ==
  /\ exc = "none"
  /\ Top.role = "func" /\ Top.phase = "leaving" /\ Top.defers = <<>>
  /\ ctl' = Below
  /\ exc' = IF Top.saved = "object" THEN "error" ELSE Top.saved

(* A class then sets kGo, for itself and all that the decorator's return   *)
(* reached; an exception keeps its object until the declaration fails.     *)
DecoratorReturns ==
  /\ exc = "none"
  /\ Top.role = "decorator" /\ Top.phase = "leaving" /\ Top.defers = <<>>
  /\ ctl' = IF ctl[Depth - 1].role = "class" /\ Top.saved = "none"
            THEN SubSeq(SetStop("go"), 1, Depth - 1) ELSE Below
  /\ exc' = Top.saved

(* The script is over, its uncaught exception printed; or std::terminate.  *)
Over ==
  /\ \/ exc = "terminate"
     \/ Top.role = "root" /\ Top.phase = "leaving" /\ Top.defers = <<>>
  /\ UNCHANGED vars

Execute ==
  \/ \E kind \in Stmts : Jump(kind) \/ Throw(kind) \/ OpenHead(kind)
  \/ If \/ Call \/ Try \/ Defer
  \/ EndList \/ HeadFails \/ LoopIterates \/ LoopEnds \/ SwitchCase \/ SwitchEnds
  \/ AnnotatedClass \/ Decorate \/ DeclEnds \/ DeclFails \/ DecoratorReturns
  \/ Catch \/ CatchFails \/ NoCatch \/ TryEnds \/ Unwind
  \/ BodyEnds \/ RunDeferred \/ DeferredEnds \/ DeferredThrows \/ Returns
  \/ Over

Next == Execute /\ UNCHANGED program

Spec == Init /\ [][Next]_vars

-----------------------------------------------------------------------------
(* What should be true of it.                                              *)

(* Switch and finally clauses hold no jump and decorators keep their own.  *)
Confined == {"switch", "finally", "decorator"} \subseteq Quiet

SameCall(i, j) == \A k \in (i + 1)..j : ctl[k].role # "func"

(* Frame i waits for a finally clause, or for a deferred statement of a    *)
(* decorator, to end.                                                      *)
InFinally(i) == ctl[i].role = "try" /\ ctl[i].phase = "finally"
Suspends(i) == InFinally(i) \/ (ctl[i].role = "decorator" /\ ctl[i].phase = "deferred")
Suspended(i) == \E j \in (i + 1)..Depth : Suspends(j)

\* After break, continue or return no further statement runs in a block that
\* the jump leaves, in any nesting of blocks, but for finally clauses; and an
\* annotation or a class that goes on after a decorator finds no block around it
\* told to stop (StmtListExecutor::Exec, set_stop of every executor).  This is so of programs that confine their jumps.
NothingRunsPastJump ==
  Confined /\ exc = "none" /\ ((Top.role = "list" /\ Top.flag = "go") \/ Top.role \in Decls) =>
    \A i \in 1..Depth :
      ctl[i].role = "list" /\ SameCall(i, Depth) => ctl[i].flag = "go" \/ Suspended(i)

\* break and continue reach the innermost loop and no block around it; no two
\* loops of a function break at once (set_stop of WhileExecutor, ForInExecutor),
\* in the same programs.
BreakIsInnermost ==
  Confined => \A i, j \in 1..Depth :
    i < j /\ SameCall(i, j) /\ ctl[j].role \in Loops =>
      /\ ctl[i].role = "list" => ctl[i].flag \notin {"break", "continue"} \/ Suspended(i)
      /\ ctl[i].flag = "break" => ctl[j].flag # "break"

\* A frame that is to be left by return is never told to go on again, but by
\* the class whose decorator returned (set_stop(kGo) of WhileExecutor), in the
\* same programs.
ReturnStands ==
  [][Confined => \A i \in 1..Depth :
       i <= Depth' /\ ctl[i].flag = "return" /\ ctl'[i].flag = "go" =>
         \E k \in (i + 1)..Depth : ctl[k].role = "class"]_vars

\* What happens in a function never stops the code that called it: the frames
\* below a call change only when the call is over.  Of a decorator, and of the
\* methods of a class that is annotated, the code around the annotation is never
\* told to return; a break or continue in no loop of the decorator it is told
\* (FuncCallExecutor::set_stop, AnnotationExecutor::set_stop).
CallerUntouched ==
  [][\A i \in 2..Depth : i <= Depth' =>
       \A j \in 1..(i - 1) :
         /\ ctl[i].role = "func" => ctl'[j] = ctl[j]
         /\ ctl[i].role = "annotation" /\ ctl'[j].flag = "return" => ctl[j].flag = "return"]_vars

\* Whichever way a function is left, its deferred statements all run first, in
\* the reverse of the order in which they were deferred, if none of them defers
\* another (FuncDeclObject::Call).
DeferredInReverse ==
  [][/\ "defer" \in Quiet /\ Top.phase = "leaving" /\ Depth' > Depth =>
          ctl'[Depth].cur = (IF Top.cur = 0 THEN Top.made ELSE Top.cur - 1)
     /\ "defer" \in Quiet /\ Depth' < Depth /\ Top.role \in Mains /\ Top.made > 0 =>
          Top.cur = 1]_vars

-----------------------------------------------------------------------------
(* Why it is: an inductive invariant.                                      *)

FrameType ==
  [role : {"list", "if", "try", "switch"} \cup Loops \cup Decls \cup Mains,
   flag : {"go"} \cup Jumps,
   phase : {"body", "case", "default", "catch", "finally", "leaving", "deferred"},
   finally : BOOLEAN, saved : {"none", "object", "error"},
   defers : Seq(Nat), made : Nat, cur : Nat]

WellFormed(f) ==
  /\ f.flag # "go" => f.role \in {"list"} \cup Loops
  /\ f.phase = "finally" => f.role = "try"
  /\ f.phase \in {"leaving", "deferred"} <=> f.role \in Mains /\ f.phase # "body"
  /\ f.saved # "none" => f.phase \in {"finally", "leaving", "deferred"}

\* The script's main executor is at the bottom of the stack and nowhere else,
\* only lists and loops store a flag, and a function that leaves has nothing on
\* top of it but a deferred statement.
TypeOK ==
  /\ ctl \in Seq(FrameType) /\ ctl # <<>>
  /\ exc \in {"none", "object", "error", "terminate"}
  /\ \A i \in 1..Depth :
       /\ WellFormed(ctl[i])
       /\ ctl[i].role = "root" <=> i = 1
       /\ ctl[i].phase = "leaving" => i = Depth

(* The statements deferred and not yet run are the first that were         *)
(* deferred; cur is the one that runs or ran last, 0 before any did.       *)
InOrder(f) ==
  /\ \A k \in 1..Len(f.defers) : f.defers[k] = k
  /\ f.phase = "body" => f.cur = 0 /\ f.made = Len(f.defers)
  /\ f.phase = "leaving" => \/ f.cur = 0 /\ f.made = Len(f.defers)
                            \/ f.cur = Len(f.defers) + 1
  /\ f.phase = "deferred" => f.cur = Len(f.defers) /\ f.cur > 0
DeferStack ==
  \A i \in 1..Depth : ctl[i].role \in Mains => InOrder(ctl[i])

Stores(i) == ctl[i].role \in {"list"} \cup Loops

(* What can still start a statement, or go on with the exception it saved. *)
Live(i) ==
  \/ ctl[i].role = "list" /\ ctl[i].flag = "go"
  \/ ctl[i].role \in Loops /\ ctl[i].flag \in {"go", "continue"}
  \/ ctl[i].role \in {"switch", "func", "annotation"}
  \/ ctl[i].role \in {"try", "decorator"} /\ ctl[i].saved # "none"

(* Between frames i and j there is no call, or there is a clause that      *)
(* frame i waits for.                                                      *)
SameBody(i, j) == \A k \in (i + 1)..(j - 1) : ctl[k].role # "func"
Covered(i, j) == \E k \in (i + 1)..(j - 1) : Suspends(k)

(* Nothing that j was started from was told to stop.                       *)
ClearBelow(j) ==
  \A i \in 1..(j - 1) : Stores(i) /\ SameBody(i, j) => Live(i) \/ Covered(i, j)

(* A frame that is live, or an exception, stands on live frames; so does a *)
(* class, unless one of its decorators runs.                               *)
Flow ==
  /\ \A j \in 1..Depth : Live(j) => ClearBelow(j)
  /\ exc \in {"object", "error"} => ClearBelow(Depth + 1)
  /\ exc = "none" /\ Top.role = "class" => ClearBelow(Depth)

(* A loop took every break and continue of what it holds.                  *)
TakenBelow(j) ==
  \A i \in 1..(j - 1) : Stores(i) /\ SameBody(i, j) =>
    \/ Covered(i, j)
    \/ ctl[i].flag # "break" /\ (ctl[i].role = "list" => ctl[i].flag # "continue")
Taken == \A j \in 1..Depth : ctl[j].role \in Loops => TakenBelow(j)

(* Nothing jumps in a finally clause or a deferred statement of a          *)
(* decorator, nor fails while a finally clause runs.                       *)
QuietClauses ==
  \A i \in 1..Depth :
    /\ Suspends(i) => \A j \in (i + 1)..Depth : SameBody(i, j + 1) => ctl[j].flag = "go"
    /\ InFinally(i) => /\ exc \notin {"object", "error"}
                       /\ \A j \in (i + 1)..Depth : ctl[j].saved = "none"

(* Declarations stand in no clause that is quiet, and above one is either  *)
(* nothing or its decorator.                                               *)
Declarations ==
  \A k \in 1..Depth :
    /\ ctl[k].role \in Decls /\ k < Depth =>
         \/ ctl[k + 1].role = "decorator"
         \/ ctl[k].role = "annotation" /\ ctl[k + 1].role = "class"
    /\ ctl[k].role \in Decls \cup {"decorator"} =>
         \A i \in 1..(k - 1) : SameBody(i, k) => ~Suspends(i) /\ ctl[i].role # "switch"

\* The facts which every step of a confined program preserves: what
\* NothingRunsPastJump, BreakIsInnermost and ReturnStands rest on.
Inductive == TypeOK /\ Flow /\ Taken /\ QuietClauses /\ Declarations
=============================================================================
