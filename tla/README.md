# Shell++ in TLA+

Shell++ (`src/`) is an interpreter for a language that is at once a Unix shell
and a small object-oriented language.  It is a single-threaded C++ program; its
concurrency is that of a shell: the processes it forks, the kernel's process
groups, terminal and wait queue, and one shared memory segment.  The rest of
its difficulty is that of an interpreter: exceptions and stop flags that travel
through nested executors, a stack of symbol tables that closures share, and
deferred statements.

All source paths below are relative to `src/src/` unless they start with
`src/`.

## Inventory

| Part | State it keeps | Operations | Hard behaviours |
|---|---|---|---|
| Job control (`cmd-exec.*`, `env-shell.*`) | `Job` (processes, pgid, marks), the disposition of SIGCHLD, the terminal's group, the error segment, `last_*` of EnvShell | LaunchJob, LaunchInternalCmd, WaitForJob, MarkProcessStatus, PutJobInForeground, CheckCmdError; in the child SetUpFilesDescriptor, LaunchProcess | interleaving of shell and children, lost statuses, children of other jobs, stopped jobs, Ctrl-C |
| Pipes, redirections, command substitution (`cmd-exec.cc`, `interpreter/cmd-executor.cc`) | file descriptors of shell and children, pipe buffers | LaunchJob's plumbing, ExecCmdExpr, PrepareData, Str2Pipe, Var2Pipe, ReadPipe, PopulateCmd | end of file, full pipes, leaked descriptors, O_NONBLOCK |
| Statement executor (`interpreter/stmt-executor.*`, `executor.h`, `scope-executor.*`) | stop flag of each executor, deferred statements | blocks, if, while, for, switch, try/catch/finally, break, continue, return, throw, defer, annotations and class declarations | which executor consumes a flag, exceptions during finally or defer |
| Symbol tables and functions (`interpreter/symbol-table.*`, `objects/func-object.*`) | stack of tables, `pos_func_table_`, closures' tables | SearchEntry, InsertEntry, SetEntryOnFunc, Push, Pop, Call, Handle*Arguments | recursion on a shared stack, `%return`, binding of named, default and variadic arguments |
| Expressions and assignments (`interpreter/expr-executor.cc`, `assign-executor.cc`) | none of their own | evaluation, unpacking, operator assignment, comprehensions | order of evaluation, side effects of a failing unpacking |
| Classes and interfaces (`objects/decl-class-object.*`, `obj-type.*`) | symbol table of each class and instance, list of abstract methods | declaration, instantiation, attribute search, `instanceof` | diamond of interfaces, missing constructors |
| Interpreter, modules, prompt (`interpreter/interpreter.*`, `shell/runner.*`) | table of imported modules, jmp_buf of the prompt | ExecFile, ExecInterative, import | a text that is complete too early or too late, cyclic import |
| Lexer (`parser/lexer.*`, `extract_expr.*`, `parser_literal_string.*`) | position, current character | GetToken, ScanString, ExtractExpr | end of input in the middle of a token |
| Parser (`parser/parser*.cc`) | list of tokens, position, saved state | ParserStatement, ParserCmd, ParserExpr, ... | telling a command from an expression, backtracking |
| AST (`ast/*`) | trees | construction, printing | parts that are moved out of a tree |
| Containers (`objects/array,tuple,map,slice`) | elements, buckets, iterators | indexing, slicing, insertion, iteration | negative indices, colliding keys, iteration during change |
| Numbers, strings, sizes (`objects/simple-object.*`, `str-object.*`, `file-size-object.*`) | a value | arithmetic, ranges, conversion of sizes | overflow, zero step, rounding |
| Files, paths, globs, regex | an open stream, a path | wrappers of the libraries | errors of the libraries |
| Exceptions and messages (`objects/exceptions-object.*`, `run_time_error.h`, `msg.h`, `error-formatter.*`) | a list of messages | throw, rethrow, format | none beyond how exceptions travel |
| Built-ins (`modules/*`, `cmd-entry.*`) | environment, entry status | print, assert, env, cd, exit, ... | the status of a builtin |

Components call one another downwards: the runner gives lines or a file to the
interpreter, which gives statements to the statement executor, which calls
expression, assignment and command executors; the command executor builds a
`Job` and job control launches it, forking processes which, for a declared
command or a subshell, run a copy of the interpreter and meet the same code
again.  Shared state is the symbol-table stack, the `EnvShell` singleton, the
kernel's objects and the shared error segment.

What makes each component correct, and where it could go wrong, is listed as
hazards in `PROJECT.json`, each with the properties that watch it.

## Modules

| Component | Modules | Composes | Run |
|---|---|---|---|
| Job control | `JobControl`, `JobPromise`, `JobRefinement`, `JobControlProofs` | | `job_script`, `job_terminal`, `find_lost_status` |
| Control flow | `Control`, `ControlProofs` | | `control` |
| Symbol tables, functions | `Scopes`, `ScopesProofs`; `Arguments`, `ArgumentsProofs` | | `scopes`, `arguments` |
| Pipes and captures | `Pipeline`, `PipelineProofs` | | `pipeline` |
| AST, parser, prompt | `Ast`, `Parser`, `Prompt` | the prompt drives the parser, which builds the tree | `prompt` |
| Lexer, strings, words | `Lexer`, `LexerProofs`, `Literals`, `Words` | words are made from the lexer's tokens and the strings in them | `words` |
| Values and containers | `Values`, `Texts`, `Slices`, `SlicesProofs`, `Methods`, `Containers` | methods over values; loops of a script over methods | `containers` |
| Classes | `Classes`, `ClassesProofs` | | `classes` |
| Expressions | `Expressions` | evaluation over the same values and methods | `expressions` |

`MC`*X* instantiates *X* for TLC: a set of *sessions*, *lines* or *users*, each
of which is a start and what may happen from there, in every order.

### Job control

`JobControl.tla` models `LaunchJob` and what it calls, at the grain of one
system call or one access to the shared segment.  The shell is one actor:

| `pc` | code |
|---|---|
| `idle` | the statement executor, between two jobs (`Launch`, `LaunchInternalCmd`, `ForkAndOr`) |
| `fork`, `setpgid` | the loop of `LaunchJob` over `process_` (`Fork`, `ForkFails`, `ParentSetpgid`) |
| `putfg` | `PutJobInForeground` up to `tcsetpgrp` |
| `sigdfl`, `wait` | `WaitForJob`: SIGCHLD back to default, then the `waitpid` loop (`StartWait`, `WaitReap`, `WaitStopped`, `WaitNoChild`) |
| `restore`, `report` | the terminal taken back; exit code stored and `CheckCmdError` |
| `exited`, `killed` | `exit` was called, or the shell sent itself SIGINT |

Each process is an actor as well: forked, set up (`SetUpFilesDescriptor`),
error flag cleared (`Process::LaunchProcess`), running, stopped, ended.  A
process is of a kind: `ext` (execvp succeeds), `bad` (execvp fails), `decl`
(a declared command), `sub` (a subshell), `cd` and `exit` (builtins), `andor`
(the interpreter copy that runs `a && b &`).  A zombie, a wait status, a group
that has no member left and the fate of a child that ends while SIGCHLD is
ignored are the kernel's and are modelled from wait(2), setpgid(2) and
sigaction(2).  What a command computes is its `stat`: ok, fail, or int.

`JobPromise.tla` says what a script may rely on: the next statement starts
only when every process of the job is over, and the status it sees is that of
the last process.  The code keeps the second half for the first job only (from
then on a quick process may leave no status, and success is reported), which
is what the abstract `Return` says.  `JobRefinement.tla` gives the mapping and
states `KeepsPromise`, which `job_script` checks.  On a terminal even the first
half is lost (a background job ends the wait), so the mapping is for scripts
only.

`MCJobControl.tla` names the sets of pipelines the runs use.

| Run | Instance | Shows |
|---|---|---|
| `job_script` | no terminal, 3 processes, one- and two-process pipelines, `fg` and `bg`, fairness for the shell and every process | `ReportSound`, `NothingOutlives`, the refinement of `JobPromise`, `ErrorIsOwn` (the error segment is attributed correctly when the job is one process), and `JobReturns`: the interpreter comes back from every job |
| `job_terminal` | prompt on a terminal, 3 processes, Ctrl-C, Ctrl-Z, SIGCONT, background jobs | the terminal always comes back; the inductive invariant of the proof |
| `find_lost_status` | 2 processes | that `FailureReported` does not hold |

Three processes are enough for the cases that matter: a two-process pipeline
beside an older child (the early return, the stale error, the wait that
returns the wrong child), and three jobs in sequence (SIGCHLD ignored, then
default, then ignored).  `MaxPids` is the only bound.

Fairness: the shell never blocks except in `waitpid`, and the kernel schedules
it and each child, so weak fairness of the shell's steps and of each child's
own steps is what scheduling gives; that a *command* ends is an assumption
about the command, stated by `ChildStep` containing `ChildExits`.  Stops,
continues, interrupts and failures carry no fairness.

Findings: a status lost because SIGCHLD is still ignored when the next job's
child ends (`find_lost_status`).  The model shows other behaviour that a user of
the shell would not expect and that no property contradicts: a background job
that ends makes the shell stop waiting for the one in front; the status of a
failing builtin is dropped; a command may run before its group owns the
terminal; Ctrl-C leaves zombies; a subshell throws the error an earlier job
left in the segment; a neighbour in the pipeline clears an error; behind a
stopped job the prompt may wait for ever.

Proofs (`JobControlProofs.tla`): `Inductive` is
`TypeOK /\ Room /\ Owner /\ Kept`.  `TypeOK` alone is not inductive: `Fork`
indexes the pipeline and takes the next pid, so it needs `Room` (a process is
left to fork, and a pid for it).  `TerminalOwner` needs `Owner` (only a
foreground job on a terminal reaches `putfg` and `restore`).  `ReportSound`
needs `Kept`: a mark is only ever copied from a zombie at the moment it is
reaped, and a reaped process does not change.  One lemma per step of the
shell and of a child shows that it preserves the four parts, for every value
of `Tty`, `Repl`, `Shapes`, `Forms` and `MaxPids` the assumptions allow.
`TypeCorrect`, `TerminalIsReturned` and `ReportsAreSound` follow.

Its second half proves what a script may rely on, under the hypothesis
`Script` (no terminal, not the prompt, and no `a && b &`): on a terminal a
background job ends the wait for the one in front, and `a && b &` leaves a copy
of the interpreter that nobody waits for, so neither keeps the promise.  The
invariant has four more parts, in `JobRefinement.tla`: `OwnProcesses` (the job's
processes are the last that were forked, and only they may be there still),
`Reaped` (a mark is made when a process is reaped, and the loop over `waitpid` is
not over before all are), `Segment` (the shared error is the one the job's only
process left) and `FirstJob` (SIGCHLD has its default action until the first job
is over, so that no status of it is lost).  `ScriptInvariance` shows them
inductive together with `Inductive`; `NothingIsLeft` and `ErrorsAreOwn` follow.
`ScriptKeepsPromise` is the refinement: each action maps to a step of
`JobPromise` or to none, and the count of what is still to do, a cardinality,
goes down by the processes a step ends (the library's theorems on finite sets,
with `RisingRange`, that pids are consecutive).  Only `JobReturns` stays with
TLC: it is liveness. The refinement needs a bound
on the length of a pipeline, `MaxLen`, for the type of `JobPromise`'s count; nothing else
in the module uses it.
### Control flow

`Control.tla` models the statement executors as a stack machine.  The C++
stack is `ctl`, one frame per executor that stores or consumes a stop flag:

| frame | code |
|---|---|
| `root`, `func` | `RootExecutor`, `FuncDeclObject::Call` with its main `BlockExecutor`: deferred statements, the boundary no flag crosses |
| `list` | `StmtListExecutor` and the `BlockExecutor` around it |
| `if`, `switch`, `try`, `while`, `for` | the executors of those statements |
| `annotation`, `class` | `AnnotationExecutor` (a chain of annotations is one frame), `ClassDeclExecutor` (with the classes declared in it) |
| `decorator` | a function they call: `FuncDeclObject::Call` with the declaration as its parent, without the `FuncCallExecutor` that keeps flags from a caller |

The program is not fixed: where a statement may stand the next step may be any
statement of `Stmts`, so the run covers every program of bounded depth, and
every value a condition may have.  `SetStop` is the chain of `set_stop` calls,
`Passed` what one executor hands to its parent.  `exc` is the C++ exception in
flight; `Unwind` pops a frame, `Catch`, `CatchFails` and `NoCatch` are the
handler of `TryCatchExecutor`, and `BodyEnds`, `RunDeferred`, `DeferredEnds`
the scope guard that runs the deferred statements on every way out.  A
deferred statement that throws leaves a destructor: `exc = "terminate"`.

A declaration calls its decorators (`Decorate`) with itself as their executor.
An annotation swallows `return` and passes everything else on; a class passes
`return` on as well and, when the decorator is back, tells all its callers to go
on (`DecoratorReturns`).  So a `break` in no loop of the decorator (`Stray`)
stops the block the annotation stands in, up to the next call.

Four clauses break what the executors otherwise keep (below).  So a behaviour
begins with a sort of program (`program`, one of the constant `Programs`): the
statements `Stmts` it is made of, how deep it nests (`MaxDepth`), and the clauses
`Quiet` that it keeps free of jumps and of declarations.  Each property names the
clauses it needs quiet (`Confined`: `switch`, `finally`, `decorator`).  For `finally` a quiet clause does not fail either,
since an exception there hides the flag a return has set; for `decorator` no
`break` or `continue` leaves a decorator, and its deferred statements hold no
jump.

The run `control` has two sorts of program.  One has all statements, with the four
clauses quiet, depth 8 and two deferred statements per function; it is what shows
`NothingRunsPastJump`, `BreakIsInnermost`, `ReturnStands` and `DeferredInReverse`.
In the other decorators are free to break what they like, to depth 10 on the
statements it takes.  `CallerUntouched` is checked of both: a call changes nothing
below it, and the code around an annotation is told `break` or `continue` by a
decorator but never `return`.

Depth 8 is a loop in a function in a loop, each with its lists and one frame
more (a try, an if or a switch) at any place, which is what it takes for a
flag to skip a frame that should have kept it.  Every loop may run any number
of times.

The model shows that a `catch` that throws skips `finally` (`stmt-executor.cc:674`,
against the comment at `:681`).  With a clause of `Quiet` open it shows as
well that a loop that breaks in a `finally` clause cancels the `return` under
way (against `ReturnStands`), that a later matching case of a `switch` runs
after `return` or `break`, that a stray `break` of a decorator lets the annotation
go on in a block that was told to stop (against `NothingRunsPastJump`), that a
class in a finally clause cancels the `return` under way with its `set_stop(kGo)`
(why `ReturnStands` excepts what has a class above it), and that a `defer` inside
a deferred block makes that block run again; and it shows always
that the object thrown inside a function is lost at the call, where
`FuncCallExecutor` throws an error of its own.

`ControlProofs.tla` proves all five for any depth of nesting and any bound on
deferred statements; the induction is over steps, and a property of all frames
is proved frame by frame.

- `TypeCorrect` and `CallsAreClosed` (`CallerUntouched`) speak of every program of
  the model's statements, stray breaks included.
- `DefersReverse` speaks of programs in which no deferred statement defers another,
  `"defer" \in Quiet`: the block that does runs again, as said above.  Its invariant is
  `DeferStack`: what is left of the stack is a prefix of what was deferred.
- `JumpsLeave`, `LoopsTakeBreaks` and `ReturnsStand` speak of programs that are
  `Confined`: with each of its three clauses the model shows one or another of
  them false.

What a behaviour begins with it keeps, so `Confined => Inductive` is the invariant
of the last three.  `Inductive` is `TypeOK /\ Flow /\ Taken /\
QuietClauses /\ Declarations`.  `NothingRunsPastJump` speaks of what runs now; what
is preserved is that *every* frame that can still start a statement, or go on with
an exception it saved, stands on frames of the same function that can (`Flow`), and
that a loop has taken every break and continue of what it holds (`Taken`).
Both except what a finally clause covers, or a deferred statement of a decorator,
which needs `QuietClauses`: no flag lives above one, and no exception above a
finally clause.  `Declarations` says that a declaration stands in no such clause
and has only its decorator above it, so that a class, which is told to return by
its decorator and then goes on, resets what that `return` reached and nothing
else.  How far a jump reaches is the recursive function `Reaches` over the stack;
`ReachesIsReached` proves its closed form (a frame is reached if every frame above
it passes the flag on), and the rest of the proof uses that.
### Symbol tables and functions

`Scopes.tla` models the stack of symbol tables each `FuncDeclObject` owns.
Tables are `shared_ptr`s, so `tables` is a heap of them and `stack[f]` the
addresses on the stack of function `f` (0 stands for the code of the script).
A declared function starts from an empty stack, a lambda from a copy of the
stack it is made on; all activations of a function push on the one stack.
`posFunc` is `pos_func_table_`, counted from 1, and stays what it is when a
table is popped, as in the code.  `Call`, `Leave`, `Return`, `End` and `Throw`
are `FuncDeclObject::Call` with the scope guards it runs through; `Assign` is
`AssignIdentifier` with `LookupFuncRef` (`FuncRef`) or `Lookup` (`RootRef`).
`InsertEntry` is what a declaration of a function, class or interface and the
variable of a `catch` do, `SetEntry` what an import does, both on the innermost
table without a search; `Remove` is `del` of a name, which searches the whole
stack.  A `Return` leaves its value in the entry `%return` of every function's
table on the stack (`SetReturn`) and goes on: what the model then lets the activation
do is what finally clauses may do, and `End` reads the value back (`Returned`).
Two fields and a variable are ghosts: `given` of a table names what came there by
other means than an assignment, `gave` of an activation is what its last return
gave, until code that has one of its tables returned too (`Noted`), and `around`
remembers in which activations a lambda was made.  The tables of classes and the
copies a deferred statement makes of its tables are left out.

The run `scopes` has one name, two values, a declared function with a parameter
of that name, one lambda, three calls and four tables: enough for a recursive
call that came back, followed by a lambda, or an assignment, that meets the stale
`posFunc`; for a recursion in which an inner call deletes its own variable; and for a
lambda that is called between a return and the end of the function it was made in.
Tables that are on no stack (the code has freed them) and `result`, which nothing
reads, are hidden by the view `Live`; values may be exchanged (symmetry).

- `AssignmentsAreLocal`: who may change whose variables, declarations, catches and
  imports included.  It survives the stale position because that only ever is too
  large.  A `del` may reach any table of the stack and the script's variables; all
  that is true of it is that it takes one entry away and changes none.
- `ReadsItsWrites` needs `FreshPos`: after a nested call of the function has
  returned, an assignment to its own parameter may go to a global of that name
  or to a new variable of the block, and the next read still finds the
  parameter.  And it exempts a global `x` (`Ref(x) = 0`) while an outer call of the
  function has been given `x` (`OuterHasGiven`), by a catch for instance: the
  assignment goes to the global and the read finds the outer call's variable.  That
  the outer call has it from an assignment cannot be, which is what is checked.  No text
  of the repository says otherwise of these cases.
- `ReturnIsHeard`: at the end of a call, what the activation last returned, whatever
  blocks were closed, functions called and exceptions caught in between.  A return
  of a lambda made in the activation, or of another call of the same function,
  overwrites it, so the ghost forgets the value then: `func f() { var l = func() {
  return 2 }; try { return 1 } finally { l() } }` gives 2.
- `Inductive` is the types and how tables, stacks and activations fit each
  other; it is checked because the proofs rest on it.

`ScopesProofs.tla` proves `Inductive` and `OwnTables` invariants, and the three
action properties, without the bounds of the run.  The strengthening has
six parts: `Active` (each activation's table is on its function's stack, and
ids and bases grow with the calls), `PosAhead` (the stale position is never
below the base of an activation that still runs), `Layers` (what lies on a stack
below the base of an activation was made by earlier ones, so that popping one
never strands a table of it), `Captured` (what a lambda copied above the
position it copied belongs to `around`), `Rooted` (at an activation's base is the
table of its function, and in that what it gave) and `Unshadowed` (a table of a
declared function holds no name that is global, but for what it was given).  Each
action has a lemma for the shape
of the stacks and one for the types, and those that change one entry share
`TableChangedInductive` and `MainChangedInductive`; `PosReach` and `RefReach` say where an
assignment can land.  `LastIsLast`, that a set of positions has a greatest
element, comes from the well-foundedness of `<` with the set of counterexamples,
because induction over an operator is out of the provers' reach.

`ReturnsAreHeard` needs `Rooted`: the function's own table is marked with what it gave,
and it is the last one the look-up for `%return` meets; `ReturnInductive` shows that no
other return reaches that table without the ghost knowing.  `OwnWritesAreRead` needs both: a
name that goes to the main table is in no table of the stack but where an outer call was
given it (`MainUnheld`), and
one that goes to a table of the stack is in none above it (`WrittenLast`).

The model shows that a function without `return` gives what a lambda in it, or a
nested call of itself, returned (against `src/docs/docs/lang-basics.md:434`).

### Arguments

`Arguments.tla` models how a function's parameters are declared
(`FuncObjAux`) and the arguments of its calls bound (`ArgumentsExecutor`, the
four `Handle*Arguments`, `FuncWrapperObject::Call`).  A parameter is named by its
place in the declaration, an argument's value is its place in the call, so that
one sees which argument went where.  A call is one action; what a refused call
has bound already is not kept, because its table is popped.  `default_values_` is
state: `GetDefaultParam` adds entries to it.  `Missing` is the null object such an
entry holds.  `undefined` is the write past the end of `params_fill`.  The sizes
are `size_t`, which `SizeT` stands for.

The run `arguments` takes every declaration of up to three parameters that is
accepted, as a function and as a method, and every list of up to three arguments
out of values, keywords (one of which names no parameter) and two maps, and
calls repeatedly.  Three of each are enough for a parameter in front of, at and
after each special one, and for a positional argument, a keyword and a duplicate.

- `GivenIsBound`, `CompleteIsAccepted`: for declarations where `**` is last and
  no default parameter goes with a variadic one (`Sound`), and calls of methods
  without keywords.  Outside of that arguments do get lost: defaults overwrite
  what was given, and the wrapper of a method drops keywords.
- `DefaultsStay`, `MissingIsRefused`: calls do not change what later calls mean,
  as far as that is so: a call by keyword that leaves out a parameter without
  default is accepted, and from then on others that leave it out are too.

A test expects a default parameter in front of a variadic one to keep its
default (`kwargs_variadic.sh:46`); the code gives it a positional argument
(`objects/func-object.cc:313`), which the condition `Sound` leaves out.

`ArgumentsProofs.tla` proves all four, for any number of parameters and
arguments and without further hypotheses; that a `size_t` counts further than
`MaxParams + MaxItems + 1` is the assumption on the constants.  The inductive
invariant is `Known`: the names are those of the declaration (`Shaped`), and
`default_values_` holds every default, with null objects added only for
parameters that take one argument (`DefaultsKnown`).  The last part is why
`Required`, a difference of two unsigned sizes, does not wrap around: there are
never more entries than parameters.  `Straight` says what `Sound` means for a
declaration (the parameters that take one argument come first, and so parameter *i*
has index *i*), `RequiredIs` how many arguments are needed, `AcceptedPlain` and
`AcceptedVariadic` what the four handlers let through, and there is one lemma per
property for the step of a call.

Names and positional arguments are pushed on a vector in the order they are met:
`InOrder`, the ascending sequence of a set of numbers.  That there is one
(`AllSortable`) is proved by the smallest counterexample, from the
well-foundedness of `<`, as `ScopesProofs` does.
### Pipeline

`Pipeline.tla` models how a command line becomes a `Job` (`PrepareData`,
`PopulateCmd`, `AddCommand`), how `LaunchJob` and `SetUpFilesDescriptor` connect
its processes, and how `$(...)` reads them (`ReadPipe`).  The shell is one
actor; each process another.  `fds` is the descriptor table of each, by number:
the lowest free number is given out, a child has a copy of the shell's table,
and a pipe ends when no table holds its write end.  So the closes in the code
matter one by one.  `loop` holds the locals of `LaunchJob`; `mypipe[0]` is not
initialised, and `Garbage` is what it may hold when a job of one process closes
it.  The processes are five kinds of programs that write, copy, stop early,
fail, or do not start; a write to a full pipe blocks or, where `SetFdAsync` set
`O_NONBLOCK`, fails.  A unit of data carries the numbers of the line and the
command that wrote it.  Waiting is a step for each child `waitpid` gives, any
child of the shell: one that is not of the job ends the wait
(`MarkProcessStatus`), and one that ended while SIGCHLD was ignored is not given.
Signals and process groups are `JobControl`'s; `fork` and `pipe` do not fail here.

The run `pipeline` takes 30 command lines, each followed by one of three others
that meet what it left open or still runs.  A pipe holds one unit, which is
enough for it to be full and empty; `gen` writes two, so that it overflows; the
longest job has three processes.  Tables and pipes are larger than what two
lines use.  `Garbage` is 0 (an untouched stack) and 3 (the first number `pipe`
and `open` give out).

- `OneWriter` and `JobEnds`: the end of a pipe reaches its reader, and the shell
  comes back.  `JobEnds` is under weak fairness of the shell and of every process:
  both are scheduled by the kernel, and the programs of the model do finite
  work.  One wait may last for ever (`WaitsForStrangers`): a process of the job
  ended while SIGCHLD was ignored, so the shell waits for all its children, and
  one of an earlier line never ends.  The run has such a line (a background `gen`
  nobody reads).  It is for jobs whose commands are read to their end: a process holds a
  read end of the pipe it writes to, so `gen | head` blocks for ever once the
  pipe is full, which the model shows.
- `NothingKept`: the shell closes the pipes of its jobs and captures, unless an
  exception passes through; then all four ends of a capture stay open.
- `OutputArrives`: what a line means (`Meant`) is what arrives, in order, in a
  file, on stdout or in the value of `$(...)`: at no time anything else, and all
  of it once the job is over or the capture is read.  It also says when the shell
  goes on before that: only on a terminal, after `&` or `$(...)`, or when a child
  of an earlier line was left.  A capture may lose the end of
  what does not fit the pipe, since its write end does not block.  Output
  redirections in front of a pipe are left out: `PopulateCmd` adds such a command
  twice, and its redirection goes to the last command of the line
  (`samples/language/14-io.sh:29` has such a line).

A stray close of the uninitialised `mypipe[0]` is recorded in `odd.stray`.  The
properties that fail after it say so: it may close the pipe a capture is about
to read, and, in `cat < file`, the shell's stdin.

On a terminal a capture does not wait, and `status()` of every captured command
is 0 (`cmd-exec.cc:609`, against `src/README.md:175` and
`src/test/interpreter/cmds/status.sh:33`).  The text it wrote to stderr is
dropped as well (`ExecCmdExpr`).

`PipelineProofs.tla` proves `OneWriter` and `NothingKept` for any lines, any
size of pipes, texts and jobs, and any tables.  Descriptors and pipes run out in
the code as well, but what it does then is not modelled: a step that finds no
number, no pipe or no process left does not happen, so the bounds
`MaxFd`, `MaxPipes` and `MaxPids` are guards, and the run never reaches them.

The code compares numbers, so the proof is about numbers.  `Inductive` says which
ones the shell may close: never 1 and 2, and 0 only after a stray close
(`KeptOpen`), because the job's descriptors are open (`JobIsOpen`) when `LaunchJob` begins and
so a number it gets from `pipe` is neither one of them nor one of the
shell's (`LoopCloses`, `Own`); those of a capture are its own (`CaptureCloses`).
From that follow the two facts the properties need: `WriterAlone` with
`ShellLetsGo` (a child is given the write end of its own pipe, and the shell holds
it only between that fork and the close behind it, so no later child has a copy),
and `WritesHeld` with `ReadsHeld` (every end in the shell's table has a name in `cap` or
`loop` that some step closes).  Neither is inductive without the numbers: if
`loop.outfile` could equal `job.stdout`, `LaunchJob` would not close it.

Two hypotheses are needed, and both are what the code leaves open.

- `BuiltinsKeepNumbers`: no line is a lone builtin with a `>&` or `<&`.  `cd 2>&1`
  makes `LaunchInternalCmd` close the shell's 1; the next pipe is given
  that number, and a job whose `stdout_` is 1 never closes it.
- `GarbageIsNoOutput`: the uninitialised `mypipe[0]` is not 1 or 2, the same effect by
  the stray close.  `NothingIsKept` does not need it, since `NothingKept` ends at a
  stray close; `UntilAStrayClose` says what holds of `OneWriter` without it.

`OutputArrives` stays with TLC: what a line means is a recursion over its
commands, and `JobEnds` is liveness.

### Parser and prompt

`Ast.tla` has an operator for each node class, `Parser.tla` one for each
function of the recursive descent, with its name, over tokens that are kinds;
a function returns the parser's state and its node.  What the code loses (a
list that ends early, a token another error replaced, a pointer moved from) the
model loses too.  `Prompt.tla` is the user, `Interpreter::ExecInterative` and
`Interpreter::Exec`: a step types one token; at each line end the pending text
is parsed and run, kept for more, or refused; next to it the whole text is
parsed as one script.

The run `prompt` types every text, up to 5 to 12 tokens, of 25 vocabularies, one
per part of the grammar.  A vocabulary has the tokens whose order a function
decides on, plus the brackets around them; its length is that of the shortest
text in which each optional part of the construct stands next to another.

- `PromptIsScript`: at the end of every line the shell has run the statements
  it would run of the same text as a script, if that text is a script.  So no
  line is refused that a later line makes right, none runs too early, and the
  prompt waits for more only where `ReturnWaits` says: `IsEndOfStmt`
  (`parser/parser.h:125`) knows newline, semicolon and brace, not the end of the
  text, so a `return` without a value waits for one line more.  The other
  exception is a `catch` or `finally` on a line of its own.
- `TreeIsWhole`: an accepted text is in its tree as a whole and the executor
  finds what it reads.  Two conditions, `ReadToEnd` and `ParensMatch`, name where
  the code drops text without an error: from a `}` that closes no block on
  (`parser/parser.cc:252` onwards), and after the command of `$(` (`:1990`).
- `BindsAsWritten`: operators take the operands their ranks say, those of one
  rank from the left.

The model shows more: a second default value in a list of parameters is lost; a
class may have any token after `abstract` or `final`; stacked decorators are
refused, though `src/test/interpreter/oop/decorator_stacked.sh:5` has them; an
annotation without a declaration leaves a null pointer; the expression of an
error is replaced by a literal that is no token (`parser/parser.cc:2065`).

### Lexer and words

`Lexer.tla` is `Lexer::Scanner`, a token per step and an action per case of its
switch.  A `while` of the code is `Loop` of a round (`WhileRound`, `StringRound`,
`WordRound`, `NumberRound`): a recursive function, so that it can be proved about, with
as many rounds as the text has characters; a round that reads nothing changes nothing,
and the proof shows that the last one always is such a round.  `Literals.tla` has the
two scanners that look into strings, `ParserLiteralString::Scanner` and `ExtractExpr`.  `Words.tla` goes on to the
arguments of a process: the pieces of `ParserSimpleCmd` and the joining of
`SimpleCmdExecutor::Exec`, in which what `glob(3)` finds and what a variable
holds are the constants `Globbed` and `Value`.

The run `words` reads every text of up to 4 to 6 characters of eight alphabets,
one per group of cases of the switch that look at the same characters, and
every command of up to five pieces after its name, with and without blanks.
Four is the longest look-ahead of the lexer, and a string with an expression in
it that has a string in it needs six.

- `TokensAreTheText`: the tokens are the text, all of it, with their places.
  Codes of digits (`\033`, `\u00e9`) move the place, because `Back` moves the cursor
  but not the line and column (`parser/lexer.h:100`): for such texts only the
  characters are claimed.
- `PartsAreTheString`: the parts of a string, put together again, are the string,
  and a string whose braces match is never an error; nothing would catch it.  A
  string with quotes of two kinds in an expression is the exception the property
  names.
- `WordsAsWritten`: the arguments are the words, split at blanks and nowhere
  else, with the values in them neither split nor globbed, unless a part of the
  word outside of quotes says so.

`LexerProofs.tla` proves `TokensAreTheText` for every set of texts, of any length and
over any characters (`TextAssumption`: a text is not empty, because the constructor
reads its first character without asking, and holds no byte that the scanner takes
for the end).  The invariant `IInv` says, beside the types:

- `Reading(r)`: the character in the cursor is the one the text has there, or the end
  is reached, and, unless the text has a code that moves the cursor back, line and
  column are those of the place.  `TokensAreTheText` speaks of tokens only and is not
  inductive: the next token is as good as the cursor it starts at.
- `Ordered`: tokens do not meet each other, nor what is still to be read (`Pos(r)`).
- every token is `Sound`: the longest its first character can begin, and `Located`.
- every character before the cursor is `Covered`; at the end that is all of them.

The lemmas go from the bottom up.  `Advance` keeps a cursor on the text and reads one
character (`AdvanceReads`).  A loop whose rounds never leave a set, and read on unless
they change nothing, ends at a round that changes nothing, within the rounds `Loop`
gives it: the first round (there is one, by the library's well-founded order on
numbers) that neither read on nor was the end contradicts the round before it.  So `While`, `ScanString`, `ScanWord` and `ScanNumber`
stop at a character that stops them, with what they read between (`WhileReads` and its
like); an escape code that goes one back never goes behind where it started.  Then one
lemma per case of the switch says that its token is sound and its cursor is after the
token, and `NextKeeps` puts them together.  `Told` is the set of characters a token's
value may hold: those of the text and those an escape stands for.

### Containers and strings

`Values.tla` is the heap of objects and what they answer (`ObjBool`, `Equal`,
`operator==`, `Hash`, `PassVar`), `Texts.tla` the methods of strings on
sequences of characters, `Slices.tla` the arithmetic of indices, and
`Methods.tla` every method of arrays, tuples, maps and strings that calls no
function of the script.  `Containers.tla` composes them with a script: `for`,
`for_each`, `map`, `filter` and both forms of `sort` give control back to the
script between two elements (`frames`), and any statement may come then, on the
same container too.  An operation ends with a result, an exception, or the
process: `crash` (an empty pointer), `undefined` (outside the container, a
negative shift), `hang` (more than `Rounds` rounds).

The run `containers` has five scripts of two or three statements: arrays, the
loops over them, maps with keys that meet in one bucket (1 and true have one
hash), maps that change, and strings changed in place.  Three elements give a
first, a middle and a last one; two statements are an iteration and what
disturbs it; three let it be disturbed twice, or the result be used.

- `KeysFound`: a map whose keys nobody changed has each key once and finds the
  first of each bucket.  The second one of a bucket is there for `exists` and
  `in`, but reading it throws (`objects/map-object.cc:213`).
- `ElementsKept`: nothing is lost or left empty, as long as nobody else changed
  the container.
- `EveryElementOnce`: a loop or method shows the elements of a container nobody
  else changed in order, never more than there are, and all when it ends.  Of one
  that another statement changed it says nothing: a `for` over an array that
  became shorter than its place never ends (`Rounds` cuts it).
- `OnlyTheUnguarded`: the process ends only by the uses that `Unguarded` lists,
  each of which is a missing check of the code: `del a[i]` with an index outside,
  `extend` with itself, a slice with step 0, `at` outside, `clear` and `update`
  of a map, and a function that changes the container it is called for.  A `filter`
  counts as such a change even when it keeps every element: `set_value` gives the
  container another buffer or other buckets (`objects/array-object.h:175`,
  `objects/map-object.cc:430`), so that a sort, filter or loop that stands in it
  (`moved`), and an iterator of a map made before (`Stale`), may do anything from then on.
  The pairs it keeps come in an order of their own, as the buckets of a new key do.
  (An iterator survives a key added to its map: those of libstdc++ are pointers
  to nodes, which a rehash links anew.  The loop is then not `clean`, and excused.)

`SlicesProofs.tla` proves, for every size, bound and step, that a slice is
inside its container (`SliceInside`), that an index that passes the check is
(`ElementInside`) and that it means what the documentation says
(`ElementIsPython`).  They are lemmas on operators, free of any state, and rest
on linear arithmetic alone.

### Classes

`Classes.tla` models declarations of classes and interfaces, decorators,
constructors, the search for attributes, calls through wrappers, `instanceof`,
assignment to fields and `del`.  A class has a table on the stack of its scope;
an object has copies of these tables (`snap`), a table of its own, and a weak
pointer to the class, found by name when it is made.  A statement on names and
objects is one action: the code under it calls no other statement but the
bodies of methods, which are `Shapes`, a field they set and what they return.
Functions and interfaces are declared in one step too.  A class is not: it
begins (`DeclareClass`, or `ExecInner` for one within another), runs member by
member (`ExecMember`), and ends with the check of its interfaces and its name
(`CloseClass`).  `open` is the stack of the classes on their way, and what is
thrown in any of them (`Thrown`) leaves none of them.  `Declarations` has every
declaration a script may hold, the nested ones included.

The run `classes` has four scripts, of up to seven declarations and statements
in every order: a family of two classes whose names are deleted, bound again
and redeclared; nested classes of the names of others; interfaces with one or
two parents; and decorators that keep, wrap, replace or throw.  A built-in
function is a shape too (`builtin`): a `FuncObject` that is no `FuncDeclObject`.

- `KeepsItsClass`: an object is of the class it was made with, unless the class
  is `Astray`: a member of it has its name, or the name was assigned or deleted
  where it was declared.
- `InterfacesKept`: a class keeps what the interfaces of its own list, and those
  they extend, promise, once its declaration has ended and as long as no
  attribute on its line was assigned; `instanceof` tells of those and of its
  bases'.  Nothing makes a class keep what its bases' interfaces promise:
  `CheckInterfaceCompatibility` (`objects/decl-class-object.cc:183`) looks at the
  class's own list, so that a class which overrides a promised method with other
  parameters still is, for `instanceof`, of the interface.
  Of a list of two interfaces only the first is asked (`objects/obj-type.cc:375`),
  so that for such classes the property only claims that nothing too much is said.
- `ObjectsKeep`: what an object answers does not change behind its back.
- `OnlyTheUnguarded`: the process ends only for a class that is `Astray`, for a
  wrapped method or a built-in function where an object looks first (its fields,
  its copies, the main table) under a name the script asks of objects or
  `__call__`, which `DeclClassObject::Attr` casts to a declared function
  (`objects/decl-class-object.cc:285`: `o.cb = print`, then `o.cb(1)`; `show = print`, then
  `o.show`, since the main table is on every object's stack; the table of the system, where `print`
  itself is, is not), and for `+=` on a missing field.

`ClassesProofs.tla` proves all four, for every set of sessions, declarations
and shapes, from `ShapesAssumption`, `DeclarationsAssumption` and
`SessionsAssumption`, which only say what form these have.  None of them is
inductive: that the lookup of a class's name leads back to it depends on every table
on its stack, and what those hold on how they were filled.  `IInv` is

- `TypeOK`;
- `Formed`: the line of a type is itself and its base's line, its stack begins
  with itself, bases, outer classes and interfaces come before what uses them,
  and an interface has the methods of those it extends;
- `Opened`: the classes on their way stand in each other, the latest innermost;
- `MainFits`, `TablesFit`, `ObjectsFit`: every value anywhere leads to a
  function, an object that is there, an interface, or a class whose declaration
  has ended and to which its name leads unless it was assigned or deleted
  (`Named`); in the main program and in objects only to what was there before the outermost class on
  its way (`Settled`), because an exception may take the rest away again;
- `AllMade`: an object was made by a class that is not abstract and, unless
  this is `Astray`, is of it and, when the class is nested, has a copy of the table
  that holds the class under its name;
- `AllFulfil`: a class whose declaration has ended passes
  `CheckInterfaceCompatibility`, unless an attribute on its line was assigned;
- `OnlyTheUnguarded` itself.

TLC checked `IInv` on the run before it was proved.  The argument: each action
has a lemma that it keeps `IInv` (`...Keeps`), which rest on what lookup, calls
and constructors give (values that fit); `LeftIs` and `ReachIs` unfold the two
recursive functions, and `AliveKeeps` says that what is held by what is alive is
alive, so that an object's class cannot expire before it.  An
induction over bases or over what `instanceof` reaches is done as a smallest
counterexample (`Least`).  `AnswersStay` is what `ObjectsKeep` needs: tables of
objects change in `own` only.

The attempt corrected three statements, which the scripts of the run happened
not to refute.  `OnlyTheUnguarded` had to name functions of the main table: the
stack of an object ends there, and what it finds is cast (`ObjectAttr`).
A class may lose its name to a member of itself, not only to an assignment
(`Astray`).  And while a class is declared its members can already see it as an
outer class, so that `InterfacesKept` only speaks of those that are complete.

The model shows more: abstract methods are never registered, so that a class
need not have them; a declaration under a name that is taken does nothing, and
decorating it decorates and then removes the old value; an annotated inner class
always throws; `FuncWrapperObject::Call` drops keyword arguments; a static
method called through an object gets `this` when it is the class's own, against
the comment at `objects/decl-class-object.cc:308`; `TypeObject::operator==`
compares names.

### Expressions and assignments

`Expressions.tla` models `ExpressionExecutor`, the executors of lists, calls,
groups of strings and comprehensions, and `AssignExecutor`, over the objects of
`Values` and `Methods`.  A statement is one action, because nothing runs between
its parts but what it calls itself; inside, `Eval` threads the state (`heap`,
the tables, `pass_ref_`, the functions called) through the parts in the order
the code evaluates them, and an exception leaves what was done so far.  A
comprehension is mounted to `for` and `if` statements as `MountBlock` does, in
the tables of the code and around the shared name `%list_comp_val`.

The reference, `Meant`, says what an expression of values means, without
objects, copies, tables or flags, and which functions are called in which order.
It is silent where the documentation says nothing.

The run `expressions` has four scripts: about 1,000 right-hand sides, with
operators of two and three operands that throw, call and settle; assignments to
several targets, elements, attributes and with operators; up to four statements
that copy one text around; and comprehensions in comprehensions.

- `MeansWhatItSays`: an assignment to names gives them what is meant, calls
  what is meant, or throws and changes no name.
- `ScalarsAreOwn`: a text, number or bool with a name has no other owner.
  `Shares` lists the statements by which the code does share one: a spread or
  unpacked container, a method's result, the key in an index assignment, `let`,
  an element reached by an index that ends with an attribute (`pass_ref_` stays
  set, `interpreter/expr-executor.cc:327`), and a loop variable of a
  comprehension that is an outer name.

The model shows more.  `&&` and `||` evaluate the right side for every left
operand that is no bool (`expr-executor.cc:484`, against the comment at `:441`).
`!x` evaluates its operand twice; `%` by zero ends the process, `>>` shifts to
the left (`objects/simple-object.h:253`); a compound assignment to a name that
is nowhere calls a method of an empty pointer (`assign-executor.cc:136`).  A
comprehension that runs a second time, in a function or inside another one,
finds its parts moved away and ends the process; one over another one walks the
list it appends to; the loop variable overwrites an outer name; `let x = 4, 6`
assigns and then throws.


## Which hazards no property covers

`PROJECT.json` lists the hazards that matter most.  Others, which the models
show or the reading found, and which no property watches: a child may read the
terminal before its group owns it (`cmd-exec.cc:169`); processes of a pipeline
clear the shared error concurrently (`:246`); the status of a builtin is dropped
(`:500`), and `cd 2>&1` closes the shell's output (`:506`); a deferred statement
that throws ends the process (`interpreter/scope-executor.cc:44`); what a
function throws reaches the caller without its object
(`interpreter/expr-executor.cc:788`); the text of `<<` is written before anything
can read it, and its descriptors stay open (`interpreter/cmd-executor.cc:537`,
`:557`); a builtin in a pipeline writes to stored descriptors
(`modules/std-cmds.cc:43`).

## Plan

Done: job control, control flow, symbol tables, arguments, pipelines, the parser
and the prompt, lexer and words, containers, classes, expressions; the proofs of
`Classes` and `Lexer`, whose recursion is in recursive functions.

To do, in this order:

1. The methods of `Values` and `Containers` with recursive functions for recursive
   operators, so that something can be proved of them (`KeysFound`, `ElementsKept`).
2. Import and its cache; the copies made for deferred statements.
3. `&&` and `||` in a capture; builtins in a pipeline.

Proved: every invariant and action property that the runs of `JobControl`,
`Control`, `Scopes`, `Arguments`, `Pipeline` and `Classes` check, but for `OutputArrives`
and the liveness ones; `TokensAreTheText` of `Lexer`; the refinement of `JobPromise`;
and the arithmetic of `Slices`.  That is 40 theorems in eight modules.

Only model-checked:

- `JobReturns` and `JobEnds`, which are liveness; no prover here knows fairness.
- `OutputArrives`: what a line means is a recursion over its commands, and what a recursive
  definition computes for every input is out of the provers' reach.
- All properties of `Parser`, `Prompt`, `Literals`, `Words`, `Containers` and
  `Expressions`: these modules, or ones they use, have RECURSIVE operators, which the
  provers' translation does not take.

## What is not modelled

The debug printer, messages and their formatting, the wrappers of the C++
library (files, paths, regular expressions, globs), the conversion of file
sizes, comparisons and divisions of reals, the environment and `sys` modules,
import, alias and `varenv`, and the build.
