------------------------------- MODULE Scopes -------------------------------
(***************************************************************************)
(* Symbol tables and function calls                                        *)
(* (src/src/interpreter/symbol-table.*, objects/func-object.cc).           *)
(*                                                                         *)
(* A FuncDeclObject owns one SymbolTableStack, which all its activations   *)
(* push their tables on: that of a declared function is empty at first,    *)
(* that of a lambda a copy of the stack it was made on, whose tables are   *)
(* shared by pointer.  So tables live in a heap, and stacks hold their     *)
(* addresses.  Which statements a function has is left open: what runs may *)
(* at any time open a block, assign, declare, catch, import, delete, make  *)
(* a lambda, call, return, throw or end.  What runs after a return are the *)
(* finally clauses of the try statements around it.                        *)
(***************************************************************************)
EXTENDS Integers, Sequences, FiniteSets

CONSTANTS
  Names,       \* variables
  Values,      \* what they hold
  Decls,       \* functions declared with func f() {...}
  HasParam,    \* those of them that take a parameter, called Param
  Param,
  MaxCalls,    \* bound: calls in a behaviour
  MaxLambdas,  \* bound: lambdas made in a behaviour
  MaxTables    \* bound: tables made in a behaviour

Lambdas == 1..MaxLambdas
Absent == "absent"
Null == "null"

ASSUME DeclsAssumption == HasParam \subseteq Decls /\ Decls \cap (Lambdas \cup {0}) = {}
ASSUME NamesAssumption == Param \in Names /\ {Absent, Null} \cap Values = {}
ASSUME BoundsAssumption == MaxCalls \in Nat /\ MaxLambdas \in Nat /\ MaxTables \in Nat

(* Who owns a stack: a function or, as 0, the code of the script itself.   *)
Funcs == Decls \cup Lambdas \cup {0}

VARIABLES
  tables,  \* the heap: of each table its kind, the activation it was made in,
           \* the symbols, those of them that no assignment made (given) and,
           \* in a function's table, the entry %return
  stack,   \* the tables of each function, the innermost last
  posFunc, \* pos_func_table_ of each stack, counted from 1; 0 is none
  main,    \* the main table
  calls,   \* the activations, the running one last; gave is what its last return
           \* gave, as long as no other code returned that has a table of it (a ghost)
  born,    \* how many calls there were
  lambdas, \* how many lambdas were made
  around,  \* of each lambda, what Reach was where it was made (a ghost)
  result   \* what the call that was just left gave

vars == <<tables, stack, posFunc, main, calls, born, lambdas, around, result>>

Nothing == [x \in Names |-> Absent]
Table(kind, symbols) ==
  [kind |-> kind, owner |-> calls[Len(calls)].id, symbols |-> symbols, given |-> {},
   ret |-> Absent]

Running == calls[Len(calls)]
Here == stack[Running.fn]
Top == Here[Len(Here)]
Activations(f) == {calls[i].id : i \in {j \in DOMAIN calls : calls[j].fn = f}}
InLambda == Running.fn \in Lambdas

(* The activations whose variables the running code may modify.            *)
Reach ==
  {Running.id} \cup IF InLambda THEN around[Running.fn] \cup Activations(Running.fn) ELSE {}

(* The activation that made the p-th table of f's stack.                   *)
Owner(f, p) == tables[stack[f][p]].owner

Init ==
  /\ tables = <<>>
  /\ stack = [f \in Funcs |-> <<>>]
  /\ posFunc = [f \in Funcs |-> 0]
  /\ main = [x \in Names |-> [value |-> Absent, global |-> FALSE]]
  /\ calls = <<[id |-> 0, fn |-> 0, base |-> 1, gave |-> Absent]>>
  /\ born = 0
  /\ lambdas = 0
  /\ around = [l \in Lambdas |-> {}]
  /\ result = Absent

-----------------------------------------------------------------------------
(* Looking a name up.                                                      *)

Last(S) == CHOOSE i \in S : \A j \in S : j <= i
Holders(x, bottom) ==
  {i \in DOMAIN Here : i >= bottom /\ tables[Here[i]].symbols[x] # Absent}

(* SymbolTableStack::Lookup: what a read of x gives.                       *)
Lookup(x) ==
  IF Holders(x, 1) # {} THEN tables[Here[Last(Holders(x, 1))]].symbols[x]
  ELSE main[x].value

\* Mutant: the search does not stop at the function's table.
FuncRefWholeStack(x) ==
  IF Holders(x, 1) # {} THEN Here[Last(Holders(x, 1))]
  ELSE IF main[x].value # Absent /\ main[x].global THEN 0
  ELSE Here[Len(Here)]

\* Mutant: the globals come first.
FuncRefGlobalFirst(x) ==
  IF main[x].value # Absent /\ main[x].global THEN 0
  ELSE IF Holders(x, posFunc[Running.fn]) # {}
  THEN Here[Last(Holders(x, posFunc[Running.fn]))]
  ELSE Here[Len(Here)]

(* Where an assignment in a function goes: LookupFuncRef.  0 is the main   *)
(* table.                                                                  *)
FuncRef(x) ==
  IF Holders(x, posFunc[Running.fn]) # {}
  THEN Here[Last(Holders(x, posFunc[Running.fn]))]
  ELSE IF main[x].value # Absent /\ main[x].global THEN 0
  ELSE Here[Len(Here)]

(* Where it goes outside of functions, and in a lambda made there.         *)
RootRef(x) ==
  IF Holders(x, 1) # {} THEN Here[Last(Holders(x, 1))]
  ELSE IF main[x].value # Absent \/ Here = <<>> THEN 0
  ELSE Here[Len(Here)]

Ref(x) == IF posFunc[Running.fn] > 0 THEN FuncRef(x) ELSE RootRef(x)

-----------------------------------------------------------------------------
(* What runs.                                                              *)

(* AssignIdentifier; "global x = v" is refused outside of the root scope   *)
(* and only marks a name that is new.                                      *)
Assign(x, v, global) ==
  /\ global => Running.fn = 0 /\ Here = <<>>
  /\ IF Ref(x) = 0
     THEN /\ main' = [main EXCEPT ![x] =
               [value |-> v,
                global |-> IF main[x].value = Absent THEN global ELSE main[x].global]]
          /\ UNCHANGED tables
     ELSE /\ tables' = [tables EXCEPT ![Ref(x)] =
               [@ EXCEPT !.symbols = [tables[Ref(x)].symbols EXCEPT ![x] = v]]]
          /\ UNCHANGED main
  /\ result' = Absent
  /\ UNCHANGED <<stack, posFunc, calls, born, lambdas, around>>

\* x put in the table t without a search.
Given(t, x, v) ==
  [tables EXCEPT ![t] =
    [@ EXCEPT !.symbols = [tables[t].symbols EXCEPT ![x] = v],
              !.given = tables[t].given \cup {x}]]

(* InsertEntry: the declaration of a function, class or interface, and the *)
(* variable of a catch, make a global entry in the innermost table, unless *)
(* that has one.                                                           *)
InsertEntry(x, v) ==
  /\ IF Here = <<>>
     THEN /\ main[x].value = Absent
          /\ main' = [main EXCEPT ![x] = [value |-> v, global |-> TRUE]]
          /\ UNCHANGED tables
     ELSE /\ tables[Top].symbols[x] = Absent
          /\ tables' = Given(Top, x, v)
          /\ UNCHANGED main
  /\ result' = Absent
  /\ UNCHANGED <<stack, posFunc, calls, born, lambdas, around>>

(* SetEntry: an import makes or changes an entry in the innermost table.   *)
SetEntry(x, v) ==
  /\ IF Here = <<>>
     THEN /\ main' = [main EXCEPT ![x] =
               [value |-> v, global |-> main[x].value # Absent /\ main[x].global]]
          /\ UNCHANGED tables
     ELSE tables' = Given(Top, x, v) /\ UNCHANGED main
  /\ result' = Absent
  /\ UNCHANGED <<stack, posFunc, calls, born, lambdas, around>>

\* x taken out of the table t.
Taken(t, x) ==
  [tables EXCEPT ![t] =
    [@ EXCEPT !.symbols = [tables[t].symbols EXCEPT ![x] = Absent],
              !.given = tables[t].given \ {x}]]

(* DelId: the innermost entry of the whole stack, or that of the main      *)
(* table, is removed.                                                      *)
Remove(x) ==
  /\ IF Holders(x, 1) # {}
     THEN tables' = Taken(Here[Last(Holders(x, 1))], x) /\ UNCHANGED main
     ELSE /\ main[x].value # Absent
          /\ main' = [main EXCEPT ![x] = [value |-> Absent, global |-> FALSE]]
          /\ UNCHANGED tables
  /\ result' = Absent
  /\ UNCHANGED <<stack, posFunc, calls, born, lambdas, around>>

(* NewTable of the block of an if, a loop, a try or a switch.              *)
OpenBlock ==
  /\ Len(tables) < MaxTables
  /\ tables' = Append(tables, Table("scope", Nothing))
  /\ stack' = [stack EXCEPT ![Running.fn] = Append(Here, Len(tables) + 1)]
  /\ result' = Absent
  /\ UNCHANGED <<posFunc, main, calls, born, lambdas, around>>

InBlock ==
  IF Running.fn = 0 THEN Here # <<>> ELSE Len(Here) > Running.base

\* Mutant: a table is popped that is not a block's.
CloseBlockTwice ==
  /\ Here # <<>>
  /\ stack' = [stack EXCEPT ![Running.fn] = SubSeq(Here, 1, Len(Here) - 1)]
  /\ result' = Absent
  /\ UNCHANGED <<tables, posFunc, main, calls, born, lambdas, around>>

CloseBlock ==
  /\ InBlock
  /\ stack' = [stack EXCEPT ![Running.fn] = SubSeq(Here, 1, Len(Here) - 1)]
  /\ result' = Absent
  /\ UNCHANGED <<tables, posFunc, main, calls, born, lambdas, around>>

(* FuncDeclObject with lambda: the stack is copied, and a table put on it. *)
MakeLambda ==
  /\ lambdas < MaxLambdas /\ Len(tables) < MaxTables
  /\ LET l == lambdas + 1 IN
     /\ tables' = Append(tables, Table("scope", Nothing))
     /\ stack' = [stack EXCEPT ![l] = Append(Here, Len(tables) + 1)]
     /\ posFunc' = [posFunc EXCEPT ![l] = posFunc[Running.fn]]
     /\ around' = [around EXCEPT ![l] = Reach]
     /\ lambdas' = l
  /\ result' = Absent
  /\ UNCHANGED <<main, calls, born>>

(* Push: only the table of a declared function moves pos_func_table_.      *)
PosOfCall(f) == IF f \in Decls THEN Len(stack[f]) + 1 ELSE posFunc[f]

(* FuncDeclObject::Call, with the argument, if there is one, put in place  *)
(* by HandleArguments.                                                     *)
Call(f, v) ==
  /\ f \in Decls \cup 1..lambdas
  /\ born < MaxCalls /\ Len(tables) < MaxTables
  /\ tables' = Append(tables,
       [kind |-> IF f \in Decls THEN "func" ELSE "lambda", owner |-> born + 1, ret |-> Absent,
        symbols |-> IF f \in HasParam THEN [Nothing EXCEPT ![Param] = v] ELSE Nothing,
        given |-> IF f \in HasParam THEN {Param} ELSE {}])
  /\ stack' = [stack EXCEPT ![f] = Append(stack[f], Len(tables) + 1)]
  /\ posFunc' = [posFunc EXCEPT ![f] = PosOfCall(f)]
  /\ calls' = Append(calls, [id |-> born + 1, fn |-> f, base |-> Len(stack[f]) + 1,
                            gave |-> Absent])
  /\ born' = born + 1
  /\ result' = Absent
  /\ UNCHANGED <<main, lambdas, around>>

(* The blocks and the table of the function leave the stack;               *)
(* pos_func_table_ stays what it was.                                      *)
Leave ==
  /\ Running.fn # 0
  /\ stack' = [stack EXCEPT ![Running.fn] = SubSeq(Here, 1, Running.base - 1)]
  /\ calls' = SubSeq(calls, 1, Len(calls) - 1)
  /\ UNCHANGED <<posFunc, main, born, lambdas, around>>

\* Mutant: the tables of lambdas are not functions' tables.
SetReturnFuncOnly(v) ==
  [t \in DOMAIN tables |->
     IF tables[t].kind = "func" /\ \E i \in DOMAIN Here : Here[i] = t
     THEN [tables[t] EXCEPT !.ret = v] ELSE tables[t]]

(* SetEntryOnFunc("%return"): every table of a function on the stack.      *)
SetReturn(v) ==
  [t \in DOMAIN tables |->
     IF tables[t].kind # "scope" /\ \E i \in DOMAIN Here : Here[i] = t
     THEN [tables[t] EXCEPT !.ret = v] ELSE tables[t]]

(* LookupObj("%return") once the blocks are closed, in tables tab.         *)
Returned(tab) ==
  LET Marked == {i \in 1..Running.base : tab[Here[i]].ret # Absent} IN
  IF Marked = {} THEN Null ELSE tab[Here[Last(Marked)]].ret

(* A ghost: the activations after a return of v by the running one.        *)
HasTableOf(id) == \E p \in DOMAIN Here : Owner(Running.fn, p) = id
Noted(v) ==
  [i \in DOMAIN calls |->
     IF i = Len(calls) THEN [calls[i] EXCEPT !.gave = v]
     ELSE IF HasTableOf(calls[i].id) THEN [calls[i] EXCEPT !.gave = Absent] ELSE calls[i]]

(* A return statement: the blocks and clauses around it have yet to end.   *)
Return(v) ==
  /\ Running.fn # 0
  /\ tables' = SetReturn(v)
  /\ calls' = Noted(v)
  /\ result' = Absent
  /\ UNCHANGED <<stack, posFunc, main, born, lambdas, around>>

(* The end of the function, whether a return was executed or not.          *)
End ==
  /\ ~InBlock /\ Leave
  /\ result' = Returned(tables)
  /\ UNCHANGED tables

(* An exception leaves the function.                                       *)
Throw == Leave /\ result' = Absent /\ UNCHANGED tables

Next ==
  \/ \E x \in Names, v \in Values, global \in BOOLEAN : Assign(x, v, global)
  \/ \E x \in Names, v \in Values : InsertEntry(x, v) \/ SetEntry(x, v)
  \/ \E x \in Names : Remove(x)
  \/ OpenBlock \/ CloseBlock \/ MakeLambda
  \/ \E f \in Decls \cup Lambdas, v \in Values : Call(f, v)
  \/ \E v \in Values \cup {Null} : Return(v)
  \/ End \/ Throw

Spec == Init /\ [][Next]_vars

-----------------------------------------------------------------------------
(* What should be true of it.                                              *)

TableType ==
  [kind : {"scope", "func", "lambda"}, owner : 0..MaxCalls,
   symbols : [Names -> Values \cup {Absent}], given : SUBSET Names,
   ret : Values \cup {Absent, Null}]
CallType ==
  [id : 0..MaxCalls, fn : Funcs, base : Nat \ {0}, gave : Values \cup {Absent, Null}]

TypeOK ==
  /\ tables \in Seq(TableType)
  /\ stack \in [Funcs -> Seq(DOMAIN tables)]
  /\ posFunc \in [Funcs -> Nat]
  /\ main \in [Names -> [value : Values \cup {Absent}, global : BOOLEAN]]
  /\ calls \in Seq(CallType)
  /\ born \in 0..MaxCalls /\ lambdas \in 0..MaxLambdas
  /\ around \in [Lambdas -> SUBSET (0..MaxCalls)]
  /\ result \in Values \cup {Absent, Null}

\* No statement but del modifies other variables than those of the running activation;
\* in a lambda also those of the activations it was made in and of the calls of itself
\* it is nested in.  The callers' variables keep their values, also those of callers
\* that are activations of the same function and share its stack, and those of
\* the script unless they are global (LookupFuncRef, pos_func_table_).  A del may reach
\* any table of the stack and the script's, but it takes one entry away and changes none.
AssignmentsAreLocal ==
  [][\/ /\ \A t \in DOMAIN tables :
             tables'[t].symbols # tables[t].symbols => tables[t].owner \in Reach
        /\ \A x \in Names :
             main'[x] # main[x] /\ posFunc[Running.fn] > 0 => main[x].global
     \/ \E x \in Names :
          /\ Remove(x)
          /\ \A y \in Names :
               /\ main'[y] # main[y] => y = x /\ main'[y].value = Absent
               /\ \A t \in DOMAIN tables : tables'[t].symbols[y] # tables[t].symbols[y] =>
                    y = x /\ main' = main /\ tables'[t].symbols[y] = Absent]_vars

(* A declared function runs, and no other activation of it came and went   *)
(* since its table was pushed.                                             *)
FreshPos == Running.fn \in Decls /\ posFunc[Running.fn] = Running.base

\* The running function is nested in a call of itself that has x by other means than an
\* assignment: as its parameter, or from a declaration, a catch or an import.
OuterHasGiven(x) ==
  \E p \in 1..(Running.base - 1) : x \in tables[Here[p]].given

\* In a declared function, until a nested call of itself has returned, what is
\* assigned is what is read next, whatever tables and globals have the name
\* (Lookup and LookupFuncRef search different ranges of the stack).  The
\* exception is a global: the next read finds what an outer call of the function was
\* given under that name, if there is one.
ReadsItsWrites ==
  [][FreshPos =>
       \A x \in Names, v \in Values :
         Assign(x, v, FALSE) => Lookup(x)' = v \/ (Ref(x) = 0 /\ OuterHasGiven(x))]_vars

\* What the last return statement of an activation gave is what the call gives, however
\* many tables of functions the stack holds and whatever the finally clauses in between
\* do, unless code returned in them that has a table of the activation on its stack: a
\* lambda made in it, or another call of the same function (SetEntryOnFunc, LookupObj).
ReturnIsHeard == [][End /\ Running.gave # Absent => result' = Running.gave]_vars

\* The activations of a function lie on its stack in the order of the calls,
\* each on the tables it made itself; those of a lambda lie on what was copied
\* when it was made (Push, Pop).
OwnTables ==
  \A i \in DOMAIN calls : \A p \in DOMAIN stack[calls[i].fn] :
    /\ p >= calls[i].base
    /\ \A j \in DOMAIN calls : j > i /\ calls[j].fn = calls[i].fn => p < calls[j].base
    => Owner(calls[i].fn, p) = calls[i].id

-----------------------------------------------------------------------------
(* Why: an inductive invariant.                                            *)

(* The script's own activation is never left; each other one has its table *)
(* on its function's stack.                                                *)
Active ==
  /\ calls # <<>> /\ calls[1] = [id |-> 0, fn |-> 0, base |-> 1, gave |-> Absent]
  /\ \A i \in DOMAIN calls :
       /\ calls[i].id <= born
       /\ i > 1 => /\ calls[i].fn \in Decls \cup 1..lambdas
                   /\ calls[i].base <= Len(stack[calls[i].fn])
  /\ \A i, j \in DOMAIN calls :
       i < j => calls[i].id < calls[j].id
                /\ (calls[i].fn = calls[j].fn => calls[i].base < calls[j].base)
  /\ \A t \in DOMAIN tables : tables[t].owner <= born

(* The table position an assignment stops at is never too low.             *)
PosAhead ==
  /\ posFunc[0] = 0
  /\ \A i \in DOMAIN calls : calls[i].fn \in Decls => posFunc[calls[i].fn] >= calls[i].base

(* What lies on a stack above the first activation was made by some        *)
(* activation of that function; below it, by earlier ones.                 *)
Layers ==
  \A i \in DOMAIN calls : \A p \in DOMAIN stack[calls[i].fn] :
    IF p >= calls[i].base
    THEN Owner(calls[i].fn, p) \in Activations(calls[i].fn)
    ELSE Owner(calls[i].fn, p) < calls[i].id

(* Of what a lambda copied, the part it may modify.                        *)
Captured ==
  \A l \in 1..lambdas : \A p \in DOMAIN stack[l] :
    p >= posFunc[l] /\ (\A i \in DOMAIN calls : calls[i].fn = l => p < calls[i].base)
      => Owner(l, p) \in around[l]

(* An activation's base is where the table of its function is.  What it    *)
(* returned is there, until code with one of its tables returned.          *)
Rooted ==
  \A i \in DOMAIN calls : i > 1 =>
    LET t == tables[stack[calls[i].fn][calls[i].base]] IN
    /\ t.kind # "scope"
    /\ calls[i].gave # Absent => t.ret = calls[i].gave

(* Of a declared function only activations that run have tables, and none  *)
(* of those holds a name that is global, but for what it was given.        *)
Unshadowed ==
  \A f \in Decls : \A p \in DOMAIN stack[f] :
    /\ \E i \in DOMAIN calls : calls[i].fn = f /\ calls[i].base <= p
    /\ \A x \in Names :
         main[x].global /\ main[x].value # Absent /\ tables[stack[f][p]].symbols[x] # Absent
         => x \in tables[stack[f][p]].given

\* The tables, stacks and activations fit each other: what every step of the
\* code preserves and the action properties rest on.
Inductive ==
  TypeOK /\ Active /\ PosAhead /\ OwnTables /\ Layers /\ Captured /\ Rooted /\ Unshadowed
=============================================================================
