---------------------------- MODULE Expressions ----------------------------
(***************************************************************************)
(* What an expression and an assignment do (interpreter/expr-executor.cc,  *)
(* assign-executor.cc): the order in which their parts are evaluated, the  *)
(* functions they call on the way, which objects are copied and which are  *)
(* shared, and what an exception leaves of it.  A step is one statement.   *)
(*                                                                         *)
(* An expression is a node [op, name, n, kids] of the tree.  Left out are  *)
(* /, whose results may be inexact, the comparisons that are made like <   *)
(* and ==, commands, globs and functions without a name.                   *)
(***************************************************************************)
EXTENDS Methods

CONSTANTS
  Sessions, \* [heap, main, functions, statements, fuel]: the objects and names a script starts
            \* with, its functions [param, body], what it may say and, as a bound, how often
  Rounds    \* bound: the rounds a loop makes before it is called endless

VARIABLES
  session,  \* the member of Sessions the script is of
  heap,     \* the objects
  main,     \* the main table: the object of each name, Hole for a name that is not there
  ran,      \* the comprehensions inside functions that were run
  status,   \* "ok", or how the process ended: "crash", "undefined", "hang"
  fuel,     \* statements left
  said,     \* the statement that was said last, how it ended and the functions it called
  shared    \* a statement was said that gives an object to two owners

vars == <<session, heap, main, ran, status, fuel, said, shared>>

Node(op, name, n, kids) == [op |-> op, name |-> name, n |-> n, kids |-> kids]

\* Where an evaluation stands: how it goes, the objects, the tables (the main
\* one first), the first one an assignment may reach, pass_ref_ of the executor
\* at work, the comprehensions that ran, the functions called, and the results.
Start ==
  [how |-> "ok", heap |-> heap, tabs |-> <<main>>, base |-> 1, ref |-> FALSE,
   ran |-> ran, calls |-> <<>>, r |-> Hole, rs |-> <<>>]
Ok(s) == s.how = "ok"
Gives(s, out) == [s EXCEPT !.how = out.how, !.heap = out.heap, !.r = out.r]
New(s, object) == Gives(s, Made(s.heap, object))
Fails(s, how) == [s EXCEPT !.how = how]
Copied(s) == LET p == Passed(s.heap, s.r) IN [s EXCEPT !.heap = p.heap, !.r = p.r]

\* %list_comp_val, the name a comprehension keeps its list under.
Acc == "%list_comp_val"
NewTable(s) == [s EXCEPT !.tabs = Append(@, [name \in DOMAIN main |-> Hole])]
\* The end of a scope, with or without an exception.
Scoped(s, before) == [s EXCEPT !.tabs = SubSeq(@, 1, Len(before.tabs))]
Holders(s, name, bottom) == {k \in bottom .. Len(s.tabs) : s.tabs[k][name] # Hole}
\* SymbolTableStack::Lookup
Lookup(s, name) ==
  IF Holders(s, name, 1) = {} THEN Hole ELSE s.tabs[Max(Holders(s, name, 1))][name]
\* Lookup or LookupFuncRef with create: the table an assignment changes.
Slot(s, name) ==
  IF Holders(s, name, s.base) = {} THEN Len(s.tabs) ELSE Max(Holders(s, name, s.base))
Bound(s, name, x) == [s EXCEPT !.tabs[Slot(s, name)][name] = x]
-----------------------------------------------------------------------------
\* Operators of two objects

IsNumber(h, x) == h[x].type \in Numbers
BothInt(h, x, y) == h[x].type = "INT" /\ h[y].type = "INT"
NumberOf(h, x, y, n) == Made(h, Object(IF BothInt(h, x, y) THEN "INT" ELSE "REAL", n, <<>>, <<>>))

\* ObjString of a number is its digits, here one character of their own.
Digits(n) == <<100 + n>>
ObjString(h, x) ==
  CASE h[x].type = "STRING" -> Done(h, x)
    [] IsNumber(h, x) -> Made(h, NewString(Digits(h[x].n)))
    [] OTHER -> Thrown(h)

Plus(h, x, y) ==
  LET text == ObjString(h, y)
  IN CASE IsNumber(h, x) /\ IsNumber(h, y) -> NumberOf(h, x, y, h[x].n + h[y].n)
       [] h[x].type = "STRING" -> IF text.how = "ok" THEN Add(text.heap, x, text.r) ELSE text
       [] OTHER -> Add(h, x, y)
\* The remainder of C; nothing looks for a 0.
Remainder(a, b) ==
  LET m == IF b < 0 THEN -b ELSE b IN IF a < 0 THEN -((-a) % m) ELSE a % m
DivMod(h, x, y) ==
  IF ~BothInt(h, x, y) THEN Thrown(h)
  ELSE IF h[y].n = 0 THEN Ended("crash", h) ELSE Made(h, NewInt(Remainder(h[x].n, h[y].n)))
\* << and >>: both shift to the left.
Shift(h, x, y) ==
  IF ~BothInt(h, x, y) THEN Thrown(h)
  ELSE IF h[y].n < 0 \/ h[x].n < 0 THEN Ended("undefined", h)
  ELSE Made(h, NewInt(h[x].n * 2 ^ h[y].n))
\* And and Or of the objects, of an object that did not settle the question.
LogicAnd(h, x, y) ==
  CASE h[x].type = "NIL" -> Made(h, NewBool(FALSE))
    [] h[x].type = "BOOL" -> IF h[x].n = 0 THEN Made(h, NewBool(FALSE)) ELSE Verdict(h, Truth(h, y))
    [] OTHER -> Thrown(h)
LogicOr(h, x, y) ==
  CASE h[x].type = "NIL" -> Verdict(h, Truth(h, y))
    [] h[x].type = "BOOL" -> IF h[x].n = 1 THEN Made(h, NewBool(TRUE)) ELSE Verdict(h, Truth(h, y))
    [] OTHER -> Thrown(h)

BinOps == {"+", "-", "*", "%", "<<", ">>", "==", "<", "&&", "||", "in", "is"}
Apply(h, op, x, y) ==
  CASE op = "+" -> Plus(h, x, y)
    [] op \in {"-", "*"} ->
         IF ~(IsNumber(h, x) /\ IsNumber(h, y)) THEN Thrown(h)
         ELSE NumberOf(h, x, y, IF op = "-" THEN h[x].n - h[y].n ELSE h[x].n * h[y].n)
    [] op = "%" -> DivMod(h, x, y)
    [] op \in {"<<", ">>"} -> Shift(h, x, y)
    [] op = "==" -> Verdict(h, Equal(h, x, y))
    [] op = "<" -> Verdict(h, Lesser(h, x, y))
    [] op = "&&" -> LogicAnd(h, x, y)
    [] op = "||" -> LogicOr(h, x, y)
    [] op = "in" -> In(h, y, x)
    [] op = "is" -> Made(h, NewBool(x = y))

\* Not, UnarySub and BitNot
Unary(h, op, x) ==
  CASE op \in {"not", "!"} ->
         IF h[x].type \in Scalars THEN Made(h, NewBool(Truth(h, x) = "false")) ELSE Thrown(h)
    [] op = "minus" -> IF IsNumber(h, x) THEN Made(h, [h[x] EXCEPT !.n = -@]) ELSE Thrown(h)
    [] op = "~" -> IF h[x].type = "INT" THEN Made(h, NewInt(-h[x].n - 1)) ELSE Thrown(h)

\* ObjIter, HasNext and Next to the end: the elements themselves.
Items(s) ==
  LET pairs == Pairs(s.heap[s.r].map)
  IN CASE s.heap[s.r].type \in {"ARRAY", "TUPLE"} -> [s EXCEPT !.rs = s.heap[s.r].seq]
       [] s.heap[s.r].type = "MAP" ->
            [s EXCEPT !.heap = @ \o [k \in DOMAIN pairs |-> NewTuple(pairs[k])],
                      !.rs = [k \in DOMAIN pairs |-> Len(s.heap) + k]]
       [] OTHER -> Fails(s, "throw")
-----------------------------------------------------------------------------
\* ExpressionExecutor::Exec(node, pass_ref).  It sets pass_ref_, and so does
\* every part the same executor evaluates: what comes after reads the last one.
RECURSIVE Eval(_, _, _)

\* An executor of its own leaves the flag of this one alone.
Fresh(e, s) == [Eval(e, FALSE, s) EXCEPT !.ref = s.ref]

\* What is done to each of a row in turn, as long as nothing goes wrong.
InTurn(s, row, Do(_, _)) == FoldLeft(LAMBDA t, x : IF Ok(t) THEN Do(x, t) ELSE t, s, row)
Joined(before, s) == [s EXCEPT !.rs = before \o @]
Count_(n) == [k \in 1 .. n |-> k]

\* AssignableListExecutor: rs are the objects, of a spread value its elements.
Listed(e, s) ==
  IF ~Ok(s) THEN s ELSE IF e.op = "spread" THEN Items(s) ELSE [s EXCEPT !.rs = <<s.r>>]
ExecAssignable(e, s) == Joined(s.rs, Listed(e, Fresh(IF e.op = "spread" THEN e.kids[1] ELSE e, s)))
EvalAll(es, s) == InTurn([s EXCEPT !.rs = <<>>], es, ExecAssignable)

\* Mutant: a variable is handed out itself, not a copy of it.
ExecIdentifierRef(e, s) ==
  LET x == Lookup(s, e.name)
  IN IF x = Hole THEN Fails(s, "throw") ELSE [s EXCEPT !.r = x]

ExecIdentifier(e, s) ==
  LET x == Lookup(s, e.name)
      found == [s EXCEPT !.r = x]
  IN IF x = Hole THEN Fails(s, "throw") ELSE IF s.ref THEN found ELSE Copied(found)

\* The element is copied, unless the index ended with an attribute.
Element(val) == IF ~Ok(val) \/ val.ref THEN val ELSE Copied(val)
ExecArrayAccess(e, s) ==
  LET array == Eval(e.kids[1], FALSE, s)
      index == Eval(e.kids[2], FALSE, array)
  IN IF ~Ok(array) THEN array
     ELSE IF ~Ok(index) THEN index
     ELSE Element(Gives(index, GetItem(index.heap, array.r, index.r)))

\* A bound is a number or null; one that is not there is null.
Bounds(s, start, end) ==
  LET At(x) == IF s.heap[x].type = "INT" THEN s.heap[x].n ELSE Absent
      bad == \E x \in {start, end} : s.heap[x].type \notin {"INT", "NIL"}
  IN IF bad THEN Fails(s, "throw") ELSE New(s, NewSlice(At(start), At(end), 1))
ExecSlice(e, s) ==
  LET start == Eval(e.kids[1], FALSE, s)
      end == Eval(e.kids[2], FALSE, start)
  IN IF ~Ok(start) THEN start ELSE IF ~Ok(end) THEN end ELSE Bounds(end, start.r, end.r)

ExecInstantiation(e, all) == IF Ok(all) THEN New(all, Object(e.op, 0, all.rs, <<>>)) ELSE all

\* ExecMapInstantiation: the keys by this executor, each value by another.
MapOf(all) ==
  LET pairs == [k \in 1 .. Len(all.rs) \div 2 |-> <<all.rs[2 * k - 1], all.rs[2 * k]>>]
  IN IF Ok(all) THEN Gives(all, MapLiteral(all.heap, pairs)) ELSE all
ExecMap(e, s) ==
  LET Part(k, t) == Joined(t.rs, Listed(e, IF k % 2 = 1 THEN Eval(e.kids[k], FALSE, t) ELSE Fresh(e.kids[k], t)))
  IN MapOf(InTurn([s EXCEPT !.rs = <<>>], Count_(Len(e.kids)), Part))

\* ExecUnary, and ExecNotExpr, which for ! evaluates the operand again.
ExecUnary(e, s) ==
  LET once == Eval(e.kids[1], FALSE, s)
      obj == IF e.op = "!" /\ Ok(once) THEN Eval(e.kids[1], FALSE, once) ELSE once
  IN IF Ok(obj) THEN Gives(obj, Unary(obj.heap, e.op, obj.r)) ELSE obj

\* What a bool on the left of && or || settles.
Settles(op, object) ==
  object.type = "BOOL" /\ object.n = (IF op = "&&" THEN 0 ELSE 1) /\ op \in {"&&", "||"}

\* Mutant: the right side is always evaluated.
ExecBinOpEager(e, s) ==
  LET left == Eval(e.kids[1], FALSE, s)
      right == Eval(e.kids[2], FALSE, left)
  IN IF ~Ok(left) THEN left
     ELSE IF ~Ok(right) THEN right ELSE Gives(right, Apply(right.heap, e.op, left.r, right.r))

ExecBinOp(e, s) ==
  LET left == Eval(e.kids[1], FALSE, s)
      right == Eval(e.kids[2], FALSE, left)
  IN IF ~Ok(left) THEN left
     ELSE IF Settles(e.op, left.heap[left.r]) THEN New(left, left.heap[left.r])
     ELSE IF ~Ok(right) THEN right ELSE Gives(right, Apply(right.heap, e.op, left.r, right.r))

\* Attr of an object of a class: a copy of what it has under the name.
ExecAttribute(e, s) ==
  LET obj == Eval(e.kids[1], TRUE, s)
  IN IF ~Ok(obj) THEN obj
     ELSE IF obj.heap[obj.r].type # "OBJECT" THEN Fails(obj, "throw")
     ELSE Copied([obj EXCEPT !.r = obj.heap[obj.r].seq[1]])

\* ExecIfElseExpr: one executor for the condition and the branch it takes.
ExecIfElse(e, s) ==
  LET cond == Fresh(e.kids[1], s)
      truth == Truth(cond.heap, cond.r)
  IN IF ~Ok(cond) THEN cond
     ELSE IF truth \in Errors THEN Fails(cond, truth)
     ELSE Fresh(e.kids[IF truth = "true" THEN 2 ELSE 3], cond)

\* LiteralStringsGroupExecutor: each part is made a text, rs, before the next one.
Text(s) ==
  LET text == ObjString(s.heap, s.r)
  IN IF ~Ok(s) THEN s
     ELSE IF text.how = "ok" THEN [Gives(s, text) EXCEPT !.rs = text.heap[text.r].seq] ELSE Gives(s, text)
MountString(s) == IF Ok(s) THEN New(s, NewString(s.rs)) ELSE s
ExecGroup(e, s) ==
  LET Part(part, t) == Joined(t.rs, Text(Fresh(part, t)))
  IN MountString(InTurn([s EXCEPT !.rs = <<>>], e.kids, Part))
-----------------------------------------------------------------------------
\* Calls: the function, then the arguments, then the call.

\* A function of the script, return body: its tables are the main one and its own.
Called(f, name, s, args) ==
  LET own == [n \in DOMAIN main |-> IF n = f.param THEN args[1] ELSE Hole]
      body == Fresh(f.body, [s EXCEPT !.tabs = <<@[1], own>>, !.base = 2, !.calls = Append(@, name)])
  IN IF Len(args) # 1 THEN Fails(s, "throw")
     ELSE [body EXCEPT !.tabs = <<body.tabs[1]>> \o Tail(s.tabs), !.base = s.base]
ExecFuncCall(e, args) ==
  IF Ok(args) THEN Called(session.functions[e.name], e.name, args, args.rs) ELSE args
\* A method: the object is the function's expression, by reference.
CallMethod(e, self, args) ==
  IF Ok(args) THEN Gives(args, Method(args.heap, self.r, e.name, args.rs)) ELSE args
ExecMethod(e, s) ==
  LET self == [Eval(e.kids[1], TRUE, s) EXCEPT !.ref = s.ref]
  IN IF Ok(self) THEN CallMethod(e, self, EvalAll(Tail(e.kids), self)) ELSE self
-----------------------------------------------------------------------------
\* ListComprehensionExecutor

\* MountBlock, MountForBlock, ExecForIfList: the clauses become for and if
\* statements around %list_comp_val.append(res).
Mounted(e) ==
  FoldRight(LAMBDA clause, block : [clause EXCEPT !.kids = Append(@, block)],
            Tail(e.kids), Node("append", "", 0, <<e.kids[1]>>))
\* append is looked up before its argument is evaluated.
ExecAppend(e, s) ==
  LET self == Lookup(s, Acc)
      arg == Fresh(e.kids[1], s)
  IN IF Ok(arg) THEN [arg EXCEPT !.heap[self].seq = Append(@, arg.r)] ELSE arg
\* IfElseExecutor
ExecIf(e, s) ==
  LET cond == Fresh(e.kids[1], NewTable(s))
      truth == Truth(cond.heap, cond.r)
  IN IF ~Ok(cond) THEN cond
     ELSE IF truth \in Errors THEN Fails(cond, truth)
     ELSE IF truth = "true" THEN Eval(e.kids[2], FALSE, NewTable(cond)) ELSE cond
\* ForInExecutor: what it walks over, of a map its pairs, and its rounds; the
\* variable is assigned as any other.
Walked(s) ==
  IF ~Ok(s) THEN s
  ELSE IF s.heap[s.r].type = "MAP" THEN LET items == Items(s) IN New(items, NewArray(items.rs))
  ELSE IF s.heap[s.r].type \in {"ARRAY", "TUPLE"} THEN s ELSE Fails(s, "throw")
Loop(e, s) ==
  LET Round(k, t) ==
        LET seq == t.heap[s.r].seq
        IN IF k > Len(seq) THEN t
           ELSE IF k > Rounds THEN Fails(t, "hang")
           ELSE Scoped(Eval(e.kids[2], FALSE, NewTable(Bound(t, e.name, seq[k]))), t)
  IN InTurn(s, Count_(Rounds + 1), Round)
ExecFor(e, s) == Loop(e, Walked(Fresh(e.kids[1], NewTable(s))))

\* Its parts are moved out of the tree: there are none for a second run.
CompBegun(e, list) == [Bound(list, Acc, list.r) EXCEPT !.ran = @ \cup {e.n}]
CompList(s) == IF Ok(s) THEN [s EXCEPT !.r = Lookup(s, Acc)] ELSE s
ExecListComprehension(e, s) ==
  IF e.n \in s.ran THEN Fails(s, "crash")
  ELSE Scoped(CompList(Eval(Mounted(e), FALSE, CompBegun(e, New(NewTable(s), NewArray(<<>>))))), s)
-----------------------------------------------------------------------------
\* AssignExecutor

RECURSIVE AssignTo(_, _, _, _)
AssignEach(es, values, kind, s) ==
  LET One(k, t) == AssignTo(es[k], values[k], kind, t) IN InTurn(s, Count_(Len(es)), One)

\* AssignToRef: old is the object of a place, or Hole.
ToRef(h, kind, old, v) ==
  IF kind = "=" THEN Done(h, v) ELSE IF old = Hole THEN Ended("crash", h) ELSE Apply(h, kind, old, v)
Named(e, put) == IF Ok(put) THEN Bound(put, e.name, put.r) ELSE put
AssignIdentifier(e, v, kind, s) ==
  Named(e, Gives(s, ToRef(s.heap, kind, s.tabs[Slot(s, e.name)][e.name], v)))
\* AssignArray: the container and the index by reference.
SetTo(array, index, put) ==
  IF put.how = "ok" THEN SetItem(put.heap, array, index, put.r, TRUE) ELSE put
ToElement(kind, old, v) == IF old.how = "ok" THEN ToRef(old.heap, kind, old.r, v) ELSE old
AssignToArray(v, kind, array, index) ==
  LET old == IF kind = "=" THEN Done(index.heap, Hole) ELSE GetItem(index.heap, array, index.r)
  IN IF Ok(index) THEN Gives(index, SetTo(array, index.r, ToElement(kind, old, v))) ELSE index
AssignArray(e, v, kind, array) ==
  IF Ok(array) THEN AssignToArray(v, kind, array.r, Eval(e.kids[2], TRUE, array)) ELSE array
SetAttribute(obj, put) ==
  IF put.how = "ok" THEN [obj EXCEPT !.heap = WithSeq(put.heap, obj.r, <<put.r>>)] ELSE Gives(obj, put)
AssignAttribute(v, kind, obj) ==
  IF ~Ok(obj) THEN obj
  ELSE IF obj.heap[obj.r].type # "OBJECT" THEN Fails(obj, "throw")
  ELSE SetAttribute(obj, ToRef(obj.heap, kind, obj.heap[obj.r].seq[1], v))
\* Unpack, and the sizes.
Unpacked(es, kind, values) ==
  IF ~Ok(values) THEN values
  ELSE IF Len(values.rs) # Len(es) THEN Fails(values, "throw")
  ELSE AssignEach(es, values.rs, kind, values)

AssignTo(e, v, kind, s) ==
  LET to == [s EXCEPT !.ref = FALSE]
  IN CASE e.op = "id" -> AssignIdentifier(e, v, kind, to)
       [] e.op = "index" -> AssignArray(e, v, kind, Eval(e.kids[1], TRUE, to))
       [] e.op = "attr" -> AssignAttribute(v, kind, Fresh(e.kids[1], to))
       [] e.op \in {"TUPLE", "ARRAY"} /\ e.kids # <<>> -> Unpacked(e.kids, kind, Items([to EXCEPT !.r = v]))
       [] OTHER -> Fails(to, "throw")

\* Assign: as many values as there are targets, or one value to be unpacked, or
\* one target for a tuple of them.
Dealt(es, values, s) ==
  LET tuple == New(s, NewTuple(values))
  IN IF Len(es) # 1 /\ Len(values) = 1 THEN Items([s EXCEPT !.r = values[1]])
     ELSE IF Len(es) = 1 /\ Len(values) # 1 THEN [tuple EXCEPT !.rs = <<tuple.r>>]
     ELSE [s EXCEPT !.rs = values]
Assign(es, values, kind, s) == Unpacked(es, kind, Dealt(es, values, s))

\* Exec: the right side comes first.
AssignValues(left, kind, values) ==
  IF Ok(values) THEN [Assign(left, values.rs, kind, values) EXCEPT !.rs = values.rs] ELSE values
ExecAssignment(left, kind, right, s) == AssignValues(left, kind, EvalAll(right, s))
\* ExecWithReturn: the values have been moved when one target took a tuple.
Returned(e, done) ==
  IF ~Ok(done) THEN done
  ELSE IF Len(done.rs) = 1 THEN [done EXCEPT !.r = done.rs[1]]
  ELSE IF e.n = 1 THEN Fails(done, "throw") ELSE New(done, NewTuple(done.rs))
ExecLet(e, s) ==
  Returned(e, [ExecAssignment(SubSeq(e.kids, 1, e.n), "=", SubSeq(e.kids, e.n + 1, Len(e.kids)), s)
                 EXCEPT !.ref = s.ref])
-----------------------------------------------------------------------------
Literals == {"null", "bool", "int", "real", "string"}
ExecLiteral(e) ==
  CASE e.op = "null" -> NewNull
    [] e.op = "bool" -> NewBool(e.n = 1)
    [] e.op = "int" -> NewInt(e.n)
    [] e.op = "real" -> Object("REAL", e.n, <<>>, <<>>)
    [] e.op = "string" -> NewString(<<e.n>>)

Eval(e, ref, s0) ==
  LET s == [s0 EXCEPT !.ref = ref]
  IN CASE e.op \in Literals -> New(s, ExecLiteral(e))
       [] e.op = "none" -> New(s0, NewNull)
       [] e.op = "id" -> ExecIdentifier(e, s)
       [] e.op = "index" -> ExecArrayAccess(e, s)
       [] e.op = "slice" -> ExecSlice(e, s)
       [] e.op \in {"ARRAY", "TUPLE"} -> ExecInstantiation(e, EvalAll(e.kids, s))
       [] e.op = "map" -> ExecMap(e, s)
       [] e.op \in {"not", "!", "minus", "~"} -> ExecUnary(e, s)
       [] e.op \in BinOps -> ExecBinOp(e, s)
       [] e.op = "attr" -> ExecAttribute(e, s)
       [] e.op = "ifelse" -> ExecIfElse(e, s)
       [] e.op = "group" -> ExecGroup(e, s)
       [] e.op = "call" -> ExecFuncCall(e, EvalAll(e.kids, s))
       [] e.op = "method" -> ExecMethod(e, s)
       [] e.op = "comp" -> ExecListComprehension(e, s)
       [] e.op = "for" -> Scoped(ExecFor(e, s), s)
       [] e.op = "if" -> Scoped(ExecIf(e, s), s)
       [] e.op = "append" -> ExecAppend(e, s)
       [] e.op = "let" -> ExecLet(e, s)
       [] OTHER -> Fails(s, "throw")
-----------------------------------------------------------------------------
\* What hands an object to a second owner: the elements of an unpacked value,
\* a key in an index, the value of let, the result of a method, an element at
\* an attribute, and a name outside that a comprehension takes for its variable.
RECURSIVE Within(_)
Within(e) == {e} \cup UNION {Within(e.kids[k]) : k \in DOMAIN e.kids}
Parts(es) == UNION {Within(es[k]) : k \in DOMAIN es}
HandsOn(e) ==
  \/ e.op \in {"spread", "let", "method"}
  \/ e.op = "index" /\ \E part \in Within(e.kids[2]) : part.op = "attr"
  \/ e.op = "for" /\ main[e.name] # Hole
Shares(st) ==
  \/ \E e \in Parts(st.left) \cup Parts(st.right) : HandsOn(e)
  \/ \E f \in DOMAIN session.functions : \E e \in Within(session.functions[f].body) : HandsOn(e)
  \/ Len(st.left) > 1 /\ Len(st.right) = 1
  \/ \E k \in DOMAIN st.left :
       LET e == st.left[k]
       IN e.op \in {"TUPLE", "ARRAY"} \/ (e.op = "index" /\ e.kids[2].op = "id")

\* A statement [left, kind, right]: an assignment, or a call when left is empty.
\* Each is parsed anew; an exception ends it and what it did stays done.
Evaluated(st) ==
  IF st.left = <<>> THEN EvalAll(st.right, Start) ELSE ExecAssignment(st.left, st.kind, st.right, Start)
Ends(st, done) ==
  /\ heap' = done.heap
  /\ main' = done.tabs[1]
  /\ ran' = {n \in done.ran : n < 0}
  /\ status' = IF done.how = "throw" THEN "ok" ELSE done.how
  /\ fuel' = fuel - 1
  /\ said' = [st |-> st, how |-> done.how, calls |-> done.calls]
  /\ shared' = (shared \/ Shares(st))
  /\ UNCHANGED session
Statement(st) == status = "ok" /\ fuel > 0 /\ Ends(st, Evaluated(st))

Init ==
  /\ session \in Sessions
  /\ heap = session.heap
  /\ main = session.main
  /\ ran = {}
  /\ status = "ok"
  /\ fuel = session.fuel
  /\ said = [st |-> [left |-> <<>>, kind |-> "=", right |-> <<>>], how |-> "ok", calls |-> <<>>]
  /\ shared = FALSE

Next == \E st \in session.statements : Statement(st)

Spec == Init /\ [][Next]_vars
-----------------------------------------------------------------------------
\* What an expression means, told without objects, tables and flags.  A value
\* is [type, n, seq], a meaning [how, vs, calls]; an expression of which the
\* language says nothing has how = "none".

RECURSIVE Value(_, _, _)
Value(h, x, depth) ==
  [type |-> IF x = Hole THEN "absent" ELSE IF depth = 0 THEN "deep" ELSE h[x].type,
   n |-> IF x = Hole THEN 0 ELSE h[x].n,
   seq |-> IF x = Hole \/ depth = 0 THEN <<>>
           ELSE IF h[x].type = "STRING" THEN [k \in DOMAIN h[x].seq |-> [type |-> "char", n |-> h[x].seq[k], seq |-> <<>>]]
           ELSE [k \in DOMAIN h[x].seq |-> Value(h, h[x].seq[k], depth - 1)]]
Depth == 5

Plain(type, n, seq) == [type |-> type, n |-> n, seq |-> seq]
Bool(b) == Plain("BOOL", IF b THEN 1 ELSE 0, <<>>)
Means(vs, calls) == [how |-> "ok", vs |-> vs, calls |-> calls]
Raises(calls) == [how |-> "throw", vs |-> <<>>, calls |-> calls]
Silent == [how |-> "none", vs |-> <<>>, calls |-> <<>>]
\* m, after what was called before it.
After(calls, m) == [m EXCEPT !.calls = calls \o @]

MeantOf(op, v, w) ==
  LET types == <<v.type, w.type>>
      ints == types = <<"INT", "INT">>
  IN CASE op = "+" /\ ints -> Means(<<Plain("INT", v.n + w.n, <<>>)>>, <<>>)
       [] op = "+" /\ types \in {<<"STRING", "STRING">>, <<"ARRAY", "ARRAY">>} ->
            Means(<<Plain(v.type, 0, v.seq \o w.seq)>>, <<>>)
       [] op = "+" /\ types \in {<<"INT", "STRING">>, <<"ARRAY", "INT">>, <<"NIL", "INT">>} -> Raises(<<>>)
       [] op = "-" /\ ints -> Means(<<Plain("INT", v.n - w.n, <<>>)>>, <<>>)
       [] op = "*" /\ ints -> Means(<<Plain("INT", v.n * w.n, <<>>)>>, <<>>)
       [] op = "==" /\ v.type = w.type /\ v.type \in {"INT", "BOOL", "STRING", "NIL"} ->
            Means(<<Bool(v = w)>>, <<>>)
       [] op = "<" /\ ints -> Means(<<Bool(v.n < w.n)>>, <<>>)
       [] op \in {"&&", "||"} /\ types = <<"BOOL", "BOOL">> ->
            Means(<<Bool(IF op = "&&" THEN v.n = 1 /\ w.n = 1 ELSE v.n = 1 \/ w.n = 1)>>, <<>>)
       [] OTHER -> Silent
MeantItem(v, i) ==
  LET size == Len(v.seq)
      place == IF i.n < 0 THEN size + i.n ELSE i.n
  IN IF v.type \notin {"ARRAY", "TUPLE"} \/ i.type # "INT" THEN Silent
     ELSE IF place \in 0 .. size - 1 THEN Means(<<v.seq[place + 1]>>, <<>>)
     ELSE IF place >= size THEN Raises(<<>>) ELSE Silent
True(v) == v.type \in {"INT", "STRING"} \/ (v.type = "BOOL" /\ v.n = 1)
Decides(v) == v.type \in {"NIL", "BOOL", "INT", "STRING"}

RECURSIVE Meant(_, _), MeantComp(_, _, _)
\* m and what comes after it; the values of a row, from left to right.
And_(m, next) == IF next.how = "ok" THEN [next EXCEPT !.vs = m.vs \o @, !.calls = m.calls \o @]
                 ELSE After(m.calls, next)
MeantRow(row, Of(_)) == FoldLeft(LAMBDA m, x : IF m.how = "ok" THEN And_(m, Of(x)) ELSE m, Means(<<>>, <<>>), row)
MeantAll(es, env) == MeantRow(es, LAMBDA e : Meant(e, env))
\* The values a comprehension lists: those of the rounds, one after the other.
MeantClause(clauses, res, env, of) ==
  LET c == Head(clauses)
      Round(v) == MeantComp(Tail(clauses), res, [env EXCEPT ![c.name] = v])
  IN IF of.how # "ok" THEN of
     ELSE IF c.op = "if" /\ ~Decides(of.vs[1]) THEN Silent
     ELSE IF c.op = "if"
     THEN IF True(of.vs[1]) THEN After(of.calls, MeantComp(Tail(clauses), res, env)) ELSE Means(<<>>, of.calls)
     ELSE IF of.vs[1].type \in {"ARRAY", "TUPLE"} /\ env[c.name].type = "absent"
     THEN After(of.calls, MeantRow(of.vs[1].seq, Round))
     ELSE Silent
MeantComp(clauses, res, env) ==
  IF clauses = <<>> THEN Meant(res, env)
  ELSE MeantClause(clauses, res, env, Meant(Head(clauses).kids[1], env))

Single(m, v) == After(m.calls, Means(<<v>>, <<>>))
MeantBin(e, env, left) ==
  LET settled == e.op \in {"&&", "||"} /\ left.vs[1] = Bool(e.op = "||")
      Right(right) == IF right.how # "ok" THEN right
                      ELSE After(right.calls, MeantOf(e.op, left.vs[1], right.vs[1]))
  IN IF left.how # "ok" THEN left
     ELSE IF settled THEN Single(left, Bool(e.op = "||"))
     ELSE After(left.calls, Right(Meant(e.kids[2], env)))
MeantCall(e, env, arg) ==
  LET f == session.functions[e.name]
      own == [n \in DOMAIN env |-> IF n = f.param THEN arg.vs[1] ELSE Value(heap, main[n], Depth)]
  IN IF Len(e.kids) # 1 \/ e.kids[1].op = "spread" THEN Silent
     ELSE IF arg.how # "ok" THEN arg ELSE After(arg.calls \o <<e.name>>, Meant(f.body, own))

Nested(e) == \E part \in Within(e) \ {e} : part.op = "comp"
Literal(e) == Value(<<ExecLiteral(e)>>, 1, 1)
\* An expression of the values of its parts, all of which are asked for.
MeantWhole(e, all) ==
  LET v == all.vs[1]
  IN CASE all.how # "ok" -> all
       [] e.op = "spread" -> IF v.type \in {"ARRAY", "TUPLE"} THEN [all EXCEPT !.vs = v.seq] ELSE Silent
       [] e.op \in {"ARRAY", "TUPLE"} -> Single(all, Plain(e.op, 0, all.vs))
       [] e.op = "index" -> After(all.calls, MeantItem(v, all.vs[2]))
       [] e.op = "attr" -> IF v.type = "OBJECT" THEN Single(all, v.seq[1]) ELSE Raises(all.calls)
       [] e.op = "not" -> IF v.type = "BOOL" THEN Single(all, Bool(v.n = 0)) ELSE Silent
       [] e.op = "minus" -> IF v.type = "INT" THEN Single(all, [v EXCEPT !.n = -@]) ELSE Silent
       [] e.op = "comp" -> Single(all, Plain("ARRAY", 0, all.vs))
MeantIf(e, env, cond) ==
  IF cond.how # "ok" THEN cond
  ELSE IF ~Decides(cond.vs[1]) THEN Silent
  ELSE After(cond.calls, Meant(e.kids[IF True(cond.vs[1]) THEN 2 ELSE 3], env))
Meant(e, env) ==
  CASE e.op \in Literals -> Means(<<Literal(e)>>, <<>>)
    [] e.op = "id" -> IF env[e.name].type = "absent" THEN Raises(<<>>) ELSE Means(<<env[e.name]>>, <<>>)
    [] e.op \in BinOps -> MeantBin(e, env, Meant(e.kids[1], env))
    [] e.op = "ifelse" -> MeantIf(e, env, Meant(e.kids[1], env))
    [] e.op = "call" -> MeantCall(e, env, Meant(e.kids[1], env))
    [] e.op = "comp" -> IF Nested(e) \/ e.n < 0 THEN Silent
                        ELSE MeantWhole(e, MeantComp(Tail(e.kids), e.kids[1], env))
    [] e.op \in {"spread", "ARRAY", "TUPLE", "index", "attr", "not", "minus"} ->
         MeantWhole(e, MeantAll(e.kids, env))
    [] OTHER -> Silent

\* What the targets get of the values vs: as many as there are, the elements of
\* one, or one the tuple of all.
MeantFor(targets, vs) ==
  IF Len(targets) = 1 THEN IF Len(vs) = 1 THEN vs ELSE <<Plain("TUPLE", 0, vs)>>
  ELSE IF Len(vs) = 1 THEN vs[1].seq ELSE vs
\* Whether an assignment that called calls and ended as how made the values new
\* of env as its meaning says.
Agrees(st, env, new, meant, calls, how) ==
  LET names == [k \in DOMAIN st.left |-> st.left[k].name]
      dealt == MeantFor(names, meant.vs)
      Unpackable == Len(names) = 1 \/ Len(meant.vs) # 1 \/ meant.vs[1].type \in {"ARRAY", "TUPLE"}
      Fits == meant.how = "ok" /\ Len(dealt) = Len(names)
      LastOf(name) == Max({k \in DOMAIN names : names[k] = name})
  IN meant.how # "none" /\ (meant.how = "ok" => Unpackable) =>
       /\ calls = meant.calls
       /\ how = IF Fits THEN "ok" ELSE "throw"
       /\ new = [name \in DOMAIN env |-> IF Fits /\ name \in ToSet(names) THEN dealt[LastOf(name)] ELSE env[name]]
Values_(h, names) == [name \in DOMAIN names |-> Value(h, names[name], Depth)]
ToNames(st) == st.left # <<>> /\ st.kind = "=" /\ \A k \in DOMAIN st.left : st.left[k].op = "id"
\* An assignment to names gives each of them the value its right side means,
\* calling the functions in the order they are written and only those whose
\* result is asked for, and changes no other name; when something of it throws,
\* or the numbers of names and values differ, no name is changed.
MeansWhatItSays ==
  [][LET st == said'.st
         env == Values_(heap, main)
     IN ToNames(st) => Agrees(st, env, Values_(heap', main'), MeantAll(st.right, env), said'.calls, said'.how)
    ]_vars

\* The places objects are kept at: the names, and those of the containers that
\* can be reached from them.
Containers == {"ARRAY", "TUPLE", "MAP", "OBJECT"}
Held(x) ==
  IF heap[x].type = "MAP" THEN FlattenSeq(Pairs(heap[x].map))
  ELSE IF heap[x].type \in Containers THEN heap[x].seq ELSE <<>>
RECURSIVE Reached(_, _)
Reached(xs, depth) ==
  IF depth = 0 THEN xs ELSE Reached(xs \cup UNION {ToSet(Held(x)) : x \in xs}, depth - 1)
Kept ==
  LET named == {main[name] : name \in DOMAIN main} \ {Hole}
  IN [of : {Hole}, name : DOMAIN main, k : {0}]
       \cup UNION {[of : {x}, name : {""}, k : DOMAIN Held(x)] : x \in Reached(named, Depth)}
At(place) == IF place.of = Hole THEN main[place.name] ELSE Held(place.of)[place.k]

\* A number, string or bool that has a name is kept nowhere else: whatever is
\* assigned, passed, returned, listed or chosen, no other name and no element is
\* the same object, so that a method that changes a string in place changes it
\* for that name only; but for the statements Shares tells.
ScalarsAreOwn ==
  shared \/ \A p, q \in Kept :
    p # q /\ p.of = Hole /\ At(p) # Hole /\ At(p) = At(q) => heap[At(p)].type \notin Scalars
=============================================================================
