------------------------------ MODULE Classes ------------------------------
(***************************************************************************)
(* Classes, interfaces and objects under a script                          *)
(* (objects/decl-class-object.cc, objects/obj-type.cc and ClassDecl-,      *)
(* InterfaceDecl- and AnnotationExecutor of interpreter/stmt-executor.cc). *)
(*                                                                         *)
(* A class has a table of its own on the stack of the scope it stands in.  *)
(* An object has a copy of those tables, taken when it is made, a table of *)
(* its own, and a weak pointer to its class, which it found by name.       *)
(* Abstract methods are nowhere: no code calls AddAbstractMethod.          *)
(***************************************************************************)
EXTENDS Integers, Sequences, FiniteSets, Functions

CONSTANTS
  Sessions,     \* [main, declarations, decorators, statements, fuel]: the names a script starts
                \* with, what it may declare and say and, as a bound, how often
  Declarations, \* all declarations, those in classes included
  Shapes        \* the functions of the scripts: [params, defaults, variadic, method, static,
                \* lambda, builtin, sets, gives], params without "this", builtin for a FuncObject
                \* that is no FuncDeclObject, sets the field of its first argument a call sets,
                \* and gives one of the following or a function
Given == 0      \* gives: its first argument,
Throws == -1    \* nothing, it throws,
Plain == -2     \* a value that is none of those below,
Maker == -3     \* or a function that calls its first argument, a class

ASSUME ShapesAssumption ==
  Shapes \in Seq([params : Nat, defaults : Nat, variadic : BOOLEAN, method : BOOLEAN, static : BOOLEAN,
                  lambda : BOOLEAN, builtin : BOOLEAN, sets : STRING, gives : Maker .. Len(Shapes)])

Scripted == {f \in DOMAIN Shapes : ~Shapes[f].builtin}
Methods == [kind : {"method"}, name : STRING, f : Scripted]
Members ==
  Methods \cup [kind : {"marked"}, by : STRING, name : STRING, f : Scripted]
          \cup [kind : {"var"}, name : STRING, from : STRING]
          \cup [kind : {"bare", "marked class"}, name : STRING]
          \cup [kind : {"class"}, decl : {d \in Declarations : d.kind = "class"}]
ClassDecls == [kind : {"class"}, name : STRING, parent : STRING, ifaces : Seq(STRING), abstract : BOOLEAN,
               final : BOOLEAN, members : Seq(Members)]
IfaceDecls == [kind : {"iface"}, name : STRING, ifaces : Seq(STRING), members : Seq(Methods)]
FuncDecls == [kind : {"func"}, name : STRING, f : Scripted]
ASSUME DeclarationsAssumption == \A d \in Declarations : d \in ClassDecls \cup IfaceDecls \cup FuncDecls

VARIABLES
  session,  \* the member of Sessions the script is of
  main,     \* the main table
  types,    \* classes and interfaces: [name, kind, line, ifaces, abstract, final, stack, table,
            \* methods]; line are the type and its bases, stack the classes whose tables are on its
            \* stack, the innermost first
  open,     \* the classes whose declaration is under way, the innermost last: [t, left, by], left
            \* the members to come, by the decorator or ""
  objects,  \* [type, own, snap, made]: made is the class whose constructor made it
  status,   \* "ok", "crash" or "undefined"
  fuel,     \* statements left
  rebound,  \* names of classes that came to stand for something else, or nothing
  patched,  \* classes an attribute of which was assigned
  grown     \* += was said of a field that was not there

vars == <<session, main, types, open, objects, status, fuel, rebound, patched, grown>>

\* A value: k is "class", "iface", "object", "func", "maker" or "data"; on are
\* the objects a function is wrapped with, the outermost first.
Val(k, id) == [k |-> k, id |-> id, on |-> <<>>]
Data == Val("data", 0)
Nothing == Val("nothing", 0)
IsFunc(v) == v.k \in {"func", "maker"}
Wrapped(v, o) == [v EXCEPT !.on = <<o>> \o @]

Starts == {Data} \cup {Val("func", f) : f \in DOMAIN Shapes}
Statements == [op : STRING, on : STRING, attr : STRING, n : Nat, to : STRING]
ASSUME SessionsAssumption ==
  \A s \in Sessions :
    /\ DOMAIN s.main \subseteq STRING /\ s.main \in [DOMAIN s.main -> Starts]
    /\ s.declarations \subseteq Declarations
    /\ s.decorators \subseteq STRING /\ s.statements \subseteq Statements
    /\ s.fuel \in Nat

\* FuncObject::Declared: neither a wrapper nor a built-in function.
Declared(v) == v.on = <<>> /\ (v.k = "func" => ~Shapes[v.id].builtin)
IsLambda(v) == v.k = "maker" \/ Shapes[v.id].lambda
IsStatic(v) == v.k = "func" /\ Shapes[v.id].static
\* The signature AbstractMethod takes of a function; only a declared one has one.
Signature(v) ==
  IF ~Declared(v) \/ v.k = "maker" THEN [params |-> 0, defaults |-> 0, variadic |-> FALSE]
  ELSE LET f == Shapes[v.id]
       IN [params |-> f.params + (IF f.method /\ ~f.static THEN 1 ELSE 0),
           defaults |-> f.defaults, variadic |-> f.variadic]
\* AbstractMethod::operator==
Agree(m, n) == m.params = n.params /\ m.variadic = n.variadic /\ (m.variadic => m.defaults = n.defaults)
-----------------------------------------------------------------------------
\* Tables

\* SetValue(&&): a name that is taken keeps its value.
Registered(table, n, v) == [a \in DOMAIN table \cup {n} |-> IF a \in DOMAIN table THEN table[a] ELSE v]
Assigned(table, n, v) == [a \in DOMAIN table \cup {n} |-> IF a = n THEN v ELSE table[a]]
Without(table, n) == Restrict(table, DOMAIN table \ {n})

\* The place in s of the first class that has the attribute a, or 0.
Nearest(s, a) ==
  LET having == {k \in DOMAIN s : a \in DOMAIN types[s[k]].table}
  IN IF having = {} THEN 0 ELSE CHOOSE k \in having : \A j \in having : k <= j
FirstIn(s, a) == LET k == Nearest(s, a) IN IF k = 0 THEN Nothing ELSE types[s[k]].table[a]

\* Mutant: the main table first.
LookupMainFirst(s, n) == IF n \in DOMAIN main THEN main[n] ELSE FirstIn(s, n)

\* SymbolTableStack::Lookup on the stack s; that of the main program is empty.
Lookup(s, n) ==
  LET v == FirstIn(s, n)
  IN IF v # Nothing THEN v ELSE IF n \in DOMAIN main THEN main[n] ELSE Nothing

SearchAttr(t, a) == FirstIn(types[t].line, a)
-----------------------------------------------------------------------------
\* Reference counts: what is left when nothing is kept that nothing keeps.

Refs(v) == CASE v.k \in {"class", "iface", "maker"} -> {<<"type", v.id>>}
             [] v.k = "object" -> {<<"object", v.id>>}
             [] OTHER -> {<<"object", o>> : o \in Range(v.on)}
RefsIn(table) == UNION {Refs(table[n]) : n \in DOMAIN table}

\* What an object, or a type with the tables on its stack, keeps.
Held(n) ==
  IF n[1] = "object" THEN RefsIn(objects[n[2]].own) \cup RefsIn(objects[n[2]].snap)
  ELSE {<<"type", i>> : i \in Range(types[n[2]].ifaces) \cup (Range(types[n[2]].line) \ {n[2]})}
       \cup UNION {RefsIn(types[t].table) : t \in Range(types[n[2]].stack)}

Nodes == ({"type"} \X DOMAIN types) \cup ({"object"} \X DOMAIN objects)
\* What is left of nodes after k times nothing was kept that nothing kept.
Left[k \in 0 .. Cardinality(Nodes)] ==
  IF k = 0 THEN Nodes
  ELSE LET nodes == Left[k - 1] IN nodes \cap (RefsIn(main) \cup UNION {Held(n) : n \in nodes})
Alive == Left[Cardinality(Nodes)]
\* ObjType: the weak pointer leads somewhere.
HasType(o) == Refs(objects[o].type) \subseteq Alive
-----------------------------------------------------------------------------
\* Attributes.  An answer is [how, v].

Answer(how, v) == [how |-> how, v |-> v]
Found(v) == IF v = Nothing THEN Answer("thrown", Nothing) ELSE Answer("ok", v)

\* Mutant: the tables of the class as they are now.
InScopeLive(o, a) ==
  IF a \in DOMAIN objects[o].own THEN objects[o].own[a] ELSE Lookup(types[objects[o].made].stack, a)

\* The stack of an object: its own table, the copies, the main table.
InScope(o, a) ==
  IF a \in DOMAIN objects[o].own THEN objects[o].own[a]
  ELSE IF a \in DOMAIN objects[o].snap THEN objects[o].snap[a]
  ELSE IF a \in DOMAIN main THEN main[a] ELSE Nothing

\* Mutant: any function is cast to a declared one here too.
InheritedCast(o, v) ==
  IF IsFunc(v) /\ ~Declared(v) THEN Answer("undefined", Nothing)
  ELSE IF IsFunc(v) /\ ~IsLambda(v) THEN Answer("ok", Wrapped(v, o)) ELSE Found(v)

\* What o makes of an attribute of its class it has no copy of.
Inherited(o, v) ==
  IF ~IsFunc(v) THEN Found(v)
  ELSE IF ~Declared(v) THEN Answer("ok", Wrapped(v, o))
  ELSE IF IsStatic(v) THEN Answer("thrown", Nothing)
  ELSE Answer("ok", IF IsLambda(v) THEN v ELSE Wrapped(v, o))

\* DeclClassObject::Attr.  A function in the scope is cast to a declared one,
\* which a wrapper or a built-in is not, and is not asked whether it is static.
ObjectAttr(o, a) ==
  LET near == InScope(o, a)
  IN IF near # Nothing
     THEN IF IsFunc(near) /\ ~Declared(near) THEN Answer("undefined", Nothing)
          ELSE Answer("ok", IF IsFunc(near) /\ ~IsLambda(near) THEN Wrapped(near, o) ELSE near)
     ELSE IF ~HasType(o) THEN Answer("crash", Nothing)
     ELSE IF objects[o].type.k # "class" THEN Answer("undefined", Nothing)
     ELSE Inherited(o, SearchAttr(objects[o].type.id, a))

Attr(v, a) == CASE v.k = "object" -> ObjectAttr(v.id, a)
                [] v.k = "class" -> Found(SearchAttr(v.id, a))
                [] OTHER -> Answer("thrown", Nothing)
-----------------------------------------------------------------------------
\* Calls.  An outcome is [how, objects, v].

Called(how, objs, v) == [how |-> how, objects |-> objs, v |-> v]

\* A function called with n values, those it is wrapped with before them; the
\* binding of arguments, and what a body may do, is in Arguments and Scopes.
Invoke(objs, v, n) ==
  LET f == Shapes[v.id]
      self == [k \in DOMAIN v.on |-> Val("object", v.on[k])]
      given == Len(self) + n
      params == f.params + (IF f.method /\ ~f.static THEN 1 ELSE 0)
      accepted == IF f.variadic THEN given >= params - 1
                  ELSE given \in params - f.defaults .. params
      first == IF self = <<>> THEN Data ELSE self[1]
      after == IF f.sets = "" THEN objs
               ELSE [objs EXCEPT ![first.id].own = Assigned(@, f.sets, Data)]
  IN IF ~accepted \/ (f.sets # "" /\ first.k # "object") THEN Called("thrown", objs, Nothing)
     ELSE IF f.gives = Throws THEN Called("thrown", after, Nothing)
     ELSE Called("ok", after, IF f.gives = Given THEN first
                              ELSE IF f.gives > 0 THEN Val("func", f.gives) ELSE Data)

\* Append(symbol_table_): what the tables on the stack of t hold, as one table.
Copies(t) ==
  LET s == types[t].stack
  IN [a \in UNION {DOMAIN types[u].table : u \in Range(s)} |-> FirstIn(s, a)]

\* Constructor of the class t: an object of what the name of t means there, with
\* __init__ of the table of t alone.
Constructor(t, n) ==
  LET o == Len(objects) + 1
      class == Lookup(types[t].stack, types[t].name)
      made == Append(objects, [type |-> class, own |-> <<>>, snap |-> Copies(t), made |-> t])
      table == types[t].table
      init == Invoke(made, Wrapped(table["__init__"], o), n)
  IN IF types[t].abstract \/ class = Nothing THEN Called("thrown", objects, Nothing)
     ELSE IF "__init__" \notin DOMAIN table THEN Called("ok", made, Val("object", o))
     ELSE IF table["__init__"].k # "func" THEN Called("ok", made, Val("object", o))
     ELSE IF init.how # "ok" THEN Called("thrown", objects, Nothing)
     ELSE Called("ok", init.objects, Val("object", o))

\* FuncCallExecutor::Exec; an object is called through its method __call__.
Call(v, n) ==
  CASE v.k = "func" -> Invoke(objects, v, n)
    [] v.k = "class" -> Constructor(v.id, n)
    [] v.k = "maker" -> Constructor(v.id, n)
    [] v.k = "object" -> LET method == ObjectAttr(v.id, "__call__")
                         IN IF method.how # "ok" THEN Called(method.how, objects, Nothing)
                            ELSE IF method.v.k # "func" THEN Called("thrown", objects, Nothing)
                            ELSE Invoke(objects, method.v, n)
    [] OTHER -> Called("thrown", objects, Nothing)
-----------------------------------------------------------------------------
\* instanceof

\* What can be reached from each of a row, when to says what is next to it.
Reach(to) == LET r[t \in DOMAIN to] == {t} \cup UNION {r[u] : u \in to[t]} IN r

\* InstanceOfIface: only the first interface is asked, and what it extends.
FirstIface == [t \in DOMAIN types |-> IF types[t].ifaces = <<>> THEN {} ELSE {types[t].ifaces[1]}]

InstanceOf(t, u) == \E c \in Range(types[t].line) : u \in Reach(FirstIface)[c]
-----------------------------------------------------------------------------
\* Statements.  An exception is caught by the script, which goes on.

Init ==
  /\ session \in Sessions
  /\ main = session.main /\ types = <<>> /\ open = <<>> /\ objects = <<>>
  /\ status = "ok" /\ fuel = session.fuel
  /\ rebound = {} /\ patched = {} /\ grown = FALSE

Runs == status = "ok" /\ open = <<>> /\ fuel > 0 /\ fuel' = fuel - 1 /\ UNCHANGED session
Ends(how) == status' = IF how \in {"ok", "thrown"} THEN "ok" ELSE how
Says(op) == {st \in session.statements : st.op = op /\ st.on \in DOMAIN main}
\* The main table, which was table, becomes m.
Becomes(table, m) ==
  /\ main' = m
  /\ rebound' = rebound \cup {n \in DOMAIN table :
                                /\ table[n].k = "class"
                                /\ IF n \in DOMAIN m THEN m[n] # table[n] ELSE TRUE}
\* A value under the name to, which may be no name.
Binds(how, to, v) == Becomes(main, IF how = "ok" /\ to # "" THEN Assigned(main, to, v) ELSE main)

-----------------------------------------------------------------------------
\* Declarations: functions and interfaces in one step, classes member by member.

\* What the decorator v makes of a value: Nothing when it throws.
Decorated(v, target) ==
  LET gives == Shapes[v.id].gives
  IN IF v.k # "func" \/ gives = Throws THEN Nothing
     ELSE IF gives = Given THEN target
     ELSE IF gives > 0 THEN Val("func", gives)
     ELSE IF gives = Maker /\ target.k = "class" THEN Val("maker", target.id) ELSE Data

\* AnnotationExecutor::Exec: target is decorated, and the result registered in
\* table under name.
Annotated(by, target, table, name) ==
  LET result == Decorated(main[by], target)
  IN IF result = Nothing THEN table ELSE Registered(table, name, result)

DeclareFunc(d) ==
  /\ Runs /\ d.kind = "func"
  /\ Becomes(main, Registered(main, d.name, Val("func", d.f)))
  /\ UNCHANGED <<types, open, objects, status, patched, grown>>
AnnotateFunc(by, d) ==
  /\ Runs /\ d.kind = "func" /\ by \in DOMAIN main
  /\ Becomes(main, Annotated(by, Val("func", d.f), main, d.name))
  /\ UNCHANGED <<types, open, objects, status, patched, grown>>

\* InterfaceDeclExecutor::Exec: no method comes twice, from a base or its own.
DeclareInterface(d) ==
  LET bases == [k \in DOMAIN d.ifaces |-> Lookup(<<>>, d.ifaces[k])]
      from == [k \in DOMAIN bases |-> types[bases[k].id].methods]
      own == [k \in DOMAIN d.members |-> d.members[k].name]
      once == /\ \A j, k \in DOMAIN from : j # k => DOMAIN from[j] \cap DOMAIN from[k] = {}
              /\ \A k \in DOMAIN from : DOMAIN from[k] \cap Range(own) = {}
              /\ IsInjective(own)
      methods == [n \in Range(own) \cup UNION {DOMAIN from[k] : k \in DOMAIN from} |->
                    IF n \in Range(own)
                    THEN Signature(Val("func", d.members[CHOOSE k \in DOMAIN own : own[k] = n].f))
                    ELSE from[CHOOSE k \in DOMAIN from : n \in DOMAIN from[k]][n]]
      t == Len(types) + 1
  IN /\ Runs /\ d.kind = "iface"
     /\ IF (\A k \in DOMAIN bases : bases[k].k = "iface") /\ once
        THEN /\ types' = Append(types, [name |-> d.name, kind |-> "iface", line |-> <<t>>,
                                        ifaces |-> [k \in DOMAIN bases |-> bases[k].id],
                                        abstract |-> FALSE, final |-> TRUE, stack |-> <<t>>,
                                        table |-> <<>>, methods |-> methods])
             /\ Becomes(main, Registered(main, d.name, Val("iface", t)))
        ELSE UNCHANGED <<types, main, rebound>>
     /\ UNCHANGED <<open, objects, status, patched, grown>>

\* ClassDeclExecutor::Exec of d where the stack is s, up to its members.
Valid(d, s) ==
  /\ d.parent # "" => LET base == Lookup(s, d.parent) IN base.k = "class" /\ ~types[base.id].final
  /\ \A k \in DOMAIN d.ifaces : Lookup(s, d.ifaces[k]).k = "iface"
NewDeclType(d, s) ==
  LET t == Len(types) + 1
      base == Lookup(s, d.parent)
  IN [name |-> d.name, kind |-> "class",
      line |-> <<t>> \o (IF d.parent = "" THEN <<>> ELSE types[base.id].line),
      ifaces |-> [k \in DOMAIN d.ifaces |-> Lookup(s, d.ifaces[k]).id],
      abstract |-> d.abstract, final |-> d.final, stack |-> <<t>> \o s,
      table |-> <<>>, methods |-> <<>>]
Begun(d, by) == [t |-> Len(types) + 1, left |-> d.members, by |-> by]

\* by is the decorator in the main program, or "".
DeclareClass(by, d) ==
  /\ Runs /\ d.kind = "class" /\ (by = "" \/ by \in DOMAIN main)
  /\ IF Valid(d, <<>>) THEN types' = Append(types, NewDeclType(d, <<>>)) /\ open' = <<Begun(d, by)>>
     ELSE UNCHANGED <<types, open>>
  /\ UNCHANGED <<main, rebound, objects, status, patched, grown>>

Inner == open[Len(open)]
Upper == SubSeq(open, 1, Len(open) - 1)
Further == [Inner EXCEPT !.left = Tail(@)]
Declaring == open # <<>> /\ UNCHANGED <<session, objects, status, fuel, patched, grown>>
\* An exception ends the declaration, which leaves nothing.
Thrown == types' = SubSeq(types, 1, open[1].t - 1) /\ open' = <<>> /\ UNCHANGED <<main, rebound>>

\* What a member of the class under declaration comes to; an annotated class
\* is looked up under another name than it has.
MemberValue(m) ==
  LET around == Tail(types[Inner.t].stack)
  IN IF m.kind = "method" THEN Val("func", m.f)
     ELSE IF m.kind = "marked" THEN Decorated(Lookup(around, m.by), Val("func", m.f))
     ELSE IF m.kind = "var" THEN Lookup(around, m.from) ELSE Nothing
ExecMember ==
  LET m == Head(Inner.left)
      v == MemberValue(m)
  IN /\ Declaring /\ Inner.left # <<>> /\ m.kind # "class"
     /\ IF m.kind # "bare" /\ v = Nothing THEN Thrown
        ELSE /\ types' = IF m.kind = "bare" THEN types
                         ELSE [types EXCEPT ![Inner.t].table = Registered(@, m.name, v)]
             /\ open' = Append(Upper, Further)
             /\ UNCHANGED <<main, rebound>>
ExecInner ==
  LET m == Head(Inner.left)
      s == types[Inner.t].stack
  IN /\ Declaring /\ Inner.left # <<>> /\ m.kind = "class"
     /\ IF ~Valid(m.decl, s) THEN Thrown
        ELSE /\ types' = Append(types, NewDeclType(m.decl, s))
             /\ open' = Upper \o <<Further, Begun(m.decl, "")>>
             /\ UNCHANGED <<main, rebound>>

\* Mutant: only that there is a method of that name.
CompatibleByName(t) ==
  \A i \in Range(types[t].ifaces) : \A m \in DOMAIN types[i].methods : IsFunc(SearchAttr(t, m))

\* CheckInterfaceCompatibility: of an abstract class too, of its bases' not.
Compatible(t) ==
  \A i \in Range(types[t].ifaces) : \A m \in DOMAIN types[i].methods :
    LET v == SearchAttr(t, m) IN IsFunc(v) /\ Agree(types[i].methods[m], Signature(v))

\* The end of a declaration.  A class gets its name before it is decorated, and
\* whatever has the name then is decorated and removed.
CloseClass ==
  LET t == Inner.t
      name == types[t].name
      by == Inner.by
      named == Registered(main, name, Val("class", t))
  IN /\ Declaring /\ Inner.left = <<>>
     /\ IF ~Compatible(t) THEN Thrown
        ELSE /\ open' = Upper
             /\ IF Len(open) > 1
                THEN /\ types' = [types EXCEPT ![Upper[Len(Upper)].t].table =
                                     Registered(@, name, Val("class", t))]
                     /\ UNCHANGED <<main, rebound>>
                ELSE /\ Becomes(named, IF by = "" THEN named
                                       ELSE Annotated(by, named[name], Without(named, name), name))
                     /\ UNCHANGED types
-----------------------------------------------------------------------------
\* to = on
Let(st) ==
  /\ Runs /\ Binds("ok", st.to, main[st.on])
  /\ UNCHANGED <<types, open, objects, status, patched, grown>>
\* del on
Del(st) ==
  /\ Runs /\ Becomes(main, Without(main, st.on))
  /\ UNCHANGED <<types, open, objects, status, patched, grown>>
\* to = on.attr
Get(st) ==
  /\ Runs
  /\ LET got == Attr(main[st.on], st.attr)
     IN Ends(got.how) /\ Binds(got.how, st.to, got.v)
  /\ UNCHANGED <<types, open, objects, patched, grown>>
\* to = on(n arguments)
New(st) ==
  /\ Runs
  /\ LET out == Call(main[st.on], st.n)
     IN Ends(out.how) /\ objects' = out.objects /\ Binds(out.how, st.to, out.v)
  /\ UNCHANGED <<types, open, patched, grown>>
\* on.attr(n arguments); an operator of an object is this with its method.
CallMethod(st) ==
  /\ Runs
  /\ LET got == Attr(main[st.on], st.attr)
         out == IF got.how = "ok" THEN Call(got.v, st.n) ELSE Called(got.how, objects, Nothing)
     IN Ends(out.how) /\ objects' = out.objects
  /\ UNCHANGED <<main, rebound, types, open, patched, grown>>
\* on.attr = value of to: AttrAssign.  A class takes it where its attribute is.
Put(st) ==
  /\ Runs /\ st.to \in DOMAIN main
  /\ LET v == main[st.on]
         line == types[v.id].line
         k == Nearest(line, st.attr)
     IN CASE v.k = "object" ->
               /\ objects' = [objects EXCEPT ![v.id].own = Assigned(@, st.attr, main[st.to])]
               /\ UNCHANGED <<types, patched>>
          [] v.k = "class" /\ k # 0 ->
               /\ types' = [types EXCEPT ![line[k]].table = Assigned(@, st.attr, main[st.to])]
               /\ patched' = patched \cup {line[k]}
               /\ UNCHANGED objects
          [] OTHER -> UNCHANGED <<types, objects, patched>>
  /\ UNCHANGED <<main, rebound, open, status, grown>>
\* on.attr += 1: a field that is not there is made, and is no object to add to.
Add(st) ==
  /\ Runs
  /\ LET v == main[st.on]
         absent == v.k = "object" /\ st.attr \notin DOMAIN objects[v.id].own
     IN Ends(IF absent THEN "crash" ELSE "ok") /\ grown' = (grown \/ absent)
  /\ UNCHANGED <<main, rebound, types, open, objects, patched>>
\* on instanceof attr
Ask(st) ==
  /\ Runs
  /\ Ends(IF main[st.on].k = "object" /\ ~HasType(main[st.on].id) THEN "crash" ELSE "ok")
  /\ UNCHANGED <<main, rebound, types, open, objects, patched, grown>>

Next ==
  \/ \E d \in session.declarations :
       \/ DeclareFunc(d) \/ DeclareInterface(d) \/ DeclareClass("", d)
       \/ \E by \in session.decorators : AnnotateFunc(by, d) \/ DeclareClass(by, d)
  \/ ExecMember \/ ExecInner \/ CloseClass
  \/ \E st \in Says("let") : Let(st)
  \/ \E st \in Says("del") : Del(st)
  \/ \E st \in Says("get") : Get(st)
  \/ \E st \in Says("new") : New(st)
  \/ \E st \in Says("call") : CallMethod(st)
  \/ \E st \in Says("put") : Put(st)
  \/ \E st \in Says("add") : Add(st)
  \/ \E st \in Says("ask") : Ask(st)

Spec == Init /\ [][Next]_vars
-----------------------------------------------------------------------------
\* Properties

\* The name of the class t leads to something else: a member of it has the
\* name, or what held it under the name was assigned or deleted.
Astray(t) ==
  \/ types[t].name \in DOMAIN types[t].table
  \/ IF Len(types[t].stack) = 1 THEN types[t].name \in rebound ELSE types[t].stack[2] \in patched

(* An object is of the class it was made with, which is not abstract and is *)
(* there as long as the object is, unless the name of the class came to     *)
(* stand for something else or a member has that name: the constructor      *)
(* finds the class by its name, and the object has a weak pointer to it     *)
(* (object-factory.h NewDeclObject).                                        *)
KeepsItsClass ==
  \A o \in {i \in DOMAIN objects : <<"object", i>> \in Alive} :
    LET t == objects[o].made
    IN ~Astray(t) => /\ objects[o].type = Val("class", t)
                     /\ ~types[t].abstract
                     /\ HasType(o)

(* What an object answers for its fields and for the attributes of its own  *)
(* class changes only when a field of it is assigned, whatever is assigned  *)
(* to the class, declared or bound later: test/interpreter/oop/var_decl.sh. *)
ObjectsKeep ==
  [][\A o \in DOMAIN objects :
       objects'[o].own = objects[o].own =>
         \A a \in DOMAIN objects[o].own \cup DOMAIN objects[o].snap :
           ObjectAttr(o, a)' = ObjectAttr(o, a)]_vars

\* What t has to implement, by what it extends and implements.
Ifaces == [t \in DOMAIN types |-> Range(types[t].ifaces)]
Promised(t) == Reach(Ifaces)[t] \ {t}
Undeclared == {open[k].t : k \in DOMAIN open}

\* A class has the methods of the interfaces of its own list, and of those they
\* extend, unless an attribute of the class or its bases was assigned: the
\* nearest class that has an attribute of the name has a function.
Implements ==
  \A t \in DOMAIN types \ Undeclared :
    types[t].kind = "class" /\ Range(types[t].line) \cap patched = {} =>
      \A i \in Promised(t) : \A m \in DOMAIN types[i].methods :
        \E k \in DOMAIN types[t].line :
          LET table == types[types[t].line[k]].table
          IN /\ \A j \in 1 .. k - 1 : m \notin DOMAIN types[types[t].line[j]].table
             /\ m \in DOMAIN table /\ IsFunc(table[m])
             /\ Signature(table[m]).params = types[i].methods[m].params

\* The classes and interfaces a type is, by what is written.
Parents ==
  [t \in DOMAIN types |->
     Range(types[t].ifaces) \cup (IF Len(types[t].line) > 1 THEN {types[t].line[2]} ELSE {})]
Ancestors(t) == Reach(Parents)[t]

\* instanceof tells no ancestor too many, and all where no list has two.
InstanceOfIsAncestor ==
  \A t \in DOMAIN types : types[t].kind = "class" =>
    \A u \in DOMAIN types :
      /\ InstanceOf(t, u) => u \in Ancestors(t)
      /\ (\A c \in Ancestors(t) : Len(types[c].ifaces) <= 1) => (u \in Ancestors(t) => InstanceOf(t, u))

(* A class has every method that the interfaces of its own list, and those  *)
(* these extend, promise, with as many parameters, whatever its bases have  *)
(* under the name; instanceof names the classes and interfaces a class is   *)
(* of, those of its bases included (for lists of two interfaces none too    *)
(* many).  A class that extends another need not keep what that one's       *)
(* interfaces promise, though instanceof tells them of it:                  *)
(* CheckInterfaceCompatibility looks at Interfaces() of one class.          *)
InterfacesKept == Implements /\ InstanceOfIsAncestor

(* The process ends only for what the code is known not to guard: the name  *)
(* of a class taken away from it, or from it to a member, with objects of   *)
(* it; a wrapped method or a built-in function where an object looks for a  *)
(* name that is asked of it first, in its own table, its copies of those of *)
(* its class, or the main program; += on a field that is not there.         *)
OnlyTheUnguarded ==
  LET asked == {"__call__"} \cup {st.attr : st \in session.statements}
      cast(table) == {n \in DOMAIN table : ~Declared(table[n])} \cap asked
  IN status # "ok" =>
       \/ grown
       \/ \E o \in DOMAIN objects :
            Astray(objects[o].made) \/ cast(objects[o].own) \cup cast(objects[o].snap) # {}
       \/ cast(main) # {}
=============================================================================
