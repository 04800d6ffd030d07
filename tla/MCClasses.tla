----------------------------- MODULE MCClasses -----------------------------
(* Scripts for Classes: the functions and declarations they are made of,    *)
(* and the statements they say, each in every order.                        *)
EXTENDS Classes

Func(params, defaults, sets, gives) ==
  [params |-> params, defaults |-> defaults, variadic |-> FALSE, method |-> FALSE, static |-> FALSE,
   lambda |-> FALSE, builtin |-> FALSE, sets |-> sets, gives |-> gives]
Method(params, defaults, sets) == [Func(params, defaults, sets, Plain) EXCEPT !.method = TRUE]

Init0 == 1      \* __init__()
Init1 == 2      \* __init__(x)
None == 3       \* m()
One == 4        \* m(x)
Optional == 5   \* m(x = 1)
Rest == 6       \* m(x...)
Static == 7     \* static m(x)
Keeper == 8     \* a decorator that returns what it is given
Lambda == 9     \* a lambda
Wrapper == 10   \* a decorator that returns a lambda
ClassMaker == 11
Refuser == 12
BuiltIn == 13    \* print(args...), built in: a script that said show = print
MCShapes ==
  <<Method(0, 0, "a"), Method(1, 0, "a"), Method(0, 0, ""), Method(1, 0, "b"), Method(1, 1, ""),
    [Method(1, 0, "") EXCEPT !.variadic = TRUE], [Method(1, 0, "") EXCEPT !.static = TRUE],
    Func(1, 0, "", Given), [Func(0, 0, "", Plain) EXCEPT !.lambda = TRUE],
    Func(1, 0, "", Lambda), Func(1, 0, "", Maker), Func(1, 0, "", Throws),
    [Func(1, 0, "", Plain) EXCEPT !.variadic = TRUE, !.builtin = TRUE]>>

Has(name, f) == [kind |-> "method", name |-> name, f |-> f]
Marked(by, name, f) == [kind |-> "marked", by |-> by, name |-> name, f |-> f]
Field(name, from) == [kind |-> "var", name |-> name, from |-> from]
Nest(decl) == [kind |-> "class", decl |-> decl]
Bare(name) == [kind |-> "bare", name |-> name]
Class(name, parent, ifaces, members) ==
  [kind |-> "class", name |-> name, parent |-> parent, ifaces |-> ifaces, abstract |-> FALSE,
   final |-> FALSE, members |-> members]
Iface(name, ifaces, members) == [kind |-> "iface", name |-> name, ifaces |-> ifaces, members |-> members]
Function(name, f) == [kind |-> "func", name |-> name, f |-> f]

Do(op, on, attr, n, to) == [op |-> op, on |-> on, attr |-> attr, n |-> n, to |-> to]
Start == [keep |-> Val("func", Keeper), wrap |-> Val("func", Wrapper), made |-> Val("func", ClassMaker),
          fail |-> Val("func", Refuser), show |-> Val("func", BuiltIn), x |-> Data]

\* A class, one that extends it, objects, and what is assigned, deleted and bound meanwhile.
Family ==
  [main |-> Start,
   declarations |->
     {Class("A", "", <<>>, <<Has("__init__", Init0), Has("m", None), Field("v", "x"), Bare("z")>>),
      Class("B", "A", <<>>, <<Has("n", One), Has("__call__", Optional)>>),
      Class("A", "", <<>>, <<Has("m", One), Field("z", "show")>>)},
   decorators |-> {},
   statements |->
     {Do("new", "A", "", 0, "o"), Do("new", "B", "", 0, "p"), Do("call", "p", "m", 0, ""),
      Do("get", "p", "m", 0, "m"), Do("call", "p", "__call__", 0, ""), Do("put", "A", "v", 0, "x"),
      Do("put", "p", "m", 0, "x"), Do("put", "B", "m", 0, "keep"), Do("let", "B", "", 0, "A"),
      Do("del", "A", "", 0, ""), Do("del", "B", "", 0, ""), Do("add", "o", "a", 0, ""), Do("add", "o", "v", 0, ""),
      Do("ask", "p", "", 0, ""), Do("call", "o", "m", 0, ""), Do("call", "B", "m", 1, ""),
      Do("get", "p", "n", 0, "w"), Do("put", "A", "m", 0, "w"),
      Do("put", "A", "m", 0, "show"), Do("call", "A", "m", 1, "")},
   fuel |-> 7]
\* Classes in classes, of the same names as others.
Nested ==
  [main |-> Start,
   declarations |->
     {Class("A", "", <<>>, <<Nest(Class("B", "", <<>>, <<Has("m", One)>>)), Nest(Class("C", "B", <<>>, <<>>))>>),
      Class("B", "", <<>>, <<Field("A", "x"), Has("__init__", Init1)>>),
      Class("D", "A", <<>>, <<Nest(Class("D", "D", <<>>, <<>>))>>),
      [Class("D", "B", <<>>, <<Has("m", Static)>>) EXCEPT !.abstract = TRUE],
      [Class("C", "", <<>>, <<Nest(Class("C", "", <<>>, <<>>))>>) EXCEPT !.final = TRUE],
      Class("E", "C", <<>>, <<>>)},
   decorators |-> {},
   statements |->
     {Do("get", "A", "B", 0, "p"), Do("get", "A", "C", 0, "q"), Do("new", "p", "", 0, "o"),
      Do("new", "q", "", 0, "o"), Do("new", "B", "", 1, "o"), Do("new", "D", "", 0, "o"), Do("new", "C", "", 0, "o"),
      Do("del", "A", "", 0, ""), Do("put", "A", "B", 0, "x"), Do("call", "o", "m", 1, ""), Do("new", "o", "", 0, ""), Do("let", "x", "", 0, "p"),
      Do("ask", "o", "", 0, "")},
   fuel |-> 6]
\* Interfaces, and classes that implement them or not.
Interfaces ==
  [main |-> Start,
   declarations |->
     {Iface("I", <<>>, <<Has("m", One)>>), Iface("J", <<"I">>, <<Has("n", None)>>),
      Iface("K", <<"I", "J">>, <<>>), Iface("K", <<>>, <<Has("m", Rest)>>),
      Class("A", "", <<"I">>, <<Has("m", Optional)>>), Class("A", "", <<"I">>, <<Field("m", "show")>>),
      Class("A", "", <<"J", "K">>, <<Has("m", Rest), Has("n", None)>>),
      Class("B", "A", <<"J">>, <<Has("n", None)>>), Class("B", "A", <<"J">>, <<Has("m", None), Has("n", None)>>),
      Class("C", "B", <<"I">>, <<Has("m", Static)>>), Class("C", "B", <<>>, <<Has("m", Static)>>)},
   decorators |-> {},
   statements |-> {Do("new", "B", "", 0, "o"), Do("call", "o", "m", 1, ""), Do("call", "I", "m", 0, ""),
                   Do("ask", "o", "I", 0, ""), Do("put", "A", "m", 0, "x"), Do("new", "I", "", 0, "o")},
   fuel |-> 5]
\* Decorators of methods, functions and classes.
Decorators ==
  [main |-> Start,
   declarations |->
     {Class("A", "", <<>>, <<Marked("keep", "m", None), Marked("wrap", "n", None), Has("__init__", Init0)>>),
      Class("B", "A", <<>>, <<Marked("fail", "m", None)>>), Class("B", "A", <<>>, <<Marked("wrap", "m", None)>>),
      Class("C", "B", <<>>, <<[kind |-> "marked class", name |-> "D"]>>), Function("B", Keeper)},
   decorators |-> {"keep", "wrap", "made", "fail", "A", "show"},
   statements |->
     {Do("new", "A", "", 0, "o"), Do("new", "B", "", 0, "o"), Do("new", "keep", "", 1, "x"),
      Do("call", "o", "m", 0, ""), Do("call", "o", "n", 0, ""), Do("put", "o", "k", 0, "show"),
      Do("call", "o", "k", 0, ""), Do("call", "o", "show", 1, ""),
      Do("ask", "o", "", 0, "")},
   fuel |-> 4]

MCSessions == {Family, Nested, Interfaces, Decorators}
Written == UNION {s.declarations : s \in MCSessions}
Within(ds) == UNION {{m.decl : m \in {n \in Range(d.members) : n.kind = "class"}} :
                       d \in {c \in ds : c.kind = "class"}}
MCDeclarations == Written \cup Within(Written) \cup Within(Within(Written))
=============================================================================
