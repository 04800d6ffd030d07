--------------------------- MODULE MCExpressions ---------------------------
(* Scripts for Expressions: the objects, names and functions they start     *)
(* with, and the statements they are made of, each in every order.          *)
EXTENDS Expressions

Id(name) == Node("id", name, 0, <<>>)
Num(n) == Node("int", "", n, <<>>)
True_ == Node("bool", "", 1, <<>>)
False_ == Node("bool", "", 0, <<>>)
Null == Node("null", "", 0, <<>>)
Str(n) == Node("string", "", n, <<>>)
Op(op, kids) == Node(op, "", 0, kids)
Array(kids) == Op("ARRAY", kids)
Call(name, kid) == Node("call", name, 0, <<kid>>)
Method_(name, kids) == Node("method", name, 0, kids)
Attr(name) == Node("attr", "k", 0, <<Id(name)>>)
For(name, kid) == Node("for", name, 0, <<kid>>)
Comp(n, kids) == Node("comp", "", n, kids)
LetIs(left, right) == Node("let", "", Len(left), left \o right)

Set(name, e) == [left |-> <<Id(name)>>, kind |-> "=", right |-> <<e>>]
Change(e, kind, v) == [left |-> <<e>>, kind |-> kind, right |-> <<v>>]
Say(e) == [left |-> <<>>, kind |-> "=", right |-> <<e>>]
Both(e1, e2, right) == [left |-> <<e1, e2>>, kind |-> "=", right |-> right]

\* x = 1; s and a[1] are texts, a = [0, "c", 2] and o an object with k = 1; u, v
\* and w are not there, and w never is.
Things ==
  [heap |-> <<NewInt(1), NewString(<<1>>), NewInt(0), NewString(<<3>>), NewInt(2), NewArray(<<3, 4, 5>>),
              Object("OBJECT", 0, <<8>>, <<>>), NewInt(1), NewBool(TRUE), NewMap(<<>>), NewNull,
              NewInt(2), NewArray(<<6>>)>>,
   main |-> [x |-> 1, s |-> 2, a |-> 6, o |-> 7, t |-> 9, m |-> 10, z |-> 11, l |-> 13, u |-> Hole, v |-> Hole,
             w |-> Hole, p |-> Hole] @@ (Acc :> Hole),
   functions |-> [id |-> [param |-> "p", body |-> Id("p")],
                  no |-> [param |-> "p", body |-> Op("&&", <<Id("p"), False_>>)],
                  bad |-> [param |-> "p", body |-> Id("w")],
                  old |-> [param |-> "p", body |-> Comp(-1, <<Op("+", <<Id("v"), Id("p")>>), For("v", Array(<<Num(1), Num(2)>>))>>)]],
   statements |-> {}, fuel |-> 2]

\* One of every kind, and operators of every two of some.
Atoms == {Id("x"), Id("s"), Id("t"), False_, Id("w"), Call("id", Id("x")), Call("no", Id("t")), Call("bad", Id("x"))}
Pure ==
  {Op(op, <<e, f>>) : op \in {"+", "==", "&&", "||", "<"}, e \in Atoms, f \in Atoms}
    \cup {Op("ifelse", <<e, f, Call("id", Id("s"))>>) : e \in Atoms, f \in {Id("a"), Call("bad", Num(1))}}
    \cup {Op("index", <<Id("a"), e>>) : e \in {Id("x"), Num(-1), Num(3), Attr("o"), Op("minus", <<Id("x")>>), Call("id", Num(1))}}
    \cup {Array(<<e, Op("spread", <<Id("a")>>), Call("id", Id("s"))>>) : e \in Atoms}
    \cup {Op("not", <<Call("no", Id("t"))>>), Attr("o"), Attr("x"), Op("+", <<Id("a"), Id("a")>>),
          Op("-", <<Id("x"), Attr("o")>>), Op("*", <<Id("x"), Num(3)>>)}
    \cup {Comp(1, <<Array(<<Id("v"), Id("u")>>), For("v", Id("a")), For("u", Id("a"))>>),
          Comp(1, <<Call("id", Id("v")), For("v", Id("a")), Op("if", <<Op("<", <<Id("v"), Id("x")>>)>>)>>),
          Comp(1, <<Id("u"), For("v", Id("l")), For("u", Id("v")), Op("if", <<Op("==", <<Id("u"), Num(2)>>)>>)>>),
          Comp(1, <<Op("+", <<Id("v"), Num(1)>>), For("v", Id("a"))>>),
          Comp(1, <<Call("bad", Id("v")), For("v", Id("a"))>>)}
Tests == {Call("no", Id("t")), Call("id", Id("t")), Op("==", <<Id("x"), Num(1)>>), Call("bad", Id("x"))}
Deep == {Op(op, <<e, Op(op2, <<f, g>>)>>) : op \in {"&&", "||", "=="}, op2 \in {"&&", "||"}, e \in Tests, f \in Tests, g \in Tests}
          \cup {Op(op, <<Op(op2, <<e, f>>), g>>) : op \in {"&&", "||"}, op2 \in {"&&", "=="}, e \in Tests, f \in Tests, g \in Tests}
Meanings == [Things EXCEPT !.statements = {Set("u", e) : e \in Pure \cup Deep}, !.fuel = 1]

\* Several targets, containers on the left, compound assignments and let.
Assignments ==
  [Things EXCEPT !.statements =
     {Both(Id("u"), Id("v"), right) :
        right \in {<<Id("s"), Id("x")>>, <<Id("s"), Id("w")>>, <<Id("a")>>, <<Array(<<Id("s"), Id("x")>>)>>, <<Id("x")>>,
                   <<Id("x"), Id("s"), Id("t")>>, <<Op("spread", <<Id("a")>>)>>, <<Id("x"), Call("bad", Id("x"))>>}}
       \cup {Both(Id("x"), Id("s"), <<Id("s"), Id("x")>>), Both(Id("x"), Op("index", <<Id("a"), Num(7)>>), <<Id("s"), Id("s")>>),
             [Set("u", Id("s")) EXCEPT !.right = <<Id("s"), Id("x")>>],
             Change(Op("index", <<Id("a"), Num(0)>>), "=", Op("index", <<Id("a"), Num(1)>>)),
             Change(Op("index", <<Id("a"), Num(1)>>), "+", Id("s")), Change(Id("s"), "+", Id("x")),
             Change(Id("x"), "%", Num(2)), Change(Id("w"), "+", Num(1)), Change(Id("x"), "<<", Num(1)),
             Change(Op("index", <<Id("m"), Id("s")>>), "=", Id("x")), Change(Attr("o"), "=", Id("s")),
             Change(Attr("o"), "+", Num(1)), Change(Op("TUPLE", <<Id("u"), Id("v")>>), "=", Id("a")),
             Set("u", LetIs(<<Id("v")>>, <<Id("s")>>)), Set("u", LetIs(<<Id("u"), Id("v")>>, <<Num(4), Id("s")>>)),
             Set("u", LetIs(<<Id("v")>>, <<Num(4), Id("s")>>)),
             Set("s", Id("u")), Set("v", Id("s")), Set("v", Op("index", <<Id("a"), Num(1)>>))}
       \cup {Set("u", e) : e \in
               {Op("map", <<Id("s"), Id("x"), Num(1), Id("a")>>), Op("group", <<Str(9), Id("x"), Id("s")>>),
                Op("group", <<Id("z"), Call("id", Id("x"))>>), Op("index", <<Id("a"), Op("slice", <<Op("none", <<>>), Num(2)>>)>>),
                Op("index", <<Id("a"), Op("slice", <<Id("s"), Num(2)>>)>>), Op("!", <<Call("no", Id("t"))>>),
                Op("~", <<Id("x")>>), Op("%", <<Id("x"), Num(0)>>), Op(">>", <<Id("x"), Num(1)>>), Op("is", <<Id("a"), Id("a")>>),
                Op("in", <<Id("x"), Id("a")>>), Op("in", <<Call("bad", Id("x")), Id("w")>>), Op("||", <<Id("z"), Call("no", Id("t"))>>),
                Call("old", Num(1)), Op("+", <<Node("real", "", 2, <<>>), Id("x")>>)}}
       \cup {Say(Method_("to_upper", <<Id("s")>>)), Say(Method_("append", <<Id("a"), Id("s")>>)),
             Say(Method_("to_upper", <<Op("index", <<Id("a"), Num(1)>>)>>)), Say(Call("bad", Id("s")))},
   !.fuel = 2]

\* Copies of one text, in names, elements, functions and lists.
Copies ==
  [Things EXCEPT !.statements =
     {Set("u", Id("s")), Set("v", Id("u")), Set("u", Array(<<Id("s"), Id("s")>>)), Set("v", Op("index", <<Id("u"), Num(0)>>)),
      Set("s", Op("index", <<Id("u"), Id("x")>>)), Set("u", Call("id", Id("s"))), Set("v", Op("ifelse", <<Id("t"), Id("s"), Id("u")>>)),
      Change(Op("index", <<Id("a"), Num(0)>>), "=", Op("index", <<Id("a"), Num(1)>>)),
      Change(Op("index", <<Id("a"), Num(1)>>), "=", Id("s")), Set("u", Comp(1, <<Id("w"), For("w", Id("a"))>>)),
      Both(Id("u"), Id("v"), <<Id("s"), Id("s")>>), Change(Id("s"), "+", Id("s")), Change(Attr("o"), "=", Id("s")), Set("v", Attr("o")),
      Set("v", Op("map", <<Id("s"), Id("s")>>)), Set("u", Op("index", <<Id("v"), Id("s")>>)),
      Set("l", Comp(1, <<Array(<<Id("w"), Id("s")>>), For("w", Id("a"))>>))},
   !.fuel = 4]

\* Comprehensions in comprehensions, over what they make and in functions.
Nests ==
  [Things EXCEPT !.statements =
     {Set("u", Comp(1, <<Id("v"), For("v", Comp(2, <<Id("w"), For("w", Id("a"))>>))>>)),
      Set("u", Comp(1, <<Comp(2, <<Id("w"), For("w", Id("a"))>>), For("v", Id("l"))>>)),
      Set("u", Comp(1, <<Comp(2, <<Id("w"), For("w", Id("a"))>>), For("v", Id("a"))>>)),
      Set("u", Comp(1, <<Id("x"), For("x", Id("a"))>>)), Set("u", Comp(1, <<LetIs(<<Id("v")>>, <<Id("w")>>), For("w", Id("a"))>>)),
      Set("v", Comp(1, <<Id("w"), For("w", Op("map", <<Id("x"), Id("s")>>))>>)), Set("v", Comp(1, <<Id("w"), For("w", Id("x"))>>)),
      Set("v", Call("old", Id("x"))), Set("v", Comp(1, <<Call("old", Id("w")), For("w", Id("a"))>>)), Set("s", Id("x")),
      Set("v", Comp(1, <<Id("w"), For("w", Id("a")), Op("if", <<Id("l")>>)>>))},
   !.fuel = 3]

MCSessions == {Meanings, Assignments, Copies, Nests}
=============================================================================
