---------------------------- MODULE MCContainers ----------------------------
(* Scripts for Containers: the objects and names they start with, and the   *)
(* statements they are made of, each in every order.                        *)
EXTENDS Containers

Say(op, on, args) == [op |-> op, on |-> on, args |-> args, to |-> ""]
Let(to, op, on, args) == [op |-> op, on |-> on, args |-> args, to |-> to]

\* Three numbers out of order, and a text among them.
Arrays ==
  [heap |-> <<NewInt(2), NewInt(1), NewInt(0), NewString(<<1>>), NewBool(TRUE), NewBool(FALSE),
              NewInt(-2), NewArray(<<1, 2, 3>>), NewArray(<<4, 1>>), NewSlice(1, Absent, Absent)>>,
   env |-> [n2 |-> 1, n1 |-> 2, n0 |-> 3, s |-> 4, t |-> 5, f |-> 6, back |-> 7, a |-> 8, b |-> 9,
            cut |-> 10, e |-> 3, v |-> 3],
   statements |->
     {Say("append", "a", <<"n1">>), Say("remove", "a", <<"n1">>), Say("remove", "b", <<"n2">>),
      Say("pop", "a", <<"n0">>), Say("insert", "a", <<"n1", "n2">>), Say("del", "a", <<"n1">>),
      Say("del", "a", <<"cut">>), Say("set", "a", <<"n0", "n1">>), Let("v", "get", "a", <<"back">>),
      Let("v", "get", "a", <<"cut">>), Say("extend", "a", <<"b">>), Say("clear", "a", <<>>),
      Say("reverse", "a", <<>>), Let("v", "index", "a", <<"n1">>), Let("v", "count", "b", <<"n1">>),
      Let("v", "add", "a", <<"b">>), Let("b", "copy", "a", <<>>), Say("in", "a", <<"e">>),
      Say("equal", "a", <<"b">>),
      Say("for", "a", <<>>), Say("for_each", "a", <<>>), Let("v", "map", "a", <<>>),
      Say("filter", "a", <<>>), Say("sort", "a", <<>>), Say("sort", "b", <<>>), Say("sortby", "a", <<>>)},
   results |-> {"t", "f", "n1"},
   fuel |-> 2]
\* The same, with fewer statements and more of them.
Loops ==
  [Arrays EXCEPT
     !.statements = {Say("append", "a", <<"n1">>), Say("remove", "a", <<"n1">>), Say("reverse", "a", <<>>),
                     Say("set", "a", <<"n0", "s">>), Say("for", "a", <<>>), Let("v", "map", "a", <<>>),
                     Say("filter", "a", <<>>), Say("sort", "a", <<>>), Say("sortby", "a", <<>>)},
     !.results = {"t", "f"}, !.fuel = 3]

\* Keys that meet in one bucket, 1 and true, and keys that do not.
Maps ==
  [heap |-> <<NewInt(1), NewBool(TRUE), NewInt(2), NewString(<<1>>), NewArray(<<1>>), NewMap(<<>>),
              NewMap(<<[hash |-> 2, list |-> <<<<3, 1>>>>], [hash |-> 1, list |-> <<<<1, 3>>>>]>>),
              NewTuple(<<1, 3>>)>>,
   env |-> [one |-> 1, t |-> 2, two |-> 3, s |-> 4, l |-> 5, m |-> 6, o |-> 7, p |-> 8, e |-> 1, v |-> 1],
   statements |->
     {Say("set", "m", <<k, v>>) : k \in {"one", "t", "s", "l"}, v \in {"two"}}
       \cup {Say("set", "o", <<"s", "one">>), Say("set", "o", <<"one", "s">>), Say("set", "m", <<"e", "one">>)}
       \cup {Let("v", "get", "m", <<k>>) : k \in {"one", "t"}}
       \cup {Say("del", "m", <<"one">>), Say("del", "o", <<"two">>), Say("del", "m", <<"s">>),
             Say("in", "m", <<"one">>), Say("exists", "m", <<"t">>), Let("v", "add", "o", <<"m">>),
             Let("m", "dict", "m", <<"one", "s", "s", "one">>), Let("m", "copy", "o", <<>>),
             Let("v", "keys", "o", <<>>), Let("v", "values", "m", <<>>), Say("update", "m", <<"o">>),
             Say("clear", "o", <<>>), Say("append", "l", <<"two">>), Say("to_upper", "s", <<>>),
             Say("set", "o", <<"p", "one">>), Let("v", "iter", "o", <<>>), Say("for", "v", <<>>),
             Say("for", "o", <<>>), Say("for", "p", <<>>), Say("for", "m", <<>>), Say("filter", "o", <<>>)},
   results |-> {"t", "one", "l"},
   fuel |-> 2]
Keys ==
  [Maps EXCEPT
     !.statements = {Say("set", "m", <<k, "two">>) : k \in {"one", "t", "s", "l"}}
       \cup {Say("del", "m", <<"one">>), Say("del", "m", <<"s">>), Say("update", "m", <<"o">>),
             Let("v", "get", "m", <<"t">>), Let("m", "add", "m", <<"o">>), Say("filter", "m", <<>>),
             Say("for", "m", <<>>), Let("m", "dict", "m", <<"one", "s", "s", "one">>)},
     !.fuel = 3]

\* Texts that are changed in place, under several names and as keys.
Strings ==
  [heap |-> <<NewString(<<0, 1, 2, 1, 0>>), NewString(<<1>>), NewString(<<>>), NewInt(0), NewInt(5),
              NewMap(<<>>), NewArray(<<2, 1>>), NewSlice(1, -1, Absent), NewSlice(0, Absent, 0)>>,
   env |-> [s |-> 1, c |-> 2, none |-> 3, zero |-> 4, five |-> 5, m |-> 6, l |-> 7, cut |-> 8,
            still |-> 9, e |-> 2, v |-> 2],
   statements |->
     {Say(op, "s", <<>>) : op \in {"to_lower", "to_upper", "trim", "trim_left", "trim_right"}}
       \cup {Let("v", op, "s", <<"c">>) : op \in {"find", "count", "ends_with", "split", "erase_all"}}
       \cup {Say(op, "s", <<"c", "s">>) : op \in {"replace", "replace_first", "replace_last"}}
       \cup {Let("v", "at", "s", <<"zero">>), Let("v", "at", "s", <<"five">>), Let("v", "get", "s", <<"cut">>),
             Let("c", "get", "s", <<"zero">>), Let("v", "get", "s", <<"still">>), Let("v", "join", "l", <<"c">>),
             Let("v", "join", "v", <<"none">>), Let("v", "let", "s", <<>>), Say("set", "m", <<"s", "zero">>),
             Say("set", "m", <<"v", "five">>), Let("e", "get", "m", <<"s">>), Say("to_upper", "v", <<>>),
             Let("s", "add", "s", <<"c">>), Say("sort", "l", <<>>), Say("for_each", "l", <<>>),
             Say("trim", "e", <<>>)},
   results |-> {"c"},
   fuel |-> 2]

MCSessions == {Arrays, Loops, Maps, Keys, Strings}
=============================================================================
