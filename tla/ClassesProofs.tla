--------------------------- MODULE ClassesProofs ---------------------------
(***************************************************************************)
(* Proofs about Classes: which class an object is of, what it answers,     *)
(* what a class has of its interfaces, what instanceof tells, and what     *)
(* ends the process, for any functions, declarations and scripts.          *)
(***************************************************************************)
EXTENDS Classes, FiniteSetTheorems, WellFoundedInduction, TLAPS

-----------------------------------------------------------------------------
(* Types                                                                   *)

Kinds == {"class", "iface", "object", "func", "maker", "data"}
Values == [k : Kinds, id : Int, on : Seq(Nat)]
Tables == UNION {[D -> Values] : D \in SUBSET STRING}
Signatures == [params : Int, defaults : Int, variadic : BOOLEAN]
MethodTables == UNION {[D -> Signatures] : D \in SUBSET STRING}
TypeRecords ==
  [name : STRING, kind : {"class", "iface"}, line : Seq(Nat), ifaces : Seq(Nat), abstract : BOOLEAN,
   final : BOOLEAN, stack : Seq(Nat), table : Tables, methods : MethodTables]
ObjectRecords == [type : Values, own : Tables, snap : Tables, made : Nat]
Frames == [t : Nat, left : Seq(Members), by : {""} \cup STRING]

TypeOK ==
  /\ session \in Sessions
  /\ main \in Tables
  /\ types \in Seq(TypeRecords)
  /\ open \in Seq(Frames)
  /\ objects \in Seq(ObjectRecords)
  /\ status \in {"ok", "crash", "undefined"}
  /\ fuel \in Int
  /\ rebound \subseteq STRING
  /\ patched \subseteq Nat
  /\ grown \in BOOLEAN

-----------------------------------------------------------------------------
(* The inductive invariant                                                 *)

\* The types that were there before the declaration under way, and those of
\* which the declaration has ended.
Settled == 1 .. (IF open = <<>> THEN Len(types) ELSE open[1].t - 1)
Whole == DOMAIN types \ Undeclared

\* The name of a class leads to it where it was declared, unless it was
\* assigned or deleted there.
Leads(table, n, t) == n \in DOMAIN table /\ table[n] = Val("class", t)
Named(t) ==
  IF Len(types[t].stack) = 1
  THEN types[t].name \in rebound \/ Leads(main, types[t].name, t)
  ELSE types[t].stack[2] \in patched \/ Leads(types[types[t].stack[2]].table, types[t].name, t)

\* The classes and the interfaces among T.
ClassesIn(T) == {t \in T : types[t].kind = "class" /\ Named(t)}
IfacesIn(T) == {t \in T : types[t].kind = "iface"}

\* A value is one of the classes C, interfaces I and objects 1 .. n.
Fits(v, C, I, n) ==
  /\ v.k \in {"class", "maker"} => v.id \in C
  /\ v.k = "iface" => v.id \in I
  /\ v.k = "func" => v.id \in DOMAIN Shapes
  /\ v.k = "object" => v.id \in 1 .. n
  /\ \A i \in DOMAIN v.on : v.on[i] \in 1 .. n
AllFit(table, C, I, n) == \A a \in DOMAIN table : Fits(table[a], C, I, n)

\* What a type is declared with came before it.
Lined(t) ==
  LET line == types[t].line
  IN /\ Len(line) > 0 /\ line[1] = t
     /\ types[t].kind = "iface" => Len(line) = 1
     /\ Len(line) > 1 => /\ line[2] \in (1 .. t - 1) \ Undeclared /\ types[line[2]].kind = "class"
                         /\ line = <<t>> \o types[line[2]].line
     /\ \A k \in 2 .. Len(line) : line[k] \in (1 .. t - 1) \ Undeclared /\ types[line[k]].kind = "class"
Stacked(t) ==
  LET stack == types[t].stack
  IN /\ Len(stack) > 0 /\ stack[1] = t
     /\ \A k \in 2 .. Len(stack) : stack[k] \in 1 .. t - 1 /\ types[stack[k]].kind = "class"
Extending(t) ==
  \A k \in DOMAIN types[t].ifaces :
    LET i == types[t].ifaces[k]
    IN /\ i \in 1 .. t - 1 /\ types[i].kind = "iface"
       /\ types[t].kind = "iface" =>
            \A m \in DOMAIN types[i].methods :
              m \in DOMAIN types[t].methods /\ types[t].methods[m] = types[i].methods[m]
Formed == \A t \in DOMAIN types : Lined(t) /\ Stacked(t) /\ Extending(t)

\* The classes under declaration stand in each other.
Opened ==
  /\ open # <<>> => status = "ok"
  /\ \A i \in DOMAIN open :
       /\ open[i].t \in DOMAIN types /\ types[open[i].t].kind = "class"
       /\ open[i].by \in {""} \cup DOMAIN main
       /\ types[open[i].t].stack =
            <<open[i].t>> \o (IF i = 1 THEN <<>> ELSE types[open[i - 1].t].stack)
       /\ \A j \in 1 .. i - 1 : open[j].t < open[i].t

\* What names, members and objects hold.
MainFits == AllFit(main, ClassesIn(Settled), IfacesIn(Settled), Len(objects))
TablesFit ==
  /\ \A t \in Settled : AllFit(types[t].table, ClassesIn(Settled), IfacesIn(Settled), Len(objects))
  /\ \A t \in DOMAIN types : AllFit(types[t].table, ClassesIn(Whole), IfacesIn(Whole), Len(objects))
ObjectsFit ==
  \A o \in DOMAIN objects :
    /\ AllFit(objects[o].own, ClassesIn(Settled), IfacesIn(Settled), Len(objects))
    /\ AllFit(objects[o].snap, ClassesIn(Settled), IfacesIn(Settled), Len(objects))
    /\ Fits(objects[o].type, ClassesIn(Settled), IfacesIn(Settled), Len(objects))

\* An object was made by a class that is not abstract, and keeps it.
Made(o) ==
  LET t == objects[o].made
  IN /\ t \in ClassesIn(Settled) /\ ~types[t].abstract
     /\ ~Astray(t) => /\ objects[o].type = Val("class", t)
                      /\ Len(types[t].stack) > 1 => Leads(objects[o].snap, types[t].name, t)
AllMade == \A o \in DOMAIN objects : Made(o)

\* A class whose declaration has ended has the methods of its interfaces.
Fulfils(t) == types[t].kind = "class" /\ Range(types[t].line) \cap patched = {} => Compatible(t)
AllFulfil == \A t \in Whole : Fulfils(t)

IInv ==
  /\ TypeOK /\ Formed /\ Opened
  /\ MainFits /\ TablesFit /\ ObjectsFit
  /\ AllMade /\ AllFulfil /\ OnlyTheUnguarded

-----------------------------------------------------------------------------
(* Tables and lookup                                                       *)

\* A set of numbers has a least one.
LEMMA Least ==
  ASSUME NEW T, T \subseteq Nat, T # {}
  PROVE  \E x \in T : \A y \in T : x <= y
<1>1. PICK x \in T : \A y \in T : ~ (<<y, x>> \in OpToRel(<, Nat))
  BY NatLessThanWellFounded, WFMin
<1>2. \A y \in T : ~(y < x)
  BY <1>1 DEF OpToRel
<1> QED BY <1>2

LEMMA NothingIsNoValue == Nothing \notin Values
BY DEF Nothing, Val, Values, Kinds

LEMMA ValIsValue ==
  ASSUME NEW k \in Kinds, NEW id \in Int
  PROVE  Val(k, id) \in Values /\ Val(k, id).k = k /\ Val(k, id).id = id /\ Val(k, id).on = <<>>
BY DEF Val, Values

LEMMA DataIsValue == Data \in Values /\ Data.k = "data"
<1>1. "data" \in Kinds /\ 0 \in Int
  BY DEF Kinds
<1> QED BY <1>1, ValIsValue DEF Data

LEMMA TableHas ==
  ASSUME NEW table \in Tables
  PROVE  /\ DOMAIN table \subseteq STRING
         /\ \A a \in DOMAIN table : table[a] \in Values /\ table[a] # Nothing
<1>1. PICK D \in SUBSET STRING : table \in [D -> Values]
  BY DEF Tables
<1>2. DOMAIN table = D /\ \A a \in D : table[a] \in Values
  BY <1>1
<1> QED BY <1>2, NothingIsNoValue

LEMMA TableFrom ==
  ASSUME NEW D, D \subseteq STRING, NEW table \in [D -> Values]
  PROVE  table \in Tables
BY DEF Tables

\* A table after n was given v, when it was not there before or at all events,
\* and after it was removed.
LEMMA TableRegistered ==
  ASSUME NEW table \in Tables, NEW n \in STRING, NEW v \in Values
  PROVE  /\ Registered(table, n, v) \in Tables
         /\ DOMAIN Registered(table, n, v) = DOMAIN table \cup {n}
<1> DEFINE T == Registered(table, n, v)
<1>1. T = [a \in DOMAIN table \cup {n} |-> IF a \in DOMAIN table THEN table[a] ELSE v]
  BY DEF Registered
<1>2. T \in [DOMAIN table \cup {n} -> Values]
  BY <1>1, TableHas
<1>3. DOMAIN table \cup {n} \subseteq STRING
  BY TableHas
<1>4. T \in Tables
  BY <1>2, <1>3, TableFrom
<1> QED BY <1>1, <1>4

LEMMA TableAssigned ==
  ASSUME NEW table \in Tables, NEW n \in STRING, NEW v \in Values
  PROVE  /\ Assigned(table, n, v) \in Tables
         /\ DOMAIN Assigned(table, n, v) = DOMAIN table \cup {n}
<1> DEFINE T == Assigned(table, n, v)
<1>1. T = [a \in DOMAIN table \cup {n} |-> IF a = n THEN v ELSE table[a]]
  BY DEF Assigned
<1>2. T \in [DOMAIN table \cup {n} -> Values]
  BY <1>1, TableHas
<1>3. DOMAIN table \cup {n} \subseteq STRING
  BY TableHas
<1>4. T \in Tables
  BY <1>2, <1>3, TableFrom
<1> QED BY <1>1, <1>4

LEMMA TableWithout ==
  ASSUME NEW table \in Tables, NEW n
  PROVE  /\ Without(table, n) \in Tables
         /\ DOMAIN Without(table, n) = DOMAIN table \ {n}
<1> DEFINE T == Without(table, n)
<1>1. T = [a \in DOMAIN table \ {n} |-> table[a]]
  BY DEF Without, Restrict
<1>2. T \in [DOMAIN table \ {n} -> Values]
  BY <1>1, TableHas
<1>3. DOMAIN table \ {n} \subseteq STRING
  BY TableHas
<1>4. T \in Tables
  BY <1>2, <1>3, TableFrom
<1> QED BY <1>1, <1>4

\* The nearest class that has an attribute: none has it, or no nearer one.
LEMMA NearestIs ==
  ASSUME NEW s \in Seq(Nat), NEW a
  PROVE  \/ /\ Nearest(s, a) = 0
            /\ \A j \in DOMAIN s : a \notin DOMAIN types[s[j]].table
         \/ /\ Nearest(s, a) \in DOMAIN s /\ Nearest(s, a) # 0
            /\ a \in DOMAIN types[s[Nearest(s, a)]].table
            /\ \A j \in 1 .. Nearest(s, a) - 1 : a \notin DOMAIN types[s[j]].table
<1> DEFINE having == {k \in DOMAIN s : a \in DOMAIN types[s[k]].table}
<1>1. CASE having = {}
  BY <1>1 DEF Nearest
<1>2. CASE having # {}
  <2>1. having \subseteq Nat /\ 0 \notin having
    OBVIOUS
  <2>2. \E k \in having : \A j \in having : k <= j
    BY <1>2, <2>1, Least
  <2>3. Nearest(s, a) \in having /\ \A j \in having : Nearest(s, a) <= j
    <3>1. Nearest(s, a) = CHOOSE k \in having : \A j \in having : k <= j
      BY <1>2 DEF Nearest
    <3> HIDE DEF having
    <3> QED BY <2>2, <3>1
  <2>4. \A j \in 1 .. Nearest(s, a) - 1 : j \in DOMAIN s /\ j \notin having
    BY <2>1, <2>3
  <2> QED BY <2>1, <2>3, <2>4
<1> QED BY <1>1, <1>2

LEMMA FirstInIs ==
  ASSUME NEW s \in Seq(Nat), NEW a,
         \A j \in DOMAIN s : s[j] \in DOMAIN types /\ types[s[j]].table \in Tables
  PROVE  \/ /\ FirstIn(s, a) = Nothing
            /\ \A j \in DOMAIN s : a \notin DOMAIN types[s[j]].table
         \/ \E k \in DOMAIN s :
              /\ a \in DOMAIN types[s[k]].table
              /\ \A j \in 1 .. k - 1 : a \notin DOMAIN types[s[j]].table
              /\ FirstIn(s, a) = types[s[k]].table[a]
              /\ FirstIn(s, a) \in Values /\ FirstIn(s, a) # Nothing
<1>1. CASE Nearest(s, a) = 0 /\ \A j \in DOMAIN s : a \notin DOMAIN types[s[j]].table
  BY <1>1 DEF FirstIn
<1>2. CASE /\ Nearest(s, a) \in DOMAIN s /\ Nearest(s, a) # 0
           /\ a \in DOMAIN types[s[Nearest(s, a)]].table
           /\ \A j \in 1 .. Nearest(s, a) - 1 : a \notin DOMAIN types[s[j]].table
  <2>1. FirstIn(s, a) = types[s[Nearest(s, a)]].table[a]
    BY <1>2 DEF FirstIn
  <2>2. FirstIn(s, a) \in Values /\ FirstIn(s, a) # Nothing
    BY <1>2, <2>1, TableHas
  <2> QED BY <1>2, <2>1, <2>2
<1> QED BY <1>1, <1>2, NearestIs

-----------------------------------------------------------------------------
(* What fits                                                               *)

LEMMA FitsMore ==
  ASSUME NEW v, NEW C, NEW I, NEW n \in Nat, NEW C2, NEW I2, NEW n2 \in Nat,
         C \subseteq C2, I \subseteq I2, n <= n2, Fits(v, C, I, n)
  PROVE  Fits(v, C2, I2, n2)
BY DEF Fits

LEMMA AllFitMore ==
  ASSUME NEW table, NEW C, NEW I, NEW n \in Nat, NEW C2, NEW I2, NEW n2 \in Nat,
         C \subseteq C2, I \subseteq I2, n <= n2, AllFit(table, C, I, n)
  PROVE  AllFit(table, C2, I2, n2)
BY FitsMore DEF AllFit

LEMMA FitsPlain ==
  ASSUME NEW C, NEW I, NEW n \in Nat
  PROVE  /\ Fits(Data, C, I, n) /\ Fits(Nothing, C, I, n)
         /\ \A f \in DOMAIN Shapes : Fits(Val("func", f), C, I, n)
         /\ \A o \in 1 .. n : Fits(Val("object", o), C, I, n)
         /\ \A t \in C : Fits(Val("class", t), C, I, n) /\ Fits(Val("maker", t), C, I, n)
         /\ \A t \in I : Fits(Val("iface", t), C, I, n)
BY DEF Fits, Data, Nothing, Val

\* A wrapper fits when what it wraps does, and the object is there.
LEMMA WrappedFits ==
  ASSUME NEW v \in Values, NEW C, NEW I, NEW n \in Nat, NEW o \in 1 .. n, Fits(v, C, I, n)
  PROVE  /\ Fits(Wrapped(v, o), C, I, n)
         /\ Wrapped(v, o) \in Values /\ Wrapped(v, o).k = v.k /\ Wrapped(v, o).id = v.id
         /\ Wrapped(v, o).on = <<o>> \o v.on
<1>1. /\ Wrapped(v, o) \in Values /\ Wrapped(v, o).k = v.k /\ Wrapped(v, o).id = v.id
      /\ Wrapped(v, o).on = <<o>> \o v.on
  <2>1. v.on \in Seq(Nat) /\ o \in Nat
    BY DEF Values
  <2>2. <<o>> \o v.on \in Seq(Nat)
    BY <2>1
  <2>3. Wrapped(v, o) = [v EXCEPT !.on = <<o>> \o v.on]
    BY DEF Wrapped
  <2> DEFINE on == <<o>> \o v.on
  <2> HIDE DEF on
  <2> QED BY <2>2, <2>3 DEF Values, on
<1>2. v.on \in Seq(Nat) /\ \A i \in DOMAIN v.on : v.on[i] \in 1 .. n
  BY DEF Values, Fits
<1>3. \A i \in DOMAIN (<<o>> \o v.on) : (<<o>> \o v.on)[i] \in 1 .. n
  BY <1>2
<1> QED BY <1>1, <1>3 DEF Fits

-----------------------------------------------------------------------------
(* Types of what there is                                                  *)

LEMMA TypeFields ==
  ASSUME NEW r \in TypeRecords
  PROVE  /\ r.name \in STRING /\ r.kind \in {"class", "iface"} /\ r.line \in Seq(Nat) /\ r.ifaces \in Seq(Nat)
         /\ r.abstract \in BOOLEAN /\ r.final \in BOOLEAN /\ r.stack \in Seq(Nat)
         /\ r.table \in Tables /\ r.methods \in MethodTables
BY DEF TypeRecords

LEMMA ObjectFields ==
  ASSUME NEW r \in ObjectRecords
  PROVE  r.type \in Values /\ r.own \in Tables /\ r.snap \in Tables /\ r.made \in Nat
BY DEF ObjectRecords

LEMMA FrameFields ==
  ASSUME NEW r \in Frames
  PROVE  r.t \in Nat /\ r.left \in Seq(Members) /\ r.by \in {""} \cup STRING
BY DEF Frames

LEMMA TypeAt ==
  ASSUME TypeOK, NEW t \in DOMAIN types
  PROVE  /\ types[t] \in TypeRecords /\ t \in Nat /\ DOMAIN types = 1 .. Len(types) /\ Len(types) \in Nat
         /\ types[t].name \in STRING /\ types[t].kind \in {"class", "iface"}
         /\ types[t].line \in Seq(Nat) /\ types[t].ifaces \in Seq(Nat)
         /\ types[t].abstract \in BOOLEAN /\ types[t].final \in BOOLEAN /\ types[t].stack \in Seq(Nat)
         /\ types[t].table \in Tables /\ types[t].methods \in MethodTables
<1>1. types[t] \in TypeRecords /\ t \in Nat /\ DOMAIN types = 1 .. Len(types) /\ Len(types) \in Nat
  BY DEF TypeOK
<1> QED BY <1>1, TypeFields

LEMMA ObjectAt ==
  ASSUME TypeOK, NEW o \in DOMAIN objects
  PROVE  /\ objects[o] \in ObjectRecords /\ o \in Nat /\ o \in 1 .. Len(objects) /\ Len(objects) \in Nat
         /\ objects[o].type \in Values /\ objects[o].own \in Tables
         /\ objects[o].snap \in Tables /\ objects[o].made \in Nat
<1>1. objects[o] \in ObjectRecords /\ o \in Nat /\ o \in 1 .. Len(objects) /\ Len(objects) \in Nat
  BY DEF TypeOK
<1> QED BY <1>1, ObjectFields

LEMMA FrameAt ==
  ASSUME TypeOK, NEW i \in DOMAIN open
  PROVE  open[i] \in Frames /\ open[i].t \in Nat /\ open[i].left \in Seq(Members) /\ open[i].by \in {""} \cup STRING
<1>1. open[i] \in Frames
  BY DEF TypeOK
<1> QED BY <1>1, FrameFields

\* The types under declaration came last.
LEMMA SettledIs ==
  ASSUME TypeOK, Opened
  PROVE  /\ Settled \subseteq Whole /\ Whole \subseteq DOMAIN types /\ Settled \subseteq DOMAIN types
         /\ open = <<>> => Settled = DOMAIN types /\ Whole = DOMAIN types /\ Undeclared = {}
         /\ open # <<>> => Settled = 1 .. open[1].t - 1 /\ open[1].t \in 1 .. Len(types)
         /\ \A u \in Undeclared : u \in DOMAIN types /\ u \notin Settled
         /\ DOMAIN types = 1 .. Len(types) /\ Len(types) \in Nat
<1>1. DOMAIN types = 1 .. Len(types) /\ Len(types) \in Nat
  BY DEF TypeOK
<1>2. CASE open = <<>>
  <2>1. DOMAIN open = {}
    BY <1>2
  <2>2. Undeclared = {}
    BY <2>1 DEF Undeclared
  <2> QED BY <1>1, <1>2, <2>2 DEF Settled, Whole
<1>3. CASE open # <<>>
  <2>1. /\ 1 \in DOMAIN open /\ DOMAIN open \subseteq Nat \ {0}
    BY <1>3 DEF TypeOK
  <2>2. \A i \in DOMAIN open : open[i].t \in 1 .. Len(types) /\ (i > 1 => open[1].t < open[i].t)
    <3> TAKE i \in DOMAIN open
    <3>1. open[i].t \in 1 .. Len(types)
      BY <1>1 DEF Opened
    <3>2. i > 1 => 1 \in 1 .. i - 1
      BY <2>1
    <3> QED BY <3>1, <3>2 DEF Opened
  <2>3. Settled = 1 .. open[1].t - 1
    BY <1>3 DEF Settled
  <2>4. \A u \in Undeclared : u \in DOMAIN types /\ u \notin Settled
    <3> SUFFICES ASSUME NEW i \in DOMAIN open PROVE open[i].t \in DOMAIN types /\ open[i].t \notin Settled
      BY DEF Undeclared
    <3>1. open[1].t \in 1 .. Len(types) /\ open[i].t \in 1 .. Len(types)
      BY <2>1, <2>2
    <3>2. i = 1 \/ open[1].t < open[i].t
      BY <2>1, <2>2
    <3> QED BY <1>1, <2>3, <3>1, <3>2
  <2>5. Settled \subseteq DOMAIN types
    BY <1>1, <2>1, <2>2, <2>3
  <2> QED BY <1>1, <1>3, <2>1, <2>2, <2>3, <2>4, <2>5 DEF Whole
<1> QED BY <1>2, <1>3

-----------------------------------------------------------------------------
(* What is alive                                                           *)

LEMMA NodesFinite ==
  ASSUME TypeOK
  PROVE  Cardinality(Nodes) \in Nat
<1>1. DOMAIN types = 1 .. Len(types) /\ DOMAIN objects = 1 .. Len(objects)
      /\ Len(types) \in Nat /\ Len(objects) \in Nat
  BY DEF TypeOK
<1>2. IsFiniteSet(DOMAIN types) /\ IsFiniteSet(DOMAIN objects)
  BY <1>1, FS_Interval
<1>3. IsFiniteSet({"type"}) /\ IsFiniteSet({"object"})
  BY FS_Singleton
<1>4. IsFiniteSet({"type"} \X DOMAIN types) /\ IsFiniteSet({"object"} \X DOMAIN objects)
  BY <1>2, <1>3, FS_Product
<1>5. IsFiniteSet(Nodes)
  BY <1>4, FS_Union DEF Nodes
<1> QED BY <1>5, FS_CardinalityType

\* The equation of Left has a solution, so that Left is one.
LEMMA LeftIs ==
  ASSUME TypeOK
  PROVE  \A k \in 0 .. Cardinality(Nodes) :
           Left[k] = IF k = 0 THEN Nodes
                     ELSE Left[k - 1] \cap (RefsIn(main) \cup UNION {Held(n) : n \in Left[k - 1]})
<1> DEFINE c == Cardinality(Nodes)
           Rest(nodes) == nodes \cap (RefsIn(main) \cup UNION {Held(n) : n \in nodes})
           Good(g, k) == \A i \in 0 .. k : g[i] = IF i = 0 THEN Nodes ELSE Rest(g[i - 1])
           Bad == {k \in Nat : \A g : DOMAIN g = 0 .. k => ~ Good(g, k)}
<1>1. c \in Nat
  BY NodesFinite
<1>2. Left = CHOOSE f : f = [k \in 0 .. c |-> IF k = 0 THEN Nodes ELSE Rest(f[k - 1])]
  BY DEF Left
<1> HIDE DEF c, Rest
<1>3. Bad = {}
  <2> SUFFICES ASSUME Bad # {} PROVE FALSE
    OBVIOUS
  <2>1. PICK k \in Bad : \A j \in Bad : k <= j
    <3>1. Bad \subseteq Nat
      OBVIOUS
    <3> QED BY <3>1, Least
  <2>2. CASE k = 0
    <3>1. Good([i \in 0 .. k |-> Nodes], k) /\ DOMAIN [i \in 0 .. k |-> Nodes] = 0 .. k
      BY <2>2
    <3> QED BY <2>1, <3>1
  <2>3. CASE k # 0
    <3>1. k - 1 \in Nat /\ k - 1 \notin Bad
      BY <2>1, <2>3
    <3>2. PICK g : DOMAIN g = 0 .. k - 1 /\ Good(g, k - 1)
      BY <3>1
    <3> DEFINE h == [i \in 0 .. k |-> IF i = k THEN Rest(g[k - 1]) ELSE g[i]]
    <3>3. \A i \in 0 .. k : h[i] = IF i = 0 THEN Nodes ELSE Rest(h[i - 1])
      <4> TAKE i \in 0 .. k
      <4>1. CASE i = k
        <5>1. h[i] = Rest(g[k - 1]) /\ h[i - 1] = g[k - 1]
          BY <2>1, <2>3, <4>1, <3>1
        <5> QED BY <5>1, <2>3, <4>1
      <4>2. CASE i # k
        <5>1. i \in 0 .. k - 1
          BY <4>2, <2>1
        <5>2. h[i] = g[i] /\ (i # 0 => h[i - 1] = g[i - 1])
          BY <5>1, <4>2, <2>1
        <5> QED BY <5>1, <5>2, <3>2
      <4> QED BY <4>1, <4>2
    <3>4. DOMAIN h = 0 .. k /\ Good(h, k)
      BY <3>3
    <3> HIDE DEF h
    <3> QED BY <2>1, <3>4
  <2> QED BY <2>2, <2>3
<1>4. PICK g : DOMAIN g = 0 .. c /\ Good(g, c)
  BY <1>1, <1>3
<1> DEFINE F == [k \in 0 .. c |-> IF k = 0 THEN Nodes ELSE Rest(g[k - 1])]
<1>5. /\ DOMAIN F = 0 .. c
      /\ \A k \in 0 .. c : F[k] = g[k]
  BY <1>4
<1>6. F = [k \in 0 .. c |-> IF k = 0 THEN Nodes ELSE Rest(F[k - 1])]
  <2>1. \A k \in 0 .. c : k # 0 => F[k - 1] = g[k - 1]
    <3> TAKE k \in 0 .. c
    <3>1. k # 0 => k - 1 \in 0 .. c
      BY <1>1
    <3> QED BY <3>1, <1>5
  <2> QED BY <2>1
<1> HIDE DEF F
<1>7. Left = [k \in 0 .. c |-> IF k = 0 THEN Nodes ELSE Rest(Left[k - 1])]
  BY <1>2, <1>6
<1>8. \A k \in 0 .. c : Left[k] = IF k = 0 THEN Nodes ELSE Rest(Left[k - 1])
  BY <1>7
<1> QED BY <1>8 DEF c, Rest

\* What an alive node keeps is alive.
LEMMA AliveKeeps ==
  ASSUME TypeOK, NEW n \in Alive, NEW m \in Nodes, m \in Held(n)
  PROVE  m \in Alive
<1> DEFINE c == Cardinality(Nodes)
<1>1. c \in Nat
  BY NodesFinite
<1>2. \A k \in 0 .. c :
        Left[k] = IF k = 0 THEN Nodes
                  ELSE Left[k - 1] \cap (RefsIn(main) \cup UNION {Held(x) : x \in Left[k - 1]})
  BY LeftIs
<1>3. n \in Left[c]
  BY DEF Alive
<1> HIDE DEF c
<1>4. \A k \in 1 .. c : k - 1 \in 0 .. c /\ Left[k] \subseteq Left[k - 1]
  <2> TAKE k \in 1 .. c
  <2>1. k \in 0 .. c /\ k # 0 /\ k - 1 \in 0 .. c
    BY <1>1
  <2> QED BY <2>1, <1>2
<1>5. \A k \in 0 .. c : n \in Left[k]
  <2> DEFINE Bad == {j \in Nat : j <= c /\ n \notin Left[c - j]}
  <2> SUFFICES ASSUME Bad # {} PROVE FALSE
    <3>1. \A k \in 0 .. c : c - k \in Nat /\ c - k <= c /\ c - (c - k) = k
      BY <1>1
    <3> QED BY <3>1
  <2>1. PICK j \in Bad : \A i \in Bad : j <= i
    <3>1. Bad \subseteq Nat
      OBVIOUS
    <3> QED BY <3>1, Least
  <2>2. j # 0
    <3>1. c - 0 = c
      BY <1>1
    <3> QED BY <2>1, <1>3, <3>1
  <2>3. j - 1 \in Nat /\ j - 1 <= c /\ j - 1 \notin Bad
    BY <1>1, <2>1, <2>2
  <2>4. n \in Left[c - (j - 1)] /\ n \notin Left[c - j]
    BY <2>1, <2>3
  <2>5. c - (j - 1) \in 1 .. c /\ (c - (j - 1)) - 1 = c - j
    BY <1>1, <2>1, <2>2
  <2> QED BY <2>4, <2>5, <1>4
<1>6. \A k \in 0 .. c : m \in Left[k]
  <2> DEFINE Bad == {k \in Nat : k <= c /\ m \notin Left[k]}
  <2> SUFFICES ASSUME Bad # {} PROVE FALSE
    <3>1. \A k \in 0 .. c : k \in Nat /\ k <= c
      BY <1>1
    <3> QED BY <3>1
  <2>1. PICK k \in Bad : \A i \in Bad : k <= i
    <3>1. Bad \subseteq Nat
      OBVIOUS
    <3> QED BY <3>1, Least
  <2>2. k # 0
    <3>1. 0 \in 0 .. c
      BY <1>1
    <3>2. Left[0] = Nodes
      BY <3>1, <1>2
    <3> QED BY <2>1, <3>2
  <2>3. k - 1 \in Nat /\ k - 1 <= c /\ k - 1 \notin Bad /\ k - 1 \in 0 .. c /\ k \in 0 .. c
    BY <1>1, <2>1, <2>2
  <2>4. m \in Left[k - 1] /\ n \in Left[k - 1]
    BY <2>3, <1>5
  <2>5. m \in UNION {Held(x) : x \in Left[k - 1]}
    BY <2>4
  <2>6. m \in Left[k]
    BY <2>2, <2>3, <2>4, <2>5, <1>2
  <2> QED BY <2>1, <2>6
<1>7. m \in Left[c]
  BY <1>1, <1>6
<1> QED BY <1>7 DEF Alive, c

\* What the main table keeps is alive.
LEMMA AliveNamed ==
  ASSUME TypeOK, NEW m \in Nodes, m \in RefsIn(main)
  PROVE  m \in Alive
<1> DEFINE c == Cardinality(Nodes)
           Bad == {k \in Nat : k <= c /\ m \notin Left[k]}
<1>1. c \in Nat
  BY NodesFinite
<1>2. \A k \in 0 .. c :
        Left[k] = IF k = 0 THEN Nodes
                  ELSE Left[k - 1] \cap (RefsIn(main) \cup UNION {Held(x) : x \in Left[k - 1]})
  BY LeftIs
<1>3. SUFFICES ASSUME m \notin Left[c] PROVE FALSE
  BY DEF Alive
<1> HIDE DEF c
<1>4. PICK k \in Bad : \A i \in Bad : k <= i
  <2>1. Bad \subseteq Nat /\ c \in Bad
    BY <1>1, <1>3
  <2> QED BY <2>1, Least
<1>5. k # 0
  <2>1. 0 \in 0 .. c
    BY <1>1
  <2>2. Left[0] = Nodes
    BY <2>1, <1>2
  <2> QED BY <1>4, <2>2
<1>6. k - 1 \in Nat /\ k - 1 <= c /\ k - 1 \notin Bad /\ k \in 0 .. c
  BY <1>1, <1>4, <1>5
<1>7. m \in Left[k - 1]
  BY <1>6
<1>8. m \in Left[k]
  BY <1>2, <1>5, <1>6, <1>7
<1> QED BY <1>4, <1>8

-----------------------------------------------------------------------------
(* An object is of the class it was made with                              *)

LEMMA ClassStays ==
  ASSUME IInv
  PROVE  KeepsItsClass
<1> SUFFICES ASSUME NEW o \in DOMAIN objects, <<"object", o>> \in Alive, ~Astray(objects[o].made)
             PROVE  /\ objects[o].type = Val("class", objects[o].made)
                    /\ ~types[objects[o].made].abstract
                    /\ HasType(o)
  BY DEF KeepsItsClass
<1> DEFINE t == objects[o].made
           name == types[t].name
<1>1. /\ t \in Settled /\ Named(t) /\ ~types[t].abstract /\ objects[o].type = Val("class", t)
      /\ Len(types[t].stack) > 1 => Leads(objects[o].snap, name, t)
  BY DEF IInv, AllMade, Made, ClassesIn
<1>2. TypeOK /\ t \in DOMAIN types /\ Stacked(t)
  BY <1>1, SettledIs DEF IInv, Formed
<1>3. Refs(objects[o].type) = {<<"type", t>>}
  BY <1>1 DEF Refs, Val
<1>4. <<"type", t>> \in Nodes /\ <<"object", o>> \in Nodes
  BY <1>2 DEF Nodes
<1>5. CASE Len(types[t].stack) = 1
  <2>1. Leads(main, name, t)
    BY <1>1, <1>5 DEF Named, Astray
  <2>2. <<"type", t>> \in RefsIn(main)
    BY <2>1 DEF Leads, RefsIn, Refs, Val
  <2>3. <<"type", t>> \in Alive
    BY <1>2, <1>4, <2>2, AliveNamed
  <2> QED BY <1>1, <1>3, <2>3 DEF HasType
<1>6. CASE Len(types[t].stack) # 1
  <2>1. Len(types[t].stack) > 1
    <3>1. types[t].stack \in Seq(Nat)
      BY <1>2, TypeAt
    <3>2. Len(types[t].stack) \in Nat
      BY <3>1
    <3>3. Len(types[t].stack) > 0
      BY <1>2 DEF Stacked
    <3>4. \A n \in Nat : n > 0 /\ n # 1 => n > 1
      OBVIOUS
    <3> QED BY <1>6, <3>2, <3>3, <3>4
  <2>2. <<"type", t>> \in RefsIn(objects[o].snap)
    BY <1>1, <2>1 DEF Leads, RefsIn, Refs, Val
  <2>3. <<"type", t>> \in Held(<<"object", o>>)
    BY <2>2 DEF Held
  <2>4. <<"type", t>> \in Alive
    BY <1>2, <1>4, <2>3, AliveKeeps
  <2> QED BY <1>1, <1>3, <2>4 DEF HasType
<1> QED BY <1>5, <1>6

-----------------------------------------------------------------------------
(* What can be reached                                                     *)

\* A row in which every place leads to earlier ones.
Back(to, n) == DOMAIN to = 1 .. n /\ \A t \in 1 .. n : to[t] \subseteq 1 .. t - 1

LEMMA ReachIs ==
  ASSUME NEW n \in Nat, NEW to, Back(to, n)
  PROVE  /\ DOMAIN Reach(to) = 1 .. n
         /\ \A t \in 1 .. n : Reach(to)[t] = {t} \cup UNION {Reach(to)[u] : u \in to[t]}
<1> DEFINE Good(g, k) == \A t \in 1 .. k : g[t] = {t} \cup UNION {g[u] : u \in to[t]}
           Bad == {k \in Nat : k <= n /\ \A g : DOMAIN g = 1 .. k => ~ Good(g, k)}
<1>1. Bad = {}
  <2> SUFFICES ASSUME Bad # {} PROVE FALSE
    OBVIOUS
  <2>1. PICK k \in Bad : \A j \in Bad : k <= j
    <3>1. Bad \subseteq Nat
      OBVIOUS
    <3> QED BY <3>1, Least
  <2>2. CASE k = 0
    <3> DEFINE g == [t \in 1 .. k |-> {}]
    <3>1. DOMAIN g = 1 .. k /\ Good(g, k)
      BY <2>2
    <3> HIDE DEF g
    <3> QED BY <2>1, <3>1
  <2>3. CASE k # 0
    <3>0. k \in Nat /\ k <= n
      BY <2>1
    <3>1. k - 1 \in Nat /\ k - 1 \notin Bad /\ k <= n
      <4> HIDE DEF Bad
      <4> QED BY <2>1, <2>3, <3>0
    <3>2. PICK g : DOMAIN g = 1 .. k - 1 /\ Good(g, k - 1)
      BY <3>1
    <3> DEFINE last == {k} \cup UNION {g[u] : u \in to[k]}
               h == [t \in 1 .. k |-> IF t = k THEN last ELSE g[t]]
    <3>3. \A t \in 1 .. k : t \in 1 .. n /\ to[t] \subseteq 1 .. k - 1
      BY <3>1, <2>1 DEF Back
    <3>4. \A t \in 1 .. k : \A u \in to[t] : h[u] = g[u]
      BY <3>1, <3>3
    <3>5. \A t \in 1 .. k : h[t] = {t} \cup UNION {g[u] : u \in to[t]}
      <4> TAKE t \in 1 .. k
      <4>1. CASE t = k
        BY <4>1
      <4>2. CASE t # k
        <5>1. t \in 1 .. k - 1 /\ h[t] = g[t]
          BY <4>2, <2>1
        <5> QED BY <5>1, <3>2
      <4> QED BY <4>1, <4>2
    <3>6. DOMAIN h = 1 .. k
      OBVIOUS
    <3> HIDE DEF h
    <3>7. Good(h, k)
      <4> SUFFICES ASSUME NEW t \in 1 .. k PROVE h[t] = {t} \cup UNION {h[u] : u \in to[t]}
        OBVIOUS
      <4>1. {h[u] : u \in to[t]} = {g[u] : u \in to[t]}
        BY <3>4
      <4> QED BY <4>1, <3>5
    <3> QED BY <2>1, <3>6, <3>7
  <2> QED BY <2>2, <2>3
<1>2. PICK g : DOMAIN g = 1 .. n /\ Good(g, n)
  BY <1>1
<1> DEFINE G == [t \in DOMAIN to |-> {t} \cup UNION {g[u] : u \in to[t]}]
<1>3. DOMAIN G = 1 .. n /\ \A t \in 1 .. n : G[t] = g[t]
  BY <1>2 DEF Back
<1>4. G = [t \in DOMAIN to |-> {t} \cup UNION {G[u] : u \in to[t]}]
  <2>1. \A t \in DOMAIN to : {G[u] : u \in to[t]} = {g[u] : u \in to[t]}
    <3> TAKE t \in DOMAIN to
    <3>1. to[t] \subseteq 1 .. n
      BY DEF Back
    <3> HIDE DEF G
    <3> QED BY <1>3, <3>1
  <2> QED BY <2>1
<1> HIDE DEF G
<1> DEFINE Step(r) == [t \in DOMAIN to |-> {t} \cup UNION {r[u] : u \in to[t]}]
<1>5. Reach(to) = CHOOSE r : r = Step(r)
  BY DEF Reach
<1>6. Reach(to) = [t \in DOMAIN to |-> {t} \cup UNION {Reach(to)[u] : u \in to[t]}]
  <2>1. G = Step(G)
    BY <1>4
  <2> HIDE DEF Step
  <2>2. Reach(to) = Step(Reach(to))
    BY <1>5, <2>1
  <2> QED BY <2>2 DEF Step
<1> QED BY <1>6 DEF Back

\* Reaching goes on from what is reached, and stays in a set it cannot leave.
LEMMA ReachFrom ==
  ASSUME NEW n \in Nat, NEW to, Back(to, n), NEW t \in 1 .. n
  PROVE  /\ t \in Reach(to)[t] /\ Reach(to)[t] \subseteq 1 .. t
         /\ \A u \in Reach(to)[t] : to[u] \subseteq Reach(to)[t] /\ Reach(to)[u] \subseteq Reach(to)[t]
<1> DEFINE R == Reach(to)
           Good(u) == /\ u \in R[u] /\ R[u] \subseteq 1 .. u
                      /\ \A v \in R[u] : to[v] \subseteq R[u] /\ R[v] \subseteq R[u]
           Bad == {u \in Nat : u \in 1 .. n /\ ~ Good(u)}
<1>1. \A u \in 1 .. n : R[u] = {u} \cup UNION {R[v] : v \in to[u]}
  BY ReachIs
<1> HIDE DEF R
<1>2. Bad = {}
  <2> SUFFICES ASSUME Bad # {} PROVE FALSE
    OBVIOUS
  <2>1. PICK u \in Bad : \A v \in Bad : u <= v
    <3>1. Bad \subseteq Nat
      OBVIOUS
    <3> QED BY <3>1, Least
  <2>2. u \in 1 .. n /\ u \in Nat /\ ~ Good(u)
    BY <2>1
  <2>3. to[u] \subseteq 1 .. u - 1 /\ R[u] = {u} \cup UNION {R[v] : v \in to[u]}
    BY <2>2, <1>1 DEF Back
  <2>4. \A v \in 1 .. u - 1 : v \in 1 .. n /\ Good(v)
    BY <2>1, <2>2
  <2> HIDE DEF Bad
  <2>5. u \in R[u]
    BY <2>3
  <2>6. R[u] \subseteq 1 .. u
    <3> SUFFICES ASSUME NEW v \in to[u], NEW w \in R[v] PROVE w \in 1 .. u
      BY <2>2, <2>3
    <3>1. v \in 1 .. u - 1 /\ w \in 1 .. v
      BY <2>3, <2>4
    <3> QED BY <3>1, <2>2
  <2>7. ASSUME NEW w \in R[u] PROVE to[w] \subseteq R[u] /\ R[w] \subseteq R[u]
    <3>1. CASE w = u
      <4>1. \A v \in to[u] : v \in R[v]
        BY <2>3, <2>4
      <4> QED BY <3>1, <4>1, <2>3
    <3>2. CASE w # u
      <4>1. PICK v \in to[u] : w \in R[v]
        BY <3>2, <2>3
      <4>2. to[w] \subseteq R[v] /\ R[w] \subseteq R[v]
        BY <2>3, <2>4, <4>1
      <4>3. R[v] \subseteq R[u]
        BY <2>3
      <4> QED BY <4>2, <4>3
    <3> QED BY <3>1, <3>2
  <2> QED BY <2>2, <2>5, <2>6, <2>7
<1>3. Good(t)
  BY <1>2
<1> QED BY <1>3 DEF R

LEMMA ReachWithin ==
  ASSUME NEW n \in Nat, NEW to, Back(to, n), NEW S, \A u \in S \cap (1 .. n) : to[u] \subseteq S,
         NEW t \in 1 .. n, t \in S
  PROVE  Reach(to)[t] \subseteq S
<1> DEFINE R == Reach(to)
           Bad == {u \in Nat : u \in 1 .. n /\ u \in S /\ ~ (R[u] \subseteq S)}
<1>1. \A u \in 1 .. n : R[u] = {u} \cup UNION {R[v] : v \in to[u]}
  BY ReachIs
<1> HIDE DEF R
<1>2. Bad = {}
  <2> SUFFICES ASSUME Bad # {} PROVE FALSE
    OBVIOUS
  <2>1. PICK u \in Bad : \A v \in Bad : u <= v
    <3>1. Bad \subseteq Nat
      OBVIOUS
    <3> QED BY <3>1, Least
  <2>2. u \in 1 .. n /\ u \in Nat /\ u \in S /\ ~ (R[u] \subseteq S)
    BY <2>1
  <2>3. to[u] \subseteq 1 .. u - 1 /\ to[u] \subseteq S /\ R[u] = {u} \cup UNION {R[v] : v \in to[u]}
    BY <2>2, <1>1 DEF Back
  <2>4. \A v \in 1 .. u - 1 : v \in S => R[v] \subseteq S
    BY <2>1, <2>2
  <2>5. \A v \in to[u] : R[v] \subseteq S
    BY <2>3, <2>4
  <2> QED BY <2>2, <2>3, <2>5
<1>3. R[t] \subseteq S
  BY <1>2
<1> QED BY <1>3 DEF R

-----------------------------------------------------------------------------
(* What a class has of its interfaces                                      *)

\* The interfaces, the first interfaces and the parents of a type came before it.
LEMMA AllBack ==
  ASSUME TypeOK, Formed
  PROVE  /\ Len(types) \in Nat /\ DOMAIN types = 1 .. Len(types)
         /\ Back(Ifaces, Len(types)) /\ Back(FirstIface, Len(types)) /\ Back(Parents, Len(types))
<1>1. Len(types) \in Nat /\ DOMAIN types = 1 .. Len(types)
  BY DEF TypeOK
<1>2. \A t \in DOMAIN types :
        /\ Range(types[t].ifaces) \subseteq 1 .. t - 1
        /\ types[t].ifaces # <<>> => types[t].ifaces[1] \in 1 .. t - 1
        /\ Len(types[t].line) > 1 => types[t].line[2] \in 1 .. t - 1
  <2> TAKE t \in DOMAIN types
  <2>1. types[t].ifaces \in Seq(Nat)
    BY TypeAt
  <2>2. \A k \in DOMAIN types[t].ifaces : types[t].ifaces[k] \in 1 .. t - 1
    BY DEF Formed, Extending
  <2>3. types[t].ifaces # <<>> => 1 \in DOMAIN types[t].ifaces
    BY <2>1
  <2>4. Len(types[t].line) > 1 => types[t].line[2] \in 1 .. t - 1
    BY DEF Formed, Lined
  <2> QED BY <2>2, <2>3, <2>4 DEF Range
<1>3. Back(Ifaces, Len(types))
  BY <1>1, <1>2 DEF Back, Ifaces
<1>4. Back(FirstIface, Len(types))
  BY <1>1, <1>2 DEF Back, FirstIface
<1>5. Back(Parents, Len(types))
  BY <1>1, <1>2 DEF Back, Parents
<1> QED BY <1>1, <1>3, <1>4, <1>5

\* The tables on the line of a type are there.
LEMMA OnLine ==
  ASSUME TypeOK, Formed, NEW t \in DOMAIN types
  PROVE  /\ types[t].line \in Seq(Nat)
         /\ \A j \in DOMAIN types[t].line :
              /\ types[t].line[j] \in DOMAIN types /\ types[types[t].line[j]].table \in Tables
              /\ j = 1 \/ (types[t].line[j] \in 1 .. t - 1 /\ types[t].line[j] \notin Undeclared)
<1>1. types[t].line \in Seq(Nat) /\ t \in 1 .. Len(types) /\ Len(types) \in Nat /\ DOMAIN types = 1 .. Len(types)
  BY TypeAt
<1>2. Lined(t)
  BY DEF Formed
<1>3. ASSUME NEW j \in DOMAIN types[t].line
      PROVE  types[t].line[j] = t \/ (types[t].line[j] \in 1 .. t - 1 /\ types[t].line[j] \notin Undeclared)
  <2>1. j = 1 \/ j \in 2 .. Len(types[t].line)
    BY <1>1
  <2> QED BY <1>2, <2>1 DEF Lined
<1>4. ASSUME NEW j \in DOMAIN types[t].line
      PROVE  types[t].line[j] \in DOMAIN types
  BY <1>1, <1>3
<1>5. ASSUME NEW j \in DOMAIN types[t].line
      PROVE  j = 1 \/ (types[t].line[j] \in 1 .. t - 1 /\ types[t].line[j] \notin Undeclared)
  <2>1. j = 1 \/ j \in 2 .. Len(types[t].line)
    BY <1>1
  <2> QED BY <1>2, <2>1 DEF Lined
<1> QED BY <1>1, <1>4, <1>5, TypeAt

LEMMA MethodsKept ==
  ASSUME IInv
  PROVE  Implements
<1>1. TypeOK /\ Formed /\ AllFulfil
  BY DEF IInv
<1> SUFFICES ASSUME NEW t \in DOMAIN types \ Undeclared, types[t].kind = "class", Range(types[t].line) \cap patched = {}
             PROVE  \A i \in Promised(t) : \A m \in DOMAIN types[i].methods :
                      \E k \in DOMAIN types[t].line :
                        LET table == types[types[t].line[k]].table
                        IN /\ \A j \in 1 .. k - 1 : m \notin DOMAIN types[types[t].line[j]].table
                           /\ m \in DOMAIN table /\ IsFunc(table[m])
                           /\ Signature(table[m]).params = types[i].methods[m].params
  BY DEF Implements
<1> DEFINE Has(i, m) == 
             \E k \in DOMAIN types[t].line :
               LET table == types[types[t].line[k]].table
               IN /\ \A j \in 1 .. k - 1 : m \notin DOMAIN types[types[t].line[j]].table
                  /\ m \in DOMAIN table /\ IsFunc(table[m])
                  /\ Signature(table[m]).params = types[i].methods[m].params
           S == {t} \cup {i \in DOMAIN types : types[i].kind = "iface" /\ \A m \in DOMAIN types[i].methods : Has(i, m)}
<1>2. Compatible(t)
  BY <1>1 DEF AllFulfil, Fulfils, Whole
<1>3. ASSUME NEW i \in Range(types[t].ifaces), NEW m \in DOMAIN types[i].methods
      PROVE  Has(i, m)
  <2>1. IsFunc(SearchAttr(t, m)) /\ Agree(types[i].methods[m], Signature(SearchAttr(t, m)))
    BY <1>2 DEF Compatible
  <2>2. SearchAttr(t, m) # Nothing
    BY <2>1 DEF IsFunc, Nothing, Val
  <2>3. PICK k \in DOMAIN types[t].line :
          /\ m \in DOMAIN types[types[t].line[k]].table
          /\ \A j \in 1 .. k - 1 : m \notin DOMAIN types[types[t].line[j]].table
          /\ SearchAttr(t, m) = types[types[t].line[k]].table[m]
    BY SMTT(30), <1>1, <2>2, OnLine, FirstInIs DEF SearchAttr
  <2>4. Signature(SearchAttr(t, m)).params = types[i].methods[m].params
    BY <2>1 DEF Agree
  <2> QED BY <2>1, <2>3, <2>4
<1>4. \A i \in Range(types[t].ifaces) : i \in DOMAIN types /\ types[i].kind = "iface"
  <2>1. \A k \in DOMAIN types[t].ifaces :
          types[t].ifaces[k] \in 1 .. t - 1 /\ types[types[t].ifaces[k]].kind = "iface"
    BY <1>1 DEF Formed, Extending
  <2>2. t \in 1 .. Len(types) /\ Len(types) \in Nat /\ DOMAIN types = 1 .. Len(types)
    BY <1>1, AllBack
  <2> QED BY <2>1, <2>2 DEF Range
<1>5. ASSUME NEW u \in DOMAIN types, types[u].kind = "iface", \A m \in DOMAIN types[u].methods : Has(u, m),
             NEW i \in Range(types[u].ifaces)
      PROVE  i \in DOMAIN types /\ types[i].kind = "iface" /\ \A m \in DOMAIN types[i].methods : Has(i, m)
  <2>1. PICK k \in DOMAIN types[u].ifaces : i = types[u].ifaces[k]
    BY DEF Range
  <2>2. /\ i \in 1 .. u - 1 /\ types[i].kind = "iface"
        /\ \A m \in DOMAIN types[i].methods :
              m \in DOMAIN types[u].methods /\ types[u].methods[m] = types[i].methods[m]
    BY <1>1, <1>5, <2>1 DEF Formed, Extending
  <2>3. u \in 1 .. Len(types) /\ Len(types) \in Nat /\ DOMAIN types = 1 .. Len(types)
    BY <1>1, AllBack
  <2>4. i \in DOMAIN types
    BY <2>2, <2>3
  <2>5. ASSUME NEW m \in DOMAIN types[i].methods PROVE Has(i, m)
    <3>1. Has(u, m) /\ types[u].methods[m] = types[i].methods[m]
      BY <1>5, <2>2
    <3> QED BY <3>1
  <2> QED BY <2>2, <2>4, <2>5
<1>6. \A u \in S \cap (1 .. Len(types)) : Ifaces[u] \subseteq S
  <2> SUFFICES ASSUME NEW u \in S, u \in DOMAIN types, NEW i \in Range(types[u].ifaces) PROVE i \in S
    BY <1>1, AllBack DEF Ifaces
  <2>1. CASE u = t
    <3>1. i \in DOMAIN types /\ types[i].kind = "iface" /\ \A m \in DOMAIN types[i].methods : Has(i, m)
      <4> HIDE DEF Has
      <4> QED BY <1>3, <1>4, <2>1
    <3> HIDE DEF Has
    <3> QED BY <3>1
  <2>2. CASE u # t
    <3>1. u \in DOMAIN types /\ types[u].kind = "iface" /\ \A m \in DOMAIN types[u].methods : Has(u, m)
      <4> HIDE DEF Has
      <4> QED BY <2>2
    <3> HIDE DEF Has
    <3>2. i \in DOMAIN types /\ types[i].kind = "iface" /\ \A m \in DOMAIN types[i].methods : Has(i, m)
      BY <1>5, <3>1
    <3> QED BY <3>2
  <2> QED BY <2>1, <2>2
<1> HIDE DEF Has
<1>7. Reach(Ifaces)[t] \subseteq S
  <2>1. t \in 1 .. Len(types) /\ t \in S /\ Len(types) \in Nat /\ Back(Ifaces, Len(types))
    BY <1>1, AllBack
  <2> HIDE DEF S
  <2> QED BY <1>6, <2>1, ReachWithin
<1>8. \A i \in Promised(t) : \A m \in DOMAIN types[i].methods : Has(i, m)
  BY <1>7 DEF Promised
<1> QED BY <1>8 DEF Has

\* The classes on a line are ancestors, and have no other lines.
LEMMA LineIs ==
  ASSUME TypeOK, Formed, NEW t \in DOMAIN types
  PROVE  /\ t \in Range(types[t].line) /\ Range(types[t].line) \subseteq Ancestors(t)
         /\ Range(types[t].line) \subseteq DOMAIN types
         /\ \A c \in Range(types[t].line) :
              /\ types[t].kind = "class" => types[c].kind = "class"
              /\ Range(types[c].line) \subseteq Range(types[t].line)
<1> DEFINE Good(u) == /\ u \in Range(types[u].line) /\ Range(types[u].line) \subseteq Ancestors(u)
                      /\ Range(types[u].line) \subseteq DOMAIN types
                      /\ \A c \in Range(types[u].line) :
                           /\ types[u].kind = "class" => types[c].kind = "class"
                           /\ Range(types[c].line) \subseteq Range(types[u].line)
           Bad == {u \in Nat : u \in DOMAIN types /\ ~ Good(u)}
<1>1. Len(types) \in Nat /\ DOMAIN types = 1 .. Len(types) /\ Back(Parents, Len(types))
  BY AllBack
<1>2. Bad = {}
  <2> SUFFICES ASSUME Bad # {} PROVE FALSE
    OBVIOUS
  <2>1. PICK u \in Bad : \A v \in Bad : u <= v
    <3>1. Bad \subseteq Nat
      OBVIOUS
    <3> QED BY <3>1, Least
  <2>2. u \in DOMAIN types /\ u \in Nat /\ ~ Good(u)
    BY <2>1
  <2>3. \A v \in DOMAIN types : v < u => Good(v)
    <3> TAKE v \in DOMAIN types
    <3>1. v \in Nat
      BY <1>1
    <3>2. v \notin Bad => Good(v)
      BY <3>1
    <3> HIDE DEF Bad
    <3> QED BY <2>1, <2>2, <3>1, <3>2
  <2> HIDE DEF Bad
  <2> DEFINE line == types[u].line
  <2>4. line \in Seq(Nat) /\ Lined(u)
    BY <2>2, TypeAt DEF Formed
  <2>5. /\ u \in Ancestors(u)
        /\ \A v \in Ancestors(u) : Parents[v] \subseteq Ancestors(u) /\ Ancestors(v) \subseteq Ancestors(u)
    BY <1>1, <2>2, ReachFrom DEF Ancestors
  <2>6. CASE Len(line) > 1
    <3>1. /\ line[2] \in DOMAIN types /\ line[2] < u /\ types[line[2]].kind = "class"
          /\ line = <<u>> \o types[line[2]].line
      <4>1. /\ line[2] \in (1 .. u - 1) \ Undeclared /\ types[line[2]].kind = "class"
            /\ line = <<u>> \o types[line[2]].line
        BY <2>4, <2>6 DEF Lined
      <4>2. PICK b : b = line[2]
        OBVIOUS
      <4>3. b \in 1 .. u - 1 /\ types[b].kind = "class" /\ line = <<u>> \o types[b].line
        BY <4>1, <4>2
      <4>4. b \in DOMAIN types /\ b < u
        <5>1. u \in DOMAIN types /\ \A x \in 1 .. u - 1 : x \in DOMAIN types /\ x < u
          BY <1>1, <2>2
        <5> QED BY <4>3, <5>1
      <4> QED BY <4>2, <4>3, <4>4
    <3>2. Good(line[2]) /\ types[line[2]].line \in Seq(Nat)
      BY <2>3, <3>1, TypeAt
    <3>3. Range(line) = {u} \cup Range(types[line[2]].line)
      <4> DEFINE rest == types[line[2]].line
      <4>1. line = <<u>> \o rest /\ rest \in Seq(Nat)
        BY <3>1, <3>2
      <4> HIDE DEF rest, line
      <4>2. Range(<<u>> \o rest) = {u} \cup Range(rest)
        <5>1. /\ DOMAIN (<<u>> \o rest) = 1 .. Len(rest) + 1 /\ DOMAIN rest = 1 .. Len(rest)
              /\ Len(rest) \in Nat
          BY <4>1
        <5>2. /\ (<<u>> \o rest)[1] = u
              /\ \A k \in 2 .. Len(rest) + 1 : (<<u>> \o rest)[k] = rest[k - 1]
          BY <4>1
        <5>3. \A k \in 1 .. Len(rest) : (<<u>> \o rest)[k + 1] = rest[k]
          BY <4>1
        <5>4. ASSUME NEW x \in Range(<<u>> \o rest) PROVE x \in {u} \cup Range(rest)
          <6>1. PICK k \in 1 .. Len(rest) + 1 : x = (<<u>> \o rest)[k]
            BY <5>1 DEF Range
          <6>2. k = 1 \/ (k \in 2 .. Len(rest) + 1 /\ k - 1 \in 1 .. Len(rest))
            BY <5>1
          <6> QED BY <5>1, <5>2, <6>1, <6>2 DEF Range
        <5>5. ASSUME NEW x \in {u} \cup Range(rest) PROVE x \in Range(<<u>> \o rest)
          <6>1. CASE x = u
            <7>1. 1 \in DOMAIN (<<u>> \o rest)
              BY <5>1
            <7> QED BY <5>2, <6>1, <7>1 DEF Range
          <6>2. CASE x # u
            <7>1. PICK k \in 1 .. Len(rest) : x = rest[k]
              BY <5>1, <6>2 DEF Range
            <7>2. k + 1 \in DOMAIN (<<u>> \o rest)
              BY <5>1
            <7> QED BY <5>3, <7>1, <7>2 DEF Range
          <6> QED BY <6>1, <6>2
        <5> QED BY <5>4, <5>5
      <4> QED BY <4>1, <4>2 DEF rest
    <3>4. line[2] \in Parents[u]
      BY <2>2, <2>6 DEF Parents
    <3>5. Ancestors(line[2]) \subseteq Ancestors(u)
      BY <2>5, <3>4
    <3>6. types[u].kind = "class"
      <4>1. types[u].kind \in {"class", "iface"} /\ (types[u].kind = "iface" => Len(line) = 1)
        BY <2>2, <2>4, TypeAt DEF Lined
      <4>2. \A n : n > 1 /\ n = 1 => FALSE
        OBVIOUS
      <4> QED BY <2>6, <4>1, <4>2
    <3> HIDE DEF line
    <3> QED BY <2>2, <2>5, <3>1, <3>2, <3>3, <3>5, <3>6 DEF line
  <2>7. CASE ~(Len(line) > 1)
    <3>1. Len(line) = 1 /\ line[1] = u
      <4>1. Len(line) \in Nat /\ Len(line) > 0 /\ line[1] = u
        BY <2>4 DEF Lined
      <4>2. \A n \in Nat : n > 0 /\ ~(n > 1) => n = 1
        OBVIOUS
      <4> QED BY <2>7, <4>1, <4>2
    <3>2. Range(line) = {u}
      <4>1. DOMAIN line = {1}
        BY <2>4, <3>1
      <4> QED BY <3>1, <4>1 DEF Range
    <3> QED BY <2>2, <2>5, <3>2
  <2> QED BY <2>6, <2>7
<1>3. t \in Nat
  BY <1>1
<1>4. t \notin Bad => Good(t)
  BY <1>3
<1>5. Good(t)
  <2> HIDE DEF Bad, Good
  <2> QED BY <1>2, <1>4
<1> QED BY <1>5

LEMMA InstanceTold ==
  ASSUME IInv
  PROVE  InstanceOfIsAncestor
<1>1. /\ TypeOK /\ Formed
      /\ Len(types) \in Nat /\ DOMAIN types = 1 .. Len(types)
      /\ Back(FirstIface, Len(types)) /\ Back(Parents, Len(types))
  BY AllBack DEF IInv
<1> SUFFICES ASSUME NEW t \in DOMAIN types, types[t].kind = "class"
             PROVE  \A u \in DOMAIN types :
                      /\ InstanceOf(t, u) => u \in Ancestors(t)
                      /\ (\A c \in Ancestors(t) : Len(types[c].ifaces) <= 1) =>
                           (u \in Ancestors(t) => InstanceOf(t, u))
  BY DEF InstanceOfIsAncestor
<1> DEFINE A == Ancestors(t)
<1>2. /\ t \in A /\ A \subseteq DOMAIN types
      /\ \A v \in A : Parents[v] \subseteq A
  <2>1. A \subseteq 1 .. t
    BY <1>1, ReachFrom DEF Ancestors
  <2>2. 1 .. t \subseteq DOMAIN types
    BY <1>1
  <2> QED BY <1>1, <2>1, <2>2, ReachFrom DEF Ancestors
<1>3. /\ t \in Range(types[t].line) /\ Range(types[t].line) \subseteq A
      /\ Range(types[t].line) \subseteq DOMAIN types
      /\ \A c \in Range(types[t].line) :
           types[c].kind = "class" /\ Range(types[c].line) \subseteq Range(types[t].line)
  BY <1>1, LineIs
<1> HIDE DEF A
<1>4. ASSUME NEW v \in DOMAIN types
      PROVE  /\ types[v].ifaces \in Seq(Nat)
             /\ FirstIface[v] = IF types[v].ifaces = <<>> THEN {} ELSE {types[v].ifaces[1]}
             /\ FirstIface[v] \subseteq Range(types[v].ifaces)
             /\ Range(types[v].ifaces) \subseteq Parents[v]
             /\ \A i \in Range(types[v].ifaces) : types[i].kind = "iface"
             /\ Len(types[v].ifaces) <= 1 => Range(types[v].ifaces) \subseteq FirstIface[v]
  <2>1. types[v].ifaces \in Seq(Nat)
    BY <1>1, TypeAt
  <2>2. types[v].ifaces # <<>> => 1 \in DOMAIN types[v].ifaces
    BY <2>1
  <2>3. FirstIface[v] = IF types[v].ifaces = <<>> THEN {} ELSE {types[v].ifaces[1]}
    BY DEF FirstIface
  <2>4. Len(types[v].ifaces) <= 1 => \A k \in DOMAIN types[v].ifaces : k = 1 /\ types[v].ifaces # <<>>
    BY <2>1
  <2>5. \A k \in DOMAIN types[v].ifaces : types[types[v].ifaces[k]].kind = "iface"
    BY <1>1 DEF Formed, Extending
  <2>6. Range(types[v].ifaces) \subseteq Parents[v]
    BY DEF Parents
  <2>7. FirstIface[v] \subseteq Range(types[v].ifaces)
    BY <2>2, <2>3 DEF Range
  <2>8. Len(types[v].ifaces) <= 1 => Range(types[v].ifaces) \subseteq FirstIface[v]
    BY <2>3, <2>4 DEF Range
  <2> QED BY <2>1, <2>3, <2>5, <2>6, <2>7, <2>8 DEF Range
<1>5. ASSUME NEW u \in DOMAIN types, InstanceOf(t, u) PROVE u \in A
  <2>1. PICK c \in Range(types[t].line) : u \in Reach(FirstIface)[c]
    BY <1>5 DEF InstanceOf
  <2>2. c \in 1 .. Len(types) /\ c \in A
    BY <1>1, <1>3, <2>1
  <2>3. \A v \in A \cap (1 .. Len(types)) : FirstIface[v] \subseteq A
    <3> TAKE v \in A \cap (1 .. Len(types))
    <3>1. v \in DOMAIN types
      BY <1>1
    <3>2. FirstIface[v] \subseteq Range(types[v].ifaces) /\ Range(types[v].ifaces) \subseteq Parents[v]
      BY <3>1, <1>4
    <3> QED BY <3>1, <3>2, <1>2
  <2>4. Reach(FirstIface)[c] \subseteq A
    BY <1>1, <2>2, <2>3, ReachWithin
  <2> QED BY <2>1, <2>4
<1>6. ASSUME \A c \in A : Len(types[c].ifaces) <= 1, NEW u \in DOMAIN types, u \in A
      PROVE  InstanceOf(t, u)
  <2> DEFINE S == {v \in A : InstanceOf(t, v)}
  <2>1. t \in S
    <3>1. t \in Reach(FirstIface)[t]
      BY <1>1, ReachFrom
    <3> QED BY <1>2, <1>3, <3>1 DEF InstanceOf
  <2>2. ASSUME NEW v \in S, NEW w \in Parents[v] PROVE w \in S
    <3>1. v \in A /\ v \in DOMAIN types /\ w \in A
      BY <1>2, <2>2
    <3>2. PICK c \in Range(types[t].line) : v \in Reach(FirstIface)[c]
      BY <2>2 DEF InstanceOf
    <3>3. c \in 1 .. Len(types)
      BY <1>1, <1>3
    <3>4. CASE w \in Range(types[v].ifaces)
      <4>1. w \in FirstIface[v]
        BY <1>4, <1>6, <3>1, <3>4
      <4>2. w \in Reach(FirstIface)[c]
        BY <1>1, <3>2, <3>3, <4>1, ReachFrom
      <4> QED BY <3>1, <4>2 DEF InstanceOf
    <3>5. CASE w \notin Range(types[v].ifaces)
      <4>1. Len(types[v].line) > 1 /\ w = types[v].line[2]
        BY <3>1, <3>5 DEF Parents
      <4>2. types[v].kind # "iface"
        <5>1. types[v].kind = "iface" => Len(types[v].line) = 1
          BY <1>1, <3>1 DEF Formed, Lined
        <5>2. \A n : n > 1 /\ n = 1 => FALSE
          OBVIOUS
        <5> QED BY <4>1, <5>1, <5>2
      <4> DEFINE Z == {c} \cup {i \in DOMAIN types : types[i].kind = "iface"}
      <4>3. \A x \in Z \cap (1 .. Len(types)) : FirstIface[x] \subseteq Z
        <5> TAKE x \in Z \cap (1 .. Len(types))
        <5>1. x \in DOMAIN types
          BY <1>1
        <5>2. \A i \in FirstIface[x] : types[i].kind = "iface"
          BY <5>1, <1>4
        <5>3. FirstIface[x] \subseteq 1 .. x - 1 /\ 1 .. x - 1 \subseteq DOMAIN types
          BY <1>1, <5>1 DEF Back
        <5> QED BY <5>2, <5>3
      <4>4. Reach(FirstIface)[c] \subseteq Z
        <5>1. c \in Z
          OBVIOUS
        <5> HIDE DEF Z
        <5> QED BY <1>1, <3>3, <4>3, <5>1, ReachWithin
      <4>5. v = c
        BY <3>2, <4>2, <4>4
      <4>6. w \in Range(types[c].line)
        <5>1. types[c].line \in Seq(Nat)
          BY <1>1, <3>3, TypeAt
        <5>2. 2 \in DOMAIN types[c].line
          <6>1. Len(types[c].line) \in Nat /\ DOMAIN types[c].line = 1 .. Len(types[c].line)
            BY <5>1
          <6>2. \A n \in Nat : n > 1 => 2 \in 1 .. n
            OBVIOUS
          <6> QED BY <4>1, <4>5, <6>1, <6>2
        <5> QED BY <4>1, <4>5, <5>2 DEF Range
      <4>7. w \in Range(types[t].line)
        BY <1>3, <3>2, <4>6
      <4>8. w \in Reach(FirstIface)[w]
        <5>1. w \in 1 .. Len(types)
          BY <1>1, <1>3, <4>7
        <5> QED BY <1>1, <5>1, ReachFrom
      <4> QED BY <3>1, <4>7, <4>8 DEF InstanceOf
    <3> QED BY <3>4, <3>5
  <2>3. A \subseteq S
    <3>1. \A v \in S \cap (1 .. Len(types)) : Parents[v] \subseteq S
      BY <2>2
    <3>2. t \in 1 .. Len(types)
      BY <1>1
    <3> HIDE DEF S
    <3> QED BY <1>1, <2>1, <3>1, <3>2, ReachWithin DEF A, Ancestors
  <2> QED BY <1>6, <2>3
<1> QED BY <1>5, <1>6 DEF A

LEMMA InterfacesStay ==
  ASSUME IInv
  PROVE  InterfacesKept
BY MethodsKept, InstanceTold DEF InterfacesKept

-----------------------------------------------------------------------------
(* What a step leaves alone                                                *)

\* A type that stays is as it was declared, a class keeps its attributes unless
\* it is patched, and a class its name unless that is rebound.
Follows ==
  /\ \A t \in DOMAIN types \cap DOMAIN types' :
       /\ types'[t].name = types[t].name /\ types'[t].kind = types[t].kind
       /\ types'[t].line = types[t].line /\ types'[t].ifaces = types[t].ifaces
       /\ types'[t].abstract = types[t].abstract /\ types'[t].stack = types[t].stack
       /\ types'[t].methods = types[t].methods
       /\ t \in patched' \/ \A a \in DOMAIN types[t].table :
                             a \in DOMAIN types'[t].table /\ types'[t].table[a] = types[t].table[a]
  /\ patched \subseteq patched' /\ rebound \subseteq rebound'
  /\ \A n \in DOMAIN main :
       main[n].k = "class" => n \in rebound' \/ (n \in DOMAIN main' /\ main'[n] = main[n])
  /\ Undeclared' \cap DOMAIN types \subseteq Undeclared

LEMMA StackAt ==
  ASSUME TypeOK, Formed, NEW t \in DOMAIN types
  PROVE  /\ types[t].stack \in Seq(Nat) /\ Len(types[t].stack) \in Nat
         /\ DOMAIN types[t].stack = 1 .. Len(types[t].stack) /\ types[t].stack[1] = t
         /\ Len(types[t].stack) = 1 \/ (types[t].stack[2] \in 1 .. t - 1 /\ Len(types[t].stack) > 1)
         /\ \A j \in DOMAIN types[t].stack :
              /\ types[t].stack[j] \in DOMAIN types /\ types[types[t].stack[j]].table \in Tables
              /\ types[t].stack[j] \in 1 .. t
              /\ types[t].kind = "class" => types[types[t].stack[j]].kind = "class"
<1> DEFINE stack == types[t].stack
<1>1. stack \in Seq(Nat) /\ t \in 1 .. Len(types) /\ Len(types) \in Nat /\ DOMAIN types = 1 .. Len(types)
  BY TypeAt
<1>2. /\ Len(stack) > 0 /\ stack[1] = t
      /\ \A k \in 2 .. Len(stack) : stack[k] \in 1 .. t - 1 /\ types[stack[k]].kind = "class"
  BY DEF Formed, Stacked
<1> HIDE DEF stack
<1>3. Len(stack) \in Nat /\ DOMAIN stack = 1 .. Len(stack)
  BY <1>1
<1>4. Len(stack) = 1 \/ (2 \in 2 .. Len(stack) /\ Len(stack) > 1)
  BY <1>2, <1>3
<1>5. \A j \in DOMAIN stack : stack[j] \in 1 .. t /\ (types[t].kind = "class" => types[stack[j]].kind = "class")
  <2> TAKE j \in DOMAIN stack
  <2>1. j = 1 \/ j \in 2 .. Len(stack)
    BY <1>3
  <2>2. CASE j = 1
    BY <1>1, <1>2, <2>2
  <2>3. CASE j \in 2 .. Len(stack)
    BY <1>1, <1>2, <2>3
  <2> QED BY <2>1, <2>2, <2>3
<1>6. \A j \in DOMAIN stack : stack[j] \in DOMAIN types
  BY <1>1, <1>5
<1>7. \A j \in DOMAIN stack : types[stack[j]].table \in Tables
  BY <1>6, TypeAt
<1> QED BY <1>1, <1>2, <1>3, <1>4, <1>5, <1>6, <1>7 DEF stack

LEMMA NamedFollows ==
  ASSUME TypeOK, TypeOK', Formed, Follows, NEW t \in DOMAIN types \cap DOMAIN types', Named(t)
  PROVE  Named(t)'
<1> DEFINE name == types[t].name
           up == types[t].stack[2]
<1>1. types'[t].name = types[t].name /\ types'[t].stack = types[t].stack
  BY DEF Follows
<1>2. CASE Len(types[t].stack) = 1
  <2>1. name \in rebound \/ Leads(main, name, t)
    BY <1>2 DEF Named
  <2>2. Leads(main, name, t) => name \in rebound' \/ Leads(main', name, t)
    BY DEF Leads, Follows, Val
  <2>3. name \in rebound' \/ Leads(main', name, t)
    BY <2>1, <2>2 DEF Follows
  <2> QED BY <1>1, <1>2, <2>3 DEF Named, Leads
<1>3. CASE Len(types[t].stack) # 1
  <2>1. up \in 1 .. t - 1
    BY <1>3, StackAt
  <2>2. up \in DOMAIN types \cap DOMAIN types'
    <3>1. DOMAIN types = 1 .. Len(types) /\ DOMAIN types' = 1 .. Len(types') /\ Len(types) \in Nat /\ Len(types') \in Nat
      BY DEF TypeOK
    <3> QED BY <2>1, <3>1
  <2>3. up \in patched \/ Leads(types[up].table, name, t)
    BY <1>3 DEF Named
  <2>4. up \in patched' \/ Leads(types'[up].table, name, t)
    BY <2>2, <2>3 DEF Leads, Follows
  <2> QED BY <1>1, <1>3, <2>4 DEF Named, Leads
<1> QED BY <1>2, <1>3

LEMMA ClassesFollow ==
  ASSUME TypeOK, TypeOK', Formed, Follows, NEW T, T \subseteq DOMAIN types \cap DOMAIN types'
  PROVE  /\ \A t \in ClassesIn(T) : t \in T /\ types'[t].kind = "class" /\ Named(t)'
         /\ \A t \in IfacesIn(T) : t \in T /\ types'[t].kind = "iface"
<1>1. \A t \in T : types'[t].kind = types[t].kind
  BY DEF Follows
<1>2. \A t \in T : Named(t) => Named(t)'
  BY NamedFollows
<1> QED BY <1>1, <1>2 DEF ClassesIn, IfacesIn

LEMMA FormedFollows ==
  ASSUME TypeOK, TypeOK', Formed, Follows, NEW t \in DOMAIN types \cap DOMAIN types'
  PROVE  Lined(t)' /\ Stacked(t)' /\ Extending(t)'
<1>1. /\ types'[t].line = types[t].line /\ types'[t].kind = types[t].kind /\ types'[t].stack = types[t].stack
      /\ types'[t].ifaces = types[t].ifaces /\ types'[t].methods = types[t].methods
  BY DEF Follows
<1>2. \A u \in 1 .. t - 1 : u \in DOMAIN types \cap DOMAIN types'
  <2>1. DOMAIN types = 1 .. Len(types) /\ DOMAIN types' = 1 .. Len(types') /\ Len(types) \in Nat /\ Len(types') \in Nat
    BY DEF TypeOK
  <2> QED BY <2>1
<1>3. \A u \in 1 .. t - 1 : /\ types'[u].line = types[u].line /\ types'[u].kind = types[u].kind
                            /\ types'[u].methods = types[u].methods
                            /\ u \notin Undeclared => u \notin Undeclared'
  BY <1>2 DEF Follows
<1>4. Lined(t) /\ Stacked(t) /\ Extending(t)
  BY DEF Formed
<1>5. Lined(t)'
  <2> DEFINE line == types[t].line
  <2>1. types'[t].line = line
    BY <1>1
  <2>2. /\ Len(line) > 0 /\ line[1] = t
        /\ types[t].kind = "iface" => Len(line) = 1
        /\ Len(line) > 1 => /\ line[2] \in (1 .. t - 1) \ Undeclared /\ types[line[2]].kind = "class"
                            /\ line = <<t>> \o types[line[2]].line
        /\ \A k \in 2 .. Len(line) : line[k] \in (1 .. t - 1) \ Undeclared /\ types[line[k]].kind = "class"
    BY <1>4 DEF Lined
  <2> HIDE DEF line
  <2>3. Len(line) > 1 => /\ line[2] \in (1 .. t - 1) \ Undeclared' /\ types'[line[2]].kind = "class"
                         /\ line = <<t>> \o types'[line[2]].line
    BY <1>3, <2>2
  <2>4. \A k \in 2 .. Len(line) : line[k] \in (1 .. t - 1) \ Undeclared' /\ types'[line[k]].kind = "class"
    BY <1>3, <2>2
  <2> QED BY <1>1, <2>1, <2>2, <2>3, <2>4 DEF Lined
<1>6. Stacked(t)'
  BY <1>1, <1>3, <1>4 DEF Stacked
<1>7. Extending(t)'
  BY <1>1, <1>3, <1>4 DEF Extending
<1> QED BY <1>5, <1>6, <1>7

\* The nearest attribute is the same where the tables are.
LEMMA FirstInSame ==
  ASSUME NEW s \in Seq(Nat), NEW a,
         \A j \in DOMAIN s : types'[s[j]].table = types[s[j]].table
  PROVE  FirstIn(s, a)' = FirstIn(s, a)
<1> DEFINE having == {k \in DOMAIN s : a \in DOMAIN types[s[k]].table}
           having2 == {k \in DOMAIN s : a \in DOMAIN types'[s[k]].table}
<1>1. having2 = having
  OBVIOUS
<1>2. /\ Nearest(s, a) = IF having = {} THEN 0 ELSE CHOOSE k \in having : \A j \in having : k <= j
      /\ Nearest(s, a)' = IF having2 = {} THEN 0 ELSE CHOOSE k \in having2 : \A j \in having2 : k <= j
  BY DEF Nearest
<1> HIDE DEF having, having2
<1>3. Nearest(s, a)' = Nearest(s, a)
  BY <1>1, <1>2
<1>4. Nearest(s, a) = 0 \/ Nearest(s, a) \in DOMAIN s
  BY NearestIs
<1>5. /\ FirstIn(s, a) = IF Nearest(s, a) = 0 THEN Nothing ELSE types[s[Nearest(s, a)]].table[a]
      /\ FirstIn(s, a)' = IF Nearest(s, a)' = 0 THEN Nothing ELSE types'[s[Nearest(s, a)']].table[a]
  BY DEF FirstIn
<1> QED BY <1>3, <1>4, <1>5

LEMMA FulfilsFollows ==
  ASSUME TypeOK, TypeOK', Formed, Follows, NEW t \in DOMAIN types \cap DOMAIN types', Fulfils(t),
         \A k \in DOMAIN types[t].line :
           types[t].line[k] \in patched' \/ types'[types[t].line[k]].table = types[types[t].line[k]].table
  PROVE  Fulfils(t)'
<1> SUFFICES ASSUME types'[t].kind = "class", Range(types'[t].line) \cap patched' = {}
             PROVE  Compatible(t)'
  BY DEF Fulfils
<1>1. /\ types'[t].line = types[t].line /\ types'[t].kind = types[t].kind
      /\ types'[t].ifaces = types[t].ifaces /\ patched \subseteq patched'
  BY DEF Follows
<1>2. Compatible(t)
  BY <1>1 DEF Fulfils
<1>3. \A k \in DOMAIN types[t].line : types'[types[t].line[k]].table = types[types[t].line[k]].table
  BY <1>1 DEF Range
<1>4. \A m : SearchAttr(t, m)' = SearchAttr(t, m)
  <2>1. types[t].line \in Seq(Nat)
    BY OnLine
  <2>2. \A m : FirstIn(types[t].line, m)' = FirstIn(types[t].line, m)
    BY <1>1, <1>3, <2>1, FirstInSame
  <2> QED BY <1>1, <2>2 DEF SearchAttr
<1>5. \A i \in Range(types[t].ifaces) : types'[i].methods = types[i].methods
  <2>1. \A k \in DOMAIN types[t].ifaces : types[t].ifaces[k] \in 1 .. t - 1
    BY DEF Formed, Extending
  <2>2. \A u \in 1 .. t - 1 : u \in DOMAIN types \cap DOMAIN types'
    <3>1. DOMAIN types = 1 .. Len(types) /\ DOMAIN types' = 1 .. Len(types') /\ Len(types) \in Nat /\ Len(types') \in Nat
      BY DEF TypeOK
    <3> QED BY <3>1
  <2> QED BY <2>1, <2>2 DEF Range, Follows
<1> QED BY <1>1, <1>2, <1>4, <1>5 DEF Compatible

-----------------------------------------------------------------------------
(* Steps of a script outside of declarations                               *)

\* What holds when no class is under declaration.
LEMMA Outside ==
  ASSUME IInv, open = <<>>
  PROVE  /\ TypeOK /\ Formed /\ Settled = DOMAIN types /\ Whole = DOMAIN types /\ Undeclared = {}
         /\ Len(objects) \in Nat /\ DOMAIN objects = 1 .. Len(objects)
         /\ Len(types) \in Nat /\ DOMAIN types = 1 .. Len(types)
         /\ AllFit(main, ClassesIn(DOMAIN types), IfacesIn(DOMAIN types), Len(objects))
         /\ \A t \in DOMAIN types :
              AllFit(types[t].table, ClassesIn(DOMAIN types), IfacesIn(DOMAIN types), Len(objects))
<1>1. TypeOK /\ Formed /\ Opened /\ MainFits /\ TablesFit
  BY DEF IInv
<1>2. Settled = DOMAIN types /\ Whole = DOMAIN types /\ Undeclared = {}
  BY <1>1, SettledIs
<1>3. Len(objects) \in Nat /\ DOMAIN objects = 1 .. Len(objects)
      /\ Len(types) \in Nat /\ DOMAIN types = 1 .. Len(types)
  BY <1>1 DEF TypeOK
<1> QED BY <1>1, <1>2, <1>3 DEF MainFits, TablesFit

\* An object as a constructor makes it, when there are n.
Fresh(r, n) ==
  /\ AllFit(r.own, ClassesIn(DOMAIN types), IfacesIn(DOMAIN types), n)
  /\ AllFit(r.snap, ClassesIn(DOMAIN types), IfacesIn(DOMAIN types), n)
  /\ Fits(r.type, ClassesIn(DOMAIN types), IfacesIn(DOMAIN types), n)
  /\ r.made \in ClassesIn(DOMAIN types) /\ ~types[r.made].abstract
  /\ ~Astray(r.made) =>
       /\ r.type = Val("class", r.made)
       /\ Len(types[r.made].stack) > 1 => Leads(r.snap, types[r.made].name, r.made)

\* The objects objs2 are those of objs, with other fields, and new ones.
After(objs, objs2) ==
  /\ Len(objs) <= Len(objs2)
  /\ \A o \in DOMAIN objs :
       /\ objs2[o].type = objs[o].type /\ objs2[o].snap = objs[o].snap /\ objs2[o].made = objs[o].made
       /\ AllFit(objs2[o].own, ClassesIn(DOMAIN types), IfacesIn(DOMAIN types), Len(objs2))
  /\ \A o \in DOMAIN objs2 \ DOMAIN objs : Fresh(objs2[o], Len(objs2))

LEMMA RunStep ==
  ASSUME IInv, TypeOK', open = <<>>, open' = open, types' = types, patched' = patched,
         rebound \subseteq rebound',
         \A n \in DOMAIN main :
           main[n].k = "class" => n \in rebound' \/ (n \in DOMAIN main' /\ main'[n] = main[n]),
         AllFit(main', ClassesIn(DOMAIN types), IfacesIn(DOMAIN types), Len(objects')),
         After(objects, objects'), OnlyTheUnguarded'
  PROVE  IInv'
<1> DEFINE C == ClassesIn(DOMAIN types)
           I == IfacesIn(DOMAIN types)
           n == Len(objects)
           n2 == Len(objects')
           C2 == ClassesIn(Settled)'
           I2 == IfacesIn(Settled)'
<1>1. /\ TypeOK /\ Formed /\ Undeclared = {} /\ n \in Nat /\ DOMAIN objects = 1 .. n
      /\ DOMAIN types = 1 .. Len(types)
      /\ \A t \in DOMAIN types : AllFit(types[t].table, C, I, n)
  BY Outside
<1>2. n2 \in Nat /\ DOMAIN objects' = 1 .. n2 /\ n <= n2
  BY DEF TypeOK, After
<1>3. DOMAIN open' = {}
  OBVIOUS
<1>4. Undeclared' = {} /\ Settled' = DOMAIN types /\ Whole' = DOMAIN types
  <2>1. Undeclared' = {}
    BY <1>3 DEF Undeclared
  <2>2. Settled' = DOMAIN types
    BY <1>1 DEF Settled
  <2>3. Whole' = DOMAIN types
    BY <2>1 DEF Whole
  <2> QED BY <2>1, <2>2, <2>3
<1>5. Follows
  BY <1>4 DEF Follows
<1>6. C \subseteq C2 /\ I \subseteq I2 /\ C2 = ClassesIn(Whole)' /\ I2 = IfacesIn(Whole)'
  <2>1. /\ \A t \in C : t \in DOMAIN types /\ types'[t].kind = "class" /\ Named(t)'
        /\ \A t \in I : t \in DOMAIN types /\ types'[t].kind = "iface"
    BY <1>1, <1>5, ClassesFollow
  <2>2. C2 = {t \in DOMAIN types : types'[t].kind = "class" /\ Named(t)'}
        /\ I2 = {t \in DOMAIN types : types'[t].kind = "iface"}
        /\ ClassesIn(Whole)' = {t \in DOMAIN types : types'[t].kind = "class" /\ Named(t)'}
        /\ IfacesIn(Whole)' = {t \in DOMAIN types : types'[t].kind = "iface"}
    BY <1>4 DEF ClassesIn, IfacesIn
  <2> QED BY <2>1, <2>2
<1> HIDE DEF C, I, C2, I2, n, n2
<1>a. \A table : AllFit(table, C, I, n) => AllFit(table, C2, I2, n2)
  BY <1>1, <1>2, <1>6, AllFitMore
<1>b. \A table : AllFit(table, C, I, n2) => AllFit(table, C2, I2, n2)
  <2>1. n2 <= n2
    BY <1>2
  <2> QED BY <1>2, <1>6, <2>1, AllFitMore
<1>c. \A v : Fits(v, C, I, n) => Fits(v, C2, I2, n2)
  BY <1>1, <1>2, <1>6, FitsMore
<1>d. \A v : Fits(v, C, I, n2) => Fits(v, C2, I2, n2)
  <2>1. n2 <= n2
    BY <1>2
  <2> QED BY <1>2, <1>6, <2>1, FitsMore
<1>7. Formed'
  BY <1>1, <1>5, FormedFollows DEF Formed
<1>8. Opened'
  BY <1>3 DEF Opened
<1>9. MainFits'
  BY <1>b DEF MainFits, C, I, C2, I2, n2
<1>10. TablesFit'
  <2>1. \A t \in DOMAIN types : AllFit(types'[t].table, C2, I2, n2)
    BY <1>1, <1>a
  <2> QED BY <1>4, <1>6, <2>1 DEF TablesFit, C2, I2, n2
<1>11. \A o \in DOMAIN objects :
         /\ objects'[o].type = objects[o].type /\ objects'[o].snap = objects[o].snap
         /\ objects'[o].made = objects[o].made /\ AllFit(objects'[o].own, C, I, n2)
         /\ Fits(objects[o].type, C, I, n) /\ AllFit(objects[o].snap, C, I, n)
         /\ Made(o)
  <2>1. ObjectsFit /\ AllMade /\ Settled = DOMAIN types
    BY Outside DEF IInv
  <2> QED BY <2>1 DEF After, ObjectsFit, AllMade, C, I, n, n2
<1>12. \A o \in DOMAIN objects' \ DOMAIN objects : Fresh(objects'[o], n2)
  BY DEF After, n2
<1>13. ObjectsFit'
  <2> SUFFICES ASSUME NEW o \in DOMAIN objects'
               PROVE  /\ AllFit(objects'[o].own, C2, I2, n2) /\ AllFit(objects'[o].snap, C2, I2, n2)
                      /\ Fits(objects'[o].type, C2, I2, n2)
    BY DEF ObjectsFit, C2, I2, n2
  <2>1. CASE o \in DOMAIN objects
    BY <1>11, <1>a, <1>b, <1>c, <2>1
  <2>2. CASE o \notin DOMAIN objects
    <3>1. AllFit(objects'[o].own, C, I, n2) /\ AllFit(objects'[o].snap, C, I, n2) /\ Fits(objects'[o].type, C, I, n2)
      BY <1>12, <2>2 DEF Fresh, C, I
    <3> QED BY <3>1, <1>b, <1>d
  <2> QED BY <2>1, <2>2
<1>14. \A t \in DOMAIN types : Astray(t) => Astray(t)'
  BY DEF Astray
<1>15. AllMade'
  <2> SUFFICES ASSUME NEW o \in DOMAIN objects' PROVE Made(o)'
    BY DEF AllMade
  <2> DEFINE r == objects'[o]
  <2>1. /\ r.made \in C /\ ~types[r.made].abstract
        /\ ~Astray(r.made) =>
             /\ r.type = Val("class", r.made)
             /\ Len(types[r.made].stack) > 1 => Leads(r.snap, types[r.made].name, r.made)
    <3>1. CASE o \in DOMAIN objects
      <4>1. Made(o) /\ r.made = objects[o].made /\ r.type = objects[o].type /\ r.snap = objects[o].snap
        BY <1>11, <3>1
      <4>2. Settled = DOMAIN types
        BY Outside
      <4> HIDE DEF r
      <4> QED BY <4>1, <4>2 DEF Made, C
    <3>2. CASE o \notin DOMAIN objects
      <4>1. Fresh(r, n2)
        BY <1>12, <3>2
      <4> HIDE DEF r
      <4> QED BY <4>1 DEF Fresh, C
    <3> QED BY <3>1, <3>2
  <2>2. r.made \in DOMAIN types /\ r.made \in C2
    BY <1>6, <2>1 DEF C, ClassesIn
  <2>3. ~types'[r.made].abstract
    BY <2>1
  <2>4. ASSUME ~Astray(objects[o].made)'
        PROVE  /\ r.type = Val("class", r.made)
               /\ Len(types'[r.made].stack) > 1 => Leads(r.snap, types'[r.made].name, r.made)
    <3>1. ~Astray(r.made)
      BY <2>2, <2>4 DEF Astray
    <3> HIDE DEF r
    <3> QED BY <2>1, <3>1
  <2> QED BY <2>2, <2>3, <2>4 DEF Made, Leads, C2
<1>16. AllFulfil'
  <2>1. \A t \in DOMAIN types : Fulfils(t)
    BY Outside DEF IInv, AllFulfil
  <2>2. \A t \in DOMAIN types : Fulfils(t)'
    BY <1>1, <1>5, <2>1, FulfilsFollows
  <2> QED BY <1>4, <2>2 DEF AllFulfil
<1> QED BY <1>7, <1>8, <1>9, <1>10, <1>13, <1>15, <1>16 DEF IInv

-----------------------------------------------------------------------------
(* What is found, what is called                                           *)

LEMMA FirstInFits ==
  ASSUME TypeOK, NEW s \in Seq(Nat), NEW a, NEW C, NEW I, NEW n \in Nat,
         \A j \in DOMAIN s : s[j] \in DOMAIN types /\ AllFit(types[s[j]].table, C, I, n)
  PROVE  /\ FirstIn(s, a) \in Values \cup {Nothing} /\ Fits(FirstIn(s, a), C, I, n)
         /\ FirstIn(s, a) # Nothing <=> \E j \in DOMAIN s : a \in DOMAIN types[s[j]].table
<1>1. \A j \in DOMAIN s : s[j] \in DOMAIN types /\ types[s[j]].table \in Tables
  BY TypeAt
<1>2. CASE FirstIn(s, a) = Nothing /\ \A j \in DOMAIN s : a \notin DOMAIN types[s[j]].table
  BY <1>2, FitsPlain
<1>3. CASE \E k \in DOMAIN s :
             /\ a \in DOMAIN types[s[k]].table
             /\ FirstIn(s, a) = types[s[k]].table[a]
             /\ FirstIn(s, a) \in Values /\ FirstIn(s, a) # Nothing
  <2>1. PICK k \in DOMAIN s :
             /\ a \in DOMAIN types[s[k]].table
             /\ FirstIn(s, a) = types[s[k]].table[a]
             /\ FirstIn(s, a) \in Values /\ FirstIn(s, a) # Nothing
    BY <1>3
  <2>2. Fits(FirstIn(s, a), C, I, n)
    BY <2>1 DEF AllFit
  <2> QED BY <2>1, <2>2
<1> QED BY <1>1, <1>2, <1>3, FirstInIs

LEMMA LookupFits ==
  ASSUME TypeOK, NEW s \in Seq(Nat), NEW a, NEW C, NEW I, NEW n \in Nat,
         \A j \in DOMAIN s : s[j] \in DOMAIN types /\ AllFit(types[s[j]].table, C, I, n),
         AllFit(main, C, I, n)
  PROVE  Lookup(s, a) \in Values \cup {Nothing} /\ Fits(Lookup(s, a), C, I, n)
<1>1. FirstIn(s, a) \in Values \cup {Nothing} /\ Fits(FirstIn(s, a), C, I, n)
  BY FirstInFits
<1>2. a \in DOMAIN main => main[a] \in Values /\ Fits(main[a], C, I, n)
  BY TableHas DEF TypeOK, AllFit
<1>3. Fits(Nothing, C, I, n)
  BY FitsPlain
<1> QED BY <1>1, <1>2, <1>3 DEF Lookup

LEMMA ShapeAt ==
  ASSUME NEW f \in DOMAIN Shapes
  PROVE  /\ Shapes[f].params \in Nat /\ Shapes[f].defaults \in Nat /\ Shapes[f].variadic \in BOOLEAN
         /\ Shapes[f].sets \in STRING /\ Shapes[f].gives \in Maker .. Len(Shapes) /\ f \in Nat
         /\ Shapes[f].gives > 0 => Shapes[f].gives \in DOMAIN Shapes
<1> DEFINE R == [params : Nat, defaults : Nat, variadic : BOOLEAN, method : BOOLEAN, static : BOOLEAN,
                 lambda : BOOLEAN, builtin : BOOLEAN, sets : STRING, gives : Maker .. Len(Shapes)]
<1>1. Shapes \in Seq(R) /\ Len(Shapes) \in Nat /\ DOMAIN Shapes = 1 .. Len(Shapes)
  BY ShapesAssumption
<1>2. Shapes[f] \in R /\ f \in Nat
  <2> HIDE DEF R
  <2> QED BY <1>1
<1>3. Shapes[f].gives \in Maker .. Len(Shapes)
  BY <1>2
<1>4. Shapes[f].gives > 0 => Shapes[f].gives \in DOMAIN Shapes
  BY <1>1, <1>3 DEF Maker
<1> QED BY <1>2, <1>3, <1>4

\* Objects with other fields, those assigned by functions.
Touched(objs, objs2) ==
  /\ objs2 \in Seq(ObjectRecords) /\ Len(objs2) = Len(objs)
  /\ \A o \in DOMAIN objs :
       /\ objs2[o].type = objs[o].type /\ objs2[o].snap = objs[o].snap /\ objs2[o].made = objs[o].made
       /\ \A a \in DOMAIN objs2[o].own :
            objs2[o].own[a] = Data \/ (a \in DOMAIN objs[o].own /\ objs2[o].own[a] = objs[o].own[a])

LEMMA FieldAssigned ==
  ASSUME NEW objs \in Seq(ObjectRecords), NEW o \in DOMAIN objs, NEW a \in STRING, NEW v \in Values
  PROVE  LET objs2 == [objs EXCEPT ![o].own = Assigned(@, a, v)]
         IN /\ objs2 \in Seq(ObjectRecords) /\ Len(objs2) = Len(objs)
            /\ \A p \in DOMAIN objs :
                 /\ objs2[p].type = objs[p].type /\ objs2[p].snap = objs[p].snap /\ objs2[p].made = objs[p].made
                 /\ objs2[p].own = IF p = o THEN Assigned(objs[p].own, a, v) ELSE objs[p].own
<1> DEFINE own2 == Assigned(objs[o].own, a, v)
           r == [objs[o] EXCEPT !.own = own2]
           objs2 == [objs EXCEPT ![o].own = Assigned(@, a, v)]
<1>1. objs[o] \in ObjectRecords
  OBVIOUS
<1>2. own2 \in Tables
  BY <1>1, ObjectFields, TableAssigned
<1>3. objs2 = [objs EXCEPT ![o] = r]
  OBVIOUS
<1> HIDE DEF own2
<1>4. r \in ObjectRecords /\ r.own = own2 /\ r.type = objs[o].type /\ r.snap = objs[o].snap /\ r.made = objs[o].made
  BY <1>1, <1>2 DEF ObjectRecords
<1> HIDE DEF r, objs2
<1>5. objs2 \in Seq(ObjectRecords) /\ Len(objs2) = Len(objs)
  BY <1>3, <1>4
<1>6. \A p \in DOMAIN objs : objs2[p] = IF p = o THEN r ELSE objs[p]
  BY <1>3
<1>7. \A p \in DOMAIN objs :
        /\ objs2[p].type = objs[p].type /\ objs2[p].snap = objs[p].snap /\ objs2[p].made = objs[p].made
        /\ objs2[p].own = IF p = o THEN own2 ELSE objs[p].own
  BY <1>4, <1>6
<1> QED BY <1>5, <1>7 DEF objs2, own2

LEMMA DataAssigned ==
  ASSUME NEW objs \in Seq(ObjectRecords), NEW o \in DOMAIN objs, NEW a \in STRING
  PROVE  Touched(objs, [objs EXCEPT ![o].own = Assigned(@, a, Data)])
<1> DEFINE after == [objs EXCEPT ![o].own = Assigned(@, a, Data)]
<1>1. Data \in Values
  BY DataIsValue
<1>2. /\ after \in Seq(ObjectRecords) /\ Len(after) = Len(objs)
      /\ \A p \in DOMAIN objs :
           /\ after[p].type = objs[p].type /\ after[p].snap = objs[p].snap /\ after[p].made = objs[p].made
           /\ after[p].own = IF p = o THEN Assigned(objs[p].own, a, Data) ELSE objs[p].own
  BY <1>1, FieldAssigned
<1>3. objs[o] \in ObjectRecords
  OBVIOUS
<1>4. objs[o].own \in Tables
  BY <1>3, ObjectFields
<1>5. \A b \in DOMAIN Assigned(objs[o].own, a, Data) :
        \/ Assigned(objs[o].own, a, Data)[b] = Data
        \/ b \in DOMAIN objs[o].own /\ Assigned(objs[o].own, a, Data)[b] = objs[o].own[b]
  <2> DEFINE own == objs[o].own
             T == Assigned(own, a, Data)
  <2>1. own \in Tables
    BY <1>4
  <2> HIDE DEF own
  <2>2. DOMAIN T = DOMAIN own \cup {a}
    BY <1>1, <2>1, TableAssigned
  <2>3. \A b \in DOMAIN own \cup {a} : T[b] = IF b = a THEN Data ELSE own[b]
    BY DEF Assigned
  <2> HIDE DEF T
  <2>4. \A b \in DOMAIN T : T[b] = Data \/ (b \in DOMAIN own /\ T[b] = own[b])
    BY <2>2, <2>3
  <2> QED BY <2>4 DEF T, own
<1> HIDE DEF after
<1>6. Touched(objs, after)
  BY <1>2, <1>5 DEF Touched
<1> QED BY <1>6 DEF after

LEMMA InvokeIs ==
  ASSUME NEW objs \in Seq(ObjectRecords), NEW v \in Values, v.id \in DOMAIN Shapes,
         \A i \in DOMAIN v.on : v.on[i] \in 1 .. Len(objs), NEW n \in Nat, NEW C, NEW I
  PROVE  /\ Invoke(objs, v, n).how \in {"ok", "thrown"}
         /\ Touched(objs, Invoke(objs, v, n).objects)
         /\ Invoke(objs, v, n).how = "ok" =>
              Invoke(objs, v, n).v \in Values /\ Fits(Invoke(objs, v, n).v, C, I, Len(objs))
<1> DEFINE f == Shapes[v.id]
           self == [k \in DOMAIN v.on |-> Val("object", v.on[k])]
           given == Len(self) + n
           params == f.params + (IF f.method /\ ~f.static THEN 1 ELSE 0)
           accepted == IF f.variadic THEN given >= params - 1
                       ELSE given \in params - f.defaults .. params
           first == IF self = <<>> THEN Data ELSE self[1]
           after == IF f.sets = "" THEN objs
                    ELSE [objs EXCEPT ![first.id].own = Assigned(@, f.sets, Data)]
           result == IF f.gives = Given THEN first ELSE IF f.gives > 0 THEN Val("func", f.gives) ELSE Data
           refused == ~accepted \/ (f.sets # "" /\ first.k # "object")
<1>1. Invoke(objs, v, n) = IF refused THEN Called("thrown", objs, Nothing)
                           ELSE IF f.gives = Throws THEN Called("thrown", after, Nothing)
                           ELSE Called("ok", after, result)
  BY DEF Invoke
<1>2. f.sets \in STRING /\ (f.gives > 0 => f.gives \in DOMAIN Shapes /\ f.gives \in Int)
  BY ShapeAt
<1>3. Len(objs) \in Nat /\ DOMAIN objs = 1 .. Len(objs)
  OBVIOUS
<1>4. first \in Values /\ Fits(first, C, I, Len(objs)) /\ (first.k = "object" => first.id \in DOMAIN objs)
  <2>1. v.on \in Seq(Nat)
    BY DEF Values
  <2>2. CASE v.on = <<>>
    <3>1. DOMAIN v.on = {}
      BY <2>2
    <3>2. self = <<>>
      BY <3>1
    <3>3. Data \in Values /\ Data.k # "object"
      BY DataIsValue
    <3> QED BY <1>3, <3>2, <3>3, FitsPlain
  <2>3. CASE v.on # <<>>
    <3>1. 1 \in DOMAIN v.on
      BY <2>1, <2>3
    <3>2. DOMAIN self = DOMAIN v.on /\ self[1] = Val("object", v.on[1])
      BY <3>1
    <3>3. self # <<>>
      BY <3>1, <3>2
    <3>4. v.on[1] \in 1 .. Len(objs)
      BY <3>1
    <3>5. first = Val("object", v.on[1])
      BY <3>2, <3>3
    <3>6. v.on[1] \in Int /\ "object" \in Kinds
      BY <1>3, <3>4 DEF Kinds
    <3>7. /\ Val("object", v.on[1]) \in Values /\ Val("object", v.on[1]).id = v.on[1]
      BY <3>6, ValIsValue
    <3> HIDE DEF first
    <3> QED BY <1>3, <3>4, <3>5, <3>7, FitsPlain
  <2> QED BY <2>2, <2>3
<1>5. result \in Values /\ Fits(result, C, I, Len(objs))
  <2>1. Data \in Values /\ (f.gives > 0 => Val("func", f.gives) \in Values)
    BY <1>2, DataIsValue, ValIsValue DEF Kinds
  <2>2. Fits(Data, C, I, Len(objs)) /\ (f.gives > 0 => Fits(Val("func", f.gives), C, I, Len(objs)))
    BY <1>2, <1>3, FitsPlain
  <2> HIDE DEF first, f
  <2> QED BY <1>4, <2>1, <2>2
<1>6. Touched(objs, objs)
  BY DEF Touched
<1>7. ~refused => Touched(objs, after)
  <2> SUFFICES ASSUME ~refused PROVE Touched(objs, after)
    OBVIOUS
  <2>1. CASE f.sets = ""
    BY <1>6, <2>1
  <2>2. CASE f.sets # ""
    <3>1. first.k = "object" /\ first.id \in DOMAIN objs /\ after = [objs EXCEPT ![first.id].own = Assigned(@, f.sets, Data)]
      BY <1>4, <2>2
    <3> HIDE DEF first, f, refused, after
    <3> QED BY <1>2, <3>1, DataAssigned
  <2> QED BY <2>1, <2>2
<1> HIDE DEF refused, after, result, f
<1>8. \A how, os, x : Called(how, os, x).how = how /\ Called(how, os, x).objects = os /\ Called(how, os, x).v = x
  BY DEF Called
<1> QED BY <1>1, <1>5, <1>6, <1>7, <1>8

LEMMA AfterSame ==
  ASSUME IInv, open = <<>>
  PROVE  objects \in Seq(ObjectRecords) /\ After(objects, objects)
<1>1. ObjectsFit /\ Settled = DOMAIN types /\ Len(objects) \in Nat
  BY Outside DEF IInv
<1>2. objects \in Seq(ObjectRecords)
  BY DEF IInv, TypeOK
<1> QED BY <1>1, <1>2 DEF After, ObjectsFit

LEMMA AfterTouched ==
  ASSUME NEW objs \in Seq(ObjectRecords), NEW objs2, After(objects, objs), Touched(objs, objs2),
         DOMAIN objects \subseteq DOMAIN objs
  PROVE  objs2 \in Seq(ObjectRecords) /\ After(objects, objs2)
<1> DEFINE C == ClassesIn(DOMAIN types)
           I == IfacesIn(DOMAIN types)
           n == Len(objs)
<1>1. /\ n \in Nat /\ DOMAIN objs = 1 .. n
      /\ objs2 \in Seq(ObjectRecords) /\ Len(objs2) = n /\ DOMAIN objs2 = 1 .. n
  BY DEF Touched
<1>2. \A o \in DOMAIN objs :
        /\ objs2[o].type = objs[o].type /\ objs2[o].snap = objs[o].snap /\ objs2[o].made = objs[o].made
        /\ \A a \in DOMAIN objs2[o].own :
             objs2[o].own[a] = Data \/ (a \in DOMAIN objs[o].own /\ objs2[o].own[a] = objs[o].own[a])
  BY DEF Touched
<1>3. Fits(Data, C, I, n)
  BY <1>1, FitsPlain
<1>4. \A o \in DOMAIN objs : AllFit(objs[o].own, C, I, n) => AllFit(objs2[o].own, C, I, n)
  BY <1>2, <1>3 DEF AllFit
<1>5. \A o \in DOMAIN objs \ DOMAIN objects : Fresh(objs[o], n)
  BY DEF After
<1>6. \A o \in DOMAIN objs \ DOMAIN objects : Fresh(objs2[o], n)
  BY <1>2, <1>4, <1>5 DEF Fresh
<1>7. \A o \in DOMAIN objects :
        /\ objs2[o].type = objects[o].type /\ objs2[o].snap = objects[o].snap /\ objs2[o].made = objects[o].made
        /\ AllFit(objs2[o].own, C, I, n)
  BY <1>2, <1>4 DEF After
<1>8. Len(objects) <= n
  BY DEF After
<1> HIDE DEF C, I, n
<1> QED BY <1>1, <1>6, <1>7, <1>8 DEF After, C, I

LEMMA CopiesFit ==
  ASSUME IInv, open = <<>>, NEW t \in DOMAIN types
  PROVE  Copies(t) \in Tables /\ AllFit(Copies(t), ClassesIn(DOMAIN types), IfacesIn(DOMAIN types), Len(objects))
<1> DEFINE C == ClassesIn(DOMAIN types)
           I == IfacesIn(DOMAIN types)
           s == types[t].stack
           names == UNION {DOMAIN types[u].table : u \in Range(s)}
<1>1. TypeOK /\ Formed /\ Len(objects) \in Nat
  BY Outside
<1>2. s \in Seq(Nat) /\ \A j \in DOMAIN s : s[j] \in DOMAIN types /\ types[s[j]].table \in Tables
  BY <1>1, StackAt
<1>3. \A j \in DOMAIN s : AllFit(types[s[j]].table, C, I, Len(objects))
  BY <1>2, Outside
<1> HIDE DEF C, I, s
<1>4. \A a : /\ FirstIn(s, a) \in Values \cup {Nothing} /\ Fits(FirstIn(s, a), C, I, Len(objects))
             /\ FirstIn(s, a) # Nothing <=> \E j \in DOMAIN s : a \in DOMAIN types[s[j]].table
  BY <1>1, <1>2, <1>3, FirstInFits
<1>5. \A a \in names : a \in STRING /\ FirstIn(s, a) \in Values
  <2> TAKE a \in names
  <2>1. PICK j \in DOMAIN s : a \in DOMAIN types[s[j]].table
    BY DEF Range
  <2>2. a \in STRING
    BY <1>2, <2>1, TableHas
  <2> QED BY <1>4, <2>1, <2>2
<1>6. Copies(t) = [a \in names |-> FirstIn(s, a)]
  BY DEF Copies, s
<1> HIDE DEF names
<1>7. Copies(t) \in [names -> Values] /\ names \subseteq STRING
  BY <1>5, <1>6
<1>8. Copies(t) \in Tables
  BY <1>7, TableFrom
<1>9. AllFit(Copies(t), C, I, Len(objects))
  BY <1>4, <1>6 DEF AllFit
<1> QED BY <1>8, <1>9 DEF C, I

\* The name of a class leads its constructor to the class.
LEMMA ClassFound ==
  ASSUME IInv, open = <<>>, NEW t \in ClassesIn(DOMAIN types), ~Astray(t)
  PROVE  /\ Lookup(types[t].stack, types[t].name) = Val("class", t)
         /\ Len(types[t].stack) > 1 => Leads(Copies(t), types[t].name, t)
<1> DEFINE s == types[t].stack
           name == types[t].name
<1>1. TypeOK /\ Formed /\ t \in DOMAIN types /\ Named(t)
  BY Outside DEF ClassesIn
<1>2. /\ s \in Seq(Nat) /\ Len(s) \in Nat /\ DOMAIN s = 1 .. Len(s) /\ s[1] = t
      /\ Len(s) = 1 \/ Len(s) > 1
      /\ \A j \in DOMAIN s : s[j] \in DOMAIN types /\ types[s[j]].table \in Tables
  BY <1>1, StackAt
<1>3. name \notin DOMAIN types[t].table
  BY DEF Astray
<1>4. \/ FirstIn(s, name) = Nothing /\ \A j \in DOMAIN s : name \notin DOMAIN types[s[j]].table
      \/ \E k \in DOMAIN s : /\ name \in DOMAIN types[s[k]].table
                             /\ \A j \in 1 .. k - 1 : name \notin DOMAIN types[s[j]].table
                             /\ FirstIn(s, name) = types[s[k]].table[name]
  <2> HIDE DEF s, name
  <2>1. \/ FirstIn(s, name) = Nothing /\ \A j \in DOMAIN s : name \notin DOMAIN types[s[j]].table
        \/ \E k \in DOMAIN s : /\ name \in DOMAIN types[s[k]].table
                               /\ \A j \in 1 .. k - 1 : name \notin DOMAIN types[s[j]].table
                               /\ FirstIn(s, name) = types[s[k]].table[name]
                               /\ FirstIn(s, name) \in Values /\ FirstIn(s, name) # Nothing
    BY <1>2, FirstInIs
  <2> QED BY <2>1
<1>5. CASE Len(s) = 1
  <2>1. name \notin rebound /\ Leads(main, name, t)
    BY <1>1, <1>5 DEF Named, Astray
  <2>2. \A j \in DOMAIN s : name \notin DOMAIN types[s[j]].table
    <3>1. \A j \in DOMAIN s : j = 1
      BY <1>2, <1>5
    <3> QED BY <1>2, <1>3, <3>1
  <2>3. FirstIn(s, name) = Nothing
    BY <1>4, <2>2
  <2>4. Lookup(s, name) = Val("class", t)
    BY <2>1, <2>3 DEF Lookup, Leads
  <2> QED BY <1>5, <2>4
<1>6. CASE Len(s) # 1
  <2>0. Len(s) > 1
    BY <1>2, <1>6
  <2>1. Leads(types[s[2]].table, name, t)
    BY <1>1, <1>6 DEF Named, Astray
  <2>2. 1 \in DOMAIN s /\ 2 \in DOMAIN s
    <3>1. \A m \in Nat : m > 1 => 1 \in 1 .. m /\ 2 \in 1 .. m
      OBVIOUS
    <3> QED BY <1>2, <2>0, <3>1
  <2>3. PICK k \in DOMAIN s : /\ name \in DOMAIN types[s[k]].table
                             /\ \A j \in 1 .. k - 1 : name \notin DOMAIN types[s[j]].table
                             /\ FirstIn(s, name) = types[s[k]].table[name]
    BY <1>4, <2>1, <2>2 DEF Leads
  <2>4. k = 2
    <3>1. k # 1
      BY <1>2, <1>3, <2>3
    <3>2. ~(2 \in 1 .. k - 1)
      BY <2>1, <2>3 DEF Leads
    <3> QED BY <1>2, <3>1, <3>2
  <2>5. FirstIn(s, name) = Val("class", t)
    BY <2>1, <2>3, <2>4 DEF Leads
  <2>6. Val("class", t) # Nothing
    BY DEF Val, Nothing
  <2>7. Lookup(s, name) = Val("class", t)
    BY <2>5, <2>6 DEF Lookup
  <2>8. s[2] \in Range(s)
    BY <2>2 DEF Range
  <2>9. name \in DOMAIN Copies(t) /\ Copies(t)[name] = FirstIn(s, name)
    BY <2>1, <2>8 DEF Copies, Leads
  <2> QED BY <2>5, <2>7, <2>9 DEF Leads
<1> QED BY <1>5, <1>6

LEMMA EmptyTable ==
  /\ <<>> \in Tables /\ DOMAIN <<>> = {}
  /\ \A C, I, n : AllFit(<<>>, C, I, n)
<1>1. DOMAIN <<>> = {}
  OBVIOUS
<1>2. <<>> \in [{} -> Values]
  OBVIOUS
<1>3. {} \subseteq STRING
  OBVIOUS
<1> QED BY <1>1, <1>2, <1>3, TableFrom DEF AllFit

\* What a call comes to.
Sound(out) ==
  /\ out.how \in {"ok", "thrown", "crash", "undefined"}
  /\ out.objects \in Seq(ObjectRecords) /\ After(objects, out.objects)
  /\ out.how = "ok" =>
       out.v \in Values /\ Fits(out.v, ClassesIn(DOMAIN types), IfacesIn(DOMAIN types), Len(out.objects))

LEMMA CalledIs ==
  ASSUME NEW how, NEW objs, NEW v
  PROVE  Called(how, objs, v).how = how /\ Called(how, objs, v).objects = objs /\ Called(how, objs, v).v = v
BY DEF Called

LEMMA Constructed ==
  ASSUME IInv, open = <<>>, NEW t \in ClassesIn(DOMAIN types), NEW n \in Nat
  PROVE  Sound(Constructor(t, n)) /\ Constructor(t, n).how \in {"ok", "thrown"}
<1> DEFINE C == ClassesIn(DOMAIN types)
           I == IfacesIn(DOMAIN types)
           o == Len(objects) + 1
           class == Lookup(types[t].stack, types[t].name)
           r == [type |-> class, own |-> <<>>, snap |-> Copies(t), made |-> t]
           made == Append(objects, r)
           table == types[t].table
           w == Wrapped(table["__init__"], o)
           init == Invoke(made, w, n)
           out == Constructor(t, n)
<1>1. /\ TypeOK /\ Formed /\ t \in DOMAIN types /\ types[t].kind = "class"
      /\ Len(objects) \in Nat /\ DOMAIN objects = 1 .. Len(objects) /\ t \in Nat /\ table \in Tables
      /\ AllFit(table, C, I, Len(objects)) /\ AllFit(main, C, I, Len(objects))
  <2>1. t \in DOMAIN types /\ types[t].kind = "class"
    BY DEF ClassesIn
  <2>2. t \in Nat /\ table \in Tables
    BY <2>1, TypeAt DEF IInv
  <2> QED BY <2>1, <2>2, Outside
<1>2. class \in Values \cup {Nothing} /\ Fits(class, C, I, Len(objects))
  <2>1. types[t].stack \in Seq(Nat) /\ \A j \in DOMAIN types[t].stack : types[t].stack[j] \in DOMAIN types
    BY <1>1, StackAt
  <2>2. \A j \in DOMAIN types[t].stack : AllFit(types[types[t].stack[j]].table, C, I, Len(objects))
    BY <2>1, Outside
  <2> HIDE DEF C, I
  <2> QED BY <1>1, <2>1, <2>2, LookupFits
<1>3. out = IF types[t].abstract \/ class = Nothing THEN Called("thrown", objects, Nothing)
            ELSE IF "__init__" \notin DOMAIN table THEN Called("ok", made, Val("object", o))
            ELSE IF table["__init__"].k # "func" THEN Called("ok", made, Val("object", o))
            ELSE IF init.how # "ok" THEN Called("thrown", objects, Nothing)
            ELSE Called("ok", init.objects, Val("object", o))
  BY DEF Constructor
<1>4. Sound(Called("thrown", objects, Nothing))
  BY CalledIs, AfterSame DEF Sound
<1>5. CASE types[t].abstract \/ class = Nothing
  BY <1>3, <1>4, <1>5, CalledIs
<1>6. CASE ~types[t].abstract /\ class # Nothing
  <2>1. r \in ObjectRecords /\ r.type = class /\ r.own = <<>> /\ r.snap = Copies(t) /\ r.made = t
    <3>1. Copies(t) \in Tables /\ <<>> \in Tables /\ class \in Values
      BY <1>1, <1>2, <1>6, CopiesFit, EmptyTable
    <3> HIDE DEF class
    <3> QED BY <1>1, <3>1 DEF ObjectRecords
  <2>2. objects \in Seq(ObjectRecords)
    BY <1>1 DEF TypeOK
  <2> HIDE DEF r, C, I
  <2>3. /\ made \in Seq(ObjectRecords) /\ Len(made) = o /\ o \in Nat /\ Len(objects) <= o /\ o \in 1 .. o
        /\ DOMAIN made = 1 .. o /\ made[o] = r /\ \A p \in DOMAIN objects : made[p] = objects[p]
    BY <1>1, <2>1, <2>2
  <2>4. Fresh(r, o)
    <3>1. AllFit(r.own, C, I, o)
      BY <2>1, EmptyTable
    <3>2. AllFit(r.snap, C, I, o)
      <4>1. AllFit(Copies(t), C, I, Len(objects))
        BY <1>1, CopiesFit DEF C, I
      <4> HIDE DEF o
      <4> QED BY <1>1, <2>1, <2>3, <4>1, AllFitMore
    <3>3. Fits(r.type, C, I, o)
      <4> HIDE DEF o, class
      <4> QED BY <1>1, <1>2, <2>1, <2>3, FitsMore
    <3>4. ~Astray(t) => class = Val("class", t) /\ (Len(types[t].stack) > 1 => Leads(Copies(t), types[t].name, t))
      BY ClassFound
    <3> HIDE DEF o, class
    <3> QED BY <1>6, <2>1, <3>1, <3>2, <3>3, <3>4 DEF Fresh, C, I
  <2> HIDE DEF made
  <2>5. After(objects, made)
    <3>1. \A p \in DOMAIN objects :
            /\ made[p].type = objects[p].type /\ made[p].snap = objects[p].snap /\ made[p].made = objects[p].made
            /\ AllFit(made[p].own, C, I, o)
      <4> TAKE p \in DOMAIN objects
      <4>1. made[p] = objects[p]
        BY <2>3
      <4>2. AllFit(objects[p].own, C, I, Len(objects))
        BY Outside DEF IInv, ObjectsFit, C, I
      <4>3. AllFit(objects[p].own, C, I, o)
        <5> HIDE DEF o
        <5> QED BY <1>1, <2>3, <4>2, AllFitMore
      <4> QED BY <4>1, <4>3
    <3>2. \A p \in DOMAIN made \ DOMAIN objects : p = o
      BY <1>1, <2>3
    <3>3. \A p \in DOMAIN made \ DOMAIN objects : Fresh(made[p], o)
      BY <2>3, <2>4, <3>2
    <3> HIDE DEF o
    <3> QED BY <2>3, <3>1, <3>3 DEF After, C, I
  <2>6. Val("object", o) \in Values /\ Fits(Val("object", o), C, I, o)
    <3>1. "object" \in Kinds /\ o \in Int
      BY <2>3 DEF Kinds
    <3> HIDE DEF o
    <3> QED BY <2>3, <3>1, ValIsValue, FitsPlain
  <2>7. Sound(Called("ok", made, Val("object", o)))
    <3> HIDE DEF o
    <3> QED BY <2>3, <2>5, <2>6, CalledIs DEF Sound, C, I
  <2>8. ASSUME "__init__" \in DOMAIN table, table["__init__"].k = "func"
        PROVE  Sound(Called("ok", init.objects, Val("object", o)))
    <3>1. table["__init__"] \in Values /\ Fits(table["__init__"], C, I, Len(objects))
      BY <1>1, <2>8, TableHas DEF AllFit
    <3>2. Fits(table["__init__"], C, I, o)
      <4> HIDE DEF o, table
      <4> QED BY <1>1, <2>3, <3>1, FitsMore
    <3> HIDE DEF o, table
    <3>3. w \in Values /\ w.k = "func" /\ Fits(w, C, I, o)
      <4> DEFINE x == table["__init__"]
      <4>1. x \in Values /\ Fits(x, C, I, o) /\ x.k = "func" /\ w = Wrapped(x, o)
        BY <2>8, <3>1, <3>2
      <4> HIDE DEF x, w
      <4>2. /\ Wrapped(x, o) \in Values /\ Wrapped(x, o).k = x.k /\ Fits(Wrapped(x, o), C, I, o)
        <5>1. o \in Nat /\ o \in 1 .. o
          BY <2>3
        <5>2. Fits(Wrapped(x, o), C, I, o)
          BY <4>1, <5>1, WrappedFits
        <5>3. Wrapped(x, o) \in Values /\ Wrapped(x, o).k = x.k
          BY <4>1, <5>1, WrappedFits
        <5> QED BY <5>2, <5>3
      <4> QED BY <4>1, <4>2
    <3>4. w.id \in DOMAIN Shapes /\ \A i \in DOMAIN w.on : w.on[i] \in 1 .. Len(made)
      BY <2>3, <3>3 DEF Fits
    <3> HIDE DEF w
    <3>5. Touched(made, init.objects)
      BY <2>3, <3>3, <3>4, InvokeIs
    <3>6. DOMAIN objects \subseteq DOMAIN made
      BY <1>1, <2>3
    <3>7. init.objects \in Seq(ObjectRecords) /\ After(objects, init.objects) /\ Len(init.objects) = o
      BY <2>3, <2>5, <3>5, <3>6, AfterTouched DEF Touched
    <3> QED BY <2>6, <3>7, CalledIs DEF Sound, C, I
  <2> HIDE DEF init, table, o, class
  <2> QED BY <1>3, <1>4, <1>6, <2>7, <2>8, CalledIs
<1> QED BY <1>5, <1>6

\* What a step may end in besides an exception: a name, a wrapper or a built-in got where
\* the code does not expect it.
Kept(table) == {n \in DOMAIN table : ~Declared(table[n])}
Excused(a) ==
  \/ \E o \in DOMAIN objects : Astray(objects[o].made) \/ a \in Kept(objects[o].own) \cup Kept(objects[o].snap)
  \/ a \in Kept(main)

LEMMA ObjectRef ==
  ASSUME NEW v, v.k = "object"
  PROVE  Refs(v) = {<<"object", v.id>>}
BY DEF Refs

LEMMA ClassRef ==
  ASSUME NEW v, v.k \in {"class", "iface", "maker"}
  PROVE  Refs(v) = {<<"type", v.id>>}
BY DEF Refs

\* What the names of the main program stand for is alive.
LEMMA NamedAlive ==
  ASSUME IInv, open = <<>>, NEW n \in DOMAIN main
  PROVE  /\ main[n] \in Values
         /\ Fits(main[n], ClassesIn(DOMAIN types), IfacesIn(DOMAIN types), Len(objects))
         /\ main[n].k = "object" => main[n].id \in DOMAIN objects /\ <<"object", main[n].id>> \in Alive
         /\ main[n].k = "class" => main[n].id \in DOMAIN types /\ <<"type", main[n].id>> \in Alive
<1> DEFINE v == main[n]
<1>1. /\ TypeOK /\ v \in Values /\ Fits(v, ClassesIn(DOMAIN types), IfacesIn(DOMAIN types), Len(objects))
      /\ DOMAIN objects = 1 .. Len(objects)
  BY Outside, TableHas DEF TypeOK, AllFit
<1>2. Refs(v) \subseteq RefsIn(main)
  BY DEF RefsIn
<1> HIDE DEF v
<1>3. v.k = "object" => v.id \in DOMAIN objects /\ <<"object", v.id>> \in Alive
  <2> SUFFICES ASSUME v.k = "object" PROVE v.id \in DOMAIN objects /\ <<"object", v.id>> \in Alive
    OBVIOUS
  <2>1. v.id \in DOMAIN objects
    BY <1>1 DEF Fits
  <2>2. <<"object", v.id>> \in Nodes
    BY <2>1 DEF Nodes
  <2>3. <<"object", v.id>> \in RefsIn(main)
    BY <1>2, ObjectRef
  <2> QED BY <1>1, <2>1, <2>2, <2>3, AliveNamed
<1>4. v.k = "class" => v.id \in DOMAIN types /\ <<"type", v.id>> \in Alive
  <2> SUFFICES ASSUME v.k = "class" PROVE v.id \in DOMAIN types /\ <<"type", v.id>> \in Alive
    OBVIOUS
  <2>1. v.id \in DOMAIN types
    BY <1>1 DEF Fits, ClassesIn
  <2>2. <<"type", v.id>> \in Nodes
    BY <2>1 DEF Nodes
  <2>3. <<"type", v.id>> \in RefsIn(main)
    BY <1>2, ClassRef
  <2> QED BY <1>1, <2>1, <2>2, <2>3, AliveNamed
<1> QED BY <1>1, <1>3, <1>4 DEF v

\* An attribute found on the line of a class fits, and an object it is, is
\* alive when the class is.
LEMMA SearchFits ==
  ASSUME IInv, open = <<>>, NEW t \in DOMAIN types, NEW a
  PROVE  /\ SearchAttr(t, a) \in Values \cup {Nothing}
         /\ Fits(SearchAttr(t, a), ClassesIn(DOMAIN types), IfacesIn(DOMAIN types), Len(objects))
         /\ <<"type", t>> \in Alive /\ SearchAttr(t, a).k = "object" =>
              <<"object", SearchAttr(t, a).id>> \in Alive
<1> DEFINE C == ClassesIn(DOMAIN types)
           I == IfacesIn(DOMAIN types)
           line == types[t].line
           v == SearchAttr(t, a)
<1>1. TypeOK /\ Formed /\ Len(objects) \in Nat /\ DOMAIN objects = 1 .. Len(objects)
  BY Outside
<1>2. line \in Seq(Nat) /\ \A j \in DOMAIN line : line[j] \in DOMAIN types /\ types[line[j]].table \in Tables
  BY <1>1, OnLine
<1>3. \A j \in DOMAIN line : AllFit(types[line[j]].table, C, I, Len(objects))
  BY <1>2, Outside
<1>4. v = FirstIn(line, a)
  BY DEF SearchAttr
<1> HIDE DEF C, I, line, v
<1>5. v \in Values \cup {Nothing} /\ Fits(v, C, I, Len(objects))
  BY <1>1, <1>2, <1>3, <1>4, FirstInFits
<1>6. ASSUME <<"type", t>> \in Alive, v.k = "object" PROVE <<"object", v.id>> \in Alive
  <2>1. v # Nothing
    BY <1>6 DEF Nothing, Val
  <2>2. PICK j \in DOMAIN line : a \in DOMAIN types[line[j]].table /\ v = types[line[j]].table[a]
    BY <1>2, <1>4, <2>1, FirstInIs
  <2> DEFINE u == line[j]
  <2>3. u \in DOMAIN types /\ a \in DOMAIN types[u].table /\ v = types[u].table[a] /\ u \in Range(line)
    BY <1>2, <2>2 DEF Range
  <2> HIDE DEF u
  <2>4. <<"type", u>> \in Alive
    <3>1. CASE u = t
      BY <1>6, <3>1
    <3>2. CASE u # t
      <4>1. <<"type", u>> \in Held(<<"type", t>>)
        BY <2>3, <3>2 DEF Held, line
      <4>2. <<"type", u>> \in Nodes
        BY <2>3 DEF Nodes
      <4> QED BY <1>1, <1>6, <4>1, <4>2, AliveKeeps
    <3> QED BY <3>1, <3>2
  <2>5. <<"object", v.id>> \in RefsIn(types[u].table)
    BY <1>6, <2>3, ObjectRef DEF RefsIn
  <2>6. u \in Range(types[u].stack)
    <3>1. 1 \in DOMAIN types[u].stack /\ types[u].stack[1] = u
      <4>1. /\ DOMAIN types[u].stack = 1 .. Len(types[u].stack) /\ types[u].stack[1] = u
            /\ Len(types[u].stack) \in Nat
            /\ Len(types[u].stack) = 1 \/ Len(types[u].stack) > 1
        BY <1>1, <2>3, StackAt
      <4>2. \A m \in Nat : m = 1 \/ m > 1 => 1 \in 1 .. m
        OBVIOUS
      <4> QED BY <4>1, <4>2
    <3> QED BY <3>1 DEF Range
  <2>7. <<"object", v.id>> \in Held(<<"type", u>>)
    BY <2>5, <2>6 DEF Held
  <2>8. <<"object", v.id>> \in Nodes
    BY <1>1, <1>5, <1>6 DEF Nodes, Fits
  <2> QED BY <1>1, <2>4, <2>7, <2>8, AliveKeeps
<1> QED BY <1>5, <1>6 DEF C, I, v

\* What an object answers: a value that fits and, when it is an object, is
\* alive, or an exception, or else what is excused.
GoodAnswer(got, a) ==
  /\ got.how \in {"ok", "thrown", "crash", "undefined"}
  /\ got.how = "ok" =>
       /\ got.v \in Values /\ Fits(got.v, ClassesIn(DOMAIN types), IfacesIn(DOMAIN types), Len(objects))
       /\ got.v.k = "object" => <<"object", got.v.id>> \in Alive
  /\ got.how \in {"crash", "undefined"} => Excused(a)

LEMMA AnswerIs ==
  ASSUME NEW how, NEW v
  PROVE  Answer(how, v).how = how /\ Answer(how, v).v = v
BY DEF Answer

LEMMA InScopeIs ==
  ASSUME IInv, open = <<>>, NEW o \in DOMAIN objects, <<"object", o>> \in Alive, NEW a
  PROVE  /\ InScope(o, a) \in Values \cup {Nothing}
         /\ Fits(InScope(o, a), ClassesIn(DOMAIN types), IfacesIn(DOMAIN types), Len(objects))
         /\ InScope(o, a).k = "object" => <<"object", InScope(o, a).id>> \in Alive
         /\ InScope(o, a) # Nothing /\ ~Declared(InScope(o, a)) => Excused(a)
<1> DEFINE C == ClassesIn(DOMAIN types)
           I == IfacesIn(DOMAIN types)
           v == InScope(o, a)
           own == objects[o].own
           snap == objects[o].snap
<1>1. /\ TypeOK /\ Len(objects) \in Nat /\ DOMAIN objects = 1 .. Len(objects)
      /\ own \in Tables /\ snap \in Tables /\ AllFit(own, C, I, Len(objects)) /\ AllFit(snap, C, I, Len(objects))
  BY Outside, ObjectAt DEF IInv, ObjectsFit
<1>2. v = IF a \in DOMAIN own THEN own[a] ELSE IF a \in DOMAIN snap THEN snap[a]
          ELSE IF a \in DOMAIN main THEN main[a] ELSE Nothing
  BY DEF InScope
<1>3. Held(<<"object", o>>) = RefsIn(own) \cup RefsIn(snap)
  BY DEF Held
<1>4. ASSUME NEW table \in Tables, AllFit(table, C, I, Len(objects)), RefsIn(table) \subseteq Held(<<"object", o>>),
             a \in Kept(table) => Excused(a), a \in DOMAIN table, v = table[a]
      PROVE  /\ v \in Values /\ Fits(v, C, I, Len(objects))
             /\ v.k = "object" => <<"object", v.id>> \in Alive
             /\ ~Declared(v) => Excused(a)
  <2> HIDE DEF v, C, I
  <2>1. v \in Values /\ Fits(v, C, I, Len(objects))
    BY <1>4, TableHas DEF AllFit
  <2>2. ASSUME v.k = "object" PROVE <<"object", v.id>> \in Alive
    <3>1. <<"object", v.id>> \in RefsIn(table)
      BY <1>4, <2>2, ObjectRef DEF RefsIn
    <3>2. <<"object", v.id>> \in Nodes
      BY <1>1, <2>1, <2>2 DEF Nodes, Fits
    <3> QED BY <1>1, <1>4, <3>1, <3>2, AliveKeeps
  <2>3. ~Declared(v) => Excused(a)
    BY <1>4 DEF Kept
  <2> QED BY <2>1, <2>2, <2>3
<1>5. (a \in Kept(own) => Excused(a)) /\ (a \in Kept(snap) => Excused(a))
  BY DEF Excused
<1>6. CASE a \in DOMAIN own
  <2> HIDE DEF own, snap, v, C, I
  <2>1. /\ v \in Values /\ Fits(v, C, I, Len(objects)) /\ (v.k = "object" => <<"object", v.id>> \in Alive)
        /\ ~Declared(v) => Excused(a)
    BY <1>1, <1>2, <1>3, <1>4, <1>5, <1>6
  <2> QED BY <2>1 DEF v, C, I
<1>7. CASE a \notin DOMAIN own /\ a \in DOMAIN snap
  <2> HIDE DEF own, snap, v, C, I
  <2>1. /\ v \in Values /\ Fits(v, C, I, Len(objects)) /\ (v.k = "object" => <<"object", v.id>> \in Alive)
        /\ ~Declared(v) => Excused(a)
    BY <1>1, <1>2, <1>3, <1>4, <1>5, <1>7
  <2> QED BY <2>1 DEF v, C, I
<1>8. CASE a \notin DOMAIN own /\ a \notin DOMAIN snap /\ a \in DOMAIN main
  <2>1. v = main[a]
    BY <1>2, <1>8
  <2>2. ~Declared(main[a]) => Excused(a)
    BY <1>8 DEF Excused, Kept
  <2> HIDE DEF v
  <2> QED BY <1>8, <2>1, <2>2, NamedAlive DEF v
<1>9. CASE a \notin DOMAIN own /\ a \notin DOMAIN snap /\ a \notin DOMAIN main
  <2>1. v = Nothing
    BY <1>2, <1>9
  <2>2. Nothing.k # "object"
    BY DEF Nothing, Val
  <2> HIDE DEF v
  <2> QED BY <1>1, <2>1, <2>2, FitsPlain DEF v
<1> QED BY <1>6, <1>7, <1>8, <1>9

LEMMA ObjectAttrIs ==
  ASSUME IInv, open = <<>>, NEW o \in DOMAIN objects, <<"object", o>> \in Alive, NEW a
  PROVE  GoodAnswer(ObjectAttr(o, a), a)
<1> DEFINE C == ClassesIn(DOMAIN types)
           I == IfacesIn(DOMAIN types)
           near == InScope(o, a)
           type == objects[o].type
           v == SearchAttr(type.id, a)
           got == ObjectAttr(o, a)
<1>1. /\ TypeOK /\ Len(objects) \in Nat /\ o \in 1 .. Len(objects)
      /\ type \in Values /\ Fits(type, C, I, Len(objects))
  BY Outside, ObjectAt DEF IInv, ObjectsFit
<1>2. /\ near \in Values \cup {Nothing} /\ Fits(near, C, I, Len(objects))
      /\ near.k = "object" => <<"object", near.id>> \in Alive
      /\ near # Nothing /\ ~Declared(near) => Excused(a)
  BY InScopeIs
<1>3. got = IF near # Nothing
            THEN IF IsFunc(near) /\ ~Declared(near) THEN Answer("undefined", Nothing)
                 ELSE Answer("ok", IF IsFunc(near) /\ ~IsLambda(near) THEN Wrapped(near, o) ELSE near)
            ELSE IF ~HasType(o) THEN Answer("crash", Nothing)
            ELSE IF type.k # "class" THEN Answer("undefined", Nothing)
            ELSE Inherited(o, v)
  BY DEF ObjectAttr
<1> SUFFICES GoodAnswer(got, a)
  OBVIOUS
<1> HIDE DEF C, I, near, got
<1>4. ASSUME NEW x \in Values, Fits(x, C, I, Len(objects)), x.k # "object"
      PROVE  GoodAnswer(Answer("ok", Wrapped(x, o)), a)
  <2>1. Wrapped(x, o) \in Values /\ Wrapped(x, o).k # "object"
    BY <1>1, <1>4, WrappedFits
  <2>2. Fits(Wrapped(x, o), C, I, Len(objects))
    BY <1>1, <1>4, WrappedFits
  <2> QED BY <2>1, <2>2, AnswerIs DEF GoodAnswer, C, I
<1>5. ASSUME NEW x \in Values, Fits(x, C, I, Len(objects)), x.k = "object" => <<"object", x.id>> \in Alive
      PROVE  GoodAnswer(Answer("ok", x), a)
  BY <1>5, AnswerIs DEF GoodAnswer, C, I
<1>6. GoodAnswer(Answer("thrown", Nothing), a)
  BY AnswerIs DEF GoodAnswer
<1>7. Excused(a) => GoodAnswer(Answer("crash", Nothing), a) /\ GoodAnswer(Answer("undefined", Nothing), a)
  BY AnswerIs DEF GoodAnswer
<1>8. \A x : IsFunc(x) => x.k # "object"
  BY DEF IsFunc
<1>9. CASE near # Nothing
  <2>1. near \in Values
    BY <1>2, <1>9
  <2>2. CASE IsFunc(near) /\ ~Declared(near)
    BY <1>2, <1>3, <1>7, <1>9, <2>2
  <2>3. CASE ~(IsFunc(near) /\ ~Declared(near)) /\ IsFunc(near) /\ ~IsLambda(near)
    BY <1>2, <1>3, <1>4, <1>8, <1>9, <2>1, <2>3
  <2>4. CASE ~(IsFunc(near) /\ ~Declared(near)) /\ ~(IsFunc(near) /\ ~IsLambda(near))
    BY <1>2, <1>3, <1>5, <1>9, <2>1, <2>4
  <2> QED BY <2>2, <2>3, <2>4
<1>10. CASE near = Nothing /\ ~HasType(o)
  <2>1. Astray(objects[o].made)
    BY <1>10, ClassStays DEF KeepsItsClass
  <2>2. Excused(a)
    BY <2>1 DEF Excused
  <2> QED BY <1>3, <1>7, <1>10, <2>2
<1>11. CASE near = Nothing /\ HasType(o) /\ type.k # "class"
  <2>1. Astray(objects[o].made)
    <3>1. \A t : Val("class", t).k = "class"
      BY DEF Val
    <3> QED BY <1>11, <3>1, ClassStays DEF KeepsItsClass
  <2>2. Excused(a)
    BY <2>1 DEF Excused
  <2> QED BY <1>3, <1>7, <1>11, <2>2
<1>12. CASE near = Nothing /\ HasType(o) /\ type.k = "class"
  <2>1. type.id \in DOMAIN types
    BY <1>1, <1>12 DEF Fits, C, ClassesIn
  <2>2. <<"type", type.id>> \in Alive
    BY <1>12, ClassRef DEF HasType
  <2>3. /\ v \in Values \cup {Nothing} /\ Fits(v, C, I, Len(objects))
        /\ v.k = "object" => <<"object", v.id>> \in Alive
    BY <2>1, <2>2, SearchFits DEF C, I
  <2>4. got = Inherited(o, v)
    BY <1>3, <1>12
  <2> HIDE DEF v
  <2>5. CASE ~IsFunc(v)
    <3>1. got = Found(v)
      BY <2>4, <2>5 DEF Inherited
    <3> QED BY <1>5, <1>6, <2>3, <3>1 DEF Found
  <2>6. CASE IsFunc(v)
    <3>1. v \in Values
      BY <2>3, <2>6 DEF IsFunc, Nothing, Val
    <3>2. got = IF ~Declared(v) THEN Answer("ok", Wrapped(v, o))
                ELSE IF IsStatic(v) THEN Answer("thrown", Nothing)
                ELSE Answer("ok", IF IsLambda(v) THEN v ELSE Wrapped(v, o))
      BY <2>4, <2>6 DEF Inherited
    <3>3. GoodAnswer(Answer("ok", Wrapped(v, o)), a) /\ GoodAnswer(Answer("ok", v), a)
      BY <1>4, <1>5, <1>8, <2>3, <2>6, <3>1
    <3> QED BY <1>6, <3>2, <3>3
  <2> QED BY <2>5, <2>6
<1> QED BY <1>9, <1>10, <1>11, <1>12

LEMMA AttrIs ==
  ASSUME IInv, open = <<>>, NEW n \in DOMAIN main, NEW a
  PROVE  GoodAnswer(Attr(main[n], a), a)
<1> DEFINE v == main[n]
<1>1. /\ v.k = "object" => v.id \in DOMAIN objects /\ <<"object", v.id>> \in Alive
      /\ v.k = "class" => v.id \in DOMAIN types /\ <<"type", v.id>> \in Alive
  BY NamedAlive
<1> HIDE DEF v
<1>2. CASE v.k = "object"
  <2>1. Attr(v, a) = ObjectAttr(v.id, a)
    BY <1>2 DEF Attr
  <2> QED BY <1>1, <1>2, <2>1, ObjectAttrIs DEF v
<1>3. CASE v.k = "class"
  <2>1. Attr(v, a) = Found(SearchAttr(v.id, a))
    BY <1>3 DEF Attr
  <2> DEFINE x == SearchAttr(v.id, a)
  <2>2. /\ x \in Values \cup {Nothing}
        /\ Fits(x, ClassesIn(DOMAIN types), IfacesIn(DOMAIN types), Len(objects))
        /\ x.k = "object" => <<"object", x.id>> \in Alive
    BY <1>1, <1>3, SearchFits
  <2> HIDE DEF x
  <2>3. GoodAnswer(Found(x), a)
    BY <2>2, AnswerIs DEF GoodAnswer, Found
  <2> QED BY <2>1, <2>3 DEF x, v
<1>4. CASE v.k # "object" /\ v.k # "class"
  <2>1. Attr(v, a) = Answer("thrown", Nothing)
    BY <1>4 DEF Attr
  <2> QED BY <2>1, AnswerIs DEF GoodAnswer, v
<1> QED BY <1>2, <1>3, <1>4

LEMMA CallIs ==
  ASSUME IInv, open = <<>>, NEW v \in Values, NEW n \in Nat,
         Fits(v, ClassesIn(DOMAIN types), IfacesIn(DOMAIN types), Len(objects)),
         v.k = "object" => <<"object", v.id>> \in Alive
  PROVE  /\ Sound(Call(v, n))
         /\ Call(v, n).how \in {"crash", "undefined"} => Call(v, n).objects = objects /\ Excused("__call__")
<1> DEFINE C == ClassesIn(DOMAIN types)
           I == IfacesIn(DOMAIN types)
           out == Call(v, n)
<1>1. /\ Len(objects) \in Nat /\ DOMAIN objects = 1 .. Len(objects)
      /\ objects \in Seq(ObjectRecords) /\ After(objects, objects)
  BY Outside, AfterSame
<1>2. ASSUME NEW x \in Values, x.k = "func", Fits(x, C, I, Len(objects))
      PROVE  Sound(Invoke(objects, x, n)) /\ Invoke(objects, x, n).how \in {"ok", "thrown"}
  <2> DEFINE got == Invoke(objects, x, n)
  <2>1. x.id \in DOMAIN Shapes /\ \A i \in DOMAIN x.on : x.on[i] \in 1 .. Len(objects)
    BY <1>2 DEF Fits
  <2>2. /\ got.how \in {"ok", "thrown"} /\ Touched(objects, got.objects)
        /\ got.how = "ok" => got.v \in Values /\ Fits(got.v, C, I, Len(objects))
    <3> HIDE DEF C, I
    <3> QED BY <1>1, <2>1, InvokeIs
  <2> HIDE DEF got
  <2>3. got.objects \in Seq(ObjectRecords) /\ After(objects, got.objects) /\ Len(got.objects) = Len(objects)
    BY <1>1, <2>2, AfterTouched DEF Touched
  <2>4. Sound(got)
    BY <2>2, <2>3 DEF Sound
  <2> QED BY <2>2, <2>4 DEF got
<1>3. \A how : how \in {"thrown", "crash", "undefined"} => Sound(Called(how, objects, Nothing))
  BY <1>1, CalledIs DEF Sound
<1> HIDE DEF C, I
<1>4. CASE v.k = "func"
  <2>1. out = Invoke(objects, v, n)
    BY <1>4 DEF Call
  <2> HIDE DEF out
  <2> QED BY <1>2, <1>4, <2>1 DEF out, C, I
<1>5. CASE v.k \in {"class", "maker"}
  <2>1. out = Constructor(v.id, n)
    BY <1>5 DEF Call
  <2>2. v.id \in ClassesIn(DOMAIN types)
    BY <1>5 DEF Fits
  <2> HIDE DEF out
  <2> QED BY <2>1, <2>2, Constructed DEF out
<1>6. CASE v.k = "object"
  <2> DEFINE method == ObjectAttr(v.id, "__call__")
  <2>1. out = IF method.how # "ok" THEN Called(method.how, objects, Nothing)
              ELSE IF method.v.k # "func" THEN Called("thrown", objects, Nothing)
              ELSE Invoke(objects, method.v, n)
    BY <1>6 DEF Call
  <2>2. GoodAnswer(method, "__call__")
    BY <1>1, <1>6, ObjectAttrIs DEF Fits
  <2> HIDE DEF method, out
  <2>3. CASE method.how # "ok"
    <3>1. out = Called(method.how, objects, Nothing) /\ method.how \in {"thrown", "crash", "undefined"}
      BY <2>1, <2>2, <2>3 DEF GoodAnswer
    <3> QED BY <1>3, <2>2, <3>1, CalledIs DEF GoodAnswer, out
  <2>4. CASE method.how = "ok" /\ method.v.k # "func"
    <3>1. out = Called("thrown", objects, Nothing)
      BY <2>1, <2>4
    <3> QED BY <1>3, <3>1, CalledIs DEF out
  <2>5. CASE method.how = "ok" /\ method.v.k = "func"
    <3>1. out = Invoke(objects, method.v, n)
      BY <2>1, <2>5
    <3>2. method.v \in Values /\ Fits(method.v, C, I, Len(objects))
      BY <2>2, <2>5 DEF GoodAnswer, C, I
    <3>3. Sound(out) /\ out.how \in {"ok", "thrown"}
      BY <1>2, <2>5, <3>1, <3>2
    <3> QED BY <3>3 DEF out
  <2> QED BY <2>3, <2>4, <2>5
<1>7. CASE v.k \notin {"func", "class", "maker", "object"}
  <2>1. out = Called("thrown", objects, Nothing)
    BY <1>7 DEF Call
  <2> HIDE DEF out
  <2> QED BY <1>3, <2>1, CalledIs DEF out
<1> QED BY <1>4, <1>5, <1>6, <1>7

-----------------------------------------------------------------------------
(* Statements                                                              *)

LEMMA StatementAt ==
  ASSUME TypeOK, NEW st \in session.statements
  PROVE  st.on \in STRING /\ st.attr \in STRING /\ st.n \in Nat /\ st.to \in STRING
<1>1. st \in Statements
  BY SessionsAssumption DEF TypeOK
<1> QED BY <1>1 DEF Statements

LEMMA DeclarationAt ==
  ASSUME TypeOK, NEW d \in session.declarations
  PROVE  /\ d \in Declarations
         /\ d.kind = "func" => d.name \in STRING /\ d.f \in DOMAIN Shapes
         /\ d.kind = "iface" => d \in IfaceDecls
         /\ d.kind = "class" => d \in ClassDecls
<1>1. d \in Declarations
  BY SessionsAssumption DEF TypeOK
<1>2. d \in ClassDecls \cup IfaceDecls \cup FuncDecls
  BY <1>1, DeclarationsAssumption
<1>3. \A x \in ClassDecls : x.kind = "class"
  BY DEF ClassDecls
<1>4. \A x \in IfaceDecls : x.kind = "iface"
  BY DEF IfaceDecls
<1>5. \A x \in FuncDecls : x.kind = "func" /\ x.name \in STRING /\ x.f \in DOMAIN Shapes
  BY DEF FuncDecls, Scripted
<1> QED BY <1>1, <1>2, <1>3, <1>4, <1>5

\* The main table becomes m by way of a table that has all it had.
LEMMA BecomesIs ==
  ASSUME TypeOK, NEW table \in Tables, NEW m, Becomes(table, m),
         \A n \in DOMAIN main : n \in DOMAIN table /\ table[n] = main[n]
  PROVE  /\ main' = m /\ rebound \subseteq rebound' /\ rebound' \subseteq STRING
         /\ \A n \in DOMAIN main :
              main[n].k = "class" => n \in rebound' \/ (n \in DOMAIN main' /\ main'[n] = main[n])
         /\ \A n \in DOMAIN table :
              table[n].k = "class" => n \in rebound' \/ (n \in DOMAIN main' /\ main'[n] = table[n])
<1>1. main' = m /\ rebound' = rebound \cup {n \in DOMAIN table :
                                           /\ table[n].k = "class"
                                           /\ IF n \in DOMAIN m THEN m[n] # table[n] ELSE TRUE}
  BY DEF Becomes
<1>2. DOMAIN table \subseteq STRING /\ rebound \subseteq STRING
  BY TableHas DEF TypeOK
<1> QED BY <1>1, <1>2

LEMMA BindsIs ==
  ASSUME IInv, open = <<>>, NEW how, NEW to \in {""} \cup STRING, NEW v, NEW n \in Nat, Len(objects) <= n,
         how = "ok" => v \in Values /\ Fits(v, ClassesIn(DOMAIN types), IfacesIn(DOMAIN types), n),
         Binds(how, to, v)
  PROVE  /\ main' \in Tables /\ AllFit(main', ClassesIn(DOMAIN types), IfacesIn(DOMAIN types), n)
         /\ rebound \subseteq rebound' /\ rebound' \subseteq STRING
         /\ \A x \in DOMAIN main :
              main[x].k = "class" => x \in rebound' \/ (x \in DOMAIN main' /\ main'[x] = main[x])
         /\ how # "ok" => main' = main
<1> DEFINE C == ClassesIn(DOMAIN types)
           I == IfacesIn(DOMAIN types)
           m == IF how = "ok" /\ to # "" THEN Assigned(main, to, v) ELSE main
<1>1. TypeOK /\ main \in Tables /\ AllFit(main, C, I, Len(objects)) /\ Len(objects) \in Nat
  BY Outside DEF TypeOK
<1>2. Becomes(main, m)
  BY DEF Binds
<1> HIDE DEF m, C, I
<1>3. /\ main' = m /\ rebound \subseteq rebound' /\ rebound' \subseteq STRING
      /\ \A x \in DOMAIN main :
           main[x].k = "class" => x \in rebound' \/ (x \in DOMAIN main' /\ main'[x] = main[x])
  BY <1>1, <1>2, BecomesIs
<1>4. AllFit(main, C, I, n)
  BY <1>1, AllFitMore
<1>5. CASE how = "ok" /\ to # ""
  <2>1. m = Assigned(main, to, v) /\ v \in Values /\ Fits(v, C, I, n)
    BY <1>5 DEF m, C, I
  <2>2. m \in Tables /\ DOMAIN m = DOMAIN main \cup {to}
    <3>1. to \in STRING
      BY <1>5
    <3> QED BY <1>1, <2>1, <3>1, TableAssigned
  <2>3. \A a \in DOMAIN main \cup {to} : m[a] = IF a = to THEN v ELSE main[a]
    BY <2>1 DEF Assigned
  <2>4. AllFit(m, C, I, n)
    BY <1>4, <2>1, <2>2, <2>3 DEF AllFit
  <2> QED BY <1>3, <1>5, <2>2, <2>4 DEF C, I
<1>6. CASE ~(how = "ok" /\ to # "")
  <2>1. m = main
    BY <1>6 DEF m
  <2> QED BY <1>1, <1>3, <1>4, <2>1 DEF C, I
<1> QED BY <1>5, <1>6

\* A statement in the main program, or a declaration of a function.
LEMMA Ran ==
  ASSUME IInv, Runs, UNCHANGED <<types, open, patched>>,
         main' \in Tables, AllFit(main', ClassesIn(DOMAIN types), IfacesIn(DOMAIN types), Len(objects')),
         rebound \subseteq rebound', rebound' \subseteq STRING,
         \A n \in DOMAIN main :
           main[n].k = "class" => n \in rebound' \/ (n \in DOMAIN main' /\ main'[n] = main[n]),
         objects' \in Seq(ObjectRecords), After(objects, objects'),
         status' \in {"ok", "crash", "undefined"}, grown' \in BOOLEAN,
         status' # "ok" => OnlyTheUnguarded'
  PROVE  IInv'
<1>1. TypeOK' /\ open = <<>> /\ open' = open /\ types' = types /\ patched' = patched
  <2>1. fuel' \in Int
    BY DEF Runs, IInv, TypeOK
  <2> QED BY <2>1 DEF Runs, IInv, TypeOK
<1>2. OnlyTheUnguarded'
  BY DEF OnlyTheUnguarded
<1> QED BY <1>1, <1>2, RunStep

LEMMA Excuses ==
  ASSUME NEW a, Excused(a), a = "__call__" \/ \E st \in session.statements : a = st.attr,
         main' = main, objects' = objects, types' = types, patched' = patched, rebound \subseteq rebound',
         session' = session
  PROVE  OnlyTheUnguarded'
<1> DEFINE asked == {"__call__"} \cup {st.attr : st \in session'.statements}
<1>3. a \in asked
  OBVIOUS
<1> HIDE DEF asked
<1>1. CASE a \in Kept(main)
  <2>1. a \in {n \in DOMAIN main' : ~Declared(main'[n])} \cap asked
    BY <1>1, <1>3 DEF Kept
  <2> QED BY <2>1 DEF OnlyTheUnguarded, asked
<1>2. CASE \E o \in DOMAIN objects : Astray(objects[o].made) \/ a \in Kept(objects[o].own) \cup Kept(objects[o].snap)
  <2>1. PICK o \in DOMAIN objects : Astray(objects[o].made) \/ a \in Kept(objects[o].own) \cup Kept(objects[o].snap)
    BY <1>2
  <2>2. Astray(objects[o].made) => Astray(objects[o].made)'
    BY DEF Astray
  <2>3. \/ Astray(objects[o].made)'
        \/ a \in ({n \in DOMAIN objects'[o].own : ~Declared(objects'[o].own[n])} \cap asked)
                   \cup ({n \in DOMAIN objects'[o].snap : ~Declared(objects'[o].snap[n])} \cap asked)
    BY <1>3, <2>1, <2>2 DEF Kept
  <2> QED BY <2>1, <2>3 DEF OnlyTheUnguarded, asked
<1> QED BY <1>1, <1>2 DEF Excused

LEMMA InitHolds ==
  ASSUME Init
  PROVE  IInv
<1>1. /\ main = session.main /\ types = <<>> /\ open = <<>> /\ objects = <<>> /\ status = "ok"
      /\ session \in Sessions /\ fuel = session.fuel /\ rebound = {} /\ patched = {} /\ grown = FALSE
  BY DEF Init
<1>2. /\ DOMAIN main \subseteq STRING /\ main \in [DOMAIN main -> Starts] /\ fuel \in Nat
  BY <1>1, SessionsAssumption
<1>3. \A v \in Starts : v \in Values /\ \A C, I : Fits(v, C, I, 0)
  <2>1. Data \in Values /\ \A C, I : Fits(Data, C, I, 0)
    BY DataIsValue, FitsPlain
  <2>2. \A f \in DOMAIN Shapes : Val("func", f) \in Values /\ \A C, I : Fits(Val("func", f), C, I, 0)
    <3> TAKE f \in DOMAIN Shapes
    <3>1. "func" \in Kinds /\ f \in Int
      BY ShapeAt DEF Kinds
    <3> QED BY <3>1, ValIsValue, FitsPlain
  <2> QED BY <2>1, <2>2 DEF Starts
<1>4. main \in Tables /\ \A C, I : AllFit(main, C, I, 0)
  <2>1. main \in [DOMAIN main -> Values]
    BY <1>2, <1>3
  <2> QED BY <1>2, <1>3, <2>1, TableFrom DEF AllFit
<1>5. DOMAIN types = {} /\ DOMAIN open = {} /\ DOMAIN objects = {} /\ Len(types) = 0 /\ Len(objects) = 0
  BY <1>1
<1>6. TypeOK
  <2>1. \A S : <<>> \in Seq(S)
    OBVIOUS
  <2>2. types \in Seq(TypeRecords) /\ open \in Seq(Frames) /\ objects \in Seq(ObjectRecords)
    BY <1>1, <2>1
  <2>3. fuel \in Int
    BY <1>2
  <2>4. rebound \subseteq STRING /\ patched \subseteq Nat
    BY <1>1
  <2>5. grown \in BOOLEAN
    BY <1>1
  <2> QED BY <1>1, <1>4, <2>2, <2>3, <2>4, <2>5 DEF TypeOK
<1>7. Settled = {} /\ Whole = {}
  BY <1>1, <1>5 DEF Settled, Whole
<1>8. Formed /\ Opened
  BY <1>1, <1>5 DEF Formed, Opened
<1>9. MainFits /\ TablesFit /\ ObjectsFit
  BY <1>4, <1>5, <1>7 DEF MainFits, TablesFit, ObjectsFit
<1>10. AllMade /\ AllFulfil
  BY <1>5, <1>7 DEF AllMade, AllFulfil
<1>11. OnlyTheUnguarded
  BY <1>1 DEF OnlyTheUnguarded
<1> QED BY <1>6, <1>8, <1>9, <1>10, <1>11 DEF IInv

\* A table given a value that fits, or without a name, fits.
LEMMA TablesKeepFit ==
  ASSUME NEW table \in Tables, NEW C, NEW I, NEW m \in Nat, AllFit(table, C, I, m)
  PROVE  /\ \A n \in STRING, v \in Values :
              Fits(v, C, I, m) => AllFit(Registered(table, n, v), C, I, m) /\ AllFit(Assigned(table, n, v), C, I, m)
         /\ \A n : AllFit(Without(table, n), C, I, m)
<1>1. ASSUME NEW n \in STRING, NEW v \in Values, Fits(v, C, I, m)
      PROVE  AllFit(Registered(table, n, v), C, I, m) /\ AllFit(Assigned(table, n, v), C, I, m)
  <2> DEFINE R == Registered(table, n, v)
             A == Assigned(table, n, v)
  <2>1. /\ R = [a \in DOMAIN table \cup {n} |-> IF a \in DOMAIN table THEN table[a] ELSE v]
        /\ A = [a \in DOMAIN table \cup {n} |-> IF a = n THEN v ELSE table[a]]
    BY DEF Registered, Assigned
  <2> HIDE DEF R, A
  <2>2. AllFit(R, C, I, m) /\ AllFit(A, C, I, m)
    BY <1>1, <2>1 DEF AllFit
  <2> QED BY <2>2 DEF R, A
<1>2. \A n : AllFit(Without(table, n), C, I, m)
  BY DEF Without, Restrict, AllFit
<1> QED BY <1>1, <1>2

\* What a decorator makes of a value that fits, fits.
LEMMA DecoratedFits ==
  ASSUME NEW v \in Values, NEW target \in Values, NEW C, NEW I, NEW n \in Nat,
         Fits(v, C, I, n), Fits(target, C, I, n)
  PROVE  Decorated(v, target) \in Values \cup {Nothing} /\ Fits(Decorated(v, target), C, I, n)
<1> DEFINE gives == Shapes[v.id].gives
           out == Decorated(v, target)
<1>1. out = IF v.k # "func" \/ gives = Throws THEN Nothing
            ELSE IF gives = Given THEN target
            ELSE IF gives > 0 THEN Val("func", gives)
            ELSE IF gives = Maker /\ target.k = "class" THEN Val("maker", target.id) ELSE Data
  BY DEF Decorated
<1>2. v.k = "func" => (gives > 0 => gives \in DOMAIN Shapes)
  BY ShapeAt DEF Fits
<1>3. \A f \in DOMAIN Shapes : Val("func", f) \in Values /\ Fits(Val("func", f), C, I, n)
  <2> TAKE f \in DOMAIN Shapes
  <2>1. "func" \in Kinds /\ f \in Int
    BY ShapeAt DEF Kinds
  <2> QED BY <2>1, ValIsValue, FitsPlain
<1>4. target.k = "class" => Val("maker", target.id) \in Values /\ Fits(Val("maker", target.id), C, I, n)
  <2>1. "maker" \in Kinds /\ target.id \in Int
    BY DEF Kinds, Values
  <2>2. target.k = "class" => target.id \in C
    BY DEF Fits
  <2> QED BY <2>1, <2>2, ValIsValue, FitsPlain
<1>5. Data \in Values /\ Fits(Data, C, I, n) /\ Fits(Nothing, C, I, n)
  BY DataIsValue, FitsPlain
<1> HIDE DEF gives, out
<1>6. out \in Values \cup {Nothing} /\ Fits(out, C, I, n)
  BY <1>1, <1>2, <1>3, <1>4, <1>5
<1> QED BY <1>6 DEF out

-----------------------------------------------------------------------------
(* The steps of a script outside of classes                                *)

\* A table that took the place of the main table, and nothing else changed.
LEMMA MainStep ==
  ASSUME IInv, Runs, NEW table \in Tables, NEW m \in Tables, Becomes(table, m),
         \A n \in DOMAIN main : n \in DOMAIN table /\ table[n] = main[n],
         AllFit(m, ClassesIn(DOMAIN types), IfacesIn(DOMAIN types), Len(objects)),
         UNCHANGED <<types, open, objects, status, patched, grown>>
  PROVE  IInv'
<1>1. open = <<>> /\ status = "ok" /\ TypeOK
  BY DEF Runs, IInv
<1>2. /\ main' = m /\ rebound \subseteq rebound' /\ rebound' \subseteq STRING
      /\ \A n \in DOMAIN main :
           main[n].k = "class" => n \in rebound' \/ (n \in DOMAIN main' /\ main'[n] = main[n])
  BY <1>1, BecomesIs
<1>3. objects' \in Seq(ObjectRecords) /\ After(objects, objects')
  BY <1>1, AfterSame
<1>4. status' = "ok" /\ grown' \in BOOLEAN
  BY <1>1 DEF TypeOK
<1>5. AllFit(main', ClassesIn(DOMAIN types), IfacesIn(DOMAIN types), Len(objects'))
  BY <1>2
<1> QED BY <1>2, <1>3, <1>4, <1>5, Ran

LEMMA DeclareFuncKeeps ==
  ASSUME IInv, NEW d \in session.declarations, DeclareFunc(d)
  PROVE  IInv'
<1> DEFINE C == ClassesIn(DOMAIN types)
           I == IfacesIn(DOMAIN types)
           v == Val("func", d.f)
           m == Registered(main, d.name, v)
<1>1. Runs /\ d.kind = "func" /\ Becomes(main, m) /\ UNCHANGED <<types, open, objects, status, patched, grown>>
  BY DEF DeclareFunc
<1>2. open = <<>>
  BY <1>1 DEF Runs
<1>3. TypeOK /\ main \in Tables /\ AllFit(main, C, I, Len(objects)) /\ Len(objects) \in Nat
  BY <1>2, Outside DEF TypeOK
<1>4. d.name \in STRING /\ d.f \in DOMAIN Shapes
  BY <1>1, <1>3, DeclarationAt
<1>5. v \in Values /\ Fits(v, C, I, Len(objects))
  <2>1. "func" \in Kinds /\ d.f \in Int
    BY <1>4, ShapeAt DEF Kinds
  <2> QED BY <1>3, <1>4, <2>1, ValIsValue, FitsPlain
<1> HIDE DEF C, I, v
<1>6. m \in Tables /\ AllFit(m, C, I, Len(objects))
  BY <1>3, <1>4, <1>5, TableRegistered, TablesKeepFit
<1> HIDE DEF m
<1> QED BY <1>1, <1>3, <1>6, MainStep DEF C, I

LEMMA AnnotateFuncKeeps ==
  ASSUME IInv, NEW d \in session.declarations, NEW by, AnnotateFunc(by, d)
  PROVE  IInv'
<1> DEFINE C == ClassesIn(DOMAIN types)
           I == IfacesIn(DOMAIN types)
           v == Val("func", d.f)
           result == Decorated(main[by], v)
           m == Annotated(by, v, main, d.name)
<1>1. /\ Runs /\ d.kind = "func" /\ by \in DOMAIN main /\ Becomes(main, m)
      /\ UNCHANGED <<types, open, objects, status, patched, grown>>
  BY DEF AnnotateFunc
<1>2. open = <<>>
  BY <1>1 DEF Runs
<1>3. /\ TypeOK /\ main \in Tables /\ AllFit(main, C, I, Len(objects)) /\ Len(objects) \in Nat
      /\ main[by] \in Values /\ Fits(main[by], C, I, Len(objects))
  BY <1>1, <1>2, Outside, NamedAlive DEF TypeOK
<1>4. d.name \in STRING /\ d.f \in DOMAIN Shapes
  BY <1>1, <1>3, DeclarationAt
<1>5. v \in Values /\ Fits(v, C, I, Len(objects))
  <2>1. "func" \in Kinds /\ d.f \in Int
    BY <1>4, ShapeAt DEF Kinds
  <2> QED BY <1>3, <1>4, <2>1, ValIsValue, FitsPlain
<1>6. m = IF result = Nothing THEN main ELSE Registered(main, d.name, result)
  BY DEF Annotated
<1> HIDE DEF C, I, v
<1>7. result \in Values \cup {Nothing} /\ Fits(result, C, I, Len(objects))
  BY <1>3, <1>5, DecoratedFits
<1> HIDE DEF result, m
<1>8. m \in Tables /\ AllFit(m, C, I, Len(objects))
  BY <1>3, <1>4, <1>6, <1>7, TableRegistered, TablesKeepFit
<1> QED BY <1>1, <1>3, <1>8, MainStep DEF C, I, m, v

LEMMA LetKeeps ==
  ASSUME IInv, NEW st \in session.statements, st.on \in DOMAIN main, Let(st)
  PROVE  IInv'
<1>1. Runs /\ Binds("ok", st.to, main[st.on]) /\ UNCHANGED <<types, open, objects, status, patched, grown>>
  BY DEF Let
<1>2. open = <<>> /\ status = "ok" /\ TypeOK
  BY <1>1 DEF Runs, IInv
<1>3. st.to \in STRING
  BY <1>2, StatementAt
<1>4. main[st.on] \in Values /\ Fits(main[st.on], ClassesIn(DOMAIN types), IfacesIn(DOMAIN types), Len(objects))
  BY <1>2, NamedAlive
<1>5. Len(objects) \in Nat /\ Len(objects) <= Len(objects)
  BY <1>2, Outside
<1> DEFINE v == main[st.on]
<1> HIDE DEF v
<1>6. /\ main' \in Tables /\ AllFit(main', ClassesIn(DOMAIN types), IfacesIn(DOMAIN types), Len(objects))
      /\ rebound \subseteq rebound' /\ rebound' \subseteq STRING
      /\ \A x \in DOMAIN main :
           main[x].k = "class" => x \in rebound' \/ (x \in DOMAIN main' /\ main'[x] = main[x])
  BY <1>1, <1>2, <1>3, <1>4, <1>5, BindsIs
<1>7. objects' \in Seq(ObjectRecords) /\ After(objects, objects')
  BY <1>1, <1>2, AfterSame
<1>8. AllFit(main', ClassesIn(DOMAIN types), IfacesIn(DOMAIN types), Len(objects'))
  BY <1>1, <1>6
<1>9. status' = "ok" /\ grown' \in BOOLEAN
  BY <1>1, <1>2 DEF TypeOK
<1> QED BY <1>1, <1>6, <1>7, <1>8, <1>9, Ran

LEMMA DelKeeps ==
  ASSUME IInv, NEW st, Del(st)
  PROVE  IInv'
<1> DEFINE m == Without(main, st.on)
<1>1. Runs /\ Becomes(main, m) /\ UNCHANGED <<types, open, objects, status, patched, grown>>
  BY DEF Del
<1>2. open = <<>>
  BY <1>1 DEF Runs
<1>3. /\ TypeOK /\ main \in Tables /\ Len(objects) \in Nat
      /\ AllFit(main, ClassesIn(DOMAIN types), IfacesIn(DOMAIN types), Len(objects))
  BY <1>2, Outside DEF TypeOK
<1>4. m \in Tables
  BY <1>3, TableWithout
<1>5. AllFit(m, ClassesIn(DOMAIN types), IfacesIn(DOMAIN types), Len(objects))
  BY <1>3, TablesKeepFit
<1> HIDE DEF m
<1> QED BY <1>1, <1>3, <1>4, <1>5, MainStep

LEMMA GetKeeps ==
  ASSUME IInv, NEW st \in session.statements, st.on \in DOMAIN main, Get(st)
  PROVE  IInv'
<1> DEFINE got == Attr(main[st.on], st.attr)
<1>1. Runs /\ Ends(got.how) /\ Binds(got.how, st.to, got.v) /\ UNCHANGED <<types, open, objects, patched, grown>>
  BY DEF Get
<1>2. open = <<>> /\ session' = session /\ TypeOK
  BY <1>1 DEF Runs, IInv
<1>3. st.to \in STRING
  BY <1>2, StatementAt
<1>4. GoodAnswer(got, st.attr)
  BY <1>2, AttrIs
<1>5. Len(objects) \in Nat /\ Len(objects) <= Len(objects)
  BY <1>2, Outside
<1> HIDE DEF got
<1>6. /\ main' \in Tables /\ AllFit(main', ClassesIn(DOMAIN types), IfacesIn(DOMAIN types), Len(objects))
      /\ rebound \subseteq rebound' /\ rebound' \subseteq STRING
      /\ \A x \in DOMAIN main :
           main[x].k = "class" => x \in rebound' \/ (x \in DOMAIN main' /\ main'[x] = main[x])
      /\ got.how # "ok" => main' = main
  <2>1. got.how = "ok" =>
          got.v \in Values /\ Fits(got.v, ClassesIn(DOMAIN types), IfacesIn(DOMAIN types), Len(objects))
    BY <1>4 DEF GoodAnswer
  <2> QED BY <1>1, <1>2, <1>3, <1>5, <2>1, BindsIs
<1>7. objects' \in Seq(ObjectRecords) /\ After(objects, objects')
  BY <1>1, <1>2, AfterSame
<1>8. AllFit(main', ClassesIn(DOMAIN types), IfacesIn(DOMAIN types), Len(objects'))
  BY <1>1, <1>6
<1>9. grown' \in BOOLEAN
  BY <1>1, <1>2 DEF TypeOK
<1>10. status' = IF got.how \in {"ok", "thrown"} THEN "ok" ELSE got.how
  BY <1>1 DEF Ends
<1>11. status' \in {"ok", "crash", "undefined"}
  BY <1>4, <1>10 DEF GoodAnswer
<1>12. ASSUME status' # "ok" PROVE OnlyTheUnguarded'
  <2>1. got.how \in {"crash", "undefined"}
    BY <1>4, <1>10, <1>12 DEF GoodAnswer
  <2>2. Excused(st.attr) /\ main' = main
    BY <1>4, <1>6, <2>1 DEF GoodAnswer
  <2> DEFINE a == st.attr
  <2>3. Excused(a) /\ \E s \in session.statements : a = s.attr
    BY <2>2
  <2> HIDE DEF a
  <2> QED BY <1>1, <1>2, <1>6, <2>2, <2>3, Excuses
<1> QED BY <1>1, <1>6, <1>7, <1>8, <1>9, <1>11, <1>12, Ran

LEMMA LengthIs ==
  \A S : \A s \in Seq(S) : Len(s) \in Nat
OBVIOUS

\* A call in the main program, which may give a value to the name to.
LEMMA CallStep ==
  ASSUME IInv, Runs, NEW out, Sound(out), NEW a, NEW to \in {""} \cup STRING,
         out.how \in {"crash", "undefined"} => out.objects = objects /\ Excused(a),
         a = "__call__" \/ \E st \in session.statements : a = st.attr,
         Ends(out.how), objects' = out.objects, Binds(out.how, to, out.v),
         UNCHANGED <<types, open, patched, grown>>
  PROVE  IInv'
<1>1. open = <<>> /\ session' = session /\ TypeOK
  BY DEF Runs, IInv
<1>2. objects' \in Seq(ObjectRecords) /\ After(objects, objects')
  BY DEF Sound
<1>3. Len(objects') \in Nat /\ Len(objects) <= Len(objects')
  <2>1. Len(objects') \in Nat
    BY <1>2, LengthIs
  <2> QED BY <1>2, <2>1 DEF After
<1>4. /\ main' \in Tables /\ AllFit(main', ClassesIn(DOMAIN types), IfacesIn(DOMAIN types), Len(objects'))
      /\ rebound \subseteq rebound' /\ rebound' \subseteq STRING
      /\ \A x \in DOMAIN main :
           main[x].k = "class" => x \in rebound' \/ (x \in DOMAIN main' /\ main'[x] = main[x])
      /\ out.how # "ok" => main' = main
  <2>1. out.how = "ok" =>
          out.v \in Values /\ Fits(out.v, ClassesIn(DOMAIN types), IfacesIn(DOMAIN types), Len(objects'))
    BY DEF Sound
  <2> DEFINE n == Len(objects')
  <2> HIDE DEF n
  <2>2. n \in Nat /\ Len(objects) <= n
    BY <1>3 DEF n
  <2>3. out.how = "ok" =>
          out.v \in Values /\ Fits(out.v, ClassesIn(DOMAIN types), IfacesIn(DOMAIN types), n)
    BY <2>1 DEF n
  <2>4. /\ main' \in Tables /\ AllFit(main', ClassesIn(DOMAIN types), IfacesIn(DOMAIN types), n)
        /\ rebound \subseteq rebound' /\ rebound' \subseteq STRING
        /\ \A x \in DOMAIN main :
             main[x].k = "class" => x \in rebound' \/ (x \in DOMAIN main' /\ main'[x] = main[x])
        /\ out.how # "ok" => main' = main
    BY <1>1, <2>2, <2>3, BindsIs
  <2> QED BY <2>4 DEF n
<1>5. grown' \in BOOLEAN
  BY <1>1 DEF TypeOK
<1>6. status' = IF out.how \in {"ok", "thrown"} THEN "ok" ELSE out.how
  BY DEF Ends
<1>7. status' \in {"ok", "crash", "undefined"}
  BY <1>6 DEF Sound
<1>8. ASSUME status' # "ok" PROVE OnlyTheUnguarded'
  <2>1. out.how \in {"crash", "undefined"}
    BY <1>6, <1>8 DEF Sound
  <2>2. Excused(a) /\ main' = main /\ objects' = objects
    BY <1>4, <2>1
  <2> QED BY <1>1, <1>4, <2>2, Excuses
<1> QED BY <1>2, <1>4, <1>5, <1>7, <1>8, Ran

LEMMA NewKeeps ==
  ASSUME IInv, NEW st \in session.statements, st.on \in DOMAIN main, New(st)
  PROVE  IInv'
<1> DEFINE out == Call(main[st.on], st.n)
<1>1. /\ Runs /\ Ends(out.how) /\ objects' = out.objects /\ Binds(out.how, st.to, out.v)
      /\ UNCHANGED <<types, open, patched, grown>>
  BY DEF New
<1>2. open = <<>> /\ TypeOK
  BY <1>1 DEF Runs, IInv
<1>3. st.to \in STRING /\ st.n \in Nat
  BY <1>2, StatementAt
<1> DEFINE v == main[st.on]
<1>4. /\ v \in Values /\ Fits(v, ClassesIn(DOMAIN types), IfacesIn(DOMAIN types), Len(objects))
      /\ v.k = "object" => <<"object", v.id>> \in Alive
  BY <1>2, NamedAlive
<1> HIDE DEF v
<1>5. /\ Sound(Call(v, st.n))
      /\ Call(v, st.n).how \in {"crash", "undefined"} => Call(v, st.n).objects = objects /\ Excused("__call__")
  BY <1>2, <1>3, <1>4, CallIs
<1>6. Sound(out) /\ (out.how \in {"crash", "undefined"} => out.objects = objects /\ Excused("__call__"))
  BY <1>5 DEF v
<1> HIDE DEF out
<1> QED BY <1>1, <1>3, <1>6, CallStep

LEMMA CallMethodKeeps ==
  ASSUME IInv, NEW st \in session.statements, st.on \in DOMAIN main, CallMethod(st)
  PROVE  IInv'
<1> DEFINE got == Attr(main[st.on], st.attr)
           out == IF got.how = "ok" THEN Call(got.v, st.n) ELSE Called(got.how, objects, Nothing)
<1>1. /\ Runs /\ Ends(out.how) /\ objects' = out.objects
      /\ UNCHANGED <<main, rebound, types, open, patched, grown>>
  BY DEF CallMethod
<1>2. open = <<>> /\ session' = session /\ TypeOK
  BY <1>1 DEF Runs, IInv
<1>3. st.n \in Nat
  BY <1>2, StatementAt
<1>4. GoodAnswer(got, st.attr)
  BY <1>2, AttrIs
<1> HIDE DEF got
<1>5. CASE got.how = "ok"
  <2>1. /\ got.v \in Values /\ Fits(got.v, ClassesIn(DOMAIN types), IfacesIn(DOMAIN types), Len(objects))
        /\ got.v.k = "object" => <<"object", got.v.id>> \in Alive
    BY <1>4, <1>5 DEF GoodAnswer
  <2>2. out = Call(got.v, st.n)
    BY <1>5
  <2>3. /\ Sound(Call(got.v, st.n))
        /\ Call(got.v, st.n).how \in {"crash", "undefined"} =>
             Call(got.v, st.n).objects = objects /\ Excused("__call__")
    BY <1>2, <1>3, <2>1, CallIs
  <2>4. Sound(out) /\ (out.how \in {"crash", "undefined"} => out.objects = objects /\ Excused("__call__"))
    BY <2>2, <2>3
  <2> HIDE DEF out
  <2>5. Binds(out.how, "", out.v)
    BY <1>1 DEF Binds, Becomes
  <2>6. UNCHANGED <<types, open, patched, grown>>
    BY <1>1
  <2> QED BY <1>1, <2>4, <2>5, <2>6, CallStep
<1>6. CASE got.how # "ok"
  <2>1. out = Called(got.how, objects, Nothing)
    BY <1>6
  <2>2. got.how \in {"thrown", "crash", "undefined"} /\ (got.how \in {"crash", "undefined"} => Excused(st.attr))
    BY <1>4, <1>6 DEF GoodAnswer
  <2>3. out.how = got.how /\ out.objects = objects
    BY <2>1, CalledIs
  <2> HIDE DEF out
  <2>4. Sound(out)
    BY <1>2, <2>2, <2>3, AfterSame DEF Sound
  <2>5. out.how \in {"crash", "undefined"} => out.objects = objects /\ Excused(st.attr)
    BY <2>2, <2>3
  <2>6. Binds(out.how, "", out.v)
    <3>1. out.how # "ok"
      BY <2>2, <2>3
    <3> QED BY <1>1, <3>1 DEF Binds, Becomes
  <2>7. st.attr = "__call__" \/ \E s \in session.statements : st.attr = s.attr
    OBVIOUS
  <2> DEFINE a == st.attr
  <2> HIDE DEF a
  <2>8. /\ out.how \in {"crash", "undefined"} => out.objects = objects /\ Excused(a)
        /\ a = "__call__" \/ \E s \in session.statements : a = s.attr
    BY <2>5, <2>7 DEF a
  <2>9. UNCHANGED <<types, open, patched, grown>>
    BY <1>1
  <2> QED BY <1>1, <2>4, <2>6, <2>8, <2>9, CallStep
<1> QED BY <1>5, <1>6

LEMMA AddKeeps ==
  ASSUME IInv, NEW st, Add(st)
  PROVE  IInv'
<1> DEFINE absent == main[st.on].k = "object" /\ st.attr \notin DOMAIN objects[main[st.on].id].own
<1>1. /\ Runs /\ Ends(IF absent THEN "crash" ELSE "ok") /\ grown' = (grown \/ absent)
      /\ UNCHANGED <<main, rebound, types, open, objects, patched>>
  BY DEF Add
<1> HIDE DEF absent
<1>2. open = <<>> /\ TypeOK /\ main \in Tables /\ rebound \subseteq STRING
  BY <1>1 DEF Runs, IInv, TypeOK
<1>3. grown' \in BOOLEAN
  BY <1>1
<1>4. status' = IF absent THEN "crash" ELSE "ok"
  BY <1>1 DEF Ends
<1>5. status' \in {"ok", "crash", "undefined"}
  BY <1>4
<1>6. status' # "ok" => OnlyTheUnguarded'
  BY <1>1, <1>4 DEF OnlyTheUnguarded
<1>7. objects' \in Seq(ObjectRecords) /\ After(objects, objects')
  BY <1>1, <1>2, AfterSame
<1>8. AllFit(main', ClassesIn(DOMAIN types), IfacesIn(DOMAIN types), Len(objects'))
  BY <1>1, <1>2, Outside
<1>9. main' = main /\ rebound' = rebound
  BY <1>1
<1> QED BY <1>1, <1>2, <1>3, <1>5, <1>6, <1>7, <1>8, <1>9, Ran

LEMMA AskKeeps ==
  ASSUME IInv, NEW st, st.on \in DOMAIN main, Ask(st)
  PROVE  IInv'
<1> DEFINE lost == main[st.on].k = "object" /\ ~HasType(main[st.on].id)
<1>1. /\ Runs /\ Ends(IF lost THEN "crash" ELSE "ok")
      /\ UNCHANGED <<main, rebound, types, open, objects, patched, grown>>
  BY DEF Ask
<1>2. open = <<>> /\ TypeOK /\ main \in Tables /\ rebound \subseteq STRING /\ session' = session
  BY <1>1 DEF Runs, IInv, TypeOK
<1>3. ASSUME lost PROVE Excused("__call__")
  <2>1. main[st.on].id \in DOMAIN objects /\ <<"object", main[st.on].id>> \in Alive
    BY <1>2, <1>3, NamedAlive
  <2>2. Astray(objects[main[st.on].id].made)
    BY <1>3, <2>1, ClassStays DEF KeepsItsClass
  <2> QED BY <2>1, <2>2 DEF Excused
<1> HIDE DEF lost
<1>4. status' = IF lost THEN "crash" ELSE "ok"
  BY <1>1 DEF Ends
<1>5. status' \in {"ok", "crash", "undefined"}
  BY <1>4
<1>6. status' # "ok" => OnlyTheUnguarded'
  BY <1>1, <1>2, <1>3, <1>4, Excuses
<1>7. objects' \in Seq(ObjectRecords) /\ After(objects, objects')
  BY <1>1, <1>2, AfterSame
<1>8. AllFit(main', ClassesIn(DOMAIN types), IfacesIn(DOMAIN types), Len(objects'))
  BY <1>1, <1>2, Outside
<1>9. main' = main /\ rebound' = rebound
  BY <1>1
<1>10. grown' \in BOOLEAN
  BY <1>1, <1>2 DEF TypeOK
<1> QED BY <1>1, <1>2, <1>5, <1>6, <1>7, <1>8, <1>9, <1>10, Ran

\* An assignment to a field of an object.
LEMMA FieldStep ==
  ASSUME IInv, Runs, NEW o \in DOMAIN objects, NEW a \in STRING, NEW v \in Values,
         Fits(v, ClassesIn(DOMAIN types), IfacesIn(DOMAIN types), Len(objects)),
         objects' = [objects EXCEPT ![o].own = Assigned(@, a, v)],
         UNCHANGED <<main, rebound, types, open, status, patched, grown>>
  PROVE  IInv'
<1> DEFINE C == ClassesIn(DOMAIN types)
           I == IfacesIn(DOMAIN types)
           n == Len(objects)
<1>1. open = <<>> /\ TypeOK /\ main \in Tables /\ rebound \subseteq STRING /\ status = "ok"
      /\ objects \in Seq(ObjectRecords)
  BY DEF Runs, IInv, TypeOK
<1>2. /\ objects' \in Seq(ObjectRecords) /\ Len(objects') = n
      /\ \A p \in DOMAIN objects :
           /\ objects'[p].type = objects[p].type /\ objects'[p].snap = objects[p].snap
           /\ objects'[p].made = objects[p].made
           /\ objects'[p].own = IF p = o THEN Assigned(objects[p].own, a, v) ELSE objects[p].own
  BY <1>1, FieldAssigned
<1>3. \A p \in DOMAIN objects : objects[p].own \in Tables /\ AllFit(objects[p].own, C, I, n)
  BY <1>1, Outside, ObjectAt DEF IInv, ObjectsFit
<1>4. n \in Nat /\ DOMAIN objects = 1 .. n /\ DOMAIN objects' = 1 .. n /\ n <= n
  BY <1>1, <1>2
<1>5. AllFit(main, C, I, n)
  BY <1>1, Outside
<1> HIDE DEF C, I, n
<1>6. \A p \in DOMAIN objects : AllFit(Assigned(objects[p].own, a, v), C, I, n)
  <2> TAKE p \in DOMAIN objects
  <2> DEFINE own == objects[p].own
  <2>1. own \in Tables /\ AllFit(own, C, I, n) /\ Fits(v, C, I, n)
    BY <1>3 DEF C, I, n
  <2> HIDE DEF own
  <2>2. AllFit(Assigned(own, a, v), C, I, n)
    BY <1>4, <2>1, TablesKeepFit
  <2> QED BY <2>2 DEF own
<1>7. \A p \in DOMAIN objects : AllFit(objects'[p].own, C, I, n)
  BY <1>2, <1>3, <1>6
<1>8. After(objects, objects')
  BY <1>2, <1>4, <1>7 DEF After, C, I, n
<1>9. AllFit(main', ClassesIn(DOMAIN types), IfacesIn(DOMAIN types), Len(objects'))
  BY <1>2, <1>5 DEF C, I, n
<1>10. main' = main /\ rebound' = rebound /\ status' = "ok"
  BY <1>1
<1>11. grown' \in BOOLEAN
  BY <1>1 DEF TypeOK
<1> QED BY <1>1, <1>2, <1>8, <1>9, <1>10, <1>11, Ran

-----------------------------------------------------------------------------
(* Steps that change types                                                 *)

\* One type given another table.
WithTable(ts, u, T) == [ts EXCEPT ![u].table = T]
OnlyTable(ts, ts2, u, T) ==
  /\ ts2 \in Seq(TypeRecords) /\ Len(ts2) = Len(ts) /\ DOMAIN ts2 = DOMAIN ts
  /\ \A t \in DOMAIN ts :
       /\ ts2[t].name = ts[t].name /\ ts2[t].kind = ts[t].kind
       /\ ts2[t].line = ts[t].line /\ ts2[t].ifaces = ts[t].ifaces
       /\ ts2[t].abstract = ts[t].abstract /\ ts2[t].stack = ts[t].stack
       /\ ts2[t].methods = ts[t].methods
  /\ \A t \in DOMAIN ts : ts2[t].table = IF t = u THEN T ELSE ts[t].table

LEMMA TableSet ==
  ASSUME NEW ts \in Seq(TypeRecords), NEW u \in DOMAIN ts, NEW T \in Tables,
         NEW ts2, ts2 = WithTable(ts, u, T)
  PROVE  OnlyTable(ts, ts2, u, T)
<1> DEFINE r == [ts[u] EXCEPT !.table = T]
<1>1. ts[u] \in TypeRecords
  OBVIOUS
<1>2. ts2 = [ts EXCEPT ![u] = r]
  BY DEF WithTable
<1>3. /\ r \in TypeRecords /\ r.table = T
      /\ r.name = ts[u].name /\ r.kind = ts[u].kind /\ r.line = ts[u].line /\ r.ifaces = ts[u].ifaces
      /\ r.stack = ts[u].stack /\ r.methods = ts[u].methods
  BY <1>1 DEF TypeRecords
<1>4. r.abstract = ts[u].abstract
  BY <1>1 DEF TypeRecords
<1> HIDE DEF r
<1>5. ts2 \in Seq(TypeRecords) /\ Len(ts2) = Len(ts) /\ DOMAIN ts2 = DOMAIN ts
  BY <1>2, <1>3
<1>6. \A t \in DOMAIN ts : ts2[t] = IF t = u THEN r ELSE ts[t]
  BY <1>2
<1>7. \A t \in DOMAIN ts : ts2[t].table = IF t = u THEN T ELSE ts[t].table
  BY <1>3, <1>6
<1>8. \A t \in DOMAIN ts :
        /\ ts2[t].name = ts[t].name /\ ts2[t].kind = ts[t].kind
        /\ ts2[t].line = ts[t].line /\ ts2[t].ifaces = ts[t].ifaces
        /\ ts2[t].abstract = ts[t].abstract /\ ts2[t].stack = ts[t].stack
        /\ ts2[t].methods = ts[t].methods
  BY <1>3, <1>4, <1>6
<1> QED BY <1>5, <1>7, <1>8 DEF OnlyTable

\* The classes and interfaces there were, are there.
LEMMA SetsFollow ==
  ASSUME TypeOK, TypeOK', Formed, Follows, NEW T, T \subseteq DOMAIN types, NEW T2, T \subseteq T2,
         T2 \subseteq DOMAIN types'
  PROVE  /\ ClassesIn(T) \subseteq {t \in T2 : types'[t].kind = "class" /\ Named(t)'}
         /\ IfacesIn(T) \subseteq {t \in T2 : types'[t].kind = "iface"}
<1>1. T \subseteq DOMAIN types \cap DOMAIN types'
  OBVIOUS
<1>2. /\ \A t \in ClassesIn(T) : t \in T /\ types'[t].kind = "class" /\ Named(t)'
      /\ \A t \in IfacesIn(T) : t \in T /\ types'[t].kind = "iface"
  BY <1>1, ClassesFollow
<1> QED BY <1>2

LEMMA SettledFollow ==
  ASSUME TypeOK, TypeOK', Formed, Follows, Settled \subseteq DOMAIN types, Settled \subseteq Settled',
         Settled' \subseteq DOMAIN types'
  PROVE  ClassesIn(Settled) \subseteq ClassesIn(Settled)' /\ IfacesIn(Settled) \subseteq IfacesIn(Settled)'
<1> DEFINE T == Settled
           T2 == Settled'
<1> HIDE DEF T, T2
<1>1. T \subseteq DOMAIN types /\ T \subseteq T2 /\ T2 \subseteq DOMAIN types'
  BY DEF T, T2
<1>2. /\ ClassesIn(T) \subseteq {t \in T2 : types'[t].kind = "class" /\ Named(t)'}
      /\ IfacesIn(T) \subseteq {t \in T2 : types'[t].kind = "iface"}
  BY <1>1, SetsFollow
<1>3. /\ ClassesIn(Settled)' = {t \in T2 : types'[t].kind = "class" /\ Named(t)'}
      /\ IfacesIn(Settled)' = {t \in T2 : types'[t].kind = "iface"}
  BY DEF ClassesIn, IfacesIn, T2
<1> QED BY <1>2, <1>3 DEF T

LEMMA WholeFollow ==
  ASSUME TypeOK, TypeOK', Formed, Follows, NEW T, T \subseteq DOMAIN types, T \subseteq Whole'
  PROVE  ClassesIn(T) \subseteq ClassesIn(Whole)' /\ IfacesIn(T) \subseteq IfacesIn(Whole)'
<1> DEFINE T2 == Whole'
<1> HIDE DEF T2
<1>1. T \subseteq T2 /\ T2 \subseteq DOMAIN types'
  BY DEF T2, Whole
<1>2. /\ ClassesIn(T) \subseteq {t \in T2 : types'[t].kind = "class" /\ Named(t)'}
      /\ IfacesIn(T) \subseteq {t \in T2 : types'[t].kind = "iface"}
  BY <1>1, SetsFollow
<1>3. /\ ClassesIn(Whole)' = {t \in T2 : types'[t].kind = "class" /\ Named(t)'}
      /\ IfacesIn(Whole)' = {t \in T2 : types'[t].kind = "iface"}
  BY DEF ClassesIn, IfacesIn, T2
<1> QED BY <1>2, <1>3

\* A step that leaves the objects alone.
LEMMA TypesStep ==
  ASSUME IInv, TypeOK', Formed', Opened', Follows, MainFits', TablesFit', AllFulfil',
         objects' = objects, status' = "ok", Settled \subseteq Settled', Settled' \subseteq DOMAIN types',
         \A t \in Settled : DOMAIN types[t].table \subseteq DOMAIN types'[t].table
  PROVE  IInv'
<1> DEFINE C == ClassesIn(Settled)
           I == IfacesIn(Settled)
           C2 == ClassesIn(Settled)'
           I2 == IfacesIn(Settled)'
           n == Len(objects)
<1>1. TypeOK /\ Formed /\ Opened /\ ObjectsFit /\ AllMade
  BY DEF IInv
<1>2. Settled \subseteq DOMAIN types
  BY <1>1, SettledIs
<1>3. C \subseteq C2 /\ I \subseteq I2
  BY <1>1, <1>2, SettledFollow
<1>4. \A o \in DOMAIN objects : /\ AllFit(objects[o].own, C, I, n) /\ AllFit(objects[o].snap, C, I, n)
                                /\ Fits(objects[o].type, C, I, n) /\ Made(o)
  BY <1>1 DEF ObjectsFit, AllMade
<1>5. n \in Nat /\ n <= n
  BY <1>1 DEF TypeOK
<1>6. ObjectsFit'
  <2> SUFFICES ASSUME NEW o \in DOMAIN objects
               PROVE  /\ AllFit(objects[o].own, C2, I2, n) /\ AllFit(objects[o].snap, C2, I2, n)
                      /\ Fits(objects[o].type, C2, I2, n)
    BY DEF ObjectsFit
  <2> HIDE DEF C, I, C2, I2, n
  <2>1. AllFit(objects[o].own, C, I, n) /\ AllFit(objects[o].snap, C, I, n) /\ Fits(objects[o].type, C, I, n)
    BY <1>4
  <2>2. AllFit(objects[o].own, C2, I2, n) /\ AllFit(objects[o].snap, C2, I2, n)
    BY <1>3, <1>5, <2>1, AllFitMore
  <2>3. Fits(objects[o].type, C2, I2, n)
    BY <1>3, <1>5, <2>1, FitsMore
  <2> QED BY <2>2, <2>3
<1>7. AllMade'
  <2> SUFFICES ASSUME NEW o \in DOMAIN objects PROVE Made(o)'
    BY DEF AllMade
  <2>0. PICK t : t = objects[o].made
    OBVIOUS
  <2>1. /\ t \in C /\ ~types[t].abstract
        /\ ~Astray(t) => /\ objects[o].type = Val("class", t)
                         /\ Len(types[t].stack) > 1 => Leads(objects[o].snap, types[t].name, t)
    BY <1>4, <2>0 DEF Made
  <2>2. t \in Settled /\ t \in C2
    BY <1>3, <2>1 DEF ClassesIn
  <2>3. t \in DOMAIN types \cap DOMAIN types'
    BY <1>2, <2>2
  <2>4. /\ types'[t].name = types[t].name /\ types'[t].abstract = types[t].abstract
        /\ types'[t].stack = types[t].stack /\ patched \subseteq patched' /\ rebound \subseteq rebound'
    BY <2>3 DEF Follows
  <2>5. DOMAIN types[t].table \subseteq DOMAIN types'[t].table
    BY <2>2
  <2>6. Astray(t) => Astray(t)'
    BY <2>4, <2>5 DEF Astray
  <2>7. objects'[o].made = t /\ objects'[o].type = objects[o].type /\ objects'[o].snap = objects[o].snap
    BY <2>0
  <2>8. Astray(objects[o].made)' = Astray(t)'
    BY <2>7 DEF Astray
  <2> HIDE DEF C2
  <2>9. /\ t \in ClassesIn(Settled)' /\ ~types'[t].abstract
        /\ ~Astray(objects[o].made)' =>
             /\ objects[o].type = Val("class", t)
             /\ Len(types'[t].stack) > 1 => Leads(objects[o].snap, types'[t].name, t)
    BY <2>1, <2>2, <2>4, <2>6, <2>8 DEF C2
  <2> QED BY <2>7, <2>9 DEF Made, Leads
<1>8. OnlyTheUnguarded'
  BY DEF OnlyTheUnguarded
<1> QED BY <1>6, <1>7, <1>8 DEF IInv

\* An assignment to an attribute of a class.
LEMMA PatchStep ==
  ASSUME IInv, Runs, NEW u \in DOMAIN types, NEW a \in STRING, NEW v \in Values,
         Fits(v, ClassesIn(DOMAIN types), IfacesIn(DOMAIN types), Len(objects)),
         types' = [types EXCEPT ![u].table = Assigned(@, a, v)], patched' = patched \cup {u},
         UNCHANGED <<main, rebound, open, objects, status, grown>>
  PROVE  IInv'
<1> DEFINE C == ClassesIn(DOMAIN types)
           I == IfacesIn(DOMAIN types)
           n == Len(objects)
           T == Assigned(types[u].table, a, v)
<1>1. /\ open = <<>> /\ TypeOK /\ Formed /\ Undeclared = {} /\ Settled = DOMAIN types /\ Whole = DOMAIN types
      /\ n \in Nat /\ n <= n /\ AllFit(main, C, I, n) /\ status = "ok"
  <2>1. open = <<>> /\ status = "ok"
    BY DEF Runs
  <2> QED BY <2>1, Outside
<1>2. \A t \in DOMAIN types : types[t].table \in Tables /\ AllFit(types[t].table, C, I, n)
  BY <1>1, Outside, TypeAt
<1>3. types \in Seq(TypeRecords) /\ u \in Nat
  BY <1>1 DEF TypeOK
<1>4. types' = WithTable(types, u, T)
  BY DEF WithTable
<1>5. T \in Tables /\ DOMAIN T = DOMAIN types[u].table \cup {a} /\ AllFit(T, C, I, n)
  <2> DEFINE table == types[u].table
  <2>1. table \in Tables /\ AllFit(table, C, I, n) /\ Fits(v, C, I, n)
    BY <1>2
  <2> HIDE DEF table, C, I, n
  <2>2. AllFit(Assigned(table, a, v), C, I, n)
    BY <1>1, <2>1, TablesKeepFit
  <2>3. Assigned(table, a, v) \in Tables /\ DOMAIN Assigned(table, a, v) = DOMAIN table \cup {a}
    BY <2>1, TableAssigned
  <2> QED BY <2>2, <2>3 DEF table
<1> HIDE DEF T, C, I, n
<1>6. /\ types' \in Seq(TypeRecords) /\ Len(types') = Len(types) /\ DOMAIN types' = DOMAIN types
      /\ \A t \in DOMAIN types :
           /\ types'[t].name = types[t].name /\ types'[t].kind = types[t].kind
           /\ types'[t].line = types[t].line /\ types'[t].ifaces = types[t].ifaces
           /\ types'[t].abstract = types[t].abstract /\ types'[t].stack = types[t].stack
           /\ types'[t].methods = types[t].methods
           /\ types'[t].table = IF t = u THEN T ELSE types[t].table
  <2>1. OnlyTable(types, types', u, T)
    BY <1>3, <1>4, <1>5, TableSet
  <2> QED BY <2>1 DEF OnlyTable
<1>7. TypeOK'
  <2>1. fuel' \in Int /\ session' \in Sessions
    BY <1>1 DEF Runs, TypeOK
  <2>2. patched' \subseteq Nat
    BY <1>1, <1>3 DEF TypeOK
  <2> QED BY <1>1, <1>6, <2>1, <2>2 DEF TypeOK
<1>8. open' = <<>>
  BY <1>1
<1>9. DOMAIN open' = {}
  BY <1>8
<1>10. Undeclared' = {} /\ Settled' = DOMAIN types /\ Whole' = DOMAIN types
  <2>1. Undeclared' = {}
    BY <1>9 DEF Undeclared
  <2>2. DOMAIN types' = 1 .. Len(types')
    BY <1>6
  <2> QED BY <1>6, <1>8, <2>1, <2>2 DEF Settled, Whole
<1>11. Follows
  <2>1. \A t \in DOMAIN types :
          t \in patched' \/ \A b \in DOMAIN types[t].table :
                              b \in DOMAIN types'[t].table /\ types'[t].table[b] = types[t].table[b]
    BY <1>6
  <2> QED BY <1>6, <1>10, <2>1 DEF Follows
<1>12. Formed'
  BY <1>1, <1>6, <1>7, <1>11, FormedFollows DEF Formed
<1>13. Opened'
  BY <1>8, <1>9 DEF Opened
<1>14. C \subseteq ClassesIn(Settled)' /\ I \subseteq IfacesIn(Settled)'
       /\ C \subseteq ClassesIn(Whole)' /\ I \subseteq IfacesIn(Whole)'
  <2>1. Settled \subseteq DOMAIN types /\ Settled \subseteq Settled' /\ Settled' \subseteq DOMAIN types'
    BY <1>1, <1>6, <1>10
  <2>2. ClassesIn(Settled) \subseteq ClassesIn(Settled)' /\ IfacesIn(Settled) \subseteq IfacesIn(Settled)'
    BY <1>1, <1>7, <1>11, <2>1, SettledFollow
  <2>3. C = ClassesIn(Settled) /\ I = IfacesIn(Settled)
    BY <1>1 DEF C, I
  <2>4. ClassesIn(Settled)' = ClassesIn(Whole)' /\ IfacesIn(Settled)' = IfacesIn(Whole)'
    BY <1>10 DEF ClassesIn, IfacesIn
  <2> QED BY <2>2, <2>3, <2>4
<1>15. ASSUME NEW C2, NEW I2, C \subseteq C2, I \subseteq I2
       PROVE  AllFit(main, C2, I2, n) /\ \A t \in DOMAIN types : AllFit(types'[t].table, C2, I2, n)
  <2>1. \A table : AllFit(table, C, I, n) => AllFit(table, C2, I2, n)
    BY <1>1, <1>15, AllFitMore
  <2>2. \A t \in DOMAIN types : AllFit(types'[t].table, C, I, n)
    BY <1>2, <1>5, <1>6
  <2> QED BY <1>1, <2>1, <2>2
<1>16. MainFits'
  <2>1. AllFit(main, ClassesIn(Settled)', IfacesIn(Settled)', n)
    BY <1>14, <1>15
  <2> QED BY <2>1 DEF MainFits, n
<1>17. TablesFit'
  <2>1. \A t \in DOMAIN types : AllFit(types'[t].table, ClassesIn(Settled)', IfacesIn(Settled)', n)
    BY <1>14, <1>15
  <2>2. \A t \in DOMAIN types : AllFit(types'[t].table, ClassesIn(Whole)', IfacesIn(Whole)', n)
    BY <1>14, <1>15
  <2> QED BY <1>6, <1>10, <2>1, <2>2 DEF TablesFit, n
<1>18. AllFulfil'
  <2>1. \A t \in DOMAIN types : Fulfils(t)
    BY <1>1 DEF IInv, AllFulfil
  <2>2. ASSUME NEW t \in DOMAIN types PROVE Fulfils(t)'
    <3>1. \A k \in DOMAIN types[t].line :
            types[t].line[k] \in patched' \/ types'[types[t].line[k]].table = types[types[t].line[k]].table
      BY <1>1, <1>6, OnLine
    <3> QED BY <1>1, <1>6, <1>7, <1>11, <2>1, <3>1, FulfilsFollows
  <2> QED BY <1>10, <2>2 DEF AllFulfil
<1>19. \A t \in Settled : DOMAIN types[t].table \subseteq DOMAIN types'[t].table
  BY <1>1, <1>5, <1>6
<1>20. Settled \subseteq Settled' /\ Settled' \subseteq DOMAIN types' /\ status' = "ok" /\ objects' = objects
  BY <1>1, <1>6, <1>10
<1> QED BY <1>7, <1>11, <1>12, <1>13, <1>16, <1>17, <1>18, <1>19, <1>20, TypesStep

LEMMA PutKeeps ==
  ASSUME IInv, NEW st \in session.statements, st.on \in DOMAIN main, Put(st)
  PROVE  IInv'
<1> DEFINE v == main[st.on]
           w == main[st.to]
           line == types[v.id].line
           k == Nearest(line, st.attr)
<1>1. Runs /\ st.to \in DOMAIN main /\ UNCHANGED <<main, rebound, open, status, grown>>
  BY DEF Put
<1>2. open = <<>> /\ TypeOK /\ Formed /\ status = "ok"
  BY <1>1 DEF Runs, IInv
<1>3. st.attr \in STRING
  BY <1>2, StatementAt
<1>4. /\ w \in Values /\ Fits(w, ClassesIn(DOMAIN types), IfacesIn(DOMAIN types), Len(objects))
      /\ v.k = "object" => v.id \in DOMAIN objects
      /\ v.k = "class" => v.id \in DOMAIN types
  BY <1>1, <1>2, NamedAlive
<1>5. CASE v.k = "object"
  <2>1. objects' = [objects EXCEPT ![v.id].own = Assigned(@, st.attr, w)] /\ UNCHANGED <<types, patched>>
    BY <1>5 DEF Put
  <2>2. v.id \in DOMAIN objects
    BY <1>4, <1>5
  <2> HIDE DEF v, w
  <2> QED BY <1>1, <1>3, <1>4, <2>1, <2>2, FieldStep
<1>6. CASE v.k = "class" /\ k # 0
  <2>1. types' = [types EXCEPT ![line[k]].table = Assigned(@, st.attr, w)] /\ patched' = patched \cup {line[k]}
        /\ UNCHANGED objects
    BY <1>6 DEF Put
  <2>2. v.id \in DOMAIN types
    BY <1>4, <1>6
  <2>3. line \in Seq(Nat) /\ \A j \in DOMAIN line : line[j] \in DOMAIN types
    BY <1>2, <2>2, OnLine
  <2>4. k \in DOMAIN line
    <3> HIDE DEF line
    <3> QED BY <1>6, <2>3, NearestIs
  <2>5. line[k] \in DOMAIN types
    BY <2>3, <2>4
  <2> HIDE DEF v, w, line, k
  <2> QED BY <1>1, <1>3, <1>4, <2>1, <2>5, PatchStep
<1>7. CASE v.k # "object" /\ ~(v.k = "class" /\ k # 0)
  <2>1. UNCHANGED <<types, objects, patched>>
    BY <1>7 DEF Put
  <2>2. objects' \in Seq(ObjectRecords) /\ After(objects, objects')
    BY <1>2, <2>1, AfterSame
  <2>3. AllFit(main', ClassesIn(DOMAIN types), IfacesIn(DOMAIN types), Len(objects'))
    BY <1>1, <1>2, <2>1, Outside
  <2>4. main' = main /\ main \in Tables /\ rebound' = rebound /\ rebound \subseteq STRING /\ status' = "ok"
    BY <1>1, <1>2 DEF TypeOK
  <2>5. grown' \in BOOLEAN
    BY <1>1, <1>2 DEF TypeOK
  <2>6. UNCHANGED <<types, open, patched>>
    BY <1>1, <2>1
  <2> QED BY <1>1, <2>2, <2>3, <2>4, <2>5, <2>6, Ran
<1> QED BY <1>5, <1>6, <1>7

-----------------------------------------------------------------------------
(* Declarations                                                            *)

\* What a name leads to where a class is under declaration.
LEMMA LookupInside ==
  ASSUME IInv, NEW s \in Seq(Nat), \A j \in DOMAIN s : s[j] \in DOMAIN types, NEW a
  PROVE  /\ Lookup(s, a) \in Values \cup {Nothing}
         /\ Fits(Lookup(s, a), ClassesIn(Whole), IfacesIn(Whole), Len(objects))
<1> DEFINE C == ClassesIn(Whole)
           I == IfacesIn(Whole)
           n == Len(objects)
<1>1. TypeOK /\ Opened /\ MainFits /\ TablesFit /\ n \in Nat /\ n <= n
  BY DEF IInv, TypeOK
<1>2. ClassesIn(Settled) \subseteq C /\ IfacesIn(Settled) \subseteq I
  <2>1. Settled \subseteq Whole
    BY <1>1, SettledIs
  <2> QED BY <2>1 DEF ClassesIn, IfacesIn
<1>3. AllFit(main, ClassesIn(Settled), IfacesIn(Settled), n)
  BY <1>1 DEF MainFits
<1>4. \A j \in DOMAIN s : s[j] \in DOMAIN types /\ AllFit(types[s[j]].table, C, I, n)
  BY <1>1 DEF TablesFit
<1> HIDE DEF C, I, n
<1>5. AllFit(main, C, I, n)
  BY <1>1, <1>2, <1>3, AllFitMore
<1>6. Lookup(s, a) \in Values \cup {Nothing} /\ Fits(Lookup(s, a), C, I, n)
  BY <1>1, <1>4, <1>5, LookupFits
<1> QED BY <1>6 DEF C, I, n

LEMMA AppendedIs ==
  ASSUME NEW ts \in Seq(TypeRecords), NEW r \in TypeRecords, NEW ts2, ts2 = Append(ts, r)
  PROVE  /\ ts2 \in Seq(TypeRecords) /\ Len(ts2) = Len(ts) + 1 /\ DOMAIN ts2 = 1 .. Len(ts) + 1
         /\ DOMAIN ts = 1 .. Len(ts) /\ Len(ts) \in Nat
         /\ ts2[Len(ts) + 1] = r /\ \A t \in DOMAIN ts : ts2[t] = ts[t]
OBVIOUS

\* A type more, without attributes, which is complete only if it is an interface.
LEMMA AppendStep ==
  ASSUME IInv, TypeOK', NEW r \in TypeRecords, types' = Append(types, r), r.table = <<>>,
         patched' = patched, rebound \subseteq rebound', objects' = objects, status' = "ok",
         \A n \in DOMAIN main :
           main[n].k = "class" => n \in rebound' \/ (n \in DOMAIN main' /\ main'[n] = main[n]),
         NEW t, t = Len(types) + 1, Lined(t)', Stacked(t)', Extending(t)', Opened',
         Settled \subseteq Settled', Settled' \subseteq Settled \cup {t},
         Undeclared \subseteq Undeclared', Undeclared' \subseteq Undeclared \cup {t},
         r.kind # "iface" => t \in Undeclared',
         Follows => MainFits'
  PROVE  IInv'
<1> DEFINE n == Len(objects)
<1>1. TypeOK /\ Formed /\ Opened /\ TablesFit /\ AllFulfil /\ n \in Nat /\ n <= n
  BY DEF IInv, TypeOK
<1>2. /\ DOMAIN types' = 1 .. t /\ DOMAIN types = 1 .. Len(types) /\ Len(types) \in Nat /\ types'[t] = r
      /\ \A u \in DOMAIN types : types'[u] = types[u]
  BY <1>1, AppendedIs DEF TypeOK
<1>3. /\ DOMAIN types \subseteq DOMAIN types' /\ t \in DOMAIN types' /\ t \notin DOMAIN types
      /\ DOMAIN types' = DOMAIN types \cup {t}
  BY <1>2
<1>4. Follows
  BY <1>2, <1>3 DEF Follows
<1>5. MainFits'
  BY <1>4
<1>6. Settled \subseteq DOMAIN types /\ Settled' \subseteq DOMAIN types' /\ Whole \subseteq DOMAIN types
  BY <1>1, <1>3, SettledIs
<1>7. Whole \subseteq Whole' /\ Whole' \subseteq Whole \cup {t} /\ (t \in Whole' => r.kind = "iface")
  <2>1. t \notin Undeclared
    BY <1>1, <1>3, SettledIs
  <2>2. \A u \in DOMAIN types : u # t
    BY <1>3
  <2> QED BY <1>3, <2>1, <2>2 DEF Whole
<1>8. Formed'
  BY <1>1, <1>3, <1>4, FormedFollows DEF Formed
<1>9. TablesFit'
  <2>1. ASSUME NEW u \in DOMAIN types', NEW C, NEW I, NEW C2, NEW I2, C \subseteq C2, I \subseteq I2,
               u \in DOMAIN types => AllFit(types[u].table, C, I, n)
        PROVE  AllFit(types'[u].table, C2, I2, n)
    <3>1. CASE u \in DOMAIN types
      <4>1. types'[u].table = types[u].table
        BY <1>2, <3>1
      <4> QED BY <1>1, <2>1, <3>1, <4>1, AllFitMore
    <3>2. CASE u \notin DOMAIN types
      <4>1. types'[u].table = <<>>
        BY <1>2, <1>3, <3>2
      <4> QED BY <4>1, EmptyTable
    <3> QED BY <3>1, <3>2
  <2>2. \A u \in Settled' : AllFit(types'[u].table, ClassesIn(Settled)', IfacesIn(Settled)', n)
    <3>1. ClassesIn(Settled) \subseteq ClassesIn(Settled)' /\ IfacesIn(Settled) \subseteq IfacesIn(Settled)'
      BY <1>1, <1>4, <1>6, SettledFollow
    <3>2. \A u \in Settled : AllFit(types[u].table, ClassesIn(Settled), IfacesIn(Settled), n)
      BY <1>1 DEF TablesFit
    <3>3. \A u \in Settled' : u \in DOMAIN types' /\ (u \in DOMAIN types => u \in Settled)
      BY <1>3, <1>6
    <3> HIDE DEF n
    <3> QED BY <2>1, <3>1, <3>2, <3>3
  <2>3. \A u \in DOMAIN types' : AllFit(types'[u].table, ClassesIn(Whole)', IfacesIn(Whole)', n)
    <3>1. ClassesIn(Whole) \subseteq ClassesIn(Whole)' /\ IfacesIn(Whole) \subseteq IfacesIn(Whole)'
      <4> DEFINE T == Whole
      <4>1. T \subseteq DOMAIN types /\ T \subseteq Whole'
        BY <1>6, <1>7
      <4>2. PICK T2 : T2 = T
        OBVIOUS
      <4> HIDE DEF T
      <4>3. ClassesIn(T2) \subseteq ClassesIn(Whole)' /\ IfacesIn(T2) \subseteq IfacesIn(Whole)'
        BY <1>1, <1>4, <4>1, <4>2, WholeFollow
      <4> QED BY <4>2, <4>3 DEF T
    <3>2. \A u \in DOMAIN types : AllFit(types[u].table, ClassesIn(Whole), IfacesIn(Whole), n)
      BY <1>1 DEF TablesFit
    <3> HIDE DEF n
    <3> QED BY <2>1, <3>1, <3>2
  <2>4. n = Len(objects')
    OBVIOUS
  <2> HIDE DEF n
  <2> QED BY <2>2, <2>3, <2>4 DEF TablesFit
<1>10. AllFulfil'
  <2> SUFFICES ASSUME NEW u \in Whole' PROVE Fulfils(u)'
    BY DEF AllFulfil
  <2>1. CASE u \in Whole
    <3>1. u \in DOMAIN types \cap DOMAIN types' /\ Fulfils(u)
      BY <1>1, <1>3, <1>6, <2>1 DEF AllFulfil
    <3>2. \A k \in DOMAIN types[u].line : types'[types[u].line[k]].table = types[types[u].line[k]].table
      BY <1>1, <1>2, <3>1, OnLine
    <3> QED BY <1>1, <1>4, <3>1, <3>2, FulfilsFollows
  <2>2. CASE u \notin Whole
    <3>1. types'[u].kind = "iface"
      BY <1>2, <1>7, <2>2
    <3> QED BY <3>1 DEF Fulfils
  <2> QED BY <2>1, <2>2
<1>11. \A u \in Settled : DOMAIN types[u].table \subseteq DOMAIN types'[u].table
  BY <1>2, <1>6
<1> QED BY <1>4, <1>5, <1>6, <1>8, <1>9, <1>10, <1>11, TypesStep

LEMMA ClassDeclFields ==
  ASSUME NEW d \in ClassDecls
  PROVE  /\ d.name \in STRING /\ d.parent \in STRING /\ d.ifaces \in Seq(STRING) /\ d.abstract \in BOOLEAN
         /\ d.final \in BOOLEAN /\ d.members \in Seq(Members)
BY DEF ClassDecls

\* The type t a declaration of a class begins with, where the stack is s.
NewClass(r, t, s) ==
  /\ r \in TypeRecords /\ r.kind = "class" /\ r.table = <<>> /\ r.stack = <<t>> \o s
  /\ \/ r.line = <<t>>
     \/ \E b \in Whole : types[b].kind = "class" /\ r.line = <<t>> \o types[b].line
  /\ \A k \in DOMAIN r.ifaces : r.ifaces[k] \in DOMAIN types /\ types[r.ifaces[k]].kind = "iface"

LEMMA NewDeclTypeIs ==
  ASSUME IInv, NEW d \in ClassDecls, NEW s \in Seq(Nat), \A j \in DOMAIN s : s[j] \in DOMAIN types, Valid(d, s),
         NEW r, r = NewDeclType(d, s), NEW t, t = Len(types) + 1
  PROVE  NewClass(r, t, s)
<1> DEFINE base == Lookup(s, d.parent)
           line == <<t>> \o (IF d.parent = "" THEN <<>> ELSE types[base.id].line)
           ifaces == [k \in DOMAIN d.ifaces |-> Lookup(s, d.ifaces[k]).id]
           stack == <<t>> \o s
<1>1. TypeOK /\ Opened /\ Whole \subseteq DOMAIN types
  BY SettledIs DEF IInv
<1>2. t \in Nat /\ <<t>> \in Seq(Nat) /\ <<t>> \o <<>> = <<t>>
  BY <1>1 DEF TypeOK
<1>3. \A a : /\ Lookup(s, a) \in Values \cup {Nothing}
             /\ Fits(Lookup(s, a), ClassesIn(Whole), IfacesIn(Whole), Len(objects))
  BY LookupInside
<1>4. /\ r.name = d.name /\ r.kind = "class" /\ r.line = line /\ r.ifaces = ifaces /\ r.stack = stack
      /\ r.table = <<>> /\ r.methods = <<>>
      /\ r = [name |-> d.name, kind |-> "class", line |-> line, ifaces |-> ifaces, abstract |-> d.abstract,
              final |-> d.final, stack |-> stack, table |-> <<>>, methods |-> <<>>]
  BY DEF NewDeclType
<1>5. d.parent # "" => base.id \in Whole /\ types[base.id].kind = "class"
  <2> SUFFICES ASSUME d.parent # "" PROVE base.id \in Whole /\ types[base.id].kind = "class"
    OBVIOUS
  <2>1. base.k = "class"
    BY DEF Valid
  <2>2. Fits(base, ClassesIn(Whole), IfacesIn(Whole), Len(objects))
    BY <1>3
  <2> HIDE DEF base
  <2> QED BY <2>1, <2>2 DEF Fits, ClassesIn
<1>6. \A k \in DOMAIN ifaces : ifaces[k] \in DOMAIN types /\ types[ifaces[k]].kind = "iface" /\ ifaces[k] \in Nat
  <2> SUFFICES ASSUME NEW k \in DOMAIN d.ifaces
               PROVE  LET i == Lookup(s, d.ifaces[k]).id
                      IN i \in DOMAIN types /\ types[i].kind = "iface" /\ i \in Nat
    OBVIOUS
  <2> DEFINE v == Lookup(s, d.ifaces[k])
  <2>1. v.k = "iface"
    BY DEF Valid
  <2>2. Fits(v, ClassesIn(Whole), IfacesIn(Whole), Len(objects))
    BY <1>3
  <2> HIDE DEF v
  <2>3. v.id \in DOMAIN types /\ types[v.id].kind = "iface"
    BY <1>1, <2>1, <2>2 DEF Fits, IfacesIn
  <2>4. v.id \in Nat
    BY <1>1, <2>3 DEF TypeOK
  <2> QED BY <2>3, <2>4 DEF v
<1>7. line \in Seq(Nat)
  <2>1. CASE d.parent = ""
    <3>1. line = <<t>> \o <<>>
      BY <2>1
    <3> HIDE DEF line
    <3> QED BY <1>2, <3>1
  <2>2. CASE d.parent # ""
    <3> DEFINE up == types[base.id].line
    <3>1. up \in Seq(Nat)
      BY <1>1, <1>5, <2>2, TypeAt
    <3>2. line = <<t>> \o up
      BY <2>2
    <3> HIDE DEF line, up
    <3> QED BY <1>2, <3>1, <3>2
  <2> QED BY <2>1, <2>2
<1>8. ifaces \in Seq(Nat)
  <2>1. d.ifaces \in Seq(STRING)
    BY ClassDeclFields
  <2>2. DOMAIN ifaces = 1 .. Len(d.ifaces) /\ Len(d.ifaces) \in Nat
    BY <2>1
  <2>3. ifaces \in [1 .. Len(d.ifaces) -> Nat]
    BY <1>6, <2>2
  <2> HIDE DEF ifaces
  <2> QED BY <2>2, <2>3
<1>9. stack \in Seq(Nat)
  BY <1>2
<1>10. <<>> \in Tables /\ <<>> \in MethodTables
  <2>1. <<>> \in [{} -> Signatures] /\ {} \in SUBSET STRING
    OBVIOUS
  <2> QED BY <2>1, EmptyTable DEF MethodTables
<1>11. d.name \in STRING /\ d.abstract \in BOOLEAN /\ d.final \in BOOLEAN
  BY ClassDeclFields
<1> HIDE DEF ifaces, stack
<1>12. line = <<t>> \/ \E b \in Whole : types[b].kind = "class" /\ line = <<t>> \o types[b].line
  <2>1. CASE d.parent = ""
    <3>1. line = <<t>> \o <<>>
      BY <2>1
    <3> HIDE DEF line
    <3> QED BY <1>2, <3>1
  <2>2. CASE d.parent # ""
    <3>1. line = <<t>> \o types[base.id].line
      BY <2>2
    <3> QED BY <1>5, <2>2, <3>1
  <2> QED BY <2>1, <2>2
<1> HIDE DEF line
<1>13. r \in TypeRecords
  <2> DEFINE e == <<>>
             ab == d.abstract
             fi == d.final
             name == d.name
  <2>1. r = [name |-> name, kind |-> "class", line |-> line, ifaces |-> ifaces, abstract |-> ab,
             final |-> fi, stack |-> stack, table |-> e, methods |-> e]
    BY <1>4
  <2>2. name \in STRING /\ ab \in BOOLEAN /\ fi \in BOOLEAN /\ e \in Tables /\ e \in MethodTables
    BY <1>10, <1>11
  <2> HIDE DEF e, ab, fi, name
  <2> QED BY <1>7, <1>8, <1>9, <2>1, <2>2 DEF TypeRecords
<1> QED BY <1>4, <1>6, <1>12, <1>13 DEF stack, NewClass

\* The declaration of a class begins.
LEMMA ClassBegun ==
  ASSUME IInv, TypeOK', NEW d \in ClassDecls, NEW s \in Seq(Nat), Valid(d, s),
         \A j \in DOMAIN s : s[j] \in DOMAIN types /\ types[s[j]].kind = "class",
         types' = Append(types, NewDeclType(d, s)), Opened', Settled' = Settled,
         Undeclared' = Undeclared \cup {Len(types) + 1},
         UNCHANGED <<main, rebound, patched, objects>>, status' = "ok"
  PROVE  IInv'
<1>1. PICK r : r = NewDeclType(d, s)
  OBVIOUS
<1>2. PICK t : t = Len(types) + 1
  OBVIOUS
<1>3. /\ r \in TypeRecords /\ r.kind = "class" /\ r.table = <<>> /\ r.stack = <<t>> \o s
      /\ \/ r.line = <<t>>
         \/ \E b \in Whole : types[b].kind = "class" /\ r.line = <<t>> \o types[b].line
      /\ \A k \in DOMAIN r.ifaces : r.ifaces[k] \in DOMAIN types /\ types[r.ifaces[k]].kind = "iface"
  <2>1. \A j \in DOMAIN s : s[j] \in DOMAIN types
    OBVIOUS
  <2>2. NewClass(r, t, s)
    BY <1>1, <1>2, <2>1, NewDeclTypeIs
  <2> QED BY <2>2 DEF NewClass
<1>4. TypeOK /\ Formed /\ Opened /\ types \in Seq(TypeRecords)
  BY DEF IInv, TypeOK
<1>5. /\ DOMAIN types' = 1 .. t /\ DOMAIN types = 1 .. Len(types) /\ Len(types) \in Nat /\ types'[t] = r
      /\ \A u \in DOMAIN types : types'[u] = types[u]
  BY <1>1, <1>2, <1>3, <1>4, AppendedIs
<1>6. /\ \A u \in DOMAIN types : u \in 1 .. t - 1 /\ u # t
      /\ t - 1 = Len(types) /\ t \in Nat /\ t \notin DOMAIN types
  BY <1>2, <1>5
<1>7. Undeclared' = Undeclared \cup {t} /\ \A u \in Whole : u \in 1 .. t - 1 /\ u \notin Undeclared'
  <2>1. \A u \in Whole : u \in DOMAIN types /\ u \notin Undeclared
    BY DEF Whole
  <2> QED BY <1>2, <1>6, <2>1
<1>8. Lined(t)'
  <2> DEFINE line == r.line
  <2>1. CASE line = <<t>>
    <3>1. Len(line) > 0 /\ line[1] = t /\ Len(line) = 1 /\ ~(Len(line) > 1) /\ \A k \in 2 .. Len(line) : FALSE
      BY <2>1
    <3>2. types'[t].line = line
      BY <1>5
    <3> HIDE DEF line
    <3> QED BY <3>1, <3>2 DEF Lined
  <2>2. CASE \E b \in Whole : types[b].kind = "class" /\ line = <<t>> \o types[b].line
    <3>1. PICK b \in Whole : types[b].kind = "class" /\ line = <<t>> \o types[b].line
      BY <2>2
    <3> DEFINE up == types[b].line
    <3>2. b \in DOMAIN types /\ b \notin Undeclared /\ b \in 1 .. t - 1
      BY <1>7, <3>1 DEF Whole
    <3>3. /\ up \in Seq(Nat) /\ Len(up) > 0 /\ up[1] = b
          /\ \A k \in 2 .. Len(up) : up[k] \in (1 .. b - 1) \ Undeclared /\ types[up[k]].kind = "class"
      <4>1. Lined(b) /\ up \in Seq(Nat)
        BY <1>4, <3>2, TypeAt DEF Formed
      <4> QED BY <4>1 DEF Lined
    <3>4. line = <<t>> \o up
      BY <3>1
    <3>5. types'[t].line = line /\ types'[t].kind = "class" /\ types'[b].line = up
      BY <1>3, <1>5, <3>2
    <3>6. \A k \in 1 .. Len(up) : up[k] \in (1 .. t - 1) \ Undeclared /\ types[up[k]].kind = "class"
      <4> TAKE k \in 1 .. Len(up)
      <4>1. CASE k = 1
        BY <3>1, <3>2, <3>3, <4>1
      <4>2. CASE k # 1
        <5>1. k \in 2 .. Len(up)
          BY <3>3, <4>2
        <5>2. up[k] \in (1 .. b - 1) \ Undeclared /\ types[up[k]].kind = "class"
          BY <3>3, <5>1
        <5> HIDE DEF up
        <5> QED BY <1>6, <3>2, <5>2
      <4> QED BY <4>1, <4>2
    <3>7. \A u \in 1 .. t - 1 : u \notin Undeclared => u \notin Undeclared' /\ types'[u].kind = types[u].kind
      BY <1>5, <1>6, <1>7
    <3> HIDE DEF up, line
    <3>8. Len(line) = Len(up) + 1 /\ Len(up) \in Nat /\ line[1] = t /\ \A k \in 2 .. Len(line) : line[k] = up[k - 1] /\ k - 1 \in 1 .. Len(up)
      BY <1>6, <3>3, <3>4
    <3>9. \A k \in 2 .. Len(line) : line[k] \in (1 .. t - 1) \ Undeclared' /\ types'[line[k]].kind = "class"
      <4> TAKE k \in 2 .. Len(line)
      <4>1. PICK j \in 1 .. Len(up) : line[k] = up[j]
        BY <3>8
      <4>2. up[j] \in (1 .. t - 1) \ Undeclared /\ types[up[j]].kind = "class"
        BY <3>6
      <4>3. up[j] \notin Undeclared' /\ types'[up[j]].kind = types[up[j]].kind
        BY <3>7, <4>2
      <4> QED BY <4>1, <4>2, <4>3
    <3>10. Len(line) > 0 /\ 2 \in 2 .. Len(line) /\ line[2] = b
      BY <3>3, <3>8
    <3> QED BY <3>4, <3>5, <3>8, <3>9, <3>10 DEF Lined
  <2> QED BY <1>3, <2>1, <2>2
<1>9. Stacked(t)'
  <2> DEFINE stack == <<t>> \o s
  <2>1. types'[t].stack = stack
    BY <1>3, <1>5
  <2>2. Len(stack) = Len(s) + 1 /\ Len(s) \in Nat /\ stack[1] = t /\ \A k \in 2 .. Len(stack) : stack[k] = s[k - 1] /\ k - 1 \in DOMAIN s
    BY <1>6
  <2> HIDE DEF stack
  <2>3. \A k \in 2 .. Len(stack) : stack[k] \in 1 .. t - 1 /\ types'[stack[k]].kind = "class"
    BY <1>5, <1>6, <2>2
  <2>4. Len(stack) > 0
    BY <2>2
  <2> QED BY <2>1, <2>2, <2>3, <2>4 DEF Stacked
<1>10. Extending(t)'
  <2>1. types'[t].kind = "class" /\ types'[t].ifaces = r.ifaces
    BY <1>3, <1>5
  <2>2. \A k \in DOMAIN r.ifaces : r.ifaces[k] \in 1 .. t - 1 /\ types'[r.ifaces[k]].kind = "iface"
    BY <1>3, <1>5, <1>6
  <2> QED BY <2>1, <2>2 DEF Extending
<1>11. Follows => MainFits'
  <2> SUFFICES ASSUME Follows PROVE MainFits'
    OBVIOUS
  <2>1. Settled \subseteq DOMAIN types /\ Settled' \subseteq DOMAIN types'
    <3>1. Settled \subseteq DOMAIN types
      BY <1>4, SettledIs
    <3> QED BY <1>5, <1>6, <3>1
  <2>2. ClassesIn(Settled) \subseteq ClassesIn(Settled)' /\ IfacesIn(Settled) \subseteq IfacesIn(Settled)'
    BY <1>4, <2>1, SettledFollow
  <2>3. AllFit(main, ClassesIn(Settled), IfacesIn(Settled), Len(objects))
    BY DEF IInv, MainFits
  <2>4. Len(objects) \in Nat /\ Len(objects) <= Len(objects)
    BY <1>4 DEF TypeOK
  <2>5. AllFit(main, ClassesIn(Settled)', IfacesIn(Settled)', Len(objects))
    BY <2>2, <2>3, <2>4, AllFitMore
  <2> QED BY <2>5 DEF MainFits
<1>12. /\ patched' = patched /\ rebound \subseteq rebound' /\ objects' = objects
       /\ \A n \in DOMAIN main :
            main[n].k = "class" => n \in rebound' \/ (n \in DOMAIN main' /\ main'[n] = main[n])
  OBVIOUS
<1>13. Settled \subseteq Settled' /\ Settled' \subseteq Settled \cup {t} /\ Undeclared \subseteq Undeclared'
       /\ Undeclared' \subseteq Undeclared \cup {t} /\ t \in Undeclared'
  BY <1>7
<1>14. types' = Append(types, r)
  BY <1>1
<1> QED BY <1>2, <1>3, <1>8, <1>9, <1>10, <1>11, <1>12, <1>13, <1>14, AppendStep

\* A step of a script that comes to nothing.
LEMMA NothingStep ==
  ASSUME IInv, Runs, UNCHANGED <<main, rebound, types, open, objects, status, patched, grown>>
  PROVE  IInv'
<1>1. open = <<>> /\ status = "ok" /\ TypeOK /\ main \in Tables /\ rebound \subseteq STRING
  BY DEF Runs, IInv, TypeOK
<1>2. objects' \in Seq(ObjectRecords) /\ After(objects, objects')
  BY <1>1, AfterSame
<1>3. AllFit(main', ClassesIn(DOMAIN types), IfacesIn(DOMAIN types), Len(objects'))
  BY <1>1, Outside
<1>4. main' = main /\ rebound' = rebound /\ status' = "ok"
  BY <1>1
<1>5. grown' \in BOOLEAN
  BY <1>1 DEF TypeOK
<1> QED BY <1>1, <1>2, <1>3, <1>4, <1>5, Ran

LEMMA DeclareClassKeeps ==
  ASSUME IInv, NEW d \in session.declarations, NEW by, DeclareClass(by, d)
  PROVE  IInv'
<1>1. /\ Runs /\ d.kind = "class" /\ (by = "" \/ by \in DOMAIN main)
      /\ UNCHANGED <<main, rebound, objects, status, patched, grown>>
  BY DEF DeclareClass
<1>2. open = <<>> /\ TypeOK /\ status = "ok"
  BY <1>1 DEF Runs, IInv
<1>3. CASE ~Valid(d, <<>>)
  <2>1. UNCHANGED <<types, open>>
    BY <1>3 DEF DeclareClass
  <2> QED BY <1>1, <2>1, NothingStep
<1>4. CASE Valid(d, <<>>)
  <2>1. types' = Append(types, NewDeclType(d, <<>>)) /\ open' = <<Begun(d, by)>>
    BY <1>4 DEF DeclareClass
  <2>2. d \in ClassDecls
    BY <1>1, <1>2, DeclarationAt
  <2>3. PICK s : s = <<>>
    OBVIOUS
  <2>4. s \in Seq(Nat) /\ DOMAIN s = {}
    BY <2>3
  <2>5. PICK t : t = Len(types) + 1
    OBVIOUS
  <2>6. PICK r : r = NewDeclType(d, s)
    OBVIOUS
  <2>7. NewClass(r, t, s) /\ Valid(d, s)
    BY <1>4, <2>2, <2>3, <2>4, <2>5, <2>6, NewDeclTypeIs
  <2>8. r \in TypeRecords /\ r.kind = "class" /\ r.stack = <<t>> \o s
    BY <2>7 DEF NewClass
  <2>9. types \in Seq(TypeRecords)
    BY <1>2 DEF TypeOK
  <2>10. types' = Append(types, r)
    BY <2>1, <2>3, <2>6
  <2>11. /\ types' \in Seq(TypeRecords) /\ DOMAIN types' = 1 .. t /\ DOMAIN types = 1 .. Len(types)
         /\ Len(types) \in Nat /\ types'[t] = r
    BY <2>5, <2>8, <2>9, <2>10, AppendedIs
  <2>12. PICK frame : frame = Begun(d, by)
    OBVIOUS
  <2>13. frame.t = t /\ frame.by = by /\ frame \in Frames
    <3>1. d.members \in Seq(Members)
      BY <2>2, ClassDeclFields
    <3>2. by \in {""} \cup STRING
      <4>1. DOMAIN main \subseteq STRING
        BY <1>2, TableHas DEF TypeOK
      <4> QED BY <1>1, <4>1
    <3>3. t \in Nat
      BY <2>5, <2>11
    <3>4. frame = [t |-> t, left |-> d.members, by |-> by]
      BY <2>5, <2>12 DEF Begun
    <3> QED BY <3>1, <3>2, <3>3, <3>4 DEF Frames
  <2>14. open' = <<frame>>
    BY <2>1, <2>12
  <2>15. open' \in Seq(Frames) /\ DOMAIN open' = {1} /\ open'[1] = frame /\ open' # <<>>
    BY <2>13, <2>14
  <2>16. Opened'
    <3>1. \A i \in DOMAIN open' : i = 1 /\ open'[i].t = t /\ open'[i].by = by
      BY <2>13, <2>15
    <3>2. t \in DOMAIN types' /\ types'[t].kind = "class" /\ types'[t].stack = <<t>> \o <<>>
      BY <2>3, <2>5, <2>8, <2>11
    <3>3. by \in {""} \cup DOMAIN main'
      BY <1>1
    <3>4. status' = "ok"
      BY <1>1, <1>2
    <3>5. ASSUME NEW i \in DOMAIN open'
          PROVE  /\ open'[i].t \in DOMAIN types' /\ types'[open'[i].t].kind = "class"
                 /\ open'[i].by \in {""} \cup DOMAIN main'
                 /\ types'[open'[i].t].stack =
                      <<open'[i].t>> \o (IF i = 1 THEN <<>> ELSE types'[open'[i - 1].t].stack)
                 /\ \A j \in 1 .. i - 1 : open'[j].t < open'[i].t
      <4>1. i = 1 /\ open'[i].t = t /\ open'[i].by = by
        BY <3>1
      <4>2. \A j \in 1 .. i - 1 : FALSE
        BY <4>1
      <4> QED BY <3>2, <3>3, <4>1, <4>2
    <3> QED BY <3>4, <3>5 DEF Opened
  <2>17. Settled = 1 .. Len(types) /\ Undeclared = {}
    BY <1>2, <2>11, Outside
  <2>18. Settled' = Settled
    <3>1. Settled' = 1 .. t - 1
      BY <2>13, <2>15 DEF Settled
    <3>2. t - 1 = Len(types)
      BY <2>5, <2>11
    <3> QED BY <2>17, <3>1, <3>2
  <2>19. Undeclared' = Undeclared \cup {Len(types) + 1}
    <3>1. Undeclared' = {t}
      BY <2>13, <2>15 DEF Undeclared
    <3> QED BY <2>5, <2>17, <3>1
  <2>20. TypeOK'
    <3>1. fuel' \in Int /\ session' \in Sessions
      <4>1. fuel \in Int /\ session \in Sessions
        BY <1>2 DEF TypeOK
      <4>2. fuel' = fuel - 1 /\ session' = session
        BY <1>1 DEF Runs
      <4> QED BY <4>1, <4>2
    <3> QED BY <1>1, <1>2, <2>11, <2>15, <3>1 DEF TypeOK
  <2>21. types' = Append(types, NewDeclType(d, s))
    BY <2>1, <2>3
  <2>22. UNCHANGED <<main, rebound, patched, objects>> /\ status' = "ok"
    BY <1>1, <1>2
  <2>23. \A j \in DOMAIN s : s[j] \in DOMAIN types /\ types[s[j]].kind = "class"
    BY <2>4
  <2> QED BY <2>2, <2>4, <2>7, <2>16, <2>18, <2>19, <2>20, <2>21, <2>22, <2>23, ClassBegun
<1> QED BY <1>3, <1>4

\* The classes under declaration, and the innermost of them a member further.
LEMMA FramesAre ==
  ASSUME IInv, open # <<>>, NEW n, n = Len(open)
  PROVE  /\ n \in Nat \ {0} /\ DOMAIN open = 1 .. n /\ Inner = open[n] /\ Inner \in Frames
         /\ Inner.t \in DOMAIN types /\ types[Inner.t].kind = "class" /\ status = "ok"
         /\ Upper \in Seq(Frames) /\ Len(Upper) = n - 1 /\ DOMAIN Upper = 1 .. n - 1
         /\ \A i \in 1 .. n - 1 : Upper[i] = open[i]
         /\ Inner.left # <<>> => /\ Further \in Frames /\ Further.t = Inner.t /\ Further.by = Inner.by
                                 /\ Head(Inner.left) \in Members
<1>1. open \in Seq(Frames) /\ Opened
  BY DEF IInv, TypeOK
<1>2. n \in Nat \ {0} /\ DOMAIN open = 1 .. n /\ n \in DOMAIN open
  BY <1>1
<1>3. Inner = open[n] /\ Inner \in Frames
  BY <1>1, <1>2 DEF Inner
<1>4. Inner.t \in DOMAIN types /\ types[Inner.t].kind = "class" /\ status = "ok"
  BY <1>1, <1>2, <1>3 DEF Opened
<1>5. /\ Upper \in Seq(Frames) /\ Len(Upper) = n - 1 /\ DOMAIN Upper = 1 .. n - 1
      /\ \A i \in 1 .. n - 1 : Upper[i] = open[i]
  <2>1. Upper = SubSeq(open, 1, n - 1)
    BY DEF Upper
  <2> QED BY <1>1, <1>2, <2>1
<1>6. ASSUME Inner.left # <<>>
      PROVE  Further \in Frames /\ Further.t = Inner.t /\ Further.by = Inner.by /\ Head(Inner.left) \in Members
  <2> DEFINE left == Inner.left
             f == Inner
  <2>1. f \in Frames /\ left \in Seq(Members) /\ left # <<>> /\ left = f.left
    BY <1>3, <1>6, FrameFields
  <2>2. Further = [f EXCEPT !.left = Tail(f.left)]
    BY DEF Further
  <2> HIDE DEF left, f
  <2>3. Tail(left) \in Seq(Members) /\ Head(left) \in Members
    BY <2>1
  <2>4. Further \in Frames /\ Further.t = f.t /\ Further.by = f.by
    BY <2>1, <2>2, <2>3 DEF Frames
  <2> QED BY <2>3, <2>4 DEF left, f
<1> QED BY <1>2, <1>3, <1>4, <1>5, <1>6

\* An exception leaves what there was before the declaration.
LEMMA ThrownKeeps ==
  ASSUME IInv, Declaring, Thrown
  PROVE  IInv'
<1>1. /\ open # <<>> /\ UNCHANGED <<session, objects, status, fuel, patched, grown>>
      /\ open' = <<>> /\ UNCHANGED <<main, rebound>>
  BY DEF Declaring, Thrown
<1>2. TypeOK /\ Formed /\ Opened /\ MainFits /\ TablesFit /\ AllFulfil
  BY DEF IInv
<1>3. PICK c : c = open[1].t - 1
  OBVIOUS
<1>4. /\ Settled = 1 .. c /\ Settled \subseteq Whole /\ DOMAIN types = 1 .. Len(types) /\ Len(types) \in Nat
      /\ c \in 0 .. Len(types) /\ Settled \subseteq DOMAIN types /\ Whole \subseteq DOMAIN types
  BY <1>1, <1>2, <1>3, SettledIs
<1>5. types' = SubSeq(types, 1, c)
  BY <1>3 DEF Thrown
<1>6. /\ types' \in Seq(TypeRecords) /\ Len(types') = c /\ DOMAIN types' = 1 .. c
      /\ \A t \in 1 .. c : types'[t] = types[t]
  <2>1. types \in Seq(TypeRecords)
    BY <1>2 DEF TypeOK
  <2> QED BY <1>4, <1>5, <2>1
<1>7. DOMAIN open' = {}
  BY <1>1
<1>8. Undeclared' = {} /\ Settled' = Settled /\ Whole' = Settled
  <2>1. Undeclared' = {}
    BY <1>7 DEF Undeclared
  <2>2. Settled' = 1 .. c
    BY <1>1, <1>6 DEF Settled
  <2> QED BY <1>4, <1>6, <2>1, <2>2 DEF Whole
<1>9. TypeOK'
  <2>1. open' \in Seq(Frames)
    BY <1>1
  <2> QED BY <1>1, <1>2, <1>6, <2>1 DEF TypeOK
<1>10. Follows
  BY <1>1, <1>6, <1>8 DEF Follows
<1>11. Formed'
  <2>1. \A t \in DOMAIN types' : t \in DOMAIN types \cap DOMAIN types'
    BY <1>4, <1>6
  <2> QED BY <1>2, <1>9, <1>10, <2>1, FormedFollows DEF Formed
<1>12. Opened'
  BY <1>1, <1>7 DEF Opened
<1>13. Settled \subseteq Settled' /\ Settled' \subseteq DOMAIN types' /\ objects' = objects /\ status' = "ok"
  <2>1. status = "ok"
    BY <1>1, <1>2 DEF Opened
  <2> QED BY <1>1, <1>4, <1>6, <1>8, <2>1
<1>14. ClassesIn(Settled) \subseteq ClassesIn(Settled)' /\ IfacesIn(Settled) \subseteq IfacesIn(Settled)'
  BY <1>2, <1>4, <1>9, <1>10, <1>13, SettledFollow
<1>15. Len(objects) \in Nat /\ Len(objects) <= Len(objects)
  BY <1>2 DEF TypeOK
<1>16. \A table : AllFit(table, ClassesIn(Settled), IfacesIn(Settled), Len(objects)) =>
                    AllFit(table, ClassesIn(Settled)', IfacesIn(Settled)', Len(objects))
  BY <1>14, <1>15, AllFitMore
<1>17. MainFits'
  BY <1>1, <1>2, <1>16 DEF MainFits
<1>18. TablesFit'
  <2>1. \A t \in Settled : AllFit(types'[t].table, ClassesIn(Settled)', IfacesIn(Settled)', Len(objects))
    BY <1>2, <1>4, <1>6, <1>16 DEF TablesFit
  <2>2. ClassesIn(Whole)' = ClassesIn(Settled)' /\ IfacesIn(Whole)' = IfacesIn(Settled)'
    BY <1>8 DEF ClassesIn, IfacesIn
  <2>3. DOMAIN types' = Settled
    BY <1>4, <1>6
  <2> QED BY <1>1, <1>8, <2>1, <2>2, <2>3 DEF TablesFit
<1>19. AllFulfil'
  <2> SUFFICES ASSUME NEW t \in Settled PROVE Fulfils(t)'
    BY <1>8 DEF AllFulfil
  <2>1. t \in DOMAIN types \cap DOMAIN types' /\ Fulfils(t)
    BY <1>2, <1>4, <1>6 DEF AllFulfil
  <2>2. \A k \in DOMAIN types[t].line : types'[types[t].line[k]].table = types[types[t].line[k]].table
    <3> TAKE k \in DOMAIN types[t].line
    <3>1. k = 1 \/ types[t].line[k] \in 1 .. t - 1
      BY <1>2, <2>1, OnLine
    <3>2. t \in 1 .. c /\ types[t].line[1] = t
      BY <1>2, <1>4, <2>1 DEF Formed, Lined
    <3>3. types[t].line[k] \in 1 .. c
      BY <1>4, <3>1, <3>2
    <3> QED BY <1>6, <3>3
  <2> QED BY <1>2, <1>9, <1>10, <2>1, <2>2, FulfilsFollows
<1>20. \A t \in Settled : DOMAIN types[t].table \subseteq DOMAIN types'[t].table
  BY <1>4, <1>6
<1> QED BY <1>9, <1>10, <1>11, <1>12, <1>13, <1>17, <1>18, <1>19, <1>20, TypesStep

LEMMA MemberFields ==
  ASSUME NEW m \in Members
  PROVE  /\ m.kind \in {"method", "marked", "var", "bare", "marked class", "class"}
         /\ m.kind # "class" => m.name \in STRING
         /\ m.kind \in {"method", "marked"} => m.f \in DOMAIN Shapes
         /\ m.kind = "class" => m.decl \in ClassDecls
<1>1. CASE m \in Methods
  BY <1>1 DEF Methods, Scripted
<1>2. CASE m \in [kind : {"marked"}, by : STRING, name : STRING, f : Scripted]
  BY <1>2 DEF Scripted
<1>3. CASE m \in [kind : {"var"}, name : STRING, from : STRING]
  BY <1>3
<1>4. CASE m \in [kind : {"bare", "marked class"}, name : STRING]
  BY <1>4
<1>5. CASE m \in [kind : {"class"}, decl : {d \in Declarations : d.kind = "class"}]
  <2>1. m.kind = "class" /\ m.decl \in Declarations /\ m.decl.kind = "class"
    BY <1>5
  <2>2. \A d \in IfaceDecls \cup FuncDecls : d.kind # "class"
    BY DEF IfaceDecls, FuncDecls
  <2> QED BY <2>1, <2>2, DeclarationsAssumption
<1> QED BY <1>1, <1>2, <1>3, <1>4, <1>5 DEF Members

\* What a member of a class comes to, fits.
LEMMA MemberValueFits ==
  ASSUME IInv, open # <<>>, NEW m \in Members
  PROVE  /\ MemberValue(m) \in Values \cup {Nothing}
         /\ Fits(MemberValue(m), ClassesIn(Whole), IfacesIn(Whole), Len(objects))
<1> DEFINE C == ClassesIn(Whole)
           I == IfacesIn(Whole)
           n == Len(objects)
           stack == types[Inner.t].stack
           around == Tail(stack)
           v == MemberValue(m)
<1>1. TypeOK /\ Formed /\ n \in Nat
  BY DEF IInv, TypeOK
<1>2. Inner.t \in DOMAIN types
  <2>1. PICK k : k = Len(open)
    OBVIOUS
  <2> QED BY <2>1, FramesAre
<1>3. around \in Seq(Nat) /\ \A j \in DOMAIN around : around[j] \in DOMAIN types
  <2>1. /\ stack \in Seq(Nat) /\ Len(stack) \in Nat /\ (Len(stack) = 1 \/ Len(stack) > 1)
        /\ \A j \in DOMAIN stack : stack[j] \in DOMAIN types
    BY <1>1, <1>2, StackAt
  <2> HIDE DEF stack
  <2>2. \A l \in Nat : l = 1 \/ l > 1 => l # 0
    OBVIOUS
  <2>3. stack # <<>>
    BY <2>1, <2>2
  <2>4. around \in Seq(Nat) /\ Len(around) = Len(stack) - 1 /\ \A j \in 1 .. Len(stack) - 1 : around[j] = stack[j + 1]
    BY <2>1, <2>3
  <2> HIDE DEF around
  <2>5. \A j \in DOMAIN around : j \in 1 .. Len(stack) - 1 /\ j + 1 \in DOMAIN stack
    BY SMTT(30), <2>1, <2>4
  <2> QED BY <2>1, <2>4, <2>5
<1>4. v = IF m.kind = "method" THEN Val("func", m.f)
          ELSE IF m.kind = "marked" THEN Decorated(Lookup(around, m.by), Val("func", m.f))
          ELSE IF m.kind = "var" THEN Lookup(around, m.from) ELSE Nothing
  BY DEF MemberValue
<1> HIDE DEF around
<1>5. \A a : Lookup(around, a) \in Values \cup {Nothing} /\ Fits(Lookup(around, a), C, I, n)
  BY <1>3, LookupInside
<1> HIDE DEF C, I, n, v
<1>6. m.kind \in {"method", "marked"} => Val("func", m.f) \in Values /\ Fits(Val("func", m.f), C, I, n)
  <2> SUFFICES ASSUME m.kind \in {"method", "marked"}
               PROVE  Val("func", m.f) \in Values /\ Fits(Val("func", m.f), C, I, n)
    OBVIOUS
  <2>1. m.f \in DOMAIN Shapes
    BY MemberFields
  <2>2. "func" \in Kinds /\ m.f \in Int
    BY <2>1, ShapeAt DEF Kinds
  <2> QED BY <1>1, <2>1, <2>2, ValIsValue, FitsPlain
<1>7. Fits(Nothing, C, I, n)
  BY <1>1, FitsPlain
<1>8. CASE m.kind = "method"
  BY <1>4, <1>6, <1>8 DEF v, C, I, n
<1>9. CASE m.kind = "marked"
  <2>1. v = Decorated(Lookup(around, m.by), Val("func", m.f))
    BY <1>4, <1>9
  <2>2. CASE Lookup(around, m.by) = Nothing
    <3>1. Nothing.k # "func"
      BY DEF Nothing, Val
    <3>2. v = Nothing
      BY <2>1, <2>2, <3>1 DEF Decorated
    <3> QED BY <1>7, <3>2 DEF v, C, I, n
  <2>3. CASE Lookup(around, m.by) # Nothing
    <3>1. Lookup(around, m.by) \in Values
      BY <1>5, <2>3
    <3>2. v \in Values \cup {Nothing} /\ Fits(v, C, I, n)
      BY <1>1, <1>5, <1>6, <1>9, <2>1, <3>1, DecoratedFits
    <3> QED BY <3>2 DEF v, C, I, n
  <2> QED BY <2>2, <2>3
<1>10. CASE m.kind = "var"
  BY <1>4, <1>5, <1>10 DEF v, C, I, n
<1>11. CASE m.kind \notin {"method", "marked", "var"}
  BY <1>4, <1>7, <1>11 DEF v, C, I, n
<1> QED BY <1>8, <1>9, <1>10, <1>11

\* A step of a declaration that adds to the attributes of the class u, which is
\* under declaration and stays so.
LEMMA OpenStep ==
  ASSUME IInv, TypeOK', NEW u \in Undeclared, u \in Undeclared', DOMAIN types' = DOMAIN types,
         \A t \in DOMAIN types :
           /\ types'[t].name = types[t].name /\ types'[t].kind = types[t].kind
           /\ types'[t].line = types[t].line /\ types'[t].ifaces = types[t].ifaces
           /\ types'[t].abstract = types[t].abstract /\ types'[t].stack = types[t].stack
           /\ types'[t].methods = types[t].methods
           /\ t # u => types'[t].table = types[t].table,
         \A a \in DOMAIN types[u].table : a \in DOMAIN types'[u].table /\ types'[u].table[a] = types[u].table[a],
         Opened', Settled' = Settled, Undeclared' \subseteq Undeclared,
         \A t \in Whole' \ Whole : Compatible(t),
         Follows /\ ClassesIn(Whole) \subseteq ClassesIn(Whole)' /\ IfacesIn(Whole) \subseteq IfacesIn(Whole)' =>
           AllFit(types'[u].table, ClassesIn(Whole)', IfacesIn(Whole)', Len(objects)),
         UNCHANGED <<main, rebound, patched, objects>>, status' = "ok"
  PROVE  IInv'
<1> DEFINE n == Len(objects)
<1>1. TypeOK /\ Formed /\ Opened /\ MainFits /\ TablesFit /\ AllFulfil /\ n \in Nat /\ n <= n
  BY DEF IInv, TypeOK
<1>2. /\ Settled \subseteq DOMAIN types /\ Whole \subseteq DOMAIN types /\ u \in DOMAIN types /\ u \notin Settled
      /\ Settled \subseteq Whole
  BY <1>1, SettledIs
<1>3. Whole \subseteq Whole' /\ \A t \in Whole' : t \in DOMAIN types /\ t # u
  BY DEF Whole
<1>4. Follows
  <2>1. \A t \in DOMAIN types : \A a \in DOMAIN types[t].table :
          a \in DOMAIN types'[t].table /\ types'[t].table[a] = types[t].table[a]
    OBVIOUS
  <2> QED BY <2>1 DEF Follows
<1>5. ClassesIn(Settled) \subseteq ClassesIn(Settled)' /\ IfacesIn(Settled) \subseteq IfacesIn(Settled)'
  <2>1. Settled \subseteq Settled' /\ Settled' \subseteq DOMAIN types'
    BY <1>2
  <2> QED BY <1>1, <1>2, <1>4, <2>1, SettledFollow
<1>6. ClassesIn(Whole) \subseteq ClassesIn(Whole)' /\ IfacesIn(Whole) \subseteq IfacesIn(Whole)'
  <2>1. PICK T : T = Whole
    OBVIOUS
  <2>2. T \subseteq DOMAIN types /\ T \subseteq Whole'
    BY <1>2, <1>3, <2>1
  <2>3. ClassesIn(T) \subseteq ClassesIn(Whole)' /\ IfacesIn(T) \subseteq IfacesIn(Whole)'
    BY <1>1, <1>4, <2>2, WholeFollow
  <2> QED BY <2>1, <2>3
<1>7. AllFit(types'[u].table, ClassesIn(Whole)', IfacesIn(Whole)', n)
  BY <1>4, <1>6
<1>8. Formed'
  BY <1>1, <1>4, FormedFollows DEF Formed
<1>9. MainFits'
  <2>1. AllFit(main, ClassesIn(Settled), IfacesIn(Settled), n)
    BY <1>1 DEF MainFits
  <2> HIDE DEF n
  <2>2. AllFit(main, ClassesIn(Settled)', IfacesIn(Settled)', n)
    BY <1>1, <1>5, <2>1, AllFitMore
  <2> QED BY <2>2 DEF MainFits, n
<1>10. TablesFit'
  <2>1. ASSUME NEW t \in Settled PROVE AllFit(types'[t].table, ClassesIn(Settled)', IfacesIn(Settled)', n)
    <3>1. AllFit(types[t].table, ClassesIn(Settled), IfacesIn(Settled), n) /\ types'[t].table = types[t].table
      BY <1>1, <1>2 DEF TablesFit
    <3> HIDE DEF n
    <3> QED BY <1>1, <1>5, <3>1, AllFitMore
  <2>2. ASSUME NEW t \in DOMAIN types PROVE AllFit(types'[t].table, ClassesIn(Whole)', IfacesIn(Whole)', n)
    <3>1. CASE t = u
      BY <1>7, <3>1
    <3>2. CASE t # u
      <4>1. AllFit(types[t].table, ClassesIn(Whole), IfacesIn(Whole), n) /\ types'[t].table = types[t].table
        BY <1>1, <3>2 DEF TablesFit
      <4> HIDE DEF n
      <4> QED BY <1>1, <1>6, <4>1, AllFitMore
    <3> QED BY <3>1, <3>2
  <2> QED BY <2>1, <2>2 DEF TablesFit
<1>11. AllFulfil'
  <2> SUFFICES ASSUME NEW t \in Whole' PROVE Fulfils(t)'
    BY DEF AllFulfil
  <2>1. Fulfils(t)
    <3>1. CASE t \in Whole
      BY <1>1, <3>1 DEF AllFulfil
    <3>2. CASE t \notin Whole
      BY <3>2 DEF Fulfils
    <3> QED BY <3>1, <3>2
  <2>2. t \in DOMAIN types \cap DOMAIN types' /\ t # u
    BY <1>3
  <2>3. \A k \in DOMAIN types[t].line : types'[types[t].line[k]].table = types[types[t].line[k]].table
    <3> TAKE k \in DOMAIN types[t].line
    <3>1. /\ types[t].line[k] \in DOMAIN types
          /\ k = 1 \/ types[t].line[k] \notin Undeclared
      BY <1>1, <2>2, OnLine
    <3>2. types[t].line[1] = t
      BY <1>1, <2>2 DEF Formed, Lined
    <3>3. types[t].line[k] # u
      BY <2>2, <3>1, <3>2
    <3> QED BY <3>1, <3>3
  <2> QED BY <1>1, <1>4, <2>1, <2>2, <2>3, FulfilsFollows
<1>12. \A t \in Settled : DOMAIN types[t].table \subseteq DOMAIN types'[t].table
  BY <1>2
<1>13. Settled \subseteq Settled' /\ Settled' \subseteq DOMAIN types' /\ objects' = objects
  BY <1>2
<1> QED BY <1>4, <1>8, <1>9, <1>10, <1>11, <1>12, <1>13, TypesStep

\* The classes under declaration are the same, each a member further at most.
LEMMA SameFrames ==
  ASSUME IInv, open # <<>>, Inner.left # <<>>, open' = Append(Upper, Further)
  PROVE  /\ open' \in Seq(Frames) /\ DOMAIN open' = DOMAIN open /\ open' # <<>>
         /\ \A i \in DOMAIN open : open'[i].t = open[i].t /\ open'[i].by = open[i].by
         /\ Undeclared' = Undeclared /\ Settled' = Settled /\ Inner.t \in Undeclared
<1>1. PICK n : n = Len(open)
  OBVIOUS
<1>2. /\ n \in Nat \ {0} /\ DOMAIN open = 1 .. n /\ Inner = open[n]
      /\ Upper \in Seq(Frames) /\ Len(Upper) = n - 1 /\ DOMAIN Upper = 1 .. n - 1
      /\ \A i \in 1 .. n - 1 : Upper[i] = open[i]
      /\ Further \in Frames /\ Further.t = Inner.t /\ Further.by = Inner.by
  BY <1>1, FramesAre
<1>3. PICK up : up = Upper
  OBVIOUS
<1>4. PICK f : f = Further
  OBVIOUS
<1>5. open' = Append(up, f) /\ up \in Seq(Frames) /\ f \in Frames /\ Len(up) = n - 1
  BY <1>2, <1>3, <1>4
<1>6. /\ open' \in Seq(Frames) /\ DOMAIN open' = 1 .. n /\ open'[n] = f
      /\ \A i \in 1 .. n - 1 : open'[i] = up[i]
  BY <1>2, <1>5
<1>7. \A i \in 1 .. n : open'[i].t = open[i].t /\ open'[i].by = open[i].by
  <2> TAKE i \in 1 .. n
  <2>1. i = n \/ i \in 1 .. n - 1
    BY <1>2
  <2> QED BY <1>2, <1>3, <1>4, <1>6, <2>1
<1>8. 1 \in DOMAIN open /\ n \in DOMAIN open /\ open' # <<>>
  <2>1. 1 \in 1 .. n /\ n \in 1 .. n
    BY <1>2
  <2> QED BY <1>2, <1>6, <2>1
<1>9. Undeclared' = Undeclared /\ Inner.t \in Undeclared
  BY <1>2, <1>6, <1>7, <1>8 DEF Undeclared
<1>10. Settled' = Settled
  <2>1. Settled = 1 .. open[1].t - 1 /\ Settled' = 1 .. open'[1].t - 1
    BY <1>8 DEF Settled
  <2> QED BY <1>2, <1>7, <1>8, <2>1
<1> QED BY <1>2, <1>6, <1>7, <1>8, <1>9, <1>10

\* The tables of types without one table changed.
LEMMA SameTypes ==
  ASSUME TypeOK, types' = types
  PROVE  /\ types' \in Seq(TypeRecords) /\ DOMAIN types' = DOMAIN types
         /\ \A t \in DOMAIN types : types'[t] = types[t]
BY DEF TypeOK

\* A class under declaration stays where it stands.
OpenAt(i) ==
  /\ open[i].t \in DOMAIN types /\ types[open[i].t].kind = "class"
  /\ open[i].by \in {""} \cup DOMAIN main
  /\ types[open[i].t].stack =
       <<open[i].t>> \o (IF i = 1 THEN <<>> ELSE types[open[i - 1].t].stack)
  /\ \A j \in 1 .. i - 1 : open[j].t < open[i].t

LEMMA OpenAtStays ==
  ASSUME TypeOK, Opened, NEW i \in DOMAIN open,
         \A j \in 1 .. i : open'[j].t = open[j].t, open'[i].by = open[i].by, main' = main,
         \A t \in DOMAIN types :
           t \in DOMAIN types' /\ types'[t].kind = types[t].kind /\ types'[t].stack = types[t].stack
  PROVE  OpenAt(i)'
<1>1. i \in Nat \ {0} /\ \A j \in 1 .. i : j \in DOMAIN open
  <2>1. open \in Seq(Frames)
    BY DEF TypeOK
  <2> QED BY <2>1
<1>2. /\ open[i].t \in DOMAIN types /\ types[open[i].t].kind = "class"
      /\ open[i].by \in {""} \cup DOMAIN main
      /\ types[open[i].t].stack = <<open[i].t>> \o (IF i = 1 THEN <<>> ELSE types[open[i - 1].t].stack)
      /\ \A j \in 1 .. i - 1 : open[j].t < open[i].t
  BY DEF Opened
<1>3. i \in 1 .. i /\ \A j \in 1 .. i - 1 : j \in 1 .. i
  BY <1>1
<1>4. open'[i].t = open[i].t /\ \A j \in 1 .. i - 1 : open'[j].t = open[j].t
  BY <1>3
<1>5. types'[open[i].t].stack = types[open[i].t].stack /\ types'[open[i].t].kind = "class"
      /\ open[i].t \in DOMAIN types'
  BY <1>2
<1>6. types'[open'[i].t].stack = <<open'[i].t>> \o (IF i = 1 THEN <<>> ELSE types'[open'[i - 1].t].stack)
  <2>1. CASE i = 1
    BY <1>2, <1>4, <1>5, <2>1
  <2>2. CASE i # 1
    <3>1. i - 1 \in 1 .. i /\ i - 1 \in DOMAIN open
      BY <1>1, <2>2
    <3>2. open'[i - 1].t = open[i - 1].t /\ open[i - 1].t \in DOMAIN types
      BY <3>1 DEF Opened
    <3>3. types'[open[i - 1].t].stack = types[open[i - 1].t].stack
      BY <3>2
    <3> QED BY <1>2, <1>4, <1>5, <2>2, <3>2, <3>3
  <2> QED BY <2>1, <2>2
<1>7. \A j \in 1 .. i - 1 : open'[j].t < open'[i].t
  BY <1>2, <1>4
<1> QED BY <1>2, <1>4, <1>5, <1>6, <1>7 DEF OpenAt

LEMMA ExecMemberKeeps ==
  ASSUME IInv, ExecMember
  PROVE  IInv'
<1> DEFINE C == ClassesIn(Whole)
           I == IfacesIn(Whole)
<1>1. PICK m : m = Head(Inner.left)
  OBVIOUS
<1>2. PICK v : v = MemberValue(m)
  OBVIOUS
<1>3. PICK n : n = Len(open)
  OBVIOUS
<1>4. Declaring /\ Inner.left # <<>> /\ m.kind # "class"
  BY <1>1 DEF ExecMember
<1>5. /\ open # <<>> /\ UNCHANGED <<session, objects, status, fuel, patched, grown>>
  BY <1>4 DEF Declaring
<1>6. /\ n \in Nat \ {0} /\ DOMAIN open = 1 .. n /\ Inner = open[n]
      /\ Inner.t \in DOMAIN types /\ types[Inner.t].kind = "class" /\ status = "ok" /\ m \in Members
  BY <1>1, <1>3, <1>4, <1>5, FramesAre
<1>7. CASE m.kind # "bare" /\ v = Nothing
  <2>1. Thrown
    BY <1>1, <1>2, <1>7 DEF ExecMember
  <2> QED BY <1>4, <2>1, ThrownKeeps
<1>8. CASE ~(m.kind # "bare" /\ v = Nothing)
  <2>1. PICK u : u = Inner.t
    OBVIOUS
  <2>2. PICK T : T = IF m.kind = "bare" THEN types[u].table ELSE Registered(types[u].table, m.name, v)
    OBVIOUS
  <2>3. /\ types' = (IF m.kind = "bare" THEN types
                     ELSE [types EXCEPT ![Inner.t].table = Registered(@, m.name, v)])
        /\ open' = Append(Upper, Further) /\ UNCHANGED <<main, rebound>>
    BY <1>1, <1>2, <1>8 DEF ExecMember
  <2>4. TypeOK /\ Formed /\ Opened /\ types \in Seq(TypeRecords) /\ Len(objects) \in Nat
    BY DEF IInv, TypeOK
  <2>5. /\ open' \in Seq(Frames) /\ DOMAIN open' = DOMAIN open /\ open' # <<>>
        /\ \A i \in DOMAIN open : open'[i].t = open[i].t /\ open'[i].by = open[i].by
        /\ Undeclared' = Undeclared /\ Settled' = Settled /\ Inner.t \in Undeclared
    BY <1>4, <1>5, <2>3, SameFrames
  <2>6. u \in DOMAIN types /\ types[u].table \in Tables /\ AllFit(types[u].table, C, I, Len(objects))
    BY <1>6, <2>1, <2>4, TypeAt DEF IInv, TablesFit
  <2>7. v \in Values \cup {Nothing} /\ Fits(v, C, I, Len(objects))
    BY <1>2, <1>5, <1>6, MemberValueFits
  <2>8. m.name \in STRING
    BY <1>4, <1>6, MemberFields
  <2> HIDE DEF C, I
  <2>9. T \in Tables /\ AllFit(T, C, I, Len(objects))
    <3>1. CASE m.kind = "bare"
      BY <2>2, <2>6, <3>1
    <3>2. CASE m.kind # "bare"
      <4>1. T = Registered(types[u].table, m.name, v) /\ v \in Values
        BY <1>8, <2>2, <2>7, <3>2
      <4>2. PICK table : table = types[u].table
        OBVIOUS
      <4>3. table \in Tables /\ AllFit(table, C, I, Len(objects)) /\ T = Registered(table, m.name, v)
        BY <2>6, <4>1, <4>2
      <4>4. T \in Tables
        <5>1. PICK name : name = m.name
          OBVIOUS
        <5>2. name \in STRING /\ v \in Values /\ T = Registered(table, name, v)
          BY <2>8, <4>1, <4>3, <5>1
        <5>3. table \in Tables
          BY <4>3
        <5>4. Registered(table, name, v) \in Tables
          BY <5>2, <5>3, TableRegistered
        <5> QED BY <5>2, <5>4
      <4>5. AllFit(T, C, I, Len(objects))
        BY <2>4, <2>7, <2>8, <4>1, <4>3, TablesKeepFit
      <4> QED BY <4>4, <4>5
    <3> QED BY <3>1, <3>2
  <2>10. \A a \in DOMAIN types[u].table : a \in DOMAIN T /\ T[a] = types[u].table[a]
    BY <2>2 DEF Registered
  <2>11. /\ types' \in Seq(TypeRecords) /\ DOMAIN types' = DOMAIN types
         /\ \A t \in DOMAIN types :
              /\ types'[t].name = types[t].name /\ types'[t].kind = types[t].kind
              /\ types'[t].line = types[t].line /\ types'[t].ifaces = types[t].ifaces
              /\ types'[t].abstract = types[t].abstract /\ types'[t].stack = types[t].stack
              /\ types'[t].methods = types[t].methods
         /\ \A t \in DOMAIN types : types'[t].table = IF t = u THEN T ELSE types[t].table
    <3>1. CASE m.kind = "bare"
      <4>1. types' = types /\ T = types[u].table
        BY <2>2, <2>3, <3>1
      <4>2. /\ types' \in Seq(TypeRecords) /\ DOMAIN types' = DOMAIN types
            /\ \A t \in DOMAIN types : types'[t] = types[t]
        BY <2>4, <4>1, SameTypes
      <4> QED BY <4>1, <4>2
    <3>2. CASE m.kind # "bare"
      <4>1. types' = WithTable(types, u, T)
        BY <2>1, <2>2, <2>3, <3>2 DEF WithTable
      <4>2. T \in Tables
        BY <2>9
      <4>3. OnlyTable(types, types', u, T)
        BY <2>4, <2>6, <4>1, <4>2, TableSet
      <4> QED BY <4>3 DEF OnlyTable
    <3> QED BY <3>1, <3>2
  <2>12. TypeOK'
    BY <1>5, <2>3, <2>4, <2>5, <2>11 DEF TypeOK
  <2>13. Opened'
    <3>1. status' = "ok" /\ main' = main
      BY <1>5, <1>6, <2>3
    <3>2. ASSUME NEW i \in DOMAIN open' PROVE OpenAt(i)'
      <4>1. i \in DOMAIN open /\ \A j \in 1 .. i : j \in DOMAIN open
        BY <1>6, <2>5
      <4>2. /\ \A j \in 1 .. i : open'[j].t = open[j].t
            /\ open'[i].by = open[i].by
        BY <2>5, <4>1
      <4>3. \A t \in DOMAIN types :
              t \in DOMAIN types' /\ types'[t].kind = types[t].kind /\ types'[t].stack = types[t].stack
        BY <2>11
      <4> QED BY <2>4, <3>1, <4>1, <4>2, <4>3, OpenAtStays
    <3> QED BY <3>1, <3>2 DEF Opened, OpenAt
  <2>14. Whole' = Whole
    BY <2>5, <2>11 DEF Whole
  <2>15. ClassesIn(Whole) \subseteq ClassesIn(Whole)' /\ IfacesIn(Whole) \subseteq IfacesIn(Whole)' =>
           AllFit(types'[u].table, ClassesIn(Whole)', IfacesIn(Whole)', Len(objects))
    <3> SUFFICES ASSUME ClassesIn(Whole) \subseteq ClassesIn(Whole)', IfacesIn(Whole) \subseteq IfacesIn(Whole)'
                 PROVE  AllFit(types'[u].table, ClassesIn(Whole)', IfacesIn(Whole)', Len(objects))
      OBVIOUS
    <3>1. C \subseteq ClassesIn(Whole)' /\ I \subseteq IfacesIn(Whole)'
      BY DEF C, I
    <3>2. types'[u].table = T
      BY <2>6, <2>11
    <3>3. Len(objects) <= Len(objects)
      BY <2>4
    <3> QED BY <2>4, <2>9, <3>1, <3>2, <3>3, AllFitMore
  <2>16. u \in Undeclared /\ u \in Undeclared' /\ Undeclared' \subseteq Undeclared
    BY <2>1, <2>5
  <2>17. \A a \in DOMAIN types[u].table : a \in DOMAIN types'[u].table /\ types'[u].table[a] = types[u].table[a]
    BY <2>6, <2>10, <2>11
  <2>18. UNCHANGED <<main, rebound, patched, objects>> /\ status' = "ok" /\ \A t \in Whole' \ Whole : Compatible(t)
    BY <1>5, <1>6, <2>3, <2>14
  <2>19. \A t \in DOMAIN types :
           /\ types'[t].name = types[t].name /\ types'[t].kind = types[t].kind
           /\ types'[t].line = types[t].line /\ types'[t].ifaces = types[t].ifaces
           /\ types'[t].abstract = types[t].abstract /\ types'[t].stack = types[t].stack
           /\ types'[t].methods = types[t].methods
           /\ t # u => types'[t].table = types[t].table
    BY <2>11
  <2> QED BY <2>5, <2>11, <2>12, <2>13, <2>15, <2>16, <2>17, <2>18, <2>19, OpenStep
<1> QED BY <1>7, <1>8

\* The row out is up, which has n - 1 members, and f and g.
Followed(out, up, f, g, n, S) ==
  /\ out \in Seq(S) /\ DOMAIN out = 1 .. n + 1 /\ out[n] = f /\ out[n + 1] = g
  /\ \A i \in 1 .. n - 1 : out[i] = up[i]

LEMMA TwoMore ==
  ASSUME NEW S, NEW up \in Seq(S), NEW f \in S, NEW g \in S, NEW n \in Nat \ {0}, Len(up) = n - 1,
         NEW out, out = up \o <<f, g>>
  PROVE  Followed(out, up, f, g, n, S)
<1>1. PICK more : more = <<f, g>>
  OBVIOUS
<1>2. more \in Seq(S) /\ Len(more) = 2 /\ more[1] = f /\ more[2] = g
  BY <1>1
<1>3. out = up \o more
  BY <1>1
<1>4. /\ out \in Seq(S) /\ Len(out) = n + 1
      /\ \A i \in 1 .. n + 1 : out[i] = IF i <= n - 1 THEN up[i] ELSE more[i - (n - 1)]
  BY <1>2, <1>3
<1>5. n \in 1 .. n + 1 /\ n + 1 \in 1 .. n + 1 /\ ~(n <= n - 1) /\ ~(n + 1 <= n - 1)
      /\ n - (n - 1) = 1 /\ (n + 1) - (n - 1) = 2
  OBVIOUS
<1>6. out[n] = f /\ out[n + 1] = g
  BY <1>2, <1>4, <1>5
<1>7. \A i \in 1 .. n - 1 : out[i] = up[i]
  BY <1>4
<1> QED BY <1>4, <1>6, <1>7 DEF Followed

LEMMA ExecInnerKeeps ==
  ASSUME IInv, ExecInner
  PROVE  IInv'
<1>1. PICK m : m = Head(Inner.left)
  OBVIOUS
<1>2. PICK s : s = types[Inner.t].stack
  OBVIOUS
<1>3. PICK n : n = Len(open)
  OBVIOUS
<1>4. Declaring /\ Inner.left # <<>> /\ m.kind = "class"
  BY <1>1 DEF ExecInner
<1>5. /\ open # <<>> /\ UNCHANGED <<session, objects, status, fuel, patched, grown>>
  BY <1>4 DEF Declaring
<1>6. /\ n \in Nat \ {0} /\ DOMAIN open = 1 .. n /\ Inner = open[n]
      /\ Inner.t \in DOMAIN types /\ types[Inner.t].kind = "class" /\ status = "ok"
      /\ Upper \in Seq(Frames) /\ Len(Upper) = n - 1 /\ \A i \in 1 .. n - 1 : Upper[i] = open[i]
      /\ Further \in Frames /\ Further.t = Inner.t /\ Further.by = Inner.by /\ m \in Members
  BY <1>1, <1>3, <1>4, <1>5, FramesAre
<1>7. CASE ~Valid(m.decl, s)
  <2>1. Thrown
    BY <1>1, <1>2, <1>7 DEF ExecInner
  <2> QED BY <1>4, <2>1, ThrownKeeps
<1>8. CASE Valid(m.decl, s)
  <2>1. PICK d : d = m.decl
    OBVIOUS
  <2>2. PICK frame : frame = Begun(d, "")
    OBVIOUS
  <2>3. PICK r : r = NewDeclType(d, s)
    OBVIOUS
  <2>4. PICK t : t = Len(types) + 1
    OBVIOUS
  <2>5. /\ types' = Append(types, NewDeclType(m.decl, s)) /\ open' = Upper \o <<Further, Begun(m.decl, "")>>
        /\ UNCHANGED <<main, rebound>>
    BY <1>1, <1>2, <1>8 DEF ExecInner
  <2>6. types' = Append(types, r) /\ open' = Upper \o <<Further, frame>> /\ UNCHANGED <<main, rebound>>
        /\ Valid(d, s)
    BY <1>8, <2>1, <2>2, <2>3, <2>5
  <2>7. TypeOK /\ Formed /\ Opened /\ types \in Seq(TypeRecords)
    BY DEF IInv, TypeOK
  <2>8. d \in ClassDecls
    BY <1>4, <1>6, <2>1, MemberFields
  <2>9. s \in Seq(Nat) /\ \A j \in DOMAIN s : s[j] \in DOMAIN types /\ types[s[j]].kind = "class"
    BY <1>2, <1>6, <2>7, StackAt
  <2>10. NewClass(r, t, s)
    <3>1. \A j \in DOMAIN s : s[j] \in DOMAIN types
      BY <2>9
    <3> QED BY <2>3, <2>4, <2>6, <2>8, <2>9, <3>1, NewDeclTypeIs
  <2>11. r \in TypeRecords /\ r.kind = "class" /\ r.stack = <<t>> \o s
    BY <2>10 DEF NewClass
  <2>12. /\ types' \in Seq(TypeRecords) /\ DOMAIN types' = 1 .. t /\ DOMAIN types = 1 .. Len(types)
         /\ Len(types) \in Nat /\ types'[t] = r /\ \A u \in DOMAIN types : types'[u] = types[u]
    BY <2>4, <2>6, <2>7, <2>11, AppendedIs
  <2>13. t \in Nat /\ t \in DOMAIN types' /\ \A u \in DOMAIN types : u < t /\ u \in DOMAIN types'
    BY <2>4, <2>12
  <2>14. frame.t = t /\ frame.by = "" /\ frame \in Frames
    <3>1. d.members \in Seq(Members)
      BY <2>8, ClassDeclFields
    <3>2. frame = [t |-> t, left |-> d.members, by |-> ""]
      BY <2>2, <2>4 DEF Begun
    <3> QED BY <2>13, <3>1, <3>2 DEF Frames
  <2>15. /\ open' \in Seq(Frames) /\ DOMAIN open' = 1 .. n + 1 /\ open'[n] = Further /\ open'[n + 1] = frame
         /\ \A i \in 1 .. n - 1 : open'[i] = Upper[i]
    <3>1. PICK up : up = Upper
      OBVIOUS
    <3>2. PICK f : f = Further
      OBVIOUS
    <3>3. open' = up \o <<f, frame>> /\ up \in Seq(Frames) /\ f \in Frames /\ Len(up) = n - 1
      BY <1>6, <2>6, <3>1, <3>2
    <3>4. Followed(open', up, f, frame, n, Frames)
      BY <1>6, <2>14, <3>3, TwoMore
    <3> QED BY <3>1, <3>2, <3>4 DEF Followed
  <2>16. \A i \in 1 .. n : open'[i].t = open[i].t /\ open'[i].by = open[i].by
    <3> TAKE i \in 1 .. n
    <3>1. i = n \/ i \in 1 .. n - 1
      BY <1>6
    <3> QED BY <1>6, <2>15, <3>1
  <2>17. 1 \in 1 .. n /\ n \in 1 .. n /\ 1 \in 1 .. n + 1 /\ open' # <<>> /\ n + 1 \in 1 .. n + 1
    <3>1. 1 \in 1 .. n /\ n \in 1 .. n /\ 1 \in 1 .. n + 1 /\ n + 1 \in 1 .. n + 1
      BY <1>6
    <3> QED BY <2>15, <3>1
  <2>18. Opened'
    <3>1. status' = "ok" /\ main' = main
      BY <1>5, <1>6, <2>6
    <3>2. \A u \in DOMAIN types :
            u \in DOMAIN types' /\ types'[u].kind = types[u].kind /\ types'[u].stack = types[u].stack
      BY <2>12, <2>13
    <3>3. ASSUME NEW i \in 1 .. n PROVE OpenAt(i)'
      <4>1. i \in DOMAIN open /\ \A j \in 1 .. i : j \in 1 .. n
        BY <1>6
      <4>2. /\ \A j \in 1 .. i : open'[j].t = open[j].t
            /\ open'[i].by = open[i].by
        BY <2>16, <4>1
      <4> QED BY <2>7, <3>1, <3>2, <4>1, <4>2, OpenAtStays
    <3>4. OpenAt(n + 1)'
      <4>1. open'[n + 1].t = t /\ open'[n + 1].by = "" /\ types'[t].kind = "class" /\ types'[t].stack = <<t>> \o s
        BY <2>11, <2>12, <2>14, <2>15
      <4>2. n + 1 # 1 /\ (n + 1) - 1 = n
        BY <1>6
      <4>3. open'[n].t = Inner.t /\ types'[Inner.t].stack = s
        BY <1>2, <1>6, <2>12, <2>16, <2>17
      <4>4. \A j \in 1 .. n : open'[j].t < t
        <5> TAKE j \in 1 .. n
        <5>1. open[j].t \in DOMAIN types
          BY <1>6, <2>7 DEF Opened
        <5> QED BY <2>13, <2>16, <5>1
      <4> QED BY <2>13, <4>1, <4>2, <4>3, <4>4 DEF OpenAt
    <3>5. \A i \in DOMAIN open' : i = n + 1 \/ i \in 1 .. n
      BY <1>6, <2>15
    <3>6. \A i \in DOMAIN open' : OpenAt(i)'
      BY <3>3, <3>4, <3>5
    <3> QED BY <3>1, <3>6 DEF Opened, OpenAt
  <2>19. Settled' = Settled
    <3>1. Settled = 1 .. open[1].t - 1 /\ Settled' = 1 .. open'[1].t - 1
      BY <1>5, <2>17 DEF Settled
    <3> QED BY <2>16, <2>17, <3>1
  <2>20. Undeclared' = Undeclared \cup {Len(types) + 1}
    <3>1. Undeclared = {open[k].t : k \in 1 .. n} /\ Undeclared' = {open'[k].t : k \in 1 .. n + 1}
      BY <1>6, <2>15 DEF Undeclared
    <3>2. \A k \in 1 .. n + 1 : k = n + 1 \/ k \in 1 .. n
      BY <1>6
    <3>3. \A k \in 1 .. n : k \in 1 .. n + 1
      BY <1>6
    <3>4. open'[n + 1].t = Len(types) + 1
      BY <2>4, <2>14, <2>15
    <3>5. Undeclared' \subseteq Undeclared \cup {Len(types) + 1}
      BY <2>16, <3>1, <3>2, <3>4
    <3>6. Undeclared \subseteq Undeclared'
      BY <2>16, <3>1, <3>3
    <3>7. Len(types) + 1 \in Undeclared'
      BY <2>17, <3>1, <3>4
    <3> QED BY <3>5, <3>6, <3>7
  <2>21. TypeOK'
    BY <1>5, <2>6, <2>7, <2>12, <2>15 DEF TypeOK
  <2>22. UNCHANGED <<main, rebound, patched, objects>> /\ status' = "ok"
    BY <1>5, <1>6, <2>6
  <2>23. types' = Append(types, NewDeclType(d, s))
    BY <2>3, <2>6
  <2> QED BY <2>6, <2>8, <2>9, <2>18, <2>19, <2>20, <2>21, <2>22, <2>23, ClassBegun
<1> QED BY <1>7, <1>8

\* The declaration of the innermost class ends: it is complete then.
LEMMA ClosedIs ==
  ASSUME IInv, open # <<>>, NEW n, n = Len(open), NEW t, t = Inner.t, open' = Upper,
         DOMAIN types' = DOMAIN types
  PROVE  /\ open' \in Seq(Frames) /\ Len(open') = n - 1 /\ DOMAIN open' = 1 .. n - 1
         /\ \A i \in 1 .. n - 1 : open'[i] = open[i]
         /\ Undeclared' = Undeclared \ {t} /\ Whole' = Whole \cup {t}
<1>1. /\ n \in Nat \ {0} /\ DOMAIN open = 1 .. n /\ Inner = open[n] /\ Inner.t \in DOMAIN types
      /\ Upper \in Seq(Frames) /\ Len(Upper) = n - 1 /\ DOMAIN Upper = 1 .. n - 1
      /\ \A i \in 1 .. n - 1 : Upper[i] = open[i]
  BY FramesAre
<1>2. TypeOK /\ Opened
  BY DEF IInv
<1>3. /\ open' \in Seq(Frames) /\ Len(open') = n - 1 /\ DOMAIN open' = 1 .. n - 1
      /\ \A i \in 1 .. n - 1 : open'[i] = open[i]
  BY <1>1
<1>4. \A i \in 1 .. n - 1 : open[i].t # t
  <2> TAKE i \in 1 .. n - 1
  <2>1. n \in DOMAIN open /\ t = open[n].t
    BY <1>1
  <2>2. open[i].t < open[n].t
    BY <1>2, <2>1 DEF Opened
  <2>3. i \in DOMAIN open
    BY <1>1
  <2>4. open[i].t \in Nat /\ open[n].t \in Nat
    BY <1>2, <2>1, <2>3, FrameAt
  <2> QED BY <2>1, <2>2, <2>4
<1>5. Undeclared' = Undeclared \ {t}
  <2>1. Undeclared' = {open[k].t : k \in 1 .. n - 1} /\ Undeclared = {open[k].t : k \in 1 .. n}
    BY <1>1, <1>3 DEF Undeclared
  <2>2. \A k \in 1 .. n - 1 : k \in 1 .. n
    BY <1>1
  <2>3. \A k \in 1 .. n : k = n \/ k \in 1 .. n - 1
    BY <1>1
  <2>4. open[n].t = t
    BY <1>1
  <2> QED BY <1>4, <2>1, <2>2, <2>3, <2>4
<1>6. Whole' = Whole \cup {t}
  <2>1. t \in DOMAIN types
    BY <1>1
  <2> QED BY <1>5, <2>1 DEF Whole
<1> QED BY <1>3, <1>5, <1>6

\* What was called before the declaration ended in a class.
LEMMA InnerCloses ==
  ASSUME IInv, Declaring, Len(open) > 1, NEW t, t = Inner.t, Compatible(t), open' = Upper,
         types' = [types EXCEPT ![Upper[Len(Upper)].t].table = Registered(@, types[t].name, Val("class", t))],
         UNCHANGED <<main, rebound>>
  PROVE  IInv'
<1>1. PICK n : n = Len(open)
  OBVIOUS
<1>2. /\ open # <<>> /\ UNCHANGED <<session, objects, status, fuel, patched, grown>>
  BY DEF Declaring
<1>3. /\ n \in Nat \ {0} /\ DOMAIN open = 1 .. n /\ Inner = open[n]
      /\ t \in DOMAIN types /\ types[t].kind = "class" /\ status = "ok"
      /\ Len(Upper) = n - 1 /\ \A i \in 1 .. n - 1 : Upper[i] = open[i]
  BY <1>1, <1>2, FramesAre
<1>4. n > 1 /\ n - 1 \in 1 .. n - 1 /\ 1 \in 1 .. n - 1 /\ n - 1 \in DOMAIN open /\ n \in DOMAIN open
      /\ 1 \in DOMAIN open
  BY <1>1, <1>3
<1>5. TypeOK /\ Formed /\ Opened /\ types \in Seq(TypeRecords) /\ Len(objects) \in Nat
  BY DEF IInv, TypeOK
<1>6. PICK u : u = open[n - 1].t
  OBVIOUS
<1>7. u \in DOMAIN types /\ types[t].stack = <<t>> \o types[u].stack
  <2>1. open[n - 1].t \in DOMAIN types
    BY <1>4, <1>5 DEF Opened
  <2>2. types[open[n].t].stack = <<open[n].t>> \o (IF n = 1 THEN <<>> ELSE types[open[n - 1].t].stack)
    BY <1>4, <1>5 DEF Opened
  <2>3. n # 1
    BY <1>4
  <2> QED BY <1>3, <1>6, <2>1, <2>2, <2>3
<1>8. Len(types[t].stack) # 1 /\ types[t].stack[2] = u
  <2>1. PICK s : s = types[u].stack
    OBVIOUS
  <2>2. s \in Seq(Nat) /\ s[1] = u /\ (Len(s) = 1 \/ Len(s) > 1) /\ Len(s) \in Nat
    BY <1>5, <1>7, <2>1, StackAt
  <2>3. types[t].stack = <<t>> \o s /\ t \in Nat
    BY <1>3, <1>5, <1>7, <2>1, TypeAt
  <2> QED BY <2>2, <2>3
<1>9. PICK name : name = types[t].name
  OBVIOUS
<1>10. PICK table : table = types[u].table
  OBVIOUS
<1>11. PICK v : v = Val("class", t)
  OBVIOUS
<1>12. PICK T : T = Registered(table, name, v)
  OBVIOUS
<1>13. name \in STRING /\ table \in Tables /\ t \in Nat
  BY <1>3, <1>5, <1>7, <1>9, <1>10, TypeAt
<1>14. v \in Values
  <2>1. "class" \in Kinds /\ t \in Int
    BY <1>13 DEF Kinds
  <2> QED BY <1>11, <2>1, ValIsValue
<1>15. T \in Tables /\ DOMAIN T = DOMAIN table \cup {name}
  BY <1>12, <1>13, <1>14, TableRegistered
<1>16. /\ \A a \in DOMAIN table : a \in DOMAIN T /\ T[a] = table[a]
       /\ name \notin DOMAIN table => T[name] = v
  BY <1>12 DEF Registered
<1>17. types' = WithTable(types, u, T)
  <2>1. Upper[Len(Upper)].t = u
    BY <1>3, <1>4, <1>6
  <2> QED BY <1>9, <1>10, <1>11, <1>12, <2>1 DEF WithTable
<1>18. OnlyTable(types, types', u, T)
  BY <1>5, <1>7, <1>15, <1>17, TableSet
<1>19. /\ types' \in Seq(TypeRecords) /\ DOMAIN types' = DOMAIN types
       /\ \A x \in DOMAIN types :
            /\ types'[x].name = types[x].name /\ types'[x].kind = types[x].kind
            /\ types'[x].line = types[x].line /\ types'[x].ifaces = types[x].ifaces
            /\ types'[x].abstract = types[x].abstract /\ types'[x].stack = types[x].stack
            /\ types'[x].methods = types[x].methods
       /\ \A x \in DOMAIN types : types'[x].table = IF x = u THEN T ELSE types[x].table
  BY <1>18 DEF OnlyTable
<1>20. /\ open' \in Seq(Frames) /\ DOMAIN open' = 1 .. n - 1
       /\ \A i \in 1 .. n - 1 : open'[i] = open[i]
       /\ Undeclared' = Undeclared \ {t} /\ Whole' = Whole \cup {t}
  BY <1>1, <1>2, <1>19, ClosedIs
<1>21. u \in Undeclared /\ u # t
  <2>1. u \in Undeclared
    BY <1>4, <1>6 DEF Undeclared
  <2>2. open[n - 1].t < open[n].t
    BY <1>4, <1>5 DEF Opened
  <2>3. u \in Nat
    BY <1>5, <1>7, TypeAt
  <2> QED BY <1>3, <1>6, <1>13, <2>1, <2>2, <2>3
<1>22. Settled' = Settled
  <2>1. open' # <<>>
    BY <1>4, <1>20
  <2>2. Settled = 1 .. open[1].t - 1 /\ Settled' = 1 .. open'[1].t - 1
    BY <1>2, <2>1 DEF Settled
  <2>3. open'[1] = open[1]
    BY <1>4, <1>20
  <2> QED BY <2>2, <2>3
<1>23. TypeOK'
  BY <1>2, <1>5, <1>19, <1>20 DEF TypeOK
<1>24. Opened'
  <2>1. status' = "ok" /\ main' = main
    BY <1>2, <1>3
  <2>2. ASSUME NEW i \in DOMAIN open' PROVE OpenAt(i)'
    <3>1. i \in DOMAIN open /\ \A j \in 1 .. i : j \in 1 .. n - 1
      BY <1>3, <1>20
    <3>2. i \in 1 .. n - 1
      BY <1>20
    <3>3. /\ \A j \in 1 .. i : open'[j].t = open[j].t
          /\ open'[i].by = open[i].by
      BY <1>20, <3>1, <3>2
    <3>4. \A x \in DOMAIN types :
            x \in DOMAIN types' /\ types'[x].kind = types[x].kind /\ types'[x].stack = types[x].stack
      BY <1>19
    <3> QED BY <1>5, <2>1, <3>1, <3>3, <3>4, OpenAtStays
  <2> QED BY <2>1, <2>2 DEF Opened, OpenAt
<1>25. ASSUME ClassesIn(Whole) \subseteq ClassesIn(Whole)', IfacesIn(Whole) \subseteq IfacesIn(Whole)'
       PROVE  AllFit(types'[u].table, ClassesIn(Whole)', IfacesIn(Whole)', Len(objects))
  <2>1. PICK C : C = ClassesIn(Whole)
    OBVIOUS
  <2>2. PICK I : I = IfacesIn(Whole)
    OBVIOUS
  <2>3. PICK C2 : C2 = ClassesIn(Whole)'
    OBVIOUS
  <2>4. PICK I2 : I2 = IfacesIn(Whole)'
    OBVIOUS
  <2>5. PICK k : k = Len(objects)
    OBVIOUS
  <2>6. AllFit(table, C, I, k) /\ k \in Nat /\ k <= k
    BY <1>5, <1>7, <1>10, <2>1, <2>2, <2>5 DEF IInv, TablesFit
  <2>7. C \subseteq C2 /\ I \subseteq I2
    BY <1>25, <2>1, <2>2, <2>3, <2>4
  <2>8. AllFit(table, C2, I2, k)
    BY <2>6, <2>7, AllFitMore
  <2>9. ASSUME name \notin DOMAIN table PROVE Fits(v, C2, I2, k)
    <3>1. types'[u].table = T /\ types'[t].stack = types[t].stack /\ types'[t].name = name
          /\ types'[t].kind = "class"
      BY <1>3, <1>7, <1>9, <1>19
    <3>2. Leads(T, name, t)
      BY <1>11, <1>15, <1>16, <2>9 DEF Leads
    <3>3. Named(t)'
      BY <1>8, <3>1, <3>2 DEF Named
    <3>4. t \in C2
      BY <1>20, <2>3, <3>1, <3>3 DEF ClassesIn
    <3> QED BY <1>11, <2>6, <3>4, FitsPlain
  <2>10. ASSUME NEW a \in DOMAIN T PROVE Fits(T[a], C2, I2, k)
    <3>1. CASE a \in DOMAIN table
      BY <1>16, <2>8, <3>1 DEF AllFit
    <3>2. CASE a \notin DOMAIN table
      BY <1>15, <1>16, <2>9, <2>10, <3>2
    <3> QED BY <3>1, <3>2
  <2>11. AllFit(T, C2, I2, k)
    BY <2>10 DEF AllFit
  <2>12. types'[u].table = T
    BY <1>7, <1>19
  <2> QED BY <2>3, <2>4, <2>5, <2>11, <2>12
<1>26. u \in Undeclared' /\ Undeclared' \subseteq Undeclared
  BY <1>20, <1>21
<1>27. \A a \in DOMAIN types[u].table : a \in DOMAIN types'[u].table /\ types'[u].table[a] = types[u].table[a]
  BY <1>7, <1>10, <1>16, <1>19
<1>28. /\ UNCHANGED <<main, rebound, patched, objects>> /\ status' = "ok"
       /\ \A x \in Whole' \ Whole : Compatible(x)
  BY <1>2, <1>3, <1>20
<1>29. \A x \in DOMAIN types :
         /\ types'[x].name = types[x].name /\ types'[x].kind = types[x].kind
         /\ types'[x].line = types[x].line /\ types'[x].ifaces = types[x].ifaces
         /\ types'[x].abstract = types[x].abstract /\ types'[x].stack = types[x].stack
         /\ types'[x].methods = types[x].methods
         /\ x # u => types'[x].table = types[x].table
  BY <1>19
<1> QED BY <1>19, <1>21, <1>22, <1>23, <1>24, <1>25, <1>26, <1>27, <1>28, <1>29, OpenStep

\* What a decorator makes of a table that fits, fits.
LEMMA AnnotatedFits ==
  ASSUME NEW by, main[by] \in Values, NEW target \in Values, NEW table \in Tables, NEW name \in STRING,
         NEW C, NEW I, NEW n \in Nat, Fits(main[by], C, I, n), Fits(target, C, I, n), AllFit(table, C, I, n)
  PROVE  Annotated(by, target, table, name) \in Tables /\ AllFit(Annotated(by, target, table, name), C, I, n)
<1>1. PICK w : w = Decorated(main[by], target)
  OBVIOUS
<1>2. w \in Values \cup {Nothing} /\ Fits(w, C, I, n)
  <2>1. PICK v : v = main[by]
    OBVIOUS
  <2>2. v \in Values /\ Fits(v, C, I, n) /\ w = Decorated(v, target)
    BY <1>1, <2>1
  <2> QED BY <2>2, DecoratedFits
<1>3. PICK m : m = Annotated(by, target, table, name)
  OBVIOUS
<1>4. m = IF w = Nothing THEN table ELSE Registered(table, name, w)
  BY <1>1, <1>3 DEF Annotated
<1>5. m \in Tables
  BY <1>2, <1>4, TableRegistered
<1>6. AllFit(m, C, I, n)
  BY <1>2, <1>4, TablesKeepFit
<1> QED BY <1>3, <1>5, <1>6

\* The main table when the class of that name has been decorated.
Closing(by, named, name) ==
  IF by = "" THEN named ELSE Annotated(by, named[name], Without(named, name), name)

\* The class gets its name in the main table, and is decorated.
LEMMA OuterCloses ==
  ASSUME IInv, Declaring, Len(open) = 1, NEW t, t = Inner.t, Compatible(t), open' = Upper, types' = types,
         NEW name, name = types[t].name, NEW by, by = Inner.by,
         NEW named, named = Registered(main, name, Val("class", t)),
         NEW m, m = Closing(by, named, name),
         Becomes(named, m)
  PROVE  IInv'
<1>1. /\ open # <<>> /\ UNCHANGED <<session, objects, status, fuel, patched, grown>>
  BY DEF Declaring
<1>2. /\ DOMAIN open = 1 .. 1 /\ Inner = open[1]
      /\ t \in DOMAIN types /\ types[t].kind = "class" /\ status = "ok"
  BY <1>1, FramesAre
<1>3. 1 \in DOMAIN open
  BY <1>2
<1>4. TypeOK /\ Formed /\ Opened /\ main \in Tables /\ MainFits /\ TablesFit /\ AllFulfil
  BY DEF IInv, TypeOK
<1>5. PICK n : n = Len(objects)
  OBVIOUS
<1>6. n \in Nat /\ n <= n /\ Len(types) \in Nat /\ DOMAIN types = 1 .. Len(types)
  BY <1>4, <1>5 DEF TypeOK
<1>7. /\ open' \in Seq(Frames) /\ Len(open') = 1 - 1
      /\ Undeclared' = Undeclared \ {t} /\ Whole' = Whole \cup {t}
  BY <1>1, ClosedIs
<1>8. open' = <<>>
  BY <1>7
<1>9. Undeclared = {t} /\ Undeclared' = {} /\ Whole' = DOMAIN types /\ Settled' = DOMAIN types
  <2>1. Undeclared = {t}
    BY <1>2 DEF Undeclared
  <2>2. Undeclared' = {}
    BY <1>7, <2>1
  <2>3. Whole' = DOMAIN types
    BY <2>2 DEF Whole
  <2>4. Settled' = DOMAIN types
    BY <1>6, <1>8 DEF Settled
  <2> QED BY <2>1, <2>2, <2>3, <2>4
<1>10. types[t].stack = <<t>> /\ name \in STRING /\ t \in Nat
  <2>1. types[open[1].t].stack = <<open[1].t>> \o <<>>
    BY <1>3, <1>4 DEF Opened
  <2>2. t \in Nat /\ types[t].name \in STRING
    BY <1>2, <1>4, TypeAt
  <2>3. <<t>> \o <<>> = <<t>>
    BY <2>2
  <2> QED BY <1>2, <2>1, <2>2, <2>3
<1>11. PICK v : v = Val("class", t)
  OBVIOUS
<1>12. v \in Values /\ v.k = "class"
  <2>1. "class" \in Kinds /\ t \in Int
    BY <1>10 DEF Kinds
  <2> QED BY <1>11, <2>1, ValIsValue
<1>13. named = Registered(main, name, v)
  BY <1>11
<1>14. named \in Tables /\ DOMAIN named = DOMAIN main \cup {name}
  BY SMTT(30), <1>4, <1>10, <1>12, <1>13, TableRegistered
<1>15. /\ \A a \in DOMAIN main : a \in DOMAIN named /\ named[a] = main[a]
       /\ name \notin DOMAIN main => named[name] = v
  BY <1>13 DEF Registered
<1>16. /\ main' = m /\ rebound \subseteq rebound' /\ rebound' \subseteq STRING
       /\ \A a \in DOMAIN main :
            main[a].k = "class" => a \in rebound' \/ (a \in DOMAIN main' /\ main'[a] = main[a])
       /\ \A a \in DOMAIN named :
            named[a].k = "class" => a \in rebound' \/ (a \in DOMAIN main' /\ main'[a] = named[a])
  BY <1>4, <1>14, <1>15, BecomesIs
<1>17. name \in DOMAIN named
  BY <1>14
<1>18. name \notin DOMAIN main => name \in rebound' \/ Leads(main', name, t)
  BY <1>11, <1>12, <1>15, <1>16, <1>17 DEF Leads
<1>19. Follows
  BY <1>1, <1>9, <1>16 DEF Follows
<1>20. PICK C : C = ClassesIn(DOMAIN types)'
  OBVIOUS
<1>21. PICK I : I = IfacesIn(DOMAIN types)'
  OBVIOUS
<1>22. name \notin DOMAIN main => t \in C
  <2> SUFFICES ASSUME name \notin DOMAIN main PROVE t \in C
    OBVIOUS
  <2>1. Len(types[t].stack) = 1
    BY <1>10
  <2>2. Named(t)'
    BY <1>18, <2>1 DEF Named
  <2> QED BY <1>2, <1>20, <2>2 DEF ClassesIn
<1>23. ClassesIn(Whole)' = C /\ IfacesIn(Whole)' = I /\ ClassesIn(Settled)' = C /\ IfacesIn(Settled)' = I
  BY <1>9, <1>20, <1>21 DEF ClassesIn, IfacesIn
<1>24. Settled \subseteq Whole /\ Whole \subseteq DOMAIN types /\ Settled \subseteq DOMAIN types
  BY <1>4, SettledIs
<1>25. /\ \A x \in DOMAIN types : types'[x] = types[x] /\ types' \in Seq(TypeRecords)
       /\ DOMAIN types' = DOMAIN types
  BY <1>4, SameTypes
<1>26. ASSUME NEW C1, NEW I1, AllFit(main, C1, I1, n), name \notin DOMAIN main => t \in C1
       PROVE  m \in Tables /\ AllFit(m, C1, I1, n)
  <2>1. name \notin DOMAIN main => Fits(v, C1, I1, n)
    BY <1>6, <1>11, <1>26, FitsPlain
  <2>2. AllFit(named, C1, I1, n)
    <3> SUFFICES ASSUME NEW a \in DOMAIN named PROVE Fits(named[a], C1, I1, n)
      BY DEF AllFit
    <3>1. CASE a \in DOMAIN main
      BY <1>15, <1>26, <3>1 DEF AllFit
    <3>2. CASE a \notin DOMAIN main
      BY <1>14, <1>15, <2>1, <3>2
    <3> QED BY <3>1, <3>2
  <2>3. CASE by = ""
    <3>1. m = named
      BY <2>3 DEF Closing
    <3> QED BY <1>14, <2>2, <3>1
  <2>4. CASE by # ""
    <3>1. PICK rest : rest = Without(named, name)
      OBVIOUS
    <3>2. PICK g : g = named[name]
      OBVIOUS
    <3>3. rest \in Tables /\ AllFit(rest, C1, I1, n)
      <4>1. rest \in Tables
        BY <1>14, <3>1, TableWithout
      <4>2. AllFit(rest, C1, I1, n)
        BY <1>6, <1>14, <2>2, <3>1, TablesKeepFit
      <4> QED BY <4>1, <4>2
    <3>4. by \in DOMAIN main /\ main[by] \in Values /\ Fits(main[by], C1, I1, n)
      <4>1. by \in DOMAIN main
        BY <1>2, <1>3, <1>4, <2>4 DEF Opened
      <4> QED BY <1>4, <1>26, <4>1, TableHas DEF AllFit
    <3>5. g \in Values /\ Fits(g, C1, I1, n)
      <4>1. g \in Values
        BY <1>14, <1>17, <3>2, TableHas
      <4>2. Fits(g, C1, I1, n)
        BY <1>17, <2>2, <3>2 DEF AllFit
      <4> QED BY <4>1, <4>2
    <3>6. m = Annotated(by, g, rest, name)
      BY <2>4, <3>1, <3>2 DEF Closing
    <3>7. n \in Nat /\ name \in STRING
      BY <1>6, <1>10
    <3>8. PICK d : d = Annotated(by, g, rest, name)
      OBVIOUS
    <3>9. d \in Tables /\ AllFit(d, C1, I1, n)
      BY <3>3, <3>4, <3>5, <3>7, <3>8, AnnotatedFits
    <3> QED BY <3>6, <3>8, <3>9
  <2> QED BY <2>3, <2>4
<1>27. AllFit(main, ClassesIn(Settled), IfacesIn(Settled), n)
  BY <1>4, <1>5 DEF MainFits
<1>28. TypeOK'
  <2>1. PICK C1 : C1 = ClassesIn(Settled) \cup {t}
    OBVIOUS
  <2>2. PICK I1 : I1 = IfacesIn(Settled)
    OBVIOUS
  <2>3. ClassesIn(Settled) \subseteq C1 /\ IfacesIn(Settled) \subseteq I1 /\ t \in C1
    BY <2>1, <2>2
  <2>4. AllFit(main, C1, I1, n)
    BY <1>6, <1>27, <2>3, AllFitMore
  <2>5. main' \in Tables
    BY <1>16, <1>26, <2>3, <2>4
  <2> QED BY <1>1, <1>4, <1>7, <1>16, <1>25, <2>5 DEF TypeOK
<1>29. ClassesIn(Settled) \subseteq C /\ IfacesIn(Settled) \subseteq I
  <2>1. Settled \subseteq Settled' /\ Settled' \subseteq DOMAIN types'
    BY <1>9, <1>24, <1>25
  <2> QED BY <1>4, <1>19, <1>23, <1>24, <1>28, <2>1, SettledFollow
<1>30. ClassesIn(Whole) \subseteq C /\ IfacesIn(Whole) \subseteq I
  <2>1. PICK T : T = Whole
    OBVIOUS
  <2>2. T \subseteq DOMAIN types /\ T \subseteq Whole'
    BY <1>7, <1>24, <2>1
  <2>3. ClassesIn(T) \subseteq ClassesIn(Whole)' /\ IfacesIn(T) \subseteq IfacesIn(Whole)'
    BY <1>4, <1>19, <1>28, <2>2, WholeFollow
  <2> QED BY <1>23, <2>1, <2>3
<1>31. AllFit(main, C, I, n)
  BY <1>6, <1>27, <1>29, AllFitMore
<1>32. MainFits'
  <2>1. AllFit(m, C, I, n)
    BY <1>22, <1>26, <1>31
  <2> QED BY <1>1, <1>5, <1>16, <1>23, <2>1 DEF MainFits
<1>33. TablesFit'
  <2>1. ASSUME NEW x \in DOMAIN types PROVE AllFit(types[x].table, C, I, n)
    <3>1. AllFit(types[x].table, ClassesIn(Whole), IfacesIn(Whole), n)
      BY <1>4, <1>5 DEF TablesFit
    <3> QED BY <1>6, <1>30, <3>1, AllFitMore
  <2> QED BY <1>1, <1>5, <1>9, <1>23, <1>25, <2>1 DEF TablesFit
<1>34. Formed'
  <2>1. \A x \in DOMAIN types' : x \in DOMAIN types \cap DOMAIN types'
    BY <1>25
  <2> QED BY <1>4, <1>19, <1>28, <2>1, FormedFollows DEF Formed
<1>35. Opened'
  <2>1. DOMAIN open' = {}
    BY <1>8
  <2> QED BY <1>8, <2>1 DEF Opened
<1>36. AllFulfil'
  <2> SUFFICES ASSUME NEW x \in DOMAIN types PROVE Fulfils(x)'
    BY <1>9 DEF AllFulfil
  <2>1. Fulfils(x)
    <3>1. CASE x \in Whole
      BY <1>4, <3>1 DEF AllFulfil
    <3>2. CASE x \notin Whole
      <4>1. x = t
        BY <1>9, <3>2 DEF Whole
      <4> QED BY <4>1 DEF Fulfils
    <3> QED BY <3>1, <3>2
  <2>2. x \in DOMAIN types \cap DOMAIN types'
    BY <1>25
  <2>3. \A k \in DOMAIN types[x].line : types'[types[x].line[k]].table = types[types[x].line[k]].table
    BY <1>4, <1>25, OnLine
  <2> QED BY <1>4, <1>19, <1>28, <2>1, <2>2, <2>3, FulfilsFollows
<1>37. objects' = objects /\ status' = "ok" /\ Settled \subseteq Settled' /\ Settled' \subseteq DOMAIN types'
  BY <1>1, <1>2, <1>9, <1>24, <1>25
<1>38. \A x \in Settled : DOMAIN types[x].table \subseteq DOMAIN types'[x].table
  BY <1>24, <1>25
<1> QED BY <1>19, <1>28, <1>32, <1>33, <1>34, <1>35, <1>36, <1>37, <1>38, TypesStep

LEMMA CloseClassKeeps ==
  ASSUME IInv, CloseClass
  PROVE  IInv'
<1>1. PICK t : t = Inner.t
  OBVIOUS
<1>2. PICK name : name = types[t].name
  OBVIOUS
<1>3. PICK by : by = Inner.by
  OBVIOUS
<1>4. PICK named : named = Registered(main, name, Val("class", t))
  OBVIOUS
<1>5. Declaring /\ open # <<>>
  BY DEF CloseClass, Declaring
<1>6. CASE ~Compatible(t)
  <2>1. Thrown
    BY <1>1, <1>6 DEF CloseClass
  <2> QED BY <1>5, <2>1, ThrownKeeps
<1>7. CASE Compatible(t) /\ Len(open) > 1
  <2>1. /\ open' = Upper /\ UNCHANGED <<main, rebound>>
        /\ types' = [types EXCEPT ![Upper[Len(Upper)].t].table = Registered(@, types[t].name, Val("class", t))]
    BY <1>1, <1>7 DEF CloseClass
  <2> QED BY <1>1, <1>5, <1>7, <2>1, InnerCloses
<1>8. CASE Compatible(t) /\ ~(Len(open) > 1)
  <2>1. Len(open) = 1
    <3>1. PICK n : n = Len(open)
      OBVIOUS
    <3>2. n \in Nat \ {0} /\ ~(n > 1)
      BY <1>5, <1>8, <3>1, FramesAre
    <3>3. n = 1
      BY <3>2
    <3> QED BY <3>1, <3>3
  <2>2. PICK m : m = Closing(by, named, name)
    OBVIOUS
  <2>3. open' = Upper /\ types' = types
    BY <1>1, <1>8 DEF CloseClass
  <2>4. Becomes(named, m)
    BY <1>1, <1>2, <1>3, <1>4, <1>8, <2>2 DEF CloseClass, Closing
  <2> QED BY <1>1, <1>2, <1>3, <1>4, <1>5, <1>8, <2>1, <2>2, <2>3, <2>4, OuterCloses
<1> QED BY <1>6, <1>7, <1>8

-----------------------------------------------------------------------------
(* The declaration of an interface                                         *)

LEMMA IfaceDeclFields ==
  ASSUME NEW d \in IfaceDecls
  PROVE  d.name \in STRING /\ d.ifaces \in Seq(STRING) /\ d.members \in Seq(Methods)
BY DEF IfaceDecls

LEMMA SignatureIs ==
  ASSUME NEW f \in Scripted
  PROVE  Signature(Val("func", f)) \in Signatures
<1>1. PICK v : v = Val("func", f)
  OBVIOUS
<1>2. v.k = "func" /\ v.id = f /\ v.on = <<>>
  BY <1>1 DEF Val
<1>3. Declared(v) /\ v.k # "maker"
  BY <1>2 DEF Declared, Scripted
<1>4. PICK e : e = IF Shapes[f].method /\ ~Shapes[f].static THEN 1 ELSE 0
  OBVIOUS
<1>5. Signature(v) = [params |-> Shapes[f].params + e, defaults |-> Shapes[f].defaults,
                      variadic |-> Shapes[f].variadic]
  BY <1>2, <1>3, <1>4 DEF Signature
<1>6. /\ Shapes[f].params \in Nat /\ Shapes[f].defaults \in Nat /\ Shapes[f].variadic \in BOOLEAN
  BY ShapeAt DEF Scripted
<1>7. Shapes[f].params + e \in Int /\ Shapes[f].defaults \in Int
  BY <1>4, <1>6
<1> QED BY <1>1, <1>5, <1>6, <1>7 DEF Signatures

\* The methods an interface has of its own and of those it extends.
AllMethods(from, own, members) ==
  [n \in Range(own) \cup UNION {DOMAIN from[k] : k \in DOMAIN from} |->
     IF n \in Range(own)
     THEN Signature(Val("func", members[CHOOSE k \in DOMAIN own : own[k] = n].f))
     ELSE from[CHOOSE k \in DOMAIN from : n \in DOMAIN from[k]][n]]

LEMMA MethodTable ==
  ASSUME NEW table \in MethodTables
  PROVE  DOMAIN table \subseteq STRING /\ \A m \in DOMAIN table : table[m] \in Signatures
BY DEF MethodTables

HasAll(all, from) ==
  /\ all \in MethodTables
  /\ \A k \in DOMAIN from : \A m \in DOMAIN from[k] : m \in DOMAIN all /\ all[m] = from[k][m]

LEMMA AllMethodsAre ==
  ASSUME NEW members \in Seq(Methods), NEW own, own = [k \in DOMAIN members |-> members[k].name],
         NEW from, \A k \in DOMAIN from : from[k] \in MethodTables,
         \A j, k \in DOMAIN from : j # k => DOMAIN from[j] \cap DOMAIN from[k] = {},
         \A k \in DOMAIN from : DOMAIN from[k] \cap Range(own) = {},
         NEW all, all = AllMethods(from, own, members)
  PROVE  HasAll(all, from)
<1>1. PICK D : D = Range(own) \cup UNION {DOMAIN from[k] : k \in DOMAIN from}
  OBVIOUS
<1>2. DOMAIN own = DOMAIN members /\ \A k \in DOMAIN own : own[k] = members[k].name
  OBVIOUS
<1>3. \A k \in DOMAIN members : members[k].name \in STRING /\ members[k].f \in Scripted
  <2> TAKE k \in DOMAIN members
  <2>1. members[k] \in Methods
    OBVIOUS
  <2> QED BY <2>1 DEF Methods
<1>4. DOMAIN all = D
  BY <1>1 DEF AllMethods
<1>5. D \subseteq STRING
  <2>1. Range(own) \subseteq STRING
    BY <1>2, <1>3 DEF Range
  <2>2. \A k \in DOMAIN from : DOMAIN from[k] \subseteq STRING
    BY MethodTable
  <2> QED BY <1>1, <2>1, <2>2
<1>6. ASSUME NEW n \in Range(own) PROVE all[n] \in Signatures
  <2>1. PICK k : k = CHOOSE j \in DOMAIN own : own[j] = n
    OBVIOUS
  <2>2. k \in DOMAIN own
    BY <2>1 DEF Range
  <2>3. members[k].f \in Scripted
    BY <1>2, <1>3, <2>2
  <2>4. all[n] = Signature(Val("func", members[k].f))
    BY <2>1 DEF AllMethods
  <2> QED BY <2>3, <2>4, SignatureIs
<1>7. ASSUME NEW k \in DOMAIN from, NEW n \in DOMAIN from[k] PROVE n \in D /\ all[n] = from[k][n]
  <2>1. n \in D /\ n \notin Range(own)
    BY <1>1
  <2>2. PICK c : c = CHOOSE j \in DOMAIN from : n \in DOMAIN from[j]
    OBVIOUS
  <2>3. c \in DOMAIN from /\ n \in DOMAIN from[c]
    BY <2>2
  <2>4. c = k
    BY <2>3
  <2>5. all[n] = from[c][n]
    BY <1>1, <2>1, <2>2 DEF AllMethods
  <2> QED BY <2>1, <2>4, <2>5
<1>8. \A n \in D : all[n] \in Signatures
  <2> TAKE n \in D
  <2>1. CASE n \in Range(own)
    BY <1>6, <2>1
  <2>2. CASE n \notin Range(own)
    <3>1. PICK k \in DOMAIN from : n \in DOMAIN from[k]
      BY <1>1, <2>2
    <3>2. all[n] = from[k][n] /\ from[k] \in MethodTables
      BY <1>7, <3>1
    <3> QED BY <3>1, <3>2, MethodTable
  <2> QED BY <2>1, <2>2
<1>9. all \in MethodTables
  <2>1. all = [n \in DOMAIN all |-> all[n]]
    BY DEF AllMethods
  <2>2. all \in [D -> Signatures]
    BY <1>4, <1>8, <2>1
  <2> QED BY <1>5, <2>2 DEF MethodTables
<1> QED BY <1>4, <1>7, <1>9 DEF HasAll

\* An interface more, which extends interfaces there are.
LEMMA IfaceAppended ==
  ASSUME IInv, Runs, NEW d \in IfaceDecls, NEW t, t = Len(types) + 1, NEW ifaces \in Seq(Nat),
         \A k \in DOMAIN ifaces : ifaces[k] \in DOMAIN types /\ types[ifaces[k]].kind = "iface",
         NEW all \in MethodTables,
         \A k \in DOMAIN ifaces : \A m \in DOMAIN types[ifaces[k]].methods :
           m \in DOMAIN all /\ all[m] = types[ifaces[k]].methods[m],
         types' = Append(types, [name |-> d.name, kind |-> "iface", line |-> <<t>>, ifaces |-> ifaces,
                                 abstract |-> FALSE, final |-> TRUE, stack |-> <<t>>, table |-> <<>>,
                                 methods |-> all]),
         Becomes(main, Registered(main, d.name, Val("iface", t))),
         UNCHANGED <<open, objects, status, patched, grown>>
  PROVE  IInv'
<1>1. PICK r : r = [name |-> d.name, kind |-> "iface", line |-> <<t>>, ifaces |-> ifaces, abstract |-> FALSE,
                    final |-> TRUE, stack |-> <<t>>, table |-> <<>>, methods |-> all]
  OBVIOUS
<1>2. /\ open = <<>> /\ status = "ok" /\ fuel' = fuel - 1 /\ session' = session
      /\ UNCHANGED <<open, objects, status, patched, grown>> /\ types' = Append(types, r)
  BY <1>1 DEF Runs
<1>3. /\ TypeOK /\ Formed /\ Opened /\ Settled = DOMAIN types /\ Undeclared = {}
      /\ Len(types) \in Nat /\ DOMAIN types = 1 .. Len(types)
      /\ main \in Tables /\ types \in Seq(TypeRecords)
  BY <1>2, Outside DEF IInv, TypeOK
<1>4. PICK n : n = Len(objects)
  OBVIOUS
<1>5. n \in Nat /\ n <= n /\ AllFit(main, ClassesIn(Settled), IfacesIn(Settled), n)
  BY <1>3, <1>4 DEF TypeOK, IInv, MainFits
<1>6. t \in Nat /\ <<t>> \in Seq(Nat) /\ d.name \in STRING
  BY <1>3, IfaceDeclFields
<1>7. r \in TypeRecords
  <2>1. PICK name : name = d.name
    OBVIOUS
  <2>2. PICK line : line = <<t>>
    OBVIOUS
  <2>3. PICK e : e = <<>>
    OBVIOUS
  <2>4. r = [name |-> name, kind |-> "iface", line |-> line, ifaces |-> ifaces, abstract |-> FALSE,
             final |-> TRUE, stack |-> line, table |-> e, methods |-> all]
    BY <1>1, <2>1, <2>2, <2>3
  <2>5. name \in STRING /\ line \in Seq(Nat) /\ e \in Tables
    BY <1>6, <2>1, <2>2, <2>3, EmptyTable
  <2> QED BY <2>4, <2>5 DEF TypeRecords
<1>8. /\ r.kind = "iface" /\ r.line = <<t>> /\ r.ifaces = ifaces /\ r.stack = <<t>> /\ r.table = <<>>
      /\ r.methods = all
  BY <1>1
<1>9. /\ types' \in Seq(TypeRecords) /\ DOMAIN types' = 1 .. t /\ types'[t] = r
      /\ \A u \in DOMAIN types : types'[u] = types[u]
  BY <1>2, <1>3, <1>7, AppendedIs
<1>10. /\ \A u \in DOMAIN types : u \in 1 .. t - 1 /\ u \in DOMAIN types'
       /\ t \in DOMAIN types' /\ DOMAIN types' = DOMAIN types \cup {t}
  BY <1>3, <1>9
<1>11. DOMAIN open' = {} /\ Undeclared' = {} /\ Settled' = DOMAIN types'
  <2>1. DOMAIN open' = {}
    BY <1>2
  <2>2. Undeclared' = {}
    BY <2>1 DEF Undeclared
  <2>3. Settled' = 1 .. Len(types') /\ Len(types') = t
    BY <1>2, <1>3, <1>7, AppendedIs DEF Settled
  <2> QED BY <1>9, <2>1, <2>2, <2>3
<1>12. PICK v : v = Val("iface", t)
  OBVIOUS
<1>13. v \in Values
  <2>1. "iface" \in Kinds /\ t \in Int
    BY <1>6 DEF Kinds
  <2> QED BY <1>12, <2>1, ValIsValue
<1>14. PICK name : name = d.name
  OBVIOUS
<1>15. PICK m : m = Registered(main, name, v)
  OBVIOUS
<1>16. name \in STRING
  BY <1>6, <1>14
<1>17. m \in Tables
  BY <1>3, <1>13, <1>15, <1>16, TableRegistered
<1>18. Becomes(main, m)
  BY <1>12, <1>14, <1>15
<1>19. /\ main' = m /\ rebound \subseteq rebound' /\ rebound' \subseteq STRING
       /\ \A a \in DOMAIN main :
            main[a].k = "class" => a \in rebound' \/ (a \in DOMAIN main' /\ main'[a] = main[a])
  BY <1>3, <1>18, BecomesIs
<1>20. TypeOK'
  <2>1. fuel' \in Int
    BY <1>2, <1>3 DEF TypeOK
  <2>2. open' \in Seq(Frames) /\ objects' \in Seq(ObjectRecords) /\ session' \in Sessions
    BY <1>2, <1>3 DEF TypeOK
  <2> QED BY <1>2, <1>3, <1>9, <1>17, <1>19, <2>1, <2>2 DEF TypeOK
<1>21. Lined(t)'
  <2>1. types'[t].line = <<t>> /\ types'[t].kind = "iface"
    BY <1>8, <1>9
  <2>2. Len(<<t>>) = 1 /\ <<t>>[1] = t /\ ~(1 > 1) /\ \A k \in 2 .. 1 : FALSE
    OBVIOUS
  <2> DEFINE line == types'[t].line
  <2>3. Len(line) > 0 /\ line[1] = t /\ Len(line) = 1 /\ \A k \in 2 .. Len(line) : FALSE
    BY <2>1, <2>2
  <2>4. ~(Len(line) > 1)
    BY <2>3
  <2> HIDE DEF line
  <2> QED BY <2>3, <2>4 DEF Lined, line
<1>22. Stacked(t)'
  <2>1. types'[t].stack = <<t>>
    BY <1>8, <1>9
  <2>2. Len(<<t>>) = 1 /\ <<t>>[1] = t /\ \A k \in 2 .. 1 : FALSE
    OBVIOUS
  <2> QED BY <2>1, <2>2 DEF Stacked
<1>23. Extending(t)'
  <2> SUFFICES ASSUME NEW k \in DOMAIN ifaces
               PROVE  /\ ifaces[k] \in 1 .. t - 1 /\ types'[ifaces[k]].kind = "iface"
                      /\ \A x \in DOMAIN types'[ifaces[k]].methods :
                           x \in DOMAIN all /\ all[x] = types'[ifaces[k]].methods[x]
    BY <1>8, <1>9 DEF Extending
  <2>1. ifaces[k] \in DOMAIN types /\ types'[ifaces[k]] = types[ifaces[k]]
    BY <1>9
  <2> QED BY <1>10, <2>1
<1>24. Opened'
  BY <1>2, <1>11 DEF Opened
<1>25. ASSUME Follows PROVE MainFits'
  <2>1. PICK C : C = ClassesIn(Settled)'
    OBVIOUS
  <2>2. PICK I : I = IfacesIn(Settled)'
    OBVIOUS
  <2>3. ClassesIn(Settled) \subseteq C /\ IfacesIn(Settled) \subseteq I
    <3>1. Settled \subseteq DOMAIN types /\ Settled \subseteq Settled' /\ Settled' \subseteq DOMAIN types'
      BY <1>3, <1>10, <1>11
    <3>2. ClassesIn(Settled) \subseteq ClassesIn(Settled)' /\ IfacesIn(Settled) \subseteq IfacesIn(Settled)'
      BY <1>3, <1>20, <1>25, <3>1, SettledFollow
    <3> QED BY <2>1, <2>2, <3>2
  <2>4. AllFit(main, C, I, n)
    BY <1>5, <2>3, AllFitMore
  <2>5. t \in I
    <3>1. types'[t].kind = "iface"
      BY <1>8, <1>9
    <3> QED BY <1>10, <1>11, <2>2, <3>1 DEF IfacesIn
  <2>6. Fits(v, C, I, n)
    BY <1>5, <1>12, <2>5, FitsPlain
  <2>7. AllFit(m, C, I, n)
    BY <1>3, <1>5, <1>13, <1>15, <1>16, <2>4, <2>6, TablesKeepFit
  <2>8. AllFit(main', C, I, Len(objects'))
    BY <1>2, <1>4, <1>19, <2>7
  <2> QED BY <2>1, <2>2, <2>8 DEF MainFits
<1>26. /\ Settled \subseteq Settled' /\ Settled' \subseteq Settled \cup {t}
       /\ Undeclared \subseteq Undeclared' /\ Undeclared' \subseteq Undeclared \cup {t}
  BY <1>3, <1>10, <1>11
<1> QED BY <1>2, <1>7, <1>8, <1>19, <1>20, <1>21, <1>22, <1>23, <1>24, <1>25, <1>26, AppendStep

LEMMA DeclareInterfaceKeeps ==
  ASSUME IInv, NEW d \in session.declarations, DeclareInterface(d)
  PROVE  IInv'
<1> DEFINE bases == [k \in DOMAIN d.ifaces |-> Lookup(<<>>, d.ifaces[k])]
           from == [k \in DOMAIN bases |-> types[bases[k].id].methods]
           own == [k \in DOMAIN d.members |-> d.members[k].name]
           once == /\ \A j, k \in DOMAIN from : j # k => DOMAIN from[j] \cap DOMAIN from[k] = {}
                   /\ \A k \in DOMAIN from : DOMAIN from[k] \cap Range(own) = {}
                   /\ IsInjective(own)
           ok == (\A k \in DOMAIN bases : bases[k].k = "iface") /\ once
           all == AllMethods(from, own, d.members)
           t == Len(types) + 1
           ifaces == [k \in DOMAIN bases |-> bases[k].id]
           r == [name |-> d.name, kind |-> "iface", line |-> <<t>>, ifaces |-> ifaces, abstract |-> FALSE,
                 final |-> TRUE, stack |-> <<t>>, table |-> <<>>, methods |-> all]
<1>1. /\ Runs /\ d.kind = "iface"
      /\ IF ok THEN types' = Append(types, r) /\ Becomes(main, Registered(main, d.name, Val("iface", t)))
         ELSE UNCHANGED <<types, main, rebound>>
      /\ UNCHANGED <<open, objects, status, patched, grown>>
  BY DEF DeclareInterface, AllMethods
<1>2. DOMAIN bases = DOMAIN d.ifaces /\ \A k \in DOMAIN d.ifaces : bases[k] = Lookup(<<>>, d.ifaces[k])
  OBVIOUS
<1>3. DOMAIN from = DOMAIN bases /\ \A k \in DOMAIN bases : from[k] = types[bases[k].id].methods
  OBVIOUS
<1>4. /\ DOMAIN ifaces = DOMAIN bases /\ \A k \in DOMAIN bases : ifaces[k] = bases[k].id
      /\ ifaces = [k \in DOMAIN bases |-> ifaces[k]]
  OBVIOUS
<1>5. own = [k \in DOMAIN d.members |-> d.members[k].name]
  OBVIOUS
<1>6. ok => /\ \A k \in DOMAIN bases : bases[k].k = "iface"
            /\ \A j, k \in DOMAIN from : j # k => DOMAIN from[j] \cap DOMAIN from[k] = {}
            /\ \A k \in DOMAIN from : DOMAIN from[k] \cap Range(own) = {}
  OBVIOUS
<1> HIDE DEF bases, from, own, once, ok, ifaces
<1>8. CASE ~ok
  <2>1. Runs /\ UNCHANGED <<main, rebound, types, open, objects, status, patched, grown>>
    BY <1>1, <1>8
  <2> QED BY <2>1, NothingStep
<1>9. CASE ok
  <2>1. TypeOK /\ Opened /\ d \in IfaceDecls
    BY <1>1, DeclarationAt DEF IInv
  <2>2. d.ifaces \in Seq(STRING) /\ d.members \in Seq(Methods)
    BY <2>1, IfaceDeclFields
  <2>3. DOMAIN bases = DOMAIN d.ifaces /\ DOMAIN from = DOMAIN bases /\ DOMAIN ifaces = DOMAIN bases
    BY <1>2, <1>3, <1>4
  <2>4. ASSUME NEW k \in DOMAIN bases
        PROVE  /\ bases[k].id \in DOMAIN types /\ types[bases[k].id].kind = "iface" /\ bases[k].id \in Nat
               /\ types[bases[k].id].methods \in MethodTables
    <3>1. PICK v : v = Lookup(<<>>, d.ifaces[k])
      OBVIOUS
    <3>2. bases[k] = v /\ v.k = "iface"
      BY <1>2, <1>6, <1>9, <2>3, <3>1
    <3>3. Fits(v, ClassesIn(Whole), IfacesIn(Whole), Len(objects))
      <4>1. PICK s : s = <<>>
        OBVIOUS
      <4>2. s \in Seq(Nat) /\ DOMAIN s = {}
        BY <4>1
      <4>3. Fits(Lookup(s, d.ifaces[k]), ClassesIn(Whole), IfacesIn(Whole), Len(objects))
        BY <4>2, LookupInside
      <4> QED BY <3>1, <4>1, <4>3
    <3>4. v.id \in Whole /\ types[v.id].kind = "iface"
      BY <3>2, <3>3 DEF Fits, IfacesIn
    <3>5. v.id \in DOMAIN types
      BY <3>4 DEF Whole
    <3>6. v.id \in Nat /\ types[v.id].methods \in MethodTables
      BY <2>1, <3>5, TypeAt
    <3> QED BY <3>2, <3>4, <3>5, <3>6
  <2>5. ifaces \in Seq(Nat)
    <3>1. DOMAIN ifaces = 1 .. Len(d.ifaces) /\ Len(d.ifaces) \in Nat
      BY <2>2, <2>3
    <3>2. ifaces \in [1 .. Len(d.ifaces) -> Nat]
      BY <1>4, <2>3, <2>4, <3>1
    <3> QED BY <3>1, <3>2
  <2>6. \A k \in DOMAIN from : from[k] \in MethodTables
    BY <1>3, <2>3, <2>4
  <2>7. /\ \A j, k \in DOMAIN from : j # k => DOMAIN from[j] \cap DOMAIN from[k] = {}
        /\ \A k \in DOMAIN from : DOMAIN from[k] \cap Range(own) = {}
    BY <1>6, <1>9
  <2>8. /\ all \in MethodTables
        /\ \A k \in DOMAIN from : \A m \in DOMAIN from[k] : m \in DOMAIN all /\ all[m] = from[k][m]
    <3>1. PICK members : members = d.members
      OBVIOUS
    <3>2. members \in Seq(Methods) /\ own = [k \in DOMAIN members |-> members[k].name]
          /\ all = AllMethods(from, own, members)
      BY <1>5, <2>2, <3>1
    <3> HIDE DEF all
    <3>3. HasAll(all, from)
      BY <2>6, <2>7, <3>2, AllMethodsAre
    <3> QED BY <3>3 DEF HasAll
  <2>9. \A k \in DOMAIN ifaces : /\ ifaces[k] \in DOMAIN types /\ types[ifaces[k]].kind = "iface"
                                 /\ from[k] = types[ifaces[k]].methods
    BY <1>3, <1>4, <2>3, <2>4
  <2>10. \A k \in DOMAIN ifaces : \A m \in DOMAIN types[ifaces[k]].methods :
           m \in DOMAIN all /\ all[m] = types[ifaces[k]].methods[m]
    BY <2>3, <2>8, <2>9
  <2>11. /\ types' = Append(types, r) /\ Becomes(main, Registered(main, d.name, Val("iface", t)))
         /\ Runs /\ UNCHANGED <<open, objects, status, patched, grown>>
    BY <1>1, <1>9
  <2>12. PICK a : a = all
    OBVIOUS
  <2>13. PICK n : n = t
    OBVIOUS
  <2>14. r = [name |-> d.name, kind |-> "iface", line |-> <<n>>, ifaces |-> ifaces, abstract |-> FALSE,
              final |-> TRUE, stack |-> <<n>>, table |-> <<>>, methods |-> a]
    BY <2>12, <2>13
  <2> HIDE DEF all, t, r
  <2> QED BY <2>1, <2>5, <2>8, <2>9, <2>10, <2>11, <2>12, <2>13, <2>14, IfaceAppended DEF t
<1> QED BY <1>8, <1>9

-----------------------------------------------------------------------------
(* What every script keeps                                                 *)

LEMMA NextKeeps ==
  ASSUME IInv, Next
  PROVE  IInv'
<1>1. ASSUME NEW d \in session.declarations,
             DeclareFunc(d) \/ DeclareInterface(d) \/ \E by : AnnotateFunc(by, d) \/ DeclareClass(by, d)
      PROVE  IInv'
  BY <1>1, DeclareFuncKeeps, DeclareInterfaceKeeps, AnnotateFuncKeeps, DeclareClassKeeps
<1>2. CASE ExecMember \/ ExecInner \/ CloseClass
  BY <1>2, ExecMemberKeeps, ExecInnerKeeps, CloseClassKeeps
<1>3. ASSUME NEW st \in session.statements, st.on \in DOMAIN main,
             Let(st) \/ Del(st) \/ Get(st) \/ New(st) \/ CallMethod(st) \/ Put(st) \/ Add(st) \/ Ask(st)
      PROVE  IInv'
  BY <1>3, LetKeeps, DelKeeps, GetKeeps, NewKeeps, CallMethodKeeps, PutKeeps, AddKeeps, AskKeeps
<1>4. \A op : \A st \in Says(op) : st \in session.statements /\ st.on \in DOMAIN main
  BY DEF Says
<1>5. CASE \E d \in session.declarations :
             \/ DeclareFunc(d) \/ DeclareInterface(d) \/ DeclareClass("", d)
             \/ \E by \in session.decorators : AnnotateFunc(by, d) \/ DeclareClass(by, d)
  BY <1>1, <1>5
<1>6. CASE \/ \E st \in Says("let") : Let(st)
           \/ \E st \in Says("del") : Del(st)
           \/ \E st \in Says("get") : Get(st)
           \/ \E st \in Says("new") : New(st)
           \/ \E st \in Says("call") : CallMethod(st)
           \/ \E st \in Says("put") : Put(st)
           \/ \E st \in Says("add") : Add(st)
           \/ \E st \in Says("ask") : Ask(st)
  BY <1>3, <1>4, <1>6
<1> QED BY <1>2, <1>5, <1>6 DEF Next

LEMMA IdleKeeps ==
  ASSUME IInv, UNCHANGED vars
  PROVE  IInv'
<1>1. /\ UNCHANGED <<session, main, types, open, objects>>
      /\ UNCHANGED <<status, fuel, rebound, patched, grown>>
  BY DEF vars
<1>2. Undeclared' = Undeclared /\ Settled' = Settled
  BY <1>1 DEF Undeclared, Settled
<1>3. Whole' = Whole
  BY <1>1, <1>2 DEF Whole
<1>4. \A t : Named(t)' = Named(t)
  BY <1>1 DEF Named, Leads
<1>5. /\ ClassesIn(Settled)' = ClassesIn(Settled) /\ IfacesIn(Settled)' = IfacesIn(Settled)
      /\ ClassesIn(Whole)' = ClassesIn(Whole) /\ IfacesIn(Whole)' = IfacesIn(Whole)
  BY <1>1, <1>2, <1>3, <1>4 DEF ClassesIn, IfacesIn
<1>6. TypeOK'
  BY <1>1 DEF IInv, TypeOK
<1>7. TypeOK /\ Formed /\ Opened /\ AllFulfil /\ types' = types /\ DOMAIN types' = DOMAIN types
      /\ Whole \subseteq DOMAIN types
  BY <1>1, SettledIs DEF IInv
<1>8. Follows
  BY <1>1, <1>2, <1>7 DEF Follows
<1>9. Formed'
  BY <1>6, <1>7, <1>8, FormedFollows DEF Formed
<1>10. Opened'
  BY <1>1, <1>7 DEF Opened
<1>11. MainFits' /\ TablesFit' /\ ObjectsFit'
  BY <1>1, <1>2, <1>5 DEF IInv, MainFits, TablesFit, ObjectsFit
<1>12. AllMade'
  BY <1>1, <1>5 DEF IInv, AllMade, Made, Astray
<1>13. AllFulfil'
  <2> SUFFICES ASSUME NEW t \in Whole PROVE Fulfils(t)'
    BY <1>3 DEF AllFulfil
  <2>1. t \in DOMAIN types \cap DOMAIN types' /\ Fulfils(t)
    BY <1>7 DEF AllFulfil
  <2>2. \A k \in DOMAIN types[t].line : types'[types[t].line[k]].table = types[types[t].line[k]].table
    BY <1>7
  <2> QED BY <1>6, <1>7, <1>8, <2>1, <2>2, FulfilsFollows
<1>14. OnlyTheUnguarded'
  BY <1>1 DEF IInv, OnlyTheUnguarded, Astray
<1> QED BY <1>6, <1>9, <1>10, <1>11, <1>12, <1>13, <1>14 DEF IInv

\* Whatever a script declares, decorates, makes, assigns and deletes, a value
\* leads to a class, interface, function or object that is there, a class
\* whose name was left alone is found by it, and a class has what its
\* interfaces ask for: the constructors of DeclClassType and DeclClassObject,
\* Exec of ClassDecl, InterfaceDecl and Annotation, and Attr and AttrAssign
\* keep it so.
THEOREM Invariance == Spec => []IInv
<1>1. IInv /\ [Next]_vars => IInv'
  BY NextKeeps, IdleKeeps
<1> QED BY InitHolds, <1>1, PTL DEF Spec

\* The variables keep their types: no step of a script makes a table, a type
\* or an object of another form.
THEOREM TypesKept == Spec => []TypeOK
<1>1. IInv => TypeOK
  BY DEF IInv
<1> QED BY <1>1, Invariance, PTL

\* An object is of the class it was made with, which is not abstract and lives
\* as long as the object does, unless that class lost its name, for any
\* classes, functions and scripts (object-factory.h NewDeclObject finds the
\* class by its name and keeps a weak pointer to it).
THEOREM ObjectsHaveTheirClass == Spec => []KeepsItsClass
<1>1. IInv => KeepsItsClass
  BY ClassStays
<1> QED BY <1>1, Invariance, PTL

\* A class has every method that the interfaces of its own list and those they
\* extend promise, and instanceof names no type too many, for any declarations;
\* of what the interfaces of its bases promise nothing is said
\* (CheckInterfaceCompatibility looks only at the interfaces of the class
\* itself, InstanceOfIface only at the first).
THEOREM PromisesAreKept == Spec => []InterfacesKept
<1>1. IInv => InterfacesKept
  BY InterfacesStay
<1> QED BY <1>1, Invariance, PTL

\* The process ends only for a class that lost its name, a wrapper or a built-in
\* function under a name that is asked of an object, in a table it looks in
\* first, or += on a field that is not there: every other lookup of Attr, Call
\* and instanceof finds what it dereferences or casts.
THEOREM NothingElseEnds == Spec => []OnlyTheUnguarded
<1>1. IInv => OnlyTheUnguarded
  BY DEF IInv
<1> QED BY <1>1, Invariance, PTL

\* Objects after a step.
SnapsKept == \A o \in DOMAIN objects : objects'[o].snap = objects[o].snap

LEMMA NewKeepsSnaps ==
  ASSUME IInv, NEW st \in session.statements, st.on \in DOMAIN main, New(st)
  PROVE  SnapsKept
<1>1. PICK v : v = main[st.on]
  OBVIOUS
<1>2. Runs /\ objects' = Call(v, st.n).objects
  BY <1>1 DEF New
<1>3. open = <<>> /\ TypeOK
  BY <1>2 DEF Runs, IInv
<1>4. st.n \in Nat
  BY <1>3, StatementAt
<1>5. /\ v \in Values /\ Fits(v, ClassesIn(DOMAIN types), IfacesIn(DOMAIN types), Len(objects))
      /\ v.k = "object" => <<"object", v.id>> \in Alive
  BY <1>1, <1>3, NamedAlive
<1>6. Sound(Call(v, st.n))
  BY <1>3, <1>4, <1>5, CallIs
<1> QED BY <1>2, <1>6 DEF Sound, After, SnapsKept

LEMMA MethodKeepsSnaps ==
  ASSUME IInv, NEW st \in session.statements, st.on \in DOMAIN main, CallMethod(st)
  PROVE  SnapsKept
<1>1. PICK got : got = Attr(main[st.on], st.attr)
  OBVIOUS
<1>2. /\ Runs
      /\ objects' = (IF got.how = "ok" THEN Call(got.v, st.n) ELSE Called(got.how, objects, Nothing)).objects
  BY <1>1 DEF CallMethod
<1>3. open = <<>> /\ TypeOK
  BY <1>2 DEF Runs, IInv
<1>4. st.n \in Nat
  BY <1>3, StatementAt
<1>5. CASE got.how = "ok"
  <2>1. GoodAnswer(got, st.attr)
    BY <1>1, <1>3, AttrIs
  <2>2. /\ got.v \in Values /\ Fits(got.v, ClassesIn(DOMAIN types), IfacesIn(DOMAIN types), Len(objects))
        /\ got.v.k = "object" => <<"object", got.v.id>> \in Alive
    BY <1>5, <2>1 DEF GoodAnswer
  <2>3. Sound(Call(got.v, st.n))
    BY <1>3, <1>4, <2>2, CallIs
  <2>4. objects' = Call(got.v, st.n).objects
    BY <1>2, <1>5
  <2> QED BY <2>3, <2>4 DEF Sound, After, SnapsKept
<1>6. CASE got.how # "ok"
  <2>1. objects' = objects
    BY <1>2, <1>6, CalledIs
  <2> QED BY <2>1 DEF SnapsKept
<1> QED BY <1>5, <1>6

LEMMA PutKeepsSnaps ==
  ASSUME IInv, NEW st \in session.statements, st.on \in DOMAIN main, Put(st)
  PROVE  SnapsKept
<1>1. PICK v : v = main[st.on]
  OBVIOUS
<1>2. PICK w : w = main[st.to]
  OBVIOUS
<1>3. PICK a : a = st.attr
  OBVIOUS
<1>4. Runs /\ st.to \in DOMAIN main
  BY DEF Put
<1>5. open = <<>> /\ TypeOK /\ objects \in Seq(ObjectRecords)
  BY <1>4 DEF Runs, IInv, TypeOK
<1>6. CASE v.k = "object"
  <2>1. objects' = [objects EXCEPT ![v.id].own = Assigned(@, a, w)]
    BY <1>1, <1>2, <1>3, <1>6 DEF Put
  <2>2. v.id \in DOMAIN objects /\ w \in Values /\ a \in STRING
    BY <1>1, <1>2, <1>3, <1>4, <1>5, <1>6, NamedAlive, StatementAt
  <2> QED BY <1>5, <2>1, <2>2, FieldAssigned DEF SnapsKept
<1>7. CASE v.k # "object"
  <2>1. objects' = objects
    BY <1>1, <1>7 DEF Put
  <2> QED BY <2>1 DEF SnapsKept
<1> QED BY <1>6, <1>7

LEMMA NextKeepsSnaps ==
  ASSUME IInv, Next
  PROVE  SnapsKept
<1>1. ASSUME objects' = objects PROVE SnapsKept
  BY <1>1 DEF SnapsKept
<1>2. CASE \E d \in session.declarations :
             \/ DeclareFunc(d) \/ DeclareInterface(d) \/ DeclareClass("", d)
             \/ \E by \in session.decorators : AnnotateFunc(by, d) \/ DeclareClass(by, d)
  <2>1. objects' = objects
    BY <1>2 DEF DeclareFunc, DeclareInterface, DeclareClass, AnnotateFunc
  <2> QED BY <1>1, <2>1
<1>3. CASE ExecMember \/ ExecInner \/ CloseClass
  <2>1. objects' = objects
    BY <1>3 DEF ExecMember, ExecInner, CloseClass, Declaring
  <2> QED BY <1>1, <2>1
<1>4. \A op : \A st \in Says(op) : st \in session.statements /\ st.on \in DOMAIN main
  BY DEF Says
<1>5. CASE \/ \E st \in Says("let") : Let(st)
           \/ \E st \in Says("del") : Del(st)
           \/ \E st \in Says("get") : Get(st)
           \/ \E st \in Says("add") : Add(st)
           \/ \E st \in Says("ask") : Ask(st)
  <2>1. objects' = objects
    BY <1>5 DEF Let, Del, Get, Add, Ask
  <2> QED BY <1>1, <2>1
<1>6. CASE \E st \in Says("new") : New(st)
  BY <1>4, <1>6, NewKeepsSnaps
<1>7. CASE \E st \in Says("call") : CallMethod(st)
  BY <1>4, <1>7, MethodKeepsSnaps
<1>8. CASE \E st \in Says("put") : Put(st)
  BY <1>4, <1>8, PutKeepsSnaps
<1> QED BY <1>2, <1>3, <1>5, <1>6, <1>7, <1>8 DEF Next

\* An object whose tables stay answers for what is in them as before.
LEMMA AnswersStay ==
  ASSUME IInv, NEW o \in DOMAIN objects, NEW a \in DOMAIN objects[o].own \cup DOMAIN objects[o].snap,
         objects'[o].own = objects[o].own, objects'[o].snap = objects[o].snap
  PROVE  ObjectAttr(o, a)' = ObjectAttr(o, a)
<1>1. PICK near : near = IF a \in DOMAIN objects[o].own THEN objects[o].own[a] ELSE objects[o].snap[a]
  OBVIOUS
<1>2. near # Nothing
  <2>1. objects[o].own \in Tables /\ objects[o].snap \in Tables
    BY ObjectAt DEF IInv
  <2> QED BY <1>1, <2>1, TableHas
<1>3. InScope(o, a) = near /\ InScope(o, a)' = near
  BY <1>1 DEF InScope
<1>4. PICK out : out = IF IsFunc(near) /\ ~Declared(near) THEN Answer("undefined", Nothing)
                       ELSE Answer("ok", IF IsFunc(near) /\ ~IsLambda(near) THEN Wrapped(near, o) ELSE near)
  OBVIOUS
<1>5. ObjectAttr(o, a) = out
  BY <1>2, <1>3, <1>4 DEF ObjectAttr
<1>6. ObjectAttr(o, a)' = out
  BY <1>2, <1>3, <1>4 DEF ObjectAttr
<1> QED BY <1>5, <1>6

\* What an object answers for its fields and the attributes of its own class
\* changes only when a field of it is assigned, whatever else a script does
\* (the constructor copies the tables of the class, Append(symbol_table_)).
THEOREM AnswersAreOwn == Spec => ObjectsKeep
<1> DEFINE A == \A o \in DOMAIN objects :
                  objects'[o].own = objects[o].own =>
                    \A a \in DOMAIN objects[o].own \cup DOMAIN objects[o].snap :
                      ObjectAttr(o, a)' = ObjectAttr(o, a)
<1>1. IInv /\ [Next]_vars => [A]_vars
  <2>1. ASSUME IInv, Next PROVE A
    <3>1. SnapsKept
      BY <2>1, NextKeepsSnaps
    <3> QED BY <2>1, <3>1, AnswersStay DEF SnapsKept
  <2> QED BY <2>1
<1> QED BY <1>1, Invariance, PTL DEF Spec, ObjectsKeep
=============================================================================
