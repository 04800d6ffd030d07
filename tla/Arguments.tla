----------------------------- MODULE Arguments -----------------------------
(***************************************************************************)
(* Declaring the parameters of a function and binding the arguments of its *)
(* calls (src/src/interpreter/stmt-executor.cc, FuncObjAux, and            *)
(* src/src/objects/func-object.cc, Handle*Arguments).                      *)
(*                                                                         *)
(* A parameter is named by its place in the declaration and the name Key   *)
(* is nobody's.  The value of an argument is its place in the call.        *)
(***************************************************************************)
EXTENDS Integers, Sequences, FiniteSets

CONSTANTS
  MaxParams,  \* bound: parameters in a declaration
  MaxItems,   \* bound: arguments in a call
  Unpacked,   \* sets of keys of the maps unpacked with ** in calls
  SizeT       \* how far a size_t counts

Key == MaxParams + 1
Keys == 1..Key

ASSUME BoundsAssumption ==
  MaxParams \in Nat /\ MaxItems \in Nat /\ SizeT \in Nat /\ SizeT > MaxParams + MaxItems + 1
ASSUME UnpackedAssumption == Unpacked \subseteq SUBSET Keys

This == 0      \* the parameter a method has in front, and its argument
Default == -1  \* the value of a default parameter
Missing == -2  \* an ObjectPtr without an object

Items == [form : {"value"}, keys : {{}}] \cup [form : {"key"}, keys : {{k} : k \in Keys}]
         \cup [form : {"map"}, keys : Unpacked]
Calls == UNION {[1..n -> Items] : n \in 0..MaxItems}
Kinds == {"plain", "default", "variadic", "kwargs"}
Declarations == UNION {[1..n -> Kinds] : n \in 0..MaxParams}

VARIABLES
  declared, \* is the function declared?
  kinds,    \* its declaration
  method,   \* is it a method, called on an instance?
  names,    \* params_
  defaults, \* default_values_
  call,     \* the arguments of the last call
  result    \* and what became of them

vars == <<declared, kinds, method, names, defaults, call, result>>

Has(kind) == \E i \in DOMAIN kinds : kinds[i] = kind

Refuse == [status |-> "refused", vars |-> <<>>, rest |-> <<>>, extra |-> <<>>]
Crash == [Refuse EXCEPT !.status = "undefined"]
Bind(bound, rest, extra) == [status |-> "ok", vars |-> bound, rest |-> rest, extra |-> extra]

(* The elements of a set of numbers, smallest first.                       *)
Ascending(s) == \A i, j \in DOMAIN s : i < j => s[i] < s[j]
InOrder(S) == CHOOSE s \in [1..Cardinality(S) -> S] : Ascending(s)

Init ==
  /\ declared = FALSE /\ kinds = <<>> /\ method = FALSE
  /\ names = <<>> /\ defaults = <<>> /\ call = <<>>
  /\ result = [Refuse EXCEPT !.status = "none"]

-----------------------------------------------------------------------------
(* The declaration.                                                        *)

Accepted(ks) ==
  /\ \A i, j \in DOMAIN ks : i < j =>
       /\ ks[i] = "default" => ks[j] # "plain"
       /\ ks[i] = "variadic" => ks[j] \in {"default", "kwargs"}
       /\ ks[i] = "kwargs" => ks[j] \notin {"variadic", "kwargs"}

(* A default parameter after "..." or "**" is in default_values_ only.     *)
Named(ks) ==
  {i \in DOMAIN ks : ks[i] = "default" => \A j \in 1..(i - 1) : ks[j] \notin {"variadic", "kwargs"}}
NamesOf(ks) == InOrder(Named(ks))

Declare(ks, m) ==
  /\ ~declared /\ Accepted(ks)
  /\ declared' = TRUE /\ kinds' = ks /\ method' = m
  /\ names' = (IF m THEN <<This>> ELSE <<>>) \o NamesOf(ks)
  /\ defaults' = [p \in {i \in DOMAIN ks : ks[i] = "default"} |-> Default]
  /\ UNCHANGED <<call, result>>

-----------------------------------------------------------------------------
(* The arguments of a call: ArgumentsExecutor.                             *)

(* What is refused: a value after a keyword, and a map with a key that was *)
(* given before.  A keyword given before is ignored instead.               *)
BadArguments(items) ==
  \E i, j \in DOMAIN items : i < j
    /\ \/ items[i].form # "value" /\ items[j].form = "value"
       \/ items[j].form = "map" /\ items[i].keys \cap items[j].keys # {}

Positional(items) == InOrder({i \in DOMAIN items : items[i].form = "value"})
Keywords(items) ==
  [k \in UNION {items[i].keys : i \in DOMAIN items} |->
     CHOOSE i \in DOMAIN items : k \in items[i].keys
                                 /\ \A j \in 1..(i - 1) : k \notin items[j].keys]

-----------------------------------------------------------------------------
(* Binding positional arguments pos and keywords kw.                       *)

Required(n) == (n - Cardinality(DOMAIN defaults)) % SizeT
First(n) == {names[i] : i \in (1..n) \cap DOMAIN names}
Index(p) == CHOOSE i \in DOMAIN names : names[i] = p

(* The first n parameters: a positional argument, a keyword, or            *)
(* default_values_[p], which makes an entry when there is none.            *)
DefaultParam(p) == IF p \in DOMAIN defaults THEN defaults[p] ELSE Missing
Filled(n, pos, kw) ==
  [p \in First(n) |-> IF Index(p) <= Len(pos) THEN pos[Index(p)]
                      ELSE IF p \in DOMAIN kw THEN kw[p] ELSE DefaultParam(p)]
Unfilled(n, pos, kw) == First(n) \ (First(Len(pos)) \cup DOMAIN kw)
WithEntries(S) == [p \in DOMAIN defaults \cup S |-> DefaultParam(p)]

Others(kw, S) == [k \in DOMAIN kw \ S |-> kw[k]]
From(n, pos) == SubSeq(pos, n + 1, Len(pos))

\* Mutant: one argument too few is let through.
SimpleTooFew(pos, kw) ==
  LET n == Len(names)
      given == Len(pos) + Cardinality(DOMAIN kw) IN
  IF \/ given + 1 < Required(n) \/ given > n
     \/ \E k \in DOMAIN kw : k \notin First(n) \/ k \in First(Len(pos))
  THEN result' = Refuse /\ UNCHANGED defaults
  ELSE /\ result' = Bind(Filled(n, pos, kw), <<>>, <<>>)
       /\ defaults' = WithEntries(Unfilled(n, pos, kw))

\* Mutant: keywords are kept as defaults of the calls that follow.
SimpleRemembers(pos, kw) ==
  LET n == Len(names)
      given == Len(pos) + Cardinality(DOMAIN kw) IN
  IF \/ given < Required(n) \/ given > n
     \/ \E k \in DOMAIN kw : k \notin First(n) \/ k \in First(Len(pos))
  THEN result' = Refuse /\ UNCHANGED defaults
  ELSE /\ result' = Bind(Filled(n, pos, kw), <<>>, <<>>)
       /\ defaults' = [p \in DOMAIN defaults |->
            IF p \in DOMAIN kw THEN kw[p] ELSE defaults[p]]

(* HandleSimpleArguments.                                                  *)
Simple(pos, kw) ==
  LET n == Len(names)
      given == Len(pos) + Cardinality(DOMAIN kw) IN
  IF \/ given < Required(n) \/ given > n
     \/ \E k \in DOMAIN kw : k \notin First(n) \/ k \in First(Len(pos))
  THEN result' = Refuse /\ UNCHANGED defaults
  ELSE /\ result' = Bind(Filled(n, pos, kw), <<>>, <<>>)
       /\ defaults' = WithEntries(Unfilled(n, pos, kw))

(* HandleVariadicArguments: the defaults overwrite what the positional     *)
(* arguments set, and keywords may only name default parameters.           *)
Variadic(pos, kw) ==
  LET n == Len(names) - 1 IN
  /\ result' = IF Len(pos) < n \/ ~ DOMAIN kw \subseteq DOMAIN defaults THEN Refuse
               ELSE Bind([p \in First(n) \cup DOMAIN defaults |->
                            IF p \in DOMAIN kw THEN kw[p]
                            ELSE IF p \in DOMAIN defaults THEN defaults[p]
                            ELSE pos[Index(p)]],
                         From(n, pos), <<>>)
  /\ UNCHANGED defaults

\* Mutant: keywords do not count towards the arguments that are needed.
KwargsByPosition(pos, kw) ==
  LET n == Len(names) - 1 IN
  IF Len(pos) < Required(n)
  THEN result' = Refuse /\ UNCHANGED defaults
  ELSE IF Len(pos) > n THEN result' = Crash /\ UNCHANGED defaults
  ELSE IF DOMAIN kw \cap First(Len(pos)) # {}
  THEN result' = Refuse /\ UNCHANGED defaults
  ELSE /\ result' = Bind(Filled(n, pos, kw), <<>>, Others(kw, First(n)))
       /\ defaults' = WithEntries(Unfilled(n, pos, kw))

(* HandleKwargsArguments: more positional arguments than parameters write  *)
(* past the end of params_fill.                                            *)
Kwargs(pos, kw) ==
  LET n == Len(names) - 1 IN
  IF Len(pos) + Cardinality(DOMAIN kw \cap First(n)) < Required(n)
  THEN result' = Refuse /\ UNCHANGED defaults
  ELSE IF Len(pos) > n THEN result' = Crash /\ UNCHANGED defaults
  ELSE IF DOMAIN kw \cap First(Len(pos)) # {}
  THEN result' = Refuse /\ UNCHANGED defaults
  ELSE /\ result' = Bind(Filled(n, pos, kw), <<>>, Others(kw, First(n)))
       /\ defaults' = WithEntries(Unfilled(n, pos, kw))

\* Mutant: the tuple begins one argument too late.
BothSkipsOne(pos, kw) ==
  LET n == Len(names) - 2 IN
  /\ result' = IF Len(pos) < n \/ DOMAIN kw \cap First(n) # {} THEN Refuse
               ELSE Bind([p \in First(n) \cup DOMAIN defaults |->
                            IF p \in First(n) THEN pos[Index(p)] ELSE defaults[p]],
                         From(n + 1, pos), Others(kw, DOMAIN defaults))
  /\ UNCHANGED defaults

(* HandleVariadicAndKwargsArguments: a keyword for a default parameter     *)
(* after the variadic one is overwritten by the default.                   *)
Both(pos, kw) ==
  LET n == Len(names) - 2 IN
  /\ result' = IF Len(pos) < n \/ DOMAIN kw \cap First(n) # {} THEN Refuse
               ELSE Bind([p \in First(n) \cup DOMAIN defaults |->
                            IF p \in First(n) THEN pos[Index(p)] ELSE defaults[p]],
                         From(n, pos), Others(kw, DOMAIN defaults))
  /\ UNCHANGED defaults

(* HandleArguments.                                                        *)
Handle(pos, kw) ==
  \/ Has("variadic") /\ Has("kwargs") /\ Both(pos, kw)
  \/ Has("variadic") /\ ~Has("kwargs") /\ Variadic(pos, kw)
  \/ ~Has("variadic") /\ Has("kwargs") /\ Kwargs(pos, kw)
  \/ ~Has("variadic") /\ ~Has("kwargs") /\ Simple(pos, kw)

(* FuncCallExecutor; FuncWrapperObject::Call puts the instance in front,   *)
(* and does not pass the keywords on.                                      *)
Call(items) ==
  /\ declared /\ call' = items
  /\ IF BadArguments(items) THEN result' = Refuse /\ UNCHANGED defaults
     ELSE IF method THEN Handle(<<This>> \o Positional(items), <<>>)
     ELSE Handle(Positional(items), Keywords(items))
  /\ UNCHANGED <<declared, kinds, method, names>>

Next ==
  \/ \E ks \in Declarations, m \in BOOLEAN : Declare(ks, m)
  \/ \E items \in Calls : Call(items)

Spec == Init /\ [][Next]_vars

-----------------------------------------------------------------------------
(* What should be true of it.                                              *)

(* The parameters that take one argument each.                             *)
Regular == {i \in DOMAIN kinds : kinds[i] \in {"plain", "default"}}

(* Declarations whose arguments are bound as one would expect: "**" is the *)
(* last parameter, and no default parameter goes with a variadic one.      *)
KwargsLast == \A i \in DOMAIN kinds : kinds[i] = "kwargs" => i = Len(kinds)
Sound == KwargsLast /\ (Has("variadic") => ~Has("default"))

HasKeywords(items) == \E i \in DOMAIN items : items[i].form # "value"

\* No argument of an accepted call is lost or bound twice: positional ones fill
\* the parameters from the left and then the tuple, keywords their parameter or
\* the map, and nothing else is in the tuple and the map (Handle*Arguments).
GivenIsBound ==
  result.status = "ok" /\ Sound /\ (method => ~HasKeywords(call)) =>
    LET pos == Positional(call)  kw == Keywords(call)  n == Cardinality(Regular) IN
    /\ \A i \in DOMAIN pos :
         IF i <= n THEN result.vars[i] = pos[i]
         ELSE i - n \in DOMAIN result.rest /\ result.rest[i - n] = pos[i]
    /\ Len(pos) = Len(result.rest) + Cardinality({i \in DOMAIN pos : i <= n})
    /\ \A k \in DOMAIN kw :
         IF k \in Regular THEN result.vars[k] = kw[k]
         ELSE k \in DOMAIN result.extra /\ result.extra[k] = kw[k]
    /\ DOMAIN result.extra = DOMAIN kw \ Regular

\* A default parameter that is not given has its default, whatever calls came
\* before, although binding writes to default_values_ (GetDefaultParam).
DefaultsStay ==
  result.status = "ok" /\ KwargsLast =>
    \A p \in DOMAIN kinds :
      /\ kinds[p] = "default"
      /\ p \notin DOMAIN Keywords(call)
      /\ p \notin First(Len(Positional(call)) + (IF method THEN 1 ELSE 0))
      => result.vars[p] = Default

\* A parameter without a default is never left without an object by a call
\* without keywords, unless an earlier call with keywords has left it so.
MissingIsRefused ==
  [][result'.status = "ok" /\ KwargsLast /\ ~HasKeywords(call')
     /\ (\A p \in DOMAIN defaults : defaults[p] # Missing)
     => \A p \in DOMAIN result'.vars : result'.vars[p] # Missing]_vars

(* Every parameter that needs an argument gets one, and none gets two.     *)
Complete(items) ==
  LET pos == Positional(items)  kw == Keywords(items) IN
  /\ ~BadArguments(items)
  /\ \A p \in Regular : ~ (p <= Len(pos) /\ p \in DOMAIN kw)
  /\ \A p \in Regular : kinds[p] = "plain" => p <= Len(pos) \/ p \in DOMAIN kw
  /\ Len(pos) <= Cardinality(Regular) \/ Has("variadic")
  /\ DOMAIN kw \subseteq Regular \/ Has("kwargs")

\* A call that gives every parameter what it needs, once, is accepted; to a
\* function with "..." the parameters before it must be given by position.
CompleteIsAccepted ==
  /\ result.status # "none" /\ Sound /\ Complete(call)
  /\ method => ~HasKeywords(call)
  /\ Has("variadic") => DOMAIN Keywords(call) \cap Regular = {}
  => result.status = "ok"
=============================================================================
