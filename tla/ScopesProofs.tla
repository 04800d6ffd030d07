---------------------------- MODULE ScopesProofs ----------------------------
(***************************************************************************)
(* Proofs about Scopes: types, and who may assign whose variables, for any *)
(* names, values and functions and without the bounds of a run.            *)
(***************************************************************************)
EXTENDS Scopes, WellFoundedInduction, TLAPS

LEMMA LastIsLast ==
  ASSUME NEW n \in Nat, NEW S, S \subseteq 1..n, S # {}
  PROVE  Last(S) \in S /\ \A i \in S : i <= Last(S)
<1> DEFINE T == {n - i : i \in S}
<1>1. \A i \in S : n - i \in Nat /\ i \in Int
  OBVIOUS
<1>2. T \subseteq Nat /\ T # {}
  BY <1>1, Zenon
<1>3. \E x \in T : \A y \in T : ~ (<<y, x>> \in OpToRel(<, Nat))
  <2> HIDE DEF T
  <2> QED BY <1>2, NatLessThanWellFounded, WFMin
<1>4. PICK x \in T : \A y \in T : ~ (<<y, x>> \in OpToRel(<, Nat))
  BY <1>3
<1>5. \A y \in T : ~(y < x)
  BY <1>2, <1>4 DEF OpToRel
<1>6. PICK i \in S : x = n - i
  BY Zenon
<1>7. \A j \in S : ~(n - j < n - i)
  BY <1>5, <1>6, Zenon
<1>8. i \in Int /\ n \in Int /\ \A j \in S : j \in Int
  BY <1>1
<1>9. \A j \in S : j <= i
  <2> HIDE DEF T
  <2> QED BY <1>7, <1>8
<1> QED BY <1>9, Zenon DEF Last

-----------------------------------------------------------------------------
(* The running activation and its stack.                                   *)

LEMMA RunningFacts ==
  ASSUME Inductive
  PROVE  /\ Len(calls) \in Nat \ {0} /\ Len(calls) \in DOMAIN calls
         /\ Running \in CallType /\ calls[Len(calls)] = Running
         /\ Here \in Seq(DOMAIN tables) /\ Len(Here) \in Nat
         /\ DOMAIN Here = 1..Len(Here) /\ DOMAIN tables = 1..Len(tables)
         /\ Len(tables) \in Nat
<1>1. calls \in Seq(CallType) /\ calls # <<>> /\ stack \in [Funcs -> Seq(DOMAIN tables)]
      /\ tables \in Seq(TableType)
  BY DEF Inductive, TypeOK, Active
<1>2. Len(calls) \in Nat \ {0} /\ Len(calls) \in DOMAIN calls /\ Running \in CallType
  BY <1>1 DEF Running
<1>3. Here \in Seq(DOMAIN tables)
  BY <1>1, <1>2 DEF Here, CallType
<1> QED BY <1>1, <1>2, <1>3 DEF Running

LEMMA CallsTyped ==
  ASSUME Inductive, NEW i \in DOMAIN calls
  PROVE  /\ i \in 1..Len(calls) /\ calls[i] \in CallType
         /\ calls[i].id \in Nat /\ calls[i].fn \in Funcs /\ calls[i].base \in Nat \ {0}
         /\ stack[calls[i].fn] \in Seq(DOMAIN tables) /\ posFunc[calls[i].fn] \in Nat
<1>1. calls \in Seq(CallType) /\ stack \in [Funcs -> Seq(DOMAIN tables)]
      /\ posFunc \in [Funcs -> Nat]
  BY DEF Inductive, TypeOK
<1>2. i \in 1..Len(calls) /\ calls[i] \in CallType
  BY <1>1
<1>3. calls[i].id \in Nat /\ calls[i].fn \in Funcs /\ calls[i].base \in Nat \ {0}
  BY <1>2 DEF CallType
<1> QED BY <1>1, <1>2, <1>3

LEMMA RunningInside ==
  ASSUME Inductive, Running.fn # 0
  PROVE  /\ Len(calls) > 1
         /\ Running.fn \in Decls \cup 1..lambdas
         /\ Running.base <= Len(Here) /\ Running.base \in Nat \ {0}
         /\ Here # <<>>
<1>1. Len(calls) > 1
  BY RunningFacts DEF Inductive, Active, Running
<1>2. Running.fn \in Decls \cup 1..lambdas /\ Running.base <= Len(Here)
  BY <1>1, RunningFacts DEF Inductive, Active, Here
<1> QED BY <1>1, <1>2, RunningFacts DEF CallType

LEMMA RunningOutside ==
  ASSUME Inductive, Running.fn = 0
  PROVE  Len(calls) = 1 /\ Running.id = 0 /\ Running.base = 1
<1>1. ~ (Len(calls) > 1)
  <2> SUFFICES ASSUME Len(calls) > 1 PROVE FALSE
    OBVIOUS
  <2>1. 0 \in Decls \cup 1..lambdas
    BY RunningFacts DEF Inductive, Active, Running
  <2> QED BY <2>1, DeclsAssumption
<1>2. Len(calls) = 1
  <2>1. PICK n \in Nat \ {0} : n = Len(calls)
    BY RunningFacts
  <2> QED BY <2>1, <1>1
<1>3. calls[1] = [id |-> 0, fn |-> 0, base |-> 1, gave |-> Absent]
  BY DEF Inductive, Active
<1> QED BY <1>2, <1>3 DEF Running

(* Above the base of the running activation, everything is its own.        *)
LEMMA OwnTop ==
  ASSUME Inductive, NEW p \in DOMAIN Here, p >= Running.base
  PROVE  Owner(Running.fn, p) = Running.id
BY RunningFacts DEF Inductive, OwnTables, Here, Running

-----------------------------------------------------------------------------
(* Where an assignment goes.                                               *)

LEMMA HoldersLast ==
  ASSUME Inductive, NEW x, NEW b, Holders(x, b) # {}
  PROVE  /\ Last(Holders(x, b)) \in DOMAIN Here /\ Last(Holders(x, b)) >= b
         /\ Here[Last(Holders(x, b))] \in DOMAIN tables
<1>1. Holders(x, b) \subseteq 1..Len(Here)
  BY RunningFacts DEF Holders
<1>2. Last(Holders(x, b)) \in Holders(x, b)
  BY <1>1, RunningFacts, LastIsLast
<1>3. Last(Holders(x, b)) \in DOMAIN Here /\ Last(Holders(x, b)) >= b
  BY <1>2 DEF Holders
<1> QED BY <1>3, RunningFacts

(* From the position an assignment stops at upwards, every table is one    *)
(* the running activation may modify.                                      *)
LEMMA PosReach ==
  ASSUME Inductive, NEW p \in DOMAIN Here, p >= posFunc[Running.fn] \/ p >= Running.base
  PROVE  Owner(Running.fn, p) \in Reach
<1>1. p \in 1..Len(Here) /\ Here[p] \in DOMAIN tables
  BY RunningFacts
<1>2. CASE p >= Running.base
  BY <1>2, OwnTop DEF Reach
<1>3. CASE ~(p >= Running.base)
  <2>1. Running.fn # 0
    BY <1>1, <1>3, RunningOutside
  <2>2. p >= posFunc[Running.fn]
    BY <1>3
  <2>3. Running.fn \notin Decls
    <3> SUFFICES ASSUME Running.fn \in Decls PROVE FALSE
      OBVIOUS
    <3>1. posFunc[Running.fn] >= Running.base
      BY RunningFacts DEF Inductive, PosAhead, Running
    <3>2. posFunc[Running.fn] \in Nat /\ Running.base \in Nat
      BY RunningFacts DEF Inductive, TypeOK, CallType
    <3> QED BY <3>1, <3>2, <2>2, <1>1, <1>3
  <2>4. Running.fn \in 1..lambdas /\ InLambda
    <3>1. Running.fn \in 1..lambdas
      BY <2>1, <2>3, RunningInside
    <3>2. lambdas \in 0..MaxLambdas /\ MaxLambdas \in Nat
      BY BoundsAssumption DEF Inductive, TypeOK
    <3> QED BY <3>1, <3>2 DEF InLambda, Lambdas
  <2>5. CASE \E i \in DOMAIN calls : calls[i].fn = Running.fn /\ p >= calls[i].base
    <3>1. Owner(Running.fn, p) \in Activations(Running.fn)
      BY <2>5, <1>1, RunningFacts DEF Inductive, Layers, Here
    <3> QED BY <3>1, <2>4 DEF Reach
  <2>6. CASE ~ \E i \in DOMAIN calls : calls[i].fn = Running.fn /\ p >= calls[i].base
    <3>1. \A i \in DOMAIN calls : calls[i].base \in Nat
      BY CallsTyped
    <3>2. \A i \in DOMAIN calls : calls[i].fn = Running.fn => p < calls[i].base
      BY <3>1, <2>6, <1>1
    <3>3. Owner(Running.fn, p) \in around[Running.fn]
      BY <3>2, <2>2, <2>4, <1>1, RunningFacts DEF Inductive, Captured, Here
    <3> QED BY <3>3, <2>4 DEF Reach
  <2> QED BY <2>5, <2>6
<1> QED BY <1>2, <1>3

(* The table is one the running activation may modify, or the main one.    *)
LEMMA RefReach ==
  ASSUME Inductive, NEW x, Ref(x) # 0
  PROVE  Ref(x) \in DOMAIN tables /\ tables[Ref(x)].owner \in Reach
<1> DEFINE P(p) == /\ p \in DOMAIN Here /\ Ref(x) = Here[p]
                   /\ p >= posFunc[Running.fn] \/ p >= Running.base
<1>0. ASSUME NEW p, P(p)
      PROVE  Ref(x) \in DOMAIN tables /\ tables[Ref(x)].owner \in Reach
  <2>1. Ref(x) \in DOMAIN tables
    BY <1>0, RunningFacts
  <2>2. Owner(Running.fn, p) \in Reach
    BY <1>0, PosReach
  <2>3. Owner(Running.fn, p) = tables[Ref(x)].owner
    BY <1>0 DEF Owner, Here
  <2> QED BY <2>1, <2>2, <2>3
<1>1. CASE posFunc[Running.fn] > 0
  <2>1. Running.fn # 0
    BY <1>1 DEF Inductive, PosAhead
  <2>2. CASE Holders(x, posFunc[Running.fn]) # {}
    <3>1. P(Last(Holders(x, posFunc[Running.fn])))
      BY <1>1, <2>2, HoldersLast DEF Ref, FuncRef
    <3> QED BY <3>1, <1>0
  <2>3. CASE Holders(x, posFunc[Running.fn]) = {}
    <3>1. Ref(x) = Here[Len(Here)]
      BY <1>1, <2>3 DEF Ref, FuncRef
    <3>2. P(Len(Here))
      BY <3>1, <2>1, RunningInside, RunningFacts
    <3> QED BY <3>2, <1>0
  <2> QED BY <2>2, <2>3
<1>2. CASE ~(posFunc[Running.fn] > 0)
  <2>1. posFunc[Running.fn] = 0
    BY <1>2, RunningFacts DEF Inductive, TypeOK, CallType
  <2>2. CASE Holders(x, 1) # {}
    <3>1. P(Last(Holders(x, 1)))
      BY <1>2, <2>1, <2>2, HoldersLast, RunningFacts DEF Ref, RootRef
    <3> QED BY <3>1, <1>0
  <2>3. CASE Holders(x, 1) = {}
    <3>1. Ref(x) = Here[Len(Here)] /\ Here # <<>>
      BY <1>2, <2>3 DEF Ref, RootRef
    <3>2. P(Len(Here))
      BY <3>1, <2>1, RunningFacts
    <3> QED BY <3>2, <1>0
  <2> QED BY <2>2, <2>3
<1> QED BY <1>1, <1>2

-----------------------------------------------------------------------------
(* The steps that leave the shape of the stacks alone.                     *)

LEMMA FuncsFacts ==
  ASSUME Inductive
  PROVE  /\ 0 \in Funcs /\ Decls \subseteq Funcs /\ 1..lambdas \subseteq Funcs
         /\ 0 \notin Decls \cup 1..lambdas /\ lambdas \in Nat
         /\ \A l \in Lambdas : l \in Funcs \ Decls /\ l # 0
         /\ Lambdas = 1..MaxLambdas /\ MaxLambdas \in Nat
<1>1. lambdas \in 0..MaxLambdas /\ MaxLambdas \in Nat
  BY BoundsAssumption DEF Inductive, TypeOK
<1> QED BY <1>1, DeclsAssumption DEF Funcs, Lambdas

LEMMA OwnerTyped ==
  ASSUME Inductive, NEW f \in Funcs, NEW p \in DOMAIN stack[f]
  PROVE  /\ p \in 1..Len(stack[f]) /\ stack[f][p] \in DOMAIN tables
         /\ Owner(f, p) \in Nat /\ Owner(f, p) <= born
<1>1. stack[f] \in Seq(DOMAIN tables) /\ tables \in Seq(TableType)
  BY DEF Inductive, TypeOK
<1>2. p \in 1..Len(stack[f]) /\ stack[f][p] \in DOMAIN tables
  BY <1>1
<1>3. tables[stack[f][p]] \in TableType
  BY <1>1, <1>2
<1>4. tables[stack[f][p]].owner \in Nat /\ tables[stack[f][p]].owner <= born
  BY <1>2, <1>3 DEF TableType, Inductive, Active
<1> QED BY <1>2, <1>4 DEF Owner

(* The same activations, whatever they gave.                               *)
CallsAlike ==
  /\ DOMAIN calls' = DOMAIN calls /\ calls' # <<>> /\ calls'[1] = calls[1]
  /\ \A i \in DOMAIN calls : /\ calls'[i].id = calls[i].id /\ calls'[i].fn = calls[i].fn
                             /\ calls'[i].base = calls[i].base

LEMMA SameShape ==
  ASSUME Inductive, CallsAlike, UNCHANGED <<stack, posFunc, born, lambdas, around>>,
         DOMAIN tables' = DOMAIN tables,
         \A t \in DOMAIN tables : tables'[t].owner = tables[t].owner
  PROVE  Active' /\ PosAhead' /\ OwnTables' /\ Layers' /\ Captured'
<1>1. Active'
  <2>1. calls'[1] = [id |-> 0, fn |-> 0, base |-> 1, gave |-> Absent] /\ calls' # <<>>
    BY DEF Inductive, Active, CallsAlike
  <2>2. \A i \in DOMAIN calls' :
          /\ calls'[i].id <= born'
          /\ i > 1 => /\ calls'[i].fn \in Decls \cup 1..lambdas'
                      /\ calls'[i].base <= Len(stack'[calls'[i].fn])
    BY DEF Inductive, Active, CallsAlike
  <2>3. \A i, j \in DOMAIN calls' :
          i < j => calls'[i].id < calls'[j].id
                   /\ (calls'[i].fn = calls'[j].fn => calls'[i].base < calls'[j].base)
    BY DEF Inductive, Active, CallsAlike
  <2>4. \A t \in DOMAIN tables' : tables'[t].owner <= born'
    BY DEF Inductive, Active
  <2> QED BY <2>1, <2>2, <2>3, <2>4 DEF Active
<1>2. PosAhead'
  BY DEF Inductive, PosAhead, CallsAlike
<1>3. \A f \in Funcs : \A p \in DOMAIN stack[f] : Owner(f, p)' = Owner(f, p)
  BY OwnerTyped DEF Owner
<1>4. \A i \in DOMAIN calls : calls[i].fn \in Funcs
  BY CallsTyped
<1>5. OwnTables'
  <2> SUFFICES ASSUME NEW i \in DOMAIN calls, NEW f \in Funcs, f = calls[i].fn,
                      NEW p \in DOMAIN stack[f], p >= calls[i].base,
                      \A j \in DOMAIN calls : j > i /\ calls[j].fn = f => p < calls[j].base
               PROVE  Owner(f, p)' = calls[i].id
    BY <1>4 DEF OwnTables, Owner, CallsAlike
  <2> QED BY <1>3 DEF Inductive, OwnTables
<1>6. Layers'
  <2> SUFFICES ASSUME NEW i \in DOMAIN calls, NEW f \in Funcs, f = calls[i].fn,
                      NEW p \in DOMAIN stack[f]
               PROVE  IF p >= calls[i].base
                      THEN \E j \in DOMAIN calls : calls[j].fn = f /\ calls[j].id = Owner(f, p)'
                      ELSE Owner(f, p)' < calls[i].id
    BY <1>4 DEF Layers, Activations, Owner, CallsAlike
  <2> QED BY <1>3 DEF Inductive, Layers, Activations
<1>7. Captured'
  <2> SUFFICES ASSUME NEW l \in 1..lambdas, NEW p \in DOMAIN stack[l], p >= posFunc[l],
                      \A i \in DOMAIN calls : calls[i].fn = l => p < calls[i].base
               PROVE  Owner(l, p)' \in around[l]
    BY DEF Captured, CallsAlike
  <2> QED BY <1>3, FuncsFacts DEF Inductive, Captured
<1> QED BY <1>1, <1>2, <1>5, <1>6, <1>7
(***************************************************************************)
(* The steps that make a table, with T in it, and put it on the stack of g *)
(* above the tables of f.                                                  *)
(***************************************************************************)
Pushed(f, g, T) ==
  /\ tables' = Append(tables, T)
  /\ stack' = [stack EXCEPT ![g] = Append(stack[f], Len(tables) + 1)]

LEMMA PushedShape ==
  ASSUME Inductive, NEW f \in Funcs, NEW g \in Funcs, NEW T, Pushed(f, g, T)
  PROVE  /\ \A h \in Funcs \ {g} : /\ DOMAIN stack'[h] = DOMAIN stack[h]
                                   /\ \A p \in DOMAIN stack[h] : Owner(h, p)' = Owner(h, p)
         /\ DOMAIN stack'[g] = 1..(Len(stack[f]) + 1) /\ Len(stack'[g]) = Len(stack[f]) + 1
         /\ \A p \in 1..Len(stack[f]) : Owner(g, p)' = Owner(f, p)
         /\ \A p \in DOMAIN stack'[g] : p \notin 1..Len(stack[f]) =>
              p = Len(stack[f]) + 1 /\ Owner(g, p)' = T.owner
         /\ \A h \in Funcs : h # g => stack'[h] = stack[h]
<1>1. stack \in [Funcs -> Seq(DOMAIN tables)] /\ tables \in Seq(TableType)
  BY DEF Inductive, TypeOK
<1>2. \A t \in 1..Len(tables) : tables'[t] = tables[t]
  BY <1>1 DEF Pushed
<1>3. tables'[Len(tables) + 1] = T
  BY <1>1 DEF Pushed
<1>4. \A h \in Funcs : h # g => stack'[h] = stack[h]
  BY <1>1 DEF Pushed
<1>5. stack'[g] = Append(stack[f], Len(tables) + 1) /\ stack[f] \in Seq(DOMAIN tables)
  BY <1>1 DEF Pushed
<1>6. /\ DOMAIN stack'[g] = 1..(Len(stack[f]) + 1) /\ Len(stack'[g]) = Len(stack[f]) + 1
      /\ \A p \in 1..Len(stack[f]) : stack'[g][p] = stack[f][p]
      /\ stack'[g][Len(stack[f]) + 1] = Len(tables) + 1
      /\ Len(stack[f]) \in Nat
  BY <1>5
<1>7. \A h \in Funcs : \A p \in DOMAIN stack[h] : tables'[stack[h][p]] = tables[stack[h][p]]
  <2>1. \A h \in Funcs : \A p \in DOMAIN stack[h] : stack[h][p] \in 1..Len(tables)
    BY <1>1, OwnerTyped
  <2> QED BY <1>2, <2>1
<1>8. \A h \in Funcs \ {g} : /\ DOMAIN stack'[h] = DOMAIN stack[h]
                             /\ \A p \in DOMAIN stack[h] : Owner(h, p)' = Owner(h, p)
  BY <1>4, <1>7 DEF Owner
<1>9. \A p \in 1..Len(stack[f]) : Owner(g, p)' = Owner(f, p)
  BY <1>1, <1>6, <1>7 DEF Owner
<1>10. \A p \in DOMAIN stack'[g] : p \notin 1..Len(stack[f]) =>
         p = Len(stack[f]) + 1 /\ Owner(g, p)' = T.owner
  BY <1>3, <1>6 DEF Owner
<1> QED BY <1>4, <1>6, <1>8, <1>9, <1>10

(***************************************************************************)
(* OpenBlock.                                                              *)
(***************************************************************************)
LEMMA OpenBlockShape ==
  ASSUME Inductive, OpenBlock
  PROVE  Active' /\ PosAhead' /\ OwnTables' /\ Layers' /\ Captured'
<1> DEFINE T == Table("scope", Nothing)
<1>0. PICK r \in Funcs : r = Running.fn
  BY RunningFacts DEF CallType
<1>1. T.owner = Running.id /\ Pushed(r, r, T)
  BY <1>0, RunningFacts DEF OpenBlock, Table, Running, Pushed, Here
<1> HIDE DEF T
<1>2. UNCHANGED <<posFunc, calls, born, lambdas, around>>
  BY DEF OpenBlock
<1>3. \A i \in DOMAIN calls : /\ calls[i].fn \in Funcs /\ calls[i].base \in Nat \ {0}
                              /\ i \in 1..Len(calls) /\ calls[i].id \in Nat
  BY CallsTyped
<1>4. /\ \A h \in Funcs \ {r} : /\ DOMAIN stack'[h] = DOMAIN stack[h]
                                /\ \A p \in DOMAIN stack[h] : Owner(h, p)' = Owner(h, p)
      /\ DOMAIN stack'[r] = 1..(Len(stack[r]) + 1) /\ Len(stack'[r]) = Len(stack[r]) + 1
      /\ \A p \in 1..Len(stack[r]) : Owner(r, p)' = Owner(r, p)
      /\ \A p \in DOMAIN stack'[r] : p \notin 1..Len(stack[r]) =>
           p = Len(stack[r]) + 1 /\ Owner(r, p)' = T.owner
      /\ \A h \in Funcs : h # r => stack'[h] = stack[h]
  BY <1>1, PushedShape
<1>5. /\ Len(stack[r]) \in Nat /\ DOMAIN stack[r] = 1..Len(stack[r])
      /\ Running.base \in Nat \ {0} /\ Running.base <= Len(stack[r]) + 1
      /\ Len(calls) \in Nat \ {0} /\ Len(calls) \in DOMAIN calls
      /\ calls[Len(calls)].fn = r /\ calls[Len(calls)] = Running
  BY <1>0, RunningFacts, RunningInside, RunningOutside DEF CallType, Here
(* Of the bases of its function's activations, the running one's is last.  *)
<1>6. \A i \in DOMAIN calls : calls[i].fn = r =>
        calls[i].base <= Running.base /\ (i # Len(calls) => calls[i].base < Running.base)
  BY <1>3, <1>5 DEF Inductive, Active
<1>7. Active'
  <2>1. \A i \in DOMAIN calls : i > 1 => calls[i].base <= Len(stack'[calls[i].fn])
    <3> SUFFICES ASSUME NEW i \in DOMAIN calls, i > 1
                 PROVE  calls[i].base <= Len(stack'[calls[i].fn])
      OBVIOUS
    <3>1. calls[i].base <= Len(stack[calls[i].fn])
      BY DEF Inductive, Active
    <3> QED BY <3>1, <1>3, <1>4, <1>5
  <2>2. \A t \in DOMAIN tables' : tables'[t].owner <= born
    <3>1. T.owner <= born
      BY <1>1, <1>5 DEF Inductive, Active
    <3>2. tables' = Append(tables, T) /\ tables \in Seq(TableType)
      BY <1>1 DEF Inductive, TypeOK, Pushed
    <3>3. \A t \in DOMAIN tables' : tables'[t] = T \/ (t \in DOMAIN tables /\ tables'[t] = tables[t])
      BY <3>2
    <3> QED BY <3>1, <3>3 DEF Inductive, Active
  <2> QED BY <1>2, <2>1, <2>2 DEF Inductive, Active
<1>8. PosAhead'
  BY <1>2 DEF Inductive, PosAhead
<1>9. OwnTables'
  <2> SUFFICES ASSUME NEW i \in DOMAIN calls, NEW f \in Funcs, f = calls[i].fn,
                      NEW p \in DOMAIN stack'[f], p >= calls[i].base,
                      \A j \in DOMAIN calls : j > i /\ calls[j].fn = f => p < calls[j].base
               PROVE  Owner(f, p)' = calls[i].id
    BY <1>2, <1>3 DEF OwnTables, Owner
  <2>1. CASE p \in DOMAIN stack[f]
    <3>1. Owner(f, p) = calls[i].id
      BY <2>1 DEF Inductive, OwnTables
    <3> QED BY <3>1, <2>1, <1>4, <1>5
  <2>2. CASE p \notin DOMAIN stack[f]
    <3>1. f = r /\ p = Len(stack[r]) + 1
      BY <2>2, <1>4, <1>5
    <3>2. i = Len(calls)
      BY <3>1, <1>3, <1>5
    <3> QED BY <3>1, <3>2, <2>2, <1>1, <1>4, <1>5
  <2> QED BY <2>1, <2>2
<1>10. Layers'
  <2> SUFFICES ASSUME NEW i \in DOMAIN calls, NEW f \in Funcs, f = calls[i].fn,
                      NEW p \in DOMAIN stack'[f]
               PROVE  IF p >= calls[i].base
                      THEN \E j \in DOMAIN calls : calls[j].fn = f /\ calls[j].id = Owner(f, p)'
                      ELSE Owner(f, p)' < calls[i].id
    BY <1>2, <1>3 DEF Layers, Activations, Owner
  <2>1. CASE p \in DOMAIN stack[f]
    <3>1. Owner(f, p)' = Owner(f, p)
      BY <2>1, <1>4, <1>5
    <3> QED BY <3>1, <2>1 DEF Inductive, Layers, Activations
  <2>2. CASE p \notin DOMAIN stack[f]
    <3>1. f = r /\ p = Len(stack[r]) + 1 /\ Owner(f, p)' = Running.id
      BY <2>2, <1>1, <1>4, <1>5
    <3>2. p >= calls[i].base
      <4>1. calls[i].base <= Running.base /\ calls[i].base \in Nat
        BY <3>1, <1>3, <1>6
      <4> QED BY <4>1, <3>1, <1>5
    <3> QED BY <3>1, <3>2, <1>5
  <2> QED BY <2>1, <2>2
<1>11. Captured'
  <2> SUFFICES ASSUME NEW l \in 1..lambdas, NEW p \in DOMAIN stack'[l], p >= posFunc[l],
                      \A i \in DOMAIN calls : calls[i].fn = l => p < calls[i].base
               PROVE  Owner(l, p)' \in around[l]
    BY <1>2 DEF Captured
  <2>0. l \in Funcs
    BY FuncsFacts
  <2>1. CASE p \in DOMAIN stack[l]
    <3>1. Owner(l, p)' = Owner(l, p)
      BY <2>0, <2>1, <1>4, <1>5
    <3> QED BY <3>1, <2>1 DEF Inductive, Captured
  <2>2. CASE p \notin DOMAIN stack[l]
    <3>1. l = r /\ p = Len(stack[r]) + 1
      BY <2>0, <2>2, <1>4, <1>5
    <3> QED BY <3>1, <1>5
  <2> QED BY <2>1, <2>2
<1> QED BY <1>7, <1>8, <1>9, <1>10, <1>11

(***************************************************************************)
(* CloseBlock and Leave cut the stack of the running function down to its  *)
(* first m tables.                                                         *)
(***************************************************************************)
LEMMA CutShape ==
  ASSUME Inductive, NEW r \in Funcs, NEW m \in 0..Len(stack[r]),
         stack' = [stack EXCEPT ![r] = SubSeq(stack[r], 1, m)],
         DOMAIN tables' = DOMAIN tables,
         \A t \in DOMAIN tables : tables'[t].owner = tables[t].owner
  PROVE  /\ stack' \in [Funcs -> Seq(DOMAIN tables)]
         /\ \A h \in Funcs : h # r => stack'[h] = stack[h]
         /\ DOMAIN stack'[r] = 1..m /\ Len(stack'[r]) = m
         /\ \A h \in Funcs : \A p \in DOMAIN stack'[h] :
              p \in DOMAIN stack[h] /\ Owner(h, p)' = Owner(h, p)
<1>1. stack \in [Funcs -> Seq(DOMAIN tables)]
  BY DEF Inductive, TypeOK
<1>2. stack[r] \in Seq(DOMAIN tables) /\ Len(stack[r]) \in Nat
  BY <1>1
<1>3. SubSeq(stack[r], 1, m) \in Seq(DOMAIN tables)
  BY <1>2
<1>4. stack' \in [Funcs -> Seq(DOMAIN tables)] /\ stack'[r] = SubSeq(stack[r], 1, m)
      /\ \A h \in Funcs : h # r => stack'[h] = stack[h]
  BY <1>1, <1>3
<1>5. DOMAIN stack'[r] = 1..m /\ Len(stack'[r]) = m /\ \A p \in 1..m : stack'[r][p] = stack[r][p]
  BY <1>2, <1>4
<1>6. \A h \in Funcs : \A p \in DOMAIN stack'[h] : p \in DOMAIN stack[h] /\ stack'[h][p] = stack[h][p]
  <2> SUFFICES ASSUME NEW h \in Funcs, NEW p \in DOMAIN stack'[h]
               PROVE  p \in DOMAIN stack[h] /\ stack'[h][p] = stack[h][p]
    OBVIOUS
  <2>1. CASE h = r
    <3>1. p \in 1..m
      BY <2>1, <1>5
    <3>2. p \in 1..Len(stack[r])
      BY <3>1, <1>2
    <3> QED BY <2>1, <3>1, <3>2, <1>2, <1>5
  <2>2. CASE h # r
    BY <2>2, <1>4
  <2> QED BY <2>1, <2>2
<1>7. \A h \in Funcs : \A p \in DOMAIN stack'[h] : Owner(h, p)' = Owner(h, p)
  BY <1>6, OwnerTyped DEF Owner
<1> QED BY <1>4, <1>5, <1>6, <1>7

LEMMA CloseBlockShape ==
  ASSUME Inductive, CloseBlock
  PROVE  Active' /\ PosAhead' /\ OwnTables' /\ Layers' /\ Captured'
<1>0. PICK r \in Funcs : r = Running.fn
  BY RunningFacts DEF CallType
<1>1. UNCHANGED <<tables, posFunc, calls, born, lambdas, around>>
  BY DEF CloseBlock
<1>2. \A i \in DOMAIN calls : calls[i].fn \in Funcs /\ calls[i].base \in Nat \ {0}
  BY CallsTyped
<1>3. PICK m \in 0..Len(stack[r]) : /\ stack' = [stack EXCEPT ![r] = SubSeq(stack[r], 1, m)]
                                    /\ r # 0 => m >= Running.base
  <2>1. InBlock /\ stack' = [stack EXCEPT ![r] = SubSeq(stack[r], 1, Len(stack[r]) - 1)]
    BY <1>0 DEF CloseBlock, Here
  <2>2. /\ Len(stack[r]) \in Nat /\ (r = 0 => Len(stack[r]) # 0)
        /\ (r # 0 => Len(stack[r]) > Running.base)
        /\ Running.base \in Nat
    BY <1>0, <2>1, RunningFacts DEF InBlock, Here, CallType
  <2>3. Len(stack[r]) - 1 \in 0..Len(stack[r]) /\ (r # 0 => Len(stack[r]) - 1 >= Running.base)
    BY <2>2
  <2> QED BY <2>1, <2>3
<1>4. /\ \A h \in Funcs : h # r => stack'[h] = stack[h]
      /\ Len(stack'[r]) = m
      /\ \A h \in Funcs : \A p \in DOMAIN stack'[h] :
           p \in DOMAIN stack[h] /\ Owner(h, p)' = Owner(h, p)
  BY <1>1, <1>3, CutShape
<1>5. Active'
  <2>1. \A i \in DOMAIN calls : i > 1 => calls[i].base <= Len(stack'[calls[i].fn])
    <3> SUFFICES ASSUME NEW i \in DOMAIN calls, i > 1
                 PROVE  calls[i].base <= Len(stack'[calls[i].fn])
      OBVIOUS
    <3>1. CASE calls[i].fn = r
      <4>1. r # 0
        BY <3>1, FuncsFacts DEF Inductive, Active
      <4>2. calls[i].base <= Running.base
        <5>1. PICK n \in DOMAIN calls : n = Len(calls) /\ calls[n] = Running /\ calls[n].fn = r
          BY <1>0, RunningFacts
        <5>2. i \in 1..n /\ n \in Nat
          BY <5>1, CallsTyped, RunningFacts
        <5>3. i = n \/ i < n
          BY <5>2
        <5>4. i < n => calls[i].base < calls[n].base
          BY <5>1, <3>1 DEF Inductive, Active
        <5> QED BY <5>1, <5>3, <5>4, <1>2
      <4>3. m \in Nat /\ Running.base \in Nat /\ calls[i].base \in Nat
        BY <1>2, <1>3, RunningFacts DEF CallType
      <4> QED BY <4>1, <4>2, <4>3, <1>3, <1>4, <3>1
    <3>2. CASE calls[i].fn # r
      BY <3>2, <1>2, <1>4 DEF Inductive, Active
    <3> QED BY <3>1, <3>2
  <2> QED BY <1>1, <2>1 DEF Inductive, Active
<1>6. PosAhead'
  BY <1>1 DEF Inductive, PosAhead
<1>7. OwnTables'
  <2> SUFFICES ASSUME NEW i \in DOMAIN calls, NEW f \in Funcs, f = calls[i].fn,
                      NEW p \in DOMAIN stack'[f], p >= calls[i].base,
                      \A j \in DOMAIN calls : j > i /\ calls[j].fn = f => p < calls[j].base
               PROVE  Owner(f, p)' = calls[i].id
    BY <1>1, <1>2 DEF OwnTables, Owner
  <2> QED BY <1>4 DEF Inductive, OwnTables
<1>8. Layers'
  <2> SUFFICES ASSUME NEW i \in DOMAIN calls, NEW f \in Funcs, f = calls[i].fn,
                      NEW p \in DOMAIN stack'[f]
               PROVE  IF p >= calls[i].base
                      THEN \E j \in DOMAIN calls : calls[j].fn = f /\ calls[j].id = Owner(f, p)'
                      ELSE Owner(f, p)' < calls[i].id
    BY <1>1, <1>2 DEF Layers, Activations, Owner
  <2> QED BY <1>4 DEF Inductive, Layers, Activations
<1>9. Captured'
  <2> SUFFICES ASSUME NEW l \in 1..lambdas, NEW p \in DOMAIN stack'[l], p >= posFunc[l],
                      \A i \in DOMAIN calls : calls[i].fn = l => p < calls[i].base
               PROVE  Owner(l, p)' \in around[l]
    BY <1>1 DEF Captured
  <2> QED BY <1>4, FuncsFacts DEF Inductive, Captured
<1> QED BY <1>5, <1>6, <1>7, <1>8, <1>9

LEMMA LeaveShape ==
  ASSUME Inductive, Leave, DOMAIN tables' = DOMAIN tables,
         \A t \in DOMAIN tables : tables'[t].owner = tables[t].owner
  PROVE  Active' /\ PosAhead' /\ OwnTables' /\ Layers' /\ Captured'
<1>0. PICK r \in Funcs : r = Running.fn /\ r # 0
  BY RunningFacts DEF CallType, Leave
<1>1. UNCHANGED <<posFunc, born, lambdas, around>>
  BY DEF Leave
<1>2. \A i \in DOMAIN calls : /\ calls[i].fn \in Funcs /\ calls[i].base \in Nat \ {0}
                              /\ calls[i].id \in Nat /\ i \in 1..Len(calls)
  BY CallsTyped
<1>3. /\ Len(calls) \in Nat /\ Len(calls) > 1 /\ Running.base \in Nat \ {0}
      /\ Running.base - 1 \in 0..Len(stack[r]) /\ calls \in Seq(CallType)
      /\ Len(calls) \in DOMAIN calls /\ calls[Len(calls)] = Running
      /\ Len(stack[r]) \in Nat
  <2>1. /\ Len(calls) \in Nat /\ Len(calls) > 1 /\ Running.base \in Nat \ {0}
        /\ Len(calls) \in DOMAIN calls /\ calls[Len(calls)] = Running
        /\ Len(stack[r]) \in Nat /\ Running.base <= Len(stack[r])
    BY <1>0, RunningFacts, RunningInside DEF Here
  <2>2. Running.base - 1 \in 0..Len(stack[r])
    BY <2>1
  <2> QED BY <2>1, <2>2 DEF Inductive, TypeOK
<1>4. PICK n \in Nat : n = Len(calls)
  BY <1>3
<1>5. /\ DOMAIN calls' = 1..(n - 1) /\ calls'[1] = calls[1] /\ calls' # <<>>
      /\ \A i \in DOMAIN calls' : calls'[i] = calls[i] /\ i \in DOMAIN calls /\ i < n
      /\ \A i \in DOMAIN calls : i = n \/ i \in DOMAIN calls'
  <2>1. calls' = SubSeq(calls, 1, n - 1)
    BY <1>4 DEF Leave
  <2>2. DOMAIN calls' = 1..(n - 1) /\ \A i \in 1..(n - 1) : calls'[i] = calls[i]
    BY <2>1, <1>3, <1>4
  <2>3. DOMAIN calls = 1..n /\ n > 1
    BY <1>3, <1>4
  <2>4. calls' # <<>> /\ calls'[1] = calls[1]
    BY <2>2, <2>3
  <2> QED BY <2>2, <2>3, <2>4
<1>6. /\ \A h \in Funcs : h # r => stack'[h] = stack[h]
      /\ DOMAIN stack'[r] = 1..(Running.base - 1) /\ Len(stack'[r]) = Running.base - 1
      /\ \A h \in Funcs : \A p \in DOMAIN stack'[h] :
           p \in DOMAIN stack[h] /\ Owner(h, p)' = Owner(h, p)
  <2>1. PICK m \in 0..Len(stack[r]) : m = Running.base - 1
    BY <1>3
  <2>2. stack' = [stack EXCEPT ![r] = SubSeq(stack[r], 1, m)]
    BY <1>0, <2>1 DEF Leave, Here
  <2> QED BY <2>1, <2>2, CutShape
<1>7. calls[n].fn = r /\ calls[n].base = Running.base /\ calls[n].id = Running.id /\ n \in DOMAIN calls
  BY <1>0, <1>3, <1>4
<1>8. Active'
  <2>1. \A i \in DOMAIN calls' : i > 1 => /\ calls[i].fn \in Decls \cup 1..lambdas
                                          /\ calls[i].base <= Len(stack'[calls[i].fn])
    <3> SUFFICES ASSUME NEW i \in DOMAIN calls', i > 1
                 PROVE  /\ calls[i].fn \in Decls \cup 1..lambdas
                        /\ calls[i].base <= Len(stack'[calls[i].fn])
      OBVIOUS
    <3>1. i \in DOMAIN calls /\ i < n
      BY <1>5
    <3>2. CASE calls[i].fn = r
      <4>1. calls[i].base < Running.base /\ calls[i].base \in Nat
        BY <3>1, <3>2, <1>2, <1>7 DEF Inductive, Active
      <4> QED BY <4>1, <1>3, <1>6, <3>1, <3>2 DEF Inductive, Active
    <3>3. CASE calls[i].fn # r
      BY <3>1, <3>3, <1>2, <1>6 DEF Inductive, Active
    <3> QED BY <3>2, <3>3
  <2>2. \A t \in DOMAIN tables' : tables'[t].owner <= born
    BY DEF Inductive, Active
  <2> QED BY <1>1, <1>5, <2>1, <2>2 DEF Inductive, Active
<1>9. PosAhead'
  BY <1>1, <1>5 DEF Inductive, PosAhead
<1>10. OwnTables'
  <2> SUFFICES ASSUME NEW i \in DOMAIN calls', NEW f \in Funcs, f = calls[i].fn,
                      NEW p \in DOMAIN stack'[f], p >= calls[i].base,
                      \A j \in DOMAIN calls' : j > i /\ calls[j].fn = f => p < calls[j].base
               PROVE  Owner(f, p)' = calls[i].id
    <3>1. \A i \in DOMAIN calls' : calls'[i] = calls[i] /\ calls[i].fn \in Funcs
      BY <1>2, <1>5
    <3> QED BY <3>1 DEF OwnTables, Owner
  <2>1. f = r => p < calls[n].base
    BY <1>3, <1>6, <1>7
  <2>2. \A j \in DOMAIN calls : j > i /\ calls[j].fn = f => p < calls[j].base
    BY <2>1, <1>5, <1>7
  <2> QED BY <2>2, <1>5, <1>6 DEF Inductive, OwnTables
<1>11. Layers'
  <2> SUFFICES ASSUME NEW i \in DOMAIN calls', NEW f \in Funcs, f = calls[i].fn,
                      NEW p \in DOMAIN stack'[f]
               PROVE  IF p >= calls[i].base
                      THEN \E j \in DOMAIN calls' : calls[j].fn = f /\ calls[j].id = Owner(f, p)'
                      ELSE Owner(f, p)' < calls[i].id
    <3>1. \A i \in DOMAIN calls' : calls'[i] = calls[i] /\ calls[i].fn \in Funcs
      BY <1>2, <1>5
    <3> QED BY <3>1 DEF Layers, Activations, Owner
  <2>1. p \in DOMAIN stack[f] /\ Owner(f, p)' = Owner(f, p) /\ i \in DOMAIN calls
    BY <1>5, <1>6
  <2>2. CASE p >= calls[i].base
    <3>1. PICK j \in DOMAIN calls : calls[j].fn = f /\ calls[j].id = Owner(f, p)
      BY <2>1, <2>2 DEF Inductive, Layers, Activations
    <3>2. j # n
      <4> SUFFICES ASSUME j = n PROVE FALSE
        OBVIOUS
      <4>1. f = r /\ p \in 1..(Running.base - 1)
        BY <3>1, <1>6, <1>7
      <4>2. ~ (p >= calls[n].base)
        BY <4>1, <1>3, <1>7
      <4>3. Owner(f, p) < calls[n].id
        BY <4>1, <4>2, <2>1, <1>7 DEF Inductive, Layers
      <4> QED BY <4>3, <3>1, <1>2
    <3> QED BY <2>1, <2>2, <3>1, <3>2, <1>5
  <2>3. CASE ~ (p >= calls[i].base)
    BY <2>1, <2>3 DEF Inductive, Layers
  <2> QED BY <2>2, <2>3
<1>12. Captured'
  <2> SUFFICES ASSUME NEW l \in 1..lambdas, NEW p \in DOMAIN stack'[l], p >= posFunc[l],
                      \A i \in DOMAIN calls' : calls[i].fn = l => p < calls[i].base
               PROVE  Owner(l, p)' \in around[l]
    BY <1>1, <1>5 DEF Captured
  <2>1. l \in Funcs
    BY FuncsFacts
  <2>2. l = r => p < calls[n].base
    BY <1>3, <1>6, <1>7
  <2>3. \A i \in DOMAIN calls : calls[i].fn = l => p < calls[i].base
    BY <2>2, <1>5, <1>7
  <2> QED BY <2>1, <2>3, <1>6 DEF Inductive, Captured
<1> QED BY <1>8, <1>9, <1>10, <1>11, <1>12

(***************************************************************************)
(* MakeLambda.                                                             *)
(***************************************************************************)
LEMMA MakeLambdaShape ==
  ASSUME Inductive, MakeLambda
  PROVE  Active' /\ PosAhead' /\ OwnTables' /\ Layers' /\ Captured'
<1> DEFINE T == Table("scope", Nothing)
<1>0. PICK r \in Funcs, l \in Lambdas : r = Running.fn /\ l = lambdas + 1
  BY RunningFacts, FuncsFacts DEF CallType, MakeLambda
<1>1. l \in Funcs /\ l # 0 /\ l \notin Decls /\ T.owner = Running.id /\ Pushed(r, l, T)
  BY <1>0, FuncsFacts DEF MakeLambda, Table, Running, Pushed, Here
<1> HIDE DEF T
<1>2. /\ UNCHANGED <<calls, born>> /\ lambdas' = l
      /\ posFunc' = [posFunc EXCEPT ![l] = posFunc[r]]
      /\ around' = [around EXCEPT ![l] = Reach]
  BY <1>0 DEF MakeLambda
<1>3. \A i \in DOMAIN calls : /\ calls[i].fn \in Funcs \ {l} /\ i \in 1..Len(calls)
                              /\ i > 1 => calls[i].fn \in Decls \cup 1..lambdas'
  <2> SUFFICES ASSUME NEW i \in DOMAIN calls
               PROVE  /\ calls[i].fn \in Funcs \ {l} /\ i \in 1..Len(calls)
                      /\ i > 1 => calls[i].fn \in Decls \cup 1..lambdas'
    OBVIOUS
  <2>1. calls[i].fn \in Funcs /\ i \in 1..Len(calls)
    BY CallsTyped
  <2>2. i > 1 => calls[i].fn \in Decls \cup 1..lambdas
    BY DEF Inductive, Active
  <2>3. i = 1 => calls[i].fn = 0
    BY DEF Inductive, Active
  <2>4. i = 1 \/ i > 1
    BY <2>1
  <2>5. l \notin 1..lambdas /\ 1..lambdas \subseteq 1..lambdas'
    BY <1>0, <1>2, FuncsFacts
  <2> QED BY <1>1, <2>1, <2>2, <2>3, <2>4, <2>5
<1>4. /\ \A h \in Funcs \ {l} : /\ DOMAIN stack'[h] = DOMAIN stack[h]
                                /\ \A p \in DOMAIN stack[h] : Owner(h, p)' = Owner(h, p)
      /\ \A p \in 1..Len(stack[r]) : Owner(l, p)' = Owner(r, p)
      /\ \A p \in DOMAIN stack'[l] : p \notin 1..Len(stack[r]) => Owner(l, p)' = T.owner
      /\ \A h \in Funcs : h # l => stack'[h] = stack[h]
  BY <1>1, PushedShape
<1>5. posFunc \in [Funcs -> Nat] /\ around \in [Lambdas -> SUBSET (0..MaxCalls)]
  BY DEF Inductive, TypeOK
<1>6. Active'
  <2>1. \A i \in DOMAIN calls : i > 1 => calls[i].base <= Len(stack'[calls[i].fn])
    BY <1>3, <1>4 DEF Inductive, Active
  <2>2. \A t \in DOMAIN tables' : tables'[t].owner <= born
    <3>1. T.owner <= born
      BY <1>1, RunningFacts DEF Inductive, Active
    <3>2. tables' = Append(tables, T) /\ tables \in Seq(TableType)
      BY <1>1 DEF Inductive, TypeOK, Pushed
    <3>3. \A t \in DOMAIN tables' : tables'[t] = T \/ (t \in DOMAIN tables /\ tables'[t] = tables[t])
      BY <3>2
    <3> QED BY <3>1, <3>3 DEF Inductive, Active
  <2> QED BY <1>2, <1>3, <2>1, <2>2 DEF Inductive, Active
<1>7. PosAhead'
  BY <1>1, <1>2, <1>3, <1>5, FuncsFacts DEF Inductive, PosAhead
<1>8. OwnTables'
  <2> SUFFICES ASSUME NEW i \in DOMAIN calls, NEW f \in Funcs \ {l}, f = calls[i].fn,
                      NEW p \in DOMAIN stack'[f], p >= calls[i].base,
                      \A j \in DOMAIN calls : j > i /\ calls[j].fn = f => p < calls[j].base
               PROVE  Owner(f, p)' = calls[i].id
    BY <1>2, <1>3 DEF OwnTables, Owner
  <2> QED BY <1>4 DEF Inductive, OwnTables
<1>9. Layers'
  <2> SUFFICES ASSUME NEW i \in DOMAIN calls, NEW f \in Funcs \ {l}, f = calls[i].fn,
                      NEW p \in DOMAIN stack'[f]
               PROVE  IF p >= calls[i].base
                      THEN \E j \in DOMAIN calls : calls[j].fn = f /\ calls[j].id = Owner(f, p)'
                      ELSE Owner(f, p)' < calls[i].id
    <3>1. \A i \in DOMAIN calls' : calls'[i] = calls[i] /\ calls[i].fn \in Funcs \ {l}
      BY <1>2, <1>3
    <3>2. calls' = calls
      BY <1>2
    <3> QED BY <3>1, <3>2 DEF Layers, Activations, Owner
  <2> QED BY <1>4 DEF Inductive, Layers, Activations
<1>10. Captured'
  <2> SUFFICES ASSUME NEW k \in 1..l, NEW p \in DOMAIN stack'[k], p >= posFunc'[k],
                      \A i \in DOMAIN calls : calls[i].fn = k => p < calls[i].base
               PROVE  Owner(k, p)' \in around'[k]
    BY <1>2 DEF Captured
  <2>1. CASE k = l
    <3>1. around'[k] = Reach /\ posFunc'[k] = posFunc[r]
      BY <1>1, <1>2, <1>5, <2>1
    <3>2. CASE p \in 1..Len(stack[r])
      <4>1. p \in DOMAIN Here /\ p >= posFunc[Running.fn]
        BY <1>0, <3>1, <3>2, RunningFacts DEF Here
      <4>2. Owner(Running.fn, p) \in Reach
        BY <4>1, PosReach
      <4>3. Owner(k, p)' = Owner(r, p)
        BY <1>4, <2>1, <3>2
      <4> QED BY <1>0, <3>1, <4>2, <4>3
    <3>3. CASE p \notin 1..Len(stack[r])
      <4>1. Owner(k, p)' = Running.id
        BY <1>1, <1>4, <2>1, <3>3
      <4> QED BY <3>1, <4>1 DEF Reach
    <3> QED BY <3>2, <3>3
  <2>2. CASE k # l
    <3>1. k \in 1..lambdas /\ k \in Lambdas /\ k \in Funcs
      BY <1>0, <2>2, FuncsFacts
    <3>2. around'[k] = around[k] /\ posFunc'[k] = posFunc[k]
      BY <3>1, <1>2, <1>5, <2>2
    <3>3. p \in DOMAIN stack[k] /\ Owner(k, p)' = Owner(k, p)
      BY <3>1, <1>4, <2>2
    <3> QED BY <3>1, <3>2, <3>3 DEF Inductive, Captured
  <2> QED BY <2>1, <2>2
<1> QED BY <1>6, <1>7, <1>8, <1>9, <1>10

(***************************************************************************)
(* Call.                                                                   *)
(***************************************************************************)
LEMMA CallShape ==
  ASSUME Inductive, NEW f \in Decls \cup Lambdas, NEW v, Call(f, v)
  PROVE  Active' /\ PosAhead' /\ OwnTables' /\ Layers' /\ Captured'
<1> DEFINE T == [kind |-> IF f \in Decls THEN "func" ELSE "lambda",
                 owner |-> born + 1, ret |-> Absent,
                 symbols |-> IF f \in HasParam THEN [Nothing EXCEPT ![Param] = v] ELSE Nothing,
                 given |-> IF f \in HasParam THEN {Param} ELSE {}]
<1>0. PICK n \in Nat, b \in Nat : n = Len(calls) + 1 /\ b = Len(stack[f]) + 1
  <2>1. stack[f] \in Seq(DOMAIN tables) /\ calls \in Seq(CallType)
    BY FuncsFacts DEF Inductive, TypeOK
  <2> QED BY <2>1
<1>1. f \in Funcs /\ f \in Decls \cup 1..lambdas /\ f # 0 /\ T.owner = born + 1 /\ Pushed(f, f, T)
  BY FuncsFacts DEF Call, Pushed
<1> HIDE DEF T
<1>2. /\ UNCHANGED <<lambdas, around>> /\ born' = born + 1
      /\ posFunc' = [posFunc EXCEPT ![f] = PosOfCall(f)]
      /\ calls' = Append(calls, [id |-> born + 1, fn |-> f, base |-> b, gave |-> Absent])
  BY <1>0 DEF Call
<1>3. \A i \in DOMAIN calls : /\ calls[i].fn \in Funcs /\ calls[i].base \in Nat \ {0}
                              /\ calls[i].id \in Nat /\ i \in 1..Len(calls)
  BY CallsTyped
<1>4. /\ \A h \in Funcs \ {f} : /\ DOMAIN stack'[h] = DOMAIN stack[h]
                                /\ \A p \in DOMAIN stack[h] : Owner(h, p)' = Owner(h, p)
      /\ DOMAIN stack'[f] = 1..b /\ Len(stack'[f]) = b
      /\ \A p \in 1..(b - 1) : Owner(f, p)' = Owner(f, p)
      /\ \A p \in DOMAIN stack'[f] : p \notin 1..(b - 1) => p = b /\ Owner(f, p)' = born + 1
      /\ \A h \in Funcs : h # f => stack'[h] = stack[h]
      /\ DOMAIN stack[f] = 1..(b - 1)
  <2>1. Len(stack[f]) = b - 1 /\ DOMAIN stack[f] = 1..(b - 1)
    <3>1. stack[f] \in Seq(DOMAIN tables)
      BY <1>1 DEF Inductive, TypeOK
    <3> QED BY <3>1, <1>0
  <2> QED BY <1>0, <1>1, <2>1, PushedShape
<1>5. /\ DOMAIN calls' = 1..n /\ n \in DOMAIN calls' /\ calls'[n].fn = f /\ calls'[n].base = b
      /\ calls'[n].id = born + 1 /\ calls'[1] = calls[1] /\ calls' # <<>>
      /\ \A i \in DOMAIN calls : i \in DOMAIN calls' /\ calls'[i] = calls[i] /\ i < n
      /\ \A i \in DOMAIN calls' : i = n \/ i \in DOMAIN calls
  <2>1. calls \in Seq(CallType) /\ Len(calls) = n - 1 /\ n > 1 /\ DOMAIN calls = 1..(n - 1)
    BY <1>0, RunningFacts DEF Inductive, TypeOK
  <2>2. DOMAIN calls' = 1..n /\ calls'[n] = [id |-> born + 1, fn |-> f, base |-> b, gave |-> Absent]
        /\ \A i \in 1..(n - 1) : calls'[i] = calls[i]
    BY <1>2, <2>1
  <2>3. calls' # <<>> /\ calls'[1] = calls[1]
    BY <2>1, <2>2
  <2> QED BY <2>1, <2>2, <2>3
<1>6. posFunc \in [Funcs -> Nat] /\ born \in Nat
  BY BoundsAssumption DEF Inductive, TypeOK
(* Every other activation of f has its table on the stack already.         *)
<1>7. \A i \in DOMAIN calls : calls[i].fn = f => calls[i].base < b
  <2> SUFFICES ASSUME NEW i \in DOMAIN calls, calls[i].fn = f
               PROVE  calls[i].base < b
    OBVIOUS
  <2>1. i > 1
    <3>1. i # 1
      BY <1>1 DEF Inductive, Active
    <3> QED BY <3>1, <1>3
  <2>2. calls[i].base <= Len(stack[f])
    BY <2>1 DEF Inductive, Active
  <2> QED BY <2>2, <1>0, <1>3
<1>8. Active'
  <2>1. \A i \in DOMAIN calls' :
          /\ calls'[i].id <= born'
          /\ i > 1 => /\ calls'[i].fn \in Decls \cup 1..lambdas
                      /\ calls'[i].base <= Len(stack'[calls'[i].fn])
    <3> SUFFICES ASSUME NEW i \in DOMAIN calls'
                 PROVE  /\ calls'[i].id <= born'
                        /\ i > 1 => /\ calls'[i].fn \in Decls \cup 1..lambdas
                                    /\ calls'[i].base <= Len(stack'[calls'[i].fn])
      OBVIOUS
    <3>1. CASE i = n
      BY <3>1, <1>0, <1>1, <1>2, <1>4, <1>5, <1>6
    <3>2. CASE i \in DOMAIN calls
      <4>1. calls'[i] = calls[i] /\ calls[i].id <= born /\ calls[i].id \in Nat
        BY <3>2, <1>3, <1>5 DEF Inductive, Active
      <4>2. ASSUME i > 1 PROVE calls[i].base <= Len(stack'[calls[i].fn])
        <5>1. CASE calls[i].fn = f
          BY <5>1, <3>2, <1>0, <1>3, <1>4, <1>7
        <5>2. CASE calls[i].fn # f
          BY <5>2, <4>2, <3>2, <1>3, <1>4 DEF Inductive, Active
        <5> QED BY <5>1, <5>2
      <4>3. i > 1 => calls[i].fn \in Decls \cup 1..lambdas
        BY <3>2 DEF Inductive, Active
      <4> QED BY <4>1, <4>2, <4>3, <1>2, <1>6
    <3> QED BY <3>1, <3>2, <1>5
  <2>2. \A i, j \in DOMAIN calls' :
          i < j => calls'[i].id < calls'[j].id
                   /\ (calls'[i].fn = calls'[j].fn => calls'[i].base < calls'[j].base)
    <3> SUFFICES ASSUME NEW i \in DOMAIN calls', NEW j \in DOMAIN calls', i < j
                 PROVE  calls'[i].id < calls'[j].id
                        /\ (calls'[i].fn = calls'[j].fn => calls'[i].base < calls'[j].base)
      OBVIOUS
    <3>1. i \in DOMAIN calls /\ calls'[i] = calls[i]
      BY <1>0, <1>5
    <3>2. CASE j = n
      <4>1. calls[i].id <= born /\ calls[i].id \in Nat
        BY <3>1, <1>3 DEF Inductive, Active
      <4>2. calls'[i].id < calls'[j].id
        BY <4>1, <3>1, <3>2, <1>5, <1>6
      <4> QED BY <4>2, <3>1, <3>2, <1>5, <1>7
    <3>3. CASE j \in DOMAIN calls
      BY <3>1, <3>3, <1>5 DEF Inductive, Active
    <3> QED BY <3>2, <3>3, <1>5
  <2>3. \A t \in DOMAIN tables' : tables'[t].owner <= born'
    <3>1. tables' = Append(tables, T) /\ tables \in Seq(TableType)
      BY <1>1 DEF Inductive, TypeOK, Pushed
    <3>2. \A t \in DOMAIN tables' : tables'[t] = T \/ (t \in DOMAIN tables /\ tables'[t] = tables[t])
      BY <3>1
    <3>3. \A t \in DOMAIN tables : tables[t].owner <= born /\ tables[t].owner \in Nat
      <4>1. \A t \in DOMAIN tables : tables[t] \in TableType
        BY <3>1
      <4>2. \A t \in DOMAIN tables : tables[t].owner \in 0..MaxCalls
        BY <4>1 DEF TableType
      <4> QED BY <4>2 DEF Inductive, Active
    <3>4. T.owner <= born'
      BY <1>1, <1>2, <1>6
    <3>5. \A t \in DOMAIN tables : tables[t].owner <= born'
      BY <3>3, <1>2, <1>6
    <3> QED BY <3>2, <3>4, <3>5
  <2>4. calls'[1] = [id |-> 0, fn |-> 0, base |-> 1, gave |-> Absent]
    BY <1>5 DEF Inductive, Active
  <2> QED BY <2>1, <2>2, <2>3, <2>4, <1>2, <1>5 DEF Active
<1>9. PosAhead'
  <2>1. posFunc'[0] = 0
    BY <1>1, <1>2, <1>6, FuncsFacts DEF Inductive, PosAhead
  <2>2. \A i \in DOMAIN calls' : calls'[i].fn \in Decls => posFunc'[calls'[i].fn] >= calls'[i].base
    <3> SUFFICES ASSUME NEW i \in DOMAIN calls', calls'[i].fn \in Decls
                 PROVE  posFunc'[calls'[i].fn] >= calls'[i].base
      OBVIOUS
    <3>1. CASE calls'[i].fn = f
      <4>1. posFunc'[f] = b
        BY <3>1, <1>0, <1>1, <1>2, <1>6 DEF PosOfCall
      <4>2. CASE i = n
        BY <4>1, <4>2, <3>1, <1>0, <1>5
      <4>3. CASE i \in DOMAIN calls
        BY <4>1, <4>3, <3>1, <1>0, <1>3, <1>5, <1>7
      <4> QED BY <4>2, <4>3, <1>5
    <3>2. CASE calls'[i].fn # f
      <4>1. i \in DOMAIN calls /\ calls'[i] = calls[i]
        BY <3>2, <1>5
      <4>2. posFunc'[calls[i].fn] = posFunc[calls[i].fn]
        BY <4>1, <3>2, <1>2, <1>3, <1>6
      <4> QED BY <4>1, <4>2 DEF Inductive, PosAhead
    <3> QED BY <3>1, <3>2
  <2> QED BY <2>1, <2>2 DEF PosAhead
<1>10. OwnTables'
  <2> SUFFICES ASSUME NEW i \in DOMAIN calls', NEW g \in Funcs, g = calls'[i].fn,
                      NEW p \in DOMAIN stack'[g], p >= calls'[i].base,
                      \A j \in DOMAIN calls' : j > i /\ calls'[j].fn = g => p < calls'[j].base
               PROVE  Owner(g, p)' = calls'[i].id
    <3>1. \A i \in DOMAIN calls' : calls'[i].fn \in Funcs
      BY <1>1, <1>3, <1>5
    <3> QED BY <3>1 DEF OwnTables, Owner
  <2>1. CASE i = n
    BY <2>1, <1>0, <1>4, <1>5
  <2>2. CASE i \in DOMAIN calls
    <3>1. \A j \in DOMAIN calls : j > i /\ calls[j].fn = g => p < calls[j].base
      BY <1>5
    <3>2. g = f => p < b
      BY <2>2, <1>5
    <3>3. p \in DOMAIN stack[g] /\ Owner(g, p)' = Owner(g, p)
      BY <3>2, <1>0, <1>4
    <3> QED BY <2>2, <3>1, <3>3, <1>5 DEF Inductive, OwnTables
  <2> QED BY <2>1, <2>2, <1>5
<1>11. Layers'
  <2> SUFFICES ASSUME NEW i \in DOMAIN calls', NEW g \in Funcs, g = calls'[i].fn,
                      NEW p \in DOMAIN stack'[g]
               PROVE  IF p >= calls'[i].base
                      THEN \E j \in DOMAIN calls' : calls'[j].fn = g /\ calls'[j].id = Owner(g, p)'
                      ELSE Owner(g, p)' < calls'[i].id
    <3>1. \A i \in DOMAIN calls' : calls'[i].fn \in Funcs
      BY <1>1, <1>3, <1>5
    <3> QED BY <3>1 DEF Layers, Activations, Owner
  <2>1. CASE p \in DOMAIN stack[g]
    <3>1. Owner(g, p)' = Owner(g, p)
      BY <2>1, <1>4
    <3>2. CASE i \in DOMAIN calls
      <4>1. CASE p >= calls[i].base
        <5>1. PICK j \in DOMAIN calls : calls[j].fn = g /\ calls[j].id = Owner(g, p)
          BY <2>1, <3>2, <4>1, <1>5 DEF Inductive, Layers, Activations
        <5> QED BY <5>1, <3>1, <3>2, <4>1, <1>5
      <4>2. CASE ~ (p >= calls[i].base)
        BY <2>1, <3>1, <3>2, <4>2, <1>5 DEF Inductive, Layers
      <4> QED BY <4>1, <4>2
    <3>3. CASE i = n
      <4>1. g = f /\ ~ (p >= calls'[i].base)
        BY <2>1, <3>3, <1>0, <1>4, <1>5
      <4>2. Owner(g, p) <= born /\ Owner(g, p) \in Nat
        BY <2>1, OwnerTyped
      <4> QED BY <4>1, <4>2, <3>1, <3>3, <1>5, <1>6
    <3> QED BY <3>2, <3>3, <1>5
  <2>2. CASE p \notin DOMAIN stack[g]
    <3>1. g = f /\ p = b /\ Owner(g, p)' = born + 1
      BY <2>2, <1>4
    <3>2. p >= calls'[i].base
      <4>1. CASE i = n
        BY <4>1, <3>1, <1>0, <1>5
      <4>2. CASE i \in DOMAIN calls
        <5>1. calls'[i].base < b /\ calls'[i].base \in Nat
          BY <4>2, <3>1, <1>3, <1>5, <1>7
        <5> QED BY <5>1, <3>1, <1>0
      <4> QED BY <4>1, <4>2, <1>5
    <3> QED BY <3>1, <3>2, <1>5
  <2> QED BY <2>1, <2>2
<1>12. Captured'
  <2> SUFFICES ASSUME NEW l \in 1..lambdas, NEW p \in DOMAIN stack'[l], p >= posFunc'[l],
                      \A i \in DOMAIN calls' : calls'[i].fn = l => p < calls'[i].base
               PROVE  Owner(l, p)' \in around[l]
    BY <1>2 DEF Captured
  <2>1. l \in Funcs /\ l \notin Decls
    <3>1. lambdas \in 0..MaxLambdas
      BY DEF Inductive, TypeOK
    <3>2. l \in Lambdas
      BY <3>1, FuncsFacts
    <3> QED BY <3>2, FuncsFacts
  <2>2. posFunc'[l] = posFunc[l]
    BY <2>1, <1>1, <1>2, <1>6 DEF PosOfCall
  <2>3. l = f => p < b
    BY <1>5
  <2>4. p \in DOMAIN stack[l] /\ Owner(l, p)' = Owner(l, p)
    BY <2>1, <2>3, <1>0, <1>4
  <2>5. \A i \in DOMAIN calls : calls[i].fn = l => p < calls[i].base
    BY <1>5
  <2> QED BY <2>1, <2>2, <2>4, <2>5 DEF Inductive, Captured
<1> QED BY <1>8, <1>9, <1>10, <1>11, <1>12

-----------------------------------------------------------------------------
(* The types.                                                              *)

LEMMA TableTyped ==
  ASSUME Inductive
  PROVE  Table("scope", Nothing) \in TableType
<1>1. Running.id \in 0..MaxCalls
  BY RunningFacts DEF CallType
<1>2. Nothing \in [Names -> Values \cup {Absent}]
  BY DEF Nothing
<1> QED BY <1>1, <1>2 DEF Table, Running, TableType

LEMMA PushedTyped ==
  ASSUME Inductive, NEW f \in Funcs, NEW g \in Funcs, NEW T \in TableType, Pushed(f, g, T)
  PROVE  tables' \in Seq(TableType) /\ stack' \in [Funcs -> Seq(DOMAIN tables')]
<1>1. stack \in [Funcs -> Seq(DOMAIN tables)] /\ tables \in Seq(TableType)
  BY DEF Inductive, TypeOK
<1>2. /\ tables' \in Seq(TableType) /\ DOMAIN tables \subseteq DOMAIN tables'
      /\ Len(tables) + 1 \in DOMAIN tables'
  BY <1>1 DEF Pushed
<1>3. \A h \in Funcs : stack[h] \in Seq(DOMAIN tables')
  <2> SUFFICES ASSUME NEW h \in Funcs PROVE stack[h] \in Seq(DOMAIN tables')
    OBVIOUS
  <2>1. stack[h] \in Seq(DOMAIN tables)
    BY <1>1
  <2>2. Len(stack[h]) \in Nat /\ stack[h] \in [1..Len(stack[h]) -> DOMAIN tables]
    BY <2>1
  <2>3. stack[h] \in [1..Len(stack[h]) -> DOMAIN tables']
    BY <2>2, <1>2
  <2> QED BY <2>2, <2>3
<1>4. Append(stack[f], Len(tables) + 1) \in Seq(DOMAIN tables')
  BY <1>2, <1>3
<1> QED BY <1>1, <1>2, <1>3, <1>4 DEF Pushed

LEMMA OpenBlockTyped ==
  ASSUME Inductive, OpenBlock
  PROVE  TypeOK'
<1>0. PICK r \in Funcs : r = Running.fn
  BY RunningFacts DEF CallType
<1>1. Pushed(r, r, Table("scope", Nothing))
  BY <1>0 DEF OpenBlock, Pushed, Here
<1>2. tables' \in Seq(TableType) /\ stack' \in [Funcs -> Seq(DOMAIN tables')]
  BY <1>1, TableTyped, PushedTyped
<1>3. UNCHANGED <<posFunc, main, calls, born, lambdas, around>> /\ result' = Absent
  BY DEF OpenBlock
<1> QED BY <1>2, <1>3 DEF Inductive, TypeOK

LEMMA CloseBlockTyped ==
  ASSUME Inductive, CloseBlock
  PROVE  TypeOK'
<1>0. PICK r \in Funcs : r = Running.fn
  BY RunningFacts DEF CallType
<1>1. PICK m \in 0..Len(stack[r]) : stack' = [stack EXCEPT ![r] = SubSeq(stack[r], 1, m)]
  <2>1. Len(stack[r]) - 1 \in 0..Len(stack[r])
    BY <1>0, RunningFacts, RunningInside DEF CloseBlock, InBlock, Here
  <2> QED BY <1>0, <2>1 DEF CloseBlock, Here
<1>2. UNCHANGED <<tables, posFunc, main, calls, born, lambdas, around>> /\ result' = Absent
  BY DEF CloseBlock
<1>3. stack' \in [Funcs -> Seq(DOMAIN tables)]
  BY <1>1, <1>2, CutShape
<1> QED BY <1>2, <1>3 DEF Inductive, TypeOK

LEMMA MakeLambdaTyped ==
  ASSUME Inductive, MakeLambda
  PROVE  TypeOK'
<1>0. PICK r \in Funcs, l \in Lambdas : r = Running.fn /\ l = lambdas + 1
  BY RunningFacts, FuncsFacts DEF CallType, MakeLambda
<1>1. l \in Funcs /\ Pushed(r, l, Table("scope", Nothing))
  BY <1>0, FuncsFacts DEF MakeLambda, Pushed, Here
<1>2. tables' \in Seq(TableType) /\ stack' \in [Funcs -> Seq(DOMAIN tables')]
  BY <1>1, TableTyped, PushedTyped
<1>3. /\ posFunc \in [Funcs -> Nat] /\ around \in [Lambdas -> SUBSET (0..MaxCalls)]
      /\ calls \in Seq(CallType) /\ Running \in CallType
  BY RunningFacts DEF Inductive, TypeOK
<1>4. Reach \in SUBSET (0..MaxCalls)
  <2>1. Activations(Running.fn) \subseteq 0..MaxCalls
    <3>1. \A i \in DOMAIN calls : calls[i].id \in 0..MaxCalls
      BY CallsTyped DEF CallType
    <3> QED BY <3>1 DEF Activations
  <2>2. Running.id \in 0..MaxCalls
    BY <1>3 DEF CallType
  <2>3. InLambda => around[Running.fn] \in SUBSET (0..MaxCalls)
    BY <1>3 DEF InLambda
  <2> QED BY <2>1, <2>2, <2>3 DEF Reach
<1>5. /\ posFunc' = [posFunc EXCEPT ![l] = posFunc[r]]
      /\ around' = [around EXCEPT ![l] = Reach]
      /\ lambdas' = l /\ result' = Absent /\ UNCHANGED <<main, calls, born>>
  BY <1>0 DEF MakeLambda
<1>6. posFunc' \in [Funcs -> Nat] /\ around' \in [Lambdas -> SUBSET (0..MaxCalls)]
  BY <1>3, <1>4, <1>5
<1>7. lambdas' \in 0..MaxLambdas
  BY <1>5, FuncsFacts
<1> QED BY <1>2, <1>5, <1>6, <1>7 DEF Inductive, TypeOK

LEMMA CallTyped ==
  ASSUME Inductive, NEW f \in Decls \cup Lambdas, NEW v \in Values, Call(f, v)
  PROVE  TypeOK'
<1> DEFINE T == [kind |-> IF f \in Decls THEN "func" ELSE "lambda",
                 owner |-> born + 1, ret |-> Absent,
                 symbols |-> IF f \in HasParam THEN [Nothing EXCEPT ![Param] = v] ELSE Nothing,
                 given |-> IF f \in HasParam THEN {Param} ELSE {}]
           c == [id |-> born + 1, fn |-> f, base |-> Len(stack[f]) + 1, gave |-> Absent]
<1>1. /\ f \in Funcs /\ f \in Decls \cup 1..lambdas /\ born < MaxCalls /\ Pushed(f, f, T)
      /\ posFunc' = [posFunc EXCEPT ![f] = PosOfCall(f)] /\ calls' = Append(calls, c)
      /\ born' = born + 1 /\ result' = Absent /\ UNCHANGED <<main, lambdas, around>>
  BY FuncsFacts DEF Call, Pushed
<1>2. /\ posFunc \in [Funcs -> Nat] /\ calls \in Seq(CallType) /\ born \in 0..MaxCalls
      /\ MaxCalls \in Nat /\ stack[f] \in Seq(DOMAIN tables)
  BY <1>1, BoundsAssumption DEF Inductive, TypeOK
<1>3. born + 1 \in 0..MaxCalls /\ Len(stack[f]) + 1 \in Nat \ {0}
  BY <1>1, <1>2
<1>4. T \in TableType
  <2>1. Nothing \in [Names -> Values \cup {Absent}]
        /\ [Nothing EXCEPT ![Param] = v] \in [Names -> Values \cup {Absent}]
    BY DEF Nothing
  <2>2. Param \in Names
    BY NamesAssumption
  <2> QED BY <2>1, <2>2, <1>3 DEF TableType
<1>5. c \in CallType
  BY <1>1, <1>3 DEF CallType
<1>6. PosOfCall(f) \in Nat
  BY <1>1, <1>2, <1>3 DEF PosOfCall
<1> HIDE DEF T, c
<1>7. tables' \in Seq(TableType) /\ stack' \in [Funcs -> Seq(DOMAIN tables')]
  BY <1>1, <1>4, PushedTyped
<1>8. calls' \in Seq(CallType) /\ posFunc' \in [Funcs -> Nat]
  BY <1>1, <1>2, <1>5, <1>6
<1> QED BY <1>1, <1>3, <1>7, <1>8 DEF Inductive, TypeOK

LEMMA LeaveTyped ==
  ASSUME Inductive, Leave, tables' \in Seq(TableType), DOMAIN tables' = DOMAIN tables,
         \A t \in DOMAIN tables : tables'[t].owner = tables[t].owner,
         result' \in Values \cup {Absent, Null}
  PROVE  TypeOK'
<1>0. PICK r \in Funcs : r = Running.fn /\ r # 0
  BY RunningFacts DEF CallType, Leave
<1>1. PICK m \in 0..Len(stack[r]) : m = Running.base - 1
  BY <1>0, RunningFacts, RunningInside DEF Here
<1>2. stack' \in [Funcs -> Seq(DOMAIN tables)]
  <2>1. stack' = [stack EXCEPT ![r] = SubSeq(stack[r], 1, m)]
    BY <1>0, <1>1 DEF Leave, Here
  <2> QED BY <2>1, CutShape
<1>3. calls' \in Seq(CallType)
  <2>1. calls \in Seq(CallType) /\ Len(calls) \in Nat /\ Len(calls) > 1
    BY <1>0, RunningFacts, RunningInside DEF Inductive, TypeOK
  <2> QED BY <2>1 DEF Leave
<1> QED BY <1>2, <1>3 DEF Inductive, TypeOK, Leave

LEMMA SetReturnFacts ==
  ASSUME Inductive, NEW v \in Values \cup {Null}
  PROVE  /\ SetReturn(v) \in Seq(TableType) /\ DOMAIN SetReturn(v) = DOMAIN tables
         /\ \A t \in DOMAIN tables : /\ SetReturn(v)[t].owner = tables[t].owner
                                     /\ SetReturn(v)[t].symbols = tables[t].symbols
                                     /\ SetReturn(v)[t].given = tables[t].given
                                     /\ SetReturn(v)[t].kind = tables[t].kind
<1>1. tables \in Seq(TableType) /\ Len(tables) \in Nat /\ DOMAIN tables = 1..Len(tables)
  BY DEF Inductive, TypeOK
<1>2. DOMAIN SetReturn(v) = DOMAIN tables
  BY DEF SetReturn
<1>3. ASSUME NEW t \in DOMAIN tables
      PROVE  /\ SetReturn(v)[t] \in TableType
             /\ SetReturn(v)[t].owner = tables[t].owner
             /\ SetReturn(v)[t].symbols = tables[t].symbols
             /\ SetReturn(v)[t].given = tables[t].given
             /\ SetReturn(v)[t].kind = tables[t].kind
  <2>1. tables[t] \in TableType
    BY <1>1
  <2>2. [tables[t] EXCEPT !.ret = v] \in TableType
    BY <2>1 DEF TableType
  <2>3. SetReturn(v)[t] = tables[t] \/ SetReturn(v)[t] = [tables[t] EXCEPT !.ret = v]
    BY DEF SetReturn
  <2>4. /\ [tables[t] EXCEPT !.ret = v].owner = tables[t].owner
        /\ [tables[t] EXCEPT !.ret = v].symbols = tables[t].symbols
        /\ [tables[t] EXCEPT !.ret = v].given = tables[t].given
        /\ [tables[t] EXCEPT !.ret = v].kind = tables[t].kind
    BY <2>1 DEF TableType
  <2> QED BY <2>1, <2>2, <2>3, <2>4
<1>4. SetReturn(v) \in [1..Len(tables) -> TableType]
  BY <1>1, <1>2, <1>3 DEF SetReturn
<1> QED BY <1>1, <1>2, <1>3, <1>4

LEMMA ReturnedTyped ==
  ASSUME Inductive, Running.fn # 0,
         NEW tab \in Seq(TableType), DOMAIN tab = DOMAIN tables
  PROVE  Returned(tab) \in Values \cup {Absent, Null}
<1> DEFINE Marked == {i \in 1..Running.base : tab[Here[i]].ret # Absent}
<1>1. CASE Marked = {}
  BY <1>1 DEF Returned
<1>2. CASE Marked # {}
  <2>1. Last(Marked) \in Marked
    <3>1. Marked \subseteq 1..Running.base /\ Running.base \in Nat
      BY RunningInside
    <3> QED BY <1>2, <3>1, LastIsLast
  <2>2. Last(Marked) \in DOMAIN Here
    BY <2>1, RunningInside, RunningFacts
  <2>3. tab[Here[Last(Marked)]] \in TableType
    BY <2>2, RunningFacts
  <2>4. tab[Here[Last(Marked)]].ret \in Values \cup {Absent, Null}
    BY <2>3 DEF TableType
  <2> QED BY <1>2, <2>4 DEF Returned
<1> QED BY <1>1, <1>2

-----------------------------------------------------------------------------
(* Which tables are functions', and who holds a name that is global.       *)

(* What a step that assigns nothing does to them: the tables on the stacks *)
(* of K stay, an activation stays or has a table of a function of its own  *)
(* and has not returned, and a table that is put on a stack holds what it  *)
(* was given.                                                              *)
TablesKept ==
  \A t \in DOMAIN tables : tables'[t].kind = tables[t].kind
                          /\ tables'[t].symbols = tables[t].symbols
                          /\ tables'[t].given = tables[t].given
                          /\ tables'[t].ret = tables[t].ret

StacksKept(K) ==
  \A h \in K : \A p \in DOMAIN stack'[h] : p \in DOMAIN stack[h] => stack'[h][p] = stack[h][p]

CallsKept(K) ==
  \A i \in DOMAIN calls' : i > 1 =>
    \/ i \in DOMAIN calls /\ calls'[i] = calls[i] /\ calls[i].fn \in K
    \/ /\ tables'[stack'[calls'[i].fn][calls'[i].base]].kind # "scope"
       /\ calls'[i].gave = Absent

AddsEmpty ==
  \A f \in Decls : \A p \in DOMAIN stack'[f] :
    /\ \E i \in DOMAIN calls' : calls'[i].fn = f /\ calls'[i].base <= p
    /\ \/ p \in DOMAIN stack[f]
       \/ \A x \in Names : tables'[stack'[f][p]].symbols[x] # Absent
                         => x \in tables'[stack'[f][p]].given

LEMMA ShadowKept ==
  ASSUME Inductive, TypeOK', Active', main' = main,
         NEW K, Decls \subseteq K,
         TablesKept, StacksKept(K), CallsKept(K), AddsEmpty
  PROVE  Rooted' /\ Unshadowed'
<1> USE DEF TablesKept, StacksKept, CallsKept, AddsEmpty
<1>1. Rooted'
  <2> SUFFICES ASSUME NEW i \in DOMAIN calls', i > 1
               PROVE  /\ tables'[stack'[calls'[i].fn][calls'[i].base]].kind # "scope"
                      /\ calls'[i].gave # Absent =>
                           tables'[stack'[calls'[i].fn][calls'[i].base]].ret = calls'[i].gave
    BY DEF Rooted
  <2> SUFFICES ASSUME i \in DOMAIN calls, calls'[i] = calls[i], calls[i].fn \in K
               PROVE  /\ tables'[stack'[calls[i].fn][calls[i].base]].kind # "scope"
                      /\ calls[i].gave # Absent =>
                           tables'[stack'[calls[i].fn][calls[i].base]].ret = calls[i].gave
    OBVIOUS
  <2> DEFINE f == calls[i].fn
             b == calls[i].base
  <2>1. f \in Funcs /\ b \in Nat \ {0} /\ stack[f] \in Seq(DOMAIN tables)
    BY CallsTyped
  <2>2. stack'[f] \in Seq(DOMAIN tables')
    BY <2>1 DEF TypeOK
  <2>3. b <= Len(stack[f]) /\ b <= Len(stack'[f])
    BY DEF Inductive, Active
  <2>4. b \in DOMAIN stack[f] /\ b \in DOMAIN stack'[f]
    BY <2>1, <2>2, <2>3
  <2>5. stack'[f][b] = stack[f][b] /\ stack[f][b] \in DOMAIN tables
    BY <2>1, <2>4
  <2>6. /\ tables[stack[f][b]].kind # "scope"
        /\ calls[i].gave # Absent => tables[stack[f][b]].ret = calls[i].gave
    BY DEF Inductive, Rooted
  <2> QED BY <2>5, <2>6
<1>2. Unshadowed'
  <2> SUFFICES ASSUME NEW f \in Decls, NEW p \in DOMAIN stack'[f], p \in DOMAIN stack[f],
                      NEW x \in Names, main[x].global, main[x].value # Absent,
                      tables'[stack'[f][p]].symbols[x] # Absent
               PROVE  x \in tables'[stack'[f][p]].given
    BY DEF Unshadowed
  <2>1. stack'[f][p] = stack[f][p] /\ stack[f][p] \in DOMAIN tables
    BY FuncsFacts, OwnerTyped
  <2>2. tables[stack[f][p]].symbols[x] # Absent
    BY <2>1
  <2>3. x \in tables[stack[f][p]].given
    BY <2>2 DEF Inductive, Unshadowed
  <2> QED BY <2>1, <2>3
<1> QED BY <1>1, <1>2

LEMMA PushedSlots ==
  ASSUME Inductive, NEW f \in Funcs, NEW g \in Funcs, NEW T, Pushed(f, g, T)
  PROVE  /\ \A t \in DOMAIN tables : tables'[t] = tables[t]
         /\ \A h \in Funcs : h # g => stack'[h] = stack[h]
         /\ \A p \in DOMAIN stack[f] : stack'[g][p] = stack[f][p]
         /\ \A p \in DOMAIN stack'[g] : p \notin DOMAIN stack[f] =>
              p = Len(stack[f]) + 1 /\ tables'[stack'[g][p]] = T
         /\ Len(stack[f]) + 1 \in DOMAIN stack'[g] /\ Len(stack[f]) + 1 \notin DOMAIN stack[f]
<1>1. stack \in [Funcs -> Seq(DOMAIN tables)] /\ tables \in Seq(TableType)
  BY DEF Inductive, TypeOK
<1>2. /\ \A t \in DOMAIN tables : tables'[t] = tables[t]
      /\ tables'[Len(tables) + 1] = T
  BY <1>1 DEF Pushed
<1>3. /\ \A h \in Funcs : h # g => stack'[h] = stack[h]
      /\ stack'[g] = Append(stack[f], Len(tables) + 1) /\ stack[f] \in Seq(DOMAIN tables)
  BY <1>1 DEF Pushed
<1>4. /\ DOMAIN stack'[g] = 1..(Len(stack[f]) + 1) /\ DOMAIN stack[f] = 1..Len(stack[f])
      /\ Len(stack[f]) \in Nat
      /\ \A p \in 1..Len(stack[f]) : stack'[g][p] = stack[f][p]
      /\ stack'[g][Len(stack[f]) + 1] = Len(tables) + 1
  BY <1>3
<1>5. \A p \in DOMAIN stack'[g] : p \notin DOMAIN stack[f] => p = Len(stack[f]) + 1
  BY <1>4
<1> QED BY <1>2, <1>3, <1>4, <1>5

LEMMA OpenBlockShadow ==
  ASSUME Inductive, OpenBlock, TypeOK', Active'
  PROVE  Rooted' /\ Unshadowed'
<1>0. PICK r \in Funcs : r = Running.fn
  BY RunningFacts DEF CallType
<1> DEFINE T == Table("scope", Nothing)
<1>1. Pushed(r, r, T) /\ main' = main /\ calls' = calls
  BY <1>0 DEF OpenBlock, Pushed, Here
<1>2. \A x \in Names : T.symbols[x] = Absent
  BY DEF Table, Nothing
<1> HIDE DEF T
<1>3. \A i \in DOMAIN calls : calls[i].fn \in Funcs
  BY CallsTyped
<1>4. StacksKept(Funcs)
  BY <1>1, PushedSlots DEF StacksKept
<1>5. ASSUME NEW f \in Decls, NEW p \in DOMAIN stack'[f]
      PROVE  /\ \E i \in DOMAIN calls : calls[i].fn = f /\ calls[i].base <= p
             /\ p \in DOMAIN stack[f] \/ \A x \in Names : tables'[stack'[f][p]].symbols[x] = Absent
  <2>1. CASE p \in DOMAIN stack[f]
    BY <2>1 DEF Inductive, Unshadowed
  <2>2. CASE p \notin DOMAIN stack[f]
    <3>1. f = r /\ p = Len(stack[r]) + 1 /\ tables'[stack'[f][p]] = T
      BY <1>1, <2>2, FuncsFacts, PushedSlots
    <3>2. Running.base <= p /\ Len(calls) \in DOMAIN calls /\ calls[Len(calls)] = Running
      <4>1. Running.fn # 0
        BY <1>0, <3>1, FuncsFacts
      <4> QED BY <1>0, <3>1, <4>1, RunningFacts, RunningInside DEF Here
    <3> QED BY <1>0, <1>2, <3>1, <3>2
  <2> QED BY <2>1, <2>2
<1>6. TablesKept
  BY <1>1, PushedSlots DEF TablesKept
<1>7. CallsKept(Funcs)
  BY <1>1, <1>3 DEF CallsKept
<1>8. AddsEmpty
  BY <1>1, <1>5 DEF AddsEmpty
<1>9. Decls \subseteq Funcs
  BY DEF Funcs
<1> QED BY <1>1, <1>4, <1>6, <1>7, <1>8, <1>9, ShadowKept

LEMMA MakeLambdaShadow ==
  ASSUME Inductive, MakeLambda, TypeOK', Active'
  PROVE  Rooted' /\ Unshadowed'
<1>0. PICK r \in Funcs, l \in Lambdas : r = Running.fn /\ l = lambdas + 1
  BY RunningFacts, FuncsFacts DEF CallType, MakeLambda
<1>1. l \in Funcs /\ l # 0 /\ l \notin Decls /\ Pushed(r, l, Table("scope", Nothing))
      /\ main' = main /\ calls' = calls
  BY <1>0, FuncsFacts DEF MakeLambda, Pushed, Here
<1>2. \A i \in DOMAIN calls : calls[i].fn \in Funcs \ {l}
  <2> SUFFICES ASSUME NEW i \in DOMAIN calls PROVE calls[i].fn \in Funcs \ {l}
    OBVIOUS
  <2>1. calls[i].fn \in Funcs /\ (i = 1 \/ i > 1)
    BY CallsTyped
  <2>2. i > 1 => calls[i].fn \in Decls \cup 1..lambdas
    BY DEF Inductive, Active
  <2>3. i = 1 => calls[i].fn = 0
    BY DEF Inductive, Active
  <2>4. l \notin 1..lambdas
    BY <1>0, FuncsFacts
  <2> QED BY <1>1, <2>1, <2>2, <2>3, <2>4
<1>3. \A h \in Funcs \ {l} : stack'[h] = stack[h]
  BY <1>1, PushedSlots
<1>4. \A f \in Decls : f \in Funcs \ {l} /\ \A p \in DOMAIN stack[f] :
        \E i \in DOMAIN calls : calls[i].fn = f /\ calls[i].base <= p
  BY <1>1, FuncsFacts DEF Inductive, Unshadowed
<1>5. TablesKept
  BY <1>1, PushedSlots DEF TablesKept
<1>6. StacksKept(Funcs \ {l})
  BY <1>3 DEF StacksKept
<1>7. CallsKept(Funcs \ {l})
  BY <1>1, <1>2 DEF CallsKept
<1>8. AddsEmpty
  BY <1>1, <1>3, <1>4 DEF AddsEmpty
<1>9. Decls \subseteq Funcs \ {l}
  BY <1>4
<1> QED BY <1>1, <1>5, <1>6, <1>7, <1>8, <1>9, ShadowKept

LEMMA CallShadow ==
  ASSUME Inductive, NEW f \in Decls \cup Lambdas, NEW v \in Values, Call(f, v), TypeOK', Active'
  PROVE  Rooted' /\ Unshadowed'
<1> DEFINE T == [kind |-> IF f \in Decls THEN "func" ELSE "lambda",
                 owner |-> born + 1, ret |-> Absent,
                 symbols |-> IF f \in HasParam THEN [Nothing EXCEPT ![Param] = v] ELSE Nothing,
                 given |-> IF f \in HasParam THEN {Param} ELSE {}]
           c == [id |-> born + 1, fn |-> f, base |-> Len(stack[f]) + 1, gave |-> Absent]
           n == Len(calls) + 1
<1>1. /\ f \in Funcs /\ Pushed(f, f, T) /\ main' = main /\ calls' = Append(calls, c)
  BY FuncsFacts DEF Call, Pushed
<1>2. /\ T.kind # "scope"
      /\ \A x \in Names : T.symbols[x] # Absent => x \in T.given
  <2>1. v # Absent /\ Param \in Names
    BY NamesAssumption
  <2> QED BY <2>1 DEF Nothing
<1>3. c.fn = f /\ c.base = Len(stack[f]) + 1 /\ c.gave = Absent
  OBVIOUS
<1> HIDE DEF T, c
<1>4. /\ n \in DOMAIN calls' /\ calls'[n] = c
      /\ \A i \in DOMAIN calls : i \in DOMAIN calls' /\ calls'[i] = calls[i]
      /\ \A i \in DOMAIN calls' : i = n \/ i \in DOMAIN calls
  <2>1. calls \in Seq(CallType)
    BY DEF Inductive, TypeOK
  <2> QED BY <1>1, <2>1
<1> HIDE DEF n
<1>5. \A i \in DOMAIN calls : calls[i].fn \in Funcs
  BY CallsTyped
<1>6. StacksKept(Funcs)
  BY <1>1, PushedSlots DEF StacksKept
<1>7. \A h \in Funcs : \A p \in DOMAIN stack'[h] : p \notin DOMAIN stack[h] =>
        h = f /\ p = c.base /\ tables'[stack'[h][p]] = T
  BY <1>1, <1>3, PushedSlots
<1>8. tables'[stack'[f][c.base]] = T
  BY <1>1, <1>3, PushedSlots
<1>9. ASSUME NEW g \in Decls, NEW p \in DOMAIN stack'[g]
      PROVE  \E i \in DOMAIN calls' : calls'[i].fn = g /\ calls'[i].base <= p
  <2>1. CASE p \in DOMAIN stack[g]
    BY <1>4, <2>1 DEF Inductive, Unshadowed
  <2>2. CASE p \notin DOMAIN stack[g]
    <3>1. g = f /\ p = c.base
      BY <1>7, <2>2, FuncsFacts
    <3>2. p <= p
      <4>1. stack[f] \in Seq(DOMAIN tables)
        BY <1>1 DEF Inductive, TypeOK
      <4> QED BY <1>3, <3>1, <4>1
    <3> QED BY <1>3, <1>4, <3>1, <3>2
  <2> QED BY <2>1, <2>2
<1>10. ASSUME NEW i \in DOMAIN calls', i = n
       PROVE  /\ tables'[stack'[calls'[i].fn][calls'[i].base]].kind # "scope"
              /\ calls'[i].gave = Absent
  BY <1>2, <1>3, <1>4, <1>8, <1>10
<1>11. \A g \in Decls : \A p \in DOMAIN stack'[g] :
         \/ p \in DOMAIN stack[g]
         \/ \A x \in Names : tables'[stack'[g][p]].symbols[x] # Absent
                           => x \in tables'[stack'[g][p]].given
  BY <1>2, <1>7, FuncsFacts
<1>12. TablesKept
  BY <1>1, PushedSlots DEF TablesKept
<1>13. CallsKept(Funcs)
  BY <1>4, <1>5, <1>10 DEF CallsKept
<1>14. AddsEmpty
  BY <1>9, <1>11 DEF AddsEmpty
<1>15. Decls \subseteq Funcs
  BY DEF Funcs
<1> QED BY <1>1, <1>6, <1>12, <1>13, <1>14, <1>15, ShadowKept

LEMMA CutShadow ==
  ASSUME Inductive, TypeOK', Active', main' = main,
         NEW r \in Funcs, NEW m \in 0..Len(stack[r]),
         stack' = [stack EXCEPT ![r] = SubSeq(stack[r], 1, m)],
         TablesKept,
         \A i \in DOMAIN calls' : i \in DOMAIN calls /\ calls'[i] = calls[i],
         \A i \in DOMAIN calls : i \in DOMAIN calls' \/ (calls[i].fn = r /\ calls[i].base > m)
  PROVE  Rooted' /\ Unshadowed'
<1>1. stack \in [Funcs -> Seq(DOMAIN tables)]
  BY DEF Inductive, TypeOK
<1>2. stack[r] \in Seq(DOMAIN tables) /\ Len(stack[r]) \in Nat
  BY <1>1
<1>3. /\ stack'[r] = SubSeq(stack[r], 1, m)
      /\ \A h \in Funcs : h # r => stack'[h] = stack[h]
  BY <1>1
<1>4. DOMAIN stack'[r] = 1..m /\ \A p \in 1..m : stack'[r][p] = stack[r][p] /\ p \in DOMAIN stack[r]
  BY <1>2, <1>3
<1>5. \A h \in Funcs : \A p \in DOMAIN stack'[h] : p \in DOMAIN stack[h] /\ stack'[h][p] = stack[h][p]
  BY <1>3, <1>4
<1>6. \A i \in DOMAIN calls : calls[i].fn \in Funcs /\ calls[i].base \in Nat
  BY CallsTyped
<1>7. ASSUME NEW f \in Decls, NEW p \in DOMAIN stack'[f]
      PROVE  \E i \in DOMAIN calls' : calls'[i].fn = f /\ calls'[i].base <= p
  <2>1. PICK i \in DOMAIN calls : calls[i].fn = f /\ calls[i].base <= p
    BY <1>5, FuncsFacts DEF Inductive, Unshadowed
  <2>2. ~(f = r /\ calls[i].base > m)
    BY <1>4, <1>6, <2>1
  <2> QED BY <2>1, <2>2
<1>8. StacksKept(Funcs)
  BY <1>5 DEF StacksKept
<1>9. CallsKept(Funcs)
  BY <1>6 DEF CallsKept
<1>10. AddsEmpty
  BY <1>5, <1>7, FuncsFacts DEF AddsEmpty
<1>11. Decls \subseteq Funcs
  BY DEF Funcs
<1> QED BY <1>8, <1>9, <1>10, <1>11, ShadowKept

LEMMA CloseBlockShadow ==
  ASSUME Inductive, CloseBlock, TypeOK', Active'
  PROVE  Rooted' /\ Unshadowed'
<1>0. PICK r \in Funcs : r = Running.fn
  BY RunningFacts DEF CallType
<1>1. PICK m \in 0..Len(stack[r]) : stack' = [stack EXCEPT ![r] = SubSeq(stack[r], 1, m)]
  <2>1. Len(stack[r]) - 1 \in 0..Len(stack[r])
    BY <1>0, RunningFacts, RunningInside DEF CloseBlock, InBlock, Here
  <2> QED BY <1>0, <2>1 DEF CloseBlock, Here
<1>2. UNCHANGED <<main, calls>> /\ TablesKept
  BY DEF CloseBlock, TablesKept
<1>3. /\ \A i \in DOMAIN calls' : i \in DOMAIN calls /\ calls'[i] = calls[i]
      /\ \A i \in DOMAIN calls : i \in DOMAIN calls'
  BY <1>2
<1> QED BY <1>1, <1>2, <1>3, CutShadow

LEMMA LeaveShadow ==
  ASSUME Inductive, Leave, TypeOK', Active', TablesKept
  PROVE  Rooted' /\ Unshadowed'
<1>0. PICK r \in Funcs : r = Running.fn /\ r # 0
  BY RunningFacts DEF CallType, Leave
<1>1. PICK m \in 0..Len(stack[r]) : m = Running.base - 1
  BY <1>0, RunningFacts, RunningInside DEF Here
<1>2. stack' = [stack EXCEPT ![r] = SubSeq(stack[r], 1, m)] /\ main' = main
  BY <1>0, <1>1 DEF Leave, Here
<1>3. PICK n \in Nat : n = Len(calls) /\ n > 1 /\ DOMAIN calls = 1..n /\ calls[n] = Running
                    /\ Running.base \in Nat
  <2>1. /\ Len(calls) \in Nat /\ Len(calls) > 1 /\ calls[Len(calls)] = Running
        /\ Running.base \in Nat
    BY <1>0, RunningFacts, RunningInside
  <2>2. DOMAIN calls = 1..Len(calls)
    BY DEF Inductive, TypeOK
  <2> QED BY <2>1, <2>2
<1>4. DOMAIN calls' = 1..(n - 1) /\ \A i \in 1..(n - 1) : calls'[i] = calls[i]
  <2>1. calls' = SubSeq(calls, 1, n - 1) /\ calls \in Seq(CallType) /\ n - 1 \in Nat
    BY <1>3 DEF Leave, Inductive, TypeOK
  <2> QED BY <1>3, <2>1
<1>5. \A i \in DOMAIN calls : i \in DOMAIN calls' \/ (calls[i].fn = r /\ calls[i].base > m)
  BY <1>0, <1>1, <1>3, <1>4
<1>6. \A i \in DOMAIN calls' : i \in DOMAIN calls /\ calls'[i] = calls[i]
  BY <1>3, <1>4
<1> QED BY <1>2, <1>5, <1>6, CutShadow

-----------------------------------------------------------------------------
(* The steps that change one entry: Assign, InsertEntry, SetEntry, Remove. *)

(* In the table t, which becomes T.                                        *)
TableChanged(t, T) ==
  /\ t \in DOMAIN tables /\ T \in TableType /\ tables' = [tables EXCEPT ![t] = T]
  /\ T.kind = tables[t].kind /\ T.owner = tables[t].owner /\ T.ret = tables[t].ret
  /\ UNCHANGED <<stack, posFunc, main, calls, born, lambdas, around>> /\ result' = Absent

LEMMA TableChangedInductive ==
  ASSUME Inductive, NEW t, NEW T, TableChanged(t, T),
         \A y \in Names :
           main[y].global /\ main[y].value # Absent /\ T.symbols[y] # Absent /\ y \notin T.given
             => tables[t].symbols[y] # Absent /\ y \notin tables[t].given
  PROVE  Inductive'
<1>1. /\ tables \in Seq(TableType) /\ t \in DOMAIN tables /\ T \in TableType
      /\ tables' = [tables EXCEPT ![t] = T]
      /\ UNCHANGED <<stack, posFunc, main, calls, born, lambdas, around>> /\ result' = Absent
  BY DEF Inductive, TypeOK, TableChanged
<1>2. /\ tables' \in Seq(TableType) /\ DOMAIN tables' = DOMAIN tables /\ tables'[t] = T
      /\ \A u \in DOMAIN tables : u # t => tables'[u] = tables[u]
  BY <1>1
<1>3. TypeOK'
  BY <1>1, <1>2 DEF Inductive, TypeOK
<1>4. \A u \in DOMAIN tables : /\ tables'[u].owner = tables[u].owner
                               /\ tables'[u].kind = tables[u].kind /\ tables'[u].ret = tables[u].ret
  BY <1>2 DEF TableChanged
<1>5. Active' /\ PosAhead' /\ OwnTables' /\ Layers' /\ Captured'
  <2>1. CallsAlike
    BY <1>1 DEF Inductive, Active, CallsAlike
  <2> QED BY <1>1, <1>2, <1>4, <2>1, SameShape
<1>6. Rooted'
  <2>1. ASSUME NEW i \in DOMAIN calls, i > 1
        PROVE  stack[calls[i].fn][calls[i].base] \in DOMAIN tables
    <3>1. calls[i].base <= Len(stack[calls[i].fn])
      BY <2>1 DEF Inductive, Active
    <3> QED BY <3>1, CallsTyped
  <2> QED BY <1>1, <1>4, <2>1 DEF Inductive, Rooted
<1>7. Unshadowed'
  <2>1. ASSUME NEW f \in Decls, NEW p \in DOMAIN stack[f], NEW y \in Names,
               main[y].global, main[y].value # Absent, tables'[stack[f][p]].symbols[y] # Absent
        PROVE  y \in tables'[stack[f][p]].given
    <3>1. stack[f][p] \in DOMAIN tables
      BY FuncsFacts, OwnerTyped
    <3>2. tables[stack[f][p]].symbols[y] # Absent => y \in tables[stack[f][p]].given
      BY <2>1 DEF Inductive, Unshadowed
    <3>3. CASE stack[f][p] = t
      BY <1>2, <2>1, <3>2, <3>3
    <3>4. CASE stack[f][p] # t
      BY <1>2, <2>1, <3>1, <3>2, <3>4
    <3> QED BY <3>3, <3>4
  <2>2. \A f \in Decls : \A p \in DOMAIN stack[f] :
          \E i \in DOMAIN calls : calls[i].fn = f /\ calls[i].base <= p
    BY DEF Inductive, Unshadowed
  <2> QED BY <1>1, <2>1, <2>2 DEF Unshadowed
<1> QED BY <1>3, <1>5, <1>6, <1>7 DEF Inductive

(* In the main table, where a name becomes global only outside of          *)
(* functions.                                                              *)
LEMMA MainChangedInductive ==
  ASSUME Inductive, UNCHANGED <<tables, stack, posFunc, calls, born, lambdas, around>>,
         result' = Absent,
         main' \in [Names -> [value : Values \cup {Absent}, global : BOOLEAN]],
         Running.fn # 0 =>
           \A y \in Names : main'[y].global /\ main'[y].value # Absent
                              => main[y].global /\ main[y].value # Absent
  PROVE  Inductive'
<1>1. TypeOK'
  BY DEF Inductive, TypeOK
<1>2. Active' /\ PosAhead' /\ OwnTables' /\ Layers' /\ Captured'
  <2>1. CallsAlike
    BY DEF Inductive, Active, CallsAlike
  <2> QED BY <2>1, SameShape
<1>3. Rooted'
  BY DEF Inductive, Rooted
<1>4. Unshadowed'
  <2>1. ASSUME NEW f \in Decls, NEW p \in DOMAIN stack[f] PROVE Running.fn # 0
    <3> SUFFICES ASSUME Running.fn = 0 PROVE FALSE
      OBVIOUS
    <3>1. PICK i \in DOMAIN calls : calls[i].fn = f
      BY DEF Inductive, Unshadowed
    <3>2. i = 1 /\ calls[1].fn = 0
      BY RunningOutside, CallsTyped DEF Inductive, Active
    <3> QED BY <3>1, <3>2, FuncsFacts
  <2> QED BY <2>1 DEF Inductive, Unshadowed
<1> QED BY <1>1, <1>2, <1>3, <1>4 DEF Inductive

LEMMA AssignInductive ==
  ASSUME Inductive, NEW x \in Names, NEW v \in Values, NEW global \in BOOLEAN, Assign(x, v, global)
  PROVE  Inductive'
<1>0. /\ UNCHANGED <<stack, posFunc, calls, born, lambdas, around>> /\ result' = Absent
      /\ global => Running.fn = 0
      /\ main \in [Names -> [value : Values \cup {Absent}, global : BOOLEAN]]
      /\ tables \in Seq(TableType)
  BY DEF Inductive, TypeOK, Assign
<1>1. CASE Ref(x) = 0
  <2>1. tables' = tables /\ main' = [main EXCEPT ![x] =
          [value |-> v, global |-> IF main[x].value = Absent THEN global ELSE main[x].global]]
    BY <1>1 DEF Assign
  <2>2. main' \in [Names -> [value : Values \cup {Absent}, global : BOOLEAN]]
    BY <1>0, <2>1
  <2>3. ASSUME NEW y \in Names, main'[y].global, main'[y].value # Absent, Running.fn # 0
        PROVE  main[y].global /\ main[y].value # Absent
    <3>1. CASE y = x
      <4>1. main'[x].global = IF main[x].value = Absent THEN global ELSE main[x].global
        BY <1>0, <2>1
      <4> QED BY <1>0, <2>3, <3>1, <4>1
    <3>2. CASE y # x
      BY <1>0, <2>1, <2>3, <3>2
    <3> QED BY <3>1, <3>2
  <2> QED BY <1>0, <2>1, <2>2, <2>3, MainChangedInductive
<1>2. CASE Ref(x) # 0
  <2>1. PICK t \in DOMAIN tables : t = Ref(x) /\ tables[t] \in TableType
    BY <1>0, <1>2, RefReach
  <2> DEFINE T == [tables[t] EXCEPT !.symbols = [tables[t].symbols EXCEPT ![x] = v]]
  <2>2. tables' = [tables EXCEPT ![t] = T] /\ main' = main
    BY <1>2, <2>1 DEF Assign
  <2>3. /\ T.kind = tables[t].kind /\ T.owner = tables[t].owner /\ T.ret = tables[t].ret
        /\ T.given = tables[t].given /\ T \in TableType
        /\ \A y \in Names : T.symbols[y] = IF y = x THEN v ELSE tables[t].symbols[y]
    <3>1. [tables[t].symbols EXCEPT ![x] = v] \in [Names -> Values \cup {Absent}]
      BY <2>1 DEF TableType
    <3> QED BY <2>1, <3>1 DEF TableType
  <2>4. main[x].global /\ main[x].value # Absent => tables[t].symbols[x] # Absent
    <3> SUFFICES ASSUME main[x].global, main[x].value # Absent PROVE tables[t].symbols[x] # Absent
      OBVIOUS
    <3>1. ASSUME NEW b, Holders(x, b) # {} PROVE tables[Here[Last(Holders(x, b))]].symbols[x] # Absent
      <4>1. Holders(x, b) \subseteq 1..Len(Here) /\ Len(Here) \in Nat
        BY RunningFacts DEF Holders
      <4>2. Last(Holders(x, b)) \in Holders(x, b)
        BY <3>1, <4>1, LastIsLast
      <4> QED BY <4>2 DEF Holders
    <3> QED BY <1>2, <2>1, <3>1 DEF Ref, FuncRef, RootRef
  <2> HIDE DEF T
  <2>5. TableChanged(t, T)
    BY <1>0, <2>1, <2>2, <2>3 DEF TableChanged
  <2>6. \A y \in Names :
          main[y].global /\ main[y].value # Absent /\ T.symbols[y] # Absent /\ y \notin T.given
            => tables[t].symbols[y] # Absent /\ y \notin tables[t].given
    BY <2>3, <2>4
  <2> QED BY <2>5, <2>6, TableChangedInductive
<1> QED BY <1>1, <1>2

(* Without a search: InsertEntry and SetEntry.                             *)
Entered(x, v) ==
  /\ \/ /\ Here = <<>> /\ UNCHANGED tables
        /\ \E global \in BOOLEAN : main' = [main EXCEPT ![x] = [value |-> v, global |-> global]]
     \/ Here # <<>> /\ tables' = Given(Top, x, v) /\ UNCHANGED main
  /\ result' = Absent
  /\ UNCHANGED <<stack, posFunc, calls, born, lambdas, around>>

LEMMA EntriesEntered ==
  ASSUME Inductive, NEW x \in Names, NEW v \in Values, InsertEntry(x, v) \/ SetEntry(x, v)
  PROVE  Entered(x, v)
<1>1. CASE InsertEntry(x, v)
  BY <1>1 DEF InsertEntry, Entered
<1>2. CASE SetEntry(x, v)
  <2>1. (main[x].value # Absent /\ main[x].global) \in BOOLEAN
    BY DEF Inductive, TypeOK
  <2> QED BY <1>2, <2>1 DEF SetEntry, Entered
<1> QED BY <1>1, <1>2

LEMMA TopFacts ==
  ASSUME Inductive, Here # <<>>
  PROVE  /\ Top \in DOMAIN tables /\ tables[Top] \in TableType /\ Len(Here) \in DOMAIN Here
         /\ tables[Top].owner = Owner(Running.fn, Len(Here))
<1>1. Len(Here) \in DOMAIN Here /\ Here[Len(Here)] \in DOMAIN tables
  BY RunningFacts
<1> QED BY <1>1 DEF Top, Owner, Here, Inductive, TypeOK

LEMMA EnteredInductive ==
  ASSUME Inductive, NEW x \in Names, NEW v \in Values, Entered(x, v)
  PROVE  Inductive'
<1>0. main \in [Names -> [value : Values \cup {Absent}, global : BOOLEAN]]
  BY DEF Inductive, TypeOK
<1>1. CASE Here = <<>>
  <2>1. PICK global \in BOOLEAN : main' = [main EXCEPT ![x] = [value |-> v, global |-> global]]
    BY <1>1 DEF Entered
  <2>2. main' \in [Names -> [value : Values \cup {Absent}, global : BOOLEAN]]
    BY <1>0, <2>1
  <2>3. Running.fn = 0
    BY <1>1, RunningInside
  <2> QED BY <1>1, <2>2, <2>3, MainChangedInductive DEF Entered
<1>2. CASE Here # <<>>
  <2>1. PICK t \in DOMAIN tables : t = Top /\ tables[t] \in TableType
    BY <1>2, TopFacts
  <2> DEFINE T == [tables[t] EXCEPT !.symbols = [tables[t].symbols EXCEPT ![x] = v],
                                    !.given = tables[t].given \cup {x}]
  <2>2. tables' = [tables EXCEPT ![t] = T]
    BY <1>2, <2>1 DEF Entered, Given
  <2>3. /\ T.kind = tables[t].kind /\ T.owner = tables[t].owner /\ T.ret = tables[t].ret
        /\ T.given = tables[t].given \cup {x} /\ T \in TableType
        /\ \A y \in Names : T.symbols[y] = IF y = x THEN v ELSE tables[t].symbols[y]
    <3>1. [tables[t].symbols EXCEPT ![x] = v] \in [Names -> Values \cup {Absent}]
      BY <2>1 DEF TableType
    <3> QED BY <2>1, <3>1 DEF TableType
  <2> HIDE DEF T
  <2>4. TableChanged(t, T)
    BY <1>2, <2>1, <2>2, <2>3 DEF TableChanged, Entered
  <2> QED BY <2>3, <2>4, TableChangedInductive
<1> QED BY <1>1, <1>2

LEMMA RemoveInductive ==
  ASSUME Inductive, NEW x \in Names, Remove(x)
  PROVE  Inductive'
<1>0. /\ main \in [Names -> [value : Values \cup {Absent}, global : BOOLEAN]]
      /\ tables \in Seq(TableType)
  BY DEF Inductive, TypeOK
<1>1. CASE Holders(x, 1) = {}
  <2>1. main' = [main EXCEPT ![x] = [value |-> Absent, global |-> FALSE]]
    BY <1>1 DEF Remove
  <2>2. main' \in [Names -> [value : Values \cup {Absent}, global : BOOLEAN]]
    BY <1>0, <2>1
  <2>3. \A y \in Names : main'[y].global /\ main'[y].value # Absent
                           => main[y].global /\ main[y].value # Absent
    BY <1>0, <2>1
  <2> QED BY <1>1, <2>2, <2>3, MainChangedInductive DEF Remove
<1>2. CASE Holders(x, 1) # {}
  <2>1. PICK t \in DOMAIN tables : t = Here[Last(Holders(x, 1))] /\ tables[t] \in TableType
    BY <1>0, <1>2, HoldersLast
  <2> DEFINE T == [tables[t] EXCEPT !.symbols = [tables[t].symbols EXCEPT ![x] = Absent],
                                    !.given = tables[t].given \ {x}]
  <2>2. tables' = [tables EXCEPT ![t] = T]
    BY <1>2, <2>1 DEF Remove, Taken
  <2>3. /\ T.kind = tables[t].kind /\ T.owner = tables[t].owner /\ T.ret = tables[t].ret
        /\ T.given = tables[t].given \ {x} /\ T \in TableType
        /\ \A y \in Names : T.symbols[y] = IF y = x THEN Absent ELSE tables[t].symbols[y]
    <3>1. [tables[t].symbols EXCEPT ![x] = Absent] \in [Names -> Values \cup {Absent}]
      BY <2>1 DEF TableType
    <3> QED BY <2>1, <3>1 DEF TableType
  <2> HIDE DEF T
  <2>4. TableChanged(t, T)
    BY <1>2, <2>1, <2>2, <2>3 DEF TableChanged, Remove
  <2>5. \A y \in Names :
          main[y].global /\ main[y].value # Absent /\ T.symbols[y] # Absent /\ y \notin T.given
            => tables[t].symbols[y] # Absent /\ y \notin tables[t].given
    BY <2>3
  <2> QED BY <2>4, <2>5, TableChangedInductive
<1> QED BY <1>1, <1>2

-----------------------------------------------------------------------------
(* A return.                                                               *)

(* What a return that is noted gave is still in its own table.             *)
LEMMA ReturnInductive ==
  ASSUME Inductive, NEW v \in Values \cup {Null}, Return(v)
  PROVE  Inductive'
<1>0. /\ Running.fn # 0 /\ tables' = SetReturn(v) /\ calls' = Noted(v) /\ result' = Absent
      /\ UNCHANGED <<stack, posFunc, main, born, lambdas, around>>
  BY DEF Return
<1>1. /\ tables' \in Seq(TableType) /\ DOMAIN tables' = DOMAIN tables
      /\ \A t \in DOMAIN tables : /\ tables'[t].owner = tables[t].owner
                                  /\ tables'[t].symbols = tables[t].symbols
                                  /\ tables'[t].given = tables[t].given
                                  /\ tables'[t].kind = tables[t].kind
  BY <1>0, SetReturnFacts
<1>2. PICK n \in Nat \ {0, 1} : n = Len(calls) /\ DOMAIN calls = 1..n /\ calls \in Seq(CallType)
  <2>1. Len(calls) \in Nat /\ Len(calls) > 1 /\ calls \in Seq(CallType)
    BY <1>0, RunningFacts, RunningInside DEF Inductive, TypeOK
  <2> QED BY <2>1
<1>3. /\ DOMAIN calls' = 1..n
      /\ calls'[n] = [calls[n] EXCEPT !.gave = v]
      /\ \A i \in 1..n : \/ i = n
                         \/ calls'[i] = [calls[i] EXCEPT !.gave = Absent]
                         \/ calls'[i] = calls[i] /\ ~ HasTableOf(calls[i].id)
  BY <1>0, <1>2 DEF Noted
<1>4. ASSUME NEW i \in 1..n
      PROVE  /\ calls'[i] \in CallType /\ calls'[i].id = calls[i].id
             /\ calls'[i].fn = calls[i].fn /\ calls'[i].base = calls[i].base
  <2>1. calls[i] \in CallType
    BY <1>2
  <2>2. /\ [calls[i] EXCEPT !.gave = v] \in CallType
        /\ [calls[i] EXCEPT !.gave = Absent] \in CallType
    BY <2>1 DEF CallType
  <2>3. \A g : /\ [calls[i] EXCEPT !.gave = g].id = calls[i].id
               /\ [calls[i] EXCEPT !.gave = g].fn = calls[i].fn
               /\ [calls[i] EXCEPT !.gave = g].base = calls[i].base
    BY <2>1 DEF CallType
  <2>4. CASE i = n
    <3>1. calls'[i] = [calls[i] EXCEPT !.gave = v]
      BY <1>3, <2>4
    <3> QED BY <2>2, <2>3, <3>1
  <2>5. CASE calls'[i] = [calls[i] EXCEPT !.gave = Absent]
    BY <2>2, <2>3, <2>5
  <2>6. CASE calls'[i] = calls[i]
    BY <2>1, <2>6
  <2> QED BY <1>3, <2>4, <2>5, <2>6
<1>5. calls' \in Seq(CallType)
  <2>1. calls' \in [1..n -> CallType]
    BY <1>0, <1>2, <1>3, <1>4 DEF Noted
  <2> QED BY <2>1
<1>6. TypeOK'
  BY <1>0, <1>1, <1>5 DEF Inductive, TypeOK
<1>7. CallsAlike
  <2>1. calls[1] = [id |-> 0, fn |-> 0, base |-> 1, gave |-> Absent]
    BY DEF Inductive, Active
  <2>2. 1 # n /\ 1 \in 1..n
    BY <1>2
  <2>3. calls'[1] = calls[1]
    BY <1>3, <2>1, <2>2
  <2>4. calls' # <<>>
    BY <1>3, <2>2
  <2> QED BY <1>2, <1>3, <1>4, <2>3, <2>4 DEF CallsAlike
<1>8. Active' /\ PosAhead' /\ OwnTables' /\ Layers' /\ Captured'
  BY <1>0, <1>1, <1>7, SameShape
<1>9. Rooted'
  <2> SUFFICES ASSUME NEW i \in 1..n, i > 1
               PROVE  LET t == tables'[stack[calls[i].fn][calls[i].base]] IN
                      t.kind # "scope" /\ (calls'[i].gave # Absent => t.ret = calls'[i].gave)
    BY <1>0, <1>3, <1>4 DEF Rooted
  <2>1. PICK f \in Funcs, b \in Nat \ {0} :
          f = calls[i].fn /\ b = calls[i].base /\ b \in DOMAIN stack[f]
    <3>1. calls[i].base <= Len(stack[calls[i].fn])
      BY <1>2 DEF Inductive, Active
    <3> QED BY <3>1, <1>2, CallsTyped
  <2>2. PICK t \in DOMAIN tables : t = stack[f][b] /\ tables[t] \in TableType
    <3>1. stack[f][b] \in DOMAIN tables
      BY <2>1, OwnerTyped
    <3> QED BY <3>1 DEF Inductive, TypeOK
  <2>3. tables[t].kind # "scope" /\ (calls[i].gave # Absent => tables[t].ret = calls[i].gave)
    BY <1>2, <2>1, <2>2 DEF Inductive, Rooted
  <2>4. tables'[t].ret = IF \E p \in DOMAIN Here : Here[p] = t THEN v ELSE tables[t].ret
    <3>1. tables'[t] = IF \E p \in DOMAIN Here : Here[p] = t
                       THEN [tables[t] EXCEPT !.ret = v] ELSE tables[t]
      BY <1>0, <2>2, <2>3 DEF SetReturn
    <3>2. [tables[t] EXCEPT !.ret = v].ret = v
      BY <2>2 DEF TableType
    <3> QED BY <3>1, <3>2
  <2>5. CASE i = n
    <3>1. f = Running.fn /\ calls[i] \in CallType
      BY <1>2, <2>1, <2>5 DEF Running
    <3>2. calls'[i].gave = v
      BY <1>3, <2>5, <3>1 DEF CallType
    <3>3. b \in DOMAIN Here /\ Here[b] = t
      BY <2>1, <2>2, <3>1 DEF Here
    <3> QED BY <1>1, <2>1, <2>2, <2>3, <2>4, <3>2, <3>3
  <2>6. CASE i # n
    <3>0. calls[i] \in CallType
      BY <1>2
    <3>1. CASE calls'[i] = [calls[i] EXCEPT !.gave = Absent]
      <4>1. calls'[i].gave = Absent
        BY <3>0, <3>1 DEF CallType
      <4> QED BY <1>1, <2>1, <2>2, <2>3, <4>1
    <3>2. CASE calls'[i] = calls[i] /\ ~ HasTableOf(calls[i].id)
      <4>1. Owner(f, b) = calls[i].id
        <5>1. \A j \in DOMAIN calls : j > i /\ calls[j].fn = f => b < calls[j].base
          BY <1>2, <2>1 DEF Inductive, Active
        <5>2. i \in DOMAIN calls /\ b >= b
          BY <1>2, <2>1
        <5> QED BY <2>1, <5>1, <5>2 DEF Inductive, OwnTables
      <4>2. ~ \E p \in DOMAIN Here : Here[p] = t
        BY <2>2, <3>2, <4>1 DEF HasTableOf, Owner, Here
      <4> QED BY <1>1, <2>1, <2>2, <2>3, <2>4, <3>2, <4>2
    <3> QED BY <1>3, <2>6, <3>1, <3>2
  <2> QED BY <2>5, <2>6
<1>10. Unshadowed'
  <2>1. \A f \in Decls : \A p \in DOMAIN stack[f] : stack[f][p] \in DOMAIN tables
    BY FuncsFacts, OwnerTyped
  <2> QED BY <1>0, <1>1, <1>2, <1>3, <1>4, <2>1 DEF Inductive, Unshadowed
<1> QED BY <1>6, <1>8, <1>9, <1>10 DEF Inductive

-----------------------------------------------------------------------------
(* The theorems.                                                           *)

LEMMA InitInductive == Init => Inductive
<1> SUFFICES ASSUME Init PROVE Inductive
  OBVIOUS
<1>1. tables = <<>> /\ DOMAIN tables = {} /\ calls = <<[id |-> 0, fn |-> 0, base |-> 1, gave |-> Absent]>>
      /\ stack = [f \in Funcs |-> <<>>] /\ lambdas = 0
  BY DEF Init
<1>2. DOMAIN calls = {1} /\ calls[1] = [id |-> 0, fn |-> 0, base |-> 1, gave |-> Absent] /\ calls # <<>>
  BY <1>1
<1>3. 0 \in Funcs /\ 0 \notin Decls
  BY DeclsAssumption DEF Funcs
<1>4. DOMAIN stack[0] = {}
  BY <1>1, <1>3
<1>5. TypeOK
  <2>1. tables \in Seq(TableType)
    <3>1. <<>> \in Seq(TableType)
      OBVIOUS
    <3> QED BY <1>1, <3>1
  <2>2. stack \in [Funcs -> Seq(DOMAIN tables)]
    <3>1. <<>> \in Seq(DOMAIN tables)
      OBVIOUS
    <3> QED BY <1>1, <3>1
  <2>3. calls \in Seq(CallType)
    <3>1. [id |-> 0, fn |-> 0, base |-> 1, gave |-> Absent] \in CallType
      BY <1>3, BoundsAssumption DEF CallType
    <3> QED BY <1>1, <3>1
  <2>4. /\ posFunc \in [Funcs -> Nat]
        /\ main \in [Names -> [value : Values \cup {Absent}, global : BOOLEAN]]
        /\ around \in [Lambdas -> SUBSET (0..MaxCalls)]
        /\ born \in 0..MaxCalls /\ lambdas \in 0..MaxLambdas
        /\ result \in Values \cup {Absent, Null}
    BY BoundsAssumption DEF Init
  <2> QED BY <2>1, <2>2, <2>3, <2>4 DEF TypeOK
<1>6. Active
  BY <1>1, <1>2 DEF Active, Init
<1>7. PosAhead
  BY <1>2, <1>3 DEF PosAhead, Init
<1>8. OwnTables /\ Layers
  BY <1>2, <1>4 DEF OwnTables, Layers
<1>9. Captured
  BY <1>1 DEF Captured
<1>10. Rooted /\ Unshadowed
  <2>1. \A f \in Decls : DOMAIN stack[f] = {}
    BY <1>1 DEF Funcs
  <2> QED BY <1>2, <2>1 DEF Rooted, Unshadowed
<1> QED BY <1>5, <1>6, <1>7, <1>8, <1>9, <1>10 DEF Inductive

LEMMA NextInductive == Inductive /\ [Next]_vars => Inductive'
<1> SUFFICES ASSUME Inductive, [Next]_vars PROVE Inductive'
  OBVIOUS
<1>0. ASSUME TypeOK', Active' /\ PosAhead' /\ OwnTables' /\ Layers' /\ Captured',
             Rooted' /\ Unshadowed'
      PROVE  Inductive'
  BY <1>0 DEF Inductive
<1>1. ASSUME NEW x \in Names, NEW v \in Values, NEW global \in BOOLEAN, Assign(x, v, global)
      PROVE  Inductive'
  BY <1>1, AssignInductive
<1>9. ASSUME NEW x \in Names, NEW v \in Values, InsertEntry(x, v) \/ SetEntry(x, v)
      PROVE  Inductive'
  BY <1>9, EntriesEntered, EnteredInductive
<1>10. ASSUME NEW x \in Names, Remove(x)
       PROVE  Inductive'
  BY <1>10, RemoveInductive
<1>2. CASE OpenBlock
  BY <1>0, <1>2, OpenBlockTyped, OpenBlockShape, OpenBlockShadow
<1>3. CASE CloseBlock
  BY <1>0, <1>3, CloseBlockTyped, CloseBlockShape, CloseBlockShadow
<1>4. CASE MakeLambda
  BY <1>0, <1>4, MakeLambdaTyped, MakeLambdaShape, MakeLambdaShadow
<1>5. ASSUME NEW f \in Decls \cup Lambdas, NEW v \in Values, Call(f, v)
      PROVE  Inductive'
  BY <1>0, <1>5, CallTyped, CallShape, CallShadow
<1>6. ASSUME NEW v \in Values \cup {Null}, Return(v)
      PROVE  Inductive'
  BY <1>6, ReturnInductive
<1>7. CASE End \/ Throw
  <2>1. Leave /\ tables' = tables /\ tables \in Seq(TableType) /\ Running.fn # 0
    BY <1>7 DEF End, Throw, Leave, Inductive, TypeOK
  <2>2. result' \in Values \cup {Absent, Null}
    <3>1. Returned(tables) \in Values \cup {Absent, Null}
      BY <2>1, ReturnedTyped
    <3> QED BY <3>1, <1>7 DEF End, Throw
  <2>3. TablesKept
    BY <2>1 DEF TablesKept
  <2> QED BY <2>1, <2>2, <2>3, <1>0, LeaveTyped, LeaveShape, LeaveShadow
<1>8. CASE UNCHANGED vars
  <2>1. UNCHANGED <<tables, stack, posFunc, main, calls, born, lambdas, around, result>>
    BY <1>8 DEF vars
  <2>2. TypeOK'
    BY <2>1 DEF Inductive, TypeOK
  <2>3. Active' /\ PosAhead' /\ OwnTables' /\ Layers' /\ Captured'
    <3>1. CallsAlike
      BY <2>1 DEF Inductive, Active, CallsAlike
    <3> QED BY <2>1, <3>1, SameShape
  <2>4. Rooted' /\ Unshadowed'
    BY <2>1 DEF Inductive, Rooted, Unshadowed
  <2> QED BY <2>2, <2>3, <2>4, <1>0
<1> QED BY <1>1, <1>2, <1>3, <1>4, <1>5, <1>6, <1>7, <1>8, <1>9, <1>10 DEF Next

\* However calls nest, the tables, stacks and activations fit each other: all
\* of FuncDeclObject::Call, Push, Pop and the copies of stacks keep them so.
THEOREM Invariance == Spec => []Inductive
<1>1. Init => Inductive
  BY InitInductive
<1>2. Inductive /\ [Next]_vars => Inductive'
  BY NextInductive
<1> QED BY <1>1, <1>2, PTL DEF Spec

\* Activations of one function share a stack, and each still has its own part
\* of it (Push, Pop).
THEOREM OwnTablesAlways == Spec => []OwnTables
<1>1. Inductive => OwnTables
  BY DEF Inductive
<1> QED BY <1>1, Invariance, PTL

(* A new table changes none that is there.                                 *)
LEMMA PushedKeeps ==
  ASSUME Inductive, NEW f, NEW g, NEW T, Pushed(f, g, T), NEW t \in DOMAIN tables
  PROVE  tables'[t] = tables[t]
<1>1. tables \in Seq(TableType)
  BY DEF Inductive, TypeOK
<1> QED BY <1>1 DEF Pushed

LEMMA AssignLocal ==
  ASSUME Inductive, NEW x \in Names, NEW v \in Values, NEW global \in BOOLEAN, Assign(x, v, global)
  PROVE  /\ \A t \in DOMAIN tables :
              tables'[t].symbols # tables[t].symbols => tables[t].owner \in Reach
         /\ \A y \in Names : main'[y] # main[y] /\ posFunc[Running.fn] > 0 => main[y].global
<1>0. main \in [Names -> [value : Values \cup {Absent}, global : BOOLEAN]]
  BY DEF Inductive, TypeOK
<1>1. CASE Ref(x) # 0
  <2>1. main' = main /\ \A t \in DOMAIN tables : t # Ref(x) => tables'[t] = tables[t]
    BY <1>1 DEF Assign
  <2> QED BY <2>1, <1>1, RefReach
<1>2. CASE Ref(x) = 0
  <2>1. tables' = tables /\ \A y \in Names : y # x => main'[y] = main[y]
    BY <1>0, <1>2 DEF Assign
  <2>2. posFunc[Running.fn] > 0 => main[x].global
    <3> SUFFICES ASSUME posFunc[Running.fn] > 0 PROVE main[x].global
      OBVIOUS
    <3>1. FuncRef(x) = 0
      BY <1>2 DEF Ref
    <3>2. Running.fn # 0
      BY DEF Inductive, PosAhead
    <3>3. 0 \notin DOMAIN tables
      BY RunningFacts
    <3>4. Holders(x, posFunc[Running.fn]) = {}
      BY <3>1, <3>3, HoldersLast DEF FuncRef
    <3>5. Here[Len(Here)] # 0
      BY <3>2, <3>3, RunningInside, RunningFacts
    <3> QED BY <3>1, <3>4, <3>5 DEF FuncRef
  <2> QED BY <2>1, <2>2
<1> QED BY <1>1, <1>2

LEMMA EnteredLocal ==
  ASSUME Inductive, NEW x \in Names, NEW v \in Values, Entered(x, v)
  PROVE  /\ \A t \in DOMAIN tables :
              tables'[t].symbols # tables[t].symbols => tables[t].owner \in Reach
         /\ \A y \in Names : main'[y] # main[y] /\ posFunc[Running.fn] > 0 => main[y].global
<1>1. CASE Here = <<>>
  <2>1. Running.fn = 0 /\ posFunc[Running.fn] = 0
    BY <1>1, RunningInside DEF Inductive, PosAhead
  <2> QED BY <1>1, <2>1 DEF Entered
<1>2. CASE Here # <<>>
  <2>1. main' = main /\ \A t \in DOMAIN tables : t # Top => tables'[t] = tables[t]
    BY <1>2 DEF Entered, Given
  <2>2. /\ Len(Here) \in DOMAIN Here /\ Len(Here) >= Running.base
        /\ tables[Top].owner = Owner(Running.fn, Len(Here))
    <3>1. Len(Here) \in Nat \ {0} /\ Running.base \in Nat
      BY <1>2, RunningFacts DEF CallType
    <3>2. Running.base <= Len(Here)
      BY <3>1, RunningInside, RunningOutside
    <3> QED BY <1>2, <3>1, <3>2, TopFacts
  <2>3. tables[Top].owner \in Reach
    BY <2>2, PosReach
  <2> QED BY <2>1, <2>3
<1> QED BY <1>1, <1>2

LEMMA RemoveTakesOne ==
  ASSUME Inductive, NEW x \in Names, Remove(x), NEW y \in Names
  PROVE  /\ main'[y] # main[y] => y = x /\ main'[y].value = Absent
         /\ \A t \in DOMAIN tables : tables'[t].symbols[y] # tables[t].symbols[y] =>
              y = x /\ main' = main /\ tables'[t].symbols[y] = Absent
<1>1. CASE Holders(x, 1) = {}
  <2>1. tables' = tables /\ main' = [main EXCEPT ![x] = [value |-> Absent, global |-> FALSE]]
    BY <1>1 DEF Remove
  <2> QED BY <2>1 DEF Inductive, TypeOK
<1>2. CASE Holders(x, 1) # {}
  <2>1. PICK t \in DOMAIN tables : t = Here[Last(Holders(x, 1))] /\ tables[t] \in TableType
    BY <1>2, HoldersLast DEF Inductive, TypeOK
  <2> DEFINE T == [tables[t] EXCEPT !.symbols = [tables[t].symbols EXCEPT ![x] = Absent],
                                    !.given = tables[t].given \ {x}]
  <2>2. tables' = [tables EXCEPT ![t] = T] /\ main' = main
    BY <1>2, <2>1 DEF Remove, Taken
  <2>3. T.symbols[y] = IF y = x THEN Absent ELSE tables[t].symbols[y]
    BY <2>1 DEF TableType
  <2> HIDE DEF T
  <2>4. tables'[t] = T /\ \A w \in DOMAIN tables : w # t => tables'[w] = tables[w]
    BY <2>1, <2>2
  <2> QED BY <2>2, <2>3, <2>4
<1> QED BY <1>1, <1>2

\* No activation assigns, declares, catches or imports a variable of a caller, not
\* even one of the same function whose tables lie on the same stack, nor one of the
\* script's unless it is global, and a del takes away one entry and changes none:
\* for any functions, names and values (LookupFuncRef, InsertEntry, SetEntry,
\* Remove and pos_func_table_, which Pop never moves back).
THEOREM AssignmentsLocal == Spec => AssignmentsAreLocal
<1> DEFINE A == /\ \A t \in DOMAIN tables :
                     tables'[t].symbols # tables[t].symbols => tables[t].owner \in Reach
                /\ \A x \in Names :
                     main'[x] # main[x] /\ posFunc[Running.fn] > 0 => main[x].global
           L == \/ A
                \/ \E x \in Names :
                     /\ Remove(x)
                     /\ \A y \in Names :
                          /\ main'[y] # main[y] => y = x /\ main'[y].value = Absent
                          /\ \A t \in DOMAIN tables :
                               tables'[t].symbols[y] # tables[t].symbols[y] =>
                                 y = x /\ main' = main /\ tables'[t].symbols[y] = Absent
<1>1. Inductive /\ [Next]_vars => [L]_vars
  <2> SUFFICES ASSUME Inductive, Next PROVE L
    OBVIOUS
  <2>1. ASSUME NEW x \in Names, NEW v \in Values, NEW global \in BOOLEAN, Assign(x, v, global)
        PROVE  L
    BY <2>1, AssignLocal
  <2>9. ASSUME NEW x \in Names, NEW v \in Values, InsertEntry(x, v) \/ SetEntry(x, v)
        PROVE  L
    BY <2>9, EntriesEntered, EnteredLocal
  <2>10. ASSUME NEW x \in Names, Remove(x)
         PROVE  L
    BY <2>10, RemoveTakesOne
  <2>2. ASSUME main' = main, \A t \in DOMAIN tables : tables'[t].symbols = tables[t].symbols
        PROVE  L
    BY <2>2
  <2>3. CASE OpenBlock
    <3>1. Pushed(Running.fn, Running.fn, Table("scope", Nothing)) /\ main' = main
      BY <2>3 DEF OpenBlock, Pushed, Here
    <3> QED BY <3>1, <2>2, PushedKeeps
  <2>4. CASE CloseBlock
    BY <2>4, <2>2 DEF CloseBlock
  <2>5. CASE MakeLambda
    <3>1. Pushed(Running.fn, lambdas + 1, Table("scope", Nothing)) /\ main' = main
      BY <2>5 DEF MakeLambda, Pushed, Here
    <3> QED BY <3>1, <2>2, PushedKeeps
  <2>6. ASSUME NEW f \in Decls \cup Lambdas, NEW v \in Values, Call(f, v)
        PROVE  L
    <3>1. main' = main /\ \E T : Pushed(f, f, T)
      BY <2>6 DEF Call, Pushed
    <3> QED BY <3>1, <2>2, PushedKeeps
  <2>7. ASSUME NEW v \in Values \cup {Null}, Return(v)
        PROVE  L
    <3>1. main' = main /\ tables' = SetReturn(v)
      BY <2>7 DEF Return
    <3> QED BY <3>1, <2>2, SetReturnFacts
  <2>8. CASE End \/ Throw
    BY <2>8, <2>2 DEF End, Throw, Leave
  <2> QED BY <2>1, <2>3, <2>4, <2>5, <2>6, <2>7, <2>8, <2>9, <2>10 DEF Next
<1> QED BY <1>1, Invariance, PTL DEF Spec, AssignmentsAreLocal

(* The table of the running function is at its base: what it gave is the   *)
(* last that is marked.                                                    *)
LEMMA ReturnHeard ==
  ASSUME Inductive, End, Running.gave # Absent
  PROVE  result' = Running.gave
<1> DEFINE Marked == {i \in 1..Running.base : tables[Here[i]].ret # Absent}
<1>0. Running.fn # 0 /\ result' = Returned(tables)
  BY DEF End, Leave
<1>1. PICK b \in Nat \ {0} : b = Running.base
  BY <1>0, RunningInside
<1>2. tables[Here[b]].ret = Running.gave
  <2>1. Len(calls) \in DOMAIN calls /\ Len(calls) > 1 /\ calls[Len(calls)] = Running
    BY <1>0, RunningFacts, RunningInside
  <2> QED BY <1>1, <2>1 DEF Inductive, Rooted, Here
<1>3. b \in Marked /\ Marked \subseteq 1..b
  BY <1>1, <1>2
<1>4. Last(Marked) = b
  <2>1. Last(Marked) \in Marked /\ b <= Last(Marked)
    BY <1>3, LastIsLast
  <2> QED BY <1>3, <2>1
<1>5. Returned(tables) = IF Marked = {} THEN Null ELSE tables[Here[Last(Marked)]].ret
  BY DEF Returned
<1> QED BY <1>0, <1>2, <1>3, <1>4, <1>5

(* What an assignment writes is the last entry for the name on the stack.  *)
LEMMA WrittenLast ==
  ASSUME Inductive, NEW x \in Names, FreshPos, Ref(x) # 0
  PROVE  \E q \in DOMAIN Here :
           /\ Here[q] = Ref(x)
           /\ \A p \in DOMAIN Here : p > q => tables[Here[p]].symbols[x] = Absent
<1>1. PICK b \in Nat \ {0} : b = Running.base /\ b = posFunc[Running.fn] /\ b <= Len(Here)
  BY FuncsFacts, RunningInside DEF FreshPos
<1>2. Ref(x) = FuncRef(x)
  BY <1>1 DEF Ref
<1>3. CASE Holders(x, b) # {}
  <2>1. Ref(x) = Here[Last(Holders(x, b))]
    BY <1>1, <1>2, <1>3 DEF FuncRef
  <2>2. Last(Holders(x, b)) \in DOMAIN Here /\ Last(Holders(x, b)) >= b
    BY <1>3, HoldersLast
  <2>3. \A i \in Holders(x, b) : i <= Last(Holders(x, b))
    <3>1. Holders(x, b) \subseteq 1..Len(Here) /\ Len(Here) \in Nat
      BY RunningFacts DEF Holders
    <3> QED BY <1>3, <3>1, LastIsLast
  <2> DEFINE q == Last(Holders(x, b))
  <2>4. \A p \in DOMAIN Here : p > q => tables[Here[p]].symbols[x] = Absent
    <3> HIDE DEF q
    <3> SUFFICES ASSUME NEW p \in DOMAIN Here, p > q, tables[Here[p]].symbols[x] # Absent
                 PROVE  FALSE
      OBVIOUS
    <3>1. p \in Nat /\ q \in Nat /\ q >= b
      BY <2>2, RunningFacts DEF q
    <3>2. p \in Holders(x, b)
      BY <3>1 DEF Holders
    <3>3. p <= q
      BY <2>3, <3>2 DEF q
    <3> QED BY <3>1, <3>3
  <2> QED BY <2>1, <2>2, <2>4
<1>4. CASE Holders(x, b) = {}
  <2>1. Ref(x) = Here[Len(Here)]
    BY <1>1, <1>2, <1>4 DEF FuncRef
  <2>2. Len(Here) \in DOMAIN Here /\ \A p \in DOMAIN Here : ~(p > Len(Here))
    BY <1>1, RunningFacts
  <2> QED BY <2>1, <2>2
<1> QED BY <1>3, <1>4

(* A name that is assigned in the main table is in none of the function's, *)
(* but where an outer call of it was given that name.                      *)
LEMMA MainUnheld ==
  ASSUME Inductive, NEW x \in Names, FreshPos, Ref(x) = 0, ~ OuterHasGiven(x)
  PROVE  \A p \in DOMAIN Here : tables[Here[p]].symbols[x] = Absent
<1>1. Running.fn # 0 /\ Running.fn \in Decls
  BY FuncsFacts DEF FreshPos
<1>2. PICK b \in Nat \ {0} : b = Running.base /\ b = posFunc[Running.fn] /\ b \in DOMAIN Here
  BY <1>1, RunningFacts, RunningInside DEF FreshPos
<1>3. 0 \notin DOMAIN tables /\ Here[Len(Here)] \in DOMAIN tables
  BY <1>1, RunningFacts, RunningInside
<1>4. Holders(x, b) = {} /\ main[x].value # Absent /\ main[x].global
  <2>1. FuncRef(x) = 0
    BY <1>2 DEF Ref
  <2>2. Holders(x, b) = {}
    BY <1>2, <1>3, <2>1, HoldersLast DEF FuncRef
  <2> QED BY <1>2, <1>3, <2>1, <2>2 DEF FuncRef
<1> SUFFICES ASSUME NEW p \in DOMAIN Here, tables[Here[p]].symbols[x] # Absent
             PROVE  FALSE
  OBVIOUS
<1>5. x \in tables[Here[p]].given
  BY <1>1, <1>4 DEF Inductive, Unshadowed, Here
<1>6. p \in Nat \ {0} /\ b \in Nat
  BY <1>2, RunningFacts
<1>7. CASE p >= b
  <2>1. p \in Holders(x, b)
    BY <1>7 DEF Holders
  <2> QED BY <1>4, <2>1
<1>8. CASE ~(p >= b)
  <2>1. p \in 1..(Running.base - 1)
    BY <1>2, <1>6, <1>8
  <2> QED BY <1>5, <2>1 DEF OuterHasGiven
<1> QED BY <1>7, <1>8

LEMMA ReadBack ==
  ASSUME Inductive, NEW x \in Names, NEW v \in Values, Assign(x, v, FALSE), FreshPos
  PROVE  Lookup(x)' = v \/ (Ref(x) = 0 /\ OuterHasGiven(x))
<1>1. /\ calls' = calls /\ stack' = stack /\ Here' = Here /\ v # Absent
      /\ tables \in Seq(TableType)
      /\ main \in [Names -> [value : Values \cup {Absent}, global : BOOLEAN]]
  BY NamesAssumption DEF Inductive, TypeOK, Assign, Here, Running
<1> DEFINE H == {i \in DOMAIN Here : i >= 1 /\ tables'[Here[i]].symbols[x] # Absent}
<1>2. Lookup(x)' = IF H # {} THEN tables'[Here[Last(H)]].symbols[x] ELSE main'[x].value
  BY <1>1 DEF Lookup, Holders, Last
<1>3. CASE Ref(x) # 0
  <2>1. PICK q \in DOMAIN Here :
          /\ Here[q] = Ref(x)
          /\ \A p \in DOMAIN Here : p > q => tables[Here[p]].symbols[x] = Absent
    BY <1>3, WrittenLast
  <2>2. PICK t \in DOMAIN tables : t = Ref(x)
    BY <1>3, RefReach
  <2>3. tables' = [tables EXCEPT ![t] =
               [@ EXCEPT !.symbols = [tables[t].symbols EXCEPT ![x] = v]]]
    BY <1>3, <2>2 DEF Assign
  <2>4. tables'[t].symbols[x] = v /\ \A u \in DOMAIN tables : u # t => tables'[u] = tables[u]
    <3>1. tables[t] \in TableType
      BY <1>1, <2>2
    <3> QED BY <2>3, <3>1 DEF TableType
  <2>5. \A p \in DOMAIN Here : Here[p] \in DOMAIN tables /\ p \in 1..Len(Here) /\ Len(Here) \in Nat
    BY RunningFacts
  <2>6. q \in H /\ H \subseteq 1..Len(Here)
    BY <1>1, <2>1, <2>2, <2>4, <2>5
  <2>7. Last(H) \in H /\ q <= Last(H)
    BY <2>5, <2>6, LastIsLast
  <2>8. tables'[Here[Last(H)]].symbols[x] = v
    <3>1. PICK m \in DOMAIN Here : m = Last(H) /\ q <= m /\ tables'[Here[m]].symbols[x] # Absent
      BY <2>7
    <3>2. CASE m = q
      BY <2>1, <2>2, <2>4, <3>1, <3>2
    <3>3. CASE m # q
      <4>0. m > q
        <5>1. m \in 1..Len(Here) /\ q \in 1..Len(Here) /\ q <= m /\ Len(Here) \in Nat
          BY <2>5, <3>1
        <5> QED BY <3>3, <5>1
      <4>1. tables[Here[m]].symbols[x] = Absent
        BY <2>1, <4>0
      <4>2. Here[m] = t
        BY <2>4, <2>5, <3>1, <4>1
      <4> QED BY <2>4, <3>1, <4>2
    <3> QED BY <3>2, <3>3
  <2> QED BY <1>2, <2>6, <2>8
<1>4. CASE Ref(x) = 0 /\ ~ OuterHasGiven(x)
  <2>1. tables' = tables /\ main'[x].value = v
    BY <1>1, <1>4 DEF Assign
  <2>2. H = {}
    BY <1>4, <2>1, MainUnheld
  <2> QED BY <1>2, <2>1, <2>2
<1> QED BY <1>3, <1>4

\* What the last return of an activation gave is what the call gives, whatever else
\* lies on the stack and whatever was executed since, but for returns of code that
\* has a table of the activation on its own stack: SetEntryOnFunc and the LookupObj
\* at the end of the call agree on the table at the base.
THEOREM ReturnsAreHeard == Spec => ReturnIsHeard
<1>1. Inductive /\ [Next]_vars
        => [End /\ Running.gave # Absent => result' = Running.gave]_vars
  BY ReturnHeard
<1> QED BY <1>1, Invariance, PTL DEF Spec, ReturnIsHeard

\* In a declared function whose position is its own, an assignment is read back
\* with the value it wrote, although Lookup searches the whole stack and
\* LookupFuncRef only a part of it and, after that, the globals; but for a global
\* of whose name an outer call of the function has been given a variable.
THEOREM OwnWritesAreRead == Spec => ReadsItsWrites
<1>1. Inductive /\ [Next]_vars
        => [FreshPos =>
              \A x \in Names, v \in Values :
                Assign(x, v, FALSE)
                  => Lookup(x)' = v \/ (Ref(x) = 0 /\ OuterHasGiven(x))]_vars
  BY ReadBack
<1> QED BY <1>1, Invariance, PTL DEF Spec, ReadsItsWrites
=============================================================================
