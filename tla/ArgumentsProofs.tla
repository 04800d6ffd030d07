-------------------------- MODULE ArgumentsProofs --------------------------
(***************************************************************************)
(* Proofs about Arguments: what a call binds, and what it leaves for the   *)
(* calls that follow.                                                      *)
(***************************************************************************)
EXTENDS Arguments, FiniteSetTheorems, WellFoundedInduction, TLAPS

-----------------------------------------------------------------------------
(* Sets of numbers in ascending order.                                     *)

LEMMA Least ==
  ASSUME NEW T, T \subseteq Nat, T # {}
  PROVE  \E x \in T : \A y \in T : x <= y
<1>1. PICK x \in T : \A y \in T : ~ (<<y, x>> \in OpToRel(<, Nat))
  BY NatLessThanWellFounded, WFMin
<1>2. \A y \in T : ~(y < x)
  BY <1>1 DEF OpToRel
<1>3. \A y \in T : x <= y
  BY <1>2
<1> QED BY <1>3

LEMMA FiniteRange ==
  ASSUME NEW n \in Nat, NEW S \in SUBSET (1..n)
  PROVE  IsFiniteSet(S) /\ Cardinality(S) \in Nat
<1>1. IsFiniteSet(1..n)
  BY FS_Interval
<1>2. IsFiniteSet(S)
  BY <1>1, FS_Subset
<1> QED BY <1>2, FS_CardinalityType

Sortable(S) == \E s \in [1..Cardinality(S) -> S] : Ascending(s)

\* A set sorted without its greatest element is sorted with it behind.
LEMMA SortableWith ==
  ASSUME NEW n \in Nat, NEW S \in SUBSET (1..n), Sortable(S)
  PROVE  Sortable(S \cup {n + 1})
<1>1. PICK s \in [1..Cardinality(S) -> S] : Ascending(s)
  BY DEF Sortable
<1>2. IsFiniteSet(S) /\ Cardinality(S) \in Nat
  BY FiniteRange
<1> DEFINE c == Cardinality(S)
           x == n + 1
           t == [i \in 1..(c + 1) |-> IF i = c + 1 THEN x ELSE s[i]]
<1>3. Cardinality(S \cup {x}) = c + 1
  BY <1>2, FS_AddElement, x \notin S
<1>4. c \in Nat /\ n \in Nat
  BY <1>2
<1> HIDE DEF c
<1>5. s \in [1..c -> S]
  BY DEF c
<1>6. t \in [1..(c + 1) -> S \cup {x}]
  <2> SUFFICES ASSUME NEW i \in 1..(c + 1)
               PROVE  (IF i = c + 1 THEN x ELSE s[i]) \in S \cup {x}
    OBVIOUS
  <2>1. i # c + 1 => i \in 1..c
    BY <1>4
  <2> QED BY <1>5, <2>1
<1>7. Ascending(t)
  <2> SUFFICES ASSUME NEW i \in 1..(c + 1), NEW j \in 1..(c + 1), i < j
               PROVE  t[i] < t[j]
    BY <1>6 DEF Ascending
  <2>1. i \in 1..c /\ s[i] \in S
    <3> HIDE DEF x, t
    <3>1. i \in 1..c
      BY <1>4
    <3> QED BY <1>5, <3>1
  <2>a. t[i] = s[i] /\ t[j] = IF j = c + 1 THEN x ELSE s[j]
    BY <1>4, <2>1
  <2>2. CASE j = c + 1
    <3>1. s[i] \in 1..n
      BY <2>1
    <3> QED BY <1>4, <2>a, <2>2, <3>1
  <2>3. CASE j # c + 1
    <3>1. j \in 1..c
      BY <1>4, <2>3
    <3> QED BY <1>1, <1>5, <2>1, <2>3, <2>a, <3>1 DEF Ascending
  <2> QED BY <2>2, <2>3
<1> QED BY <1>3, <1>6, <1>7 DEF Sortable

LEMMA AllSortable ==
  ASSUME NEW n \in Nat, NEW S \in SUBSET (1..n)
  PROVE  Sortable(S)
<1> DEFINE Bad == {k \in Nat : \E U \in SUBSET (1..k) : ~ Sortable(U)}
<1>1. SUFFICES ASSUME Bad # {} PROVE FALSE
  OBVIOUS
<1>2. PICK k \in Bad : \A m \in Bad : k <= m
  <2> HIDE DEF Bad
  <2>1. Bad \subseteq Nat
    BY DEF Bad
  <2> QED BY <1>1, <2>1, Least
<1>a. k \in Nat
  OBVIOUS
<1>3. PICK U \in SUBSET (1..k) : ~ Sortable(U)
  OBVIOUS
<1>4. CASE U = {}
  <2>1. Cardinality(U) = 0
    BY <1>4, FS_EmptySet
  <2>2. << >> \in [1..0 -> U] /\ Ascending(<< >>)
    BY DEF Ascending
  <2> QED BY <1>3, <2>1, <2>2 DEF Sortable
<1>5. CASE U # {}
  <2>1. k \in Nat /\ k - 1 \in Nat
    <3>1. k # 0
      <4> SUFFICES ASSUME k = 0 PROVE FALSE
        OBVIOUS
      <4>1. 1..k = {}
        OBVIOUS
      <4> QED BY <1>3, <1>5, <4>1
    <3> QED BY <1>a, <3>1
  <2>2. k - 1 \notin Bad
    BY <1>2, <2>1
  <2>3. \A V \in SUBSET (1..(k - 1)) : Sortable(V)
    BY <2>1, <2>2
  <2>4. U \ {k} \in SUBSET (1..(k - 1)) /\ (k - 1) + 1 = k
    BY <2>1
  <2>5. Sortable(U \ {k})
    BY <2>3, <2>4
  <2>6. k \in U
    BY <1>3, <2>5, U \ {k} = U \/ k \in U
  <2>7. Sortable((U \ {k}) \cup {k})
    BY <2>1, <2>4, <2>5, SortableWith
  <2>8. (U \ {k}) \cup {k} = U
    BY <2>6
  <2> QED BY <1>3, <2>7, <2>8
<1> QED BY <1>4, <1>5

LEMMA InOrderIs ==
  ASSUME NEW n \in Nat, NEW S \in SUBSET (1..n)
  PROVE  /\ Cardinality(S) \in Nat /\ IsFiniteSet(S)
         /\ InOrder(S) \in [1..Cardinality(S) -> S]
         /\ Ascending(InOrder(S))
         /\ \A x \in S : \E i \in 1..Cardinality(S) : InOrder(S)[i] = x
<1>1. IsFiniteSet(S) /\ Cardinality(S) \in Nat
  BY FiniteRange
<1>2. InOrder(S) \in [1..Cardinality(S) -> S] /\ Ascending(InOrder(S))
  BY AllSortable DEF InOrder, Sortable
<1> DEFINE c == Cardinality(S)
           s == InOrder(S)
<1>3. IsFiniteSet(1..c) /\ Cardinality(1..c) = c
  BY <1>1, FS_Interval
<1> HIDE DEF c, s
<1>4. s \in [1..c -> S] /\ Ascending(s) /\ c \in Nat
  BY <1>1, <1>2 DEF c, s
<1>5. \A i, j \in 1..c : i # j => s[i] # s[j]
  <2> SUFFICES ASSUME NEW i \in 1..c, NEW j \in 1..c, i < j PROVE s[i] # s[j]
    BY <1>4
  <2>1. s[i] < s[j]
    BY <1>4 DEF Ascending
  <2>2. s[i] \in S /\ s[j] \in S
    BY <1>4
  <2>3. s[i] \in Int /\ s[j] \in Int
    <3>1. \A x \in S : x \in Int
      OBVIOUS
    <3> QED BY <2>2, <3>1
  <2> QED BY <2>1, <2>3
<1>6. s \in Injection(1..c, S)
  BY <1>4, <1>5 DEF Injection, IsInjective
<1>7. s \in Surjection(1..c, S)
  BY <1>1, <1>3, <1>6, FS_Injection DEF c
<1>8. \A x \in S : \E i \in 1..c : s[i] = x
  BY <1>7 DEF Surjection
<1> QED BY <1>1, <1>2, <1>8 DEF c, s

LEMMA InOrderAll ==
  ASSUME NEW n \in Nat
  PROVE  Cardinality(1..n) = n /\ InOrder(1..n) = [i \in 1..n |-> i]
<1>1. Cardinality(1..n) = n
  BY FS_Interval
<1> DEFINE s == InOrder(1..n)
           Bad == {i \in 1..n : s[i] # i}
<1>2. s \in [1..n -> 1..n] /\ Ascending(s) /\ \A x \in 1..n : \E i \in 1..n : s[i] = x
  BY <1>1, InOrderIs
<1> HIDE DEF s
<1>3. Bad = {}
  <2>1. SUFFICES ASSUME Bad # {} PROVE FALSE
    OBVIOUS
  <2>2. Bad \subseteq Nat
    OBVIOUS
  <2>3. PICK k \in Bad : \A m \in Bad : k <= m
    <3> HIDE DEF Bad
    <3> QED BY <2>1, <2>2, Least
  <2>4. k \in 1..n /\ s[k] # k /\ s[k] \in 1..n
    BY <1>2
  <2>5. \A m \in 1..n : m < k => s[m] = m
    BY <2>3
  <2>6. PICK i \in 1..n : s[i] = k
    BY <1>2, <2>4
  <2>7. k < i
    BY <2>4, <2>5, <2>6
  <2>8. s[k] < k
    BY <1>2, <2>4, <2>6, <2>7 DEF Ascending
  <2>9. PICK m \in 1..n : m = s[k]
    BY <2>4
  <2>10. s[m] = m /\ s[m] < s[k]
    BY <1>2, <2>4, <2>5, <2>8, <2>9 DEF Ascending
  <2> QED BY <2>4, <2>9, <2>10
<1> QED BY <1>1, <1>2, <1>3 DEF s

-----------------------------------------------------------------------------
(* What a declaration leaves.                                              *)

Shift == IF method THEN 1 ELSE 0
Places == Cardinality(Regular)

\* default_values_: the defaults, and the null objects GetDefaultParam made.
DefaultsKnown ==
  /\ \A p \in DOMAIN kinds : kinds[p] = "default" => p \in DOMAIN defaults
  /\ \A p \in DOMAIN defaults :
       defaults[p] = IF p \in DOMAIN kinds /\ kinds[p] = "default" THEN Default ELSE Missing
  /\ Has("variadic") => \A p \in DOMAIN defaults : p \in DOMAIN kinds /\ kinds[p] = "default"
  /\ KwargsLast /\ ~Has("variadic") => DOMAIN defaults \subseteq First(Shift + Places)

Shaped ==
  /\ kinds \in Declarations /\ Accepted(kinds)
  /\ method \in BOOLEAN
  /\ names = (IF method THEN <<This>> ELSE <<>>) \o NamesOf(kinds)

Known == IF declared THEN Shaped /\ DefaultsKnown ELSE result.status = "none"

LEMMA ShiftIs == Shift \in {0, 1} /\ (Shift = 1 <=> method)
  BY DEF Shift

LEMMA KindsAre ==
  ASSUME Shaped
  PROVE  /\ Len(kinds) \in 0..MaxParams /\ DOMAIN kinds = 1..Len(kinds)
         /\ \A i \in DOMAIN kinds : kinds[i] \in Kinds
<1>1. PICK n \in 0..MaxParams : kinds \in [1..n -> Kinds]
  BY DEF Shaped, Declarations
<1>2. n \in Nat
  BY BoundsAssumption
<1>3. kinds \in Seq(Kinds) /\ Len(kinds) = n
  BY <1>1, <1>2
<1> QED BY <1>1, <1>3

LEMMA NamedIs ==
  ASSUME Shaped
  PROVE  Named(kinds) \in SUBSET (1..Len(kinds))
  BY KindsAre DEF Named

LEMMA NamesAre ==
  ASSUME Shaped
  PROVE  /\ names \in Seq(Nat)
         /\ Cardinality(Named(kinds)) \in Nat
         /\ Len(names) = Shift + Cardinality(Named(kinds))
         /\ \A i \in 1..Cardinality(Named(kinds)) : names[Shift + i] = InOrder(Named(kinds))[i]
         /\ method => names[1] = 0
<1> DEFINE c == Cardinality(Named(kinds))
           s == InOrder(Named(kinds))
<1>1. Named(kinds) \in SUBSET (1..Len(kinds)) /\ Len(kinds) \in Nat
  BY NamedIs, KindsAre
<1>2. c \in Nat /\ s \in [1..c -> Named(kinds)]
  BY <1>1, InOrderIs
<1>3. names = (IF method THEN <<0>> ELSE <<>>) \o s
  BY DEF Shaped, NamesOf, This
<1> HIDE DEF c, s
<1>4. s \in Seq(Nat) /\ Len(s) = c
  <2>1. s \in [1..c -> Nat]
    <3>1. Named(kinds) \subseteq Nat
      BY <1>1
    <3> QED BY <1>2, <3>1
  <2> QED BY <1>2, <2>1
<1>5. CASE method
  <2>1. names = <<0>> \o s /\ <<0>> \in Seq(Nat) /\ Len(<<0>>) = 1
    BY <1>3, <1>5
  <2>2. names \in Seq(Nat) /\ Len(names) = 1 + c /\ names[1] = 0
    BY <1>2, <1>4, <2>1
  <2>3. ASSUME NEW i \in 1..c PROVE names[1 + i] = s[i]
    BY <1>2, <1>4, <2>1
  <2> QED BY <1>2, <1>5, <2>2, <2>3 DEF Shift, c, s
<1>6. CASE ~method
  <2>1. names = s
    BY <1>3, <1>4, <1>6
  <2>2. ASSUME NEW i \in 1..c PROVE names[0 + i] = s[i]
    BY <2>1, <1>2, 0 + i = i
  <2> QED BY <1>2, <1>4, <1>6, <2>1, <2>2 DEF Shift, c, s
<1> QED BY <1>5, <1>6

\* The names of a declaration ascend, so that each has one index.
LEMMA NamesAscend ==
  ASSUME Shaped, NEW i \in DOMAIN names, NEW j \in DOMAIN names, i < j
  PROVE  names[i] < names[j]
<1> DEFINE c == Cardinality(Named(kinds))
           s == InOrder(Named(kinds))
<1>1. Named(kinds) \in SUBSET (1..Len(kinds)) /\ Len(kinds) \in Nat
  BY NamedIs, KindsAre
<1>2. c \in Nat /\ s \in [1..c -> Named(kinds)] /\ Ascending(s)
  BY <1>1, InOrderIs
<1>3. Len(names) = Shift + c /\ names \in Seq(Nat) /\ \A k \in 1..c : names[Shift + k] = s[k]
  BY NamesAre
<1> HIDE DEF c, s
<1>4. i \in 1..(Shift + c) /\ j \in 1..(Shift + c)
  BY <1>3
<1>5. CASE i > Shift
  <2>1. i - Shift \in 1..c /\ j - Shift \in 1..c /\ i - Shift < j - Shift
    BY <1>2, <1>4, <1>5, ShiftIs
  <2>2. Shift + (i - Shift) = i /\ Shift + (j - Shift) = j
    BY <1>4, ShiftIs
  <2>3. names[i] = s[i - Shift] /\ names[j] = s[j - Shift]
    BY <1>3, <2>1, <2>2
  <2>4. s[i - Shift] < s[j - Shift]
    BY <1>2, <2>1 DEF Ascending
  <2> QED BY <2>3, <2>4
<1>6. CASE ~(i > Shift)
  <2>1. Shift = 1 /\ i = 1 /\ method
    BY <1>4, <1>6, ShiftIs
  <2>2. j - 1 \in 1..c /\ 1 + (j - 1) = j
    BY <1>2, <1>4, <2>1
  <2>3. names[j] = s[j - 1] /\ names[1] = 0
    BY <1>3, <2>1, <2>2, NamesAre
  <2>4. s[j - 1] \in 1..Len(kinds)
    BY <1>1, <1>2, <2>2
  <2> QED BY <2>1, <2>3, <2>4
<1> QED BY <1>5, <1>6

LEMMA IndexOf ==
  ASSUME Shaped, NEW i \in DOMAIN names
  PROVE  Index(names[i]) = i
<1>1. names \in Seq(Nat)
  BY NamesAre
<1>2. \A j \in DOMAIN names : names[j] = names[i] => j = i
  <2> SUFFICES ASSUME NEW j \in DOMAIN names, names[j] = names[i], j # i PROVE FALSE
    OBVIOUS
  <2>1. i \in Nat /\ j \in Nat /\ names[i] \in Nat
    BY <1>1
  <2>2. i < j \/ j < i
    BY <2>1
  <2>3. names[i] < names[j] \/ names[j] < names[i]
    BY <2>2, NamesAscend
  <2> QED BY <2>1, <2>3
<1> QED BY <1>2 DEF Index

\* What Sound declarations look like: the parameters that take one argument each are
\* the first ones, and the last parameters are "..." and "**".
LEMMA Straight ==
  ASSUME Shaped, KwargsLast, Has("variadic") => ~Has("default")
  PROVE  /\ Places \in Nat /\ Regular = 1..Places
         /\ Len(kinds) = Places + (IF Has("variadic") THEN 1 ELSE 0)
                                + (IF Has("kwargs") THEN 1 ELSE 0)
         /\ Named(kinds) = 1..Len(kinds)
<1> DEFINE l == Len(kinds)
<1>1. l \in Nat /\ DOMAIN kinds = 1..l /\ \A i \in 1..l : kinds[i] \in Kinds
  BY KindsAre, BoundsAssumption
<1>a. \A k : Has(k) <=> \E i \in 1..l : kinds[i] = k
  BY <1>1 DEF Has
<1>2. \A i, j \in 1..l : i < j /\ kinds[i] = "variadic" => kinds[j] \in {"default", "kwargs"}
  BY <1>1 DEF Shaped, Accepted
<1>3. \A i \in 1..l : kinds[i] = "kwargs" => i = l
  BY <1>1 DEF KwargsLast
<1>4. Regular = {i \in 1..l : kinds[i] \in {"plain", "default"}}
  BY <1>1 DEF Regular
<1>5. \A r \in Nat : Regular = 1..r => Places = r
  BY FS_Interval DEF Places
<1>6. Named(kinds) = 1..l
  <2> SUFFICES ASSUME NEW i \in 1..l, kinds[i] = "default", NEW j \in 1..(i - 1)
               PROVE  kinds[j] \notin {"variadic", "kwargs"}
    BY <1>1 DEF Named
  <2> HIDE DEF l
  <2>1. j \in 1..l /\ j < i /\ j # l
    BY <1>1
  <2>2. ~Has("variadic")
    BY <1>a
  <2> QED BY <1>a, <1>3, <2>1, <2>2
<1> HIDE DEF l
<1>7. CASE ~Has("variadic") /\ ~Has("kwargs")
  <2>1. Regular = 1..l
    BY <1>1, <1>4, <1>7 DEF Has, Kinds
  <2>2. l = Places
    BY <1>1, <1>5, <2>1
  <2> QED BY <1>1, <1>6, <1>7, <2>1, <2>2 DEF l
<1>8. CASE ~Has("variadic") /\ Has("kwargs")
  <2>1. l \in 1..l /\ kinds[l] = "kwargs"
    BY <1>1, <1>3, <1>8 DEF Has
  <2>2. Regular = 1..(l - 1)
    BY <1>1, <1>3, <1>4, <1>8, <2>1 DEF Has, Kinds
  <2>3. Places = l - 1 /\ Places \in Nat
    BY <1>1, <1>5, <2>1, <2>2
  <2> QED BY <1>1, <1>6, <1>8, <2>2, <2>3 DEF l
<1>9. CASE Has("variadic") /\ ~Has("kwargs")
  <2>1. PICK v \in 1..l : kinds[v] = "variadic"
    BY <1>1, <1>9 DEF Has
  <2>2. \A i \in 1..l : kinds[i] \notin {"default", "kwargs"}
    BY <1>1, <1>9 DEF Has
  <2>3. \A i \in 1..l : ~(v < i)
    <3> SUFFICES ASSUME NEW i \in 1..l, v < i PROVE FALSE
      OBVIOUS
    <3>1. kinds[i] \in {"default", "kwargs"}
      BY <1>2, <2>1
    <3> QED BY <2>2, <3>1
  <2>4. v = l
    BY <1>1, <2>1, <2>3
  <2>5. Regular = 1..(l - 1)
    <3>1. \A i \in 1..l : kinds[i] = "variadic" => i = l
      <4> SUFFICES ASSUME NEW i \in 1..l, kinds[i] = "variadic", i # l PROVE FALSE
        OBVIOUS
      <4>1. l \in 1..l /\ i < l
        BY <1>1
      <4>2. kinds[l] \in {"default", "kwargs"}
        BY <1>2, <4>1
      <4> QED BY <2>2, <4>1, <4>2
    <3>2. \A i \in 1..l : kinds[i] = "plain" <=> i # l
      BY <1>1, <2>1, <2>2, <2>4, <3>1 DEF Kinds
    <3>3. \A i \in 1..l : i # l <=> i \in 1..(l - 1)
      BY <1>1
    <3>4. 1..(l - 1) \subseteq 1..l
      BY <1>1
    <3> QED BY <1>4, <2>2, <3>2, <3>3, <3>4
  <2>6. Places = l - 1 /\ Places \in Nat
    BY <1>1, <1>5, <2>1, <2>5
  <2> QED BY <1>1, <1>6, <1>9, <2>5, <2>6 DEF l
<1>10. CASE Has("variadic") /\ Has("kwargs")
  <2>1. PICK v \in 1..l : kinds[v] = "variadic"
    BY <1>1, <1>10 DEF Has
  <2>2. l \in 1..l /\ kinds[l] = "kwargs"
    BY <1>1, <1>3, <1>10 DEF Has
  <2>3. \A i \in 1..l : kinds[i] # "default"
    BY <1>1, <1>10 DEF Has
  <2>4. \A i, j \in 1..l : kinds[i] = "variadic" /\ i < j => j = l
    <3> SUFFICES ASSUME NEW i \in 1..l, NEW j \in 1..l, kinds[i] = "variadic", i < j PROVE j = l
      OBVIOUS
    <3>1. kinds[j] \in {"default", "kwargs"}
      BY <1>2
    <3> QED BY <1>3, <2>3, <3>1
  <2>5. v = l - 1
    <3>1. v # l
      BY <2>1, <2>2
    <3>2. v < l - 1 => l - 1 \in 1..l /\ l - 1 # l
      BY <1>1, <2>1
    <3> QED BY <1>1, <2>1, <2>4, <3>1, <3>2
  <2>6. Regular = 1..(l - 2)
    <3>1. \A i \in 1..l : kinds[i] = "variadic" => i = l - 1
      <4> SUFFICES ASSUME NEW i \in 1..l, kinds[i] = "variadic", i # l - 1 PROVE FALSE
        OBVIOUS
      <4>1. i # l
        BY <2>2
      <4>2. l - 1 \in 1..l /\ i < l - 1
        BY <1>1, <2>1, <2>5, <4>1
      <4>3. l - 1 = l
        BY <2>4, <4>2
      <4> QED BY <1>1, <4>3
    <3>2. \A i \in 1..l : kinds[i] = "plain" <=> i # l - 1 /\ i # l
      BY <1>1, <1>3, <2>1, <2>2, <2>3, <2>5, <3>1 DEF Kinds
    <3>3. \A i \in 1..l : i # l - 1 /\ i # l <=> i \in 1..(l - 2)
      BY <1>1
    <3>4. 1..(l - 2) \subseteq 1..l
      BY <1>1
    <3> QED BY <1>4, <2>3, <3>2, <3>3, <3>4
  <2>7. l - 2 \in Nat
    BY <1>1, <2>1, <2>5
  <2>8. Places = l - 2
    BY <1>5, <2>6, <2>7
  <2> QED BY <1>1, <1>6, <1>10, <2>6, <2>7, <2>8 DEF l
<1> QED BY <1>7, <1>8, <1>9, <1>10

\* And their names: parameter i is at i, behind the instance of a method.
LEMMA StraightNames ==
  ASSUME Shaped, KwargsLast, Has("variadic") => ~Has("default")
  PROVE  /\ names \in Seq(Nat) /\ Len(names) = Shift + Len(kinds) /\ Len(kinds) \in Nat
         /\ \A i \in 1..Len(kinds) : names[Shift + i] = i
         /\ method => names[1] = 0
<1>1. Named(kinds) = 1..Len(kinds) /\ Len(kinds) \in Nat
  BY Straight, KindsAre, BoundsAssumption
<1>2. Cardinality(1..Len(kinds)) = Len(kinds) /\ InOrder(1..Len(kinds)) = [i \in 1..Len(kinds) |-> i]
  BY <1>1, InOrderAll
<1> QED BY <1>1, <1>2, NamesAre

InFront == IF method THEN {0} ELSE {}

LEMMA StraightFirst ==
  ASSUME Shaped, KwargsLast, Has("variadic") => ~Has("default")
  PROVE  /\ \A k \in 0..Len(kinds) : First(Shift + k) = (1..k) \cup InFront
         /\ \A n \in Nat, i \in 1..Len(kinds) : i \in First(n) <=> Shift + i <= n
         /\ \A i \in 1..Len(kinds) : Index(i) = Shift + i
<1>1. /\ names \in Seq(Nat) /\ Len(names) = Shift + Len(kinds) /\ Len(kinds) \in Nat
      /\ \A i \in 1..Len(kinds) : names[Shift + i] = i
      /\ method => names[1] = 0
  BY StraightNames
<1>2. DOMAIN names = 1..(Shift + Len(kinds))
  BY <1>1
<1>3. \A i \in DOMAIN names : IF i <= Shift THEN names[i] = 0 /\ i = 1 /\ method
                              ELSE i - Shift \in 1..Len(kinds) /\ names[i] = i - Shift
  <2> SUFFICES ASSUME NEW i \in DOMAIN names
               PROVE  IF i <= Shift THEN names[i] = 0 /\ i = 1 /\ method
                      ELSE i - Shift \in 1..Len(kinds) /\ names[i] = i - Shift
    OBVIOUS
  <2>1. CASE i <= Shift
    BY <1>1, <1>2, <2>1, ShiftIs
  <2>2. CASE ~(i <= Shift)
    <3>1. i - Shift \in 1..Len(kinds) /\ Shift + (i - Shift) = i
      BY <1>1, <1>2, <2>2, ShiftIs
    <3>2. names[Shift + (i - Shift)] = i - Shift
      BY <1>1, <3>1
    <3> QED BY <2>2, <3>1, <3>2
  <2> QED BY <2>1, <2>2
<1>4. ASSUME NEW n \in Nat, NEW i \in 1..Len(kinds)
      PROVE  i \in First(n) <=> Shift + i <= n
  <2>1. ASSUME Shift + i <= n PROVE i \in First(n)
    <3>1. Shift + i \in (1..n) \cap DOMAIN names
      BY <1>1, <1>2, <2>1, ShiftIs
    <3> QED BY <1>1, <3>1 DEF First
  <2>2. ASSUME i \in First(n) PROVE Shift + i <= n
    <3>1. PICK j \in (1..n) \cap DOMAIN names : names[j] = i
      BY <2>2 DEF First
    <3>2. j \in Nat /\ j <= n /\ i # 0
      OBVIOUS
    <3>3. i = j - Shift
      BY <1>3, <3>1, <3>2
    <3> QED BY <3>2, <3>3, ShiftIs
  <2> QED BY <2>1, <2>2
<1>5. ASSUME NEW k \in 0..Len(kinds)
      PROVE  First(Shift + k) = (1..k) \cup InFront
  <2>1. Shift + k \in Nat /\ k \in Nat
    BY <1>1, ShiftIs
  <2>2. ASSUME NEW x \in First(Shift + k) PROVE x \in (1..k) \cup InFront
    <3>1. PICK j \in (1..(Shift + k)) \cap DOMAIN names : names[j] = x
      BY <2>2 DEF First
    <3> QED BY <1>3, <2>1, <3>1, ShiftIs DEF InFront
  <2>3. ASSUME NEW x \in 1..k PROVE x \in First(Shift + k)
    BY <1>1, <1>4, <2>1, ShiftIs
  <2>4. ASSUME method PROVE 0 \in First(Shift + k)
    <3>1. 1 \in (1..(Shift + k)) \cap DOMAIN names
      BY <1>1, <1>2, <2>1, <2>4, ShiftIs
    <3> QED BY <1>1, <2>4, <3>1 DEF First
  <2> QED BY <2>2, <2>3, <2>4 DEF InFront
<1>6. ASSUME NEW i \in 1..Len(kinds) PROVE Index(i) = Shift + i
  <2>1. Shift + i \in DOMAIN names /\ names[Shift + i] = i
    BY <1>1, <1>2, ShiftIs
  <2> QED BY <2>1, IndexOf
<1> QED BY <1>4, <1>5, <1>6

\* In front of the defaults stand the parameters without one.
LEMMA PlainFirst ==
  ASSUME Shaped, KwargsLast, ~Has("variadic")
  PROVE  \E m \in 0..Places : \A p \in 1..Places :
           (kinds[p] = "plain" <=> p <= m) /\ (kinds[p] = "default" <=> p > m)
<1>1. Places \in Nat /\ Regular = 1..Places
  BY Straight
<1>2. \A p \in 1..Places : p \in DOMAIN kinds /\ kinds[p] \in {"plain", "default"}
  BY <1>1 DEF Regular
<1>3. \A p, q \in 1..Places : p < q /\ kinds[p] = "default" => kinds[q] = "default"
  BY <1>2 DEF Shaped, Accepted
<1> DEFINE D == {p \in 1..Places : kinds[p] = "default"}
<1>4. CASE D = {}
  <2>1. \A p \in 1..Places : kinds[p] = "plain" /\ p <= Places /\ ~(p > Places)
    BY <1>1, <1>2, <1>4
  <2>2. Places \in 0..Places
    BY <1>1
  <2> QED BY <1>4, <2>1, <2>2
<1>5. CASE D # {}
  <2>1. D \subseteq Nat
    BY <1>1
  <2>2. PICK d \in D : \A p \in D : d <= p
    <3> HIDE DEF D
    <3> QED BY <1>5, <2>1, Least
  <2>3. d \in 1..Places /\ kinds[d] = "default"
    OBVIOUS
  <2>4. \A p \in 1..Places : kinds[p] = "default" <=> p >= d
    <3> SUFFICES ASSUME NEW p \in 1..Places PROVE kinds[p] = "default" <=> p >= d
      OBVIOUS
    <3>1. kinds[p] = "default" => p >= d
      BY <1>1, <2>2, <2>3
    <3>2. p >= d => p = d \/ d < p
      BY <1>1, <2>3
    <3> QED BY <1>3, <2>3, <3>1, <3>2
  <2>5. d - 1 \in 0..Places /\ \A p \in 1..Places : (p >= d <=> p > d - 1) /\ (p > d - 1 <=> ~(p <= d - 1))
    BY <1>1, <2>3
  <2>6. \A p \in 1..Places : kinds[p] = "plain" <=> kinds[p] # "default"
    BY <1>2
  <2> QED BY <2>4, <2>5, <2>6
<1> QED BY <1>4, <1>5

\* How many arguments a call needs: not more than there are parameters without a
\* default, and as many unless an entry of default_values_ holds no object.
LEMMA RequiredIs ==
  ASSUME Shaped, DefaultsKnown, KwargsLast, ~Has("variadic"),
         NEW m \in 0..Places, \A p \in 1..Places : kinds[p] = "default" <=> p > m
  PROVE  /\ Required(Shift + Places) \in 0..(Shift + m)
         /\ (\A p \in DOMAIN defaults : defaults[p] # Missing)
              => Required(Shift + Places) = Shift + m
<1>1. Places \in Nat /\ Regular = 1..Places /\ Places <= Len(kinds) /\ Len(kinds) \in 0..MaxParams
  BY Straight, KindsAre
<1>2. DOMAIN defaults \subseteq (1..Places) \cup InFront
  <2>1. First(Shift + Places) = (1..Places) \cup InFront
    BY <1>1, StraightFirst
  <2> QED BY <2>1 DEF DefaultsKnown
<1>3. (m + 1)..Places \subseteq DOMAIN defaults
  <2> SUFFICES ASSUME NEW p \in (m + 1)..Places PROVE p \in DOMAIN defaults
    OBVIOUS
  <2>1. p \in 1..Places /\ p > m
    BY <1>1
  <2>2. p \in DOMAIN kinds /\ kinds[p] = "default"
    BY <1>1, <2>1 DEF Regular
  <2> QED BY <2>2 DEF DefaultsKnown
<1> DEFINE all == (1..Places) \cup InFront
           c == Cardinality(DOMAIN defaults)
<1>a. all = IF method THEN (1..Places) \cup {0} ELSE 1..Places
  BY DEF InFront
<1>b. DOMAIN defaults \in SUBSET all
  BY <1>2
<1> HIDE DEF all
<1>4. IsFiniteSet(all) /\ Cardinality(all) = Shift + Places
  <2>1. IsFiniteSet(1..Places) /\ Cardinality(1..Places) = Places /\ 0 \notin 1..Places
    BY <1>1, FS_Interval
  <2>2. CASE method
    <3>1. all = (1..Places) \cup {0} /\ Shift = 1
      BY <1>a, <2>2 DEF Shift
    <3>2. IsFiniteSet((1..Places) \cup {0}) /\ Cardinality((1..Places) \cup {0}) = Places + 1
      BY <2>1, FS_AddElement
    <3>3. IsFiniteSet(all) /\ Cardinality(all) = Places + 1
      BY <3>1, <3>2, Zenon
    <3> QED BY <1>1, <3>1, <3>3
  <2>3. CASE ~method
    <3>1. all = 1..Places /\ Shift = 0
      BY <1>a, <2>3 DEF Shift
    <3> QED BY <1>1, <2>1, <3>1
  <2> QED BY <2>2, <2>3
<1>5. IsFiniteSet(DOMAIN defaults) /\ c \in Nat /\ c <= Shift + Places
  <2>2. IsFiniteSet(DOMAIN defaults) /\ Cardinality(DOMAIN defaults) <= Cardinality(all)
    BY <1>4, <1>b, FS_Subset
  <2> QED BY <1>4, <2>2, FS_CardinalityType
<1>6. Cardinality((m + 1)..Places) = Places - m
  <2>1. m + 1 \in Int /\ Places \in Int /\ m <= Places /\ m \in Int
    BY <1>1
  <2>2. Cardinality((m + 1)..Places) = IF m + 1 > Places THEN 0 ELSE Places - (m + 1) + 1
    BY <2>1, FS_Interval
  <2> QED BY <2>1, <2>2
<1>7. Places - m <= c
  <2>1. (m + 1)..Places \in SUBSET (DOMAIN defaults)
    BY <1>3
  <2>2. Cardinality((m + 1)..Places) <= c
    BY <1>5, <2>1, FS_Subset
  <2> QED BY <1>6, <2>2
<1>8. m \in Nat /\ m <= Places /\ SizeT \in Nat /\ SizeT > MaxParams + 1 /\ MaxParams \in Nat
  BY <1>1, BoundsAssumption
<1>9. Required(Shift + Places) = (Shift + Places) - c
  <2>1. Required(Shift + Places) = ((Shift + Places) - c) % SizeT
    BY DEF Required
  <2> HIDE DEF c
  <2>2. (Shift + Places) - c \in 0..(SizeT - 1)
    BY <1>1, <1>5, <1>8, ShiftIs
  <2>3. \A x \in 0..(SizeT - 1) : x % SizeT = x
    BY <1>8
  <2> QED BY <2>1, <2>2, <2>3
<1>10. (Shift + Places) - c \in 0..(Shift + m)
  <2> HIDE DEF c
  <2> QED BY <1>1, <1>5, <1>7, <1>8, ShiftIs
<1>11. ASSUME \A p \in DOMAIN defaults : defaults[p] # Missing
       PROVE  c = Places - m
  <2>1. ASSUME NEW p \in DOMAIN defaults PROVE p \in (m + 1)..Places
    <3>1. p \in DOMAIN kinds /\ kinds[p] = "default"
      BY <1>11 DEF DefaultsKnown
    <3>2. p \in 1..Places
      BY <1>1, <3>1 DEF Regular
    <3> QED BY <1>1, <1>8, <3>1, <3>2
  <2>2. DOMAIN defaults = (m + 1)..Places
    BY <1>3, <2>1
  <2> QED BY <1>6, <2>2
<1>12. ASSUME c = Places - m PROVE (Shift + Places) - c = Shift + m
  <2> HIDE DEF c
  <2> QED BY <1>1, <1>8, <1>12, ShiftIs
<1> QED BY <1>9, <1>10, <1>11, <1>12

-----------------------------------------------------------------------------
(* The arguments.                                                          *)

LEMMA PositionalIs ==
  ASSUME NEW items \in Calls
  PROVE  Positional(items) \in Seq(Nat) /\ Len(Positional(items)) \in Nat
<1>1. PICK n \in 0..MaxItems : items \in [1..n -> Items]
  BY DEF Calls
<1> DEFINE S == {i \in DOMAIN items : items[i].form = "value"}
<1>2. n \in Nat /\ S \in SUBSET (1..n)
  BY <1>1, BoundsAssumption
<1> HIDE DEF S
<1>3. Cardinality(S) \in Nat /\ InOrder(S) \in [1..Cardinality(S) -> S]
  BY <1>2, InOrderIs
<1>4. S \subseteq Nat
  BY <1>2
<1>5. InOrder(S) \in [1..Cardinality(S) -> Nat]
  BY <1>3, <1>4
<1>6. InOrder(S) \in Seq(Nat) /\ Len(InOrder(S)) = Cardinality(S)
  BY <1>3, <1>5
<1> QED BY <1>3, <1>6 DEF Positional, S

LEMMA KeywordsAre ==
  ASSUME NEW items \in Calls
  PROVE  /\ IsFiniteSet(DOMAIN Keywords(items)) /\ Cardinality(DOMAIN Keywords(items)) \in Nat
         /\ ~HasKeywords(items) => DOMAIN Keywords(items) = {}
<1>1. PICK n \in 0..MaxItems : items \in [1..n -> Items]
  BY DEF Calls
<1>2. DOMAIN Keywords(items) = UNION {items[i].keys : i \in DOMAIN items}
  BY DEF Keywords
<1>3. \A i \in DOMAIN items : items[i].keys \subseteq Keys /\ (items[i].form = "value" => items[i].keys = {})
  <2> SUFFICES ASSUME NEW i \in DOMAIN items
               PROVE  items[i].keys \subseteq Keys /\ (items[i].form = "value" => items[i].keys = {})
    OBVIOUS
  <2>1. items[i] \in Items
    BY <1>1
  <2>2. CASE items[i] \in [form : {"value"}, keys : {{}}]
    BY <2>2
  <2>3. CASE items[i] \in [form : {"key"}, keys : {{k} : k \in Keys}]
    BY <2>3
  <2>4. CASE items[i] \in [form : {"map"}, keys : Unpacked]
    BY <2>4, UnpackedAssumption
  <2> QED BY <2>1, <2>2, <2>3, <2>4 DEF Items
<1>4. DOMAIN Keywords(items) \in SUBSET (1..Key)
  BY <1>2, <1>3 DEF Keys
<1>5. Key \in Nat
  BY BoundsAssumption DEF Key
<1>6. ~HasKeywords(items) => DOMAIN Keywords(items) = {}
  BY <1>2, <1>3 DEF HasKeywords
<1> QED BY <1>4, <1>5, <1>6, FiniteRange

\* What FuncWrapperObject::Call makes of the arguments of a method.
PosOf(items) == IF method THEN <<This>> \o Positional(items) ELSE Positional(items)
KwOf(items) == IF method THEN <<>> ELSE Keywords(items)

LEMMA Passed ==
  ASSUME NEW items \in Calls
  PROVE  /\ PosOf(items) \in Seq(Nat)
         /\ Len(Positional(items)) \in Nat /\ Len(PosOf(items)) = Shift + Len(Positional(items))
         /\ DOMAIN Positional(items) = 1..Len(Positional(items))
         /\ \A i \in 1..Len(Positional(items)) : PosOf(items)[Shift + i] = Positional(items)[i]
         /\ IsFiniteSet(DOMAIN KwOf(items)) /\ Cardinality(DOMAIN KwOf(items)) \in Nat
         /\ method => DOMAIN KwOf(items) = {}
         /\ ~method => KwOf(items) = Keywords(items)
<1> DEFINE pos == Positional(items)
<1>1. pos \in Seq(Nat) /\ Len(pos) \in Nat
  BY PositionalIs
<1>2. CASE method
  <2>1. PosOf(items) = <<0>> \o pos /\ KwOf(items) = <<>> /\ Shift = 1
    BY <1>2 DEF PosOf, KwOf, Shift, This
  <2>2. DOMAIN KwOf(items) = {} /\ IsFiniteSet({}) /\ Cardinality({}) = 0
    BY <2>1, FS_EmptySet
  <2> HIDE DEF pos
  <2>3. <<0>> \in Seq(Nat) /\ Len(<<0>>) = 1
    OBVIOUS
  <2>4. PosOf(items) \in Seq(Nat) /\ Len(PosOf(items)) = 1 + Len(pos)
    BY <1>1, <2>1, <2>3
  <2>5. \A i \in 1..Len(pos) : PosOf(items)[1 + i] = pos[i]
    BY <1>1, <2>1, <2>3
  <2> QED BY <1>1, <1>2, <2>1, <2>2, <2>4, <2>5 DEF pos
<1>3. CASE ~method
  <2>1. PosOf(items) = pos /\ KwOf(items) = Keywords(items) /\ Shift = 0
    BY <1>3 DEF PosOf, KwOf, Shift
  <2>2. \A i \in 1..Len(pos) : 0 + i = i
    BY <1>1
  <2>3. IsFiniteSet(DOMAIN Keywords(items)) /\ Cardinality(DOMAIN Keywords(items)) \in Nat
    BY KeywordsAre
  <2> HIDE DEF pos
  <2> QED BY <1>1, <1>3, <2>1, <2>2, <2>3 DEF pos
<1> QED BY <1>2, <1>3

-----------------------------------------------------------------------------
(* What the handlers accept.                                               *)

LEMMA AcceptedPlain ==
  ASSUME Shaped, KwargsLast, ~Has("variadic"),
         NEW pos \in Seq(Nat), NEW kw, IsFiniteSet(DOMAIN kw),
         Handle(pos, kw), result'.status = "ok"
  PROVE  LET n == Shift + Places
         IN  /\ result'.vars = Filled(n, pos, kw) /\ result'.rest = <<>>
             /\ result'.extra = IF Has("kwargs") THEN Others(kw, First(n)) ELSE <<>>
             /\ Len(pos) <= n
             /\ DOMAIN kw \cap First(Len(pos)) = {}
             /\ ~Has("kwargs") => DOMAIN kw \subseteq First(n)
             /\ ~(Len(pos) + Cardinality(DOMAIN kw \cap First(n)) < Required(n))
<1> DEFINE n == Shift + Places
<1>1. Places \in Nat /\ n \in Nat
  BY Straight, ShiftIs
<1>2. Len(names) = n + (IF Has("kwargs") THEN 1 ELSE 0)
  BY <1>1, Straight, StraightNames, ShiftIs
<1>3. Len(pos) \in Nat /\ Cardinality(DOMAIN kw) \in Nat
  BY FS_CardinalityType
<1> HIDE DEF n
<1>4. CASE ~Has("kwargs")
  <2>1. Simple(pos, kw) /\ Len(names) = n
    BY <1>1, <1>2, <1>4 DEF Handle
  <2>2. /\ result' = Bind(Filled(n, pos, kw), <<>>, <<>>)
        /\ ~(Len(pos) + Cardinality(DOMAIN kw) < Required(n))
        /\ ~(Len(pos) + Cardinality(DOMAIN kw) > n)
        /\ \A k \in DOMAIN kw : k \in First(n) /\ k \notin First(Len(pos))
    <3>1. result' # Refuse
      BY DEF Refuse
    <3>2. /\ ~(Len(pos) + Cardinality(DOMAIN kw) < Required(Len(names)))
          /\ ~(Len(pos) + Cardinality(DOMAIN kw) > Len(names))
          /\ ~(\E k \in DOMAIN kw : k \notin First(Len(names)) \/ k \in First(Len(pos)))
          /\ result' = Bind(Filled(Len(names), pos, kw), <<>>, <<>>)
      BY <2>1, <3>1, Zenon DEF Simple
    <3>3. Len(names) = n
      BY <2>1
    <3>4. /\ ~(Len(pos) + Cardinality(DOMAIN kw) < Required(n))
          /\ ~(Len(pos) + Cardinality(DOMAIN kw) > n)
          /\ ~(\E k \in DOMAIN kw : k \notin First(n) \/ k \in First(Len(pos)))
          /\ result' = Bind(Filled(n, pos, kw), <<>>, <<>>)
      BY <3>2, <3>3
    <3> QED BY <3>4
  <2>3. DOMAIN kw \cap First(n) = DOMAIN kw
    BY <2>2
  <2> QED BY <1>1, <1>3, <1>4, <2>2, <2>3 DEF Bind, n
<1>5. CASE Has("kwargs")
  <2>1. Kwargs(pos, kw) /\ Len(names) - 1 = n
    BY <1>1, <1>2, <1>5 DEF Handle
  <2>2. /\ result' = Bind(Filled(n, pos, kw), <<>>, Others(kw, First(n)))
        /\ ~(Len(pos) + Cardinality(DOMAIN kw \cap First(n)) < Required(n))
        /\ ~(Len(pos) > n)
        /\ DOMAIN kw \cap First(Len(pos)) = {}
    <3>1. result' # Refuse /\ result' # Crash
      BY DEF Refuse, Crash
    <3>2. LET l == Len(names) - 1
          IN  /\ ~(Len(pos) + Cardinality(DOMAIN kw \cap First(l)) < Required(l))
              /\ ~(Len(pos) > l)
              /\ ~(DOMAIN kw \cap First(Len(pos)) # {})
              /\ result' = Bind(Filled(l, pos, kw), <<>>, Others(kw, First(l)))
      BY <2>1, <3>1, Zenon DEF Kwargs
    <3>3. Len(names) - 1 = n
      BY <2>1
    <3> QED BY <3>2, <3>3
  <2>3. Cardinality(DOMAIN kw \cap First(n)) \in Nat
    <3>1. DOMAIN kw \cap First(n) \in SUBSET DOMAIN kw
      OBVIOUS
    <3>2. IsFiniteSet(DOMAIN kw \cap First(n))
      BY <3>1, FS_Subset
    <3> QED BY <3>2, FS_CardinalityType
  <2> QED BY <1>1, <1>3, <1>5, <2>2, <2>3 DEF Bind, n
<1> QED BY <1>4, <1>5

\* The places Filled gives to the parameters.
LEMMA FilledIs ==
  ASSUME Shaped, KwargsLast, ~Has("variadic"),
         NEW pos \in Seq(Nat), NEW kw, NEW p \in 1..Places
  PROVE  /\ p \in First(Shift + Places)
         /\ Filled(Shift + Places, pos, kw)[p] =
              IF Shift + p <= Len(pos) THEN pos[Shift + p]
              ELSE IF p \in DOMAIN kw THEN kw[p] ELSE DefaultParam(p)
<1>1. Places \in Nat /\ Places <= Len(kinds) /\ Len(kinds) \in Nat
  BY Straight, KindsAre, BoundsAssumption
<1>2. p \in 1..Len(kinds) /\ Shift + Places \in Nat /\ Shift + p <= Shift + Places
  BY <1>1, ShiftIs
<1>3. p \in First(Shift + Places) /\ Index(p) = Shift + p
  BY <1>2, StraightFirst
<1> QED BY <1>3 DEF Filled

LEMMA PlacesNamed ==
  ASSUME Shaped, KwargsLast, ~Has("variadic")
  PROVE  1..Places \subseteq First(Shift + Places)
  BY FilledIs, <<>> \in Seq(Nat)

LEMMA AcceptedVariadic ==
  ASSUME Shaped, DefaultsKnown, KwargsLast, Has("variadic"), ~Has("default"),
         NEW pos \in Seq(Nat), NEW kw, Handle(pos, kw), result'.status = "ok"
  PROVE  LET n == Shift + Places
         IN  /\ \A p \in First(n) : result'.vars[p] = pos[Index(p)]
             /\ result'.rest = From(n, pos)
             /\ Len(pos) >= n
             /\ DOMAIN kw \cap First(n) = {}
             /\ ~Has("kwargs") => DOMAIN kw = {} /\ result'.extra = <<>>
             /\ Has("kwargs") => DOMAIN result'.extra = DOMAIN kw
                                /\ \A k \in DOMAIN kw : result'.extra[k] = kw[k]
<1> DEFINE n == Shift + Places
<1>1. Places \in Nat /\ n \in Nat
  BY Straight, ShiftIs
<1>2. Len(names) = n + 1 + (IF Has("kwargs") THEN 1 ELSE 0)
  BY <1>1, Straight, StraightNames, ShiftIs
<1>3. DOMAIN defaults = {}
  BY DEF DefaultsKnown, Has
<1> HIDE DEF n
<1>4. CASE ~Has("kwargs")
  <2>1. Variadic(pos, kw) /\ Len(names) - 1 = n
    BY <1>1, <1>2, <1>4 DEF Handle
  <2>2. /\ ~(Len(pos) < n) /\ DOMAIN kw \subseteq DOMAIN defaults
        /\ result' = Bind([p \in First(n) \cup DOMAIN defaults |->
                             IF p \in DOMAIN kw THEN kw[p]
                             ELSE IF p \in DOMAIN defaults THEN defaults[p]
                             ELSE pos[Index(p)]], From(n, pos), <<>>)
    BY <2>1 DEF Variadic, Refuse
  <2>3. DOMAIN kw = {}
    BY <1>3, <2>2
  <2>4. \A p \in First(n) : result'.vars[p] = pos[Index(p)]
    BY <1>3, <2>2, <2>3 DEF Bind
  <2> QED BY <1>1, <1>4, <2>2, <2>3, <2>4 DEF Bind, n
<1>5. CASE Has("kwargs")
  <2>1. Both(pos, kw) /\ Len(names) - 2 = n
    BY <1>1, <1>2, <1>5 DEF Handle
  <2>2. /\ ~(Len(pos) < n) /\ DOMAIN kw \cap First(n) = {}
        /\ result' = Bind([p \in First(n) \cup DOMAIN defaults |->
                             IF p \in First(n) THEN pos[Index(p)] ELSE defaults[p]],
                          From(n, pos), Others(kw, DOMAIN defaults))
    BY <2>1 DEF Both, Refuse
  <2>3. DOMAIN result'.extra = DOMAIN kw /\ \A k \in DOMAIN kw : result'.extra[k] = kw[k]
    BY <1>3, <2>2 DEF Bind, Others
  <2>4. \A p \in First(n) : result'.vars[p] = pos[Index(p)]
    BY <2>2 DEF Bind
  <2> QED BY <1>1, <1>5, <2>2, <2>3, <2>4 DEF Bind, n
<1> QED BY <1>4, <1>5

-----------------------------------------------------------------------------
(* The invariant.                                                          *)

LEMMA EntriesKeep ==
  ASSUME DefaultsKnown, UNCHANGED <<kinds, method, names>>, NEW S,
         defaults' = WithEntries(S), ~Has("variadic"), KwargsLast => S \subseteq First(Shift + Places)
  PROVE  DefaultsKnown'
<1>1. DOMAIN defaults' = DOMAIN defaults \cup S /\ \A p \in DOMAIN defaults' : defaults'[p] = DefaultParam(p)
  BY DEF WithEntries
<1>2. ~Has("variadic")' /\ (KwargsLast' <=> KwargsLast) /\ First(Shift + Places)' = First(Shift + Places)
  BY DEF Has, KwargsLast, First, Shift, Places, Regular
<1>3. \A p \in DOMAIN kinds : kinds[p] = "default" => p \in DOMAIN defaults'
  BY <1>1 DEF DefaultsKnown
<1>4. ASSUME NEW p \in DOMAIN defaults'
      PROVE  defaults'[p] = IF p \in DOMAIN kinds /\ kinds[p] = "default" THEN Default ELSE Missing
  <2>1. CASE p \in DOMAIN defaults
    BY <1>1, <2>1 DEF DefaultsKnown, DefaultParam
  <2>2. CASE p \notin DOMAIN defaults
    BY <1>1, <2>2 DEF DefaultsKnown, DefaultParam
  <2> QED BY <2>1, <2>2
<1>5. KwargsLast => DOMAIN defaults' \subseteq First(Shift + Places)
  BY <1>1 DEF DefaultsKnown
<1> QED BY <1>2, <1>3, <1>4, <1>5 DEF DefaultsKnown

LEMMA HandleKeeps ==
  ASSUME Shaped, DefaultsKnown, UNCHANGED <<kinds, method, names>>,
         NEW pos, NEW kw, Handle(pos, kw)
  PROVE  DefaultsKnown'
<1>1. CASE UNCHANGED defaults
  BY <1>1 DEF DefaultsKnown, Has, KwargsLast, First, Shift, Places, Regular
<1>2. CASE ~UNCHANGED defaults
  <2>1. ~Has("variadic")
    BY <1>2 DEF Handle, Both, Variadic
  <2>2. KwargsLast => Len(names) = Shift + Places + (IF Has("kwargs") THEN 1 ELSE 0)
                      /\ Shift + Places \in Nat
    BY <2>1, Straight, StraightNames, ShiftIs
  <2>3. CASE Simple(pos, kw) /\ ~Has("kwargs")
    <3>1. defaults' = WithEntries(Unfilled(Len(names), pos, kw))
      BY <1>2, <2>3, Zenon DEF Simple
    <3>2. KwargsLast => Len(names) = Shift + Places
      BY <2>2, <2>3
    <3>3. KwargsLast => Unfilled(Len(names), pos, kw) \subseteq First(Shift + Places)
      BY <3>2 DEF Unfilled
    <3> QED BY <2>1, <3>1, <3>3, EntriesKeep
  <2>4. CASE Kwargs(pos, kw) /\ Has("kwargs")
    <3>1. defaults' = WithEntries(Unfilled(Len(names) - 1, pos, kw))
      BY <1>2, <2>4, Zenon DEF Kwargs
    <3>2. KwargsLast => Len(names) - 1 = Shift + Places
      BY <2>2, <2>4
    <3>3. KwargsLast => Unfilled(Len(names) - 1, pos, kw) \subseteq First(Shift + Places)
      BY <3>2 DEF Unfilled
    <3> QED BY <2>1, <3>1, <3>3, EntriesKeep
  <2> QED BY <2>1, <2>3, <2>4 DEF Handle
<1> QED BY <1>1, <1>2

\* What Call hands to the handler.
LEMMA CallHandles ==
  ASSUME NEW items \in Calls, Call(items), result'.status = "ok"
  PROVE  Handle(PosOf(items), KwOf(items)) /\ ~BadArguments(items) /\ call' = items
         /\ UNCHANGED <<kinds, method, names>> /\ declared
<1>1. result' # Refuse
  BY DEF Refuse
<1> QED BY <1>1, Zenon DEF Call, PosOf, KwOf

LEMMA KnownStays ==
  ASSUME Known, [Next]_vars
  PROVE  Known'
<1>1. CASE UNCHANGED vars
  <2>1. /\ declared' = declared /\ kinds' = kinds /\ method' = method /\ names' = names
        /\ defaults' = defaults /\ result' = result
    BY <1>1 DEF vars
  <2>2. Shaped => Shaped'
    BY <2>1 DEF Shaped, Accepted, NamesOf, Named
  <2>3. DefaultsKnown => DefaultsKnown'
    BY <2>1 DEF DefaultsKnown, Has, KwargsLast, First, Shift, Places, Regular
  <2> QED BY <2>1, <2>2, <2>3 DEF Known
<1>2. ASSUME NEW ks \in Declarations, NEW m \in BOOLEAN, Declare(ks, m)
      PROVE  Known'
  <2>1. declared' /\ kinds' = ks /\ method' = m /\ Accepted(ks)
        /\ names' = (IF m THEN <<This>> ELSE <<>>) \o NamesOf(ks)
    BY <1>2 DEF Declare
  <2>2. Shaped'
    BY <2>1 DEF Shaped
  <2>3. DOMAIN defaults' = {i \in DOMAIN kinds' : kinds'[i] = "default"}
        /\ \A p \in DOMAIN defaults' : defaults'[p] = Default
    BY <1>2, <2>1 DEF Declare
  <2>4. KwargsLast' /\ ~Has("variadic")' => DOMAIN defaults' \subseteq First(Shift + Places)'
    <3> SUFFICES ASSUME KwargsLast', ~Has("variadic")', NEW p \in DOMAIN defaults'
                 PROVE  p \in First(Shift + Places)'
      OBVIOUS
    <3>1. (Places \in Nat /\ Regular = 1..Places)'
      BY <2>2, Straight, PTL
    <3>2. (1..Places \subseteq First(Shift + Places))'
      BY <2>2, PlacesNamed, PTL
    <3>3. p \in Regular'
      BY <2>3 DEF Regular
    <3> QED BY <3>1, <3>2, <3>3
  <2>5. DefaultsKnown'
    BY <2>3, <2>4 DEF DefaultsKnown
  <2> QED BY <2>1, <2>2, <2>5 DEF Known
<1>3. ASSUME NEW items \in Calls, Call(items)
      PROVE  Known'
  <2>1. declared /\ Shaped /\ DefaultsKnown /\ UNCHANGED <<declared, kinds, method, names>>
    BY <1>3 DEF Known, Call
  <2>2. Shaped'
    BY <2>1 DEF Shaped, Accepted, NamesOf, Named
  <2>3. DefaultsKnown'
    <3>1. CASE UNCHANGED defaults
      BY <2>1, <3>1 DEF DefaultsKnown, Has, KwargsLast, First, Shift, Places, Regular
    <3>2. CASE ~UNCHANGED defaults
      <4>1. Handle(PosOf(items), KwOf(items))
        BY <1>3, <3>2, Zenon DEF Call, PosOf, KwOf
      <4> QED BY <2>1, <4>1, HandleKeeps
    <3> QED BY <3>1, <3>2
  <2> QED BY <2>1, <2>2, <2>3 DEF Known
<1> QED BY <1>1, <1>2, <1>3 DEF Next

-----------------------------------------------------------------------------
(* Arguments are bound where they belong.                                  *)

LEMMA GivenPlain ==
  ASSUME Shaped, KwargsLast, ~Has("variadic"),
         NEW pos \in Seq(Nat), NEW kw, IsFiniteSet(DOMAIN kw), method => DOMAIN kw = {},
         Handle(pos, kw), result'.status = "ok"
  PROVE  /\ Len(pos) <= Shift + Places
         /\ result'.rest = <<>>
         /\ \A i \in 1..Places : Shift + i <= Len(pos) => result'.vars[i] = pos[Shift + i]
         /\ \A k \in DOMAIN kw : IF k \in Regular THEN result'.vars[k] = kw[k]
                               ELSE k \in DOMAIN result'.extra /\ result'.extra[k] = kw[k]
         /\ DOMAIN result'.extra = DOMAIN kw \ Regular
<1> DEFINE n == Shift + Places
<1>1. /\ result'.vars = Filled(n, pos, kw) /\ result'.rest = <<>>
      /\ result'.extra = IF Has("kwargs") THEN Others(kw, First(n)) ELSE <<>>
      /\ Len(pos) <= n
      /\ DOMAIN kw \cap First(Len(pos)) = {}
      /\ ~Has("kwargs") => DOMAIN kw \subseteq First(n)
  BY AcceptedPlain
<1>2. /\ Places \in Nat /\ Regular = 1..Places /\ Places <= Len(kinds) /\ Len(kinds) \in Nat
      /\ Len(pos) \in Nat
  BY Straight, KindsAre, BoundsAssumption
<1>3. First(n) = Regular \cup InFront
  BY <1>2, StraightFirst
<1> HIDE DEF n
<1>4. ASSUME NEW i \in 1..Places, Shift + i <= Len(pos) PROVE result'.vars[i] = pos[Shift + i]
  BY <1>1, <1>4, FilledIs DEF n
<1>5. ASSUME NEW k \in DOMAIN kw, k \in Regular PROVE result'.vars[k] = kw[k]
  <2>1. k \in 1..Places /\ k \in 1..Len(kinds) /\ k \notin First(Len(pos))
    BY <1>1, <1>2, <1>5
  <2>2. ~(Shift + k <= Len(pos))
    BY <1>2, <2>1, StraightFirst
  <2> QED BY <1>1, <2>1, <2>2, FilledIs DEF n
<1>6. DOMAIN kw \ First(n) = DOMAIN kw \ Regular
  BY <1>3 DEF InFront
<1>7. DOMAIN result'.extra = DOMAIN kw \ Regular
      /\ \A k \in DOMAIN kw \ Regular : result'.extra[k] = kw[k]
  <2>1. CASE Has("kwargs")
    BY <1>1, <1>6, <2>1 DEF Others
  <2>2. CASE ~Has("kwargs")
    <3>1. DOMAIN kw \ Regular = {}
      BY <1>1, <1>6, <2>2
    <3> QED BY <1>1, <2>2, <3>1
  <2> QED BY <2>1, <2>2
<1> QED BY <1>1, <1>4, <1>5, <1>7 DEF n

LEMMA GivenVariadic ==
  ASSUME Shaped, DefaultsKnown, KwargsLast, Has("variadic"), ~Has("default"),
         NEW pos \in Seq(Nat), NEW kw, method => DOMAIN kw = {},
         Handle(pos, kw), result'.status = "ok"
  PROVE  /\ Len(pos) >= Shift + Places
         /\ result'.rest = From(Shift + Places, pos)
         /\ \A i \in 1..Places : result'.vars[i] = pos[Shift + i]
         /\ \A k \in DOMAIN kw : k \notin Regular /\ k \in DOMAIN result'.extra
                               /\ result'.extra[k] = kw[k]
         /\ DOMAIN result'.extra = DOMAIN kw
<1> DEFINE n == Shift + Places
<1>1. /\ \A p \in First(n) : result'.vars[p] = pos[Index(p)]
      /\ result'.rest = From(n, pos)
      /\ Len(pos) >= n
      /\ DOMAIN kw \cap First(n) = {}
      /\ ~Has("kwargs") => DOMAIN kw = {} /\ result'.extra = <<>>
      /\ Has("kwargs") => DOMAIN result'.extra = DOMAIN kw
                         /\ \A k \in DOMAIN kw : result'.extra[k] = kw[k]
  BY AcceptedVariadic
<1>2. /\ Places \in Nat /\ Regular = 1..Places /\ Places <= Len(kinds) /\ Len(kinds) \in Nat
  BY Straight, KindsAre, BoundsAssumption
<1>3. First(n) = Regular \cup InFront
  BY <1>2, StraightFirst
<1>4. \A i \in 1..Places : Index(i) = Shift + i
  BY <1>2, StraightFirst
<1> HIDE DEF n
<1>5. \A i \in 1..Places : result'.vars[i] = pos[Shift + i]
  BY <1>1, <1>2, <1>3, <1>4
<1>6. \A k \in DOMAIN kw : k \notin Regular
  BY <1>1, <1>3
<1>7. DOMAIN result'.extra = DOMAIN kw /\ \A k \in DOMAIN kw : result'.extra[k] = kw[k]
  <2>1. DOMAIN <<>> = {}
    OBVIOUS
  <2> QED BY <1>1, <2>1
<1> QED BY <1>1, <1>5, <1>6, <1>7 DEF n

LEMMA GivenStep ==
  ASSUME Known, NEW items \in Calls, Call(items)
  PROVE  GivenIsBound'
<1> DEFINE P == Positional(items)
           K == Keywords(items)
           pos == PosOf(items)
           kw == KwOf(items)
<1> SUFFICES ASSUME result'.status = "ok", Sound', method' => ~HasKeywords(call')
      PROVE  /\ \A i \in DOMAIN P :
                  IF i <= Places THEN result'.vars[i] = P[i]
                  ELSE i - Places \in DOMAIN result'.rest /\ result'.rest[i - Places] = P[i]
             /\ Len(P) = Len(result'.rest) + Cardinality({i \in DOMAIN P : i <= Places})
             /\ \A k \in DOMAIN K :
                  IF k \in Regular THEN result'.vars[k] = K[k]
                  ELSE k \in DOMAIN result'.extra /\ result'.extra[k] = K[k]
             /\ DOMAIN result'.extra = DOMAIN K \ Regular
  <2>1. call' = items /\ kinds' = kinds
    BY DEF Call
  <2> QED BY <2>1 DEF GivenIsBound, Places, Regular
<1>1. /\ Handle(pos, kw) /\ call' = items /\ kinds' = kinds /\ method' = method /\ declared
  BY CallHandles
<1>2. Shaped /\ DefaultsKnown
  BY <1>1 DEF Known
<1>3. KwargsLast /\ (Has("variadic") => ~Has("default"))
  BY <1>1 DEF Sound, KwargsLast, Has
<1>4. /\ pos \in Seq(Nat) /\ Len(P) \in Nat /\ Len(pos) = Shift + Len(P) /\ DOMAIN P = 1..Len(P)
      /\ \A i \in 1..Len(P) : pos[Shift + i] = P[i]
      /\ IsFiniteSet(DOMAIN kw) /\ (method => DOMAIN kw = {}) /\ (~method => kw = K)
  BY Passed
<1>5. method => DOMAIN K = {}
  BY <1>1, KeywordsAre
<1>6. Places \in Nat /\ Regular = 1..Places
  BY <1>2, <1>3, Straight
<1>7. DOMAIN kw = DOMAIN K /\ \A k \in DOMAIN K : kw[k] = K[k]
  BY <1>4, <1>5
<1> HIDE DEF P, K, pos, kw
<1>a. Len(P) \in Nat /\ Places \in Nat /\ Shift \in Nat
  BY <1>4, <1>6, ShiftIs
<1>8. CASE ~Has("variadic")
  <2>1. /\ Len(pos) <= Shift + Places
        /\ result'.rest = <<>>
        /\ \A i \in 1..Places : Shift + i <= Len(pos) => result'.vars[i] = pos[Shift + i]
        /\ \A k \in DOMAIN kw : IF k \in Regular THEN result'.vars[k] = kw[k]
                              ELSE k \in DOMAIN result'.extra /\ result'.extra[k] = kw[k]
        /\ DOMAIN result'.extra = DOMAIN kw \ Regular
    BY <1>1, <1>2, <1>3, <1>4, <1>8, GivenPlain
  <2>2. Len(P) <= Places
    BY <1>4, <1>6, <2>1, ShiftIs
  <2>3. \A i \in DOMAIN P : i <= Places /\ result'.vars[i] = P[i]
    BY <1>4, <1>6, <2>1, <2>2, ShiftIs
  <2>4. Cardinality({i \in DOMAIN P : i <= Places}) = Len(P)
    <3>1. {i \in DOMAIN P : i <= Places} = 1..Len(P)
      BY <1>4, <2>3
    <3>2. \A m \in Nat : Cardinality(1..m) = m
      BY FS_Interval
    <3>3. Cardinality(1..Len(P)) = Len(P)
      BY <1>a, <3>2
    <3> QED BY <3>1, <3>3
  <2>5. Len(result'.rest) = 0
    BY <2>1
  <2> QED BY <1>4, <1>7, <2>1, <2>3, <2>4, <2>5
<1>9. CASE Has("variadic")
  <2>1. /\ Len(pos) >= Shift + Places
        /\ result'.rest = From(Shift + Places, pos)
        /\ \A i \in 1..Places : result'.vars[i] = pos[Shift + i]
        /\ \A k \in DOMAIN kw : k \notin Regular /\ k \in DOMAIN result'.extra
                              /\ result'.extra[k] = kw[k]
        /\ DOMAIN result'.extra = DOMAIN kw
    BY <1>1, <1>2, <1>3, <1>4, <1>9, GivenVariadic
  <2>2. Len(P) >= Places
    BY <1>4, <1>6, <2>1, ShiftIs
  <2>3. result'.rest = SubSeq(pos, Shift + Places + 1, Len(pos))
    BY <2>1 DEF From
  <2>4. /\ Len(result'.rest) = Len(P) - Places /\ DOMAIN result'.rest = 1..(Len(P) - Places)
        /\ \A j \in 1..(Len(P) - Places) : result'.rest[j] = pos[Shift + Places + j]
    <3> DEFINE a == Shift + Places + 1
    <3>1. a \in Nat /\ a \in 1..(Len(pos) + 1) /\ Len(pos) \in Nat
      BY <1>4, <1>6, <2>1, ShiftIs
    <3>2. Len(pos) - a + 1 = Len(P) - Places
      BY <1>4, <1>6, ShiftIs
    <3>3. \A j \in 1..(Len(P) - Places) : a + j - 1 = Shift + Places + j
      BY <1>4, <1>6, ShiftIs
    <3> HIDE DEF a
    <3>4. /\ Len(SubSeq(pos, a, Len(pos))) = Len(pos) - a + 1
          /\ DOMAIN SubSeq(pos, a, Len(pos)) = 1..(Len(pos) - a + 1)
          /\ \A j \in 1..(Len(pos) - a + 1) : SubSeq(pos, a, Len(pos))[j] = pos[a + j - 1]
      BY <1>4, <3>1
    <3> QED BY <2>3, <3>2, <3>3, <3>4 DEF a
  <2>5. \A i \in DOMAIN P : i > Places =>
          i - Places \in DOMAIN result'.rest /\ result'.rest[i - Places] = P[i]
    <3> SUFFICES ASSUME NEW i \in DOMAIN P, i > Places
                 PROVE  i - Places \in DOMAIN result'.rest /\ result'.rest[i - Places] = P[i]
      OBVIOUS
    <3>0. i \in 1..Len(P)
      BY <1>4
    <3>1. i - Places \in 1..(Len(P) - Places) /\ Shift + Places + (i - Places) = Shift + i
      BY <1>a, <3>0
    <3>2. result'.rest[i - Places] = pos[Shift + Places + (i - Places)]
      BY <2>4, <3>1
    <3> QED BY <1>4, <2>4, <3>1, <3>2
  <2>6. \A i \in DOMAIN P : i <= Places => result'.vars[i] = P[i]
    BY <1>4, <1>6, <2>1
  <2>7. Cardinality({i \in DOMAIN P : i <= Places}) = Places
    <3>1. {i \in DOMAIN P : i <= Places} = 1..Places
      BY <1>4, <1>6, <2>2
    <3>2. Cardinality(1..Places) = Places
      BY <1>6, FS_Interval
    <3> QED BY <3>1, <3>2
  <2>8. \A i \in DOMAIN P : i <= Places \/ i > Places
    BY <1>4, <1>6
  <2>9. Len(P) = Len(result'.rest) + Places
    <3>1. Len(result'.rest) = Len(P) - Places
      BY <2>4
    <3> QED BY <1>a, <3>1
  <2>10. DOMAIN K \ Regular = DOMAIN K
    BY <1>7, <2>1
  <2> QED BY <1>7, <2>1, <2>5, <2>6, <2>7, <2>8, <2>9, <2>10
<1> QED BY <1>8, <1>9

-----------------------------------------------------------------------------
(* Defaults, and parameters without an argument.                           *)

LEMMA FirstGrows ==
  ASSUME NEW n \in Int, NEW m \in Int, n <= m
  PROVE  First(n) \subseteq First(m)
<1>1. 1..n \subseteq 1..m
  OBVIOUS
<1> QED BY <1>1 DEF First

LEMMA DefaultsStep ==
  ASSUME Known, NEW items \in Calls, Call(items)
  PROVE  DefaultsStay'
<1> DEFINE pos == PosOf(items)
           kw == KwOf(items)
<1>1. /\ call' = items /\ kinds' = kinds /\ method' = method /\ names' = names
  BY DEF Call
<1> SUFFICES ASSUME result'.status = "ok", KwargsLast', NEW p \in DOMAIN kinds,
                    kinds[p] = "default", p \notin DOMAIN Keywords(items),
                    p \notin First(Len(Positional(items)) + Shift)
             PROVE  result'.vars[p] = Default
  BY <1>1 DEF DefaultsStay, First, Shift
<1>2. Handle(pos, kw) /\ Shaped /\ DefaultsKnown /\ KwargsLast
  BY <1>1, CallHandles DEF Known, KwargsLast
<1>3. /\ pos \in Seq(Nat) /\ Len(Positional(items)) \in Nat
      /\ Len(pos) = Shift + Len(Positional(items))
      /\ IsFiniteSet(DOMAIN kw) /\ (method => DOMAIN kw = {}) /\ (~method => kw = Keywords(items))
  BY Passed
<1>4. Len(pos) = Len(Positional(items)) + Shift /\ Len(pos) \in Nat
  BY <1>3, ShiftIs
<1>5. p \notin First(Len(pos)) /\ p \notin DOMAIN kw
  BY <1>3, <1>4
<1>6. p \in DOMAIN defaults /\ defaults[p] = Default
  BY <1>2 DEF DefaultsKnown
<1> HIDE DEF pos, kw
<1>7. CASE ~Has("variadic")
  <2>1. result'.vars = Filled(Shift + Places, pos, kw)
    BY <1>2, <1>3, <1>7, AcceptedPlain
  <2>2. /\ Places \in Nat /\ Regular = 1..Places /\ Places <= Len(kinds) /\ Len(kinds) \in Nat
    BY <1>2, <1>7, Straight, KindsAre, BoundsAssumption
  <2>3. p \in 1..Places
    BY <2>2 DEF Regular
  <2>4. p \in 1..Len(kinds)
    BY <2>2, <2>3
  <2>5. ~(Shift + p <= Len(pos))
    BY <1>2, <1>4, <1>5, <1>7, <2>4, StraightFirst
  <2>6. result'.vars[p] = DefaultParam(p)
    BY <1>2, <1>3, <1>5, <1>7, <2>1, <2>3, <2>5, FilledIs
  <2> QED BY <1>6, <2>6 DEF DefaultParam
<1>8. CASE Has("variadic") /\ ~Has("kwargs")
  <2>1. result' = Bind([q \in First(Len(names) - 1) \cup DOMAIN defaults |->
                             IF q \in DOMAIN kw THEN kw[q]
                             ELSE IF q \in DOMAIN defaults THEN defaults[q]
                             ELSE pos[Index(q)]], From(Len(names) - 1, pos), <<>>)
    BY <1>2, <1>8 DEF Handle, Variadic, Refuse
  <2> QED BY <1>5, <1>6, <2>1 DEF Bind
<1>9. CASE Has("variadic") /\ Has("kwargs")
  <2>1. /\ ~(Len(pos) < Len(names) - 2)
        /\ result' = Bind([q \in First(Len(names) - 2) \cup DOMAIN defaults |->
                             IF q \in First(Len(names) - 2) THEN pos[Index(q)] ELSE defaults[q]],
                          From(Len(names) - 2, pos), Others(kw, DOMAIN defaults))
    BY <1>2, <1>9 DEF Handle, Both, Refuse
  <2>2. Len(names) - 2 \in Int
    BY <1>2, NamesAre
  <2>3. Len(names) - 2 <= Len(pos) /\ Len(pos) \in Int
    BY <1>4, <2>1, <2>2
  <2>4. p \notin First(Len(names) - 2)
    BY <1>5, <2>2, <2>3, FirstGrows
  <2> QED BY <1>6, <2>1, <2>4 DEF Bind
<1> QED BY <1>7, <1>8, <1>9

\* The first n parameters have their arguments among the positional ones.
LEMMA FirstGiven ==
  ASSUME Shaped, NEW pos \in Seq(Nat), NEW n \in Int, n <= Len(pos), NEW p \in First(n)
  PROVE  pos[Index(p)] \in Nat
<1>1. PICK i \in (1..n) \cap DOMAIN names : names[i] = p
  BY DEF First
<1>2. Index(p) = i
  BY <1>1, IndexOf
<1>3. i \in 1..Len(pos)
  BY <1>1
<1> QED BY <1>2, <1>3

LEMMA MissingStep ==
  ASSUME Known, NEW items \in Calls, Call(items), result'.status = "ok", KwargsLast,
         ~HasKeywords(items), \A p \in DOMAIN defaults : defaults[p] # Missing
  PROVE  \A p \in DOMAIN result'.vars : result'.vars[p] # Missing
<1> DEFINE pos == PosOf(items)
           kw == KwOf(items)
<1> SUFFICES ASSUME NEW p \in DOMAIN result'.vars PROVE result'.vars[p] # Missing
  OBVIOUS
<1>1. Handle(pos, kw) /\ Shaped /\ DefaultsKnown
  BY CallHandles DEF Known
<1>2. /\ pos \in Seq(Nat) /\ Len(Positional(items)) \in Nat
      /\ Len(pos) = Shift + Len(Positional(items))
      /\ (method => DOMAIN kw = {}) /\ (~method => kw = Keywords(items))
  BY Passed
<1>3. DOMAIN kw = {}
  BY <1>2, KeywordsAre
<1>4. IsFiniteSet(DOMAIN kw) /\ \A S : Cardinality(DOMAIN kw \cap S) = 0
  BY <1>3, FS_EmptySet
<1>5. \A x \in Nat : x # Missing
  BY DEF Missing
<1>6. Default # Missing /\ Len(names) \in Nat /\ Len(pos) \in Nat
  BY <1>1, <1>2, NamesAre DEF Default, Missing
<1> HIDE DEF pos, kw
<1>7. CASE ~Has("variadic")
  <2>1. /\ result'.vars = Filled(Shift + Places, pos, kw)
        /\ ~(Len(pos) + Cardinality(DOMAIN kw \cap First(Shift + Places)) < Required(Shift + Places))
    BY <1>1, <1>2, <1>4, <1>7, AcceptedPlain
  <2>2. /\ Places \in Nat /\ Regular = 1..Places /\ Places <= Len(kinds) /\ Len(kinds) \in Nat
    BY <1>1, <1>7, Straight, KindsAre, BoundsAssumption
  <2>3. p \in (1..Places) \cup InFront
    <3>1. DOMAIN result'.vars = First(Shift + Places)
      BY <2>1 DEF Filled
    <3> QED BY <1>1, <1>7, <2>2, <3>1, StraightFirst
  <2>4. CASE p \in 1..Places
    <3>1. result'.vars[p] = IF Shift + p <= Len(pos) THEN pos[Shift + p] ELSE DefaultParam(p)
      BY <1>1, <1>2, <1>3, <1>7, <2>1, <2>4, FilledIs
    <3>2. CASE Shift + p <= Len(pos)
      <4>1. Shift + p \in 1..Len(pos)
        BY <1>6, <2>4, <3>2, ShiftIs
      <4>2. pos[Shift + p] \in Nat
        BY <1>2, <4>1
      <4> QED BY <1>5, <3>1, <3>2, <4>2
    <3>3. CASE ~(Shift + p <= Len(pos))
      <4>1. PICK m \in 0..Places : \A q \in 1..Places :
              (kinds[q] = "plain" <=> q <= m) /\ (kinds[q] = "default" <=> q > m)
        BY <1>1, <1>7, PlainFirst
      <4>2. Required(Shift + Places) = Shift + m
        BY <1>1, <1>7, <4>1, RequiredIs
      <4>3. ~(Len(pos) < Shift + m)
        BY <1>4, <1>6, <2>1, <4>2
      <4>4. p > m
        BY <1>6, <2>2, <2>4, <3>3, <4>3, ShiftIs
      <4>5. kinds[p] = "default" /\ p \in DOMAIN kinds
        BY <2>2, <2>4, <4>1, <4>4 DEF Regular
      <4>6. DefaultParam(p) = Default
        BY <1>1, <4>5 DEF DefaultsKnown, DefaultParam
      <4> QED BY <1>6, <3>1, <3>3, <4>6
    <3> QED BY <3>2, <3>3
  <2>5. CASE p \in InFront
    <3>1. method /\ p = 0 /\ Shift = 1
      BY <2>5 DEF InFront, Shift
    <3>2. names[1] = 0 /\ 1 \in DOMAIN names
      BY <1>1, <3>1, NamesAre
    <3>3. Index(0) = 1
      BY <1>1, <3>2, IndexOf
    <3>4. 1 <= Len(pos) /\ pos[1] \in Nat
      <4>1. 1 \in 1..Len(pos)
        BY <1>2, <3>1
      <4> QED BY <1>2, <4>1
    <3>5. result'.vars[p] = pos[1]
      BY <2>1, <3>1, <3>3, <3>4 DEF Filled
    <3> QED BY <1>5, <3>4, <3>5
  <2> QED BY <2>3, <2>4, <2>5
<1>8. CASE Has("variadic") /\ ~Has("kwargs")
  <2>1. /\ ~(Len(pos) < Len(names) - 1)
        /\ result' = Bind([q \in First(Len(names) - 1) \cup DOMAIN defaults |->
                             IF q \in DOMAIN kw THEN kw[q]
                             ELSE IF q \in DOMAIN defaults THEN defaults[q]
                             ELSE pos[Index(q)]], From(Len(names) - 1, pos), <<>>)
    BY <1>1, <1>8 DEF Handle, Variadic, Refuse
  <2>2. p \in First(Len(names) - 1) \cup DOMAIN defaults
        /\ result'.vars[p] = IF p \in DOMAIN defaults THEN defaults[p] ELSE pos[Index(p)]
    BY <1>3, <2>1 DEF Bind
  <2>3. p \in First(Len(names) - 1) => pos[Index(p)] \in Nat
    <3>1. Len(names) - 1 \in Int /\ Len(names) - 1 <= Len(pos)
      BY <1>6, <2>1
    <3> QED BY <1>1, <1>2, <3>1, FirstGiven
  <2> QED BY <1>5, <2>2, <2>3
<1>9. CASE Has("variadic") /\ Has("kwargs")
  <2>1. /\ ~(Len(pos) < Len(names) - 2)
        /\ result' = Bind([q \in First(Len(names) - 2) \cup DOMAIN defaults |->
                             IF q \in First(Len(names) - 2) THEN pos[Index(q)] ELSE defaults[q]],
                          From(Len(names) - 2, pos), Others(kw, DOMAIN defaults))
    BY <1>1, <1>9 DEF Handle, Both, Refuse
  <2>2. p \in First(Len(names) - 2) \cup DOMAIN defaults
        /\ result'.vars[p] = IF p \in First(Len(names) - 2) THEN pos[Index(p)] ELSE defaults[p]
    BY <2>1 DEF Bind
  <2>3. p \in First(Len(names) - 2) => pos[Index(p)] \in Nat
    <3>1. Len(names) - 2 \in Int /\ Len(names) - 2 <= Len(pos)
      BY <1>6, <2>1
    <3> QED BY <1>1, <1>2, <3>1, FirstGiven
  <2> QED BY <1>5, <2>2, <2>3
<1> QED BY <1>7, <1>8, <1>9

-----------------------------------------------------------------------------
(* Calls that give what is needed are accepted.                            *)

\* How many arguments such a call has: l by position, and those named in K.
LEMMA Enough ==
  ASSUME NEW m \in Nat, NEW r \in Nat, m <= r, NEW l \in Nat, l <= r,
         NEW K \in SUBSET (1..r),
         \A p \in 1..r : ~(p <= l /\ p \in K),
         \A p \in 1..m : p <= l \/ p \in K
  PROVE  Cardinality(K) \in Nat /\ m <= l + Cardinality(K) /\ l + Cardinality(K) <= r
<1>1. /\ IsFiniteSet(1..l) /\ Cardinality(1..l) = l
      /\ IsFiniteSet(1..r) /\ Cardinality(1..r) = r
      /\ Cardinality(1..m) = m
  <2>1. \A n \in Nat : IsFiniteSet(1..n) /\ Cardinality(1..n) = n
    BY FS_Interval
  <2> QED BY <2>1
<1>2. IsFiniteSet(K) /\ Cardinality(K) \in Nat
  BY FiniteRange
<1>3. (1..l) \cap K = {} /\ Cardinality({}) = 0
  BY FS_EmptySet
<1>4. IsFiniteSet((1..l) \cup K) /\ Cardinality((1..l) \cup K) = l + Cardinality(K)
  <2>1. IsFiniteSet((1..l) \cup K)
        /\ Cardinality((1..l) \cup K) = Cardinality(1..l) + Cardinality(K) - Cardinality((1..l) \cap K)
    BY <1>1, <1>2, FS_Union
  <2>2. Cardinality((1..l) \cap K) = 0
    BY <1>3
  <2>3. Cardinality((1..l) \cup K) = l + Cardinality(K) - 0
    BY <1>1, <2>1, <2>2
  <2> QED BY <1>2, <2>1, <2>3
<1>5. (1..m) \in SUBSET ((1..l) \cup K) /\ ((1..l) \cup K) \in SUBSET (1..r)
  OBVIOUS
<1>6. Cardinality(1..m) <= Cardinality((1..l) \cup K)
  BY <1>4, <1>5, FS_Subset
<1>7. Cardinality((1..l) \cup K) <= Cardinality(1..r)
  BY <1>1, <1>5, FS_Subset
<1> QED BY <1>1, <1>2, <1>4, <1>6, <1>7

LEMMA CompleteStep ==
  ASSUME Known, NEW items \in Calls, Call(items)
  PROVE  CompleteIsAccepted'
<1> DEFINE P == Positional(items)
           K == DOMAIN Keywords(items)
           pos == PosOf(items)
           kw == KwOf(items)
<1>1. /\ call' = items /\ kinds' = kinds /\ method' = method /\ names' = names /\ declared
  BY DEF Call
<1> SUFFICES ASSUME Sound, Complete(items), method => ~HasKeywords(items),
                    Has("variadic") => K \cap Regular = {}
             PROVE  result'.status = "ok"
  <2>1. (Sound' <=> Sound) /\ (Complete(call)' <=> Complete(items)) /\ (Has("variadic")' <=> Has("variadic"))
        /\ Regular' = Regular
    BY <1>1 DEF Sound, KwargsLast, Has, Complete, Regular
  <2> QED BY <1>1, <2>1 DEF CompleteIsAccepted
<1>2. Handle(pos, kw) /\ Shaped /\ DefaultsKnown
  BY <1>1, Zenon DEF Complete, Call, PosOf, KwOf, Known
<1>3. KwargsLast /\ (Has("variadic") => ~Has("default"))
  BY DEF Sound
<1>4. /\ pos \in Seq(Nat) /\ Len(P) \in Nat /\ Len(pos) = Shift + Len(P)
      /\ (method => DOMAIN kw = {}) /\ (~method => DOMAIN kw = K)
  BY Passed
<1>5. DOMAIN kw = K /\ (method => K = {})
  BY <1>4, KeywordsAre
<1>6. /\ Places \in Nat /\ Regular = 1..Places /\ Places <= Len(kinds) /\ Len(kinds) \in Nat
  BY <1>2, <1>3, Straight, KindsAre, BoundsAssumption
<1>7. /\ \A p \in 1..Places : ~ (p <= Len(P) /\ p \in K)
      /\ \A p \in 1..Places : kinds[p] = "plain" => p <= Len(P) \/ p \in K
      /\ Len(P) <= Places \/ Has("variadic")
      /\ K \subseteq Regular \/ Has("kwargs")
  BY <1>6 DEF Complete, Places
<1> HIDE DEF P, K, pos, kw
<1>8. Len(names) = Shift + Len(kinds)
  BY <1>2, <1>3, StraightNames
<1>9. Shift \in Nat /\ Len(P) \in Nat /\ Places \in Nat
  BY <1>4, <1>6, ShiftIs
<1>10. CASE ~Has("variadic")
  <2> DEFINE n == Shift + Places
  <2>1. PICK m \in 0..Places : \A q \in 1..Places :
          (kinds[q] = "plain" <=> q <= m) /\ (kinds[q] = "default" <=> q > m)
    BY <1>2, <1>3, <1>10, PlainFirst
  <2>2. Required(n) \in 0..(Shift + m)
    BY <1>2, <1>3, <1>10, <2>1, RequiredIs
  <2>3. First(n) = (1..Places) \cup InFront /\ First(Len(pos)) = (1..Len(P)) \cup InFront
    <3>1. Len(P) \in 0..Len(kinds) /\ Places \in 0..Len(kinds)
      BY <1>6, <1>7, <1>9, <1>10
    <3> QED BY <1>2, <1>3, <1>4, <3>1, StraightFirst
  <2>4. DOMAIN kw \cap First(n) = K \cap (1..Places) /\ DOMAIN kw \cap First(Len(pos)) = {}
    <3>1. K \cap InFront = {}
      BY <1>5 DEF InFront
    <3>2. K \cap (1..Len(P)) = {}
      BY <1>7, <1>9, <1>10
    <3> QED BY <1>5, <2>3, <3>1, <3>2
  <2>5. LET c == Cardinality(K \cap (1..Places))
        IN  c \in Nat /\ m <= Len(P) + c /\ Len(P) + c <= Places
    <3>1. m \in Nat /\ m <= Places /\ Len(P) <= Places
      BY <1>7, <1>9, <1>10
    <3>2. \A p \in 1..Places : ~(p <= Len(P) /\ p \in K \cap (1..Places))
      BY <1>7
    <3>3. \A p \in 1..m : p <= Len(P) \/ p \in K \cap (1..Places)
      BY <1>7, <1>9, <2>1, <3>1
    <3>4. K \cap (1..Places) \in SUBSET (1..Places)
      OBVIOUS
    <3> QED BY <1>9, <3>1, <3>2, <3>3, <3>4, Enough
  <2> DEFINE c == Cardinality(DOMAIN kw \cap First(n))
  <2>6. c \in Nat /\ m <= Len(P) + c /\ Len(P) + c <= Places
    BY <2>4, <2>5
  <2> HIDE DEF c
  <2>7. ~(Len(pos) + c < Required(n)) /\ ~(Len(pos) + c > n) /\ ~(Len(pos) > n)
    BY <1>4, <1>9, <2>2, <2>6
  <2>8. CASE ~Has("kwargs")
    <3>1. Simple(pos, kw) /\ Len(names) = n
      BY <1>2, <1>3, <1>8, <1>9, <1>10, <2>8, Straight DEF Handle
    <3>2. DOMAIN kw \subseteq First(n)
      BY <1>5, <1>6, <1>7, <2>3, <2>8
    <3>3. c = Cardinality(DOMAIN kw)
      <4>1. DOMAIN kw \cap First(n) = DOMAIN kw
        BY <3>2
      <4> QED BY <4>1 DEF c
    <3> HIDE DEF n
    <3>4. ~ \/ Len(pos) + Cardinality(DOMAIN kw) < Required(Len(names))
            \/ Len(pos) + Cardinality(DOMAIN kw) > Len(names)
            \/ \E k \in DOMAIN kw : k \notin First(Len(names)) \/ k \in First(Len(pos))
      BY <2>4, <2>7, <3>1, <3>2, <3>3
    <3>5. result' = Bind(Filled(Len(names), pos, kw), <<>>, <<>>)
      BY <3>1, <3>4, Zenon DEF Simple
    <3> QED BY <3>5 DEF Bind
  <2>9. CASE Has("kwargs")
    <3>1. Kwargs(pos, kw) /\ Len(names) - 1 = n
      BY <1>2, <1>3, <1>8, <1>9, <1>10, <2>9, Straight DEF Handle
    <3> HIDE DEF n
    <3>2. ~(Len(pos) + Cardinality(DOMAIN kw \cap First(Len(names) - 1)) < Required(Len(names) - 1))
          /\ ~(Len(pos) > Len(names) - 1) /\ ~(DOMAIN kw \cap First(Len(pos)) # {})
      BY <2>4, <2>7, <3>1 DEF c
    <3>3. result' = Bind(Filled(Len(names) - 1, pos, kw), <<>>, Others(kw, First(Len(names) - 1)))
      BY <3>1, <3>2, Zenon DEF Kwargs
    <3> QED BY <3>3 DEF Bind
  <2> QED BY <2>8, <2>9
<1>11. CASE Has("variadic")
  <2>1. \A p \in 1..Places : kinds[p] = "plain"
    BY <1>3, <1>6, <1>11 DEF Regular, Has
  <2>2. Places <= Len(P)
    <3>1. CASE Places = 0
      BY <1>9, <3>1
    <3>2. CASE Places # 0
      <4>1. Places \in 1..Places
        BY <1>9, <3>2
      <4> QED BY <1>6, <1>7, <1>11, <2>1, <4>1
    <3> QED BY <3>1, <3>2
  <2>3. ~(Len(pos) < Shift + Places)
    BY <1>4, <1>9, <2>2
  <2>4. CASE ~Has("kwargs")
    <3>1. Variadic(pos, kw) /\ Len(names) - 1 = Shift + Places
      BY <1>2, <1>3, <1>8, <1>9, <1>11, <2>4, Straight DEF Handle
    <3>2. DOMAIN kw = {}
      BY <1>5, <1>7, <1>11, <2>4
    <3> QED BY <2>3, <3>1, <3>2 DEF Variadic, Bind
  <2>5. CASE Has("kwargs")
    <3>1. Both(pos, kw) /\ Len(names) - 2 = Shift + Places
      BY <1>2, <1>3, <1>8, <1>9, <1>11, <2>5, Straight DEF Handle
    <3>2. First(Shift + Places) = (1..Places) \cup InFront
      BY <1>2, <1>3, <1>6, StraightFirst
    <3>3. DOMAIN kw \cap First(Shift + Places) = {}
      BY <1>5, <1>6, <1>11, <3>2 DEF InFront
    <3> QED BY <2>3, <3>1, <3>3 DEF Both, Bind
  <2> QED BY <2>4, <2>5
<1> QED BY <1>10, <1>11

-----------------------------------------------------------------------------
(* The theorems.                                                           *)

\* A call is the only step that changes what a property of calls is about.
LEMMA OnlyCalls ==
  ASSUME Known, [Next]_vars
  PROVE  \/ \E items \in Calls : Call(items)
         \/ result' = result /\ (result.status = "none" \/ UNCHANGED vars)
<1>1. ASSUME NEW ks \in Declarations, NEW m \in BOOLEAN, Declare(ks, m)
      PROVE  result' = result /\ result.status = "none"
  BY <1>1 DEF Declare, Known
<1> QED BY <1>1 DEF Next, vars

\* What default_values_ and params_ hold, whatever was declared and called: a default
\* parameter keeps its default, and the entries GetDefaultParam adds are null.
THEOREM EntriesKnown == Spec => []Known
<1>1. Init => Known
  BY DEF Init, Known
<1>2. Known /\ [Next]_vars => Known'
  BY KnownStays
<1> QED BY <1>1, <1>2, PTL DEF Spec

\* No argument of an accepted call is lost or bound twice (the four Handle*Arguments).
THEOREM ArgumentsAreBound == Spec => []GivenIsBound
<1>1. Init => GivenIsBound
  BY DEF Init, GivenIsBound
<1>2. Known /\ GivenIsBound /\ [Next]_vars => GivenIsBound'
  <2> SUFFICES ASSUME Known, GivenIsBound, [Next]_vars PROVE GivenIsBound'
    OBVIOUS
  <2>1. CASE UNCHANGED vars
    BY <2>1 DEF vars, GivenIsBound, Sound, KwargsLast, Has, Regular
  <2>2. CASE result' = result /\ result.status = "none"
    BY <2>2 DEF GivenIsBound
  <2> QED BY <2>1, <2>2, OnlyCalls, GivenStep
<1> QED BY <1>1, <1>2, EntriesKnown, PTL DEF Spec

\* A default parameter that is not given has its default, whatever calls came before
\* (GetDefaultParam).
THEOREM DefaultsAreKept == Spec => []DefaultsStay
<1>1. Init => DefaultsStay
  BY DEF Init, DefaultsStay
<1>2. Known /\ DefaultsStay /\ [Next]_vars => DefaultsStay'
  <2> SUFFICES ASSUME Known, DefaultsStay, [Next]_vars PROVE DefaultsStay'
    OBVIOUS
  <2>1. CASE UNCHANGED vars
    BY <2>1 DEF vars, DefaultsStay, KwargsLast, First
  <2>2. CASE result' = result /\ result.status = "none"
    BY <2>2 DEF DefaultsStay
  <2> QED BY <2>1, <2>2, OnlyCalls, DefaultsStep
<1> QED BY <1>1, <1>2, EntriesKnown, PTL DEF Spec

\* A call without keywords leaves no parameter without an object, unless one with keywords
\* has put a null object into default_values_ before.
THEOREM MissingAreRefused == Spec => MissingIsRefused
<1> DEFINE Kept == (result'.status = "ok" /\ KwargsLast /\ ~HasKeywords(call')
                    /\ (\A p \in DOMAIN defaults : defaults[p] # Missing)
                    => \A p \in DOMAIN result'.vars : result'.vars[p] # Missing)
<1>1. Known /\ [Next]_vars => [Kept]_vars
  <2> SUFFICES ASSUME Known, [Next]_vars PROVE Kept \/ UNCHANGED vars
    OBVIOUS
  <2>1. ASSUME NEW items \in Calls, Call(items) PROVE Kept
    <3>1. call' = items
      BY <2>1 DEF Call
    <3> QED BY <2>1, <3>1, MissingStep
  <2> QED BY <2>1, OnlyCalls
<1> QED BY <1>1, EntriesKnown, PTL DEF Spec, MissingIsRefused

\* A call that gives every parameter what it needs, once, is accepted.
THEOREM CompleteCallsAreAccepted == Spec => []CompleteIsAccepted
<1>1. Init => CompleteIsAccepted
  BY DEF Init, CompleteIsAccepted
<1>2. Known /\ CompleteIsAccepted /\ [Next]_vars => CompleteIsAccepted'
  <2> SUFFICES ASSUME Known, CompleteIsAccepted, [Next]_vars PROVE CompleteIsAccepted'
    OBVIOUS
  <2>1. CASE UNCHANGED vars
    BY <2>1 DEF vars, CompleteIsAccepted, Complete, Sound, KwargsLast, Has, Regular
  <2>2. CASE result' = result /\ result.status = "none"
    BY <2>2 DEF CompleteIsAccepted
  <2> QED BY <2>1, <2>2, OnlyCalls, CompleteStep
<1> QED BY <1>1, <1>2, EntriesKnown, PTL DEF Spec
=============================================================================
