--------------------------- MODULE ControlProofs ---------------------------
(***************************************************************************)
(* Proofs about Control, for every program, every depth of the stack and   *)
(* every number of deferred statements: whom a jump reaches, what runs     *)
(* after it, and in what order deferred statements run.                    *)
(***************************************************************************)
EXTENDS Control, WellFoundedInduction, TLAPS

LEMMA GreatestExists ==
  ASSUME NEW n \in Nat, NEW S, S \subseteq 1..n, S # {}
  PROVE  \E g \in S : \A i \in S : i <= g
<1> DEFINE T == {n - i : i \in S}
<1>1. \A i \in S : n - i \in Nat /\ i \in Int
  OBVIOUS
<1>2. T \subseteq Nat /\ T # {}
  BY <1>1, Zenon
<1>3. PICK x \in T : \A y \in T : ~ (<<y, x>> \in OpToRel(<, Nat))
  <2> HIDE DEF T
  <2> QED
    BY <1>2, NatLessThanWellFounded, WFMin
<1>4. \A y \in T : ~(y < x)
  BY <1>2, <1>3 DEF OpToRel
<1>5. PICK i \in S : x = n - i
  BY Zenon
<1>6. \A j \in S : ~(n - j < n - i)
  BY <1>4, <1>5, Zenon
<1>7. \A j \in S : j \in Int
  BY <1>1
<1> HIDE DEF T
<1>8. \A j \in S : j <= i
  BY <1>6, <1>7
<1> QED
  BY <1>8

LEMMA Frames ==
  ASSUME TypeOK
  PROVE  /\ Depth \in Nat \ {0} /\ Top \in FrameType
         /\ \A i \in 1..Depth : ctl[i] \in FrameType
         /\ 1 \in 1..Depth /\ Depth \in 1..Depth
         /\ Depth > 1 <=> Top.role # "root"
<1>1. ctl \in Seq(FrameType) /\ ctl # <<>>
  BY DEF TypeOK
<1>2. Depth \in Nat \ {0} /\ \A i \in 1..Depth : ctl[i] \in FrameType
  BY <1>1 DEF Depth
<1>3. 1 \in 1..Depth /\ Depth \in 1..Depth /\ Top = ctl[Depth]
  BY <1>2 DEF Top
<1>4. ctl[Depth].role = "root" <=> Depth = 1
  BY <1>3 DEF TypeOK
<1>5. Depth > 1 <=> Depth # 1
  BY <1>2
<1>6. Top \in FrameType
  BY <1>2, <1>3
<1>7. Depth > 1 <=> Top.role # "root"
  BY <1>3, <1>4, <1>5
<1> QED
  BY <1>2, <1>3, <1>6, <1>7

LEMMA NewFrame ==
  ASSUME NEW role \in {"list", "if", "try", "switch"} \cup Loops \cup Decls \cup Mains
  PROVE  /\ Frame(role) \in FrameType /\ WellFormed(Frame(role)) /\ InOrder(Frame(role))
         /\ Frame(role).role = role /\ Frame(role).flag = "go"
         /\ Frame(role).phase = "body" /\ Frame(role).saved = "none"
  BY DEF Frame, FrameType, WellFormed, InOrder

-----------------------------------------------------------------------------
(* Whom a jump reaches.                                                    *)

LEMMA MainFacts ==
  ASSUME TypeOK
  PROVE  /\ Main \in 1..Depth
         /\ ctl[Main].role \in Mains
         /\ \A j \in (Main + 1)..Depth : ctl[j].role \notin Mains
<1> DEFINE S == {i \in 1..Depth : ctl[i].role \in Mains}
<1>1. S # {} /\ S \subseteq 1..Depth /\ Depth \in Nat
  BY Frames DEF TypeOK, Mains
<1>2. PICK g \in S : \A i \in S : i <= g
  <2> HIDE DEF S
  <2> QED
    BY <1>1, GreatestExists
<1>3. \A j \in (g + 1)..Depth : ctl[j].role \notin Mains
  BY <1>1, <1>2
<1>4. \E m \in 1..Depth : /\ ctl[m].role \in Mains
                          /\ \A j \in (m + 1)..Depth : ctl[j].role \notin Mains
  BY <1>2, <1>3
<1> QED
  BY <1>4 DEF Main

CallAbove(i) == \E k \in (i + 1)..Depth : ctl[k].role \in {"root", "func"}
AnnotationAbove(i) == \E k \in (i + 1)..Depth : ctl[k].role = "annotation"
LoopAbove(i) == \E k \in (i + 1)..Depth : ctl[k].role \in Loops
WhileAbove(i) ==
  \E k \in (i + 1)..Depth :
    ctl[k].role = "while" /\ \A l \in (k + 1)..Depth : ctl[l].role \notin Loops

Flags == Jumps \cup {"go"}

(* What the recursion of Reaches comes to.                                 *)
Reached(flag) ==
  [i \in 1..Depth |->
     IF CallAbove(i) \/ (flag = "return" /\ AnnotationAbove(i)) THEN "none"
     ELSE IF flag \in {"return", "go"} \/ ~LoopAbove(i) THEN flag
     ELSE IF WhileAbove(i) THEN "go" ELSE "none"]

LEMMA ReachedStep ==
  ASSUME TypeOK, NEW flag \in Flags, NEW i \in 1..Depth
  PROVE  Reached(flag)[i] =
           IF i = Depth THEN flag ELSE Passed(ctl[i + 1].role, Reached(flag)[i + 1])
<1>1. Depth \in Nat
  BY Frames
<1>2. CASE i = Depth
  <2>1. ~CallAbove(i) /\ ~LoopAbove(i) /\ ~AnnotationAbove(i)
    BY <1>1, <1>2 DEF CallAbove, LoopAbove, AnnotationAbove
  <2> QED
    BY <1>2, <2>1 DEF Reached
<1>3. CASE i # Depth
  <2> DEFINE r == ctl[i + 1].role
  <2>1. i + 1 \in 1..Depth /\ (i + 1)..Depth = {i + 1} \cup ((i + 1) + 1)..Depth
        /\ i + 1 \notin ((i + 1) + 1)..Depth
    BY <1>1, <1>3
  <2>2. CallAbove(i) <=> r \in {"root", "func"} \/ CallAbove(i + 1)
    BY <2>1 DEF CallAbove
  <2>3. LoopAbove(i) <=> r \in Loops \/ LoopAbove(i + 1)
    BY <2>1 DEF LoopAbove
  <2>4. WhileAbove(i) <=> (r = "while" /\ ~LoopAbove(i + 1)) \/ WhileAbove(i + 1)
    BY <2>1 DEF WhileAbove, LoopAbove
  <2>5. WhileAbove(i + 1) => LoopAbove(i + 1)
    BY DEF WhileAbove, LoopAbove, Loops
  <2>6. AnnotationAbove(i) <=> r = "annotation" \/ AnnotationAbove(i + 1)
    BY <2>1 DEF AnnotationAbove
  <2>7. Reached(flag)[i + 1] =
          IF CallAbove(i + 1) \/ (flag = "return" /\ AnnotationAbove(i + 1)) THEN "none"
          ELSE IF flag \in {"return", "go"} \/ ~LoopAbove(i + 1) THEN flag
          ELSE IF WhileAbove(i + 1) THEN "go" ELSE "none"
    BY <2>1 DEF Reached
  <2>8. Reached(flag)[i] =
          IF CallAbove(i) \/ (flag = "return" /\ AnnotationAbove(i)) THEN "none"
          ELSE IF flag \in {"return", "go"} \/ ~LoopAbove(i) THEN flag
          ELSE IF WhileAbove(i) THEN "go" ELSE "none"
    BY DEF Reached
  <2>9. Reached(flag)[i] = Passed(r, Reached(flag)[i + 1])
    <3> HIDE DEF r
    <3>1. CASE flag \in {"return", "go"}
      BY <2>2, <2>6, <2>7, <2>8, <3>1 DEF Passed, Loops
    <3>2. CASE flag \in {"break", "continue"}
      BY <2>2, <2>3, <2>4, <2>5, <2>7, <2>8, <3>2 DEF Passed, Loops
    <3> QED
      BY <3>1, <3>2 DEF Flags, Jumps
  <2> QED
    BY <1>3, <2>9
<1> QED
  BY <1>2, <1>3

LEMMA ReachesIsReached ==
  ASSUME TypeOK, NEW flag \in Flags
  PROVE  Reaches(flag) = Reached(flag)
<1> DEFINE Step(at) ==
             [i \in 1..Depth |->
                IF i = Depth THEN flag ELSE Passed(ctl[i + 1].role, at[i + 1])]
           at == Reaches(flag)
           S == {i \in 1..Depth : at[i] # Reached(flag)[i]}
<1>1. Reached(flag) = Step(Reached(flag))
  BY ReachedStep DEF Reached
<1>2. at = CHOOSE f : f = Step(f)
  BY DEF Reaches
<1>3. at = Step(at)
  <2> HIDE DEF Step, at
  <2> QED
    BY <1>1, <1>2
<1>4. \A i \in 1..Depth : at[i] = IF i = Depth THEN flag ELSE Passed(ctl[i + 1].role, at[i + 1])
  <2> HIDE DEF at
  <2> QED
    BY <1>3
<1> HIDE DEF at
<1>5. S = {}
  <2> SUFFICES ASSUME S # {} PROVE FALSE
    OBVIOUS
  <2>1. S \subseteq 1..Depth /\ Depth \in Nat
    BY Frames
  <2>2. PICK g \in S : \A i \in S : i <= g
    <3> HIDE DEF S
    <3> QED
      BY <2>1, GreatestExists
  <2>3. CASE g = Depth
    BY <1>4, <2>3, ReachedStep
  <2>4. CASE g # Depth
    <3>1. g + 1 \in 1..Depth /\ ~(g + 1 <= g)
      BY <2>1, <2>4
    <3>2. at[g + 1] = Reached(flag)[g + 1]
      BY <2>2, <3>1
    <3> QED
      BY <1>4, <2>4, <3>2, ReachedStep
  <2> QED
    BY <2>3, <2>4
<1>6. DOMAIN at = 1..Depth /\ at = [i \in 1..Depth |-> at[i]]
  BY <1>3
<1>7. \A i \in 1..Depth : at[i] = Reached(flag)[i]
  BY <1>5
<1> QED
  BY <1>6, <1>7 DEF Reached, at

(* What a flag does to the frames: those it reaches and that store one have *)
(* it, or are told to go on.                                               *)
SameShape(s) ==
  \A i \in 1..Depth : /\ s[i].role = ctl[i].role /\ s[i].phase = ctl[i].phase
                      /\ s[i].saved = ctl[i].saved

Untouched(s, flag, i) ==
  /\ \/ s[i] = ctl[i]
     \/ /\ Stores(i) /\ ~CallAbove(i)
        /\ \E f \in {flag, "go"} : s[i] = [ctl[i] EXCEPT !.flag = f]
  /\ flag = "return" /\ AnnotationAbove(i) => s[i] = ctl[i]

Told(s, flag, i) ==
  Stores(i) /\ ~CallAbove(i) =>
    /\ flag = "go" => s[i].flag = "go"
    /\ flag = "return" /\ ~AnnotationAbove(i) => s[i].flag = "return"
    /\ flag \in {"break", "continue"} =>
         IF LoopAbove(i) THEN s[i].flag \in {ctl[i].flag, "go"} ELSE s[i].flag = flag

LEMMA StopEffect ==
  ASSUME TypeOK, NEW flag \in Flags, NEW s, s = SetStop(flag)
  PROVE  /\ s \in Seq(FrameType) /\ Len(s) = Depth /\ SameShape(s)
         /\ \A i \in 1..Depth : Untouched(s, flag, i) /\ Told(s, flag, i)
<1> DEFINE at == Reached(flag)
<1>1. Depth \in Nat \ {0} /\ \A i \in 1..Depth : ctl[i] \in FrameType
  BY Frames
<1>2. \A i \in 1..Depth : at[i] \in {"none", "go", flag}
  BY DEF Reached
<1>3. \A i \in 1..Depth :
        at[i] = IF CallAbove(i) \/ (flag = "return" /\ AnnotationAbove(i)) THEN "none"
                ELSE IF flag \in {"return", "go"} \/ ~LoopAbove(i) THEN flag
                ELSE IF WhileAbove(i) THEN "go" ELSE "none"
  BY DEF Reached
<1>4. s = [i \in 1..Depth |->
             IF ctl[i].role \in {"list"} \cup Loops /\ at[i] # "none"
             THEN [ctl[i] EXCEPT !.flag = at[i]] ELSE ctl[i]]
  BY ReachesIsReached DEF SetStop
<1> HIDE DEF at
<1>5. \A i \in 1..Depth : s[i] = IF Stores(i) /\ at[i] # "none"
                                 THEN [ctl[i] EXCEPT !.flag = at[i]] ELSE ctl[i]
  BY <1>4 DEF Stores
<1>6. \A i \in 1..Depth : s[i] \in FrameType
  <2> TAKE i \in 1..Depth
  <2>1. CASE Stores(i) /\ at[i] # "none"
    <3>1. at[i] \in {"go"} \cup Jumps
      BY <1>2, <2>1 DEF Flags
    <3> QED
      BY ZenonT(30), <1>1, <1>5, <2>1, <3>1 DEF FrameType
  <2>2. CASE ~(Stores(i) /\ at[i] # "none")
    BY <1>1, <1>5, <2>2
  <2> QED
    BY <2>1, <2>2
<1>7. s \in Seq(FrameType) /\ Len(s) = Depth
  <2>1. DOMAIN s = 1..Depth /\ s = [i \in 1..Depth |-> s[i]]
    BY <1>4
  <2>2. s \in [1..Depth -> FrameType]
    BY <1>6, <2>1
  <2>3. s \in Seq(FrameType)
    BY <1>1, <2>2
  <2>4. Len(s) \in Nat /\ DOMAIN s = 1..Len(s)
    BY <2>3
  <2> QED
    BY <1>1, <2>1, <2>3, <2>4
<1>8. ASSUME NEW i \in 1..Depth
      PROVE  /\ s[i].role = ctl[i].role /\ s[i].phase = ctl[i].phase
             /\ s[i].saved = ctl[i].saved
             /\ Stores(i) /\ at[i] # "none" => s[i].flag = at[i]
             /\ ~(Stores(i) /\ at[i] # "none") => s[i] = ctl[i]
  BY <1>1, <1>5 DEF FrameType
<1>9. ASSUME NEW i \in 1..Depth
      PROVE  Untouched(s, flag, i)
  BY <1>2, <1>3, <1>5 DEF Untouched
<1>10. ASSUME NEW i \in 1..Depth, Stores(i), ~CallAbove(i)
       PROVE  /\ flag = "go" => s[i].flag = "go"
              /\ flag = "return" /\ ~AnnotationAbove(i) => s[i].flag = "return"
              /\ flag \in {"break", "continue"} =>
                   IF LoopAbove(i) THEN s[i].flag \in {ctl[i].flag, "go"}
                   ELSE s[i].flag = flag
  <2>1. CASE flag \in {"return", "go"}
    BY <1>3, <1>8, <1>10, <2>1
  <2>2. CASE flag \in {"break", "continue"}
    BY <1>3, <1>8, <1>10, <2>2
  <2> QED
    BY <2>1, <2>2 DEF Flags, Jumps
<1> QED
  BY <1>7, <1>8, <1>9, <1>10 DEF SameShape, Told

(* A jump does that and no more.                                           *)
LEMMA JumpEffect ==
  ASSUME TypeOK, NEW kind \in Jumps, Jump(kind)
  PROVE  \E s : /\ s = SetStop(kind) /\ ctl' = s /\ Depth' = Depth
                /\ exc = "none" /\ exc' = "none" /\ Top.role = "list" /\ Top.flag = "go"
                /\ s \in Seq(FrameType)
<1>1. PICK s : s = SetStop(kind)
  OBVIOUS
<1>2. s \in Seq(FrameType) /\ Len(s) = Depth
  BY <1>1, StopEffect DEF Flags
<1>3. ctl' = s /\ exc = "none" /\ exc' = "none" /\ Top.role = "list" /\ Top.flag = "go"
  BY <1>1 DEF Jump, AtStmt
<1>4. Depth' = Depth
  BY <1>2, <1>3 DEF Depth
<1> QED
  BY <1>1, <1>2, <1>3, <1>4

-----------------------------------------------------------------------------
(* The other steps change the top of the stack in one of four ways.        *)

Same(n) == \A i \in 1..n : ctl'[i] = ctl[i]

Popped ==
  /\ ctl' \in Seq(FrameType) /\ Depth > 1 /\ Depth' = Depth - 1
  /\ Same(Depth - 1)

Replaced(g) ==
  /\ ctl' \in Seq(FrameType) /\ Depth' = Depth
  /\ Same(Depth - 1) /\ ctl'[Depth] = g

(* The top frame becomes g, and f is pushed on it.                         *)
Grown(g, f) ==
  /\ ctl' \in Seq(FrameType) /\ Depth' = Depth + 1
  /\ Same(Depth - 1) /\ ctl'[Depth] = g /\ ctl'[Depth + 1] = f

Begun(f) ==
  /\ ctl' \in Seq(FrameType) /\ Depth' = Depth + 2
  /\ Same(Depth) /\ ctl'[Depth + 1] = f /\ ctl'[Depth + 2] = List

LEMMA BelowIsPopped ==
  ASSUME TypeOK, ctl' = Below, Top.role # "root"
  PROVE  Popped
<1>1. Depth \in Nat /\ Depth > 1 /\ ctl \in Seq(FrameType)
  BY Frames DEF TypeOK
<1> DEFINE n == Len(ctl) - 1
<1>2. n \in Nat /\ n <= Len(ctl) /\ ctl' = SubSeq(ctl, 1, n)
  BY <1>1 DEF Below, Depth
<1> HIDE DEF n
<1>3. /\ ctl' \in Seq(FrameType) /\ Len(ctl') = n
      /\ \A i \in 1..n : ctl'[i] = ctl[i]
  BY <1>1, <1>2
<1> QED
  BY <1>1, <1>3 DEF Popped, Same, Depth, n

LEMMA TopIsReplaced ==
  ASSUME TypeOK, NEW g \in FrameType, ctl' = ReplaceTop(g)
  PROVE  Replaced(g)
<1>1. Len(ctl) \in Nat \ {0} /\ ctl \in Seq(FrameType) /\ Depth = Len(ctl)
  BY Frames DEF TypeOK, Depth
<1>2. ctl' = [ctl EXCEPT ![Len(ctl)] = g]
  BY DEF ReplaceTop, Depth
<1>3. /\ ctl' \in Seq(FrameType) /\ Len(ctl') = Len(ctl) /\ ctl'[Len(ctl)] = g
      /\ \A i \in 1..(Len(ctl) - 1) : ctl'[i] = ctl[i]
  BY <1>1, <1>2
<1> QED
  BY <1>1, <1>3 DEF Replaced, Same, Depth

LEMMA StackIsGrown ==
  ASSUME TypeOK, NEW g \in FrameType, NEW f \in FrameType,
         ctl' = Append(ReplaceTop(g), f)
  PROVE  Grown(g, f)
<1>1. Len(ctl) \in Nat \ {0} /\ ctl \in Seq(FrameType) /\ Depth = Len(ctl)
  BY Frames DEF TypeOK, Depth
<1> DEFINE r == [ctl EXCEPT ![Len(ctl)] = g]
<1>2. ctl' = Append(r, f)
  BY DEF ReplaceTop, Depth
<1>3. /\ r \in Seq(FrameType) /\ Len(r) = Len(ctl) /\ r[Len(ctl)] = g
      /\ \A i \in 1..(Len(ctl) - 1) : r[i] = ctl[i]
  BY <1>1
<1> HIDE DEF r
<1>4. /\ ctl' \in Seq(FrameType) /\ Len(ctl') = Len(ctl) + 1 /\ ctl'[Len(ctl) + 1] = f
      /\ \A i \in 1..Len(ctl) : ctl'[i] = r[i]
  BY <1>1, <1>2, <1>3
<1>5. /\ ctl'[Len(ctl)] = g
      /\ \A i \in 1..(Len(ctl) - 1) : ctl'[i] = ctl[i]
  BY <1>1, <1>3, <1>4
<1> QED
  BY <1>1, <1>4, <1>5 DEF Grown, Same, Depth

LEMMA StackIsGrownOn ==
  ASSUME TypeOK, NEW f \in FrameType, ctl' = Append(ctl, f)
  PROVE  Grown(Top, f)
<1>1. Len(ctl) \in Nat \ {0} /\ ctl \in Seq(FrameType) /\ Depth = Len(ctl)
      /\ Top = ctl[Len(ctl)]
  BY Frames DEF TypeOK, Depth, Top
<1>2. /\ ctl' \in Seq(FrameType) /\ Len(ctl') = Len(ctl) + 1 /\ ctl'[Len(ctl) + 1] = f
      /\ \A i \in 1..Len(ctl) : ctl'[i] = ctl[i]
  BY <1>1
<1> QED
  BY <1>1, <1>2 DEF Grown, Same, Depth

LEMMA StackIsBegun ==
  ASSUME TypeOK, NEW f \in FrameType, ctl' = ctl \o <<f, List>>
  PROVE  Begun(f)
<1>1. Len(ctl) \in Nat \ {0} /\ ctl \in Seq(FrameType) /\ Depth = Len(ctl)
  BY Frames DEF TypeOK, Depth
<1> DEFINE l == List
<1>2. l \in FrameType
  BY NewFrame DEF List
<1>3. ctl' = ctl \o <<f, l>>
  OBVIOUS
<1> HIDE DEF l
<1>4. /\ ctl' \in Seq(FrameType) /\ Len(ctl') = Len(ctl) + 2
      /\ ctl'[Len(ctl) + 1] = f /\ ctl'[Len(ctl) + 2] = l
      /\ \A i \in 1..Len(ctl) : ctl'[i] = ctl[i]
  BY <1>1, <1>2, <1>3
<1> QED
  BY <1>1, <1>4 DEF Begun, Same, Depth, l

Thrown == {"object", "error"}

(* What can start a statement now: a class has no decorator on it.         *)
Resumes == Live(Depth) \/ Top.role = "class"

(* A statement or a head fails: something live throws.                     *)
Fails ==
  UNCHANGED ctl /\ exc = "none" /\ exc' \in Thrown /\ MayFail /\ Resumes

(* A frame is left, normally or by an exception, or it goes on with the    *)
(* exception it saved.                                                     *)
Leaves ==
  /\ Popped
  /\ \/ exc = "none" /\ exc' = "none"
     \/ exc \in Thrown /\ exc' \in Thrown /\ Top.role \notin {"func", "decorator"}
     \/ exc = "none" /\ exc' \in Thrown /\ Live(Depth) /\ Top.saved # "none"
  /\ Top.role \in Mains => Top.phase = "leaving" /\ Top.defers = <<>>
  /\ exc' = "none" /\ Top.role = "decorator" => ctl[Depth - 1].role # "class"

(* A decorator of a class returns: what it told to return is to go on.     *)
Restarts ==
  /\ exc = "none" /\ exc' = "none" /\ Top.role = "decorator" /\ Depth > 1
  /\ Top.phase = "leaving" /\ Top.defers = <<>> /\ ctl[Depth - 1].role = "class"
  /\ ctl' \in Seq(FrameType) /\ Depth' = Depth - 1
  /\ \E s : s = SetStop("go") /\ \A i \in 1..(Depth - 1) : ctl'[i] = s[i]

(* A list opens a block of two frames, a declaration calls a decorator.    *)
Begins ==
  /\ exc = "none" /\ exc' = "none" /\ Resumes
  /\ \E f \in FrameType :
       /\ Begun(f) /\ WellFormed(f) /\ InOrder(f)
       /\ \/ Top.role = "list" /\ f.role \in {"if", "func", "try"}
          \/ Top.role \in Decls /\ f.role = "decorator"
       /\ f.flag = "go" /\ f.saved = "none" /\ f.phase = "body"

(* A list opens a loop, a switch or a declaration; a loop or a switch runs *)
(* a list, an annotation a class.                                          *)
OpensWith(ph, role) ==
  /\ ph \in {Top.phase, "case", "default"}
  /\ role \in {"list", "switch"} \cup Loops \cup Decls
  /\ ph # Top.phase => Top.role = "switch"
  /\ \/ Top.role \in {"list", "switch"} \cup Loops
     \/ Top.role = "annotation" /\ role = "class"
  /\ role \in Decls => Top.role = "annotation" \/ (Top.role = "list" /\ ~InQuiet)
  /\ Grown([Top EXCEPT !.phase = ph], Frame(role))

Opens ==
  /\ exc = "none" /\ exc' = "none" /\ Live(Depth)
  /\ \E ph, role : OpensWith(ph, role)

(* A try goes on with a catch or with its finally clause.                  *)
Handles ==
  /\ Top.role = "try" /\ exc' = "none"
  /\ \/ /\ Top.phase = "body" /\ exc \in Thrown
        /\ Grown([Top EXCEPT !.phase = "catch"], List)
     \/ /\ Top.phase # "finally" /\ exc \in {"none"} \cup Thrown
        /\ Grown([Top EXCEPT !.phase = "finally", !.saved = exc], List)

(* A body is left, and its deferred statements start and end.              *)
BodyLeft ==
  /\ Top.role \in Mains /\ Top.phase = "body"
  /\ exc \in {"none"} \cup Thrown /\ exc' = "none"
  /\ Replaced([Top EXCEPT !.phase = "leaving", !.saved = exc])
DeferredStarts ==
  /\ Top.role \in Mains /\ Top.phase = "leaving" /\ Top.defers # <<>>
  /\ exc = "none" /\ exc' = "none"
  /\ Grown([Top EXCEPT !.phase = "deferred", !.cur = Top.defers[Len(Top.defers)]], List)
DeferredIsOver ==
  /\ Top.role \in Mains /\ Top.phase = "deferred"
  /\ exc = "none" /\ exc' = "none"
  /\ Replaced([Top EXCEPT !.phase = "leaving",
                          !.defers = SubSeq(Top.defers, 1, Len(Top.defers) - 1)])

LEMMA SameProgram == [Next]_vars => Quiet' = Quiet
  BY DEF Next, vars, Quiet

LEMMA StepCases ==
  ASSUME TypeOK, [Next]_vars
  PROVE  \/ \E kind \in Jumps : Jump(kind)
         \/ Defer
         \/ Fails \/ Leaves \/ Restarts \/ Begins \/ Opens \/ Handles
         \/ BodyLeft \/ DeferredStarts \/ DeferredIsOver
         \/ UNCHANGED ctl /\ exc' \in {exc, "terminate"}
<1> DEFINE Goal == \/ \E kind \in Jumps : Jump(kind)
                   \/ Defer
                   \/ Fails \/ Leaves \/ Restarts \/ Begins \/ Opens \/ Handles
                   \/ BodyLeft \/ DeferredStarts \/ DeferredIsOver
                   \/ UNCHANGED ctl /\ exc' \in {exc, "terminate"}
<1>1. /\ Depth \in Nat \ {0} /\ Top \in FrameType /\ Top = ctl[Depth] /\ WellFormed(Top)
      /\ exc \in {"none", "object", "error", "terminate"}
      /\ List = Frame("list") /\ List \in FrameType
  BY Frames, NewFrame DEF TypeOK, Top, List
<1>2. ASSUME NEW kind \in Stmts, Jump(kind) \/ Throw(kind) \/ OpenHead(kind) PROVE Goal
  <2>1. CASE Jump(kind)
    BY <2>1 DEF Jump
  <2>2. CASE Throw(kind)
    <3>1. Fails
      BY <1>1, <2>2 DEF Throw, AtStmt, Fails, Resumes, Live, Thrown
    <3> QED
      BY <3>1
  <2>3. CASE OpenHead(kind)
    <3>1. /\ kind \in Loops \cup Decls \cup {"switch"} /\ ctl' = Append(ctl, Frame(kind))
          /\ exc = "none" /\ exc' = "none" /\ Top.role = "list" /\ Top.flag = "go"
          /\ kind \in Decls => ~InQuiet
      BY <2>3 DEF OpenHead, AtStmt
    <3>2. Grown(Top, Frame(kind))
      BY <3>1, NewFrame, StackIsGrownOn
    <3>3. [Top EXCEPT !.phase = Top.phase] = Top
      BY <1>1 DEF FrameType
    <3>4. OpensWith(Top.phase, kind)
      BY <3>1, <3>2, <3>3 DEF OpensWith
    <3>5. Opens
      BY <1>1, <3>1, <3>4 DEF Opens, Live
    <3> QED
      BY <3>5
  <2> QED
    BY <1>2, <2>1, <2>2, <2>3
<1>3. ASSUME If \/ Call \/ Try PROVE Goal
  <2>1. PICK f \in FrameType : /\ ctl' = ctl \o <<f, List>> /\ WellFormed(f) /\ InOrder(f)
                              /\ f.role \in {"if", "func", "try"} /\ f.flag = "go"
                              /\ f.saved = "none" /\ f.phase = "body"
    <3>1. CASE If
      BY <3>1, NewFrame DEF If, OpenBlock
    <3>2. CASE Call
      BY <3>2, NewFrame DEF Call, OpenBlock, Mains
    <3>3. CASE Try
      <4>1. PICK b \in BOOLEAN : ctl' = ctl \o <<[Frame("try") EXCEPT !.finally = b], List>>
        BY <3>3 DEF Try, OpenBlock
      <4> DEFINE f == [Frame("try") EXCEPT !.finally = b]
      <4>2. /\ f \in FrameType /\ f.role = "try" /\ f.flag = "go" /\ f.phase = "body"
            /\ f.saved = "none" /\ f.cur = 0 /\ f.made = 0 /\ f.defers = <<>>
        <5>1. Frame("try") \in FrameType
          BY NewFrame
        <5>2. f \in FrameType
          BY <5>1 DEF FrameType
        <5> QED
          BY <5>2 DEF Frame
      <4> HIDE DEF f
      <4>3. WellFormed(f) /\ InOrder(f)
        BY <4>2 DEF WellFormed, InOrder
      <4> QED
        BY <4>1, <4>2, <4>3 DEF f
    <3> QED
      BY <1>3, <3>1, <3>2, <3>3
  <2>2. exc = "none" /\ exc' = "none" /\ Top.role = "list" /\ Top.flag = "go"
    BY <1>3 DEF If, Call, Try, OpenBlock, AtStmt
  <2>3. Begins
    BY <1>1, <2>1, <2>2, StackIsBegun DEF Begins, Resumes, Live
  <2> QED
    BY <2>3
<1>4. ASSUME EndList \/ LoopEnds \/ SwitchEnds \/ DeclEnds PROVE Goal
  <2>1. exc = "none" /\ exc' = "none" /\ ctl' = Below /\ Top.role \notin Mains
    BY <1>4 DEF EndList, LoopEnds, SwitchEnds, DeclEnds, Loops, Decls, Mains
  <2>2. Leaves
    BY <2>1, BelowIsPopped DEF Leaves, Mains
  <2> QED
    BY <2>2
<1>5. ASSUME HeadFails PROVE Goal
  <2>1. Fails
    BY <1>1, <1>5 DEF HeadFails, Fails, Resumes, Live, Thrown, Decls
  <2> QED
    BY <2>1
<1>6. ASSUME LoopIterates PROVE Goal
  <2>1. exc = "none" /\ exc' = "none" /\ Top.role \in Loops /\ Top.flag \in {"go", "continue"}
        /\ ctl' = Append(ctl, List)
    BY <1>1, <1>6 DEF LoopIterates, FrameType, Jumps
  <2>2. Grown(Top, List)
    BY <1>1, <2>1, StackIsGrownOn
  <2>3. [Top EXCEPT !.phase = Top.phase] = Top
    BY <1>1 DEF FrameType
  <2>4. OpensWith(Top.phase, "list")
    BY <1>1, <2>1, <2>2, <2>3 DEF OpensWith, Decls
  <2>5. Opens
    BY <1>1, <2>1, <2>4 DEF Opens, Live
  <2> QED
    BY <2>5
<1>7. ASSUME SwitchCase PROVE Goal
  <2>1. PICK ph \in {"case", "default"} :
          ctl' = Append(ReplaceTop([Top EXCEPT !.phase = ph]), List)
    BY <1>7 DEF SwitchCase
  <2>2. [Top EXCEPT !.phase = ph] \in FrameType
    BY <1>1 DEF FrameType
  <2>3. Grown([Top EXCEPT !.phase = ph], List)
    BY <1>1, <2>1, <2>2, StackIsGrown
  <2>4. exc = "none" /\ exc' = "none" /\ Top.role = "switch"
    BY <1>7 DEF SwitchCase
  <2>5. OpensWith(ph, "list")
    BY <1>1, <2>3, <2>4 DEF OpensWith, Decls
  <2>6. Opens
    BY <1>1, <2>4, <2>5 DEF Opens, Live
  <2> QED
    BY <2>6
<1>8. ASSUME Catch PROVE Goal
  <2>1. [Top EXCEPT !.phase = "catch"] \in FrameType
    BY <1>1 DEF FrameType
  <2>2. Grown([Top EXCEPT !.phase = "catch"], List)
    BY <1>1, <1>8, <2>1, StackIsGrown DEF Catch
  <2>3. Handles
    BY <1>8, <2>2 DEF Handles, Catch, Thrown
  <2> QED
    BY <2>3
<1>9. ASSUME RunFinally(exc), Top.role = "try", Top.phase # "finally",
             exc \in {"none"} \cup Thrown
      PROVE  Goal
  <2>0. exc \in {"none", "object", "error"}
    BY <1>9 DEF Thrown
  <2>1. [Top EXCEPT !.phase = "finally", !.saved = exc] \in FrameType
    BY ZenonT(30), <1>1, <2>0 DEF FrameType
  <2>2. Grown([Top EXCEPT !.phase = "finally", !.saved = exc], List)
    BY <1>1, <1>9, <2>1, StackIsGrown DEF RunFinally
  <2>3. Handles
    BY <1>9, <2>2 DEF Handles, RunFinally
  <2> QED
    BY <2>3
<1>10. ASSUME CatchFails \/ NoCatch PROVE Goal
  <2>1. CASE NoCatch /\ Top.finally
    BY <1>9, <2>1 DEF NoCatch, Thrown
  <2>2. CASE CatchFails \/ ~Top.finally
    <3>1. exc \in Thrown /\ exc' \in Thrown /\ ctl' = Below /\ Top.role = "try"
      BY <1>10, <2>2 DEF CatchFails, NoCatch, Thrown
    <3>2. Leaves
      BY <3>1, BelowIsPopped DEF Leaves, Mains, Thrown
    <3> QED
      BY <3>2
  <2> QED
    BY <1>10, <2>1, <2>2
<1>11. ASSUME TryEnds PROVE Goal
  <2>1. CASE Top.finally /\ Top.phase # "finally"
    BY <1>9, <1>11, <2>1 DEF TryEnds
  <2>2. CASE ~(Top.finally /\ Top.phase # "finally")
    <3>1. exc = "none" /\ exc' = Top.saved /\ ctl' = Below /\ Top.role = "try"
      BY <1>11, <2>2 DEF TryEnds
    <3>2. Top.saved \in {"none"} \cup Thrown
      BY <1>1 DEF FrameType, Thrown
    <3>3. Leaves
      BY <1>1, <3>1, <3>2, BelowIsPopped DEF Leaves, Live, Mains, Thrown
    <3> QED
      BY <3>3
  <2> QED
    BY <2>1, <2>2
<1>12. ASSUME Unwind \/ DeclFails PROVE Goal
  <2>1. exc \in Thrown /\ exc' \in Thrown /\ ctl' = Below /\ Top.role \notin Mains
    BY <1>12 DEF Unwind, DeclFails, Thrown, Loops, Decls, Mains
  <2>2. Leaves
    BY <2>1, BelowIsPopped DEF Leaves, Mains, Thrown
  <2> QED
    BY <2>2
<1>13. ASSUME BodyEnds PROVE Goal
  <2>1. [Top EXCEPT !.phase = "leaving", !.saved = exc] \in FrameType
    BY <1>1, <1>13 DEF FrameType, BodyEnds
  <2>2. Replaced([Top EXCEPT !.phase = "leaving", !.saved = exc])
    BY <1>13, <2>1, TopIsReplaced DEF BodyEnds
  <2>3. BodyLeft
    BY <1>1, <1>13, <2>2 DEF BodyLeft, BodyEnds, Thrown
  <2> QED
    BY <2>3
<1>14. ASSUME RunDeferred PROVE Goal
  <2>1. Top.defers[Len(Top.defers)] \in Nat
    BY SMTT(30), <1>1, <1>14 DEF RunDeferred, FrameType
  <2>2. [Top EXCEPT !.phase = "deferred", !.cur = Top.defers[Len(Top.defers)]] \in FrameType
    BY <1>1, <2>1 DEF FrameType
  <2>3. Grown([Top EXCEPT !.phase = "deferred", !.cur = Top.defers[Len(Top.defers)]], List)
    BY <1>1, <1>14, <2>2, StackIsGrown DEF RunDeferred
  <2>4. DeferredStarts
    BY <1>14, <2>3 DEF DeferredStarts, RunDeferred
  <2> QED
    BY <2>4
<1>15. ASSUME DeferredEnds PROVE Goal
  <2> DEFINE d == SubSeq(Top.defers, 1, Len(Top.defers) - 1)
  <2>1. d \in Seq(Nat)
    <3>1. Top.defers \in Seq(Nat)
      BY <1>1 DEF FrameType
    <3> QED
      BY <3>1
  <2> HIDE DEF d
  <2>2. [Top EXCEPT !.phase = "leaving", !.defers = d] \in FrameType
    BY <1>1, <2>1 DEF FrameType
  <2>3. ctl' = ReplaceTop([Top EXCEPT !.phase = "leaving", !.defers = d])
    BY <1>15 DEF DeferredEnds, d
  <2>4. Replaced([Top EXCEPT !.phase = "leaving", !.defers = d])
    BY <2>2, <2>3, TopIsReplaced
  <2>5. DeferredIsOver
    BY <1>15, <2>4 DEF DeferredIsOver, DeferredEnds, d
  <2> QED
    BY <2>5
<1>16. ASSUME DeferredThrows \/ Over \/ UNCHANGED vars PROVE Goal
  BY <1>16 DEF DeferredThrows, Over, vars
<1>17. ASSUME Returns PROVE Goal
  <2>1. exc = "none" /\ ctl' = Below /\ Top.role = "func" /\ Top.phase = "leaving"
        /\ Top.defers = <<>> /\ exc' = IF Top.saved = "object" THEN "error" ELSE Top.saved
    BY <1>17 DEF Returns
  <2>2. Top.saved \in {"none"} \cup Thrown
    BY <1>1 DEF FrameType, Thrown
  <2>3. Leaves
    BY <1>1, <2>1, <2>2, BelowIsPopped DEF Leaves, Live, Thrown
  <2> QED
    BY <2>3
<1>18. ASSUME Defer PROVE Goal
  BY <1>18
<1>20. ASSUME AnnotatedClass PROVE Goal
  <2>1. exc = "none" /\ exc' = "none" /\ Top.role = "annotation" /\ ctl' = Append(ctl, Frame("class"))
    BY <1>20 DEF AnnotatedClass
  <2>2. "class" \in Decls
    BY DEF Decls
  <2>3. Grown(Top, Frame("class"))
    BY <2>1, <2>2, NewFrame, StackIsGrownOn
  <2>4. [Top EXCEPT !.phase = Top.phase] = Top
    BY <1>1 DEF FrameType
  <2>5. OpensWith(Top.phase, "class")
    BY <1>1, <2>1, <2>2, <2>3, <2>4 DEF OpensWith
  <2>6. Opens
    BY <1>1, <2>1, <2>5 DEF Opens, Live
  <2> QED
    BY <2>6
<1>21. ASSUME Decorate PROVE Goal
  <2>1. exc = "none" /\ exc' = "none" /\ Top.role \in Decls
        /\ ctl' = ctl \o <<Frame("decorator"), List>>
    BY <1>21 DEF Decorate
  <2> DEFINE f == Frame("decorator")
  <2>2. /\ f \in FrameType /\ WellFormed(f) /\ InOrder(f) /\ f.role = "decorator"
        /\ f.flag = "go" /\ f.phase = "body" /\ f.saved = "none"
    BY NewFrame DEF Mains
  <2> HIDE DEF f
  <2>3. Begun(f)
    BY <2>1, <2>2, StackIsBegun DEF f
  <2>4. Resumes
    BY <1>1, <2>1 DEF Resumes, Live, Decls
  <2>5. Begins
    BY <2>1, <2>2, <2>3, <2>4 DEF Begins
  <2> QED
    BY <2>5
<1>22. ASSUME DecoratorReturns PROVE Goal
  <2>1. exc = "none" /\ Top.role = "decorator" /\ Top.phase = "leaving" /\ Top.defers = <<>>
        /\ exc' = Top.saved
    BY <1>22 DEF DecoratorReturns
  <2>2. Top.saved \in {"none"} \cup Thrown
    BY <1>1 DEF FrameType, Thrown
  <2>3. CASE ctl[Depth - 1].role = "class" /\ Top.saved = "none"
    <3>1. PICK s : s = SetStop("go")
      OBVIOUS
    <3>2. s \in Seq(FrameType) /\ Len(s) = Depth
      BY <3>1, StopEffect DEF Flags
    <3>3. ctl' = SubSeq(s, 1, Depth - 1)
      BY <1>22, <2>3, <3>1 DEF DecoratorReturns
    <3>4. Depth > 1
      BY <2>1, Frames
    <3> DEFINE n == Depth - 1
    <3>5. n \in Nat /\ n <= Len(s)
      BY <1>1, <3>2, <3>4
    <3> HIDE DEF n
    <3>6. ctl' \in Seq(FrameType) /\ Len(ctl') = n /\ \A i \in 1..n : ctl'[i] = s[i]
      BY <3>2, <3>3, <3>5 DEF n
    <3>7. Depth' = Depth - 1
      BY <3>6 DEF Depth, n
    <3>8. Restarts
      BY <2>1, <2>3, <3>1, <3>4, <3>6, <3>7 DEF Restarts, n
    <3> QED
      BY <3>8
  <2>4. CASE ~(ctl[Depth - 1].role = "class" /\ Top.saved = "none")
    <3>1. ctl' = Below
      BY <1>22, <2>4 DEF DecoratorReturns
    <3>2. Popped
      BY <2>1, <3>1, BelowIsPopped
    <3>3. Top.saved # "none" => Live(Depth)
      BY <1>1, <2>1 DEF Live
    <3>4. Leaves
      BY <2>1, <2>2, <2>4, <3>2, <3>3 DEF Leaves, Thrown
    <3> QED
      BY <3>4
  <2> QED
    BY <2>3, <2>4
<1> HIDE DEF Goal
<1>19. Goal
  BY <1>18, <1>2, <1>3, <1>4, <1>5, <1>6, <1>7, <1>8, <1>10, <1>11, <1>12, <1>13, <1>14, <1>15,
     <1>16, <1>17, <1>20, <1>21, <1>22 DEF Next, Execute
<1> QED
  BY <1>19 DEF Goal

(* Nothing but the top of the stack changes, unless by a jump, by defer or *)
(* by a class that restarts what is around it.                             *)
LEMMA BelowTopSame ==
  ASSUME TypeOK,
         \/ Fails \/ Leaves \/ Begins \/ Opens \/ Handles
         \/ BodyLeft \/ DeferredStarts \/ DeferredIsOver
         \/ UNCHANGED ctl
  PROVE  Same(Depth - 1) /\ Depth' \in {Depth - 1, Depth, Depth + 1, Depth + 2}
<1>1. Depth \in Nat \ {0}
  BY Frames
<1>2. CASE Leaves
  BY <1>2 DEF Leaves, Popped
<1>3. CASE Begins
  BY <1>1, <1>3 DEF Begins, Begun, Same
<1>4. CASE Opens
  BY <1>4 DEF Opens, OpensWith, Grown
<1>5. CASE Handles
  BY <1>5 DEF Handles, Grown
<1>6. CASE BodyLeft \/ DeferredStarts \/ DeferredIsOver
  BY <1>6 DEF BodyLeft, DeferredStarts, DeferredIsOver, Grown, Replaced
<1>7. CASE Fails \/ UNCHANGED ctl
  BY <1>7 DEF Fails, Same, Depth
<1> QED
  BY <1>2, <1>3, <1>4, <1>5, <1>6, <1>7

(* The statement being deferred goes on the main frame, whose body runs.   *)
LEMMA DeferEffect ==
  ASSUME TypeOK, Defer
  PROVE  \E g \in FrameType :
           /\ g = [ctl[Main] EXCEPT !.made = ctl[Main].made + 1,
                                    !.defers = Append(ctl[Main].defers, ctl[Main].made + 1)]
           /\ ctl' \in Seq(FrameType) /\ Depth' = Depth /\ exc = "none" /\ exc' = "none"
           /\ ctl'[Main] = g /\ \A i \in 1..Depth : i # Main => ctl'[i] = ctl[i]
           /\ Main < Depth /\ ctl[Main].role \in Mains
           /\ "defer" \in Quiet => ctl[Main].phase = "body"
<1> DEFINE m == ctl[Main]
           d == Append(m.defers, m.made + 1)
           g == [m EXCEPT !.made = m.made + 1, !.defers = d]
<1>1. Depth \in Nat \ {0} /\ Main \in 1..Depth /\ m \in FrameType /\ m.role \in Mains
      /\ Depth \in 1..Depth
  BY Frames, MainFacts
<1>2. d \in Seq(Nat) /\ m.made + 1 \in Nat
  <2>1. m.defers \in Seq(Nat) /\ m.made \in Nat
    BY <1>1 DEF FrameType
  <2> HIDE DEF m
  <2> QED
    BY <2>1
<1>3. ctl' = [ctl EXCEPT ![Main] = g] /\ exc = "none" /\ exc' = "none" /\ Top.role = "list"
  BY DEF Defer, AtStmt
<1>4. g \in FrameType
  <2> HIDE DEF m, d
  <2> QED
    BY <1>1, <1>2 DEF FrameType
<1>5. /\ ctl' \in Seq(FrameType) /\ Depth' = Depth
      /\ ctl'[Main] = g /\ \A i \in 1..Depth : i # Main => ctl'[i] = ctl[i]
  <2>1. ctl \in Seq(FrameType) /\ Depth = Len(ctl)
    BY DEF TypeOK, Depth
  <2>2. Depth' = Len(ctl')
    BY DEF Depth
  <2> HIDE DEF g
  <2> QED
    BY <1>1, <1>3, <1>4, <2>1, <2>2
<1>6. Main # Depth
  BY <1>1, <1>3 DEF Top, Mains
<1>7. ASSUME "defer" \in Quiet PROVE m.phase = "body"
  <2>1. m.phase # "deferred"
    BY <1>1, <1>7 DEF Defer, Within
  <2>2. m.phase # "leaving"
    BY <1>1, <1>6 DEF TypeOK
  <2> QED
    BY <1>1, <2>1, <2>2 DEF TypeOK, WellFormed
<1> HIDE DEF g
<1>8. Main < Depth
  BY <1>1, <1>6
<1> QED
  BY <1>1, <1>3, <1>4, <1>5, <1>7, <1>8 DEF g

-----------------------------------------------------------------------------
(* The shape of the stack.                                                 *)

LEMMA InitTypeOK == Init => TypeOK
<1> SUFFICES ASSUME Init PROVE TypeOK
  OBVIOUS
<1> DEFINE r == Frame("root")
           l == Frame("list")
<1>1. /\ r \in FrameType /\ WellFormed(r) /\ r.role = "root" /\ r.phase = "body"
      /\ l \in FrameType /\ WellFormed(l) /\ l.role = "list" /\ l.phase = "body"
  BY NewFrame DEF Mains
<1>2. ctl = <<r, l>> /\ exc = "none"
  BY DEF Init, List
<1> HIDE DEF r, l
<1>3. ctl \in Seq(FrameType) /\ ctl # <<>> /\ Depth = 2 /\ ctl[1] = r /\ ctl[2] = l
  BY <1>1, <1>2 DEF Depth
<1> QED
  BY <1>1, <1>2, <1>3 DEF TypeOK

(* A frame as TypeOK wants it at its place.                                *)
Placed(i) ==
  /\ WellFormed(ctl[i])
  /\ ctl[i].role = "root" <=> i = 1
  /\ ctl[i].phase = "leaving" => i = Depth

LEMMA TypeStep ==
  ASSUME TypeOK, [Next]_vars
  PROVE  TypeOK'
<1>1. /\ Depth \in Nat \ {0} /\ Top \in FrameType /\ Top = ctl[Depth]
      /\ ctl \in Seq(FrameType)
      /\ \A i \in 1..Depth : Placed(i)
      /\ Depth > 1 <=> Top.role # "root"
  BY Frames DEF TypeOK, Top, Placed
<1>2. /\ List \in FrameType /\ WellFormed(List) /\ List.role = "list" /\ List.phase = "body"
  BY NewFrame DEF List
<1>3. ASSUME ctl' \in Seq(FrameType), Depth' > 0,
             exc' \in {"none", "object", "error", "terminate"},
             \A i \in 1..Depth' : Placed(i)'
      PROVE  TypeOK'
  <2>1. Len(ctl') # 0
    BY <1>3 DEF Depth
  <2>2. ctl' # <<>>
    BY <2>1
  <2> QED
    BY <1>3, <2>2 DEF TypeOK, Placed
<1>4. ASSUME NEW i \in 1..Depth, ctl'[i] = ctl[i],
             Depth' = Depth \/ i # Depth \/ ctl[i].phase # "leaving"
      PROVE  Placed(i)'
  BY <1>1, <1>4 DEF Placed
<1>5. ASSUME NEW g, NEW f, Grown(g, f), g.role = Top.role, g.phase # "leaving",
             WellFormed(g), WellFormed(f), f.role # "root", f.phase # "leaving",
             exc' = "none"
      PROVE  TypeOK'
  <2>1. \A i \in 1..(Depth - 1) : Placed(i)'
    <3> TAKE i \in 1..(Depth - 1)
    <3>1. i \in 1..Depth /\ i # Depth /\ ctl'[i] = ctl[i]
      BY <1>1, <1>5 DEF Grown, Same
    <3> QED
      BY <1>4, <3>1
  <2>2. ASSUME NEW i, i = Depth PROVE Placed(i)'
    BY <1>1, <1>5, <2>2 DEF Placed, Grown
  <2>3. ASSUME NEW i, i = Depth + 1 PROVE Placed(i)'
    BY <1>1, <1>5, <2>3 DEF Placed, Grown
  <2>4. \A i \in 1..Depth' : i \in 1..(Depth - 1) \/ i = Depth \/ i = Depth + 1
    BY <1>1, <1>5 DEF Grown
  <2> QED
    BY <1>1, <1>3, <1>5, <2>1, <2>2, <2>3, <2>4 DEF Grown
<1>6. ASSUME NEW g, Replaced(g), g.role = Top.role, WellFormed(g), exc' = "none"
      PROVE  TypeOK'
  <2>1. \A i \in 1..(Depth - 1) : Placed(i)'
    <3> TAKE i \in 1..(Depth - 1)
    <3>1. i \in 1..Depth /\ i # Depth /\ ctl'[i] = ctl[i]
      BY <1>1, <1>6 DEF Replaced, Same
    <3> QED
      BY <1>4, <3>1
  <2>2. ASSUME NEW i, i = Depth PROVE Placed(i)'
    BY <1>1, <1>6, <2>2 DEF Placed, Replaced
  <2>3. \A i \in 1..Depth' : i \in 1..(Depth - 1) \/ i = Depth
    BY <1>1, <1>6 DEF Replaced
  <2> QED
    BY <1>1, <1>3, <1>6, <2>1, <2>2, <2>3 DEF Replaced
<1>20. ASSUME NEW flag \in Flags, NEW s, s = SetStop(flag), NEW i \in 1..Depth
       PROVE  /\ WellFormed(s[i]) /\ s[i].role = ctl[i].role /\ s[i].phase = ctl[i].phase
  <2>0. SameShape(s) /\ Untouched(s, flag, i)
    BY <1>20, StopEffect
  <2>1. /\ s[i].role = ctl[i].role /\ s[i].phase = ctl[i].phase /\ s[i].saved = ctl[i].saved
        /\ s[i] = ctl[i] \/ Stores(i)
    BY <2>0 DEF SameShape, Untouched
  <2> QED
    BY <1>1, <2>1 DEF Placed, WellFormed, Stores
<1>7. CASE \E kind \in Jumps : Jump(kind)
  <2>1. PICK kind \in Jumps : Jump(kind)
    BY <1>7
  <2>2. PICK s : /\ s = SetStop(kind) /\ ctl' = s /\ Depth' = Depth /\ exc' = "none"
                 /\ s \in Seq(FrameType)
    BY <2>1, JumpEffect
  <2>3. ASSUME NEW i \in 1..Depth PROVE Placed(i)'
    BY <1>1, <1>20, <2>2 DEF Placed, Flags
  <2> QED
    BY <1>1, <1>3, <2>2, <2>3
<1>21. CASE Restarts
  <2>1. PICK s : s = SetStop("go") /\ \A i \in 1..(Depth - 1) : ctl'[i] = s[i]
    BY <1>21 DEF Restarts
  <2>2. /\ ctl' \in Seq(FrameType) /\ Depth' = Depth - 1 /\ Depth > 1 /\ exc' = "none"
    BY <1>21 DEF Restarts
  <2>3. ASSUME NEW i \in 1..Depth' PROVE Placed(i)'
    <3>1. i \in 1..Depth /\ i # Depth /\ ctl'[i] = s[i]
      BY <1>1, <2>1, <2>2
    <3> QED
      BY <1>1, <1>20, <2>1, <2>2, <3>1 DEF Placed, Flags
  <2> QED
    BY <1>1, <1>3, <2>2, <2>3
<1>8. CASE Defer
  <2>1. PICK g \in FrameType :
           /\ g = [ctl[Main] EXCEPT !.made = ctl[Main].made + 1,
                                    !.defers = Append(ctl[Main].defers, ctl[Main].made + 1)]
           /\ ctl' \in Seq(FrameType) /\ Depth' = Depth /\ exc' = "none"
           /\ ctl'[Main] = g /\ \A i \in 1..Depth : i # Main => ctl'[i] = ctl[i]
    BY <1>8, DeferEffect
  <2>2. ctl[Main] \in FrameType /\ Placed(Main) /\ Main \in 1..Depth
    BY <1>1, Frames, MainFacts
  <2>3. /\ g.role = ctl[Main].role /\ g.phase = ctl[Main].phase
        /\ g.saved = ctl[Main].saved /\ g.flag = ctl[Main].flag
    BY <2>1, <2>2 DEF FrameType
  <2>4. WellFormed(g)
    BY <2>2, <2>3 DEF Placed, WellFormed
  <2>5. ASSUME NEW i, i = Main PROVE Placed(i)'
    BY <2>1, <2>2, <2>3, <2>4, <2>5 DEF Placed
  <2>6. \A i \in 1..Depth' : Placed(i)'
    BY <1>4, <2>1, <2>5
  <2> QED
    BY <1>1, <1>3, <2>1, <2>6
<1>9. CASE Leaves
  <2>1. Popped /\ exc' \in {"none"} \cup Thrown
    BY <1>9 DEF Leaves
  <2>2. \A i \in 1..Depth' : Placed(i)'
    <3> TAKE i \in 1..Depth'
    <3>1. i \in 1..Depth /\ i # Depth /\ ctl'[i] = ctl[i]
      BY <1>1, <2>1 DEF Popped, Same
    <3>2. ctl[i].phase # "leaving"
      BY <1>1, <3>1 DEF Placed
    <3> QED
      BY <1>4, <3>1, <3>2
  <2> QED
    BY <1>1, <1>3, <2>1, <2>2 DEF Popped, Thrown
<1>10. CASE Begins
  <2>1. PICK f \in FrameType :
          /\ Begun(f) /\ WellFormed(f) /\ f.role # "root" /\ f.phase = "body"
    BY <1>10 DEF Begins
  <2>2. exc' = "none" /\ Top.role \in {"list"} \cup Decls
    BY <1>10 DEF Begins
  <2>3. Top.phase # "leaving"
    BY <1>1, <2>2 DEF Placed, WellFormed, Decls, Mains
  <2>4. ASSUME NEW i \in 1..Depth PROVE Placed(i)'
    <3>1. ctl'[i] = ctl[i]
      BY <2>1 DEF Begun, Same
    <3> QED
      BY <1>1, <1>4, <2>3, <3>1
  <2>5. ASSUME NEW i, i = Depth + 1 \/ i = Depth + 2 PROVE Placed(i)'
    BY <1>1, <1>2, <2>1, <2>5 DEF Placed, Begun
  <2>6. \A i \in 1..Depth' : i \in 1..Depth \/ i = Depth + 1 \/ i = Depth + 2
    BY <1>1, <2>1 DEF Begun
  <2> QED
    BY <1>1, <1>3, <2>1, <2>2, <2>4, <2>5, <2>6 DEF Begun
<1>11. CASE Opens
  <2>1. PICK ph, role : OpensWith(ph, role)
    BY <1>11 DEF Opens
  <2> DEFINE g == [Top EXCEPT !.phase = ph]
  <2>2. g.role = Top.role /\ g.flag = Top.flag /\ g.saved = Top.saved /\ g.phase = ph
    BY <1>1 DEF FrameType
  <2>3. Top.role \in {"list", "switch", "annotation"} \cup Loops /\ exc' = "none"
    BY <1>11, <2>1 DEF Opens, OpensWith
  <2>4. WellFormed(Top)
    BY <1>1 DEF Placed
  <2> HIDE DEF g
  <2>5. WellFormed(g) /\ g.phase # "leaving"
    BY <2>1, <2>2, <2>3, <2>4 DEF OpensWith, WellFormed, Loops, Mains
  <2>6. WellFormed(Frame(role)) /\ Frame(role).role = role /\ Frame(role).phase = "body"
    BY <2>1, NewFrame DEF OpensWith
  <2>7. Grown(g, Frame(role)) /\ role # "root"
    BY <2>1 DEF g, OpensWith, Loops, Decls
  <2> QED
    BY <1>5, <2>2, <2>3, <2>5, <2>6, <2>7
<1>12. CASE Handles
  <2>1. Top.role = "try" /\ exc' = "none" /\ WellFormed(Top) /\ List.role # "root"
        /\ List.phase # "leaving"
    BY <1>1, <1>2, <1>12 DEF Handles, Placed
  <2>2. CASE Top.phase = "body" /\ Grown([Top EXCEPT !.phase = "catch"], List)
    <3> DEFINE g == [Top EXCEPT !.phase = "catch"]
    <3>1. /\ g.role = "try" /\ g.flag = Top.flag /\ g.saved = Top.saved /\ g.phase = "catch"
          /\ Grown(g, List)
      BY <1>1, <2>1, <2>2 DEF FrameType
    <3> HIDE DEF g
    <3>2. WellFormed(g)
      BY <2>1, <2>2, <3>1 DEF WellFormed, Mains
    <3> QED
      BY <1>2, <1>5, <2>1, <3>1, <3>2
  <2>3. CASE exc \in {"none"} \cup Thrown /\ Grown([Top EXCEPT !.phase = "finally", !.saved = exc], List)
    <3> DEFINE g == [Top EXCEPT !.phase = "finally", !.saved = exc]
    <3>1. /\ g.role = "try" /\ g.flag = Top.flag /\ g.phase = "finally"
          /\ Grown(g, List)
      BY <1>1, <2>1, <2>3 DEF FrameType
    <3> HIDE DEF g
    <3>2. WellFormed(g)
      BY <2>1, <2>3, <3>1 DEF WellFormed, Mains
    <3> QED
      BY <1>2, <1>5, <2>1, <3>1, <3>2
  <2> QED
    BY <1>12, <2>2, <2>3 DEF Handles
<1>13. CASE BodyLeft
  <2> DEFINE g == [Top EXCEPT !.phase = "leaving", !.saved = exc]
  <2>1. /\ Top.role \in Mains /\ exc' = "none" /\ WellFormed(Top)
        /\ Replaced(g)
    BY <1>1, <1>13 DEF BodyLeft, Placed
  <2>3. g.role = Top.role /\ g.flag = Top.flag /\ g.phase = "leaving"
    BY <1>1 DEF FrameType
  <2> HIDE DEF g
  <2>2. WellFormed(g)
    BY <2>1, <2>3 DEF WellFormed, Mains, Loops
  <2> QED
    BY <1>6, <2>1, <2>2, <2>3
<1>14. CASE DeferredStarts
  <2> DEFINE c == Top.defers[Len(Top.defers)]
             g == [Top EXCEPT !.phase = "deferred", !.cur = c]
  <2>0. DeferredStarts /\ (DeferredStarts => Grown(g, List))
    BY <1>14 DEF DeferredStarts
  <2> HIDE DEF c
  <2>1. /\ Top.role \in Mains /\ exc' = "none" /\ WellFormed(Top)
        /\ Grown(g, List)
    BY <1>1, <2>0 DEF DeferredStarts, Placed
  <2>3. g.role = Top.role /\ g.flag = Top.flag /\ g.phase = "deferred"
    BY <1>1 DEF FrameType
  <2> HIDE DEF g
  <2>2. WellFormed(g)
    BY <2>1, <2>3 DEF WellFormed, Mains, Loops
  <2> QED
    BY <1>2, <1>5, <2>1, <2>2, <2>3
<1>15. CASE DeferredIsOver
  <2> DEFINE d == SubSeq(Top.defers, 1, Len(Top.defers) - 1)
             g == [Top EXCEPT !.phase = "leaving", !.defers = d]
  <2>0. DeferredIsOver /\ (DeferredIsOver => Replaced(g))
    BY <1>15 DEF DeferredIsOver
  <2> HIDE DEF d
  <2>1. /\ Top.role \in Mains /\ exc' = "none" /\ WellFormed(Top)
        /\ Replaced(g)
    BY <1>1, <2>0 DEF DeferredIsOver, Placed
  <2>3. g.role = Top.role /\ g.flag = Top.flag /\ g.phase = "leaving"
    BY <1>1 DEF FrameType
  <2> HIDE DEF g
  <2>2. WellFormed(g)
    BY <2>1, <2>3 DEF WellFormed, Mains, Loops
  <2> QED
    BY <1>6, <2>1, <2>2, <2>3
<1>16. CASE UNCHANGED ctl /\ exc' \in {"none", "object", "error", "terminate"}
  <2>1. Depth' = Depth /\ \A i \in 1..Depth : Placed(i)'
    BY <1>1, <1>16 DEF Depth, Placed
  <2> QED
    BY <1>1, <1>3, <1>16, <2>1
<1>17. CASE Fails
  BY <1>16, <1>17 DEF Fails, Thrown
<1>18. CASE UNCHANGED ctl /\ exc' \in {exc, "terminate"}
  BY <1>16, <1>18 DEF TypeOK
<1> QED
  BY StepCases, <1>7, <1>21, <1>8, <1>9, <1>10, <1>11, <1>12, <1>13, <1>14, <1>15, <1>17, <1>18

\* The shape of the stack, whatever the program and whichever clauses jump.
THEOREM TypeCorrect == Spec => []TypeOK
<1>1. Init => TypeOK
  BY InitTypeOK
<1>2. TypeOK /\ [Next]_vars => TypeOK'
  BY TypeStep
<1> QED
  BY <1>1, <1>2, PTL DEF Spec

-----------------------------------------------------------------------------
(* Deferred statements.  Where a deferred statement may defer again, a     *)
(* statement it adds is popped in its place, and the order is lost.        *)

LEMMA InitDeferStack == Init => DeferStack
<1> SUFFICES ASSUME Init PROVE DeferStack
  OBVIOUS
<1> DEFINE r == Frame("root")
           l == Frame("list")
<1>1. InOrder(r) /\ InOrder(l) /\ ctl = <<r, l>>
  BY NewFrame DEF Init, List, Mains
<1> HIDE DEF r, l
<1>2. Depth = 2 /\ ctl[1] = r /\ ctl[2] = l
  BY <1>1 DEF Depth
<1> QED
  BY <1>1, <1>2 DEF DeferStack

LEMMA DeferStep ==
  ASSUME TypeOK, DeferStack, "defer" \in Quiet, [Next]_vars
  PROVE  DeferStack'
<1>1. /\ Depth \in Nat \ {0} /\ Top \in FrameType /\ Top = ctl[Depth] /\ Depth \in 1..Depth
      /\ Top.role \in Mains => InOrder(Top)
  BY Frames DEF DeferStack, Top
<1>2. List.role \notin Mains
  BY NewFrame DEF List, Mains
<1>3. ASSUME \A i \in 1..Depth' : \/ i \in 1..Depth /\ ctl'[i] = ctl[i]
                                 \/ ctl'[i].role \notin Mains
                                 \/ InOrder(ctl'[i])
      PROVE  DeferStack'
  BY <1>3 DEF DeferStack
<1>4. ASSUME NEW g, NEW f, Grown(g, f),
             g.role \in Mains => InOrder(g), f.role \notin Mains
      PROVE  DeferStack'
  <2>1. \A i \in 1..Depth' : i \in 1..(Depth - 1) \/ i = Depth \/ i = Depth + 1
    BY <1>1, <1>4 DEF Grown
  <2>2. \A i \in 1..(Depth - 1) : i \in 1..Depth /\ ctl'[i] = ctl[i]
    BY <1>1, <1>4 DEF Grown, Same
  <2>3. ctl'[Depth] = g /\ ctl'[Depth + 1] = f
    BY <1>4 DEF Grown
  <2> QED
    BY <1>3, <1>4, <2>1, <2>2, <2>3
<1>5. ASSUME NEW g, Replaced(g), InOrder(g) PROVE DeferStack'
  <2>1. \A i \in 1..Depth' : i \in 1..(Depth - 1) \/ i = Depth
    BY <1>1, <1>5 DEF Replaced
  <2>2. \A i \in 1..(Depth - 1) : i \in 1..Depth /\ ctl'[i] = ctl[i]
    BY <1>1, <1>5 DEF Replaced, Same
  <2> QED
    BY <1>3, <1>5, <2>1, <2>2 DEF Replaced
<1>16. ASSUME NEW flag \in Flags, NEW s, s = SetStop(flag), NEW i \in 1..Depth
       PROVE  s[i] = ctl[i] \/ s[i].role \notin Mains
  <2>1. SameShape(s) /\ Untouched(s, flag, i)
    BY <1>16, StopEffect
  <2> QED
    BY <2>1 DEF SameShape, Untouched, Stores, Loops, Mains
<1>6. CASE \E kind \in Jumps : Jump(kind)
  <2>1. PICK kind \in Jumps : Jump(kind)
    BY <1>6
  <2>2. PICK s : s = SetStop(kind) /\ ctl' = s /\ Depth' = Depth
    BY <2>1, JumpEffect
  <2> QED
    BY <1>3, <1>16, <2>2 DEF Flags
<1>17. CASE Restarts
  <2>1. PICK s : s = SetStop("go") /\ \A i \in 1..(Depth - 1) : ctl'[i] = s[i]
    BY <1>17 DEF Restarts
  <2>2. Depth' = Depth - 1
    BY <1>17 DEF Restarts
  <2>3. \A i \in 1..Depth' : i \in 1..Depth /\ ctl'[i] = s[i]
    BY <1>1, <2>1, <2>2
  <2> QED
    BY <1>3, <1>16, <2>1, <2>3 DEF Flags
<1>7. CASE Defer
  <2> DEFINE m == ctl[Main]
  <2>1. PICK g \in FrameType :
           /\ g = [m EXCEPT !.made = m.made + 1, !.defers = Append(m.defers, m.made + 1)]
           /\ Depth' = Depth /\ m.phase = "body"
           /\ ctl'[Main] = g /\ \A i \in 1..Depth : i # Main => ctl'[i] = ctl[i]
    BY <1>7, DeferEffect
  <2>2. m \in FrameType /\ InOrder(m)
    BY Frames, MainFacts DEF DeferStack
  <2> HIDE DEF m
  <2>3. m.defers \in Seq(Nat) /\ m.made \in Nat
    BY <2>2 DEF FrameType
  <2> DEFINE d == Append(m.defers, m.made + 1)
  <2>4. /\ g.phase = "body" /\ g.cur = m.cur /\ g.made = m.made + 1 /\ g.defers = d
    BY <2>1, <2>2 DEF FrameType
  <2>5. m.cur = 0 /\ m.made = Len(m.defers) /\ \A k \in 1..Len(m.defers) : m.defers[k] = k
    BY <2>1, <2>2 DEF InOrder
  <2>6. Len(d) = m.made + 1 /\ \A k \in 1..Len(d) : d[k] = k
    BY <2>3, <2>5
  <2> HIDE DEF d
  <2>7. InOrder(g)
    BY <2>4, <2>5, <2>6 DEF InOrder
  <2> QED
    BY <1>3, <2>1, <2>7 DEF m
<1>8. CASE Leaves
  BY <1>1, <1>3, <1>8 DEF Leaves, Popped, Same
<1>9. CASE Begins
  <2>1. PICK f \in FrameType : Begun(f) /\ InOrder(f)
    BY <1>9 DEF Begins
  <2>2. \A i \in 1..Depth' : i \in 1..Depth \/ i = Depth + 1 \/ i = Depth + 2
    BY <1>1, <2>1 DEF Begun
  <2> QED
    BY <1>2, <1>3, <2>1, <2>2 DEF Begun, Same
<1>10. CASE Opens
  <2>1. PICK ph, role : OpensWith(ph, role)
    BY <1>10 DEF Opens
  <2>2. [Top EXCEPT !.phase = ph].role = Top.role
    BY <1>1 DEF FrameType
  <2>3. Top.role \notin Mains
    BY <2>1 DEF OpensWith, Loops, Mains
  <2>4. Frame(role).role \notin Mains
    BY <2>1, NewFrame DEF OpensWith, Loops, Decls, Mains
  <2>5. Grown([Top EXCEPT !.phase = ph], Frame(role))
    BY <2>1 DEF OpensWith
  <2> QED
    BY <1>4, <2>2, <2>3, <2>4, <2>5
<1>11. CASE Handles
  <2>1. Top.role = "try"
    BY <1>11 DEF Handles
  <2>2. CASE Grown([Top EXCEPT !.phase = "catch"], List)
    <3>1. [Top EXCEPT !.phase = "catch"].role \notin Mains
      BY <1>1, <2>1 DEF FrameType, Mains
    <3> QED
      BY <1>2, <1>4, <2>2, <3>1
  <2>3. CASE Grown([Top EXCEPT !.phase = "finally", !.saved = exc], List)
    <3>1. [Top EXCEPT !.phase = "finally", !.saved = exc].role \notin Mains
      BY <1>1, <2>1 DEF FrameType, Mains
    <3> QED
      BY <1>2, <1>4, <2>3, <3>1
  <2> QED
    BY <1>11, <2>2, <2>3 DEF Handles
<1>12. CASE BodyLeft
  <2> DEFINE g == [Top EXCEPT !.phase = "leaving", !.saved = exc]
  <2>1. Replaced(g) /\ InOrder(Top) /\ Top.phase = "body"
    BY <1>1, <1>12 DEF BodyLeft
  <2>2. g.phase = "leaving" /\ g.cur = Top.cur /\ g.made = Top.made /\ g.defers = Top.defers
    BY <1>1 DEF FrameType
  <2> HIDE DEF g
  <2>3. InOrder(g)
    BY <2>1, <2>2 DEF InOrder
  <2> QED
    BY <1>5, <2>1, <2>3
<1>13. CASE DeferredStarts
  <2> DEFINE c == Top.defers[Len(Top.defers)]
             g == [Top EXCEPT !.phase = "deferred", !.cur = c]
  <2>1. Grown(g, List) /\ InOrder(Top) /\ Top.phase = "leaving" /\ Top.defers # <<>>
    BY <1>1, <1>13 DEF DeferredStarts
  <2>2. Top.defers \in Seq(Nat)
    BY <1>1 DEF FrameType
  <2>3. Len(Top.defers) \in 1..Len(Top.defers)
    BY <2>1, <2>2
  <2>4. c = Len(Top.defers) /\ c > 0
    BY <2>1, <2>3 DEF InOrder
  <2> HIDE DEF c
  <2>5. g.phase = "deferred" /\ g.cur = c /\ g.defers = Top.defers
    BY <1>1 DEF FrameType
  <2> HIDE DEF g
  <2>6. InOrder(g)
    BY <2>1, <2>4, <2>5 DEF InOrder
  <2> QED
    BY <1>2, <1>4, <2>1, <2>6
<1>14. CASE DeferredIsOver
  <2> DEFINE d == SubSeq(Top.defers, 1, Len(Top.defers) - 1)
             g == [Top EXCEPT !.phase = "leaving", !.defers = d]
  <2>1. Replaced(g) /\ InOrder(Top) /\ Top.phase = "deferred"
    BY <1>1, <1>14 DEF DeferredIsOver
  <2>2. Top.defers \in Seq(Nat)
    BY <1>1 DEF FrameType
  <2>3. Top.cur = Len(Top.defers) /\ Top.cur > 0 /\ \A k \in 1..Len(Top.defers) : Top.defers[k] = k
    BY <2>1 DEF InOrder
  <2> DEFINE n == Len(Top.defers) - 1
  <2>4. n \in Nat /\ n <= Len(Top.defers) /\ d = SubSeq(Top.defers, 1, n)
    BY <2>2, <2>3
  <2> HIDE DEF n
  <2>5. Len(d) = n /\ \A k \in 1..n : d[k] = Top.defers[k]
    BY <2>2, <2>4
  <2> HIDE DEF d
  <2>6. g.phase = "leaving" /\ g.cur = Top.cur /\ g.defers = d
    BY <1>1 DEF FrameType
  <2> HIDE DEF g
  <2>7. Len(Top.defers) = n + 1 /\ \A k \in 1..n : k \in 1..Len(Top.defers)
    BY <2>2, <2>4 DEF n
  <2>8. InOrder(g)
    BY <2>3, <2>5, <2>6, <2>7 DEF InOrder
  <2> QED
    BY <1>5, <2>1, <2>8
<1>15. CASE Fails \/ UNCHANGED ctl
  <2>1. ctl' = ctl /\ Depth' = Depth
    BY <1>15 DEF Fails, Depth
  <2> QED
    BY <1>3, <2>1
<1> QED
  BY StepCases, <1>6, <1>17, <1>7, <1>8, <1>9, <1>10, <1>11, <1>12, <1>13, <1>14, <1>15

LEMMA RunsInReverse ==
  ASSUME TypeOK, DeferStack, [Next]_vars
  PROVE  /\ Top.phase = "leaving" /\ Depth' > Depth =>
              ctl'[Depth].cur = (IF Top.cur = 0 THEN Top.made ELSE Top.cur - 1)
         /\ Depth' < Depth /\ Top.role \in Mains /\ Top.made > 0 => Top.cur = 1
<1>1. /\ Depth \in Nat \ {0} /\ Top \in FrameType /\ Top = ctl[Depth] /\ Depth \in 1..Depth
      /\ WellFormed(Top)
      /\ Top.role \in Mains => InOrder(Top)
      /\ Top.cur \in Nat /\ Top.made \in Nat /\ Top.defers \in Seq(Nat)
  BY Frames DEF DeferStack, TypeOK, Top, FrameType
<1>2. ASSUME DeferredStarts PROVE ctl'[Depth].cur = IF Top.cur = 0 THEN Top.made ELSE Top.cur - 1
  <2> DEFINE c == Top.defers[Len(Top.defers)]
             g == [Top EXCEPT !.phase = "deferred", !.cur = c]
  <2>1. Grown(g, List) /\ InOrder(Top) /\ Top.phase = "leaving" /\ Top.defers # <<>>
    BY <1>1, <1>2 DEF DeferredStarts
  <2>2. Len(Top.defers) \in 1..Len(Top.defers)
    BY <1>1, <2>1
  <2>3. c = Len(Top.defers)
    BY <2>1, <2>2 DEF InOrder
  <2>4. \/ Top.cur = 0 /\ Top.made = Len(Top.defers)
        \/ Top.cur = Len(Top.defers) + 1
    BY <2>1 DEF InOrder
  <2> HIDE DEF c
  <2>5. ctl'[Depth].cur = c
    BY <1>1, <2>1 DEF Grown, FrameType
  <2> QED
    BY <1>1, <2>2, <2>3, <2>4, <2>5
<1>3. ASSUME Leaves \/ Restarts, Top.role \in Mains, Top.made > 0 PROVE Top.cur = 1
  <2>1. Top.phase = "leaving" /\ Len(Top.defers) = 0 /\ InOrder(Top)
    BY <1>1, <1>3 DEF Leaves, Restarts
  <2> QED
    BY <1>1, <1>3, <2>1 DEF InOrder
<1>4. ASSUME Top.phase = "leaving" PROVE Top.role \in Mains
  BY <1>1, <1>4 DEF WellFormed
<1>5. Top.phase = "leaving" => ~(Begins \/ Opens \/ Handles)
  BY <1>4 DEF Begins, Opens, OpensWith, Handles, Loops, Decls, Mains
<1>6. \A kind \in Jumps : Jump(kind) => Depth' = Depth
  BY JumpEffect
<1>7. Defer => Depth' = Depth
  BY DeferEffect
<1>8. Fails \/ UNCHANGED ctl => Depth' = Depth
  BY DEF Fails, Depth
<1>9. BodyLeft \/ DeferredIsOver => Depth' = Depth
  BY DEF BodyLeft, DeferredIsOver, Replaced
<1>10. (Begins \/ Opens \/ Handles \/ DeferredStarts => Depth' \in Int /\ Depth' > Depth)
       /\ (Leaves \/ Restarts => Depth' \in Int /\ Depth' < Depth)
  <2>1. Depth \in Int
    BY <1>1
  <2>2. Begins => Depth' = Depth + 2
    BY DEF Begins, Begun
  <2>3. Opens \/ Handles \/ DeferredStarts => Depth' = Depth + 1
    BY DEF Opens, OpensWith, Handles, DeferredStarts, Grown
  <2>4. Leaves \/ Restarts => Depth' = Depth - 1
    BY DEF Leaves, Restarts, Popped
  <2> QED
    BY <2>1, <2>2, <2>3, <2>4
<1>11. Depth' \in Int
  BY <1>1, StepCases, <1>6, <1>7, <1>8, <1>9, <1>10
<1>12. ~(Depth' > Depth /\ Depth' < Depth) /\ ~(Depth' = Depth /\ (Depth' > Depth \/ Depth' < Depth))
  BY <1>1, <1>11
<1> QED
  BY StepCases, <1>2, <1>3, <1>5, <1>6, <1>7, <1>8, <1>9, <1>10, <1>12

\* Whichever way a function is left, its deferred statements all run first, in
\* the reverse of the order in which they were deferred, if none of them defers
\* another (FuncDeclObject::Call).
THEOREM DefersReverse == Spec => DeferredInReverse
<1> DEFINE Inv == TypeOK /\ ("defer" \in Quiet => DeferStack)
<1>1. Init => Inv
  BY InitTypeOK, InitDeferStack
<1>2. Inv /\ [Next]_vars => Inv'
  BY TypeStep, DeferStep, SameProgram
<1>3. Inv /\ [Next]_vars =>
        [/\ "defer" \in Quiet /\ Top.phase = "leaving" /\ Depth' > Depth =>
              ctl'[Depth].cur = (IF Top.cur = 0 THEN Top.made ELSE Top.cur - 1)
         /\ "defer" \in Quiet /\ Depth' < Depth /\ Top.role \in Mains /\ Top.made > 0 =>
              Top.cur = 1]_vars
  BY RunsInReverse
<1> HIDE DEF Inv
<1> QED
  BY <1>1, <1>2, <1>3, PTL DEF Spec, DeferredInReverse

-----------------------------------------------------------------------------
(* Calls.                                                                  *)

(* What a flag does below a call, and below an annotation.                 *)
LEMMA StopsBelow ==
  ASSUME TypeOK, NEW flag \in Flags, NEW s, s = SetStop(flag),
         NEW i \in 2..Depth, NEW j \in 1..(i - 1)
  PROVE  /\ ctl[i].role = "func" => s[j] = ctl[j]
         /\ ctl[i].role = "annotation" /\ s[j].flag = "return" => ctl[j].flag = "return"
<1>1. Depth \in Nat /\ j \in 1..Depth /\ i \in (j + 1)..Depth /\ ctl[j] \in FrameType
  BY Frames
<1>2. Untouched(s, flag, j)
  BY <1>1, StopEffect
<1>3. ASSUME ctl[i].role = "func" PROVE s[j] = ctl[j]
  BY <1>1, <1>2, <1>3 DEF Untouched, CallAbove
<1>4. ASSUME ctl[i].role = "annotation", s[j] # ctl[j] PROVE s[j].flag # "return"
  <2>1. flag # "return"
    BY <1>1, <1>2, <1>4 DEF Untouched, AnnotationAbove
  <2>2. PICK f \in {flag, "go"} : s[j] = [ctl[j] EXCEPT !.flag = f]
    BY <1>2, <1>4 DEF Untouched
  <2> QED
    BY <1>1, <2>1, <2>2 DEF FrameType
<1> QED
  BY <1>3, <1>4

Caller(i, j) ==
  /\ ctl[i].role = "func" => ctl'[j] = ctl[j]
  /\ ctl[i].role = "annotation" /\ ctl'[j].flag = "return" => ctl[j].flag = "return"

LEMMA CallerStep ==
  ASSUME TypeOK, [Next]_vars
  PROVE  \A i \in 2..Depth : i <= Depth' =>
           \A j \in 1..(i - 1) :
             /\ ctl[i].role = "func" => ctl'[j] = ctl[j]
             /\ ctl[i].role = "annotation" /\ ctl'[j].flag = "return" => ctl[j].flag = "return"
<1> SUFFICES ASSUME NEW i \in 2..Depth, i <= Depth', NEW j \in 1..(i - 1)
             PROVE  Caller(i, j)
  BY DEF Caller
<1>1. Depth \in Nat /\ j \in 1..(Depth - 1) /\ j \in 1..Depth /\ i \in 1..Depth /\ j < i
  BY Frames
<1>2. ASSUME NEW flag \in Flags, NEW s, s = SetStop(flag), ctl'[j] = s[j]
      PROVE  Caller(i, j)
  BY <1>2, StopsBelow DEF Caller
<1>3. CASE \E kind \in Jumps : Jump(kind)
  <2>1. PICK kind \in Jumps : Jump(kind)
    BY <1>3
  <2>2. PICK s : s = SetStop(kind) /\ ctl' = s
    BY <2>1, JumpEffect
  <2> QED
    BY <1>2, <2>2 DEF Flags
<1>4. CASE Restarts
  <2>1. PICK s : s = SetStop("go") /\ \A k \in 1..(Depth - 1) : ctl'[k] = s[k]
    BY <1>4 DEF Restarts
  <2> QED
    BY <1>1, <1>2, <2>1 DEF Flags
<1>5. CASE Defer
  <2>1. PICK g \in FrameType :
           /\ g = [ctl[Main] EXCEPT !.made = ctl[Main].made + 1,
                                    !.defers = Append(ctl[Main].defers, ctl[Main].made + 1)]
           /\ ctl'[Main] = g /\ \A k \in 1..Depth : k # Main => ctl'[k] = ctl[k]
    BY <1>5, DeferEffect
  <2>2. /\ Main \in 1..Depth /\ ctl[Main] \in FrameType
        /\ \A k \in (Main + 1)..Depth : ctl[k].role # "func"
    BY Frames, MainFacts DEF Mains
  <2>3. g.flag = ctl[Main].flag
    BY <2>1, <2>2 DEF FrameType
  <2>4. CASE j # Main
    BY <1>1, <2>1, <2>4 DEF Caller
  <2>5. CASE j = Main
    <3>1. i \in (Main + 1)..Depth
      BY <1>1, <2>2, <2>5
    <3>2. ctl'[j].flag = ctl[j].flag
      BY <2>1, <2>3, <2>5
    <3> QED
      BY <2>2, <3>1, <3>2 DEF Caller
  <2> QED
    BY <2>4, <2>5
<1>6. Same(Depth - 1) => Caller(i, j)
  BY <1>1 DEF Same, Caller
<1> QED
  BY <1>3, <1>4, <1>5, <1>6, StepCases, BelowTopSame

\* Whatever clauses jump, what happens in a function never stops the code that
\* called it, and no return of a decorator reaches the code around an annotation
\* (FuncCallExecutor::set_stop, AnnotationExecutor::set_stop).
THEOREM CallsAreClosed == Spec => CallerUntouched
<1>1. Init => TypeOK
  BY InitTypeOK
<1>2. TypeOK /\ [Next]_vars => TypeOK'
  BY TypeStep
<1>3. TypeOK /\ [Next]_vars =>
        [\A i \in 2..Depth : i <= Depth' =>
           \A j \in 1..(i - 1) :
             /\ ctl[i].role = "func" => ctl'[j] = ctl[j]
             /\ ctl[i].role = "annotation" /\ ctl'[j].flag = "return" =>
                  ctl[j].flag = "return"]_vars
  BY CallerStep
<1> QED
  BY <1>1, <1>2, <1>3, PTL DEF Spec, CallerUntouched

-----------------------------------------------------------------------------
(* What a step leaves of the facts about the stack.                        *)

Alike(n) ==
  \A i \in 1..n : /\ ctl'[i].role = ctl[i].role /\ ctl'[i].flag = ctl[i].flag
                  /\ ctl'[i].saved = ctl[i].saved
                  /\ Suspends(i)' = Suspends(i) /\ InFinally(i)' = InFinally(i)

LEMMA AlikeFacts ==
  ASSUME NEW n \in Nat, Alike(n)
  PROVE  /\ \A i \in 1..n : Live(i)' = Live(i) /\ Stores(i)' = Stores(i)
         /\ \A i, j \in 1..(n + 1) : /\ SameBody(i, j)' = SameBody(i, j)
                                     /\ Covered(i, j)' = Covered(i, j)
         /\ \A j \in 1..(n + 1) : /\ ClearBelow(j) => ClearBelow(j)'
                                  /\ TakenBelow(j) => TakenBelow(j)'
<1>1. \A i \in 1..n : Live(i)' = Live(i) /\ Stores(i)' = Stores(i)
  BY DEF Alike, Live, Stores
<1>2. ASSUME NEW i \in 1..(n + 1), NEW j \in 1..(n + 1)
      PROVE  SameBody(i, j)' = SameBody(i, j) /\ Covered(i, j)' = Covered(i, j)
  <2>1. \A k \in (i + 1)..(j - 1) : k \in 1..n
    OBVIOUS
  <2>2. \A k \in (i + 1)..(j - 1) : ctl'[k].role = ctl[k].role /\ Suspends(k)' = Suspends(k)
    BY <2>1 DEF Alike
  <2>3. SameBody(i, j)' = SameBody(i, j)
    BY <2>2 DEF SameBody
  <2>4. Covered(i, j)' = Covered(i, j)
    BY <2>2, Zenon DEF Covered
  <2> QED
    BY <2>3, <2>4
<1>3. ASSUME NEW j \in 1..(n + 1)
      PROVE  /\ ClearBelow(j) => ClearBelow(j)'
             /\ TakenBelow(j) => TakenBelow(j)'
  <2>1. \A i \in 1..(j - 1) : i \in 1..n /\ i \in 1..(n + 1)
    OBVIOUS
  <2>2. \A i \in 1..(j - 1) : /\ Live(i)' = Live(i) /\ Stores(i)' = Stores(i)
                              /\ SameBody(i, j)' = SameBody(i, j)
                              /\ Covered(i, j)' = Covered(i, j)
                              /\ ctl'[i].role = ctl[i].role /\ ctl'[i].flag = ctl[i].flag
    BY <1>1, <1>2, <2>1 DEF Alike
  <2>3. ClearBelow(j) => ClearBelow(j)'
    BY <2>2, Zenon DEF ClearBelow
  <2>4. TakenBelow(j) => TakenBelow(j)'
    BY <2>2, Zenon DEF TakenBelow
  <2> QED
    BY <2>3, <2>4
<1> QED
  BY <1>1, <1>2, <1>3

(* A frame that is live, or that stores no flag, may stand where it is     *)
(* clear; the first frames of a body, and what a clause runs, stand on     *)
(* nothing.                                                                *)
Stands ==
  \A j \in Nat : /\ ClearBelow(j) /\ (Live(j) \/ ~Stores(j)) => ClearBelow(j + 1)
                 /\ (ctl[j].role = "func" \/ Suspends(j)) /\ ~Stores(j) => ClearBelow(j + 1)
                 /\ ClearBelow(j) => TakenBelow(j)

LEMMA ItStands == Stands
<1> SUFFICES ASSUME NEW j \in Nat
             PROVE  /\ ClearBelow(j) /\ (Live(j) \/ ~Stores(j)) => ClearBelow(j + 1)
                    /\ (ctl[j].role = "func" \/ Suspends(j)) /\ ~Stores(j) => ClearBelow(j + 1)
                    /\ ClearBelow(j) => TakenBelow(j)
  BY DEF Stands
<1>1. \A i \in 1..j : i \in 1..(j - 1) \/ i = j
  OBVIOUS
<1>2. ASSUME ClearBelow(j), Live(j) \/ ~Stores(j) PROVE ClearBelow(j + 1)
  <2> SUFFICES ASSUME NEW i \in 1..(j - 1), Stores(i), SameBody(i, j + 1)
               PROVE  Live(i) \/ Covered(i, j + 1)
    BY <1>1, <1>2 DEF ClearBelow
  <2>1. SameBody(i, j)
    BY DEF SameBody
  <2>2. Covered(i, j) => Covered(i, j + 1)
    BY DEF Covered
  <2> QED
    BY <1>2, <2>1, <2>2 DEF ClearBelow
<1>3. ASSUME ctl[j].role = "func" \/ Suspends(j), ~Stores(j) PROVE ClearBelow(j + 1)
  <2> SUFFICES ASSUME NEW i \in 1..(j - 1), SameBody(i, j + 1)
               PROVE  Covered(i, j + 1)
    BY <1>1, <1>3 DEF ClearBelow
  <2>1. j \in (i + 1)..((j + 1) - 1)
    OBVIOUS
  <2> QED
    BY <1>3, <2>1 DEF SameBody, Covered
<1>4. ClearBelow(j) => TakenBelow(j)
  BY DEF ClearBelow, TakenBelow, Live, Stores, Loops
<1> QED
  BY <1>2, <1>3, <1>4

LEMMA ItStandsNext == Stands'
  BY ItStands, PTL

(* Frames up to n are as they were: what is left to show is of those above. *)
LEMMA AboveSuffices ==
  ASSUME TypeOK, Flow, Taken, QuietClauses,
         NEW n \in 0..Depth, Depth' \in Nat, n <= Depth', Alike(n),
         \A j \in (n + 1)..Depth' :
           /\ Live(j)' => ClearBelow(j)'
           /\ ctl'[j].role \in Loops => TakenBelow(j)'
           /\ ctl'[j].flag = "go"
              \/ \A i \in 1..(j - 1) : Suspends(i)' => ~SameBody(i, j + 1)',
         \A i \in 1..Depth' : InFinally(i)' =>
           /\ exc' \notin {"object", "error"}
           /\ \A j \in (n + 1)..Depth' : j > i => ctl'[j].saved = "none",
         \A i : i = Depth' + 1 /\ exc' \in {"object", "error"} => ClearBelow(i)',
         \A i : i = Depth' /\ exc' = "none" /\ ctl'[i].role = "class" => ClearBelow(i)'
  PROVE  Flow' /\ Taken' /\ QuietClauses'
<1>1. Depth \in Nat /\ n \in Nat /\ \A j \in 1..Depth' : j \in 1..n \/ j \in (n + 1)..Depth'
  BY Frames
<1>2. /\ \A i \in 1..n : Live(i)' = Live(i) /\ Stores(i)' = Stores(i)
      /\ \A i, j \in 1..(n + 1) : /\ SameBody(i, j)' = SameBody(i, j)
                                  /\ Covered(i, j)' = Covered(i, j)
      /\ \A j \in 1..(n + 1) : /\ ClearBelow(j) => ClearBelow(j)'
                               /\ TakenBelow(j) => TakenBelow(j)'
  BY <1>1, AlikeFacts
<1>3. \A j \in 1..n : j \in 1..Depth /\ j \in 1..(n + 1) /\ j + 1 \in 1..(n + 1)
  BY <1>1
<1>4. Flow'
  <2>1. \A j \in 1..Depth' : Live(j)' => ClearBelow(j)'
    BY <1>1, <1>2, <1>3 DEF Flow
  <2>2. (exc \in {"object", "error"} => ClearBelow(Depth + 1))'
    <3>1. PICK d : d = Depth' + 1
      OBVIOUS
    <3>2. exc' \in {"object", "error"} => ClearBelow(d)'
      BY <3>1
    <3> QED
      BY <3>1, <3>2 DEF ClearBelow
  <2>3. (exc = "none" /\ Top.role = "class" => ClearBelow(Depth))'
    <3>1. PICK d : d = Depth'
      OBVIOUS
    <3>2. exc' = "none" /\ ctl'[d].role = "class" => ClearBelow(d)'
      BY <3>1
    <3> QED
      BY <3>1, <3>2 DEF ClearBelow, Top
  <2> QED
    BY <2>1, <2>2, <2>3 DEF Flow
<1>5. Taken'
  BY <1>1, <1>2, <1>3 DEF Taken, Alike
<1>6. QuietClauses'
  <2>1. ASSUME NEW i \in 1..Depth', Suspends(i)', NEW j \in (i + 1)..Depth', SameBody(i, j + 1)'
        PROVE  ctl'[j].flag = "go"
    <3>1. CASE j \in 1..n
      <4>1. i \in 1..n /\ i \in 1..Depth /\ j \in (i + 1)..Depth
        BY <1>1, <1>3, <3>1
      <4>2. Suspends(i) /\ ctl'[j].flag = ctl[j].flag /\ SameBody(i, j + 1)
        BY <1>2, <1>3, <2>1, <3>1, <4>1 DEF Alike
      <4> QED
        BY <4>1, <4>2 DEF QuietClauses
    <3>2. CASE j \in (n + 1)..Depth'
      <4>1. i \in 1..(j - 1)
        BY <1>1
      <4> QED
        BY <2>1, <3>2, <4>1
    <3> QED
      BY <1>1, <3>1, <3>2
  <2>2. ASSUME NEW i \in 1..Depth', InFinally(i)', NEW j \in (i + 1)..Depth'
        PROVE  ctl'[j].saved = "none"
    <3>1. CASE j \in 1..n
      <4>1. i \in 1..n /\ i \in 1..Depth /\ j \in (i + 1)..Depth
        BY <1>1, <1>3, <3>1
      <4>2. InFinally(i) /\ ctl'[j].saved = ctl[j].saved
        BY <1>3, <2>2, <3>1, <4>1 DEF Alike
      <4> QED
        BY <4>1, <4>2 DEF QuietClauses
    <3>2. CASE j \in (n + 1)..Depth'
      <4>1. j > i
        BY <1>1
      <4> QED
        BY <2>2, <3>2, <4>1
    <3> QED
      BY <1>1, <3>1, <3>2
  <2> QED
    BY <2>1, <2>2 DEF QuietClauses
<1> QED
  BY <1>4, <1>5, <1>6

(* An exception stands where it is clear below the frame that it leaves.   *)
LEMMA ClearDown ==
  ASSUME TypeOK, Flow, exc \in Thrown, Top.role # "func", ~Suspends(Depth)
  PROVE  ClearBelow(Depth)
<1>1. Depth \in Nat \ {0} /\ ctl[Depth].role # "func"
  BY Frames DEF Top
<1>2. ClearBelow(Depth + 1)
  BY DEF Flow, Thrown
<1> SUFFICES ASSUME NEW i \in 1..(Depth - 1), Stores(i), SameBody(i, Depth)
             PROVE  Live(i) \/ Covered(i, Depth)
  BY DEF ClearBelow
<1>3. i \in 1..((Depth + 1) - 1)
      /\ \A k \in (i + 1)..((Depth + 1) - 1) : k \in (i + 1)..(Depth - 1) \/ k = Depth
  BY <1>1
<1>4. SameBody(i, Depth + 1)
  BY <1>1, <1>3 DEF SameBody
<1>5. Covered(i, Depth + 1) => Covered(i, Depth)
  BY <1>1, <1>3 DEF Covered
<1> QED
  BY <1>2, <1>3, <1>4, <1>5 DEF ClearBelow

-----------------------------------------------------------------------------
(* At first, and where a statement stands.                                 *)

LEMMA InitInductive == Init => Inductive
<1> SUFFICES ASSUME Init PROVE Inductive
  OBVIOUS
<1> DEFINE r == Frame("root")
           l == Frame("list")
<1>1. r.role = "root" /\ l.role = "list" /\ ctl = <<r, l>> /\ exc = "none"
  BY DEF Init, List, Frame
<1> HIDE DEF r, l
<1>2. Depth = 2 /\ ctl[1] = r /\ ctl[2] = l
  BY <1>1 DEF Depth
<1>3. \A i \in 1..Depth : i = 1 \/ i = 2
  BY <1>2
<1>4. \A j \in 1..Depth : \A i \in 1..(j - 1) : ~Stores(i)
  BY <1>1, <1>2, <1>3 DEF Stores, Loops
<1>5. Top = l /\ \A i \in 1..Depth : ctl[i].role \in {"root", "list"}
  BY <1>1, <1>2, <1>3 DEF Top
<1>6. Flow /\ Taken
  BY <1>1, <1>4, <1>5 DEF Flow, Taken, ClearBelow, TakenBelow
<1>7. QuietClauses /\ Declarations
  BY <1>5 DEF QuietClauses, Declarations, Suspends, InFinally, Decls
<1> QED
  BY <1>6, <1>7, InitTypeOK DEF Inductive

(* Where nothing quiet is around the statement of the running body, there  *)
(* is nothing quiet around those of the decorators' callers either.        *)
LEMMA QuietPlace ==
  ASSUME Inductive, {"switch", "finally", "decorator"} \subseteq Quiet, ~InQuiet
  PROVE  \A i \in 1..Depth : SameBody(i, Depth + 1) => ~Suspends(i) /\ ctl[i].role # "switch"
<1> SUFFICES ASSUME NEW i \in 1..Depth, SameBody(i, Depth + 1)
             PROVE  ~Suspends(i) /\ ctl[i].role # "switch"
  OBVIOUS
<1>1. /\ TypeOK /\ Declarations /\ Depth \in Nat
      /\ Main \in 1..Depth /\ ctl[Main].role \in Mains
  BY Frames, MainFacts DEF Inductive
<1>2. CASE i \in Main..Depth
  <2>1. ~Within("switch") /\ ~Within("finally") /\ ~Within("decorator")
    BY DEF InQuiet
  <2> QED
    BY <1>2, <2>1 DEF Within, Suspends, InFinally
<1>3. CASE i \notin Main..Depth
  <2>1. i \in 1..(Main - 1) /\ Main \in (i + 1)..((Depth + 1) - 1) /\ Main # 1
        /\ \A k \in (i + 1)..(Main - 1) : k \in (i + 1)..((Depth + 1) - 1)
    BY <1>1, <1>3
  <2>2. ctl[Main].role # "func" /\ SameBody(i, Main)
    BY <2>1 DEF SameBody
  <2>3. ctl[Main].role = "decorator"
    BY <1>1, <2>1, <2>2 DEF TypeOK, Mains
  <2> QED
    BY <1>1, <2>1, <2>2, <2>3 DEF Declarations
<1> QED
  BY <1>2, <1>3

-----------------------------------------------------------------------------
(* Where declarations stand.                                               *)

Kept(n) ==
  \A i \in 1..n : ctl'[i].role = ctl[i].role /\ Suspends(i)' = Suspends(i)

(* A declaration, and a decorator, may stand at k.                         *)
Open(k) == \A i \in 1..(k - 1) : SameBody(i, k) => ~Suspends(i) /\ ctl[i].role # "switch"
Follows(k) ==
  \/ ctl[k + 1].role = "decorator"
  \/ ctl[k].role = "annotation" /\ ctl[k + 1].role = "class"

LEMMA KeptOpen ==
  ASSUME NEW n \in Nat, Kept(n), NEW k \in 1..(n + 1), Open(k)
  PROVE  Open(k)'
<1> SUFFICES ASSUME NEW i \in 1..(k - 1), SameBody(i, k)'
             PROVE  ~Suspends(i)' /\ ctl'[i].role # "switch"
  BY DEF Open
<1>1. i \in 1..n /\ \A l \in (i + 1)..(k - 1) : l \in 1..n
  OBVIOUS
<1>2. SameBody(i, k)
  BY <1>1 DEF SameBody, Kept
<1>3. ~Suspends(i) /\ ctl[i].role # "switch"
  BY <1>2 DEF Open
<1> QED
  BY <1>1, <1>3 DEF Kept

LEMMA NotTheLast == \A d \in Nat : \A k \in 1..d : k < d => k \in 1..(d - 1)
  OBVIOUS

(* Frames up to n are as they were, and the one above them has its role if *)
(* it was there: what is left to show is of those above.                   *)
LEMMA DeclarationsAbove ==
  ASSUME TypeOK, Declarations, NEW n \in 0..Depth, Depth' \in Nat, n <= Depth', Kept(n),
         n < Depth /\ n < Depth' => \A k : k = n + 1 => ctl'[k].role = ctl[k].role,
         \A k \in 1..(Depth' - 1) : (k > n \/ k = Depth) /\ ctl'[k].role \in Decls => Follows(k)',
         \A k \in (n + 1)..Depth' :
           ctl'[k].role \in Decls \cup {"decorator"} => (k <= Depth /\ k = n + 1) \/ Open(k)'
  PROVE  Declarations'
<1>1. Depth \in Nat /\ n \in Nat
  BY Frames
<1>2. \A k \in 1..Depth : /\ ctl[k].role \in Decls /\ k < Depth => Follows(k)
                          /\ ctl[k].role \in Decls \cup {"decorator"} => Open(k)
  BY DEF Declarations, Follows, Open
<1>3. ASSUME NEW k \in 1..Depth', ctl'[k].role \in Decls, k < Depth'
      PROVE  Follows(k)'
  <2>1. k \in 1..(Depth' - 1)
    BY <1>3, NotTheLast, Zenon
  <2>2. CASE k > n \/ k = Depth
    <3>1. \A m \in 1..(Depth' - 1) : (m > n \/ m = Depth) /\ ctl'[m].role \in Decls => Follows(m)'
      OBVIOUS
    <3> QED
      BY <1>3, <2>1, <2>2, <3>1, Zenon
  <2>3. CASE ~(k > n \/ k = Depth)
    <3>1. k \in 1..n /\ k \in 1..Depth /\ k < Depth /\ k <= n
      BY <1>1, <2>3
    <3>2. ctl'[k].role = ctl[k].role
      BY <3>1 DEF Kept
    <3>3. ASSUME NEW l, l = k + 1 PROVE ctl'[l].role = ctl[l].role
      <4>1. CASE l \in 1..n
        BY <4>1 DEF Kept
      <4>2. CASE l \notin 1..n
        <5>1. l = n + 1 /\ n < Depth /\ n < Depth'
          BY <1>1, <1>3, <3>1, <3>3, <4>2
        <5> QED
          BY <5>1
      <4> QED
        BY <4>1, <4>2
    <3>4. Follows(k)
      BY <1>2, <1>3, <3>1, <3>2
    <3> QED
      BY <3>2, <3>3, <3>4 DEF Follows
  <2> QED
    BY <2>2, <2>3
<1>4. ASSUME NEW k \in 1..Depth', ctl'[k].role \in Decls \cup {"decorator"}
      PROVE  Open(k)'
  <2>1. CASE k \in 1..n
    <3>1. ctl'[k].role = ctl[k].role /\ k \in 1..Depth /\ k \in 1..(n + 1)
      BY <1>1, <2>1 DEF Kept
    <3> QED
      BY <1>1, <1>2, <1>4, <3>1, KeptOpen
  <2>2. CASE k \in (n + 1)..Depth' /\ k <= Depth /\ k = n + 1
    <3>1. k \in 1..(n + 1) /\ k \in 1..Depth /\ ctl'[k].role = ctl[k].role
      BY <1>1, <2>2
    <3> QED
      BY <1>1, <1>2, <1>4, <3>1, KeptOpen
  <2>3. k \in 1..n \/ k \in (n + 1)..Depth'
    BY <1>1
  <2> QED
    BY <1>4, <2>1, <2>2, <2>3
<1>5. \A k \in 1..Depth' :
        /\ ctl'[k].role \in Decls /\ k < Depth' => Follows(k)'
        /\ ctl'[k].role \in Decls \cup {"decorator"} => Open(k)'
  BY <1>3, <1>4
<1> QED
  BY <1>5 DEF Declarations, Follows, Open


LEMMA DeclarationsStep ==
  ASSUME Inductive, {"switch", "finally", "decorator"} \subseteq Quiet, [Next]_vars
  PROVE  Declarations'
<1>1. /\ TypeOK /\ Declarations /\ Depth \in Nat \ {0} /\ Depth \in 1..Depth
      /\ Top \in FrameType /\ Top = ctl[Depth]
  BY Frames DEF Inductive, Top
<1>2. ASSUME NEW n \in Nat, Same(n) PROVE Kept(n)
  BY <1>2 DEF Same, Kept, Suspends, InFinally
<1>3. ASSUME NEW m, m = Depth, Kept(m), Depth' = Depth PROVE Declarations'
  <2>1. /\ m \in 0..Depth /\ Depth' \in Nat /\ m <= Depth' /\ ~(m < Depth)
        /\ \A k : k \notin (m + 1)..Depth'
        /\ \A k \in 1..(Depth' - 1) : ~(k > m \/ k = Depth)
    BY <1>1, <1>3
  <2> QED
    BY <1>1, <1>3, <2>1, DeclarationsAbove
<1>4. ASSUME NEW n, n = Depth - 1, Kept(n), Depth' = n PROVE Declarations'
  <2>1. /\ n \in 0..Depth /\ Depth' \in Nat /\ n <= Depth' /\ ~(n < Depth')
        /\ \A k : k \notin (n + 1)..Depth'
        /\ \A k \in 1..(Depth' - 1) : ~(k > n \/ k = Depth)
    BY <1>1, <1>4
  <2> QED
    BY <1>1, <1>4, <2>1, DeclarationsAbove
(* The top frame keeps its role, which is no declaration's; a list may be  *)
(* pushed on it.                                                           *)
<1>5. ASSUME NEW n, n = Depth - 1, Same(n), Top.role \notin Decls,
             ctl'[Depth].role = Top.role,
             \/ Depth' = Depth
             \/ Depth' = Depth + 1 /\ ctl'[Depth + 1].role = "list"
      PROVE  Declarations'
  <2>1. /\ n \in 0..Depth /\ n \in Nat /\ Depth' \in Nat /\ n <= Depth'
        /\ \A k : k = n + 1 => k = Depth
        /\ \A k \in 1..(Depth' - 1) : k > n \/ k = Depth => k = Depth
        /\ \A k \in (n + 1)..Depth' : k = Depth \/ (k = Depth + 1 /\ ctl'[k].role = "list")
        /\ Depth <= Depth /\ Depth = n + 1
    BY <1>1, <1>5
  <2>2. Kept(n)
    BY <1>2, <1>5, <2>1
  <2>3. \A k : k = n + 1 => ctl'[k].role = ctl[k].role
    BY <1>1, <1>5, <2>1
  <2>4. \A k \in 1..(Depth' - 1) : k > n \/ k = Depth => ctl'[k].role \notin Decls
    BY <1>5, <2>1
  <2>5. \A k \in (n + 1)..Depth' :
          ctl'[k].role \in Decls \cup {"decorator"} => k <= Depth /\ k = n + 1
    BY <2>1 DEF Decls
  <2> QED
    BY <1>1, <2>1, <2>2, <2>3, <2>4, <2>5, DeclarationsAbove
<1>6. CASE \E kind \in Jumps : Jump(kind)
  <2>1. PICK kind \in Jumps : Jump(kind)
    BY <1>6
  <2>2. PICK s : s = SetStop(kind) /\ ctl' = s /\ Depth' = Depth
    BY <1>1, <2>1, JumpEffect
  <2>3. SameShape(s)
    BY <1>1, <2>2, StopEffect DEF Flags
  <2>4. Kept(Depth)
    BY <2>2, <2>3 DEF SameShape, Kept, Suspends, InFinally
  <2> QED
    BY <1>3, <2>2, <2>4
<1>7. CASE Restarts
  <2>1. PICK s : s = SetStop("go") /\ \A k \in 1..(Depth - 1) : ctl'[k] = s[k]
    BY <1>7 DEF Restarts
  <2>2. SameShape(s) /\ Depth' = Depth - 1
    BY <1>1, <1>7, <2>1, StopEffect DEF Flags, Restarts
  <2>3. \A k \in 1..(Depth - 1) : k \in 1..Depth
    BY <1>1
  <2>4. Kept(Depth - 1)
    BY <2>1, <2>2, <2>3 DEF SameShape, Kept, Suspends, InFinally
  <2> QED
    BY <1>4, <2>2, <2>4
<1>8. CASE Defer
  <2>1. PICK g \in FrameType :
           /\ g = [ctl[Main] EXCEPT !.made = ctl[Main].made + 1,
                                    !.defers = Append(ctl[Main].defers, ctl[Main].made + 1)]
           /\ Depth' = Depth
           /\ ctl'[Main] = g /\ \A i \in 1..Depth : i # Main => ctl'[i] = ctl[i]
    BY <1>1, <1>8, DeferEffect
  <2>2. ctl[Main] \in FrameType
    BY <1>1, Frames, MainFacts
  <2>3. g.role = ctl[Main].role /\ g.phase = ctl[Main].phase
    BY <2>1, <2>2 DEF FrameType
  <2>4. Kept(Depth)
    BY <2>1, <2>3 DEF Kept, Suspends, InFinally
  <2> QED
    BY <1>3, <2>1, <2>4
<1>9. CASE Fails \/ UNCHANGED ctl
  <2>1. Kept(Depth) /\ Depth' = Depth
    BY <1>9 DEF Fails, Kept, Suspends, InFinally, Depth
  <2> QED
    BY <1>3, <2>1
<1>10. CASE Leaves
  <2>1. Same(Depth - 1) /\ Depth' = Depth - 1 /\ Depth - 1 \in Nat
    BY <1>1, <1>10 DEF Leaves, Popped
  <2> QED
    BY <1>2, <1>4, <2>1
<1>11. CASE Begins
  <2>1. PICK f \in FrameType :
          Begun(f) /\ \/ Top.role = "list" /\ f.role \in {"if", "func", "try"}
                      \/ Top.role \in Decls /\ f.role = "decorator"
    BY <1>11 DEF Begins
  <2>2. PICK d, e : d = Depth /\ e = Depth + 1
    OBVIOUS
  <2>3. /\ Same(d) /\ Depth' = d + 2 /\ ctl'[e] = f
        /\ \A k : k = d + 2 => ctl'[k].role = "list"
    BY <2>1, <2>2 DEF Begun, List, Frame
  <2>4. /\ d \in 0..Depth /\ d \in Nat /\ d \in 1..Depth /\ Depth' \in Nat
        /\ d <= Depth' /\ ~(d < Depth) /\ e = d + 1 /\ e \in 1..(d + 1) /\ d \in 1..(d + 1)
        /\ \A k \in 1..(Depth' - 1) : k > d \/ k = Depth => k = d \/ k = e
        /\ \A k \in (d + 1)..Depth' : k = e \/ k = d + 2
    BY <1>1, <2>2, <2>3
  <2>5. Kept(d) /\ ctl'[d] = Top
    BY <1>1, <1>2, <2>2, <2>3, <2>4 DEF Same
  <2>6. f.role \notin Decls /\ (Top.role \in Decls => f.role = "decorator")
    BY <2>1 DEF Decls
  <2>7. \A k \in 1..(Depth' - 1) : (k > d \/ k = Depth) /\ ctl'[k].role \in Decls => Follows(k)'
    BY <2>3, <2>4, <2>5, <2>6 DEF Follows
  <2>8. ASSUME f.role = "decorator" PROVE Open(e)'
    <3>1. Top.role \in Decls
      BY <2>1, <2>8
    <3>2. Open(d) /\ ~Suspends(d) /\ ctl[d].role # "switch"
      BY <1>1, <2>2, <3>1 DEF Declarations, Open, Suspends, InFinally, Decls
    <3>3. Open(e)
      <4> SUFFICES ASSUME NEW i \in 1..(e - 1), SameBody(i, e)
                   PROVE  ~Suspends(i) /\ ctl[i].role # "switch"
        BY DEF Open
      <4>1. i = d \/ i \in 1..(d - 1)
        BY <2>4
      <4>2. SameBody(i, d)
        BY <2>4 DEF SameBody
      <4> QED
        BY <3>2, <4>1, <4>2 DEF Open
    <3> QED
      BY <2>4, <2>5, <3>3, KeptOpen
  <2>9. \A k \in (d + 1)..Depth' : ctl'[k].role \in Decls \cup {"decorator"} => Open(k)'
    BY <2>3, <2>4, <2>6, <2>8 DEF Decls
  <2> QED
    BY <1>1, <2>4, <2>5, <2>7, <2>9, DeclarationsAbove
<1>12. CASE Opens
  <2>1. PICK ph, role : OpensWith(ph, role)
    BY <1>12 DEF Opens
  <2>2. PICK d, e : d = Depth /\ e = Depth + 1
    OBVIOUS
  <2>3. /\ Same(d - 1) /\ Depth' = e /\ ctl'[e].role = role
        /\ ctl'[d] = [Top EXCEPT !.phase = ph]
        /\ Top.role \in {"list", "switch"} \cup Loops \/ (Top.role = "annotation" /\ role = "class")
        /\ role \in {"list", "switch"} \cup Loops \cup Decls
        /\ role \in Decls => Top.role = "annotation" \/ (Top.role = "list" /\ ~InQuiet)
    BY <2>1, <2>2 DEF OpensWith, Grown, Frame
  <2>4. /\ d \in 0..Depth /\ d \in Nat /\ d \in 1..Depth /\ Depth' \in Nat
        /\ d <= Depth' /\ ~(d < Depth) /\ e = d + 1 /\ e \in 1..(d + 1)
        /\ \A k \in 1..(Depth' - 1) : k > d \/ k = Depth => k = d
        /\ \A k \in (d + 1)..Depth' : k = e
        /\ \A k \in 1..d : k = d \/ k \in 1..(d - 1)
    BY <1>1, <2>2, <2>3
  <2>5. ctl'[d].role = ctl[d].role /\ ctl[d] = Top /\ Top.role \notin {"try", "decorator"}
    BY <1>1, <2>2, <2>3 DEF FrameType, Loops
  <2>6. Kept(d)
    BY <2>3, <2>4, <2>5 DEF Kept, Same, Suspends, InFinally
  <2>7. \A k \in 1..(Depth' - 1) : (k > d \/ k = Depth) /\ ctl'[k].role \in Decls => Follows(k)'
    BY <2>3, <2>4, <2>5 DEF Follows, Decls, Loops
  <2>8. ASSUME role \in Decls PROVE Open(e)'
    <3>1. CASE Top.role = "annotation"
      <4>1. Open(d) /\ ~Suspends(d) /\ ctl[d].role # "switch"
        BY <1>1, <2>2, <2>5, <3>1 DEF Declarations, Open, Suspends, InFinally, Decls
      <4>2. Open(e)
        <5> SUFFICES ASSUME NEW i \in 1..(e - 1), SameBody(i, e)
                     PROVE  ~Suspends(i) /\ ctl[i].role # "switch"
          BY DEF Open
        <5>1. i = d \/ i \in 1..(d - 1)
          BY <2>4
        <5>2. SameBody(i, d)
          BY <2>4 DEF SameBody
        <5> QED
          BY <4>1, <5>1, <5>2 DEF Open
      <4> QED
        BY <2>4, <2>6, <4>2, KeptOpen
    <3>2. CASE ~InQuiet
      <4>1. \A i \in 1..(e - 1) : i \in 1..Depth /\ SameBody(i, e) = SameBody(i, Depth + 1)
        BY <2>2, <2>4
      <4>2. Open(e)
        BY <3>2, <4>1, QuietPlace DEF Open
      <4> QED
        BY <2>4, <2>6, <4>2, KeptOpen
    <3> QED
      BY <2>3, <2>8, <3>1, <3>2
  <2>9. \A k \in (d + 1)..Depth' : ctl'[k].role \in Decls \cup {"decorator"} => Open(k)'
    BY <2>3, <2>4, <2>8 DEF Loops
  <2> QED
    BY <1>1, <2>4, <2>6, <2>7, <2>9, DeclarationsAbove
<1>13. CASE Handles \/ BodyLeft \/ DeferredStarts \/ DeferredIsOver
  <2>1. /\ Same(Depth - 1)
        /\ Depth' = Depth \/ (Depth' = Depth + 1 /\ ctl'[Depth + 1].role = "list")
    BY <1>13 DEF Handles, BodyLeft, DeferredStarts, DeferredIsOver, Grown, Replaced, List, Frame
  <2>2. ctl'[Depth].role = Top.role
    <3>1. CASE Handles
      BY <1>1, <3>1 DEF Handles, Grown, FrameType
    <3>2. CASE BodyLeft
      BY <1>1, <3>2 DEF BodyLeft, Replaced, FrameType
    <3>3. CASE DeferredStarts
      <4> DEFINE c == Top.defers[Len(Top.defers)]
      <4>1. ctl'[Depth] = [Top EXCEPT !.phase = "deferred", !.cur = c]
        BY <3>3 DEF DeferredStarts, Grown
      <4> HIDE DEF c
      <4> QED
        BY <1>1, <4>1 DEF FrameType
    <3>4. CASE DeferredIsOver
      <4> DEFINE c == SubSeq(Top.defers, 1, Len(Top.defers) - 1)
      <4>1. ctl'[Depth] = [Top EXCEPT !.phase = "leaving", !.defers = c]
        BY <3>4 DEF DeferredIsOver, Replaced
      <4> HIDE DEF c
      <4> QED
        BY <1>1, <4>1 DEF FrameType
    <3> QED
      BY <1>13, <3>1, <3>2, <3>3, <3>4
  <2>3. Top.role \notin Decls
    BY <1>13 DEF Handles, BodyLeft, DeferredStarts, DeferredIsOver, Decls, Mains
  <2> QED
    BY <1>5, <2>1, <2>2, <2>3
<1> QED
  BY <1>1, StepCases, <1>6, <1>7, <1>8, <1>9, <1>10, <1>11, <1>12, <1>13

-----------------------------------------------------------------------------
(* After a jump, nothing runs in what it leaves.  The clauses that run     *)
(* while others wait are quiet: where one holds a jump, what is around it  *)
(* goes on.                                                                *)

(* b is the frame of the function, or of the script, that runs.            *)
Base(b) ==
  /\ b \in 1..Depth /\ ctl[b].role \in {"root", "func"}
  /\ \A k \in (b + 1)..Depth : ctl[k].role \notin {"root", "func"}

LEMMA BaseExists ==
  ASSUME TypeOK
  PROVE  \E b \in 1..Depth : Base(b)
<1> DEFINE S == {i \in 1..Depth : ctl[i].role \in {"root", "func"}}
<1>1. S # {} /\ S \subseteq 1..Depth /\ Depth \in Nat
  BY Frames DEF TypeOK
<1>2. PICK g \in S : \A i \in S : i <= g
  <2> HIDE DEF S
  <2> QED
    BY <1>1, GreatestExists
<1>3. \A j \in (g + 1)..Depth : ctl[j].role \notin {"root", "func"}
  BY <1>1, <1>2
<1> QED
  BY <1>2, <1>3 DEF Base

(* What a frame of that body may stand on is of that body.                 *)
LEMMA InBody ==
  ASSUME TypeOK, NEW b, Base(b), NEW j \in (b + 1)..(Depth + 1), NEW i \in 1..(j - 1),
         SameBody(i, j)
  PROVE  i \in b..Depth /\ (Stores(i) => i \in (b + 1)..Depth)
<1>1. Depth \in Nat /\ b \in 1..Depth
  BY Frames DEF Base
<1>2. ASSUME i < b PROVE FALSE
  <2>1. b \in (i + 1)..(j - 1) /\ b # 1
    BY <1>1, <1>2
  <2>2. ctl[b].role # "func"
    BY <2>1 DEF SameBody
  <2> QED
    BY <1>1, <2>1, <2>2 DEF TypeOK, Base
<1>3. ~Stores(b)
  BY DEF Base, Stores, Loops
<1> QED
  BY <1>1, <1>2, <1>3

(* The body above b stays one body.                                        *)
BaseStays(b) ==
  /\ b \in Nat /\ (b = 1 \/ ctl'[b].role = "func") /\ ctl'[b].role \in {"root", "func"}

LEMMA InBodyNext ==
  ASSUME NEW b \in Nat, BaseStays(b), NEW j \in Nat, j > b, NEW i \in 1..(j - 1),
         SameBody(i, j)'
  PROVE  i >= b /\ (Stores(i)' => i > b)
<1>1. ASSUME i < b PROVE FALSE
  <2>1. b \in (i + 1)..(j - 1) /\ b # 1
    BY <1>1
  <2> QED
    BY <2>1 DEF SameBody, BaseStays
<1>2. ~Stores(b)'
  BY DEF BaseStays, Stores, Loops
<1> QED
  BY <1>1, <1>2

LEMMA NextFrame ==
  \A d \in Nat : \A i \in 1..d : i < d => \E n \in (i + 1)..d : n = i + 1 /\ n \in 1..d
  OBVIOUS
LEMMA UpFrom ==
  \A d \in Nat : \A i \in 1..d : \A n \in (i + 1)..d : \A m \in (n + 1)..d : m \in (i + 1)..d
  OBVIOUS

(* In the running body nothing is quiet, and all that stores a flag is     *)
(* live.                                                                   *)
LEMMA WhereAJumpStands ==
  ASSUME Inductive, {"switch", "finally", "decorator"} \subseteq Quiet,
         NEW kind \in Jumps, Jump(kind), NEW b, Base(b)
  PROVE  /\ \A i \in b..Depth : ~Suspends(i) /\ ctl[i].role # "switch"
         /\ \A i \in (b + 1)..Depth : Stores(i) => Live(i)
         /\ \A i \in (b + 1)..Depth : ctl[i].role \in Decls =>
              \/ kind = "return"
              \/ \E k \in (i + 1)..Depth : ctl[k].role \in Loops
<1>1. /\ TypeOK /\ Flow /\ Declarations /\ Depth \in Nat \ {0} /\ Depth \in 1..Depth
      /\ b \in 1..Depth /\ Top = ctl[Depth]
      /\ Main \in 1..Depth /\ \A j \in (Main + 1)..Depth : ctl[j].role \notin Mains
      /\ ctl[Main].role \in Mains
  BY Frames, MainFacts DEF Inductive, Base, Top
<1>2. Top.role = "list" /\ Top.flag = "go" /\ ~InQuiet /\ ~Stray(kind)
  BY DEF Jump, AtStmt
<1>3. ASSUME NEW i \in b..Depth PROVE ~Suspends(i) /\ ctl[i].role # "switch"
  <2>1. i \in 1..Depth /\ \A k \in (i + 1)..((Depth + 1) - 1) : k \in (b + 1)..Depth
    BY <1>1
  <2>2. SameBody(i, Depth + 1)
    BY <2>1 DEF SameBody, Base
  <2> QED
    BY <1>2, <2>1, <2>2, QuietPlace
<1>4. ASSUME NEW i \in (b + 1)..Depth, Stores(i) PROVE Live(i)
  <2>1. Live(Depth)
    BY <1>1, <1>2 DEF Live
  <2>2. CASE i # Depth
    <3>1. i \in 1..(Depth - 1) /\ \A k \in (i + 1)..(Depth - 1) : k \in (b + 1)..Depth /\ k \in b..Depth
      BY <1>1, <2>2
    <3>2. SameBody(i, Depth) /\ ~Covered(i, Depth)
      BY <1>3, <3>1 DEF SameBody, Covered, Base
    <3> QED
      BY <1>1, <1>4, <2>1, <3>1, <3>2 DEF Flow, ClearBelow
  <2> QED
    BY <2>1, <2>2
<1>5. ASSUME NEW i \in (b + 1)..Depth, ctl[i].role \in Decls, kind # "return"
      PROVE  \E k \in (i + 1)..Depth : ctl[k].role \in Loops
  <2>1. i \in 1..Depth /\ i < Depth
    BY <1>1, <1>2, <1>5 DEF Decls
  <2>2. ASSUME NEW n \in (i + 1)..Depth, ctl[n].role = "decorator"
        PROVE  Main > i /\ ctl[Main].role = "decorator"
    <3>1. ~(n \in (Main + 1)..Depth)
      BY <1>1, <2>2 DEF Mains
    <3>2. Main >= n
      BY <1>1, <3>1
    <3>3. Main \in (b + 1)..Depth
      BY <1>1, <3>2
    <3> QED
      BY <1>1, <3>2, <3>3 DEF Base, Mains
  <2>3. \E n \in (i + 1)..Depth : ctl[n].role = "decorator"
    <3>1. PICK n \in (i + 1)..Depth : n = i + 1 /\ n \in 1..Depth
      BY <1>1, <2>1, NextFrame
    <3>2. Follows(i)
      BY <1>1, <1>5, <2>1 DEF Declarations, Follows
    <3>3. ctl[n].role = "decorator" \/ ctl[n].role = "class"
      BY <3>1, <3>2 DEF Follows
    <3>4. CASE ctl[n].role = "class"
      <4>1. n < Depth
        BY <1>1, <1>2, <3>1, <3>4
      <4>2. PICK m \in (n + 1)..Depth : m = n + 1
        BY <1>1, <3>1, <4>1, NextFrame
      <4>3. Follows(n)
        BY <1>1, <3>1, <3>4, <4>1 DEF Declarations, Follows, Decls
      <4>4. ctl[m].role = "decorator"
        BY <3>4, <4>2, <4>3 DEF Follows
      <4>5. m \in (i + 1)..Depth
        BY <1>1, <3>1, <4>2, UpFrom
      <4> QED
        BY <4>4, <4>5
    <3> QED
      BY <3>2, <3>3, <3>4
  <2>4. Main > i /\ ctl[Main].role = "decorator"
    BY <2>2, <2>3
  <2>5. PICK k \in Main..Depth : ctl[k].role \in Loops
    BY <1>2, <1>5, <2>4 DEF Stray
  <2>6. k \in (i + 1)..Depth
    BY <1>1, <2>4, <2>5
  <2> QED
    BY <2>5, <2>6
<1> QED
  BY <1>3, <1>4, <1>5

LEMMA JumpFlow ==
  ASSUME Inductive, {"switch", "finally", "decorator"} \subseteq Quiet,
         NEW kind \in Jumps, Jump(kind)
  PROVE  Flow' /\ Taken' /\ QuietClauses'
<1>1. /\ TypeOK /\ Flow /\ Taken /\ QuietClauses
      /\ Depth \in Nat \ {0} /\ Depth \in 1..Depth
      /\ \A i \in 1..Depth : ctl[i] \in FrameType /\ WellFormed(ctl[i])
  BY Frames DEF Inductive, TypeOK
<1>2. PICK b \in 1..Depth : Base(b)
  BY <1>1, BaseExists
<1>3. PICK s : /\ s = SetStop(kind) /\ ctl' = s /\ Depth' = Depth
               /\ exc' = "none" /\ Top.role = "list"
  BY <1>1, JumpEffect
<1>4. SameShape(s) /\ \A i \in 1..Depth : Untouched(s, kind, i) /\ Told(s, kind, i)
  BY <1>1, <1>3, StopEffect DEF Flags
<1>5. /\ \A i \in b..Depth : ~Suspends(i) /\ ctl[i].role # "switch"
      /\ \A i \in (b + 1)..Depth : Stores(i) => Live(i)
      /\ \A i \in (b + 1)..Depth : ctl[i].role \in Decls =>
           kind = "return" \/ \E k \in (i + 1)..Depth : ctl[k].role \in Loops
  BY <1>2, WhereAJumpStands
<1>6. \A i \in 1..Depth : /\ ctl'[i].role = ctl[i].role /\ ctl'[i].phase = ctl[i].phase
                          /\ ctl'[i].saved = ctl[i].saved
                          /\ Suspends(i)' = Suspends(i) /\ InFinally(i)' = InFinally(i)
                          /\ Stores(i)' = Stores(i)
  BY <1>3, <1>4 DEF SameShape, Suspends, InFinally, Stores
<1>7. \A i \in 1..b : i \in 1..Depth /\ ctl'[i] = ctl[i]
  <2> SUFFICES ASSUME NEW i \in 1..b PROVE i \in 1..Depth /\ ctl'[i] = ctl[i]
    OBVIOUS
  <2>1. i \in 1..Depth
    BY <1>1
  <2>2. CASE i = b
    BY <1>2, <1>3, <1>4, <2>1, <2>2 DEF Base, Untouched, Stores, Loops
  <2>3. CASE i # b
    <3>1. b \in (i + 1)..Depth
      BY <1>1, <2>3
    <3> QED
      BY <1>2, <1>3, <1>4, <2>1, <3>1 DEF Base, Untouched, CallAbove
  <2> QED
    BY <2>1, <2>2, <2>3
<1>8. Alike(b)
  BY <1>6, <1>7 DEF Alike
<1>9. \A i \in (b + 1)..Depth : i \in 1..Depth /\ i \in b..Depth /\ ~CallAbove(i)
  <2> SUFFICES ASSUME NEW i \in (b + 1)..Depth
               PROVE  i \in 1..Depth /\ i \in b..Depth /\ ~CallAbove(i)
    OBVIOUS
  <2>1. \A k \in (i + 1)..Depth : k \in (b + 1)..Depth
    BY <1>1
  <2>2. i \in 1..Depth /\ i \in b..Depth
    BY <1>1
  <2> QED
    BY <1>2, <2>1, <2>2 DEF Base, CallAbove
(* What is live in the body stores a flag, or is an annotation.            *)
<1>10. \A i \in (b + 1)..Depth : Live(i)' => Stores(i) \/ ctl[i].role = "annotation"
  <2> SUFFICES ASSUME NEW i \in (b + 1)..Depth, Live(i)', ~Stores(i), ctl[i].role # "annotation"
               PROVE  FALSE
    OBVIOUS
  <2>1. ctl'[i].role = ctl[i].role /\ ctl'[i].saved = ctl[i].saved /\ ~Suspends(i)
        /\ ctl[i].role \notin {"switch", "func"} /\ i \in 1..Depth
    BY <1>2, <1>5, <1>6, <1>9 DEF Base
  <2>2. ctl[i].role \in {"try", "decorator"} /\ ctl[i].saved # "none"
    BY <2>1 DEF Live, Stores
  <2>3. ctl[i].phase \in {"finally", "leaving", "deferred"}
    BY <1>1, <2>1, <2>2 DEF WellFormed
  <2>4. ctl[i].phase # "leaving"
    <3> SUFFICES ASSUME ctl[i].phase = "leaving" PROVE FALSE
      OBVIOUS
    <3>1. i = Depth
      BY <1>1, <2>1 DEF TypeOK
    <3> QED
      BY <1>3, <2>2, <3>1 DEF Top
  <2>5. ctl[i].phase = "finally" => ctl[i].role = "try"
    BY <1>1, <2>1 DEF WellFormed
  <2>6. ctl[i].phase = "deferred" => ctl[i].role = "decorator"
    BY <1>1, <2>1, <2>2 DEF WellFormed, Mains
  <2> QED
    BY <2>1, <2>3, <2>4, <2>5, <2>6 DEF Suspends, InFinally
(* What they stand on is of the body too.                                  *)
<1>11. BaseStays(b)
  BY <1>1, <1>2, <1>7 DEF BaseStays, Base, TypeOK
<1>12. ASSUME NEW j \in (b + 1)..Depth, NEW i \in 1..(j - 1), Stores(i)', SameBody(i, j)'
       PROVE  /\ i \in (b + 1)..Depth /\ i \in 1..Depth /\ j \in (i + 1)..Depth
              /\ Stores(i) /\ Live(i) /\ ~CallAbove(i)
  <2>1. j \in Nat /\ j > b /\ i \in 1..Depth
    BY <1>1
  <2>2. i > b
    BY <1>11, <1>12, <2>1, InBodyNext
  <2>3. i \in (b + 1)..Depth /\ j \in (i + 1)..Depth
    BY <1>1, <2>2
  <2> QED
    BY <1>5, <1>6, <1>9, <1>12, <2>1, <2>3
<1>13. ASSUME NEW i \in 1..Depth, Stores(i), Live(i), ctl'[i].flag \in {ctl[i].flag, "go"}
       PROVE  Live(i)'
  BY <1>6, <1>13 DEF Live, Stores, Loops
<1>14. ASSUME NEW j \in (b + 1)..Depth, Live(j)' PROVE ClearBelow(j)'
  <2> SUFFICES ASSUME NEW i \in 1..(j - 1), Stores(i)', SameBody(i, j)' PROVE Live(i)'
    BY DEF ClearBelow
  <2>1. /\ i \in (b + 1)..Depth /\ i \in 1..Depth /\ j \in (i + 1)..Depth
        /\ Stores(i) /\ Live(i) /\ ~CallAbove(i)
    BY <1>12
  <2>2. j \in 1..Depth /\ ~CallAbove(j) /\ (Stores(j) \/ ctl[j].role = "annotation")
    BY <1>9, <1>10, <1>14
  <2>3. /\ Told(s, kind, i) /\ Untouched(s, kind, i) /\ Told(s, kind, j)
    BY <1>4, <2>1, <2>2
  <2>4. CASE kind = "return"
    <3>1. CASE AnnotationAbove(i)
      <4>1. ctl'[i] = ctl[i]
        BY <1>3, <2>3, <2>4, <3>1 DEF Untouched
      <4> QED
        BY <1>13, <2>1, <4>1
    <3>2. CASE ~AnnotationAbove(i)
      <4>1. \A k \in (j + 1)..Depth : k \in (i + 1)..Depth
        BY <1>1, <2>1
      <4>2. ctl[j].role # "annotation" /\ ~AnnotationAbove(j)
        BY <2>1, <3>2, <4>1 DEF AnnotationAbove
      <4>3. ctl'[j].flag = "return" /\ ctl'[j].role = ctl[j].role /\ Stores(j)
        BY <1>3, <1>6, <2>2, <2>3, <2>4, <4>2 DEF Told
      <4>4. ~Live(j)'
        BY <4>3 DEF Live, Stores, Loops
      <4> QED
        BY <1>14, <4>4
    <3> QED
      BY <3>1, <3>2
  <2>5. CASE kind # "return"
    <3>1. kind \in {"break", "continue"}
      BY <2>5 DEF Jumps
    <3>2. CASE LoopAbove(i)
      <4>1. ctl'[i].flag \in {ctl[i].flag, "go"}
        BY <1>3, <2>1, <2>3, <3>1, <3>2 DEF Told
      <4> QED
        BY <1>13, <2>1, <4>1
    <3>3. CASE ~LoopAbove(i)
      <4>1. \A k \in (j + 1)..Depth : k \in (i + 1)..Depth
        BY <1>1, <2>1
      <4>2. ctl[j].role \notin Loops /\ ~LoopAbove(j)
        BY <2>1, <3>3, <4>1 DEF LoopAbove
      <4>3. ctl[j].role # "annotation"
        <5>1. ASSUME ctl[j].role = "annotation" PROVE LoopAbove(j)
          BY <1>5, <2>5, <5>1 DEF LoopAbove, Decls
        <5> QED
          BY <4>2, <5>1
      <4>4. ctl'[j].flag = kind /\ ctl'[j].role = ctl[j].role /\ Stores(j)
        BY <1>3, <1>6, <2>2, <2>3, <3>1, <4>2, <4>3 DEF Told
      <4>5. ~Live(j)'
        BY <3>1, <4>2, <4>4 DEF Live, Stores
      <4> QED
        BY <1>14, <4>5
    <3> QED
      BY <3>2, <3>3
  <2> QED
    BY <2>4, <2>5
<1>15. ASSUME NEW j \in (b + 1)..Depth, ctl'[j].role \in Loops PROVE TakenBelow(j)'
  <2> SUFFICES ASSUME NEW i \in 1..(j - 1), Stores(i)', SameBody(i, j)'
               PROVE  ctl'[i].flag # "break" /\ (ctl'[i].role = "list" => ctl'[i].flag # "continue")
    BY DEF TakenBelow
  <2>1. /\ i \in 1..Depth /\ j \in (i + 1)..Depth /\ Stores(i) /\ Live(i) /\ ~CallAbove(i)
        /\ ctl'[i].role = ctl[i].role /\ ctl'[j].role = ctl[j].role
    BY <1>6, <1>9, <1>12
  <2>2. Told(s, kind, i) /\ Untouched(s, kind, i) /\ LoopAbove(i)
    BY <1>4, <1>15, <2>1 DEF LoopAbove
  <2>3. ctl[i].flag # "break" /\ (ctl[i].role = "list" => ctl[i].flag # "continue")
    BY <2>1 DEF Live, Stores, Loops
  <2>4. ctl'[i].flag \in {ctl[i].flag, "go", "return"}
    <3>1. CASE kind \in {"break", "continue"}
      BY <1>3, <2>1, <2>2, <3>1 DEF Told
    <3>2. CASE kind = "return"
      <4>1. CASE AnnotationAbove(i)
        BY <1>3, <2>2, <3>2, <4>1 DEF Untouched
      <4>2. CASE ~AnnotationAbove(i)
        BY <1>3, <2>1, <2>2, <3>2, <4>2 DEF Told
      <4> QED
        BY <4>1, <4>2
    <3> QED
      BY <3>1, <3>2 DEF Jumps
  <2> QED
    BY <2>1, <2>3, <2>4
<1>16. ASSUME NEW j \in (b + 1)..Depth, NEW i \in 1..(j - 1), Suspends(i)'
       PROVE  ~SameBody(i, j + 1)'
  <2>1. i \in 1..Depth /\ j + 1 \in Nat /\ j + 1 > b /\ i \in 1..((j + 1) - 1)
    BY <1>1
  <2>2. ~(i >= b)
    BY <1>1, <1>5, <1>6, <1>16, <2>1
  <2> QED
    BY <1>1, <1>11, <2>1, <2>2, InBodyNext
<1>17. ASSUME NEW i \in 1..Depth, InFinally(i)', NEW j \in (b + 1)..Depth, j > i
       PROVE  ctl'[j].saved = "none"
  <2>1. InFinally(i) /\ j \in (i + 1)..Depth /\ j \in 1..Depth
    BY <1>1, <1>6, <1>9, <1>17
  <2> QED
    BY <1>1, <1>6, <2>1 DEF QuietClauses
<1>18. b \in 0..Depth /\ b <= Depth /\ exc' \notin {"object", "error"}
  BY <1>1, <1>3
<1>19. \A i : i = Depth' => ctl'[i].role # "class"
  BY <1>1, <1>3, <1>6 DEF Top
<1> QED
  BY <1>1, <1>3, <1>8, <1>14, <1>15, <1>16, <1>17, <1>18, <1>19, AboveSuffices

(* A decorator of a class returns: all of the body is told to go on.       *)
LEMMA RestartFlow ==
  ASSUME Inductive, Restarts
  PROVE  Flow' /\ Taken' /\ QuietClauses'
<1>1. /\ TypeOK /\ Flow /\ Taken /\ QuietClauses
      /\ Depth \in Nat \ {0} /\ Depth > 1 /\ Depth' = Depth - 1 /\ exc' = "none"
      /\ \A i \in 1..Depth : ctl[i] \in FrameType /\ WellFormed(ctl[i])
      /\ Top = ctl[Depth] /\ Top.role = "decorator"
  BY Frames DEF Inductive, TypeOK, Restarts, Top
<1>2. PICK b \in 1..Depth : Base(b)
  BY <1>1, BaseExists
<1>3. PICK s : s = SetStop("go") /\ \A i \in 1..(Depth - 1) : ctl'[i] = s[i]
  BY DEF Restarts
<1>4. SameShape(s) /\ \A i \in 1..Depth : Untouched(s, "go", i) /\ Told(s, "go", i)
  BY <1>1, <1>3, StopEffect DEF Flags
<1>5. \A i \in 1..(Depth - 1) :
        /\ i \in 1..Depth
        /\ ctl'[i].role = ctl[i].role /\ ctl'[i].phase = ctl[i].phase
        /\ ctl'[i].saved = ctl[i].saved
        /\ Suspends(i)' = Suspends(i) /\ InFinally(i)' = InFinally(i)
        /\ Stores(i)' = Stores(i)
  BY <1>1, <1>3, <1>4 DEF SameShape, Suspends, InFinally, Stores
<1>6. b # Depth
  BY <1>1, <1>2 DEF Base
<1>7. /\ b \in 0..Depth /\ b \in Nat /\ b <= Depth' /\ Depth' \in Nat
      /\ \A i \in 1..b : i \in 1..(Depth - 1)
      /\ \A j \in (b + 1)..Depth' : j \in 1..(Depth - 1) /\ j \in (b + 1)..Depth
  BY <1>1, <1>2, <1>6
<1>8. \A i \in 1..b : ctl'[i] = ctl[i]
  <2> SUFFICES ASSUME NEW i \in 1..b PROVE ctl'[i] = ctl[i]
    OBVIOUS
  <2>1. i \in 1..(Depth - 1) /\ i \in 1..Depth
    BY <1>5, <1>7
  <2>2. CASE i = b
    BY <1>2, <1>3, <1>4, <2>1, <2>2 DEF Base, Untouched, Stores, Loops
  <2>3. CASE i # b
    <3>1. b \in (i + 1)..Depth
      BY <1>1, <1>7, <2>3
    <3> QED
      BY <1>2, <1>3, <1>4, <2>1, <3>1 DEF Base, Untouched, CallAbove
  <2> QED
    BY <2>2, <2>3
<1>9. Alike(b)
  BY <1>5, <1>7, <1>8 DEF Alike
<1>10. BaseStays(b)
  BY <1>1, <1>2, <1>7, <1>8 DEF BaseStays, Base, TypeOK
<1>11. ASSUME NEW i \in (b + 1)..Depth' PROVE ctl'[i].flag = "go"
  <2>1. i \in 1..(Depth - 1) /\ i \in 1..Depth /\ \A k \in (i + 1)..Depth : k \in (b + 1)..Depth
    BY <1>1, <1>7
  <2>2. ~CallAbove(i) /\ Told(s, "go", i) /\ Untouched(s, "go", i)
    BY <1>2, <1>4, <2>1 DEF Base, CallAbove
  <2>3. CASE Stores(i)
    BY <1>3, <2>1, <2>2, <2>3 DEF Told
  <2>4. CASE ~Stores(i)
    BY <1>1, <1>3, <2>1, <2>2, <2>4 DEF Untouched, WellFormed, Stores
  <2> QED
    BY <2>3, <2>4
<1>12. ASSUME NEW j \in (b + 1)..Depth' PROVE ClearBelow(j)'
  <2> SUFFICES ASSUME NEW i \in 1..(j - 1), Stores(i)', SameBody(i, j)' PROVE Live(i)'
    BY DEF ClearBelow
  <2>1. j \in Nat /\ j > b
    BY <1>7
  <2>2. i > b
    BY <1>7, <1>10, <2>1, InBodyNext
  <2>3. i \in (b + 1)..Depth'
    BY <1>7, <2>2
  <2>4. ctl'[i].flag = "go"
    BY <1>11, <2>3
  <2> QED
    BY <2>4 DEF Live, Stores
<1>13. \A j \in (b + 1)..Depth' : ClearBelow(j)' /\ TakenBelow(j)' /\ j \in Nat
  BY <1>7, <1>12, ItStandsNext DEF Stands
<1>14. ASSUME NEW i \in 1..Depth', InFinally(i)', NEW j \in (b + 1)..Depth', j > i
       PROVE  ctl'[j].saved = "none"
  <2>1. i \in 1..(Depth - 1) /\ i \in 1..Depth /\ j \in (i + 1)..Depth /\ j \in 1..(Depth - 1)
    BY <1>1, <1>7, <1>14
  <2>2. InFinally(i)
    BY <1>5, <1>14, <2>1
  <2> QED
    BY <1>1, <1>5, <2>1, <2>2 DEF QuietClauses
<1>15. \A i : i = Depth' /\ ctl'[i].role = "class" => ClearBelow(i)'
  <2> SUFFICES ASSUME NEW i, i = Depth', ctl'[i].role = "class" PROVE ClearBelow(i)'
    OBVIOUS
  <2>1. i # b
    BY <1>2, <1>7, <1>8 DEF Base
  <2>2. i \in (b + 1)..Depth'
    BY <1>7, <2>1
  <2> QED
    BY <1>12, <2>2
<1>16. exc' \notin {"object", "error"}
  BY <1>1
<1> QED
  BY <1>1, <1>7, <1>9, <1>11, <1>13, <1>14, <1>15, <1>16, AboveSuffices

LEMMA FlowStep ==
  ASSUME Inductive, {"switch", "finally", "decorator"} \subseteq Quiet, [Next]_vars
  PROVE  Flow' /\ Taken' /\ QuietClauses'
<1>1. /\ TypeOK /\ Flow /\ Taken /\ QuietClauses
      /\ Depth \in Nat \ {0} /\ Depth \in 1..Depth
      /\ Top \in FrameType /\ Top = ctl[Depth] /\ WellFormed(Top)
      /\ exc \in {"none", "object", "error", "terminate"}
      /\ \A i \in 1..Depth : InFinally(i) => exc \notin Thrown
      /\ exc = "none" /\ Top.role = "class" => ClearBelow(Depth)
  BY Frames DEF Inductive, TypeOK, Top, QuietClauses, Flow, Thrown
<1>2. List.role = "list" /\ List.flag = "go" /\ List.phase = "body" /\ List.saved = "none"
  BY NewFrame DEF List
<1>3. (exc = "none" /\ Resumes) \/ Live(Depth) => ClearBelow(Depth) /\ ClearBelow(Depth + 1)
  BY <1>1, ItStands DEF Flow, Stands, Resumes, Stores, Loops
<1>4. \A n \in Nat : Same(n) => Alike(n)
  BY DEF Same, Alike, Suspends, InFinally
<1>5. ASSUME ctl'[Depth].role = Top.role, ctl'[Depth].flag = Top.flag,
             ctl'[Depth].saved = Top.saved,
             Top.role = "try" => (ctl'[Depth].phase = "finally" <=> Top.phase = "finally"),
             Top.role # "decorator", Same(Depth - 1)
      PROVE  Alike(Depth)
  <2>1. Alike(Depth - 1) /\ \A i \in 1..Depth : i \in 1..(Depth - 1) \/ i = Depth
    BY <1>1, <1>4, <1>5
  <2>2. ASSUME NEW i, i = Depth
        PROVE  InFinally(i)' = InFinally(i) /\ Suspends(i)' = Suspends(i)
    <3>1. InFinally(i)' = InFinally(i)
      BY <1>1, <1>5, <2>2 DEF InFinally
    <3>2. ctl'[i].role # "decorator" /\ ctl[i].role # "decorator"
      BY <1>1, <1>5, <2>2
    <3> QED
      BY <3>1, <3>2 DEF Suspends
  <2>3. ASSUME NEW i \in 1..Depth
        PROVE  /\ ctl'[i].role = ctl[i].role /\ ctl'[i].flag = ctl[i].flag
               /\ ctl'[i].saved = ctl[i].saved
               /\ Suspends(i)' = Suspends(i) /\ InFinally(i)' = InFinally(i)
    <3>1. CASE i = Depth
      BY <1>1, <1>5, <2>2, <3>1
    <3>2. CASE i \in 1..(Depth - 1)
      BY <2>1, <3>2 DEF Alike
    <3> QED
      BY <2>1, <3>1, <3>2
  <2> QED
    BY <2>3 DEF Alike
(* One new frame, on a stack where what matters is as before.              *)
<1>6. ASSUME Alike(Depth), Depth' = Depth + 1, exc' = "none",
             \A d : d = Depth + 1 => /\ ClearBelow(d)' /\ ctl'[d].flag = "go"
                                    /\ ctl'[d].saved = "none"
      PROVE  Flow' /\ Taken' /\ QuietClauses'
  <2>1. \A j \in (Depth + 1)..Depth' : j = Depth + 1 /\ j \in Nat
    BY <1>1, <1>6
  <2>2. \A j \in (Depth + 1)..Depth' : ClearBelow(j)' /\ TakenBelow(j)'
    BY <1>6, <2>1, ItStandsNext DEF Stands
  <2>3. Depth \in 0..Depth /\ Depth' \in Nat /\ Depth <= Depth'
    BY <1>1, <1>6
  <2> QED
    BY <1>1, <1>6, <2>1, <2>2, <2>3, AboveSuffices
<1>7. ASSUME Alike(Depth), Depth' = Depth, exc' = "none" /\ Top.role = "class" => exc = "none",
             exc' \in Thrown => /\ \A d : d = Depth + 1 => ClearBelow(d)'
                                /\ \A i \in 1..Depth : ~InFinally(i)
      PROVE  Flow' /\ Taken' /\ QuietClauses'
  <2>1. Depth \in 0..Depth /\ Depth' \in Nat /\ Depth <= Depth'
        /\ \A j : j \notin (Depth + 1)..Depth'
    BY <1>1, <1>7
  <2>2. \A i \in 1..Depth' : InFinally(i)' => exc' \notin {"object", "error"}
    BY <1>7 DEF Alike, Thrown
  <2>3. \A i : i = Depth' + 1 /\ exc' \in {"object", "error"} => ClearBelow(i)'
    BY <1>7 DEF Thrown
  <2>4. \A i : i = Depth' /\ exc' = "none" /\ ctl'[i].role = "class" => ClearBelow(i)'
    <3> SUFFICES ASSUME NEW i, i = Depth', exc' = "none", ctl'[i].role = "class"
                 PROVE  ClearBelow(i)'
      OBVIOUS
    <3>1. i \in 1..Depth /\ i \in 1..(Depth + 1) /\ i = Depth
      BY <1>1, <1>7
    <3>2. Top.role = "class"
      BY <1>1, <1>7, <3>1 DEF Alike
    <3>3. ClearBelow(i)
      BY <1>1, <1>7, <3>1, <3>2
    <3> QED
      BY <1>1, <1>7, <3>1, <3>3, AlikeFacts
  <2> QED
    BY <1>1, <1>7, <2>1, <2>2, <2>3, <2>4, AboveSuffices
<1>8. ASSUME UNCHANGED ctl, exc' = "none" /\ Top.role = "class" => exc = "none",
             exc' \in Thrown =>
               /\ ClearBelow(Depth + 1) /\ \A i \in 1..Depth : ~InFinally(i)
      PROVE  Flow' /\ Taken' /\ QuietClauses'
  <2>1. Alike(Depth) /\ Depth' = Depth
    BY <1>8 DEF Alike, Suspends, InFinally, Depth
  <2>2. Depth + 1 \in 1..(Depth + 1)
    BY <1>1
  <2>3. ClearBelow(Depth + 1) => \A d : d = Depth + 1 => ClearBelow(d)'
    BY <1>1, <2>1, <2>2, AlikeFacts
  <2> QED
    BY <1>7, <1>8, <2>1, <2>3
<1>9. CASE \E kind \in Jumps : Jump(kind)
  BY <1>9, JumpFlow
<1>10. CASE Defer
  <2>1. PICK g \in FrameType :
           /\ g = [ctl[Main] EXCEPT !.made = ctl[Main].made + 1,
                                    !.defers = Append(ctl[Main].defers, ctl[Main].made + 1)]
           /\ Depth' = Depth /\ exc' = "none"
           /\ ctl'[Main] = g /\ \A i \in 1..Depth : i # Main => ctl'[i] = ctl[i]
    BY <1>1, <1>10, DeferEffect
  <2>2. ctl[Main] \in FrameType
    BY <1>1, Frames, MainFacts
  <2>3. /\ g.role = ctl[Main].role /\ g.phase = ctl[Main].phase
        /\ g.saved = ctl[Main].saved /\ g.flag = ctl[Main].flag
    BY <2>1, <2>2 DEF FrameType
  <2>4. Alike(Depth)
    BY <2>1, <2>3 DEF Alike, Suspends, InFinally
  <2> QED
    BY <1>7, <1>10, <2>1, <2>4 DEF Thrown, Defer, AtStmt
<1>11. CASE Fails
  <2>1. \A i \in 1..Depth : ~InFinally(i)
    BY <1>11 DEF Fails, MayFail, InFinally
  <2> QED
    BY <1>3, <1>8, <1>11, <2>1 DEF Fails, Thrown
<1>12. CASE UNCHANGED ctl /\ exc' \in {exc, "terminate"}
  <2>1. exc' \in Thrown => exc \in Thrown
    BY <1>12 DEF Thrown
  <2>2. exc \in Thrown => ClearBelow(Depth + 1)
    BY <1>1 DEF Flow, Thrown
  <2>3. exc' = "none" => exc = "none"
    BY <1>12
  <2> QED
    BY <1>1, <1>8, <1>12, <2>1, <2>2, <2>3
<1>13. CASE Leaves
  <2> DEFINE n == Depth - 1
  <2>1. n \in Nat /\ n \in 0..Depth /\ Depth' = n /\ n <= Depth' /\ Alike(n)
        /\ \A j : j \notin (n + 1)..Depth'
    BY <1>1, <1>4, <1>13 DEF Leaves, Popped
  <2>2. ASSUME exc' \in Thrown PROVE ClearBelow(Depth) /\ \A i \in 1..n : ~InFinally(i)
    <3>1. CASE exc \in Thrown /\ Top.role \notin {"func", "decorator"}
      <4>1. ~Suspends(Depth)
        BY <1>1, <3>1 DEF Suspends
      <4>2. \A i \in 1..n : i \in 1..Depth
        BY <1>1
      <4> QED
        BY <1>1, <3>1, <4>1, <4>2, ClearDown
    <3>2. CASE Live(Depth) /\ Top.saved # "none"
      <4>1. \A i \in 1..n : i \in 1..Depth /\ Depth \in (i + 1)..Depth
        BY <1>1
      <4> QED
        BY <1>1, <1>3, <3>2, <4>1 DEF QuietClauses
    <3> QED
      BY <1>13, <2>2, <3>1, <3>2 DEF Leaves, Thrown
  <2>3. \A d : d = Depth' + 1 => d = Depth /\ d \in 1..(n + 1)
    BY <1>1, <2>1
  <2>4. \A d : d = Depth' + 1 /\ exc' \in {"object", "error"} => ClearBelow(d)'
    BY <2>1, <2>2, <2>3, AlikeFacts DEF Thrown
  <2>5. \A i \in 1..Depth' : InFinally(i)' => exc' \notin {"object", "error"}
    BY <2>1, <2>2 DEF Alike, Thrown
  <2>6. ASSUME NEW i, i = Depth', exc' = "none", ctl'[i].role = "class" PROVE FALSE
    <3>1. Depth > 1 /\ Same(n)
      BY <1>13 DEF Leaves, Popped
    <3>2. i \in 1..n /\ i \in 1..Depth /\ i < Depth /\ i = Depth - 1
      BY <1>1, <2>1, <2>6, <3>1
    <3>3. ctl[i].role = "class"
      BY <2>6, <3>1, <3>2 DEF Same
    <3>4. ctl[i + 1].role = "decorator"
      BY <3>2, <3>3 DEF Inductive, Declarations, Decls
    <3>5. Top.role = "decorator"
      BY <1>1, <3>2, <3>4
    <3> QED
      BY <1>13, <2>6, <3>2, <3>3, <3>5 DEF Leaves
  <2> HIDE DEF n
  <2> QED
    BY <1>1, <2>1, <2>4, <2>5, <2>6, AboveSuffices
<1>14. CASE Begins
  <2>1. PICK f \in FrameType :
          /\ Begun(f) /\ f.role \in {"if", "func", "try", "decorator"}
          /\ f.flag = "go" /\ f.saved = "none"
    BY <1>14 DEF Begins
  <2>2. Alike(Depth) /\ Depth' = Depth + 2 /\ exc = "none" /\ exc' = "none" /\ Resumes
        /\ ctl'[Depth + 1] = f /\ ctl'[Depth + 2] = List
    BY <1>1, <1>4, <1>14, <2>1 DEF Begins, Begun
  <2>3. \A d : d = Depth + 1 => ClearBelow(d)'
    <3>1. Depth + 1 \in 1..(Depth + 1)
      BY <1>1
    <3> QED
      BY <1>1, <1>3, <2>2, <3>1, AlikeFacts
  <2>4. \A d : d = Depth + 1 => ~Stores(d)'
    BY <2>1, <2>2 DEF Stores, Loops
  <2>5. \A d : d = Depth + 2 => ClearBelow(d)'
    <3>1. \A e : e = Depth + 1 => e \in Nat /\ ClearBelow(e + 1)'
      BY <1>1, <2>3, <2>4, ItStandsNext DEF Stands
    <3>2. Depth + 2 = (Depth + 1) + 1
      BY <1>1
    <3> QED
      BY <3>1, <3>2
  <2>6. \A j \in (Depth + 1)..Depth' : j = Depth + 1 \/ j = Depth + 2
    BY <1>1, <2>2
  <2>7. \A j \in (Depth + 1)..Depth' :
          /\ ClearBelow(j)' /\ ctl'[j].role \notin Loops
          /\ ctl'[j].flag = "go" /\ ctl'[j].saved = "none"
    BY <1>2, <2>1, <2>2, <2>3, <2>5, <2>6 DEF Loops
  <2>8. /\ Depth \in 0..Depth /\ Depth' \in Nat /\ Depth <= Depth'
        /\ \A i : i = Depth' => i = Depth + 2
    BY <1>1, <2>2
  <2>9. \A i : i = Depth' => ctl'[i].role # "class"
    BY <1>2, <2>2, <2>8
  <2> QED
    BY <1>1, <2>2, <2>7, <2>8, <2>9, AboveSuffices
<1>15. CASE Opens
  <2>1. PICK ph, role : OpensWith(ph, role)
    BY <1>15 DEF Opens
  <2>2. /\ Depth' = Depth + 1 /\ Same(Depth - 1) /\ ctl'[Depth + 1] = Frame(role)
        /\ ctl'[Depth] = [Top EXCEPT !.phase = ph]
    BY <2>1 DEF OpensWith, Grown
  <2>3. /\ ctl'[Depth].role = Top.role /\ ctl'[Depth].flag = Top.flag
        /\ ctl'[Depth].saved = Top.saved
    BY <1>1, <2>2 DEF FrameType
  <2>4. Top.role \notin {"try", "decorator"} /\ exc' = "none" /\ Live(Depth)
    BY <1>15, <2>1 DEF Opens, OpensWith, Loops
  <2>5. Alike(Depth)
    BY <1>5, <2>2, <2>3, <2>4
  <2>6. Depth + 1 \in 1..(Depth + 1) /\ Frame(role).flag = "go" /\ Frame(role).saved = "none"
    BY <1>1 DEF Frame
  <2>7. ClearBelow(Depth + 1) => \A d : d = Depth + 1 => ClearBelow(d)'
    BY <1>1, <2>5, <2>6, AlikeFacts
  <2> QED
    BY <1>3, <1>6, <2>2, <2>4, <2>5, <2>6, <2>7
<1>16. CASE Handles
  <2>1. Top.role = "try" /\ exc' = "none"
    BY <1>16 DEF Handles
  <2>2. CASE /\ Top.phase = "body" /\ exc \in Thrown
             /\ Grown([Top EXCEPT !.phase = "catch"], List)
    <3>1. /\ Depth' = Depth + 1 /\ Same(Depth - 1) /\ ctl'[Depth + 1] = List
          /\ ctl'[Depth] = [Top EXCEPT !.phase = "catch"]
      BY <2>2 DEF Grown
    <3>2. /\ ctl'[Depth].role = Top.role /\ ctl'[Depth].flag = Top.flag
          /\ ctl'[Depth].saved = Top.saved /\ ctl'[Depth].phase = "catch"
      BY <1>1, <3>1 DEF FrameType
    <3>3. Alike(Depth)
      BY <1>5, <2>1, <2>2, <3>1, <3>2
    <3>4. Depth + 1 \in 1..(Depth + 1) /\ ClearBelow(Depth + 1)
      BY <1>1, <2>2 DEF Flow, Thrown
    <3>5. \A d : d = Depth + 1 => ClearBelow(d)'
      BY <1>1, <3>3, <3>4, AlikeFacts
    <3> QED
      BY <1>2, <1>6, <2>1, <3>1, <3>3, <3>5
  <2>3. CASE /\ Top.phase # "finally" /\ exc \in {"none"} \cup Thrown
             /\ Grown([Top EXCEPT !.phase = "finally", !.saved = exc], List)
    <3> DEFINE n == Depth - 1
    <3>1. /\ Depth' = Depth + 1 /\ Same(n) /\ ctl'[Depth + 1] = List
          /\ ctl'[Depth] = [Top EXCEPT !.phase = "finally", !.saved = exc]
      BY <2>3 DEF Grown
    <3>2. /\ ctl'[Depth].role = "try" /\ ctl'[Depth].flag = Top.flag
          /\ ctl'[Depth].saved = exc /\ ctl'[Depth].phase = "finally" /\ Top.flag = "go"
      <4>1. Top.flag = "go"
        BY <1>1, <2>1 DEF WellFormed, Loops
      <4> QED
        BY <1>1, <2>1, <3>1, <4>1 DEF FrameType
    <3>3. n \in Nat /\ n \in 0..Depth /\ Depth' \in Nat /\ n <= Depth' /\ Alike(n)
          /\ Depth \in 1..(n + 1)
          /\ \A j \in (n + 1)..Depth' : j = Depth \/ j = Depth + 1
      BY <1>1, <1>4, <3>1
    <3>4. ASSUME NEW d, d = Depth, Live(d)' PROVE ClearBelow(d)'
      <4>1. exc \in Thrown
        BY <2>3, <3>2, <3>4 DEF Live, Loops
      <4>2. ~Suspends(Depth)
        BY <1>1, <2>1, <2>3 DEF Suspends, InFinally
      <4>3. ClearBelow(Depth)
        BY <1>1, <2>1, <4>1, <4>2, ClearDown
      <4> QED
        BY <3>3, <3>4, <4>3, AlikeFacts
    <3>5. ASSUME NEW d, d = Depth + 1 PROVE ClearBelow(d)'
      <4>1. \A e : e = Depth => e \in Nat /\ Suspends(e)' /\ ~Stores(e)'
        BY <1>1, <3>2 DEF Suspends, InFinally, Stores, Loops
      <4> QED
        BY <3>5, <4>1, ItStandsNext DEF Stands
    <3>6. \A j \in (n + 1)..Depth' : /\ Live(j)' => ClearBelow(j)'
                                     /\ ctl'[j].role \notin Loops /\ ctl'[j].flag = "go"
      BY <1>2, <3>1, <3>2, <3>3, <3>4, <3>5 DEF Loops
    <3>7. ASSUME NEW i \in 1..Depth', InFinally(i)', NEW j \in (n + 1)..Depth', j > i
          PROVE  ctl'[j].saved = "none"
      <4>1. CASE j = Depth + 1
        BY <1>2, <3>1, <4>1
      <4>2. CASE j = Depth
        <5>1. i \in 1..n /\ i \in 1..Depth
          BY <1>1, <3>1, <3>7, <4>2
        <5>2. InFinally(i)
          BY <3>3, <3>7, <5>1 DEF Alike
        <5> QED
          BY <1>1, <2>3, <3>2, <4>2, <5>1, <5>2
      <4> QED
        BY <3>3, <4>1, <4>2
    <3> HIDE DEF n
    <3>8. exc' \notin {"object", "error"} /\ \A i : i = Depth' => ctl'[i].role # "class"
      BY <1>2, <2>1, <3>1
    <3> QED
      BY <1>1, <3>3, <3>6, <3>7, <3>8, AboveSuffices
  <2> QED
    BY <1>16, <2>2, <2>3 DEF Handles
(* The frame of a body goes on, with at most a list above it.              *)
<1>17. ASSUME NEW n, n = Depth - 1, Same(n), exc' = "none", Top.role \in Mains,
              ctl'[Depth].role = Top.role, ctl'[Depth].flag = Top.flag,
              \/ ctl'[Depth].saved = Top.saved
              \/ Top.phase = "body" /\ exc # "terminate" /\ ctl'[Depth].saved = exc,
              \/ Depth' = Depth
              \/ /\ Depth' = Depth + 1 /\ ctl'[Depth + 1] = List
                 /\ ctl'[Depth].phase = "deferred"
       PROVE  Flow' /\ Taken' /\ QuietClauses'
  <2>1. /\ n \in Nat /\ n \in 0..Depth /\ Depth' \in Nat /\ n <= Depth' /\ Alike(n)
        /\ Depth \in 1..(n + 1)
        /\ \A j \in (n + 1)..Depth' : j = Depth \/ (j = Depth + 1 /\ Depth' = Depth + 1)
        /\ \A i : i = Depth' => i = Depth \/ (i = Depth + 1 /\ Depth' = Depth + 1)
    BY <1>1, <1>4, <1>17
  <2>2. Top.flag = "go"
    BY <1>1, <1>17 DEF WellFormed, Mains, Loops
  <2>3. ASSUME NEW d, d = Depth, Live(d)' PROVE ClearBelow(d)'
    <3>1. ClearBelow(Depth)
      <4>1. CASE Live(Depth)
        BY <1>3, <4>1
      <4>2. CASE ~Live(Depth)
        <5>1. Top.role # "func" /\ Top.role = "decorator" /\ ctl'[Depth].saved # Top.saved
              /\ ctl'[Depth].saved # "none"
          BY <1>1, <1>17, <2>3, <4>2 DEF Live, Mains, Loops
        <5>2. exc \notin {"none", "terminate"} /\ Top.phase = "body"
          BY <1>17, <5>1
        <5>3. ~Suspends(Depth)
          BY <1>1, <5>1, <5>2 DEF Suspends, InFinally
        <5> QED
          BY <1>1, <5>1, <5>2, <5>3, ClearDown DEF Thrown
      <4> QED
        BY <4>1, <4>2
    <3> QED
      BY <2>1, <2>3, <3>1, AlikeFacts
  <2>4. ASSUME NEW d, d = Depth + 1, Depth' = Depth + 1 PROVE ClearBelow(d)'
    <3>1. CASE Top.role = "root"
      <4>1. Depth = 1
        BY <1>1, <3>1 DEF TypeOK
      <4>2. \A i \in 1..(d - 1) : i = Depth
        BY <2>4, <4>1
      <4> QED
        BY <1>17, <3>1, <4>2 DEF ClearBelow, Stores, Loops
    <3>2. CASE Top.role \in {"func", "decorator"}
      <4>1. \A e : e = Depth =>
              /\ e \in Nat /\ ~Stores(e)'
              /\ ctl'[e].role = "func" \/ Suspends(e)'
        BY <1>1, <1>17, <2>4, <3>2 DEF Suspends, Stores, Loops
      <4> QED
        BY <2>4, <4>1, ItStandsNext DEF Stands
    <3> QED
      BY <1>17, <3>1, <3>2 DEF Mains
  <2>5. \A j \in (n + 1)..Depth' : /\ Live(j)' => ClearBelow(j)'
                                   /\ ctl'[j].role \notin Loops /\ ctl'[j].flag = "go"
    BY <1>2, <1>17, <2>1, <2>2, <2>3, <2>4 DEF Mains, Loops
  <2>6. ASSUME NEW i \in 1..Depth', InFinally(i)', NEW j \in (n + 1)..Depth', j > i
        PROVE  ctl'[j].saved = "none"
    <3>1. CASE j = Depth + 1 /\ Depth' = Depth + 1
      BY <1>2, <1>17, <3>1
    <3>2. CASE j = Depth
      <4>1. i \in 1..n /\ i \in 1..Depth /\ Depth \in (i + 1)..Depth
        BY <1>1, <1>17, <2>1, <2>6, <3>2
      <4>2. InFinally(i)
        BY <2>1, <2>6, <4>1 DEF Alike
      <4>3. Top.saved = "none" /\ exc \notin Thrown
        BY <1>1, <4>1, <4>2 DEF QuietClauses
      <4>4. CASE ctl'[Depth].saved = Top.saved
        BY <3>2, <4>3, <4>4
      <4>5. CASE exc # "terminate" /\ ctl'[Depth].saved = exc
        BY <1>1, <1>17, <3>2, <4>3, <4>5 DEF Thrown
      <4> QED
        BY <1>17, <4>4, <4>5
    <3> QED
      BY <2>1, <3>1, <3>2
  <2>7. exc' \notin {"object", "error"} /\ \A i : i = Depth' => ctl'[i].role # "class"
    BY <1>2, <1>17, <2>1 DEF Mains
  <2> QED
    BY <1>1, <2>1, <2>5, <2>6, <2>7, AboveSuffices
<1>18. CASE BodyLeft
  <2> DEFINE n == Depth - 1
  <2>1. /\ Depth' = Depth /\ Same(n) /\ exc' = "none"
        /\ ctl'[Depth] = [Top EXCEPT !.phase = "leaving", !.saved = exc]
        /\ Top.role \in Mains /\ Top.phase = "body" /\ exc # "terminate"
    BY <1>18 DEF BodyLeft, Replaced, Thrown
  <2>2. /\ ctl'[Depth].role = Top.role /\ ctl'[Depth].flag = Top.flag
        /\ ctl'[Depth].saved = exc
    BY <1>1, <2>1 DEF FrameType
  <2> QED
    BY <1>17, <2>1, <2>2
<1>19. CASE DeferredStarts
  <2> DEFINE n == Depth - 1
             c == Top.defers[Len(Top.defers)]
  <2>1. /\ Depth' = Depth + 1 /\ Same(n) /\ exc' = "none" /\ ctl'[Depth + 1] = List
        /\ ctl'[Depth] = [Top EXCEPT !.phase = "deferred", !.cur = c]
        /\ Top.role \in Mains
    BY <1>19 DEF DeferredStarts, Grown
  <2> HIDE DEF c
  <2>2. /\ ctl'[Depth].role = Top.role /\ ctl'[Depth].flag = Top.flag
        /\ ctl'[Depth].saved = Top.saved /\ ctl'[Depth].phase = "deferred"
    BY <1>1, <2>1 DEF FrameType
  <2> QED
    BY <1>17, <2>1, <2>2
<1>20. CASE DeferredIsOver
  <2> DEFINE n == Depth - 1
             d == SubSeq(Top.defers, 1, Len(Top.defers) - 1)
  <2>1. /\ Depth' = Depth /\ Same(n) /\ exc' = "none"
        /\ ctl'[Depth] = [Top EXCEPT !.phase = "leaving", !.defers = d]
        /\ Top.role \in Mains
    BY <1>20 DEF DeferredIsOver, Replaced
  <2> HIDE DEF d
  <2>2. /\ ctl'[Depth].role = Top.role /\ ctl'[Depth].flag = Top.flag
        /\ ctl'[Depth].saved = Top.saved
    BY <1>1, <2>1 DEF FrameType
  <2> QED
    BY <1>17, <2>1, <2>2
<1>21. CASE Restarts
  BY <1>21, RestartFlow
<1> QED
  BY <1>1, StepCases, <1>9, <1>10, <1>11, <1>12, <1>13, <1>14, <1>15, <1>16, <1>18, <1>19,
     <1>20, <1>21

LEMMA InductiveStep == (Confined => Inductive) /\ [Next]_vars => (Confined => Inductive)'
<1> SUFFICES ASSUME Confined => Inductive, [Next]_vars, Confined' PROVE Inductive'
  OBVIOUS
<1>1. Confined
  BY SameProgram DEF Confined
<1>2. Inductive /\ {"switch", "finally", "decorator"} \subseteq Quiet
  BY <1>1 DEF Confined
<1>3. Flow' /\ Taken' /\ QuietClauses'
  BY <1>2, FlowStep
<1>4. TypeOK' /\ Declarations'
  BY <1>2, TypeStep, DeclarationsStep DEF Inductive
<1> QED
  BY <1>3, <1>4 DEF Inductive

\* The facts about the stack that every step preserves, for every program whose
\* switch and finally clauses hold neither a jump nor a declaration with a
\* decorator, whose finally clauses do not fail, and whose decorators no break
\* leaves.
THEOREM Invariance == Spec => [](Confined => Inductive)
<1>1. Init => (Confined => Inductive)
  BY InitInductive
<1>2. (Confined => Inductive) /\ [Next]_vars => (Confined => Inductive)'
  BY InductiveStep
<1> QED
  BY <1>1, <1>2, PTL DEF Spec

LEMMA CoveredIsSuspended ==
  \A i \in 1..Depth, j \in 1..Depth : Covered(i, j) /\ Depth \in Nat => Suspended(i)
  BY DEF Covered, Suspended

\* After break, continue or return no further statement runs in a block that
\* the jump leaves, and no declaration goes on in one (StmtListExecutor::Exec,
\* set_stop of every executor).
THEOREM JumpsLeave == Spec => []NothingRunsPastJump
<1>1. (Confined => Inductive) => NothingRunsPastJump
  <2> SUFFICES ASSUME Inductive, exc = "none",
                      (Top.role = "list" /\ Top.flag = "go") \/ Top.role \in Decls,
                      NEW i \in 1..Depth, ctl[i].role = "list", SameCall(i, Depth)
               PROVE  ctl[i].flag = "go" \/ Suspended(i)
    BY DEF NothingRunsPastJump
  <2>1. TypeOK /\ Flow /\ Depth \in Nat \ {0} /\ Depth \in 1..Depth
    BY Frames DEF Inductive
  <2>2. ClearBelow(Depth)
    BY <2>1 DEF Flow, Live, Top, Decls
  <2>3. CASE i = Depth
    BY <2>3 DEF Top, Decls
  <2>4. CASE i # Depth
    <3>1. i \in 1..(Depth - 1) /\ SameBody(i, Depth) /\ Stores(i)
      BY <2>1, <2>4 DEF SameCall, SameBody, Stores
    <3>2. Live(i) \/ Covered(i, Depth)
      BY <2>2, <3>1 DEF ClearBelow
    <3> QED
      BY <2>1, <3>2, CoveredIsSuspended DEF Live, Loops
  <2> QED
    BY <2>3, <2>4
<1> QED
  BY <1>1, Invariance, PTL

\* break and continue reach the innermost loop and no block around it
\* (set_stop of WhileExecutor and ForInExecutor).
THEOREM LoopsTakeBreaks == Spec => []BreakIsInnermost
<1>1. (Confined => Inductive) => BreakIsInnermost
  <2> SUFFICES ASSUME Inductive, NEW i \in 1..Depth, NEW j \in 1..Depth,
                      i < j, SameCall(i, j), ctl[j].role \in Loops
               PROVE  /\ ctl[i].role = "list" =>
                           ctl[i].flag \notin {"break", "continue"} \/ Suspended(i)
                      /\ ctl[i].flag = "break" => ctl[j].flag # "break"
    BY DEF BreakIsInnermost
  <2>1. TypeOK /\ Taken /\ QuietClauses /\ Depth \in Nat /\ WellFormed(ctl[i])
    BY Frames DEF Inductive, TypeOK
  <2>2. i \in 1..(j - 1) /\ SameBody(i, j)
    BY <2>1 DEF SameCall, SameBody
  <2>3. Stores(i) => \/ Covered(i, j)
                     \/ ctl[i].flag # "break" /\ (ctl[i].role = "list" => ctl[i].flag # "continue")
    BY <2>1, <2>2 DEF Taken, TakenBelow
  <2>4. Covered(i, j) => ctl[j].flag = "go"
    <3> SUFFICES ASSUME NEW k \in (i + 1)..(j - 1), Suspends(k) PROVE ctl[j].flag = "go"
      BY DEF Covered
    <3>1. k \in 1..Depth /\ j \in (k + 1)..Depth /\ SameBody(k, j + 1)
      BY <2>1, <2>2 DEF SameCall, SameBody
    <3> QED
      BY <2>1, <3>1 DEF QuietClauses
  <2>5. ctl[i].role = "list" \/ ctl[i].flag = "break" => Stores(i)
    BY <2>1 DEF WellFormed, Stores
  <2> QED
    BY <2>1, <2>3, <2>4, <2>5, CoveredIsSuspended
<1> QED
  BY <1>1, Invariance, PTL

LEMMA ReturnStep ==
  ASSUME Inductive, {"switch", "finally", "decorator"} \subseteq Quiet, [Next]_vars
  PROVE  \A i \in 1..Depth :
           i <= Depth' /\ ctl[i].flag = "return" /\ ctl'[i].flag = "go" =>
             \E k \in (i + 1)..Depth : ctl[k].role = "class"
<1> SUFFICES ASSUME NEW i \in 1..Depth, i <= Depth', ctl[i].flag = "return", ctl'[i].flag = "go"
             PROVE  \E k \in (i + 1)..Depth : ctl[k].role = "class"
  OBVIOUS
<1>1. /\ TypeOK /\ Depth \in Nat \ {0} /\ Depth \in 1..Depth /\ Top = ctl[Depth]
      /\ WellFormed(ctl[i]) /\ Top \in FrameType
  BY Frames DEF Inductive, TypeOK, Top
<1>2. Stores(i) /\ ~Live(i) /\ ctl[i].role \in {"list"} \cup Loops
  BY <1>1 DEF WellFormed, Stores, Live, Loops
<1>3. CASE \E kind \in Jumps : Jump(kind)
  <2>1. PICK kind \in Jumps : Jump(kind)
    BY <1>3
  <2>2. PICK s : s = SetStop(kind) /\ ctl' = s
    BY <1>1, <2>1, JumpEffect
  <2>3. PICK b \in 1..Depth : Base(b)
    BY <1>1, BaseExists
  <2>4. i \notin (b + 1)..Depth
    BY <1>2, <2>1, <2>3, WhereAJumpStands
  <2>5. i # b
    BY <1>2, <2>3 DEF Base, Loops
  <2>6. b \in (i + 1)..Depth
    BY <1>1, <2>4, <2>5
  <2>7. Untouched(s, kind, i)
    BY <1>1, <2>2, StopEffect DEF Flags
  <2>8. ctl'[i] = ctl[i]
    BY <2>2, <2>3, <2>6, <2>7 DEF Untouched, CallAbove, Base
  <2> QED
    BY <2>8
<1>4. CASE Defer
  <2>1. i # Main
    BY <1>1, <1>2, MainFacts DEF Mains, Loops
  <2>2. ctl'[i] = ctl[i]
    BY <1>1, <1>4, <2>1, DeferEffect
  <2> QED
    BY <2>2
<1>5. CASE Restarts
  <2>1. Depth' = Depth - 1 /\ ctl[Depth - 1].role = "class"
    BY <1>5 DEF Restarts
  <2>2. i # Depth - 1
    BY <1>2, <2>1 DEF Loops
  <2>3. Depth - 1 \in (i + 1)..Depth
    BY <1>1, <2>1, <2>2
  <2> QED
    BY <2>1, <2>3
<1>6. CASE Same(Depth - 1) /\ i # Depth
  <2>1. i \in 1..(Depth - 1)
    BY <1>1, <1>6
  <2> QED
    BY <1>6, <2>1 DEF Same
<1>7. CASE i = Depth
  <2>1. ~(Begins \/ Opens \/ Handles \/ BodyLeft \/ DeferredStarts \/ DeferredIsOver)
    BY <1>1, <1>2, <1>7
       DEF Begins, Resumes, Opens, Handles, BodyLeft, DeferredStarts, DeferredIsOver,
           Mains, Decls, Loops
  <2>2. ~Leaves
    BY <1>1, <1>7 DEF Leaves, Popped
  <2>3. Fails \/ UNCHANGED ctl => ctl'[i].flag # "go"
    BY DEF Fails
  <2> QED
    BY <1>1, <1>3, <1>4, <1>5, <2>1, <2>2, <2>3, StepCases
<1> QED
  BY <1>1, <1>3, <1>4, <1>5, <1>6, <1>7, StepCases, BelowTopSame

\* A frame that is to be left by return is never told to go on again, but by the
\* class whose decorator returned (set_stop(kGo) of WhileExecutor).
THEOREM ReturnsStand == Spec => ReturnStands
<1>1. Init => (Confined => Inductive)
  BY InitInductive
<1>2. (Confined => Inductive) /\ [Next]_vars => (Confined => Inductive)'
  BY InductiveStep
<1>3. (Confined => Inductive) /\ [Next]_vars =>
        [Confined => \A i \in 1..Depth :
           i <= Depth' /\ ctl[i].flag = "return" /\ ctl'[i].flag = "go" =>
             \E k \in (i + 1)..Depth : ctl[k].role = "class"]_vars
  BY ReturnStep DEF Confined
<1> QED
  BY <1>1, <1>2, <1>3, PTL DEF Spec, ReturnStands
=============================================================================
