---------------------------- MODULE SlicesProofs ----------------------------
(***************************************************************************)
(* What SliceLogic and Element promise for every index and every size.     *)
(***************************************************************************)
EXTENDS Slices, TLAPS

SliceObjects == [start : Int, end : Int, step : Int,
                 hasStart : BOOLEAN, hasEnd : BOOLEAN, hasStep : BOOLEAN]

\* A slice never leaves its container, whatever its bounds are: array, tuple
\* and string read value_[i] for i from start to end without looking again.
THEOREM SliceInside ==
  ASSUME NEW slice \in SliceObjects, NEW size \in Nat
  PROVE  LET s == SliceLogic(slice, size)
         IN /\ s.start \in Nat /\ s.end \in Nat
            /\ s.start <= s.end /\ s.end <= size
<1> DEFINE s == SliceLogic(slice, size)
<1>1. slice.start \in Int /\ slice.end \in Int
  BY DEF SliceObjects
<1>2. s.start \in Int /\ s.end \in Int
  BY <1>1 DEF SliceLogic
<1>3. s.start >= 0 /\ s.end >= 0
  BY <1>1 DEF SliceLogic
<1>4. s.start <= s.end
  BY <1>1 DEF SliceLogic
<1>5. s.end <= size
  BY <1>1 DEF SliceLogic
<1> QED BY <1>2, <1>3, <1>4, <1>5

\* An element that is not refused is one of the container.
THEOREM ElementInside ==
  ASSUME NEW i \in Int, NEW size \in Nat, ElementPlace(i, size) < size
  PROVE  ElementPlace(i, size) \in 0 .. size - 1
BY DEF ElementPlace

\* The indices of Python mean what they mean there: i from the start, -i from
\* the end.
THEOREM ElementIsPython ==
  ASSUME NEW size \in Nat, NEW i \in 0 .. size - 1
  PROVE  /\ ElementPlace(i, size) = i
         /\ ElementPlace(i - size, size) = i
BY DEF ElementPlace
=============================================================================
