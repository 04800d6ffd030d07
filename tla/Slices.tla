------------------------------- MODULE Slices -------------------------------
(***************************************************************************)
(* The arithmetic of indices: objects/slice-object.cc, which arrays,       *)
(* tuples and strings share, and the Element functions of all three.       *)
(***************************************************************************)
EXTENDS Integers

\* SliceLogic: a bound below zero counts from the end.
SliceLogic(slice, size) ==
  LET Absolute(n) == IF n < 0 THEN size + n ELSE n
      Cut(n) == IF n > size THEN size ELSE n
      end == Cut(IF slice.hasEnd THEN Absolute(slice.end) ELSE size)
      start == Cut(IF slice.hasStart THEN Absolute(slice.start) ELSE 0)
      start1 == IF start > end THEN end ELSE start
  IN [start |-> IF start1 < 0 THEN 0 ELSE start1,
      end |-> IF end < 0 THEN 0 ELSE end,
      step |-> IF slice.hasStep THEN slice.step ELSE 1]

\* ElementRef and Element: the place an index means, from 0. It throws unless
\* the place is below the size.
ElementPlace(i, size) ==
  LET back == size + i
  IN IF i >= 0 THEN i ELSE IF back < 0 THEN -back ELSE back
=============================================================================
