------------------------------- MODULE Values -------------------------------
(***************************************************************************)
(* The objects of a script and what they answer: objects/abstract-obj.h,   *)
(* simple-object.{h,cc}, str-object.h and the Equal, operator== and Hash   *)
(* of arrays, tuples and maps.  An object is its place in the heap; Hole   *)
(* is a shared_ptr that points at nothing.  A string is a sequence of      *)
(* small numbers, one per character; a map is the sequence of its buckets  *)
(* in the order unordered_map gives them.                                  *)
(***************************************************************************)
EXTENDS Integers, Sequences, SequencesExt, Bitwise

Hole == 0
Object(type, n, seq, map) == [type |-> type, n |-> n, seq |-> seq, map |-> map]
NewNull == Object("NIL", 0, <<>>, <<>>)
NewBool(b) == Object("BOOL", IF b THEN 1 ELSE 0, <<>>, <<>>)
NewInt(n) == Object("INT", n, <<>>, <<>>)
NewString(s) == Object("STRING", 0, s, <<>>)
NewArray(s) == Object("ARRAY", 0, s, <<>>)
NewTuple(s) == Object("TUPLE", 0, s, <<>>)
NewMap(buckets) == Object("MAP", 0, <<>>, buckets)
NewSlice(start, end, step) == Object("SLICE", 0, <<start, end, step>>, <<>>)

Numbers == {"INT", "REAL"}
Scalars == {"NIL", "BOOL", "INT", "REAL", "STRING"}

\* What a question is answered with: "true", "false", "throw" for the
\* RunTimeError of an operation the object does not have, "crash" when an
\* empty pointer is used or the recursion never ends.
Answer(b) == IF b THEN "true" ELSE "false"

\* ObjBool
Truth(heap, x) ==
  IF x = Hole THEN "crash"
  ELSE CASE heap[x].type = "NIL" -> "false"
         [] heap[x].type = "BOOL" -> Answer(heap[x].n = 1)
         [] heap[x].type \in {"INT", "REAL", "STRING"} -> "true"
         [] OTHER -> "throw"

\* The answer of a row of questions that are all asked: the first error, else
\* whether all of them are true.
AllTrue(answers) ==
  LET errors == SelectSeq(answers, LAMBDA a : a \in {"throw", "crash"})
  IN IF errors # <<>> THEN Head(errors)
     ELSE Answer(\A k \in DOMAIN answers : answers[k] = "true")

RECURSIVE EqualIn(_, _, _, _)
EqualIn(heap, x, y, depth) ==
  IF x = Hole \/ y = Hole \/ depth = 0 THEN "crash"
  ELSE LET a == heap[x]
           b == heap[y]
       IN CASE a.type = "NIL" -> Answer(b.type = "NIL")
            [] a.type = "BOOL" ->
                 IF Truth(heap, y) \in {"throw", "crash"} THEN Truth(heap, y)
                 ELSE Answer(Truth(heap, y) = Answer(a.n = 1))
            [] a.type = "INT" -> Answer(b.type \in Numbers /\ a.n = b.n)
            [] a.type = "REAL" -> IF b.type \in Numbers THEN Answer(a.n = b.n) ELSE "throw"
            [] a.type = "STRING" -> Answer(b.type = "STRING" /\ a.seq = b.seq)
            [] a.type = "ARRAY" ->
                 IF b.type # "ARRAY" \/ Len(a.seq) # Len(b.seq) THEN "false"
                 ELSE AllTrue([k \in DOMAIN a.seq |->
                                 EqualIn(heap, a.seq[k], b.seq[k], depth - 1)])
            [] OTHER -> "throw"
\* Equal: what == of the language asks.
Equal(heap, x, y) == EqualIn(heap, x, y, Len(heap) + 1)

\* operator==: what a map asks of its keys.  Arrays and tuples compare the
\* pointers of their elements.
Same(heap, x, y) ==
  IF x = Hole \/ y = Hole THEN "crash"
  ELSE LET a == heap[x]
           b == heap[y]
       IN CASE a.type = "NIL" -> Answer(b.type = "NIL")
            [] a.type \in {"BOOL", "INT", "REAL"} -> Answer(b.type = a.type /\ a.n = b.n)
            [] a.type \in {"STRING", "ARRAY", "TUPLE"} ->
                 Answer(b.type = a.type /\ a.seq = b.seq)
            [] OTHER -> "throw"

\* Lesser
Lesser(heap, x, y) ==
  IF x = Hole \/ y = Hole THEN "crash"
  ELSE LET a == heap[x]
           b == heap[y]
           Before(s, t) == \E k \in 1 .. Len(t) :
             /\ k <= Len(s) + 1
             /\ SubSeq(s, 1, k - 1) = SubSeq(t, 1, k - 1)
             /\ k <= Len(s) => s[k] < t[k]
       IN CASE a.type = "INT" -> Answer(b.type \in Numbers /\ a.n < b.n)
            [] a.type = "REAL" -> IF b.type \in Numbers THEN Answer(a.n < b.n) ELSE "throw"
            [] a.type = "STRING" -> IF b.type = "STRING" THEN Answer(Before(a.seq, b.seq)) ELSE "throw"
            [] OTHER -> "throw"

\* std::hash: a number is its own hash, and so is a bool; zero of float is 0;
\* texts and other floats do not meet by chance.
RECURSIVE TextHash(_)
TextHash(s) == IF s = <<>> THEN 64 ELSE (32 * TextHash(Front(s)) + Last(s)) % 33554393
\* Hash: [how, h].
RECURSIVE HashIn(_, _, _)
HashIn(heap, x, depth) ==
  IF x = Hole \/ depth = 0 THEN [how |-> "crash", h |-> 0]
  ELSE LET a == heap[x]
           parts == [k \in DOMAIN a.seq |-> HashIn(heap, a.seq[k], depth - 1)]
           errors == SelectSeq(parts, LAMBDA p : p.how # "ok")
       IN CASE a.type \in {"BOOL", "INT"} -> [how |-> "ok", h |-> a.n]
            [] a.type = "REAL" -> [how |-> "ok", h |-> IF a.n = 0 THEN 0 ELSE 32 + a.n]
            [] a.type = "STRING" -> [how |-> "ok", h |-> TextHash(a.seq)]
            [] a.type \in {"ARRAY", "TUPLE"} ->
                 IF a.seq = <<>> THEN [how |-> "throw", h |-> 0]
                 ELSE IF errors # <<>> THEN Head(errors)
                 ELSE [how |-> "ok", h |-> FoldLeft(LAMBDA s, p : s ^^ p.h, 0, parts)]
            [] OTHER -> [how |-> "throw", h |-> 0]
Hash(heap, x) == HashIn(heap, x, Len(heap) + 1)

\* PassVar (objects/object-factory.h): a scalar is copied, the rest is shared.
\* [heap, r].
Passed(heap, x) ==
  IF x = Hole THEN [heap |-> Append(heap, NewNull), r |-> Len(heap) + 1]
  ELSE IF heap[x].type \in Scalars THEN [heap |-> Append(heap, heap[x]), r |-> Len(heap) + 1]
  ELSE [heap |-> heap, r |-> x]
=============================================================================
