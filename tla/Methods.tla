------------------------------ MODULE Methods -------------------------------
(***************************************************************************)
(* What one operation does to the objects: the methods and operators of    *)
(* objects/{array,tuple,map,str}-object.{h,cc} that call no function of    *)
(* the script.                                                             *)
(***************************************************************************)
EXTENDS Values, Texts, Slices

\* What an operation comes to: how it ended, the objects, and its result.
Outcome(how, h, r) == [how |-> how, heap |-> h, r |-> r]
Done(h, r) == Outcome("ok", h, r)
Ended(how, h) == Outcome(how, h, Hole)
Thrown(h) == Ended("throw", h)
Made(h, object) == Done(Append(h, object), Len(h) + 1)
WithSeq(h, x, s) == [h EXCEPT ![x].seq = s]
WithMap(h, x, m) == [h EXCEPT ![x].map = m]
TypeIs(h, x, type) == x # Hole /\ h[x].type = type
Verdict(h, answer) ==
  IF answer \in {"true", "false"} THEN Made(h, NewBool(answer = "true")) ELSE Ended(answer, h)

Errors == {"throw", "crash"}
Answers(h, xs, y) == [k \in DOMAIN xs |-> Equal(h, xs[k], y)]
FirstOf(answers, kinds) == Min({k \in DOMAIN answers : answers[k] \in kinds} \cup {Len(answers) + 1})

\* vec.erase(remove_if(...)): what stays is moved to the front.  When the
\* question of an element throws, the elements moved so far leave empty places.
RemoveIf(s, answers, empty) ==
  LET stop == FirstOf(answers, Errors)
      first == FirstOf(answers, Errors \cup {"true"})
      moved == SelectSeq([k \in 1 .. stop - 1 |-> k], LAMBDA k : k > first /\ answers[k] = "false")
      front == SubSeq(s, 1, first - 1) \o [k \in DOMAIN moved |-> s[moved[k]]]
      left(k) == IF k > first /\ answers[k] = "false" THEN empty ELSE s[k]
  IN IF stop > Len(s) THEN front
     ELSE [k \in DOMAIN s |-> IF k <= Len(front) THEN front[k]
                              ELSE IF k < stop THEN left(k) ELSE s[k]]
-----------------------------------------------------------------------------
\* Arrays

Absent == -99
SliceOf(object) ==
  [start |-> object.seq[1], hasStart |-> object.seq[1] # Absent,
   end |-> object.seq[2], hasEnd |-> object.seq[2] # Absent,
   step |-> object.seq[3], hasStep |-> object.seq[3] # Absent]

\* for (int i = start; i < end; i += step): the places it visits, from 1.
Stepped(s) == LET rounds == (s.end - s.start + s.step - 1) \div s.step
              IN [k \in 1 .. rounds |-> s.start + (k - 1) * s.step + 1]
\* Element(slice): with a step of 0 it never ends, below 0 it leaves the array.
Sliced(h, seq, slice, type) ==
  LET s == SliceLogic(SliceOf(slice), Len(seq))
  IN IF s.start < s.end /\ s.step = 0 THEN Ended("hang", h)
     ELSE IF s.start < s.end /\ s.step < 0 THEN Ended("undefined", h)
     ELSE Made(h, Object(type, 0, IF s.start >= s.end THEN <<>>
                                  ELSE LET places == Stepped(s) IN [k \in DOMAIN places |-> seq[places[k]]], <<>>))

\* Mutant: the place after the last one is read.
ArrayGetItemOpen(h, x, i) ==
  LET place == ElementPlace(h[i].n, Len(h[x].seq))
  IN IF h[i].type = "SLICE" THEN Sliced(h, h[x].seq, h[i], "ARRAY")
     ELSE IF h[i].type # "INT" \/ place > Len(h[x].seq) THEN Thrown(h)
     ELSE IF place = Len(h[x].seq) THEN Ended("undefined", h)
     ELSE Done(h, h[x].seq[place + 1])

ArrayGetItem(h, x, i) ==
  LET place == ElementPlace(h[i].n, Len(h[x].seq))
  IN IF h[i].type = "SLICE" THEN Sliced(h, h[x].seq, h[i], "ARRAY")
     ELSE IF h[i].type # "INT" \/ place >= Len(h[x].seq) THEN Thrown(h)
     ELSE Done(h, h[x].seq[place + 1])

ArraySetItem(h, x, i, v) ==
  IF h[i].type = "INT" /\ h[i].n \in 0 .. Len(h[x].seq) - 1
  THEN Done(WithSeq(h, x, [h[x].seq EXCEPT ![h[i].n + 1] = v]), Hole)
  ELSE Thrown(h)
\* erase(begin() + i) looks at no bound.
ArrayDelItem(h, x, i) ==
  LET seq == h[x].seq
      s == SliceLogic(SliceOf(h[i]), Len(seq))
  IN CASE h[i].type = "INT" ->
            IF h[i].n \in 0 .. Len(seq) - 1 THEN Done(WithSeq(h, x, RemoveAt(seq, h[i].n + 1)), Hole)
            ELSE Ended("undefined", h)
       [] h[i].type = "SLICE" ->
            Done(WithSeq(h, x, SubSeq(seq, 1, s.start) \o SubSeq(seq, s.end + 1, Len(seq))), Hole)
       [] OTHER -> Thrown(h)
ArrayIn(h, x, y) ==
  LET answers == Answers(h, h[x].seq, y)
      k == FirstOf(answers, Errors \cup {"true"})
  IN Verdict(h, IF k > Len(answers) THEN "false" ELSE answers[k])
ArrayIndex(h, x, y) ==
  LET answers == Answers(h, h[x].seq, y)
      k == FirstOf(answers, Errors \cup {"true"})
  IN IF k > Len(answers) THEN Made(h, NewBool(FALSE))
     ELSE IF answers[k] = "true" THEN Made(h, NewInt(k - 1)) ELSE Ended(answers[k], h)
ArrayCount(h, x, y) ==
  LET answers == Answers(h, h[x].seq, y)
      k == FirstOf(answers, Errors)
  IN IF k <= Len(answers) THEN Ended(answers[k], h)
     ELSE Made(h, NewInt(Len(SelectSeq(answers, LAMBDA a : a = "true"))))
ArrayRemove(h, x, y) ==
  LET answers == Answers(h, h[x].seq, y)
      k == FirstOf(answers, Errors)
      h1 == WithSeq(h, x, RemoveIf(h[x].seq, answers, Hole))
  IN IF k <= Len(answers) THEN Ended(answers[k], h1) ELSE Done(h1, x)
\* result += element; result += delim; and the last delim is cut off.
ArrayJoin(h, x, delim) ==
  LET seq == h[x].seq
      bad == {k \in DOMAIN seq : ~TypeIs(h, seq[k], "STRING")}
      texts == [k \in DOMAIN seq |-> IF k = 1 THEN h[seq[k]].seq ELSE delim \o h[seq[k]].seq]
  IN IF bad # {} THEN Ended(IF seq[Min(bad)] = Hole THEN "crash" ELSE "throw", h)
     ELSE Made(h, NewString(FlattenSeq(texts)))
\* extend walks over the other array while it appends.
ArrayExtend(h, x, y) ==
  IF x = y /\ h[x].seq # <<>> THEN Ended("undefined", h)
  ELSE Done(WithSeq(h, x, h[x].seq \o h[y].seq), x)
ArrayInsert(h, x, i, v) ==
  IF h[i].n \notin 0 .. Len(h[x].seq) THEN Thrown(h)
  ELSE Done(WithSeq(h, x, InsertAt(h[x].seq, h[i].n + 1, v)), x)
ArrayPop(h, x, i) ==
  IF h[i].n \notin 0 .. Len(h[x].seq) - 1 THEN Thrown(h)
  ELSE Done(WithSeq(h, x, RemoveAt(h[x].seq, h[i].n + 1)), h[x].seq[h[i].n + 1])

\* The methods of ArrayType, with their checks of the arguments.
ArrayMethod(h, x, op, args) ==
  LET n == Len(args)
      IsType(k, type) == TypeIs(h, args[k], type)
  IN CASE op = "append" /\ n >= 1 -> Done(WithSeq(h, x, h[x].seq \o args), x)
       [] op = "extend" /\ n >= 1 /\ IsType(1, "ARRAY") -> ArrayExtend(h, x, args[1])
       [] op = "insert" /\ n >= 2 /\ IsType(1, "INT") -> ArrayInsert(h, x, args[1], args[2])
       [] op = "remove" /\ n >= 1 -> ArrayRemove(h, x, args[1])
       [] op = "pop" /\ n >= 1 /\ IsType(1, "INT") -> ArrayPop(h, x, args[1])
       [] op = "clear" -> Done(WithSeq(h, x, <<>>), x)
       [] op = "index" /\ n >= 1 -> ArrayIndex(h, x, args[1])
       [] op = "count" /\ n = 1 -> ArrayCount(h, x, args[1])
       [] op = "reverse" /\ n = 0 -> Done(WithSeq(h, x, Reverse(h[x].seq)), x)
       [] op = "join" /\ n = 0 -> ArrayJoin(h, x, <<>>)
       [] op = "join" /\ n = 1 /\ IsType(1, "STRING") -> ArrayJoin(h, x, h[args[1]].seq)
       [] OTHER -> Thrown(h)
-----------------------------------------------------------------------------
\* Maps: a bucket is [hash, list], list a sequence of pairs <<key, value>>.

BucketOf(map, hash) == SelectInSeq(map, LAMBDA b : b.hash = hash)
ListOf(map, hash) == IF BucketOf(map, hash) = 0 THEN <<>> ELSE map[BucketOf(map, hash)].list
Pairs(map) == FlattenSeq([k \in DOMAIN map |-> map[k].list])

\* MapObject::Exists, of a key that has a hash.
Exists(h, x, k) ==
  \E n \in DOMAIN ListOf(h[x].map, Hash(h, k).h) :
    Same(h, ListOf(h[x].map, Hash(h, k).h)[n][1], k) = "true"

\* Insert_ and the value it is given: a bucket that is new comes anywhere in
\* the order of unordered_map, here first or last.
Insert(map, hash, pair, first) ==
  LET b == BucketOf(map, hash)
      new == [hash |-> hash, list |-> <<pair>>]
  IN IF b # 0 THEN [map EXCEPT ![b].list = Append(@, pair)]
     ELSE IF first THEN <<new>> \o map ELSE Append(map, new)

\* Mutant: the key is put in again when it is there.
MapSetItemAgain(h, x, k, v, first) ==
  IF Hash(h, k).how # "ok" THEN Ended(Hash(h, k).how, h)
  ELSE Done(WithMap(h, x, Insert(h[x].map, Hash(h, k).h, <<k, v>>, first)), Hole)

\* SetItem by ElementRef: the value of a key that exists is the last one of
\* its bucket.
MapSetItem(h, x, k, v, first) ==
  LET map == h[x].map
      hash == Hash(h, k).h
      b == BucketOf(map, hash)
  IN IF Hash(h, k).how # "ok" THEN Ended(Hash(h, k).how, h)
     ELSE IF Exists(h, x, k)
     THEN Done(WithMap(h, x, [map EXCEPT ![b].list[Len(map[b].list)] = <<@[1], v>>]), Hole)
     ELSE Done(WithMap(h, x, Insert(map, hash, <<k, v>>, first)), Hole)

\* Element: only the first key of the bucket is compared.
MapGetItem(h, x, k) ==
  LET list == ListOf(h[x].map, Hash(h, k).h)
  IN IF Hash(h, k).how # "ok" THEN Ended(Hash(h, k).how, h)
     ELSE IF list # <<>> /\ Same(h, list[1][1], k) = "true" THEN Done(h, list[1][2])
     ELSE Thrown(h)

KeyAnswers(h, list, k) == [n \in DOMAIN list |-> Equal(h, list[n][1], k)]
MapIn(h, x, k) ==
  LET answers == KeyAnswers(h, ListOf(h[x].map, Hash(h, k).h), k)
      n == FirstOf(answers, Errors \cup {"true"})
  IN IF Hash(h, k).how # "ok" THEN Ended(Hash(h, k).how, h)
     ELSE Verdict(h, IF n > Len(answers) THEN "false" ELSE answers[n])

\* DelItem: an empty bucket stays.
MapDelItem(h, x, k) ==
  LET b == BucketOf(h[x].map, Hash(h, k).h)
      list == h[x].map[b].list
      answers == KeyAnswers(h, list, k)
      n == FirstOf(answers, Errors)
      h1 == WithMap(h, x, [h[x].map EXCEPT ![b].list = RemoveIf(list, answers, <<Hole, Hole>>)])
  IN IF Hash(h, k).how # "ok" THEN Ended(Hash(h, k).how, h)
     ELSE IF b = 0 THEN Done(h, Hole)
     ELSE IF n <= Len(list) THEN Ended(answers[n], h1) ELSE Done(h1, Hole)

\* The constructor of a literal: a key whose bucket exists is dropped.
Constructed(h, pairs) ==
  FoldLeft(LAMBDA map, pair : IF BucketOf(map, Hash(h, pair[1]).h) # 0 THEN map
                              ELSE Insert(map, Hash(h, pair[1]).h, pair, TRUE), <<>>, pairs)
MapLiteral(h, pairs) ==
  LET bad == {k \in DOMAIN pairs : Hash(h, pairs[k][1]).how # "ok"}
  IN IF bad # {} THEN Ended(Hash(h, pairs[Min(bad)][1]).how, h)
     ELSE Made(h, NewMap(Constructed(h, pairs)))

\* Update: a new map; a key of both appears once, or twice with override.
Update(h, x, y, override) ==
  LET pairs == SelectSeq(Pairs(h[y].map), LAMBDA p : override \/ ~Exists(h, x, p[1]))
      bad == {k \in DOMAIN Pairs(h[y].map) : Hash(h, Pairs(h[y].map)[k][1]).how # "ok"}
  IN IF bad # {} THEN Ended(Hash(h, Pairs(h[y].map)[Min(bad)][1]).how, h)
     ELSE Made(h, NewMap(FoldLeft(LAMBDA map, p : Insert(map, Hash(h, p[1]).h, p, TRUE),
                                  h[x].map, pairs)))

\* The methods of MapType: clear clears a copy, update drops the map it makes.
MapMethod(h, x, op, args) ==
  LET n == Len(args)
      IsType(k, type) == TypeIs(h, args[k], type)
      pairs == Pairs(h[x].map)
      updated == Update(h, x, args[1], FALSE)
  IN CASE op = "keys" /\ n = 0 -> Made(h, NewArray([k \in DOMAIN pairs |-> pairs[k][1]]))
       [] op = "values" /\ n = 0 -> Made(h, NewArray([k \in DOMAIN pairs |-> pairs[k][2]]))
       [] op = "clear" /\ n = 0 -> Done(h, x)
       [] op = "update" /\ n >= 1 /\ (n = 2 => IsType(2, "BOOL")) /\ IsType(1, "MAP") ->
            IF updated.how = "ok" THEN Done(h, x) ELSE updated
       [] op = "exists" /\ n = 1 ->
            IF Hash(h, args[1]).how # "ok" THEN Ended(Hash(h, args[1]).how, h)
            ELSE Verdict(h, IF Exists(h, x, args[1]) THEN "true" ELSE "false")
       [] OTHER -> Thrown(h)
-----------------------------------------------------------------------------
\* Strings

\* at: neither the index nor its type is checked; the place after the last
\* character holds a 0 of C.
StringAt(h, x, args) ==
  IF args = <<>> \/ ~TypeIs(h, args[1], "INT") \/ h[args[1]].n \notin 0 .. Len(h[x].seq) - 1
  THEN Ended("undefined", h)
  ELSE Made(h, NewString(<<h[x].seq[h[args[1]].n + 1]>>))
StringGetItem(h, x, i) ==
  LET place == ElementPlace(h[i].n, Len(h[x].seq))
  IN IF h[i].type = "SLICE" THEN Sliced(h, h[x].seq, h[i], "STRING")
     ELSE IF h[i].type # "INT" \/ place >= Len(h[x].seq) THEN Thrown(h)
     ELSE Made(h, NewString(<<h[x].seq[place + 1]>>))

StringSplit(h, x, delim) ==
  LET parts == Split(h[x].seq, delim)
  IN Done(h \o [k \in DOMAIN parts |-> NewString(parts[k])]
            \o <<NewArray([k \in DOMAIN parts |-> Len(h) + k])>>, Len(h) + Len(parts) + 1)


\* The methods of StringType.  Those that change the text change the object.
StringMethod(h, x, op, args) ==
  LET n == Len(args)
      s == h[x].seq
      IsType(k, type) == TypeIs(h, args[k], type)
      Text(k) == h[args[k]].seq
      found == Find(s, Text(1), IF n = 2 THEN h[args[2]].n ELSE 0)
      Changed(t) == Done(WithSeq(h, x, t), x)
  IN CASE op = "at" -> StringAt(h, x, args)
       [] op = "to_lower" /\ n = 0 -> Changed(ToLower(s))
       [] op = "to_upper" /\ n = 0 -> Changed(ToUpper(s))
       [] op = "trim" /\ n = 0 -> Changed(Trim(s))
       [] op = "trim_left" /\ n = 0 -> Changed(TrimLeft(s))
       [] op = "trim_right" /\ n = 0 -> Changed(TrimRight(s))
       [] op = "find" /\ n \in 1 .. 2 /\ (n = 2 => IsType(2, "INT")) /\ IsType(1, "STRING") ->
            Made(h, IF found = Npos THEN NewBool(FALSE) ELSE NewInt(found))
       [] op = "count" /\ n = 1 /\ IsType(1, "STRING") -> Made(h, NewInt(Count(s, Text(1))))
       [] op = "ends_with" /\ n = 1 /\ IsType(1, "STRING") -> Made(h, NewBool(EndsWith(s, Text(1))))
       [] op = "split" /\ n = 1 /\ IsType(1, "STRING") -> StringSplit(h, x, Text(1))
       [] op = "replace" /\ n = 2 /\ IsType(1, "STRING") /\ IsType(2, "STRING") ->
            Changed(Replaced(s, Text(1), Text(2)))
       [] op = "replace_first" /\ n = 2 /\ IsType(1, "STRING") /\ IsType(2, "STRING") ->
            Changed(ReplaceFirst(s, Text(1), Text(2)))
       [] op = "replace_last" /\ n = 2 /\ IsType(1, "STRING") /\ IsType(2, "STRING") ->
            Changed(ReplaceLast(s, Text(1), Text(2)))
       [] op = "erase_all" /\ n = 1 /\ IsType(1, "STRING") -> Changed(EraseAll(s, Text(1)))
       [] OTHER -> Thrown(h)
-----------------------------------------------------------------------------
\* Operators and constructors, by the type of the object

\* The element of x at i, as the language reads it.
GetItem(h, x, i) ==
  CASE h[x].type \in {"ARRAY", "TUPLE"} -> ArrayGetItem(h, x, i)
    [] h[x].type = "MAP" -> MapGetItem(h, x, i)
    [] h[x].type = "STRING" -> StringGetItem(h, x, i)
    [] OTHER -> Thrown(h)
SetItem(h, x, i, v, first) ==
  CASE h[x].type \in {"ARRAY", "TUPLE"} -> ArraySetItem(h, x, i, v)
    [] h[x].type = "MAP" -> MapSetItem(h, x, i, v, first)
    [] OTHER -> Thrown(h)
DelItem(h, x, i) ==
  CASE h[x].type = "ARRAY" -> ArrayDelItem(h, x, i)
    [] h[x].type = "MAP" -> MapDelItem(h, x, i)
    [] OTHER -> Thrown(h)
In(h, x, y) ==
  CASE h[x].type = "ARRAY" -> ArrayIn(h, x, y)
    [] h[x].type = "MAP" -> MapIn(h, x, y)
    [] OTHER -> Thrown(h)
\* + of containers and of two strings; numbers are in Expressions.
Add(h, x, y) ==
  CASE h[x].type = "ARRAY" /\ h[y].type = "ARRAY" -> Made(h, NewArray(h[x].seq \o h[y].seq))
    [] h[x].type = "MAP" /\ h[y].type = "MAP" -> Update(h, x, y, FALSE)
    [] h[x].type = "STRING" /\ h[y].type = "STRING" -> Made(h, NewString(h[x].seq \o h[y].seq))
    [] OTHER -> Thrown(h)
\* Copy: a new container of the same elements.
Copy(h, x) ==
  IF h[x].type \in {"INT", "REAL", "STRING", "ARRAY", "TUPLE", "MAP"} THEN Made(h, h[x]) ELSE Thrown(h)
\* ObjArray
ToArray(h, x) ==
  IF h[x].type \in {"ARRAY", "TUPLE"} THEN Made(h, NewArray(h[x].seq)) ELSE Thrown(h)
Method(h, x, op, args) ==
  CASE h[x].type = "ARRAY" -> ArrayMethod(h, x, op, args)
    [] h[x].type = "MAP" -> MapMethod(h, x, op, args)
    [] h[x].type = "STRING" -> StringMethod(h, x, op, args)
    [] OTHER -> Thrown(h)
=============================================================================
