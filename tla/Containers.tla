----------------------------- MODULE Containers -----------------------------
(***************************************************************************)
(* Arrays, tuples, maps and strings under a script.  A script is a row of  *)
(* statements, each one operation of Methods on named objects; for_each,   *)
(* map, filter, sort with a function and for (objects/array-object.cc,     *)
(* map-object.cc, interpreter/stmt-executor.cc) give control back to the   *)
(* script between two elements, and what it does there to the container    *)
(* they stand in is the interesting case.                                  *)
(***************************************************************************)
EXTENDS Methods

CONSTANTS
  Sessions, \* [heap, env, statements, results, fuel]: where a script starts, what it may
            \* say and return, and, as a bound, how many statements it runs
  Rounds    \* bound: the elements one for loop shows, as some never end

VARIABLES
  session,  \* the member of Sessions the script is of
  heap,     \* the objects
  env,      \* the object each name is bound to
  frames,   \* loops and methods under way, the innermost last
  fuel,     \* statements left
  status,   \* "ok", or how the process ended: "crash", "undefined", "hang"
  torn,     \* a comparison failed inside a sort or a remove, or a statement ran in one
  touched,  \* objects that were changed in place
  provoked  \* the script did what the code does not guard against

vars == <<session, heap, env, frames, fuel, status, torn, touched, provoked>>

\* A frame: kind, the container it stands in, its iterator, the places i and j
\* of the loop, the element sort holds, what filter keeps, whether the script
\* has control, the name of the result, whether the contents moved; and, for
\* the properties, what the container was, what the script was shown and
\* whether only the frame changed it.
Frame(kind, self, it, to) ==
  [kind |-> kind, self |-> self, it |-> it, to |-> to, i |-> 1, j |-> 0, held |-> Hole,
   keep |-> <<>>, busy |-> FALSE, moved |-> FALSE,
   start |-> heap[self], seen |-> <<>>, clean |-> TRUE]
Top == Last(frames)
Stay(f) == Front(frames) \o <<f>>
Free == status = "ok" /\ (IF frames = <<>> THEN TRUE ELSE Top.busy)
Idle(kinds) == status = "ok" /\ frames # <<>> /\ ~Top.busy /\ Top.kind \in kinds
Asked(kinds) == status = "ok" /\ frames # <<>> /\ Top.busy /\ Top.kind \in kinds
Holding == \E k \in DOMAIN frames : frames[k].held # Hole

Size(object) == IF object.type = "MAP" THEN [k \in DOMAIN object.map |-> Len(object.map[k].list)]
                ELSE <<Len(object.seq)>>
\* The frames fs when the objects become h: a container another one than its
\* frame changed is not clean any more, and moves when its size changes.
Watched(fs, h) ==
  [k \in DOMAIN fs |->
     LET x == fs[k].self
     IN [fs[k] EXCEPT !.clean = @ /\ heap[x] = h[x], !.moved = @ \/ Size(heap[x]) # Size(h[x])]]
Others(h) == Watched(Front(frames), h)

\* The container an iterator walks over.
Walked(x) == IF heap[x].type \in {"ARRAY_ITER", "TUPLE_ITER", "MAP_ITER"} THEN heap[x].seq[1] ELSE x
\* The bucket an iterator of a map stands at: its hash, End, or Stale when the
\* buckets were replaced since.
End == -1
Stale == -2

\* set_value of the container x: the others that stand in it have moved, and
\* the iterators of a map are stale, whatever the new contents are.
Refilled(fs, x) == [k \in DOMAIN fs |-> [fs[k] EXCEPT !.moved = @ \/ fs[k].self = x]]
Outdated(h, x) ==
  [y \in DOMAIN h |-> IF h[y].type = "MAP_ITER" /\ h[y].seq[1] = x THEN [h[y] EXCEPT !.seq[2] = Stale] ELSE h[y]]

FirstHash(map) == IF map = <<>> THEN End ELSE map[1].hash
NextHash(map, hash) ==
  LET b == BucketOf(map, hash) IN IF b = Len(map) THEN End ELSE map[b + 1].hash

\* ObjIter.  An iterator is [n: place, seq: <<container, hash>>].
NewIter(h, x) ==
  CASE h[x].type = "ARRAY" -> Made(h, Object("ARRAY_ITER", 0, <<x, End>>, <<>>))
    [] h[x].type = "TUPLE" -> Made(h, Object("TUPLE_ITER", 0, <<x, End>>, <<>>))
    [] h[x].type = "MAP" -> Made(h, Object("MAP_ITER", 0, <<x, FirstHash(h[x].map)>>, <<>>))
    [] h[x].type \in {"ARRAY_ITER", "TUPLE_ITER", "MAP_ITER"} -> Done(h, x)
    [] OTHER -> Thrown(h)

\* Mutant: the last element is not reached.
HasNextShort(h, it) ==
  IF h[it].type = "MAP_ITER" THEN h[it].seq[2] # End
  ELSE h[it].n + 1 < Len(h[h[it].seq[1]].seq)

\* HasNext: the place is compared with ==, so that of an array which became
\* shorter is never the end.
HasNext(h, it) ==
  IF h[it].type = "MAP_ITER" THEN h[it].seq[2] # End
  ELSE h[it].n # Len(h[h[it].seq[1]].seq)

\* Next.  An emptied bucket, or one that is gone, is read all the same; what a
\* stale iterator reads, or is compared with, is not defined.
Next_(h, it) ==
  LET x == h[it].seq[1]
      hash == h[it].seq[2]
      list == ListOf(h[x].map, hash)
      n == h[it].n + 1
      pair == NewTuple(list[n])
      on == IF n < Len(list) THEN [h EXCEPT ![it].n = n]
            ELSE [h EXCEPT ![it].n = 0, ![it].seq[2] = NextHash(h[x].map, hash)]
  IN IF h[it].type = "MAP_ITER"
     THEN IF hash = Stale \/ n > Len(list) THEN Ended("undefined", h) ELSE Made(on, pair)
     ELSE IF n > Len(h[x].seq) THEN Made(h, NewNull)
     ELSE Done([h EXCEPT ![it].n = n], h[x].seq[n])
-----------------------------------------------------------------------------
\* Statements

\* The arguments of a call, passed one after the other: [heap, r].
RECURSIVE PassedAll(_, _)
PassedAll(h, xs) ==
  IF xs = <<>> THEN [heap |-> h, r |-> <<>>]
  ELSE LET first == Passed(h, Head(xs))
           rest == PassedAll(first.heap, Tail(xs))
       IN [heap |-> rest.heap, r |-> <<first.r>> \o rest.r]

\* What a statement [op, on, args, to] that runs no function comes to.  The
\* index of an assignment and the object of a method are not copied.
Run(st, first) ==
  LET x == env[st.on]
      given == [k \in DOMAIN st.args |-> env[st.args[k]]]
      p == PassedAll(heap, given)
      set == Passed(heap, given[2])
  IN IF x = Hole THEN Ended("crash", heap)
     ELSE CASE st.op = "get" -> GetItem(p.heap, x, p.r[1])
            [] st.op = "set" -> IF given[1] = Hole THEN Ended("crash", heap)
                                ELSE SetItem(set.heap, x, given[1], set.r, first)
            [] st.op = "del" -> DelItem(p.heap, x, p.r[1])
            [] st.op = "in" -> In(p.heap, x, p.r[1])
            [] st.op = "add" -> Add(p.heap, x, p.r[1])
            [] st.op = "equal" -> Verdict(p.heap, Equal(p.heap, x, p.r[1]))
            [] st.op = "let" -> LET own == Passed(heap, x) IN Done(own.heap, own.r)
            [] st.op = "copy" -> Copy(heap, x)
            [] st.op = "array" -> ToArray(heap, x)
            [] st.op = "iter" -> NewIter(heap, x)
            [] st.op = "tuple" -> Made(p.heap, NewTuple(p.r))
            [] st.op = "dict" -> MapLiteral(p.heap, [k \in 1 .. Len(p.r) \div 2 |->
                                                       <<p.r[2 * k - 1], p.r[2 * k]>>])
            [] OTHER -> Method(p.heap, x, st.op, p.r)

\* The value a name gets: what an element is read for is copied.
Bind(out, to, op) ==
  LET v == IF op = "get" THEN Passed(out.heap, out.r) ELSE [heap |-> out.heap, r |-> out.r]
  IN IF to = "" \/ out.how # "ok" THEN [heap |-> out.heap, env |-> env]
     ELSE [heap |-> v.heap, env |-> [env EXCEPT ![to] = v.r]]

\* An exception ends the frames down to a try, or all of them.
Unwound(fs) == {SubSeq(fs, 1, k) : k \in 0 .. Len(fs)}
\* What a step that came to out leaves of the objects, the frames and the process.
Becomes(out, fs) ==
  /\ heap' = out.heap
  /\ frames' \in IF out.how = "throw" THEN Unwound(fs) ELSE {fs}
  /\ status' = IF out.how = "throw" THEN "ok" ELSE out.how
  /\ touched' = touched \cup {x \in DOMAIN heap : out.heap[x] # heap[x]}

\* What the code does not guard against: a place that is not one, a slice that
\* does not go forward, an array extended by itself or put into itself, the
\* element a sort holds, the bucket of a deleted key.
Place(x, i) == i # Hole /\ heap[i].type = "INT" /\ heap[i].n \in 0 .. Len(heap[x].seq) - 1
RECURSIVE Deep(_, _, _)
Deep(h, x, depth) == x # Hole /\ (depth = 0 \/ (\E k \in DOMAIN h[x].seq :
                       h[x].type \in {"ARRAY", "TUPLE"} /\ Deep(h, h[x].seq[k], depth - 1)))
Unguarded(st, h) ==
  LET x == env[st.on]
      i == IF st.args = <<>> THEN Hole ELSE env[st.args[1]]
      OfObject == \/ st.op = "del" /\ heap[x].type = "ARRAY" /\ heap[i].type = "INT" /\ ~Place(x, i)
                  \/ st.op = "at" /\ ~Place(x, i)
                  \/ st.op = "get" /\ TypeIs(heap, i, "SLICE") /\ heap[i].seq[3] <= 0
                  \/ st.op = "extend" /\ i = x
      OfHeap == \E y \in DOMAIN h : Deep(h, y, Len(h)) \/ (\E b \in DOMAIN h[y].map : h[y].map[b].list = <<>>)
  IN (x # Hole /\ OfObject) \/ OfHeap

Calls == [ARRAY |-> {"for", "for_each", "map", "filter", "sort", "sortby"}, MAP |-> {"for", "filter"},
          TUPLE |-> {"for"}, ARRAY_ITER |-> {"for"}, MAP_ITER |-> {"for"}, TUPLE_ITER |-> {"for"}]
Runs(st) == LET x == env[st.on]
            IN x # Hole /\ heap[x].type \in DOMAIN Calls /\ st.op \in Calls[heap[x].type]

\* A statement that runs no function.
Statement(st) ==
  /\ Free /\ fuel > 0 /\ ~Runs(st)
  /\ fuel' = fuel - 1
  /\ \E first \in BOOLEAN :
       LET out == Run(st, first)
           bound == Bind(out, st.to, st.op)
           fs == Watched(frames, bound.heap)
       IN /\ Becomes([out EXCEPT !.heap = bound.heap], fs)
          /\ env' = bound.env
          /\ torn' = (torn \/ Holding \/ (st.op \in {"remove", "del"} /\ out.how = "throw"))
          /\ provoked' = (provoked \/ Unguarded(st, bound.heap))
  /\ UNCHANGED session
-----------------------------------------------------------------------------
\* Loops and the methods that run a function

\* for asks its container for an iterator; the methods stand in the container.
Begin(st) ==
  LET x == env[st.on]
      iter == NewIter(heap, x)
  IN /\ Free /\ fuel > 0 /\ Runs(st)
     /\ fuel' = fuel - 1
     /\ heap' = IF st.op = "for" THEN iter.heap ELSE heap
     /\ frames' = Append(frames,
          IF st.op = "for"
          THEN [Frame("for", Walked(x), iter.r, st.to) EXCEPT !.clean = (Walked(x) = x)]
          ELSE [Frame(st.op, x, Hole, st.to) EXCEPT !.i = IF st.op \in {"sort", "sortby"} THEN 2 ELSE 1])
     /\ torn' = (torn \/ Holding)
     /\ UNCHANGED <<session, env, status, touched, provoked>>

\* ForInExecutor: the next element, when every iterator has one.
ForNext ==
  LET f == Top
      out == Next_(heap, f.it)
      shown == IF heap[f.it].type = "MAP_ITER" THEN out.heap[out.r].seq ELSE out.r
  IN /\ Idle({"for"}) /\ HasNext(heap, f.it) /\ Len(f.seen) < Rounds
     /\ Becomes(out, IF out.how = "ok" THEN Stay([f EXCEPT !.busy = TRUE, !.seen = Append(@, shown)])
                     ELSE frames)
     /\ env' = [env EXCEPT !["e"] = out.r]
     /\ UNCHANGED <<session, fuel, torn, provoked>>
ForAgain ==
  /\ Asked({"for"})
  /\ frames' = Stay([Top EXCEPT !.busy = FALSE])
  /\ UNCHANGED <<session, heap, env, fuel, status, torn, touched, provoked>>
ForBreak ==
  /\ Asked({"for"})
  /\ frames' = Front(frames)
  /\ UNCHANGED <<session, heap, env, fuel, status, torn, touched, provoked>>
ForEnd ==
  /\ Idle({"for"}) /\ ~HasNext(heap, Top.it)
  /\ frames' = Front(frames)
  /\ UNCHANGED <<session, heap, env, fuel, status, torn, touched, provoked>>

\* What a method gives to the name of its result: the container itself.
Result(f) == env' = IF f.to = "" THEN env ELSE [env EXCEPT ![f.to] = f.self]
Elements(object) == IF object.type = "MAP" THEN Pairs(object.map) ELSE object.seq
Walks == {"for_each", "map", "filter"}
\* The function is called with the next element, as long as there is one.
CallNext ==
  LET f == Top
      element == Elements(heap[f.self])[f.i]
      argument == IF heap[f.self].type = "MAP" THEN element[1] ELSE element
  IN /\ Idle(Walks) /\ f.i <= Len(Elements(heap[f.self]))
     /\ frames' = Stay([f EXCEPT !.busy = TRUE, !.seen = Append(@, element)])
     /\ env' = [env EXCEPT !["e"] = argument]
     /\ UNCHANGED <<session, heap, fuel, status, torn, touched, provoked>>

\* It returns: map stores the result at a place it does not check again, filter
\* keeps the element when the result is true.  A map that is filtered is read
\* by references to its buckets, and what is kept of it has an order of its own.
CallReturn ==
  LET f == Top
      x == f.self
      list == heap[x].seq
      OfMap == heap[x].type = "MAP"
  IN /\ Asked(Walks)
     /\ \E name \in session.results, first \in BOOLEAN :
          LET p == Passed(heap, env[name])
              truth == Truth(p.heap, p.r)
              pair == Elements(heap[x])[f.i]
              kept == IF OfMap THEN MapSetItem(WithMap(p.heap, x, f.keep), x, pair[1], pair[2], first)
                      ELSE Done(p.heap, Hole)
              keep == IF truth # "true" THEN f.keep
                      ELSE IF OfMap THEN kept.heap[x].map ELSE Append(f.keep, Last(f.seen))
              how == IF (OfMap /\ f.moved) \/ (f.kind = "map" /\ f.i > Len(list)) THEN "undefined"
                     ELSE IF f.kind = "filter" /\ truth \in Errors THEN truth
                     ELSE IF f.kind = "filter" /\ truth = "true" THEN kept.how ELSE "ok"
              h == IF f.kind = "map" /\ how = "ok" THEN WithSeq(p.heap, x, [list EXCEPT ![f.i] = p.r])
                   ELSE p.heap
              on == [f EXCEPT !.busy = FALSE, !.i = @ + 1,
                              !.keep = IF f.kind = "filter" /\ how = "ok" THEN keep ELSE @]
          IN Becomes(Outcome(how, h, Hole), Others(h) \o <<on>>)
     /\ UNCHANGED <<session, env, fuel, torn, provoked>>

\* The end: filter gives the container what it kept, for what it had.
CallEnd ==
  LET f == Top
      x == f.self
      h == IF heap[x].type = "MAP" THEN Outdated(WithMap(heap, x, f.keep), x) ELSE WithSeq(heap, x, f.keep)
  IN /\ Idle(Walks) /\ f.i > Len(Elements(heap[x]))
     /\ IF f.kind = "filter" THEN Becomes(Done(h, Hole), Refilled(Others(h), x))
        ELSE Becomes(Done(heap, Hole), Front(frames))
     /\ Result(f)
     /\ UNCHANGED <<session, fuel, torn, provoked>>
-----------------------------------------------------------------------------
\* sort: the insertion sort std::sort is for up to 16 elements.  Element i is
\* compared with the first; when it is not below, it is taken out and the empty
\* place j goes down while the element is below the one before it.

\* Mutant: an element below the first changes places with it.
SortedSwapped(f, s, less) ==
  IF f.j = 0 /\ less THEN [s EXCEPT ![1] = s[f.i], ![f.i] = s[1]]
  ELSE IF f.j = 0 THEN [s EXCEPT ![f.i] = Hole]
  ELSE IF less THEN [s EXCEPT ![f.j] = s[f.j - 1], ![f.j - 1] = Hole]
  ELSE [s EXCEPT ![f.j] = f.held]

Sorted(f, s, less) ==
  IF f.j = 0 /\ less THEN <<s[f.i]>> \o SubSeq(s, 1, f.i - 1) \o SubSeq(s, f.i + 1, Len(s))
  ELSE IF f.j = 0 THEN [s EXCEPT ![f.i] = Hole]
  ELSE IF less THEN [s EXCEPT ![f.j] = s[f.j - 1], ![f.j - 1] = Hole]
  ELSE [s EXCEPT ![f.j] = f.held]

SortOn(f, s, less) ==
  IF f.j = 0 /\ ~less THEN [f EXCEPT !.busy = FALSE, !.held = s[f.i], !.j = f.i]
  ELSE IF f.j # 0 /\ less THEN [f EXCEPT !.busy = FALSE, !.j = @ - 1]
  ELSE [f EXCEPT !.busy = FALSE, !.held = Hole, !.j = 0, !.i = @ + 1]
SortCall ==
  /\ Idle({"sortby"}) /\ Top.i <= Len(heap[Top.self].seq) /\ Top.j # 1
  /\ frames' = Stay([Top EXCEPT !.busy = TRUE])
  /\ UNCHANGED <<session, heap, env, fuel, status, torn, touched, provoked>>
\* The answer of Comp, or of the function: one that is no bool throws.
SortStep ==
  LET f == Top
      s == heap[f.self].seq
      below == IF f.j = 0 THEN s[f.i] ELSE f.held
      above == IF f.j = 0 THEN s[1] ELSE s[f.j - 1]
      Said(x) == IF TypeIs(heap, x, "BOOL") THEN Truth(heap, x) ELSE "throw"
      answers == IF f.kind = "sort" THEN {Lesser(heap, below, above)}
                 ELSE {Said(env[name]) : name \in session.results}
  IN /\ Idle({"sort"}) \/ Asked({"sortby"})
     /\ f.moved \/ (f.j # 1 /\ f.i <= Len(s))
     /\ IF f.moved
        THEN Becomes(Ended("undefined", heap), frames) /\ UNCHANGED torn
        ELSE \E answer \in answers :
               LET h == IF answer \in Errors THEN heap
                        ELSE WithSeq(heap, f.self, Sorted(f, s, answer = "true"))
                   on == IF answer \in Errors THEN f ELSE SortOn(f, s, answer = "true")
               IN /\ Becomes(Ended(IF answer \in Errors THEN answer ELSE "ok", h), Others(h) \o <<on>>)
                  /\ torn' = (torn \/ (answer \in Errors /\ f.held # Hole))
     /\ UNCHANGED <<session, env, fuel, provoked>>
\* No element is below itself and all others: only a function that says so
\* leads before the first place.
SortAstray ==
  /\ Idle({"sort", "sortby"}) /\ Top.j = 1
  /\ status' = "undefined"
  /\ provoked' = (provoked \/ Top.kind = "sortby")
  /\ UNCHANGED <<session, heap, env, frames, fuel, torn, touched>>
SortEnd ==
  /\ Idle({"sort", "sortby"}) /\ Top.i > Len(heap[Top.self].seq)
  /\ frames' = Front(frames)
  /\ Result(Top)
  /\ UNCHANGED <<session, heap, fuel, status, torn, touched, provoked>>
-----------------------------------------------------------------------------
Init ==
  /\ session \in Sessions
  /\ heap = session.heap
  /\ env = session.env
  /\ frames = <<>>
  /\ fuel = session.fuel
  /\ status = "ok"
  /\ torn = FALSE
  /\ touched = {}
  /\ provoked = FALSE

Next ==
  \/ \E st \in session.statements : Statement(st) \/ Begin(st)
  \/ ForNext \/ ForAgain \/ ForBreak \/ ForEnd
  \/ CallNext \/ CallReturn \/ CallEnd
  \/ SortCall \/ SortStep \/ SortAstray \/ SortEnd

Spec == Init /\ [][Next]_vars
-----------------------------------------------------------------------------
IsMap(x) == heap[x].type = "MAP"
IsSequence(x) == heap[x].type \in {"ARRAY", "TUPLE"}

\* No array or tuple has an empty place, whatever is removed, sorted, filtered
\* or cut, but for the element a sort holds and what a failed comparison left.
NoHoles ==
  torn \/ \A x \in DOMAIN heap : IsSequence(x) =>
    \A k \in DOMAIN heap[x].seq : heap[x].seq[k] = Hole =>
      \E n \in DOMAIN frames : frames[n].self = x /\ frames[n].held # Hole /\ frames[n].j = k

\* The objects a key is compared and hashed by.
RECURSIVE Parts(_, _)
Parts(x, depth) ==
  IF x = Hole \/ depth = 0 THEN {}
  ELSE {x} \cup (IF IsSequence(x) THEN UNION {Parts(y, depth - 1) : y \in ToSet(heap[x].seq)} ELSE {})
Kept(x) == \A k \in DOMAIN Pairs(heap[x].map) : Parts(Pairs(heap[x].map)[k][1], 3) \cap touched = {}

\* A map whose keys nobody changed has each of them once and in the bucket of
\* its hash, and exists and the index operator find the first of each bucket:
\* through literals, assignments, deletions, + and filters.
KeysFound ==
  torn \/ \A x \in DOMAIN heap : IsMap(x) /\ Kept(x) =>
    \A b \in DOMAIN heap[x].map : LET bucket == heap[x].map[b] IN
      \A n \in DOMAIN bucket.list :
        /\ Hash(heap, bucket.list[n][1]) = [how |-> "ok", h |-> bucket.hash]
        /\ Exists(heap, x, bucket.list[n][1])
        /\ \A m \in 1 .. n - 1 : Same(heap, bucket.list[m][1], bucket.list[n][1]) # "true"
        /\ n = 1 => MapGetItem(heap, x, bucket.list[1][1]) = Done(heap, bucket.list[1][2])

Times(s, y) == Cardinality({k \in DOMAIN s : s[k] = y})
\* A sort keeps every element as often as it was there, also the one it holds,
\* and, by the order of the language, what it has been through is in order.
SortKeeps ==
  status = "ok" => \A n \in DOMAIN frames :
    LET f == frames[n]
        s == heap[f.self].seq
        whole == IF f.held = Hole THEN s ELSE [s EXCEPT ![f.j] = f.held]
    IN f.kind \in {"sort", "sortby"} /\ f.clean =>
         /\ \A y \in ToSet(whole) \cup ToSet(f.start.seq) : Times(whole, y) = Times(f.start.seq, y)
         /\ f.kind = "sort" /\ f.j = 0 =>
              \A k \in 2 .. f.i - 1 : Lesser(heap, s[k], s[k - 1]) # "true"

\* Of a container nobody else changed a loop or method shows the script the
\* elements in order and no more than there are, and at its end has shown all:
\* for ends on such a container, though HasNext only compares places with ==.
EveryElementOnce ==
  [][/\ \A n \in DOMAIN frames' :
          frames'[n].kind \in {"for"} \cup Walks /\ frames'[n].clean =>
            IsPrefix(frames'[n].seen, Elements(frames'[n].start))
     /\ frames # <<>> /\ Len(frames') < Len(frames) /\ status' = "ok"
          /\ Idle({"for"} \cup Walks) /\ Top.clean =>
        Top.seen = Elements(Top.start)]_vars

\* Until filter ends its container is as it was, so that a function that throws
\* leaves it whole; map has changed the elements it has been through only.
WholeUntilTheEnd ==
  \A n \in DOMAIN frames :
    LET f == frames[n]
        now == Elements(heap[f.self])
        then == Elements(f.start)
    IN f.clean => /\ f.kind = "filter" => now = then
                  /\ f.kind = "map" => Len(now) = Len(then) /\ \A k \in f.i .. Len(now) : now[k] = then[k]

\* What removes, sorts, filters and maps keeps the elements: no empty place, none
\* lost, none changed before its turn.
ElementsKept == NoHoles /\ SortKeeps /\ WholeUntilTheEnd

\* The process ends only by what Unguarded and torn list, in a container whose
\* contents moved or were replaced under a loop or method, or in a loop over an
\* iterator of a map that was filtered since: every other statement ends with a
\* result or an exception.
OnlyTheUnguarded ==
  status # "ok" =>
    \/ provoked \/ torn
    \/ \E n \in DOMAIN frames :
         frames[n].moved \/ (frames[n].it # Hole /\ heap[frames[n].it].seq[2] = Stale)
=============================================================================
