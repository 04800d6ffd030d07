---------------------------- MODULE LexerProofs ----------------------------
(***************************************************************************)
(* Proofs about Lexer, for every set of texts: the tokens are the text.    *)
(***************************************************************************)
EXTENDS Lexer, FiniteSetTheorems, NaturalsInduction, WellFoundedInduction, TLAPS

\* Characters, and what the scanner writes for others.
Told == STRING \cup {"end", "nl", "\\", "u", "control", "nul", "ansi", "unicode", "$", "@", "."}
Kinds == {"op", "id", "keyword", "varenvid", "int", "real", "word", "str", "nl"}
Cursors == [at : 1..Len(text), c : Told, line : Nat, col : Nat]
Tokens == [k : Kinds, v : Seq(Told), b : BOOLEAN, line : Nat, col : Nat,
           from : 1..Len(text), to : 1..Len(text)]
TypeOK ==
  /\ said \in Texts
  /\ text \in Seq(Characters) /\ text # <<>>
  /\ r \in Cursors /\ toks \in Seq(Tokens) /\ done \in BOOLEAN

\* A cursor that is where it says, and the first position it has not read.
OnText(p) == IF p.c = "end" THEN p.at = Len(text) ELSE p.c = text[p.at]
Counted(p) == ~Escaped => p.line = LineOf(p.at) /\ p.col = ColumnOf(p.at)
Reading(p) == p \in Cursors /\ OnText(p) /\ Counted(p)
Pos(p) == IF p.c = "end" THEN Len(text) + 1 ELSE p.at

\* Tokens do not meet each other, nor what is still to be read.
Ordered ==
  /\ \A k \in 1..Len(toks)-1 : toks[k].to < toks[k + 1].from
  /\ \A k \in DOMAIN toks : toks[k].from <= toks[k].to /\ toks[k].to < Pos(r)
Sound(t) == Longest(t) /\ (~Escaped => Located(t))

IInv ==
  /\ TypeOK /\ Reading(r) /\ Ordered
  /\ \A k \in DOMAIN toks : Sound(toks[k])
  /\ \A i \in 1..Pos(r)-1 : Covered(i)
  /\ done => r.c = "end"

-----------------------------------------------------------------------------
(* Loops                                                                   *)

\* A set of numbers has a least one.
LEMMA Least ==
  ASSUME NEW T, T \subseteq Nat, T # {}
  PROVE  \E x \in T : \A y \in T : x <= y
<1>1. PICK x \in T : \A y \in T : ~ (<<y, x>> \in OpToRel(<, Nat))
  BY NatLessThanWellFounded, WFMin
<1>2. \A y \in T : ~(y < x)
  BY <1>1 DEF OpToRel
<1> QED BY <1>2

\* The rounds of a loop that stays in G.
Follows(g, n, s, st) == \A k \in 0..n : g[k] = IF k = 0 THEN s ELSE st[g[k - 1]]
LEMMA RunExists ==
  ASSUME NEW N \in Nat, NEW G, NEW st \in [G -> G], NEW s \in G
  PROVE  \E g \in [0..N -> G] : Follows(g, N, s, st)
<1> DEFINE Bad == {n \in Nat : ~ \E g \in [0..n -> G] : Follows(g, n, s, st)}
<1>1. Bad = {}
  <2> SUFFICES ASSUME Bad # {} PROVE FALSE
    OBVIOUS
  <2>1. PICK n \in Bad : \A j \in Bad : n <= j
    <3>1. Bad \subseteq Nat
      OBVIOUS
    <3> QED BY <3>1, Least
  <2>2. CASE n = 0
    <3>1. [k \in 0..n |-> s] \in [0..n -> G] /\ Follows([k \in 0..n |-> s], n, s, st)
      BY <2>2 DEF Follows
    <3> QED BY <2>1, <3>1
  <2>3. CASE n # 0
    <3>1. n - 1 \in Nat /\ n - 1 \notin Bad /\ n \in Nat
      BY <2>1, <2>3
    <3>2. PICK g \in [0..n-1 -> G] : Follows(g, n - 1, s, st)
      BY <3>1
    <3> DEFINE h == [k \in 0..n |-> IF k = n THEN st[g[n - 1]] ELSE g[k]]
    <3>3. h \in [0..n -> G]
      BY <3>1
    <3>4. ASSUME NEW k \in 0..n PROVE h[k] = IF k = 0 THEN s ELSE st[h[k - 1]]
      <4>1. CASE k = n
        <5>1. h[k] = st[g[n - 1]] /\ h[k - 1] = g[n - 1]
          BY <2>3, <3>1, <4>1
        <5> QED BY <5>1, <2>3, <4>1
      <4>2. CASE k # n
        <5>1. k \in 0..n-1
          BY <3>1, <4>2
        <5>2. h[k] = g[k] /\ (k # 0 => h[k - 1] = g[k - 1])
          BY <3>1, <5>1
        <5> QED BY <3>2, <5>1, <5>2 DEF Follows
      <4> QED BY <4>1, <4>2
    <3>5. Follows(h, n, s, st)
      BY <3>4 DEF Follows
    <3> HIDE DEF h
    <3> QED BY <2>1, <3>3, <3>5
  <2> QED BY <2>2, <2>3
<1> QED BY <1>1

\* A loop that counts up to N + 1 at most has ended after N rounds.
Climbs(m, st, G) == \A x \in G : st[x] = x \/ m[x] < m[st[x]]
Goes(h, n, s, st, G) == h[0] = s /\ \A k \in 1..n : h[k - 1] \in G => h[k] = st[h[k - 1]]
LEMMA LoopEnds ==
  ASSUME NEW N \in Nat, NEW G, NEW st \in [G -> G], NEW s \in G, NEW m \in [G -> 1..N+1],
         Climbs(m, st, G), NEW h, Goes(h, N, s, st, G)
  PROVE  h[N] \in G /\ st[h[N]] = h[N]
<1> USE DEF Climbs, Goes
<1> DEFINE Good(k) == h[k] \in G /\ (st[h[k]] = h[k] \/ k + 1 <= m[h[k]])
           Bad == {k \in 0..N : ~Good(k)}
<1>1. Bad = {}
  <2> SUFFICES ASSUME Bad # {} PROVE FALSE
    OBVIOUS
  <2>1. PICK k \in Bad : \A j \in Bad : k <= j
    <3>1. Bad \subseteq Nat
      OBVIOUS
    <3> QED BY <3>1, Least
  <2>2. CASE k = 0
    <3>1. m[s] \in 1..N+1
      OBVIOUS
    <3> QED BY <2>1, <2>2, <3>1
  <2>3. CASE k # 0
    <3>1. k \in 1..N /\ k - 1 \in 0..N /\ k - 1 \notin Bad
      BY <2>1, <2>3
    <3>2. Good(k - 1)
      BY <3>1
    <3>3. h[k] = st[h[k - 1]] /\ h[k] \in G
      BY <3>1, <3>2
    <3>4. CASE st[h[k - 1]] = h[k - 1]
      BY <2>1, <3>2, <3>3, <3>4
    <3>5. CASE st[h[k - 1]] # h[k - 1]
      <4>1. m[h[k - 1]] < m[h[k]] /\ k - 1 + 1 <= m[h[k - 1]] /\ m[h[k]] \in Nat /\ m[h[k - 1]] \in Nat
        BY <3>2, <3>3, <3>5
      <4>2. k + 1 <= m[h[k]]
        BY <3>1, <4>1
      <4> QED BY <2>1, <3>3, <4>2
    <3> QED BY <3>4, <3>5
  <2> QED BY <2>2, <2>3
<1>2. Good(N)
  BY <1>1
<1>3. CASE st[h[N]] # h[N]
  <2>1. h[N] \in G /\ m[h[N]] \in 1..N+1 /\ m[st[h[N]]] \in 1..N+1
    BY <1>2
  <2> QED BY <1>2, <1>3, <2>1
<1> QED BY <1>2, <1>3

-----------------------------------------------------------------------------
(* Lines and columns                                                       *)

TextIs == text \in Seq(Characters) /\ text # <<>>
LEMMA TextHas ==
  ASSUME TextIs
  PROVE  /\ Len(text) \in Nat \ {0} /\ DOMAIN text = 1..Len(text)
         /\ \A i \in 1..Len(text) : text[i] \in Told /\ text[i] # "end"
<1>1. Len(text) \in Nat /\ DOMAIN text = 1..Len(text) /\ Len(text) # 0
  BY DEF TextIs
<1>2. \A i \in 1..Len(text) : text[i] \in Characters
  BY DEF TextIs
<1> QED BY <1>1, <1>2 DEF Characters, Told

LEMMA BreaksFinite ==
  ASSUME NEW i \in Nat
  PROVE  IsFiniteSet(Breaks(i)) /\ LineOf(i) \in Nat
<1>1. IsFiniteSet(1..i-1)
  BY FS_Interval
<1>2. IsFiniteSet(Breaks(i))
  BY <1>1, FS_Subset DEF Breaks
<1>3. Cardinality(Breaks(i)) \in Nat
  BY <1>2, FS_CardinalityType
<1> QED BY <1>2, <1>3 DEF LineOf

LEMMA FirstPlace == LineOf(1) = 1 /\ ColumnOf(1) = 1
<1>1. Breaks(1) = {}
  BY DEF Breaks
<1>2. LineOf(1) = 1
  BY <1>1, FS_EmptySet DEF LineOf
<1>3. LastBreak(1) = 0
  BY <1>1 DEF LastBreak, LastOf
<1> QED BY <1>2, <1>3 DEF ColumnOf

\* Past a line break a line begins, past another character it goes on.
LEMMA NextPlace ==
  ASSUME NEW i \in Nat \ {0}, LastBreak(i) \in Nat, LastBreak(i) < i,
         LastBreak(i) \in {0} \cup Breaks(i), \A k \in Breaks(i) : k <= LastBreak(i)
  PROVE  /\ LineOf(i + 1) = IF text[i] = "nl" THEN LineOf(i) + 1 ELSE LineOf(i)
         /\ LastBreak(i + 1) = IF text[i] = "nl" THEN i ELSE LastBreak(i)
         /\ \A k \in Breaks(i + 1) : k <= LastBreak(i + 1)
         /\ LastBreak(i + 1) \in {0} \cup Breaks(i + 1)
<1>1. CASE text[i] = "nl"
  <2>1. Breaks(i + 1) = Breaks(i) \cup {i} /\ i \notin Breaks(i) /\ \A k \in Breaks(i + 1) : k <= i /\ k \in Nat
    BY <1>1 DEF Breaks
  <2>2. Cardinality(Breaks(i + 1)) = Cardinality(Breaks(i)) + 1
    BY <2>1, BreaksFinite, FS_AddElement
  <2>3. Cardinality(Breaks(i)) \in Nat
    BY BreaksFinite, FS_CardinalityType
  <2>4. LineOf(i + 1) = LineOf(i) + 1
    BY <2>2, <2>3 DEF LineOf
  <2>5. \A j \in {0} \cup Breaks(i + 1) : (\A k \in Breaks(i + 1) : k <= j) => j = i
    BY <2>1
  <2>6. LastBreak(i + 1) = i
    BY <2>1, <2>5 DEF LastBreak, LastOf
  <2> QED BY <1>1, <2>1, <2>4, <2>6
<1>2. CASE text[i] # "nl"
  <2>1. Breaks(i + 1) = Breaks(i)
    BY <1>2 DEF Breaks
  <2>2. LineOf(i + 1) = LineOf(i)
    BY <2>1 DEF LineOf
  <2>3. LastBreak(i + 1) = LastBreak(i)
    BY <2>1 DEF LastBreak, LastOf
  <2> QED BY <1>2, <2>1, <2>2, <2>3
<1> QED BY <1>1, <1>2

LEMMA Breaking ==
  ASSUME NEW i \in Nat \ {0}
  PROVE  /\ LastBreak(i) \in Nat /\ LastBreak(i) < i
         /\ LastBreak(i) \in {0} \cup Breaks(i) /\ \A k \in Breaks(i) : k <= LastBreak(i)
<1> DEFINE Good(j) == /\ LastBreak(j) \in Nat /\ LastBreak(j) < j
                      /\ LastBreak(j) \in {0} \cup Breaks(j) /\ \A k \in Breaks(j) : k <= LastBreak(j)
           Bad == {j \in Nat : j # 0 /\ ~Good(j)}
<1>1. Good(1)
  <2>1. Breaks(1) = {}
    BY DEF Breaks
  <2>2. LastBreak(1) = 0
    BY <2>1 DEF LastBreak, LastOf
  <2> QED BY <2>1, <2>2
<1>2. Bad = {}
  <2> SUFFICES ASSUME Bad # {} PROVE FALSE
    OBVIOUS
  <2>1. PICK j \in Bad : \A k \in Bad : j <= k
    <3>1. Bad \subseteq Nat
      OBVIOUS
    <3> QED BY <3>1, Least
  <2>2. j # 1
    BY <1>1, <2>1
  <2>3. j - 1 \in Nat \ {0} /\ j - 1 \notin Bad
    BY <2>1, <2>2
  <2>4. Good(j - 1)
    BY <2>3
  <2>5. PICK b : b = j - 1
    OBVIOUS
  <2>6. b \in Nat \ {0} /\ j = b + 1 /\ Good(b)
    BY <2>1, <2>3, <2>4, <2>5
  <2>7. /\ LastBreak(b + 1) = IF text[b] = "nl" THEN b ELSE LastBreak(b)
        /\ \A k \in Breaks(b + 1) : k <= LastBreak(b + 1)
        /\ LastBreak(b + 1) \in {0} \cup Breaks(b + 1)
    BY <2>6, NextPlace
  <2>8. LastBreak(b + 1) \in Nat /\ LastBreak(b + 1) < b + 1
    BY <2>6, <2>7
  <2> QED BY <2>1, <2>6, <2>7, <2>8
<1> QED BY <1>2

LEMMA PlaceSteps ==
  ASSUME NEW i \in Nat \ {0}
  PROVE  /\ LineOf(i) \in Nat /\ ColumnOf(i) \in Nat
         /\ LineOf(i + 1) = IF text[i] = "nl" THEN LineOf(i) + 1 ELSE LineOf(i)
         /\ ColumnOf(i + 1) = IF text[i] = "nl" THEN 1 ELSE ColumnOf(i) + 1
<1>1. PICK j : j = i + 1
  OBVIOUS
<1>2. ColumnOf(i) = i - LastBreak(i) /\ ColumnOf(j) = j - LastBreak(j)
  BY DEF ColumnOf
<1>3. LastBreak(i) \in Nat /\ LastBreak(i) < i
  BY Breaking
<1>4. /\ LineOf(j) = IF text[i] = "nl" THEN LineOf(i) + 1 ELSE LineOf(i)
      /\ LastBreak(j) = IF text[i] = "nl" THEN i ELSE LastBreak(i)
  BY <1>1, Breaking, NextPlace
<1>5. LineOf(i) \in Nat
  BY BreaksFinite
<1>6. ColumnOf(j) = IF text[i] = "nl" THEN 1 ELSE ColumnOf(i) + 1
  BY <1>1, <1>2, <1>3, <1>4
<1> QED BY <1>1, <1>2, <1>3, <1>4, <1>5, <1>6

-----------------------------------------------------------------------------
(* The cursor                                                              *)

\* What a cursor tells.
LEMMA CursorHas ==
  ASSUME TextIs, NEW p, Reading(p)
  PROVE  /\ p.at \in 1..Len(text) /\ p.c \in Told /\ p.line \in Nat /\ p.col \in Nat
         /\ Pos(p) \in 1..Len(text)+1
         /\ p.c = "end" => p.at = Len(text) /\ Pos(p) = Len(text) + 1
         /\ p.c # "end" => Pos(p) = p.at /\ p.c = text[p.at] /\ Pos(p) <= Len(text)
         /\ p = [at |-> p.at, c |-> p.c, line |-> p.line, col |-> p.col]
<1>1. p \in Cursors /\ OnText(p)
  BY DEF Reading
<1>2. /\ p.at \in 1..Len(text) /\ p.c \in Told /\ p.line \in Nat /\ p.col \in Nat
      /\ p = [at |-> p.at, c |-> p.c, line |-> p.line, col |-> p.col]
  BY <1>1 DEF Cursors
<1> QED BY <1>1, <1>2, TextHas DEF OnText, Pos

\* Advance reads one character; the line and the column keep up with it.
LEMMA AdvanceReads ==
  ASSUME TextIs, NEW p, Reading(p)
  PROVE  /\ Reading(Advance(p))
         /\ Pos(Advance(p)) = IF p.c = "end" THEN Pos(p) ELSE Pos(p) + 1
<1>1. /\ p.at \in 1..Len(text) /\ p.c \in Told /\ p.line \in Nat /\ p.col \in Nat
      /\ p.c = "end" => p.at = Len(text) /\ Pos(p) = Len(text) + 1
      /\ p.c # "end" => Pos(p) = p.at /\ p.c = text[p.at] /\ Pos(p) <= Len(text)
      /\ p = [at |-> p.at, c |-> p.c, line |-> p.line, col |-> p.col]
  BY CursorHas
<1>2. PICK q : q = Advance(p)
  OBVIOUS
<1>3. CASE p.at = Len(text)
  <2>1. q = [at |-> p.at, c |-> "end", line |-> p.line, col |-> p.col]
    BY <1>1, <1>2, <1>3 DEF Advance
  <2>2. q \in Cursors /\ OnText(q) /\ q.at = p.at /\ q.line = p.line /\ q.col = p.col /\ q.c = "end"
    <3>1. q.at = p.at /\ q.line = p.line /\ q.col = p.col /\ q.c = "end"
      BY <2>1
    <3>2. q \in Cursors
      <4>1. "end" \in Told
        BY DEF Told
      <4> QED BY <1>1, <2>1, <4>1 DEF Cursors
    <3>3. OnText(q)
      BY <1>3, <3>1 DEF OnText
    <3> QED BY <3>1, <3>2, <3>3
  <2>3. Counted(q)
    BY <2>2 DEF Counted, Reading
  <2> QED BY <1>1, <1>2, <1>3, <2>2, <2>3 DEF Reading, Pos
<1>4. CASE p.at # Len(text)
  <2>1. /\ p.at + 1 \in 1..Len(text) /\ text[p.at + 1] \in Told /\ text[p.at + 1] # "end"
        /\ p.at \in Nat \ {0} /\ p.c = text[p.at] /\ p.c # "end"
    BY <1>1, <1>4, TextHas
  <2>2. q = [at |-> p.at + 1, c |-> text[p.at + 1],
             line |-> IF p.c = "nl" THEN p.line + 1 ELSE p.line, col |-> IF p.c = "nl" THEN 1 ELSE p.col + 1]
    BY <1>2, <1>4 DEF Advance
  <2>3. /\ q.at = p.at + 1 /\ q.c = text[p.at + 1] /\ q.line = (IF p.c = "nl" THEN p.line + 1 ELSE p.line)
        /\ q.col = IF p.c = "nl" THEN 1 ELSE p.col + 1
    BY <2>2
  <2>4. q \in Cursors
    <3>1. (IF p.c = "nl" THEN p.line + 1 ELSE p.line) \in Nat /\ (IF p.c = "nl" THEN 1 ELSE p.col + 1) \in Nat
      BY <1>1
    <3> QED BY <2>1, <2>2, <3>1 DEF Cursors
  <2>5. OnText(q)
    BY <2>1, <2>3 DEF OnText
  <2>6. Counted(q)
    <3> SUFFICES ASSUME ~Escaped PROVE q.line = LineOf(q.at) /\ q.col = ColumnOf(q.at)
      BY DEF Counted
    <3>1. p.line = LineOf(p.at) /\ p.col = ColumnOf(p.at)
      BY DEF Reading, Counted
    <3> QED BY <2>1, <2>3, <3>1, PlaceSteps
  <2>7. Pos(q) = p.at + 1 /\ Pos(p) = p.at
    BY <2>1, <2>3 DEF Pos
  <2> QED BY <1>2, <2>1, <2>4, <2>5, <2>6, <2>7 DEF Reading
<1> QED BY <1>3, <1>4

\* After Back the cursor is read on from where it was put.
LEMMA BackReads ==
  ASSUME TextIs, Escaped, NEW p, Reading(p), p.at > 1
  PROVE  /\ Reading(Advance(Back(p)))
         /\ Pos(Advance(Back(p))) = p.at
<1>1. /\ p.at \in 1..Len(text) /\ p.c \in Told /\ p.line \in Nat /\ p.col \in Nat
      /\ p = [at |-> p.at, c |-> p.c, line |-> p.line, col |-> p.col]
  BY CursorHas
<1>2. PICK b : b = Back(p)
  OBVIOUS
<1>3. b = [at |-> p.at - 1, c |-> p.c, line |-> p.line, col |-> p.col]
  BY <1>1, <1>2 DEF Back
<1>4. /\ b.at = p.at - 1 /\ b.c = p.c /\ b.line = p.line /\ b.col = p.col
      /\ b.at + 1 = p.at /\ b.at # Len(text)
  BY <1>1, <1>3, TextHas
<1>5. PICK q : q = Advance(b)
  OBVIOUS
<1>6. q = [at |-> p.at, c |-> text[p.at],
           line |-> IF p.c = "nl" THEN p.line + 1 ELSE p.line, col |-> IF p.c = "nl" THEN 1 ELSE p.col + 1]
  BY <1>4, <1>5 DEF Advance
<1>7. text[p.at] \in Told /\ text[p.at] # "end"
  BY <1>1, TextHas
<1>8. q \in Cursors
  <2>1. (IF p.c = "nl" THEN p.line + 1 ELSE p.line) \in Nat /\ (IF p.c = "nl" THEN 1 ELSE p.col + 1) \in Nat
    BY <1>1
  <2> QED BY <1>1, <1>6, <1>7, <2>1 DEF Cursors
<1>9. q.at = p.at /\ q.c = text[p.at]
  BY <1>6
<1>10. Reading(q) /\ Pos(q) = p.at
  BY <1>7, <1>8, <1>9 DEF Reading, OnText, Counted, Pos
<1> QED BY <1>2, <1>5, <1>10

-----------------------------------------------------------------------------
(* The loops of the scanner                                                *)

\* What a loop has read from the cursor p on, beginning with the text v.
Scan(x, p) == /\ x = [p |-> x.p, v |-> x.v] /\ x.v \in Seq(Told)
              /\ Reading(x.p) /\ Pos(p) <= Pos(x.p)

\* A round that reads a character.
LEMMA ReadsScan ==
  ASSUME TextIs, NEW p, Reading(p), NEW x, Scan(x, p), x.p.c # "end"
  PROVE  /\ Scan(Reads(x), p) /\ Reads(x).v = Append(x.v, x.p.c)
         /\ Reads(x).p = Advance(x.p) /\ Pos(Reads(x).p) = Pos(x.p) + 1
<1>1. Reads(x).p = Advance(x.p) /\ Reads(x).v = Append(x.v, x.p.c) /\ Reads(x) = [p |-> Reads(x).p, v |-> Reads(x).v]
  BY DEF Reads
<1>2. Reading(x.p) /\ x.v \in Seq(Told) /\ Pos(p) <= Pos(x.p)
  BY DEF Scan
<1>3. x.p.c \in Told /\ Pos(x.p) \in Nat /\ Pos(p) \in Nat
  BY <1>2, CursorHas
<1>4. Reading(Advance(x.p)) /\ Pos(Advance(x.p)) = Pos(x.p) + 1
  BY <1>2, AdvanceReads
<1>5. Append(x.v, x.p.c) \in Seq(Told)
  BY <1>2, <1>3
<1> QED BY <1>1, <1>2, <1>3, <1>4, <1>5 DEF Scan

\* The characters of the text from one position to before another.
From(i, j) == SubSeq(text, i, j - 1)
LEMMA FromGrows ==
  ASSUME TextIs, NEW i \in 1..Len(text), NEW j \in i..Len(text)
  PROVE  Append(From(i, j), text[j]) = From(i, j + 1)
<1>1. text \in Seq(Characters)
  BY DEF TextIs
<1>2. i \in Nat /\ j \in Nat /\ i <= j /\ j <= Len(text) /\ Len(text) \in Nat
  BY TextHas
<1> QED BY <1>1, <1>2 DEF From

\* A set of scans G from which no round leads out, and every round but the
\* last reads on: the step of a loop as a function, and what it ends with.
Scans == [p : Cursors, v : Seq(Told)]
LEMMA ScanIn ==
  ASSUME NEW p, NEW x, Scan(x, p)
  PROVE  x \in Scans
<1>1. x.p \in Cursors /\ x.v \in Seq(Told) /\ x = [p |-> x.p, v |-> x.v]
  BY DEF Scan, Reading
<1> QED BY <1>1 DEF Scans

\* What stands before the characters of chars end.
Took(chars, p, x) ==
  /\ Scan(x, p) /\ x.v = From(Pos(p), Pos(x.p))
  /\ \A i \in Pos(p)..Pos(x.p)-1 : text[i] \in chars
LEMMA WhileReads ==
  ASSUME TextIs, NEW chars, "end" \notin chars, NEW p, Reading(p)
  PROVE  Took(chars, p, While(chars, p)) /\ While(chars, p).p.c \notin chars
<1> DEFINE G == {x \in Scans : Took(chars, p, x)}
           st == [x \in G |-> WhileRound(chars, x)]
           m == [x \in G |-> Pos(x.p)]
           s == [p |-> p, v |-> <<>>]
           N == Len(text)
<1>1. N \in Nat
  BY TextHas
<1>2. s \in G
  <2>1. s.p = p /\ s.v = <<>> /\ s = [p |-> s.p, v |-> s.v] /\ s.v \in Seq(Told)
    OBVIOUS
  <2>2. Pos(p) \in Nat
    BY CursorHas
  <2>3. Scan(s, p)
    BY <2>1, <2>2 DEF Scan
  <2>4. From(Pos(p), Pos(p)) = <<>>
    BY <2>2 DEF From
  <2>5. Took(chars, p, s)
    BY <2>1, <2>2, <2>3, <2>4 DEF Took
  <2> QED BY <2>3, <2>5, ScanIn
<1>3. ASSUME NEW x \in G
      PROVE  /\ WhileRound(chars, x) \in G
             /\ x.p.c \notin chars => WhileRound(chars, x) = x
             /\ x.p.c \in chars => Pos(x.p) < Pos(WhileRound(chars, x).p)
  <2>1. CASE x.p.c \notin chars
    BY <2>1 DEF WhileRound
  <2>2. CASE x.p.c \in chars
    <3>1. Took(chars, p, x) /\ Scan(x, p) /\ x.p.c # "end" /\ Reading(x.p)
      BY <2>2 DEF Took, Scan
    <3>2. PICK y : y = Reads(x)
      OBVIOUS
    <3>3. /\ Scan(y, p) /\ y.v = Append(x.v, x.p.c) /\ Pos(y.p) = Pos(x.p) + 1
      BY <3>1, <3>2, ReadsScan
    <3>4. /\ Pos(x.p) \in Nat /\ Pos(p) \in 1..Len(text)+1 /\ x.p.c = text[Pos(x.p)]
          /\ Pos(x.p) <= Len(text) /\ Pos(p) <= Pos(x.p)
      BY <3>1, CursorHas DEF Scan
    <3>5. y.v = From(Pos(p), Pos(y.p))
      <4>1. Pos(p) \in 1..Len(text) /\ Pos(x.p) \in Pos(p)..Len(text)
        BY <1>1, <3>4
      <4>2. Append(From(Pos(p), Pos(x.p)), text[Pos(x.p)]) = From(Pos(p), Pos(x.p) + 1)
        BY <4>1, FromGrows
      <4> QED BY <3>1, <3>3, <3>4, <4>2 DEF Took
    <3>6. \A i \in Pos(p)..Pos(y.p)-1 : text[i] \in chars
      <4> TAKE i \in Pos(p)..Pos(y.p)-1
      <4>1. i = Pos(x.p) \/ i \in Pos(p)..Pos(x.p)-1
        BY <3>3, <3>4
      <4> QED BY <2>2, <3>1, <3>4, <4>1 DEF Took
    <3>7. Took(chars, p, y)
      BY <3>3, <3>5, <3>6 DEF Took
    <3>8. y = WhileRound(chars, x)
      BY <2>2, <3>2 DEF WhileRound
    <3>9. y \in G
      BY <3>3, <3>7, ScanIn
    <3> QED BY <2>2, <3>3, <3>4, <3>8, <3>9
  <2> QED BY <2>1, <2>2
<1>4. /\ st \in [G -> G] /\ m \in [G -> 1..N+1]
      /\ Climbs(m, st, G)
  <2>1. \A x \in G : m[x] \in 1..N+1
    <3> TAKE x \in G
    <3>1. Reading(x.p)
      BY DEF Took, Scan
    <3> QED BY <3>1, CursorHas
  <2>2. \A x \in G : Pos(x.p) \in Nat
    BY <1>1, <2>1
  <2> QED BY <1>3, <2>1, <2>2 DEF Climbs
<1>8. \A x \in G : st[x] = x => x.p.c \notin chars
  <2> TAKE x \in G
  <2>1. Pos(x.p) \in Nat
    BY <1>1, <1>4
  <2> QED BY <1>3, <2>1
<1> DEFINE Is(h) == h = [k \in 0..N |-> IF k = 0 THEN s ELSE WhileRound(chars, h[k - 1])]
<1>5. PICK h : Is(h) /\ While(chars, p) = h[N]
  <2>1. PICK g \in [0..N -> G] : Follows(g, N, s, st)
    <3> HIDE DEF G, st, s, N
    <3> QED BY <1>1, <1>2, <1>4, RunExists
  <2>2. \A k \in 0..N : g[k] = IF k = 0 THEN s ELSE WhileRound(chars, g[k - 1])
    <3> TAKE k \in 0..N
    <3>1. g[k] = IF k = 0 THEN s ELSE st[g[k - 1]]
      BY <2>1 DEF Follows
    <3>2. k # 0 => k - 1 \in 0..N
      BY <1>1
    <3>3. k # 0 => g[k - 1] \in G
      BY <2>1, <3>2
    <3> QED BY <3>1, <3>3
  <2>3. Is(g)
    BY <2>1, <2>2
  <2>4. While(chars, p) = (CHOOSE h : Is(h))[N]
    BY DEF While, Loop
  <2> HIDE DEF Is
  <2> QED BY <2>3, <2>4
<1>6. Goes(h, N, s, st, G)
  <2>1. h[0] = s /\ \A k \in 1..N : h[k - 1] \in G => h[k] = st[h[k - 1]]
    BY <1>1, <1>5
  <2> QED BY <2>1 DEF Goes
<1>7. h[N] \in G /\ st[h[N]] = h[N]
  <2> HIDE DEF G, st, s, N, m
  <2> QED BY <1>1, <1>2, <1>4, <1>6, LoopEnds
<1> QED BY <1>5, <1>7, <1>8

\* What ScanWord reads.
WordLoop(p, seen) == Loop(WordRound, [p |-> p, v |-> seen])
LEMMA WordReads ==
  ASSUME TextIs, NEW p, Reading(p), NEW seen \in Seq(Told)
  PROVE  Scan(WordLoop(p, seen), p) /\ ~SpecialChar(WordLoop(p, seen).p.c)
<1> DEFINE G == {x \in Scans : Scan(x, p)}
           st == [x \in G |-> WordRound(x)]
           m == [x \in G |-> Pos(x.p)]
           s == [p |-> p, v |-> seen]
           N == Len(text)
<1>1. N \in Nat
  BY TextHas
<1>2. s \in G
  <2>1. s.p = p /\ s = [p |-> s.p, v |-> s.v] /\ s.v \in Seq(Told)
    OBVIOUS
  <2>2. Pos(p) \in Nat
    BY CursorHas
  <2>3. Scan(s, p)
    BY <2>1, <2>2 DEF Scan
  <2> QED BY <2>3, ScanIn
<1>3. ASSUME NEW x \in G
      PROVE  /\ WordRound(x) \in G
             /\ ~SpecialChar(x.p.c) => WordRound(x) = x
             /\ SpecialChar(x.p.c) => Pos(x.p) < Pos(WordRound(x).p)
  <2>1. CASE ~SpecialChar(x.p.c)
    BY <2>1 DEF WordRound
  <2>2. CASE SpecialChar(x.p.c)
    <3>1. Scan(x, p) /\ x.p.c # "end" /\ Reading(x.p)
      BY <2>2 DEF Scan, SpecialChar
    <3>2. /\ Pos(x.p) \in Nat /\ Pos(p) \in Nat /\ Pos(p) <= Pos(x.p) /\ x.v \in Seq(Told)
      BY <1>1, <3>1, CursorHas DEF Scan
    <3>3. CASE x.p.c # "\\"
      <4>1. WordRound(x) = Reads(x)
        BY <2>2, <3>3 DEF WordRound
      <4>2. Scan(Reads(x), p) /\ Pos(Reads(x).p) = Pos(x.p) + 1
        BY <3>1, ReadsScan
      <4> QED BY <2>2, <3>2, <4>1, <4>2, ScanIn
    <3>4. CASE x.p.c = "\\"
      <4>1. PICK a : a = Advance(x.p)
        OBVIOUS
      <4>2. Reading(a) /\ Pos(a) = Pos(x.p) + 1
        BY <3>1, <4>1, AdvanceReads
      <4>3. PICK b : b = Advance(a)
        OBVIOUS
      <4>4. Reading(b) /\ Pos(b) >= Pos(a)
        BY <3>2, <4>2, <4>3, AdvanceReads
      <4>5. PICK c : c = ScanWordEscape(x.p).v
        OBVIOUS
      <4>6. c \in Told
        <5>1. a.c \in Told /\ "nl" \in Told /\ "control" \in Told
          BY <4>2, CursorHas DEF Told
        <5>2. c = CASE a.c = "n" -> "nl" [] a.c \in {"b", "f", "r", "t"} -> "control" [] OTHER -> a.c
          BY <4>1, <4>5 DEF ScanWordEscape
        <5> QED BY <5>1, <5>2
      <4>7. WordRound(x) = [p |-> b, v |-> Append(x.v, c)]
        <5>1. ScanWordEscape(x.p).p = a
          BY <4>1 DEF ScanWordEscape
        <5> QED BY <2>2, <3>4, <4>3, <4>5, <5>1 DEF WordRound
      <4>8. Append(x.v, c) \in Seq(Told)
        BY <3>2, <4>6
      <4>9. PICK y : y = [p |-> b, v |-> Append(x.v, c)]
        OBVIOUS
      <4>10. y.p = b /\ y.v = Append(x.v, c) /\ y = [p |-> y.p, v |-> y.v]
        BY <4>9
      <4>11. Pos(b) \in Nat /\ Pos(x.p) < Pos(b)
        <5>1. Pos(a) \in Nat /\ Pos(b) \in Nat
          BY <1>1, <4>2, <4>4, CursorHas
        <5> QED BY <3>2, <4>2, <4>4, <5>1
      <4>12. Scan(y, p)
        BY <3>2, <4>4, <4>8, <4>10, <4>11 DEF Scan
      <4>13. y \in G
        BY <4>12, ScanIn
      <4>14. WordRound(x) = y
        BY <4>7, <4>9
      <4> QED BY <2>2, <4>10, <4>11, <4>13, <4>14
    <3> QED BY <3>3, <3>4
  <2> QED BY <2>1, <2>2
<1>4. /\ st \in [G -> G] /\ m \in [G -> 1..N+1]
      /\ Climbs(m, st, G)
  <2>1. \A x \in G : m[x] \in 1..N+1
    <3> TAKE x \in G
    <3>1. Reading(x.p)
      BY DEF Scan
    <3> QED BY <3>1, CursorHas
  <2>2. \A x \in G : Pos(x.p) \in Nat
    BY <1>1, <2>1
  <2> QED BY <1>3, <2>1, <2>2 DEF Climbs
<1>8. \A x \in G : st[x] = x => ~SpecialChar(x.p.c)
  <2> TAKE x \in G
  <2>1. Pos(x.p) \in Nat
    BY <1>1, <1>4
  <2> QED BY <1>3, <2>1
<1> DEFINE Is(h) == h = [k \in 0..N |-> IF k = 0 THEN s ELSE WordRound(h[k - 1])]
<1>5. PICK h : Is(h) /\ WordLoop(p, seen) = h[N]
  <2>1. PICK g \in [0..N -> G] : Follows(g, N, s, st)
    <3> HIDE DEF G, st, s, N
    <3> QED BY <1>1, <1>2, <1>4, RunExists
  <2>2. \A k \in 0..N : g[k] = IF k = 0 THEN s ELSE WordRound(g[k - 1])
    <3> TAKE k \in 0..N
    <3>1. g[k] = IF k = 0 THEN s ELSE st[g[k - 1]]
      BY <2>1 DEF Follows
    <3>2. k # 0 => k - 1 \in 0..N
      BY <1>1
    <3>3. k # 0 => g[k - 1] \in G
      BY <2>1, <3>2
    <3> QED BY <3>1, <3>3
  <2>3. Is(g)
    BY <2>1, <2>2
  <2>4. WordLoop(p, seen) = (CHOOSE h : Is(h))[N]
    BY DEF WordLoop, Loop
  <2> HIDE DEF Is
  <2> QED BY <2>3, <2>4
<1>6. Goes(h, N, s, st, G)
  <2>1. h[0] = s /\ \A k \in 1..N : h[k - 1] \in G => h[k] = st[h[k - 1]]
    BY <1>1, <1>5
  <2> QED BY <2>1 DEF Goes
<1>7. h[N] \in G /\ st[h[N]] = h[N]
  <2> HIDE DEF G, st, s, N, m
  <2> QED BY <1>1, <1>2, <1>4, <1>6, LoopEnds
<1> QED BY <1>5, <1>7, <1>8

\* No line ends here.
Plain(i, j) == \A k \in i..j-1 : text[k] # "nl"
LEMMA PlainGoesOn ==
  ASSUME NEW i \in Nat, NEW j \in Nat, Plain(i, j), text[j] # "nl"
  PROVE  Plain(i, j + 1)
<1>1. \A k \in i..j+1-1 : k = j \/ k \in i..j-1
  OBVIOUS
<1> QED BY <1>1 DEF Plain

\* What ScanNumber reads, before it knows what it is.
NumberLoop(p) == Loop(NumberRound, [p |-> p, v |-> <<>>])
Numeral(x, p) ==
  /\ IF x.v = <<>> THEN x.p.c \in Digit ELSE x.v[1] \in Digit
  /\ Plain(Pos(p), Pos(x.p))
LEMMA NumberReads ==
  ASSUME TextIs, NEW p, Reading(p), p.c \in Digit
  PROVE  /\ Scan(NumberLoop(p), p) /\ Numeral(NumberLoop(p), p)
         /\ NumberLoop(p).p.c \notin Digit /\ (NumberLoop(p).p.c = "." => Pointed(NumberLoop(p).v))
<1> DEFINE G == {x \in Scans : Scan(x, p) /\ Numeral(x, p)}
           st == [x \in G |-> NumberRound(x)]
           m == [x \in G |-> Pos(x.p)]
           s == [p |-> p, v |-> <<>>]
           N == Len(text)
           More(x) == x.p.c \in Digit \/ (x.p.c = "." /\ ~Pointed(x.v))
<1>1. N \in Nat
  BY TextHas
<1>2. s \in G
  <2>1. s.p = p /\ s.v = <<>> /\ s = [p |-> s.p, v |-> s.v] /\ s.v \in Seq(Told)
    OBVIOUS
  <2>2. Pos(p) \in Nat
    BY CursorHas
  <2>3. Scan(s, p)
    BY <2>1, <2>2 DEF Scan
  <2>4. Numeral(s, p)
    BY <2>1, <2>2 DEF Numeral, Plain
  <2> QED BY <2>3, <2>4, ScanIn
<1>3. ASSUME NEW x \in G
      PROVE  /\ NumberRound(x) \in G
             /\ ~More(x) => NumberRound(x) = x
             /\ More(x) => Pos(x.p) < Pos(NumberRound(x).p)
  <2>1. CASE ~More(x)
    BY <2>1 DEF NumberRound
  <2>2. CASE More(x)
    <3>1. Scan(x, p) /\ x.p.c # "end" /\ Reading(x.p) /\ Numeral(x, p) /\ x.v \in Seq(Told)
      BY <2>2 DEF Scan, Digit, OctalChar
    <3>2. Pos(x.p) \in Nat /\ Pos(p) \in Nat /\ x.p.c \in Told /\ x.p.c = text[Pos(x.p)]
      BY <1>1, <3>1, CursorHas
    <3>3. NumberRound(x) = Reads(x)
      BY <2>2 DEF NumberRound
    <3>4. Scan(Reads(x), p) /\ Pos(Reads(x).p) = Pos(x.p) + 1 /\ Reads(x).v = Append(x.v, x.p.c)
      BY <3>1, ReadsScan
    <3>6. Plain(Pos(p), Pos(x.p) + 1)
      <4>1. x.p.c # "nl"
        BY <2>2 DEF Digit, OctalChar
      <4>2. Plain(Pos(p), Pos(x.p))
        BY <3>1 DEF Numeral
      <4> QED BY <3>2, <4>1, <4>2, PlainGoesOn
    <3>5. Numeral(Reads(x), p)
      <4>1. CASE x.v = <<>>
        <5>1. Append(x.v, x.p.c) = <<x.p.c>>
          BY <4>1
        <5>2. x.p.c \in Digit
          BY <3>1, <4>1 DEF Numeral
        <5>3. <<x.p.c>> # <<>> /\ <<x.p.c>>[1] = x.p.c
          OBVIOUS
        <5> QED BY <3>4, <3>6, <5>1, <5>2, <5>3 DEF Numeral
      <4>2. CASE x.v # <<>>
        <5>1. Append(x.v, x.p.c) # <<>> /\ Append(x.v, x.p.c)[1] = x.v[1]
          BY <3>1, <3>2, <4>2
        <5> QED BY <3>1, <3>4, <3>6, <4>2, <5>1 DEF Numeral
      <4> QED BY <4>1, <4>2
    <3> QED BY <2>2, <3>2, <3>3, <3>4, <3>5, ScanIn
  <2> QED BY <2>1, <2>2
<1>4. /\ st \in [G -> G] /\ m \in [G -> 1..N+1]
      /\ Climbs(m, st, G)
  <2>1. \A x \in G : m[x] \in 1..N+1
    <3> TAKE x \in G
    <3>1. Reading(x.p)
      BY DEF Scan
    <3> QED BY <3>1, CursorHas
  <2>2. \A x \in G : Pos(x.p) \in Nat
    BY <1>1, <2>1
  <2> QED BY <1>3, <2>1, <2>2 DEF Climbs
<1>8. \A x \in G : st[x] = x => ~More(x)
  <2> TAKE x \in G
  <2>1. Pos(x.p) \in Nat
    BY <1>1, <1>4
  <2> QED BY <1>3, <2>1
<1> DEFINE Is(h) == h = [k \in 0..N |-> IF k = 0 THEN s ELSE NumberRound(h[k - 1])]
<1>5. PICK h : Is(h) /\ NumberLoop(p) = h[N]
  <2>1. PICK g \in [0..N -> G] : Follows(g, N, s, st)
    <3> HIDE DEF G, st, s, N
    <3> QED BY <1>1, <1>2, <1>4, RunExists
  <2>2. \A k \in 0..N : g[k] = IF k = 0 THEN s ELSE NumberRound(g[k - 1])
    <3> TAKE k \in 0..N
    <3>1. g[k] = IF k = 0 THEN s ELSE st[g[k - 1]]
      BY <2>1 DEF Follows
    <3>2. k # 0 => k - 1 \in 0..N
      BY <1>1
    <3>3. k # 0 => g[k - 1] \in G
      BY <2>1, <3>2
    <3> QED BY <3>1, <3>3
  <2>3. Is(g)
    BY <2>1, <2>2
  <2>4. NumberLoop(p) = (CHOOSE h : Is(h))[N]
    BY DEF NumberLoop, Loop
  <2> HIDE DEF Is
  <2> QED BY <2>3, <2>4
<1>6. Goes(h, N, s, st, G)
  <2>1. h[0] = s /\ \A k \in 1..N : h[k - 1] \in G => h[k] = st[h[k - 1]]
    BY <1>1, <1>5
  <2> QED BY <2>1 DEF Goes
<1>7. h[N] \in G /\ st[h[N]] = h[N]
  <2> HIDE DEF G, st, s, N, m
  <2> QED BY <1>1, <1>2, <1>4, <1>6, LoopEnds
<1> QED BY <1>5, <1>7, <1>8

\* Neither of the quotes is one of these.
LEMMA QuotesAre ==
  ASSUME NEW quote \in Quotes
  PROVE  quote # "end" /\ quote # "\\" /\ quote # "u" /\ quote \notin OctalChar /\ quote \notin HexChar
<1>1. quote # "end" /\ quote # "\\" /\ quote # "u"
  BY Zenon DEF Quotes
<1>2. quote \notin OctalChar
  BY Zenon DEF Quotes, OctalChar
<1>3. quote \notin HexChar
  BY Zenon DEF Quotes, OctalChar, Digit, HexChar
<1> QED BY <1>1, <1>2, <1>3

\* In a string, a quote that does not end it follows a backslash.
Quoting(quote, i, j) == \A k \in i..j-1 : text[k] = quote => text[k - 1] = "\\"

LEMMA QuotingGoesOn ==
  ASSUME NEW i \in Nat, NEW j \in Nat, NEW quote, Quoting(quote, i, j), text[j] # quote
  PROVE  Quoting(quote, i, j + 1)
<1>1. \A k \in i..j+1-1 : k = j \/ k \in i..j-1
  OBVIOUS
<1> QED BY <1>1 DEF Quoting

\* A code of digits, from the cursor a on, put back on its last digit.
LEMMA CodeReads ==
  ASSUME TextIs, Escaped, NEW p, Reading(p), p.c = "\\", NEW quote \in Quotes,
         NEW a, a = Advance(p), a.c # "end", NEW b, Reading(b), Pos(a) <= Pos(b),
         \A i \in Pos(a)..Pos(b)-1 : text[i] # quote,
         NEW chars, "end" \notin chars, quote \notin chars, NEW q, q = Advance(Back(While(chars, b).p)),
         b = a => a.c \in chars
  PROVE  Reading(q) /\ Pos(p) < Pos(q) /\ Quoting(quote, Pos(p), Pos(q))
<1>1. PICK w : w = While(chars, b)
  OBVIOUS
<1>2. Took(chars, b, w) /\ Reading(w.p) /\ Pos(b) <= Pos(w.p)
  BY <1>1, WhileReads DEF Took, Scan
<1>3. Reading(a) /\ Pos(a) = Pos(p) + 1
  BY AdvanceReads
<1>4. /\ Pos(p) \in Nat /\ Pos(a) \in Nat /\ Pos(b) \in Nat /\ Pos(w.p) \in Nat /\ w.p.at \in Nat
      /\ Pos(p) > 0 /\ Len(text) \in Nat /\ Pos(a) <= Len(text) /\ text[Pos(p)] = "\\"
      /\ w.p.c = "end" => w.p.at = Len(text) /\ Pos(w.p) = Len(text) + 1
      /\ w.p.c # "end" => w.p.at = Pos(w.p)
  <2>1. Len(text) \in Nat
    BY TextHas
  <2>2. Pos(p) \in Nat /\ Pos(p) > 0 /\ text[Pos(p)] = "\\"
    BY <2>1, CursorHas
  <2>3. Pos(a) \in Nat /\ Pos(a) <= Len(text)
    BY <1>3, <2>1, CursorHas
  <2>4. Pos(b) \in Nat
    BY <2>1, CursorHas
  <2>5. /\ Pos(w.p) \in Nat /\ w.p.at \in Nat
        /\ w.p.c = "end" => w.p.at = Len(text) /\ Pos(w.p) = Len(text) + 1
        /\ w.p.c # "end" => w.p.at = Pos(w.p)
    BY <1>2, <2>1, CursorHas
  <2> QED BY <2>1, <2>2, <2>3, <2>4, <2>5
<1>5. w.p.at > 1 /\ Pos(p) < w.p.at
  BY <1>2, <1>3, <1>4
<1>6. Reading(q) /\ Pos(q) = w.p.at
  BY <1>1, <1>2, <1>5, BackReads
<1>7. Quoting(quote, Pos(p), Pos(q))
  <2> SUFFICES ASSUME NEW i \in Pos(p)..Pos(q)-1, text[i] = quote PROVE FALSE
    BY DEF Quoting
  <2>1. i = Pos(p) \/ i \in Pos(a)..Pos(b)-1 \/ i \in Pos(b)..Pos(w.p)-1
    BY <1>3, <1>4, <1>6
  <2>2. CASE i = Pos(p)
    BY <1>4, <2>2, QuotesAre
  <2>3. CASE i \in Pos(a)..Pos(b)-1
    BY <2>3
  <2>4. CASE i \in Pos(b)..Pos(w.p)-1
    BY <1>2, <2>4 DEF Took
  <2> QED BY <2>1, <2>2, <2>3, <2>4
<1> QED BY <1>5, <1>6, <1>7

LEMMA EscapeReads ==
  ASSUME TextIs, NEW p, Reading(p), p.c = "\\", NEW quote \in Quotes,
         NEW e, e = ScanStringEscape(p), NEW q, q = Advance(e.p)
  PROVE  e.v \in Seq(Told) /\ Reading(q) /\ Pos(p) < Pos(q) /\ Quoting(quote, Pos(p), Pos(q))
<1>1. PICK a : a = Advance(p)
  OBVIOUS
<1>2. Reading(a) /\ Pos(a) = Pos(p) + 1
  BY <1>1, AdvanceReads
<1>3. /\ Pos(p) \in 1..Len(text) /\ a.c \in Told /\ Len(text) \in Nat /\ text[Pos(p)] = "\\"
      /\ p.at = Pos(p) /\ Pos(a) \in Nat
      /\ a.c # "end" => a.c = text[Pos(p) + 1] /\ Pos(a) <= Len(text)
  BY <1>2, CursorHas, TextHas
<1>4. a.c \in {"0", "u"} => Escaped
  <2> SUFFICES ASSUME a.c \in {"0", "u"} PROVE Escaped
    OBVIOUS
  <2>1. Pos(p) \in 1..Len(text)-1 /\ text[Pos(p)] = "\\" /\ text[Pos(p) + 1] \in {"0", "u"}
    BY <1>2, <1>3
  <2> QED BY <2>1 DEF Escaped
<1>5. ASSUME e.p = a PROVE Reading(q) /\ Pos(p) < Pos(q) /\ Quoting(quote, Pos(p), Pos(q))
  <2>1. Reading(q) /\ Pos(q) \in {Pos(a), Pos(a) + 1}
    BY <1>2, <1>5, AdvanceReads
  <2>2. ASSUME NEW i \in Pos(p)..Pos(q)-1, text[i] = quote PROVE text[i - 1] = "\\"
    <3>1. i = Pos(p) \/ i = Pos(p) + 1
      BY <1>2, <1>3, <2>1
    <3>2. i # Pos(p)
      BY <1>3, <2>2, QuotesAre
    <3> QED BY <1>3, <3>1, <3>2
  <2> QED BY <1>2, <1>3, <2>1, <2>2 DEF Quoting
<1>6. CASE a.c = "0" /\ PeekAhead(a) \in OctalChar
  <2>1. e = [p |-> Back(While(OctalChar, a).p), v |-> <<"ansi">>]
    BY <1>1, <1>6 DEF ScanStringEscape, ScanAnsiEscapeCode
  <2>2. e.p = Back(While(OctalChar, a).p) /\ e.v = <<"ansi">>
    BY <2>1
  <2>3. e.v \in Seq(Told)
    <3>1. "ansi" \in Told
      BY DEF Told
    <3> QED BY <2>2, <3>1
  <2>4. "end" \notin OctalChar /\ quote \notin OctalChar /\ a.c \in OctalChar /\ a.c # "end"
    BY <1>6, QuotesAre DEF OctalChar
  <2>5. \A i \in Pos(a)..Pos(a)-1 : text[i] # quote
    BY <1>3
  <2>6. Escaped
    BY <1>4, <1>6
  <2>7. Pos(a) <= Pos(a)
    BY <1>3
  <2>8. PICK c : c = OctalChar
    OBVIOUS
  <2>9. q = Advance(Back(While(c, a).p)) /\ "end" \notin c /\ quote \notin c /\ a.c \in c
    BY <2>2, <2>4, <2>8
  <2>10. Reading(q) /\ Pos(p) < Pos(q) /\ Quoting(quote, Pos(p), Pos(q))
    BY <1>1, <1>2, <2>4, <2>5, <2>6, <2>7, <2>9, CodeReads
  <2> QED BY <2>3, <2>10
<1>7. CASE a.c = "u" /\ PeekAhead(a) \in HexChar
  <2>1. PICK b : b = Advance(a)
    OBVIOUS
  <2>2. e = [p |-> Back(While(HexChar, b).p), v |-> <<"unicode">>]
    BY <1>1, <1>7, <2>1 DEF ScanStringEscape, ScanUnicodeEscapeCode
  <2>3. e.p = Back(While(HexChar, b).p) /\ e.v = <<"unicode">>
    BY <2>2
  <2>4. e.v \in Seq(Told)
    <3>1. "unicode" \in Told
      BY DEF Told
    <3> QED BY <2>3, <3>1
  <2>5. "end" \notin HexChar /\ quote \notin HexChar /\ a.c # "end" /\ a.c # quote
    BY <1>7, QuotesAre DEF HexChar, Digit, OctalChar
  <2>6. Reading(b) /\ Pos(b) = Pos(a) + 1
    BY <1>2, <2>1, <2>5, AdvanceReads
  <2>7. \A i \in Pos(a)..Pos(b)-1 : text[i] # quote
    <3>1. text[Pos(a)] # quote
      BY <1>2, <1>3, <2>5
    <3> QED BY <1>3, <2>6, <3>1
  <2>8. Escaped
    BY <1>4, <1>7
  <2>9. Pos(a) <= Pos(b) /\ b # a
    BY <1>3, <2>6
  <2>10. PICK c : c = HexChar
    OBVIOUS
  <2>11. q = Advance(Back(While(c, b).p)) /\ "end" \notin c /\ quote \notin c
    BY <2>3, <2>5, <2>10
  <2>12. Reading(q) /\ Pos(p) < Pos(q) /\ Quoting(quote, Pos(p), Pos(q))
    BY <1>1, <1>2, <2>5, <2>6, <2>7, <2>8, <2>9, <2>11, CodeReads
  <2> QED BY <2>4, <2>12
<1>8. CASE ~(a.c = "0" /\ PeekAhead(a) \in OctalChar) /\ ~(a.c = "u" /\ PeekAhead(a) \in HexChar)
  <2>1. e = CASE a.c \in Quotes \cup {"\\"} -> [p |-> a, v |-> <<a.c>>]
              [] a.c = "0" -> [p |-> a, v |-> <<"nul">>]
              [] a.c = "u" -> [p |-> a, v |-> <<"\\", "u">>]
              [] a.c = "n" -> [p |-> a, v |-> <<"nl">>]
              [] a.c \in {"b", "f", "r", "t"} -> [p |-> a, v |-> <<"control">>]
              [] OTHER -> [p |-> a, v |-> <<"\\", a.c>>]
    BY <1>1, <1>8 DEF ScanStringEscape
  <2>2. /\ "nul" \in Told /\ "\\" \in Told /\ "u" \in Told /\ "nl" \in Told /\ "control" \in Told
    BY DEF Told
  <2>3. e.p = a /\ \E c, d \in Told : e.v \in {<<c>>, <<c, d>>}
    BY <1>3, <2>1, <2>2
  <2>4. e.v \in Seq(Told)
    <3>1. PICK c \in Told, d \in Told : e.v \in {<<c>>, <<c, d>>}
      BY <2>3
    <3>2. <<c>> \in Seq(Told) /\ <<c, d>> \in Seq(Told)
      OBVIOUS
    <3> QED BY <3>1, <3>2
  <2> QED BY <1>5, <2>3, <2>4
<1> QED BY <1>6, <1>7, <1>8

\* What ScanString reads, from behind the quote to the next or the end.
StringLoop(quote, p) == Loop(LAMBDA y : StringRound(quote, y), [p |-> p, v |-> <<>>])
LEMMA StringReads ==
  ASSUME TextIs, NEW p, Reading(p), NEW quote \in Quotes
  PROVE  /\ Scan(StringLoop(quote, p), p)
         /\ Quoting(quote, Pos(p), Pos(StringLoop(quote, p).p))
         /\ StringLoop(quote, p).p.c \in {"end", quote}
<1> DEFINE G == {x \in Scans : Scan(x, p) /\ Quoting(quote, Pos(p), Pos(x.p))}
           st == [x \in G |-> StringRound(quote, x)]
           m == [x \in G |-> Pos(x.p)]
           s == [p |-> p, v |-> <<>>]
           N == Len(text)
<1>1. N \in Nat
  BY TextHas
<1>2. s \in G
  <2>1. s.p = p /\ s = [p |-> s.p, v |-> s.v] /\ s.v \in Seq(Told)
    OBVIOUS
  <2>2. Pos(p) \in Nat
    BY CursorHas
  <2>3. Scan(s, p)
    BY <2>1, <2>2 DEF Scan
  <2>4. Quoting(quote, Pos(p), Pos(s.p))
    BY <2>1, <2>2 DEF Quoting
  <2> QED BY <2>3, <2>4, ScanIn
<1>3. ASSUME NEW x \in G
      PROVE  /\ StringRound(quote, x) \in G
             /\ x.p.c \in {"end", quote} => StringRound(quote, x) = x
             /\ x.p.c \notin {"end", quote} => Pos(x.p) < Pos(StringRound(quote, x).p)
  <2>1. CASE x.p.c \in {"end", quote}
    BY <2>1 DEF StringRound
  <2>2. CASE x.p.c \notin {"end", quote}
    <3>1. Scan(x, p) /\ Quoting(quote, Pos(p), Pos(x.p)) /\ x.p.c # "end" /\ x.p.c # quote /\ Reading(x.p)
      BY <2>2 DEF Scan
    <3>2. /\ Pos(x.p) \in Nat /\ Pos(p) \in Nat /\ Pos(p) <= Pos(x.p) /\ x.v \in Seq(Told)
          /\ x.p.c = text[Pos(x.p)]
      BY <1>1, <3>1, CursorHas DEF Scan
    <3>3. CASE x.p.c # "\\"
      <4>1. StringRound(quote, x) = Reads(x)
        BY <2>2, <3>3 DEF StringRound
      <4>2. Scan(Reads(x), p) /\ Pos(Reads(x).p) = Pos(x.p) + 1
        BY <3>1, ReadsScan
      <4>3. Quoting(quote, Pos(p), Pos(x.p) + 1)
        BY <3>1, <3>2, QuotingGoesOn
      <4> QED BY <2>2, <3>2, <4>1, <4>2, <4>3, ScanIn
    <3>4. CASE x.p.c = "\\"
      <4>1. PICK e : e = ScanStringEscape(x.p)
        OBVIOUS
      <4>2. PICK b : b = Advance(e.p)
        OBVIOUS
      <4>3. e.v \in Seq(Told) /\ Reading(b) /\ Pos(x.p) < Pos(b) /\ Quoting(quote, Pos(x.p), Pos(b))
        BY <3>1, <3>4, <4>1, <4>2, EscapeReads
      <4>4. StringRound(quote, x) = [p |-> b, v |-> x.v \o e.v]
        BY <2>2, <3>4, <4>1, <4>2 DEF StringRound
      <4>5. x.v \o e.v \in Seq(Told)
        BY <3>2, <4>3
      <4>6. PICK y : y = [p |-> b, v |-> x.v \o e.v]
        OBVIOUS
      <4>7. y.p = b /\ y.v = x.v \o e.v /\ y = [p |-> y.p, v |-> y.v]
        BY <4>6
      <4>8. Pos(b) \in Nat
        BY <1>1, <4>3, CursorHas
      <4>9. Scan(y, p)
        BY <3>2, <4>3, <4>5, <4>7, <4>8 DEF Scan
      <4>10. Quoting(quote, Pos(p), Pos(b))
        <5> SUFFICES ASSUME NEW k \in Pos(p)..Pos(b)-1, text[k] = quote PROVE text[k - 1] = "\\"
          BY DEF Quoting
        <5>1. k \in Pos(p)..Pos(x.p)-1 \/ k \in Pos(x.p)..Pos(b)-1
          BY <3>2, <4>8
        <5> QED BY <3>1, <4>3, <5>1 DEF Quoting
      <4> QED BY <2>2, <4>3, <4>4, <4>6, <4>7, <4>9, <4>10, ScanIn
    <3> QED BY <3>3, <3>4
  <2> QED BY <2>1, <2>2
<1>4. /\ st \in [G -> G] /\ m \in [G -> 1..N+1]
      /\ Climbs(m, st, G)
  <2>1. \A x \in G : m[x] \in 1..N+1
    <3> TAKE x \in G
    <3>1. Reading(x.p)
      BY DEF Scan
    <3> QED BY <3>1, CursorHas
  <2>2. \A x \in G : Pos(x.p) \in Nat
    BY <1>1, <2>1
  <2> QED BY <1>3, <2>1, <2>2 DEF Climbs
<1>8. \A x \in G : st[x] = x => x.p.c \in {"end", quote}
  <2> TAKE x \in G
  <2>1. Pos(x.p) \in Nat
    BY <1>1, <1>4
  <2> QED BY <1>3, <2>1
<1> DEFINE Is(h) == h = [k \in 0..N |-> IF k = 0 THEN s ELSE StringRound(quote, h[k - 1])]
<1>5. PICK h : Is(h) /\ StringLoop(quote, p) = h[N]
  <2>1. PICK g \in [0..N -> G] : Follows(g, N, s, st)
    <3> HIDE DEF G, st, s, N
    <3> QED BY <1>1, <1>2, <1>4, RunExists
  <2>2. \A k \in 0..N : g[k] = IF k = 0 THEN s ELSE StringRound(quote, g[k - 1])
    <3> TAKE k \in 0..N
    <3>1. g[k] = IF k = 0 THEN s ELSE st[g[k - 1]]
      BY <2>1 DEF Follows
    <3>2. k # 0 => k - 1 \in 0..N
      BY <1>1
    <3>3. k # 0 => g[k - 1] \in G
      BY <2>1, <3>2
    <3> QED BY <3>1, <3>3
  <2>3. Is(g)
    BY <2>1, <2>2
  <2>4. StringLoop(quote, p) = (CHOOSE h : Is(h))[N]
    BY DEF StringLoop, Loop
  <2> HIDE DEF Is
  <2> QED BY <2>3, <2>4
<1>6. Goes(h, N, s, st, G)
  <2>1. h[0] = s /\ \A k \in 1..N : h[k - 1] \in G => h[k] = st[h[k - 1]]
    BY <1>1, <1>5
  <2> QED BY <2>1 DEF Goes
<1>7. h[N] \in G /\ st[h[N]] = h[N]
  <2> HIDE DEF G, st, s, N, m
  <2> QED BY <1>1, <1>2, <1>4, <1>6, LoopEnds
<1> QED BY <1>5, <1>7, <1>8

-----------------------------------------------------------------------------
(* The value of a number                                                   *)

LEMMA Greatest ==
  ASSUME NEW n \in Nat, NEW T, T \subseteq 1..n, T # {}
  PROVE  \E x \in T : \A y \in T : y <= x
<1> DEFINE U == {u \in 0..n : n - u \in T}
<1>1. \A x \in T : x \in 1..n /\ n - x \in 0..n /\ n - (n - x) = x
  OBVIOUS
<1>2. U \subseteq Nat /\ U # {} /\ \A x \in T : n - x \in U
  <2>1. \A x \in T : n - x \in U
    <3> TAKE x \in T
    <3>1. PICK u : u = n - x
      OBVIOUS
    <3>2. u \in 0..n /\ n - u = x
      BY <1>1, <3>1
    <3> QED BY <3>1, <3>2
  <2>2. U \subseteq Nat
    OBVIOUS
  <2> HIDE DEF U
  <2> QED BY <2>1, <2>2
<1>3. PICK u \in U : \A y \in U : u <= y
  <2> HIDE DEF U
  <2> QED BY <1>2, Least
<1>4. \A y \in T : y <= n - u
  <2> TAKE y \in T
  <2>1. n - y \in U /\ y \in Nat
    BY <1>1, <1>2
  <2>2. u <= n - y /\ u \in Nat
    BY <1>3, <2>1
  <2> QED BY <2>1, <2>2
<1> QED BY <1>3, <1>4

\* A number keeps a part of what is written, the digit before the point in it.
LEMMA CanonicalIn ==
  ASSUME NEW d \in Seq(Told), d # <<>>, d[1] \in Digit
  PROVE  Canonical(d) \in Seq(Told)
<1> DEFINE points == {k \in DOMAIN d : d[k] = "."}
           n == Len(d)
<1>1. n \in Nat /\ n # 0 /\ DOMAIN d = 1..n /\ d[1] # "."
  BY DEF Digit, OctalChar
<1>2. Dot(d) \in points \cup {n + 1} /\ \A j \in points : Dot(d) <= j
  <2>1. \E k \in points \cup {n + 1} : \A j \in points : k <= j
    <3>1. CASE points = {}
      BY <3>1
    <3>2. CASE points # {}
      <4>1. points \subseteq Nat
        BY <1>1
      <4> HIDE DEF points
      <4> QED BY <3>2, <4>1, Least
    <3> QED BY <3>1, <3>2
  <2>2. Dot(d) = CHOOSE k \in points \cup {n + 1} : \A j \in points : k <= j
    BY DEF Dot
  <2> HIDE DEF points, n
  <2> QED BY <2>1, <2>2
<1>3. PICK t : t = Dot(d)
  OBVIOUS
<1>4. t \in 2..n+1 /\ (t <= n => d[t] = ".")
  BY <1>1, <1>2, <1>3
<1>5. First(d) \in 1..t-1
  <2> DEFINE Starts(k) == (d[k] # "0" \/ k = t - 1) /\ \A j \in 1..k-1 : d[j] = "0"
             T == {k \in 1..t-1 : d[k] # "0" \/ k = t - 1}
  <2>1. PICK k \in T : \A y \in T : k <= y
    <3>1. T \subseteq Nat /\ t - 1 \in T
      BY <1>4
    <3> HIDE DEF T
    <3> QED BY <3>1, Least
  <2>2. k \in 1..t-1 /\ Starts(k)
    <3>1. \A j \in 1..k-1 : j \notin T /\ j \in 1..t-1
      BY <1>4, <2>1
    <3> QED BY <2>1, <3>1
  <2>3. First(d) = CHOOSE i \in 1..t-1 : Starts(i)
    BY <1>3 DEF First
  <2> HIDE DEF Starts
  <2> QED BY <2>2, <2>3
<1>6. Last(d) \in {t - 1} \cup t+1..n
  <2> DEFINE Ends(k) == (k < t \/ d[k] # "0") /\ \A j \in k+1..n : d[j] \in {"0", "."}
             T == {k \in t+1..n : d[k] # "0"}
  <2>1. \E k \in {t - 1} \cup t+1..n : Ends(k)
    <3>1. CASE T = {}
      <4>1. \A j \in t-1+1..n : d[j] \in {"0", "."}
        <5> TAKE j \in t-1+1..n
        <5>1. j = t \/ j \in t+1..n
          BY <1>1, <1>4
        <5>2. j <= n
          BY <1>1, <1>4
        <5> QED BY <1>4, <3>1, <5>1, <5>2
      <4>2. t - 1 < t
        BY <1>4
      <4> QED BY <4>1, <4>2
    <3>2. CASE T # {}
      <4>1. T \subseteq 1..n
        BY <1>1, <1>4
      <4>2. PICK k \in T : \A y \in T : y <= k
        <5> HIDE DEF T
        <5> QED BY <1>1, <3>2, <4>1, Greatest
      <4>3. \A j \in k+1..n : d[j] \in {"0", "."}
        BY <1>1, <1>4, <4>2
      <4> QED BY <4>2, <4>3
    <3> QED BY <3>1, <3>2
  <2>2. Last(d) = CHOOSE i \in {t - 1} \cup t+1..n : Ends(i)
    BY <1>3 DEF Last
  <2> HIDE DEF Ends
  <2> QED BY <2>1, <2>2
<1>7. First(d) \in 1..n /\ Last(d) \in 1..n
  BY <1>1, <1>4, <1>5, <1>6
<1>8. PICK f, l : f = First(d) /\ l = Last(d)
  OBVIOUS
<1>9. SubSeq(d, f, l) \in Seq(Told)
  BY <1>7, <1>8
<1> QED BY <1>8, <1>9 DEF Canonical

-----------------------------------------------------------------------------
(* Tokens                                                                  *)

\* Two cursors at a position read the same character.
LEMMA SamePos ==
  ASSUME TextIs, NEW p, Reading(p), NEW q, Reading(q), Pos(p) = Pos(q)
  PROVE  p.c = q.c
<1>1. /\ p.c = "end" => Pos(p) = Len(text) + 1
      /\ p.c # "end" => p.c = text[Pos(p)] /\ Pos(p) <= Len(text)
      /\ q.c = "end" => Pos(q) = Len(text) + 1
      /\ q.c # "end" => q.c = text[Pos(q)] /\ Pos(q) <= Len(text)
      /\ Len(text) \in Nat
  BY CursorHas, TextHas
<1> QED BY <1>1

LEMMA SameLine ==
  ASSUME NEW i \in Nat, NEW j \in Nat, i <= j, Plain(i, j)
  PROVE  LineOf(j) = LineOf(i)
<1>1. Breaks(j) = Breaks(i)
  BY DEF Breaks, Plain
<1> QED BY <1>1 DEF LineOf

\* The token x.t, read from the cursor r up to the cursor x.p.
Emits(x) ==
  /\ Reading(x.p) /\ x.t \in Tokens
  /\ x.t.from = Pos(r) /\ Pos(r) <= x.t.to /\ Pos(x.p) = x.t.to + 1
  /\ ~Escaped => Located(x.t)

\* Where a token ends is where the cursor goes on.
Past(t) == IF t.to = Len(text) THEN "end" ELSE text[t.to + 1]
LEMMA PastIs ==
  ASSUME TextIs, NEW x, Emits(x)
  PROVE  Past(x.t) = x.p.c
<1>1. /\ x.p.c = "end" => Pos(x.p) = Len(text) + 1
      /\ x.p.c # "end" => x.p.c = text[Pos(x.p)] /\ Pos(x.p) <= Len(text)
      /\ Len(text) \in Nat
  BY CursorHas, TextHas DEF Emits
<1>2. x.t.to \in Nat /\ Pos(x.p) = x.t.to + 1
  BY <1>1 DEF Emits, Tokens
<1> QED BY <1>1, <1>2 DEF Past

Starts == TextIs /\ Reading(r) /\ r.c # "end"
LEMMA StartsAt ==
  ASSUME Starts
  PROVE  /\ Pos(r) = r.at /\ r.at \in 1..Len(text) /\ Len(text) \in Nat \ {0} /\ text[r.at] = r.c
         /\ r.col \in Nat /\ (~Escaped => r.line = LineOf(r.at) /\ r.col = ColumnOf(r.at))
<1>1. TextIs /\ Reading(r) /\ r.c # "end"
  BY DEF Starts
<1>2. Pos(r) = r.at /\ r.at \in 1..Len(text) /\ text[r.at] = r.c /\ r.col \in Nat
  BY <1>1, CursorHas
<1>3. Len(text) \in Nat \ {0}
  BY <1>1, TextHas
<1>4. ~Escaped => r.line = LineOf(r.at) /\ r.col = ColumnOf(r.at)
  BY <1>1 DEF Reading, Counted
<1> QED BY <1>2, <1>3, <1>4

Inside(kind) == kind \in {"str", "word"}
LEMMA GetTokenIs ==
  ASSUME Starts, NEW kind \in Kinds, NEW value \in Seq(Told), NEW p, Reading(p), Pos(r) < Pos(p),
         Inside(kind) \/ Plain(Pos(r), Pos(p)), NEW x, x = GetToken(kind, value, p)
  PROVE  Emits(x) /\ x.p = p /\ x.t.k = kind /\ x.t.v = value
<1>1. /\ Pos(r) = r.at /\ r.at \in 1..Len(text) /\ Len(text) \in Nat \ {0} /\ r.col \in Nat
      /\ ~Escaped => r.col = ColumnOf(r.at)
  BY StartsAt
<1>2. /\ p.at \in 1..Len(text) /\ p.line \in Nat /\ Pos(p) \in 1..Len(text)+1
      /\ p.c = "end" => p.at = Len(text) /\ Pos(p) = Len(text) + 1
      /\ p.c # "end" => Pos(p) = p.at /\ p.c = text[p.at] /\ Pos(p) <= Len(text)
  BY CursorHas DEF Starts
<1>3. PICK to : to = IF p.c = "end" THEN Len(text) ELSE p.at - 1
  OBVIOUS
<1>4. PICK b : b = (p.c = " ")
  OBVIOUS
<1>5. x = [p |-> p, t |-> [k |-> kind, v |-> value, b |-> b, line |-> p.line, col |-> r.col,
                           from |-> r.at, to |-> to]]
  BY <1>3, <1>4 DEF GetToken
<1>6. to \in r.at..Len(text) /\ Pos(p) = to + 1 /\ to \in 1..Len(text)
  BY <1>1, <1>2, <1>3
<1>7. PICK t : t = [k |-> kind, v |-> value, b |-> b, line |-> p.line, col |-> r.col,
                    from |-> r.at, to |-> to]
  OBVIOUS
<1>8. /\ t.k = kind /\ t.v = value /\ t.b = b /\ t.line = p.line /\ t.col = r.col
      /\ t.from = r.at /\ t.to = to
  BY <1>7
<1>9. t \in Tokens
  <2>1. b \in BOOLEAN
    BY <1>4
  <2> QED BY <1>1, <1>2, <1>6, <1>7, <2>1, Zenon DEF Tokens
<1>10. x.p = p /\ x.t = t
  BY <1>5, <1>7
<1>11. ~Escaped => Located(t)
  <2> SUFFICES ASSUME ~Escaped PROVE Located(t)
    OBVIOUS
  <2>1. p.line = LineOf(p.at)
    BY DEF Reading, Counted
  <2>2. t.line = LineOf(LinedAt(t))
    <3>1. CASE Inside(kind)
      <4>1. p.at = IF to = Len(text) THEN to ELSE to + 1
        BY <1>2, <1>6
      <4>2. LinedAt(t) = p.at
        BY <1>8, <3>1, <4>1 DEF Inside, LinedAt
      <4> QED BY <1>8, <2>1, <4>2
    <3>2. CASE ~Inside(kind)
      <4>1. Plain(r.at, Pos(p)) /\ r.at <= p.at /\ p.at <= Pos(p) /\ Pos(p) \in Nat /\ r.at \in Nat /\ p.at \in Nat
        BY <1>1, <1>2, <3>2
      <4>2. Plain(r.at, p.at)
        BY <4>1 DEF Plain
      <4>3. LineOf(p.at) = LineOf(r.at)
        BY <4>1, <4>2, SameLine
      <4>4. LinedAt(t) = r.at
        BY <1>8, <3>2 DEF Inside, LinedAt
      <4> QED BY <1>8, <2>1, <4>3, <4>4
    <3> QED BY <3>1, <3>2
  <2>3. t.col = ColumnOf(t.from)
    BY <1>1, <1>8
  <2>4. t.b <=> t.to < Len(text) /\ text[t.to + 1] = " "
    <3>1. p.c = " " <=> to < Len(text) /\ text[to + 1] = " "
      <4>1. CASE p.c = "end"
        <5>1. ~(to < Len(text))
          BY <1>1, <1>2, <1>6, <4>1
        <5> QED BY <4>1, <5>1
      <4>2. CASE p.c # "end"
        <5>1. to < Len(text) /\ text[to + 1] = p.c
          BY <1>1, <1>2, <1>6, <4>2
        <5> QED BY <5>1
      <4> QED BY <4>1, <4>2
    <3> QED BY <1>4, <1>8, <3>1
  <2> QED BY <2>2, <2>3, <2>4 DEF Located
<1> QED BY <1>1, <1>6, <1>8, <1>9, <1>10, <1>11 DEF Emits

Selectable(kind, p) ==
  IF Inside(kind) THEN Pos(r) < Pos(p) /\ p.c # "nl" ELSE p.c # "end" /\ Plain(Pos(r), Pos(p))
\* A selected token ends with the character the cursor p is at.
LEMMA SelectIs ==
  ASSUME Starts, NEW kind \in Kinds, NEW value \in Seq(Told), NEW p, Reading(p), Pos(r) <= Pos(p),
         Selectable(kind, p), NEW x, x = Select(kind, value, p)
  PROVE  Emits(x) /\ x.p = Advance(p) /\ x.t.k = kind /\ x.t.v = value
<1>1. /\ Pos(r) = r.at /\ r.at \in 1..Len(text) /\ Len(text) \in Nat \ {0} /\ r.col \in Nat
      /\ ~Escaped => r.col = ColumnOf(r.at)
  BY StartsAt
<1>2. /\ p.at \in 1..Len(text) /\ p.line \in Nat /\ Pos(p) \in 1..Len(text)+1
      /\ p.c = "end" => p.at = Len(text) /\ Pos(p) = Len(text) + 1
      /\ p.c # "end" => Pos(p) = p.at /\ p.c = text[p.at] /\ Pos(p) <= Len(text)
  BY CursorHas DEF Starts
<1>3. PICK to : to = IF p.c = "end" THEN Len(text) ELSE p.at
  OBVIOUS
<1>4. PICK b : b = (PeekAhead(p) = " ")
  OBVIOUS
<1>5. x = [p |-> Advance(p), t |-> [k |-> kind, v |-> value, b |-> b, line |-> p.line, col |-> r.col,
                                    from |-> r.at, to |-> to]]
  BY <1>3, <1>4 DEF Select
<1>6. to = p.at /\ to \in r.at..Len(text) /\ to \in 1..Len(text)
  BY <1>1, <1>2, <1>3
<1>7. PICK t : t = [k |-> kind, v |-> value, b |-> b, line |-> p.line, col |-> r.col,
                    from |-> r.at, to |-> to]
  OBVIOUS
<1>8. /\ t.k = kind /\ t.v = value /\ t.b = b /\ t.line = p.line /\ t.col = r.col
      /\ t.from = r.at /\ t.to = to
  BY <1>7
<1>9. t \in Tokens
  <2>1. b \in BOOLEAN
    BY <1>4
  <2> QED BY <1>1, <1>2, <1>6, <1>7, <2>1, Zenon DEF Tokens
<1>10. x.p = Advance(p) /\ x.t = t
  BY <1>5, <1>7
<1>11. Reading(Advance(p)) /\ Pos(Advance(p)) = to + 1
  <2>1. Reading(Advance(p)) /\ Pos(Advance(p)) = IF p.c = "end" THEN Pos(p) ELSE Pos(p) + 1
    BY AdvanceReads DEF Starts
  <2> QED BY <1>1, <1>2, <1>3, <2>1
<1>12. ~Escaped => Located(t)
  <2> SUFFICES ASSUME ~Escaped PROVE Located(t)
    OBVIOUS
  <2>1. p.line = LineOf(p.at)
    BY DEF Reading, Counted
  <2>2. t.line = LineOf(LinedAt(t))
    <3>1. CASE Inside(kind)
      <4>1. LinedAt(t) = IF to = Len(text) THEN to ELSE to + 1
        BY <1>8, <3>1 DEF Inside, LinedAt
      <4>2. CASE to = Len(text)
        BY <1>6, <1>8, <2>1, <4>1, <4>2
      <4>3. CASE to # Len(text)
        <5>1. text[to] # "nl" /\ to \in Nat \ {0}
          BY <1>1, <1>2, <1>6, <3>1, <4>3 DEF Selectable
        <5>2. LineOf(to + 1) = LineOf(to)
          BY <5>1, PlaceSteps
        <5> QED BY <1>6, <1>8, <2>1, <4>1, <4>3, <5>2
      <4> QED BY <4>2, <4>3
    <3>2. CASE ~Inside(kind)
      <4>1. Plain(r.at, p.at) /\ r.at <= p.at /\ r.at \in Nat /\ p.at \in Nat
        BY <1>1, <1>2, <3>2 DEF Selectable
      <4>2. LineOf(p.at) = LineOf(r.at)
        BY <4>1, SameLine
      <4>3. LinedAt(t) = r.at
        BY <1>8, <3>2 DEF Inside, LinedAt
      <4> QED BY <1>8, <2>1, <4>2, <4>3
    <3> QED BY <3>1, <3>2
  <2>3. t.col = ColumnOf(t.from)
    BY <1>1, <1>8
  <2>4. t.b <=> t.to < Len(text) /\ text[t.to + 1] = " "
    <3>1. PeekAhead(p) = " " <=> to < Len(text) /\ text[to + 1] = " "
      <4>1. CASE to = Len(text)
        <5>1. ~(to < Len(text)) /\ PeekAhead(p) = "end"
          BY <1>1, <1>6, <4>1 DEF PeekAhead
        <5> QED BY <5>1
      <4>2. CASE to # Len(text)
        <5>1. to < Len(text) /\ PeekAhead(p) = text[to + 1]
          BY <1>1, <1>6, <4>2 DEF PeekAhead
        <5> QED BY <5>1
      <4> QED BY <4>1, <4>2
    <3> QED BY <1>4, <1>8, <3>1
  <2> QED BY <2>2, <2>3, <2>4 DEF Located
<1> QED BY <1>1, <1>6, <1>8, <1>9, <1>10, <1>11, <1>12 DEF Emits

-----------------------------------------------------------------------------
(* The table of punctuators                                                *)

Triples == {<<"$", "@", "{">>, <<".", ".", ".">>, <<"<", "<", "=">>, <<">", ">", "=">>, <<"<", "<", "<">>, <<">", ">", ">">>}
Follow(c) == IF c = "$" THEN {"(", "{"} ELSE Second(c)
Follows2(w) == w = <<w[1], w[2]>> /\ w[2] \in Follow(w[1]) /\ w[1] # "nl" /\ w[2] # "nl"
Alone(w) == w = <<w[1]>> /\ w[1] # "nl"
LEMMA TableIs ==
  ASSUME NEW w \in Table
  PROVE  w \in Triples \/ Follows2(w) \/ Alone(w)
<1>1. CASE w \in {<<c, "=">> : c \in {"|", "^", "&", "+", "-", "*", "/", "%", "=", "!", "<", ">"}}
  <2>1. PICK c \in {"|", "^", "&", "+", "-", "*", "/", "%", "=", "!", "<", ">"} : w = <<c, "=">>
    BY <1>1
  <2>2. "=" \in Second(c) /\ c # "nl" /\ c # "$"
    BY <2>1 DEF Second
  <2> QED BY <2>1, <2>2 DEF Follows2, Follow
<1>2. CASE w \in {<<c, c>> : c \in {":", "|", "&", "<", ">", "*", "%"}}
  <2>1. PICK c \in {":", "|", "&", "<", ">", "*", "%"} : w = <<c, c>>
    BY <1>2
  <2>2. c \in Second(c) /\ c # "nl" /\ c # "$"
    BY <2>1 DEF Second
  <2> QED BY <2>1, <2>2 DEF Follows2, Follow
<1>3. CASE w \in {<<">", "&">>, <<"<", "&">>, <<"-", ">">>, <<"$", "(">>, <<"$", "{">>}
  <2>1. "&" \in Second(">") /\ "&" \in Second("<") /\ ">" \in Second("-")
    BY DEF Second
  <2>2. \E c, d : w = <<c, d>> /\ d \in Follow(c) /\ c # "nl" /\ d # "nl"
    BY <1>3, <2>1 DEF Follow
  <2> QED BY <2>2 DEF Follows2
<1>4. CASE w \in {<<c>> : c \in Single \cup Punctuators \cup {".", "$"}}
  <2>1. PICK c \in Single \cup Punctuators \cup {".", "$"} : w = <<c>>
    BY <1>4
  <2>2. c # "nl"
    BY DEF Single, Punctuators
  <2> QED BY <2>1, <2>2 DEF Alone
<1> QED BY <1>1, <1>2, <1>3, <1>4 DEF Table, Triples

\* What may be the second and the third character after c.
Third(c) == CASE c = "$" -> {<<"@", "{">>} [] c = "." -> {<<".", ".">>}
              [] c \in {"<", ">"} -> {<<c, "=">>, <<c, c>>} [] OTHER -> {}
LEMMA TriplesAre ==
  ASSUME NEW w \in Triples
  PROVE  Len(w) = 3 /\ <<w[2], w[3]>> \in Third(w[1])
<1>1. \E c, d, e : w = <<c, d, e>> /\ <<d, e>> \in Third(c)
  BY DEF Triples, Third
<1> QED BY <1>1

\* No punctuator that stands here is longer than n.
AtMost(n) == \A w \in Table : WrittenAt(w, Pos(r)) => Len(w) <= n

LEMMA TableLengths ==
  ASSUME NEW w \in Table
  PROVE  /\ Len(w) \in 1..3
         /\ Len(w) = 3 => w \in Triples
         /\ Len(w) = 2 => Follows2(w)
         /\ w \in Triples => Len(w) = 3
<1>1. CASE w \in Triples
  <2>1. Len(w) = 3
    BY <1>1, TriplesAre
  <2> QED BY <1>1, <2>1
<1>2. CASE w \notin Triples /\ Follows2(w)
  <2>1. w = <<w[1], w[2]>>
    BY <1>2 DEF Follows2
  <2>2. Len(w) = 2
    BY <2>1
  <2> QED BY <1>2, <2>2
<1>3. CASE w \notin Triples /\ Alone(w)
  <2>1. w = <<w[1]>>
    BY <1>3 DEF Alone
  <2>2. Len(w) = 1
    BY <2>1
  <2> QED BY <1>3, <2>2
<1> QED BY <1>1, <1>2, <1>3, TableIs

\* What a and b read, the two cursors after r.
Looks(a, b) ==
  /\ Reading(a) /\ Reading(b) /\ Pos(a) = Pos(r) + 1
  /\ a.c = "end" => Pos(r) = Len(text)
  /\ a.c # "end" => /\ Pos(r) + 1 <= Len(text) /\ a.c = text[Pos(r) + 1] /\ Pos(b) = Pos(r) + 2
                    /\ b.c = "end" => Pos(r) + 1 = Len(text)
                    /\ b.c # "end" => Pos(r) + 2 <= Len(text) /\ b.c = text[Pos(r) + 2]
LEMMA LooksAt ==
  ASSUME Starts, NEW a, a = Advance(r), NEW b, b = Advance(a)
  PROVE  Looks(a, b)
<1>1. TextIs /\ Reading(r) /\ r.c # "end" /\ Pos(r) \in Nat /\ Len(text) \in Nat
  BY StartsAt DEF Starts
<1>2. Reading(a) /\ Pos(a) = Pos(r) + 1
  BY <1>1, AdvanceReads
<1>3. Reading(b) /\ (a.c # "end" => Pos(b) = Pos(a) + 1)
  BY <1>1, <1>2, AdvanceReads
<1>4. /\ a.c = "end" => Pos(a) = Len(text) + 1
      /\ a.c # "end" => a.c = text[Pos(a)] /\ Pos(a) <= Len(text)
  BY <1>1, <1>2, CursorHas
<1>5. /\ b.c = "end" => Pos(b) = Len(text) + 1
      /\ b.c # "end" => b.c = text[Pos(b)] /\ Pos(b) <= Len(text)
  BY <1>1, <1>3, CursorHas
<1> QED BY <1>1, <1>2, <1>3, <1>4, <1>5 DEF Looks

\* What is written at the cursor.
LEMMA Written ==
  ASSUME Starts, NEW a, NEW b, Looks(a, b), NEW w \in Table, WrittenAt(w, Pos(r))
  PROVE  /\ w[1] = r.c
         /\ Len(w) > 1 => w[2] = a.c /\ a.c # "end"
         /\ Len(w) > 2 => w[3] = b.c /\ b.c # "end"
<1>1. PICK i : i = Pos(r)
  OBVIOUS
<1>2. text \in Seq(Characters) /\ i \in 1..Len(text) /\ text[i] = r.c /\ Len(text) \in Nat
  BY <1>1, StartsAt DEF Starts, TextIs
<1>3. PICK n : n = Len(w)
  OBVIOUS
<1>4. n \in 1..3 /\ i + n - 1 <= Len(text) /\ w = SubSeq(text, i, i + n - 1)
  BY <1>1, <1>3, TableLengths DEF WrittenAt, Slice
<1>5. \A k \in 1..n : w[k] = text[i + k - 1]
  BY <1>2, <1>4
<1>6. /\ a.c = "end" => i = Len(text)
      /\ a.c # "end" => /\ a.c = text[i + 1]
                        /\ b.c = "end" => i + 1 = Len(text)
                        /\ b.c # "end" => b.c = text[i + 2]
  BY <1>1 DEF Looks
<1>7. w[1] = r.c
  BY <1>2, <1>4, <1>5
<1>8. ASSUME n > 1 PROVE w[2] = a.c /\ a.c # "end"
  <2>1. w[2] = text[i + 1] /\ i # Len(text)
    BY <1>2, <1>4, <1>5, <1>8
  <2> QED BY <1>6, <2>1
<1>9. ASSUME n > 2 PROVE w[3] = b.c /\ b.c # "end"
  <2>1. w[3] = text[i + 2] /\ i # Len(text) /\ i + 1 # Len(text)
    BY <1>2, <1>4, <1>5, <1>9
  <2> QED BY <1>6, <2>1
<1> QED BY <1>3, <1>7, <1>8, <1>9

\* Three is the most.
LEMMA AtMostOne ==
  ASSUME Starts, NEW a, NEW b, Looks(a, b), a.c \notin Follow(r.c), r.c = "$" => a.c # "@",
         r.c = "." => a.c # ".", r.c \in {"<", ">"} => a.c # r.c
  PROVE  AtMost(1)
<1> SUFFICES ASSUME NEW w \in Table, WrittenAt(w, Pos(r)), Len(w) > 1 PROVE FALSE
  BY TableLengths DEF AtMost
<1>1. w[1] = r.c /\ w[2] = a.c
  BY Written
<1>2. CASE w \in Triples
  BY <1>1, <1>2, TriplesAre DEF Third
<1>3. CASE w \notin Triples
  <2>1. Len(w) = 2
    <3>1. PICK n : n = Len(w)
      OBVIOUS
    <3>2. n \in 1..3 /\ n > 1 /\ n # 3
      BY <1>3, <3>1, TableLengths
    <3>3. n = 2
      BY <3>2
    <3> QED BY <3>1, <3>3
  <2>2. Follows2(w)
    BY <2>1, TableLengths
  <2> QED BY <1>1, <2>2 DEF Follows2
<1> QED BY <1>2, <1>3

LEMMA AtMostTwo ==
  ASSUME Starts, NEW a, NEW b, Looks(a, b), <<a.c, b.c>> \notin Third(r.c)
  PROVE  AtMost(2)
<1> SUFFICES ASSUME NEW w \in Table, WrittenAt(w, Pos(r)), Len(w) > 2 PROVE FALSE
  BY TableLengths DEF AtMost
<1>1. w[1] = r.c /\ w[2] = a.c /\ w[3] = b.c
  BY TableLengths, Written
<1>2. w \in Triples
  <2>1. Len(w) \in 1..3 /\ (Len(w) = 3 => w \in Triples)
    BY TableLengths
  <2>2. PICK n : n = Len(w)
    OBVIOUS
  <2>3. n \in 1..3 /\ n > 2
    BY <2>1, <2>2
  <2>4. n = 3
    BY <2>3
  <2> QED BY <2>1, <2>2, <2>4
<1> QED BY <1>1, <1>2, TriplesAre

LEMMA AtMostThree == AtMost(3)
<1>1. \A w \in Table : Len(w) \in 1..3
  BY TableLengths
<1>2. \A w \in Table : Len(w) <= 3
  <2> TAKE w \in Table
  <2>1. PICK n : n = Len(w)
    OBVIOUS
  <2>2. n \in 1..3
    BY <1>1, <2>1
  <2>3. n <= 3
    BY <2>2
  <2> QED BY <2>1, <2>3
<1> QED BY <1>2 DEF AtMost

\* A punctuator is on one line.
LEMMA TablePlain ==
  /\ \A c : <<c>> \in Table => c # "nl"
  /\ \A c, d : <<c, d>> \in Table => c # "nl" /\ d # "nl"
  /\ \A c, d, e : <<c, d, e>> \in Table => c # "nl" /\ d # "nl" /\ e # "nl"
<1>1. ASSUME NEW w \in Triples PROVE w[1] # "nl" /\ w[2] # "nl" /\ w[3] # "nl" /\ Len(w) = 3
  <2>1. \E c, d, e : w = <<c, d, e>> /\ c # "nl" /\ d # "nl" /\ e # "nl"
    BY DEF Triples
  <2> QED BY <2>1
<1>2. ASSUME NEW c, <<c>> \in Table PROVE c # "nl"
  <2>1. Len(<<c>>) = 1 /\ <<c>>[1] = c
    OBVIOUS
  <2>2. \A d, e : Len(<<d, e>>) = 2
    OBVIOUS
  <2>3. ~Follows2(<<c>>)
    BY <2>1, <2>2 DEF Follows2
  <2>4. <<c>> \notin Triples
    BY <1>1, <2>1
  <2> QED BY <1>2, <2>1, <2>3, <2>4, TableIs DEF Alone
<1>3. ASSUME NEW c, NEW d, <<c, d>> \in Table PROVE c # "nl" /\ d # "nl"
  <2>1. Len(<<c, d>>) = 2 /\ <<c, d>>[1] = c /\ <<c, d>>[2] = d
    OBVIOUS
  <2>2. <<c, d>> \notin Triples
    BY <1>1, <2>1
  <2>3. ~Alone(<<c, d>>)
    BY <2>1 DEF Alone
  <2> QED BY <1>3, <2>1, <2>2, <2>3, TableIs DEF Follows2
<1>4. ASSUME NEW c, NEW d, NEW e, <<c, d, e>> \in Table PROVE c # "nl" /\ d # "nl" /\ e # "nl"
  <2>1. /\ Len(<<c, d, e>>) = 3 /\ <<c, d, e>>[1] = c /\ <<c, d, e>>[2] = d /\ <<c, d, e>>[3] = e
    OBVIOUS
  <2>2. <<c, d, e>> \in Triples
    BY <1>4, <2>1, TableLengths
  <2> QED BY <1>1, <2>1, <2>2
<1> QED BY <1>2, <1>3, <1>4

LEMMA OpLongest ==
  ASSUME NEW t, t.k = "op", NEW v \in Table, t.v = v, t.from = Pos(r), v = Slice(Pos(r), t.to), AtMost(Len(v))
  PROVE  Longest(t)
<1>1. t.v = Slice(t.from, t.to) /\ t.v \in Table /\ \A w \in Table : WrittenAt(w, t.from) => Len(w) <= Len(t.v)
  BY DEF AtMost
<1> QED BY <1>1 DEF Longest

LEMMA SlicesAre ==
  ASSUME TextIs, NEW i \in 1..Len(text)
  PROVE  /\ Slice(i, i) = <<text[i]>>
         /\ i + 1 <= Len(text) => Slice(i, i + 1) = <<text[i], text[i + 1]>>
         /\ i + 2 <= Len(text) => Slice(i, i + 2) = <<text[i], text[i + 1], text[i + 2]>>
<1>1. text \in Seq(Characters) /\ Len(text) \in Nat
  BY DEF TextIs
<1>2. Slice(i, i) = <<text[i]>>
  <2>1. PICK s : s = SubSeq(text, i, i)
    OBVIOUS
  <2>2. s \in Seq(Characters) /\ Len(s) = 1 /\ s[1] = text[i]
    BY <1>1, <2>1
  <2>3. s = <<text[i]>>
    BY <2>2
  <2> QED BY <2>1, <2>3 DEF Slice
<1>3. ASSUME i + 1 <= Len(text) PROVE Slice(i, i + 1) = <<text[i], text[i + 1]>>
  <2>1. PICK s : s = SubSeq(text, i, i + 1)
    OBVIOUS
  <2>2. s \in Seq(Characters) /\ Len(s) = 2 /\ s[1] = text[i] /\ s[2] = text[i + 1]
    BY <1>1, <1>3, <2>1
  <2>3. s = <<text[i], text[i + 1]>>
    BY <2>2
  <2> QED BY <2>1, <2>3 DEF Slice
<1>4. ASSUME i + 2 <= Len(text) PROVE Slice(i, i + 2) = <<text[i], text[i + 1], text[i + 2]>>
  <2>1. PICK s : s = SubSeq(text, i, i + 2)
    OBVIOUS
  <2>2. s \in Seq(Characters) /\ Len(s) = 3 /\ s[1] = text[i] /\ s[2] = text[i + 1] /\ s[3] = text[i + 2]
    BY <1>1, <1>4, <2>1
  <2>3. s = <<text[i], text[i + 1], text[i + 2]>>
    BY <2>2
  <2> QED BY <2>1, <2>3 DEF Slice
<1> QED BY <1>2, <1>3, <1>4

\* A punctuator of one, two or three characters, the longest there is.
Lexeme(x) == Emits(x) /\ Longest(x.t)
LEMMA OneOp ==
  ASSUME Starts, <<r.c>> \in Table, AtMost(1), NEW a, a = Advance(r), NEW x,
         x = GetToken("op", <<r.c>>, a) \/ x = Select("op", <<r.c>>, r)
  PROVE  Lexeme(x)
<1>1. /\ Pos(r) = r.at /\ r.at \in 1..Len(text) /\ Len(text) \in Nat \ {0} /\ text[r.at] = r.c
      /\ text \in Seq(Characters) /\ Reading(r) /\ r.c # "end" /\ r.c \in Told
  BY StartsAt, CursorHas DEF Starts, TextIs
<1>2. Looks(a, Advance(a))
  BY LooksAt
<1>3. Reading(a) /\ Pos(a) = Pos(r) + 1
  BY <1>2 DEF Looks
<1>4. r.c # "nl"
  BY TablePlain
<1>5. Plain(Pos(r), Pos(r)) /\ Plain(Pos(r), Pos(a))
  <2>1. Plain(Pos(r), Pos(r)) /\ Pos(r) \in Nat
    BY <1>1 DEF Plain
  <2>2. text[Pos(r)] # "nl"
    BY <1>1, <1>4
  <2> QED BY <1>3, <2>1, <2>2, PlainGoesOn
<1>13. PICK v, op : v = <<r.c>> /\ op = "op"
  OBVIOUS
<1>6. op \in Kinds /\ ~Inside(op)
  BY <1>13 DEF Kinds, Inside
<1>7. v \in Seq(Told)
  BY <1>1, <1>13
<1>8. Emits(x) /\ x.t.k = op /\ x.t.v = v /\ Pos(x.p) = Pos(r) + 1
  <2>1. CASE x = GetToken(op, v, a)
    <3>1. Pos(r) < Pos(a)
      BY <1>1, <1>3
    <3> QED BY <1>3, <1>5, <1>6, <1>7, <2>1, <3>1, GetTokenIs
  <2>2. CASE x = Select(op, v, r)
    <3>1. Pos(r) <= Pos(r)
      BY <1>1
    <3>2. Selectable(op, r)
      BY <1>1, <1>5, <1>6 DEF Selectable
    <3>3. Emits(x) /\ x.p = a /\ x.t.k = op /\ x.t.v = v
      BY <1>1, <1>6, <1>7, <2>2, <3>1, <3>2, SelectIs
    <3> QED BY <1>3, <3>3
  <2> QED BY <1>13, <2>1, <2>2
<1>9. x.t.to \in Nat /\ Pos(x.p) = x.t.to + 1 /\ x.t.from = Pos(r)
  BY <1>1, <1>8 DEF Emits, Tokens
<1>10. x.t.to = Pos(r)
  BY <1>1, <1>8, <1>9
<1>11. v = Slice(Pos(r), Pos(r))
  BY <1>1, <1>13, SlicesAre DEF Starts
<1>12. Len(v) = 1 /\ v \in Table
  BY <1>13
<1> QED BY <1>8, <1>9, <1>10, <1>11, <1>12, <1>13, OpLongest DEF Lexeme

LEMMA TwoOp ==
  ASSUME Starts, NEW a, a = Advance(r), NEW b, b = Advance(a), a.c # "end", <<r.c, a.c>> \in Table, AtMost(2),
         NEW x, x = GetToken("op", <<r.c, a.c>>, b) \/ x = Select("op", <<r.c, a.c>>, a)
  PROVE  Lexeme(x)
<1>1. /\ Pos(r) = r.at /\ r.at \in 1..Len(text) /\ Len(text) \in Nat \ {0} /\ text[r.at] = r.c
      /\ text \in Seq(Characters) /\ Reading(r) /\ r.c # "end" /\ r.c \in Told
  BY StartsAt, CursorHas DEF Starts, TextIs
<1>2. Looks(a, b)
  BY LooksAt
<1>3. /\ Reading(a) /\ Pos(a) = Pos(r) + 1 /\ Reading(b) /\ Pos(b) = Pos(a) + 1
      /\ a.c = text[Pos(r) + 1] /\ Pos(r) + 1 <= Len(text)
  BY <1>1, <1>2 DEF Looks
<1>4. r.c # "nl" /\ a.c # "nl"
  BY TablePlain
<1>5. Plain(Pos(r), Pos(a)) /\ Plain(Pos(r), Pos(b))
  <2>1. Plain(Pos(r), Pos(r)) /\ Pos(r) \in Nat /\ Pos(a) \in Nat
    BY <1>1, <1>3 DEF Plain
  <2>2. text[Pos(r)] # "nl" /\ text[Pos(a)] # "nl"
    BY <1>1, <1>3, <1>4
  <2>3. Plain(Pos(r), Pos(a))
    BY <1>3, <2>1, <2>2, PlainGoesOn
  <2> QED BY <1>3, <2>1, <2>2, <2>3, PlainGoesOn
<1>13. PICK v, op : v = <<r.c, a.c>> /\ op = "op"
  OBVIOUS
<1>6. op \in Kinds /\ ~Inside(op)
  BY <1>13 DEF Kinds, Inside
<1>7. v \in Seq(Told)
  <2>1. a.c \in Told
    BY <1>3, CursorHas DEF Starts
  <2> QED BY <1>1, <1>13, <2>1
<1>8. Emits(x) /\ x.t.k = op /\ x.t.v = v /\ Pos(x.p) = Pos(r) + 2
  <2>1. CASE x = GetToken(op, v, b)
    <3>1. Pos(r) < Pos(b) /\ Pos(b) = Pos(r) + 2
      BY <1>1, <1>3
    <3> QED BY <1>3, <1>5, <1>6, <1>7, <2>1, <3>1, GetTokenIs
  <2>2. CASE x = Select(op, v, a)
    <3>1. Pos(r) <= Pos(a) /\ Pos(b) = Pos(r) + 2
      BY <1>1, <1>3
    <3>2. Selectable(op, a)
      BY <1>5, <1>6 DEF Selectable
    <3>3. Emits(x) /\ x.p = b /\ x.t.k = op /\ x.t.v = v
      BY <1>3, <1>6, <1>7, <2>2, <3>1, <3>2, SelectIs
    <3> QED BY <3>1, <3>3
  <2> QED BY <1>13, <2>1, <2>2
<1>9. x.t.to \in Nat /\ Pos(x.p) = x.t.to + 1 /\ x.t.from = Pos(r)
  BY <1>1, <1>8 DEF Emits, Tokens
<1>10. x.t.to = Pos(r) + 1
  BY <1>1, <1>8, <1>9
<1>11. v = Slice(Pos(r), Pos(r) + 1)
  BY <1>1, <1>3, <1>13, SlicesAre DEF Starts
<1>12. Len(v) = 2 /\ v \in Table
  BY <1>13
<1> QED BY <1>8, <1>9, <1>10, <1>11, <1>12, <1>13, OpLongest DEF Lexeme

LEMMA ThreeOp ==
  ASSUME Starts, NEW a, a = Advance(r), NEW b, b = Advance(a), a.c # "end", b.c # "end",
         <<r.c, a.c, b.c>> \in Table, NEW x, x = Select("op", <<r.c, a.c, b.c>>, b)
  PROVE  Lexeme(x)
<1>1. /\ Pos(r) = r.at /\ r.at \in 1..Len(text) /\ Len(text) \in Nat \ {0} /\ text[r.at] = r.c
      /\ text \in Seq(Characters) /\ Reading(r) /\ r.c # "end" /\ r.c \in Told
  BY StartsAt, CursorHas DEF Starts, TextIs
<1>2. Looks(a, b)
  BY LooksAt
<1>3. /\ Reading(a) /\ Pos(a) = Pos(r) + 1 /\ Reading(b) /\ Pos(b) = Pos(a) + 1
      /\ a.c = text[Pos(r) + 1] /\ Pos(r) + 1 <= Len(text) /\ b.c = text[Pos(r) + 2] /\ Pos(r) + 2 <= Len(text)
  BY <1>1, <1>2 DEF Looks
<1>4. r.c # "nl" /\ a.c # "nl" /\ b.c # "nl"
  BY TablePlain
<1>5. Plain(Pos(r), Pos(b))
  <2>1. Plain(Pos(r), Pos(r)) /\ Pos(r) \in Nat /\ Pos(a) \in Nat
    BY <1>1, <1>3 DEF Plain
  <2>2. text[Pos(r)] # "nl" /\ text[Pos(a)] # "nl"
    BY <1>1, <1>3, <1>4
  <2>3. Plain(Pos(r), Pos(a))
    BY <1>3, <2>1, <2>2, PlainGoesOn
  <2> QED BY <1>3, <2>1, <2>2, <2>3, PlainGoesOn
<1>13. PICK v, op : v = <<r.c, a.c, b.c>> /\ op = "op"
  OBVIOUS
<1>6. op \in Kinds /\ ~Inside(op)
  BY <1>13 DEF Kinds, Inside
<1>7. v \in Seq(Told)
  <2>1. a.c \in Told /\ b.c \in Told
    BY <1>3, CursorHas DEF Starts
  <2> QED BY <1>1, <1>13, <2>1
<1>8. Emits(x) /\ x.t.k = op /\ x.t.v = v /\ Pos(x.p) = Pos(r) + 3
  <2>1. Pos(r) <= Pos(b) /\ Pos(b) = Pos(r) + 2
    BY <1>1, <1>3
  <2>2. Selectable(op, b)
    BY <1>5, <1>6 DEF Selectable
  <2>3. Emits(x) /\ x.p = Advance(b) /\ x.t.k = op /\ x.t.v = v
    <3>1. x = Select(op, v, b)
      BY <1>13
    <3> QED BY <1>3, <1>6, <1>7, <2>1, <2>2, <3>1, SelectIs
  <2>4. Pos(Advance(b)) = Pos(b) + 1
    BY <1>3, AdvanceReads DEF Starts
  <2> QED BY <1>1, <2>1, <2>3, <2>4
<1>9. x.t.to \in Nat /\ Pos(x.p) = x.t.to + 1 /\ x.t.from = Pos(r)
  BY <1>1, <1>8 DEF Emits, Tokens
<1>10. x.t.to = Pos(r) + 2
  BY <1>1, <1>8, <1>9
<1>11. v = Slice(Pos(r), Pos(r) + 2)
  BY <1>1, <1>3, <1>13, SlicesAre DEF Starts
<1>12. Len(v) = 3 /\ v \in Table
  BY <1>13
<1> QED BY <1>8, <1>9, <1>10, <1>11, <1>12, <1>13, OpLongest, AtMostThree DEF Lexeme

-----------------------------------------------------------------------------
(* What each case of the scanner reads is the longest token there is       *)

LEMMA SecondIn ==
  ASSUME NEW c \in Punctuators
  PROVE  /\ <<c>> \in Table /\ \A d \in Second(c) : <<c, d>> \in Table /\ d # "end"
         /\ c \in {"<", ">"} => <<c, c, "=">> \in Table /\ <<c, c, c>> \in Table
<1>1. <<c>> \in Table
  BY DEF Table
<1>2. ASSUME NEW d \in Second(c) PROVE <<c, d>> \in Table /\ d # "end"
  <2>1. CASE d = "=" /\ c \in {"|", "^", "&", "+", "-", "*", "/", "%", "=", "!", "<", ">"}
    BY <2>1 DEF Table
  <2>2. CASE d = c /\ c \in {":", "|", "&", "<", ">", "*", "%"}
    BY <2>2 DEF Table
  <2>3. CASE <<c, d>> \in {<<">", "&">>, <<"<", "&">>, <<"-", ">">>}
    <3>1. <<c, d>> \in Table
      BY <2>3 DEF Table
    <3>2. d \in {"&", ">"}
      BY <2>3
    <3> QED BY <3>1, <3>2
  <2> QED BY <2>1, <2>2, <2>3 DEF Second, Punctuators
<1>3. ASSUME c \in {"<", ">"} PROVE <<c, c, "=">> \in Table /\ <<c, c, c>> \in Table
  BY <1>3 DEF Table
<1> QED BY <1>1, <1>2, <1>3

LEMMA PunctuatorLexeme ==
  ASSUME Starts, r.c \in Punctuators
  PROVE  Lexeme(ScanPunctuator(r))
<1>1. PICK c : c = r.c
  OBVIOUS
<1>2. PICK a : a = Advance(r)
  OBVIOUS
<1>3. PICK b : b = Advance(a)
  OBVIOUS
<1>4. Looks(a, b)
  BY <1>2, <1>3, LooksAt
<1>5. PICK x : x = ScanPunctuator(r)
  OBVIOUS
<1>6. c \in Punctuators /\ c \notin {"$", "."}
  BY <1>1 DEF Punctuators
<1>7. CASE a.c \notin Second(c)
  <2>1. x = GetToken("op", <<r.c>>, a)
    BY <1>1, <1>2, <1>5, <1>7 DEF ScanPunctuator
  <2>2. c \in {"<", ">"} => c \in Second(c)
    BY DEF Second
  <2>3. a.c \notin Follow(r.c) /\ r.c \notin {"$", "."} /\ (r.c \in {"<", ">"} => a.c # r.c)
    BY <1>1, <1>6, <1>7, <2>2 DEF Follow
  <2>4. AtMost(1)
    BY <1>4, <2>3, AtMostOne
  <2>5. <<r.c>> \in Table
    BY <1>1, <1>6, SecondIn
  <2> QED BY <1>2, <1>5, <2>1, <2>4, <2>5, OneOp
<1>8. CASE a.c \in Second(c)
  <2>1. <<r.c, a.c>> \in Table /\ a.c # "end"
    BY <1>1, <1>6, <1>8, SecondIn
  <2>2. CASE c \notin {"<", ">"} \/ a.c # c
    <3>1. x = Select("op", <<r.c, a.c>>, a)
      BY <1>1, <1>2, <1>5, <1>8, <2>2 DEF ScanPunctuator
    <3>2. <<a.c, b.c>> \notin Third(r.c)
      BY <1>1, <1>6, <2>2 DEF Third
    <3>3. AtMost(2)
      BY <1>4, <3>2, AtMostTwo
    <3> QED BY <1>2, <1>3, <1>5, <2>1, <3>1, <3>3, TwoOp
  <2>3. CASE c \in {"<", ">"} /\ a.c = c /\ b.c \in {"=", c}
    <3>1. x = Select("op", <<r.c, a.c, b.c>>, b)
      BY <1>1, <1>2, <1>3, <1>5, <1>8, <2>3 DEF ScanPunctuator
    <3>2. <<r.c, a.c, b.c>> \in Table
      BY <1>1, <1>6, <2>3, SecondIn
    <3>3. b.c # "end"
      BY <2>3
    <3> QED BY <1>2, <1>3, <1>5, <2>1, <3>1, <3>2, <3>3, ThreeOp
  <2>4. CASE c \in {"<", ">"} /\ a.c = c /\ b.c \notin {"=", c}
    <3>1. x = GetToken("op", <<r.c, a.c>>, b)
      BY <1>1, <1>2, <1>3, <1>5, <1>8, <2>4 DEF ScanPunctuator
    <3>2. <<a.c, b.c>> \notin Third(r.c)
      BY <1>1, <1>6, <2>4 DEF Third
    <3>3. AtMost(2)
      BY <1>4, <3>2, AtMostTwo
    <3> QED BY <1>2, <1>3, <1>5, <2>1, <3>1, <3>3, TwoOp
  <2> QED BY <2>2, <2>3, <2>4
<1> QED BY <1>7, <1>8

LEMMA SingleLexeme ==
  ASSUME Starts, r.c \in Single
  PROVE  Lexeme(Select("op", <<r.c>>, r))
<1>1. PICK a : a = Advance(r)
  OBVIOUS
<1>2. Looks(a, Advance(a))
  BY <1>1, LooksAt
<1>3. Second(r.c) = {} /\ r.c \notin {"$", ".", "<", ">"}
  BY DEF Second, Single
<1>4. AtMost(1)
  BY <1>2, <1>3, AtMostOne DEF Follow
<1>5. <<r.c>> \in Table
  BY DEF Table
<1> QED BY <1>1, <1>4, <1>5, OneOp

LEMMA NewLineLexeme ==
  ASSUME Starts, r.c = "nl"
  PROVE  Lexeme(Select("nl", <<>>, r))
<1>1. PICK x, k, v : x = Select(k, v, r) /\ k = "nl" /\ v = <<>> /\ x = Select("nl", <<>>, r)
  OBVIOUS
<1>2. Reading(r) /\ Pos(r) = r.at /\ r.at \in Nat /\ text[r.at] = r.c
  BY StartsAt DEF Starts
<1>3. k \in Kinds /\ ~Inside(k) /\ v \in Seq(Told)
  BY <1>1 DEF Kinds, Inside
<1>4. Selectable(k, r) /\ Pos(r) <= Pos(r)
  BY <1>2, <1>3 DEF Selectable, Plain, Starts
<1>5. Emits(x) /\ x.t.k = k
  <2>1. x = Select(k, v, r)
    BY <1>1
  <2> QED BY <1>2, <1>3, <1>4, <2>1, SelectIs
<1>6. x.t.from = Pos(r)
  BY <1>5 DEF Emits
<1>7. Longest(x.t)
  BY <1>1, <1>2, <1>5, <1>6 DEF Longest
<1> QED BY <1>1, <1>5, <1>7 DEF Lexeme

\* A name begins at the cursor, or behind the $ there.
LEMMA IdentifierLexeme ==
  ASSUME Starts, NEW varenv \in BOOLEAN, NEW p, Reading(p), p.c \in IdentifierStart,
         IF varenv THEN r.c = "$" /\ Pos(p) = Pos(r) + 1 ELSE p = r,
         NEW x, x = ScanIdentifier(p, varenv)
  PROVE  Lexeme(x)
<1>1. PICK chars : chars = Identifiers
  OBVIOUS
<1>2. PICK id : id = While(chars, p)
  OBVIOUS
<1>3. PICK kind : kind = CASE varenv -> "varenvid"
                           [] ~varenv /\ id.v \in KeyWords -> "keyword"
                           [] OTHER -> "id"
  OBVIOUS
<1>4. x = GetToken(kind, id.v, id.p)
  BY <1>1, <1>2, <1>3 DEF ScanIdentifier
<1>5. "end" \notin chars /\ "nl" \notin chars /\ p.c \in chars /\ p.c # "$" /\ p.c # "nl"
  BY <1>1 DEF Identifiers, IdentifierStart, Letter, Digit, OctalChar
<1>6. Took(chars, p, id) /\ id.p.c \notin chars
  BY <1>2, <1>5, WhileReads DEF Starts
<1>7. Reading(id.p) /\ id.v \in Seq(Told) /\ Pos(p) <= Pos(id.p) /\ id.v = From(Pos(p), Pos(id.p))
  BY <1>6 DEF Took, Scan
<1>8. /\ Pos(r) = r.at /\ r.at \in 1..Len(text) /\ Len(text) \in Nat \ {0} /\ text[r.at] = r.c
      /\ Pos(p) \in Nat /\ Pos(id.p) \in Nat
  <2>1. Len(text) \in Nat \ {0}
    BY TextHas DEF Starts
  <2>2. Pos(p) \in 1..Len(text)+1 /\ Pos(id.p) \in 1..Len(text)+1
    BY <1>7, CursorHas DEF Starts
  <2> QED BY <2>1, <2>2, StartsAt
<1>9. Pos(p) < Pos(id.p)
  <2>1. Pos(p) # Pos(id.p)
    BY <1>5, <1>6, <1>7, SamePos DEF Starts
  <2> QED BY <1>7, <1>8, <2>1
<1>10. Pos(r) < Pos(id.p) /\ Plain(Pos(r), Pos(id.p))
  <2>1. CASE varenv
    <3>1. r.c = "$" /\ Pos(p) = Pos(r) + 1
      BY <2>1
    <3>2. \A k \in Pos(r)..Pos(id.p)-1 : k = Pos(r) \/ k \in Pos(p)..Pos(id.p)-1
      BY <1>8, <3>1
    <3>3. \A k \in Pos(p)..Pos(id.p)-1 : text[k] # "nl"
      BY <1>5, <1>6 DEF Took
    <3>4. text[Pos(r)] # "nl"
      BY <1>8, <3>1
    <3>5. Pos(r) < Pos(id.p)
      BY <1>8, <1>9, <3>1
    <3> QED BY <3>2, <3>3, <3>4, <3>5 DEF Plain
  <2>2. CASE ~varenv
    BY <1>5, <1>6, <1>9, <2>2 DEF Took, Plain
  <2> QED BY <2>1, <2>2
<1>11. kind \in {"varenvid", "keyword", "id"} /\ kind \in Kinds
  BY <1>3 DEF Kinds
<1>12. Emits(x) /\ x.p = id.p /\ x.t.k = kind /\ x.t.v = id.v
  BY <1>4, <1>7, <1>10, <1>11, GetTokenIs
<1>13. Past(x.t) = id.p.c /\ x.t.from = Pos(r) /\ Pos(id.p) = x.t.to + 1 /\ x.t.to \in Nat
  <2>1. x.t.to \in Nat
    BY <1>8, <1>12 DEF Emits, Tokens
  <2> QED BY <1>12, <2>1, PastIs DEF Emits, Starts
<1>14. id.v = Slice(IF varenv THEN x.t.from + 1 ELSE x.t.from, x.t.to)
  <2>1. Pos(p) = IF varenv THEN Pos(r) + 1 ELSE Pos(r)
    OBVIOUS
  <2>2. Pos(id.p) - 1 = x.t.to
    BY <1>13
  <2> QED BY <1>7, <1>13, <2>1, <2>2 DEF From, Slice
<1>15. text[x.t.from] = "$" <=> varenv
  BY <1>5, <1>8, <1>13
<1>16. Past(x.t) \notin Identifiers
  BY <1>1, <1>6, <1>13
<1>17. /\ kind = "varenvid" <=> varenv
       /\ kind = "keyword" <=> ~varenv /\ id.v \in KeyWords
  BY <1>3
<1>18. Longest(x.t)
  BY <1>11, <1>12, <1>14, <1>15, <1>16, <1>17 DEF Longest, Past
<1> QED BY <1>12, <1>18 DEF Lexeme

\* A word that goes on from the cursor p.
LEMMA WordLexeme ==
  ASSUME Starts, NEW p, Reading(p), NEW seen \in Seq(Told), NEW x, x = ScanWord(p, seen),
         Pos(r) < Pos(p) \/ (p = r /\ SpecialChar(r.c))
  PROVE  Lexeme(x)
<1>1. PICK y : y = WordLoop(p, seen)
  OBVIOUS
<1>2. Scan(y, p) /\ ~SpecialChar(y.p.c)
  BY <1>1, WordReads DEF Starts
<1>3. PICK kind : kind = "word"
  OBVIOUS
<1>4. x = GetToken(kind, y.v, y.p)
  BY <1>1, <1>3 DEF ScanWord, WordLoop
<1>5. Reading(y.p) /\ y.v \in Seq(Told) /\ Pos(p) <= Pos(y.p)
  BY <1>2 DEF Scan
<1>6. Pos(r) \in Nat /\ Pos(p) \in Nat /\ Pos(y.p) \in Nat
  <2>1. Len(text) \in Nat /\ Pos(r) \in Nat
    BY StartsAt
  <2> QED BY <1>5, <2>1, CursorHas DEF Starts
<1>7. Pos(r) < Pos(y.p)
  <2>1. CASE Pos(r) < Pos(p)
    BY <1>5, <1>6, <2>1
  <2>2. CASE p = r /\ SpecialChar(r.c)
    <3>1. Pos(p) # Pos(y.p)
      BY <1>2, <1>5, <2>2, SamePos DEF Starts
    <3> QED BY <1>5, <1>6, <2>2, <3>1
  <2> QED BY <2>1, <2>2
<1>8. kind \in Kinds /\ Inside(kind)
  BY <1>3 DEF Kinds, Inside
<1>9. Emits(x) /\ x.p = y.p /\ x.t.k = kind
  BY <1>4, <1>5, <1>7, <1>8, GetTokenIs
<1>10. Past(x.t) = y.p.c
  BY <1>9, PastIs DEF Starts
<1>11. Longest(x.t)
  BY <1>2, <1>3, <1>9, <1>10 DEF Longest, Past
<1> QED BY <1>9, <1>11 DEF Lexeme

LEMMA NumberLexeme ==
  ASSUME Starts, r.c \in Digit
  PROVE  Lexeme(ScanNumber(r))
<1>1. PICK y, q : y = NumberLoop(q) /\ q = r
  OBVIOUS
<1>2. PICK x : x = ScanNumber(r)
  OBVIOUS
<1>3. x = IF y.p.c = "." THEN ScanWord(y.p, y.v)
          ELSE GetToken(IF Pointed(y.v) THEN "real" ELSE "int", Canonical(y.v), y.p)
  BY <1>1, <1>2 DEF ScanNumber, NumberLoop
<1>4. /\ Scan(y, q) /\ Numeral(y, q) /\ y.p.c \notin Digit
      /\ Reading(q) /\ q.c \in Digit
  <2>1. Reading(q) /\ q.c \in Digit
    BY <1>1 DEF Starts
  <2> QED BY <1>1, <2>1, NumberReads DEF Starts
<1>5. Reading(y.p) /\ y.v \in Seq(Told) /\ Pos(q) <= Pos(y.p)
  BY <1>4 DEF Scan
<1>6. Pos(q) < Pos(y.p) /\ Pos(q) = Pos(r)
  <2>1. Len(text) \in Nat /\ Pos(q) \in Nat
    BY <1>1, StartsAt
  <2>2. Pos(y.p) \in Nat
    BY <1>5, <2>1, CursorHas DEF Starts
  <2>3. Pos(q) # Pos(y.p)
    BY <1>4, <1>5, SamePos DEF Starts
  <2> QED BY <1>1, <1>5, <2>1, <2>2, <2>3
<1>7. CASE y.p.c = "."
  <2>1. x = ScanWord(y.p, y.v)
    BY <1>3, <1>7
  <2>2. Pos(r) < Pos(y.p)
    BY <1>6
  <2> QED BY <1>2, <1>5, <2>1, <2>2, WordLexeme
<1>8. CASE y.p.c # "."
  <2>1. PICK kind : kind = IF Pointed(y.v) THEN "real" ELSE "int"
    OBVIOUS
  <2>2. PICK v : v = Canonical(y.v)
    OBVIOUS
  <2>3. x = GetToken(kind, v, y.p)
    BY <1>3, <1>8, <2>1, <2>2
  <2>4. y.v # <<>> /\ y.v[1] \in Digit /\ Plain(Pos(r), Pos(y.p))
    BY <1>1, <1>4 DEF Numeral
  <2>5. v \in Seq(Told)
    BY <1>5, <2>2, <2>4, CanonicalIn
  <2>6. kind \in {"int", "real"} /\ kind \in Kinds
    BY <2>1 DEF Kinds
  <2>7. Pos(r) < Pos(y.p)
    BY <1>6
  <2>8. Emits(x) /\ x.p = y.p /\ x.t.k = kind
    BY <1>5, <2>3, <2>4, <2>5, <2>6, <2>7, GetTokenIs
  <2>9. Past(x.t) = y.p.c
    BY <2>8, PastIs DEF Starts
  <2>10. Longest(x.t)
    BY <1>4, <1>8, <2>6, <2>8, <2>9 DEF Longest, Past
  <2> QED BY <1>2, <2>8, <2>10 DEF Lexeme
<1> QED BY <1>7, <1>8

LEMMA StringLexeme ==
  ASSUME Starts, r.c \in Quotes
  PROVE  Lexeme(ScanString(r))
<1>1. PICK c, a : c = r.c /\ a = Advance(r)
  OBVIOUS
<1>2. PICK y : y = StringLoop(c, a)
  OBVIOUS
<1>3. PICK x : x = ScanString(r)
  OBVIOUS
<1>4. PICK kind : kind = "str"
  OBVIOUS
<1>5. x = GetToken(kind, y.v, IF y.p.c = "end" THEN y.p ELSE Advance(y.p))
  <2>1. PICK z : z = StringLoop(r.c, Advance(r))
    OBVIOUS
  <2>2. x = GetToken("str", z.v, IF z.p.c = "end" THEN z.p ELSE Advance(z.p))
    BY <1>3, <2>1 DEF ScanString, StringLoop
  <2>3. z = y
    BY <1>1, <1>2, <2>1
  <2> QED BY <1>4, <2>2, <2>3
<1>6. Looks(a, Advance(a))
  BY <1>1, LooksAt
<1>7. Reading(a) /\ Pos(a) = Pos(r) + 1 /\ c \in Quotes
  BY <1>1, <1>6 DEF Looks
<1>8. Scan(y, a) /\ Quoting(c, Pos(a), Pos(y.p)) /\ y.p.c \in {"end", c}
  BY <1>2, <1>7, StringReads DEF Starts
<1>9. Reading(y.p) /\ y.v \in Seq(Told) /\ Pos(a) <= Pos(y.p)
  BY <1>8 DEF Scan
<1>10. /\ Pos(r) = r.at /\ text[r.at] = c /\ Len(text) \in Nat /\ Pos(r) \in Nat /\ Pos(a) \in Nat
       /\ Pos(y.p) \in Nat
  <2>1. Pos(r) = r.at /\ text[r.at] = r.c /\ Len(text) \in Nat /\ Pos(r) \in Nat
    BY StartsAt
  <2>2. Pos(y.p) \in Nat
    BY <1>9, <2>1, CursorHas DEF Starts
  <2> QED BY <1>1, <1>7, <2>1, <2>2
<1>11. PICK p : p = IF y.p.c = "end" THEN y.p ELSE Advance(y.p)
  OBVIOUS
<1>12. Reading(p) /\ Pos(p) \in {Pos(y.p), Pos(y.p) + 1}
  BY <1>9, <1>11, AdvanceReads DEF Starts
<1>13. kind \in Kinds /\ Inside(kind)
  BY <1>4 DEF Kinds, Inside
<1>14. Pos(r) < Pos(p)
  BY <1>7, <1>9, <1>10, <1>12
<1>15. Emits(x) /\ x.p = p /\ x.t.k = kind
  <2>1. x = GetToken(kind, y.v, p)
    BY <1>5, <1>11
  <2> QED BY <1>9, <1>12, <1>13, <1>14, <2>1, GetTokenIs
<1>16. x.t.from = Pos(r) /\ x.t.to + 1 = Pos(p) /\ x.t.to \in Nat
  BY <1>10, <1>15 DEF Emits, Tokens
<1>17. \A i \in x.t.from+1..x.t.to-1 : text[i] = c => text[i - 1] = "\\"
  <2> TAKE i \in x.t.from+1..x.t.to-1
  <2>1. i \in Pos(a)..Pos(y.p)-1
    BY <1>7, <1>10, <1>12, <1>16
  <2> QED BY <1>8, <2>1 DEF Quoting
<1>18. text[x.t.from] = c
  BY <1>10, <1>16
<1>19. Longest(x.t)
  BY <1>4, <1>15, <1>17, <1>18 DEF Longest
<1> QED BY <1>3, <1>15, <1>19 DEF Lexeme

LEMMA EscapeLexeme ==
  ASSUME Starts, r.c = "\\", PeekAhead(r) # "nl", NEW e, e = ScanWordEscape(r)
  PROVE  Lexeme(Select("word", <<e.v>>, e.p))
<1>1. PICK a : a = Advance(r)
  OBVIOUS
<1>2. /\ e.p = a
      /\ e.v = CASE a.c = "n" -> "nl" [] a.c \in {"b", "f", "r", "t"} -> "control" [] OTHER -> a.c
  BY <1>1 DEF ScanWordEscape
<1>3. PICK x, kind, v : x = Select(kind, v, a) /\ kind = "word" /\ v = <<e.v>> /\ x = Select("word", <<e.v>>, e.p)
  BY <1>2
<1>4. Looks(a, Advance(a))
  BY <1>1, LooksAt
<1>5. /\ Reading(a) /\ Pos(a) = Pos(r) + 1
      /\ a.c # "end" => a.c = text[Pos(r) + 1] /\ Pos(r) + 1 <= Len(text)
  BY <1>4 DEF Looks
<1>6. Pos(r) = r.at /\ text[r.at] = r.c /\ Len(text) \in Nat /\ Pos(r) \in Nat
  BY StartsAt
<1>7. a.c # "nl"
  <2>1. CASE a.c = "end"
    BY <2>1
  <2>2. CASE a.c # "end"
    <3>1. r.at # Len(text) /\ a.c = text[r.at + 1]
      BY <1>5, <1>6, <2>2
    <3> QED BY <3>1 DEF PeekAhead
  <2> QED BY <2>1, <2>2
<1>8. v \in Seq(Told)
  <2>1. a.c \in Told
    BY <1>5, CursorHas DEF Starts
  <2>2. "nl" \in Told /\ "control" \in Told
    BY DEF Told
  <2>3. e.v \in Told
    BY <1>2, <2>1, <2>2
  <2> QED BY <1>3, <2>3
<1>9. kind \in Kinds /\ Inside(kind)
  BY <1>3 DEF Kinds, Inside
<1>10. Selectable(kind, a) /\ Pos(r) <= Pos(a)
  BY <1>5, <1>6, <1>7, <1>9 DEF Selectable
<1>11. Emits(x) /\ x.t.k = kind
  <2>1. x = Select(kind, v, a)
    BY <1>3
  <2> QED BY <1>5, <1>8, <1>9, <1>10, <2>1, SelectIs
<1>12. text[x.t.from] = "\\"
  BY <1>6, <1>11 DEF Emits
<1>13. Longest(x.t)
  BY <1>3, <1>11, <1>12 DEF Longest
<1> QED BY <1>3, <1>11, <1>13 DEF Lexeme

LEMMA DollarLexeme ==
  ASSUME Starts, r.c = "$"
  PROVE  Lexeme(ScanDollar(r))
<1>1. PICK a : a = Advance(r)
  OBVIOUS
<1>2. PICK b : b = Advance(a)
  OBVIOUS
<1>3. Looks(a, b)
  BY <1>1, <1>2, LooksAt
<1>4. PICK x : x = ScanDollar(r)
  OBVIOUS
<1>5. /\ Reading(a) /\ Reading(b) /\ Pos(a) = Pos(r) + 1 /\ Pos(r) \in Nat
      /\ a.c # "end" => Pos(b) = Pos(r) + 2
  BY <1>3, StartsAt DEF Looks
<1>11. a.c \in {"(", "{", "@"} => a.c \notin IdentifierStart /\ a.c # "end"
  BY DEF IdentifierStart, Letter
<1>6. CASE a.c \in {"(", "{"}
  <2>1. x = Select("op", <<r.c, a.c>>, a)
    BY <1>1, <1>4, <1>6, <1>11 DEF ScanDollar
  <2>2. <<r.c, a.c>> \in Table /\ a.c # "end"
    BY <1>6 DEF Table
  <2>3. <<a.c, b.c>> \notin Third(r.c)
    BY <1>6 DEF Third
  <2>4. AtMost(2)
    BY <1>3, <2>3, AtMostTwo
  <2> QED BY <1>1, <1>2, <1>4, <2>1, <2>2, <2>4, TwoOp
<1>7. CASE a.c = "@" /\ b.c = "{"
  <2>1. x = Select("op", <<r.c, a.c, b.c>>, b)
    BY <1>1, <1>2, <1>4, <1>7, <1>11 DEF ScanDollar
  <2>2. <<r.c, a.c, b.c>> \in Table /\ a.c # "end" /\ b.c # "end"
    BY <1>7 DEF Table
  <2> QED BY <1>1, <1>2, <1>4, <2>1, <2>2, ThreeOp
<1>8. CASE a.c = "@" /\ b.c # "{"
  <2>1. PICK seen : seen = <<"$", "@">>
    OBVIOUS
  <2>2. x = ScanWord(b, seen)
    BY <1>1, <1>2, <1>4, <1>8, <1>11, <2>1 DEF ScanDollar
  <2>3. seen \in Seq(Told)
    <3>1. "$" \in Told /\ "@" \in Told
      BY DEF Told
    <3> QED BY <2>1, <3>1
  <2>4. Pos(r) < Pos(b)
    <3>1. a.c # "end"
      BY <1>8
    <3>2. Pos(b) = Pos(r) + 2
      BY <1>5, <3>1
    <3> QED BY <1>5, <3>2
  <2> QED BY <1>4, <1>5, <2>2, <2>3, <2>4, WordLexeme
<1>9. CASE a.c \in IdentifierStart
  <2>1. x = ScanIdentifier(a, TRUE)
    BY <1>1, <1>4, <1>9 DEF ScanDollar, IdentifierStart, Letter
  <2>2. PICK varenv : varenv = TRUE /\ x = ScanIdentifier(a, varenv)
    BY <2>1
  <2>3. varenv \in BOOLEAN /\ IF varenv THEN r.c = "$" /\ Pos(a) = Pos(r) + 1 ELSE a = r
    BY <1>5, <2>2
  <2> QED BY <1>4, <1>5, <1>9, <2>2, <2>3, IdentifierLexeme
<1>10. CASE a.c \notin {"(", "{", "@"} \cup IdentifierStart
  <2>1. x = GetToken("op", <<r.c>>, a)
    BY <1>1, <1>4, <1>10 DEF ScanDollar
  <2>2. a.c \notin Follow(r.c)
    BY <1>10 DEF Follow
  <2>3. r.c \notin {".", "<", ">"} /\ a.c # "@"
    BY <1>10
  <2>4. AtMost(1)
    BY <1>3, <2>2, <2>3, AtMostOne
  <2>5. <<r.c>> \in Table
    BY DEF Table
  <2> QED BY <1>1, <1>4, <2>1, <2>4, <2>5, OneOp
<1> QED BY <1>6, <1>7, <1>8, <1>9, <1>10

LEMMA DotsLexeme ==
  ASSUME Starts, r.c = "."
  PROVE  Lexeme(ScanDots(r))
<1>1. PICK a : a = Advance(r)
  OBVIOUS
<1>2. PICK b : b = Advance(a)
  OBVIOUS
<1>3. Looks(a, b)
  BY <1>1, <1>2, LooksAt
<1>4. PICK x : x = ScanDots(r)
  OBVIOUS
<1>5. /\ Reading(b) /\ Pos(r) \in Nat
      /\ a.c # "end" => Pos(b) = Pos(r) + 2
  BY <1>3, StartsAt DEF Looks
<1>6. CASE a.c # "."
  <2>1. x = GetToken("op", <<r.c>>, a)
    BY <1>1, <1>4, <1>6 DEF ScanDots
  <2>2. a.c \notin Follow(r.c)
    BY DEF Follow, Second
  <2>3. r.c \notin {"$", "<", ">"}
    OBVIOUS
  <2>4. AtMost(1)
    BY <1>3, <1>6, <2>2, <2>3, AtMostOne
  <2>5. <<r.c>> \in Table
    BY DEF Table
  <2> QED BY <1>1, <1>4, <2>1, <2>4, <2>5, OneOp
<1>7. CASE a.c = "." /\ b.c = "."
  <2>1. x = Select("op", <<r.c, a.c, b.c>>, b)
    BY <1>1, <1>2, <1>4, <1>7 DEF ScanDots
  <2>2. <<r.c, a.c, b.c>> \in Table /\ a.c # "end" /\ b.c # "end"
    BY <1>7 DEF Table
  <2> QED BY <1>1, <1>2, <1>4, <2>1, <2>2, ThreeOp
<1>8. CASE a.c = "." /\ b.c # "."
  <2>1. PICK seen : seen = <<".", ".">>
    OBVIOUS
  <2>2. x = ScanWord(b, seen)
    BY <1>1, <1>2, <1>4, <1>8, <2>1 DEF ScanDots
  <2>3. seen \in Seq(Told)
    <3>1. "." \in Told
      BY DEF Told
    <3> QED BY <2>1, <3>1
  <2>4. Pos(r) < Pos(b)
    <3>1. a.c # "end"
      BY <1>8
    <3>2. Pos(b) = Pos(r) + 2
      BY <1>5, <3>1
    <3> QED BY <1>5, <3>2
  <2> QED BY <1>4, <1>5, <2>2, <2>3, <2>4, WordLexeme
<1> QED BY <1>6, <1>7, <1>8

-----------------------------------------------------------------------------
(* The invariant                                                           *)

\* What is said of the text alone stays true of it.
LEMMA SameText ==
  ASSUME text' = text
  PROVE  /\ Escaped' <=> Escaped
         /\ \A i : LineOf(i)' = LineOf(i) /\ ColumnOf(i)' = ColumnOf(i)
         /\ Tokens' = Tokens /\ Cursors' = Cursors
<1>1. Escaped' <=> Escaped
  BY DEF Escaped
<1>2. ASSUME NEW i PROVE LineOf(i)' = LineOf(i) /\ ColumnOf(i)' = ColumnOf(i)
  <2>1. Breaks(i)' = Breaks(i)
    BY DEF Breaks
  <2>2. LineOf(i)' = LineOf(i)
    BY <2>1 DEF LineOf
  <2>3. LastBreak(i)' = LastBreak(i)
    BY <2>1 DEF LastBreak
  <2>4. ColumnOf(i)' = ColumnOf(i)
    BY <2>3 DEF ColumnOf
  <2> QED BY <2>2, <2>4
<1>3. Tokens' = Tokens /\ Cursors' = Cursors
  BY DEF Tokens, Cursors
<1> QED BY <1>1, <1>2, <1>3

LEMMA SameSound ==
  ASSUME text' = text, NEW t
  PROVE  Sound(t)' <=> Sound(t)
<1>1. Longest(t)' <=> Longest(t)
  BY DEF Longest, Slice, WrittenAt
<1>2. Located(t)' <=> Located(t)
  <2>1. LinedAt(t)' = LinedAt(t)
    BY DEF LinedAt
  <2>2. LineOf(LinedAt(t))' = LineOf(LinedAt(t)) /\ ColumnOf(t.from)' = ColumnOf(t.from)
    BY <2>1, SameText
  <2> QED BY <2>2 DEF Located
<1> QED BY <1>1, <1>2, SameText DEF Sound

LEMMA SameReading ==
  ASSUME text' = text, NEW p
  PROVE  (Reading(p)' <=> Reading(p)) /\ Pos(p)' = Pos(p)
<1>1. OnText(p)' <=> OnText(p)
  BY DEF OnText
<1>2. Counted(p)' <=> Counted(p)
  BY SameText DEF Counted
<1>3. Pos(p)' = Pos(p)
  BY DEF Pos
<1> QED BY <1>1, <1>2, <1>3, SameText DEF Reading

\* What the invariant says of the cursor and the tokens.
LEMMA Holds ==
  ASSUME IInv
  PROVE  /\ said \in Texts /\ TextIs /\ r \in Cursors /\ toks \in Seq(Tokens) /\ done \in BOOLEAN
         /\ Reading(r) /\ Len(text) \in Nat \ {0} /\ Pos(r) \in 1..Len(text)+1
         /\ \A k \in 1..Len(toks)-1 : toks[k].to < toks[k + 1].from
         /\ \A k \in DOMAIN toks : toks[k].from <= toks[k].to /\ toks[k].to < Pos(r)
         /\ \A k \in DOMAIN toks : Sound(toks[k])
         /\ \A i \in 1..Pos(r)-1 : Covered(i)
         /\ done => r.c = "end"
<1>1. TypeOK /\ Reading(r) /\ Ordered
  BY DEF IInv
<1>2. TextIs
  BY <1>1 DEF TypeOK, TextIs
<1>3. Len(text) \in Nat \ {0}
  BY <1>2, TextHas
<1>4. Pos(r) \in 1..Len(text)+1
  BY <1>1, <1>2, CursorHas
<1> QED BY <1>1, <1>2, <1>3, <1>4 DEF IInv, TypeOK, Ordered

LEMMA SameCovered ==
  ASSUME text' = text, toks' = toks, NEW i, Covered(i)
  PROVE  Covered(i)'
<1>1. CASE \E k \in DOMAIN toks : i \in toks[k].from..toks[k].to
  <2>1. \E k \in DOMAIN toks' : i \in toks'[k].from..toks'[k].to
    BY <1>1
  <2> QED BY <2>1 DEF Covered
<1>2. CASE \E j \in 1..i : /\ text[j] = "#" /\ \A m \in j..i : text[m] # "nl"
                           /\ \A k \in DOMAIN toks : j \notin toks[k].from..toks[k].to
  <2>1. PICK j \in 1..i : /\ text[j] = "#" /\ \A m \in j..i : text[m] # "nl"
                          /\ \A k \in DOMAIN toks : j \notin toks[k].from..toks[k].to
    BY <1>2
  <2>2. \A k \in DOMAIN toks' : j \notin toks'[k].from..toks'[k].to
    BY <2>1
  <2> QED BY <2>1, <2>2 DEF Covered
<1>3. CASE text[i] \in {" ", "tab"} \/ (text[i] = "\\" /\ i < Len(text) /\ text[i + 1] = "nl")
             \/ (text[i] = "nl" /\ i > 1 /\ text[i - 1] = "\\")
  BY <1>3 DEF Covered
<1> QED BY <1>1, <1>2, <1>3 DEF Covered

\* A step that moves the cursor only keeps it, if what it moves past counts.
Moves(p) ==
  /\ Reading(p) /\ Pos(r) <= Pos(p) /\ \A i \in Pos(r)..Pos(p)-1 : Covered(i)
  /\ r' = p /\ UNCHANGED <<said, text, toks>> /\ done' \in BOOLEAN /\ (done' => p.c = "end")
LEMMA MovesKeeps ==
  ASSUME IInv, NEW p, Moves(p)
  PROVE  IInv'
<1>1. /\ Reading(p) /\ Pos(r) <= Pos(p) /\ \A i \in Pos(r)..Pos(p)-1 : Covered(i)
      /\ r' = p /\ said' = said /\ text' = text /\ toks' = toks /\ done' \in BOOLEAN /\ (done' => p.c = "end")
  BY DEF Moves
<1>2. Pos(p)' = Pos(p) /\ Reading(p)'
  BY <1>1, SameReading
<1>3. Pos(r) \in Nat /\ Pos(p) \in Nat
  <2>1. Len(text) \in Nat /\ Pos(r) \in 1..Len(text)+1 /\ TextIs
    BY Holds
  <2>2. Pos(p) \in 1..Len(text)+1
    BY <1>1, <2>1, CursorHas
  <2> QED BY <2>1, <2>2
<1>4. TypeOK'
  <2>1. p \in Cursors /\ Cursors' = Cursors /\ Tokens' = Tokens
    BY <1>1, SameText DEF Reading
  <2>2. TypeOK
    BY DEF IInv
  <2> QED BY <1>1, <2>1, <2>2 DEF TypeOK
<1>5. Reading(r)' /\ Pos(r)' = Pos(p)
  BY <1>1, <1>2
<1>6. Ordered'
  <2>1. \A k \in 1..Len(toks)-1 : toks[k].to < toks[k + 1].from
    BY Holds
  <2>2. \A k \in DOMAIN toks : toks[k].from <= toks[k].to /\ toks[k].to < Pos(p)
    <3> TAKE k \in DOMAIN toks
    <3>1. toks[k].from <= toks[k].to /\ toks[k].to < Pos(r)
      BY Holds
    <3>2. toks \in Seq(Tokens) /\ Len(text) \in Nat
      BY Holds
    <3>3. toks[k] \in Tokens
      BY <3>2
    <3>4. toks[k].to \in Nat
      BY <3>2, <3>3 DEF Tokens
    <3> QED BY <1>1, <1>3, <3>1, <3>4
  <2> QED BY <1>1, <1>5, <2>1, <2>2 DEF Ordered
<1>7. (\A k \in DOMAIN toks : Sound(toks[k]))'
  <2>1. ASSUME NEW k \in DOMAIN toks' PROVE Sound(toks[k])'
    <3>1. PICK t : t = toks'[k]
      OBVIOUS
    <3>2. Sound(t)
      BY <1>1, <3>1, Holds
    <3>3. Sound(t)'
      BY <1>1, <3>2, SameSound
    <3> QED BY <3>1, <3>3
  <2> QED BY <2>1
<1>8. (\A i \in 1..Pos(r)-1 : Covered(i))'
  <2>1. ASSUME NEW i \in 1..Pos(p)-1 PROVE Covered(i)'
    <3>1. i \in 1..Pos(r)-1 \/ i \in Pos(r)..Pos(p)-1
      BY <1>3
    <3>2. Covered(i)
      BY <1>1, <3>1, Holds
    <3> QED BY <1>1, <3>2, SameCovered
  <2> QED BY <1>5, <2>1
<1> QED BY <1>1, <1>4, <1>5, <1>6, <1>7, <1>8 DEF IInv

\* A token keeps it.
LEMMA EmitKeeps ==
  ASSUME IInv, r.c # "end", NEW x, Lexeme(x), Emit(x)
  PROVE  IInv'
<1>1. r' = x.p /\ toks' = Append(toks, x.t) /\ said' = said /\ text' = text /\ done' = done
  BY DEF Emit
<1>2. PICK p, t : p = x.p /\ t = x.t
  OBVIOUS
<1>3. /\ Reading(p) /\ t \in Tokens /\ t.from = Pos(r) /\ Pos(r) <= t.to /\ Pos(p) = t.to + 1
      /\ Sound(t)
  BY <1>2 DEF Lexeme, Emits, Sound
<1>4. PICK n : n = Len(toks)
  OBVIOUS
<1>5. /\ n \in Nat /\ DOMAIN toks = 1..n /\ toks \in Seq(Tokens) /\ Pos(r) \in Nat /\ Pos(r) > 0
      /\ t.to \in Nat /\ \A k \in 1..n : toks[k].to \in Nat
  <2>1. toks \in Seq(Tokens) /\ Pos(r) \in 1..Len(text)+1 /\ Len(text) \in Nat
    BY Holds
  <2>2. \A k \in 1..n : toks[k] \in Tokens
    BY <1>4, <2>1
  <2>3. \A u \in Tokens : u.to \in Nat
    BY <2>1 DEF Tokens
  <2> QED BY <1>3, <1>4, <2>1, <2>2, <2>3
<1>6. /\ toks' = Append(toks, t) /\ Len(toks') = n + 1 /\ DOMAIN toks' = 1..n+1
      /\ toks'[n + 1] = t /\ \A k \in 1..n : toks'[k] = toks[k]
  BY <1>1, <1>2, <1>4, <1>5
<1>7. Pos(p)' = Pos(p) /\ Reading(p)'
  BY <1>1, <1>3, SameReading
<1>8. Reading(r)' /\ Pos(r)' = t.to + 1
  BY <1>1, <1>2, <1>3, <1>7
<1>9. TypeOK'
  <2>1. p \in Cursors /\ Cursors' = Cursors /\ Tokens' = Tokens
    BY <1>1, <1>3, SameText DEF Reading
  <2>2. Append(toks, t) \in Seq(Tokens)
    BY <1>3, <1>5
  <2>3. TypeOK
    BY DEF IInv
  <2> QED BY <1>1, <1>2, <1>6, <2>1, <2>2, <2>3 DEF TypeOK
<1>10. Ordered'
  <2>1. \A k \in 1..n : toks'[k].to < toks'[k + 1].from
    <3> TAKE k \in 1..n
    <3>1. CASE k = n
      <4>1. toks[k].to < Pos(r) /\ toks'[k] = toks[k] /\ toks'[k + 1] = t
        BY <1>5, <1>6, <3>1, Holds
      <4> QED BY <1>3, <4>1
    <3>2. CASE k # n
      <4>1. k \in 1..n-1 /\ k \in 1..n /\ k + 1 \in 1..n
        BY <1>5, <3>2
      <4>2. toks[k].to < toks[k + 1].from
        BY <1>4, <4>1, Holds
      <4> QED BY <1>6, <4>1, <4>2
    <3> QED BY <3>1, <3>2
  <2>2. \A k \in 1..n+1 : toks'[k].from <= toks'[k].to /\ toks'[k].to < t.to + 1
    <3> TAKE k \in 1..n+1
    <3>1. CASE k = n + 1
      BY <1>3, <1>5, <1>6, <3>1
    <3>2. CASE k # n + 1
      <4>1. k \in 1..n
        BY <1>5, <3>2
      <4>2. toks[k].from <= toks[k].to /\ toks[k].to < Pos(r) /\ toks'[k] = toks[k] /\ toks[k].to \in Nat
        BY <1>5, <1>6, <4>1, Holds
      <4> QED BY <1>3, <1>5, <4>2
    <3> QED BY <3>1, <3>2
  <2>3. Len(toks') - 1 = n
    BY <1>5, <1>6
  <2>4. \A k \in 1..Len(toks')-1 : toks'[k].to < toks'[k + 1].from
    BY <2>1, <2>3
  <2>5. \A k \in DOMAIN toks' : toks'[k].from <= toks'[k].to /\ toks'[k].to < Pos(r)'
    BY <1>6, <1>8, <2>2
  <2> QED BY <2>4, <2>5 DEF Ordered
<1>11. (\A k \in DOMAIN toks : Sound(toks[k]))'
  <2>1. ASSUME NEW k \in 1..n+1 PROVE Sound(toks[k])'
    <3>1. PICK u : u = toks'[k]
      OBVIOUS
    <3>2. Sound(u)
      <4>1. CASE k = n + 1
        BY <1>3, <1>6, <3>1, <4>1
      <4>2. CASE k # n + 1
        <5>1. k \in 1..n
          BY <1>5, <4>2
        <5> QED BY <1>5, <1>6, <3>1, <5>1, Holds
      <4> QED BY <4>1, <4>2
    <3>3. Sound(u)'
      BY <1>1, <3>2, SameSound
    <3> QED BY <3>1, <3>3
  <2> QED BY <1>6, <2>1
<1>12. (\A i \in 1..Pos(r)-1 : Covered(i))'
  <2>1. ASSUME NEW i \in 1..t.to PROVE Covered(i)'
    <3>1. CASE i \in Pos(r)..t.to
      <4>1. i \in toks'[n + 1].from..toks'[n + 1].to /\ n + 1 \in DOMAIN toks'
        BY <1>3, <1>5, <1>6, <3>1
      <4> QED BY <4>1 DEF Covered
    <3>2. CASE i \in 1..Pos(r)-1
      <4>1. Covered(i)
        BY <3>2, Holds
      <4>2. CASE \E k \in DOMAIN toks : i \in toks[k].from..toks[k].to
        <5>1. PICK k \in 1..n : i \in toks[k].from..toks[k].to
          BY <1>5, <4>2
        <5>2. k \in DOMAIN toks' /\ i \in toks'[k].from..toks'[k].to
          BY <1>5, <1>6, <5>1
        <5> QED BY <5>2 DEF Covered
      <4>3. CASE \E j \in 1..i : /\ text[j] = "#" /\ \A m \in j..i : text[m] # "nl"
                                 /\ \A k \in DOMAIN toks : j \notin toks[k].from..toks[k].to
        <5>1. PICK j \in 1..i : /\ text[j] = "#" /\ \A m \in j..i : text[m] # "nl"
                                /\ \A k \in DOMAIN toks : j \notin toks[k].from..toks[k].to
          BY <4>3
        <5>2. j < t.from
          BY <1>3, <1>5, <3>2
        <5>3. \A k \in DOMAIN toks' : j \notin toks'[k].from..toks'[k].to
          <6> TAKE k \in DOMAIN toks'
          <6>1. CASE k = n + 1
            <7>1. toks'[k] = t /\ t.from \in Nat /\ j \in Nat
              BY <1>3, <1>5, <1>6, <6>1
            <7>2. j \notin t.from..t.to
              BY <5>2, <7>1
            <7> QED BY <7>1, <7>2
          <6>2. CASE k # n + 1
            <7>1. k \in 1..n
              BY <1>5, <1>6, <6>2
            <7> QED BY <1>5, <1>6, <5>1, <7>1
          <6> QED BY <6>1, <6>2
        <5> QED BY <1>1, <5>1, <5>3 DEF Covered
      <4>4. CASE text[i] \in {" ", "tab"} \/ (text[i] = "\\" /\ i < Len(text) /\ text[i + 1] = "nl")
                   \/ (text[i] = "nl" /\ i > 1 /\ text[i - 1] = "\\")
        BY <1>1, <4>4 DEF Covered
      <4> QED BY <4>1, <4>2, <4>3, <4>4 DEF Covered
    <3>3. i \in Pos(r)..t.to \/ i \in 1..Pos(r)-1
      BY <1>5
    <3> QED BY <3>1, <3>2, <3>3
  <2>2. Pos(r)' - 1 = t.to
    BY <1>5, <1>8
  <2> QED BY <2>1, <2>2
<1>13. done' => r'.c = "end"
  BY <1>1, Holds
<1> QED BY <1>8, <1>9, <1>10, <1>11, <1>12, <1>13 DEF IInv

LEMMA Begins == Init => IInv
<1> SUFFICES ASSUME Init PROVE IInv
  OBVIOUS
<1>1. said \in Texts /\ text = Joined(said) /\ toks = <<>> /\ done = FALSE
  BY DEF Init
<1>2. r = [at |-> 1, c |-> text[1], line |-> 1, col |-> 1]
  BY DEF Init
<1>3. TextIs
  BY <1>1, TextAssumption DEF TextIs
<1>4. r.at = 1 /\ r.c = text[1] /\ r.line = 1 /\ r.col = 1
  BY <1>2
<1>5. Len(text) \in Nat \ {0} /\ text[1] \in Told /\ text[1] # "end"
  BY <1>3, TextHas
<1>6. r \in Cursors
  BY <1>2, <1>5 DEF Cursors
<1>7. Reading(r) /\ Pos(r) = 1
  <2>1. Counted(r)
    BY <1>4, FirstPlace DEF Counted
  <2> QED BY <1>4, <1>5, <1>6, <2>1 DEF Reading, OnText, Pos
<1>8. TypeOK
  <2>1. toks \in Seq(Tokens)
    <3>1. PICK S : S = Tokens
      OBVIOUS
    <3>2. toks \in Seq(S)
      BY <1>1
    <3> QED BY <3>1, <3>2
  <2>3. done \in BOOLEAN /\ said \in Texts
    BY <1>1
  <2>2. text \in Seq(Characters) /\ text # <<>>
    BY <1>3 DEF TextIs
  <2> QED BY <1>6, <2>1, <2>2, <2>3 DEF TypeOK
<1>9. Ordered /\ (\A k \in DOMAIN toks : Sound(toks[k])) /\ \A i \in 1..Pos(r)-1 : Covered(i)
  BY <1>1, <1>7 DEF Ordered
<1> QED BY <1>1, <1>7, <1>8, <1>9 DEF IInv

LEMMA NextKeeps ==
  ASSUME IInv, [Next]_vars
  PROVE  IInv'
<1>1. /\ TextIs /\ Reading(r) /\ done \in BOOLEAN /\ (done => r.c = "end") /\ Pos(r) \in Nat
      /\ Len(text) \in Nat /\ r.c # "end" => Starts
  BY Holds DEF Starts
<1>2. ASSUME UNCHANGED <<said, text, r, toks>>, done' \in BOOLEAN, done' => r.c = "end" PROVE IInv'
  <2>1. PICK p : p = r
    OBVIOUS
  <2>2. Moves(p)
    BY <1>1, <1>2, <2>1 DEF Moves
  <2> QED BY <2>2, MovesKeeps
<1>3. CASE UNCHANGED vars
  BY <1>1, <1>2, <1>3 DEF vars
<1>4. CASE EndOfInput
  BY <1>2, <1>4 DEF EndOfInput
<1>5. ASSUME r.c # "end", NEW p, Skip(p), Reading(p), Pos(r) <= Pos(p), \A i \in Pos(r)..Pos(p)-1 : Covered(i), ~done
      PROVE  IInv'
  <2>1. Moves(p)
    BY <1>1, <1>5 DEF Moves, Skip
  <2> QED BY <2>1, MovesKeeps
<1>6. r.c # "end" => Pos(r) = r.at /\ r.at \in 1..Len(text) /\ text[r.at] = r.c
  BY <1>1, StartsAt
<1>7. ASSUME r.c # "end", NEW x, Lexeme(x), Emit(x) PROVE IInv'
  BY <1>7, EmitKeeps
<1>8. CASE SkipSingleLineComment /\ ~done
  <2>1. PICK a : a = Advance(r)
    OBVIOUS
  <2>2. PICK chars : chars = {text[i] : i \in DOMAIN text} \ {"nl"}
    OBVIOUS
  <2>3. PICK w : w = While(chars, a)
    OBVIOUS
  <2>4. r.c = "#" /\ r.c # "end" /\ Skip(w.p)
    BY <1>8, <2>1, <2>2, <2>3 DEF SkipSingleLineComment
  <2>5. Looks(a, Advance(a))
    BY <1>1, <2>1, <2>4, LooksAt
  <2>6. Reading(a) /\ Pos(a) = Pos(r) + 1
    BY <2>5 DEF Looks
  <2>7. "end" \notin chars /\ "nl" \notin chars
    BY <1>1, <2>2, TextHas
  <2>8. Took(chars, a, w) /\ Reading(w.p) /\ Pos(a) <= Pos(w.p)
    BY <1>1, <2>3, <2>6, <2>7, WhileReads DEF Took, Scan
  <2>9. Pos(w.p) \in Nat
    BY <1>1, <2>8, CursorHas
  <2>10. ASSUME NEW i \in Pos(r)..Pos(w.p)-1 PROVE Covered(i)
    <3>1. PICK j : j = Pos(r)
      OBVIOUS
    <3>2. j \in 1..i /\ text[j] = "#"
      BY <1>1, <1>6, <2>4, <3>1
    <3>3. \A m \in j..i : text[m] # "nl"
      <4> TAKE m \in j..i
      <4>1. m = j \/ m \in Pos(a)..Pos(w.p)-1
        BY <1>1, <2>6, <2>9, <3>1
      <4>2. CASE m = j
        BY <3>2, <4>2
      <4>3. CASE m \in Pos(a)..Pos(w.p)-1
        BY <2>7, <2>8, <4>3 DEF Took
      <4> QED BY <4>1, <4>2, <4>3
    <3>4. \A k \in DOMAIN toks : j \notin toks[k].from..toks[k].to
      <4> TAKE k \in DOMAIN toks
      <4>1. toks[k].to < j
        BY <3>1, Holds
      <4>2. toks \in Seq(Tokens)
        BY Holds
      <4>3. toks[k] \in Tokens
        BY <4>2
      <4>4. toks[k].to \in Nat /\ toks[k].from \in Nat
        BY <1>1, <4>3 DEF Tokens
      <4> QED BY <1>1, <3>1, <4>1, <4>4
    <3> QED BY <3>2, <3>3, <3>4 DEF Covered
  <2>11. Pos(r) <= Pos(w.p)
    BY <1>1, <2>6, <2>8, <2>9
  <2> QED BY <1>5, <1>8, <2>4, <2>8, <2>10, <2>11
<1>9. CASE Blank /\ ~done
  <2>1. PICK a : a = Advance(r)
    OBVIOUS
  <2>2. r.c \in {" ", "tab"} /\ r.c # "end" /\ Skip(a)
    BY <1>9, <2>1 DEF Blank
  <2>3. Reading(a) /\ Pos(a) = Pos(r) + 1
    BY <1>1, <2>1, <2>2, AdvanceReads
  <2>4. ASSUME NEW i \in Pos(r)..Pos(a)-1 PROVE Covered(i)
    <3>1. i = Pos(r)
      BY <1>1, <2>3
    <3> QED BY <1>6, <2>2, <3>1 DEF Covered
  <2>5. Pos(r) <= Pos(a)
    BY <1>1, <2>3
  <2> QED BY <1>5, <1>9, <2>2, <2>3, <2>4, <2>5
<1>10. CASE Continuation /\ ~done
  <2>1. PICK a : a = Advance(r)
    OBVIOUS
  <2>2. PICK b : b = Advance(a)
    OBVIOUS
  <2>3. r.c = "\\" /\ r.c # "end" /\ PeekAhead(r) = "nl" /\ Skip(b)
    BY <1>10, <2>1, <2>2 DEF Continuation
  <2>4. Looks(a, b)
    BY <1>1, <2>1, <2>2, <2>3, LooksAt
  <2>5. r.at # Len(text) /\ text[r.at + 1] = "nl"
    BY <2>3 DEF PeekAhead
  <2>6. Reading(b) /\ Pos(b) = Pos(r) + 2
    <3>1. a.c # "end"
      BY <1>6, <2>3, <2>4, <2>5 DEF Looks
    <3> QED BY <2>4, <3>1 DEF Looks
  <2>7. ASSUME NEW i \in Pos(r)..Pos(b)-1 PROVE Covered(i)
    <3>1. i = r.at \/ i = r.at + 1
      BY <1>1, <1>6, <2>3, <2>6
    <3>2. r.at \in Nat /\ r.at > 0 /\ r.at < Len(text) /\ text[r.at] = "\\"
      BY <1>1, <1>6, <2>3, <2>5
    <3>3. CASE i = r.at
      BY <2>5, <3>2, <3>3 DEF Covered
    <3>4. CASE i = r.at + 1
      <4>1. i > 1 /\ text[i] = "nl" /\ i - 1 = r.at /\ text[i - 1] = "\\"
        BY <2>5, <3>2, <3>4
      <4> QED BY <4>1 DEF Covered
    <3> QED BY <3>1, <3>3, <3>4
  <2>8. Pos(r) <= Pos(b)
    BY <1>1, <2>6
  <2> QED BY <1>5, <1>10, <2>3, <2>6, <2>7, <2>8
<1>11. CASE NewLine
  <2>1. r.c = "nl" /\ r.c # "end" /\ Emit(Select("nl", <<>>, r))
    BY <1>11 DEF NewLine
  <2>2. Lexeme(Select("nl", <<>>, r))
    BY <1>1, <2>1, NewLineLexeme
  <2> QED BY <1>7, <2>1, <2>2
<1>12. CASE String
  <2>1. r.c \in Quotes /\ r.c # "end" /\ Emit(ScanString(r))
    BY <1>12, QuotesAre DEF String
  <2>2. Lexeme(ScanString(r))
    BY <1>1, <2>1, StringLexeme
  <2> QED BY <1>7, <2>1, <2>2
<1>13. CASE Punctuator
  <2>1. r.c \in Punctuators /\ r.c # "end" /\ Emit(ScanPunctuator(r))
    BY <1>13 DEF Punctuator, Punctuators
  <2>2. Lexeme(ScanPunctuator(r))
    BY <1>1, <2>1, PunctuatorLexeme
  <2> QED BY <1>7, <2>1, <2>2
<1>14. CASE SingleChar
  <2>1. r.c \in Single /\ r.c # "end" /\ Emit(Select("op", <<r.c>>, r))
    BY <1>14 DEF SingleChar, Single
  <2>2. Lexeme(Select("op", <<r.c>>, r))
    BY <1>1, <2>1, SingleLexeme
  <2> QED BY <1>7, <2>1, <2>2
<1>15. CASE Dollar
  <2>1. r.c = "$" /\ r.c # "end" /\ Emit(ScanDollar(r))
    BY <1>15 DEF Dollar
  <2>2. Lexeme(ScanDollar(r))
    BY <1>1, <2>1, DollarLexeme
  <2> QED BY <1>7, <2>1, <2>2
<1>16. CASE Dots
  <2>1. r.c = "." /\ r.c # "end" /\ Emit(ScanDots(r))
    BY <1>16 DEF Dots
  <2>2. Lexeme(ScanDots(r))
    BY <1>1, <2>1, DotsLexeme
  <2> QED BY <1>7, <2>1, <2>2
<1>17. CASE Identifier
  <2>1. r.c \in IdentifierStart /\ r.c # "end" /\ Emit(ScanIdentifier(r, FALSE))
    BY <1>17 DEF Identifier, IdentifierStart, Letter
  <2>2. PICK x, p, varenv : x = ScanIdentifier(p, varenv) /\ p = r /\ varenv = FALSE
    OBVIOUS
  <2>3. /\ varenv \in BOOLEAN /\ Reading(p) /\ p.c \in IdentifierStart
        /\ IF varenv THEN r.c = "$" /\ Pos(p) = Pos(r) + 1 ELSE p = r
    BY <1>1, <2>1, <2>2
  <2>4. Lexeme(x)
    BY <1>1, <2>1, <2>2, <2>3, IdentifierLexeme
  <2>5. Emit(x)
    BY <2>1, <2>2
  <2> QED BY <1>7, <2>1, <2>4, <2>5
<1>18. CASE Number
  <2>1. r.c \in Digit /\ r.c # "end" /\ Emit(ScanNumber(r))
    BY <1>18 DEF Number, Digit, OctalChar
  <2>2. Lexeme(ScanNumber(r))
    BY <1>1, <2>1, NumberLexeme
  <2> QED BY <1>7, <2>1, <2>2
<1>19. CASE Escape
  <2>1. PICK e : e = ScanWordEscape(r)
    OBVIOUS
  <2>2. r.c = "\\" /\ r.c # "end" /\ PeekAhead(r) # "nl" /\ Emit(Select("word", <<e.v>>, e.p))
    BY <1>19, <2>1 DEF Escape
  <2>3. Lexeme(Select("word", <<e.v>>, e.p))
    BY <1>1, <2>1, <2>2, EscapeLexeme
  <2> QED BY <1>7, <2>2, <2>3
<1>20. CASE Word
  <2>1. PICK seen : seen = <<>>
    OBVIOUS
  <2>2. r.c # "end" /\ Emit(ScanWord(r, seen)) /\ SpecialChar(r.c)
    BY <1>20, <2>1 DEF Word, SpecialChar, Single, Punctuators
  <2>3. PICK x, p : x = ScanWord(p, seen) /\ p = r
    OBVIOUS
  <2>4. Lexeme(x)
    <3>1. seen \in Seq(Told) /\ Reading(p) /\ p = r
      BY <1>1, <2>1, <2>3
    <3> QED BY <1>1, <2>2, <2>3, <3>1, WordLexeme
  <2>5. Emit(x)
    BY <2>2, <2>3
  <2> QED BY <1>7, <2>2, <2>4, <2>5
<1> QED BY <1>3, <1>4, <1>8, <1>9, <1>10, <1>11, <1>12, <1>13, <1>14, <1>15, <1>16, <1>17, <1>18, <1>19, <1>20
        DEF Next

-----------------------------------------------------------------------------

\* For every set of texts, whatever the scanner has read it has the type of
\* what is read, and stands where the cursor says: the invariant is inductive.
THEOREM Invariance == Spec => []IInv
BY Begins, NextKeeps, PTL DEF Spec

\* The cursor and the tokens have their types.
THEOREM TypesKept == Spec => []TypeOK
<1>1. IInv => TypeOK
  BY DEF IInv
<1> QED BY <1>1, Invariance, PTL

\* The tokens of every text are what is written there (lexer.cc, the switch of
\* Scanner::Scan): each is the longest its first character can begin, nothing
\* is read twice or left out, and each knows its place.
THEOREM TextIsRead == Spec => []TokensAreTheText
<1>1. IInv => TokensAreTheText
  <2> SUFFICES ASSUME IInv PROVE TokensAreTheText
    OBVIOUS
  <2>1. LongestMatch /\ Placed
    BY Holds DEF LongestMatch, Placed, Sound
  <2>2. NothingSkipped
    <3>1. ASSUME done PROVE \A i \in DOMAIN text : Covered(i)
      <4>1. TextIs /\ Reading(r) /\ r.c = "end"
        BY <3>1, Holds
      <4>2. Pos(r) = Len(text) + 1 /\ Len(text) \in Nat /\ DOMAIN text = 1..Len(text)
        BY <4>1, CursorHas, TextHas
      <4>3. DOMAIN text = 1..Pos(r)-1
        BY <4>2
      <4> QED BY <4>3, Holds
    <3>2. \A k \in 1..Len(toks)-1 : toks[k].to < toks[k + 1].from
      BY Holds
    <3> QED BY <3>1, <3>2 DEF NothingSkipped
  <2> QED BY <2>1, <2>2 DEF TokensAreTheText
<1> QED BY <1>1, Invariance, PTL
=============================================================================
