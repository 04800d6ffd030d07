------------------------------- MODULE Lexer -------------------------------
(***************************************************************************)
(* Lexer::Scanner (parser/lexer.cc, lexer.h): a token for each step, one   *)
(* action for each case of its switch.  The text is a sequence of          *)
(* characters, "nl" and "tab" among them; "end" is kEndOfInput.            *)
(***************************************************************************)
EXTENDS Naturals, Sequences, FiniteSets

CONSTANTS
  Texts  \* the sources, as sequences of what a user writes, each of some characters

VARIABLES
  said,  \* what the user wrote
  text,  \* str_: its characters
  r,     \* the cursor: buffer_cursor_ (from 1), c_, line_, line_pos_
  toks,  \* the tokens so far
  done   \* the end of the source was reached

vars == <<said, text, r, toks, done>>

Joined(seqs) == LET all[k \in 0..Len(seqs)] == IF k = 0 THEN <<>> ELSE all[k - 1] \o seqs[k]
                IN all[Len(seqs)]

\* The scanner reads the first character without asking for one, and takes a
\* byte 255 for the end.
Characters == STRING \ {"end"}
ASSUME TextAssumption == \A t \in Texts : Joined(t) \in Seq(Characters) /\ Joined(t) # <<>>

---------------------------------------------------------------------------
(* Characters and the cursor                                               *)

Letter == {"a", "b", "c", "d", "e", "f", "g", "h", "i", "j", "k", "l", "m", "n", "o", "p", "q",
           "r", "s", "t", "u", "v", "w", "x", "y", "z"}
OctalChar == {"0", "1", "2", "3", "4", "5", "6", "7"}
Digit == OctalChar \cup {"8", "9"}
HexChar == Digit \cup {"a", "b", "c", "d", "e", "f"}
IdentifierStart == Letter \cup {"_"}
Identifiers == IdentifierStart \cup Digit
Quotes == {"'", "\""}
SpecialChar(c) == c \notin {" ", "tab", "nl", ")", ";", "}", "|", "&", "%", "end"}
KeyWords == {<<"i", "f">>, <<"i", "n">>, <<"i", "s">>, <<"a", "s">>, <<"d", "o">>}

\* Advance: past the last character the cursor stays, and c_ is the end.
Advance(p) ==
  IF p.at = Len(text) THEN [p EXCEPT !.c = "end"]
  ELSE [at |-> p.at + 1, c |-> text[p.at + 1],
        line |-> IF p.c = "nl" THEN p.line + 1 ELSE p.line,
        col |-> IF p.c = "nl" THEN 1 ELSE p.col + 1]
\* Back moves the cursor only.
Back(p) == [p EXCEPT !.at = @ - 1]
PeekAhead(p) == IF p.at = Len(text) THEN "end" ELSE text[p.at + 1]

\* A token ends before p, or, selected, with p.  from and to are its first and
\* last character, which the code does not keep.
GetToken(kind, value, p) ==
  [p |-> p,
   t |-> [k |-> kind, v |-> value, b |-> p.c = " ", line |-> p.line, col |-> r.col,
          from |-> r.at, to |-> IF p.c = "end" THEN Len(text) ELSE p.at - 1]]

Select(kind, value, p) ==
  [p |-> Advance(p),
   t |-> [k |-> kind, v |-> value, b |-> PeekAhead(p) = " ", line |-> p.line, col |-> r.col,
          from |-> r.at, to |-> IF p.c = "end" THEN Len(text) ELSE p.at]]

\* A loop goes on until a round changes nothing; each of the others reads a
\* character at least, so that there are no more of them than characters.
Loop(Round(_), x) ==
  LET after[k \in 0..Len(text)] == IF k = 0 THEN x ELSE Round(after[k - 1])
  IN after[Len(text)]

\* What is read so far, v, and the cursor, p.
Reads(x) == [p |-> Advance(x.p), v |-> Append(x.v, x.p.c)]

\* The characters of a set, from the cursor on.
WhileRound(chars, x) == IF x.p.c \in chars THEN Reads(x) ELSE x
While(chars, p) == Loop(LAMBDA x : WhileRound(chars, x), [p |-> p, v |-> <<>>])

---------------------------------------------------------------------------
(* Strings, words, names and numbers                                       *)

\* The character an escape stands for; a code of digits is read up to its end,
\* and the cursor then put back on its last digit.
ScanAnsiEscapeCode(p) == [p |-> Back(While(OctalChar, p).p), v |-> <<"ansi">>]
ScanUnicodeEscapeCode(p) == [p |-> Back(While(HexChar, Advance(p)).p), v |-> <<"unicode">>]
ScanStringEscape(p) ==
  LET a == Advance(p) IN
  CASE a.c \in Quotes \cup {"\\"} -> [p |-> a, v |-> <<a.c>>]
    [] a.c = "0" -> IF PeekAhead(a) \in OctalChar THEN ScanAnsiEscapeCode(a)
                    ELSE [p |-> a, v |-> <<"nul">>]
    [] a.c = "u" -> IF PeekAhead(a) \in HexChar THEN ScanUnicodeEscapeCode(a)
                    ELSE [p |-> a, v |-> <<"\\", "u">>]
    [] a.c = "n" -> [p |-> a, v |-> <<"nl">>]
    [] a.c \in {"b", "f", "r", "t"} -> [p |-> a, v |-> <<"control">>]
    [] OTHER -> [p |-> a, v |-> <<"\\", a.c>>]

\* A string that is not terminated ends with the source; the error is kept
\* where nobody reads it.
StringRound(quote, x) ==
  IF x.p.c \in {"end", quote} THEN x
  ELSE IF x.p.c = "\\" THEN LET e == ScanStringEscape(x.p) IN [p |-> Advance(e.p), v |-> x.v \o e.v]
  ELSE Reads(x)
ScanString(p) ==
  LET x == Loop(LAMBDA y : StringRound(p.c, y), [p |-> Advance(p), v |-> <<>>])
  IN GetToken("str", x.v, IF x.p.c = "end" THEN x.p ELSE Advance(x.p))

ScanWordEscape(p) ==
  LET a == Advance(p)
  IN [p |-> a, v |-> CASE a.c = "n" -> "nl" [] a.c \in {"b", "f", "r", "t"} -> "control" [] OTHER -> a.c]
WordRound(x) ==
  IF ~SpecialChar(x.p.c) THEN x
  ELSE IF x.p.c = "\\" THEN LET e == ScanWordEscape(x.p) IN [p |-> Advance(e.p), v |-> Append(x.v, e.v)]
  ELSE Reads(x)
ScanWord(p, seen) == LET x == Loop(WordRound, [p |-> p, v |-> seen]) IN GetToken("word", x.v, x.p)

ScanIdentifier(p, varenv) ==
  LET id == While(Identifiers, p)
  IN GetToken(CASE varenv -> "varenvid"
                [] ~varenv /\ id.v \in KeyWords -> "keyword"
                [] OTHER -> "id", id.v, id.p)

\* A number is kept as its value: what is written with the zeros left out that
\* do not count.  (int saturates, and float keeps six digits.)
Dot(digits) ==
  LET points == {k \in DOMAIN digits : digits[k] = "."}
  IN CHOOSE k \in points \cup {Len(digits) + 1} : \A j \in points : k <= j
First(digits) == CHOOSE k \in 1..Dot(digits)-1 :
  /\ digits[k] # "0" \/ k = Dot(digits) - 1
  /\ \A j \in 1..k-1 : digits[j] = "0"
Last(digits) == CHOOSE k \in {Dot(digits) - 1} \cup Dot(digits)+1..Len(digits) :
  /\ k < Dot(digits) \/ digits[k] # "0"
  /\ \A j \in k+1..Len(digits) : digits[j] \in {"0", "."}
Canonical(digits) == SubSeq(digits, First(digits), Last(digits))

\* With a second point it is a word.
Pointed(v) == \E k \in DOMAIN v : v[k] = "."
NumberRound(x) == IF x.p.c \in Digit \/ (x.p.c = "." /\ ~Pointed(x.v)) THEN Reads(x) ELSE x
ScanNumber(p) ==
  LET x == Loop(NumberRound, [p |-> p, v |-> <<>>])
  IN IF x.p.c = "." THEN ScanWord(x.p, x.v)
     ELSE GetToken(IF Pointed(x.v) THEN "real" ELSE "int", Canonical(x.v), x.p)

---------------------------------------------------------------------------
(* Punctuators                                                             *)

Single == {"~", ";", ",", "(", ")", "{", "}", "[", "]", "@"}
\* What may follow a character in a punctuator.
Second(c) ==
  CASE c \in {"=", "!", "+", "/", "^"} -> {"="}
    [] c = "<" -> {"=", "&", "<"}
    [] c = ">" -> {"=", "&", ">"}
    [] c = "-" -> {"=", ">"}
    [] c \in {"*", "%", "&", "|"} -> {"=", c}
    [] c = ":" -> {":"}
    [] OTHER -> {}
Punctuators == {"=", "!", "+", "/", "^", "<", ">", "-", "*", "%", "&", "|", ":"}

\* Mutant: <<= and >>= are not known.
ScanPunctuatorShort(p) ==
  LET a == Advance(p)
      b == Advance(a)
  IN IF a.c \notin Second(p.c) THEN GetToken("op", <<p.c>>, a)
     ELSE IF p.c \notin {"<", ">"} \/ a.c # p.c THEN Select("op", <<p.c, a.c>>, a)
     ELSE IF b.c = p.c THEN Select("op", <<p.c, a.c, b.c>>, b)
     ELSE GetToken("op", <<p.c, a.c>>, b)

ScanPunctuator(p) ==
  LET a == Advance(p)
      b == Advance(a)
  IN IF a.c \notin Second(p.c) THEN GetToken("op", <<p.c>>, a)
     ELSE IF p.c \notin {"<", ">"} \/ a.c # p.c THEN Select("op", <<p.c, a.c>>, a)
     ELSE IF b.c \in {"=", p.c} THEN Select("op", <<p.c, a.c, b.c>>, b)
     ELSE GetToken("op", <<p.c, a.c>>, b)

\* $ $( ${ $@{ $name
ScanDollar(p) ==
  LET a == Advance(p)
      b == Advance(a)
  IN CASE a.c \in {"(", "{"} -> Select("op", <<"$", a.c>>, a)
       [] a.c = "@" -> IF b.c = "{" THEN Select("op", <<"$", "@", "{">>, b)
                       ELSE ScanWord(b, <<"$", "@">>)
       [] a.c \in IdentifierStart -> ScanIdentifier(a, TRUE)
       [] OTHER -> GetToken("op", <<"$">>, a)

\* . ...
ScanDots(p) ==
  LET a == Advance(p)
      b == Advance(a)
  IN IF a.c # "." THEN GetToken("op", <<".">>, a)
     ELSE IF b.c = "." THEN Select("op", <<".", ".", ".">>, b) ELSE ScanWord(b, <<".", ".">>)

---------------------------------------------------------------------------
(* The scanner                                                             *)

Init ==
  /\ said \in Texts
  /\ text = Joined(said)
  /\ r = [at |-> 1, c |-> text[1], line |-> 1, col |-> 1]
  /\ toks = <<>> /\ done = FALSE

Emit(x) == r' = x.p /\ toks' = Append(toks, x.t) /\ UNCHANGED <<said, text, done>>
Skip(p) == r' = p /\ UNCHANGED <<said, text, toks, done>>

SkipSingleLineComment ==
  r.c = "#" /\ Skip(While({text[i] : i \in DOMAIN text} \ {"nl"}, Advance(r)).p)

Blank        == r.c \in {" ", "tab"} /\ Skip(Advance(r))
Continuation == r.c = "\\" /\ PeekAhead(r) = "nl" /\ Skip(Advance(Advance(r)))
NewLine      == r.c = "nl" /\ Emit(Select("nl", <<>>, r))
String       == r.c \in Quotes /\ Emit(ScanString(r))
Punctuator   == r.c \in Punctuators /\ Emit(ScanPunctuator(r))
SingleChar   == r.c \in Single /\ Emit(Select("op", <<r.c>>, r))
Dollar       == r.c = "$" /\ Emit(ScanDollar(r))
Dots         == r.c = "." /\ Emit(ScanDots(r))
Identifier   == r.c \in IdentifierStart /\ Emit(ScanIdentifier(r, FALSE))
Number       == r.c \in Digit /\ Emit(ScanNumber(r))
Escape ==
  LET e == ScanWordEscape(r)
  IN r.c = "\\" /\ PeekAhead(r) # "nl" /\ Emit(Select("word", <<e.v>>, e.p))
Word ==
  /\ r.c \notin Punctuators \cup Single \cup IdentifierStart \cup Digit \cup Quotes
                \cup {"#", " ", "tab", "nl", "$", ".", "\\", "end"}
  /\ Emit(ScanWord(r, <<>>))
EndOfInput ==
  r.c = "end" /\ done' = TRUE /\ UNCHANGED <<said, text, r, toks>>

Next ==
  /\ ~done
  /\ \/ SkipSingleLineComment \/ Blank \/ Continuation \/ NewLine \/ String \/ Punctuator
     \/ SingleChar \/ Dollar \/ Dots \/ Identifier \/ Number \/ Escape \/ Word \/ EndOfInput

Spec == Init /\ [][Next]_vars

---------------------------------------------------------------------------
(* What is promised.                                                       *)

Slice(i, j) == SubSeq(text, i, j)
WrittenAt(w, i) == i + Len(w) - 1 <= Len(text) /\ w = Slice(i, i + Len(w) - 1)
\* The punctuators of token.def.
Table == {<<"$", "@", "{">>, <<".", ".", ".">>, <<"<", "<", "=">>, <<">", ">", "=">>, <<"<", "<", "<">>, <<">", ">", ">">>}
  \cup {<<c, "=">> : c \in {"|", "^", "&", "+", "-", "*", "/", "%", "=", "!", "<", ">"}}
  \cup {<<c, c>> : c \in {":", "|", "&", "<", ">", "*", "%"}}
  \cup {<<">", "&">>, <<"<", "&">>, <<"-", ">">>, <<"$", "(">>, <<"$", "{">>}
  \cup {<<c>> : c \in Single \cup Punctuators \cup {".", "$"}}

\* Each token is the longest its first character can begin, and its value is
\* what is written there (token.def): no punctuator is cut in two, no name
\* ends early, and only what is not after a $ is a keyword.
Longest(t) ==
  LET past == IF t.to = Len(text) THEN "end" ELSE text[t.to + 1]
      first == text[t.from]
      dollar == first = "$"
  IN CASE t.k = "op" ->
            /\ t.v = Slice(t.from, t.to) /\ t.v \in Table
            /\ \A w \in Table : WrittenAt(w, t.from) => Len(w) <= Len(t.v)
       [] t.k \in {"id", "keyword", "varenvid"} ->
            /\ t.v = Slice(IF dollar THEN t.from + 1 ELSE t.from, t.to)
            /\ past \notin Identifiers
            /\ t.k = "varenvid" <=> dollar
            /\ t.k = "keyword" <=> ~dollar /\ t.v \in KeyWords
       [] t.k \in {"int", "real"} -> past \notin Digit \cup {"."}
       [] t.k = "word" -> first # "\\" => ~SpecialChar(past)
       [] t.k = "str" ->
            \A i \in t.from+1..t.to-1 : text[i] = first => text[i - 1] = "\\"
       [] OTHER -> first = "nl"
LongestMatch == \A k \in DOMAIN toks : Longest(toks[k])

\* Every character belongs to one token, or is blank, or in a comment, or the
\* end of a line that goes on: the scanner reads nothing twice and skips nothing
\* else, whatever escapes move the cursor back.
Covered(i) ==
  \/ \E k \in DOMAIN toks : i \in toks[k].from..toks[k].to
  \/ text[i] \in {" ", "tab"}
  \/ \E j \in 1..i : /\ text[j] = "#" /\ \A m \in j..i : text[m] # "nl"
                     /\ \A k \in DOMAIN toks : j \notin toks[k].from..toks[k].to
  \/ text[i] = "\\" /\ i < Len(text) /\ text[i + 1] = "nl"
  \/ text[i] = "nl" /\ i > 1 /\ text[i - 1] = "\\"
NothingSkipped ==
  /\ \A k \in 1..Len(toks)-1 : toks[k].to < toks[k + 1].from
  /\ done => \A i \in DOMAIN text : Covered(i)

\* A token knows the place it begins at, and whether a blank follows it: that
\* decides where the words of a command end.  What holds several lines has
\* the line it ends on.  Codes in strings move the place, see README.
Escaped == \E i \in 1..Len(text)-1 : text[i] = "\\" /\ text[i + 1] \in {"0", "u"}
Breaks(i) == {j \in 1..i-1 : text[j] = "nl"}
LineOf(i) == 1 + Cardinality(Breaks(i))
LastOf(places) == CHOOSE j \in {0} \cup places : \A k \in places : k <= j
LastBreak(i) == LastOf(Breaks(i))
ColumnOf(i) == i - LastBreak(i)
LinedAt(t) ==
  IF t.k \notin {"str", "word"} THEN t.from ELSE IF t.to = Len(text) THEN t.to ELSE t.to + 1
Located(t) ==
  /\ t.line = LineOf(LinedAt(t))
  /\ t.col = ColumnOf(t.from)
  /\ t.b <=> t.to < Len(text) /\ text[t.to + 1] = " "
Placed == ~Escaped => \A k \in DOMAIN toks : Located(toks[k])

\* The tokens of a text are what is written there, all of it, and know where.
TokensAreTheText == LongestMatch /\ NothingSkipped /\ Placed
=============================================================================
