------------------------------- MODULE Words -------------------------------
(***************************************************************************)
(* From a command as it is written to the arguments of its process: the    *)
(* tokens of Lexer, the pieces ParserSimpleCmd makes of them, and          *)
(* SimpleCmdExecutor::Exec (interpreter/cmd-executor.cc), which joins the  *)
(* pieces between which there is no blank.                                 *)
(***************************************************************************)
EXTENDS Lexer, Literals

CONSTANTS
  Value(_),  \* the texts of a name in ${name} and $@{name}
  Globbed(_) \* the files a pattern matches, or the pattern

CmdStop == {<<"<", "<">>, <<">", ">">>, <<"&">>, <<"|">>, <<")">>, <<"}">>, <<"&", "&">>,
            <<"|", "|">>, <<"<">>, <<">">>, <<">", "&">>, <<"<", "&">>, <<";">>}
Is(t, v) == t.k = "op" /\ t.v = v

RECURSIVE Pieces(_, _)
\* ParserSimpleCmd: words, and expressions of one name.
Pieces(ts, seen) ==
  IF ts = <<>> \/ Head(ts).k = "nl" \/ (Head(ts).k = "op" /\ Head(ts).v \in CmdStop) THEN seen
  ELSE IF Is(Head(ts), <<"$", "{">>) \/ Is(Head(ts), <<"$", "@", "{">>)
  THEN IF Len(ts) >= 3 /\ ts[2].k = "id" /\ Is(ts[3], <<"}">>)
       THEN Pieces(SubSeq(ts, 4, Len(ts)),
                   Append(seen, [k |-> IF Len(Head(ts).v) = 3 THEN "each" ELSE "one",
                                 v |-> ts[2].v, b |-> ts[3].b]))
       ELSE seen
  ELSE Pieces(Tail(ts), Append(seen, [k |-> Head(ts).k, v |-> Head(ts).v, b |-> Head(ts).b]))

\* The name in ${name}.
Name(expr) == SubSeq(expr, 3, Len(expr) - 1)
Substituted(parts) ==
  Joined([k \in DOMAIN parts |->
            IF parts[k].expr THEN Value(Name(parts[k].text))[1] ELSE parts[k].text])
CmdStr(piece) ==
  IF piece.k # "str" THEN piece.v ELSE Substituted(ExtractCmdExprFromString(piece.v))

\* One round of the loop: str_part, composed_part, is_first_part, blank_after
\* and the arguments so far.
Push1(w, args) == [w EXCEPT !.cmd = @ \o args, !.part = <<>>, !.composed = FALSE, !.first = FALSE]
Flushed(w) ==
  IF ~w.blank THEN w
  ELSE IF w.composed /\ ~w.first THEN Push1(w, Globbed(w.part)) ELSE Push1(w, <<w.part>>)
CmdPieceWord(w, piece) ==
  Flushed([w EXCEPT !.part = @ \o CmdStr(piece), !.composed = @ \/ piece.k # "str",
                    !.blank = piece.b])

\* Mutant: a value ends the word it is in.
CmdValueWordEnds(w, piece) ==
  LET values == Value(piece.v)
      p == [w EXCEPT !.part = IF values = <<>> THEN @ ELSE @ \o values[1], !.blank = TRUE]
  IN IF Len(values) > 1 THEN Push1(w, values) ELSE Push1(p, <<p.part>>)

\* Several values are arguments of their own; what was read of the word goes.
CmdValueWord(w, piece) ==
  LET values == Value(piece.v)
      p == [w EXCEPT !.part = IF values = <<>> THEN @ ELSE @ \o values[1], !.blank = piece.b]
  IN IF Len(values) > 1 THEN Push1(w, values)
     ELSE IF piece.b THEN Push1(p, <<p.part>>) ELSE p

\* SimpleCmdExecutor::Exec
LastWord(w) ==
  IF w.blank THEN w.cmd
  ELSE IF w.composed /\ ~w.first THEN w.cmd \o Globbed(w.part) ELSE Append(w.cmd, w.part)
Exec(pieces) ==
  LET word[k \in 0..Len(pieces)] ==
        IF k = 0 THEN [part |-> <<>>, composed |-> FALSE, first |-> TRUE, blank |-> FALSE, cmd |-> <<>>]
        ELSE IF pieces[k].k \in {"one", "each"} THEN CmdValueWord(word[k - 1], pieces[k])
        ELSE CmdPieceWord(word[k - 1], pieces[k])
  IN LastWord(word[Len(pieces)])

---------------------------------------------------------------------------
(* What is promised.                                                       *)

Strings == {k \in DOMAIN toks : toks[k].k = "str"}

\* What a string is cut into is what it says: its pieces, the expressions put
\* back in braces, are the string; in an expression every brace that is not
\* quoted is closed; and a string whose braces match is never an error, which
\* nothing would catch.
RECURSIVE Depth(_, _, _)
Depth(v, d, quote) ==
  IF v = <<>> \/ d < 0 THEN d
  ELSE LET c == Head(v) IN
       IF quote # "" THEN Depth(Tail(v), d, IF c = quote THEN "" ELSE quote)
       ELSE Depth(Tail(v), CASE c = "{" -> d + 1 [] c = "}" -> d - 1 [] OTHER -> d,
                  IF c \in {"'", "\""} THEN c ELSE "")
PartsAreTheString ==
  \A k \in Strings :
    LET v == toks[k].v
        s == Scanned(v)
        Has(chars) == \E i \in DOMAIN v : v[i] \in chars
    IN /\ ~s.thrown =>
            Joined([j \in DOMAIN s.parts |->
              IF s.parts[j].expr THEN <<"{">> \o s.parts[j].text \o <<"}">> ELSE s.parts[j].text]) = v
       /\ ~s.thrown /\ ~Has({"\\", "$"}) /\ ~(Has({"'"}) /\ Has({"\""})) =>
            \A j \in DOMAIN s.parts : s.parts[j].expr => Depth(s.parts[j].text, 0, "") = 0
       /\ ~Has({"\\", "$", "'", "\""}) /\ Depth(v, 0, "") = 0 => ~s.thrown

\* The arguments of a command are its words as the user means them: split at
\* the blanks that are not in a string or an expression, with the values of
\* names put in, and matched with files only when a part of it is in no
\* string; the name of the command is never.  What is written is one of: a
\* blank, a letter, a digit but 0, a star, a string, a value, several values in
\* a word of their own.  (A value that ends a longer word in front of a blank
\* is left out: such a word is not matched, the same word at the end is.)
Plain(f) == Len(f) = 1 /\ f[1] \in Letter \cup {"1", "*"}
IsString(f) == f[1] = "\"" /\ Len(f) > 2
IsValue(f) == Len(f) = 4 /\ f[1] = "$"
IsEach(f) == Len(f) = 5 /\ f[1] = "$"
Values(f) == Value(<<f[Len(f) - 1]>>)
At(k) == IF k \in DOMAIN said THEN said[k] ELSE <<" ">>
Meant ==
  /\ Plain(said[1])
  /\ \A k \in DOMAIN said :
       \/ said[k] = <<" ">> \/ Plain(said[k]) \/ IsString(said[k])
       \/ IsValue(said[k]) /\ (k < Len(said) /\ said[k + 1] = <<" ">> => said[k - 1] = <<" ">>)
       \/ IsEach(said[k]) /\ At(k - 1) = <<" ">> /\ At(k + 1) = <<" ">>
\* The words of what is said, and what one of them stands for.
WordsOf ==
  LET starts == {k \in DOMAIN said : said[k] # <<" ">> /\ At(k - 1) = <<" ">>}
      end(k) == CHOOSE j \in k..Len(said) : At(j + 1) = <<" ">> /\ \A m \in k..j : said[m] # <<" ">>
  IN [n \in 1..Cardinality(starts) |->
        LET k == CHOOSE i \in starts : Cardinality({j \in starts : j <= i}) = n
        IN SubSeq(said, k, end(k))]
Means(f) ==
  CASE IsValue(f) -> Values(f)[1]
    [] IsString(f) /\ f[2] = "$" -> Value(<<f[4]>>)[1]
    [] IsString(f) /\ f[2] # "$" -> SubSeq(f, 2, Len(f) - 1)
    [] OTHER -> f
Arg(word, named) ==
  LET all == Joined([j \in DOMAIN word |-> Means(word[j])])
  IN IF IsEach(word[1]) THEN Values(word[1])
     ELSE IF ~named /\ \E j \in DOMAIN word : Plain(word[j]) THEN Globbed(all) ELSE <<all>>
Args(words) == Joined([k \in DOMAIN words |-> Arg(words[k], k = 1)])
WordsAsWritten == done /\ Meant => Exec(Pieces(toks, <<>>)) = Args(WordsOf)
=============================================================================
