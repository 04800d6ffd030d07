------------------------------ MODULE Literals ------------------------------
(***************************************************************************)
(* The texts inside strings.  ParserLiteralString::Scanner                 *)
(* (parser/parser_literal_string.cc) cuts a string of the language at its  *)
(* {expressions}; ExtractExpr (parser/extract_expr.cc) finds the next      *)
(* ${expression} of a string in a command, and ExtractCmdExprFromString    *)
(* (cmd-executor.cc) all of them.  A text is a sequence of characters.     *)
(***************************************************************************)
EXTENDS Naturals, Sequences

RECURSIVE Cut(_, _), Find(_, _), ExtractCmdExprFromString(_)

---------------------------------------------------------------------------
(* "a {b} c"                                                               *)

\* braces_count_, string_inside_mode_, cmd_mode_, the part being read and the
\* parts before it; inside says that it is an expression.
Begun == [i |-> 1, inside |-> FALSE, braces |-> 0, quoted |-> FALSE, cmd |-> FALSE,
          part |-> <<>>, parts |-> <<>>, thrown |-> FALSE]
Char(v, i) == IF i <= Len(v) THEN v[i] ELSE "end"
\* nextAndPushChar, n times.
Push(v, p, n) ==
  LET to == IF p.i + n - 1 > Len(v) THEN Len(v) ELSE p.i + n - 1
  IN [p EXCEPT !.i = to + 1, !.part = @ \o SubSeq(v, p.i, to)]
PushStrToken(p) == [p EXCEPT !.parts = Append(@, [expr |-> p.inside, text |-> p.part]), !.part = <<>>]

\* Mutant: a brace in the expression is not counted.
ExpressionCharFlat(v, p) ==
  LET plain == Push(v, p, 1) IN
  CASE v[p.i] = "}" /\ ~(p.quoted \/ p.cmd) ->
         [PushStrToken(p) EXCEPT !.inside = FALSE, !.braces = 0, !.i = @ + 1]
    [] OTHER -> plain

ExpressionChar(v, p) ==
  LET plain == Push(v, p, 1)
      aside == p.quoted \/ p.cmd
  IN CASE v[p.i] \in {"'", "\""} -> IF p.cmd THEN plain ELSE [plain EXCEPT !.quoted = ~@]
       [] v[p.i] = "\\" -> Push(v, p, IF aside THEN 2 ELSE 1)
       [] v[p.i] = "{" -> IF aside THEN plain ELSE [plain EXCEPT !.braces = @ + 1]
       [] v[p.i] = "}" ->
            IF aside THEN plain
            ELSE IF p.braces = 1
                 THEN [PushStrToken(p) EXCEPT !.inside = FALSE, !.braces = 0, !.i = @ + 1]
                 ELSE [plain EXCEPT !.braces = @ - 1]
       [] v[p.i] = "$" -> IF Char(v, p.i + 1) = "(" THEN [Push(v, p, 2) EXCEPT !.cmd = TRUE] ELSE plain
       [] v[p.i] = ")" -> [plain EXCEPT !.cmd = FALSE]
       [] OTHER -> plain

ParserNotInterpretableStr(v, p) ==
  CASE v[p.i] = "\\" -> Push(v, p, 2)
    [] v[p.i] = "{" -> [PushStrToken(p) EXCEPT !.inside = TRUE, !.braces = @ + 1, !.i = @ + 1]
    [] OTHER -> Push(v, p, 1)

Cut(v, p) ==
  LET q == IF p.inside THEN ExpressionChar(v, p) ELSE ParserNotInterpretableStr(v, p)
      last == q.i > Len(v)
  IN IF p.i > Len(v) THEN p
     ELSE IF last /\ q.inside THEN [q EXCEPT !.thrown = TRUE]
     ELSE IF last /\ ~p.inside THEN PushStrToken(q)
     ELSE Cut(v, q)

\* ParserLiteralString::Scanner.  Nothing catches what it throws.
Scanned(v) == Cut(v, Begun)

---------------------------------------------------------------------------
(* ls "a ${b} c"                                                           *)

\* From the character at i: where { and } of the next expression are, or 0.
\* A character after $ is passed, whatever it is.
Find(src, e) ==
  LET c == Char(src, e.i)
      brace == c = "$" /\ Char(src, e.i + 1) = "{" /\ e.start = 0
      f == CASE c = "$" -> [e EXCEPT !.i = @ + 1, !.open = IF brace THEN @ + 1 ELSE @,
                                     !.start = IF brace THEN e.i + 1 ELSE @]
             [] c = "}" /\ e.valid ->
                  IF e.open > 1 THEN [e EXCEPT !.open = @ - 1]
                  ELSE [e EXCEPT !.end = IF e.start > 0 THEN e.i ELSE 0]
             [] c = "{" /\ e.valid -> [e EXCEPT !.open = IF @ > 0 THEN @ + 1 ELSE 0]
             [] c = "\"" -> [e EXCEPT !.valid = ~@]
             [] OTHER -> e
  IN IF f.end > 0 \/ f.i >= Len(src) THEN f ELSE Find(src, [f EXCEPT !.i = @ + 1])
Extract(src) == Find(src, [i |-> 1, start |-> 0, end |-> 0, open |-> 0, valid |-> TRUE])

Piece(expr, text) == [expr |-> expr, text |-> text]
Found(src, e) ==
  <<Piece(FALSE, SubSeq(src, 1, e.start - 2)), Piece(TRUE, SubSeq(src, e.start - 1, e.end))>>
ExtractFrom(src, e) ==
  IF e.start = 0 \/ e.end = 0 THEN <<Piece(FALSE, src)>>
  ELSE IF e.end >= Len(src) - 1
       THEN Append(Found(src, e), Piece(FALSE, SubSeq(src, e.end + 1, Len(src))))
       ELSE Found(src, e) \o ExtractCmdExprFromString(SubSeq(src, e.end + 1, Len(src)))
ExtractCmdExprFromString(str) == ExtractFrom(str, Extract(str))
=============================================================================
