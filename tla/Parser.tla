------------------------------ MODULE Parser ------------------------------
(***************************************************************************)
(* The recursive descent parser of parser/parser.cc and parser-oop.cc: one *)
(* operator per function, with its name.  A function reads the tokens from *)
(* the parser's state s and returns [s, n]: the state it leaves and the    *)
(* node it built, or Null where the code returns an empty ParserResult.    *)
(*                                                                         *)
(* A token has its kind, whether a blank follows, and for a string the     *)
(* token sequences of its interpolated parts.  Kinds the parser treats     *)
(* alike need not all be given to it.  s.dead says that the parser has     *)
(* read through a null pointer.                                            *)
(***************************************************************************)
EXTENDS Ast, FiniteSets

Token(kind, blank, parts) == [k |-> kind, b |-> blank, parts |-> parts]
Eos == Token("eos", FALSE, <<>>)

---------------------------------------------------------------------------
(* The token stream and the errors                                         *)

\* The tokens from a place on; the stream is never moved past the last one, the
\* end of the source.
Begin(tokens, from) == [ts |-> Append(tokens, Eos), i |-> from, bad |-> FALSE, e |-> "none",
                        dead |-> FALSE]
Cur(s) == s.ts[s.i]
Tok(s) == s.ts[s.i].k
Advance(s) == IF s.i = Len(s.ts) THEN s ELSE [s EXCEPT !.i = @ + 1]
PeekAhead(s) == IF s.i + 1 >= Len(s.ts) THEN "eos" ELSE s.ts[s.i + 1].k
\* ValidToken: on to the first token that is not the end of a line.
ValidToken(s) ==
  [s EXCEPT !.i = CHOOSE j \in s.i..Len(s.ts) :
                    s.ts[j].k # "nl" /\ \A m \in s.i..j-1 : s.ts[m].k = "nl"]
Next1(s) == ValidToken(Advance(s))

\* Only the first error keeps its token.
ErrorMsg(s) == [s EXCEPT !.bad = TRUE, !.e = IF s.bad THEN @ ELSE Tok(s)]

SetTokenError(s, kind) == [s EXCEPT !.e = kind]

Is(s, n) == [s |-> s, n |-> n]
Error(s) == Is(ErrorMsg(s), Null)

---------------------------------------------------------------------------
(* Which tokens are what                                                   *)

AssignTokens == {"=", "+="}
ComparisonTokens == {"<", ">", "=="}
IoTokens == {"<", ">", "<<", ">>", "<<<", ">>>", ">&", "<&"}
CmdEnd == {"<<", ">>", "<<<", ">>>", "&", "|", ")", "}", "&&", "||", "<", ">", ">&", "<&",
           "nl", ";", "eos"}
FullCmdEnd == {"nl", "eos", "}", ";", ")"}
DeclTokens == {"func", "cmd", "class", "alias", "abstract", "interface", "final", "@"}
UnaryOps == {"+", "-", "~", "!"}

RedirectAhead(s) == PeekAhead(s) \in {">", ">>", ">>>", ">&"}
CmdValidInt(s) == Tok(s) = "int" /\ ~Cur(s).b /\ RedirectAhead(s)
CmdValidAnd(s) == Tok(s) = "&" /\ ~Cur(s).b /\ RedirectAhead(s)
IsCmdStopPoint(s) == Tok(s) \in CmdEnd \/ CmdValidInt(s)
IsIoRedirect(s) == CmdValidInt(s) \/ Tok(s) \in IoTokens \/ CmdValidAnd(s)
\* An assignment, a call or an access is told from a command by one token more.
MatchLangStmt(s) ==
  \/ PeekAhead(s) \in AssignTokens
  \/ Tok(s) \in {"(", "%", "$("}
  \/ PeekAhead(s) \in {",", ".", "(", "[", "::"}

\* The binary operators, from the one that binds least.
Levels == << {"||"}, {"&&"}, ComparisonTokens \cup {"in", "instanceof", "is"}, {"|"}, {"^"},
             {"&"}, {"<<", ">>"}, {"+", "-"}, {"*", "/", "%"} >>

RECURSIVE Parse(_, _), ParserLetExp(_), ParserLambda(_), ParserDictionary(_), ParserCompFor(_)
RECURSIVE ParserParamsList(_), ParserArgumentsList(_), ParserExpNoTestList(_)
RECURSIVE ParserIoRedirectCmdList(_), ParserOrExp(_), ParserNotExp(_), ParserUnaryExp(_)
RECURSIVE ParserPostExp(_), ParserSlice(_), ParserExpr(_), ParserEllipsisExp(_)
RECURSIVE ParserAssignable(_), ParserExpList(_), ParserPostExpList(_), ParserAssignableList(_)
RECURSIVE ParserFunctionDeclaration(_, _, _), ParserSimpleCmd(_), ParserExpCmd(_)
RECURSIVE ParserCmdPipe(_), ParserCmdFull(_), ParserStmtList(_), ParserStmt(_), ParserBlock(_)
RECURSIVE ParserSimpleStmt(_, _), ParserIfStmt(_), ParserForInStmt(_), ParserSwitchStmt(_)
RECURSIVE ParserTryCatch(_), ParserClassDecl(_), ParserInterfaceDecl(_), ParserAnnotation(_)
RECURSIVE Joined(_, _, _), Binary(_, _), Several(_, _, _), PostTail(_), Params(_, _)
RECURSIVE Pieces(_, _), Path(_, _), Redirects(_, _), Pipe(_, _), CmdAndOrTail(_), Stmts(_, _)
RECURSIVE Cases(_, _, _), Catches(_, _), ClassDecls(_, _), IfaceDecls(_, _), Comps(_, _)
RECURSIVE GlobPieces(_, _), ParserIdList(_, _), Groups(_, _, _, _)

\* The functions of the parser, by name: what one of them reads may contain
\* what any of them reads.
Parse(rule, s) ==
  CASE rule = "PostExp" -> ParserPostExp(s)
    [] rule = "UnaryExp" -> ParserUnaryExp(s)
    [] rule = "OrExp" -> ParserOrExp(s)
    [] rule = "NotExp" -> ParserNotExp(s)
    [] rule = "LetExp" -> ParserLetExp(s)
    [] rule = "Assignable" -> ParserAssignable(s)
    [] rule = "Stmt" -> ParserStmt(s)
    [] rule = "StmtList" -> ParserStmtList(s)
    [] rule = "PostExpList" -> ParserPostExpList(s)
    [] rule = "AssignableList" -> ParserAssignableList(s)
    [] rule = "Block" -> ParserBlock(s)
    [] rule = "Lambda" -> ParserLambda(s)
    [] rule = "Dictionary" -> ParserDictionary(s)
    [] rule = "CompFor" -> ParserCompFor(s)
    [] rule = "ParamsList" -> ParserParamsList(s)
    [] rule = "ArgumentsList" -> ParserArgumentsList(s)
    [] rule = "ExpNoTestList" -> ParserExpNoTestList(s)
    [] rule = "IoRedirectCmdList" -> ParserIoRedirectCmdList(s)
    [] rule = "Slice" -> ParserSlice(s)
    [] rule = "Expr" -> ParserExpr(s)
    [] rule = "EllipsisExp" -> ParserEllipsisExp(s)
    [] rule = "ExpList" -> ParserExpList(s)
    [] rule = "Func" -> ParserFunctionDeclaration(s, FALSE, FALSE)
    [] rule = "FuncExp" -> ParserFunctionDeclaration(s, TRUE, FALSE)
    [] rule = "FuncAbstract" -> ParserFunctionDeclaration(s, FALSE, TRUE)
    [] rule = "SimpleCmd" -> ParserSimpleCmd(s)
    [] rule = "ExpCmd" -> ParserExpCmd(s)
    [] rule = "CmdPipe" -> ParserCmdPipe(s)
    [] rule = "CmdFull" -> ParserCmdFull(s)
    [] rule = "SimpleStmt" -> ParserSimpleStmt(s, FALSE)
    [] rule = "Assignment" -> ParserSimpleStmt(s, TRUE)
    [] rule = "IfStmt" -> ParserIfStmt(s)
    [] rule = "ForInStmt" -> ParserForInStmt(s)
    [] rule = "SwitchStmt" -> ParserSwitchStmt(s)
    [] rule = "TryCatch" -> ParserTryCatch(s)
    [] rule = "ClassDecl" -> ParserClassDecl(s)
    [] rule = "InterfaceDecl" -> ParserInterfaceDecl(s)
    [] rule = "Annotation" -> ParserAnnotation(s)

---------------------------------------------------------------------------
(* Lists: do { item } while (CheckComma())                                 *)

ParserOrExp(s)    == Binary(1, s)
ParserBitOrExp(s) == Binary(4, s)

ParserEllipsisExp(s) ==
  LET e == ParserBitOrExp(Next1(s)) IN Is(e.s, EllipsisExpression(e.n))

ParserAssignable(s) ==
  LET v == IF Tok(s) = "lambda" THEN Parse("Lambda", s) ELSE Parse("LetExp", s)
  IN Is(v.s, AssignableValue(v.n))

ParserExpr(s) == IF Tok(s) = "..." THEN Parse("EllipsisExp", s) ELSE Parse("LetExp", s)

Given(name, r, form) == Is(r.s, Argument(name, r.n, form))
ParserArgument(s) ==
  IF Tok(s) = "**" THEN Given(Null, Parse("Assignable", Next1(s)), "map")
  ELSE IF PeekAhead(s) = "="
  THEN IF Tok(s) # "id" THEN Error(s)
       ELSE Given(Identifier(s.i), Parse("Assignable", Next1(Advance(s))), "value")
  ELSE Given(Null, Parse(IF Tok(s) = "..." THEN "EllipsisExp" ELSE "Assignable", s), "value")

ParserKeyValue(s) ==
  LET k == Parse("LetExp", s)
      c == ValidToken(k.s)
      v == Parse("Assignable", Next1(c))
  IN IF Tok(c) # ":" THEN Error(c) ELSE Is(v.s, KeyValue(k.n, v.n))

Item(what, s) ==
  CASE what = "post" -> Parse("PostExp", s)
    [] what = "exp" -> Parse("Expr", s)
    [] what = "value" -> IF Tok(s) = "..." THEN Parse("EllipsisExp", s) ELSE Parse("Assignable", s)
    [] what = "notest" -> IF Tok(s) = "..." THEN Parse("EllipsisExp", s) ELSE Parse("OrExp", s)
    [] what = "arg" -> LET a == ParserArgument(s) IN Is(ValidToken(a.s), a.n)
    [] what = "pair" -> ParserKeyValue(s)

Several(what, s, seen) ==
  LET r == Item(what, ValidToken(s))
      all == Append(seen, r.n)
  IN IF Tok(r.s) = "," THEN Several(what, Advance(r.s), all) ELSE Is(r.s, all)

ParserPostExpList(s) == LET l == Several("post", s, <<>>) IN Is(l.s, ExpressionList(l.n))
ParserExpList(s) == LET l == Several("exp", s, <<>>) IN Is(l.s, ExpressionList(l.n))
ParserExpNoTestList(s) == LET l == Several("notest", s, <<>>) IN Is(l.s, ExpressionList(l.n))
ParserArgumentsList(s) == LET l == Several("arg", s, <<>>) IN Is(l.s, ArgumentsList(l.n))
ParserAssignableList(s) == LET l == Several("value", s, <<>>) IN Is(l.s, AssignableList(l.n))

\* Names only; an error returns no name at all.
ParserIdList(s0, seen) ==
  LET s == ValidToken(s0) IN
  IF Tok(s) # "id" THEN Is(ErrorMsg(s), <<>>)
  ELSE LET all == Append(seen, Identifier(s.i))
           a == Advance(s)
       IN IF Tok(a) = "," THEN ParserIdList(Advance(a), all) ELSE Is(a, all)

---------------------------------------------------------------------------
(* Expressions                                                             *)

\* The functions from ParserOrExp down to ParserTerm, one for each level, are
\* alike: operands of the next level, joined from the left by operators of
\* this one.  What was joined by an operator is followed by one that binds at
\* most as much; an operand that is missing, an error by now, is left out.
LevelOf(op) == IF \E k \in DOMAIN Levels : op \in Levels[k]
               THEN CHOOSE k \in DOMAIN Levels : op \in Levels[k] ELSE 0
\* Mutant: operators of one rank group from the right.
JoinedRight(k, top, l) ==
  LET j == LevelOf(Tok(l.s))
      r == Binary(j, Next1(l.s))
  IN IF j \notin k..top THEN l
     ELSE Joined(k, j, Is(r.s, IF IsNull(r.n) THEN l.n ELSE BinaryOperation(l.s.i, l.n, r.n)))

Joined(k, top, l) ==
  LET j == LevelOf(Tok(l.s))
      r == Binary(j + 1, Next1(l.s))
  IN IF j \notin k..top THEN l
     ELSE Joined(k, j, Is(r.s, IF IsNull(r.n) THEN l.n ELSE BinaryOperation(l.s.i, l.n, r.n)))

Binary(k, s) ==
  LET u == Parse("UnaryExp", s) IN IF IsNull(u.n) THEN u ELSE Joined(k, Len(Levels), u)

ParserUnaryExp(s) ==
  IF Tok(s) \in UnaryOps
  THEN LET e == Parse("UnaryExp", Next1(s)) IN Is(e.s, UnaryOperation(s.i, e.n))
  ELSE Parse("PostExp", s)

ParserNotExp(s) ==
  IF Tok(s) = "not"
  THEN LET e == Parse("NotExp", Next1(s)) IN Is(e.s, NotExpression(e.n))
  ELSE Parse("OrExp", s)

ParserIfElseExp(s) ==
  LET then == Parse("NotExp", s)
      cond == Parse("LetExp", Next1(then.s))
      c == ValidToken(cond.s)
      else == Parse("LetExp", Next1(c))
  IN IF Tok(then.s) # "if" THEN then
     ELSE IF Tok(c) # "else" THEN Error(c)
     ELSE Is(else.s, IfElseExpression(cond.n, then.n, else.n))

ParserLetExp(s) ==
  IF Tok(s) = "let"
  THEN LET a == Parse("Assignment", Next1(s)) IN Is(a.s, LetExpression(a.n))
  ELSE ParserIfElseExp(s)

\* x[i], x[i:j] with either end left out.
ParserSlice(s0) ==
  LET s == ValidToken(s0)
      start == IF Tok(s) = ":" THEN Is(s, Null) ELSE Parse("LetExp", s)
      c == IF Tok(s) = ":" THEN s ELSE ValidToken(start.s)
      past == Next1(c)
      end == IF Tok(past) \in {"]", ","} THEN Is(past, Null) ELSE Parse("LetExp", past)
  IN IF Tok(c) = ":" THEN Is(end.s, Slice(start.n, end.n)) ELSE Is(c, start.n)

\* An index, an attribute or a call after what was read so far.
PostTail(r) ==
  CASE Tok(r.s) = "[" ->
         LET x == Parse("Slice", Next1(r.s))
             c == ValidToken(x.s)
         IN IF Tok(c) # "]" THEN Error(c) ELSE PostTail(Is(Advance(c), Array(r.n, x.n)))
    [] Tok(r.s) = "." ->
         LET c == Next1(r.s) IN
         IF Tok(c) # "id" THEN Error(c)
         ELSE PostTail(Is(Advance(c), Attribute(r.n, Identifier(c.i))))
    [] Tok(r.s) = "(" ->
         LET o == Next1(r.s)
             a == IF Tok(o) = ")" THEN Is(o, ArgumentsList(<<>>)) ELSE Parse("ArgumentsList", o)
             c == ValidToken(a.s)
         IN IF Tok(c) # ")" THEN Error(c) ELSE PostTail(Is(Advance(c), FunctionCall(r.n, a.n)))
    [] OTHER -> r

ParserDictionary(s) ==
  LET o == Next1(s)
      l == Several("pair", o, <<>>)
      c == ValidToken(l.s)
  IN IF Tok(o) = "}" THEN Is(Advance(o), DictionaryInstantiation(<<>>))
     ELSE IF Tok(c) # "}" THEN Error(c) ELSE Is(Advance(c), DictionaryInstantiation(l.n))

\* One value in parentheses is that value.
ParserTupleInstantiation(s) ==
  LET o == Next1(s)
      l == Parse("AssignableList", o)
      c == ValidToken(l.s)
  IN IF Tok(o) = ")" THEN Is(Advance(o), TupleInstantiation(Null))
     ELSE IF Tok(c) # ")" THEN Error(c)
     ELSE Is(Advance(c), IF Len(l.n.kids) = 1 THEN l.n.kids[1] ELSE TupleInstantiation(l.n))

ParserCompIf(s) == LET e == Parse("OrExp", Next1(s)) IN Is(e.s, CompIf(e.n))
ParserCompFor(s) ==
  LET v == Parse("PostExpList", Next1(s))
      t == Parse("ExpNoTestList", Next1(v.s))
  IN IF Tok(v.s) # "in" THEN Error(v.s) ELSE Is(t.s, CompFor(v.n, t.n))
Comps(s, seen) ==
  IF Tok(s) \in {"for", "if"}
  THEN LET c == IF Tok(s) = "for" THEN Parse("CompFor", s) ELSE ParserCompIf(s)
       IN Comps(c.s, Append(seen, c.n))
  ELSE Is(s, seen)

\* What is in brackets, and their end.
InBrackets(r) ==
  LET c == ValidToken(r.s) IN IF Tok(c) # "]" THEN Error(c) ELSE Is(Advance(c), r.n)
AfterFirst(v) ==
  IF Tok(v.s) = "for"
  THEN LET comps == Comps(v.s, <<>>) IN InBrackets(Is(comps.s, ListComprehension(v.n, comps.n)))
  ELSE LET l == IF Tok(v.s) = "," THEN Several("value", Next1(v.s), <<v.n>>) ELSE Is(v.s, <<v.n>>)
       IN InBrackets(Is(l.s, ArrayInstantiation(AssignableList(l.n))))
ParserArrayInstantiation(s) ==
  LET o == Next1(s) IN
  IF Tok(o) = "]" THEN Is(Advance(o), ArrayInstantiation(Null))
  ELSE IF Tok(o) # "..." THEN AfterFirst(Parse("Assignable", o))
  ELSE LET l == Parse("AssignableList", o) IN InBrackets(Is(l.s, ArrayInstantiation(l.n)))

GlobPieces(s, seen) ==
  IF Tok(s) = "eos" THEN Error(s)
  ELSE IF Tok(s) # "%" THEN GlobPieces(Advance(s), Append(seen, CmdPiece(s.i)))
  ELSE IF seen = <<>> THEN Error(Advance(s)) ELSE Is(Advance(s), Glob(seen))

\* Each interpolated part is read by a parser of its own, up to where its
\* expression ends; what that parser reports is not asked for.
Groups(s, id, parts, seen) ==
  IF parts = <<>> THEN Is(Advance(s), LiteralStringsGroup(s.i, id, seen))
  ELSE LET p == Parse("Expr", Begin(Head(parts), 1))
       IN Groups([s EXCEPT !.dead = @ \/ p.s.dead], id, Tail(parts), Append(seen, p.n))
ParserLiteralStringsGroup(s, id) == Groups(s, id, Cur(s).parts, <<>>)

\* A name right before a string goes with it.
ParserScopeIdentifier(s) ==
  LET a == Advance(s) IN
  IF Tok(a) # "str" THEN Is(a, Identifier(s.i))
  ELSE IF Cur(s).b THEN Error(a)
  ELSE ParserLiteralStringsGroup(a, Identifier(s.i))

\* The token that is no literal is passed, and becomes the error's token
\* whatever error came first.
LiteralExp(s0) ==
  LET s == ValidToken(s0)
      a == Advance(s)
  IN CASE Tok(s0) = "str" -> ParserLiteralStringsGroup(s0, Null)
       [] Tok(s) \in {"int", "real", "true", "false"} -> Is(a, Literal(s.i))
       [] Tok(s) = "null" -> Is(a, NullExpression)
       [] Tok(s) \in {"%", "%%"} -> GlobPieces(a, <<>>)
       [] OTHER -> Is(SetTokenError(ErrorMsg(a), Tok(s)), Null)

\* The token after a command in $( is passed, whatever it is.
ParserPrimaryExp(s) ==
  CASE Tok(s) = "id"  -> ParserScopeIdentifier(s)
    [] Tok(s) = "varenvid" -> Is(Advance(s), VarEnvId(s.i))
    [] Tok(s) = "$(" ->
         LET c == Parse("CmdFull", Advance(s)) IN Is(Advance(c.s), CmdExpression(c.n))
    [] Tok(s) = "["   -> ParserArrayInstantiation(s)
    [] Tok(s) = "{"   -> Parse("Dictionary", s)
    [] Tok(s) = "("   -> ParserTupleInstantiation(s)
    [] Tok(s) = "func" -> Parse("FuncExp", s)
    [] OTHER          -> LiteralExp(s)

ParserPostExp(s) == PostTail(ParserPrimaryExp(s))

---------------------------------------------------------------------------
(* Functions                                                               *)

Params(s, seen) ==
  LET a == Next1(s)
      form == CASE Tok(a) = "..." -> "variadic" [] Tok(a) = "**" -> "kwargs" [] OTHER -> "plain"
      v == IF form # "plain" THEN Is(Next1(a), Null)
           ELSE IF Tok(a) = "=" THEN Parse("Assignable", Next1(a)) ELSE Is(a, Null)
      all == Append(seen, FunctionParam(Identifier(s.i), v.n, form))
  IN IF Tok(s) # "id" THEN [s |-> ErrorMsg(s), n |-> seen, ok |-> FALSE]
     ELSE IF Tok(v.s) = "," THEN Params(Next1(v.s), all)
     ELSE [s |-> v.s, n |-> all, ok |-> TRUE]
ParserParamsList(s) == Params(s, <<>>)

\* The body is one value, which is returned.
ParserLambda(s) ==
  LET a == Advance(s)
      p == IF Tok(a) = ":" THEN [s |-> a, n |-> <<>>, ok |-> TRUE] ELSE Parse("ParamsList", a)
      v == Parse("Assignable", Advance(p.s))
      body == Block(StatementList(<<ReturnStatement(AssignableList(<<v.n>>))>>))
  IN IF Tok(p.s) # ":" THEN Error(p.s) ELSE Is(v.s, FunctionExpression(p.n, body))

ParserFunctionDeclaration(s, lambda, abstract) ==
  LET name == Next1(s)
      open == IF lambda THEN name ELSE Next1(name)
      o == Next1(open)
      p == IF Tok(o) = ")" THEN [s |-> o, n |-> <<>>, ok |-> TRUE] ELSE Parse("ParamsList", o)
      past == Next1(p.s)
      b == IF abstract THEN Is(past, Null) ELSE Parse("Block", past)
  IN IF Tok(s) # "func" THEN Error(s)
     ELSE IF ~lambda /\ Tok(name) # "id" THEN Error(name)
     ELSE IF Tok(open) # "(" THEN Error(open)
     ELSE IF Tok(p.s) # ")" THEN Error(p.s)
     ELSE IF ~p.ok THEN Is(p.s, Null)
     ELSE Is(b.s, IF lambda THEN FunctionExpression(p.n, b.n)
                  ELSE FunctionDeclaration(p.n, Identifier(name.i), b.n))

---------------------------------------------------------------------------
(* Commands                                                                *)

\* ${value} or $@{values}
ParserExpCmd(s) ==
  LET a == Advance(s)
      e == Parse("LetExp", a)
  IN IF Tok(a) = "nl" THEN Error(a)
     ELSE IF Tok(e.s) # "}" THEN Error(e.s)
     ELSE Is(Advance(e.s), CmdValueExpr(e.n, Tok(s) = "$@{"))

Pieces(s, seen) ==
  IF IsCmdStopPoint(s) THEN Is(s, seen)
  ELSE IF Tok(s) \in {"${", "$@{"}
       THEN LET e == Parse("ExpCmd", s) IN Pieces(e.s, Append(seen, e.n))
  ELSE Pieces(Advance(s), Append(seen, CmdPiece(s.i)))

ParserSubShell(s) ==
  LET a == Advance(s)
      self == Tok(a) = "&"
      b == Parse("Block", IF self THEN Advance(a) ELSE a)
  IN Is(b.s, SubShell(b.n, self))

ParserSimpleCmd(s0) ==
  LET s == ValidToken(s0)
      p == Pieces(s, <<>>)
  IN IF Tok(s) = "shell" THEN ParserSubShell(s)
     ELSE IF p.n = <<>> THEN Error(s) ELSE Is(p.s, SimpleCmd(p.n))

\* The name of a file: words and values up to where a command could stop.
Path(s, seen) ==
  IF IsCmdStopPoint(s) THEN Is(s, seen)
  ELSE IF Tok(s) = "${" THEN LET e == Parse("ExpCmd", s) IN Path(e.s, Append(seen, e.n))
  ELSE Path(Advance(s), Append(seen, CmdPiece(s.i)))

ParserIoRedirectCmd(s) ==
  LET op == IF CmdValidInt(s) \/ CmdValidAnd(s) THEN Advance(s) ELSE s
      p == Path(Advance(op), <<>>)
      int == IF CmdValidInt(s) THEN Literal(s.i) ELSE Null
  IN Is(p.s, CmdIoRedirect(int, FilePathCmd(p.n), IF CmdValidAnd(s) THEN "all" ELSE Tok(op)))

\* Mutant: a redirection replaces the one before it.
RedirectsLast(s, seen) ==
  IF IsIoRedirect(s) THEN LET r == ParserIoRedirectCmd(s) IN Redirects(r.s, <<r.n>>)
  ELSE Is(s, seen)

Redirects(s, seen) ==
  IF IsIoRedirect(s) THEN LET r == ParserIoRedirectCmd(s) IN Redirects(r.s, Append(seen, r.n))
  ELSE Is(s, seen)

ParserIoRedirectCmdList(s) ==
  LET c == Parse("SimpleCmd", s)
      r == Redirects(c.s, <<>>)
  IN IF IsNull(c.n) THEN c
     ELSE Is(r.s, IF r.n = <<>> THEN c.n ELSE CmdIoRedirectList(c.n, r.n))

Pipe(s, seen) ==
  LET c == Parse("IoRedirectCmdList", s)
      all == Append(seen, c.n)
  IN IF Tok(c.s) = "|" THEN Pipe(Next1(c.s), all) ELSE Is(c.s, all)
ParserCmdPipe(s) ==
  LET p == Pipe(s, <<>>) IN Is(p.s, IF Len(p.n) = 1 THEN p.n[1] ELSE CmdPipeSequence(p.n))

CmdAndOrTail(l) ==
  IF Tok(l.s) \in {"||", "&&"}
  THEN LET r == Parse("CmdPipe", Next1(l.s))
       IN CmdAndOrTail(Is(r.s, IF IsNull(r.n) THEN l.n ELSE CmdAndOr(l.s.i, l.n, r.n)))
  ELSE l
ParserCmdAndOr(s) == LET l == Parse("CmdPipe", s) IN IF IsNull(l.n) THEN l ELSE CmdAndOrTail(l)

ParserCmdFull(s) ==
  LET c == ParserCmdAndOr(s) IN
  IF IsNull(c.n) THEN c
  ELSE IF Tok(c.s) = "&" THEN Is(Advance(c.s), CmdFull(c.n, TRUE))
  ELSE IF Tok(c.s) \notin FullCmdEnd THEN Error(c.s)
  ELSE Is(c.s, CmdFull(c.n, FALSE))

---------------------------------------------------------------------------
(* Statements                                                              *)

Stmts(s, seen) ==
  IF Tok(s) \in {"eos", "}"} THEN Is(s, StatementList(seen))
  ELSE IF Tok(s) \in {"nl", ";"} THEN Stmts(Advance(s), seen)
  ELSE LET r == Parse("Stmt", s)
       IN IF IsNull(r.n) THEN r ELSE Stmts(r.s, Append(seen, r.n))
ParserStmtList(s) == Stmts(s, <<>>)

ParserBlock(s) ==
  LET l == Parse("StmtList", Next1(s))
      c == ValidToken(l.s)
  IN IF Tok(s) # "{" THEN Error(s)
     ELSE IF Tok(c) = "}" THEN Is(Advance(c), Block(l.n))
     ELSE IF IsNull(l.n) THEN Is(c, Null) ELSE Error(c)

\* Mutant: else may be on the next line.
ParserIfStmtElse(s) ==
  LET e == Parse("LetExp", Next1(s))
      t == Parse("Block", ValidToken(e.s))
      c == Next1(ValidToken(t.s))
      f == IF Tok(c) = "if" THEN Parse("IfStmt", c) ELSE Parse("Block", c)
  IN IF IsNull(t.n) THEN t
     ELSE IF Tok(ValidToken(t.s)) # "else" THEN Is(t.s, IfStatement(e.n, t.n, Null))
     ELSE IF IsNull(f.n) THEN f ELSE Is(f.s, IfStatement(e.n, t.n, f.n))

ParserIfStmt(s) ==
  LET e == Parse("LetExp", Next1(s))
      t == Parse("Block", ValidToken(e.s))
      c == Next1(t.s)
      f == IF Tok(c) = "if" THEN Parse("IfStmt", c) ELSE Parse("Block", c)
  IN IF IsNull(t.n) THEN t
     ELSE IF Tok(t.s) # "else" THEN Is(t.s, IfStatement(e.n, t.n, Null))
     ELSE IF IsNull(f.n) THEN f ELSE Is(f.s, IfStatement(e.n, t.n, f.n))

ParserWhileStmt(s) ==
  LET e == Parse("LetExp", Next1(s))
      b == Parse("Block", ValidToken(e.s))
  IN Is(b.s, WhileStatement(e.n, b.n))

ParserForInStmt(s) ==
  LET v == Parse("PostExpList", Next1(s))
      t == Parse("ExpList", Next1(v.s))
      b == Parse("Block", ValidToken(t.s))
  IN IF Tok(v.s) # "in" THEN Error(v.s)
     ELSE Is(b.s, IF IsNull(b.n) THEN Null ELSE ForInStatement(v.n, t.n, b.n))

ParserCaseStmt(s) ==
  LET l == Parse("ExpList", Next1(s))
      o == ValidToken(l.s)
      b == Parse("Block", IF Tok(o) = "{" THEN o ELSE ErrorMsg(o))
  IN Is(b.s, CaseStatement(l.n, b.n))

ParserDefaultStmt(s) == LET b == Parse("Block", Advance(s)) IN Is(b.s, DefaultStatement(b.n))

\* A second default takes the place of the first.
Cases(s0, cases, default) ==
  LET s == ValidToken(s0) IN
  CASE Tok(s) = "case" -> LET c == ParserCaseStmt(s) IN Cases(c.s, Append(cases, c.n), default)
    [] Tok(s) = "default" -> LET d == ParserDefaultStmt(s) IN Cases(d.s, cases, d.n)
    [] OTHER -> [s |-> s, n |-> cases, default |-> default]

ParserSwitchStmt(s) ==
  LET o == Next1(s)
      e == IF Tok(o) = "{" THEN Is(o, Null) ELSE Parse("LetExp", o)
      c == Cases(Advance(e.s), <<>>, Null)
  IN IF Tok(e.s) # "{" THEN Error(e.s)
     ELSE IF Tok(c.s) # "}" THEN Error(c.s)
     ELSE Is(Advance(c.s), SwitchStatement(e.n, c.n, c.default))

ParserVarEnvStmt(s) ==
  LET id == Next1(s)
      eq == Next1(id)
      e == Parse("LetExp", Next1(eq))
  IN IF Tok(id) # "id" THEN Error(id)
     ELSE IF Tok(eq) # "=" THEN Error(eq)
     ELSE Is(e.s, VarEnvStatement(Identifier(id.i), e.n))

\* Expressions with commas must be assigned to; one alone may stand.
ParserSimpleStmt(s, force_assignment) ==
  LET l == Parse("PostExpList", s)
      v == Parse("AssignableList", Next1(l.s))
  IN IF Len(l.n.kids) > 1 /\ Tok(l.s) # "=" THEN Error(l.s)
     ELSE IF Tok(l.s) \in AssignTokens
     THEN Is(v.s, AssignmentStatement(Tok(l.s), l.n, v.n))
     ELSE IF force_assignment THEN Error(l.s) ELSE Is(l.s, ExpressionStatement(l.n.kids[1]))

ParserGlobalAssignment(s) ==
  LET l == ParserIdList(Advance(s), <<>>)
      v == Parse("AssignableList", Next1(l.s))
  IN IF l.n = <<>> THEN Is(l.s, Null)
     ELSE IF Tok(l.s) # "=" THEN Error(l.s)
     ELSE Is(v.s, GlobalAssignmentStatement(AssignmentStatement("=", ExpressionList(l.n), v.n)))

ParserDelStmt(s) == LET l == Parse("PostExpList", Next1(s)) IN Is(l.s, DelStatement(l.n))

ParserReturnStmt(s) ==
  LET a == Advance(s)
      l == Parse("AssignableList", a)
  IN IF Tok(a) \in {"nl", ";", "}"} THEN Is(a, ReturnStatement(Null))
     ELSE Is(l.s, ReturnStatement(l.n))

ParserThrow(s) == LET e == Parse("LetExp", Advance(s)) IN Is(e.s, ThrowStatement(e.n))

ParserImportIdListStmt(s) ==
  LET l == ParserIdList(s, <<>>)
      f == Advance(l.s)
  IN IF l.n = <<>> THEN Is(l.s, Null)
     ELSE IF Tok(l.s) # "from" THEN Error(l.s)
     ELSE IF Tok(f) # "str" THEN Error(f)
     ELSE Is(Advance(f), ImportStatement(f.i, l.n))

ParserImportPathStmt(s) ==
  LET as == Advance(s)
      id == Next1(as)
  IN IF Tok(as) # "as" THEN Error(as)
     ELSE IF Tok(id) # "id" THEN Error(id)
     ELSE Is(Advance(id), ImportStatement(s.i, <<Identifier(id.i)>>))

ParserImportStarStmt(s) ==
  LET a == Advance(s)
      f == Advance(a)
  IN IF Tok(a) # "from" THEN Error(a)
     ELSE IF Tok(f) # "str" THEN Error(f)
     ELSE Is(Advance(f), ImportStatement(f.i, <<>>))

ParserImportStmt(s0) ==
  LET s == Next1(s0) IN
  CASE Tok(s) = "id" -> ParserImportIdListStmt(s)
    [] Tok(s) = "str" -> ParserImportPathStmt(s)
    [] Tok(s) = "*" -> ParserImportStarStmt(s)
    [] OTHER -> Error(s)

\* What may be deferred; return, break and throw are not seen as statements
\* here but as the names of commands.
ParserDeferableStmt(s) ==
  CASE Tok(s) = "if" -> Parse("IfStmt", s)
    [] Tok(s) = "while" -> ParserWhileStmt(s)
    [] Tok(s) = "continue" -> Is(Advance(s), ContinueStatement)
    [] Tok(s) = "switch" -> Parse("SwitchStmt", s)
    [] Tok(s) = "del" -> ParserDelStmt(s)
    [] Tok(s) = "for" -> Parse("ForInStmt", s)
    [] Tok(s) = "{" -> Parse("Block", s)
    [] Tok(s) = "varenv" -> ParserVarEnvStmt(s)
    [] Tok(s) = "try" -> Parse("TryCatch", s)
    [] OTHER -> IF MatchLangStmt(s) THEN Parse("SimpleStmt", s) ELSE Parse("CmdFull", s)

ParserDeferStmt(s0) ==
  LET s == Next1(s0)
      d == ParserDeferableStmt(s)
  IN IF Tok(s) = "defer" THEN Error(s) ELSE Is(d.s, DeferStatement(d.n))

ParserFinally(s) == LET b == Parse("Block", Next1(s)) IN Is(b.s, FinallyStatement(b.n))

\* ok is FALSE when no name follows as, whatever was read before.
Catches(s0, seen) ==
  LET s == ValidToken(s0)
      l == Parse("ExpList", Advance(s))
      named == Tok(l.s) = "as"
      id == Advance(l.s)
      b == Parse("Block", IF named THEN Advance(id) ELSE l.s)
      var == IF named THEN Identifier(id.i) ELSE Null
  IN IF Tok(s) # "catch" THEN [s |-> s, n |-> seen, ok |-> TRUE]
     ELSE IF named /\ Tok(id) # "id" THEN [s |-> ErrorMsg(id), n |-> <<>>, ok |-> FALSE]
     ELSE Catches(b.s, Append(seen, CatchStatement(l.n, b.n, var)))
ParserCatchList(s) == Catches(s, <<>>)

ParserTryCatch(s) ==
  LET b == Parse("Block", Next1(s))
      t == ValidToken(b.s)
      c == IF Tok(t) = "catch" THEN ParserCatchList(t) ELSE [s |-> t, n |-> <<>>, ok |-> TRUE]
      f == ParserFinally(c.s)
  IN IF Tok(t) \notin {"catch", "finally"} THEN Error(t)
     ELSE IF ~c.ok THEN Is(c.s, Null)
     ELSE IF Tok(c.s) = "finally" THEN Is(f.s, TryCatchStatement(b.n, c.n, f.n))
     ELSE Is(c.s, TryCatchStatement(b.n, c.n, Null))

---------------------------------------------------------------------------
(* Declarations                                                            *)

ParserCmdDeclaration(s) ==
  LET id == Advance(s)
      b == Parse("Block", Advance(id))
  IN IF Tok(id) # "id" THEN Error(id) ELSE Is(b.s, CmdDeclaration(Identifier(id.i), b.n))

ParserAliasDeclaration(s) ==
  LET id == Advance(s)
      eq == Advance(id)
      c == Parse("SimpleCmd", Next1(eq))
  IN IF Tok(id) # "id" THEN Error(id)
     ELSE IF Tok(eq) # "=" THEN Error(eq)
     ELSE Is(c.s, AliasDeclaration(c.n, Identifier(id.i)))

ParserVariableDecl(s) ==
  LET id == Advance(s)
      eq == Advance(id)
      v == Parse("Assignable", Advance(eq))
  IN IF Tok(id) # "id" THEN Error(id)
     ELSE IF Tok(eq) # "=" THEN Error(eq)
     ELSE Is(v.s, VariableDeclaration(Identifier(id.i), v.n))

\* The members of a class or of an interface, until the block ends or a token
\* begins no member; a member that is not one is kept as Null.
Abstract(s) ==
  CASE Tok(s) = "func" -> Parse("FuncAbstract", s)
    [] Tok(s) = "class" -> Parse("ClassDecl", s)
    [] OTHER -> Error(s)
ClassDecls(s0, seen) ==
  LET s == ValidToken(s0)
      m == CASE Tok(s) = "func" -> Parse("Func", s)
             [] Tok(s) = "class" -> Parse("ClassDecl", s)
             [] Tok(s) = "final" -> Parse("ClassDecl", Advance(s))
             [] Tok(s) = "abstract" -> Abstract(Advance(s))
             [] Tok(s) = "static" -> Parse("Func", Advance(s))
             [] Tok(s) = "var" -> ParserVariableDecl(s)
             [] Tok(s) = "@" -> Parse("Annotation", s)
  IN IF Tok(s) \notin {"func", "class", "final", "abstract", "static", "var", "@"}
     THEN Is(s, seen) ELSE ClassDecls(m.s, Append(seen, m.n))

ParserClassBlock(s) ==
  LET l == ClassDecls(Advance(s), <<>>)
  IN IF Tok(l.s) # "}" THEN Error(l.s) ELSE Is(Next1(l.s), ClassBlock(ClassDeclList(l.n)))

IfaceDecls(s0, seen) ==
  LET s == ValidToken(s0)
      f == Parse("FuncAbstract", s)
  IN IF Tok(s) # "func" THEN Is(s, seen) ELSE IfaceDecls(f.s, Append(seen, f.n))

ParserInterfaceBlock(s) ==
  LET l == IfaceDecls(Advance(s), <<>>)
  IN IF Tok(l.s) # "}" THEN Error(l.s)
     ELSE Is(Next1(l.s), InterfaceBlock(InterfaceDeclList(l.n)))

\* The interfaces after a colon.
Implements(s) == IF Tok(s) = ":" THEN Parse("PostExpList", Next1(s)) ELSE Is(s, Null)

ParserInterfaceDecl(s) ==
  LET id == Next1(s)
      l == Implements(Next1(id))
      o == ValidToken(l.s)
      b == ParserInterfaceBlock(o)
  IN IF Tok(id) # "id" THEN Error(id)
     ELSE IF Tok(o) # "{" THEN Error(o)
     ELSE Is(b.s, InterfaceDeclaration(Identifier(id.i), l.n, b.n))

ParserClassDecl(s) ==
  LET id == Next1(s)
      a == Next1(id)
      p == IF Tok(a) = "(" THEN Parse("PostExp", Next1(a)) ELSE Is(a, Null)
      l == Implements(IF Tok(a) = "(" THEN Next1(p.s) ELSE a)
      o == ValidToken(l.s)
      b == ParserClassBlock(o)
  IN IF Tok(id) # "id" THEN Error(id)
     ELSE IF Tok(a) = "(" /\ Tok(p.s) # ")" THEN Error(p.s)
     ELSE IF Tok(o) # "{" THEN Error(o)
     ELSE Is(b.s, ClassDeclaration(Identifier(id.i), p.n, l.n, b.n))

\* The node of an annotation asks its declaration what it is, also when there
\* is none.
ParserAnnotation(s) ==
  LET e == Parse("PostExp", Advance(s))
      a == Advance(e.s)
      d == CASE Tok(a) = "func" -> Parse("Func", a)
             [] Tok(a) = "static" -> Parse("Func", Advance(a))
             [] Tok(a) = "class" -> Parse("ClassDecl", a)
             [] Tok(a) \in {"final", "abstract"} -> Parse("ClassDecl", Advance(a))
             [] Tok(a) = "interface" -> Parse("InterfaceDecl", a)
  IN IF Tok(e.s) # "nl" THEN Error(e.s)
     ELSE IF Tok(a) \notin {"func", "static", "class", "final", "abstract", "interface"}
          THEN Error(a)
     ELSE Is([d.s EXCEPT !.dead = @ \/ IsNull(d.n)], AnnotationDeclaration(e.n, d.n))

ParserStmtDecl(s) ==
  CASE Tok(s) = "func" -> Parse("Func", s)
    [] Tok(s) = "cmd" -> ParserCmdDeclaration(s)
    [] Tok(s) = "class" -> Parse("ClassDecl", s)
    [] Tok(s) \in {"final", "abstract"} -> Parse("ClassDecl", Advance(s))
    [] Tok(s) = "interface" -> Parse("InterfaceDecl", s)
    [] Tok(s) = "alias" -> ParserAliasDeclaration(s)
    [] Tok(s) = "@" -> Parse("Annotation", s)

---------------------------------------------------------------------------
(* A statement, and its end when it has no block                           *)

Ended(r) ==
  CASE Tok(r.s) \in {"eos", "}"} -> r
    [] Tok(r.s) \in {"nl", ";"} -> Is(Advance(r.s), r.n)
    [] OTHER -> Error(r.s)

ParserStmt(s) ==
  CASE Tok(s) = "if" -> Parse("IfStmt", s)
    [] Tok(s) = "while" -> ParserWhileStmt(s)
    [] Tok(s) = "break" -> Ended(Is(Advance(s), BreakStatement))
    [] Tok(s) = "continue" -> Ended(Is(Advance(s), ContinueStatement))
    [] Tok(s) = "return" -> Ended(ParserReturnStmt(s))
    [] Tok(s) = "switch" -> Parse("SwitchStmt", s)
    [] Tok(s) = "for" -> Parse("ForInStmt", s)
    [] Tok(s) = "defer" -> Ended(ParserDeferStmt(s))
    [] Tok(s) = "global" -> Ended(ParserGlobalAssignment(s))
    [] Tok(s) = "del" -> Ended(ParserDelStmt(s))
    [] Tok(s) = "import" -> Ended(ParserImportStmt(s))
    [] Tok(s) = "try" -> Parse("TryCatch", s)
    [] Tok(s) = "varenv" -> ParserVarEnvStmt(s)
    [] Tok(s) = "throw" -> Ended(ParserThrow(s))
    [] Tok(s) = "{" -> Parse("Block", s)
    [] Tok(s) \in DeclTokens -> ParserStmtDecl(s)
    [] OTHER -> IF MatchLangStmt(s) THEN Ended(Parse("SimpleStmt", s))
                ELSE IF Tok(s) \in {"catch", "finally"} THEN Error(s)
                ELSE Ended(Parse("CmdFull", s))

\* What the shell makes of a text: run it, ask for more of it, or refuse it.
AstGen(tokens, from) == Parse("StmtList", Begin(tokens, from))
StmtIncomplete(s) == s.bad /\ s.e = "eos"
Outcome(r) ==
  CASE r.s.dead -> "crash"
    [] ~r.s.dead /\ ~r.s.bad -> "accepted"
    [] ~r.s.dead /\ StmtIncomplete(r.s) -> "incomplete"
    [] OTHER -> "refused"
=============================================================================
