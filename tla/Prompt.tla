------------------------------ MODULE Prompt ------------------------------
(***************************************************************************)
(* The prompt: Runner::ExecInterative (shell/runner.cc) hands the lines    *)
(* the user types to Interpreter::ExecInterative (interpreter.cc), which   *)
(* parses what is pending at each line and runs it, asks for more, or      *)
(* reports an error; next to it, Interpreter::Exec, which parses all of    *)
(* the same text as one script.                                            *)
(***************************************************************************)
EXTENDS Parser

CONSTANTS
  Users  \* each has a beginning typed, words to type, how many tokens to type
         \* at most, and how many more after a text went wrong (slack)

ASSUME PromptAssumption ==
  \A u \in Users : u.most \in Nat /\ u.slack \in Nat /\ Len(u.given) <= u.most

VARIABLES
  user,    \* who types
  typed,   \* all tokens typed since the shell began
  from,    \* where the pending source, str_source, begins
  script,  \* what the parser makes of everything typed, as one script
  wrong,   \* how many tokens were typed since the script was first refused
  ran,     \* the statements given to the executor at the prompt
  lines,   \* session_history: the lines, by number, of the sources that ran
  error    \* the line an exception came from, and the line shown with it

vars == <<user, typed, from, script, wrong, ran, lines, error>>

Newline == Token("nl", TRUE, <<>>)
None == [at |-> 0, shown |-> 0]
\* The number of the line a token is on.
Line(i) == 1 + Cardinality({j \in 1..i-1 : typed[j].k = "nl"})
NothingPending == from > Len(typed)
Alive == ~script.s.dead

Init ==
  /\ user \in Users
  /\ typed = user.given /\ from = 1 /\ wrong = 0
  /\ script = AstGen(typed, 1)
  /\ ran = <<>> /\ lines = <<>> /\ error = None

\* A token more on the line, from readline.  A script that holds all of it
\* (Interpreter::Exec) runs only if all of it is accepted.
Type(t) ==
  /\ typed' = Append(typed, t)
  /\ script' = AstGen(typed', 1)
  /\ wrong' = IF wrong > 0 \/ Outcome(script') = "refused" THEN wrong + 1 ELSE 0
  /\ UNCHANGED user

\* The end of a line: the pending source, parsed as r, waits for more, ...
ConcatLine(r) == Outcome(r) = "incomplete" /\ UNCHANGED <<from, ran, lines, error>>

\* ... is refused, and the exception ends ExecInterative and its history, ...
RefuseSource(r) ==
  /\ Outcome(r) = "refused"
  /\ from' = Len(typed) + 2 /\ lines' = <<>>
  /\ UNCHANGED <<ran, error>>

\* ... or runs, where a line of it may throw.
RunSource(r) ==
  LET first == Line(from)
      source == [l \in 1..Line(Len(typed)) - first + 1 |-> first + l - 1]
  IN /\ Outcome(r) = "accepted"
     /\ from' = Len(typed) + 2
     /\ ran' = ran \o r.n.kids
     /\ \/ lines' = lines \o source /\ UNCHANGED error
        \/ \E l \in DOMAIN source :
             /\ error' = [at |-> source[l], shown |-> (lines \o source)[l]]
             /\ lines' = <<>>

Entered(r) == ConcatLine(r) \/ RefuseSource(r) \/ RunSource(r)
Enter == Entered(AstGen(typed, from))

\* An empty first line is skipped.
Next ==
  \E t \in user.words \cup {Newline} :
    /\ Alive /\ wrong <= user.slack /\ Len(typed) < user.most
    /\ Type(t)
    /\ IF t = Newline THEN ~NothingPending /\ Enter
       ELSE Len(typed) + 1 < user.most /\ UNCHANGED <<from, ran, lines, error>>

Spec == Init /\ [][Next]_vars

---------------------------------------------------------------------------
(* What is promised.                                                       *)

Accepted == Outcome(script) = "accepted"
Kinds(kinds) == {i \in 1..Len(typed) : typed[i].k \in kinds}
\* A brace that closes no block ends the script: what follows is not read.
ReadToEnd == Tok(script.s) = "eos"
ParensMatch == Cardinality(Kinds({"(", "$("})) = Cardinality(Kinds({")"}))
\* The parser takes any token after abstract and final for class.
ClassAfter == \A i \in Kinds({"abstract", "final"}) :
                i < Len(typed) => typed[i + 1].k \in {"class", "func"}

RECURSIVE Nodes(_), TokensOf(_)
Nodes(n) == {n} \cup UNION {Nodes(n.kids[k]) : k \in DOMAIN n.kids}
\* The tokens of a tree, from left to right; those of the parts of a string
\* are tokens of another text.
TokensOf(n) ==
  LET own == IF n.token = 0 THEN <<>> ELSE <<n.token>>
      kids == IF n.type = "LiteralStringsGroup" THEN <<n.kids[1]>> ELSE n.kids
      part[k \in 0..Len(kids)] == IF k = 0 THEN own ELSE part[k - 1] \o TokensOf(kids[k])
  IN part[Len(kids)]

\* The token before the end of the line just typed.
LastOfLine == IF Len(typed) < 2 THEN "nl" ELSE typed[Len(typed) - 1].k
\* A return without a value ends at a newline, a semicolon or a brace, but not
\* at the end of the text (IsEndOfStmt): the prompt waits for one more line.
ReturnWaits == ~NothingPending /\ LastOfLine = "return"

\* At the end of each line the shell has run what it would run of the text as a
\* script, if that is a script: no line is refused that a later line makes
\* right, no statement runs before it is complete, and the prompt waits for
\* more only after a return without a value.  A catch or a finally on a line
\* of its own is no such text: the try statement was complete without it.
PromptIsScript ==
  (/\ typed # <<>> /\ typed[Len(typed)] = Newline
   /\ Accepted /\ ReadToEnd /\ ParensMatch
   /\ \A i \in Kinds({"catch", "finally"}) : i > 1 => typed[i - 1].k # "nl")
    => \/ ran = script.n.kids
       \/ ReturnWaits /\ ran = SubSeq(script.n.kids, 1, Len(ran))

\* An accepted text has every name, number and string of it in its tree, once
\* (parser.cc: no list, error path or moved pointer loses one).
NothingLost ==
  (Accepted /\ ReadToEnd /\ ParensMatch /\ ClassAfter /\ Cardinality(Kinds({"default"})) <= 1)
    => LET w == TokensOf(script.n)
           named == Kinds({"id", "int", "real", "str", "varenvid"})
       IN \A i \in named : Cardinality({k \in DOMAIN w : w[k] = i}) = 1

\* The tree of an accepted text has no child missing that its executor uses
\* without asking (ast.h).  The parts of a string are the exception: what their
\* parser reports is lost.
SoundAst ==
  Accepted => \A n \in Nodes(script.n) : \A k \in DOMAIN n.kids :
    IsNull(n.kids[k]) /\ n.type # "LiteralStringsGroup" => k \in MayBeNull(n)

\* The tree of an accepted text holds all of the text, and all its executor uses.
TreeIsWhole == NothingLost /\ SoundAst

\* An operator takes what is written on its two sides, as far as operators
\* that bind less: those of one rank group from the left.
Rank(op) ==
  CHOOSE r \in 1..9 :
    op \in << {"||"}, {"&&"}, {"<", ">", "==", "in", "instanceof", "is"}, {"|"}, {"^"}, {"&"},
              {"<<", ">>"}, {"+", "-"}, {"*", "/", "%"} >>[r]
BindsAsWritten ==
  Accepted => \A n \in Nodes(script.n) :
    n.type = "BinaryOperation" =>
      LET Op(x) == Rank(typed[x.token].k) IN
      \A k \in {1, 2} :
        /\ \A i \in {TokensOf(n.kids[k])[j] : j \in DOMAIN TokensOf(n.kids[k])} :
             IF k = 1 THEN i < n.token ELSE i > n.token
        /\ n.kids[k].type = "BinaryOperation" =>
             IF k = 1 THEN Op(n.kids[k]) >= Op(n) ELSE Op(n.kids[k]) > Op(n)
=============================================================================
