----------------------------- MODULE MCPrompt -----------------------------
(* Users for Prompt: the words of each are enough for one part of the      *)
(* language.                                                               *)
EXTENDS Prompt

Spaced(k) == Token(k, TRUE, <<>>)
User(given, words, most, slack) ==
  [given |-> [i \in DOMAIN given |-> Spaced(given[i])], words |-> {Spaced(k) : k \in words},
   most |-> most, slack |-> slack]

Expressions ==
  User(<<"id", "=">>, {"id", "+", "*", "(", ")", ",", "not", "if", "else"}, 8, 0)
Operators ==
  User(<<"id", "=">>, {"id", "+", "|", "&&", "-", "in", "||"}, 8, 0)
Blocks ==
  User(<<>>, {"id", "{", "}", "if", "while", ";"}, 6, 0)
Ifs ==
  User(<<"if", "id", "{">>, {"id", "{", "}", "if", "else"}, 9, 0)
Tries ==
  User(<<"try", "{">>, {"id", "{", "}", "catch", "finally", "as"}, 8, 0)
Switches ==
  User(<<"switch", "{">>, {"id", "{", "}", "case", "default"}, 8, 0)
Loops ==
  User(<<"for">>, {"id", "{", "}", "for", "in", ",", ";"}, 8, 0)
Commands ==
  User(<<>>, {"id", "|", "&&", "&", ">", ";", "$(", ")", "="}, 5, 1)
Captures ==
  User(<<"id", "=", "$(">>, {"id", "|", "&&", "&", ">", ")", ";"}, 7, 0)
Values ==
  User(<<"id">>, {"${", "}", "$@{", "(", ")", "=", "id", ";"}, 6, 0)
Functions ==
  User(<<"func", "id", "(">>, {"id", ")", "{", "}", ",", "...", "**", "="}, 10, 0)
Classes ==
  User(<<"class", "id", "{">>, {"id", "func", "(", ")", "{", "}", "var", "="}, 9, 0)
Members ==
  User(<<"class", "id", "{">>, {"id", "{", "}", "abstract", "static", "final", "class", "func", "(", ")"}, 9, 0)
Interfaces ==
  User(<<"interface", "id">>, {"id", "{", "}", "func", "(", ")", ":"}, 9, 0)
Annotations ==
  User(<<"@", "id">>, {"id", "func", "class", "(", ")", "{", "}", "final"}, 9, 0)
Words ==
  User(<<>>, {"id", "alias", "cmd", "shell", "&", "=", "{", "}"}, 5, 0)
Imports ==
  User(<<"import">>, {"id", "str", "from", "as", "*", ","}, 7, 1)
Scopes ==
  User(<<>>, {"id", "global", "del", "varenv", "=", ",", ";"}, 5, 1)
Lambdas ==
  User(<<"id", "=">>, {"id", "lambda", ":", ",", "{", "}", "..."}, 8, 0)
Comprehensions ==
  User(<<"id", "=", "[", "id", "for">>, {"id", "]", "for", "in", "if", ","}, 12, 0)
Slices ==
  User(<<"id", "=", "id", "[">>, {"id", "[", ":", "]", ".", "("}, 10, 0)
Globs ==
  User(<<>>, {"id", "=", "%", "%%", ";"}, 5, 0)
Jumps ==
  User(<<>>, {"id", "return", "throw", "defer", "break", "continue", "{", "}", ";"}, 5, 0)

\* Descriptors and joined words: what no blank follows.
Redirections ==
  [Commands EXCEPT !.most = 6, !.words = {Token(k, FALSE, <<>>) : k \in {"int", ">", ">>", "&", "id", ">&"}}]
\* Strings with parts, one of them no expression, joined to a name or not.
Strings ==
  [Expressions EXCEPT !.most = 7, !.words =
     {Token("str", TRUE, p) : p \in {<<>>, << <<Spaced("id")>> >>, << <<Spaced("*")>>, <<Spaced("id")>> >>}}
       \cup {Token("id", b, <<>>) : b \in BOOLEAN} \cup {Spaced("+"), Spaced(",")}]

MCUsers == {
  Expressions, Operators, Blocks, Ifs, Tries, Switches, Loops, Commands, Captures, Values,
  Functions, Classes, Members, Interfaces, Annotations, Words, Imports,
  Scopes, Lambdas, Comprehensions, Slices, Globs, Jumps, Redirections, Strings}
=============================================================================
