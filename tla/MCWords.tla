------------------------------ MODULE MCWords ------------------------------
(* Sources for Words: all sequences, up to a length, of what each           *)
(* vocabulary lets a user write.                                            *)
EXTENDS Words

Chars(cs) == {<<c>> : c \in cs}
UpTo(n, parts) == UNION {[1..k -> parts] : k \in 1..n}
Quoted(q, texts) == {<< <<q>> >> \o t \o << <<q>> >> : t \in texts}

Comparisons == UpTo(5, Chars({"<", ">", "=", "&", "-", " "}))
Operators   == UpTo(4, Chars({"*", "%", "|", ":", "+", "!", ";", "="}))
Dollars     == UpTo(5, Chars({"$", "@", "{", "(", "a", "."}))
Plains      == UpTo(5, Chars({"i", "f", "?", "\\", "nl", " ", "#"}))
Numbers     == UpTo(5, Chars({"0", "1", ".", "a", "tab"}))
Escapes     == UpTo(5, Chars({"\"", "'", "\\", "0", "u", "a", "nl"}))
Interpolated == Quoted("'", UpTo(6, Chars({"{", "}", "\"", "a", "\\"})))
Captured     == Quoted("'", UpTo(6, Chars({"{", "}", "$", "(", ")"})))
Commands ==
  {<< <<"c">> >> \o t : t \in UpTo(5, {
      <<" ">>, <<"a">>, <<"1">>, <<"*">>, <<"\"", "*", "\"">>, <<"\"", "$", "{", "v", "}", "\"">>,
      <<"$", "{", "v", "}">>, <<"$", "@", "{", "l", "}">>})}

MCTexts == Comparisons \cup Operators \cup Dollars \cup Plains \cup Numbers \cup Escapes
             \cup Interpolated \cup Captured \cup Commands
MCValue(name) == IF name = <<"l">> THEN <<<<"p">>, <<"q">>>> ELSE <<<<"v", "*">>>>
MCGlobbed(word) == IF \E k \in DOMAIN word : word[k] = "*" THEN <<<<"g">>, <<"h">>>> ELSE <<word>>
=============================================================================
