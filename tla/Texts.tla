------------------------------- MODULE Texts --------------------------------
(***************************************************************************)
(* The methods of strings, objects/str-object.cc, on sequences of          *)
(* characters: 0 is the blank, 1 .. 9 small letters and 11 .. 19 the same  *)
(* letters as capitals.  The boost algorithms the code calls are modelled  *)
(* by what they do.                                                        *)
(***************************************************************************)
EXTENDS Integers, Sequences, SequencesExt, FiniteSetsExt

Npos == -1
Blank == 0
ToLower(s) == [k \in DOMAIN s |-> IF s[k] > 10 THEN s[k] - 10 ELSE s[k]]
ToUpper(s) == [k \in DOMAIN s |-> IF s[k] \in 1 .. 9 THEN s[k] + 10 ELSE s[k]]

\* The places, from 0, at which part stands in s.
Places(s, part) == {p \in 0 .. Len(s) - Len(part) : SubSeq(s, p + 1, p + Len(part)) = part}

\* std::string::find; a negative pos is a very large one.
Find(s, part, pos) ==
  LET places == {p \in Places(s, part) : p >= pos}
  IN IF pos < 0 \/ places = {} THEN Npos ELSE Min(places)

\* StringCountFunc: places that overlap count.
Count(s, part) == Cardinality(Places(s, part))

EndsWith(s, part) == Len(part) <= Len(s) /\ Len(s) - Len(part) \in Places(s, part)

TrimLeft(s) ==
  LET solid == {k \in DOMAIN s : s[k] # Blank}
  IN IF solid = {} THEN <<>> ELSE SubSeq(s, Min(solid), Len(s))
TrimRight(s) ==
  LET solid == {k \in DOMAIN s : s[k] # Blank}
  IN IF solid = {} THEN <<>> ELSE SubSeq(s, 1, Max(solid))
Trim(s) == TrimLeft(TrimRight(s))

\* boost::replace_*: an empty text is found nowhere.
PutAt(s, p, part, by) == SubSeq(s, 1, p) \o by \o SubSeq(s, p + Len(part) + 1, Len(s))
ReplaceFirst(s, part, by) ==
  IF part = <<>> \/ Places(s, part) = {} THEN s ELSE PutAt(s, Min(Places(s, part)), part, by)
ReplaceLast(s, part, by) ==
  IF part = <<>> \/ Places(s, part) = {} THEN s ELSE PutAt(s, Max(Places(s, part)), part, by)
RECURSIVE Replaced(_, _, _)
Replaced(s, part, by) ==
  LET p == Min(Places(s, part))
      rest == SubSeq(s, p + Len(part) + 1, Len(s))
  IN IF part = <<>> \/ Places(s, part) = {} THEN s
     ELSE SubSeq(s, 1, p) \o by \o Replaced(rest, part, by)
EraseAll(s, part) == Replaced(s, part, <<>>)

\* boost::split on any character of delim, delimiters in a row counting once.
RECURSIVE Split(_, _)
Split(s, delim) ==
  LET cuts == {k \in DOMAIN s : s[k] \in ToSet(delim)}
      cut == Min(cuts)
      after == {k \in cut .. Len(s) : s[k] \notin ToSet(delim)}
  IN IF cuts = {} THEN <<s>>
     ELSE <<SubSeq(s, 1, cut - 1)>> \o
          (IF after = {} THEN <<<<>>>> ELSE Split(SubSeq(s, Min(after), Len(s)), delim))
=============================================================================
