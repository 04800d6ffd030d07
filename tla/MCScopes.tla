------------------------------ MODULE MCScopes ------------------------------
(* Model values for the function and for the values of Scopes; values are  *)
(* only ever copied and compared, so they may be exchanged.                *)
EXTENDS Scopes, TLC

CONSTANTS f, u, v

Functions == {f}
OneName == {"x"}
TwoValues == {u, v}

(* What a table holds that is on no stack any more is never read again, and *)
(* result is read by no action.                                            *)
OnStack(t) == \E h \in Funcs : \E i \in DOMAIN stack[h] : stack[h][i] = t
Live ==
  <<[t \in DOMAIN tables |-> IF OnStack(t) THEN tables[t] ELSE "freed"],
    stack, posFunc, main, calls, born, lambdas, around>>

ValuesAlike == Permutations(TwoValues)
=============================================================================
