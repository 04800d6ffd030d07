----------------------------- MODULE MCControl -----------------------------
(* The sorts of program of the run: one of every statement, whose clauses  *)
(* are all quiet; and one of what it takes to jump out of a decorator, in  *)
(* which a break or continue may leave it.                                 *)
EXTENDS Control

Sorts ==
  {[stmts |-> AllStmts, quiet |-> Clauses, depth |-> 8],
   [stmts |-> Jumps \cup Decls \cup {"while", "call", "try"},
    quiet |-> Clauses \ {"decorator"}, depth |-> 10]}
=============================================================================
