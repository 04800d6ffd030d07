---------------------------- MODULE MCArguments ----------------------------
(***************************************************************************)
(* Instance of Arguments for TLC.                                          *)
(***************************************************************************)
EXTENDS Arguments

MCUnpacked == {{1}, {2, MaxParams + 1}}
=============================================================================
