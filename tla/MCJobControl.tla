---------------------------- MODULE MCJobControl ----------------------------
(* Small programs for JobControl: the pipelines a run may launch.          *)
EXTENDS JobRefinement

ExtOnly    == {<<"ext">>}
Pipelines  == {<<"ext">>, <<"bad">>, <<"ext", "decl">>, <<"cd">>, <<"cd", "ext">>, <<"sub">>,
               <<"exit">>}
ExtPair    == {<<"ext">>, <<"ext", "ext">>}
=============================================================================
