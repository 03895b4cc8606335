---------------------------- MODULE MCInputRouting ----------------------------
(***************************************************************************)
(* Small instances of InputRouting: the keyboards the runs are about.      *)
(***************************************************************************)
EXTENDS InputRouting

CONSTANTS d1, d2, c1, c2, c3

OneKey == {<<d1, c1>>}
OneKeyboard == {<<d1, c1>>, <<d1, c2>>}
FullKeyboard == {d1} \X {c1, c2, c3}
OneKeyEach == {<<d1, c1>>, <<d2, c1>>}

=============================================================================
