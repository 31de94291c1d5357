---------------------------- MODULE MCLoadSystem ----------------------------
(* Instances of LoadSystem for TLC.                                         *)
EXTENDS LoadSystem

\* No interface, as many as there are slots, one more; counters that rise and
\* fall.
SomeTables == {<<>>, <<1, 0>>, <<0, 1, 1>>}
=============================================================================
