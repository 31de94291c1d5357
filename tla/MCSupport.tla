------------------------------ MODULE MCSupport -----------------------------
(* Supporting code of the daemon for TLC: three elements, two of which have *)
(* equal keys.                                                              *)
EXTENDS Support

Elements == {"e1", "e2", "e3"}
KeyOf(e) == IF e = "e3" THEN 2 ELSE 1
=============================================================================
