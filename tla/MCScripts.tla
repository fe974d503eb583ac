------------------------------- MODULE MCScripts -------------------------------
(***************************************************************************)
(* Two scripts on a backend. The first may have two runs at a time and     *)
(* makes a thread more in each, for a slot or a delay; the second has its  *)
(* main thread only.                                                       *)
(***************************************************************************)
EXTENDS Scripts

CONSTANTS s1, s2

TwoScripts == {s1, s2}
TwoLives == [s \in Script |-> IF s = s1 THEN 2 ELSE 1]
OneExtra == [s \in Script |-> IF s = s1 THEN 1 ELSE 0]
=============================================================================
