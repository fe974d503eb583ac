-------------------------- MODULE MCLocalBackpack --------------------------
(***************************************************************************)
(* Three tools and a hopper bin.                                           *)
(***************************************************************************)
EXTENDS LocalBackpack, TLC

CONSTANTS t1, t2, t3, b1
Tools == {t1, t2, t3}
Bins == {b1}
Alike == Permutations(Tools)
=============================================================================
