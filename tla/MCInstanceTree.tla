--------------------------- MODULE MCInstanceTree ---------------------------
(***************************************************************************)
(* The game with a model in it; a service that may be asked for, and a     *)
(* second one that a script or a faulty provider would make. Both may be   *)
(* put into the model and each other, and the model into them.             *)
(***************************************************************************)
EXTENDS InstanceTree, TLC

CONSTANTS game, model, s1, s2

All == {game, model, s1, s2}
Services == {s1, s2}
Alike == Permutations(Services)
Start == [x \in Instance |-> IF x = game THEN <<model>> ELSE <<>>]
=============================================================================
