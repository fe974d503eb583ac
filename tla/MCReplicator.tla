----------------------------- MODULE MCReplicator -----------------------------
(***************************************************************************)
(* A server and two clients; an instance in the character of one of them,  *)
(* two properties of it, and dictionaries that hold one name only.         *)
(***************************************************************************)
EXTENDS Replicator

CONSTANTS n1, n2, v1, v2
Spoken == {n1, n2, Empty}
OneName == {n1, Empty}
Values == {v1, v2}
Alike == {f @@ g : f \in Permutations({n1, n2}), g \in Permutations(Values)}
=============================================================================
