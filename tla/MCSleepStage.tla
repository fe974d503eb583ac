---------------------------- MODULE MCSleepStage ----------------------------
(* An instance of SleepStage for TLC. *)
EXTENDS SleepStage, TLC

CONSTANTS g, a, b, c, ga, ab, bc, j

\* Three assemblies in a row, the first on anchored ground, and a joint between
\* two that may touch.
RowEnds == ga :> {g, a} @@ ab :> {a, b} @@ bc :> {b, c} @@ j :> {a, b}
RowOver == j :> {ab}
RowEdges == <<ga, ab, bc, j>>
RowAsms == <<g, a, b, c>>
=============================================================================
