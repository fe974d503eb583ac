---------------------------- MODULE MCClumpStage ----------------------------
(* Instances of ClumpStage for TLC. *)
EXTENDS ClumpStage

CONSTANTS p1, p2, p3, p4, r1, r2, r3, r4, m1, m2, k1, k2

\* Three primitives in a triangle of rigid joints, one bigger than the others,
\* and a contact.
TriangleEnds == r1 :> <<p1, p2>> @@ r2 :> <<p2, p3>> @@ r3 :> <<p3, p1>> @@ k1 :> <<p1, p2>>
TriangleArea == p1 :> 2 @@ p2 :> 1 @@ p3 :> 1

\* Three primitives: a rigid joint and two motors close a cycle, and contacts.
MotorEnds == r1 :> <<p1, p2>> @@ m1 :> <<p2, p3>> @@ m2 :> <<p3, p1>>
             @@ k1 :> <<p1, p3>> @@ k2 :> <<p1, p2>>
MotorArea == p1 :> 1 @@ p2 :> 1 @@ p3 :> 1

\* Two parts of different size, welded.
PairEnds == r1 :> <<p1, p2>>
PairArea == p1 :> 2 @@ p2 :> 1

\* A triangle with a fourth primitive hanging from it.
TailEnds == r1 :> <<p1, p2>> @@ r2 :> <<p2, p3>> @@ r3 :> <<p3, p1>> @@ r4 :> <<p2, p4>>
TailArea == p1 :> 1 @@ p2 :> 1 @@ p3 :> 1 @@ p4 :> 4

\* A free pair on a motor to an anchored part, and a rigid joint to it.
LateEnds == r1 :> <<p1, p2>> @@ r2 :> <<p2, p3>> @@ m1 :> <<p1, p3>>
LateArea == p1 :> 1 @@ p2 :> 1 @@ p3 :> 3
=============================================================================
