-------------------------- MODULE JointStageProofs --------------------------
(***************************************************************************)
(* JointStage's bookkeeping is exact for every number of primitives and    *)
(* joints, as long as no joint is given the same primitive at both ends.   *)
(* HeldExactly, NoneStuck and EdgeListsExact support one another, and need *)
(* one fact more: the two ends of a joint differ. One lemma per operation  *)
(* shows that it preserves the conjunction.                                *)
(***************************************************************************)
EXTENDS JointStage, TLAPS

\* The ends of a joint are two different primitives, or one at least is NULL.
DistinctEnds == \A j \in Joint : ends[j][0] = ends[j][1] => ends[j][0] = NoPrim

\* The inductive invariant.
IInv == TypeOK /\ HeldExactly /\ NoneStuck /\ EdgeListsExact /\ DistinctEnds

-----------------------------------------------------------------------------
\* The ends of a joint are the primitives at its two sides.
LEMMA EndsMembership ==
  ASSUME TypeOK, NEW j \in Joint, NEW p
  PROVE  /\ p \in EndsOf(j) <=> p # NoPrim /\ (p = ends[j][0] \/ p = ends[j][1])
         /\ p \in EndsOf(j) => p \in Prim
BY DEF TypeOK, EndsOf, Side

\* A joint downstream has its two ends in the pipeline.
LEMMA DownstreamEnds ==
  ASSUME TypeOK, NoneStuck, NEW j \in Joint, stage[j] = "clump"
  PROVE  ends[j][0] \in inPipe /\ ends[j][1] \in inPipe
BY DEF TypeOK, NoneStuck, InWorld, HasPrimitivesDownstream, Side

LEMMA InitInv == Init => IInv
<1> SUFFICES ASSUME Init PROVE IInv
  OBVIOUS
<1> USE JointStageAssumption DEF Init, Side, Stage
<1>1. TypeOK
  BY DEF TypeOK
<1>2. HeldExactly
  BY DEF HeldExactly
<1>3. NoneStuck
  BY DEF NoneStuck, InWorld
<1>4. EdgeListsExact
  BY DEF EdgeListsExact
<1>5. DistinctEnds
  BY DEF DistinctEnds
<1> QED BY <1>1, <1>2, <1>3, <1>4, <1>5 DEF IInv

\* World::insertPrimitive preserves the invariant.
LEMMA InsertPrimitiveInv ==
  ASSUME IInv, NEW p \in Prim, InsertPrimitive(p)
  PROVE  IInv'
<1> USE JointStageAssumption
<1> DEFINE push == {j \in Joint : /\ <<p, j>> \in jointMap
                                  /\ \A i \in Side : ends[j][i] \in inPipe \cup {p}}
<1>0. TypeOK /\ HeldExactly /\ NoneStuck /\ EdgeListsExact /\ DistinctEnds
  BY DEF IInv
<1>1. /\ inPipe' = inPipe \cup {p}
      /\ stage' = [j \in Joint |-> IF j \in push THEN "clump" ELSE stage[j]]
      /\ incomplete' = incomplete \ push
      /\ jointMap' = jointMap \ {x \in Prim \X push : x[1] \in EndsOf(x[2])}
      /\ edgeList' = [q \in Prim |-> edgeList[q] \cup {j \in push : q \in EndsOf(j)}]
      /\ ends' = ends
  BY DEF InsertPrimitive, Followers
<1>2. \A j \in Joint : EndsOf(j)' = EndsOf(j)
  BY <1>1 DEF EndsOf
<1>3. \A j \in push : /\ j \in Joint /\ stage[j] = "joint" /\ p \in EndsOf(j)
                      /\ \A i \in Side : ends[j][i] \in inPipe \cup {p}
  BY <1>0 DEF HeldExactly
<1>4. TypeOK'
  BY <1>0, <1>1 DEF TypeOK, Stage
<1>5. \A j \in Joint : stage'[j] = IF j \in push THEN "clump" ELSE stage[j]
  BY <1>1
<1>6. HeldExactly'
  <2>1. \A j \in Joint : j \in incomplete' <=> stage'[j] = "joint"
    BY <1>0, <1>1, <1>5 DEF HeldExactly
  <2>2. ASSUME NEW j \in Joint, NEW q \in Prim
        PROVE  <<q, j>> \in jointMap' <=> stage'[j] = "joint" /\ q \in EndsOf(j)
    <3>1. <<q, j>> \in jointMap' <=>
            <<q, j>> \in jointMap /\ ~(j \in push /\ q \in EndsOf(j))
      BY <1>1
    <3> QED BY <3>1, <1>0, <1>5, <1>3 DEF HeldExactly
  <2> QED BY <2>1, <2>2, <1>2 DEF HeldExactly
<1>7. NoneStuck'
  <2> SUFFICES ASSUME NEW j \in Joint, stage'[j] # "out"
               PROVE  stage'[j] = "clump" <=> \A i \in Side : ends[j][i] \in inPipe \cup {p}
    BY <1>1 DEF NoneStuck, InWorld, HasPrimitivesDownstream
  <2>1. CASE j \in push
    BY <2>1, <1>3, <1>5
  <2>2. CASE j \notin push
    <3>1. stage[j] # "out" /\ stage'[j] = stage[j]
      BY <2>2, <1>5
    <3>2. stage[j] = "clump" <=> \A i \in Side : ends[j][i] \in inPipe
      BY <3>1, <1>0 DEF NoneStuck, InWorld, HasPrimitivesDownstream
    <3>3. CASE stage[j] = "clump"
      BY <3>1, <3>2, <3>3
    <3>4. CASE stage[j] = "joint"
      <4>1. <<p, j>> \in jointMap => ~\A i \in Side : ends[j][i] \in inPipe \cup {p}
        BY <2>2
      <4>2. <<p, j>> \notin jointMap => p # ends[j][0] /\ p # ends[j][1]
        BY <3>4, <1>0, EndsMembership, p # NoPrim DEF HeldExactly
      <4>3. <<p, j>> \notin jointMap => ~\A i \in Side : ends[j][i] \in inPipe \cup {p}
        BY <4>2, <3>2, <3>4 DEF Side
      <4> QED BY <4>1, <4>3, <3>1, <3>4
    <3> QED BY <3>1, <3>3, <3>4, <1>0 DEF TypeOK, Stage
  <2> QED BY <2>1, <2>2
<1>8. EdgeListsExact'
  BY <1>0, <1>1, <1>2, <1>3, <1>5 DEF EdgeListsExact, TypeOK
<1>9. DistinctEnds'
  BY <1>0, <1>1 DEF DistinctEnds
<1> QED BY <1>4, <1>6, <1>7, <1>8, <1>9 DEF IInv

\* Destroying joints that are downstream, as World::destroyJoints and
\* World::removePrimitive do, preserves the invariant: p leaves the pipeline
\* only with every joint on its edge list destroyed.
LEMMA DestroyedInv ==
  ASSUME IInv, NEW p \in inPipe, NEW ignore \in SUBSET Prim,
         stage' = [j \in Joint |-> IF j \in Destroyed(p, ignore) THEN "out" ELSE stage[j]],
         edgeList' = Unlisted(Destroyed(p, ignore)),
         UNCHANGED <<ends, incomplete, jointMap>>,
         inPipe' = inPipe \/ (ignore = {} /\ inPipe' = inPipe \ {p})
  PROVE  IInv'
<1> USE JointStageAssumption
<1> DEFINE gone == {j \in edgeList[p] : EndsOf(j) \cap ignore = {}}
<1>0. TypeOK /\ HeldExactly /\ NoneStuck /\ EdgeListsExact /\ DistinctEnds /\ p \in Prim
  BY DEF IInv, TypeOK
<1>1. /\ stage' = [j \in Joint |-> IF j \in gone THEN "out" ELSE stage[j]]
      /\ edgeList' = [q \in Prim |-> edgeList[q] \ gone]
      /\ ends' = ends /\ incomplete' = incomplete /\ jointMap' = jointMap
      /\ inPipe' \subseteq inPipe
  BY DEF Destroyed, Unlisted
<1>2. \A j \in Joint : EndsOf(j)' = EndsOf(j)
  BY <1>1 DEF EndsOf
<1>3. \A j \in gone : j \in Joint /\ stage[j] = "clump"
  BY <1>0 DEF EdgeListsExact, TypeOK
<1>4. TypeOK'
  BY <1>0, <1>1 DEF TypeOK, Stage
<1>5. \A j \in Joint : stage'[j] = IF j \in gone THEN "out" ELSE stage[j]
  BY <1>1
<1>6. HeldExactly'
  BY <1>0, <1>1, <1>2, <1>3, <1>5 DEF HeldExactly
<1>7. NoneStuck'
  <2> SUFFICES ASSUME NEW j \in Joint, j \notin gone, stage[j] # "out"
               PROVE  stage[j] = "clump" <=> \A i \in Side : ends[j][i] \in inPipe'
    BY <1>1, <1>5 DEF NoneStuck, InWorld, HasPrimitivesDownstream
  <2>1. stage[j] = "clump" <=> \A i \in Side : ends[j][i] \in inPipe
    BY <1>0 DEF NoneStuck, InWorld, HasPrimitivesDownstream
  <2>2. CASE inPipe' = inPipe
    BY <2>1, <2>2
  <2>3. CASE ignore = {} /\ inPipe' = inPipe \ {p}
    <3>1. j \notin edgeList[p]
      BY <2>3
    <3>2. stage[j] = "clump" => p \notin EndsOf(j)
      BY <3>1, <1>0 DEF EdgeListsExact
    <3>3. stage[j] = "clump" => \A i \in Side : ends[j][i] # p
      BY <3>2, <1>0, EndsMembership, p # NoPrim DEF Side
    <3> QED BY <2>1, <2>3, <3>3
  <2> QED BY <2>2, <2>3
<1>8. EdgeListsExact'
  BY <1>0, <1>1, <1>2, <1>3, <1>5 DEF EdgeListsExact, TypeOK
<1>9. DistinctEnds'
  BY <1>0, <1>1 DEF DistinctEnds
<1> QED BY <1>4, <1>6, <1>7, <1>8, <1>9 DEF IInv

\* World::removePrimitive preserves the invariant: its destruction leaves
\* JointStage::onPrimitiveRemoving no joint to file.
LEMMA RemovePrimitiveInv ==
  ASSUME IInv, NEW p \in Prim, RemovePrimitive(p)
  PROVE  IInv'
<1>1. Destroyed(p, {}) = edgeList[p]
  BY DEF Destroyed
<1>2. /\ UNION {Pairs(j, EndsOf(j)) : j \in edgeList[p] \ Destroyed(p, {})} = {}
      /\ edgeList[p] \ Destroyed(p, {}) = {}
  BY <1>1
<1>3. /\ p \in inPipe /\ inPipe' = inPipe \ {p}
      /\ stage' = [j \in Joint |-> IF j \in Destroyed(p, {}) THEN "out" ELSE stage[j]]
      /\ edgeList' = Unlisted(Destroyed(p, {}))
      /\ UNCHANGED <<ends, incomplete, jointMap>>
  BY <1>2 DEF RemovePrimitive
<1> QED BY <1>3, DestroyedInv

\* JointStage::onEdgeAdded of a joint from outside, once the joints in gone,
\* all of them downstream, have been destroyed.
LEMMA EnterInv ==
  ASSUME IInv, NEW j \in Joint, stage[j] = "out",
         NEW gone \in Displaced(j), Enter(j, gone)
  PROVE  IInv'
<1> USE JointStageAssumption
<1>0. TypeOK /\ HeldExactly /\ NoneStuck /\ EdgeListsExact /\ DistinctEnds
  BY DEF IInv
<1>1. \A d \in gone : d \in Joint /\ d # j /\ stage[d] = "clump"
  BY <1>0 DEF Displaced, JointsBetween, EdgeListsExact
<1>2. inPipe' = inPipe /\ ends' = ends
  BY DEF Enter
<1>3. \A k \in Joint : EndsOf(k)' = EndsOf(k)
  BY <1>2 DEF EndsOf
<1>4. CASE HasPrimitivesDownstream(ends[j])
  <2>1. /\ stage' = [k \in Joint |-> IF k = j THEN "clump"
                                     ELSE IF k \in gone THEN "out" ELSE stage[k]]
        /\ edgeList' = [p \in Prim |-> IF p \in {ends[j][0], ends[j][1]}
                                       THEN (edgeList[p] \ gone) \cup {j}
                                       ELSE edgeList[p] \ gone]
        /\ incomplete' = incomplete /\ jointMap' = jointMap
    BY <1>4 DEF Enter, Listed, Unlisted
  <2>2. \A k \in Joint : stage'[k] = IF k = j THEN "clump"
                                     ELSE IF k \in gone THEN "out" ELSE stage[k]
    BY <2>1
  <2>3. TypeOK'
    BY <1>0, <1>2, <2>1 DEF TypeOK, Stage
  <2>4. HeldExactly'
    BY <1>0, <1>1, <1>3, <2>1, <2>2 DEF HeldExactly
  <2>5. NoneStuck'
    BY <1>0, <1>1, <1>2, <1>4, <2>2 DEF NoneStuck, InWorld, HasPrimitivesDownstream
  <2>6. EdgeListsExact'
    <3> SUFFICES ASSUME NEW k \in Joint, NEW p \in Prim
                 PROVE  k \in edgeList'[p] <=> stage'[k] = "clump" /\ p \in EndsOf(k)
      BY <1>3 DEF EdgeListsExact
    <3>1. k \in edgeList[p] <=> stage[k] = "clump" /\ p \in EndsOf(k)
      BY <1>0 DEF EdgeListsExact
    <3>2. p \in EndsOf(j) <=> p = ends[j][0] \/ p = ends[j][1]
      BY <1>0, EndsMembership
    <3> QED BY <3>1, <3>2, <2>1, <2>2, <1>1
  <2> QED BY <2>3, <2>4, <2>5, <2>6, <1>0, <1>2 DEF IInv, DistinctEnds
<1>5. CASE ~HasPrimitivesDownstream(ends[j])
  <2>1. /\ stage' = [k \in Joint |-> IF k = j THEN "joint"
                                     ELSE IF k \in gone THEN "out" ELSE stage[k]]
        /\ incomplete' = incomplete \cup {j}
        /\ jointMap' = jointMap \cup {<<q, j>> : q \in EndsOf(j) \ {NoPrim}}
        /\ edgeList' = [p \in Prim |-> edgeList[p] \ gone]
    BY <1>5 DEF Enter, Unlisted, Pairs
  <2>2. \A k \in Joint : stage'[k] = IF k = j THEN "joint"
                                     ELSE IF k \in gone THEN "out" ELSE stage[k]
    BY <2>1
  <2>3. TypeOK'
    <3>1. {<<q, j>> : q \in EndsOf(j) \ {NoPrim}} \subseteq Prim \X Joint
      BY <1>0, EndsMembership
    <3> QED BY <1>0, <1>2, <2>1, <3>1 DEF TypeOK, Stage
  <2>4. HeldExactly'
    <3>1. \A k \in Joint, p \in Prim :
            <<p, k>> \in jointMap' <=> <<p, k>> \in jointMap \/ (k = j /\ p \in EndsOf(j))
      BY <2>1
    <3> QED BY <1>0, <1>1, <1>3, <2>1, <2>2, <3>1 DEF HeldExactly
  <2>5. NoneStuck'
    BY <1>0, <1>1, <1>2, <1>5, <2>2 DEF NoneStuck, InWorld, HasPrimitivesDownstream
  <2>6. EdgeListsExact'
    BY <1>0, <1>1, <1>3, <2>1, <2>2 DEF EdgeListsExact
  <2> QED BY <2>3, <2>4, <2>5, <2>6, <1>0, <1>2 DEF IInv, DistinctEnds
<1> QED BY <1>4, <1>5

\* World::removeJoint preserves the invariant.
LEMMA RemoveJointInv ==
  ASSUME IInv, NEW j \in Joint, RemoveJoint(j)
  PROVE  IInv'
<1> USE JointStageAssumption
<1>0. TypeOK /\ HeldExactly /\ NoneStuck /\ EdgeListsExact /\ DistinctEnds
  BY DEF IInv
<1>1. inPipe' = inPipe /\ ends' = ends /\ stage' = [stage EXCEPT ![j] = "out"]
  BY DEF RemoveJoint
<1>2. \A k \in Joint : EndsOf(k)' = EndsOf(k)
  BY <1>1 DEF EndsOf
<1>3. \A k \in Joint : stage'[k] = IF k = j THEN "out" ELSE stage[k]
  BY <1>0, <1>1 DEF TypeOK
<1>4. \/ /\ stage[j] = "clump"
         /\ edgeList' = [p \in Prim |-> edgeList[p] \ {j}]
         /\ incomplete' = incomplete /\ jointMap' = jointMap
      \/ /\ stage[j] = "joint"
         /\ incomplete' = incomplete \ {j}
         /\ jointMap' = jointMap \ {<<q, j>> : q \in EndsOf(j) \ {NoPrim}}
         /\ edgeList' = edgeList
  BY <1>0 DEF RemoveJoint, Unmapped, Unlisted, Pairs, TypeOK, Stage
<1>5. TypeOK'
  BY <1>0, <1>1, <1>4 DEF TypeOK, Stage
<1>6. HeldExactly'
  <2>1. ASSUME NEW k \in Joint, NEW p \in Prim
        PROVE  <<p, k>> \in jointMap' <=>
                 <<p, k>> \in jointMap /\ ~(k = j /\ stage[j] = "joint" /\ p \in EndsOf(j))
    BY <1>4
  <2> QED BY <1>0, <1>2, <1>3, <1>4, <2>1 DEF HeldExactly
<1>7. NoneStuck'
  BY <1>0, <1>1, <1>3 DEF NoneStuck, InWorld, HasPrimitivesDownstream
<1>8. EdgeListsExact'
  BY <1>0, <1>2, <1>3, <1>4 DEF EdgeListsExact
<1> QED BY <1>0, <1>1, <1>5, <1>6, <1>7, <1>8 DEF IInv, DistinctEnds

\* Joint::setJointCoord preserves the invariant.
LEMMA ChangeCoordInv ==
  ASSUME IInv, NEW j \in Joint, ChangeCoord(j)
  PROVE  IInv'
<1> USE JointStageAssumption
<1>0. TypeOK /\ HeldExactly /\ NoneStuck /\ EdgeListsExact /\ DistinctEnds
  BY DEF IInv
<1>1. PICK gone \in Displaced(j) :
        /\ stage' = [k \in Joint |-> IF k \in gone THEN "out" ELSE stage[k]]
        /\ edgeList' = [p \in Prim |-> edgeList[p] \ gone]
  BY DEF ChangeCoord, Unlisted
<1>2. \A d \in gone : d \in Joint /\ stage[d] = "clump"
  BY <1>0 DEF Displaced, JointsBetween, EdgeListsExact
<1>3. inPipe' = inPipe /\ ends' = ends /\ incomplete' = incomplete /\ jointMap' = jointMap
  BY DEF ChangeCoord
<1>4. \A k \in Joint : EndsOf(k)' = EndsOf(k)
  BY <1>3 DEF EndsOf
<1>5. \A k \in Joint : stage'[k] = IF k \in gone THEN "out" ELSE stage[k]
  BY <1>1
<1>6. TypeOK'
  BY <1>0, <1>1, <1>3 DEF TypeOK, Stage
<1>7. HeldExactly'
  BY <1>0, <1>2, <1>3, <1>4, <1>5 DEF HeldExactly
<1>8. NoneStuck'
  BY <1>0, <1>3, <1>5 DEF NoneStuck, InWorld, HasPrimitivesDownstream
<1>9. EdgeListsExact'
  BY <1>0, <1>1, <1>4, <1>5 DEF EdgeListsExact
<1> QED BY <1>0, <1>3, <1>6, <1>7, <1>8, <1>9 DEF IInv, DistinctEnds

\* Joint::setPrimitive of a joint outside preserves the invariant.
LEMMA SetEndOutsideInv ==
  ASSUME IInv, ~SelfJoints, NEW j \in Joint, NEW i \in Side, NEW p \in Prim \cup {NoPrim},
         SetEndOutside(j, i, p)
  PROVE  IInv'
<1> USE JointStageAssumption
<1>0. TypeOK /\ HeldExactly /\ NoneStuck /\ EdgeListsExact /\ DistinctEnds
  BY DEF IInv
<1>1. /\ stage[j] = "out"
      /\ p = NoPrim \/ p # ends[j][1 - i]
      /\ ends' = [ends EXCEPT ![j][i] = p]
      /\ inPipe' = inPipe /\ stage' = stage /\ incomplete' = incomplete
      /\ jointMap' = jointMap /\ edgeList' = edgeList
  BY DEF SetEndOutside, GoodEnd
<1>2. \A k \in Joint : k # j => ends'[k] = ends[k] /\ EndsOf(k)' = EndsOf(k)
  BY <1>0, <1>1 DEF EndsOf, TypeOK
<1>3. TypeOK'
  BY <1>0, <1>1 DEF TypeOK, Side
<1>4. HeldExactly'
  BY <1>0, <1>1, <1>2 DEF HeldExactly
<1>5. NoneStuck'
  BY <1>0, <1>1, <1>2 DEF NoneStuck, InWorld, HasPrimitivesDownstream
<1>6. EdgeListsExact'
  BY <1>0, <1>1, <1>2 DEF EdgeListsExact
<1>7. DistinctEnds'
  <2>1. ends'[j] = [ends[j] EXCEPT ![i] = p]
    BY <1>0, <1>1 DEF TypeOK
  <2>2. ends'[j][0] = ends'[j][1] => ends'[j][0] = NoPrim
    <3>1. CASE i = 0
      BY <2>1, <1>1, <3>1, <1>0 DEF TypeOK, Side
    <3>2. CASE i = 1
      BY <2>1, <1>1, <3>2, <1>0 DEF TypeOK, Side
    <3> QED BY <3>1, <3>2 DEF Side
  <2> QED BY <2>2, <1>2, <1>0 DEF DistinctEnds
<1> QED BY <1>3, <1>4, <1>5, <1>6, <1>7 DEF IInv

\* Joint::setPrimitive of a joint in the world preserves the invariant. The
\* map and the list left by the nulling are exact for a joint with that end
\* empty; the setting then either files the new end or sends the joint down.
LEMMA SetEndInv ==
  ASSUME IInv, ~SelfJoints, NEW j \in Joint, NEW i \in Side, NEW p \in Prim \cup {NoPrim},
         SetEnd(j, i, p)
  PROVE  IInv'
<1> USE JointStageAssumption
<1> DEFINE old == ends[j][i]
           other == ends[j][1 - i]
           new == [ends[j] EXCEPT ![i] = p]
           wasDown == old # NoPrim /\ stage[j] = "clump"
           heldMap == IF old = NoPrim THEN jointMap
                      ELSE IF wasDown THEN jointMap \cup Pairs(j, {other})
                                      ELSE jointMap \ Pairs(j, {old})
           heldList == IF wasDown THEN incomplete \cup {j} ELSE incomplete
           heldEdges == IF wasDown THEN Unlisted({j}) ELSE edgeList
           goesDown == p # NoPrim /\ HasPrimitivesDownstream(new)
<1>0. TypeOK /\ HeldExactly /\ NoneStuck /\ EdgeListsExact /\ DistinctEnds
  BY DEF IInv
<1>1. /\ stage[j] # "out" /\ p # old
      /\ p = NoPrim \/ p # other
      /\ ends' = [ends EXCEPT ![j] = new]
      /\ inPipe' = inPipe
  BY DEF SetEnd, GoodEnd
<1>2. /\ goesDown => /\ stage' = [stage EXCEPT ![j] = "clump"]
                     /\ incomplete' = heldList \ {j}
                     /\ jointMap' = heldMap \ Pairs(j, {other})
                     /\ edgeList' = Listed(heldEdges, j, new)
      /\ ~goesDown => /\ stage' = [stage EXCEPT ![j] = IF wasDown THEN "joint" ELSE @]
                      /\ incomplete' = heldList
                      /\ jointMap' = heldMap \cup Pairs(j, {p})
                      /\ edgeList' = heldEdges
  BY DEF SetEnd
<1>3. /\ ends'[j] = new
      /\ \A k \in Joint : k # j => ends'[k] = ends[k] /\ EndsOf(k)' = EndsOf(k)
  BY <1>0, <1>1 DEF EndsOf, TypeOK
<1>4. /\ old \in Prim \cup {NoPrim} /\ other \in Prim \cup {NoPrim}
      /\ {new[0], new[1]} = {p, other} /\ {ends[j][0], ends[j][1]} = {old, other}
      /\ new \in [Side -> Prim \cup {NoPrim}]
  <2>1. CASE i = 0
    BY <2>1, <1>0 DEF TypeOK, Side
  <2>2. CASE i = 1
    BY <2>2, <1>0 DEF TypeOK, Side
  <2> QED BY <2>1, <2>2 DEF Side
<1>5. /\ EndsOf(j) = {old, other} \ {NoPrim}
      /\ EndsOf(j)' = {p, other} \ {NoPrim}
  BY <1>3, <1>4 DEF EndsOf, Side
<1>6. /\ old = other => old = NoPrim
      /\ HasPrimitivesDownstream(ends[j]) <=> old \in inPipe /\ other \in inPipe
      /\ HasPrimitivesDownstream(new) <=> p \in inPipe /\ other \in inPipe
  <2>1. CASE i = 0
    BY <2>1, <1>0 DEF TypeOK, Side, DistinctEnds, HasPrimitivesDownstream
  <2>2. CASE i = 1
    BY <2>2, <1>0 DEF TypeOK, Side, DistinctEnds, HasPrimitivesDownstream
  <2> QED BY <2>1, <2>2 DEF Side
<1>7. /\ NoPrim \notin inPipe /\ stage[j] \in {"joint", "clump"}
      /\ stage[j] = "clump" <=> old \in inPipe /\ other \in inPipe
      /\ wasDown <=> stage[j] = "clump"
  BY <1>0, <1>1, <1>6 DEF TypeOK, Stage, NoneStuck, InWorld
<1>8. /\ stage'[j] = IF goesDown THEN "clump" ELSE "joint"
      /\ \A k \in Joint : k # j => stage'[k] = stage[k]
  BY <1>0, <1>2, <1>7 DEF TypeOK
<1>9. TypeOK'
  <2>1. Pairs(j, {other}) \subseteq Prim \X Joint /\ Pairs(j, {p}) \subseteq Prim \X Joint
    BY <1>4 DEF Pairs
  <2>2. inPipe' \subseteq Prim /\ ends' \in [Joint -> [Side -> Prim \cup {NoPrim}]]
    BY <1>0, <1>1, <1>4 DEF TypeOK
  <2>3. stage' \in [Joint -> Stage] /\ incomplete' \subseteq Joint
    BY <1>0, <1>2 DEF TypeOK, Stage
  <2>4. jointMap' \subseteq Prim \X Joint
    BY <1>0, <1>2, <2>1 DEF TypeOK
  <2>5. heldEdges \in [Prim -> SUBSET Joint]
    BY <1>0 DEF TypeOK, Unlisted
  <2>6. edgeList' \in [Prim -> SUBSET Joint]
    BY <1>2, <2>5 DEF Listed
  <2> QED BY <2>2, <2>3, <2>4, <2>6 DEF TypeOK
<1>10. HeldExactly'
  <2>1. \A k \in Joint : k \in incomplete' <=> stage'[k] = "joint"
    <3>1. j \in heldList
      BY <1>0, <1>7 DEF HeldExactly
    <3> QED BY <3>1, <1>0, <1>2, <1>8 DEF HeldExactly
  <2>2. ASSUME NEW k \in Joint, NEW q \in Prim
        PROVE  <<q, k>> \in jointMap' <=> stage'[k] = "joint" /\ q \in EndsOf(k)'
    <3>1. <<q, k>> \in jointMap <=> stage[k] = "joint" /\ q \in EndsOf(k)
      BY <1>0 DEF HeldExactly
    <3>2. \A r : <<q, k>> \in Pairs(j, {r}) <=> k = j /\ q = r
      BY DEF Pairs
    <3>3. CASE k # j
      BY <3>1, <3>2, <3>3, <1>2, <1>3, <1>8
    <3>4. CASE k = j
      <4>1. <<q, j>> \in heldMap <=> q = other
        BY <3>1, <3>2, <3>4, <1>4, <1>5, <1>6, <1>7
      <4> QED BY <4>1, <3>2, <3>4, <1>2, <1>5, <1>8
    <3> QED BY <3>3, <3>4
  <2> QED BY <2>1, <2>2 DEF HeldExactly
<1>11. NoneStuck'
  <2>1. stage'[j] = "clump" <=> HasPrimitivesDownstream(new)
    BY <1>6, <1>7, <1>8
  <2> QED BY <2>1, <1>0, <1>1, <1>3, <1>8 DEF NoneStuck, InWorld, HasPrimitivesDownstream
<1>12. EdgeListsExact'
  <2> SUFFICES ASSUME NEW k \in Joint, NEW q \in Prim
               PROVE  k \in edgeList'[q] <=> stage'[k] = "clump" /\ q \in EndsOf(k)'
    BY DEF EdgeListsExact
  <2>1. k \in edgeList[q] <=> stage[k] = "clump" /\ q \in EndsOf(k)
    BY <1>0 DEF EdgeListsExact
  <2>2. k \in heldEdges[q] <=> k # j /\ k \in edgeList[q]
    BY <2>1, <1>7 DEF Unlisted
  <2>3. CASE goesDown
    <3>1. edgeList'[q] = IF q \in {new[0], new[1]} THEN heldEdges[q] \cup {j}
                                                   ELSE heldEdges[q]
      BY <2>3, <1>2 DEF Listed
    <3>2. k \in edgeList'[q] <=> k \in heldEdges[q] \/ (k = j /\ q \in {p, other})
      BY <3>1, <1>4
    <3> QED BY <2>1, <2>2, <2>3, <3>2, <1>3, <1>5, <1>8
  <2>4. CASE ~goesDown
    BY <2>1, <2>2, <2>4, <1>2, <1>3, <1>8
  <2> QED BY <2>3, <2>4
<1>13. DistinctEnds'
  <2>1. new[0] = new[1] => new[0] = NoPrim
    BY <1>1, <1>4
  <2> QED BY <2>1, <1>0, <1>3 DEF DistinctEnds
<1> QED BY <1>9, <1>10, <1>11, <1>12, <1>13 DEF IInv

-----------------------------------------------------------------------------
\* Every operation of the World on its joints and primitives preserves the
\* invariant.
LEMMA NextInv ==
  ASSUME ~SelfJoints, IInv, [Next]_vars
  PROVE  IInv'
<1>1. CASE UNCHANGED vars
  BY <1>1 DEF vars, IInv, TypeOK, HeldExactly, NoneStuck, EdgeListsExact, DistinctEnds,
              EndsOf, InWorld, HasPrimitivesDownstream
<1>2. ASSUME NEW p \in Prim, InsertPrimitive(p) PROVE IInv'
  BY <1>2, InsertPrimitiveInv
<1>3. ASSUME NEW p \in Prim, RemovePrimitive(p) PROVE IInv'
  BY <1>3, RemovePrimitiveInv
<1>4. ASSUME NEW p \in Prim, NEW ignore \in SUBSET Prim, DestroyJoints(p, ignore) PROVE IInv'
  BY <1>4, DestroyedInv DEF DestroyJoints
<1>5. ASSUME NEW j \in Joint, InsertJoint(j) PROVE IInv'
  BY <1>5, EnterInv DEF InsertJoint
<1>6. ASSUME NEW j \in Joint, NEW i \in Side, NEW p \in Prim \cup {NoPrim},
             SetEndOutside(j, i, p) \/ SetEnd(j, i, p)
      PROVE  IInv'
  BY <1>6, SetEndOutsideInv, SetEndInv
<1> QED BY <1>1, <1>2, <1>3, <1>4, <1>5, <1>6, RemoveJointInv, ChangeCoordInv DEF Next

THEOREM InvariantHolds == ~SelfJoints /\ Spec => []IInv
<1> SUFFICES ASSUME ~SelfJoints PROVE Spec => []IInv
  OBVIOUS
<1>1. IInv /\ [Next]_vars => IInv'
  BY NextInv
<1> QED BY <1>1, InitInv, PTL DEF Spec

\* TypeOK is an invariant of every instance without self joints.
THEOREM TypeCorrect == ~SelfJoints /\ Spec => []TypeOK
BY InvariantHolds, PTL DEF IInv

\* The list and the multimap of held joints always agree with the stages.
THEOREM HeldExactlyHolds == ~SelfJoints /\ Spec => []HeldExactly
BY InvariantHolds, PTL DEF IInv

\* A joint in the world is downstream exactly when both primitives are.
THEOREM NoneStuckHolds == ~SelfJoints /\ Spec => []NoneStuck
BY InvariantHolds, PTL DEF IInv

\* The edge lists hold exactly the joints downstream, at their own ends.
THEOREM EdgeListsExactHolds == ~SelfJoints /\ Spec => []EdgeListsExact
BY InvariantHolds, PTL DEF IInv
=============================================================================
