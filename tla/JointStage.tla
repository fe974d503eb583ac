----------------------------- MODULE JointStage -----------------------------
(***************************************************************************)
(* The entry of the v8world pipeline: World's primitives and joints, and   *)
(* the JointStage that holds back a joint until both of its primitives are *)
(* in the pipeline (World.cpp, JointStage.cpp, Joint.cpp).                 *)
(*                                                                         *)
(* A joint outlives its primitives and its world: it is created with any   *)
(* ends, its ends are replaced one at a time while it is in the world      *)
(* (Joint::setPrimitive), and primitives come and go on their own.         *)
(* JointStage files every joint that cannot go downstream in a set         *)
(* (incompleteJoints) and in a multimap from primitive to joint (jointMap);*)
(* a joint downstream is on the edge list of each of its two primitives.   *)
(* The three structures are updated by different calls and must agree.     *)
(***************************************************************************)
EXTENDS Naturals, FiniteSets

CONSTANTS
  Prim,        \* the primitives
  Joint,       \* the joints (of a type that links two primitives)
  NoPrim,      \* the NULL primitive
  SelfJoints   \* may a caller give a joint the same primitive at both ends?

ASSUME JointStageAssumption ==
  /\ NoPrim \notin Prim
  /\ SelfJoints \in BOOLEAN

VARIABLES
  inPipe,      \* the primitives in the pipeline, that is in ClumpStage
  ends,        \* ends[j][i] : Edge::prim0 and Edge::prim1 of joint j
  stage,       \* IPipelined::currentStage of a joint
  incomplete,  \* JointStage::incompleteJoints
  jointMap,    \* JointStage::jointMap
  edgeList     \* Primitive::joints, filled by ClumpStage

vars == <<inPipe, ends, stage, incomplete, jointMap, edgeList>>

Side == {0, 1}
Stage == {"out", "joint", "clump"}

TypeOK ==
  /\ inPipe \subseteq Prim
  /\ ends \in [Joint -> [Side -> Prim \cup {NoPrim}]]
  /\ stage \in [Joint -> Stage]
  /\ incomplete \subseteq Joint
  /\ jointMap \subseteq Prim \X Joint
  /\ edgeList \in [Prim -> SUBSET Joint]

-----------------------------------------------------------------------------
\* The primitives a joint links, and Edge::links.
EndsOf(j) == {ends[j][i] : i \in Side} \ {NoPrim}

\* The joints in the world: Joint::getWorld() is not NULL.
InWorld == {j \in Joint : stage[j] # "out"}

\* edgeHasPrimitivesDownstream, of a joint whose ends would be e.
HasPrimitivesDownstream(e) == \A i \in Side : e[i] \in inPipe

\* The joints downstream between the two ends in e, one of which
\* Primitive::getJoint finds on the edge list of either primitive.
JointsBetween(e) ==
  {d \in Joint : e[0] \in Prim /\ d \in edgeList[e[0]] /\ EndsOf(d) = {e[0], e[1]}}

\* The pairs that insertToMap and removeFromMap handle: none for a NULL end; the
\* faulty one files NULL too.
PairsOfAll(j, qs) == {<<q, j>> : q \in qs}
Pairs(j, qs) == {<<q, j>> : q \in qs \ {NoPrim}}

\* moveJointToDownstream: ClumpStage::onEdgeAdded puts j on the edge list of
\* each end in e; the faulty one forgets the second.
ListedOnce(lists, j, e) == [lists EXCEPT ![e[0]] = @ \cup {j}]
Listed(lists, j, e) ==
  [p \in Prim |-> IF p \in {e[0], e[1]} THEN lists[p] \cup {j} ELSE lists[p]]

\* removeJointFromDownstream: ClumpStage::onEdgeRemoving takes the joints off
\* the edge lists.
Unlisted(js) == [p \in Prim |-> edgeList[p] \ js]

\* The ends the callers give a joint: two different primitives, unless the
\* instance lets a script set Part0 and Part1 to the same part.
GoodEnd(j, i, p) == SelfJoints \/ p = NoPrim \/ p # ends[j][1 - i]

-----------------------------------------------------------------------------
Init ==
  /\ inPipe = {}
  /\ ends = [j \in Joint |-> [i \in Side |-> NoPrim]]
  /\ stage = [j \in Joint |-> "out"]
  /\ incomplete = {}
  /\ jointMap = {}
  /\ edgeList = [p \in Prim |-> {}]

\* The joints filed under p whose other primitive is already downstream; the
\* faulty one looks at the first end only.
FollowersOfFirst(p) == {j \in Joint : <<p, j>> \in jointMap /\ ends[j][0] = p /\ ends[j][1] \in inPipe}
Followers(p) ==
  {j \in Joint : <<p, j>> \in jointMap /\ \A i \in Side : ends[j][i] \in inPipe \cup {p}}

\* World::insertPrimitive: those joints follow p into ClumpStage.
InsertPrimitive(p) ==
  LET push == Followers(p)
  IN  /\ p \notin inPipe
      /\ inPipe' = inPipe \cup {p}
      /\ stage' = [j \in Joint |-> IF j \in push THEN "clump" ELSE stage[j]]
      /\ incomplete' = incomplete \ push
      /\ jointMap' = jointMap \ {x \in Prim \X push : x[1] \in EndsOf(x[2])}
      /\ edgeList' = [q \in Prim |->
                        edgeList[q] \cup {j \in push : q \in EndsOf(j)}]
      /\ UNCHANGED ends

\* World::destroyJoints: the joints on the edge list of p, but for those to a
\* primitive of the ignore group, are raised as AutoDestroy events, and
\* JointsService removes each from the world.
Destroyed(p, ignore) == {j \in edgeList[p] : EndsOf(j) \cap ignore = {}}

DestroyJoints(p, ignore) ==
  LET gone == Destroyed(p, ignore)
  IN  /\ p \in inPipe \ ignore
      /\ stage' = [j \in Joint |-> IF j \in gone THEN "out" ELSE stage[j]]
      /\ edgeList' = Unlisted(gone)
      /\ UNCHANGED <<inPipe, ends, incomplete, jointMap>>

\* World::removePrimitive destroys the joints of p, and
\* JointStage::onPrimitiveRemoving files those that are left on its edge list as
\* held joints. None is left: the loop that files them uses a pointer that the
\* loop before it has run to NULL, and never runs.
RemovePrimitive(p) ==
  LET gone == Destroyed(p, {})
      left == edgeList[p] \ gone
  IN  /\ p \in inPipe
      /\ inPipe' = inPipe \ {p}
      /\ stage' = [j \in Joint |-> IF j \in gone THEN "out"
                                   ELSE IF j \in left THEN "joint" ELSE stage[j]]
      /\ incomplete' = incomplete \cup left
      /\ jointMap' = jointMap \cup UNION {Pairs(j, EndsOf(j)) : j \in left}
      /\ edgeList' = Unlisted(gone \cup left)
      /\ UNCHANGED ends

\* JointStage::onEdgeAdded, for a joint with no joint of its own pair present
\* but those in gone.
Enter(j, gone) ==
  /\ IF HasPrimitivesDownstream(ends[j])
     THEN /\ stage' = [k \in Joint |-> IF k = j THEN "clump"
                                       ELSE IF k \in gone THEN "out" ELSE stage[k]]
          /\ edgeList' = Listed(Unlisted(gone), j, ends[j])
          /\ UNCHANGED <<incomplete, jointMap>>
     ELSE /\ stage' = [k \in Joint |-> IF k = j THEN "joint"
                                       ELSE IF k \in gone THEN "out" ELSE stage[k]]
          /\ incomplete' = incomplete \cup {j}
          /\ jointMap' = jointMap \cup Pairs(j, EndsOf(j))
          /\ edgeList' = Unlisted(gone)
  /\ UNCHANGED <<inPipe, ends>>

\* The joint World::insertJoint destroys to make room: the first one found
\* between the same two primitives, when there is one.
Displaced(j) ==
  LET dup == JointsBetween(ends[j]) \ {j}
  IN  IF dup = {} THEN {{}} ELSE {{d} : d \in dup}

\* World::insertJoint.
InsertJoint(j) ==
  /\ stage[j] = "out"
  /\ \E gone \in Displaced(j) : Enter(j, gone)

\* removeFromMap of the joint that leaves; the faulty one takes only its first
\* pair.
WithoutFirst(j) == jointMap \ Pairs(j, {ends[j][0]})
Unmapped(j) == jointMap \ Pairs(j, EndsOf(j))

\* World::removeJoint, with JointStage::onEdgeRemoving.
RemoveJoint(j) ==
  /\ stage[j] # "out"
  /\ stage' = [stage EXCEPT ![j] = "out"]
  /\ IF stage[j] = "clump"
     THEN edgeList' = Unlisted({j}) /\ UNCHANGED <<incomplete, jointMap>>
     ELSE /\ incomplete' = incomplete \ {j}
          /\ jointMap' = Unmapped(j)
          /\ UNCHANGED edgeList
  /\ UNCHANGED <<inPipe, ends>>

\* Joint::setJointCoord of a joint in the world takes it out and inserts it
\* again; a joint that was held back is filed as before, one downstream
\* displaces a second joint of its pair.
ChangeCoord(j) ==
  /\ stage[j] = "clump"
  /\ \E gone \in Displaced(j) :
       /\ stage' = [k \in Joint |-> IF k \in gone THEN "out" ELSE stage[k]]
       /\ edgeList' = Unlisted(gone)
  /\ UNCHANGED <<inPipe, ends, incomplete, jointMap>>

\* Joint::setPrimitive of a joint that is in no world.
SetEndOutside(j, i, p) ==
  /\ stage[j] = "out"
  /\ p # ends[j][i] /\ GoodEnd(j, i, p)
  /\ ends' = [ends EXCEPT ![j][i] = p]
  /\ UNCHANGED <<inPipe, stage, incomplete, jointMap, edgeList>>

\* Joint::setPrimitive of a joint in the world: onJointPrimitiveNulling for
\* the old primitive, the assignment, onJointPrimitiveSet for the new one.
SetEnd(j, i, p) ==
  LET old == ends[j][i]
      other == ends[j][1 - i]
      new == [ends[j] EXCEPT ![i] = p]
      \* what onJointPrimitiveNulling leaves
      wasDown == old # NoPrim /\ stage[j] = "clump"
      heldMap == IF old = NoPrim THEN jointMap
                 ELSE IF wasDown THEN jointMap \cup Pairs(j, {other})
                                 ELSE jointMap \ Pairs(j, {old})
      heldList == IF wasDown THEN incomplete \cup {j} ELSE incomplete
      heldEdges == IF wasDown THEN Unlisted({j}) ELSE edgeList
      goesDown == p # NoPrim /\ HasPrimitivesDownstream(new)
  IN  /\ stage[j] # "out"
      /\ p # old /\ GoodEnd(j, i, p)
      /\ ends' = [ends EXCEPT ![j] = new]
      /\ IF goesDown
         THEN /\ stage' = [stage EXCEPT ![j] = "clump"]
              /\ incomplete' = heldList \ {j}
              /\ jointMap' = heldMap \ Pairs(j, {other})
              /\ edgeList' = Listed(heldEdges, j, new)
         ELSE /\ stage' = [stage EXCEPT ![j] = IF wasDown THEN "joint" ELSE @]
              /\ incomplete' = heldList
              /\ jointMap' = heldMap \cup Pairs(j, {p})
              /\ edgeList' = heldEdges
      /\ UNCHANGED inPipe

Next ==
  \/ \E p \in Prim : InsertPrimitive(p) \/ RemovePrimitive(p)
  \/ \E p \in Prim, ignore \in SUBSET Prim : DestroyJoints(p, ignore)
  \/ \E j \in Joint : InsertJoint(j) \/ RemoveJoint(j) \/ ChangeCoord(j)
  \/ \E j \in Joint, i \in Side, p \in Prim \cup {NoPrim} :
        SetEndOutside(j, i, p) \/ SetEnd(j, i, p)

Spec == Init /\ [][Next]_vars

-----------------------------------------------------------------------------
\* A joint is filed as incomplete exactly while it is held in this stage, and
\* jointMap holds exactly its ends: what the assertions on jointInList and
\* pairInMap in JointStage.cpp ask of every call, whatever the order in which
\* ends, primitives and joints come and go.
HeldExactly ==
  /\ \A j \in Joint : j \in incomplete <=> stage[j] = "joint"
  /\ \A j \in Joint, p \in Prim :
       <<p, j>> \in jointMap <=> stage[j] = "joint" /\ p \in EndsOf(j)

\* No joint is stuck or let through early: a joint in the world is downstream
\* exactly when both of its primitives are
\* (RBXASSERT(j->downstreamOfStage(this) == edgeHasPrimitivesDownstream(j))).
NoneStuck ==
  \A j \in InWorld : stage[j] = "clump" <=> HasPrimitivesDownstream(ends[j])

\* The edge lists, which every later stage walks, hold a joint exactly while
\* it is downstream, and at exactly its two present primitives.
EdgeListsExact ==
  \A j \in Joint, p \in Prim :
    j \in edgeList[p] <=> stage[j] = "clump" /\ p \in EndsOf(j)
=============================================================================
