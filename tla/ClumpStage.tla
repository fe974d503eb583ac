----------------------------- MODULE ClumpStage -----------------------------
(***************************************************************************)
(* ClumpStage, Clump and Assembly of v8world: primitives joined by rigid   *)
(* joints are grouped into clumps (a tree of bodies under a root), clumps  *)
(* joined by motors into assemblies (a tree of clumps), and the contacts   *)
(* between assemblies are sent down the pipeline.                          *)
(*                                                                         *)
(* A change of the world only moves what it invalidates into buffers;      *)
(* ClumpStage::process, run at the start of the next step, empties the     *)
(* buffers in a fixed order.  process is one action per loop iteration     *)
(* here, with pc naming the loop it is in; changes arrive while it is idle.*)
(* A clump is named by its root primitive and an assembly by the root      *)
(* primitive of its root clump.                                            *)
(***************************************************************************)
EXTENDS Integers, FiniteSets, SequencesExt

CONSTANTS
  Prim,         \* the primitives
  Rigid,        \* the rigid joints
  Motor,        \* the motor joints
  Contact,      \* the other edges: contacts
  End,          \* End[e] = <<e->getPrimitive(0), e->getPrimitive(1)>>
  Area,         \* floor of a primitive's planar size
  NoPrim,       \* NULL, for a clump, an assembly or a parent
  LateAnchors,  \* may an anchor change while its primitive is in the world?
  DropPending   \* may a joint be removed that spans a clump while it is filed?

Edge == Rigid \cup Motor \cup Contact

ASSUME ClumpStageAssumption ==
  /\ NoPrim \notin Prim /\ IsFiniteSet(Prim) /\ IsFiniteSet(Motor)
  /\ Rigid \cap Motor = {} /\ Rigid \cap Contact = {} /\ Motor \cap Contact = {}
  /\ End \in [Edge -> Prim \X Prim]
  /\ \A e \in Edge : End[e][1] # End[e][2]
  /\ Area \in [Prim -> Nat]
  /\ LateAnchors \in BOOLEAN /\ DropPending \in BOOLEAN

VARIABLES
  pc,             \* the loop of process() being run, or "idle"
  \* the world as ClumpStage has been told of it
  present,        \* the primitives in the stage
  anchored,       \* the primitives with an anchorObject
  joined,         \* the edges in the stage, that is on the edge lists
  \* the buffers of primitives and rigid joints
  anchors,        \* anchors, each named by its primitive
  rigidTwos,      \* joints whose ends may both have a clump
  rigidOnes,      \* joints with one clump, mapped to the power filed with them
  rigidZeros,     \* joints with no clump
  primitives,     \* primitives with no clump, mapped to the power filed
  \* the clumps
  clumpOf,        \* Primitive::clump
  parent,         \* Body::parent
  depth,          \* Primitive::clumpDepth
  held,           \* the clumps with Clump::anchor
  inconsistent,   \* Clump::inconsistentJoints
  anchoredClumps, \* buffer: anchored clumps with no assembly
  freeClumps,     \* buffer: clumps with no anchor and no assembly
  \* the assemblies
  asmOf,          \* Clump::assembly
  asmMotors,      \* Assembly::motors
  asmIncons,      \* Assembly::inconsistentMotors
  externalEdges,  \* Assembly::externalEdges
  internalEdges,  \* Assembly::internalEdges
  motors,         \* buffer: motors not in an assembly
  motorAngles,    \* buffer: motors whose child is to be placed
  assemblies,     \* buffer: assemblies not yet downstream
  edges,          \* buffer: edges not given to an assembly
  downAsm,        \* assemblies in AssemblyStage or below
  downEdges       \* edges in AssemblyStage or below

worldVars == <<present, anchored, joined>>
rigidVars == <<anchors, rigidTwos, rigidOnes, rigidZeros, primitives>>
clumpVars == <<clumpOf, parent, depth, held, inconsistent>>
fileVars == <<anchoredClumps, freeClumps>>
motorVars == <<motors, motorAngles>>
asmVars == <<asmOf, asmMotors, asmIncons, externalEdges, internalEdges,
             assemblies, edges, downAsm, downEdges>>
vars == <<pc, worldVars, rigidVars, clumpVars, fileVars, motorVars, asmVars>>

-----------------------------------------------------------------------------
EndsOf(e) == {End[e][1], End[e][2]}
Other(e, p) == IF p = End[e][1] THEN End[e][2] ELSE End[e][1]
EdgesAt(S, p) == {e \in joined \cap S : p \in EndsOf(e)}

\* PrimitiveSort(p): anchored before free, then planar size times the length
\* of the primitive's list of joints; isLess compares in that order.
Power(p) == <<IF p \in anchored THEN 1 ELSE 0,
              Area[p] * Cardinality(EdgesAt(Rigid \cup Motor, p))>>
Less(a, b) == a[1] < b[1] \/ (a[1] = b[1] /\ a[2] < b[2])
Biggest(S, pow(_)) == {x \in S : \A y \in S : ~Less(pow(x), pow(y))}
Smallest(S, pow(_)) == {x \in S : \A y \in S : ~Less(pow(y), pow(x))}

\* A buffer keyed by power with some members taken out and others filed anew.
Refile(buf, out, in, pow(_)) ==
  [x \in (DOMAIN buf \ out) \cup in |-> IF x \in in THEN pow(x) ELSE buf[x]]

Members(c) == {p \in Prim : clumpOf[p] = c}
Clumps == {c \in Prim : clumpOf[c] = c}
ClumpsOf(e) == {clumpOf[p] : p \in EndsOf(e)} \ {NoPrim}
AsmOfPrim(p) == IF clumpOf[p] = NoPrim THEN NoPrim ELSE asmOf[clumpOf[p]]
AssembliesOf(Cs) == {asmOf[c] : c \in Cs} \ {NoPrim}
InBuffers(r) == r \in rigidTwos \cup DOMAIN rigidOnes \cup rigidZeros
MotorsFind(m) == m \in ToSet(motors)

\* The members of root's clump that lie n links under top, where par gives the
\* parents: SpanLink::isSpanningJoint and Clump::inSpanTree walk the bodies.
Level(par, top) ==
  LET at[n \in 0..Cardinality(Prim)] ==
        IF n = 0 THEN {top}
        ELSE {p \in Prim : /\ clumpOf[p] = clumpOf[top] /\ p # clumpOf[p]
                           /\ par[p] \in at[n - 1]}
  IN  at
Subtree(top) == UNION {Level(parent, top)[n] : n \in 0..Cardinality(Prim)}

-----------------------------------------------------------------------------
\* The buffers of primitives and rigid joints, as one value.
Buffers == [anchors |-> anchors, twos |-> rigidTwos, ones |-> rigidOnes,
            zeros |-> rigidZeros, prims |-> primitives]
SetBuffers(b) ==
  /\ anchors' = b.anchors
  /\ rigidTwos' = b.twos /\ rigidOnes' = b.ones /\ rigidZeros' = b.zeros
  /\ primitives' = b.prims

\* removeFromBuffers; the faulty one forgets rigidOnes.
RemoveFromTwosAndZeros(b, rs) == [b EXCEPT !.twos = @ \ rs, !.zeros = @ \ rs]
RemoveFromBuffers(b, rs) ==
  [b EXCEPT !.twos = @ \ rs, !.ones = Refile(@, rs, {}, Power), !.zeros = @ \ rs]

\* Assembly::motors and Assembly::inconsistentMotors.
MotorsOf(As) == UNION {asmMotors[a] \cup asmIncons[a] : a \in As}

\* destroyAssembly of each of As, and removeInternalEdge or removeExternalEdge
\* of each of es: clumps and edges go back to their buffers.
ReleaseAssemblies(As, es) ==
  LET rel == es \cup UNION {externalEdges[a] \cup internalEdges[a] : a \in As}
      ms == MotorsOf(As)
  IN  /\ asmOf' = [c \in Prim |-> IF asmOf[c] \in As THEN NoPrim ELSE asmOf[c]]
      /\ asmMotors' = [a \in Prim |-> asmMotors[a] \ ms]
      /\ asmIncons' = [a \in Prim |-> asmIncons[a] \ ms]
      /\ externalEdges' = [a \in Prim |-> externalEdges[a] \ rel]
      /\ internalEdges' = [a \in Prim |-> internalEdges[a] \ rel]
      /\ edges' = edges \cup rel
      /\ assemblies' = assemblies \ As
      /\ downAsm' = downAsm \ As
      /\ downEdges' = downEdges \ rel

\* The motors of As follow those of base, for each assembly the attached ones
\* before the inconsistent ones. Only the attached have an angle to renew.
Released(As) ==
  LET late(m, a) == m \in asmIncons[a] /\ \A b \in As \ {a} : m \notin asmIncons[b]
      inOrder(s) == \A i, k \in DOMAIN s : i < k =>
                      \A a \in As : ~(late(s[i], a) /\ s[k] \in asmMotors[a])
  IN  {s \in SetToSeqs(MotorsOf(As)) : inOrder(s)}
AnglesToo(As) == motorAngles \cup UNION {asmMotors[a] : a \in As}
ReleaseMotors(base, As) ==
  /\ \E s \in Released(As) : motors' = base \o s
  /\ motorAngles' = AnglesToo(As)

\* Clumps that lose their assembly are filed by destroyAssembly; clumps that
\* are destroyed are struck off by destroyClump, each from the buffer its
\* anchor tells.
FileClumps(As, Cs) ==
  LET loose == {c \in Prim : asmOf[c] \in As}
  IN  /\ anchoredClumps' = (anchoredClumps \cup (loose \cap held)) \ (Cs \cap held)
      /\ freeClumps' = (freeClumps \cup (loose \ held)) \ (Cs \ held)

\* Assembly::removeClump and Clump::removePrimitive unlink bodies.
ParentAfter(As, out) ==
  [p \in Prim |-> IF p \in out \/ asmOf[p] \in As THEN NoPrim ELSE parent[p]]

\* Clump::removePrimitive of out, Clump::removeAnchor of Cs and
\* Clump::removeInconsistent of rs.
Ungroup(As, out, Cs, rs) ==
  /\ clumpOf' = [p \in Prim |-> IF p \in out THEN NoPrim ELSE clumpOf[p]]
  /\ depth' = [p \in Prim |-> IF p \in out THEN -1 ELSE depth[p]]
  /\ parent' = ParentAfter(As, out)
  /\ held' = held \ Cs
  /\ inconsistent' = [c \in Prim |-> inconsistent[c] \ rs]

\* destroyAssembly of As alone.
DestroyAssemblies(As) ==
  /\ ReleaseAssemblies(As, {})
  /\ ReleaseMotors(motors, As)
  /\ FileClumps(As, {})

\* Clump::getRigidJoints: the members that joints inside the clump lead to from
\* its root.
Reached(c) ==
  LET at[n \in 0..Cardinality(Prim)] ==
        IF n = 0 THEN {c}
        ELSE {p \in Members(c) :
                \E q \in at[n - 1] : p = q \/ \E r \in joined \cap Rigid : EndsOf(r) = {p, q}}
  IN  at[Cardinality(Prim)]

\* destroyClumpGuts: the buffers once the clumps Cs have given back all they
\* held. Joints inside a clump may wait in rigidTwos already; joints that leave
\* it, inconsistent ones included, are filed by the ends that keep a clump.
Gutted(Cs) ==
  LET rs == {r \in joined \cap Rigid : EndsOf(r) \cap UNION {Reached(c) : c \in Cs} # {}}
      inner == {r \in rs : Cardinality({clumpOf[p] : p \in EndsOf(r)}) = 1}
      outer == rs \ inner
      loosened == UNION {inconsistent[c] : c \in Cs}
      left(r) == ClumpsOf(r) \ Cs
      root(r) == Power(CHOOSE c \in left(r) : TRUE)
  IN  [anchors |-> anchors \cup (held \cap Cs),
       twos |-> ((rigidTwos \cup loosened) \ outer) \cup {r \in inner : ~InBuffers(r)},
       ones |-> Refile(rigidOnes, outer, {r \in outer : left(r) # {}}, root),
       zeros |-> (rigidZeros \ outer) \cup {r \in outer : left(r) = {}},
       prims |-> Refile(primitives, {}, {p \in Prim : clumpOf[p] \in Cs}, Power)]

\* destroyAssembly of As, then destroyClump of Cs, all but the buffers.
DestroyGroups(As, Cs) ==
  LET all == As \cup AssembliesOf(Cs)
  IN  /\ ReleaseAssemblies(all, {})
      /\ ReleaseMotors(motors, all)
      /\ FileClumps(all, Cs)
      /\ Ungroup(all, {p \in Prim : clumpOf[p] \in Cs}, Cs,
                 UNION {inconsistent[c] : c \in Cs})

Destroy(As, Cs) == DestroyGroups(As, Cs) /\ SetBuffers(Gutted(Cs))

-----------------------------------------------------------------------------
Init ==
  /\ pc = "idle"
  /\ present = {} /\ joined = {}
  /\ anchored \in SUBSET Prim
  /\ anchors = {} /\ rigidTwos = {} /\ rigidZeros = {}
  /\ rigidOnes = <<>> /\ primitives = <<>>
  /\ clumpOf = [p \in Prim |-> NoPrim]
  /\ parent = [p \in Prim |-> NoPrim]
  /\ depth = [p \in Prim |-> -1]
  /\ held = {}
  /\ inconsistent = [c \in Prim |-> {}]
  /\ anchoredClumps = {} /\ freeClumps = {}
  /\ asmOf = [c \in Prim |-> NoPrim]
  /\ asmMotors = [a \in Prim |-> {}]
  /\ asmIncons = [a \in Prim |-> {}]
  /\ externalEdges = [a \in Prim |-> {}]
  /\ internalEdges = [a \in Prim |-> {}]
  /\ motors = <<>> /\ motorAngles = {}
  /\ assemblies = {} /\ edges = {} /\ downAsm = {} /\ downEdges = {}

\* onPrimitiveAdded. World::insertPrimitive asserts that it has no edges.
AddPrimitive(p) ==
  /\ pc = "idle" /\ p \notin present
  /\ present' = present \cup {p}
  /\ primitives' = Refile(primitives, {}, {p}, Power)
  /\ anchors' = IF p \in anchored THEN anchors \cup {p} ELSE anchors
  /\ UNCHANGED <<pc, anchored, joined, rigidTwos, rigidOnes, rigidZeros,
                 clumpVars, fileVars, motorVars, asmVars>>

\* onPrimitiveRemoving: removeAnchor and removePrimitive. World::removePrimitive
\* has destroyed every joint and contact of p before.
RemovePrimitive(p) ==
  LET Cs == {clumpOf[p]} \ {NoPrim}
      b == Gutted(Cs)
  IN  /\ pc = "idle" /\ p \in present
      /\ EdgesAt(Edge, p) = {}
      /\ present' = present \ {p}
      /\ DestroyGroups({}, Cs)
      /\ SetBuffers([b EXCEPT !.anchors = @ \ {p}, !.prims = Refile(@, {p}, {}, Power)])
      /\ UNCHANGED <<pc, anchored, joined>>

\* Primitive::setAnchor(true), with onPrimitiveAddedAnchor.
AddAnchor(p) ==
  /\ pc = "idle" /\ p \notin anchored
  /\ p \in present => LateAnchors
  /\ anchored' = anchored \cup {p}
  /\ anchors' = IF p \in present THEN anchors \cup {p} ELSE anchors
  /\ UNCHANGED <<pc, present, joined, rigidTwos, rigidOnes, rigidZeros, primitives,
                 clumpVars, fileVars, motorVars, asmVars>>

\* Primitive::setAnchor(false), with onPrimitiveRemovingAnchor: an anchor that
\* is no longer in its buffer is in its clump, which is destroyed; the faulty
\* one leaves the clump standing.
ClumpStaysHeld(p) == {}
ClumpHeldBy(p) == IF p \in anchors THEN {} ELSE {clumpOf[p]} \ {NoPrim}

RemoveAnchor(p) ==
  LET Cs == ClumpHeldBy(p)
  IN  /\ pc = "idle" /\ p \in anchored
      /\ p \in present => LateAnchors
      /\ anchored' = anchored \ {p}
      /\ DestroyGroups({}, Cs)
      /\ SetBuffers([Gutted(Cs) EXCEPT !.anchors = @ \ {p}])
      /\ UNCHANGED <<pc, present, joined>>

\* onEdgeAdded, by type; the faulty one takes every edge for a rigid joint.
AnyEdge(e) == {e}
AsRigid(e) == {e} \cap Rigid

AddEdge(e) ==
  /\ pc = "idle" /\ e \notin joined
  /\ EndsOf(e) \subseteq present
  /\ joined' = joined \cup {e}
  /\ rigidTwos' = rigidTwos \cup AsRigid(e)
  /\ motors' = IF e \in Motor THEN Append(motors, e) ELSE motors
  /\ motorAngles' = motorAngles \cup ({e} \cap Motor)
  /\ edges' = edges \cup ({e} \cap Contact)
  /\ UNCHANGED <<pc, present, anchored, anchors, rigidOnes, rigidZeros, primitives,
                 clumpVars, fileVars, asmOf, asmMotors, asmIncons, externalEdges,
                 internalEdges, assemblies, downAsm, downEdges>>

-----------------------------------------------------------------------------
\* removeRigid.

\* The end of r whose body is the child of the other end's.
Spanned(r) == {p \in EndsOf(r) : parent[p] = Other(r, p)}

\* findBestOutsideLink: the joints that could hang the tree under top elsewhere
\* in the clump, each as <<end in the tree, end outside>>; of these the outside
\* end is deepest, then biggest.
OutsideLinks(top) ==
  {l \in Subtree(top) \X (Members(clumpOf[top]) \ Subtree(top)) :
     /\ parent[l[1]] # l[2] /\ parent[l[2]] # l[1]
     /\ \E r \in joined \cap Rigid : EndsOf(r) = {l[1], l[2]}}
BestOutsideLinks(top) ==
  {l \in OutsideLinks(top) : \A k \in OutsideLinks(top) :
     ~Less(<<depth[l[2]], Area[l[2]]>>, <<depth[k[2]], Area[k[2]]>>)}

\* renumberSpanTree, for the parents par in clump c; the faulty one leaves the
\* depths alone.
KeepDepths(par, c) == depth
Renumbered(par, c) ==
  LET at == Level(par, c)
  IN  [p \in Prim |-> IF \E n \in DOMAIN at : p \in at[n]
                      THEN CHOOSE n \in DOMAIN at : p \in at[n] ELSE depth[p]]

\* spanningTreeAdjust: setSpanParent turns round the links from l[1] up to the
\* end of the joint being removed, setParent hangs l[1] under l[2], and
\* renumberSpanTree gives the depths.
SpanningTreeAdjust(removing, l) ==
  LET climbs(p) == /\ parent[p] # NoPrim
                   /\ \E r \in (joined \cap Rigid) \ {removing} : EndsOf(r) = {p, parent[p]}
      up[n \in 0..Cardinality(Prim)] ==
        IF n = 0 THEN l[1] ELSE IF climbs(up[n - 1]) THEN parent[up[n - 1]] ELSE up[n - 1]
      path == {up[n] : n \in DOMAIN up}
      below(p) == CHOOSE q \in path : parent[q] = p
      turned == [p \in Prim |-> IF p = l[1] THEN l[2]
                                ELSE IF p \in path THEN below(p) ELSE parent[p]]
  IN  /\ parent' = turned
      /\ depth' = Renumbered(turned, clumpOf[l[1]])

\* The contacts of the primitives out that assembly a must give back; the faulty
\* one overlooks those within the assembly.
OutsideContacts(a, out) == {e \in externalEdges[a] : EndsOf(e) \cap out # {}}
TreeContacts(a, out) == {e \in externalEdges[a] \cup internalEdges[a] : EndsOf(e) \cap out # {}}

\* removeSpanningTreeFast: the tree under top leaves the clump, which stays.
\* A motor in the tree destroys the assembly; without one only the contacts of
\* the tree are taken back.
RemoveSpanningTree(removing, top) ==
  LET out == Subtree(top)
      a == AsmOfPrim(top)
      at(S) == {e \in joined \cap S : EndsOf(e) \cap out # {}}
      As == IF a # NoPrim /\ at(Motor) # {} THEN {a} ELSE {}
      es == IF a = NoPrim \/ As # {} THEN {} ELSE TreeContacts(a, out)
      b == RemoveFromBuffers(Buffers, at(Rigid))
  IN  /\ ReleaseAssemblies(As, es)
      /\ ReleaseMotors(motors, As)
      /\ FileClumps(As, {})
      /\ Ungroup(As, out, {}, at(Rigid))
      /\ SetBuffers([b EXCEPT !.twos = @ \cup (at(Rigid) \ {removing}),
                              !.prims = Refile(@, {}, out, Power)])

RemoveRigid(r) ==
  LET Cs == ClumpsOf(r)
      unfiled == ~InBuffers(r)
  IN  /\ pc = "idle" /\ r \in joined
      /\ joined' = joined \ {r}
      /\ \/ /\ InBuffers(r) /\ (DropPending \/ Spanned(r) = {})
            /\ SetBuffers(RemoveFromBuffers(Buffers, {r}))
            /\ UNCHANGED <<clumpVars, fileVars, motorVars, asmVars>>
         \/ /\ unfiled /\ Cardinality(Cs) = 1 /\ Spanned(r) = {}
            /\ UNCHANGED <<rigidVars, clumpVars, fileVars, motorVars, asmVars>>
         \/ /\ unfiled /\ Cardinality(Cs) = 1
            /\ \E top \in Spanned(r) : \E l \in BestOutsideLinks(top) : SpanningTreeAdjust(r, l)
            /\ UNCHANGED <<rigidVars, clumpOf, held, inconsistent, fileVars, motorVars, asmVars>>
         \/ /\ unfiled /\ Cardinality(Cs) = 1
            /\ \E top \in Spanned(r) : OutsideLinks(top) = {} /\ RemoveSpanningTree(r, top)
         \/ /\ unfiled /\ Cardinality(Cs) = 2
            /\ DestroyGroups({}, Cs)
            /\ SetBuffers(RemoveFromBuffers(Gutted(Cs), {r}))
      /\ UNCHANGED <<pc, present, anchored>>

\* removeMotor: a motor that is not in its buffer takes down its assembly.
RemoveMotor(m) ==
  LET As == IF MotorsFind(m) THEN {} ELSE {AsmOfPrim(End[m][1])}
  IN  /\ pc = "idle" /\ m \in joined
      /\ joined' = joined \ {m}
      /\ ReleaseAssemblies(As, {})
      /\ \E s \in Released(As) : motors' = RemoveFirst(motors \o s, m)
      /\ motorAngles' = AnglesToo(As) \ {m}
      /\ FileClumps(As, {})
      /\ parent' = ParentAfter(As, {})
      /\ UNCHANGED <<pc, present, anchored, rigidVars, clumpOf, depth, held, inconsistent>>

\* removeEdge, of a contact: it is downstream, in its buffer or in an assembly.
RemoveContact(e) ==
  /\ pc = "idle" /\ e \in joined
  /\ joined' = joined \ {e}
  /\ edges' = edges \ {e}
  /\ externalEdges' = [a \in Prim |-> externalEdges[a] \ {e}]
  /\ internalEdges' = [a \in Prim |-> internalEdges[a] \ {e}]
  /\ downEdges' = downEdges \ {e}
  /\ UNCHANGED <<pc, present, anchored, rigidVars, clumpVars, fileVars, motorVars,
                 asmOf, asmMotors, asmIncons, assemblies, downAsm>>

\* onMotorAngleChanged, from MotorJoint::stepUi and MotorJoint::setCurrentAngle.
ChangeMotorAngle(m) ==
  /\ pc = "idle" /\ m \in joined
  /\ motorAngles' = motorAngles \cup {m}
  /\ UNCHANGED <<pc, worldVars, rigidVars, clumpVars, fileVars, motors, asmVars>>

-----------------------------------------------------------------------------
\* process.
StartProcess ==
  /\ pc = "idle" /\ pc' = "anchors"
  /\ UNCHANGED <<worldVars, rigidVars, clumpVars, fileVars, motorVars, asmVars>>

\* A loop of process that has nothing left to do gives way to the next.
LoopDone(at, empty, next) ==
  /\ pc = at /\ empty /\ pc' = next
  /\ UNCHANGED <<worldVars, rigidVars, clumpVars, fileVars, motorVars, asmVars>>

AnchorsDone == LoopDone("anchors", anchors = {}, "twos")
TwosDone == LoopDone("twos", rigidTwos = {}, "ones")
OnesDone == LoopDone("ones", rigidOnes = <<>>, "primitives")
PrimitivesDone == LoopDone("primitives", primitives = <<>>, "motors")
EdgesDone == LoopDone("edges", edges = {}, "angles")

\* processAnchors, of the biggest primitive.
ProcessAnchor(p) ==
  LET c == clumpOf[p]
      rs == EdgesAt(Rigid, p)
      two == {r \in rs : clumpOf[Other(r, p)] # NoPrim}
      b == RemoveFromBuffers(Buffers, rs)
  IN  /\ pc = "anchors" /\ p \in anchors
      /\ \A q \in anchors : Area[q] <= Area[p]
      /\ \/ /\ c # NoPrim /\ (p # c \/ asmOf[c] # NoPrim)
            /\ Destroy({}, {c})
         \/ /\ c = p /\ asmOf[c] = NoPrim
            /\ anchors' = anchors \ {p}
            /\ held' = held \cup {c}
            /\ UNCHANGED <<rigidTwos, rigidOnes, rigidZeros, primitives, clumpOf, parent,
                           depth, inconsistent, fileVars, motorVars, asmVars>>
         \/ /\ c = NoPrim
            /\ SetBuffers([anchors |-> anchors \ {p},
                           twos |-> b.twos \cup two,
                           ones |-> Refile(b.ones, {}, rs \ two, LAMBDA r : Power(p)),
                           zeros |-> b.zeros,
                           prims |-> Refile(primitives, {p}, {}, Power)])
            /\ clumpOf' = [clumpOf EXCEPT ![p] = p]
            /\ depth' = [depth EXCEPT ![p] = 0]
            /\ held' = held \cup {p}
            /\ anchoredClumps' = anchoredClumps \cup {p}
            /\ UNCHANGED <<parent, inconsistent, freeClumps, motorVars, asmVars>>
      /\ UNCHANGED <<pc, worldVars>>

\* processRigidTwos, of any joint: filed by the clumps it turns out to have, and
\* where both its ends have one, a clump is destroyed unless both are anchored
\* and neither is worth taking apart.
ProcessRigidTwo(r) ==
  LET c0 == clumpOf[End[r][1]]
      c1 == clumpOf[End[r][2]]
      Cs == ClumpsOf(r)
      one == Cardinality({c0, c1} \ {NoPrim}) = 1
      weaker == IF Less(Power(c0), Power(c1)) THEN c0 ELSE c1
      toDismantle == /\ Power(c0) # Power(c1)
                     /\ Cardinality(Members(weaker)) > 1
      release == DestroyAssemblies(AssembliesOf(Cs)) /\ parent' = ParentAfter(AssembliesOf(Cs), {})
  IN  /\ pc = "twos" /\ r \in rigidTwos
      /\ \/ /\ Cs = {}
            /\ rigidZeros' = rigidZeros \cup {r}
            /\ rigidTwos' = rigidTwos \ {r} /\ pc' = pc
            /\ UNCHANGED <<anchors, rigidOnes, primitives, clumpVars, fileVars, motorVars, asmVars>>
         \/ /\ c0 # c1 /\ NoPrim \in {c0, c1}
            /\ release
            /\ rigidOnes' = Refile(rigidOnes, {}, {r}, LAMBDA q : Power(CHOOSE c \in Cs : TRUE))
            /\ rigidTwos' = rigidTwos \ {r} /\ pc' = pc
            /\ UNCHANGED <<anchors, rigidZeros, primitives, clumpOf, depth, held, inconsistent>>
         \/ /\ c0 = c1 /\ c0 # NoPrim
            /\ release
            /\ rigidTwos' = rigidTwos \ {r} /\ pc' = pc
            /\ UNCHANGED <<anchors, rigidOnes, rigidZeros, primitives, clumpOf, depth, held,
                           inconsistent>>
         \/ /\ Cardinality(Cs) = 2 /\ Cs \subseteq held /\ toDismantle
            /\ Destroy(AssembliesOf(Cs), {weaker})
            /\ pc' = "anchors"
         \/ /\ Cardinality(Cs) = 2 /\ Cs \subseteq held /\ ~toDismantle
            /\ release
            /\ rigidTwos' = rigidTwos \ {r} /\ pc' = pc
            /\ inconsistent' = [c \in Prim |-> IF c \in Cs THEN inconsistent[c] \cup {r}
                                               ELSE inconsistent[c]]
            /\ UNCHANGED <<anchors, rigidOnes, rigidZeros, primitives, clumpOf, depth, held>>
         \/ /\ Cardinality(Cs) = 2 /\ Cs \cap held = {}
            /\ Destroy(AssembliesOf(Cs), {weaker})
            /\ pc' = pc
         \/ /\ Cardinality(Cs \cap held) = 1 /\ Cardinality(Cs) = 2
            /\ Destroy(AssembliesOf(Cs), Cs \ held)
            /\ pc' = pc
      /\ UNCHANGED worldVars

\* Is p too powerful for the clump c? The faulty one is so at equal power.
OutweighsOrTies(p, c) == ~Less(Power(p), Power(c))
Outweighs(p, c) == Less(Power(c), Power(p))

\* processRigidOnes returns false when it has refilled rigidTwos; the faulty one
\* goes on.
GoOn(conflicts) == "ones"
After(conflicts) == IF conflicts = {} THEN "ones" ELSE "anchors"

\* processRigidOnes, of a joint filed with the greatest power: the primitive p
\* that has no clump joins its neighbour's, or takes that clump down when p is
\* the more powerful.
ProcessRigidOne(r) ==
  LET c == CHOOSE d \in ClumpsOf(r) : TRUE
      p == CHOOSE q \in EndsOf(r) : clumpOf[q] # c
      base == Other(r, p)
      As == AssembliesOf({c})
      b == Gutted({c})
      across(k) == clumpOf[Other(k, p)] \notin {NoPrim, c}
      open == {k \in EdgesAt(Rigid, p) : clumpOf[Other(k, p)] = NoPrim}
      conflicts == {k \in EdgesAt(Rigid, p) : across(k)}
  IN  /\ pc = "ones" /\ r \in Biggest(DOMAIN rigidOnes, LAMBDA k : rigidOnes[k])
      /\ \/ /\ Outweighs(p, c)
            /\ DestroyGroups({}, {c})
            /\ SetBuffers([b EXCEPT !.prims = Refile(@, {}, {p}, Power)])
            /\ pc' = "anchors"
         \/ /\ ~Outweighs(p, c)
            /\ DestroyAssemblies(As)
            /\ clumpOf' = [clumpOf EXCEPT ![p] = c]
            /\ depth' = [depth EXCEPT ![p] = depth[base] + 1]
            /\ parent' = [ParentAfter(As, {}) EXCEPT ![p] = base]
            /\ SetBuffers([anchors |-> anchors,
                           twos |-> rigidTwos \cup conflicts,
                           ones |-> Refile(rigidOnes, EdgesAt(Rigid, p), open, LAMBDA k : Power(c)),
                           zeros |-> rigidZeros \ open,
                           prims |-> Refile(primitives, {p}, {}, Power)])
            /\ pc' = After(conflicts)
            /\ UNCHANGED <<held, inconsistent>>
      /\ UNCHANGED worldVars

\* processPrimitives, of a primitive filed with the least power: --end() of a
\* set that PrimitiveSortCriterion keeps in descending order.
ProcessPrimitive(p) ==
  LET rs == EdgesAt(Rigid, p)
  IN  /\ pc = "primitives" /\ p \in Smallest(DOMAIN primitives, LAMBDA q : primitives[q])
      /\ SetBuffers([anchors |-> anchors, twos |-> rigidTwos,
                     ones |-> Refile(rigidOnes, {}, rs, LAMBDA k : Power(p)),
                     zeros |-> rigidZeros \ rs,
                     prims |-> Refile(primitives, {p}, {}, Power)])
      /\ clumpOf' = [clumpOf EXCEPT ![p] = p]
      /\ depth' = [depth EXCEPT ![p] = 0]
      /\ freeClumps' = freeClumps \cup {p}
      /\ pc' = IF rs = {} THEN pc ELSE "anchors"
      /\ UNCHANGED <<worldVars, parent, held, inconsistent, anchoredClumps, motorVars, asmVars>>

-----------------------------------------------------------------------------
\* processMotors: every anchored clump becomes an assembly.
FormAnchored ==
  /\ pc = "motors" /\ pc' = "sort"
  /\ asmOf' = [c \in Prim |-> IF c \in anchoredClumps THEN c ELSE asmOf[c]]
  /\ assemblies' = assemblies \cup anchoredClumps
  /\ anchoredClumps' = {}
  /\ UNCHANGED <<worldVars, rigidVars, clumpVars, freeClumps, motorVars, asmMotors, asmIncons,
                 externalEdges, internalEdges, edges, downAsm, downEdges>>

\* getMotorPower.
MotorPower(m) ==
  LET Cs == ClumpsOf(m)
  IN  IF Cardinality(Cs) = 1 THEN <<0, 0>> ELSE Power(CHOOSE c \in Biggest(Cs, Power) : TRUE)

\* The free assemblies that the motors touch; the faulty one keeps them.
KeepAssemblies(ms) == {}
FreeAssembliesAt(ms) == {AsmOfPrim(End[m][i]) : m \in ms, i \in {1, 2}} \ ({NoPrim} \cup held)

\* The motors are sorted; then the free assemblies they touch are destroyed, and
\* the motors of those come after the sorted ones.
SortMotors ==
  LET As == FreeAssembliesAt(ToSet(motors))
      sorted(s) == \A i, k \in DOMAIN s : i < k => ~Less(MotorPower(s[k]), MotorPower(s[i]))
  IN  /\ pc = "sort" /\ pc' = "attach"
      /\ ReleaseAssemblies(As, {})
      /\ \E s \in SetToSeqs(ToSet(motors)) : sorted(s) /\ ReleaseMotors(s, As)
      /\ FileClumps(As, {})
      /\ parent' = ParentAfter(As, {})
      /\ UNCHANGED <<worldVars, rigidVars, clumpOf, depth, held, inconsistent>>

\* freeClumpsErase of the clumps a motor takes into an assembly; the faulty one
\* leaves the root.
FreeAllBut(root, child) == freeClumps \ {child}
FreeWithout(root, child) == freeClumps \ {child, root}

\* Assembly::addClump of child, by m, to assembly a, where clump root is in it.
AddClump(a, root, child, m) ==
  LET p == CHOOSE q \in EndsOf(m) : clumpOf[q] = child
  IN  /\ freeClumps' = FreeWithout(root, child)
      /\ asmOf' = [asmOf EXCEPT ![root] = a, ![child] = a]
      /\ asmMotors' = [asmMotors EXCEPT ![a] = @ \cup {m}]
      /\ parent' = [parent EXCEPT ![child] = Other(m, p)]

\* addInconsistentMotor of m in the assemblies of its ends; the faulty one is
\* content with the first.
InconsistentInFirst(m, As) ==
  asmIncons' = [asmIncons EXCEPT ![CHOOSE x \in As : TRUE] = @ \cup {m}]
AddInconsistentMotor(m, As) ==
  asmIncons' = [x \in Prim |-> IF x \in As THEN asmIncons[x] \cup {m} ELSE asmIncons[x]]

\* The last of the motors is attached, starts an assembly or is inconsistent.
AttachMotor ==
  LET m == Last(motors)
      c0 == clumpOf[End[m][1]]
      c1 == clumpOf[End[m][2]]
      root == IF Less(Power(c0), Power(c1)) THEN c1 ELSE c0
      child == IF root = c0 THEN c1 ELSE c0
  IN  /\ pc = "attach" /\ motors # <<>>
      /\ motors' = Front(motors)
      /\ \/ /\ asmOf[c0] # NoPrim /\ asmOf[c1] # NoPrim
            /\ AddInconsistentMotor(m, {asmOf[c0], asmOf[c1]})
            /\ UNCHANGED <<parent, freeClumps, asmOf, asmMotors, assemblies>>
         \/ /\ asmOf[c0] # NoPrim /\ asmOf[c1] = NoPrim
            /\ AddClump(asmOf[c0], c0, c1, m)
            /\ UNCHANGED <<asmIncons, assemblies>>
         \/ /\ asmOf[c0] = NoPrim /\ asmOf[c1] # NoPrim
            /\ AddClump(asmOf[c1], c1, c0, m)
            /\ UNCHANGED <<asmIncons, assemblies>>
         \/ /\ c0 = c1 /\ asmOf[c0] = NoPrim
            /\ asmOf' = [asmOf EXCEPT ![c0] = c0]
            /\ assemblies' = assemblies \cup {c0}
            /\ freeClumps' = freeClumps \ {c0}
            /\ AddInconsistentMotor(m, {c0})
            /\ UNCHANGED <<parent, asmMotors>>
         \/ /\ c0 # c1 /\ asmOf[c0] = NoPrim /\ asmOf[c1] = NoPrim
            /\ AddClump(root, root, child, m)
            /\ assemblies' = assemblies \cup {root}
            /\ UNCHANGED asmIncons
      /\ UNCHANGED <<pc, worldVars, rigidVars, clumpOf, depth, held, inconsistent,
                     anchoredClumps, motorAngles, externalEdges, internalEdges, edges,
                     downAsm, downEdges>>

\* The free clumps left become assemblies, and processAssemblies sends all the
\* new assemblies down.
FormFree ==
  /\ pc = "attach" /\ motors = <<>> /\ pc' = "edges"
  /\ asmOf' = [c \in Prim |-> IF c \in freeClumps THEN c ELSE asmOf[c]]
  /\ freeClumps' = {}
  /\ assemblies' = {}
  /\ downAsm' = downAsm \cup assemblies \cup freeClumps
  /\ UNCHANGED <<worldVars, rigidVars, clumpVars, anchoredClumps, motorVars, asmMotors,
                 asmIncons, externalEdges, internalEdges, edges, downEdges>>

\* Does an edge between the assemblies As go down?
GoesDown(As) == Cardinality(As) = 2 /\ ~(As \subseteq held)

\* processEdges: an edge between two anchored assemblies stays in this stage.
RouteEdge(e) ==
  LET As == {AsmOfPrim(p) : p \in EndsOf(e)}
      add(f, on) == [a \in Prim |-> IF on /\ a \in As THEN f[a] \cup {e} ELSE f[a]]
      between == Cardinality(As) = 2
  IN  /\ pc = "edges" /\ e \in edges
      /\ edges' = edges \ {e}
      /\ internalEdges' = add(internalEdges, ~between)
      /\ externalEdges' = add(externalEdges, between)
      /\ downEdges' = IF GoesDown(As) THEN downEdges \cup {e} ELSE downEdges
      /\ UNCHANGED <<pc, worldVars, rigidVars, clumpVars, fileVars, motorVars, asmOf, asmMotors,
                     asmIncons, assemblies, downAsm>>

\* processMotorAngles.
UpdateMotorAngles ==
  /\ pc = "angles" /\ pc' = "idle"
  /\ motorAngles' = {}
  /\ UNCHANGED <<worldVars, rigidVars, clumpVars, fileVars, motors, asmVars>>

-----------------------------------------------------------------------------
Change ==
  \/ \E p \in Prim : \/ AddPrimitive(p) \/ RemovePrimitive(p)
                     \/ AddAnchor(p) \/ RemoveAnchor(p)
  \/ \E e \in Edge : AddEdge(e)
  \/ \E r \in Rigid : RemoveRigid(r)
  \/ \E m \in Motor : RemoveMotor(m) \/ ChangeMotorAngle(m)
  \/ \E e \in Contact : RemoveContact(e)

Process ==
  \/ \E p \in Prim : ProcessAnchor(p) \/ ProcessPrimitive(p)
  \/ \E r \in Rigid : ProcessRigidTwo(r) \/ ProcessRigidOne(r)
  \/ AnchorsDone \/ TwosDone \/ OnesDone \/ PrimitivesDone
  \/ FormAnchored \/ SortMotors \/ AttachMotor \/ FormFree
  \/ \E e \in Contact : RouteEdge(e)
  \/ EdgesDone \/ UpdateMotorAngles

Next == Change \/ StartProcess \/ Process

Spec == Init /\ [][Next]_vars

\* process is a plain call: once started, it runs on.
FairSpec == Spec /\ WF_vars(Process)

-----------------------------------------------------------------------------
TypeOK ==
  /\ pc \in {"idle", "anchors", "twos", "ones", "primitives", "motors", "sort", "attach",
             "edges", "angles"}
  /\ present \subseteq Prim /\ anchored \subseteq Prim /\ joined \subseteq Edge
  /\ anchors \subseteq Prim
  /\ rigidTwos \subseteq Rigid /\ rigidZeros \subseteq Rigid
  /\ DOMAIN rigidOnes \subseteq Rigid /\ DOMAIN primitives \subseteq Prim
  /\ clumpOf \in [Prim -> Prim \cup {NoPrim}]
  /\ parent \in [Prim -> Prim \cup {NoPrim}]
  /\ depth \in [Prim -> -1..Cardinality(Prim)]
  /\ held \subseteq Prim
  /\ inconsistent \in [Prim -> SUBSET Rigid]
  /\ anchoredClumps \subseteq Prim /\ freeClumps \subseteq Prim
  /\ asmOf \in [Prim -> Prim \cup {NoPrim}]
  /\ asmMotors \in [Prim -> SUBSET Motor] /\ asmIncons \in [Prim -> SUBSET Motor]
  /\ externalEdges \in [Prim -> SUBSET Contact] /\ internalEdges \in [Prim -> SUBSET Contact]
  /\ ToSet(motors) \subseteq Motor /\ motorAngles \subseteq Motor
  /\ assemblies \subseteq Prim /\ downAsm \subseteq Prim
  /\ edges \subseteq Contact /\ downEdges \subseteq Contact

\* Every rigid joint of the stage is in exactly one place: the buffer its ends
\* call for, inside one clump, or inconsistent in two clumps that are both
\* anchored. Ten handlers move joints among these places, most of them several
\* at a time; the assertions on rigidTwosFind, numClumps and inBuffers in
\* ClumpStage.cpp each ask a part of this.
RigidFiled ==
  /\ rigidTwos \cap rigidZeros = {}
  /\ DOMAIN rigidOnes \cap (rigidTwos \cup rigidZeros) = {}
  /\ \A r \in Rigid :
       LET Cs == {clumpOf[p] : p \in EndsOf(r)}
           incons == {c \in Prim : r \in inconsistent[c]}
       IN  /\ r \in DOMAIN rigidOnes => Cardinality(Cs) = 2 /\ NoPrim \in Cs
           /\ r \in rigidZeros => Cs = {NoPrim}
           /\ InBuffers(r) => r \in joined /\ incons = {}
           /\ incons # {} => r \in joined /\ incons = Cs /\ Cs \subseteq held
           /\ r \in joined /\ ~InBuffers(r) =>
                NoPrim \notin Cs /\ (incons = {} <=> Cardinality(Cs) = 1)

\* A primitive of the stage waits in the buffer or is in a clump, never both.
\* An anchor that is not waiting holds the clump of which its primitive is the
\* root: so an anchored part is never inside the clump of another, and a clump
\* is never held by a primitive that is no longer anchored.
PrimitivesFiled ==
  /\ DOMAIN primitives = {p \in present : clumpOf[p] = NoPrim}
  /\ \A p \in Prim \ present : clumpOf[p] = NoPrim
  /\ anchors \subseteq anchored \cap present
  /\ \A p \in Prim : p \in held <=> p \in (anchored \cap present) \ anchors
  /\ held \subseteq Clumps

\* The bodies of each clump hang under its root in a tree of joined primitives,
\* numbered by depth, however joints come and go: Clump::inSpanTree and
\* renumberSpanTree walk it without end when it is not one.
SpanningTree ==
  \A p \in Prim :
    /\ clumpOf[p] # NoPrim =>
         /\ clumpOf[p] \in Clumps
         /\ depth[p] >= 0
         /\ p \in Level(parent, clumpOf[p])[depth[p]]
    /\ clumpOf[p] \notin {NoPrim, p} =>
         \E r \in joined \cap Rigid : EndsOf(r) = {p, parent[p]}
    /\ clumpOf[p] = NoPrim => depth[p] = -1 /\ parent[p] = NoPrim

\* A clump waits in the buffer for its kind exactly while it has no assembly,
\* and an assembly holds at most one anchored clump, its root. destroyClump and
\* processMotors erase a clump from the buffer its anchor names
\* (RBXASSERT(removed == 1) in anchoredClumpsErase and freeClumpsErase).
ClumpsFiled ==
  LET loose == {c \in Clumps : asmOf[c] = NoPrim}
  IN  /\ anchoredClumps = loose \cap held
      /\ freeClumps = loose \ held
      /\ \A c \in Prim : asmOf[c] # NoPrim =>
           /\ c \in Clumps /\ asmOf[c] \in Clumps /\ asmOf[asmOf[c]] = asmOf[c]
           /\ c \in held => asmOf[c] = c
           /\ asmOf[c] \in assemblies \cup downAsm
      /\ assemblies \cap downAsm = {}
      /\ \A a \in assemblies \cup downAsm : asmOf[a] = a

\* Every motor of the stage waits in motors, joins two clumps of one assembly as
\* a link of its tree, or is inconsistent in the assemblies of its ends; and
\* each clump that is not a root hangs by exactly one motor. A motor may be
\* inconsistent in two assemblies, if both are anchored: processMotors gives it to
\* both. The assertions of removeMotor and updateMotorJoint, that the ends of a motor
\* which is filed are of one assembly, are then false, and are not claimed here.
MotorsFiled ==
  /\ \A m \in Motor :
       LET in == {a \in Prim : m \in asmMotors[a]}
           incons == {a \in Prim : m \in asmIncons[a]}
           As == {AsmOfPrim(p) : p \in EndsOf(m)}
       IN  /\ m \in joined => MotorsFind(m) \/ As \in {in, incons}
           /\ MotorsFind(m) => m \in joined /\ in = {} /\ incons = {}
           /\ in # {} => m \in joined /\ in = As /\ Cardinality(in) = 1 /\ incons = {}
           /\ incons # {} => m \in joined /\ incons = As
  /\ \A i, k \in DOMAIN motors : motors[i] = motors[k] => i = k
  /\ \A c \in Prim :
       LET by == {m \in UNION {asmMotors[a] : a \in Prim} :
                    parent[c] \in EndsOf(m) /\ clumpOf[Other(m, parent[c])] = c}
       IN  c \in Clumps => Cardinality(by) = IF asmOf[c] \in {c, NoPrim} THEN 0 ELSE 1

\* A contact is in the buffer or in the assemblies of its two ends, and it is
\* downstream exactly when these differ and can move: what removeEdge and
\* removeExternalEdge take for granted when they look for it.
EdgesFiled ==
  \A e \in Contact :
    LET As == {AsmOfPrim(p) : p \in EndsOf(e)}
        in == {a \in Prim : e \in internalEdges[a]}
        ex == {a \in Prim : e \in externalEdges[a]}
    IN  /\ e \in edges => e \in joined /\ in = {} /\ ex = {}
        /\ e \in joined \ edges => /\ NoPrim \notin As
                                   /\ in = IF Cardinality(As) = 1 THEN As ELSE {}
                                   /\ ex = IF Cardinality(As) = 2 THEN As ELSE {}
        /\ e \in downEdges <=> Cardinality(ex) = 2 /\ ~(ex \subseteq held)
        /\ e \notin joined => in = {} /\ ex = {}

\* The stage implements RigidGrouping: a change dissolves only the clumps it
\* touches and joins nothing, and process ends only when everything joined is
\* in one clump or held by two anchors.
Grouping == INSTANCE RigidGrouping WITH
  busy <- pc # "idle",
  linked <- {EndsOf(r) : r \in joined \cap Rigid},
  group <- clumpOf
GroupsRigidly == Grouping!Spec

\* The stages below keep what they computed of an assembly (its mechanism, its
\* sleep state, its kernel bodies), so processMotors takes the ones that can move
\* apart before it attaches motors to them. It misses one case: a motor released
\* by that very loop, which was inconsistent in an assembly that the loop leaves.
\* So an assembly they hold that can move grows by such a motor or not at all.
LeadsTo(m, a) == \E p \in EndsOf(m) : AsmOfPrim(p) = a
MovingAssembliesOnlyShrink ==
  [][\A a \in (downAsm \cap downAsm') \ held :
       /\ \A p \in Prim : AsmOfPrim(p)' = a /\ AsmOfPrim(p) # a =>
            pc = "attach" /\ LeadsTo(Last(motors), a)
       /\ pc = "sort" => \A m \in ToSet(motors') : LeadsTo(m, a)' => m \in asmIncons[a]]_vars

\* While the primitives that are not anchored are all of one power, process
\* ends: no clump is built and taken apart again for ever.
Balanced ==
  \A p, q \in present \ anchored : Power(p) = Power(q)
BalancedEnds == (pc # "idle" /\ Balanced) ~> (pc = "idle")

-----------------------------------------------------------------------------
\* process returns (every World::step calls it, and stepUi asserts upToDate).
ProcessReturns == (pc # "idle") ~> (pc = "idle")

\* processRigidOnes asserts that a joint filed with one clump has one
\* (RBXASSERT(numClumps(r) == 1)).
OnesHaveOneClump ==
  \A r \in DOMAIN rigidOnes : Cardinality({p \in EndsOf(r) : clumpOf[p] # NoPrim}) = 1
=============================================================================
