------------------------------ MODULE SleepStage ------------------------------
(***************************************************************************)
(* The stages of the v8world pipeline below ClumpStage, as far as they     *)
(* decide what is simulated: CollisionStage steps the contacts that may    *)
(* touch, SleepStage puts assemblies to sleep and wakes them, SeparateStage*)
(* steps the contacts that do touch, and an edge that is in SeparateStage  *)
(* is in SimJobStage and the kernel as well.                               *)
(*                                                                         *)
(* World::step runs ClumpStage::process, then the stages one below the     *)
(* other, each over what it holds; what one step of a stage decides moves  *)
(* contacts and assemblies of the others by direct calls. World::step is   *)
(* an action per loop iteration or loop, with pc naming the loop; the      *)
(* world changes between two steps. Forces and shapes are left out: what   *)
(* touches and what lies still is a free choice each time it is asked. An  *)
(* assembly is modelled with one clump and one that can move stays movable.*)
(***************************************************************************)
EXTENDS Integers, FiniteSets, Sequences

CONSTANTS
  Asm,           \* the assemblies
  Anchored,      \* the assemblies whose root clump is anchored
  Contact,       \* the contacts between assemblies
  Joint,         \* the joints between assemblies, neither rigid nor motors
  Ends,          \* Ends[e] = the two assemblies of an edge's primitives
  Over,          \* Over[j] = the contact between the primitives of j, if any
  CanThrottle,   \* the assemblies whose main body may be skipped in a late step
  Changing,      \* the contacts whose CanCollide or dragging changes: a bound
  StepsToSleep,  \* SleepStage::stepsToSleep(), 20 in the code
  WakeDepth,     \* how far wakeAssemblyAndNeighbors goes, 8 links in the code
  EdgeOrder,     \* the edges as sets of pointers run through them
  AsmOrder       \* the assemblies as a handler that wakes several comes upon them

Edge == Contact \cup Joint

\* The sequence s runs through S, each once.
Enumerates(s, S) ==
  s \in Seq(S) /\ Len(s) = Cardinality(S) /\ \A x \in S : \E k \in DOMAIN s : s[k] = x

ASSUME SleepStageAssumption ==
  /\ Anchored \subseteq Asm /\ CanThrottle \subseteq Asm
  /\ Contact \cap Joint = {} /\ Changing \subseteq Contact
  /\ Ends \in [Edge -> SUBSET Asm]
  /\ \A e \in Edge : \E a, b \in Asm : a # b /\ Ends[e] = {a, b}
  /\ Over \in [Joint -> SUBSET Contact]
  /\ \A j \in Joint : \A c \in Over[j] : Ends[c] = Ends[j] /\ Over[j] = {c}
  /\ StepsToSleep \in Nat /\ WakeDepth \in Nat
  /\ IsFiniteSet(Asm) /\ IsFiniteSet(Edge)
  /\ Enumerates(EdgeOrder, Edge) /\ Enumerates(AsmOrder, Asm)

VARIABLES
  pc,        \* the loop of World::step being run, or "idle"
  present,   \* the assemblies in AssemblyStage or below
  status,    \* Clump::sleepStatus of an assembly's root clump
  count,     \* Assembly::sleepCount
  stage,     \* IPipelined::currentStage of an edge
  stepping,  \* CollisionStage::stepping
  done,      \* the contacts the loop of CollisionStage::stepWorld is past
  toErase,   \* toErase, of that loop
  canSleep,  \* the free assemblies with Assembly::getCanSleep
  collides   \* the contacts whose primitives can collide and are not dragged

vars == <<pc, present, status, count, stage, stepping, done, toErase, canSleep, collides>>
loopVars == <<done, toErase>>
pipeVars == <<status, stage, stepping, collides>>

Free == Asm \ Anchored
Status == {"awake", "checking", "deep"}
Stage == {"out", "clump", "collision", "sleep", "kernel"}
Low == {"sleep", "kernel"}                 \* in SleepStage or downstream of it
Down == {"collision", "sleep", "kernel"}   \* in CollisionStage or downstream

TypeOK ==
  /\ pc \in {"idle", "edges", "collide", "rest", "doze", "separate"}
  /\ present \subseteq Asm
  /\ status \in [Asm -> Status]
  /\ count \in [Asm -> 0..StepsToSleep]
  /\ stage \in [Edge -> Stage]
  /\ stepping \subseteq Contact
  /\ done \subseteq Contact /\ toErase \subseteq done
  /\ canSleep \subseteq Free /\ collides \subseteq Contact
  /\ \A a \in Anchored : status[a] = "awake"
  /\ \A e \in Edge : stage[e] \in Down => Ends[e] \subseteq present

-----------------------------------------------------------------------------
\* What the stages share, as one value.
Pipe == [status |-> status, stage |-> stage, stepping |-> stepping, collides |-> collides]
SetPipe(P) ==
  /\ status' = P.status /\ stage' = P.stage
  /\ stepping' = P.stepping /\ collides' = P.collides

Moving(P, a) == a \in Free /\ P.status[a] = "awake"
Asleep(P, e) == {a \in Ends[e] : P.status[a] # "awake"}

\* Primitive::getJoint finds a joint wherever it is in the pipeline.
HasJoint(P, c) == \E j \in Joint : c \in Over[j] /\ P.stage[j] # "out"

\* CollisionStage::getOkToSim.
OkToStep(P, c) == (\E a \in Ends[c] : Moving(P, a)) /\ ~HasJoint(P, c)
OkToSim(P, c) == OkToStep(P, c) /\ c \in P.collides

\* Whom a walk that is at a wakes next along e, when those in W are awake by now.
Beyond(P, a, e, W) ==
  IF P.stage[e] = "sleep" /\ a \in Ends[e] THEN Asleep(P, e) \ W ELSE {}

\* The walk over the edges of a. go[b][V] are those that are awake when the call
\* for a neighbour b, made when V are, has returned.
Along(P, go, W, a) ==
  LET past[k \in 0..Len(EdgeOrder)] ==
        IF k = 0 THEN W \cup {a}
        ELSE past[k - 1] \cup
             UNION {go[b][past[k - 1]] : b \in Beyond(P, a, EdgeOrder[k], past[k - 1])}
  IN  past[Len(EdgeOrder)]

\* Who is awake when wakeAssemblyAndNeighbors(a, d) has returned, of those woken
\* since the handler began; the faulty one wakes no neighbour.
WakeAlone(P, d) == [a \in Asm |-> [W \in SUBSET Asm |-> W \cup {a}]]
WakeNeighbors(P, d) ==
  LET wake[n \in 0..d] ==
        IF n = 0 THEN [a \in Asm |-> [W \in SUBSET Asm |-> W \cup {a}]]
        ELSE [a \in Asm |-> [W \in SUBSET Asm |-> Along(P, wake[n - 1], W, a)]]
  IN  wake[d]

\* Who is awake when a handler has called it for each of S that was still asleep,
\* and for those it had woken beforehand, W.
Awoken(P, S, W) ==
  LET past[k \in 0..Len(AsmOrder)] ==
        IF k = 0 THEN W
        ELSE IF AsmOrder[k] \in S /\ (AsmOrder[k] \in W \/ AsmOrder[k] \notin past[k - 1])
             THEN WakeNeighbors(P, WakeDepth)[AsmOrder[k]][past[k - 1]]
             ELSE past[k - 1]
  IN  past[Len(AsmOrder)]

\* CollisionStage::onSleepChanged of the assemblies W: their contacts step; the
\* faulty one leaves them where they are.
SteppingStill(P, W) == P.stepping
SteppingWith(P, W) == P.stepping \cup {c \in Contact : P.stage[c] = "collision" /\ Ends[c] \cap W # {}}

\* wakeAssemblyAndNeighbors of the sleeping assemblies S, those in W woken first.
\* Where it goes no further, a deep sleeper is to be looked at again.
Rouse(P, S, W) ==
  LET up == Awoken(P, S, W)
      near == UNION {Ends[e] : e \in {k \in Edge : P.stage[k] = "sleep" /\ Ends[k] \cap up # {}}}
  IN  [status |-> [a \in Asm |-> IF a \in up THEN "awake"
                                  ELSE IF a \in near /\ P.status[a] = "deep" THEN "checking"
                                  ELSE P.status[a]],
       stage |-> [e \in Edge |-> IF P.stage[e] = "sleep" /\ Ends[e] \cap up # {}
                                 THEN "kernel" ELSE P.stage[e]],
       stepping |-> SteppingWith(P, up),
       collides |-> P.collides]

Move(P, es, s) == [P EXCEPT !.stage = [e \in Edge |-> IF e \in es THEN s ELSE P.stage[e]]]

\* SleepStage::onEdgeAdded: both ends are awake before either is walked from.
Lower(P, e) == Rouse(Move(P, {e}, "kernel"), Asleep(P, e), Asleep(P, e))

\* SleepStage::onEdgeRemoving, of any of es that is there, and onLosingContact,
\* where all are in the kernel: the ends are woken, for something they lean on may
\* be gone. The faulty one lets them sleep.
RaiseAsleep(P, es) == Move(P, {e \in es : P.stage[e] \in Low}, "collision")
Raise(P, es) ==
  LET low == {e \in es : P.stage[e] \in Low}
  IN  Rouse(Move(P, low, "collision"), UNION {Asleep(P, e) : e \in low}, {})

\* CollisionStage::updateContact, of each contact of cs in the stage or below
\* that is no longer to be simulated; the faulty one believes they all are.
UpdateNone(P, cs) == P
UpdateContacts(P, cs) ==
  LET bad == {c \in cs : P.stage[c] \in Down /\ ~(P.stage[c] \in Low /\ OkToSim(P, c))}
      R == Raise(P, bad)
  IN  [R EXCEPT !.stepping = @ \cup bad]

\* CollisionStage::onEdgeAdded, of a contact and of a joint.
EnterContact(P, c) == UpdateContacts(Move(P, {c}, "collision"), {c})
EnterJoint(P, j) == UpdateContacts(Lower(P, j), Over[j])

\* CollisionStage::onEdgeRemoving of e: then it is in ClumpStage, or in the hands
\* of the caller.
Withdraw(P, e, s) ==
  LET R == Raise(P, {e})
      Q == UpdateContacts(R, IF e \in Joint THEN Over[e] ELSE {})
  IN  [Move(Q, {e}, s) EXCEPT !.stepping = @ \ {e}]

\* ClumpStage::removeAssemblyEdges: the edges of a, one by one.
WithdrawAll(P, a) ==
  LET past[k \in 0..Len(EdgeOrder)] ==
        IF k = 0 THEN P
        ELSE IF a \in Ends[EdgeOrder[k]] /\ past[k - 1].stage[EdgeOrder[k]] \in Down
             THEN Withdraw(past[k - 1], EdgeOrder[k], "clump")
             ELSE past[k - 1]
  IN  past[Len(EdgeOrder)]

-----------------------------------------------------------------------------
Init ==
  /\ pc = "idle"
  /\ present = {}
  /\ status = [a \in Asm |-> "awake"]
  /\ count = [a \in Asm |-> 0]
  /\ stage = [e \in Edge |-> "out"]
  /\ stepping = {} /\ done = {} /\ toErase = {}
  /\ canSleep \in SUBSET Free
  /\ \E some \in SUBSET Changing : collides = Contact \ some

\* World::insertContact or insertJoint: the edge is in ClumpStage::edges.
AddEdge(e) ==
  /\ pc = "idle" /\ stage[e] = "out"
  /\ stage' = [stage EXCEPT ![e] = "clump"]
  /\ UNCHANGED <<pc, present, status, count, stepping, collides, loopVars, canSleep>>

\* World::destroyContact or removeJoint, with ClumpStage::removeEdge.
RemoveEdge(e) ==
  /\ pc = "idle" /\ stage[e] # "out"
  /\ SetPipe(IF stage[e] = "clump" THEN Move(Pipe, {e}, "out") ELSE Withdraw(Pipe, e, "out"))
  /\ UNCHANGED <<pc, present, count, loopVars, canSleep>>

\* ClumpStage::destroyAssembly: its edges go back to ClumpStage::edges, then the
\* assembly leaves, awake.
DestroyAssembly(a) ==
  LET P == WithdrawAll(Pipe, a)
  IN  /\ pc = "idle" /\ a \in present
      /\ present' = present \ {a}
      /\ SetPipe([P EXCEPT !.status = [P.status EXCEPT ![a] = "awake"]])
      /\ count' = [count EXCEPT ![a] = 0]
      /\ UNCHANGED <<pc, loopVars, canSleep>>

\* ClumpStage is up to date: every primitive of the world is in an assembly and
\* every edge that may move is below.
UpToDate ==
  /\ present = Asm
  /\ \A e \in Edge : stage[e] = "clump" => Ends[e] \subseteq Anchored

\* Clump::onPrimitiveCanSleepChanged, with ClumpStage's: process has been called,
\* and a sleeping assembly is woken either way.
SetCanSleep(a) ==
  /\ pc = "idle" /\ UpToDate /\ a \in Free
  /\ canSleep' = IF a \in canSleep THEN canSleep \ {a} ELSE canSleep \cup {a}
  /\ SetPipe(Rouse(Pipe, {x \in {a} : status[x] # "awake"}, {}))
  /\ UNCHANGED <<pc, present, count, loopVars>>

\* World::ticklePrimitive, with SleepStage::onWakeUpRequest.
Tickle(a) ==
  /\ pc = "idle" /\ a \in present /\ status[a] # "awake"
  /\ SetPipe(Rouse(Pipe, {a}, {}))
  /\ UNCHANGED <<pc, present, count, loopVars, canSleep>>

\* Primitive::setCanCollide and setDragging, with CollisionStage's
\* onPrimitiveCanCollideChanged.
SetCollides(c) ==
  LET other == IF c \in collides THEN collides \ {c} ELSE collides \cup {c}
  IN  /\ pc = "idle" /\ c \in Changing
      /\ SetPipe(UpdateContacts([Pipe EXCEPT !.collides = other], {c}))
      /\ UNCHANGED <<pc, present, count, loopVars, canSleep>>

-----------------------------------------------------------------------------
\* ClumpStage::process: assemblies are formed, then edges are routed.
StartStep ==
  /\ pc = "idle" /\ pc' = "edges"
  /\ present' = Asm
  /\ UNCHANGED <<count, pipeVars, loopVars, canSleep>>

\* ClumpStage::processEdges.
RouteEdge(e) ==
  /\ pc = "edges" /\ stage[e] = "clump"
  /\ ~(Ends[e] \subseteq Anchored)
  /\ SetPipe(IF e \in Contact THEN EnterContact(Pipe, e) ELSE EnterJoint(Pipe, e))
  /\ UNCHANGED <<pc, present, count, loopVars, canSleep>>

\* World::update is this much of a step; World::step goes on.
EdgesDone ==
  /\ pc = "edges" /\ UpToDate
  /\ pc' \in {"idle", "collide"}
  /\ UNCHANGED <<present, count, pipeVars, loopVars, canSleep>>

\* CollisionStage::stepWorld, of one contact: it is throttled or apart or may
\* not collide, it is not to be stepped, or it touches and goes down. A contact
\* that starts to step while the loop runs is reached by the loop.
Collide(c) ==
  /\ pc = "collide" /\ c \in stepping \ done
  /\ done' = done \cup {c}
  /\ \/ /\ OkToStep(Pipe, c) \/ Ends[c] \subseteq CanThrottle
        /\ UNCHANGED <<pipeVars, toErase>>
     \/ /\ ~OkToStep(Pipe, c)
        /\ toErase' = toErase \cup {c}
        /\ UNCHANGED pipeVars
     \/ /\ OkToSim(Pipe, c)
        /\ toErase' = toErase \cup {c}
        /\ SetPipe(Lower(Pipe, c))
  /\ UNCHANGED <<pc, present, count, canSleep>>

\* What the loop leaves stepping; the faulty one forgets to erase.
EraseNone == stepping
Erased == stepping \ toErase

CollideDone ==
  /\ pc = "collide" /\ stepping \subseteq done
  /\ pc' = "rest"
  /\ stepping' = Erased
  /\ done' = {} /\ toErase' = {}
  /\ UNCHANGED <<present, status, stage, collides, count, canSleep>>

\* SleepStage::shouldSleep, when the assemblies in still are within tolerance
\* of where they have been, and those in ok are by okNeighborSleep.
ShouldSleep(a, still, ok) ==
  /\ a \in canSleep \cap still
  /\ \A e \in Edge : a \in Ends[e] /\ stage[e] \in Low =>
       \A b \in Ends[e] \ {a} : Moving(Pipe, b) => b \in ok

\* goToSleep takes up from the kernel the edges of S that nothing moves; the
\* faulty one leaves those between two sleepers.
SettledAlone(e, S) == Cardinality(Ends[e] \cap S) = 1 /\ \A a \in Ends[e] \ S : ~Moving(Pipe, a)
Settled(e, S) == Ends[e] \cap S # {} /\ \A a \in Ends[e] \ S : ~Moving(Pipe, a)

\* Whether a step more of stillness is enough to sleep, after n; the faulty one
\* forgets to count the step.
StillBefore(n) == n > StepsToSleep
StillForLong(n) == n + 1 > StepsToSleep

\* SleepStage::checkAwakeAssemblies: assemblies that have been still for long
\* go to sleep.
Rest ==
  /\ pc = "rest" /\ pc' = "doze"
  /\ \E still, ok \in SUBSET Free, throttling \in BOOLEAN :
       LET asked == {a \in Free : Moving(Pipe, a) /\ ~(throttling /\ a \in CanThrottle)}
           tired == {a \in asked : ShouldSleep(a, still, ok)}
           S == {a \in tired : StillForLong(count[a])}
       IN  /\ count' = [a \in Asm |-> IF a \in tired \ S THEN count[a] + 1
                                      ELSE IF a \in asked THEN 0 ELSE count[a]]
           /\ status' = [a \in Asm |-> IF a \in S THEN "checking" ELSE status[a]]
           /\ stage' = [e \in Edge |-> IF stage[e] = "kernel" /\ Settled(e, S)
                                       THEN "sleep" ELSE stage[e]]
           /\ stepping' = SteppingWith(Pipe, S)
  /\ UNCHANGED <<present, collides, loopVars, canSleep>>

\* SleepStage::checkSleepingAssemblies, when those in strong move too much to
\* let a neighbour sleep. The two verdicts are taken before either is carried
\* out; an assembly is woken alone, and its deep sleepers are looked at again.
\* worldStepId % 4 decides whether it is run at all.
Doze ==
  /\ pc = "doze" /\ pc' = "separate"
  /\ \/ UNCHANGED <<status, stage, stepping>>
     \/ \E strong \in SUBSET Free :
          LET movers(a) == {b \in Free : /\ Moving(Pipe, b)
                                         /\ \E e \in Edge : stage[e] \in Low /\ Ends[e] = {a, b}}
              checked == {a \in Asm : status[a] = "checking"}
              wake == {a \in checked : a \notin canSleep \/ movers(a) \cap strong # {}}
              deep == {a \in checked \ wake : movers(a) = {}}
              near == UNION {Ends[e] : e \in {k \in Edge : stage[k] = "sleep" /\ Ends[k] \cap wake # {}}}
          IN  /\ status' = [a \in Asm |-> IF a \in wake THEN "awake"
                                          ELSE IF a \in deep THEN "deep"
                                          ELSE IF a \in near /\ status[a] = "deep" THEN "checking"
                                          ELSE status[a]]
              /\ stage' = [e \in Edge |-> IF stage[e] = "sleep" /\ Ends[e] \cap wake # {}
                                          THEN "kernel" ELSE stage[e]]
              /\ stepping' = SteppingWith(Pipe, wake)
  /\ UNCHANGED <<present, count, collides, loopVars, canSleep>>

\* SeparateStage::stepWorld: the contacts that no longer touch are taken up,
\* with SleepStage::onLosingContact and CollisionStage's. The step ends, or the
\* next begins.
Separate ==
  /\ pc = "separate" /\ pc' \in {"idle", "collide"}
  /\ \E apart \in SUBSET {c \in Contact : stage[c] = "kernel"} :
       LET P == Raise(Pipe, apart)
       IN  SetPipe([P EXCEPT !.stepping = @ \cup apart])
  /\ UNCHANGED <<present, count, loopVars, canSleep>>

Next ==
  \/ \E e \in Edge : AddEdge(e) \/ RemoveEdge(e) \/ RouteEdge(e)
  \/ \E a \in Asm : DestroyAssembly(a) \/ SetCanSleep(a) \/ Tickle(a)
  \/ \E c \in Contact : SetCollides(c) \/ Collide(c)
  \/ StartStep \/ EdgesDone \/ CollideDone \/ Rest \/ Doze \/ Separate

Spec == Init /\ [][Next]_vars

-----------------------------------------------------------------------------
\* An edge that has come down to SleepStage is in the kernel exactly while one
\* of the assemblies it joins moves: nothing that moves does so without its
\* touching contacts and joints, and nothing asleep is stepped for nothing.
\* Six handlers move edges across this line, each from one of the two sides.
KernelExactly ==
  \A e \in Edge : stage[e] \in Low =>
    (stage[e] = "kernel" <=> \E a \in Ends[e] : Moving(Pipe, a))

\* The contacts that CollisionStage steps are in CollisionStage, but for one
\* that the loop of stepWorld has sent down and is going to erase
\* (RBXASSERT(c->inStage(this)) in it, and the assertions on steppingIndexFunc).
SteppingInStage ==
  \A c \in stepping :
    stage[c] = "collision" \/ (stage[c] = "kernel" /\ c \in toErase)

\* Two primitives with a joint that is down are not simulated as colliding too:
\* their contact waits in CollisionStage (RBXASSERT(c->inStage(this)) in
\* CollisionStage::onJointRemoved).
JointedApart ==
  \A j \in Joint : stage[j] \in Low => \A c \in Over[j] : stage[c] \notin Low

\* Whoever loses a contact or a joint it may have rested on is awake after it,
\* however the edge came to go: parted, broken, not colliding any more, or taken
\* back with the assembly at its other end.
LosingWakes ==
  [][\A e \in Edge : stage[e] \in Low /\ stage'[e] \notin Low =>
       \A a \in Ends[e] : status'[a] = "awake"]_vars

\* An assembly that is woken wakes all it touches, and they what they touch; but
\* for one that checkSleepingAssemblies wakes, which wakes nobody. The recursion
\* stops after WakeDepth links: it leaves a sleeper beside one it woke only when it
\* woke more than that many, and then the sleeper is looked at again.
WakingSpreads ==
  [][pc # "doze" =>
       LET woken == {a \in Asm : status[a] # "awake" /\ status'[a] = "awake"}
       IN  \A e \in Edge : stage'[e] \in Low =>
             \A a \in Ends[e] \cap woken, b \in Ends[e] :
               \/ status'[b] = "awake"
               \/ status'[b] = "checking" /\ Cardinality(woken) > WakeDepth]_vars

\* A contact that CollisionStage does not step though an assembly of it moves and
\* no joint that is down keeps it apart.
Forgotten(P, c) ==
  /\ P.stage[c] = "collision" /\ c \notin P.stepping
  /\ \E a \in Ends[c] : Moving(P, a)
  /\ \A j \in Joint : c \in Over[j] => P.stage[j] \notin Down

\* A contact that should be stepped is forgotten only by the loop that marked it
\* for erasing before its assembly was woken, whoever else wakes assemblies, takes
\* joints away or raises contacts.
ForgottenByLoopOnly ==
  [][\A c \in Contact : Forgotten(Pipe', c) => Forgotten(Pipe, c) \/ c \in toErase]_vars
=============================================================================
