----------------------------- MODULE InstanceTree -----------------------------
(***************************************************************************)
(* The tree of instances: Instance::setParent with the signals it raises   *)
(* on its way, remove and removeAllChildren, and the root's part as        *)
(* ServiceProvider: who it told that it is inside, and its cache of        *)
(* services.                                                               *)
(*                                                                         *)
(* setParent is no single step. It signals every ancestor of the old place *)
(* about every descendant, then unlinks, links, and signals the ancestors  *)
(* of the new place. A listener of any of these signals may move instances *)
(* itself, before the call that raised the signal goes on, and any of them *)
(* anywhere: the one that is just being moved, or one below itself. The    *)
(* calls under way are a stack, the innermost last; only its last frame    *)
(* acts. A call that does not come back is the end of the game.            *)
(***************************************************************************)
EXTENDS Integers, Sequences, FiniteSets, SequencesExt

CONSTANTS
  Instance,   \* the instances
  Root,       \* the DataModel: the one ServiceProvider, never moved
  None,       \* the NULL pointer
  Service,    \* the instances that are services, all of one class
  MaxCalls,   \* how many calls listeners make in all during one of the engine's: a bound
  MaxDepth,   \* how many calls are under way, with one that a listener makes: a bound
  MaxAfter,   \* how many calls the engine makes once a listener left disorder: a bound
  Placed      \* the tree to begin with: the children of each instance

ASSUME TreeAssumption ==
  /\ IsFiniteSet(Instance) /\ Root \in Instance /\ None \notin Instance
  /\ Service \subseteq Instance \ {Root} /\ MaxCalls \in Nat /\ MaxDepth \in Nat
  /\ MaxAfter \in Nat
  /\ Placed \in [Instance -> Seq(Instance \ {Root})]
  /\ \A p \in Instance : IsInjective(Placed[p]) /\ ToSet(Placed[p]) \cap Service = {}
  /\ \A p, q \in Instance : p # q => ToSet(Placed[p]) \cap ToSet(Placed[q]) = {}
  /\ \E h \in [Instance -> 1..Cardinality(Instance)] :
       \A p \in Instance : \A x \in ToSet(Placed[p]) : h[p] < h[x]

VARIABLES
  parent,    \* Instance::parent
  children,  \* Instance::children, the vector; none is <<>>
  told,      \* the instances whose last onServiceProvider named the root
  service,   \* the root's serviceMap, for the one class
  made,      \* the services that exist
  stack,     \* the calls under way
  calls,     \* how many calls listeners have made since the engine's, and came after disorder
  disturbed, \* history: what listeners moved within a subtree that was on its way
  torn,      \* history: whom a listener moved before setParent had unlinked and linked them
  provided,  \* history: the services that the root made
  lost       \* whether a call does not come back: it crashed or goes on for ever

vars == <<parent, children, told, service, made, stack, calls, disturbed, torn, provided, lost>>
treeVars == <<parent, children>>
pastVars == <<torn, provided, lost>>

Movable == Instance \ {Root}
Place == Instance \cup {None}

-----------------------------------------------------------------------------
\* What is reached from x when each instance leads to those of to: Instance::contains goes
\* upwards from x, the signals go down.
Above(x, to) ==
  LET up[n \in 0..Cardinality(Instance)] ==
        IF n = 0 THEN {x} \cap Instance
        ELSE LET U == up[n - 1] IN U \cup UNION {to[y] : y \in U}
  IN  up[Cardinality(Instance)]
Lineage(x) == Above(x, [y \in Instance |-> {parent[y]} \ {None}])
Inside(x, a) == a \in Lineage(x)
Below(x) == Above(x, [y \in Instance |-> ToSet(children[y])])

\* One visit of signalDescendentAdded or signalDescendentRemoving: who is
\* signalled, at which ancestor, and whether that is due, the listeners have it,
\* or the root has told who.
Visit == [who : Movable, at : Place, step : {"due", "raised", "told"}]
Move == [op : {"move"}, inst : Movable, old : Place, new : Place, walk : Seq(Visit),
         pc : {"removing", "removed", "adding", "added", "changed"}]
Sweep == [op : {"remove", "clear"}, inst : Instance, todo : Seq(Movable)]

Visits(s, at) == [i \in DOMAIN s |-> [who |-> s[i], at |-> at, step |-> "due"]]
Moving(x, q) ==
  [op |-> "move", inst |-> x, old |-> parent[x], new |-> q, pc |-> "removing",
   walk |-> IF parent[x] = None \/ Inside(q, parent[x]) THEN <<>>
            ELSE Visits(<<x>>, parent[x])]
Sweeping(op, x, s) == [op |-> op, inst |-> x, todo |-> s]

Top == Last(stack)
Under == Front(stack)
Does(op) == stack # <<>> /\ Top.op = op
At(pc) == Does("move") /\ Top.pc = pc
Visiting == (At("removing") \/ At("adding")) /\ Top.walk # <<>>
Current == Head(Top.walk)

\* The end of the walk at this place: the instances above both places hear nothing.
Other == IF Top.pc = "removing" THEN Top.new ELSE Top.old
From == IF Top.pc = "removing" THEN Top.old ELSE Top.new
Outside(at) == at = None \/ Inside(Other, at)

Continue(f) == stack' = Append(Under, f)

-----------------------------------------------------------------------------
\* A listener runs while a signal is raised, after the erasure, and at the end. It
\* makes a call that brings n more at least, if bounds allow.
Window ==
  \/ Visiting /\ Current.step # "due"
  \/ At("removed") \/ At("added") \/ At("changed")
MayCall(n) ==
  \/ stack = <<>> /\ (torn \cup disturbed = {} \/ calls < MaxCalls + MaxAfter)
  \/ Window /\ calls < MaxCalls /\ Len(stack) + n <= MaxDepth
Counted == calls' = IF stack = <<>> /\ torn \cup disturbed = {} THEN 0 ELSE calls + 1

\* Whose setParent has not unlinked and linked them yet.
Unlinking == {i \in DOMAIN stack : stack[i].op = "move" /\ stack[i].pc \in {"removing", "removed"}}
Caught(x) == {x} \cap {stack[i].inst : i \in Unlinking}

\* The instances that two moves have to do with at once, when a listener moves x to q
\* while the walk of another is under way.
Concerned(f) == {f.inst} \cup {f.walk[i].who : i \in DOMAIN f.walk}
Crossed(f, x, q) ==
  \/ \E c \in Concerned(f) : Inside(x, c) \/ Inside(q, c) \/ Inside(c, x)
  \/ Inside(f.old, x) \/ Inside(f.new, x)
Walking == {i \in DOMAIN stack : stack[i].op = "move" /\ stack[i].pc \in {"removing", "removed", "adding"}}
Disturbed(x, q) ==
  LET F == {i \in Walking : Crossed(stack[i], x, q)}
      C == {x} \cup UNION {Concerned(stack[i]) : i \in F}
  IN  disturbed \cup {y \in Movable : F # {} /\ \E c \in C : Inside(y, c)}

\* Instance::setParent, by the engine, a script, or a listener of either. A script may
\* have made a service for it with Instance.new.
SetParent(x, q) ==
  /\ MayCall(1) /\ q # parent[x]
  /\ made' = made \cup ({x} \cap Service)
  /\ stack' = Append(stack, Moving(x, q))
  /\ Counted /\ disturbed' = Disturbed(x, q) /\ torn' = torn \cup Caught(x)
  /\ UNCHANGED <<treeVars, told, service, provided, lost>>

\* ServiceProvider::create for the class of services: createChild finds the one of
\* the cache or makes one. The faulty one asks whether it is still a child.
FoundPresent == IF service # None /\ parent[service] # Root THEN None ELSE service
Found == service
GetService(s) ==
  /\ MayCall(1) /\ parent[s] # Root
  /\ Found = s \/ (Found = None /\ s \notin made)
  /\ made' = made \cup {s} /\ provided' = provided \cup ({s} \ made)
  /\ stack' = Append(stack, Moving(s, Root))
  /\ Counted /\ disturbed' = Disturbed(s, Root) /\ torn' = torn \cup Caught(s)
  /\ UNCHANGED <<treeVars, told, service, lost>>

\* Instance::remove takes its children before it goes; removeAllChildren looks anew
\* for the last child each time.
Leaving(x) == IF parent[x] = None THEN <<>> ELSE <<Moving(x, None)>>
RemoveInstance(x) ==
  /\ MayCall(3) /\ parent[x] # None
  /\ stack' = stack \o <<Sweeping("remove", x, children[x])>> \o Leaving(x)
  /\ Counted /\ disturbed' = Disturbed(x, None) /\ torn' = torn \cup Caught(x)
  /\ UNCHANGED <<treeVars, told, service, made, provided, lost>>
RemoveAllChildren(x) ==
  /\ MayCall(3) /\ children[x] # <<>>
  /\ stack' = Append(stack, Sweeping("clear", x, <<>>))
  /\ Counted /\ disturbed' = Disturbed(x, None)
  /\ UNCHANGED <<treeVars, told, service, made, pastVars>>

-----------------------------------------------------------------------------
\* The next step of a sweep: a child the copy names goes, and what is below it; or
\* the child that is last now. Then the sweep is over.
SweepNext ==
  /\ \/ /\ Does("remove") /\ Top.todo # <<>>
        /\ LET c == Head(Top.todo)
           IN  /\ stack' = Under \o <<[Top EXCEPT !.todo = Tail(@)],
                                      Sweeping("remove", c, children[c])>> \o Leaving(c)
               /\ torn' = IF parent[c] = None THEN torn ELSE torn \cup Caught(c)
     \/ /\ Does("clear") /\ children[Top.inst] # <<>>
        /\ LET c == Last(children[Top.inst])
           IN  /\ parent[c] # None
               /\ stack' = Append(stack, Moving(c, None))
               /\ torn' = torn \cup Caught(c)
  /\ UNCHANGED <<treeVars, told, service, made, calls, disturbed, provided, lost>>
SweepDone ==
  /\ \/ Does("remove") /\ Top.todo = <<>>
     \/ Does("clear") /\ children[Top.inst] = <<>>
  /\ stack' = Under
  /\ UNCHANGED <<treeVars, told, service, made, calls, disturbed, pastVars>>

\* onDescendentRemoving or onDescendentAdded at one ancestor. The root tells before
\* its listeners hear of a removal, and after they heard of an arrival.
Tells(x) == IF Top.pc = "removing" THEN told \ {x} ELSE told \cup {x}
Signal ==
  /\ Visiting /\ Current.step = "due" /\ ~Outside(Current.at)
  /\ told' = IF At("removing") /\ Current.at = Root THEN Tells(Current.who) ELSE told
  /\ Continue([Top EXCEPT !.walk[1].step = IF At("removing") /\ Current.at = Root
                                           THEN "told" ELSE "raised"])
  /\ UNCHANGED <<treeVars, service, made, calls, disturbed, pastVars>>
Tell ==
  /\ At("adding") /\ Visiting /\ Current.step = "raised" /\ Current.at = Root
  /\ told' = Tells(Current.who)
  /\ Continue([Top EXCEPT !.walk[1].step = "told"])
  /\ UNCHANGED <<treeVars, service, made, calls, disturbed, pastVars>>

\* The listeners return: on to the ancestor that is next now.
Climb ==
  /\ Visiting
  /\ Current.step = "told" \/ (Current.step = "raised" /\ Current.at # Root)
  /\ Continue([Top EXCEPT !.walk[1] = [Current EXCEPT !.at = parent[Current.at], !.step = "due"]])
  /\ UNCHANGED <<treeVars, told, service, made, calls, disturbed, pastVars>>

\* No ancestor is left: on to the children there are now. Faulty: to no child.
NoneOf(x) == <<>>
ChildrenOf(x) == Visits(children[x], From)
Descend ==
  /\ Visiting /\ Current.step = "due" /\ Outside(Current.at)
  /\ Continue([Top EXCEPT !.walk = ChildrenOf(Current.who) \o Tail(@)])
  /\ UNCHANGED <<treeVars, told, service, made, calls, disturbed, pastVars>>

-----------------------------------------------------------------------------
\* The child leaves the vector of its old parent, if it has one. Faulty: the last
\* one is taken out.
LastErased(c, x) == Front(c)
Erased(c, x) == RemoveFirst(c, x)
Erases == At("removing") /\ Top.walk = <<>> /\ Top.old # None
Unlink ==
  /\ Erases /\ Top.inst \in ToSet(children[Top.old])
  /\ children' = [children EXCEPT ![Top.old] = Erased(@, Top.inst)]
  /\ parent' = [parent EXCEPT ![Top.inst] = None]
  /\ Continue([Top EXCEPT !.pc = "removed"])
  /\ UNCHANGED <<told, service, made, calls, disturbed, pastVars>>

\* ServiceProvider::onChildAdded notes the services, and no other child. The faulty one does.
CachesAny == Top.new = Root
Caches == Top.new = Root /\ Top.inst \in Service

\* push_back, the parent, the root's cache; then who is to be signalled.
Links == At("removed") \/ (At("removing") /\ Top.old = None)
Link ==
  /\ Links /\ Top.new \notin Below(Top.inst)
  /\ parent' = [parent EXCEPT ![Top.inst] = Top.new]
  /\ IF Top.new = None
     THEN Continue([Top EXCEPT !.pc = "changed"]) /\ UNCHANGED <<children, service>>
     ELSE /\ children' = [children EXCEPT ![Top.new] = Append(@, Top.inst)]
          /\ service' = IF Caches THEN Top.inst ELSE service
          /\ Continue([Top EXCEPT !.pc = "adding",
                         !.walk = IF Inside(Top.old, Top.new) THEN <<>>
                                  ELSE Visits(<<Top.inst>>, Top.new)])
  /\ UNCHANGED <<told, made, calls, disturbed, pastVars>>

\* A call does not come back: what it erases is not there, so that it erases the end of
\* the vector; it puts an instance below itself, and then signals down and up what has no
\* end; or removeAllChildren meets one that is in the vector and has no parent, so that
\* nothing takes it out.
Lose ==
  /\ \/ Erases /\ Top.inst \notin ToSet(children[Top.old])
     \/ Links /\ Top.new \in Below(Top.inst)
     \/ Does("clear") /\ children[Top.inst] # <<>> /\ parent[Last(children[Top.inst])] = None
  /\ lost' = TRUE
  /\ UNCHANGED <<treeVars, told, service, made, stack, calls, disturbed, torn, provided>>

\* ChildAdded, then AncestorChanged and the change of the property, and the return.
Added ==
  /\ At("adding") /\ Top.walk = <<>> /\ Continue([Top EXCEPT !.pc = "added"])
  /\ UNCHANGED <<treeVars, told, service, made, calls, disturbed, pastVars>>
Changed ==
  /\ At("added") /\ Continue([Top EXCEPT !.pc = "changed"])
  /\ UNCHANGED <<treeVars, told, service, made, calls, disturbed, pastVars>>
\* With the last call's return only those stay disturbed whom it left with untruth.
Untold == {x \in Movable : (x \in told) # Inside(x, Root)}
Return ==
  /\ At("changed") /\ stack' = Under
  /\ disturbed' = IF Under = <<>> THEN disturbed \cap Untold ELSE disturbed
  /\ UNCHANGED <<treeVars, told, service, made, calls, pastVars>>

-----------------------------------------------------------------------------
Init ==
  /\ children = Placed
  /\ parent = [x \in Instance |->
                 IF \E p \in Instance : x \in ToSet(Placed[p])
                 THEN CHOOSE p \in Instance : x \in ToSet(Placed[p]) ELSE None]
  /\ told = {x \in Movable : Inside(x, Root)}
  /\ service = None /\ made = {} /\ calls = 0 /\ stack = <<>> /\ disturbed = {}
  /\ torn = {} /\ provided = {} /\ lost = FALSE

Call ==
  \/ \E x \in Movable, q \in Place : SetParent(x, q)
  \/ \E s \in Service : GetService(s)
  \/ \E x \in Movable : RemoveInstance(x)
  \/ \E x \in Instance : RemoveAllChildren(x)
Go == SweepNext \/ SweepDone \/ Signal \/ Tell \/ Climb \/ Descend \/ Unlink \/ Link
      \/ Lose \/ Added \/ Changed \/ Return
Next == ~lost /\ (Call \/ Go)
Spec == Init /\ [][Next]_vars

-----------------------------------------------------------------------------
\* Types.
TypeOK ==
  /\ parent \in [Instance -> Place]
  /\ \A p \in Instance : children[p] \in Seq(Movable)
  /\ told \subseteq Movable /\ service \in Service \cup {None} /\ made \subseteq Service
  /\ \A i \in DOMAIN stack : stack[i] \in Move \cup Sweep
  /\ disturbed \subseteq Movable /\ calls \in 0..(MaxCalls + MaxAfter)
  /\ torn \subseteq Movable /\ provided \subseteq made /\ lost \in BOOLEAN

\* An instance is in the vector of its parent, whatever listeners move while setParent is
\* under way: it unlinks from the parent it read at first, and links after the signals of
\* removal. It is there once and in no other vector, but for one that a listener moved in
\* the midst of its own setParent, before that had linked it.
Filed ==
  /\ \A x, p \in Instance : parent[x] = p => x \in ToSet(children[p])
  /\ \A p \in Instance : \A i, j \in DOMAIN children[p] :
       LET x == children[p][i]
       IN  x \notin torn => parent[x] = p /\ (children[p][j] = x => i = j)

\* When all calls have returned, the root has told exactly those inside it, though
\* the walks read parents and children anew after each listener; but for those a
\* listener moved about, or something above them, while a walk was at them. While some
\* instance is in two vectors the walks go astray.
ToldTruth == stack = <<>> /\ torn = {} => Untold \subseteq disturbed

\* The provider makes a service of the class only if it never made one and none is below it,
\* though its only one may leave, be asked for, and be put back by who kept it: the cache
\* forgets none. What scripts make besides it only takes note of.
MakesOnlyTheFirst ==
  [][provided' # provided => provided = {} /\ Service \cap ToSet(children[Root]) = {}]_vars
=============================================================================
