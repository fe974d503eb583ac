# Verification of the RBXGS client

TLA+ models of the simulation core of this repository (`src/Client`), of its
instance tree, scripts, replication and backpack, the TLC runs that check them
and the theorems that TLAPS proves about them. Line numbers
are those of the source tree this directory is kept beside; `PROJECT.json` maps
every definition to the lines it translates.

To check: `tlc -config X.cfg MCModule` for the runs below, `tlapm M.tla` for the
modules whose names end in `Proofs` and for `SequenceFacts`.

## 1. The system

The repository is a decompiled game client and server: a rigid-body world, a
tree of instances above it, Lua scripts that act on the tree, replication to
other machines, and drawing. One thread at a time is inside the data model;
worker threads load content and watch the network.

| component | state it keeps | operations | what makes it correct |
|---|---|---|---|
| **World** (`App/v8world/World.cpp`) | the primitives and joints, step counter, `inStepCode`, `inJointNotification` | insert and remove primitives, joints and contacts; `step`, `update` | never entered while stepping; hands every change to the pipeline in an order the stages can bear |
| **JointStage** | `joints`, `jointMap` (primitive to held joints) | edges and primitives enter and leave, a joint's end is nulled and set | a joint is below exactly when both its primitives are |
| **ClumpStage**, `Clump`, `Assembly` | nine buffers of work; clumps (rigidly joined primitives, with a spanning tree); assemblies (clumps joined by motors) | `process()` empties the buffers; changes undo clumps and assemblies and refill them | everything joined ends up in one group, nothing is lost or filed twice, `process` ends |
| **AssemblyStage** | membership | passes on | - |
| **CollisionStage** | `stepping`, the contacts that may touch | `stepWorld`, `updateContact`, `onSleepChanged` | no contact that matters is forgotten |
| **SleepStage** | three sets of assemblies by sleep status, sleep counts | `checkAwakeAssemblies`, `checkSleepingAssemblies`, `wakeAssemblyAndNeighbors` | nothing moves without its edges, nothing sleeps on what went away |
| **SeparateStage** | `inContact` | `stepWorld` finds contacts that part | - |
| **SimJobStage**, `Mechanism` | mechanisms: assemblies that have touched | combine on edges, notify movement | every moving assembly in one mechanism |
| **Kernel** (`App/v8kernel`) | bodies, points with owner counts, connectors | insert, remove, step | nothing freed is stepped |
| **ContactManager**, `SpatialHash` | grid of primitives | inserts and destroys contacts | a contact for each overlapping pair |
| **Scripts** (`App/script`) | running, pending and yielding scripts, slots, waiters, the Lua states | add, remove, start, resume, heartbeat | a script runs once while it is in the tree, nothing of it after |
| **Instance tree** (`App/v8tree`) | parents, vectors of children, the provider's cache of services | `setParent`, `remove`, `removeAllChildren`, `create` of a service | vectors and parents agree, who is inside was told so, one service is made of a class |
| **Tools and hoppers** (`Tool`, `Hopper`, `LocakBackpack.cpp`) | slots of the panel, the click that waits, the active bins; backpack and character of the player | click, heartbeat, touch, moves by scripts, `setCharacter`, `rebuildBackpack` | one slot for each item at hand, in its place |
| **Data model** (`App/v8datamodel`) | workspace, timers, debris, run state, teams | many | each its own protocol |
| **Humanoid** (`App/humanoid`) | one state object of eight kinds | `setState`, health, steps | dead stays dead |
| **Network** (`Network`) | of each Replicator, what waits to be sent, two string dictionaries, the markers that wait | changes are queued, written, read; markers asked for and returned | both ends come to agree, names are understood, a marker says what is true |
| **Utilities** (`App/util`) | threads, notifiers, content requests | wake, join, raise | no lost wake-up |
| reflection, security, XML, GUI, rendering, Lua 5.1.1 | descriptors, caches | - | outside this project |

**How they interact.** The stages form a pipeline, `JointStage -> ClumpStage ->
AssemblyStage -> CollisionStage -> SleepStage -> SeparateStage -> SimJobStage ->
Kernel`. Every primitive, assembly and edge knows the lowest stage it is in
(`IPipelined::currentStage`); being in one means being in all above. Stages call
each other directly in both directions: down with edges and assemblies, up and
across with `onLosingContact`, `onSleepChanged`, `onWakeUpRequest`. There are no
queues between stages but ClumpStage's buffers. The data model hears of joints
that are destroyed through a listener (`AutoDestroy`) that removes them.
`World::step` is driven by `RunService`'s heartbeat, which also drives scripts
and timers. Everything above the world is an `Instance`: its `setParent` signals
ancestors and providers, and workspace, scripts, the backpack's panel and the
Replicators all live on these signals and call `setParent` from them. A property
that changes is heard by a Replicator for each connection; what it reads from the
other end it sets, and so it is heard by the rest.

**What is hard.** Not threads: world and tree are single-threaded. The hard part is
protocol: ten or more entry points can be called in any order between two calls
of `process` or `step`; each moves several objects among several containers
whose contents are defined by each other; the assertions that guard them are
compiled in but do not stop the program (`util/Debug.h`). The loops of `step`
call handlers that change what they iterate over. Signals are raised in the middle
of calls, and listeners make the same calls. Between machines, items are ordered but
requests are not, and both ends change the same things at once. `PROJECT.json` lists each
hazard at its line, with the property that watches it or why none does yet.

## 2. Modules

| module | models | notes |
|---|---|---|
| `JointStage` | JointStage and the World and Joint entries above it | a joint's life: its ends, its stage, the list, the multimap, the edge lists |
| `JointStageProofs` | theorems of `JointStage` | |
| `RigidGrouping` | the promise of ClumpStage about rigid joints | abstract: no buffers, no order |
| `ClumpStage` | ClumpStage, Clump, Assembly, the motors | implements `RigidGrouping` |
| `ClumpStageProofs` | theorems of `ClumpStage`, the refinement among them | |
| `SleepStage` | CollisionStage, SleepStage, SeparateStage and the loops of `World::step` | |
| `SleepStageProofs` | theorems of `SleepStage` | |
| `Scripts` | ScriptContext, its waiting threads and slots, Script's moves, Workspace's gate | one thread that calls itself |
| `ScriptsProofs` | theorems of `Scripts` | |
| `InstanceTree` | `Instance::setParent` and what it signals, `remove`, `removeAllChildren`, ServiceProvider | a stack of calls; listeners act in the middle, on anybody |
| `InstanceTreeProofs` | theorems of `InstanceTree` | |
| `StringDictionary` | SharedStringDictionary, every direction of every connection | abstract: a line of codes between two rings |
| `Replicator` | Replicator at both ends of each connection, the sender and reader of items, markers | implements `StringDictionary` |
| `ReplicatorProofs` | theorems of `Replicator`, and of the `StringDictionary` in it | |
| `LocalBackpack` | LocalBackpack, clicks of Tool and HopperBin, the player's character and backpack | a call is a step, a record carries its state |
| `LocalBackpackProofs` | theorems of `LocalBackpack` | |
| `SequenceFacts` | lemmas about sequences: that name nobody twice, whose elements are taken out or put in; steps taken in turn | used by the proofs above |
| `MC...` | the instances the runs check | constants only |

### JointStage

State: `present` (primitives in the world), `stage[j]` (out of the world, held in
`joint`, or in `clump` and below), `ends[j]` (the two primitives, or none),
`joints` and `jointMap` (the containers of the class, the multimap as a set of
pairs), and the edge lists of primitives. Each entry of `World` and `Joint` is
one action, and includes the calls down to ClumpStage as far as they show here.
Removing a primitive destroys its joints first, as `World::removePrimitive`
does, with the listener that removes them.

`JointStage::onPrimitiveRemoving` (`JointStage.cpp:244-270`) would file the joints that
are left on the edge list of the primitive; its second loop starts from the pointer
that the first has run to NULL, so that it files none. `RemovePrimitive` has the loop
(`left`), over what is left, which is nothing: the joints were destroyed just before.

`SelfJoints` is whether a joint may have both ends the same: the source has no
check, its callers never do it; the theorems assume they do not.

### ClumpStage

State: the world as told to the stage (`present`, `anchored`, `joined`), the nine
buffers of `ClumpStage.h` by name, for each primitive its clump (named by the
root) and its place in the spanning tree, and for each clump its assembly, with
the assemblies' motors and contacts. Each handler is an action; so is each
iteration of each loop of `process`, with `pc` naming the loop. Which primitive
or joint comes first among equals follows from addresses in the code, so it is
any of them here; `Power` keeps what the sort keys tell apart, size and anchor.

Left out: positions and masses, the angles of motors (only membership of
`motorAngles` is kept), the walking order of lists.

Two constants bound what changes come. `LateAnchors`: an anchor may be added to a
primitive that has a clump. `DropPending`: a rigid joint may be removed while it
waits in `rigidTwos`. `ClumpRigid` allows the first and
`ClumpGhost` the second, which is what its finding needs; `ClumpMotor`, whose
`ClumpsFiled` a late anchor breaks (section 4), allows neither.

### SleepStage

State: the assemblies' sleep status and count, the stage each edge is in,
`stepping`, and the contact loop's progress (`done`, `toErase`). The rigid and
motor structure above is fixed: `present` is whether an assembly is formed. What
geometry decides is free each time it is asked: whether a contact touches, which
assemblies lie still, which move a lot. `World::step` is a loop with `pc`; the
contact loop is one action per contact because what it lowers changes what it
meets later. Between steps the world changes: contacts and joints come and go,
an assembly is taken back by ClumpStage, CanCollide and CanSleep change, a
script tickles a part.

`wakeAssemblyAndNeighbors` is a walk of limited depth: from a sleeper along the edges that
wait in SleepStage, to the sleepers at their other ends, and from these, `WakeDepth` links
far (8 in the code). At the limit it wakes no further, and a deep sleeper there is to be
looked at again. Whom it reaches depends on the order in which it comes upon edges and
assemblies, since it does not walk again from what is awake already: who is reached late
and far may stop a walk that would have gone on by a shorter way. The sets of the code
are ordered by address; `EdgeOrder` and `AsmOrder` are these orders, fixed in a run and
any in the proofs.

A contact that `CollisionStage::stepWorld` has marked for erasing is erased at the end of
its loop even when an assembly of it was woken in between (`CollisionStage.cpp:70-82`): it
is then not stepped though an assembly moves. `ForgottenByLoopOnly` says that this is
the only way for a contact to be forgotten.

Abstractions. An assembly has one clump, so `getOkToSim`, which asks the clump of
a primitive, asks the assembly; with motors a child clump keeps the status it
was made with. `IWorldStage::onEdgeAdded` asserts that an edge is in no
stage when it is handed from one stage to the next, which is never so; the
assertion does nothing and is left out.

### Scripts

The engine and the scripts share one thread, and nest: a script that runs may
move another, which starts it before the call returns, or raise an event whose
slot runs. `stack` holds the nested calls of `ScriptContext::resume`, the
innermost last; `loop` names the loop that goes on when the stack is empty
(`Workspace::start`, `startPendingScripts` or `YieldingThreads::resume`), and
`todo` and `due` are the rest of the copies these loops walk. Each turn of a loop
is an action, since the scripts it resumes act before the next turn.

A *run* is one start of a script, with its node of references: `assoc[s]` is the
run that `Script::association` names, and `eraseAllRefs` of a run empties its
waiting references, kills the function of its slot and the slot's cached thread.
What a script does, when it yields, whether its code has come and whether
`isDisabled` holds is free at each step.

| state | code |
|---|---|
| `held`, `simulating` | `Workspace::pendingScripts`, `isSimulating` |
| `scripts`, `pending`, `off` | `ScriptContext::scripts`, `pendingScripts`, `scriptsDisabled` |
| `open` | `globalState` is not NULL |
| `waiting`, `due`, `empty` | `YieldingThreads::waitingThreads`, the copy being walked, references that were erased |
| `slot`, `cached` | the `FunctionScriptSlot` of a run and its `cachedSlotThread` |
| `inWorld` | `Script::owner` is the workspace (`scriptShouldRun`, whose body the source lacks, finds it) |
| `late` | history only: runs whose script was removed while they ran |

A run has one slot and few threads besides its main one (`Extra`); a script has as
many runs at a time as `Lives` says. When they are used up, `lua_newthread` fails,
which the code provides for: the script does not start. `MaxWaiting` and
`MaxDepth` bound waiting threads and nested calls. `nextPendingScripts` and the
delays of threads are abstracted to a free choice at each heartbeat.

`Meddling` is whether a script may move one that a loop is just about to start.
It may in the code; the run `ScriptRestart` shows what then happens, and `Scripts`
shows what holds otherwise. Left out: `WaitScriptSlot`, disconnecting by
hand, code that runs without a Script (`executeInNewThread`, `dofile`), and
`getFullName`, which `startScript` asks for a script outside the tree only when a
batch starts one that has left.

### InstanceTree

`setParent` is a frame of `stack`, with the `pc` of where it is and `walk`, the
rest of the visits of `signalDescendentRemoving` or `signalDescendentAdded`. A
visit reads the next ancestor, and the children, only when it gets there. While a
signal is out a listener may make a call of its own, which is a frame above; only
the last frame goes on.

| state | code |
|---|---|
| `parent`, `children` | `Instance::parent`, `children`, in the order of the vector |
| `told` | the instances whose last `onServiceProvider` named the root |
| `service`, `made` | the root's `serviceMap` for one class; the services that exist |
| `stack`, `calls` | the calls under way; how many of them listeners made |
| `disturbed` | history only: what a listener moved while a walk was at it, or above or below it |
| `torn` | history only: whom a listener moved while a setParent further out had them in hand and had not linked them yet |
| `provided` | history only: the services that the provider made |
| `lost` | whether a call does not come back |

`setParent` checks nothing, and neither do the callers (`canSetParent` only makes
`LuaInstanceBridge.cpp:397` print a warning), so that any call may move any instance
but the root anywhere: below itself, or out of the hands of a call that is just moving
it. What becomes of it is what the code does. The outer call unlinks from the parent it
read at first and links without another look. An instance that was moved meanwhile is
then in two vectors, or it is not in the vector it is erased from and
`erase(end())` is undefined. One that is put below itself makes `signalDescendentAdded` climb
or descend a cycle for ever, and `removeAllChildren` never ends when the last child
has no parent, since `setParent(NULL)` returns at once. These three are `Lose`, after
which nothing happens any more. A service may be made by a script with `Instance.new`
(`LuaInstanceBridge.cpp:36-47`) beside what the provider makes: `SetParent` of a service
that does not exist yet makes it.

`MaxCalls`, `MaxDepth` and `MaxAfter` bound the calls of listeners in one of the engine's,
their nesting, and the calls the engine makes once a listener has left somebody torn or
told wrongly. The tree to begin with has no cycle, which
`TreeAssumption` says with a rank of the instances.

Left out: listeners of ServiceAdded, ServiceRemoving and ChildRemoved as windows
of their own; `LegacyHopperService::onServiceProvider` (`Hopper.cpp:227-243`),
which moves its children and itself amid its own arrival; a listener that opens a cycle
again while the call that closed it is signalling round it, which the model counts as
lost; the root itself, which nobody gives a parent.

### Replicator and StringDictionary

A server and its clients, with a Replicator at either end of each connection;
`<<p, q>>` is what is at `p` towards `q`.

| state | code |
|---|---|
| `value` | a property of one instance, at each node |
| `pending` | `pendingItems`: ChangePropertyItems and MarkerItems, without values |
| `wire` | the packets under way, RELIABLE_ORDERED, one item in each |
| `names`, `heard` | `propNames` as `StringSender` and as `StringReceiver` |
| `globals` | `receivedGlobals`: from then on a client may send |
| `asked`, `incoming` | requests `'N'` under way, RELIABLE only and so a set; `incomingMarkers` |
| `clash` | history only: properties both ends of a connection changed at once |
| `owes`, in an item | history only: the markers asked for while it was on its way |

The code packs several items in a packet; each of ours is one packet, which allows
all that packing allows and more. What hears `'K'` and `'N'`, `readChangedProperty`
and others have no body in this source; they are modelled from how what there is
uses them and marked external. A marker is not asked for again while it is under
way (the code counts them up).

`Converges` excepts `clash`: when both ends change a property before either hears
of the other's change, the copies cross and stay different, and nothing in the code
sets this right. A listener that sets the property again while it is being read from
`q` changes it for all but `q` (`Replicator.cpp:592`): not modelled.

`StringDictionary` is the strings by themselves: for each direction of each
connection (`Link`) a ring of `Ring` strings at either end (127 in the code) and the
codes between. A code is an index alone or an index and the string. `Replicator` uses it
with `names` and `heard` for the rings and the codes among the items of `wire`
(`CodesOf`) for the lines, whatever goes between. `NamesUnderstood` says that each name
is read as the one that was written, though the sender uses an index again while items
that name it are under way.

Left out: instances that are created and deleted, and their ids; physics
(UNRELIABLE); connecting again; the scope of replication; `trySend`, which no
reliable sender calls.

### LocalBackpack

Played solo, so that one process does what front end and back end do. Each call is
a step. `setParent` under way makes the panel remove and insert slots, so that a
call which moves several tools does so several times: a record (`Now`) carries
the state through, and slots have numbers in it, as the copy that `onHeartbeat`
walks holds slots and not items.

| state | code |
|---|---|
| `place`, `held` | the parent of each item; the character's children that are tools, in order |
| `character` | whether the player has one |
| `slots`, `lastRemovedIndex`, `pendingClick` | the fields of `LocalBackpack`, slots by the item in each |
| `active` | HopperBins with `active` set |

An item is `"gone"` that has no parent, or is in a character or backpack that went.
Scripts may hold on to it and move it anywhere. When a character is removed, the panel has
stopped listening to it before its tools go with it, so that their slots stay until the
backpack is rebuilt; `left` names them. A tool of these that a script puts into the backpack
gets a second slot, for `insertBackpackItem` (`LocakBackpack.cpp:224`) asks for no first one,
and one that lies in the world is shown although it does. `ShownOnce` says how many slots
each item has, these included. `Strays` are the items in the world that hear of a click
all the same, by such a slot or as the pending click, and come in again. A click on a tool that
is gone moves nothing: `onLocalClicked` and `onLocalOtherClicked` find no player from it. What
else the code does with such a click (section 4) is left out.

`ClickPutsAway` says what is true of the copy: when a click puts *n* tools away,
items move on to slots that were passed already, and of the last *n* slots items
may not hear that another was clicked.

Left out: `Tool::setDesiredState` and `rebuildBackendState`, which have no body
here, and so welds and grips; Flag's `canUnequip`; a local player who leaves and is
added again (the old backpack stays connected); a script that removes the Backpack itself;
playing over a network.

## 3. Runs

| run | instance | distinct states | shows |
|---|---|---|---|
| `JointStage` | 3 primitives, 2 joints | 5,408 | list, multimap, edge lists and stages agree after any sequence of calls |
| `ClumpRigid` | triangle of rigid joints, two sizes, late anchors, one contact | 421,802 | buffers and spanning trees are consistent; `RigidGrouping` is implemented |
| `ClumpMotor` | 3 parts, a rigid joint and two motors in a cycle, 2 contacts | 122,176 | clumps and motors are filed; assemblies below grow only by a motor inconsistent in them; `process` ends for equal powers |
| `SleepStage` | 3 assemblies in a row on anchored ground, 3 contacts, 1 joint; waking goes one link | 433,458 | the kernel holds the edges of what moves; losing support wakes; waking spreads as far as it goes; no contact is forgotten but by the loop |
| `Scripts` | 2 scripts, the first with 2 runs and an extra thread; 2 waiting, depth 2 | 1,950,453 | a script is in one place; due ones are kept and not yet started; a thread has one use; nothing of a removed script is resumed |
| `ClumpPower` | two welded parts of different size | violation | `process` does not end |
| `ClumpGhost` | triangle with a tail, joints removed while pending | violation | a joint filed with one clump has two |
| `InstanceTree` | a model, 2 services; one call by a listener in each of the engine's, four calls deep | 2,107,317 | vectors and parents agree but for whom a listener tore; who is inside was told; the provider makes one service of a class |
| `Replicator` | a server, 2 clients that change 2 properties; room for one name and two items | 2,243,464 | agreement when nothing is under way; every name is read as the one written |
| `Markers` | a client that asks for 2 markers while both ends change a property; three items | 174,346 | a marker fires after all that was owed to it; every marker returns |
| `LocalBackpack` | 3 tools, 1 bin | 294,502 | one slot for each item at hand, and one more for what a removed character held; a click keeps slots and puts away what was in use |
| `ScriptRestart` | as `Scripts`, with `Meddling` | violation | a script is started twice by one batch |

**Why the bounds are enough.** The bookkeeping of JointStage concerns a joint and
its two ends; a third primitive lets an end be replaced while the other end and
another joint stay. The repair of a spanning tree needs a cycle, so a triangle; a
fourth primitive gives it a subtree to carry along (`ClumpGhost`). Motors need a
cycle through two clumps for one to be inconsistent. In `SleepStage` a row of
three has two links between sleepers, so that a walk of `WakeDepth` 1 meets its limit where
the code's of 8 would need nine; and a joint over a contact both of whose ends
may sleep is the case `onJointRemoved` treats apart; `StepsToSleep` is 1 where
the code has 20, enough for a count to be cut short and to run full; `Changing`
limits to one contact whose CanCollide changes. In `Scripts`, two scripts let one act
on the other while a loop holds it; two runs of one let an old run, not yet
collected, meet the new one; depth two is a slot or a start nested in a run, and
two waiting threads let one act while the other is still in the copy.

In `InstanceTree` model and services may be put into each other, so that two of them are the
shortest subtree, with a visit to go down to and one to come up from, and three can close a
cycle; a listener that acts once in each window meets every state of the outer call, and with
depth four it can call `remove` and `removeAllChildren` there. After a listener has
left somebody torn or told wrongly the engine makes two more calls, enough to move the
torn one out of either vector. The second service is what a script makes, or a
provider that forgot the first. In `Replicator` two clients let a change
go through the server while the other client changes the same property; a ring of
one string is the one in which every new name displaces another, and two items let
the second be behind the first; `Hero` makes one connection push in front. The
server itself changes properties in `Markers`, where one client is enough: markers
concern one line. Of `LocalBackpack`'s three tools two can be held while the third is
clicked, and the bin stands in slots between and behind.

Deadlock is checked in all runs but `Replicator`, `Markers` and `InstanceTree`:
connections fall silent when no bound allows another change, and in the tree a call that
does not come back is the end, as is the bound on what comes after disorder.

**Fairness.** `FairSpec` of `ClumpStage` has weak fairness of the actions of
`process`: it is a loop in one thread that nothing interrupts (no action of the
world is enabled while `pc` is not idle), so it goes on. `Spec` of `Replicator` has
weak fairness of sending and of receiving on each link, and of the hearing of
requests and of `'K'`: `Peer::onEvent` receives on each heartbeat, `Update` sends
what is pending, and the transport is reliable. No fairness of `SetValue` or
`SendMarker`: `MarkersReturn` needs these to cease, since changes to a character are
pushed in front of a marker that waits and can hold it back for ever.

## 4. Findings

1. `process()` does not return when two free parts of different size are rigidly
   joined (`ProcessReturns`): `processPrimitives` takes the smallest primitive
   where the header speaks of the biggest, and `processRigidOnes` undoes the
   clump for the stronger neighbour, for ever. `BalancedEnds` is what remains
   true.
2. `removeRigid` of a joint that is pending in `rigidTwos` and a link of a
   spanning tree as well (`OnesHaveOneClump`).
3. A script that an earlier script of the same batch moves out of the workspace
   and in again is started twice (`StartedOnce`).

Other observations, which no text of the repository contradicts so plainly that a run
would claim it:

- world: the contact loop's stale list of erasures; the stale verdicts of
  `checkSleepingAssemblies`. `destroyClump` looks for the buffer of a clump by its anchor; when the
  anchor came after the clump was filed, it erases from `anchoredClumps` what is not
  there, and `RBXASSERT(removed == 1)` (`ClumpStage.cpp:280`) fails.
- motors: a motor between two anchored assemblies is inconsistent in both
  (`ClumpStage.cpp:694-698`), which `MotorsFiled` says too. Two assertions speak of a motor
  that has been filed as if it had one assembly: when it is removed,
  `RBXASSERT(a == m->getPrimitive(1)->getAssembly())` (`ClumpStage.cpp:836`) fails, and the
  assembly of the first end is taken apart alone; when its angle is renewed,
  `RBXASSERT(p1Root->getBody()->getParent() == p0->getBody())` (`ClumpStage.cpp:1192`) fails.
  The run `ClumpMotor` reaches such motors and removes them; it shows that the buffers and
  assemblies are right afterwards all the same.
- motors: `processMotors` (`ClumpStage.cpp:657`) gathers the free assemblies that the
  motors touch, and only then takes them apart, which releases more motors. One of
  these that was inconsistent between an assembly taken apart and one that is left
  is attached to the latter, which grows while the stages below hold it. It takes
  four parts in a row and three motors: the outer two motors first, the one between
  them inconsistent, and a second motor beside the first. TLC shows it on that
  instance, which is larger than the run `ClumpMotor`; `MovingAssembliesOnlyShrink`
  says what remains true, and is proved.
- scripts: a slot that is entered again and disconnects; a script that removes
  itself and runs on after its next wait.
- instance tree: `RBXASSERT(!findServiceByClassName(...))` (`Service.cpp:25`) says that a
  service which comes is the first of its class. The map forgets nobody, so that it fails for
  a service that left and is put back, and for one that a script makes with `Instance.new`, which
  the map then names instead. `MakesOnlyTheFirst` is what remains true.
- instance tree: a listener that moves the instance whose setParent is raising the
  signal leaves it in two vectors, or makes that call erase `end()`; a script that puts an
  instance below itself is warned and then hangs the program (`Lose`, section 2).
- network: markers fire in the order they wait in, whatever their number, so the
  assertion of `Replicator.cpp:326` may fail, with no harm to what a marker means.
  `DeleteInstanceItem::write` catches what fails after the type of the item was
  written (`Replicator.cpp:844-869`): the reader is out of step from there.
- tools: a click on a tool without a character moves the tool to NULL
  (`Tool.cpp:253`), and it is lost. `clearLocalBackpack` keeps `pendingClick`, so that
  an item out of the game is clicked; assertions of `Tool.cpp:245` and
  `Players.cpp:203` fail and `HopperBin::onSelectCommand` casts a root that is not
  there (`Hopper.cpp:170`). Slots of a removed character's tools stay until the
  backpack is rebuilt: a script that moves such a tool makes it shown twice, or shown while it
  lies in the world, and a click then takes it from there.
- timers: `iter.base()` in `TimerService::delay` (`TimerService.cpp:22`) puts a call
  behind one that is due later, where it waits; `worker_thread` (`util/boost.cpp:140`) can
  lose a wake. Neither is modelled.

## 5. Proofs

`JointStageProofs` proves for any sets of primitives and joints, from
`~SelfJoints`, all four invariants of `JointStage`. The inductive invariant is
the conjunction of the type invariant, `HeldExactly`, `NoneStuck`,
`EdgeListsExact` and `DistinctEnds`. None of the middle three is inductive by
itself: a primitive that enters finds the joints to carry down through the
multimap, so what is downstream (`NoneStuck`) rests on the multimap being exact,
and a primitive that leaves finds its joints through its edge list. One lemma per
action and invariant part.

`ClumpStageProofs` proves every property of `ClumpStage` that the passing runs check,
but for liveness, for any primitives, joints and contacts: seven invariants,
`MovingAssembliesOnlyShrink`, and that `ClumpStage` implements `RigidGrouping`. It
assumes `Tame`, which has three parts. `~DropPending`: no rigid joint is removed while
it is pending and a link of a tree (finding 2 is what happens then). No motors
if `LateAnchors`: when a motor is removed its assembly is taken apart and the clumps
wait in their buffers, where an anchor that comes then leaves its clump in the wrong
one (section 4). So what it says of `ClumpsFiled`
is no more than what the runs check without late anchors, and it is not listed as a
result; the invariant needs it. `NoTwins`: no two rigid joints join the
same two primitives; `World::insertJoint` displaces the older of two, and the code
asserts it (`ClumpStage.cpp:583`), though `Joint::setPrimitive` could make such a pair.
The invariant `Inv` is:

- `Typed`, and `Phase`: which buffers are empty in which loop of `process`;
- `RigidIn`, `MotorsIn`, `EdgesIn`: where each joint or contact is, told by the clumps
  and assemblies of its two ends. The properties speak of sets of clumps and their
  number; the invariant of the first end and the second, which is what a handler
  has in hand;
- `PrimitivesFiled`, `ClumpsFiled`, and `AnchorsLoose`: an anchor that waits is of no
  clump that a loop could take for its own;
- `Tree`: who has a parent is one deeper and joined to it. No walk is mentioned, so
  that a joint that goes is looked for at one place; that the walks of the code
  (`Level`, `Subtree`) come to an end and reach everybody is derived
  (`TreeIsSpanningTree`);
- `Hung`: each clump of an assembly but the root hangs by exactly one motor.

The hardest step is the removal of a link (`RemoveRigid`). `SubtreeFacts` says what
hangs under it; `PathFacts`, that the climb from the new link stays in what was cut
off and ends at its top, for which `NoTwins` is needed; `AdjustTree`, that the
links turned round and renumbered are a tree again; `RemoveTree`, that without a new
link what hung there is withdrawn and all its joints are filed anew. `GuttedFacts`
says joint by joint what `destroyClumpGuts` makes of the buffers, and serves all five
handlers that call it; `ReleaseStep` does the same for `destroyAssembly`, and `GainStep`
for the loops that make assemblies. For the refinement, `NextGroups` maps a change to
`Change`, the last step of `process` to `Settle`, and the others to `Regroup`; a clump is
connected (`ClumpConnected`) since of any part without the root the least deep body hangs
by a joint to the rest.

`SleepStageProofs` proves all seven properties of `SleepStage` for any assemblies,
contacts and joints that satisfy `SleepStageAssumption`, any `WakeDepth` and any order
of edges and assemblies. The invariant is `IInv`:

- `Control`: the types of what is not in `Pipe`, that every assembly is formed
  while `pc` is not idle, and that only the contact loop has anything to erase;
- `SteppingInStage`;
- of `Pipe`, the value the stages share: `Sound` (types, and what is anchored is
  awake), `Exact` (`KernelExactly`, with room for edges that a handler is just
  moving), `Apart` (`JointedApart`) and `Formed` (what is down is between formed
  assemblies).

The walk of `wakeAssemblyAndNeighbors` is a recursive function of the depth and, in each
call, of the place in the order of the edges. `Walked` says what a walk that may go *d* links far
makes of those awake: it wakes sleepers only, and if one of those it woke is left beside a
sleeper it has woken more than *d* (`AlongWalks`, `WakeWalks`). This is carried through the edges of one
assembly, then through the depth, then through the assemblies that a handler wakes in turn
(`AwokenFacts`); the order of the walk does not matter to it.

The handlers are functions from `Pipe` to `Pipe`, so the proof follows their
calls rather than the actions: `RouseFacts`, `LowerFacts` and `RaiseFacts` (an edge goes
down to SleepStage, or up from it), `UpdateFacts` (`updateContact`), `EnterJointFacts`,
`EnterContactFacts` and `WithdrawFacts` each say what the call keeps; an action is then one or
two such calls. `Exact` needs room for exceptions because a handler moves its edge before
it wakes the ends. That waking has spread (`Spreads`) is kept by calls in turn though each
wakes only some, since what counts is how many were woken in all (`MindsOn`,
`KeptInTurn`). The three action properties come from the same lemmas: every
step lemma proves `IInv'` together with `Faithful`, their common body.

`ReplicatorProofs` proves `FiresAfterDelivery` for any clients, properties, values
and markers. Requests overtake each other, so that the markers of a line are
neither those that wait nor in their order; what is invariant is their number. With
`Line(c)`, what is on the wire and pending for `c`, `Ordered` says: the
markers in the line and the requests not yet heard are together as many as `c`
waits for, and an item that owes the *j*-th that waits has fewer than *j* markers
before it. The counts come with a witness, the function of how many markers stand
before each place, so that no recursion is needed. A lemma for each thing done to
a line (`OrderInsert`, `OrderDrop`, `OrderAsk`, `OrderHear`), one for each at its
place on wire and pending (`OrderPending`, `OrderSeam`, `OrderRead`, `OwingSeam`,
`OrderLast`), and one for each action. The only fact about values and dictionaries
it needs is that writing keeps what an item is and owes.

Of `StringDictionary`, as the connections have it (`Names`), it proves
that it is always understood, for any connections, any strings, any ring, and lines of any
length (`DictionaryUnderstood`). The invariant says, for each index and each place of a
line, which string the index stands for there: after the last code before that place
which sets it, or else in the receiver's ring; at the end of the line it is the sender's
ring. An index may be reused while codes that name it are under way, so nothing said of
the two rings alone is inductive. `NamesUnderstood` carries this over to the items of
`Replicator`: `CodesOf` is a recursive function, and `CodesAppend`, `CodesTail` and
`CodesSame` say what becomes of it when an item is written, is read, or owes another
marker; with them a step of `Replicator` is a step of `StringDictionary` or none
(`StepStreams`), which holds by construction and is a lemma here, no result.

And it proves `Converges`, which needs that: a change is only put under the name it
was sent under because the name is understood. `Converges` speaks of the moments when nothing
is on its way; `Agree` speaks of all others. Of a property that is not in
`clash` at most one end of a connection has news (a change that waits or is on the wire), and
that news is `Fresh`: it waits, and is written with the value of the moment, or the last of
it on the wire has the value the property has at its sender now. A step is `Quiet` on a
connection, which keeps `Agree` (`QuietAgrees`), or it raises a change there
(`RaisedAgrees`), or it reads the last of the news, which is the case that makes the
ends equal (`ReceiveChangeAgrees`). That the server passes on what it reads to all
others, but not to where it came from, is what keeps the connections apart.

`ScriptsProofs` proves all seven properties of `Scripts` for any scripts, runs, threads
and depth of calls, from `~Meddling`: no script moves one that a loop is about
to start. The invariant `IInv` is the conjunction of the type invariant,
`OnePlace` and:

- `Loops`: the copies that the two loops walk name nobody twice, nor one that is
  pending; a copy outlives what it was made of, so this does not follow from types;
- `DueFresh` and `Owned`: what is due to be started is known and has no run, and
  what has a run is known. This is what a script that moves another breaks;
- `Apart`: a thread waits, or is in one call, or a slot keeps it;
- `Shut`: without a Lua state nothing runs and every reference is erased;
- `Led`: a thread that can go on is of its script's run, or of one removed while
  it ran (`late`).

What each property needs differs, but no part is inductive alone: removing a
script erases references by its run (`Led`), the run is found by the script
(`Owned`), and a reference that is erased must not be the one that runs
(`Apart`). `RemoveScriptFacts` and its like say what the functions
on the context's state keep; an action is one or two of these. `StartedOnceHolds`
is the other side of the run `ScriptRestart`: under the same assumption the
property that run violates holds, so the move of a script that is
about to be started is the only way to start one twice.

`InstanceTreeProofs` proves the three invariants and the action property of `InstanceTree`
for any instances, any number of calls by listeners and any depth, and with no assumption
about whom these move or where to. The invariant `IInv` is:

- `Typed`: types, of the frames on the stack among others;
- `Held`, which is `Filed`. It is not inductive by itself: setParent unlinks from the parent it
  read before the signals, and links without another look;
- `Unlinked`, which says why that is right for whoever is not `torn`: an instance that a call
  further out is to unlink is where that call found it, or nowhere, and no call that began since
  moves it. A listener that does move it makes it torn at once, and `RemoveFacts` says that the
  erasure, whosever it is, takes nobody else from a vector;
- `Made` and `Cached`: while the cache has none, none is below the root and the provider made
  none, but for the first one that is just being put in place; no listener runs between
  (`Begun`, `WindowFacts`).

`ToldTruth` needs more, and speaks of no time after a listener tore somebody:

- `Ranked`: some rank grows from each instance to what is in its vector, so the tree has no
  cycle. It holds because a call that would close one does not come back (`RankedLink`,
  `BelowIn`): it is what the code does with cycles, not what callers see to.
- `Talk` speaks of the moments when something is under way. A walk that
  nobody disturbs is `Sane`: all it has to do with is below what is moved, and where it
  signals is above where it started. `ToldBy` says of what the walk covers that it was told
  what was true until it is told what is, and that whoever lacks it is at or below a visit
  still to come (`Due`); a call that is about to close a cycle tells nothing (`Bound`). Two calls
  that are in each other's way are the case that
  `disturbed` records when the inner one begins; `ApartIn` says that this is enough, though both
  move instances afterwards: what a call meets or enters after a change of the tree it met or
  entered before, or meets what the change moved. What a change of the tree does to who is
  below whom is `InUnlink` and `InLink`. There is a lemma for each thing
  that is done to the stack (`TalkMove`, `TalkVisit`, `TalkDescend`, `TalkUnlink`, `TalkLink`,
  `TalkSweep`, `TalkPop`, ...) and one for the actions of each kind.

Reachability (`Above`) is a recursive function over the number of instances; `AboveFacts` says, by
induction on that number, that it is the least set closed upwards, and everything after uses only
that.

`LocalBackpackProofs` proves all three properties of `LocalBackpack` for any tools and bins,
wherever scripts take items from and put them. A call is a row of moves, and between calls
the panel must be right, so the invariant is what holds of the state of a call between its
moves. There are two ways in which the panel stands.

While no character went since the backpack was rebuilt it is `Ok`: the slots that are children
were made and are children once; what they show is what is in backpack and character, once
each; the tools held are those whose place says so. `MovedFacts` says what one move does:
between backpack and character an item leaves its slot, the items behind move up, and the
slot that is made for it takes its place again, since `lastRemovedIndex` remembers it.
`AllMoved` is a fold over what is moved, and `AllMovedFacts` carries this through.
`ClickPutsAway` needs more: `HeardTo` follows the copy of the slots that `onHeartbeat` walks. When
the first *k* slots have heard and *m* tools were put away, a slot that has not heard shows
what stands *m* places before its old place, and nobody is in use up to the place *k - m*;
with all heard, what may be missed are the last *m*. No part is inductive without the
others: the slot a move makes is at the right place only if nobody is shown twice.

After that it is `Loose`, until the backpack is rebuilt: nobody has a character, each item has a
slot for where it is and one more if it was held by the one that went. The counts change by
one with each move (`InsertCount`, `RemoveCount`, `LooseMoved`). Nobody can be put away
from a hand then, and what the copy meets in the world comes in; `LooseTo` with `CameIn` says that
only the first that does moves the slots behind it on, since all others are put at the end.

Model-checked only: liveness (`BalancedEnds`, `MarkersReturn`), which is out of the
prover's reach. Every other property of a run that passes is a theorem, under the assumptions
named above (`~SelfJoints`, `Tame`, `~Meddling`).

## 6. Not modelled

What a next step would be, in this order: `ClumpStage` with parallel rigid joints and
`JointStage` above it, which could make them; `Play`, which is RunService, TimerService and
DebrisService composed with `Scripts`; `Humanoid`, the state machine with its
re-entrant `setState`; `worker_thread` and `Notifier`; `Kernel` and `SimJobStage`,
ownership of points and connectors, mechanisms. Instances that are created and
deleted by a Replicator wait for bodies that this source lacks
(`NewInstanceItem::write`, `readInstanceNew`, `readInstanceDelete`,
`addReplicationData`, `deserializeRef`, `sendPhysicsData`, `OnReceive`,
`ClientProxy::canSendItems`).

Not to be modelled: geometry and dynamics (floating point), drawing and the view,
draggers, XML, the reflection templates, and the Lua virtual machine, which is
vendored. They and the headers are most of the source by lines: what is modelled
here is a small share of the lines, and most of the protocol.
