-------------------------------- MODULE Scripts --------------------------------
(***************************************************************************)
(* ScriptContext with what calls it: the Workspace that holds scripts back *)
(* until the simulation runs, the heartbeat that starts pending scripts and*)
(* resumes waiting threads, and the slots that scripts connect to events.  *)
(*                                                                         *)
(* All of this runs in one thread, but it calls itself: a Lua thread that  *)
(* is resumed may move scripts, start others by it, and raise events whose *)
(* slots run, all before the loop that resumed it goes on. The threads that*)
(* are being run are a stack; with an empty stack the loop named by "loop" *)
(* goes on, or the engine acts. What a script does, and when it yields or  *)
(* fails, is a free choice.                                                *)
(*                                                                         *)
(* A start of a script is a run: its main thread, its environment with the *)
(* ThreadRef::Node in it, and the threads made from it. A ThreadRef is in  *)
(* the list of its run's node; eraseAllRefs empties all of them.           *)
(***************************************************************************)
EXTENDS Integers, Sequences, FiniteSets, SequencesExt

CONSTANTS
  Script,     \* the scripts
  Lives,      \* how many runs a script may have at a time: a bound
  Extra,      \* how many threads a run makes besides its main one: a bound
  MaxWaiting, \* how many threads wait at a time: a bound
  MaxDepth,   \* how deep the calls into Lua are nested: a bound
  Backend,    \* Network::Players::backendProcessing
  Meddling    \* whether a script may move one that a loop is about to start

ASSUME ScriptsAssumption ==
  /\ IsFiniteSet(Script)
  /\ Lives \in [Script -> Nat \ {0}] /\ Extra \in [Script -> Nat]
  /\ MaxWaiting \in Nat /\ MaxDepth \in Nat \ {0}
  /\ Backend \in BOOLEAN /\ Meddling \in BOOLEAN

VARIABLES
  inWorld,     \* the scripts below the workspace: those it owns
  simulating,  \* Workspace::isSimulating
  held,        \* Workspace::pendingScripts
  scripts,     \* ScriptContext::scripts
  pending,     \* ScriptContext::pendingScripts
  off,         \* ScriptContext::scriptsDisabled
  open,        \* whether there is a globalState
  assoc,       \* the run whose node is the script's association, if any
  waiting,     \* the threads in YieldingThreads::waitingThreads
  due,         \* those in the copy that YieldingThreads::resume is walking
  empty,       \* of both, those whose ThreadRef was erased
  slot,        \* the FunctionScriptSlot of a run: "dead" if its function was erased
  cached,      \* the cachedSlotThread of that slot, if any
  loop,        \* the loop being run
  todo,        \* the rest of the copy that this loop starts scripts from
  stack,       \* the calls of ScriptContext::resume, the innermost one last
  late         \* history: the runs that were erased while they ran

vars == <<inWorld, simulating, held, scripts, pending, off, open, assoc, waiting, due,
          empty, slot, cached, loop, todo, stack, late>>
ctxVars == <<scripts, pending, assoc, empty, slot, cached>>
worldVars == <<inWorld, simulating, held>>

ScriptOf(r) == r[1]
Run == UNION {{s} \X (1..Lives[s]) : s \in Script}
Thread == UNION {{r} \X (0..Extra[ScriptOf(r)]) : r \in Run}
NoRun == <<>>
NoThread == <<>>
RunOf(t) == t[1]
Frame == [thread : Thread, use : {"plain", "new", "cached"}]

TypeOK ==
  /\ inWorld \subseteq Script /\ held \subseteq Script /\ scripts \subseteq Script
  /\ simulating \in BOOLEAN /\ off \in BOOLEAN /\ open \in BOOLEAN
  /\ pending \in Seq(Script) /\ todo \in Seq(Script)
  /\ assoc \in [Script -> Run \cup {NoRun}]
  /\ \A s \in Script : assoc[s] # NoRun => ScriptOf(assoc[s]) = s
  /\ waiting \subseteq Thread /\ due \subseteq Thread
  /\ empty \subseteq waiting \cup due
  /\ slot \in [Run -> {"none", "live", "dead"}]
  /\ cached \in [Run -> Thread \cup {NoThread}]
  /\ \A r \in Run : cached[r] # NoThread => RunOf(cached[r]) = r /\ slot[r] = "live"
  /\ loop \in {"idle", "start", "pending", "waiters"}
  /\ stack \in Seq(Frame) /\ Len(stack) <= MaxDepth
  /\ late \subseteq Run

-----------------------------------------------------------------------------
\* ScriptContext and the refs, as one value.
Ctx == [scripts |-> scripts, pending |-> pending, assoc |-> assoc, empty |-> empty,
        slot |-> slot, cached |-> cached]
SetCtx(C) ==
  /\ scripts' = C.scripts /\ pending' = C.pending /\ assoc' = C.assoc
  /\ empty' = C.empty /\ slot' = C.slot /\ cached' = C.cached

OnStack == {stack[i].thread : i \in DOMAIN stack}
Running(r) == \E t \in OnStack : RunOf(t) = r
Unused(r) ==
  ~Running(r) /\ slot[r] = "none" /\ \A t \in waiting \cup due : RunOf(t) # r
Top == Last(stack)

RoomToWait == Cardinality(waiting \cup due) < MaxWaiting

\* A thread is in use by a loop, a call or a slot.
InUse(C, t) == t \in waiting \cup due \cup OnStack \/ C.cached[RunOf(t)] = t
Spare(C, s) == {r \in Run : ScriptOf(r) = s /\ Unused(r) /\ C.assoc[s] # r}
Least(R) == CHOOSE r \in R : \A q \in R : r[2] <= q[2]
SpareThread(C, r) == {k \in 1..Extra[ScriptOf(r)] : ~InUse(C, <<r, k>>)}

\* ThreadRef::Node::eraseAllRefs of the nodes of R.
EraseAllRefs(C, R) ==
  [C EXCEPT !.empty = @ \cup {t \in waiting \cup due : RunOf(t) \in R},
            !.slot = [r \in Run |-> IF r \in R /\ C.slot[r] = "live" THEN "dead" ELSE C.slot[r]],
            !.cached = [r \in Run |-> IF r \in R THEN NoThread ELSE C.cached[r]]]

\* The runs that run while removeScript erases them, and are not at an end.
LateAfter(s) == IF s \in scripts /\ Running(assoc[s]) THEN late \cup {assoc[s]} ELSE late
StillLate == late' = {r \in late : ~Unused(r)'}

\* ScriptContext::disassociateState of the scripts in S; the faulty one does it
\* for none.
KeepAssociations(C, S) == C
Disassociate(C, S) ==
  LET D == EraseAllRefs(C, {C.assoc[s] : s \in S} \ {NoRun})
  IN  [D EXCEPT !.assoc = [s \in Script |-> IF s \in S THEN NoRun ELSE C.assoc[s]]]

\* ScriptContext::removeScript; the faulty one leaves the pending start.
RemoveFromScripts(C, s) ==
  IF s \notin C.scripts THEN C
  ELSE [Disassociate(C, {s}) EXCEPT !.scripts = @ \ {s}]
RemoveScript(C, s) ==
  IF s \notin C.scripts THEN C
  ELSE [Disassociate(C, {s}) EXCEPT !.scripts = @ \ {s}, !.pending = RemoveFirst(@, s)]

Call(t, use) == stack' = Append(stack, [thread |-> t, use |-> use])

\* What startScript leaves of a script that cannot start; the faulty one forgets
\* it if the loop of startPendingScripts calls.
PendedButOnce(C, s) == IF loop = "pending" THEN C ELSE [C EXCEPT !.pending = Append(@, s)]
Pended(C, s) == [C EXCEPT !.pending = Append(@, s)]

\* ScriptContext::startScript. Scripts are disabled, or the code has not come;
\* or it starts; or lua_newthread fails.
StartScript(C, s) ==
  \/ SetCtx(Pended(C, s)) /\ UNCHANGED <<stack, open>>
  \/ /\ ~off /\ open' = TRUE
     /\ LET r == Least(Spare(C, s))
        IN  IF Spare(C, s) = {} THEN SetCtx(C) /\ UNCHANGED stack
            ELSE /\ SetCtx([C EXCEPT !.assoc[s] = r])
                 /\ Call(<<r, 0>>, "plain")

\* ScriptContext::addScript; a script that is disabled is not started.
AddScript(C, s) ==
  LET D == [C EXCEPT !.scripts = @ \cup {s}]
  IN  IF s \in C.scripts THEN SetCtx(C) /\ UNCHANGED <<stack, open>>
      ELSE \/ SetCtx(D) /\ UNCHANGED <<stack, open>>
           \/ StartScript(D, s)

-----------------------------------------------------------------------------
Init ==
  /\ inWorld = {} /\ held = {} /\ scripts = {} /\ pending = <<>>
  /\ simulating = FALSE /\ off = FALSE /\ open = FALSE
  /\ assoc = [s \in Script |-> NoRun]
  /\ waiting = {} /\ due = {} /\ empty = {}
  /\ slot = [r \in Run |-> "none"] /\ cached = [r \in Run |-> NoThread]
  /\ loop = "idle" /\ todo = <<>> /\ stack = <<>> /\ late = {}

\* The engine acts between its loops; while Lua runs, a script acts.
EngineActs == stack = <<>> /\ loop = "idle"
ScriptActs == stack # <<>>
MayMove(s) == (EngineActs \/ ScriptActs) /\ (Meddling \/ s \notin ToSet(todo))

\* Script::onAncestorChanged of a script that comes below the workspace, with
\* Workspace::runScript: simulated on a backend only while the simulation runs.
MoveIn(s) ==
  LET C == RemoveScript(Ctx, s)
  IN  /\ MayMove(s) /\ s \notin inWorld /\ Len(stack) < MaxDepth
      /\ inWorld' = inWorld \cup {s}
      /\ IF Backend /\ ~simulating
         THEN held' = held \cup {s} /\ SetCtx(C) /\ UNCHANGED <<stack, open>>
         ELSE AddScript(C, s) /\ UNCHANGED held
      /\ late' = LateAfter(s)
      /\ UNCHANGED <<simulating, off, waiting, due, loop, todo>>

\* Workspace::releaseScript; the faulty one keeps the script.
KeepHeld(s) == held
Released(s) == held \ {s}

\* Script::onServiceProvider, or onAncestorChanged, of a script that leaves.
MoveOut(s) ==
  /\ MayMove(s) /\ s \in inWorld
  /\ inWorld' = inWorld \ {s}
  /\ held' = Released(s)
  /\ SetCtx(RemoveScript(Ctx, s)) /\ late' = LateAfter(s)
  /\ UNCHANGED <<simulating, off, open, waiting, due, loop, todo, stack>>

\* The property ScriptsDisabled is set; onChangedScriptEnabled has no effect, as
\* startPendingScripts does nothing while scripts are disabled.
SetDisabled ==
  /\ EngineActs \/ ScriptActs
  /\ off' = ~off
  /\ UNCHANGED <<worldVars, ctxVars, late, open, waiting, due, loop, todo, stack>>

\* Workspace::start and stop.
StartSimulation ==
  /\ EngineActs /\ ~simulating
  /\ simulating' = TRUE
  /\ loop' = "start" /\ todo' \in SetToSeqs(held) /\ held' = {}
  /\ UNCHANGED <<inWorld, off, open, ctxVars, late, waiting, due, stack>>

StopSimulation ==
  /\ EngineActs /\ simulating
  /\ simulating' = FALSE
  /\ UNCHANGED <<inWorld, held, off, open, ctxVars, late, waiting, due, loop, todo, stack>>

\* ScriptContext::onEvent of a heartbeat, with startPendingScripts if the time
\* for it has come, and YieldingThreads::resume after it.
BeginWaiters == loop' = "waiters" /\ due' = waiting /\ waiting' = {}
Heartbeat ==
  /\ EngineActs
  /\ \/ /\ ~off
        /\ loop' = "pending" /\ todo' = pending /\ pending' = <<>>
        /\ UNCHANGED <<waiting, due>>
     \/ BeginWaiters /\ UNCHANGED <<pending, todo>>
  /\ UNCHANGED <<worldVars, scripts, assoc, empty, slot, cached, late, off, open, stack>>

\* One turn of the loop of startPendingScripts, or of Workspace::start's.
StartNext ==
  /\ loop \in {"start", "pending"} /\ stack = <<>> /\ todo # <<>>
  /\ todo' = Tail(todo)
  /\ IF loop = "start" THEN AddScript(Ctx, Head(todo)) ELSE StartScript(Ctx, Head(todo))
  /\ UNCHANGED <<worldVars, off, waiting, due, loop, late>>

StartsDone ==
  /\ loop \in {"start", "pending"} /\ stack = <<>> /\ todo = <<>>
  /\ IF loop = "start" THEN loop' = "idle" /\ UNCHANGED <<waiting, due>>
     ELSE BeginWaiters
  /\ UNCHANGED <<worldVars, ctxVars, late, off, open, todo, stack>>

\* One turn of the loop of YieldingThreads::resume: the ref was erased, or the
\* thread has to wait on, or it runs. The faulty one does not look.
AnyRef(t) == TRUE
HasRef(t) == t \notin empty

Wake(t) ==
  /\ loop = "waiters" /\ stack = <<>> /\ t \in due
  /\ due' = due \ {t}
  /\ empty' = empty \ {t}
  /\ \/ ~HasRef(t) /\ UNCHANGED <<waiting, stack>>
     \/ HasRef(t) /\ waiting' = waiting \cup {t} /\ UNCHANGED stack
     \/ HasRef(t) /\ Call(t, "plain") /\ UNCHANGED waiting
  /\ UNCHANGED <<worldVars, scripts, pending, assoc, slot, cached, off, open, loop, todo>>
  /\ StillLate

WaitersDone ==
  /\ loop = "waiters" /\ stack = <<>> /\ due = {}
  /\ loop' = "idle"
  /\ UNCHANGED <<worldVars, ctxVars, late, off, open, waiting, due, todo, stack>>

-----------------------------------------------------------------------------
\* SignalBridge::connect, by the thread that runs.
Connect ==
  LET r == RunOf(Top.thread)
  IN  /\ ScriptActs /\ slot[r] = "none" /\ Extra[ScriptOf(r)] > 0
      /\ slot' = [slot EXCEPT ![r] = "live"]
      /\ UNCHANGED <<worldVars, scripts, pending, assoc, empty, cached, late, off, open,
                     waiting, due, loop, todo, stack>>

\* ScriptContext::delay: a new thread waits.
Delay ==
  LET r == RunOf(Top.thread)
  IN  /\ ScriptActs /\ RoomToWait
      /\ \E k \in SpareThread(Ctx, r) : waiting' = waiting \cup {<<r, k>>}
      /\ UNCHANGED <<worldVars, ctxVars, late, off, open, due, loop, todo, stack>>

\* Whether the slot of r is in a call that runs its cached thread.
Reentered(r) == \E i \in DOMAIN stack : stack[i].use = "cached" /\ stack[i].thread = cached[r]

\* FunctionScriptSlot::operator(), up to the resume. A slot whose function was
\* erased disconnects; a thread that runs cannot be resumed, which is an error;
\* else the slot runs its cached thread or a new one. SlotEnds is the rest.
Fire(r) ==
  /\ EngineActs \/ ScriptActs
  /\ \/ /\ slot[r] = "dead" \/ (slot[r] = "live" /\ Reentered(r))
        /\ slot' = [slot EXCEPT ![r] = "none"]
        /\ cached' = [cached EXCEPT ![r] = NoThread]
        /\ UNCHANGED stack
     \/ /\ slot[r] = "live" /\ ~Reentered(r) /\ Len(stack) < MaxDepth
        /\ IF cached[r] # NoThread THEN Call(cached[r], "cached")
           ELSE \E k \in SpareThread(Ctx, r) : Call(<<r, k>>, "new")
        /\ UNCHANGED <<slot, cached>>
  /\ UNCHANGED <<worldVars, scripts, pending, assoc, empty, off, open, waiting, due, loop, todo>>
  /\ StillLate

\* What the slot keeps for its next call after a result of this one; one faulty one
\* keeps a thread that has yielded, the other one whose function was erased.
KeptThough(f, result) ==
  IF result # "success" THEN NoThread
  ELSE IF f.use = "new" THEN f.thread ELSE cached[RunOf(f.thread)]
KeptUnlessError(f, result) ==
  LET r == RunOf(f.thread)
  IN  IF result = "error" \/ slot[r] # "live" THEN NoThread ELSE f.thread
Kept(f, result) ==
  LET r == RunOf(f.thread)
  IN  IF result # "success" \/ slot[r] # "live" THEN NoThread
      ELSE IF f.use = "new" THEN f.thread ELSE cached[r]

SlotEnds(f, result) ==
  LET r == RunOf(f.thread)
  IN  IF f.use = "plain" THEN UNCHANGED <<slot, cached>>
      ELSE /\ cached' = [cached EXCEPT ![r] = Kept(f, result)]
           /\ slot' = [slot EXCEPT ![r] = IF result = "error" \/ slot[r] # "live"
                                          THEN "none" ELSE slot[r]]

\* The innermost call of ScriptContext::resume returns; a thread that yields
\* waits, by wait() or by the resume itself.
Return(result) ==
  /\ ScriptActs /\ (result = "yield" => RoomToWait)
  /\ stack' = Front(stack)
  /\ waiting' = IF result = "yield" THEN waiting \cup {Top.thread} ELSE waiting
  /\ SlotEnds(Top, result)
  /\ UNCHANGED <<worldVars, scripts, pending, assoc, empty, off, open, due, loop, todo>>
  /\ StillLate

\* ScriptContext::closeState, by DataModel::clearContents or as the context
\* leaves. lua_close collects the nodes that no script is associated with.
Close ==
  LET C == Disassociate(Ctx, scripts)
      D == EraseAllRefs(C, Run \ {C.assoc[s] : s \in Script})
  IN  /\ EngineActs /\ open
      /\ open' = FALSE /\ off' \in {off, FALSE}
      /\ waiting' = {} /\ SetCtx([D EXCEPT !.empty = {}])
      /\ late' = {}
      /\ UNCHANGED <<worldVars, due, loop, todo, stack>>

Next ==
  \/ \E s \in Script : MoveIn(s) \/ MoveOut(s)
  \/ SetDisabled \/ StartSimulation \/ StopSimulation \/ Heartbeat
  \/ StartNext \/ StartsDone \/ WaitersDone
  \/ \E t \in Thread : Wake(t)
  \/ Connect \/ Delay \/ Close
  \/ \E r \in Run : Fire(r)
  \/ \E result \in {"success", "yield", "error"} : Return(result)

Spec == Init /\ [][Next]_vars

-----------------------------------------------------------------------------
\* A script below the workspace is held by it, known to the context, or about to
\* be added by Workspace::start; one that is not below it is nowhere.
OnePlace ==
  LET adding == IF loop = "start" THEN ToSet(todo) ELSE {}
  IN  /\ inWorld = held \cup scripts \cup adding
      /\ held \cap scripts = {} /\ scripts \cap adding = {} /\ adding \cap held = {}

\* A script that is to be started has not been: it is known, it is pending once,
\* and nothing is associated with it.
DueUnstarted ==
  LET q == IF loop = "pending" THEN pending \o todo ELSE pending
  IN  /\ \A i, j \in DOMAIN q : q[i] = q[j] => i = j
      /\ \A i \in DOMAIN q : q[i] \in scripts /\ assoc[q[i]] = NoRun

\* RBXASSERT(!script->association().contains<Lua::ThreadRef::NodePtr>()) in
\* startScript: a loop does not start a script that is associated with a run. (A
\* script that moves is removed, and its association with it, before it may start.)
StartedOnce ==
  [][\A s \in Script : inWorld' = inWorld /\ assoc[s] # NoRun => assoc'[s] \in {NoRun, assoc[s]}]_vars

\* A script that is to be started stays so until it is, or is removed, or there
\* is no memory for its thread.
Due == ToSet(pending) \cup IF loop = "pending" THEN ToSet(todo) ELSE {}
DueKept ==
  [][\A s \in Due : s \in Due' \/ assoc'[s] # NoRun \/ s \notin scripts' \/ Spare(Ctx, s) = {}]_vars

\* A script that has left does not run on: no thread of a run is resumed, by a
\* heartbeat or an event, unless the script is still associated with that run.
\* But a script that is removed while it runs can wait or connect after it.
OwnedRun ==
  [][Len(stack') > Len(stack) =>
       LET r == RunOf(stack'[Len(stack')].thread)
       IN  assoc'[ScriptOf(r)] = r \/ r \in late]_vars

\* A thread does one thing at a time: it waits, or runs, or is kept by a slot for
\* the next call. Resumed by one of them while it does another, a script would
\* go on from a wait that is not over.
OneUseOfThread ==
  \A t \in Thread :
    LET waits == t \in (waiting \cup due) \ empty
        runs == \E i \in DOMAIN stack : stack[i].thread = t /\ stack[i].use # "cached"
        kept == cached[RunOf(t)] = t
    IN  ~(waits /\ runs) /\ ~(waits /\ kept) /\ ~(runs /\ kept)

\* After closeState no ref is left that names a thread of the state that is gone.
ClosedHoldsNothing ==
  ~open => /\ waiting \subseteq empty
           /\ \A r \in Run : slot[r] # "live" /\ cached[r] = NoThread
           /\ \A s \in Script : assoc[s] = NoRun
=============================================================================
