---------------------------- MODULE ScriptsProofs ----------------------------
(***************************************************************************)
(* The properties of Scripts for any scripts, runs and threads, as long as *)
(* no script moves one that a loop is about to start (~Meddling).          *)
(***************************************************************************)
EXTENDS Scripts, SequenceFacts, FiniteSetTheorems, TLAPS

Waiters == waiting \cup due

\* The copies that loops walk name nobody twice, and the pending nobody in them.
Loops ==
  /\ loop # "waiters" => due = {}
  /\ Once(pending) /\ Once(todo)
  /\ loop = "pending" => ToSet(pending) \cap ToSet(todo) = {}

\* What is due to be started is known and has no run; what has a run is known.
DueFresh == \A s \in Due : s \in scripts /\ assoc[s] = NoRun
Owned == \A s \in Script : assoc[s] # NoRun => s \in scripts

\* A thread is in one place: it waits, or it is in one call, or a slot keeps it; the
\* calls that run what the slot keeps are those that say so.
Apart ==
  /\ waiting \cap due = {}
  /\ OnStack \cap Waiters = {}
  /\ \A r \in Run : cached[r] \notin Waiters
  /\ \A i, j \in DOMAIN stack : stack[i].thread = stack[j].thread => i = j
  /\ \A i \in DOMAIN stack :
       stack[i].use # "cached" => cached[RunOf(stack[i].thread)] # stack[i].thread

\* Without a Lua state nothing runs, and no reference is left to run.
Shut == ~open => stack = <<>> /\ Waiters \subseteq empty /\ ClosedHoldsNothing

\* A thread that can go on is of a run its script is associated with, or of a late one.
Of(r) == assoc[ScriptOf(r)] = r \/ r \in late
Led ==
  /\ \A t \in (Waiters \ empty) \cup OnStack : Of(RunOf(t))
  /\ \A r \in Run : slot[r] = "live" => Of(r)

IInv == TypeOK /\ Loops /\ OnePlace /\ DueFresh /\ Owned /\ Apart /\ Shut /\ Led

-----------------------------------------------------------------------------
\* Runs and threads are not what stands for none of them, and belong together.
LEMMA RunFacts ==
  /\ \A r \in Run : /\ ScriptOf(r) \in Script /\ r # NoRun /\ r[2] \in Nat
                    /\ <<r, 0>> \in Thread /\ RunOf(<<r, 0>>) = r
  /\ \A r \in Run : \A k \in 1..Extra[ScriptOf(r)] : <<r, k>> \in Thread /\ RunOf(<<r, k>>) = r
  /\ \A t \in Thread : RunOf(t) \in Run /\ t # NoThread
<1>1. \A s \in Script : Lives[s] \in Nat /\ Extra[s] \in Nat
  BY ScriptsAssumption
<1>2. ASSUME NEW r \in Run
      PROVE  ScriptOf(r) \in Script /\ r # NoRun /\ r[2] \in Nat
  <2>1. PICK s \in Script : r \in {s} \X (1..Lives[s])
    BY DEF Run
  <2> QED
    BY <1>1, <2>1 DEF ScriptOf, NoRun
<1>3. ASSUME NEW r \in Run, NEW k \in 0..Extra[ScriptOf(r)]
      PROVE  <<r, k>> \in Thread /\ RunOf(<<r, k>>) = r
  BY DEF Thread, RunOf
<1>4. ASSUME NEW r \in Run
      PROVE  0 \in 0..Extra[ScriptOf(r)] /\ \A k \in 1..Extra[ScriptOf(r)] : k \in 0..Extra[ScriptOf(r)]
  BY <1>1, <1>2
<1>5. ASSUME NEW t \in Thread PROVE RunOf(t) \in Run /\ t # NoThread
  BY DEF Thread, RunOf, NoThread
<1> QED
  BY <1>2, <1>3, <1>4, <1>5

\* A script that has a run to spare is given one of its spare runs.
LEMMA LeastSpare ==
  ASSUME NEW C, NEW s, Spare(C, s) # {}
  PROVE  Least(Spare(C, s)) \in Spare(C, s)
<1> DEFINE R == Spare(C, s)
           N == {r[2] : r \in R}
<1>1. N \subseteq Nat /\ N # {}
  BY RunFacts DEF Spare
<1>2. PICK m \in N : \A n \in N : m <= n
  BY <1>1, LeastNat
<1>3. \E r \in R : \A q \in R : r[2] <= q[2]
  BY <1>2
<1> QED
  BY <1>3 DEF Least

-----------------------------------------------------------------------------
\* removeScript of a script: it is no longer known nor pending, nor is a run its own;
\* the references of that run are erased.
Cut(x) == [r \in Run |-> IF r = x /\ slot[r] = "live" THEN "dead" ELSE slot[r]]
Dropped(x) == [r \in Run |-> IF r = x THEN NoThread ELSE cached[r]]
Erasing(x) == {t \in Waiters : RunOf(t) = x}
LEMMA RemoveScriptFacts ==
  ASSUME TypeOK, Loops, DueFresh, Owned, NEW s \in Script
  PROVE  LET C == RemoveScript(Ctx, s) IN
         /\ C.scripts = scripts \ {s}
         /\ C.pending \in Seq(Script) /\ Once(C.pending)
         /\ ToSet(C.pending) = ToSet(pending) \ {s}
         /\ C.assoc = [assoc EXCEPT ![s] = NoRun]
         /\ C.empty = empty \cup Erasing(assoc[s])
         /\ C.slot = Cut(assoc[s]) /\ C.cached = Dropped(assoc[s])
<1> DEFINE C == RemoveScript(Ctx, s)
<1>1. /\ Ctx.scripts = scripts /\ Ctx.pending = pending /\ Ctx.assoc = assoc
      /\ Ctx.empty = empty /\ Ctx.slot = slot /\ Ctx.cached = cached
  BY DEF Ctx
<1>2. /\ assoc \in [Script -> Run \cup {NoRun}] /\ slot \in [Run -> {"none", "live", "dead"}]
      /\ cached \in [Run -> Thread \cup {NoThread}] /\ pending \in Seq(Script) /\ Once(pending)
      /\ waiting \subseteq Thread /\ due \subseteq Thread /\ scripts \subseteq Script
  BY DEF TypeOK, Loops
<1>3. CASE s \notin scripts
  <2>1. assoc[s] = NoRun /\ s \notin ToSet(pending)
    BY <1>3 DEF Owned, DueFresh, Due
  <2>2. C = Ctx
    BY <1>1, <1>3 DEF RemoveScript
  <2>3. [assoc EXCEPT ![s] = NoRun] = assoc
    BY <1>2, <2>1
  <2>4. Erasing(assoc[s]) = {}
    BY <1>2, <2>1, RunFacts DEF Erasing, Waiters
  <2>5. Cut(assoc[s]) = slot /\ Dropped(assoc[s]) = cached
    BY <1>2, <2>1, RunFacts DEF Cut, Dropped
  <2> QED
    BY <1>1, <1>2, <1>3, <2>1, <2>2, <2>3, <2>4, <2>5
<1>4. CASE s \in scripts
  <2> DEFINE R == {assoc[u] : u \in {s}} \ {NoRun}
             E == [Ctx EXCEPT !.empty = empty \cup {t \in waiting \cup due : RunOf(t) \in R},
                     !.slot = [r \in Run |-> IF r \in R /\ slot[r] = "live" THEN "dead" ELSE slot[r]],
                     !.cached = [r \in Run |-> IF r \in R THEN NoThread ELSE cached[r]]]
             A == [u \in Script |-> IF u \in {s} THEN NoRun ELSE assoc[u]]
  <2>1. C = [[E EXCEPT !.assoc = A] EXCEPT !.scripts = scripts \ {s},
                                           !.pending = RemoveFirst(pending, s)]
    BY <1>1, <1>4 DEF RemoveScript, Disassociate, EraseAllRefs, Ctx
  <2>2. /\ C.scripts = scripts \ {s} /\ C.pending = RemoveFirst(pending, s) /\ C.assoc = A
        /\ C.empty = empty \cup {t \in waiting \cup due : RunOf(t) \in R}
        /\ C.slot = [r \in Run |-> IF r \in R /\ slot[r] = "live" THEN "dead" ELSE slot[r]]
        /\ C.cached = [r \in Run |-> IF r \in R THEN NoThread ELSE cached[r]]
    BY <2>1 DEF Ctx
  <2>3. A = [assoc EXCEPT ![s] = NoRun]
    BY <1>2
  <2>4. \A r \in Run : r \in R <=> r = assoc[s]
    BY RunFacts
  <2> HIDE DEF R, A
  <2>5. /\ C.slot = Cut(assoc[s]) /\ C.cached = Dropped(assoc[s])
        /\ C.empty = empty \cup Erasing(assoc[s])
    BY <1>2, <2>2, <2>4, RunFacts DEF Cut, Dropped, Erasing, Waiters
  <2> QED
    BY <1>2, <2>2, <2>3, <2>5, RemoveOnce
<1> QED
  BY <1>3, <1>4

\* startScript of a script that has no run, from outside or from a script that runs: it
\* is pending, or there is no memory, or one of its spare runs is called.
Unmoved == UNCHANGED <<empty, slot, cached>>
Starts(s) ==
  \/ pending' = Append(pending, s) /\ UNCHANGED <<assoc, stack, open>>
  \/ open' = TRUE /\ UNCHANGED <<pending, assoc, stack>> /\ Spare(Ctx, s) = {}
  \/ /\ open' = TRUE /\ pending' = pending
     /\ \E r \in Run : /\ ScriptOf(r) = s /\ Unused(r) /\ assoc' = [assoc EXCEPT ![s] = r]
                       /\ stack' = Append(stack, [thread |-> <<r, 0>>, use |-> "plain"])
LEMMA StartScriptFacts ==
  ASSUME NEW s, StartScript(Ctx, s)
  PROVE  Unmoved /\ scripts' = scripts /\ Starts(s)
<1>1. CASE SetCtx(Pended(Ctx, s)) /\ UNCHANGED <<stack, open>>
  BY <1>1 DEF Pended, SetCtx, Ctx, Unmoved, Starts
<1>2. CASE open' = TRUE /\ Spare(Ctx, s) = {} /\ SetCtx(Ctx) /\ UNCHANGED stack
  BY <1>2 DEF SetCtx, Ctx, Unmoved, Starts
<1>3. CASE /\ open' = TRUE /\ Spare(Ctx, s) # {}
           /\ SetCtx([Ctx EXCEPT !.assoc[s] = Least(Spare(Ctx, s))])
           /\ Call(<<Least(Spare(Ctx, s)), 0>>, "plain")
  <2> DEFINE r == Least(Spare(Ctx, s))
  <2>1. r \in Run /\ ScriptOf(r) = s /\ Unused(r)
    BY <1>3, LeastSpare DEF Spare
  <2>2. stack' = Append(stack, [thread |-> <<r, 0>>, use |-> "plain"])
    BY <1>3 DEF Call
  <2> HIDE DEF r
  <2>3. SetCtx([Ctx EXCEPT !.assoc[s] = r])
    BY <1>3 DEF r
  <2>4. /\ pending' = pending /\ scripts' = scripts /\ assoc' = [assoc EXCEPT ![s] = r]
        /\ empty' = empty /\ slot' = slot /\ cached' = cached
    BY <2>3 DEF SetCtx, Ctx
  <2> QED
    BY <1>3, <2>1, <2>2, <2>4 DEF Unmoved, Starts
<1> QED
  BY <1>1, <1>2, <1>3 DEF StartScript

\* addScript of a script that is not known: the same, unless it is disabled.
LEMMA AddScriptFacts ==
  ASSUME NEW s, s \notin scripts, AddScript(Ctx, s)
  PROVE  /\ Unmoved /\ scripts' = scripts \cup {s}
         /\ UNCHANGED <<pending, assoc, stack, open>> \/ Starts(s)
<1> DEFINE D == [Ctx EXCEPT !.scripts = @ \cup {s}]
<1>1. /\ D.scripts = scripts \cup {s} /\ D.pending = pending /\ D.assoc = assoc
      /\ D.empty = empty /\ D.slot = slot /\ D.cached = cached
      /\ D = [scripts |-> scripts \cup {s}, pending |-> pending, assoc |-> assoc,
              empty |-> empty, slot |-> slot, cached |-> cached]
  BY DEF Ctx
<1>2. Spare(D, s) = Spare(Ctx, s)
  BY <1>1 DEF Spare, Ctx
<1>3. Ctx.scripts = scripts
  BY DEF Ctx
<1>4. (SetCtx(D) /\ UNCHANGED <<stack, open>>) \/ StartScript(D, s)
  BY <1>3 DEF AddScript
<1> HIDE DEF D
<1>5. CASE SetCtx(D) /\ UNCHANGED <<stack, open>>
  BY <1>1, <1>5 DEF SetCtx, Unmoved
<1>6. CASE SetCtx(Pended(D, s)) /\ UNCHANGED <<stack, open>>
  BY <1>1, <1>6 DEF Pended, SetCtx, Unmoved, Starts
<1>7. CASE open' = TRUE /\ Spare(D, s) = {} /\ SetCtx(D) /\ UNCHANGED stack
  BY <1>1, <1>2, <1>7 DEF SetCtx, Unmoved, Starts
<1>8. CASE /\ open' = TRUE /\ Spare(D, s) # {}
           /\ SetCtx([D EXCEPT !.assoc[s] = Least(Spare(D, s))])
           /\ Call(<<Least(Spare(D, s)), 0>>, "plain")
  <2> DEFINE r == Least(Spare(D, s))
  <2>1. r \in Run /\ ScriptOf(r) = s /\ Unused(r)
    BY <1>8, LeastSpare DEF Spare
  <2>2. stack' = Append(stack, [thread |-> <<r, 0>>, use |-> "plain"])
    BY <1>8 DEF Call
  <2> HIDE DEF r
  <2>3. SetCtx([D EXCEPT !.assoc[s] = r])
    BY <1>8 DEF r
  <2>4. /\ pending' = pending /\ scripts' = scripts \cup {s} /\ assoc' = [assoc EXCEPT ![s] = r]
        /\ empty' = empty /\ slot' = slot /\ cached' = cached
    BY <1>1, <2>3 DEF SetCtx
  <2> QED
    BY <1>8, <2>1, <2>2, <2>4 DEF Unmoved, Starts
<1> QED
  BY <1>4, <1>5, <1>6, <1>7, <1>8 DEF StartScript

-----------------------------------------------------------------------------
\* What waits or runs are threads.
LEMMA ThreadsTyped ==
  ASSUME TypeOK
  PROVE  Waiters \subseteq Thread /\ OnStack \subseteq Thread
<1>1. stack \in Seq(Frame) /\ waiting \subseteq Thread /\ due \subseteq Thread
  BY DEF TypeOK
<1>2. \A i \in DOMAIN stack : stack[i] \in Frame
  BY <1>1
<1>3. \A f \in Frame : f.thread \in Thread
  BY DEF Frame
<1> QED
  BY <1>1, <1>2, <1>3 DEF Waiters, OnStack

\* A call of a thread that is nowhere else.
LEMMA PushFacts ==
  ASSUME TypeOK, Apart, NEW f \in Frame, stack' = Append(stack, f), Len(stack) < MaxDepth,
         Waiters' \subseteq Waiters, waiting' \cap due' = {}, cached' = cached,
         f.thread \notin Waiters', f.thread \notin OnStack,
         f.use # "cached" => cached[RunOf(f.thread)] # f.thread
  PROVE  /\ stack' \in Seq(Frame) /\ Len(stack') <= MaxDepth /\ stack' # <<>>
         /\ Len(stack') = Len(stack) + 1 /\ stack'[Len(stack')] = f
         /\ OnStack' = OnStack \cup {f.thread} /\ Apart'
<1> DEFINE n == Len(stack)
<1>1. stack \in Seq(Frame) /\ MaxDepth \in Nat \ {0} /\ n < MaxDepth
  BY ScriptsAssumption DEF TypeOK
<1>2. n \in Nat /\ DOMAIN stack = 1..n
  BY <1>1
<1>3. /\ stack' \in Seq(Frame) /\ Len(stack') = n + 1 /\ DOMAIN stack' = 1..(n + 1)
      /\ stack'[n + 1] = f /\ \A i \in 1..n : stack'[i] = stack[i]
  BY <1>1
<1> HIDE DEF n
<1>4. n + 1 <= MaxDepth /\ stack' # <<>>
  BY <1>1, <1>2, <1>3
<1>5. \A i \in 1..(n + 1) : i \in 1..n \/ i = n + 1
  BY <1>2
<1>6. n + 1 \in 1..(n + 1) /\ \A i \in 1..n : i \in 1..(n + 1)
  BY <1>2
<1>7. OnStack' = OnStack \cup {f.thread}
  <2>1. OnStack' = {stack'[i].thread : i \in 1..(n + 1)}
    BY <1>3 DEF OnStack
  <2>2. OnStack = {stack[i].thread : i \in 1..n}
    BY <1>2 DEF OnStack
  <2>3. \A i \in 1..(n + 1) : stack'[i].thread \in OnStack \cup {f.thread}
    BY <1>3, <1>5, <2>2
  <2>4. \A i \in 1..n : stack[i].thread \in OnStack'
    BY <1>3, <1>6, <2>1
  <2>5. f.thread \in OnStack'
    BY <1>3, <1>6, <2>1
  <2> QED
    BY <2>1, <2>2, <2>3, <2>4, <2>5
<1>8. ASSUME NEW i \in 1..(n + 1), NEW j \in 1..(n + 1), stack'[i].thread = stack'[j].thread
      PROVE  i = j
  <2>1. \A k \in 1..n : stack'[k].thread # f.thread
    BY <1>2, <1>3 DEF OnStack
  <2>2. CASE i \in 1..n /\ j \in 1..n
    BY <1>2, <1>3, <1>8, <2>2 DEF Apart
  <2>3. CASE i = n + 1 \/ j = n + 1
    BY <1>3, <1>5, <1>8, <2>1, <2>3
  <2> QED
    BY <1>5, <2>2, <2>3
<1>9. ASSUME NEW i \in 1..(n + 1), stack'[i].use # "cached"
      PROVE  cached'[RunOf(stack'[i].thread)] # stack'[i].thread
  <2>1. CASE i \in 1..n
    BY <1>2, <1>3, <1>9, <2>1 DEF Apart
  <2>2. CASE i = n + 1
    BY <1>3, <1>9, <2>2
  <2> QED
    BY <1>5, <2>1, <2>2
<1>10. OnStack' \cap Waiters' = {} /\ \A r \in Run : cached'[r] \notin Waiters'
  BY <1>7 DEF Apart
<1>11. /\ \A i, j \in DOMAIN stack' : stack'[i].thread = stack'[j].thread => i = j
       /\ \A i \in DOMAIN stack' :
            stack'[i].use # "cached" => cached'[RunOf(stack'[i].thread)] # stack'[i].thread
  BY <1>3, <1>8, <1>9
<1>12. Apart'
  BY <1>10, <1>11 DEF Apart
<1> QED
  BY <1>3, <1>4, <1>7, <1>12 DEF n

\* The return of the innermost call.
LEMMA PopFacts ==
  ASSUME TypeOK, Apart, stack # <<>>, stack' = Front(stack)
  PROVE  /\ stack' \in Seq(Frame) /\ Len(stack') < Len(stack) /\ Len(stack') <= MaxDepth
         /\ Top \in Frame /\ Top.thread \in OnStack /\ OnStack' = OnStack \ {Top.thread}
         /\ Top.use # "cached" => cached[RunOf(Top.thread)] # Top.thread
         /\ \A i, j \in DOMAIN stack' : stack'[i].thread = stack'[j].thread => i = j
         /\ \A i \in DOMAIN stack' :
              /\ stack'[i] \in Frame /\ stack'[i].thread # Top.thread
              /\ stack'[i].use # "cached" => cached[RunOf(stack'[i].thread)] # stack'[i].thread
<1> DEFINE n == Len(stack)
<1>1. stack \in Seq(Frame) /\ n <= MaxDepth /\ MaxDepth \in Nat
  BY ScriptsAssumption DEF TypeOK
<1>2. n \in Nat \ {0} /\ DOMAIN stack = 1..n /\ stack[n] \in Frame
  BY <1>1
<1>3. /\ stack' \in Seq(Frame) /\ Len(stack') = n - 1
      /\ \A i \in 1..(n - 1) : stack'[i] = stack[i]
  BY <1>1, <1>2 DEF Front
<1>4. Top = stack[n]
  BY DEF Top, Last
<1> HIDE DEF n
<1>5. DOMAIN stack' = 1..(n - 1) /\ n - 1 < n /\ n - 1 <= MaxDepth /\ n \in 1..n
  BY <1>1, <1>2, <1>3
<1>6. \A i \in 1..n : i = n \/ i \in 1..(n - 1)
  BY <1>2
<1>7. \A i \in 1..(n - 1) : i \in 1..n /\ i # n
  BY <1>2
<1>8. \A i \in 1..(n - 1) : stack[i].thread # stack[n].thread
  BY <1>2, <1>5, <1>7 DEF Apart
<1>9. OnStack' = OnStack \ {Top.thread} /\ Top.thread \in OnStack
  <2>1. OnStack' = {stack[i].thread : i \in 1..(n - 1)}
    BY <1>3, <1>5 DEF OnStack
  <2>2. OnStack = {stack[i].thread : i \in 1..n}
    BY <1>2 DEF OnStack
  <2> QED
    BY <1>4, <1>5, <1>6, <1>7, <1>8, <2>1, <2>2
<1>10. ASSUME NEW i \in 1..(n - 1)
       PROVE  /\ stack'[i] \in Frame /\ stack'[i].thread # Top.thread
              /\ stack'[i].use # "cached" => cached[RunOf(stack'[i].thread)] # stack'[i].thread
  BY <1>1, <1>2, <1>3, <1>4, <1>7, <1>8 DEF Apart
<1>11. Top.use # "cached" => cached[RunOf(Top.thread)] # Top.thread
  BY <1>2, <1>4, <1>5 DEF Apart
<1>12. ASSUME NEW i \in 1..(n - 1), NEW j \in 1..(n - 1), stack'[i].thread = stack'[j].thread
       PROVE  i = j
  BY <1>2, <1>3, <1>7, <1>12 DEF Apart
<1> QED
  BY <1>2, <1>3, <1>4, <1>5, <1>9, <1>10, <1>11, <1>12 DEF n

\* What the start of a script keeps, whichever of its outcomes it has.
LEMMA StartsFacts ==
  ASSUME IInv, NEW s \in Script, Unmoved, UNCHANGED <<waiting, due, late>>,
         assoc[s] = NoRun, Len(stack) < MaxDepth,
         UNCHANGED <<pending, assoc, stack, open>> \/ Starts(s)
  PROVE  /\ Apart' /\ Shut' /\ Led' /\ open' \in BOOLEAN
         /\ stack' \in Seq(Frame) /\ Len(stack') <= MaxDepth
         /\ assoc' \in [Script -> Run \cup {NoRun}]
         /\ \A u \in Script : assoc'[u] # NoRun => ScriptOf(assoc'[u]) = u
         /\ \A u \in Script : u # s => assoc'[u] = assoc[u]
         /\ pending' = pending \/ (pending' = Append(pending, s) /\ assoc' = assoc)
<1>1. TypeOK /\ Apart /\ Shut /\ Led /\ Owned
  BY DEF IInv
<1>2. /\ Waiters' = Waiters /\ empty' = empty /\ slot' = slot /\ cached' = cached
      /\ waiting' = waiting /\ due' = due /\ late' = late
  BY DEF Unmoved, Waiters
<1>3. CASE UNCHANGED <<assoc, stack, open>>
  <2>1. OnStack' = OnStack /\ assoc' = assoc /\ stack' = stack /\ open' = open
    BY <1>3 DEF OnStack
  <2>2. Apart'
    BY <1>1, <1>2, <2>1 DEF Apart
  <2>3. Shut'
    BY <1>1, <1>2, <2>1 DEF Shut, ClosedHoldsNothing
  <2>4. Led'
    BY <1>1, <1>2, <2>1 DEF Led, Of
  <2>5. pending' = pending \/ pending' = Append(pending, s)
    BY DEF Starts
  <2> QED
    BY <1>1, <2>1, <2>2, <2>3, <2>4, <2>5 DEF TypeOK
<1>4. CASE open' = TRUE /\ UNCHANGED <<pending, assoc, stack>>
  <2>1. OnStack' = OnStack /\ assoc' = assoc /\ stack' = stack
    BY <1>4 DEF OnStack
  <2>2. Apart'
    BY <1>1, <1>2, <2>1 DEF Apart
  <2>3. Led'
    BY <1>1, <1>2, <2>1 DEF Led, Of
  <2> QED
    BY <1>1, <1>4, <2>1, <2>2, <2>3 DEF TypeOK, Shut, ClosedHoldsNothing
<1>5. ASSUME NEW r \in Run, ScriptOf(r) = s, Unused(r), assoc' = [assoc EXCEPT ![s] = r],
             stack' = Append(stack, [thread |-> <<r, 0>>, use |-> "plain"]),
             open' = TRUE, pending' = pending
      PROVE  /\ Apart' /\ Led'
             /\ stack' \in Seq(Frame) /\ Len(stack') <= MaxDepth
             /\ assoc' \in [Script -> Run \cup {NoRun}]
             /\ \A u \in Script : assoc'[u] # NoRun => ScriptOf(assoc'[u]) = u
             /\ \A u \in Script : u # s => assoc'[u] = assoc[u]
  <2> DEFINE f == [thread |-> <<r, 0>>, use |-> "plain"]
  <2>1. <<r, 0>> \in Thread /\ RunOf(<<r, 0>>) = r /\ r # NoRun
    BY RunFacts
  <2>2. f \in Frame /\ f.thread = <<r, 0>>
    BY <2>1 DEF Frame
  <2>3. f.thread \notin Waiters /\ f.thread \notin OnStack /\ slot[r] = "none"
    BY <1>5, <2>1 DEF Unused, Running, Waiters
  <2>4. cached[RunOf(f.thread)] # f.thread
    <3>1. cached[r] = NoThread
      BY <1>1, <2>3 DEF TypeOK
    <3> QED
      BY <2>1, <2>2, <3>1, RunFacts
  <2>5. waiting' \cap due' = {}
    BY <1>1, <1>2 DEF Apart
  <2>6. stack' = Append(stack, f)
    BY <1>5
  <2> HIDE DEF f
  <2>7. /\ stack' \in Seq(Frame) /\ Len(stack') <= MaxDepth
        /\ OnStack' = OnStack \cup {f.thread} /\ Apart'
    BY <1>1, <1>2, <2>2, <2>3, <2>4, <2>5, <2>6, PushFacts
  <2>8. /\ assoc'[s] = r /\ assoc' \in [Script -> Run \cup {NoRun}]
        /\ \A u \in Script : u # s => assoc'[u] = assoc[u]
    BY <1>1, <1>5 DEF TypeOK
  <2>9. Of(r)'
    BY <1>5, <2>8 DEF Of
  <2>10. ASSUME NEW q \in Run, Of(q) PROVE Of(q)'
    <3>1. ScriptOf(q) \in Script /\ q # NoRun
      BY RunFacts
    <3> QED
      BY <1>2, <2>8, <2>10, <3>1 DEF Of
  <2>11. Waiters \subseteq Thread /\ OnStack \subseteq Thread
    BY <1>1, ThreadsTyped
  <2>12. \A t \in Thread : RunOf(t) \in Run
    BY RunFacts
  <2>13. \A t \in (Waiters' \ empty') \cup OnStack' : Of(RunOf(t))'
    BY <1>1, <1>2, <2>1, <2>2, <2>7, <2>9, <2>10, <2>11, <2>12 DEF Led
  <2>14. \A q \in Run : slot'[q] = "live" => Of(q)'
    BY <1>1, <1>2, <2>10 DEF Led
  <2>15. Led'
    BY <2>13, <2>14 DEF Led
  <2>16. \A u \in Script : assoc'[u] # NoRun => ScriptOf(assoc'[u]) = u
    BY <1>1, <1>5, <2>8 DEF TypeOK
  <2> QED
    BY <2>7, <2>8, <2>15, <2>16
<1>6. CASE \E r \in Run : /\ ScriptOf(r) = s /\ Unused(r) /\ assoc' = [assoc EXCEPT ![s] = r]
                         /\ stack' = Append(stack, [thread |-> <<r, 0>>, use |-> "plain"])
                         /\ open' = TRUE /\ pending' = pending
  BY <1>5, <1>6 DEF Shut
<1> QED
  BY <1>3, <1>4, <1>6 DEF Starts

\* And what is due and known after it.
LEMMA StartLists ==
  ASSUME IInv, NEW s \in Script, assoc[s] = NoRun, s \notin ToSet(pending),
         scripts' = scripts \cup {s},
         \A u \in Script : u # s => assoc'[u] = assoc[u],
         pending' = pending \/ (pending' = Append(pending, s) /\ assoc' = assoc)
  PROVE  /\ pending' \in Seq(Script) /\ Once(pending)'
         /\ ToSet(pending)' \subseteq ToSet(pending) \cup {s} /\ Owned'
         /\ \A u \in ToSet(pending)' : u \in scripts' /\ assoc'[u] = NoRun
         /\ \A u \in Due : u # s => u \in scripts' /\ assoc'[u] = NoRun
<1>1. /\ pending \in Seq(Script) /\ Once(pending) /\ Owned /\ scripts \subseteq Script
      /\ \A u \in ToSet(pending) : u \in scripts /\ assoc[u] = NoRun
      /\ \A u \in Due : u \in scripts /\ assoc[u] = NoRun
  BY DEF IInv, TypeOK, Loops, DueFresh, Due
<1>2. Owned'
  BY <1>1 DEF Owned
<1>3. \A u \in Due : u # s => u \in scripts' /\ assoc'[u] = NoRun
  BY <1>1
<1>4. CASE pending' = pending
  <2>1. Once(pending)' /\ ToSet(pending)' = ToSet(pending)
    BY <1>1, <1>4 DEF Once, ToSet
  <2> QED
    BY <1>1, <1>2, <1>3, <1>4, <2>1
<1>5. CASE pending' = Append(pending, s) /\ assoc' = assoc
  <2> DEFINE q == Append(pending, s)
  <2>1. q \in Seq(Script) /\ ToSet(q) = ToSet(pending) \cup {s} /\ Once(q)
    BY <1>1, AppendOnce
  <2> HIDE DEF q
  <2>2. pending' = q
    BY <1>5 DEF q
  <2>3. Once(pending)' /\ ToSet(pending)' = ToSet(q)
    BY <2>1, <2>2 DEF Once, ToSet
  <2> QED
    BY <1>1, <1>2, <1>3, <1>5, <2>1, <2>2, <2>3
<1> QED
  BY <1>4, <1>5

\* A step that leaves the threads, the slots and the runs alone.
LEMMA Resting ==
  ASSUME IInv, UNCHANGED <<waiting, due, empty, slot, cached, stack, assoc, late, open>>
  PROVE  Apart' /\ Shut' /\ Led' /\ OnStack' = OnStack
<1>1. OnStack' = OnStack /\ Waiters' = Waiters
  BY DEF OnStack, Waiters
<1>2. Apart'
  BY <1>1 DEF IInv, Apart
<1>3. Shut'
  BY <1>1 DEF IInv, Shut, ClosedHoldsNothing
<1>4. Led'
  BY <1>1 DEF IInv, Led, Of
<1> QED
  BY <1>1, <1>2, <1>3, <1>4

-----------------------------------------------------------------------------
\* The invariant holds at first.
LEMMA InitInvariant == Init => IInv
<1> SUFFICES ASSUME Init PROVE IInv
  OBVIOUS
<1>1. \A r \in Run : ScriptOf(r) \in Script
  BY RunFacts
<1>2. pending = <<>> /\ todo = <<>> /\ stack = <<>> /\ DOMAIN stack = {}
      /\ pending \in Seq(Script) /\ todo \in Seq(Script) /\ stack \in Seq(Frame) /\ Len(stack) = 0
      /\ ToSet(pending) = {} /\ ToSet(todo) = {} /\ Once(pending) /\ Once(todo)
  BY DEF Init, ToSet, Once
<1>3. TypeOK
  <2>1. 0 <= MaxDepth
    BY ScriptsAssumption
  <2>2. /\ assoc \in [Script -> Run \cup {NoRun}] /\ slot \in [Run -> {"none", "live", "dead"}]
        /\ cached \in [Run -> Thread \cup {NoThread}]
        /\ \A s \in Script : assoc[s] = NoRun
        /\ \A r \in Run : cached[r] = NoThread
    BY DEF Init
  <2>3. /\ inWorld = {} /\ held = {} /\ scripts = {} /\ waiting = {} /\ due = {} /\ empty = {}
        /\ simulating = FALSE /\ off = FALSE /\ open = FALSE /\ loop = "idle" /\ late = {}
    BY DEF Init
  <2> QED
    BY <1>2, <2>1, <2>2, <2>3 DEF TypeOK
<1>4. Loops /\ OnePlace /\ DueFresh /\ Owned
  BY <1>2 DEF Init, Loops, OnePlace, DueFresh, Due, Owned
<1>5. OnStack = {} /\ Waiters = {} /\ \A r \in Run : slot[r] = "none" /\ cached[r] = NoThread
  BY <1>2 DEF Init, OnStack, Waiters
<1>6. Apart /\ Led
  BY <1>2, <1>5 DEF Init, Apart, Led
<1>7. Shut
  BY <1>2, <1>5 DEF Init, Shut, ClosedHoldsNothing
<1> QED
  BY <1>3, <1>4, <1>6, <1>7 DEF IInv

\* A script comes below the workspace. It was not known there, so there is nothing
\* of it to remove.
LEMMA MoveInInvariant ==
  ASSUME ~Meddling, IInv, NEW s \in Script, MoveIn(s)
  PROVE  IInv'
<1> USE DEF worldVars
<1>1. TypeOK /\ Loops /\ OnePlace /\ DueFresh /\ Owned
  BY DEF IInv
<1>2. /\ s \notin inWorld /\ s \notin ToSet(todo) /\ Len(stack) < MaxDepth
      /\ inWorld' = inWorld \cup {s} /\ late' = LateAfter(s)
      /\ UNCHANGED <<simulating, off, waiting, due, loop, todo>>
  BY DEF MoveIn, MayMove
<1>3. s \notin scripts /\ s \notin held
  BY <1>1, <1>2 DEF OnePlace
<1>4. RemoveScript(Ctx, s) = Ctx /\ late' = late
  BY <1>2, <1>3 DEF RemoveScript, Ctx, LateAfter
<1>5. assoc[s] = NoRun /\ s \notin ToSet(pending)
  BY <1>1, <1>3 DEF Owned, DueFresh, Due
<1>6. CASE held' = held \cup {s} /\ SetCtx(Ctx) /\ UNCHANGED <<stack, open>>
  <2>1. UNCHANGED <<scripts, pending, assoc, empty, slot, cached, stack, open>>
    BY <1>6 DEF SetCtx, Ctx
  <2>2. Apart' /\ Shut' /\ Led'
    BY <1>2, <1>4, <2>1, Resting
  <2>3. TypeOK'
    BY <1>1, <1>2, <1>4, <1>6, <2>1 DEF TypeOK
  <2>4. Loops' /\ DueFresh' /\ Owned'
    BY <1>1, <1>2, <2>1 DEF Loops, DueFresh, Owned, Due
  <2>5. OnePlace'
    BY <1>1, <1>2, <1>3, <1>6, <2>1 DEF OnePlace
  <2> QED
    BY <2>2, <2>3, <2>4, <2>5 DEF IInv
<1>7. CASE AddScript(Ctx, s) /\ UNCHANGED held
  <2>1. /\ Unmoved /\ scripts' = scripts \cup {s}
        /\ UNCHANGED <<pending, assoc, stack, open>> \/ Starts(s)
    BY <1>3, <1>7, AddScriptFacts
  <2>2. /\ Apart' /\ Shut' /\ Led' /\ open' \in BOOLEAN
        /\ stack' \in Seq(Frame) /\ Len(stack') <= MaxDepth
        /\ assoc' \in [Script -> Run \cup {NoRun}]
        /\ \A u \in Script : assoc'[u] # NoRun => ScriptOf(assoc'[u]) = u
        /\ \A u \in Script : u # s => assoc'[u] = assoc[u]
        /\ pending' = pending \/ (pending' = Append(pending, s) /\ assoc' = assoc)
    BY <1>2, <1>4, <1>5, <2>1, StartsFacts
  <2>3. /\ pending' \in Seq(Script) /\ Once(pending)'
        /\ ToSet(pending)' \subseteq ToSet(pending) \cup {s} /\ Owned'
        /\ \A u \in ToSet(pending)' : u \in scripts' /\ assoc'[u] = NoRun
        /\ \A u \in Due : u # s => u \in scripts' /\ assoc'[u] = NoRun
    BY <1>5, <2>1, <2>2, StartLists
  <2>4. TypeOK'
    BY <1>1, <1>2, <1>4, <1>7, <2>1, <2>2, <2>3 DEF TypeOK, Unmoved
  <2>5. Loops'
    <3>1. ToSet(todo)' = ToSet(todo) /\ Once(todo)'
      BY <1>1, <1>2 DEF Loops, Once, ToSet
    <3> QED
      BY <1>1, <1>2, <2>3, <3>1 DEF Loops
  <2>6. DueFresh'
    BY <1>2, <2>3 DEF DueFresh, Due
  <2>7. OnePlace'
    BY <1>1, <1>2, <1>3, <1>7, <2>1 DEF OnePlace
  <2> QED
    BY <2>2, <2>3, <2>4, <2>5, <2>6, <2>7 DEF IInv
<1> QED
  BY <1>4, <1>6, <1>7 DEF MoveIn

\* A script leaves. What could go on of its run is erased, but for what is running.
LEMMA MoveOutInvariant ==
  ASSUME ~Meddling, IInv, NEW s \in Script, MoveOut(s)
  PROVE  IInv'
<1> DEFINE x == assoc[s]
<1>1. TypeOK /\ Loops /\ OnePlace /\ DueFresh /\ Owned /\ Apart /\ Shut /\ Led
  BY DEF IInv
<1>2. /\ s \notin ToSet(todo) /\ inWorld' = inWorld \ {s} /\ held' = held \ {s}
      /\ late' = LateAfter(s) /\ SetCtx(RemoveScript(Ctx, s))
      /\ UNCHANGED <<simulating, off, open, waiting, due, loop, todo, stack>>
  BY DEF MoveOut, MayMove, Released
<1>3. /\ scripts' = scripts \ {s} /\ assoc' = [assoc EXCEPT ![s] = NoRun]
      /\ pending' \in Seq(Script) /\ Once(pending') /\ ToSet(pending') = ToSet(pending) \ {s}
      /\ empty' = empty \cup Erasing(x) /\ slot' = Cut(x) /\ cached' = Dropped(x)
  BY <1>1, <1>2, RemoveScriptFacts DEF SetCtx
<1>4. /\ assoc'[s] = NoRun /\ assoc' \in [Script -> Run \cup {NoRun}]
      /\ \A u \in Script : u # s => assoc'[u] = assoc[u]
  BY <1>1, <1>3 DEF TypeOK
<1>5. /\ Once(pending)' /\ ToSet(pending)' = ToSet(pending) \ {s}
      /\ Once(todo)' /\ ToSet(todo)' = ToSet(todo)
      /\ OnStack' = OnStack /\ Waiters' = Waiters
  BY <1>1, <1>2, <1>3 DEF Loops, Once, ToSet, OnStack, Waiters
<1>6. Waiters \subseteq Thread /\ OnStack \subseteq Thread
  BY <1>1, ThreadsTyped
<1>7. late' \subseteq Run /\ late \subseteq late' /\ (x # NoRun /\ Running(x) => x \in late')
  <2>1. Running(x) => x \in Run
    BY <1>6, RunFacts DEF Running
  <2>2. x # NoRun => s \in scripts
    BY <1>1 DEF Owned
  <2> QED
    BY <1>1, <1>2, <2>1, <2>2 DEF LateAfter, TypeOK
<1>8. \A r \in Run : /\ cached'[r] = IF r = x THEN NoThread ELSE cached[r]
                    /\ slot'[r] = IF r = x /\ slot[r] = "live" THEN "dead" ELSE slot[r]
  BY <1>3 DEF Cut, Dropped
<1>9. TypeOK'
  <2>1. /\ slot' \in [Run -> {"none", "live", "dead"}] /\ cached' \in [Run -> Thread \cup {NoThread}]
        /\ \A r \in Run : cached'[r] # NoThread => RunOf(cached'[r]) = r /\ slot'[r] = "live"
    BY <1>1, <1>3, <1>8 DEF TypeOK, Cut, Dropped
  <2>2. empty' \subseteq waiting \cup due
    BY <1>1, <1>3 DEF TypeOK, Erasing, Waiters
  <2>3. \A u \in Script : assoc'[u] # NoRun => ScriptOf(assoc'[u]) = u
    BY <1>1, <1>4 DEF TypeOK
  <2> QED
    BY <1>1, <1>2, <1>3, <1>4, <1>7, <2>1, <2>2, <2>3 DEF TypeOK
<1>10. Loops'
  BY <1>1, <1>2, <1>5 DEF Loops
<1>11. OnePlace'
  BY <1>1, <1>2, <1>3, <1>5 DEF OnePlace
<1>12. DueFresh'
  <2>1. Due' = Due \ {s}
    BY <1>2, <1>5 DEF Due
  <2>2. Due \subseteq Script
    BY <1>1 DEF DueFresh, TypeOK
  <2> QED
    BY <1>1, <1>3, <1>4, <2>1, <2>2 DEF DueFresh
<1>13. Owned'
  BY <1>1, <1>3, <1>4 DEF Owned
<1>14. Apart'
  <2>1. \A r \in Run : cached'[r] \notin Waiters'
    BY <1>1, <1>5, <1>6, <1>8, RunFacts DEF Apart
  <2>2. ASSUME NEW i \in DOMAIN stack, stack[i].use # "cached"
        PROVE  cached'[RunOf(stack[i].thread)] # stack[i].thread
    <3>1. stack[i].thread \in Thread
      BY <1>6 DEF OnStack
    <3>2. cached[RunOf(stack[i].thread)] # stack[i].thread
      BY <1>1, <2>2 DEF Apart
    <3> QED
      BY <1>8, <3>1, <3>2, RunFacts
  <2> QED
    BY <1>1, <1>2, <1>5, <2>1, <2>2 DEF Apart
<1>15. Shut'
  <2>1. ASSUME ~open' PROVE ClosedHoldsNothing' /\ stack' = <<>> /\ Waiters' \subseteq empty'
    <3>1. /\ stack = <<>> /\ Waiters \subseteq empty
          /\ \A r \in Run : slot[r] # "live" /\ cached[r] = NoThread
          /\ \A u \in Script : assoc[u] = NoRun
      BY <1>1, <1>2, <2>1 DEF Shut, ClosedHoldsNothing
    <3>2. \A r \in Run : slot'[r] # "live" /\ cached'[r] = NoThread
      BY <1>8, <3>1
    <3>3. \A u \in Script : assoc'[u] = NoRun
      BY <1>4, <3>1
    <3> QED
      BY <1>2, <1>3, <1>5, <3>1, <3>2, <3>3 DEF ClosedHoldsNothing, Waiters
  <2> QED
    BY <2>1 DEF Shut
<1>16. Led'
  <2>1. ASSUME NEW q \in Run, q # x, Of(q) PROVE Of(q)'
    <3>1. ScriptOf(q) \in Script
      BY RunFacts
    <3> QED
      BY <1>4, <1>7, <2>1, <3>1 DEF Of
  <2>2. ASSUME NEW t \in (Waiters' \ empty') \cup OnStack' PROVE Of(RunOf(t))'
    <3>1. t \in Thread /\ RunOf(t) \in Run /\ RunOf(t) # NoRun
      BY <1>5, <1>6, RunFacts
    <3>2. t \in (Waiters \ empty) \cup OnStack
      BY <1>3, <1>5
    <3>3. CASE RunOf(t) # x
      BY <1>1, <2>1, <3>1, <3>2, <3>3 DEF Led
    <3>4. CASE RunOf(t) = x
      <4>1. t \in OnStack
        BY <1>3, <1>5, <3>4 DEF Erasing
      <4>2. x \in late'
        BY <1>7, <3>1, <3>4, <4>1 DEF Running
      <4> QED
        BY <3>4, <4>2 DEF Of
    <3> QED
      BY <3>3, <3>4
  <2>3. ASSUME NEW r \in Run, slot'[r] = "live" PROVE Of(r)'
    <3>1. r # x /\ slot[r] = "live"
      BY <1>8, <2>3
    <3> QED
      BY <1>1, <2>1, <3>1 DEF Led
  <2> QED
    BY <2>2, <2>3 DEF Led
<1> QED
  BY <1>9, <1>10, <1>11, <1>12, <1>13, <1>14, <1>15, <1>16 DEF IInv

\* Nothing but the switches changes.
LEMMA SwitchInvariant ==
  ASSUME IInv, SetDisabled \/ StopSimulation
  PROVE  IInv'
<1>1. /\ UNCHANGED <<inWorld, held, ctxVars, late, open, waiting, due, loop, todo, stack>>
      /\ off' \in BOOLEAN /\ simulating' \in BOOLEAN
  BY DEF IInv, TypeOK, SetDisabled, StopSimulation, worldVars
<1>2. Apart' /\ Shut' /\ Led'
  BY <1>1, Resting DEF ctxVars
<1>3. TypeOK'
  BY <1>1 DEF IInv, TypeOK, ctxVars
<1>4. Loops' /\ OnePlace' /\ DueFresh' /\ Owned'
  BY <1>1 DEF IInv, Loops, OnePlace, DueFresh, Due, Owned, ctxVars
<1> QED
  BY <1>2, <1>3, <1>4 DEF IInv

\* The held scripts become those that the loop adds.
LEMMA StartSimulationInvariant ==
  ASSUME IInv, StartSimulation
  PROVE  IInv'
<1>1. /\ loop = "idle" /\ simulating' = TRUE /\ loop' = "start"
      /\ todo' \in SetToSeqs(held) /\ held' = {}
      /\ UNCHANGED <<inWorld, off, open, ctxVars, late, waiting, due, stack>>
  BY DEF StartSimulation, EngineActs
<1>2. held \subseteq Script /\ IsFiniteSet(held)
  BY ScriptsAssumption, FS_Subset DEF IInv, TypeOK
<1>3. todo' \in Seq(held) /\ Once(todo') /\ ToSet(todo') = held
  BY <1>1, <1>2, SeqOfSet
<1>4. todo' \in Seq(Script)
  BY <1>2, <1>3
<1>5. Once(todo)' /\ ToSet(todo)' = held
  BY <1>3 DEF Once, ToSet
<1>6. Apart' /\ Shut' /\ Led'
  BY <1>1, Resting DEF ctxVars
<1>7. TypeOK'
  BY <1>1, <1>4 DEF IInv, TypeOK, ctxVars
<1>8. Loops'
  BY <1>1, <1>5 DEF IInv, Loops, Once, ctxVars
<1>9. OnePlace'
  BY <1>1, <1>5 DEF IInv, OnePlace, ctxVars
<1>10. DueFresh' /\ Owned'
  BY <1>1 DEF IInv, DueFresh, Due, Owned, ctxVars
<1> QED
  BY <1>6, <1>7, <1>8, <1>9, <1>10 DEF IInv

\* The waiting threads become those that the loop walks.
LEMMA BeginWaitersInvariant ==
  ASSUME IInv, loop # "waiters", loop = "start" => todo = <<>>, loop = "pending" => todo = <<>>,
         BeginWaiters,
         UNCHANGED <<worldVars, ctxVars, late, off, open, todo, stack>>
  PROVE  IInv'
<1>1. TypeOK /\ Loops /\ OnePlace /\ DueFresh /\ Owned /\ Apart /\ Shut /\ Led
  BY DEF IInv
<1>2. /\ UNCHANGED <<inWorld, simulating, held, scripts, pending, assoc, empty, slot, cached, late,
                    off, open, todo, stack>>
      /\ loop' = "waiters" /\ due' = waiting /\ waiting' = {} /\ due = {}
  BY <1>1 DEF BeginWaiters, worldVars, ctxVars, Loops
<1>3. Waiters' = Waiters /\ OnStack' = OnStack
  BY <1>2 DEF Waiters, OnStack
<1>4. ToSet(todo) = {} \/ loop = "idle"
  BY <1>1 DEF TypeOK, ToSet
<1>5. TypeOK'
  BY <1>1, <1>2 DEF TypeOK
<1>6. Loops'
  BY <1>1, <1>2 DEF Loops, Once
<1>7. OnePlace'
  BY <1>1, <1>2, <1>4 DEF OnePlace
<1>8. DueFresh' /\ Owned'
  BY <1>1, <1>2 DEF DueFresh, Due, Owned
<1>9. Apart'
  BY <1>1, <1>2, <1>3 DEF Apart
<1>10. Shut'
  BY <1>1, <1>2, <1>3 DEF Shut, ClosedHoldsNothing
<1>11. Led'
  BY <1>1, <1>2, <1>3 DEF Led, Of
<1> QED
  BY <1>5, <1>6, <1>7, <1>8, <1>9, <1>10, <1>11 DEF IInv

\* A heartbeat: the pending scripts become those that the loop starts, or the waiting
\* threads those that it resumes.
LEMMA HeartbeatInvariant ==
  ASSUME IInv, Heartbeat
  PROVE  IInv'
<1>1. CASE BeginWaiters /\ UNCHANGED <<pending, todo>>
  <2>1. loop = "idle" /\ UNCHANGED <<worldVars, ctxVars, late, off, open, todo, stack>>
    BY <1>1 DEF Heartbeat, EngineActs, ctxVars
  <2> QED
    BY <1>1, <2>1, BeginWaitersInvariant
<1>2. CASE loop' = "pending" /\ todo' = pending /\ pending' = <<>> /\ UNCHANGED <<waiting, due>>
  <2>1. /\ UNCHANGED <<inWorld, simulating, held, scripts, assoc, empty, slot, cached, late, off,
                      open, stack, waiting, due>>
        /\ loop = "idle"
    BY <1>2 DEF Heartbeat, EngineActs, worldVars
  <2>2. Apart' /\ Shut' /\ Led'
    BY <2>1, Resting
  <2>3. /\ Once(pending)' /\ pending' \in Seq(Script) /\ ToSet(pending)' = {}
        /\ Once(todo)' /\ ToSet(todo)' = ToSet(pending)
    BY <1>2 DEF IInv, Loops, Once, ToSet
  <2>4. TypeOK'
    BY <1>2, <2>1, <2>3 DEF IInv, TypeOK
  <2>5. Loops'
    BY <1>2, <2>1, <2>3 DEF IInv, Loops
  <2>6. OnePlace'
    BY <1>2, <2>1 DEF IInv, OnePlace
  <2>7. DueFresh' /\ Owned'
    BY <1>2, <2>1, <2>3 DEF IInv, DueFresh, Due, Owned
  <2> QED
    BY <2>2, <2>4, <2>5, <2>6, <2>7 DEF IInv
<1> QED
  BY <1>1, <1>2 DEF Heartbeat

\* A loop starts its next script. It is known only to the loop of the pending ones, and
\* pending no more.
LEMMA StartNextInvariant ==
  ASSUME IInv, StartNext
  PROVE  IInv'
<1> DEFINE s == Head(todo)
<1>1. TypeOK /\ Loops /\ OnePlace /\ DueFresh /\ Owned
  BY DEF IInv
<1>2. /\ loop \in {"start", "pending"} /\ stack = <<>> /\ todo # <<>> /\ todo' = Tail(todo)
      /\ UNCHANGED <<inWorld, simulating, held, off, waiting, due, loop, late>>
      /\ IF loop = "start" THEN AddScript(Ctx, s) ELSE StartScript(Ctx, s)
  BY DEF StartNext, worldVars
<1>3. /\ s \in Script /\ todo' \in Seq(Script) /\ Once(todo)' /\ s \notin ToSet(todo)'
      /\ ToSet(todo) = ToSet(todo)' \cup {s}
  <2> DEFINE q == Tail(todo)
  <2>1. /\ q \in Seq(Script) /\ Once(q) /\ Head(todo) \in Script
        /\ ToSet(todo) = ToSet(q) \cup {Head(todo)} /\ Head(todo) \notin ToSet(q)
    BY <1>1, <1>2, TailOnce DEF TypeOK, Loops
  <2>2. todo' = q
    BY <1>2
  <2> HIDE DEF q
  <2>3. Once(todo)' /\ ToSet(todo)' = ToSet(q)
    BY <2>1, <2>2 DEF Once, ToSet
  <2> QED
    BY <2>1, <2>2, <2>3
<1> HIDE DEF s
<1>4. Len(stack) < MaxDepth
  BY <1>2, ScriptsAssumption
<1>5. ASSUME loop = "start"
      PROVE  /\ assoc[s] = NoRun /\ s \notin ToSet(pending) /\ scripts' = scripts \cup {s} /\ Unmoved
             /\ UNCHANGED <<pending, assoc, stack, open>> \/ Starts(s)
             /\ OnePlace'
  <2>1. s \notin scripts /\ s \notin held /\ s \in inWorld
    BY <1>1, <1>3, <1>5 DEF OnePlace
  <2>2. /\ Unmoved /\ scripts' = scripts \cup {s}
        /\ UNCHANGED <<pending, assoc, stack, open>> \/ Starts(s)
    BY <1>2, <1>5, <2>1, AddScriptFacts
  <2>3. assoc[s] = NoRun /\ s \notin ToSet(pending)
    BY <1>1, <1>3, <2>1 DEF Owned, DueFresh, Due
  <2>4. OnePlace'
    BY <1>1, <1>2, <1>3, <1>5, <2>1, <2>2 DEF OnePlace
  <2> QED
    BY <2>2, <2>3, <2>4
<1>6. ASSUME loop = "pending"
      PROVE  /\ assoc[s] = NoRun /\ s \notin ToSet(pending) /\ scripts' = scripts \cup {s} /\ Unmoved
             /\ Starts(s) /\ OnePlace'
  <2>1. s \in scripts /\ assoc[s] = NoRun /\ s \notin ToSet(pending)
    BY <1>1, <1>3, <1>6 DEF DueFresh, Due, Loops
  <2>2. Unmoved /\ scripts' = scripts /\ Starts(s)
    BY <1>2, <1>6, StartScriptFacts
  <2>3. OnePlace'
    BY <1>1, <1>2, <1>6, <2>2 DEF OnePlace
  <2> QED
    BY <2>1, <2>2, <2>3
<1>7. /\ assoc[s] = NoRun /\ s \notin ToSet(pending) /\ scripts' = scripts \cup {s} /\ Unmoved
      /\ UNCHANGED <<pending, assoc, stack, open>> \/ Starts(s)
      /\ OnePlace'
  BY <1>2, <1>5, <1>6
<1>9. /\ Apart' /\ Shut' /\ Led' /\ open' \in BOOLEAN
      /\ stack' \in Seq(Frame) /\ Len(stack') <= MaxDepth
      /\ assoc' \in [Script -> Run \cup {NoRun}]
      /\ \A u \in Script : assoc'[u] # NoRun => ScriptOf(assoc'[u]) = u
      /\ \A u \in Script : u # s => assoc'[u] = assoc[u]
      /\ pending' = pending \/ (pending' = Append(pending, s) /\ assoc' = assoc)
  BY <1>2, <1>3, <1>4, <1>7, StartsFacts
<1>10. /\ pending' \in Seq(Script) /\ Once(pending)'
       /\ ToSet(pending)' \subseteq ToSet(pending) \cup {s} /\ Owned'
       /\ \A u \in ToSet(pending)' : u \in scripts' /\ assoc'[u] = NoRun
       /\ \A u \in Due : u # s => u \in scripts' /\ assoc'[u] = NoRun
  BY <1>3, <1>7, <1>9, StartLists
<1>11. TypeOK'
  BY <1>1, <1>2, <1>3, <1>7, <1>9, <1>10 DEF TypeOK, Unmoved
<1>12. Loops'
  BY <1>1, <1>2, <1>3, <1>10 DEF Loops
<1>13. DueFresh'
  BY <1>2, <1>3, <1>10 DEF DueFresh, Due
<1> QED
  BY <1>7, <1>9, <1>10, <1>11, <1>12, <1>13 DEF IInv

\* The loop has started all of its scripts.
LEMMA StartsDoneInvariant ==
  ASSUME IInv, StartsDone
  PROVE  IInv'
<1>1. /\ loop \in {"start", "pending"} /\ todo = <<>>
      /\ UNCHANGED <<worldVars, ctxVars, late, off, open, todo, stack>>
  BY DEF StartsDone
<1>2. CASE BeginWaiters
  BY <1>1, <1>2, BeginWaitersInvariant
<1>3. CASE loop' = "idle" /\ UNCHANGED <<waiting, due>>
  <2>1. /\ UNCHANGED <<inWorld, simulating, held, scripts, pending, assoc, empty, slot, cached, late,
                      off, open, todo, stack, waiting, due>>
        /\ ToSet(todo) = {}
    BY <1>1, <1>3 DEF worldVars, ctxVars, ToSet
  <2>2. Apart' /\ Shut' /\ Led'
    BY <2>1, Resting
  <2>3. TypeOK'
    BY <1>3, <2>1 DEF IInv, TypeOK
  <2>4. Loops' /\ OnePlace' /\ DueFresh' /\ Owned'
    BY <1>1, <1>3, <2>1 DEF IInv, Loops, Once, OnePlace, DueFresh, Due, Owned
  <2> QED
    BY <2>2, <2>3, <2>4 DEF IInv
<1> QED
  BY <1>2, <1>3 DEF StartsDone

\* The loop of the waiters ends.
LEMMA WaitersDoneInvariant ==
  ASSUME IInv, WaitersDone
  PROVE  IInv'
<1>1. /\ loop = "waiters" /\ due = {} /\ loop' = "idle"
      /\ UNCHANGED <<inWorld, simulating, held, scripts, pending, assoc, empty, slot, cached, late,
                    off, open, todo, stack, waiting, due>>
  BY DEF WaitersDone, worldVars, ctxVars
<1>2. Apart' /\ Shut' /\ Led'
  BY <1>1, Resting
<1>3. TypeOK'
  BY <1>1 DEF IInv, TypeOK
<1>4. Loops' /\ OnePlace' /\ DueFresh' /\ Owned'
  BY <1>1 DEF IInv, Loops, Once, OnePlace, DueFresh, Due, Owned
<1> QED
  BY <1>2, <1>3, <1>4 DEF IInv

-----------------------------------------------------------------------------
\* What a step of Lua or of the loop of the waiters does not touch.
LEMMA ListsStay ==
  ASSUME IInv, UNCHANGED <<inWorld, held, scripts, pending, assoc, loop, todo>>, due' \subseteq due
  PROVE  Loops' /\ OnePlace' /\ DueFresh' /\ Owned'
<1>1. Loops'
  BY DEF IInv, Loops, Once
<1>2. OnePlace'
  BY DEF IInv, OnePlace
<1>3. DueFresh' /\ Owned'
  BY DEF IInv, DueFresh, Due, Owned
<1> QED
  BY <1>1, <1>2, <1>3

\* Where no thread begins to go on but one of a live slot, those that can are still led:
\* a late run is forgotten only when nothing of it is left.
LEMMA LedStays ==
  ASSUME Led, StillLate, assoc' = assoc,
         \A t \in (Waiters' \ empty') \cup OnStack' :
           t \in (Waiters \ empty) \cup OnStack \/ (RunOf(t) \in Run /\ slot[RunOf(t)] = "live"),
         \A r \in Run : slot'[r] = "live" => slot[r] = "live"
  PROVE  Led'
<1>1. ASSUME NEW r, Of(r), ~Unused(r)' PROVE Of(r)'
  BY <1>1 DEF Of, StillLate
<1>2. ASSUME NEW t \in (Waiters' \ empty') \cup OnStack' PROVE Of(RunOf(t))'
  <2>1. Of(RunOf(t))
    BY <1>2 DEF Led
  <2>2. ~Unused(RunOf(t))'
    <3>1. CASE t \in OnStack'
      BY <3>1 DEF Unused, Running
    <3>2. CASE t \in Waiters'
      BY <3>2 DEF Unused, Waiters
    <3> QED
      BY <1>2, <3>1, <3>2
  <2> QED
    BY <1>1, <2>1, <2>2
<1>3. ASSUME NEW r \in Run, slot'[r] = "live" PROVE Of(r)'
  <2>1. Of(r) /\ ~Unused(r)'
    BY <1>3 DEF Led, Unused
  <2> QED
    BY <1>1, <2>1
<1> QED
  BY <1>2, <1>3 DEF Led

\* A waiting thread is dropped, waits on, or runs.
LEMMA WakeInvariant ==
  ASSUME IInv, NEW t \in Thread, Wake(t)
  PROVE  IInv'
<1>1. TypeOK /\ Apart /\ Shut /\ Led
  BY DEF IInv
<1>2. /\ loop = "waiters" /\ stack = <<>> /\ t \in due /\ due' = due \ {t} /\ empty' = empty \ {t}
      /\ UNCHANGED <<inWorld, simulating, held, scripts, pending, assoc, slot, cached, off, open,
                    loop, todo>>
      /\ StillLate
  BY DEF Wake, worldVars
<1>3. t \notin waiting /\ t \in Waiters /\ t \notin OnStack /\ cached[RunOf(t)] # t
  BY <1>1, <1>2, RunFacts DEF Apart, Waiters
<1>4. Loops' /\ OnePlace' /\ DueFresh' /\ Owned'
  BY <1>2, ListsStay
<1>5. late' \subseteq Run
  BY <1>1, <1>2 DEF StillLate, TypeOK
<1>6. CASE t \in empty /\ UNCHANGED <<waiting, stack>>
  <2>1. Waiters' = Waiters \ {t} /\ OnStack' = OnStack
    BY <1>2, <1>3, <1>6 DEF Waiters, OnStack
  <2>2. TypeOK'
    BY <1>1, <1>2, <1>3, <1>5, <1>6 DEF TypeOK
  <2>3. Apart'
    BY <1>1, <1>2, <1>6, <2>1 DEF Apart
  <2>4. Shut'
    BY <1>1, <1>2, <1>3, <1>6, <2>1 DEF Shut, ClosedHoldsNothing
  <2>5. Led'
    BY <1>1, <1>2, <1>6, <2>1, LedStays
  <2> QED
    BY <1>4, <2>2, <2>3, <2>4, <2>5 DEF IInv
<1>7. CASE t \notin empty /\ waiting' = waiting \cup {t} /\ UNCHANGED stack
  <2>1. Waiters' = Waiters /\ OnStack' = OnStack /\ empty' = empty
    BY <1>2, <1>7 DEF Waiters, OnStack
  <2>2. TypeOK'
    BY <1>1, <1>2, <1>5, <1>7, <2>1 DEF TypeOK
  <2>3. Apart'
    BY <1>1, <1>2, <1>7, <2>1 DEF Apart
  <2>4. Shut'
    BY <1>1, <1>2, <1>3, <1>7, <2>1 DEF Shut
  <2>5. Led'
    BY <1>1, <1>2, <2>1, LedStays
  <2> QED
    BY <1>4, <2>2, <2>3, <2>4, <2>5 DEF IInv
<1>8. CASE t \notin empty /\ Call(t, "plain") /\ UNCHANGED waiting
  <2> DEFINE f == [thread |-> t, use |-> "plain"]
  <2>1. f \in Frame /\ f.thread = t
    BY DEF Frame
  <2>2. stack' = Append(stack, f)
    BY <1>8 DEF Call
  <2> HIDE DEF f
  <2>3. Waiters' = Waiters \ {t} /\ empty' = empty /\ waiting' \cap due' = {}
    BY <1>1, <1>2, <1>3, <1>8 DEF Waiters, Apart
  <2>4. Len(stack) < MaxDepth
    BY <1>2, ScriptsAssumption
  <2>5. /\ stack' \in Seq(Frame) /\ Len(stack') <= MaxDepth
        /\ OnStack' = OnStack \cup {t} /\ Apart'
    BY <1>1, <1>2, <1>3, <2>1, <2>2, <2>3, <2>4, PushFacts
  <2>6. TypeOK'
    BY <1>1, <1>2, <1>5, <1>8, <2>3, <2>5 DEF TypeOK
  <2>7. Shut'
    BY <1>1, <1>2, <1>3, <1>8 DEF Shut
  <2>8. Led'
    BY <1>1, <1>2, <1>3, <1>8, <2>3, <2>5, LedStays
  <2> QED
    BY <1>4, <2>5, <2>6, <2>7, <2>8 DEF IInv
<1> QED
  BY <1>6, <1>7, <1>8 DEF Wake, HasRef

\* A script that runs is of a run that is led.
LEMMA TopFacts ==
  ASSUME IInv, stack # <<>>
  PROVE  /\ open /\ Top.thread \in OnStack /\ Top.thread \in Thread
         /\ RunOf(Top.thread) \in Run /\ Of(RunOf(Top.thread))
<1>1. stack \in Seq(Frame)
  BY DEF IInv, TypeOK
<1>2. Len(stack) \in DOMAIN stack
  BY <1>1
<1>3. Top.thread \in OnStack
  BY <1>2 DEF Top, Last, OnStack
<1> QED
  BY <1>3, ThreadsTyped, RunFacts DEF IInv, TypeOK, Shut, Led

\* A script connects its slot.
LEMMA ConnectInvariant ==
  ASSUME IInv, Connect
  PROVE  IInv'
<1> DEFINE r == RunOf(Top.thread)
<1>1. TypeOK /\ Apart /\ Shut /\ Led
  BY DEF IInv
<1>2. /\ stack # <<>> /\ slot' = [slot EXCEPT ![r] = "live"]
      /\ UNCHANGED <<inWorld, simulating, held, scripts, pending, assoc, empty, cached, late, off, open,
                    waiting, due, loop, todo, stack>>
  BY DEF Connect, ScriptActs, worldVars
<1>3. open /\ r \in Run /\ Of(r)
  BY <1>2, TopFacts
<1> HIDE DEF r
<1>4. Loops' /\ OnePlace' /\ DueFresh' /\ Owned'
  BY <1>2, ListsStay
<1>5. Waiters' = Waiters /\ OnStack' = OnStack
  BY <1>2 DEF Waiters, OnStack
<1>6. TypeOK'
  <2>1. slot' \in [Run -> {"none", "live", "dead"}]
    BY <1>1, <1>2 DEF TypeOK
  <2>2. \A q \in Run : slot[q] = "live" => slot'[q] = "live"
    BY <1>1, <1>2 DEF TypeOK
  <2> QED
    BY <1>1, <1>2, <2>1, <2>2 DEF TypeOK
<1>7. Apart'
  BY <1>1, <1>2, <1>5 DEF Apart
<1>8. Shut'
  BY <1>2, <1>3 DEF Shut
<1>9. Led'
  <2>1. \A q \in Run : slot'[q] = "live" => q = r \/ slot[q] = "live"
    BY <1>1, <1>2 DEF TypeOK
  <2> QED
    BY <1>1, <1>2, <1>3, <1>5, <2>1 DEF Led, Of
<1> QED
  BY <1>4, <1>6, <1>7, <1>8, <1>9 DEF IInv

\* A script has a new thread wait.
LEMMA DelayInvariant ==
  ASSUME IInv, Delay
  PROVE  IInv'
<1> DEFINE r == RunOf(Top.thread)
<1>1. TypeOK /\ Apart /\ Shut /\ Led
  BY DEF IInv
<1>2. /\ stack # <<>> /\ \E k \in SpareThread(Ctx, r) : waiting' = waiting \cup {<<r, k>>}
      /\ UNCHANGED <<inWorld, simulating, held, scripts, pending, assoc, empty, slot, cached, late, off,
                    open, due, loop, todo, stack>>
  BY DEF Delay, ScriptActs, worldVars, ctxVars
<1>3. open /\ r \in Run /\ Of(r)
  BY <1>2, TopFacts
<1> HIDE DEF r
<1>4. PICK k \in SpareThread(Ctx, r) : waiting' = waiting \cup {<<r, k>>}
  BY <1>2
<1> DEFINE t == <<r, k>>
<1>5. t \in Thread /\ RunOf(t) = r
  BY <1>3, RunFacts DEF SpareThread
<1>6. t \notin waiting /\ t \notin due /\ t \notin OnStack /\ cached[r] # t
  BY <1>5 DEF SpareThread, InUse, Ctx
<1>7. waiting' = waiting \cup {t}
  BY <1>4
<1> HIDE DEF t
<1>8. Loops' /\ OnePlace' /\ DueFresh' /\ Owned'
  BY <1>2, ListsStay
<1>9. Waiters' = Waiters \cup {t} /\ OnStack' = OnStack
  BY <1>2, <1>7 DEF Waiters, OnStack
<1>10. TypeOK'
  BY <1>1, <1>2, <1>5, <1>7 DEF TypeOK
<1>11. Apart'
  <2>1. \A q \in Run : cached[q] # t
    BY <1>1, <1>5, <1>6, RunFacts DEF TypeOK
  <2> QED
    BY <1>1, <1>2, <1>6, <1>7, <1>9, <2>1 DEF Apart
<1>12. Shut'
  BY <1>2, <1>3 DEF Shut
<1>13. Led'
  BY <1>1, <1>2, <1>3, <1>5, <1>9 DEF Led, Of
<1> QED
  BY <1>8, <1>10, <1>11, <1>12, <1>13 DEF IInv

\* An event runs a slot. One that cannot run disconnects; one that can runs a thread
\* that is nowhere else.
LEMMA FireInvariant ==
  ASSUME IInv, NEW r \in Run, Fire(r)
  PROVE  IInv'
<1>1. TypeOK /\ Apart /\ Shut /\ Led
  BY DEF IInv
<1>2. /\ UNCHANGED <<inWorld, simulating, held, scripts, pending, assoc, empty, off, open, waiting, due,
                    loop, todo>>
      /\ StillLate
  BY DEF Fire, worldVars
<1>3. Loops' /\ OnePlace' /\ DueFresh' /\ Owned' /\ Waiters' = Waiters
  BY <1>2, ListsStay DEF Waiters
<1>4. late' \subseteq Run
  BY <1>1, <1>2 DEF StillLate, TypeOK
<1>5. CASE /\ slot' = [slot EXCEPT ![r] = "none"] /\ cached' = [cached EXCEPT ![r] = NoThread]
           /\ UNCHANGED stack
  <2>1. \A q \in Run : /\ slot'[q] = IF q = r THEN "none" ELSE slot[q]
                      /\ cached'[q] = IF q = r THEN NoThread ELSE cached[q]
    BY <1>1, <1>5 DEF TypeOK
  <2>2. OnStack' = OnStack
    BY <1>5 DEF OnStack
  <2>3. TypeOK'
    <3>1. slot' \in [Run -> {"none", "live", "dead"}] /\ cached' \in [Run -> Thread \cup {NoThread}]
      BY <1>1, <1>5 DEF TypeOK
    <3>2. \A q \in Run : cached'[q] # NoThread => RunOf(cached'[q]) = q /\ slot'[q] = "live"
      BY <1>1, <2>1 DEF TypeOK
    <3> QED
      BY <1>1, <1>2, <1>4, <1>5, <3>1, <3>2 DEF TypeOK
  <2>4. Waiters \subseteq Thread /\ OnStack \subseteq Thread
    BY <1>1, ThreadsTyped
  <2>5. \A q \in Run : cached'[q] \notin Waiters'
    BY <1>1, <1>3, <2>1, <2>4, RunFacts DEF Apart
  <2>6. ASSUME NEW i \in DOMAIN stack, stack[i].use # "cached"
        PROVE  cached'[RunOf(stack[i].thread)] # stack[i].thread
    <3>1. stack[i].thread \in Thread
      BY <2>4 DEF OnStack
    <3>2. cached[RunOf(stack[i].thread)] # stack[i].thread
      BY <1>1, <2>6 DEF Apart
    <3> QED
      BY <2>1, <3>1, <3>2, RunFacts
  <2>7. Apart'
    BY <1>1, <1>2, <1>3, <1>5, <2>2, <2>5, <2>6 DEF Apart
  <2>8. Shut'
    BY <1>1, <1>2, <1>3, <1>5, <2>1 DEF Shut, ClosedHoldsNothing
  <2>9. Led'
    BY <1>1, <1>2, <1>3, <2>1, <2>2, LedStays
  <2> QED
    BY <1>3, <2>3, <2>7, <2>8, <2>9 DEF IInv
<1>6. ASSUME NEW t \in Thread, RunOf(t) = r, t \notin Waiters, t \notin OnStack,
             NEW use \in {"new", "cached"}, use # "cached" => cached[r] # t,
             Call(t, use), slot[r] = "live", Len(stack) < MaxDepth, UNCHANGED <<slot, cached>>
      PROVE  IInv'
  <2> DEFINE f == [thread |-> t, use |-> use]
  <2>1. f \in Frame /\ f.thread = t /\ f.use = use
    BY DEF Frame
  <2>2. stack' = Append(stack, f)
    BY <1>6 DEF Call
  <2> HIDE DEF f
  <2>3. waiting' \cap due' = {}
    BY <1>1, <1>2 DEF Apart
  <2>4. /\ stack' \in Seq(Frame) /\ Len(stack') <= MaxDepth
        /\ OnStack' = OnStack \cup {t} /\ Apart'
    BY <1>1, <1>3, <1>6, <2>1, <2>2, <2>3, PushFacts
  <2>5. TypeOK'
    BY <1>1, <1>2, <1>4, <1>6, <2>4 DEF TypeOK
  <2>6. Shut'
    BY <1>1, <1>2, <1>6 DEF Shut, ClosedHoldsNothing
  <2>7. Led'
    BY <1>1, <1>2, <1>3, <1>6, <2>4, LedStays
  <2> QED
    BY <1>3, <2>4, <2>5, <2>6, <2>7 DEF IInv
<1>7. CASE /\ slot[r] = "live" /\ ~Reentered(r) /\ Len(stack) < MaxDepth
           /\ cached[r] # NoThread /\ Call(cached[r], "cached") /\ UNCHANGED <<slot, cached>>
  <2> DEFINE t == cached[r]
  <2>1. t \in Thread /\ RunOf(t) = r /\ t \notin Waiters
    BY <1>1, <1>7 DEF TypeOK, Apart
  <2>2. ASSUME NEW i \in DOMAIN stack, stack[i].thread = t PROVE FALSE
    <3>1. CASE stack[i].use = "cached"
      BY <1>7, <2>2, <3>1 DEF Reentered
    <3>2. CASE stack[i].use # "cached"
      BY <1>1, <2>1, <2>2, <3>2 DEF Apart
    <3> QED
      BY <3>1, <3>2
  <2>3. t \notin OnStack
    BY <2>2 DEF OnStack
  <2> QED
    BY <1>6, <1>7, <2>1, <2>3
<1>8. CASE /\ slot[r] = "live" /\ Len(stack) < MaxDepth /\ UNCHANGED <<slot, cached>>
           /\ \E k \in SpareThread(Ctx, r) : Call(<<r, k>>, "new")
  <2>1. PICK k \in SpareThread(Ctx, r) : Call(<<r, k>>, "new")
    BY <1>8
  <2> DEFINE t == <<r, k>>
  <2>2. t \in Thread /\ RunOf(t) = r
    BY RunFacts DEF SpareThread
  <2>3. t \notin Waiters /\ t \notin OnStack /\ cached[r] # t
    BY <2>2 DEF SpareThread, InUse, Ctx, Waiters
  <2>4. Call(t, "new")
    BY <2>1
  <2> HIDE DEF t
  <2> QED
    BY <1>6, <1>8, <2>2, <2>3, <2>4
<1> QED
  BY <1>5, <1>7, <1>8 DEF Fire

\* What the end of a call leaves of the slot that made it.
LEMMA SlotEndsFacts ==
  ASSUME TypeOK, NEW f \in Frame, NEW result, SlotEnds(f, result)
  PROVE  LET r == RunOf(f.thread) IN
         /\ slot' \in [Run -> {"none", "live", "dead"}] /\ cached' \in [Run -> Thread \cup {NoThread}]
         /\ \A q \in Run : slot'[q] = "live" => slot[q] = "live"
         /\ \A q \in Run : cached'[q] # NoThread => RunOf(cached'[q]) = q /\ slot'[q] = "live"
         /\ \A q \in Run : cached'[q] \in {cached[q], NoThread} \/ (cached'[q] = f.thread /\ result = "success")
         /\ f.use # "plain" /\ result # "success" => cached'[r] = NoThread
<1> DEFINE r == RunOf(f.thread)
<1>1. f.thread \in Thread /\ r \in Run
  BY RunFacts DEF Frame
<1>2. /\ slot \in [Run -> {"none", "live", "dead"}] /\ cached \in [Run -> Thread \cup {NoThread}]
      /\ \A q \in Run : cached[q] # NoThread => RunOf(cached[q]) = q /\ slot[q] = "live"
  BY DEF TypeOK
<1>3. CASE f.use = "plain"
  <2>1. slot' = slot /\ cached' = cached
    BY <1>3 DEF SlotEnds
  <2>2. /\ slot' \in [Run -> {"none", "live", "dead"}] /\ cached' \in [Run -> Thread \cup {NoThread}]
        /\ \A q \in Run : cached'[q] # NoThread => RunOf(cached'[q]) = q /\ slot'[q] = "live"
    BY <1>2, <2>1
  <2> QED
    BY <1>3, <2>1, <2>2
<1>4. CASE f.use # "plain"
  <2> DEFINE ends == result = "error" \/ slot[r] # "live"
             sl == IF ends THEN "none" ELSE slot[r]
             ca == Kept(f, result)
  <2>1. slot' = [slot EXCEPT ![r] = sl] /\ cached' = [cached EXCEPT ![r] = ca]
    BY <1>4 DEF SlotEnds
  <2>2. sl \in {"none", "live", "dead"} /\ (sl = "live" => slot[r] = "live")
    BY <1>1, <1>2
  <2>3. /\ ca \in {NoThread, cached[r], f.thread} /\ (result # "success" => ca = NoThread)
        /\ slot[r] # "live" => ca = NoThread
    BY DEF Kept
  <2>4. ca \in Thread \cup {NoThread} /\ (ca # NoThread => RunOf(ca) = r)
    BY <1>1, <1>2, <2>3
  <2>5. ca # NoThread => sl = "live"
    BY <2>3
  <2> HIDE DEF r, sl, ca
  <2>6. \A q \in Run : /\ slot'[q] = IF q = r THEN sl ELSE slot[q]
                      /\ cached'[q] = IF q = r THEN ca ELSE cached[q]
    BY <1>1, <1>2, <2>1
  <2>7. slot' \in [Run -> {"none", "live", "dead"}] /\ cached' \in [Run -> Thread \cup {NoThread}]
    BY <1>1, <1>2, <2>1, <2>2, <2>4
  <2>8. \A q \in Run : slot'[q] = "live" => slot[q] = "live"
    BY <2>2, <2>6
  <2>9. \A q \in Run : cached'[q] # NoThread => RunOf(cached'[q]) = q /\ slot'[q] = "live"
    BY <1>2, <2>4, <2>5, <2>6
  <2>10. \A q \in Run : cached'[q] \in {cached[q], NoThread} \/ (cached'[q] = f.thread /\ result = "success")
    <3>1. ASSUME NEW q \in Run
          PROVE  cached'[q] \in {cached[q], NoThread} \/ (cached'[q] = f.thread /\ result = "success")
      <4>1. CASE q # r
        BY <2>6, <4>1
      <4>2. CASE q = r
        <5>1. cached'[q] = ca
          BY <2>6, <4>2
        <5>2. ca = NoThread \/ ca = cached[q] \/ ca = f.thread
          BY <2>3, <4>2
        <5> QED
          BY <2>3, <5>1, <5>2
      <4> QED
        BY <4>1, <4>2
    <3> QED
      BY <3>1
  <2>11. result # "success" => cached'[r] = NoThread
    BY <1>1, <2>3, <2>6
  <2> QED
    BY <2>7, <2>8, <2>9, <2>10, <2>11 DEF r
<1> QED
  BY <1>3, <1>4

\* The innermost call returns: its thread waits, or is kept by its slot, or is no more.
LEMMA ReturnInvariant ==
  ASSUME IInv, NEW result, Return(result)
  PROVE  IInv'
<1> DEFINE f == Top
           r == RunOf(f.thread)
<1>1. TypeOK /\ Apart /\ Shut /\ Led
  BY DEF IInv
<1>2. /\ stack # <<>> /\ stack' = Front(stack)
      /\ waiting' = IF result = "yield" THEN waiting \cup {f.thread} ELSE waiting
      /\ SlotEnds(f, result)
      /\ UNCHANGED <<inWorld, simulating, held, scripts, pending, assoc, empty, off, open, due, loop,
                    todo>>
      /\ StillLate
  BY DEF Return, ScriptActs, worldVars
<1>3. open /\ r \in Run /\ f.thread \in Thread
  BY <1>2, TopFacts
<1>4. /\ stack' \in Seq(Frame) /\ Len(stack') <= MaxDepth
      /\ f \in Frame /\ f.thread \in OnStack /\ OnStack' = OnStack \ {f.thread}
      /\ f.use # "cached" => cached[r] # f.thread
      /\ \A i, j \in DOMAIN stack' : stack'[i].thread = stack'[j].thread => i = j
      /\ \A i \in DOMAIN stack' :
           /\ stack'[i] \in Frame /\ stack'[i].thread # f.thread
           /\ stack'[i].use # "cached" => cached[RunOf(stack'[i].thread)] # stack'[i].thread
  BY <1>1, <1>2, PopFacts
<1> HIDE DEF f
<1>5. /\ slot' \in [Run -> {"none", "live", "dead"}] /\ cached' \in [Run -> Thread \cup {NoThread}]
      /\ \A q \in Run : slot'[q] = "live" => slot[q] = "live"
      /\ \A q \in Run : cached'[q] # NoThread => RunOf(cached'[q]) = q /\ slot'[q] = "live"
      /\ \A q \in Run : cached'[q] \in {cached[q], NoThread} \/ (cached'[q] = f.thread /\ result = "success")
      /\ f.use # "plain" /\ result # "success" => cached'[r] = NoThread
  BY <1>1, <1>2, <1>4, SlotEndsFacts
<1>6. Loops' /\ OnePlace' /\ DueFresh' /\ Owned'
  BY <1>2, ListsStay
<1>7. f.thread \notin Waiters
  BY <1>1, <1>4 DEF Apart
<1>8. Waiters' = IF result = "yield" THEN Waiters \cup {f.thread} ELSE Waiters
  BY <1>2 DEF Waiters
<1>9. late' \subseteq Run /\ waiting' \subseteq Thread /\ waiting \subseteq waiting'
  BY <1>1, <1>2, <1>3 DEF StillLate, TypeOK
<1>10. TypeOK'
  BY <1>1, <1>2, <1>4, <1>5, <1>9 DEF TypeOK
<1>11. ASSUME NEW q \in Run PROVE cached'[q] \notin Waiters'
  <2>1. Waiters \subseteq Thread /\ NoThread \notin Thread
    BY <1>1, ThreadsTyped, RunFacts
  <2>2. CASE cached'[q] = NoThread
    BY <1>3, <1>8, <2>1, <2>2
  <2>3. CASE cached'[q] = f.thread /\ result = "success"
    BY <1>7, <1>8, <2>3
  <2>4. CASE cached'[q] = cached[q] /\ cached'[q] # NoThread
    <3>1. cached[q] \notin Waiters
      BY <1>1 DEF Apart
    <3>2. ASSUME result = "yield", cached[q] = f.thread PROVE FALSE
      <4>1. q = r
        BY <1>5, <2>4, <3>2
      <4>2. f.use = "plain"
        BY <1>5, <2>4, <3>2, <4>1
      <4> QED
        BY <1>4, <3>2, <4>1, <4>2
    <3> QED
      BY <1>8, <2>4, <3>1, <3>2
  <2> QED
    BY <1>5, <2>2, <2>3, <2>4
<1>12. ASSUME NEW i \in DOMAIN stack', stack'[i].use # "cached"
       PROVE  cached'[RunOf(stack'[i].thread)] # stack'[i].thread
  <2> DEFINE t == stack'[i].thread
  <2>1. t \in Thread /\ t # f.thread /\ cached[RunOf(t)] # t
    BY <1>4, <1>12 DEF Frame
  <2>2. RunOf(t) \in Run /\ t # NoThread
    BY <2>1, RunFacts
  <2> QED
    BY <1>5, <2>1, <2>2
<1>13. Apart'
  <2>1. waiting' \cap due' = {}
    BY <1>1, <1>2, <1>7 DEF Apart, Waiters
  <2>2. OnStack' \cap Waiters' = {}
    BY <1>1, <1>4, <1>8 DEF Apart
  <2> QED
    BY <1>4, <1>11, <1>12, <2>1, <2>2 DEF Apart
<1>14. Shut'
  BY <1>2, <1>3 DEF Shut
<1>15. Led'
  BY <1>1, <1>2, <1>4, <1>5, <1>8, LedStays
<1> QED
  BY <1>6, <1>10, <1>13, <1>14, <1>15 DEF IInv

\* The Lua state is closed: no script has a run, and no reference is left.
LEMMA CloseInvariant ==
  ASSUME IInv, Close
  PROVE  IInv'
<1> DEFINE A == [s \in Script |-> IF s \in scripts THEN NoRun ELSE assoc[s]]
           R == {assoc[s] : s \in scripts} \ {NoRun}
           B == EraseAllRefs(Ctx, R)
           C == [B EXCEPT !.assoc = A]
           Q == Run \ {C.assoc[s] : s \in Script}
           D == EraseAllRefs(C, Q)
<1>1. TypeOK /\ Loops /\ OnePlace /\ DueFresh /\ Owned
  BY DEF IInv
<1>2. /\ stack = <<>> /\ loop = "idle" /\ open' = FALSE /\ off' \in {off, FALSE}
      /\ waiting' = {} /\ late' = {}
      /\ UNCHANGED <<inWorld, simulating, held, due, loop, todo, stack>>
  BY DEF Close, EngineActs, worldVars
<1>3. due' = {}
  BY <1>1, <1>2 DEF Loops
<1>4. /\ Ctx.scripts = scripts /\ Ctx.pending = pending /\ Ctx.assoc = assoc
      /\ Ctx.empty = empty /\ Ctx.slot = slot /\ Ctx.cached = cached
  BY DEF Ctx
<1>5. \A s \in Script : A[s] = NoRun
  BY <1>1 DEF Owned
<1>6. /\ C.scripts = scripts /\ C.pending = pending /\ C.assoc = A
      /\ C.slot = [r \in Run |-> IF r \in R /\ slot[r] = "live" THEN "dead" ELSE slot[r]]
      /\ C = [scripts |-> scripts, pending |-> pending, assoc |-> A, empty |-> C.empty,
              slot |-> C.slot, cached |-> C.cached]
  <2> DEFINE e == empty \cup {t \in waiting \cup due : RunOf(t) \in R}
             sl == [r \in Run |-> IF r \in R /\ slot[r] = "live" THEN "dead" ELSE slot[r]]
             ca == [r \in Run |-> IF r \in R THEN NoThread ELSE cached[r]]
  <2>1. B = [Ctx EXCEPT !.empty = e, !.slot = sl, !.cached = ca]
    BY <1>4 DEF EraseAllRefs
  <2> HIDE DEF e, sl, ca, A, B
  <2>2. B = [scripts |-> scripts, pending |-> pending, assoc |-> assoc, empty |-> e,
             slot |-> sl, cached |-> ca]
    BY <2>1 DEF Ctx
  <2>3. C = [scripts |-> scripts, pending |-> pending, assoc |-> A, empty |-> e,
             slot |-> sl, cached |-> ca]
    BY <2>2
  <2> QED
    BY <2>3 DEF sl
<1>7. SetCtx([D EXCEPT !.empty = {}])
  <2>1. /\ R = {Ctx.assoc[s] : s \in scripts} \ {NoRun}
        /\ A = [s \in Script |-> IF s \in scripts THEN NoRun ELSE Ctx.assoc[s]]
    BY <1>4
  <2> HIDE DEF A, R
  <2>2. C = Disassociate(Ctx, scripts)
    BY <2>1 DEF Disassociate
  <2> HIDE DEF B, C
  <2> QED
    BY <2>2 DEF Close
<1> HIDE DEF A, R, B, C
<1>8. \A r \in Run : r \in Q
  BY <1>5, <1>6, RunFacts
<1>9. /\ D.scripts = scripts /\ D.pending = pending /\ D.assoc = A
      /\ D.slot = [r \in Run |-> IF r \in Q /\ C.slot[r] = "live" THEN "dead" ELSE C.slot[r]]
      /\ D.cached = [r \in Run |-> IF r \in Q THEN NoThread ELSE C.cached[r]]
      /\ D = [scripts |-> scripts, pending |-> pending, assoc |-> A, empty |-> D.empty,
              slot |-> D.slot, cached |-> D.cached]
  <2> HIDE DEF Q
  <2> DEFINE e == C.empty \cup {t \in waiting \cup due : RunOf(t) \in Q}
             sl == [r \in Run |-> IF r \in Q /\ C.slot[r] = "live" THEN "dead" ELSE C.slot[r]]
             ca == [r \in Run |-> IF r \in Q THEN NoThread ELSE C.cached[r]]
  <2>1. D = [C EXCEPT !.empty = e, !.slot = sl, !.cached = ca]
    BY DEF EraseAllRefs
  <2> HIDE DEF e, sl, ca, D
  <2>2. D = [scripts |-> scripts, pending |-> pending, assoc |-> A, empty |-> e,
             slot |-> sl, cached |-> ca]
    BY <1>6, <2>1
  <2> QED
    BY <2>2 DEF sl, ca
<1> HIDE DEF Q, D
<1>10. /\ scripts' = scripts /\ pending' = pending /\ assoc' = A /\ empty' = {}
       /\ slot' = D.slot /\ cached' = D.cached
  BY <1>7, <1>9 DEF SetCtx
<1>11. /\ slot' \in [Run -> {"none", "live", "dead"}] /\ cached' \in [Run -> Thread \cup {NoThread}]
       /\ \A r \in Run : slot'[r] # "live" /\ cached'[r] = NoThread
  <2>1. C.slot \in [Run -> {"none", "live", "dead"}]
    BY <1>1, <1>6 DEF TypeOK
  <2>2. D.slot = [r \in Run |-> IF C.slot[r] = "live" THEN "dead" ELSE C.slot[r]]
    BY <1>8, <1>9
  <2>3. D.cached = [r \in Run |-> NoThread]
    BY <1>8, <1>9
  <2> QED
    BY <1>10, <2>1, <2>2, <2>3
<1>12. assoc' \in [Script -> Run \cup {NoRun}] /\ \A s \in Script : assoc'[s] = NoRun
  BY <1>5, <1>10 DEF A
<1>13. Waiters' = {} /\ OnStack' = {} /\ DOMAIN stack' = {}
  BY <1>2, <1>3 DEF Waiters, OnStack
<1>14. TypeOK'
  BY <1>1, <1>2, <1>3, <1>10, <1>11, <1>12 DEF TypeOK
<1>15. Loops'
  BY <1>1, <1>2, <1>3, <1>10 DEF Loops, Once
<1>16. OnePlace'
  BY <1>1, <1>2, <1>10 DEF OnePlace
<1>17. DueFresh' /\ Owned'
  <2>1. Due' = Due /\ Due \subseteq Script
    BY <1>1, <1>2, <1>10 DEF Due, DueFresh, TypeOK
  <2> QED
    BY <1>1, <1>10, <1>12, <2>1 DEF DueFresh, Owned
<1>18. Apart' /\ Led'
  BY <1>2, <1>3, <1>11, <1>13 DEF Apart, Led
<1>19. Shut'
  BY <1>2, <1>10, <1>11, <1>12, <1>13 DEF Shut, ClosedHoldsNothing
<1> QED
  BY <1>14, <1>15, <1>16, <1>17, <1>18, <1>19 DEF IInv

\* Every step keeps the invariant.
LEMMA NextInvariant ==
  ASSUME ~Meddling, IInv, [Next]_vars
  PROVE  IInv'
<1>1. CASE UNCHANGED vars
  <2>1. /\ UNCHANGED <<inWorld, simulating, held, scripts, pending, off, open, assoc, waiting, due, empty,
                      slot, cached, loop, todo, stack, late>>
    BY <1>1 DEF vars
  <2>2. Apart' /\ Shut' /\ Led'
    BY <2>1, Resting
  <2>3. TypeOK'
    BY <2>1 DEF IInv, TypeOK
  <2>4. Loops' /\ OnePlace' /\ DueFresh' /\ Owned'
    BY <2>1, ListsStay
  <2> QED
    BY <2>2, <2>3, <2>4 DEF IInv
<1>2. CASE \E s \in Script : MoveIn(s) \/ MoveOut(s)
  BY <1>2, MoveInInvariant, MoveOutInvariant
<1>3. CASE SetDisabled \/ StopSimulation
  BY <1>3, SwitchInvariant
<1>4. CASE StartSimulation
  BY <1>4, StartSimulationInvariant
<1>5. CASE Heartbeat
  BY <1>5, HeartbeatInvariant
<1>6. CASE StartNext
  BY <1>6, StartNextInvariant
<1>7. CASE StartsDone
  BY <1>7, StartsDoneInvariant
<1>8. CASE WaitersDone
  BY <1>8, WaitersDoneInvariant
<1>9. CASE \E t \in Thread : Wake(t)
  BY <1>9, WakeInvariant
<1>10. CASE Connect
  BY <1>10, ConnectInvariant
<1>11. CASE Delay
  BY <1>11, DelayInvariant
<1>12. CASE Close
  BY <1>12, CloseInvariant
<1>13. CASE \E r \in Run : Fire(r)
  BY <1>13, FireInvariant
<1>14. CASE \E result \in {"success", "yield", "error"} : Return(result)
  BY <1>14, ReturnInvariant
<1> QED
  BY <1>1, <1>2, <1>3, <1>4, <1>5, <1>6, <1>7, <1>8, <1>9, <1>10, <1>11, <1>12, <1>13, <1>14 DEF Next

\* The invariant holds of every behaviour in which no script moves one that a loop is
\* about to start.
THEOREM InvariantHolds == ~Meddling /\ Spec => []IInv
<1> SUFFICES ASSUME ~Meddling PROVE Spec => []IInv
  OBVIOUS
<1>1. IInv /\ [Next]_vars => IInv'
  BY NextInvariant
<1> QED
  BY <1>1, InitInvariant, PTL DEF Spec

\* The context, the threads, the slots and the calls are what their types say.
THEOREM TypeCorrect == ~Meddling /\ Spec => []TypeOK
BY InvariantHolds, PTL DEF IInv

\* A script below the workspace is held by it, or known to the context, or about to be
\* added to it, and only one of these.
THEOREM OnePlaceHolds == ~Meddling /\ Spec => []OnePlace
BY InvariantHolds, PTL DEF IInv

\* What a loop or the next heartbeat is to start is known, is named once and has no run.
LEMMA DueUnstartedFollows == IInv => DueUnstarted
<1> SUFFICES ASSUME IInv PROVE DueUnstarted
  OBVIOUS
<1>1. /\ pending \in Seq(Script) /\ todo \in Seq(Script) /\ Once(pending) /\ Once(todo)
      /\ loop = "pending" => ToSet(pending) \cap ToSet(todo) = {}
      /\ \A s \in Due : s \in scripts /\ assoc[s] = NoRun
  BY DEF IInv, TypeOK, Loops, DueFresh
<1>2. CASE loop # "pending"
  <2>1. \A i \in DOMAIN pending : pending[i] \in Due
    BY <1>1 DEF Due, ToSet
  <2> QED
    BY <1>1, <1>2, <2>1 DEF DueUnstarted, Once
<1>3. CASE loop = "pending"
  <2> DEFINE q == pending \o todo
             m == Len(pending)
             n == Len(todo)
  <2>1. /\ m \in Nat /\ n \in Nat /\ DOMAIN pending = 1..m /\ DOMAIN todo = 1..n
        /\ DOMAIN q = 1..(m + n)
        /\ \A i \in 1..m : q[i] = pending[i]
        /\ \A i \in 1..n : q[m + i] = todo[i]
    BY <1>1
  <2> HIDE DEF q, m, n
  <2>2. ASSUME NEW i \in 1..(m + n)
        PROVE  \/ i \in 1..m /\ q[i] = pending[i] /\ q[i] \in ToSet(pending)
               \/ i - m \in 1..n /\ q[i] = todo[i - m] /\ q[i] \in ToSet(todo)
    <3>1. CASE i \in 1..m
      BY <2>1, <3>1 DEF ToSet
    <3>2. CASE i \notin 1..m
      <4>1. i - m \in 1..n /\ m + (i - m) = i
        BY <2>1, <3>2
      <4>2. q[i] = todo[i - m]
        BY <2>1, <4>1
      <4> QED
        BY <2>1, <4>1, <4>2 DEF ToSet
    <3> QED
      BY <3>1, <3>2
  <2>3. ASSUME NEW i \in 1..(m + n), NEW j \in 1..(m + n), q[i] = q[j]
        PROVE  i = j
    <3>1. CASE i \in 1..m /\ j \in 1..m
      BY <1>1, <2>1, <2>3, <3>1 DEF Once
    <3>2. CASE /\ i - m \in 1..n /\ q[i] = todo[i - m]
               /\ j - m \in 1..n /\ q[j] = todo[j - m]
      <4>1. i - m = j - m
        BY <1>1, <2>1, <2>3, <3>2 DEF Once
      <4> QED
        BY <2>1, <4>1
    <3>3. CASE q[i] \in ToSet(pending) /\ q[j] \in ToSet(todo)
      BY <1>1, <1>3, <2>3, <3>3
    <3>4. CASE q[j] \in ToSet(pending) /\ q[i] \in ToSet(todo)
      BY <1>1, <1>3, <2>3, <3>4
    <3> QED
      BY <2>2, <3>1, <3>2, <3>3, <3>4
  <2>4. \A i \in 1..(m + n) : q[i] \in scripts /\ assoc[q[i]] = NoRun
    BY <1>1, <1>3, <2>2 DEF Due
  <2>5. /\ \A i, j \in DOMAIN q : q[i] = q[j] => i = j
        /\ \A i \in DOMAIN q : q[i] \in scripts /\ assoc[q[i]] = NoRun
    BY <2>1, <2>3, <2>4
  <2> QED
    BY <1>3, <2>5 DEF DueUnstarted, q
<1> QED
  BY <1>2, <1>3

\* A script that is due to be started has not been.
THEOREM DueUnstartedHolds == ~Meddling /\ Spec => []DueUnstarted
BY InvariantHolds, DueUnstartedFollows, PTL

\* A thread waits, or runs, or is kept by a slot, and only one of these.
LEMMA OneUseFollows == IInv => OneUseOfThread
<1> SUFFICES ASSUME Apart, NEW t \in Thread
             PROVE  LET waits == t \in (waiting \cup due) \ empty
                        runs == \E i \in DOMAIN stack : stack[i].thread = t /\ stack[i].use # "cached"
                        kept == cached[RunOf(t)] = t
                    IN  ~(waits /\ runs) /\ ~(waits /\ kept) /\ ~(runs /\ kept)
  BY DEF IInv, OneUseOfThread
<1>1. RunOf(t) \in Run
  BY RunFacts
<1> QED
  BY <1>1 DEF Apart, OnStack, Waiters

\* No script goes on from a wait that is not over.
THEOREM OneUseOfThreadHolds == ~Meddling /\ Spec => []OneUseOfThread
BY InvariantHolds, OneUseFollows, PTL

\* After closeState no reference is left that names a thread of the state that is gone.
LEMMA ClosedFollows == IInv => ClosedHoldsNothing
BY DEF IInv, Shut, ClosedHoldsNothing, TypeOK

\* A context without a Lua state holds nothing of one.
THEOREM ClosedHoldsNothingHolds == ~Meddling /\ Spec => []ClosedHoldsNothing
BY InvariantHolds, ClosedFollows, PTL

\* A run that was removed while it ran becomes late by a step that calls nothing.
LEMMA CallsOfTheLed ==
  ASSUME ~Meddling, IInv, IInv', [Next]_vars, Len(stack') > Len(stack)
  PROVE  LET r == RunOf(stack'[Len(stack')].thread)
         IN  assoc'[ScriptOf(r)] = r \/ r \in late
<1>1. stack \in Seq(Frame) /\ stack' \in Seq(Frame) /\ TypeOK /\ Apart /\ OnePlace
  BY DEF IInv, TypeOK
<1>2. stack' # stack /\ Len(stack) \in Nat /\ Len(stack') \in Nat
  BY <1>1
<1>3. Len(stack') \in DOMAIN stack'
  BY <1>1, <1>2
<1>4. PICK t \in OnStack' : t = stack'[Len(stack')].thread
  BY <1>3 DEF OnStack
<1>5. assoc'[ScriptOf(RunOf(t))] = RunOf(t) \/ RunOf(t) \in late'
  BY <1>4 DEF IInv, Led, Of
<1>6. late' \subseteq late
  <2>1. ASSUME NEW s \in Script, MoveIn(s) PROVE late' \subseteq late
    <3>1. s \notin scripts
      BY <1>1, <2>1 DEF MoveIn, OnePlace
    <3> QED
      BY <2>1, <3>1 DEF MoveIn, LateAfter
  <2>2. ASSUME NEW s \in Script, MoveOut(s) PROVE FALSE
    BY <1>2, <2>2 DEF MoveOut
  <2>3. CASE SetDisabled \/ StartSimulation \/ StopSimulation \/ Heartbeat \/ UNCHANGED vars
    BY <1>2, <2>3 DEF SetDisabled, StartSimulation, StopSimulation, Heartbeat, vars
  <2>4. CASE StartNext
    BY <2>4 DEF StartNext
  <2>5. CASE StartsDone \/ WaitersDone \/ Connect \/ Delay \/ Close
    BY <1>2, <2>5 DEF StartsDone, WaitersDone, Connect, Delay, Close
  <2>6. ASSUME NEW u \in Thread, Wake(u) PROVE late' \subseteq late
    BY <2>6 DEF Wake, StillLate
  <2>7. ASSUME NEW r \in Run, Fire(r) PROVE late' \subseteq late
    BY <2>7 DEF Fire, StillLate
  <2>8. ASSUME NEW result, Return(result) PROVE FALSE
    <3>1. Len(stack') < Len(stack)
      BY <1>1, <2>8, PopFacts DEF Return, ScriptActs
    <3> QED
      BY <1>2, <3>1
  <2> QED
    BY <2>1, <2>2, <2>3, <2>4, <2>5, <2>6, <2>7, <2>8 DEF Next
<1> QED
  BY <1>4, <1>6, <1>5

\* No thread is resumed of a run that its script is no longer associated with, unless the
\* run was removed while it ran and something of it is left.
THEOREM OwnedRunHolds == ~Meddling /\ Spec => OwnedRun
<1> SUFFICES ASSUME ~Meddling PROVE Spec => OwnedRun
  OBVIOUS
<1>1. IInv /\ IInv' /\ [Next]_vars =>
        [Len(stack') > Len(stack) =>
           LET r == RunOf(stack'[Len(stack')].thread)
           IN  assoc'[ScriptOf(r)] = r \/ r \in late]_vars
  BY CallsOfTheLed
<1>2. Spec => []IInv
  BY InvariantHolds
<1> QED
  BY <1>1, <1>2, PTL DEF Spec, OwnedRun

\* A step starts what is due, or removes it, or leaves it due, unless memory fails.
LEMMA DueStep ==
  ASSUME ~Meddling, IInv, [Next]_vars, NEW s \in Due
  PROVE  s \in Due' \/ assoc'[s] # NoRun \/ s \notin scripts' \/ Spare(Ctx, s) = {}
<1>1. /\ pending \in Seq(Script) /\ Once(pending) /\ todo \in Seq(Script) /\ Once(todo)
      /\ OnePlace /\ DueFresh /\ Owned /\ TypeOK /\ Loops
  BY DEF IInv, TypeOK, Loops
<1>2. ASSUME NEW u, pending' = Append(pending, u)
      PROVE  ToSet(pending)' = ToSet(pending) \cup {u}
  <2> DEFINE q == Append(pending, u)
  <2>1. pending \in Seq(Script \cup {u})
    BY <1>1
  <2>2. ToSet(q) = ToSet(pending) \cup {u}
    BY <1>1, <2>1, AppendOnce
  <2> HIDE DEF q
  <2>3. pending' = q
    BY <1>2 DEF q
  <2>4. ToSet(pending)' = ToSet(q)
    BY <2>3 DEF ToSet
  <2> QED
    BY <2>2, <2>4
<1>3. ASSUME pending' = pending \/ (\E u : pending' = Append(pending, u)), UNCHANGED <<loop, todo>>
      PROVE  s \in Due'
  <2>1. ToSet(pending) \subseteq ToSet(pending)'
    BY <1>2, <1>3 DEF ToSet
  <2>2. ToSet(todo)' = ToSet(todo)
    BY <1>3 DEF ToSet
  <2> QED
    BY <1>3, <2>1, <2>2 DEF Due
<1>4. ASSUME NEW u \in Script, MoveIn(u) PROVE s \in Due'
  <2>1. u \notin scripts
    BY <1>1, <1>4 DEF MoveIn, OnePlace
  <2>2. RemoveScript(Ctx, u) = Ctx /\ UNCHANGED <<loop, todo>>
    BY <1>4, <2>1 DEF RemoveScript, Ctx, MoveIn
  <2>3. CASE SetCtx(Ctx)
    BY <1>3, <2>2, <2>3 DEF SetCtx, Ctx
  <2>4. CASE AddScript(Ctx, u)
    <3>1. pending' = pending \/ Starts(u)
      BY <2>1, <2>4, AddScriptFacts
    <3>2. pending' = pending \/ pending' = Append(pending, u)
      BY <3>1 DEF Starts
    <3> QED
      BY <1>3, <2>2, <3>2
  <2> QED
    BY <1>4, <2>2, <2>3, <2>4 DEF MoveIn
<1>5. ASSUME NEW u \in Script, MoveOut(u) PROVE s \in Due' \/ s \notin scripts'
  <2>1. SetCtx(RemoveScript(Ctx, u)) /\ UNCHANGED <<loop, todo>>
    BY <1>5 DEF MoveOut
  <2>2. ToSet(pending') = ToSet(pending) \ {u} /\ scripts' = scripts \ {u}
    BY <1>1, <2>1, RemoveScriptFacts DEF SetCtx
  <2>3. ToSet(pending)' = ToSet(pending) \ {u} /\ ToSet(todo)' = ToSet(todo)
    BY <2>1, <2>2 DEF ToSet
  <2> QED
    BY <2>1, <2>2, <2>3 DEF Due
<1>6. CASE UNCHANGED <<pending, loop, todo>>
  BY <1>3, <1>6
<1>7. CASE SetDisabled \/ StopSimulation \/ Connect \/ Delay \/ UNCHANGED vars
  BY <1>6, <1>7 DEF SetDisabled, StopSimulation, Connect, Delay, ctxVars, vars
<1>8. CASE \/ \E t \in Thread : Wake(t)
           \/ \E r \in Run : Fire(r)
           \/ \E result \in {"success", "yield", "error"} : Return(result)
  BY <1>6, <1>8 DEF Wake, Fire, Return
<1>9. CASE UNCHANGED pending /\ loop # "pending"
  <2>1. ToSet(pending)' = ToSet(pending) /\ s \in ToSet(pending)
    BY <1>9 DEF ToSet, Due
  <2> QED
    BY <2>1 DEF Due
<1>10. CASE StartSimulation \/ WaitersDone
  BY <1>9, <1>10 DEF StartSimulation, WaitersDone, EngineActs, ctxVars
<1>11. CASE StartsDone
  <2>1. todo = <<>> /\ pending' = pending
    BY <1>11 DEF StartsDone, ctxVars
  <2>2. ToSet(todo) = {} /\ ToSet(pending)' = ToSet(pending)
    BY <2>1 DEF ToSet
  <2> QED
    BY <2>2 DEF Due
<1>12. CASE Heartbeat
  <2>1. loop = "idle"
    BY <1>12 DEF Heartbeat, EngineActs
  <2>2. CASE UNCHANGED pending
    BY <1>9, <2>1, <2>2
  <2>3. CASE loop' = "pending" /\ todo' = pending
    <3>1. ToSet(todo)' = ToSet(pending)
      BY <2>3 DEF ToSet
    <3> QED
      BY <2>1, <2>3, <3>1 DEF Due
  <2> QED
    BY <1>12, <2>2, <2>3 DEF Heartbeat
<1>13. CASE Close
  <2>1. UNCHANGED <<loop, todo>>
    BY <1>13 DEF Close
  <2>2. UNCHANGED pending
    BY <1>13 DEF Close, Disassociate, EraseAllRefs, SetCtx, Ctx
  <2> QED
    BY <1>6, <2>1, <2>2
<1>14. CASE StartNext
  <2> DEFINE u == Head(todo)
  <2>1. /\ loop \in {"start", "pending"} /\ loop' = loop /\ todo # <<>> /\ todo' = Tail(todo)
        /\ IF loop = "start" THEN AddScript(Ctx, u) ELSE StartScript(Ctx, u)
    BY <1>14 DEF StartNext
  <2>2. /\ u \in Script
        /\ ToSet(todo) = ToSet(Tail(todo)) \cup {u} /\ u \notin ToSet(Tail(todo))
    BY <1>1, <2>1, TailOnce
  <2>3. ToSet(todo)' = ToSet(Tail(todo))
    BY <2>1 DEF ToSet
  <2> HIDE DEF u
  <2>4. CASE loop = "start"
    <3>1. u \notin scripts
      BY <1>1, <2>2, <2>4 DEF OnePlace
    <3>2. pending' = pending \/ Starts(u)
      BY <2>1, <2>4, <3>1, AddScriptFacts
    <3>3. pending' = pending \/ pending' = Append(pending, u)
      BY <3>2 DEF Starts
    <3>4. ToSet(pending) \subseteq ToSet(pending)'
      BY <1>2, <3>3 DEF ToSet
    <3> QED
      BY <2>1, <2>4, <3>4 DEF Due
  <2>5. CASE loop = "pending"
    <3>1. Starts(u)
      BY <2>1, <2>5, StartScriptFacts
    <3>2. CASE pending' = Append(pending, u)
      <4>1. ToSet(pending)' = ToSet(pending) \cup {u}
        BY <1>2, <3>2
      <4> QED
        BY <2>1, <2>2, <2>3, <2>5, <4>1 DEF Due
    <3>3. CASE pending' = pending /\ Spare(Ctx, u) = {}
      <4>1. ToSet(pending)' = ToSet(pending)
        BY <3>3 DEF ToSet
      <4> QED
        BY <2>1, <2>2, <2>3, <2>5, <3>3, <4>1 DEF Due
    <3>4. CASE pending' = pending /\ \E r \in Run : assoc' = [assoc EXCEPT ![u] = r]
      <4>1. assoc'[u] # NoRun
        BY <1>1, <2>2, <3>4, RunFacts DEF TypeOK
      <4>2. ToSet(pending)' = ToSet(pending)
        BY <3>4 DEF ToSet
      <4> QED
        BY <2>1, <2>2, <2>3, <2>5, <4>1, <4>2 DEF Due
    <3> QED
      BY <3>1, <3>2, <3>3, <3>4 DEF Starts
  <2> QED
    BY <2>1, <2>4, <2>5
<1> QED
  BY <1>4, <1>5, <1>7, <1>8, <1>10, <1>11, <1>12, <1>13, <1>14 DEF Next

\* What is due to be started stays so until it is started or removed, or memory fails.
THEOREM DueKeptHolds == ~Meddling /\ Spec => DueKept
<1> SUFFICES ASSUME ~Meddling PROVE Spec => DueKept
  OBVIOUS
<1>1. IInv /\ [Next]_vars =>
        [\A s \in Due : s \in Due' \/ assoc'[s] # NoRun \/ s \notin scripts' \/ Spare(Ctx, s) = {}]_vars
  BY DueStep
<1>2. Spec => []IInv
  BY InvariantHolds
<1> QED
  BY <1>1, <1>2, PTL DEF Spec, DueKept

\* Only a script without a run is given one by a loop.
LEMMA StartedOnceStep ==
  ASSUME ~Meddling, IInv, [Next]_vars, NEW s \in Script, inWorld' = inWorld, assoc[s] # NoRun
  PROVE  assoc'[s] \in {NoRun, assoc[s]}
<1>1. /\ OnePlace /\ DueFresh /\ Owned /\ TypeOK /\ Loops
      /\ todo \in Seq(Script) /\ Once(todo)
  BY DEF IInv, TypeOK, Loops
<1>2. ASSUME NEW u \in Script, MoveIn(u) \/ MoveOut(u) PROVE FALSE
  BY <1>2 DEF MoveIn, MoveOut
<1>3. CASE UNCHANGED assoc
  BY <1>3
<1>4. CASE \/ SetDisabled \/ StopSimulation \/ StartSimulation \/ Heartbeat \/ StartsDone
           \/ WaitersDone \/ Connect \/ Delay \/ UNCHANGED vars
  BY <1>3, <1>4 DEF SetDisabled, StopSimulation, StartSimulation, Heartbeat, StartsDone,
                    WaitersDone, Connect, Delay, ctxVars, vars
<1>5. CASE \/ \E t \in Thread : Wake(t)
           \/ \E r \in Run : Fire(r)
           \/ \E result \in {"success", "yield", "error"} : Return(result)
  BY <1>3, <1>5 DEF Wake, Fire, Return
<1>6. CASE Close
  <2> DEFINE A == [u \in Script |-> IF u \in scripts THEN NoRun ELSE assoc[u]]
  <2>1. assoc' = A
    BY <1>6 DEF Close, Disassociate, EraseAllRefs, SetCtx, Ctx
  <2> QED
    BY <2>1
<1>7. CASE StartNext
  <2> DEFINE u == Head(todo)
  <2>1. /\ loop \in {"start", "pending"} /\ todo # <<>>
        /\ IF loop = "start" THEN AddScript(Ctx, u) ELSE StartScript(Ctx, u)
    BY <1>7 DEF StartNext
  <2>2. u \in Script /\ u \in ToSet(todo)
    BY <1>1, <2>1, TailOnce
  <2> HIDE DEF u
  <2>3. CASE loop = "start"
    <3>1. u \notin scripts
      BY <1>1, <2>2, <2>3 DEF OnePlace
    <3>2. UNCHANGED assoc \/ Starts(u)
      BY <2>1, <2>3, <3>1, AddScriptFacts
    <3>3. assoc[u] = NoRun
      BY <1>1, <2>2, <3>1 DEF Owned
    <3> QED
      BY <1>1, <3>2, <3>3 DEF Starts, TypeOK
  <2>4. CASE loop = "pending"
    <3>1. Starts(u) /\ assoc[u] = NoRun
      BY <1>1, <2>1, <2>2, <2>4, StartScriptFacts DEF DueFresh, Due
    <3> QED
      BY <1>1, <3>1 DEF Starts, TypeOK
  <2> QED
    BY <2>1, <2>3, <2>4
<1> QED
  BY <1>2, <1>4, <1>5, <1>6, <1>7 DEF Next

\* Unless a script moves one that a loop is about to start, no script is started twice:
\* such a move is the only way to the failure of the assertion in startScript.
THEOREM StartedOnceHolds == ~Meddling /\ Spec => StartedOnce
<1> SUFFICES ASSUME ~Meddling PROVE Spec => StartedOnce
  OBVIOUS
<1>1. IInv /\ [Next]_vars =>
        [\A s \in Script : inWorld' = inWorld /\ assoc[s] # NoRun => assoc'[s] \in {NoRun, assoc[s]}]_vars
  BY StartedOnceStep
<1>2. Spec => []IInv
  BY InvariantHolds
<1> QED
  BY <1>1, <1>2, PTL DEF Spec, StartedOnce
=============================================================================
