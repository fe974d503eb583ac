--------------------------- MODULE SleepStageProofs ---------------------------
(***************************************************************************)
(* Theorems of SleepStage, for any assemblies and edges.                   *)
(*                                                                         *)
(* The handlers are functions from what the stages share (Pipe) to what    *)
(* they share afterwards. The lemmas say of each such function what it     *)
(* keeps and what it moves, from the walk of wakeAssemblyAndNeighbors at   *)
(* the bottom to Withdraw and EnterJoint at the top; the theorems follow   *)
(* action by action.                                                       *)
(***************************************************************************)
EXTENDS SleepStage, SequenceFacts, TLAPS

PipeType == [status : [Asm -> Status], stage : [Edge -> Stage],
             stepping : SUBSET Contact, collides : SUBSET Contact]

\* A pipe as the handlers find it: what is anchored does not sleep.
Sound(P) == P \in PipeType /\ \A a \in Anchored : P.status[a] = "awake"

\* KernelExactly of a pipe, but for the edges of X.
Exact(P, X) ==
  \A e \in Edge \ X : P.stage[e] \in Low =>
    (P.stage[e] = "kernel" <=> \E a \in Ends[e] : Moving(P, a))

Woken(P, Q, a) == P.status[a] # "awake" /\ Q.status[a] = "awake"

\* Nobody is put to sleep, or deeper to sleep.
StaysAwake(P, Q) ==
  \A a \in Asm : /\ P.status[a] = "awake" => Q.status[a] = "awake"
                 /\ Q.status[a] = "deep" => P.status[a] = "deep"

\* An assembly beside one that is woken is awake, or where waking ended it is
\* looked at again.
WokenIn(P, Q) == {a \in Asm : Woken(P, Q, a)}
Minds(P, Q, b) ==
  \/ Q.status[b] = "awake"
  \/ Q.status[b] = "checking" /\ Cardinality(WokenIn(P, Q)) > WakeDepth

\* LosingWakes and WakingSpreads from pipe to pipe.
Loses(P, Q) ==
  \A e \in Edge : P.stage[e] \in Low /\ Q.stage[e] \notin Low =>
    \A a \in Ends[e] : Q.status[a] = "awake"
Spreads(P, Q) ==
  \A e \in Edge : Q.stage[e] \in Low =>
    \A a, b \in Ends[e] : Woken(P, Q, a) => Minds(P, Q, b)

\* A contact that is not stepped afterwards was not before, nothing it waits for
\* has come, and no end of it was woken.
Resumes(P, Q) ==
  \A c \in Contact : Q.stage[c] = "collision" /\ c \notin Q.stepping =>
    /\ P.stage[c] = "collision" /\ c \notin P.stepping
    /\ \A j \in Joint : c \in Over[j] /\ P.stage[j] \in Down => Q.stage[j] \in Down
    /\ \A a \in Ends[c] : ~Woken(P, Q, a)

\* An edge stays in its stage or comes down from SleepStage to the kernel.
Follows(P, Q, e) ==
  Q.stage[e] = P.stage[e] \/ (P.stage[e] = "sleep" /\ Q.stage[e] = "kernel")

\* Or it is raised.
Goes(P, Q, e) ==
  Follows(P, Q, e) \/ (P.stage[e] \in Low /\ Q.stage[e] = "collision")

\* What steps afterwards stepped before or is in CollisionStage; it is not
\* forgotten.
StepsOn(P, Q) ==
  /\ P.stepping \subseteq Q.stepping
  /\ \A c \in Q.stepping \ P.stepping : Q.stage[c] = "collision"

\* What every handler leaves as it should be.
Kept(P, Q) ==
  /\ Sound(Q) /\ Exact(Q, {})
  /\ StaysAwake(P, Q) /\ Loses(P, Q) /\ Spreads(P, Q)

-----------------------------------------------------------------------------
\* An edge has two ends, and they are assemblies.
LEMMA EndsAreTwo ==
  ASSUME NEW e \in Edge
  PROVE  /\ Ends[e] \subseteq Asm
         /\ \E a, b \in Asm : a # b /\ Ends[e] = {a, b}
BY SleepStageAssumption

-----------------------------------------------------------------------------
\* The walks of wakeAssemblyAndNeighbors: the recursive functions of the module
\* exist, step by step, and what they come to.

\* An asleep neighbour of x waits outside R.
Stuck(P, x, R) ==
  \E e \in Edge : P.stage[e] = "sleep" /\ x \in Ends[e] /\ ~(Asleep(P, e) \subseteq R)

\* R is what a walk from a makes of W when it may go d links far: it wakes
\* sleepers only, and one that it leaves beside a sleeper stands at the end of more
\* than d that it woke.
Walked(P, W, a, R, d) ==
  /\ R \in SUBSET Asm /\ W \subseteq R /\ a \in R
  /\ \A x \in R : x \in W \/ x = a \/ P.status[x] # "awake"
  /\ \A x \in (R \ W) \cup {a} : Stuck(P, x, R) => Cardinality((R \ W) \cup {a}) >= d + 1

Walks == [Asm -> [SUBSET Asm -> SUBSET Asm]]

LEMMA OrderFacts ==
  /\ Len(EdgeOrder) \in Nat /\ Len(AsmOrder) \in Nat
  /\ \A k \in 1..Len(EdgeOrder) : EdgeOrder[k] \in Edge
  /\ \A k \in 1..Len(AsmOrder) : AsmOrder[k] \in Asm
  /\ \A e \in Edge : \E k \in 1..Len(EdgeOrder) : EdgeOrder[k] = e
  /\ \A a \in Asm : \E k \in 1..Len(AsmOrder) : AsmOrder[k] = a
<1>1. EdgeOrder \in Seq(Edge) /\ AsmOrder \in Seq(Asm)
  BY SleepStageAssumption DEF Enumerates
<1> QED
  BY <1>1, SleepStageAssumption DEF Enumerates

\* A walk passes the edges one by one, past[k] being awake after k of them.
Passes(P, go, W, a, past, R) ==
  /\ past \in [0..Len(EdgeOrder) -> SUBSET Asm]
  /\ past[0] = W \cup {a}
  /\ \A k \in 1..Len(EdgeOrder) :
       past[k] = past[k - 1] \cup
         UNION {go[b][past[k - 1]] : b \in Beyond(P, a, EdgeOrder[k], past[k - 1])}
  /\ R = past[Len(EdgeOrder)]

LEMMA AlongStepwise ==
  ASSUME NEW P, NEW go \in Walks, NEW W \in SUBSET Asm, NEW a \in Asm
  PROVE  \E past : Passes(P, go, W, a, past, Along(P, go, W, a))
<1> DEFINE N == Len(EdgeOrder)
           V == SUBSET Asm
           i == W \cup {a}
           G(k, L) == L \cup UNION {go[b][L] : b \in Beyond(P, a, EdgeOrder[k], L)}
           F == [k \in 1..N |-> [L \in V |-> G(k, L)]]
           Eq(f) == f = [k \in 0..N |-> IF k = 0 THEN i ELSE G(k, f[k - 1])]
           past == CHOOSE f : Eq(f)
<1>1. N \in Nat
  BY OrderFacts
<1>2. i \in V
  OBVIOUS
<1>3. ASSUME NEW k \in 1..N, NEW L \in V PROVE G(k, L) \in V
  <2>1. \A b \in Beyond(P, a, EdgeOrder[k], L) : go[b][L] \subseteq Asm
    <3>1. \A b \in Beyond(P, a, EdgeOrder[k], L) : b \in Asm
      BY OrderFacts, EndsAreTwo DEF Beyond, Asleep
    <3> QED
      BY <3>1 DEF Walks
  <2> QED
    BY <2>1
<1>4. F \in [1..N -> [V -> V]]
  BY <1>3
<1>5. Along(P, go, W, a) = past[N]
  BY DEF Along
<1> HIDE DEF N, G
<1>6. PICK g \in [0..N -> V] : g[0] = i /\ \A k \in 1..N : g[k] = G(k, g[k - 1])
  <2>1. \A k \in 1..N : \A L \in V : F[k][L] = G(k, L)
    OBVIOUS
  <2> HIDE DEF F, i, V
  <2>2. PICK g : Stepwise(g, V, F, i, N)
    BY <1>1, <1>2, <1>4, StepsExist
  <2>3. \A k \in 1..N : k - 1 \in 0..N
    BY <1>1
  <2> QED
    BY <2>1, <2>2, <2>3 DEF Stepwise
<1> HIDE DEF F, i
<1>7. Eq(g)
  <2>1. ASSUME NEW k \in 0..N PROVE g[k] = IF k = 0 THEN i ELSE G(k, g[k - 1])
    <3>1. k = 0 \/ k \in 1..N
      BY <1>1
    <3> QED
      BY <1>1, <1>6, <3>1
  <2> QED
    BY <1>6, <2>1
<1>8. Eq(past)
  <2> HIDE DEF Eq
  <2> QED
    BY <1>7
<1> HIDE DEF past
<1>9. past[0] = i /\ \A k \in 1..N : past[k] = G(k, past[k - 1])
  <2>1. 0 \in 0..N /\ \A k \in 1..N : k \in 0..N /\ k # 0
    BY <1>1
  <2> QED
    BY <1>8, <2>1
<1>10. past \in [0..N -> V]
  <2> DEFINE K == {k \in 0..N : past[k] \in V}
  <2>1. 0 \in K
    BY <1>1, <1>2, <1>9
  <2>2. \A k \in 1..N : k - 1 \in K => k \in K
    BY <1>1, <1>3, <1>9
  <2> HIDE DEF K
  <2>3. \A k \in 0..N : k \in K
    BY <1>1, <2>1, <2>2, UpTo
  <2>4. past = [k \in 0..N |-> past[k]]
    BY <1>8
  <2> QED
    BY <2>3, <2>4 DEF K
<1> HIDE DEF Eq
<1>11. Passes(P, go, W, a, past, Along(P, go, W, a))
  BY <1>5, <1>9, <1>10 DEF i, N, G, Passes
<1> QED
  BY <1>11

\* A walk whose further calls may go d links goes d + 1.
LEMMA AlongWalks ==
  ASSUME NEW P, NEW go \in Walks, NEW d \in Nat, NEW W \in SUBSET Asm, NEW a \in Asm,
         \A b \in Asm : \A V \in SUBSET Asm : Walked(P, V, b, go[b][V], d)
  PROVE  Walked(P, W, a, Along(P, go, W, a), d + 1)
<1> DEFINE N == Len(EdgeOrder)
           R == Along(P, go, W, a)
<1>1. N \in Nat /\ \A k \in 1..N : EdgeOrder[k] \in Edge
  BY OrderFacts
<1>p. PICK past : Passes(P, go, W, a, past, R)
  BY AlongStepwise
<1>2. /\ past \in [0..N -> SUBSET Asm]
      /\ past[0] = W \cup {a}
      /\ \A k \in 1..N : past[k] = past[k - 1] \cup
           UNION {go[b][past[k - 1]] : b \in Beyond(P, a, EdgeOrder[k], past[k - 1])}
      /\ R = past[N]
  BY <1>p DEF Passes
<1>3. \A e \in Edge : \E k \in 1..N : EdgeOrder[k] = e
  BY OrderFacts
<1>4. \A k \in 1..N : \A b \in Beyond(P, a, EdgeOrder[k], past[k - 1]) :
        b \in Asm /\ b \notin past[k - 1] /\ P.status[b] # "awake"
  BY <1>1, EndsAreTwo DEF Beyond, Asleep
<1> HIDE DEF N, R
<1> DEFINE Entered(m, x) == \E k \in 1..m : \E b \in Beyond(P, a, EdgeOrder[k], past[k - 1]) :
                              x \in go[b][past[k - 1]] /\ x \notin past[k - 1]
           Good(m) == /\ W \cup {a} \subseteq past[m]
                      /\ \A k \in 0..m : past[k] \subseteq past[m]
                      /\ \A x \in past[m] : x \in W \/ x = a \/ Entered(m, x)
           K == {m \in 0..N : Good(m)}
<1>5. 0 \in K
  BY <1>1, <1>2
<1>6. ASSUME NEW m \in 1..N, m - 1 \in K PROVE m \in K
  <2>1. m \in 0..N /\ m - 1 \in 0..N /\ \A k \in 0..m : k = m \/ k \in 0..(m - 1)
    BY <1>1
  <2>2. past[m - 1] \subseteq past[m]
    BY <1>2
  <2>3. W \cup {a} \subseteq past[m] /\ \A k \in 0..m : past[k] \subseteq past[m]
    BY <1>6, <2>1, <2>2
  <2>4. ASSUME NEW x \in past[m] PROVE x \in W \/ x = a \/ Entered(m, x)
    <3>1. CASE x \in past[m - 1]
      <4>1. x \in W \/ x = a \/ Entered(m - 1, x)
        BY <1>6, <3>1
      <4>2. \A k \in 1..(m - 1) : k \in 1..m
        BY <1>1
      <4> QED
        BY <4>1, <4>2
    <3>2. CASE x \notin past[m - 1]
      <4>1. PICK b \in Beyond(P, a, EdgeOrder[m], past[m - 1]) : x \in go[b][past[m - 1]]
        BY <1>2, <2>4, <3>2
      <4>2. m \in 1..m
        BY <1>1
      <4> QED
        BY <3>2, <4>1, <4>2
    <3> QED
      BY <3>1, <3>2
  <2> HIDE DEF Entered
  <2> QED
    BY <2>1, <2>3, <2>4
<1> HIDE DEF K
<1>7. N \in 0..N /\ N \in K
  <2>1. \A m \in 0..N : m \in K
    BY <1>1, <1>5, <1>6, UpTo
  <2> QED
    BY <1>1, <2>1
<1>8. /\ W \cup {a} \subseteq R /\ \A k \in 0..N : past[k] \subseteq R
      /\ \A x \in R : x \in W \/ x = a \/ Entered(N, x)
      /\ R \in SUBSET Asm
  BY <1>2, <1>7 DEF K
<1> HIDE DEF Entered, K
\* What a further call wakes is asleep and stays woken.
<1>9. ASSUME NEW k \in 1..N, NEW b \in Beyond(P, a, EdgeOrder[k], past[k - 1])
      PROVE  /\ past[k - 1] \in SUBSET Asm /\ W \cup {a} \subseteq past[k - 1]
             /\ b \in Asm /\ b \notin past[k - 1] /\ P.status[b] # "awake"
             /\ Walked(P, past[k - 1], b, go[b][past[k - 1]], d)
             /\ go[b][past[k - 1]] \subseteq R
  <2>1. k \in 0..N /\ k - 1 \in 0..N
    BY <1>1
  <2>2. W \cup {a} \subseteq past[k - 1]
    <3>1. \A m \in 0..N : m \in K
      BY <1>1, <1>5, <1>6, UpTo
    <3> QED
      BY <2>1, <3>1 DEF K
  <2>3. go[b][past[k - 1]] \subseteq past[k]
    BY <1>2
  <2> QED
    BY <1>2, <1>4, <1>8, <2>1, <2>2, <2>3
<1>10. ASSUME NEW x \in R PROVE x \in W \/ x = a \/ P.status[x] # "awake"
  <2>1. CASE Entered(N, x)
    <3>1. PICK k \in 1..N : \E b \in Beyond(P, a, EdgeOrder[k], past[k - 1]) :
                              x \in go[b][past[k - 1]] /\ x \notin past[k - 1]
      BY <2>1 DEF Entered
    <3>2. PICK b \in Beyond(P, a, EdgeOrder[k], past[k - 1]) :
                              x \in go[b][past[k - 1]] /\ x \notin past[k - 1]
      BY <3>1
    <3> QED
      BY <1>9, <3>2 DEF Walked
  <2> QED
    BY <1>8, <2>1
<1>11. ASSUME NEW x \in (R \ W) \cup {a}, Stuck(P, x, R)
       PROVE  Cardinality((R \ W) \cup {a}) >= (d + 1) + 1
  <2>1. PICK e \in Edge : P.stage[e] = "sleep" /\ x \in Ends[e] /\ ~(Asleep(P, e) \subseteq R)
    BY <1>11 DEF Stuck
  <2>2. PICK y \in Asleep(P, e) : y \notin R
    BY <2>1
  <2>3. x # a
    <3> SUFFICES ASSUME x = a PROVE FALSE
      OBVIOUS
    <3>1. PICK k \in 1..N : EdgeOrder[k] = e
      BY <1>3
    <3>2. k - 1 \in 0..N
      BY <1>1
    <3>3. y \in Beyond(P, a, EdgeOrder[k], past[k - 1])
      BY <1>8, <2>1, <2>2, <3>1, <3>2 DEF Beyond
    <3>4. y \in go[y][past[k - 1]] /\ go[y][past[k - 1]] \subseteq R
      BY <1>9, <3>3 DEF Walked
    <3> QED
      BY <2>2, <3>4
  <2>4. x \in R /\ x \notin W /\ Entered(N, x)
    BY <1>8, <2>3
  <2>5. PICK k \in 1..N : \E b \in Beyond(P, a, EdgeOrder[k], past[k - 1]) :
                            x \in go[b][past[k - 1]] /\ x \notin past[k - 1]
    BY <2>4 DEF Entered
  <2>6. PICK b \in Beyond(P, a, EdgeOrder[k], past[k - 1]) :
          x \in go[b][past[k - 1]] /\ x \notin past[k - 1]
    BY <2>5
  <2> DEFINE L == past[k - 1]
             B == (go[b][L] \ L) \cup {b}
  <2>7. /\ L \in SUBSET Asm /\ W \cup {a} \subseteq L /\ b \in Asm /\ b \notin L
        /\ Walked(P, L, b, go[b][L], d) /\ go[b][L] \subseteq R
        /\ x \in go[b][L] /\ x \notin L
    BY <1>9, <2>6
  <2> HIDE DEF L
  <2>8. Stuck(P, x, go[b][L])
    BY <2>1, <2>2, <2>7 DEF Stuck
  <2>9. Cardinality(B) >= d + 1
    BY <2>7, <2>8 DEF Walked
  <2>10. B \subseteq Asm /\ a \notin B /\ B \cup {a} \subseteq (R \ W) \cup {a}
    BY <2>7 DEF Walked
  <2> HIDE DEF B
  <2>11. IsFiniteSet(B) /\ IsFiniteSet((R \ W) \cup {a})
    <3>1. (R \ W) \cup {a} \subseteq Asm
      BY <1>8
    <3> QED
      BY <3>1, <2>10, FS_Subset, SleepStageAssumption
  <2>12. Cardinality(B \cup {a}) = Cardinality(B) + 1
    BY <2>10, <2>11, FS_AddElement
  <2>13. Cardinality(B \cup {a}) <= Cardinality((R \ W) \cup {a})
    BY <2>10, <2>11, FS_Subset
  <2>14. Cardinality(B) \in Nat /\ Cardinality((R \ W) \cup {a}) \in Nat
    BY <2>11, FS_CardinalityType
  <2> QED
    BY <2>9, <2>12, <2>13, <2>14
<1> QED
  BY <1>8, <1>10, <1>11 DEF Walked, R

\* wakeAssemblyAndNeighbors(a, d), whatever is awake by then.
LEMMA WakeWalks ==
  ASSUME NEW P, NEW d \in Nat
  PROVE  \A a \in Asm : \A W \in SUBSET Asm : Walked(P, W, a, WakeNeighbors(P, d)[a][W], d)
<1> DEFINE V == Walks
           i == [a \in Asm |-> [W \in SUBSET Asm |-> W \cup {a}]]
           G(go) == [a \in Asm |-> [W \in SUBSET Asm |-> Along(P, go, W, a)]]
           F == [n \in 1..d |-> [go \in V |-> G(go)]]
           Eq(f) == f = [n \in 0..d |-> IF n = 0 THEN i ELSE G(f[n - 1])]
           wake == CHOOSE f : Eq(f)
<1>1. i \in V
  BY DEF Walks
<1>2. ASSUME NEW go \in V PROVE G(go) \in V
  <2>1. \A a \in Asm : \A W \in SUBSET Asm : Along(P, go, W, a) \in SUBSET Asm
    <3> SUFFICES ASSUME NEW a \in Asm, NEW W \in SUBSET Asm
                 PROVE  Along(P, go, W, a) \in SUBSET Asm
      OBVIOUS
    <3>1. PICK past : Passes(P, go, W, a, past, Along(P, go, W, a))
      BY AlongStepwise
    <3>2. Len(EdgeOrder) \in 0..Len(EdgeOrder)
      BY OrderFacts
    <3> QED
      BY <3>1, <3>2 DEF Passes
  <2> QED
    BY <2>1 DEF Walks
<1>3. F \in [1..d -> [V -> V]]
  BY <1>2
<1>4. WakeNeighbors(P, d) = wake[d]
  BY DEF WakeNeighbors
<1>5. PICK g \in [0..d -> V] : g[0] = i /\ \A n \in 1..d : g[n] = G(g[n - 1])
  <2>1. \A n \in 1..d : \A go \in V : F[n][go] = G(go)
    OBVIOUS
  <2> HIDE DEF F, i, V, G
  <2>2. PICK g : Stepwise(g, V, F, i, d)
    BY <1>1, <1>3, StepsExist
  <2>3. \A n \in 1..d : n - 1 \in 0..d
    OBVIOUS
  <2> QED
    BY <2>1, <2>2, <2>3 DEF Stepwise
<1> HIDE DEF F
<1>6. Eq(g)
  <2>1. ASSUME NEW n \in 0..d
        PROVE  g[n] = IF n = 0 THEN i ELSE G(g[n - 1])
    <3> HIDE DEF i, G
    <3>1. CASE n = 0
      BY <1>5, <3>1
    <3>2. CASE n \in 1..d
      BY <1>5, <3>2
    <3> QED
      BY <3>1, <3>2
  <2> QED
    BY <1>5, <2>1
<1>7. Eq(wake)
  <2> HIDE DEF Eq
  <2> QED
    BY <1>6
<1> HIDE DEF wake
<1>8. wake[0] = i /\ \A n \in 1..d : wake[n] = G(wake[n - 1])
  <2>1. 0 \in 0..d /\ \A n \in 1..d : n \in 0..d /\ n # 0
    OBVIOUS
  <2> HIDE DEF i, G
  <2> QED
    BY <1>7, <2>1
<1> HIDE DEF Eq
<1> DEFINE Good(n) == wake[n] \in V /\ \A a \in Asm : \A W \in SUBSET Asm : Walked(P, W, a, wake[n][a][W], n)
           K == {n \in 0..d : Good(n)}
<1>9. 0 \in K
  <2>1. wake[0] = i /\ 0 \in 0..d
    BY <1>8
  <2>2. ASSUME NEW a \in Asm, NEW W \in SUBSET Asm PROVE Walked(P, W, a, W \cup {a}, 0)
    <3>1. ((W \cup {a}) \ W) \cup {a} = {a}
      OBVIOUS
    <3>2. Cardinality({a}) = 1
      BY FS_Singleton
    <3>3. Cardinality(((W \cup {a}) \ W) \cup {a}) >= 0 + 1
      BY <3>1, <3>2
    <3> QED
      BY <3>3 DEF Walked
  <2>3. \A a \in Asm : \A W \in SUBSET Asm : wake[0][a][W] = W \cup {a}
    BY <2>1
  <2> QED
    BY <1>1, <2>1, <2>2, <2>3
<1>10. ASSUME NEW n \in 1..d, n - 1 \in K PROVE n \in K
  <2>1. wake[n] = G(wake[n - 1])
    BY <1>8
  <2>2. n - 1 \in Nat /\ wake[n - 1] \in V
        /\ \A a \in Asm : \A W \in SUBSET Asm : Walked(P, W, a, wake[n - 1][a][W], n - 1)
    BY <1>10
  <2>3. ASSUME NEW a \in Asm, NEW W \in SUBSET Asm
        PROVE  Walked(P, W, a, Along(P, wake[n - 1], W, a), n)
    <3>1. Walked(P, W, a, Along(P, wake[n - 1], W, a), (n - 1) + 1)
      BY <2>2, AlongWalks
    <3>2. (n - 1) + 1 = n
      OBVIOUS
    <3> QED
      BY <3>1, <3>2
  <2>4. wake[n] \in V
    BY <1>2, <2>1, <2>2
  <2>5. \A a \in Asm : \A W \in SUBSET Asm : wake[n][a][W] = Along(P, wake[n - 1], W, a)
    BY <2>1
  <2> QED
    BY <2>3, <2>4, <2>5
<1> HIDE DEF K, Good
<1>11. d \in K
  <2>1. \A n \in 0..d : n \in K
    BY <1>9, <1>10, UpTo
  <2> QED
    BY <2>1
<1> QED
  BY <1>4, <1>11 DEF K, Good

\* Whom a handler wakes that calls for S: sleepers, S among them; and where it
\* leaves a sleeper beside one of them it has gone as far as it may.
LEMMA AwokenFacts ==
  ASSUME NEW P, NEW S \in SUBSET Asm, \A a \in S : P.status[a] # "awake", NEW W \in {S, {}}
  PROVE  LET R == Awoken(P, S, W)
         IN  /\ S \subseteq R /\ R \in SUBSET Asm
             /\ \A a \in R : P.status[a] # "awake"
             /\ \A x \in R : Stuck(P, x, R) => Cardinality(R) > WakeDepth
<1> DEFINE N == Len(AsmOrder)
           V == SUBSET Asm
           wake == WakeNeighbors(P, WakeDepth)
           called(k, L) == AsmOrder[k] \in S /\ (AsmOrder[k] \in W \/ AsmOrder[k] \notin L)
           G(k, L) == IF called(k, L) THEN wake[AsmOrder[k]][L] ELSE L
           F == [k \in 1..N |-> [L \in V |-> G(k, L)]]
           Eq(f) == f = [k \in 0..N |-> IF k = 0 THEN W ELSE G(k, f[k - 1])]
           past == CHOOSE f : Eq(f)
<1>1. /\ N \in Nat /\ \A k \in 1..N : AsmOrder[k] \in Asm
      /\ \A a \in Asm : \E k \in 1..N : AsmOrder[k] = a
  BY OrderFacts
<1>2. W \in V /\ W \subseteq S
  OBVIOUS
<1>3. \A a \in Asm : \A L \in V : Walked(P, L, a, wake[a][L], WakeDepth)
  BY WakeWalks, SleepStageAssumption
<1>4. Awoken(P, S, W) = past[N]
  BY DEF Awoken
<1> HIDE DEF wake, N
<1>5. ASSUME NEW k \in 1..N, NEW L \in V PROVE G(k, L) \in V /\ L \subseteq G(k, L)
  BY <1>1, <1>3 DEF Walked
<1>6. F \in [1..N -> [V -> V]]
  BY <1>5
<1> HIDE DEF G
<1>7. PICK g \in [0..N -> V] : g[0] = W /\ \A k \in 1..N : g[k] = G(k, g[k - 1])
  <2>1. \A k \in 1..N : \A L \in V : F[k][L] = G(k, L)
    OBVIOUS
  <2> HIDE DEF F, V
  <2>2. PICK g : Stepwise(g, V, F, W, N)
    BY <1>1, <1>2, <1>6, StepsExist
  <2>3. \A k \in 1..N : k - 1 \in 0..N
    BY <1>1
  <2> QED
    BY <2>1, <2>2, <2>3 DEF Stepwise
<1> HIDE DEF F
<1>8. Eq(g)
  <2>1. ASSUME NEW k \in 0..N PROVE g[k] = IF k = 0 THEN W ELSE G(k, g[k - 1])
    <3>1. k = 0 \/ k \in 1..N
      BY <1>1
    <3> QED
      BY <1>1, <1>7, <3>1
  <2> QED
    BY <1>7, <2>1
<1>9. Eq(past)
  <2> HIDE DEF Eq
  <2> QED
    BY <1>8
<1> HIDE DEF past
<1>10. past[0] = W /\ \A k \in 1..N : past[k] = G(k, past[k - 1])
  <2>1. 0 \in 0..N /\ \A k \in 1..N : k \in 0..N /\ k # 0
    BY <1>1
  <2> QED
    BY <1>9, <2>1
<1> HIDE DEF Eq
\* From here on as for one walk: what is woken stays so, and came by some call.
<1> DEFINE By(k, x) == called(k, past[k - 1]) /\ x \in wake[AsmOrder[k]][past[k - 1]] /\ x \notin past[k - 1]
           Entered(m, x) == \E k \in 1..m : By(k, x)
           Good(m) == /\ past[m] \in V
                      /\ \A k \in 0..m : past[k] \subseteq past[m]
                      /\ \A x \in past[m] : x \in W \/ Entered(m, x)
           K == {m \in 0..N : Good(m)}
<1>11. 0 \in K
  BY <1>1, <1>2, <1>10
<1>12. ASSUME NEW m \in 1..N, m - 1 \in K PROVE m \in K
  <2>1. m \in 0..N /\ m - 1 \in 0..N /\ \A k \in 0..m : k = m \/ k \in 0..(m - 1)
    BY <1>1
  <2>2. past[m] \in V /\ past[m - 1] \subseteq past[m]
    BY <1>5, <1>10, <1>12
  <2>3. \A k \in 0..m : past[k] \subseteq past[m]
    BY <1>12, <2>1, <2>2
  <2>4. ASSUME NEW x \in past[m] PROVE x \in W \/ Entered(m, x)
    <3>1. CASE x \in past[m - 1]
      <4>1. x \in W \/ Entered(m - 1, x)
        BY <1>12, <3>1
      <4>2. \A k \in 1..(m - 1) : k \in 1..m
        BY <1>1
      <4> HIDE DEF By
      <4> QED
        BY <4>1, <4>2
    <3>2. CASE x \notin past[m - 1]
      <4>1. By(m, x)
        BY <1>10, <2>4, <3>2 DEF G
      <4>2. m \in 1..m
        BY <1>1
      <4> HIDE DEF By
      <4> QED
        BY <4>1, <4>2
    <3> QED
      BY <3>1, <3>2
  <2> HIDE DEF Entered
  <2> QED
    BY <2>1, <2>2, <2>3, <2>4
<1> HIDE DEF K
<1>13. \A m \in 0..N : m \in K
  BY <1>1, <1>11, <1>12, UpTo
<1> DEFINE R == past[N]
<1>14. /\ R \in V /\ \A k \in 0..N : past[k] \subseteq R
       /\ \A x \in R : x \in W \/ Entered(N, x)
  <2>1. N \in 0..N
    BY <1>1
  <2> QED
    BY <1>13, <2>1 DEF K
\* A call of one of S.
<1>15. ASSUME NEW k \in 1..N, called(k, past[k - 1])
       PROVE  LET a == AsmOrder[k]
                  L == past[k - 1]
              IN  /\ a \in S /\ L \in V /\ Walked(P, L, a, wake[a][L], WakeDepth)
                  /\ wake[a][L] \subseteq R
  <2>1. k - 1 \in 0..N /\ k \in 0..N
    BY <1>1
  <2>2. past[k - 1] \in V
    BY <1>13, <2>1 DEF K
  <2>3. past[k] = wake[AsmOrder[k]][past[k - 1]]
    BY <1>10, <1>15 DEF G
  <2> QED
    BY <1>1, <1>3, <1>14, <1>15, <2>1, <2>2, <2>3
<1> HIDE DEF K, R
<1>16. ASSUME NEW a \in S PROVE a \in R
  <2>1. PICK k \in 1..N : AsmOrder[k] = a
    BY <1>1
  <2>2. CASE called(k, past[k - 1])
    BY <1>15, <2>1, <2>2 DEF Walked
  <2>3. CASE ~called(k, past[k - 1])
    <3>1. k - 1 \in 0..N
      BY <1>1
    <3> QED
      BY <1>14, <2>1, <2>3, <3>1
  <2> QED
    BY <2>2, <2>3
\* Whoever is woken is so after some call, from which it was walked to.
<1>17. ASSUME NEW x \in R
       PROVE  \E k \in 1..N : /\ called(k, past[k - 1])
                              /\ x \in (wake[AsmOrder[k]][past[k - 1]] \ past[k - 1]) \cup {AsmOrder[k]}
  <2>1. CASE x \in W
    <3>1. PICK k \in 1..N : AsmOrder[k] = x
      BY <1>1, <1>2, <2>1
    <3> QED
      BY <1>2, <2>1, <3>1
  <2>2. CASE Entered(N, x)
    <3>1. PICK k \in 1..N : By(k, x)
      BY <2>2
    <3> QED
      BY <3>1
  <2> QED
    BY <1>14, <2>1, <2>2
<1>18. ASSUME NEW x \in R PROVE P.status[x] # "awake" /\ (Stuck(P, x, R) => Cardinality(R) > WakeDepth)
  <2>1. PICK k \in 1..N : /\ called(k, past[k - 1])
                          /\ x \in (wake[AsmOrder[k]][past[k - 1]] \ past[k - 1]) \cup {AsmOrder[k]}
    BY <1>17
  <2> DEFINE a == AsmOrder[k]
             L == past[k - 1]
             M == wake[a][L]
             B == (M \ L) \cup {a}
  <2>2. /\ a \in S /\ L \in V /\ Walked(P, L, a, M, WakeDepth) /\ M \subseteq R /\ x \in B
    BY <1>15, <2>1
  <2> HIDE DEF a, L, M
  <2>3. P.status[x] # "awake"
    BY <2>2 DEF Walked
  <2>4. ASSUME Stuck(P, x, R) PROVE Cardinality(R) > WakeDepth
    <3>1. Stuck(P, x, M)
      BY <2>2, <2>4 DEF Stuck
    <3>2. Cardinality(B) >= WakeDepth + 1
      BY <2>2, <3>1 DEF Walked
    <3>3. B \subseteq R /\ IsFiniteSet(R)
      BY <1>14, <2>2, FS_Subset, SleepStageAssumption DEF Walked
    <3> HIDE DEF B
    <3>4. Cardinality(B) <= Cardinality(R) /\ IsFiniteSet(B)
      BY <3>3, FS_Subset
    <3>5. Cardinality(B) \in Nat /\ Cardinality(R) \in Nat
      BY <3>3, <3>4, FS_CardinalityType
    <3> QED
      BY <3>2, <3>4, <3>5, SleepStageAssumption
  <2> QED
    BY <2>3, <2>4
<1> QED
  BY <1>4, <1>14, <1>16, <1>18 DEF R

-----------------------------------------------------------------------------
\* What is minded stays so, and is if a later handler minds it.
LEMMA MindsOn ==
  ASSUME NEW P, NEW Q, NEW R, StaysAwake(P, Q), StaysAwake(Q, R), Sound(R), NEW b \in Asm
  PROVE  /\ Minds(P, Q, b) => Minds(P, R, b)
         /\ Minds(Q, R, b) => Minds(P, R, b)
<1>1. WokenIn(P, Q) \subseteq WokenIn(P, R) /\ WokenIn(Q, R) \subseteq WokenIn(P, R)
  BY DEF WokenIn, Woken, StaysAwake
<1>2. IsFiniteSet(WokenIn(P, R))
  <2>1. WokenIn(P, R) \subseteq Asm
    BY DEF WokenIn
  <2> QED
    BY <2>1, FS_Subset, SleepStageAssumption
<1>3. /\ IsFiniteSet(WokenIn(P, Q)) /\ Cardinality(WokenIn(P, Q)) <= Cardinality(WokenIn(P, R))
      /\ IsFiniteSet(WokenIn(Q, R)) /\ Cardinality(WokenIn(Q, R)) <= Cardinality(WokenIn(P, R))
  BY <1>1, <1>2, FS_Subset
<1>4. Cardinality(WokenIn(P, Q)) \in Nat /\ Cardinality(WokenIn(Q, R)) \in Nat
      /\ Cardinality(WokenIn(P, R)) \in Nat /\ WakeDepth \in Nat
  BY <1>2, <1>3, FS_CardinalityType, SleepStageAssumption
<1>5. R.status[b] \in {"awake", "checking", "deep"}
  BY DEF Sound, PipeType, Status
<1>6. /\ Q.status[b] = "awake" => R.status[b] = "awake"
      /\ Q.status[b] = "checking" => R.status[b] # "deep"
  BY DEF StaysAwake
<1>7. Minds(P, Q, b) => Minds(P, R, b)
  BY <1>3, <1>4, <1>5, <1>6 DEF Minds
<1>8. Minds(Q, R, b) => Minds(P, R, b)
  BY <1>3, <1>4 DEF Minds
<1> QED BY <1>7, <1>8

\* What waking the sleepers S does.
LEMMA RouseFacts ==
  ASSUME NEW P, Sound(P), NEW S \in SUBSET Asm, \A a \in S : P.status[a] # "awake",
         NEW W \in {S, {}}, NEW X
  PROVE  LET Q == Rouse(P, S, W)
         IN  /\ Sound(Q) /\ Q.collides = P.collides
             /\ StaysAwake(P, Q) /\ \A a \in S : Q.status[a] = "awake"
             /\ \A e \in Edge : Follows(P, Q, e)
             /\ StepsOn(P, Q)
             /\ Exact(P, X) => Exact(Q, X)
             /\ \A e \in Edge : P.stage[e] = "sleep" =>
                  \A a, b \in Ends[e] : Woken(P, Q, a) => Minds(P, Q, b)
             /\ \A c \in Contact : P.stage[c] = "collision" =>
                  \A a \in Ends[c] : Woken(P, Q, a) => c \in Q.stepping
<1> DEFINE up == Awoken(P, S, W)
           near == UNION {Ends[e] : e \in {k \in Edge : P.stage[k] = "sleep" /\ Ends[k] \cap up # {}}}
           Q == Rouse(P, S, W)
<1>1. /\ S \subseteq up /\ up \in SUBSET Asm
      /\ \A a \in up : P.status[a] # "awake"
      /\ \A x \in up : Stuck(P, x, up) => Cardinality(up) > WakeDepth
  BY AwokenFacts
<1>f. up \subseteq Free
  BY <1>1 DEF Sound, Free
<1>n. \A e \in Edge : P.stage[e] = "sleep" /\ Ends[e] \cap up # {} => Ends[e] \subseteq near
  OBVIOUS
<1>2. /\ Q.status = [a \in Asm |-> IF a \in up THEN "awake"
                                   ELSE IF a \in near /\ P.status[a] = "deep" THEN "checking"
                                   ELSE P.status[a]]
      /\ Q.stage = [e \in Edge |-> IF P.stage[e] = "sleep" /\ Ends[e] \cap up # {}
                                   THEN "kernel" ELSE P.stage[e]]
      /\ Q.stepping = P.stepping \cup {c \in Contact : P.stage[c] = "collision" /\ Ends[c] \cap up # {}}
      /\ Q.collides = P.collides
      /\ Q = [status |-> Q.status, stage |-> Q.stage, stepping |-> Q.stepping, collides |-> Q.collides]
  BY DEF Rouse, SteppingWith
<1> HIDE DEF Q, up, near
<1>3. Sound(Q)
  <2>1. Q.status \in [Asm -> Status] /\ Q.stage \in [Edge -> Stage]
    BY <1>2 DEF Sound, PipeType, Status, Stage
  <2>2. Q.stepping \in SUBSET Contact /\ Q.collides \in SUBSET Contact
    BY <1>2 DEF Sound, PipeType
  <2>3. \A a \in Anchored : Q.status[a] = "awake"
    BY <1>2, SleepStageAssumption DEF Sound
  <2> QED BY <2>1, <2>2, <2>3, <1>2 DEF Sound, PipeType
<1>4. StaysAwake(P, Q) /\ \A a \in S : Q.status[a] = "awake"
  BY <1>1, <1>2 DEF StaysAwake
<1>5. \A e \in Edge : Follows(P, Q, e)
  BY <1>2 DEF Follows
<1>6. StepsOn(P, Q)
  BY <1>2 DEF StepsOn, Edge
<1>7. \A a \in Asm : Woken(P, Q, a) <=> a \in up
  BY <1>1, <1>2 DEF Woken
<1>8. ASSUME Exact(P, X) PROVE Exact(Q, X)
  <2> SUFFICES ASSUME NEW e \in Edge \ X, Q.stage[e] \in Low
               PROVE  Q.stage[e] = "kernel" <=> \E a \in Ends[e] : Moving(Q, a)
    BY DEF Exact
  <2>0. P.stage[e] \in Low
    BY <1>5 DEF Follows, Low
  <2>1. CASE P.stage[e] = "kernel"
    <3>1. PICK a \in Ends[e] : Moving(P, a)
      BY <1>8, <2>0, <2>1 DEF Exact
    <3>2. Moving(Q, a)
      BY <3>1, <1>4, EndsAreTwo DEF Moving, StaysAwake, Free
    <3> QED BY <2>1, <3>2, <1>2
  <2>2. CASE P.stage[e] = "sleep" /\ Ends[e] \cap up # {}
    <3>1. PICK a \in Ends[e] : a \in up
      BY <2>2
    <3>2. Moving(Q, a)
      BY <3>1, <1>1, <1>f, <1>2 DEF Moving, Free
    <3> QED BY <2>2, <3>2, <1>2
  <2>3. CASE P.stage[e] = "sleep" /\ Ends[e] \cap up = {}
    <3>1. \A a \in Ends[e] : ~Moving(P, a)
      BY <1>8, <2>0, <2>3 DEF Exact
    <3>2. \A a \in Ends[e] : ~Moving(Q, a)
      BY <3>1, <2>3, <1>2, EndsAreTwo DEF Moving
    <3> QED BY <2>3, <3>2, <1>2
  <2> QED BY <2>0, <2>1, <2>2, <2>3 DEF Low
<1>9. ASSUME NEW e \in Edge, P.stage[e] = "sleep", NEW a \in Ends[e], NEW b \in Ends[e],
             Woken(P, Q, a)
      PROVE  Minds(P, Q, b)
  <2>1. a \in up /\ b \in Asm
    BY <1>7, <1>9, EndsAreTwo
  <2>2. CASE P.status[b] = "awake" \/ b \in up
    BY <1>2, <2>1, <2>2 DEF Minds
  <2>3. CASE P.status[b] # "awake" /\ b \notin up
    <3>1. Stuck(P, a, up)
      BY <1>9, <2>3 DEF Stuck, Asleep
    <3>2. Cardinality(up) > WakeDepth
      BY <1>1, <2>1, <3>1
    <3>3. WokenIn(P, Q) = up
      BY <1>1, <1>7 DEF WokenIn
    <3>4. b \in near
      BY <1>9, <1>n, <2>1
    <3>5. P.status[b] \in {"checking", "deep"}
      BY <2>1, <2>3 DEF Sound, PipeType, Status
    <3>6. Q.status[b] = "checking"
      BY <1>2, <2>1, <2>3, <3>4, <3>5
    <3> QED BY <3>2, <3>3, <3>6 DEF Minds
  <2> QED BY <2>2, <2>3
<1>10. ASSUME NEW c \in Contact, P.stage[c] = "collision", NEW a \in Ends[c], Woken(P, Q, a)
       PROVE  c \in Q.stepping
  BY <1>10, <1>7, <1>2, EndsAreTwo DEF Edge
<1> QED BY <1>2, <1>3, <1>4, <1>5, <1>6, <1>8, <1>9, <1>10 DEF Q

\* Two handlers in a row, the second of which lowers nothing.
LEMMA KeptInTurn ==
  ASSUME NEW P, NEW Q, NEW R, Kept(P, Q), Kept(Q, R), Sound(P),
         \A e \in Edge : R.stage[e] \in Low => Q.stage[e] \in Low
  PROVE  Kept(P, R)
<1>1. StaysAwake(P, R)
  BY DEF Kept, StaysAwake
<1>2. Loses(P, R)
  <2> SUFFICES ASSUME NEW e \in Edge, P.stage[e] \in Low, R.stage[e] \notin Low, NEW a \in Ends[e]
               PROVE  R.status[a] = "awake"
    BY DEF Loses
  <2>1. CASE Q.stage[e] \in Low
    BY <2>1 DEF Kept, Loses
  <2>2. CASE Q.stage[e] \notin Low
    BY <2>2, EndsAreTwo DEF Kept, Loses, StaysAwake
  <2> QED BY <2>1, <2>2
<1>3. Spreads(P, R)
  <2> SUFFICES ASSUME NEW e \in Edge, R.stage[e] \in Low, NEW a \in Ends[e], NEW b \in Ends[e],
                      Woken(P, R, a)
               PROVE  Minds(P, R, b)
    BY DEF Spreads
  <2>0. b \in Asm
    BY EndsAreTwo
  <2>1. CASE Q.status[a] = "awake"
    <3>1. Minds(P, Q, b)
      BY <2>1 DEF Kept, Spreads, Woken
    <3> QED BY <3>1, <2>0, MindsOn DEF Kept
  <2>2. CASE Q.status[a] # "awake"
    <3>1. Minds(Q, R, b)
      BY <2>2 DEF Kept, Spreads, Woken
    <3> QED BY <3>1, <2>0, MindsOn DEF Kept
  <2> QED BY <2>1, <2>2
<1> QED BY <1>1, <1>2, <1>3 DEF Kept

LEMMA ResumesInTurn ==
  ASSUME NEW P, NEW Q, NEW R, Resumes(P, Q), Resumes(Q, R)
  PROVE  Resumes(P, R)
BY DEF Resumes, Woken

\* A handler that does nothing.
LEMMA KeptSame ==
  ASSUME NEW P, Sound(P), Exact(P, {})
  PROVE  Kept(P, P) /\ Resumes(P, P)
BY DEF Kept, StaysAwake, Loses, Spreads, Resumes, Woken

\* Raising the edges es out of SleepStage and the kernel.
LEMMA RaiseFacts ==
  ASSUME NEW P, Sound(P), Exact(P, {}), NEW es \in SUBSET Edge
  PROVE  LET Q == Raise(P, es)
         IN  /\ Kept(P, Q) /\ StepsOn(P, Q) /\ Q.collides = P.collides
             /\ \A e \in es : P.stage[e] \in Low => Q.stage[e] = "collision"
             /\ \A e \in Edge : e \notin es \/ P.stage[e] \notin Low => Follows(P, Q, e)
             /\ \A c \in Contact : P.stage[c] = "collision" =>
                  \A a \in Ends[c] : Woken(P, Q, a) => c \in Q.stepping
<1> DEFINE low == {e \in es : P.stage[e] \in Low}
           M == Move(P, low, "collision")
           S == UNION {Asleep(P, e) : e \in low}
           Q == Raise(P, es)
<1>1. /\ M.status = P.status /\ M.stepping = P.stepping /\ M.collides = P.collides
      /\ M.stage = [e \in Edge |-> IF e \in low THEN "collision" ELSE P.stage[e]]
      /\ M \in PipeType
  BY DEF Move, Sound, PipeType, Stage
<1>2. Q = Rouse(M, S, {})
  BY DEF Raise
<1>3. S \in SUBSET Asm /\ \A a \in S : M.status[a] # "awake"
  <2>1. \A e \in low : Asleep(P, e) \subseteq Asm /\ \A a \in Asleep(P, e) : P.status[a] # "awake"
    BY EndsAreTwo DEF Asleep
  <2>2. ASSUME NEW a \in S PROVE a \in Asm /\ P.status[a] # "awake"
    BY <2>1, <2>2
  <2> QED BY <2>2, <1>1
<1>4. Sound(M) /\ Exact(M, {})
  <2>1. Sound(M)
    BY <1>1 DEF Sound
  <2>2. ASSUME NEW e \in Edge, M.stage[e] \in Low
        PROVE  M.stage[e] = "kernel" <=> \E a \in Ends[e] : Moving(M, a)
    <3>1. M.stage[e] = P.stage[e]
      BY <1>1, <2>2 DEF Low
    <3> QED BY <1>1, <2>2, <3>1 DEF Exact, Moving
  <2> QED BY <2>1, <2>2 DEF Exact
<1>5. \A e \in low : \A a \in Ends[e] : P.status[a] = "awake" \/ a \in S
  BY EndsAreTwo DEF Asleep
<1> HIDE DEF M, S, Q
<1>6. /\ Sound(Q) /\ Q.collides = M.collides
      /\ StaysAwake(M, Q) /\ \A a \in S : Q.status[a] = "awake"
      /\ \A e \in Edge : Follows(M, Q, e)
      /\ StepsOn(M, Q)
      /\ Exact(Q, {})
      /\ \A e \in Edge : M.stage[e] = "sleep" =>
           \A a, b \in Ends[e] : Woken(M, Q, a) => Minds(M, Q, b)
      /\ \A c \in Contact : M.stage[c] = "collision" =>
           \A a \in Ends[c] : Woken(M, Q, a) => c \in Q.stepping
  BY <1>2, <1>3, <1>4, RouseFacts
<1>7. StaysAwake(P, Q) /\ StepsOn(P, Q)
  BY <1>1, <1>6 DEF StaysAwake, StepsOn
<1>8. \A e \in es : P.stage[e] \in Low => Q.stage[e] = "collision"
  BY <1>1, <1>6 DEF Follows
<1>9. \A e \in Edge : e \notin es \/ P.stage[e] \notin Low => Follows(P, Q, e)
  BY <1>1, <1>6 DEF Follows
<1>10. Loses(P, Q)
  <2> SUFFICES ASSUME NEW e \in Edge, P.stage[e] \in Low, Q.stage[e] \notin Low, NEW a \in Ends[e]
               PROVE  Q.status[a] = "awake"
    BY DEF Loses
  <2>1. e \in low
    BY <1>9 DEF Follows, Low
  <2> QED BY <2>1, <1>5, <1>6, <1>7, EndsAreTwo DEF StaysAwake
<1>11. Spreads(P, Q)
  <2> SUFFICES ASSUME NEW e \in Edge, Q.stage[e] \in Low, NEW a \in Ends[e], NEW b \in Ends[e],
                      Woken(P, Q, a)
               PROVE  Minds(P, Q, b)
    BY DEF Spreads
  <2>1. M.stage[e] = P.stage[e] /\ P.stage[e] \in Low
    BY <1>1, <1>6 DEF Follows, Low
  <2>2. CASE P.stage[e] = "sleep"
    BY <1>1, <1>6, <2>1, <2>2 DEF Woken, Minds, WokenIn
  <2>3. CASE P.stage[e] = "kernel"
    <3>1. PICK x \in Ends[e] : Moving(P, x)
      BY <2>1, <2>3 DEF Exact
    <3>2. x # a /\ (b = a \/ b = x)
      BY <3>1, EndsAreTwo DEF Moving, Woken
    <3>3. Q.status[x] = "awake"
      BY <3>1, <1>7, EndsAreTwo DEF Moving, StaysAwake
    <3> QED BY <3>2, <3>3 DEF Woken, Minds
  <2> QED BY <2>1, <2>2, <2>3 DEF Low
<1>12. ASSUME NEW c \in Contact, P.stage[c] = "collision", NEW a \in Ends[c], Woken(P, Q, a)
       PROVE  c \in Q.stepping
  BY <1>1, <1>6, <1>12 DEF Woken, Edge, Low
<1> QED BY <1>1, <1>6, <1>7, <1>8, <1>9, <1>10, <1>11, <1>12 DEF Q, Kept

\* CollisionStage::updateContact of the contacts cs.
LEMMA UpdateFacts ==
  ASSUME NEW P, Sound(P), Exact(P, {}), NEW cs \in SUBSET Contact
  PROVE  LET Q == UpdateContacts(P, cs)
         IN  /\ Kept(P, Q) /\ StepsOn(P, Q) /\ Resumes(P, Q) /\ Q.collides = P.collides
             /\ \A e \in Edge : Goes(P, Q, e)
             /\ \A j \in Joint : Follows(P, Q, j)
             /\ \A c \in Contact : P.stage[c] \in Low /\ Q.stage[c] = "collision" => c \in Q.stepping
             /\ \A c \in cs : P.stage[c] \in Down /\ ~OkToSim(P, c) =>
                  Q.stage[c] = "collision" /\ c \in Q.stepping
             /\ \A c \in cs : P.stage[c] = "collision" => c \in Q.stepping
<1> DEFINE bad == {c \in cs : P.stage[c] \in Down /\ ~(P.stage[c] \in Low /\ OkToSim(P, c))}
           R == Raise(P, bad)
           Q == UpdateContacts(P, cs)
<1>0. bad \in SUBSET Edge /\ bad \in SUBSET Contact
  BY DEF Edge
<1>1. Q = [R EXCEPT !.stepping = @ \cup bad]
  BY DEF UpdateContacts
<1>a. \A c \in bad : P.stage[c] \in Low \/ P.stage[c] = "collision"
  BY DEF Down, Low
<1>b. \A c \in cs : P.stage[c] \in Down /\ ~OkToSim(P, c) => c \in bad
  OBVIOUS
<1>c. \A c \in cs : P.stage[c] = "collision" => c \in bad
  BY DEF Down, Low
<1> HIDE DEF bad, R, Q
<1>2. /\ Kept(P, R) /\ StepsOn(P, R) /\ R.collides = P.collides
      /\ \A e \in bad : P.stage[e] \in Low => R.stage[e] = "collision"
      /\ \A e \in Edge : e \notin bad \/ P.stage[e] \notin Low => Follows(P, R, e)
      /\ \A c \in Contact : P.stage[c] = "collision" =>
           \A a \in Ends[c] : Woken(P, R, a) => c \in R.stepping
  BY <1>0, RaiseFacts DEF R
<1>3. /\ Q.status = R.status /\ Q.stage = R.stage /\ Q.collides = R.collides
      /\ Q.stepping = R.stepping \cup bad /\ Q \in PipeType
  BY <1>0, <1>1, <1>2 DEF Kept, Sound, PipeType
<1>4. Kept(P, Q)
  BY <1>2, <1>3 DEF Kept, Sound, Exact, StaysAwake, Loses, Spreads, Minds, WokenIn, Woken, Moving
<1>5. \A c \in bad : Q.stage[c] = "collision"
  BY <1>0, <1>a, <1>2, <1>3 DEF Follows
<1>6. StepsOn(P, Q)
  BY <1>2, <1>3, <1>5 DEF StepsOn
<1>7. \A e \in Edge : Goes(P, Q, e)
  BY <1>2, <1>3 DEF Goes, Follows
<1>8. \A j \in Joint : Follows(P, Q, j)
  BY <1>0, <1>2, <1>3, SleepStageAssumption DEF Follows, Edge
<1>9. \A c \in Contact : P.stage[c] \in Low /\ Q.stage[c] = "collision" => c \in Q.stepping
  BY <1>2, <1>3 DEF Follows, Edge, Low
<1>10. Resumes(P, Q)
  <2> SUFFICES ASSUME NEW c \in Contact, Q.stage[c] = "collision", c \notin Q.stepping
               PROVE  /\ P.stage[c] = "collision" /\ c \notin P.stepping
                      /\ \A j \in Joint : c \in Over[j] /\ P.stage[j] \in Down => Q.stage[j] \in Down
                      /\ \A a \in Ends[c] : ~Woken(P, Q, a)
    BY DEF Resumes
  <2>1. P.stage[c] = "collision"
    BY <1>7, <1>9 DEF Goes, Follows, Edge
  <2>2. c \notin P.stepping
    BY <1>6 DEF StepsOn
  <2>3. \A j \in Joint : P.stage[j] \in Down => Q.stage[j] \in Down
    BY <1>8 DEF Follows, Down
  <2>4. \A a \in Ends[c] : ~Woken(P, Q, a)
    BY <1>2, <1>3, <2>1 DEF Woken
  <2> QED BY <2>1, <2>2, <2>3, <2>4
<1> QED BY <1>3, <1>2, <1>4, <1>5, <1>6, <1>7, <1>8, <1>9, <1>10, <1>b, <1>c DEF Q

\* SleepStage::onEdgeAdded of an edge one of whose ends can move.
LEMMA LowerFacts ==
  ASSUME NEW P, Sound(P), Exact(P, {}), NEW e \in Edge, P.stage[e] \notin Low,
         ~(Ends[e] \subseteq Anchored)
  PROVE  LET Q == Lower(P, e)
         IN  /\ Kept(P, Q) /\ StepsOn(P, Q) /\ Resumes(P, Q) /\ Q.collides = P.collides
             /\ Q.stage[e] = "kernel"
             /\ \A k \in Edge \ {e} : Follows(P, Q, k)
<1> DEFINE M == Move(P, {e}, "kernel")
           S == Asleep(P, e)
           Q == Lower(P, e)
<1>1. /\ M.status = P.status /\ M.stepping = P.stepping /\ M.collides = P.collides
      /\ M.stage = [k \in Edge |-> IF k = e THEN "kernel" ELSE P.stage[k]]
      /\ M \in PipeType
  BY DEF Move, Sound, PipeType, Stage
<1>2. Q = Rouse(M, S, S)
  BY DEF Lower
<1>3. /\ S \in SUBSET Asm /\ \A a \in S : M.status[a] # "awake"
      /\ \A a \in Ends[e] : P.status[a] = "awake" \/ a \in S
  BY <1>1, EndsAreTwo DEF Asleep
<1>4. Sound(M) /\ Exact(M, {e})
  BY <1>1 DEF Sound, Exact, Moving
<1> HIDE DEF M, S, Q
<1>5. /\ Sound(Q) /\ Q.collides = M.collides
      /\ StaysAwake(M, Q) /\ \A a \in S : Q.status[a] = "awake"
      /\ \A k \in Edge : Follows(M, Q, k)
      /\ StepsOn(M, Q)
      /\ Exact(Q, {e})
      /\ \A k \in Edge : M.stage[k] = "sleep" =>
           \A a, b \in Ends[k] : Woken(M, Q, a) => Minds(M, Q, b)
      /\ \A c \in Contact : M.stage[c] = "collision" =>
           \A a \in Ends[c] : Woken(M, Q, a) => c \in Q.stepping
  BY <1>2, <1>3, <1>4, RouseFacts
<1>6. StaysAwake(P, Q) /\ StepsOn(P, Q)
  BY <1>1, <1>5 DEF StaysAwake, StepsOn
<1>7. Q.stage[e] = "kernel" /\ \A k \in Edge \ {e} : Follows(P, Q, k)
  BY <1>1, <1>5 DEF Follows
<1>8. \A a \in Ends[e] : Q.status[a] = "awake"
  BY <1>3, <1>5, <1>6, EndsAreTwo DEF StaysAwake
<1>9. Exact(Q, {})
  <2>1. PICK a \in Ends[e] : a \notin Anchored
    BY EndsAreTwo
  <2>2. Moving(Q, a)
    BY <2>1, <1>8, EndsAreTwo DEF Moving, Free
  <2> QED BY <2>2, <1>5, <1>7 DEF Exact
<1>10. Loses(P, Q)
  BY <1>7 DEF Loses, Follows, Low
<1>11. Spreads(P, Q)
  <2> SUFFICES ASSUME NEW k \in Edge, Q.stage[k] \in Low, NEW a \in Ends[k], NEW b \in Ends[k],
                      Woken(P, Q, a)
               PROVE  Minds(P, Q, b)
    BY DEF Spreads
  <2>1. CASE k = e
    BY <2>1, <1>8 DEF Minds
  <2>2. CASE k # e /\ P.stage[k] = "sleep"
    BY <1>1, <1>5, <2>2 DEF Woken, Minds, WokenIn
  <2>3. CASE k # e /\ P.stage[k] = "kernel"
    <3>1. PICK x \in Ends[k] : Moving(P, x)
      BY <2>3 DEF Exact, Low
    <3>2. x # a /\ (b = a \/ b = x)
      BY <3>1, EndsAreTwo DEF Moving, Woken
    <3>3. Q.status[x] = "awake"
      BY <3>1, <1>6, EndsAreTwo DEF Moving, StaysAwake
    <3> QED BY <3>2, <3>3 DEF Woken, Minds
  <2> QED BY <2>1, <2>2, <2>3, <1>7 DEF Low, Follows
<1>12. Resumes(P, Q)
  <2> SUFFICES ASSUME NEW c \in Contact, Q.stage[c] = "collision", c \notin Q.stepping
               PROVE  /\ P.stage[c] = "collision" /\ c \notin P.stepping
                      /\ \A j \in Joint : c \in Over[j] /\ P.stage[j] \in Down => Q.stage[j] \in Down
                      /\ \A a \in Ends[c] : ~Woken(P, Q, a)
    BY DEF Resumes
  <2>1. M.stage[c] = "collision" /\ P.stage[c] = "collision"
    BY <1>1, <1>5 DEF Follows, Edge
  <2>2. c \notin P.stepping
    BY <1>6 DEF StepsOn
  <2>3. \A j \in Joint : P.stage[j] \in Down => Q.stage[j] \in Down
    BY <1>7 DEF Follows, Down, Edge
  <2>4. \A a \in Ends[c] : ~Woken(P, Q, a)
    BY <2>1, <1>1, <1>5 DEF Woken
  <2> QED BY <2>1, <2>2, <2>3, <2>4
<1> QED BY <1>1, <1>5, <1>6, <1>7, <1>9, <1>10, <1>11, <1>12 DEF Q, Kept

\* Under a joint no contact is simulated.
Apart(P) ==
  \A j \in Joint : P.stage[j] \in Low => \A c \in Over[j] : P.stage[c] \notin Low

\* A handler that lowers nothing keeps it so.
LEMMA ApartKept ==
  ASSUME NEW P, NEW Q, Apart(P), \A e \in Edge : Q.stage[e] \in Low => P.stage[e] \in Low
  PROVE  Apart(Q)
BY SleepStageAssumption DEF Apart, Edge

\* CollisionStage::onEdgeAdded of a contact.
LEMMA EnterContactFacts ==
  ASSUME NEW P, Sound(P), Exact(P, {}), Apart(P), NEW c \in Contact, P.stage[c] = "clump"
  PROVE  LET Q == EnterContact(P, c)
         IN  /\ Kept(P, Q) /\ StepsOn(P, Q) /\ Resumes(P, Q) /\ Apart(Q)
             /\ Q.collides = P.collides /\ Q.stage[c] = "collision"
             /\ \A e \in Edge \ {c} : Goes(P, Q, e)
<1> DEFINE M == Move(P, {c}, "collision")
           Q == EnterContact(P, c)
<1>0. c \in Edge
  BY DEF Edge
<1>1. /\ M.status = P.status /\ M.stepping = P.stepping /\ M.collides = P.collides
      /\ M.stage = [k \in Edge |-> IF k = c THEN "collision" ELSE P.stage[k]]
      /\ M \in PipeType
  BY DEF Move, Sound, PipeType, Stage
<1>2. Q = UpdateContacts(M, {c})
  BY DEF EnterContact
<1>3. Sound(M) /\ Exact(M, {})
  BY <1>1 DEF Sound, Exact, Moving, Low
<1> HIDE DEF M, Q
<1>4. /\ Kept(M, Q) /\ StepsOn(M, Q) /\ Resumes(M, Q) /\ Q.collides = M.collides
      /\ \A e \in Edge : Goes(M, Q, e)
      /\ c \in Q.stepping
  <2>1. M.stage[c] = "collision" /\ {c} \in SUBSET Contact
    BY <1>0, <1>1
  <2> QED BY <1>2, <1>3, <2>1, UpdateFacts
<1>5. Q.stage[c] = "collision" /\ \A e \in Edge \ {c} : Goes(P, Q, e)
  BY <1>0, <1>1, <1>4 DEF Goes, Follows
<1>6. \A e \in Edge : Q.stage[e] \in Low => P.stage[e] \in Low
  BY <1>5 DEF Goes, Follows, Low
<1>7. Kept(P, Q)
  <2>1. Loses(P, Q)
    BY <1>0, <1>1, <1>4 DEF Kept, Loses, Low
  <2> QED BY <2>1, <1>1, <1>4 DEF Kept, StaysAwake, Spreads, Woken, Minds, WokenIn
<1>8. StepsOn(P, Q) /\ Resumes(P, Q)
  <2>1. \A j \in Joint : M.stage[j] = P.stage[j]
    BY <1>1, SleepStageAssumption DEF Edge
  <2>2. \A k \in Contact : k = c \/ M.stage[k] = P.stage[k]
    BY <1>1 DEF Edge
  <2> QED BY <2>1, <2>2, <1>1, <1>4 DEF StepsOn, Resumes, Woken
<1> QED BY <1>1, <1>4, <1>5, <1>6, <1>7, <1>8, ApartKept DEF Q

\* CollisionStage::onEdgeAdded of a joint: a contact it joins is raised.
LEMMA EnterJointFacts ==
  ASSUME NEW P, Sound(P), Exact(P, {}), Apart(P), NEW j \in Joint, P.stage[j] = "clump",
         ~(Ends[j] \subseteq Anchored)
  PROVE  LET Q == EnterJoint(P, j)
         IN  /\ Kept(P, Q) /\ StepsOn(P, Q) /\ Resumes(P, Q) /\ Apart(Q)
             /\ Q.collides = P.collides /\ Q.stage[j] = "kernel"
             /\ \A e \in Edge \ {j} : Goes(P, Q, e)
<1> DEFINE L == Lower(P, j)
           Q == EnterJoint(P, j)
<1>0. j \in Edge /\ Over[j] \in SUBSET Contact
  BY SleepStageAssumption DEF Edge
<1>1. Q = UpdateContacts(L, Over[j])
  BY DEF EnterJoint
<1> HIDE DEF L, Q
<1>2. /\ Kept(P, L) /\ StepsOn(P, L) /\ Resumes(P, L) /\ L.collides = P.collides
      /\ L.stage[j] = "kernel"
      /\ \A k \in Edge \ {j} : Follows(P, L, k)
  BY <1>0, LowerFacts DEF L, Low
<1>3. /\ Kept(L, Q) /\ StepsOn(L, Q) /\ Resumes(L, Q) /\ Q.collides = L.collides
      /\ \A e \in Edge : Goes(L, Q, e)
      /\ \A k \in Joint : Follows(L, Q, k)
      /\ \A c \in Contact : L.stage[c] \in Low /\ Q.stage[c] = "collision" => c \in Q.stepping
      /\ \A c \in Over[j] : L.stage[c] \in Down /\ ~OkToSim(L, c) =>
           Q.stage[c] = "collision" /\ c \in Q.stepping
  BY <1>0, <1>1, <1>2, UpdateFacts DEF Kept
<1>4. Kept(P, Q)
  <2>1. \A e \in Edge : Q.stage[e] \in Low => L.stage[e] \in Low
    BY <1>3 DEF Goes, Follows, Low
  <2> QED BY <2>1, <1>2, <1>3, KeptInTurn
<1>5. Q.stage[j] = "kernel" /\ \A e \in Edge \ {j} : Goes(P, Q, e)
  BY <1>0, <1>2, <1>3 DEF Goes, Follows, Low
<1>6. StepsOn(P, Q)
  <2>1. L.stepping \subseteq Edge
    BY <1>2 DEF Kept, Sound, PipeType, Edge
  <2> QED BY <2>1, <1>2, <1>3 DEF StepsOn, Goes, Follows
<1>7. Resumes(P, Q)
  BY <1>2, <1>3, ResumesInTurn
<1>8. Apart(Q)
  <2> SUFFICES ASSUME NEW i \in Joint, Q.stage[i] \in Low, NEW c \in Over[i], Q.stage[c] \in Low
               PROVE  FALSE
    BY DEF Apart
  <2>1. c \in Contact /\ c \in Edge /\ i \in Edge /\ c # j
    BY SleepStageAssumption DEF Edge
  <2>2. CASE i = j
    <3>1. L.stage[c] \in Low
      BY <1>3, <2>1 DEF Goes, Follows, Low
    <3>2. HasJoint(L, c)
      BY <1>2, <2>2 DEF HasJoint
    <3>3. Q.stage[c] = "collision"
      BY <1>3, <2>2, <3>1, <3>2 DEF OkToSim, OkToStep, Low, Down
    <3> QED BY <3>3 DEF Low
  <2>3. CASE i # j
    <3>1. P.stage[i] \in Low /\ P.stage[c] \in Low
      BY <1>5, <2>1, <2>3 DEF Goes, Follows, Low
    <3> QED BY <3>1 DEF Apart
  <2> QED BY <2>2, <2>3
<1> QED BY <1>2, <1>3, <1>4, <1>5, <1>6, <1>7, <1>8 DEF Q

\* Between the loops what steps is in CollisionStage.
Steps(P) == \A c \in P.stepping : P.stage[c] = "collision"

LEMMA StepsKept ==
  ASSUME NEW P, NEW Q, Sound(P), Steps(P), StepsOn(P, Q),
         \A c \in Contact : P.stage[c] = "collision" => Q.stage[c] = "collision"
  PROVE  Steps(Q)
BY DEF Steps, StepsOn, Sound, PipeType

\* CollisionStage::onEdgeRemoving of the edge e, which goes to s.
LEMMA WithdrawFacts ==
  ASSUME NEW P, Sound(P), Exact(P, {}), Apart(P), NEW e \in Edge, P.stage[e] \in Down,
         NEW s \in {"out", "clump"}
  PROVE  LET Z == Withdraw(P, e, s)
         IN  /\ Kept(P, Z) /\ Resumes(P, Z) /\ Apart(Z) /\ Z.collides = P.collides
             /\ Steps(P) => Steps(Z)
             /\ Z.stage[e] = s
             /\ \A k \in Edge \ {e} : Goes(P, Z, k)
<1> DEFINE R == Raise(P, {e})
           J == IF e \in Joint THEN Over[e] ELSE {}
           Q == UpdateContacts(R, J)
           Z == Withdraw(P, e, s)
<1>1. J \in SUBSET Contact
  BY SleepStageAssumption
<1>2. Z = [Move(Q, {e}, s) EXCEPT !.stepping = @ \ {e}]
  BY DEF Withdraw
<1>j. e \in Joint => J = Over[e]
  OBVIOUS
<1> HIDE DEF R, J, Q, Z
<1>5. /\ Kept(P, R) /\ StepsOn(P, R) /\ R.collides = P.collides
      /\ P.stage[e] \in Low => R.stage[e] = "collision"
      /\ \A k \in Edge : k # e \/ P.stage[k] \notin Low => Follows(P, R, k)
      /\ \A c \in Contact : P.stage[c] = "collision" =>
           \A a \in Ends[c] : Woken(P, R, a) => c \in R.stepping
  BY RaiseFacts DEF R
<1>6. /\ Kept(R, Q) /\ StepsOn(R, Q) /\ Resumes(R, Q) /\ Q.collides = R.collides
      /\ \A k \in Edge : Goes(R, Q, k)
      /\ \A c \in J : R.stage[c] = "collision" => c \in Q.stepping
  BY <1>1, <1>5, UpdateFacts DEF Kept, Q
<1>7. Kept(P, Q)
  <2>1. \A k \in Edge : Q.stage[k] \in Low => R.stage[k] \in Low
    BY <1>6 DEF Goes, Follows, Low
  <2> QED BY <2>1, <1>5, <1>6, KeptInTurn
<1>8. /\ Z.status = Q.status /\ Z.collides = Q.collides /\ Z.stepping = Q.stepping \ {e}
      /\ Z.stage = [k \in Edge |-> IF k = e THEN s ELSE Q.stage[k]]
      /\ Z \in PipeType
  BY <1>2, <1>7 DEF Move, Kept, Sound, PipeType, Stage
<1>9. Z.stage[e] = s
  BY <1>8
<1>10. \A k \in Edge \ {e} : Goes(P, Z, k)
  BY <1>5, <1>6, <1>8 DEF Goes, Follows, Low
<1>11. \A k \in Edge : Z.stage[k] \in Low => Z.stage[k] = Q.stage[k] /\ P.stage[k] \in Low
  <2> TAKE k \in Edge
  <2>1. CASE k = e
    BY <2>1, <1>9 DEF Low
  <2>2. CASE k # e
    BY <2>2, <1>8, <1>10 DEF Goes, Follows, Low
  <2> QED BY <2>1, <2>2
<1>12. Kept(P, Z)
  <2>1. Sound(Z) /\ StaysAwake(P, Z)
    BY <1>7, <1>8 DEF Kept, Sound, StaysAwake
  <2>2. Exact(Z, {}) /\ Spreads(P, Z)
    BY <1>7, <1>8, <1>11 DEF Kept, Exact, Spreads, Moving, Minds, WokenIn, Woken
  <2>3. Loses(P, Z)
    <3> SUFFICES ASSUME NEW k \in Edge, P.stage[k] \in Low, Z.stage[k] \notin Low, NEW a \in Ends[k]
                 PROVE  Q.status[a] = "awake"
      BY <1>8 DEF Loses
    <3>1. Q.stage[k] \notin Low
      <4>1. CASE k = e
        BY <4>1, <1>5, <1>6 DEF Goes, Follows, Low
      <4>2. CASE k # e
        BY <4>2, <1>8
      <4> QED BY <4>1, <4>2
    <3> QED BY <3>1, <1>7 DEF Kept, Loses
  <2> QED BY <2>1, <2>2, <2>3 DEF Kept
<1>13. Resumes(P, Z)
  <2> SUFFICES ASSUME NEW c \in Contact, Z.stage[c] = "collision", c \notin Z.stepping
               PROVE  /\ P.stage[c] = "collision" /\ c \notin P.stepping
                      /\ \A j \in Joint : c \in Over[j] /\ P.stage[j] \in Down => Z.stage[j] \in Down
                      /\ \A a \in Ends[c] : ~Woken(P, Z, a)
    BY DEF Resumes
  <2>1. c \in Edge /\ c # e
    BY <1>9 DEF Edge
  <2>2. Q.stage[c] = "collision" /\ c \notin Q.stepping
    BY <1>8, <2>1
  <2>3. /\ R.stage[c] = "collision" /\ c \notin R.stepping
        /\ \A j \in Joint : c \in Over[j] /\ R.stage[j] \in Down => Q.stage[j] \in Down
        /\ \A a \in Ends[c] : ~Woken(R, Q, a)
    BY <1>6, <2>2 DEF Resumes
  <2>4. P.stage[c] = "collision" /\ c \notin P.stepping
    BY <1>5, <2>1, <2>3 DEF Follows, StepsOn
  <2>5. \A a \in Ends[c] : ~Woken(P, Z, a)
    BY <1>5, <1>8, <2>3, <2>4 DEF Woken
  <2>6. ASSUME NEW j \in Joint, c \in Over[j], P.stage[j] \in Down PROVE Z.stage[j] \in Down
    <3>1. j # e
      BY <1>6, <1>j, <2>2, <2>3, <2>6
    <3>2. j \in Edge
      BY DEF Edge
    <3>3. R.stage[j] \in Down
      BY <1>5, <2>6, <3>1, <3>2 DEF Follows, Down
    <3> QED BY <1>8, <2>3, <2>6, <3>1, <3>2, <3>3
  <2> QED BY <2>4, <2>5, <2>6
<1>14. Apart(Z)
  BY <1>11, ApartKept
<1>15. ASSUME Steps(P) PROVE Steps(Z)
  <2>1. Steps(R)
    <3>1. \A c \in Contact : P.stage[c] = "collision" => R.stage[c] = "collision"
      BY <1>5 DEF Follows, Edge, Low
    <3> QED BY <3>1, <1>5, <1>15, StepsKept
  <2>2. Steps(Q)
    <3>1. \A c \in Contact : R.stage[c] = "collision" => Q.stage[c] = "collision"
      BY <1>6 DEF Goes, Follows, Edge, Low
    <3> QED BY <3>1, <1>5, <1>6, <2>1, StepsKept DEF Kept
  <2>3. Q.stepping \subseteq Edge
    BY <1>7 DEF Kept, Sound, PipeType, Edge
  <2> QED BY <2>2, <2>3, <1>8 DEF Steps
<1> QED BY <1>5, <1>6, <1>8, <1>9, <1>10, <1>12, <1>13, <1>14, <1>15 DEF Z

\* ClumpStage::removeAssemblyEdges of a: nothing of a is left below.
LEMMA WithdrawAllFacts ==
  ASSUME NEW P, Sound(P), Exact(P, {}), Apart(P), NEW a
  PROVE  LET Z == WithdrawAll(P, a)
         IN  /\ Kept(P, Z) /\ Resumes(P, Z) /\ Apart(Z) /\ Z.collides = P.collides
             /\ Steps(P) => Steps(Z)
             /\ \A e \in Edge : Z.stage[e] \in Down => a \notin Ends[e] /\ P.stage[e] \in Down
<1> DEFINE N == Len(EdgeOrder)
           V == {Q \in PipeType : Sound(Q) /\ Exact(Q, {}) /\ Apart(Q)}
           G(k, Q) == IF a \in Ends[EdgeOrder[k]] /\ Q.stage[EdgeOrder[k]] \in Down
                      THEN Withdraw(Q, EdgeOrder[k], "clump") ELSE Q
           F == [k \in 1..N |-> [Q \in V |-> G(k, Q)]]
           Eq(f) == f = [k \in 0..N |-> IF k = 0 THEN P ELSE G(k, f[k - 1])]
           past == CHOOSE f : Eq(f)
           Gone(k, Q) == a \in Ends[EdgeOrder[k]] => Q.stage[EdgeOrder[k]] \notin Down
           Back(Q, R) == /\ Kept(Q, R) /\ Resumes(Q, R) /\ R.collides = Q.collides
                         /\ Steps(Q) => Steps(R)
                         /\ \A e \in Edge : /\ R.stage[e] \in Down => Q.stage[e] \in Down
                                            /\ R.stage[e] \in Low => Q.stage[e] \in Low
<1>1. /\ N \in Nat /\ \A k \in 1..N : EdgeOrder[k] \in Edge
      /\ \A e \in Edge : \E k \in 1..N : EdgeOrder[k] = e
  BY OrderFacts
<1>2. P \in V
  BY DEF Sound
<1>3. WithdrawAll(P, a) = past[N]
  BY DEF WithdrawAll
<1> HIDE DEF N
<1>4. ASSUME NEW k \in 1..N, NEW Q \in V
      PROVE  G(k, Q) \in V /\ Back(Q, G(k, Q)) /\ Gone(k, G(k, Q))
  <2>1. CASE a \in Ends[EdgeOrder[k]] /\ Q.stage[EdgeOrder[k]] \in Down
    <3> DEFINE e == EdgeOrder[k]
               R == Withdraw(Q, e, "clump")
    <3>1. e \in Edge /\ Q.stage[e] \in Down /\ G(k, Q) = R
      BY <1>1, <2>1
    <3> HIDE DEF e
    <3>2. /\ Kept(Q, R) /\ Resumes(Q, R) /\ Apart(R) /\ R.collides = Q.collides
          /\ Steps(Q) => Steps(R)
          /\ R.stage[e] = "clump"
          /\ \A j \in Edge \ {e} : Goes(Q, R, j)
      BY <3>1, WithdrawFacts
    <3> HIDE DEF R
    <3>3. R \in V
      BY <3>2 DEF Kept, Sound
    <3>4. ASSUME NEW j \in Edge
          PROVE  /\ R.stage[j] \in Down => Q.stage[j] \in Down
                 /\ R.stage[j] \in Low => Q.stage[j] \in Low
      <4>1. CASE j = e
        BY <4>1, <3>2 DEF Down, Low
      <4>2. CASE j # e
        BY <4>2, <3>2 DEF Goes, Follows, Down, Low
      <4> QED BY <4>1, <4>2
    <3>5. Gone(k, R)
      BY <3>2 DEF e, Down
    <3> QED BY <3>1, <3>2, <3>3, <3>4, <3>5
  <2>2. CASE ~(a \in Ends[EdgeOrder[k]] /\ Q.stage[EdgeOrder[k]] \in Down)
    <3>1. G(k, Q) = Q
      BY <2>2
    <3>2. Back(Q, Q)
      BY KeptSame
    <3>3. Gone(k, Q)
      BY <2>2
    <3> HIDE DEF G, V, Back, Gone
    <3> QED BY <3>1, <3>2, <3>3
  <2> QED BY <2>1, <2>2
<1>5. F \in [1..N -> [V -> V]]
  <2> HIDE DEF V, Back, Gone, G
  <2> QED BY <1>4
<1> HIDE DEF G, Gone
<1>6. PICK g \in [0..N -> V] : g[0] = P /\ \A k \in 1..N : g[k] = G(k, g[k - 1])
  <2>1. \A k \in 1..N : \A Q \in V : F[k][Q] = G(k, Q)
    OBVIOUS
  <2> HIDE DEF F, V
  <2>2. PICK g : Stepwise(g, V, F, P, N)
    BY <1>1, <1>2, <1>5, StepsExist
  <2>3. \A k \in 1..N : k - 1 \in 0..N
    BY <1>1
  <2> QED
    BY <2>1, <2>2, <2>3 DEF Stepwise
<1> HIDE DEF F
<1>7. Eq(g)
  <2>1. ASSUME NEW k \in 0..N PROVE g[k] = IF k = 0 THEN P ELSE G(k, g[k - 1])
    <3>1. k = 0 \/ k \in 1..N
      BY <1>1
    <3> QED
      BY <1>1, <1>6, <3>1
  <2> HIDE DEF V
  <2> QED
    BY <1>6, <2>1
<1>8. Eq(past)
  <2> HIDE DEF Eq
  <2> QED
    BY <1>7
<1> HIDE DEF past
<1>9. past[0] = P /\ \A k \in 1..N : past[k] = G(k, past[k - 1])
  <2>1. 0 \in 0..N /\ \A k \in 1..N : k \in 0..N /\ k # 0
    BY <1>1
  <2> QED
    BY <1>8, <2>1
<1> HIDE DEF Eq
<1> DEFINE K == {m \in 0..N : /\ past[m] \in V /\ Back(P, past[m])
                              /\ \A k \in 1..m : Gone(k, past[m])}
<1>10. 0 \in K
  <2>1. Back(P, P)
    BY KeptSame
  <2> HIDE DEF Back, V
  <2> QED BY <1>1, <1>2, <1>9, <2>1
<1>11. ASSUME NEW m \in 1..N, m - 1 \in K PROVE m \in K
  <2> DEFINE Q == past[m - 1]
             R == past[m]
  <2>1. /\ Q \in V /\ Back(P, Q) /\ \A k \in 1..(m - 1) : Gone(k, Q)
        /\ m \in 0..N /\ R = G(m, Q) /\ \A k \in 1..m : k = m \/ k \in 1..(m - 1)
        /\ m - 1 \in 1..N \/ m = 1
    BY <1>1, <1>9, <1>11
  <2> HIDE DEF Q, R
  <2>2. R \in V /\ Back(Q, R) /\ Gone(m, R)
    <3> HIDE DEF V, Back
    <3> QED BY <1>4, <2>1
  <2>3. Back(P, R)
    <3>1. Kept(P, R)
      BY <2>1, <2>2, KeptInTurn
    <3>2. Resumes(P, R)
      BY <2>1, <2>2, ResumesInTurn
    <3> QED BY <2>1, <2>2, <3>1, <3>2
  <2>4. ASSUME NEW k \in 1..m PROVE Gone(k, R)
    <3>1. CASE k = m
      BY <2>2, <3>1
    <3>2. CASE k # m
      <4>1. Gone(k, Q) /\ EdgeOrder[k] \in Edge
        BY <1>1, <2>1, <3>2
      <4> QED BY <2>2, <4>1 DEF Gone
    <3> QED BY <3>1, <3>2
  <2> HIDE DEF V, Back
  <2> QED BY <2>1, <2>2, <2>3, <2>4 DEF R
<1> HIDE DEF K
<1>12. N \in K
  <2>1. \A m \in 0..N : m \in K
    BY <1>1, <1>10, <1>11, UpTo
  <2> QED BY <1>1, <2>1
<1>13. past[N] \in V /\ Back(P, past[N]) /\ \A k \in 1..N : Gone(k, past[N])
  BY <1>12 DEF K
<1>14. \A e \in Edge : past[N].stage[e] \in Down => a \notin Ends[e]
  BY <1>1, <1>13 DEF Gone
<1> QED BY <1>3, <1>13, <1>14

-----------------------------------------------------------------------------
\* The inductive invariant. Control is what TypeOK says of the variables that
\* are not in Pipe, and two facts about the loops: assemblies are formed while
\* World::step runs, and only the contact loop has anything to erase.
Control ==
  /\ pc \in {"idle", "edges", "collide", "rest", "doze", "separate"}
  /\ present \subseteq Asm
  /\ count \in [Asm -> 0..StepsToSleep]
  /\ done \subseteq Contact /\ toErase \subseteq done
  /\ canSleep \subseteq Free
  /\ pc # "idle" => present = Asm
  /\ pc # "collide" => done = {} /\ toErase = {}

\* What is in CollisionStage or below is between assemblies that are formed.
Formed(P, A) == \A e \in Edge : P.stage[e] \in Down => Ends[e] \subseteq A

IInv ==
  /\ Control /\ SteppingInStage
  /\ Sound(Pipe) /\ Exact(Pipe, {}) /\ Apart(Pipe) /\ Formed(Pipe, present)

\* The action properties of one step.
Faithful ==
  /\ Loses(Pipe, Pipe')
  /\ \A c \in Contact : Forgotten(Pipe', c) => Forgotten(Pipe, c) \/ c \in toErase
  /\ pc # "doze" => Spreads(Pipe, Pipe')

\* A handler that resumes forgets nothing.
LEMMA NoneForgotten ==
  ASSUME NEW P, NEW Q, Resumes(P, Q), NEW c \in Contact, Forgotten(Q, c)
  PROVE  Forgotten(P, c)
<1>1. PICK a \in Ends[c] : Moving(Q, a)
  BY DEF Forgotten
<1>2. Moving(P, a)
  BY <1>1 DEF Forgotten, Resumes, Woken, Moving
<1> QED BY <1>2 DEF Forgotten, Resumes

\* The invariant implies what the runs check.
LEMMA Implied ==
  ASSUME IInv
  PROVE  TypeOK /\ KernelExactly /\ SteppingInStage /\ JointedApart
<1>1. TypeOK
  BY DEF IInv, Control, Sound, PipeType, Pipe, Formed, TypeOK
<1>2. KernelExactly
  BY DEF IInv, Exact, KernelExactly, Moving, Pipe
<1>3. JointedApart
  BY DEF IInv, Apart, JointedApart, Pipe
<1> QED BY <1>1, <1>2, <1>3 DEF IInv

\* A handler's result becomes the pipe.
LEMMA PipeSet ==
  ASSUME NEW Q, Q \in PipeType, SetPipe(Q)
  PROVE  Pipe' = Q
BY DEF SetPipe, Pipe, PipeType

\* A step of the world or of ClumpStage that leaves the pipe in a handler's
\* hands, between the loops.
LEMMA HandlerStep ==
  ASSUME IInv, NEW Q, Pipe' = Q, Kept(Pipe, Q), Resumes(Pipe, Q), Apart(Q), Steps(Q),
         Control', Formed(Q, present')
  PROVE  IInv' /\ Faithful
<1>1. SteppingInStage'
  BY DEF Steps, Pipe, SteppingInStage
<1>2. Faithful
  BY NoneForgotten DEF Faithful, Kept
<1>3. Sound(Pipe') /\ Exact(Pipe', {}) /\ Apart(Pipe') /\ Formed(Pipe', present')
  BY DEF Kept
<1> QED BY <1>1, <1>2, <1>3 DEF IInv

\* Between the loops nothing that steps has gone down.
LEMMA StepsBetween ==
  ASSUME IInv, pc # "collide"
  PROVE  Steps(Pipe)
BY DEF IInv, Control, SteppingInStage, Steps, Pipe

\* A step that leaves the pipe alone.
LEMMA StillStep ==
  ASSUME IInv, Pipe' = Pipe, Control', SteppingInStage', present \subseteq present'
  PROVE  IInv' /\ Faithful
<1>1. Faithful
  BY DEF Faithful, Loses, Forgotten, Moving, Spreads, Woken
<1>2. Formed(Pipe', present')
  BY DEF IInv, Formed
<1> QED BY <1>1, <1>2 DEF IInv

-----------------------------------------------------------------------------
LEMMA InitHolds ==
  ASSUME Init
  PROVE  IInv
<1>1. Control
  BY SleepStageAssumption DEF Init, Control
<1>2. Sound(Pipe) /\ Exact(Pipe, {}) /\ Apart(Pipe) /\ Formed(Pipe, present)
  <2>1. Pipe \in PipeType
    BY SleepStageAssumption DEF Init, Pipe, PipeType, Status, Stage
  <2>2. \A e \in Edge : Pipe.stage[e] \notin Low /\ Pipe.stage[e] \notin Down
    BY DEF Init, Pipe, Low, Down
  <2>3. \A a \in Anchored : Pipe.status[a] = "awake"
    BY SleepStageAssumption DEF Init, Pipe
  <2> QED BY <2>1, <2>2, <2>3 DEF Sound, Exact, Apart, Formed, Edge
<1>3. SteppingInStage
  BY DEF Init, SteppingInStage
<1> QED BY <1>1, <1>2, <1>3 DEF IInv

LEMMA ControlStays ==
  ASSUME Control, UNCHANGED <<pc, present, count, loopVars, canSleep>>
  PROVE  Control'
BY DEF Control, loopVars

\* An edge that is above CollisionStage moves there.
LEMMA MoveAbove ==
  ASSUME NEW P, Sound(P), Exact(P, {}), Apart(P), Steps(P),
         NEW e \in Edge, P.stage[e] \in {"out", "clump"}, NEW s \in {"out", "clump"}
  PROVE  LET Q == Move(P, {e}, s)
         IN  /\ Kept(P, Q) /\ Resumes(P, Q) /\ Apart(Q) /\ Steps(Q)
             /\ \A k \in Edge : Q.stage[k] \in Down => P.stage[k] \in Down
<1> DEFINE Q == Move(P, {e}, s)
<1>1. /\ Q.status = P.status /\ Q.stepping = P.stepping /\ Q.collides = P.collides
      /\ Q.stage = [k \in Edge |-> IF k = e THEN s ELSE P.stage[k]]
      /\ Q \in PipeType
  BY DEF Move, Sound, PipeType, Stage
<1> HIDE DEF Q
<1>2. \A k \in Edge : Q.stage[k] \in Down => Q.stage[k] = P.stage[k]
  BY <1>1 DEF Down
<1>3. \A k \in Edge : Q.stage[k] \in Low <=> P.stage[k] \in Low
  BY <1>1 DEF Low
<1>4. \A k \in Edge : Q.stage[k] \in Low => Q.stage[k] = P.stage[k]
  BY <1>1 DEF Low
<1>5. Sound(Q) /\ Exact(Q, {})
  BY <1>1, <1>4 DEF Sound, Exact, Moving
<1>d. \A k \in Edge : /\ Q.stage[k] \in Down <=> P.stage[k] \in Down
                      /\ Q.stage[k] = "collision" <=> P.stage[k] = "collision"
  BY <1>1 DEF Down
<1>6. StaysAwake(P, Q) /\ Loses(P, Q) /\ Spreads(P, Q) /\ Resumes(P, Q)
  BY <1>1, <1>3, <1>d DEF StaysAwake, Loses, Spreads, Resumes, Woken, Edge
<1>7. Apart(Q)
  BY <1>3, ApartKept
<1>8. Steps(Q)
  BY <1>1 DEF Steps, Sound, PipeType, Edge
<1> QED BY <1>2, <1>5, <1>6, <1>7, <1>8 DEF Q, Kept

LEMMA AddEdgeStep ==
  ASSUME IInv, NEW e \in Edge, AddEdge(e)
  PROVE  IInv' /\ Faithful
<1> DEFINE Q == Move(Pipe, {e}, "clump")
<1>1. Pipe' = Q
  BY DEF AddEdge, Pipe, Move, IInv, Sound, PipeType
<1>2. Control' /\ present' = present
  BY ControlStays DEF AddEdge, IInv
<1>3. Steps(Pipe)
  BY StepsBetween DEF AddEdge
<1>4. Pipe.stage[e] \in {"out", "clump"}
  BY DEF AddEdge, Pipe
<1>5. /\ Kept(Pipe, Q) /\ Resumes(Pipe, Q) /\ Apart(Q) /\ Steps(Q)
      /\ \A k \in Edge : Q.stage[k] \in Down => Pipe.stage[k] \in Down
  BY <1>3, <1>4, MoveAbove DEF IInv
<1>6. Formed(Q, present')
  BY <1>2, <1>5 DEF Formed, IInv
<1> QED BY <1>1, <1>2, <1>5, <1>6, HandlerStep

LEMMA RemoveEdgeStep ==
  ASSUME IInv, NEW e \in Edge, RemoveEdge(e)
  PROVE  IInv' /\ Faithful
<1>1. Control' /\ present' = present
  BY ControlStays DEF RemoveEdge, IInv
<1>2. Steps(Pipe)
  BY StepsBetween DEF RemoveEdge
<1>3. CASE stage[e] = "clump"
  <2> DEFINE Q == Move(Pipe, {e}, "out")
  <2>1. /\ Kept(Pipe, Q) /\ Resumes(Pipe, Q) /\ Apart(Q) /\ Steps(Q)
        /\ \A k \in Edge : Q.stage[k] \in Down => Pipe.stage[k] \in Down
    BY <1>2, <1>3, MoveAbove DEF IInv, Pipe
  <2>2. Pipe' = Q
    BY <1>3, <2>1, PipeSet DEF RemoveEdge, Kept, Sound
  <2>3. Formed(Q, present')
    BY <1>1, <2>1 DEF Formed, IInv
  <2> QED BY <1>1, <2>1, <2>2, <2>3, HandlerStep
<1>4. CASE stage[e] # "clump"
  <2> DEFINE Q == Withdraw(Pipe, e, "out")
  <2>0. Pipe.stage[e] \in Down
    BY <1>4 DEF RemoveEdge, IInv, Sound, PipeType, Pipe, Stage, Down
  <2>1. /\ Kept(Pipe, Q) /\ Resumes(Pipe, Q) /\ Apart(Q) /\ Q.collides = Pipe.collides
        /\ Steps(Pipe) => Steps(Q)
        /\ Q.stage[e] = "out"
        /\ \A k \in Edge \ {e} : Goes(Pipe, Q, k)
    BY <2>0, WithdrawFacts DEF IInv
  <2>2. Pipe' = Q
    BY <1>4, <2>1, PipeSet DEF RemoveEdge, Kept, Sound
  <2>3. \A k \in Edge : Q.stage[k] \in Down => Pipe.stage[k] \in Down
    BY <2>1 DEF Goes, Follows, Down, Low
  <2>4. Formed(Q, present')
    BY <1>1, <2>3 DEF Formed, IInv
  <2> QED BY <1>1, <1>2, <2>1, <2>2, <2>4, HandlerStep
<1> QED BY <1>3, <1>4

LEMMA DestroyAssemblyStep ==
  ASSUME IInv, NEW a \in Asm, DestroyAssembly(a)
  PROVE  IInv' /\ Faithful
<1> DEFINE Z == WithdrawAll(Pipe, a)
           Q == [Z EXCEPT !.status = [Z.status EXCEPT ![a] = "awake"]]
<1>1. Control'
  <2>1. /\ pc = "idle" /\ present' = present \ {a} /\ count' = [count EXCEPT ![a] = 0]
        /\ UNCHANGED <<pc, done, toErase, canSleep>>
    BY DEF DestroyAssembly, loopVars
  <2>2. 0 \in 0..StepsToSleep
    BY SleepStageAssumption
  <2> QED BY <2>1, <2>2 DEF IInv, Control
<1>2. Steps(Pipe) /\ present' = present \ {a}
  BY StepsBetween DEF DestroyAssembly
<1>3. /\ Kept(Pipe, Z) /\ Resumes(Pipe, Z) /\ Apart(Z) /\ Z.collides = Pipe.collides
      /\ Steps(Pipe) => Steps(Z)
  BY WithdrawAllFacts DEF IInv
<1>4. \A e \in Edge : Z.stage[e] \in Down => a \notin Ends[e] /\ Pipe.stage[e] \in Down
  BY WithdrawAllFacts DEF IInv
<1>5. SetPipe(Q)
  BY DEF DestroyAssembly
<1> HIDE DEF Z
<1>6. /\ Q.stage = Z.stage /\ Q.stepping = Z.stepping /\ Q.collides = Z.collides
      /\ Q.status = [x \in Asm |-> IF x = a THEN "awake" ELSE Z.status[x]]
      /\ Q \in PipeType
  BY <1>3 DEF Kept, Sound, PipeType, Status
<1> HIDE DEF Q
<1>7. Pipe' = Q
  BY <1>5, <1>6, PipeSet
<1>8. Kept(Pipe, Q)
  <2>1. Sound(Q) /\ StaysAwake(Pipe, Q)
    BY <1>3, <1>6, SleepStageAssumption DEF Kept, Sound, StaysAwake
  <2>2. Exact(Q, {})
    <3>1. ASSUME NEW e \in Edge, Q.stage[e] \in Low, NEW x \in Ends[e]
          PROVE  Moving(Q, x) <=> Moving(Z, x)
      BY <1>4, <1>6, <3>1, EndsAreTwo DEF Moving, Down, Low
    <3> QED BY <3>1, <1>3, <1>6 DEF Kept, Exact
  <2>3. Loses(Pipe, Q)
    BY <1>3, <1>6, EndsAreTwo DEF Kept, Loses
  <2>4. Spreads(Pipe, Q)
    <3> SUFFICES ASSUME NEW e \in Edge, Q.stage[e] \in Low, NEW x \in Ends[e], NEW y \in Ends[e],
                        Woken(Pipe, Q, x)
                 PROVE  Minds(Pipe, Q, y)
      BY DEF Spreads
    <3>1. x # a /\ y # a /\ x \in Asm /\ y \in Asm
      BY <1>4, <1>6, EndsAreTwo DEF Down, Low
    <3>2. Minds(Pipe, Z, y)
      BY <3>1, <1>3, <1>6 DEF Kept, Spreads, Woken
    <3>3. StaysAwake(Z, Q)
      BY <1>6 DEF StaysAwake
    <3> QED BY <3>1, <3>2, <3>3, <2>1, <1>3, MindsOn DEF Kept
  <2> QED BY <2>1, <2>2, <2>3, <2>4 DEF Kept
<1>9. Resumes(Pipe, Q)
  <2>1. \A k \in Contact : Q.stage[k] = "collision" => \A x \in Ends[k] : x # a /\ x \in Asm
    BY <1>4, <1>6, EndsAreTwo DEF Down, Edge
  <2>2. Resumes(Z, Q)
    BY <2>1, <1>6 DEF Resumes, Woken
  <2> QED BY <2>2, <1>3, ResumesInTurn
<1>10. Apart(Q) /\ Steps(Q)
  BY <1>2, <1>3, <1>6 DEF Apart, Steps
<1>11. Formed(Q, present')
  BY <1>2, <1>4, <1>6 DEF Formed, IInv
<1> QED BY <1>1, <1>7, <1>8, <1>9, <1>10, <1>11, HandlerStep

\* Waking sleepers and all they touch.
LEMMA RouseKept ==
  ASSUME NEW P, Sound(P), Exact(P, {}), NEW S \in SUBSET Asm, \A a \in S : P.status[a] # "awake"
  PROVE  LET Q == Rouse(P, S, {})
         IN  /\ Kept(P, Q) /\ StepsOn(P, Q) /\ Resumes(P, Q) /\ Q.collides = P.collides
             /\ \A e \in Edge : Follows(P, Q, e)
<1> DEFINE Q == Rouse(P, S, {})
<1>1. /\ Sound(Q) /\ Q.collides = P.collides
      /\ StaysAwake(P, Q)
      /\ \A e \in Edge : Follows(P, Q, e)
      /\ StepsOn(P, Q)
      /\ Exact(Q, {})
      /\ \A e \in Edge : P.stage[e] = "sleep" =>
           \A a, b \in Ends[e] : Woken(P, Q, a) => Minds(P, Q, b)
      /\ \A c \in Contact : P.stage[c] = "collision" =>
           \A a \in Ends[c] : Woken(P, Q, a) => c \in Q.stepping
  BY RouseFacts
<1> HIDE DEF Q
<1>2. Loses(P, Q)
  BY <1>1 DEF Loses, Follows, Low
<1>3. Spreads(P, Q)
  <2> SUFFICES ASSUME NEW e \in Edge, Q.stage[e] \in Low, NEW a \in Ends[e], NEW b \in Ends[e],
                      Woken(P, Q, a)
               PROVE  Minds(P, Q, b)
    BY DEF Spreads
  <2>1. CASE P.stage[e] = "sleep"
    BY <1>1, <2>1
  <2>2. CASE P.stage[e] = "kernel"
    <3>1. PICK x \in Ends[e] : Moving(P, x)
      BY <2>2 DEF Exact, Low
    <3>2. x # a /\ (b = a \/ b = x)
      BY <3>1, EndsAreTwo DEF Moving, Woken
    <3>3. Q.status[x] = "awake"
      BY <3>1, <1>1, EndsAreTwo DEF Moving, StaysAwake
    <3> QED BY <3>2, <3>3 DEF Woken, Minds
  <2> QED BY <1>1, <2>1, <2>2 DEF Follows, Low
<1>4. Resumes(P, Q)
  BY <1>1 DEF Resumes, Follows, StepsOn, Edge, Down
<1> QED BY <1>1, <1>2, <1>3, <1>4 DEF Q, Kept

\* An entry that wakes sleepers between the loops.
LEMMA RouseStep ==
  ASSUME IInv, pc = "idle", NEW S \in SUBSET Asm, \A a \in S : status[a] # "awake",
         SetPipe(Rouse(Pipe, S, {})), Control', present' = present
  PROVE  IInv' /\ Faithful
<1> DEFINE Q == Rouse(Pipe, S, {})
<1>1. /\ Kept(Pipe, Q) /\ StepsOn(Pipe, Q) /\ Resumes(Pipe, Q) /\ Q.collides = Pipe.collides
      /\ \A e \in Edge : Follows(Pipe, Q, e)
  BY RouseKept DEF IInv, Pipe
<1> HIDE DEF Q
<1>2. Pipe' = Q
  BY <1>1, PipeSet DEF Kept, Sound, Q
<1>3. \A e \in Edge : Q.stage[e] \in Low => Pipe.stage[e] \in Low
  BY <1>1 DEF Follows, Low
<1>4. Apart(Q)
  BY <1>3, ApartKept DEF IInv
<1>5. Steps(Q)
  <2>1. \A c \in Contact : Pipe.stage[c] = "collision" => Q.stage[c] = "collision"
    BY <1>1 DEF Follows, Edge
  <2> QED BY <2>1, <1>1, StepsBetween, StepsKept DEF IInv
<1>6. Formed(Q, present')
  BY <1>1 DEF Formed, Follows, Down, IInv
<1> QED BY <1>1, <1>2, <1>4, <1>5, <1>6, HandlerStep

LEMMA SetCanSleepStep ==
  ASSUME IInv, NEW a \in Asm, SetCanSleep(a)
  PROVE  IInv' /\ Faithful
<1>1. Control' /\ present' = present
  <2>1. /\ pc = "idle" /\ a \in Free /\ UNCHANGED <<pc, present, count, done, toErase>>
        /\ canSleep' = IF a \in canSleep THEN canSleep \ {a} ELSE canSleep \cup {a}
    BY DEF SetCanSleep, loopVars
  <2> QED BY <2>1 DEF IInv, Control
<1>2. pc = "idle" /\ SetPipe(Rouse(Pipe, {x \in {a} : status[x] # "awake"}, {}))
  BY DEF SetCanSleep
<1> QED BY <1>1, <1>2, RouseStep

LEMMA TickleStep ==
  ASSUME IInv, NEW a \in Asm, Tickle(a)
  PROVE  IInv' /\ Faithful
<1>1. Control' /\ present' = present
  BY ControlStays DEF Tickle, IInv
<1>2. pc = "idle" /\ status[a] # "awake" /\ SetPipe(Rouse(Pipe, {a}, {}))
  BY DEF Tickle
<1> QED BY <1>1, <1>2, RouseStep

LEMMA SetCollidesStep ==
  ASSUME IInv, NEW c \in Contact, SetCollides(c)
  PROVE  IInv' /\ Faithful
<1> DEFINE other == IF c \in collides THEN collides \ {c} ELSE collides \cup {c}
           M == [Pipe EXCEPT !.collides = other]
           Q == UpdateContacts(M, {c})
<1>1. Control' /\ present' = present /\ pc = "idle"
  BY ControlStays DEF SetCollides, IInv
<1>2. /\ M.status = Pipe.status /\ M.stage = Pipe.stage /\ M.stepping = Pipe.stepping
      /\ M \in PipeType
  BY DEF IInv, Sound, PipeType, Pipe
<1>3. SetPipe(Q)
  BY DEF SetCollides
<1> HIDE DEF M
<1>4. Sound(M) /\ Exact(M, {})
  BY <1>2 DEF IInv, Sound, Exact, Moving
<1>5. /\ Kept(M, Q) /\ StepsOn(M, Q) /\ Resumes(M, Q)
      /\ \A e \in Edge : Goes(M, Q, e)
  BY <1>4, UpdateFacts
<1> HIDE DEF Q
<1>6. Pipe' = Q
  BY <1>3, <1>5, PipeSet DEF Kept, Sound
<1>7. Kept(Pipe, Q) /\ Resumes(Pipe, Q)
  BY <1>2, <1>5 DEF Kept, StaysAwake, Loses, Spreads, Resumes, Woken, Minds, WokenIn
<1>8. \A e \in Edge : Q.stage[e] \in Low => Pipe.stage[e] \in Low
  BY <1>2, <1>5 DEF Goes, Follows, Low
<1>9. Apart(Q)
  BY <1>8, ApartKept DEF IInv
<1>10. Steps(Q)
  <2>1. Steps(M)
    BY <1>1, <1>2, StepsBetween DEF Steps
  <2>2. \A k \in Contact : M.stage[k] = "collision" => Q.stage[k] = "collision"
    BY <1>5 DEF Goes, Follows, Edge
  <2> QED BY <2>1, <2>2, <1>4, <1>5, StepsKept
<1>11. Formed(Q, present')
  BY <1>1, <1>2, <1>5 DEF Formed, Goes, Follows, Down, Low, IInv
<1> QED BY <1>1, <1>6, <1>7, <1>9, <1>10, <1>11, HandlerStep

LEMMA StartStepStep ==
  ASSUME IInv, StartStep
  PROVE  IInv' /\ Faithful
<1>1. Pipe' = Pipe
  BY DEF StartStep, pipeVars, Pipe
<1>2. Control' /\ SteppingInStage' /\ present \subseteq present'
  BY DEF StartStep, IInv, Control, SteppingInStage, pipeVars, loopVars
<1> QED BY <1>1, <1>2, StillStep

LEMMA RouteEdgeStep ==
  ASSUME IInv, NEW e \in Edge, RouteEdge(e)
  PROVE  IInv' /\ Faithful
<1>1. Control' /\ present' = Asm /\ pc = "edges"
  BY ControlStays DEF RouteEdge, IInv, Control
<1>2. Steps(Pipe)
  BY <1>1, StepsBetween
<1>3. Pipe.stage[e] = "clump" /\ ~(Ends[e] \subseteq Anchored)
  BY DEF RouteEdge, Pipe
<1>4. \A Q : Formed(Q, present')
  BY <1>1, EndsAreTwo DEF Formed
<1>5. CASE e \in Contact
  <2> DEFINE Q == EnterContact(Pipe, e)
  <2>1. /\ Kept(Pipe, Q) /\ StepsOn(Pipe, Q) /\ Resumes(Pipe, Q) /\ Apart(Q)
        /\ \A k \in Edge \ {e} : Goes(Pipe, Q, k)
    BY <1>3, <1>5, EnterContactFacts DEF IInv
  <2>2. SetPipe(Q)
    BY <1>5 DEF RouteEdge
  <2> HIDE DEF Q
  <2>3. Pipe' = Q
    BY <2>1, <2>2, PipeSet DEF Kept, Sound
  <2>4. \A c \in Contact : Pipe.stage[c] = "collision" => Q.stage[c] = "collision"
    BY <1>3, <2>1 DEF Goes, Follows, Edge, Low
  <2>5. Steps(Q)
    BY <1>2, <2>1, <2>4, StepsKept DEF IInv
  <2> QED BY <1>1, <1>4, <2>1, <2>3, <2>5, HandlerStep
<1>6. CASE e \notin Contact
  <2> DEFINE Q == EnterJoint(Pipe, e)
  <2>0. e \in Joint
    BY <1>6 DEF Edge
  <2>1. /\ Kept(Pipe, Q) /\ StepsOn(Pipe, Q) /\ Resumes(Pipe, Q) /\ Apart(Q)
        /\ \A k \in Edge \ {e} : Goes(Pipe, Q, k)
    BY <1>3, <2>0, EnterJointFacts DEF IInv
  <2>2. SetPipe(Q)
    BY <1>6 DEF RouteEdge
  <2> HIDE DEF Q
  <2>3. Pipe' = Q
    BY <2>1, <2>2, PipeSet DEF Kept, Sound
  <2>4. \A c \in Contact : Pipe.stage[c] = "collision" => Q.stage[c] = "collision"
    BY <1>3, <2>1 DEF Goes, Follows, Edge, Low
  <2>5. Steps(Q)
    BY <1>2, <2>1, <2>4, StepsKept DEF IInv
  <2> QED BY <1>1, <1>4, <2>1, <2>3, <2>5, HandlerStep
<1> QED BY <1>5, <1>6

LEMMA EdgesDoneStep ==
  ASSUME IInv, EdgesDone
  PROVE  IInv' /\ Faithful
<1>1. Pipe' = Pipe
  BY DEF EdgesDone, pipeVars, Pipe
<1>2. Control' /\ SteppingInStage' /\ present \subseteq present'
  BY DEF EdgesDone, UpToDate, IInv, Control, SteppingInStage, pipeVars, loopVars
<1> QED BY <1>1, <1>2, StillStep

LEMMA CollideStep ==
  ASSUME IInv, NEW c \in Contact, Collide(c)
  PROVE  IInv' /\ Faithful
<1>1. /\ pc = "collide" /\ c \in stepping /\ c \notin done /\ c \in Edge
      /\ done' = done \cup {c} /\ UNCHANGED <<pc, present, count, canSleep>>
  BY DEF Collide, Edge
<1>2. stage[c] = "collision"
  BY <1>1 DEF IInv, SteppingInStage, Control
<1>3. toErase' \in {toErase, toErase \cup {c}}
  BY DEF Collide
<1>4. Control'
  BY <1>1, <1>3 DEF IInv, Control
<1>5. CASE UNCHANGED pipeVars
  <2>1. Pipe' = Pipe
    BY <1>5 DEF pipeVars, Pipe
  <2>2. SteppingInStage'
    BY <1>3, <1>5 DEF pipeVars, SteppingInStage, IInv
  <2> QED BY <1>1, <1>4, <2>1, <2>2, StillStep
<1>6. CASE OkToSim(Pipe, c) /\ toErase' = toErase \cup {c} /\ SetPipe(Lower(Pipe, c))
  <2> DEFINE Q == Lower(Pipe, c)
  <2>1. ~HasJoint(Pipe, c) /\ \E a \in Ends[c] : Moving(Pipe, a)
    BY <1>6 DEF OkToSim, OkToStep
  <2>2. ~(Ends[c] \subseteq Anchored) /\ Pipe.stage[c] = "collision"
    BY <2>1, <1>2 DEF Moving, Free, Pipe
  <2>3. /\ Kept(Pipe, Q) /\ StepsOn(Pipe, Q) /\ Resumes(Pipe, Q)
        /\ Q.stage[c] = "kernel"
        /\ \A k \in Edge \ {c} : Follows(Pipe, Q, k)
    BY <1>1, <2>2, LowerFacts DEF IInv, Low
  <2> HIDE DEF Q
  <2>4. Pipe' = Q
    BY <1>6, <2>3, PipeSet DEF Kept, Sound, Q
  <2>5. Apart(Q)
    <3> SUFFICES ASSUME NEW j \in Joint, Q.stage[j] \in Low, NEW k \in Over[j], Q.stage[k] \in Low
                 PROVE  FALSE
      BY DEF Apart
    <3>1. j \in Edge /\ k \in Edge /\ j # c
      BY SleepStageAssumption DEF Edge
    <3>2. Pipe.stage[j] \in Low
      BY <2>3, <3>1 DEF Follows, Low
    <3>3. k # c
      BY <2>1, <3>2 DEF HasJoint, Low
    <3>4. Pipe.stage[k] \in Low
      BY <2>3, <3>1, <3>3 DEF Follows, Low
    <3> QED BY <3>2, <3>4 DEF IInv, Apart
  <2>6. Formed(Q, present')
    BY <1>1, EndsAreTwo DEF Formed, IInv, Control
  <2>7. SteppingInStage'
    <3> SUFFICES ASSUME NEW k \in Q.stepping
                 PROVE  Q.stage[k] = "collision" \/ (Q.stage[k] = "kernel" /\ k \in toErase')
      BY <2>4 DEF SteppingInStage, Pipe
    <3>1. CASE k = c
      BY <1>6, <2>3, <3>1
    <3>2. CASE k # c /\ k \in Pipe.stepping
      <4>1. Pipe.stage[k] = "collision" \/ (Pipe.stage[k] = "kernel" /\ k \in toErase)
        BY <3>2 DEF IInv, SteppingInStage, Pipe
      <4>2. k \in Edge
        BY <3>2 DEF IInv, Sound, PipeType, Edge
      <4> QED BY <1>6, <2>3, <3>2, <4>1, <4>2 DEF Follows
    <3>3. CASE k \notin Pipe.stepping
      BY <2>3, <3>3 DEF StepsOn
    <3> QED BY <3>1, <3>2, <3>3
  <2>8. Faithful
    BY <2>3, <2>4, NoneForgotten DEF Faithful, Kept
  <2> QED BY <1>4, <2>3, <2>4, <2>5, <2>6, <2>7, <2>8 DEF IInv, Kept
<1> QED BY <1>5, <1>6 DEF Collide

LEMMA CollideDoneStep ==
  ASSUME IInv, CollideDone
  PROVE  IInv' /\ Faithful
<1>1. /\ pc = "collide" /\ pc' = "rest" /\ done' = {} /\ toErase' = {}
      /\ stepping' = stepping \ toErase
      /\ UNCHANGED <<present, status, stage, collides, count, canSleep>>
  BY DEF CollideDone, Erased
<1>2. Control'
  BY <1>1 DEF IInv, Control
<1>3. /\ Pipe'.status = Pipe.status /\ Pipe'.stage = Pipe.stage /\ Pipe' \in PipeType
  BY <1>1 DEF Pipe, IInv, Sound, PipeType
<1>4. /\ Sound(Pipe') /\ Exact(Pipe', {}) /\ Apart(Pipe') /\ Formed(Pipe', present')
  BY <1>1, <1>3 DEF IInv, Sound, Exact, Apart, Formed, Moving
<1>5. Faithful
  <2>1. Pipe'.stepping = Pipe.stepping \ toErase
    BY <1>1 DEF Pipe
  <2> QED BY <1>3, <2>1 DEF Faithful, Loses, Forgotten, Moving, Spreads, Woken
<1>6. SteppingInStage'
  BY <1>1 DEF SteppingInStage, IInv
<1> QED BY <1>2, <1>4, <1>5, <1>6 DEF IInv

LEMMA SeparateStep ==
  ASSUME IInv, Separate
  PROVE  IInv' /\ Faithful
<1>1. /\ pc = "separate" /\ pc' \in {"idle", "collide"}
      /\ UNCHANGED <<present, count, done, toErase, canSleep>>
  BY DEF Separate, loopVars
<1>2. Control'
  BY <1>1 DEF IInv, Control
<1>3. PICK apart \in SUBSET {c \in Contact : stage[c] = "kernel"} :
        SetPipe([Raise(Pipe, apart) EXCEPT !.stepping = @ \cup apart])
  BY DEF Separate
<1> DEFINE R == Raise(Pipe, apart)
           Q == [R EXCEPT !.stepping = @ \cup apart]
<1>4. /\ Kept(Pipe, R) /\ StepsOn(Pipe, R) /\ R.collides = Pipe.collides
      /\ \A e \in apart : Pipe.stage[e] \in Low => R.stage[e] = "collision"
      /\ \A e \in Edge : e \notin apart \/ Pipe.stage[e] \notin Low => Follows(Pipe, R, e)
      /\ \A c \in Contact : Pipe.stage[c] = "collision" =>
           \A a \in Ends[c] : Woken(Pipe, R, a) => c \in R.stepping
  BY <1>3, RaiseFacts DEF IInv, Edge
<1>5. \A c \in apart : c \in Contact /\ Pipe.stage[c] \in Low
  BY <1>3 DEF Pipe, Low
<1> HIDE DEF R
<1>6. /\ Q.status = R.status /\ Q.stage = R.stage /\ Q.stepping = R.stepping \cup apart
      /\ Q \in PipeType
  BY <1>4, <1>5 DEF Kept, Sound, PipeType
<1>7. Pipe' = Q
  BY <1>3, <1>6, PipeSet DEF R
<1> HIDE DEF Q
<1>8. Kept(Pipe, Q)
  BY <1>4, <1>6 DEF Kept, Sound, Exact, StaysAwake, Loses, Spreads, Minds, WokenIn, Woken, Moving
<1>9. Resumes(Pipe, Q)
  <2>1. \A j \in Joint : Follows(Pipe, R, j)
    BY <1>4, <1>5, SleepStageAssumption DEF Edge
  <2>2. \A c \in Contact \ apart : Follows(Pipe, R, c)
    BY <1>4 DEF Edge
  <2> QED BY <2>1, <2>2, <1>4, <1>6 DEF Resumes, Follows, StepsOn, Woken, Down
<1>10. \A e \in Edge : Goes(Pipe, Q, e)
  BY <1>4, <1>5, <1>6 DEF Goes, Follows
<1>11. Apart(Q)
  <2>1. \A e \in Edge : Q.stage[e] \in Low => Pipe.stage[e] \in Low
    BY <1>10 DEF Goes, Follows, Low
  <2> QED BY <2>1, ApartKept DEF IInv
<1>12. Steps(Q)
  <2>1. Steps(Pipe)
    BY <1>1, StepsBetween
  <2>2. \A c \in Contact : Pipe.stage[c] = "collision" => R.stage[c] = "collision"
    BY <1>4 DEF Follows, Edge, Low
  <2>3. Steps(R)
    BY <1>4, <2>1, <2>2, StepsKept DEF IInv
  <2> QED BY <1>4, <1>5, <1>6, <2>3 DEF Steps
<1>13. Formed(Q, present')
  BY <1>1, <1>10 DEF Formed, Goes, Follows, Down, Low, IInv
<1> QED BY <1>2, <1>7, <1>8, <1>9, <1>11, <1>12, <1>13, HandlerStep

LEMMA DozeStep ==
  ASSUME IInv, Doze
  PROVE  IInv' /\ Faithful
<1>1. /\ pc = "doze" /\ pc' = "separate"
      /\ UNCHANGED <<present, count, collides, done, toErase, canSleep>>
  BY DEF Doze, loopVars
<1>2. Control'
  BY <1>1 DEF IInv, Control
<1>3. Steps(Pipe)
  BY <1>1, StepsBetween
<1>4. CASE UNCHANGED <<status, stage, stepping>>
  <2>1. Pipe' = Pipe
    BY <1>1, <1>4 DEF Pipe
  <2>2. SteppingInStage'
    BY <1>1, <1>4 DEF SteppingInStage, IInv
  <2> QED BY <1>1, <1>2, <2>1, <2>2, StillStep
<1>5. CASE ~UNCHANGED <<status, stage, stepping>>
  <2>1. PICK wake \in SUBSET Asm, deep \in SUBSET Asm, near \in SUBSET Asm :
          /\ \A a \in wake \cup deep : status[a] = "checking"
          /\ wake \cap deep = {}
          /\ status' = [a \in Asm |-> IF a \in wake THEN "awake"
                                      ELSE IF a \in deep THEN "deep"
                                      ELSE IF a \in near /\ status[a] = "deep" THEN "checking"
                                      ELSE status[a]]
          /\ stage' = [e \in Edge |-> IF stage[e] = "sleep" /\ Ends[e] \cap wake # {}
                                      THEN "kernel" ELSE stage[e]]
          /\ stepping' = SteppingWith(Pipe, wake)
    <3> DEFINE movers(a) == {b \in Free : /\ Moving(Pipe, b)
                                         /\ \E e \in Edge : stage[e] \in Low /\ Ends[e] = {a, b}}
               checked == {a \in Asm : status[a] = "checking"}
               wakes(strong) == {a \in checked : a \notin canSleep \/ movers(a) \cap strong # {}}
               deeps(strong) == {a \in checked \ wakes(strong) : movers(a) = {}}
               nears(strong) == UNION {Ends[e] : e \in {k \in Edge : stage[k] = "sleep"
                                                          /\ Ends[k] \cap wakes(strong) # {}}}
    <3>1. PICK strong \in SUBSET Free :
            /\ status' = [a \in Asm |-> IF a \in wakes(strong) THEN "awake"
                                        ELSE IF a \in deeps(strong) THEN "deep"
                                        ELSE IF a \in nears(strong) /\ status[a] = "deep" THEN "checking"
                                        ELSE status[a]]
            /\ stage' = [e \in Edge |-> IF stage[e] = "sleep" /\ Ends[e] \cap wakes(strong) # {}
                                        THEN "kernel" ELSE stage[e]]
            /\ stepping' = SteppingWith(Pipe, wakes(strong))
      BY <1>5 DEF Doze
    <3>2. /\ wakes(strong) \subseteq checked /\ deeps(strong) \subseteq checked
          /\ wakes(strong) \cap deeps(strong) = {}
      OBVIOUS
    <3>3. nears(strong) \in SUBSET Asm
      BY EndsAreTwo
    <3> HIDE DEF wakes, deeps, nears
    <3> QED BY <3>1, <3>2, <3>3
  <2>2. /\ Pipe'.status = status' /\ Pipe'.stage = stage' /\ Pipe'.stepping = stepping'
        /\ Pipe'.collides = collides
        /\ Pipe' \in [status : {status'}, stage : {stage'}, stepping : {stepping'}, collides : {collides}]
    BY <1>1 DEF Pipe
  <2>3. stepping' = stepping \cup {c \in Contact : stage[c] = "collision" /\ Ends[c] \cap wake # {}}
    BY <2>1 DEF SteppingWith, Pipe
  <2>4. /\ status \in [Asm -> Status] /\ stage \in [Edge -> Stage]
        /\ stepping \subseteq Contact /\ collides \subseteq Contact
        /\ \A a \in Anchored : status[a] = "awake"
    BY DEF IInv, Sound, PipeType, Pipe
  <2>5. Sound(Pipe')
    <3>1. status' \in [Asm -> Status] /\ stage' \in [Edge -> Stage]
      BY <2>1, <2>4 DEF Status, Stage
    <3>2. \A a \in Anchored : status'[a] = "awake"
      BY <2>1, <2>4, SleepStageAssumption
    <3> QED BY <2>2, <2>3, <2>4, <3>1, <3>2 DEF Sound, PipeType
  <2>6. \A a \in Asm : status[a] = "awake" => status'[a] = "awake"
    BY <2>1
  <2>7. \A a \in Asm : status'[a] = "awake" => status[a] = "awake" \/ a \in wake
    BY <2>1
  <2>8. \A e \in Edge : stage[e] \in Low => (stage[e] = "kernel" <=> \E a \in Ends[e] : Moving(Pipe, a))
    BY DEF IInv, Exact, Pipe
  <2>9. Exact(Pipe', {})
    <3> SUFFICES ASSUME NEW e \in Edge, stage'[e] \in Low
                 PROVE  stage'[e] = "kernel" <=> \E a \in Ends[e] : a \in Free /\ status'[a] = "awake"
      BY <2>2 DEF Exact, Moving
    <3>1. stage[e] \in Low
      BY <2>1 DEF Low
    <3>2. CASE stage[e] = "kernel"
      <4>1. PICK a \in Ends[e] : a \in Free /\ status[a] = "awake"
        BY <2>8, <3>1, <3>2 DEF Moving, Pipe
      <4> QED BY <2>1, <2>6, <3>2, <4>1 DEF Free
    <3>3. CASE stage[e] = "sleep" /\ Ends[e] \cap wake # {}
      <4>1. PICK a \in Ends[e] : a \in wake
        BY <3>3
      <4>2. a \in Free
        BY <2>1, <2>4, <4>1 DEF Free
      <4> QED BY <2>1, <3>3, <4>1, <4>2
    <3>4. CASE stage[e] = "sleep" /\ Ends[e] \cap wake = {}
      <4>1. \A a \in Ends[e] : ~(a \in Free /\ status[a] = "awake")
        BY <2>8, <3>1, <3>4 DEF Moving, Pipe
      <4> QED BY <2>1, <2>7, <3>4, <4>1, EndsAreTwo
    <3> QED BY <3>1, <3>2, <3>3, <3>4 DEF Low
  <2>10. Apart(Pipe')
    <3>1. \A e \in Edge : stage'[e] \in Low => stage[e] \in Low
      BY <2>1 DEF Low
    <3>2. \A e \in Edge : Pipe'.stage[e] \in Low => Pipe.stage[e] \in Low
      BY <2>2, <3>1 DEF Pipe
    <3> QED BY <3>2, ApartKept DEF IInv
  <2>11. Formed(Pipe', present')
    <3>1. \A e \in Edge : stage'[e] \in Down => stage[e] \in Down
      BY <2>1 DEF Down
    <3> QED BY <1>1, <2>2, <3>1 DEF Formed, IInv, Pipe
  <2>12. SteppingInStage'
    <3>1. \A c \in stepping : stage[c] = "collision"
      BY <1>3 DEF Steps, Pipe
    <3> QED BY <2>1, <2>3, <2>4, <3>1 DEF SteppingInStage, Edge
  <2>13. Loses(Pipe, Pipe')
    <3>1. \A e \in Edge : stage[e] \in Low => stage'[e] \in Low
      BY <2>1 DEF Low
    <3> QED BY <2>2, <3>1 DEF Loses, Pipe
  <2>14. Resumes(Pipe, Pipe')
    <3> SUFFICES ASSUME NEW c \in Contact, stage'[c] = "collision", c \notin stepping'
                 PROVE  /\ stage[c] = "collision" /\ c \notin stepping
                        /\ \A j \in Joint : stage[j] \in Down => stage'[j] \in Down
                        /\ \A a \in Ends[c] : ~(status[a] # "awake" /\ status'[a] = "awake")
      BY <2>2 DEF Resumes, Woken, Pipe
    <3>1. c \in Edge /\ Ends[c] \subseteq Asm
      BY EndsAreTwo DEF Edge
    <3>2. stage[c] = "collision" /\ Ends[c] \cap wake = {} /\ c \notin stepping
      BY <2>1, <2>3, <3>1
    <3>3. \A j \in Joint : stage[j] \in Down => stage'[j] \in Down
      BY <2>1 DEF Down, Edge
    <3> QED BY <3>1, <3>2, <3>3, <2>7
  <2> QED BY <1>1, <1>2, <2>5, <2>9, <2>10, <2>11, <2>12, <2>13, <2>14, NoneForgotten DEF IInv, Faithful
<1> QED BY <1>4, <1>5

LEMMA RestStep ==
  ASSUME IInv, Rest
  PROVE  IInv' /\ Faithful
<1>1. /\ pc = "rest" /\ pc' = "doze"
      /\ UNCHANGED <<present, collides, done, toErase, canSleep>>
  BY DEF Rest, loopVars
<1>2. PICK S \in SUBSET Free, more \in SUBSET Asm, reset \in SUBSET Asm :
        /\ \A a \in more : ~StillForLong(count[a])
        /\ \A a \in S : Moving(Pipe, a)
        /\ count' = [a \in Asm |-> IF a \in more THEN count[a] + 1
                                   ELSE IF a \in reset THEN 0 ELSE count[a]]
        /\ status' = [a \in Asm |-> IF a \in S THEN "checking" ELSE status[a]]
        /\ stage' = [e \in Edge |-> IF stage[e] = "kernel" /\ Settled(e, S)
                                    THEN "sleep" ELSE stage[e]]
        /\ stepping' = SteppingWith(Pipe, S)
  <2> DEFINE asked(throttling) == {a \in Free : Moving(Pipe, a) /\ ~(throttling /\ a \in CanThrottle)}
             tired(still, ok, throttling) == {a \in asked(throttling) : ShouldSleep(a, still, ok)}
             asleep(still, ok, throttling) ==
               {a \in tired(still, ok, throttling) : StillForLong(count[a])}
             more(still, ok, throttling) ==
               tired(still, ok, throttling) \ asleep(still, ok, throttling)
  <2>1. PICK still \in SUBSET Free, ok \in SUBSET Free, throttling \in BOOLEAN :
          /\ count' = [a \in Asm |-> IF a \in more(still, ok, throttling) THEN count[a] + 1
                                     ELSE IF a \in asked(throttling) THEN 0 ELSE count[a]]
          /\ status' = [a \in Asm |-> IF a \in asleep(still, ok, throttling) THEN "checking"
                                      ELSE status[a]]
          /\ stage' = [e \in Edge |-> IF stage[e] = "kernel" /\ Settled(e, asleep(still, ok, throttling))
                                      THEN "sleep" ELSE stage[e]]
          /\ stepping' = SteppingWith(Pipe, asleep(still, ok, throttling))
    BY DEF Rest
  <2>2. /\ asleep(still, ok, throttling) \in SUBSET Free
        /\ more(still, ok, throttling) \in SUBSET Asm
        /\ asked(throttling) \in SUBSET Asm
        /\ \A a \in more(still, ok, throttling) : ~StillForLong(count[a])
        /\ \A a \in asleep(still, ok, throttling) : Moving(Pipe, a)
    BY DEF Free
  <2> HIDE DEF asked, asleep, more
  <2> QED BY <2>1, <2>2
<1>3. /\ status \in [Asm -> Status] /\ stage \in [Edge -> Stage]
      /\ stepping \subseteq Contact /\ collides \subseteq Contact
      /\ \A a \in Anchored : status[a] = "awake"
      /\ count \in [Asm -> 0..StepsToSleep]
  BY DEF IInv, Sound, PipeType, Pipe, Control
<1>4. Control'
  <2>1. \A a \in more : count[a] + 1 \in 0..StepsToSleep
    BY <1>2, <1>3, SleepStageAssumption DEF StillForLong
  <2>2. count' \in [Asm -> 0..StepsToSleep]
    BY <1>2, <1>3, <2>1, SleepStageAssumption
  <2> QED BY <1>1, <2>2 DEF IInv, Control
<1>5. /\ Pipe'.status = status' /\ Pipe'.stage = stage' /\ Pipe'.stepping = stepping'
      /\ Pipe'.collides = collides
      /\ Pipe' \in [status : {status'}, stage : {stage'}, stepping : {stepping'}, collides : {collides}]
  BY <1>1 DEF Pipe
<1>6. stepping' = stepping \cup {c \in Contact : stage[c] = "collision" /\ Ends[c] \cap S # {}}
  BY <1>2 DEF SteppingWith, Pipe
<1>7. Sound(Pipe')
  <2>1. status' \in [Asm -> Status] /\ stage' \in [Edge -> Stage]
    BY <1>2, <1>3 DEF Status, Stage
  <2>2. \A a \in Anchored : status'[a] = "awake"
    BY <1>2, <1>3, SleepStageAssumption DEF Free
  <2> QED BY <1>3, <1>5, <1>6, <2>1, <2>2 DEF Sound, PipeType
<1>8. \A a \in Asm : status'[a] = "awake" <=> status[a] = "awake" /\ a \notin S
  BY <1>2
<1>9. \A a \in Asm : Moving(Pipe', a) <=> Moving(Pipe, a) /\ a \notin S
  BY <1>5, <1>8 DEF Moving, Pipe
<1>10. Exact(Pipe', {})
  <2> SUFFICES ASSUME NEW e \in Edge, stage'[e] \in Low
               PROVE  stage'[e] = "kernel" <=> \E a \in Ends[e] : Moving(Pipe', a)
    BY <1>5 DEF Exact
  <2>1. /\ stage[e] \in Low
        /\ stage[e] = "kernel" <=> \E a \in Ends[e] : Moving(Pipe, a)
    <3>1. stage[e] \in Low
      BY <1>2 DEF Low
    <3> QED BY <3>1 DEF IInv, Exact, Pipe
  <2>2. Ends[e] \subseteq Asm
    BY EndsAreTwo
  <2>3. CASE stage[e] = "kernel" /\ Settled(e, S)
    <3>1. stage'[e] = "sleep"
      BY <1>2, <2>3
    <3>2. \A a \in Ends[e] : ~Moving(Pipe', a)
      BY <1>9, <2>2, <2>3 DEF Settled
    <3> QED BY <3>1, <3>2
  <2>4. CASE stage[e] = "kernel" /\ ~Settled(e, S)
    <3>1. stage'[e] = "kernel"
      BY <1>2, <2>4
    <3>2. PICK a \in Ends[e] : Moving(Pipe, a) /\ a \notin S
      BY <2>1, <2>4 DEF Settled
    <3> QED BY <1>9, <2>2, <3>1, <3>2
  <2>5. CASE stage[e] = "sleep"
    <3>1. stage'[e] = "sleep"
      BY <1>2, <2>5
    <3> QED BY <1>9, <2>1, <2>2, <2>5, <3>1
  <2> QED BY <2>1, <2>3, <2>4, <2>5 DEF Low
<1>11. \A e \in Edge : /\ stage'[e] \in Low <=> stage[e] \in Low
                       /\ stage'[e] \in Down <=> stage[e] \in Down
                       /\ stage'[e] = "collision" <=> stage[e] = "collision"
  BY <1>2 DEF Low, Down
<1>12. Apart(Pipe')
  <2>1. \A e \in Edge : Pipe'.stage[e] \in Low => Pipe.stage[e] \in Low
    BY <1>5, <1>11 DEF Pipe
  <2> QED BY <2>1, ApartKept DEF IInv
<1>13. Formed(Pipe', present')
  BY <1>1, <1>5, <1>11 DEF Formed, IInv, Pipe
<1>14. SteppingInStage'
  <2>1. \A c \in stepping : stage[c] = "collision"
    BY <1>1, StepsBetween DEF Steps, Pipe
  <2> QED BY <1>3, <1>6, <1>11, <2>1 DEF SteppingInStage, Edge
<1>15. \A a \in Asm : ~Woken(Pipe, Pipe', a)
  BY <1>5, <1>8 DEF Woken, Pipe
<1>16. Faithful
  <2>1. Loses(Pipe, Pipe')
    BY <1>5, <1>11 DEF Loses, Pipe
  <2>2. Spreads(Pipe, Pipe')
    BY <1>15, EndsAreTwo DEF Spreads
  <2>3. Resumes(Pipe, Pipe')
    <3>1. \A c \in Contact : Ends[c] \subseteq Asm
      BY EndsAreTwo DEF Edge
    <3> QED BY <1>5, <1>6, <1>11, <1>15, <3>1 DEF Resumes, Pipe, Edge
  <2> QED BY <2>1, <2>2, <2>3, NoneForgotten DEF Faithful
<1> QED BY <1>4, <1>7, <1>10, <1>12, <1>13, <1>14, <1>16 DEF IInv

\* Every step, and the stuttering one.
LEMMA NextStep ==
  ASSUME IInv, [Next]_vars
  PROVE  IInv' /\ Faithful
<1>1. CASE UNCHANGED vars
  <2>1. UNCHANGED <<pc, present, count, loopVars, canSleep>> /\ Pipe' = Pipe
    BY <1>1 DEF vars, loopVars, Pipe
  <2>2. Control' /\ SteppingInStage'
    BY <1>1, <2>1 DEF IInv, Control, SteppingInStage, vars, loopVars
  <2> QED BY <2>1, <2>2, StillStep
<1>2. ASSUME NEW e \in Edge, AddEdge(e) \/ RemoveEdge(e) \/ RouteEdge(e)
      PROVE  IInv' /\ Faithful
  BY <1>2, AddEdgeStep, RemoveEdgeStep, RouteEdgeStep
<1>3. ASSUME NEW a \in Asm, DestroyAssembly(a) \/ SetCanSleep(a) \/ Tickle(a)
      PROVE  IInv' /\ Faithful
  BY <1>3, DestroyAssemblyStep, SetCanSleepStep, TickleStep
<1>4. ASSUME NEW c \in Contact, SetCollides(c) \/ Collide(c)
      PROVE  IInv' /\ Faithful
  BY <1>4, SetCollidesStep, CollideStep
<1>5. CASE StartStep \/ EdgesDone \/ CollideDone \/ Rest \/ Doze \/ Separate
  BY <1>5, StartStepStep, EdgesDoneStep, CollideDoneStep, RestStep, DozeStep, SeparateStep
<1> QED BY <1>1, <1>2, <1>3, <1>4, <1>5 DEF Next

-----------------------------------------------------------------------------
\* The inductive invariant holds whatever the world does between two steps.
THEOREM InvariantHolds == Spec => []IInv
<1>1. Init => IInv
  BY InitHolds
<1>2. IInv /\ [Next]_vars => IInv'
  BY NextStep
<1> QED BY <1>1, <1>2, PTL DEF Spec

\* TypeOK is an invariant: the sleep counts are bounded, what is anchored stays
\* awake and what is down is between assemblies that are formed.
THEOREM TypeCorrect == Spec => []TypeOK
<1>1. IInv => TypeOK
  BY Implied
<1> QED BY <1>1, InvariantHolds, PTL

\* What moves is stepped with its contacts and joints, what sleeps is not.
THEOREM KernelExactlyHolds == Spec => []KernelExactly
<1>1. IInv => KernelExactly
  BY Implied
<1> QED BY <1>1, InvariantHolds, PTL

\* What CollisionStage steps is in CollisionStage, but for what its loop erases.
THEOREM SteppingInStageHolds == Spec => []SteppingInStage
<1>1. IInv => SteppingInStage
  BY Implied
<1> QED BY <1>1, InvariantHolds, PTL

\* Two primitives with a joint that is down are not simulated as colliding.
THEOREM JointedApartHolds == Spec => []JointedApart
<1>1. IInv => JointedApart
  BY Implied
<1> QED BY <1>1, InvariantHolds, PTL

\* Whoever loses a contact or a joint that was down is awake after it.
THEOREM LosingWakesHolds == Spec => LosingWakes
<1>1. IInv /\ [Next]_vars =>
        [\A e \in Edge : stage[e] \in Low /\ stage'[e] \notin Low =>
           \A a \in Ends[e] : status'[a] = "awake"]_vars
  BY NextStep DEF Faithful, Loses, Pipe
<1> QED BY <1>1, InvariantHolds, PTL DEF Spec, LosingWakes

\* Waking spreads along the edges that are down, but in checkSleepingAssemblies;
\* where it stops after WakeDepth links the next sleeper is looked at again.
THEOREM WakingSpreadsHolds == Spec => WakingSpreads
<1>1. ASSUME IInv, [Next]_vars, pc # "doze"
      PROVE  LET woken == {a \in Asm : status[a] # "awake" /\ status'[a] = "awake"}
             IN  \A e \in Edge : stage'[e] \in Low =>
                   \A a \in Ends[e] \cap woken, b \in Ends[e] :
                     \/ status'[b] = "awake"
                     \/ status'[b] = "checking" /\ Cardinality(woken) > WakeDepth
  <2> DEFINE woken == {a \in Asm : status[a] # "awake" /\ status'[a] = "awake"}
  <2>1. Spreads(Pipe, Pipe')
    BY <1>1, NextStep DEF Faithful
  <2>2. woken = WokenIn(Pipe, Pipe')
    BY DEF WokenIn, Woken, Pipe
  <2>3. \A a \in woken : Woken(Pipe, Pipe', a)
    BY DEF Woken, Pipe
  <2> HIDE DEF woken
  <2>4. \A e \in Edge : stage'[e] \in Low =>
          \A a \in Ends[e] \cap woken, b \in Ends[e] :
            \/ status'[b] = "awake"
            \/ status'[b] = "checking" /\ Cardinality(woken) > WakeDepth
    BY <2>1, <2>2, <2>3 DEF Spreads, Minds, Pipe
  <2> QED BY <2>4 DEF woken
<1>2. IInv /\ [Next]_vars =>
        [pc # "doze" =>
           LET woken == {a \in Asm : status[a] # "awake" /\ status'[a] = "awake"}
           IN  \A e \in Edge : stage'[e] \in Low =>
                 \A a \in Ends[e] \cap woken, b \in Ends[e] :
                   \/ status'[b] = "awake"
                   \/ status'[b] = "checking" /\ Cardinality(woken) > WakeDepth]_vars
  BY <1>1
<1> QED BY <1>2, InvariantHolds, PTL DEF Spec, WakingSpreads

\* A contact that should be stepped is forgotten only by the loop that marked it.
THEOREM ForgottenByLoopOnlyHolds == Spec => ForgottenByLoopOnly
<1>1. IInv /\ [Next]_vars =>
        [\A c \in Contact : Forgotten(Pipe', c) => Forgotten(Pipe, c) \/ c \in toErase]_vars
  BY NextStep DEF Faithful
<1> QED BY <1>1, InvariantHolds, PTL DEF Spec, ForgottenByLoopOnly
=============================================================================
