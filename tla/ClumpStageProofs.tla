--------------------------- MODULE ClumpStageProofs ---------------------------
(***************************************************************************)
(* The invariants of ClumpStage for any primitives, joints and contacts.   *)
(***************************************************************************)
EXTENDS ClumpStage, SequenceFacts, FiniteSetTheorems, TLAPS

\* The types, but for how deep a clump can be.
AsmTyped ==
  /\ anchoredClumps \subseteq Prim /\ freeClumps \subseteq Prim
  /\ asmOf \in [Prim -> Prim \cup {NoPrim}]
  /\ asmMotors \in [Prim -> SUBSET Motor] /\ asmIncons \in [Prim -> SUBSET Motor]
  /\ externalEdges \in [Prim -> SUBSET Contact] /\ internalEdges \in [Prim -> SUBSET Contact]
  /\ motors \in Seq(Motor)
  /\ assemblies \subseteq Prim /\ downAsm \subseteq Prim
  /\ edges \subseteq Contact /\ downEdges \subseteq Contact
Typed ==
  /\ pc \in {"idle", "anchors", "twos", "ones", "primitives", "motors", "sort", "attach",
             "edges", "angles"}
  /\ present \subseteq Prim /\ anchored \subseteq Prim /\ joined \subseteq Edge
  /\ anchors \subseteq Prim
  /\ rigidTwos \subseteq Rigid /\ rigidZeros \subseteq Rigid
  /\ DOMAIN rigidOnes \subseteq Rigid /\ DOMAIN primitives \subseteq Prim
  /\ clumpOf \in [Prim -> Prim \cup {NoPrim}]
  /\ parent \in [Prim -> Prim \cup {NoPrim}]
  /\ depth \in [Prim -> Nat \cup {-1}]
  /\ held \subseteq Prim
  /\ inconsistent \in [Prim -> SUBSET Rigid]
  /\ motorAngles \subseteq Motor
  /\ \A e \in joined : EndsOf(e) \subseteq present
  /\ AsmTyped

\* What the loops of process have emptied stays empty until an earlier one is entered again.
Phase ==
  /\ pc \notin {"idle", "anchors"} => anchors = {}
  /\ pc \notin {"idle", "anchors", "twos"} => rigidTwos = {}
  /\ pc \notin {"idle", "anchors", "twos", "ones"} => DOMAIN rigidOnes = {}
  /\ pc \notin {"idle", "anchors", "twos", "ones", "primitives"} => DOMAIN primitives = {}
  /\ pc \in {"sort", "attach", "edges", "angles"} => anchoredClumps = {}
  /\ pc \in {"edges", "angles"} => freeClumps = {} /\ motors = <<>>
  /\ pc = "idle" /\ LateAnchors => \A c \in Clumps : asmOf[c] # NoPrim

\* SpanningTree, by the parent of each primitive.
Tree ==
  \A p \in Prim :
    /\ clumpOf[p] # NoPrim => clumpOf[clumpOf[p]] = clumpOf[p] /\ depth[p] \in Nat
    /\ clumpOf[p] = p => depth[p] = 0
    /\ clumpOf[p] \notin {NoPrim, p} =>
         /\ parent[p] \in Prim /\ clumpOf[parent[p]] = clumpOf[p]
         /\ depth[p] = depth[parent[p]] + 1
         /\ \E r \in joined \cap Rigid : EndsOf(r) = {p, parent[p]}
    /\ clumpOf[p] = NoPrim => depth[p] = -1 /\ parent[p] = NoPrim

\* Without motors each assembly has one clump.
Alone == Motor = {} => \A c \in Prim : asmOf[c] \in {c, NoPrim}

\* RigidFiled, MotorsFiled and EdgesFiled of one joint or contact.
RigidAt(r) ==
  LET c0 == clumpOf[End[r][1]]
      c1 == clumpOf[End[r][2]]
  IN  /\ r \in rigidTwos => r \notin DOMAIN rigidOnes /\ r \notin rigidZeros
      /\ r \in DOMAIN rigidOnes => r \notin rigidZeros /\ c0 # c1 /\ NoPrim \in {c0, c1}
      /\ r \in rigidZeros => c0 = NoPrim /\ c1 = NoPrim
      /\ InBuffers(r) => r \in joined /\ \A c \in Prim : r \notin inconsistent[c]
      /\ \A c \in Prim : r \in inconsistent[c] =>
           /\ r \in joined /\ c \in {c0, c1} /\ c0 # c1 /\ c0 \in held /\ c1 \in held
           /\ r \in inconsistent[c0] /\ r \in inconsistent[c1]
      /\ r \in joined /\ ~InBuffers(r) =>
           c0 \in Prim /\ c1 \in Prim /\ (c0 = c1 \/ r \in inconsistent[c0])
MotorAt(m) ==
  LET a0 == AsmOfPrim(End[m][1])
      a1 == AsmOfPrim(End[m][2])
  IN  /\ MotorsFind(m) =>
           m \in joined /\ \A a \in Prim : m \notin asmMotors[a] /\ m \notin asmIncons[a]
      /\ \A a \in Prim : m \in asmMotors[a] =>
           m \in joined /\ a0 = a /\ a1 = a /\ \A b \in Prim : m \notin asmIncons[b]
      /\ \A a \in Prim : m \in asmIncons[a] =>
           /\ m \in joined /\ a \in {a0, a1} /\ a0 \in Prim /\ a1 \in Prim
           /\ m \in asmIncons[a0] /\ m \in asmIncons[a1]
      /\ m \in joined /\ ~MotorsFind(m) =>
           a0 \in Prim /\ (m \in asmMotors[a0] \/ m \in asmIncons[a0])
EdgeAt(e) ==
  LET a0 == AsmOfPrim(End[e][1])
      a1 == AsmOfPrim(End[e][2])
  IN  /\ e \in edges => e \in joined
      /\ \A a \in Prim : e \in internalEdges[a] <=>
           e \in joined /\ e \notin edges /\ a = a0 /\ a = a1
      /\ \A a \in Prim : e \in externalEdges[a] <=>
           e \in joined /\ e \notin edges /\ a0 # a1 /\ a \in {a0, a1}
      /\ e \in joined /\ e \notin edges => a0 \in Prim /\ a1 \in Prim
      /\ e \in downEdges <=>
           e \in joined /\ e \notin edges /\ a0 # a1 /\ ~(a0 \in held /\ a1 \in held)
RigidIn == \A r \in Rigid : RigidAt(r)
MotorsIn == Once(motors) /\ \A m \in Motor : MotorAt(m)
EdgesIn == \A e \in Contact : EdgeAt(e)

\* Each clump that is no root hangs by one motor.
Attached == UNION {asmMotors[a] : a \in Prim}
By(c) == {m \in Attached : parent[c] \in EndsOf(m) /\ clumpOf[Other(m, parent[c])] = c}
Hung == \A c \in Clumps :
  IF asmOf[c] \in {c, NoPrim} THEN parent[c] = NoPrim
  ELSE /\ parent[c] \in Prim /\ clumpOf[parent[c]] # c
       /\ \E m \in Motor : By(c) = {m}

\* An anchor that waits is not that of a clump that process could take for its own.
AnchorsLoose ==
  \A p \in anchors : \/ clumpOf[p] = NoPrim
                     \/ LateAnchors /\ ~(clumpOf[p] = p /\ asmOf[p] = NoPrim)

-----------------------------------------------------------------------------
\* What is defined by going on from the last, a bounded number of times, is defined.
Iteration(g, V, F, a, N) ==
  g \in [0..N -> V] /\ g[0] = a /\ \A n \in 1..N : g[n] = F[g[n - 1]]

\* The iteration is there, for any function and any number of times.
LEMMA IterationExists ==
  ASSUME NEW V, NEW F \in [V -> V], NEW a \in V, NEW N \in Nat
  PROVE  \E g : Iteration(g, V, F, a, N)
<1> DEFINE Good(k) == \E g \in [0..k -> V] : g[0] = a /\ \A n \in 1..k : g[n] = F[g[n - 1]]
           S == {k \in Nat : ~Good(k)}
<1>1. ASSUME S # {} PROVE FALSE
  <2>1. PICK k \in S : \A n \in S : k <= n
    BY <1>1, LeastNat
  <2>2. k # 0
    <3> DEFINE g == [n \in 0..0 |-> a]
    <3>1. g \in [0..0 -> V] /\ g[0] = a /\ 1..0 = {}
      OBVIOUS
    <3>2. Good(0)
      BY <3>1
    <3> QED
      BY <3>2
  <2>3. k \in Nat /\ k - 1 \in Nat /\ k - 1 \notin S
    <3>1. k \in Nat
      BY <2>1
    <3>2. k - 1 \in Nat /\ ~(k <= k - 1)
      BY <2>2, <3>1
    <3> HIDE DEF S
    <3> QED
      BY <2>1, <3>1, <3>2
  <2>4. PICK g \in [0..(k - 1) -> V] : g[0] = a /\ \A n \in 1..(k - 1) : g[n] = F[g[n - 1]]
    BY <2>3
  <2> DEFINE h == [n \in 0..k |-> IF n = k THEN F[g[k - 1]] ELSE g[n]]
  <2>5. h \in [0..k -> V]
    <3>1. \A n \in 0..k : n # k => n \in 0..(k - 1)
      BY <2>3
    <3>2. k - 1 \in 0..(k - 1)
      BY <2>3
    <3> QED
      BY <3>1, <3>2
  <2>6. h[0] = a
    BY <2>2, <2>3, <2>4
  <2>7. ASSUME NEW n \in 1..k PROVE h[n] = F[h[n - 1]]
    <3>1. n \in 0..k /\ n - 1 \in 0..k /\ n - 1 # k
      BY <2>3
    <3>2. h[n - 1] = g[n - 1]
      BY <3>1
    <3>3. CASE n = k
      BY <3>1, <3>2, <3>3
    <3>4. CASE n # k
      <4>1. n \in 1..(k - 1)
        BY <2>3, <3>4
      <4>2. h[n] = g[n]
        BY <3>1, <3>4
      <4> QED
        BY <2>4, <3>2, <4>1, <4>2
    <3> QED
      BY <3>3, <3>4
  <2>8. Good(k)
    <3> HIDE DEF h
    <3> QED
      BY <2>5, <2>6, <2>7
  <2> QED
    BY <2>1, <2>8
<1>2. Good(N)
  BY <1>1
<1> QED
  BY <1>2 DEF Iteration

-----------------------------------------------------------------------------
\* The bodies of the clump of top whose parents, by par, are in S.
Below(par, top, S) ==
  {p \in Prim : clumpOf[p] = clumpOf[top] /\ p # clumpOf[p] /\ par[p] \in S}

\* The levels of a tree under top are what their definition says.
LEMMA LevelDef ==
  ASSUME NEW par, NEW top \in Prim
  PROVE  LET at == Level(par, top)
             N == Cardinality(Prim)
         IN /\ N \in Nat /\ DOMAIN at = 0..N /\ at[0] = {top}
            /\ \A n \in 1..N : at[n] = Below(par, top, at[n - 1])
            /\ \A n \in 0..N : at[n] \subseteq Prim
<1> DEFINE N == Cardinality(Prim)
           V == SUBSET Prim
           F == [S \in V |-> Below(par, top, S)]
<1>1. N \in Nat
  BY FS_CardinalityType, ClumpStageAssumption
<1>2. F \in [V -> V] /\ {top} \in V
  BY DEF Below
<1> HIDE DEF N
<1>3. PICK g \in [0..N -> V] : g[0] = {top} /\ \A n \in 1..N : g[n] = F[g[n - 1]]
  <2> DEFINE a == {top}
  <2>1. F \in [V -> V] /\ a \in V
    BY <1>2
  <2> HIDE DEF F, V, a
  <2>2. \E g : Iteration(g, V, F, a, N)
    BY <1>1, <2>1, IterationExists
  <2> QED
    BY <2>2 DEF a, Iteration
<1> DEFINE Eq(f) == f = [n \in 0..N |-> IF n = 0 THEN {top} ELSE Below(par, top, f[n - 1])]
           at == CHOOSE f : Eq(f)
<1>4. Eq(g)
  <2>1. ASSUME NEW n \in 0..N
        PROVE  g[n] = IF n = 0 THEN {top} ELSE Below(par, top, g[n - 1])
    <3>1. CASE n = 0
      BY <1>3, <3>1
    <3>2. CASE n # 0
      <4>1. n \in 1..N /\ n - 1 \in 0..N
        BY <1>1, <3>2
      <4> QED
        BY <1>3, <3>2, <4>1
    <3> QED
      BY <3>1, <3>2
  <2> QED
    BY <2>1
<1>5. Level(par, top) = at
  BY DEF Level, Below, N
<1>6. Eq(at)
  <2> HIDE DEF Eq
  <2> QED
    BY <1>4
<1> HIDE DEF at
<1>7. /\ DOMAIN at = 0..N /\ at[0] = {top}
      /\ \A n \in 1..N : at[n] = Below(par, top, at[n - 1])
  <2>1. 0 \in 0..N /\ \A n \in 1..N : n \in 0..N /\ n # 0
    BY <1>1
  <2> QED
    BY <1>6, <2>1
<1>8. \A n \in 0..N : at[n] \subseteq Prim
  <2>1. \A n \in 0..N : n = 0 \/ n \in 1..N
    BY <1>1
  <2> QED
    BY <1>7, <2>1 DEF Below
<1> QED
  BY <1>1, <1>5, <1>7, <1>8 DEF N

\* Parents that lead towards the root by some rank make the members of a clump a tree: each
\* is on one level, the one after that of its parent.
LEMMA Ranked ==
  ASSUME NEW c \in Prim, clumpOf[c] = c, NEW par, NEW rank \in [Prim -> Nat],
         \A p \in Members(c) \ {c} : par[p] \in Members(c) /\ rank[par[p]] < rank[p]
  PROVE  LET at == Level(par, c)
             N == Cardinality(Prim)
         IN /\ \A n \in 0..N : at[n] \subseteq Members(c)
            /\ \A p \in Members(c) : \E n \in 0..N :
                 /\ n < N /\ p \in at[n] /\ \A k \in 0..N : p \in at[k] => k = n
            /\ \A p \in Members(c) : \A n \in 0..N : p \in at[n] =>
                 IF p = c THEN n = 0 ELSE n - 1 \in 0..N /\ par[p] \in at[n - 1]
<1> DEFINE at == Level(par, c)
           N == Cardinality(Prim)
           M == Members(c)
<1>1. /\ N \in Nat /\ at[0] = {c} /\ \A n \in 1..N : at[n] = Below(par, c, at[n - 1])
  BY LevelDef
<1>2. M \subseteq Prim /\ c \in M /\ \A p \in Prim : p \in M <=> clumpOf[p] = c
  BY DEF Members
<1>3. \A p \in M \ {c} : par[p] \in M /\ rank[par[p]] < rank[p]
  OBVIOUS
<1>4. \A n \in 1..N : \A p : p \in at[n] <=> p \in M /\ p # c /\ par[p] \in at[n - 1]
  BY <1>1, <1>2 DEF Below
<1> HIDE DEF at, N, M
<1>5. \A n \in 0..N : n = 0 \/ (n \in 1..N /\ n - 1 \in 0..N)
  BY <1>1
<1>6. \A n \in 0..N : at[n] \subseteq M
  BY <1>1, <1>2, <1>4, <1>5
<1>7. ASSUME NEW p \in M, NEW n \in 0..N, p \in at[n]
      PROVE  IF p = c THEN n = 0 ELSE n - 1 \in 0..N /\ par[p] \in at[n - 1]
  BY <1>1, <1>4, <1>5, <1>7

\* No member is on two levels.
<1>8. ASSUME NEW p \in M, NEW n \in 0..N, NEW k \in 0..N, p \in at[n], p \in at[k] PROVE k = n
  <2> DEFINE S == {i \in 0..N : \E q \in M : \E j \in 0..N : q \in at[i] /\ q \in at[j] /\ i # j}
  <2>1. ASSUME S # {} PROVE FALSE
    <3>1. S \subseteq Nat
      BY <1>1
    <3>2. PICK i \in S : \A j \in S : i <= j
      <4> HIDE DEF S
      <4> QED
        BY <2>1, <3>1, LeastNat
    <3>3. PICK q \in M, j \in 0..N : i \in 0..N /\ q \in at[i] /\ q \in at[j] /\ i # j
      BY <3>2
    <3>4. q # c
      BY <1>7, <3>3
    <3>5. /\ i - 1 \in 0..N /\ j - 1 \in 0..N /\ par[q] \in at[i - 1] /\ par[q] \in at[j - 1]
          /\ par[q] \in M /\ i - 1 # j - 1
      BY <1>1, <1>3, <1>7, <3>3, <3>4
    <3>6. i - 1 \in S
      BY <3>5
    <3>7. i \in Int /\ ~(i <= i - 1)
      BY <1>1, <3>3
    <3> HIDE DEF S
    <3> QED
      BY <3>2, <3>6, <3>7
  <2>2. k \notin S
    <3> HIDE DEF S
    <3> QED
      BY <2>1
  <2> QED
    BY <1>8, <2>2

\* There is a way from the root to each member.
<1> DEFINE Way(f, n, p) == /\ f \in [0..n -> M] /\ f[0] = c /\ f[n] = p
                           /\ \A i \in 1..n : f[i] # c /\ par[f[i]] = f[i - 1]
<1>9. ASSUME NEW p \in M PROVE \E n \in Nat : \E f : Way(f, n, p)
  <2> DEFINE lost(q) == \A n \in Nat : ~\E f : Way(f, n, q)
             S == {rank[q] : q \in {x \in M : lost(x)}}
  <2>1. ASSUME S # {} PROVE FALSE
    <3>1. S \subseteq Nat
      BY <1>2
    <3>2. PICK i \in S : \A j \in S : i <= j
      <4> HIDE DEF S
      <4> QED
        BY <2>1, <3>1, LeastNat
    <3>3. PICK q \in M : lost(q) /\ i = rank[q]
      <4> HIDE DEF lost
      <4> QED
        BY <3>2
    <3>4. q # c
      <4> DEFINE g == [k \in 0..0 |-> c]
      <4>1. g \in [0..0 -> M] /\ g[0] = c /\ 1..0 = {}
        BY <1>2
      <4> HIDE DEF g
      <4>2. Way(g, 0, c)
        BY <4>1
      <4> HIDE DEF Way
      <4> QED
        BY <3>3, <4>2
    <3>5. par[q] \in M /\ rank[par[q]] < rank[q] /\ rank[par[q]] \in Nat /\ rank[q] \in Nat
      BY <1>2, <1>3, <3>4
    <3>6. ~lost(par[q])
      <4> HIDE DEF lost
      <4>1. ~(i <= rank[par[q]])
        BY <3>3, <3>5
      <4>2. rank[par[q]] \notin S
        <5> HIDE DEF S
        <5> QED
          BY <3>2, <4>1
      <4> QED
        BY <3>5, <4>2
    <3>0. PICK n \in Nat : \E f : Way(f, n, par[q])
      <4> HIDE DEF Way
      <4> QED
        BY <3>6
    <3>7. PICK f : Way(f, n, par[q])
      BY <3>0
    <3> DEFINE g == [k \in 0..(n + 1) |-> IF k = n + 1 THEN q ELSE f[k]]
    <3>8. \A k \in 0..(n + 1) : k # n + 1 => k \in 0..n
      OBVIOUS
    <3>9. g \in [0..(n + 1) -> M]
      BY <3>7, <3>8
    <3>10. g[0] = c /\ g[n + 1] = q
      BY <3>7
    <3>11. ASSUME NEW k \in 1..(n + 1) PROVE g[k] # c /\ par[g[k]] = g[k - 1]
      <4>1. CASE k = n + 1
        <5>1. g[k] = q /\ g[k - 1] = f[n]
          BY <4>1
        <5> QED
          BY <3>4, <3>7, <5>1
      <4>2. CASE k # n + 1
        <5>1. k \in 1..n /\ g[k] = f[k] /\ g[k - 1] = f[k - 1]
          BY <4>2
        <5> QED
          BY <3>7, <5>1
      <4> QED
        BY <4>1, <4>2
    <3> HIDE DEF g
    <3>12. Way(g, n + 1, q)
      BY <3>9, <3>10, <3>11
    <3> HIDE DEF Way
    <3>13. n + 1 \in Nat
      OBVIOUS
    <3> QED
      BY <3>3, <3>12, <3>13
  <2>2. ~lost(p)
    <3>1. rank[p] \notin S
      <4> HIDE DEF S
      <4> QED
        BY <2>1
    <3> HIDE DEF lost
    <3> QED
      BY <3>1
  <2> HIDE DEF Way
  <2> QED
    BY <2>2

\* It is no longer than there are primitives, and takes a level at each step.
<1>10. ASSUME NEW p \in M, NEW n \in Nat, NEW f, Way(f, n, p) PROVE n < N /\ p \in at[n]
  <2>1. /\ f \in [0..n -> M] /\ f[0] = c /\ f[n] = p
        /\ \A i \in 1..n : i \in 0..n /\ i - 1 \in 0..n /\ f[i] \in M /\ f[i] # c /\ par[f[i]] = f[i - 1]
    BY <1>10
  <2> HIDE DEF Way
  <2>2. \A i \in 0..n : f[i] \in M /\ rank[f[i]] \in Nat
    BY <1>2, <2>1
  <2> DEFINE S == {j \in 0..n : \E i \in 0..n : i < j /\ ~(rank[f[i]] < rank[f[j]])}
  <2>3. ASSUME S # {} PROVE FALSE
    <3>1. S \subseteq Nat
      OBVIOUS
    <3>2. PICK j \in S : \A k \in S : j <= k
      <4> HIDE DEF S
      <4> QED
        BY <2>3, <3>1, LeastNat
    <3>3. PICK i \in 0..n : j \in 0..n /\ i < j /\ ~(rank[f[i]] < rank[f[j]])
      BY <3>2
    <3>4. j \in 1..n /\ j - 1 \in 0..n /\ ~(j <= j - 1)
      BY <3>3
    <3>5. rank[f[j - 1]] < rank[f[j]]
      BY <1>3, <2>1, <3>4
    <3>6. j - 1 \notin S
      <4> HIDE DEF S
      <4> QED
        BY <3>2, <3>4
    <3>7. i < j - 1
      BY <3>3, <3>4, <3>5
    <3>8. rank[f[i]] < rank[f[j - 1]]
      BY <3>4, <3>6, <3>7
    <3> QED
      BY <2>2, <3>3, <3>4, <3>5, <3>8
  <2>4. \A i, j \in 0..n : i < j => rank[f[i]] < rank[f[j]]
    <3>1. \A j \in 0..n : j \notin S
      <4> HIDE DEF S
      <4> QED
        BY <2>3
    <3> QED
      BY <3>1
  <2> HIDE DEF S
  <2>5. n < N
    <3>1. \A i, j \in 0..n : f[i] = f[j] => i = j
      BY <2>2, <2>4
    <3>2. f \in Injection(0..n, Prim)
      BY <1>2, <2>1, <3>1 DEF Injection, IsInjective
    <3>3. Cardinality(0..n) = n + 1 /\ Cardinality(0..n) <= N
      <4>1. Cardinality(0..n) <= N
        BY <3>2, FS_Injection, ClumpStageAssumption DEF N
      <4>2. Cardinality(0..n) = n + 1
        BY FS_Interval
      <4> QED
        BY <4>1, <4>2
    <3> QED
      BY <1>1, <3>3
  <2> DEFINE R == {i \in 0..n : f[i] \notin at[i]}
  <2>6. ASSUME R # {} PROVE FALSE
    <3>1. R \subseteq Nat
      OBVIOUS
    <3>2. PICK j \in R : \A k \in R : j <= k
      <4> HIDE DEF R
      <4> QED
        BY <2>6, <3>1, LeastNat
    <3>3. j \in 1..n
      BY <1>1, <2>1, <3>2
    <3>4. j - 1 \in 0..n /\ ~(j <= j - 1) /\ j \in 1..N
      BY <1>1, <2>5, <3>3
    <3>5. j - 1 \notin R
      <4> HIDE DEF R
      <4> QED
        BY <3>2, <3>4
    <3>6. f[j] \in at[j]
      BY <1>4, <2>1, <3>3, <3>4, <3>5
    <3> QED
      BY <3>2, <3>6
  <2>7. n \notin R
    <3> HIDE DEF R
    <3> QED
      BY <2>6
  <2> QED
    BY <2>1, <2>5, <2>7
<1>11. ASSUME NEW p \in M
       PROVE  \E n \in 0..N : n < N /\ p \in at[n] /\ \A k \in 0..N : p \in at[k] => k = n
  <2> HIDE DEF Way
  <2>0. PICK n \in Nat : \E f : Way(f, n, p)
    BY <1>9
  <2>1. PICK f : Way(f, n, p)
    BY <2>0
  <2>2. n < N /\ p \in at[n]
    BY <1>10, <2>1
  <2>3. n \in 0..N
    BY <1>1, <2>2
  <2> QED
    BY <1>8, <2>2, <2>3
<1> QED
  BY <1>6, <1>7, <1>11 DEF at, N, M

-----------------------------------------------------------------------------
\* In a clump the level of a primitive is its depth, and there are primitives for each.
LEMMA LevelDepth ==
  ASSUME Typed, Tree, NEW c \in Clumps
  PROVE  LET at == Level(parent, c)
             N == Cardinality(Prim)
         IN /\ N \in Nat /\ \A n \in 0..N : at[n] \subseteq Members(c)
            /\ \A p \in Members(c) :
                 /\ depth[p] \in 0..N /\ depth[p] < N
                 /\ \A n \in 0..N : p \in at[n] <=> n = depth[p]
<1> DEFINE at == Level(parent, c)
           N == Cardinality(Prim)
           M == Members(c)
           rank == [p \in Prim |-> IF depth[p] \in Nat THEN depth[p] ELSE 0]
<1>1. N \in Nat
  BY FS_CardinalityType, ClumpStageAssumption
<1>2. c \in Prim /\ clumpOf[c] = c /\ depth[c] = 0 /\ c \in M /\ c # NoPrim
  BY ClumpStageAssumption DEF Clumps, Members, Tree
<1>3. \A p \in M : p \in Prim /\ depth[p] \in Nat
  BY <1>2 DEF Members, Tree
<1>4. \A p \in M \ {c} : parent[p] \in M /\ depth[p] = depth[parent[p]] + 1
  BY <1>2 DEF Members, Tree
<1>5. rank \in [Prim -> Nat] /\ \A p \in M : rank[p] = depth[p]
  BY <1>3
<1> HIDE DEF rank
<1>6. \A p \in M \ {c} : parent[p] \in M /\ rank[parent[p]] < rank[p]
  BY <1>3, <1>4, <1>5
<1>7. /\ \A n \in 0..N : at[n] \subseteq M
      /\ \A p \in M : \E n \in 0..N : n < N /\ p \in at[n] /\ \A k \in 0..N : p \in at[k] => k = n
      /\ \A p \in M : \A n \in 0..N : p \in at[n] =>
           IF p = c THEN n = 0 ELSE n - 1 \in 0..N /\ parent[p] \in at[n - 1]
  BY <1>2, <1>5, <1>6, Ranked
<1> HIDE DEF at, M, N
<1>8. ASSUME NEW p \in M, NEW n \in 0..N, p \in at[n] PROVE n = depth[p]
  <2> DEFINE S == {i \in 0..N : \E q \in M : q \in at[i] /\ i # depth[q]}
  <2>1. ASSUME S # {} PROVE FALSE
    <3>1. S \subseteq Nat
      BY <1>1
    <3>2. PICK i \in S : \A j \in S : i <= j
      <4> HIDE DEF S
      <4> QED
        BY <2>1, <3>1, LeastNat
    <3>3. PICK q \in M : i \in 0..N /\ q \in at[i] /\ i # depth[q]
      BY <3>2
    <3>4. q # c
      BY <1>2, <1>7, <3>3
    <3>5. /\ i - 1 \in 0..N /\ parent[q] \in at[i - 1] /\ parent[q] \in M
          /\ depth[q] = depth[parent[q]] + 1 /\ depth[parent[q]] \in Nat /\ i \in Nat
      BY <1>1, <1>3, <1>4, <1>7, <3>3, <3>4
    <3>6. i - 1 # depth[parent[q]] /\ ~(i <= i - 1)
      BY <3>3, <3>5
    <3>7. i - 1 \in S
      BY <3>5, <3>6
    <3> HIDE DEF S
    <3> QED
      BY <3>2, <3>6, <3>7
  <2>2. n \notin S
    <3> HIDE DEF S
    <3> QED
      BY <2>1
  <2> QED
    BY <1>8, <2>2
<1>9. ASSUME NEW p \in M
      PROVE  depth[p] \in 0..N /\ depth[p] < N /\ \A n \in 0..N : p \in at[n] <=> n = depth[p]
  <2>1. PICK n \in 0..N : n < N /\ p \in at[n]
    BY <1>7
  <2>2. n = depth[p]
    BY <1>8, <2>1
  <2> QED
    BY <1>8, <2>1, <2>2
<1> QED
  BY <1>1, <1>7, <1>9 DEF at, M, N

\* Bodies of each clump are the tree that Clump::inSpanTree walks.
LEMMA TreeIsSpanningTree ==
  ASSUME Typed, Tree
  PROVE  SpanningTree
<1> SUFFICES ASSUME NEW p \in Prim
             PROVE  /\ clumpOf[p] # NoPrim =>
                         /\ clumpOf[p] \in Clumps /\ depth[p] >= 0
                         /\ p \in Level(parent, clumpOf[p])[depth[p]]
                    /\ clumpOf[p] \notin {NoPrim, p} =>
                         \E r \in joined \cap Rigid : EndsOf(r) = {p, parent[p]}
                    /\ clumpOf[p] = NoPrim => depth[p] = -1 /\ parent[p] = NoPrim
  BY DEF SpanningTree
<1>1. ASSUME clumpOf[p] # NoPrim
      PROVE  /\ clumpOf[p] \in Clumps /\ depth[p] >= 0
             /\ p \in Level(parent, clumpOf[p])[depth[p]]
  <2> DEFINE c == clumpOf[p]
  <2>1. c \in Clumps /\ p \in Members(c)
    BY <1>1 DEF Typed, Tree, Clumps, Members
  <2>2. depth[p] \in 0..Cardinality(Prim) /\ p \in Level(parent, c)[depth[p]]
    BY <2>1, LevelDepth
  <2> QED
    BY <2>1, <2>2
<1> QED
  BY <1>1 DEF Tree

\* Clump::getRigidJoints reaches all of the clump.
LEMMA ReachedMembers ==
  ASSUME Typed, Tree, NEW c \in Clumps
  PROVE  Reached(c) = Members(c)
<1> DEFINE N == Cardinality(Prim)
           M == Members(c)
           Near(S) == {p \in M : \E q \in S : p = q \/ \E r \in joined \cap Rigid : EndsOf(r) = {p, q}}
           V == SUBSET Prim
           F == [S \in V |-> Near(S)]
           a == {c}
<1>1. N \in Nat
  BY FS_CardinalityType, ClumpStageAssumption
<1>2. c \in Prim /\ c \in M /\ M \subseteq Prim /\ c # NoPrim /\ depth[c] = 0
  BY ClumpStageAssumption DEF Clumps, Members, Tree
<1>3. F \in [V -> V] /\ a \in V
  BY <1>2
<1>4. PICK g : g \in [0..N -> V] /\ g[0] = a /\ \A n \in 1..N : g[n] = F[g[n - 1]]
  <2> HIDE DEF F, V, a, N
  <2>1. \E g : Iteration(g, V, F, a, N)
    BY <1>1, <1>3, IterationExists
  <2> QED
    BY <2>1 DEF Iteration
<1> DEFINE Eq(f) == f = [n \in 0..N |-> IF n = 0 THEN {c} ELSE Near(f[n - 1])]
           at == CHOOSE f : Eq(f)
<1>5. Eq(g)
  <2>1. ASSUME NEW n \in 0..N
        PROVE  g[n] = IF n = 0 THEN {c} ELSE Near(g[n - 1])
    <3> HIDE DEF N
    <3>1. CASE n = 0
      BY <1>4, <3>1
    <3>2. CASE n # 0
      <4>1. n \in 1..N /\ n - 1 \in 0..N
        BY <1>1, <3>2
      <4>2. g[n] = F[g[n - 1]] /\ g[n - 1] \in V
        BY <1>4, <4>1
      <4> QED
        BY <3>2, <4>2
    <3> QED
      BY <3>1, <3>2
  <2> HIDE DEF N
  <2> QED
    BY <1>4, <2>1
<1>6. Reached(c) = at[N]
  BY DEF Reached
<1>7. Eq(at)
  <2> HIDE DEF Eq
  <2> QED
    BY <1>5
<1> HIDE DEF at
<1>8. \A n \in 1..N : at[n] = Near(at[n - 1])
  <2> HIDE DEF N
  <2>1. \A n \in 1..N : n \in 0..N /\ n # 0
    BY <1>1
  <2> DEFINE G(n) == Near(at[n - 1])
  <2>2. at = [n \in 0..N |-> IF n = 0 THEN {c} ELSE G(n)]
    BY <1>7
  <2> HIDE DEF G
  <2>3. \A n \in 1..N : at[n] = G(n)
    BY <2>1, <2>2
  <2> QED
    BY <2>3 DEF G
<1>9. at[0] = {c} /\ \A n \in 0..N : n = 0 \/ (n \in 1..N /\ n - 1 \in 0..N)
  <2> HIDE DEF N
  <2> QED
    BY <1>1, <1>7
<1>10. \A n \in 0..N : at[n] \subseteq M
  BY <1>2, <1>8, <1>9
<1>11. \A p \in M : depth[p] \in 0..N
  BY LevelDepth
<1> HIDE DEF N, M
<1>12. ASSUME NEW p \in M PROVE p \in at[depth[p]]
  <2> DEFINE S == {depth[q] : q \in {x \in M : x \notin at[depth[x]]}}
  <2>1. ASSUME S # {} PROVE FALSE
    <3>1. S \subseteq Nat
      BY <1>1, <1>11
    <3>2. PICK i \in S : \A j \in S : i <= j
      <4> HIDE DEF S
      <4> QED
        BY <2>1, <3>1, LeastNat
    <3>3. PICK q \in M : i = depth[q] /\ q \notin at[depth[q]]
      BY <3>2
    <3>4. q # c
      BY <1>2, <1>9, <3>3
    <3>5. /\ parent[q] \in M /\ depth[q] = depth[parent[q]] + 1
          /\ \E r \in joined \cap Rigid : EndsOf(r) = {q, parent[q]}
      BY <1>2, <3>4 DEF Tree, Members, M
    <3>6. depth[q] \in 1..N /\ depth[parent[q]] = depth[q] - 1 /\ ~(i <= depth[parent[q]])
      BY <1>1, <1>11, <3>3, <3>5
    <3>7. parent[q] \in at[depth[q] - 1]
      <4>1. depth[parent[q]] \notin S
        <5> HIDE DEF S
        <5> QED
          BY <3>2, <3>6
      <4> QED
        BY <3>5, <3>6, <4>1
    <3>8. q \in at[depth[q]]
      BY <1>8, <3>5, <3>6, <3>7
    <3> QED
      BY <3>3, <3>8
  <2>2. depth[p] \notin S
    <3> HIDE DEF S
    <3> QED
      BY <2>1
  <2> QED
    BY <2>2
<1>13. ASSUME NEW p \in M PROVE p \in at[N]
  <2> DEFINE S == {i \in depth[p]..N : p \notin at[i]}
  <2>1. ASSUME S # {} PROVE FALSE
    <3>1. S \subseteq Nat
      BY <1>1, <1>11
    <3>2. PICK i \in S : \A j \in S : i <= j
      <4> HIDE DEF S
      <4> QED
        BY <2>1, <3>1, LeastNat
    <3>3. i # depth[p]
      BY <1>12, <3>2
    <3>4. i - 1 \in depth[p]..N /\ i \in 1..N /\ ~(i <= i - 1)
      BY <1>1, <1>11, <3>2, <3>3
    <3>5. p \in at[i - 1]
      <4>1. i - 1 \notin S
        <5> HIDE DEF S
        <5> QED
          BY <3>2, <3>4
      <4> QED
        BY <3>4, <4>1
    <3>6. p \in at[i]
      BY <1>8, <3>4, <3>5
    <3> QED
      BY <3>2, <3>6
  <2>2. N \notin S /\ N \in depth[p]..N
    <3>1. N \in depth[p]..N
      BY <1>1, <1>11
    <3> HIDE DEF S
    <3> QED
      BY <2>1, <3>1
  <2> QED
    BY <2>2
<1>14. N \in 0..N
  BY <1>1
<1> QED
  BY <1>6, <1>10, <1>13, <1>14 DEF M

\* The tree under a primitive: those whose way to the root leads over it.
LEMMA SubtreeFacts ==
  ASSUME Typed, Tree, NEW top \in Prim, clumpOf[top] \notin {NoPrim, top}
  PROVE  LET c == clumpOf[top]
             T == Subtree(top)
         IN /\ c \in Clumps /\ T \subseteq Members(c) \ {c} /\ top \in T /\ parent[top] \notin T
            /\ \A p \in T : depth[p] >= depth[top] /\ (depth[p] = depth[top] => p = top)
            /\ \A p \in T : p # top => parent[p] \in T
            /\ \A p \in Members(c) \ {c} : parent[p] \in T => p \in T
<1> DEFINE c == clumpOf[top]
           T == Subtree(top)
           at == Level(parent, top)
           N == Cardinality(Prim)
           M == Members(c)
<1>1. /\ N \in Nat /\ at[0] = {top} /\ \A n \in 1..N : at[n] = Below(parent, top, at[n - 1])
  BY LevelDef
<1>2. /\ c \in Clumps /\ c \in Prim /\ top \in M /\ M \subseteq Prim /\ c # NoPrim
      /\ \A p : p \in M <=> p \in Prim /\ clumpOf[p] = c
  BY DEF Typed, Tree, Clumps, Members
<1>3. \A p \in M : depth[p] \in 0..N /\ depth[p] < N
  BY <1>2, LevelDepth
<1>4. /\ \A p \in M \ {c} : parent[p] \in M /\ depth[p] = depth[parent[p]] + 1
      /\ top # c
  BY <1>2 DEF Tree, Members
<1>5. \A n \in 1..N : \A p : p \in at[n] <=> p \in M /\ p # c /\ parent[p] \in at[n - 1]
  BY <1>1, <1>2 DEF Below
<1>6. T = UNION {at[n] : n \in 0..N}
  BY DEF Subtree
<1> HIDE DEF at, N, M, c, T
<1>7. \A n \in 0..N : n = 0 \/ (n \in 1..N /\ n - 1 \in 0..N)
  BY <1>1
<1>8. \A n \in 0..N : at[n] \subseteq M \ {c}
  BY <1>1, <1>2, <1>4, <1>5, <1>7
<1>9. ASSUME NEW n \in 0..N, NEW p \in at[n] PROVE depth[p] = depth[top] + n
  <2> DEFINE S == {i \in 0..N : \E q \in at[i] : depth[q] # depth[top] + i}
  <2>1. ASSUME S # {} PROVE FALSE
    <3>1. S \subseteq Nat
      BY <1>1
    <3>2. PICK i \in S : \A j \in S : i <= j
      <4> HIDE DEF S
      <4> QED
        BY <2>1, <3>1, LeastNat
    <3>3. PICK q \in at[i] : i \in 0..N /\ depth[q] # depth[top] + i
      BY <3>2
    <3>4. i # 0
      BY <1>1, <1>2, <1>3, <3>3
    <3>5. /\ i \in 1..N /\ i - 1 \in 0..N /\ i \in Nat /\ ~(i <= i - 1)
          /\ q \in M /\ q # c /\ parent[q] \in at[i - 1]
      BY <1>1, <1>5, <1>7, <3>3, <3>4
    <3>6. depth[parent[q]] = depth[top] + (i - 1)
      <4>1. i - 1 \notin S
        <5> HIDE DEF S
        <5> QED
          BY <3>2, <3>5
      <4> QED
        BY <3>5, <4>1
    <3> QED
      BY <1>2, <1>3, <1>4, <3>3, <3>5, <3>6
  <2>2. n \notin S
    <3> HIDE DEF S
    <3> QED
      BY <2>1
  <2> QED
    BY <2>2
<1>10. ASSUME NEW p \in T
       PROVE  /\ p \in M \ {c} /\ depth[p] >= depth[top] /\ (depth[p] = depth[top] => p = top)
              /\ p # top => parent[p] \in T
  <2>1. PICK n \in 0..N : p \in at[n]
    BY <1>6
  <2>2. depth[p] = depth[top] + n /\ depth[top] \in Nat /\ n \in Nat
    BY <1>1, <1>2, <1>3, <1>9, <2>1
  <2>3. depth[p] = depth[top] => p = top
    BY <1>1, <2>1, <2>2
  <2>4. p # top => parent[p] \in T
    BY <1>1, <1>5, <1>6, <1>7, <2>1
  <2> QED
    BY <1>8, <2>1, <2>2, <2>3, <2>4
<1>11. ASSUME NEW p \in M \ {c}, parent[p] \in T PROVE p \in T
  <2>1. PICK n \in 0..N : parent[p] \in at[n]
    BY <1>6, <1>11
  <2>2. depth[parent[p]] = depth[top] + n /\ depth[top] \in Nat /\ depth[parent[p]] < N
    BY <1>1, <1>2, <1>3, <1>4, <1>9, <2>1
  <2>3. n + 1 \in 1..N /\ (n + 1) - 1 = n
    BY <1>1, <2>2
  <2>4. p \in at[n + 1] /\ n + 1 \in 0..N
    BY <1>1, <1>5, <2>1, <2>3
  <2> QED
    BY <1>6, <2>4
<1>12. top \in T
  BY <1>1, <1>6
<1>13. parent[top] \notin T
  <2>1. depth[top] = depth[parent[top]] + 1 /\ depth[parent[top]] \in Nat
    BY <1>2, <1>3, <1>4
  <2> QED
    BY <1>10, <2>1
<1> QED
  BY <1>2, <1>10, <1>11, <1>12, <1>13 DEF c, M, T

-----------------------------------------------------------------------------
\* No two rigid joints join the same two primitives.
NoTwins == \A r, s \in Rigid : EndsOf(r) = EndsOf(s) => r = s

\* spanningTreeAdjust turns round the links of a path.
Climbs(r, p) == /\ parent[p] # NoPrim
                /\ \E s \in (joined \cap Rigid) \ {r} : EndsOf(s) = {p, parent[p]}
PathUp(up, r, p) ==
  /\ up \in [0..Cardinality(Prim) -> Prim] /\ up[0] = p
  /\ \A n \in 1..Cardinality(Prim) :
       up[n] = IF Climbs(r, up[n - 1]) THEN parent[up[n - 1]] ELSE up[n - 1]
TurnedAlong(path, l) ==
  [p \in Prim |-> IF p = l[1] THEN l[2]
                  ELSE IF p \in path THEN CHOOSE q \in path : parent[q] = p ELSE parent[p]]

\* The parents and depths that it leaves, by the path it climbs.
LEMMA AdjustDef ==
  ASSUME Typed, NEW r, NEW l, l[1] \in Prim, SpanningTreeAdjust(r, l)
  PROVE  \E up : /\ PathUp(up, r, l[1])
                 /\ LET path == {up[n] : n \in 0..Cardinality(Prim)}
                    IN  /\ parent' = TurnedAlong(path, l)
                        /\ depth' = Renumbered(TurnedAlong(path, l), clumpOf[l[1]])
<1> DEFINE N == Cardinality(Prim)
           V == Prim
           F == [p \in V |-> IF Climbs(r, p) THEN parent[p] ELSE p]
           a == l[1]
<1>1. N \in Nat
  BY FS_CardinalityType, ClumpStageAssumption
<1>2. F \in [V -> V] /\ a \in V
  BY DEF Climbs, Typed
<1>3. PICK g : g \in [0..N -> V] /\ g[0] = a /\ \A n \in 1..N : g[n] = F[g[n - 1]]
  <2> HIDE DEF F, V, a, N
  <2>1. \E g : Iteration(g, V, F, a, N)
    BY <1>1, <1>2, IterationExists
  <2> QED
    BY <2>1 DEF Iteration
<1> DEFINE Eq(f) == f = [n \in 0..N |-> IF n = 0 THEN l[1] ELSE
                                        IF Climbs(r, f[n - 1]) THEN parent[f[n - 1]] ELSE f[n - 1]]
           up == CHOOSE f : Eq(f)
           path == {up[n] : n \in DOMAIN up}
<1>4. Eq(g)
  <2>1. ASSUME NEW n \in 0..N
        PROVE  g[n] = IF n = 0 THEN l[1] ELSE
                      IF Climbs(r, g[n - 1]) THEN parent[g[n - 1]] ELSE g[n - 1]
    <3> HIDE DEF N
    <3>1. CASE n = 0
      BY <1>3, <3>1
    <3>2. CASE n # 0
      <4>1. n \in 1..N /\ n - 1 \in 0..N
        BY <1>1, <3>2
      <4>2. g[n] = F[g[n - 1]] /\ g[n - 1] \in V
        BY <1>3, <4>1
      <4> QED
        BY <3>2, <4>2
    <3> QED
      BY <3>1, <3>2
  <2> HIDE DEF N
  <2> QED
    BY <1>3, <2>1
<1>5. Eq(up)
  <2> HIDE DEF Eq
  <2> QED
    BY <1>4
<1>6. /\ parent' = TurnedAlong(path, l)
      /\ depth' = Renumbered(TurnedAlong(path, l), clumpOf[l[1]])
  BY DEF SpanningTreeAdjust, TurnedAlong, Climbs
<1> HIDE DEF up
<1>7. up = g
  <2>1. ASSUME NEW f, Eq(f), NEW n \in 0..N PROVE f[n] = g[n]
    <3> DEFINE S == {i \in 0..N : f[i] # g[i]}
    <3>1. ASSUME S # {} PROVE FALSE
      <4>1. S \subseteq Nat
        BY <1>1
      <4>2. PICK i \in S : \A j \in S : i <= j
        <5> HIDE DEF S
        <5> QED
          BY <3>1, <4>1, LeastNat
      <4>3. i \in 0..N /\ f[i] # g[i]
        BY <4>2
      <4> HIDE DEF N
      <4>4. i # 0
        BY <1>1, <1>4, <2>1, <4>3
      <4>5. i - 1 \in 0..N /\ ~(i <= i - 1)
        BY <1>1, <4>3, <4>4
      <4>6. f[i - 1] = g[i - 1]
        <5>1. i - 1 \notin S
          <6> HIDE DEF S
          <6> QED
            BY <4>2, <4>5
        <5> QED
          BY <4>5, <5>1
      <4> QED
        BY <1>4, <2>1, <4>3, <4>4, <4>6
    <3>2. n \notin S
      <4> HIDE DEF S
      <4> QED
        BY <3>1
    <3> QED
      BY <3>2
  <2>2. \A n \in 0..N : up[n] = g[n]
    <3> HIDE DEF Eq
    <3> QED
      BY <1>5, <2>1
  <2>3. DOMAIN up = 0..N
    <3> HIDE DEF N
    <3> QED
      BY <1>5
  <2>4. up = [n \in DOMAIN up |-> up[n]]
    <3> HIDE DEF N
    <3> QED
      BY <1>5
  <2> HIDE DEF N, Eq
  <2> QED
    BY <1>3, <2>2, <2>3, <2>4
<1>8. PathUp(g, r, l[1])
  <2>1. ASSUME NEW n \in 1..N
        PROVE  g[n] = IF Climbs(r, g[n - 1]) THEN parent[g[n - 1]] ELSE g[n - 1]
    <3> HIDE DEF N
    <3>1. n - 1 \in 0..N
      BY <1>1
    <3>2. g[n] = F[g[n - 1]] /\ g[n - 1] \in V
      BY <1>3, <3>1
    <3> QED
      BY <3>2
  <2> QED
    BY <1>3, <2>1 DEF PathUp
<1>9. path = {g[n] : n \in 0..N}
  <2> HIDE DEF N
  <2> QED
    BY <1>3, <1>7
<1> QED
  BY <1>6, <1>8, <1>9

\* The path that spanningTreeAdjust turns round stays in the tree that was cut off and ends
\* at its top; who is on it hangs under who was below, and l[1] under l[2].
OnPath(path, l, top) ==
  /\ path \subseteq Subtree(top) /\ l[1] \in path /\ top \in path
  /\ \A p \in path : p # l[1] => \E q \in path : parent[q] = p
  /\ \A p \in path : p # top => parent[p] \in path

\* The path is such a one, from l[1] to the top.
LEMMA PathFacts ==
  ASSUME Typed, Tree, NoTwins, NEW r \in joined \cap Rigid,
         NEW top \in Prim, clumpOf[top] \notin {NoPrim, top}, EndsOf(r) = {top, parent[top]},
         NEW l, l[1] \in Subtree(top), NEW up, PathUp(up, r, l[1])
  PROVE  OnPath({up[n] : n \in 0..Cardinality(Prim)}, l, top)
<1> DEFINE c == clumpOf[top]
           T == Subtree(top)
           N == Cardinality(Prim)
           M == Members(c)
<1>1. /\ c \in Clumps /\ T \subseteq M \ {c} /\ top \in T /\ parent[top] \notin T
      /\ \A p \in T : p # top => parent[p] \in T
  BY SubtreeFacts
<1>2. N \in Nat /\ \A p \in M : depth[p] \in 0..N /\ depth[p] < N
  BY <1>1, LevelDepth
<1>3. \A p \in T : parent[p] \in Prim /\ depth[p] = depth[parent[p]] + 1
                   /\ \E s \in joined \cap Rigid : EndsOf(s) = {p, parent[p]}
  <2>1. \A p \in T : p \in Prim /\ clumpOf[p] = c /\ p # c /\ c # NoPrim
    BY <1>1 DEF Members
  <2> HIDE DEF T, c
  <2> QED
    BY <2>1 DEF Tree
<1>4. /\ up \in [0..N -> Prim] /\ up[0] = l[1]
      /\ \A n \in 1..N : up[n] = IF Climbs(r, up[n - 1]) THEN parent[up[n - 1]] ELSE up[n - 1]
  BY DEF PathUp
<1> HIDE DEF c, T, N, M
<1>5. \A p \in T : p # top => Climbs(r, p)
  <2> SUFFICES ASSUME NEW p \in T, p # top PROVE Climbs(r, p)
    OBVIOUS
  <2>1. parent[p] \in T /\ parent[p] \in Prim
    BY <1>1, <1>3
  <2>2. PICK s \in joined \cap Rigid : EndsOf(s) = {p, parent[p]}
    BY <1>3
  <2>3. s # r
    BY <1>1, <2>1, <2>2
  <2> QED
    BY <2>1, <2>2, <2>3, ClumpStageAssumption DEF Climbs
<1>6. ~Climbs(r, top)
  BY DEF Climbs, NoTwins
<1>7. \A n \in 1..N : n - 1 \in 0..N /\ n \in 0..N /\ n \in Nat /\ ~(n <= n - 1)
  BY <1>2
<1>8. \A n \in 0..N : n # 0 => n \in 1..N
  BY <1>2
<1>9. ASSUME NEW n \in 0..N PROVE up[n] \in T /\ (up[n] # top => depth[up[n]] = depth[l[1]] - n)
  <2> DEFINE S == {i \in 0..N : ~(up[i] \in T /\ (up[i] # top => depth[up[i]] = depth[l[1]] - i))}
  <2>1. ASSUME S # {} PROVE FALSE
    <3>1. S \subseteq Nat
      BY <1>2
    <3>2. PICK i \in S : \A j \in S : i <= j
      <4> HIDE DEF S
      <4> QED
        BY <2>1, <3>1, LeastNat
    <3>3. i \in 0..N /\ ~(up[i] \in T /\ (up[i] # top => depth[up[i]] = depth[l[1]] - i))
      BY <3>2
    <3>4. i # 0
      <4>1. ASSUME i = 0 PROVE FALSE
        <5>1. depth[l[1]] \in Int /\ l[1] \in T
          BY <1>1, <1>2 DEF T
        <5> QED
          BY <1>4, <3>3, <4>1, <5>1
      <4> QED
        BY <4>1
    <3>5. i \in 1..N
      BY <1>8, <3>3, <3>4
    <3>6. i - 1 \notin S
      <4> HIDE DEF S
      <4> QED
        BY <1>7, <3>2, <3>5
    <3>7. up[i - 1] \in T /\ (up[i - 1] # top => depth[up[i - 1]] = depth[l[1]] - (i - 1))
      BY <1>7, <3>5, <3>6
    <3> HIDE DEF S
    <3>8. CASE up[i - 1] = top
      BY <1>1, <1>4, <1>6, <3>3, <3>5, <3>8
    <3>9. CASE up[i - 1] # top
      <4>1. up[i] = parent[up[i - 1]]
        BY <1>4, <1>5, <3>5, <3>7, <3>9
      <4>2. up[i] \in T /\ depth[up[i - 1]] = depth[up[i]] + 1
        BY <1>1, <1>3, <3>7, <3>9, <4>1
      <4>3. depth[up[i]] \in Int /\ depth[l[1]] \in Int /\ i \in Int
        BY <1>1, <1>2, <1>7, <3>5, <4>2 DEF T
      <4> QED
        BY <3>3, <3>7, <3>9, <4>2, <4>3
    <3> QED
      BY <3>8, <3>9
  <2>2. n \notin S
    <3> HIDE DEF S
    <3> QED
      BY <2>1
  <2> QED
    BY <2>2
<1> DEFINE path == {up[n] : n \in 0..N}
<1>10. N \in 0..N /\ 0 \in 0..N
  BY <1>2
<1>11. up[N] = top
  <2>1. depth[l[1]] \in Nat /\ depth[l[1]] < N /\ depth[up[N]] \in Nat
    BY <1>1, <1>2, <1>9, <1>10 DEF T
  <2> QED
    BY <1>2, <1>9, <1>10, <2>1
<1>12. ASSUME NEW p \in path, p # top PROVE parent[p] \in path
  <2>1. PICK n \in 0..N : p = up[n]
    OBVIOUS
  <2>2. n # N
    BY <1>11, <1>12, <2>1
  <2>3. n + 1 \in 1..N /\ (n + 1) - 1 = n /\ n + 1 \in 0..N
    BY <1>2, <2>2
  <2>4. up[n + 1] = parent[p]
    BY <1>4, <1>5, <1>9, <1>12, <2>1, <2>3
  <2> QED
    BY <2>3, <2>4
<1>13. ASSUME NEW p \in path, p # l[1] PROVE \E q \in path : parent[q] = p
  <2> DEFINE S == {n \in 0..N : up[n] = p}
  <2>1. S \subseteq Nat /\ S # {}
    BY <1>2
  <2>2. PICK n \in S : \A k \in S : n <= k
    <3> HIDE DEF S
    <3> QED
      BY <2>1, LeastNat
  <2>3. n \in 0..N /\ up[n] = p
    BY <2>2
  <2>4. n \in 1..N
    BY <1>4, <1>8, <1>13, <2>3
  <2>5. n - 1 \notin S
    <3> HIDE DEF S
    <3> QED
      BY <1>7, <2>2, <2>4
  <2>6. up[n - 1] # p /\ n - 1 \in 0..N
    BY <1>7, <2>4, <2>5
  <2>7. parent[up[n - 1]] = p
    BY <1>4, <2>3, <2>4, <2>6
  <2> QED
    BY <2>6, <2>7
<1>14. path \subseteq T /\ l[1] \in path /\ top \in path
  BY <1>4, <1>9, <1>10, <1>11
<1> QED
  BY <1>12, <1>13, <1>14 DEF OnPath, T, N

\* Turned round, the links still make a tree of the clump, which renumberSpanTree numbers.
LEMMA AdjustTree ==
  ASSUME Typed, Tree, NoTwins, NEW r \in joined \cap Rigid,
         NEW top \in Prim, clumpOf[top] \notin {NoPrim, top}, EndsOf(r) = {top, parent[top]},
         NEW l \in OutsideLinks(top), SpanningTreeAdjust(r, l),
         joined' = joined \ {r}, clumpOf' = clumpOf
  PROVE  /\ Tree'
         /\ parent' \in [Prim -> Prim \cup {NoPrim}] /\ depth' \in [Prim -> Nat \cup {-1}]
         /\ \A p \in Prim : clumpOf[p] \in {p, NoPrim} => parent'[p] = parent[p]
<1> DEFINE c == clumpOf[top]
           T == Subtree(top)
           N == Cardinality(Prim)
           M == Members(c)
<1>1. /\ c \in Clumps /\ T \subseteq M \ {c} /\ top \in T /\ parent[top] \notin T
      /\ \A p \in T : p # top => parent[p] \in T
      /\ \A p \in M \ {c} : parent[p] \in T => p \in T
  BY SubtreeFacts
<1>2. N \in Nat /\ \A p \in M : depth[p] \in 0..N /\ depth[p] < N
  BY <1>1, LevelDepth
<1>3. /\ M \subseteq Prim /\ c \in Prim /\ c \in M /\ clumpOf[c] = c /\ c # NoPrim
      /\ \A p \in Prim : p \in M <=> clumpOf[p] = c
  BY <1>1, ClumpStageAssumption DEF Clumps, Members
<1>4. \A p \in M \ {c} : /\ parent[p] \in M /\ depth[p] = depth[parent[p]] + 1
                         /\ \E s \in joined \cap Rigid : EndsOf(s) = {p, parent[p]}
  BY <1>3 DEF Tree, Members
<1>5. /\ l[1] \in T /\ l[2] \in M /\ l[2] \notin T /\ parent[l[1]] # l[2]
      /\ \E s \in joined \cap Rigid : EndsOf(s) = {l[1], l[2]}
  BY DEF OutsideLinks
<1>6. clumpOf[l[1]] = c /\ l[1] \in Prim
  BY <1>1, <1>3, <1>5
<1>7. PICK path : /\ OnPath(path, l, top) /\ parent' = TurnedAlong(path, l)
                  /\ depth' = Renumbered(TurnedAlong(path, l), c)
  <2>1. PICK up : /\ PathUp(up, r, l[1])
                  /\ LET path == {up[n] : n \in 0..Cardinality(Prim)}
                     IN  /\ parent' = TurnedAlong(path, l)
                         /\ depth' = Renumbered(TurnedAlong(path, l), clumpOf[l[1]])
    BY <1>6, AdjustDef
  <2>2. OnPath({up[n] : n \in 0..Cardinality(Prim)}, l, top)
    BY <1>5, <2>1, PathFacts
  <2> QED
    BY <1>6, <2>1, <2>2
<1> DEFINE par == TurnedAlong(path, l)
<1>8. /\ path \subseteq T /\ l[1] \in path /\ top \in path
      /\ \A p \in path : p # l[1] => \E q \in path : parent[q] = p
  BY <1>7 DEF OnPath
<1>9. /\ par[l[1]] = l[2]
      /\ \A p \in path \ {l[1]} : par[p] \in path /\ parent[par[p]] = p
      /\ \A p \in Prim \ path : par[p] = parent[p]
  <2>1. \A p \in path : p \in Prim
    BY <1>1, <1>3, <1>8
  <2>2. ASSUME NEW p \in path \ {l[1]} PROVE par[p] \in path /\ parent[par[p]] = p
    <3>1. par[p] = CHOOSE q \in path : parent[q] = p
      BY <2>1 DEF TurnedAlong
    <3> QED
      BY <1>8, <3>1
  <2> QED
    BY <1>6, <1>8, <2>2 DEF TurnedAlong
<1>10. DOMAIN par = Prim /\ par = [p \in Prim |-> par[p]]
  BY DEF TurnedAlong
<1> HIDE DEF par, c, T, N, M

\* The rank by which the new links lead to the root.
<1> DEFINE rank == [p \in Prim |-> IF p \notin M THEN 0
                                   ELSE IF p \notin T THEN depth[p]
                                   ELSE IF p \in path THEN 2 * N - depth[p]
                                   ELSE 2 * N + 1 + depth[p]]
<1>11. /\ rank \in [Prim -> Nat]
       /\ \A p \in M : rank[p] = IF p \notin T THEN depth[p]
                                 ELSE IF p \in path THEN 2 * N - depth[p]
                                 ELSE 2 * N + 1 + depth[p]
  <2>1. ASSUME NEW p \in M
        PROVE  /\ depth[p] \in Nat /\ 2 * N - depth[p] \in Nat /\ 2 * N + 1 + depth[p] \in Nat
    BY <1>2
  <2> QED
    BY <1>3, <2>1
<1> HIDE DEF rank
<1>12. ASSUME NEW p \in M \ {c}
       PROVE  /\ par[p] \in M /\ rank[par[p]] < rank[p]
              /\ \E s \in (joined \cap Rigid) \ {r} : EndsOf(s) = {p, par[p]}
  <2>1. depth[p] \in 0..N /\ depth[p] < N /\ p \in Prim
    BY <1>2, <1>3
  <2>2. CASE p = l[1]
    <3>1. par[p] = l[2] /\ depth[l[2]] \in 0..N /\ depth[l[2]] < N
      BY <1>2, <1>5, <1>9, <2>2
    <3>2. rank[p] = 2 * N - depth[p] /\ rank[l[2]] = depth[l[2]]
      BY <1>5, <1>8, <1>11, <2>2
    <3>3. PICK s \in joined \cap Rigid : EndsOf(s) = {l[1], l[2]}
      BY <1>5
    <3>4. s # r
      BY <1>1, <1>5, <3>3
    <3> QED
      BY <1>2, <1>5, <2>1, <2>2, <3>1, <3>2, <3>3, <3>4
  <2>3. CASE p \in path /\ p # l[1]
    <3> DEFINE q == par[p]
    <3>1. q \in path /\ parent[q] = p /\ q \in M \ {c} /\ q \in T /\ p \in T
      BY <1>1, <1>8, <1>9, <2>3
    <3>2. depth[q] = depth[p] + 1 /\ depth[q] \in 0..N
      BY <1>2, <1>4, <3>1
    <3>3. rank[p] = 2 * N - depth[p] /\ rank[q] = 2 * N - depth[q]
      BY <1>11, <2>3, <3>1
    <3>4. PICK s \in joined \cap Rigid : EndsOf(s) = {q, parent[q]}
      BY <1>4, <3>1
    <3>5. s # r /\ EndsOf(s) = {p, q}
      BY <1>1, <3>1, <3>4
    <3> QED
      BY <1>2, <2>1, <3>1, <3>2, <3>3, <3>4, <3>5
  <2>4. CASE p \notin path
    <3>1. par[p] = parent[p] /\ parent[p] \in M /\ depth[p] = depth[parent[p]] + 1
          /\ depth[parent[p]] \in 0..N
      BY <1>2, <1>4, <1>9, <2>1, <2>4
    <3>2. rank[parent[p]] < rank[p]
      <4>1. CASE p \notin T
        <5>1. parent[p] \notin T
          BY <1>1, <4>1
        <5>2. rank[p] = depth[p] /\ rank[parent[p]] = depth[parent[p]]
          BY <1>11, <3>1, <4>1, <5>1
        <5> QED
          BY <2>1, <3>1, <5>2
      <4>2. CASE p \in T
        <5>1. parent[p] \in T
          BY <1>1, <1>8, <2>4, <4>2
        <5>2. rank[p] = 2 * N + 1 + depth[p]
          BY <1>11, <2>4, <4>2
        <5>3. \/ rank[parent[p]] = 2 * N - depth[parent[p]]
              \/ rank[parent[p]] = 2 * N + 1 + depth[parent[p]]
          BY <1>11, <3>1, <5>1
        <5> QED
          BY <1>2, <2>1, <3>1, <5>2, <5>3
      <4> QED
        BY <4>1, <4>2
    <3>3. PICK s \in joined \cap Rigid : EndsOf(s) = {p, parent[p]}
      BY <1>4
    <3>4. s # r
      <4>1. ASSUME s = r PROVE FALSE
        <5>1. p = parent[top] /\ parent[p] = top
          BY <1>8, <2>4, <3>3, <4>1
        <5>2. depth[top] = depth[p] + 1 /\ depth[top] \in 0..N
          BY <1>1, <1>2, <1>4, <5>1
        <5> QED
          BY <2>1, <3>1, <5>1, <5>2
      <4> QED
        BY <4>1
    <3> QED
      BY <3>1, <3>2, <3>3, <3>4
  <2> QED
    BY <2>2, <2>3, <2>4
<1> DEFINE at == Level(par, c)
<1>13. /\ \A n \in 0..N : at[n] \subseteq M
       /\ \A p \in M : \E n \in 0..N : n < N /\ p \in at[n] /\ \A k \in 0..N : p \in at[k] => k = n
       /\ \A p \in M : \A n \in 0..N : p \in at[n] =>
            IF p = c THEN n = 0 ELSE n - 1 \in 0..N /\ par[p] \in at[n - 1]
  <2>1. \A p \in Members(c) \ {c} : par[p] \in Members(c) /\ rank[par[p]] < rank[p]
    BY <1>12 DEF M, c
  <2> HIDE DEF at
  <2>2. M = Members(c)
    BY DEF M, c
  <2> QED
    BY <1>3, <1>11, <2>1, <2>2, Ranked DEF at, N
<1>14. DOMAIN at = 0..N
  BY <1>3, LevelDef DEF N
<1>15. depth' = [p \in Prim |-> IF \E n \in 0..N : p \in at[n]
                                THEN CHOOSE n \in 0..N : p \in at[n] ELSE depth[p]]
  BY <1>7, <1>14 DEF Renumbered, par
<1> HIDE DEF at
<1>16. ASSUME NEW p \in M PROVE /\ depth'[p] \in 0..N /\ p \in at[depth'[p]]
                                /\ \A k \in 0..N : p \in at[k] => k = depth'[p]
  <2>1. PICK n \in 0..N : p \in at[n] /\ \A k \in 0..N : p \in at[k] => k = n
    BY <1>13
  <2>2. depth'[p] = CHOOSE k \in 0..N : p \in at[k]
    BY <1>3, <1>15, <2>1
  <2> QED
    BY <2>1, <2>2
<1>17. \A p \in Prim \ M : depth'[p] = depth[p]
  BY <1>13, <1>15
<1>18. parent' = par /\ \A p \in Prim \ M : par[p] = parent[p]
  BY <1>1, <1>7, <1>8, <1>9 DEF par
<1>19. par[c] = parent[c]
  BY <1>1, <1>3, <1>8, <1>9
<1>20. depth' \in [Prim -> Nat \cup {-1}]
  <2>1. depth' = [p \in Prim |-> depth'[p]]
    BY <1>15
  <2>2. \A p \in M : depth'[p] \in Nat
    BY <1>2, <1>16
  <2>3. \A p \in Prim : depth'[p] \in Nat \cup {-1}
    BY <1>17, <2>2 DEF Typed
  <2> QED
    BY <2>1, <2>3
<1>21. parent' \in [Prim -> Prim \cup {NoPrim}]
  <2>1. \A p \in Prim : par[p] \in Prim \cup {NoPrim}
    BY <1>3, <1>12, <1>18, <1>19 DEF Typed
  <2> QED
    BY <1>10, <1>18, <2>1
<1>22. Tree'
  <2> SUFFICES ASSUME NEW p \in Prim
               PROVE  /\ clumpOf[p] # NoPrim => clumpOf[clumpOf[p]] = clumpOf[p] /\ depth'[p] \in Nat
                      /\ clumpOf[p] = p => depth'[p] = 0
                      /\ clumpOf[p] \notin {NoPrim, p} =>
                           /\ par[p] \in Prim /\ clumpOf[par[p]] = clumpOf[p]
                           /\ depth'[p] = depth'[par[p]] + 1
                           /\ \E s \in (joined \cap Rigid) \ {r} : EndsOf(s) = {p, par[p]}
                      /\ clumpOf[p] = NoPrim => depth'[p] = -1 /\ par[p] = NoPrim
    BY <1>18 DEF Tree, EndsOf
  <2>1. CASE p \notin M
    <3>1. clumpOf[p] # c /\ depth'[p] = depth[p] /\ par[p] = parent[p]
      BY <1>3, <1>17, <1>18, <2>1
    <3>2. ASSUME clumpOf[p] \notin {NoPrim, p}
          PROVE  /\ par[p] \in Prim /\ clumpOf[par[p]] = clumpOf[p]
                 /\ depth'[p] = depth'[par[p]] + 1
                 /\ \E s \in (joined \cap Rigid) \ {r} : EndsOf(s) = {p, par[p]}
      <4>1. /\ par[p] \in Prim /\ clumpOf[par[p]] = clumpOf[p]
            /\ depth[p] = depth[par[p]] + 1
            /\ \E s \in joined \cap Rigid : EndsOf(s) = {p, par[p]}
        BY <3>1, <3>2 DEF Tree
      <4>2. par[p] \notin M /\ depth'[par[p]] = depth[par[p]]
        BY <1>3, <1>17, <3>1, <4>1
      <4>3. PICK s \in joined \cap Rigid : EndsOf(s) = {p, par[p]}
        BY <4>1
      <4>4. s # r
        BY <1>1, <2>1, <4>2, <4>3
      <4> QED
        BY <3>1, <4>1, <4>2, <4>3, <4>4
    <3> QED
      BY <3>1, <3>2 DEF Tree
  <2>2. CASE p \in M
    <3>1. clumpOf[p] = c /\ clumpOf[c] = c /\ c # NoPrim /\ depth'[p] \in Nat
      BY <1>2, <1>3, <1>16, <2>2
    <3>2. p = c => depth'[p] = 0
      BY <1>13, <1>16, <2>2
    <3>3. ASSUME p # c PROVE /\ par[p] \in Prim /\ clumpOf[par[p]] = c
                             /\ depth'[p] = depth'[par[p]] + 1
      <4>1. par[p] \in M
        BY <1>12, <2>2, <3>3
      <4>2. depth'[p] - 1 \in 0..N /\ par[p] \in at[depth'[p] - 1]
        BY <1>13, <1>16, <2>2, <3>3
      <4>3. depth'[p] - 1 = depth'[par[p]]
        BY <1>16, <4>1, <4>2
      <4> QED
        BY <1>3, <3>1, <4>1, <4>3
    <3>4. p # c => \E s \in (joined \cap Rigid) \ {r} : EndsOf(s) = {p, par[p]}
      BY <1>12, <2>2
    <3> QED
      BY <3>1, <3>2, <3>3, <3>4
  <2> QED
    BY <2>1, <2>2
<1> QED
  BY <1>3, <1>18, <1>19, <1>20, <1>21, <1>22

-----------------------------------------------------------------------------
\* What the ends of an edge and the assembly of a primitive are.
LEMMA Basics ==
  /\ NoPrim \notin Prim
  /\ \A e \in Edge : /\ End[e][1] \in Prim /\ End[e][2] \in Prim /\ End[e][1] # End[e][2]
                     /\ EndsOf(e) = {End[e][1], End[e][2]}
                     /\ Other(e, End[e][1]) = End[e][2] /\ Other(e, End[e][2]) = End[e][1]
<1>1. NoPrim \notin Prim
  BY ClumpStageAssumption
<1>2. ASSUME NEW e \in Edge
      PROVE  End[e][1] \in Prim /\ End[e][2] \in Prim /\ End[e][1] # End[e][2]
  <2>1. End[e] \in Prim \X Prim /\ End[e][1] # End[e][2]
    BY ClumpStageAssumption
  <2> QED
    BY <2>1
<1> QED
  BY <1>1, <1>2 DEF EndsOf, Other

\* An assembly is named by a clump, so by its own.
LEMMA AsmFacts ==
  ASSUME Typed, ClumpsFiled
  PROVE  /\ \A p \in Prim : AsmOfPrim(p) \in Prim \cup {NoPrim}
         /\ \A p \in Prim : AsmOfPrim(p) # NoPrim =>
              /\ AsmOfPrim(p) \in Prim /\ clumpOf[p] \in Prim /\ AsmOfPrim(p) = asmOf[clumpOf[p]]
              /\ asmOf[AsmOfPrim(p)] = AsmOfPrim(p) /\ clumpOf[AsmOfPrim(p)] = AsmOfPrim(p)
         /\ \A c \in Prim : asmOf[c] # NoPrim => /\ clumpOf[c] = c /\ AsmOfPrim(c) = asmOf[c]
                                                 /\ clumpOf[asmOf[c]] = asmOf[c]
                                                 /\ asmOf[asmOf[c]] = asmOf[c]
<1>1. \A p \in Prim : clumpOf[p] \in Prim \cup {NoPrim} /\ asmOf[p] \in Prim \cup {NoPrim}
  BY DEF Typed, AsmTyped
<1>2. \A c \in Prim : asmOf[c] # NoPrim =>
        c \in Clumps /\ asmOf[c] \in Clumps /\ asmOf[asmOf[c]] = asmOf[c]
  BY DEF ClumpsFiled
<1> QED
  BY <1>1, <1>2, Basics DEF AsmOfPrim, Clumps

\* Who is in which clump and assembly when the assemblies all and the clumps Cs are no more
\* and the primitives out have left theirs.
Leave(all, Cs, out) ==
  /\ clumpOf' \in [Prim -> Prim \cup {NoPrim}]
  /\ \A c \in Prim : clumpOf'[c] = c <=> clumpOf[c] = c /\ c \notin Cs
  /\ \A p \in Prim : AsmOfPrim(p)' = IF p \in out \/ AsmOfPrim(p) \in all THEN NoPrim
                                     ELSE AsmOfPrim(p)
  /\ \A p \in Prim : AsmOfPrim(p)' # NoPrim => clumpOf'[p] = clumpOf[p]
  /\ \A c \in Clumps \ Cs : parent'[c] = IF asmOf[c] \in all THEN NoPrim ELSE parent[c]

\* A step that takes the assemblies all apart, gives back the contacts es as well, dissolves
\* the clumps Cs, takes the primitives out from their clumps and the joints gone from the
\* world.
Withdraw(all, es, Cs, out, gone) ==
  /\ ReleaseAssemblies(all, es) /\ FileClumps(all, Cs)
  /\ motors' \in Seq(Motor) /\ Once(motors')
  /\ ToSet(motors') = (ToSet(motors) \cup MotorsOf(all)) \ gone
  /\ joined' = joined \ gone /\ held' = held \ Cs
  /\ Leave(all, Cs, out)
  /\ all \in SUBSET Prim /\ AssembliesOf(Cs) \subseteq all /\ Cs \subseteq Clumps
  /\ es \subseteq joined \cap Contact
  /\ gone \cap Contact = {} /\ gone \cap Motor \subseteq ToSet(motors) \cup MotorsOf(all)
  /\ \A m \in joined \cap Motor : EndsOf(m) \cap out # {} => m \in ToSet(motors) \cup MotorsOf(all)
  /\ \A e \in joined \cap Contact : EndsOf(e) \cap out # {} =>
       e \in edges \cup es \cup UNION {externalEdges[a] \cup internalEdges[a] : a \in all}

\* The types of what a withdrawal changes.
LEMMA WithdrawTyped ==
  ASSUME Typed, NEW all, NEW es, NEW Cs, NEW out, NEW gone, Withdraw(all, es, Cs, out, gone)
  PROVE  AsmTyped' /\ (Alone => Alone')
<1>1. /\ ReleaseAssemblies(all, es) /\ FileClumps(all, Cs) /\ motors' \in Seq(Motor)
      /\ all \in SUBSET Prim /\ es \subseteq Contact /\ AsmTyped /\ held \subseteq Prim
  BY DEF Withdraw, Typed
<1>2. \A a \in all : externalEdges[a] \cup internalEdges[a] \subseteq Contact
  BY <1>1 DEF AsmTyped
<1>3. /\ asmOf' \in [Prim -> Prim \cup {NoPrim}]
      /\ asmMotors' \in [Prim -> SUBSET Motor] /\ asmIncons' \in [Prim -> SUBSET Motor]
      /\ externalEdges' \in [Prim -> SUBSET Contact] /\ internalEdges' \in [Prim -> SUBSET Contact]
      /\ edges' \subseteq Contact /\ assemblies' \subseteq Prim
      /\ downAsm' \subseteq Prim /\ downEdges' \subseteq Contact
  BY <1>1, <1>2 DEF ReleaseAssemblies, AsmTyped
<1>4. anchoredClumps' \subseteq Prim /\ freeClumps' \subseteq Prim
  BY <1>1 DEF FileClumps, AsmTyped
<1>5. Alone => Alone'
  BY <1>1 DEF Alone, ReleaseAssemblies, AsmTyped
<1> QED
  BY <1>1, <1>3, <1>4, <1>5 DEF AsmTyped

\* It leaves each clump filed.
LEMMA WithdrawClumps ==
  ASSUME Typed, ClumpsFiled,
         NEW all, NEW es, NEW Cs, NEW out, NEW gone, Withdraw(all, es, Cs, out, gone)
  PROVE  ClumpsFiled'
<1>1. /\ asmOf' = [c \in Prim |-> IF asmOf[c] \in all THEN NoPrim ELSE asmOf[c]]
      /\ assemblies' = assemblies \ all /\ downAsm' = downAsm \ all
  BY DEF Withdraw, ReleaseAssemblies
<1>2. /\ anchoredClumps' = (anchoredClumps \cup ({c \in Prim : asmOf[c] \in all} \cap held)) \ (Cs \cap held)
      /\ freeClumps' = (freeClumps \cup ({c \in Prim : asmOf[c] \in all} \ held)) \ (Cs \ held)
  BY DEF Withdraw, FileClumps
<1>3. /\ held' = held \ Cs /\ Cs \subseteq Clumps /\ all \in SUBSET Prim
      /\ \A c \in Cs : asmOf[c] \in all \cup {NoPrim}
      /\ \A c \in Prim : clumpOf'[c] = c <=> clumpOf[c] = c /\ c \notin Cs
  BY DEF Withdraw, Leave, AssembliesOf
<1>4. Clumps' = Clumps \ Cs
  BY <1>3 DEF Clumps
<1>5. \A c \in Prim : asmOf[c] \in Prim \cup {NoPrim}
  BY DEF Typed, AsmTyped
<1>6. /\ anchoredClumps = {c \in Clumps : asmOf[c] = NoPrim} \cap held
      /\ freeClumps = {c \in Clumps : asmOf[c] = NoPrim} \ held
      /\ \A c \in Prim : asmOf[c] # NoPrim =>
           /\ c \in Clumps /\ asmOf[c] \in Clumps /\ asmOf[asmOf[c]] = asmOf[c]
           /\ c \in held => asmOf[c] = c
           /\ asmOf[c] \in assemblies \cup downAsm
      /\ assemblies \cap downAsm = {}
      /\ \A a \in assemblies \cup downAsm : asmOf[a] = a
  BY DEF ClumpsFiled
<1>7. Clumps \subseteq Prim /\ NoPrim \notin Prim /\ assemblies \cup downAsm \subseteq Prim
  BY Basics DEF Clumps, Typed, AsmTyped
<1>8. \A c \in Prim : asmOf'[c] = IF asmOf[c] \in all THEN NoPrim ELSE asmOf[c]
  BY <1>1
<1>9. anchoredClumps' = {c \in Clumps' : asmOf'[c] = NoPrim} \cap held'
  <2>1. ASSUME NEW c PROVE c \in anchoredClumps' <=> c \in Clumps' /\ asmOf'[c] = NoPrim /\ c \in held'
    BY <1>2, <1>3, <1>4, <1>5, <1>6, <1>7, <1>8
  <2> QED
    BY <2>1
<1>10. freeClumps' = {c \in Clumps' : asmOf'[c] = NoPrim} \ held'
  <2>1. ASSUME NEW c PROVE c \in freeClumps' <=> c \in Clumps' /\ asmOf'[c] = NoPrim /\ c \notin held'
    BY <1>2, <1>3, <1>4, <1>5, <1>6, <1>7, <1>8
  <2> QED
    BY <2>1
<1>11. ASSUME NEW c \in Prim, asmOf'[c] # NoPrim
       PROVE  /\ c \in Clumps' /\ asmOf'[c] \in Clumps' /\ asmOf'[asmOf'[c]] = asmOf'[c]
              /\ c \in held' => asmOf'[c] = c
              /\ asmOf'[c] \in assemblies' \cup downAsm'
  <2>1. asmOf'[c] = asmOf[c] /\ asmOf[c] \notin all /\ asmOf[c] # NoPrim /\ asmOf[c] \in Prim
    BY <1>5, <1>8, <1>11
  <2>2. asmOf[asmOf[c]] = asmOf[c] /\ c \in Clumps /\ asmOf[c] \in Clumps
    BY <1>6, <2>1
  <2>3. c \notin Cs /\ asmOf[c] \notin Cs
    BY <1>3, <2>1, <2>2
  <2> QED
    BY <1>1, <1>3, <1>4, <1>6, <1>8, <2>1, <2>2, <2>3
<1>12. assemblies' \cap downAsm' = {} /\ \A a \in assemblies' \cup downAsm' : asmOf'[a] = a
  BY <1>1, <1>6, <1>7, <1>8
<1> QED
  BY <1>9, <1>10, <1>11, <1>12 DEF ClumpsFiled

\* It leaves each motor in one place.
LEMMA WithdrawMotors ==
  ASSUME Typed, ClumpsFiled, MotorsIn,
         NEW all, NEW es, NEW Cs, NEW out, NEW gone, Withdraw(all, es, Cs, out, gone)
  PROVE  MotorsIn'
<1>1. /\ asmMotors' = [a \in Prim |-> asmMotors[a] \ MotorsOf(all)]
      /\ asmIncons' = [a \in Prim |-> asmIncons[a] \ MotorsOf(all)]
  BY DEF Withdraw, ReleaseAssemblies
<1>2. /\ Once(motors') /\ ToSet(motors') = (ToSet(motors) \cup MotorsOf(all)) \ gone
      /\ joined' = joined \ gone /\ gone \cap Motor \subseteq ToSet(motors) \cup MotorsOf(all)
      /\ \A p \in Prim : AsmOfPrim(p)' = IF p \in out \/ AsmOfPrim(p) \in all THEN NoPrim
                                         ELSE AsmOfPrim(p)
      /\ \A m \in joined \cap Motor : EndsOf(m) \cap out # {} => m \in ToSet(motors) \cup MotorsOf(all)
      /\ all \in SUBSET Prim
  BY DEF Withdraw, Leave
<1>3. \A m : m \in MotorsOf(all) <=> \E a \in all : m \in asmMotors[a] \/ m \in asmIncons[a]
  BY DEF MotorsOf
<1> SUFFICES ASSUME NEW m \in Motor PROVE MotorAt(m)'
  BY <1>2 DEF MotorsIn
<1> DEFINE e0 == End[m][1]
           e1 == End[m][2]
           a0 == AsmOfPrim(e0)
           a1 == AsmOfPrim(e1)
<1>4. e0 \in Prim /\ e1 \in Prim /\ EndsOf(m) = {e0, e1}
  BY Basics DEF Edge
<1>5. /\ m \in ToSet(motors) =>
           m \in joined /\ \A a \in Prim : m \notin asmMotors[a] /\ m \notin asmIncons[a]
      /\ \A a \in Prim : m \in asmMotors[a] =>
           m \in joined /\ a0 = a /\ a1 = a /\ \A b \in Prim : m \notin asmIncons[b]
      /\ \A a \in Prim : m \in asmIncons[a] =>
           /\ m \in joined /\ a \in {a0, a1} /\ a0 \in Prim /\ a1 \in Prim
           /\ m \in asmIncons[a0] /\ m \in asmIncons[a1]
      /\ m \in joined /\ m \notin ToSet(motors) =>
           a0 \in Prim /\ (m \in asmMotors[a0] \/ m \in asmIncons[a0])
  BY DEF MotorsIn, MotorAt, MotorsFind
<1>6. /\ AsmOfPrim(e0)' = IF e0 \in out \/ a0 \in all THEN NoPrim ELSE a0
      /\ AsmOfPrim(e1)' = IF e1 \in out \/ a1 \in all THEN NoPrim ELSE a1
  BY <1>2, <1>4
<1>7. MotorAt(m)' <=>
        /\ m \in ToSet(motors') =>
             m \in joined' /\ \A a \in Prim : m \notin asmMotors'[a] /\ m \notin asmIncons'[a]
        /\ \A a \in Prim : m \in asmMotors'[a] =>
             /\ m \in joined' /\ AsmOfPrim(e0)' = a /\ AsmOfPrim(e1)' = a
             /\ \A b \in Prim : m \notin asmIncons'[b]
        /\ \A a \in Prim : m \in asmIncons'[a] =>
             /\ m \in joined' /\ a \in {AsmOfPrim(e0)', AsmOfPrim(e1)'}
             /\ AsmOfPrim(e0)' \in Prim /\ AsmOfPrim(e1)' \in Prim
             /\ m \in asmIncons'[AsmOfPrim(e0)'] /\ m \in asmIncons'[AsmOfPrim(e1)']
        /\ m \in joined' /\ m \notin ToSet(motors') =>
             /\ AsmOfPrim(e0)' \in Prim
             /\ (m \in asmMotors'[AsmOfPrim(e0)'] \/ m \in asmIncons'[AsmOfPrim(e0)'])
  BY DEF MotorAt, MotorsFind
<1> DEFINE b0 == AsmOfPrim(e0)'
           b1 == AsmOfPrim(e1)'
<1> HIDE DEF e0, e1, a0, a1, b0, b1
<1>8. \A a \in Prim : /\ m \in asmMotors'[a] <=> m \in asmMotors[a] /\ m \notin MotorsOf(all)
                      /\ m \in asmIncons'[a] <=> m \in asmIncons[a] /\ m \notin MotorsOf(all)
  BY <1>1
<1>9. CASE m \in ToSet(motors) \cup MotorsOf(all)
  <2>1. \A a \in Prim : m \notin asmMotors'[a] /\ m \notin asmIncons'[a]
    BY <1>5, <1>8, <1>9
  <2>2. m \in joined
    BY <1>2, <1>3, <1>5, <1>9
  <2> QED
    BY <1>2, <1>7, <1>9, <2>1, <2>2 DEF b0, b1
<1>10. CASE m \notin ToSet(motors) \cup MotorsOf(all)
  <2>1. m \notin gone /\ (m \in joined' <=> m \in joined) /\ m \notin ToSet(motors')
    BY <1>2, <1>10
  <2>2. \A a \in Prim : /\ m \in asmMotors'[a] <=> m \in asmMotors[a]
                        /\ m \in asmIncons'[a] <=> m \in asmIncons[a]
    BY <1>8, <1>10
  <2>3. ASSUME m \in joined PROVE b0 = a0 /\ b1 = a1
    <3>1. e0 \notin out /\ e1 \notin out
      BY <1>2, <1>4, <1>10, <2>3
    <3>2. a0 \notin all /\ a1 \notin all
      BY <1>2, <1>3, <1>5, <1>10, <2>3
    <3> QED
      BY <1>6, <3>1, <3>2 DEF b0, b1
  <2>4. m \notin joined => \A a \in Prim : m \notin asmMotors[a] /\ m \notin asmIncons[a]
    BY <1>5
  <2>5. CASE m \in joined
    BY <1>5, <1>7, <1>10, <2>1, <2>2, <2>3, <2>5 DEF b0, b1
  <2>6. CASE m \notin joined
    BY <1>7, <2>1, <2>2, <2>4, <2>6 DEF b0, b1
  <2> QED
    BY <2>5, <2>6
<1> QED
  BY <1>9, <1>10

\* It leaves each contact in the buffer or in the assemblies of its ends.
LEMMA WithdrawEdges ==
  ASSUME Typed, ClumpsFiled, EdgesIn,
         NEW all, NEW es, NEW Cs, NEW out, NEW gone, Withdraw(all, es, Cs, out, gone)
  PROVE  EdgesIn'
<1> DEFINE rel == es \cup UNION {externalEdges[a] \cup internalEdges[a] : a \in all}
<1>1. /\ externalEdges' = [a \in Prim |-> externalEdges[a] \ rel]
      /\ internalEdges' = [a \in Prim |-> internalEdges[a] \ rel]
      /\ edges' = edges \cup rel /\ downEdges' = downEdges \ rel
  BY DEF Withdraw, ReleaseAssemblies
<1>2. /\ joined' = joined \ gone /\ gone \cap Contact = {} /\ es \subseteq joined
      /\ \A p \in Prim : AsmOfPrim(p)' = IF p \in out \/ AsmOfPrim(p) \in all THEN NoPrim
                                         ELSE AsmOfPrim(p)
      /\ \A e \in joined \cap Contact : EndsOf(e) \cap out # {} => e \in edges \cup rel
      /\ all \in SUBSET Prim /\ held' = held \ Cs /\ Cs \subseteq Clumps
      /\ \A c \in Cs : asmOf[c] \in all \cup {NoPrim}
  BY DEF Withdraw, Leave, AssembliesOf
<1>3. \A e : e \in rel <=> e \in es \/ \E a \in all : e \in externalEdges[a] \/ e \in internalEdges[a]
  OBVIOUS
<1> HIDE DEF rel
<1> SUFFICES ASSUME NEW e \in Contact PROVE EdgeAt(e)'
  BY DEF EdgesIn
<1> DEFINE e0 == End[e][1]
           e1 == End[e][2]
           a0 == AsmOfPrim(e0)
           a1 == AsmOfPrim(e1)
<1>4. e0 \in Prim /\ e1 \in Prim /\ EndsOf(e) = {e0, e1}
  BY Basics DEF Edge
<1>5. /\ e \in edges => e \in joined
      /\ \A a \in Prim : e \in internalEdges[a] <=>
           e \in joined /\ e \notin edges /\ a = a0 /\ a = a1
      /\ \A a \in Prim : e \in externalEdges[a] <=>
           e \in joined /\ e \notin edges /\ a0 # a1 /\ a \in {a0, a1}
      /\ e \in joined /\ e \notin edges => a0 \in Prim /\ a1 \in Prim
      /\ e \in downEdges <=>
           e \in joined /\ e \notin edges /\ a0 # a1 /\ ~(a0 \in held /\ a1 \in held)
  BY DEF EdgesIn, EdgeAt
<1>6. /\ AsmOfPrim(e0)' = IF e0 \in out \/ a0 \in all THEN NoPrim ELSE a0
      /\ AsmOfPrim(e1)' = IF e1 \in out \/ a1 \in all THEN NoPrim ELSE a1
  BY <1>2, <1>4
<1>7. \A p \in Prim : AsmOfPrim(p) \in Prim => asmOf[AsmOfPrim(p)] = AsmOfPrim(p)
  BY AsmFacts, Basics
<1>8. /\ a0 \in Prim /\ a0 \notin all => (a0 \in held' <=> a0 \in held)
      /\ a1 \in Prim /\ a1 \notin all => (a1 \in held' <=> a1 \in held)
  BY <1>2, <1>4, <1>7, Basics
<1> DEFINE b0 == AsmOfPrim(e0)'
           b1 == AsmOfPrim(e1)'
<1>9. EdgeAt(e)' <=>
        /\ e \in edges' => e \in joined'
        /\ \A a \in Prim : e \in internalEdges'[a] <=>
             e \in joined' /\ e \notin edges' /\ a = b0 /\ a = b1
        /\ \A a \in Prim : e \in externalEdges'[a] <=>
             e \in joined' /\ e \notin edges' /\ b0 # b1 /\ a \in {b0, b1}
        /\ e \in joined' /\ e \notin edges' => b0 \in Prim /\ b1 \in Prim
        /\ e \in downEdges' <=>
             e \in joined' /\ e \notin edges' /\ b0 # b1 /\ ~(b0 \in held' /\ b1 \in held')
  BY DEF EdgeAt
<1>10. /\ e \in joined' <=> e \in joined
       /\ e \in edges' <=> e \in edges \/ e \in rel
       /\ e \in downEdges' <=> e \in downEdges /\ e \notin rel
       /\ \A a \in Prim : /\ e \in internalEdges'[a] <=> e \in internalEdges[a] /\ e \notin rel
                          /\ e \in externalEdges'[a] <=> e \in externalEdges[a] /\ e \notin rel
  BY <1>1, <1>2
<1> HIDE DEF e0, e1, a0, a1, b0, b1
<1>11. CASE e \in rel
  <2>1. e \in joined
    BY <1>2, <1>3, <1>5, <1>11
  <2> QED
    BY <1>9, <1>10, <1>11, <2>1
<1>12. CASE e \notin rel
  <2>1. ASSUME e \in joined, e \notin edges PROVE b0 = a0 /\ b1 = a1 /\ a0 \notin all /\ a1 \notin all
    <3>1. e0 \notin out /\ e1 \notin out
      BY <1>2, <1>4, <1>12, <2>1
    <3>2. a0 \notin all /\ a1 \notin all
      BY <1>2, <1>3, <1>5, <1>12, <2>1
    <3> QED
      BY <1>6, <3>1, <3>2 DEF b0, b1
  <2>2. CASE e \in joined /\ e \notin edges
    BY <1>5, <1>8, <1>9, <1>10, <1>12, <2>1, <2>2
  <2>3. CASE ~(e \in joined /\ e \notin edges)
    BY <1>5, <1>9, <1>10, <1>12, <2>3
  <2> QED
    BY <2>2, <2>3
<1> QED
  BY <1>11, <1>12

\* It leaves the clumps that stay in an assembly hanging as they did.
LEMMA WithdrawHung ==
  ASSUME Typed, ClumpsFiled, MotorsIn, Hung,
         NEW all, NEW es, NEW Cs, NEW out, NEW gone, Withdraw(all, es, Cs, out, gone)
  PROVE  Hung'
<1>1. MotorsIn'
  BY WithdrawMotors
<1>2. /\ asmOf' = [c \in Prim |-> IF asmOf[c] \in all THEN NoPrim ELSE asmOf[c]]
      /\ asmMotors' = [a \in Prim |-> asmMotors[a] \ MotorsOf(all)]
  BY DEF Withdraw, ReleaseAssemblies
<1>3. /\ \A c \in Prim : clumpOf'[c] = c <=> clumpOf[c] = c /\ c \notin Cs
      /\ \A p \in Prim : AsmOfPrim(p)' # NoPrim => clumpOf'[p] = clumpOf[p]
      /\ \A c \in Clumps \ Cs : parent'[c] = IF asmOf[c] \in all THEN NoPrim ELSE parent[c]
      /\ all \in SUBSET Prim
  BY DEF Withdraw, Leave
<1> SUFFICES ASSUME NEW c \in Clumps'
             PROVE  IF asmOf'[c] \in {c, NoPrim} THEN parent'[c] = NoPrim
                    ELSE /\ parent'[c] \in Prim /\ clumpOf'[parent'[c]] # c
                         /\ \E m \in Motor : By(c)' = {m}
  BY DEF Hung
<1>4. c \in Prim /\ c \in Clumps /\ c \notin Cs /\ clumpOf'[c] = c
  BY <1>3 DEF Clumps
<1>5. CASE asmOf[c] \in all
  BY <1>2, <1>3, <1>4, <1>5
<1>6. CASE asmOf[c] \notin all
  <2>1. asmOf'[c] = asmOf[c] /\ parent'[c] = parent[c]
    BY <1>2, <1>3, <1>4, <1>6
  <2>2. CASE asmOf[c] \in {c, NoPrim}
    BY <1>4, <2>1, <2>2 DEF Hung
  <2>3. CASE asmOf[c] \notin {c, NoPrim}
    <3> DEFINE u == parent[c]
               a == asmOf[c]
    <3>1. u \in Prim /\ clumpOf[u] # c /\ \E m \in Motor : By(c) = {m}
      BY <1>4, <2>3 DEF Hung
    <3>2. PICK m \in Motor : By(c) = {m}
      BY <3>1
    <3>3. /\ m \in Attached /\ u \in EndsOf(m) /\ clumpOf[Other(m, u)] = c
          /\ \A n \in Attached : u \in EndsOf(n) /\ clumpOf[Other(n, u)] = c => n = m
      BY <3>2 DEF By
    <3>4. PICK b \in Prim : m \in asmMotors[b]
      BY <3>3 DEF Attached
    <3>5. \A e \in Edge : \A p \in EndsOf(e) : Other(e, p) \in Prim /\ Other(e, p) \in EndsOf(e) /\ p \in Prim
      BY Basics
    <3>6. \A n \in Motor : \A d \in Prim : n \in asmMotors[d] =>
            \A p \in EndsOf(n) : AsmOfPrim(p) = d
      <4> SUFFICES ASSUME NEW n \in Motor, NEW d \in Prim, n \in asmMotors[d]
                   PROVE  \A p \in EndsOf(n) : AsmOfPrim(p) = d
        OBVIOUS
      <4>1. AsmOfPrim(End[n][1]) = d /\ AsmOfPrim(End[n][2]) = d
        BY DEF MotorsIn, MotorAt
      <4> QED
        BY <4>1, Basics DEF Edge
    <3>7. \A n \in Motor : \A d \in Prim : n \in asmMotors'[d] =>
            \A p \in EndsOf(n) : AsmOfPrim(p)' = d
      <4> SUFFICES ASSUME NEW n \in Motor, NEW d \in Prim, n \in asmMotors'[d]
                   PROVE  \A p \in EndsOf(n) : AsmOfPrim(p)' = d
        OBVIOUS
      <4>1. AsmOfPrim(End[n][1])' = d /\ AsmOfPrim(End[n][2])' = d
        BY <1>1 DEF MotorsIn, MotorAt
      <4> QED
        BY <4>1, Basics DEF Edge
    <3>8. b = a
      <4>1. AsmOfPrim(Other(m, u)) = b
        BY <3>3, <3>4, <3>5, <3>6 DEF Edge
      <4>2. c # NoPrim
        BY <1>4, Basics
      <4> QED
        BY <3>3, <4>1, <4>2 DEF AsmOfPrim
    <3>9. m \notin MotorsOf(all)
      <4>1. ASSUME NEW d \in all, m \in asmMotors[d] \/ m \in asmIncons[d] PROVE FALSE
        <5>1. d \in Prim
          BY <1>3
        <5>2. m \notin asmIncons[d]
          BY <3>4, <5>1 DEF MotorsIn, MotorAt
        <5>3. AsmOfPrim(Other(m, u)) = d /\ AsmOfPrim(Other(m, u)) = b
          BY <3>3, <3>4, <3>5, <3>6, <4>1, <5>1, <5>2 DEF Edge
        <5> QED
          BY <1>6, <3>8, <5>3
      <4> QED
        BY <4>1 DEF MotorsOf
    <3>10. m \in asmMotors'[a]
      BY <1>2, <3>4, <3>8, <3>9
    <3>11. \A x \in Attached' : x \in Attached /\ x \in Motor /\ \E d \in Prim : x \in asmMotors'[d]
      <4>1. \A d \in Prim : asmMotors'[d] \subseteq asmMotors[d] /\ asmMotors[d] \subseteq Motor
        BY <1>2 DEF Typed, AsmTyped
      <4> QED
        BY <4>1 DEF Attached
    <3>12. \A x \in Attached' : \A p \in EndsOf(x) : clumpOf'[p] = clumpOf[p] /\ p \in Prim
      <4> SUFFICES ASSUME NEW x \in Attached', NEW p \in EndsOf(x)
                   PROVE  clumpOf'[p] = clumpOf[p] /\ p \in Prim
        OBVIOUS
      <4>1. PICK d \in Prim : x \in asmMotors'[d] /\ x \in Motor
        BY <3>11
      <4>2. p \in Prim /\ AsmOfPrim(p)' = d
        BY <3>5, <3>7, <4>1 DEF Edge
      <4> QED
        BY <1>3, <4>2, Basics
    <3>13. m \in Attached'
      BY <3>4, <3>8, <3>10 DEF Attached
    <3>14. By(c)' = {m}
      <4>1. By(c)' = {x \in Attached' : u \in EndsOf(x) /\ clumpOf'[Other(x, u)] = c}
        BY <2>1 DEF By, EndsOf, Other
      <4>2. ASSUME NEW x \in Attached', u \in EndsOf(x), clumpOf'[Other(x, u)] = c PROVE x = m
        BY <3>3, <3>5, <3>11, <3>12, <4>2 DEF Edge
      <4>3. clumpOf'[Other(m, u)] = c
        BY <3>3, <3>5, <3>12, <3>13 DEF Edge
      <4> QED
        BY <3>3, <3>13, <4>1, <4>2, <4>3
    <3>15. clumpOf'[u] # c
      BY <3>1, <3>3, <3>12, <3>13
    <3> QED
      BY <2>1, <2>3, <3>1, <3>14, <3>15
  <2> QED
    BY <2>2, <2>3
<1> QED
  BY <1>5, <1>6

\* Ungroup, but for the inconsistent joints.
Unlink(all, out, Cs) ==
  /\ clumpOf' = [p \in Prim |-> IF p \in out THEN NoPrim ELSE clumpOf[p]]
  /\ depth' = [p \in Prim |-> IF p \in out THEN -1 ELSE depth[p]]
  /\ parent' = ParentAfter(all, out)
  /\ held' = held \ Cs

\* What it does to who is in which clump and assembly.
LEMMA UngroupSets ==
  ASSUME Typed, Tree, ClumpsFiled, NEW all, NEW out \in SUBSET Prim, NEW Cs,
         Unlink(all, out, Cs),
         \A c \in Prim : asmOf'[c] = IF asmOf[c] \in all THEN NoPrim ELSE asmOf[c],
         out \cap Clumps = Cs, \A p \in Prim : clumpOf[p] \in out => p \in out
  PROVE  Leave(all, Cs, out)
<1>1. /\ clumpOf' = [p \in Prim |-> IF p \in out THEN NoPrim ELSE clumpOf[p]]
      /\ parent' = [p \in Prim |-> IF p \in out \/ asmOf[p] \in all THEN NoPrim ELSE parent[p]]
  BY DEF Unlink, ParentAfter
<1>2. clumpOf \in [Prim -> Prim \cup {NoPrim}] /\ Clumps \subseteq Prim
  BY DEF Typed, Clumps
<1>3. clumpOf' \in [Prim -> Prim \cup {NoPrim}]
  BY <1>1, <1>2
<1>4. \A c \in Prim : clumpOf'[c] = c <=> clumpOf[c] = c /\ c \notin Cs
  BY <1>1, <1>2, Basics DEF Clumps
<1>5. ASSUME NEW p \in Prim
      PROVE  /\ AsmOfPrim(p)' = IF p \in out \/ AsmOfPrim(p) \in all THEN NoPrim ELSE AsmOfPrim(p)
             /\ AsmOfPrim(p)' # NoPrim => clumpOf'[p] = clumpOf[p]
  BY <1>1, <1>2, Basics DEF AsmOfPrim
<1>6. \A c \in Clumps \ Cs : parent'[c] = IF asmOf[c] \in all THEN NoPrim ELSE parent[c]
  BY <1>1, <1>2
<1> QED
  BY <1>3, <1>4, <1>5, <1>6 DEF Leave

\* The bodies left behind still hang in trees.
LEMMA UngroupTree ==
  ASSUME Typed, Tree, ClumpsFiled, NEW all, NEW out \in SUBSET Prim, NEW Cs,
         Unlink(all, out, Cs), NoPrim \notin all,
         out \cap Clumps = Cs, \A p \in Prim : clumpOf[p] \in out => p \in out,
         \A p \in Prim \ out : clumpOf[p] \notin {NoPrim, p} =>
           parent[p] \notin out /\ \E r \in joined' \cap Rigid : EndsOf(r) = {p, parent[p]}
  PROVE  /\ Tree' /\ parent' \in [Prim -> Prim \cup {NoPrim}] /\ depth' \in [Prim -> Nat \cup {-1}]
         /\ held' \subseteq Prim
<1>1. /\ clumpOf' = [p \in Prim |-> IF p \in out THEN NoPrim ELSE clumpOf[p]]
      /\ parent' = [p \in Prim |-> IF p \in out \/ asmOf[p] \in all THEN NoPrim ELSE parent[p]]
      /\ depth' = [p \in Prim |-> IF p \in out THEN -1 ELSE depth[p]]
      /\ held' = held \ Cs
  BY DEF Unlink, ParentAfter
<1>2. /\ clumpOf \in [Prim -> Prim \cup {NoPrim}] /\ Clumps \subseteq Prim
      /\ parent \in [Prim -> Prim \cup {NoPrim}] /\ depth \in [Prim -> Nat \cup {-1}]
      /\ held \subseteq Prim
  BY DEF Typed, Clumps
<1>3. \A p \in Prim : asmOf[p] \in all => clumpOf[p] = p
  BY DEF ClumpsFiled, Clumps
<1>4. ASSUME NEW p \in Prim
      PROVE  /\ clumpOf'[p] # NoPrim => clumpOf'[clumpOf'[p]] = clumpOf'[p] /\ depth'[p] \in Nat
             /\ clumpOf'[p] = p => depth'[p] = 0
             /\ clumpOf'[p] \notin {NoPrim, p} =>
                  /\ parent'[p] \in Prim /\ clumpOf'[parent'[p]] = clumpOf'[p]
                  /\ depth'[p] = depth'[parent'[p]] + 1
                  /\ \E r \in joined' \cap Rigid : EndsOf(r) = {p, parent'[p]}
             /\ clumpOf'[p] = NoPrim => depth'[p] = -1 /\ parent'[p] = NoPrim
  <2>1. CASE p \in out
    BY <1>1, <2>1, Basics
  <2>2. CASE p \notin out
    <3>1. clumpOf'[p] = clumpOf[p] /\ depth'[p] = depth[p]
          /\ parent'[p] = IF asmOf[p] \in all THEN NoPrim ELSE parent[p]
      BY <1>1, <2>2
    <3>2. /\ clumpOf[p] # NoPrim => clumpOf[clumpOf[p]] = clumpOf[p] /\ depth[p] \in Nat
          /\ clumpOf[p] = p => depth[p] = 0
          /\ clumpOf[p] \notin {NoPrim, p} =>
               /\ parent[p] \in Prim /\ clumpOf[parent[p]] = clumpOf[p]
               /\ depth[p] = depth[parent[p]] + 1
          /\ clumpOf[p] = NoPrim => depth[p] = -1 /\ parent[p] = NoPrim
      BY DEF Tree
    <3>3. clumpOf[p] # NoPrim => clumpOf[p] \notin out /\ clumpOf[p] \in Prim
      BY <1>2, <2>2
    <3>4. clumpOf'[p] # NoPrim => clumpOf'[clumpOf'[p]] = clumpOf'[p] /\ depth'[p] \in Nat
      BY <1>1, <3>1, <3>2, <3>3
    <3>5. ASSUME clumpOf[p] \notin {NoPrim, p}
          PROVE  /\ parent'[p] \in Prim /\ clumpOf'[parent'[p]] = clumpOf'[p]
                 /\ depth'[p] = depth'[parent'[p]] + 1
                 /\ \E r \in joined' \cap Rigid : EndsOf(r) = {p, parent'[p]}
      <4>1. parent'[p] = parent[p] /\ parent[p] \notin out
        BY <1>3, <2>2, <3>1, <3>5
      <4>2. clumpOf'[parent[p]] = clumpOf[parent[p]] /\ depth'[parent[p]] = depth[parent[p]]
        BY <1>1, <3>2, <3>5, <4>1
      <4> QED
        BY <2>2, <3>1, <3>2, <3>5, <4>1, <4>2
    <3>6. clumpOf[p] = NoPrim => depth'[p] = -1 /\ parent'[p] = NoPrim
      BY <3>1, <3>2
    <3>7. clumpOf'[p] = p => depth'[p] = 0
      BY <3>1, <3>2
    <3> QED
      BY <3>1, <3>4, <3>5, <3>6, <3>7
  <2> QED
    BY <2>1, <2>2
<1>5. Tree'
  BY <1>4 DEF Tree, EndsOf
<1>6. /\ parent' \in [Prim -> Prim \cup {NoPrim}] /\ depth' \in [Prim -> Nat \cup {-1}]
      /\ held' \subseteq Prim
  BY <1>1, <1>2
<1> QED
  BY <1>5, <1>6

\* The motors of the assemblies come after those that waited.
LEMMA MotorsReleased ==
  ASSUME Typed, MotorsIn, NEW all \in SUBSET Prim, NEW base \in Seq(Motor), Once(base),
         ToSet(base) = ToSet(motors), NEW s \in Released(all)
  PROVE  /\ base \o s \in Seq(Motor) /\ Once(base \o s)
         /\ ToSet(base \o s) = ToSet(motors) \cup MotorsOf(all)
         /\ MotorsOf(all) \subseteq Motor /\ AnglesToo(all) \subseteq Motor
<1>1. \A a \in all : asmMotors[a] \subseteq Motor /\ asmIncons[a] \subseteq Motor
  BY DEF Typed, AsmTyped
<1>2. MotorsOf(all) \subseteq Motor
  BY <1>1 DEF MotorsOf
<1>3. IsFiniteSet(MotorsOf(all))
  BY <1>2, FS_Subset, ClumpStageAssumption
<1>4. s \in SetToSeqs(MotorsOf(all))
  BY DEF Released
<1>5. s \in Seq(MotorsOf(all)) /\ Once(s) /\ ToSet(s) = MotorsOf(all)
  BY <1>3, <1>4, SeqOfSet
<1>6. s \in Seq(Motor)
  BY <1>2, <1>5
<1>7. ToSet(base) \cap ToSet(s) = {}
  <2>1. ASSUME NEW m \in ToSet(motors), m \in MotorsOf(all) PROVE FALSE
    <3>1. PICK a \in all : m \in asmMotors[a] \/ m \in asmIncons[a]
      BY <2>1 DEF MotorsOf
    <3>2. MotorAt(m)
      BY <1>2, <2>1 DEF MotorsIn
    <3>3. a \in Prim
      OBVIOUS
    <3> QED
      BY <2>1, <3>1, <3>2, <3>3 DEF MotorAt, MotorsFind
  <2> QED
    BY <1>5, <2>1
<1>8. base \o s \in Seq(Motor) /\ Once(base \o s) /\ ToSet(base \o s) = ToSet(base) \cup ToSet(s)
  BY <1>5, <1>6, <1>7, ConcatOnce
<1>9. AnglesToo(all) \subseteq Motor
  BY <1>1 DEF AnglesToo, Typed
<1> QED
  BY <1>2, <1>5, <1>8, <1>9

\* The invariants of the bodies, the clumps and the assemblies.
BodyTyped ==
  /\ clumpOf \in [Prim -> Prim \cup {NoPrim}]
  /\ parent \in [Prim -> Prim \cup {NoPrim}]
  /\ depth \in [Prim -> Nat \cup {-1}]
  /\ held \subseteq Prim
  /\ inconsistent \in [Prim -> SUBSET Rigid]
GroupInv == Tree /\ ClumpsFiled /\ MotorsIn /\ EdgesIn /\ Hung /\ Alone

\* A withdrawal that Ungroup is a part of keeps them.
LEMMA WithdrawGroups ==
  ASSUME Typed, ClumpsFiled, MotorsIn, EdgesIn, Hung, Alone,
         NEW all, NEW es, NEW Cs, NEW out, NEW gone, Withdraw(all, es, Cs, out, gone)
  PROVE  AsmTyped' /\ ClumpsFiled' /\ MotorsIn' /\ EdgesIn' /\ Hung' /\ Alone'
BY WithdrawTyped, WithdrawClumps, WithdrawMotors, WithdrawEdges, WithdrawHung

\* Who leaves a clump that is dissolved leaves an assembly that is, with the motors and
\* contacts it has there.
LEMMA LeaversReleased ==
  ASSUME Typed, ClumpsFiled, MotorsIn, EdgesIn, NEW all \in SUBSET Prim, NEW out \in SUBSET Prim,
         \A p \in out : AsmOfPrim(p) \in all \cup {NoPrim}
  PROVE  /\ \A m \in joined \cap Motor : EndsOf(m) \cap out # {} =>
              m \in ToSet(motors) \cup MotorsOf(all)
         /\ \A e \in joined \cap Contact : EndsOf(e) \cap out # {} =>
              e \in edges \cup UNION {externalEdges[a] \cup internalEdges[a] : a \in all}
<1>1. ASSUME NEW m \in joined \cap Motor, EndsOf(m) \cap out # {}, m \notin ToSet(motors)
      PROVE  m \in MotorsOf(all)
  <2> DEFINE a0 == AsmOfPrim(End[m][1])
             a1 == AsmOfPrim(End[m][2])
  <2>1. a0 \in Prim /\ (m \in asmMotors[a0] \/ m \in asmIncons[a0])
    BY <1>1 DEF MotorsIn, MotorAt, MotorsFind
  <2>2. EndsOf(m) = {End[m][1], End[m][2]}
    BY Basics DEF Edge
  <2>3. CASE m \in asmMotors[a0]
    <3>1. a1 = a0
      BY <2>1, <2>3 DEF MotorsIn, MotorAt
    <3>2. a0 \in all
      BY <1>1, <2>1, <2>2, <3>1, Basics
    <3> QED
      BY <2>3, <3>2 DEF MotorsOf
  <2>4. CASE m \in asmIncons[a0]
    <3>1. a1 \in Prim /\ m \in asmIncons[a1]
      BY <2>1, <2>4 DEF MotorsIn, MotorAt
    <3>2. a0 \in all \/ a1 \in all
      BY <1>1, <2>1, <2>2, <3>1, Basics
    <3> QED
      BY <2>4, <3>1, <3>2 DEF MotorsOf
  <2> QED
    BY <2>1, <2>3, <2>4
<1>2. ASSUME NEW e \in joined \cap Contact, EndsOf(e) \cap out # {}, e \notin edges
      PROVE  e \in UNION {externalEdges[a] \cup internalEdges[a] : a \in all}
  <2> DEFINE a0 == AsmOfPrim(End[e][1])
             a1 == AsmOfPrim(End[e][2])
  <2>1. /\ a0 \in Prim /\ a1 \in Prim
        /\ \A a \in Prim : e \in internalEdges[a] <=> a = a0 /\ a = a1
        /\ \A a \in Prim : e \in externalEdges[a] <=> a0 # a1 /\ a \in {a0, a1}
    BY <1>2 DEF EdgesIn, EdgeAt
  <2>2. EndsOf(e) = {End[e][1], End[e][2]}
    BY Basics DEF Edge
  <2>3. a0 \in all \/ a1 \in all
    BY <1>2, <2>1, <2>2, Basics
  <2>4. \E a \in all : e \in externalEdges[a] \cup internalEdges[a]
    <3> HIDE DEF a0, a1
    <3> QED
      BY <2>1, <2>3
  <2> QED
    BY <2>4
<1> QED
  BY <1>1, <1>2

\* DestroyGroups keeps them, whatever joints between clumps leave the world with it.
LEMMA GroupsWithdrawn ==
  ASSUME Typed, GroupInv, NEW As \in SUBSET Prim, NEW Cs \in SUBSET Clumps,
         NEW gone \in SUBSET Rigid, joined' = joined \ gone,
         \A r \in gone : clumpOf[End[r][1]] # clumpOf[End[r][2]],
         DestroyGroups(As, Cs)
  PROVE  GroupInv' /\ BodyTyped' /\ AsmTyped' /\ motorAngles' \subseteq Motor
<1>20. PICK all : all = As \cup AssembliesOf(Cs)
  OBVIOUS
<1>21. PICK out : out = {p \in Prim : clumpOf[p] \in Cs}
  OBVIOUS
<1>22. PICK rs : rs = UNION {inconsistent[c] : c \in Cs}
  OBVIOUS
<1>1. /\ ReleaseAssemblies(all, {}) /\ ReleaseMotors(motors, all) /\ FileClumps(all, Cs)
      /\ Ungroup(all, out, Cs, rs)
  BY <1>20, <1>21, <1>22 DEF DestroyGroups
<1>2. all \in SUBSET Prim /\ AssembliesOf(Cs) \subseteq all /\ NoPrim \notin all
  BY <1>20, Basics DEF AssembliesOf, Typed, AsmTyped, Clumps
<1>3. /\ out \in SUBSET Prim /\ out \cap Clumps = Cs
      /\ \A p \in Prim : clumpOf[p] \in out => p \in out
  <2>1. \A p \in Prim : clumpOf[p] \in out => p \in out
    <3>1. ASSUME NEW p \in Prim, clumpOf[p] \in out PROVE p \in out
      <4>1. clumpOf[p] # NoPrim /\ clumpOf[clumpOf[p]] = clumpOf[p]
        BY <1>21, <3>1, Basics DEF GroupInv, Tree
      <4> QED
        BY <1>21, <3>1, <4>1
    <3> QED
      BY <3>1
  <2> QED
    BY <1>21, <2>1 DEF Clumps
<1>4. \A p \in out : AsmOfPrim(p) \in all \cup {NoPrim}
  BY <1>20, <1>21 DEF AsmOfPrim, AssembliesOf
<1>5. \A c \in Prim : asmOf'[c] = IF asmOf[c] \in all THEN NoPrim ELSE asmOf[c]
  BY <1>1 DEF ReleaseAssemblies
<1>13. Unlink(all, out, Cs) /\ inconsistent' \in [Prim -> SUBSET Rigid]
  BY <1>1 DEF Ungroup, Unlink, Typed
<1>6. Leave(all, Cs, out)
  BY <1>3, <1>5, <1>13, UngroupSets DEF GroupInv
<1>7. /\ \A m \in joined \cap Motor : EndsOf(m) \cap out # {} =>
              m \in ToSet(motors) \cup MotorsOf(all)
      /\ \A e \in joined \cap Contact : EndsOf(e) \cap out # {} =>
              e \in edges \cup UNION {externalEdges[a] \cup internalEdges[a] : a \in all}
  BY <1>2, <1>3, <1>4, LeaversReleased DEF GroupInv
<1>8. /\ motors' \in Seq(Motor) /\ Once(motors')
      /\ ToSet(motors') = ToSet(motors) \cup MotorsOf(all)
      /\ MotorsOf(all) \subseteq Motor /\ motorAngles' \subseteq Motor
  <2>1. PICK s \in Released(all) : motors' = motors \o s
    BY <1>1 DEF ReleaseMotors
  <2>2. motorAngles' = AnglesToo(all)
    BY <1>1 DEF ReleaseMotors
  <2>3. motors \in Seq(Motor) /\ Once(motors)
    BY DEF Typed, AsmTyped, GroupInv, MotorsIn
  <2> QED
    BY <1>2, <2>1, <2>2, <2>3, MotorsReleased DEF GroupInv
<1>9. Withdraw(all, {}, Cs, out, gone)
  <2>1. gone \cap Contact = {} /\ gone \cap Motor = {}
    BY ClumpStageAssumption
  <2>2. ToSet(motors') = (ToSet(motors) \cup MotorsOf(all)) \ gone
    <3>1. ToSet(motors) \subseteq Motor
      BY DEF Typed, AsmTyped, ToSet
    <3> QED
      BY <1>8, <2>1, <3>1
  <2>3. held' = held \ Cs
    BY <1>1 DEF Ungroup
  <2> QED
    BY <1>1, <1>2, <1>6, <1>7, <1>8, <2>1, <2>2, <2>3 DEF Withdraw
<1>10. AsmTyped' /\ ClumpsFiled' /\ MotorsIn' /\ EdgesIn' /\ Hung' /\ Alone'
  BY <1>9, WithdrawGroups DEF GroupInv
<1>11. ASSUME NEW p \in Prim \ out, clumpOf[p] \notin {NoPrim, p}
       PROVE  parent[p] \notin out /\ \E r \in joined' \cap Rigid : EndsOf(r) = {p, parent[p]}
  <2>1. /\ parent[p] \in Prim /\ clumpOf[parent[p]] = clumpOf[p]
        /\ \E r \in joined \cap Rigid : EndsOf(r) = {p, parent[p]}
    BY <1>11 DEF GroupInv, Tree
  <2>2. parent[p] \notin out
    BY <1>21, <2>1
  <2>3. PICK r \in joined \cap Rigid : EndsOf(r) = {p, parent[p]}
    BY <2>1
  <2>4. r \notin gone
    BY <2>1, <2>3 DEF EndsOf
  <2> QED
    BY <2>2, <2>3, <2>4
<1>12. /\ Tree' /\ parent' \in [Prim -> Prim \cup {NoPrim}] /\ depth' \in [Prim -> Nat \cup {-1}]
       /\ held' \subseteq Prim
  BY <1>2, <1>3, <1>11, <1>13, UngroupTree DEF GroupInv
<1> QED
  BY <1>6, <1>8, <1>10, <1>12, <1>13 DEF GroupInv, BodyTyped, Leave

\* So does the release of assemblies alone.
LEMMA AssembliesWithdrawn ==
  ASSUME Typed, GroupInv, NEW As \in SUBSET Prim, NEW gone \in SUBSET Motor,
         ReleaseAssemblies(As, {}), FileClumps(As, {}), parent' = ParentAfter(As, {}),
         clumpOf' = clumpOf, depth' = depth, held' = held,
         inconsistent' \in [Prim -> SUBSET Rigid],
         joined' = joined \ gone, gone \subseteq ToSet(motors) \cup MotorsOf(As),
         motors' \in Seq(Motor), Once(motors'),
         ToSet(motors') = (ToSet(motors) \cup MotorsOf(As)) \ gone
  PROVE  GroupInv' /\ BodyTyped' /\ AsmTyped'
<1>1. clumpOf = [p \in Prim |-> clumpOf[p]] /\ depth = [p \in Prim |-> depth[p]]
  BY DEF Typed
<1>2. Unlink(As, {}, {})
  BY <1>1 DEF Unlink
<1>3. /\ \A c \in Prim : asmOf'[c] = IF asmOf[c] \in As THEN NoPrim ELSE asmOf[c]
      /\ NoPrim \notin As
  BY Basics DEF ReleaseAssemblies
<1> DEFINE no == {}
<1>4. Unlink(As, no, no) /\ no \in SUBSET Prim /\ no \cap Clumps = no
      /\ \A p \in Prim : clumpOf[p] \in no => p \in no
  BY <1>2
<1>5. Leave(As, no, no)
  <2> HIDE DEF no
  <2> QED
    BY <1>3, <1>4, UngroupSets DEF GroupInv
<1>6. Withdraw(As, {}, {}, {}, gone)
  <2>1. gone \cap Contact = {} /\ AssembliesOf({}) = {}
    BY ClumpStageAssumption DEF AssembliesOf
  <2> QED
    BY <1>5, <2>1 DEF Withdraw
<1>7. AsmTyped' /\ ClumpsFiled' /\ MotorsIn' /\ EdgesIn' /\ Hung' /\ Alone'
  BY <1>6, WithdrawGroups DEF GroupInv
<1>8. \A p \in Prim \ no : clumpOf[p] \notin {NoPrim, p} =>
        parent[p] \notin no /\ \E r \in joined' \cap Rigid : EndsOf(r) = {p, parent[p]}
  <2>1. gone \cap Rigid = {}
    BY ClumpStageAssumption
  <2> QED
    BY <2>1 DEF GroupInv, Tree
<1>9. /\ Tree' /\ parent' \in [Prim -> Prim \cup {NoPrim}] /\ depth' \in [Prim -> Nat \cup {-1}]
      /\ held' \subseteq Prim
  <2> HIDE DEF no
  <2> QED
    BY <1>3, <1>4, <1>8, UngroupTree DEF GroupInv
<1> QED
  BY <1>5, <1>7, <1>9 DEF GroupInv, BodyTyped, Leave

\* So does removeSpanningTreeFast, of the tree that hung by the joint removed.
LEMMA TreeWithdrawn ==
  ASSUME Typed, GroupInv, NEW r \in joined \cap Rigid, joined' = joined \ {r},
         NEW top \in Prim, clumpOf[top] \notin {NoPrim, top}, EndsOf(r) = {top, parent[top]},
         RemoveSpanningTree(r, top)
  PROVE  GroupInv' /\ BodyTyped' /\ AsmTyped' /\ motorAngles' \subseteq Motor
<1> DEFINE c == clumpOf[top]
           a == AsmOfPrim(top)
           at(S) == {e \in joined \cap S : EndsOf(e) \cap Subtree(top) # {}}
<1>1. PICK out : out = Subtree(top)
  OBVIOUS
<1>2. PICK As : As = IF a # NoPrim /\ at(Motor) # {} THEN {a} ELSE {}
  OBVIOUS
<1>3. PICK es : es = IF a = NoPrim \/ As # {} THEN {} ELSE TreeContacts(a, out)
  OBVIOUS
<1>4. PICK rs : rs = at(Rigid)
  OBVIOUS
<1>5. PICK no : no = {}
  OBVIOUS
<1>6. PICK gone : gone = {r}
  OBVIOUS
<1>7. /\ ReleaseAssemblies(As, es) /\ ReleaseMotors(motors, As) /\ FileClumps(As, no)
      /\ Ungroup(As, out, no, rs)
  BY <1>1, <1>2, <1>3, <1>4, <1>5 DEF RemoveSpanningTree
<1>8. Tree /\ ClumpsFiled /\ MotorsIn /\ EdgesIn /\ Hung /\ Alone
  BY DEF GroupInv
<1>9. /\ out \subseteq Members(c) \ {c} /\ top \in out /\ parent[top] \notin out
      /\ \A p \in Members(c) \ {c} : parent[p] \in out => p \in out
  BY <1>1, <1>8, SubtreeFacts
<1>10. /\ out \in SUBSET Prim /\ c # NoPrim /\ c \in Prim
       /\ \A p \in Prim : p \in Members(c) <=> clumpOf[p] = c
  BY <1>9 DEF Members, Typed
<1>11. out \cap Clumps = no /\ \A p \in Prim : clumpOf[p] \in out => p \in out
  <2>1. out \cap Clumps = no
    BY <1>5, <1>9, <1>10 DEF Clumps
  <2>2. ASSUME NEW p \in Prim, clumpOf[p] \in out PROVE FALSE
    <3>1. clumpOf[p] # NoPrim
      BY <1>10, <2>2, Basics
    <3>2. clumpOf[clumpOf[p]] = clumpOf[p]
      BY <1>8, <3>1 DEF Tree
    <3> QED
      BY <1>9, <1>10, <2>2, <3>2
  <2> QED
    BY <2>1, <2>2
<1>12. a \in Prim \cup {NoPrim} /\ \A p \in out : AsmOfPrim(p) = a
  <2>1. \A p \in out : clumpOf[p] = c
    BY <1>9, <1>10
  <2> QED
    BY <1>8, <1>10, <2>1, AsmFacts DEF AsmOfPrim
<1>13. As \in SUBSET Prim /\ NoPrim \notin As /\ (As = {} \/ As = {a})
  BY <1>2, <1>12, Basics
<1> HIDE DEF a, c
<1>14. /\ es \subseteq joined \cap Contact
       /\ \A m \in joined \cap Motor : EndsOf(m) \cap out # {} => m \in ToSet(motors) \cup MotorsOf(As)
       /\ \A e \in joined \cap Contact : EndsOf(e) \cap out # {} =>
            e \in edges \cup es \cup UNION {externalEdges[x] \cup internalEdges[x] : x \in As}
  <2>1. CASE a = NoPrim \/ As # {}
    <3>1. es = {}
      BY <1>3, <2>1
    <3>2. \A p \in out : AsmOfPrim(p) \in As \cup {NoPrim}
      BY <1>12, <1>13, <2>1
    <3> QED
      BY <1>8, <1>10, <1>13, <3>1, <3>2, LeaversReleased
  <2>2. CASE a # NoPrim /\ As = {}
    <3>1. es = TreeContacts(a, out) /\ at(Motor) = {} /\ a \in Prim
      BY <1>2, <1>3, <1>12, <2>2
    <3>2. \A m \in joined \cap Motor : EndsOf(m) \cap out = {}
      BY <1>1, <3>1
    <3>3. ASSUME NEW e \in es PROVE e \in joined \cap Contact
      <4>1. e \in externalEdges[a] \/ e \in internalEdges[a]
        BY <3>1 DEF TreeContacts
      <4>2. e \in Contact
        BY <3>1, <4>1 DEF Typed, AsmTyped
      <4> QED
        BY <1>8, <3>1, <4>1, <4>2 DEF EdgesIn, EdgeAt
    <3>4. ASSUME NEW e \in joined \cap Contact, EndsOf(e) \cap out # {}, e \notin edges PROVE e \in es
      <4> DEFINE a0 == AsmOfPrim(End[e][1])
                 a1 == AsmOfPrim(End[e][2])
      <4>1. /\ e \in internalEdges[a] <=> a = a0 /\ a = a1
            /\ e \in externalEdges[a] <=> a0 # a1 /\ a \in {a0, a1}
        BY <1>8, <3>1, <3>4 DEF EdgesIn, EdgeAt
      <4>2. EndsOf(e) = {End[e][1], End[e][2]}
        BY Basics DEF Edge
      <4>3. a = a0 \/ a = a1
        BY <1>12, <3>4, <4>2
      <4> HIDE DEF a0, a1
      <4>4. e \in externalEdges[a] \cup internalEdges[a]
        BY <4>1, <4>3
      <4> QED
        BY <3>1, <3>4, <4>4 DEF TreeContacts
    <3> QED
      BY <3>2, <3>3, <3>4
  <2> QED
    BY <2>1, <2>2
<1>15. \A x \in Prim : asmOf'[x] = IF asmOf[x] \in As THEN NoPrim ELSE asmOf[x]
  BY <1>7 DEF ReleaseAssemblies
<1>22. Unlink(As, out, no) /\ inconsistent' \in [Prim -> SUBSET Rigid]
  BY <1>7 DEF Ungroup, Unlink, Typed
<1>16. Leave(As, no, out)
  BY <1>8, <1>10, <1>11, <1>15, <1>22, UngroupSets
<1>17. /\ motors' \in Seq(Motor) /\ Once(motors')
       /\ ToSet(motors') = ToSet(motors) \cup MotorsOf(As)
       /\ MotorsOf(As) \subseteq Motor /\ motorAngles' \subseteq Motor
  <2>1. PICK s \in Released(As) : motors' = motors \o s
    BY <1>7 DEF ReleaseMotors
  <2>2. motorAngles' = AnglesToo(As)
    BY <1>7 DEF ReleaseMotors
  <2>3. motors \in Seq(Motor) /\ Once(motors)
    BY <1>8 DEF Typed, AsmTyped, MotorsIn
  <2> QED
    BY <1>8, <1>13, <2>1, <2>2, <2>3, MotorsReleased
<1>18. Withdraw(As, es, no, out, gone)
  <2>1. gone \cap Contact = {} /\ gone \cap Motor = {} /\ AssembliesOf(no) = {}
    BY <1>5, <1>6, ClumpStageAssumption DEF AssembliesOf
  <2>2. ToSet(motors') = (ToSet(motors) \cup MotorsOf(As)) \ gone
    <3>1. ToSet(motors) \subseteq Motor
      BY DEF Typed, AsmTyped, ToSet
    <3> QED
      BY <1>17, <2>1, <3>1
  <2>3. held' = held \ no
    BY <1>7 DEF Ungroup
  <2>4. no \subseteq Clumps
    BY <1>5
  <2> QED
    BY <1>6, <1>7, <1>13, <1>14, <1>16, <1>17, <2>1, <2>2, <2>3, <2>4 DEF Withdraw
<1>19. AsmTyped' /\ ClumpsFiled' /\ MotorsIn' /\ EdgesIn' /\ Hung' /\ Alone'
  BY <1>8, <1>18, WithdrawGroups
<1>20. ASSUME NEW p \in Prim \ out, clumpOf[p] \notin {NoPrim, p}
       PROVE  parent[p] \notin out /\ \E s \in joined' \cap Rigid : EndsOf(s) = {p, parent[p]}
  <2>1. /\ parent[p] \in Prim /\ clumpOf[parent[p]] = clumpOf[p]
        /\ \E s \in joined \cap Rigid : EndsOf(s) = {p, parent[p]}
    BY <1>8, <1>20 DEF Tree
  <2>2. parent[p] \notin out
    BY <1>9, <1>10, <1>20, <2>1
  <2>3. PICK s \in joined \cap Rigid : EndsOf(s) = {p, parent[p]}
    BY <2>1
  <2>4. s # r
    BY <1>9, <2>2, <2>3
  <2> QED
    BY <2>2, <2>3, <2>4
<1>21. /\ Tree' /\ parent' \in [Prim -> Prim \cup {NoPrim}] /\ depth' \in [Prim -> Nat \cup {-1}]
       /\ held' \subseteq Prim
  BY <1>8, <1>10, <1>11, <1>13, <1>20, <1>22, UngroupTree
<1> QED
  BY <1>16, <1>17, <1>19, <1>21, <1>22 DEF GroupInv, BodyTyped, Leave

-----------------------------------------------------------------------------
\* Two things are one or two.
LEMMA CardPair ==
  ASSUME NEW x, NEW y
  PROVE  /\ x = y => Cardinality({x, y}) = 1
         /\ x # y => Cardinality({x, y}) = 2
<1>1. Cardinality({x}) = 1 /\ IsFiniteSet({x})
  BY FS_Singleton
<1>2. CASE x = y
  BY <1>1, <1>2
<1>3. CASE x # y
  <2>1. Cardinality({x} \cup {y}) = Cardinality({x}) + 1
    BY <1>1, <1>3, FS_AddElement
  <2>2. {x} \cup {y} = {x, y}
    OBVIOUS
  <2> QED
    BY <1>1, <1>3, <2>1, <2>2
<1> QED
  BY <1>2, <1>3

\* The clumps of the ends of an edge.
LEMMA EndClumps ==
  ASSUME NEW e \in Edge
  PROVE  /\ {clumpOf[p] : p \in EndsOf(e)} = {clumpOf[End[e][1]], clumpOf[End[e][2]]}
         /\ ClumpsOf(e) = {clumpOf[End[e][1]], clumpOf[End[e][2]]} \ {NoPrim}
<1>1. EndsOf(e) = {End[e][1], End[e][2]}
  BY Basics
<1> QED
  BY <1>1 DEF ClumpsOf

\* What destroyClumpGuts makes of the buffers, joint by joint.
GuttedIs(b, Cs) ==
  /\ b.anchors = anchors \cup (held \cap Cs)
  /\ DOMAIN b.prims = DOMAIN primitives \cup {p \in Prim : clumpOf[p] \in Cs}
  /\ b.twos \subseteq Rigid /\ b.zeros \subseteq Rigid /\ DOMAIN b.ones \subseteq Rigid
  /\ \A r \in Rigid :
       LET c0 == clumpOf[End[r][1]]
           c1 == clumpOf[End[r][2]]
           touched == r \in joined /\ (c0 \in Cs \/ c1 \in Cs)
           alone == c0 \in Cs \cup {NoPrim} /\ c1 \in Cs \cup {NoPrim}
       IN  /\ r \in b.twos <=> IF touched THEN c0 = c1 ELSE r \in rigidTwos
           /\ r \in DOMAIN b.ones <=> IF touched THEN c0 # c1 /\ ~alone ELSE r \in DOMAIN rigidOnes
           /\ r \in b.zeros <=> IF touched THEN c0 # c1 /\ alone ELSE r \in rigidZeros

\* Gutted does so when the bodies of each clump are a tree that its joints span.
LEMMA GuttedFacts ==
  ASSUME Typed, Tree, RigidIn, NEW Cs \in SUBSET Clumps
  PROVE  GuttedIs(Gutted(Cs), Cs)
<1> DEFINE rs == {r \in joined \cap Rigid : EndsOf(r) \cap UNION {Reached(c) : c \in Cs} # {}}
           inner == {r \in rs : Cardinality({clumpOf[p] : p \in EndsOf(r)}) = 1}
           outer == rs \ inner
           loosened == UNION {inconsistent[c] : c \in Cs}
           left(r) == ClumpsOf(r) \ Cs
           root(r) == Power(CHOOSE c \in left(r) : TRUE)
           twos == ((rigidTwos \cup loosened) \ outer) \cup {r \in inner : ~InBuffers(r)}
           ones == Refile(rigidOnes, outer, {r \in outer : left(r) # {}}, root)
           zeros == (rigidZeros \ outer) \cup {r \in outer : left(r) = {}}
           prims == Refile(primitives, {}, {p \in Prim : clumpOf[p] \in Cs}, Power)
           b == Gutted(Cs)
<1>1. /\ b.anchors = anchors \cup (held \cap Cs) /\ b.twos = twos /\ b.ones = ones
      /\ b.zeros = zeros /\ b.prims = prims
  BY DEF Gutted
<1>2. DOMAIN prims = DOMAIN primitives \cup {p \in Prim : clumpOf[p] \in Cs}
  BY DEF Refile
<1>3. DOMAIN ones = (DOMAIN rigidOnes \ outer) \cup {r \in outer : left(r) # {}}
  BY DEF Refile
<1>4. \A c \in Cs : Reached(c) = Members(c)
  BY ReachedMembers
<1>5. Cs \subseteq Prim
  BY DEF Clumps
<1> DEFINE touched(r) == r \in joined /\ (clumpOf[End[r][1]] \in Cs \/ clumpOf[End[r][2]] \in Cs)
           alone(r) == clumpOf[End[r][1]] \in Cs \cup {NoPrim} /\ clumpOf[End[r][2]] \in Cs \cup {NoPrim}
<1>6. \A r \in Rigid : r \in rs <=> touched(r)
  <2> SUFFICES ASSUME NEW r \in Rigid PROVE r \in rs <=> touched(r)
    OBVIOUS
  <2>1. EndsOf(r) = {End[r][1], End[r][2]} /\ End[r][1] \in Prim /\ End[r][2] \in Prim
    BY Basics DEF Edge
  <2>2. r \in rs <=> r \in joined /\ \E p \in EndsOf(r) : \E c \in Cs : p \in Reached(c)
    OBVIOUS
  <2>3. \A p \in Prim : (\E c \in Cs : p \in Reached(c)) <=> clumpOf[p] \in Cs
    BY <1>4 DEF Members
  <2> QED
    BY <2>1, <2>2, <2>3
<1>7. \A r \in Rigid : r \in inner <=> touched(r) /\ clumpOf[End[r][1]] = clumpOf[End[r][2]]
  <2> SUFFICES ASSUME NEW r \in Rigid
               PROVE  r \in inner <=> touched(r) /\ clumpOf[End[r][1]] = clumpOf[End[r][2]]
    OBVIOUS
  <2>1. {clumpOf[p] : p \in EndsOf(r)} = {clumpOf[End[r][1]], clumpOf[End[r][2]]}
    BY EndClumps DEF Edge
  <2>2. Cardinality({clumpOf[p] : p \in EndsOf(r)}) = 1 <=> clumpOf[End[r][1]] = clumpOf[End[r][2]]
    <3> DEFINE x == clumpOf[End[r][1]]
               y == clumpOf[End[r][2]]
    <3> HIDE DEF x, y
    <3>1. (x = y => Cardinality({x, y}) = 1) /\ (x # y => Cardinality({x, y}) = 2)
      BY CardPair
    <3>2. Cardinality({x, y}) = 1 <=> x = y
      BY <3>1
    <3> QED
      BY <2>1, <3>2 DEF x, y
  <2> HIDE DEF touched, rs
  <2> QED
    BY <1>6, <2>2
<1>8. \A r \in Rigid : left(r) = {} <=> alone(r)
  <2> SUFFICES ASSUME NEW r \in Rigid PROVE left(r) = {} <=> alone(r)
    OBVIOUS
  <2>1. left(r) = ({clumpOf[End[r][1]], clumpOf[End[r][2]]} \ {NoPrim}) \ Cs
    BY EndClumps DEF Edge
  <2> HIDE DEF left
  <2> QED
    BY <2>1
<1>9. inner \subseteq Rigid /\ outer \subseteq Rigid /\ loosened \subseteq Rigid
  BY <1>5 DEF Typed
<1>10. \A r \in Rigid : r \in outer <=> touched(r) /\ clumpOf[End[r][1]] # clumpOf[End[r][2]]
  <2> HIDE DEF touched, rs, inner
  <2> QED
    BY <1>6, <1>7
<1>11. \A r \in Rigid : r \in loosened => r \in outer
  <2> SUFFICES ASSUME NEW r \in Rigid, NEW c \in Cs, r \in inconsistent[c] PROVE r \in outer
    OBVIOUS
  <2>1. /\ r \in joined /\ c \in {clumpOf[End[r][1]], clumpOf[End[r][2]]}
        /\ clumpOf[End[r][1]] # clumpOf[End[r][2]]
    BY <1>5 DEF RigidIn, RigidAt
  <2> HIDE DEF outer
  <2> QED
    BY <1>10, <2>1
<1> HIDE DEF rs, inner, outer, loosened, left, root
<1>12. twos \subseteq Rigid /\ zeros \subseteq Rigid /\ DOMAIN ones \subseteq Rigid
  BY <1>3, <1>9 DEF Typed
<1>13. ASSUME NEW r \in Rigid
       PROVE  LET c0 == clumpOf[End[r][1]]
                  c1 == clumpOf[End[r][2]]
              IN  /\ r \in twos <=> IF touched(r) THEN c0 = c1 ELSE r \in rigidTwos
                  /\ r \in DOMAIN ones <=> IF touched(r) THEN c0 # c1 /\ ~alone(r)
                                           ELSE r \in DOMAIN rigidOnes
                  /\ r \in zeros <=> IF touched(r) THEN c0 # c1 /\ alone(r) ELSE r \in rigidZeros
  <2> DEFINE c0 == clumpOf[End[r][1]]
             c1 == clumpOf[End[r][2]]
  <2>1. /\ r \in inner <=> touched(r) /\ c0 = c1
        /\ r \in outer <=> touched(r) /\ c0 # c1
        /\ r \in loosened => r \in outer
        /\ left(r) = {} <=> alone(r)
    BY <1>7, <1>8, <1>10, <1>11
  <2>2. touched(r) /\ c0 = c1 => c0 # NoPrim
    BY <1>5, Basics
  <2>3. /\ r \in DOMAIN rigidOnes => c0 # c1
        /\ r \in rigidZeros => c0 = NoPrim /\ c1 = NoPrim
    BY DEF RigidIn, RigidAt
  <2>4. InBuffers(r) <=> r \in rigidTwos \/ r \in DOMAIN rigidOnes \/ r \in rigidZeros
    BY DEF InBuffers
  <2> HIDE DEF touched, alone, c0, c1
  <2>5. r \in twos <=> IF touched(r) THEN c0 = c1 ELSE r \in rigidTwos
    BY <2>1, <2>2, <2>3, <2>4
  <2>6. r \in DOMAIN ones <=> IF touched(r) THEN c0 # c1 /\ ~alone(r) ELSE r \in DOMAIN rigidOnes
    BY <1>3, <2>1, <2>2, <2>3
  <2>7. r \in zeros <=> IF touched(r) THEN c0 # c1 /\ alone(r) ELSE r \in rigidZeros
    BY <2>1, <2>2, <2>3
  <2> QED
    BY <2>5, <2>6, <2>7 DEF c0, c1
<1> HIDE DEF twos, ones, zeros, prims, b
<1> QED
  BY <1>1, <1>2, <1>12, <1>13 DEF GuttedIs, b

\* Each joint is filed for what its ends are once the clumps are gone, those taken from the
\* world apart.
Dissolve(Cs) ==
  /\ clumpOf' = [p \in Prim |-> IF clumpOf[p] \in Cs THEN NoPrim ELSE clumpOf[p]]
  /\ held' = held \ Cs
  /\ inconsistent' = [c \in Prim |-> inconsistent[c] \ UNION {inconsistent[d] : d \in Cs}]

\* Then each joint that is left is filed as RigidAt has it.
LEMMA DissolvedRigid ==
  ASSUME Typed, RigidIn, NEW Cs \in SUBSET Clumps, NEW b, GuttedIs(b, Cs), Dissolve(Cs),
         NEW gone \in SUBSET Rigid, joined' = joined \ gone,
         \A r \in gone : \A c \in Prim \ Cs : r \notin inconsistent[c],
         rigidTwos' = b.twos \ gone, DOMAIN (rigidOnes') = DOMAIN b.ones \ gone,
         rigidZeros' = b.zeros \ gone
  PROVE  RigidIn'
<1> SUFFICES ASSUME NEW r \in Rigid PROVE RigidAt(r)'
  BY DEF RigidIn
<1> DEFINE e0 == End[r][1]
           e1 == End[r][2]
           c0 == clumpOf[e0]
           c1 == clumpOf[e1]
           d0 == IF c0 \in Cs THEN NoPrim ELSE c0
           d1 == IF c1 \in Cs THEN NoPrim ELSE c1
           touched == r \in joined /\ (c0 \in Cs \/ c1 \in Cs)
           alone == c0 \in Cs \cup {NoPrim} /\ c1 \in Cs \cup {NoPrim}
           loosened == UNION {inconsistent[d] : d \in Cs}
<1>1. e0 \in Prim /\ e1 \in Prim /\ c0 \in Prim \cup {NoPrim} /\ c1 \in Prim \cup {NoPrim}
  BY Basics DEF Edge, Typed
<1>2. Cs \subseteq Prim /\ NoPrim \notin Prim
  BY Basics DEF Clumps
<1>3. clumpOf'[e0] = d0 /\ clumpOf'[e1] = d1
  BY <1>1 DEF Dissolve
<1>4. /\ held' = held \ Cs
      /\ \A c \in Prim : r \in inconsistent'[c] <=> r \in inconsistent[c] /\ r \notin loosened
  BY DEF Dissolve
<1>5. /\ r \in b.twos <=> IF touched THEN c0 = c1 ELSE r \in rigidTwos
      /\ r \in DOMAIN b.ones <=> IF touched THEN c0 # c1 /\ ~alone ELSE r \in DOMAIN rigidOnes
      /\ r \in b.zeros <=> IF touched THEN c0 # c1 /\ alone ELSE r \in rigidZeros
  BY DEF GuttedIs
<1>6. /\ r \in rigidTwos => r \notin DOMAIN rigidOnes /\ r \notin rigidZeros
      /\ r \in DOMAIN rigidOnes => r \notin rigidZeros /\ c0 # c1 /\ NoPrim \in {c0, c1}
      /\ r \in rigidZeros => c0 = NoPrim /\ c1 = NoPrim
      /\ r \in rigidTwos \/ r \in DOMAIN rigidOnes \/ r \in rigidZeros =>
           r \in joined /\ \A c \in Prim : r \notin inconsistent[c]
      /\ \A c \in Prim : r \in inconsistent[c] =>
           /\ r \in joined /\ c \in {c0, c1} /\ c0 # c1 /\ c0 \in held /\ c1 \in held
           /\ r \in inconsistent[c0] /\ r \in inconsistent[c1]
      /\ r \in joined /\ ~(r \in rigidTwos \/ r \in DOMAIN rigidOnes \/ r \in rigidZeros) =>
           c0 \in Prim /\ c1 \in Prim /\ (c0 = c1 \/ r \in inconsistent[c0])
  BY DEF RigidIn, RigidAt, InBuffers
<1>7. RigidAt(r)' <=>
        /\ r \in rigidTwos' => r \notin DOMAIN (rigidOnes') /\ r \notin rigidZeros'
        /\ r \in DOMAIN (rigidOnes') => r \notin rigidZeros' /\ d0 # d1 /\ NoPrim \in {d0, d1}
        /\ r \in rigidZeros' => d0 = NoPrim /\ d1 = NoPrim
        /\ r \in rigidTwos' \/ r \in DOMAIN (rigidOnes') \/ r \in rigidZeros' =>
             r \in joined' /\ \A c \in Prim : r \notin inconsistent'[c]
        /\ \A c \in Prim : r \in inconsistent'[c] =>
             /\ r \in joined' /\ c \in {d0, d1} /\ d0 # d1 /\ d0 \in held' /\ d1 \in held'
             /\ r \in inconsistent'[d0] /\ r \in inconsistent'[d1]
        /\ r \in joined' /\ ~(r \in rigidTwos' \/ r \in DOMAIN (rigidOnes') \/ r \in rigidZeros') =>
             d0 \in Prim /\ d1 \in Prim /\ (d0 = d1 \/ r \in inconsistent'[d0])
  BY <1>3 DEF RigidAt, InBuffers
<1>8. /\ r \in rigidTwos' <=> r \in b.twos /\ r \notin gone
      /\ r \in DOMAIN (rigidOnes') <=> r \in DOMAIN b.ones /\ r \notin gone
      /\ r \in rigidZeros' <=> r \in b.zeros /\ r \notin gone
      /\ r \in joined' <=> r \in joined /\ r \notin gone
  OBVIOUS
<1>9. /\ \A c \in Prim : r \in inconsistent[c] /\ c \in Cs => r \in loosened
      /\ r \in loosened => \E c \in Cs : r \in inconsistent[c]
  OBVIOUS
<1>10. r \in gone => \A c \in Prim : r \notin inconsistent'[c]
  BY <1>4, <1>9
<1> HIDE DEF e0, e1, c0, c1, loosened
<1>11. CASE r \in gone
  BY <1>7, <1>8, <1>10, <1>11
<1>12. CASE r \notin gone /\ touched
  <2>1. \A c \in Prim : r \notin inconsistent'[c]
    BY <1>2, <1>4, <1>6, <1>9, <1>12
  <2>2. r \in joined'
    BY <1>8, <1>12
  <2>3. CASE c0 = c1
    <3>1. r \in rigidTwos' /\ r \notin DOMAIN (rigidOnes') /\ r \notin rigidZeros'
      BY <1>5, <1>8, <1>12, <2>3
    <3> QED
      BY <1>7, <2>1, <2>2, <3>1
  <2>4. CASE c0 # c1 /\ alone
    <3>1. r \notin rigidTwos' /\ r \notin DOMAIN (rigidOnes') /\ r \in rigidZeros'
      BY <1>5, <1>8, <1>12, <2>4
    <3>2. d0 = NoPrim /\ d1 = NoPrim
      BY <2>4
    <3> QED
      BY <1>7, <2>1, <2>2, <3>1, <3>2
  <2>5. CASE c0 # c1 /\ ~alone
    <3>1. r \notin rigidTwos' /\ r \in DOMAIN (rigidOnes') /\ r \notin rigidZeros'
      BY <1>5, <1>8, <1>12, <2>5
    <3>2. d0 # d1 /\ NoPrim \in {d0, d1}
      BY <1>12, <2>5
    <3> QED
      BY <1>7, <2>1, <2>2, <3>1, <3>2
  <2> QED
    BY <2>3, <2>4, <2>5
<1>13. CASE r \notin gone /\ ~touched
  <2>1. /\ r \in rigidTwos' <=> r \in rigidTwos
        /\ r \in DOMAIN (rigidOnes') <=> r \in DOMAIN rigidOnes
        /\ r \in rigidZeros' <=> r \in rigidZeros
        /\ r \in joined' <=> r \in joined
    BY <1>5, <1>8, <1>13
  <2>2. CASE r \in joined
    <3>1. d0 = c0 /\ d1 = c1 /\ c0 \notin Cs /\ c1 \notin Cs
      BY <1>13, <2>2
    <3>2. r \notin loosened
      BY <1>2, <1>6, <1>9, <3>1
    <3>3. \A c \in Prim : r \in inconsistent'[c] <=> r \in inconsistent[c]
      BY <1>4, <3>2
    <3>4. (c0 \in held' <=> c0 \in held) /\ (c1 \in held' <=> c1 \in held)
      BY <1>4, <3>1
    <3> HIDE DEF d0, d1
    <3>5. \A c \in Prim : r \in inconsistent[c] =>
            /\ c \in {c0, c1} /\ c0 # c1 /\ c0 \in held' /\ c1 \in held' /\ c0 \in Prim /\ c1 \in Prim
            /\ r \in inconsistent'[c0] /\ r \in inconsistent'[c1]
      BY <1>4, <1>6, <3>3, <3>4 DEF Typed
    <3> QED
      BY <1>6, <1>7, <2>1, <2>2, <3>1, <3>3, <3>5
  <2>3. CASE r \notin joined
    <3>1. \A c \in Prim : r \notin inconsistent'[c]
      BY <1>4, <1>6, <2>3
    <3>2. r \notin rigidTwos /\ r \notin DOMAIN rigidOnes /\ r \notin rigidZeros
      BY <1>6, <2>3
    <3> HIDE DEF d0, d1
    <3> QED
      BY <1>7, <2>1, <2>3, <3>1, <3>2
  <2> QED
    BY <2>2, <2>3
<1> QED
  BY <1>11, <1>12, <1>13

\* And so is each primitive.
LEMMA DissolvedPrims ==
  ASSUME Typed, Tree, PrimitivesFiled, NEW Cs \in SUBSET Clumps, NEW b, GuttedIs(b, Cs), Dissolve(Cs),
         NEW gp \in SUBSET Prim, NEW ga \in SUBSET Prim,
         present' = present \ gp, anchored' = anchored \ ga,
         anchors' = b.anchors \ (gp \cup ga), DOMAIN (primitives') = DOMAIN b.prims \ gp,
         (gp \cup ga) \cap held \subseteq Cs, \A p \in gp : clumpOf[p] \in Cs \cup {NoPrim}
  PROVE  PrimitivesFiled' /\ anchors' \subseteq Prim /\ DOMAIN (primitives') \subseteq Prim
<1>1. /\ b.anchors = anchors \cup (held \cap Cs)
      /\ DOMAIN b.prims = DOMAIN primitives \cup {p \in Prim : clumpOf[p] \in Cs}
  BY DEF GuttedIs
<1>2. /\ \A p \in Prim : clumpOf'[p] = IF clumpOf[p] \in Cs THEN NoPrim ELSE clumpOf[p]
      /\ held' = held \ Cs
  BY DEF Dissolve
<1>3. /\ DOMAIN primitives = {p \in present : clumpOf[p] = NoPrim}
      /\ \A p \in Prim \ present : clumpOf[p] = NoPrim
      /\ anchors \subseteq anchored \cap present
      /\ \A p \in Prim : p \in held <=> p \in (anchored \cap present) \ anchors
      /\ held \subseteq Clumps
  BY DEF PrimitivesFiled
<1>4. Cs \subseteq Prim /\ NoPrim \notin Prim /\ present \subseteq Prim /\ held \subseteq Prim
  BY Basics DEF Clumps, Typed
<1>5. \A c \in Prim : clumpOf[c] = c /\ c \notin Cs => clumpOf'[c] = c
  BY <1>2
<1>6. DOMAIN (primitives') = {p \in present' : clumpOf'[p] = NoPrim}
  <2>1. ASSUME NEW p PROVE p \in DOMAIN (primitives') <=> p \in present' /\ clumpOf'[p] = NoPrim
    BY <1>1, <1>2, <1>3, <1>4
  <2> QED
    BY <2>1
<1>7. \A p \in Prim \ present' : clumpOf'[p] = NoPrim
  BY <1>2, <1>3
<1>8. anchors' \subseteq anchored' \cap present'
  BY <1>1, <1>3, <1>4
<1>9. \A p \in Prim : p \in held' <=> p \in (anchored' \cap present') \ anchors'
  BY <1>1, <1>2, <1>3
<1>10. held' \subseteq Clumps'
  BY <1>2, <1>3, <1>4, <1>5 DEF Clumps
<1> QED
  BY <1>4, <1>6, <1>7, <1>8, <1>9, <1>10 DEF PrimitivesFiled

-----------------------------------------------------------------------------
\* The inductive invariant.
Inv == Typed /\ GroupInv /\ RigidIn /\ PrimitivesFiled /\ AnchorsLoose /\ Phase

\* The types of the rest of the state.
WorldTyped ==
  /\ present \subseteq Prim /\ anchored \subseteq Prim /\ joined \subseteq Edge
  /\ \A e \in joined : EndsOf(e) \subseteq present
FilesTyped ==
  /\ anchors \subseteq Prim /\ rigidTwos \subseteq Rigid /\ rigidZeros \subseteq Rigid
  /\ DOMAIN rigidOnes \subseteq Rigid /\ DOMAIN primitives \subseteq Prim
Loops == {"idle", "anchors", "twos", "ones", "primitives", "motors", "sort", "attach",
          "edges", "angles"}

\* The types come in parts, each about the state that some steps leave alone.
LEMMA TypedParts ==
  /\ Typed => /\ WorldTyped /\ FilesTyped /\ BodyTyped /\ AsmTyped /\ motorAngles \subseteq Motor
              /\ pc \in Loops
  /\ WorldTyped' /\ FilesTyped' /\ BodyTyped' /\ AsmTyped' /\ motorAngles' \subseteq Motor
       /\ pc' \in Loops => Typed'
<1>1. Typed => /\ WorldTyped /\ FilesTyped /\ BodyTyped /\ AsmTyped /\ motorAngles \subseteq Motor
               /\ pc \in Loops
  BY DEF Typed, WorldTyped, FilesTyped, BodyTyped, Loops
<1>2. WorldTyped' /\ FilesTyped' /\ BodyTyped' /\ AsmTyped' /\ motorAngles' \subseteq Motor
        /\ pc' \in Loops => Typed'
  BY DEF Typed, WorldTyped, FilesTyped, BodyTyped, Loops
<1> QED
  BY <1>1, <1>2

\* What a step keeps that leaves alone what the invariant is about.
LEMMA TreeSame ==
  ASSUME Tree, clumpOf' = clumpOf, parent' = parent, depth' = depth,
         joined \cap Rigid \subseteq joined'
  PROVE  Tree'
BY DEF Tree, EndsOf

\* The rigid joints stay filed while nothing about them changes.
LEMMA RigidSame ==
  ASSUME RigidIn, rigidTwos' = rigidTwos, rigidOnes' = rigidOnes, rigidZeros' = rigidZeros,
         clumpOf' = clumpOf, inconsistent' = inconsistent, held' = held,
         joined' \cap Rigid = joined \cap Rigid
  PROVE  RigidIn'
<1> SUFFICES ASSUME NEW r \in Rigid PROVE RigidAt(r)'
  BY DEF RigidIn
<1>1. RigidAt(r) /\ (r \in joined' <=> r \in joined)
  BY DEF RigidIn
<1> QED
  BY <1>1 DEF RigidAt, InBuffers

\* The motors do.
LEMMA MotorsSame ==
  ASSUME MotorsIn, motors' = motors, asmMotors' = asmMotors, asmIncons' = asmIncons,
         clumpOf' = clumpOf, asmOf' = asmOf, joined' \cap Motor = joined \cap Motor
  PROVE  MotorsIn'
<1>1. Once(motors')
  BY DEF MotorsIn
<1>2. ASSUME NEW m \in Motor PROVE MotorAt(m)'
  <2>1. MotorAt(m) /\ (m \in joined' <=> m \in joined)
    BY DEF MotorsIn
  <2> QED
    BY <2>1 DEF MotorAt, AsmOfPrim, MotorsFind
<1> QED
  BY <1>1, <1>2 DEF MotorsIn

\* The contacts do.
LEMMA EdgesSame ==
  ASSUME EdgesIn, edges' = edges, externalEdges' = externalEdges, internalEdges' = internalEdges,
         downEdges' = downEdges, clumpOf' = clumpOf, asmOf' = asmOf, held' = held,
         joined' \cap Contact = joined \cap Contact
  PROVE  EdgesIn'
<1> SUFFICES ASSUME NEW e \in Contact PROVE EdgeAt(e)'
  BY DEF EdgesIn
<1>1. EdgeAt(e) /\ (e \in joined' <=> e \in joined)
  BY DEF EdgesIn
<1> QED
  BY <1>1 DEF EdgeAt, AsmOfPrim

\* The clumps do, and hang by the same motors.
LEMMA ClumpsSame ==
  ASSUME clumpOf' = clumpOf, asmOf' = asmOf
  PROVE  /\ ClumpsFiled /\ anchoredClumps' = anchoredClumps /\ freeClumps' = freeClumps /\ held' = held
              /\ assemblies' = assemblies /\ downAsm' = downAsm => ClumpsFiled'
         /\ Hung /\ parent' = parent /\ asmMotors' = asmMotors => Hung'
         /\ Alone => Alone'
<1>1. ASSUME ClumpsFiled, anchoredClumps' = anchoredClumps, freeClumps' = freeClumps, held' = held,
             assemblies' = assemblies, downAsm' = downAsm
      PROVE  ClumpsFiled'
  BY <1>1 DEF ClumpsFiled, Clumps
<1>2. ASSUME Hung, parent' = parent, asmMotors' = asmMotors PROVE Hung'
  BY <1>2 DEF Hung, Clumps, By, Attached, EndsOf, Other
<1>3. Alone => Alone'
  BY DEF Alone
<1> QED
  BY <1>1, <1>2, <1>3

\* All of these together, for a step that only moves joints among the buffers of primitives.
LEMMA GroupsSame ==
  ASSUME GroupInv, UNCHANGED <<parent, depth, clumpOf, held, fileVars, motors, asmVars>>,
         joined' = joined
  PROVE  GroupInv'
<1>1. /\ parent' = parent /\ depth' = depth /\ clumpOf' = clumpOf /\ held' = held /\ motors' = motors
      /\ anchoredClumps' = anchoredClumps /\ freeClumps' = freeClumps
      /\ asmOf' = asmOf /\ asmMotors' = asmMotors /\ asmIncons' = asmIncons
      /\ externalEdges' = externalEdges /\ internalEdges' = internalEdges
      /\ assemblies' = assemblies /\ edges' = edges /\ downAsm' = downAsm /\ downEdges' = downEdges
  BY DEF fileVars, asmVars
<1> QED
  BY <1>1, TreeSame, ClumpsSame, MotorsSame, EdgesSame DEF GroupInv

\* The types of the assemblies, likewise.
LEMMA AsmTypedSame ==
  ASSUME AsmTyped, UNCHANGED <<fileVars, motors, asmVars>>
  PROVE  AsmTyped'
BY DEF AsmTyped, fileVars, asmVars

\* A step of process that only goes on to another loop, and changes of the angles.
LEMMA PcStep ==
  ASSUME Inv, UNCHANGED <<worldVars, rigidVars, clumpVars, fileVars, motors, asmVars>>,
         pc' \in Loops, motorAngles' \subseteq Motor, Phase'
  PROVE  Inv'
<1>1. Typed /\ GroupInv /\ RigidIn /\ PrimitivesFiled /\ AnchorsLoose
  BY DEF Inv
<1>2. WorldTyped /\ FilesTyped /\ BodyTyped /\ AsmTyped
  BY <1>1, TypedParts
<1>3. Typed'
  <2>1. WorldTyped' /\ FilesTyped' /\ BodyTyped'
    BY <1>2 DEF WorldTyped, FilesTyped, BodyTyped, worldVars, rigidVars, clumpVars, EndsOf
  <2>2. AsmTyped'
    BY <1>2, AsmTypedSame
  <2> QED
    BY <2>1, <2>2, TypedParts
<1>4. GroupInv'
  BY <1>1, GroupsSame DEF clumpVars, worldVars
<1>5. RigidIn'
  BY <1>1, RigidSame DEF clumpVars, worldVars, rigidVars
<1>6. PrimitivesFiled'
  BY <1>1 DEF PrimitivesFiled, Clumps, clumpVars, worldVars, rigidVars
<1>7. AnchorsLoose'
  BY <1>1 DEF AnchorsLoose, clumpVars, rigidVars, asmVars
<1> QED
  BY <1>3, <1>4, <1>5, <1>6, <1>7 DEF Inv

\* The stage starts to process.
LEMMA StartStep == Inv /\ StartProcess => Inv'
<1> SUFFICES ASSUME Inv, StartProcess PROVE Inv'
  OBVIOUS
<1>1. UNCHANGED <<worldVars, rigidVars, clumpVars, fileVars, motors, asmVars>>
      /\ pc' \in Loops /\ motorAngles' \subseteq Motor
  BY DEF StartProcess, motorVars, Loops, Inv, Typed
<1>2. Phase'
  BY <1>1 DEF StartProcess, Phase
<1> QED
  BY <1>1, <1>2, PcStep

\* A loop of process has emptied its buffer and the next one begins.
LEMMA DoneStep == Inv /\ (AnchorsDone \/ TwosDone \/ OnesDone \/ PrimitivesDone \/ EdgesDone) => Inv'
<1> SUFFICES ASSUME Inv, AnchorsDone \/ TwosDone \/ OnesDone \/ PrimitivesDone \/ EdgesDone PROVE Inv'
  OBVIOUS
<1>1. UNCHANGED <<worldVars, rigidVars, clumpVars, fileVars, motors, asmVars>>
      /\ pc' \in Loops /\ motorAngles' \subseteq Motor
  BY DEF AnchorsDone, TwosDone, OnesDone, PrimitivesDone, EdgesDone, LoopDone, motorVars, Loops,
         Inv, Typed
<1>2. Phase'
  <2>1. Phase /\ DOMAIN <<>> = {}
    BY DEF Inv
  <2>2. /\ anchors' = anchors /\ rigidTwos' = rigidTwos /\ rigidOnes' = rigidOnes
        /\ primitives' = primitives /\ anchoredClumps' = anchoredClumps
        /\ freeClumps' = freeClumps /\ motors' = motors
    BY <1>1 DEF rigidVars, fileVars
  <2>3. CASE AnchorsDone
    BY <2>1, <2>2, <2>3 DEF AnchorsDone, LoopDone, Phase
  <2>4. CASE TwosDone
    BY <2>1, <2>2, <2>4 DEF TwosDone, LoopDone, Phase
  <2>5. CASE OnesDone
    BY <2>1, <2>2, <2>5 DEF OnesDone, LoopDone, Phase
  <2>6. CASE PrimitivesDone
    BY <2>1, <2>2, <2>6 DEF PrimitivesDone, LoopDone, Phase
  <2>7. CASE EdgesDone
    BY <2>1, <2>2, <2>7 DEF EdgesDone, LoopDone, Phase
  <2> QED
    BY <2>3, <2>4, <2>5, <2>6, <2>7
<1> QED
  BY <1>1, <1>2, PcStep

\* The angles of the motors are renewed, or one changes.
LEMMA AnglesStep == Inv /\ (UpdateMotorAngles \/ \E m \in Motor : ChangeMotorAngle(m)) => Inv'
<1>1. ASSUME Inv, UpdateMotorAngles PROVE Inv'
  <2>1. UNCHANGED <<worldVars, rigidVars, clumpVars, fileVars, motors, asmVars>>
        /\ pc' \in Loops /\ motorAngles' \subseteq Motor /\ pc' = "idle" /\ pc = "angles"
    BY <1>1 DEF UpdateMotorAngles, motorVars, Loops
  <2>2. anchoredClumps = {} /\ freeClumps = {} /\ ClumpsFiled
    BY <1>1, <2>1 DEF Inv, Phase, GroupInv
  <2>3. \A c \in Clumps : asmOf[c] # NoPrim
    BY <2>2 DEF ClumpsFiled
  <2>4. Phase'
    BY <2>1, <2>3 DEF Phase, Clumps, clumpVars, asmVars
  <2> QED
    BY <1>1, <2>1, <2>4, PcStep
<1>2. ASSUME Inv, NEW m \in Motor, ChangeMotorAngle(m) PROVE Inv'
  <2>1. UNCHANGED <<worldVars, rigidVars, clumpVars, fileVars, motors, asmVars>>
        /\ pc' \in Loops /\ motorAngles' \subseteq Motor
    BY <1>2 DEF ChangeMotorAngle, Loops, Inv, Typed
  <2>2. Phase'
    BY <1>2, <2>1 DEF Inv, ChangeMotorAngle, Phase, Clumps, clumpVars, asmVars, rigidVars, fileVars
  <2> QED
    BY <1>2, <2>1, <2>2, PcStep
<1> QED
  BY <1>1, <1>2

-----------------------------------------------------------------------------
\* Late anchors are those of worlds without motors; a joint that waits is not one a clump
\* hangs by, and no two join the same primitives.
Tame == ~DropPending /\ (LateAnchors => Motor = {}) /\ NoTwins

\* A primitive comes.
LEMMA AddPrimitiveStep ==
  ASSUME Inv, NEW p \in Prim, AddPrimitive(p)
  PROVE  Inv'
<1>1. /\ Typed /\ GroupInv /\ RigidIn /\ PrimitivesFiled /\ AnchorsLoose /\ Phase
      /\ WorldTyped /\ FilesTyped /\ BodyTyped /\ AsmTyped /\ motorAngles \subseteq Motor /\ pc \in Loops
  BY TypedParts DEF Inv
<1>2. /\ pc' = pc /\ pc = "idle" /\ p \notin present /\ present' = present \cup {p}
      /\ DOMAIN (primitives') = DOMAIN primitives \cup {p}
      /\ anchors' = IF p \in anchored THEN anchors \cup {p} ELSE anchors
      /\ anchored' = anchored /\ joined' = joined
      /\ rigidTwos' = rigidTwos /\ rigidOnes' = rigidOnes /\ rigidZeros' = rigidZeros
      /\ UNCHANGED <<clumpVars, fileVars, motorVars, asmVars>>
  BY DEF AddPrimitive, Refile
<1>3. /\ clumpOf' = clumpOf /\ parent' = parent /\ depth' = depth /\ held' = held
      /\ inconsistent' = inconsistent /\ motors' = motors /\ motorAngles' = motorAngles
      /\ asmOf' = asmOf
      /\ UNCHANGED <<fileVars, motors, asmVars>>
  BY <1>2 DEF clumpVars, motorVars, asmVars
<1>4. Typed'
  <2>1. WorldTyped' /\ FilesTyped' /\ BodyTyped'
    BY <1>1, <1>2, <1>3 DEF WorldTyped, FilesTyped, BodyTyped, EndsOf
  <2> QED
    BY <1>1, <1>2, <1>3, <2>1, AsmTypedSame, TypedParts
<1>5. GroupInv'
  BY <1>1, <1>2, <1>3, GroupsSame
<1>6. RigidIn'
  BY <1>1, <1>2, <1>3, RigidSame
<1>7. PrimitivesFiled' /\ clumpOf[p] = NoPrim
  BY <1>1, <1>2, <1>3 DEF PrimitivesFiled, Clumps
<1>8. AnchorsLoose'
  BY <1>1, <1>2, <1>3, <1>7 DEF AnchorsLoose
<1>9. Phase'
  BY <1>1, <1>2, <1>3 DEF Phase, Clumps
<1> QED
  BY <1>4, <1>5, <1>6, <1>7, <1>8, <1>9 DEF Inv

\* A primitive is anchored.
LEMMA AddAnchorStep ==
  ASSUME Inv, NEW p \in Prim, AddAnchor(p)
  PROVE  Inv'
<1>1. /\ Typed /\ GroupInv /\ RigidIn /\ PrimitivesFiled /\ AnchorsLoose /\ Phase
      /\ WorldTyped /\ FilesTyped /\ BodyTyped /\ AsmTyped /\ motorAngles \subseteq Motor /\ pc \in Loops
  BY TypedParts DEF Inv
<1>2. /\ pc' = pc /\ pc = "idle" /\ p \notin anchored /\ (p \in present => LateAnchors)
      /\ anchored' = anchored \cup {p}
      /\ anchors' = IF p \in present THEN anchors \cup {p} ELSE anchors
      /\ present' = present /\ joined' = joined /\ primitives' = primitives
      /\ rigidTwos' = rigidTwos /\ rigidOnes' = rigidOnes /\ rigidZeros' = rigidZeros
      /\ UNCHANGED <<clumpVars, fileVars, motorVars, asmVars>>
  BY DEF AddAnchor
<1>3. /\ clumpOf' = clumpOf /\ parent' = parent /\ depth' = depth /\ held' = held
      /\ inconsistent' = inconsistent /\ motors' = motors /\ motorAngles' = motorAngles
      /\ asmOf' = asmOf
      /\ UNCHANGED <<fileVars, motors, asmVars>>
  BY <1>2 DEF clumpVars, motorVars, asmVars
<1>4. Typed'
  <2>1. WorldTyped' /\ FilesTyped' /\ BodyTyped'
    BY <1>1, <1>2, <1>3 DEF WorldTyped, FilesTyped, BodyTyped, EndsOf
  <2> QED
    BY <1>1, <1>2, <1>3, <2>1, AsmTypedSame, TypedParts
<1>5. GroupInv'
  BY <1>1, <1>2, <1>3, GroupsSame
<1>6. RigidIn'
  BY <1>1, <1>2, <1>3, RigidSame
<1>7. PrimitivesFiled'
  BY <1>1, <1>2, <1>3 DEF PrimitivesFiled, Clumps
<1>8. AnchorsLoose'
  BY <1>1, <1>2, <1>3 DEF AnchorsLoose, Phase, Clumps
<1>9. Phase'
  BY <1>1, <1>2, <1>3 DEF Phase, Clumps
<1> QED
  BY <1>4, <1>5, <1>6, <1>7, <1>8, <1>9 DEF Inv

\* An edge comes: it waits in the buffer of its kind.
LEMMA AddEdgeStep ==
  ASSUME Inv, NEW e \in Edge, AddEdge(e)
  PROVE  Inv'
<1>1. /\ Typed /\ Tree /\ ClumpsFiled /\ MotorsIn /\ EdgesIn /\ Hung /\ Alone
      /\ RigidIn /\ PrimitivesFiled /\ AnchorsLoose /\ Phase
      /\ WorldTyped /\ FilesTyped /\ BodyTyped /\ AsmTyped /\ motorAngles \subseteq Motor /\ pc \in Loops
  BY TypedParts DEF Inv, GroupInv
<1>2. /\ pc' = pc /\ pc = "idle" /\ e \notin joined /\ EndsOf(e) \subseteq present
      /\ joined' = joined \cup {e} /\ rigidTwos' = rigidTwos \cup ({e} \cap Rigid)
      /\ motors' = IF e \in Motor THEN Append(motors, e) ELSE motors
      /\ motorAngles' = motorAngles \cup ({e} \cap Motor)
      /\ edges' = edges \cup ({e} \cap Contact)
      /\ present' = present /\ anchored' = anchored /\ anchors' = anchors
      /\ rigidOnes' = rigidOnes /\ rigidZeros' = rigidZeros /\ primitives' = primitives
      /\ clumpOf' = clumpOf /\ parent' = parent /\ depth' = depth /\ held' = held
      /\ inconsistent' = inconsistent
      /\ anchoredClumps' = anchoredClumps /\ freeClumps' = freeClumps
      /\ asmOf' = asmOf /\ asmMotors' = asmMotors /\ asmIncons' = asmIncons
      /\ externalEdges' = externalEdges /\ internalEdges' = internalEdges
      /\ assemblies' = assemblies /\ downAsm' = downAsm /\ downEdges' = downEdges
  BY DEF AddEdge, AsRigid, clumpVars, fileVars
<1>3. e \in Rigid \/ e \in Motor \/ e \in Contact
  BY DEF Edge
<1>4. ToSet(motors') = ToSet(motors) \cup ({e} \cap Motor) /\ motors' \in Seq(Motor) /\ Once(motors')
  <2>1. CASE e \in Motor
    <3>1. e \notin ToSet(motors)
      BY <1>1, <1>2, <2>1 DEF MotorsIn, MotorAt, MotorsFind
    <3> QED
      BY <1>1, <1>2, <2>1, <3>1, AppendOnce DEF MotorsIn, AsmTyped
  <2>2. CASE e \notin Motor
    BY <1>1, <1>2, <2>2 DEF MotorsIn, AsmTyped
  <2> QED
    BY <2>1, <2>2
<1>5. Typed'
  <2>1. WorldTyped' /\ FilesTyped' /\ BodyTyped'
    BY <1>1, <1>2 DEF WorldTyped, FilesTyped, BodyTyped, EndsOf
  <2>2. AsmTyped' /\ motorAngles' \subseteq Motor
    BY <1>1, <1>2, <1>4 DEF AsmTyped
  <2> QED
    BY <1>1, <1>2, <2>1, <2>2, TypedParts
<1>6. RigidIn'
  <2> SUFFICES ASSUME NEW r \in Rigid PROVE RigidAt(r)'
    BY DEF RigidIn
  <2>1. RigidAt(r)
    BY <1>1 DEF RigidIn
  <2>2. CASE r = e
    <3>1. ~InBuffers(r) /\ \A c \in Prim : r \notin inconsistent[c]
      BY <1>2, <2>1, <2>2 DEF RigidAt
    <3> QED
      BY <1>2, <2>2, <3>1 DEF RigidAt, InBuffers
  <2>3. CASE r # e
    <3>1. (r \in joined' <=> r \in joined) /\ (r \in rigidTwos' <=> r \in rigidTwos)
      BY <1>2, <2>3
    <3> QED
      BY <1>2, <2>1, <3>1 DEF RigidAt, InBuffers
  <2> QED
    BY <2>2, <2>3
<1>7. MotorsIn'
  <2> SUFFICES ASSUME NEW m \in Motor PROVE MotorAt(m)'
    BY <1>4 DEF MotorsIn
  <2>1. MotorAt(m)
    BY <1>1 DEF MotorsIn
  <2>2. CASE m = e
    <3>1. m \in ToSet(motors') /\ m \in joined'
      BY <1>2, <1>4, <2>2
    <3>2. \A a \in Prim : m \notin asmMotors[a] /\ m \notin asmIncons[a]
      BY <1>2, <2>1, <2>2 DEF MotorAt
    <3> QED
      BY <1>2, <3>1, <3>2 DEF MotorAt, MotorsFind, AsmOfPrim
  <2>3. CASE m # e
    <3>1. (m \in joined' <=> m \in joined) /\ (m \in ToSet(motors') <=> m \in ToSet(motors))
      BY <1>2, <1>4, <2>3
    <3> QED
      BY <1>2, <2>1, <3>1 DEF MotorAt, MotorsFind, AsmOfPrim
  <2> QED
    BY <2>2, <2>3
<1>8. EdgesIn'
  <2> SUFFICES ASSUME NEW k \in Contact PROVE EdgeAt(k)'
    BY DEF EdgesIn
  <2>1. EdgeAt(k)
    BY <1>1 DEF EdgesIn
  <2>2. CASE k = e
    BY <1>2, <2>1, <2>2 DEF EdgeAt, AsmOfPrim
  <2>3. CASE k # e
    <3>1. (k \in joined' <=> k \in joined) /\ (k \in edges' <=> k \in edges)
      BY <1>2, <2>3
    <3> QED
      BY <1>2, <2>1, <3>1 DEF EdgeAt, AsmOfPrim
  <2> QED
    BY <2>2, <2>3
<1>9. GroupInv'
  <2>1. Tree'
    BY <1>1, <1>2, TreeSame
  <2>2. ClumpsFiled' /\ Hung' /\ Alone'
    BY <1>1, <1>2, ClumpsSame
  <2> QED
    BY <1>7, <1>8, <2>1, <2>2 DEF GroupInv
<1>10. PrimitivesFiled' /\ AnchorsLoose' /\ Phase'
  BY <1>1, <1>2 DEF PrimitivesFiled, AnchorsLoose, Phase, Clumps
<1> QED
  BY <1>5, <1>6, <1>9, <1>10 DEF Inv

\* A contact goes, from wherever it is.
LEMMA RemoveContactStep ==
  ASSUME Inv, NEW e \in Contact, RemoveContact(e)
  PROVE  Inv'
<1>1. /\ Typed /\ Tree /\ ClumpsFiled /\ MotorsIn /\ EdgesIn /\ Hung /\ Alone
      /\ RigidIn /\ PrimitivesFiled /\ AnchorsLoose /\ Phase
      /\ WorldTyped /\ FilesTyped /\ BodyTyped /\ AsmTyped /\ motorAngles \subseteq Motor /\ pc \in Loops
  BY TypedParts DEF Inv, GroupInv
<1>2. /\ pc' = pc /\ pc = "idle" /\ joined' = joined \ {e} /\ edges' = edges \ {e}
      /\ externalEdges' = [a \in Prim |-> externalEdges[a] \ {e}]
      /\ internalEdges' = [a \in Prim |-> internalEdges[a] \ {e}]
      /\ downEdges' = downEdges \ {e}
      /\ present' = present /\ anchored' = anchored /\ anchors' = anchors /\ rigidTwos' = rigidTwos
      /\ rigidOnes' = rigidOnes /\ rigidZeros' = rigidZeros /\ primitives' = primitives
      /\ clumpOf' = clumpOf /\ parent' = parent /\ depth' = depth /\ held' = held
      /\ inconsistent' = inconsistent /\ motors' = motors /\ motorAngles' = motorAngles
      /\ anchoredClumps' = anchoredClumps /\ freeClumps' = freeClumps
      /\ asmOf' = asmOf /\ asmMotors' = asmMotors /\ asmIncons' = asmIncons
      /\ assemblies' = assemblies /\ downAsm' = downAsm
  BY DEF RemoveContact, rigidVars, clumpVars, fileVars, motorVars
<1>3. e \notin Rigid /\ e \notin Motor
  BY ClumpStageAssumption
<1>4. Typed'
  <2>1. WorldTyped' /\ FilesTyped' /\ BodyTyped'
    BY <1>1, <1>2 DEF WorldTyped, FilesTyped, BodyTyped, EndsOf
  <2>2. AsmTyped'
    BY <1>1, <1>2 DEF AsmTyped
  <2> QED
    BY <1>1, <1>2, <2>1, <2>2, TypedParts
<1>5. RigidIn' /\ MotorsIn'
  <2>1. joined' \cap Rigid = joined \cap Rigid /\ joined' \cap Motor = joined \cap Motor
    BY <1>2, <1>3
  <2> QED
    BY <1>1, <1>2, <2>1, RigidSame, MotorsSame
<1>6. EdgesIn'
  <2> SUFFICES ASSUME NEW k \in Contact PROVE EdgeAt(k)'
    BY DEF EdgesIn
  <2>1. EdgeAt(k)
    BY <1>1 DEF EdgesIn
  <2>2. CASE k = e
    BY <1>2, <2>2 DEF EdgeAt, AsmOfPrim
  <2>3. CASE k # e
    <3>1. /\ k \in joined' <=> k \in joined
          /\ k \in edges' <=> k \in edges
          /\ k \in downEdges' <=> k \in downEdges
          /\ \A a \in Prim : /\ k \in externalEdges'[a] <=> k \in externalEdges[a]
                             /\ k \in internalEdges'[a] <=> k \in internalEdges[a]
      BY <1>2, <2>3
    <3> QED
      BY <1>2, <2>1, <3>1 DEF EdgeAt, AsmOfPrim
  <2> QED
    BY <2>2, <2>3
<1>7. GroupInv'
  <2>1. Tree'
    BY <1>1, <1>2, <1>3, TreeSame
  <2>2. ClumpsFiled' /\ Hung' /\ Alone'
    BY <1>1, <1>2, ClumpsSame
  <2> QED
    BY <1>5, <1>6, <2>1, <2>2 DEF GroupInv
<1>8. PrimitivesFiled' /\ AnchorsLoose' /\ Phase'
  BY <1>1, <1>2 DEF PrimitivesFiled, AnchorsLoose, Phase, Clumps
<1> QED
  BY <1>4, <1>5, <1>7, <1>8 DEF Inv

-----------------------------------------------------------------------------
\* Once clumps are destroyed, an anchor that waits is still not that of a clump without an
\* assembly, and clumps that all had one do.
LEMMA LateKept ==
  ASSUME Inv, Tame, NEW As \in SUBSET Prim, NEW Cs \in SUBSET Clumps, DestroyGroups(As, Cs),
         As = {} \/ anchors = {}, anchors' \subseteq anchors \cup (held \cap Cs)
  PROVE  /\ AnchorsLoose' /\ Dissolve(Cs)
         /\ LateAnchors /\ As = {} /\ (\A c \in Clumps : asmOf[c] # NoPrim) =>
              \A c \in Clumps' : asmOf'[c] # NoPrim
<1>1. /\ Typed /\ Alone /\ AnchorsLoose /\ PrimitivesFiled
  BY DEF Inv, GroupInv
<1>2. PICK all : all = As \cup AssembliesOf(Cs)
  OBVIOUS
<1>3. Dissolve(Cs) /\ \A c \in Prim : asmOf'[c] = IF asmOf[c] \in all THEN NoPrim ELSE asmOf[c]
  BY <1>2 DEF DestroyGroups, Ungroup, Dissolve, ReleaseAssemblies
<1>4. /\ Cs \subseteq Prim /\ NoPrim \notin Prim
      /\ clumpOf \in [Prim -> Prim \cup {NoPrim}] /\ asmOf \in [Prim -> Prim \cup {NoPrim}]
  BY <1>1, Basics DEF Clumps, Typed, AsmTyped
<1>5. \A p \in Prim : clumpOf'[p] = IF clumpOf[p] \in Cs THEN NoPrim ELSE clumpOf[p]
  BY <1>3 DEF Dissolve
<1>6. ASSUME NEW p \in Prim, LateAnchors, As = {}, clumpOf'[p] = p, asmOf[p] # NoPrim
      PROVE  asmOf'[p] # NoPrim
  <2>1. \A c \in Prim : asmOf[c] \in {c, NoPrim}
    BY <1>1, <1>6 DEF Alone, Tame
  <2>2. clumpOf[p] = p /\ p \notin Cs
    BY <1>4, <1>5, <1>6
  <2>3. asmOf[p] \notin all
    BY <1>2, <1>4, <1>6, <2>1, <2>2 DEF AssembliesOf
  <2> QED
    BY <1>3, <1>6, <2>3
<1>7. AnchorsLoose'
  <2> SUFFICES ASSUME NEW p \in anchors', clumpOf'[p] # NoPrim
               PROVE  LateAnchors /\ ~(clumpOf'[p] = p /\ asmOf'[p] = NoPrim)
    BY DEF AnchorsLoose
  <2>0. p \in Prim
    BY <1>1 DEF Typed
  <2>1. clumpOf[p] \notin Cs /\ clumpOf'[p] = clumpOf[p]
    BY <1>5, <2>0
  <2>2. p \in anchors
    <3>1. \A c \in held : clumpOf[c] = c
      BY <1>1 DEF PrimitivesFiled, Clumps
    <3> QED
      BY <2>1, <3>1
  <2>3. LateAnchors /\ ~(clumpOf[p] = p /\ asmOf[p] = NoPrim) /\ As = {}
    BY <1>1, <2>1, <2>2 DEF AnchorsLoose
  <2> QED
    BY <1>6, <2>0, <2>1, <2>3
<1>8. ASSUME LateAnchors, As = {}, \A c \in Clumps : asmOf[c] # NoPrim, NEW c \in Clumps'
      PROVE  asmOf'[c] # NoPrim
  <2>1. c \in Prim /\ clumpOf'[c] = c
    BY DEF Clumps
  <2>2. c \in Clumps
    BY <1>4, <1>5, <2>1 DEF Clumps
  <2> QED
    BY <1>6, <1>8, <2>1, <2>2
<1> QED
  BY <1>3, <1>7, <1>8

\* A step that destroys assemblies and clumps, files what they held and takes the primitives
\* gp, the anchors ga and the joints gone from the world.
LEMMA DestroyStep ==
  ASSUME Inv, Tame, NEW As \in SUBSET Prim, NEW Cs \in SUBSET Clumps,
         NEW gone \in SUBSET Rigid, NEW gp \in SUBSET Prim, NEW ga \in SUBSET Prim,
         DestroyGroups(As, Cs), joined' = joined \ gone, present' = present \ gp,
         anchored' = anchored \ ga,
         rigidTwos' = Gutted(Cs).twos \ gone, rigidZeros' = Gutted(Cs).zeros \ gone,
         DOMAIN (rigidOnes') = DOMAIN Gutted(Cs).ones \ gone,
         DOMAIN (primitives') = DOMAIN Gutted(Cs).prims \ gp,
         anchors' = Gutted(Cs).anchors \ (gp \cup ga),
         \A r \in gone : /\ clumpOf[End[r][1]] # clumpOf[End[r][2]]
                         /\ \A c \in Prim \ Cs : r \notin inconsistent[c],
         (gp \cup ga) \cap held \subseteq Cs, \A p \in gp : clumpOf[p] \in Cs \cup {NoPrim},
         \A e \in joined' : EndsOf(e) \cap gp = {},
         As = {} \/ anchors = {}, pc' \in Loops, Phase'
  PROVE  Inv'
<1>1. /\ Typed /\ GroupInv /\ RigidIn /\ PrimitivesFiled /\ AnchorsLoose /\ Phase /\ Tree
      /\ WorldTyped /\ FilesTyped
  BY TypedParts DEF Inv, GroupInv
<1>2. PICK b : b = Gutted(Cs)
  OBVIOUS
<1>3. GuttedIs(b, Cs)
  BY <1>1, <1>2, GuttedFacts
<1>4. /\ b.anchors = anchors \cup (held \cap Cs) /\ b.twos \subseteq Rigid /\ b.zeros \subseteq Rigid
      /\ DOMAIN b.ones \subseteq Rigid
  BY <1>3 DEF GuttedIs
<1>5. anchors' \subseteq anchors \cup (held \cap Cs)
  BY <1>2, <1>4
<1>6. AnchorsLoose' /\ Dissolve(Cs)
  BY <1>5, LateKept
<1>7. GroupInv' /\ BodyTyped' /\ AsmTyped' /\ motorAngles' \subseteq Motor
  BY <1>1, GroupsWithdrawn
<1>8. RigidIn'
  <2>1. rigidTwos' = b.twos \ gone /\ DOMAIN (rigidOnes') = DOMAIN b.ones \ gone
        /\ rigidZeros' = b.zeros \ gone
    BY <1>2
  <2> QED
    BY <1>1, <1>3, <1>6, <2>1, DissolvedRigid
<1>9. PrimitivesFiled' /\ anchors' \subseteq Prim /\ DOMAIN (primitives') \subseteq Prim
  <2>1. anchors' = b.anchors \ (gp \cup ga) /\ DOMAIN (primitives') = DOMAIN b.prims \ gp
    BY <1>2
  <2> QED
    BY <1>1, <1>3, <1>6, <2>1, DissolvedPrims
<1>10. WorldTyped' /\ FilesTyped'
  <2>1. FilesTyped'
    BY <1>2, <1>4, <1>9 DEF FilesTyped
  <2>2. WorldTyped'
    BY <1>1 DEF WorldTyped, EndsOf
  <2> QED
    BY <2>1, <2>2
<1>11. Typed'
  BY <1>7, <1>10, TypedParts
<1> QED
  BY <1>6, <1>7, <1>8, <1>9, <1>11 DEF Inv

\* A primitive goes, and the clump it was in.
LEMMA RemovePrimitiveStep ==
  ASSUME Inv, Tame, NEW p \in Prim, RemovePrimitive(p)
  PROVE  Inv'
<1>1. Typed /\ PrimitivesFiled /\ Phase /\ Tree /\ RigidIn
  BY DEF Inv, GroupInv
<1>2. PICK Cs : Cs = {clumpOf[p]} \ {NoPrim}
  OBVIOUS
<1>3. /\ pc = "idle" /\ pc' = pc /\ p \in present /\ EdgesAt(Edge, p) = {}
      /\ present' = present \ {p} /\ anchored' = anchored /\ joined' = joined
      /\ DestroyGroups({}, Cs)
      /\ rigidTwos' = Gutted(Cs).twos /\ rigidZeros' = Gutted(Cs).zeros
      /\ rigidOnes' = Gutted(Cs).ones
      /\ DOMAIN (primitives') = DOMAIN Gutted(Cs).prims \ {p}
      /\ anchors' = Gutted(Cs).anchors \ {p}
  BY <1>2 DEF RemovePrimitive, SetBuffers, Refile, Gutted
<1>4. Cs \in SUBSET Clumps
  BY <1>1, <1>2 DEF Tree, Clumps, Typed
<1>5. {p} \cap held \subseteq Cs
  BY <1>1, <1>2, Basics DEF PrimitivesFiled, Clumps
<1>6. \A e \in joined' : EndsOf(e) \cap {p} = {}
  BY <1>1, <1>3 DEF EdgesAt, Typed
<1>7. anchors' \subseteq anchors \cup (held \cap Cs)
  BY <1>3 DEF Gutted
<1> DEFINE no == {}
<1>8. DestroyGroups(no, Cs) /\ no \in SUBSET Prim
  BY <1>3
<1>9. LateAnchors /\ (\A c \in Clumps : asmOf[c] # NoPrim) => \A c \in Clumps' : asmOf'[c] # NoPrim
  <2> HIDE DEF no
  <2>1. no = {} 
    BY DEF no
  <2> QED
    BY <1>4, <1>7, <1>8, <2>1, LateKept
<1>10. Phase'
  BY <1>1, <1>3, <1>9 DEF Phase
<1>11. pc' \in Loops
  BY <1>3 DEF Loops
<1>12. PICK g \in SUBSET Prim : g = {p}
  OBVIOUS
<1> HIDE DEF no
<1>13. no = {} /\ no \in SUBSET Rigid
  BY DEF no
<1>14. /\ joined' = joined \ no /\ present' = present \ g /\ anchored' = anchored \ no
       /\ rigidTwos' = Gutted(Cs).twos \ no /\ rigidZeros' = Gutted(Cs).zeros \ no
       /\ DOMAIN (rigidOnes') = DOMAIN Gutted(Cs).ones \ no
       /\ DOMAIN (primitives') = DOMAIN Gutted(Cs).prims \ g
       /\ anchors' = Gutted(Cs).anchors \ (g \cup no)
       /\ (g \cup no) \cap held \subseteq Cs /\ \A q \in g : clumpOf[q] \in Cs \cup {NoPrim}
       /\ \A e \in joined' : EndsOf(e) \cap g = {}
  BY <1>2, <1>3, <1>5, <1>6, <1>12, <1>13
<1> QED
  BY <1>4, <1>8, <1>10, <1>11, <1>13, <1>14, DestroyStep

\* An anchor goes, and the clump it held.
LEMMA RemoveAnchorStep ==
  ASSUME Inv, Tame, NEW p \in Prim, RemoveAnchor(p)
  PROVE  Inv'
<1>1. Typed /\ PrimitivesFiled /\ Phase /\ Tree /\ RigidIn
  BY DEF Inv, GroupInv
<1>2. PICK Cs : Cs = ClumpHeldBy(p)
  OBVIOUS
<1>3. /\ pc = "idle" /\ pc' = pc
      /\ present' = present /\ anchored' = anchored \ {p} /\ joined' = joined
      /\ DestroyGroups({}, Cs)
      /\ rigidTwos' = Gutted(Cs).twos /\ rigidZeros' = Gutted(Cs).zeros
      /\ rigidOnes' = Gutted(Cs).ones /\ primitives' = Gutted(Cs).prims
      /\ anchors' = Gutted(Cs).anchors \ {p}
  BY <1>2 DEF RemoveAnchor, SetBuffers, Gutted
<1>4. Cs \in SUBSET Clumps
  BY <1>1, <1>2 DEF Tree, Clumps, Typed, ClumpHeldBy
<1>5. {p} \cap held \subseteq Cs
  BY <1>1, <1>2, Basics DEF PrimitivesFiled, Clumps, ClumpHeldBy
<1>6. anchors' \subseteq anchors \cup (held \cap Cs)
  BY <1>3 DEF Gutted
<1>7. PICK no : no = {}
  OBVIOUS
<1>8. DestroyGroups(no, Cs) /\ no \in SUBSET Prim /\ no \in SUBSET Rigid
  BY <1>3, <1>7
<1>9. LateAnchors /\ (\A c \in Clumps : asmOf[c] # NoPrim) => \A c \in Clumps' : asmOf'[c] # NoPrim
  BY <1>4, <1>6, <1>7, <1>8, LateKept
<1>10. Phase'
  BY <1>1, <1>3, <1>9 DEF Phase
<1>11. pc' \in Loops
  BY <1>3 DEF Loops
<1>12. PICK g \in SUBSET Prim : g = {p}
  OBVIOUS
<1>13. /\ joined' = joined \ no /\ present' = present \ no /\ anchored' = anchored \ g
       /\ rigidTwos' = Gutted(Cs).twos \ no /\ rigidZeros' = Gutted(Cs).zeros \ no
       /\ DOMAIN (rigidOnes') = DOMAIN Gutted(Cs).ones \ no
       /\ DOMAIN (primitives') = DOMAIN Gutted(Cs).prims \ no
       /\ anchors' = Gutted(Cs).anchors \ (no \cup g)
       /\ (no \cup g) \cap held \subseteq Cs
       /\ \A e \in joined' : EndsOf(e) \cap no = {}
  BY <1>3, <1>5, <1>7, <1>12
<1> QED
  BY <1>4, <1>7, <1>8, <1>10, <1>11, <1>13, DestroyStep

-----------------------------------------------------------------------------
\* The primitive that hung by r is the end of r whose parent is the other.
LEMMA HungBy ==
  ASSUME Typed, Tree, NEW r \in joined \cap Rigid
  PROVE  /\ \A p \in Prim : clumpOf[p] \notin {NoPrim, p} /\ EndsOf(r) = {p, parent[p]} => p \in Spanned(r)
         /\ ClumpsFiled /\ Hung /\ clumpOf[End[r][1]] = clumpOf[End[r][2]] =>
              \A p \in Spanned(r) : /\ p \in Prim /\ clumpOf[p] \notin {NoPrim, p}
                                    /\ EndsOf(r) = {p, parent[p]}
<1> DEFINE e0 == End[r][1]
           e1 == End[r][2]
<1>1. /\ e0 \in Prim /\ e1 \in Prim /\ e0 # e1 /\ EndsOf(r) = {e0, e1} /\ NoPrim \notin Prim
      /\ Other(r, e0) = e1 /\ Other(r, e1) = e0
  BY Basics DEF Edge
<1> HIDE DEF e0, e1
<1>2. ASSUME NEW p \in Prim, clumpOf[p] \notin {NoPrim, p}, EndsOf(r) = {p, parent[p]}
      PROVE  p \in Spanned(r)
  BY <1>1, <1>2 DEF Spanned
<1>3. ASSUME ClumpsFiled, Hung, clumpOf[e0] = clumpOf[e1], NEW p \in Spanned(r)
      PROVE  p \in Prim /\ clumpOf[p] \notin {NoPrim, p} /\ EndsOf(r) = {p, parent[p]}
  <2>1. /\ p \in Prim /\ p \in EndsOf(r) /\ parent[p] = Other(r, p) /\ parent[p] \in Prim
        /\ EndsOf(r) = {p, parent[p]} /\ clumpOf[parent[p]] = clumpOf[p]
    BY <1>1, <1>3 DEF Spanned
  <2>2. clumpOf[p] # NoPrim
    BY <1>1, <2>1 DEF Tree
  <2>3. clumpOf[p] # p
    BY <1>1, <1>3, <2>1 DEF Hung, Clumps
  <2> QED
    BY <2>1, <2>2, <2>3
<1> QED
  BY <1>2, <1>3 DEF e0, e1

\* A joint that is not filed and whose ends have one clump is inside it.
LEMMA Unfiled ==
  ASSUME Typed, RigidIn, NEW r \in joined \cap Rigid, ~InBuffers(r)
  PROVE  /\ clumpOf[End[r][1]] \in Prim /\ clumpOf[End[r][2]] \in Prim
         /\ ClumpsOf(r) = {clumpOf[End[r][1]], clumpOf[End[r][2]]}
         /\ Cardinality(ClumpsOf(r)) = 1 => /\ clumpOf[End[r][1]] = clumpOf[End[r][2]]
                                            /\ \A c \in Prim : r \notin inconsistent[c]
         /\ Cardinality(ClumpsOf(r)) = 2 => /\ clumpOf[End[r][1]] # clumpOf[End[r][2]]
                                            /\ \A c \in Prim \ ClumpsOf(r) : r \notin inconsistent[c]
<1> DEFINE x == clumpOf[End[r][1]]
           y == clumpOf[End[r][2]]
<1>1. x \in Prim /\ y \in Prim /\ RigidAt(r)
  BY DEF RigidIn, RigidAt
<1>2. ClumpsOf(r) = {x, y}
  BY <1>1, EndClumps, Basics DEF Edge
<1>3. /\ \A c \in Prim : r \in inconsistent[c] => c \in {x, y} /\ x # y
  BY <1>1 DEF RigidAt
<1> HIDE DEF x, y
<1>4. (x = y => Cardinality({x, y}) = 1) /\ (x # y => Cardinality({x, y}) = 2)
  BY CardPair
<1> QED
  BY <1>1, <1>2, <1>3, <1>4 DEF x, y

\* A joint that is not inconsistent goes from its buffer, or from inside a clump that stays.
LEMMA RigidGone ==
  ASSUME Inv, NEW r \in Rigid, pc = "idle", \A c \in Prim : r \notin inconsistent[c],
         joined' = joined \ {r}, rigidTwos' = rigidTwos \ {r}, rigidZeros' = rigidZeros \ {r},
         DOMAIN (rigidOnes') = DOMAIN rigidOnes \ {r}, primitives' = primitives, anchors' = anchors,
         pc' = pc, present' = present, anchored' = anchored, clumpOf' = clumpOf, held' = held,
         inconsistent' = inconsistent, UNCHANGED <<fileVars, motorVars, asmVars>>,
         Tree', parent' \in [Prim -> Prim \cup {NoPrim}], depth' \in [Prim -> Nat \cup {-1}],
         \A c \in Clumps : parent'[c] = parent[c]
  PROVE  Inv'
<1>1. /\ Typed /\ ClumpsFiled /\ MotorsIn /\ EdgesIn /\ Hung /\ Alone
      /\ RigidIn /\ PrimitivesFiled /\ AnchorsLoose /\ Phase
      /\ WorldTyped /\ FilesTyped /\ BodyTyped /\ AsmTyped /\ motorAngles \subseteq Motor /\ pc \in Loops
  BY TypedParts DEF Inv, GroupInv
<1>2. /\ motors' = motors /\ motorAngles' = motorAngles
      /\ anchoredClumps' = anchoredClumps /\ freeClumps' = freeClumps
      /\ asmOf' = asmOf /\ asmMotors' = asmMotors /\ asmIncons' = asmIncons
      /\ externalEdges' = externalEdges /\ internalEdges' = internalEdges
      /\ assemblies' = assemblies /\ edges' = edges /\ downAsm' = downAsm /\ downEdges' = downEdges
  BY DEF fileVars, motorVars, asmVars
<1>3. r \notin Contact /\ r \notin Motor
  BY ClumpStageAssumption
<1>4. Typed'
  <2>1. WorldTyped' /\ FilesTyped' /\ BodyTyped'
    BY <1>1 DEF WorldTyped, FilesTyped, BodyTyped, EndsOf
  <2>2. AsmTyped'
    BY <1>1, AsmTypedSame DEF motorVars
  <2> QED
    BY <1>1, <1>2, <2>1, <2>2, TypedParts
<1>5. MotorsIn' /\ EdgesIn'
  <2>1. joined' \cap Motor = joined \cap Motor /\ joined' \cap Contact = joined \cap Contact
    BY <1>3
  <2> QED
    BY <1>1, <1>2, <2>1, MotorsSame, EdgesSame
<1>6. ClumpsFiled' /\ Alone'
  BY <1>1, <1>2, ClumpsSame
<1>7. Hung'
  <2>1. Clumps' = Clumps
    BY DEF Clumps
  <2> SUFFICES ASSUME NEW c \in Clumps
               PROVE  IF asmOf'[c] \in {c, NoPrim} THEN parent'[c] = NoPrim
                      ELSE /\ parent'[c] \in Prim /\ clumpOf'[parent'[c]] # c
                           /\ \E m \in Motor : By(c)' = {m}
    BY <2>1 DEF Hung
  <2>2. parent'[c] = parent[c]
    OBVIOUS
  <2>3. By(c)' = By(c)
    BY <1>2, <2>2 DEF By, Attached, EndsOf, Other
  <2> QED
    BY <1>1, <1>2, <2>2, <2>3 DEF Hung
<1>8. RigidIn'
  <2> SUFFICES ASSUME NEW s \in Rigid PROVE RigidAt(s)'
    BY DEF RigidIn
  <2>1. RigidAt(s)
    BY <1>1 DEF RigidIn
  <2>2. CASE s = r
    BY <2>1, <2>2 DEF RigidAt, InBuffers
  <2>3. CASE s # r
    <3>1. /\ s \in joined' <=> s \in joined
          /\ s \in rigidTwos' <=> s \in rigidTwos
          /\ s \in rigidZeros' <=> s \in rigidZeros
          /\ s \in DOMAIN (rigidOnes') <=> s \in DOMAIN rigidOnes
      BY <2>3
    <3> QED
      BY <2>1, <3>1 DEF RigidAt, InBuffers
  <2> QED
    BY <2>2, <2>3
<1>9. PrimitivesFiled' /\ AnchorsLoose'
  BY <1>1, <1>2 DEF PrimitivesFiled, AnchorsLoose, Clumps
<1>10. Phase'
  BY <1>1, <1>2 DEF Phase, Clumps
<1>11. GroupInv'
  BY <1>5, <1>6, <1>7 DEF GroupInv
<1> QED
  BY <1>4, <1>8, <1>9, <1>10, <1>11 DEF Inv

\* Trees without r still stand when nobody hung by it.
LEMMA TreeWithout ==
  ASSUME Typed, Tree, NEW r \in joined \cap Rigid, Spanned(r) = {}, joined' = joined \ {r},
         clumpOf' = clumpOf, parent' = parent, depth' = depth
  PROVE  Tree'
<1>1. \A p \in Prim : clumpOf[p] \notin {NoPrim, p} => EndsOf(r) # {p, parent[p]}
  BY HungBy
<1>2. \A p \in Prim : clumpOf[p] \notin {NoPrim, p} =>
        \E s \in joined' \cap Rigid : EndsOf(s) = {p, parent[p]}
  BY <1>1 DEF Tree
<1> QED
  BY <1>2 DEF Tree, EndsOf

\* A joint goes that waits in a buffer, or that is inside a clump and not in its tree.
LEMMA RemoveIdle ==
  ASSUME Inv, NEW r \in joined \cap Rigid, pc = "idle", joined' = joined \ {r}, Spanned(r) = {},
         \/ InBuffers(r) /\ SetBuffers(RemoveFromBuffers(Buffers, {r}))
         \/ ~InBuffers(r) /\ Cardinality(ClumpsOf(r)) = 1 /\ UNCHANGED rigidVars,
         UNCHANGED <<pc, present, anchored, clumpVars, fileVars, motorVars, asmVars>>
  PROVE  Inv'
<1>1. Typed /\ RigidIn /\ Tree
  BY DEF Inv, GroupInv
<1>2. \A c \in Prim : r \notin inconsistent[c]
  <2>1. CASE InBuffers(r)
    BY <1>1, <2>1 DEF RigidIn, RigidAt
  <2>2. CASE ~InBuffers(r) /\ Cardinality(ClumpsOf(r)) = 1
    BY <1>1, <2>2, Unfiled
  <2> QED
    BY <2>1, <2>2
<1>3. /\ rigidTwos' = rigidTwos \ {r} /\ rigidZeros' = rigidZeros \ {r}
      /\ DOMAIN (rigidOnes') = DOMAIN rigidOnes \ {r} /\ primitives' = primitives /\ anchors' = anchors
  <2>1. CASE InBuffers(r) /\ SetBuffers(RemoveFromBuffers(Buffers, {r}))
    BY <2>1 DEF SetBuffers, RemoveFromBuffers, Buffers, Refile
  <2>2. CASE ~InBuffers(r) /\ UNCHANGED rigidVars
    BY <2>2 DEF InBuffers, rigidVars
  <2> QED
    BY <2>1, <2>2
<1>4. /\ clumpOf' = clumpOf /\ parent' = parent /\ depth' = depth /\ held' = held
      /\ inconsistent' = inconsistent
  BY DEF clumpVars
<1>5. Tree'
  BY <1>1, <1>4, TreeWithout
<1>6. parent' \in [Prim -> Prim \cup {NoPrim}] /\ depth' \in [Prim -> Nat \cup {-1}]
  BY <1>1, <1>4 DEF Typed
<1> QED
  BY <1>2, <1>3, <1>4, <1>5, <1>6, RigidGone

\* A joint of the tree goes, and what hung by it is hung elsewhere in the clump.
LEMMA RemoveAdjust ==
  ASSUME Inv, Tame, NEW r \in joined \cap Rigid, pc = "idle", joined' = joined \ {r},
         ~InBuffers(r), Cardinality(ClumpsOf(r)) = 1,
         NEW top \in Spanned(r), NEW l \in BestOutsideLinks(top), SpanningTreeAdjust(r, l),
         UNCHANGED <<pc, present, anchored, rigidVars, clumpOf, held, inconsistent, fileVars,
                     motorVars, asmVars>>
  PROVE  Inv'
<1>1. Typed /\ RigidIn /\ Tree /\ ClumpsFiled /\ Hung
  BY DEF Inv, GroupInv
<1>2. /\ clumpOf[End[r][1]] = clumpOf[End[r][2]] /\ \A c \in Prim : r \notin inconsistent[c]
  BY <1>1, Unfiled
<1>3. top \in Prim /\ clumpOf[top] \notin {NoPrim, top} /\ EndsOf(r) = {top, parent[top]}
  BY <1>1, <1>2, HungBy
<1>4. l \in OutsideLinks(top)
  BY DEF BestOutsideLinks
<1>5. /\ Tree' /\ parent' \in [Prim -> Prim \cup {NoPrim}] /\ depth' \in [Prim -> Nat \cup {-1}]
      /\ \A p \in Prim : clumpOf[p] \in {p, NoPrim} => parent'[p] = parent[p]
  BY <1>1, <1>3, <1>4, AdjustTree DEF Tame
<1>6. /\ rigidTwos' = rigidTwos \ {r} /\ rigidZeros' = rigidZeros \ {r}
      /\ DOMAIN (rigidOnes') = DOMAIN rigidOnes \ {r} /\ primitives' = primitives /\ anchors' = anchors
  BY DEF InBuffers, rigidVars
<1>7. \A c \in Clumps : parent'[c] = parent[c]
  BY <1>5 DEF Clumps
<1> QED
  BY <1>2, <1>5, <1>6, <1>7, RigidGone

\* An inconsistent joint goes, and the two clumps that held it are destroyed.
LEMMA RemoveBetween ==
  ASSUME Inv, Tame, NEW r \in joined \cap Rigid, pc = "idle", joined' = joined \ {r},
         ~InBuffers(r), Cardinality(ClumpsOf(r)) = 2, DestroyGroups({}, ClumpsOf(r)),
         SetBuffers(RemoveFromBuffers(Gutted(ClumpsOf(r)), {r})),
         UNCHANGED <<pc, present, anchored>>
  PROVE  Inv'
<1>1. Typed /\ RigidIn /\ Tree /\ Phase
  BY DEF Inv, GroupInv
<1>2. PICK Cs : Cs = ClumpsOf(r)
  OBVIOUS
<1>3. /\ clumpOf[End[r][1]] # clumpOf[End[r][2]]
      /\ \A c \in Prim \ Cs : r \notin inconsistent[c]
      /\ clumpOf[End[r][1]] \in Prim /\ clumpOf[End[r][2]] \in Prim
      /\ Cs = {clumpOf[End[r][1]], clumpOf[End[r][2]]}
  BY <1>1, <1>2, Unfiled
<1>4. Cs \in SUBSET Clumps
  <2>1. End[r][1] \in Prim /\ End[r][2] \in Prim
    BY Basics DEF Edge
  <2> QED
    BY <1>1, <1>3, <2>1, Basics DEF Tree, Clumps
<1>5. PICK no : no = {}
  OBVIOUS
<1>6. PICK gone \in SUBSET Rigid : gone = {r}
  OBVIOUS
<1>7. /\ rigidTwos' = Gutted(Cs).twos \ gone /\ rigidZeros' = Gutted(Cs).zeros \ gone
      /\ DOMAIN (rigidOnes') = DOMAIN Gutted(Cs).ones \ gone
      /\ primitives' = Gutted(Cs).prims /\ anchors' = Gutted(Cs).anchors
  BY <1>2, <1>6 DEF SetBuffers, RemoveFromBuffers, Gutted, Refile
<1>8. DestroyGroups(no, Cs) /\ no \in SUBSET Prim
  BY <1>2, <1>5
<1>9. anchors' \subseteq anchors \cup (held \cap Cs)
  BY <1>7 DEF Gutted
<1>10. LateAnchors /\ (\A c \in Clumps : asmOf[c] # NoPrim) => \A c \in Clumps' : asmOf'[c] # NoPrim
  BY <1>4, <1>5, <1>8, <1>9, LateKept
<1>11. Phase'
  BY <1>1, <1>10 DEF Phase
<1>12. /\ joined' = joined \ gone /\ present' = present \ no /\ anchored' = anchored \ no
       /\ DOMAIN (primitives') = DOMAIN Gutted(Cs).prims \ no
       /\ anchors' = Gutted(Cs).anchors \ (no \cup no)
       /\ (no \cup no) \cap held \subseteq Cs
       /\ \A e \in joined' : EndsOf(e) \cap no = {}
       /\ \A s \in gone : /\ clumpOf[End[s][1]] # clumpOf[End[s][2]]
                          /\ \A c \in Prim \ Cs : s \notin inconsistent[c]
       /\ pc' \in Loops
  BY <1>3, <1>5, <1>6, <1>7 DEF Loops
<1> QED
  BY <1>4, <1>5, <1>7, <1>8, <1>11, <1>12, DestroyStep

-----------------------------------------------------------------------------
\* A joint of the tree goes, and what hung by it leaves the clump.
LEMMA RemoveTree ==
  ASSUME Inv, Tame, NEW r \in joined \cap Rigid, pc = "idle", joined' = joined \ {r},
         ~InBuffers(r), Cardinality(ClumpsOf(r)) = 1,
         NEW top \in Spanned(r), RemoveSpanningTree(r, top),
         UNCHANGED <<pc, present, anchored>>
  PROVE  Inv'
<1> DEFINE at(S) == {e \in joined \cap S : EndsOf(e) \cap Subtree(top) # {}}
<1>1. /\ Typed /\ RigidIn /\ Tree /\ ClumpsFiled /\ Hung /\ GroupInv /\ PrimitivesFiled
      /\ AnchorsLoose /\ Phase /\ Alone /\ WorldTyped /\ FilesTyped
  BY TypedParts DEF Inv, GroupInv
<1>2. /\ clumpOf[End[r][1]] = clumpOf[End[r][2]] /\ \A c \in Prim : r \notin inconsistent[c]
  BY <1>1, Unfiled
<1>3. top \in Prim /\ clumpOf[top] \notin {NoPrim, top} /\ EndsOf(r) = {top, parent[top]}
  BY <1>1, <1>2, HungBy
<1>4. GroupInv' /\ BodyTyped' /\ AsmTyped' /\ motorAngles' \subseteq Motor
  BY <1>1, <1>3, TreeWithdrawn
<1>5. PICK out : out = Subtree(top)
  OBVIOUS
<1>6. PICK rs : rs = at(Rigid)
  OBVIOUS
<1>7. PICK As : As = IF AsmOfPrim(top) # NoPrim /\ at(Motor) # {} THEN {AsmOfPrim(top)} ELSE {}
  OBVIOUS
<1>8. /\ rigidTwos' = (rigidTwos \ rs) \cup (rs \ {r}) /\ rigidZeros' = rigidZeros \ rs
      /\ DOMAIN (rigidOnes') = DOMAIN rigidOnes \ rs
      /\ DOMAIN (primitives') = DOMAIN primitives \cup out /\ anchors' = anchors
      /\ clumpOf' = [p \in Prim |-> IF p \in out THEN NoPrim ELSE clumpOf[p]]
      /\ held' = held
      /\ inconsistent' = [c \in Prim |-> inconsistent[c] \ rs]
      /\ asmOf' = [c \in Prim |-> IF asmOf[c] \in As THEN NoPrim ELSE asmOf[c]]
  BY <1>5, <1>6, <1>7 DEF RemoveSpanningTree, SetBuffers, RemoveFromBuffers, Buffers, Refile, Ungroup,
                          ReleaseAssemblies
<1>9. /\ out \subseteq Members(clumpOf[top]) \ {clumpOf[top]} /\ top \in out
  BY <1>1, <1>3, <1>5, SubtreeFacts
<1>10. /\ out \subseteq Prim /\ out \cap Clumps = {} /\ \A p \in out : clumpOf[p] # NoPrim
  BY <1>3, <1>9 DEF Members, Clumps
<1>11. /\ rs \subseteq joined \cap Rigid /\ r \in rs
       /\ \A s \in joined \cap Rigid : s \in rs <=> EndsOf(s) \cap out # {}
  BY <1>3, <1>5, <1>6, <1>9
<1> HIDE DEF at
<1>12. RigidIn'
  <2> SUFFICES ASSUME NEW s \in Rigid PROVE RigidAt(s)'
    BY DEF RigidIn
  <2> DEFINE e0 == End[s][1]
             e1 == End[s][2]
  <2>1. RigidAt(s)
    BY <1>1 DEF RigidIn
  <2>2. /\ e0 \in Prim /\ e1 \in Prim /\ EndsOf(s) = {e0, e1}
    BY Basics DEF Edge
  <2>3. /\ clumpOf'[e0] = IF e0 \in out THEN NoPrim ELSE clumpOf[e0]
        /\ clumpOf'[e1] = IF e1 \in out THEN NoPrim ELSE clumpOf[e1]
    BY <1>8, <2>2
  <2>4. CASE s \in rs /\ s # r
    <3>1. s \in rigidTwos' /\ s \notin rigidZeros' /\ s \notin DOMAIN (rigidOnes') /\ s \in joined'
      BY <1>8, <1>11, <2>4
    <3>2. \A c \in Prim : s \notin inconsistent'[c]
      BY <1>8, <2>4
    <3> QED
      BY <3>1, <3>2 DEF RigidAt, InBuffers
  <2>5. CASE s = r
    <3>1. s \notin rigidTwos' /\ s \notin rigidZeros' /\ s \notin DOMAIN (rigidOnes') /\ s \notin joined'
      BY <1>8, <1>11, <2>5
    <3>2. \A c \in Prim : s \notin inconsistent'[c]
      BY <1>8, <1>11, <2>5
    <3> QED
      BY <3>1, <3>2 DEF RigidAt, InBuffers
  <2>6. CASE s \notin rs
    <3>1. /\ s \in joined' <=> s \in joined
          /\ s \in rigidTwos' <=> s \in rigidTwos
          /\ s \in rigidZeros' <=> s \in rigidZeros
          /\ s \in DOMAIN (rigidOnes') <=> s \in DOMAIN rigidOnes
          /\ \A c \in Prim : s \in inconsistent'[c] <=> s \in inconsistent[c]
      BY <1>8, <1>11, <2>6
    <3>2. s \in joined => clumpOf'[e0] = clumpOf[e0] /\ clumpOf'[e1] = clumpOf[e1]
      BY <1>11, <2>2, <2>3, <2>6
    <3>3. CASE s \in joined
      BY <1>8, <2>1, <3>1, <3>2, <3>3 DEF RigidAt, InBuffers
    <3>4. CASE s \notin joined
      BY <2>1, <3>1, <3>4 DEF RigidAt, InBuffers
    <3> QED
      BY <3>3, <3>4
  <2> QED
    BY <2>4, <2>5, <2>6
<1>13. PrimitivesFiled' /\ DOMAIN (primitives') \subseteq Prim
  <2>1. /\ DOMAIN primitives = {p \in present : clumpOf[p] = NoPrim}
        /\ \A p \in Prim \ present : clumpOf[p] = NoPrim
        /\ anchors \subseteq anchored \cap present
        /\ \A p \in Prim : p \in held <=> p \in (anchored \cap present) \ anchors
        /\ held \subseteq Clumps /\ present \subseteq Prim
    BY <1>1 DEF PrimitivesFiled, WorldTyped
  <2>2. \A p \in Prim : clumpOf'[p] = IF p \in out THEN NoPrim ELSE clumpOf[p]
    BY <1>8
  <2>3. ASSUME NEW p PROVE p \in DOMAIN (primitives') <=> p \in present' /\ clumpOf'[p] = NoPrim
    BY <1>8, <1>10, <2>1, <2>2
  <2>4. DOMAIN (primitives') = {p \in present' : clumpOf'[p] = NoPrim}
    BY <2>3
  <2>5. \A p \in Prim \ present' : clumpOf'[p] = NoPrim
    BY <2>1, <2>2
  <2>6. held' \subseteq Clumps'
    BY <1>8, <1>10, <2>1, <2>2 DEF Clumps
  <2> QED
    BY <1>8, <2>1, <2>4, <2>5, <2>6 DEF PrimitivesFiled
<1>14. /\ LateAnchors => asmOf' = asmOf
  <2>1. ASSUME LateAnchors PROVE asmOf' = asmOf
    <3>1. As = {}
      BY <1>7, <2>1 DEF Tame, at
    <3> QED
      BY <1>1, <1>8, <3>1 DEF Typed, AsmTyped
  <2> QED
    BY <2>1
<1>15. \A p \in Prim : clumpOf'[p] # NoPrim => clumpOf'[p] = clumpOf[p]
  BY <1>8
<1>16. AnchorsLoose'
  <2> SUFFICES ASSUME NEW p \in anchors, clumpOf'[p] # NoPrim
               PROVE  LateAnchors /\ ~(clumpOf'[p] = p /\ asmOf'[p] = NoPrim)
    BY <1>8 DEF AnchorsLoose
  <2>1. p \in Prim
    BY <1>1 DEF FilesTyped
  <2> QED
    BY <1>1, <1>14, <1>15, <2>1 DEF AnchorsLoose
<1>17. Phase'
  <2>1. LateAnchors => \A c \in Clumps' : asmOf'[c] # NoPrim
    BY <1>1, <1>14, <1>15, Basics DEF Phase, Clumps
  <2> QED
    BY <1>1, <2>1 DEF Phase
<1>18. WorldTyped' /\ FilesTyped' /\ pc' \in Loops
  <2>1. WorldTyped'
    BY <1>1 DEF WorldTyped, EndsOf
  <2>2. FilesTyped'
    BY <1>1, <1>8, <1>11, <1>13 DEF FilesTyped
  <2> QED
    BY <2>1, <2>2 DEF Loops
<1>19. Typed'
  BY <1>4, <1>18, TypedParts
<1> QED
  BY <1>4, <1>12, <1>13, <1>16, <1>17, <1>19 DEF Inv

\* A rigid joint goes.
LEMMA RemoveRigidStep ==
  ASSUME Inv, Tame, NEW r \in Rigid, RemoveRigid(r)
  PROVE  Inv'
<1>1. /\ r \in joined \cap Rigid /\ pc = "idle" /\ joined' = joined \ {r}
      /\ UNCHANGED <<pc, present, anchored>>
  BY DEF RemoveRigid
<1>2. ~DropPending
  BY DEF Tame
<1>3. CASE /\ InBuffers(r) /\ (DropPending \/ Spanned(r) = {})
           /\ SetBuffers(RemoveFromBuffers(Buffers, {r}))
           /\ UNCHANGED <<clumpVars, fileVars, motorVars, asmVars>>
  BY <1>1, <1>2, <1>3, RemoveIdle
<1>4. CASE /\ ~InBuffers(r) /\ Cardinality(ClumpsOf(r)) = 1 /\ Spanned(r) = {}
           /\ UNCHANGED <<rigidVars, clumpVars, fileVars, motorVars, asmVars>>
  BY <1>1, <1>4, RemoveIdle
<1>5. CASE /\ ~InBuffers(r) /\ Cardinality(ClumpsOf(r)) = 1
           /\ \E top \in Spanned(r) : \E l \in BestOutsideLinks(top) : SpanningTreeAdjust(r, l)
           /\ UNCHANGED <<rigidVars, clumpOf, held, inconsistent, fileVars, motorVars, asmVars>>
  <2>1. PICK top \in Spanned(r) : \E l \in BestOutsideLinks(top) : SpanningTreeAdjust(r, l)
    BY <1>5
  <2>2. PICK l \in BestOutsideLinks(top) : SpanningTreeAdjust(r, l)
    BY <2>1
  <2>3. UNCHANGED <<pc, present, anchored, rigidVars, clumpOf, held, inconsistent, fileVars,
                    motorVars, asmVars>>
    BY <1>1, <1>5
  <2> QED
    BY <1>1, <1>5, <2>2, <2>3, RemoveAdjust
<1>6. CASE /\ ~InBuffers(r) /\ Cardinality(ClumpsOf(r)) = 1
           /\ \E top \in Spanned(r) : OutsideLinks(top) = {} /\ RemoveSpanningTree(r, top)
  BY <1>1, <1>6, RemoveTree
<1>7. CASE /\ ~InBuffers(r) /\ Cardinality(ClumpsOf(r)) = 2
           /\ DestroyGroups({}, ClumpsOf(r))
           /\ SetBuffers(RemoveFromBuffers(Gutted(ClumpsOf(r)), {r}))
  BY <1>1, <1>7, RemoveBetween
<1> QED
  BY <1>3, <1>4, <1>5, <1>6, <1>7 DEF RemoveRigid

-----------------------------------------------------------------------------
\* A step that takes assemblies apart and leaves the clumps and primitives as they are, in a
\* world without late anchors or when no anchor waits.
LEMMA ReleaseStep ==
  ASSUME Inv, NEW As \in SUBSET Prim, NEW gone \in SUBSET Motor,
         ReleaseAssemblies(As, {}), FileClumps(As, {}), parent' = ParentAfter(As, {}),
         clumpOf' = clumpOf, depth' = depth, held' = held,
         inconsistent' \in [Prim -> SUBSET Rigid],
         joined' = joined \ gone, gone \subseteq ToSet(motors) \cup MotorsOf(As),
         motors' \in Seq(Motor), Once(motors'),
         ToSet(motors') = (ToSet(motors) \cup MotorsOf(As)) \ gone, motorAngles' \subseteq Motor,
         present' = present, anchored' = anchored, anchors' = anchors, primitives' = primitives,
         anchors = {} \/ ~LateAnchors, rigidTwos' \subseteq Rigid, rigidZeros' \subseteq Rigid,
         DOMAIN (rigidOnes') \subseteq Rigid, RigidIn', pc' \in Loops, Phase'
  PROVE  Inv'
<1>1. /\ Typed /\ GroupInv /\ PrimitivesFiled /\ AnchorsLoose /\ WorldTyped /\ FilesTyped
  BY TypedParts DEF Inv
<1>2. GroupInv' /\ BodyTyped' /\ AsmTyped'
  BY <1>1, AssembliesWithdrawn
<1>3. WorldTyped' /\ FilesTyped'
  BY <1>1 DEF WorldTyped, FilesTyped, EndsOf
<1>4. Typed'
  BY <1>2, <1>3, TypedParts
<1>5. PrimitivesFiled' /\ AnchorsLoose'
  BY <1>1 DEF PrimitivesFiled, AnchorsLoose, Clumps
<1> QED
  BY <1>2, <1>4, <1>5 DEF Inv

\* A motor goes, and the assembly it was in.
LEMMA RemoveMotorStep ==
  ASSUME Inv, Tame, NEW m \in Motor, RemoveMotor(m)
  PROVE  Inv'
<1>1. /\ Typed /\ GroupInv /\ RigidIn /\ MotorsIn /\ Phase /\ ClumpsFiled
      /\ FilesTyped /\ BodyTyped
  BY TypedParts DEF Inv, GroupInv
<1>2. PICK As : As = IF MotorsFind(m) THEN {} ELSE {AsmOfPrim(End[m][1])}
  OBVIOUS
<1>3. /\ pc = "idle" /\ pc' = pc /\ m \in joined /\ joined' = joined \ {m}
      /\ ReleaseAssemblies(As, {})
      /\ \E s \in Released(As) : motors' = RemoveFirst(motors \o s, m)
      /\ motorAngles' = AnglesToo(As) \ {m}
      /\ FileClumps(As, {}) /\ parent' = ParentAfter(As, {})
      /\ UNCHANGED <<present, anchored, rigidVars, clumpOf, depth, held, inconsistent>>
  BY <1>2 DEF RemoveMotor
<1>4. As \in SUBSET Prim /\ m \in ToSet(motors) \cup MotorsOf(As)
  <2>1. CASE MotorsFind(m)
    BY <1>2, <2>1 DEF MotorsFind
  <2>2. CASE ~MotorsFind(m)
    <3> DEFINE a == AsmOfPrim(End[m][1])
    <3>1. a \in Prim /\ (m \in asmMotors[a] \/ m \in asmIncons[a])
      BY <1>1, <1>3, <2>2 DEF MotorsIn, MotorAt
    <3> HIDE DEF a
    <3>2. As = {a}
      BY <1>2, <2>2 DEF a
    <3> QED
      BY <3>1, <3>2 DEF MotorsOf
  <2> QED
    BY <2>1, <2>2
<1>5. /\ motors' \in Seq(Motor) /\ Once(motors')
      /\ ToSet(motors') = (ToSet(motors) \cup MotorsOf(As)) \ {m}
      /\ motorAngles' \subseteq Motor
  <2>1. PICK s \in Released(As) : motors' = RemoveFirst(motors \o s, m)
    BY <1>3
  <2>2. motors \in Seq(Motor) /\ Once(motors)
    BY <1>1 DEF Typed, AsmTyped, MotorsIn
  <2>3. /\ motors \o s \in Seq(Motor) /\ Once(motors \o s)
        /\ ToSet(motors \o s) = ToSet(motors) \cup MotorsOf(As)
        /\ AnglesToo(As) \subseteq Motor
    BY <1>1, <1>4, <2>2, MotorsReleased
  <2>4. PICK q \in Seq(Motor) : q = motors \o s
    BY <2>3
  <2>5. /\ RemoveFirst(q, m) \in Seq(Motor) /\ Once(RemoveFirst(q, m))
        /\ ToSet(RemoveFirst(q, m)) = ToSet(q) \ {m}
    BY <2>3, <2>4, RemoveOnce
  <2> QED
    BY <1>3, <2>1, <2>3, <2>4, <2>5
<1>6. ~LateAnchors
  BY DEF Tame
<1>7. RigidIn'
  <2>1. joined' \cap Rigid = joined \cap Rigid
    BY <1>3, ClumpStageAssumption
  <2> QED
    BY <1>1, <1>3, <2>1, RigidSame DEF rigidVars
<1>8. Phase' /\ pc' \in Loops
  BY <1>1, <1>3, <1>6 DEF Phase, Loops
<1>9. PICK gone \in SUBSET Motor : gone = {m}
  OBVIOUS
<1>10. /\ joined' = joined \ gone /\ gone \subseteq ToSet(motors) \cup MotorsOf(As)
       /\ ToSet(motors') = (ToSet(motors) \cup MotorsOf(As)) \ gone
  BY <1>3, <1>4, <1>5, <1>9
<1>11. /\ clumpOf' = clumpOf /\ depth' = depth /\ held' = held
       /\ inconsistent' \in [Prim -> SUBSET Rigid]
       /\ present' = present /\ anchored' = anchored /\ anchors' = anchors /\ primitives' = primitives
       /\ rigidTwos' \subseteq Rigid /\ rigidZeros' \subseteq Rigid /\ DOMAIN (rigidOnes') \subseteq Rigid
  BY <1>1, <1>3 DEF rigidVars, FilesTyped, BodyTyped
<1> QED
  BY <1>3, <1>4, <1>5, <1>6, <1>7, <1>8, <1>10, <1>11, ReleaseStep

-----------------------------------------------------------------------------
\* Destroy, when no anchor waits or no other assembly goes with the clumps, in a loop of
\* process.
LEMMA LoopDestroyStep ==
  ASSUME Inv, Tame, NEW As \in SUBSET Prim, NEW Cs \in SUBSET Clumps, DestroyGroups(As, Cs),
         rigidTwos' = Gutted(Cs).twos, rigidZeros' = Gutted(Cs).zeros, rigidOnes' = Gutted(Cs).ones,
         anchors' = Gutted(Cs).anchors, DOMAIN (primitives') = DOMAIN Gutted(Cs).prims,
         UNCHANGED worldVars, As = {} \/ anchors = {}, pc' \in Loops, Phase'
  PROVE  Inv'
<1>1. PICK no : no = {}
  OBVIOUS
<1>2. /\ joined' = joined \ no /\ present' = present \ no /\ anchored' = anchored \ no
      /\ rigidTwos' = Gutted(Cs).twos \ no /\ rigidZeros' = Gutted(Cs).zeros \ no
      /\ DOMAIN (rigidOnes') = DOMAIN Gutted(Cs).ones \ no
      /\ DOMAIN (primitives') = DOMAIN Gutted(Cs).prims \ no
      /\ anchors' = Gutted(Cs).anchors \ (no \cup no)
      /\ (no \cup no) \cap held \subseteq Cs
      /\ \A e \in joined' : EndsOf(e) \cap no = {}
      /\ \A p \in no : clumpOf[p] \in Cs \cup {NoPrim}
      /\ \A r \in no : /\ clumpOf[End[r][1]] # clumpOf[End[r][2]]
                       /\ \A c \in Prim \ Cs : r \notin inconsistent[c]
      /\ no \in SUBSET Rigid /\ no \in SUBSET Prim
  BY <1>1 DEF worldVars
<1> QED
  BY <1>2, DestroyStep

\* A primitive becomes a clump of its own, held or free.
LEMMA NewRoot ==
  ASSUME Typed, GroupInv, NEW p \in Prim, clumpOf[p] = NoPrim,
         clumpOf' = [clumpOf EXCEPT ![p] = p], depth' = [depth EXCEPT ![p] = 0],
         parent' = parent, inconsistent' = inconsistent, joined' = joined, held \subseteq Clumps,
         \/ held' = held \cup {p} /\ anchoredClumps' = anchoredClumps \cup {p} /\ freeClumps' = freeClumps
         \/ held' = held /\ anchoredClumps' = anchoredClumps /\ freeClumps' = freeClumps \cup {p},
         UNCHANGED <<motors, asmVars>>
  PROVE  GroupInv' /\ BodyTyped' /\ AsmTyped' /\ Clumps' = Clumps \cup {p}
<1>1. /\ Tree /\ ClumpsFiled /\ MotorsIn /\ EdgesIn /\ Hung /\ Alone /\ BodyTyped /\ AsmTyped
      /\ NoPrim \notin Prim
  BY TypedParts, Basics DEF GroupInv
<1>2. /\ asmOf' = asmOf /\ asmMotors' = asmMotors /\ asmIncons' = asmIncons
      /\ externalEdges' = externalEdges /\ internalEdges' = internalEdges /\ motors' = motors
      /\ assemblies' = assemblies /\ edges' = edges /\ downAsm' = downAsm /\ downEdges' = downEdges
  BY DEF asmVars
<1>3. /\ \A q \in Prim : clumpOf'[q] = IF q = p THEN p ELSE clumpOf[q]
      /\ \A q \in Prim : depth'[q] = IF q = p THEN 0 ELSE depth[q]
      /\ parent[p] = NoPrim /\ p \notin held /\ p \notin Clumps
  BY <1>1 DEF BodyTyped, Tree, Clumps
<1>4. Clumps' = Clumps \cup {p}
  BY <1>3 DEF Clumps
<1>5. asmOf[p] = NoPrim
  BY <1>1, <1>3 DEF ClumpsFiled
<1>6. /\ \A q \in Prim : AsmOfPrim(q)' = AsmOfPrim(q)
      /\ \A q \in Prim : AsmOfPrim(q) # p
  <2>1. ASSUME NEW q \in Prim PROVE AsmOfPrim(q)' = AsmOfPrim(q)
    BY <1>1, <1>2, <1>3, <1>5 DEF AsmOfPrim
  <2>2. ASSUME NEW q \in Prim PROVE AsmOfPrim(q) # p
    BY <1>1, <1>3, AsmFacts
  <2> QED
    BY <2>1, <2>2
<1>7. BodyTyped'
  BY <1>1 DEF BodyTyped
<1>8. AsmTyped'
  BY <1>1, <1>2 DEF AsmTyped
<1>9. Tree'
  <2> SUFFICES ASSUME NEW q \in Prim
               PROVE  /\ clumpOf'[q] # NoPrim => clumpOf'[clumpOf'[q]] = clumpOf'[q] /\ depth'[q] \in Nat
                      /\ clumpOf'[q] = q => depth'[q] = 0
                      /\ clumpOf'[q] \notin {NoPrim, q} =>
                           /\ parent'[q] \in Prim /\ clumpOf'[parent'[q]] = clumpOf'[q]
                           /\ depth'[q] = depth'[parent'[q]] + 1
                           /\ \E r \in joined' \cap Rigid : EndsOf(r) = {q, parent'[q]}
                      /\ clumpOf'[q] = NoPrim => depth'[q] = -1 /\ parent'[q] = NoPrim
    BY DEF Tree, EndsOf
  <2>1. CASE q = p
    BY <1>1, <1>3, <2>1
  <2>2. CASE q # p
    <3>1. /\ clumpOf[q] # NoPrim => clumpOf[clumpOf[q]] = clumpOf[q] /\ depth[q] \in Nat
          /\ clumpOf[q] = q => depth[q] = 0
          /\ clumpOf[q] \notin {NoPrim, q} =>
               /\ parent[q] \in Prim /\ clumpOf[parent[q]] = clumpOf[q]
               /\ depth[q] = depth[parent[q]] + 1
               /\ \E r \in joined \cap Rigid : EndsOf(r) = {q, parent[q]}
          /\ clumpOf[q] = NoPrim => depth[q] = -1 /\ parent[q] = NoPrim
          /\ clumpOf[q] \in Prim \cup {NoPrim}
      BY <1>1 DEF Tree, BodyTyped
    <3>2. clumpOf'[q] = clumpOf[q] /\ depth'[q] = depth[q]
      BY <1>3, <2>2
    <3>3. clumpOf[q] # NoPrim => clumpOf[q] # p
      BY <1>1, <3>1
    <3>4. clumpOf[q] \notin {NoPrim, q} => parent[q] # p
      BY <3>1
    <3> QED
      BY <1>3, <3>1, <3>2, <3>3, <3>4
  <2> QED
    BY <2>1, <2>2
<1>10. ClumpsFiled'
  <2>1. /\ anchoredClumps = {c \in Clumps : asmOf[c] = NoPrim} \cap held
        /\ freeClumps = {c \in Clumps : asmOf[c] = NoPrim} \ held
        /\ \A c \in Prim : asmOf[c] # NoPrim =>
             /\ c \in Clumps /\ asmOf[c] \in Clumps /\ asmOf[asmOf[c]] = asmOf[c]
             /\ c \in held => asmOf[c] = c
             /\ asmOf[c] \in assemblies \cup downAsm
        /\ assemblies \cap downAsm = {}
        /\ \A a \in assemblies \cup downAsm : asmOf[a] = a
    BY <1>1 DEF ClumpsFiled
  <2>2. anchoredClumps' = {c \in Clumps' : asmOf'[c] = NoPrim} \cap held'
    BY <1>2, <1>3, <1>4, <1>5, <2>1
  <2>3. freeClumps' = {c \in Clumps' : asmOf'[c] = NoPrim} \ held'
    BY <1>2, <1>3, <1>4, <1>5, <2>1
  <2>4. \A c \in Prim : asmOf'[c] # NoPrim => (c \in held' <=> c \in held)
    BY <1>2, <1>5
  <2> QED
    BY <1>2, <1>4, <2>1, <2>2, <2>3, <2>4 DEF ClumpsFiled
<1>11. MotorsIn'
  <2> SUFFICES ASSUME NEW m \in Motor PROVE MotorAt(m)'
    BY <1>1, <1>2 DEF MotorsIn
  <2>1. MotorAt(m) /\ End[m][1] \in Prim /\ End[m][2] \in Prim
    BY <1>1, Basics DEF MotorsIn, Edge
  <2>2. AsmOfPrim(End[m][1])' = AsmOfPrim(End[m][1]) /\ AsmOfPrim(End[m][2])' = AsmOfPrim(End[m][2])
    BY <1>6, <2>1
  <2> QED
    BY <1>2, <2>1, <2>2 DEF MotorAt, MotorsFind
<1>12. EdgesIn'
  <2> SUFFICES ASSUME NEW e \in Contact PROVE EdgeAt(e)'
    BY DEF EdgesIn
  <2>1. EdgeAt(e) /\ End[e][1] \in Prim /\ End[e][2] \in Prim
    BY <1>1, Basics DEF EdgesIn, Edge
  <2>2. /\ AsmOfPrim(End[e][1])' = AsmOfPrim(End[e][1]) /\ AsmOfPrim(End[e][1]) # p
        /\ AsmOfPrim(End[e][2])' = AsmOfPrim(End[e][2]) /\ AsmOfPrim(End[e][2]) # p
    BY <1>6, <2>1
  <2>3. /\ AsmOfPrim(End[e][1]) \in held' <=> AsmOfPrim(End[e][1]) \in held
        /\ AsmOfPrim(End[e][2]) \in held' <=> AsmOfPrim(End[e][2]) \in held
    BY <2>2
  <2> QED
    BY <1>2, <2>1, <2>2, <2>3 DEF EdgeAt
<1>13. Hung'
  <2> SUFFICES ASSUME NEW c \in Clumps'
               PROVE  IF asmOf'[c] \in {c, NoPrim} THEN parent'[c] = NoPrim
                      ELSE /\ parent'[c] \in Prim /\ clumpOf'[parent'[c]] # c
                           /\ \E m \in Motor : By(c)' = {m}
    BY DEF Hung
  <2>1. CASE c = p
    BY <1>2, <1>3, <1>5, <2>1
  <2>2. CASE c # p
    <3>1. c \in Clumps /\ c \in Prim
      BY <1>4, <2>2 DEF Clumps
    <3>2. IF asmOf[c] \in {c, NoPrim} THEN parent[c] = NoPrim
          ELSE /\ parent[c] \in Prim /\ clumpOf[parent[c]] # c
               /\ \E m \in Motor : By(c) = {m}
      BY <1>1, <3>1 DEF Hung
    <3>3. \A q \in Prim : clumpOf'[q] = c <=> clumpOf[q] = c
      BY <1>1, <1>3, <2>2, <3>1
    <3>4. parent[c] \in Prim => By(c)' = By(c)
      <4>1. Attached' = Attached /\ Attached \subseteq Motor
        BY <1>1, <1>2 DEF Attached, AsmTyped
      <4>2. \A m \in Motor : parent[c] \in EndsOf(m) => Other(m, parent[c]) \in Prim
        BY Basics DEF Edge
      <4> QED
        BY <3>3, <4>1, <4>2 DEF By, EndsOf, Other
    <3> QED
      BY <1>2, <3>2, <3>3, <3>4
  <2> QED
    BY <2>1, <2>2
<1>14. Alone'
  BY <1>1, <1>2 DEF Alone
<1> QED
  BY <1>4, <1>7, <1>8, <1>9, <1>10, <1>11, <1>12, <1>13, <1>14 DEF GroupInv

-----------------------------------------------------------------------------
\* The joints of a primitive without a clump all wait.
LEMMA OpenEnds ==
  ASSUME Typed, RigidIn, NEW p \in Prim, clumpOf[p] = NoPrim
  PROVE  /\ EdgesAt(Rigid, p) \subseteq joined \cap Rigid
         /\ \A r \in joined \cap Rigid :
              r \in EdgesAt(Rigid, p) <=> p = End[r][1] \/ p = End[r][2]
         /\ \A r \in EdgesAt(Rigid, p) : InBuffers(r) /\ \A c \in Prim : r \notin inconsistent[c]
<1>1. /\ EdgesAt(Rigid, p) \subseteq joined \cap Rigid
      /\ \A r \in joined \cap Rigid :
           r \in EdgesAt(Rigid, p) <=> p = End[r][1] \/ p = End[r][2]
  BY Basics DEF EdgesAt, Edge
<1>2. ASSUME NEW r \in EdgesAt(Rigid, p) PROVE InBuffers(r) /\ \A c \in Prim : r \notin inconsistent[c]
  <2>1. /\ r \in joined \cap Rigid /\ RigidAt(r)
        /\ clumpOf[End[r][1]] = NoPrim \/ clumpOf[End[r][2]] = NoPrim
    BY <1>1 DEF RigidIn
  <2> QED
    BY <2>1, Basics DEF RigidAt
<1> QED
  BY <1>1, <1>2

\* The anchored primitive to be processed becomes a clump, or its clump is taken apart.
LEMMA ProcessAnchorStep ==
  ASSUME Inv, Tame, NEW p \in Prim, ProcessAnchor(p)
  PROVE  Inv'
<1>1. /\ Typed /\ GroupInv /\ Tree /\ RigidIn /\ PrimitivesFiled /\ AnchorsLoose
      /\ WorldTyped /\ FilesTyped
  BY TypedParts DEF Inv, GroupInv
<1>2. /\ pc = "anchors" /\ pc' = pc /\ p \in anchors /\ UNCHANGED worldVars
      /\ pc' \in Loops
  BY DEF ProcessAnchor, Loops
<1>3. Phase'
  BY <1>2 DEF Phase
<1>4. CASE /\ clumpOf[p] # NoPrim /\ (p # clumpOf[p] \/ asmOf[clumpOf[p]] # NoPrim)
           /\ Destroy({}, {clumpOf[p]})
  <2>1. PICK Cs : Cs = {clumpOf[p]}
    OBVIOUS
  <2>2. PICK no \in SUBSET Prim : no = {}
    OBVIOUS
  <2>3. /\ DestroyGroups(no, Cs)
        /\ rigidTwos' = Gutted(Cs).twos /\ rigidZeros' = Gutted(Cs).zeros /\ rigidOnes' = Gutted(Cs).ones
        /\ anchors' = Gutted(Cs).anchors /\ primitives' = Gutted(Cs).prims
    BY <1>4, <2>1, <2>2 DEF Destroy, SetBuffers
  <2>4. Cs \in SUBSET Clumps
    BY <1>1, <1>4, <2>1 DEF Tree, Clumps, Typed
  <2> QED
    BY <1>2, <1>3, <2>2, <2>3, <2>4, LoopDestroyStep
<1>5. CASE clumpOf[p] = p /\ asmOf[clumpOf[p]] = NoPrim
  BY <1>1, <1>2, <1>5, Basics DEF AnchorsLoose
<1> DEFINE rs == EdgesAt(Rigid, p)
           two == {r \in rs : clumpOf[Other(r, p)] # NoPrim}
<1>6. CASE /\ clumpOf[p] = NoPrim
           /\ SetBuffers([anchors |-> anchors \ {p},
                          twos |-> RemoveFromBuffers(Buffers, rs).twos \cup two,
                          ones |-> Refile(RemoveFromBuffers(Buffers, rs).ones, {}, rs \ two,
                                          LAMBDA r : Power(p)),
                          zeros |-> RemoveFromBuffers(Buffers, rs).zeros,
                          prims |-> Refile(primitives, {p}, {}, Power)])
           /\ clumpOf' = [clumpOf EXCEPT ![p] = p]
           /\ depth' = [depth EXCEPT ![p] = 0]
           /\ held' = held \cup {p}
           /\ anchoredClumps' = anchoredClumps \cup {p}
           /\ UNCHANGED <<parent, inconsistent, freeClumps, motorVars, asmVars>>
  <2>1. /\ clumpOf' = [clumpOf EXCEPT ![p] = p] /\ depth' = [depth EXCEPT ![p] = 0]
        /\ held' = held \cup {p} /\ anchoredClumps' = anchoredClumps \cup {p}
        /\ parent' = parent /\ inconsistent' = inconsistent /\ freeClumps' = freeClumps
        /\ motors' = motors /\ motorAngles' = motorAngles /\ UNCHANGED asmVars
        /\ present' = present /\ anchored' = anchored /\ joined' = joined
    BY <1>2, <1>6 DEF motorVars, worldVars
  <2>2. /\ anchors' = anchors \ {p} /\ rigidTwos' = (rigidTwos \ rs) \cup two
        /\ DOMAIN (rigidOnes') = (DOMAIN rigidOnes \ rs) \cup (rs \ two)
        /\ rigidZeros' = rigidZeros \ rs /\ DOMAIN (primitives') = DOMAIN primitives \ {p}
    BY <1>6 DEF SetBuffers, RemoveFromBuffers, Buffers, Refile
  <2>3. held \subseteq Clumps
    BY <1>1 DEF PrimitivesFiled
  <2>4. GroupInv' /\ BodyTyped' /\ AsmTyped' /\ Clumps' = Clumps \cup {p}
    BY <1>1, <1>6, <2>1, <2>3, NewRoot
  <2>5. /\ rs \subseteq joined \cap Rigid
        /\ \A r \in joined \cap Rigid : r \in rs <=> p = End[r][1] \/ p = End[r][2]
        /\ \A r \in rs : InBuffers(r) /\ \A c \in Prim : r \notin inconsistent[c]
    BY <1>1, <1>6, OpenEnds
  <2>6. \A q \in Prim : clumpOf'[q] = IF q = p THEN p ELSE clumpOf[q]
    BY <1>1, <2>1 DEF Typed
  <2>7. RigidIn'
    <3> SUFFICES ASSUME NEW r \in Rigid PROVE RigidAt(r)'
      BY DEF RigidIn
    <3> DEFINE e0 == End[r][1]
               e1 == End[r][2]
    <3>1. /\ RigidAt(r) /\ e0 \in Prim /\ e1 \in Prim /\ e0 # e1
          /\ Other(r, e0) = e1 /\ Other(r, e1) = e0 /\ NoPrim \notin Prim
      BY <1>1, Basics DEF RigidIn, Edge
    <3>2. r \in two <=> r \in rs /\ clumpOf[Other(r, p)] # NoPrim
      OBVIOUS
    <3> HIDE DEF rs, two
    <3>3. /\ clumpOf'[e0] = IF e0 = p THEN p ELSE clumpOf[e0]
          /\ clumpOf'[e1] = IF e1 = p THEN p ELSE clumpOf[e1]
      BY <2>6, <3>1
    <3>4. CASE r \in rs
      <4>1. /\ r \in joined' /\ \A c \in Prim : r \notin inconsistent'[c]
            /\ r \in rigidTwos' <=> r \in two
            /\ r \in DOMAIN (rigidOnes') <=> r \notin two
            /\ r \notin rigidZeros'
        BY <2>1, <2>2, <2>5, <3>4
      <4>2. p = e0 \/ p = e1
        BY <2>5, <3>4
      <4>3. r \notin two => clumpOf'[e0] # clumpOf'[e1] /\ NoPrim \in {clumpOf'[e0], clumpOf'[e1]}
        BY <3>1, <3>2, <3>3, <3>4, <4>2
      <4> QED
        BY <4>1, <4>3 DEF RigidAt, InBuffers
    <3>5. CASE r \notin rs
      <4>1. r \notin two
        BY <3>2, <3>5
      <4>2. /\ r \in joined' <=> r \in joined
            /\ r \in rigidTwos' <=> r \in rigidTwos
            /\ r \in rigidZeros' <=> r \in rigidZeros
            /\ r \in DOMAIN (rigidOnes') <=> r \in DOMAIN rigidOnes
        BY <2>1, <2>2, <3>5, <4>1
      <4>3. CASE r \in joined
        <5>1. clumpOf'[e0] = clumpOf[e0] /\ clumpOf'[e1] = clumpOf[e1]
          BY <2>5, <3>3, <3>5, <4>3
        <5>2. \A x : x \in held => x \in held'
          BY <2>1
        <5> QED
          BY <2>1, <3>1, <4>2, <5>1, <5>2 DEF RigidAt, InBuffers
      <4>4. CASE r \notin joined
        BY <2>1, <3>1, <4>2, <4>4 DEF RigidAt, InBuffers
      <4> QED
        BY <4>3, <4>4
    <3> QED
      BY <3>4, <3>5
  <2>8. PrimitivesFiled'
    <3>1. /\ DOMAIN primitives = {q \in present : clumpOf[q] = NoPrim}
          /\ \A q \in Prim \ present : clumpOf[q] = NoPrim
          /\ anchors \subseteq anchored \cap present
          /\ \A q \in Prim : q \in held <=> q \in (anchored \cap present) \ anchors
          /\ held \subseteq Clumps /\ present \subseteq Prim /\ NoPrim \notin Prim
      BY <1>1, Basics DEF PrimitivesFiled, WorldTyped
    <3>2. DOMAIN (primitives') = {q \in present' : clumpOf'[q] = NoPrim}
      <4>1. ASSUME NEW q PROVE q \in DOMAIN (primitives') <=> q \in present' /\ clumpOf'[q] = NoPrim
        BY <2>1, <2>2, <2>6, <3>1
      <4> QED
        BY <4>1
    <3>3. \A q \in Prim \ present' : clumpOf'[q] = NoPrim
      BY <1>2, <2>1, <2>6, <3>1
    <3>4. \A q \in Prim : q \in held' <=> q \in (anchored' \cap present') \ anchors'
      BY <1>2, <2>1, <2>2, <3>1
    <3> QED
      BY <2>1, <2>2, <2>4, <3>1, <3>2, <3>3, <3>4 DEF PrimitivesFiled
  <2>9. AnchorsLoose'
    <3> SUFFICES ASSUME NEW q \in anchors'
                 PROVE  \/ clumpOf'[q] = NoPrim
                        \/ LateAnchors /\ ~(clumpOf'[q] = q /\ asmOf'[q] = NoPrim)
      BY DEF AnchorsLoose
    <3>1. q \in anchors /\ q # p /\ q \in Prim
      BY <1>1, <2>2 DEF FilesTyped
    <3> QED
      BY <1>1, <2>1, <2>6, <3>1 DEF AnchorsLoose, asmVars
  <2>10. WorldTyped' /\ FilesTyped'
    <3>1. WorldTyped'
      BY <1>1, <2>1 DEF WorldTyped, EndsOf
    <3>2. FilesTyped'
      BY <1>1, <2>2, <2>5 DEF FilesTyped
    <3> QED
      BY <3>1, <3>2
  <2>11. Typed'
    BY <1>1, <1>2, <2>1, <2>4, <2>10, TypedParts DEF Typed
  <2> QED
    BY <1>3, <2>4, <2>7, <2>8, <2>9, <2>11 DEF Inv
<1> QED
  BY <1>4, <1>5, <1>6 DEF ProcessAnchor

\* The primitive to be processed becomes a free clump, and the joints that waited for it are
\* filed with one.
LEMMA ProcessPrimitiveStep ==
  ASSUME Inv, NEW p \in Prim, ProcessPrimitive(p)
  PROVE  Inv'
<1> DEFINE rs == EdgesAt(Rigid, p)
<1>1. /\ Typed /\ GroupInv /\ Tree /\ RigidIn /\ PrimitivesFiled /\ AnchorsLoose /\ Phase
      /\ WorldTyped /\ FilesTyped
  BY TypedParts DEF Inv, GroupInv
<1>2. /\ pc = "primitives" /\ p \in DOMAIN primitives
      /\ pc' = IF rs = {} THEN pc ELSE "anchors"
      /\ clumpOf' = [clumpOf EXCEPT ![p] = p] /\ depth' = [depth EXCEPT ![p] = 0]
      /\ freeClumps' = freeClumps \cup {p} /\ anchoredClumps' = anchoredClumps
      /\ parent' = parent /\ held' = held /\ inconsistent' = inconsistent
      /\ motors' = motors /\ motorAngles' = motorAngles /\ UNCHANGED asmVars
      /\ present' = present /\ anchored' = anchored /\ joined' = joined
  BY DEF ProcessPrimitive, Smallest, motorVars, worldVars
<1>3. /\ anchors' = anchors /\ rigidTwos' = rigidTwos
      /\ DOMAIN (rigidOnes') = DOMAIN rigidOnes \cup rs
      /\ rigidZeros' = rigidZeros \ rs /\ DOMAIN (primitives') = DOMAIN primitives \ {p}
  BY DEF ProcessPrimitive, SetBuffers, Refile
<1>4. /\ anchors = {} /\ rigidTwos = {} /\ DOMAIN rigidOnes = {}
  BY <1>1, <1>2 DEF Phase
<1>5. /\ clumpOf[p] = NoPrim /\ p \in present /\ held \subseteq Clumps
  BY <1>1, <1>2 DEF PrimitivesFiled
<1>6. GroupInv' /\ BodyTyped' /\ AsmTyped' /\ Clumps' = Clumps \cup {p}
  BY <1>1, <1>2, <1>5, NewRoot
<1>7. /\ rs \subseteq joined \cap Rigid
      /\ \A r \in joined \cap Rigid : r \in rs <=> p = End[r][1] \/ p = End[r][2]
      /\ \A r \in rs : InBuffers(r) /\ \A c \in Prim : r \notin inconsistent[c]
  BY <1>1, <1>5, OpenEnds
<1>8. \A q \in Prim : clumpOf'[q] = IF q = p THEN p ELSE clumpOf[q]
  BY <1>1, <1>2 DEF Typed
<1> HIDE DEF rs
<1>9. RigidIn'
  <2> SUFFICES ASSUME NEW r \in Rigid PROVE RigidAt(r)'
    BY DEF RigidIn
  <2> DEFINE e0 == End[r][1]
             e1 == End[r][2]
  <2>1. RigidAt(r) /\ e0 \in Prim /\ e1 \in Prim /\ e0 # e1 /\ NoPrim \notin Prim
    BY <1>1, Basics DEF RigidIn, Edge
  <2>2. /\ clumpOf'[e0] = IF e0 = p THEN p ELSE clumpOf[e0]
        /\ clumpOf'[e1] = IF e1 = p THEN p ELSE clumpOf[e1]
    BY <1>8, <2>1
  <2>3. CASE r \in rs
    <3>1. /\ r \in joined' /\ \A c \in Prim : r \notin inconsistent'[c]
          /\ r \notin rigidTwos' /\ r \in DOMAIN (rigidOnes') /\ r \notin rigidZeros'
      BY <1>2, <1>3, <1>4, <1>7, <2>3
    <3>2. clumpOf[e0] = NoPrim /\ clumpOf[e1] = NoPrim
      BY <1>4, <1>7, <2>1, <2>3 DEF InBuffers, RigidAt
    <3>3. p = e0 \/ p = e1
      BY <1>7, <2>3
    <3>4. clumpOf'[e0] # clumpOf'[e1] /\ NoPrim \in {clumpOf'[e0], clumpOf'[e1]}
      BY <2>1, <2>2, <3>2, <3>3
    <3> QED
      BY <3>1, <3>4 DEF RigidAt, InBuffers
  <2>4. CASE r \notin rs
    <3>1. /\ r \in joined' <=> r \in joined
          /\ r \in rigidTwos' <=> r \in rigidTwos
          /\ r \in rigidZeros' <=> r \in rigidZeros
          /\ r \in DOMAIN (rigidOnes') <=> r \in DOMAIN rigidOnes
      BY <1>2, <1>3, <2>4
    <3>2. CASE r \in joined
      <4>1. clumpOf'[e0] = clumpOf[e0] /\ clumpOf'[e1] = clumpOf[e1]
        BY <1>7, <2>2, <2>4, <3>2
      <4> QED
        BY <1>2, <2>1, <3>1, <4>1 DEF RigidAt, InBuffers
    <3>3. CASE r \notin joined
      BY <1>2, <2>1, <3>1, <3>3 DEF RigidAt, InBuffers
    <3> QED
      BY <3>2, <3>3
  <2> QED
    BY <2>3, <2>4
<1>10. PrimitivesFiled'
  <2>1. /\ DOMAIN primitives = {q \in present : clumpOf[q] = NoPrim}
        /\ \A q \in Prim \ present : clumpOf[q] = NoPrim
        /\ anchors \subseteq anchored \cap present
        /\ \A q \in Prim : q \in held <=> q \in (anchored \cap present) \ anchors
        /\ held \subseteq Clumps /\ present \subseteq Prim /\ NoPrim \notin Prim
    BY <1>1, Basics DEF PrimitivesFiled, WorldTyped
  <2>2. DOMAIN (primitives') = {q \in present' : clumpOf'[q] = NoPrim}
    <3>1. ASSUME NEW q PROVE q \in DOMAIN (primitives') <=> q \in present' /\ clumpOf'[q] = NoPrim
      BY <1>2, <1>3, <1>8, <2>1
    <3> QED
      BY <3>1
  <2>3. \A q \in Prim \ present' : clumpOf'[q] = NoPrim
    BY <1>2, <1>5, <1>8, <2>1
  <2> QED
    BY <1>2, <1>3, <1>6, <2>1, <2>2, <2>3 DEF PrimitivesFiled
<1>11. AnchorsLoose'
  BY <1>3, <1>4 DEF AnchorsLoose
<1>12. Phase'
  <2>1. rs = {} => DOMAIN (rigidOnes') = {}
    BY <1>3, <1>4
  <2> QED
    BY <1>2, <1>3, <1>4, <2>1 DEF Phase
<1>13. WorldTyped' /\ FilesTyped' /\ motorAngles' \subseteq Motor /\ pc' \in Loops
  <2>1. WorldTyped'
    BY <1>1, <1>2 DEF WorldTyped, EndsOf
  <2>2. FilesTyped'
    BY <1>1, <1>3, <1>7 DEF FilesTyped
  <2>3. motorAngles' \subseteq Motor /\ pc' \in Loops
    BY <1>1, <1>2 DEF Typed, Loops
  <2> QED
    BY <2>1, <2>2, <2>3
<1>14. Typed'
  BY <1>6, <1>13, TypedParts
<1> QED
  BY <1>6, <1>9, <1>10, <1>11, <1>12, <1>14 DEF Inv

-----------------------------------------------------------------------------
\* A joint is moved to another place that suits it.
LEMMA RigidMoved ==
  ASSUME RigidIn, NEW r, clumpOf' = clumpOf, held' = held, joined' = joined,
         \A s \in Rigid \ {r} : /\ s \in rigidTwos' <=> s \in rigidTwos
                                /\ s \in rigidZeros' <=> s \in rigidZeros
                                /\ s \in DOMAIN (rigidOnes') <=> s \in DOMAIN rigidOnes
                                /\ \A c \in Prim : s \in inconsistent'[c] <=> s \in inconsistent[c],
         RigidAt(r)', Typed
  PROVE  RigidIn'
<1> SUFFICES ASSUME NEW s \in Rigid, s # r PROVE RigidAt(s)'
  BY DEF RigidIn
<1>1. RigidAt(s)
  BY DEF RigidIn
<1>2. /\ s \in rigidTwos' <=> s \in rigidTwos
      /\ s \in rigidZeros' <=> s \in rigidZeros
      /\ s \in DOMAIN (rigidOnes') <=> s \in DOMAIN rigidOnes
      /\ \A c \in Prim : s \in inconsistent'[c] <=> s \in inconsistent[c]
  OBVIOUS
<1>3. held \subseteq Prim
  BY DEF Typed
<1> QED
  BY <1>1, <1>2, <1>3 DEF RigidAt, InBuffers

\* A loop of process takes apart the assemblies of some clumps, and files joints anew.
LEMMA LoopReleaseStep ==
  ASSUME Inv, NEW As \in SUBSET Prim, DestroyAssemblies(As), parent' = ParentAfter(As, {}),
         clumpOf' = clumpOf, depth' = depth, held' = held,
         inconsistent' \in [Prim -> SUBSET Rigid], anchors' = anchors, primitives' = primitives,
         anchors = {} \/ ~LateAnchors, rigidTwos' \subseteq Rigid, rigidZeros' \subseteq Rigid,
         DOMAIN (rigidOnes') \subseteq Rigid, RigidIn', pc' \in Loops, Phase', UNCHANGED worldVars
  PROVE  Inv'
<1>1. Typed /\ MotorsIn /\ motors \in Seq(Motor) /\ Once(motors)
  BY DEF Inv, GroupInv, MotorsIn, Typed, AsmTyped
<1>2. /\ ReleaseAssemblies(As, {}) /\ ReleaseMotors(motors, As) /\ FileClumps(As, {})
  BY DEF DestroyAssemblies
<1>3. PICK s \in Released(As) : motors' = motors \o s
  BY <1>2 DEF ReleaseMotors
<1>4. motorAngles' = AnglesToo(As)
  BY <1>2 DEF ReleaseMotors
<1>5. /\ motors' \in Seq(Motor) /\ Once(motors')
      /\ ToSet(motors') = ToSet(motors) \cup MotorsOf(As)
      /\ motorAngles' \subseteq Motor
  BY <1>1, <1>3, <1>4, MotorsReleased
<1>6. PICK gone \in SUBSET Motor : gone = {}
  OBVIOUS
<1>7. /\ joined' = joined \ gone /\ gone \subseteq ToSet(motors) \cup MotorsOf(As)
      /\ ToSet(motors') = (ToSet(motors) \cup MotorsOf(As)) \ gone
      /\ present' = present /\ anchored' = anchored
  BY <1>5, <1>6 DEF worldVars
<1> QED
  BY <1>2, <1>5, <1>7, ReleaseStep

\* The clumps of the ends of a joint, none, one or two.
LEMMA EndsTwo ==
  ASSUME Typed, Tree, NEW r \in Rigid
  PROVE  LET c0 == clumpOf[End[r][1]]
             c1 == clumpOf[End[r][2]]
         IN  /\ c0 \in Clumps \cup {NoPrim} /\ c1 \in Clumps \cup {NoPrim}
             /\ ClumpsOf(r) = {c0, c1} \ {NoPrim} /\ ClumpsOf(r) \in SUBSET Clumps
             /\ ClumpsOf(r) = {} => c0 = NoPrim /\ c1 = NoPrim
             /\ Cardinality(ClumpsOf(r)) = 2 => /\ c0 # c1 /\ c0 \in Clumps /\ c1 \in Clumps
                                                /\ ClumpsOf(r) = {c0, c1}
<1> DEFINE x == clumpOf[End[r][1]]
           y == clumpOf[End[r][2]]
<1>1. x \in Clumps \cup {NoPrim} /\ y \in Clumps \cup {NoPrim}
  <2>1. End[r][1] \in Prim /\ End[r][2] \in Prim
    BY Basics DEF Edge
  <2>2. \A p \in Prim : clumpOf[p] \in Clumps \cup {NoPrim}
    BY DEF Typed, Tree, Clumps
  <2> QED
    BY <2>1, <2>2
<1>2. ClumpsOf(r) = {x, y} \ {NoPrim} /\ NoPrim \notin Clumps
  BY EndClumps, Basics DEF Edge, Clumps
<1> HIDE DEF x, y
<1>3. /\ Cardinality({x}) = 1 /\ Cardinality({y}) = 1 /\ Cardinality({}) = 0
      /\ x = y => Cardinality({x, y}) = 1
  BY CardPair, FS_Singleton, FS_EmptySet
<1>4. ASSUME Cardinality(ClumpsOf(r)) = 2
      PROVE  x # y /\ x \in Clumps /\ y \in Clumps /\ ClumpsOf(r) = {x, y}
  <2>1. x # NoPrim /\ y # NoPrim
    <3>1. CASE x = NoPrim /\ y = NoPrim
      <4>1. ClumpsOf(r) = {}
        BY <1>2, <3>1
      <4> QED
        BY <1>3, <1>4, <4>1
    <3>2. CASE x = NoPrim /\ y # NoPrim
      <4>1. ClumpsOf(r) = {y}
        BY <1>2, <3>2
      <4> QED
        BY <1>3, <1>4, <4>1
    <3>3. CASE x # NoPrim /\ y = NoPrim
      <4>1. ClumpsOf(r) = {x}
        BY <1>2, <3>3
      <4> QED
        BY <1>3, <1>4, <4>1
    <3> QED
      BY <3>1, <3>2, <3>3
  <2>2. ClumpsOf(r) = {x, y}
    BY <1>2, <2>1
  <2> QED
    BY <1>1, <1>3, <1>4, <2>1, <2>2
<1> QED
  BY <1>1, <1>2, <1>4 DEF x, y

\* A joint whose ends may both have a clump is filed, or clumps are taken apart for it.
LEMMA ProcessRigidTwoStep ==
  ASSUME Inv, Tame, NEW r \in Rigid, ProcessRigidTwo(r)
  PROVE  Inv'
<1> DEFINE e0 == End[r][1]
           e1 == End[r][2]
           c0 == clumpOf[e0]
           c1 == clumpOf[e1]
           weaker == IF Less(Power(c0), Power(c1)) THEN c0 ELSE c1
<1>1. /\ Typed /\ GroupInv /\ Tree /\ RigidIn /\ PrimitivesFiled /\ Phase /\ FilesTyped /\ BodyTyped
      /\ WorldTyped /\ AsmTyped
  BY TypedParts DEF Inv, GroupInv
<1>2. /\ pc = "twos" /\ r \in rigidTwos /\ UNCHANGED worldVars
      /\ present' = present /\ anchored' = anchored /\ joined' = joined
  BY DEF ProcessRigidTwo, worldVars
<1>3. anchors = {}
  BY <1>1, <1>2 DEF Phase
<1>4. PICK Cs : Cs = ClumpsOf(r)
  OBVIOUS
<1>5. /\ c0 \in Clumps \cup {NoPrim} /\ c1 \in Clumps \cup {NoPrim} /\ Cs = {c0, c1} \ {NoPrim}
      /\ Cs \in SUBSET Clumps
      /\ Cs = {} => c0 = NoPrim /\ c1 = NoPrim
      /\ Cardinality(Cs) = 2 => /\ c0 # c1 /\ c0 \in Clumps /\ c1 \in Clumps
                                /\ Cs = {c0, c1}
  BY <1>1, <1>4, EndsTwo
<1>6. PICK As : As = AssembliesOf(Cs)
  OBVIOUS
<1>7. As \in SUBSET Prim
  BY <1>1, <1>5, <1>6 DEF AssembliesOf, AsmTyped, Clumps
<1>8. /\ r \in joined /\ r \notin DOMAIN rigidOnes /\ r \notin rigidZeros
      /\ \A c \in Prim : r \notin inconsistent[c]
  BY <1>1, <1>2 DEF RigidIn, RigidAt, InBuffers
<1>9. Clumps \subseteq Prim /\ NoPrim \notin Prim
  BY Basics DEF Clumps
<1> HIDE DEF c0, c1, weaker
<1>10. CASE /\ Cs = {}
            /\ rigidZeros' = rigidZeros \cup {r}
            /\ rigidTwos' = rigidTwos \ {r} /\ pc' = pc
            /\ UNCHANGED <<anchors, rigidOnes, primitives, clumpVars, fileVars, motorVars, asmVars>>
  <2>1. /\ clumpOf' = clumpOf /\ held' = held /\ parent' = parent /\ depth' = depth
        /\ inconsistent' = inconsistent /\ motors' = motors /\ motorAngles' = motorAngles
    BY <1>10 DEF clumpVars, motorVars
  <2>2. RigidAt(r)'
    <3>1. /\ r \notin rigidTwos' /\ r \notin DOMAIN (rigidOnes') /\ r \in rigidZeros'
      BY <1>8, <1>10
    <3>2. clumpOf'[e0] = NoPrim /\ clumpOf'[e1] = NoPrim
      BY <1>5, <1>10, <2>1 DEF c0, c1
    <3> QED
      BY <1>2, <1>8, <2>1, <3>1, <3>2 DEF RigidAt, InBuffers
  <2>3. RigidIn'
    <3>1. \A s \in Rigid \ {r} : /\ s \in rigidTwos' <=> s \in rigidTwos
                                 /\ s \in rigidZeros' <=> s \in rigidZeros
                                 /\ s \in DOMAIN (rigidOnes') <=> s \in DOMAIN rigidOnes
                                 /\ \A c \in Prim : s \in inconsistent'[c] <=> s \in inconsistent[c]
      BY <1>10, <2>1
    <3> QED
      BY <1>1, <1>2, <2>1, <2>2, <3>1, RigidMoved
  <2>4. GroupInv' /\ AsmTyped'
    BY <1>1, <1>2, <1>10, <2>1, GroupsSame, AsmTypedSame
  <2>5. Typed'
    <3>1. WorldTyped' /\ FilesTyped' /\ BodyTyped'
      BY <1>1, <1>2, <1>10, <2>1 DEF WorldTyped, FilesTyped, BodyTyped, EndsOf
    <3>2. motorAngles' \subseteq Motor /\ pc' \in Loops
      BY <1>1, <1>10, <2>1 DEF Typed, Loops
    <3> QED
      BY <2>4, <3>1, <3>2, TypedParts
  <2>6. PrimitivesFiled' /\ AnchorsLoose' /\ Phase'
    BY <1>1, <1>2, <1>3, <1>10, <2>1 DEF PrimitivesFiled, AnchorsLoose, Phase, Clumps
  <2> QED
    BY <2>3, <2>4, <2>5, <2>6 DEF Inv
<1>11. ASSUME DestroyAssemblies(As), parent' = ParentAfter(As, {}),
              rigidTwos' = rigidTwos \ {r}, pc' = pc, anchors' = anchors, primitives' = primitives,
              clumpOf' = clumpOf, depth' = depth, held' = held,
              inconsistent' \in [Prim -> SUBSET Rigid], rigidZeros' = rigidZeros,
              DOMAIN (rigidOnes') \subseteq DOMAIN rigidOnes \cup {r},
              DOMAIN rigidOnes \subseteq DOMAIN (rigidOnes'),
              \A s \in Rigid \ {r} : \A c \in Prim : s \in inconsistent'[c] <=> s \in inconsistent[c],
              RigidAt(r)'
       PROVE  Inv'
  <2>1. \A s \in Rigid \ {r} : /\ s \in rigidTwos' <=> s \in rigidTwos
                               /\ s \in rigidZeros' <=> s \in rigidZeros
                               /\ s \in DOMAIN (rigidOnes') <=> s \in DOMAIN rigidOnes
                               /\ \A c \in Prim : s \in inconsistent'[c] <=> s \in inconsistent[c]
    BY <1>11
  <2>2. RigidIn'
    BY <1>1, <1>2, <1>11, <2>1, RigidMoved
  <2>3. rigidTwos' \subseteq Rigid /\ rigidZeros' \subseteq Rigid /\ DOMAIN (rigidOnes') \subseteq Rigid
    BY <1>1, <1>11 DEF FilesTyped
  <2>4. Phase' /\ pc' \in Loops
    BY <1>2, <1>3, <1>11 DEF Phase, Loops
  <2> QED
    BY <1>2, <1>3, <1>7, <1>11, <2>2, <2>3, <2>4, LoopReleaseStep
<1>12. CASE /\ c0 # c1 /\ NoPrim \in {c0, c1}
            /\ DestroyAssemblies(As) /\ parent' = ParentAfter(As, {})
            /\ rigidOnes' = Refile(rigidOnes, {}, {r}, LAMBDA q : Power(CHOOSE c \in Cs : TRUE))
            /\ rigidTwos' = rigidTwos \ {r} /\ pc' = pc
            /\ UNCHANGED <<anchors, rigidZeros, primitives, clumpOf, depth, held, inconsistent>>
  <2>1. DOMAIN (rigidOnes') = DOMAIN rigidOnes \cup {r}
    BY <1>12 DEF Refile
  <2>2. RigidAt(r)'
    <3>1. /\ r \notin rigidTwos' /\ r \in DOMAIN (rigidOnes') /\ r \notin rigidZeros'
      BY <1>8, <1>12, <2>1
    <3>2. clumpOf'[e0] # clumpOf'[e1] /\ NoPrim \in {clumpOf'[e0], clumpOf'[e1]}
      BY <1>12 DEF c0, c1
    <3> QED
      BY <1>2, <1>8, <1>12, <3>1, <3>2 DEF RigidAt, InBuffers
  <2> QED
    BY <1>1, <1>11, <1>12, <2>1, <2>2 DEF BodyTyped
<1>13. CASE /\ c0 = c1 /\ c0 # NoPrim
            /\ DestroyAssemblies(As) /\ parent' = ParentAfter(As, {})
            /\ rigidTwos' = rigidTwos \ {r} /\ pc' = pc
            /\ UNCHANGED <<anchors, rigidOnes, rigidZeros, primitives, clumpOf, depth, held,
                           inconsistent>>
  <2>1. RigidAt(r)'
    <3>1. /\ r \notin rigidTwos' /\ r \notin DOMAIN (rigidOnes') /\ r \notin rigidZeros'
      BY <1>8, <1>13
    <3>2. clumpOf'[e0] = clumpOf'[e1] /\ clumpOf'[e0] \in Prim
      BY <1>5, <1>9, <1>13 DEF c0, c1
    <3> QED
      BY <1>2, <1>8, <1>13, <3>1, <3>2 DEF RigidAt, InBuffers
  <2> QED
    BY <1>1, <1>11, <1>13, <2>1 DEF BodyTyped
<1>14. CASE /\ Cardinality(Cs) = 2 /\ Cs \subseteq held
            /\ DestroyAssemblies(As) /\ parent' = ParentAfter(As, {})
            /\ rigidTwos' = rigidTwos \ {r} /\ pc' = pc
            /\ inconsistent' = [c \in Prim |-> IF c \in Cs THEN inconsistent[c] \cup {r}
                                               ELSE inconsistent[c]]
            /\ UNCHANGED <<anchors, rigidOnes, rigidZeros, primitives, clumpOf, depth, held>>
  <2>1. /\ \A c \in Prim : r \in inconsistent'[c] <=> c \in Cs
        /\ \A s \in Rigid \ {r} : \A c \in Prim : s \in inconsistent'[c] <=> s \in inconsistent[c]
        /\ inconsistent' \in [Prim -> SUBSET Rigid]
    BY <1>1, <1>8, <1>14 DEF BodyTyped
  <2>2. RigidAt(r)'
    <3>1. /\ r \notin rigidTwos' /\ r \notin DOMAIN (rigidOnes') /\ r \notin rigidZeros'
      BY <1>8, <1>14
    <3>2. /\ clumpOf'[e0] = c0 /\ clumpOf'[e1] = c1 /\ c0 # c1 /\ c0 \in held' /\ c1 \in held'
          /\ c0 \in Prim /\ c1 \in Prim /\ Cs = {c0, c1}
      BY <1>5, <1>9, <1>14 DEF c0, c1
    <3> QED
      BY <1>2, <1>8, <1>14, <2>1, <3>1, <3>2 DEF RigidAt, InBuffers
  <2> QED
    BY <1>11, <1>14, <2>1, <2>2
<1>15. ASSUME NEW Ds \in SUBSET Clumps, Destroy(As, Ds), pc' \in Loops,
              pc' = "anchors" \/ (pc' = "twos" /\ Ds \cap held = {})
       PROVE  Inv'
  <2>1. /\ DestroyGroups(As, Ds)
        /\ rigidTwos' = Gutted(Ds).twos /\ rigidZeros' = Gutted(Ds).zeros /\ rigidOnes' = Gutted(Ds).ones
        /\ anchors' = Gutted(Ds).anchors /\ primitives' = Gutted(Ds).prims
    BY <1>15 DEF Destroy, SetBuffers
  <2>2. anchors' = anchors \cup (held \cap Ds)
    BY <2>1 DEF Gutted
  <2>3. Phase'
    BY <1>3, <1>15, <2>2 DEF Phase
  <2> QED
    BY <1>2, <1>3, <1>7, <1>15, <2>1, <2>3, LoopDestroyStep
<1>16. CASE /\ Cardinality(Cs) = 2 /\ Cs \subseteq held
            /\ Destroy(As, {weaker}) /\ pc' = "anchors"
  <2>1. {weaker} \in SUBSET Clumps
    BY <1>5, <1>16 DEF weaker
  <2> QED
    BY <1>15, <1>16, <2>1 DEF Loops
<1>17. CASE /\ Cardinality(Cs) = 2 /\ Cs \cap held = {}
            /\ Destroy(As, {weaker}) /\ pc' = pc
  <2>1. {weaker} \in SUBSET Clumps /\ {weaker} \cap held = {}
    BY <1>5, <1>17 DEF weaker
  <2> QED
    BY <1>2, <1>15, <1>17, <2>1 DEF Loops
<1>18. CASE Destroy(As, Cs \ held) /\ pc' = pc
  <2>1. Cs \ held \in SUBSET Clumps /\ (Cs \ held) \cap held = {}
    BY <1>5
  <2> QED
    BY <1>2, <1>15, <1>18, <2>1 DEF Loops
<1> QED
  <2> USE DEF c0, c1, weaker
  <2>1. \/ /\ Cs = {}
           /\ rigidZeros' = rigidZeros \cup {r}
           /\ rigidTwos' = rigidTwos \ {r} /\ pc' = pc
           /\ UNCHANGED <<anchors, rigidOnes, primitives, clumpVars, fileVars, motorVars, asmVars>>
        \/ /\ c0 # c1 /\ NoPrim \in {c0, c1}
           /\ DestroyAssemblies(As) /\ parent' = ParentAfter(As, {})
           /\ rigidOnes' = Refile(rigidOnes, {}, {r}, LAMBDA q : Power(CHOOSE c \in Cs : TRUE))
           /\ rigidTwos' = rigidTwos \ {r} /\ pc' = pc
           /\ UNCHANGED <<anchors, rigidZeros, primitives, clumpOf, depth, held, inconsistent>>
        \/ /\ c0 = c1 /\ c0 # NoPrim
           /\ DestroyAssemblies(As) /\ parent' = ParentAfter(As, {})
           /\ rigidTwos' = rigidTwos \ {r} /\ pc' = pc
           /\ UNCHANGED <<anchors, rigidOnes, rigidZeros, primitives, clumpOf, depth, held,
                          inconsistent>>
        \/ /\ Cardinality(Cs) = 2 /\ Cs \subseteq held
           /\ Destroy(As, {weaker}) /\ pc' = "anchors"
        \/ /\ Cardinality(Cs) = 2 /\ Cs \subseteq held
           /\ DestroyAssemblies(As) /\ parent' = ParentAfter(As, {})
           /\ rigidTwos' = rigidTwos \ {r} /\ pc' = pc
           /\ inconsistent' = [c \in Prim |-> IF c \in Cs THEN inconsistent[c] \cup {r}
                                              ELSE inconsistent[c]]
           /\ UNCHANGED <<anchors, rigidOnes, rigidZeros, primitives, clumpOf, depth, held>>
        \/ /\ Cardinality(Cs) = 2 /\ Cs \cap held = {}
           /\ Destroy(As, {weaker}) /\ pc' = pc
        \/ Destroy(As, Cs \ held) /\ pc' = pc
    BY <1>4, <1>6 DEF ProcessRigidTwo
  <2> HIDE DEF c0, c1, weaker
  <2> QED
    BY <1>10, <1>12, <1>13, <1>14, <1>16, <1>17, <1>18, <2>1

-----------------------------------------------------------------------------
\* The end of a joint with one clump that has none, and its neighbour.
LEMMA EndsOne ==
  ASSUME Typed, Tree, RigidIn, PrimitivesFiled, NEW r \in DOMAIN rigidOnes,
         NEW c, c = CHOOSE d \in ClumpsOf(r) : TRUE,
         NEW p, p = CHOOSE q \in EndsOf(r) : clumpOf[q] # c
  PROVE  /\ r \in joined \cap Rigid /\ p \in Prim /\ Other(r, p) \in Prim /\ Other(r, p) # p
         /\ EndsOf(r) = {p, Other(r, p)} /\ clumpOf[p] = NoPrim /\ clumpOf[Other(r, p)] = c
         /\ c \in Clumps /\ c # p /\ p \in DOMAIN primitives
<1> DEFINE e0 == End[r][1]
           e1 == End[r][2]
<1>1. /\ r \in Rigid /\ r \in joined /\ clumpOf[e0] # clumpOf[e1] /\ NoPrim \in {clumpOf[e0], clumpOf[e1]}
  BY DEF Typed, RigidIn, RigidAt, InBuffers
<1>2. /\ e0 \in Prim /\ e1 \in Prim /\ e0 # e1 /\ EndsOf(r) = {e0, e1} /\ NoPrim \notin Prim
      /\ Other(r, e0) = e1 /\ Other(r, e1) = e0
  BY <1>1, Basics DEF Edge
<1>3. ClumpsOf(r) = {clumpOf[e0], clumpOf[e1]} \ {NoPrim}
  BY <1>1, EndClumps DEF Edge
<1>4. \A q \in Prim : clumpOf[q] # NoPrim => clumpOf[q] \in Clumps
  BY DEF Typed, Tree, Clumps
<1> HIDE DEF e0, e1
<1>5. c \in ClumpsOf(r)
  <2>1. ClumpsOf(r) # {}
    BY <1>1, <1>3
  <2> QED
    BY <2>1
<1>6. \/ clumpOf[e0] = NoPrim /\ clumpOf[e1] = c
      \/ clumpOf[e1] = NoPrim /\ clumpOf[e0] = c
  BY <1>1, <1>3, <1>5
<1>7. c # NoPrim
  BY <1>3, <1>5
<1>8. p \in EndsOf(r) /\ clumpOf[p] # c
  <2>1. \E q \in EndsOf(r) : clumpOf[q] # c
    BY <1>2, <1>6, <1>7
  <2> QED
    BY <2>1
<1>9. p \in present
  BY <1>1, <1>8 DEF Typed
<1>10. clumpOf[p] = NoPrim /\ clumpOf[Other(r, p)] = c
  BY <1>2, <1>6, <1>8
<1>11. c \in Clumps /\ c # p
  BY <1>2, <1>4, <1>7, <1>8, <1>10 DEF Clumps
<1> QED
  BY <1>1, <1>2, <1>8, <1>9, <1>10, <1>11 DEF PrimitivesFiled

\* What a primitive's joints become, and how it is linked, when it joins a clump.
OpenAt(p) == {k \in EdgesAt(Rigid, p) : clumpOf[Other(k, p)] = NoPrim}
ConflictsAt(p, c) == {k \in EdgesAt(Rigid, p) : clumpOf[Other(k, p)] \notin {NoPrim, c}}
JoinUp(p, base, c, As) ==
  /\ DestroyAssemblies(As)
  /\ clumpOf' = [clumpOf EXCEPT ![p] = c]
  /\ depth' = [depth EXCEPT ![p] = depth[base] + 1]
  /\ parent' = [ParentAfter(As, {}) EXCEPT ![p] = base]
  /\ held' = held /\ inconsistent' = inconsistent

\* The primitive joins its neighbour's clump, which leaves its assembly.
LEMMA JoinStep ==
  ASSUME Inv, NEW r \in joined \cap Rigid, NEW p \in Prim, NEW base \in Prim, base # p,
         EndsOf(r) = {p, base}, NEW c \in Clumps, clumpOf[p] = NoPrim, clumpOf[base] = c, c # p,
         pc = "ones", p \in DOMAIN primitives, NEW As, As = AssembliesOf({c}),
         JoinUp(p, base, c, As), UNCHANGED worldVars, anchors' = anchors,
         NEW open, open = OpenAt(p), NEW conflicts, conflicts = ConflictsAt(p, c),
         rigidTwos' = rigidTwos \cup conflicts, rigidZeros' = rigidZeros \ open,
         DOMAIN (rigidOnes') = (DOMAIN rigidOnes \ EdgesAt(Rigid, p)) \cup open,
         DOMAIN (primitives') = DOMAIN primitives \ {p}, pc' = After(conflicts)
  PROVE  Inv'
<1>0. /\ DestroyAssemblies(As)
      /\ clumpOf' = [clumpOf EXCEPT ![p] = c]
      /\ depth' = [depth EXCEPT ![p] = depth[base] + 1]
      /\ parent' = [ParentAfter(As, {}) EXCEPT ![p] = base]
      /\ held' = held /\ inconsistent' = inconsistent
  BY DEF JoinUp
<1>1. /\ Typed /\ Tree /\ ClumpsFiled /\ MotorsIn /\ EdgesIn /\ Hung /\ Alone /\ RigidIn
      /\ PrimitivesFiled /\ Phase /\ BodyTyped /\ AsmTyped /\ WorldTyped /\ FilesTyped
      /\ NoPrim \notin Prim
  BY TypedParts, Basics DEF Inv, GroupInv
<1>2. anchors = {} /\ rigidTwos = {}
  BY <1>1 DEF Phase
<1>3. /\ present' = present /\ anchored' = anchored /\ joined' = joined
  BY DEF worldVars
<1>4. c \in Prim /\ clumpOf[c] = c /\ c # NoPrim
  BY <1>1 DEF Clumps
<1>5. As \in SUBSET Prim /\ asmOf[c] \in As \cup {NoPrim} /\ NoPrim \notin As
  BY <1>1, <1>4 DEF AssembliesOf, AsmTyped
<1>6. \A q \in Prim : clumpOf'[q] = IF q = p THEN c ELSE clumpOf[q]
  BY <1>0, <1>1 DEF BodyTyped
<1>7. \A q \in Prim : depth'[q] = IF q = p THEN depth[base] + 1 ELSE depth[q]
  BY <1>0, <1>1 DEF BodyTyped
<1>8. \A q \in Prim : parent'[q] = IF q = p THEN base
                                   ELSE IF asmOf[q] \in As THEN NoPrim ELSE parent[q]
  BY <1>0, <1>1 DEF ParentAfter
<1>9. /\ ReleaseAssemblies(As, {}) /\ ReleaseMotors(motors, As) /\ FileClumps(As, {})
  BY <1>0 DEF DestroyAssemblies
<1>10. \A q \in Prim : asmOf'[q] = IF asmOf[q] \in As THEN NoPrim ELSE asmOf[q]
  BY <1>9 DEF ReleaseAssemblies
<1>11. /\ motors' \in Seq(Motor) /\ Once(motors')
       /\ ToSet(motors') = ToSet(motors) \cup MotorsOf(As)
       /\ motorAngles' \subseteq Motor
  <2>1. PICK s \in Released(As) : motors' = motors \o s
    BY <1>9 DEF ReleaseMotors
  <2>2. motorAngles' = AnglesToo(As)
    BY <1>9 DEF ReleaseMotors
  <2>3. motors \in Seq(Motor) /\ Once(motors)
    BY <1>1 DEF AsmTyped, MotorsIn
  <2> QED
    BY <1>1, <1>5, <2>1, <2>2, <2>3, MotorsReleased
<1>12. PICK no : no = {}
  OBVIOUS
<1>13. Leave(As, no, no)
  <2>1. clumpOf' \in [Prim -> Prim \cup {NoPrim}]
    BY <1>0, <1>1, <1>4 DEF BodyTyped
  <2>2. \A d \in Prim : clumpOf'[d] = d <=> clumpOf[d] = d /\ d \notin no
    BY <1>1, <1>6, <1>12
  <2>3. ASSUME NEW q \in Prim
        PROVE  /\ AsmOfPrim(q)' = IF q \in no \/ AsmOfPrim(q) \in As THEN NoPrim ELSE AsmOfPrim(q)
               /\ AsmOfPrim(q)' # NoPrim => clumpOf'[q] = clumpOf[q]
    <3>1. CASE q = p
      <4>1. AsmOfPrim(q) = NoPrim
        BY <3>1 DEF AsmOfPrim
      <4>2. AsmOfPrim(q)' = NoPrim
        BY <1>4, <1>5, <1>6, <1>10, <3>1 DEF AsmOfPrim
      <4> QED
        BY <4>1, <4>2
    <3>2. CASE q # p
      <4>1. clumpOf'[q] = clumpOf[q] /\ clumpOf[q] \in Prim \cup {NoPrim}
        BY <1>1, <1>6, <3>2 DEF BodyTyped
      <4> QED
        BY <1>5, <1>10, <1>12, <4>1 DEF AsmOfPrim
    <3> QED
      BY <3>1, <3>2
  <2>4. \A d \in Clumps \ no : parent'[d] = IF asmOf[d] \in As THEN NoPrim ELSE parent[d]
    BY <1>1, <1>8 DEF Clumps
  <2> QED
    BY <2>1, <2>2, <2>3, <2>4 DEF Leave
<1>14. Withdraw(As, no, no, no, no)
  <2>1. ReleaseAssemblies(As, no) /\ FileClumps(As, no)
    BY <1>9, <1>12
  <2>2. /\ ToSet(motors') = (ToSet(motors) \cup MotorsOf(As)) \ no
        /\ joined' = joined \ no /\ held' = held \ no /\ AssembliesOf(no) \subseteq As
        /\ no \subseteq Clumps /\ no \subseteq joined \cap Contact /\ no \cap Contact = {}
        /\ no \cap Motor \subseteq ToSet(motors) \cup MotorsOf(As)
        /\ \A e : EndsOf(e) \cap no = {}
    BY <1>0, <1>3, <1>11, <1>12 DEF AssembliesOf
  <2> QED
    BY <1>5, <1>11, <1>13, <2>1, <2>2 DEF Withdraw
<1>15. AsmTyped' /\ ClumpsFiled' /\ MotorsIn' /\ EdgesIn' /\ Hung' /\ Alone'
  BY <1>1, <1>14, WithdrawGroups
<1>16. \A q \in Prim : clumpOf[q] # q => asmOf[q] = NoPrim
  BY <1>1 DEF ClumpsFiled, Clumps
<1>17. depth[base] \in Nat
  BY <1>1, <1>4 DEF Tree
<1>18. Tree'
  <2> SUFFICES ASSUME NEW q \in Prim
               PROVE  /\ clumpOf'[q] # NoPrim => clumpOf'[clumpOf'[q]] = clumpOf'[q] /\ depth'[q] \in Nat
                      /\ clumpOf'[q] = q => depth'[q] = 0
                      /\ clumpOf'[q] \notin {NoPrim, q} =>
                           /\ parent'[q] \in Prim /\ clumpOf'[parent'[q]] = clumpOf'[q]
                           /\ depth'[q] = depth'[parent'[q]] + 1
                           /\ \E s \in joined' \cap Rigid : EndsOf(s) = {q, parent'[q]}
                      /\ clumpOf'[q] = NoPrim => depth'[q] = -1 /\ parent'[q] = NoPrim
    BY DEF Tree, EndsOf
  <2>1. CASE q = p
    <3>1. /\ clumpOf'[q] = c /\ depth'[q] = depth[base] + 1 /\ parent'[q] = base
          /\ clumpOf'[c] = c /\ clumpOf'[base] = c /\ depth'[base] = depth[base]
      BY <1>4, <1>6, <1>7, <1>8, <2>1
    <3>2. \E s \in joined' \cap Rigid : EndsOf(s) = {q, parent'[q]}
      BY <1>3, <2>1, <3>1
    <3>3. clumpOf'[clumpOf'[q]] = clumpOf'[q] /\ clumpOf'[q] # q /\ clumpOf'[q] # NoPrim
      BY <1>4, <2>1, <3>1
    <3>4. depth'[q] \in Nat
      <4>1. depth[base] + 1 \in Nat
        BY <1>17
      <4> QED
        BY <3>1, <4>1
    <3>5. parent'[q] \in Prim /\ clumpOf'[parent'[q]] = clumpOf'[q]
      BY <3>1
    <3>6. depth'[q] = depth'[parent'[q]] + 1
      <4>1. depth'[parent'[q]] = depth[base]
        BY <3>1
      <4> QED
        BY <3>1, <4>1
    <3> QED
      BY <3>2, <3>3, <3>4, <3>5, <3>6
  <2>2. CASE q # p
    <3>1. /\ clumpOf[q] # NoPrim => clumpOf[clumpOf[q]] = clumpOf[q] /\ depth[q] \in Nat
          /\ clumpOf[q] = q => depth[q] = 0
          /\ clumpOf[q] \notin {NoPrim, q} =>
               /\ parent[q] \in Prim /\ clumpOf[parent[q]] = clumpOf[q]
               /\ depth[q] = depth[parent[q]] + 1
               /\ \E s \in joined \cap Rigid : EndsOf(s) = {q, parent[q]}
          /\ clumpOf[q] = NoPrim => depth[q] = -1 /\ parent[q] = NoPrim
          /\ clumpOf[q] \in Prim \cup {NoPrim}
      BY <1>1 DEF Tree, BodyTyped
    <3>2. /\ clumpOf'[q] = clumpOf[q] /\ depth'[q] = depth[q]
          /\ clumpOf[q] # q => parent'[q] = parent[q]
      BY <1>5, <1>6, <1>7, <1>8, <1>16, <2>2
    <3>3. clumpOf[q] # NoPrim => clumpOf[q] # p
      BY <1>1, <3>1
    <3>4. clumpOf[q] \notin {NoPrim, q} => parent[q] # p
      BY <3>1
    <3> QED
      BY <1>1, <1>3, <1>6, <1>7, <3>1, <3>2, <3>3, <3>4
  <2> QED
    BY <2>1, <2>2
<1>19. BodyTyped'
  <2>1. parent' \in [Prim -> Prim \cup {NoPrim}]
    BY <1>0, <1>1, <1>8 DEF BodyTyped, ParentAfter
  <2>2. depth[base] + 1 \in Nat \cup {-1}
    BY <1>17
  <2>3. depth' \in [Prim -> Nat \cup {-1}]
    <3>1. depth \in [Prim -> Nat \cup {-1}] /\ depth' = [depth EXCEPT ![p] = depth[base] + 1]
      BY <1>0, <1>1 DEF BodyTyped
    <3>2. PICK d : d = depth[base] + 1
      OBVIOUS
    <3> QED
      BY <2>2, <3>1, <3>2
  <2>4. clumpOf' \in [Prim -> Prim \cup {NoPrim}]
    BY <1>0, <1>1, <1>4 DEF BodyTyped
  <2>5. held' = held /\ inconsistent' = inconsistent
    BY <1>0
  <2> QED
    BY <1>1, <2>1, <2>3, <2>4, <2>5 DEF BodyTyped
<1> DEFINE E == EdgesAt(Rigid, p)
<1>20. /\ E \subseteq joined \cap Rigid
       /\ \A s \in joined \cap Rigid : s \in E <=> p = End[s][1] \/ p = End[s][2]
       /\ \A s \in E : InBuffers(s) /\ \A d \in Prim : s \notin inconsistent[d]
  BY <1>1, OpenEnds
<1>21. open = {k \in E : clumpOf[Other(k, p)] = NoPrim}
       /\ conflicts = {k \in E : clumpOf[Other(k, p)] \notin {NoPrim, c}}
  BY DEF OpenAt, ConflictsAt, E
<1>22. DOMAIN (rigidOnes') = (DOMAIN rigidOnes \ E) \cup open
  BY DEF E
<1> HIDE DEF E
<1>23. RigidIn'
  <2> SUFFICES ASSUME NEW s \in Rigid PROVE RigidAt(s)'
    BY DEF RigidIn
  <2> DEFINE e0 == End[s][1]
             e1 == End[s][2]
  <2>1. /\ RigidAt(s) /\ e0 \in Prim /\ e1 \in Prim /\ e0 # e1
        /\ Other(s, e0) = e1 /\ Other(s, e1) = e0
    BY <1>1, Basics DEF RigidIn, Edge
  <2>2. /\ clumpOf'[e0] = IF e0 = p THEN c ELSE clumpOf[e0]
        /\ clumpOf'[e1] = IF e1 = p THEN c ELSE clumpOf[e1]
    BY <1>6, <2>1
  <2>3. CASE s \in E
    <3>1. /\ s \in joined' /\ (\A d \in Prim : s \notin inconsistent'[d])
          /\ s \in DOMAIN rigidOnes \/ s \in rigidZeros
          /\ s \in rigidTwos' <=> s \in conflicts
          /\ s \in DOMAIN (rigidOnes') <=> s \in open
          /\ s \in rigidZeros' <=> s \in rigidZeros /\ s \notin open
          /\ s \in open <=> clumpOf[Other(s, p)] = NoPrim
          /\ s \in conflicts <=> clumpOf[Other(s, p)] \notin {NoPrim, c}
      BY <1>0, <1>2, <1>3, <1>20, <1>21, <1>22, <2>3 DEF InBuffers
    <3>2. /\ s \in DOMAIN rigidOnes => clumpOf[e0] # clumpOf[e1]
          /\ s \in rigidZeros => clumpOf[e0] = NoPrim /\ clumpOf[e1] = NoPrim
      BY <2>1 DEF RigidAt
    <3>3. p = e0 \/ p = e1
      BY <1>20, <2>3
    <3>4. s \in rigidZeros => s \in open
      BY <2>1, <3>1, <3>2, <3>3
    <3>5. s \in open => clumpOf'[e0] # clumpOf'[e1] /\ NoPrim \in {clumpOf'[e0], clumpOf'[e1]}
      BY <1>4, <2>1, <2>2, <3>1, <3>3
    <3>6. s \notin open /\ s \notin conflicts => clumpOf'[e0] = c /\ clumpOf'[e1] = c
      BY <2>1, <2>2, <3>1, <3>3
    <3>7. s \in open => s \notin conflicts
      BY <3>1
    <3> HIDE DEF e0, e1
    <3>8. RigidAt(s)' <=>
            /\ s \in rigidTwos' => s \notin DOMAIN (rigidOnes') /\ s \notin rigidZeros'
            /\ s \in DOMAIN (rigidOnes') => /\ s \notin rigidZeros' /\ clumpOf'[e0] # clumpOf'[e1]
                                            /\ NoPrim \in {clumpOf'[e0], clumpOf'[e1]}
            /\ s \in rigidZeros' => clumpOf'[e0] = NoPrim /\ clumpOf'[e1] = NoPrim
            /\ InBuffers(s)' => s \in joined' /\ \A d \in Prim : s \notin inconsistent'[d]
            /\ \A d \in Prim : s \in inconsistent'[d] =>
                 /\ s \in joined' /\ d \in {clumpOf'[e0], clumpOf'[e1]} /\ clumpOf'[e0] # clumpOf'[e1]
                 /\ clumpOf'[e0] \in held' /\ clumpOf'[e1] \in held'
                 /\ s \in inconsistent'[clumpOf'[e0]] /\ s \in inconsistent'[clumpOf'[e1]]
            /\ s \in joined' /\ ~InBuffers(s)' =>
                 /\ clumpOf'[e0] \in Prim /\ clumpOf'[e1] \in Prim
                 /\ (clumpOf'[e0] = clumpOf'[e1] \/ s \in inconsistent'[clumpOf'[e0]])
      BY DEF RigidAt, e0, e1
    <3>9. InBuffers(s)' <=> s \in rigidTwos' \/ s \in DOMAIN (rigidOnes') \/ s \in rigidZeros'
      BY DEF InBuffers
    <3> QED
      BY <1>4, <3>1, <3>4, <3>5, <3>6, <3>7, <3>8, <3>9
  <2>4. CASE s \notin E
    <3>1. /\ s \in joined' <=> s \in joined
          /\ s \in rigidTwos' <=> s \in rigidTwos
          /\ s \in rigidZeros' <=> s \in rigidZeros
          /\ s \in DOMAIN (rigidOnes') <=> s \in DOMAIN rigidOnes
      BY <1>0, <1>3, <1>21, <1>22, <2>4
    <3>2. CASE s \in joined
      <4>1. clumpOf'[e0] = clumpOf[e0] /\ clumpOf'[e1] = clumpOf[e1]
        BY <1>20, <2>2, <2>4, <3>2
      <4> QED
        BY <1>0, <2>1, <3>1, <4>1 DEF RigidAt, InBuffers
    <3>3. CASE s \notin joined
      BY <1>0, <2>1, <3>1, <3>3 DEF RigidAt, InBuffers
    <3> QED
      BY <3>2, <3>3
  <2> QED
    BY <2>3, <2>4
<1>24. PrimitivesFiled'
  <2>1. /\ DOMAIN primitives = {q \in present : clumpOf[q] = NoPrim}
        /\ \A q \in Prim \ present : clumpOf[q] = NoPrim
        /\ anchors \subseteq anchored \cap present
        /\ \A q \in Prim : q \in held <=> q \in (anchored \cap present) \ anchors
        /\ held \subseteq Clumps /\ present \subseteq Prim
    BY <1>1 DEF PrimitivesFiled, WorldTyped
  <2>2. DOMAIN (primitives') = {q \in present' : clumpOf'[q] = NoPrim}
    <3>1. ASSUME NEW q PROVE q \in DOMAIN (primitives') <=> q \in present' /\ clumpOf'[q] = NoPrim
      BY <1>3, <1>4, <1>6, <2>1
    <3> QED
      BY <3>1
  <2>3. \A q \in Prim \ present' : clumpOf'[q] = NoPrim
    BY <1>3, <1>6, <2>1
  <2>4. held' \subseteq Clumps'
    BY <1>0, <1>1, <1>6, <2>1 DEF Clumps
  <2> QED
    BY <1>0, <1>3, <2>1, <2>2, <2>3, <2>4 DEF PrimitivesFiled
<1>25. AnchorsLoose' /\ Phase' /\ pc' \in Loops
  BY <1>2 DEF AnchorsLoose, Phase, After, Loops
<1>26. WorldTyped' /\ FilesTyped'
  <2>1. WorldTyped'
    BY <1>1, <1>3 DEF WorldTyped, EndsOf
  <2>2. FilesTyped'
    BY <1>1, <1>20, <1>21, <1>22 DEF FilesTyped
  <2> QED
    BY <2>1, <2>2
<1>27. Typed'
  BY <1>11, <1>15, <1>19, <1>25, <1>26, TypedParts
<1> QED
  BY <1>15, <1>18, <1>23, <1>24, <1>25, <1>27 DEF Inv, GroupInv

\* A joint with one clump: the primitive without one joins it, or takes it down.
LEMMA ProcessRigidOneStep ==
  ASSUME Inv, Tame, NEW r \in Rigid, ProcessRigidOne(r)
  PROVE  Inv'
<1>1. Typed /\ Tree /\ RigidIn /\ PrimitivesFiled
  BY DEF Inv, GroupInv
<1>2. r \in DOMAIN rigidOnes /\ pc = "ones" /\ UNCHANGED worldVars
  BY DEF ProcessRigidOne, Biggest
<1>3. PICK c : c = CHOOSE d \in ClumpsOf(r) : TRUE
  OBVIOUS
<1>4. PICK p : p = CHOOSE q \in EndsOf(r) : clumpOf[q] # c
  OBVIOUS
<1>5. PICK base : base = Other(r, p)
  OBVIOUS
<1>6. /\ r \in joined \cap Rigid /\ p \in Prim /\ base \in Prim /\ base # p
      /\ EndsOf(r) = {p, base} /\ clumpOf[p] = NoPrim /\ clumpOf[base] = c
      /\ c \in Clumps /\ c # p /\ p \in DOMAIN primitives
  BY <1>1, <1>2, <1>3, <1>4, <1>5, EndsOne
<1>7. PICK As : As = AssembliesOf({c})
  OBVIOUS
<1>8. PICK open : open = {k \in EdgesAt(Rigid, p) : clumpOf[Other(k, p)] = NoPrim}
  OBVIOUS
<1>9. PICK conflicts : conflicts = {k \in EdgesAt(Rigid, p) : clumpOf[Other(k, p)] \notin {NoPrim, c}}
  OBVIOUS
<1>10. \/ /\ DestroyGroups({}, {c})
          /\ SetBuffers([Gutted({c}) EXCEPT !.prims = Refile(@, {}, {p}, Power)])
          /\ pc' = "anchors"
       \/ /\ DestroyAssemblies(As)
          /\ clumpOf' = [clumpOf EXCEPT ![p] = c]
          /\ depth' = [depth EXCEPT ![p] = depth[base] + 1]
          /\ parent' = [ParentAfter(As, {}) EXCEPT ![p] = base]
          /\ SetBuffers([anchors |-> anchors,
                         twos |-> rigidTwos \cup conflicts,
                         ones |-> Refile(rigidOnes, EdgesAt(Rigid, p), open, LAMBDA k : Power(c)),
                         zeros |-> rigidZeros \ open,
                         prims |-> Refile(primitives, {p}, {}, Power)])
          /\ pc' = After(conflicts)
          /\ UNCHANGED <<held, inconsistent>>
  BY <1>3, <1>4, <1>5, <1>7, <1>8, <1>9 DEF ProcessRigidOne
<1>11. CASE /\ DestroyGroups({}, {c})
            /\ SetBuffers([Gutted({c}) EXCEPT !.prims = Refile(@, {}, {p}, Power)])
            /\ pc' = "anchors"
  <2>1. PICK Cs : Cs = {c}
    OBVIOUS
  <2>2. PICK no \in SUBSET Prim : no = {}
    OBVIOUS
  <2>3. /\ DestroyGroups(no, Cs) /\ Cs \in SUBSET Clumps
        /\ rigidTwos' = Gutted(Cs).twos /\ rigidZeros' = Gutted(Cs).zeros /\ rigidOnes' = Gutted(Cs).ones
        /\ anchors' = Gutted(Cs).anchors
        /\ DOMAIN (primitives') = DOMAIN Gutted(Cs).prims \cup {p}
    BY <1>6, <1>11, <2>1, <2>2 DEF SetBuffers, Refile, Gutted
  <2>4. DOMAIN (primitives') = DOMAIN Gutted(Cs).prims
    <3>1. p \in DOMAIN Gutted(Cs).prims
      BY <1>6 DEF Gutted, Refile
    <3> QED
      BY <2>3, <3>1
  <2>5. Phase' /\ pc' \in Loops
    BY <1>11 DEF Phase, Loops
  <2> QED
    BY <1>2, <2>2, <2>3, <2>4, <2>5, LoopDestroyStep
<1>12. CASE /\ DestroyAssemblies(As)
            /\ clumpOf' = [clumpOf EXCEPT ![p] = c]
            /\ depth' = [depth EXCEPT ![p] = depth[base] + 1]
            /\ parent' = [ParentAfter(As, {}) EXCEPT ![p] = base]
            /\ SetBuffers([anchors |-> anchors,
                           twos |-> rigidTwos \cup conflicts,
                           ones |-> Refile(rigidOnes, EdgesAt(Rigid, p), open, LAMBDA k : Power(c)),
                           zeros |-> rigidZeros \ open,
                           prims |-> Refile(primitives, {p}, {}, Power)])
            /\ pc' = After(conflicts)
            /\ UNCHANGED <<held, inconsistent>>
  <2>1. /\ anchors' = anchors /\ rigidTwos' = rigidTwos \cup conflicts /\ rigidZeros' = rigidZeros \ open
        /\ DOMAIN (rigidOnes') = (DOMAIN rigidOnes \ EdgesAt(Rigid, p)) \cup open
        /\ DOMAIN (primitives') = DOMAIN primitives \ {p}
    BY <1>12 DEF SetBuffers, Refile
  <2>2. JoinUp(p, base, c, As) /\ pc' = After(conflicts)
    BY <1>12 DEF JoinUp
  <2>3. /\ pc = "ones" /\ UNCHANGED worldVars
        /\ p \in DOMAIN primitives /\ c \in Clumps /\ p \in Prim /\ base \in Prim /\ base # p
        /\ c # p /\ r \in joined \cap Rigid /\ EndsOf(r) = {p, base}
        /\ clumpOf[p] = NoPrim /\ clumpOf[base] = c
    BY <1>2, <1>6
  <2>4. /\ As = AssembliesOf({c})
        /\ open = OpenAt(p) /\ conflicts = ConflictsAt(p, c)
    BY <1>7, <1>8, <1>9 DEF OpenAt, ConflictsAt
  <2> QED
    BY <2>1, <2>2, <2>3, <2>4, JoinStep
<1> QED
  BY <1>10, <1>11, <1>12

-----------------------------------------------------------------------------
\* Loose clumps are taken into assemblies.
Gain(in) ==
  /\ clumpOf' = clumpOf /\ held' = held /\ joined' = joined
  /\ in \subseteq {c \in Clumps : asmOf[c] = NoPrim}
  /\ asmOf' \in [Prim -> Prim \cup {NoPrim}]
  /\ \A c \in Prim \ in : asmOf'[c] = asmOf[c]
  /\ \A c \in in : asmOf'[c] # NoPrim
  /\ anchoredClumps' = anchoredClumps \ in /\ freeClumps' = freeClumps \ in
  /\ externalEdges' = externalEdges /\ internalEdges' = internalEdges
  /\ edges' = edges /\ downEdges' = downEdges

\* The primitives that have an assembly keep it, and contacts and motors are where they were.
LEMMA GainSame ==
  ASSUME Typed, ClumpsFiled, EdgesIn, NEW in, Gain(in)
  PROVE  /\ \A q \in Prim : AsmOfPrim(q) # NoPrim => AsmOfPrim(q)' = AsmOfPrim(q)
         /\ EdgesIn'
         /\ \A m \in Motor : /\ MotorAt(m) /\ (MotorsFind(m)' <=> MotorsFind(m))
                             /\ \A a \in Prim : /\ m \in asmMotors'[a] <=> m \in asmMotors[a]
                                                /\ m \in asmIncons'[a] <=> m \in asmIncons[a]
                             => MotorAt(m)'
<1>1. ASSUME NEW q \in Prim, AsmOfPrim(q) # NoPrim PROVE AsmOfPrim(q)' = AsmOfPrim(q)
  <2>1. clumpOf[q] # NoPrim /\ asmOf[clumpOf[q]] # NoPrim /\ clumpOf[q] \in Prim
    BY <1>1 DEF AsmOfPrim, Typed
  <2>2. asmOf'[clumpOf[q]] = asmOf[clumpOf[q]]
    BY <2>1 DEF Gain
  <2> QED
    BY <2>1, <2>2 DEF AsmOfPrim, Gain
<1>2. EdgesIn'
  <2> SUFFICES ASSUME NEW e \in Contact PROVE EdgeAt(e)'
    BY DEF EdgesIn
  <2>1. EdgeAt(e) /\ End[e][1] \in Prim /\ End[e][2] \in Prim
    BY Basics DEF EdgesIn, Edge
  <2> DEFINE a0 == AsmOfPrim(End[e][1])
             a1 == AsmOfPrim(End[e][2])
  <2>2. a0 # NoPrim => AsmOfPrim(End[e][1])' = a0
    BY <1>1, <2>1
  <2>3. a1 # NoPrim => AsmOfPrim(End[e][2])' = a1
    BY <1>1, <2>1
  <2>4. NoPrim \notin Prim
    BY Basics
  <2>5. /\ joined' = joined /\ edges' = edges /\ externalEdges' = externalEdges
        /\ internalEdges' = internalEdges /\ downEdges' = downEdges /\ held' = held
    BY DEF Gain
  <2> QED
    BY <2>1, <2>2, <2>3, <2>4, <2>5 DEF EdgeAt
<1>3. ASSUME NEW m \in Motor, MotorAt(m), MotorsFind(m)' <=> MotorsFind(m),
             \A a \in Prim : /\ m \in asmMotors'[a] <=> m \in asmMotors[a]
                             /\ m \in asmIncons'[a] <=> m \in asmIncons[a]
      PROVE  MotorAt(m)'
  <2>1. End[m][1] \in Prim /\ End[m][2] \in Prim /\ NoPrim \notin Prim
    BY Basics DEF Edge
  <2> DEFINE a0 == AsmOfPrim(End[m][1])
             a1 == AsmOfPrim(End[m][2])
  <2>2. a0 # NoPrim => AsmOfPrim(End[m][1])' = a0
    BY <1>1, <2>1
  <2>3. a1 # NoPrim => AsmOfPrim(End[m][2])' = a1
    BY <1>1, <2>1
  <2>4. joined' = joined
    BY DEF Gain
  <2> QED
    BY <1>3, <2>1, <2>2, <2>3, <2>4 DEF MotorAt
<1> QED
  BY <1>1, <1>2, <1>3

\* The clumps are filed as before if the new assemblies have their roots in themselves.
LEMMA GainClumps ==
  ASSUME Typed, ClumpsFiled, NEW in, Gain(in), NEW more \in SUBSET Prim,
         assemblies' \cup downAsm' = assemblies \cup downAsm \cup more,
         assemblies' \cap downAsm' = {}, \A a \in more : asmOf'[a] = a,
         \A c \in in : /\ asmOf'[c] \in Clumps /\ asmOf'[asmOf'[c]] = asmOf'[c]
                       /\ c \in held => asmOf'[c] = c
                       /\ asmOf'[c] \in assemblies' \cup downAsm'
  PROVE  ClumpsFiled'
<1>1. /\ anchoredClumps = {c \in Clumps : asmOf[c] = NoPrim} \cap held
      /\ freeClumps = {c \in Clumps : asmOf[c] = NoPrim} \ held
      /\ \A c \in Prim : asmOf[c] # NoPrim =>
           /\ c \in Clumps /\ asmOf[c] \in Clumps /\ asmOf[asmOf[c]] = asmOf[c]
           /\ c \in held => asmOf[c] = c
           /\ asmOf[c] \in assemblies \cup downAsm
      /\ \A a \in assemblies \cup downAsm : asmOf[a] = a
      /\ assemblies \cup downAsm \subseteq Prim
  BY DEF ClumpsFiled, Typed, AsmTyped
<1>2. /\ Clumps' = Clumps /\ held' = held /\ Clumps \subseteq Prim
      /\ in \subseteq {c \in Clumps : asmOf[c] = NoPrim}
      /\ \A c \in Prim \ in : asmOf'[c] = asmOf[c]
      /\ \A c \in in : asmOf'[c] # NoPrim
      /\ anchoredClumps' = anchoredClumps \ in /\ freeClumps' = freeClumps \ in
  BY DEF Gain, Clumps
<1>3. NoPrim \notin Prim
  BY Basics
<1>4. anchoredClumps' = {c \in Clumps' : asmOf'[c] = NoPrim} \cap held'
  <2>1. ASSUME NEW c
        PROVE  c \in anchoredClumps' <=> c \in Clumps' /\ asmOf'[c] = NoPrim /\ c \in held'
    <3>1. c \in anchoredClumps <=> c \in Clumps /\ asmOf[c] = NoPrim /\ c \in held
      BY <1>1
    <3> QED
      BY <1>2, <3>1
  <2> QED
    BY <2>1
<1>5. freeClumps' = {c \in Clumps' : asmOf'[c] = NoPrim} \ held'
  <2>1. ASSUME NEW c
        PROVE  c \in freeClumps' <=> c \in Clumps' /\ asmOf'[c] = NoPrim /\ c \notin held'
    <3>1. c \in freeClumps <=> c \in Clumps /\ asmOf[c] = NoPrim /\ c \notin held
      BY <1>1
    <3> QED
      BY <1>2, <3>1
  <2> QED
    BY <2>1
<1>6. ASSUME NEW c \in Prim, asmOf'[c] # NoPrim
      PROVE  /\ c \in Clumps' /\ asmOf'[c] \in Clumps' /\ asmOf'[asmOf'[c]] = asmOf'[c]
             /\ c \in held' => asmOf'[c] = c
             /\ asmOf'[c] \in assemblies' \cup downAsm'
  <2>1. CASE c \in in
    BY <1>2, <2>1
  <2>2. CASE c \notin in
    <3>1. asmOf'[c] = asmOf[c] /\ asmOf[c] # NoPrim
      BY <1>2, <1>6, <2>2
    <3>2. /\ c \in Clumps /\ asmOf[c] \in Clumps /\ asmOf[asmOf[c]] = asmOf[c]
          /\ c \in held => asmOf[c] = c
          /\ asmOf[c] \in assemblies \cup downAsm
      BY <1>1, <3>1
    <3>3. asmOf[c] \in Prim \ in
      BY <1>2, <3>1, <3>2
    <3>4. asmOf'[asmOf[c]] = asmOf[asmOf[c]]
      BY <1>2, <3>3
    <3> QED
      BY <1>2, <3>1, <3>2, <3>4
  <2> QED
    BY <2>1, <2>2
<1>7. ASSUME NEW a \in assemblies' \cup downAsm' PROVE asmOf'[a] = a
  <2>1. CASE a \in more
    BY <2>1
  <2>2. CASE a \in assemblies \cup downAsm
    <3>1. asmOf[a] = a /\ a \in Prim
      BY <1>1, <2>2
    <3>2. a \notin in
      BY <1>2, <1>3, <3>1
    <3> QED
      BY <1>2, <3>1, <3>2
  <2> QED
    BY <2>1, <2>2
<1> QED
  BY <1>4, <1>5, <1>6, <1>7 DEF ClumpsFiled

\* A step that only forms assemblies keeps the rest.
LEMMA GainStep ==
  ASSUME Inv, NEW in, Gain(in), anchors = {}, UNCHANGED <<worldVars, rigidVars, depth, inconsistent>>,
         parent' \in [Prim -> Prim \cup {NoPrim}],
         \A q \in Prim : clumpOf[q] # q => parent'[q] = parent[q],
         AsmTyped', ClumpsFiled', MotorsIn', Hung', Alone', motorAngles' \subseteq Motor,
         pc' \in Loops, Phase'
  PROVE  Inv'
<1>1. /\ Typed /\ Tree /\ ClumpsFiled /\ EdgesIn /\ RigidIn /\ PrimitivesFiled /\ NoPrim \notin Prim
      /\ WorldTyped /\ FilesTyped /\ BodyTyped
  BY TypedParts, Basics DEF Inv, GroupInv
<1>2. /\ clumpOf' = clumpOf /\ held' = held /\ joined' = joined /\ depth' = depth
      /\ inconsistent' = inconsistent /\ present' = present /\ anchored' = anchored
      /\ anchors' = anchors /\ rigidTwos' = rigidTwos /\ rigidOnes' = rigidOnes
      /\ rigidZeros' = rigidZeros /\ primitives' = primitives
  BY DEF Gain, worldVars, rigidVars
<1>3. EdgesIn'
  BY <1>1, GainSame
<1>4. Tree'
  <2>1. \A q \in Prim : clumpOf[q] \notin {NoPrim, q} \/ clumpOf[q] = NoPrim => parent'[q] = parent[q]
    BY <1>1
  <2> QED
    BY <1>1, <1>2, <2>1 DEF Tree, EndsOf
<1>5. GroupInv'
  BY <1>3, <1>4 DEF GroupInv
<1>6. RigidIn'
  BY <1>1, <1>2, RigidSame
<1>7. PrimitivesFiled' /\ AnchorsLoose'
  BY <1>1, <1>2 DEF PrimitivesFiled, AnchorsLoose, Clumps
<1>8. WorldTyped' /\ FilesTyped' /\ BodyTyped'
  BY <1>1, <1>2 DEF WorldTyped, FilesTyped, BodyTyped, EndsOf
<1>9. Typed'
  BY <1>8, TypedParts
<1> QED
  BY <1>5, <1>6, <1>7, <1>9 DEF Inv

\* Every anchored clump becomes an assembly.
LEMMA FormAnchoredStep ==
  ASSUME Inv, FormAnchored
  PROVE  Inv'
<1>1. /\ Typed /\ ClumpsFiled /\ EdgesIn /\ MotorsIn /\ Hung /\ Alone /\ Phase /\ AsmTyped /\ BodyTyped
  BY TypedParts DEF Inv, GroupInv
<1>2. /\ pc = "motors" /\ pc' = "sort"
      /\ asmOf' = [c \in Prim |-> IF c \in anchoredClumps THEN c ELSE asmOf[c]]
      /\ assemblies' = assemblies \cup anchoredClumps /\ anchoredClumps' = {}
      /\ joined' = joined /\ clumpOf' = clumpOf /\ held' = held /\ freeClumps' = freeClumps
      /\ motors' = motors /\ asmMotors' = asmMotors /\ asmIncons' = asmIncons
      /\ externalEdges' = externalEdges /\ internalEdges' = internalEdges /\ edges' = edges
      /\ downAsm' = downAsm /\ downEdges' = downEdges /\ parent' = parent
      /\ motorAngles' = motorAngles /\ UNCHANGED <<worldVars, rigidVars, depth, inconsistent>>
  BY DEF FormAnchored, worldVars, clumpVars, motorVars
<1>3. PICK in \in SUBSET Prim : in = anchoredClumps
  BY <1>1 DEF AsmTyped
<1>4. \A c \in Prim : asmOf'[c] = IF c \in in THEN c ELSE asmOf[c]
  BY <1>2, <1>3
<1>5. /\ \A c \in Prim : c \in in <=> c \in Clumps /\ asmOf[c] = NoPrim /\ c \in held
      /\ \A c \in freeClumps : c \notin held
      /\ \A a \in downAsm : asmOf[a] = a
      /\ NoPrim \notin Prim /\ downAsm \subseteq Prim
      /\ assemblies \cap downAsm = {}
  BY <1>1, <1>3, Basics DEF ClumpsFiled, AsmTyped, Clumps
<1>6. AsmTyped'
  <2>1. asmOf' \in [Prim -> Prim \cup {NoPrim}]
    BY <1>1, <1>2 DEF AsmTyped
  <2> QED
    BY <1>1, <1>2, <2>1 DEF AsmTyped
<1>7. Gain(in)
  BY <1>2, <1>3, <1>4, <1>5, <1>6 DEF Gain, AsmTyped
<1>8. ClumpsFiled'
  <2>1. in \cap downAsm = {}
    BY <1>5
  <2>2. /\ assemblies' \cup downAsm' = assemblies \cup downAsm \cup in
        /\ assemblies' \cap downAsm' = {}
    BY <1>2, <1>3, <1>5, <2>1
  <2>3. \A c \in in : /\ asmOf'[c] = c /\ asmOf'[c] \in Clumps /\ asmOf'[asmOf'[c]] = asmOf'[c]
                      /\ asmOf'[c] \in assemblies' \cup downAsm'
    BY <1>2, <1>3, <1>4, <1>5
  <2> QED
    BY <1>1, <1>7, <2>2, <2>3, GainClumps
<1>9. MotorsIn'
  <2>1. \A m \in Motor : MotorAt(m)'
    BY <1>1, <1>2, <1>7, GainSame DEF MotorsIn, MotorsFind
  <2> QED
    BY <1>1, <1>2, <2>1 DEF MotorsIn
<1>10. Hung'
  BY <1>1, <1>2, <1>4, <1>5 DEF Hung, Clumps, By, Attached, EndsOf, Other
<1>11. Alone'
  BY <1>1, <1>4 DEF Alone
<1>12. Phase' /\ pc' \in Loops /\ anchors = {}
  BY <1>1, <1>2 DEF Phase, Loops, rigidVars
<1>13. motorAngles' \subseteq Motor /\ parent' \in [Prim -> Prim \cup {NoPrim}]
  BY <1>1, <1>2 DEF Typed
<1> QED
  BY <1>2, <1>6, <1>7, <1>8, <1>9, <1>10, <1>11, <1>12, <1>13, GainStep

\* So does every free clump that is left, and the assemblies go down.
LEMMA FormFreeStep ==
  ASSUME Inv, FormFree
  PROVE  Inv'
<1>1. /\ Typed /\ ClumpsFiled /\ EdgesIn /\ MotorsIn /\ Hung /\ Alone /\ Phase /\ AsmTyped /\ BodyTyped
  BY TypedParts DEF Inv, GroupInv
<1>2. /\ pc = "attach" /\ pc' = "edges" /\ motors = <<>>
      /\ asmOf' = [c \in Prim |-> IF c \in freeClumps THEN c ELSE asmOf[c]]
      /\ assemblies' = {} /\ freeClumps' = {}
      /\ downAsm' = downAsm \cup assemblies \cup freeClumps
      /\ joined' = joined /\ clumpOf' = clumpOf /\ held' = held /\ anchoredClumps' = anchoredClumps
      /\ motors' = motors /\ asmMotors' = asmMotors /\ asmIncons' = asmIncons
      /\ externalEdges' = externalEdges /\ internalEdges' = internalEdges /\ edges' = edges
      /\ downEdges' = downEdges /\ parent' = parent
      /\ motorAngles' = motorAngles /\ UNCHANGED <<worldVars, rigidVars, depth, inconsistent>>
  BY DEF FormFree, worldVars, clumpVars, motorVars
<1>3. PICK in \in SUBSET Prim : in = freeClumps
  BY <1>1 DEF AsmTyped
<1>4. \A c \in Prim : asmOf'[c] = IF c \in in THEN c ELSE asmOf[c]
  BY <1>2, <1>3
<1>5. /\ \A c \in Prim : c \in in <=> c \in Clumps /\ asmOf[c] = NoPrim /\ c \notin held
      /\ \A c \in anchoredClumps : c \in held
      /\ NoPrim \notin Prim
  BY <1>1, <1>3, Basics DEF ClumpsFiled, AsmTyped, Clumps
<1>6. AsmTyped'
  <2>1. asmOf' \in [Prim -> Prim \cup {NoPrim}]
    BY <1>1, <1>2 DEF AsmTyped
  <2> QED
    BY <1>1, <1>2, <2>1 DEF AsmTyped
<1>7. Gain(in)
  BY <1>2, <1>3, <1>4, <1>5, <1>6 DEF Gain, AsmTyped
<1>8. ClumpsFiled'
  <2>2. /\ assemblies' \cup downAsm' = assemblies \cup downAsm \cup in
        /\ assemblies' \cap downAsm' = {}
    BY <1>2, <1>3
  <2>3. \A c \in in : /\ asmOf'[c] = c /\ asmOf'[c] \in Clumps /\ asmOf'[asmOf'[c]] = asmOf'[c]
                      /\ asmOf'[c] \in assemblies' \cup downAsm'
    BY <1>2, <1>3, <1>4, <1>5
  <2> QED
    BY <1>1, <1>7, <2>2, <2>3, GainClumps
<1>9. MotorsIn'
  <2>1. \A m \in Motor : MotorAt(m)'
    BY <1>1, <1>2, <1>7, GainSame DEF MotorsIn, MotorsFind
  <2> QED
    BY <1>1, <1>2, <2>1 DEF MotorsIn
<1>10. Hung'
  BY <1>1, <1>2, <1>4, <1>5 DEF Hung, Clumps, By, Attached, EndsOf, Other
<1>11. Alone'
  BY <1>1, <1>4 DEF Alone
<1>12. Phase' /\ pc' \in Loops /\ anchors = {}
  BY <1>1, <1>2 DEF Phase, Loops, rigidVars
<1>13. motorAngles' \subseteq Motor /\ parent' \in [Prim -> Prim \cup {NoPrim}]
  BY <1>1, <1>2 DEF Typed
<1> QED
  BY <1>2, <1>6, <1>7, <1>8, <1>9, <1>10, <1>11, <1>12, <1>13, GainStep

-----------------------------------------------------------------------------
\* The free assemblies that the motors touch are taken apart, their motors after the sorted.
LEMMA SortMotorsStep ==
  ASSUME Inv, SortMotors
  PROVE  Inv'
<1>1. /\ Typed /\ ClumpsFiled /\ MotorsIn /\ Phase /\ RigidIn /\ FilesTyped /\ BodyTyped /\ AsmTyped
  BY TypedParts DEF Inv, GroupInv
<1>2. PICK As : As = FreeAssembliesAt(ToSet(motors))
  OBVIOUS
<1>3. /\ pc = "sort" /\ pc' = "attach" /\ ReleaseAssemblies(As, {})
      /\ \E s \in SetToSeqs(ToSet(motors)) : ReleaseMotors(s, As)
      /\ FileClumps(As, {}) /\ parent' = ParentAfter(As, {})
      /\ UNCHANGED <<worldVars, rigidVars, clumpOf, depth, held, inconsistent>>
  BY <1>2 DEF SortMotors
<1>4. As \in SUBSET Prim /\ As \cap held = {}
  <2>1. As \cap ({NoPrim} \cup held) = {}
    BY <1>2 DEF FreeAssembliesAt
  <2>2. ASSUME NEW a \in As PROVE a \in Prim
    <3>1. PICK m \in ToSet(motors), i \in {1, 2} : a = AsmOfPrim(End[m][i])
      BY <1>2 DEF FreeAssembliesAt
    <3>2. m \in Motor
      BY <1>1, <3>1 DEF AsmTyped, ToSet
    <3>3. End[m][i] \in Prim
      BY <3>1, <3>2, Basics DEF Edge
    <3>4. a \in Prim \cup {NoPrim}
      BY <1>1, <3>1, <3>3, AsmFacts
    <3> QED
      BY <2>1, <3>4
  <2> QED
    BY <2>1, <2>2
<1>5. /\ motors' \in Seq(Motor) /\ Once(motors')
      /\ ToSet(motors') = ToSet(motors) \cup MotorsOf(As)
      /\ motorAngles' \subseteq Motor
  <2>1. PICK s \in SetToSeqs(ToSet(motors)) : ReleaseMotors(s, As)
    BY <1>3
  <2>2. ToSet(motors) \subseteq Motor
    BY <1>1 DEF AsmTyped, ToSet
  <2>3. IsFiniteSet(ToSet(motors))
    BY <2>2, FS_Subset, ClumpStageAssumption
  <2>4. s \in Seq(ToSet(motors)) /\ Once(s) /\ ToSet(s) = ToSet(motors)
    BY <2>1, <2>3, SeqOfSet
  <2>5. s \in Seq(Motor)
    BY <2>2, <2>4
  <2>6. PICK t \in Released(As) : motors' = s \o t
    BY <2>1 DEF ReleaseMotors
  <2>7. motorAngles' = AnglesToo(As)
    BY <2>1 DEF ReleaseMotors
  <2> HIDE DEF Once
  <2> QED
    BY <1>1, <1>4, <2>4, <2>5, <2>6, <2>7, MotorsReleased
<1>6. anchors = {} /\ anchoredClumps = {} /\ DOMAIN rigidOnes = {} /\ rigidTwos = {} /\ DOMAIN primitives = {}
  BY <1>1, <1>3 DEF Phase
<1>7. Phase' /\ pc' \in Loops
  <2>1. \A c \in held : asmOf[c] \notin As
    BY <1>1, <1>4, Basics DEF ClumpsFiled, BodyTyped
  <2>2. anchoredClumps' = {}
    BY <1>3, <1>6, <2>1 DEF FileClumps
  <2> QED
    BY <1>3, <1>6, <2>2 DEF Phase, Loops, rigidVars
<1>8. RigidIn'
  BY <1>1, <1>3, RigidSame DEF rigidVars, worldVars
<1>9. PICK gone \in SUBSET Motor : gone = {}
  OBVIOUS
<1>10. /\ joined' = joined \ gone /\ gone \subseteq ToSet(motors) \cup MotorsOf(As)
       /\ ToSet(motors') = (ToSet(motors) \cup MotorsOf(As)) \ gone
       /\ present' = present /\ anchored' = anchored
  BY <1>3, <1>5, <1>9 DEF worldVars
<1>11. /\ clumpOf' = clumpOf /\ depth' = depth /\ held' = held
       /\ inconsistent' \in [Prim -> SUBSET Rigid]
       /\ anchors' = anchors /\ primitives' = primitives
       /\ rigidTwos' \subseteq Rigid /\ rigidZeros' \subseteq Rigid /\ DOMAIN (rigidOnes') \subseteq Rigid
  BY <1>1, <1>3 DEF rigidVars, FilesTyped, BodyTyped
<1> QED
  BY <1>3, <1>4, <1>5, <1>6, <1>7, <1>8, <1>10, <1>11, ReleaseStep

\* What attaching a motor leaves alone.
AttachFrame(m) ==
  /\ pc = "attach" /\ motors # <<>> /\ m = Last(motors) /\ motors' = Front(motors)
  /\ UNCHANGED <<pc, worldVars, rigidVars, clumpOf, depth, held, inconsistent,
                 anchoredClumps, motorAngles, externalEdges, internalEdges, edges,
                 downAsm, downEdges>>

\* The last motor joins two clumps and is in no assembly.
LEMMA AttachFacts ==
  ASSUME Inv, NEW m, AttachFrame(m)
  PROVE  /\ m \in Motor /\ m \in joined
         /\ clumpOf[End[m][1]] \in Clumps /\ clumpOf[End[m][2]] \in Clumps
         /\ motors' \in Seq(Motor) /\ Once(motors') /\ m \notin ToSet(motors')
         /\ \A k \in Motor \ {m} : MotorsFind(k)' <=> MotorsFind(k)
         /\ \A a \in Prim : m \notin asmMotors[a] /\ m \notin asmIncons[a]
         /\ \A c \in Clumps : asmOf[c] = NoPrim => c \notin held /\ c \in freeClumps
<1>1. /\ Typed /\ Tree /\ ClumpsFiled /\ MotorsIn /\ Phase /\ AsmTyped /\ PrimitivesFiled /\ BodyTyped
  BY TypedParts DEF Inv, GroupInv
<1>2. pc = "attach" /\ motors # <<>> /\ m = Last(motors) /\ motors' = Front(motors)
  BY DEF AttachFrame
<1>3. /\ motors' \in Seq(Motor) /\ Once(motors') /\ m \in Motor
      /\ ToSet(motors) = ToSet(motors') \cup {m} /\ m \notin ToSet(motors')
  <2>1. motors \in Seq(Motor) /\ Once(motors)
    BY <1>1 DEF AsmTyped, MotorsIn
  <2> HIDE DEF Once
  <2> QED
    BY <1>2, <2>1, FrontOnce
<1>4. MotorAt(m) /\ MotorsFind(m)
  BY <1>1, <1>3 DEF MotorsIn, MotorsFind
<1>5. m \in joined /\ \A a \in Prim : m \notin asmMotors[a] /\ m \notin asmIncons[a]
  BY <1>4 DEF MotorAt
<1>6. DOMAIN primitives = {} /\ anchoredClumps = {}
  BY <1>1, <1>2 DEF Phase
<1>7. /\ EndsOf(m) = {End[m][1], End[m][2]} /\ End[m][1] \in Prim /\ End[m][2] \in Prim
  BY <1>3, Basics DEF Edge
<1>8. End[m][1] \in present /\ End[m][2] \in present
  BY <1>1, <1>5, <1>7 DEF Typed
<1>9. ASSUME NEW p \in Prim, p \in present PROVE clumpOf[p] \in Clumps
  <2>1. clumpOf[p] # NoPrim
    BY <1>1, <1>6, <1>9 DEF PrimitivesFiled
  <2> QED
    BY <1>1, <2>1 DEF Tree, Clumps, BodyTyped
<1>10. \A c \in Clumps : asmOf[c] = NoPrim => c \notin held /\ c \in freeClumps
  BY <1>1, <1>6 DEF ClumpsFiled
<1> QED
  BY <1>3, <1>5, <1>7, <1>8, <1>9, <1>10 DEF MotorsFind

\* A motor between two assemblies, or in one, that its tree has no use for.
LEMMA InconsistentStep ==
  ASSUME Inv, NEW m, AttachFrame(m), NEW in \in SUBSET Prim, in \subseteq freeClumps,
         NEW a0 \in Prim, NEW a1 \in Prim,
         asmOf'[clumpOf[End[m][1]]] = a0, asmOf'[clumpOf[End[m][2]]] = a1,
         asmOf' \in [Prim -> Prim \cup {NoPrim}],
         \A c \in Prim : asmOf'[c] = IF c \in in THEN c ELSE asmOf[c],
         NEW both, both = {a0, a1}, AddInconsistentMotor(m, both),
         asmMotors' = asmMotors, parent' = parent, freeClumps' = freeClumps \ in,
         assemblies' = assemblies \cup in
  PROVE  Inv'
<1>1. /\ Typed /\ ClumpsFiled /\ EdgesIn /\ MotorsIn /\ Hung /\ Alone /\ Phase /\ AsmTyped /\ BodyTyped
  BY TypedParts DEF Inv, GroupInv
<1>2. /\ m \in Motor /\ m \in joined
      /\ clumpOf[End[m][1]] \in Clumps /\ clumpOf[End[m][2]] \in Clumps
      /\ motors' \in Seq(Motor) /\ Once(motors') /\ m \notin ToSet(motors')
      /\ \A k \in Motor \ {m} : MotorsFind(k)' <=> MotorsFind(k)
      /\ \A a \in Prim : m \notin asmMotors[a] /\ m \notin asmIncons[a]
  BY AttachFacts
<1>3. /\ pc = "attach" /\ pc' = pc /\ joined' = joined /\ clumpOf' = clumpOf /\ held' = held
      /\ UNCHANGED <<worldVars, rigidVars, depth, inconsistent>> /\ anchors' = anchors
      /\ anchoredClumps' = anchoredClumps /\ externalEdges' = externalEdges
      /\ internalEdges' = internalEdges /\ edges' = edges /\ downAsm' = downAsm
      /\ downEdges' = downEdges /\ motorAngles' = motorAngles
      /\ rigidTwos' = rigidTwos /\ rigidOnes' = rigidOnes /\ primitives' = primitives
  BY DEF AttachFrame, worldVars, rigidVars
<1>4. anchors = {} /\ anchoredClumps = {} /\ rigidTwos = {} /\ DOMAIN rigidOnes = {}
      /\ DOMAIN primitives = {}
  BY <1>1, <1>3 DEF Phase
<1>5. \A c \in in : c \in Clumps /\ asmOf[c] = NoPrim /\ c \notin held
  BY <1>1 DEF ClumpsFiled
<1>6. NoPrim \notin Prim /\ Clumps \subseteq Prim
  BY Basics DEF Clumps
<1>7. AsmTyped'
  <2>1. asmIncons' \in [Prim -> SUBSET Motor]
    BY <1>1, <1>2 DEF AsmTyped, AddInconsistentMotor
  <2> QED
    BY <1>1, <1>2, <1>3, <2>1 DEF AsmTyped
<1>8. Gain(in)
  BY <1>3, <1>4, <1>5, <1>6 DEF Gain
<1>9. ClumpsFiled'
  <2>1. in \cap downAsm = {} /\ assemblies \cap downAsm = {}
    BY <1>1, <1>5, <1>6 DEF ClumpsFiled
  <2>2. /\ assemblies' \cup downAsm' = assemblies \cup downAsm \cup in
        /\ assemblies' \cap downAsm' = {}
    BY <1>3, <2>1
  <2>3. \A c \in in : /\ asmOf'[c] = c /\ asmOf'[c] \in Clumps /\ asmOf'[asmOf'[c]] = asmOf'[c]
                      /\ asmOf'[c] \in assemblies' \cup downAsm'
    BY <1>5
  <2> QED
    BY <1>1, <1>8, <2>2, <2>3, GainClumps
<1>10. MotorAt(m)'
  <2>1. AsmOfPrim(End[m][1])' = a0 /\ AsmOfPrim(End[m][2])' = a1
    BY <1>2, <1>3, <1>6 DEF AsmOfPrim
  <2>2. /\ \A x \in Prim : m \in asmIncons'[x] <=> x \in {a0, a1}
        /\ \A x \in Prim : m \notin asmMotors'[x]
        /\ ~MotorsFind(m)' /\ m \in joined'
    BY <1>2, <1>3 DEF MotorsFind, AddInconsistentMotor
  <2>3. MotorAt(m)' <=>
          /\ MotorsFind(m)' =>
               m \in joined' /\ \A a \in Prim : m \notin asmMotors'[a] /\ m \notin asmIncons'[a]
          /\ \A a \in Prim : m \in asmMotors'[a] =>
               /\ m \in joined' /\ AsmOfPrim(End[m][1])' = a /\ AsmOfPrim(End[m][2])' = a
               /\ \A b \in Prim : m \notin asmIncons'[b]
          /\ \A a \in Prim : m \in asmIncons'[a] =>
               /\ m \in joined' /\ a \in {AsmOfPrim(End[m][1])', AsmOfPrim(End[m][2])'}
               /\ AsmOfPrim(End[m][1])' \in Prim /\ AsmOfPrim(End[m][2])' \in Prim
               /\ m \in asmIncons'[AsmOfPrim(End[m][1])'] /\ m \in asmIncons'[AsmOfPrim(End[m][2])']
          /\ m \in joined' /\ ~MotorsFind(m)' =>
               /\ AsmOfPrim(End[m][1])' \in Prim
               /\ (m \in asmMotors'[AsmOfPrim(End[m][1])'] \/ m \in asmIncons'[AsmOfPrim(End[m][1])'])
    BY DEF MotorAt
  <2> QED
    BY <2>1, <2>2, <2>3
<1>11. MotorsIn'
  <2>1. ASSUME NEW k \in Motor, k # m PROVE MotorAt(k)'
    <3>1. MotorAt(k) /\ (MotorsFind(k)' <=> MotorsFind(k))
      BY <1>1, <1>2, <2>1 DEF MotorsIn
    <3>2. \A a \in Prim : /\ k \in asmMotors'[a] <=> k \in asmMotors[a]
                          /\ k \in asmIncons'[a] <=> k \in asmIncons[a]
      BY <2>1 DEF AddInconsistentMotor
    <3> QED
      BY <1>1, <1>8, <3>1, <3>2, GainSame
  <2> QED
    BY <1>2, <1>10, <2>1 DEF MotorsIn
<1>12. Hung'
  BY <1>1, <1>3, <1>5, <1>6 DEF Hung, Clumps, By, Attached, EndsOf, Other
<1>13. Alone'
  BY <1>2 DEF Alone
<1>14. Phase' /\ pc' \in Loops
  BY <1>3, <1>4 DEF Phase, Loops
<1>15. motorAngles' \subseteq Motor /\ parent' \in [Prim -> Prim \cup {NoPrim}]
  BY <1>1, <1>3 DEF Typed
<1> QED
  BY <1>3, <1>4, <1>7, <1>8, <1>9, <1>11, <1>12, <1>13, <1>14, <1>15, GainStep

\* A loose clump is attached to an assembly, or to another loose one with which it starts one.
LEMMA AddClumpStep ==
  ASSUME Inv, NEW m, AttachFrame(m), NEW a \in Prim, NEW root \in Clumps, NEW child \in Clumps,
         root # child, {clumpOf[End[m][1]], clumpOf[End[m][2]]} = {root, child},
         asmOf[child] = NoPrim, NEW new \in SUBSET {root},
         IF asmOf[root] = NoPrim THEN a = root /\ new = {root} ELSE a = asmOf[root] /\ new = {},
         AddClump(a, root, child, m), asmIncons' = asmIncons, assemblies' = assemblies \cup new
  PROVE  Inv'
<1>1. /\ Typed /\ ClumpsFiled /\ EdgesIn /\ MotorsIn /\ Hung /\ Alone /\ Phase /\ AsmTyped /\ BodyTyped
      /\ Tree
  BY TypedParts DEF Inv, GroupInv
<1>2. /\ m \in Motor /\ m \in joined
      /\ motors' \in Seq(Motor) /\ Once(motors') /\ m \notin ToSet(motors')
      /\ \A k \in Motor \ {m} : MotorsFind(k)' <=> MotorsFind(k)
      /\ \A b \in Prim : m \notin asmMotors[b] /\ m \notin asmIncons[b]
      /\ \A c \in Clumps : asmOf[c] = NoPrim => c \notin held /\ c \in freeClumps
  BY AttachFacts
<1>3. /\ pc = "attach" /\ pc' = pc /\ joined' = joined /\ clumpOf' = clumpOf /\ held' = held
      /\ UNCHANGED <<worldVars, rigidVars, depth, inconsistent>> /\ anchors' = anchors
      /\ anchoredClumps' = anchoredClumps /\ externalEdges' = externalEdges
      /\ internalEdges' = internalEdges /\ edges' = edges /\ downAsm' = downAsm
      /\ downEdges' = downEdges /\ motorAngles' = motorAngles
      /\ rigidTwos' = rigidTwos /\ rigidOnes' = rigidOnes /\ primitives' = primitives
  BY DEF AttachFrame, worldVars, rigidVars
<1>4. anchors = {} /\ anchoredClumps = {} /\ rigidTwos = {} /\ DOMAIN rigidOnes = {}
      /\ DOMAIN primitives = {}
  BY <1>1, <1>3 DEF Phase
<1>5. NoPrim \notin Prim /\ Clumps \subseteq Prim
  BY Basics DEF Clumps
<1>6. /\ EndsOf(m) = {End[m][1], End[m][2]} /\ End[m][1] \in Prim /\ End[m][2] \in Prim
      /\ Other(m, End[m][1]) = End[m][2] /\ Other(m, End[m][2]) = End[m][1]
  BY <1>2, Basics DEF Edge
<1>7. PICK far \in EndsOf(m) : far = CHOOSE q \in EndsOf(m) : clumpOf[q] = child
  <2>1. \E q \in EndsOf(m) : clumpOf[q] = child
    BY <1>6
  <2> QED
    BY <2>1
<1>8. PICK near : near = Other(m, far)
  OBVIOUS
<1>9. /\ clumpOf[far] = child /\ clumpOf[near] = root /\ far \in Prim /\ near \in Prim
      /\ EndsOf(m) = {far, near} /\ Other(m, near) = far
      /\ End[m][1] \in {far, near} /\ End[m][2] \in {far, near}
  <2>1. clumpOf[far] = child
    <3>1. \E q \in EndsOf(m) : clumpOf[q] = child
      BY <1>6
    <3> QED
      BY <1>7, <3>1
  <2> QED
    BY <1>6, <1>7, <1>8, <2>1
<1>10. /\ freeClumps' = freeClumps \ {child, root}
       /\ asmOf' = [asmOf EXCEPT ![root] = a, ![child] = a]
       /\ asmMotors' = [asmMotors EXCEPT ![a] = @ \cup {m}]
       /\ parent' = [parent EXCEPT ![child] = near]
  BY <1>7, <1>8 DEF AddClump, FreeWithout
<1>11. /\ asmOf' \in [Prim -> Prim \cup {NoPrim}]
       /\ \A c \in Prim : asmOf'[c] = IF c \in {root, child} THEN a ELSE asmOf[c]
       /\ \A b \in Prim : asmMotors'[b] = IF b = a THEN asmMotors[b] \cup {m} ELSE asmMotors[b]
       /\ \A c \in Prim : parent'[c] = IF c = child THEN near ELSE parent[c]
       /\ asmMotors' \in [Prim -> SUBSET Motor] /\ parent' \in [Prim -> Prim \cup {NoPrim}]
  <2>1. asmOf' \in [Prim -> Prim \cup {NoPrim}]
    BY <1>1, <1>10 DEF AsmTyped
  <2>2. asmMotors' \in [Prim -> SUBSET Motor]
    BY <1>1, <1>2, <1>10 DEF AsmTyped
  <2>3. parent' \in [Prim -> Prim \cup {NoPrim}]
    BY <1>1, <1>9, <1>10 DEF BodyTyped
  <2>4. \A c \in Prim : asmOf'[c] = IF c \in {root, child} THEN a ELSE asmOf[c]
    BY <1>1, <1>10 DEF AsmTyped
  <2>5. \A b \in Prim : asmMotors'[b] = IF b = a THEN asmMotors[b] \cup {m} ELSE asmMotors[b]
    BY <1>1, <1>10 DEF AsmTyped
  <2>6. \A c \in Prim : parent'[c] = IF c = child THEN near ELSE parent[c]
    BY <1>1, <1>10 DEF BodyTyped
  <2> QED
    BY <2>1, <2>2, <2>3, <2>4, <2>5, <2>6
<1>12. PICK in \in SUBSET Prim : in = {child} \cup new
  BY <1>5
<1>13. /\ \A c \in in : c \in Clumps /\ asmOf[c] = NoPrim /\ c \notin held /\ c \in freeClumps
       /\ \A c \in Prim \ in : asmOf'[c] = asmOf[c]
       /\ \A c \in in : asmOf'[c] = a
       /\ asmOf'[a] = a /\ a \in Clumps /\ a # child /\ a # NoPrim
       /\ root \in freeClumps => root \in in
       /\ asmOf'[root] = a /\ asmOf'[child] = a
       /\ a \in assemblies \cup downAsm \cup new
  <2>1. asmOf[root] # NoPrim => /\ asmOf[asmOf[root]] = asmOf[root] /\ asmOf[root] \in Clumps
                                /\ asmOf[root] \in assemblies \cup downAsm
    BY <1>1, <1>5 DEF ClumpsFiled
  <2>2. \A c \in freeClumps : asmOf[c] = NoPrim
    BY <1>1 DEF ClumpsFiled
  <2> QED
    BY <1>2, <1>5, <1>11, <1>12, <2>1, <2>2
<1>14. AsmTyped'
  BY <1>1, <1>2, <1>3, <1>5, <1>10, <1>11 DEF AsmTyped
<1>15. Gain(in)
  <2>1. freeClumps' = freeClumps \ in
    BY <1>10, <1>12, <1>13
  <2> QED
    BY <1>3, <1>4, <1>5, <1>11, <1>13, <2>1 DEF Gain
<1>16. ClumpsFiled'
  <2>1. \A b \in new : b = root /\ asmOf[b] = NoPrim /\ asmOf'[b] = b
    BY <1>13
  <2>2. new \cap downAsm = {} /\ assemblies \cap downAsm = {}
    BY <1>1, <1>5, <2>1 DEF ClumpsFiled
  <2>3. /\ assemblies' \cup downAsm' = assemblies \cup downAsm \cup new
        /\ assemblies' \cap downAsm' = {}
    BY <1>3, <2>2
  <2>4. new \in SUBSET Prim /\ \A b \in new : asmOf'[b] = b
    BY <1>5, <2>1
  <2>5. \A c \in in : /\ asmOf'[c] \in Clumps /\ asmOf'[asmOf'[c]] = asmOf'[c] /\ c \notin held
                      /\ asmOf'[c] \in assemblies' \cup downAsm'
    BY <1>13, <2>3
  <2> QED
    BY <1>1, <1>15, <2>3, <2>4, <2>5, GainClumps
<1>17. MotorAt(m)'
  <2>1. AsmOfPrim(End[m][1])' = a /\ AsmOfPrim(End[m][2])' = a
    BY <1>3, <1>5, <1>9, <1>13 DEF AsmOfPrim
  <2>2. /\ \A x \in Prim : m \notin asmIncons'[x]
        /\ \A x \in Prim : m \in asmMotors'[x] <=> x = a
        /\ ~MotorsFind(m)' /\ m \in joined'
    BY <1>2, <1>3, <1>11 DEF MotorsFind
  <2>3. MotorAt(m)' <=>
          /\ MotorsFind(m)' =>
               m \in joined' /\ \A b \in Prim : m \notin asmMotors'[b] /\ m \notin asmIncons'[b]
          /\ \A b \in Prim : m \in asmMotors'[b] =>
               /\ m \in joined' /\ AsmOfPrim(End[m][1])' = b /\ AsmOfPrim(End[m][2])' = b
               /\ \A d \in Prim : m \notin asmIncons'[d]
          /\ \A b \in Prim : m \in asmIncons'[b] =>
               /\ m \in joined' /\ b \in {AsmOfPrim(End[m][1])', AsmOfPrim(End[m][2])'}
               /\ AsmOfPrim(End[m][1])' \in Prim /\ AsmOfPrim(End[m][2])' \in Prim
               /\ m \in asmIncons'[AsmOfPrim(End[m][1])'] /\ m \in asmIncons'[AsmOfPrim(End[m][2])']
          /\ m \in joined' /\ ~MotorsFind(m)' =>
               /\ AsmOfPrim(End[m][1])' \in Prim
               /\ (m \in asmMotors'[AsmOfPrim(End[m][1])'] \/ m \in asmIncons'[AsmOfPrim(End[m][1])'])
    BY DEF MotorAt
  <2> QED
    BY <2>1, <2>2, <2>3
<1>18. MotorsIn'
  <2>1. ASSUME NEW k \in Motor, k # m PROVE MotorAt(k)'
    <3>1. MotorAt(k) /\ (MotorsFind(k)' <=> MotorsFind(k))
      BY <1>1, <1>2, <2>1 DEF MotorsIn
    <3>2. \A b \in Prim : /\ k \in asmMotors'[b] <=> k \in asmMotors[b]
                          /\ k \in asmIncons'[b] <=> k \in asmIncons[b]
      BY <1>11, <2>1
    <3> QED
      BY <1>1, <1>15, <3>1, <3>2, GainSame
  <2> QED
    BY <1>2, <1>17, <2>1 DEF MotorsIn
<1>19. /\ Attached \subseteq Motor /\ m \notin Attached /\ Attached' = Attached \cup {m}
       /\ \A k \in Attached : /\ EndsOf(k) \subseteq Prim
                              /\ \A q \in EndsOf(k) : AsmOfPrim(q) # NoPrim /\ Other(k, q) \in EndsOf(k)
  <2>1. Attached \subseteq Motor
    BY <1>1 DEF Attached, AsmTyped
  <2>2. m \notin Attached
    BY <1>2 DEF Attached
  <2>3. ASSUME NEW k PROVE k \in Attached' <=> k \in Attached \cup {m}
    <3>1. k \in Attached' <=> \E b \in Prim : k \in asmMotors'[b]
      BY DEF Attached
    <3>2. k \in Attached <=> \E b \in Prim : k \in asmMotors[b]
      BY DEF Attached
    <3> QED
      BY <1>11, <3>1, <3>2
  <2>4. ASSUME NEW k \in Attached
        PROVE  /\ EndsOf(k) \subseteq Prim
               /\ \A q \in EndsOf(k) : AsmOfPrim(q) # NoPrim /\ Other(k, q) \in EndsOf(k)
    <3>1. PICK b \in Prim : k \in asmMotors[b]
      BY DEF Attached
    <3>2. MotorAt(k)
      BY <1>1, <2>1 DEF MotorsIn
    <3>3. AsmOfPrim(End[k][1]) = b /\ AsmOfPrim(End[k][2]) = b
      BY <3>1, <3>2 DEF MotorAt
    <3>4. /\ EndsOf(k) = {End[k][1], End[k][2]} /\ End[k][1] \in Prim /\ End[k][2] \in Prim
          /\ Other(k, End[k][1]) = End[k][2] /\ Other(k, End[k][2]) = End[k][1]
      BY <2>1, Basics DEF Edge
    <3> QED
      BY <1>5, <3>3, <3>4
  <2>5. Attached' = Attached \cup {m}
    BY <2>3
  <2> QED
    BY <2>1, <2>2, <2>4, <2>5
<1>20. Hung'
  <2> SUFFICES ASSUME NEW c \in Clumps'
               PROVE  IF asmOf'[c] \in {c, NoPrim} THEN parent'[c] = NoPrim
                      ELSE /\ parent'[c] \in Prim /\ clumpOf'[parent'[c]] # c
                           /\ \E k \in Motor : By(c)' = {k}
    BY DEF Hung
  <2>1. c \in Clumps /\ c \in Prim
    BY <1>3 DEF Clumps
  <2>2. ASSUME NEW k
        PROVE  k \in By(c)' <=> /\ k \in Attached \cup {m} /\ parent'[c] \in EndsOf(k)
                                /\ clumpOf[Other(k, parent'[c])] = c
    BY <1>3, <1>19 DEF By, EndsOf, Other
  <2>3. CASE c = child
    <3>1. asmOf'[c] = a /\ a # c /\ a # NoPrim /\ parent'[c] = near
      BY <1>11, <1>13, <2>1, <2>3
    <3>2. m \in By(c)'
      BY <1>9, <2>2, <2>3, <3>1
    <3>3. ASSUME NEW k \in By(c)', k # m PROVE FALSE
      <4>1. k \in Attached /\ near \in EndsOf(k) /\ clumpOf[Other(k, near)] = child
        BY <2>2, <2>3, <3>1, <3>3
      <4>2. Other(k, near) \in EndsOf(k) /\ AsmOfPrim(Other(k, near)) # NoPrim
        BY <1>19, <4>1
      <4>3. AsmOfPrim(Other(k, near)) = NoPrim
        BY <4>1 DEF AsmOfPrim
      <4> QED
        BY <4>2, <4>3
    <3>4. By(c)' = {m}
      BY <3>2, <3>3
    <3> QED
      BY <1>2, <1>3, <1>9, <2>3, <3>1, <3>4
  <2>4. CASE c # child
    <3>1. parent'[c] = parent[c]
      BY <1>11, <2>1, <2>4
    <3>2. asmOf'[c] \in {c, NoPrim} <=> asmOf[c] \in {c, NoPrim}
      BY <1>5, <1>11, <1>13, <2>1, <2>4
    <3>3. CASE asmOf[c] \in {c, NoPrim}
      BY <1>1, <2>1, <3>1, <3>2, <3>3 DEF Hung
    <3>4. CASE asmOf[c] \notin {c, NoPrim}
      <4>1. /\ parent[c] \in Prim /\ clumpOf[parent[c]] # c /\ \E k \in Motor : By(c) = {k}
        BY <1>1, <2>1, <3>4 DEF Hung
      <4>2. PICK k \in Motor : By(c) = {k}
        BY <4>1
      <4>3. k \in Attached /\ parent[c] \in EndsOf(k)
        BY <4>2 DEF By
      <4>4. m \notin By(c)'
        <5>1. SUFFICES ASSUME m \in By(c)' PROVE FALSE
          OBVIOUS
        <5>2. parent[c] \in {far, near} /\ clumpOf[Other(m, parent[c])] = c
          BY <1>9, <2>2, <3>1, <5>1
        <5>3. parent[c] = far
          BY <1>8, <1>9, <2>4, <5>2
        <5>4. AsmOfPrim(parent[c]) = NoPrim
          BY <1>9, <5>3 DEF AsmOfPrim
        <5> QED
          BY <1>19, <4>3, <5>4
      <4>5. ASSUME NEW j PROVE j \in By(c)' <=> j \in By(c)
        <5>1. j \in By(c) <=> j \in Attached /\ parent[c] \in EndsOf(j) /\ clumpOf[Other(j, parent[c])] = c
          BY <1>19 DEF By
        <5> QED
          BY <1>19, <2>2, <3>1, <4>4, <5>1
      <4>6. By(c)' = {k}
        BY <4>2, <4>5
      <4> QED
        BY <1>3, <3>1, <3>2, <3>4, <4>1, <4>6
    <3> QED
      BY <3>3, <3>4
  <2> QED
    BY <2>3, <2>4
<1>21. Alone'
  BY <1>2 DEF Alone
<1>22. Phase' /\ pc' \in Loops
  BY <1>3, <1>4 DEF Phase, Loops
<1>23. motorAngles' \subseteq Motor
  BY <1>1, <1>3 DEF Typed
<1>24. \A q \in Prim : clumpOf[q] # q => parent'[q] = parent[q]
  BY <1>11 DEF Clumps
<1> QED
  BY <1>3, <1>4, <1>11, <1>14, <1>15, <1>16, <1>18, <1>20, <1>21, <1>22, <1>23, <1>24, GainStep

\* The last of the motors is attached, starts an assembly or is inconsistent.
LEMMA AttachMotorStep ==
  ASSUME Inv, AttachMotor
  PROVE  Inv'
<1>1. PICK m : m = Last(motors)
  OBVIOUS
<1>2. PICK c0 : c0 = clumpOf[End[m][1]]
  OBVIOUS
<1>3. PICK c1 : c1 = clumpOf[End[m][2]]
  OBVIOUS
<1>4. PICK root : root = IF Less(Power(c0), Power(c1)) THEN c1 ELSE c0
  OBVIOUS
<1>5. PICK child : child = IF root = c0 THEN c1 ELSE c0
  OBVIOUS
<1>6. AttachFrame(m)
  BY <1>1 DEF AttachMotor, AttachFrame
<1>7. \/ /\ asmOf[c0] # NoPrim /\ asmOf[c1] # NoPrim
         /\ AddInconsistentMotor(m, {asmOf[c0], asmOf[c1]})
         /\ UNCHANGED <<parent, freeClumps, asmOf, asmMotors, assemblies>>
      \/ /\ asmOf[c0] # NoPrim /\ asmOf[c1] = NoPrim
         /\ AddClump(asmOf[c0], c0, c1, m)
         /\ UNCHANGED <<asmIncons, assemblies>>
      \/ /\ asmOf[c0] = NoPrim /\ asmOf[c1] # NoPrim
         /\ AddClump(asmOf[c1], c1, c0, m)
         /\ UNCHANGED <<asmIncons, assemblies>>
      \/ /\ c0 = c1 /\ asmOf[c0] = NoPrim
         /\ asmOf' = [asmOf EXCEPT ![c0] = c0]
         /\ assemblies' = assemblies \cup {c0}
         /\ freeClumps' = freeClumps \ {c0}
         /\ AddInconsistentMotor(m, {c0})
         /\ UNCHANGED <<parent, asmMotors>>
      \/ /\ c0 # c1 /\ asmOf[c0] = NoPrim /\ asmOf[c1] = NoPrim
         /\ AddClump(root, root, child, m)
         /\ assemblies' = assemblies \cup {root}
         /\ UNCHANGED asmIncons
  BY <1>1, <1>2, <1>3, <1>4, <1>5 DEF AttachMotor
<1>8. /\ c0 \in Clumps /\ c1 \in Clumps
      /\ \A c \in Clumps : asmOf[c] = NoPrim => c \in freeClumps
  BY <1>2, <1>3, <1>6, AttachFacts
<1>9. asmOf \in [Prim -> Prim \cup {NoPrim}] /\ Clumps \subseteq Prim
  BY DEF Inv, Typed, AsmTyped, Clumps
<1>10. PICK no \in SUBSET Prim : no = {}
  OBVIOUS
<1>11. CASE /\ asmOf[c0] # NoPrim /\ asmOf[c1] # NoPrim
            /\ AddInconsistentMotor(m, {asmOf[c0], asmOf[c1]})
            /\ UNCHANGED <<parent, freeClumps, asmOf, asmMotors, assemblies>>
  <2>1. PICK a0 \in Prim : a0 = asmOf[c0]
    BY <1>8, <1>9, <1>11
  <2>2. PICK a1 \in Prim : a1 = asmOf[c1]
    BY <1>8, <1>9, <1>11
  <2>3. PICK both : both = {a0, a1}
    OBVIOUS
  <2>5. AddInconsistentMotor(m, both)
    BY <1>11, <2>1, <2>2, <2>3
  <2>4. /\ asmOf'[clumpOf[End[m][1]]] = a0 /\ asmOf'[clumpOf[End[m][2]]] = a1
        /\ asmOf' \in [Prim -> Prim \cup {NoPrim}]
        /\ \A c \in Prim : asmOf'[c] = IF c \in no THEN c ELSE asmOf[c]
        /\ no \subseteq freeClumps /\ asmMotors' = asmMotors /\ parent' = parent
        /\ freeClumps' = freeClumps \ no /\ assemblies' = assemblies \cup no
    BY <1>2, <1>3, <1>9, <1>10, <1>11, <2>1, <2>2
  <2> QED
    BY <1>6, <2>3, <2>4, <2>5, InconsistentStep
<1>12. CASE /\ asmOf[c0] # NoPrim /\ asmOf[c1] = NoPrim
            /\ AddClump(asmOf[c0], c0, c1, m)
            /\ UNCHANGED <<asmIncons, assemblies>>
  <2>1. PICK a \in Prim : a = asmOf[c0]
    BY <1>8, <1>9, <1>12
  <2>2. /\ c0 # c1 /\ {clumpOf[End[m][1]], clumpOf[End[m][2]]} = {c0, c1} /\ asmOf[c1] = NoPrim
        /\ IF asmOf[c0] = NoPrim THEN a = c0 /\ no = {c0} ELSE a = asmOf[c0] /\ no = {}
        /\ AddClump(a, c0, c1, m) /\ asmIncons' = asmIncons /\ assemblies' = assemblies \cup no
        /\ no \in SUBSET {c0}
    BY <1>2, <1>3, <1>10, <1>12, <2>1
  <2> QED
    BY <1>6, <1>8, <2>2, AddClumpStep
<1>13. CASE /\ asmOf[c0] = NoPrim /\ asmOf[c1] # NoPrim
            /\ AddClump(asmOf[c1], c1, c0, m)
            /\ UNCHANGED <<asmIncons, assemblies>>
  <2>1. PICK a \in Prim : a = asmOf[c1]
    BY <1>8, <1>9, <1>13
  <2>2. /\ c1 # c0 /\ {clumpOf[End[m][1]], clumpOf[End[m][2]]} = {c1, c0} /\ asmOf[c0] = NoPrim
        /\ IF asmOf[c1] = NoPrim THEN a = c1 /\ no = {c1} ELSE a = asmOf[c1] /\ no = {}
        /\ AddClump(a, c1, c0, m) /\ asmIncons' = asmIncons /\ assemblies' = assemblies \cup no
        /\ no \in SUBSET {c1}
    BY <1>2, <1>3, <1>10, <1>13, <2>1
  <2> QED
    BY <1>6, <1>8, <2>2, AddClumpStep
<1>14. CASE /\ c0 = c1 /\ asmOf[c0] = NoPrim
            /\ asmOf' = [asmOf EXCEPT ![c0] = c0]
            /\ assemblies' = assemblies \cup {c0}
            /\ freeClumps' = freeClumps \ {c0}
            /\ AddInconsistentMotor(m, {c0})
            /\ UNCHANGED <<parent, asmMotors>>
  <2>1. PICK in \in SUBSET Prim : in = {c0}
    BY <1>8, <1>9
  <2>2. PICK both : both = {c0}
    OBVIOUS
  <2>7. both = {c0, c0} /\ AddInconsistentMotor(m, both)
    BY <1>14, <2>2
  <2>3. c0 \in Prim
    BY <1>8, <1>9
  <2>4. asmOf' \in [Prim -> Prim \cup {NoPrim}]
    BY <1>9, <1>14, <2>3
  <2>5. \A c \in Prim : asmOf'[c] = IF c \in in THEN c ELSE asmOf[c]
    BY <1>9, <1>14, <2>1
  <2>6. /\ asmOf'[clumpOf[End[m][1]]] = c0 /\ asmOf'[clumpOf[End[m][2]]] = c0
        /\ in \subseteq freeClumps /\ asmMotors' = asmMotors /\ parent' = parent
        /\ freeClumps' = freeClumps \ in /\ assemblies' = assemblies \cup in
    BY <1>2, <1>3, <1>8, <1>14, <2>1, <2>3, <2>5
  <2> QED
    BY <1>6, <2>3, <2>4, <2>5, <2>6, <2>7, InconsistentStep
<1>15. CASE /\ c0 # c1 /\ asmOf[c0] = NoPrim /\ asmOf[c1] = NoPrim
            /\ AddClump(root, root, child, m)
            /\ assemblies' = assemblies \cup {root}
            /\ UNCHANGED asmIncons
  <2>1. /\ root \in Clumps /\ child \in Clumps /\ root # child /\ asmOf[child] = NoPrim
        /\ asmOf[root] = NoPrim /\ {clumpOf[End[m][1]], clumpOf[End[m][2]]} = {root, child}
    BY <1>2, <1>3, <1>4, <1>5, <1>8, <1>15
  <2>2. PICK new \in SUBSET {root} : new = {root}
    OBVIOUS
  <2>3. /\ IF asmOf[root] = NoPrim THEN root = root /\ new = {root} ELSE root = asmOf[root] /\ new = {}
        /\ AddClump(root, root, child, m) /\ asmIncons' = asmIncons /\ assemblies' = assemblies \cup new
        /\ root \in Prim
    BY <1>9, <1>15, <2>1, <2>2
  <2> QED
    BY <1>6, <2>1, <2>3, AddClumpStep
<1> QED
  BY <1>7, <1>11, <1>12, <1>13, <1>14, <1>15

-----------------------------------------------------------------------------
\* A contact is given to the assembly of its ends, or to both and perhaps sent down.
LEMMA RouteEdgeStep ==
  ASSUME Inv, NEW e \in Contact, RouteEdge(e)
  PROVE  Inv'
<1>1. /\ Typed /\ Tree /\ ClumpsFiled /\ MotorsIn /\ EdgesIn /\ Hung /\ Alone
      /\ RigidIn /\ PrimitivesFiled /\ AnchorsLoose /\ Phase /\ NoPrim \notin Prim
      /\ WorldTyped /\ FilesTyped /\ BodyTyped /\ AsmTyped /\ motorAngles \subseteq Motor /\ pc \in Loops
  BY TypedParts, Basics DEF Inv, GroupInv
<1>2. PICK As : As = {AsmOfPrim(p) : p \in EndsOf(e)}
  OBVIOUS
<1>3. PICK a0 : a0 = AsmOfPrim(End[e][1])
  OBVIOUS
<1>4. PICK a1 : a1 = AsmOfPrim(End[e][2])
  OBVIOUS
<1>5. /\ pc = "edges" /\ e \in edges /\ edges' = edges \ {e}
      /\ internalEdges' = [a \in Prim |-> IF ~(Cardinality(As) = 2) /\ a \in As
                                          THEN internalEdges[a] \cup {e} ELSE internalEdges[a]]
      /\ externalEdges' = [a \in Prim |-> IF Cardinality(As) = 2 /\ a \in As
                                          THEN externalEdges[a] \cup {e} ELSE externalEdges[a]]
      /\ downEdges' = IF GoesDown(As) THEN downEdges \cup {e} ELSE downEdges
  BY <1>2 DEF RouteEdge
<1>6. /\ pc' = pc /\ joined' = joined
      /\ present' = present /\ anchored' = anchored /\ anchors' = anchors /\ rigidTwos' = rigidTwos
      /\ rigidOnes' = rigidOnes /\ rigidZeros' = rigidZeros /\ primitives' = primitives
      /\ clumpOf' = clumpOf /\ parent' = parent /\ depth' = depth /\ held' = held
      /\ inconsistent' = inconsistent /\ motors' = motors /\ motorAngles' = motorAngles
      /\ anchoredClumps' = anchoredClumps /\ freeClumps' = freeClumps
      /\ asmOf' = asmOf /\ asmMotors' = asmMotors /\ asmIncons' = asmIncons
      /\ assemblies' = assemblies /\ downAsm' = downAsm
  BY DEF RouteEdge, worldVars, rigidVars, clumpVars, fileVars, motorVars
<1>7. e \in joined /\ End[e][1] \in Prim /\ End[e][2] \in Prim
      /\ EndsOf(e) = {End[e][1], End[e][2]}
  BY <1>1, <1>5, Basics DEF EdgesIn, EdgeAt, Edge
<1>8. As = {a0, a1}
  BY <1>2, <1>3, <1>4, <1>7
<1>9. /\ Cardinality(As) = 2 <=> a0 # a1
      /\ GoesDown(As) <=> a0 # a1 /\ ~(a0 \in held /\ a1 \in held)
  <2>1. Cardinality(As) = 2 <=> a0 # a1
    <3>1. /\ a0 = a1 => Cardinality({a0, a1}) = 1
          /\ a0 # a1 => Cardinality({a0, a1}) = 2
      BY CardPair
    <3>2. PICK n : n = Cardinality({a0, a1})
      OBVIOUS
    <3> QED
      BY <1>8, <3>1, <3>2
  <2> QED
    BY <1>8, <2>1 DEF GoesDown
<1>10. a0 \in Prim /\ a1 \in Prim
  <2>1. anchoredClumps = {} /\ freeClumps = {} /\ DOMAIN primitives = {}
    BY <1>1, <1>5 DEF Phase
  <2>2. ASSUME NEW p \in Prim, p \in present PROVE AsmOfPrim(p) \in Prim
    <3>1. clumpOf[p] # NoPrim
      BY <1>1, <2>1, <2>2 DEF PrimitivesFiled
    <3>2. clumpOf[p] \in Clumps /\ clumpOf[p] \in Prim
      BY <1>1, <3>1 DEF Tree, Clumps, BodyTyped
    <3>3. asmOf[clumpOf[p]] # NoPrim
      BY <1>1, <2>1, <3>2 DEF ClumpsFiled
    <3> QED
      BY <1>1, <3>1, <3>2, <3>3 DEF AsmOfPrim, AsmTyped
  <2>3. End[e][1] \in present /\ End[e][2] \in present
    BY <1>1, <1>7 DEF WorldTyped
  <2> QED
    BY <1>3, <1>4, <1>7, <2>2, <2>3
<1>11. Typed'
  <2>1. WorldTyped' /\ FilesTyped' /\ BodyTyped'
    BY <1>1, <1>6 DEF WorldTyped, FilesTyped, BodyTyped, EndsOf
  <2>2. internalEdges' \in [Prim -> SUBSET Contact]
    BY <1>1, <1>5 DEF AsmTyped
  <2>3. externalEdges' \in [Prim -> SUBSET Contact]
    BY <1>1, <1>5 DEF AsmTyped
  <2>4. AsmTyped'
    BY <1>1, <1>5, <1>6, <2>2, <2>3 DEF AsmTyped
  <2> QED
    BY <1>1, <1>6, <2>1, <2>4, TypedParts
<1>12. RigidIn' /\ MotorsIn'
  BY <1>1, <1>6, RigidSame, MotorsSame
<1>13. EdgesIn'
  <2> SUFFICES ASSUME NEW k \in Contact PROVE EdgeAt(k)'
    BY DEF EdgesIn
  <2>1. EdgeAt(k)
    BY <1>1 DEF EdgesIn
  <2>2. CASE k = e
    <3>1. /\ e \notin edges' /\ e \in joined' /\ AsmOfPrim(End[e][1])' = a0 /\ AsmOfPrim(End[e][2])' = a1
          /\ held' = held
      BY <1>3, <1>4, <1>5, <1>6, <1>7 DEF AsmOfPrim
    <3>2. /\ \A a \in Prim : e \notin internalEdges[a] /\ e \notin externalEdges[a]
          /\ e \notin downEdges
      BY <1>5, <2>1, <2>2 DEF EdgeAt
    <3>3. \A a \in Prim : /\ e \in internalEdges'[a] <=> a0 = a1 /\ a \in {a0, a1}
                          /\ e \in externalEdges'[a] <=> a0 # a1 /\ a \in {a0, a1}
      BY <1>5, <1>8, <1>9, <3>2
    <3>4. e \in downEdges' <=> a0 # a1 /\ ~(a0 \in held /\ a1 \in held)
      BY <1>5, <1>9, <3>2
    <3>5. EdgeAt(e)' <=>
            /\ e \in edges' => e \in joined'
            /\ \A a \in Prim : e \in internalEdges'[a] <=>
                 /\ e \in joined' /\ e \notin edges'
                 /\ a = AsmOfPrim(End[e][1])' /\ a = AsmOfPrim(End[e][2])'
            /\ \A a \in Prim : e \in externalEdges'[a] <=>
                 /\ e \in joined' /\ e \notin edges'
                 /\ AsmOfPrim(End[e][1])' # AsmOfPrim(End[e][2])'
                 /\ a \in {AsmOfPrim(End[e][1])', AsmOfPrim(End[e][2])'}
            /\ e \in joined' /\ e \notin edges' =>
                 AsmOfPrim(End[e][1])' \in Prim /\ AsmOfPrim(End[e][2])' \in Prim
            /\ e \in downEdges' <=>
                 /\ e \in joined' /\ e \notin edges'
                 /\ AsmOfPrim(End[e][1])' # AsmOfPrim(End[e][2])'
                 /\ ~(AsmOfPrim(End[e][1])' \in held' /\ AsmOfPrim(End[e][2])' \in held')
      BY DEF EdgeAt
    <3>6. EdgeAt(e)'
      BY <1>10, <3>1, <3>3, <3>4, <3>5
    <3> QED
      BY <2>2, <3>6
  <2>3. CASE k # e
    <3>1. /\ k \in joined' <=> k \in joined
          /\ k \in edges' <=> k \in edges
          /\ k \in downEdges' <=> k \in downEdges
          /\ \A a \in Prim : /\ k \in externalEdges'[a] <=> k \in externalEdges[a]
                             /\ k \in internalEdges'[a] <=> k \in internalEdges[a]
      BY <1>5, <1>6, <2>3
    <3> QED
      BY <1>6, <2>1, <3>1 DEF EdgeAt, AsmOfPrim
  <2> QED
    BY <2>2, <2>3
<1>14. GroupInv'
  <2>1. Tree'
    BY <1>1, <1>6, TreeSame
  <2>2. ClumpsFiled' /\ Hung' /\ Alone'
    BY <1>1, <1>6, ClumpsSame
  <2> QED
    BY <1>12, <1>13, <2>1, <2>2 DEF GroupInv
<1>15. PrimitivesFiled' /\ AnchorsLoose' /\ Phase'
  <2>1. PrimitivesFiled' /\ AnchorsLoose'
    BY <1>1, <1>6 DEF PrimitivesFiled, AnchorsLoose, Clumps
  <2>2. Phase'
    BY <1>1, <1>5, <1>6 DEF Phase
  <2> QED
    BY <2>1, <2>2
<1> QED
  BY <1>11, <1>12, <1>14, <1>15 DEF Inv

-----------------------------------------------------------------------------
\* The empty stage.
LEMMA InitInv == Init => Inv
<1> SUFFICES ASSUME Init PROVE Inv
  OBVIOUS
<1> USE DEF Init
<1>1. NoPrim \notin Prim /\ DOMAIN <<>> = {} /\ ToSet(<<>>) = {}
  BY Basics DEF ToSet
<1>2. Clumps = {} /\ Attached = {}
  BY <1>1 DEF Clumps, Attached
<1>3. /\ \A p \in Prim : AsmOfPrim(p) = NoPrim
      /\ \A m \in Motor : ~MotorsFind(m)
  BY <1>1 DEF AsmOfPrim, MotorsFind
<1>4. Tree
  BY <1>1 DEF Tree
<1>5. ClumpsFiled
  BY <1>1, <1>2 DEF ClumpsFiled
<1>6. MotorsIn /\ EdgesIn /\ Alone /\ RigidIn
  <2>1. Once(motors)
    BY DEF Once
  <2>2. \A m \in Motor : MotorAt(m)
    BY <1>3 DEF MotorAt
  <2>3. EdgesIn
    BY DEF EdgesIn, EdgeAt
  <2>4. RigidIn
    BY <1>1 DEF RigidIn, RigidAt, InBuffers
  <2> QED
    BY <2>1, <2>2, <2>3, <2>4 DEF MotorsIn, Alone
<1>7. Hung
  BY <1>2 DEF Hung
<1>8. PrimitivesFiled /\ AnchorsLoose
  BY <1>1 DEF PrimitivesFiled, AnchorsLoose, Clumps
<1>9. Phase
  BY <1>2 DEF Phase
<1>10. Typed
  <2>1. AsmTyped
    BY DEF AsmTyped
  <2> QED
    BY <1>1, <2>1 DEF Typed
<1> QED
  BY <1>4, <1>5, <1>6, <1>7, <1>8, <1>9, <1>10 DEF Inv, GroupInv

\* Every step keeps the invariant.
LEMMA NextInv ==
  ASSUME Inv, Tame, [Next]_vars
  PROVE  Inv'
<1>1. CASE \E p \in Prim : AddPrimitive(p) \/ RemovePrimitive(p) \/ AddAnchor(p) \/ RemoveAnchor(p)
  BY <1>1, AddPrimitiveStep, RemovePrimitiveStep, AddAnchorStep, RemoveAnchorStep
<1>2. CASE \E e \in Edge : AddEdge(e)
  BY <1>2, AddEdgeStep
<1>3. CASE \E r \in Rigid : RemoveRigid(r)
  BY <1>3, RemoveRigidStep
<1>4. CASE \E m \in Motor : RemoveMotor(m) \/ ChangeMotorAngle(m)
  <2>1. PICK m \in Motor : RemoveMotor(m) \/ ChangeMotorAngle(m)
    BY <1>4
  <2>2. CASE RemoveMotor(m)
    BY <2>2, RemoveMotorStep
  <2>3. CASE ChangeMotorAngle(m)
    BY <2>3, AnglesStep
  <2> QED
    BY <2>1, <2>2, <2>3
<1>5. CASE \E e \in Contact : RemoveContact(e)
  BY <1>5, RemoveContactStep
<1>6. CASE StartProcess
  BY <1>6, StartStep
<1>7. CASE \E p \in Prim : ProcessAnchor(p) \/ ProcessPrimitive(p)
  BY <1>7, ProcessAnchorStep, ProcessPrimitiveStep
<1>8. CASE \E r \in Rigid : ProcessRigidTwo(r) \/ ProcessRigidOne(r)
  BY <1>8, ProcessRigidTwoStep, ProcessRigidOneStep
<1>9. CASE AnchorsDone \/ TwosDone \/ OnesDone \/ PrimitivesDone \/ EdgesDone
  BY <1>9, DoneStep
<1>10. CASE FormAnchored \/ SortMotors \/ AttachMotor \/ FormFree
  BY <1>10, FormAnchoredStep, SortMotorsStep, AttachMotorStep, FormFreeStep
<1>11. CASE \E e \in Contact : RouteEdge(e)
  BY <1>11, RouteEdgeStep
<1>12. CASE UpdateMotorAngles
  BY <1>12, AnglesStep
<1>13. CASE UNCHANGED vars
  <2>1. UNCHANGED <<worldVars, rigidVars, clumpVars, fileVars, motors, asmVars>>
        /\ pc' = pc /\ motorAngles' = motorAngles
    BY <1>13 DEF vars, motorVars
  <2>2. pc \in Loops /\ motorAngles \subseteq Motor /\ Phase
    BY TypedParts DEF Inv
  <2>3. Phase'
    BY <2>1, <2>2 DEF Phase, Clumps, rigidVars, clumpVars, fileVars, asmVars
  <2> QED
    BY <2>1, <2>2, <2>3, PcStep
<1> QED
  BY <1>1, <1>2, <1>3, <1>4, <1>5, <1>6, <1>7, <1>8, <1>9, <1>10, <1>11, <1>12, <1>13
     DEF Next, Change, Process

\* The inductive invariant holds always.
THEOREM InvariantHolds ==
  ASSUME Tame
  PROVE  Spec => []Inv
<1>1. Init => Inv
  BY InitInv
<1>2. Inv /\ [Next]_vars => Inv'
  BY NextInv
<1> QED
  BY <1>1, <1>2, PTL DEF Spec

-----------------------------------------------------------------------------
\* What the invariant says of the types: a clump is no deeper than there are primitives.
LEMMA TypeFollows ==
  ASSUME Inv
  PROVE  TypeOK
<1>1. Typed /\ Tree /\ AsmTyped /\ BodyTyped
  BY TypedParts DEF Inv, GroupInv
<1> DEFINE N == Cardinality(Prim)
<1>2. N \in Nat
  BY ClumpStageAssumption, FS_CardinalityType
<1>3. \A p \in Prim : depth[p] \in -1..N
  <2> SUFFICES ASSUME NEW p \in Prim PROVE depth[p] \in -1..N
    OBVIOUS
  <2>1. CASE clumpOf[p] = NoPrim
    <3>1. depth[p] = -1
      BY <1>1, <2>1 DEF Tree
    <3> QED
      BY <1>2, <3>1
  <2>2. CASE clumpOf[p] # NoPrim
    <3>1. PICK c \in Clumps : c = clumpOf[p]
      BY <1>1, <2>2 DEF Tree, Clumps, BodyTyped
    <3>2. p \in Members(c)
      BY <3>1 DEF Members
    <3>3. depth[p] \in 0..N
      BY <1>1, <3>2, LevelDepth
    <3> QED
      BY <1>2, <3>3
  <2> QED
    BY <2>1, <2>2
<1> HIDE DEF N
<1>4. depth \in [Prim -> -1..N]
  BY <1>1, <1>3 DEF BodyTyped
<1>5. ToSet(motors) \subseteq Motor
  BY <1>1 DEF AsmTyped, ToSet
<1> QED
  BY <1>1, <1>4, <1>5 DEF TypeOK, Typed, AsmTyped, N

\* Of the rigid joints.
LEMMA RigidFollows ==
  ASSUME Inv
  PROVE  RigidFiled
<1>1. Typed /\ Tree /\ RigidIn /\ FilesTyped /\ BodyTyped
  BY TypedParts DEF Inv, GroupInv
<1>2. rigidTwos \cap rigidZeros = {} /\ DOMAIN rigidOnes \cap (rigidTwos \cup rigidZeros) = {}
  BY <1>1 DEF FilesTyped, RigidIn, RigidAt
<1>3. ASSUME NEW r \in Rigid
      PROVE  LET Cs == {clumpOf[p] : p \in EndsOf(r)}
                 incons == {c \in Prim : r \in inconsistent[c]}
             IN  /\ r \in DOMAIN rigidOnes => Cardinality(Cs) = 2 /\ NoPrim \in Cs
                 /\ r \in rigidZeros => Cs = {NoPrim}
                 /\ InBuffers(r) => r \in joined /\ incons = {}
                 /\ incons # {} => r \in joined /\ incons = Cs /\ Cs \subseteq held
                 /\ r \in joined /\ ~InBuffers(r) =>
                      NoPrim \notin Cs /\ (incons = {} <=> Cardinality(Cs) = 1)
  <2>1. PICK c0 : c0 = clumpOf[End[r][1]]
    OBVIOUS
  <2>2. PICK c1 : c1 = clumpOf[End[r][2]]
    OBVIOUS
  <2>3. PICK Cs : Cs = {clumpOf[p] : p \in EndsOf(r)}
    OBVIOUS
  <2>4. PICK incons : incons = {c \in Prim : r \in inconsistent[c]}
    OBVIOUS
  <2>5. Cs = {c0, c1}
    BY <2>1, <2>2, <2>3, EndClumps DEF Edge
  <2>6. /\ c0 = c1 => Cardinality({c0, c1}) = 1
        /\ c0 # c1 => Cardinality({c0, c1}) = 2
    BY CardPair
  <2>7. PICK n : n = Cardinality(Cs)
    OBVIOUS
  <2>8. (c0 = c1 => n = 1) /\ (c0 # c1 => n = 2)
    BY <2>5, <2>6, <2>7
  <2>9. /\ r \in DOMAIN rigidOnes => r \notin rigidZeros /\ c0 # c1 /\ NoPrim \in {c0, c1}
        /\ r \in rigidZeros => c0 = NoPrim /\ c1 = NoPrim
        /\ InBuffers(r) => r \in joined /\ \A c \in Prim : r \notin inconsistent[c]
        /\ \A c \in Prim : r \in inconsistent[c] =>
             /\ r \in joined /\ c \in {c0, c1} /\ c0 # c1 /\ c0 \in held /\ c1 \in held
             /\ r \in inconsistent[c0] /\ r \in inconsistent[c1]
        /\ r \in joined /\ ~InBuffers(r) =>
             c0 \in Prim /\ c1 \in Prim /\ (c0 = c1 \/ r \in inconsistent[c0])
    BY <1>1, <2>1, <2>2 DEF RigidIn, RigidAt
  <2>10. held \subseteq Prim /\ NoPrim \notin Prim
    BY <1>1, Basics DEF BodyTyped
  <2>11. \A c : c \in incons <=> c \in Prim /\ r \in inconsistent[c]
    BY <2>4
  <2>12. incons # {} => r \in joined /\ incons = Cs /\ Cs \subseteq held
    <3>1. ASSUME NEW c \in incons PROVE r \in joined /\ incons = {c0, c1} /\ {c0, c1} \subseteq held
      <4>1. /\ r \in joined /\ c0 \in held /\ c1 \in held
            /\ r \in inconsistent[c0] /\ r \in inconsistent[c1]
        BY <2>9, <2>11, <3>1
      <4>2. \A d \in incons : d \in {c0, c1}
        BY <2>9, <2>11
      <4>3. c0 \in incons /\ c1 \in incons
        BY <2>10, <2>11, <4>1
      <4> QED
        BY <4>1, <4>2, <4>3
    <3> QED
      BY <2>5, <3>1
  <2>13. InBuffers(r) => r \in joined /\ incons = {}
    BY <2>9, <2>11
  <2>14. r \in joined /\ ~InBuffers(r) => NoPrim \notin Cs /\ (incons = {} <=> n = 1)
    <3> SUFFICES ASSUME r \in joined, ~InBuffers(r) PROVE NoPrim \notin Cs /\ (incons = {} <=> n = 1)
      OBVIOUS
    <3>1. c0 \in Prim /\ c1 \in Prim /\ (c0 = c1 \/ r \in inconsistent[c0])
      BY <2>9
    <3>2. c0 # c1 => c0 \in incons
      BY <2>11, <3>1
    <3>3. c0 = c1 => incons = {}
      BY <2>9, <2>11
    <3> QED
      BY <2>5, <2>8, <2>10, <3>1, <3>2, <3>3
  <2>15. /\ r \in DOMAIN rigidOnes => n = 2 /\ NoPrim \in Cs
         /\ r \in rigidZeros => Cs = {NoPrim}
    BY <2>5, <2>8, <2>9
  <2> QED
    BY <2>3, <2>4, <2>7, <2>12, <2>13, <2>14, <2>15
<1> QED
  BY <1>2, <1>3 DEF RigidFiled

\* Of the contacts.
LEMMA EdgesFollow ==
  ASSUME Inv
  PROVE  EdgesFiled
<1>1. Typed /\ EdgesIn /\ BodyTyped
  BY TypedParts DEF Inv, GroupInv
<1> SUFFICES ASSUME NEW e \in Contact
             PROVE  LET As == {AsmOfPrim(p) : p \in EndsOf(e)}
                        in == {a \in Prim : e \in internalEdges[a]}
                        ex == {a \in Prim : e \in externalEdges[a]}
                    IN  /\ e \in edges => e \in joined /\ in = {} /\ ex = {}
                        /\ e \in joined \ edges => /\ NoPrim \notin As
                                                   /\ in = IF Cardinality(As) = 1 THEN As ELSE {}
                                                   /\ ex = IF Cardinality(As) = 2 THEN As ELSE {}
                        /\ e \in downEdges <=> Cardinality(ex) = 2 /\ ~(ex \subseteq held)
                        /\ e \notin joined => in = {} /\ ex = {}
  BY DEF EdgesFiled
<1>2. PICK a0 : a0 = AsmOfPrim(End[e][1])
  OBVIOUS
<1>3. PICK a1 : a1 = AsmOfPrim(End[e][2])
  OBVIOUS
<1>4. PICK As : As = {AsmOfPrim(p) : p \in EndsOf(e)}
  OBVIOUS
<1>5. PICK in : in = {a \in Prim : e \in internalEdges[a]}
  OBVIOUS
<1>6. PICK ex : ex = {a \in Prim : e \in externalEdges[a]}
  OBVIOUS
<1>7. As = {a0, a1}
  <2>1. EndsOf(e) = {End[e][1], End[e][2]}
    BY Basics DEF Edge
  <2> QED
    BY <1>2, <1>3, <1>4, <2>1
<1>8. /\ e \in edges => e \in joined
      /\ \A a \in Prim : e \in internalEdges[a] <=>
           e \in joined /\ e \notin edges /\ a = a0 /\ a = a1
      /\ \A a \in Prim : e \in externalEdges[a] <=>
           e \in joined /\ e \notin edges /\ a0 # a1 /\ a \in {a0, a1}
      /\ e \in joined /\ e \notin edges => a0 \in Prim /\ a1 \in Prim
      /\ e \in downEdges <=>
           e \in joined /\ e \notin edges /\ a0 # a1 /\ ~(a0 \in held /\ a1 \in held)
  BY <1>1, <1>2, <1>3 DEF EdgesIn, EdgeAt
<1>9. PICK n : n = Cardinality(As)
  OBVIOUS
<1>10. (a0 = a1 => n = 1) /\ (a0 # a1 => n = 2)
  <2>1. /\ a0 = a1 => Cardinality({a0, a1}) = 1
        /\ a0 # a1 => Cardinality({a0, a1}) = 2
    BY CardPair
  <2> QED
    BY <1>7, <1>9, <2>1
<1>11. NoPrim \notin Prim
  BY Basics
<1>12. /\ \A a : a \in in <=> a \in Prim /\ e \in joined /\ e \notin edges /\ a = a0 /\ a = a1
       /\ \A a : a \in ex <=> a \in Prim /\ e \in joined /\ e \notin edges /\ a0 # a1 /\ a \in {a0, a1}
  BY <1>5, <1>6, <1>8
<1>13. e \in edges \/ e \notin joined => in = {} /\ ex = {}
  BY <1>12
<1>14. e \in joined \ edges => /\ NoPrim \notin As
                               /\ in = IF n = 1 THEN As ELSE {}
                               /\ ex = IF n = 2 THEN As ELSE {}
  <2> SUFFICES ASSUME e \in joined \ edges
               PROVE  /\ NoPrim \notin As
                      /\ in = IF n = 1 THEN As ELSE {}
                      /\ ex = IF n = 2 THEN As ELSE {}
    OBVIOUS
  <2>1. a0 \in Prim /\ a1 \in Prim
    BY <1>8
  <2>2. CASE a0 = a1
    BY <1>7, <1>10, <1>11, <1>12, <2>1, <2>2
  <2>3. CASE a0 # a1
    BY <1>7, <1>10, <1>11, <1>12, <2>1, <2>3
  <2> QED
    BY <2>2, <2>3
<1>15. e \in downEdges <=> Cardinality(ex) = 2 /\ ~(ex \subseteq held)
  <2>1. CASE e \in joined \ edges /\ a0 # a1
    <3>1. ex = As /\ n = 2
      BY <1>10, <1>14, <2>1
    <3> QED
      BY <1>7, <1>8, <1>9, <2>1, <3>1
  <2>2. CASE ~(e \in joined \ edges /\ a0 # a1)
    <3>1. ex = {}
      BY <1>12, <2>2
    <3>2. Cardinality(ex) = 0
      BY <3>1, FS_EmptySet
    <3> QED
      BY <1>8, <2>2, <3>2
  <2> QED
    BY <2>1, <2>2
<1> QED
  BY <1>4, <1>5, <1>6, <1>8, <1>9, <1>13, <1>14, <1>15

\* Of the motors.
LEMMA MotorsFollow ==
  ASSUME Inv
  PROVE  MotorsFiled
<1>1. Typed /\ MotorsIn /\ Hung /\ AsmTyped /\ ClumpsFiled
  BY TypedParts DEF Inv, GroupInv
<1>2. NoPrim \notin Prim
  BY Basics
<1>3. ASSUME NEW m \in Motor
      PROVE  LET in == {a \in Prim : m \in asmMotors[a]}
                 incons == {a \in Prim : m \in asmIncons[a]}
                 As == {AsmOfPrim(p) : p \in EndsOf(m)}
             IN  /\ m \in joined => MotorsFind(m) \/ As \in {in, incons}
                 /\ MotorsFind(m) => m \in joined /\ in = {} /\ incons = {}
                 /\ in # {} => m \in joined /\ in = As /\ Cardinality(in) = 1 /\ incons = {}
                 /\ incons # {} => m \in joined /\ incons = As
  <2>1. PICK a0 : a0 = AsmOfPrim(End[m][1])
    OBVIOUS
  <2>2. PICK a1 : a1 = AsmOfPrim(End[m][2])
    OBVIOUS
  <2>3. PICK As : As = {AsmOfPrim(p) : p \in EndsOf(m)}
    OBVIOUS
  <2>4. PICK in : in = {a \in Prim : m \in asmMotors[a]}
    OBVIOUS
  <2>5. PICK incons : incons = {a \in Prim : m \in asmIncons[a]}
    OBVIOUS
  <2>6. As = {a0, a1}
    <3>1. EndsOf(m) = {End[m][1], End[m][2]}
      BY Basics DEF Edge
    <3> QED
      BY <2>1, <2>2, <2>3, <3>1
  <2>7. /\ MotorsFind(m) =>
             m \in joined /\ \A a \in Prim : m \notin asmMotors[a] /\ m \notin asmIncons[a]
        /\ \A a \in Prim : m \in asmMotors[a] =>
             m \in joined /\ a0 = a /\ a1 = a /\ \A b \in Prim : m \notin asmIncons[b]
        /\ \A a \in Prim : m \in asmIncons[a] =>
             /\ m \in joined /\ a \in {a0, a1} /\ a0 \in Prim /\ a1 \in Prim
             /\ m \in asmIncons[a0] /\ m \in asmIncons[a1]
        /\ m \in joined /\ ~MotorsFind(m) =>
             a0 \in Prim /\ (m \in asmMotors[a0] \/ m \in asmIncons[a0])
    BY <1>1, <2>1, <2>2 DEF MotorsIn, MotorAt
  <2>8. /\ \A a : a \in in <=> a \in Prim /\ m \in asmMotors[a]
        /\ \A a : a \in incons <=> a \in Prim /\ m \in asmIncons[a]
    BY <2>4, <2>5
  <2>9. MotorsFind(m) => m \in joined /\ in = {} /\ incons = {}
    BY <2>7, <2>8
  <2>10. in # {} => m \in joined /\ in = As /\ Cardinality(in) = 1 /\ incons = {}
    <3>1. ASSUME NEW a \in in PROVE m \in joined /\ in = {a0} /\ a0 = a1 /\ incons = {}
      <4>1. m \in joined /\ a0 = a /\ a1 = a /\ incons = {}
        BY <2>7, <2>8, <3>1
      <4>2. \A b \in in : b = a0
        BY <2>7, <2>8
      <4> QED
        BY <3>1, <4>1, <4>2
    <3>2. Cardinality({a0}) = 1
      BY FS_Singleton
    <3> QED
      BY <2>6, <3>1, <3>2
  <2>11. incons # {} => m \in joined /\ incons = As
    <3>1. ASSUME NEW a \in incons PROVE m \in joined /\ incons = {a0, a1}
      <4>1. m \in joined /\ a0 \in incons /\ a1 \in incons
        BY <2>7, <2>8, <3>1
      <4>2. \A b \in incons : b \in {a0, a1}
        BY <2>7, <2>8
      <4> QED
        BY <4>1, <4>2
    <3> QED
      BY <2>6, <3>1
  <2>12. m \in joined => MotorsFind(m) \/ As \in {in, incons}
    <3>1. ASSUME m \in joined, ~MotorsFind(m) PROVE As \in {in, incons}
      <4>1. in # {} \/ incons # {}
        BY <2>7, <2>8, <3>1
      <4> QED
        BY <2>10, <2>11, <4>1
    <3> QED
      BY <3>1
  <2> QED
    BY <2>3, <2>4, <2>5, <2>9, <2>10, <2>11, <2>12
<1>4. \A i, k \in DOMAIN motors : motors[i] = motors[k] => i = k
  BY <1>1 DEF MotorsIn, Once
<1>5. ASSUME NEW c \in Prim, c \in Clumps
      PROVE  Cardinality({m \in UNION {asmMotors[a] : a \in Prim} :
                            parent[c] \in EndsOf(m) /\ clumpOf[Other(m, parent[c])] = c})
               = IF asmOf[c] \in {c, NoPrim} THEN 0 ELSE 1
  <2>1. {m \in UNION {asmMotors[a] : a \in Prim} :
           parent[c] \in EndsOf(m) /\ clumpOf[Other(m, parent[c])] = c} = By(c)
    BY DEF By, Attached
  <2>2. CASE asmOf[c] \in {c, NoPrim}
    <3>1. parent[c] = NoPrim
      BY <1>1, <1>5, <2>2 DEF Hung
    <3>2. ASSUME NEW m \in By(c) PROVE FALSE
      <4>1. m \in Motor /\ parent[c] \in EndsOf(m)
        BY <1>1, <3>2 DEF By, Attached, AsmTyped
      <4>2. EndsOf(m) \subseteq Prim
        BY <4>1, Basics DEF Edge
      <4> QED
        BY <1>2, <3>1, <4>1, <4>2
    <3>3. By(c) = {}
      BY <3>2
    <3>4. Cardinality(By(c)) = 0
      BY <3>3, FS_EmptySet
    <3> QED
      BY <2>1, <2>2, <3>4
  <2>3. CASE asmOf[c] \notin {c, NoPrim}
    <3>1. PICK m \in Motor : By(c) = {m}
      BY <1>1, <1>5, <2>3 DEF Hung
    <3>2. Cardinality(By(c)) = 1
      BY <3>1, FS_Singleton
    <3> QED
      BY <2>1, <2>3, <3>2
  <2> QED
    BY <2>2, <2>3
<1> QED
  BY <1>3, <1>4, <1>5 DEF MotorsFiled

-----------------------------------------------------------------------------
\* ClumpStage keeps to its types, and no body of a clump lies deeper than there are
\* primitives: renumberSpanTree and inSpanTree come to an end.
THEOREM TypeCorrect ==
  ASSUME Tame
  PROVE  Spec => []TypeOK
<1>1. Spec => []Inv
  BY InvariantHolds
<1>2. Inv => TypeOK
  BY TypeFollows
<1> QED
  BY <1>1, <1>2, PTL

\* Every rigid joint is in exactly one of the places the handlers move it among.
THEOREM RigidFiledHolds ==
  ASSUME Tame
  PROVE  Spec => []RigidFiled
<1>1. Spec => []Inv
  BY InvariantHolds
<1>2. Inv => RigidFiled
  BY RigidFollows
<1> QED
  BY <1>1, <1>2, PTL

\* Every primitive waits or is in a clump, and an anchor holds the clump of its own primitive.
THEOREM PrimitivesFiledHolds ==
  ASSUME Tame
  PROVE  Spec => []PrimitivesFiled
<1>1. Spec => []Inv
  BY InvariantHolds
<1>2. Inv => PrimitivesFiled
  BY DEF Inv
<1> QED
  BY <1>1, <1>2, PTL

\* The bodies of each clump hang under its root in a tree of joined primitives.
THEOREM SpanningTreeHolds ==
  ASSUME Tame
  PROVE  Spec => []SpanningTree
<1>1. Spec => []Inv
  BY InvariantHolds
<1>2. Inv => SpanningTree
  BY TreeIsSpanningTree DEF Inv, GroupInv
<1> QED
  BY <1>1, <1>2, PTL

\* A clump waits in the buffer for its kind exactly while it has no assembly.
THEOREM ClumpsFiledHolds ==
  ASSUME Tame
  PROVE  Spec => []ClumpsFiled
<1>1. Spec => []Inv
  BY InvariantHolds
<1>2. Inv => ClumpsFiled
  BY DEF Inv, GroupInv
<1> QED
  BY <1>1, <1>2, PTL

\* Every motor waits, links two clumps of one assembly or is inconsistent in those of its
\* ends, and each clump that is no root hangs by one motor.
THEOREM MotorsFiledHolds ==
  ASSUME Tame
  PROVE  Spec => []MotorsFiled
<1>1. Spec => []Inv
  BY InvariantHolds
<1>2. Inv => MotorsFiled
  BY MotorsFollow
<1> QED
  BY <1>1, <1>2, PTL

\* Every contact is in the buffer or in the assemblies of its ends, and goes down when they
\* differ and can move.
THEOREM EdgesFiledHolds ==
  ASSUME Tame
  PROVE  Spec => []EdgesFiled
<1>1. Spec => []Inv
  BY InvariantHolds
<1>2. Inv => EdgesFiled
  BY EdgesFollow
<1> QED
  BY <1>1, <1>2, PTL

-----------------------------------------------------------------------------
\* A step of MovingAssembliesOnlyShrink.
MovingStep ==
  \A a \in (downAsm \cap downAsm') \ held :
    /\ \A p \in Prim : AsmOfPrim(p)' = a /\ AsmOfPrim(p) # a =>
         pc = "attach" /\ LeadsTo(Last(motors), a)
    /\ pc = "sort" => \A m \in ToSet(motors') : LeadsTo(m, a)' => m \in asmIncons[a]

\* A step that gives no primitive an assembly it did not have.
Loosens ==
  /\ \A c \in Prim : asmOf'[c] \in {asmOf[c], NoPrim}
  /\ \A p \in Prim : clumpOf'[p] \in {clumpOf[p], NoPrim} \/ asmOf'[clumpOf'[p]] = NoPrim

\* That is what it says of the primitives.
LEMMA LooseAssemblies ==
  ASSUME Typed, Loosens, NEW p \in Prim
  PROVE  AsmOfPrim(p)' \in {AsmOfPrim(p), NoPrim}
<1>1. clumpOf[p] \in Prim \cup {NoPrim}
  BY DEF Typed
<1>2. CASE clumpOf'[p] = NoPrim \/ asmOf'[clumpOf'[p]] = NoPrim
  BY <1>2 DEF AsmOfPrim
<1>3. CASE clumpOf'[p] # NoPrim /\ clumpOf'[p] = clumpOf[p]
  BY <1>1, <1>3 DEF Loosens, AsmOfPrim
<1> QED
  BY <1>2, <1>3 DEF Loosens

\* Such a step is safe before the motors are sorted and after.
LEMMA LooseSafe ==
  ASSUME Inv, Loosens, pc # "sort"
  PROVE  MovingStep
<1>1. Typed /\ downAsm \subseteq Prim /\ NoPrim \notin Prim
  BY TypedParts, Basics DEF Inv, AsmTyped
<1>2. \A p \in Prim : AsmOfPrim(p)' \in {AsmOfPrim(p), NoPrim}
  BY <1>1, LooseAssemblies
<1> QED
  BY <1>1, <1>2 DEF MovingStep

\* Assemblies that are taken apart leave no primitive with one it did not have.
LEMMA ReleaseLoosens ==
  ASSUME NEW As, NEW es, ReleaseAssemblies(As, es),
         \A p \in Prim : clumpOf'[p] \in {clumpOf[p], NoPrim}
  PROVE  Loosens
BY DEF ReleaseAssemblies, Loosens

\* Nor do clumps.
LEMMA DestroyLoosens ==
  ASSUME NEW As, NEW Cs, DestroyGroups(As, Cs)
  PROVE  Loosens
<1>1. PICK all : all = As \cup AssembliesOf(Cs)
  OBVIOUS
<1>2. ReleaseAssemblies(all, {})
  BY <1>1 DEF DestroyGroups
<1>3. PICK out : out = {p \in Prim : clumpOf[p] \in Cs}
  OBVIOUS
<1>4. PICK rs : rs = UNION {inconsistent[c] : c \in Cs}
  OBVIOUS
<1>5. Ungroup(all, out, Cs, rs)
  BY <1>1, <1>3, <1>4 DEF DestroyGroups
<1>6. \A p \in Prim : clumpOf'[p] \in {clumpOf[p], NoPrim}
  BY <1>5 DEF Ungroup
<1> QED
  BY <1>2, <1>6, ReleaseLoosens

\* Nor does a step that regroups nothing.
LEMMA KeepLoosens ==
  ASSUME asmOf' = asmOf, clumpOf' = clumpOf
  PROVE  Loosens
BY DEF Loosens

\* A primitive that becomes a clump of its own has no assembly.
LEMMA AloneLoosens ==
  ASSUME Inv, NEW p \in Prim, clumpOf[p] = NoPrim,
         clumpOf' = [clumpOf EXCEPT ![p] = p], asmOf' = asmOf
  PROVE  Loosens
<1>1. Typed /\ ClumpsFiled /\ NoPrim \notin Prim
  BY Basics DEF Inv, GroupInv
<1>2. asmOf[p] = NoPrim
  BY <1>1 DEF ClumpsFiled, Clumps
<1>3. \A q \in Prim : clumpOf'[q] = IF q = p THEN p ELSE clumpOf[q]
  BY <1>1 DEF Typed
<1> QED
  BY <1>2, <1>3 DEF Loosens

\* Changes of the world only loosen.
LEMMA ChangeLoosens ==
  ASSUME Change
  PROVE  Loosens
<1>1. CASE \E p \in Prim : AddPrimitive(p) \/ AddAnchor(p)
  BY <1>1, KeepLoosens DEF AddPrimitive, AddAnchor, clumpVars, asmVars
<1>2. CASE \E p \in Prim : RemovePrimitive(p) \/ RemoveAnchor(p)
  <2>1. PICK Cs : DestroyGroups({}, Cs)
    BY <1>2 DEF RemovePrimitive, RemoveAnchor
  <2> QED
    BY <2>1, DestroyLoosens
<1>3. CASE \E e \in Edge : AddEdge(e)
  BY <1>3, KeepLoosens DEF AddEdge, clumpVars
<1>4. CASE \E r \in Rigid : RemoveRigid(r)
  <2>1. PICK r \in Rigid : RemoveRigid(r)
    BY <1>4
  <2>2. CASE asmVars' = asmVars /\ clumpOf' = clumpOf
    BY <2>2, KeepLoosens DEF asmVars
  <2>3. CASE \E Cs : DestroyGroups({}, Cs)
    BY <2>3, DestroyLoosens
  <2>4. CASE \E top : RemoveSpanningTree(r, top)
    <3>1. PICK top : RemoveSpanningTree(r, top)
      BY <2>4
    <3>2. PICK As, es, out, rs : ReleaseAssemblies(As, es) /\ Ungroup(As, out, {}, rs)
      BY <3>1 DEF RemoveSpanningTree
    <3>3. \A p \in Prim : clumpOf'[p] \in {clumpOf[p], NoPrim}
      BY <3>2 DEF Ungroup
    <3> QED
      BY <3>2, <3>3, ReleaseLoosens
  <2>5. \/ asmVars' = asmVars /\ clumpOf' = clumpOf
        \/ \E Cs : DestroyGroups({}, Cs)
        \/ \E top : RemoveSpanningTree(r, top)
    BY <2>1 DEF RemoveRigid, clumpVars
  <2> QED
    BY <2>2, <2>3, <2>4, <2>5
<1>5. CASE \E m \in Motor : RemoveMotor(m)
  <2>1. PICK As : ReleaseAssemblies(As, {}) /\ clumpOf' = clumpOf
    BY <1>5 DEF RemoveMotor
  <2> QED
    BY <2>1, ReleaseLoosens
<1>6. CASE \/ \E m \in Motor : ChangeMotorAngle(m)
           \/ \E e \in Contact : RemoveContact(e)
  BY <1>6, KeepLoosens DEF ChangeMotorAngle, RemoveContact, clumpVars, asmVars
<1> QED
  BY <1>1, <1>2, <1>3, <1>4, <1>5, <1>6 DEF Change

\* So do the loops of process that make clumps.
LEMMA GroupLoosens ==
  ASSUME Inv, \/ \E p \in Prim : ProcessAnchor(p) \/ ProcessPrimitive(p)
              \/ \E r \in Rigid : ProcessRigidTwo(r)
  PROVE  Loosens
<1>1. CASE \E p \in Prim : ProcessAnchor(p)
  <2>1. PICK p \in Prim : ProcessAnchor(p)
    BY <1>1
  <2>2. CASE Destroy({}, {clumpOf[p]})
    BY <2>2, DestroyLoosens DEF Destroy
  <2>3. CASE clumpOf' = clumpOf /\ asmOf' = asmOf
    BY <2>3, KeepLoosens
  <2>4. CASE clumpOf[p] = NoPrim /\ clumpOf' = [clumpOf EXCEPT ![p] = p] /\ asmOf' = asmOf
    BY <2>4, AloneLoosens
  <2> QED
    BY <2>1, <2>2, <2>3, <2>4 DEF ProcessAnchor, asmVars
<1>2. CASE \E p \in Prim : ProcessPrimitive(p)
  <2>1. PICK p \in Prim : ProcessPrimitive(p)
    BY <1>2
  <2>2. p \in DOMAIN primitives /\ clumpOf' = [clumpOf EXCEPT ![p] = p] /\ asmOf' = asmOf
    BY <2>1 DEF ProcessPrimitive, Smallest, asmVars
  <2>3. clumpOf[p] = NoPrim
    BY <2>2 DEF Inv, PrimitivesFiled
  <2> QED
    BY <2>2, <2>3, AloneLoosens
<1>3. CASE \E r \in Rigid : ProcessRigidTwo(r)
  <2>1. PICK r \in Rigid : ProcessRigidTwo(r)
    BY <1>3
  <2>2. CASE \E As : DestroyAssemblies(As) /\ clumpOf' = clumpOf
    BY <2>2, ReleaseLoosens DEF DestroyAssemblies
  <2>3. CASE \E As, Cs : Destroy(As, Cs)
    BY <2>3, DestroyLoosens DEF Destroy
  <2>4. CASE clumpOf' = clumpOf /\ asmOf' = asmOf
    BY <2>4, KeepLoosens
  <2>5. \/ \E As : DestroyAssemblies(As) /\ clumpOf' = clumpOf
        \/ \E As, Cs : Destroy(As, Cs)
        \/ clumpOf' = clumpOf /\ asmOf' = asmOf
    BY <2>1 DEF ProcessRigidTwo, clumpVars, asmVars
  <2> QED
    BY <2>2, <2>3, <2>4, <2>5
<1> QED
  BY <1>1, <1>2, <1>3

\* The primitive that joins a clump finds it without an assembly.
LEMMA RigidOneLoosens ==
  ASSUME Inv, NEW r \in Rigid, ProcessRigidOne(r)
  PROVE  Loosens
<1>1. PICK c : c = CHOOSE d \in ClumpsOf(r) : TRUE
  OBVIOUS
<1>2. PICK p : p = CHOOSE q \in EndsOf(r) : clumpOf[q] # c
  OBVIOUS
<1>3. PICK As : As = AssembliesOf({c})
  OBVIOUS
<1>4. \/ DestroyGroups({}, {c})
      \/ DestroyAssemblies(As) /\ clumpOf' = [clumpOf EXCEPT ![p] = c]
  BY <1>1, <1>2, <1>3 DEF ProcessRigidOne
<1>5. ASSUME DestroyAssemblies(As), clumpOf' = [clumpOf EXCEPT ![p] = c] PROVE Loosens
  <2>1. Typed
    BY DEF Inv
  <2>2. asmOf' = [d \in Prim |-> IF asmOf[d] \in As THEN NoPrim ELSE asmOf[d]]
    BY <1>5 DEF DestroyAssemblies, ReleaseAssemblies
  <2>3. CASE c \in Prim
    <3>1. asmOf'[c] = NoPrim
      BY <1>3, <2>2, <2>3 DEF AssembliesOf
    <3>2. \A q \in Prim : clumpOf'[q] = clumpOf[q] \/ clumpOf'[q] = c
      BY <1>5, <2>1 DEF Typed
    <3> QED
      BY <2>2, <3>1, <3>2 DEF Loosens
  <2>4. CASE c \notin Prim
    <3>1. r \in DOMAIN rigidOnes
      BY DEF ProcessRigidOne, Biggest
    <3>2. RigidAt(r)
      BY DEF Inv, RigidIn
    <3>3. End[r][1] \in Prim /\ End[r][2] \in Prim /\ EndsOf(r) = {End[r][1], End[r][2]}
      BY Basics DEF Edge
    <3>4. ClumpsOf(r) # {} /\ ClumpsOf(r) \subseteq Prim
      BY <2>1, <3>1, <3>2, <3>3 DEF RigidAt, ClumpsOf, Typed
    <3> QED
      BY <1>1, <2>4, <3>4
  <2> QED
    BY <2>3, <2>4
<1> QED
  BY <1>4, <1>5, DestroyLoosens

\* The sort takes apart the free assemblies that the motors it sorts lead to; a motor it
\* releases and that leads to another was inconsistent in that.
LEMMA SortMoving ==
  ASSUME Inv, SortMotors
  PROVE  MovingStep
<1>1. Typed /\ MotorsIn /\ AsmTyped /\ downAsm \subseteq Prim /\ NoPrim \notin Prim
  BY TypedParts, Basics DEF Inv, GroupInv, AsmTyped
<1>2. PICK As : As = FreeAssembliesAt(ToSet(motors))
  OBVIOUS
<1>3. /\ ReleaseAssemblies(As, {})
      /\ \E s \in SetToSeqs(ToSet(motors)) : ReleaseMotors(s, As)
      /\ clumpOf' = clumpOf
  BY <1>2 DEF SortMotors
<1>4. Loosens
  BY <1>3, ReleaseLoosens
<1>5. \A p \in Prim : AsmOfPrim(p)' \in {AsmOfPrim(p), NoPrim}
  BY <1>1, <1>4, LooseAssemblies
<1>6. As \in SUBSET Prim
  <2> SUFFICES ASSUME NEW a \in As PROVE a \in Prim
    OBVIOUS
  <2>1. PICK m \in ToSet(motors), i \in {1, 2} : a = AsmOfPrim(End[m][i])
    BY <1>2 DEF FreeAssembliesAt
  <2>2. m \in Motor
    BY <1>1, <2>1 DEF AsmTyped, ToSet
  <2>3. End[m][i] \in Prim
    BY <2>1, <2>2, Basics DEF Edge
  <2>4. a \in Prim \cup {NoPrim}
    <3>1. Typed /\ ClumpsFiled
      BY DEF Inv, GroupInv
    <3> QED
      BY <2>1, <2>3, <3>1, AsmFacts
  <2>5. a # NoPrim
    BY <1>2 DEF FreeAssembliesAt
  <2> QED
    BY <2>4, <2>5
<1>7. ToSet(motors') = ToSet(motors) \cup MotorsOf(As)
  <2>1. PICK s \in SetToSeqs(ToSet(motors)) : ReleaseMotors(s, As)
    BY <1>3
  <2>2. ToSet(motors) \subseteq Motor
    BY <1>1 DEF AsmTyped, ToSet
  <2>3. IsFiniteSet(ToSet(motors))
    BY <2>2, FS_Subset, ClumpStageAssumption
  <2>4. s \in Seq(ToSet(motors)) /\ Once(s) /\ ToSet(s) = ToSet(motors)
    BY <2>1, <2>3, SeqOfSet
  <2>5. s \in Seq(Motor)
    BY <2>2, <2>4
  <2>6. PICK t \in Released(As) : motors' = s \o t
    BY <2>1 DEF ReleaseMotors
  <2>7. motorAngles' = AnglesToo(As)
    BY <2>1 DEF ReleaseMotors
  <2> HIDE DEF Once
  <2> QED
    BY <1>1, <1>6, <2>4, <2>5, <2>6, <2>7, MotorsReleased
<1>8. \A a \in downAsm' : a \in downAsm /\ a \notin As
  BY <1>3 DEF ReleaseAssemblies
<1>9. ASSUME NEW a \in downAsm, a \in downAsm', a \notin held,
             NEW m \in ToSet(motors'), LeadsTo(m, a)'
      PROVE  m \in asmIncons[a]
  <2>1. m \in Motor
    BY <1>1, <1>6, <1>7, <1>9 DEF AsmTyped, ToSet, MotorsOf
  <2>2. /\ EndsOf(m) = {End[m][1], End[m][2]} /\ End[m][1] \in Prim /\ End[m][2] \in Prim
    BY <2>1, Basics DEF Edge
  <2>3. PICK p \in EndsOf(m) : AsmOfPrim(p) = a
    BY <1>1, <1>5, <1>9, <2>2 DEF LeadsTo, EndsOf
  <2>4. a \notin As /\ a # NoPrim
    BY <1>1, <1>8, <1>9
  <2>5. m \notin ToSet(motors)
    BY <1>2, <1>9, <2>2, <2>3, <2>4 DEF FreeAssembliesAt
  <2>6. PICK b \in As : m \in asmMotors[b] \/ m \in asmIncons[b]
    BY <1>7, <1>9, <2>5 DEF MotorsOf
  <2>7. MotorAt(m) /\ b \in Prim /\ a \in {AsmOfPrim(End[m][1]), AsmOfPrim(End[m][2])}
    BY <1>1, <1>6, <2>1, <2>2, <2>3, <2>6 DEF MotorsIn
  <2> QED
    BY <2>4, <2>6, <2>7 DEF MotorAt
<1>10. pc # "attach" /\ \A a \in downAsm, p \in Prim : AsmOfPrim(p)' = a => AsmOfPrim(p) = a
  BY <1>1, <1>5 DEF SortMotors
<1> QED
  BY <1>9, <1>10 DEF MovingStep

\* New assemblies of one clump each are not downstream yet.
LEMMA FormMoving ==
  ASSUME Inv, FormAnchored \/ FormFree
  PROVE  MovingStep
<1>1. Typed /\ ClumpsFiled /\ AsmTyped /\ BodyTyped /\ downAsm \subseteq Prim /\ NoPrim \notin Prim
  BY TypedParts, Basics DEF Inv, GroupInv, AsmTyped
<1>2. PICK in : in = IF FormAnchored THEN anchoredClumps ELSE freeClumps
  OBVIOUS
<1>3. /\ asmOf' = [c \in Prim |-> IF c \in in THEN c ELSE asmOf[c]]
      /\ clumpOf' = clumpOf /\ pc # "sort"
      /\ in \in {anchoredClumps, freeClumps}
  <2>1. CASE FormAnchored
    BY <1>2, <2>1 DEF FormAnchored, clumpVars
  <2>2. CASE ~FormAnchored
    BY <1>2, <2>2 DEF FormFree, clumpVars
  <2> QED
    BY <2>1, <2>2
<1>4. \A c \in in : asmOf[c] = NoPrim
  BY <1>1, <1>3 DEF ClumpsFiled
<1>5. \A a \in downAsm : asmOf[a] = a
  BY <1>1 DEF ClumpsFiled
<1>6. ASSUME NEW a \in downAsm, NEW p \in Prim, AsmOfPrim(p)' = a PROVE AsmOfPrim(p) = a
  <2>1. clumpOf[p] # NoPrim /\ asmOf'[clumpOf[p]] = a /\ clumpOf[p] \in Prim
    BY <1>1, <1>3, <1>6 DEF AsmOfPrim, BodyTyped
  <2>2. clumpOf[p] \notin in
    BY <1>1, <1>3, <1>4, <1>5, <1>6, <2>1
  <2> QED
    BY <1>3, <2>1, <2>2 DEF AsmOfPrim
<1> QED
  BY <1>3, <1>6 DEF MovingStep

\* What an attached motor adds a clump to, it leads to.
LEMMA AttachMoving ==
  ASSUME Inv, AttachMotor
  PROVE  MovingStep
<1>1. PICK m : m = Last(motors)
  OBVIOUS
<1>2. AttachFrame(m)
  BY <1>1 DEF AttachMotor, AttachFrame
<1>3. PICK c0 : c0 = clumpOf[End[m][1]]
  OBVIOUS
<1>4. PICK c1 : c1 = clumpOf[End[m][2]]
  OBVIOUS
<1>5. /\ Typed /\ ClumpsFiled /\ AsmTyped /\ BodyTyped /\ downAsm \subseteq Prim /\ NoPrim \notin Prim
  BY TypedParts, Basics DEF Inv, GroupInv, AsmTyped
<1>6. m \in Motor /\ c0 \in Clumps /\ c1 \in Clumps /\ c0 \in Prim /\ c1 \in Prim
  BY <1>2, <1>3, <1>4, AttachFacts DEF Clumps
<1>7. pc = "attach" /\ clumpOf' = clumpOf
  BY <1>2 DEF AttachFrame
<1>8. \A a \in downAsm : asmOf[a] = a
  BY <1>5 DEF ClumpsFiled
<1>9. ASSUME NEW c \in Prim, NEW a \in downAsm, asmOf'[c] = a, asmOf[c] # a
      PROVE  a \in {asmOf[c0], asmOf[c1]}
  <2>1. \/ asmOf' = asmOf
        \/ \E x, y \in {c0, c1} : asmOf' = [asmOf EXCEPT ![x] = asmOf[x], ![y] = asmOf[x]]
        \/ asmOf' = [asmOf EXCEPT ![c0] = c0] /\ asmOf[c0] = NoPrim
        \/ \E x, y \in {c0, c1} : asmOf' = [asmOf EXCEPT ![x] = x, ![y] = x] /\ asmOf[x] = NoPrim
    <3>1. PICK root : root = IF Less(Power(c0), Power(c1)) THEN c1 ELSE c0
      OBVIOUS
    <3>2. PICK child : child = IF root = c0 THEN c1 ELSE c0
      OBVIOUS
    <3>3. \/ asmOf' = asmOf
          \/ asmOf[c1] = NoPrim /\ AddClump(asmOf[c0], c0, c1, m)
          \/ asmOf[c0] = NoPrim /\ AddClump(asmOf[c1], c1, c0, m)
          \/ asmOf[c0] = NoPrim /\ asmOf' = [asmOf EXCEPT ![c0] = c0]
          \/ asmOf[c0] = NoPrim /\ asmOf[c1] = NoPrim /\ AddClump(root, root, child, m)
      BY <1>1, <1>3, <1>4, <3>1, <3>2 DEF AttachMotor
    <3>4. root \in {c0, c1} /\ child \in {c0, c1}
      BY <3>1, <3>2
    <3> QED
      BY <3>3, <3>4 DEF AddClump
  <2>2. asmOf \in [Prim -> Prim \cup {NoPrim}]
    BY <1>5 DEF AsmTyped
  <2> QED
    BY <1>5, <1>6, <1>8, <1>9, <2>1, <2>2
<1>10. ASSUME NEW a \in downAsm, NEW p \in Prim, AsmOfPrim(p)' = a, AsmOfPrim(p) # a
       PROVE  LeadsTo(m, a)
  <2>1. clumpOf[p] # NoPrim /\ asmOf'[clumpOf[p]] = a /\ clumpOf[p] \in Prim /\ asmOf[clumpOf[p]] # a
    BY <1>5, <1>7, <1>10 DEF AsmOfPrim, BodyTyped
  <2>2. a \in {asmOf[c0], asmOf[c1]}
    BY <1>9, <2>1
  <2>3. a \in {AsmOfPrim(End[m][1]), AsmOfPrim(End[m][2])}
    BY <1>3, <1>4, <1>5, <1>6, <2>2 DEF AsmOfPrim
  <2> QED
    BY <2>3 DEF LeadsTo, EndsOf
<1> QED
  BY <1>1, <1>7, <1>10 DEF MovingStep

\* Every step is safe.
LEMMA NextMoving ==
  ASSUME Inv, Next
  PROVE  MovingStep
<1>1. CASE Change
  <2>1. pc # "sort"
    BY <1>1 DEF Change, AddPrimitive, RemovePrimitive, AddAnchor, RemoveAnchor, AddEdge,
                RemoveRigid, RemoveMotor, ChangeMotorAngle, RemoveContact
  <2> QED
    BY <1>1, <2>1, ChangeLoosens, LooseSafe
<1>2. CASE \/ StartProcess \/ AnchorsDone \/ TwosDone \/ OnesDone \/ PrimitivesDone \/ EdgesDone
           \/ UpdateMotorAngles \/ \E e \in Contact : RouteEdge(e)
  <2>1. pc # "sort" /\ clumpOf' = clumpOf /\ asmOf' = asmOf
    BY <1>2 DEF StartProcess, LoopDone, AnchorsDone, TwosDone, OnesDone, PrimitivesDone, EdgesDone,
                UpdateMotorAngles, RouteEdge, clumpVars, asmVars
  <2> QED
    BY <2>1, KeepLoosens, LooseSafe
<1>3. CASE \/ \E p \in Prim : ProcessAnchor(p) \/ ProcessPrimitive(p)
           \/ \E r \in Rigid : ProcessRigidTwo(r) \/ ProcessRigidOne(r)
  <2>1. pc # "sort"
    BY <1>3 DEF ProcessAnchor, ProcessPrimitive, ProcessRigidTwo, ProcessRigidOne
  <2>2. Loosens
    BY <1>3, GroupLoosens, RigidOneLoosens
  <2> QED
    BY <2>1, <2>2, LooseSafe
<1>4. CASE FormAnchored \/ SortMotors \/ AttachMotor \/ FormFree
  BY <1>4, FormMoving, SortMoving, AttachMoving
<1> QED
  BY <1>1, <1>2, <1>3, <1>4 DEF Next, Process

\* What the stages below hold and can move grows only by a motor that was inconsistent in it:
\* processMotors takes apart the other assemblies that it attaches motors to.
THEOREM MovingAssembliesOnlyShrinkHolds ==
  ASSUME Tame
  PROVE  Spec => MovingAssembliesOnlyShrink
<1>1. Spec => []Inv
  BY InvariantHolds
<1>2. Inv /\ [Next]_vars => [MovingStep]_vars
  BY NextMoving
<1>3. [][MovingStep]_vars => MovingAssembliesOnlyShrink
  BY PTL DEF MovingStep, MovingAssembliesOnlyShrink
<1> QED
  BY <1>1, <1>2, <1>3, PTL DEF Spec

-----------------------------------------------------------------------------
\* The bodies of a clump that are not its root hang by rigid joints: no part of it is loose.
LEMMA ClumpConnected ==
  ASSUME Typed, Tree, NEW c \in Clumps
  PROVE  Grouping!Connected(Members(c))
<1> SUFFICES ASSUME NEW T \in SUBSET Members(c), T # {}, T # Members(c)
             PROVE  \E p \in T, q \in Members(c) \ T : {p, q} \in {EndsOf(r) : r \in joined \cap Rigid}
  BY DEF Grouping!Connected
<1>1. PICK S : S = IF c \in T THEN Members(c) \ T ELSE T
  OBVIOUS
<1>2. S \subseteq Members(c) /\ S # {} /\ c \notin S
  BY <1>1
<1>3. c \in Prim /\ \A p \in Members(c) : p \in Prim /\ clumpOf[p] = c /\ c # NoPrim
  BY Basics DEF Clumps, Members
<1>4. \A p \in Members(c) : depth[p] \in Nat
  BY <1>3 DEF Tree
<1>5. PICK n \in {depth[p] : p \in S} : \A k \in {depth[p] : p \in S} : n <= k
  <2>1. {depth[p] : p \in S} \subseteq Nat /\ {depth[p] : p \in S} # {}
    BY <1>2, <1>4
  <2> QED
    BY <2>1, LeastNat
<1>6. PICK p \in S : depth[p] = n
  BY <1>5
<1>7. \A q \in S : depth[p] <= depth[q]
  BY <1>5, <1>6
<1>8. /\ parent[p] \in Prim /\ clumpOf[parent[p]] = c /\ depth[p] = depth[parent[p]] + 1
      /\ \E r \in joined \cap Rigid : EndsOf(r) = {p, parent[p]}
  BY <1>2, <1>3, <1>6 DEF Tree
<1>9. parent[p] \in Members(c) /\ depth[parent[p]] \in Nat
  BY <1>4, <1>8 DEF Members
<1>10. parent[p] \notin S
  BY <1>7, <1>8, <1>9
<1>11. PICK r \in joined \cap Rigid : EndsOf(r) = {p, parent[p]}
  BY <1>8
<1>12. EndsOf(r) = {parent[p], p}
  BY <1>11
<1>13. CASE c \in T
  BY <1>1, <1>2, <1>6, <1>9, <1>10, <1>12, <1>13
<1>14. CASE c \notin T
  BY <1>1, <1>2, <1>6, <1>9, <1>10, <1>11, <1>14
<1> QED
  BY <1>13, <1>14

\* When the last loop ends the clumps are the groups that were promised.
LEMMA SettledGrouped ==
  ASSUME Inv, pc = "angles"
  PROVE  Grouping!Grouped
<1>1. Typed /\ Tree /\ PrimitivesFiled /\ RigidIn /\ Phase /\ WorldTyped
  BY TypedParts DEF Inv, GroupInv
<1>2. /\ anchors = {} /\ rigidTwos = {} /\ DOMAIN rigidOnes = {} /\ DOMAIN primitives = {}
  BY <1>1 DEF Phase
<1>3. \A p \in Prim : clumpOf[p] # NoPrim <=> p \in present
  BY <1>1, <1>2 DEF PrimitivesFiled
<1>4. \A p \in present : p \in Prim /\ clumpOf[p] # NoPrim /\ clumpOf[clumpOf[p]] = clumpOf[p]
  BY <1>1, <1>3 DEF Tree, WorldTyped
<1>5. \A p \in present \cap anchored : clumpOf[p] = p
  BY <1>1, <1>2 DEF PrimitivesFiled, Clumps, WorldTyped
<1>6. ASSUME NEW p \in present, NEW q \in present, NEW r \in joined \cap Rigid, EndsOf(r) = {p, q}
      PROVE  clumpOf[p] = clumpOf[q] \/ (clumpOf[p] \in anchored /\ clumpOf[q] \in anchored)
  <2>1. PICK c0 : c0 = clumpOf[End[r][1]]
    OBVIOUS
  <2>2. PICK c1 : c1 = clumpOf[End[r][2]]
    OBVIOUS
  <2>3. \/ End[r][1] = p /\ End[r][2] = q
        \/ End[r][1] = q /\ End[r][2] = p
    <3>1. {End[r][1], End[r][2]} = {p, q}
      BY <1>6 DEF EndsOf
    <3> QED
      BY <3>1
  <2>4. RigidAt(r) /\ r \in joined
    BY <1>1, <1>6 DEF RigidIn
  <2>5. r \notin rigidZeros
    BY <1>4, <1>6, <2>3, <2>4 DEF RigidAt
  <2>6. ~InBuffers(r)
    BY <1>2, <2>5 DEF InBuffers
  <2>7. c0 \in Prim /\ c1 \in Prim /\ (c0 = c1 \/ r \in inconsistent[c0])
    BY <2>1, <2>2, <2>4, <2>6 DEF RigidAt
  <2>8. c0 = c1 \/ (c0 \in held /\ c1 \in held)
    BY <2>1, <2>2, <2>4, <2>7 DEF RigidAt
  <2>9. c0 = c1 \/ (c0 \in anchored /\ c1 \in anchored)
    BY <1>1, <2>7, <2>8 DEF PrimitivesFiled
  <2> QED
    BY <2>1, <2>2, <2>3, <2>9
<1>7. ASSUME NEW c \in present PROVE Grouping!Connected({p \in Prim : clumpOf[p] = c})
  <2>1. {p \in Prim : clumpOf[p] = c} = Members(c)
    BY DEF Members
  <2>2. CASE clumpOf[c] = c
    <3>1. c \in Clumps
      BY <1>4, <2>2 DEF Clumps
    <3> QED
      BY <1>1, <2>1, <3>1, ClumpConnected
  <2>3. CASE clumpOf[c] # c
    <3>1. \A p \in Prim : clumpOf[p] # c
      BY <1>1, <1>4, <2>3, Basics DEF Tree
    <3>2. Members(c) = {}
      BY <3>1 DEF Members
    <3> QED
      BY <2>1, <3>2 DEF Grouping!Connected
  <2> QED
    BY <2>2, <2>3
<1>8. \A p, q \in present : {p, q} \in {EndsOf(r) : r \in joined \cap Rigid} =>
        clumpOf[p] = clumpOf[q] \/ {clumpOf[p], clumpOf[q]} \subseteq anchored
  BY <1>6
<1> QED
  BY <1>3, <1>4, <1>5, <1>7, <1>8 DEF Grouping!Grouped, Grouping!Group

\* The two ends of a rigid joint that is removed are touched.
LEMMA RemovedTouches ==
  ASSUME NoTwins, NEW r \in joined \cap Rigid, joined' = joined \ {r}
  PROVE  EndsOf(r) \subseteq Grouping!Touched
<1>1. EndsOf(r) \in {EndsOf(s) : s \in joined \cap Rigid}
  OBVIOUS
<1>2. EndsOf(r) \notin {EndsOf(s) : s \in joined' \cap Rigid}
  BY DEF NoTwins
<1>3. \A s : EndsOf(s)' = EndsOf(s)
  BY DEF EndsOf
<1>4. EndsOf(r) \notin {EndsOf(s) : s \in joined \cap Rigid}'
  BY <1>2, <1>3
<1>5. EndsOf(r) \in Grouping!Changed({EndsOf(s) : s \in joined \cap Rigid},
                                     {EndsOf(s) : s \in joined \cap Rigid}')
  BY <1>1, <1>4 DEF Grouping!Changed
<1> QED
  BY <1>5 DEF Grouping!Touched

\* A clump dissolves only when one of its bodies is touched.
GroupsKept ==
  \A p \in Prim : \/ clumpOf'[p] = clumpOf[p]
                  \/ clumpOf'[p] = NoPrim /\ Members(clumpOf[p]) \cap Grouping!Touched # {}

\* The clumps taken apart with their assemblies each have a body that is touched.
LEMMA DestroyTouched ==
  ASSUME NEW As, NEW Cs, DestroyGroups(As, Cs),
         \A c \in Cs : Members(c) \cap Grouping!Touched # {}
  PROVE  GroupsKept
<1>1. clumpOf' = [p \in Prim |-> IF clumpOf[p] \in Cs THEN NoPrim ELSE clumpOf[p]]
  BY DEF DestroyGroups, Ungroup
<1> QED
  BY <1>1 DEF GroupsKept

\* The ends of a joint that goes.
LEMMA RemoveRigidTouched ==
  ASSUME Inv, Tame, NEW r \in Rigid, RemoveRigid(r)
  PROVE  GroupsKept
<1>1. /\ Typed /\ RigidIn /\ Tree /\ ClumpsFiled /\ Hung
      /\ r \in joined \cap Rigid /\ joined' = joined \ {r} /\ NoTwins
  BY DEF Inv, GroupInv, RemoveRigid, Tame
<1>2. EndsOf(r) \subseteq Grouping!Touched
  BY <1>1, RemovedTouches
<1>3. EndsOf(r) = {End[r][1], End[r][2]} /\ End[r][1] \in Prim /\ End[r][2] \in Prim
  BY Basics DEF Edge
<1>4. CASE clumpOf' = clumpOf
  BY <1>4 DEF GroupsKept
<1>5. CASE \E top \in Spanned(r) : ~InBuffers(r) /\ Cardinality(ClumpsOf(r)) = 1 /\ RemoveSpanningTree(r, top)
  <2>1. PICK top \in Spanned(r) : RemoveSpanningTree(r, top)
    BY <1>5
  <2>2. clumpOf[End[r][1]] = clumpOf[End[r][2]]
    BY <1>1, <1>5, Unfiled
  <2>3. top \in Prim /\ clumpOf[top] \notin {NoPrim, top} /\ EndsOf(r) = {top, parent[top]}
    BY <1>1, <2>1, <2>2, HungBy
  <2>4. PICK out : out = Subtree(top)
    OBVIOUS
  <2>5. out \subseteq Members(clumpOf[top])
    BY <1>1, <2>3, <2>4, SubtreeFacts
  <2>6. clumpOf' = [p \in Prim |-> IF p \in out THEN NoPrim ELSE clumpOf[p]]
    BY <2>1, <2>4 DEF RemoveSpanningTree, Ungroup
  <2>7. top \in Members(clumpOf[top]) /\ top \in Grouping!Touched
    BY <1>2, <2>3 DEF Members
  <2>8. ASSUME NEW p \in out PROVE Members(clumpOf[p]) \cap Grouping!Touched # {}
    <3>1. clumpOf[p] = clumpOf[top]
      BY <2>5, <2>8 DEF Members
    <3> QED
      BY <2>7, <3>1
  <2> QED
    BY <2>6, <2>8 DEF GroupsKept
<1>6. CASE DestroyGroups({}, ClumpsOf(r))
  <2>1. ASSUME NEW c \in ClumpsOf(r) PROVE Members(c) \cap Grouping!Touched # {}
    <3>1. PICK p \in EndsOf(r) : clumpOf[p] = c
      BY <2>1 DEF ClumpsOf
    <3>2. p \in Members(c)
      BY <1>3, <3>1 DEF Members
    <3> QED
      BY <1>2, <3>1, <3>2
  <2> QED
    BY <1>6, <2>1, DestroyTouched
<1>7. \/ clumpOf' = clumpOf
      \/ \E top \in Spanned(r) : ~InBuffers(r) /\ Cardinality(ClumpsOf(r)) = 1 /\ RemoveSpanningTree(r, top)
      \/ DestroyGroups({}, ClumpsOf(r))
  BY DEF RemoveRigid, clumpVars
<1> QED
  BY <1>4, <1>5, <1>6, <1>7

\* A change of the world is one that RigidGrouping allows.
LEMMA ChangeGroups ==
  ASSUME Inv, Tame, Change
  PROVE  Grouping!Change
<1>1. pc = "idle" /\ pc' = "idle"
  BY DEF Change, AddPrimitive, RemovePrimitive, AddAnchor, RemoveAnchor, AddEdge,
         RemoveRigid, RemoveMotor, ChangeMotorAngle, RemoveContact
<1> SUFFICES GroupsKept
  BY <1>1 DEF GroupsKept, Members, Grouping!Change, Grouping!Group
<1>2. CASE clumpOf' = clumpOf
  BY <1>2 DEF GroupsKept
<1>3. CASE \E p \in Prim : RemovePrimitive(p)
  <2>1. PICK p \in Prim : RemovePrimitive(p)
    BY <1>3
  <2>2. DestroyGroups({}, {clumpOf[p]} \ {NoPrim}) /\ p \in present /\ p \notin present'
    BY <2>1 DEF RemovePrimitive
  <2>3. p \in Members(clumpOf[p]) /\ p \in Grouping!Touched
    BY <2>2 DEF Members, Grouping!Touched, Grouping!Changed
  <2> QED
    BY <2>2, <2>3, DestroyTouched
<1>4. CASE \E p \in Prim : RemoveAnchor(p)
  <2>1. PICK p \in Prim : RemoveAnchor(p)
    BY <1>4
  <2>2. DestroyGroups({}, ClumpHeldBy(p)) /\ p \in anchored /\ p \notin anchored'
    BY <2>1 DEF RemoveAnchor
  <2>3. p \in Members(clumpOf[p]) /\ p \in Grouping!Touched
    BY <2>2 DEF Members, Grouping!Touched, Grouping!Changed
  <2>4. ClumpHeldBy(p) \subseteq {clumpOf[p]}
    BY DEF ClumpHeldBy
  <2> QED
    BY <2>2, <2>3, <2>4, DestroyTouched
<1>5. CASE \E r \in Rigid : RemoveRigid(r)
  BY <1>5, RemoveRigidTouched
<1>6. \/ clumpOf' = clumpOf
      \/ \E p \in Prim : RemovePrimitive(p)
      \/ \E p \in Prim : RemoveAnchor(p)
      \/ \E r \in Rigid : RemoveRigid(r)
  BY DEF Change, AddPrimitive, AddAnchor, AddEdge, RemoveMotor, ChangeMotorAngle, RemoveContact,
         clumpVars
<1> QED
  BY <1>2, <1>3, <1>4, <1>5, <1>6

\* The end of process settles on the groups.
LEMMA SettleGroups ==
  ASSUME Inv, UpdateMotorAngles
  PROVE  Grouping!Settle
<1>1. /\ pc = "angles" /\ pc' = "idle" /\ present' = present /\ anchored' = anchored
      /\ joined' = joined /\ clumpOf' = clumpOf
  BY DEF UpdateMotorAngles, worldVars, clumpVars
<1>2. Grouping!Grouped
  BY <1>1, SettledGrouped
<1>3. {EndsOf(r) : r \in joined \cap Rigid}' = {EndsOf(r) : r \in joined \cap Rigid}
  BY <1>1 DEF EndsOf
<1>4. Grouping!Grouped'
  <2>1. ASSUME NEW c \in present PROVE Grouping!Connected(Grouping!Group(c))'
    <3>1. PICK S : S = {p \in Prim : clumpOf[p] = c}
      OBVIOUS
    <3>2. S = {p \in Prim : clumpOf'[p] = c}
      BY <1>1, <3>1
    <3>3. Grouping!Connected(S)
      BY <1>2, <3>1 DEF Grouping!Grouped, Grouping!Group
    <3>4. \A T \in (SUBSET S) \ {{}, S} : \E p \in T, q \in S \ T :
             {p, q} \in {EndsOf(r) : r \in joined \cap Rigid}'
      BY <1>3, <3>3 DEF Grouping!Connected
    <3> QED
      BY <3>2, <3>4 DEF Grouping!Connected, Grouping!Group
  <2>2. /\ \A p \in Prim : clumpOf'[p] # NoPrim <=> p \in present'
        /\ \A p \in present' : clumpOf'[clumpOf'[p]] = clumpOf'[p]
        /\ \A p \in present' \cap anchored' : clumpOf'[p] = p
    BY <1>1, <1>2 DEF Grouping!Grouped
  <2>3. \A p, q \in present' : {p, q} \in {EndsOf(r) : r \in joined \cap Rigid}' =>
          clumpOf'[p] = clumpOf'[q] \/ {clumpOf'[p], clumpOf'[q]} \subseteq anchored'
    BY <1>1, <1>2, <1>3 DEF Grouping!Grouped
  <2> QED
    BY <1>1, <2>1, <2>2, <2>3 DEF Grouping!Grouped
<1> QED
  BY <1>1, <1>3, <1>4 DEF Grouping!Settle, Grouping!world

\* Every step is one of RigidGrouping, or changes nothing it speaks of.
LEMMA NextGroups ==
  ASSUME Inv, Tame, [Next]_vars
  PROVE  [Grouping!Next]_(Grouping!vars)
<1>1. CASE Change
  BY <1>1, ChangeGroups DEF Grouping!Next
<1>2. CASE StartProcess
  <2>1. /\ pc = "idle" /\ pc' = "anchors" /\ present' = present /\ anchored' = anchored
        /\ joined' = joined /\ clumpOf' = clumpOf
    BY <1>2 DEF StartProcess, worldVars, clumpVars
  <2>2. {EndsOf(r) : r \in joined \cap Rigid}' = {EndsOf(r) : r \in joined \cap Rigid}
    BY <2>1 DEF EndsOf
  <2> QED
    BY <2>1, <2>2 DEF Grouping!Next, Grouping!Begin, Grouping!world
<1>3. CASE UpdateMotorAngles
  BY <1>3, SettleGroups DEF Grouping!Next
<1>4. CASE Process /\ ~UpdateMotorAngles
  <2>1. pc # "idle" /\ pc' # "idle"
    BY <1>4 DEF Process, ProcessAnchor, ProcessPrimitive, ProcessRigidTwo, ProcessRigidOne, After,
                LoopDone, AnchorsDone, TwosDone, OnesDone, PrimitivesDone, EdgesDone,
                FormAnchored, SortMotors, AttachMotor, FormFree, RouteEdge
  <2>2. worldVars' = worldVars
    BY <1>4 DEF Process, ProcessAnchor, ProcessPrimitive, ProcessRigidTwo, ProcessRigidOne,
                LoopDone, AnchorsDone, TwosDone, OnesDone, PrimitivesDone, EdgesDone,
                FormAnchored, SortMotors, AttachMotor, FormFree, RouteEdge
  <2>3. present' = present /\ anchored' = anchored /\ joined' = joined
    BY <2>2 DEF worldVars
  <2>4. {EndsOf(r) : r \in joined \cap Rigid}' = {EndsOf(r) : r \in joined \cap Rigid}
    BY <2>3 DEF EndsOf
  <2> QED
    BY <2>1, <2>3, <2>4 DEF Grouping!Next, Grouping!Regroup, Grouping!world
<1>5. CASE UNCHANGED vars
  <2>1. pc' = pc /\ present' = present /\ anchored' = anchored /\ joined' = joined /\ clumpOf' = clumpOf
    BY <1>5 DEF vars, worldVars, clumpVars
  <2>2. {EndsOf(r) : r \in joined \cap Rigid}' = {EndsOf(r) : r \in joined \cap Rigid}
    BY <2>1 DEF EndsOf
  <2> QED
    BY <2>1, <2>2 DEF Grouping!vars
<1> QED
  BY <1>1, <1>2, <1>3, <1>4, <1>5 DEF Next

\* ClumpStage implements RigidGrouping: a change dissolves the clumps it touches and no other,
\* and process ends only in clumps of all that is rigidly joined, but for what is anchored.
THEOREM GroupsRigidlyHolds ==
  ASSUME Tame
  PROVE  Spec => GroupsRigidly
<1>1. Spec => []Inv
  BY InvariantHolds
<1>2. Init => Grouping!Init
  <2> SUFFICES ASSUME Init PROVE Grouping!Init
    OBVIOUS
  <2>1. {EndsOf(r) : r \in joined \cap Rigid} = {}
    BY DEF Init
  <2> QED
    BY <2>1 DEF Init, Grouping!Init
<1>3. Inv /\ [Next]_vars => [Grouping!Next]_(Grouping!vars)
  BY NextGroups
<1> QED
  BY <1>1, <1>2, <1>3, PTL DEF Spec, GroupsRigidly, Grouping!Spec
=============================================================================
