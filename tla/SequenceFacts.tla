----------------------------- MODULE SequenceFacts -----------------------------
(***************************************************************************)
(* Of sequences that name nobody twice: what is left when one comes or     *)
(* goes, as the vectors and lists of the code do it. Of any sequence: what *)
(* stands where. And of what is done to a value step by step.              *)
(***************************************************************************)
EXTENDS Integers, Sequences, FiniteSets, SequencesExt, FiniteSetTheorems, SequenceTheorems,
        WellFoundedInduction, TLAPS

\* A sequence, whatever is in it.
IsSeq(s) == s \in Seq({s[i] : i \in DOMAIN s})
Once(q) == \A i, j \in DOMAIN q : q[i] = q[j] => i = j

\* A set of numbers has a least one.
LEMMA LeastNat ==
  ASSUME NEW S, S \subseteq Nat, S # {}
  PROVE  \E m \in S : \A n \in S : m <= n
<1> DEFINE R == OpToRel(<, Nat)
<1>1. \A x, y \in Nat : <<x, y>> \in R <=> x < y
  BY DEF OpToRel
<1>2. IsWellFoundedOn(R, Nat)
  BY NatLessThanWellFounded
<1> HIDE DEF R
<1>3. \E x \in S : \A y \in S : ~(<<y, x>> \in R)
  BY <1>2, WFMin
<1>4. PICK x \in S : \A y \in S : <<y, x>> \notin R
  BY <1>3
<1>5. ASSUME NEW y \in S PROVE x <= y
  <2>1. x \in Nat /\ y \in Nat
    OBVIOUS
  <2>2. ~(y < x)
    BY <1>1, <1>4, <2>1
  <2> QED
    BY <2>1, <2>2
<1> QED
  BY <1>5

\* Numbers from 0 up to N, one after the other.
LEMMA UpTo ==
  ASSUME NEW N \in Nat, NEW S, 0 \in S, \A n \in 1..N : n - 1 \in S => n \in S
  PROVE  \A n \in 0..N : n \in S
<1> DEFINE B == {n \in 0..N : n \notin S}
<1>1. ASSUME B # {} PROVE FALSE
  <2>1. B \subseteq Nat
    OBVIOUS
  <2>2. PICK k \in B : \A n \in B : k <= n
    BY <1>1, <2>1, LeastNat
  <2>3. k \in 0..N /\ k \notin S
    BY <2>2
  <2>4. k \in 1..N /\ k - 1 \in 0..N /\ ~(k <= k - 1)
    BY <2>3
  <2>5. k - 1 \in S
    BY <2>2, <2>4
  <2> QED
    BY <2>3, <2>4, <2>5
<1> QED
  BY <1>1

\* N steps from a, by one function after the other.
Stepwise(g, V, F, a, N) ==
  g \in [0..N -> V] /\ g[0] = a /\ \A n \in 1..N : g[n] = F[n][g[n - 1]]

\* They can be done.
LEMMA StepsExist ==
  ASSUME NEW N \in Nat, NEW V, NEW a \in V, NEW F \in [1..N -> [V -> V]]
  PROVE  \E g : Stepwise(g, V, F, a, N)
<1> DEFINE Good(k) == \E g \in [0..k -> V] : g[0] = a /\ \A n \in 1..k : g[n] = F[n][g[n - 1]]
           S == {k \in 0..N : Good(k)}
<1>1. 0 \in S
  <2> DEFINE g == [n \in 0..0 |-> a]
  <2>1. g \in [0..0 -> V] /\ g[0] = a /\ 1..0 = {}
    OBVIOUS
  <2>2. Good(0)
    BY <2>1
  <2> QED
    BY <2>2
<1>2. ASSUME NEW k \in 1..N, k - 1 \in S PROVE k \in S
  <2>1. PICK g \in [0..(k - 1) -> V] : g[0] = a /\ \A n \in 1..(k - 1) : g[n] = F[n][g[n - 1]]
    BY <1>2
  <2> DEFINE h == [n \in 0..k |-> IF n = k THEN F[k][g[k - 1]] ELSE g[n]]
  <2>2. h \in [0..k -> V]
    <3>1. \A n \in 0..k : n # k => n \in 0..(k - 1)
      OBVIOUS
    <3>2. k - 1 \in 0..(k - 1)
      OBVIOUS
    <3>3. F[k] \in [V -> V] /\ F[k][g[k - 1]] \in V
      BY <3>2
    <3> QED
      BY <3>1, <3>3
  <2>3. h[0] = a
    BY <2>1
  <2>4. ASSUME NEW n \in 1..k PROVE h[n] = F[n][h[n - 1]]
    <3>1. n \in 0..k /\ n - 1 \in 0..k /\ n - 1 # k
      OBVIOUS
    <3>2. h[n - 1] = g[n - 1]
      BY <3>1
    <3>3. CASE n = k
      BY <3>1, <3>2, <3>3
    <3>4. CASE n # k
      <4>1. n \in 1..(k - 1)
        BY <3>4
      <4>2. h[n] = g[n]
        BY <3>1, <3>4
      <4> QED
        BY <2>1, <3>2, <4>1, <4>2
    <3> QED
      BY <3>3, <3>4
  <2> HIDE DEF h
  <2>5. Good(k)
    BY <2>2, <2>3, <2>4
  <2> QED
    BY <2>5
<1> HIDE DEF S
<1>3. \A n \in 0..N : n \in S
  BY <1>1, <1>2, UpTo
<1>4. N \in S
  BY <1>3
<1> QED
  BY <1>4 DEF S, Stepwise

\* Of sequences that name nobody twice: what is appended, and what goes.
LEMMA AppendOnce ==
  ASSUME NEW T, NEW q \in Seq(T), Once(q), NEW e \in T
  PROVE  /\ Append(q, e) \in Seq(T) /\ ToSet(Append(q, e)) = ToSet(q) \cup {e}
         /\ e \notin ToSet(q) => Once(Append(q, e))
<1> DEFINE p == Append(q, e)
<1>1. /\ p \in Seq(T) /\ Len(q) \in Nat /\ DOMAIN q = 1..Len(q)
      /\ DOMAIN p = 1..(Len(q) + 1) /\ p[Len(q) + 1] = e
      /\ \A i \in 1..Len(q) : p[i] = q[i]
  OBVIOUS
<1> HIDE DEF p
<1>2. ToSet(p) = ToSet(q) \cup {e}
  <2>1. ToSet(p) \subseteq ToSet(q) \cup {e}
    <3> SUFFICES ASSUME NEW i \in 1..(Len(q) + 1) PROVE p[i] \in ToSet(q) \cup {e}
      BY <1>1 DEF ToSet
    <3>1. i \in 1..Len(q) \/ i = Len(q) + 1
      BY <1>1
    <3> QED
      BY <1>1, <3>1 DEF ToSet
  <2>2. ToSet(q) \subseteq ToSet(p)
    <3> SUFFICES ASSUME NEW i \in 1..Len(q) PROVE q[i] \in ToSet(p)
      BY <1>1 DEF ToSet
    <3>1. i \in 1..(Len(q) + 1)
      BY <1>1
    <3> QED
      BY <1>1, <3>1 DEF ToSet
  <2>3. e \in ToSet(p)
    <3>1. Len(q) + 1 \in 1..(Len(q) + 1)
      BY <1>1
    <3> QED
      BY <1>1, <3>1 DEF ToSet
  <2> QED
    BY <2>1, <2>2, <2>3
<1>3. ASSUME e \notin ToSet(q) PROVE Once(p)
  <2> SUFFICES ASSUME NEW i \in 1..(Len(q) + 1), NEW j \in 1..(Len(q) + 1), p[i] = p[j]
               PROVE  i = j
    BY <1>1 DEF Once
  <2>1. \A k \in 1..(Len(q) + 1) : (k \in 1..Len(q) /\ p[k] = q[k]) \/ (k = Len(q) + 1 /\ p[k] = e)
    BY <1>1
  <2>2. \A k \in 1..Len(q) : q[k] # e
    BY <1>1, <1>3 DEF ToSet
  <2> QED
    BY <1>1, <2>1, <2>2 DEF Once
<1> QED
  BY <1>1, <1>2, <1>3 DEF p

\* What is left when the first one goes.
LEMMA TailOnce ==
  ASSUME NEW T, NEW q \in Seq(T), Once(q), q # <<>>
  PROVE  /\ Tail(q) \in Seq(T) /\ Once(Tail(q)) /\ Head(q) \in T
         /\ ToSet(q) = ToSet(Tail(q)) \cup {Head(q)} /\ Head(q) \notin ToSet(Tail(q))
<1> DEFINE p == Tail(q)
<1>1. /\ p \in Seq(T) /\ Len(q) \in Nat \ {0} /\ DOMAIN q = 1..Len(q)
      /\ DOMAIN p = 1..(Len(q) - 1) /\ Head(q) = q[1]
      /\ \A i \in 1..(Len(q) - 1) : p[i] = q[i + 1]
  OBVIOUS
<1> HIDE DEF p
<1>2. \A i \in 1..(Len(q) - 1) : i + 1 \in 1..Len(q) /\ i + 1 # 1
  BY <1>1
<1>3. 1 \in 1..Len(q)
  BY <1>1
<1>4. Once(p)
  <2> SUFFICES ASSUME NEW i \in 1..(Len(q) - 1), NEW j \in 1..(Len(q) - 1), p[i] = p[j]
               PROVE  i = j
    BY <1>1 DEF Once
  <2>1. i + 1 = j + 1
    BY <1>1, <1>2 DEF Once
  <2> QED
    BY <2>1
<1>5. q[1] \notin ToSet(p)
  <2> SUFFICES ASSUME NEW i \in 1..(Len(q) - 1), p[i] = q[1] PROVE FALSE
    BY <1>1 DEF ToSet
  <2> QED
    BY <1>1, <1>2, <1>3 DEF Once
<1>6. ToSet(q) = ToSet(p) \cup {q[1]}
  <2>1. ToSet(p) \cup {q[1]} \subseteq ToSet(q)
    BY <1>1, <1>2, <1>3 DEF ToSet
  <2>2. ASSUME NEW i \in 1..Len(q) PROVE q[i] \in ToSet(p) \cup {q[1]}
    <3>1. CASE i = 1
      BY <3>1
    <3>2. CASE i # 1
      <4>1. i - 1 \in 1..(Len(q) - 1) /\ (i - 1) + 1 = i
        BY <1>1, <3>2
      <4> QED
        BY <1>1, <4>1 DEF ToSet
    <3> QED
      BY <3>1, <3>2
  <2> QED
    BY <1>1, <2>1, <2>2 DEF ToSet
<1> QED
  BY <1>1, <1>3, <1>4, <1>5, <1>6 DEF p

\* One sequence after another that has none of its members.
LEMMA ConcatOnce ==
  ASSUME NEW T, NEW q \in Seq(T), NEW s \in Seq(T), Once(q), Once(s), ToSet(q) \cap ToSet(s) = {}
  PROVE  /\ q \o s \in Seq(T) /\ Once(q \o s) /\ ToSet(q \o s) = ToSet(q) \cup ToSet(s)
<1> DEFINE p == q \o s
           n == Len(q)
           k == Len(s)
<1>1. /\ p \in Seq(T) /\ n \in Nat /\ k \in Nat /\ DOMAIN q = 1..n /\ DOMAIN s = 1..k
      /\ DOMAIN p = 1..(n + k) /\ \A i \in 1..(n + k) : p[i] = IF i <= n THEN q[i] ELSE s[i - n]
  OBVIOUS
<1> HIDE DEF p, n, k
<1>2. ASSUME NEW i \in 1..(n + k)
      PROVE  \/ i \in 1..n /\ p[i] = q[i] /\ p[i] \in ToSet(q)
             \/ i - n \in 1..k /\ p[i] = s[i - n] /\ p[i] \in ToSet(s) /\ i \in Int
  <2>1. CASE i <= n
    <3>1. i \in 1..n /\ p[i] = q[i]
      BY <1>1, <2>1
    <3> QED
      BY <1>1, <3>1 DEF ToSet
  <2>2. CASE ~(i <= n)
    <3>1. i - n \in 1..k /\ i \in Int /\ p[i] = s[i - n]
      BY <1>1, <2>2
    <3> QED
      BY <1>1, <3>1 DEF ToSet
  <2> QED
    BY <2>1, <2>2
<1>3. ASSUME NEW i \in 1..(n + k), NEW j \in 1..(n + k), p[i] = p[j] PROVE i = j
  <2>1. CASE i \in 1..n /\ p[i] = q[i] /\ p[i] \in ToSet(q)
    <3>1. j \in 1..n /\ p[j] = q[j]
      BY <1>2, <1>3, <2>1
    <3> QED
      BY <1>1, <1>3, <2>1, <3>1 DEF Once
  <2>2. CASE i - n \in 1..k /\ p[i] = s[i - n] /\ p[i] \in ToSet(s) /\ i \in Int
    <3>1. j - n \in 1..k /\ p[j] = s[j - n] /\ j \in Int
      BY <1>2, <1>3, <2>2
    <3>2. i - n = j - n
      BY <1>1, <1>3, <2>2, <3>1 DEF Once
    <3> QED
      BY <1>1, <2>2, <3>1, <3>2
  <2> QED
    BY <1>2, <2>1, <2>2
<1>4. ASSUME NEW x PROVE x \in ToSet(p) <=> x \in ToSet(q) \cup ToSet(s)
  <2>1. ASSUME x \in ToSet(p) PROVE x \in ToSet(q) \cup ToSet(s)
    BY <1>1, <1>2, <2>1 DEF ToSet
  <2>2. ASSUME x \in ToSet(q) PROVE x \in ToSet(p)
    <3>1. PICK i \in 1..n : x = q[i]
      BY <1>1, <2>2 DEF ToSet
    <3>2. i \in 1..(n + k) /\ p[i] = x
      BY <1>1, <3>1
    <3> QED
      BY <1>1, <3>2 DEF ToSet
  <2>3. ASSUME x \in ToSet(s) PROVE x \in ToSet(p)
    <3>1. PICK i \in 1..k : x = s[i]
      BY <1>1, <2>3 DEF ToSet
    <3>2. i + n \in 1..(n + k) /\ p[i + n] = x
      <4>1. i + n \in 1..(n + k) /\ ~(i + n <= n) /\ (i + n) - n = i
        BY <1>1
      <4> QED
        BY <1>1, <3>1, <4>1
    <3> QED
      BY <1>1, <3>2 DEF ToSet
  <2> QED
    BY <2>1, <2>2, <2>3
<1>5. p \in Seq(T) /\ Once(p) /\ ToSet(p) = ToSet(q) \cup ToSet(s)
  BY <1>1, <1>3, <1>4 DEF Once
<1> QED
  BY <1>5 DEF p

\* All but the last.
LEMMA FrontOnce ==
  ASSUME NEW T, NEW q \in Seq(T), Once(q), q # <<>>
  PROVE  /\ Front(q) \in Seq(T) /\ Once(Front(q)) /\ Last(q) \in T
         /\ ToSet(q) = ToSet(Front(q)) \cup {Last(q)} /\ Last(q) \notin ToSet(Front(q))
<1> DEFINE p == Front(q)
           n == Len(q)
<1>1. /\ n \in Nat \ {0} /\ DOMAIN q = 1..n /\ \A i \in 1..n : q[i] \in T
      /\ Last(q) = q[n]
  BY DEF Last
<1>2. /\ p \in Seq(T) /\ DOMAIN p = 1..(n - 1) /\ \A i \in 1..(n - 1) : p[i] = q[i]
  BY <1>1 DEF Front
<1> HIDE DEF p, n
<1>3. n \in 1..n /\ \A i \in 1..(n - 1) : i \in 1..n /\ i # n
  BY <1>1
<1>4. \A i \in 1..n : i # n => i \in 1..(n - 1)
  BY <1>1
<1>5. Once(p)
  BY <1>1, <1>2, <1>3 DEF Once
<1>6. ToSet(q) = ToSet(p) \cup {Last(q)}
  <2>1. ASSUME NEW x \in ToSet(q) PROVE x \in ToSet(p) \cup {Last(q)}
    BY <1>1, <1>2, <1>4 DEF ToSet
  <2>2. ASSUME NEW x \in ToSet(p) PROVE x \in ToSet(q)
    BY <1>1, <1>2, <1>3 DEF ToSet
  <2>3. Last(q) \in ToSet(q)
    BY <1>1, <1>3 DEF ToSet
  <2> QED
    BY <2>1, <2>2, <2>3
<1>7. Last(q) \notin ToSet(p)
  <2>1. ASSUME NEW i \in 1..(n - 1), p[i] = q[n] PROVE FALSE
    BY <1>1, <1>2, <1>3, <2>1 DEF Once
  <2> QED
    BY <1>1, <1>2, <2>1 DEF ToSet
<1> QED
  BY <1>1, <1>2, <1>3, <1>5, <1>6, <1>7 DEF p

\* What is left when any one goes.
LEMMA RemoveOnce ==
  ASSUME NEW T, NEW q \in Seq(T), Once(q), NEW e
  PROVE  /\ RemoveFirst(q, e) \in Seq(T) /\ Once(RemoveFirst(q, e))
         /\ ToSet(RemoveFirst(q, e)) = ToSet(q) \ {e}
<1>1. q \in [1..Len(q) -> T] /\ Len(q) \in Nat /\ DOMAIN q = 1..Len(q)
  OBVIOUS
<1>2. CASE \A i \in 1..Len(q) : q[i] # e
  <2>1. RemoveFirst(q, e) = q
    BY <1>2 DEF RemoveFirst
  <2> QED
    BY <1>1, <1>2, <2>1 DEF ToSet
<1>3. CASE \E i \in 1..Len(q) : q[i] = e
  <2> DEFINE I == {i \in 1..Len(q) : q[i] = e}
             k == SelectInSeq(q, LAMBDA v : v = e)
  <2>1. k \in 1..Len(q) /\ q[k] = e
    <3>1. I # {} /\ I \subseteq Nat
      BY <1>3
    <3>2. \E m \in I : \A n \in I : m <= n
      BY <3>1, LeastNat
    <3>3. k = (CHOOSE m \in I : \A n \in I : m <= n)
      BY <3>1 DEF SelectInSeq, Min
    <3>4. k \in I
      BY <3>2, <3>3
    <3> QED
      BY <3>4
  <2>2. RemoveFirst(q, e) = RemoveAt(q, k)
    BY <1>3 DEF RemoveFirst
  <2> HIDE DEF k
  <2> DEFINE a == SubSeq(q, 1, k - 1)
             b == SubSeq(q, k + 1, Len(q))
             p == a \o b
  <2>3. /\ a \in Seq(T) /\ Len(a) = k - 1 /\ \A i \in 1..(k - 1) : a[i] = q[i]
    BY <1>1, <2>1
  <2>4. /\ b \in Seq(T) /\ Len(b) = Len(q) - k /\ \A i \in 1..(Len(q) - k) : b[i] = q[k + i]
    <3>1. k + 1 \in 1..(Len(q) + 1) /\ Len(q) \in ((k + 1) - 1)..Len(q)
      BY <1>1, <2>1
    <3>2. /\ b \in Seq(T)
          /\ Len(b) = IF k + 1 <= Len(q) THEN Len(q) - (k + 1) + 1 ELSE 0
          /\ \A i \in 1..(Len(q) - (k + 1) + 1) : b[i] = q[(k + 1) + i - 1]
      BY <3>1, SubSeqProperties
    <3> HIDE DEF b
    <3>3. Len(b) = Len(q) - k
      <4> DEFINE n == Len(q)
      <4>1. n \in Nat /\ k \in 1..n /\ Len(b) = IF k + 1 <= n THEN n - (k + 1) + 1 ELSE 0
        BY <1>1, <2>1, <3>2
      <4> HIDE DEF n
      <4>2. k + 1 <= n \/ k = n
        BY <4>1
      <4>3. Len(b) = n - k
        BY <4>1, <4>2
      <4> QED
        BY <4>3 DEF n
    <3>4. ASSUME NEW i \in 1..(Len(q) - k) PROVE b[i] = q[k + i]
      <4>1. i \in 1..(Len(q) - (k + 1) + 1) /\ (k + 1) + i - 1 = k + i
        BY <1>1, <2>1
      <4> QED
        BY <3>2, <4>1
    <3> QED
      BY <3>2, <3>3, <3>4
  <2>5. RemoveFirst(q, e) = p
    BY <2>2 DEF RemoveAt
  <2> HIDE DEF a, b
  <2>6. /\ p \in Seq(T) /\ DOMAIN p = 1..(Len(q) - 1)
        /\ \A i \in 1..(k - 1) : p[i] = q[i]
        /\ \A i \in 1..(Len(q) - k) : p[(k - 1) + i] = q[k + i]
    <3>1. /\ p \in Seq(T) /\ DOMAIN p = 1..(Len(a) + Len(b))
          /\ \A i \in 1..Len(a) : p[i] = a[i]
          /\ \A i \in 1..Len(b) : p[Len(a) + i] = b[i]
      <4>1. a \in Seq(T) /\ b \in Seq(T)
        BY <2>3, <2>4
      <4> QED
        BY <4>1
    <3>2. Len(a) + Len(b) = Len(q) - 1
      BY <1>1, <2>1, <2>3, <2>4
    <3> QED
      BY <2>3, <2>4, <3>1, <3>2
  <2> HIDE DEF p
  <2> DEFINE At(i) == IF i < k THEN i ELSE i + 1
  <2>7. ASSUME NEW i \in 1..(Len(q) - 1)
        PROVE  At(i) \in 1..Len(q) /\ At(i) # k /\ p[i] = q[At(i)]
    <3>1. CASE i < k
      BY <1>1, <2>1, <2>6, <3>1
    <3>2. CASE ~(i < k)
      <4>1. i - (k - 1) \in 1..(Len(q) - k) /\ (k - 1) + (i - (k - 1)) = i /\ k + (i - (k - 1)) = i + 1
        BY <1>1, <2>1, <3>2
      <4>2. p[i] = q[i + 1]
        BY <2>6, <4>1
      <4> QED
        BY <1>1, <2>1, <3>2, <4>2
    <3> QED
      BY <3>1, <3>2
  <2>8. Once(p)
    <3> SUFFICES ASSUME NEW i \in 1..(Len(q) - 1), NEW j \in 1..(Len(q) - 1), p[i] = p[j]
                 PROVE  i = j
      BY <2>6 DEF Once
    <3>1. At(i) = At(j)
      BY <1>1, <2>7 DEF Once
    <3> QED
      BY <2>1, <3>1
  <2>9. ToSet(p) = ToSet(q) \ {e}
    <3>1. ASSUME NEW i \in 1..(Len(q) - 1) PROVE p[i] \in ToSet(q) \ {e}
      <4>1. q[At(i)] # q[k]
        BY <1>1, <2>1, <2>7 DEF Once
      <4> QED
        BY <1>1, <2>1, <2>7, <4>1 DEF ToSet
    <3>2. ASSUME NEW i \in 1..Len(q), q[i] # e PROVE q[i] \in ToSet(p)
      <4>1. i # k
        BY <2>1, <3>2
      <4>2. CASE i < k
        <5>1. i \in 1..(Len(q) - 1) /\ At(i) = i
          BY <1>1, <2>1, <4>2
        <5> QED
          BY <2>6, <2>7, <5>1 DEF ToSet
      <4>3. CASE i > k
        <5>1. i - 1 \in 1..(Len(q) - 1) /\ At(i - 1) = i
          BY <1>1, <2>1, <4>3
        <5> QED
          BY <2>6, <2>7, <5>1 DEF ToSet
      <4> QED
        BY <2>1, <4>1, <4>2, <4>3
    <3> QED
      BY <1>1, <2>6, <3>1, <3>2 DEF ToSet
  <2> QED
    BY <2>5, <2>6, <2>8, <2>9
<1> QED
  BY <1>2, <1>3

\* Whatever sequence a set is made, it names each of them once.
LEMMA SeqOfSet ==
  ASSUME NEW S, IsFiniteSet(S), NEW q \in SetToSeqs(S)
  PROVE  q \in Seq(S) /\ Once(q) /\ ToSet(q) = S
<1> DEFINE n == Cardinality(S)
<1>1. n \in Nat
  BY FS_CardinalityType
<1>2. q \in [1..n -> S] /\ \A i, j \in 1..n : i # j => q[i] # q[j]
  BY DEF SetToSeqs
<1>3. IsFiniteSet(1..n) /\ Cardinality(1..n) = n
  BY <1>1, FS_Interval
<1> HIDE DEF n
<1>4. q \in Seq(S) /\ DOMAIN q = 1..n
  BY <1>1, <1>2
<1>5. Once(q)
  BY <1>2, <1>4 DEF Once
<1>6. q \in Injection(1..n, S)
  BY <1>2 DEF Injection, IsInjective
<1>7. q \in Surjection(1..n, S)
  BY <1>3, <1>6, FS_Injection DEF n
<1>8. ToSet(q) = S
  BY <1>2, <1>4, <1>7 DEF Surjection, ToSet
<1> QED
  BY <1>4, <1>5, <1>8

\* A sequence of anything is one of its own elements.
LEMMA SeqIsSeq ==
  ASSUME NEW T, NEW t \in Seq(T)
  PROVE  IsSeq(t)
<1> DEFINE S == {t[i] : i \in DOMAIN t}
<1>1. t \in [1..Len(t) -> T] /\ Len(t) \in Nat
  OBVIOUS
<1>2. t \in [1..Len(t) -> S]
  BY <1>1
<1>3. t \in Seq(S)
  BY <1>1, <1>2, SeqDef
<1> QED
  BY <1>3 DEF IsSeq

\* Appending keeps what was there and puts the new one behind it.
LEMMA SeqAppend ==
  ASSUME NEW s, IsSeq(s), NEW x
  PROVE  /\ IsSeq(Append(s, x)) /\ Len(s) \in Nat /\ Len(Append(s, x)) = Len(s) + 1
         /\ \A i \in 1..Len(s) : Append(s, x)[i] = s[i]
         /\ Append(s, x)[Len(s) + 1] = x /\ DOMAIN Append(s, x) = 1..(Len(s) + 1)
         /\ DOMAIN s = 1..Len(s)
<1> DEFINE T == {s[i] : i \in DOMAIN s} \cup {x}
           t == Append(s, x)
<1>1. s \in Seq(T)
  BY DEF IsSeq
<1>2. /\ t \in Seq(T) /\ Len(s) \in Nat /\ Len(t) = Len(s) + 1
      /\ \A i \in 1..Len(s) : t[i] = s[i]
      /\ t[Len(s) + 1] = x /\ DOMAIN t = 1..(Len(s) + 1) /\ DOMAIN s = 1..Len(s)
  BY <1>1
<1>3. IsSeq(t)
  BY <1>2, SeqIsSeq
<1> QED
  BY <1>2, <1>3

\* The tail is what stands behind the head.
LEMMA SeqTail ==
  ASSUME NEW s, IsSeq(s), s # <<>>
  PROVE  /\ IsSeq(Tail(s)) /\ Len(s) \in Nat \ {0} /\ Len(Tail(s)) = Len(s) - 1
         /\ \A i \in 1..Len(Tail(s)) : Tail(s)[i] = s[i + 1]
         /\ Head(s) = s[1] /\ DOMAIN Tail(s) = 1..(Len(s) - 1) /\ DOMAIN s = 1..Len(s)
<1> DEFINE t == Tail(s)
<1>1. s \in Seq({s[i] : i \in DOMAIN s})
  BY DEF IsSeq
<1>2. /\ t \in Seq({s[i] : i \in DOMAIN s}) /\ Len(s) \in Nat \ {0} /\ Len(t) = Len(s) - 1
      /\ \A i \in 1..Len(t) : t[i] = s[i + 1]
      /\ Head(s) = s[1] /\ DOMAIN t = 1..(Len(s) - 1) /\ DOMAIN s = 1..Len(s)
  BY <1>1
<1>3. IsSeq(t)
  BY <1>2, SeqIsSeq
<1> QED
  BY <1>2, <1>3

\* Of two sequences put together, one stands behind the other.
LEMMA SeqConcat ==
  ASSUME NEW s, IsSeq(s), NEW t, IsSeq(t)
  PROVE  /\ IsSeq(s \o t) /\ Len(s) \in Nat /\ Len(t) \in Nat
         /\ Len(s \o t) = Len(s) + Len(t) /\ DOMAIN (s \o t) = 1..(Len(s) + Len(t))
         /\ \A i \in 1..Len(s) : (s \o t)[i] = s[i]
         /\ \A i \in 1..Len(t) : (s \o t)[Len(s) + i] = t[i]
         /\ DOMAIN s = 1..Len(s) /\ DOMAIN t = 1..Len(t)
<1> DEFINE T == {s[i] : i \in DOMAIN s} \cup {t[i] : i \in DOMAIN t}
           u == s \o t
<1>1. s \in Seq(T) /\ t \in Seq(T)
  BY DEF IsSeq
<1>2. /\ u \in Seq(T) /\ Len(s) \in Nat /\ Len(t) \in Nat
      /\ Len(u) = Len(s) + Len(t) /\ DOMAIN u = 1..(Len(s) + Len(t))
      /\ \A i \in 1..Len(s) : u[i] = s[i]
      /\ \A i \in 1..Len(t) : u[Len(s) + i] = t[i]
      /\ DOMAIN s = 1..Len(s) /\ DOMAIN t = 1..Len(t)
  BY <1>1
<1>3. IsSeq(u)
  BY <1>2, SeqIsSeq
<1> QED
  BY <1>2, <1>3

\* What stands where after an element is taken out at a place.
LEMMA RemoveAtFacts ==
  ASSUME NEW T, NEW s \in Seq(T), NEW i \in 1..Len(s)
  PROVE  /\ RemoveAt(s, i) \in Seq(T) /\ Len(s) \in Nat /\ Len(RemoveAt(s, i)) = Len(s) - 1
         /\ \A k \in 1..(Len(s) - 1) : RemoveAt(s, i)[k] = IF k < i THEN s[k] ELSE s[k + 1]
<1> DEFINE a == SubSeq(s, 1, i - 1)
           b == SubSeq(s, i + 1, Len(s))
           N == Len(s)
<1>1. N \in Nat /\ i \in 1..N /\ \A k \in 1..N : s[k] \in T
  OBVIOUS
<1>2. a \in Seq(T) /\ Len(a) = i - 1 /\ \A k \in 1..(i - 1) : a[k] = s[k]
  <2>1. \A k \in 1..(i - 1) : s[k] \in T
    BY <1>1
  <2>2. /\ a \in Seq(T) /\ Len(a) = IF 1 <= i - 1 THEN i - 1 - 1 + 1 ELSE 0
        /\ \A k \in 1..(i - 1 - 1 + 1) : a[k] = s[1 + k - 1]
    BY <1>1, <2>1, SubSeqProperties
  <2> HIDE DEF a
  <2>3. Len(a) = i - 1
    <3>1. 1 <= i - 1 \/ i = 1
      BY <1>1
    <3> QED
      BY <1>1, <2>2, <3>1
  <2>4. ASSUME NEW k \in 1..(i - 1) PROVE a[k] = s[k]
    <3>1. k \in 1..(i - 1 - 1 + 1) /\ 1 + k - 1 = k
      BY <1>1
    <3> QED
      BY <2>2, <3>1
  <2> QED
    BY <2>2, <2>3, <2>4
<1>3. b \in Seq(T) /\ Len(b) = N - i /\ \A k \in 1..(N - i) : b[k] = s[i + k]
  <2>1. \A k \in (i + 1)..N : s[k] \in T
    BY <1>1
  <2>2. /\ b \in Seq(T) /\ Len(b) = IF i + 1 <= N THEN N - (i + 1) + 1 ELSE 0
        /\ \A k \in 1..(N - (i + 1) + 1) : b[k] = s[(i + 1) + k - 1]
    BY <1>1, <2>1, SubSeqProperties
  <2> HIDE DEF b, N
  <2>3. Len(b) = N - i
    <3>1. i + 1 <= N \/ i = N
      BY <1>1
    <3> QED
      BY <1>1, <2>2, <3>1
  <2>4. ASSUME NEW k \in 1..(N - i) PROVE b[k] = s[i + k]
    <3>1. k \in 1..(N - (i + 1) + 1) /\ (i + 1) + k - 1 = i + k
      BY <1>1
    <3> QED
      BY <2>2, <3>1
  <2> QED
    BY <2>2, <2>3, <2>4
<1>4. RemoveAt(s, i) = a \o b
  BY DEF RemoveAt
<1> HIDE DEF a, b
<1> DEFINE p == a \o b
<1>5. /\ p \in Seq(T) /\ Len(p) = Len(a) + Len(b)
      /\ \A k \in 1..Len(a) : p[k] = a[k]
      /\ \A k \in 1..Len(b) : p[Len(a) + k] = b[k]
  <2>1. a \in Seq(T) /\ b \in Seq(T)
    BY <1>2, <1>3
  <2> QED
    BY <2>1
<1> HIDE DEF p, N
<1>6. Len(p) = N - 1
  BY <1>1, <1>2, <1>3, <1>5
<1>7. ASSUME NEW k \in 1..(N - 1) PROVE p[k] = IF k < i THEN s[k] ELSE s[k + 1]
  <2>1. CASE k < i
    <3>1. k \in 1..(i - 1)
      BY <1>1, <2>1
    <3> QED
      BY <1>2, <1>5, <2>1, <3>1
  <2>2. CASE ~(k < i)
    <3>1. k - (i - 1) \in 1..(N - i) /\ (i - 1) + (k - (i - 1)) = k /\ i + (k - (i - 1)) = k + 1
      BY <1>1, <2>2
    <3> QED
      BY <1>2, <1>3, <1>5, <2>2, <3>1
  <2> QED
    BY <2>1, <2>2
<1> QED
  BY <1>1, <1>4, <1>5, <1>6, <1>7 DEF p, N

\* And when one is put in at a place.
LEMMA InsertAtFacts ==
  ASSUME NEW T, NEW s \in Seq(T), NEW i \in 1..(Len(s) + 1), NEW x \in T
  PROVE  /\ InsertAt(s, i, x) \in Seq(T) /\ Len(s) \in Nat /\ Len(InsertAt(s, i, x)) = Len(s) + 1
         /\ \A k \in 1..(Len(s) + 1) :
              InsertAt(s, i, x)[k] = IF k < i THEN s[k] ELSE IF k = i THEN x ELSE s[k - 1]
<1> DEFINE a == SubSeq(s, 1, i - 1)
           b == SubSeq(s, i, Len(s))
           h == <<x>>
           N == Len(s)
<1>1. N \in Nat /\ i \in 1..(N + 1) /\ \A k \in 1..N : s[k] \in T
  OBVIOUS
<1>2. a \in Seq(T) /\ Len(a) = i - 1 /\ \A k \in 1..(i - 1) : a[k] = s[k]
  <2>1. \A k \in 1..(i - 1) : s[k] \in T
    BY <1>1
  <2>2. /\ a \in Seq(T) /\ Len(a) = IF 1 <= i - 1 THEN i - 1 - 1 + 1 ELSE 0
        /\ \A k \in 1..(i - 1 - 1 + 1) : a[k] = s[1 + k - 1]
    BY <1>1, <2>1, SubSeqProperties
  <2> HIDE DEF a
  <2>3. Len(a) = i - 1
    <3>1. 1 <= i - 1 \/ i = 1
      BY <1>1
    <3> QED
      BY <1>1, <2>2, <3>1
  <2>4. ASSUME NEW k \in 1..(i - 1) PROVE a[k] = s[k]
    <3>1. k \in 1..(i - 1 - 1 + 1) /\ 1 + k - 1 = k
      BY <1>1
    <3> QED
      BY <2>2, <3>1
  <2> QED
    BY <2>2, <2>3, <2>4
<1>3. b \in Seq(T) /\ Len(b) = N - i + 1 /\ \A k \in 1..(N - i + 1) : b[k] = s[i + k - 1]
  <2>1. \A k \in i..N : s[k] \in T
    BY <1>1
  <2>2. /\ b \in Seq(T) /\ Len(b) = IF i <= N THEN N - i + 1 ELSE 0
        /\ \A k \in 1..(N - i + 1) : b[k] = s[i + k - 1]
    BY <1>1, <2>1, SubSeqProperties
  <2> HIDE DEF b, N
  <2>3. Len(b) = N - i + 1
    <3>1. i <= N \/ i = N + 1
      BY <1>1
    <3> QED
      BY <1>1, <2>2, <3>1
  <2> QED
    BY <2>2, <2>3
<1>4. InsertAt(s, i, x) = a \o h \o b /\ h \in Seq(T) /\ Len(h) = 1 /\ h[1] = x
  BY DEF InsertAt
<1> HIDE DEF a, b, h
<1> DEFINE p == a \o h
           q == p \o b
<1>5. p \in Seq(T) /\ Len(p) = i /\ (\A k \in 1..(i - 1) : p[k] = s[k]) /\ p[i] = x
  <2>1. /\ p \in Seq(T) /\ Len(p) = Len(a) + Len(h)
        /\ \A k \in 1..Len(a) : p[k] = a[k]
        /\ \A k \in 1..Len(h) : p[Len(a) + k] = h[k]
    <3>1. a \in Seq(T) /\ h \in Seq(T)
      BY <1>2, <1>4
    <3> QED
      BY <3>1
  <2> HIDE DEF p
  <2>2. Len(p) = i /\ \A k \in 1..(i - 1) : p[k] = s[k]
    BY <1>1, <1>2, <1>4, <2>1
  <2>3. 1 \in 1..1 /\ (i - 1) + 1 = i
    BY <1>1
  <2> QED
    BY <1>2, <1>4, <2>1, <2>2, <2>3
<1> HIDE DEF p
<1>6. /\ q \in Seq(T) /\ Len(q) = Len(p) + Len(b)
      /\ \A k \in 1..Len(p) : q[k] = p[k]
      /\ \A k \in 1..Len(b) : q[Len(p) + k] = b[k]
  <2>1. p \in Seq(T) /\ b \in Seq(T)
    BY <1>3, <1>5
  <2> QED
    BY <2>1
<1> HIDE DEF q, N
<1>7. Len(q) = N + 1
  BY <1>1, <1>3, <1>5, <1>6
<1>8. ASSUME NEW k \in 1..(N + 1)
      PROVE  q[k] = IF k < i THEN s[k] ELSE IF k = i THEN x ELSE s[k - 1]
  <2>1. CASE k <= i
    <3>1. k \in 1..i /\ (k < i => k \in 1..(i - 1)) /\ (k < i \/ k = i)
      BY <1>1, <2>1
    <3> QED
      BY <1>5, <1>6, <2>1, <3>1
  <2>2. CASE ~(k <= i)
    <3>1. k - i \in 1..(N - i + 1) /\ i + (k - i) = k /\ i + (k - i) - 1 = k - 1 /\ ~(k < i) /\ k # i
      BY <1>1, <2>2
    <3> QED
      BY <1>3, <1>5, <1>6, <3>1
  <2> QED
    BY <2>1, <2>2
<1> QED
  BY <1>1, <1>4, <1>6, <1>7, <1>8 DEF p, q, N

\* Who is taken out is gone, and nobody is named twice.
LEMMA RemoveAtOnce ==
  ASSUME NEW T, NEW s \in Seq(T), Once(s), NEW i \in 1..Len(s)
  PROVE  Once(RemoveAt(s, i)) /\ ToSet(RemoveAt(s, i)) = ToSet(s) \ {s[i]}
<1> DEFINE p == RemoveAt(s, i)
           N == Len(s)
           At(k) == IF k < i THEN k ELSE k + 1
<1>1. /\ p \in Seq(T) /\ N \in Nat /\ Len(p) = N - 1
      /\ \A k \in 1..(N - 1) : p[k] = IF k < i THEN s[k] ELSE s[k + 1]
  BY RemoveAtFacts
<1>2. DOMAIN p = 1..(N - 1) /\ DOMAIN s = 1..N /\ i \in 1..N
  BY <1>1
<1> HIDE DEF p, N
<1>3. ASSUME NEW k \in 1..(N - 1) PROVE At(k) \in 1..N /\ At(k) # i /\ p[k] = s[At(k)]
  BY <1>1, <1>2
<1>4. ASSUME NEW j \in 1..(N - 1), NEW k \in 1..(N - 1), p[j] = p[k] PROVE j = k
  <2>1. At(j) = At(k)
    BY <1>2, <1>3, <1>4 DEF Once
  <2> QED
    BY <1>2, <2>1
<1>5. ASSUME NEW k \in 1..N, k # i
      PROVE  \E j \in 1..(N - 1) : p[j] = s[k]
  <2>1. CASE k < i
    <3>1. k \in 1..(N - 1) /\ At(k) = k
      BY <1>1, <1>2, <2>1
    <3> QED
      BY <1>3, <3>1
  <2>2. CASE k > i
    <3>1. k - 1 \in 1..(N - 1) /\ At(k - 1) = k
      BY <1>1, <1>2, <2>2
    <3> QED
      BY <1>3, <3>1
  <2> QED
    BY <1>2, <1>5, <2>1, <2>2
<1>6. ASSUME NEW k \in 1..(N - 1) PROVE p[k] \in ToSet(s) \ {s[i]}
  BY <1>2, <1>3 DEF Once, ToSet
<1>7. ASSUME NEW y \in ToSet(s) \ {s[i]} PROVE y \in ToSet(p)
  <2>1. PICK k \in 1..N : s[k] = y
    BY <1>2 DEF ToSet
  <2>2. k # i
    BY <2>1
  <2> QED
    BY <1>2, <1>5, <2>1, <2>2 DEF ToSet
<1>8. ToSet(p) \subseteq ToSet(s) \ {s[i]}
  BY <1>2, <1>6 DEF ToSet
<1> QED
  BY <1>2, <1>4, <1>7, <1>8 DEF Once, p

\* Who is put in is new, and nobody is named twice.
LEMMA InsertAtOnce ==
  ASSUME NEW T, NEW s \in Seq(T), Once(s), NEW i \in 1..(Len(s) + 1), NEW x \in T, x \notin ToSet(s)
  PROVE  Once(InsertAt(s, i, x)) /\ ToSet(InsertAt(s, i, x)) = ToSet(s) \cup {x}
<1> DEFINE p == InsertAt(s, i, x)
           N == Len(s)
           At(k) == IF k < i THEN k ELSE k - 1
<1>1. /\ p \in Seq(T) /\ N \in Nat /\ Len(p) = N + 1
      /\ \A k \in 1..(N + 1) : p[k] = IF k < i THEN s[k] ELSE IF k = i THEN x ELSE s[k - 1]
  <2> HIDE DEF p
  <2>1. /\ p \in Seq(T) /\ Len(s) \in Nat /\ Len(p) = Len(s) + 1
        /\ \A k \in 1..(Len(s) + 1) : p[k] = IF k < i THEN s[k] ELSE IF k = i THEN x ELSE s[k - 1]
    BY InsertAtFacts DEF p
  <2> QED
    BY <2>1
<1>2. DOMAIN p = 1..(N + 1) /\ DOMAIN s = 1..N /\ i \in 1..(N + 1)
  BY <1>1
<1> HIDE DEF p, N
<1>3. ASSUME NEW k \in 1..(N + 1), k # i PROVE At(k) \in 1..N /\ p[k] = s[At(k)]
  BY <1>1, <1>2, <1>3
<1>4. p[i] = x /\ \A k \in 1..N : s[k] # x
  BY <1>1, <1>2 DEF ToSet
<1>5. ASSUME NEW j \in 1..(N + 1), NEW k \in 1..(N + 1), p[j] = p[k] PROVE j = k
  <2>1. CASE j = i \/ k = i
    BY <1>3, <1>4, <1>5, <2>1
  <2>2. CASE j # i /\ k # i
    <3>1. At(j) = At(k)
      BY <1>2, <1>3, <1>5, <2>2 DEF Once
    <3> QED
      BY <1>2, <2>2, <3>1
  <2> QED
    BY <2>1, <2>2
<1>6. ASSUME NEW k \in 1..N PROVE \E j \in 1..(N + 1) : p[j] = s[k]
  <2>1. CASE k < i
    <3>1. k \in 1..(N + 1) /\ At(k) = k /\ k # i
      BY <1>1, <1>2, <2>1
    <3> QED
      BY <1>3, <3>1
  <2>2. CASE ~(k < i)
    <3>1. k + 1 \in 1..(N + 1) /\ At(k + 1) = k /\ k + 1 # i
      BY <1>1, <1>2, <2>2
    <3> QED
      BY <1>3, <3>1
  <2> QED
    BY <2>1, <2>2
<1>7. ToSet(s) \subseteq ToSet(p)
  BY <1>2, <1>6 DEF ToSet
<1>8. x \in ToSet(p)
  BY <1>2, <1>4 DEF ToSet
<1>9. ToSet(p) \subseteq ToSet(s) \cup {x}
  BY <1>2, <1>3, <1>4 DEF ToSet
<1> QED
  BY <1>2, <1>5, <1>7, <1>8, <1>9 DEF Once, p

\* Who is taken out and put in again at the same place leaves no trace.
LEMMA InsertBack ==
  ASSUME NEW T, NEW s \in Seq(T), NEW i \in 1..Len(s)
  PROVE  InsertAt(RemoveAt(s, i), i, s[i]) = s
<1> DEFINE p == RemoveAt(s, i)
           N == Len(s)
           x == s[i]
           q == InsertAt(p, i, x)
<1>1. /\ p \in Seq(T) /\ N \in Nat /\ Len(p) = N - 1 /\ x \in T /\ i \in 1..N
      /\ \A k \in 1..(N - 1) : p[k] = IF k < i THEN s[k] ELSE s[k + 1]
  BY RemoveAtFacts
<1> HIDE DEF p, x
<1>2. /\ q \in Seq(T) /\ Len(q) = Len(p) + 1
      /\ \A k \in 1..(Len(p) + 1) : q[k] = IF k < i THEN p[k] ELSE IF k = i THEN x ELSE p[k - 1]
  <2>1. i \in 1..(Len(p) + 1)
    BY <1>1
  <2> QED
    BY <1>1, <2>1, InsertAtFacts
<1>3. s \in [1..N -> T] /\ q \in [1..N -> T]
  <2>1. Len(q) = N
    BY <1>1, <1>2
  <2> HIDE DEF q
  <2> QED
    BY <1>2, <2>1
<1> HIDE DEF q, N
<1>4. ASSUME NEW k \in 1..N PROVE q[k] = s[k]
  <2>1. k \in 1..(Len(p) + 1)
    BY <1>1
  <2>2. CASE k < i
    <3>1. k \in 1..(N - 1)
      BY <1>1, <2>2
    <3> QED
      BY <1>1, <1>2, <2>1, <2>2, <3>1
  <2>3. CASE k = i
    BY <1>1, <1>2, <2>1, <2>3 DEF x
  <2>4. CASE k > i
    <3>1. k - 1 \in 1..(N - 1) /\ ~(k - 1 < i) /\ (k - 1) + 1 = k /\ ~(k < i) /\ k # i
      BY <1>1, <2>4
    <3> QED
      BY <1>1, <1>2, <2>1, <3>1
  <2> QED
    BY <1>1, <2>2, <2>3, <2>4
<1>5. q = [k \in 1..N |-> q[k]] /\ s = [k \in 1..N |-> s[k]]
  BY <1>3
<1>6. q = s
  BY <1>4, <1>5
<1> QED
  BY <1>6 DEF p, q, x
=============================================================================
