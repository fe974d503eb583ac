--------------------------- MODULE ReplicatorProofs ---------------------------
(***************************************************************************)
(* FiresAfterDelivery for any number of clients, properties and markers.   *)
(* Requests overtake each other, so the markers of a line need not be      *)
(* those that fire: what counts is how many there are. The k-th marker of  *)
(* the line fires the k-th that waits, and whoever owes that one stands no *)
(* further back.                                                           *)
(*                                                                         *)
(* NamesUnderstood: the codes among the items of a line are the line of a  *)
(* StringDictionary, whatever stands between; and a StringDictionary is    *)
(* understood, since what an index stands for is known at every place of a *)
(* line.                                                                   *)
(*                                                                         *)
(* Converges: of a property that both ends of a connection did not change  *)
(* at once only one of them has news, and the last of it will be, or is,   *)
(* what the property is there. Where it comes it is the end of the news;   *)
(* what that node then passes on is news of its own to the others.         *)
(***************************************************************************)
EXTENDS Replicator, SequenceFacts

\* The three kinds of items, and a line of them.
IsItem(i) ==
  \/ i = [kind |-> "change", name |-> i.name, owes |-> i.owes]
  \/ i = [kind |-> "change", code |-> i.code, value |-> i.value, owes |-> i.owes]
  \/ i = [kind |-> "marker", marker |-> i.marker, owes |-> i.owes]
IsLine(s) == IsSeq(s) /\ \A i \in DOMAIN s : IsItem(s[i])

\* f[k] is how many markers stand before place k of s.
One(i) == IF i.kind = "marker" THEN 1 ELSE 0
Counts(f, s) ==
  /\ f \in [1..(Len(s) + 1) -> Nat] /\ f[1] = 0
  /\ \A k \in 1..Len(s) : f[k + 1] = f[k] + One(s[k])
  /\ \A k \in 1..(Len(s) + 1) : \A j \in 1..k : f[j] <= f[k]

\* A line s to a client who waits for the markers w, n of them still requested: there
\* is a marker for each of the others, behind all who owe what it will fire.
Covers(f, s, w, n) ==
  /\ Counts(f, s) /\ f[Len(s) + 1] + n = Len(w)
  /\ \A k \in 1..Len(s), j \in 1..Len(w) : w[j] \in s[k].owes => f[k] < j
Owes(s, w) == \A k \in 1..Len(s) : \A m \in s[k].owes : \E j \in 1..Len(w) : w[j] = m
InOrder(s, w, n) == Owes(s, w) /\ \E f : Covers(f, s, w, n)

\* What the server has for a client, on the wire and behind it.
ToClient(c) == <<Server, c>>
Line(c) == wire[ToClient(c)] \o pending[ToClient(c)]
Asked(c) == {r \in asked : r[1] = c}

Shapes ==
  /\ DOMAIN pending = Link /\ DOMAIN wire = Link
  /\ \A l \in Link : IsLine(pending[l]) /\ IsLine(wire[l])
  /\ incoming \in [Client -> Seq(Marker)]
  /\ asked \subseteq Client \X Marker /\ IsFiniteSet(asked)
Ordered == \A c \in Client : InOrder(Line(c), incoming[c], Cardinality(Asked(c)))
IInv == Shapes /\ Ordered

-----------------------------------------------------------------------------
\* The order of a line lives through all that is done to it. Nothing that changes
\* neither kinds nor debts disturbs it.
LEMMA OrderSame ==
  ASSUME NEW s, NEW t, NEW w, NEW n, Len(s) \in Nat, Len(t) = Len(s),
         \A k \in 1..Len(s) : t[k].kind = s[k].kind /\ t[k].owes = s[k].owes,
         InOrder(s, w, n)
  PROVE  InOrder(t, w, n)
<1>1. Owes(t, w)
  BY DEF InOrder, Owes
<1>2. PICK f : Covers(f, s, w, n)
  BY DEF InOrder
<1>3. \A k \in 1..Len(s) : One(t[k]) = One(s[k])
  BY DEF One
<1>4. Counts(f, t)
  BY <1>2, <1>3 DEF Covers, Counts
<1>5. Covers(f, t, w, n)
  BY <1>2, <1>4 DEF Covers
<1> QED
  BY <1>1, <1>5 DEF InOrder

\* A change comes in between.
LEMMA OrderInsert ==
  ASSUME NEW s, NEW t, NEW w, NEW n, Len(s) \in Nat, Len(t) = Len(s) + 1,
         NEW q \in 1..(Len(s) + 1),
         \A k \in 1..(q - 1) : t[k] = s[k],
         t[q].kind # "marker", t[q].owes = {},
         \A k \in q..Len(s) : t[k + 1] = s[k],
         InOrder(s, w, n)
  PROVE  InOrder(t, w, n)
<1> DEFINE N == Len(s)
<1>1. PICK f : Covers(f, s, w, n)
  BY DEF InOrder
<1> DEFINE g == [k \in 1..(N + 2) |-> IF k <= q THEN f[k] ELSE f[k - 1]]
<1>2. /\ f \in [1..(N + 1) -> Nat] /\ f[1] = 0
      /\ \A k \in 1..N : f[k + 1] = f[k] + One(s[k])
      /\ \A k \in 1..(N + 1) : \A j \in 1..k : f[j] <= f[k]
      /\ f[N + 1] + n = Len(w)
      /\ \A k \in 1..N, j \in 1..Len(w) : w[j] \in s[k].owes => f[k] < j
  BY <1>1 DEF Covers, Counts
<1>3. \A k \in 1..(N + 1) : \/ k < q /\ k \in 1..N /\ t[k] = s[k]
                            \/ k = q
                            \/ k > q /\ k - 1 \in q..N /\ k - 1 \in 1..N /\ t[k] = s[k - 1]
  <2>1. SUFFICES ASSUME NEW k \in 1..(N + 1)
                 PROVE  \/ k < q /\ k \in 1..N /\ t[k] = s[k]
                        \/ k = q
                        \/ k > q /\ k - 1 \in q..N /\ k - 1 \in 1..N /\ t[k] = s[k - 1]
    OBVIOUS
  <2>2. CASE k < q
    BY <2>2
  <2>3. CASE k > q
    <3>1. k - 1 \in q..N /\ k - 1 \in 1..N /\ (k - 1) + 1 = k
      BY <2>3
    <3> QED
      BY <2>3, <3>1
  <2> QED
    BY <2>2, <2>3
<1>4. /\ g \in [1..(N + 2) -> Nat] /\ g[1] = 0 /\ g[N + 2] = f[N + 1]
  BY <1>2
<1>5. ASSUME NEW k \in 1..(N + 1) PROVE g[k + 1] = g[k] + One(t[k])
  <2>1. CASE k < q
    BY <1>2, <1>3, <2>1
  <2>2. CASE k = q
    <3>1. One(t[k]) = 0
      BY <2>2 DEF One
    <3>2. g[k + 1] = f[k] /\ g[k] = f[k] /\ f[k] \in Nat
      BY <1>2, <2>2
    <3> QED
      BY <3>1, <3>2
  <2>3. CASE k > q
    <3>1. k - 1 \in 1..N /\ t[k] = s[k - 1] /\ (k - 1) + 1 = k
      BY <1>3, <2>3
    <3>2. g[k + 1] = f[k] /\ g[k] = f[k - 1]
      BY <2>3
    <3> QED
      BY <1>2, <3>1, <3>2
  <2> QED
    BY <2>1, <2>2, <2>3
<1>6. ASSUME NEW k \in 1..(N + 2), NEW j \in 1..k PROVE g[j] <= g[k]
  BY <1>2
<1>7. Counts(g, t)
  <2>1. Len(t) = N + 1 /\ (N + 1) + 1 = N + 2
    OBVIOUS
  <2> QED
    BY <1>4, <1>5, <1>6, <2>1 DEF Counts
<1>8. ASSUME NEW k \in 1..(N + 1), NEW j \in 1..Len(w), w[j] \in t[k].owes
      PROVE  g[k] < j
  <2>1. k # q
    BY <1>8
  <2>2. CASE k < q
    BY <1>2, <1>3, <1>8, <2>2
  <2>3. CASE k > q
    <3>1. k - 1 \in 1..N /\ t[k] = s[k - 1]
      BY <1>3, <2>3
    <3>2. g[k] = f[k - 1]
      BY <2>3
    <3> QED
      BY <1>2, <1>8, <3>1, <3>2
  <2> QED
    BY <2>1, <2>2, <2>3
<1>9. Owes(t, w)
  <2>1. SUFFICES ASSUME NEW k \in 1..(N + 1), NEW m \in t[k].owes
                 PROVE  \E j \in 1..Len(w) : w[j] = m
    BY DEF Owes
  <2>2. \E h \in 1..N : m \in s[h].owes
    BY <1>3
  <2> QED
    BY <2>2 DEF InOrder, Owes
<1>10. Covers(g, t, w, n)
  <2>1. Len(t) = N + 1 /\ g[(N + 1) + 1] = f[N + 1]
    BY <1>4
  <2> QED
    BY <1>2, <1>7, <1>8, <2>1 DEF Covers
<1> QED
  BY <1>9, <1>10 DEF InOrder

\* The first item is read: a change and no marker fires; a marker, and the one that
\* has waited longest does.
LEMMA OrderDrop ==
  ASSUME NEW s, NEW t, NEW w, NEW v, NEW n, Len(s) \in Nat \ {0}, Len(t) = Len(s) - 1,
         \A k \in 1..Len(t) : t[k] = s[k + 1],
         NEW d \in Nat, d = One(s[1]), Len(w) \in Nat, n \in Nat,
         d <= Len(w) => Len(v) = Len(w) - d /\ \A j \in 1..Len(v) : v[j] = w[j + d],
         InOrder(s, w, n)
  PROVE  InOrder(t, v, n) /\ d <= Len(w)
<1> DEFINE N == Len(s)
<1>1. PICK f : Covers(f, s, w, n)
  BY DEF InOrder
<1> DEFINE g == [k \in 1..N |-> f[k + 1] - d]
<1>2. /\ f \in [1..(N + 1) -> Nat] /\ f[1] = 0
      /\ \A k \in 1..N : f[k + 1] = f[k] + One(s[k])
      /\ \A k \in 1..(N + 1) : \A j \in 1..k : f[j] <= f[k]
      /\ f[N + 1] + n = Len(w)
      /\ \A k \in 1..N, j \in 1..Len(w) : w[j] \in s[k].owes => f[k] < j
  BY <1>1 DEF Covers, Counts
<1>3. f[2] = d
  <2>1. 1 \in 1..N /\ 1 + 1 = 2
    OBVIOUS
  <2> QED
    BY <1>2, <2>1
<1>4. \A k \in 2..(N + 1) : f[k] \in Nat /\ d <= f[k]
  BY <1>2, <1>3
<1>5. d <= Len(w) /\ Len(v) = Len(w) - d /\ \A j \in 1..Len(v) : v[j] = w[j + d]
  BY <1>2, <1>4
<1>6. \A k \in 1..N : k + 1 \in 2..(N + 1) /\ g[k] = f[k + 1] - d
  OBVIOUS
<1>7. g \in [1..N -> Nat] /\ g[1] = 0 /\ g[N] + n = Len(v)
  <2>1. ASSUME NEW k \in 1..N PROVE g[k] \in Nat
    <3>1. f[k + 1] \in Nat /\ d <= f[k + 1] /\ g[k] = f[k + 1] - d
      BY <1>4, <1>6
    <3> QED
      BY <3>1
  <2>2. g \in [1..N -> Nat]
    BY <2>1
  <2>3. 1 \in 1..N /\ N \in 1..N /\ 1 + 1 = 2
    OBVIOUS
  <2>4. g[1] = 0
    BY <1>3, <1>6, <2>3
  <2>5. g[N] = f[N + 1] - d /\ f[N + 1] \in Nat
    BY <1>2, <1>6, <2>3
  <2> QED
    BY <1>2, <1>5, <2>2, <2>4, <2>5
<1>8. ASSUME NEW k \in 1..(N - 1) PROVE g[k + 1] = g[k] + One(t[k])
  <2>1. k + 1 \in 1..N /\ k \in 1..N /\ t[k] = s[k + 1]
    OBVIOUS
  <2>2. f[(k + 1) + 1] = f[k + 1] + One(s[k + 1])
    BY <1>2, <2>1
  <2>3. g[k + 1] = f[(k + 1) + 1] - d /\ g[k] = f[k + 1] - d
    BY <1>6, <2>1
  <2>4. f[k + 1] \in Nat /\ One(s[k + 1]) \in Nat
    BY <1>2, <2>1 DEF One
  <2> QED
    BY <2>1, <2>2, <2>3, <2>4
<1>9. ASSUME NEW k \in 1..N, NEW j \in 1..k PROVE g[j] <= g[k]
  <2>1. k + 1 \in 1..(N + 1) /\ j + 1 \in 1..(k + 1) /\ j \in 1..N
    OBVIOUS
  <2>2. f[j + 1] <= f[k + 1]
    BY <1>2, <2>1
  <2>3. j + 1 \in 1..(N + 1)
    OBVIOUS
  <2>4. f[j + 1] \in Nat /\ f[k + 1] \in Nat
    BY <1>2, <2>1, <2>3
  <2> QED
    BY <1>6, <2>1, <2>2, <2>4
<1>10. Counts(g, t)
  <2>1. Len(t) = N - 1 /\ (N - 1) + 1 = N
    OBVIOUS
  <2> QED
    BY <1>7, <1>8, <1>9, <2>1 DEF Counts
<1>11. ASSUME NEW k \in 1..(N - 1), NEW j \in 1..Len(v), v[j] \in t[k].owes
       PROVE  g[k] < j
  <2>1. k + 1 \in 1..N /\ k \in 1..N /\ t[k] = s[k + 1]
    OBVIOUS
  <2>2. j + d \in 1..Len(w) /\ v[j] = w[j + d]
    BY <1>5
  <2>3. f[k + 1] < j + d /\ f[k + 1] \in Nat
    <3>1. w[j + d] \in s[k + 1].owes
      BY <1>11, <2>1, <2>2
    <3>2. k + 1 \in 1..(N + 1)
      OBVIOUS
    <3> QED
      BY <1>2, <2>1, <2>2, <3>1, <3>2
  <2> QED
    BY <1>6, <2>1, <2>3
<1>12. Owes(t, v)
  <2>1. SUFFICES ASSUME NEW k \in 1..(N - 1), NEW m \in t[k].owes
                 PROVE  \E j \in 1..Len(v) : v[j] = m
    BY DEF Owes
  <2>2. k + 1 \in 1..N /\ t[k] = s[k + 1] /\ k + 1 \in 2..(N + 1)
    OBVIOUS
  <2>3. PICK j \in 1..Len(w) : w[j] = m
    BY <2>2 DEF InOrder, Owes
  <2>4. f[k + 1] < j /\ d <= f[k + 1] /\ f[k + 1] \in Nat
    BY <1>2, <1>4, <2>2, <2>3
  <2>5. j - d \in 1..Len(v) /\ (j - d) + d = j
    BY <1>5, <2>4
  <2>6. v[j - d] = m
    BY <1>5, <2>3, <2>5
  <2> QED
    BY <2>5, <2>6
<1>13. Covers(g, t, v, n)
  <2>1. Len(t) = N - 1 /\ (N - 1) + 1 = N
    OBVIOUS
  <2> QED
    BY <1>7, <1>10, <1>11, <2>1 DEF Covers
<1> QED
  BY <1>5, <1>12, <1>13 DEF InOrder

\* A marker is asked for: whoever is there owes it.
LEMMA OrderAsk ==
  ASSUME NEW s, NEW t, NEW w, NEW v, NEW n \in Nat, NEW m, Len(s) \in Nat,
         Len(t) = Len(s), Len(w) \in Nat, Len(v) = Len(w) + 1,
         \A j \in 1..Len(w) : v[j] = w[j] /\ w[j] # m,
         v[Len(w) + 1] = m,
         \A k \in 1..Len(s) : t[k].kind = s[k].kind /\ t[k].owes = s[k].owes \cup {m},
         InOrder(s, w, n)
  PROVE  InOrder(t, v, n + 1)
<1> DEFINE N == Len(s)
<1>1. PICK f : Covers(f, s, w, n)
  BY DEF InOrder
<1>2. /\ f \in [1..(N + 1) -> Nat] /\ f[N + 1] + n = Len(w)
      /\ \A k \in 1..(N + 1) : \A j \in 1..k : f[j] <= f[k]
      /\ \A k \in 1..N, j \in 1..Len(w) : w[j] \in s[k].owes => f[k] < j
  BY <1>1 DEF Covers, Counts
<1>3. \A k \in 1..N : One(t[k]) = One(s[k])
  BY DEF One
<1>4. Counts(f, t)
  BY <1>1, <1>3 DEF Covers, Counts
<1>5. ASSUME NEW k \in 1..N, NEW j \in 1..Len(v), v[j] \in t[k].owes
      PROVE  f[k] < j
  <2>1. CASE j \in 1..Len(w)
    <3>1. w[j] \in s[k].owes
      BY <1>5, <2>1
    <3> QED
      BY <1>2, <2>1, <3>1
  <2>2. CASE j = Len(w) + 1
    <3>1. N + 1 \in 1..(N + 1) /\ k \in 1..(N + 1)
      OBVIOUS
    <3>2. f[k] <= f[N + 1] /\ f[k] \in Nat /\ f[N + 1] \in Nat
      BY <1>2, <3>1
    <3> QED
      BY <1>2, <2>2, <3>2
  <2> QED
    BY <2>1, <2>2
<1>6. Owes(t, v)
  <2>1. SUFFICES ASSUME NEW k \in 1..N, NEW o \in t[k].owes
                 PROVE  \E j \in 1..Len(v) : v[j] = o
    BY DEF Owes
  <2>2. CASE o = m
    BY <2>2
  <2>3. CASE o \in s[k].owes
    <3>1. PICK j \in 1..Len(w) : w[j] = o
      BY <2>3 DEF InOrder, Owes
    <3>2. j \in 1..Len(v) /\ v[j] = o
      BY <3>1
    <3> QED
      BY <3>2
  <2> QED
    BY <2>2, <2>3
<1>7. f[Len(t) + 1] + (n + 1) = Len(v)
  <2>1. N + 1 \in 1..(N + 1)
    OBVIOUS
  <2>2. f[N + 1] \in Nat
    BY <1>2, <2>1
  <2> QED
    BY <1>2, <2>2
<1>8. Covers(f, t, v, n + 1)
  BY <1>4, <1>5, <1>7 DEF Covers
<1> QED
  BY <1>6, <1>8 DEF InOrder

\* A request is heard: a marker comes in at the end.
LEMMA OrderHear ==
  ASSUME NEW s, NEW t, NEW w, NEW n \in Nat \ {0}, Len(s) \in Nat, Len(w) \in Nat,
         Len(t) = Len(s) + 1, \A k \in 1..Len(s) : t[k] = s[k],
         t[Len(s) + 1].kind = "marker", t[Len(s) + 1].owes = {},
         InOrder(s, w, n)
  PROVE  InOrder(t, w, n - 1)
<1> DEFINE N == Len(s)
<1>1. PICK f : Covers(f, s, w, n)
  BY DEF InOrder
<1> DEFINE g == [k \in 1..(N + 2) |-> IF k <= N + 1 THEN f[k] ELSE f[N + 1] + 1]
<1>2. /\ f \in [1..(N + 1) -> Nat] /\ f[1] = 0
      /\ \A k \in 1..N : f[k + 1] = f[k] + One(s[k])
      /\ \A k \in 1..(N + 1) : \A j \in 1..k : f[j] <= f[k]
      /\ f[N + 1] + n = Len(w)
      /\ \A k \in 1..N, j \in 1..Len(w) : w[j] \in s[k].owes => f[k] < j
  BY <1>1 DEF Covers, Counts
<1>3. /\ g \in [1..(N + 2) -> Nat] /\ g[1] = 0
      /\ \A k \in 1..(N + 1) : g[k] = f[k]
      /\ g[N + 2] = f[N + 1] + 1
  BY <1>2
<1>4. ASSUME NEW k \in 1..(N + 1) PROVE g[k + 1] = g[k] + One(t[k])
  <2>1. CASE k \in 1..N
    <3>1. t[k] = s[k] /\ k + 1 \in 1..(N + 1)
      BY <2>1
    <3> QED
      BY <1>2, <1>3, <2>1, <3>1
  <2>2. CASE k = N + 1
    <3>1. One(t[k]) = 1
      BY <2>2 DEF One
    <3> QED
      BY <1>3, <2>2, <3>1
  <2> QED
    BY <2>1, <2>2
<1>5. ASSUME NEW k \in 1..(N + 2), NEW j \in 1..k PROVE g[j] <= g[k]
  <2>1. CASE k \in 1..(N + 1)
    <3>1. j \in 1..(N + 1)
      BY <2>1
    <3> QED
      BY <1>2, <1>3, <2>1, <3>1
  <2>2. CASE k = N + 2 /\ j \in 1..(N + 1)
    <3>1. N + 1 \in 1..(N + 1) /\ j \in 1..(N + 1)
      BY <2>2
    <3>2. f[j] <= f[N + 1] /\ f[j] \in Nat /\ f[N + 1] \in Nat
      BY <1>2, <3>1
    <3> QED
      BY <1>3, <2>2, <3>2
  <2>3. CASE k = N + 2 /\ j = N + 2
    BY <1>3, <2>3
  <2> QED
    BY <2>1, <2>2, <2>3
<1>6. Counts(g, t)
  <2>1. Len(t) = N + 1 /\ (N + 1) + 1 = N + 2
    OBVIOUS
  <2> QED
    BY <1>3, <1>4, <1>5, <2>1 DEF Counts
<1>7. ASSUME NEW k \in 1..(N + 1), NEW j \in 1..Len(w), w[j] \in t[k].owes
      PROVE  g[k] < j
  <2>1. k \in 1..N /\ t[k] = s[k]
    BY <1>7
  <2> QED
    BY <1>2, <1>3, <1>7, <2>1
<1>8. Owes(t, w)
  <2>1. SUFFICES ASSUME NEW k \in 1..(N + 1), NEW m \in t[k].owes
                 PROVE  \E j \in 1..Len(w) : w[j] = m
    BY DEF Owes
  <2>2. k \in 1..N /\ m \in s[k].owes
    <3>1. k = N + 1 \/ k \in 1..N
      OBVIOUS
    <3> QED
      BY <3>1
  <2> QED
    BY <2>2 DEF InOrder, Owes
<1>9. Covers(g, t, w, n - 1)
  <2>1. Len(t) = N + 1 /\ (N + 1) + 1 = N + 2
    OBVIOUS
  <2>2. N + 1 \in 1..(N + 1)
    OBVIOUS
  <2>3. f[N + 1] \in Nat
    BY <1>2, <2>2
  <2>4. g[N + 2] + (n - 1) = Len(w)
    BY <1>2, <1>3, <2>3
  <2> QED
    BY <1>6, <1>7, <2>1, <2>4 DEF Covers
<1> QED
  BY <1>8, <1>9 DEF InOrder

-----------------------------------------------------------------------------
\* Links lead from the server to a client, or back.
LEMMA LinkFacts ==
  ASSUME NEW c \in Client
  PROVE  /\ ToClient(c) \in Link /\ ToClient(c)[1] = Server /\ ToClient(c)[2] = c
         /\ \A d \in Client : ToClient(c) # <<d, Server>>
         /\ \A d \in Client : ToClient(c) = ToClient(d) => c = d
         /\ Server \notin Client
BY ReplicatorAssumption DEF ToClient, Link

\* Every link has the server at one end.
LEMMA LinkCases == \A l \in Link : \E c \in Client : l = ToClient(c) \/ l = <<c, Server>>
BY DEF Link, ToClient

\* Items that are new, written, and that come to owe a marker.
LEMMA NewItems ==
  ASSUME NEW x
  PROVE  /\ IsItem(Change(x)) /\ Change(x).kind # "marker" /\ Change(x).owes = {}
         /\ IsItem(Mark(x)) /\ Mark(x).kind = "marker" /\ Mark(x).owes = {}
BY DEF Change, Mark, IsItem

\* Writing keeps what an item is and what it owes.
LEMMA WrittenItem ==
  ASSUME NEW l, NEW i, IsItem(i)
  PROVE  IsItem(Written(l, i)) /\ Written(l, i).kind = i.kind /\ Written(l, i).owes = i.owes
<1>1. CASE i.kind = "marker"
  BY <1>1 DEF Written
<1>2. CASE i.kind # "marker"
  <2>1. i.kind = "change"
    BY <1>2 DEF IsItem
  <2> DEFINE C == Names!Encoded(NamesOf(l), i.name)
             V == value[l[1]][i.name]
  <2>2. Written(l, i) = [kind |-> "change", code |-> C, value |-> V, owes |-> i.owes]
    BY <1>2 DEF Written
  <2> HIDE DEF C, V
  <2> QED
    BY <2>1, <2>2 DEF IsItem
<1> QED
  BY <1>1, <1>2

\* An item that comes to owe a marker is of its kind still.
LEMMA OwedItem ==
  ASSUME NEW i, IsItem(i), NEW m
  PROVE  IsItem(Owed(i, m)) /\ Owed(i, m).kind = i.kind /\ Owed(i, m).owes = i.owes \cup {m}
BY DEF Owed, IsItem

\* So is every item of a line.
LEMMA OwingLine ==
  ASSUME NEW s, IsLine(s), NEW m
  PROVE  /\ IsLine(Owing(s, m)) /\ Len(s) \in Nat /\ Len(Owing(s, m)) = Len(s)
         /\ \A k \in 1..Len(s) : /\ Owing(s, m)[k].kind = s[k].kind
                                 /\ Owing(s, m)[k].owes = s[k].owes \cup {m}
<1> DEFINE t == Owing(s, m)
           T == {Owed(s[i], m) : i \in DOMAIN s}
<1>1. s \in Seq({s[i] : i \in DOMAIN s})
  BY DEF IsLine, IsSeq
<1>2. DOMAIN s = 1..Len(s) /\ Len(s) \in Nat
  BY <1>1
<1>3. t \in [1..Len(s) -> T]
  BY <1>2 DEF Owing
<1>4. t \in Seq(T) /\ Len(t) = Len(s)
  <2> HIDE DEF t, T
  <2> QED
    BY <1>2, <1>3, SeqDef
<1>5. \A k \in 1..Len(s) : t[k] = Owed(s[k], m)
  BY <1>2 DEF Owing
<1>6. \A k \in 1..Len(s) : IsItem(s[k])
  BY <1>2 DEF IsLine
<1>7. IsSeq(t)
  BY <1>4, SeqIsSeq
<1>8. DOMAIN t = 1..Len(s)
  BY <1>3
<1> HIDE DEF t
<1> QED
  BY <1>2, <1>4, <1>5, <1>6, <1>7, <1>8, OwedItem DEF IsLine, t

\* What is appended to a line, or pushed in front of it, leaves it one.
LEMMA LineAppend ==
  ASSUME NEW s, IsLine(s), NEW x, IsItem(x)
  PROVE  IsLine(Append(s, x)) /\ IsLine(<<x>> \o s)
<1>1. IsSeq(s) /\ \A i \in 1..Len(s) : IsItem(s[i])
  BY SeqAppend DEF IsLine
<1>2. IsLine(Append(s, x))
  <2>1. \A i \in 1..(Len(s) + 1) : i \in 1..Len(s) \/ i = Len(s) + 1
    BY <1>1, SeqAppend
  <2> QED
    BY <1>1, <2>1, SeqAppend DEF IsLine
<1>3. IsLine(<<x>> \o s)
  <2> DEFINE h == <<x>>
  <2>1. h \in Seq({x}) /\ Len(h) = 1 /\ h[1] = x
    OBVIOUS
  <2> HIDE DEF h
  <2>2. IsSeq(h)
    BY <2>1, SeqIsSeq
  <2>3. /\ IsSeq(h \o s) /\ DOMAIN (h \o s) = 1..(1 + Len(s)) /\ Len(s) \in Nat
        /\ \A i \in 1..1 : (h \o s)[i] = h[i]
        /\ \A i \in 1..Len(s) : (h \o s)[1 + i] = s[i]
    <3>1. /\ IsSeq(h \o s) /\ DOMAIN (h \o s) = 1..(Len(h) + Len(s)) /\ Len(s) \in Nat
          /\ \A i \in 1..Len(h) : (h \o s)[i] = h[i]
          /\ \A i \in 1..Len(s) : (h \o s)[Len(h) + i] = s[i]
      BY <1>1, <2>2, SeqConcat
    <3> QED
      BY <2>1, <3>1
  <2>4. ASSUME NEW i \in 1..(1 + Len(s)) PROVE IsItem((h \o s)[i])
    <3>1. CASE i = 1
      BY <2>1, <2>3, <3>1
    <3>2. CASE i # 1
      <4>1. i - 1 \in 1..Len(s) /\ 1 + (i - 1) = i
        BY <2>3, <3>2
      <4> QED
        BY <1>1, <2>3, <4>1
    <3> QED
      BY <3>1, <3>2
  <2>5. IsLine(h \o s)
    BY <2>3, <2>4 DEF IsLine
  <2> QED
    BY <2>5 DEF h
<1> QED
  BY <1>2, <1>3

\* What stays of a line when its first item goes is one, and that is an item.
LEMMA LineTail ==
  ASSUME NEW s, IsLine(s), s # <<>>
  PROVE  IsLine(Tail(s)) /\ IsItem(Head(s))
<1>1. /\ IsSeq(Tail(s)) /\ Len(s) \in Nat \ {0} /\ Len(Tail(s)) = Len(s) - 1
      /\ \A i \in 1..Len(Tail(s)) : Tail(s)[i] = s[i + 1]
      /\ Head(s) = s[1] /\ DOMAIN Tail(s) = 1..(Len(s) - 1) /\ DOMAIN s = 1..Len(s)
  BY SeqTail DEF IsLine
<1>2. \A i \in 1..(Len(s) - 1) : i + 1 \in 1..Len(s)
  BY <1>1
<1>3. 1 \in 1..Len(s)
  BY <1>1
<1> QED
  BY <1>1, <1>2, <1>3 DEF IsLine

\* What stands behind the seam of two sequences.
LEMMA ConcatAt ==
  ASSUME NEW s, IsSeq(s), NEW t, IsSeq(t), NEW i \in (Len(s) + 1)..(Len(s) + Len(t))
  PROVE  (s \o t)[i] = t[i - Len(s)] /\ i - Len(s) \in 1..Len(t)
<1>1. Len(s) \in Nat /\ Len(t) \in Nat /\ \A j \in 1..Len(t) : (s \o t)[Len(s) + j] = t[j]
  BY SeqConcat
<1>2. i - Len(s) \in 1..Len(t) /\ Len(s) + (i - Len(s)) = i
  BY <1>1
<1> QED
  BY <1>1, <1>2

\* A change goes into what waits behind W, at one of its ends.
LEMMA OrderPending ==
  ASSUME NEW W, IsSeq(W), NEW P, IsLine(P), NEW x, IsItem(x), x.kind # "marker", x.owes = {},
         NEW Q, Q = <<x>> \o P \/ Q = Append(P, x), NEW w, NEW n, InOrder(W \o P, w, n)
  PROVE  IsLine(Q) /\ InOrder(W \o Q, w, n)
<1>1. IsLine(Q) /\ IsSeq(Q) /\ IsSeq(P)
  BY LineAppend DEF IsLine
<1>2. /\ Len(W) \in Nat /\ Len(P) \in Nat /\ Len(W \o P) = Len(W) + Len(P)
      /\ \A i \in 1..Len(W) : (W \o P)[i] = W[i]
      /\ \A i \in 1..Len(P) : (W \o P)[Len(W) + i] = P[i]
  BY <1>1, SeqConcat
<1>3. /\ Len(Q) \in Nat /\ Len(W \o Q) = Len(W) + Len(Q)
      /\ \A i \in 1..Len(W) : (W \o Q)[i] = W[i]
      /\ \A i \in 1..Len(Q) : (W \o Q)[Len(W) + i] = Q[i]
  BY <1>1, SeqConcat
<1>4. CASE Q = Append(P, x)
  <2>1. Len(Q) = Len(P) + 1 /\ Q[Len(P) + 1] = x /\ \A i \in 1..Len(P) : Q[i] = P[i]
    BY <1>1, <1>4, SeqAppend
  <2> DEFINE q == Len(W) + Len(P) + 1
  <2>2. q \in 1..(Len(W \o P) + 1) /\ Len(W \o Q) = Len(W \o P) + 1 /\ Len(W \o P) \in Nat
    BY <1>2, <1>3, <2>1
  <2>3. (W \o Q)[q] = x
    <3>1. Len(P) + 1 \in 1..Len(Q) /\ Len(W) + (Len(P) + 1) = q
      BY <1>2, <2>1
    <3> QED
      BY <1>3, <2>1, <3>1
  <2>4. ASSUME NEW k \in 1..(q - 1) PROVE (W \o Q)[k] = (W \o P)[k]
    <3>1. CASE k \in 1..Len(W)
      BY <1>2, <1>3, <3>1
    <3>2. CASE k \notin 1..Len(W)
      <4>1. k - Len(W) \in 1..Len(P) /\ k - Len(W) \in 1..Len(Q) /\ Len(W) + (k - Len(W)) = k
        BY <1>2, <2>1, <3>2
      <4> QED
        BY <1>2, <1>3, <2>1, <4>1
    <3> QED
      BY <3>1, <3>2
  <2>5. q..Len(W \o P) = {}
    BY <1>2
  <2> HIDE DEF q
  <2> QED
    BY <1>1, <2>2, <2>3, <2>4, <2>5, OrderInsert
<1>5. CASE Q = <<x>> \o P
  <2> DEFINE h == <<x>>
  <2>1. h \in Seq({x}) /\ Len(h) = 1 /\ h[1] = x
    OBVIOUS
  <2>2. Q = h \o P
    BY <1>5
  <2> HIDE DEF h
  <2>3. IsSeq(h)
    BY <2>1, SeqIsSeq
  <2>4. /\ Len(Q) = 1 + Len(P) /\ \A i \in 1..1 : Q[i] = h[i]
        /\ \A i \in 1..Len(P) : Q[1 + i] = P[i]
    <3>1. /\ Len(Q) = Len(h) + Len(P) /\ \A i \in 1..Len(h) : Q[i] = h[i]
          /\ \A i \in 1..Len(P) : Q[Len(h) + i] = P[i]
      BY <1>1, <2>2, <2>3, SeqConcat
    <3> QED
      BY <2>1, <3>1
  <2>5. Len(Q) = Len(P) + 1 /\ Q[1] = x /\ \A i \in 1..Len(P) : Q[1 + i] = P[i]
    BY <1>2, <2>1, <2>4
  <2> DEFINE q == Len(W) + 1
  <2>6. q \in 1..(Len(W \o P) + 1) /\ Len(W \o Q) = Len(W \o P) + 1 /\ Len(W \o P) \in Nat
    BY <1>2, <1>3, <2>5
  <2>7. (W \o Q)[q] = x
    BY <1>2, <1>3, <2>5
  <2>8. \A k \in 1..(q - 1) : (W \o Q)[k] = (W \o P)[k]
    BY <1>2, <1>3
  <2>9. ASSUME NEW k \in q..Len(W \o P) PROVE (W \o Q)[k + 1] = (W \o P)[k]
    <3>1. /\ k - Len(W) \in 1..Len(P) /\ Len(W) + (k - Len(W)) = k
          /\ 1 + (k - Len(W)) \in 1..Len(Q) /\ Len(W) + (1 + (k - Len(W))) = k + 1
      BY <1>2, <2>5
    <3>2. (W \o P)[k] = P[k - Len(W)] /\ (W \o Q)[k + 1] = Q[1 + (k - Len(W))]
      BY <1>2, <1>3, <3>1
    <3> QED
      BY <2>5, <3>1, <3>2
  <2> HIDE DEF q
  <2> QED
    BY <1>1, <2>6, <2>7, <2>8, <2>9, OrderInsert
<1> QED
  BY <1>4, <1>5

\* A change is raised: what waits for any client stays in order, behind whatever is on
\* the wire.
LEMMA RaisedOrder ==
  ASSUME Shapes, NEW p, NEW from, NEW x, Raised(p, x, from)
  PROVE  /\ DOMAIN pending' = Link /\ \A l \in Link : IsLine(pending'[l])
         /\ \A c \in Client : \A W, w, n :
              IsSeq(W) /\ InOrder(W \o pending[ToClient(c)], w, n)
              => InOrder(W \o pending'[ToClient(c)], w, n)
<1> DEFINE L == AllBut(p, from)
<1>1. pending' = [l \in Link |-> IF l \in L THEN FirstOrLast(l, x) ELSE pending[l]]
  BY DEF Raised
<1> HIDE DEF L
<1>2. \A l \in Link : IsLine(pending[l])
  BY DEF Shapes
<1>3. \A l \in Link : \/ pending'[l] = pending[l]
                      \/ pending'[l] = <<Change(x)>> \o pending[l]
                      \/ pending'[l] = Append(pending[l], Change(x))
  BY <1>1 DEF FirstOrLast
<1>4. \A l \in Link : IsLine(pending'[l])
  BY <1>2, <1>3, LineAppend, NewItems
<1>5. ASSUME NEW c \in Client, NEW W, NEW w, NEW n, IsSeq(W),
             InOrder(W \o pending[ToClient(c)], w, n)
      PROVE  InOrder(W \o pending'[ToClient(c)], w, n)
  <2>1. ToClient(c) \in Link
    BY LinkFacts
  <2>2. CASE pending'[ToClient(c)] = pending[ToClient(c)]
    BY <1>5, <2>2
  <2>3. CASE pending'[ToClient(c)] # pending[ToClient(c)]
    BY <1>2, <1>3, <1>5, <2>1, <2>3, OrderPending, NewItems
  <2> QED
    BY <2>2, <2>3
<1> QED
  BY <1>1, <1>4, <1>5

-----------------------------------------------------------------------------
\* Nothing is under way at first.
LEMMA InitInvariant == Init => IInv
<1> SUFFICES ASSUME Init PROVE IInv
  OBVIOUS
<1>1. /\ pending = [l \in Link |-> <<>>] /\ wire = [l \in Link |-> <<>>]
      /\ asked = {} /\ incoming = [c \in Client |-> <<>>]
  BY DEF Init
<1>2. <<>> \in Seq({}) /\ DOMAIN <<>> = {} /\ Len(<<>>) = 0 /\ <<>> \o <<>> = <<>>
  OBVIOUS
<1>3. IsLine(<<>>)
  BY <1>2, SeqIsSeq DEF IsLine
<1>4. Shapes
  BY <1>1, <1>3, FS_EmptySet DEF Shapes
<1>5. InOrder(<<>>, <<>>, 0)
  <2> DEFINE f == [k \in 1..1 |-> 0]
  <2>1. /\ f \in [1..(0 + 1) -> Nat] /\ f[1] = 0 /\ 1..0 = {}
        /\ \A k \in 1..(0 + 1) : \A j \in 1..k : f[j] <= f[k]
    OBVIOUS
  <2> HIDE DEF f
  <2>2. Covers(f, <<>>, <<>>, 0)
    BY <1>2, <2>1 DEF Covers, Counts
  <2>3. Owes(<<>>, <<>>)
    BY <1>2 DEF Owes
  <2> QED
    BY <2>2, <2>3 DEF InOrder
<1>6. ASSUME NEW c \in Client
      PROVE  InOrder(Line(c), incoming[c], Cardinality(Asked(c)))
  <2>1. Line(c) = <<>>
    BY <1>1, <1>2, LinkFacts DEF Line
  <2>2. Asked(c) = {}
    BY <1>1 DEF Asked
  <2> QED
    BY <1>1, <1>5, <2>1, <2>2, FS_EmptySet
<1> QED
  BY <1>4, <1>6 DEF IInv, Ordered

\* What waits for a client, and what it asked for, are counted.
LEMMA Counted ==
  ASSUME Shapes, NEW c \in Client
  PROVE  /\ IsFiniteSet(Asked(c)) /\ Cardinality(Asked(c)) \in Nat
         /\ Len(incoming[c]) \in Nat /\ incoming[c] \in Seq(Marker)
         /\ IsSeq(wire[ToClient(c)]) /\ IsSeq(pending[ToClient(c)])
         /\ IsLine(wire[ToClient(c)]) /\ IsLine(pending[ToClient(c)])
<1>1. Asked(c) \in SUBSET asked
  BY DEF Asked
<1>2. IsFiniteSet(Asked(c)) /\ Cardinality(Asked(c)) \in Nat
  BY <1>1, FS_Subset, FS_CardinalityType DEF Shapes
<1> QED
  BY <1>2, LinkFacts DEF Shapes, IsLine

\* A property that is set.
LEMMA SetValueInvariant ==
  ASSUME IInv, NEW p, NEW n, NEW v, SetValue(p, n, v)
  PROVE  IInv'
<1>1. /\ Raised(p, n, p) /\ wire' = wire /\ asked' = asked /\ incoming' = incoming
  BY DEF SetValue, markerVars
<1>2. Shapes
  BY DEF IInv
<1>3. Shapes'
  BY <1>1, <1>2, RaisedOrder DEF Shapes
<1>4. ASSUME NEW c \in Client
      PROVE  InOrder(Line(c), incoming[c], Cardinality(Asked(c)))'
  <2>1. InOrder(wire[ToClient(c)] \o pending[ToClient(c)], incoming[c], Cardinality(Asked(c)))
    BY DEF IInv, Ordered, Line
  <2>2. InOrder(wire[ToClient(c)] \o pending'[ToClient(c)], incoming[c], Cardinality(Asked(c)))
    BY <1>1, <1>2, <2>1, RaisedOrder, Counted
  <2> QED
    BY <1>1, <2>2 DEF Line, Asked
<1> QED
  BY <1>3, <1>4 DEF IInv, Ordered

\* An item that is written goes from one side of the seam to the other.
LEMMA OrderSeam ==
  ASSUME NEW W, IsSeq(W), NEW P, IsSeq(P), P # <<>>,
         NEW x, x.kind = Head(P).kind, x.owes = Head(P).owes,
         NEW w, NEW n, InOrder(W \o P, w, n)
  PROVE  InOrder(Append(W, x) \o Tail(P), w, n)
<1> DEFINE V == Append(W, x)
           Q == Tail(P)
           a == Len(W)
           b == Len(P)
<1>1. /\ IsSeq(V) /\ a \in Nat /\ Len(V) = a + 1 /\ V[a + 1] = x
      /\ \A k \in 1..a : V[k] = W[k]
  BY SeqAppend
<1>2. /\ IsSeq(Q) /\ b \in Nat \ {0} /\ Len(Q) = b - 1 /\ P[1] = Head(P)
      /\ \A k \in 1..(b - 1) : Q[k] = P[k + 1]
  BY SeqTail
<1> HIDE DEF V, Q
<1>3. /\ Len(W \o P) = a + b
      /\ \A k \in 1..a : (W \o P)[k] = W[k]
      /\ \A k \in 1..b : (W \o P)[a + k] = P[k]
  BY SeqConcat
<1>4. /\ Len(V \o Q) = Len(V) + Len(Q)
      /\ \A k \in 1..Len(V) : (V \o Q)[k] = V[k]
      /\ \A k \in 1..Len(Q) : (V \o Q)[Len(V) + k] = Q[k]
  <2>1. IsSeq(V) /\ IsSeq(Q)
    BY <1>1, <1>2
  <2> QED
    BY <2>1, SeqConcat
<1> HIDE DEF a, b
<1>5. /\ Len(V \o Q) = a + b
      /\ \A k \in 1..(a + 1) : (V \o Q)[k] = V[k]
      /\ \A k \in 1..(b - 1) : (V \o Q)[(a + 1) + k] = Q[k]
  BY <1>1, <1>2, <1>4
<1>6. ASSUME NEW k \in 1..(a + b)
      PROVE  (V \o Q)[k].kind = (W \o P)[k].kind /\ (V \o Q)[k].owes = (W \o P)[k].owes
  <2>1. CASE k <= a
    <3>1. k \in 1..a /\ k \in 1..(a + 1)
      BY <1>1, <1>2, <2>1
    <3> QED
      BY <1>1, <1>3, <1>5, <3>1
  <2>2. CASE k = a + 1
    <3>1. k \in 1..(a + 1) /\ 1 \in 1..b
      BY <1>1, <1>2, <2>2
    <3>2. (V \o Q)[k] = x /\ (W \o P)[k] = P[1]
      BY <1>1, <1>3, <1>5, <2>2, <3>1
    <3> QED
      BY <1>2, <3>2
  <2>3. CASE k > a + 1
    <3> DEFINE j == k - (a + 1)
    <3>1. /\ j \in 1..(b - 1) /\ (a + 1) + j = k
          /\ j + 1 \in 1..b /\ a + (j + 1) = k
      BY <1>1, <1>2, <2>3
    <3> HIDE DEF j
    <3>2. (V \o Q)[k] = Q[j]
      BY <1>5, <3>1
    <3>3. (W \o P)[k] = P[j + 1]
      BY <1>3, <3>1
    <3> QED
      BY <1>2, <3>1, <3>2, <3>3
  <2>4. k <= a \/ k = a + 1 \/ k > a + 1
    BY <1>1, <1>2
  <2> QED
    BY <2>1, <2>2, <2>3, <2>4
<1>7. Len(W \o P) \in Nat /\ Len(V \o Q) = Len(W \o P)
  BY <1>1, <1>2, <1>3, <1>5
<1>8. InOrder(V \o Q, w, n)
  BY <1>3, <1>6, <1>7, OrderSame
<1> QED
  BY <1>8 DEF V, Q

\* Sending keeps the invariant.
LEMMA SendInvariant ==
  ASSUME IInv, NEW l \in Link, Send(l)
  PROVE  IInv'
<1> DEFINE i == Head(pending[l])
           x == Written(l, i)
<1>1. /\ pending[l] # <<>>
      /\ wire' = [wire EXCEPT ![l] = Append(wire[l], x)]
      /\ pending' = [pending EXCEPT ![l] = Tail(pending[l])]
      /\ asked' = asked /\ incoming' = incoming
  BY DEF Send, markerVars
<1>2. Shapes /\ IsLine(pending[l]) /\ IsLine(wire[l]) /\ IsSeq(pending[l]) /\ IsSeq(wire[l])
  BY DEF IInv, Shapes, IsLine
<1>3. IsItem(i)
  BY <1>1, <1>2, LineTail
<1>4. IsItem(x) /\ x.kind = i.kind /\ x.owes = i.owes
  BY <1>3, WrittenItem
<1> HIDE DEF x
<1>5. IsLine(Append(wire[l], x)) /\ IsLine(Tail(pending[l]))
  BY <1>1, <1>2, <1>4, LineAppend, LineTail
<1>6. Shapes'
  BY <1>1, <1>2, <1>5 DEF Shapes
<1>7. ASSUME NEW c \in Client
      PROVE  InOrder(Line(c), incoming[c], Cardinality(Asked(c)))'
  <2>1. InOrder(Line(c), incoming[c], Cardinality(Asked(c)))
    BY DEF IInv, Ordered
  <2>2. ToClient(c) \in Link
    BY LinkFacts
  <2>3. Asked(c)' = Asked(c)
    BY <1>1 DEF Asked
  <2>4. CASE l # ToClient(c)
    <3>1. wire'[ToClient(c)] = wire[ToClient(c)] /\ pending'[ToClient(c)] = pending[ToClient(c)]
      BY <1>1, <1>2, <2>2, <2>4 DEF Shapes
    <3> QED
      BY <1>1, <2>1, <2>3, <3>1 DEF Line
  <2>5. CASE l = ToClient(c)
    <3>1. Line(c) = wire[l] \o pending[l]
      BY <2>5 DEF Line
    <3>2. Line(c)' = Append(wire[l], x) \o Tail(pending[l])
      BY <1>1, <1>2, <2>2, <2>5 DEF Line, Shapes
    <3>3. InOrder(Append(wire[l], x) \o Tail(pending[l]), incoming[c], Cardinality(Asked(c)))
      BY <1>1, <1>2, <1>4, <2>1, <3>1, OrderSeam
    <3> QED
      BY <1>1, <2>3, <3>2, <3>3
  <2> QED
    BY <2>4, <2>5
<1> QED
  BY <1>6, <1>7 DEF IInv, Ordered

\* The item in front of a line is read.
LEMMA OrderRead ==
  ASSUME NEW W, IsSeq(W), W # <<>>, NEW P, IsSeq(P), NEW w, NEW v, NEW n \in Nat,
         NEW d \in Nat, d = One(Head(W)), Len(w) \in Nat,
         d <= Len(w) => Len(v) = Len(w) - d /\ \A j \in 1..Len(v) : v[j] = w[j + d],
         InOrder(W \o P, w, n)
  PROVE  InOrder(Tail(W) \o P, v, n) /\ d <= Len(w)
<1> DEFINE V == Tail(W)
           a == Len(W)
           b == Len(P)
<1>1. /\ IsSeq(V) /\ a \in Nat \ {0} /\ Len(V) = a - 1 /\ W[1] = Head(W)
      /\ \A k \in 1..(a - 1) : V[k] = W[k + 1]
  BY SeqTail
<1> HIDE DEF V
<1>2. /\ Len(W \o P) = a + b /\ b \in Nat
      /\ \A k \in 1..a : (W \o P)[k] = W[k]
      /\ \A k \in 1..b : (W \o P)[a + k] = P[k]
  BY SeqConcat
<1>3. /\ Len(V \o P) = Len(V) + Len(P)
      /\ \A k \in 1..Len(V) : (V \o P)[k] = V[k]
      /\ \A k \in 1..Len(P) : (V \o P)[Len(V) + k] = P[k]
  <2>1. IsSeq(V)
    BY <1>1
  <2> QED
    BY <2>1, SeqConcat
<1> HIDE DEF a, b
<1>4. /\ Len(V \o P) = (a - 1) + b
      /\ \A k \in 1..(a - 1) : (V \o P)[k] = V[k]
      /\ \A k \in 1..b : (V \o P)[(a - 1) + k] = P[k]
  BY <1>1, <1>3 DEF b
<1>5. ASSUME NEW k \in 1..((a - 1) + b)
      PROVE  (V \o P)[k] = (W \o P)[k + 1]
  <2>1. CASE k <= a - 1
    <3>1. k \in 1..(a - 1) /\ k + 1 \in 1..a
      BY <1>1, <1>2, <2>1
    <3> QED
      BY <1>1, <1>2, <1>4, <3>1
  <2>2. CASE k > a - 1
    <3> DEFINE j == k - (a - 1)
    <3>1. j \in 1..b /\ (a - 1) + j = k /\ a + j = k + 1
      BY <1>1, <1>2, <2>2
    <3> HIDE DEF j
    <3>2. (V \o P)[k] = P[j]
      BY <1>4, <3>1
    <3>3. (W \o P)[k + 1] = P[j]
      BY <1>2, <3>1
    <3> QED
      BY <3>2, <3>3
  <2>3. k <= a - 1 \/ k > a - 1
    BY <1>1, <1>2
  <2> QED
    BY <2>1, <2>2, <2>3
<1>6. /\ Len(W \o P) \in Nat \ {0} /\ Len(V \o P) = Len(W \o P) - 1
      /\ Len(V \o P) = (a - 1) + b
  BY <1>1, <1>2, <1>4
<1>7. (W \o P)[1] = Head(W)
  <2>1. 1 \in 1..a
    BY <1>1
  <2> QED
    BY <1>1, <1>2, <2>1
<1> DEFINE s == W \o P
           t == V \o P
<1>8. /\ Len(s) \in Nat \ {0} /\ Len(t) = Len(s) - 1 /\ d = One(s[1])
      /\ \A k \in 1..Len(t) : t[k] = s[k + 1]
      /\ InOrder(s, w, n)
  BY <1>5, <1>6, <1>7
<1> HIDE DEF s, t
<1>9. InOrder(t, v, n) /\ d <= Len(w)
  BY <1>8, OrderDrop
<1> QED
  BY <1>9 DEF t, V

\* A change that comes, to a client or to the server, keeps the invariant.
LEMMA ReceiveChangeInvariant ==
  ASSUME IInv, NEW l \in Link, ReceiveChange(l)
  PROVE  IInv'
<1>1. /\ wire[l] # <<>> /\ Head(wire[l]).kind = "change"
      /\ wire' = [wire EXCEPT ![l] = Tail(wire[l])]
      /\ asked' = asked /\ incoming' = incoming
  BY DEF ReceiveChange, markerVars
<1>2. Shapes /\ IsLine(wire[l]) /\ IsSeq(wire[l])
  BY DEF IInv, Shapes, IsLine
<1>3. pending' = pending \/ \E n : Raised(l[2], n, l[1])
  BY DEF ReceiveChange
<1>4. /\ DOMAIN pending' = Link /\ \A k \in Link : IsLine(pending'[k])
      /\ \A c \in Client : \A W, w, n :
           IsSeq(W) /\ InOrder(W \o pending[ToClient(c)], w, n)
           => InOrder(W \o pending'[ToClient(c)], w, n)
  <2>1. CASE pending' = pending
    BY <1>2, <2>1 DEF Shapes
  <2>2. CASE \E n : Raised(l[2], n, l[1])
    BY <1>2, <2>2, RaisedOrder
  <2> QED
    BY <1>3, <2>1, <2>2
<1>5. IsLine(Tail(wire[l])) /\ IsSeq(Tail(wire[l]))
  BY <1>1, <1>2, LineTail DEF IsLine
<1>6. Shapes'
  BY <1>1, <1>2, <1>4, <1>5 DEF Shapes
<1>7. ASSUME NEW c \in Client
      PROVE  InOrder(Line(c), incoming[c], Cardinality(Asked(c)))'
  <2> DEFINE P == pending[ToClient(c)]
             w == incoming[c]
             n == Cardinality(Asked(c))
  <2>1. InOrder(wire[ToClient(c)] \o P, w, n)
    BY DEF IInv, Ordered, Line
  <2>2. n \in Nat /\ Len(w) \in Nat /\ IsSeq(P) /\ IsSeq(wire[ToClient(c)])
    BY <1>2, Counted
  <2>3. ToClient(c) \in Link
    BY LinkFacts
  <2> HIDE DEF P, w, n
  <2>4. IsSeq(wire'[ToClient(c)]) /\ InOrder(wire'[ToClient(c)] \o P, w, n)
    <3>1. CASE l # ToClient(c)
      <4>1. wire'[ToClient(c)] = wire[ToClient(c)]
        BY <1>1, <1>2, <2>3, <3>1 DEF Shapes
      <4> QED
        BY <2>1, <2>2, <4>1
    <3>2. CASE l = ToClient(c)
      <4>1. wire'[ToClient(c)] = Tail(wire[l])
        BY <1>1, <1>2, <2>3, <3>2 DEF Shapes
      <4>2. 0 = One(Head(wire[l]))
        BY <1>1 DEF One
      <4>3. Len(w) = Len(w) - 0 /\ \A j \in 1..Len(w) : w[j] = w[j + 0]
        BY <2>2
      <4>4. InOrder(Tail(wire[l]) \o P, w, n)
        BY <1>1, <1>2, <2>1, <2>2, <3>2, <4>2, <4>3, OrderRead
      <4> QED
        BY <1>5, <4>1, <4>4
    <3> QED
      BY <3>1, <3>2
  <2>5. InOrder(wire'[ToClient(c)] \o pending'[ToClient(c)], w, n)
    BY <1>4, <2>4 DEF P
  <2>6. Asked(c)' = Asked(c)
    BY <1>1 DEF Asked
  <2> QED
    BY <1>1, <2>5, <2>6 DEF Line, w, n
<1> QED
  BY <1>6, <1>7 DEF IInv, Ordered

\* So does a marker: there is one that waits, and the one that has waited longest fires.
LEMMA ReceiveMarkerInvariant ==
  ASSUME IInv, NEW l \in Link, ReceiveMarker(l)
  PROVE  IInv'
<1>1. /\ wire[l] # <<>> /\ Head(wire[l]).kind = "marker"
      /\ wire' = [wire EXCEPT ![l] = Tail(wire[l])]
      /\ incoming' = [incoming EXCEPT ![l[2]] = Tail(incoming[l[2]])]
      /\ asked' = asked /\ pending' = pending
  BY DEF ReceiveMarker, Waiting
<1>2. Shapes /\ IsLine(wire[l]) /\ IsSeq(wire[l])
  BY DEF IInv, Shapes, IsLine
<1>3. IsLine(Tail(wire[l]))
  BY <1>1, <1>2, LineTail
<1>4. ASSUME NEW c \in Client
      PROVE  /\ incoming'[c] \in Seq(Marker)
             /\ InOrder(Line(c), incoming[c], Cardinality(Asked(c)))'
  <2> DEFINE P == pending[ToClient(c)]
             w == incoming[c]
             n == Cardinality(Asked(c))
  <2>1. InOrder(wire[ToClient(c)] \o P, w, n)
    BY DEF IInv, Ordered, Line
  <2>2. /\ n \in Nat /\ Len(w) \in Nat /\ w \in Seq(Marker) /\ IsSeq(P)
        /\ ToClient(c) \in Link /\ ToClient(c)[2] = c
    BY <1>2, Counted, LinkFacts
  <2>3. Asked(c)' = Asked(c)
    BY <1>1 DEF Asked
  <2>4. CASE l # ToClient(c)
    <3>1. wire'[ToClient(c)] = wire[ToClient(c)]
      BY <1>1, <1>2, <2>2, <2>4 DEF Shapes
    <3>2. incoming'[c] = incoming[c]
      <4>1. PICK d \in Client : l = ToClient(d) \/ l = <<d, Server>>
        BY LinkCases
      <4>2. CASE l = ToClient(d)
        BY <1>1, <1>2, <2>4, <4>2, LinkFacts DEF Shapes
      <4>3. CASE l = <<d, Server>>
        <5>1. l[2] = Server /\ Server # c
          BY <4>3, LinkFacts
        <5> QED
          BY <1>1, <1>2, <5>1 DEF Shapes
      <4> QED
        BY <4>1, <4>2, <4>3
    <3> QED
      BY <1>1, <2>1, <2>2, <2>3, <3>1, <3>2 DEF Line
  <2>5. CASE l = ToClient(c)
    <3>1. wire'[ToClient(c)] = Tail(wire[l])
      BY <1>1, <1>2, <2>2, <2>5 DEF Shapes
    <3>2. incoming'[c] = Tail(w)
      BY <1>1, <1>2, <2>2, <2>5 DEF Shapes
    <3>3. 1 = One(Head(wire[l]))
      BY <1>1 DEF One
    <3> HIDE DEF P, w, n
    <3>4. 1 <= Len(w) => /\ Tail(w) \in Seq(Marker) /\ Len(Tail(w)) = Len(w) - 1
                         /\ \A j \in 1..Len(Tail(w)) : Tail(w)[j] = w[j + 1]
      BY <2>2
    <3>5. InOrder(Tail(wire[l]) \o P, Tail(w), n) /\ 1 <= Len(w)
      BY <1>1, <1>2, <2>1, <2>2, <2>5, <3>3, <3>4, OrderRead
    <3> QED
      BY <1>1, <2>3, <3>1, <3>2, <3>4, <3>5 DEF Line, P, n
  <2> QED
    BY <2>4, <2>5
<1>5. Shapes'
  <2>1. incoming' \in [Client -> Seq(Marker)]
    BY <1>1, <1>2, <1>4 DEF Shapes
  <2> QED
    BY <1>1, <1>2, <1>3, <2>1 DEF Shapes
<1> QED
  BY <1>4, <1>5 DEF IInv, Ordered

\* The two parts of a line come to owe a marker together.
LEMMA OwingSeam ==
  ASSUME NEW W, IsLine(W), NEW P, IsLine(P), NEW w, NEW v, NEW n \in Nat, NEW m,
         Len(w) \in Nat, Len(v) = Len(w) + 1,
         \A j \in 1..Len(w) : v[j] = w[j] /\ w[j] # m,
         v[Len(w) + 1] = m,
         InOrder(W \o P, w, n)
  PROVE  InOrder(Owing(W, m) \o Owing(P, m), v, n + 1)
<1> DEFINE V == Owing(W, m)
           Q == Owing(P, m)
           a == Len(W)
           b == Len(P)
<1>1. /\ IsSeq(V) /\ a \in Nat /\ Len(V) = a
      /\ \A k \in 1..a : V[k].kind = W[k].kind /\ V[k].owes = W[k].owes \cup {m}
  BY OwingLine DEF IsLine
<1>2. /\ IsSeq(Q) /\ b \in Nat /\ Len(Q) = b
      /\ \A k \in 1..b : Q[k].kind = P[k].kind /\ Q[k].owes = P[k].owes \cup {m}
  BY OwingLine DEF IsLine
<1> HIDE DEF V, Q
<1>3. /\ Len(W \o P) = a + b
      /\ \A k \in 1..a : (W \o P)[k] = W[k]
      /\ \A k \in 1..b : (W \o P)[a + k] = P[k]
  BY SeqConcat DEF IsLine
<1>4. /\ Len(V \o Q) = Len(V) + Len(Q)
      /\ \A k \in 1..Len(V) : (V \o Q)[k] = V[k]
      /\ \A k \in 1..Len(Q) : (V \o Q)[Len(V) + k] = Q[k]
  <2>1. IsSeq(V) /\ IsSeq(Q)
    BY <1>1, <1>2
  <2> QED
    BY <2>1, SeqConcat
<1> HIDE DEF a, b
<1>5. /\ Len(V \o Q) = a + b
      /\ \A k \in 1..a : (V \o Q)[k] = V[k]
      /\ \A k \in 1..b : (V \o Q)[a + k] = Q[k]
  BY <1>1, <1>2, <1>4
<1>6. ASSUME NEW k \in 1..(a + b)
      PROVE  /\ (V \o Q)[k].kind = (W \o P)[k].kind
             /\ (V \o Q)[k].owes = (W \o P)[k].owes \cup {m}
  <2>1. CASE k <= a
    <3>1. k \in 1..a
      BY <1>1, <1>2, <2>1
    <3> QED
      BY <1>1, <1>3, <1>5, <3>1
  <2>2. CASE k > a
    <3> DEFINE j == k - a
    <3>1. j \in 1..b /\ a + j = k
      BY <1>1, <1>2, <2>2
    <3> HIDE DEF j
    <3>2. (V \o Q)[k] = Q[j] /\ (W \o P)[k] = P[j]
      BY <1>3, <1>5, <3>1
    <3> QED
      BY <1>2, <3>1, <3>2
  <2>3. k <= a \/ k > a
    BY <1>1, <1>2
  <2> QED
    BY <2>1, <2>2, <2>3
<1> DEFINE s == W \o P
           t == V \o Q
<1>7. /\ Len(s) \in Nat /\ Len(t) = Len(s) /\ InOrder(s, w, n)
      /\ \A k \in 1..Len(s) : t[k].kind = s[k].kind /\ t[k].owes = s[k].owes \cup {m}
  BY <1>1, <1>2, <1>3, <1>5, <1>6
<1> HIDE DEF s, t
<1>8. InOrder(t, v, n + 1)
  BY <1>7, OrderAsk
<1> QED
  BY <1>8 DEF t, V, Q

\* A marker that is asked for is none of those that wait already.
LEMMA SendMarkerInvariant ==
  ASSUME IInv, NEW c \in Client, NEW m \in Marker, SendMarker(c, m)
  PROVE  IInv'
<1> DEFINE l == ToClient(c)
<1>1. /\ ~Underway(m) /\ incoming' = [incoming EXCEPT ![c] = Append(incoming[c], m)]
      /\ asked' = asked \cup {<<c, m>>}
      /\ pending' = [pending EXCEPT ![l] = Owing(pending[l], m)]
      /\ wire' = [wire EXCEPT ![l] = Owing(wire[l], m)]
  BY DEF SendMarker, ToClient
<1>2. /\ Shapes /\ l \in Link /\ IsLine(pending[l]) /\ IsLine(wire[l])
      /\ incoming[c] \in Seq(Marker)
  BY LinkFacts DEF IInv, Shapes
<1>3. IsLine(Owing(pending[l], m)) /\ IsLine(Owing(wire[l], m))
  BY <1>2, OwingLine
<1>4. <<c, m>> \notin asked /\ \A j \in 1..Len(incoming[c]) : incoming[c][j] # m
  <2>1. <<c, m>> \notin asked /\ m \notin ToSet(incoming[c])
    BY <1>1 DEF Underway
  <2> QED
    BY <1>2, <2>1 DEF ToSet
<1>5. Shapes'
  <2>1. asked' \subseteq Client \X Marker /\ IsFiniteSet(asked')
    <3>1. asked \subseteq Client \X Marker /\ IsFiniteSet(asked)
      BY <1>2 DEF Shapes
    <3>2. IsFiniteSet(asked \cup {<<c, m>>})
      BY <3>1, FS_AddElement
    <3>3. asked \cup {<<c, m>>} \subseteq Client \X Marker
      BY <3>1
    <3> QED
      BY <1>1, <3>2, <3>3
  <2>2. incoming' \in [Client -> Seq(Marker)]
    BY <1>1, <1>2 DEF Shapes
  <2> QED
    BY <1>1, <1>2, <1>3, <2>1, <2>2 DEF Shapes
<1>6. ASSUME NEW d \in Client
      PROVE  InOrder(Line(d), incoming[d], Cardinality(Asked(d)))'
  <2>1. InOrder(wire[ToClient(d)] \o pending[ToClient(d)], incoming[d], Cardinality(Asked(d)))
    BY DEF IInv, Ordered, Line
  <2>2. CASE d # c
    <3>1. Asked(d)' = Asked(d)
      BY <1>1, <2>2 DEF Asked
    <3>2. ToClient(d) # l /\ ToClient(d) \in Link
      BY <2>2, LinkFacts
    <3>3. /\ wire'[ToClient(d)] = wire[ToClient(d)] /\ incoming'[d] = incoming[d]
          /\ pending'[ToClient(d)] = pending[ToClient(d)]
      BY <1>1, <1>2, <2>2, <3>2 DEF Shapes
    <3> QED
      BY <2>1, <3>1, <3>3 DEF Line
  <2>3. CASE d = c
    <3> DEFINE w == incoming[c]
               v == Append(w, m)
               n == Cardinality(Asked(c))
    <3>1. Asked(c)' = Asked(c) \cup {<<c, m>>} /\ <<c, m>> \notin Asked(c)
      BY <1>1, <1>4 DEF Asked
    <3>2. n \in Nat /\ Cardinality(Asked(c)') = n + 1
      BY <1>2, <3>1, Counted, FS_AddElement
    <3>3. /\ Len(w) \in Nat /\ Len(v) = Len(w) + 1 /\ v[Len(w) + 1] = m
          /\ \A j \in 1..Len(w) : v[j] = w[j] /\ w[j] # m
      BY <1>2, <1>4
    <3>4. InOrder(wire[l] \o pending[l], w, n)
      BY <2>1, <2>3
    <3> HIDE DEF w, v, n
    <3>5. InOrder(Owing(wire[l], m) \o Owing(pending[l], m), v, n + 1)
      BY <1>2, <3>2, <3>3, <3>4, OwingSeam
    <3>6. /\ wire'[l] = Owing(wire[l], m) /\ pending'[l] = Owing(pending[l], m)
          /\ incoming'[c] = v
      BY <1>1, <1>2 DEF Shapes, v, w
    <3> QED
      BY <2>3, <3>2, <3>5, <3>6 DEF Line
  <2> QED
    BY <2>2, <2>3
<1> QED
  BY <1>5, <1>6 DEF IInv, Ordered

\* What comes in at the end of what waits is the end of the line.
LEMMA OrderLast ==
  ASSUME NEW W, IsSeq(W), NEW P, IsSeq(P), NEW x, x.kind = "marker", x.owes = {},
         NEW w, NEW n \in Nat \ {0}, Len(w) \in Nat, InOrder(W \o P, w, n)
  PROVE  InOrder(W \o Append(P, x), w, n - 1)
<1> DEFINE Q == Append(P, x)
           a == Len(W)
           b == Len(P)
<1>1. /\ IsSeq(Q) /\ b \in Nat /\ Len(Q) = b + 1 /\ Q[b + 1] = x
      /\ \A k \in 1..b : Q[k] = P[k]
  BY SeqAppend
<1> HIDE DEF Q
<1>2. /\ Len(W \o P) = a + b /\ a \in Nat
      /\ \A k \in 1..a : (W \o P)[k] = W[k]
      /\ \A k \in 1..b : (W \o P)[a + k] = P[k]
  BY SeqConcat
<1>3. /\ Len(W \o Q) = Len(W) + Len(Q)
      /\ \A k \in 1..Len(W) : (W \o Q)[k] = W[k]
      /\ \A k \in 1..Len(Q) : (W \o Q)[Len(W) + k] = Q[k]
  <2>1. IsSeq(Q)
    BY <1>1
  <2> QED
    BY <2>1, SeqConcat
<1>4. /\ Len(W \o Q) = a + (b + 1)
      /\ \A k \in 1..a : (W \o Q)[k] = W[k]
      /\ \A k \in 1..(b + 1) : (W \o Q)[a + k] = Q[k]
  BY <1>1, <1>3
<1> HIDE DEF a, b
<1>5. ASSUME NEW k \in 1..(a + b) PROVE (W \o Q)[k] = (W \o P)[k]
  <2>1. CASE k <= a
    <3>1. k \in 1..a
      BY <1>1, <1>2, <2>1
    <3> QED
      BY <1>2, <1>4, <3>1
  <2>2. CASE k > a
    <3> DEFINE j == k - a
    <3>1. j \in 1..b /\ j \in 1..(b + 1) /\ a + j = k
      BY <1>1, <1>2, <2>2
    <3> HIDE DEF j
    <3>2. (W \o Q)[k] = Q[j] /\ (W \o P)[k] = P[j]
      BY <1>2, <1>4, <3>1
    <3> QED
      BY <1>1, <3>1, <3>2
  <2>3. k <= a \/ k > a
    BY <1>1, <1>2
  <2> QED
    BY <2>1, <2>2, <2>3
<1>6. (W \o Q)[(a + b) + 1] = x
  <2>1. b + 1 \in 1..(b + 1) /\ a + (b + 1) = (a + b) + 1
    BY <1>1, <1>2
  <2> QED
    BY <1>1, <1>4, <2>1
<1> DEFINE s == W \o P
           t == W \o Q
<1>7. /\ Len(s) \in Nat /\ Len(t) = Len(s) + 1 /\ InOrder(s, w, n)
      /\ \A k \in 1..Len(s) : t[k] = s[k]
      /\ t[Len(s) + 1].kind = "marker" /\ t[Len(s) + 1].owes = {}
  BY <1>1, <1>2, <1>4, <1>5, <1>6
<1> HIDE DEF s, t
<1>8. InOrder(t, w, n - 1)
  BY <1>7, OrderHear
<1> QED
  BY <1>8 DEF t, Q

\* A request that is heard is no longer counted, but for the marker it puts in line.
LEMMA HearRequestInvariant ==
  ASSUME IInv, NEW c \in Client, NEW m \in Marker, HearRequest(c, m)
  PROVE  IInv'
<1> DEFINE l == ToClient(c)
<1>1. /\ <<c, m>> \in asked /\ asked' = asked \ {<<c, m>>}
      /\ pending' = [pending EXCEPT ![l] = Append(pending[l], Mark(m))]
      /\ wire' = wire /\ incoming' = incoming
  BY DEF HearRequest, ToClient
<1>2. Shapes /\ l \in Link /\ IsLine(pending[l])
  BY LinkFacts DEF IInv, Shapes
<1>3. IsLine(Append(pending[l], Mark(m)))
  BY <1>2, LineAppend, NewItems
<1>4. Shapes'
  <2>1. asked' \subseteq Client \X Marker /\ IsFiniteSet(asked')
    BY <1>1, <1>2, FS_RemoveElement DEF Shapes
  <2> QED
    BY <1>1, <1>2, <1>3, <2>1 DEF Shapes
<1>5. ASSUME NEW d \in Client
      PROVE  InOrder(Line(d), incoming[d], Cardinality(Asked(d)))'
  <2>1. InOrder(wire[ToClient(d)] \o pending[ToClient(d)], incoming[d], Cardinality(Asked(d)))
    BY DEF IInv, Ordered, Line
  <2>2. CASE d # c
    <3>1. Asked(d)' = Asked(d)
      BY <1>1, <2>2 DEF Asked
    <3>2. ToClient(d) # l /\ ToClient(d) \in Link
      BY <2>2, LinkFacts
    <3>3. pending'[ToClient(d)] = pending[ToClient(d)]
      BY <1>1, <1>2, <3>2 DEF Shapes
    <3> QED
      BY <1>1, <2>1, <3>1, <3>3 DEF Line
  <2>3. CASE d = c
    <3> DEFINE w == incoming[c]
               n == Cardinality(Asked(c))
               x == Mark(m)
    <3>1. Asked(c)' = Asked(c) \ {<<c, m>>} /\ <<c, m>> \in Asked(c)
      BY <1>1 DEF Asked
    <3>2. n \in Nat /\ IsFiniteSet(Asked(c)) /\ Len(w) \in Nat
      BY <1>2, Counted
    <3>3. n # 0
      BY <3>1, <3>2, FS_EmptySet
    <3>4. Cardinality(Asked(c)') = n - 1
      BY <3>1, <3>2, FS_RemoveElement
    <3>5. InOrder(wire[l] \o pending[l], w, n) /\ IsSeq(wire[l]) /\ IsSeq(pending[l])
      BY <1>2, <2>1, <2>3, Counted
    <3>6. x.kind = "marker" /\ x.owes = {}
      BY NewItems
    <3>7. pending'[l] = Append(pending[l], x)
      BY <1>1, <1>2 DEF Shapes
    <3> HIDE DEF w, n, x
    <3>8. InOrder(wire[l] \o Append(pending[l], x), w, n - 1)
      BY <3>2, <3>3, <3>5, <3>6, OrderLast
    <3> QED
      BY <1>1, <2>3, <3>4, <3>7, <3>8 DEF Line, w
  <2> QED
    BY <2>2, <2>3
<1> QED
  BY <1>4, <1>5 DEF IInv, Ordered

-----------------------------------------------------------------------------
\* Every step of either end of any connection keeps the invariant.
LEMMA NextInvariant == IInv /\ [Next]_vars => IInv'
<1> SUFFICES ASSUME IInv, [Next]_vars PROVE IInv'
  OBVIOUS
<1>1. ASSUME UNCHANGED <<pending, wire, asked, incoming>> PROVE IInv'
  BY <1>1 DEF IInv, Shapes, Ordered, Line, Asked
<1>2. CASE Changing
  BY <1>2, SetValueInvariant DEF Changing
<1>3. CASE Asking
  BY <1>3, SendMarkerInvariant DEF Asking
<1>4. CASE Hearing
  BY <1>4, HearRequestInvariant DEF Hearing
<1>5. CASE \E c \in Client : HearGlobals(c)
  BY <1>1, <1>5 DEF HearGlobals, markerVars
<1>6. CASE \E l \in Link : Carrying(l)
  BY <1>6, SendInvariant, ReceiveChangeInvariant, ReceiveMarkerInvariant DEF Carrying
<1>7. CASE UNCHANGED vars
  BY <1>1, <1>7 DEF vars
<1> QED
  BY <1>2, <1>3, <1>4, <1>5, <1>6, <1>7 DEF Next

\* The invariant implies what it is for: who owes a marker is owed by one that waits.
LEMMA OrderedFires == IInv => FiresAfterDelivery
<1> SUFFICES ASSUME IInv, NEW c \in Client,
                    NEW i \in ToSet(pending[ToClient(c)]) \cup ToSet(wire[ToClient(c)]),
                    NEW m \in i.owes
             PROVE  m \in ToSet(incoming[c])
  BY DEF FiresAfterDelivery, ToClient
<1> DEFINE W == wire[ToClient(c)]
           P == pending[ToClient(c)]
<1>1. /\ Shapes /\ IsSeq(W) /\ IsSeq(P) /\ incoming[c] \in Seq(Marker)
      /\ Owes(W \o P, incoming[c])
  BY Counted DEF IInv, Ordered, InOrder, Line
<1>2. i \in ToSet(P) \cup ToSet(W)
  OBVIOUS
<1> HIDE DEF W, P
<1>3. /\ Len(W \o P) = Len(W) + Len(P) /\ Len(W) \in Nat /\ Len(P) \in Nat
      /\ \A k \in 1..Len(W) : (W \o P)[k] = W[k]
      /\ \A k \in 1..Len(P) : (W \o P)[Len(W) + k] = P[k]
      /\ DOMAIN W = 1..Len(W) /\ DOMAIN P = 1..Len(P)
  BY <1>1, SeqConcat
<1>4. \E k \in 1..Len(W \o P) : (W \o P)[k] = i
  <2>1. CASE i \in ToSet(W)
    <3>1. PICK k \in 1..Len(W) : W[k] = i
      BY <1>3, <2>1 DEF ToSet
    <3>2. k \in 1..Len(W \o P) /\ (W \o P)[k] = i
      BY <1>3, <3>1
    <3> QED
      BY <3>2
  <2>2. CASE i \in ToSet(P)
    <3>1. PICK k \in 1..Len(P) : P[k] = i
      BY <1>3, <2>2 DEF ToSet
    <3>2. Len(W) + k \in 1..Len(W \o P) /\ (W \o P)[Len(W) + k] = i
      BY <1>3, <3>1
    <3> QED
      BY <3>2
  <2> QED
    BY <1>2, <2>1, <2>2
<1>5. PICK j \in 1..Len(incoming[c]) : incoming[c][j] = m
  BY <1>1, <1>4 DEF Owes
<1> QED
  BY <1>1, <1>5 DEF ToSet

\* The markers of every line are in order: as many as still wait and are not requested,
\* and none before an item that owes what it fires.
THEOREM InvariantHolds == Spec => []IInv
BY InitInvariant, NextInvariant, PTL DEF Spec

\* A marker fires at a client only when everything the server had for it when it asked
\* has come, for any number of clients, properties, names in a dictionary and markers.
THEOREM FiresAfterDeliveryHolds == Spec => []FiresAfterDelivery
BY InvariantHolds, OrderedFires, PTL

-----------------------------------------------------------------------------
\* The codes among the first k items of s, for every k.
Collects(f, s) ==
  /\ f[0] = <<>> /\ \A k \in 0..Len(s) : IsSeq(f[k])
  /\ \A k \in 1..Len(s) : f[k] = IF s[k].kind = "change" THEN Append(f[k - 1], s[k].code) ELSE f[k - 1]

\* They are what CodesOf collects.
LEMMA CodesDef ==
  ASSUME NEW s, Len(s) \in Nat
  PROVE  \E f : Collects(f, s) /\ CodesOf(s) = f[Len(s)]
<1> DEFINE N == Len(s)
           V == Seq({s[k].code : k \in 1..N})
           F == [k \in 1..N |-> [q \in V |-> IF s[k].kind = "change" THEN Append(q, s[k].code) ELSE q]]
<1>1. <<>> \in V /\ F \in [1..N -> [V -> V]]
  OBVIOUS
<1>2. PICK g \in [0..N -> V] : g[0] = <<>> /\ \A k \in 1..N : g[k] = F[k][g[k - 1]]
  <2> DEFINE a == <<>>
  <2>1. N \in Nat /\ a \in V /\ F \in [1..N -> [V -> V]]
    BY <1>1
  <2> HIDE DEF F, V, N, a
  <2>2. \E g : Stepwise(g, V, F, a, N)
    BY <2>1, StepsExist
  <2> QED
    BY <2>2 DEF a, Stepwise
<1>3. \A k \in 1..N : g[k] = IF s[k].kind = "change" THEN Append(g[k - 1], s[k].code) ELSE g[k - 1]
  <2>1. \A k \in 1..N : k - 1 \in 0..N
    OBVIOUS
  <2>2. \A k \in 1..N : g[k - 1] \in V
    BY <2>1
  <2> HIDE DEF V
  <2> QED
    BY <1>2, <2>2
<1> DEFINE Eq(f) == f = [k \in 0..N |-> IF k = 0 THEN <<>>
                                        ELSE IF s[k].kind = "change" THEN Append(f[k - 1], s[k].code)
                                        ELSE f[k - 1]]
           codes == CHOOSE f : Eq(f)
<1>4. Eq(g)
  <2>1. ASSUME NEW k \in 0..N
        PROVE  g[k] = IF k = 0 THEN <<>>
                      ELSE IF s[k].kind = "change" THEN Append(g[k - 1], s[k].code) ELSE g[k - 1]
    <3>1. k = 0 \/ k \in 1..N
      OBVIOUS
    <3> QED
      BY <1>2, <1>3, <3>1
  <2> HIDE DEF V
  <2> QED
    BY <2>1
<1>5. Eq(codes)
  <2> HIDE DEF Eq
  <2> QED
    BY <1>4
<1>6. CodesOf(s) = codes[N]
  BY DEF CodesOf
<1> HIDE DEF codes
<1>7. codes = g
  <2> DEFINE S == {k \in 0..N : codes[k] = g[k]}
  <2>1. 0 \in S
    BY <1>5, <1>2
  <2>2. ASSUME NEW k \in 1..N, k - 1 \in S PROVE k \in S
    <3>1. k \in 0..N /\ k # 0 /\ codes[k - 1] = g[k - 1]
      BY <2>2
    <3>2. codes[k] = IF s[k].kind = "change" THEN Append(codes[k - 1], s[k].code) ELSE codes[k - 1]
      BY <1>5, <3>1
    <3> QED
      BY <1>3, <3>1, <3>2
  <2> HIDE DEF S
  <2>3. \A k \in 0..N : k \in S
    BY <2>1, <2>2, UpTo
  <2>4. \A k \in 0..N : codes[k] = g[k]
    BY <2>3 DEF S
  <2>5. codes = [k \in 0..N |-> codes[k]]
    BY <1>5
  <2>6. g = [k \in 0..N |-> g[k]]
    BY <1>2
  <2> QED
    BY <2>4, <2>5, <2>6
<1>8. \A k \in 0..N : IsSeq(g[k])
  BY <1>2, SeqIsSeq
<1>9. Collects(g, s)
  BY <1>2, <1>3, <1>8 DEF Collects
<1> QED
  BY <1>6, <1>7, <1>9

\* The codes of items with the same codes are the same.
LEMMA CodesSame ==
  ASSUME NEW s, NEW t, Len(s) \in Nat, Len(t) = Len(s),
         \A k \in 1..Len(s) : /\ t[k].kind = s[k].kind
                              /\ s[k].kind = "change" => t[k].code = s[k].code
  PROVE  CodesOf(t) = CodesOf(s)
<1>1. PICK f : Collects(f, s) /\ CodesOf(s) = f[Len(s)]
  BY CodesDef
<1>2. PICK g : Collects(g, t) /\ CodesOf(t) = g[Len(s)]
  BY CodesDef
<1> DEFINE S == {k \in 0..Len(s) : g[k] = f[k]}
<1>3. 0 \in S
  BY <1>1, <1>2 DEF Collects
<1>4. ASSUME NEW k \in 1..Len(s), k - 1 \in S PROVE k \in S
  <2>1. k \in 0..Len(s) /\ g[k - 1] = f[k - 1]
    BY <1>4
  <2> QED
    BY <1>1, <1>2, <2>1 DEF Collects
<1> HIDE DEF S
<1>5. \A k \in 0..Len(s) : k \in S
  BY <1>3, <1>4, UpTo
<1>6. Len(s) \in S
  BY <1>5
<1> QED
  BY <1>1, <1>2, <1>6 DEF S

\* The codes of a line that grows.
LEMMA CodesAppend ==
  ASSUME NEW s, IsSeq(s), NEW x
  PROVE  /\ CodesOf(Append(s, x)) = IF x.kind = "change" THEN Append(CodesOf(s), x.code) ELSE CodesOf(s)
         /\ IsSeq(CodesOf(s))
<1> DEFINE t == Append(s, x)
           N == Len(s)
<1>1. N \in Nat /\ Len(t) = N + 1 /\ \A k \in 1..N : t[k] = s[k] /\ t[N + 1] = x
  BY SeqAppend
<1>2. t[N + 1] = x
  BY SeqAppend
<1> HIDE DEF t
<1>3. PICK f : Collects(f, s) /\ CodesOf(s) = f[N]
  BY <1>1, CodesDef
<1>4. PICK g : Collects(g, t) /\ CodesOf(t) = g[N + 1]
  BY <1>1, CodesDef
<1> HIDE DEF N
<1>5. /\ f[0] = <<>> /\ \A k \in 0..N : IsSeq(f[k])
      /\ \A k \in 1..N : f[k] = IF s[k].kind = "change" THEN Append(f[k - 1], s[k].code) ELSE f[k - 1]
  BY <1>3 DEF Collects, N
<1>6. /\ g[0] = <<>>
      /\ \A k \in 1..(N + 1) : g[k] = IF t[k].kind = "change" THEN Append(g[k - 1], t[k].code) ELSE g[k - 1]
  BY <1>1, <1>4 DEF Collects
<1> DEFINE S == {k \in 0..N : g[k] = f[k]}
<1>7. 0 \in S
  BY <1>1, <1>5, <1>6
<1>8. ASSUME NEW k \in 1..N, k - 1 \in S PROVE k \in S
  <2>1. k \in 0..N /\ k \in 1..(N + 1) /\ g[k - 1] = f[k - 1] /\ t[k] = s[k]
    BY <1>1, <1>8
  <2> QED
    BY <1>5, <1>6, <2>1
<1> HIDE DEF S
<1>9. \A k \in 0..N : k \in S
  BY <1>1, <1>7, <1>8, UpTo
<1>10. g[N] = f[N] /\ N \in 0..N /\ N + 1 \in 1..(N + 1) /\ (N + 1) - 1 = N
  BY <1>1, <1>9 DEF S
<1>11. g[N + 1] = IF x.kind = "change" THEN Append(g[N], x.code) ELSE g[N]
  BY <1>2, <1>6, <1>10
<1> QED
  BY <1>3, <1>4, <1>5, <1>10, <1>11 DEF t

\* The codes of a line that loses its first item.
LEMMA CodesTail ==
  ASSUME NEW s, IsSeq(s), s # <<>>
  PROVE  IF Head(s).kind = "change"
         THEN /\ CodesOf(s) # <<>> /\ Head(CodesOf(s)) = Head(s).code
              /\ CodesOf(Tail(s)) = Tail(CodesOf(s))
         ELSE CodesOf(Tail(s)) = CodesOf(s)
<1> DEFINE t == Tail(s)
           N == Len(t)
           x == Head(s)
<1>1. N \in Nat /\ Len(s) = N + 1 /\ (\A k \in 1..N : t[k] = s[k + 1]) /\ s[1] = x
  BY SeqTail
<1> HIDE DEF t, x
<1>2. PICK f : Collects(f, s) /\ CodesOf(s) = f[N + 1]
  BY <1>1, CodesDef
<1>3. PICK g : Collects(g, t) /\ CodesOf(t) = g[N]
  BY <1>1, CodesDef
<1>4. /\ f[0] = <<>> /\ \A k \in 0..(N + 1) : IsSeq(f[k])
      /\ \A k \in 1..(N + 1) : f[k] = IF s[k].kind = "change" THEN Append(f[k - 1], s[k].code) ELSE f[k - 1]
  BY <1>1, <1>2 DEF Collects
<1>5. /\ g[0] = <<>> /\ \A k \in 0..N : IsSeq(g[k])
      /\ \A k \in 1..N : g[k] = IF t[k].kind = "change" THEN Append(g[k - 1], t[k].code) ELSE g[k - 1]
  BY <1>3 DEF Collects
<1> HIDE DEF N
<1>6. 1 \in 1..(N + 1) /\ 1 - 1 = 0 /\ 0 + 1 = 1
  BY <1>1
<1>7. f[1] = IF x.kind = "change" THEN Append(<<>>, x.code) ELSE <<>>
  BY <1>1, <1>4, <1>6
<1> DEFINE Fits(k) == IF x.kind = "change"
                      THEN f[k + 1] # <<>> /\ Head(f[k + 1]) = x.code /\ Tail(f[k + 1]) = g[k]
                      ELSE f[k + 1] = g[k]
           S == {k \in 0..N : Fits(k)}
<1>8. 0 \in S
  <2>1. Fits(0)
    <3>1. CASE x.kind = "change"
      <4> DEFINE q == Append(<<>>, x.code)
      <4>1. q # <<>> /\ Head(q) = x.code /\ Tail(q) = <<>>
        OBVIOUS
      <4> HIDE DEF q
      <4>2. f[0 + 1] = q
        BY <1>6, <1>7, <3>1 DEF q
      <4> QED
        BY <1>5, <3>1, <4>1, <4>2
    <3>2. CASE x.kind # "change"
      BY <1>5, <1>6, <1>7, <3>2
    <3> QED
      BY <3>1, <3>2
  <2> HIDE DEF Fits
  <2> QED
    BY <1>1, <2>1
<1>9. ASSUME NEW k \in 1..N, k - 1 \in S PROVE k \in S
  <2>1. /\ k \in 0..N /\ k + 1 \in 1..(N + 1) /\ (k + 1) - 1 = k /\ (k - 1) + 1 = k
        /\ k \in 0..(N + 1) /\ t[k] = s[k + 1]
    BY <1>1, <1>9
  <2>2. /\ f[k + 1] = IF t[k].kind = "change" THEN Append(f[k], t[k].code) ELSE f[k]
        /\ g[k] = IF t[k].kind = "change" THEN Append(g[k - 1], t[k].code) ELSE g[k - 1]
    BY <1>4, <1>5, <2>1
  <2>3. IsSeq(f[k])
    BY <1>4, <2>1
  <2>4. IF x.kind = "change" THEN f[k] # <<>> /\ Head(f[k]) = x.code /\ Tail(f[k]) = g[k - 1]
                             ELSE f[k] = g[k - 1]
    BY <1>9, <2>1
  <2>5. Fits(k)
    <3>1. CASE x.kind = "change" /\ t[k].kind = "change"
      <4> DEFINE a == f[k]
                 y == t[k].code
      <4>1. a # <<>> /\ Head(a) = x.code /\ Tail(a) = g[k - 1]
        BY <2>4, <3>1
      <4>2. a \in Seq({a[i] : i \in DOMAIN a})
        BY <2>3 DEF IsSeq
      <4> HIDE DEF a, y
      <4>3. Append(a, y) # <<>> /\ Head(Append(a, y)) = Head(a) /\ Tail(Append(a, y)) = Append(Tail(a), y)
        <5> DEFINE T == {a[i] : i \in DOMAIN a} \cup {y}
        <5>1. a \in Seq(T) /\ y \in T
          BY <4>2
        <5> HIDE DEF T
        <5> QED
          BY <4>1, <5>1
      <4>4. f[k + 1] = Append(a, y) /\ g[k] = Append(g[k - 1], y)
        BY <2>2, <3>1 DEF a, y
      <4> QED
        BY <3>1, <4>1, <4>3, <4>4
    <3>2. CASE x.kind = "change" /\ t[k].kind # "change"
      BY <2>2, <2>4, <3>2
    <3>3. CASE x.kind # "change"
      BY <2>2, <2>4, <3>3
    <3> QED
      BY <3>1, <3>2, <3>3
  <2> HIDE DEF Fits
  <2> QED
    BY <2>1, <2>5
<1> HIDE DEF S, Fits
<1>10. \A k \in 0..N : k \in S
  BY <1>1, <1>8, <1>9, UpTo
<1>11. N \in S
  BY <1>1, <1>10
<1>12. Fits(N)
  BY <1>11 DEF S
<1> QED
  BY <1>2, <1>3, <1>12 DEF Fits, t, x

-----------------------------------------------------------------------------
\* What waits has a name and no value, what was written a code and a value.
IsWaiting(i) ==
  i.kind = "change" =>
    i = [kind |-> "change", name |-> i.name, owes |-> i.owes] /\ i.name \in Property
IsWritten(i) ==
  i.kind = "change" =>
    /\ i = [kind |-> "change", code |-> i.code, value |-> i.value, owes |-> i.owes]
    /\ i.code.means \in Property /\ i.value \in Value
Typed ==
  /\ value \in [Node -> [Property -> Value]]
  /\ \A l \in Link : /\ \A k \in DOMAIN pending[l] : IsWaiting(pending[l][k])
                     /\ \A k \in DOMAIN wire[l] : IsWritten(wire[l][k])

\* The codes on one connection change with what is on its wire.
LEMMA CodesChanged ==
  ASSUME Shapes, NEW l \in Link, NEW W, wire' = [wire EXCEPT ![l] = W]
  PROVE  Codes' = [Codes EXCEPT ![l] = CodesOf(W)]
<1>1. DOMAIN wire = Link
  BY DEF Shapes
<1>2. ASSUME NEW k \in Link PROVE wire'[k] = IF k = l THEN W ELSE wire[k]
  BY <1>1
<1>3. \A k \in Link : CodesOf(wire'[k]) = IF k = l THEN CodesOf(W) ELSE CodesOf(wire[k])
  BY <1>2
<1>4. Codes' = [k \in Link |-> CodesOf(wire'[k])] /\ Codes = [k \in Link |-> CodesOf(wire[k])]
  BY DEF Codes
<1> QED
  BY <1>3, <1>4

\* It does not if the codes of what is on the wire are what they were.
LEMMA CodesKept ==
  ASSUME Shapes, NEW l \in Link, NEW W, wire' = [wire EXCEPT ![l] = W],
         CodesOf(W) = CodesOf(wire[l])
  PROVE  Codes' = Codes
<1>1. Codes' = [Codes EXCEPT ![l] = CodesOf(W)]
  BY CodesChanged
<1>2. Codes = [k \in Link |-> CodesOf(wire[k])]
  BY DEF Codes
<1>3. Codes[l] = CodesOf(W)
  BY <1>2
<1> QED
  BY <1>1, <1>2, <1>3

-----------------------------------------------------------------------------
\* The StringDictionary that the connections carry, by itself: that it is understood.

\* What StringDictionary asks of its constants.
LEMMA DictionaryFits == Names!DictionaryAssumption
BY ReplicatorAssumption DEF Names!DictionaryAssumption

\* At first nothing is on a line, and both rings are empty.
LEMMA NewFit ==
  Names!DictionaryAssumption => Names!Fit(Names!NewSender, Names!NewReceiver, <<>>)
<1> SUFFICES ASSUME Names!DictionaryAssumption
             PROVE  Names!Fit(Names!NewSender, Names!NewReceiver, <<>>)
  OBVIOUS
<1> USE DEF Names!DictionaryAssumption, Names!Index
<1>1. Names!Typed(Names!NewSender, Names!NewReceiver, <<>>)
  BY DEF Names!Typed, Names!NewSender, Names!NewReceiver, Names!Sender, Names!Index, Names!Code
<1>2. Names!Inverse(Names!NewSender)
  BY DEF Names!Inverse, Names!NewSender
<1>3. Names!Newest(Names!NewSender, Names!NewReceiver, <<>>)
  BY DEF Names!Newest, Names!Stands, Names!NewSender, Names!NewReceiver, Names!Defines
<1>4. Names!AllMeant(Names!NewReceiver, <<>>)
  BY DEF Names!AllMeant
<1> QED
  BY <1>1, <1>2, <1>3, <1>4 DEF Names!Fit

\* NextIndex is a place of the ring.
LEMMA NextInRing ==
  ASSUME Names!DictionaryAssumption, NEW S \in Names!Sender
  PROVE  Names!NextIndex(S) \in Names!Index
BY SMTT(30) DEF Names!DictionaryAssumption, Names!Sender, Names!NextIndex, Names!Index

\* What is appended changes nothing for a reader at a place before it.
LEMMA StandsAppended ==
  ASSUME NEW L \in Seq(Names!Code), NEW R, NEW c \in Names!Code, NEW i, NEW x,
         NEW k \in 1..(Len(L) + 1)
  PROVE  Names!Stands(Append(L, c), R, i, k, x) <=> Names!Stands(L, R, i, k, x)
<1>1. \A j \in 1..(k - 1) : Append(L, c)[j] = L[j]
  OBVIOUS
<1>2. \A j \in 1..(k - 1) : Names!Defines(Append(L, c), i, j) <=> Names!Defines(L, i, j)
  BY <1>1 DEF Names!Defines
<1>3. \A j \in 1..(k - 1) : (j + 1)..(k - 1) \subseteq 1..(k - 1)
  OBVIOUS
<1> QED
  BY <1>1, <1>2, <1>3 DEF Names!Stands

\* After an appended definition the index stands for its text, any other index for
\* what it stood for.
LEMMA StandsAfterAppend ==
  ASSUME NEW L \in Seq(Names!Code), NEW R, NEW c \in Names!Code, NEW i, NEW x,
         IF c.full /\ c.id = i THEN c.text = x ELSE Names!Stands(L, R, i, Len(L) + 1, x)
  PROVE  Names!Stands(Append(L, c), R, i, Len(L) + 2, x)
<1> DEFINE M == Append(L, c)
           n == Len(L) + 1
<1>1. M[n] = c /\ n \in 1..(n + 1 - 1) /\ Len(L) \in Nat
  OBVIOUS
<1>2. \A j \in 1..Len(L) : M[j] = L[j]
  OBVIOUS
<1>3. CASE c.full /\ c.id = i
  <2>1. Names!Defines(M, i, n)
    BY <1>1, <1>3 DEF Names!Defines
  <2>2. \A j \in 1..n : j # n => n \in (j + 1)..n
    BY <1>1
  <2>3. c.text = x
    BY <1>3
  <2>4. ASSUME NEW j \in 1..n, \A m \in (j + 1)..n : ~Names!Defines(M, i, m)
        PROVE  M[j].text = x
    BY <2>1, <2>2, <2>3, <2>4, <1>1
  <2> QED
    BY <2>1, <2>4, <1>1 DEF Names!Stands
<1>4. CASE ~(c.full /\ c.id = i)
  <2>1. ~Names!Defines(M, i, n)
    BY <1>1, <1>4 DEF Names!Defines
  <2>2. \A j \in 1..Len(L) : Names!Defines(M, i, j) <=> Names!Defines(L, i, j)
    BY <1>2 DEF Names!Defines
  <2>3. Names!Stands(L, R, i, n, x)
    BY <1>4
  <2>4. \A j \in 1..n : j = n \/ j \in 1..Len(L)
    BY <1>1
  <2>5. \A j \in 1..Len(L) : j \in 1..(n - 1) /\ j \in 1..n
    BY <1>1
  <2>6. ASSUME NEW j \in 1..n, Names!Defines(M, i, j), \A m \in (j + 1)..n : ~Names!Defines(M, i, m)
        PROVE  M[j].text = x
    <3>1. j \in 1..Len(L) /\ Names!Defines(L, i, j)
      BY <2>1, <2>2, <2>4, <2>6
    <3>2. \A m \in (j + 1)..(n - 1) : m \in (j + 1)..n /\ m \in 1..Len(L)
      BY <1>1, <3>1
    <3>3. \A m \in (j + 1)..(n - 1) : ~Names!Defines(L, i, m)
      BY <2>2, <2>6, <3>2
    <3> QED
      BY <1>2, <2>3, <2>5, <3>1, <3>3 DEF Names!Stands
  <2>7. (\A j \in 1..n : ~Names!Defines(M, i, j)) => R[i] = x
    BY <2>2, <2>3, <2>5, <1>1 DEF Names!Stands
  <2> QED
    BY <2>6, <2>7, <1>1 DEF Names!Stands
<1> QED
  BY <1>3, <1>4

\* Who has read the first code, and learnt from it, is where the next reader was.
LEMMA StandsTail ==
  ASSUME NEW L \in Seq(Names!Code), L # <<>>, NEW R \in [Names!Index -> Name],
         NEW i \in Names!Index,
         NEW k \in 1..Len(L), NEW x, Names!Stands(L, R, i, k + 1, x)
  PROVE  Names!Stands(Tail(L), Names!Learnt(R, Head(L)), i, k, x)
<1> DEFINE M == Tail(L)
           Q == Names!Learnt(R, Head(L))
<1>1. /\ Len(L) \in Nat \ {0} /\ Len(M) = Len(L) - 1
      /\ \A j \in 1..Len(M) : M[j] = L[j + 1]
  OBVIOUS
<1>2. \A j \in 1..(k - 1) : /\ Names!Defines(M, i, j) <=> Names!Defines(L, i, j + 1)
                            /\ M[j] = L[j + 1] /\ j + 1 \in 1..(k + 1 - 1)
  BY <1>1 DEF Names!Defines
<1>3. Q[i] = IF Names!Defines(L, i, 1) THEN L[1].text ELSE R[i]
  <2>1. Head(L) = L[1]
    OBVIOUS
  <2> QED
    BY <2>1 DEF Names!Learnt, Names!Defines
<1>4. \A m \in 2..k : m - 1 \in 1..(k - 1) /\ (m - 1) + 1 = m
  OBVIOUS
<1>5. ASSUME NEW j \in 1..(k - 1), Names!Defines(M, i, j),
             \A m \in (j + 1)..(k - 1) : ~Names!Defines(M, i, m)
      PROVE  M[j].text = x
  <2>1. \A m \in (j + 1 + 1)..(k + 1 - 1) : m - 1 \in (j + 1)..(k - 1) /\ m \in 2..k
    OBVIOUS
  <2>2. \A m \in (j + 1 + 1)..(k + 1 - 1) : ~Names!Defines(L, i, m)
    BY <1>2, <1>4, <1>5, <2>1
  <2> QED
    BY <1>2, <1>5, <2>2 DEF Names!Stands
<1>6. ASSUME \A j \in 1..(k - 1) : ~Names!Defines(M, i, j)
      PROVE  Q[i] = x
  <2>1. ASSUME NEW m \in 2..k PROVE ~Names!Defines(L, i, m)
    <3>1. Names!Defines(M, i, m - 1) <=> Names!Defines(L, i, (m - 1) + 1)
      BY <1>2, <1>4
    <3> QED
      BY <1>4, <1>6, <3>1
  <2>2. CASE Names!Defines(L, i, 1)
    <3>1. 1 \in 1..(k + 1 - 1) /\ (1 + 1)..(k + 1 - 1) = 2..k
      OBVIOUS
    <3> QED
      BY <1>3, <2>1, <2>2, <3>1 DEF Names!Stands
  <2>3. CASE ~Names!Defines(L, i, 1)
    <3>1. \A j \in 1..(k + 1 - 1) : j = 1 \/ j \in 2..k
      OBVIOUS
    <3> QED
      BY <1>3, <2>1, <2>3, <3>1 DEF Names!Stands
  <2> QED
    BY <2>2, <2>3
<1> QED
  BY <1>5, <1>6 DEF Names!Stands

-----------------------------------------------------------------------------
\* A string that is sent: in full, and then its index stands for it to all that come
\* after; or by an index that stands for it to the reader at the end of the line.
LEMMA SentFit ==
  ASSUME Names!DictionaryAssumption, NEW S, NEW R, NEW L, Names!Fit(S, R, L), NEW v \in Name,
         NEW T, T = Names!Sent(S, v), NEW M, M = Append(L, Names!Encoded(S, v))
  PROVE  Names!Fit(T, R, M)
<1> DEFINE c == Names!Encoded(S, v)
           i == Names!NextIndex(S)
<1>1. /\ S \in Names!Sender /\ R \in [Names!Index -> Name] /\ L \in Seq(Names!Code)
      /\ M = Append(L, c) /\ T = Names!Sent(S, v)
  BY DEF Names!Fit, Names!Typed
<1>2. i \in Names!Index /\ i # 0 /\ i \in 0..Ring /\ 0 \in 0..Ring
  BY <1>1, NextInRing DEF Names!DictionaryAssumption, Names!Index
<1>3. /\ S.strings \in [Names!Index -> Name] /\ S.dictionary \in [Name -> 0..Ring]
  BY <1>1 DEF Names!Sender
<1>4. c \in Names!Code
  <2>1. i \in 0..Ring /\ Empty \in Name /\ 0 \in 0..Ring
    BY <1>2 DEF Names!DictionaryAssumption
  <2>2. S.dictionary[v] \in 0..Ring
    BY <1>3
  <2> QED
    BY <2>1, <2>2 DEF Names!Encoded, Names!Code
<1>5. M \in Seq(Names!Code) /\ Len(M) = Len(L) + 1 /\ Len(L) \in Nat
  BY <1>1, <1>4
<1>6. Names!Typed(T, R, M)
  <2>1. T \in Names!Sender
    <3>1. CASE Names!Known(S, v)
      BY <1>1, <3>1 DEF Names!Sent
    <3>2. CASE ~Names!Known(S, v)
      <4>1. Names!Entered(S, v) \in [Name -> 0..Ring]
        BY <1>2, <1>3 DEF Names!Entered
      <4>2. [S.strings EXCEPT ![i] = v] \in [Names!Index -> Name] /\ i \in 0..Ring
        BY <1>2, <1>3
      <4> QED
        BY <1>1, <3>2, <4>1, <4>2 DEF Names!Sent, Names!Sender
    <3> QED
      BY <3>1, <3>2
  <2> QED
    BY <1>1, <1>5, <2>1 DEF Names!Typed
<1>7. Names!Inverse(T)
  <2>1. CASE Names!Known(S, v)
    BY <1>1, <2>1 DEF Names!Sent, Names!Inverse, Names!Fit
  <2>2. CASE ~Names!Known(S, v)
    <3>1. v # Empty
      BY <2>2 DEF Names!Known
    <3>2. /\ T.dictionary = Names!Entered(S, v)
          /\ T.strings = [S.strings EXCEPT ![i] = v]
      BY <1>1, <2>2 DEF Names!Sent
    <3>3. T.dictionary[Empty] = 0
      BY <3>1, <3>2 DEF Names!Entered, Names!Inverse, Names!Fit, Names!DictionaryAssumption
    <3>4. ASSUME NEW n \in Name, T.dictionary[n] # 0
          PROVE  T.strings[T.dictionary[n]] = n
      <4>1. CASE n = v
        BY <1>2, <1>3, <3>2, <4>1 DEF Names!Entered
      <4>2. CASE n # v
        <5>1. n # S.strings[i] /\ T.dictionary[n] = S.dictionary[n]
          BY <3>2, <3>4, <4>2 DEF Names!Entered
        <5>2. S.strings[S.dictionary[n]] = n
          BY <3>4, <5>1 DEF Names!Inverse, Names!Fit
        <5>3. S.dictionary[n] # i /\ S.dictionary[n] \in Names!Index
          BY <1>3, <3>4, <5>1, <5>2 DEF Names!Index
        <5> QED
          BY <1>3, <3>2, <5>1, <5>2, <5>3
      <4> QED
        BY <4>1, <4>2
    <3> QED
      BY <3>3, <3>4 DEF Names!Inverse
  <2> QED
    BY <2>1, <2>2
<1>8. Names!Newest(T, R, M)
  <2>1. SUFFICES ASSUME NEW a \in Names!Index
                 PROVE  Names!Stands(M, R, a, Len(M) + 1, T.strings[a])
    BY DEF Names!Newest
  <2>2. Names!Stands(L, R, a, Len(L) + 1, S.strings[a])
    BY DEF Names!Newest, Names!Fit
  <2>3. IF c.full /\ c.id = a THEN c.text = T.strings[a]
                  ELSE Names!Stands(L, R, a, Len(L) + 1, T.strings[a])
    <3>1. CASE Names!Known(S, v)
      BY <1>1, <2>2, <3>1 DEF Names!Encoded, Names!Sent, Names!Known
    <3>2. CASE ~Names!Known(S, v)
      <4>1. c.full /\ c.id = i /\ c.text = v
        BY <3>2 DEF Names!Encoded, Names!Known
      <4>2. T.strings = [S.strings EXCEPT ![i] = v]
        BY <1>1, <3>2 DEF Names!Sent
      <4> QED
        BY <1>2, <1>3, <2>2, <4>1, <4>2
    <3> QED
      BY <3>1, <3>2
  <2>4. Names!Stands(Append(L, c), R, a, Len(L) + 2, T.strings[a])
    BY <1>1, <1>4, <2>3, StandsAfterAppend
  <2>5. Len(M) + 1 = Len(L) + 2
    BY <1>5
  <2> QED
    BY <1>1, <2>4, <2>5
<1>9. Names!AllMeant(R, M)
  <2>1. SUFFICES ASSUME NEW k \in 1..Len(M) PROVE Names!Meant(M, R, k)
    BY DEF Names!AllMeant
  <2>2. \A x : \A a : Names!Stands(L, R, a, k, x) => Names!Stands(M, R, a, k, x)
    BY <1>1, <1>4, <1>5, StandsAppended
  <2>3. CASE k \in 1..Len(L)
    <3>1. M[k] = L[k]
      BY <1>1, <1>5, <2>3
    <3>2. Names!Meant(L, R, k)
      BY <2>3 DEF Names!AllMeant, Names!Fit
    <3> QED
      BY <2>2, <3>1, <3>2 DEF Names!Meant
  <2>4. CASE k = Len(L) + 1
    <3>1. M[k] = c
      BY <1>1, <2>4
    <3>2. CASE v = Empty
      BY <3>1, <3>2 DEF Names!Encoded, Names!Meant
    <3>3. CASE v # Empty /\ ~Names!Known(S, v)
      BY <1>2, <3>1, <3>3 DEF Names!Encoded, Names!Meant
    <3>4. CASE v # Empty /\ Names!Known(S, v)
      <4> DEFINE a == S.dictionary[v]
      <4>1. a # 0 /\ a \in Names!Index
        BY <1>3, <3>4 DEF Names!Known, Names!Index
      <4>2. ~c.full /\ c.id = a /\ c.means = v
        BY <3>4 DEF Names!Encoded
      <4>3. S.strings[a] = v
        BY <4>1 DEF Names!Inverse, Names!Fit
      <4>4. Names!Stands(L, R, a, k, v)
        BY <2>4, <4>1, <4>3 DEF Names!Newest, Names!Fit
      <4>5. Names!Stands(M, R, a, k, v)
        BY <2>2, <4>4
      <4> QED
        BY <3>1, <4>1, <4>2, <4>5 DEF Names!Meant
    <3> QED
      BY <3>2, <3>3, <3>4
  <2> QED
    BY <1>5, <2>3, <2>4
<1> QED
  BY <1>6, <1>7, <1>8, <1>9 DEF Names!Fit

\* A code that is read: every other is a place nearer, and the ring has learnt.
LEMMA LearntFit ==
  ASSUME Names!DictionaryAssumption, NEW S, NEW R, NEW L, Names!Fit(S, R, L), L # <<>>,
         NEW Q, Q = Names!Learnt(R, Head(L)), NEW M, M = Tail(L)
  PROVE  Names!Fit(S, Q, M)
<1>1. /\ S \in Names!Sender /\ R \in [Names!Index -> Name] /\ L \in Seq(Names!Code)
      /\ Q = Names!Learnt(R, Head(L)) /\ L # <<>>
      /\ M = Tail(L)
  BY DEF Names!Fit, Names!Typed
<1>2. /\ Len(L) \in Nat \ {0} /\ Len(M) = Len(L) - 1 /\ M \in Seq(Names!Code)
      /\ Head(L) = L[1] /\ \A k \in 1..Len(M) : M[k] = L[k + 1]
  BY <1>1
<1>3. Names!Typed(S, Q, M)
  <2>1. Head(L) \in Names!Code
    BY <1>1
  <2>2. Head(L).text \in Name
    BY <2>1 DEF Names!Code
  <2>3. Q \in [Names!Index -> Name]
    BY <1>1, <2>2 DEF Names!Learnt
  <2> QED
    BY <1>1, <1>2, <2>3 DEF Names!Typed
<1>4. Names!Inverse(S)
  BY <1>1 DEF Names!Inverse, Names!Fit
<1>5. \A i \in Names!Index : \A k \in 1..Len(L) : \A x :
        Names!Stands(L, R, i, k + 1, x) => Names!Stands(M, Q, i, k, x)
  BY <1>1, StandsTail
<1>6. Names!Newest(S, Q, M)
  <2>1. SUFFICES ASSUME NEW i \in Names!Index
                 PROVE  Names!Stands(M, Q, i, Len(M) + 1, S.strings[i])
    BY DEF Names!Newest
  <2>2. Names!Stands(L, R, i, Len(L) + 1, S.strings[i])
    BY DEF Names!Newest, Names!Fit
  <2>3. Len(L) \in 1..Len(L) /\ Len(M) + 1 = Len(L)
    BY <1>2
  <2> QED
    BY <1>1, <1>5, <2>2, <2>3
<1>7. Names!AllMeant(Q, M)
  <2>1. SUFFICES ASSUME NEW k \in 1..Len(M) PROVE Names!Meant(M, Q, k)
    BY DEF Names!AllMeant
  <2>2. k + 1 \in 1..Len(L) /\ k \in 1..Len(L)
    BY <1>2
  <2>3. Names!Meant(L, R, k + 1) /\ M[k] = L[k + 1]
    BY <1>2, <2>2 DEF Names!AllMeant, Names!Fit
  <2> QED
    BY <1>5, <2>2, <2>3 DEF Names!Meant
<1> QED
  BY <1>3, <1>4, <1>6, <1>7 DEF Names!Fit

\* At first every direction fits.
LEMMA DictionaryBegins == Names!DictionaryAssumption /\ Names!Init => Names!IInv
<1> SUFFICES ASSUME Names!DictionaryAssumption, Names!Init PROVE Names!IInv
  OBVIOUS
<1> DEFINE S == Names!NewSender
           R == Names!NewReceiver
<1>1. Names!Fit(S, R, <<>>)
  BY NewFit
<1>2. S \in Names!Sender /\ R \in [Names!Index -> Name] /\ <<>> \in Seq(Names!Code)
  BY <1>1 DEF Names!Fit, Names!Typed
<1>3. /\ names = [l \in Link |-> S] /\ heard = [l \in Link |-> R]
      /\ Codes = [l \in Link |-> <<>>]
  BY DEF Names!Init
<1> HIDE DEF S, R
<1>4. Names!TypeOK
  BY <1>2, <1>3 DEF Names!TypeOK
<1>5. ASSUME NEW l \in Link PROVE Names!Fit(names[l], heard[l], Codes[l])
  BY <1>1, <1>3
<1> QED
  BY <1>4, <1>5 DEF Names!IInv

\* In a step one direction changes, and fits again.
LEMMA DictionaryChanged ==
  ASSUME Names!IInv, NEW l \in Link, NEW S, NEW R, NEW L, Names!Fit(S, R, L),
         names' = [names EXCEPT ![l] = S], heard' = [heard EXCEPT ![l] = R],
         Codes' = [Codes EXCEPT ![l] = L]
  PROVE  Names!IInv'
<1>1. S \in Names!Sender /\ R \in [Names!Index -> Name] /\ L \in Seq(Names!Code)
  BY DEF Names!Fit, Names!Typed
<1>2. Names!TypeOK /\ \A k \in Link : Names!Fit(names[k], heard[k], Codes[k])
  BY DEF Names!IInv
<1>3. Names!TypeOK'
  BY <1>1, <1>2 DEF Names!TypeOK
<1>4. DOMAIN names = Link /\ DOMAIN heard = Link /\ DOMAIN Codes = Link
  BY <1>2 DEF Names!TypeOK
<1>5. ASSUME NEW k \in Link PROVE Names!Fit(names'[k], heard'[k], Codes'[k])
  <2>1. CASE k = l
    <3>1. names'[k] = S /\ heard'[k] = R /\ Codes'[k] = L
      BY <1>4, <2>1
    <3> QED
      BY <3>1
  <2>2. CASE k # l
    <3>1. names'[k] = names[k] /\ heard'[k] = heard[k] /\ Codes'[k] = Codes[k]
      BY <1>4, <2>2
    <3> QED
      BY <1>2, <3>1
  <2> QED
    BY <2>1, <2>2
<1> QED
  BY <1>3, <1>5 DEF Names!IInv

\* A step keeps the invariant.
LEMMA DictionarySteps ==
  Names!DictionaryAssumption /\ Names!IInv /\ [Names!Next]_(Names!vars) => Names!IInv'
<1> SUFFICES ASSUME Names!DictionaryAssumption, Names!IInv, [Names!Next]_(Names!vars)
             PROVE  Names!IInv'
  OBVIOUS
<1>1. Names!TypeOK /\ \A k \in Link : Names!Fit(names[k], heard[k], Codes[k])
  BY DEF Names!IInv
<1>2. /\ names \in [Link -> Names!Sender] /\ heard \in [Link -> [Names!Index -> Name]]
      /\ Codes \in [Link -> Seq(Names!Code)]
  BY <1>1 DEF Names!TypeOK
<1>3. ASSUME NEW l \in Link, Names!Receive(l) PROVE Names!IInv'
  <2> DEFINE Q == Names!Learnt(heard[l], Head(Codes[l]))
             M == Tail(Codes[l])
  <2>1. /\ names' = [names EXCEPT ![l] = names[l]] /\ Codes[l] # <<>>
        /\ heard' = [heard EXCEPT ![l] = Q] /\ Codes' = [Codes EXCEPT ![l] = M]
    BY <1>2, <1>3 DEF Names!Receive
  <2>2. Names!Fit(names[l], Q, M)
    BY <1>1, <2>1, LearntFit
  <2> HIDE DEF Q, M
  <2> QED
    BY <2>1, <2>2, DictionaryChanged
<1>4. ASSUME NEW l \in Link, NEW v \in Name, Names!Send(l, v) PROVE Names!IInv'
  <2> DEFINE T == Names!Sent(names[l], v)
             M == Append(Codes[l], Names!Encoded(names[l], v))
  <2>1. /\ names' = [names EXCEPT ![l] = T] /\ Codes' = [Codes EXCEPT ![l] = M]
        /\ heard' = [heard EXCEPT ![l] = heard[l]]
    BY <1>2, <1>4 DEF Names!Send
  <2>2. Names!Fit(T, heard[l], M)
    BY <1>1, SentFit
  <2> HIDE DEF T, M
  <2> QED
    BY <2>1, <2>2, DictionaryChanged
<1>5. CASE UNCHANGED Names!vars
  BY <1>5 DEF Names!vars, Names!IInv, Names!TypeOK
<1> QED
  BY <1>3, <1>4, <1>5 DEF Names!Next

\* At the head of a line nothing is before, so it is the ring that answers.
LEMMA DictionaryReads == Names!IInv => Names!Understood
<1> SUFFICES ASSUME Names!IInv, NEW l \in Link, Codes[l] # <<>>
             PROVE  Names!Decoded(heard[l], Head(Codes[l])) = Head(Codes[l]).means
  BY DEF Names!Understood
<1>1. PICK R, L : R = heard[l] /\ L = Codes[l]
  OBVIOUS
<1>2. L \in Seq(Names!Code) /\ Names!AllMeant(R, L)
  BY <1>1 DEF Names!IInv, Names!Fit, Names!Typed
<1>3. 1 \in 1..Len(L) /\ Head(L) = L[1]
  BY <1>1, <1>2
<1>4. Names!Meant(L, R, 1)
  BY <1>2, <1>3 DEF Names!AllMeant
<1>5. \A i, x : Names!Stands(L, R, i, 1, x) => R[i] = x
  BY DEF Names!Stands
<1>6. \A i \in Names!Index : i # 0
  BY DEF Names!Index
<1>7. Names!Decoded(R, Head(L)) = Head(L).means
  BY <1>3, <1>4, <1>5, <1>6 DEF Names!Meant, Names!Decoded
<1> QED
  BY <1>1, <1>7

\* Whatever StringDictionary does, what an index stands for at each place of a line, and
\* so at its ends, is what it was sent for.
THEOREM DictionaryHolds == Names!Spec => []Names!IInv
<1>1. Names!Init => Names!IInv
  BY DictionaryFits, DictionaryBegins
<1>2. Names!IInv /\ [Names!Next]_(Names!vars) => Names!IInv'
  BY DictionaryFits, DictionarySteps
<1> QED
  BY <1>1, <1>2, PTL DEF Names!Spec

\* Every string is read as the one that was sent, for rings of any size and any number
\* of directions.
THEOREM DictionaryUnderstood == Names!Spec => []Names!Understood
<1>1. Names!IInv => Names!Understood
  BY DictionaryReads
<1> QED
  BY <1>1, DictionaryHolds, PTL

-----------------------------------------------------------------------------
\* The state of every dictionary is a state of StringDictionary.
LEMMA DictionaryInit == Init => Names!Init
<1> SUFFICES ASSUME Init PROVE Names!Init
  OBVIOUS
<1>1. /\ wire = [l \in Link |-> <<>>] /\ names = [l \in Link |-> Names!NewSender]
      /\ heard = [l \in Link |-> Names!NewReceiver]
  BY DEF Init
<1>2. CodesOf(<<>>) = <<>>
  <2> DEFINE s == <<>>
  <2>1. Len(s) = 0 /\ Len(s) \in Nat
    OBVIOUS
  <2> HIDE DEF s
  <2>2. PICK f : Collects(f, s) /\ CodesOf(s) = f[Len(s)]
    BY <2>1, CodesDef
  <2>3. CodesOf(s) = <<>>
    BY <2>1, <2>2 DEF Collects
  <2> QED
    BY <2>3 DEF s
<1>3. \A l \in Link : wire[l] = <<>>
  BY <1>1
<1>4. \A l \in Link : CodesOf(wire[l]) = <<>>
  BY <1>2, <1>3
<1>5. Codes = [l \in Link |-> <<>>]
  BY <1>4 DEF Codes
<1> QED
  BY <1>1, <1>5 DEF Names!Init

\* An item is written: a name goes over the connection if it is a change.
LEMMA SendStreams ==
  ASSUME Shapes, Typed, Names!TypeOK, NEW l \in Link, Send(l)
  PROVE  \/ \E n \in Name : Names!Send(l, n)
         \/ UNCHANGED <<names, heard, Codes>>
<1> DEFINE i == Head(pending[l])
           x == Written(l, i)
           c == Names!Encoded(NamesOf(l), i.name)
<1>1. /\ wire' = [wire EXCEPT ![l] = Append(wire[l], x)] /\ heard' = heard /\ pending[l] # <<>>
      /\ names' = [names EXCEPT ![l] = IF i.kind = "change" THEN Names!Sent(names[l], i.name)
                                       ELSE names[l]]
  BY DEF Send
<1>2. IsSeq(wire[l]) /\ IsSeq(pending[l])
  BY DEF Shapes, IsLine
<1>3. IsItem(i) /\ IsWaiting(i)
  <2>1. i = pending[l][1] /\ 1 \in DOMAIN pending[l]
    BY <1>1, <1>2, SeqTail
  <2> QED
    BY <2>1 DEF Shapes, Typed, IsLine
<1>4. names \in [Link -> Names!Sender]
  BY DEF Names!TypeOK
<1>5. x.kind = i.kind
  BY <1>3, WrittenItem
<1>6. CASE i.kind = "change"
  <2>1. i.name \in Property
    BY <1>3, <1>6 DEF IsWaiting
  <2>2. i.name \in Name
    BY <2>1 DEF Property
  <2>3. x.code = c
    <3> DEFINE V == value[l[1]][i.name]
    <3>1. x = [kind |-> "change", code |-> c, value |-> V, owes |-> i.owes]
      BY <1>6 DEF Written
    <3> HIDE DEF c, V, x
    <3> QED
      BY <3>1
  <2>4. CodesOf(Append(wire[l], x)) = Append(CodesOf(wire[l]), c)
    <3> HIDE DEF x, c
    <3> QED
      BY <1>2, <1>5, <1>6, <2>3, CodesAppend
  <2>5. Codes' = [Codes EXCEPT ![l] = Append(CodesOf(wire[l]), c)]
    <3> HIDE DEF x, c
    <3> QED
      BY <1>1, <2>4, CodesChanged
  <2>6. Codes[l] = CodesOf(wire[l])
    BY DEF Codes
  <2>7. Codes' = [Codes EXCEPT ![l] = Append(Codes[l], Names!Encoded(names[l], i.name))]
    BY <2>5, <2>6 DEF NamesOf
  <2>8. names' = [names EXCEPT ![l] = Names!Sent(names[l], i.name)]
    BY <1>1, <1>6
  <2>9. Names!Send(l, i.name)
    <3> HIDE DEF i
    <3> QED
      BY <1>1, <2>7, <2>8 DEF Names!Send
  <2> QED
    BY <2>2, <2>9
<1>7. CASE i.kind # "change"
  <2>1. CodesOf(Append(wire[l], x)) = CodesOf(wire[l])
    <3> HIDE DEF x
    <3> QED
      BY <1>2, <1>5, <1>7, CodesAppend
  <2>2. Codes' = Codes
    <3> HIDE DEF x
    <3> QED
      BY <1>1, <2>1, CodesKept
  <2>3. names' = names
    BY <1>1, <1>4, <1>7
  <2> QED
    BY <1>1, <2>2, <2>3
<1> QED
  BY <1>6, <1>7

\* A change that is read is the next code of the connection, and it is understood.
LEMMA ReceiveChangeStreams ==
  ASSUME Shapes, Typed, NEW l \in Link, ReceiveChange(l)
  PROVE  /\ Names!Receive(l)
         /\ Names!Understood => Names!Decoded(heard[l], Head(wire[l]).code) = Head(wire[l]).code.means
<1> DEFINE i == Head(wire[l])
<1>1. /\ wire' = [wire EXCEPT ![l] = Tail(wire[l])] /\ names' = names /\ wire[l] # <<>>
      /\ i.kind = "change" /\ heard' = [heard EXCEPT ![l] = Names!Learnt(heard[l], i.code)]
  BY DEF ReceiveChange
<1>2. IsSeq(wire[l])
  BY DEF Shapes, IsLine
<1>3. Codes[l] = CodesOf(wire[l])
  BY DEF Codes
<1>4. Codes[l] # <<>> /\ Head(Codes[l]) = i.code /\ CodesOf(Tail(wire[l])) = Tail(Codes[l])
  BY <1>1, <1>2, <1>3, CodesTail
<1>5. Codes' = [Codes EXCEPT ![l] = Tail(Codes[l])]
  BY <1>1, <1>4, CodesChanged
<1> HIDE DEF i
<1>6. Names!Receive(l)
  BY <1>1, <1>4, <1>5 DEF Names!Receive
<1>7. Names!Understood => Names!Decoded(heard[l], i.code) = i.code.means
  BY <1>4 DEF Names!Understood
<1> QED
  BY <1>6, <1>7 DEF i

\* A marker that is read is none of the codes.
LEMMA ReceiveMarkerStreams ==
  ASSUME Shapes, NEW l \in Link, ReceiveMarker(l)
  PROVE  UNCHANGED <<names, heard, Codes>>
<1>1. /\ wire' = [wire EXCEPT ![l] = Tail(wire[l])] /\ names' = names /\ wire[l] # <<>>
      /\ Head(wire[l]).kind = "marker" /\ heard' = heard
  BY DEF ReceiveMarker
<1>2. IsSeq(wire[l])
  BY DEF Shapes, IsLine
<1>3. CodesOf(Tail(wire[l])) = CodesOf(wire[l])
  BY <1>1, <1>2, CodesTail
<1>4. Codes' = Codes
  BY <1>1, <1>3, CodesKept
<1> QED
  BY <1>1, <1>4

\* To owe a marker changes neither a name nor a code.
LEMMA OwingItems ==
  ASSUME NEW s, IsLine(s), NEW m
  PROVE  /\ IsLine(Owing(s, m)) /\ Len(s) \in Nat /\ Len(Owing(s, m)) = Len(s)
         /\ DOMAIN Owing(s, m) = 1..Len(s) /\ DOMAIN s = 1..Len(s)
         /\ \A k \in 1..Len(s) : Owing(s, m)[k].kind = s[k].kind
         /\ \A k \in 1..Len(s) : IsWaiting(s[k]) =>
              /\ IsWaiting(Owing(s, m)[k])
              /\ s[k].kind = "change" => Owing(s, m)[k].name = s[k].name
         /\ \A k \in 1..Len(s) : IsWritten(s[k]) =>
              /\ IsWritten(Owing(s, m)[k])
              /\ s[k].kind = "change" => /\ Owing(s, m)[k].code = s[k].code
                                         /\ Owing(s, m)[k].value = s[k].value
<1>1. IsLine(Owing(s, m)) /\ Len(s) \in Nat /\ Len(Owing(s, m)) = Len(s)
      /\ \A k \in 1..Len(s) : Owing(s, m)[k].kind = s[k].kind
  BY OwingLine
<1>2. s \in Seq({s[i] : i \in DOMAIN s})
  BY DEF IsLine, IsSeq
<1>3. DOMAIN s = 1..Len(s)
  BY <1>2
<1>4. DOMAIN Owing(s, m) = 1..Len(s) /\ \A k \in 1..Len(s) : Owing(s, m)[k] = Owed(s[k], m)
  BY <1>3 DEF Owing
<1>5. ASSUME NEW i, IsWaiting(i), i.kind = "change"
      PROVE  IsWaiting(Owed(i, m)) /\ Owed(i, m).name = i.name
  <2>1. i = [kind |-> "change", name |-> i.name, owes |-> i.owes] /\ i.name \in Property
    BY <1>5 DEF IsWaiting
  <2>2. Owed(i, m) = [kind |-> "change", name |-> i.name, owes |-> i.owes \cup {m}]
    BY <2>1 DEF Owed
  <2> QED
    BY <2>1, <2>2 DEF IsWaiting
<1>6. ASSUME NEW i, IsWritten(i), i.kind = "change"
      PROVE  IsWritten(Owed(i, m)) /\ Owed(i, m).code = i.code /\ Owed(i, m).value = i.value
  <2>1. /\ i = [kind |-> "change", code |-> i.code, value |-> i.value, owes |-> i.owes]
        /\ i.code.means \in Property /\ i.value \in Value
    BY <1>6 DEF IsWritten
  <2>2. Owed(i, m) = [kind |-> "change", code |-> i.code, value |-> i.value, owes |-> i.owes \cup {m}]
    BY <2>1 DEF Owed
  <2> QED
    BY <2>1, <2>2 DEF IsWritten
<1>7. \A k \in 1..Len(s) : s[k].kind # "change" => IsWaiting(Owing(s, m)[k]) /\ IsWritten(Owing(s, m)[k])
  BY <1>1 DEF IsWaiting, IsWritten
<1> QED
  BY <1>1, <1>3, <1>4, <1>5, <1>6, <1>7

\* So a request changes no code that is on its way.
LEMMA SendMarkerStreams ==
  ASSUME Shapes, Typed, NEW c \in Client, NEW m, SendMarker(c, m)
  PROVE  UNCHANGED <<names, heard, Codes>>
<1> DEFINE l == ToClient(c)
           W == Owing(wire[l], m)
<1>1. wire' = [wire EXCEPT ![l] = W] /\ names' = names /\ heard' = heard
  BY DEF SendMarker, ToClient
<1>2. l \in Link
  BY LinkFacts
<1>3. IsLine(wire[l]) /\ \A k \in DOMAIN wire[l] : IsWritten(wire[l][k])
  BY <1>2 DEF Shapes, Typed
<1>4. CodesOf(W) = CodesOf(wire[l])
  <2> DEFINE s == wire[l]
  <2>1. /\ Len(s) \in Nat /\ Len(W) = Len(s)
        /\ \A k \in 1..Len(s) : /\ W[k].kind = s[k].kind
                                /\ s[k].kind = "change" => W[k].code = s[k].code
    BY <1>3, OwingItems
  <2> HIDE DEF s, W
  <2>2. CodesOf(W) = CodesOf(s)
    BY <2>1, CodesSame
  <2> QED
    BY <2>2 DEF s
<1>5. Codes' = Codes
  <2> HIDE DEF W, l
  <2> QED
    BY <1>1, <1>2, <1>4, CodesKept
<1> QED
  BY <1>1, <1>5

\* Every step is one of StringDictionary's, or none of its business.
LEMMA StepStreams ==
  ASSUME Shapes, Typed, Names!TypeOK, [Next]_vars
  PROVE  [Names!Next]_(Names!vars)
<1>1. ASSUME UNCHANGED <<names, heard, Codes>> PROVE [Names!Next]_(Names!vars)
  BY <1>1 DEF Names!vars
<1>2. ASSUME UNCHANGED <<names, heard, wire>> PROVE [Names!Next]_(Names!vars)
  BY <1>1, <1>2 DEF Codes
<1>3. CASE Changing
  BY <1>2, <1>3 DEF Changing, SetValue
<1>4. CASE Asking
  BY <1>1, <1>4, SendMarkerStreams DEF Asking
<1>5. CASE Hearing
  BY <1>2, <1>5 DEF Hearing, HearRequest
<1>6. CASE \E c \in Client : HearGlobals(c)
  BY <1>2, <1>6 DEF HearGlobals
<1>7. CASE \E l \in Link : Carrying(l)
  <2>1. PICK l \in Link : Carrying(l)
    BY <1>7
  <2>2. CASE Send(l)
    BY <1>1, <2>2, SendStreams DEF Names!Next
  <2>3. CASE ReceiveChange(l)
    BY <2>3, ReceiveChangeStreams DEF Names!Next
  <2>4. CASE ReceiveMarker(l)
    BY <1>1, <2>4, ReceiveMarkerStreams
  <2> QED
    BY <2>1, <2>2, <2>3, <2>4 DEF Carrying
<1>8. CASE UNCHANGED vars
  BY <1>2, <1>8 DEF vars
<1> QED
  BY <1>3, <1>4, <1>5, <1>6, <1>7, <1>8 DEF Next

-----------------------------------------------------------------------------
\* A change of n waits; an item carries one; the last one there is of n is to x.
WaitsIn(P, n) == \E k \in DOMAIN P : P[k].kind = "change" /\ P[k].name = n
Carries(i, n) == i.kind = "change" /\ i.code.means = n
CarriedBy(W, n) == \E k \in DOMAIN W : Carries(W[k], n)
LastIs(W, n, x) ==
  \A k \in DOMAIN W :
    Carries(W[k], n) /\ (\A j \in DOMAIN W : j > k => ~Carries(W[j], n)) => W[k].value = x

\* What is on its way over l will end in what n is at its sender.
Fresh(l, n) == WaitsIn(pending[l], n) \/ LastIs(wire[l], n, value[l[1]][n])

\* Of a property that was not changed at both ends at once only one end has news, which
\* will make the other agree; and if none has, they do.
Agree(c, n) ==
  <<c, n>> \notin clash =>
    /\ ~(OnItsWay(<<c, Server>>, n) /\ OnItsWay(<<Server, c>>, n))
    /\ Fresh(<<c, Server>>, n) /\ Fresh(<<Server, c>>, n)
    /\ ~OnItsWay(<<c, Server>>, n) /\ ~OnItsWay(<<Server, c>>, n)
       => value[c][n] = value[Server][n]
AllAgree == \A c \in Client, n \in Property : Agree(c, n)

\* What is on its way waits or is on the wire.
LEMMA WayParts ==
  ASSUME NEW l, NEW n
  PROVE  OnItsWay(l, n) <=> WaitsIn(pending[l], n) \/ CarriedBy(wire[l], n)
BY DEF OnItsWay, WaitsIn, CarriedBy, Carries

\* Nothing on the wire is in agreement with anything.
LEMMA NoneLast ==
  ASSUME NEW W, NEW n, ~CarriedBy(W, n), NEW x
  PROVE  LastIs(W, n, x)
BY DEF CarriedBy, LastIs

\* What waits after an item is put behind or before it, and when the first goes.
LEMMA WaitsAppend ==
  ASSUME NEW P, IsSeq(P), NEW x, NEW n, NEW Q, Q = Append(P, x) \/ Q = <<x>> \o P
  PROVE  WaitsIn(Q, n) <=> WaitsIn(P, n) \/ (x.kind = "change" /\ x.name = n)
<1>1. Len(P) \in Nat /\ DOMAIN P = 1..Len(P)
  BY SeqAppend
<1>2. CASE Q = Append(P, x)
  <2>1. DOMAIN Q = 1..(Len(P) + 1) /\ Q[Len(P) + 1] = x /\ \A k \in 1..Len(P) : Q[k] = P[k]
    BY <1>2, SeqAppend
  <2>2. Len(P) + 1 \in 1..(Len(P) + 1) /\ \A k \in 1..(Len(P) + 1) : k \in 1..Len(P) \/ k = Len(P) + 1
    BY <1>1
  <2>3. \A k \in 1..Len(P) : k \in 1..(Len(P) + 1)
    BY <1>1
  <2> QED
    BY <1>1, <2>1, <2>2, <2>3 DEF WaitsIn
<1>3. CASE Q = <<x>> \o P
  <2> DEFINE h == <<x>>
  <2>1. h \in Seq({x}) /\ Len(h) = 1 /\ h[1] = x
    OBVIOUS
  <2> HIDE DEF h
  <2>2. IsSeq(h)
    BY <2>1, SeqIsSeq
  <2>3. /\ DOMAIN (h \o P) = 1..(1 + Len(P))
        /\ \A i \in 1..1 : (h \o P)[i] = h[i]
        /\ \A i \in 1..Len(P) : (h \o P)[1 + i] = P[i]
    <3>1. /\ DOMAIN (h \o P) = 1..(Len(h) + Len(P))
          /\ \A i \in 1..Len(h) : (h \o P)[i] = h[i]
          /\ \A i \in 1..Len(P) : (h \o P)[Len(h) + i] = P[i]
      BY <2>2, SeqConcat
    <3> QED
      BY <2>1, <3>1
  <2>4. DOMAIN Q = 1..(1 + Len(P)) /\ Q[1] = x /\ \A i \in 1..Len(P) : Q[1 + i] = P[i]
    <3>1. 1 \in 1..1
      OBVIOUS
    <3> QED
      BY <1>3, <2>1, <2>3, <3>1 DEF h
  <2>5. /\ 1 \in 1..(1 + Len(P)) /\ \A i \in 1..Len(P) : 1 + i \in 1..(1 + Len(P))
        /\ \A k \in 1..(1 + Len(P)) : k = 1 \/ (k - 1 \in 1..Len(P) /\ 1 + (k - 1) = k)
    BY <1>1
  <2>6. \A k \in 1..(1 + Len(P)) : k = 1 \/ (k - 1 \in 1..Len(P) /\ Q[k] = P[k - 1])
    BY <2>4, <2>5
  <2> QED
    BY <1>1, <2>4, <2>5, <2>6 DEF WaitsIn
<1> QED
  BY <1>2, <1>3

\* When the first that waits goes.
LEMMA WaitsTail ==
  ASSUME NEW P, IsSeq(P), P # <<>>, NEW n
  PROVE  WaitsIn(P, n) <=> WaitsIn(Tail(P), n) \/ (Head(P).kind = "change" /\ Head(P).name = n)
<1> DEFINE Q == Tail(P)
           x == Head(P)
           N == Len(P)
<1>1. /\ N \in Nat \ {0} /\ DOMAIN Q = 1..(N - 1) /\ DOMAIN P = 1..N
      /\ x = P[1] /\ \A i \in 1..(N - 1) : Q[i] = P[i + 1]
  BY SeqTail
<1> HIDE DEF Q, x, N
<1>2. /\ 1 \in 1..N /\ \A i \in 1..(N - 1) : i + 1 \in 1..N
      /\ \A k \in 1..N : k = 1 \/ (k - 1 \in 1..(N - 1) /\ (k - 1) + 1 = k)
  BY <1>1
<1>3. \A k \in 1..N : k = 1 \/ (k - 1 \in 1..(N - 1) /\ Q[k - 1] = P[k])
  BY <1>1, <1>2
<1>4. WaitsIn(P, n) <=> WaitsIn(Q, n) \/ (x.kind = "change" /\ x.name = n)
  BY <1>1, <1>2, <1>3 DEF WaitsIn
<1> QED
  BY <1>4 DEF Q, x

\* What is carried after an item is written.
LEMMA CarriedAppend ==
  ASSUME NEW W, IsSeq(W), NEW x, NEW n
  PROVE  /\ CarriedBy(Append(W, x), n) <=> CarriedBy(W, n) \/ Carries(x, n)
         /\ \A v : (IF Carries(x, n) THEN x.value = v ELSE LastIs(W, n, v))
                   => LastIs(Append(W, x), n, v)
<1> DEFINE V == Append(W, x)
           N == Len(W)
<1>1. /\ N \in Nat /\ DOMAIN W = 1..N /\ DOMAIN V = 1..(N + 1) /\ V[N + 1] = x
      /\ \A k \in 1..N : V[k] = W[k]
  BY SeqAppend
<1> HIDE DEF V, N
<1>2. /\ N + 1 \in 1..(N + 1) /\ \A k \in 1..(N + 1) : k = N + 1 \/ k \in 1..N
      /\ \A k \in 1..N : k \in 1..(N + 1) /\ N + 1 > k
  BY <1>1
<1>3. CarriedBy(V, n) <=> CarriedBy(W, n) \/ Carries(x, n)
  BY <1>1, <1>2 DEF CarriedBy
<1>4. ASSUME NEW v, IF Carries(x, n) THEN x.value = v ELSE LastIs(W, n, v),
             NEW k \in 1..(N + 1), Carries(V[k], n),
             \A j \in 1..(N + 1) : j > k => ~Carries(V[j], n)
      PROVE  V[k].value = v
  <2>1. CASE Carries(x, n)
    <3>1. k = N + 1
      BY <1>1, <1>2, <1>4, <2>1
    <3> QED
      BY <1>1, <1>4, <2>1, <3>1
  <2>2. CASE ~Carries(x, n)
    <3>1. k \in 1..N
      BY <1>1, <1>2, <1>4, <2>2
    <3>2. Carries(W[k], n) /\ \A j \in 1..N : j > k => ~Carries(W[j], n)
      BY <1>1, <1>2, <1>4, <3>1
    <3>3. W[k].value = v
      BY <1>1, <1>4, <2>2, <3>1, <3>2 DEF LastIs
    <3> QED
      BY <1>1, <3>1, <3>3
  <2> QED
    BY <2>1, <2>2
<1>5. ASSUME NEW v, IF Carries(x, n) THEN x.value = v ELSE LastIs(W, n, v)
      PROVE  LastIs(V, n, v)
  BY <1>1, <1>4, <1>5 DEF LastIs
<1> QED
  BY <1>3, <1>5 DEF V

\* When the first item on a wire is read: the last of n is still the last, or is this one.
LEMMA CarriedTail ==
  ASSUME NEW W, IsSeq(W), W # <<>>, NEW n
  PROVE  /\ CarriedBy(W, n) <=> CarriedBy(Tail(W), n) \/ Carries(Head(W), n)
         /\ \A v : LastIs(W, n, v) =>
              /\ LastIs(Tail(W), n, v)
              /\ Carries(Head(W), n) /\ ~CarriedBy(Tail(W), n) => Head(W).value = v
<1> DEFINE V == Tail(W)
           N == Len(W)
<1>1. /\ N \in Nat \ {0} /\ DOMAIN W = 1..N /\ DOMAIN V = 1..(N - 1) /\ Head(W) = W[1]
      /\ \A k \in 1..(N - 1) : V[k] = W[k + 1]
  BY SeqTail
<1> HIDE DEF V, N
<1>2. /\ 1 \in 1..N /\ \A k \in 1..(N - 1) : k + 1 \in 1..N
      /\ \A k \in 1..N : k = 1 \/ (k - 1 \in 1..(N - 1) /\ (k - 1) + 1 = k)
  BY <1>1
<1>3. \A k \in 1..N : k = 1 \/ (k - 1 \in 1..(N - 1) /\ V[k - 1] = W[k])
  BY <1>1, <1>2
<1>4. CarriedBy(W, n) <=> CarriedBy(V, n) \/ Carries(Head(W), n)
  BY <1>1, <1>2, <1>3 DEF CarriedBy
<1>5. ASSUME NEW v, LastIs(W, n, v), NEW k \in 1..(N - 1), Carries(V[k], n),
             \A j \in 1..(N - 1) : j > k => ~Carries(V[j], n)
      PROVE  V[k].value = v
  <2>1. k + 1 \in 1..N /\ W[k + 1] = V[k]
    BY <1>1, <1>2
  <2>2. ASSUME NEW j \in 1..N, j > k + 1 PROVE ~Carries(W[j], n)
    <3>1. j - 1 \in 1..(N - 1) /\ j - 1 > k /\ V[j - 1] = W[j]
      BY <1>1, <1>3, <2>2
    <3> QED
      BY <1>5, <3>1
  <2> QED
    BY <1>1, <1>5, <2>1, <2>2 DEF LastIs
<1>6. ASSUME NEW v, LastIs(W, n, v), Carries(Head(W), n), ~CarriedBy(V, n)
      PROVE  Head(W).value = v
  <2>1. ASSUME NEW j \in 1..N, j > 1 PROVE ~Carries(W[j], n)
    BY <1>1, <1>3, <1>6, <2>1 DEF CarriedBy
  <2> QED
    BY <1>1, <1>2, <1>6, <2>1 DEF LastIs
<1>7. \A v : LastIs(W, n, v) => LastIs(V, n, v)
  BY <1>1, <1>5 DEF LastIs
<1> QED
  BY <1>4, <1>6, <1>7 DEF V

\* To owe a marker changes nothing of this.
LEMMA OwingSame ==
  ASSUME NEW s, IsLine(s), NEW m, NEW n
  PROVE  /\ (\A k \in DOMAIN s : IsWaiting(s[k])) => (WaitsIn(Owing(s, m), n) <=> WaitsIn(s, n))
         /\ (\A k \in DOMAIN s : IsWritten(s[k])) =>
              /\ CarriedBy(Owing(s, m), n) <=> CarriedBy(s, n)
              /\ \A v : LastIs(s, n, v) => LastIs(Owing(s, m), n, v)
<1> DEFINE t == Owing(s, m)
           N == Len(s)
<1>1. /\ DOMAIN t = 1..N /\ DOMAIN s = 1..N /\ \A k \in 1..N : t[k].kind = s[k].kind
      /\ \A k \in 1..N : IsWaiting(s[k]) => (s[k].kind = "change" => t[k].name = s[k].name)
      /\ \A k \in 1..N : IsWritten(s[k]) =>
           (s[k].kind = "change" => t[k].code = s[k].code /\ t[k].value = s[k].value)
  BY OwingItems
<1> HIDE DEF t, N
<1>2. ASSUME \A k \in 1..N : IsWaiting(s[k]) PROVE WaitsIn(t, n) <=> WaitsIn(s, n)
  BY <1>1, <1>2 DEF WaitsIn
<1>3. ASSUME \A k \in 1..N : IsWritten(s[k])
      PROVE  /\ CarriedBy(t, n) <=> CarriedBy(s, n)
             /\ \A v : LastIs(s, n, v) => LastIs(t, n, v)
  <2>1. \A k \in 1..N : /\ Carries(t[k], n) <=> Carries(s[k], n)
                        /\ Carries(s[k], n) => t[k].value = s[k].value
    BY <1>1, <1>3 DEF Carries
  <2> QED
    BY <1>1, <2>1 DEF CarriedBy, LastIs
<1> QED
  BY <1>1, <1>2, <1>3 DEF t

-----------------------------------------------------------------------------
\* What a step may do to a connection: nothing gets on its way or stops being on it, and
\* what it will end in stays.
Quiet(l, n) ==
  (OnItsWay(l, n)' <=> OnItsWay(l, n)) /\ (Fresh(l, n) => Fresh(l, n)')

\* A step that is quiet on a connection of a client, and leaves the property as it is at
\* both its ends, keeps them in agreement.
LEMMA QuietAgrees ==
  ASSUME NEW c, NEW n, Quiet(<<c, Server>>, n), Quiet(<<Server, c>>, n), Agree(c, n),
         value'[c][n] = value[c][n], value'[Server][n] = value[Server][n],
         <<c, n>> \in clash => <<c, n>> \in clash'
  PROVE  Agree(c, n)'
<1>1. ASSUME <<c, n>> \notin clash'
      PROVE  /\ ~(OnItsWay(<<c, Server>>, n)' /\ OnItsWay(<<Server, c>>, n)')
             /\ Fresh(<<c, Server>>, n)' /\ Fresh(<<Server, c>>, n)'
             /\ ~OnItsWay(<<c, Server>>, n)' /\ ~OnItsWay(<<Server, c>>, n)'
                => value'[c][n] = value'[Server][n]
  BY <1>1 DEF Agree, Quiet
<1> QED
  BY <1>1 DEF Agree

\* What is quiet of a connection on which nothing changes.
LEMMA SameQuiet ==
  ASSUME NEW l, NEW n, pending'[l] = pending[l], wire'[l] = wire[l],
         value'[l[1]][n] = value[l[1]][n]
  PROVE  Quiet(l, n)
BY WayParts DEF Quiet, Fresh, OnItsWay

\* The connections of a client, and who is between.
LEMMA LinkEnds ==
  ASSUME NEW c \in Client
  PROVE  /\ <<c, Server>> \in Link /\ <<Server, c>> \in Link /\ c # Server
         /\ <<c, Server>>[1] = c /\ <<c, Server>>[2] = Server
         /\ <<Server, c>>[1] = Server /\ <<Server, c>>[2] = c
         /\ Back(<<c, Server>>) = <<Server, c>> /\ Back(<<Server, c>>) = <<c, Server>>
         /\ Between(<<c, Server>>) = c /\ Between(<<Server, c>>) = c
         /\ c \in Node /\ Server \in Node
<1>1. <<c, Server>> \in Link /\ <<Server, c>> \in Link /\ c # Server /\ Server \notin Client
  BY ReplicatorAssumption DEF Link
<1>2. /\ <<c, Server>>[1] = c /\ <<c, Server>>[2] = Server
      /\ <<Server, c>>[1] = Server /\ <<Server, c>>[2] = c
  OBVIOUS
<1>3. ASSUME NEW l, {l[1], l[2]} = {c, Server} PROVE Between(l) = c
  <2>1. \A d \in Client : d \in {c, Server} <=> d = c
    BY <1>1
  <2> QED
    BY <1>3, <2>1 DEF Between
<1>4. Between(<<c, Server>>) = c /\ Between(<<Server, c>>) = c
  BY <1>2, <1>3
<1> QED
  BY <1>1, <1>2, <1>4 DEF Back, Node

\* The links a change is raised on lead from where it is, but not to where it came from.
LEMMA RaisedLinks ==
  ASSUME NEW p, NEW from, NEW l \in Link
  PROVE  l \in AllBut(p, from) <=> l[1] = p /\ l[2] # from
<1>1. l = <<l[1], l[2]>> /\ l[1] \in Node /\ l[2] \in Node
  BY DEF Link, Node
<1> QED
  BY <1>1 DEF AllBut

\* What a raised change does to what waits, and to the history of clashes.
LEMMA RaisedFacts ==
  ASSUME Shapes, NEW p, NEW n, NEW from, Raised(p, n, from)
  PROVE  /\ \A l \in Link : l \notin AllBut(p, from) => pending'[l] = pending[l]
         /\ \A l \in Link : l \in AllBut(p, from) => WaitsIn(pending'[l], n)
         /\ \A l \in Link : \A m : m # n => (WaitsIn(pending'[l], m) <=> WaitsIn(pending[l], m))
         /\ \A c, m : m # n => (<<c, m>> \in clash' <=> <<c, m>> \in clash)
         /\ \A c : (\A l \in AllBut(p, from) : Between(l) # c)
                   => (<<c, n>> \in clash' <=> <<c, n>> \in clash)
         /\ \A l \in AllBut(p, from) : OnItsWay(Back(l), n) => <<Between(l), n>> \in clash'
<1> DEFINE L == AllBut(p, from)
<1>1. /\ pending' = [l \in Link |-> IF l \in L THEN FirstOrLast(l, n) ELSE pending[l]]
      /\ clash' = (clash \ {<<Between(l), n>> : l \in L})
                    \cup {<<Between(l), n>> : l \in {k \in L : OnItsWay(Back(k), n)}}
  BY DEF Raised
<1> HIDE DEF L
<1>2. \A l \in Link : IsSeq(pending[l])
  BY DEF Shapes, IsLine
<1>3. \A l \in Link : l \notin L => pending'[l] = pending[l]
  BY <1>1
<1>4. Change(n).kind = "change" /\ Change(n).name = n
  BY DEF Change
<1>5. ASSUME NEW l \in Link, l \in L, NEW m
      PROVE  WaitsIn(pending'[l], m) <=> WaitsIn(pending[l], m) \/ m = n
  <2>1. pending'[l] = Append(pending[l], Change(n)) \/ pending'[l] = <<Change(n)>> \o pending[l]
    BY <1>1, <1>5 DEF FirstOrLast
  <2> DEFINE x == Change(n)
             Q == pending'[l]
  <2>2. x.kind = "change" /\ x.name = n
    BY <1>4
  <2>3. Q = Append(pending[l], x) \/ Q = <<x>> \o pending[l]
    BY <2>1
  <2>4. IsSeq(pending[l])
    BY <1>2
  <2> HIDE DEF x, Q
  <2>5. WaitsIn(Q, m) <=> WaitsIn(pending[l], m) \/ m = n
    BY <2>2, <2>3, <2>4, WaitsAppend
  <2> QED
    BY <2>5 DEF Q
<1>6. \A l \in Link : l \in L => WaitsIn(pending'[l], n)
  BY <1>5
<1>7. \A l \in Link : \A m : m # n => (WaitsIn(pending'[l], m) <=> WaitsIn(pending[l], m))
  BY <1>3, <1>5
<1>8. \A c, m : m # n => (<<c, m>> \in clash' <=> <<c, m>> \in clash)
  BY <1>1
<1>9. \A c : (\A l \in L : Between(l) # c) => (<<c, n>> \in clash' <=> <<c, n>> \in clash)
  BY <1>1
<1>10. \A l \in L : OnItsWay(Back(l), n) => <<Between(l), n>> \in clash'
  BY <1>1
<1> QED
  BY <1>3, <1>6, <1>7, <1>8, <1>9, <1>10 DEF L

\* A connection of a client on one end of which a change is raised: it is the only one that
\* has news, or both changed at once.
LEMMA RaisedAgrees ==
  ASSUME Shapes, NEW p, NEW n, NEW from, Raised(p, n, from), NEW c \in Client,
         NEW l, l \in {<<c, Server>>, <<Server, c>>}, l \in AllBut(p, from),
         wire'[l] = wire[l], wire'[Back(l)] = wire[Back(l)]
  PROVE  Agree(c, n)'
<1>1. l \in Link /\ Back(l) \in Link /\ Between(l) = c /\ l[1] # Back(l)[1]
  <2>1. CASE l = <<c, Server>>
    BY <2>1, LinkEnds
  <2>2. CASE l = <<Server, c>>
    BY <2>2, LinkEnds
  <2> QED
    BY <2>1, <2>2
<1>2. l[1] = p
  BY <1>1, RaisedLinks
<1>3. Back(l) \notin AllBut(p, from)
  BY <1>1, <1>2, RaisedLinks
<1>4. pending'[Back(l)] = pending[Back(l)]
  BY <1>1, <1>3, RaisedFacts
<1>5. WaitsIn(pending'[l], n)
  BY <1>1, RaisedFacts
<1>6. OnItsWay(Back(l), n) => <<c, n>> \in clash'
  BY <1>1, RaisedFacts
<1>7. OnItsWay(Back(l), n)' <=> OnItsWay(Back(l), n)
  BY <1>4 DEF OnItsWay
<1>8. OnItsWay(l, n)' /\ Fresh(l, n)'
  BY <1>5 DEF OnItsWay, WaitsIn, Fresh
<1>9. ASSUME ~OnItsWay(Back(l), n)' PROVE Fresh(Back(l), n)'
  <2>1. ~CarriedBy(wire'[Back(l)], n)
    BY <1>9 DEF OnItsWay, CarriedBy, Carries
  <2>2. \A x : LastIs(wire'[Back(l)], n, x)
    BY <2>1, NoneLast
  <2> QED
    BY <2>2 DEF Fresh
<1>10. \/ l = <<c, Server>> /\ Back(l) = <<Server, c>>
       \/ l = <<Server, c>> /\ Back(l) = <<c, Server>>
  BY LinkEnds
<1>11. ASSUME <<c, n>> \notin clash'
       PROVE  /\ ~(OnItsWay(<<c, Server>>, n)' /\ OnItsWay(<<Server, c>>, n)')
              /\ Fresh(<<c, Server>>, n)' /\ Fresh(<<Server, c>>, n)'
              /\ OnItsWay(<<c, Server>>, n)' \/ OnItsWay(<<Server, c>>, n)'
  BY <1>6, <1>7, <1>8, <1>9, <1>10, <1>11
<1> QED
  BY <1>11 DEF Agree

\* What waits stays well typed when a change of a property is raised.
LEMMA RaisedTyped ==
  ASSUME Shapes, Typed, NEW p, NEW n \in Property, NEW from, Raised(p, n, from)
  PROVE  \A l \in Link : \A k \in DOMAIN pending'[l] : IsWaiting(pending'[l][k])
<1> SUFFICES ASSUME NEW l \in Link
             PROVE  \A k \in DOMAIN pending'[l] : IsWaiting(pending'[l][k])
  OBVIOUS
<1> DEFINE P == pending[l]
           Q == pending'[l]
           x == Change(n)
<1>1. IsSeq(P) /\ \A k \in DOMAIN P : IsWaiting(P[k])
  BY DEF Shapes, IsLine, Typed
<1>2. Q = P \/ Q = Append(P, x) \/ Q = <<x>> \o P
  BY DEF Raised, FirstOrLast
<1>3. IsWaiting(x)
  BY DEF IsWaiting, Change
<1> HIDE DEF P, Q, x
<1>4. \A k \in DOMAIN Q : Q[k] = x \/ \E j \in DOMAIN P : Q[k] = P[j]
  <2>1. CASE Q = P
    BY <2>1
  <2>2. CASE Q = Append(P, x)
    <3>1. /\ Len(P) \in Nat /\ DOMAIN P = 1..Len(P) /\ DOMAIN Q = 1..(Len(P) + 1)
          /\ Q[Len(P) + 1] = x /\ \A k \in 1..Len(P) : Q[k] = P[k]
      BY <1>1, <2>2, SeqAppend
    <3>2. \A k \in 1..(Len(P) + 1) : k \in 1..Len(P) \/ k = Len(P) + 1
      BY <3>1
    <3> QED
      BY <3>1, <3>2
  <2>3. CASE Q = <<x>> \o P
    <3> DEFINE h == <<x>>
    <3>1. h \in Seq({x}) /\ Len(h) = 1 /\ h[1] = x
      OBVIOUS
    <3> HIDE DEF h
    <3>2. IsSeq(h)
      BY <3>1, SeqIsSeq
    <3>3. /\ Len(P) \in Nat /\ DOMAIN P = 1..Len(P) /\ DOMAIN (h \o P) = 1..(Len(h) + Len(P))
          /\ \A i \in 1..Len(h) : (h \o P)[i] = h[i]
          /\ \A i \in 1..Len(P) : (h \o P)[Len(h) + i] = P[i]
      BY <1>1, <3>2, SeqConcat
    <3>4. 1 \in 1..1 /\ \A k \in 1..(1 + Len(P)) : k = 1 \/ (k - 1 \in 1..Len(P) /\ 1 + (k - 1) = k)
      BY <3>3
    <3>5. Q = h \o P
      BY <2>3 DEF h
    <3> QED
      BY <3>1, <3>3, <3>4, <3>5
  <2> QED
    BY <1>2, <2>1, <2>2, <2>3
<1>5. \A k \in DOMAIN Q : IsWaiting(Q[k])
  BY <1>1, <1>3, <1>4
<1> QED
  BY <1>5 DEF Q

\* A property is set.
LEMMA SetValueAgrees ==
  ASSUME Shapes, Typed, AllAgree, NEW p \in Node, NEW n \in Property, NEW v \in Value,
         SetValue(p, n, v)
  PROVE  Typed' /\ AllAgree'
<1>1. /\ value' = [value EXCEPT ![p][n] = v] /\ Raised(p, n, p) /\ wire' = wire
  BY DEF SetValue
<1>2. value \in [Node -> [Property -> Value]]
  BY DEF Typed
<1>3. Typed'
  <2>1. value' \in [Node -> [Property -> Value]]
    BY <1>1, <1>2
  <2> QED
    BY <1>1, <2>1, RaisedTyped DEF Typed
<1>4. ASSUME NEW q \in Node, NEW m \in Property, q # p \/ m # n PROVE value'[q][m] = value[q][m]
  BY <1>1, <1>2, <1>4
<1>5. ASSUME NEW c \in Client, NEW m \in Property PROVE Agree(c, m)'
  <2> DEFINE U == <<c, Server>>
             D == <<Server, c>>
  <2>1. /\ U \in Link /\ D \in Link /\ c # Server /\ U[1] = c /\ U[2] = Server
        /\ D[1] = Server /\ D[2] = c /\ c \in Node /\ Server \in Node
    BY LinkEnds
  <2>2. Agree(c, m)
    BY DEF AllAgree
  <2>3. ASSUME m # n \/ (p # c /\ p # Server) PROVE Agree(c, m)'
    <3>1. value'[c][m] = value[c][m] /\ value'[Server][m] = value[Server][m]
      BY <1>4, <2>1, <2>3
    <3>2. ASSUME NEW l \in {U, D} PROVE Quiet(l, m)
      <4>1. l \in Link /\ value'[l[1]][m] = value[l[1]][m] /\ (l[1] = c \/ l[1] = Server)
        BY <2>1, <3>1
      <4>2. WaitsIn(pending'[l], m) <=> WaitsIn(pending[l], m)
        <5>1. CASE m # n
          BY <1>1, <4>1, <5>1, RaisedFacts
        <5>2. CASE p # c /\ p # Server
          <6>1. l \notin AllBut(p, p)
            BY <4>1, <5>2, RaisedLinks
          <6> QED
            BY <1>1, <4>1, <6>1, RaisedFacts
        <5> QED
          BY <2>3, <5>1, <5>2
      <4>3. OnItsWay(l, m)' <=> WaitsIn(pending'[l], m) \/ CarriedBy(wire'[l], m)
        BY DEF OnItsWay, WaitsIn, CarriedBy, Carries
      <4> QED
        BY <1>1, <4>1, <4>2, <4>3, WayParts DEF Quiet, Fresh
    <3>3. <<c, m>> \in clash => <<c, m>> \in clash'
      <4>1. CASE m # n
        BY <1>1, <4>1, RaisedFacts
      <4>2. CASE p # c /\ p # Server
        <5>1. ASSUME NEW l \in AllBut(p, p) PROVE Between(l) # c
          <6>1. l \in Link /\ l[1] = p
            <7>1. l \in Link
              BY DEF AllBut
            <7> QED
              BY <7>1, RaisedLinks
          <6>2. PICK d \in Client : l = <<d, Server>> \/ l = <<Server, d>>
            BY <6>1 DEF Link
          <6>3. Between(l) = d /\ (l[1] = d \/ l[1] = Server)
            BY <6>2, LinkEnds
          <6> QED
            BY <4>2, <6>1, <6>3
        <5> QED
          BY <1>1, <5>1, RaisedFacts
      <4> QED
        BY <2>3, <4>1, <4>2
    <3>4. Quiet(U, m) /\ Quiet(D, m)
      BY <3>2
    <3> QED
      BY <2>2, <3>1, <3>3, <3>4, QuietAgrees
  <2>4. ASSUME m = n, NEW l \in {U, D}, l[1] = p PROVE Agree(c, m)'
    <3>1. l \in Link /\ l[2] # p
      BY <2>1, <2>4
    <3>2. l \in AllBut(p, p)
      BY <2>4, <3>1, RaisedLinks
    <3> QED
      BY <1>1, <2>4, <3>2, RaisedAgrees
  <2> QED
    BY <2>1, <2>3, <2>4
<1> QED
  BY <1>3, <1>5 DEF AllAgree

\* An item is written: it was fresh while it waited, and has the value of now.
LEMMA SendAgrees ==
  ASSUME Shapes, Typed, AllAgree, NEW l \in Link, Send(l)
  PROVE  Typed' /\ AllAgree'
<1> DEFINE i == Head(pending[l])
           x == Written(l, i)
           P == pending[l]
           W == wire[l]
<1>1. /\ wire' = [wire EXCEPT ![l] = Append(W, x)] /\ pending' = [pending EXCEPT ![l] = Tail(P)]
      /\ value' = value /\ clash' = clash /\ P # <<>>
  BY DEF Send
<1>2. DOMAIN wire = Link /\ DOMAIN pending = Link /\ IsSeq(P) /\ IsSeq(W) /\ IsLine(P)
  BY DEF Shapes, IsLine
<1>3. /\ wire'[l] = Append(W, x) /\ pending'[l] = Tail(P)
      /\ \A k \in Link : k # l => wire'[k] = wire[k] /\ pending'[k] = pending[k]
  BY <1>1, <1>2
<1>4. IsItem(i) /\ IsWaiting(i)
  <2>1. i = P[1] /\ 1 \in DOMAIN P
    BY <1>1, <1>2, SeqTail
  <2> QED
    BY <1>2, <2>1 DEF Typed, IsLine
<1>5. l[1] \in Node /\ value \in [Node -> [Property -> Value]]
  BY DEF Link, Node, Typed
<1>6. x.kind = i.kind
  BY <1>4, WrittenItem
<1>7. ASSUME i.kind = "change"
      PROVE  /\ i.name \in Property /\ IsWritten(x) /\ x.code.means = i.name
             /\ x.value = value[l[1]][i.name]
  <2> DEFINE c == Names!Encoded(NamesOf(l), i.name)
             V == value[l[1]][i.name]
  <2>1. i.name \in Property
    BY <1>4, <1>7 DEF IsWaiting
  <2>2. V \in Value
    BY <1>5, <2>1
  <2>3. c.means = i.name
    BY DEF Names!Encoded
  <2>4. x = [kind |-> "change", code |-> c, value |-> V, owes |-> i.owes]
    BY <1>7 DEF Written
  <2> HIDE DEF c, x, i
  <2>5. x.code = c /\ x.value = V /\ x.owes = i.owes /\ x.kind = "change"
    BY <2>4
  <2> HIDE DEF V
  <2>6. IsWritten(x)
    BY <2>1, <2>2, <2>3, <2>4, <2>5 DEF IsWritten
  <2> QED
    BY <2>1, <2>3, <2>5, <2>6 DEF V
<1>8. IsWritten(x)
  BY <1>6, <1>7 DEF IsWritten
<1> HIDE DEF x, i
<1>9. Typed'
  <2>1. \A k \in DOMAIN Append(W, x) : IsWritten(Append(W, x)[k])
    <3>1. /\ Len(W) \in Nat /\ DOMAIN W = 1..Len(W) /\ DOMAIN Append(W, x) = 1..(Len(W) + 1)
          /\ Append(W, x)[Len(W) + 1] = x /\ \A k \in 1..Len(W) : Append(W, x)[k] = W[k]
      BY <1>2, SeqAppend
    <3>2. \A k \in 1..(Len(W) + 1) : k \in 1..Len(W) \/ k = Len(W) + 1
      BY <3>1
    <3>3. \A k \in DOMAIN W : IsWritten(W[k])
      BY DEF Typed
    <3> QED
      BY <1>8, <3>1, <3>2, <3>3
  <2>2. \A k \in DOMAIN Tail(P) : IsWaiting(Tail(P)[k])
    <3>1. /\ Len(P) \in Nat \ {0} /\ DOMAIN P = 1..Len(P) /\ DOMAIN Tail(P) = 1..(Len(P) - 1)
          /\ \A k \in 1..(Len(P) - 1) : Tail(P)[k] = P[k + 1]
      BY <1>1, <1>2, SeqTail
    <3>2. \A k \in 1..(Len(P) - 1) : k + 1 \in 1..Len(P)
      BY <3>1
    <3>3. \A k \in DOMAIN P : IsWaiting(P[k])
      BY DEF Typed
    <3> QED
      BY <3>1, <3>2, <3>3
  <2>3. ASSUME NEW k \in Link
        PROVE  /\ \A j \in DOMAIN pending'[k] : IsWaiting(pending'[k][j])
               /\ \A j \in DOMAIN wire'[k] : IsWritten(wire'[k][j])
    <3>1. CASE k = l
      BY <1>3, <2>1, <2>2, <3>1
    <3>2. CASE k # l
      BY <1>3, <3>2 DEF Typed
    <3> QED
      BY <3>1, <3>2
  <2> QED
    BY <1>1, <1>5, <2>3 DEF Typed
<1>10. ASSUME NEW n \in Property, NEW k \in Link PROVE Quiet(k, n)
  <2>1. CASE k # l
    BY <1>1, <1>3, <2>1, SameQuiet
  <2>2. CASE k = l
    <3>1. WaitsIn(P, n) <=> WaitsIn(Tail(P), n) \/ (i.kind = "change" /\ i.name = n)
      BY <1>1, <1>2, WaitsTail DEF i
    <3>2. Carries(x, n) <=> i.kind = "change" /\ i.name = n
      BY <1>6, <1>7 DEF Carries
    <3>3. /\ CarriedBy(Append(W, x), n) <=> CarriedBy(W, n) \/ Carries(x, n)
          /\ \A v : (IF Carries(x, n) THEN x.value = v ELSE LastIs(W, n, v))
                   => LastIs(Append(W, x), n, v)
      BY <1>2, CarriedAppend
    <3>4. OnItsWay(l, n)' <=> WaitsIn(Tail(P), n) \/ CarriedBy(Append(W, x), n)
      BY <1>3 DEF OnItsWay, WaitsIn, CarriedBy, Carries
    <3>5. OnItsWay(l, n)' <=> OnItsWay(l, n)
      BY <3>1, <3>2, <3>3, <3>4, WayParts
    <3>6. ASSUME Fresh(l, n) PROVE Fresh(l, n)'
      <4>1. Carries(x, n) => x.value = value[l[1]][n]
        BY <1>7, <3>2
      <4>2. WaitsIn(Tail(P), n) \/ LastIs(Append(W, x), n, value[l[1]][n])
        BY <3>1, <3>2, <3>3, <3>6, <4>1 DEF Fresh
      <4> QED
        BY <1>1, <1>3, <4>2 DEF Fresh
    <3> QED
      BY <2>2, <3>5, <3>6 DEF Quiet
  <2> QED
    BY <2>1, <2>2
<1>11. ASSUME NEW c \in Client, NEW n \in Property PROVE Agree(c, n)'
  BY <1>1, <1>10, LinkEnds, QuietAgrees DEF AllAgree
<1> QED
  BY <1>9, <1>11 DEF AllAgree

\* What is written stays well typed when the first item on a wire is read.
LEMMA ReadTyped ==
  ASSUME Shapes, Typed, NEW l \in Link, wire[l] # <<>>, wire' = [wire EXCEPT ![l] = Tail(wire[l])]
  PROVE  \A k \in Link : \A j \in DOMAIN wire'[k] : IsWritten(wire'[k][j])
<1> DEFINE W == wire[l]
<1>1. DOMAIN wire = Link /\ IsSeq(W)
  BY DEF Shapes, IsLine
<1>2. /\ Len(W) \in Nat \ {0} /\ DOMAIN W = 1..Len(W) /\ DOMAIN Tail(W) = 1..(Len(W) - 1)
      /\ \A k \in 1..(Len(W) - 1) : Tail(W)[k] = W[k + 1]
  BY <1>1, SeqTail
<1>3. \A k \in 1..(Len(W) - 1) : k + 1 \in 1..Len(W)
  BY <1>2
<1>4. \A k \in DOMAIN W : IsWritten(W[k])
  BY DEF Typed
<1>5. \A k \in DOMAIN Tail(W) : IsWritten(Tail(W)[k])
  BY <1>2, <1>3, <1>4
<1>6. wire'[l] = Tail(W) /\ \A k \in Link : k # l => wire'[k] = wire[k]
  BY <1>1
<1> QED
  BY <1>5, <1>6 DEF Typed

\* A change of a property comes, and is raised on the other connections if it is one: the
\* connection it came on is in agreement when it was the last, the others as when it is set.
LEMMA ReceiveChangeAgrees ==
  ASSUME Shapes, Typed, AllAgree, Names!Understood, NEW l \in Link, ReceiveChange(l)
  PROVE  Typed' /\ AllAgree'
<1> DEFINE i == Head(wire[l])
           p == l[2]
           o == l[1]
           W == wire[l]
<1>0. PICK n, v : n = i.code.means /\ v = i.value
  OBVIOUS
<1>1. /\ wire' = [wire EXCEPT ![l] = Tail(W)] /\ W # <<>> /\ i.kind = "change"
      /\ Names!Decoded(heard[l], i.code) = n
  BY <1>0, ReceiveChangeStreams DEF ReceiveChange
<1>2. /\ value' = [value EXCEPT ![p][n] = v]
      /\ IF value[p][n] = v THEN UNCHANGED <<pending, clash>> ELSE Raised(p, n, o)
  BY <1>0, <1>1 DEF ReceiveChange
<1>3. IsSeq(W) /\ DOMAIN wire = Link
  BY DEF Shapes, IsLine
<1>4. IsWritten(i)
  <2>1. i = W[1] /\ 1 \in DOMAIN W
    BY <1>1, <1>3, SeqTail
  <2> QED
    BY <2>1 DEF Typed
<1>5. n \in Property /\ v \in Value
  BY <1>0, <1>1, <1>4 DEF IsWritten
<1>6. /\ p \in Node /\ o \in Node /\ p # o
      /\ \E c \in Client : l = <<c, Server>> \/ l = <<Server, c>>
  BY ReplicatorAssumption DEF Link, Node
<1>7. value \in [Node -> [Property -> Value]]
  BY DEF Typed
<1>8. \A k \in Link : k # l => wire'[k] = wire[k]
  BY <1>1, <1>3
<1>9. wire'[l] = Tail(W)
  BY <1>1, <1>3
<1>10. Carries(i, n) /\ \A m : m # n => ~Carries(i, m)
  BY <1>0, <1>1 DEF Carries
<1> HIDE DEF p, o
<1>11. Typed'
  <2>1. value' \in [Node -> [Property -> Value]]
    BY <1>2, <1>5, <1>6, <1>7
  <2>2. \A k \in Link : \A j \in DOMAIN pending'[k] : IsWaiting(pending'[k][j])
    <3>1. CASE value[p][n] = v
      BY <1>2, <3>1 DEF Typed
    <3>2. CASE value[p][n] # v
      BY <1>2, <1>5, <3>2, RaisedTyped
    <3> QED
      BY <3>1, <3>2
  <2>3. \A k \in Link : \A j \in DOMAIN wire'[k] : IsWritten(wire'[k][j])
    BY <1>1, ReadTyped
  <2> QED
    BY <2>1, <2>2, <2>3 DEF Typed
<1>12. value'[p][n] = v
       /\ \A q \in Node, m \in Property : q # p \/ m # n => value'[q][m] = value[q][m]
  BY <1>2, <1>5, <1>6, <1>7
<1>13. /\ \A k \in Link : k[1] # p \/ k[2] = o => pending'[k] = pending[k]
       /\ \A k \in Link : \A m : m # n => (WaitsIn(pending'[k], m) <=> WaitsIn(pending[k], m))
       /\ \A c, m : m # n => (<<c, m>> \in clash' <=> <<c, m>> \in clash)
  <2>1. CASE value[p][n] = v
    BY <1>2, <2>1
  <2>2. CASE value[p][n] # v
    BY <1>2, <2>2, RaisedFacts, RaisedLinks
  <2> QED
    BY <2>1, <2>2
<1>14. ASSUME NEW c \in Client,
              \A k \in Link : k[1] = p /\ k[2] # o => Between(k) # c
       PROVE  <<c, n>> \in clash' <=> <<c, n>> \in clash
  <2>1. CASE value[p][n] = v
    BY <1>2, <2>1
  <2>2. CASE value[p][n] # v
    <3>1. ASSUME NEW k \in AllBut(p, o) PROVE Between(k) # c
      <4>1. k \in Link
        BY DEF AllBut
      <4> QED
        BY <1>14, <4>1, RaisedLinks
    <3> QED
      BY <1>2, <2>2, <3>1, RaisedFacts
  <2> QED
    BY <2>1, <2>2
<1>15. ASSUME NEW m \in Property, m # n, NEW k \in Link PROVE Quiet(k, m)
  <2>1. k[1] \in Node
    BY DEF Link, Node
  <2>2. value'[k[1]][m] = value[k[1]][m]
    BY <1>12, <1>15, <2>1
  <2>3. WaitsIn(pending'[k], m) <=> WaitsIn(pending[k], m)
    BY <1>13, <1>15
  <2>4. /\ CarriedBy(wire'[k], m) <=> CarriedBy(wire[k], m)
        /\ \A x : LastIs(wire[k], m, x) => LastIs(wire'[k], m, x)
    <3>1. CASE k # l
      BY <1>8, <3>1
    <3>2. CASE k = l
      <4>1. /\ CarriedBy(W, m) <=> CarriedBy(Tail(W), m) \/ Carries(i, m)
            /\ \A x : LastIs(W, m, x) => LastIs(Tail(W), m, x)
        BY <1>1, <1>3, CarriedTail
      <4> QED
        BY <1>9, <1>10, <1>15, <3>2, <4>1
    <3> QED
      BY <3>1, <3>2
  <2>5. OnItsWay(k, m)' <=> WaitsIn(pending'[k], m) \/ CarriedBy(wire'[k], m)
    BY DEF OnItsWay, WaitsIn, CarriedBy, Carries
  <2> QED
    BY <2>2, <2>3, <2>4, <2>5, WayParts DEF Quiet, Fresh
<1>16. ASSUME NEW k \in Link, k # l, k[1] # p, value'[k[1]][n] = value[k[1]][n] PROVE Quiet(k, n)
  BY <1>8, <1>13, <1>16, SameQuiet
<1>17. ASSUME NEW c \in Client, NEW m \in Property PROVE Agree(c, m)'
  <2> DEFINE U == <<c, Server>>
             D == <<Server, c>>
  <2>1. /\ U \in Link /\ D \in Link /\ c # Server /\ U[1] = c /\ U[2] = Server
        /\ D[1] = Server /\ D[2] = c /\ c \in Node /\ Server \in Node
        /\ Back(U) = D /\ Back(D) = U /\ U # D
    BY LinkEnds
  <2>2. Agree(c, m)
    BY DEF AllAgree
  <2> HIDE DEF U, D
  <2>3. CASE m # n
    <3>1. Quiet(U, m) /\ Quiet(D, m)
      BY <1>15, <2>1, <2>3
    <3>2. value'[c][m] = value[c][m] /\ value'[Server][m] = value[Server][m]
      BY <1>12, <2>1, <2>3
    <3>3. <<c, m>> \in clash => <<c, m>> \in clash'
      BY <1>13, <2>3
    <3> QED
      BY <2>2, <3>1, <3>2, <3>3, QuietAgrees DEF U, D
  <2>4. CASE m = n /\ l \in {U, D}
    <3> DEFINE b == Back(l)
    <3>1. /\ b \in Link /\ b # l /\ b[1] = p /\ b[2] = o /\ {l, b} = {U, D}
          /\ {p, o} = {c, Server}
      BY <2>1, <2>4 DEF p, o
    <3> HIDE DEF b
    <3>2. pending'[b] = pending[b] /\ wire'[b] = wire[b] /\ pending'[l] = pending[l]
      BY <1>6, <1>8, <1>13, <3>1 DEF o
    <3>3. <<c, n>> \in clash' <=> <<c, n>> \in clash
      <4>1. ASSUME NEW k \in Link, k[1] = p, k[2] # o PROVE Between(k) # c
        <5>1. PICK d \in Client : k = <<d, Server>> \/ k = <<Server, d>>
          BY DEF Link
        <5>2. Between(k) = d /\ d # Server /\ ((k[1] = d /\ k[2] = Server) \/ (k[1] = Server /\ k[2] = d))
          BY <5>1, LinkEnds
        <5> QED
          BY <1>6, <3>1, <4>1, <5>2
      <4> QED
        BY <1>14, <4>1
    <3>4. /\ CarriedBy(W, n) <=> CarriedBy(Tail(W), n) \/ Carries(i, n)
          /\ \A x : LastIs(W, n, x) =>
               /\ LastIs(Tail(W), n, x)
               /\ Carries(i, n) /\ ~CarriedBy(Tail(W), n) => v = x
      BY <1>0, <1>1, <1>3, CarriedTail
    <3>5. OnItsWay(l, n)
      BY <1>10, <3>4, WayParts
    <3>6. ASSUME <<c, n>> \notin clash'
          PROVE  /\ ~(OnItsWay(U, n)' /\ OnItsWay(D, n)') /\ Fresh(U, n)' /\ Fresh(D, n)'
                 /\ ~OnItsWay(U, n)' /\ ~OnItsWay(D, n)' => value'[c][n] = value'[Server][n]
      <4>1. ~(OnItsWay(U, n) /\ OnItsWay(D, n)) /\ Fresh(U, n) /\ Fresh(D, n)
        BY <2>2, <2>4, <3>3, <3>6 DEF Agree, U, D
      <4>2. ~OnItsWay(b, n) /\ Fresh(l, n)
        BY <3>1, <3>5, <4>1
      <4>3. ~OnItsWay(b, n)'
        BY <3>2, <4>2 DEF OnItsWay
      <4>4. Fresh(b, n)'
        <5>1. ~CarriedBy(wire'[b], n)
          BY <4>3 DEF OnItsWay, CarriedBy, Carries
        <5> QED
          BY <5>1, NoneLast DEF Fresh
      <4>5. value'[o][n] = value[o][n]
        BY <1>5, <1>6, <1>12
      <4>6. WaitsIn(pending[l], n) \/ LastIs(W, n, value[o][n])
        BY <4>2 DEF Fresh, o
      <4>7. WaitsIn(pending'[l], n) \/ LastIs(wire'[l], n, value'[o][n])
        BY <1>9, <3>2, <3>4, <4>5, <4>6
      <4>8. Fresh(l, n)'
        BY <4>7 DEF Fresh, o
      <4>9. OnItsWay(l, n)' <=> WaitsIn(pending'[l], n) \/ CarriedBy(wire'[l], n)
        BY DEF OnItsWay, WaitsIn, CarriedBy, Carries
      <4>10. ~OnItsWay(l, n)' => value'[p][n] = value'[o][n]
        BY <1>9, <1>10, <1>12, <3>2, <3>4, <4>5, <4>6, <4>9
      <4>11. \/ l = U /\ b = D
             \/ l = D /\ b = U
        BY <2>1, <2>4, <3>1
      <4>12. ~(OnItsWay(U, n)' /\ OnItsWay(D, n)') /\ Fresh(U, n)' /\ Fresh(D, n)'
        BY <4>3, <4>4, <4>8, <4>11
      <4>13. ~OnItsWay(U, n)' /\ ~OnItsWay(D, n)' => value'[p][n] = value'[o][n]
        BY <4>10, <4>11
      <4> QED
        BY <1>6, <3>1, <4>12, <4>13
    <3> QED
      BY <2>4, <3>6 DEF Agree, U, D
  <2>5. CASE m = n /\ l \notin {U, D}
    <3>1. CASE p # Server
      <4>1. o = Server /\ p # c
        BY <1>6, <2>5, <3>1, LinkEnds DEF o, p, U, D
      <4>2. value'[c][n] = value[c][n] /\ value'[Server][n] = value[Server][n]
        BY <1>5, <1>12, <2>1, <3>1, <4>1
      <4>3. Quiet(U, n) /\ Quiet(D, n)
        BY <1>16, <2>1, <2>5, <3>1, <4>1, <4>2
      <4>4. <<c, n>> \in clash' <=> <<c, n>> \in clash
        <5>1. ASSUME NEW k \in Link, k[1] = p, k[2] # o PROVE Between(k) # c
          BY <1>6, <3>1, <4>1, <5>1, LinkEnds DEF Link
        <5> QED
          BY <1>14, <5>1
      <4> QED
        BY <2>2, <2>5, <4>2, <4>3, <4>4, QuietAgrees DEF U, D
    <3>2. CASE p = Server /\ value[p][n] = v
      <4>1. value' = value
        <5>1. \A q \in Node, a \in Property : value'[q][a] = value[q][a]
          BY <1>12, <3>2
        <5>2. value' \in [Node -> [Property -> Value]]
          BY <1>11 DEF Typed
        <5> QED
          BY <1>7, <5>1, <5>2
      <4>2. pending' = pending /\ clash' = clash
        BY <1>2, <3>2
      <4>3. Quiet(U, n) /\ Quiet(D, n)
        BY <1>8, <2>1, <2>5, <4>1, <4>2, SameQuiet
      <4> QED
        BY <2>2, <2>5, <4>1, <4>2, <4>3, QuietAgrees DEF U, D
    <3>3. CASE p = Server /\ value[p][n] # v
      <4>1. Raised(p, n, o)
        BY <1>2, <3>3
      <4>2. o # c
        BY <1>6, <2>5, <3>3, LinkEnds DEF o, p, U, D
      <4>3. D \in AllBut(p, o)
        BY <2>1, <3>3, <4>2, RaisedLinks
      <4>4. wire'[D] = wire[D] /\ wire'[Back(D)] = wire[Back(D)]
        BY <1>8, <2>1, <2>5
      <4>5. D \in {<<c, Server>>, <<Server, c>>}
        BY DEF D
      <4> QED
        BY <2>5, <4>1, <4>3, <4>4, <4>5, RaisedAgrees
    <3> QED
      BY <3>1, <3>2, <3>3
  <2> QED
    BY <2>3, <2>4, <2>5
<1> QED
  BY <1>11, <1>17 DEF AllAgree

\* A marker is read.
LEMMA ReceiveMarkerAgrees ==
  ASSUME Shapes, Typed, AllAgree, NEW l \in Link, ReceiveMarker(l)
  PROVE  Typed' /\ AllAgree'
<1> DEFINE W == wire[l]
<1>1. /\ wire' = [wire EXCEPT ![l] = Tail(W)] /\ W # <<>> /\ Head(W).kind = "marker"
      /\ value' = value /\ pending' = pending /\ clash' = clash
  BY DEF ReceiveMarker
<1>2. IsSeq(W) /\ DOMAIN wire = Link
  BY DEF Shapes, IsLine
<1>3. Typed'
  <2>1. \A k \in Link : \A j \in DOMAIN wire'[k] : IsWritten(wire'[k][j])
    BY <1>1, ReadTyped
  <2> QED
    BY <1>1, <2>1 DEF Typed
<1>4. ASSUME NEW n \in Property, NEW k \in Link PROVE Quiet(k, n)
  <2>1. CASE k # l
    BY <1>1, <1>2, <2>1, SameQuiet
  <2>2. CASE k = l
    <3>1. /\ CarriedBy(W, n) <=> CarriedBy(Tail(W), n) \/ Carries(Head(W), n)
          /\ \A x : LastIs(W, n, x) => LastIs(Tail(W), n, x)
      BY <1>1, <1>2, CarriedTail
    <3>2. ~Carries(Head(W), n)
      BY <1>1 DEF Carries
    <3>3. OnItsWay(l, n)' <=> WaitsIn(pending'[l], n) \/ CarriedBy(wire'[l], n)
      BY DEF OnItsWay, WaitsIn, CarriedBy, Carries
    <3>4. wire'[l] = Tail(W)
      BY <1>1, <1>2
    <3> QED
      BY <1>1, <2>2, <3>1, <3>2, <3>3, <3>4, WayParts DEF Quiet, Fresh
  <2> QED
    BY <2>1, <2>2
<1>5. ASSUME NEW c \in Client, NEW n \in Property PROVE Agree(c, n)'
  BY <1>1, <1>4, LinkEnds, QuietAgrees DEF AllAgree
<1> QED
  BY <1>3, <1>5 DEF AllAgree

\* A marker is asked for: what is on its way owes it, and is the same otherwise.
LEMMA SendMarkerAgrees ==
  ASSUME Shapes, Typed, AllAgree, NEW d \in Client, NEW m, SendMarker(d, m)
  PROVE  Typed' /\ AllAgree'
<1> DEFINE l == ToClient(d)
<1>1. /\ wire' = [wire EXCEPT ![l] = Owing(wire[l], m)] /\ value' = value /\ clash' = clash
      /\ pending' = [pending EXCEPT ![l] = Owing(pending[l], m)]
  BY DEF SendMarker, ToClient
<1>2. l \in Link /\ DOMAIN wire = Link /\ DOMAIN pending = Link
  BY LinkFacts DEF Shapes
<1> HIDE DEF l
<1>3. /\ IsLine(pending[l]) /\ \A k \in DOMAIN pending[l] : IsWaiting(pending[l][k])
      /\ IsLine(wire[l]) /\ \A k \in DOMAIN wire[l] : IsWritten(wire[l][k])
  BY <1>2 DEF Shapes, Typed
<1>4. /\ wire'[l] = Owing(wire[l], m) /\ pending'[l] = Owing(pending[l], m)
      /\ \A k \in Link : k # l => wire'[k] = wire[k] /\ pending'[k] = pending[k]
  BY <1>1, <1>2
<1>5. Typed'
  <2>1. \A k \in DOMAIN Owing(pending[l], m) : IsWaiting(Owing(pending[l], m)[k])
    BY <1>3, OwingItems
  <2>2. \A k \in DOMAIN Owing(wire[l], m) : IsWritten(Owing(wire[l], m)[k])
    BY <1>3, OwingItems
  <2>3. ASSUME NEW k \in Link
        PROVE  /\ \A j \in DOMAIN pending'[k] : IsWaiting(pending'[k][j])
               /\ \A j \in DOMAIN wire'[k] : IsWritten(wire'[k][j])
    <3>1. CASE k = l
      BY <1>4, <2>1, <2>2, <3>1
    <3>2. CASE k # l
      BY <1>4, <3>2 DEF Typed
    <3> QED
      BY <3>1, <3>2
  <2> QED
    BY <1>1, <2>3 DEF Typed
<1>6. ASSUME NEW n \in Property, NEW k \in Link PROVE Quiet(k, n)
  <2>1. CASE k # l
    BY <1>1, <1>4, <2>1, SameQuiet
  <2>2. CASE k = l
    <3>1. WaitsIn(Owing(pending[l], m), n) <=> WaitsIn(pending[l], n)
      BY <1>3, OwingSame
    <3>2. /\ CarriedBy(Owing(wire[l], m), n) <=> CarriedBy(wire[l], n)
          /\ \A x : LastIs(wire[l], n, x) => LastIs(Owing(wire[l], m), n, x)
      BY <1>3, OwingSame
    <3>3. OnItsWay(l, n)' <=> WaitsIn(pending'[l], n) \/ CarriedBy(wire'[l], n)
      BY DEF OnItsWay, WaitsIn, CarriedBy, Carries
    <3> QED
      BY <1>1, <1>4, <2>2, <3>1, <3>2, <3>3, WayParts DEF Quiet, Fresh
  <2> QED
    BY <2>1, <2>2
<1>7. ASSUME NEW c \in Client, NEW n \in Property PROVE Agree(c, n)'
  BY <1>1, <1>6, LinkEnds, QuietAgrees DEF AllAgree
<1> QED
  BY <1>5, <1>7 DEF AllAgree

\* The server hears a request, and a marker waits.
LEMMA HearRequestAgrees ==
  ASSUME Shapes, Typed, AllAgree, NEW d \in Client, NEW m, HearRequest(d, m)
  PROVE  Typed' /\ AllAgree'
<1> DEFINE l == ToClient(d)
           P == pending[l]
           x == Mark(m)
<1>1. /\ wire' = wire /\ value' = value /\ clash' = clash
      /\ pending' = [pending EXCEPT ![l] = Append(P, x)]
  BY DEF HearRequest, ToClient
<1>2. l \in Link /\ DOMAIN pending = Link
  BY LinkFacts DEF Shapes
<1>3. x.kind = "marker"
  BY DEF Mark
<1> HIDE DEF l, x
<1>4. IsSeq(P) /\ \A k \in DOMAIN P : IsWaiting(P[k])
  BY <1>2 DEF Shapes, IsLine, Typed
<1>5. pending'[l] = Append(P, x) /\ \A k \in Link : k # l => pending'[k] = pending[k]
  BY <1>1, <1>2
<1>6. Typed'
  <2>1. \A k \in DOMAIN Append(P, x) : IsWaiting(Append(P, x)[k])
    <3>1. /\ Len(P) \in Nat /\ DOMAIN P = 1..Len(P) /\ DOMAIN Append(P, x) = 1..(Len(P) + 1)
          /\ Append(P, x)[Len(P) + 1] = x /\ \A k \in 1..Len(P) : Append(P, x)[k] = P[k]
      BY <1>4, SeqAppend
    <3>2. \A k \in 1..(Len(P) + 1) : k \in 1..Len(P) \/ k = Len(P) + 1
      BY <3>1
    <3>3. IsWaiting(x)
      BY <1>3 DEF IsWaiting
    <3> QED
      BY <1>4, <3>1, <3>2, <3>3
  <2>2. ASSUME NEW k \in Link PROVE \A j \in DOMAIN pending'[k] : IsWaiting(pending'[k][j])
    <3>1. CASE k = l
      BY <1>5, <2>1, <3>1
    <3>2. CASE k # l
      BY <1>5, <3>2 DEF Typed
    <3> QED
      BY <3>1, <3>2
  <2> QED
    BY <1>1, <2>2 DEF Typed
<1>7. ASSUME NEW n \in Property, NEW k \in Link PROVE Quiet(k, n)
  <2>1. CASE k # l
    BY <1>1, <1>5, <2>1, SameQuiet
  <2>2. CASE k = l
    <3> DEFINE Q == Append(P, x)
    <3>1. Q = Append(P, x)
      OBVIOUS
    <3> HIDE DEF Q, P
    <3>2. IsSeq(P)
      BY <1>4
    <3>3. WaitsIn(Q, n) <=> WaitsIn(P, n) \/ (x.kind = "change" /\ x.name = n)
      BY <3>1, <3>2, WaitsAppend
    <3>4. WaitsIn(pending'[l], n) <=> WaitsIn(pending[l], n)
      BY <1>3, <1>5, <3>1, <3>3 DEF P
    <3>5. OnItsWay(l, n)' <=> WaitsIn(pending'[l], n) \/ CarriedBy(wire'[l], n)
      BY DEF OnItsWay, WaitsIn, CarriedBy, Carries
    <3> QED
      BY <1>1, <2>2, <3>4, <3>5, WayParts DEF Quiet, Fresh
  <2> QED
    BY <2>1, <2>2
<1>8. ASSUME NEW c \in Client, NEW n \in Property PROVE Agree(c, n)'
  BY <1>1, <1>7, LinkEnds, QuietAgrees DEF AllAgree
<1> QED
  BY <1>6, <1>8 DEF AllAgree

\* What converges: the lines are well typed and in agreement, and names are understood.
CInv == Shapes /\ Typed /\ AllAgree /\ Names!IInv

\* At first nothing is on its way and all nodes agree.
LEMMA InitAgrees == Init => CInv
<1> SUFFICES ASSUME Init PROVE CInv
  OBVIOUS
<1>1. PICK v \in Value : value = [p \in Node |-> [n \in Property |-> v]]
  BY DEF Init
<1>2. /\ \A l \in Link : pending[l] = <<>> /\ wire[l] = <<>>
      /\ clash = {}
  BY DEF Init
<1>3. Typed
  BY <1>1, <1>2 DEF Typed
<1>4. ASSUME NEW c \in Client, NEW n \in Property PROVE Agree(c, n)
  <2> DEFINE U == <<c, Server>>
             D == <<Server, c>>
  <2>1. U \in Link /\ D \in Link /\ c \in Node /\ Server \in Node
    BY LinkEnds
  <2>2. value[c][n] = v /\ value[Server][n] = v
    BY <1>1, <2>1
  <2>3. ASSUME NEW l \in {U, D} PROVE ~OnItsWay(l, n) /\ Fresh(l, n)
    <3>1. pending[l] = <<>> /\ wire[l] = <<>>
      BY <1>2, <2>1
    <3>2. ~OnItsWay(l, n)
      BY <3>1 DEF OnItsWay
    <3>3. ~CarriedBy(wire[l], n)
      BY <3>1 DEF CarriedBy
    <3> QED
      BY <3>2, <3>3, NoneLast DEF Fresh
  <2>4. ~OnItsWay(U, n) /\ Fresh(U, n) /\ ~OnItsWay(D, n) /\ Fresh(D, n)
    BY <2>3
  <2> QED
    BY <2>2, <2>4 DEF Agree
<1>5. Shapes
  BY InitInvariant DEF IInv
<1>6. Names!IInv
  BY DictionaryInit, DictionaryFits, DictionaryBegins
<1> QED
  BY <1>3, <1>4, <1>5, <1>6 DEF CInv, AllAgree

\* Every step keeps them in agreement.
LEMMA NextAgrees == IInv /\ CInv /\ [Next]_vars => CInv'
<1> SUFFICES ASSUME IInv, CInv, [Next]_vars PROVE CInv'
  OBVIOUS
<1>1. Shapes /\ Typed /\ AllAgree /\ Names!IInv /\ Names!TypeOK
  BY DEF CInv, Names!IInv
<1>2. Shapes'
  BY NextInvariant DEF IInv
<1>3. Names!IInv'
  <2>1. [Names!Next]_(Names!vars)
    BY <1>1, StepStreams
  <2> QED
    BY <1>1, <2>1, DictionaryFits, DictionarySteps
<1>4. Names!Understood
  BY <1>1, DictionaryReads
<1>5. ASSUME UNCHANGED <<value, pending, wire, clash>> PROVE Typed' /\ AllAgree'
  <2>1. Typed'
    BY <1>1, <1>5 DEF Typed
  <2>2. ASSUME NEW c \in Client, NEW n \in Property PROVE Agree(c, n)'
    <3>1. Quiet(<<c, Server>>, n) /\ Quiet(<<Server, c>>, n)
      BY <1>5, SameQuiet
    <3> QED
      BY <1>1, <1>5, <3>1, QuietAgrees DEF AllAgree
  <2> QED
    BY <2>1, <2>2 DEF AllAgree
<1>6. CASE Changing
  <2>1. PICK p \in Active, n \in Property, v \in Value : SetValue(p, n, v)
    BY <1>6 DEF Changing
  <2>2. p \in Node
    BY ReplicatorAssumption DEF Node
  <2> QED
    BY <1>1, <1>2, <1>3, <2>1, <2>2, SetValueAgrees DEF CInv
<1>7. CASE Asking
  BY <1>1, <1>2, <1>3, <1>7, SendMarkerAgrees DEF Asking, CInv
<1>8. CASE Hearing
  BY <1>1, <1>2, <1>3, <1>8, HearRequestAgrees DEF Hearing, CInv
<1>9. CASE \E c \in Client : HearGlobals(c)
  <2>1. UNCHANGED <<value, pending, wire, clash>>
    BY <1>9 DEF HearGlobals
  <2> QED
    BY <1>2, <1>3, <1>5, <2>1 DEF CInv
<1>10. CASE \E l \in Link : Carrying(l)
  BY <1>1, <1>2, <1>3, <1>4, <1>10, SendAgrees, ReceiveChangeAgrees, ReceiveMarkerAgrees
     DEF Carrying, CInv
<1>11. CASE UNCHANGED vars
  BY <1>2, <1>3, <1>5, <1>11 DEF vars, CInv
<1> QED
  BY <1>6, <1>7, <1>8, <1>9, <1>10, <1>11 DEF Next

\* The invariant implies what it is for.
LEMMA AgreeConverges == CInv => Converges
BY DEF CInv, AllAgree, Agree, Converges

\* The properties, what waits and what is on the wires are well typed; of a property only
\* one end of a connection has news, unless both changed it at once.
THEOREM AgreementHolds == Spec => []CInv
BY InvariantHolds, InitAgrees, NextAgrees, PTL DEF Spec

\* When nothing of a property is on its way the client and the server agree on it, unless
\* both changed it at once; for any number of clients, properties, values and markers, and
\* connections that hold any number of items.
THEOREM ConvergesHolds == Spec => []Converges
BY AgreementHolds, AgreeConverges, PTL

\* Over all connections at once the property names are the strings of a StringDictionary:
\* a change written is a string sent, a change read is a string received, and no other
\* step, a marker's neither, touches them. (Replicator's steps are built from the
\* dictionary's own operators, so this says little by itself.)
LEMMA StreamsHolds == Spec => Names!Spec
<1>1. Init => Names!Init
  BY DictionaryInit
<1>2. CInv /\ [Next]_vars => [Names!Next]_(Names!vars)
  BY StepStreams DEF CInv, Names!IInv
<1> QED
  BY <1>1, <1>2, AgreementHolds, PTL DEF Spec, Names!Spec

\* And so every property name is read as the one that was written.
THEOREM NamesUnderstoodHolds == Spec => []NamesUnderstood
BY StreamsHolds, DictionaryUnderstood, PTL DEF NamesUnderstood
=============================================================================
