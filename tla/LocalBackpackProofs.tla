-------------------------- MODULE LocalBackpackProofs --------------------------
(***************************************************************************)
(* What LocalBackpack says of the panel, for any items, and there are two  *)
(* ways in which it stands. While no character went since the backpack was *)
(* rebuilt, Ok is what holds of the state of a call between its moves: the *)
(* panel shows what is watched, each once. After that Loose holds: nobody  *)
(* has a character, and what the one that went held is shown once more. A  *)
(* move keeps either (MovedFacts, LooseMoved), and the calls are moves in  *)
(* turn; AllMoved and the slots of a click are folded over a sequence, and *)
(* what a step keeps the whole keeps (AllMovedFacts, AllHeardFold).        *)
(*                                                                         *)
(* ClickPutsAway: a tool that is put away while its slot hears of a click  *)
(* leaves that slot and comes back in a new one, at its place; so the      *)
(* slots behind the one that hears have moved on by as many places as      *)
(* tools were put away, and what they passed was not heard (HeardTo). What *)
(* comes in from the world moves them on by one, and only the first that   *)
(* does, for the others are put behind them all (CameIn).                  *)
(***************************************************************************)
EXTENDS LocalBackpack, SequenceFacts

\* The state of a call, and its slots: each child is one that was made, and once a child.
Calls ==
  [place : [Item -> Places], held : Seq(Tool), order : Seq(Nat), item : Seq(Item),
   last : Nat, pending : Item \cup {None}, active : SUBSET Bin]
Slots(G) == G \in Calls /\ Once(G.order) /\ ToSet(G.order) \subseteq 1..Len(G.item)

\* What holds of it between the moves of a call, when no character went since the
\* backpack was rebuilt.
Matches(place_, shown, heldSet) ==
  /\ \A t \in Item : place_[t] \in Watched <=> t \in shown
  /\ \A t \in Item : t \in heldSet <=> t \in Tool /\ place_[t] = "held"
Ok(G) ==
  /\ Slots(G) /\ Once(G.held) /\ Once(Shown(G))
  /\ Matches(G.place, ToSet(Shown(G)), ToSet(G.held))

\* An element that is there is found, at its first place.
LEMMA FindFacts ==
  ASSUME NEW T, NEW s \in Seq(T), NEW t, t \in ToSet(s)
  PROVE  /\ Find(s, t) \in 1..Len(s) /\ s[Find(s, t)] = t
         /\ Once(s) => \A i \in 1..Len(s) : s[i] = t => i = Find(s, t)
<1> DEFINE I == {i \in 1..Len(s) : s[i] = t}
<1>1. DOMAIN s = 1..Len(s) /\ Len(s) \in Nat
  OBVIOUS
<1>2. I # {} /\ I \subseteq Nat
  BY <1>1 DEF ToSet
<1> HIDE DEF I
<1>3. PICK m \in I : \A n \in I : m <= n
  BY <1>2, LeastNat
<1>4. m \in DOMAIN s /\ s[m] = t /\ \A j \in 1..(m - 1) : s[j] # t
  <2>1. m \in 1..Len(s) /\ s[m] = t
    BY DEF I
  <2>2. ASSUME NEW j \in 1..(m - 1), s[j] = t PROVE FALSE
    <3>1. j \in 1..Len(s) /\ ~(m <= j)
      BY <1>1, <2>1
    <3> QED
      BY <1>3, <2>2, <3>1 DEF I
  <2> QED
    BY <1>1, <2>1, <2>2
<1>5. Find(s, t) \in DOMAIN s /\ s[Find(s, t)] = t
  BY <1>4 DEF Find
<1> QED
  BY <1>1, <1>5 DEF Once

\* A sequence without an element.
LEMMA WithoutFacts ==
  ASSUME NEW T, NEW s \in Seq(T), Once(s), NEW t
  PROVE  /\ Without(s, t) \in Seq(T) /\ Once(Without(s, t))
         /\ ToSet(Without(s, t)) = ToSet(s) \ {t}
<1>1. CASE t \in ToSet(s)
  <2>1. Find(s, t) \in 1..Len(s) /\ s[Find(s, t)] = t
    BY <1>1, FindFacts
  <2>2. /\ RemoveAt(s, Find(s, t)) \in Seq(T) /\ Once(RemoveAt(s, Find(s, t)))
        /\ ToSet(RemoveAt(s, Find(s, t))) = ToSet(s) \ {s[Find(s, t)]}
    BY <2>1, RemoveAtFacts, RemoveAtOnce
  <2> QED
    BY <1>1, <2>1, <2>2 DEF Without
<1>2. CASE t \notin ToSet(s)
  BY <1>2 DEF Without
<1> QED
  BY <1>1, <1>2

\* Of a sequence there are finitely many.
LEMMA SeqSetFinite ==
  ASSUME NEW T, NEW s \in Seq(T)
  PROVE  IsFiniteSet(ToSet(s))
<1>1. Len(s) \in Nat /\ s \in [1..Len(s) -> ToSet(s)] /\ \A x \in ToSet(s) : \E i \in 1..Len(s) : s[i] = x
  BY DEF ToSet
<1>2. s \in Surjection(1..Len(s), ToSet(s))
  BY <1>1 DEF Surjection
<1> QED
  BY <1>1, <1>2, FS_NatSurjection DEF ExistsSurjection

\* What is shown is a sequence of items, one at each slot.
LEMMA ShownFacts ==
  ASSUME NEW G, Slots(G)
  PROVE  /\ Shown(G) \in Seq(Item) /\ Len(Shown(G)) = Len(G.order) /\ Len(G.order) \in Nat
         /\ Len(G.item) \in Nat
         /\ \A k \in 1..Len(G.order) :
              G.order[k] \in 1..Len(G.item) /\ Shown(G)[k] = G.item[G.order[k]]
<1>1. G.order \in Seq(Nat) /\ G.item \in Seq(Item) /\ ToSet(G.order) \subseteq 1..Len(G.item)
  BY DEF Slots, Calls
<1>2. PICK o, q : o = G.order /\ q = G.item
  OBVIOUS
<1>3. /\ Len(o) \in Nat /\ Len(q) \in Nat /\ DOMAIN o = 1..Len(o)
      /\ \A j \in 1..Len(q) : q[j] \in Item
  BY <1>1, <1>2
<1>4. \A k \in 1..Len(o) : o[k] \in 1..Len(q)
  BY <1>1, <1>2, <1>3 DEF ToSet
<1>5. Shown(G) = [k \in 1..Len(o) |-> q[o[k]]]
  BY <1>2, <1>3 DEF Shown
<1>6. Shown(G) \in [1..Len(o) -> Item]
  BY <1>3, <1>4, <1>5
<1>7. Shown(G) \in Seq(Item) /\ Len(Shown(G)) = Len(o)
  <2> DEFINE z == Shown(G)
  <2>1. z \in [1..Len(o) -> Item] /\ Len(o) \in Nat
    BY <1>3, <1>6
  <2> HIDE DEF z
  <2>2. z \in Seq(Item) /\ Len(z) = Len(o)
    <3>1. z \in Seq(Item)
      BY <2>1, SeqDef
    <3>2. DOMAIN z = 1..Len(z) /\ DOMAIN z = 1..Len(o) /\ Len(z) \in Nat
      BY <2>1, <3>1
    <3>3. Len(z) = Len(o)
      BY <2>1, <3>2
    <3> QED
      BY <3>1, <3>3
  <2> QED
    BY <2>2 DEF z
<1> QED
  BY <1>2, <1>3, <1>4, <1>5, <1>7

\* An item is inserted: it is shown at the free place, in a slot that moved there.
LEMMA InsertFacts ==
  ASSUME NEW G, Slots(G), NEW t \in Item
  PROVE  LET H == Insert(G, t)
             n == Len(G.order) + 1
         IN  /\ Slots(H) /\ H.place = G.place /\ H.held = G.held /\ H.pending = G.pending
             /\ H.active = G.active /\ H.last = 0
             /\ H.order = Append(G.order, Len(G.item) + 1) /\ Len(H.item) = Len(G.item) + 1
             /\ FreePlace(G, n) \in 1..n
             /\ Shown(H) = InsertAt(Shown(G), FreePlace(G, n), t)
<1> DEFINE H == Insert(G, t)
           new == Len(G.item) + 1
           o == Append(G.order, new)
           n == Len(G.order) + 1
           f == FreePlace(G, n)
           shown == InsertAt(Shown(G), f, t)
           q == [i \in 1..new |-> IF i \in ToSet(o) THEN shown[Find(o, i)] ELSE G.item[i]]
<1>1. /\ G \in Calls /\ G.order \in Seq(Nat) /\ G.item \in Seq(Item) /\ Once(G.order)
      /\ ToSet(G.order) \subseteq 1..Len(G.item) /\ G.last \in Nat
  BY DEF Slots, Calls
<1>2. /\ Shown(G) \in Seq(Item) /\ Len(Shown(G)) = Len(G.order) /\ Len(G.order) \in Nat
      /\ Len(G.item) \in Nat
  BY ShownFacts
<1>3. n \in Nat /\ n >= 1 /\ new \in Nat /\ new \notin ToSet(G.order) /\ Len(o) = n
      /\ o \in Seq(Nat) /\ DOMAIN o = 1..n
  BY <1>1, <1>2
<1>4. f \in 1..n
  BY <1>1, <1>2, <1>3 DEF FreePlace
<1>5. /\ shown \in Seq(Item) /\ Len(shown) = n
  BY <1>2, <1>4, InsertAtFacts
<1>6. Once(o) /\ ToSet(o) \subseteq 1..new /\ new \in ToSet(o)
  <2>1. (\A i \in 1..Len(G.order) : o[i] = G.order[i]) /\ o[n] = new
    BY <1>1, <1>2
  <2> HIDE DEF o
  <2>2. PICK g, N : g = G.order /\ N = Len(G.order)
    OBVIOUS
  <2>3. /\ N \in Nat /\ DOMAIN g = 1..N /\ n = N + 1 /\ DOMAIN o = 1..(N + 1) /\ Once(g)
        /\ (\A i \in 1..N : o[i] = g[i]) /\ o[N + 1] = new
        /\ \A i \in 1..N : g[i] \in 1..Len(G.item)
    <3>1. DOMAIN g = 1..N
      BY <1>1, <2>2
    <3>2. \A i \in 1..N : g[i] \in 1..Len(G.item)
      BY <1>1, <2>2, <3>1 DEF ToSet
    <3> QED
      BY <1>1, <1>2, <1>3, <2>1, <2>2, <3>1, <3>2
  <2> HIDE DEF n
  <2>4. \A i \in 1..(N + 1) : i \in 1..N \/ i = N + 1
    BY <2>3
  <2>5. N + 1 \in 1..(N + 1) /\ \A i \in 1..N : g[i] # new /\ g[i] \in 1..new
    BY <1>2, <2>3
  <2>6. Once(o)
    BY <2>3, <2>4, <2>5 DEF Once
  <2>7. \A i \in 1..(N + 1) : o[i] \in 1..new
    <3>1. new \in 1..new
      BY <1>2
    <3> QED
      BY <2>3, <2>4, <2>5, <3>1
  <2> QED
    BY <2>3, <2>5, <2>6, <2>7 DEF ToSet
<1> HIDE DEF o, shown, f
<1>7. \A i \in ToSet(o) : Find(o, i) \in 1..n /\ shown[Find(o, i)] \in Item
  <2>1. \A i \in ToSet(o) : Find(o, i) \in 1..n
    BY <1>3, FindFacts
  <2> QED
    BY <1>5, <2>1
<1>8. q \in [1..new -> Item]
  <2>1. ASSUME NEW i \in 1..new, i \notin ToSet(o) PROVE G.item[i] \in Item
    <3>1. i # new
      BY <1>6, <2>1
    <3>2. i \in 1..Len(G.item)
      BY <1>2, <2>1, <3>1
    <3> QED
      BY <1>1, <3>2
  <2> QED
    BY <1>7, <2>1
<1>9. q \in Seq(Item) /\ Len(q) = new
  <2> HIDE DEF q
  <2>1. q \in [1..new -> Item] /\ new \in Nat
    BY <1>3, <1>8
  <2> HIDE DEF new
  <2>2. q \in Seq(Item)
    BY <2>1, SeqDef
  <2>3. DOMAIN q = 1..Len(q) /\ DOMAIN q = 1..new /\ Len(q) \in Nat
    BY <2>1, <2>2
  <2>4. Len(q) = new
    BY <2>1, <2>3
  <2> QED
    BY <2>2, <2>4
<1>10. H = [G EXCEPT !.order = o, !.last = 0, !.item = q]
  <2>1. Len(o) = n
    BY <1>3
  <2> QED
    BY <2>1 DEF Insert, o, shown, f
<1>11. \A k \in 1..n : q[o[k]] = shown[k]
  <2> SUFFICES ASSUME NEW k \in 1..n PROVE q[o[k]] = shown[k]
    OBVIOUS
  <2>1. o[k] \in ToSet(o) /\ o[k] \in 1..new
    BY <1>3, <1>6 DEF ToSet
  <2>2. Find(o, o[k]) = k
    BY <1>3, <1>6, <2>1, FindFacts
  <2> QED
    BY <2>1, <2>2
<1> HIDE DEF q, H
<1>12. /\ H.order = o /\ H.last = 0 /\ H.item = q /\ H.place = G.place /\ H.held = G.held
       /\ H.pending = G.pending /\ H.active = G.active /\ H \in Calls
  <2>1. o \in Seq(Nat) /\ q \in Seq(Item) /\ 0 \in Nat
    BY <1>3, <1>9
  <2> HIDE DEF new
  <2> QED
    BY <1>1, <1>10, <2>1 DEF Calls
<1>13. Slots(H)
  BY <1>6, <1>9, <1>12 DEF Slots
<1>14. Shown(H) = shown
  <2>1. Shown(H) = [k \in 1..n |-> q[o[k]]]
    BY <1>3, <1>12 DEF Shown
  <2>2. shown = [k \in 1..n |-> shown[k]]
    BY <1>5
  <2> HIDE DEF n
  <2> QED
    BY <1>11, <2>1, <2>2
<1> QED
  BY <1>4, <1>9, <1>12, <1>13, <1>14 DEF H, o, shown, f

\* An item that is shown is removed: its slot is no child any more.
LEMMA RemoverFacts ==
  ASSUME NEW G, Slots(G), NEW t, t \in ToSet(Shown(G))
  PROVE  LET H == Remover(G, t)
             i == Find(Shown(G), t)
         IN  /\ Slots(H) /\ H.place = G.place /\ H.held = G.held /\ H.active = G.active
             /\ H.pending = (IF G.pending = t THEN None ELSE G.pending)
             /\ i \in 1..Len(G.order) /\ Shown(G)[i] = t /\ H.last = i
             /\ H.order = RemoveAt(G.order, i) /\ H.item = G.item
             /\ Shown(H) = RemoveAt(Shown(G), i)
<1> DEFINE H == Remover(G, t)
           i == Find(Shown(G), t)
           o == RemoveAt(G.order, i)
           s == Shown(G)
           N == Len(G.order)
<1>1. /\ G \in Calls /\ G.order \in Seq(Nat) /\ G.item \in Seq(Item) /\ Once(G.order)
      /\ ToSet(G.order) \subseteq 1..Len(G.item) /\ G.last \in Nat
  BY DEF Slots, Calls
<1>2. /\ s \in Seq(Item) /\ Len(s) = N /\ N \in Nat
      /\ \A k \in 1..N : s[k] = G.item[G.order[k]]
  BY ShownFacts
<1>3. i \in 1..N /\ s[i] = t
  BY <1>2, FindFacts
<1> HIDE DEF i
<1>4. /\ o \in Seq(Nat) /\ Len(o) = N - 1
      /\ \A k \in 1..(N - 1) : o[k] = IF k < i THEN G.order[k] ELSE G.order[k + 1]
  BY <1>1, <1>3, RemoveAtFacts
<1>5. Once(o) /\ ToSet(o) \subseteq ToSet(G.order)
  <2>1. Once(o) /\ ToSet(o) = ToSet(G.order) \ {G.order[i]}
    BY <1>1, <1>3, RemoveAtOnce
  <2> QED
    BY <2>1
<1>6. /\ RemoveAt(s, i) \in Seq(Item) /\ Len(RemoveAt(s, i)) = N - 1
      /\ \A k \in 1..(N - 1) : RemoveAt(s, i)[k] = IF k < i THEN s[k] ELSE s[k + 1]
  <2> HIDE DEF s, N
  <2>1. i \in 1..Len(s)
    BY <1>2, <1>3
  <2>2. /\ RemoveAt(s, i) \in Seq(Item) /\ Len(RemoveAt(s, i)) = Len(s) - 1
        /\ \A k \in 1..(Len(s) - 1) : RemoveAt(s, i)[k] = IF k < i THEN s[k] ELSE s[k + 1]
    BY <1>2, <2>1, RemoveAtFacts
  <2> QED
    BY <1>2, <2>2
<1>7. H = [G EXCEPT !.order = o, !.last = i, !.pending = IF G.pending = t THEN None ELSE G.pending]
  BY DEF Remover, i
<1> HIDE DEF H, o
<1>8. /\ H.order = o /\ H.last = i /\ H.item = G.item /\ H.place = G.place /\ H.held = G.held
      /\ H.pending = (IF G.pending = t THEN None ELSE G.pending) /\ H.active = G.active
      /\ H \in Calls
  <2>1. o \in Seq(Nat) /\ i \in Nat
    BY <1>2, <1>3, <1>4
  <2>2. PICK x : x = (IF G.pending = t THEN None ELSE G.pending)
    OBVIOUS
  <2>3. x \in Item \cup {None} /\ H = [G EXCEPT !.order = o, !.last = i, !.pending = x]
    BY <1>1, <1>7, <2>2 DEF Calls
  <2>4. /\ H.order = o /\ H.last = i /\ H.item = G.item /\ H.place = G.place /\ H.held = G.held
        /\ H.pending = x /\ H.active = G.active /\ H \in Calls
    BY <1>1, <2>1, <2>3 DEF Calls
  <2> QED
    BY <2>2, <2>4
<1>9. Slots(H)
  BY <1>1, <1>5, <1>8 DEF Slots
<1>10. Shown(H) = RemoveAt(s, i)
  <2>1. DOMAIN o = 1..(N - 1)
    BY <1>4
  <2>2. Shown(H) = [k \in 1..(N - 1) |-> G.item[o[k]]]
    BY <1>8, <2>1 DEF Shown
  <2>3. RemoveAt(s, i) = [k \in 1..(N - 1) |-> RemoveAt(s, i)[k]]
    BY <1>6
  <2>4. ASSUME NEW k \in 1..(N - 1) PROVE G.item[o[k]] = RemoveAt(s, i)[k]
    <3>1. k \in 1..N /\ k + 1 \in 1..N
      BY <1>2
    <3> QED
      BY <1>2, <1>4, <1>6, <3>1
  <2> HIDE DEF s, N
  <2> QED
    BY <2>2, <2>3, <2>4
<1> QED
  BY <1>3, <1>8, <1>9, <1>10 DEF H, i, o

\* An item is moved. Between two places that are watched it keeps its place in the panel,
\* in a slot that is new.
LEMMA MovedFacts ==
  ASSUME NEW G, Ok(G), NEW t \in Item, NEW to \in Places
  PROVE  LET H == Moved(G, t, to)
             i == Find(Shown(G), t)
         IN  /\ Ok(H) /\ H.place = [G.place EXCEPT ![t] = to] /\ H.active = G.active
             /\ H.pending = IF G.place[t] \in Watched /\ G.pending = t THEN None ELSE G.pending
             /\ G.place[t] \in Watched =>
                  /\ t \in ToSet(Shown(G))
                  /\ to \in Watched => /\ Shown(H) = Shown(G) /\ Len(H.item) = Len(G.item) + 1
                                       /\ H.order = Append(RemoveAt(G.order, i), Len(G.item) + 1)
                  /\ to \notin Watched => Shown(H) = Without(Shown(G), t)
<1> DEFINE L == IF HeardLeaving(G.place[t]) THEN Removed(G, t) ELSE G
           h == IF to = "held" /\ t \in Tool THEN Append(Without(L.held, t), t)
                ELSE Without(L.held, t)
           M == [L EXCEPT !.place[t] = to, !.held = h]
           H == Moved(G, t, to)
           i == Find(Shown(G), t)
           S == Shown(G)
<1>1. H = IF to \in Watched THEN Insert(M, t) ELSE M
  BY DEF Moved
<1>2. /\ Slots(G) /\ G \in Calls /\ Once(G.held) /\ Once(S)
      /\ (\A u \in Item : G.place[u] \in Watched <=> u \in ToSet(S))
      /\ (\A u \in Item : u \in ToSet(G.held) <=> u \in Tool /\ G.place[u] = "held")
  BY DEF Ok, Slots, Matches
<1>3. /\ S \in Seq(Item) /\ Len(S) = Len(G.order) /\ Len(G.order) \in Nat
      /\ G.place \in [Item -> Places] /\ G.held \in Seq(Tool)
  BY <1>2, ShownFacts DEF Calls
<1> HIDE DEF S, L, M, H
<1>4. /\ Slots(L) /\ L.place = G.place /\ L.held = G.held /\ L.active = G.active
      /\ L.pending = (IF G.place[t] \in Watched /\ G.pending = t THEN None ELSE G.pending)
      /\ ToSet(Shown(L)) = ToSet(S) \ {t} /\ Once(Shown(L))
      /\ G.place[t] \in Watched =>
           /\ t \in ToSet(S) /\ i \in 1..Len(G.order) /\ S[i] = t /\ L.last = i
           /\ L.order = RemoveAt(G.order, i) /\ L.item = G.item
           /\ Shown(L) = RemoveAt(S, i)
  <2>1. CASE G.place[t] \in Watched
    <3>1. t \in ToSet(S)
      BY <1>2, <2>1
    <3>2. L = Remover(G, t)
      BY <2>1, <3>1 DEF L, HeardLeaving, Removed, S
    <3>3. /\ Slots(L) /\ L.place = G.place /\ L.held = G.held /\ L.active = G.active
          /\ L.pending = (IF G.pending = t THEN None ELSE G.pending)
          /\ i \in 1..Len(G.order) /\ S[i] = t /\ L.last = i
          /\ L.order = RemoveAt(G.order, i) /\ L.item = G.item
          /\ Shown(L) = RemoveAt(S, i)
      BY <1>2, <3>1, <3>2, RemoverFacts DEF S
    <3>4. Once(RemoveAt(S, i)) /\ ToSet(RemoveAt(S, i)) = ToSet(S) \ {S[i]}
      BY <1>2, <1>3, <3>3, RemoveAtOnce
    <3> QED
      BY <2>1, <3>1, <3>3, <3>4
  <2>2. CASE G.place[t] \notin Watched
    <3>1. L = G
      BY <2>2 DEF L, HeardLeaving
    <3>2. t \notin ToSet(S)
      BY <1>2, <2>2
    <3>3. ToSet(S) \ {t} = ToSet(S)
      BY <3>2
    <3> QED
      BY <1>2, <2>2, <3>1, <3>3 DEF S
  <2> QED
    BY <2>1, <2>2
<1>5. /\ h \in Seq(Tool) /\ Once(h)
      /\ ToSet(h) = (ToSet(G.held) \ {t}) \cup (IF to = "held" /\ t \in Tool THEN {t} ELSE {})
  <2> DEFINE w == Without(L.held, t)
  <2>1. w \in Seq(Tool) /\ Once(w) /\ ToSet(w) = ToSet(G.held) \ {t}
    BY <1>2, <1>3, <1>4, WithoutFacts
  <2> HIDE DEF w
  <2>2. CASE to = "held" /\ t \in Tool
    <3>1. t \in Tool /\ t \notin ToSet(w)
      BY <2>1, <2>2
    <3>2. Append(w, t) \in Seq(Tool) /\ Once(Append(w, t)) /\ ToSet(Append(w, t)) = ToSet(w) \cup {t}
      BY <2>1, <3>1, AppendOnce
    <3>3. h = Append(w, t)
      BY <2>2 DEF w
    <3> QED
      BY <2>1, <2>2, <3>2, <3>3
  <2>3. CASE ~(to = "held" /\ t \in Tool)
    <3>1. h = w
      BY <2>3 DEF w
    <3> QED
      BY <2>1, <2>3, <3>1
  <2> QED
    BY <2>2, <2>3
<1> HIDE DEF h
<1> DEFINE P == [G.place EXCEPT ![t] = to]
<1>6. /\ M.place = P /\ M.held = h /\ M.order = L.order /\ M.item = L.item
      /\ M.last = L.last /\ M.pending = L.pending /\ M.active = L.active /\ M \in Calls
  <2>1. L \in Calls
    BY <1>4 DEF Slots
  <2>2. M = [L EXCEPT !.place[t] = to, !.held = h]
    BY DEF M
  <2>3. P \in [Item -> Places] /\ M = [L EXCEPT !.place = P, !.held = h]
    BY <1>3, <1>4, <2>1, <2>2 DEF Calls
  <2> HIDE DEF P
  <2> QED
    BY <1>5, <2>1, <2>3 DEF Calls
<1>7. Slots(M) /\ Shown(M) = Shown(L)
  BY <1>4, <1>6 DEF Slots, Shown
<1>8. P \in [Item -> Places] /\ \A u \in Item : P[u] = IF u = t THEN to ELSE G.place[u]
  BY <1>3
<1> HIDE DEF P
<1>9. /\ Slots(H) /\ H.place = P /\ H.held = h /\ H.active = G.active /\ H.pending = L.pending
      /\ Once(Shown(H))
      /\ ToSet(Shown(H)) = (ToSet(S) \ {t}) \cup (IF to \in Watched THEN {t} ELSE {})
  <2>1. CASE to \in Watched
    <3> DEFINE n == Len(M.order) + 1
               f == FreePlace(M, n)
    <3>1. H = Insert(M, t)
      BY <1>1, <2>1
    <3>2. /\ Slots(H) /\ H.place = M.place /\ H.held = M.held /\ H.pending = M.pending
          /\ H.active = M.active /\ f \in 1..n /\ Shown(H) = InsertAt(Shown(M), f, t)
      BY <1>7, <3>1, InsertFacts
    <3>3. Shown(M) \in Seq(Item) /\ Len(Shown(M)) = Len(M.order)
      BY <1>7, ShownFacts
    <3> HIDE DEF f
    <3>4. f \in 1..(Len(Shown(M)) + 1) /\ t \notin ToSet(Shown(M)) /\ Once(Shown(M))
      BY <1>4, <1>7, <3>2, <3>3
    <3>5. /\ Once(InsertAt(Shown(M), f, t))
          /\ ToSet(InsertAt(Shown(M), f, t)) = ToSet(Shown(M)) \cup {t}
      BY <3>3, <3>4, InsertAtOnce
    <3> QED
      BY <1>4, <1>6, <1>7, <2>1, <3>2, <3>5
  <2>2. CASE to \notin Watched
    <3>1. H = M
      BY <1>1, <2>2
    <3> QED
      BY <1>4, <1>6, <1>7, <2>2, <3>1
  <2> QED
    BY <2>1, <2>2
<1>10. Ok(H)
  <2>1. ASSUME NEW u \in Item PROVE P[u] \in Watched <=> u \in ToSet(Shown(H))
    BY <1>2, <1>8, <1>9
  <2>3. ASSUME NEW u \in Item PROVE u \in ToSet(h) <=> u \in Tool /\ P[u] = "held"
    BY <1>2, <1>5, <1>8
  <2> QED
    BY <1>5, <1>9, <2>1, <2>3 DEF Ok, Matches
<1>11. ASSUME G.place[t] \in Watched, to \in Watched
       PROVE  /\ Shown(H) = S /\ Len(H.item) = Len(G.item) + 1
              /\ H.order = Append(RemoveAt(G.order, i), Len(G.item) + 1)
  <2> DEFINE n == Len(M.order) + 1
             f == FreePlace(M, n)
  <2>1. H = Insert(M, t)
    BY <1>1, <1>11
  <2>2. /\ H.order = Append(M.order, Len(M.item) + 1) /\ Len(H.item) = Len(M.item) + 1
        /\ Shown(H) = InsertAt(Shown(M), f, t)
    BY <1>7, <2>1, InsertFacts
  <2>3. M.order = RemoveAt(G.order, i) /\ M.item = G.item /\ M.last = i /\ Shown(M) = RemoveAt(S, i)
        /\ i \in 1..Len(G.order) /\ S[i] = t
    BY <1>4, <1>6, <1>7, <1>11
  <2>4. Len(Shown(M)) = Len(M.order)
    BY <1>7, ShownFacts
  <2>5. i \in 1..Len(S)
    BY <1>3, <2>3
  <2>6. Len(RemoveAt(S, i)) = Len(S) - 1
    BY <1>3, <2>5, RemoveAtFacts
  <2>7. n = Len(S)
    BY <1>3, <2>3, <2>4, <2>6
  <2> HIDE DEF n
  <2>8. f = i
    BY <1>3, <2>3, <2>5, <2>7 DEF FreePlace
  <2>9. InsertAt(RemoveAt(S, i), i, S[i]) = S
    BY <1>3, <2>5, InsertBack
  <2> QED
    BY <2>2, <2>3, <2>8, <2>9
<1>12. ASSUME G.place[t] \in Watched, to \notin Watched PROVE Shown(H) = Without(S, t)
  <2>1. H = M
    BY <1>1, <1>12
  <2> QED
    BY <1>4, <1>7, <1>12, <2>1 DEF Without, S
<1> QED
  BY <1>4, <1>9, <1>10, <1>11, <1>12 DEF H, S, P

\* Of s the first k have been moved, from G to H.
Carried(G, s, to, H, k) ==
  /\ Ok(H) /\ H.active = G.active /\ H.pending \in {G.pending, None}
  /\ \A u \in Item : H.place[u] = IF \E j \in 1..k : s[j] = u THEN to ELSE G.place[u]
  /\ to \in Watched /\ (\A u \in ToSet(s) : G.place[u] \in Watched) => Shown(H) = Shown(G)
Movable(G, s, to) ==
  /\ Ok(G) /\ s \in Seq(Item) /\ Once(s) /\ to \in Places

\* The next of them is moved.
LEMMA CarriedStep ==
  ASSUME NEW G, NEW s, NEW to, Movable(G, s, to), NEW k \in 1..Len(s), NEW H,
         Carried(G, s, to, H, k - 1)
  PROVE  Carried(G, s, to, Moved(H, s[k], to), k)
<1> DEFINE t == s[k]
           I == Moved(H, t, to)
<1>1. /\ Ok(G) /\ s \in Seq(Item) /\ Once(s) /\ to \in Places /\ Len(s) \in Nat
      /\ DOMAIN s = 1..Len(s) /\ t \in Item /\ t \in ToSet(s)
  <2>1. s \in Seq(Item) /\ DOMAIN s = 1..Len(s) /\ Len(s) \in Nat
    BY DEF Movable
  <2>2. t \in Item /\ t \in ToSet(s)
    BY <2>1 DEF ToSet
  <2> QED
    BY <2>1, <2>2 DEF Movable
<1>2. /\ Ok(H) /\ H.active = G.active /\ H.pending \in {G.pending, None}
      /\ (\A u \in Item : H.place[u] = IF \E j \in 1..(k - 1) : s[j] = u THEN to ELSE G.place[u])
      /\ (to \in Watched /\ (\A u \in ToSet(s) : G.place[u] \in Watched) => Shown(H) = Shown(G))
  BY DEF Carried
<1>3. \A j \in 1..(k - 1) : s[j] # t
  BY <1>1 DEF Once
<1>4. H.place[t] = G.place[t]
  BY <1>1, <1>2, <1>3
<1>5. /\ Ok(I) /\ I.place = [H.place EXCEPT ![t] = to] /\ I.active = H.active
      /\ I.pending = (IF H.place[t] \in Watched /\ H.pending = t THEN None ELSE H.pending)
      /\ H.place[t] \in Watched /\ to \in Watched => Shown(I) = Shown(H)
  BY <1>1, <1>2, <1>4, MovedFacts
<1> HIDE DEF t, I
<1>7. I.pending \in {G.pending, None}
  BY <1>2, <1>5
<1>8. ASSUME NEW u \in Item
      PROVE  I.place[u] = IF \E j \in 1..k : s[j] = u THEN to ELSE G.place[u]
  <2>1. H.place \in [Item -> Places]
    BY <1>2 DEF Ok, Slots, Calls
  <2>2. \A j \in 1..k : j = k \/ j \in 1..(k - 1)
    OBVIOUS
  <2>3. k \in 1..k /\ \A j \in 1..(k - 1) : j \in 1..k
    OBVIOUS
  <2> QED
    BY <1>1, <1>2, <1>5, <2>1, <2>2, <2>3 DEF t
<1>9. to \in Watched /\ (\A u \in ToSet(s) : G.place[u] \in Watched) => Shown(I) = Shown(G)
  BY <1>1, <1>2, <1>4, <1>5
<1> QED
  BY <1>2, <1>5, <1>7, <1>8, <1>9 DEF Carried, t, I

\* All are moved.
LEMMA AllMovedFacts ==
  ASSUME NEW G, NEW s, NEW to, Movable(G, s, to)
  PROVE  Carried(G, s, to, AllMoved(G, s, to), Len(s))
<1> DEFINE N == Len(s)
           M(n, H) == Moved(H, s[n], to)
           F == [n \in 1..N |-> [H \in Calls |-> IF M(n, H) \in Calls THEN M(n, H) ELSE H]]
<1>1. N \in Nat /\ G \in Calls
  BY DEF Movable, Ok, Slots
<1>2. Carried(G, s, to, G, 0)
  <2>1. 1..0 = {}
    OBVIOUS
  <2> QED
    BY <2>1 DEF Carried, Movable
<1>3. \A H, n : Carried(G, s, to, H, n) => H \in Calls
  BY DEF Carried, Ok, Slots
<1> HIDE DEF N
<1>4. PICK g \in [0..N -> Calls] : g[0] = G /\ \A n \in 1..N : g[n] = F[n][g[n - 1]]
  <2>1. F \in [1..N -> [Calls -> Calls]]
    OBVIOUS
  <2> HIDE DEF F
  <2>2. \E g : Stepwise(g, Calls, F, G, N)
    BY <1>1, <2>1, StepsExist
  <2> QED
    BY <2>2 DEF Stepwise
<1>5. ASSUME NEW n \in 1..N
      PROVE  g[n] = IF M(n, g[n - 1]) \in Calls THEN M(n, g[n - 1]) ELSE g[n - 1]
  <2>1. n - 1 \in 0..N
    BY <1>1
  <2>2. g[n - 1] \in Calls
    BY <2>1
  <2> HIDE DEF M
  <2> QED
    BY <1>4, <2>2
<1> HIDE DEF F, M
<1>6. ASSUME NEW f, f[0] = G,
             \A n \in 1..N : M(n, f[n - 1]) \in Calls => f[n] = M(n, f[n - 1])
      PROVE  \A n \in 0..N : Carried(G, s, to, f[n], n)
  <2> DEFINE S == {n \in 0..N : Carried(G, s, to, f[n], n)}
  <2>1. 0 \in S
    BY <1>1, <1>2, <1>6
  <2>2. ASSUME NEW n \in 1..N, n - 1 \in S PROVE n \in S
    <3>1. Carried(G, s, to, f[n - 1], n - 1)
      BY <2>2
    <3>2. Carried(G, s, to, M(n, f[n - 1]), n)
      BY <3>1, CarriedStep DEF M, N
    <3>3. f[n] = M(n, f[n - 1])
      BY <1>3, <1>6, <3>2
    <3> QED
      BY <1>1, <3>2, <3>3
  <2> HIDE DEF S
  <2>3. \A n \in 0..N : n \in S
    BY <1>1, <2>1, <2>2, UpTo
  <2> QED
    BY <2>3 DEF S
<1>7. \A n \in 0..N : Carried(G, s, to, g[n], n)
  BY <1>4, <1>5, <1>6
<1>8. ASSUME NEW n \in 1..N PROVE g[n] = M(n, g[n - 1])
  <2>1. n - 1 \in 0..N
    BY <1>1
  <2>2. Carried(G, s, to, g[n - 1], n - 1)
    BY <1>7, <2>1
  <2>3. Carried(G, s, to, M(n, g[n - 1]), n)
    BY <2>2, CarriedStep DEF M, N
  <2> QED
    BY <1>3, <1>5, <2>3
<1> DEFINE Eq(f) == f = [n \in 0..N |-> IF n = 0 THEN G ELSE Moved(f[n - 1], s[n], to)]
           at == CHOOSE f : Eq(f)
<1>9. Eq(g)
  <2>1. ASSUME NEW n \in 0..N PROVE g[n] = IF n = 0 THEN G ELSE Moved(g[n - 1], s[n], to)
    <3>1. n = 0 \/ n \in 1..N
      BY <1>1
    <3> QED
      BY <1>4, <1>8, <3>1 DEF M
  <2> QED
    BY <1>4, <2>1
<1>10. Eq(at)
  <2> HIDE DEF Eq
  <2> QED
    BY <1>9
<1>11. AllMoved(G, s, to) = at[N]
  BY DEF AllMoved, N
<1> HIDE DEF at
<1>12. at[0] = G /\ \A n \in 1..N : at[n] = M(n, at[n - 1])
  <2>1. 0 \in 0..N /\ \A n \in 1..N : n \in 0..N /\ n # 0
    BY <1>1
  <2> QED
    BY <1>10, <2>1 DEF M
<1>13. \A n \in 0..N : Carried(G, s, to, at[n], n)
  BY <1>6, <1>12
<1>14. N \in 0..N
  BY <1>1
<1> QED
  BY <1>11, <1>13, <1>14 DEF N

\* How many slots show u.
Count(s, u) == Cardinality({i \in DOMAIN s : s[i] = u})

\* What holds between the moves of a call, when a character went, with L, and the backpack
\* has not been rebuilt yet.
Loose(G, L) ==
  /\ Slots(G) /\ G.held = <<>> /\ \A t \in Item : G.place[t] # "held"
  /\ \A t \in Item :
       Count(Shown(G), t) = (IF G.place[t] \in Watched THEN 1 ELSE 0) + (IF t \in L THEN 1 ELSE 0)

\* What holds between calls.
BInv ==
  /\ left \subseteq Item /\ (character => left = {})
  /\ IF left = {} THEN Ok(Now) ELSE Loose(Now, left)

\* The first k slots there were have heard of a click: U is who was put away, m of them.
\* A slot that has not heard yet has moved on by m places, and the panel shows what it
\* did. Up to where the next slot was then nobody is in use.
HeardTo(G, k, m, U) ==
  /\ Ok(G) /\ Shown(G) = slots /\ Len(G.item) = Len(slots) + m
  /\ m \in 0..k /\ U \subseteq ToSet(held) /\ IsFiniteSet(U) /\ Cardinality(U) = m
  /\ pendingClick \notin U
  /\ \A u \in Item : G.place[u] = IF u \in U THEN "pack" ELSE place[u]
  /\ \A j \in (k + 1)..Len(slots) : G.order[j - m] = j
  /\ \A q \in 1..(k - m) : slots[q] # pendingClick => slots[q] \notin ToSet(G.held) \cup G.active

\* Between calls the state is that of a call.
LEMMA NowFacts ==
  ASSUME Slots(Now)
  PROVE  /\ slots \in Seq(Item) /\ Shown(Now) = slots
         /\ held \in Seq(Tool) /\ place \in [Item -> Places] /\ lastRemovedIndex \in Nat
         /\ active \subseteq Bin /\ Now.place = place /\ Now.held = held /\ Now.item = slots
         /\ Now.active = active /\ Now.pending = pendingClick /\ Now.last = lastRemovedIndex
         /\ pendingClick \in Item \cup {None}
         /\ Len(Now.order) = Len(slots) /\ \A j \in 1..Len(slots) : Now.order[j] = j
         /\ Ok(Now) => Once(slots) /\ Once(held) /\ Matches(place, ToSet(slots), ToSet(held))
<1>1. /\ Now.place = place /\ Now.held = held /\ Now.item = slots
      /\ Now.active = active /\ Now.pending = pendingClick /\ Now.last = lastRemovedIndex
      /\ Now.order = [i \in DOMAIN slots |-> i]
  BY DEF Now
<1>2. /\ Now \in Calls
      /\ Ok(Now) => /\ Once(Now.held) /\ Once(Shown(Now))
                    /\ Matches(Now.place, ToSet(Shown(Now)), ToSet(Now.held))
  BY DEF Ok, Slots
<1>3. /\ slots \in Seq(Item) /\ held \in Seq(Tool) /\ place \in [Item -> Places]
      /\ active \subseteq Bin /\ lastRemovedIndex \in Nat /\ pendingClick \in Item \cup {None}
  BY <1>1, <1>2 DEF Calls
<1>4. DOMAIN slots = 1..Len(slots) /\ slots = [i \in DOMAIN slots |-> slots[i]]
  BY <1>3
<1>5. Shown(Now) = slots
  <2>1. Shown(Now) = [i \in DOMAIN Now.order |-> Now.item[Now.order[i]]]
    BY DEF Shown
  <2>2. Shown(Now) = [i \in DOMAIN slots |-> slots[i]]
    BY <1>1, <2>1
  <2> QED
    BY <1>4, <2>2
<1>6. Len(Now.order) = Len(slots) /\ \A j \in 1..Len(slots) : Now.order[j] = j
  <2>1. Now.order \in Seq(Nat) /\ Len(slots) \in Nat
    BY <1>2, <1>3 DEF Calls
  <2>2. DOMAIN Now.order = 1..Len(slots)
    BY <1>1, <1>4
  <2>3. Len(Now.order) = Len(slots)
    BY <2>1, <2>2
  <2> QED
    BY <1>1, <1>4, <2>3
<1> QED
  BY <1>1, <1>2, <1>3, <1>5, <1>6

\* Another slot hears of it.
LEMMA HeardStep ==
  ASSUME Ok(Now), pendingClick # None, NEW k \in 1..Len(slots), NEW G, NEW m, NEW U,
         HeardTo(G, k - 1, m, U)
  PROVE  \E m2, U2 : HeardTo(Heard(G, k), k, m2, U2)
<1> DEFINE t == G.item[k]
           N == Len(slots)
           q == k - m
           H == Heard(G, k)
<1>1. /\ slots \in Seq(Item) /\ Once(slots) /\ N \in Nat /\ DOMAIN slots = 1..N
      /\ place \in [Item -> Places] /\ Matches(place, ToSet(slots), ToSet(held)) /\ active \subseteq Bin
  BY NowFacts DEF Ok
<1>2. /\ Ok(G) /\ Shown(G) = slots /\ Len(G.item) = N + m
      /\ m \in 0..(k - 1) /\ U \subseteq ToSet(held) /\ IsFiniteSet(U) /\ Cardinality(U) = m
      /\ pendingClick \notin U
      /\ (\A u \in Item : G.place[u] = IF u \in U THEN "pack" ELSE place[u])
      /\ (\A j \in k..N : G.order[j - m] = j)
      /\ (\A r \in 1..(k - 1 - m) :
            slots[r] # pendingClick => slots[r] \notin ToSet(G.held) \cup G.active)
  BY DEF HeardTo
<1>3. q \in 1..N /\ k \in k..N /\ G.order[q] = k
  BY <1>1, <1>2
<1>4. /\ Slots(G) /\ G \in Calls /\ G.order \in Seq(Nat) /\ G.active \subseteq Bin /\ G.held \in Seq(Tool)
      /\ Matches(G.place, ToSet(slots), ToSet(G.held))
  BY <1>2 DEF Ok, Slots, Calls
<1>5. Len(G.order) = N /\ \A r \in 1..N : slots[r] = G.item[G.order[r]]
  BY <1>2, <1>4, ShownFacts
<1>6. t = slots[q] /\ t \in Item /\ t \in ToSet(slots)
  <2>1. t = slots[q]
    BY <1>3, <1>5
  <2> QED
    BY <1>1, <1>3, <2>1 DEF ToSet
<1>7. Find(slots, t) = q
  BY <1>1, <1>3, <1>6, FindFacts
<1>8. H = IF t = pendingClick THEN G ELSE OtherClicked(G, t)
  BY DEF Heard
<1> HIDE DEF t, H, N
<1>9. \A r \in 1..q : r = q \/ r \in 1..(k - 1 - m)
  BY <1>2, <1>3
<1>10. \A j \in (k + 1)..N : j \in k..N
  BY <1>1
<1>11. m \in 0..k
  BY <1>2
<1>12. ASSUME H = G, t # pendingClick => t \notin ToSet(G.held) \cup G.active
       PROVE  HeardTo(H, k, m, U)
  <2>1. \A r \in 1..(k - m) : slots[r] # pendingClick => slots[r] \notin ToSet(G.held) \cup G.active
    BY <1>2, <1>6, <1>9, <1>12
  <2>2. \A j \in (k + 1)..N : G.order[j - m] = j
    BY <1>2, <1>10
  <2> QED
    BY <1>2, <1>11, <1>12, <2>1, <2>2 DEF HeardTo, N
<1>13. CASE t = pendingClick
  BY <1>8, <1>12, <1>13 DEF H
<1>14. CASE t # pendingClick /\ t \in Bin
  <2> DEFINE A == G.active \ {t}
  <2>1. H = [G EXCEPT !.active = A]
    BY <1>8, <1>14 DEF OtherClicked
  <2>2. A \subseteq Bin
    BY <1>4
  <2>3. t \notin ToSet(G.held)
    <3>1. ToSet(G.held) \subseteq Tool
      BY <1>4 DEF ToSet
    <3> QED
      BY <1>14, <3>1, BackpackAssumption
  <2>4. t \notin A
    OBVIOUS
  <2> HIDE DEF A
  <2>5. /\ H.place = G.place /\ H.held = G.held /\ H.order = G.order /\ H.item = G.item
        /\ H.active = A /\ H \in Calls
    BY <1>4, <2>1, <2>2 DEF Calls
  <2>6. Shown(H) = Shown(G) /\ Slots(H)
    BY <1>4, <2>5 DEF Shown, Slots
  <2>7. Ok(H)
    BY <1>2, <2>5, <2>6 DEF Ok
  <2>8. \A r \in 1..(k - m) : slots[r] # pendingClick => slots[r] \notin ToSet(H.held) \cup H.active
    <3>1. A \subseteq G.active
      BY DEF A
    <3> QED
      BY <1>2, <1>6, <1>9, <2>3, <2>4, <2>5, <3>1
  <2>9. \A j \in (k + 1)..N : H.order[j - m] = j
    BY <1>2, <1>10, <2>5
  <2>10. HeardTo(H, k, m, U)
    BY <1>2, <1>11, <2>5, <2>6, <2>7, <2>8, <2>9 DEF HeardTo, N
  <2> QED
    BY <2>10 DEF H
<1>15. CASE t # pendingClick /\ t \notin Bin /\ G.place[t] # "held"
  <2>1. G.place[t] # "world"
    BY <1>4, <1>6 DEF Matches, Watched
  <2>2. H = G
    BY <1>8, <1>15, <2>1 DEF OtherClicked
  <2>3. t \notin ToSet(G.held) \cup G.active
    BY <1>4, <1>6, <1>15 DEF Matches
  <2> QED
    BY <1>12, <2>2, <2>3 DEF H
<1>16. CASE t # pendingClick /\ t \notin Bin /\ G.place[t] = "held"
  <2>1. H = Moved(G, t, "pack")
    BY <1>8, <1>16 DEF OtherClicked
  <2>2. /\ Ok(H) /\ H.place = [G.place EXCEPT ![t] = "pack"] /\ H.active = G.active
        /\ Shown(H) = slots /\ Len(H.item) = N + m + 1
        /\ H.order = Append(RemoveAt(G.order, q), N + m + 1)
    <3>1. "pack" \in Places /\ "pack" \in Watched /\ "held" \in Watched
      BY DEF Places, Watched
    <3> QED
      BY <1>2, <1>6, <1>7, <1>16, <2>1, <3>1, MovedFacts
  <2> DEFINE V == U \cup {t}
             n == m + 1
  <2>3. t \notin U
    BY <1>2, <1>6, <1>16
  <2>4. place[t] = "held" /\ t \in ToSet(held)
    BY <1>1, <1>2, <1>6, <1>16, <2>3 DEF Matches, Item
  <2>5. IsFiniteSet(V) /\ Cardinality(V) = n
    BY <1>2, <2>3, FS_AddElement
  <2>6. V \subseteq ToSet(held) /\ pendingClick \notin V
    BY <1>2, <1>16, <2>4
  <2>7. ASSUME NEW u \in Item PROVE H.place[u] = IF u \in V THEN "pack" ELSE place[u]
    <3>1. G.place \in [Item -> Places]
      BY <1>4 DEF Calls
    <3> QED
      BY <1>2, <2>2, <3>1
  <2>8. ASSUME NEW j \in (k + 1)..N PROVE H.order[j - n] = j
    <3> DEFINE o == RemoveAt(G.order, q)
               i == j - n
    <3>1. q \in 1..Len(G.order)
      BY <1>3, <1>5
    <3>2. /\ o \in Seq(Nat) /\ Len(o) = N - 1
          /\ \A r \in 1..(N - 1) : o[r] = IF r < q THEN G.order[r] ELSE G.order[r + 1]
      <4>1. /\ o \in Seq(Nat) /\ Len(o) = Len(G.order) - 1
            /\ \A r \in 1..(Len(G.order) - 1) : o[r] = IF r < q THEN G.order[r] ELSE G.order[r + 1]
        BY <1>4, <3>1, RemoveAtFacts
      <4> QED
        BY <1>5, <4>1
    <3> HIDE DEF o
    <3>3. i \in 1..(N - 1) /\ ~(i < q) /\ i + 1 = j - m /\ j \in k..N
      BY <1>1, <1>2, <1>3
    <3>4. o[i] = j
      BY <1>2, <3>2, <3>3
    <3>5. Append(o, N + m + 1)[i] = o[i]
      BY <3>2, <3>3
    <3> QED
      BY <2>2, <3>4, <3>5 DEF o
  <2>9. \A r \in 1..(k - n) : slots[r] # pendingClick => slots[r] \notin ToSet(H.held) \cup H.active
    <3>1. \A r \in 1..(k - n) : r \in 1..(k - 1 - m) /\ r \in 1..N
      BY <1>1, <1>2, <1>3
    <3>2. Matches(H.place, ToSet(slots), ToSet(H.held))
      BY <2>2 DEF Ok
    <3>3. ToSet(H.held) \cap Item \subseteq ToSet(G.held)
      BY <1>4, <2>2, <2>7, <1>2, <3>2, <1>6 DEF Matches
    <3>4. \A r \in 1..N : slots[r] \in Item
      BY <1>1
    <3> QED
      BY <1>2, <2>2, <3>1, <3>3, <3>4
  <2>10. n \in 0..k /\ N + n = N + m + 1
    BY <1>1, <1>2
  <2> HIDE DEF V, n
  <2>11. Len(H.item) = N + n
    BY <2>2, <2>10
  <2>12. HeardTo(H, k, n, V)
    BY <2>2, <2>5, <2>6, <2>7, <2>8, <2>9, <2>10, <2>11 DEF HeardTo, N
  <2> QED
    BY <2>12 DEF H
<1> QED
  BY <1>12, <1>13, <1>14, <1>15, <1>16 DEF H

\* What each slot that hears keeps holds when all have heard: P[n] are the states of a call
\* in which it does after n of them.
LEMMA AllHeardFold ==
  ASSUME NEW N \in Nat, N = Len(slots), NEW P \in [0..N -> SUBSET Calls], Now \in P[0],
         \A n \in 1..N : \A H \in P[n - 1] : Heard(H, n) \in P[n]
  PROVE  AllHeard \in P[N]
<1> DEFINE F == [n \in 1..N |-> [H \in Calls |-> IF Heard(H, n) \in Calls THEN Heard(H, n) ELSE H]]
<1>1. \A n \in 0..N : P[n] \subseteq Calls
  OBVIOUS
<1>2. Now \in Calls
  BY <1>1
<1>3. PICK g \in [0..N -> Calls] : g[0] = Now /\ \A n \in 1..N : g[n] = F[n][g[n - 1]]
  <2> DEFINE a == Now
  <2>1. F \in [1..N -> [Calls -> Calls]] /\ a \in Calls
    BY <1>2
  <2> HIDE DEF F, a
  <2>2. \E g : Stepwise(g, Calls, F, a, N)
    BY <2>1, StepsExist
  <2> QED
    BY <2>2 DEF Stepwise, a
<1>4. ASSUME NEW n \in 1..N
      PROVE  g[n] = IF Heard(g[n - 1], n) \in Calls THEN Heard(g[n - 1], n) ELSE g[n - 1]
  <2>1. n - 1 \in 0..N
    OBVIOUS
  <2>2. g[n - 1] \in Calls
    BY <2>1
  <2> QED
    BY <1>3, <2>2
<1> HIDE DEF F
<1>5. ASSUME NEW f, f[0] = Now,
             \A n \in 1..N : Heard(f[n - 1], n) \in Calls => f[n] = Heard(f[n - 1], n)
      PROVE  \A n \in 0..N : f[n] \in P[n]
  <2> DEFINE S == {n \in 0..N : f[n] \in P[n]}
  <2>1. 0 \in S
    BY <1>5
  <2>2. ASSUME NEW n \in 1..N, n - 1 \in S PROVE n \in S
    <3>1. f[n - 1] \in P[n - 1] /\ n \in 0..N
      BY <2>2
    <3>2. Heard(f[n - 1], n) \in P[n]
      BY <3>1
    <3>3. f[n] = Heard(f[n - 1], n)
      BY <1>1, <1>5, <3>1, <3>2
    <3> QED
      BY <3>1, <3>2, <3>3
  <2> HIDE DEF S
  <2>3. \A n \in 0..N : n \in S
    BY <2>1, <2>2, UpTo
  <2> QED
    BY <2>3 DEF S
<1>6. \A n \in 0..N : g[n] \in P[n]
  BY <1>3, <1>4, <1>5
<1>7. ASSUME NEW n \in 1..N PROVE g[n] = Heard(g[n - 1], n)
  <2>1. n - 1 \in 0..N /\ n \in 0..N
    OBVIOUS
  <2>2. Heard(g[n - 1], n) \in P[n]
    BY <1>6, <2>1
  <2> QED
    BY <1>1, <1>4, <2>1, <2>2
<1> DEFINE Eq(f) == f = [n \in 0..N |-> IF n = 0 THEN Now ELSE Heard(f[n - 1], n)]
           at == CHOOSE f : Eq(f)
<1>8. Eq(g)
  <2>1. ASSUME NEW n \in 0..N PROVE g[n] = IF n = 0 THEN Now ELSE Heard(g[n - 1], n)
    <3>1. n = 0 \/ n \in 1..N
      OBVIOUS
    <3> QED
      BY <1>3, <1>7, <3>1
  <2> QED
    BY <1>3, <2>1
<1>9. Eq(at)
  <2> HIDE DEF Eq
  <2> QED
    BY <1>8
<1>10. AllHeard = at[N]
  BY DEF AllHeard
<1> HIDE DEF at
<1>11. at[0] = Now /\ \A n \in 1..N : at[n] = Heard(at[n - 1], n)
  <2>1. 0 \in 0..N /\ \A n \in 1..N : n \in 0..N /\ n # 0
    OBVIOUS
  <2> QED
    BY <1>9, <2>1
<1>12. N \in 0..N /\ \A n \in 0..N : at[n] \in P[n]
  BY <1>5, <1>11
<1> QED
  BY <1>10, <1>12

\* All have heard.
LEMMA AllHeardFacts ==
  ASSUME Ok(Now), pendingClick # None
  PROVE  \E m, U : HeardTo(AllHeard, Len(slots), m, U)
<1> DEFINE N == Len(slots)
           At(H, n) == \E m, U : HeardTo(H, n, m, U)
           P == [n \in 0..N |-> {H \in Calls : At(H, n)}]
<1>1. N \in Nat /\ Now \in Calls
  <2>1. slots \in Seq(Item)
    BY NowFacts DEF Ok
  <2> QED
    BY <2>1 DEF Ok, Slots
<1>2. At(Now, 0)
  <2>1. /\ Shown(Now) = slots /\ Now.item = slots /\ Now.place = place /\ slots \in Seq(Item)
        /\ place \in [Item -> Places] /\ \A j \in 1..N : Now.order[j] = j
    BY NowFacts DEF Ok
  <2>2. /\ 0 \in 0..0 /\ {} \subseteq ToSet(held) /\ IsFiniteSet({}) /\ Cardinality({}) = 0
        /\ pendingClick \notin {} /\ 1..(0 - 0) = {} /\ N + 0 = N
        /\ \A j \in (0 + 1)..N : j - 0 = j /\ j \in 1..N
    BY <1>1, FS_EmptySet
  <2> HIDE DEF N
  <2>3. Len(Now.item) = N
    BY <2>1 DEF N
  <2>4. HeardTo(Now, 0, 0, {})
    BY <2>1, <2>2, <2>3 DEF HeardTo, N
  <2> QED
    BY <2>4
<1>3. \A H, n : At(H, n) => H \in Calls
  BY DEF HeardTo, Ok, Slots
<1>4. ASSUME NEW n \in 1..N, NEW H, At(H, n - 1) PROVE At(Heard(H, n), n)
  BY <1>4, HeardStep
<1> HIDE DEF At
<1>5. AllHeard \in P[N]
  <2>1. \A n \in 1..N : n \in 0..N /\ n - 1 \in 0..N
    BY <1>1
  <2>2. P \in [0..N -> SUBSET Calls] /\ Now \in P[0]
    BY <1>1, <1>2
  <2>3. \A n \in 1..N : \A H \in P[n - 1] : Heard(H, n) \in P[n]
    BY <1>3, <1>4, <2>1
  <2> HIDE DEF P
  <2> QED
    BY <1>1, <2>2, <2>3, AllHeardFold
<1>6. N \in 0..N
  BY <1>1
<1> QED
  BY <1>5, <1>6 DEF At

\* The state of a call when the slots that are children are numbered anew.
Rest(p, h, s, l, c, a) ==
  [place |-> p, held |-> h, order |-> [i \in DOMAIN s |-> i], item |-> s, last |-> l,
   pending |-> c, active |-> a]

\* It is a state of a call.
LEMMA RestFacts ==
  ASSUME NEW p \in [Item -> Places], NEW h \in Seq(Tool), NEW s \in Seq(Item), NEW l \in Nat,
         NEW c \in Item \cup {None}, NEW a, a \subseteq Bin
  PROVE  LET R == Rest(p, h, s, l, c, a)
         IN  /\ Slots(R) /\ Shown(R) = s /\ R.place = p /\ R.held = h /\ R.pending = c
             /\ R.active = a
             /\ Once(h) /\ Once(s) /\ Matches(p, ToSet(s), ToSet(h)) => Ok(R)
<1> DEFINE R == Rest(p, h, s, l, c, a)
           o == [i \in DOMAIN s |-> i]
<1>1. Len(s) \in Nat /\ DOMAIN s = 1..Len(s) /\ s = [i \in DOMAIN s |-> s[i]]
  OBVIOUS
<1>2. o \in [1..Len(s) -> 1..Len(s)] /\ \A i \in 1..Len(s) : o[i] = i
  BY <1>1
<1>3. /\ R.place = p /\ R.held = h /\ R.order = o /\ R.item = s /\ R.last = l
      /\ R.pending = c /\ R.active = a
      /\ R = [place |-> p, held |-> h, order |-> o, item |-> s, last |-> l,
              pending |-> c, active |-> a]
  BY DEF Rest
<1> HIDE DEF o, R
<1>4. o \in Seq(Nat) /\ DOMAIN o = 1..Len(s)
  <2>1. o \in [1..Len(s) -> Nat]
    BY <1>1, <1>2
  <2> QED
    BY <1>1, <2>1, SeqDef
<1>5. R \in Calls
  BY <1>3, <1>4 DEF Calls
<1>6. Once(o) /\ ToSet(o) \subseteq 1..Len(s)
  BY <1>2, <1>4 DEF Once, ToSet
<1>7. Shown(R) = s
  <2>1. Shown(R) = [i \in 1..Len(s) |-> s[o[i]]]
    BY <1>3, <1>4 DEF Shown
  <2> QED
    BY <1>1, <1>2, <2>1
<1> QED
  BY <1>3, <1>5, <1>6, <1>7 DEF Ok, Slots, R

\* What a call leaves behind holds between calls.
LEMMA BecomesFacts ==
  ASSUME NEW G, Slots(G), Becomes(G)
  PROVE  /\ Slots(Now)' /\ slots' = Shown(G) /\ place' = G.place /\ held' = G.held
         /\ active' = G.active
         /\ Ok(G) => Ok(Now)'
         /\ \A L : Loose(G, L) => Loose(Now', L)
<1>1. /\ G.place \in [Item -> Places] /\ G.held \in Seq(Tool) /\ G.last \in Nat
      /\ G.pending \in Item \cup {None} /\ G.active \subseteq Bin /\ Slots(G)
  BY DEF Slots, Calls
<1>2. Shown(G) \in Seq(Item)
  BY <1>1, ShownFacts
<1>3. PICK R :
        /\ R = Rest(G.place, G.held, Shown(G), G.last, G.pending, G.active)
        /\ Slots(R) /\ Shown(R) = Shown(G) /\ R.place = G.place /\ R.held = G.held
        /\ Once(G.held) /\ Once(Shown(G)) /\ Matches(G.place, ToSet(Shown(G)), ToSet(G.held)) => Ok(R)
  <2>1. PICK p, h, s, l, c, a :
          /\ p = G.place /\ h = G.held /\ s = Shown(G) /\ l = G.last /\ c = G.pending
          /\ a = G.active
    OBVIOUS
  <2>2. /\ p \in [Item -> Places] /\ h \in Seq(Tool) /\ s \in Seq(Item) /\ l \in Nat
        /\ c \in Item \cup {None} /\ a \subseteq Bin
    BY <1>1, <1>2, <2>1
  <2> DEFINE R == Rest(p, h, s, l, c, a)
  <2>3. /\ Slots(R) /\ Shown(R) = s /\ R.place = p /\ R.held = h
        /\ Once(h) /\ Once(s) /\ Matches(p, ToSet(s), ToSet(h)) => Ok(R)
    BY <2>2, RestFacts
  <2>4. R = Rest(G.place, G.held, Shown(G), G.last, G.pending, G.active)
    BY <2>1
  <2> HIDE DEF R
  <2> QED
    BY <2>1, <2>3, <2>4
<1>4. Now' = R
  BY <1>3 DEF Now, Becomes, Rest
<1>5. Ok(G) => Ok(R)
  BY <1>3 DEF Ok
<1>6. ASSUME NEW L, Loose(G, L) PROVE Loose(R, L)
  BY <1>3, <1>6 DEF Loose
<1>7. Slots(Now)' /\ (Ok(G) => Ok(Now)') /\ \A L : Loose(G, L) => Loose(Now', L)
  <2>1. Slots(Now') /\ (Ok(G) => Ok(Now')) /\ \A L : Loose(G, L) => Loose(Now', L)
    BY <1>3, <1>4, <1>5, <1>6
  <2> QED
    BY <2>1 DEF Slots, Ok
<1> QED
  BY <1>7 DEF Becomes

\* The tools the character holds are put away: the panel stays, but for the slots' numbers.
LEMMA AllToolsFacts ==
  ASSUME NEW G, Ok(G)
  PROVE  LET H == MoveAllToolsToBackpack(G)
         IN  /\ Ok(H) /\ H.active = G.active
             /\ \A u \in Item :
                  H.place[u] = IF u \in Tool /\ G.place[u] = "held" THEN "pack" ELSE G.place[u]
             /\ Shown(H) = Shown(G) /\ H.pending \in {G.pending, None}
<1> DEFINE s == G.held
           H == MoveAllToolsToBackpack(G)
<1>1. /\ s \in Seq(Tool) /\ Once(s) /\ \A u \in Item : u \in ToSet(s) <=> u \in Tool /\ G.place[u] = "held"
  BY DEF Ok, Slots, Calls, Matches
<1>2. s \in Seq(Item) /\ ToSet(s) \subseteq Item
  <2>1. s \in Seq(Item)
    BY <1>1 DEF Item
  <2> QED
    BY <2>1 DEF ToSet
<1>3. "pack" \in Watched /\ "held" \in Watched /\ "pack" \in Places
  BY DEF Watched, Places
<1>4. Movable(G, s, "pack")
  BY <1>1, <1>2, <1>3 DEF Movable
<1>5. Carried(G, s, "pack", H, Len(s))
  BY <1>4, AllMovedFacts DEF MoveAllToolsToBackpack
<1>6. \A u : u \in ToSet(s) <=> \E j \in 1..Len(s) : s[j] = u
  BY <1>1 DEF ToSet
<1> HIDE DEF H
<1>7. /\ Ok(H) /\ H.active = G.active
      /\ H.pending \in {G.pending, None}
      /\ \A u \in Item : H.place[u] = IF \E j \in 1..Len(s) : s[j] = u THEN "pack" ELSE G.place[u]
  BY <1>5 DEF Carried
<1>8. Shown(H) = Shown(G)
  BY <1>1, <1>2, <1>3, <1>5 DEF Carried
<1>9. \A u \in Item :
        H.place[u] = IF u \in Tool /\ G.place[u] = "held" THEN "pack" ELSE G.place[u]
  BY <1>1, <1>6, <1>7
<1> QED
  BY <1>7, <1>8, <1>9 DEF H

\* At last the item that was clicked hears of it.
LEMMA ClickedFacts ==
  ASSUME Ok(Now), pendingClick # None, NEW G, NEW m, NEW U, HeardTo(G, Len(slots), m, U)
  PROVE  LET C == Clicked(G, pendingClick)
         IN  /\ Ok(C)
             /\ \/ Shown(C) = slots \/ (~character /\ Shown(C) = Without(slots, pendingClick))
                \/ place[pendingClick] = "world"
             /\ \A u \in U : C.place[u] = "pack"
             /\ \A u \in Item :
                  C.place[u] = "pack" => place[u] = "pack" \/ u \in ToSet(held) \cup {pendingClick}
             /\ \A t \in ToSet(slots) \ {pendingClick} :
                  t \in ToSet(C.held) \cup C.active => t \in ToSet(G.held) \cup G.active
<1> DEFINE p == pendingClick
           C == Clicked(G, p)
<1>1. PICK q : q = pendingClick
  OBVIOUS
<1>2. /\ slots \in Seq(Item) /\ held \in Seq(Tool) /\ Matches(place, ToSet(slots), ToSet(held))
      /\ place \in [Item -> Places]
  BY NowFacts DEF Ok
<1>3. q \in Item
  BY <1>1, NowFacts DEF Ok
<1>4. /\ Ok(G) /\ Shown(G) = slots /\ U \subseteq ToSet(held) /\ q \notin U
      /\ \A u \in Item : G.place[u] = IF u \in U THEN "pack" ELSE place[u]
  BY <1>1 DEF HeardTo
<1>5. G \in Calls /\ G.active \subseteq Bin /\ Matches(G.place, ToSet(slots), ToSet(G.held))
  BY <1>4 DEF Ok, Slots, Calls
<1>6. ToSet(slots) \subseteq Item /\ U \subseteq Item
  <2>1. ToSet(held) \subseteq Tool
    BY <1>2 DEF ToSet
  <2> QED
    BY <1>2, <1>4, <2>1 DEF ToSet, Item
<1>7. /\ \A u \in U : G.place[u] = "pack"
      /\ \A u \in Item : G.place[u] = "pack" => place[u] = "pack" \/ u \in ToSet(held)
  BY <1>4, <1>6
<1>8. G.place[q] = place[q]
  BY <1>3, <1>4
<1>9. "pack" \in Watched /\ "held" \in Watched /\ "gone" \notin Watched /\ "world" \notin Watched
      /\ {"pack", "held", "gone"} \subseteq Places
  BY DEF Watched, Places
<1>10. C = Clicked(G, q)
  BY <1>1
<1> HIDE DEF C
<1>11. CASE q \in Bin
  <2>1. PICK A : A = IF q \in G.active THEN G.active \ {q} ELSE G.active \cup {q}
    OBVIOUS
  <2>2. C = [G EXCEPT !.active = A]
    BY <1>10, <1>11, <2>1 DEF Clicked
  <2>3. A \subseteq Bin /\ \A t : t # q /\ t \in A => t \in G.active
    BY <1>5, <1>11, <2>1
  <2>4. /\ C.place = G.place /\ C.held = G.held /\ C.order = G.order /\ C.item = G.item
        /\ C.active = A /\ C \in Calls
    BY <1>5, <2>2, <2>3 DEF Calls
  <2>5. Shown(C) = Shown(G) /\ Ok(C)
    BY <1>4, <2>4 DEF Shown, Ok, Slots
  <2>6. \A u \in Item : C.place[u] = "pack" => place[u] = "pack" \/ u \in ToSet(held) \cup {q}
    BY <1>7, <2>4
  <2> QED
    BY <1>1, <1>4, <1>7, <2>3, <2>4, <2>5, <2>6 DEF C
<1>12. CASE q \notin Bin /\ G.place[q] = "pack"
  <2> DEFINE H == MoveAllToolsToBackpack(G)
  <2>1. /\ Ok(H) /\ H.active = G.active /\ Shown(H) = slots
        /\ \A u \in Item :
             H.place[u] = IF u \in Tool /\ G.place[u] = "held" THEN "pack" ELSE G.place[u]
    BY <1>4, AllToolsFacts
  <2>2. PICK to \in {"held", "gone"} : /\ to = IF character THEN "held" ELSE "gone"
                                       /\ C = Moved(H, q, to)
    BY <1>10, <1>12 DEF Clicked
  <2> HIDE DEF H
  <2>3. q \in Tool /\ H.place[q] = "pack"
    BY <1>3, <1>12, <2>1 DEF Item
  <2>4. /\ Ok(C) /\ C.place = [H.place EXCEPT ![q] = to] /\ C.active = G.active
        /\ to \in Watched => Shown(C) = Shown(H)
        /\ to \notin Watched => Shown(C) = Without(Shown(H), q)
    <3>1. to \in Places /\ H.place[q] \in Watched
      BY <1>9, <2>2, <2>3
    <3> QED
      BY <1>3, <2>1, <2>2, <3>1, MovedFacts
  <2>5. H.place \in [Item -> Places]
    BY <2>1 DEF Ok, Slots, Calls
  <2>6. \A u \in Item : u # q => C.place[u] = H.place[u]
    BY <2>4, <2>5
  <2>7. \A u \in U : C.place[u] = "pack"
    BY <1>4, <1>6, <1>7, <2>1, <2>6
  <2>8. ASSUME NEW t \in ToSet(slots) \ {q}, t \in ToSet(C.held) \cup C.active
        PROVE  t \in ToSet(G.held) \cup G.active
    <3>1. t \in Item /\ C.place[t] = H.place[t] /\ ~(t \in Tool /\ H.place[t] = "held")
      BY <1>6, <2>1, <2>6
    <3>2. t \notin ToSet(C.held)
      BY <2>4, <3>1 DEF Ok, Matches
    <3> QED
      BY <2>4, <2>8, <3>2
  <2>9. Shown(C) = slots \/ (~character /\ Shown(C) = Without(slots, q))
    BY <1>9, <2>1, <2>2, <2>4
  <2>10. ASSUME NEW u \in Item, C.place[u] = "pack" PROVE place[u] = "pack" \/ u \in ToSet(held) \cup {q}
    <3>1. u = q \/ G.place[u] = "pack" \/ (u \in Tool /\ G.place[u] = "held" /\ place[u] = "held")
      BY <1>4, <2>1, <2>6, <2>10
    <3> QED
      BY <1>2, <1>7, <3>1 DEF Matches
  <2> QED
    BY <1>1, <2>4, <2>7, <2>8, <2>9, <2>10 DEF C
<1>13. CASE q \notin Bin /\ G.place[q] = "held"
  <2>1. C = Moved(G, q, "pack")
    BY <1>10, <1>13 DEF Clicked
  <2>2. /\ Ok(C) /\ C.place = [G.place EXCEPT ![q] = "pack"] /\ C.active = G.active
        /\ Shown(C) = Shown(G)
    <3>1. "pack" \in Places /\ G.place[q] \in Watched
      BY <1>9, <1>13
    <3> QED
      BY <1>3, <1>4, <1>9, <2>1, <3>1, MovedFacts
  <2>3. G.place \in [Item -> Places]
    BY <1>5 DEF Calls
  <2>4. \A u \in Item : u # q => C.place[u] = G.place[u]
    BY <2>2, <2>3
  <2>5. \A u \in U : C.place[u] = "pack"
    BY <1>4, <1>6, <1>7, <2>4
  <2>6. ASSUME NEW t \in ToSet(slots) \ {q}, t \in ToSet(C.held) \cup C.active
        PROVE  t \in ToSet(G.held) \cup G.active
    <3>1. t \in Item /\ C.place[t] = G.place[t]
      BY <1>6, <2>4
    <3>2. t \in ToSet(C.held) <=> t \in ToSet(G.held)
      BY <1>5, <2>2, <3>1 DEF Ok, Matches
    <3> QED
      BY <2>2, <2>6, <3>2
  <2>7. \A u \in Item : C.place[u] = "pack" => place[u] = "pack" \/ u \in ToSet(held) \cup {q}
    BY <1>7, <2>4
  <2> QED
    BY <1>1, <1>4, <2>2, <2>5, <2>6, <2>7 DEF C
<1>14. CASE q \notin Bin /\ G.place[q] = "world"
  <2>1. C = Moved(G, q, "pack") /\ place[q] = "world"
    BY <1>8, <1>10, <1>14 DEF Clicked
  <2>2. Ok(C) /\ C.place = [G.place EXCEPT ![q] = "pack"] /\ C.active = G.active
    BY <1>3, <1>4, <1>9, <2>1, MovedFacts
  <2>3. \A u \in Item : u # q => C.place[u] = G.place[u]
    BY <1>5, <2>2 DEF Calls
  <2>4. \A u \in U : C.place[u] = "pack"
    BY <1>4, <1>6, <1>7, <2>3
  <2>5. ASSUME NEW t \in ToSet(slots) \ {q}, t \in ToSet(C.held) \cup C.active
        PROVE  t \in ToSet(G.held) \cup G.active
    <3>1. t \in Item /\ C.place[t] = G.place[t]
      BY <1>6, <2>3
    <3>2. t \in ToSet(C.held) <=> t \in ToSet(G.held)
      BY <1>5, <2>2, <3>1 DEF Ok, Matches
    <3> QED
      BY <2>2, <2>5, <3>2
  <2>6. \A u \in Item : C.place[u] = "pack" => place[u] = "pack" \/ u \in ToSet(held) \cup {q}
    BY <1>7, <2>3
  <2> QED
    BY <1>1, <2>1, <2>2, <2>4, <2>5, <2>6 DEF C
<1>15. CASE q \notin Bin /\ G.place[q] \notin {"pack", "held", "world"}
  <2>1. C = G
    BY <1>10, <1>15 DEF Clicked
  <2> QED
    BY <1>1, <1>4, <1>7, <2>1 DEF C
<1> QED
  BY <1>11, <1>12, <1>13, <1>14, <1>15

\* Another item, or none, is clicked.
LEMMA PendingFacts ==
  ASSUME NEW G, Slots(G), NEW x \in Item \cup {None}
  PROVE  LET H == [G EXCEPT !.pending = x]
         IN  /\ Slots(H) /\ Shown(H) = Shown(G) /\ H.place = G.place /\ H.held = G.held
             /\ H.active = G.active /\ (Ok(G) => Ok(H)) /\ \A L : Loose(G, L) => Loose(H, L)
<1> DEFINE H == [G EXCEPT !.pending = x]
<1>1. G \in Calls
  BY DEF Slots
<1>2. /\ H \in Calls /\ H.place = G.place /\ H.held = G.held /\ H.order = G.order
      /\ H.item = G.item /\ H.last = G.last /\ H.pending = x /\ H.active = G.active
  BY <1>1 DEF Calls
<1> HIDE DEF H
<1>3. Shown(H) = Shown(G) /\ Slots(H)
  BY <1>2 DEF Shown, Slots
<1>4. (Ok(G) => Ok(H)) /\ \A L : Loose(G, L) => Loose(H, L)
  BY <1>2, <1>3 DEF Ok, Loose
<1> QED
  BY <1>2, <1>3, <1>4 DEF H

\* Between calls the state is that of a call, whether a character went or not.
LEMMA SlotsNow ==
  ASSUME BInv
  PROVE  Slots(Now)
BY DEF BInv, Ok, Loose

\* What a slot shows is clicked.
LEMMA ClickStep ==
  ASSUME BInv, NEW t \in Item, Click(t)
  PROVE  BInv'
<1> DEFINE H == [Now EXCEPT !.pending = t]
<1>1. Slots(Now)
  BY SlotsNow
<1>2. (Ok(Now) => Ok(H)) /\ \A L : Loose(Now, L) => Loose(H, L)
  BY <1>1, PendingFacts
<1>3. Now' = H
  <2> DEFINE o == [i \in DOMAIN slots |-> i]
  <2>1. Now = [place |-> place, held |-> held, order |-> o, item |-> slots,
               last |-> lastRemovedIndex, pending |-> pendingClick, active |-> active]
    BY DEF Now
  <2>2. o' = o /\ Now' = [place |-> place, held |-> held, order |-> o, item |-> slots,
                          last |-> lastRemovedIndex, pending |-> t, active |-> active]
    BY DEF Now, Click
  <2>3. PICK x : x = o
    OBVIOUS
  <2> HIDE DEF o
  <2> QED
    BY <2>1, <2>2, <2>3
<1> HIDE DEF H
<1>4. left' = left /\ character' = character
  BY DEF Click
<1>5. IF left = {} THEN Ok(Now') ELSE Loose(Now', left)
  BY <1>2, <1>3 DEF BInv
<1> QED
  BY <1>4, <1>5 DEF BInv, Ok, Loose, Slots

\* At a heartbeat the other slots hear of the click, then the item: it keeps its slot, and
\* what else was in use is not, but for as many of the last slots as tools were put away.
LEMMA HeartbeatTight ==
  ASSUME Ok(Now), OnHeartbeat
  PROVE  /\ Ok(Now)'
         /\ \/ slots' = slots \/ (~character /\ slots' = Without(slots, pendingClick))
            \/ place[pendingClick] = "world"
         /\ \A t \in ToSet(slots) \ {pendingClick} :
              t \in InUse' => Len(slots) - Find(slots, t) < Cardinality(PutAway)
<1>1. pendingClick # None
  BY DEF OnHeartbeat
<1>2. PICK m, U : HeardTo(AllHeard, Len(slots), m, U)
  BY <1>1, AllHeardFacts
<1> DEFINE C == Clicked(AllHeard, pendingClick)
           D == [C EXCEPT !.pending = None]
           N == Len(slots)
<1>3. /\ Ok(C)
      /\ \/ Shown(C) = slots \/ (~character /\ Shown(C) = Without(slots, pendingClick))
         \/ place[pendingClick] = "world"
      /\ \A u \in U : C.place[u] = "pack"
      /\ \A u \in Item :
           C.place[u] = "pack" => place[u] = "pack" \/ u \in ToSet(held) \cup {pendingClick}
      /\ \A t \in ToSet(slots) \ {pendingClick} :
           t \in ToSet(C.held) \cup C.active => t \in ToSet(AllHeard.held) \cup AllHeard.active
  BY <1>1, <1>2, ClickedFacts
<1>4. /\ m \in 0..N /\ U \subseteq ToSet(held) /\ Cardinality(U) = m /\ Shown(AllHeard) = slots
      /\ \A q \in 1..(N - m) :
           slots[q] # pendingClick => slots[q] \notin ToSet(AllHeard.held) \cup AllHeard.active
  BY <1>2 DEF HeardTo
<1>5. Becomes(D)
  BY DEF OnHeartbeat
<1> HIDE DEF C
<1>6. /\ Ok(D) /\ Shown(D) = Shown(C) /\ D.place = C.place /\ D.held = C.held
      /\ D.active = C.active
  BY <1>3, PendingFacts DEF Ok
<1> HIDE DEF D
<1>7. Ok(Now)' /\ slots' = Shown(C)
  BY <1>5, <1>6, BecomesFacts DEF Ok
<1>8. place' = C.place /\ held' = C.held /\ active' = C.active
  BY <1>5, <1>6 DEF Becomes
<1>9. slots \in Seq(Item) /\ held \in Seq(Tool)
  BY NowFacts DEF Ok
<1>10. m <= Cardinality(PutAway) /\ Cardinality(PutAway) \in Nat
  <2>1. U \subseteq PutAway
    <3>1. \A u \in U : u \in Item /\ place[u] = "held"
      BY <1>4, <1>9, NowFacts DEF Ok, Matches, Item, ToSet
    <3> QED
      BY <1>3, <1>8, <3>1 DEF PutAway
  <2>2. IsFiniteSet(ToSet(held))
    BY <1>9, SeqSetFinite
  <2>3. IsFiniteSet(PutAway)
    <3>1. PutAway \subseteq ToSet(held) \cup {pendingClick}
      BY <1>3, <1>8 DEF PutAway
    <3>2. IsFiniteSet(ToSet(held) \cup {pendingClick})
      BY <2>2, FS_AddElement
    <3> QED
      BY <3>1, <3>2, FS_Subset
  <2> QED
    BY <1>4, <2>1, <2>3, FS_Subset, FS_CardinalityType
<1>11. ASSUME NEW t \in ToSet(slots) \ {pendingClick}, t \in InUse'
       PROVE  Len(slots) - Find(slots, t) < Cardinality(PutAway)
  <2>1. t \in ToSet(AllHeard.held) \cup AllHeard.active
    BY <1>3, <1>8, <1>11 DEF InUse
  <2>2. Find(slots, t) \in 1..N /\ slots[Find(slots, t)] = t
    BY <1>9, FindFacts
  <2>3. ~(Find(slots, t) \in 1..(N - m))
    BY <1>4, <1>11, <2>1, <2>2
  <2>4. N \in Nat /\ m \in Nat
    BY <1>4, <1>9
  <2> HIDE DEF N
  <2>5. N - Find(slots, t) < m
    BY <2>2, <2>3, <2>4
  <2>6. N - Find(slots, t) < Cardinality(PutAway)
    BY <1>10, <2>2, <2>4, <2>5
  <2> QED
    BY <2>6 DEF N
<1> QED
  BY <1>3, <1>7, <1>11

\* How often u is there counts what is finite.
LEMMA CountFacts ==
  ASSUME NEW T, NEW s \in Seq(T), NEW u
  PROVE  /\ IsFiniteSet({i \in DOMAIN s : s[i] = u}) /\ Count(s, u) \in Nat
         /\ u \in ToSet(s) <=> Count(s, u) # 0
         /\ Once(s) => Count(s, u) = IF u \in ToSet(s) THEN 1 ELSE 0
<1> DEFINE I == {i \in DOMAIN s : s[i] = u}
<1>1. DOMAIN s = 1..Len(s) /\ Len(s) \in Nat
  OBVIOUS
<1>2. IsFiniteSet(I)
  <2>1. IsFiniteSet(1..Len(s))
    BY <1>1, FS_Interval
  <2> QED
    BY <1>1, <2>1, FS_Subset
<1>3. Cardinality(I) \in Nat /\ (Cardinality(I) = 0 <=> I = {})
  BY <1>2, FS_CardinalityType, FS_EmptySet
<1>4. u \in ToSet(s) <=> I # {}
  BY DEF ToSet
<1>5. ASSUME Once(s), u \in ToSet(s) PROVE Cardinality(I) = 1
  <2>1. PICK i \in DOMAIN s : s[i] = u
    BY <1>5 DEF ToSet
  <2>2. I = {i}
    BY <1>5, <2>1 DEF Once
  <2> QED
    BY <2>2, FS_Singleton
<1> QED
  BY <1>2, <1>3, <1>4, <1>5 DEF Count

\* z is s with one place more, the f-th.
OneMore(s, z, f) ==
  /\ Len(z) = Len(s) + 1 /\ f \in 1..Len(z)
  /\ \A k \in 1..Len(z) : k # f => z[k] = IF k < f THEN s[k] ELSE s[k - 1]

\* It has what is in that place once more.
LEMMA CountOneMore ==
  ASSUME NEW T, NEW s \in Seq(T), NEW z \in Seq(T), NEW f, NEW u, OneMore(s, z, f)
  PROVE  Count(z, u) = Count(s, u) + (IF z[f] = u THEN 1 ELSE 0)
<1> DEFINE n == Len(s)
           I == {i \in DOMAIN s : s[i] = u}
           K == {i \in DOMAIN z : z[i] = u}
           g == [i \in I |-> IF i < f THEN i ELSE i + 1]
<1>1. n \in Nat /\ DOMAIN s = 1..n /\ DOMAIN z = 1..(n + 1) /\ f \in 1..(n + 1)
  BY DEF OneMore
<1>2. IsFiniteSet(I) /\ IsFiniteSet(K) /\ Count(s, u) = Cardinality(I) /\ Count(z, u) = Cardinality(K)
  <2>1. IsFiniteSet(I) /\ Count(s, u) = Cardinality(I)
    BY CountFacts DEF Count
  <2>2. IsFiniteSet(K) /\ Count(z, u) = Cardinality(K)
    BY CountFacts DEF Count
  <2> QED
    BY <2>1, <2>2
<1>3. \A k \in 1..(n + 1) : k # f => z[k] = IF k < f THEN s[k] ELSE s[k - 1]
  BY DEF OneMore
<1> HIDE DEF n
<1>4. g \in Bijection(I, K \ {f})
  <2>1. ASSUME NEW i \in I PROVE g[i] \in K \ {f}
    <3>1. i \in 1..n /\ s[i] = u
      BY <1>1
    <3>2. CASE i < f
      <4>1. g[i] = i /\ i \in 1..(n + 1) /\ i # f
        BY <1>1, <3>1, <3>2
      <4> QED
        BY <1>1, <1>3, <3>1, <3>2, <4>1
    <3>3. CASE ~(i < f)
      <4>1. g[i] = i + 1 /\ i + 1 \in 1..(n + 1) /\ i + 1 # f /\ ~(i + 1 < f) /\ (i + 1) - 1 = i
        BY <1>1, <3>1, <3>3
      <4>2. z[i + 1] = s[i]
        BY <1>3, <4>1
      <4> QED
        BY <1>1, <3>1, <4>1, <4>2
    <3> QED
      BY <3>2, <3>3
  <2>2. ASSUME NEW i \in I, NEW j \in I, g[i] = g[j] PROVE i = j
    <3>1. i \in 1..n /\ j \in 1..n
      BY <1>1
    <3> QED
      BY <1>1, <2>2, <3>1
  <2>3. ASSUME NEW k \in K \ {f} PROVE \E i \in I : g[i] = k
    <3>1. k \in 1..(n + 1) /\ k # f /\ z[k] = u
      BY <1>1
    <3>2. CASE k < f
      <4>1. k \in 1..n /\ s[k] = u
        BY <1>1, <1>3, <3>1, <3>2
      <4>2. k \in I
        BY <1>1, <4>1
      <4> QED
        BY <3>2, <4>2
    <3>3. CASE ~(k < f)
      <4>1. k - 1 \in 1..n /\ s[k - 1] = u /\ ~(k - 1 < f) /\ (k - 1) + 1 = k
        BY <1>1, <1>3, <3>1, <3>3
      <4>2. k - 1 \in I
        BY <1>1, <4>1
      <4> QED
        BY <4>1, <4>2
    <3> QED
      BY <3>2, <3>3
  <2> HIDE DEF I, K
  <2>4. g \in [I -> K \ {f}]
    <3>1. g = [i \in I |-> g[i]]
      OBVIOUS
    <3> HIDE DEF g
    <3> QED
      BY <2>1, <3>1
  <2> HIDE DEF g
  <2> QED
    BY <2>2, <2>3, <2>4 DEF Bijection, Injection, Surjection, IsInjective
<1> HIDE DEF g
<1>5. Cardinality(K \ {f}) = Cardinality(I)
  BY <1>2, <1>4, FS_Bijection DEF ExistsBijection
<1>6. /\ Cardinality(K \ {f}) = IF f \in K THEN Cardinality(K) - 1 ELSE Cardinality(K)
      /\ Cardinality(K) \in Nat
  BY <1>2, FS_RemoveElement, FS_CardinalityType
<1>7. f \in K <=> z[f] = u
  BY <1>1
<1> HIDE DEF I, K
<1> QED
  BY <1>2, <1>5, <1>6, <1>7

\* What is inserted is there once more, what is removed once less.
LEMMA InsertCount ==
  ASSUME NEW T, NEW s \in Seq(T), NEW f \in 1..(Len(s) + 1), NEW t \in T, NEW u
  PROVE  Count(InsertAt(s, f, t), u) = Count(s, u) + (IF t = u THEN 1 ELSE 0)
<1> DEFINE z == InsertAt(s, f, t)
<1>1. /\ z \in Seq(T) /\ Len(s) \in Nat /\ Len(z) = Len(s) + 1
      /\ \A k \in 1..(Len(s) + 1) : z[k] = IF k < f THEN s[k] ELSE IF k = f THEN t ELSE s[k - 1]
  BY InsertAtFacts
<1> HIDE DEF z
<1>2. \A k \in 1..Len(z) : k # f => z[k] = IF k < f THEN s[k] ELSE s[k - 1]
  BY <1>1
<1>3. f \in 1..Len(z) /\ z[f] = t
  BY <1>1
<1>4. OneMore(s, z, f)
  BY <1>1, <1>2, <1>3 DEF OneMore
<1>5. Count(z, u) = Count(s, u) + (IF z[f] = u THEN 1 ELSE 0)
  BY <1>1, <1>4, CountOneMore
<1> QED
  BY <1>3, <1>5 DEF z

LEMMA RemoveCount ==
  ASSUME NEW T, NEW s \in Seq(T), NEW f \in 1..Len(s), NEW u
  PROVE  Count(s, u) = Count(RemoveAt(s, f), u) + (IF s[f] = u THEN 1 ELSE 0)
<1> DEFINE z == RemoveAt(s, f)
<1>1. /\ z \in Seq(T) /\ Len(s) \in Nat /\ Len(z) = Len(s) - 1
      /\ \A k \in 1..(Len(s) - 1) : z[k] = IF k < f THEN s[k] ELSE s[k + 1]
  BY RemoveAtFacts
<1> HIDE DEF z
<1>2. ASSUME NEW k \in 1..Len(s), k # f PROVE s[k] = IF k < f THEN z[k] ELSE z[k - 1]
  <2>1. CASE k < f
    <3>1. k \in 1..(Len(s) - 1)
      BY <1>1, <2>1
    <3> QED
      BY <1>1, <2>1, <3>1
  <2>2. CASE ~(k < f)
    <3>1. k - 1 \in 1..(Len(s) - 1) /\ ~(k - 1 < f) /\ (k - 1) + 1 = k
      BY <1>1, <1>2, <2>2
    <3> QED
      BY <1>1, <2>2, <3>1
  <2> QED
    BY <2>1, <2>2
<1>3. Len(s) = Len(z) + 1
  BY <1>1
<1>4. OneMore(z, s, f)
  BY <1>1, <1>2, <1>3 DEF OneMore
<1>5. Count(s, u) = Count(z, u) + (IF s[f] = u THEN 1 ELSE 0)
  BY <1>1, <1>4, CountOneMore
<1> QED
  BY <1>5 DEF z

\* A slot each.
LEMMA OneSlot ==
  ASSUME NEW s \in Seq(Item), Once(s), NEW t
  PROVE  Count(s, t) = IF t \in ToSet(s) THEN 1 ELSE 0
BY CountFacts

\* An item is moved when a character went: it takes its slot along, but not the one it had
\* in the character.
LEMMA LooseMoved ==
  ASSUME NEW G, NEW L, Loose(G, L), NEW t \in Item, NEW to \in Places, to # "held"
  PROVE  LET H == Moved(G, t, to)
             n == Len(G.order) + 1
         IN  /\ Loose(H, L) /\ H.place = [G.place EXCEPT ![t] = to] /\ H.active = G.active
             /\ to \in Watched /\ G.place[t] \notin Watched =>
                  /\ H.last = 0 /\ H.order = Append(G.order, Len(G.item) + 1)
                  /\ Len(H.item) = Len(G.item) + 1 /\ FreePlace(G, n) \in 1..n
                  /\ Shown(H) = InsertAt(Shown(G), FreePlace(G, n), t)
             /\ to \notin Watched /\ G.place[t] \in Watched => Shown(H) = Without(Shown(G), t)
<1> DEFINE W == IF HeardLeaving(G.place[t]) THEN Removed(G, t) ELSE G
           P == [G.place EXCEPT ![t] = to]
           M == [W EXCEPT !.place = P, !.held = <<>>]
           H == Moved(G, t, to)
           S == Shown(G)
           n == Len(G.order) + 1
           Here(p) == IF p \in Watched THEN 1 ELSE 0
           Then(u) == IF u \in L THEN 1 ELSE 0
<1>1. /\ Slots(G) /\ G \in Calls /\ G.held = <<>> /\ (\A u \in Item : G.place[u] # "held")
      /\ \A u \in Item : Count(S, u) = Here(G.place[u]) + Then(u)
  BY DEF Loose, Slots
<1>2. /\ S \in Seq(Item) /\ Len(S) = Len(G.order) /\ Len(G.order) \in Nat
      /\ G.place \in [Item -> Places]
  BY <1>1, ShownFacts DEF Calls
<1>3. P \in [Item -> Places] /\ \A u \in Item : P[u] = IF u = t THEN to ELSE G.place[u]
  BY <1>2
<1> HIDE DEF S, P, W
<1>4. /\ Slots(W) /\ W.place = G.place /\ W.held = <<>> /\ W.active = G.active
      /\ \A u \in Item :
           Count(Shown(W), u) = (IF u = t THEN 0 ELSE Here(G.place[u])) + Then(u)
      /\ G.place[t] \notin Watched => W = G
      /\ G.place[t] \in Watched => Shown(W) = Without(S, t)
  <2>1. CASE G.place[t] \in Watched
    <3> DEFINE i == Find(S, t)
    <3>1. Count(S, t) # 0
      BY <1>1, <2>1
    <3>2. t \in ToSet(S)
      BY <1>2, <3>1, CountFacts
    <3>3. W = Remover(G, t)
      BY <2>1, <3>2 DEF W, HeardLeaving, Removed, S
    <3>4. /\ Slots(W) /\ W.place = G.place /\ W.held = G.held /\ W.active = G.active
          /\ i \in 1..Len(G.order) /\ S[i] = t /\ Shown(W) = RemoveAt(S, i)
      BY <1>1, <3>2, <3>3, RemoverFacts DEF S
    <3>6. Shown(W) = Without(S, t)
      BY <3>2, <3>4 DEF Without
    <3> HIDE DEF i
    <3>5. ASSUME NEW u \in Item
          PROVE  Count(Shown(W), u) = (IF u = t THEN 0 ELSE Here(G.place[u])) + Then(u)
      <4>1. Count(S, u) = Count(Shown(W), u) + (IF t = u THEN 1 ELSE 0)
        BY <1>2, <3>4, RemoveCount
      <4>2. Count(S, u) = Here(G.place[u]) + Then(u) /\ Then(u) \in Nat /\ Here(G.place[u]) \in Nat
        BY <1>1
      <4>3. Shown(W) \in Seq(Item)
        BY <3>4, ShownFacts
      <4>4. Count(Shown(W), u) \in Nat
        BY <4>3, CountFacts
      <4>5. u = t => Here(G.place[u]) = 1
        BY <2>1
      <4> HIDE DEF Here, Then
      <4> QED
        BY <4>1, <4>2, <4>4, <4>5
    <3> QED
      BY <1>1, <2>1, <3>4, <3>5, <3>6
  <2>2. CASE G.place[t] \notin Watched
    <3>1. W = G
      BY <2>2 DEF W, HeardLeaving
    <3>2. ASSUME NEW u \in Item
          PROVE  Count(S, u) = (IF u = t THEN 0 ELSE Here(G.place[u])) + Then(u)
      BY <1>1, <2>2
    <3> QED
      BY <1>1, <3>1, <3>2 DEF S
  <2> QED
    BY <2>1, <2>2
<1>5. Without(<<>>, t) = <<>>
  BY DEF Without, ToSet
<1>6. H = IF to \in Watched THEN Insert(M, t) ELSE M
  <2>1. W \in Calls
    BY <1>4 DEF Slots
  <2>2. [W EXCEPT !.place[t] = to,
                  !.held = IF to = "held" /\ t \in Tool THEN Append(Without(@, t), t)
                           ELSE Without(@, t)] = M
    <3>1. [W EXCEPT !.place[t] = to,
                    !.held = IF to = "held" /\ t \in Tool THEN Append(Without(@, t), t)
                             ELSE Without(@, t)]
           = [W EXCEPT !.place = P, !.held = Without(W.held, t)]
      BY <1>4, <2>1 DEF P, Calls
    <3> QED
      BY <1>4, <1>5, <3>1
  <2> QED
    BY <2>2 DEF Moved, W
<1> HIDE DEF M, H
<1>7. /\ M.place = P /\ M.held = <<>> /\ M.order = W.order /\ M.item = W.item
      /\ M.last = W.last /\ M.pending = W.pending /\ M.active = W.active /\ M \in Calls
  <2>1. W \in Calls /\ <<>> \in Seq(Tool)
    BY <1>4 DEF Slots
  <2> QED
    BY <1>3, <2>1 DEF M, Calls
<1>8. Slots(M) /\ Shown(M) = Shown(W)
  BY <1>4, <1>7 DEF Slots, Shown
<1>9. CASE to \notin Watched
  <2>1. H = M
    BY <1>6, <1>9
  <2>2. ASSUME NEW u \in Item PROVE Count(Shown(H), u) = Here(P[u]) + Then(u)
    BY <1>3, <1>4, <1>8, <1>9, <2>1
  <2>3. \A u \in Item : P[u] # "held"
    BY <1>1, <1>3
  <2>4. Loose(H, L)
    BY <1>7, <1>8, <2>1, <2>2, <2>3 DEF Loose
  <2> QED
    BY <1>4, <1>7, <1>8, <1>9, <2>1, <2>4 DEF H, P, S
<1>10. CASE to \in Watched
  <2> DEFINE w == Len(M.order) + 1
             f == FreePlace(M, w)
  <2>1. H = Insert(M, t)
    BY <1>6, <1>10
  <2>2. /\ Slots(H) /\ H.place = P /\ H.held = <<>> /\ H.active = G.active /\ H.last = 0
        /\ H.order = Append(M.order, Len(M.item) + 1) /\ Len(H.item) = Len(M.item) + 1
        /\ f \in 1..w /\ Shown(H) = InsertAt(Shown(W), f, t)
    BY <1>4, <1>7, <1>8, <2>1, InsertFacts
  <2>3. Shown(W) \in Seq(Item) /\ Len(Shown(W)) = Len(M.order)
    BY <1>4, <1>7, ShownFacts
  <2>4. ASSUME G.place[t] \notin Watched
        PROVE  f = FreePlace(G, n) /\ w = n /\ M.item = G.item /\ M.order = G.order /\ Shown(W) = S
    <3>1. W = G
      BY <1>4, <2>4
    <3> QED
      BY <1>7, <3>1 DEF FreePlace, S
  <2> HIDE DEF f
  <2>5. ASSUME NEW u \in Item PROVE Count(Shown(H), u) = Here(P[u]) + Then(u)
    <3>1. Count(Shown(H), u) = Count(Shown(W), u) + (IF t = u THEN 1 ELSE 0)
      BY <2>2, <2>3, InsertCount
    <3>2. Count(Shown(W), u) = (IF u = t THEN 0 ELSE Here(G.place[u])) + Then(u)
      BY <1>4
    <3>3. P[u] = IF u = t THEN to ELSE G.place[u]
      BY <1>3
    <3>4. Then(u) \in Nat /\ Here(G.place[u]) \in Nat /\ Here(to) = 1
      BY <1>10
    <3>5. CASE u = t
      <4>1. Here(P[u]) = 1
        BY <3>3, <3>4, <3>5
      <4> HIDE DEF Here, Then
      <4> QED
        BY <3>1, <3>2, <3>4, <3>5, <4>1
    <3>6. CASE u # t
      <4>1. Here(P[u]) = Here(G.place[u])
        BY <3>3, <3>6
      <4> HIDE DEF Here, Then
      <4> QED
        BY <3>1, <3>2, <3>4, <3>6, <4>1
    <3> QED
      BY <3>5, <3>6
  <2>6. \A u \in Item : P[u] # "held"
    BY <1>1, <1>3
  <2>7. Loose(H, L)
    BY <2>2, <2>5, <2>6 DEF Loose
  <2> QED
    BY <1>10, <2>2, <2>4, <2>7 DEF H, P, S
<1> QED
  BY <1>9, <1>10

\* Nobody is moved.
LEMMA NobodyMoved ==
  ASSUME NEW G, NEW to
  PROVE  AllMoved(G, <<>>, to) = G
<1> DEFINE Eq(f) == f = [n \in 0..Len(<<>>) |-> IF n = 0 THEN G ELSE Moved(f[n - 1], <<>>[n], to)]
           at == CHOOSE f : Eq(f)
           g == [n \in 0..Len(<<>>) |-> G]
<1>1. Len(<<>>) = 0 /\ 0 \in 0..0 /\ \A n \in 0..0 : n = 0
  OBVIOUS
<1>2. Eq(g)
  BY <1>1
<1>3. Eq(at)
  <2> HIDE DEF Eq, g
  <2> QED
    BY <1>2
<1>4. AllMoved(G, <<>>, to) = at[Len(<<>>)]
  BY DEF AllMoved
<1> HIDE DEF at
<1>5. at[0] = G
  BY <1>1, <1>3
<1> QED
  BY <1>1, <1>4, <1>5

\* The first k slots there were have heard of a click, after a character went. Nobody is in
\* use up to there, and nobody moved; or one who lies in the world came in at f, and what is
\* there and behind has moved on by a place.
Quiet(G, t) == t # pendingClick => t \notin G.active
Still(G, k) ==
  Len(G.item) = Len(slots) /\ G.item = slots /\ \A q \in 1..k : Quiet(G, slots[q])
CameIn(G, k, u, f) ==
  /\ G.last = 0 /\ u \in ToSet(slots) /\ place[u] = "world" /\ G.place[u] = "pack"
  /\ \A i \in 1..Len(slots) : i # f => G.item[i] = IF i < f THEN slots[i] ELSE slots[i - 1]
  /\ \A q \in 1..k : q < k \/ q < f => Quiet(G, slots[q])
LooseTo(G, k) ==
  /\ Loose(G, left) /\ Len(G.order) = Len(G.item) /\ Len(slots) <= Len(G.item)
  /\ \A j \in 1..Len(G.item) : G.order[j] = j /\ G.item[j] \in ToSet(slots)
  /\ \A u \in Item : \/ G.place[u] = place[u]
                     \/ /\ G.place[u] = "pack" /\ place[u] = "world"
                        /\ u \in ToSet(slots) \ {pendingClick}
  /\ Still(G, k) \/ \E u \in Item, f \in 1..(Len(slots) + 1) : CameIn(G, k, u, f)

\* Then the panel shows them in the order in which they were made.
LEMMA LooseToShown ==
  ASSUME NEW G, NEW k, LooseTo(G, k)
  PROVE  /\ Shown(G) = G.item /\ G.item \in Seq(Item) /\ Len(G.item) \in Nat
         /\ Slots(G) /\ G.place \in [Item -> Places] /\ G.active \subseteq Bin /\ G.held = <<>>
<1>1. /\ Slots(G) /\ G.item \in Seq(Item) /\ G.order \in Seq(Nat) /\ Len(G.order) = Len(G.item)
      /\ \A j \in 1..Len(G.item) : G.order[j] = j
      /\ G.place \in [Item -> Places] /\ G.active \subseteq Bin /\ G.held = <<>>
  BY DEF LooseTo, Loose, Slots, Calls
<1>2. PICK o, q : o = G.order /\ q = G.item
  OBVIOUS
<1>3. /\ q \in Seq(Item) /\ DOMAIN o = 1..Len(q) /\ Len(q) \in Nat
      /\ \A j \in 1..Len(q) : o[j] = j
  BY <1>1, <1>2
<1>4. Shown(G) = [i \in 1..Len(q) |-> q[o[i]]]
  BY <1>2, <1>3 DEF Shown
<1>5. [i \in 1..Len(q) |-> q[o[i]]] = q
  BY <1>3
<1> QED
  BY <1>1, <1>2, <1>3, <1>4, <1>5

\* The k-th hears.
LEMMA LooseHeard ==
  ASSUME NEW k \in 1..Len(slots), NEW G, LooseTo(G, k - 1), slots \in Seq(Item), pendingClick # None
  PROVE  LooseTo(Heard(G, k), k)
<1> DEFINE x == G.item[k]
           H == Heard(G, k)
           N == Len(slots)
           n == Len(G.order) + 1
           Moves == x # pendingClick /\ x \in Tool /\ G.place[x] = "world"
<1>1. /\ N \in Nat /\ Shown(G) = G.item /\ G.item \in Seq(Item) /\ Len(G.item) \in Nat
      /\ G.active \subseteq Bin /\ G.held = <<>> /\ Slots(G) /\ G \in Calls
  BY LooseToShown DEF Slots
<1>2. /\ Loose(G, left) /\ Len(G.order) = Len(G.item) /\ N <= Len(G.item)
      /\ \A j \in 1..Len(G.item) : G.order[j] = j /\ G.item[j] \in ToSet(slots)
      /\ \A u \in Item : \/ G.place[u] = place[u]
                         \/ /\ G.place[u] = "pack" /\ place[u] = "world"
                            /\ u \in ToSet(slots) \ {pendingClick}
      /\ Still(G, k - 1) \/ \E u \in Item, f \in 1..(N + 1) : CameIn(G, k - 1, u, f)
  BY DEF LooseTo
<1>3. k \in 1..N /\ k \in 1..Len(G.item) /\ x \in Item /\ x \in ToSet(slots)
  BY <1>1, <1>2
<1>4. G.place[x] # "held"
  BY <1>2, <1>3 DEF Loose
<1>5. CASE ~Moves
  <2> DEFINE a == H.active
  <2>1. /\ Loose(H, left) /\ H.order = G.order /\ H.item = G.item /\ H.place = G.place
        /\ H.last = G.last /\ H.active \subseteq G.active /\ Quiet(H, x)
    <3>1. CASE x = pendingClick
      <4>1. H = G
        BY <3>1 DEF Heard
      <4> QED
        BY <1>2, <3>1, <4>1 DEF Quiet
    <3>2. CASE x # pendingClick /\ x \in Bin
      <4>1. H = [G EXCEPT !.active = G.active \ {x}]
        BY <3>2 DEF Heard, OtherClicked
      <4> HIDE DEF H
      <4>2. /\ H \in Calls /\ H.place = G.place /\ H.held = G.held /\ H.order = G.order
            /\ H.item = G.item /\ H.last = G.last /\ H.active = G.active \ {x}
        BY <1>1, <4>1 DEF Calls
      <4>3. Loose(H, left)
        BY <1>2, <4>2 DEF Loose, Slots, Shown
      <4> QED
        BY <4>2, <4>3 DEF Quiet
    <3>3. CASE x # pendingClick /\ x \notin Bin
      <4>1. x \in Tool /\ G.place[x] # "world"
        BY <1>3, <1>5, <3>3 DEF Item
      <4>2. H = G
        BY <1>4, <3>3, <4>1 DEF Heard, OtherClicked
      <4> QED
        BY <1>1, <1>2, <3>3, <4>2 DEF Quiet
    <3> QED
      BY <3>1, <3>2, <3>3
  <2> HIDE DEF H
  <2>2. \A t : Quiet(G, t) => Quiet(H, t)
    BY <2>1 DEF Quiet
  <2>3. ASSUME Still(G, k - 1) PROVE Still(H, k)
    <3>1. x = slots[k]
      BY <2>3 DEF Still
    <3>2. ASSUME NEW q \in 1..k PROVE Quiet(H, slots[q])
      <4>1. q = k \/ q \in 1..(k - 1)
        BY <1>1, <1>3
      <4> QED
        BY <2>1, <2>2, <2>3, <3>1, <4>1 DEF Still
    <3> QED
      BY <2>1, <2>3, <3>2 DEF Still
  <2>4. ASSUME NEW u \in Item, NEW f \in 1..(N + 1), CameIn(G, k - 1, u, f) PROVE CameIn(H, k, u, f)
    <3>1. ASSUME NEW q \in 1..k, q < k \/ q < f PROVE Quiet(H, slots[q])
      <4>1. CASE q \in 1..(k - 1) /\ (q < k - 1 \/ q < f)
        BY <2>2, <2>4, <4>1 DEF CameIn
      <4>2. CASE q = k /\ q < f
        <5>1. x = slots[q]
          BY <1>3, <2>4, <4>2 DEF CameIn
        <5> QED
          BY <2>1, <5>1
      <4>3. CASE q = k - 1 /\ ~(q < f)
        <5>1. k # f /\ ~(k < f) /\ q = k - 1
          BY <1>1, <1>3, <4>3
        <5>2. x = slots[q]
          BY <1>3, <2>4, <5>1 DEF CameIn
        <5> QED
          BY <2>1, <5>2
      <4> QED
        BY <1>1, <1>3, <3>1, <4>1, <4>2, <4>3
    <3> QED
      BY <2>1, <2>4, <3>1 DEF CameIn
  <2>5. Still(H, k) \/ \E u \in Item, f \in 1..(N + 1) : CameIn(H, k, u, f)
    BY <1>2, <2>3, <2>4
  <2> HIDE DEF N
  <2>6. LooseTo(H, k)
    BY <1>2, <2>1, <2>5 DEF LooseTo, N
  <2> QED
    BY <2>6 DEF H
<1>6. CASE Moves
  <2> DEFINE f0 == FreePlace(G, n)
             z == InsertAt(G.item, f0, x)
  <2>1. H = Moved(G, x, "pack")
    <3>1. x \notin Bin
      BY <1>6, BackpackAssumption
    <3> QED
      BY <1>6, <3>1 DEF Heard, OtherClicked
  <2>2. "pack" \in Places /\ "pack" # "held" /\ "pack" \in Watched /\ "world" \notin Watched
    BY DEF Places, Watched
  <2>3. /\ Loose(H, left) /\ H.place = [G.place EXCEPT ![x] = "pack"] /\ H.active = G.active
        /\ H.last = 0 /\ H.order = Append(G.order, Len(G.item) + 1)
        /\ Len(H.item) = Len(G.item) + 1 /\ f0 \in 1..n /\ Shown(H) = z
    <3> DEFINE I == Moved(G, x, "pack")
    <3>1. Loose(G, left) /\ G.place[x] \notin Watched
      BY <1>2, <1>6, <2>2
    <3>2. /\ Loose(I, left) /\ I.place = [G.place EXCEPT ![x] = "pack"] /\ I.active = G.active
          /\ I.last = 0 /\ I.order = Append(G.order, Len(G.item) + 1)
          /\ Len(I.item) = Len(G.item) + 1 /\ f0 \in 1..n
          /\ Shown(I) = InsertAt(Shown(G), f0, x)
      BY <1>3, <2>2, <3>1, LooseMoved
    <3> HIDE DEF I, f0
    <3>3. H = I
      BY <2>1 DEF I
    <3> HIDE DEF H
    <3>4. Shown(G) = G.item
      BY <1>1
    <3> QED
      BY <3>2, <3>3, <3>4
  <2> HIDE DEF H
  <2>4. n = Len(G.item) + 1 /\ (G.last = 0 => f0 = n)
    <3>1. Len(G.order) = Len(G.item)
      BY <1>2
    <3> QED
      BY <3>1 DEF FreePlace
  <2> HIDE DEF f0
  <2>5. /\ z \in Seq(Item) /\ Len(z) = n
        /\ \A i \in 1..n : z[i] = IF i < f0 THEN G.item[i] ELSE IF i = f0 THEN x ELSE G.item[i - 1]
    <3>1. PICK q : q = G.item
      OBVIOUS
    <3>2. q \in Seq(Item) /\ n = Len(q) + 1 /\ f0 \in 1..(Len(q) + 1) /\ x \in Item
      BY <1>1, <1>3, <2>3, <2>4, <3>1
    <3>3. /\ InsertAt(q, f0, x) \in Seq(Item) /\ Len(InsertAt(q, f0, x)) = Len(q) + 1
          /\ \A i \in 1..(Len(q) + 1) :
               InsertAt(q, f0, x)[i] = IF i < f0 THEN q[i] ELSE IF i = f0 THEN x ELSE q[i - 1]
      BY <3>2, InsertAtFacts
    <3> HIDE DEF n
    <3> QED
      BY <3>1, <3>2, <3>3
  <2> HIDE DEF z
  <2>6. G.order \in Seq(Nat)
    BY <1>1 DEF Calls
  <2>7. Len(H.order) = Len(H.item) /\ \A j \in 1..n : H.order[j] = j
    <3>1. Len(H.order) = Len(G.order) + 1
      BY <2>3, <2>6
    <3>2. ASSUME NEW j \in 1..n PROVE H.order[j] = j
      <4>1. j = n \/ j \in 1..Len(G.order)
        BY <1>1, <1>2
      <4> QED
        BY <1>2, <2>3, <2>4, <2>6, <4>1
    <3> QED
      BY <1>2, <2>3, <3>1, <3>2
  <2>8. H.item = z
    <3>1. H \in Calls
      BY <2>3 DEF Loose, Slots
    <3>2. H.item \in Seq(Item) /\ H.order \in Seq(Nat)
      BY <3>1 DEF Calls
    <3>3. PICK o, q : o = H.order /\ q = H.item
      OBVIOUS
    <3>4. Shown(H) = [i \in DOMAIN o |-> q[o[i]]]
      BY <3>3 DEF Shown
    <3>5. q \in Seq(Item) /\ Len(q) = n /\ DOMAIN o = 1..n /\ \A j \in 1..n : o[j] = j
      BY <1>2, <2>3, <2>4, <2>7, <3>2, <3>3
    <3>6. [i \in DOMAIN o |-> q[o[i]]] = q
      BY <3>5
    <3> QED
      BY <2>3, <3>3, <3>4, <3>6
  <2>9. Quiet(H, x) /\ \A t : Quiet(G, t) => Quiet(H, t)
    <3>1. x \notin Bin
      BY <1>6, BackpackAssumption
    <3> QED
      BY <1>1, <2>3, <3>1 DEF Quiet
  <2>10. \A u \in Item : H.place[u] = IF u = x THEN "pack" ELSE G.place[u]
    BY <1>3, <2>3, LooseToShown
  <2>11. place[x] = "world" /\ x \in ToSet(slots) \ {pendingClick}
    BY <1>2, <1>3, <1>6
  <2>12. ASSUME Still(G, k - 1) PROVE CameIn(H, k, x, f0) /\ f0 \in 1..(N + 1)
    <3>1. Len(G.item) = N /\ G.item = slots /\ n = N + 1
      BY <2>4, <2>12 DEF Still
    <3>2. ASSUME NEW i \in 1..N, i # f0
          PROVE  H.item[i] = IF i < f0 THEN slots[i] ELSE slots[i - 1]
      <4>1. i \in 1..n
        BY <1>1, <3>1
      <4> QED
        BY <2>5, <2>8, <3>1, <3>2, <4>1
    <3>3. ASSUME NEW q \in 1..k PROVE Quiet(H, slots[q])
      <4>1. q = k \/ q \in 1..(k - 1)
        BY <1>1, <1>3
      <4> QED
        BY <2>9, <2>12, <3>1, <4>1 DEF Still
    <3>4. H.place[x] = "pack"
      BY <1>3, <2>10
    <3> QED
      BY <2>3, <2>11, <3>1, <3>2, <3>3, <3>4 DEF CameIn
  <2>13. ASSUME NEW u \in Item, NEW f \in 1..(N + 1), CameIn(G, k - 1, u, f) PROVE CameIn(H, k, u, f)
    <3>1. G.last = 0 /\ f0 = n
      BY <2>4, <2>13 DEF CameIn
    <3>2. \A i \in 1..N : H.item[i] = G.item[i]
      <4>1. \A i \in 1..N : i \in 1..n /\ i < n
        BY <1>1, <1>2, <2>4
      <4> QED
        BY <2>5, <2>8, <3>1, <4>1
    <3>3. ASSUME NEW q \in 1..k, q < k \/ q < f PROVE Quiet(H, slots[q])
      <4>1. CASE q \in 1..(k - 1) /\ (q < k - 1 \/ q < f)
        BY <2>9, <2>13, <4>1 DEF CameIn
      <4>2. CASE q = k /\ q < f
        <5>1. x = slots[q]
          BY <1>3, <2>13, <4>2 DEF CameIn
        <5> QED
          BY <2>9, <5>1
      <4>3. CASE q = k - 1 /\ ~(q < f)
        <5>1. k # f /\ ~(k < f) /\ q = k - 1
          BY <1>1, <1>3, <4>3
        <5>2. x = slots[q]
          BY <1>3, <2>13, <5>1 DEF CameIn
        <5> QED
          BY <2>9, <5>2
      <4> QED
        BY <1>1, <1>3, <3>3, <4>1, <4>2, <4>3
    <3>4. H.place[u] = "pack"
      BY <2>10, <2>13 DEF CameIn
    <3>5. \A i \in 1..N : i # f => H.item[i] = IF i < f THEN slots[i] ELSE slots[i - 1]
      BY <2>13, <3>2 DEF CameIn
    <3> QED
      BY <2>3, <2>13, <3>3, <3>4, <3>5 DEF CameIn
  <2>14. \E u \in Item, f \in 1..(N + 1) : CameIn(H, k, u, f)
    BY <1>2, <1>3, <2>12, <2>13
  <2>15. \A j \in 1..n : z[j] \in ToSet(slots)
    <3> SUFFICES ASSUME NEW j \in 1..n PROVE z[j] \in ToSet(slots)
      OBVIOUS
    <3>1. CASE j < f0
      <4>1. j \in 1..Len(G.item)
        BY <1>1, <2>3, <2>4, <3>1
      <4> QED
        BY <1>2, <2>5, <3>1, <4>1
    <3>2. CASE j = f0
      BY <1>3, <2>5, <3>2
    <3>3. CASE ~(j < f0) /\ j # f0
      <4>1. j - 1 \in 1..Len(G.item)
        BY <1>1, <2>3, <2>4, <3>3
      <4> QED
        BY <1>2, <2>5, <3>3, <4>1
    <3> QED
      BY <3>1, <3>2, <3>3
  <2>16. ASSUME NEW u \in Item
         PROVE  \/ H.place[u] = place[u]
                \/ /\ H.place[u] = "pack" /\ place[u] = "world"
                   /\ u \in ToSet(slots) \ {pendingClick}
    BY <1>2, <2>10, <2>11
  <2>17. Len(H.item) = n /\ N <= n
    BY <1>1, <1>2, <2>3, <2>4
  <2>18. \A j \in 1..Len(H.item) : H.order[j] = j /\ H.item[j] \in ToSet(slots)
    BY <2>7, <2>8, <2>15, <2>17
  <2> HIDE DEF n, N
  <2>19. LooseTo(H, k)
    BY <2>3, <2>7, <2>14, <2>16, <2>17, <2>18 DEF LooseTo, N
  <2> QED
    BY <2>19 DEF H
<1> QED
  BY <1>5, <1>6

\* All have heard.
LEMMA LooseAllHeard ==
  ASSUME Loose(Now, left), pendingClick # None
  PROVE  LooseTo(AllHeard, Len(slots))
<1> DEFINE N == Len(slots)
           P == [n \in 0..N |-> {H \in Calls : LooseTo(H, n)}]
<1>1. /\ Slots(Now) /\ Now \in Calls /\ slots \in Seq(Item) /\ N \in Nat
      /\ Now.item = slots /\ Now.place = place /\ Len(Now.order) = N
      /\ \A j \in 1..N : Now.order[j] = j
  BY NowFacts DEF Loose, Slots
<1>2. LooseTo(Now, 0)
  <2>1. \A j \in 1..N : slots[j] \in ToSet(slots)
    BY <1>1 DEF ToSet
  <2>2. Still(Now, 0)
    BY <1>1 DEF Still
  <2> QED
    BY <1>1, <2>1, <2>2 DEF LooseTo
<1>3. \A H, n : LooseTo(H, n) => H \in Calls
  BY DEF LooseTo, Loose, Slots
<1>4. ASSUME NEW n \in 1..N, NEW H, LooseTo(H, n - 1) PROVE LooseTo(Heard(H, n), n)
  BY <1>1, <1>4, LooseHeard
<1>5. AllHeard \in P[N]
  <2>1. \A n \in 1..N : n \in 0..N /\ n - 1 \in 0..N
    BY <1>1
  <2>2. P \in [0..N -> SUBSET Calls] /\ Now \in P[0]
    BY <1>1, <1>2
  <2>3. \A n \in 1..N : \A H \in P[n - 1] : Heard(H, n) \in P[n]
    BY <1>3, <1>4, <2>1
  <2> HIDE DEF P
  <2> QED
    BY <1>1, <2>2, <2>3, AllHeardFold
<1>6. N \in 0..N
  BY <1>1
<1> QED
  BY <1>5, <1>6

\* What was clicked hears last.
LEMMA LooseClicked ==
  ASSUME NEW G, Loose(G, left), pendingClick \in Item, ~character
  PROVE  LET q == pendingClick
             C == Clicked(G, q)
         IN  /\ Loose(C, left)
             /\ \A u \in Item : u # q => C.place[u] = G.place[u]
             /\ C.place[q] \in {G.place[q], "pack", "gone"}
             /\ C.active \ {q} = G.active \ {q}
             /\ \/ Shown(C) = Shown(G) \/ Shown(C) = Without(Shown(G), q)
                \/ q \in Tool /\ G.place[q] = "world" /\ C.place[q] = "pack"
<1> DEFINE q == pendingClick
           C == Clicked(G, q)
<1>1. /\ Slots(G) /\ G \in Calls /\ G.held = <<>> /\ (\A u \in Item : G.place[u] # "held")
      /\ G.place \in [Item -> Places] /\ G.active \subseteq Bin
  BY DEF Loose, Slots, Calls
<1>2. CASE q \in Bin
  <2> DEFINE a == IF q \in G.active THEN G.active \ {q} ELSE G.active \cup {q}
  <2>1. C = [G EXCEPT !.active = a]
    BY <1>2 DEF Clicked
  <2>2. a \subseteq Bin /\ a \ {q} = G.active \ {q}
    BY <1>1, <1>2
  <2> HIDE DEF a, C
  <2>3. /\ C \in Calls /\ C.place = G.place /\ C.held = G.held /\ C.order = G.order
        /\ C.item = G.item /\ C.last = G.last /\ C.active = a
    BY <1>1, <2>1, <2>2 DEF Calls
  <2>4. Loose(C, left) /\ Shown(C) = Shown(G)
    BY <2>3 DEF Loose, Slots, Shown
  <2> QED
    BY <2>2, <2>3, <2>4 DEF C
<1>3. CASE q \notin Bin /\ G.place[q] = "pack"
  <2>1. MoveAllToolsToBackpack(G) = G
    BY <1>1, NobodyMoved DEF MoveAllToolsToBackpack
  <2>2. C = Moved(G, q, "gone")
    BY <1>3, <2>1 DEF Clicked
  <2>3. "gone" \in Places /\ "gone" # "held" /\ "gone" \notin Watched /\ G.place[q] \in Watched
    BY <1>3 DEF Places, Watched
  <2>4. /\ Loose(C, left) /\ C.place = [G.place EXCEPT ![q] = "gone"] /\ C.active = G.active
        /\ Shown(C) = Without(Shown(G), q)
    BY <2>2, <2>3, LooseMoved
  <2> HIDE DEF C
  <2> QED
    BY <1>1, <2>4 DEF C
<1>4. CASE q \notin Bin /\ G.place[q] = "world"
  <2>1. C = Moved(G, q, "pack")
    BY <1>4 DEF Clicked
  <2>2. "pack" \in Places /\ "pack" # "held"
    BY DEF Places, Watched
  <2>3. Loose(C, left) /\ C.place = [G.place EXCEPT ![q] = "pack"] /\ C.active = G.active
    BY <2>1, <2>2, LooseMoved
  <2>4. q \in Tool
    BY <1>4 DEF Item
  <2> HIDE DEF C
  <2> QED
    BY <1>1, <1>4, <2>3, <2>4 DEF C
<1>5. CASE q \notin Bin /\ G.place[q] \notin {"pack", "world"}
  <2>1. C = G
    BY <1>1, <1>5 DEF Clicked
  <2> QED
    BY <1>1, <2>1
<1> QED
  BY <1>2, <1>3, <1>4, <1>5

\* A heartbeat when a character went: only what lies in the world can come in, and then the
\* last slot may be missed.
LEMMA HeartbeatLoose ==
  ASSUME Loose(Now, left), OnHeartbeat, ~character
  PROVE  /\ Loose(Now', left)
         /\ Strays = {} => slots' = slots \/ slots' = Without(slots, pendingClick)
         /\ \A t \in ToSet(slots) \ {pendingClick} :
              t \in InUse' => Len(slots) - Find(slots, t) < Cardinality(PutAway)
<1> DEFINE G == AllHeard
           q == pendingClick
           C == Clicked(G, q)
           D == [C EXCEPT !.pending = None]
           N == Len(slots)
<1>1. /\ Slots(Now) /\ slots \in Seq(Item) /\ N \in Nat /\ place \in [Item -> Places]
      /\ Now.place = place /\ Shown(Now) = slots /\ q \in Item /\ q # None
  BY NowFacts DEF Loose, OnHeartbeat
<1>2. LooseTo(G, N)
  BY <1>1, LooseAllHeard
<1> HIDE DEF G
<1>3. /\ Loose(G, left) /\ Shown(G) = G.item /\ Slots(G) /\ G.active \subseteq Bin
      /\ \A u \in Item : \/ G.place[u] = place[u]
                         \/ G.place[u] = "pack" /\ place[u] = "world" /\ u \in ToSet(slots) \ {q}
      /\ Still(G, N) \/ \E u \in Item, f \in 1..(N + 1) : CameIn(G, N, u, f)
  BY <1>2, LooseToShown DEF LooseTo
<1>4. /\ Loose(C, left)
      /\ \A u \in Item : u # q => C.place[u] = G.place[u]
      /\ C.active \ {q} = G.active \ {q}
      /\ \/ Shown(C) = Shown(G) \/ Shown(C) = Without(Shown(G), q)
         \/ q \in Tool /\ G.place[q] = "world" /\ C.place[q] = "pack"
  BY <1>1, <1>3, LooseClicked
<1>5. Becomes(D)
  BY DEF OnHeartbeat, G
<1> HIDE DEF C
<1>6. /\ Slots(D) /\ Shown(D) = Shown(C) /\ D.place = C.place /\ D.held = C.held
      /\ D.active = C.active /\ Loose(D, left)
  <2>1. Slots(C)
    BY <1>4 DEF Loose
  <2> QED
    BY <1>4, <2>1, PendingFacts
<1> HIDE DEF D
<1>7. /\ Loose(Now', left) /\ slots' = Shown(C) /\ place' = C.place /\ held' = C.held
      /\ active' = C.active
  BY <1>5, <1>6, BecomesFacts
<1>8. ASSUME NEW u \in ToSet(slots), place[u] = "world" PROVE u \in left
  <2>1. u \in Item
    BY <1>1 DEF ToSet
  <2>2. Count(slots, u) # 0
    BY <1>1, CountFacts
  <2>3. Count(slots, u) = IF u \in left THEN 1 ELSE 0
    <3>1. place[u] \notin Watched
      BY <1>8 DEF Watched
    <3>2. (IF u \in left THEN 1 ELSE 0) \in Nat
      OBVIOUS
    <3> QED
      BY <1>1, <2>1, <3>1, <3>2 DEF Loose
  <2> QED
    BY <2>2, <2>3
<1>9. ASSUME Strays = {} PROVE slots' = slots \/ slots' = Without(slots, q)
  <2>1. place[q] # "world" /\ \A u \in ToSet(slots) : place[u] # "world"
    <3>1. \A u \in ToSet(slots) : u \in Item
      BY <1>1 DEF ToSet
    <3> QED
      BY <1>1, <1>8, <1>9, <3>1 DEF Strays
  <2>2. Still(G, N)
    BY <1>3, <2>1 DEF CameIn
  <2>3. Shown(G) = slots
    BY <1>3, <2>2 DEF Still
  <2>4. G.place[q] # "world"
    BY <1>1, <1>3, <2>1
  <2> QED
    BY <1>4, <1>7, <2>3, <2>4
<1>10. ASSUME NEW t \in ToSet(slots) \ {q}, t \in InUse'
       PROVE  N - Find(slots, t) < Cardinality(PutAway)
  <2>1. t \in G.active
    <3>1. C.held = <<>> /\ ToSet(<<>>) = {}
      BY <1>4 DEF Loose, ToSet
    <3>2. t \in active'
      BY <1>7, <1>10, <3>1 DEF InUse
    <3> QED
      BY <1>4, <1>7, <1>10, <3>2
  <2>2. Find(slots, t) \in 1..N /\ slots[Find(slots, t)] = t
    BY <1>1, <1>10, FindFacts
  <2>3. ~Quiet(G, slots[Find(slots, t)])
    BY <1>10, <2>1, <2>2 DEF Quiet
  <2>4. ~Still(G, N)
    BY <2>2, <2>3 DEF Still
  <2>5. PICK u \in Item, f \in 1..(N + 1) : CameIn(G, N, u, f)
    BY <1>3, <2>4
  <2>6. Find(slots, t) = N
    <3>1. ~(Find(slots, t) < N)
      BY <2>2, <2>3, <2>5 DEF CameIn
    <3> QED
      BY <1>1, <2>2, <3>1
  <2>7. u \in PutAway
    <3>1. u # q
      BY <1>1, <1>3, <2>5 DEF CameIn
    <3>2. place[u] # "pack" /\ C.place[u] = "pack"
      BY <1>4, <2>5, <3>1 DEF CameIn
    <3> QED
      BY <1>7, <3>2 DEF PutAway
  <2>8. IsFiniteSet(PutAway)
    <3>1. PutAway \subseteq ToSet(slots) \cup {q}
      BY <1>3, <1>4, <1>7 DEF PutAway
    <3>2. IsFiniteSet(ToSet(slots))
      BY <1>1, SeqSetFinite
    <3>3. IsFiniteSet(ToSet(slots) \cup {q})
      BY <3>2, FS_AddElement
    <3> QED
      BY <3>1, <3>3, FS_Subset
  <2>9. Cardinality(PutAway) \in Nat /\ Cardinality(PutAway) # 0
    BY <2>7, <2>8, FS_CardinalityType, FS_EmptySet
  <2> QED
    BY <1>1, <2>6, <2>9
<1> QED
  BY <1>7, <1>9, <1>10

\* At a heartbeat the other slots hear of the click, then the item: it keeps its slot, and
\* what else was in use is not, but for as many of the last slots as came to the backpack.
LEMMA HeartbeatStep ==
  ASSUME BInv, OnHeartbeat
  PROVE  /\ BInv'
         /\ Strays = {} => slots' = slots \/ (~character /\ slots' = Without(slots, pendingClick))
         /\ \A t \in ToSet(slots) \ {pendingClick} :
              t \in InUse' => Len(slots) - Find(slots, t) < Cardinality(PutAway)
<1>1. left' = left /\ character' = character
  BY DEF OnHeartbeat
<1>2. CASE left = {}
  <2>1. Ok(Now)
    BY <1>2 DEF BInv
  <2>2. /\ Ok(Now)'
        /\ \/ slots' = slots \/ (~character /\ slots' = Without(slots, pendingClick))
           \/ place[pendingClick] = "world"
        /\ \A t \in ToSet(slots) \ {pendingClick} :
             t \in InUse' => Len(slots) - Find(slots, t) < Cardinality(PutAway)
    BY <2>1, HeartbeatTight
  <2>3. place[pendingClick] = "world" => pendingClick \in Strays
    <3>1. pendingClick \in Item
      BY <2>1, NowFacts DEF Ok, OnHeartbeat
    <3> QED
      BY <3>1 DEF Strays
  <2>4. BInv'
    BY <1>1, <1>2, <2>2 DEF BInv
  <2> QED
    BY <2>2, <2>3, <2>4
<1>3. CASE left # {}
  <2>1. Loose(Now, left) /\ ~character
    BY <1>3 DEF BInv
  <2>2. /\ Loose(Now', left)
        /\ Strays = {} => slots' = slots \/ slots' = Without(slots, pendingClick)
        /\ \A t \in ToSet(slots) \ {pendingClick} :
             t \in InUse' => Len(slots) - Find(slots, t) < Cardinality(PutAway)
    BY <2>1, HeartbeatLoose
  <2>3. left' # {} /\ left' \subseteq Item /\ (character' => left' = {}) /\ Loose(Now', left')
    BY <1>1, <1>3, <2>1, <2>2 DEF BInv
  <2>4. BInv'
    BY <2>3 DEF BInv, Loose, Slots
  <2> QED
    BY <2>1, <2>2, <2>4
<1> QED
  BY <1>2, <1>3

\* The character walks into a tool: what it holds is put away, and it holds the tool.
LEMMA HandleTouchedStep ==
  ASSUME BInv, NEW t \in Item, HandleTouched(t)
  PROVE  BInv'
<1> DEFINE H == MoveAllToolsToBackpack(Now)
           M == Moved(H, t, "held")
<1>1. left = {} /\ Ok(Now) /\ left' = left
  BY DEF HandleTouched, BInv
<1>2. Ok(H)
  BY <1>1, AllToolsFacts
<1>3. Becomes(M) /\ "held" \in Places
  BY DEF HandleTouched, Places, Watched
<1> HIDE DEF H
<1>4. Ok(M)
  BY <1>2, <1>3, MovedFacts
<1> HIDE DEF M
<1>5. Ok(Now)'
  BY <1>3, <1>4, BecomesFacts DEF Ok
<1> QED
  BY <1>1, <1>5 DEF BInv

\* A script moves an item, while a character is there or after it went.
LEMMA SetParentStep ==
  ASSUME BInv, NEW t \in Item, NEW to \in Places, SetParent(t, to)
  PROVE  BInv'
<1> DEFINE M == Moved(Now, t, to)
<1>1. Becomes(M) /\ left' = left /\ character' = character /\ (to = "held" => character)
  BY DEF SetParent
<1>2. CASE left = {}
  <2>1. Ok(M)
    BY <1>2, MovedFacts DEF BInv
  <2> HIDE DEF M
  <2>2. Ok(Now)'
    BY <1>1, <2>1, BecomesFacts DEF Ok
  <2> QED
    BY <1>1, <1>2, <2>2 DEF BInv
<1>3. CASE left # {}
  <2>1. to # "held" /\ Loose(Now, left)
    BY <1>1, <1>3 DEF BInv
  <2>2. Loose(M, left)
    BY <2>1, LooseMoved
  <2> HIDE DEF M
  <2>3. Loose(Now', left)
    BY <1>1, <2>2, BecomesFacts DEF Loose
  <2>4. left' # {} /\ left' \subseteq Item /\ (character' => left' = {}) /\ Loose(Now', left')
    BY <1>1, <1>3, <2>3 DEF BInv
  <2> QED
    BY <2>4 DEF BInv, Loose, Slots
<1> QED
  BY <1>2, <1>3

\* A character that goes takes along what it holds; the slots are not told, so that each of
\* these items keeps one.
LEMMA WithoutHeldFacts ==
  ASSUME NEW G, Slots(G)
  PROVE  LET H == WithoutHeld(G)
             L == {t \in Item : G.place[t] = "held"}
         IN  /\ Slots(H) /\ H.held = <<>>
             /\ \A u \in Item : H.place[u] = IF G.place[u] = "held" THEN "gone" ELSE G.place[u]
             /\ Ok(G) => IF L = {} THEN Ok(H) ELSE Loose(H, L)
<1> DEFINE H == WithoutHeld(G)
           L == {t \in Item : G.place[t] = "held"}
           P == [t \in Item |-> IF G.place[t] = "held" THEN "gone" ELSE G.place[t]]
<1>1. /\ G \in Calls /\ G.place \in [Item -> Places] /\ G.held \in Seq(Tool)
  BY DEF Slots, Calls
<1>2. P \in [Item -> Places]
  BY <1>1 DEF Places
<1>3. \A u \in Item : P[u] = IF G.place[u] = "held" THEN "gone" ELSE G.place[u]
  OBVIOUS
<1>4. H = [G EXCEPT !.place = P, !.held = <<>>]
  BY DEF WithoutHeld
<1>5. \A u : u \in L <=> u \in Item /\ G.place[u] = "held"
  OBVIOUS
<1> HIDE DEF P, H, L
<1>6. /\ H \in Calls /\ H.place = P /\ H.held = <<>> /\ H.order = G.order
      /\ H.item = G.item
  <2>1. <<>> \in Seq(Tool)
    OBVIOUS
  <2> QED
    BY <1>1, <1>2, <1>4, <2>1 DEF Calls
<1>7. Shown(H) = Shown(G) /\ Slots(H)
  BY <1>6 DEF Shown, Slots
<1>8. Shown(G) \in Seq(Item)
  BY ShownFacts
<1>9. \A u \in Item : H.place[u] # "held"
  BY <1>3, <1>6
<1>10. ASSUME Ok(G), L = {} PROVE Ok(H)
  <2>1. \A u \in Item : G.place[u] # "held" /\ P[u] = G.place[u]
    BY <1>3, <1>5, <1>10
  <2>2. Once(H.held) /\ ToSet(H.held) = {}
    BY <1>6 DEF Once, ToSet
  <2>3. Matches(H.place, ToSet(Shown(H)), ToSet(H.held))
    BY <1>6, <1>7, <1>10, <2>1, <2>2 DEF Ok, Matches
  <2> QED
    BY <1>7, <1>10, <2>2, <2>3 DEF Ok
<1>11. ASSUME Ok(G) PROVE Loose(H, L)
  <2>1. ASSUME NEW u \in Item
        PROVE  Count(Shown(H), u) = (IF P[u] \in Watched THEN 1 ELSE 0) + (IF u \in L THEN 1 ELSE 0)
    <3>1. Count(Shown(G), u) = IF G.place[u] \in Watched THEN 1 ELSE 0
      BY <1>8, <1>11, OneSlot DEF Ok, Matches
    <3>2. CASE G.place[u] = "held"
      <4>1. G.place[u] \in Watched /\ P[u] = "gone" /\ "gone" \notin Watched /\ u \in L
        BY <1>3, <1>5, <3>2 DEF Watched
      <4> QED
        BY <1>7, <3>1, <4>1
    <3>3. CASE G.place[u] # "held"
      <4>1. P[u] = G.place[u] /\ u \notin L
        BY <1>3, <1>5, <3>3
      <4> QED
        BY <1>7, <3>1, <4>1
    <3> QED
      BY <3>2, <3>3
  <2> QED
    BY <1>6, <1>7, <1>9, <2>1 DEF Loose
<1> QED
  BY <1>3, <1>6, <1>7, <1>10, <1>11 DEF H, L

\* The character is removed.
LEMMA RemoveCharacterStep ==
  ASSUME BInv, RemoveCharacter
  PROVE  BInv'
<1> DEFINE H == WithoutHeld(Now)
           L == {t \in Item : place[t] = "held"}
<1>1. Ok(Now) /\ Becomes(H) /\ left' = L /\ ~character'
  BY DEF BInv, RemoveCharacter
<1>2. Slots(H) /\ (IF L = {} THEN Ok(H) ELSE Loose(H, L))
  <2>1. Now.place = place
    BY DEF Now
  <2> QED
    BY <1>1, <2>1, WithoutHeldFacts DEF Ok
<1> HIDE DEF H
<1>3. L \subseteq Item
  OBVIOUS
<1> HIDE DEF L
<1>4. (L = {} => Ok(Now)') /\ (L # {} => Loose(Now', L))
  BY <1>1, <1>2, BecomesFacts
<1> QED
  BY <1>1, <1>3, <1>4 DEF BInv, Loose, Slots

\* The state of a call when the old backpack is gone, and with it all slots.
Emptied(G) ==
  [G EXCEPT !.place = [t \in Item |-> IF @[t] = "pack" THEN "gone" ELSE @[t]],
            !.order = <<>>, !.item = <<>>, !.last = 0]

\* When nobody holds a tool, nothing is watched then.
LEMMA EmptiedFacts ==
  ASSUME NEW G, Slots(G), G.held = <<>>, \A u \in Item : G.place[u] # "held"
  PROVE  LET H == Emptied(G)
         IN  /\ Ok(H)
             /\ \A u \in Item : H.place[u] = IF G.place[u] = "pack" THEN "gone" ELSE G.place[u]
<1> DEFINE H == Emptied(G)
           P == [t \in Item |-> IF G.place[t] = "pack" THEN "gone" ELSE G.place[t]]
<1>1. /\ G \in Calls /\ G.place \in [Item -> Places]
  BY DEF Slots, Calls
<1>2. P \in [Item -> Places]
  BY <1>1 DEF Places
<1>3. \A u \in Item : P[u] = IF G.place[u] = "pack" THEN "gone" ELSE G.place[u]
  OBVIOUS
<1>4. H = [G EXCEPT !.place = P, !.order = <<>>, !.item = <<>>, !.last = 0]
  BY DEF Emptied
<1> HIDE DEF P, H
<1>5. /\ H \in Calls /\ H.place = P /\ H.held = <<>> /\ H.order = <<>>
      /\ H.item = <<>>
  <2>1. <<>> \in Seq(Nat) /\ <<>> \in Seq(Item) /\ 0 \in Nat
    OBVIOUS
  <2> QED
    BY <1>1, <1>2, <1>4, <2>1 DEF Calls
<1>6. /\ Once(H.order) /\ ToSet(H.order) = {} /\ DOMAIN Shown(H) = {} /\ Once(H.held)
      /\ ToSet(H.held) = {}
  BY <1>5 DEF Once, ToSet, Shown
<1>7. Slots(H) /\ Once(Shown(H)) /\ ToSet(Shown(H)) = {}
  BY <1>5, <1>6 DEF Slots, Once, ToSet
<1>8. \A u \in Item : P[u] \notin Watched
  BY <1>3 DEF Watched
<1>9. Matches(H.place, ToSet(Shown(H)), ToSet(H.held))
  BY <1>5, <1>6, <1>7, <1>8 DEF Matches, Watched
<1> QED
  BY <1>3, <1>5, <1>6, <1>7, <1>9 DEF Ok, H

\* The player gets a character: the backpack is rebuilt, with copies of the starter pack,
\* and then the panel looks at what the character holds.
LEMMA SetCharacterStep ==
  ASSUME BInv, NEW s \in StarterPacks, NEW m \in Models, SetCharacter(s, m)
  PROVE  BInv'
<1> DEFINE W == WithoutHeld(Now)
           E == Emptied(W)
           R == AllMoved(E, s, "pack")
           C == AllMoved(R, m, "held")
<1>1. Slots(Now) /\ Now.place = place
  BY SlotsNow, NowFacts
<1>2. /\ Slots(W) /\ W.held = <<>>
      /\ \A u \in Item : W.place[u] = IF place[u] = "held" THEN "gone" ELSE place[u]
  BY <1>1, WithoutHeldFacts
<1>3. Becomes(C) /\ left' = {}
  BY DEF SetCharacter, Rebuilt, Emptied
<1> HIDE DEF W
<1>4. Ok(E)
  <2>1. \A u \in Item : W.place[u] # "held"
    BY <1>2
  <2> QED
    BY <1>2, <2>1, EmptiedFacts
<1> HIDE DEF E
<1>5. s \in Seq(Item) /\ Once(s)
  <2>1. CASE s = <<>>
    BY <2>1 DEF Once, ToSet
  <2>2. CASE s # <<>>
    <3>1. s \in [1..2 -> Unmade] /\ IsInjective(s)
      BY <2>2 DEF StarterPacks
    <3>2. s \in Seq(Unmade)
      BY <3>1, SeqDef
    <3>3. s \in Seq(Item)
      BY <3>2 DEF Unmade
    <3> QED
      BY <3>1, <3>3 DEF Once, IsInjective
  <2> QED
    BY <2>1, <2>2
<1>6. m \in Seq(Item) /\ Once(m)
  <2>1. CASE m = <<>>
    BY <2>1 DEF Once, ToSet
  <2>2. CASE m # <<>>
    <3>1. PICK t \in Tool : m = <<t>>
      BY <2>2 DEF Models
    <3> QED
      BY <3>1 DEF Once, Item
  <2> QED
    BY <2>1, <2>2
<1>7. "pack" \in Places /\ "held" \in Places
  BY DEF Places, Watched
<1>8. Ok(R)
  <2>1. Movable(E, s, "pack")
    BY <1>4, <1>5, <1>7 DEF Movable
  <2> QED
    BY <2>1, AllMovedFacts DEF Carried
<1> HIDE DEF R
<1>9. Ok(C)
  <2>1. Movable(R, m, "held")
    BY <1>6, <1>7, <1>8 DEF Movable
  <2> QED
    BY <2>1, AllMovedFacts DEF Carried
<1> HIDE DEF C
<1>10. Ok(Now)'
  BY <1>3, <1>9, BecomesFacts DEF Ok
<1> QED
  BY <1>3, <1>10 DEF BInv

\* At first nothing is made, and nothing is shown.
LEMMA InitInvariant == Init => BInv
<1> SUFFICES ASSUME Init PROVE BInv
  OBVIOUS
<1> DEFINE P == [t \in Item |-> "new"]
<1>1. P \in [Item -> Places] /\ \A t \in Item : P[t] = "new"
  BY DEF Places
<1>2. /\ <<>> \in Seq(Tool) /\ <<>> \in Seq(Item) /\ Once(<<>>) /\ ToSet(<<>>) = {} /\ 0 \in Nat
      /\ None \in Item \cup {None} /\ {} \subseteq Bin
  BY DEF Once, ToSet
<1>3. Now = Rest(P, <<>>, <<>>, 0, None, {})
  BY DEF Now, Rest, Init
<1> HIDE DEF P
<1>4. Matches(P, ToSet(<<>>), ToSet(<<>>))
  BY <1>1, <1>2 DEF Matches, Watched
<1>5. Ok(Now)
  BY <1>1, <1>2, <1>3, <1>4, RestFacts
<1> QED
  BY <1>5 DEF BInv, Init

\* Every step keeps it.
LEMMA NextInvariant == BInv /\ [Next]_vars => BInv'
<1> SUFFICES ASSUME BInv, [Next]_vars PROVE BInv'
  OBVIOUS
<1>1. CASE OnHeartbeat
  BY <1>1, HeartbeatStep
<1>2. CASE RemoveCharacter
  BY <1>2, RemoveCharacterStep
<1>3. ASSUME NEW t \in Item, Click(t) PROVE BInv'
  BY <1>3, ClickStep
<1>4. ASSUME NEW t \in Item, HandleTouched(t) PROVE BInv'
  BY <1>4, HandleTouchedStep
<1>5. ASSUME NEW t \in Item, NEW to \in Places, SetParent(t, to) PROVE BInv'
  BY <1>5, SetParentStep
<1>6. ASSUME NEW s \in StarterPacks, NEW m \in Models, SetCharacter(s, m) PROVE BInv'
  BY <1>6, SetCharacterStep
<1>7. CASE UNCHANGED vars
  <2>1. Now' = Now /\ left' = left /\ character' = character
    BY <1>7 DEF Now, vars
  <2> QED
    BY <2>1 DEF BInv, Ok, Loose, Slots
<1> QED
  BY <1>1, <1>2, <1>3, <1>4, <1>5, <1>6, <1>7 DEF Next

-----------------------------------------------------------------------------
\* Between calls each item is shown as often as its place and the character that went
\* account for.
THEOREM InvariantHolds == Spec => []BInv
BY InitInvariant, NextInvariant, PTL DEF Spec

\* What the player has at hand is shown in one slot each; what a removed character held has
\* one more until the backpack is rebuilt, wherever scripts move it.
THEOREM ShownOnceHolds == Spec => []ShownOnce
<1>1. BInv => ShownOnce
  <2> SUFFICES ASSUME BInv PROVE ShownOnce
    OBVIOUS
  <2>1. slots \in Seq(Item) /\ Shown(Now) = slots /\ Now.place = place
    BY SlotsNow, NowFacts
  <2>2. ASSUME NEW t \in Item
        PROVE  Count(slots, t) = (IF place[t] \in Watched THEN 1 ELSE 0) + (IF t \in left THEN 1 ELSE 0)
    <3>1. CASE left = {}
      <4>1. Once(slots) /\ Matches(place, ToSet(slots), ToSet(held))
        BY <3>1, NowFacts DEF BInv, Ok
      <4>2. Count(slots, t) = IF place[t] \in Watched THEN 1 ELSE 0
        BY <2>1, <4>1, OneSlot DEF Matches
      <4> QED
        BY <3>1, <4>2
    <3>2. CASE left # {}
      BY <2>1, <3>2 DEF BInv, Loose
    <3> QED
      BY <3>1, <3>2
  <2> QED
    BY <2>2 DEF ShownOnce, Count
<1> QED
  BY <1>1, InvariantHolds, PTL

\* A click leaves every item in its slot, but for a tool that is clicked without a character,
\* unless it is heard by what lies in the world.
THEOREM ClicksKeepSlotsHolds == Spec => ClicksKeepSlots
<1>1. BInv /\ [Next]_vars =>
        [OnHeartbeat /\ Strays = {} =>
           \/ slots' = slots
           \/ ~character /\ slots' = Without(slots, pendingClick)]_vars
  BY HeartbeatStep
<1> QED
  BY <1>1, InvariantHolds, PTL DEF Spec, ClicksKeepSlots

\* A click puts away what else was in use, but for what is in as many of the last slots as
\* items came to the backpack.
THEOREM ClickPutsAwayHolds == Spec => ClickPutsAway
<1>1. BInv /\ [Next]_vars =>
        [OnHeartbeat =>
           \A t \in ToSet(slots) \ {pendingClick} :
             t \in InUse' => Len(slots) - Find(slots, t) < Cardinality(PutAway)]_vars
  BY HeartbeatStep
<1> QED
  BY <1>1, InvariantHolds, PTL DEF Spec, ClickPutsAway
=============================================================================
