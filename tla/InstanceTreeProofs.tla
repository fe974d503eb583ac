-------------------------- MODULE InstanceTreeProofs --------------------------
(***************************************************************************)
(* InstanceTree for any instances, any number of calls by listeners and    *)
(* any depth: each instance is in the vector of its parent, and there      *)
(* once and in no other, unless a listener moved it in the midst of its    *)
(* own setParent; the provider makes no second service; and while no such  *)
(* move was made, the root has told the truth of all that no listener      *)
(* moved about while a walk was at it.                                     *)
(***************************************************************************)
EXTENDS InstanceTree, SequenceFacts, FiniteSetTheorems, TLAPS

\* A visit that the listeners have, or had, was at an instance.
VisitOK == {v \in Visit : v.step # "due" => v.at # None}
MoveOK == [op : {"move"}, inst : Movable, old : Place, new : Place, walk : Seq(VisitOK),
           pc : {"removing", "removed", "adding", "added", "changed"}]
Frame == MoveOK \cup Sweep

Typed ==
  /\ parent \in [Instance -> Place] /\ children \in [Instance -> Seq(Movable)]
  /\ service \in Service \cup {None} /\ made \subseteq Service /\ provided \subseteq made
  /\ stack \in Seq(Frame)

\* y is in the vector c at one place only.
OnceOf(c, y) == \A i, j \in DOMAIN c : c[i] = y /\ c[j] = y => i = j
Held ==
  /\ \A x, p \in Instance : parent[x] = p => x \in ToSet(children[p])
  /\ \A p \in Instance : \A x \in ToSet(children[p]) \ torn :
       parent[x] = p /\ OnceOf(children[p], x)

\* What a call is about to unlink is where the call found it, and what it is about to link is
\* nowhere, and no call that began since moves it: but for X, whom a listener moved.
IsMove(f) == f.op = "move"
Takes(f) == IsMove(f) /\ f.pc \in {"removing", "removed"}
UnlinkedIn(s, P, X) ==
  \A i \in DOMAIN s : Takes(s[i]) /\ s[i].inst \notin X =>
    /\ P[s[i].inst] = IF s[i].pc = "removed" THEN None ELSE s[i].old
    /\ \A j \in DOMAIN s : j > i /\ IsMove(s[j]) => s[j].inst # s[i].inst
Unlinked == UnlinkedIn(stack, parent, torn)

\* A service that was not made yet is nowhere, nor does a call move it.
MadeIn(s, m) == \A i \in DOMAIN s : IsMove(s[i]) /\ s[i].inst \in Service => s[i].inst \in m
Made == MadeIn(stack, made) /\ \A x \in Service : x \notin made => parent[x] = None

\* While the cache has none, none was ever below the root, and the root made none; unless the
\* first is just being put in place, before any listener hears of it.
Begun(s) ==
  /\ s # <<>> /\ IsMove(Last(s)) /\ Last(s).pc = "removing"
  /\ Last(s).walk = <<>> /\ Last(s).old = None /\ Last(s).new = Root
  /\ Last(s).inst \in Service
Cached ==
  /\ service \in made \cup {None}
  /\ service = None => Service \cap ToSet(children[Root]) = {}
  /\ service = None => provided = {} \/ Begun(stack)

IInv == Typed /\ Held /\ Unlinked /\ Made /\ Cached

-----------------------------------------------------------------------------
\* What stays in a vector when the first entry of an instance goes.
LEMMA RemoveFacts ==
  ASSUME NEW T, NEW q \in Seq(T), NEW e
  PROVE  LET p == RemoveFirst(q, e) IN
         /\ p \in Seq(T) /\ ToSet(p) \subseteq ToSet(q) /\ ToSet(q) \ {e} \subseteq ToSet(p)
         /\ \A y : OnceOf(q, y) => OnceOf(p, y)
         /\ OnceOf(q, e) => e \notin ToSet(p)
<1>1. q \in [1..Len(q) -> T] /\ Len(q) \in Nat /\ DOMAIN q = 1..Len(q)
  OBVIOUS
<1>2. CASE \A i \in 1..Len(q) : q[i] # e
  <2>1. RemoveFirst(q, e) = q
    BY <1>2 DEF RemoveFirst
  <2> QED
    BY <1>1, <1>2, <2>1 DEF ToSet
<1>3. CASE \E i \in 1..Len(q) : q[i] = e
  <2> DEFINE I == {i \in 1..Len(q) : q[i] = e}
             k == SelectInSeq(q, LAMBDA v : v = e)
             p == RemoveAt(q, k)
             Pos(i) == IF i < k THEN i ELSE i + 1
  <2>1. k \in 1..Len(q) /\ q[k] = e
    <3>1. I # {} /\ I \subseteq Nat
      BY <1>3
    <3>2. \E m \in I : \A n \in I : m <= n
      BY <3>1, LeastNat
    <3>3. k = (CHOOSE m \in I : \A n \in I : m <= n)
      BY <3>1 DEF SelectInSeq, Min
    <3>4. k \in I
      BY <3>2, <3>3
    <3> QED
      BY <3>4
  <2>2. RemoveFirst(q, e) = p
    BY <1>3 DEF RemoveFirst
  <2> HIDE DEF k
  <2>3. /\ p \in Seq(T) /\ DOMAIN p = 1..(Len(q) - 1)
        /\ \A i \in 1..(Len(q) - 1) : p[i] = q[Pos(i)]
    <3>1. /\ p \in Seq(T) /\ Len(p) = Len(q) - 1
          /\ \A i \in 1..(Len(q) - 1) : p[i] = IF i < k THEN q[i] ELSE q[i + 1]
      BY <2>1, RemoveAtFacts
    <3>2. DOMAIN p = 1..Len(p)
      BY <3>1
    <3> QED
      BY <3>1, <3>2
  <2> HIDE DEF p
  <2>4. \A i \in 1..(Len(q) - 1) : Pos(i) \in 1..Len(q) /\ Pos(i) # k
    BY <1>1, <2>1
  <2>5. \A i, j \in 1..(Len(q) - 1) : Pos(i) = Pos(j) => i = j
    BY <1>1, <2>1
  <2>6. \A i \in 1..Len(q) : i # k => \E j \in 1..(Len(q) - 1) : Pos(j) = i
    <3> SUFFICES ASSUME NEW i \in 1..Len(q), i # k PROVE \E j \in 1..(Len(q) - 1) : Pos(j) = i
      OBVIOUS
    <3>1. CASE i < k
      <4>1. i \in 1..(Len(q) - 1) /\ Pos(i) = i
        BY <1>1, <2>1, <3>1
      <4> QED
        BY <4>1
    <3>2. CASE i > k
      <4>1. i - 1 \in 1..(Len(q) - 1) /\ Pos(i - 1) = i
        BY <1>1, <2>1, <3>2
      <4> QED
        BY <4>1
    <3> QED
      BY <1>1, <2>1, <3>1, <3>2
  <2> HIDE DEF Pos
  <2>7. ToSet(p) \subseteq ToSet(q)
    BY <1>1, <2>3, <2>4 DEF ToSet
  <2>8. ToSet(q) \ {e} \subseteq ToSet(p)
    <3> SUFFICES ASSUME NEW i \in 1..Len(q), q[i] # e PROVE q[i] \in ToSet(p)
      BY <1>1 DEF ToSet
    <3>1. PICK j \in 1..(Len(q) - 1) : Pos(j) = i
      BY <2>1, <2>6
    <3> QED
      BY <2>3, <3>1 DEF ToSet
  <2>9. ASSUME NEW y, OnceOf(q, y) PROVE OnceOf(p, y)
    BY <1>1, <2>3, <2>4, <2>5, <2>9 DEF OnceOf
  <2>10. ASSUME OnceOf(q, e), NEW i \in 1..(Len(q) - 1) PROVE p[i] # e
    BY <1>1, <2>1, <2>3, <2>4, <2>10 DEF OnceOf
  <2> QED
    BY <2>2, <2>3, <2>7, <2>8, <2>9, <2>10 DEF ToSet
<1> QED
  BY <1>2, <1>3

\* And when one is put in at the end.
LEMMA AppendFacts ==
  ASSUME NEW T, NEW q \in Seq(T), NEW e \in T
  PROVE  LET p == Append(q, e) IN
         /\ p \in Seq(T) /\ ToSet(p) = ToSet(q) \cup {e}
         /\ \A y : OnceOf(q, y) /\ y # e => OnceOf(p, y)
         /\ e \notin ToSet(q) => OnceOf(p, e)
<1> DEFINE p == Append(q, e)
           n == Len(q)
<1>1. /\ p \in Seq(T) /\ n \in Nat /\ DOMAIN q = 1..n /\ DOMAIN p = 1..(n + 1)
      /\ p[n + 1] = e /\ \A i \in 1..n : p[i] = q[i]
  OBVIOUS
<1> HIDE DEF p, n
<1>2. \A i \in 1..(n + 1) : i = n + 1 \/ i \in 1..n
  BY <1>1
<1>3. n + 1 \in 1..(n + 1) /\ \A i \in 1..n : i \in 1..(n + 1)
  BY <1>1
<1>4. ToSet(p) = ToSet(q) \cup {e}
  BY <1>1, <1>2, <1>3 DEF ToSet
<1>5. \A y : OnceOf(q, y) /\ y # e => OnceOf(p, y)
  BY <1>1, <1>2 DEF OnceOf
<1>6. e \notin ToSet(q) => OnceOf(p, e)
  BY <1>1, <1>2 DEF OnceOf, ToSet
<1> QED
  BY <1>1, <1>4, <1>5, <1>6 DEF p

-----------------------------------------------------------------------------
\* The stack without its innermost call.
LEMMA FrontFacts ==
  ASSUME NEW T, NEW s \in Seq(T), s # <<>>
  PROVE  /\ Front(s) \in Seq(T) /\ Last(s) \in T /\ Len(s) \in DOMAIN s
         /\ DOMAIN Front(s) = 1..(Len(s) - 1) /\ DOMAIN s = 1..Len(s) /\ Len(s) \in Nat \ {0}
         /\ Len(Front(s)) = Len(s) - 1
         /\ \A i \in 1..(Len(s) - 1) : Front(s)[i] = s[i]
<1> DEFINE n == Len(s)
<1>1. n \in Nat \ {0} /\ DOMAIN s = 1..n
  OBVIOUS
<1>2. Front(s) \in Seq(T) /\ Len(Front(s)) = n - 1 /\ \A i \in 1..(n - 1) : Front(s)[i] = s[i]
  BY <1>1 DEF Front
<1> QED
  BY <1>1, <1>2 DEF Last

\* The stack with another call as its innermost.
LEMMA ReplaceFacts ==
  ASSUME NEW T, NEW s \in Seq(T), s # <<>>, NEW f \in T
  PROVE  LET r == Append(Front(s), f) IN
         /\ r \in Seq(T) /\ r # <<>> /\ DOMAIN r = DOMAIN s /\ Last(r) = f
         /\ \A i \in DOMAIN s : r[i] = IF i = Len(s) THEN f ELSE s[i]
<1> DEFINE n == Len(s)
           a == Front(s)
           r == Append(a, f)
<1>1. /\ a \in Seq(T) /\ n \in Nat \ {0} /\ DOMAIN s = 1..n /\ Len(a) = n - 1
      /\ \A i \in 1..(n - 1) : a[i] = s[i]
  BY FrontFacts
<1> HIDE DEF a, n
<1>2. /\ r \in Seq(T) /\ Len(r) = n /\ r[n] = f /\ \A i \in 1..(n - 1) : r[i] = a[i]
  <2>1. r \in Seq(T) /\ Len(r) = Len(a) + 1 /\ r[Len(a) + 1] = f /\ \A i \in 1..Len(a) : r[i] = a[i]
    BY <1>1
  <2>2. Len(a) + 1 = n
    BY <1>1
  <2> QED
    BY <1>1, <2>1, <2>2
<1> HIDE DEF r
<1>3. \A i \in 1..n : i = n \/ i \in 1..(n - 1)
  BY <1>1
<1>4. r # <<>> /\ DOMAIN r = 1..n
  BY <1>1, <1>2
<1> QED
  BY <1>1, <1>2, <1>3, <1>4 DEF r, a, n, Last

\* Calls that moved more leave less to say.
LEMMA UnlinkedWider ==
  ASSUME NEW s, NEW P, NEW X, NEW Y, X \subseteq Y, UnlinkedIn(s, P, X)
  PROVE  UnlinkedIn(s, P, Y)
BY DEF UnlinkedIn

\* A call that begins keeps what is said of the calls, if it is counted as one that moves what
\* another is to unlink, and moves no service that was not made.
LEMMA PushFrame ==
  ASSUME NEW s \in Seq(Frame), NEW g \in Frame, NEW P, NEW m, NEW X,
         UnlinkedIn(s, P, X), MadeIn(s, m),
         IsMove(g) => /\ g.pc = "removing" /\ g.old = P[g.inst]
                      /\ \A i \in DOMAIN s : Takes(s[i]) /\ s[i].inst = g.inst => g.inst \in X
                      /\ g.inst \in Service => g.inst \in m
  PROVE  /\ Append(s, g) \in Seq(Frame) /\ Last(Append(s, g)) = g /\ Append(s, g) # <<>>
         /\ UnlinkedIn(Append(s, g), P, X) /\ MadeIn(Append(s, g), m)
<1> DEFINE n == Len(s)
           r == Append(s, g)
<1>1. /\ n \in Nat /\ DOMAIN s = 1..n /\ r \in Seq(Frame) /\ Len(r) = n + 1 /\ DOMAIN r = 1..(n + 1)
      /\ r[n + 1] = g /\ \A i \in 1..n : r[i] = s[i]
  OBVIOUS
<1> HIDE DEF n, r
<1>2. \A i \in 1..(n + 1) : i = n + 1 \/ i \in 1..n
  BY <1>1
<1>3. MadeIn(r, m)
  BY <1>1, <1>2 DEF MadeIn
<1>4. UnlinkedIn(r, P, X)
  <2> SUFFICES ASSUME NEW i \in 1..(n + 1), Takes(r[i]), r[i].inst \notin X
               PROVE  /\ P[r[i].inst] = IF r[i].pc = "removed" THEN None ELSE r[i].old
                      /\ \A j \in 1..(n + 1) : j > i /\ IsMove(r[j]) => r[j].inst # r[i].inst
    BY <1>1 DEF UnlinkedIn
  <2>1. CASE i = n + 1
    <3>1. r[i] = g /\ IsMove(g) /\ g.pc = "removing"
      BY <1>1, <2>1 DEF Takes
    <3>2. \A j \in 1..(n + 1) : ~(j > i)
      BY <1>1, <2>1
    <3> QED
      BY <3>1, <3>2
  <2>2. CASE i \in 1..n
    <3>1. r[i] = s[i] /\ Takes(s[i])
      BY <1>1, <2>2
    <3>2. ASSUME NEW j \in 1..(n + 1), j > i, IsMove(r[j]) PROVE r[j].inst # r[i].inst
      <4>1. CASE j = n + 1
        BY <1>1, <2>2, <3>1, <3>2, <4>1
      <4>2. CASE j \in 1..n
        BY <1>1, <2>2, <3>1, <3>2, <4>2 DEF UnlinkedIn
      <4> QED
        BY <1>2, <4>1, <4>2
    <3> QED
      BY <1>1, <2>2, <3>1, <3>2 DEF UnlinkedIn
  <2> QED
    BY <1>2, <2>1, <2>2
<1>5. r # <<>> /\ Last(r) = g
  BY <1>1 DEF Last
<1> QED
  BY <1>1, <1>3, <1>4, <1>5 DEF r

\* So does a call that returns.
LEMMA PopFrame ==
  ASSUME NEW s \in Seq(Frame), s # <<>>, NEW P, NEW m, NEW X, UnlinkedIn(s, P, X), MadeIn(s, m)
  PROVE  Front(s) \in Seq(Frame) /\ UnlinkedIn(Front(s), P, X) /\ MadeIn(Front(s), m)
<1> DEFINE n == Len(s)
           r == Front(s)
<1>1. /\ r \in Seq(Frame) /\ n \in Nat \ {0} /\ DOMAIN s = 1..n /\ DOMAIN r = 1..(n - 1)
      /\ \A i \in 1..(n - 1) : r[i] = s[i]
  BY FrontFacts
<1> HIDE DEF n, r
<1>2. \A i \in 1..(n - 1) : i \in 1..n
  BY <1>1
<1>3. MadeIn(r, m)
  BY <1>1, <1>2 DEF MadeIn
<1>4. UnlinkedIn(r, P, X)
  BY <1>1, <1>2 DEF UnlinkedIn
<1> QED
  BY <1>1, <1>3, <1>4 DEF r

\* And one that goes on, of what it moves and where to.
LEMMA ReplaceFrame ==
  ASSUME NEW s \in Seq(Frame), s # <<>>, NEW P, NEW m, NEW X, UnlinkedIn(s, P, X), MadeIn(s, m),
         NEW f \in Frame, IsMove(f) <=> IsMove(Last(s)),
         IsMove(f) => /\ f.inst = Last(s).inst /\ f.new = Last(s).new /\ f.old = Last(s).old
                      /\ f.pc = Last(s).pc \/ ~Takes(f)
  PROVE  LET r == Append(Front(s), f) IN
         r \in Seq(Frame) /\ r # <<>> /\ Last(r) = f /\ UnlinkedIn(r, P, X) /\ MadeIn(r, m)
<1> DEFINE n == Len(s)
           r == Append(Front(s), f)
<1>1. /\ r \in Seq(Frame) /\ r # <<>> /\ DOMAIN r = DOMAIN s /\ Last(r) = f
      /\ \A i \in DOMAIN s : r[i] = IF i = n THEN f ELSE s[i]
  BY ReplaceFacts
<1>2. n \in DOMAIN s /\ s[n] = Last(s)
  BY DEF Last
<1> HIDE DEF n, r
<1>3. \A i \in DOMAIN s : /\ IsMove(r[i]) <=> IsMove(s[i])
                          /\ IsMove(r[i]) => /\ r[i].inst = s[i].inst /\ r[i].new = s[i].new
                                             /\ r[i].old = s[i].old
                                             /\ r[i].pc = s[i].pc \/ ~Takes(r[i])
  BY <1>1, <1>2
<1>4. MadeIn(r, m)
  BY <1>1, <1>3 DEF MadeIn
<1>5. \A i \in DOMAIN s : Takes(r[i]) => Takes(s[i]) /\ r[i].pc = s[i].pc
  BY <1>3 DEF Takes
<1>6. UnlinkedIn(r, P, X)
  <2> SUFFICES ASSUME NEW i \in DOMAIN s, Takes(r[i]), r[i].inst \notin X
               PROVE  /\ P[r[i].inst] = IF r[i].pc = "removed" THEN None ELSE r[i].old
                      /\ \A j \in DOMAIN s : j > i /\ IsMove(r[j]) => r[j].inst # r[i].inst
    BY <1>1 DEF UnlinkedIn
  <2>1. IsMove(r[i]) /\ Takes(s[i]) /\ r[i].pc = s[i].pc
    BY <1>5 DEF Takes
  <2> QED
    BY <1>3, <2>1 DEF UnlinkedIn
<1> QED
  BY <1>1, <1>4, <1>6 DEF r

-----------------------------------------------------------------------------
\* What is put on the stack of calls is of its types.
LEMMA VisitsType ==
  ASSUME NEW s \in Seq(Movable), NEW at \in Place
  PROVE  Visits(s, at) \in Seq(VisitOK)
<1>1. Len(s) \in Nat /\ DOMAIN s = 1..Len(s) /\ \A i \in 1..Len(s) : s[i] \in Movable
  OBVIOUS
<1>2. \A x \in Movable : [who |-> x, at |-> at, step |-> "due"] \in VisitOK
  BY DEF VisitOK, Visit
<1>3. Visits(s, at) \in [1..Len(s) -> VisitOK]
  BY <1>1, <1>2 DEF Visits
<1> QED
  BY <1>1, <1>3

\* The call of setParent as it begins.
LEMMA MovingFacts ==
  ASSUME Typed, NEW x \in Movable, NEW q \in Place
  PROVE  LET g == Moving(x, q) IN
         /\ g \in Frame /\ IsMove(g) /\ g.pc = "removing"
         /\ g.inst = x /\ g.old = parent[x] /\ g.new = q
         /\ parent[x] = None => g.walk = <<>>
<1> DEFINE w == IF parent[x] = None \/ Inside(q, parent[x]) THEN <<>>
                ELSE Visits(<<x>>, parent[x])
           g == [op |-> "move", inst |-> x, old |-> parent[x], new |-> q, pc |-> "removing", walk |-> w]
<1>1. x \in Instance /\ parent[x] \in Place
  BY DEF Typed, Movable
<1>2. w \in Seq(VisitOK) /\ (parent[x] = None => w = <<>>)
  <2>1. <<x>> \in Seq(Movable) /\ <<>> \in Seq(VisitOK)
    OBVIOUS
  <2> QED
    BY <1>1, <2>1, VisitsType
<1>3. Moving(x, q) = g
  BY DEF Moving
<1> HIDE DEF w
<1>4. g \in MoveOK
  BY <1>1, <1>2 DEF MoveOK
<1> QED
  BY <1>2, <1>3, <1>4 DEF Frame, IsMove

\* The call of remove or removeAllChildren as it begins.
LEMMA SweepingFacts ==
  ASSUME NEW op \in {"remove", "clear"}, NEW x \in Instance, NEW s \in Seq(Movable)
  PROVE  Sweeping(op, x, s) \in Frame /\ ~IsMove(Sweeping(op, x, s))
BY DEF Sweeping, Frame, Sweep, IsMove

\* A call that is under way.
LEMMA TopFacts ==
  ASSUME Typed, stack # <<>>
  PROVE  /\ Top \in Frame /\ Last(stack) = Top /\ (Top.op = "move" <=> Top \in MoveOK)
         /\ Top.op \in {"move", "remove", "clear"} /\ (Top.op # "move" => Top \in Sweep)
<1>1. Top \in Frame
  BY FrontFacts DEF Typed, Top
<1> QED
  BY <1>1 DEF Frame, MoveOK, Sweep, Top

\* A listener does not run before the first service is in place.
LEMMA WindowFacts ==
  ASSUME Typed, Window \/ stack = <<>>
  PROVE  ~Begun(stack)
<1> SUFFICES ASSUME stack # <<>>, Window, Begun(stack) PROVE FALSE
  BY DEF Begun
<1>1. Top.pc = "removing" /\ Top.walk = <<>>
  BY DEF Begun, Top
<1> QED
  BY <1>1 DEF Window, Visiting, At

-----------------------------------------------------------------------------
\* A step that leaves the tree and the cache as they are, and the calls as they should
\* be, keeps the invariant.
LEMMA CallsOnly ==
  ASSUME IInv, UNCHANGED <<parent, children, service, provided>>, ~Begun(stack),
         made \subseteq made', made' \subseteq Service, torn \subseteq torn',
         stack' \in Seq(Frame), UnlinkedIn(stack', parent, torn'), MadeIn(stack', made')
  PROVE  IInv'
<1>1. Typed'
  BY DEF IInv, Typed
<1>2. Held'
  BY DEF IInv, Held, ToSet, OnceOf
<1>3. Unlinked' /\ Made'
  BY DEF IInv, Unlinked, Made, UnlinkedIn, MadeIn
<1>4. service = None => provided = {}
  BY DEF IInv, Cached
<1>5. Cached'
  BY <1>4 DEF IInv, Cached, ToSet
<1> QED
  BY <1>1, <1>2, <1>3, <1>5 DEF IInv

\* setParent goes on from signal to signal.
LEMMA WalkStep ==
  ASSUME IInv, stack # <<>>, Top.op = "move", NEW f \in MoveOK, Continue(f),
         f.inst = Top.inst, f.old = Top.old, f.new = Top.new, f.pc = Top.pc \/ ~Takes(f),
         UNCHANGED <<parent, children, service, made, torn, provided>>,
         Top.walk # <<>> \/ Top.pc # "removing"
  PROVE  IInv'
<1>1. Typed /\ Unlinked /\ Made /\ stack \in Seq(Frame)
  BY DEF IInv, Typed
<1>2. Last(stack) = Top /\ IsMove(Top) /\ f \in Frame /\ IsMove(f)
  BY DEF Top, IsMove, Frame, MoveOK
<1>3. stack' = Append(Front(stack), f)
  BY DEF Continue, Under
<1> DEFINE r == Append(Front(stack), f)
<1>4. r \in Seq(Frame) /\ UnlinkedIn(r, parent, torn) /\ MadeIn(r, made)
  BY <1>1, <1>2, ReplaceFrame DEF Unlinked, Made
<1>5. ~Begun(stack)
  BY <1>2 DEF Begun
<1> HIDE DEF r
<1>6. stack' = r
  BY <1>3 DEF r
<1>7. made' \subseteq Service
  BY <1>1 DEF Typed
<1> QED
  BY <1>4, <1>5, <1>6, <1>7, CallsOnly

\* What a listener moves of what calls under way are to unlink counts as torn.
LEMMA CaughtFacts ==
  ASSUME NEW x
  PROVE  /\ Caught(x) \subseteq {x}
         /\ \A i \in DOMAIN stack : Takes(stack[i]) /\ stack[i].inst = x => x \in Caught(x)
BY DEF Caught, Unlinking, Takes, IsMove

\* setParent is called, of one that is made by now.
LEMMA MoveStep ==
  ASSUME IInv, MayCall(1), NEW x \in Movable, NEW q \in Place,
         stack' = Append(stack, Moving(x, q)), torn' = torn \cup Caught(x),
         made \subseteq made', made' \subseteq Service, x \in Service => x \in made',
         UNCHANGED <<parent, children, service, provided>>
  PROVE  IInv'
<1> DEFINE g == Moving(x, q)
<1>1. g \in Frame /\ IsMove(g) /\ g.pc = "removing" /\ g.inst = x /\ g.old = parent[x]
  BY MovingFacts DEF IInv
<1> HIDE DEF g
<1>2. Typed /\ stack \in Seq(Frame) /\ UnlinkedIn(stack, parent, torn') /\ MadeIn(stack, made')
  <2>1. UnlinkedIn(stack, parent, torn) /\ torn \subseteq torn'
    BY DEF IInv, Unlinked
  <2>2. UnlinkedIn(stack, parent, torn')
    BY <2>1, UnlinkedWider
  <2> QED
    BY <2>2 DEF IInv, Typed, Made, MadeIn
<1>3. ~Begun(stack)
  BY <1>2, WindowFacts DEF MayCall
<1>4. \A i \in DOMAIN stack : Takes(stack[i]) /\ stack[i].inst = g.inst => g.inst \in torn'
  BY <1>1, CaughtFacts
<1> DEFINE r == Append(stack, g)
<1>5. r \in Seq(Frame) /\ UnlinkedIn(r, parent, torn') /\ MadeIn(r, made')
  BY <1>1, <1>2, <1>4, PushFrame
<1> HIDE DEF r
<1>6. stack' = r
  BY DEF r, g
<1>7. torn \subseteq torn'
  OBVIOUS
<1> QED
  BY <1>3, <1>5, <1>6, <1>7, CallsOnly

\* Instance::setParent is called.
LEMMA SetParentInvariant ==
  ASSUME IInv, NEW x \in Movable, NEW q \in Place, SetParent(x, q)
  PROVE  IInv'
<1>1. /\ MayCall(1) /\ made' = made \cup ({x} \cap Service) /\ torn' = torn \cup Caught(x)
      /\ stack' = Append(stack, Moving(x, q))
      /\ UNCHANGED <<parent, children, service, provided>>
  BY DEF SetParent, treeVars
<1>2. made \subseteq made' /\ made' \subseteq Service /\ (x \in Service => x \in made')
  BY <1>1 DEF IInv, Typed
<1> QED
  BY <1>1, <1>2, MoveStep

\* The class of services is asked for: the one of the cache is put back, or the first one is
\* made.
LEMMA GetServiceInvariant ==
  ASSUME IInv, NEW s \in Service, GetService(s)
  PROVE  IInv'
<1> DEFINE g == Moving(s, Root)
<1>1. /\ MayCall(1) /\ (service = s \/ (service = None /\ s \notin made))
      /\ made' = made \cup {s} /\ provided' = provided \cup ({s} \ made)
      /\ stack' = Append(stack, g) /\ torn' = torn \cup Caught(s)
      /\ UNCHANGED <<parent, children, service>>
  BY DEF GetService, Found, treeVars
<1>2. Typed /\ Held /\ Unlinked /\ Made /\ Cached /\ stack \in Seq(Frame)
  BY DEF IInv, Typed
<1>3. s \in Movable /\ s # None /\ Root \in Place /\ Service \subseteq Instance
  BY TreeAssumption DEF Movable, Place
<1>4. CASE service = s
  <2>1. s \in made /\ made' = made /\ provided' = provided /\ made \subseteq Service
    BY <1>1, <1>2, <1>3, <1>4 DEF Cached, Typed
  <2>2. made \subseteq made' /\ made' \subseteq Service /\ (s \in Service => s \in made')
    BY <2>1
  <2> QED
    BY <1>1, <1>3, <2>1, <2>2, MoveStep
<1>5. CASE service = None /\ s \notin made
  <2>1. /\ g \in Frame /\ IsMove(g) /\ g.pc = "removing" /\ g.inst = s /\ g.old = parent[s]
        /\ g.new = Root /\ (parent[s] = None => g.walk = <<>>)
    BY <1>2, <1>3, MovingFacts
  <2> HIDE DEF g
  <2>2. parent[s] = None /\ provided = {}
    BY <1>1, <1>2, <1>5, WindowFacts DEF Made, Cached, MayCall
  <2>3. UnlinkedIn(stack, parent, torn')
    <3>1. torn \subseteq torn' /\ UnlinkedIn(stack, parent, torn)
      BY <1>1, <1>2 DEF Unlinked
    <3> QED
      BY <3>1, UnlinkedWider
  <2>4. MadeIn(stack, made')
    BY <1>1, <1>2 DEF Made, MadeIn
  <2>5. \A i \in DOMAIN stack : Takes(stack[i]) /\ stack[i].inst = g.inst => g.inst \in torn'
    BY <1>1, <2>1, CaughtFacts
  <2>6. g.inst \in made'
    BY <1>1, <2>1
  <2> DEFINE r == Append(stack, g)
  <2>7. r \in Seq(Frame) /\ Last(r) = g /\ r # <<>> /\ UnlinkedIn(r, parent, torn') /\ MadeIn(r, made')
    BY <1>2, <2>1, <2>3, <2>4, <2>5, <2>6, PushFrame
  <2> HIDE DEF r
  <2>8. stack' = r
    BY <1>1 DEF r
  <2>9. Typed'
    BY <1>1, <1>2, <2>7, <2>8 DEF Typed
  <2>10. Held'
    BY <1>1, <1>2 DEF Held, ToSet, OnceOf
  <2>11. Unlinked' /\ Made'
    BY <1>1, <1>2, <2>7, <2>8 DEF Unlinked, Made
  <2>12. Begun(stack')
    BY <2>1, <2>2, <2>7, <2>8 DEF Begun
  <2>13. Cached'
    BY <1>1, <1>2, <1>5, <2>12 DEF Cached, ToSet
  <2> QED
    BY <2>9, <2>10, <2>11, <2>13 DEF IInv
<1> QED
  BY <1>1, <1>4, <1>5

\* removeAllChildren is called.
LEMMA RemoveAllChildrenInvariant ==
  ASSUME IInv, NEW x \in Instance, RemoveAllChildren(x)
  PROVE  IInv'
<1> DEFINE g == Sweeping("clear", x, <<>>)
           r == Append(stack, g)
<1>1. /\ MayCall(3) /\ stack' = r
      /\ UNCHANGED <<parent, children, service, made, torn, provided>>
  BY DEF RemoveAllChildren, treeVars, pastVars
<1>2. <<>> \in Seq(Movable)
  OBVIOUS
<1>3. g \in Frame /\ ~IsMove(g)
  BY <1>2, SweepingFacts
<1> HIDE DEF g
<1>4. Typed /\ stack \in Seq(Frame) /\ UnlinkedIn(stack, parent, torn) /\ MadeIn(stack, made)
  BY DEF IInv, Typed, Unlinked, Made
<1>5. r \in Seq(Frame) /\ UnlinkedIn(r, parent, torn) /\ MadeIn(r, made)
  BY <1>3, <1>4, PushFrame
<1>6. ~Begun(stack) /\ made' \subseteq Service
  BY <1>1, <1>4, WindowFacts DEF MayCall, Typed
<1> HIDE DEF r
<1> QED
  BY <1>1, <1>5, <1>6, CallsOnly

\* What remove leaves on the stack: itself, and the call that takes away the instance.
LEMMA LeavingFacts ==
  ASSUME IInv, NEW X, NEW s \in Seq(Frame), UnlinkedIn(s, parent, X), MadeIn(s, made),
         NEW x \in Movable,
         parent[x] # None => \A i \in DOMAIN s : Takes(s[i]) /\ s[i].inst = x => x \in X
  PROVE  LET r == s \o <<Sweeping("remove", x, children[x])>> \o Leaving(x) IN
         r \in Seq(Frame) /\ UnlinkedIn(r, parent, X) /\ MadeIn(r, made)
<1> DEFINE a == Sweeping("remove", x, children[x])
           b == Moving(x, None)
           q == Append(s, a)
           r == s \o <<a>> \o Leaving(x)
<1>1. Typed /\ x \in Instance /\ None \in Place /\ children[x] \in Seq(Movable)
  BY DEF IInv, Typed, Movable, Place
<1>2. a \in Frame /\ ~IsMove(a)
  BY <1>1, SweepingFacts
<1>3. /\ b \in Frame /\ IsMove(b) /\ b.pc = "removing" /\ b.inst = x /\ b.old = parent[x]
      /\ b.new = None
  BY <1>1, MovingFacts
<1> HIDE DEF a, b
<1>4. s \o <<a>> = q
  BY <1>2
<1>5. q \in Seq(Frame) /\ UnlinkedIn(q, parent, X) /\ MadeIn(q, made)
  BY <1>2, PushFrame
<1>6. \A i \in DOMAIN q : Takes(q[i]) => i \in DOMAIN s /\ q[i] = s[i]
  <2>1. /\ DOMAIN q = 1..(Len(s) + 1) /\ DOMAIN s = 1..Len(s) /\ Len(s) \in Nat
        /\ q[Len(s) + 1] = a /\ \A k \in 1..Len(s) : q[k] = s[k]
    BY <1>2
  <2>2. ~Takes(a)
    BY <1>2 DEF Takes
  <2> HIDE DEF q
  <2>3. \A i \in DOMAIN q : i = Len(s) + 1 \/ i \in 1..Len(s)
    BY <2>1
  <2> QED
    BY <2>1, <2>2, <2>3
<1> HIDE DEF q
<1>7. CASE parent[x] = None
  <2>1. r = q
    BY <1>4, <1>5, <1>7 DEF Leaving
  <2> QED
    BY <1>5, <2>1 DEF a
<1>8. CASE parent[x] # None
  <2>1. Leaving(x) = <<b>>
    BY <1>8 DEF Leaving, b
  <2>2. r = Append(q, b)
    BY <1>3, <1>4, <1>5, <2>1
  <2>3. x \in Service => x \in made
    BY <1>8 DEF IInv, Made
  <2>4. \A i \in DOMAIN q : Takes(q[i]) /\ q[i].inst = b.inst => b.inst \in X
    BY <1>3, <1>6, <1>8
  <2>5. Append(q, b) \in Seq(Frame) /\ UnlinkedIn(Append(q, b), parent, X) /\ MadeIn(Append(q, b), made)
    BY <1>3, <1>5, <2>3, <2>4, PushFrame
  <2> QED
    BY <2>2, <2>5 DEF a
<1> QED
  BY <1>7, <1>8

\* Instance::remove is called.
LEMMA RemoveInstanceInvariant ==
  ASSUME IInv, NEW x \in Movable, RemoveInstance(x)
  PROVE  IInv'
<1>1. /\ MayCall(3) /\ torn' = torn \cup Caught(x)
      /\ UNCHANGED <<parent, children, service, made, provided>>
      /\ stack' = stack \o <<Sweeping("remove", x, children[x])>> \o Leaving(x)
  BY DEF RemoveInstance, treeVars
<1>2. /\ stack \in Seq(Frame) /\ UnlinkedIn(stack, parent, torn) /\ MadeIn(stack, made)
      /\ Typed /\ torn \subseteq torn' /\ made' \subseteq Service
  BY <1>1 DEF IInv, Typed, Unlinked, Made
<1>3. UnlinkedIn(stack, parent, torn')
  BY <1>2, UnlinkedWider
<1>4. \A i \in DOMAIN stack : Takes(stack[i]) /\ stack[i].inst = x => x \in torn'
  BY <1>1, CaughtFacts
<1>5. stack' \in Seq(Frame) /\ UnlinkedIn(stack', parent, torn') /\ MadeIn(stack', made)
  BY <1>1, <1>2, <1>3, <1>4, LeavingFacts
<1>6. ~Begun(stack)
  BY <1>1, <1>2, WindowFacts DEF MayCall
<1> QED
  BY <1>1, <1>2, <1>5, <1>6, CallsOnly

\* A sweep goes on, or is over.
LEMMA SweepNextInvariant ==
  ASSUME IInv, SweepNext
  PROVE  IInv'
<1>1. /\ Typed /\ stack \in Seq(Frame) /\ UnlinkedIn(stack, parent, torn) /\ MadeIn(stack, made)
      /\ Held /\ Made
  BY DEF IInv, Typed, Unlinked, Made
<1>2. /\ stack # <<>> /\ Top.op \in {"remove", "clear"}
      /\ UNCHANGED <<parent, children, service, made, provided>> /\ made' \subseteq Service
  BY <1>1 DEF SweepNext, Does, treeVars, Typed
<1>3. Top \in Sweep /\ Top = Last(stack) /\ ~IsMove(Top)
  BY <1>1, <1>2, TopFacts DEF IsMove
<1>4. ~Begun(stack)
  BY <1>3 DEF Begun
<1>5. CASE /\ Top.op = "remove" /\ Top.todo # <<>>
           /\ LET c == Head(Top.todo)
              IN  /\ stack' = Under \o <<[Top EXCEPT !.todo = Tail(@)],
                                         Sweeping("remove", c, children[c])>> \o Leaving(c)
                  /\ torn' = IF parent[c] = None THEN torn ELSE torn \cup Caught(c)
  <2> DEFINE c == Head(Top.todo)
             a == [Top EXCEPT !.todo = Tail(Top.todo)]
             b == Sweeping("remove", c, children[c])
             q == Append(Front(stack), a)
  <2>1. c \in Movable /\ Tail(Top.todo) \in Seq(Movable)
    BY <1>3, <1>5 DEF Sweep
  <2>2. a \in Sweep
    BY <1>3, <2>1 DEF Sweep
  <2>3. a \in Frame /\ ~IsMove(a)
    BY <2>2 DEF Frame, Sweep, IsMove
  <2>4. stack' = Under \o <<a, b>> \o Leaving(c) /\ torn' = IF parent[c] = None THEN torn ELSE torn \cup Caught(c)
    BY <1>5
  <2>5. Front(stack) \in Seq(Frame) /\ b \in Frame
    <3>1. c \in Instance /\ children[c] \in Seq(Movable)
      BY <1>1, <2>1 DEF Typed, Movable
    <3> QED
      BY <1>1, <1>2, <3>1, FrontFacts, SweepingFacts
  <2> HIDE DEF a, b, c
  <2>6. q \in Seq(Frame) /\ UnlinkedIn(q, parent, torn) /\ MadeIn(q, made)
    BY <1>1, <1>2, <1>3, <2>3, ReplaceFrame
  <2>7. Under \o <<a, b>> = q \o <<b>>
    <3> DEFINE u == Front(stack)
    <3>1. u \in Seq(Frame)
      BY <2>5
    <3> HIDE DEF u
    <3>2. u \o <<a, b>> = Append(u, a) \o <<b>>
      BY <2>3, <2>5, <3>1
    <3> QED
      BY <3>2 DEF u, Under
  <2>8. \A i \in DOMAIN q : Takes(q[i]) => i \in DOMAIN stack /\ q[i] = stack[i]
    <3>1. DOMAIN q = DOMAIN stack /\ \A i \in DOMAIN stack : q[i] = IF i = Len(stack) THEN a ELSE stack[i]
      BY <1>1, <1>2, <2>3, ReplaceFacts
    <3>2. ~Takes(a)
      BY <2>3 DEF Takes
    <3> HIDE DEF q
    <3> QED
      BY <3>1, <3>2
  <2> HIDE DEF q
  <2>9. torn \subseteq torn' /\ UnlinkedIn(q, parent, torn')
    <3>1. torn \subseteq torn'
      BY <2>4
    <3> QED
      BY <2>6, <3>1, UnlinkedWider
  <2>10. parent[c] # None => \A i \in DOMAIN q : Takes(q[i]) /\ q[i].inst = c => c \in torn'
    BY <2>4, <2>8, CaughtFacts
  <2>11. stack' = q \o <<Sweeping("remove", c, children[c])>> \o Leaving(c)
    BY <2>4, <2>7 DEF b
  <2>12. c \in Movable
    BY <2>1 DEF c
  <2>13. stack' \in Seq(Frame) /\ UnlinkedIn(stack', parent, torn') /\ MadeIn(stack', made)
    BY <2>6, <2>9, <2>10, <2>11, <2>12, LeavingFacts
  <2> QED
    BY <1>2, <1>4, <2>9, <2>13, CallsOnly
<1>6. CASE /\ Top.op = "clear" /\ children[Top.inst] # <<>>
           /\ LET c == Last(children[Top.inst])
              IN  /\ parent[c] # None
                  /\ stack' = Append(stack, Moving(c, None))
                  /\ torn' = torn \cup Caught(c)
  <2> DEFINE p == Top.inst
             x == Last(children[p])
             g == Moving(x, None)
             r == Append(stack, g)
  <2>1. p \in Instance /\ children[p] \in Seq(Movable) /\ children[p] # <<>>
    BY <1>1, <1>3, <1>6 DEF Typed, Sweep
  <2>2. x \in Movable
    BY <2>1, FrontFacts
  <2>3. x \in Service => x \in made
    BY <1>1, <1>6 DEF Made
  <2>4. torn' = torn \cup Caught(x) /\ stack' = r
    BY <1>6
  <2> HIDE DEF p, x
  <2>5. /\ g \in Frame /\ IsMove(g) /\ g.pc = "removing" /\ g.inst = x /\ g.old = parent[x]
        /\ g.new = None
    BY <1>1, <2>2, MovingFacts DEF Place
  <2> HIDE DEF g
  <2>6. torn \subseteq torn' /\ UnlinkedIn(stack, parent, torn')
    <3>1. torn \subseteq torn'
      BY <2>4
    <3> QED
      BY <1>1, <3>1, UnlinkedWider
  <2>7. \A i \in DOMAIN stack : Takes(stack[i]) /\ stack[i].inst = g.inst => g.inst \in torn'
    BY <2>4, <2>5, CaughtFacts
  <2>8. r \in Seq(Frame) /\ UnlinkedIn(r, parent, torn') /\ MadeIn(r, made)
    BY <1>1, <2>3, <2>5, <2>6, <2>7, PushFrame
  <2> HIDE DEF r
  <2> QED
    BY <1>2, <1>4, <2>4, <2>6, <2>8, CallsOnly
<1> QED
  BY <1>5, <1>6 DEF SweepNext, Does

\* A call returns.
LEMMA ReturnsInvariant ==
  ASSUME IInv, SweepDone \/ Return
  PROVE  IInv'
<1>1. Typed /\ stack \in Seq(Frame) /\ UnlinkedIn(stack, parent, torn) /\ MadeIn(stack, made)
  BY DEF IInv, Typed, Unlinked, Made
<1>2. /\ stack # <<>> /\ (Top.op \in {"remove", "clear"} \/ Top.pc = "changed")
      /\ stack' = Front(stack) /\ UNCHANGED <<parent, children, service, made, torn, provided>>
  BY DEF SweepDone, Return, Does, At, treeVars, pastVars, Under
<1>3. ~Begun(stack) /\ made' \subseteq Service
  BY <1>1, <1>2 DEF Begun, Top, IsMove, Typed
<1> DEFINE r == Front(stack)
<1>4. r \in Seq(Frame) /\ UnlinkedIn(r, parent, torn) /\ MadeIn(r, made)
  BY <1>1, <1>2, PopFrame
<1> HIDE DEF r
<1>5. stack' = r
  BY <1>2 DEF r
<1> QED
  BY <1>2, <1>3, <1>4, <1>5, CallsOnly

-----------------------------------------------------------------------------
\* setParent goes on: what it moves, and from where to where, stays.
LEMMA WalkFacts ==
  ASSUME NEW t \in MoveOK, NEW w \in Seq(VisitOK)
  PROVE  LET f == [t EXCEPT !.walk = w] IN
         f \in MoveOK /\ f.inst = t.inst /\ f.old = t.old /\ f.new = t.new /\ f.pc = t.pc
BY DEF MoveOK

\* The visit a walk is at is the first of it, and may be changed for another.
LEMMA FirstVisit ==
  ASSUME NEW w \in Seq(VisitOK), w # <<>>, NEW v \in VisitOK
  PROVE  Head(w) = w[1] /\ w[1] \in VisitOK /\ [w EXCEPT ![1] = v] \in Seq(VisitOK)
<1>1. 1 \in 1..Len(w) /\ Len(w) \in Nat
  OBVIOUS
<1> QED
  BY <1>1

\* What a call is that is on its walk.
LEMMA VisitingFacts ==
  ASSUME IInv, Visiting
  PROVE  /\ stack # <<>> /\ Top \in MoveOK /\ Top.op = "move" /\ Top.walk \in Seq(VisitOK)
         /\ Top.walk # <<>> /\ Current = Top.walk[1] /\ Current \in VisitOK
<1>1. stack # <<>> /\ Top.op = "move" /\ Top.walk # <<>>
  BY DEF Visiting, At, Does
<1>2. Top \in MoveOK
  BY <1>1, TopFacts DEF IInv
<1>3. Top.walk \in Seq(VisitOK)
  BY <1>2 DEF MoveOK
<1>4. Current = Top.walk[1] /\ Current \in VisitOK
  <2> DEFINE w == Top.walk
  <2>1. w \in Seq(VisitOK) /\ w # <<>>
    BY <1>1, <1>3
  <2> HIDE DEF w
  <2>2. Head(w) = w[1] /\ w[1] \in VisitOK
    BY <2>1
  <2> QED
    BY <2>2 DEF w, Current
<1> QED
  BY <1>1, <1>2, <1>3, <1>4

\* The first visit changes.
LEMMA VisitStep ==
  ASSUME IInv, Visiting, NEW v \in VisitOK,
         Continue([Top EXCEPT !.walk = [Top.walk EXCEPT ![1] = v]]),
         UNCHANGED <<parent, children, service, made, torn, provided>>
  PROVE  IInv'
<1> DEFINE w == [Top.walk EXCEPT ![1] = v]
           f == [Top EXCEPT !.walk = w]
<1>1. stack # <<>> /\ Top \in MoveOK /\ Top.op = "move" /\ Top.walk \in Seq(VisitOK) /\ Top.walk # <<>>
  BY VisitingFacts
<1>2. w \in Seq(VisitOK)
  BY <1>1, FirstVisit
<1>3. Continue(f)
  OBVIOUS
<1> HIDE DEF w
<1>4. f \in MoveOK /\ f.inst = Top.inst /\ f.old = Top.old /\ f.new = Top.new /\ f.pc = Top.pc
  BY <1>1, <1>2, WalkFacts
<1> HIDE DEF f
<1> QED
  BY <1>1, <1>3, <1>4, WalkStep

\* A signal, or what the root tells after it; or the way to the next ancestor.
LEMMA SignalInvariant ==
  ASSUME IInv, Signal \/ Tell \/ Climb
  PROVE  IInv'
<1>1. Visiting /\ UNCHANGED <<parent, children, service, made, torn, provided>>
  BY DEF Signal, Tell, Climb, treeVars, pastVars
<1>2. Current = Top.walk[1] /\ Current \in VisitOK
  BY <1>1, VisitingFacts
<1>3. ASSUME NEW new \in {"raised", "told"}, Current.at # None,
             Continue([Top EXCEPT !.walk[1].step = new])
      PROVE  IInv'
  <2> DEFINE v == [Current EXCEPT !.step = new]
  <2>1. v \in VisitOK
    BY <1>2, <1>3 DEF VisitOK, Visit
  <2>2. [Top EXCEPT !.walk[1].step = new] = [Top EXCEPT !.walk = [Top.walk EXCEPT ![1] = v]]
    BY <1>2
  <2> HIDE DEF v
  <2> QED
    BY <1>1, <1>3, <2>1, <2>2, VisitStep
<1>4. CASE Signal
  <2>1. Current.at # None
    BY <1>4 DEF Signal, Outside
  <2>2. \/ Continue([Top EXCEPT !.walk[1].step = "told"])
        \/ Continue([Top EXCEPT !.walk[1].step = "raised"])
    BY <1>4 DEF Signal
  <2> QED
    BY <1>3, <2>1, <2>2
<1>5. CASE Tell
  <2>1. Current.at # None
    BY <1>5, TreeAssumption DEF Tell
  <2> QED
    BY <1>3, <1>5, <2>1 DEF Tell
<1>6. CASE Climb
  <2> DEFINE v == [Current EXCEPT !.at = parent[Current.at], !.step = "due"]
  <2>1. Current.at \in Instance
    BY <1>2, <1>6 DEF Climb, VisitOK, Visit, Place
  <2>2. parent[Current.at] \in Place
    BY <2>1 DEF IInv, Typed
  <2>3. v \in VisitOK
    BY <1>2, <2>2 DEF VisitOK, Visit
  <2>4. Continue([Top EXCEPT !.walk = [Top.walk EXCEPT ![1] = v]])
    BY <1>6 DEF Climb
  <2> HIDE DEF v
  <2> QED
    BY <1>1, <2>3, <2>4, VisitStep
<1> QED
  BY <1>4, <1>5, <1>6

\* On to the children.
LEMMA DescendInvariant ==
  ASSUME IInv, Descend
  PROVE  IInv'
<1> DEFINE w == ChildrenOf(Current.who) \o Tail(Top.walk)
           f == [Top EXCEPT !.walk = w]
<1>1. Visiting /\ Continue(f) /\ UNCHANGED <<parent, children, service, made, torn, provided>>
  BY DEF Descend, treeVars, pastVars
<1>2. /\ stack # <<>> /\ Top \in MoveOK /\ Top.op = "move" /\ Top.walk \in Seq(VisitOK) /\ Top.walk # <<>>
      /\ Current \in VisitOK
  BY <1>1, VisitingFacts
<1>3. ChildrenOf(Current.who) \in Seq(VisitOK)
  <2>1. Current.who \in Instance /\ From \in Place
    BY <1>2 DEF VisitOK, Visit, Movable, From, MoveOK
  <2>2. children[Current.who] \in Seq(Movable)
    BY <2>1 DEF IInv, Typed
  <2> QED
    BY <2>1, <2>2, VisitsType DEF ChildrenOf
<1>4. Tail(Top.walk) \in Seq(VisitOK)
  BY <1>2
<1>5. w \in Seq(VisitOK)
  BY <1>3, <1>4
<1> HIDE DEF w
<1>6. f \in MoveOK /\ f.inst = Top.inst /\ f.old = Top.old /\ f.new = Top.new /\ f.pc = Top.pc
  BY <1>2, <1>5, WalkFacts
<1> HIDE DEF f
<1> QED
  BY <1>1, <1>2, <1>6, WalkStep

\* ChildAdded and AncestorChanged.
LEMMA AddedInvariant ==
  ASSUME IInv, Added \/ Changed
  PROVE  IInv'
<1>1. PICK pc \in {"added", "changed"} : Continue([Top EXCEPT !.pc = pc])
  BY DEF Added, Changed
<1>2. /\ stack # <<>> /\ Top.op = "move" /\ Top.pc \in {"adding", "added"}
      /\ UNCHANGED <<parent, children, service, made, torn, provided>>
  BY DEF Added, Changed, At, Does, treeVars, pastVars
<1> DEFINE f == [Top EXCEPT !.pc = pc]
<1>3. Top \in MoveOK
  BY <1>2, TopFacts DEF IInv
<1>4. /\ f \in MoveOK /\ f.inst = Top.inst /\ f.old = Top.old /\ f.new = Top.new /\ f.pc = pc
      /\ ~Takes(f)
  BY <1>3 DEF MoveOK, Takes
<1>5. Continue(f)
  BY <1>1
<1> HIDE DEF f
<1> QED
  BY <1>2, <1>4, <1>5, WalkStep

-----------------------------------------------------------------------------
\* The instance that is taken, and where it is: where it was found, or nowhere by now, unless
\* a listener moved it.
LEMMA TakenFacts ==
  ASSUME IInv, stack # <<>>, Takes(Top)
  PROVE  /\ Top \in MoveOK /\ Top.inst \in Movable /\ Top.inst \in Instance /\ Top.inst # None
         /\ Top.old \in Place /\ Top.new \in Place
         /\ Top.inst \notin torn =>
              parent[Top.inst] = IF Top.pc = "removed" THEN None ELSE Top.old
         /\ Top.inst \in Service => Top.inst \in made
         /\ Len(stack) \in DOMAIN stack /\ stack[Len(stack)] = Top
         /\ \A i \in DOMAIN stack : i # Len(stack) => i < Len(stack)
         /\ \A i \in DOMAIN stack :
              i # Len(stack) /\ Takes(stack[i]) /\ stack[i].inst = Top.inst => Top.inst \in torn
<1>1. Typed /\ Unlinked /\ Made /\ stack \in Seq(Frame)
  BY DEF IInv, Typed
<1>2. Top \in MoveOK /\ IsMove(Top)
  BY <1>1, TopFacts DEF Takes, IsMove
<1>3. /\ Len(stack) \in DOMAIN stack /\ stack[Len(stack)] = Top
      /\ \A i \in DOMAIN stack : i # Len(stack) => i < Len(stack)
  <2>1. Len(stack) \in Nat \ {0} /\ DOMAIN stack = 1..Len(stack) /\ Top = stack[Len(stack)]
    BY <1>1, FrontFacts DEF Top, Last
  <2> QED
    BY <2>1
<1>4. Top.inst \in Movable /\ Top.old \in Place /\ Top.new \in Place
  BY <1>2 DEF MoveOK
<1>5. Top.inst \in Instance /\ Top.inst # None
  BY <1>4, TreeAssumption DEF Movable
<1>6. ASSUME NEW i \in DOMAIN stack, i # Len(stack), Takes(stack[i]), stack[i].inst = Top.inst
      PROVE  Top.inst \in torn
  <2>1. Len(stack) > i
    <3>1. Len(stack) \in Nat /\ DOMAIN stack = 1..Len(stack)
      BY <1>1
    <3> QED
      BY <1>6, <3>1
  <2> QED
    BY <1>1, <1>2, <1>3, <1>6, <2>1 DEF Unlinked, UnlinkedIn
<1> QED
  BY <1>1, <1>2, <1>3, <1>4, <1>5, <1>6 DEF Unlinked, UnlinkedIn, Made, MadeIn

\* The call is on: the instances it and the calls below it move are the same.
LEMMA OnFacts ==
  ASSUME IInv, stack # <<>>, Takes(Top), NEW f \in MoveOK, Continue(f),
         f.inst = Top.inst, f.old = Top.old, f.new = Top.new
  PROVE  /\ stack' \in Seq(Frame) /\ DOMAIN stack' = DOMAIN stack /\ MadeIn(stack', made)
         /\ stack'[Len(stack)] = f
         /\ \A i \in DOMAIN stack : i # Len(stack) => stack'[i] = stack[i]
         /\ \A i \in DOMAIN stack : /\ IsMove(stack'[i]) <=> IsMove(stack[i])
                                    /\ IsMove(stack[i]) => /\ stack'[i].inst = stack[i].inst
                                                           /\ stack'[i].new = stack[i].new
                                                           /\ stack'[i].old = stack[i].old
<1>1. Made /\ stack \in Seq(Frame) /\ f \in Frame /\ IsMove(f) /\ IsMove(Top)
  BY DEF IInv, Typed, Frame, MoveOK, IsMove, Takes
<1>2. Len(stack) \in DOMAIN stack /\ stack[Len(stack)] = Top
  BY TakenFacts
<1> DEFINE n == Len(stack)
           r == Append(Front(stack), f)
<1>3. /\ r \in Seq(Frame) /\ DOMAIN r = DOMAIN stack
      /\ \A i \in DOMAIN stack : r[i] = IF i = n THEN f ELSE stack[i]
  BY <1>1, ReplaceFacts
<1>4. stack' = r
  BY DEF Continue, Under
<1> HIDE DEF r, n
<1>5. \A i \in DOMAIN stack : /\ IsMove(r[i]) <=> IsMove(stack[i])
                              /\ IsMove(stack[i]) => /\ r[i].inst = stack[i].inst
                                                     /\ r[i].new = stack[i].new
                                                     /\ r[i].old = stack[i].old
  BY <1>1, <1>2, <1>3 DEF n
<1>6. MadeIn(r, made)
  BY <1>1, <1>3, <1>5 DEF Made, MadeIn
<1> QED
  BY <1>2, <1>3, <1>4, <1>5, <1>6 DEF n

\* The child leaves the vector of its old parent, which has it.
LEMMA UnlinkInvariant ==
  ASSUME IInv, Unlink
  PROVE  IInv'
<1> DEFINE x == Top.inst
           p == Top.old
           f == [Top EXCEPT !.pc = "removed"]
           c == RemoveFirst(children[p], x)
           n == Len(stack)
<1>1. /\ stack # <<>> /\ Top.op = "move" /\ Top.pc = "removing" /\ p # None
      /\ children' = [children EXCEPT ![p] = c] /\ parent' = [parent EXCEPT ![x] = None]
      /\ Continue(f) /\ UNCHANGED <<service, made, torn, provided>>
  BY DEF Unlink, Erases, At, Does, Erased, pastVars
<1>2. Takes(Top)
  BY <1>1 DEF Takes, IsMove
<1>3. /\ Top \in MoveOK /\ x \in Movable /\ x \in Instance /\ p \in Instance
      /\ x \notin torn => parent[x] = p
      /\ n \in DOMAIN stack /\ stack[n] = Top
      /\ \A i \in DOMAIN stack : i # n /\ Takes(stack[i]) /\ stack[i].inst = x => x \in torn
  BY <1>1, <1>2, TakenFacts DEF Place
<1>4. /\ f \in MoveOK /\ f.inst = x /\ f.old = p /\ f.new = Top.new /\ f.pc = "removed"
  BY <1>1, <1>3 DEF MoveOK, Takes, IsMove
<1>5. Typed /\ Held /\ Unlinked /\ Made /\ Cached
  BY DEF IInv
<1>6. /\ c \in Seq(Movable) /\ ToSet(c) \subseteq ToSet(children[p])
      /\ ToSet(children[p]) \ {x} \subseteq ToSet(c)
      /\ \A y : OnceOf(children[p], y) => OnceOf(c, y)
      /\ OnceOf(children[p], x) => x \notin ToSet(c)
  <2>1. children[p] \in Seq(Movable)
    BY <1>3, <1>5 DEF Typed
  <2> QED
    BY <2>1, RemoveFacts
<1>7. /\ stack' \in Seq(Frame) /\ DOMAIN stack' = DOMAIN stack /\ MadeIn(stack', made)
      /\ stack'[n] = f
      /\ \A i \in DOMAIN stack : i # n => stack'[i] = stack[i]
      /\ \A i \in DOMAIN stack : /\ IsMove(stack'[i]) <=> IsMove(stack[i])
                                 /\ IsMove(stack[i]) => /\ stack'[i].inst = stack[i].inst
                                                        /\ stack'[i].new = stack[i].new
                                                        /\ stack'[i].old = stack[i].old
  BY <1>1, <1>2, <1>4, OnFacts
<1> HIDE DEF c, f, x, p, n
<1>8. /\ parent' \in [Instance -> Place] /\ parent'[x] = None
      /\ \A y \in Instance : y # x => parent'[y] = parent[y]
  BY <1>1, <1>3, <1>5 DEF Typed, Place
<1>9. /\ children' \in [Instance -> Seq(Movable)] /\ children'[p] = c
      /\ \A q \in Instance : q # p => children'[q] = children[q]
  BY <1>1, <1>3, <1>5, <1>6 DEF Typed
<1>10. Typed'
  BY <1>1, <1>5, <1>7, <1>8, <1>9 DEF Typed
<1>11. Held'
  <2>1. ASSUME NEW y \in Instance, NEW q \in Instance, parent'[y] = q
        PROVE  y \in ToSet(children'[q])
    <3>1. y # x /\ parent[y] = q
      BY <1>8, <2>1, TreeAssumption
    <3>2. y \in ToSet(children[q])
      BY <1>5, <3>1 DEF Held
    <3> QED
      BY <1>6, <1>9, <3>1, <3>2
  <2>2. ASSUME NEW q \in Instance, NEW y \in ToSet(children'[q]), y \notin torn
        PROVE  parent'[y] = q /\ OnceOf(children'[q], y)
    <3>1. y \in ToSet(children[q])
      BY <1>6, <1>9
    <3>2. parent[y] = q /\ OnceOf(children[q], y) /\ y \in Instance
      <4>1. y \in Movable
        BY <1>5, <3>1 DEF Typed, ToSet
      <4> QED
        BY <1>5, <2>2, <3>1, <4>1 DEF Held, Movable
    <3>3. y # x
      BY <1>3, <1>6, <1>9, <2>2, <3>2
    <3>4. OnceOf(children'[q], y)
      BY <1>6, <1>9, <3>2
    <3> QED
      BY <1>8, <3>2, <3>3, <3>4
  <2> QED
    BY <1>1, <2>1, <2>2 DEF Held
<1>12. Unlinked'
  <2> SUFFICES ASSUME NEW i \in DOMAIN stack, Takes(stack'[i]), stack'[i].inst \notin torn
               PROVE  /\ parent'[stack'[i].inst] = IF stack'[i].pc = "removed" THEN None ELSE stack'[i].old
                      /\ \A j \in DOMAIN stack : j > i /\ IsMove(stack'[j]) => stack'[j].inst # stack'[i].inst
    BY <1>1, <1>7 DEF Unlinked, UnlinkedIn
  <2>1. IsMove(stack[i]) /\ stack[i] \in Frame /\ stack'[i].inst = stack[i].inst
    BY <1>5, <1>7 DEF Takes, Typed
  <2>2. Takes(stack[i])
    BY <1>2, <1>3, <1>7, <2>1
  <2>3. stack[i].inst \in Instance
    BY <2>1 DEF Frame, MoveOK, Sweep, Movable, IsMove
  <2>4. ASSUME NEW j \in DOMAIN stack, j > i, IsMove(stack'[j])
        PROVE  stack'[j].inst # stack'[i].inst
    <3>1. IsMove(stack[j]) /\ stack'[j].inst = stack[j].inst
      BY <1>7, <2>4
    <3> QED
      BY <1>5, <2>1, <2>2, <2>4, <3>1 DEF Unlinked, UnlinkedIn
  <2>5. CASE i = n
    BY <1>4, <1>7, <1>8, <2>4, <2>5
  <2>6. CASE i # n
    <3>1. stack'[i] = stack[i] /\ stack[i].inst # x
      BY <1>3, <1>7, <2>1, <2>2, <2>6
    <3> QED
      BY <1>5, <1>8, <2>2, <2>3, <2>4, <3>1 DEF Unlinked, UnlinkedIn
  <2> QED
    BY <2>5, <2>6
<1>13. Made'
  <2>1. \A y \in Service : y \notin made => parent'[y] = None
    BY <1>5, <1>8, TreeAssumption DEF Made
  <2> QED
    BY <1>1, <1>7, <2>1 DEF Made
<1>14. Cached'
  <2>1. ~Begun(stack)
    BY <1>1 DEF Begun, Top, p
  <2>2. ToSet(children'[Root]) \subseteq ToSet(children[Root])
    BY <1>6, <1>9, TreeAssumption
  <2>3. service = None => provided = {} /\ Service \cap ToSet(children'[Root]) = {}
    BY <1>5, <2>1, <2>2 DEF Cached
  <2> QED
    BY <1>1, <1>5, <2>3 DEF Cached
<1> QED
  BY <1>10, <1>11, <1>12, <1>13, <1>14 DEF IInv

\* The child gets the new parent; unless a listener moved it, it has none now.
LEMMA LinkInvariant ==
  ASSUME IInv, Link
  PROVE  IInv'
<1> DEFINE x == Top.inst
           t == Top.new
           n == Len(stack)
<1>1. /\ stack # <<>> /\ Top.op = "move" /\ Takes(Top)
      /\ Top.pc = "removed" \/ (Top.pc = "removing" /\ Top.old = None)
      /\ parent' = [parent EXCEPT ![x] = t] /\ UNCHANGED <<made, torn, provided>>
  BY DEF Link, Links, At, Does, Takes, IsMove, pastVars
<1>2. /\ Top \in MoveOK /\ x \in Movable /\ x \in Instance /\ x # None /\ t \in Place
      /\ Top.old \in Place /\ (x \notin torn => parent[x] = None) /\ (x \in Service => x \in made)
      /\ n \in DOMAIN stack /\ stack[n] = Top
      /\ \A i \in DOMAIN stack : i # n /\ Takes(stack[i]) /\ stack[i].inst = x => x \in torn
  BY <1>1, TakenFacts
<1>3. Typed /\ Held /\ Unlinked /\ Made /\ Cached
  BY DEF IInv
<1> DEFINE w == IF Inside(Top.old, t) THEN <<>> ELSE Visits(<<x>>, t)
           f == IF t = None THEN [Top EXCEPT !.pc = "changed"]
                ELSE [Top EXCEPT !.pc = "adding", !.walk = w]
           c == Append(children[t], x)
<1>4. /\ Continue(f)
      /\ children' = IF t = None THEN children ELSE [children EXCEPT ![t] = c]
      /\ service' = IF t = Root /\ x \in Service THEN x ELSE service
  BY TreeAssumption DEF Link, Caches
<1>5. t # None => t \in Instance
  BY <1>2 DEF Place
<1>6. t # None => w \in Seq(VisitOK)
  <2>1. <<x>> \in Seq(Movable) /\ <<>> \in Seq(VisitOK)
    BY <1>2
  <2> QED
    BY <1>2, <2>1, VisitsType
<1> HIDE DEF w
<1>7. /\ f \in MoveOK /\ f.inst = x /\ f.old = Top.old /\ f.new = t /\ ~Takes(f)
  BY <1>2, <1>6 DEF MoveOK, Takes
<1>8. t # None => /\ c \in Seq(Movable) /\ ToSet(c) = ToSet(children[t]) \cup {x}
                  /\ \A y : OnceOf(children[t], y) /\ y # x => OnceOf(c, y)
                  /\ x \notin ToSet(children[t]) => OnceOf(c, x)
  <2>1. t # None => children[t] \in Seq(Movable)
    BY <1>3, <1>5 DEF Typed
  <2> QED
    BY <1>2, <2>1, AppendFacts
<1> HIDE DEF f, c
<1>9. /\ stack' \in Seq(Frame) /\ DOMAIN stack' = DOMAIN stack /\ MadeIn(stack', made)
      /\ stack'[n] = f
      /\ \A i \in DOMAIN stack : i # n => stack'[i] = stack[i]
      /\ \A i \in DOMAIN stack : /\ IsMove(stack'[i]) <=> IsMove(stack[i])
                                 /\ IsMove(stack[i]) => /\ stack'[i].inst = stack[i].inst
                                                        /\ stack'[i].new = stack[i].new
                                                        /\ stack'[i].old = stack[i].old
  BY <1>1, <1>4, <1>7, OnFacts
<1> HIDE DEF n, x, t
<1>10. /\ parent' \in [Instance -> Place] /\ parent'[x] = t
       /\ \A y \in Instance : y # x => parent'[y] = parent[y]
  BY <1>1, <1>2, <1>3 DEF Typed
<1>11. /\ children' \in [Instance -> Seq(Movable)]
       /\ t # None => children'[t] = c
       /\ \A q \in Instance : q # t => children'[q] = children[q]
  BY <1>3, <1>4, <1>5, <1>8 DEF Typed
<1>12. Typed'
  <2>1. service' \in Service \cup {None}
    BY <1>3, <1>4 DEF Typed
  <2> QED
    BY <1>1, <1>3, <1>9, <1>10, <1>11, <2>1 DEF Typed
<1>13. Held'
  <2>1. ASSUME NEW y \in Instance, NEW q \in Instance, parent'[y] = q
        PROVE  y \in ToSet(children'[q])
    <3>1. q # None
      BY TreeAssumption
    <3>2. CASE y = x
      BY <1>8, <1>10, <1>11, <2>1, <3>1, <3>2
    <3>3. CASE y # x
      <4>1. y \in ToSet(children[q])
        BY <1>3, <1>10, <2>1, <3>3 DEF Held
      <4> QED
        BY <1>8, <1>11, <3>1, <4>1
    <3> QED
      BY <3>2, <3>3
  <2>2. ASSUME NEW q \in Instance, NEW y \in ToSet(children'[q]), y \notin torn
        PROVE  parent'[y] = q /\ OnceOf(children'[q], y)
    <3>1. y \in Instance /\ q # None
      <4>1. y \in Movable
        BY <1>11, <2>2 DEF ToSet
      <4> QED
        BY <4>1, TreeAssumption DEF Movable
    <3>2. \A r \in Instance : y \in ToSet(children[r]) => parent[y] = r /\ OnceOf(children[r], y)
      BY <1>3, <2>2 DEF Held
    <3>3. CASE y = x
      <4>1. \A r \in Instance : x \notin ToSet(children[r])
        BY <1>2, <2>2, <3>2, <3>3, TreeAssumption
      <4>2. q = t
        BY <1>11, <2>2, <3>3, <4>1
      <4> QED
        BY <1>8, <1>10, <1>11, <3>1, <3>3, <4>1, <4>2
    <3>4. CASE y # x
      <4>1. y \in ToSet(children[q])
        BY <1>8, <1>11, <2>2, <3>1, <3>4
      <4>2. parent[y] = q /\ OnceOf(children[q], y)
        BY <3>2, <4>1
      <4>3. OnceOf(children'[q], y)
        BY <1>8, <1>11, <3>1, <3>4, <4>2
      <4> QED
        BY <1>10, <3>1, <3>4, <4>2, <4>3
    <3> QED
      BY <3>3, <3>4
  <2> QED
    BY <1>1, <2>1, <2>2 DEF Held
<1>14. Unlinked'
  <2> SUFFICES ASSUME NEW i \in DOMAIN stack, Takes(stack'[i]), stack'[i].inst \notin torn
               PROVE  /\ parent'[stack'[i].inst] = IF stack'[i].pc = "removed" THEN None ELSE stack'[i].old
                      /\ \A j \in DOMAIN stack : j > i /\ IsMove(stack'[j]) => stack'[j].inst # stack'[i].inst
    BY <1>1, <1>9 DEF Unlinked, UnlinkedIn
  <2>1. i # n /\ stack'[i] = stack[i] /\ Takes(stack[i])
    BY <1>7, <1>9
  <2>2. stack[i].inst # x
    BY <1>2, <2>1
  <2>3. stack[i].inst \in Instance
    BY <1>3, <2>1 DEF Typed, Frame, MoveOK, Sweep, Movable, IsMove, Takes
  <2>4. parent'[stack[i].inst] = parent[stack[i].inst]
    BY <1>10, <2>2, <2>3
  <2>5. ASSUME NEW j \in DOMAIN stack, j > i, IsMove(stack'[j])
        PROVE  stack'[j].inst # stack'[i].inst
    <3>1. IsMove(stack[j]) /\ stack'[j].inst = stack[j].inst
      BY <1>9, <2>5
    <3> QED
      BY <1>3, <2>1, <2>5, <3>1 DEF Unlinked, UnlinkedIn
  <2> QED
    BY <1>3, <2>1, <2>4, <2>5 DEF Unlinked, UnlinkedIn
<1>15. Made'
  <2>1. \A y \in Service : y \notin made => parent'[y] = None
    BY <1>2, <1>3, <1>10, TreeAssumption DEF Made
  <2> QED
    BY <1>1, <1>9, <2>1 DEF Made
<1>16. Cached'
  <2>1. service' \in made' \cup {None}
    BY <1>1, <1>2, <1>3, <1>4 DEF Cached
  <2>2. ASSUME service' = None
        PROVE  provided' = {} /\ Service \cap ToSet(children'[Root]) = {}
    <3>1. service = None /\ ~(t = Root /\ x \in Service)
      BY <1>2, <1>4, <2>2
    <3>2. ~Begun(stack)
      BY <3>1 DEF Begun, Top, x, t
    <3>3. ToSet(children'[Root]) \subseteq ToSet(children[Root]) \cup (IF t = Root THEN {x} ELSE {})
      BY <1>8, <1>11, TreeAssumption
    <3> QED
      BY <1>1, <1>3, <3>1, <3>2, <3>3 DEF Cached
  <2> QED
    BY <2>1, <2>2 DEF Cached
<1> QED
  BY <1>12, <1>13, <1>14, <1>15, <1>16 DEF IInv

-----------------------------------------------------------------------------
\* The tree to begin with.
LEMMA InitInvariant ==
  ASSUME Init
  PROVE  IInv
<1>1. /\ children = Placed /\ service = None /\ made = {} /\ stack = <<>> /\ provided = {} /\ torn = {}
      /\ parent = [x \in Instance |->
                     IF \E p \in Instance : x \in ToSet(Placed[p])
                     THEN CHOOSE p \in Instance : x \in ToSet(Placed[p]) ELSE None]
  BY DEF Init
<1>2. \A x \in Instance : /\ parent[x] \in Place
                          /\ \A p \in Instance : x \in ToSet(Placed[p]) <=> parent[x] = p
  <2> SUFFICES ASSUME NEW x \in Instance
               PROVE  /\ parent[x] \in Place
                      /\ \A p \in Instance : x \in ToSet(Placed[p]) <=> parent[x] = p
    OBVIOUS
  <2> DEFINE q == CHOOSE p \in Instance : x \in ToSet(Placed[p])
  <2>1. CASE \E p \in Instance : x \in ToSet(Placed[p])
    <3>1. parent[x] = q /\ q \in Instance /\ x \in ToSet(Placed[q])
      BY <1>1, <2>1
    <3> HIDE DEF q
    <3>2. \A p \in Instance : x \in ToSet(Placed[p]) => p = q
      BY <3>1, TreeAssumption
    <3> QED
      BY <3>1, <3>2 DEF Place
  <2>2. CASE ~\E p \in Instance : x \in ToSet(Placed[p])
    <3>1. parent[x] = None
      BY <1>1, <2>2
    <3> QED
      BY <2>2, <3>1, TreeAssumption DEF Place
  <2> QED
    BY <2>1, <2>2
<1>3. Typed
  <2>2. parent \in [Instance -> Place]
    BY <1>1, <1>2
  <2>3. stack \in Seq(Frame)
    BY <1>1
  <2> QED
    BY <1>1, <2>2, <2>3, TreeAssumption DEF Typed, Movable
<1>4. Held
  <2>1. \A p \in Instance, x \in Instance : OnceOf(Placed[p], x)
    BY TreeAssumption DEF OnceOf, IsInjective
  <2>2. \A p \in Instance : ToSet(Placed[p]) \subseteq Instance
    BY <1>1, <1>3 DEF Typed, ToSet, Movable
  <2> QED
    BY <1>1, <1>2, <2>1, <2>2 DEF Held
<1>5. Unlinked /\ MadeIn(stack, made)
  BY <1>1 DEF Unlinked, UnlinkedIn, MadeIn
<1>6. \A x \in Service : parent[x] = None
  <2> SUFFICES ASSUME NEW x \in Service PROVE parent[x] = None
    OBVIOUS
  <2>1. x \in Instance /\ \A p \in Instance : x \notin ToSet(Placed[p])
    BY TreeAssumption
  <2> QED
    BY <1>2, <2>1 DEF Place
<1>7. Service \cap ToSet(children[Root]) = {}
  BY <1>1, TreeAssumption
<1> QED
  BY <1>1, <1>3, <1>4, <1>5, <1>6, <1>7 DEF IInv, Made, Cached

\* A call does not come back.
LEMMA LoseInvariant ==
  ASSUME IInv, Lose
  PROVE  IInv'
BY DEF Lose, treeVars, IInv, Typed, Held, OnceOf, Unlinked, UnlinkedIn, Made, MadeIn, Cached,
  Begun, ToSet

\* Every step keeps the invariant.
LEMMA NextInvariant ==
  ASSUME IInv, [Next]_vars
  PROVE  IInv'
<1>1. CASE Call
  BY <1>1, SetParentInvariant, GetServiceInvariant, RemoveInstanceInvariant,
     RemoveAllChildrenInvariant DEF Call
<1>2. CASE Go
  BY <1>2, SweepNextInvariant, ReturnsInvariant, SignalInvariant, DescendInvariant,
     UnlinkInvariant, LinkInvariant, LoseInvariant, AddedInvariant DEF Go
<1>3. CASE UNCHANGED vars
  BY <1>3 DEF vars, treeVars, IInv, Typed, Held, OnceOf, Unlinked, UnlinkedIn, Made, MadeIn,
     Cached, Begun, ToSet
<1> QED
  BY <1>1, <1>2, <1>3 DEF Next

\* The inductive invariant of Instance::setParent and of the provider's cache, whatever listeners
\* move, and wherever to.
THEOREM InvariantHolds == Spec => []IInv
<1>1. Init => IInv
  BY InitInvariant
<1>2. IInv /\ [Next]_vars => IInv'
  BY NextInvariant
<1> QED
  BY <1>1, <1>2, PTL DEF Spec

\* An instance is in the vector of its parent; and once there, and in no other, but for one that
\* a listener moved in the midst of its own setParent.
THEOREM FiledHolds == Spec => []Filed
<1>1. ASSUME IInv PROVE Filed
  <2> SUFFICES ASSUME NEW p \in Instance, NEW i \in DOMAIN children[p], NEW j \in DOMAIN children[p],
                      children[p][i] \notin torn
               PROVE  /\ parent[children[p][i]] = p
                      /\ children[p][j] = children[p][i] => i = j
    BY <1>1 DEF Filed, IInv, Held
  <2>1. children[p][i] \in ToSet(children[p])
    BY DEF ToSet
  <2> QED
    BY <1>1, <2>1 DEF IInv, Held, OnceOf
<1> QED
  BY <1>1, InvariantHolds, PTL

\* ServiceProvider makes a service only when it never made one and none of the class was ever put
\* below it.
THEOREM MakesOnlyTheFirstHolds == Spec => MakesOnlyTheFirst
<1>1. ASSUME IInv, [Next]_vars, provided' # provided
      PROVE  provided = {} /\ Service \cap ToSet(children[Root]) = {}
  <2>1. ~(UNCHANGED vars) /\ ~Go
    BY <1>1 DEF vars, pastVars, Go, SweepNext, SweepDone, Signal, Tell, Climb, Descend, Unlink, Link,
       Lose, Added, Changed, Return
  <2>2. PICK s \in Service : GetService(s)
    BY <1>1, <2>1 DEF Next, Call, SetParent, RemoveInstance, RemoveAllChildren, pastVars
  <2>3. /\ MayCall(1) /\ (service = s \/ (service = None /\ s \notin made))
        /\ provided' = provided \cup ({s} \ made)
    BY <2>2 DEF GetService, Found
  <2>4. s \notin made /\ s # None
    BY <1>1, <2>3, TreeAssumption
  <2>5. service = None
    BY <1>1, <2>3, <2>4 DEF IInv, Cached
  <2>6. ~Begun(stack)
    BY <1>1, <2>3, WindowFacts DEF MayCall, IInv
  <2> QED
    BY <1>1, <2>5, <2>6 DEF IInv, Cached
<1>2. IInv /\ [Next]_vars => [provided' # provided => provided = {} /\ Service \cap ToSet(children[Root]) = {}]_vars
  BY <1>1
<1> QED
  BY <1>2, InvariantHolds, PTL DEF Spec, MakesOnlyTheFirst

-----------------------------------------------------------------------------
\* What the listeners are told, and what they disturb.
Kept ==
  /\ told \subseteq Movable /\ disturbed \subseteq Movable /\ torn \subseteq Movable
  /\ calls \in 0..(MaxCalls + MaxAfter) /\ lost \in BOOLEAN
LEMMA KeptStep ==
  ASSUME IInv, Kept, [Next]_vars
  PROVE  Kept'
<1>1. \A x, q : Disturbed(x, q) \subseteq Movable
  BY DEF Disturbed, Kept
<1>2. \A n : MayCall(n) /\ Counted => calls' \in 0..(MaxCalls + MaxAfter)
  BY TreeAssumption DEF MayCall, Counted, Kept
<1>3. \A x \in Movable : torn \cup Caught(x) \subseteq Movable
  BY CaughtFacts DEF Kept
<1>4. CASE Call
  <2>1. /\ told' = told /\ lost' = lost /\ calls' \in 0..(MaxCalls + MaxAfter)
        /\ \E x, q : disturbed' = Disturbed(x, q)
    BY <1>2, <1>4 DEF Call, SetParent, GetService, RemoveInstance, RemoveAllChildren, pastVars
  <2>2. \A s \in Service : s \in Movable
    BY TreeAssumption DEF Movable
  <2>3. torn' = torn \/ \E x \in Movable : torn' = torn \cup Caught(x)
    BY <1>4, <2>2 DEF Call, SetParent, GetService, RemoveInstance, RemoveAllChildren, pastVars
  <2> QED
    BY <1>1, <1>3, <2>1, <2>3 DEF Kept
<1>5. CASE Signal \/ Tell
  <2>1. Current.who \in Movable
    BY <1>5, VisitingFacts DEF Signal, Tell, VisitOK, Visit
  <2>2. told' \in {told, Tells(Current.who)} /\ UNCHANGED <<calls, disturbed, torn, lost>>
    BY <1>5 DEF Signal, Tell, pastVars
  <2> QED
    BY <2>1, <2>2 DEF Tells, Kept
<1>6. CASE SweepNext
  <2>1. UNCHANGED <<told, calls, disturbed, lost>> /\ \E c : torn' = torn \/ torn' = torn \cup Caught(c)
    BY <1>6 DEF SweepNext
  <2>2. torn' \subseteq Movable
    <3>1. PICK c : torn' = torn \/ torn' = torn \cup Caught(c)
      BY <2>1
    <3>2. Caught(c) \subseteq Movable
      <4> SUFFICES ASSUME NEW i \in DOMAIN stack, stack[i].op = "move" PROVE stack[i].inst \in Movable
        BY DEF Caught, Unlinking
      <4>1. stack[i] \in Frame
        BY DEF IInv, Typed
      <4> QED
        BY <4>1 DEF Frame, MoveOK, Sweep
    <3> QED
      BY <3>1, <3>2 DEF Kept
  <2> QED
    BY <2>1, <2>2 DEF Kept
<1>7. CASE SweepDone \/ Climb \/ Descend \/ Unlink \/ Link \/ Lose \/ Added \/ Changed \/ Return
  BY <1>7 DEF SweepDone, Climb, Descend, Unlink, Link, Lose, Added, Changed, Return, Kept, pastVars
<1>8. CASE UNCHANGED vars
  BY <1>8 DEF vars, pastVars, Kept
<1> QED
  BY <1>4, <1>5, <1>6, <1>7, <1>8 DEF Next, Go

\* The model's types.
THEOREM TypeCorrect == Spec => []TypeOK
<1>1. ASSUME Init PROVE IInv /\ Kept
  <2>1. told \subseteq Movable /\ calls = 0 /\ disturbed = {} /\ torn = {} /\ lost = FALSE
    BY <1>1 DEF Init
  <2>2. 0 \in 0..(MaxCalls + MaxAfter)
    BY TreeAssumption
  <2> QED
    BY <1>1, <2>1, <2>2, InitInvariant DEF Kept
<1>2. IInv /\ Kept /\ [Next]_vars => (IInv /\ Kept)'
  BY NextInvariant, KeptStep
<1>3. ASSUME IInv, Kept PROVE TypeOK
  <2>1. Typed
    BY <1>3 DEF IInv
  <2>2. \A p \in Instance : children[p] \in Seq(Movable)
    BY <2>1 DEF Typed
  <2>3. \A i \in DOMAIN stack : stack[i] \in Move \cup Sweep
    <3>1. VisitOK \subseteq Visit
      BY DEF VisitOK
    <3>2. Seq(VisitOK) \subseteq Seq(Visit)
      BY <3>1
    <3>3. MoveOK \subseteq Move
      BY <3>2 DEF MoveOK, Move
    <3>4. \A i \in DOMAIN stack : stack[i] \in Frame
      BY <2>1 DEF Typed
    <3> QED
      BY <3>3, <3>4 DEF Frame
  <2> QED
    BY <1>3, <2>1, <2>2, <2>3 DEF TypeOK, Typed, Kept
<1> QED
  BY <1>1, <1>2, <1>3, PTL DEF Spec

-----------------------------------------------------------------------------
\* One more step upwards from the instances of S.
Wider(S, to) == S \cup UNION {to[y] : y \in S}

\* What is above x holds x, all that it leads to, and nothing that is not needed for that:
\* as many steps as there are instances are enough.
LEMMA AboveFacts ==
  ASSUME NEW to \in [Instance -> SUBSET Instance], NEW x
  PROVE  /\ Above(x, to) \subseteq Instance
         /\ x \in Instance => x \in Above(x, to)
         /\ \A y \in Above(x, to) : to[y] \subseteq Above(x, to)
         /\ \A S : (x \in Instance => x \in S) /\ (\A y \in S \cap Instance : to[y] \subseteq S)
                     => Above(x, to) \subseteq S
<1> DEFINE N == Cardinality(Instance)
           V == SUBSET Instance
           a == {x} \cap Instance
           W(S) == Wider(S, to)
           F == [n \in 1..N |-> [S \in V |-> W(S)]]
<1>1. N \in Nat
  BY FS_CardinalityType, TreeAssumption
<1>2. a \in V /\ \A S \in V : W(S) \in V /\ S \subseteq W(S) /\ \A y \in S : to[y] \subseteq W(S)
  BY DEF Wider
<1>3. \A S \in V : \A y \in W(S) : y \in S \/ \E z \in S : y \in to[z]
  BY DEF Wider
<1>4. F \in [1..N -> [V -> V]]
  BY <1>2
<1>5. Above(x, to) = LET up[n \in 0..N] == IF n = 0 THEN a ELSE W(up[n - 1]) IN up[N]
  BY DEF Above, Wider
<1> DEFINE Eq(f) == f = [n \in 0..N |-> IF n = 0 THEN a ELSE W(f[n - 1])]
           up == CHOOSE f : Eq(f)
<1>6. Above(x, to) = up[N]
  BY <1>5
<1> HIDE DEF N, W
<1>7. PICK g \in [0..N -> V] : g[0] = a /\ \A n \in 1..N : g[n] = W(g[n - 1])
  <2>1. \A n \in 1..N : \A S \in V : F[n][S] = W(S)
    OBVIOUS
  <2> HIDE DEF F, a, V
  <2>2. PICK g : Stepwise(g, V, F, a, N)
    BY <1>1, <1>2, <1>4, StepsExist
  <2>3. \A n \in 1..N : n - 1 \in 0..N
    BY <1>1
  <2> QED
    BY <2>1, <2>2, <2>3 DEF Stepwise
<1> HIDE DEF F, a
<1>8. Eq(g)
  <2>1. ASSUME NEW n \in 0..N PROVE g[n] = IF n = 0 THEN a ELSE W(g[n - 1])
    <3>1. n = 0 \/ n \in 1..N
      BY <1>1
    <3> QED
      BY <1>1, <1>7, <3>1
  <2> QED
    BY <1>7, <2>1
<1>9. Eq(up)
  <2> HIDE DEF Eq
  <2> QED
    BY <1>8
<1> HIDE DEF up
<1>10. up[0] = a /\ \A n \in 1..N : up[n] = W(up[n - 1])
  <2>1. 0 \in 0..N /\ \A n \in 1..N : n \in 0..N /\ n # 0
    BY <1>1
  <2> QED
    BY <1>9, <2>1
<1> HIDE DEF Eq, V

\* Each step adds an instance, or no further one does.
<1> DEFINE Closed(S) == \A y \in S : to[y] \subseteq S
           Good(n) == up[n] \in V /\ a \subseteq up[n] /\ (Closed(up[n]) \/ Cardinality(up[n]) >= n)
<1>11. \A n \in 0..N : Good(n)
  <2> DEFINE S == {n \in 0..N : Good(n)}
  <2>1. 0 \in S
    <3>1. IsFiniteSet(a)
      BY <1>2, FS_Subset, TreeAssumption DEF V
    <3>2. Cardinality(a) \in Nat
      BY <3>1, FS_CardinalityType
    <3> QED
      BY <1>1, <1>2, <1>10, <3>2
  <2>2. ASSUME NEW n \in 1..N, n - 1 \in S PROVE n \in S
    <3>1. up[n - 1] \in V /\ a \subseteq up[n - 1] /\ up[n] = W(up[n - 1]) /\ n - 1 \in Nat
      BY <1>1, <1>10, <2>2
    <3> DEFINE L == up[n - 1]
               U == up[n]
    <3>2. L \in V /\ U \in V /\ a \subseteq U /\ U = W(L) /\ L \subseteq U
      BY <1>2, <3>1
    <3>3. Closed(L) \/ Cardinality(L) >= n - 1
      BY <2>2
    <3> HIDE DEF L, U
    <3>4. CASE Closed(L)
      <4>1. U = L
        BY <1>3, <3>2, <3>4
      <4> QED
        BY <3>2, <3>4, <4>1 DEF U
    <3>5. CASE Cardinality(L) >= n - 1 /\ ~Closed(L)
      <4>1. PICK y \in L : ~(to[y] \subseteq L)
        BY <3>5
      <4>2. PICK z \in to[y] : z \notin L
        BY <4>1
      <4>3. z \in U
        BY <1>2, <3>2, <4>2
      <4>4. IsFiniteSet(U) /\ IsFiniteSet(L)
        BY <3>2, FS_Subset, TreeAssumption DEF V
      <4>5. Cardinality(L \cup {z}) = Cardinality(L) + 1 /\ IsFiniteSet(L \cup {z})
        BY <4>2, <4>4, FS_AddElement
      <4>6. L \cup {z} \in SUBSET U
        BY <3>2, <4>3
      <4>7. Cardinality(L \cup {z}) <= Cardinality(U)
        BY <4>4, <4>6, FS_Subset
      <4>8. Cardinality(U) \in Nat /\ Cardinality(L) \in Nat
        BY <4>4, FS_CardinalityType
      <4>9. Cardinality(U) >= n
        BY <3>1, <3>5, <4>5, <4>7, <4>8
      <4> QED
        BY <3>2, <4>9 DEF U
    <3> QED
      BY <3>3, <3>4, <3>5
  <2> HIDE DEF S, Good
  <2>3. \A n \in 0..N : n \in S
    BY <1>1, <2>1, <2>2, UpTo
  <2> QED
    BY <2>3 DEF S
<1>12. N \in 0..N
  BY <1>1
<1>13. up[N] \in V /\ a \subseteq up[N]
  BY <1>11, <1>12
<1>14. Closed(up[N])
  <2> SUFFICES ASSUME Cardinality(up[N]) >= N PROVE Closed(up[N])
    BY <1>11, <1>12
  <2>1. up[N] \in SUBSET Instance
    BY <1>13 DEF V
  <2>2. Cardinality(up[N]) <= N /\ (N = Cardinality(up[N]) => Instance = up[N]) /\ IsFiniteSet(up[N])
    BY <2>1, FS_Subset, TreeAssumption DEF N
  <2>3. Cardinality(up[N]) \in Nat
    BY <2>2, FS_CardinalityType
  <2>4. up[N] = Instance
    BY <1>1, <2>2, <2>3
  <2> QED
    BY <2>4

\* And none goes beyond a set that is closed.
<1>15. ASSUME NEW S, x \in Instance => x \in S, \A y \in S \cap Instance : to[y] \subseteq S
       PROVE  up[N] \subseteq S
  <2> DEFINE K == {n \in 0..N : up[n] \subseteq S}
  <2>1. 0 \in K
    BY <1>1, <1>10, <1>15 DEF a
  <2>2. ASSUME NEW n \in 1..N, n - 1 \in K PROVE n \in K
    <3>1. up[n - 1] \subseteq S /\ up[n] = W(up[n - 1]) /\ n - 1 \in 0..N /\ n \in 0..N
      BY <1>1, <1>10, <2>2
    <3>2. up[n - 1] \in V
      BY <1>11, <3>1
    <3>3. up[n - 1] \subseteq Instance
      BY <3>2 DEF V
    <3>4. up[n] \subseteq S
      BY <1>3, <1>15, <3>1, <3>2, <3>3
    <3> QED
      BY <3>1, <3>4
  <2> HIDE DEF K
  <2>3. \A n \in 0..N : n \in K
    BY <1>1, <2>1, <2>2, UpTo
  <2> QED
    BY <1>12, <2>3 DEF K
<1> QED
  BY <1>6, <1>13, <1>14, <1>15 DEF V, a

-----------------------------------------------------------------------------
\* Who is below whom, for any parents P.
Parents == [Instance -> Place]
Up(P) == [y \in Instance |-> {P[y]} \ {None}]
In(P, x, a) == a \in Above(x, Up(P))
Climbs(P, h) == h \in [Instance -> Nat] /\ \A y \in Instance : P[y] # None => h[P[y]] < h[y]

\* The least set with x and all that is above it.
LEMMA InLeast ==
  ASSUME NEW P \in Parents, NEW x
  PROVE  /\ \A a : In(P, x, a) => x \in Instance /\ a \in Instance
         /\ x \in Instance => In(P, x, x)
         /\ \A a : In(P, x, a) /\ P[a] # None => In(P, x, P[a])
         /\ \A S : (x \in Instance => x \in S) /\ (\A y \in S \cap Instance : P[y] # None => P[y] \in S)
                     => \A a : In(P, x, a) => a \in S
<1> DEFINE to == Up(P)
<1>1. to \in [Instance -> SUBSET Instance] /\ \A y \in Instance : to[y] = {P[y]} \ {None}
  BY DEF Parents, Place, Up
<1> HIDE DEF to
<1>2. /\ Above(x, to) \subseteq Instance
      /\ x \in Instance => x \in Above(x, to)
      /\ \A y \in Above(x, to) : to[y] \subseteq Above(x, to)
      /\ \A S : (x \in Instance => x \in S) /\ (\A y \in S \cap Instance : to[y] \subseteq S)
                     => Above(x, to) \subseteq S
  BY <1>1, AboveFacts
<1>3. \A a : In(P, x, a) <=> a \in Above(x, to)
  BY DEF In, to
<1>4. ASSUME NEW S, x \in Instance => x \in S,
             \A y \in S \cap Instance : P[y] # None => P[y] \in S
      PROVE  Above(x, to) \subseteq S
  <2>1. \A y \in S \cap Instance : to[y] \subseteq S
    BY <1>1, <1>4
  <2> QED
    BY <1>2, <1>4, <2>1
<1>5. ASSUME x \notin Instance PROVE Above(x, to) = {}
  <2>1. PICK S : S = {}
    OBVIOUS
  <2>2. \A y \in S \cap Instance : P[y] # None => P[y] \in S
    BY <2>1
  <2>3. Above(x, to) \subseteq S
    BY <1>4, <1>5, <2>2
  <2> QED
    BY <2>1, <2>3
<1>6. ASSUME NEW a, a \in Above(x, to), P[a] # None PROVE P[a] \in Above(x, to)
  BY <1>1, <1>2, <1>6
<1> QED
  BY <1>2, <1>3, <1>4, <1>5, <1>6

\* Step by step; what is below something is below what that is below; and of two above the
\* same, one is above the other.
LEMMA InFacts ==
  ASSUME NEW P \in Parents
  PROVE  /\ \A x, a : In(P, x, a) => x \in Instance /\ a \in Instance
         /\ \A x \in Instance : In(P, x, x)
         /\ \A x, a : In(P, x, a) /\ P[a] # None => In(P, x, P[a])
         /\ \A x \in Instance : \A a : In(P, x, a) <=> x = a \/ (P[x] # None /\ In(P, P[x], a))
         /\ \A x, a, b : In(P, x, a) /\ In(P, a, b) => In(P, x, b)
         /\ \A x, a, b : In(P, x, a) /\ In(P, x, b) => In(P, a, b) \/ In(P, b, a)
         /\ \A x, a : In(P, x, a) /\ x # a => \E y \in Instance : P[y] = a /\ In(P, x, y)
<1>1. \A x, a : In(P, x, a) => x \in Instance /\ a \in Instance
  BY InLeast
<1>2. \A x \in Instance : In(P, x, x)
  BY InLeast
<1>3. \A x, a : In(P, x, a) /\ P[a] # None => In(P, x, P[a])
  BY InLeast
<1>4. ASSUME NEW x, NEW a, NEW b, In(P, x, a), In(P, a, b) PROVE In(P, x, b)
  <2> DEFINE S == {c \in Instance : In(P, x, c)}
  <2>1. a \in S /\ \A y \in S \cap Instance : P[y] # None => P[y] \in S
    BY <1>1, <1>3, <1>4
  <2> HIDE DEF S
  <2>2. b \in S
    BY <1>4, <2>1, InLeast
  <2> QED
    BY <2>2 DEF S
<1>5. ASSUME NEW x \in Instance, NEW a PROVE In(P, x, a) <=> x = a \/ (P[x] # None /\ In(P, P[x], a))
  <2>1. ASSUME In(P, x, a), x # a PROVE P[x] # None /\ In(P, P[x], a)
    <3> DEFINE S == {x} \cup {c \in Instance : P[x] # None /\ In(P, P[x], c)}
    <3>1. x \in S /\ \A y \in S \cap Instance : P[y] # None => P[y] \in S
      <4>1. P[x] # None => P[x] \in Instance
        BY DEF Parents, Place
      <4>2. \A y \in Instance : P[y] # None => P[y] \in Instance
        BY DEF Parents, Place
      <4> QED
        BY <1>2, <1>3, <4>1, <4>2
    <3> HIDE DEF S
    <3>2. a \in S
      BY <2>1, <3>1, InLeast
    <3> QED
      BY <2>1, <3>2 DEF S
  <2>2. ASSUME P[x] # None, In(P, P[x], a) PROVE In(P, x, a)
    BY <1>2, <1>3, <1>4, <2>2
  <2> QED
    BY <1>2, <2>1, <2>2
<1>6. ASSUME NEW x, NEW a, NEW b, In(P, x, a), In(P, x, b) PROVE In(P, a, b) \/ In(P, b, a)
  <2> DEFINE S == {y \in Instance : In(P, y, b) \/ In(P, b, y)}
  <2>1. x \in S
    BY <1>1, <1>6
  <2>2. ASSUME NEW y \in S, P[y] # None PROVE P[y] \in S
    <3>1. y \in Instance /\ P[y] \in Instance
      BY <2>2 DEF Parents, Place
    <3>2. CASE In(P, b, y)
      BY <1>3, <2>2, <3>1, <3>2
    <3>3. CASE In(P, y, b)
      <4>1. y = b \/ In(P, P[y], b)
        BY <1>5, <3>1, <3>3
      <4>2. b \in Instance
        BY <1>1, <3>3
      <4> QED
        BY <1>2, <1>3, <2>2, <3>1, <4>1, <4>2
    <3> QED
      BY <2>2, <3>2, <3>3
  <2> HIDE DEF S
  <2>3. a \in S
    BY <1>6, <2>1, <2>2, InLeast
  <2> QED
    BY <2>3 DEF S
<1>7. ASSUME NEW x, NEW a, In(P, x, a), x # a PROVE \E y \in Instance : P[y] = a /\ In(P, x, y)
  <2> DEFINE S == {b \in Instance : In(P, x, b) /\ (b = x \/ \E y \in Instance : P[y] = b /\ In(P, x, y))}
  <2>1. x \in S
    BY <1>1, <1>2, <1>7
  <2>2. ASSUME NEW y \in S, P[y] # None PROVE P[y] \in S
    BY <1>3, <2>2 DEF Parents, Place
  <2> HIDE DEF S
  <2>3. a \in S
    BY <1>7, <2>1, <2>2, InLeast
  <2> QED
    BY <1>7, <2>3 DEF S
<1> QED
  BY <1>1, <1>2, <1>3, <1>4, <1>5, <1>6, <1>7

\* In a tree that some rank shows to have no cycle.
LEMMA InRank ==
  ASSUME NEW P \in Parents, NEW h, Climbs(P, h)
  PROVE  \A x, a : In(P, x, a) => h[a] <= h[x]
<1> SUFFICES ASSUME NEW x, NEW a, In(P, x, a) PROVE h[a] <= h[x]
  OBVIOUS
<1> DEFINE S == {b \in Instance : h[b] <= h[x]}
<1>1. x \in S
  BY InFacts DEF Climbs
<1>2. ASSUME NEW y \in S, P[y] # None PROVE P[y] \in S
  <2>1. y \in Instance /\ h[y] <= h[x] /\ h[P[y]] < h[y] /\ P[y] \in Instance /\ x \in Instance
    BY <1>2, InFacts DEF Climbs, Parents, Place
  <2>2. h[y] \in Nat /\ h[x] \in Nat /\ h[P[y]] \in Nat
    BY <2>1 DEF Climbs
  <2> QED
    BY <2>1, <2>2
<1> HIDE DEF S
<1>3. a \in S
  BY <1>1, <1>2, InLeast
<1> QED
  BY <1>3 DEF S

\* An instance loses its parent: what was below it is below nothing else any more.
LEMMA InUnlink ==
  ASSUME NEW P \in Parents, NEW h, Climbs(P, h), NEW z \in Instance,
         NEW Q, Q = [P EXCEPT ![z] = None]
  PROVE  /\ Q \in Parents
         /\ \A x, a : In(Q, x, a) <=> In(P, x, a) /\ (In(P, x, z) => In(P, a, z))
<1>1. Q \in Parents /\ Q[z] = None /\ \A y \in Instance : y # z => Q[y] = P[y]
  BY DEF Parents, Place
<1> SUFFICES ASSUME NEW x, NEW a
             PROVE  In(Q, x, a) <=> In(P, x, a) /\ (In(P, x, z) => In(P, a, z))
  BY <1>1
<1>2. ASSUME In(Q, x, a) PROVE In(P, x, a)
  <2> DEFINE S == {b \in Instance : In(P, x, b)}
  <2>1. x \in S
    BY <1>1, <1>2, InFacts
  <2>2. ASSUME NEW y \in S, Q[y] # None PROVE Q[y] \in S
    <3>1. y # z /\ Q[y] = P[y] /\ In(P, x, y)
      BY <1>1, <2>2
    <3>2. In(P, x, P[y])
      BY <2>2, <3>1, InFacts
    <3> QED
      BY <3>1, <3>2, InFacts
  <2> HIDE DEF S
  <2>3. a \in S
    BY <1>1, <1>2, <2>1, <2>2, InLeast
  <2> QED
    BY <2>3 DEF S
<1>3. ASSUME In(Q, x, a), In(P, x, z) PROVE In(P, a, z)
  <2> DEFINE S == {b \in Instance : In(P, b, z)}
  <2>1. x \in S
    BY <1>3, InFacts
  <2>2. ASSUME NEW y \in S, Q[y] # None PROVE Q[y] \in S
    <3>1. y # z /\ Q[y] = P[y] /\ In(P, y, z) /\ y \in Instance
      BY <1>1, <2>2
    <3>2. In(P, P[y], z)
      BY <3>1, InFacts
    <3> QED
      BY <3>1, <3>2, InFacts
  <2> HIDE DEF S
  <2>3. a \in S
    BY <1>1, <1>3, <2>1, <2>2, InLeast
  <2> QED
    BY <2>3 DEF S
<1>4. ASSUME In(P, x, a), In(P, x, z) => In(P, a, z) PROVE In(Q, x, a)
  <2> DEFINE S == {b \in Instance : In(Q, x, b) \/ (In(P, x, z) /\ P[z] # None /\ In(P, P[z], b))}
  <2>1. x \in S
    BY <1>1, <1>4, InFacts
  <2>2. ASSUME NEW y \in S, P[y] # None PROVE P[y] \in S
    <3>1. y \in Instance /\ P[y] \in Instance
      BY <2>2 DEF Parents, Place
    <3>2. CASE In(Q, x, y) /\ y # z
      <4>1. Q[y] = P[y]
        BY <1>1, <3>1, <3>2
      <4>2. In(Q, x, Q[y])
        BY <1>1, <2>2, <3>2, <4>1, InFacts
      <4> QED
        BY <3>1, <4>1, <4>2
    <3>3. CASE In(Q, x, y) /\ y = z
      <4>1. In(P, x, z)
        <5> DEFINE R == {b \in Instance : In(P, x, b)}
        <5>1. x \in R
          BY <1>4, InFacts
        <5>2. ASSUME NEW w \in R, Q[w] # None PROVE Q[w] \in R
          <6>1. w # z /\ Q[w] = P[w] /\ In(P, x, w)
            BY <1>1, <5>2
          <6>2. In(P, x, P[w])
            BY <5>2, <6>1, InFacts
          <6> QED
            BY <6>1, <6>2, InFacts
        <5> HIDE DEF R
        <5>3. z \in R
          BY <1>1, <3>3, <5>1, <5>2, InLeast
        <5> QED
          BY <5>3 DEF R
      <4> QED
        BY <2>2, <3>1, <3>3, <4>1, InFacts
    <3>4. CASE In(P, x, z) /\ P[z] # None /\ In(P, P[z], y)
      BY <2>2, <3>1, <3>4, InFacts
    <3> QED
      BY <2>2, <3>2, <3>3, <3>4
  <2> HIDE DEF S
  <2>3. a \in S
    BY <1>4, <2>1, <2>2, InLeast
  <2>4. ~(In(P, x, z) /\ P[z] # None /\ In(P, P[z], a))
    <3> SUFFICES ASSUME In(P, x, z), P[z] # None, In(P, P[z], a) PROVE FALSE
      OBVIOUS
    <3>1. In(P, P[z], z)
      BY <1>4, InFacts
    <3>2. h[z] <= h[P[z]] /\ h[P[z]] < h[z]
      BY <3>1, InRank DEF Climbs
    <3>3. P[z] \in Instance
      BY DEF Parents, Place
    <3>4. h[z] \in Nat /\ h[P[z]] \in Nat
      BY <3>3 DEF Climbs
    <3> QED
      BY <3>2, <3>4
  <2> QED
    BY <2>3, <2>4 DEF S
<1> QED
  BY <1>2, <1>3, <1>4

\* An instance that has no parent gets one that is not below it.
LEMMA InLink ==
  ASSUME NEW P \in Parents, NEW z \in Instance, P[z] = None, NEW q \in Place, ~In(P, q, z),
         NEW Q, Q = [P EXCEPT ![z] = q]
  PROVE  /\ Q \in Parents
         /\ \A x, a : In(Q, x, a) <=> In(P, x, a) \/ (In(P, x, z) /\ In(P, q, a))
<1>1. Q \in Parents /\ Q[z] = q /\ \A y \in Instance : y # z => Q[y] = P[y]
  BY DEF Parents
<1>2. q # None => q \in Instance
  BY DEF Place
<1> SUFFICES ASSUME NEW x, NEW a
             PROVE  In(Q, x, a) <=> In(P, x, a) \/ (In(P, x, z) /\ In(P, q, a))
  BY <1>1
<1>3. ASSUME In(Q, x, a) PROVE In(P, x, a) \/ (In(P, x, z) /\ In(P, q, a))
  <2> DEFINE S == {b \in Instance : In(P, x, b) \/ (In(P, x, z) /\ In(P, q, b))}
  <2>1. x \in S
    BY <1>1, <1>3, InFacts
  <2>2. ASSUME NEW y \in S, Q[y] # None PROVE Q[y] \in S
    <3>1. y \in Instance /\ Q[y] \in Instance
      BY <1>1, <2>2 DEF Parents, Place
    <3>2. CASE In(P, x, y) /\ y # z
      <4>1. In(P, x, P[y]) /\ Q[y] = P[y]
        BY <1>1, <2>2, <3>1, <3>2, InFacts
      <4> QED
        BY <3>1, <4>1
    <3>3. CASE In(P, x, y) /\ y = z
      <4>1. In(P, q, q) /\ Q[y] = q
        BY <1>1, <3>1, <3>3, InFacts
      <4> QED
        BY <3>1, <3>3, <4>1
    <3>4. CASE In(P, x, z) /\ In(P, q, y)
      <4>1. y # z /\ Q[y] = P[y]
        BY <1>1, <3>1, <3>4
      <4>2. In(P, q, P[y])
        BY <2>2, <3>4, <4>1, InFacts
      <4> QED
        BY <3>1, <3>4, <4>1, <4>2
    <3> QED
      BY <2>2, <3>2, <3>3, <3>4
  <2> HIDE DEF S
  <2>3. a \in S
    BY <1>1, <1>3, <2>1, <2>2, InLeast
  <2> QED
    BY <2>3 DEF S
<1>4. ASSUME NEW y, NEW b, In(P, y, b) PROVE In(Q, y, b)
  <2> DEFINE S == {c \in Instance : In(Q, y, c)}
  <2>1. y \in S
    BY <1>1, <1>4, InFacts
  <2>2. ASSUME NEW w \in S, P[w] # None PROVE P[w] \in S
    <3>1. w # z /\ w \in Instance /\ Q[w] = P[w] /\ In(Q, y, w)
      BY <1>1, <2>2
    <3>2. In(Q, y, Q[w])
      BY <1>1, <2>2, <3>1, InFacts
    <3> QED
      BY <1>1, <3>1, <3>2, InFacts
  <2> HIDE DEF S
  <2>3. b \in S
    BY <1>4, <2>1, <2>2, InLeast
  <2> QED
    BY <2>3 DEF S
<1>5. ASSUME In(P, x, z), In(P, q, a) PROVE In(Q, x, a)
  <2>1. In(Q, x, z) /\ In(Q, q, a)
    BY <1>4, <1>5
  <2>2. Q[z] # None
    BY <1>1, <1>5, InFacts, TreeAssumption
  <2>3. In(Q, x, q)
    BY <1>1, <2>1, <2>2, InFacts
  <2> QED
    BY <1>1, <2>1, <2>3, InFacts
<1> QED
  BY <1>3, <1>4, <1>5

-----------------------------------------------------------------------------
\* While no listener moved an instance in the midst of its own setParent, the tree is one: each
\* instance is in the vector of its parent and in no other, and some rank grows downwards.
Ranked == \E h : Climbs(parent, h)
Whole == IInv /\ torn = {} /\ Ranked

LEMMA Exact ==
  ASSUME Whole
  PROVE  /\ parent \in Parents
         /\ \A x, p \in Instance : x \in ToSet(children[p]) <=> parent[x] = p
         /\ parent[Root] = None
<1>1. Typed /\ Held /\ torn = {}
  BY DEF Whole, IInv
<1>2. \A x, p \in Instance : x \in ToSet(children[p]) <=> parent[x] = p
  BY <1>1 DEF Held
<1>3. parent \in Parents
  BY <1>1 DEF Typed, Parents
<1>4. parent[Root] = None
  <2> SUFFICES ASSUME parent[Root] # None PROVE FALSE
    OBVIOUS
  <2>1. parent[Root] \in Instance /\ Root \in Instance
    BY <1>3, TreeAssumption DEF Parents, Place
  <2>2. Root \in ToSet(children[parent[Root]])
    BY <1>2, <2>1
  <2>3. ToSet(children[parent[Root]]) \subseteq Movable
    BY <1>1, <2>1 DEF Typed, ToSet
  <2> QED
    BY <2>2, <2>3 DEF Movable
<1> QED
  BY <1>2, <1>3, <1>4

\* What is not reached downwards from z has not z above it.
LEMMA BelowIn ==
  ASSUME Whole, NEW z \in Instance, NEW q, q \notin Below(z)
  PROVE  ~In(parent, q, z)
<1> DEFINE to == [y \in Instance |-> ToSet(children[y])]
           S == {a \in Instance : a \notin Above(z, to)}
<1>1. to \in [Instance -> SUBSET Instance]
  <2>1. \A y \in Instance : ToSet(children[y]) \subseteq Movable
    BY DEF Whole, IInv, Typed, ToSet
  <2> QED
    BY <2>1 DEF Movable
<1>2. \A y, p \in Instance : parent[y] = p => y \in to[p]
  BY Exact
<1> HIDE DEF to
<1>3. z \in Above(z, to) /\ \A y \in Above(z, to) : to[y] \subseteq Above(z, to)
  BY <1>1, AboveFacts
<1>4. q \notin Above(z, to)
  BY DEF Below, to
<1>5. parent \in Parents
  BY Exact
<1>6. ASSUME NEW y \in S \cap Instance, parent[y] # None PROVE parent[y] \in S
  <2>1. y \in Instance /\ parent[y] \in Instance /\ y \notin Above(z, to)
    BY <1>5, <1>6 DEF Parents, Place
  <2>2. y \in to[parent[y]]
    BY <1>2, <2>1
  <2> QED
    BY <1>3, <2>1, <2>2
<1>7. q \in Instance => q \in S
  BY <1>4
<1>8. z \notin S
  BY <1>3
<1> HIDE DEF S
<1> QED
  BY <1>5, <1>6, <1>7, <1>8, InLeast

\* An instance put where it is not above is ranked anew with all that is below it.
LEMMA RankedLink ==
  ASSUME NEW P \in Parents, NEW h, Climbs(P, h), NEW z \in Instance, NEW q \in Place, ~In(P, q, z)
  PROVE  \E g : Climbs([P EXCEPT ![z] = q], g)
<1> DEFINE Q == [P EXCEPT ![z] = q]
           n == IF q = None THEN 1 ELSE h[q] + 1
           g == [y \in Instance |-> IF In(P, y, z) THEN h[y] + n ELSE h[y]]
<1>1. Q[z] = q /\ \A y \in Instance : y # z => Q[y] = P[y]
  BY DEF Parents
<1>2. h \in [Instance -> Nat] /\ n \in Nat /\ (q # None => q \in Instance /\ n = h[q] + 1)
  BY DEF Climbs, Place
<1> HIDE DEF Q, n
<1>3. g \in [Instance -> Nat]
  BY <1>2
<1>4. ASSUME NEW y \in Instance, Q[y] # None PROVE g[Q[y]] < g[y]
  <2>1. CASE y = z
    <3>1. In(P, z, z)
      BY InFacts
    <3>2. Q[y] = q /\ q \in Instance /\ g[q] = h[q] /\ g[y] = h[y] + (h[q] + 1)
      BY <1>1, <1>2, <1>4, <2>1, <3>1
    <3>3. h[q] \in Nat /\ h[y] \in Nat
      BY <1>2, <3>2
    <3> QED
      BY <3>2, <3>3
  <2>2. CASE y # z
    <3>1. Q[y] = P[y] /\ P[y] \in Instance /\ h[P[y]] < h[y]
      BY <1>1, <1>4, <2>2 DEF Climbs, Parents, Place
    <3>2. In(P, y, z) <=> In(P, P[y], z)
      BY <1>1, <1>4, <2>2, <3>1, InFacts
    <3>3. h[P[y]] \in Nat /\ h[y] \in Nat
      BY <1>2, <3>1
    <3> QED
      BY <1>2, <3>1, <3>2, <3>3
  <2> QED
    BY <2>1, <2>2
<1>5. Climbs(Q, g)
  BY <1>3, <1>4 DEF Climbs
<1> QED
  BY <1>5 DEF Q

\* No step takes back that a listener moved what another call was to unlink.
LEMMA TornGrows ==
  ASSUME [Next]_vars
  PROVE  torn \subseteq torn'
<1>1. CASE Call
  BY <1>1 DEF Call, SetParent, GetService, RemoveInstance, RemoveAllChildren, pastVars
<1>2. CASE Go
  BY <1>2 DEF Go, SweepNext, SweepDone, Signal, Tell, Climb, Descend, Unlink, Link, Lose, Added,
     Changed, Return, pastVars
<1>3. CASE UNCHANGED vars
  BY <1>3 DEF vars, pastVars
<1> QED
  BY <1>1, <1>2, <1>3 DEF Next

\* Only unlinking and linking change parents.
LEMMA RankedStep ==
  ASSUME Whole, [Next]_vars
  PROVE  Ranked'
<1>1. PICK h : Climbs(parent, h)
  BY DEF Whole, Ranked
<1>2. parent \in Parents
  BY Exact
<1>3. CASE Call \/ UNCHANGED vars
  <2>1. parent' = parent
    BY <1>3 DEF Call, SetParent, GetService, RemoveInstance, RemoveAllChildren, treeVars, vars
  <2> QED
    BY <2>1 DEF Whole, Ranked
<1>4. CASE SweepNext \/ SweepDone \/ Signal \/ Tell \/ Climb \/ Descend \/ Lose \/ Added \/ Changed \/ Return
  <2>1. parent' = parent
    BY <1>4 DEF SweepNext, SweepDone, Signal, Tell, Climb, Descend, Lose, Added, Changed, Return, treeVars
  <2> QED
    BY <2>1 DEF Whole, Ranked
<1>5. CASE Unlink
  <2>1. parent' = [parent EXCEPT ![Top.inst] = None]
    BY <1>5 DEF Unlink
  <2>2. stack # <<>> /\ Takes(Top)
    BY <1>5 DEF Unlink, Erases, At, Does, Takes, IsMove
  <2>3. Top.inst \in Instance
    BY <2>2, TakenFacts DEF Whole
  <2>4. ~In(parent, None, Top.inst) /\ None \in Place
    BY <1>2, InFacts, TreeAssumption DEF Place
  <2> QED
    BY <1>1, <1>2, <2>1, <2>3, <2>4, RankedLink DEF Ranked
<1>6. CASE Link
  <2>1. parent' = [parent EXCEPT ![Top.inst] = Top.new] /\ Top.new \notin Below(Top.inst)
    BY <1>6 DEF Link
  <2>2. stack # <<>> /\ Takes(Top)
    BY <1>6 DEF Link, Links, At, Does, Takes, IsMove
  <2>3. Top.inst \in Instance /\ Top.new \in Place
    BY <2>2, TakenFacts DEF Whole
  <2>4. ~In(parent, Top.new, Top.inst)
    BY <2>1, <2>3, BelowIn
  <2> QED
    BY <1>1, <1>2, <2>1, <2>3, <2>4, RankedLink DEF Ranked
<1> QED
  BY <1>3, <1>4, <1>5, <1>6 DEF Next, Go

\* The tree to begin with has a rank.
LEMMA RankedInit ==
  ASSUME Init
  PROVE  Ranked
<1>1. Typed /\ Held /\ children = Placed
  BY InitInvariant DEF Init, IInv
<1> DEFINE R == 1..Cardinality(Instance)
<1>2. PICK h \in [Instance -> R] : \A p \in Instance : \A x \in ToSet(Placed[p]) : h[p] < h[x]
  BY TreeAssumption
<1>3. R \subseteq Nat
  BY FS_CardinalityType, TreeAssumption
<1>4. h \in [Instance -> Nat]
  BY <1>3
<1>5. ASSUME NEW y \in Instance, parent[y] # None PROVE h[parent[y]] < h[y]
  <2>1. parent[y] \in Instance
    BY <1>1, <1>5 DEF Typed, Place
  <2>2. y \in ToSet(Placed[parent[y]])
    BY <1>1, <2>1 DEF Held
  <2> QED
    BY <1>2, <2>1, <2>2
<1> QED
  BY <1>4, <1>5 DEF Ranked, Climbs

-----------------------------------------------------------------------------
\* What a walk has to do with, and all below that.
Walks(f) == IsMove(f) /\ f.pc \in {"removing", "removed", "adding"}
Zone(P, f) == {y \in Movable : \E c \in Concerned(f) : In(P, y, c)}

\* w is in the way of a walk: what is moved with it is of the walk's zone, or above what the
\* walk reads. And q is in its zone.
Meets(P, f, w) ==
  \/ \E c \in Concerned(f) : In(P, w, c) \/ In(P, c, w)
  \/ In(P, f.old, w) \/ In(P, f.new, w)
Enters(P, f, q) == \E c \in Concerned(f) : In(P, q, c)

\* What a call moves, or is going to.
Bears(f) == IF IsMove(f) THEN {f.inst} ELSE {f.inst} \cup ToSet(f.todo)

\* A call that is in the way of one that walks, further out, has disturbed all of that one's
\* zone; and if it puts something into the zone, that too.
ApartIn(P, D, s) ==
  \A i, j \in DOMAIN s : i < j /\ Walks(s[i]) =>
    /\ \A w \in Bears(s[j]) : Meets(P, s[i], w) => Zone(P, s[i]) \subseteq D
    /\ Takes(s[j]) /\ Enters(P, s[i], s[j].new) =>
         Zone(P, s[i]) \subseteq D /\ Zone(P, s[j]) \subseteq D

\* A walk that nobody disturbs: whom it has to do with is below what is moved, and where it
\* signals is above the place it started from.
Base(f) == IF f.pc = "adding" THEN f.new ELSE f.old
Sane(P, f) ==
  /\ \A c \in Concerned(f) : In(P, c, f.inst)
  /\ ~In(P, f.old, f.inst)
  /\ f.pc = "adding" => P[f.inst] = f.new
  /\ \A k \in DOMAIN f.walk : f.walk[k].at = None \/ In(P, Base(f), f.walk[k].at)
SaneIn(P, D, s) == \A i \in DOMAIN s : Walks(s[i]) => Zone(P, s[i]) \subseteq D \/ Sane(P, s[i])

\* The walk is still to come to x at the root.
DueAt(P, v, x) ==
  In(P, x, v.who) /\ (x = v.who => In(P, v.at, Root) /\ ~(v.at = Root /\ v.step = "told"))
Due(P, f, x) == \E k \in DOMAIN f.walk : DueAt(P, f.walk[k], x)

\* Whether what f moves ends up in the root; a call that would put it below itself does not
\* come back, and tells nothing.
Bound(P, f) == In(P, IF Takes(f) /\ In(P, f.new, f.inst) THEN f.old ELSE f.new, Root)

\* What x, which f moves, was told: what was true until it is told what is.
ToldBy(P, T, f, x) ==
  LET was == In(P, f.old, Root)
      is == Bound(P, f)
  IN  /\ was /\ is => x \in T
      /\ ~was /\ ~is => x \notin T
      /\ was /\ ~is => IF Takes(f) THEN x \in T => Due(P, f, x) ELSE x \notin T
      /\ ~was /\ is => IF Takes(f) THEN x \notin T ELSE x \in T \/ Due(P, f, x)
Covers(P, f, x) == Walks(f) /\ x \in Zone(P, f)
TrueIn(P, T, D, s) ==
  \A x \in Movable \ D :
    /\ (\A i \in DOMAIN s : ~Covers(P, s[i], x)) => (x \in T <=> In(P, x, Root))
    /\ \A i \in DOMAIN s : Covers(P, s[i], x) => ToldBy(P, T, s[i], x)

\* A walk is over before the unlinking, and there is none where there was no parent.
ShapedIn(s) ==
  \A i \in DOMAIN s : Takes(s[i]) =>
    (s[i].pc = "removed" \/ s[i].old = None => s[i].walk = <<>>)

TalkIn(P, T, D, s) == ApartIn(P, D, s) /\ SaneIn(P, D, s) /\ TrueIn(P, T, D, s) /\ ShapedIn(s)
Talk == TalkIn(parent, told, disturbed, stack)

\* The model's words.
LEMMA InsideIn ==
  ASSUME NEW x, NEW a
  PROVE  (Inside(x, a) <=> In(parent, x, a)) /\ (Inside(x, a)' <=> In(parent', x, a))
BY DEF Inside, Lineage, In, Up

\* A call that walks, as it is on the stack.
LEMMA WalksFacts ==
  ASSUME NEW f \in Frame
  PROVE  /\ Takes(f) => Walks(f)
         /\ Walks(f) => IsMove(f)
         /\ IsMove(f) => /\ f \in MoveOK /\ f.inst \in Movable /\ f.inst \in Instance /\ f.inst \in Concerned(f)
                         /\ Concerned(f) \subseteq Movable /\ Concerned(f) \subseteq Instance
                         /\ f.old \in Place /\ f.new \in Place /\ f.walk \in Seq(VisitOK)
                         /\ Bears(f) = {f.inst}
<1>1. (Takes(f) => Walks(f)) /\ (Walks(f) => IsMove(f))
  BY DEF Takes, Walks
<1>2. SUFFICES ASSUME IsMove(f)
               PROVE  /\ f \in MoveOK /\ f.inst \in Movable /\ f.inst \in Instance /\ f.inst \in Concerned(f)
                      /\ Concerned(f) \subseteq Movable /\ Concerned(f) \subseteq Instance
                      /\ f.old \in Place /\ f.new \in Place /\ f.walk \in Seq(VisitOK)
                      /\ Bears(f) = {f.inst}
  BY <1>1
<1>3. f \in MoveOK
  BY <1>2 DEF Frame, IsMove, Sweep
<1>4. f.inst \in Movable /\ f.old \in Place /\ f.new \in Place /\ f.walk \in Seq(VisitOK)
  BY <1>3 DEF MoveOK
<1>5. \A k \in DOMAIN f.walk : f.walk[k] \in VisitOK
  BY <1>4
<1>6. \A v \in VisitOK : v.who \in Movable
  BY DEF VisitOK, Visit
<1> QED
  BY <1>2, <1>3, <1>4, <1>5, <1>6 DEF Concerned, Movable, Bears

\* Of two above the same, one is above the other: what a walk that is met covers.
LEMMA MeetsBelow ==
  ASSUME NEW P \in Parents, NEW f, NEW w, NEW z, In(P, w, z), Meets(P, f, w)
  PROVE  Meets(P, f, z)
<1>1. \A c : In(P, w, c) => In(P, c, z) \/ In(P, z, c)
  BY InFacts
<1>2. \A c : In(P, c, w) => In(P, c, z)
  BY InFacts
<1> QED
  BY <1>1, <1>2 DEF Meets

\* What is moved and covered too is in the way of who covers it.
LEMMA CoveredMeets ==
  ASSUME NEW P \in Parents, NEW f, NEW x, x \in Zone(P, f), NEW z, In(P, x, z)
  PROVE  Meets(P, f, z)
<1>1. PICK c \in Concerned(f) : In(P, x, c)
  BY DEF Zone
<1>2. In(P, c, z) \/ In(P, z, c)
  BY <1>1, InFacts
<1> QED
  BY <1>1, <1>2 DEF Meets

\* The root is below nothing: all below something else is in it or not with that.
LEMMA UnderRoot ==
  ASSUME NEW P \in Parents, P[Root] = None, NEW z \in Movable, NEW x, In(P, x, z)
  PROVE  In(P, x, Root) <=> P[z] # None /\ In(P, P[z], Root)
<1>1. Root \in Instance /\ z \in Instance /\ z # Root
  BY TreeAssumption DEF Movable
<1>2. In(P, z, Root) <=> P[z] # None /\ In(P, P[z], Root)
  BY <1>1, InFacts
<1>3. ~In(P, Root, z)
  BY <1>1, InFacts
<1>4. In(P, x, Root) <=> In(P, z, Root)
  BY <1>3, InFacts
<1> QED
  BY <1>2, <1>4

\* More is disturbed.
LEMMA TalkWider ==
  ASSUME NEW P, NEW T, NEW D, NEW s, TalkIn(P, T, D, s), NEW E, D \subseteq E
  PROVE  TalkIn(P, T, E, s)
<1>1. ApartIn(P, E, s)
  BY DEF TalkIn, ApartIn
<1>2. SaneIn(P, E, s)
  BY DEF TalkIn, SaneIn
<1>3. TrueIn(P, T, E, s)
  BY DEF TalkIn, TrueIn
<1> QED
  BY <1>1, <1>2, <1>3 DEF TalkIn

\* A call returns that does not walk.
LEMMA TalkPop ==
  ASSUME NEW P, NEW T, NEW D, NEW s \in Seq(Frame), s # <<>>, ~Walks(Last(s)), TalkIn(P, T, D, s)
  PROVE  TalkIn(P, T, D, Front(s))
<1> DEFINE n == Len(s)
           r == Front(s)
<1>1. /\ n \in Nat \ {0} /\ DOMAIN s = 1..n /\ DOMAIN r = 1..(n - 1) /\ s[n] = Last(s)
      /\ \A i \in 1..(n - 1) : r[i] = s[i]
  BY FrontFacts DEF Last
<1> HIDE DEF n, r
<1>2. \A i \in 1..n : i = n \/ i \in 1..(n - 1)
  BY <1>1
<1>3. \A i \in 1..(n - 1) : i \in 1..n
  BY <1>1
<1>4. ApartIn(P, D, r)
  BY <1>1, <1>3 DEF TalkIn, ApartIn
<1>5. SaneIn(P, D, r) /\ ShapedIn(r)
  BY <1>1, <1>3 DEF TalkIn, SaneIn, ShapedIn
<1>6. TrueIn(P, T, D, r)
  BY <1>1, <1>2, <1>3 DEF TalkIn, TrueIn, Covers
<1> QED
  BY <1>4, <1>5, <1>6 DEF TalkIn, r

\* A sweep begins, of what is in nobody's way or disturbs him.
LEMMA TalkSweep ==
  ASSUME NEW P, NEW T, NEW D, NEW s \in Seq(Frame), TalkIn(P, T, D, s),
         NEW g \in Frame, ~IsMove(g),
         \A i \in DOMAIN s : Walks(s[i]) =>
           (\A w \in Bears(g) : Meets(P, s[i], w) => Zone(P, s[i]) \subseteq D)
  PROVE  TalkIn(P, T, D, Append(s, g))
<1> DEFINE n == Len(s)
           r == Append(s, g)
<1>1. /\ n \in Nat /\ DOMAIN s = 1..n /\ DOMAIN r = 1..(n + 1)
      /\ r[n + 1] = g /\ \A i \in 1..n : r[i] = s[i]
  OBVIOUS
<1> HIDE DEF n, r
<1>2. \A i \in 1..(n + 1) : i = n + 1 \/ i \in 1..n
  BY <1>1
<1>3. \A i \in 1..n : i \in 1..(n + 1) /\ ~(n + 1 < i) /\ i < n + 1
  BY <1>1
<1>4. ~Walks(g) /\ ~Takes(g)
  BY DEF Walks, Takes
<1>5. ApartIn(P, D, r)
  <2> SUFFICES ASSUME NEW i \in 1..(n + 1), NEW j \in 1..(n + 1), i < j, Walks(r[i])
               PROVE  /\ \A w \in Bears(r[j]) : Meets(P, r[i], w) => Zone(P, r[i]) \subseteq D
                      /\ Takes(r[j]) /\ Enters(P, r[i], r[j].new) =>
                           Zone(P, r[i]) \subseteq D /\ Zone(P, r[j]) \subseteq D
    BY <1>1 DEF ApartIn
  <2>1. i \in 1..n /\ r[i] = s[i]
    BY <1>1, <1>2, <1>4
  <2>2. CASE j \in 1..n
    BY <1>1, <2>1, <2>2 DEF TalkIn, ApartIn
  <2>3. CASE j = n + 1
    BY <1>1, <1>4, <2>1, <2>3
  <2> QED
    BY <1>2, <2>2, <2>3
<1>6. SaneIn(P, D, r) /\ ShapedIn(r)
  BY <1>1, <1>2, <1>4 DEF TalkIn, SaneIn, ShapedIn
<1>7. TrueIn(P, T, D, r)
  BY <1>1, <1>2, <1>3, <1>4 DEF TalkIn, TrueIn, Covers
<1> QED
  BY <1>5, <1>6, <1>7 DEF TalkIn, r

\* setParent begins, and is in nobody's way or disturbs him and what it moves.
LEMMA TalkMove ==
  ASSUME NEW P \in Parents, P[Root] = None, NEW h, Climbs(P, h),
         NEW T, NEW D, NEW s \in Seq(Frame), TalkIn(P, T, D, s),
         NEW g \in MoveOK, g.pc = "removing", g.old = P[g.inst],
         g.walk \in {<<>>, Visits(<<g.inst>>, g.old)}, g.old = None => g.walk = <<>>,
         g.walk = <<>> /\ g.old # None => In(P, g.new, g.old),
         \A i \in DOMAIN s : Walks(s[i]) =>
           /\ Meets(P, s[i], g.inst) => Zone(P, s[i]) \subseteq D
           /\ Enters(P, s[i], g.new) => Zone(P, s[i]) \subseteq D /\ Zone(P, g) \subseteq D
  PROVE  TalkIn(P, T, D, Append(s, g))
<1> DEFINE n == Len(s)
           r == Append(s, g)
           z == g.inst
<1>1. /\ n \in Nat /\ DOMAIN s = 1..n /\ DOMAIN r = 1..(n + 1)
      /\ r[n + 1] = g /\ \A i \in 1..n : r[i] = s[i] /\ s[i] \in Frame
  BY DEF Frame
<1>2. /\ g \in Frame /\ IsMove(g) /\ Walks(g) /\ Takes(g)
      /\ z \in Movable /\ z \in Instance /\ g.old \in Place /\ g.new \in Place
      /\ Bears(g) = {z} /\ Concerned(g) \subseteq Movable /\ z \in Concerned(g)
  <2>1. g \in Frame /\ IsMove(g) /\ Walks(g) /\ Takes(g)
    BY DEF Frame, MoveOK, IsMove, Walks, Takes
  <2> QED
    BY <2>1, WalksFacts
<1> HIDE DEF n, r
<1>3. \A i \in 1..(n + 1) : i = n + 1 \/ i \in 1..n
  BY <1>1
<1>4. \A i \in 1..n : i \in 1..(n + 1) /\ ~(n + 1 < i) /\ i < n + 1
  BY <1>1
<1>5. ApartIn(P, D, r)
  <2> SUFFICES ASSUME NEW i \in 1..(n + 1), NEW j \in 1..(n + 1), i < j, Walks(r[i])
               PROVE  /\ \A w \in Bears(r[j]) : Meets(P, r[i], w) => Zone(P, r[i]) \subseteq D
                      /\ Takes(r[j]) /\ Enters(P, r[i], r[j].new) =>
                           Zone(P, r[i]) \subseteq D /\ Zone(P, r[j]) \subseteq D
    BY <1>1 DEF ApartIn
  <2>1. i \in 1..n /\ r[i] = s[i]
    BY <1>1, <1>3
  <2>2. CASE j \in 1..n
    BY <1>1, <2>1, <2>2 DEF TalkIn, ApartIn
  <2>3. CASE j = n + 1
    BY <1>1, <1>2, <2>1, <2>3
  <2> QED
    BY <1>3, <2>2, <2>3
<1>6. /\ Concerned(g) = {z} /\ \A k \in DOMAIN g.walk : g.walk[k].at = g.old
      /\ g.old # None /\ g.walk # <<>> =>
           \E k \in DOMAIN g.walk : g.walk[k].who = z /\ g.walk[k].at = g.old /\ g.walk[k].step = "due"
  <2>1. CASE g.walk = <<>>
    BY <2>1 DEF Concerned
  <2>2. CASE g.walk = Visits(<<z>>, g.old)
    <3>1. /\ DOMAIN g.walk = {1} /\ g.walk[1].who = z /\ g.walk[1].at = g.old
          /\ g.walk[1].step = "due"
      <4>1. DOMAIN <<z>> = {1} /\ <<z>>[1] = z
        OBVIOUS
      <4> QED
        BY <2>2, <4>1 DEF Visits
    <3> QED
      BY <3>1 DEF Concerned
  <2> QED
    BY <2>1, <2>2
<1>7. Sane(P, g)
  <2>1. In(P, z, z) /\ Base(g) = g.old
    BY <1>2, InFacts DEF Base
  <2>2. ~In(P, g.old, z)
    <3> SUFFICES ASSUME In(P, g.old, z) PROVE FALSE
      OBVIOUS
    <3>1. g.old \in Instance /\ g.old # None
      BY InFacts, TreeAssumption
    <3>2. h[z] <= h[g.old] /\ h[g.old] < h[z] /\ h[z] \in Nat /\ h[g.old] \in Nat
      BY <1>2, <3>1, InRank DEF Climbs
    <3> QED
      BY <3>2
  <2>3. g.old # None => In(P, g.old, g.old)
    BY <1>2, InFacts DEF Place
  <2> QED
    BY <1>6, <2>1, <2>2, <2>3 DEF Sane
<1>8. SaneIn(P, D, r) /\ ShapedIn(r)
  BY <1>1, <1>3, <1>7 DEF TalkIn, SaneIn, ShapedIn
<1>9. TrueIn(P, T, D, r)
  <2> SUFFICES ASSUME NEW x \in Movable \ D
               PROVE  /\ (\A i \in 1..(n + 1) : ~Covers(P, r[i], x)) => (x \in T <=> In(P, x, Root))
                      /\ \A i \in 1..(n + 1) : Covers(P, r[i], x) => ToldBy(P, T, r[i], x)
    BY <1>1 DEF TrueIn
  <2>1. (\A i \in 1..n : ~Covers(P, s[i], x)) => (x \in T <=> In(P, x, Root))
    BY <1>1 DEF TalkIn, TrueIn
  <2>2. \A i \in 1..n : Covers(P, s[i], x) => ToldBy(P, T, s[i], x)
    BY <1>1 DEF TalkIn, TrueIn
  <2>3. ASSUME Covers(P, g, x) PROVE ToldBy(P, T, g, x)
    <3>1. In(P, x, z)
      BY <1>6, <2>3 DEF Covers, Zone
    <3>2. ASSUME NEW i \in 1..n, Covers(P, s[i], x) PROVE FALSE
      <4>1. Meets(P, s[i], z)
        BY <3>1, <3>2, CoveredMeets DEF Covers
      <4>2. Zone(P, s[i]) \subseteq D
        BY <1>1, <3>2, <4>1 DEF Covers
      <4> QED
        BY <3>2, <4>2 DEF Covers
    <3>3. x \in T <=> In(P, x, Root)
      BY <2>1, <3>2
    <3>4. In(P, x, Root) <=> g.old # None /\ In(P, g.old, Root)
      BY <1>2, <3>1, UnderRoot
    <3>5. None \notin Instance
      BY TreeAssumption
    <3>6. ~In(P, None, Root)
      BY <3>5, InFacts
    <3>7. ASSUME In(P, g.old, Root), ~Bound(P, g) PROVE Due(P, g, x)
      <4>1. g.old # None /\ g.walk # <<>>
        BY <3>6, <3>7, InFacts DEF Bound
      <4>2. PICK k \in DOMAIN g.walk : g.walk[k].who = z /\ g.walk[k].at = g.old /\ g.walk[k].step = "due"
        BY <1>6, <4>1
      <4>3. DueAt(P, g.walk[k], x)
        BY <3>1, <3>7, <4>2 DEF DueAt
      <4> QED
        BY <4>3 DEF Due
    <3> QED
      BY <1>2, <3>3, <3>4, <3>6, <3>7 DEF ToldBy
  <2> QED
    BY <1>1, <1>3, <1>4, <2>1, <2>2, <2>3
<1> QED
  BY <1>5, <1>8, <1>9 DEF TalkIn, r

\* The innermost call goes on, in the same tree, as long as it keeps to its zone and tells the
\* truth in it.
LEMMA TalkOn ==
  ASSUME NEW P \in Parents, NEW T, NEW U, NEW D, NEW s \in Seq(Frame), s # <<>>, TalkIn(P, T, D, s),
         IsMove(Last(s)), NEW f \in MoveOK, f.inst = Last(s).inst, f.new = Last(s).new,
         Takes(f) => Takes(Last(s)), Walks(f) => Walks(Last(s)),
         Takes(f) => (f.pc = "removed" \/ f.old = None => f.walk = <<>>),
         Zone(P, f) \subseteq Zone(P, Last(s)),
         Walks(f) /\ Sane(P, Last(s)) => Sane(P, f),
         \A x \in Movable \ D : ~Covers(P, Last(s), x) => (x \in U <=> x \in T),
         \A x \in Movable \ D : Covers(P, Last(s), x) /\ Sane(P, Last(s)) /\ ToldBy(P, T, Last(s), x) =>
           IF Walks(f) THEN ToldBy(P, U, f, x) ELSE x \in U <=> In(P, x, Root)
  PROVE  TalkIn(P, U, D, Append(Front(s), f))
<1> DEFINE n == Len(s)
           r == Append(Front(s), f)
           t == Last(s)
<1>1. f \in Frame /\ IsMove(f)
  BY DEF Frame, MoveOK, IsMove
<1>2. /\ DOMAIN r = DOMAIN s /\ DOMAIN s = 1..n /\ n \in 1..n /\ s[n] = t /\ n \in Nat
      /\ r[n] = f /\ \A i \in 1..n : i # n => r[i] = s[i] /\ i < n
  <2>1. DOMAIN r = DOMAIN s /\ \A i \in DOMAIN s : r[i] = IF i = n THEN f ELSE s[i]
    BY <1>1, ReplaceFacts
  <2>2. n \in Nat \ {0} /\ DOMAIN s = 1..n /\ s[n] = t
    BY FrontFacts DEF Last
  <2> HIDE DEF r, t, n
  <2>3. \A i \in 1..n : i # n => i < n
    BY <2>2
  <2> QED
    BY <2>1, <2>2, <2>3
<1> HIDE DEF n, r, t
<1>3. \A i \in 1..n : s[i] \in Frame
  BY <1>2
<1>4. t \in Frame /\ IsMove(t) /\ t.inst = f.inst /\ t.new = f.new /\ Bears(t) = {f.inst} /\ Bears(f) = {f.inst}
  BY <1>1, <1>2, <1>3, WalksFacts DEF t
<1>5. /\ Takes(f) => Takes(t)
      /\ Walks(f) => Walks(t)
      /\ Walks(f) /\ Sane(P, t) => Sane(P, f)
      /\ Zone(P, f) \subseteq Zone(P, t)
  BY DEF t
<1>6. ApartIn(P, D, r)
  <2> SUFFICES ASSUME NEW i \in 1..n, NEW j \in 1..n, i < j, Walks(r[i])
               PROVE  /\ \A w \in Bears(r[j]) : Meets(P, r[i], w) => Zone(P, r[i]) \subseteq D
                      /\ Takes(r[j]) /\ Enters(P, r[i], r[j].new) =>
                           Zone(P, r[i]) \subseteq D /\ Zone(P, r[j]) \subseteq D
    BY <1>2 DEF ApartIn
  <2>1. i # n /\ r[i] = s[i]
    BY <1>2
  <2>2. /\ \A w \in Bears(s[j]) : Meets(P, s[i], w) => Zone(P, s[i]) \subseteq D
        /\ Takes(s[j]) /\ Enters(P, s[i], s[j].new) =>
             Zone(P, s[i]) \subseteq D /\ Zone(P, s[j]) \subseteq D
    BY <1>2, <2>1 DEF TalkIn, ApartIn
  <2>3. CASE j = n
    BY <1>2, <1>4, <1>5, <2>1, <2>2, <2>3
  <2>4. CASE j # n
    BY <1>2, <2>1, <2>2, <2>4
  <2> QED
    BY <2>3, <2>4
<1>7. SaneIn(P, D, r)
  <2> SUFFICES ASSUME NEW i \in 1..n, Walks(r[i])
               PROVE  Zone(P, r[i]) \subseteq D \/ Sane(P, r[i])
    BY <1>2 DEF SaneIn
  <2>1. Walks(s[i]) => Zone(P, s[i]) \subseteq D \/ Sane(P, s[i])
    BY <1>2 DEF TalkIn, SaneIn
  <2> QED
    BY <1>2, <1>5, <2>1
<1>8. ShapedIn(r)
  BY <1>2 DEF TalkIn, ShapedIn
<1>9. TrueIn(P, U, D, r)
  <2> SUFFICES ASSUME NEW x \in Movable \ D
               PROVE  /\ (\A i \in 1..n : ~Covers(P, r[i], x)) => (x \in U <=> In(P, x, Root))
                      /\ \A i \in 1..n : Covers(P, r[i], x) => ToldBy(P, U, r[i], x)
    BY <1>2 DEF TrueIn
  <2>1. (\A i \in 1..n : ~Covers(P, s[i], x)) => (x \in T <=> In(P, x, Root))
    BY <1>2 DEF TalkIn, TrueIn
  <2>2. \A i \in 1..n : Covers(P, s[i], x) => ToldBy(P, T, s[i], x)
    BY <1>2 DEF TalkIn, TrueIn
  <2>3. CASE Covers(P, t, x)
    <3>1. Sane(P, t)
      BY <1>2, <2>3 DEF TalkIn, SaneIn, Covers
    <3>2. IF Walks(f) THEN ToldBy(P, U, f, x) ELSE x \in U <=> In(P, x, Root)
      BY <1>2, <2>2, <2>3, <3>1 DEF t
    <3>3. PICK c \in Concerned(t) : In(P, x, c)
      BY <2>3 DEF Covers, Zone
    <3>4. In(P, x, t.inst)
      BY <3>1, <3>3, InFacts DEF Sane
    <3>5. f.inst \in Concerned(f)
      BY <1>1, WalksFacts
    <3>6. x \in Zone(P, f)
      BY <1>4, <3>4, <3>5 DEF Zone
    <3>7. Walks(f) => Covers(P, r[n], x)
      BY <1>2, <3>6 DEF Covers
    <3>8. ASSUME NEW i \in 1..n, i # n, Covers(P, s[i], x) PROVE FALSE
      <4>1. Meets(P, s[i], t.inst)
        BY <3>4, <3>8, CoveredMeets DEF Covers
      <4>2. Zone(P, s[i]) \subseteq D
        BY <1>2, <1>4, <3>8, <4>1 DEF TalkIn, ApartIn, Covers
      <4> QED
        BY <3>8, <4>2 DEF Covers
    <3> QED
      BY <1>2, <3>2, <3>7, <3>8 DEF Covers
  <2>4. CASE ~Covers(P, t, x)
    <3>1. x \in U <=> x \in T
      BY <2>4 DEF t
    <3>2. ~Covers(P, f, x)
      BY <1>5, <2>4 DEF Covers
    <3>3. \A f1 : ToldBy(P, T, f1, x) => ToldBy(P, U, f1, x)
      BY <3>1 DEF ToldBy
    <3> QED
      BY <1>2, <2>1, <2>2, <2>4, <3>1, <3>2, <3>3
  <2> QED
    BY <2>3, <2>4
<1> QED
  BY <1>6, <1>7, <1>8, <1>9 DEF TalkIn, r

-----------------------------------------------------------------------------
\* The innermost call takes its instance from its parent.
LEMMA TalkUnlink ==
  ASSUME NEW P \in Parents, P[Root] = None, NEW h, Climbs(P, h),
         NEW T, NEW D, NEW s \in Seq(Frame), s # <<>>, TalkIn(P, T, D, s), Takes(Last(s)),
         Last(s).walk = <<>>,
         NEW Q, Q = [P EXCEPT ![Last(s).inst] = None],
         NEW f \in MoveOK, f.inst = Last(s).inst, f.old = Last(s).old, f.new = Last(s).new,
         f.pc = "removed", f.walk = <<>>
  PROVE  TalkIn(Q, T, D, Append(Front(s), f))
<1> DEFINE n == Len(s)
           r == Append(Front(s), f)
           t == Last(s)
           z == f.inst
<1>1. f \in Frame /\ IsMove(f) /\ Walks(f) /\ Takes(f)
  BY DEF Frame, MoveOK, IsMove, Walks, Takes
<1>2. /\ DOMAIN r = DOMAIN s /\ DOMAIN s = 1..n /\ n \in 1..n /\ s[n] = t /\ n \in Nat
      /\ r[n] = f /\ \A i \in 1..n : i # n => r[i] = s[i] /\ i < n
  <2>1. DOMAIN r = DOMAIN s /\ \A i \in DOMAIN s : r[i] = IF i = n THEN f ELSE s[i]
    BY <1>1, ReplaceFacts
  <2>2. n \in Nat \ {0} /\ DOMAIN s = 1..n /\ s[n] = t
    BY FrontFacts DEF Last
  <2> HIDE DEF r, t, n
  <2>3. \A i \in 1..n : i # n => i < n
    BY <2>2
  <2> QED
    BY <2>1, <2>2, <2>3
<1> HIDE DEF n, r
<1>3. \A i \in 1..n : s[i] \in Frame
  BY <1>2
<1>4. /\ t \in Frame /\ IsMove(t) /\ Walks(t) /\ t.inst = z /\ t.old = f.old /\ t.new = f.new
      /\ Bears(t) = {z} /\ Bears(f) = {z} /\ z \in Movable /\ z \in Instance
      /\ Concerned(t) = {z} /\ Concerned(f) = {z}
  BY <1>1, <1>2, <1>3, WalksFacts DEF Concerned
<1>5. /\ Q \in Parents /\ Q[z] = None /\ \A y \in Instance : y # z => Q[y] = P[y]
      /\ \A x, a : In(Q, x, a) <=> In(P, x, a) /\ (In(P, x, z) => In(P, a, z))
  <2>1. Q = [P EXCEPT ![z] = None] /\ z \in Instance
    BY <1>4
  <2> HIDE DEF z
  <2>2. Q \in Parents /\ \A x, a : In(Q, x, a) <=> In(P, x, a) /\ (In(P, x, z) => In(P, a, z))
    BY <2>1, InUnlink
  <2> QED
    BY <2>1, <2>2 DEF Parents
<1> HIDE DEF t, z
<1>6. Walks(t) /\ Takes(t) /\ t.walk = <<>>
  BY <1>4 DEF t, z

\* The calls further out.
<1>7. \A g : Zone(Q, g) \subseteq Zone(P, g)
  BY <1>5 DEF Zone
<1>8. \A g, w : Meets(Q, g, w) => Meets(P, g, w)
  BY <1>5 DEF Meets
<1>9. ASSUME NEW i \in 1..n, i # n, Walks(s[i])
      PROVE  \/ Zone(P, s[i]) \subseteq D
             \/ Sane(P, s[i]) /\ ~Meets(P, s[i], z)
  <2>1. Zone(P, s[i]) \subseteq D \/ Sane(P, s[i])
    BY <1>2, <1>9 DEF TalkIn, SaneIn
  <2>2. Meets(P, s[i], z) => Zone(P, s[i]) \subseteq D
    BY <1>2, <1>4, <1>9 DEF TalkIn, ApartIn
  <2> QED
    BY <2>1, <2>2
<1>10. ASSUME NEW g, ~Meets(P, g, z)
       PROVE  /\ \A c \in Concerned(g) : \A a : In(Q, c, a) <=> In(P, c, a)
              /\ \A a : In(Q, g.old, a) <=> In(P, g.old, a)
              /\ \A a : In(Q, g.new, a) <=> In(P, g.new, a)
              /\ \A a, b : In(P, Base(g), a) => (In(Q, a, b) <=> In(P, a, b))
              /\ \A x, a : x \in Zone(P, g) => (In(Q, x, a) <=> In(P, x, a))
  <2>1. \A a : In(P, Base(g), a) => ~In(P, a, z)
    <3>1. \A a : In(P, Base(g), a) /\ In(P, a, z) => In(P, Base(g), z)
      BY InFacts
    <3> QED
      BY <1>10, <3>1 DEF Base, Meets
  <2>2. \A x \in Zone(P, g) : ~In(P, x, z)
    BY <1>10, CoveredMeets
  <2> QED
    BY <1>5, <1>10, <2>1, <2>2 DEF Meets
<1>11. ApartIn(Q, D, r)
  <2> SUFFICES ASSUME NEW i \in 1..n, NEW j \in 1..n, i < j, Walks(r[i])
               PROVE  /\ \A w \in Bears(r[j]) : Meets(Q, r[i], w) => Zone(Q, r[i]) \subseteq D
                      /\ Takes(r[j]) /\ Enters(Q, r[i], r[j].new) =>
                           Zone(Q, r[i]) \subseteq D /\ Zone(Q, r[j]) \subseteq D
    BY <1>2 DEF ApartIn
  <2>1. i # n /\ r[i] = s[i]
    BY <1>2
  <2>2. /\ \A w \in Bears(s[j]) : Meets(P, s[i], w) => Zone(P, s[i]) \subseteq D
        /\ Takes(s[j]) /\ Enters(P, s[i], s[j].new) =>
             Zone(P, s[i]) \subseteq D /\ Zone(P, s[j]) \subseteq D
    BY <1>2, <2>1 DEF TalkIn, ApartIn
  <2>3. Bears(r[j]) = Bears(s[j]) /\ r[j].new = s[j].new /\ (Takes(r[j]) => Takes(s[j]))
    BY <1>2, <1>4, <1>6
  <2>4. Zone(P, r[j]) = Zone(P, s[j])
    BY <1>2, <1>4 DEF Zone
  <2>5. Enters(Q, s[i], s[j].new) => Enters(P, s[i], s[j].new)
    BY <1>5 DEF Enters
  <2> QED
    BY <1>7, <1>8, <2>1, <2>2, <2>3, <2>4, <2>5
<1>12. ShapedIn(r)
  BY <1>2 DEF TalkIn, ShapedIn
<1>13. ASSUME Sane(P, t)
       PROVE  Sane(Q, f) /\ \A a : In(Q, f.old, a) <=> In(P, f.old, a)
  <2>1. ~In(P, f.old, z)
    BY <1>4, <1>13 DEF Sane
  <2>2. In(Q, z, z)
    BY <1>4, <1>5, InFacts
  <2>3. ~In(Q, f.old, z)
    BY <1>5, <2>1
  <2>4. f.inst = z /\ f.pc # "adding" /\ DOMAIN f.walk = {}
    BY DEF z
  <2> QED
    BY <1>4, <1>5, <2>1, <2>2, <2>3, <2>4 DEF Sane
<1>14. SaneIn(Q, D, r)
  <2> SUFFICES ASSUME NEW i \in 1..n, Walks(r[i])
               PROVE  Zone(Q, r[i]) \subseteq D \/ Sane(Q, r[i])
    BY <1>2 DEF SaneIn
  <2>1. CASE i = n
    <3>1. Zone(P, t) \subseteq D \/ Sane(P, t)
      BY <1>2, <1>6 DEF TalkIn, SaneIn
    <3>2. Zone(Q, f) \subseteq Zone(P, t)
      BY <1>4, <1>5 DEF Zone
    <3> QED
      BY <1>2, <1>13, <2>1, <3>1, <3>2
  <2>2. CASE i # n
    <3>1. r[i] = s[i]
      BY <1>2, <2>2
    <3>2. CASE Zone(P, s[i]) \subseteq D
      BY <1>7, <3>1, <3>2
    <3>3. CASE Sane(P, s[i]) /\ ~Meets(P, s[i], z)
      <4> DEFINE g == s[i]
      <4>1. g.inst # z /\ g.inst \in Instance /\ g.inst \in Concerned(g) /\ In(P, z, z)
        BY <1>3, <1>4, <2>2, <3>1, <3>3, WalksFacts, InFacts DEF Meets
      <4>2. Q[g.inst] = P[g.inst]
        BY <1>5, <4>1
      <4> HIDE DEF g
      <4>3. Sane(P, g) /\ ~Meets(P, g, z)
        BY <3>3 DEF g
      <4>4. Sane(Q, g)
        <5>1. \A c \in Concerned(g) : In(Q, c, g.inst)
          BY <1>10, <4>3 DEF Sane
        <5>2. ~In(Q, g.old, g.inst)
          BY <1>10, <4>3 DEF Sane
        <5>3. \A a : In(P, Base(g), a) => In(Q, Base(g), a)
          BY <1>10, <4>3 DEF Base
        <5> QED
          BY <4>2, <4>3, <5>1, <5>2, <5>3 DEF Sane
      <4> QED
        BY <3>1, <4>4 DEF g
    <3> QED
      BY <1>9, <2>2, <3>1, <3>2, <3>3
  <2> QED
    BY <2>1, <2>2
<1>15. TrueIn(Q, T, D, r)
  <2> SUFFICES ASSUME NEW x \in Movable \ D
               PROVE  /\ (\A i \in 1..n : ~Covers(Q, r[i], x)) => (x \in T <=> In(Q, x, Root))
                      /\ \A i \in 1..n : Covers(Q, r[i], x) => ToldBy(Q, T, r[i], x)
    BY <1>2 DEF TrueIn
  <2>1. (\A i \in 1..n : ~Covers(P, s[i], x)) => (x \in T <=> In(P, x, Root))
    BY <1>2 DEF TalkIn, TrueIn
  <2>2. \A i \in 1..n : Covers(P, s[i], x) => ToldBy(P, T, s[i], x)
    BY <1>2 DEF TalkIn, TrueIn
  <2>3. ASSUME \A i \in 1..n : ~Covers(Q, r[i], x) PROVE x \in T <=> In(Q, x, Root)
    <3>1. ~In(P, x, z)
      <4> SUFFICES ASSUME In(P, x, z) PROVE FALSE
        OBVIOUS
      <4>1. In(Q, x, z)
        BY <1>4, <1>5, InFacts
      <4>2. x \in Zone(Q, f)
        BY <1>4, <4>1 DEF Zone
      <4> QED
        BY <1>1, <1>2, <2>3, <4>2 DEF Covers
    <3>2. \A a : In(Q, x, a) <=> In(P, x, a)
      BY <1>5, <3>1
    <3>3. \A i \in 1..n : ~Covers(P, s[i], x)
      <4> SUFFICES ASSUME NEW i \in 1..n, Covers(P, s[i], x) PROVE FALSE
        OBVIOUS
      <4>1. CASE i = n
        BY <1>2, <1>4, <3>1, <4>1 DEF Covers, Zone
      <4>2. CASE i # n
        BY <1>2, <2>3, <3>2, <4>2 DEF Covers, Zone
      <4> QED
        BY <4>1, <4>2
    <3> QED
      BY <2>1, <3>2, <3>3
  <2>4. ASSUME NEW i \in 1..n, Covers(Q, r[i], x) PROVE ToldBy(Q, T, r[i], x)
    <3>1. CASE i = n
      <4>1. Covers(P, t, x)
        BY <1>2, <1>4, <1>6, <1>7, <2>4, <3>1 DEF Covers, Zone
      <4>2. ToldBy(P, T, t, x) /\ Sane(P, t)
        BY <1>2, <2>2, <4>1 DEF Covers, TalkIn, SaneIn
      <4>3. /\ In(Q, f.old, Root) <=> In(P, t.old, Root)
            /\ Bound(Q, f) <=> Bound(P, t)
        <5>1. In(P, z, z) /\ f.inst = z
          BY <1>4, InFacts DEF z
        <5>2. In(Q, f.new, z) <=> In(P, f.new, z)
          BY <1>5, <5>1
        <5>3. ~In(P, f.new, z) => (In(Q, f.new, Root) <=> In(P, f.new, Root))
          BY <1>5
        <5> QED
          BY <1>1, <1>4, <1>6, <1>13, <4>2, <5>1, <5>2, <5>3 DEF Bound
      <4>4. ~Due(P, t, x)
        BY <1>6 DEF Due
      <4> QED
        BY <1>1, <1>2, <1>6, <3>1, <4>2, <4>3, <4>4 DEF ToldBy
    <3>2. CASE i # n
      <4> DEFINE g == s[i]
      <4>1. r[i] = g /\ Covers(P, g, x)
        BY <1>2, <1>7, <2>4, <3>2 DEF Covers
      <4>2. Sane(P, g) /\ ~Meets(P, g, z) /\ ToldBy(P, T, g, x)
        BY <1>9, <2>2, <3>2, <4>1 DEF Covers
      <4> HIDE DEF g
      <4>3. /\ In(Q, g.old, Root) <=> In(P, g.old, Root)
            /\ Bound(Q, g) <=> Bound(P, g)
        BY <1>10, <4>2 DEF Bound
      <4>4. Due(P, g, x) => Due(Q, g, x)
        <5> SUFFICES ASSUME NEW k \in DOMAIN g.walk, DueAt(P, g.walk[k], x)
                     PROVE  DueAt(Q, g.walk[k], x)
          BY DEF Due
        <5> DEFINE v == g.walk[k]
        <5>1. In(Q, x, v.who)
          BY <1>10, <4>1, <4>2 DEF DueAt, Covers
        <5>2. v.at = None \/ In(P, Base(g), v.at)
          BY <4>2 DEF Sane
        <5>3. In(P, v.at, Root) => In(Q, v.at, Root)
          <6>1. ~In(P, None, Root)
            BY InFacts, TreeAssumption
          <6> HIDE DEF v
          <6> QED
            BY <1>10, <4>2, <5>2, <6>1
        <5> QED
          BY <5>1, <5>3 DEF DueAt
      <4>5. ToldBy(Q, T, g, x)
        BY <4>2, <4>3, <4>4 DEF ToldBy
      <4> QED
        BY <4>1, <4>5
    <3> QED
      BY <3>1, <3>2
  <2> QED
    BY <2>3, <2>4
<1> QED
  BY <1>11, <1>12, <1>14, <1>15 DEF TalkIn, r

\* The innermost call puts its instance below the new parent, or nowhere.
LEMMA TalkLink ==
  ASSUME NEW P \in Parents, P[Root] = None,
         NEW T, NEW D, NEW s \in Seq(Frame), s # <<>>, TalkIn(P, T, D, s), Takes(Last(s)),
         Last(s).walk = <<>>, P[Last(s).inst] = None, ~In(P, Last(s).new, Last(s).inst),
         NEW Q, Q = [P EXCEPT ![Last(s).inst] = Last(s).new],
         NEW f \in MoveOK, f.inst = Last(s).inst, f.old = Last(s).old, f.new = Last(s).new,
         \/ f.new = None /\ f.pc = "changed"
         \/ /\ f.new # None /\ f.pc = "adding"
            /\ \/ f.walk = <<>> /\ In(P, f.old, f.new)
               \/ f.walk = Visits(<<f.inst>>, f.new)
  PROVE  TalkIn(Q, T, D, Append(Front(s), f))
<1> DEFINE n == Len(s)
           r == Append(Front(s), f)
           t == Last(s)
           z == f.inst
           q == f.new
<1>1. f \in Frame /\ IsMove(f) /\ ~Takes(f) /\ (Walks(f) <=> f.pc = "adding")
  BY DEF Frame, MoveOK, IsMove, Walks, Takes
<1>2. /\ DOMAIN r = DOMAIN s /\ DOMAIN s = 1..n /\ n \in 1..n /\ s[n] = t /\ n \in Nat
      /\ r[n] = f /\ \A i \in 1..n : i # n => r[i] = s[i] /\ i < n
  <2>1. DOMAIN r = DOMAIN s /\ \A i \in DOMAIN s : r[i] = IF i = n THEN f ELSE s[i]
    BY <1>1, ReplaceFacts
  <2>2. n \in Nat \ {0} /\ DOMAIN s = 1..n /\ s[n] = t
    BY FrontFacts DEF Last
  <2> HIDE DEF r, t, n
  <2>3. \A i \in 1..n : i # n => i < n
    BY <2>2
  <2> QED
    BY <2>1, <2>2, <2>3
<1> HIDE DEF n, r
<1>3. \A i \in 1..n : s[i] \in Frame
  BY <1>2
<1>4. /\ t \in Frame /\ IsMove(t) /\ Walks(t) /\ Takes(t) /\ t.walk = <<>>
      /\ t.inst = z /\ t.old = f.old /\ t.new = q /\ f.new = q /\ f.inst = z
      /\ Bears(t) = {z} /\ Bears(f) = {z} /\ z \in Movable /\ z \in Instance /\ q \in Place
      /\ Concerned(t) = {z} /\ P[z] = None /\ ~In(P, q, z)
  BY <1>1, <1>2, <1>3, WalksFacts DEF Concerned
<1>5. /\ Q \in Parents /\ Q[z] = q /\ \A y \in Instance : y # z => Q[y] = P[y]
      /\ \A x, a : In(Q, x, a) <=> In(P, x, a) \/ (In(P, x, z) /\ In(P, q, a))
  <2>1. Q = [P EXCEPT ![z] = q]
    BY <1>4
  <2> HIDE DEF z, q
  <2>2. Q \in Parents /\ \A x, a : In(Q, x, a) <=> In(P, x, a) \/ (In(P, x, z) /\ In(P, q, a))
    BY <1>4, <2>1, InLink
  <2> QED
    BY <1>4, <2>1, <2>2 DEF Parents
<1>6. /\ Concerned(f) = {z} \/ f.pc = "changed"
      /\ q # None => \A k \in DOMAIN f.walk : f.walk[k].at = q
      /\ q # None => In(P, f.old, q) \/
           \E k \in DOMAIN f.walk : f.walk[k].who = z /\ f.walk[k].at = q /\ f.walk[k].step = "due"
      /\ q # None <=> f.pc = "adding"
  <2>1. CASE f.pc = "adding" /\ f.walk = Visits(<<z>>, q)
    <3>1. /\ DOMAIN f.walk = {1} /\ f.walk[1].who = z /\ f.walk[1].at = q
          /\ f.walk[1].step = "due"
      <4>1. DOMAIN <<z>> = {1} /\ <<z>>[1] = z
        OBVIOUS
      <4> QED
        BY <2>1, <4>1 DEF Visits
    <3> QED
      BY <2>1, <3>1 DEF Concerned
  <2>2. CASE ~(f.pc = "adding" /\ f.walk = Visits(<<z>>, q))
    BY <2>2 DEF Concerned
  <2> QED
    BY <2>1, <2>2
<1> HIDE DEF t, z, q
<1>7. \A x, a : In(P, x, a) => In(Q, x, a)
  BY <1>5

\* What the calls further out cover, and who is in their way.
<1>8. ASSUME NEW i \in 1..n, i # n, Walks(s[i])
      PROVE  /\ Meets(P, s[i], z) => Zone(P, s[i]) \subseteq D
             /\ Enters(P, s[i], q) => Zone(P, s[i]) \subseteq D /\ Zone(P, t) \subseteq D
             /\ Zone(P, s[i]) \subseteq D => Zone(Q, s[i]) \subseteq D
             /\ Zone(P, s[i]) \subseteq D \/ Sane(P, s[i])
  <2>1. Meets(P, s[i], z) => Zone(P, s[i]) \subseteq D
    BY <1>2, <1>4, <1>8 DEF TalkIn, ApartIn
  <2>2. Enters(P, s[i], q) => Zone(P, s[i]) \subseteq D /\ Zone(P, t) \subseteq D
    BY <1>2, <1>4, <1>8 DEF TalkIn, ApartIn
  <2>3. ASSUME Zone(P, s[i]) \subseteq D, NEW y \in Zone(Q, s[i]) PROVE y \in D
    <3>1. PICK c \in Concerned(s[i]) : In(Q, y, c) /\ y \in Movable
      BY <2>3 DEF Zone
    <3>2. CASE In(P, y, c)
      BY <2>3, <3>1, <3>2 DEF Zone
    <3>3. CASE In(P, y, z) /\ In(P, q, c)
      <4>1. y \in Zone(P, t)
        BY <1>4, <3>1, <3>3 DEF Zone
      <4> QED
        BY <2>2, <3>1, <3>3, <4>1 DEF Enters
    <3> QED
      BY <1>5, <3>1, <3>2, <3>3
  <2>4. Zone(P, s[i]) \subseteq D \/ Sane(P, s[i])
    BY <1>2, <1>8 DEF TalkIn, SaneIn
  <2> QED
    BY <2>1, <2>2, <2>3, <2>4
<1>9. \A g, w : Meets(Q, g, w) => Meets(P, g, w) \/ Meets(P, g, z) \/ Enters(P, g, q)
  BY <1>5 DEF Meets, Enters
<1>10. \A g, p : Enters(Q, g, p) => Enters(P, g, p) \/ (In(P, p, z) /\ Enters(P, g, q))
  BY <1>5 DEF Enters
<1>11. ASSUME NEW g, ~Meets(P, g, z), ~Enters(P, g, q)
       PROVE  /\ \A a : In(Q, g.old, a) <=> In(P, g.old, a)
              /\ \A a : In(Q, g.new, a) <=> In(P, g.new, a)
              /\ Zone(Q, g) \subseteq Zone(P, g)
  BY <1>5, <1>11 DEF Meets, Enters, Zone
<1>12. ApartIn(Q, D, r)
  <2> SUFFICES ASSUME NEW i \in 1..n, NEW j \in 1..n, i < j, Walks(r[i])
               PROVE  /\ \A w \in Bears(r[j]) : Meets(Q, r[i], w) => Zone(Q, r[i]) \subseteq D
                      /\ Takes(r[j]) /\ Enters(Q, r[i], r[j].new) =>
                           Zone(Q, r[i]) \subseteq D /\ Zone(Q, r[j]) \subseteq D
    BY <1>2 DEF ApartIn
  <2>1. i # n /\ r[i] = s[i] /\ Walks(s[i])
    BY <1>2
  <2>2. /\ \A w \in Bears(s[j]) : Meets(P, s[i], w) => Zone(P, s[i]) \subseteq D
        /\ Takes(s[j]) /\ Enters(P, s[i], s[j].new) =>
             Zone(P, s[i]) \subseteq D /\ Zone(P, s[j]) \subseteq D
    BY <1>2, <2>1 DEF TalkIn, ApartIn
  <2>3. Bears(r[j]) = Bears(s[j])
    BY <1>2, <1>4
  <2>4. ASSUME NEW w \in Bears(r[j]), Meets(Q, r[i], w) PROVE Zone(Q, r[i]) \subseteq D
    BY <1>8, <1>9, <2>1, <2>2, <2>3, <2>4
  <2>5. ASSUME Takes(r[j]), Enters(Q, r[i], r[j].new)
        PROVE  Zone(Q, r[i]) \subseteq D /\ Zone(Q, r[j]) \subseteq D
    <3>1. j # n /\ r[j] = s[j] /\ Takes(s[j]) /\ Walks(s[j])
      BY <1>1, <1>2, <1>3, <2>5, WalksFacts
    <3>2. CASE Enters(P, s[i], s[j].new)
      BY <1>8, <2>1, <2>2, <3>1, <3>2
    <3>3. CASE In(P, s[j].new, z) /\ Enters(P, s[i], q)
      <4>1. Meets(P, s[j], z)
        BY <3>3 DEF Meets
      <4> QED
        BY <1>8, <2>1, <3>1, <3>3, <4>1
    <3> QED
      BY <1>10, <2>1, <2>5, <3>1, <3>2, <3>3
  <2> QED
    BY <2>4, <2>5
<1>13. ShapedIn(r)
  BY <1>1, <1>2 DEF TalkIn, ShapedIn

\* The call itself.
<1>14. ASSUME q # None
       PROVE  Zone(Q, f) = Zone(P, t) /\ Concerned(f) = {z} /\ f.pc = "adding"
  <2>1. \A y : In(Q, y, z) <=> In(P, y, z)
    BY <1>5
  <2> QED
    BY <1>4, <1>6, <1>14, <2>1 DEF Zone
<1>15. ASSUME Sane(P, t)
       PROVE  /\ \A a : In(Q, f.old, a) <=> In(P, f.old, a)
              /\ \A a : In(Q, q, a) <=> In(P, q, a)
              /\ q # None => Sane(Q, f)
  <2>1. ~In(P, f.old, z) /\ \A a : In(Q, f.old, a) <=> In(P, f.old, a)
    <3>1. ~In(P, t.old, t.inst)
      BY <1>15 DEF Sane
    <3>2. ~In(P, f.old, z)
      BY <1>4, <3>1
    <3> QED
      BY <1>5, <3>2
  <2>2. \A a : In(Q, q, a) <=> In(P, q, a)
    BY <1>4, <1>5
  <2>3. ASSUME q # None PROVE Sane(Q, f)
    <3>1. q \in Instance /\ In(Q, q, q) /\ In(Q, z, z)
      BY <1>4, <1>5, <2>3, InFacts DEF Place
    <3>2. ~In(Q, f.old, z)
      BY <2>1
    <3>3. Base(f) = q /\ \A k \in DOMAIN f.walk : f.walk[k].at = q
      BY <1>4, <1>6, <1>14, <2>3 DEF Base
    <3>4. f.inst = z /\ f.new = q /\ Concerned(f) = {z} /\ Q[z] = q
      BY <1>4, <1>5, <1>14, <2>3
    <3> QED
      BY <3>1, <3>2, <3>3, <3>4 DEF Sane
  <2> QED
    BY <2>1, <2>2, <2>3
<1>16. SaneIn(Q, D, r)
  <2> SUFFICES ASSUME NEW i \in 1..n, Walks(r[i])
               PROVE  Zone(Q, r[i]) \subseteq D \/ Sane(Q, r[i])
    BY <1>2 DEF SaneIn
  <2>1. CASE i = n
    <3>1. q # None
      BY <1>1, <1>2, <1>6, <2>1
    <3>2. Zone(P, t) \subseteq D \/ Sane(P, t)
      BY <1>2, <1>4 DEF TalkIn, SaneIn
    <3> QED
      BY <1>2, <1>14, <1>15, <2>1, <3>1, <3>2
  <2>2. CASE i # n
    <3>1. r[i] = s[i] /\ Walks(s[i])
      BY <1>2, <2>2
    <3>2. CASE Zone(P, s[i]) \subseteq D
      BY <1>8, <2>2, <3>1, <3>2
    <3>3. CASE Sane(P, s[i]) /\ ~Meets(P, s[i], z) /\ ~Enters(P, s[i], q)
      <4> DEFINE g == s[i]
      <4>1. g.inst # z /\ g.inst \in Instance /\ In(P, z, z)
        BY <1>3, <1>4, <2>2, <3>1, <3>3, WalksFacts, InFacts DEF Meets
      <4>2. Q[g.inst] = P[g.inst]
        BY <1>5, <4>1
      <4> HIDE DEF g
      <4>3. Sane(P, g) /\ ~In(Q, g.old, g.inst)
        BY <1>11, <3>3 DEF g, Sane
      <4>4. Sane(Q, g)
        BY <1>7, <4>2, <4>3 DEF Sane
      <4> QED
        BY <3>1, <4>4 DEF g
    <3> QED
      BY <1>8, <2>2, <3>1, <3>2, <3>3
  <2> QED
    BY <2>1, <2>2
<1>17. TrueIn(Q, T, D, r)
  <2> SUFFICES ASSUME NEW x \in Movable \ D
               PROVE  /\ (\A i \in 1..n : ~Covers(Q, r[i], x)) => (x \in T <=> In(Q, x, Root))
                      /\ \A i \in 1..n : Covers(Q, r[i], x) => ToldBy(Q, T, r[i], x)
    BY <1>2 DEF TrueIn
  <2>1. (\A i \in 1..n : ~Covers(P, s[i], x)) => (x \in T <=> In(P, x, Root))
    BY <1>2 DEF TalkIn, TrueIn
  <2>2. \A i \in 1..n : Covers(P, s[i], x) => ToldBy(P, T, s[i], x)
    BY <1>2 DEF TalkIn, TrueIn
  <2>3. ~Due(P, t, x)
    BY <1>4 DEF Due
  <2>4. ASSUME In(P, x, z) PROVE ToldBy(P, T, t, x) /\ Sane(P, t)
    <3>1. Covers(P, t, x)
      BY <1>4, <2>4 DEF Covers, Zone
    <3>2. Zone(P, t) \subseteq D \/ Sane(P, t)
      BY <1>2, <1>4 DEF TalkIn, SaneIn
    <3> QED
      BY <1>2, <2>2, <3>1, <3>2 DEF Covers
  <2>5. ASSUME \A i \in 1..n : ~Covers(Q, r[i], x) PROVE x \in T <=> In(Q, x, Root)
    <3>1. CASE In(P, x, z)
      <4>1. q = None
        <5> SUFFICES ASSUME q # None PROVE FALSE
          OBVIOUS
        <5>1. x \in Zone(Q, f)
          BY <1>4, <1>14, <3>1 DEF Zone
        <5> QED
          BY <1>1, <1>2, <1>14, <2>5, <5>1 DEF Covers
      <4>2. ~In(P, q, Root)
        BY <4>1, InFacts, TreeAssumption
      <4>3. x \notin T
        BY <1>4, <2>3, <2>4, <3>1, <4>2 DEF ToldBy, Bound
      <4>4. ~In(P, x, Root)
        BY <1>4, <3>1, UnderRoot
      <4> QED
        BY <1>5, <4>2, <4>3, <4>4
    <3>2. CASE ~In(P, x, z)
      <4>1. In(Q, x, Root) <=> In(P, x, Root)
        BY <1>5, <3>2
      <4>2. ASSUME NEW i \in 1..n, Covers(P, s[i], x) PROVE FALSE
        <5>1. i # n
          BY <1>2, <1>4, <3>2, <4>2 DEF Covers, Zone
        <5> QED
          BY <1>2, <1>7, <2>5, <4>2, <5>1 DEF Covers, Zone
      <4> QED
        BY <2>1, <4>1, <4>2
    <3> QED
      BY <3>1, <3>2
  <2>6. ASSUME NEW i \in 1..n, Covers(Q, r[i], x) PROVE ToldBy(Q, T, r[i], x)
    <3>1. CASE i = n
      <4>1. q # None /\ x \in Zone(Q, f)
        BY <1>1, <1>2, <1>6, <2>6, <3>1 DEF Covers
      <4>2. In(P, x, z) /\ In(Q, x, z)
        BY <1>4, <1>7, <1>14, <4>1 DEF Zone
      <4>3. ToldBy(P, T, t, x) /\ Sane(P, t)
        BY <2>4, <4>2
      <4>4. /\ In(Q, f.old, Root) <=> In(P, f.old, Root)
            /\ In(Q, q, Root) <=> In(P, q, Root)
        BY <1>15, <4>3
      <4>5. ASSUME ~In(P, f.old, Root), In(P, q, Root) PROVE Due(Q, f, x)
        <5>1. ~In(P, f.old, q)
          BY <4>5, InFacts
        <5>2. PICK k \in DOMAIN f.walk : f.walk[k].who = z /\ f.walk[k].at = q /\ f.walk[k].step = "due"
          BY <1>6, <4>1, <5>1
        <5>3. DueAt(Q, f.walk[k], x)
          BY <4>2, <4>4, <4>5, <5>2 DEF DueAt
        <5> QED
          BY <5>3 DEF Due
      <4>6. ToldBy(Q, T, f, x)
        BY <1>1, <1>4, <2>3, <4>3, <4>4, <4>5 DEF ToldBy, Bound
      <4> QED
        BY <1>2, <3>1, <4>6
    <3>2. CASE i # n
      <4> DEFINE g == s[i]
      <4>1. r[i] = g /\ Walks(g) /\ x \in Zone(Q, g)
        BY <1>2, <2>6, <3>2 DEF Covers
      <4>2. ~(Zone(P, g) \subseteq D)
        BY <1>8, <3>2, <4>1
      <4>3. Sane(P, g) /\ ~Meets(P, g, z) /\ ~Enters(P, g, q)
        BY <1>8, <3>2, <4>1, <4>2
      <4>4. Covers(P, g, x)
        BY <1>11, <4>1, <4>3 DEF Covers
      <4>5. ToldBy(P, T, g, x)
        BY <2>2, <4>4
      <4> HIDE DEF g
      <4>6. /\ In(Q, g.old, Root) <=> In(P, g.old, Root)
            /\ Bound(Q, g) <=> Bound(P, g)
        BY <1>11, <4>3 DEF Bound
      <4>7. Due(P, g, x) => Due(Q, g, x)
        BY <1>7 DEF Due, DueAt
      <4>8. ToldBy(Q, T, g, x)
        BY <4>5, <4>6, <4>7 DEF ToldBy
      <4> QED
        BY <4>1, <4>8
    <3> QED
      BY <3>1, <3>2
  <2> QED
    BY <2>5, <2>6
<1> QED
  BY <1>12, <1>13, <1>16, <1>17 DEF TalkIn, r

-----------------------------------------------------------------------------
\* The tree as the model has it.
LEMMA TreeFacts ==
  ASSUME Whole
  PROVE  /\ parent \in Parents /\ parent[Root] = None /\ stack \in Seq(Frame)
         /\ \E h : Climbs(parent, h)
         /\ stack # <<>> => Top = Last(stack)
BY Exact DEF Whole, Ranked, IInv, Typed, Top

\* The first visit of a walk changes to another of the same instance.
LEMMA TalkVisit ==
  ASSUME NEW P \in Parents, NEW T, NEW U, NEW D, NEW s \in Seq(Frame), s # <<>>, TalkIn(P, T, D, s),
         NEW t \in MoveOK, t = Last(s), Walks(t), t.walk # <<>>,
         NEW v \in VisitOK, NEW x, x = t.walk[1].who, v.who = x,
         NEW f, f = [t EXCEPT !.walk = [t.walk EXCEPT ![1] = v]],
         Sane(P, t) => v.at = None \/ In(P, Base(t), v.at),
         \/ U = T /\ (Sane(P, t) /\ DueAt(P, t.walk[1], x) => DueAt(P, v, x))
         \/ Takes(t) /\ U = T \ {x} /\ (Sane(P, t) => ~Bound(P, t))
         \/ ~Takes(t) /\ U = T \cup {x} /\ (Sane(P, t) => In(P, t.new, Root))
  PROVE  TalkIn(P, U, D, Append(Front(s), f))
<1> DEFINE w == t.walk
           u == [w EXCEPT ![1] = v]
<1>1. w \in Seq(VisitOK) /\ w # <<>>
  BY DEF MoveOK
<1>2. /\ u \in Seq(VisitOK) /\ DOMAIN u = DOMAIN w /\ 1 \in DOMAIN w /\ u[1] = v
      /\ \A k \in DOMAIN w : k # 1 => u[k] = w[k]
  BY <1>1, FirstVisit
<1>3. x = w[1].who
  OBVIOUS
<1>4. f = [t EXCEPT !.walk = u]
  OBVIOUS
<1> HIDE DEF u
<1>5. /\ f \in MoveOK /\ f.inst = t.inst /\ f.old = t.old /\ f.new = t.new /\ f.pc = t.pc
      /\ f.walk = u
  BY <1>2, <1>4 DEF MoveOK
<1>6. IsMove(f) /\ IsMove(t) /\ (Takes(f) <=> Takes(t)) /\ Walks(f) /\ t \in Frame
  BY <1>5 DEF IsMove, Takes, Walks, MoveOK, Frame
<1>7. \A k \in DOMAIN w : u[k].who = w[k].who
  BY <1>2, <1>3
<1>8. Concerned(f) = Concerned(t) /\ Zone(P, f) = Zone(P, t) /\ Base(f) = Base(t)
  <2>1. Concerned(f) = Concerned(t)
    BY <1>2, <1>5, <1>7 DEF Concerned
  <2> QED
    BY <1>5, <2>1 DEF Zone, Base
<1>9. x \in Concerned(t) /\ x \in Instance /\ x \in Movable /\ x \in Zone(P, t)
  <2>1. x \in Concerned(t)
    BY <1>2, <1>3 DEF Concerned
  <2>2. x \in Movable /\ x \in Instance
    BY <1>6, <2>1, WalksFacts
  <2> QED
    BY <2>1, <2>2, InFacts DEF Zone
<1>10. Takes(f) => (f.pc = "removed" \/ f.old = None => f.walk = <<>>)
  <2>1. PICK n \in DOMAIN s : s[n] = t
    BY FrontFacts DEF Last
  <2> QED
    BY <1>5, <1>6, <2>1 DEF TalkIn, ShapedIn
<1>11. ASSUME Sane(P, t) PROVE Sane(P, f)
  <2>1. \A k \in DOMAIN w : w[k].at = None \/ In(P, Base(t), w[k].at)
    BY <1>11 DEF Sane
  <2>2. v.at = None \/ In(P, Base(t), v.at)
    BY <1>11
  <2>3. \A k \in DOMAIN f.walk : f.walk[k].at = None \/ In(P, Base(f), f.walk[k].at)
    BY <1>2, <1>5, <1>8, <2>1, <2>2
  <2> QED
    BY <1>5, <1>8, <1>11, <2>3 DEF Sane
<1>12. (\A y : y # x => (y \in U <=> y \in T)) /\ (Bound(P, f) <=> Bound(P, t))
  BY <1>5, <1>6 DEF Bound
<1>13. ASSUME NEW y \in Movable \ D, Covers(P, t, y), Sane(P, t), ToldBy(P, T, t, y)
       PROVE  ToldBy(P, U, f, y)
  <2>1. CASE y # x
    <3>1. \A k \in DOMAIN w : DueAt(P, u[k], y) <=> DueAt(P, w[k], y)
      <4> SUFFICES ASSUME NEW k \in DOMAIN w PROVE DueAt(P, u[k], y) <=> DueAt(P, w[k], y)
        OBVIOUS
      <4>1. CASE k = 1
        BY <1>2, <1>3, <2>1, <4>1 DEF DueAt
      <4>2. CASE k # 1
        BY <1>2, <4>2
      <4> QED
        BY <4>1, <4>2
    <3>2. Due(P, f, y) <=> Due(P, t, y)
      BY <1>2, <1>5, <3>1 DEF Due
    <3> QED
      BY <1>5, <1>6, <1>12, <1>13, <2>1, <3>2 DEF ToldBy
  <2>2. CASE y = x
    <3>1. CASE U = T /\ (DueAt(P, t.walk[1], x) => DueAt(P, v, x))
      <4>1. Due(P, t, y) => Due(P, f, y)
        <5> SUFFICES ASSUME NEW k \in DOMAIN w, DueAt(P, w[k], y) PROVE Due(P, f, y)
          BY DEF Due
        <5>1. DueAt(P, u[k], y)
          BY <1>2, <2>2, <3>1
        <5> QED
          BY <1>2, <1>5, <5>1 DEF Due
      <4> QED
        BY <1>5, <1>6, <1>12, <1>13, <3>1, <4>1 DEF ToldBy
    <3>2. CASE Takes(t) /\ U = T \ {x} /\ ~Bound(P, t)
      BY <1>5, <1>6, <1>12, <2>2, <3>2 DEF ToldBy
    <3>3. CASE ~Takes(t) /\ U = T \cup {x} /\ In(P, t.new, Root)
      BY <1>5, <1>6, <1>12, <2>2, <3>3 DEF ToldBy, Bound
    <3> QED
      BY <1>13, <3>1, <3>2, <3>3
  <2> QED
    BY <2>1, <2>2
<1>14. \A y \in Movable \ D : ~Covers(P, t, y) => (y \in U <=> y \in T)
  BY <1>9, <1>12 DEF Covers
<1>15. /\ Takes(f) => Takes(Last(s))
       /\ Walks(f) => Walks(Last(s))
       /\ Zone(P, f) \subseteq Zone(P, Last(s))
       /\ Walks(f) /\ Sane(P, Last(s)) => Sane(P, f)
       /\ IsMove(Last(s)) /\ f.inst = Last(s).inst /\ f.new = Last(s).new
  BY <1>5, <1>6, <1>8, <1>11
<1>16. /\ \A y \in Movable \ D : ~Covers(P, Last(s), y) => (y \in U <=> y \in T)
       /\ \A y \in Movable \ D : Covers(P, Last(s), y) /\ Sane(P, Last(s)) /\ ToldBy(P, T, Last(s), y) =>
            IF Walks(f) THEN ToldBy(P, U, f, y) ELSE y \in U <=> In(P, y, Root)
  BY <1>6, <1>13, <1>14
<1> QED
  BY <1>5, <1>10, <1>15, <1>16, TalkOn

\* The visits u are those of the walk w, with its first replaced by visits of c.
Descends(u, c, at, w) ==
  /\ u \in Seq(VisitOK)
  /\ \A k \in DOMAIN u : \/ u[k].who \in ToSet(c) /\ u[k].at = at
                         \/ \E m \in DOMAIN w : u[k] = w[m]
  /\ \A y \in ToSet(c) : \E k \in DOMAIN u : u[k].who = y /\ u[k].at = at /\ u[k].step = "due"
  /\ \A m \in DOMAIN w : m # 1 => \E k \in DOMAIN u : u[k] = w[m]

\* The visits of children come before the rest.
LEMMA DescendFacts ==
  ASSUME NEW c \in Seq(Movable), NEW at \in Place, NEW w \in Seq(VisitOK), w # <<>>,
         NEW u, u = Visits(c, at) \o Tail(w)
  PROVE  Descends(u, c, at, w)
<1> DEFINE a == Visits(c, at)
           b == Tail(w)
           n == Len(c)
           l == Len(w)
<1>1. a \in Seq(VisitOK) /\ DOMAIN a = DOMAIN c /\ DOMAIN c = 1..n /\ n \in Nat
  BY VisitsType DEF Visits
<1>2. \A i \in 1..n : a[i].who = c[i] /\ a[i].at = at /\ a[i].step = "due"
  BY <1>1 DEF Visits
<1>3. /\ b \in Seq(VisitOK) /\ l \in Nat \ {0} /\ DOMAIN w = 1..l /\ Len(b) = l - 1
      /\ \A i \in 1..(l - 1) : b[i] = w[i + 1]
  OBVIOUS
<1> HIDE DEF a
<1>4. Len(a) = n
  BY <1>1
<1> HIDE DEF b, n, l
<1>5. /\ u = a \o b /\ Len(u) = n + (l - 1) /\ u \in Seq(VisitOK)
      /\ \A i \in 1..n : u[i] = a[i]
      /\ \A i \in 1..(l - 1) : u[n + i] = b[i]
  <2>1. u = a \o b
    BY DEF a, b
  <2> HIDE DEF a, b
  <2> QED
    <3>1. /\ u \in Seq(VisitOK) /\ Len(u) = Len(a) + Len(b)
          /\ \A i \in 1..Len(a) : u[i] = a[i]
          /\ \A i \in 1..Len(b) : u[Len(a) + i] = b[i]
      <4>1. a \in Seq(VisitOK) /\ b \in Seq(VisitOK)
        BY <1>1, <1>3
      <4>2. /\ a \o b \in Seq(VisitOK) /\ Len(a \o b) = Len(a) + Len(b)
            /\ \A i \in 1..Len(a) : (a \o b)[i] = a[i]
            /\ \A i \in 1..Len(b) : (a \o b)[Len(a) + i] = b[i]
        BY <4>1
      <4> QED
        BY <2>1, <4>2
    <3> QED
      BY <1>3, <1>4, <2>1, <3>1
<1>6. DOMAIN u = 1..(n + (l - 1))
  BY <1>5
<1>7. ASSUME NEW k \in DOMAIN u
      PROVE  \/ u[k].who \in ToSet(c) /\ u[k].at = at
             \/ \E m \in DOMAIN w : u[k] = w[m]
  <2>1. CASE k \in 1..n
    BY <1>1, <1>2, <1>5, <2>1 DEF ToSet
  <2>2. CASE k \notin 1..n
    <3>1. k - n \in 1..(l - 1) /\ k = n + (k - n) /\ k - n + 1 \in 1..l
      <4>1. n \in Nat /\ l \in Nat /\ l >= 1 /\ k \in 1..(n + (l - 1))
        BY <1>1, <1>3, <1>6
      <4> QED
        BY <2>2, <4>1
    <3> QED
      BY <1>3, <1>5, <3>1
  <2> QED
    BY <2>1, <2>2
<1>8. ASSUME NEW y \in ToSet(c)
      PROVE  \E k \in DOMAIN u : u[k].who = y /\ u[k].at = at /\ u[k].step = "due"
  <2>1. PICK i \in 1..n : c[i] = y
    BY <1>1 DEF ToSet
  <2>2. i \in DOMAIN u
    BY <1>1, <1>3, <1>6, <2>1
  <2> QED
    BY <1>2, <1>5, <2>1, <2>2
<1>9. ASSUME NEW m \in DOMAIN w, m # 1 PROVE \E k \in DOMAIN u : u[k] = w[m]
  <2>1. m - 1 \in 1..(l - 1) /\ m = (m - 1) + 1 /\ n + (m - 1) \in DOMAIN u
    BY <1>1, <1>3, <1>6, <1>9
  <2> QED
    BY <1>3, <1>5, <2>1
<1> QED
  BY <1>5, <1>7, <1>8, <1>9 DEF Descends

\* The walk goes on to the children of the instance it was at, when what is above both places
\* is reached.
LEMMA TalkDescend ==
  ASSUME NEW P \in Parents, NEW T, NEW D, NEW s \in Seq(Frame), s # <<>>, TalkIn(P, T, D, s),
         NEW t \in MoveOK, t = Last(s), t.pc \in {"removing", "adding"}, t.walk # <<>>,
         NEW x, x = t.walk[1].who, NEW at, at = t.walk[1].at,
         at = None \/ In(P, IF t.pc = "removing" THEN t.new ELSE t.old, at),
         NEW c \in Seq(Movable), \A y \in Instance : y \in ToSet(c) <=> P[y] = x,
         NEW f, f = [t EXCEPT !.walk = Visits(c, Base(t)) \o Tail(t.walk)]
  PROVE  TalkIn(P, T, D, Append(Front(s), f))
<1> DEFINE w == t.walk
           b == Base(t)
           u == Visits(c, b) \o Tail(w)
<1>1. w \in Seq(VisitOK) /\ w # <<>> /\ b \in Place
  BY DEF MoveOK, Base
<1>2. x = w[1].who /\ at = w[1].at /\ 1 \in DOMAIN w /\ f = [t EXCEPT !.walk = u]
  BY <1>1
<1>3. Descends(u, c, b, w)
  <2>1. u = Visits(c, b) \o Tail(w)
    OBVIOUS
  <2> HIDE DEF w, b, u
  <2> QED
    BY <1>1, <2>1, DescendFacts
<1> HIDE DEF u
<1>4. /\ f \in MoveOK /\ f.inst = t.inst /\ f.old = t.old /\ f.new = t.new /\ f.pc = t.pc
      /\ f.walk = u
  BY <1>2, <1>3 DEF MoveOK, Descends
<1>5. /\ IsMove(f) /\ IsMove(t) /\ Walks(f) /\ Walks(t) /\ (Takes(f) <=> Takes(t)) /\ t \in Frame
      /\ Base(f) = b /\ (Takes(t) <=> t.pc = "removing")
  BY <1>4 DEF IsMove, Takes, Walks, MoveOK, Frame, Base
<1>6. x \in Concerned(t) /\ x \in Instance
  <2>1. x \in Concerned(t)
    BY <1>2 DEF Concerned
  <2> QED
    BY <1>5, <2>1, WalksFacts
<1>7. \A y \in ToSet(c) : y \in Instance /\ P[y] = x /\ In(P, y, x)
  <2>1. \A y \in ToSet(c) : y \in Instance /\ P[y] = x
    BY DEF ToSet, Movable
  <2> QED
    BY <1>6, <2>1, InFacts, TreeAssumption
<1>8. \A e \in Concerned(f) : e \in Concerned(t) \/ (In(P, e, x) /\ e \in Instance)
  <2> SUFFICES ASSUME NEW k \in DOMAIN u
               PROVE  u[k].who \in Concerned(t) \/ (In(P, u[k].who, x) /\ u[k].who \in Instance)
    BY <1>4 DEF Concerned
  <2> QED
    BY <1>3, <1>7 DEF Concerned, Descends
<1>9. Zone(P, f) \subseteq Zone(P, t)
  <2> SUFFICES ASSUME NEW y \in Movable, NEW e \in Concerned(f), In(P, y, e)
               PROVE  \E g \in Concerned(t) : In(P, y, g)
    BY DEF Zone
  <2>1. CASE e \in Concerned(t)
    BY <2>1
  <2>2. CASE In(P, e, x)
    <3>1. In(P, y, x)
      BY <2>2, InFacts
    <3> QED
      BY <1>6, <3>1
  <2> QED
    BY <1>8, <2>1, <2>2
<1>10. Takes(f) => (f.pc = "removed" \/ f.old = None => f.walk = <<>>)
  <2>1. PICK n \in DOMAIN s : s[n] = t
    BY FrontFacts DEF Last
  <2> QED
    BY <1>4, <1>5, <2>1 DEF TalkIn, ShapedIn
<1>11. ASSUME Sane(P, t) PROVE Sane(P, f)
  <2>1. \A e \in Concerned(f) : In(P, e, f.inst)
    <3>1. \A e \in Concerned(t) : In(P, e, t.inst)
      BY <1>11 DEF Sane
    <3>2. \A e : In(P, e, x) => In(P, e, t.inst)
      BY <1>6, <3>1, InFacts
    <3> QED
      BY <1>4, <1>8, <3>1, <3>2
  <2>2. b = None \/ In(P, b, b)
    BY <1>1, InFacts DEF Place
  <2> HIDE DEF b
  <2>3. \A k \in DOMAIN w : w[k].at = None \/ In(P, b, w[k].at)
    BY <1>11 DEF Sane, b
  <2>4. \A k \in DOMAIN u : u[k].at = None \/ In(P, b, u[k].at)
    BY <1>3, <2>2, <2>3 DEF Descends
  <2> QED
    BY <1>4, <1>5, <1>11, <2>1, <2>4 DEF Sane
<1>12. ASSUME NEW y, Due(P, t, y), In(P, b, Root),
              ~In(P, IF t.pc = "removing" THEN t.new ELSE t.old, Root)
       PROVE  Due(P, f, y)
  <2> DEFINE o == IF t.pc = "removing" THEN t.new ELSE t.old
  <2>1. (at = None \/ In(P, o, at)) /\ ~In(P, o, Root)
    BY <1>12
  <2> HIDE DEF o, b
  <2>2. ~In(P, at, Root)
    <3>1. ~In(P, None, Root)
      BY InFacts, TreeAssumption
    <3> QED
      BY <2>1, <3>1, InFacts
  <2>3. PICK m \in DOMAIN w : DueAt(P, w[m], y)
    BY <1>12 DEF Due
  <2>4. CASE m # 1
    <3>1. PICK k \in DOMAIN u : u[k] = w[m]
      BY <1>3, <2>4 DEF Descends
    <3>2. DueAt(P, u[k], y)
      BY <2>3, <3>1
    <3> QED
      BY <1>4, <3>2 DEF Due
  <2>5. CASE m = 1
    <3>1. In(P, y, x) /\ y # x
      BY <1>2, <2>2, <2>3, <2>5 DEF DueAt
    <3>2. PICK e \in Instance : P[e] = x /\ In(P, y, e)
      BY <3>1, InFacts
    <3>3. PICK k \in DOMAIN u : u[k].who = e /\ u[k].at = b /\ u[k].step = "due"
      BY <1>3, <3>2 DEF Descends
    <3>4. DueAt(P, u[k], y)
      BY <1>12, <3>2, <3>3 DEF DueAt
    <3> QED
      BY <1>4, <3>4 DEF Due
  <2> QED
    BY <2>4, <2>5
<1>13. ASSUME NEW y, ToldBy(P, T, t, y) PROVE ToldBy(P, T, f, y)
  <2>1. CASE Takes(t)
    <3>1. In(P, t.old, Root) /\ ~Bound(P, t) /\ Due(P, t, y) => Due(P, f, y)
      BY <1>5, <1>12, <2>1 DEF Base, Bound
    <3>2. Bound(P, f) <=> Bound(P, t)
      BY <1>4, <1>5 DEF Bound
    <3> QED
      BY <1>4, <1>5, <1>13, <2>1, <3>1, <3>2 DEF ToldBy
  <2>2. CASE ~Takes(t)
    <3>1. ~In(P, t.old, Root) /\ In(P, t.new, Root) /\ Due(P, t, y) => Due(P, f, y)
      BY <1>5, <1>12, <2>2 DEF Base
    <3> QED
      BY <1>4, <1>5, <1>13, <2>2, <3>1 DEF ToldBy, Bound
  <2> QED
    BY <2>1, <2>2
<1>14. /\ Takes(f) => Takes(Last(s))
       /\ Walks(f) => Walks(Last(s))
       /\ Zone(P, f) \subseteq Zone(P, Last(s))
       /\ Walks(f) /\ Sane(P, Last(s)) => Sane(P, f)
       /\ IsMove(Last(s)) /\ f.inst = Last(s).inst /\ f.new = Last(s).new
  BY <1>4, <1>5, <1>9, <1>11
<1>15. /\ \A y \in Movable \ D : ~Covers(P, Last(s), y) => (y \in T <=> y \in T)
       /\ \A y \in Movable \ D : Covers(P, Last(s), y) /\ Sane(P, Last(s)) /\ ToldBy(P, T, Last(s), y) =>
            IF Walks(f) THEN ToldBy(P, T, f, y) ELSE y \in T <=> In(P, y, Root)
  BY <1>5, <1>13
<1> QED
  BY <1>4, <1>10, <1>14, <1>15, TalkOn

\* The walk is over, and what it was to tell is told.
LEMMA TalkAdded ==
  ASSUME NEW P \in Parents, P[Root] = None, NEW T, NEW D, NEW s \in Seq(Frame), s # <<>>,
         TalkIn(P, T, D, s), NEW t \in MoveOK, t = Last(s), NEW f,
         \/ t.pc = "adding" /\ t.walk = <<>> /\ f = [t EXCEPT !.pc = "added"]
         \/ t.pc = "added" /\ f = [t EXCEPT !.pc = "changed"]
  PROVE  TalkIn(P, T, D, Append(Front(s), f))
<1>1. /\ f \in MoveOK /\ f.inst = t.inst /\ f.old = t.old /\ f.new = t.new /\ f.walk = t.walk
      /\ f.pc \in {"added", "changed"}
  BY DEF MoveOK
<1>2. /\ IsMove(f) /\ IsMove(t) /\ ~Walks(f) /\ ~Takes(f) /\ ~Takes(t) /\ t \in Frame
      /\ (Walks(t) <=> t.pc = "adding") /\ t.inst \in Movable
  BY <1>1 DEF IsMove, Takes, Walks, MoveOK, Frame
<1>3. Concerned(f) = Concerned(t) /\ Zone(P, f) = Zone(P, t)
  <2>1. Concerned(f) = Concerned(t)
    BY <1>1 DEF Concerned
  <2> QED
    BY <2>1 DEF Zone
<1>4. ASSUME NEW y \in Movable \ D, Covers(P, t, y), Sane(P, t), ToldBy(P, T, t, y)
      PROVE  y \in T <=> In(P, y, Root)
  <2>1. t.pc = "adding" /\ t.walk = <<>> /\ ~Due(P, t, y)
    BY <1>1, <1>2, <1>4 DEF Covers, Due
  <2>2. y \in T <=> In(P, t.new, Root)
    BY <1>2, <1>4, <2>1 DEF ToldBy, Bound
  <2>3. In(P, y, t.inst)
    BY <1>4, InFacts DEF Covers, Zone, Sane
  <2>4. P[t.inst] = t.new
    BY <1>4, <2>1 DEF Sane
  <2>5. In(P, y, Root) <=> P[t.inst] # None /\ In(P, P[t.inst], Root)
    BY <1>2, <2>3, UnderRoot
  <2>6. ~In(P, None, Root)
    BY InFacts, TreeAssumption
  <2> QED
    BY <2>2, <2>4, <2>5, <2>6
<1>5. /\ Takes(f) => Takes(Last(s))
      /\ Walks(f) => Walks(Last(s))
      /\ Takes(f) => (f.pc = "removed" \/ f.old = None => f.walk = <<>>)
      /\ Zone(P, f) \subseteq Zone(P, Last(s))
      /\ Walks(f) /\ Sane(P, Last(s)) => Sane(P, f)
      /\ IsMove(Last(s)) /\ f.inst = Last(s).inst /\ f.new = Last(s).new
  BY <1>1, <1>2, <1>3
<1>6. /\ \A y \in Movable \ D : ~Covers(P, Last(s), y) => (y \in T <=> y \in T)
      /\ \A y \in Movable \ D : Covers(P, Last(s), y) /\ Sane(P, Last(s)) /\ ToldBy(P, T, Last(s), y) =>
           IF Walks(f) THEN ToldBy(P, T, f, y) ELSE y \in T <=> In(P, y, Root)
  BY <1>2, <1>4
<1> QED
  BY <1>1, <1>5, <1>6, TalkOn

\* A signal, or what the root tells after it; or the way to the next ancestor.
LEMMA SignalTalk ==
  ASSUME Whole, Talk, Signal \/ Tell \/ Climb
  PROVE  Talk'
<1> DEFINE x == Current.who
           at == Current.at
<1>1. /\ Visiting /\ parent' = parent /\ disturbed' = disturbed
      /\ parent \in Parents /\ stack \in Seq(Frame) /\ stack # <<>> /\ Top = Last(stack)
      /\ Top \in MoveOK /\ Top.walk # <<>> /\ Current = Top.walk[1] /\ Current \in VisitOK
  BY TreeFacts, VisitingFacts DEF Signal, Tell, Climb, treeVars, Whole
<1>2. /\ Walks(Top) /\ (At("removing") => Takes(Top)) /\ (At("adding") => ~Takes(Top))
      /\ (Top.pc = "removing" <=> At("removing"))
  BY <1>1 DEF Visiting, At, Does, Walks, Takes, IsMove
<1>3. x \in Movable /\ (Current.step # "due" => at # None) /\ at \in Place
  BY <1>1 DEF VisitOK, Visit
<1>4. Sane(parent, Top) => at = None \/ In(parent, Base(Top), at)
  <2>1. 1 \in DOMAIN Top.walk
    BY <1>1 DEF MoveOK
  <2> QED
    BY <1>1, <2>1 DEF Sane
<1>5. ASSUME NEW v \in VisitOK, v.who = x,
             Continue([Top EXCEPT !.walk = [Top.walk EXCEPT ![1] = v]]),
             Sane(parent, Top) => v.at = None \/ In(parent, Base(Top), v.at),
             \/ told' = told /\ (Sane(parent, Top) /\ DueAt(parent, Current, x) => DueAt(parent, v, x))
             \/ Takes(Top) /\ told' = told \ {x} /\ (Sane(parent, Top) => ~Bound(parent, Top))
             \/ ~Takes(Top) /\ told' = told \cup {x} /\ (Sane(parent, Top) => In(parent, Top.new, Root))
      PROVE  Talk'
  <2> DEFINE t == Top
             f == [Top EXCEPT !.walk = [Top.walk EXCEPT ![1] = v]]
  <2>1. /\ t \in MoveOK /\ t = Last(stack) /\ Walks(t) /\ t.walk # <<>> /\ x = t.walk[1].who
        /\ f = [t EXCEPT !.walk = [t.walk EXCEPT ![1] = v]]
        /\ Sane(parent, t) => v.at = None \/ In(parent, Base(t), v.at)
        /\ \/ told' = told /\ (Sane(parent, t) /\ DueAt(parent, t.walk[1], x) => DueAt(parent, v, x))
           \/ Takes(t) /\ told' = told \ {x} /\ (Sane(parent, t) => ~Bound(parent, t))
           \/ ~Takes(t) /\ told' = told \cup {x} /\ (Sane(parent, t) => In(parent, t.new, Root))
    BY <1>1, <1>2, <1>5
  <2>2. stack' = Append(Front(stack), f) /\ TalkIn(parent, told, disturbed, stack)
    BY <1>5 DEF Continue, Under, Talk
  <2> HIDE DEF t, f, x
  <2>3. TalkIn(parent, told', disturbed, Append(Front(stack), f))
    BY <1>1, <1>5, <2>1, <2>2, TalkVisit
  <2> QED
    BY <1>1, <2>2, <2>3 DEF Talk
<1>6. ASSUME NEW new \in {"raised", "told"}, at # None
      PROVE  LET v == [Current EXCEPT !.step = new]
             IN  /\ v \in VisitOK /\ v.who = x /\ v.at = at /\ v.step = new
                 /\ [Top EXCEPT !.walk[1].step = new] = [Top EXCEPT !.walk = [Top.walk EXCEPT ![1] = v]]
  BY <1>1, <1>6 DEF VisitOK, Visit
<1>7. ASSUME Signal PROVE Talk'
  <2>1. ~Outside(at) /\ at # None
    BY <1>7 DEF Signal, Outside
  <2>2. CASE At("removing") /\ at = Root
    <3> DEFINE v == [Current EXCEPT !.step = "told"]
    <3>1. /\ v \in VisitOK /\ v.who = x /\ v.at = at
          /\ [Top EXCEPT !.walk[1].step = "told"] = [Top EXCEPT !.walk = [Top.walk EXCEPT ![1] = v]]
      BY <1>6, <2>1
    <3>2. Continue([Top EXCEPT !.walk[1].step = "told"]) /\ told' = told \ {x}
      BY <1>2, <1>7, <2>2 DEF Signal, Tells
    <3>3. Sane(parent, Top) => ~Bound(parent, Top)
      <4>1. ~In(parent, Top.new, Root)
        BY <1>2, <2>1, <2>2, InsideIn DEF Outside, Other
      <4>2. Top.inst \in Instance /\ Top.pc = "removing" /\ parent[Top.inst] = Top.old
        BY <1>1, <1>2, <2>2, TakenFacts DEF Whole
      <4>3. Sane(parent, Top) => In(parent, Top.old, Root)
        BY <1>4, <2>1, <2>2, <4>2 DEF Base
      <4>4. In(parent, Top.old, Root) => In(parent, Top.inst, Root)
        BY <1>1, <4>2, InFacts, TreeAssumption
      <4>5. In(parent, Top.new, Top.inst) /\ In(parent, Top.inst, Root) => In(parent, Top.new, Root)
        BY <1>1, InFacts
      <4> QED
        BY <4>1, <4>3, <4>4, <4>5 DEF Bound
    <3> HIDE DEF v, x
    <3> QED
      BY <1>2, <1>4, <1>5, <2>2, <3>1, <3>2, <3>3
  <2>3. CASE ~(At("removing") /\ at = Root)
    <3> DEFINE v == [Current EXCEPT !.step = "raised"]
    <3>1. /\ v \in VisitOK /\ v.who = x /\ v.at = at /\ v.step = "raised"
          /\ [Top EXCEPT !.walk[1].step = "raised"] = [Top EXCEPT !.walk = [Top.walk EXCEPT ![1] = v]]
      BY <1>6, <2>1
    <3>2. Continue([Top EXCEPT !.walk[1].step = "raised"]) /\ told' = told
      BY <1>7, <2>3 DEF Signal
    <3>3. DueAt(parent, Current, x) => DueAt(parent, v, x)
      BY <3>1 DEF DueAt
    <3> HIDE DEF v, x
    <3> QED
      BY <1>4, <1>5, <3>1, <3>2, <3>3
  <2> QED
    BY <2>2, <2>3
<1>8. ASSUME Tell PROVE Talk'
  <2>1. at = Root /\ at # None /\ At("adding")
    BY <1>8, TreeAssumption DEF Tell
  <2> DEFINE v == [Current EXCEPT !.step = "told"]
  <2>2. /\ v \in VisitOK /\ v.who = x /\ v.at = at
        /\ [Top EXCEPT !.walk[1].step = "told"] = [Top EXCEPT !.walk = [Top.walk EXCEPT ![1] = v]]
    BY <1>6, <2>1
  <2>3. Top.pc = "adding" /\ ~Takes(Top)
    BY <1>2, <2>1 DEF At
  <2>4. Continue([Top EXCEPT !.walk[1].step = "told"]) /\ told' = told \cup {x}
    BY <1>8, <2>3 DEF Tell, Tells
  <2>5. Sane(parent, Top) => In(parent, Top.new, Root)
    BY <1>4, <2>1, <2>3 DEF Base
  <2> HIDE DEF v, x
  <2> QED
    BY <1>4, <1>5, <2>2, <2>3, <2>4, <2>5
<1>9. ASSUME Climb PROVE Talk'
  <2> DEFINE v == [Current EXCEPT !.at = parent[Current.at], !.step = "due"]
  <2>1. /\ Current.step = "told" \/ (Current.step = "raised" /\ at # Root)
        /\ Continue([Top EXCEPT !.walk = [Top.walk EXCEPT ![1] = v]])
        /\ told' = told
    BY <1>9 DEF Climb
  <2>2. at \in Instance
    BY <1>3, <2>1 DEF Place
  <2>3. parent[at] \in Place
    BY <1>1, <2>2 DEF Parents
  <2>4. v \in VisitOK /\ v.who = x /\ v.at = parent[at] /\ v.step = "due"
    BY <1>1, <2>3 DEF VisitOK, Visit
  <2> HIDE DEF v, x, at
  <2>5. Sane(parent, Top) => v.at = None \/ In(parent, Base(Top), v.at)
    <3>1. at # None
      BY <2>2, TreeAssumption
    <3> QED
      BY <1>1, <1>4, <2>4, <3>1, InFacts
  <2>6. DueAt(parent, Current, x) => DueAt(parent, v, x)
    <3> SUFFICES ASSUME In(parent, at, Root), at # Root
                 PROVE  In(parent, v.at, Root)
      BY <2>1, <2>4 DEF DueAt, at, x
    <3> QED
      BY <1>1, <2>2, <2>4, InFacts
  <2> QED
    BY <1>5, <2>1, <2>4, <2>5, <2>6
<1> QED
  BY <1>7, <1>8, <1>9

\* On to the children, and after the last.
LEMMA DescendTalk ==
  ASSUME Whole, Talk, Descend \/ Added \/ Changed
  PROVE  Talk'
<1>1. /\ parent \in Parents /\ parent[Root] = None /\ stack \in Seq(Frame)
      /\ TalkIn(parent, told, disturbed, stack)
  BY TreeFacts DEF Talk
<1>2. CASE Descend
  <2> DEFINE t == Top
             x == Current.who
             at == Current.at
             c == children[x]
             f == [t EXCEPT !.walk = Visits(c, Base(t)) \o Tail(t.walk)]
  <2>1. /\ Visiting /\ parent' = parent /\ disturbed' = disturbed /\ told' = told
        /\ stack # <<>> /\ t = Last(stack) /\ Outside(at)
        /\ t \in MoveOK /\ t.walk # <<>> /\ Current = t.walk[1] /\ Current \in VisitOK
        /\ x = t.walk[1].who /\ at = t.walk[1].at
    BY <1>2, TreeFacts, VisitingFacts DEF Descend, treeVars, Whole
  <2>2. t.pc \in {"removing", "adding"}
    BY <2>1 DEF Visiting, At
  <2>3. at = None \/ In(parent, IF t.pc = "removing" THEN t.new ELSE t.old, at)
    BY <2>1, InsideIn DEF Outside, Other
  <2>4. c \in Seq(Movable) /\ \A y \in Instance : y \in ToSet(c) <=> parent[y] = x
    <3>1. x \in Instance
      BY <2>1 DEF VisitOK, Visit, Movable
    <3> QED
      BY <3>1, Exact DEF Whole, IInv, Typed
  <2>5. stack' = Append(Front(stack), f)
    <3>1. From = Base(t)
      BY <2>2 DEF From, Base
    <3> QED
      BY <1>2, <3>1 DEF Descend, Continue, Under, ChildrenOf
  <2>6. f = [t EXCEPT !.walk = Visits(c, Base(t)) \o Tail(t.walk)]
    OBVIOUS
  <2> HIDE DEF t, x, at, c, f
  <2>7. TalkIn(parent, told, disturbed, Append(Front(stack), f))
    BY <1>1, <2>1, <2>2, <2>3, <2>4, <2>6, TalkDescend
  <2> QED
    BY <2>1, <2>5, <2>7 DEF Talk
<1>3. CASE Added \/ Changed
  <2>1. /\ stack # <<>> /\ Top.op = "move"
        /\ parent' = parent /\ disturbed' = disturbed /\ told' = told
    BY <1>3 DEF Added, Changed, At, Does, treeVars
  <2>2. Top \in MoveOK /\ Top = Last(stack)
    BY <2>1, TopFacts DEF Whole, IInv
  <2>3. PICK f : /\ Continue(f)
                 /\ \/ Top.pc = "adding" /\ Top.walk = <<>> /\ f = [Top EXCEPT !.pc = "added"]
                    \/ Top.pc = "added" /\ f = [Top EXCEPT !.pc = "changed"]
    BY <1>3 DEF Added, Changed, At
  <2>4. stack' = Append(Front(stack), f)
    BY <2>3 DEF Continue, Under
  <2>5. TalkIn(parent, told, disturbed, Append(Front(stack), f))
    BY <1>1, <2>1, <2>2, <2>3, TalkAdded
  <2> QED
    BY <2>1, <2>4, <2>5 DEF Talk
<1> QED
  BY <1>2, <1>3

\* The child leaves its old parent, and comes to the new one.
LEMMA LinkTalk ==
  ASSUME Whole, Talk, Unlink \/ Link
  PROVE  Talk'
<1>1. /\ parent \in Parents /\ parent[Root] = None /\ stack \in Seq(Frame)
      /\ TalkIn(parent, told, disturbed, stack)
      /\ stack # <<>> /\ Top = Last(stack) /\ Takes(Top) /\ UNCHANGED <<told, disturbed>>
  BY TreeFacts DEF Talk, Unlink, Link, Erases, Links, At, Does, Takes, IsMove
<1>2. PICK h : Climbs(parent, h)
  BY TreeFacts
<1>3. /\ Top \in MoveOK /\ Top.inst \in Movable /\ Top.inst \in Instance /\ Top.new \in Place
      /\ Top.pc = "removed" \/ Top.old = None => parent[Top.inst] = None
      /\ Top.pc = "removed" \/ Top.old = None => Top.walk = <<>>
  <2>1. Len(stack) \in DOMAIN stack /\ stack[Len(stack)] = Top
    BY <1>1, TakenFacts DEF Whole
  <2> QED
    BY <1>1, <2>1, TakenFacts DEF Whole, TalkIn, ShapedIn
<1>4. CASE Unlink
  <2> DEFINE f == [Top EXCEPT !.pc = "removed"]
             Q == [parent EXCEPT ![Top.inst] = None]
  <2>1. Top.walk = <<>> /\ parent' = Q /\ stack' = Append(Front(stack), f)
    BY <1>4 DEF Unlink, Erases, Continue, Under
  <2>2. /\ f \in MoveOK /\ f.inst = Top.inst /\ f.old = Top.old /\ f.new = Top.new
        /\ f.pc = "removed" /\ f.walk = <<>>
    BY <1>3, <2>1 DEF MoveOK
  <2>3. Q = [parent EXCEPT ![Last(stack).inst] = None]
    BY <1>1
  <2> HIDE DEF f, Q
  <2>4. TalkIn(Q, told, disturbed, Append(Front(stack), f))
    BY <1>1, <1>2, <2>1, <2>2, <2>3, TalkUnlink
  <2> QED
    BY <1>1, <2>1, <2>4 DEF Talk
<1>5. CASE Link
  <2> DEFINE Q == [parent EXCEPT ![Top.inst] = Top.new]
             w == IF Inside(Top.old, Top.new) THEN <<>> ELSE Visits(<<Top.inst>>, Top.new)
             f == IF Top.new = None THEN [Top EXCEPT !.pc = "changed"]
                  ELSE [Top EXCEPT !.pc = "adding", !.walk = w]
  <2>1. /\ Top.walk = <<>> /\ parent[Top.inst] = None /\ parent' = Q
        /\ stack' = Append(Front(stack), f)
    BY <1>3, <1>5 DEF Link, Links, Continue, Under, At
  <2>8. ~In(parent, Last(stack).new, Last(stack).inst)
    BY <1>1, <1>3, <1>5, BelowIn DEF Link
  <2>2. w \in Seq(VisitOK)
    <3>1. <<Top.inst>> \in Seq(Movable) /\ <<>> \in Seq(VisitOK)
      BY <1>3
    <3> QED
      BY <1>3, <3>1, VisitsType
  <2>3. w = Visits(<<Top.inst>>, Top.new) \/ (w = <<>> /\ In(parent, Top.old, Top.new))
    BY InsideIn
  <2> HIDE DEF w
  <2>4. /\ f \in MoveOK /\ f.inst = Top.inst /\ f.old = Top.old /\ f.new = Top.new
        /\ \/ f.new = None /\ f.pc = "changed"
           \/ f.new # None /\ f.pc = "adding" /\ f.walk = w
    BY <1>3, <2>2 DEF MoveOK
  <2>5. Q = [parent EXCEPT ![Last(stack).inst] = Last(stack).new]
    BY <1>1
  <2> HIDE DEF f, Q
  <2>6. \/ f.new = None /\ f.pc = "changed"
        \/ /\ f.new # None /\ f.pc = "adding"
           /\ \/ f.walk = <<>> /\ In(parent, f.old, f.new)
              \/ f.walk = Visits(<<f.inst>>, f.new)
    BY <2>3, <2>4
  <2>7. TalkIn(Q, told, disturbed, Append(Front(stack), f))
    BY <1>1, <2>1, <2>4, <2>5, <2>6, <2>8, TalkLink
  <2> QED
    BY <1>1, <2>1, <2>7 DEF Talk
<1> QED
  BY <1>4, <1>5

-----------------------------------------------------------------------------
\* What a call disturbs of the walks that are under way.
LEMMA DisturbedFacts ==
  ASSUME NEW x, NEW q
  PROVE  /\ disturbed \subseteq Disturbed(x, q)
         /\ \A i \in DOMAIN stack :
              /\ Walks(stack[i])
              /\ Meets(parent, stack[i], x) \/ Enters(parent, stack[i], q)
              => /\ Zone(parent, stack[i]) \subseteq Disturbed(x, q)
                 /\ \A y \in Movable : In(parent, y, x) => y \in Disturbed(x, q)
<1>1. \A f : Crossed(f, x, q) <=> Meets(parent, f, x) \/ Enters(parent, f, q)
  BY InsideIn DEF Crossed, Meets, Enters
<1>2. \A i : i \in Walking <=> i \in DOMAIN stack /\ Walks(stack[i])
  BY DEF Walking, Walks, IsMove
<1> SUFFICES ASSUME NEW i \in DOMAIN stack, Walks(stack[i]),
                    Meets(parent, stack[i], x) \/ Enters(parent, stack[i], q)
             PROVE  /\ Zone(parent, stack[i]) \subseteq Disturbed(x, q)
                    /\ \A y \in Movable : In(parent, y, x) => y \in Disturbed(x, q)
  BY DEF Disturbed
<1> DEFINE F == {j \in Walking : Crossed(stack[j], x, q)}
           C == {x} \cup UNION {Concerned(stack[j]) : j \in F}
<1>3. i \in F /\ x \in C /\ Concerned(stack[i]) \subseteq C
  BY <1>1, <1>2
<1>4. Disturbed(x, q) = disturbed \cup {y \in Movable : F # {} /\ \E c \in C : Inside(y, c)}
  BY DEF Disturbed
<1> HIDE DEF F, C
<1>5. \A y \in Movable : (\E c \in C : In(parent, y, c)) => y \in Disturbed(x, q)
  BY <1>3, <1>4, InsideIn
<1> QED
  BY <1>3, <1>5 DEF Zone

\* setParent begins, as the model has it.
LEMMA MovingTalk ==
  ASSUME Whole, NEW T, NEW D, NEW s \in Seq(Frame), TalkIn(parent, T, D, s),
         NEW x \in Movable, NEW q \in Place,
         \A i \in DOMAIN s : Walks(s[i]) =>
           /\ Meets(parent, s[i], x) => Zone(parent, s[i]) \subseteq D
           /\ Enters(parent, s[i], q) =>
                /\ Zone(parent, s[i]) \subseteq D
                /\ \A y \in Movable : In(parent, y, x) => y \in D
  PROVE  TalkIn(parent, T, D, Append(s, Moving(x, q)))
<1> DEFINE g == Moving(x, q)
<1>1. parent \in Parents /\ parent[Root] = None /\ Typed
  BY TreeFacts DEF Whole, IInv
<1>2. PICK h : Climbs(parent, h)
  BY TreeFacts
<1>3. /\ g \in MoveOK /\ g.pc = "removing" /\ g.inst = x /\ g.old = parent[x] /\ g.new = q
      /\ parent[x] = None => g.walk = <<>>
  <2>1. g \in Frame /\ IsMove(g) /\ g.pc = "removing" /\ g.inst = x /\ g.old = parent[x] /\ g.new = q
        /\ (parent[x] = None => g.walk = <<>>)
    BY <1>1, MovingFacts
  <2> HIDE DEF g
  <2> QED
    BY <2>1, WalksFacts
<1>4. /\ g.walk \in {<<>>, Visits(<<x>>, parent[x])}
      /\ g.walk = <<>> /\ parent[x] # None => In(parent, q, parent[x])
  <2>1. Visits(<<x>>, parent[x]) # <<>>
    <3>1. DOMAIN Visits(<<x>>, parent[x]) = {1}
      BY DEF Visits
    <3>2. DOMAIN <<>> = {}
      OBVIOUS
    <3>3. DOMAIN Visits(<<x>>, parent[x]) # DOMAIN <<>>
      BY <3>1, <3>2
    <3> QED
      BY <3>3
  <2>2. g.walk = IF parent[x] = None \/ Inside(q, parent[x]) THEN <<>>
                 ELSE Visits(<<x>>, parent[x])
    BY DEF Moving
  <2> HIDE DEF g
  <2> QED
    BY <2>1, <2>2, InsideIn
<1>5. Concerned(g) = {x}
  <2>1. DOMAIN <<x>> = {1} /\ <<x>>[1] = x
    OBVIOUS
  <2>2. \A k \in DOMAIN g.walk : g.walk[k].who = x
    <3>1. DOMAIN Visits(<<x>>, parent[x]) = {1} /\ Visits(<<x>>, parent[x])[1].who = x
      BY <2>1 DEF Visits
    <3> HIDE DEF g
    <3> QED
      BY <1>4, <3>1
  <2> HIDE DEF g
  <2> QED
    BY <1>3, <2>2 DEF Concerned
<1> HIDE DEF g
<1>6. \A i \in DOMAIN s : Walks(s[i]) =>
        /\ Meets(parent, s[i], g.inst) => Zone(parent, s[i]) \subseteq D
        /\ Enters(parent, s[i], g.new) => Zone(parent, s[i]) \subseteq D /\ Zone(parent, g) \subseteq D
  BY <1>3, <1>5 DEF Zone
<1>7. /\ g.old = parent[g.inst] /\ g.walk \in {<<>>, Visits(<<g.inst>>, g.old)}
      /\ g.old = None => g.walk = <<>>
      /\ g.walk = <<>> /\ g.old # None => In(parent, g.new, g.old)
  BY <1>3, <1>4
<1>8. TalkIn(parent, T, D, Append(s, g))
  BY <1>1, <1>2, <1>3, <1>6, <1>7, TalkMove
<1> QED
  BY <1>8 DEF g

\* remove begins, with the call of setParent that takes away the instance.
LEMMA LeavingTalk ==
  ASSUME Whole, NEW T, NEW D, NEW s \in Seq(Frame), TalkIn(parent, T, D, s), NEW x \in Movable,
         \A i \in DOMAIN s : Walks(s[i]) /\ Meets(parent, s[i], x) => Zone(parent, s[i]) \subseteq D
  PROVE  TalkIn(parent, T, D, s \o <<Sweeping("remove", x, children[x])>> \o Leaving(x))
<1> DEFINE a == Sweeping("remove", x, children[x])
           b == Moving(x, None)
           q == Append(s, a)
           r == s \o <<a>> \o Leaving(x)
<1>1. /\ parent \in Parents /\ x \in Instance /\ None \in Place /\ children[x] \in Seq(Movable)
      /\ \A y \in Instance : y \in ToSet(children[x]) <=> parent[y] = x
  BY Exact DEF Whole, IInv, Typed, Movable, Place
<1>2. a \in Frame /\ ~IsMove(a) /\ a.inst = x /\ a.todo = children[x]
  <2>1. a \in Frame /\ ~IsMove(a)
    BY <1>1, SweepingFacts
  <2> QED
    BY <2>1 DEF Sweeping
<1>3. b \in Frame
  BY <1>1, MovingFacts DEF Whole, IInv
<1>4. ASSUME NEW i \in DOMAIN s, Walks(s[i]), NEW w \in Bears(a), Meets(parent, s[i], w)
      PROVE  Zone(parent, s[i]) \subseteq D
  <2>1. In(parent, w, x)
    <3>1. w = x \/ w \in ToSet(children[x])
      BY <1>2, <1>4 DEF Bears
    <3>2. \A y \in ToSet(children[x]) : y \in Instance
      BY <1>1 DEF ToSet, Movable
    <3> QED
      BY <1>1, <3>1, <3>2, InFacts, TreeAssumption
  <2>2. Meets(parent, s[i], x)
    BY <1>1, <1>4, <2>1, MeetsBelow
  <2> QED
    BY <1>4, <2>2
<1> HIDE DEF a
<1>5. TalkIn(parent, T, D, q) /\ q \in Seq(Frame)
  BY <1>2, <1>4, TalkSweep
<1>6. s \o <<a>> = q
  BY <1>2
<1>7. ASSUME NEW i \in DOMAIN q, Walks(q[i]) PROVE i \in DOMAIN s /\ q[i] = s[i]
  <2>1. /\ DOMAIN q = 1..(Len(s) + 1) /\ DOMAIN s = 1..Len(s) /\ Len(s) \in Nat
        /\ q[Len(s) + 1] = a /\ \A k \in 1..Len(s) : q[k] = s[k]
    BY <1>2
  <2>2. ~Walks(a)
    BY <1>2 DEF Walks
  <2>3. i # Len(s) + 1
    BY <1>7, <2>1, <2>2
  <2>4. i \in 1..Len(s)
    BY <2>1, <2>3
  <2> QED
    BY <2>1, <2>4
<1> HIDE DEF q, b
<1>8. \A i \in DOMAIN q : Walks(q[i]) =>
        /\ Meets(parent, q[i], x) => Zone(parent, q[i]) \subseteq D
        /\ Enters(parent, q[i], None) =>
             /\ Zone(parent, q[i]) \subseteq D
             /\ \A y \in Movable : In(parent, y, x) => y \in D
  <2>1. \A f : ~Enters(parent, f, None)
    BY <1>1, InFacts, TreeAssumption DEF Enters
  <2> QED
    BY <1>7, <2>1
<1>9. CASE parent[x] = None
  <2>1. r = q
    BY <1>5, <1>6, <1>9 DEF Leaving
  <2> QED
    BY <1>5, <2>1 DEF a
<1>10. CASE parent[x] # None
  <2>1. Leaving(x) = <<b>>
    BY <1>10 DEF Leaving, b
  <2>2. r = Append(q, b)
    BY <1>3, <1>5, <1>6, <2>1
  <2>3. TalkIn(parent, T, D, Append(q, Moving(x, None)))
    BY <1>1, <1>5, <1>8, MovingTalk
  <2> QED
    BY <2>2, <2>3 DEF a, b
<1> QED
  BY <1>9, <1>10

\* What the engine and listeners call.
LEMMA CallTalk ==
  ASSUME Whole, Talk, Call
  PROVE  Talk'
<1>1. stack \in Seq(Frame) /\ TalkIn(parent, told, disturbed, stack) /\ parent \in Parents
  BY TreeFacts DEF Talk
<1>2. ASSUME NEW x \in Movable, NEW q \in Place, disturbed' = Disturbed(x, q),
             stack' = Append(stack, Moving(x, q)), UNCHANGED <<parent, told>>
      PROVE  Talk'
  <2> DEFINE D == Disturbed(x, q)
  <2>1. /\ disturbed \subseteq D
        /\ \A i \in DOMAIN stack : Walks(stack[i]) =>
             /\ Meets(parent, stack[i], x) => Zone(parent, stack[i]) \subseteq D
             /\ Enters(parent, stack[i], q) =>
                  /\ Zone(parent, stack[i]) \subseteq D
                  /\ \A y \in Movable : In(parent, y, x) => y \in D
    BY DisturbedFacts
  <2> HIDE DEF D
  <2>2. TalkIn(parent, told, D, stack)
    BY <1>1, <2>1, TalkWider
  <2>3. TalkIn(parent, told, D, Append(stack, Moving(x, q)))
    BY <1>1, <2>1, <2>2, MovingTalk
  <2> QED
    BY <1>2, <2>3 DEF Talk, D
<1>3. CASE \E x \in Movable, q \in Place : SetParent(x, q)
  <2>1. PICK x \in Movable, q \in Place : SetParent(x, q)
    BY <1>3
  <2> QED
    BY <1>2, <2>1 DEF SetParent, treeVars
<1>4. CASE \E x \in Service : GetService(x)
  <2>1. PICK x \in Service : GetService(x)
    BY <1>4
  <2>2. Root \in Place /\ x \in Movable
    BY TreeAssumption DEF Place, Movable
  <2> QED
    BY <1>2, <2>1, <2>2 DEF GetService, treeVars
<1>5. ASSUME NEW x
      PROVE  LET D == Disturbed(x, None)
             IN  /\ TalkIn(parent, told, D, stack)
                 /\ \A i \in DOMAIN stack : Walks(stack[i]) /\ Meets(parent, stack[i], x) =>
                      Zone(parent, stack[i]) \subseteq D
  <2> DEFINE D == Disturbed(x, None)
  <2>1. /\ disturbed \subseteq D
        /\ \A i \in DOMAIN stack : Walks(stack[i]) /\ Meets(parent, stack[i], x) =>
             Zone(parent, stack[i]) \subseteq D
    BY DisturbedFacts
  <2> HIDE DEF D
  <2>2. TalkIn(parent, told, D, stack)
    BY <1>1, <2>1, TalkWider
  <2> QED
    BY <2>1, <2>2 DEF D
<1>6. CASE \E x \in Movable : RemoveInstance(x)
  <2>1. PICK x \in Movable : RemoveInstance(x)
    BY <1>6
  <2>2. /\ disturbed' = Disturbed(x, None) /\ UNCHANGED <<parent, told>>
        /\ stack' = stack \o <<Sweeping("remove", x, children[x])>> \o Leaving(x)
    BY <2>1 DEF RemoveInstance, treeVars
  <2> DEFINE D == Disturbed(x, None)
  <2>3. /\ TalkIn(parent, told, D, stack)
        /\ \A i \in DOMAIN stack : Walks(stack[i]) /\ Meets(parent, stack[i], x) =>
             Zone(parent, stack[i]) \subseteq D
    BY <1>5
  <2> HIDE DEF D
  <2>4. TalkIn(parent, told, D, stack \o <<Sweeping("remove", x, children[x])>> \o Leaving(x))
    BY <1>1, <2>3, LeavingTalk
  <2> QED
    BY <2>2, <2>4 DEF Talk, D
<1>7. CASE \E x \in Instance : RemoveAllChildren(x)
  <2>1. PICK x \in Instance : RemoveAllChildren(x)
    BY <1>7
  <2> DEFINE D == Disturbed(x, None)
             a == Sweeping("clear", x, <<>>)
  <2>2. disturbed' = D /\ UNCHANGED <<parent, told>> /\ stack' = Append(stack, a)
    BY <2>1 DEF RemoveAllChildren, treeVars
  <2>3. /\ TalkIn(parent, told, D, stack)
        /\ \A i \in DOMAIN stack : Walks(stack[i]) /\ Meets(parent, stack[i], x) =>
             Zone(parent, stack[i]) \subseteq D
    BY <1>5
  <2>4. a \in Frame /\ ~IsMove(a) /\ a.inst = x /\ a.todo = <<>>
    <3>1. <<>> \in Seq(Movable)
      OBVIOUS
    <3>2. a \in Frame /\ ~IsMove(a)
      BY <3>1, SweepingFacts
    <3> QED
      BY <3>2 DEF Sweeping
  <2> HIDE DEF D, a
  <2>5. Bears(a) = {x}
    <3>1. ToSet(<<>>) = {}
      BY DEF ToSet
    <3> QED
      BY <2>4, <3>1 DEF Bears
  <2>6. TalkIn(parent, told, D, Append(stack, a))
    BY <1>1, <2>3, <2>4, <2>5, TalkSweep
  <2> QED
    BY <2>2, <2>6 DEF Talk
<1> QED
  BY <1>3, <1>4, <1>6, <1>7 DEF Call

\* A sweep goes on: what it takes away next was named or was below what it was begun for.
LEMMA SweepTalk ==
  ASSUME Whole, Talk, SweepNext
  PROVE  Talk'
<1>1. /\ stack \in Seq(Frame) /\ TalkIn(parent, told, disturbed, stack) /\ parent \in Parents
      /\ Typed /\ None \in Place
  BY TreeFacts DEF Talk, Whole, IInv, Place
<1>2. /\ stack # <<>> /\ Top.op \in {"remove", "clear"}
      /\ parent' = parent /\ told' = told /\ disturbed' = disturbed
  BY DEF SweepNext, Does, treeVars
<1>3. Top \in Sweep /\ Top = Last(stack) /\ ~IsMove(Top)
  BY <1>1, <1>2, TopFacts DEF IsMove
<1> DEFINE u == Front(stack)
           n == Len(stack)
<1>4. /\ u \in Seq(Frame) /\ n \in DOMAIN stack /\ stack[n] = Top
      /\ \A i \in DOMAIN u : i \in DOMAIN stack /\ u[i] = stack[i] /\ i < n
  <2>1. /\ u \in Seq(Frame) /\ n \in Nat \ {0} /\ DOMAIN stack = 1..n /\ DOMAIN u = 1..(n - 1)
        /\ \A i \in 1..(n - 1) : u[i] = stack[i]
    BY <1>1, <1>2, FrontFacts
  <2>2. stack[n] = Top
    BY DEF Top, Last
  <2> HIDE DEF u, n
  <2> QED
    BY <2>1, <2>2
<1> HIDE DEF u, n
<1>5. ASSUME NEW i \in DOMAIN stack, i < n, Walks(stack[i]), NEW w \in Bears(Top), Meets(parent, stack[i], w)
      PROVE  Zone(parent, stack[i]) \subseteq disturbed
  BY <1>1, <1>4, <1>5 DEF TalkIn, ApartIn
<1>6. CASE /\ Top.op = "remove" /\ Top.todo # <<>>
           /\ LET c == Head(Top.todo)
              IN  stack' = Under \o <<[Top EXCEPT !.todo = Tail(@)],
                                      Sweeping("remove", c, children[c])>> \o Leaving(c)
  <2> DEFINE c == Head(Top.todo)
             a == [Top EXCEPT !.todo = Tail(Top.todo)]
             b == Sweeping("remove", c, children[c])
             q == Append(u, a)
  <2>1. /\ c \in Movable /\ c \in ToSet(Top.todo) /\ Tail(Top.todo) \in Seq(Movable)
        /\ ToSet(Tail(Top.todo)) \subseteq ToSet(Top.todo)
    <3> DEFINE w == Top.todo
    <3>1. w \in Seq(Movable) /\ w # <<>>
      BY <1>3, <1>6 DEF Sweep
    <3> HIDE DEF w
    <3>2. Len(w) \in Nat \ {0} /\ DOMAIN w = 1..Len(w) /\ Head(w) = w[1] /\ 1 \in DOMAIN w
      BY <3>1
    <3>3. /\ Tail(w) \in Seq(Movable) /\ DOMAIN Tail(w) = 1..(Len(w) - 1)
          /\ \A i \in 1..(Len(w) - 1) : Tail(w)[i] = w[i + 1] /\ i + 1 \in 1..Len(w)
      BY <3>1
    <3>4. Head(w) \in Movable /\ Head(w) \in ToSet(w) /\ ToSet(Tail(w)) \subseteq ToSet(w)
      BY <3>1, <3>2, <3>3 DEF ToSet
    <3> QED
      BY <3>3, <3>4 DEF w
  <2>2. a \in Sweep /\ a.inst = Top.inst /\ a.todo = Tail(Top.todo)
    BY <1>3, <2>1 DEF Sweep
  <2>3. a \in Frame /\ ~IsMove(a)
    BY <2>2 DEF Frame, Sweep, IsMove
  <2>4. Bears(a) \subseteq Bears(Top) /\ c \in Bears(Top)
    BY <1>3, <2>1, <2>2, <2>3 DEF Bears
  <2>5. stack' = Under \o <<a, b>> \o Leaving(c)
    BY <1>6
  <2>6. b \in Frame
    <3>1. c \in Instance /\ children[c] \in Seq(Movable)
      BY <1>1, <2>1 DEF Typed, Movable
    <3> QED
      BY <3>1, SweepingFacts
  <2> HIDE DEF a, b, c
  <2>7. Under \o <<a, b>> = q \o <<b>> /\ q \in Seq(Frame)
    <3>1. u \o <<a, b>> = Append(u, a) \o <<b>>
      BY <1>4, <2>3, <2>6
    <3> QED
      BY <1>4, <2>3, <3>1 DEF u, Under
  <2>8. TalkIn(parent, told, disturbed, u)
    <3>1. ~Walks(Last(stack))
      BY <1>3 DEF Walks
    <3> QED
      BY <1>1, <1>2, <3>1, TalkPop DEF u
  <2>9. TalkIn(parent, told, disturbed, q)
    <3>1. \A i \in DOMAIN u : Walks(u[i]) =>
            (\A w \in Bears(a) : Meets(parent, u[i], w) => Zone(parent, u[i]) \subseteq disturbed)
      BY <1>4, <1>5, <2>4
    <3> QED
      BY <1>4, <2>3, <2>8, <3>1, TalkSweep
  <2>10. ASSUME NEW i \in DOMAIN q, Walks(q[i]), Meets(parent, q[i], c)
         PROVE  Zone(parent, q[i]) \subseteq disturbed
    <3>1. /\ DOMAIN q = 1..(Len(u) + 1) /\ DOMAIN u = 1..Len(u) /\ Len(u) \in Nat
          /\ q[Len(u) + 1] = a /\ \A k \in 1..Len(u) : q[k] = u[k]
      BY <1>4, <2>3
    <3>2. ~Walks(a)
      BY <2>3 DEF Walks
    <3>3. i # Len(u) + 1
      BY <2>10, <3>1, <3>2
    <3>4. i \in DOMAIN u /\ q[i] = u[i]
      BY <3>1, <3>3
    <3> QED
      BY <1>4, <1>5, <2>4, <2>10, <3>4
  <2> HIDE DEF q
  <2>11. stack' = q \o <<Sweeping("remove", c, children[c])>> \o Leaving(c)
    BY <2>5, <2>7 DEF b
  <2>12. c \in Movable
    BY <2>1 DEF c
  <2>13. TalkIn(parent, told, disturbed, q \o <<Sweeping("remove", c, children[c])>> \o Leaving(c))
    BY <2>7, <2>9, <2>10, <2>12, LeavingTalk
  <2> QED
    BY <1>2, <2>11, <2>13 DEF Talk
<1>7. CASE /\ Top.op = "clear" /\ children[Top.inst] # <<>>
           /\ stack' = Append(stack, Moving(Last(children[Top.inst]), None))
  <2> DEFINE p == Top.inst
             x == Last(children[p])
  <2>1. p \in Instance /\ children[p] \in Seq(Movable) /\ children[p] # <<>>
    BY <1>1, <1>3, <1>7 DEF Typed, Sweep
  <2>2. x \in Movable /\ x \in ToSet(children[p])
    BY <2>1, FrontFacts DEF ToSet, Last
  <2>3. parent[x] = p /\ p # None /\ x \in Instance
    BY <2>1, <2>2, Exact, TreeAssumption DEF Movable
  <2>4. stack' = Append(stack, Moving(x, None))
    BY <1>7
  <2>5. p \in Bears(Top)
    BY <1>3 DEF Bears
  <2> HIDE DEF p, x
  <2>6. In(parent, x, p)
    BY <1>1, <2>1, <2>3, InFacts
  <2>7. \A i \in DOMAIN stack : Walks(stack[i]) =>
          /\ Meets(parent, stack[i], x) => Zone(parent, stack[i]) \subseteq disturbed
          /\ Enters(parent, stack[i], None) =>
               /\ Zone(parent, stack[i]) \subseteq disturbed
               /\ \A y \in Movable : In(parent, y, x) => y \in disturbed
    <3> SUFFICES ASSUME NEW i \in DOMAIN stack, Walks(stack[i])
                 PROVE  /\ Meets(parent, stack[i], x) => Zone(parent, stack[i]) \subseteq disturbed
                        /\ ~Enters(parent, stack[i], None)
      OBVIOUS
    <3>1. ~Enters(parent, stack[i], None)
      BY <1>1, InFacts, TreeAssumption DEF Enters
    <3>2. i # n
      BY <1>3, <1>4 DEF Walks
    <3>3. i < n
      <4>1. DOMAIN stack = 1..n /\ n \in Nat
        BY <1>1 DEF n
      <4> QED
        BY <3>2, <4>1
    <3>4. Meets(parent, stack[i], x) => Meets(parent, stack[i], p)
      BY <1>1, <2>6, MeetsBelow
    <3> QED
      BY <1>5, <2>5, <3>1, <3>3, <3>4
  <2>8. TalkIn(parent, told, disturbed, Append(stack, Moving(x, None)))
    BY <1>1, <2>2, <2>7, MovingTalk DEF x, p
  <2> QED
    BY <1>2, <2>4, <2>8 DEF Talk
<1> QED
  BY <1>6, <1>7 DEF SweepNext, Does

\* A call returns; with the last, what the root was told rightly is no more disturbed.
LEMMA ReturnTalk ==
  ASSUME Whole, Talk, SweepDone \/ Return
  PROVE  Talk'
<1>1. stack \in Seq(Frame) /\ TalkIn(parent, told, disturbed, stack)
  BY TreeFacts DEF Talk
<1>2. stack # <<>> /\ stack' = Front(stack) /\ parent' = parent /\ told' = told
  BY DEF SweepDone, Return, Does, At, treeVars, Under
<1>3. ~Walks(Last(stack))
  BY DEF SweepDone, Return, Does, At, Walks, IsMove, Top
<1>4. TalkIn(parent, told, disturbed, Front(stack))
  BY <1>1, <1>2, <1>3, TalkPop
<1>5. CASE disturbed' = disturbed
  BY <1>2, <1>4, <1>5 DEF Talk
<1>6. CASE Front(stack) = <<>> /\ disturbed' = disturbed \cap Untold
  <2>1. DOMAIN <<>> = {}
    OBVIOUS
  <2>2. \A x \in Movable \ disturbed : x \in told <=> In(parent, x, Root)
    BY <1>4, <1>6, <2>1 DEF TalkIn, TrueIn
  <2>3. \A x \in Movable \ Untold : x \in told <=> In(parent, x, Root)
    BY InsideIn DEF Untold
  <2>4. TrueIn(parent, told, disturbed \cap Untold, <<>>)
    BY <2>1, <2>2, <2>3 DEF TrueIn
  <2>5. /\ ApartIn(parent, disturbed \cap Untold, <<>>) /\ SaneIn(parent, disturbed \cap Untold, <<>>)
        /\ ShapedIn(<<>>)
    BY <2>1 DEF ApartIn, SaneIn, ShapedIn
  <2>6. TalkIn(parent, told, disturbed \cap Untold, <<>>)
    BY <2>4, <2>5 DEF TalkIn
  <2> QED
    BY <1>2, <1>6, <2>6 DEF Talk
<1> QED
  BY <1>5, <1>6 DEF SweepDone, Return, Under

\* What the root has told is the truth when nothing is under way, whatever listeners move
\* while a walk is at it: but for those they moved about, or something above them; and as long
\* as they moved none in the midst of its own setParent.
THEOREM ToldTruthHolds == Spec => []ToldTruth
<1> DEFINE I == IInv /\ (torn = {} => Ranked /\ Talk)
<1>1. ASSUME Init PROVE I
  <2>1. IInv /\ Ranked
    BY <1>1, InitInvariant, RankedInit
  <2>2. stack = <<>> /\ told = {x \in Movable : Inside(x, Root)}
    BY <1>1 DEF Init
  <2>3. DOMAIN <<>> = {}
    OBVIOUS
  <2>4. TrueIn(parent, told, disturbed, <<>>)
    BY <2>2, <2>3, InsideIn DEF TrueIn
  <2>5. ApartIn(parent, disturbed, <<>>) /\ SaneIn(parent, disturbed, <<>>) /\ ShapedIn(<<>>)
    BY <2>3 DEF ApartIn, SaneIn, ShapedIn
  <2> QED
    BY <2>1, <2>2, <2>4, <2>5 DEF Talk, TalkIn
<1>2. ASSUME I, [Next]_vars PROVE I'
  <2>1. IInv'
    BY <1>2, NextInvariant
  <2>2. ASSUME torn' = {} PROVE Ranked' /\ Talk'
    <3>1. Whole /\ Talk
      BY <1>2, <2>2, TornGrows DEF Whole
    <3>2. Ranked'
      BY <1>2, <3>1, RankedStep
    <3>3. CASE Next
      <4>1. CASE Call
        BY <3>1, <3>2, <4>1, CallTalk
      <4>2. CASE SweepNext
        BY <3>1, <3>2, <4>2, SweepTalk
      <4>3. CASE SweepDone \/ Return
        BY <3>1, <3>2, <4>3, ReturnTalk
      <4>4. CASE Signal \/ Tell \/ Climb
        BY <3>1, <3>2, <4>4, SignalTalk
      <4>5. CASE Descend \/ Added \/ Changed
        BY <3>1, <3>2, <4>5, DescendTalk
      <4>6. CASE Unlink \/ Link
        BY <3>1, <3>2, <4>6, LinkTalk
      <4>7. CASE Lose
        BY <3>1, <3>2, <4>7 DEF Lose, treeVars, Talk
      <4> QED
        BY <3>2, <3>3, <4>1, <4>2, <4>3, <4>4, <4>5, <4>6, <4>7 DEF Next, Go
    <3>4. CASE UNCHANGED vars
      BY <3>1, <3>2, <3>4 DEF vars, treeVars, Talk
    <3> QED
      BY <1>2, <3>3, <3>4
  <2> QED
    BY <2>1, <2>2
<1>3. ASSUME I, stack = <<>>, torn = {}, NEW x \in Untold PROVE x \in disturbed
  <2>1. DOMAIN <<>> = {}
    OBVIOUS
  <2>2. TrueIn(parent, told, disturbed, <<>>)
    BY <1>3 DEF Talk, TalkIn
  <2>3. x \in Movable /\ (x \in told) # Inside(x, Root)
    BY DEF Untold
  <2>4. x \in Movable \ disturbed => (x \in told <=> Inside(x, Root))
    BY <2>1, <2>2, InsideIn DEF TrueIn
  <2>5. Inside(x, Root) \in BOOLEAN
    BY DEF Inside
  <2> QED
    BY <2>3, <2>4, <2>5
<1>4. I => ToldTruth
  BY <1>3 DEF ToldTruth
<1> QED
  BY <1>1, <1>2, <1>4, PTL DEF Spec

=============================================================================
