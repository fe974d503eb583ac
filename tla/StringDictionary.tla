--------------------------- MODULE StringDictionary ---------------------------
(***************************************************************************)
(* SharedStringDictionary: strings that recur on a connection are sent in  *)
(* full once, with the index of a ring, and by their index from then on.   *)
(* The sender keeps the ring and a map into it, and erases from the map    *)
(* what it overwrites in the ring; the receiver keeps the ring only. What  *)
(* is sent is read in order and none is lost: RakNet's RELIABLE_ORDERED.   *)
(* Each direction of each connection has a dictionary of its own.          *)
(***************************************************************************)
EXTENDS Integers, Sequences

CONSTANTS
  Link,   \* the directions: for each a sender at one end, a receiver at the other
  Name,   \* the strings
  Empty,  \* the empty one
  Ring    \* how many the dictionary holds: 127, the ids of one byte less one bit

DictionaryAssumption == Empty \in Name /\ Ring \in 1..127

VARIABLES
  sender,    \* StringSender of each: strings, lastIndex, its dictionary (0 if absent)
  received,  \* StringReceiver::dictionary of each
  line       \* what is under way on each, with the string it stands for

vars == <<sender, received, line>>

Index == 1..Ring
Sender == [strings : [Index -> Name], lastIndex : 0..Ring, dictionary : [Name -> 0..Ring]]
\* A byte: the index with the bit that says that the string follows, or not.
Code == [id : 0..Ring, full : BOOLEAN, text : Name, means : Name]

NewSender == [strings |-> [i \in Index |-> Empty], lastIndex |-> 0,
              dictionary |-> [n \in Name |-> 0]]
NewReceiver == [i \in Index |-> Empty]

\* StringSender::send. The string takes the place after the last one, and who had
\* that place loses it.
NextIndex(S) == (S.lastIndex % Ring) + 1
Entered(S, v) ==
  [n \in Name |-> IF n = v THEN NextIndex(S)
                  ELSE IF n = S.strings[NextIndex(S)] THEN 0 ELSE S.dictionary[n]]
Known(S, v) == v = Empty \/ S.dictionary[v] # 0
Encoded(S, v) ==
  IF v = Empty THEN [id |-> 0, full |-> FALSE, text |-> Empty, means |-> v]
  ELSE IF Known(S, v) THEN [id |-> S.dictionary[v], full |-> FALSE, text |-> Empty, means |-> v]
  ELSE [id |-> NextIndex(S), full |-> TRUE, text |-> v, means |-> v]
Sent(S, v) ==
  IF Known(S, v) THEN S
  ELSE [strings |-> [S.strings EXCEPT ![NextIndex(S)] = v], lastIndex |-> NextIndex(S),
        dictionary |-> Entered(S, v)]

\* StringReceiver::receive.
Decoded(R, c) == IF c.id = 0 THEN Empty ELSE IF c.full THEN c.text ELSE R[c.id]
Learnt(R, c) == IF c.full THEN [R EXCEPT ![c.id] = c.text] ELSE R

-----------------------------------------------------------------------------
Init ==
  /\ sender = [l \in Link |-> NewSender] /\ received = [l \in Link |-> NewReceiver]
  /\ line = [l \in Link |-> <<>>]

Send(l, v) ==
  /\ line' = [line EXCEPT ![l] = Append(@, Encoded(sender[l], v))]
  /\ sender' = [sender EXCEPT ![l] = Sent(@, v)]
  /\ UNCHANGED received

Receive(l) ==
  /\ line[l] # <<>>
  /\ received' = [received EXCEPT ![l] = Learnt(@, Head(line[l]))]
  /\ line' = [line EXCEPT ![l] = Tail(@)]
  /\ UNCHANGED sender

Next == \E l \in Link : Receive(l) \/ \E v \in Name : Send(l, v)
Spec == Init /\ [][Next]_vars

-----------------------------------------------------------------------------
\* Types.
TypeOK ==
  /\ sender \in [Link -> Sender] /\ received \in [Link -> [Index -> Name]]
  /\ line \in [Link -> Seq(Code)]

\* Whatever is read next is read as what it was sent for, though the ring has gone
\* round any number of times since, and though the receiver never learns what the
\* sender erased.
Understood ==
  \A l \in Link : line[l] # <<>> => Decoded(received[l], Head(line[l])) = Head(line[l]).means

-----------------------------------------------------------------------------
\* Why. The receiver lags behind the sender, so the invariant says what each
\* index stands for at every place of a line, and not only at its ends.

\* What an index stands for to a reader who has read all before the place k of L: the
\* text of its last definition there, or what the ring R has, if there is none.
Defines(L, i, k) == L[k].full /\ L[k].id = i
Stands(L, R, i, k, x) ==
  /\ \A j \in 1..(k - 1) :
       Defines(L, i, j) /\ (\A m \in (j + 1)..(k - 1) : ~Defines(L, i, m)) => L[j].text = x
  /\ (\A j \in 1..(k - 1) : ~Defines(L, i, j)) => R[i] = x

\* The map of a sender leads to places of its ring that hold the string.
Inverse(S) ==
  /\ S.dictionary[Empty] = 0
  /\ \A n \in Name : S.dictionary[n] # 0 => S.strings[S.dictionary[n]] = n

\* When all is read, the receiver's ring is the sender's.
Newest(S, R, L) == \A i \in Index : Stands(L, R, i, Len(L) + 1, S.strings[i])

\* Each code on the line stands for what it was sent for, at its place.
Meant(L, R, k) ==
  \/ L[k].full /\ L[k].id \in Index /\ L[k].text = L[k].means
  \/ ~L[k].full /\ L[k].id = 0 /\ L[k].means = Empty
  \/ ~L[k].full /\ L[k].id \in Index /\ Stands(L, R, L[k].id, k, L[k].means)
AllMeant(R, L) == \A k \in 1..Len(L) : Meant(L, R, k)

\* A sender, a receiver and a line of one direction that fit.
Typed(S, R, L) == S \in Sender /\ R \in [Index -> Name] /\ L \in Seq(Code)
Fit(S, R, L) == Typed(S, R, L) /\ Inverse(S) /\ Newest(S, R, L) /\ AllMeant(R, L)
IInv == TypeOK /\ \A l \in Link : Fit(sender[l], received[l], line[l])
=============================================================================
