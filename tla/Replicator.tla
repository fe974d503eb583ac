------------------------------ MODULE Replicator ------------------------------
(***************************************************************************)
(* Replication of the properties of an instance between a server and its   *)
(* clients, over a Replicator at either end of each connection, with the   *)
(* markers by which a client learns that what was pending has come.        *)
(*                                                                         *)
(* A change is queued without its value; the value is read when the item   *)
(* is written. Property names go through the SharedStringDictionary of the *)
(* connection. Items travel RELIABLE_ORDERED, requests for markers only    *)
(* RELIABLE: they may overtake each other and all items. What hears a      *)
(* request, and what takes a property in, have no body in the sources;     *)
(* they are modelled from how the code here uses them.                     *)
(***************************************************************************)
EXTENDS Integers, Sequences, FiniteSets, SequencesExt

CONSTANTS
  Server,      \* where the ClientProxies are
  Client,      \* the clients
  Active,      \* the nodes whose scripts and users set properties: a bound
  Hero,        \* the client whose character the instance is in
  Name,        \* the names of the instance's properties, and the empty one
  Empty,
  Value,       \* what the properties may be
  Marker,      \* the markers
  Ring,        \* how many names a dictionary holds
  MaxItems     \* how many items a connection holds, in both directions: a bound

ASSUME ReplicatorAssumption ==
  /\ IsFiniteSet(Client) /\ Server \notin Client /\ Hero \in Client \cup {Server}
  /\ Empty \in Name /\ Ring \in 1..127 /\ MaxItems \in Nat
  /\ Active \subseteq Client \cup {Server}

VARIABLES
  value,     \* the properties, at each node
  pending,   \* pendingItems of each Replicator, by <<its node, the other's>>
  wire,      \* what it sent and the other has not read, a packet for each item
  names,     \* propNames as StringSender
  heard,     \* propNames as StringReceiver, of what the first sends the second
  globals,   \* receivedGlobals of each client's Replicator
  asked,     \* the requests for markers under way
  incoming,  \* incomingMarkers of each client's Replicator
  clash      \* history: properties both ends of a connection changed at once

vars == <<value, pending, wire, names, heard, globals, asked, incoming, clash>>
markerVars == <<asked, incoming>>

Node == Client \cup {Server}
Link == (Client \X {Server}) \cup ({Server} \X Client)
Property == Name \ {Empty}
Back(l) == <<l[2], l[1]>>
Between(l) == CHOOSE c \in Client : c \in {l[1], l[2]}

\* A ChangePropertyItem or a MarkerItem; written, the name has become a code, and
\* the value is there. owes is history: the markers asked for while it waited.
Change(n) == [kind |-> "change", name |-> n, owes |-> {}]
Mark(m) == [kind |-> "marker", marker |-> m, owes |-> {}]
\* The codes among the items of s, in their order.
CodesOf(s) ==
  LET codes[k \in 0..Len(s)] ==
        IF k = 0 THEN <<>>
        ELSE IF s[k].kind = "change" THEN Append(codes[k - 1], s[k].code) ELSE codes[k - 1]
  IN  codes[Len(s)]
Codes == [l \in Link |-> CodesOf(wire[l])]

Names == INSTANCE StringDictionary WITH
           sender <- names, received <- heard, line <- Codes

\* Whether a change of n is on its way over l.
OnItsWay(l, n) ==
  \/ \E i \in DOMAIN pending[l] : pending[l][i].kind = "change" /\ pending[l][i].name = n
  \/ \E i \in DOMAIN wire[l] : wire[l][i].kind = "change" /\ wire[l][i].code.means = n

-----------------------------------------------------------------------------
Held(l) == Len(pending[l]) + Len(wire[l]) + Len(pending[Back(l)]) + Len(wire[Back(l)])

\* onPropertyChanged at each Replicator of the node, but for the one that is just
\* taking the property in (faulty: at none, when any is). What belongs to the target
\* player's character goes first.
FirstOrLast(l, n) ==
  IF Between(l) = Hero THEN <<Change(n)>> \o pending[l] ELSE Append(pending[l], Change(n))
ToldNone(p, from) == IF from = p THEN {<<p, q>> : q \in Node} \cap Link ELSE {}
AllBut(p, from) == {<<p, q>> : q \in Node \ {from}} \cap Link
Raised(p, n, from) ==
  LET L == AllBut(p, from)
  IN  /\ \A l \in L : Held(l) < MaxItems
      /\ pending' = [l \in Link |-> IF l \in L THEN FirstOrLast(l, n) ELSE pending[l]]
      /\ clash' = (clash \ {<<Between(l), n>> : l \in L})
                    \cup {<<Between(l), n>> : l \in {k \in L : OnItsWay(Back(k), n)}}

\* A script, the physics or the user sets the property.
SetValue(p, n, v) ==
  /\ v # value[p][n]
  /\ value' = [value EXCEPT ![p][n] = v]
  /\ Raised(p, n, p)
  /\ UNCHANGED <<wire, names, heard, globals, markerVars>>

\* 'K', the containers the server names (sendTop), comes: then the client may send.
\* A ClientProxy has a canSendItems of its own; the faulty one inherits it.
HearGlobals(c) ==
  /\ c \notin globals /\ globals' = globals \cup {c}
  /\ UNCHANGED <<value, pending, wire, names, heard, markerVars, clash>>
OnGlobals(l) == l[1] \in globals
CanSendItems(l) == l[1] \in globals \cup {Server}

\* sendItems: the front item is written and popped. Each Replicator has a
\* dictionary of its own; the faulty server has one for all.
OfHero(l) == IF l[1] = Server THEN names[<<Server, Hero>>] ELSE names[l]
NamesOf(l) == names[l]
Written(l, i) ==
  IF i.kind = "marker" THEN i
  ELSE [kind |-> "change", code |-> Names!Encoded(NamesOf(l), i.name),
        value |-> value[l[1]][i.name], owes |-> i.owes]
Send(l) ==
  /\ CanSendItems(l) /\ pending[l] # <<>>
  /\ LET i == Head(pending[l])
     IN  /\ wire' = [wire EXCEPT ![l] = Append(@, Written(l, i))]
         /\ names' = [names EXCEPT ![l] = IF i.kind = "change" THEN Names!Sent(@, i.name) ELSE @]
  /\ pending' = [pending EXCEPT ![l] = Tail(@)]
  /\ UNCHANGED <<value, heard, globals, markerVars, clash>>

\* readChangedProperty: the name is looked up, the property set; a change of it is
\* raised to all other Replicators of the node.
ReceiveChange(l) ==
  /\ wire[l] # <<>> /\ Head(wire[l]).kind = "change"
  /\ LET i == Head(wire[l])
         p == l[2]
         n == Names!Decoded(heard[l], i.code)
     IN  /\ value' = [value EXCEPT ![p][n] = i.value]
         /\ heard' = [heard EXCEPT ![l] = Names!Learnt(@, i.code)]
         /\ IF value[p][n] = i.value THEN UNCHANGED <<pending, clash>> ELSE Raised(p, n, l[1])
  /\ wire' = [wire EXCEPT ![l] = Tail(@)]
  /\ UNCHANGED <<names, globals, markerVars>>

\* readMarker: the marker that has waited longest fires, whatever the item says.
\* The faulty one fires the one that has waited least.
AllButLast(s) == Front(s)
Waiting(s) == Tail(s)
ReceiveMarker(l) ==
  /\ wire[l] # <<>> /\ Head(wire[l]).kind = "marker"
  /\ wire' = [wire EXCEPT ![l] = Tail(@)]
  /\ incoming' = [incoming EXCEPT ![l[2]] = Waiting(@)]
  /\ UNCHANGED <<value, pending, names, heard, globals, asked, clash>>

\* sendMarker: 'N' goes out. Everything the server has for the client is owed to it.
Owed(i, m) == [i EXCEPT !.owes = @ \cup {m}]
Owing(s, m) == [i \in DOMAIN s |-> Owed(s[i], m)]
Underway(m) ==
  \/ \E d \in Client : m \in ToSet(incoming[d]) \/ <<d, m>> \in asked
  \/ \E l \in Link : \E i \in ToSet(pending[l]) \cup ToSet(wire[l]) :
       i.kind = "marker" /\ i.marker = m
SendMarker(c, m) ==
  /\ ~Underway(m)
  /\ incoming' = [incoming EXCEPT ![c] = Append(@, m)]
  /\ asked' = asked \cup {<<c, m>>}
  /\ pending' = [pending EXCEPT ![<<Server, c>>] = Owing(@, m)]
  /\ wire' = [wire EXCEPT ![<<Server, c>>] = Owing(@, m)]
  /\ UNCHANGED <<value, names, heard, globals, clash>>

\* The server hears the request and queues a MarkerItem.
HearRequest(c, m) ==
  /\ <<c, m>> \in asked /\ asked' = asked \ {<<c, m>>}
  /\ pending' = [pending EXCEPT ![<<Server, c>>] = Append(@, Mark(m))]
  /\ UNCHANGED <<value, wire, names, heard, globals, incoming, clash>>

-----------------------------------------------------------------------------
Init ==
  /\ \E v \in Value : value = [p \in Node |-> [n \in Property |-> v]]
  /\ pending = [l \in Link |-> <<>>] /\ wire = [l \in Link |-> <<>>]
  /\ names = [l \in Link |-> Names!NewSender]
  /\ heard = [l \in Link |-> Names!NewReceiver]
  /\ globals = {} /\ asked = {} /\ incoming = [c \in Client |-> <<>>] /\ clash = {}

Changing == \E p \in Active, n \in Property, v \in Value : SetValue(p, n, v)
Asking == \E c \in Client, m \in Marker : SendMarker(c, m)
Hearing == \E c \in Client, m \in Marker : HearRequest(c, m)
Carrying(l) == Send(l) \/ ReceiveChange(l) \/ ReceiveMarker(l)
Next ==
  \/ Changing \/ Asking \/ Hearing
  \/ (\E c \in Client : HearGlobals(c)) \/ \E l \in Link : Carrying(l)

\* Both ends keep stepping: a heartbeat receives and sends (Peer::onEvent, Update).
Fairness ==
  /\ \A l \in Link : WF_vars(Send(l)) /\ WF_vars(ReceiveChange(l) \/ ReceiveMarker(l))
  /\ \A c \in Client : WF_vars(HearGlobals(c))
                       /\ \A m \in Marker : WF_vars(HearRequest(c, m))
Spec == Init /\ [][Next]_vars /\ Fairness

-----------------------------------------------------------------------------
\* When nothing about a property is on its way between a client and the server, they
\* agree on it, unless both changed it at once: though values are read when items
\* are written, later items overtake earlier ones, and the server passes on what it
\* is told.
Converges ==
  \A c \in Client, n \in Property :
    (/\ <<c, n>> \notin clash
     /\ ~OnItsWay(<<c, Server>>, n) /\ ~OnItsWay(<<Server, c>>, n))
    => value[c][n] = value[Server][n]

\* A marker fires only when all has come that the server had for the client when it
\* asked, though requests overtake each other and the marker fired may be another's.
FiresAfterDelivery ==
  \A c \in Client :
    LET l == <<Server, c>> IN
    \A i \in ToSet(pending[l]) \cup ToSet(wire[l]) : i.owes \subseteq ToSet(incoming[c])

\* Every name that is read next, from whatever end of whatever connection, is read as
\* the one that was written: though an index is used again while items that name it
\* are under way, markers go between, and the other connections have rings of their own.
NamesUnderstood == Names!Understood

\* If changes and new requests cease, every marker that was asked for returns.
MarkersReturn ==
  <>[][~Changing /\ ~Asking]_vars => \A c \in Client : <>[](incoming[c] = <<>>)
=============================================================================
