---------------------------- MODULE LocalBackpack ----------------------------
(***************************************************************************)
(* The panel of slots for what the local player has in backpack and        *)
(* character, with what fills and empties both: Player::setCharacter and   *)
(* rebuildBackpack, Tool and HopperBin when they are clicked, and tools    *)
(* that are touched or moved by scripts. Played solo: one process is front *)
(* end and back end.                                                       *)
(*                                                                         *)
(* The panel hears of every setParent while it is under way. It does not   *)
(* keep slots for items but items for slots: an item that comes takes the  *)
(* place of the one that left last, and the items behind move on by one.   *)
(* A click is done at the next heartbeat, over a copy of the slots there   *)
(* were at its start. Each call is a step; a record carries its state      *)
(* through the moves it makes.                                             *)
(***************************************************************************)
EXTENDS Integers, Sequences, FiniteSets, SequencesExt

CONSTANTS
  Tool,   \* the tools
  Bin,    \* the HopperBins
  None    \* the NULL pointer

ASSUME BackpackAssumption == Tool \cap Bin = {} /\ None \notin Tool \cup Bin

Item == Tool \cup Bin

VARIABLES
  place,             \* where each item is; "new" if it is not made yet
  held,              \* the tools among the character's children, in order
  character,         \* whether the player has one
  slots,             \* the items of LocalBackpack's children
  lastRemovedIndex,  \* the place of the slot removed last, 0 if there is none
  pendingClick,      \* the item clicked since the last heartbeat
  active,            \* the bins with active set
  left               \* history: what the character held that went, while its slots stay

vars == <<place, held, character, slots, lastRemovedIndex, pendingClick, active, left>>

\* In what the panel watches an item is shown. "gone" is out of the game, by itself or in
\* a character or backpack that went.
Watched == {"pack", "held"}
Places == Watched \cup {"new", "world", "gone"}

-----------------------------------------------------------------------------
\* The state of a call. A slot is known by its number; one that was removed still
\* has its item, for who has a copy.
Now == [place |-> place, held |-> held, order |-> [i \in DOMAIN slots |-> i],
        item |-> slots, last |-> lastRemovedIndex, pending |-> pendingClick,
        active |-> active]
Shown(G) == [i \in DOMAIN G.order |-> G.item[G.order[i]]]
Becomes(G) ==
  /\ place' = G.place /\ held' = G.held /\ slots' = Shown(G)
  /\ lastRemovedIndex' = G.last /\ pendingClick' = G.pending /\ active' = G.active

Find(s, t) == CHOOSE i \in DOMAIN s : s[i] = t /\ \A j \in 1..(i - 1) : s[j] # t
Without(s, t) == IF t \in ToSet(s) THEN RemoveAt(s, Find(s, t)) ELSE s

\* insertBackpackItem: a slot is made at the end, the items from the free place on
\* move on by one. Faulty: the free place is the last.
AtTheEnd(G, n) == n
FreePlace(G, n) == IF G.last = 0 \/ G.last > n THEN n ELSE G.last
Insert(G, t) ==
  LET new == Len(G.item) + 1
      order == Append(G.order, new)
      shown == InsertAt(Shown(G), FreePlace(G, Len(order)), t)
  IN  [G EXCEPT !.order = order, !.last = 0,
         !.item = [i \in 1..new |-> IF i \in ToSet(order) THEN shown[Find(order, i)] ELSE G.item[i]]]

\* removeBackpackItem.
Remover(G, t) ==
  LET i == Find(Shown(G), t)
  IN  [G EXCEPT !.order = RemoveAt(@, i), !.last = i,
                !.pending = IF @ = t THEN None ELSE @]
Removed(G, t) == IF t \in ToSet(Shown(G)) THEN Remover(G, t) ELSE G

\* setParent of an item: the panel removes it when it leaves, and inserts it when it
\* has come. Faulty: it does not hear of what leaves the character.
LeavesBackpack(p) == p = "pack"
HeardLeaving(p) == p \in Watched
Moved(G, t, to) ==
  LET L == IF HeardLeaving(G.place[t]) THEN Removed(G, t) ELSE G
      M == [L EXCEPT !.place[t] = to,
                     !.held = IF to = "held" /\ t \in Tool THEN Append(Without(@, t), t)
                              ELSE Without(@, t)]
  IN  IF to \in Watched THEN Insert(M, t) ELSE M
AllMoved(G, s, to) ==
  LET at[n \in 0..Len(s)] == IF n = 0 THEN G ELSE Moved(at[n - 1], s[n], to)
  IN  at[Len(s)]

-----------------------------------------------------------------------------
\* Tool::onLocalOtherClicked and HopperBin's. An item that is out of the game has no
\* local player to find. Faulty: bins are let be.
ToolsOnly(G, t) == IF t \in Tool /\ G.place[t] \in {"held", "world"} THEN Moved(G, t, "pack") ELSE G
OtherClicked(G, t) ==
  IF t \in Bin THEN [G EXCEPT !.active = @ \ {t}]
  ELSE IF G.place[t] \in {"held", "world"} THEN Moved(G, t, "pack") ELSE G

\* onLocalClicked: a tool changes places with those the character holds; a bin is
\* toggled. Without a character the tool's new parent is NULL.
MoveAllToolsToBackpack(G) == AllMoved(G, G.held, "pack")
Clicked(G, t) ==
  IF t \in Bin THEN [G EXCEPT !.active = IF t \in @ THEN @ \ {t} ELSE @ \cup {t}]
  ELSE CASE G.place[t] = "pack" ->
              Moved(MoveAllToolsToBackpack(G), t, IF character THEN "held" ELSE "gone")
         [] G.place[t] \in {"held", "world"} -> Moved(G, t, "pack")
         [] OTHER -> G

\* A slot is clicked; at the heartbeat the other slots hear of it, then the item.
Click(t) ==
  /\ t \in ToSet(slots) /\ pendingClick' = t
  /\ UNCHANGED <<place, held, character, slots, lastRemovedIndex, active, left>>
Heard(G, i) == IF G.item[i] = pendingClick THEN G ELSE OtherClicked(G, G.item[i])
AllHeard ==
  LET at[n \in 0..Len(slots)] == IF n = 0 THEN Now ELSE Heard(at[n - 1], n)
  IN  at[Len(slots)]
OnHeartbeat ==
  /\ pendingClick # None
  /\ Becomes([Clicked(AllHeard, pendingClick) EXCEPT !.pending = None])
  /\ UNCHANGED <<character, left>>

\* onEvent_HandleTouched: the character walks into a tool that lies there.
HandleTouched(t) ==
  /\ character /\ t \in Tool /\ place[t] = "world"
  /\ Becomes(Moved(MoveAllToolsToBackpack(Now), t, "held"))
  /\ UNCHANGED <<character, left>>

\* A script sets the parent of an item, wherever it is; it may have made it, or hold on to
\* one that is out of the game.
SetParent(t, to) ==
  /\ to \in Watched \cup {"world", "gone"} /\ to # place[t]
  /\ to = "held" => character
  /\ Becomes(Moved(Now, t, to))
  /\ UNCHANGED <<character, left>>

-----------------------------------------------------------------------------
\* setCharacter(NULL): the panel has let go of the character when it is taken out of
\* the workspace, with the items it holds; their slots stay.
WithoutHeld(G) ==
  [G EXCEPT !.place = [t \in Item |-> IF @[t] = "held" THEN "gone" ELSE @[t]], !.held = <<>>]
RemoveCharacter ==
  /\ character /\ character' = FALSE
  /\ left' = {t \in Item : place[t] = "held"}
  /\ Becomes(WithoutHeld(Now))

\* rebuildBackpack: the old backpack goes, and with it all slots; the new one gets
\* copies of the starter pack.
Rebuilt(G, s) ==
  AllMoved([G EXCEPT !.place = [t \in Item |-> IF @[t] = "pack" THEN "gone" ELSE @[t]],
                     !.order = <<>>, !.item = <<>>, !.last = 0],
           s, "pack")

\* setCharacter in loadCharacter, or by a script, to a model that may hold a tool, the
\* character that went among them. Players rebuilds the backpack before the panel looks at the character.
Unmade == {t \in Item : place[t] = "new"}
StarterPacks == {s \in [1..2 -> Unmade] : IsInjective(s)} \cup {<<>>}
Models == {<<>>} \cup {<<t>> : t \in {u \in Tool : place[u] \in {"world", "gone"}}}
SetCharacter(s, m) ==
  /\ s \in StarterPacks /\ m \in Models
  /\ character' = TRUE /\ left' = {}
  /\ Becomes(AllMoved(Rebuilt(WithoutHeld(Now), s), m, "held"))

Init ==
  /\ place = [t \in Item |-> "new"] /\ held = <<>> /\ character = FALSE
  /\ slots = <<>> /\ lastRemovedIndex = 0 /\ pendingClick = None /\ active = {}
  /\ left = {}

Next ==
  \/ OnHeartbeat \/ RemoveCharacter
  \/ \E t \in Item : Click(t) \/ HandleTouched(t)
  \/ \E t \in Item, to \in Places : SetParent(t, to)
  \/ \E s \in StarterPacks, m \in Models : SetCharacter(s, m)
Spec == Init /\ [][Next]_vars

-----------------------------------------------------------------------------
\* What the player has at hand is shown in one slot each, wherever scripts take it from
\* and put it. What the character held that went keeps a slot besides, until the backpack
\* is rebuilt, so that it may be shown twice, or though it lies in the world.
ShownOnce ==
  \A t \in Item :
    Cardinality({i \in DOMAIN slots : slots[i] = t}) =
      (IF place[t] \in Watched THEN 1 ELSE 0) + (IF t \in left THEN 1 ELSE 0)

\* A click leaves every item in its slot, though tools leave theirs and come back
\* while it is done; only the tool that is clicked without a character is lost. What
\* lies in the world and hears of the click all the same, by a slot of the character that
\* went or as the item clicked before the backpack was rebuilt, comes in anew.
Strays == {t \in Item : place[t] = "world" /\ t \in left \cup {pendingClick}}
ClicksKeepSlots ==
  [][OnHeartbeat /\ Strays = {} =>
       \/ slots' = slots
       \/ ~character /\ slots' = Without(slots, pendingClick)]_vars

\* A click puts away what else was in use, but when tools are put away the items
\* move on to slots that were passed: as many of the last slots may be missed.
InUse == ToSet(held) \cup active
PutAway == {u \in Item : place[u] # "pack" /\ place'[u] = "pack"}
ClickPutsAway ==
  [][OnHeartbeat =>
       \A t \in ToSet(slots) \ {pendingClick} :
         t \in InUse' => Len(slots) - Find(slots, t) < Cardinality(PutAway)]_vars
=============================================================================
