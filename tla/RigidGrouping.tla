---------------------------- MODULE RigidGrouping ----------------------------
(***************************************************************************)
(* What ClumpStage promises the rest of v8world about rigid joints, without*)
(* its buffers: every primitive has a group, named by the group's root.    *)
(* A change of the world may dissolve the groups it touches and no other,  *)
(* at once, and never makes one; processing regroups as it likes and ends  *)
(* only in a proper grouping of the world it was given.                    *)
(***************************************************************************)
EXTENDS Naturals, FiniteSets

CONSTANTS
  Prim,     \* the primitives
  NoPrim    \* no group

VARIABLES
  busy,      \* is the stage processing?
  present,   \* the primitives in the world
  anchored,  \* the primitives that are fixed
  linked,    \* the pairs {p, q} of primitives rigidly joined
  group      \* the root of the group of each primitive

vars == <<busy, present, anchored, linked, group>>
world == <<present, anchored, linked>>

Group(c) == {p \in Prim : group[p] = c}

\* No part of a group is loose from the rest of it.
Connected(S) ==
  \A T \in (SUBSET S) \ {{}, S} : \E p \in T, q \in S \ T : {p, q} \in linked

\* Primitives that are joined move together, but for those that cannot move:
\* an anchored primitive is the root of its group and has one to itself, and a
\* joint between two groups is left only where both are anchored.
Grouped ==
  /\ \A p \in Prim : group[p] # NoPrim <=> p \in present
  /\ \A p \in present : group[group[p]] = group[p]
  /\ \A p \in present \cap anchored : group[p] = p
  /\ \A p, q \in present : {p, q} \in linked =>
       group[p] = group[q] \/ {group[p], group[q]} \subseteq anchored
  /\ \A c \in present : Connected(Group(c))

Init ==
  /\ busy = FALSE
  /\ present = {} /\ linked = {}
  /\ anchored \subseteq Prim
  /\ group = [p \in Prim |-> NoPrim]

\* The primitives that a change of the world is about.
Changed(old, new) == (old \ new) \cup (new \ old)
Touched ==
  Changed(present, present') \cup Changed(anchored, anchored')
    \cup UNION Changed(linked, linked')

Change ==
  /\ ~busy /\ ~busy'
  /\ \A p \in Prim :
       group'[p] = group[p] \/ (group'[p] = NoPrim /\ Group(group[p]) \cap Touched # {})

Begin == ~busy /\ busy' /\ UNCHANGED <<world, group>>
Regroup == busy /\ busy' /\ UNCHANGED world
Settle == busy /\ ~busy' /\ Grouped' /\ UNCHANGED world

Next == Change \/ Begin \/ Regroup \/ Settle

Spec == Init /\ [][Next]_vars
=============================================================================
