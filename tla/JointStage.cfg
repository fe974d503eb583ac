SPECIFICATION Spec
CONSTANTS
  Prim = {p1, p2, p3}
  Joint = {j1, j2}
  NoPrim = NoPrim
  SelfJoints = FALSE
INVARIANTS
  TypeOK
  HeldExactly
  NoneStuck
  EdgeListsExact
