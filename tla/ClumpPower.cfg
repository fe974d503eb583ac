SPECIFICATION FairSpec
CONSTANTS
  p1 = p1 p2 = p2 p3 = p3 p4 = p4
  r1 = r1 r2 = r2 r3 = r3 r4 = r4
  m1 = m1 m2 = m2
  k1 = k1 k2 = k2
  Prim = {p1, p2}
  Rigid = {r1}
  Motor = {}
  Contact = {}
  End <- PairEnds
  Area <- PairArea
  NoPrim = NoPrim
  LateAnchors = FALSE
  DropPending = FALSE
PROPERTIES
  ProcessReturns
