SPECIFICATION Spec
CONSTANTS
  g = g a = a b = b c = c
  ga = ga ab = ab bc = bc j = j
  Asm = {g, a, b, c}
  Anchored = {g}
  Contact = {ga, ab, bc}
  Joint = {j}
  Ends <- RowEnds
  Over <- RowOver
  CanThrottle = {b, c}
  Changing = {ab}
  StepsToSleep = 1
  WakeDepth = 1
  EdgeOrder <- RowEdges
  AsmOrder <- RowAsms
INVARIANTS
  TypeOK
  KernelExactly
  SteppingInStage
  JointedApart
PROPERTIES
  LosingWakes
  WakingSpreads
  ForgottenByLoopOnly
