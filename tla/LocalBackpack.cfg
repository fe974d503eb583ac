SPECIFICATION Spec
CONSTANTS
  t1 = t1
  t2 = t2
  t3 = t3
  b1 = b1
  None = None
  Tool <- Tools
  Bin <- Bins
INVARIANTS ShownOnce
PROPERTIES ClicksKeepSlots ClickPutsAway
SYMMETRY Alike
