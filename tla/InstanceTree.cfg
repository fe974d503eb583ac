SPECIFICATION Spec
CONSTANTS
  game = game
  model = model
  s1 = s1
  s2 = s2
  None = None
  Instance <- All
  Root = game
  Service <- Services
  MaxCalls = 1
  MaxDepth = 4
  MaxAfter = 2
  Placed <- Start
INVARIANTS TypeOK Filed ToldTruth
PROPERTY MakesOnlyTheFirst
SYMMETRY Alike
CHECK_DEADLOCK FALSE
