SPECIFICATION Spec
CONSTANTS
  n1 = n1
  n2 = n2
  v1 = v1
  v2 = v2
  Empty = Empty
  Server = Server
  Client = {c1, c2}
  Active = {c1, c2}
  Hero = c1
  Name <- Spoken
  Value <- Values
  Marker = {}
  Ring = 1
  MaxItems = 2
INVARIANTS
  Converges
  NamesUnderstood
SYMMETRY Alike
CHECK_DEADLOCK FALSE
