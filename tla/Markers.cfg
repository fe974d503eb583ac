SPECIFICATION Spec
CONSTANTS
  n1 = n1
  v1 = v1
  v2 = v2
  n2 = n2
  Empty = Empty
  Server = Server
  Client = {c1}
  Hero = c1
  Name <- OneName
  Value <- Values
  Active = {Server, c1}
  Marker = {m1, m2}
  Ring = 1
  MaxItems = 3
INVARIANTS FiresAfterDelivery
PROPERTIES MarkersReturn
CHECK_DEADLOCK FALSE
