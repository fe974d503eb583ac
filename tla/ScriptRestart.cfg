SPECIFICATION Spec
CONSTANTS
  s1 = s1
  s2 = s2
  Script <- TwoScripts
  Lives <- TwoLives
  Extra <- OneExtra
  MaxWaiting = 2
  MaxDepth = 2
  Backend = TRUE
  Meddling = TRUE

PROPERTY StartedOnce
