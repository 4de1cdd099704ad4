CONSTANTS
  p1 = p1
  p2 = p2
  p3 = p3
  Nobody = Nobody
  Processes = {p1, p2, p3}
  ProcessesEnd = TRUE
SPECIFICATION FairSpec
INVARIANTS
  IdentityComing
PROPERTIES
  IdentityArrives
