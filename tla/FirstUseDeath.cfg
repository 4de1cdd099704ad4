CONSTANTS
  p1 = p1
  p2 = p2
  p3 = p3
  Nobody = Nobody
  Processes = {p1}
  ProcessesEnd = TRUE
SPECIFICATION Spec
INVARIANTS
  CommitHasIdentity
