CONSTANTS
  p1 = p1
  p2 = p2
  b1 = b1
  b2 = b2
  crlf = crlf
  bad = bad
  m1 = m1
  m2 = m2
  a1 = a1
  a2 = a2
  c1 = c1
  c2 = c2
  raw = raw
  Absent = Absent
  None = None
  Nobody = Nobody
  LastFile = 2
  Bodies = {b1, b2}
  AsText <- MCAsText
  Meanings = {m1, m2}
  Invalid = Invalid
  Means <- MCMeans
  EmptyBody = b1
  EmptyMeaning = m1
  MaxCommits = 2
  CommitsCanBeLost = TRUE
  ArtifactNames = {a1, a2}
  Contents = {c1, c2, raw}
  Undecodable = {raw}
  ReadText <- MCReadText
  Candidates <- MCFewCandidates
  CanDrift = TRUE
  CanAbandon = TRUE
  Processes = {p1}
  Written <- MCHeaders
  Plannable <- MCFewPlannable
  Generated <- MCFewGenerated
  OutsideWrites = FALSE
  ProcessesEnd = TRUE
SPECIFICATION FairSpec
INVARIANTS
  TypeOK
  InSyncIsTrue
PROPERTIES
  OperationsEnd
