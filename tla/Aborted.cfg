CONSTANTS
  p1 = p1
  p2 = p2
  b1 = b1
  b2 = b2
  crlf = crlf
  bad = bad
  m1 = m1
  m2 = m2
  a1 = a1
  a2 = a2
  c1 = c1
  c2 = c2
  raw = raw
  Absent = Absent
  None = None
  Nobody = Nobody
  LastFile = 2
  Bodies = {b1, b2}
  AsText <- MCAsText
  Meanings = {m1, m2}
  Invalid = Invalid
  Means <- MCMeans
  EmptyBody = b1
  EmptyMeaning = m1
  MaxCommits = 2
  CommitsCanBeLost = TRUE
  ArtifactNames = {a1, a2}
  Contents = {c1, c2}
  Undecodable = {}
  ReadText <- MCReadText
  Candidates <- MCCandidates
  CanDrift = FALSE
  CanAbandon = TRUE
  Processes = {p1}
  Written <- MCHeaders
  Plannable <- MCPlannable
  Generated <- MCGenerated
  OutsideWrites = FALSE
  ProcessesEnd = TRUE
SPECIFICATION CommandSpec
INVARIANTS
  AbortedIsUnchanged
