CONSTANTS
  a1 = a1
  a2 = a2
  c1 = c1
  c2 = c2
  raw = raw
  ArtifactNames = {a1, a2}
  Contents = {c1, c2, raw}
  Absent = Absent
  Undecodable = {raw}
  ReadText <- MCReadText
  Candidates <- MCCandidates
  None = None
  CanDrift = TRUE
  CanAbandon = TRUE
SPECIFICATION FairLoadedSpec
INVARIANTS
  NeverReloadsPartial
  RunsWholeSet
PROPERTY
  NativeApplied
