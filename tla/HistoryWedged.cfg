CONSTANTS
  LastFile = 2
  body = body
  meaning = meaning
  Bodies <- MCBodies
  Absent = Absent
  AsText <- MCAsText
  Meanings = {meaning}
  Invalid = Invalid
  Means <- MCMeans
  EmptyBody = body
  EmptyMeaning = meaning
  None = None
  MaxCommits = 2
  CommitsCanBeLost = TRUE
SPECIFICATION HistorySpec
CHECK_DEADLOCK FALSE
INVARIANTS
  SnapshotPossible
