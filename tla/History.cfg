CONSTANTS
  LastFile = 3
  body = body
  meaning = meaning
  Bodies <- MCBodies
  Absent = Absent
  AsText <- MCAsText
  Meanings = {meaning}
  Invalid = Invalid
  Means <- MCMeans
  EmptyBody = body
  EmptyMeaning = meaning
  None = None
  MaxCommits = 3
  CommitsCanBeLost = TRUE
SPECIFICATION HistorySpec
INVARIANTS
  SnapshotExact
  SnapshotCovers
