CONSTANTS
  p1 = p1
  p2 = p2
  p3 = p3
  None = None
  Absent = Absent
  Processes = {p1, p2, p3}
  SchemaVersion = 1
  OtherVersions = {2}
  MaxRecords = 3
SPECIFICATION Spec
INVARIANTS
  SchemaWhole
  RecordWhole
  ReadsForward
PROPERTIES
  OtherVersionKept
  RecordsInOneStep
