SPECIFICATION Spec
CONSTANTS
  p1 = p1
  k1 = k1
  t1 = t1
  e1 = e1
  v1 = v1
  v2x = v2x
  Pattern = {p1}
  Key = {k1}
  Team = {t1}
  Email = {e1}
  Value = {v1, v2x}
  NoRow = NoRow
  MaxId = 2
  ForeignKeys = FALSE
  StartDb <- MCStartDb
  MaxEdits = 1
  Job = {j1, j2}
  Old = {old}
  StartArchive <- MCStartArchive
  Torn = Torn
  NoFile = NoFile
  Second = {s1}
  MaxSuffix = 2
  Sources <- MCSources
  MaxImports = 2
  MaxBulk = 2
SYMMETRY Symmetry
INVARIANTS
  RestoreMerges
  ImportIsComplete
PROPERTIES
  ArchivesStand
  ImportNeverClobbers
CHECK_DEADLOCK FALSE
