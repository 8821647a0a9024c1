SPECIFICATION Spec
CONSTANTS
  Builders = {b1, b2}
  NoFile = NoFile
  MaxCommits = 2
  MaxBuilds = 2
  MaxRuns = 2
SYMMETRY MCSymmetry
INVARIANTS
  ReceiptNamesSources
  SnapshotIsFrozen
  WorkloadIsAsReceipted
  OfficialIsStamped
CHECK_DEADLOCK FALSE
