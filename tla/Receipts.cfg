SPECIFICATION Spec
CONSTANTS
  Receipts = {r1, r2}
  Provers = {p1, p2}
  MaxReceipts = 1
  AppSetsTimeout = TRUE
  DebugBuild = TRUE
  None = None
SYMMETRY Symmetry
INVARIANTS TypeOK CalledExactlyOnce CallLedger PassBoundsList
PROPERTIES OneWay ImplementsContract
