SPECIFICATION FairSpec
CONSTANTS
  Receipts = {r1, r2}
  Provers = {p1}
  MaxReceipts = 1
  AppSetsTimeout = FALSE
  DebugBuild = FALSE
  None = None
INVARIANT SentIsWatched
PROPERTIES EveryReceiptConcludes ConcludedIsForgotten EveryCallRuns
