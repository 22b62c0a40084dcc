SPECIFICATION FairSpec
CONSTANTS
  Frames = {f1, f2, f3}
  Writers = {w1, w2}
  Registrars = {r1, r2}
  Depth = 2
  None = None
  Shutdown = Shutdown
INVARIANTS TypeOK InOrderNoLoss RegisteredWriterServes
PROPERTIES RetiredWriterExits
