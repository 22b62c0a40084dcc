SPECIFICATION Spec
CONSTANTS
  Readers = {x1, x2, x3}
  Rejectable = TRUE
  MaxTeardowns = 1
  DebugBuild = TRUE
  None = None
SYMMETRY Symmetry
INVARIANTS TypeOK NothingOvertakesEstablished EstablishedReadsActive WaitersAreServed RegisteredIsOpen OneGoodbye
PROPERTIES ClosedIsFinal
