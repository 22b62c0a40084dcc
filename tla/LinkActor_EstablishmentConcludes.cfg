SPECIFICATION FairSpec
CONSTANTS
  Readers = {x1, x2}
  Rejectable = TRUE
  MaxTeardowns = 2
  DebugBuild = FALSE
  None = None
PROPERTIES EstablishmentConcludes
