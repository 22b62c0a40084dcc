SPECIFICATION FairSpec
CONSTANTS
  Readers = {x1, x2}
  Rejectable = FALSE
  MaxTeardowns = 2
  DebugBuild = FALSE
  None = None
PROPERTIES EveryReaderReleased EstablishmentConcludes SilentLinkCloses ClosedActorEnds
