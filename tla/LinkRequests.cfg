SPECIFICATION FairSpec
CONSTANTS
  Requests = {r1, r2}
  MaxAnswers = 2
INVARIANTS TypeOK ConcludesOnce NothingDropped PendingIsDriven
PROPERTIES AcceptedConcludes
