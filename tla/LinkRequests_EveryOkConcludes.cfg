SPECIFICATION FairSpec
CONSTANTS
  Requests = {r1}
  MaxAnswers = 0

PROPERTIES EveryOkConcludes
