CONSTANTS
  Texts <- MCTexts
  Submissions <- MCSubmissions
  Elevated <- MCElevated
  Attempts = 2
  Deadline = 2
  Scenarios <- MCScenarios
  Chunks <- MCChunks
  Watched <- MCWatched
  MaxSent = 3
SPECIFICATION Spec
INVARIANTS TypeOK OwnExpectation VerdictIsOfStream
PROPERTY TimeoutsAreReal
CHECK_DEADLOCK FALSE
