CONSTANTS
  Chunks <- MCChunks
  Calls <- MCCalls
  MatchBytes = 2
  EventQueue = 2
  Subscribers = {s1}
  MaxOutput = 4
SPECIFICATION FairSpec
INVARIANTS TypeOK NoSilentLoss MatchesAreReal SleepersHaveNothing
PROPERTY FinishReleasesEveryone
\* every subscriber and expectation may have come to an end
CHECK_DEADLOCK FALSE
