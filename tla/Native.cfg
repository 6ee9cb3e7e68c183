CONSTANTS
  ChunkBytes = 2
  MaxBytes = 2
  TailBytes = 1
  Destinations = {"file", "memory"}
  Cancellations = 2
  Attempts = 2
  Plans <- MCPlans
SPECIFICATION FairSpec
INVARIANTS TypeOK EndOfOutputIsFinal ResultIsEarned ReusableIsClean ClosedLeavesNothing AuthenticationMeets CommittedIsDurable CompleteIsKept
PROPERTY SettlesInTime
\* a session ends for good
CHECK_DEADLOCK FALSE
