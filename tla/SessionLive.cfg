CONSTANTS
  NumCommands = 2
  Owners = {o1}
  Shared = FALSE
  Policies = {"QUEUE"}
  Clocks = {TRUE, FALSE}
  Accesses = {a1}
  Budgeted = {2}
  DriverErrors = {"SessionProtocolError"}
SPECIFICATION FairSpec
INVARIANTS TypeOK FastPathWaitsForNoCommand AccessFollowsCommands
PROPERTIES StopSettles CloseEnds EverySubmissionSettles
\* a session ends for good
CHECK_DEADLOCK FALSE
