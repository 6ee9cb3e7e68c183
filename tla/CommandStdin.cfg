CONSTANTS
  Commands = {1, 2}
  Calls <- MCCalls
  None = None
SPECIFICATION Spec
INVARIANTS SubmissionsAreWhole FirstChunkIsOwn SummaryIsHonest
PROPERTY ClosedIsFinal
\* the commands and their operations end
CHECK_DEADLOCK FALSE
