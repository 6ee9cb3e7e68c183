CONSTANTS
  NumCommands = 2
  Owners = {o1}
  Shared = FALSE
  Policies = {"REJECT", "QUEUE"}
  Clocks = {FALSE}
  Accesses = {}
  Budgeted = {2}
  DriverErrors <- AllErrors
SPECIFICATION Spec
INVARIANT StoppedMeansRequested
CHECK_DEADLOCK FALSE
