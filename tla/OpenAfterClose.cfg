CONSTANTS
  NumCommands = 2
  Owners = {o1}
  Shared = TRUE
  Policies = {"REJECT", "QUEUE"}
  Clocks = {FALSE}
  Accesses = {}
  Budgeted = {2}
  DriverErrors <- AllErrors
SPECIFICATION Spec
INVARIANT ClosePreventsSubmissions
CHECK_DEADLOCK FALSE
