CONSTANTS
  NumCommands = 3
  Owners = {o1}
  Shared = FALSE
  Policies = {"REJECT", "QUEUE"}
  Clocks = {FALSE}
  Accesses = {}
  Budgeted = {2}
  DriverErrors = {"SessionProtocolError"}
SPECIFICATION Spec
INVARIANTS ExclusiveDriver BrokenRunsNothing CloseFindsNobody
PROPERTIES DamageIsPermanent UsesLease KeepsPromise
\* a session ends for good
CHECK_DEADLOCK FALSE
