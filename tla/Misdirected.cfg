CONSTANTS
  Commands = {1, 2}
  Calls <- MCCalls
  None = None
SPECIFICATION Spec
INVARIANT InputIsOwn
\* the commands and their operations end
CHECK_DEADLOCK FALSE
