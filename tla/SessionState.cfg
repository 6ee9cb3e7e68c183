SPECIFICATION Spec
CONSTANTS
  Operations = {1, 2, 3}
  Requests <- Every
  Names = {"n"}
  Values = {"a", "b", "c"}
  Inherited = "c"
INVARIANT CacheIsCurrent
PROPERTY CacheOnlyAdvances
\* every call may have been answered
CHECK_DEADLOCK FALSE
