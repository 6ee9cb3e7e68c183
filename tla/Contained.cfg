CONSTANT Cancellations = 1
SPECIFICATION ProcessSpec
INVARIANT ContainedMeansClean
\* a session ends for good
CHECK_DEADLOCK FALSE
