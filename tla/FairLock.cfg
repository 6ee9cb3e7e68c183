CONSTANT Clients = {c1, c2, c3, c4}
SPECIFICATION FairSpec
INVARIANTS MutualExclusion NoLostWakeup
PROPERTIES NoOvertaking EveryWaitEnds
\* every client may have had its turn
CHECK_DEADLOCK FALSE
