CONSTANTS NWorkers = 2 NTasks = 1
SPECIFICATION FairSpec
INVARIANTS PoolInv FuturesFreed ExecutedAtMostOnce FlagsTellOutcome
PROPERTIES GetReturns
CHECK_DEADLOCK FALSE
