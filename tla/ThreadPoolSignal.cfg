CONSTANTS NWorkers = 1 NTasks = 1
SPECIFICATION FairSpec
PROPERTIES ResultBecomesAvailable
CHECK_DEADLOCK FALSE
