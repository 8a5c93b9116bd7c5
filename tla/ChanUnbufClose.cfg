CONSTANTS NWriters = 1 NReaders = 1 Total = 1 Repeat = 1 EarlyClose = TRUE
SPECIFICATION FairSpec
PROPERTIES DecrementReleasesWaiter
CHECK_DEADLOCK FALSE
