CONSTANTS NWriters = 2 NReaders = 2 Total = 3 Repeat = 2 EarlyClose = FALSE
SPECIFICATION FairSpec
INVARIANTS ChannelInv ExactlyOnce LeftAsInitialised
PROPERTIES Termination ImplementsRendezvous
