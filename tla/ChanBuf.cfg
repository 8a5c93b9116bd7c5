CONSTANTS NWriters = 2 NReaders = 1 Total = 3 Cap = 2 Modulus = 16 EarlyClose = FALSE
SPECIFICATION FairSpec
INVARIANTS RingInv SlotExclusive
PROPERTIES Termination ImplementsFifo
