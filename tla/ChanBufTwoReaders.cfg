CONSTANTS NWriters = 1 NReaders = 2 Total = 2 Cap = 2 Modulus = 16 EarlyClose = FALSE
SPECIFICATION FairSpec
PROPERTIES Termination
