SPECIFICATION FairSpec
CONSTANTS
  ReadCap = 2
  SndCap = 2
  MaxIn = 3
  MaxOut = 6
  MaxBufs = 2
  BufSizes = {0, 1, 3}
INVARIANTS
  TypeOK QueueContiguous InputAccounted OutputWakesUp
PROPERTIES
  StreamSpec OutputDrains InputRead
CHECK_DEADLOCK FALSE
