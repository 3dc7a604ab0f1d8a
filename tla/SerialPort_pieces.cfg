CONSTANTS
  Length <- Lengths
  OutCap = 2
  Byte <- Bytes
  InCap = 3
  ReadMax = 2
  BufSize = 8
  MinPkg = 3
  Mark = 46
  MaxBytes = 4
  MaxAlarms = 1
SPECIFICATION FairSpec
INVARIANTS TypeOK BoatGetsMessages BufferHoldsLastText
PROPERTIES MessagesPass
CHECK_DEADLOCK FALSE
