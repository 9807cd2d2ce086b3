SPECIFICATION TlsSpec
CONSTANTS
  TlsReadCap = 2
  RecordSizes = {1, 3}
  MaxRecords = 4
  MaxOutput = 3
INVARIANT HandshakeIsRetried
CHECK_DEADLOCK FALSE
