SPECIFICATION MCSpec
CONSTANTS
  Loggers = {"a", "b"}
  Cap = 4
  EntrySizes = {2}
  MaxEntries = 2
  Letters = {"%", "d", "u", "c", "f", "v", "h", "l", "n", "_"}
  MaxFormat = 4
  Times = {0, 1, 2, 3}
  buffer_time = 2
  MaxRead = 4
  Threads = {1, 2}
  Names = {"m"}
  Keys = {"k"}
  Items = {"v"}
  MaxMaps = 2
  MaxNodes = 2
  MaxCalls = 5
  Characters = {"/", "a", "b", "c"}
  Paths <- mcPaths
  Requests <- mcRequests
  emptyvalue = 0
  MaxPaths = 3
  TlsReadCap = 2
  RecordSizes = {1, 3}
  MaxRecords = 4
  MaxOutput = 3
  Clients = {"c1", "c2"}
  UdpReadCap = 3
  DatagramSizes = {0, 1, 2}
  MaxDatagrams = 3
  NoClient = "none"
  ObjectNames = {"x"}
  ServerNames = {"s", "t"}
  References = {"x", "y"}
  Processors = 2
  ThreadCounts <- mcThreadCounts
  ServerThreads = {1, 2}
  Files = {"f"}
  Directory = "dir"
  DefaultFile = "f"
  FileSizes = {1, 3}
  max_size = 4
  Unit = 2
  Radix = 3
  SizeValues = 8
  MaxVersions = 2
INVARIANTS
  LogComplete ReaderFaithful CacheSound FileCacheSound
  PrefixSound TlsWakesUp UdpServerLives ConfigResolved
CHECK_DEADLOCK FALSE
