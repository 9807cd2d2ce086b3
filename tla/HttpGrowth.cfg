SPECIFICATION MCSpec
CONSTANTS
  Versions <- mcVersions
  StaticTable <- mcStatic
  NoValue = ""
  Streams = {1, 3}
  Reps <- mcReps
  Outcomes <- mcOutcomes
  SettingIds = {"HEADER_TABLE_SIZE"}
  Limits <- mcLimits
  Requested = {0, 2}
  Defaults <- mcDefaults
  InitialMax = 3
  MaxBody = 2
  FrameHead = 1
  BlockSizes = {2}
  ControlSize <- mcControl
  BufferSize = 12
  MaxReads = 2
  MaxFrames = 2
  FieldNames = {"Date", "Server", "Content-Length", "Host"}
  Unknown = "X-Other"
  MaxFields = 3
  Values <- mcValues
  Bodies <- mcBodies
  static_huffman <- mcHuffman
  Characters = {5, 6, 48, 65, 88, 97}
  MaxText = 3
  Numbers = {1, 14, 15, 16, 30, 31, 62, 63, 64, 126, 127, 128, 200, 254, 255, 300, 20000}
INVARIANTS AnswersSurviveGrowth
CHECK_DEADLOCK FALSE
