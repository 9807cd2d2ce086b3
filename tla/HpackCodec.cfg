SPECIFICATION CodecSpec
CONSTANTS
  static_huffman <- mcHuffman
  Characters = {5, 6, 48, 65, 88, 97}
  MaxText = 3
  Numbers = {1, 14, 15, 30, 31, 62, 63, 126, 127, 200, 300, 20000}
INVARIANTS
  HeaderCodingRoundTrip
CHECK_DEADLOCK FALSE
