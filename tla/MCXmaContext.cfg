SPECIFICATION XmaSpec
CONSTANTS
  Kickers = {"game", "audio"}
  Blocks = 3
  PassBlocks = 1
  Padding = 0
  FrameBlocks = 2
  BufferFrames = 1
  Tails = {"whole"}
  MaxStreams = 1
PROPERTY TitleKeepsItsHalf
