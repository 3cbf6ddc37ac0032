CONSTANTS
  RXSTOP = 11
  Preamble = 3
  Sizes = {4, 5}
  ByteValues = 4
  MaxPackets = 255
  MaxFrames = 3
SPECIFICATION Spec
INVARIANTS FramesInOrder ReadsOwnFrame BufferFreed FreeSizeIsReal
PROPERTY AllHanded
