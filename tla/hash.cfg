\* Files of up to 37 bytes in blocks of two and chunks of four; where fstat fails,
\* sizes below, within and beyond what the file has pages for.
SPECIFICATION HashSpec
CONSTANTS
  BLOCK_LEN = 2
  CHUNK_LEN = 4
  SimdDegrees = {1, 2, 4}
  Byte <- MCByte
  Inputs <- MCInputs
  Garbage = {0, 3, 19}
  PAGE = 8
INVARIANTS
  HashTypeOK
  DigestsOfFiles
  NothingHeld
  UpdatesCompose
