\* Files of up to seven bytes, with newlines anywhere, cut into chunks of every
\* size up to four, zero included.
SPECIFICATION FairSpec
CONSTANTS
  MaxFileSize = 7
  ChunkSizes = {0, 1, 2, 3, 4}
INVARIANTS
  TypeOK
  EachByteOnce
  RecordsWhole
  CutInTime
PROPERTY Termination
