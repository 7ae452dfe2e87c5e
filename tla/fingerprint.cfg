\* Two workers or one thread, two files and more, words of three bits.
SPECIFICATION Spec
CONSTANTS
  HalfWord = 4
  num_workers_ = 2
  Descriptors = 2
  Inputs <- AllFiles
INVARIANTS
  TypeOK
  PrintsTheSum
  OutputInOrder
  FingerprintOfEachFile
