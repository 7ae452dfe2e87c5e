\* Two workers, sketches of two hashes, every file of up to four values.
SPECIFICATION Spec
CONSTANTS
  K = 2
  MaxHash = 3
  num_workers_ = 2
  Inputs <- ShortFiles
INVARIANTS
  TypeOK
  SketchIsSmallest
  SeenIsHeap
