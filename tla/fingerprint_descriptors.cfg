\* More files than the process may have open.
SPECIFICATION Spec
CONSTANTS
  HalfWord = 4
  num_workers_ = 2
  Descriptors = 1
  Inputs <- ThreeFiles
INVARIANT AnyNumberOfFiles
