\* Two files of any of six hashes, sketches of four.
SPECIFICATION Spec
CONSTANTS
  K = 4
  MaxHash = 5
  Sizes = {0, 1, 2, 3, 4, 5, 6}
INVARIANTS
  TypeOK
  ExactWhenBothFit
  WithinUnit
  SameFilesMatch
  EstimateErrsUpwards
