\* Files of two lines, each with two fields of two values.
SPECIFICATION Spec
CONSTANTS
  Limit = 4
  Files <- TwoRecords
INVARIANT ChangesShow
