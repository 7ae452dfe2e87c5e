\* Files of up to two documents of a few values, 2^63 being 4.
SPECIFICATION Spec
CONSTANTS
  Limit = 4
  Files <- MCFiles
INVARIANTS
  TypeOK
  EachValueOnce
  EquivalentFilesAgree
  DocumentsToldApart
