\* Up to six values, duplicates included: three levels, the last one partly
\* filled.
SPECIFICATION FairSpec
CONSTANTS
  Values = {1, 2, 3, 4}
  NoValue = 0
  Capacities = {3}
  MaxSize = 6
INVARIANTS
  TypeOK
  HeapOrder
PROPERTIES
  PromiseSpec
  OperationsEnd
