\* Two workers and two slots, every file of up to three chunks, chunks that
\* are not opened, and each of the calls failing.
SPECIFICATION FairSpec
CONSTANTS
  num_workers_ = 2
  SlotsPerWorker = 1
  max_size_ = 2
  Files <- SomeUnopened
  Refusals = {0, 1, 2, 3, 4}
INVARIANTS
  TypeOK
  DroppedOnlyAfterException
PROPERTIES
  ResultsSettled
  FoldSpec
