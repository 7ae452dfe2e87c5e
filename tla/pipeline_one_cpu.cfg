\* One processor: hardware_concurrency() - 1 = 0 workers.
SPECIFICATION FairSpec
CONSTANTS
  num_workers_ = 0
  SlotsPerWorker = 4
  max_size_ = 0
  Files <- SmallFiles
  Refusals = {0}
PROPERTIES
  Termination
