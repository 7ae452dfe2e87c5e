\* Two producers, three consumers, a queue with two slots.
SPECIFICATION FairSpec
CONSTANTS
  Producers = {p1, p2}
  Consumers = {c1, c2, c3}
  PerProducer = 2
  max_size_ = 2
INVARIANTS
  TypeOK
  SleepersAreWaiting
  NoLostWakeup
  FIFO
PROPERTIES
  DrainedIsFinal
  Termination
  ChannelSpec
