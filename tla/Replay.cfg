SPECIFICATION FairSpec
CONSTANTS
  LineCount = 4
  Times <- TwoTimes
  MaxTime = 3
  ChanCapacity = 1
  Parallelism = 2
  MaxLateness = 1
INVARIANTS
  KeepsPace
  ReplayComplete
  NeverStuck
PROPERTIES
  SignalEndsReplay
  ImplementsPool
