CONSTANTS
  N = 4
  Capacity = 1
  Records = 2
  MaxEmit = 1
  MaxDrain = 2
  Drivers <- BothDrivers
  Throwing <- SecondTask
SPECIFICATION FairSpec
INVARIANTS
  TypeOK
  ConsumerOutlivesProducer
  SourceReadsEverything
  CountersReadAfterExit
PROPERTY WaitReturns
\* after DoEnd() a task may push into a full queue for good
CHECK_DEADLOCK FALSE
