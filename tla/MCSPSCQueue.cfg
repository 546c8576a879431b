CONSTANTS
  a = a
  b = b
  NoItem = NoItem
  Items <- MCItems
  Capacity = 2
  MaxPush = 5
  Ops <- AllOps
SPECIFICATION FairSpec
INVARIANTS
  TypeOK
  NoSlotRace
  NoLostWakeup
  FinishSeenMeansDrained
PROPERTIES
  ImplementsFifo
  PushCompletes
  EverythingDelivered
  TimedWaitReturns
\* pop() and the untimed wait_and_pop() sleep for good on an empty queue
CHECK_DEADLOCK FALSE
