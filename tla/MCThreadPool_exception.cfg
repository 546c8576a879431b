CONSTANTS
  N = 3
  Capacity = 1
  Records = 2
  MaxEmit = 1
  MaxDrain = 1
  Drivers <- WaitOnly
  Throwing <- SecondTask
SPECIFICATION FairSpec
PROPERTY ExceptionsLeadToReturn
