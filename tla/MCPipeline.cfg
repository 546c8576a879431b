CONSTANTS
  Files <- MCFiles
  Inputs <- MCInputs
  Records = 6
  dinfo <- MCdinfo
  Entries = 512
  TimeWord = 32
  Capacity = 1
  Size = 1
  Gap = 200
  CoincidenceTime = 100
  DeadTime = 100
  SortTypes = {"coincidence", "gap"}
  Triggers = {"deDet"}
  WithTree = {TRUE}
SPECIFICATION FairSpec
INVARIANTS
  AnalysedEventsAreAPrefix
  OutputIsConsistent
PROPERTIES
  ImplementsThreadPool
  SortEnds
