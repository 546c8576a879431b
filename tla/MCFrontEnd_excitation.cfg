CONSTANTS
  Capacity = 1
  Absent = Absent
  TimeWord = 8
  Entries = 512
  ArraySize = 3
  Rings = 2
  Files <- MCFiles
  Alphabetical <- MCAlphabetical
  Configurations <- MCConfigurations
  CommandLines <- MCCommandLines
  Runs <- MCRuns
SPECIFICATION Spec
INVARIANT DocumentedExcitationIsUsed
