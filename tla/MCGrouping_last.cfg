CONSTANTS
  Capacity = 1
  Size = 1
  Gap = 1
  MaxInput = 2
  Hits <- MCHits
  MCRecords = {r1, r2, r3, r4, r5}
SYMMETRY MCSymmetry
SPECIFICATION Spec
INVARIANT EachClusterEmitted
