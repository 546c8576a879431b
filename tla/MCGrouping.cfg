CONSTANTS
  Capacity = 1
  Size = 1
  Gap = 1
  MaxInput = 5
  Hits <- MCHits
  MCRecords = {r1, r2, r3, r4, r5}
SYMMETRY MCSymmetry
SPECIFICATION Spec
INVARIANTS
  HitsConserved
  OrderedWithinSize
  ClustersPartitionTheHits
  CutAtEveryGap
