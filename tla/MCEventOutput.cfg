CONSTANTS
  NUM_SI_DE_TEL = 8
  NoTrigger = NoTrigger
  Garbage = Garbage
  Emin = 500
  Estep = 1000
  TooHigh = 1000000
  prompt <- MCprompt
  background <- MCbackground
  particle_gate <- MCparticle_gate
  ex_a0 <- MCex_a0
  ex_a1 <- MCex_a1
  ex_a2 <- MCex_a2
  Sn = 2000
  coefficients <- MCcoefficients
  Libraries <- MCLibraries
  Tables <- MCTables
  MAX_ENTRIES = 4
  TRACE_MAX_LENGTH = 8
  Triggers = {"deDet", "labr", "eDet", "qint"}
  Hits <- MCHits
  MaxEvents = 2
SPECIFICATION Spec
INVARIANTS
  RangesAreComplete
  RangeFollowsTable
  EachGammaCountedOnce
  ParticlesAreUnambiguous
  OnlyTheTriggerIsNotTimed
  TreeRowsAreTheEvents
  CascadesCarryTheExcitation
  PairsInBothDirections
  GatedTriplesClose
\* the events come to an end
CHECK_DEADLOCK FALSE
