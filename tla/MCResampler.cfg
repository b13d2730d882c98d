SPECIFICATION FairSpec
CONSTANTS
  SourceRate = 2
  TargetRate = 3
  Counts = {0, 1, 2}
  Stamps <- MCStamps
  MaxTick = 14
  MaxCount = 7
  MaxSamples = 6
  MaxTaken = 4
  MaxFaults = 1
INVARIANTS
  Timeline
PROPERTIES
  DrainEnds
