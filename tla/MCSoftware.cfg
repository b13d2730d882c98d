SPECIFICATION Spec
CONSTANTS
  Backends = {"sw"}
  Depth <- Deep
  Refusals = {"budget"}
  Ceiling <- Ceilings
  Sources <- SomeSources
  MaxPackets = 5
INVARIANTS
  FramesKept
  CarriedHonest
PROPERTIES
  RhythmKept
