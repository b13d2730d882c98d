SPECIFICATION FairSpec
CONSTANTS
  Backends = {"hw", "sw"}
  Depth <- SwDeep
  Refusals = {"budget"}
  Paths = {"auto", "anyHardware", "hardware", "software"}
  Spares = 1
  ReplayCap = 3
  MaxAttempts = 2
  MaxPackets = 4
INVARIANTS
  NothingLost
  InOrderOnce
  FallbackAllOrNothing
PROPERTIES
  ImplementsRhythm
  CallsReturn
