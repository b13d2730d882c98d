SPECIFICATION Spec
CONSTANTS
  Backends = {"hw", "sw"}
  Depth <- HwDeep
  Refusals = {}
  Paths = {"auto"}
  Spares = 0
  ReplayCap = 2
  MaxAttempts = 2
  MaxPackets = 3
PROPERTIES
  RetryFallsBack
