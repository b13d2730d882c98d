SPECIFICATION ScaledSpec
CONSTANTS
  Extents <- TwoShapes
  Sizes <- FourSizes
  Ratios <- SomeRatios
  Formats = {"nv12", "p010"}
  Threads = {"a", "b"}
  MaxInt = 3
INVARIANTS
  WordHonest
  ScaledRight
