SPECIFICATION CarriersSpec
CONSTANTS
  Buffers = {1, 2, 3}
  Handles = {t1, t2, t3}
  Padding = 1
  Budget = 2
  CallerShapes <- OfCallers
  FileShapes <- OfFiles
SYMMETRY AnyHandle
INVARIANTS
  LentBytesStand
  DecoderStaysInside
  NothingStrays
