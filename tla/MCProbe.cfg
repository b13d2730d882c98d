SPECIFICATION FairSpec
CONSTANTS
  Backends = {"vaapi", "cuda", "d3d11va"}
  Order <- ThreeBackends
  Depth <- Depths
  Refusals = {"ceiling", "budget"}
  MaxProbePackets = 3
  MaxProbeBytes = 3
  MaxPendingFrames = 1
  PacketBytes <- Sizes
  MaxUnallocated = 1
  MaxPackets = 4
INVARIANTS
  FedWholeHistory
  HandsBackEverything
  FramesWhole
  AnswersHonest
PROPERTIES
  ImplementsRescue
  CallsReturn
CHECK_DEADLOCK FALSE
