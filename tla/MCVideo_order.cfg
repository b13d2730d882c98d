SPECIFICATION FairSpec
CONSTANTS
  MaxQueuedOutput = 1
  MaxPendingDecode = 2
  MaxPendingOutputs = 2
  MaxInflightBytes = 6
  MaxFrameBytes = 6
  CodecDepth = 2
  MaxInputPacketBytes = 2
  MaxInputInflightBytes = 3
  PacketBytes <- TwoSizes
  FrameBytes = {1, 3}
  MaxPackets = 3
  MaxEpoch = 1
INVARIANTS
  StreamWhole
  ReorderNeverStuck
  AccountsHonest
  ClosedMeansStopped
PROPERTIES
  ReopensFresh
  ImplementsRhythm
  CallsReturn
CHECK_DEADLOCK FALSE
