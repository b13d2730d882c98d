SPECIFICATION FairSpec
CONSTANTS
  MaxQueuedOutput = 1
  MaxPendingDecode = 2
  MaxPendingOutputs = 2
  MaxInflightBytes = 5
  MaxFrameBytes = 2
  CodecDepth = 1
  MaxInputPacketBytes = 2
  MaxInputInflightBytes = 4
  PacketBytes <- ThreeSizes
  DataBytes = {1, 2}
  MaxPackets = 3
  MaxEpoch = 1
INVARIANTS
  OutputsAccounted
PROPERTIES
  ImplementsRhythm
  CallsReturn
CHECK_DEADLOCK FALSE
