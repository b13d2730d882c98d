SPECIFICATION FairSpec
CONSTANTS
  Track <- Rows
  Kind <- Kinds
  Attachments <- Queued
  Files <- SomeFiles
  MaxTick = 5
  MaxSeeks = 2
  MaxAllocs = 1
INVARIANTS
  Delivery
  WalkHonest
PROPERTIES
  LatchesHold
  WalkEnds
