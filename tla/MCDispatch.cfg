SPECIFICATION SlotsSpec
CONSTANTS
  Decoders = {"audio", "video"}
  Rebuilding = {"audio"}
  MaxSlots = 12
  MaxDepth = 2
INVARIANTS
  SlotsAreOwned
  HandlersApart
PROPERTIES
  FreedStaysSilent
CHECK_DEADLOCK FALSE
