\* Two own orders among two market orders at two price levels, under a clean feed.
SPECIFICATION FillSpec
CONSTANTS
  PriceLevels = 3
  MaxU32 = 6
  Lanes = 2
  Simd = FALSE
  RefIds = {1, 2}
  NullRef = 0
  Locates = {1}
  RefCapacity = 2
  MsgQtys = {1, 2}
  MsgPrices = {1, 2}
  TradePrices = {1}
  NoOrder = NoOrder
  NoBook = NoBook
  Locate = 1
  OwnQtys = {2}
  OwnPrices = {1, 2}
  MaxSubmits = 2
CONSTRAINT UntilUnclean
INVARIANT FillInv
PROPERTIES
  PriceTimePriority
  FillsShareExecution
  OwnFifo
  SweepIsBestFirst
