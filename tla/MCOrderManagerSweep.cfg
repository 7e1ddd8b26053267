\* Crossing orders that sweep more than one level, as by default.
SPECIFICATION OmSpec
CONSTANTS
  PriceLevels = 3
  MaxU32 = 8
  Lanes = 2
  Simd = FALSE
  RefIds = {1, 2, 3}
  NullRef = 0
  Locates = {1}
  RefCapacity = 3
  MsgQtys = {1}
  MsgPrices = {1, 2}
  TradePrices = {1}
  NoOrder = NoOrder
  NoBook = NoBook
  Locate = 1
  OwnQtys = {2}
  OwnPrices = {}
  MaxSubmits = 3
  EntryCross = TRUE
  CrossTicks = 2
CONSTRAINT Bounded
INVARIANT PositionIsLogged
