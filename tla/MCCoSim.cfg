SPECIFICATION CoSpec
CONSTANTS
  PriceLevels = 5
  MaxU32 = 5
  Lanes = 2
  Simd = FALSE
  RefIds = {r1, r2, r3}
  NullRef = NullRef
  Locates = {1, 2}
  RefCapacity = 2
  MsgQtys = {0, 1, 2, 3}
  MsgPrices = {0, 1, 4, 5}
  TradePrices = {1}
  BasePrice = 2
  SymSpacing = 1
  Tick = 1
  BandTicks = 2
  MinPrice = 1
  GenMaxPrice = 4
  MaxShares = 2
  Inventory = 1
  MaxLive = 2
  NoOrder = NoOrder
  NoBook = NoBook
CHECK_DEADLOCK FALSE
SYMMETRY Symmetry
INVARIANTS
  TypeOK
  LevelsMatchRefs
  BestIsExtreme
  RollbacksUnreachable
  CleanRunsAgree
  GeneratorKeepsStep
  NeverCrossed
PROPERTIES
  RejectIsAtomic
  ExecutionsLeaveTheBook
