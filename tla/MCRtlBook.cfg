SPECIFICATION BookSpec
CONSTANTS
  TableSize = 4
  MaxProbe = 2
  Refs = {r1, r2}
  Home <- MCHome
  PriceLevels = 4
  SharesMod = 8
  PriceMod = 8
  AutoInit = TRUE
  Prices = {1, 3, 5}
  AddQtys = {2}
  TakeQtys = {1, 2}
  CfgBases = {3}
INVARIANTS
  BookConsistent
  MessagesAreWhole
  CommitAgrees
PROPERTY
  EveryMessageCommits
