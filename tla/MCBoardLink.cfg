SPECIFICATION LinkSpec
CONSTANTS
  PayloadDn = 4
  MsgMaxBytes = 4
  Garbles = {2, 90, 165}
  Bodies = {1, 2}
  MaxFrames = 2
CHECK_DEADLOCK FALSE
INVARIANTS
  
  SnapshotIsReal
  VerifiedIsDelivered
PROPERTY
  BridgeReturns
