SPECIFICATION FeedSpec
CONSTANTS
  WordBytes = 4
  UdpHdr = 6
  MoldHdr = 5
  MsgMaxBytes = 6
  BodyLens = {2, 5}
  EndCount = 255
  PartialSizes = {1}
  Payloads <- MCPayloads
  MaxSeq = 3
  MaxDatagrams = 3
INVARIANT IngestInv
PROPERTIES
  DeliveredInOrder
  EverythingDelivered
