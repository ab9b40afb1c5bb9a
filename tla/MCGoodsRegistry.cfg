CONSTANTS
  c1 = c1  c2 = c2  c3 = c3  c4 = c4
  ann = ann  bob = bob  eve = eve
  p = p  q = q  k1 = k1  k2 = k2  item = item
  Calls <- MCThreeCalls
  Parties <- MCParties
  Batches <- MCBatches
  Assets <- MCAssets
  Stock <- MCStock
  Requests <- MCRequests
  MaxInFlight = 2
  MaxCount = 2
  None = None
  Unwritten = Unwritten
SPECIFICATION FairSpec
INVARIANTS
  OwnerIsLastReceiver
  OriginIsUnique
PROPERTY EveryCallEnds
