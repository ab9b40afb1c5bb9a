CONSTANTS
  c1 = c1  c2 = c2  c3 = c3  c4 = c4
  ann = ann  bob = bob  eve = eve
  p = p  q = q  k1 = k1  k2 = k2  item = item
  Calls <- MCFourCalls
  Parties <- MCParties
  Batches <- MCBatches
  Assets <- MCAssets
  Stock <- MCStock
  Requests <- MCAllRequests
  Viewed <- MCViewed
  MaxInFlight = 2
  MaxCount = 2
  None = None
  Unwritten = Unwritten
SPECIFICATION MCSpec
INVARIANTS
  QuantityIsKept
  HistoryIsKept
  StateIsKept
  ViewsAreWhole
SYMMETRY CallSymmetry
