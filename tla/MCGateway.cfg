SPECIFICATION Spec
CONSTANTS
  c1 = c1
  c2 = c2
  Calls = {c1, c2}
  Keys <- MCKeys
  Kinds <- MCKinds
  NoKey = "none"
  Ids <- MCIds
  ByteRank <- MCByteRank
  Collation <- MCCollation
  Nonces <- MCNonces
  Capacity = 2
  DidTexts = {"did:vg:a", "did:vg:b"}
  HashTexts = {"h32"}
  WordTexts = {"sold"}
  Datasets = {"shielded:extra", "other"}
  PolicyIds = {"p"}
  PolicyVersions = {1}
  PolicyTerms = {"t1", "t2"}
  StoredIntents <- MCIntents
  Requests <- MCRequests
  MaxArrivals <- MCMaxArrivals
  Drift = 1
  MaxNow <- MCMaxNow
  MaxRestarts <- MCMaxRestarts
SYMMETRY Slots
CHECK_DEADLOCK FALSE
INVARIANTS
  InterfacesAgree
  OldestIsForgottenFirst
  EffectsAreAuthorised
  DocumentsSucceed
  NoDanglingAnchor
