CONSTANTS
  c1 = c1  c2 = c2  c3 = c3  c4 = c4
  farm = farm  lab = lab  other = other
  p = p  q = q  v1 = v1  v2 = v2  v3 = v3
  Calls <- MCFourCalls
  Parties <- MCParties
  Batches <- MCBatches
  Ids <- MCIds
  Types <- MCTypes
  Owner <- MCOwner
  Jurisdiction <- MCJurisdiction
  Category <- MCCategory
  Catalogue <- MCCatalogue
  Domains <- MCDomains
  Claims <- MCClaims
  Held <- MCHeld
  Requests <- MCRequests
  MaxInFlight = 2
  None = None
  Never = Never
SPECIFICATION Spec
INVARIANTS
  RevokedOnce
  LedgerFollowsTables
  RevocationIsFinal
PROPERTY RecallFollows
SYMMETRY MCSymmetry
