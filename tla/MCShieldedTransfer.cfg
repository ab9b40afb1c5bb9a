CONSTANTS
  c1 = c1  c2 = c2  c3 = c3
  n1 = n1  n2 = n2  m1 = m1  m2 = m2  m3 = m3
  Clients <- MCClients
  Items <- MCItems
  Unique <- MCUnique
  NoClient = NoClient
  NoItem = NoItem
  Notes <- MCNotes
  Deposits <- MCDeposits
  Fresh <- MCFresh
  Claims <- MCClaims
SPECIFICATION FairSpec
INVARIANTS
  ValueConserved
  SpentOnce
  SpendsAreAnchored
  ChainMatchesRows
PROPERTIES
  ImplementsLog
  EveryTransferEnds
