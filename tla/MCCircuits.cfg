CONSTANTS
  P = 5
  Rate = 2
  K = 2
  N = 2
  WordBits = 3
  Pow <- MCPow
  Trailer = 5
  Salts = {1, 6}
  Spare = {0, 1}
  ColdK = 3
  ColdP = 11
  M = 2
  Words <- MCWords
  MaxParts = 6
  MaxHeight = 8
  NoteWords = 1
  Limbs <- MCLimbs
  Laps = {0, 1}
  Order = 5
  Keccak <- MCKeccak
  Wallets <- MCWallets
  Regulators = {2}
  Assets = {"a"}
  Amounts = {0, 2, 4}
  Secrets = {1, 2, 3}
  AmountBits = 3
  LimbModulus = 2
  MaxNotes = 3
SPECIFICATION CircuitsSpec
INVARIANTS
  ComparisonIsOrder
  ProofsAreSound
  ClaimsAreProvable
  ReceivedCanBeSpent
  ExtraIsForRegulator
CHECK_DEADLOCK FALSE
