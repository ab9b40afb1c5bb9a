CONSTANTS
  t1 = t1  t2 = t2  t3 = t3
  i1 = i1  i2 = i2
  alice = alice  mallory = mallory
  regulator = regulator  retailer = retailer
  Txns <- MCTxns
  Ids <- MCIds
  Actors <- MCActors
  Nonces <- MCNonces
  Actions <- MCActions
  Registered <- MCRegistered
  Gated <- MCGated
  NumAnchors <- MCNumAnchors
  Granted <- MCGranted
  Unlimited = Unlimited
  Approvers <- MCApprovers
  Regulators <- MCRegulators
  Requests <- MCRequests
  MaxTime = 2
  PoolSize = 3
  NoRow = NoRow
  NoTxn = NoTxn
  NoApproval = NoApproval
  Undecided = Undecided
SPECIFICATION Spec
SYMMETRY Symmetry
INVARIANTS
  ExecutedAtMostOnce
  ParkedCanResume
  ConfirmedReplyIsDurable
  EffectsAreAnchored
PROPERTIES
  DecisionsAreFinal
  ImplementsGate
