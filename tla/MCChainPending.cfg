CONSTANTS
  admin = admin  network = network  alice = alice
  d1 = d1  d2 = d2  x1 = x1  x2 = x2
  b1 = b1  b2 = b2  b3 = b3  b4 = b4  beef = beef  pork = pork
  Zero = zero  Nothing = zero  ZeroRoot = zero
  Accounts = {admin, network}
  Admin = admin
  Network = network
  Batches = {zero, b1, b2, b3, b4}
  Types = {beef, pork}
  Dids = {zero, d1, d2}
  Credentials = {x1, x2}
  Products = {zero, x1}
  Assets = {zero, x1}
  States = {"CREATED", "OWNED", "RESOLD"}
  Policies = {x1}
  Proofs = {zero, x1}
  Results = {x1}
  Circuits = {x1}
  Verifiers = {x1}
  Quantities = {0, 1, 2}
  MaxTxs <- MCMaxTxs
  MaxTime = 2
  Times = {0, 2}
  t1 = t1  t2 = t2  t3 = t3
  u1 = u1  u2 = u2  u3 = u3  u4 = u4
  n1 = n1  n2 = n2  ref = ref  other = other
  x = x  y = y  z = z
  Transfers <- MCTransfers
  Old <- MCOld
  Uploads <- MCUploads
  Uploaded <- MCUploaded
  MaxCalls = 3
  w1 = w1  w2 = w2  e1 = e1  e2 = e2
  Writers = {w1, w2}
  Dispatchers = {e1, e2}
  Limit = 2
  MaxEvents = 4
  MaxLost = 1
SPECIFICATION OnLedgerSpec
INVARIANT ReceiptsMeanSuccess
