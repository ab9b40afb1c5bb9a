------------------------------ MODULE MCChain ------------------------------
(***************************************************************************)
(* What leaves the database, in small instances side by side: the          *)
(* contracts, the ledger that sends transactions to them, and the outbox   *)
(* of events.  A behaviour is one of them.                                 *)
(***************************************************************************)
EXTENDS CommodityContracts, ChainLedger, Outbox, TLC

CONSTANTS admin, network, alice, d1, d2, b1, b2, b3, b4, beef, pork, x1, x2,
          t1, t2, t3, u1, u2, u3, u4, n1, n2, ref, other, x, y, z, w1, w2, e1, e2

VARIABLE part

MCMaxTxs == "people" :> 5 @@ "goods" :> 4 @@ "batches" :> 4 @@ "judgement" :> 6
MCSymmetry == Permutations({b2, b3, b4}) \cup Permutations({w1, w2}) \cup Permutations({e1, e2})

\* Two attempts to spend a note, and the spend of another one.
MCTransfers == {t1, t2, t3}
MCOld == t1 :> n1 @@ t2 :> n1 @@ t3 :> n2
\* Two batches under one reference; under another, a batch that has the root
\* of the first, as the last leaf of an odd layer is doubled; and an empty one.
MCUploads == {u1, u2, u3, u4}
MCUploaded == u1 :> [ref |-> ref, items |-> <<x, y, z>>]
           @@ u2 :> [ref |-> ref, items |-> <<x, y>>]
           @@ u3 :> [ref |-> other, items |-> <<x, y, z, z>>]
           @@ u4 :> [ref |-> ref, items |-> <<>>]

\* What the proofs assume, for these instances.
ASSUME PartsAssumption == LedgerAssumption /\ HashAssumption /\ OutboxAssumption

PartsInit == Init /\ LedgerInit /\ QueueInit

ContractsStep == part = "contracts" /\ Next /\ UNCHANGED <<part, ledger, outbox>>
LedgerStep    == part = "ledger" /\ LedgerNext /\ UNCHANGED <<part, vars, outbox>>
OutboxStep    == part = "outbox" /\ QueueNext /\ UNCHANGED <<part, vars, ledger>>

OnLedger  == part = "ledger" /\ PartsInit /\ group = "people"
OnOutbox  == part = "outbox" /\ PartsInit /\ group = "people"
PartInit == (part = "contracts" /\ PartsInit) \/ OnLedger \/ OnOutbox
PartNext == ContractsStep \/ LedgerStep \/ OutboxStep
PartSpec  == PartInit /\ [][PartNext]_<<part, vars, ledger, outbox>>
OnLedgerSpec == OnLedger /\ [][LedgerStep]_<<part, vars, ledger, outbox>>
=============================================================================
