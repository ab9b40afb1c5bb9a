-------------------------- MODULE MCIntentPipeline --------------------------
(* Small instances of IntentPipeline for TLC. *)
EXTENDS IntentPipeline, TLC

CONSTANTS t1, t2, t3, i1, i2, alice, mallory, regulator, retailer

MCTxns == {t1, t2, t3}
MCIds == {i1, i2}
MCActors == {alice, mallory}
MCNonces == {1, 2}
MCActions == {"create_batch", "transfer_product", "shielded_transfer", "mass_recall"}
MCRegistered == {"create_batch", "transfer_product", "shielded_transfer"}
MCGated == {"shielded_transfer", "mass_recall"}
MCNumAnchors == [a \in MCActions |->
   CASE a = "transfer_product" -> 1 [] a = "shielded_transfer" -> 2 [] OTHER -> 0]

\* Alice may transfer until 2, and without end if shielded; mallory was granted a
\* capability that does not help, and one that has lapsed.
Grant(agent, action, until) == [agent |-> agent, action |-> action, until |-> until]
MCGranted == {Grant(alice, "transfer_ownership", 2), Grant(alice, "submit_shielded_tx", Unlimited),
              Grant(mallory, "read_product", Unlimited), Grant(mallory, "create_batch", 0)}
MCApprovers == {regulator, retailer}
MCRegulators == {regulator}

Raw(id, action, actor, nonce, expires) ==
  [id |-> id, action |-> action, actor |-> actor, nonce |-> nonce, expires |-> expires]

\* A gated intent, a replay of its id with another payload, another id with
\* its nonce, an ungated intent and an actor without capability.
MCRequests == {Raw(i1, "shielded_transfer", alice, 1, 1),
               Raw(i1, "transfer_product", alice, 2, 2),
               Raw(i2, "transfer_product", alice, 1, 2),
               Raw(i2, "create_batch", mallory, 1, 2)}

\* Enough for an intent to be parked, replayed, approved and raced.
MCFewRequests == {Raw(i1, "shielded_transfer", alice, 1, 1), Raw(i2, "transfer_product", alice, 1, 2)}

Symmetry == Permutations(MCTxns)
=============================================================================
