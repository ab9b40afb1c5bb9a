---------------------------- MODULE BatchRegistry ---------------------------
(***************************************************************************)
(* The BatchRegistry contract: batches are created, split and merged.  A   *)
(* batch is on record when its stored id is not zero, so the batch of id   *)
(* zero is on record never, and can be written again and again.            *)
(***************************************************************************)
EXTENDS AccessRoles, FiniteSets, SequencesExt

CONSTANTS
  Batches,  \* ids of batches that transactions name, zero among them
  Types     \* product ids

ASSUME BatchesAssumption == IsFiniteSet(Batches) /\ Zero \in Batches

VARIABLES
  batches,  \* id -> [batchId, productId, quantity, active]
  lineage,  \* childrenOf and parentsOf: pairs of parent and child
  created   \* history: product id -> quantity that was created of it

stock == <<batches, lineage, created>>

NoBatch == [batchId |-> Zero, productId |-> Zero, quantity |-> 0, active |-> FALSE]
Batch(b, product, q) == [batchId |-> b, productId |-> product, quantity |-> q, active |-> TRUE]

StockInit == /\ batches = [b \in Batches |-> NoBatch]
             /\ lineage = {}
             /\ created = [t \in Types |-> 0]

Exists(b) == batches[b].batchId # Zero
Quantity(S) == SumFunctionOnSet([b \in Batches |-> batches[b].quantity], S)
Spent(b) == [batches[b] EXCEPT !.active = FALSE]

CreateBatch(a, b, product, q) ==
  /\ Holds(a, "batches")
  /\ ~Exists(b)
  /\ q > 0
  /\ batches' = [batches EXCEPT ![b] = Batch(b, product, q)]
  /\ created' = [created EXCEPT ![product] = @ + q]
  /\ UNCHANGED lineage

\* The children are written one by one; of two with one id, which only zero
\* can be, the last stays.
LastQuantity(ids, qs, b) == LET i == CHOOSE i \in DOMAIN ids :
                                       ids[i] = b /\ \A j \in DOMAIN ids : ids[j] = b => j <= i
                            IN qs[i]
Written(parent, ids, qs) ==
  [b \in Batches |-> IF b \in ToSet(ids)
                     THEN Batch(b, batches[parent].productId, LastQuantity(ids, qs, b))
                     ELSE batches[b]]

\* Mutant: the children are not summed up.
SplitUnsummed(a, parent, ids, qs) ==
  /\ Holds(a, "batches")
  /\ Len(ids) = Len(qs) /\ Len(ids) > 0
  /\ batches[parent].active
  /\ \A i \in DOMAIN ids : ~Exists(ids[i]) /\ qs[i] > 0
  /\ \A i, j \in DOMAIN ids : i # j /\ ids[i] = ids[j] => ids[i] = Zero
  /\ LET after == Written(parent, ids, qs)
     IN batches' = [after EXCEPT ![parent].active = FALSE]
  /\ lineage' = lineage \cup ({parent} \X ToSet(ids))
  /\ UNCHANGED created

\* The sum is compared with the parent as it is after the children were
\* written.
SplitBatch(a, parent, ids, qs) ==
  /\ Holds(a, "batches")
  /\ Len(ids) = Len(qs) /\ Len(ids) > 0
  /\ batches[parent].active
  /\ \A i \in DOMAIN ids : ~Exists(ids[i]) /\ qs[i] > 0
  /\ \A i, j \in DOMAIN ids : i # j /\ ids[i] = ids[j] => ids[i] = Zero
  /\ LET after == Written(parent, ids, qs)
     IN /\ SumFunction(qs) = after[parent].quantity
        /\ batches' = [after EXCEPT ![parent].active = FALSE]
  /\ lineage' = lineage \cup ({parent} \X ToSet(ids))
  /\ UNCHANGED created

\* Every parent becomes inactive before the next one is looked at, so that a
\* parent named twice reverts.
MergeBatches(a, parents, child, q) ==
  /\ Holds(a, "batches")
  /\ parents # <<>> /\ q > 0
  /\ ~Exists(child)
  /\ IsInjective(parents)
  /\ \A p \in ToSet(parents) : /\ batches[p].active
                               /\ batches[p].productId = batches[parents[1]].productId
  /\ Quantity(ToSet(parents)) = q
  /\ batches' = [b \in Batches |->
                   IF b = child THEN Batch(b, batches[parents[1]].productId, q)
                   ELSE IF b \in ToSet(parents) THEN Spent(b) ELSE batches[b]]
  /\ lineage' = lineage \cup (ToSet(parents) \X {child})
  /\ UNCHANGED created
=============================================================================
