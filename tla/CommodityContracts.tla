------------------------- MODULE CommodityContracts -------------------------
(***************************************************************************)
(* The contracts of the MVP as one system: a step is a transaction that    *)
(* succeeds, or the passing of time; one that reverts changes nothing.     *)
(* The registries fall into four groups that share no storage and meet     *)
(* only in the roles: people, goods, batches, and judgement.  A behaviour  *)
(* uses the contracts of one group, which is all that a property of that   *)
(* group can depend on.                                                    *)
(***************************************************************************)
EXTENDS BatchRegistry, ComplianceContracts

CONSTANTS
  Dids,         \* DIDs, zero among them
  Credentials,  \* credential ids
  Products,     \* product type ids
  Assets,       \* asset ids, which ownership and lifecycle use too
  States,       \* lifecycle states that transactions name, OWNED and RESOLD among them
  Quantities,   \* quantities that transactions name
  Times,        \* times that policies and credentials name, zero among them
  MaxTxs,       \* bound: group -> transactions of a behaviour
  MaxTime       \* bound: block.timestamp

ASSUME ContractsAssumption == /\ Zero \notin Accounts
                              /\ Times \subseteq Nat /\ Quantities \subseteq Nat

VARIABLES
  group,         \* the group of this behaviour
  txs,           \* number of transactions so far
  paused,        \* IdentityRegistry is paused
  identities,    \* account -> [did, active]
  controllerOf,  \* DID -> account, or address(0)
  credentials,   \* id -> [status, expiresAt]
  products,      \* product ids on record
  assets,        \* asset ids on record, zero never
  ownershipOf,   \* asset -> [owner, transfers, c2c]
  stateOf        \* asset -> lifecycle state

people == <<paused, identities, controllerOf, credentials>>
goods == <<products, assets, ownershipOf, stateOf>>
vars == <<roles, now, stock, judgement, group, txs, people, goods>>

NoOwner == [owner |-> Zero, transfers |-> 0, c2c |-> 0]

Init == /\ RolesInit /\ StockInit /\ JudgementInit
        /\ group \in DOMAIN MaxTxs
        /\ txs = 0
        /\ paused = FALSE
        /\ identities = [a \in Accounts |-> [did |-> Zero, active |-> FALSE]]
        /\ controllerOf = [d \in Dids |-> Zero]
        /\ credentials = [c \in Credentials |-> [status |-> "NONE", expiresAt |-> 0]]
        /\ products = {} /\ assets = {}
        /\ ownershipOf = [a \in Assets |-> NoOwner]
        /\ stateOf = [a \in Assets |-> "NONE"]
-----------------------------------------------------------------------------
(* IdentityRegistry and CredentialRegistry.                                *)

RegisterIdentity(a, account, did) ==
  /\ Holds(a, "registrar") /\ ~paused
  /\ did # Zero
  /\ identities[account].did = Zero
  /\ controllerOf[did] = Zero
  /\ identities' = [identities EXCEPT ![account] = [did |-> did, active |-> TRUE]]
  /\ controllerOf' = [controllerOf EXCEPT ![did] = account]
  /\ UNCHANGED <<paused, credentials>>

SetActive(a, account, active) ==
  /\ Holds(a, "registrar")
  /\ identities[account].did # Zero
  /\ identities' = [identities EXCEPT ![account].active = active]
  /\ UNCHANGED <<paused, controllerOf, credentials>>

\* Of the admin; setting what is set reverts.
Pause == paused' = ~paused /\ UNCHANGED <<identities, controllerOf, credentials>>

\* Mutant: a credential that is not active can be issued.
IssueInactive(a, c, until) ==
  /\ Holds(a, "issuer")
  /\ credentials[c].status # "ACTIVE"
  /\ credentials' = [credentials EXCEPT ![c] = [status |-> "ACTIVE", expiresAt |-> until]]
  /\ UNCHANGED <<paused, identities, controllerOf>>

\* The hash of a credential is never zero.
Issue(a, c, until) ==
  /\ Holds(a, "issuer")
  /\ credentials[c].status = "NONE"
  /\ credentials' = [credentials EXCEPT ![c] = [status |-> "ACTIVE", expiresAt |-> until]]
  /\ UNCHANGED <<paused, identities, controllerOf>>

Revoke(a, c) ==
  /\ Holds(a, "issuer")
  /\ credentials[c].status = "ACTIVE"
  /\ credentials' = [credentials EXCEPT ![c].status = "REVOKED"]
  /\ UNCHANGED <<paused, identities, controllerOf>>
-----------------------------------------------------------------------------
(* ProductRegistry, AssetRegistry, OwnershipRegistry, LifecycleRegistry    *)
(* and executeTransfer of the facade.                                      *)

\* The id zero is written and still not on record.
OnRecord(ids) == ids \ {Zero}

RegisterProductType(a, p) ==
  /\ Holds(a, "products") /\ p \notin products
  /\ products' = OnRecord(products \cup {p})
  /\ UNCHANGED <<assets, ownershipOf, stateOf>>

\* The product of an asset is not looked up.
CreateAsset(a, asset) ==
  /\ Holds(a, "assets") /\ asset \notin assets
  /\ assets' = OnRecord(assets \cup {asset})
  /\ UNCHANGED <<products, ownershipOf, stateOf>>

\* Whether the asset is on record is not asked; a zero owner is none.
InitializeOwner(a, asset, did) ==
  /\ Holds(a, "transfer")
  /\ ownershipOf[asset].owner = Zero
  /\ ownershipOf' = [ownershipOf EXCEPT ![asset] = [NoOwner EXCEPT !.owner = did]]
  /\ UNCHANGED <<products, assets, stateOf>>

MoveOwnership(a, asset, did, c2c) ==
  /\ Holds(a, "transfer")
  /\ ownershipOf[asset].owner # Zero
  /\ did # Zero /\ did # ownershipOf[asset].owner
  /\ ownershipOf' = [ownershipOf EXCEPT ![asset] =
       [owner |-> did, transfers |-> @.transfers + 1, c2c |-> @.c2c + (IF c2c THEN 1 ELSE 0)]]
  /\ UNCHANGED <<products, assets>>

Transfer(a, asset, did, c2c) == MoveOwnership(a, asset, did, c2c) /\ UNCHANGED stateOf

\* Any state to any state, of any asset.
SetState(a, asset, next) == /\ Holds(a, "lifecycle")
                            /\ stateOf' = [stateOf EXCEPT ![asset] = next]

\* Both registries or neither.
ExecuteTransfer(a, asset, did, c2c) ==
  /\ Holds(a, "operator")
  /\ MoveOwnership(Network, asset, did, c2c)
  /\ SetState(Network, asset, IF c2c THEN "RESOLD" ELSE "OWNED")
-----------------------------------------------------------------------------
RolesOf(g) == CASE g = "people" -> {"registrar", "issuer"}
                [] g = "goods" -> {"products", "assets", "transfer", "lifecycle", "operator"}
                [] g = "batches" -> {"batches"}
                [] g = "judgement" -> {"policies", "prover", "verifiers", "compliance", "operator"}

SomeIds == UNION {[1..n -> Batches] : n \in 0..3}

People(a) ==
  \/ \E account \in Accounts, did \in Dids : RegisterIdentity(a, account, did)
  \/ \E account \in Accounts, active \in BOOLEAN : SetActive(a, account, active)
  \/ a = Admin /\ Pause
  \/ \E c \in Credentials, until \in Times : Issue(a, c, until)
  \/ \E c \in Credentials : Revoke(a, c)

Goods(a) ==
  \/ \E p \in Products : RegisterProductType(a, p)
  \/ \E asset \in Assets : CreateAsset(a, asset)
  \/ \E asset \in Assets, did \in Dids : InitializeOwner(a, asset, did)
  \/ \E asset \in Assets, did \in Dids, c2c \in BOOLEAN :
       Transfer(a, asset, did, c2c) \/ ExecuteTransfer(a, asset, did, c2c)
  \/ \E asset \in Assets, next \in States :
       /\ SetState(a, asset, next)
       /\ UNCHANGED <<products, assets, ownershipOf>>

Stock(a) ==
  \/ \E b \in Batches, t \in Types, q \in Quantities : CreateBatch(a, b, t, q)
  \/ \E p \in Batches, ids \in SomeIds, qs \in BoundedSeq(Quantities, 2) : SplitBatch(a, p, ids, qs)
  \/ \E ps \in SomeIds, child \in Batches :
       MergeBatches(a, ps, child, Quantity(ToSet(ps)))

Judgement(a) ==
  \/ \E p \in Policies, from, until \in Times : RegisterPolicy(a, p, from, until)
  \/ \E c \in Circuits, v \in Verifiers \cup {Zero} : SetVerifier(a, c, v)
  \/ \E p \in Proofs, c \in Circuits, verdict \in BOOLEAN : RecordProof(a, p, c, verdict)
  \/ \E r \in Results, p \in Policies, proof \in Proofs :
       RecordCompliance(a, r, p, proof) \/ ExecuteCompliance(a, r, p, proof)

\* The facade calls out in its entry points only.
Senders == Accounts \ {Network}

Grants == /\ \E account \in Accounts, role \in RolesOf(group) :
                GrantRole(account, role) \/ RevokeRole(account, role)
          /\ UNCHANGED <<people, goods, stock, now, judgement>>

Transaction ==
  /\ txs < MaxTxs[group]
  /\ txs' = txs + 1
  /\ UNCHANGED group
  /\ \/ Grants
     \/ /\ UNCHANGED roles
        /\ \E a \in Senders :
             \/ group = "people" /\ People(a) /\ UNCHANGED <<goods, stock, now, judgement>>
             \/ group = "goods" /\ Goods(a) /\ UNCHANGED <<people, stock, now, judgement>>
             \/ group = "batches" /\ Stock(a) /\ UNCHANGED <<people, goods, now, judgement>>
             \/ group = "judgement" /\ Judgement(a) /\ UNCHANGED <<people, goods, stock>>

Time == /\ now < MaxTime /\ group \in {"people", "judgement"}
        /\ Elapse
        /\ UNCHANGED <<roles, stock, group, txs, people, goods>>

\* Nobody has to send anything.
Terminated == txs = MaxTxs[group] /\ UNCHANGED vars

Next == Transaction \/ Time \/ Terminated

Spec == Init /\ [][Next]_vars
-----------------------------------------------------------------------------
(* Properties.                                                             *)

\* Goods are neither made nor lost by any sequence of splits and merges: per
\* product type the active batches hold what was created.  Inactive are those
\* that became others.  The batch of id zero, which no registry has on record
\* and which can be written again, is excepted: the property is about stock
\* that never held it.
BatchesConserved ==
  batches[Zero] = NoBatch =>
    /\ \A t \in Types : Quantity({b \in Batches : batches[b].active /\ batches[b].productId = t})
                        = created[t]
    /\ \A b \in Batches : Exists(b) => (batches[b].active <=> ~\E e \in lineage : e[1] = b)

PeopleStand ==
  /\ \A d \in Dids : controllerOf[d] # Zero =>
       controllerOf'[d] = controllerOf[d] /\ identities'[controllerOf[d]].did = d
  /\ \A c \in Credentials :
       credentials[c].status = "REVOKED" => credentials'[c] = credentials[c]

GoodsStand ==
  \A a \in Assets : ownershipOf[a].owner # Zero =>
    /\ ownershipOf'[a].owner # Zero
    /\ ownershipOf'[a].transfers = IF ownershipOf'[a].owner = ownershipOf[a].owner
                                   THEN ownershipOf[a].transfers
                                   ELSE ownershipOf[a].transfers + 1

StockStands ==
  \A b \in Batches : Exists(b) => batches'[b] \in {batches[b], Spent(b)}

JudgementStands ==
  /\ \A p \in Policies \ {Zero} : policies[p] # NoPolicy => policies'[p] = policies[p]
  /\ \A p \in Proofs \ {Zero} : proofs[p] # NoProof => proofs'[p] = proofs[p]
  /\ \A r \in Results : results[r] # NoResult => results'[r] = results[r]

\* What a registry has on record stands, whoever is given a role: a DID keeps
\* its account, a revoked credential is not issued again, an owned asset has an
\* owner from then on and counts every change of it, and policies, proofs,
\* results and batches are never written over but for a batch that is used up.
RecordsStand == [][PeopleStand /\ GoodsStand /\ StockStands /\ JudgementStands]_vars
=============================================================================
