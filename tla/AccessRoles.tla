----------------------------- MODULE AccessRoles ----------------------------
(***************************************************************************)
(* AccessControl of OpenZeppelin, as the contracts use it: one role each,  *)
(* given to the admin by the constructor, and onlyRole on every entry      *)
(* point that writes.                                                      *)
(***************************************************************************)
EXTENDS Naturals

CONSTANTS
  Zero,      \* bytes32(0), and address(0)
  Accounts,  \* accounts that send transactions, and the facade contract
  Admin,     \* the account that deploys
  Network    \* the facade, CommodityNetwork

ASSUME AccountsAssumption == {Admin, Network} \subseteq Accounts

VARIABLE roles  \* role -> accounts that hold it

Roles == {"registrar", "issuer", "products", "batches", "assets", "transfer", "lifecycle",
          "policies", "prover", "verifiers", "compliance", "operator"}

RolesInit == roles = [r \in Roles |-> {Admin}]

Holds(a, role) == a \in roles[role]

GrantRole(a, role) == ~Holds(a, role) /\ roles' = [roles EXCEPT ![role] = @ \cup {a}]
RevokeRole(a, role) == Holds(a, role) /\ roles' = [roles EXCEPT ![role] = @ \ {a}]
=============================================================================
