------------------------- MODULE ComplianceContracts ------------------------
(***************************************************************************)
(* The contracts PolicyRegistry, ProofRegistry and ComplianceRegistry, and *)
(* executeCompliance of the facade, which asks the first two before it     *)
(* writes to the third.                                                    *)
(***************************************************************************)
EXTENDS AccessRoles

CONSTANTS
  Policies,  \* policy ids
  Proofs,    \* proof ids
  Results,   \* result ids
  Circuits,  \* circuit ids
  Verifiers  \* addresses of verifier contracts

ASSUME VerifiersAssumption == Zero \notin Verifiers

VARIABLES
  now,         \* block.timestamp
  policies,    \* id -> [policyId, effectiveAt, expiresAt, active]
  verifierOf,  \* circuit -> verifier, or address(0)
  proofs,      \* id -> [proofId, verified]
  results      \* id -> [policyId, proofId, checkedAt], and the caller as history

judgement == <<policies, verifierOf, proofs, results>>

NoPolicy == [policyId |-> Zero, effectiveAt |-> 0, expiresAt |-> 0, active |-> FALSE]
NoProof == [proofId |-> Zero, verified |-> FALSE]
NoResult == [policyId |-> Zero, proofId |-> Zero, checkedAt |-> 0, by |-> Zero]

JudgementInit == /\ now = 1
                 /\ policies = [p \in Policies |-> NoPolicy]
                 /\ verifierOf = [c \in Circuits |-> Zero]
                 /\ proofs = [p \in Proofs |-> NoProof]
                 /\ results = [r \in Results |-> NoResult]

RegisterPolicy(a, p, from, until) ==
  /\ Holds(a, "policies")
  /\ policies[p].policyId = Zero
  /\ policies' = [policies EXCEPT ![p] = [policyId |-> p, effectiveAt |-> from,
                                          expiresAt |-> until, active |-> TRUE]]
  /\ UNCHANGED <<now, verifierOf, proofs, results>>

\* An expiry of zero is none.
InForce(policy, t) == /\ policy.active
                      /\ policy.effectiveAt <= t
                      /\ policy.expiresAt # 0 => t < policy.expiresAt

SetVerifier(a, c, v) ==
  /\ Holds(a, "verifiers")
  /\ verifierOf' = [verifierOf EXCEPT ![c] = v]
  /\ UNCHANGED <<now, policies, proofs, results>>

\* Mutant: a proof id can be used again.
RecordProofAgain(a, p, c, verdict) ==
  /\ Holds(a, "prover")
  /\ verifierOf[c] # Zero
  /\ proofs' = [proofs EXCEPT ![p] = [proofId |-> p, verified |-> verdict]]
  /\ UNCHANGED <<now, policies, verifierOf, results>>

\* The verdict is the verifier's, who may change it from call to call; a
\* refuted proof is recorded too.
RecordProof(a, p, c, verdict) ==
  /\ Holds(a, "prover")
  /\ proofs[p].proofId = Zero
  /\ verifierOf[c] # Zero
  /\ proofs' = [proofs EXCEPT ![p] = [proofId |-> p, verified |-> verdict]]
  /\ UNCHANGED <<now, policies, verifierOf, results>>

\* recordCompliance asks neither registry.
RecordCompliance(a, r, p, proof) ==
  /\ Holds(a, "compliance")
  /\ results[r].checkedAt = 0
  /\ results' = [results EXCEPT ![r] = [policyId |-> p, proofId |-> proof,
                                        checkedAt |-> now, by |-> a]]
  /\ UNCHANGED <<now, policies, verifierOf, proofs>>

\* The facade is the caller of the registry it writes to.
ExecuteCompliance(a, r, p, proof) ==
  /\ Holds(a, "operator")
  /\ InForce(policies[p], now)
  /\ proofs[proof].verified
  /\ RecordCompliance(Network, r, p, proof)

\* A later block.
Elapse == now' = now + 1 /\ UNCHANGED judgement
-----------------------------------------------------------------------------
\* A result that the facade wrote stays proven: the policy it names was in
\* force when it was checked and the proof it names is verified, whatever the
\* holders of the roles of the three registries do later.  The id zero, which
\* the registries can write again, is excepted.
ResultsStayProven ==
  \A r \in Results :
    LET result == results[r] IN
    result.by = Network /\ Zero \notin {result.policyId, result.proofId} =>
      /\ InForce(policies[result.policyId], result.checkedAt)
      /\ proofs[result.proofId].verified
=============================================================================
