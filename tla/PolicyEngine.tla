---------------------------- MODULE PolicyEngine ----------------------------
(***************************************************************************)
(* The policy engine: what active policies ask of the holder of goods, and *)
(* whether they let a lifecycle transition pass.  Policies only add        *)
(* constraints: an edge that no active policy names is free.  Times are    *)
(* instants of one clock; an end is exclusive and may be absent (Never).   *)
(***************************************************************************)
EXTENDS Naturals

CONSTANT Never

Before(now, end) == end = Never \/ now < end

\* VerifiableCredential::is_effective.
IsEffective(vc, now) == vc.status = "valid" /\ Before(now, vc.expires)

\* The credential types that a set of credentials proves.
EffectiveTypes(vcs, now) == {vc.ctype : vc \in {vc \in vcs : IsEffective(vc, now)}}

IsActive(policy, now) ==
  policy.on /\ policy.effective <= now /\ Before(now, policy.expires)

\* The union of what the active policies require, whatever edges they name.
Required(policies, now) == UNION {p.credentials : p \in {p \in policies : IsActive(p, now)}}

Missing(policies, types, now) == Required(policies, now) \ types

Applicable(policies, from, to, now) ==
  {p \in policies : IsActive(p, now) /\ <<from, to>> \in p.transitions}

\* check_transition and enforce_policy, without proofs: no caller has any.
Permits(policies, types, from, to, now) ==
  \A p \in Applicable(policies, from, to, now) : p.credentials \subseteq types /\ p.proofs = {}
=============================================================================
