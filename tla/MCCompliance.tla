---------------------------- MODULE MCCompliance ----------------------------
(* Small instances of Compliance for TLC. *)
EXTENDS Compliance, TLC

CONSTANTS c1, c2, c3, c4, farm, lab, other, p, q, v1, v2, v3

MCFourCalls == {c1, c2, c3, c4}
MCParties == {farm, lab, other}
MCBatches == {p, q}
MCIds == {v1, v2, v3}
MCTypes == {"inspection", "origin"}
MCOwner == p :> farm @@ q :> None

Needs(types, edges, effective, expires) ==
  [credentials |-> types, proofs |-> {}, transitions |-> edges, on |-> TRUE,
   effective |-> effective, expires |-> expires]

\* An inspection is needed from the start, a certificate of origin for a while.
\* Elsewhere, and for other goods, other policies hold.
MCCatalogue ==
  {[jurisdiction |-> "eu", category |-> "food",
    policy |-> Needs({"inspection"}, {<<"recalled", "available">>}, 0, Never)],
   [jurisdiction |-> "eu", category |-> "food",
    policy |-> Needs({"origin"}, {<<"available", "sold">>}, 2, 4)],
   [jurisdiction |-> "eu", category |-> "toys", policy |-> Needs(MCTypes, {}, 0, Never)],
   [jurisdiction |-> "us", category |-> "food", policy |-> Needs(MCTypes, {}, 0, Never)]}
MCJurisdiction == farm :> "eu" @@ lab :> "us" @@ other :> None
MCCategory == [b \in MCBatches |-> "food"]

\* Food safety asks an inspection for its result.
MCClaims == {"result"}
MCDomains == "safety" :> ("inspection" :> {"result"})

Credential(holder, ctype, expires) ==
  [issuer |-> lab, holder |-> holder, ctype |-> ctype, expires |-> expires, status |-> "valid"]

MCHeld == v1 :> Credential(farm, "inspection", Never) @@ v2 :> Credential(farm, "origin", 3)
          @@ v3 :> None

Issue(id, by, ctype, domain, claims) ==
  [op |-> "issue", subject |-> p, by |-> by, id |-> id, holder |-> farm, ctype |-> ctype,
   expires |-> Never, domain |-> domain, claims |-> claims]
Revoke(id, by, subject) == [op |-> "revoke", subject |-> subject, by |-> by, id |-> id]
Move(to) == [op |-> "move", subject |-> p, to |-> to]

\* Issue of a second inspection, without a result, and of a credential in the
\* place of another; revocations, one by another party and one that names another batch, moves.
MCRequests == {Issue(v3, lab, "inspection", "safety", {"result"}),
               Issue(v3, lab, "inspection", "safety", {}),
               Issue(v1, other, "origin", None, {}),
               Revoke(v1, lab, p), Revoke(v2, lab, p), Revoke(v3, lab, p),
               Revoke(v3, other, p), Revoke(v1, lab, q),
               Move("available"), Move("destroyed")}

MCSymmetry == Permutations(Calls)
=============================================================================
