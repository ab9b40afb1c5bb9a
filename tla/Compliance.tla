----------------------------- MODULE Compliance -----------------------------
(***************************************************************************)
(* Credentials and recall: the handlers that issue and revoke a credential *)
(* and recompute the compliance of one batch in the same transaction, next *)
(* to the handlers that move the batch along its lifecycle.                *)
(*                                                                         *)
(* A call is one transaction at READ COMMITTED; each step is a statement   *)
(* that sees what is committed when it runs and the call's own writes.  A  *)
(* call writes one credential row and the row of one batch, and waits for  *)
(* another that has written them.  The anchor at the end commits by        *)
(* itself.  Who owns a batch, the jurisdictions of the owners and the      *)
(* tables of policies and regulatory domains do not change here.           *)
(***************************************************************************)
EXTENDS LifecycleGraph, PolicyEngine, Sequences, FiniteSets

CONSTANTS
  Calls, Parties, Batches,
  Ids,          \* credential ids
  Types,        \* credential types
  Owner,        \* batch -> its owner, or None
  Jurisdiction, \* party -> the jurisdiction in its document, or None
  Category,     \* batch -> the category of its product
  Catalogue,    \* policies table: [jurisdiction, category, policy]
  Domains,      \* regulatory domains, by id: credential type -> the claims of its schema
  Claims,       \* keys of claims
  Held,         \* credentials issued earlier: id -> credential
  Requests,     \* the requests clients submit
  MaxInFlight,  \* calls open at a time (connections)
  None

CredStatuses == {"valid", "suspended", "revoked", "expired"}

Times == Nat \cup {Never}

Credentials == [issuer : Parties, holder : Parties, ctype : Types, expires : Times,
                status : CredStatuses]

PolicySet == [credentials : SUBSET Types, proofs : SUBSET {"cold_chain", "range"},
              transitions : SUBSET (LifecycleStates \X LifecycleStates),
              on : BOOLEAN, effective : Nat, expires : Times]

IssueRequests == [op : {"issue"}, subject : Batches, by : Parties, id : Ids,
                  holder : Parties, ctype : Types, expires : Times,
                  domain : DOMAIN Domains \cup {None, "unknown"}, claims : SUBSET Claims]
RevokeRequests == [op : {"revoke"}, subject : Batches, by : Parties, id : Ids]
MoveRequests == [op : {"move"}, subject : Batches, to : LifecycleStates]

\* The owner of a batch, and its jurisdiction, are known.
HasJurisdiction(b) == Owner[b] # None /\ Jurisdiction[Owner[b]] # None

\* policies_for: all of a jurisdiction for a category, active or not.
PoliciesFor(jurisdiction, category) ==
  {row.policy : row \in {r \in Catalogue : /\ r.jurisdiction = jurisdiction
                                           /\ r.category = category}}

Policies == [b \in Batches |-> IF HasJurisdiction(b)
                               THEN PoliciesFor(Jurisdiction[Owner[b]], Category[b]) ELSE {}]

ASSUME ComplianceAssumption ==
  /\ Never \notin Nat
  /\ None \notin Credentials /\ None \notin Parties /\ None \notin LifecycleStates
  /\ Owner \in [Batches -> Parties \cup {None}]
  /\ \A b \in Batches : Policies[b] \subseteq PolicySet
  /\ None \notin DOMAIN Domains
  /\ Held \in [Ids -> Credentials \cup {None}]
  /\ \A id \in Ids : Held[id] # None => Held[id].status = "valid"
  /\ Requests \subseteq IssueRequests \cup RevokeRequests \cup MoveRequests
  /\ MaxInFlight \in Nat

VARIABLES
  creds,    \* credentials table, committed
  goods,    \* batches table, committed: state, active and compliance_ok
  events,   \* lifecycle_events table
  outbox,   \* domain_events about credentials and recalls, a record for each call
  ledger,   \* the anchored statuses of each credential, in order
  begun,    \* calls begun so far: the clock
  calls

tables == <<creds, goods, events, outbox>>
vars == <<tables, ledger, begun, calls>>

Unborn == [status |-> "idle", step |-> "none", req |-> None, now |-> 0, alone |-> TRUE,
           vc |-> None, types |-> {}, from |-> None, to |-> None, active |-> FALSE]

\* A batch is registered as created, without events; what was issued earlier is
\* anchored.
Init ==
  /\ creds = Held
  /\ goods = [b \in Batches |-> [state |-> "created", active |-> TRUE, compliant |-> FALSE]]
  /\ events = {}
  /\ outbox = {}
  /\ ledger = [id \in Ids |-> IF Held[id] = None THEN <<>> ELSE <<"valid">>]
  /\ begun = 0
  /\ calls = [c \in Calls |-> Unborn]
-----------------------------------------------------------------------------
Open(c) == calls[c].status = "open"

At(c, step) == Open(c) /\ calls[c].step = step

Batch(c) == calls[c].req.subject

Become(c, call) == calls' = [calls EXCEPT ![c] = call]

Goto(c, step) == Become(c, [calls[c] EXCEPT !.step = step])

\* The call returns and its transaction ends; what it read is forgotten.
End(c) == Become(c, [Unborn EXCEPT !.status = "ended"])

\* Uncommitted writes, which lock their rows.
WroteCredential(c) ==
  /\ Open(c) /\ calls[c].req.op # "move"
  /\ calls[c].step \in {"assess", "state", "active", "mark", "anchor", "commit"}
WroteBatch(c) == Open(c) /\ calls[c].to # None /\ calls[c].step \in {"anchor", "commit"}

CredentialFree(c) ==
  \A d \in Calls \ {c} : WroteCredential(d) => calls[d].req.id # calls[c].req.id
BatchFree(c) == \A d \in Calls \ {c} : WroteBatch(d) => Batch(d) # Batch(c)

\* The credentials table as call c sees it.
Visible(c) == IF WroteCredential(c) THEN [creds EXCEPT ![calls[c].req.id] = calls[c].vc]
              ELSE creds

\* list_by_subject, and the types it proves at the call's time.
HeldBy(table, party) == {table[id] : id \in {i \in Ids : table[i] # None /\ table[i].holder = party}}

TypesOf(table, b, now) == EffectiveTypes(HeldBy(table, Owner[b]), now)

\* current_state: the latest event, or the row of a batch without events.
CurrentState(b) ==
  LET log == {e \in events : e.subject = b} IN
  IF log = {} THEN goods[b].state
  ELSE (CHOOSE e \in log : \A d \in log : d.now <= e.now).to
-----------------------------------------------------------------------------
(* The credential.                                                         *)

Begin(c, req) ==
  LET alone == \A d \in Calls : ~Open(d) IN
  /\ calls[c].status = "idle"
  /\ Cardinality({d \in Calls : Open(d)}) < MaxInFlight
  /\ begun' = begun + 1
  /\ calls' = [d \in Calls |->
       IF d # c THEN [calls[d] EXCEPT !.alone = IF Open(d) THEN FALSE ELSE @]
       ELSE [Unborn EXCEPT
               !.status = "open", !.req = req, !.now = begun + 1, !.alone = alone,
               !.step = CASE req.op = "issue" -> "insert"
                          [] req.op = "revoke" -> "find"
                          [] req.op = "move" -> "state"]]
  /\ UNCHANGED <<tables, ledger>>

NewCredential(req) == [issuer |-> req.by, holder |-> req.holder, ctype |-> req.ctype,
                       expires |-> req.expires, status |-> "valid"]

\* find_domain.
FindDomain(id) == IF id \in DOMAIN Domains THEN Domains[id] ELSE None

\* The schema check: a domain that is named must exist, and its schema for the
\* type, if it has one, asks for claims.
SchemaHolds(req) ==
  req.domain # None =>
    /\ FindDomain(req.domain) # None
    /\ req.ctype \in DOMAIN FindDomain(req.domain) =>
         FindDomain(req.domain)[req.ctype] \subseteq req.claims

\* Mutant: saving a credential replaces what has its id.
InsertOrReplace(c) ==
  /\ At(c, "insert")
  /\ CredentialFree(c)
  /\ Become(c, [calls[c] EXCEPT !.step = "assess", !.vc = NewCredential(calls[c].req)])
  /\ UNCHANGED <<tables, ledger, begun>>

\* The schema check, then INSERT of the new credential: it waits for an uncommitted one with its id,
\* and a committed one is a conflict.
Insert(c) ==
  LET req == calls[c].req IN
  /\ At(c, "insert")
  /\ SchemaHolds(req) => CredentialFree(c)
  /\ IF ~SchemaHolds(req) \/ creds[req.id] # None THEN End(c)
     ELSE Become(c, [calls[c] EXCEPT !.step = "assess", !.vc = NewCredential(req)])
  /\ UNCHANGED <<tables, ledger, begun>>

\* VerifiableCredential::transition: what its issuer may do.
MayTransition(vc, to, by) ==
  /\ by = vc.issuer
  /\ <<vc.status, to>> \in {"valid", "suspended"} \X {"valid", "suspended", "revoked"}
  /\ vc.status # to

\* find, and the decision on what it returned.
Find(c) ==
  LET vc == creds[calls[c].req.id] IN
  /\ At(c, "find")
  /\ IF vc # None /\ MayTransition(vc, "revoked", calls[c].req.by)
     THEN Become(c, [calls[c] EXCEPT !.step = "update", !.vc = vc])
     ELSE End(c)
  /\ UNCHANGED <<tables, ledger, begun>>

\* Mutant: the update does not compare the status.
UpdateBlindly(c) ==
  /\ At(c, "update")
  /\ CredentialFree(c)
  /\ Become(c, [calls[c] EXCEPT !.step = "assess", !.vc.status = "revoked"])
  /\ UNCHANGED <<tables, ledger, begun>>

\* UPDATE ... WHERE status = expected: it waits for an uncommitted update of the
\* row and then compares again; no row updated is an error.
UpdateStatus(c) ==
  /\ At(c, "update")
  /\ CredentialFree(c)
  /\ IF creds[calls[c].req.id].status # calls[c].vc.status THEN End(c)
     ELSE Become(c, [calls[c] EXCEPT !.step = "assess", !.vc.status = "revoked"])
  /\ UNCHANGED <<tables, ledger, begun>>
-----------------------------------------------------------------------------
(* The recomputation of compliance, and moves along the lifecycle.         *)

\* assess: the credentials of the batch's owner.
Assess(c) ==
  /\ At(c, "assess")
  /\ IF ~HasJurisdiction(Batch(c)) THEN End(c)
     ELSE Become(c, [calls[c] EXCEPT !.step = "state",
                       !.types = TypesOf(Visible(c), Batch(c), calls[c].now)])
  /\ UNCHANGED <<tables, ledger, begun>>

\* Where a recomputation takes a batch from a state: a batch whose owner lacks
\* a credential is recalled, and a recalled one is made available again if a
\* policy names that edge and all that do permit it.
Recomputed(b, from, types, now) ==
  LET policies == Policies[b]
      missing == Missing(policies, types, now)
  IN CASE missing # {} /\ from \notin Final \cup {"recalled"} -> "recalled"
       [] /\ missing = {} /\ from = "recalled"
          /\ Applicable(policies, "recalled", "available", now) # {}
          /\ Permits(policies, types, "recalled", "available", now) -> "available"
       [] OTHER -> None

\* Mutant: what is missing matters only for goods on sale.
RecomputeOnSale(c) ==
  LET call == calls[c]
      from == CurrentState(Batch(c))
      to == IF from = "available" THEN Recomputed(Batch(c), from, call.types, call.now) ELSE None
  IN
  /\ At(c, "state") /\ call.req.op # "move"
  /\ Become(c, [call EXCEPT !.from = from, !.to = to,
                  !.step = IF to = None THEN "anchor" ELSE "active"])
  /\ UNCHANGED <<tables, ledger, begun>>

\* recompute_compliance: current_state, and one of three branches.
Recompute(c) ==
  LET call == calls[c]
      from == CurrentState(Batch(c))
      to == Recomputed(Batch(c), from, call.types, call.now)
  IN
  /\ At(c, "state") /\ call.req.op # "move"
  /\ Become(c, [call EXCEPT !.from = from, !.to = to, !.active = TRUE,
                  !.step = CASE to = None -> "anchor"
                             [] to = "recalled" -> "active"
                             [] to = "available" -> "mark"])
  /\ UNCHANGED <<tables, ledger, begun>>

\* A handler that moves the batch reads its state,
ReadState(c) ==
  /\ At(c, "state") /\ calls[c].req.op = "move"
  /\ Become(c, [calls[c] EXCEPT !.from = CurrentState(Batch(c)), !.step = "policy"])
  /\ UNCHANGED <<tables, ledger, begun>>

\* asks the policies (enforce_transition_policy) and then the lifecycle graph.
CheckPolicy(c) ==
  LET call == calls[c]
      b == Batch(c)
      types == TypesOf(creds, b, call.now)
  IN
  /\ At(c, "policy")
  /\ IF /\ HasJurisdiction(b)
        /\ Permits(Policies[b], types, call.from, call.req.to, call.now)
        /\ MayBecome(call.from, call.req.to)
     THEN Become(c, [call EXCEPT !.to = call.req.to, !.step = "active"])
     ELSE End(c)
  /\ UNCHANGED <<tables, ledger, begun>>

\* find_batch: what becomes of active.  A recall keeps it.
ReadActive(c) ==
  LET to == calls[c].to IN
  /\ At(c, "active")
  /\ Become(c, [calls[c] EXCEPT !.step = "mark",
                  !.active = (to = "available") \/ (to # "delisted" /\ goods[Batch(c)].active)])
  /\ UNCHANGED <<tables, ledger, begun>>

\* update_batch_state, and update_batch_compliance of a recomputation.
Mark(c) ==
  /\ At(c, "mark")
  /\ BatchFree(c)
  /\ Goto(c, IF calls[c].req.op = "move" THEN "commit" ELSE "anchor")
  /\ UNCHANGED <<tables, ledger, begun>>

\* Mutant: the anchor is forgotten.
SkipAnchor(c) ==
  /\ At(c, "anchor")
  /\ Goto(c, "commit")
  /\ UNCHANGED <<tables, ledger, begun>>

\* The credential's new status is anchored last, and stays whatever follows.
Anchor(c) ==
  /\ At(c, "anchor")
  /\ ledger' = [ledger EXCEPT ![calls[c].req.id] = Append(@, calls[c].vc.status)]
  /\ Goto(c, "commit")
  /\ UNCHANGED <<tables, begun>>

\* The event that the recomputation adds to the outbox.
Announced(call) ==
  CASE call.to = "recalled" -> "recalled"
    [] call.to = "available" -> "restored"
    [] call.to = None /\ call.from = "recalled"
       /\ Missing(Policies[call.req.subject], call.types, call.now) = {} -> "withheld"
    [] OTHER -> None

\* The batch in its new state (record_transition, or the move): only a
\* recomputation has a verdict.
Recorded(call, row) ==
  [state |-> call.to, active |-> call.active,
   compliant |-> IF call.req.op = "move" THEN row.compliant ELSE call.to = "available"]

Commit(c) ==
  LET call == calls[c]
      b == Batch(c)
  IN
  /\ At(c, "commit")
  /\ creds' = Visible(c)
  /\ outbox' = outbox \cup (IF call.req.op = "move" THEN {}
                             ELSE {[op |-> call.req.op, id |-> call.req.id, call |-> c,
                                    announced |-> Announced(call)]})
  /\ IF call.to = None THEN UNCHANGED <<goods, events>>
     ELSE /\ goods' = [goods EXCEPT ![b] = Recorded(call, @)]
          /\ events' = events \cup
               {[subject |-> b, from |-> call.from, to |-> call.to, now |-> call.now]}
  /\ End(c)
  /\ UNCHANGED <<ledger, begun>>

\* A statement or the anchor fails, or the process dies:
\* nothing is committed, and what was anchored stays.
Fail(c) == /\ Open(c)
           /\ End(c)
           /\ UNCHANGED <<tables, ledger, begun>>

Terminated == (\A c \in Calls : calls[c].status = "ended") /\ UNCHANGED vars

Serve(c) == \/ Insert(c) \/ Find(c) \/ UpdateStatus(c)
            \/ Assess(c) \/ Recompute(c) \/ ReadState(c) \/ CheckPolicy(c)
            \/ ReadActive(c) \/ Mark(c) \/ Anchor(c) \/ Commit(c)

Next == \/ \E c \in Calls : (\E req \in Requests : Begin(c, req)) \/ Serve(c) \/ Fail(c)
        \/ Terminated

Spec == Init /\ [][Next]_vars
-----------------------------------------------------------------------------
(* Properties.                                                             *)

Steps == {"none", "insert", "find", "update", "assess", "state", "policy", "active", "mark",
          "anchor", "commit"}

\* The types of the tables, the ledger and the calls.
TypeOK ==
  /\ creds \in [Ids -> Credentials \cup {None}]
  /\ goods \in [Batches -> [state : LifecycleStates, active : BOOLEAN, compliant : BOOLEAN]]
  /\ events \subseteq [subject : Batches, from : LifecycleStates, to : LifecycleStates, now : Nat]
  /\ outbox \subseteq [op : {"issue", "revoke"}, id : Ids, call : Calls,
                      announced : {"recalled", "restored", "withheld", None}]
  /\ ledger \in [Ids -> Seq(CredStatuses)]
  /\ begun \in Nat
  /\ calls \in [Calls -> [status : {"idle", "open", "ended"}, step : Steps,
                          req : Requests \cup {None}, now : Nat, alone : BOOLEAN,
                          vc : Credentials \cup {None}, types : SUBSET Types,
                          from : LifecycleStates \cup {None}, to : LifecycleStates \cup {None},
                          active : BOOLEAN]]

\* Of overlapping revocations of a credential one succeeds, and only one
\* CredentialRevoked event is written.
RevokedOnce == \A d, e \in outbox :
  d.op = "revoke" /\ e.op = "revoke" /\ d.id = e.id => d = e

\* The ledger, where consumers look a credential up, has its issue and its
\* revocation by the time the tables show them.
LedgerFollowsTables == \A id \in Ids : creds[id] # None =>
  \E i \in DOMAIN ledger[id] : ledger[id][i] = creds[id].status

\* On the ledger a revocation is final, whatever calls overlapped, failed after
\* their anchor or were repeated: nothing but revocations follows it.
RevocationIsFinal == \A id \in Ids : \A i, j \in DOMAIN ledger[id] :
  ledger[id][i] = "revoked" /\ i < j => ledger[id][j] = "revoked"

\* A batch is recalled, or final, or its owner has what the policies require.
Enforced(b, now) ==
  \/ CurrentState(b) \in Final \cup {"recalled"}
  \/ Missing(Policies[b], TypesOf(creds, b, now), now) = {}

Recomputes(c) == Commit(c) /\ calls[c].req.op # "move"

\* An issue or a revocation that overlapped no other call leaves its batch
\* recalled, or final, or in order.
RecallFollows == [][\A c \in Calls : Recomputes(c) /\ calls[c].alone =>
  \A b \in {Batch(c)}, now \in {calls[c].now} : Enforced(b, now)']_vars

=============================================================================
