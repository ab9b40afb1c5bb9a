-------------------------- MODULE Compliance_proofs -------------------------
(***************************************************************************)
(* Theorems about credentials and recall, for any calls, batches,          *)
(* credentials and policies.                                               *)
(***************************************************************************)
EXTENDS Compliance, TLAPS

CallRecords == [status : {"idle", "open", "ended"}, step : Steps,
                req : Requests \cup {None}, now : Nat, alone : BOOLEAN,
                vc : Credentials \cup {None}, types : SUBSET Types,
                from : LifecycleStates \cup {None}, to : LifecycleStates \cup {None},
                active : BOOLEAN]

Writing == {"assess", "state", "active", "mark", "anchor", "commit"}

\* A call has an uncommitted credential.
Wrote(call) == call.status = "open" /\ call.req.op # "move" /\ call.step \in Writing

StepsOf(op) == CASE op = "issue"  -> {"insert"} \cup Writing
                 [] op = "revoke" -> {"find", "update"} \cup Writing
                 [] op = "move"   -> {"state", "policy", "active", "mark", "commit"}

\* What an open call knows: an issued credential is not in the table, a revoked
\* one is there and valid.
CallFacts(call) == call.status = "open" =>
  /\ call.req \in Requests /\ call.step \in StepsOf(call.req.op)
  /\ call.step = "update" => /\ call.vc \in Credentials /\ call.vc.status = "valid"
                             /\ creds[call.req.id] # None
  /\ call.step \in {"active", "mark"} => call.to # None
  /\ call.to # None \/ call.step = "policy" => call.from # None
  /\ Wrote(call) =>
       /\ call.vc \in Credentials
       /\ IF call.req.op = "issue"
          THEN call.vc.status = "valid" /\ creds[call.req.id] = None
          ELSE /\ call.vc.status = "revoked"
               /\ creds[call.req.id] # None /\ creds[call.req.id].status = "valid"

\* Before the commit the status is on the ledger.
Anchored(call) == call.status = "open" /\ call.step = "commit" /\ call.req.op # "move" =>
  \E i \in DOMAIN ledger[call.req.id] : ledger[call.req.id][i] = call.vc.status

Isolated == \A c, d \in Calls :
  Wrote(calls[c]) /\ Wrote(calls[d]) /\ calls[c].req.id = calls[d].req.id => c = d

CredentialRows == \A id \in Ids :
  /\ creds[id] # None => creds[id].status \in {"valid", "revoked"}
  /\ creds[id] = None => \A i \in DOMAIN ledger[id] : ledger[id][i] = "valid"

\* A revocation in the outbox is one in the table.
OutboxRows == \A e \in outbox : e.op = "revoke" =>
  creds[e.id] # None /\ creds[e.id].status = "revoked"

\* Each log has a latest event.
LogsHaveLast == \A b \in Batches : {e \in events : e.subject = b} # {} =>
  \E e \in events : e.subject = b /\ \A d \in events : d.subject = b => d.now <= e.now

Inv == /\ TypeOK
       /\ \A c \in Calls : CallFacts(calls[c])
       /\ \A c \in Calls : Anchored(calls[c])
       /\ Isolated /\ CredentialRows /\ OutboxRows /\ LogsHaveLast
       /\ RevokedOnce /\ LedgerFollowsTables /\ RevocationIsFinal

LEMMA RequestKinds ==
  ASSUME NEW req \in Requests
  PROVE  /\ req.op \in {"issue", "revoke", "move"} /\ req.subject \in Batches
         /\ req.op # "move" => req.id \in Ids /\ req.by \in Parties
         /\ req.op = "issue" => /\ req.holder \in Parties /\ req.ctype \in Types
                                /\ req.expires \in Times
         /\ req.op = "move" => req.to \in LifecycleStates
PROOF
  BY ComplianceAssumption DEF IssueRequests, RevokeRequests, MoveRequests

LEMMA UnbornIsCall == Unborn \in CallRecords /\ [Unborn EXCEPT !.status = "ended"] \in CallRecords
PROOF
  BY DEF Unborn, CallRecords, Steps

LEMMA TypesAreCalls == TypeOK => calls \in [Calls -> CallRecords]
PROOF
  BY DEF TypeOK, CallRecords

LEMMA InitInv == Init => Inv
PROOF
  <1> SUFFICES ASSUME Init PROVE Inv
    OBVIOUS
  <1>1. TypeOK
    <2>1. calls \in [Calls -> CallRecords]
      BY UnbornIsCall DEF Init
    <2>2. ledger \in [Ids -> Seq(CredStatuses)]
      <3>1. <<>> \in Seq(CredStatuses) /\ <<"valid">> \in Seq(CredStatuses)
        BY DEF CredStatuses
      <3>2. ledger = [id \in Ids |-> IF Held[id] = None THEN <<>> ELSE <<"valid">>]
        BY DEF Init
      <3> QED BY <3>1, <3>2
    <2> QED BY <2>1, <2>2, ComplianceAssumption DEF Init, TypeOK, LifecycleStates, CallRecords
  <1>2. \A c \in Calls : CallFacts(calls[c]) /\ Anchored(calls[c])
    BY DEF Init, CallFacts, Anchored, Wrote, Unborn
  <1>3. Isolated
    BY DEF Init, Isolated, Wrote, Unborn
  <1>4. CredentialRows /\ LedgerFollowsTables /\ RevocationIsFinal
    BY ComplianceAssumption DEF Init, CredentialRows, LedgerFollowsTables, RevocationIsFinal
  <1>5. OutboxRows /\ LogsHaveLast /\ RevokedOnce
    BY DEF Init, OutboxRows, LogsHaveLast, RevokedOnce
  <1> QED BY <1>1, <1>2, <1>3, <1>4, <1>5 DEF Inv

\* A call moves on and nothing else changes.
LEMMA OwnStep ==
  ASSUME Inv, NEW c \in Calls, NEW call \in CallRecords, CallFacts(call),
         call.status = "open" /\ call.step = "commit" => call.req.op = "move",
         Become(c, call), UNCHANGED <<tables, ledger, begun>>,
         Wrote(call) => \A d \in Calls \ {c} :
           Wrote(calls[d]) => calls[d].req.id # call.req.id
  PROVE  Inv'
PROOF
  <1>1. /\ calls' = [calls EXCEPT ![c] = call] /\ calls \in [Calls -> CallRecords]
        /\ UNCHANGED <<creds, goods, events, outbox, ledger, begun>>
    BY TypesAreCalls DEF Become, tables, Inv
  <1>2. TypeOK'
    BY <1>1 DEF Inv, TypeOK, CallRecords
  <1>3. \A d \in Calls : CallFacts(calls[d])'
    BY <1>1 DEF Inv, CallFacts, Wrote
  <1>6. \A d \in Calls : Anchored(calls[d])'
    BY <1>1 DEF Inv, Anchored
  <1>4. Isolated'
    BY <1>1 DEF Inv, Isolated, Wrote
  <1>5. /\ CredentialRows' /\ OutboxRows' /\ LogsHaveLast'
        /\ RevokedOnce' /\ LedgerFollowsTables' /\ RevocationIsFinal'
    BY <1>1 DEF Inv, CredentialRows, OutboxRows, LogsHaveLast, RevokedOnce,
                LedgerFollowsTables, RevocationIsFinal
  <1> QED BY <1>2, <1>3, <1>4, <1>5, <1>6 DEF Inv

\* A call returns.
LEMMA EndStep ==
  ASSUME Inv, NEW c \in Calls, End(c), UNCHANGED <<tables, ledger, begun>>
  PROVE  Inv'
PROOF
  <1> DEFINE call == [Unborn EXCEPT !.status = "ended"]
  <1>1. call \in CallRecords /\ CallFacts(call) /\ ~ Wrote(call) /\ call.status = "ended"
    BY UnbornIsCall DEF CallFacts, Wrote, Unborn
  <1>2. Become(c, call)
    BY DEF End
  <1> HIDE DEF call
  <1> QED BY <1>1, <1>2, OwnStep

\* An open call, its request and its record.
LEMMA OpenCall ==
  ASSUME Inv, NEW c \in Calls, Open(c)
  PROVE  /\ calls[c] \in CallRecords /\ calls[c].status = "open"
         /\ CallFacts(calls[c]) /\ Anchored(calls[c])
         /\ calls[c].req \in Requests /\ calls[c].req.op \in {"issue", "revoke", "move"}
         /\ Batch(c) \in Batches /\ calls[c].step \in StepsOf(calls[c].req.op)
         /\ calls[c].req.op # "move" => calls[c].req.id \in Ids
PROOF
  BY TypesAreCalls, RequestKinds DEF Inv, CallFacts, Open, Batch

LEMMA BeginStep ==
  ASSUME Inv, NEW c \in Calls, NEW req \in Requests, Begin(c, req)
  PROVE  Inv'
PROOF
  <1> DEFINE alone == \A d \in Calls : ~ Open(d)
             step == CASE req.op = "issue" -> "insert"
                       [] req.op = "revoke" -> "find"
                       [] req.op = "move" -> "state"
             new == [Unborn EXCEPT !.status = "open", !.req = req, !.now = begun + 1,
                                   !.alone = alone, !.step = step]
  <1>1. /\ req.op \in {"issue", "revoke", "move"} /\ step \in {"insert", "find", "state"}
        /\ step \in StepsOf(req.op)
    BY RequestKinds DEF StepsOf
  <1>2. /\ UNCHANGED <<creds, goods, events, outbox, ledger>> /\ begun' = begun + 1
        /\ calls' = [d \in Calls |->
             IF d # c THEN [calls[d] EXCEPT !.alone = IF Open(d) THEN FALSE ELSE @] ELSE new]
        /\ calls \in [Calls -> CallRecords] /\ begun \in Nat
    BY TypesAreCalls DEF Begin, tables, Inv, TypeOK
  <1>3. /\ new \in CallRecords /\ new.status = "open" /\ new.req = req /\ new.step = step
        /\ new.to = None
    <2>1. alone \in BOOLEAN
      OBVIOUS
    <2> HIDE DEF alone, step
    <2>2. begun + 1 \in Nat /\ step \in Steps
      BY <1>1, <1>2 DEF Steps
    <2> QED BY <2>1, <2>2, UnbornIsCall DEF CallRecords, Unborn
  <1>4. ~ Wrote(new) /\ calls'[c] = new
    <2> HIDE DEF new
    <2> QED BY <1>1, <1>2, <1>3 DEF Wrote, Writing
  <1> HIDE DEF new
  <1>5. \A d \in Calls \ {c} :
          /\ calls'[d] \in CallRecords
          /\ calls'[d].status = calls[d].status /\ calls'[d].step = calls[d].step
          /\ calls'[d].req = calls[d].req /\ calls'[d].vc = calls[d].vc
          /\ calls'[d].to = calls[d].to /\ calls'[d].from = calls[d].from
    BY <1>2 DEF CallRecords
  <1>6. TypeOK'
    <2>1. \A d \in Calls : calls'[d] \in CallRecords
      BY <1>3, <1>4, <1>5
    <2>2. calls' \in [Calls -> CallRecords]
      <3>1. calls' = [d \in Calls |-> calls'[d]]
        BY <1>2
      <3> QED BY <2>1, <3>1
    <2>3. begun' \in Nat /\ UNCHANGED <<creds, goods, events, outbox, ledger>>
      BY <1>2
    <2> QED BY <2>2, <2>3 DEF Inv, TypeOK, CallRecords
  <1>7. \A d \in Calls : CallFacts(calls[d])'
    <2>1. CallFacts(calls[c])'
      BY <1>1, <1>2, <1>3, <1>4 DEF CallFacts, Wrote, Writing
    <2>2. ASSUME NEW d \in Calls \ {c} PROVE CallFacts(calls[d])'
      <3>1. CallFacts(calls[d])
        BY DEF Inv
      <3> QED BY <1>2, <1>5, <3>1 DEF CallFacts, Wrote
    <2> QED BY <2>1, <2>2
  <1>10. \A d \in Calls : Anchored(calls[d])'
    <2>1. Anchored(calls[c])'
      BY <1>1, <1>3, <1>4 DEF Anchored
    <2>2. ASSUME NEW d \in Calls \ {c} PROVE Anchored(calls[d])'
      <3>1. Anchored(calls[d]) /\ calls'[d].req = calls[d].req /\ calls'[d].vc = calls[d].vc
        BY <1>5 DEF Inv
      <3>2. calls'[d].status = calls[d].status /\ calls'[d].step = calls[d].step
        BY <1>5
      <3>3. ledger' = ledger
        BY <1>2
      <3> QED BY Zenon, <3>1, <3>2, <3>3 DEF Anchored
    <2> QED BY <2>1, <2>2
  <1>8. Isolated'
    BY <1>4, <1>5 DEF Inv, Isolated, Wrote
  <1>9. /\ CredentialRows' /\ OutboxRows' /\ LogsHaveLast'
        /\ RevokedOnce' /\ LedgerFollowsTables' /\ RevocationIsFinal'
    BY <1>2 DEF Inv, CredentialRows, OutboxRows, LogsHaveLast, RevokedOnce,
                LedgerFollowsTables, RevocationIsFinal
  <1> QED BY <1>6, <1>7, <1>8, <1>9, <1>10 DEF Inv

LEMMA InsertStep ==
  ASSUME Inv, NEW c \in Calls, Insert(c)
  PROVE  Inv'
PROOF
  <1> DEFINE req == calls[c].req
             call == [calls[c] EXCEPT !.step = "assess", !.vc = NewCredential(req)]
  <1>1. /\ calls[c] \in CallRecords /\ calls[c].status = "open" /\ calls[c].step = "insert"
        /\ req \in Requests /\ req.op = "issue" /\ req.id \in Ids
        /\ calls[c].to # None => calls[c].from # None
    BY OpenCall DEF Insert, At, StepsOf, Writing, CallFacts
  <1>2. CASE ~SchemaHolds(req) \/ creds[req.id] # None
    BY <1>2, EndStep DEF Insert
  <1>3. CASE SchemaHolds(req) /\ creds[req.id] = None
    <2>1. Become(c, call) /\ UNCHANGED <<tables, ledger, begun>> /\ CredentialFree(c)
      BY <1>3 DEF Insert
    <2>2. NewCredential(req) \in Credentials /\ NewCredential(req).status = "valid"
      BY <1>1, RequestKinds DEF NewCredential, Credentials, CredStatuses
    <2>3. /\ call \in CallRecords /\ call.status = "open" /\ call.step = "assess"
          /\ call.req = req /\ call.vc = NewCredential(req)
          /\ call.from = calls[c].from /\ call.to = calls[c].to
      BY <1>1, <2>2 DEF CallRecords, Steps
    <2> HIDE DEF call
    <2>4. CallFacts(call)
      BY <1>1, <1>3, <2>2, <2>3 DEF CallFacts, StepsOf, Writing
    <2>5. \A d \in Calls \ {c} : Wrote(calls[d]) => calls[d].req.id # call.req.id
      BY <2>1, <2>3 DEF CredentialFree, WroteCredential, Wrote, Writing, Open
    <2> QED BY <2>1, <2>3, <2>4, <2>5, OwnStep
  <1> QED BY <1>2, <1>3

LEMMA FindStep ==
  ASSUME Inv, NEW c \in Calls, Find(c)
  PROVE  Inv'
PROOF
  <1> DEFINE req == calls[c].req
             vc == creds[req.id]
             call == [calls[c] EXCEPT !.step = "update", !.vc = vc]
  <1>1. /\ calls[c] \in CallRecords /\ calls[c].status = "open" /\ calls[c].step = "find"
        /\ req \in Requests /\ req.op = "revoke" /\ req.id \in Ids
        /\ calls[c].to # None => calls[c].from # None
    BY OpenCall DEF Find, At, StepsOf, Writing, CallFacts
  <1>2. CASE ~(vc # None /\ MayTransition(vc, "revoked", req.by))
    BY <1>2, EndStep DEF Find
  <1>3. CASE vc # None /\ MayTransition(vc, "revoked", req.by)
    <2>1. Become(c, call) /\ UNCHANGED <<tables, ledger, begun>>
      BY <1>3 DEF Find
    <2>2. vc \in Credentials /\ vc.status = "valid"
      <3>1. vc \in Credentials /\ vc.status \in {"valid", "revoked"}
        BY <1>1, <1>3 DEF Inv, TypeOK, CredentialRows
      <3> QED BY <1>3, <3>1 DEF MayTransition
    <2>3. /\ call \in CallRecords /\ call.status = "open" /\ call.step = "update"
          /\ call.req = req /\ call.vc \in Credentials /\ call.vc.status = "valid"
          /\ call.from = calls[c].from /\ call.to = calls[c].to
      BY <1>1, <2>2 DEF CallRecords, Steps
    <2> HIDE DEF call
    <2>4. CallFacts(call) /\ ~ Wrote(call)
      BY <1>1, <1>3, <2>3 DEF CallFacts, StepsOf, Wrote, Writing
    <2> QED BY <2>1, <2>3, <2>4, OwnStep
  <1> QED BY <1>2, <1>3

LEMMA UpdateStatusStep ==
  ASSUME Inv, NEW c \in Calls, UpdateStatus(c)
  PROVE  Inv'
PROOF
  <1> DEFINE req == calls[c].req
             row == creds[req.id]
             vc == [calls[c].vc EXCEPT !.status = "revoked"]
             call == [calls[c] EXCEPT !.step = "assess", !.vc = vc]
  <1>1. /\ calls[c] \in CallRecords /\ calls[c].status = "open" /\ calls[c].step = "update"
        /\ req \in Requests /\ req.op = "revoke" /\ req.id \in Ids
        /\ calls[c].vc \in Credentials /\ calls[c].vc.status = "valid" /\ row # None
        /\ calls[c].to # None => calls[c].from # None
    BY OpenCall DEF UpdateStatus, At, StepsOf, Writing, CallFacts
  <1>2. CASE row.status # calls[c].vc.status
    BY <1>2, EndStep DEF UpdateStatus
  <1>3. CASE row.status = calls[c].vc.status
    <2>1. Become(c, call) /\ UNCHANGED <<tables, ledger, begun>> /\ CredentialFree(c)
      BY <1>3, <1>1 DEF UpdateStatus, CallRecords
    <2>2. vc \in Credentials /\ vc.status = "revoked"
      BY <1>1 DEF Credentials, CredStatuses
    <2>3. /\ call \in CallRecords /\ call.status = "open" /\ call.step = "assess"
          /\ call.req = req /\ call.vc \in Credentials /\ call.vc.status = "revoked"
          /\ call.from = calls[c].from /\ call.to = calls[c].to
      <3> HIDE DEF vc
      <3> QED BY <1>1, <2>2 DEF CallRecords, Steps
    <2> HIDE DEF call
    <2>4. row # None /\ row.status = "valid"
      BY <1>1, <1>3
    <2>5. CallFacts(call)
      BY <1>1, <2>3, <2>4 DEF CallFacts, StepsOf, Writing
    <2>6. \A d \in Calls \ {c} : Wrote(calls[d]) => calls[d].req.id # call.req.id
      BY <2>1, <2>3 DEF CredentialFree, WroteCredential, Wrote, Writing, Open
    <2> QED BY <2>1, <2>3, <2>5, <2>6, OwnStep
  <1> QED BY <1>2, <1>3

\* A step of a call that leaves its request and its credential alone.
LEMMA QuietStep ==
  ASSUME Inv, NEW c \in Calls, Open(c), NEW call \in CallRecords, Become(c, call),
         UNCHANGED <<tables, ledger, begun>>,
         call.status = "open", call.req = calls[c].req, call.vc = calls[c].vc,
         call.step \in StepsOf(call.req.op) \ {"update", "commit"},
         call.step \in {"active", "mark"} => call.to # None,
         call.to # None \/ call.step = "policy" => call.from # None,
         call.req.op # "move" => calls[c].step \in Writing
  PROVE  Inv'
PROOF
  <1>1. /\ CallFacts(calls[c]) /\ calls[c].status = "open"
        /\ call.req.op # "move" => Wrote(calls[c])
    BY OpenCall DEF Wrote
  <1>2. CallFacts(call)
    BY <1>1, OpenCall DEF CallFacts, Wrote
  <1>3. Wrote(call) => \A d \in Calls \ {c} : Wrote(calls[d]) => calls[d].req.id # call.req.id
    BY <1>1 DEF Inv, Isolated, Wrote
  <1> QED BY <1>2, <1>3, OwnStep

\* The state of a batch is a state: the latest event exists.
LEMMA CurrentStateType ==
  ASSUME Inv, NEW b \in Batches
  PROVE  CurrentState(b) \in LifecycleStates
PROOF
  <1> DEFINE log == {e \in events : e.subject = b}
             last == CHOOSE e \in log : \A d \in log : d.now <= e.now
  <1>1. CASE log = {}
    BY <1>1 DEF CurrentState, Inv, TypeOK
  <1>2. CASE log # {}
    <2>1. \E e \in log : \A d \in log : d.now <= e.now
      BY <1>2 DEF Inv, LogsHaveLast
    <2>2. last \in log
      BY <2>1
    <2>3. CurrentState(b) = last.to
      BY <1>2 DEF CurrentState
    <2> HIDE DEF last
    <2> QED BY <2>2, <2>3 DEF Inv, TypeOK
  <1> QED BY <1>1, <1>2

LEMMA TypesOfType ==
  ASSUME NEW b \in Batches, NEW now \in Nat, NEW table,
         \A id \in Ids : table[id] # None => table[id] \in Credentials
  PROVE  TypesOf(table, b, now) \in SUBSET Types
PROOF
  BY DEF TypesOf, EffectiveTypes, HeldBy, Credentials

LEMMA RecomputedType ==
  ASSUME NEW b \in Batches, NEW from, NEW types, NEW now
  PROVE  Recomputed(b, from, types, now) \in {"recalled", "available", None}
PROOF
  BY DEF Recomputed

LEMMA VisibleType ==
  ASSUME Inv, NEW c \in Calls, NEW id \in Ids, Visible(c)[id] # None
  PROVE  Visible(c)[id] \in Credentials
PROOF
  <1>1. creds \in [Ids -> Credentials \cup {None}]
    BY DEF Inv, TypeOK
  <1>2. CASE WroteCredential(c)
    <2>1. calls[c].vc \in Credentials
      BY <1>2, OpenCall DEF WroteCredential, CallFacts, Wrote, Writing
    <2> QED BY <1>1, <1>2, <2>1 DEF Visible
  <1>3. CASE ~ WroteCredential(c)
    BY <1>1, <1>3 DEF Visible
  <1> QED BY <1>2, <1>3

LEMMA LearnedTypes ==
  ASSUME NEW call \in CallRecords, NEW kinds \in SUBSET Types
  PROVE  [call EXCEPT !.step = "state", !.types = kinds] \in CallRecords
PROOF
  <1> DEFINE moved == [call EXCEPT !.step = "state"]
  <1>1. moved \in CallRecords
    BY DEF CallRecords, Steps
  <1> HIDE DEF moved
  <1>2. [moved EXCEPT !.types = kinds] \in CallRecords
    BY <1>1 DEF CallRecords
  <1>3. [call EXCEPT !.step = "state", !.types = kinds] = [moved EXCEPT !.types = kinds]
    BY Zenon DEF moved
  <1> QED BY <1>2, <1>3

LEMMA LearnedTarget ==
  ASSUME NEW call \in CallRecords, NEW from \in LifecycleStates,
         NEW to \in LifecycleStates \cup {None}, NEW step \in Steps
  PROVE  [call EXCEPT !.from = from, !.to = to, !.active = TRUE, !.step = step] \in CallRecords
PROOF
  BY DEF CallRecords

LEMMA AssessStep ==
  ASSUME Inv, NEW c \in Calls, Assess(c)
  PROVE  Inv'
PROOF
  <1> DEFINE types == TypesOf(Visible(c), Batch(c), calls[c].now)
             call == [calls[c] EXCEPT !.step = "state", !.types = types]
  <1>1. /\ Open(c) /\ calls[c] \in CallRecords /\ calls[c].step = "assess"
        /\ calls[c].req.op \in {"issue", "revoke"} /\ Batch(c) \in Batches
        /\ calls[c].status = "open" /\ (calls[c].to # None => calls[c].from # None)
    BY OpenCall DEF Assess, At, StepsOf, Writing, CallFacts
  <1>2. CASE ~HasJurisdiction(Batch(c))
    BY <1>2, EndStep DEF Assess
  <1>3. CASE HasJurisdiction(Batch(c))
    <2>1. Become(c, call) /\ UNCHANGED <<tables, ledger, begun>>
      BY <1>3 DEF Assess
    <2>2. types \in SUBSET Types
      <3>1. calls[c].now \in Nat
        BY <1>1 DEF CallRecords
      <3> QED BY <1>1, <3>1, VisibleType, TypesOfType
    <2> HIDE DEF types
    <2>3. /\ call \in CallRecords /\ call.status = "open" /\ call.step = "state"
          /\ call.req = calls[c].req /\ call.vc = calls[c].vc
          /\ call.from = calls[c].from /\ call.to = calls[c].to
      <3>1. call \in CallRecords
        BY <1>1, <2>2, LearnedTypes
      <3> QED BY <1>1, <3>1 DEF CallRecords
    <2> HIDE DEF call
    <2> QED BY <1>1, <2>1, <2>3, QuietStep DEF StepsOf, Writing
  <1> QED BY <1>2, <1>3

LEMMA RecomputeStep ==
  ASSUME Inv, NEW c \in Calls, Recompute(c)
  PROVE  Inv'
PROOF
  <1> DEFINE from == CurrentState(Batch(c))
             to == Recomputed(Batch(c), from, calls[c].types, calls[c].now)
             step == CASE to = None -> "anchor" [] to = "recalled" -> "active"
                       [] to = "available" -> "mark"
             call == [calls[c] EXCEPT !.from = from, !.to = to, !.active = TRUE, !.step = step]
  <1>1. /\ Open(c) /\ calls[c] \in CallRecords /\ calls[c].step = "state"
        /\ calls[c].req.op \in {"issue", "revoke"} /\ Batch(c) \in Batches
        /\ calls[c].status = "open"
    BY OpenCall DEF Recompute, At
  <1>2. from \in LifecycleStates /\ to \in {"recalled", "available", None}
    BY <1>1, CurrentStateType, RecomputedType
  <1>3. Become(c, call) /\ UNCHANGED <<tables, ledger, begun>>
    BY DEF Recompute
  <1> HIDE DEF from, to
  <1>4. step \in {"anchor", "active", "mark"} /\ (step \in {"active", "mark"} => to # None)
    BY <1>2, ComplianceAssumption DEF LifecycleStates
  <1> HIDE DEF step
  <1>5. /\ call \in CallRecords /\ call.status = "open" /\ call.step = step /\ call.to = to
        /\ call.req = calls[c].req /\ call.vc = calls[c].vc /\ call.from = from
    <2>1. step \in Steps /\ to \in LifecycleStates \cup {None}
      BY <1>2, <1>4 DEF Steps, LifecycleStates
    <2>2. call \in CallRecords
      BY <1>1, <1>2, <2>1, LearnedTarget
    <2> QED BY <1>1, <2>2 DEF CallRecords
  <1> HIDE DEF call
  <1>6. from # None
    BY <1>2, ComplianceAssumption
  <1> QED BY <1>1, <1>3, <1>4, <1>5, <1>6, QuietStep DEF StepsOf, Writing

LEMMA ReadStateStep ==
  ASSUME Inv, NEW c \in Calls, ReadState(c)
  PROVE  Inv'
PROOF
  <1> DEFINE from == CurrentState(Batch(c))
             call == [calls[c] EXCEPT !.from = from, !.step = "policy"]
  <1>1. /\ Open(c) /\ calls[c] \in CallRecords /\ calls[c].status = "open"
        /\ calls[c].req.op = "move" /\ Batch(c) \in Batches
    BY OpenCall DEF ReadState, At
  <1>2. from \in LifecycleStates
    BY <1>1, CurrentStateType
  <1>3. Become(c, call) /\ UNCHANGED <<tables, ledger, begun>>
    BY DEF ReadState
  <1> HIDE DEF from
  <1>4. /\ call \in CallRecords /\ call.status = "open" /\ call.step = "policy"
        /\ call.req = calls[c].req /\ call.vc = calls[c].vc /\ call.from = from
    BY <1>1, <1>2 DEF CallRecords, Steps
  <1>5. from # None
    BY <1>2, ComplianceAssumption
  <1> HIDE DEF call
  <1> QED BY <1>1, <1>3, <1>4, <1>5, QuietStep DEF StepsOf

LEMMA CheckPolicyStep ==
  ASSUME Inv, NEW c \in Calls, CheckPolicy(c)
  PROVE  Inv'
PROOF
  <1> DEFINE to == calls[c].req.to
             call == [calls[c] EXCEPT !.to = to, !.step = "active"]
  <1>1. /\ Open(c) /\ calls[c] \in CallRecords /\ calls[c].status = "open"
        /\ calls[c].req.op = "move" /\ to \in LifecycleStates /\ calls[c].from # None
    BY OpenCall, RequestKinds DEF CheckPolicy, At, StepsOf, Writing, CallFacts
  <1>2. CASE End(c)
    BY <1>2, EndStep DEF CheckPolicy
  <1>3. CASE Become(c, call)
    <2>1. /\ call \in CallRecords /\ call.status = "open" /\ call.step = "active"
          /\ call.req = calls[c].req /\ call.vc = calls[c].vc /\ call.to # None
          /\ call.from # None
      BY <1>1, ComplianceAssumption DEF CallRecords, Steps
    <2>2. UNCHANGED <<tables, ledger, begun>>
      BY DEF CheckPolicy
    <2> HIDE DEF call
    <2> QED BY <1>1, <1>3, <2>1, <2>2, QuietStep DEF StepsOf
  <1> QED BY <1>2, <1>3 DEF CheckPolicy

LEMMA ReadActiveStep ==
  ASSUME Inv, NEW c \in Calls, ReadActive(c)
  PROVE  Inv'
PROOF
  <1> DEFINE to == calls[c].to
             active == (to = "available") \/ (to # "delisted" /\ goods[Batch(c)].active)
             call == [calls[c] EXCEPT !.step = "mark", !.active = active]
  <1>1. /\ Open(c) /\ calls[c] \in CallRecords /\ calls[c].status = "open"
        /\ calls[c].step = "active" /\ to # None
        /\ calls[c].req.op \in {"issue", "revoke", "move"} /\ calls[c].from # None
    BY OpenCall DEF ReadActive, At, CallFacts
  <1>2. Become(c, call) /\ UNCHANGED <<tables, ledger, begun>>
    BY DEF ReadActive
  <1>3. active \in BOOLEAN
    OBVIOUS
  <1> HIDE DEF active
  <1>4. /\ call \in CallRecords /\ call.status = "open" /\ call.step = "mark"
        /\ call.req = calls[c].req /\ call.vc = calls[c].vc /\ call.to = to
        /\ call.from = calls[c].from
    BY <1>1, <1>3 DEF CallRecords, Steps
  <1> HIDE DEF call
  <1> QED BY <1>1, <1>2, <1>4, QuietStep DEF StepsOf, Writing

LEMMA MarkStep ==
  ASSUME Inv, NEW c \in Calls, Mark(c)
  PROVE  Inv'
PROOF
  <1> DEFINE step == IF calls[c].req.op = "move" THEN "commit" ELSE "anchor"
             call == [calls[c] EXCEPT !.step = step]
  <1>1. /\ Open(c) /\ calls[c] \in CallRecords /\ calls[c].status = "open"
        /\ calls[c].step = "mark" /\ calls[c].req \in Requests
        /\ calls[c].req.op \in {"issue", "revoke", "move"} /\ calls[c].from # None
    BY OpenCall DEF Mark, At, CallFacts
  <1>2. Become(c, call) /\ UNCHANGED <<tables, ledger, begun>>
    BY DEF Mark, Goto
  <1>3. /\ call \in CallRecords /\ call.status = "open" /\ call.step = step
        /\ call.req = calls[c].req /\ call.vc = calls[c].vc /\ call.from = calls[c].from
    BY <1>1 DEF CallRecords, Steps
  <1> HIDE DEF call
  <1>4. CASE calls[c].req.op = "move"
    <2>1. CallFacts(call) /\ ~ Wrote(call)
      BY <1>1, <1>3, <1>4 DEF CallFacts, Wrote, StepsOf
    <2> QED BY <1>2, <1>3, <2>1, OwnStep
  <1>5. CASE calls[c].req.op # "move"
    BY <1>1, <1>2, <1>3, <1>5, QuietStep DEF StepsOf, Writing
  <1> QED BY <1>4, <1>5

LEMMA AnchorStep ==
  ASSUME Inv, NEW c \in Calls, Anchor(c)
  PROVE  Inv'
PROOF
  <1> DEFINE id == calls[c].req.id
             status == calls[c].vc.status
             call == [calls[c] EXCEPT !.step = "commit"]
  <1>1. /\ Open(c) /\ calls[c] \in CallRecords /\ calls[c].status = "open"
        /\ calls[c].step = "anchor" /\ calls[c].req.op \in {"issue", "revoke"}
        /\ Wrote(calls[c]) /\ CallFacts(calls[c]) /\ id \in Ids
    BY OpenCall DEF Anchor, At, StepsOf, Writing, Wrote
  <1>2. /\ calls[c].vc \in Credentials
        /\ \/ status = "valid" /\ creds[id] = None
           \/ status = "revoked" /\ creds[id] # None
    BY <1>1 DEF CallFacts
  <1>3. /\ calls \in [Calls -> CallRecords] /\ calls' = [calls EXCEPT ![c] = call]
        /\ UNCHANGED <<creds, goods, events, outbox, begun>>
        /\ ledger \in [Ids -> Seq(CredStatuses)]
        /\ ledger' = [ledger EXCEPT ![id] = Append(@, status)]
    BY TypesAreCalls DEF Anchor, Goto, Become, tables, Inv, TypeOK
  <1>4. /\ call \in CallRecords /\ call.status = "open" /\ call.step = "commit"
        /\ call.req = calls[c].req /\ call.vc = calls[c].vc
        /\ call.from = calls[c].from /\ call.to = calls[c].to
    BY <1>1 DEF CallRecords, Steps
  <1> HIDE DEF call
  <1>5. status \in CredStatuses
    BY <1>2 DEF CredStatuses
  <1>6. \A i \in Ids : /\ DOMAIN ledger[i] \subseteq DOMAIN ledger'[i]
                      /\ \A k \in DOMAIN ledger[i] : ledger'[i][k] = ledger[i][k]
    BY <1>1, <1>3
  <1>7. DOMAIN ledger'[id] = 1 .. (Len(ledger[id]) + 1) /\ DOMAIN ledger[id] = 1 .. Len(ledger[id])
        /\ ledger'[id][Len(ledger[id]) + 1] = status /\ Len(ledger[id]) \in Nat
    BY <1>1, <1>3, <1>5
  <1>8. \A i \in Ids \ {id} : ledger'[i] = ledger[i]
    BY <1>1, <1>3
  <1>9. TypeOK'
    <2>1. ledger' \in [Ids -> Seq(CredStatuses)]
      BY <1>1, <1>3, <1>5
    <2>2. calls' \in [Calls -> CallRecords]
      BY <1>3, <1>4
    <2> QED BY <1>3, <2>1, <2>2 DEF Inv, TypeOK, CallRecords
  <1>10. \A d \in Calls : CallFacts(calls[d])'
    <2>1. ASSUME NEW d \in Calls \ {c} PROVE CallFacts(calls[d])'
      BY <1>3 DEF Inv, CallFacts, Wrote
    <2>2. CallFacts(calls[c])'
      BY <1>1, <1>3, <1>4 DEF CallFacts, Wrote, StepsOf, Writing
    <2> QED BY <2>1, <2>2
  <1>16. \A d \in Calls : Anchored(calls[d])'
    <2>1. ASSUME NEW d \in Calls \ {c} PROVE Anchored(calls[d])'
      <3>1. CallFacts(calls[d]) /\ Anchored(calls[d]) /\ calls'[d] = calls[d]
        BY <1>3 DEF Inv
      <3>2. calls[d].status = "open" /\ calls[d].req.op # "move" => calls[d].req.id \in Ids
        BY <3>1, RequestKinds DEF CallFacts
      <3> QED BY <1>6, <3>1, <3>2 DEF Anchored
    <2>2. Anchored(calls[c])'
      <3>1. Len(ledger[id]) + 1 \in DOMAIN ledger'[id]
        BY <1>7
      <3> QED BY <1>1, <1>3, <1>4, <1>7, <3>1 DEF Anchored
    <2> QED BY <2>1, <2>2
  <1>11. Isolated'
    BY <1>1, <1>3, <1>4 DEF Inv, Isolated, Wrote
  <1>12. CredentialRows'
    <2>1. \A i \in Ids \ {id} : creds[i] = None =>
            \A k \in DOMAIN ledger'[i] : ledger'[i][k] = "valid"
      BY <1>8 DEF Inv, CredentialRows
    <2>2. creds[id] = None => \A k \in DOMAIN ledger'[id] : ledger'[id][k] = "valid"
      BY <1>1, <1>2, <1>6, <1>7 DEF Inv, CredentialRows
    <2> QED BY <1>3, <2>1, <2>2 DEF Inv, CredentialRows
  <1>13. LedgerFollowsTables'
    BY <1>3, <1>6 DEF Inv, LedgerFollowsTables
  <1>14. RevocationIsFinal'
    <2>1. ASSUME NEW j \in DOMAIN ledger'[id], NEW k \in DOMAIN ledger'[id],
                 ledger'[id][j] = "revoked", j < k
          PROVE  ledger'[id][k] = "revoked"
      <3>1. CASE status = "revoked"
        BY <1>1, <1>6, <1>7, <2>1, <3>1 DEF Inv, RevocationIsFinal
      <3>2. CASE status = "valid" /\ creds[id] = None
        BY <1>1, <1>6, <1>7, <2>1, <3>2 DEF Inv, CredentialRows
      <3> QED BY <1>2, <3>1, <3>2
    <2> HIDE DEF id
    <2> QED BY <1>8, <2>1 DEF Inv, RevocationIsFinal
  <1>15. OutboxRows' /\ LogsHaveLast' /\ RevokedOnce'
    BY <1>3 DEF Inv, OutboxRows, LogsHaveLast, RevokedOnce
  <1> QED BY <1>9, <1>10, <1>11, <1>12, <1>13, <1>14, <1>15, <1>16 DEF Inv

\* The event a call appends comes last in its log, or the last one stays.
LEMMA CommitBatch ==
  ASSUME Inv, NEW c \in Calls, Commit(c)
  PROVE  /\ goods' \in [Batches -> [state : LifecycleStates, active : BOOLEAN, compliant : BOOLEAN]]
         /\ events' \subseteq [subject : Batches, from : LifecycleStates, to : LifecycleStates,
                              now : Nat]
         /\ LogsHaveLast'
PROOF
  <1> DEFINE call == calls[c]
             b == Batch(c)
             row == Recorded(call, goods[b])
             new == [subject |-> b, from |-> call.from, to |-> call.to, now |-> call.now]
  <1>1. /\ call \in CallRecords /\ b \in Batches
        /\ call.to # None => call.from # None
    BY OpenCall DEF Commit, At, CallFacts
  <1>2. /\ goods \in [Batches -> [state : LifecycleStates, active : BOOLEAN, compliant : BOOLEAN]]
        /\ events \subseteq [subject : Batches, from : LifecycleStates, to : LifecycleStates,
                             now : Nat]
        /\ LogsHaveLast
    BY DEF Inv, TypeOK
  <1>3. CASE call.to = None
    <2>1. goods' = goods /\ events' = events
      BY <1>3 DEF Commit
    <2> QED BY <1>2, <2>1 DEF LogsHaveLast
  <1>4. CASE call.to # None
    <2>1. goods' = [goods EXCEPT ![b] = row] /\ events' = events \cup {new}
      BY <1>1, <1>2, <1>4 DEF Commit
    <2>2. row \in [state : LifecycleStates, active : BOOLEAN, compliant : BOOLEAN]
      BY <1>1, <1>2, <1>4 DEF CallRecords, Recorded
    <2>3. new \in [subject : Batches, from : LifecycleStates, to : LifecycleStates, now : Nat]
      BY <1>1, <1>4 DEF CallRecords
    <2>4. new.subject = b
      OBVIOUS
    <2> HIDE DEF row, new
    <2>5. ASSUME NEW a \in Batches, {e \in events' : e.subject = a} # {}
          PROVE  \E e \in events' : e.subject = a /\ \A d \in events' : d.subject = a => d.now <= e.now
      <3>1. CASE {e \in events : e.subject = a} = {}
        <4>1. a = b /\ \A d \in events' : d.subject = a => d = new
          BY <2>1, <2>4, <2>5, <3>1
        <4> QED BY <2>1, <2>3, <2>4, <4>1
      <3>2. CASE {e \in events : e.subject = a} # {}
        <4>1. PICK last \in events : /\ last.subject = a
                                    /\ \A d \in events : d.subject = a => d.now <= last.now
          BY <1>2, <3>2 DEF LogsHaveLast
        <4>2. last.now \in Nat /\ new.now \in Nat /\ \A d \in events : d.now \in Nat
          BY <1>2, <2>3
        <4>3. CASE new.subject = a /\ last.now <= new.now
          <5>1. \A d \in events' : d.subject = a => d.now <= new.now
            BY <2>1, <4>1, <4>2, <4>3
          <5> QED BY <2>1, <4>3, <5>1
        <4>4. CASE ~(new.subject = a /\ last.now <= new.now)
          <5>1. \A d \in events' : d.subject = a => d.now <= last.now
            BY <2>1, <4>1, <4>2, <4>4
          <5> QED BY <2>1, <4>1, <5>1
        <4> QED BY <4>3, <4>4
      <3> QED BY <3>1, <3>2
    <2>6. LogsHaveLast'
      BY <2>5 DEF LogsHaveLast
    <2> QED BY <1>2, <2>1, <2>2, <2>3, <2>6
  <1> QED BY <1>3, <1>4

LEMMA CommitStep ==
  ASSUME Inv, NEW c \in Calls, Commit(c)
  PROVE  Inv'
PROOF
  <1> DEFINE req == calls[c].req
             vc == calls[c].vc
             call == [Unborn EXCEPT !.status = "ended"]
             entry == [op |-> req.op, id |-> req.id, call |-> c,
                       announced |-> Announced(calls[c])]
  <1>1. /\ calls[c] \in CallRecords /\ calls[c].status = "open"
        /\ calls[c].step = "commit" /\ req.op \in {"issue", "revoke", "move"}
        /\ CallFacts(calls[c]) /\ Anchored(calls[c])
        /\ req.op # "move" => req.id \in Ids /\ Wrote(calls[c])
    BY OpenCall DEF Commit, At, StepsOf, Writing, Wrote
  <1>2. /\ calls \in [Calls -> CallRecords] /\ calls' = [calls EXCEPT ![c] = call]
        /\ UNCHANGED <<ledger, begun>> /\ creds' = Visible(c)
        /\ outbox' = outbox \cup (IF req.op = "move" THEN {} ELSE {entry})
    BY TypesAreCalls DEF Commit, End, Become, Inv
  <1>3. call \in CallRecords /\ call.status = "ended"
    BY UnbornIsCall DEF Unborn
  <1> HIDE DEF call
  <1>4. calls' \in [Calls -> CallRecords]
    BY <1>2, <1>3
  <1>5. \A d \in Calls : Anchored(calls[d])'
    BY <1>2, <1>3 DEF Inv, Anchored
  <1>6. Isolated'
    BY <1>2, <1>3 DEF Inv, Isolated, Wrote
  <1>7. RevocationIsFinal'
    BY <1>2 DEF Inv, RevocationIsFinal
  <1>8. CASE req.op = "move"
    <2>1. creds' = creds /\ outbox' = outbox
      BY <1>2, <1>8 DEF Visible, WroteCredential
    <2>2. TypeOK'
      BY <1>2, <1>4, <2>1, CommitBatch DEF Inv, TypeOK, CallRecords
    <2>3. \A d \in Calls : CallFacts(calls[d])'
      BY <1>2, <1>3, <2>1 DEF Inv, CallFacts, Wrote
    <2>4. CredentialRows' /\ OutboxRows' /\ RevokedOnce' /\ LedgerFollowsTables'
      BY <1>2, <2>1 DEF Inv, CredentialRows, OutboxRows, RevokedOnce, LedgerFollowsTables
    <2> QED BY <1>5, <1>6, <1>7, <2>2, <2>3, <2>4, CommitBatch DEF Inv
  <1>9. CASE req.op # "move"
    <2>1. /\ creds' = [creds EXCEPT ![req.id] = vc] /\ outbox' = outbox \cup {entry}
          /\ creds \in [Ids -> Credentials \cup {None}] /\ req.id \in Ids
      BY <1>1, <1>2, <1>9 DEF Visible, WroteCredential, Open, Inv, TypeOK
    <2>2. /\ vc \in Credentials /\ vc # None
          /\ \/ req.op = "issue" /\ vc.status = "valid" /\ creds[req.id] = None
             \/ req.op = "revoke" /\ vc.status = "revoked"
                /\ creds[req.id] # None /\ creds[req.id].status = "valid"
      BY <1>1, <1>9, ComplianceAssumption DEF CallFacts
    <2>3. /\ creds'[req.id] = vc
          /\ \A id \in Ids \ {req.id} : creds'[id] = creds[id]
      BY <2>1
    <2>4. TypeOK'
      <3>1. creds' \in [Ids -> Credentials \cup {None}]
        BY <2>1, <2>2
      <3> DEFINE announcements == {"recalled", "restored", "withheld", None}
      <3>4. Announced(calls[c]) \in announcements
        BY DEF Announced
      <3>2. entry \in [op : {"issue", "revoke"}, id : Ids, call : Calls,
                      announced : announcements]
        BY <2>1, <2>2, <3>4
      <3> HIDE DEF entry
      <3>3. outbox' \subseteq [op : {"issue", "revoke"}, id : Ids, call : Calls,
                              announced : announcements]
        BY <2>1, <3>2 DEF Inv, TypeOK
      <3> QED BY <1>2, <1>4, <3>1, <3>3, CommitBatch DEF Inv, TypeOK, CallRecords
    <2>5. \A d \in Calls : CallFacts(calls[d])'
      <3>1. CallFacts(calls[c])'
        BY <1>2, <1>3 DEF CallFacts, Wrote
      <3>2. ASSUME NEW d \in Calls \ {c} PROVE CallFacts(calls[d])'
        <4>1. CallFacts(calls[d]) /\ calls'[d] = calls[d]
          BY <1>2 DEF Inv
        <4>2. calls[d].status = "open" /\ calls[d].req.op # "move" => calls[d].req.id \in Ids
          BY <4>1, RequestKinds DEF CallFacts
        <4>3. Wrote(calls[d]) => calls[d].req.id # req.id
          BY <1>1, <1>9 DEF Inv, Isolated
        <4>4. calls[d].status = "open" /\ calls[d].step = "update" => calls[d].req.op # "move"
          BY <4>1 DEF CallFacts, StepsOf
        <4> QED BY <2>2, <2>3, <4>1, <4>2, <4>3, <4>4 DEF CallFacts, Wrote
      <3> QED BY <3>1, <3>2
    <2>6. CredentialRows'
      BY <1>2, <2>2, <2>3 DEF Inv, CredentialRows
    <2>7. \A e \in outbox : e.op = "revoke" => e.id \in Ids /\ e.id # req.id
      BY <2>2 DEF Inv, OutboxRows, TypeOK
    <2>8. entry.op = req.op /\ entry.id = req.id
      OBVIOUS
    <2> HIDE DEF entry
    <2>9. OutboxRows'
      BY <2>1, <2>2, <2>3, <2>7, <2>8 DEF Inv, OutboxRows
    <2>10. RevokedOnce'
      BY <2>1, <2>7, <2>8 DEF Inv, RevokedOnce
    <2>11. LedgerFollowsTables'
      BY <1>1, <1>2, <1>9, <2>3 DEF Inv, LedgerFollowsTables, Anchored
    <2> QED BY <1>5, <1>6, <1>7, <2>4, <2>5, <2>6, <2>9, <2>10, <2>11, CommitBatch DEF Inv
  <1> QED BY <1>8, <1>9

\* Every step keeps the invariant.
LEMMA NextInv == Inv /\ [Next]_vars => Inv'
PROOF
  <1> SUFFICES ASSUME Inv, [Next]_vars PROVE Inv'
    OBVIOUS
  <1>1. CASE UNCHANGED vars
    <2>1. UNCHANGED <<creds, goods, events, outbox, ledger, begun, calls>>
      BY <1>1 DEF vars, tables
    <2> QED BY <2>1 DEF Inv, TypeOK, CallFacts, Anchored, Wrote, Isolated, CredentialRows,
                        OutboxRows, LogsHaveLast, RevokedOnce, LedgerFollowsTables,
                        RevocationIsFinal
  <1>2. ASSUME NEW c \in Calls, NEW req \in Requests, Begin(c, req) PROVE Inv'
    BY <1>2, BeginStep
  <1>3. ASSUME NEW c \in Calls, Serve(c) PROVE Inv'
    BY <1>3, InsertStep, FindStep, UpdateStatusStep, AssessStep, RecomputeStep, ReadStateStep,
       CheckPolicyStep, ReadActiveStep, MarkStep, AnchorStep, CommitStep DEF Serve
  <1>4. ASSUME NEW c \in Calls, Fail(c) PROVE Inv'
    BY <1>4, EndStep DEF Fail
  <1> QED BY <1>1, <1>2, <1>3, <1>4 DEF Next, Terminated
-----------------------------------------------------------------------------
\* The inductive invariant holds in every reachable state.
THEOREM ComplianceInvariance == Spec => []Inv
PROOF
  BY InitInv, NextInv, PTL DEF Spec

\* The tables, the ledger and the calls keep their types.
THEOREM ComplianceTypeOK == Spec => []TypeOK
PROOF
  <1>1. Inv => TypeOK
    BY DEF Inv
  <1> QED BY <1>1, ComplianceInvariance, PTL

\* A credential is revoked once however its revocations overlap.
THEOREM RevokedOnceHolds == Spec => []RevokedOnce
PROOF
  <1>1. Inv => RevokedOnce
    BY DEF Inv
  <1> QED BY <1>1, ComplianceInvariance, PTL

\* The ledger has what the tables show of a credential.
THEOREM LedgerFollowsTablesHolds == Spec => []LedgerFollowsTables
PROOF
  <1>1. Inv => LedgerFollowsTables
    BY DEF Inv
  <1> QED BY <1>1, ComplianceInvariance, PTL

\* On the ledger nothing but revocations follows a revocation.
THEOREM RevocationIsFinalHolds == Spec => []RevocationIsFinal
PROOF
  <1>1. Inv => RevocationIsFinal
    BY DEF Inv
  <1> QED BY <1>1, ComplianceInvariance, PTL
-----------------------------------------------------------------------------
(* A recomputation that overlaps no other call.                            *)

\* The clock is ahead of every call and event.
Clock == /\ \A e \in events : e.now <= begun
         /\ \A c \in Calls : calls[c].now <= begun

\* The credentials as a call sees them.
Seen(call) == IF Wrote(call) THEN [creds EXCEPT ![call.req.id] = call.vc] ELSE creds

\* What a recomputing call has read is what the tables have.
Learned(call) ==
  /\ call.step \in {"state", "active", "mark", "anchor", "commit"} =>
       call.types = TypesOf(Seen(call), call.req.subject, call.now)
  /\ call.step \in {"active", "mark", "anchor", "commit"} =>
       \A b \in Batches : b = call.req.subject =>
         call.from = CurrentState(b) /\ call.to = Recomputed(b, call.from, call.types, call.now)

AloneFacts(c) == Open(c) /\ calls[c].alone =>
  /\ \A d \in Calls \ {c} : ~ Open(d)
  /\ \A e \in events : e.now < calls[c].now
  /\ calls[c].req.op # "move" => Learned(calls[c])

AloneInv == Clock /\ \A c \in Calls : AloneFacts(c)

LEMMA SameState ==
  ASSUME NEW b, UNCHANGED <<goods, events>>
  PROVE  CurrentState(b)' = CurrentState(b)
PROOF
  BY DEF CurrentState

LEMMA InitAlone == Init => AloneInv
PROOF
  BY DEF Init, AloneInv, Clock, AloneFacts, Open, Unborn

\* A call that moves on has learned what the tables have.
LEMMA AloneOwn ==
  ASSUME Inv, AloneInv, NEW c \in Calls, NEW call \in CallRecords, Open(c),
         Become(c, call), UNCHANGED <<tables, begun>>,
         call.status = "open" => call.alone = calls[c].alone /\ call.now = calls[c].now,
         call.status # "open" => call.now = 0,
         call.status = "open" /\ call.alone /\ call.req.op # "move" => Learned(call)
  PROVE  AloneInv'
PROOF
  <1>1. /\ calls' = [calls EXCEPT ![c] = call] /\ calls \in [Calls -> CallRecords]
        /\ UNCHANGED <<creds, goods, events, begun>> /\ begun \in Nat
    BY TypesAreCalls DEF Become, tables, Inv, TypeOK
  <1>2. Clock'
    BY <1>1 DEF AloneInv, Clock
  <1>3. AloneFacts(c)'
    <2>1. CASE call.status = "open" /\ call.alone
      <3>1. /\ \A d \in Calls \ {c} : ~ Open(d)
            /\ \A e \in events : e.now < calls[c].now
        BY <2>1 DEF AloneInv, AloneFacts
      <3>2. \A d \in Calls \ {c} : ~ Open(d)'
        BY <1>1, <3>1 DEF Open
      <3>3. \A e \in events' : e.now < calls'[c].now
        BY <1>1, <2>1, <3>1
      <3>4. ASSUME calls'[c].req.op # "move" PROVE Learned(calls[c])'
        <4>1. Learned(call) /\ calls'[c] = call
          BY <1>1, <2>1, <3>4
        <4>2. \A b \in Batches : CurrentState(b)' = CurrentState(b)
          BY <1>1, SameState
        <4> QED BY <1>1, <4>1, <4>2 DEF Learned, Seen, Wrote
      <3> QED BY <3>2, <3>3, <3>4 DEF AloneFacts
    <2>2. CASE ~(call.status = "open" /\ call.alone)
      BY <1>1, <2>2 DEF AloneFacts, Open
    <2> QED BY <2>1, <2>2
  <1>4. ASSUME NEW d \in Calls \ {c} PROVE AloneFacts(d)'
    <2>1. ~(Open(d) /\ calls[d].alone) /\ calls'[d] = calls[d]
      BY <1>1 DEF AloneInv, AloneFacts
    <2> QED BY <2>1 DEF AloneFacts, Open
  <1> QED BY <1>2, <1>3, <1>4 DEF AloneInv

LEMMA AloneEnd ==
  ASSUME Inv, AloneInv, NEW c \in Calls, Open(c), End(c), UNCHANGED <<tables, begun>>
  PROVE  AloneInv'
PROOF
  <1> DEFINE call == [Unborn EXCEPT !.status = "ended"]
  <1>1. call \in CallRecords /\ call.status = "ended" /\ call.now = 0
    BY UnbornIsCall DEF Unborn
  <1>2. Become(c, call)
    BY DEF End
  <1> HIDE DEF call
  <1> QED BY <1>1, <1>2, AloneOwn

LEMMA AloneBegin ==
  ASSUME Inv, AloneInv, NEW c \in Calls, NEW req \in Requests, Begin(c, req)
  PROVE  AloneInv'
PROOF
  <1> DEFINE alone == \A d \in Calls : ~ Open(d)
             step == CASE req.op = "issue" -> "insert"
                       [] req.op = "revoke" -> "find"
                       [] req.op = "move" -> "state"
             new == [Unborn EXCEPT !.status = "open", !.req = req, !.now = begun + 1,
                                   !.alone = alone, !.step = step]
  <1>1. req.op # "move" => step \in {"insert", "find"}
    BY RequestKinds
  <1>2. /\ UNCHANGED <<creds, goods, events>> /\ begun' = begun + 1
        /\ calls' = [d \in Calls |->
             IF d # c THEN [calls[d] EXCEPT !.alone = IF Open(d) THEN FALSE ELSE @] ELSE new]
        /\ calls \in [Calls -> CallRecords] /\ begun \in Nat
        /\ \A e \in events : e.now \in Nat
    BY TypesAreCalls DEF Begin, tables, Inv, TypeOK
  <1> HIDE DEF step
  <1>3. /\ new.status = "open" /\ new.req = req /\ new.now = begun + 1 /\ new.step = step
        /\ new.alone = alone
    BY DEF Unborn
  <1> HIDE DEF new
  <1>4. calls'[c] = new /\ \A d \in Calls \ {c} :
          /\ calls'[d].status = calls[d].status /\ calls'[d].now = calls[d].now
          /\ Open(d) => calls'[d].alone = FALSE
    BY <1>2 DEF CallRecords
  <1>5. Clock'
    <2>1. \A d \in Calls : calls[d].now \in Nat
      BY <1>2 DEF CallRecords
    <2> QED BY <1>2, <1>3, <1>4, <2>1 DEF AloneInv, Clock
  <1>6. AloneFacts(c)'
    <2>1. \A e \in events' : e.now < calls'[c].now
      BY <1>2, <1>3, <1>4 DEF AloneInv, Clock
    <2>2. alone => \A d \in Calls \ {c} : ~ Open(d)'
      BY <1>4 DEF Open
    <2>3. calls'[c].req.op # "move" => calls'[c].step \in {"insert", "find"}
      BY <1>1, <1>3, <1>4
    <2> HIDE DEF alone
    <2>4. calls'[c].req.op # "move" => Learned(calls[c])'
      BY <2>3 DEF Learned
    <2> QED BY <1>3, <1>4, <2>1, <2>2, <2>4 DEF AloneFacts
  <1>7. ASSUME NEW d \in Calls \ {c} PROVE AloneFacts(d)'
    BY <1>4 DEF AloneFacts, Open
  <1> QED BY <1>5, <1>6, <1>7 DEF AloneInv

\* A call that has not read anything has nothing to be wrong about.
LEMMA AloneEarly ==
  ASSUME Inv, AloneInv, NEW c \in Calls, Insert(c) \/ Find(c) \/ UpdateStatus(c)
  PROVE  AloneInv'
PROOF
  <1>1. /\ Open(c) /\ calls[c] \in CallRecords /\ UNCHANGED <<tables, begun>>
        /\ Inv' /\ calls \in [Calls -> CallRecords]
    BY OpenCall, InsertStep, FindStep, UpdateStatusStep, TypesAreCalls
       DEF Insert, Find, UpdateStatus, At, Inv
  <1>2. CASE End(c)
    BY <1>1, <1>2, AloneEnd
  <1>3. ASSUME NEW step \in {"assess", "update"}, NEW vc,
               Become(c, [calls[c] EXCEPT !.step = step, !.vc = vc])
        PROVE  AloneInv'
    <2> DEFINE call == [calls[c] EXCEPT !.step = step, !.vc = vc]
    <2>1. call \in CallRecords
      <3>1. calls' \in [Calls -> CallRecords] /\ calls'[c] = call
        BY <1>1, <1>3, TypesAreCalls DEF Become, Inv, TypeOK, CallRecords
      <3> QED BY <3>1
    <2>2. /\ call.status = calls[c].status /\ call.alone = calls[c].alone
          /\ call.now = calls[c].now /\ call.step = step
      BY <1>1 DEF CallRecords
    <2>3. calls[c].status = "open"
      BY <1>1 DEF Open
    <2> HIDE DEF call
    <2>4. Learned(call)
      BY <2>2 DEF Learned
    <2>5. Become(c, call)
      BY <1>3 DEF call
    <2> QED BY <1>1, <2>1, <2>2, <2>3, <2>4, <2>5, AloneOwn
  <1> QED BY <1>1, <1>2, <1>3 DEF Insert, Find, UpdateStatus

LEMMA AloneAssess ==
  ASSUME Inv, AloneInv, NEW c \in Calls, Assess(c)
  PROVE  AloneInv'
PROOF
  <1> DEFINE kinds == TypesOf(Visible(c), Batch(c), calls[c].now)
             call == [calls[c] EXCEPT !.step = "state", !.types = kinds]
  <1>1. /\ Open(c) /\ calls[c] \in CallRecords /\ UNCHANGED <<tables, begun>>
        /\ calls[c].status = "open" /\ calls[c].step = "assess"
        /\ calls[c].req.op \in {"issue", "revoke"} /\ Batch(c) \in Batches
    BY OpenCall DEF Assess, At, StepsOf, Writing
  <1>2. CASE ~HasJurisdiction(Batch(c))
    BY <1>1, <1>2, AloneEnd DEF Assess
  <1>3. CASE HasJurisdiction(Batch(c))
    <2>1. Become(c, call)
      BY <1>3 DEF Assess
    <2>2. kinds \in SUBSET Types
      <3>1. calls[c].now \in Nat
        BY <1>1 DEF CallRecords
      <3> QED BY <1>1, <3>1, VisibleType, TypesOfType
    <2>3. Visible(c) = Seen(calls[c])
      BY DEF Visible, Seen, WroteCredential, Wrote, Writing, Open
    <2> HIDE DEF kinds
    <2>4. call \in CallRecords
      BY <1>1, <2>2, LearnedTypes
    <2>5. /\ call.status = "open" /\ call.step = "state" /\ call.req = calls[c].req
          /\ call.vc = calls[c].vc /\ call.now = calls[c].now /\ call.alone = calls[c].alone
          /\ call.types = kinds
      BY <1>1, <2>4 DEF CallRecords
    <2> HIDE DEF call
    <2>6. Seen(call) = Seen(calls[c])
      BY <1>1, <2>5 DEF Seen, Wrote, Writing
    <2>7. Learned(call)
      BY <2>3, <2>5, <2>6 DEF Learned, kinds, Batch
    <2> QED BY <1>1, <2>1, <2>4, <2>5, <2>7, AloneOwn
  <1> QED BY <1>2, <1>3

LEMMA AloneRecompute ==
  ASSUME Inv, AloneInv, NEW c \in Calls, Recompute(c)
  PROVE  AloneInv'
PROOF
  <1> DEFINE from == CurrentState(Batch(c))
             to == Recomputed(Batch(c), from, calls[c].types, calls[c].now)
             step == CASE to = None -> "anchor" [] to = "recalled" -> "active"
                       [] to = "available" -> "mark"
             call == [calls[c] EXCEPT !.from = from, !.to = to, !.active = TRUE, !.step = step]
  <1>1. /\ Open(c) /\ calls[c] \in CallRecords /\ UNCHANGED <<tables, begun>>
        /\ calls[c].status = "open" /\ calls[c].step = "state"
        /\ calls[c].req.op \in {"issue", "revoke"} /\ Batch(c) \in Batches
    BY OpenCall DEF Recompute, At
  <1>2. from \in LifecycleStates /\ to \in {"recalled", "available", None}
    BY <1>1, CurrentStateType, RecomputedType
  <1>3. Become(c, call)
    BY DEF Recompute
  <1>4. \A b \in Batches : b = calls[c].req.subject =>
          from = CurrentState(b) /\ to = Recomputed(b, from, calls[c].types, calls[c].now)
    BY DEF Batch
  <1> HIDE DEF from, to
  <1>5. step \in {"anchor", "active", "mark"}
    BY <1>2, ComplianceAssumption DEF LifecycleStates
  <1> HIDE DEF step
  <1>6. call \in CallRecords
    <2>1. step \in Steps /\ to \in LifecycleStates \cup {None}
      BY <1>2, <1>5 DEF Steps, LifecycleStates
    <2> QED BY <1>1, <1>2, <2>1, LearnedTarget
  <1>7. /\ call.status = "open" /\ call.step = step /\ call.req = calls[c].req
        /\ call.vc = calls[c].vc /\ call.now = calls[c].now /\ call.alone = calls[c].alone
        /\ call.types = calls[c].types /\ call.from = from /\ call.to = to
    BY <1>1 DEF CallRecords
  <1> HIDE DEF call
  <1>8. Seen(call) = Seen(calls[c])
    BY <1>1, <1>5, <1>7 DEF Seen, Wrote, Writing
  <1>9. call.alone => Learned(call)
    <2>1. call.alone => Learned(calls[c])
      BY <1>1, <1>7 DEF AloneInv, AloneFacts
    <2>2. call.alone => call.types = TypesOf(Seen(call), call.req.subject, call.now)
      BY <1>1, <1>7, <1>8, <2>1 DEF Learned
    <2> QED BY <1>4, <1>7, <2>2 DEF Learned
  <1> QED BY <1>1, <1>3, <1>6, <1>7, <1>9, AloneOwn

\* Moves along the lifecycle.
LEMMA AloneMove ==
  ASSUME Inv, AloneInv, NEW c \in Calls, ReadState(c) \/ CheckPolicy(c)
  PROVE  AloneInv'
PROOF
  <1>1. /\ Open(c) /\ calls[c] \in CallRecords /\ UNCHANGED <<tables, begun>>
        /\ Inv' /\ calls[c].req.op = "move" /\ calls[c].status = "open"
    BY OpenCall, ReadStateStep, CheckPolicyStep DEF ReadState, CheckPolicy, At, StepsOf, Writing
  <1>2. CASE End(c)
    BY <1>1, <1>2, AloneEnd
  <1>3. ASSUME NEW call, Become(c, call), call.status = "open", call.req = calls[c].req,
               call.alone = calls[c].alone, call.now = calls[c].now
        PROVE  AloneInv'
    <2>1. call \in CallRecords
      <3>1. calls' \in [Calls -> CallRecords] /\ calls'[c] = call
        BY <1>1, <1>3, TypesAreCalls DEF Become, Inv, TypeOK, CallRecords
      <3> QED BY <3>1
    <2> QED BY <1>1, <1>3, <2>1, AloneOwn
  <1>4. ASSUME NEW call, Become(c, call),
               \/ call = [calls[c] EXCEPT !.from = CurrentState(Batch(c)), !.step = "policy"]
               \/ call = [calls[c] EXCEPT !.to = calls[c].req.to, !.step = "active"]
        PROVE  AloneInv'
    <2>1. /\ call.status = "open" /\ call.req = calls[c].req
          /\ call.alone = calls[c].alone /\ call.now = calls[c].now
      BY <1>1, <1>4 DEF CallRecords
    <2> QED BY <1>3, <1>4, <2>1
  <1> QED BY <1>2, <1>4 DEF ReadState, CheckPolicy

\* The steps that write what was decided.
LEMMA AloneLate ==
  ASSUME Inv, AloneInv, NEW c \in Calls, ReadActive(c) \/ Mark(c) \/ Anchor(c)
  PROVE  AloneInv'
PROOF
  <1>1. /\ Open(c) /\ calls[c] \in CallRecords /\ UNCHANGED <<tables, begun>>
        /\ calls[c].status = "open" /\ calls[c].step \in {"active", "mark", "anchor"}
        /\ calls[c].req.op \in {"issue", "revoke", "move"}
    BY OpenCall DEF ReadActive, Mark, Anchor, At
  <1>2. ASSUME NEW active \in BOOLEAN, NEW step \in {"mark", "anchor", "commit"},
               Become(c, [calls[c] EXCEPT !.active = active, !.step = step])
        PROVE  AloneInv'
    <2> DEFINE call == [calls[c] EXCEPT !.active = active, !.step = step]
    <2>1. /\ call \in CallRecords
          /\ call.status = "open" /\ call.step = step /\ call.req = calls[c].req
          /\ call.vc = calls[c].vc /\ call.now = calls[c].now /\ call.alone = calls[c].alone
          /\ call.types = calls[c].types /\ call.from = calls[c].from /\ call.to = calls[c].to
      BY <1>1 DEF CallRecords, Steps
    <2>2. Become(c, call)
      BY <1>2
    <2> HIDE DEF call
    <2>3. Seen(call) = Seen(calls[c])
      BY <1>1, <2>1 DEF Seen, Wrote, Writing
    <2>4. call.alone /\ call.req.op # "move" => Learned(call)
      BY <1>1, <2>1, <2>3 DEF AloneInv, AloneFacts, Learned
    <2> QED BY <1>1, <2>1, <2>2, <2>4, AloneOwn
  <1>3. CASE ReadActive(c)
    <2> DEFINE active == (calls[c].to = "available")
                         \/ (calls[c].to # "delisted" /\ goods[Batch(c)].active)
    <2>1. active \in BOOLEAN
      OBVIOUS
    <2>2. Become(c, [calls[c] EXCEPT !.step = "mark", !.active = active])
      BY <1>3 DEF ReadActive
    <2> HIDE DEF active
    <2>3. [calls[c] EXCEPT !.step = "mark", !.active = active]
            = [calls[c] EXCEPT !.active = active, !.step = "mark"]
      BY <1>1 DEF CallRecords
    <2> QED BY <1>2, <2>1, <2>2, <2>3
  <1>4. CASE Mark(c) \/ Anchor(c)
    <2>1. PICK step \in {"anchor", "commit"} : Become(c, [calls[c] EXCEPT !.step = step])
      BY <1>4 DEF Mark, Anchor, Goto
    <2>2. [calls[c] EXCEPT !.step = step]
            = [calls[c] EXCEPT !.active = calls[c].active, !.step = step]
      BY <1>1 DEF CallRecords
    <2>3. calls[c].active \in BOOLEAN
      BY <1>1 DEF CallRecords
    <2> QED BY <1>2, <2>1, <2>2, <2>3
  <1> QED BY <1>3, <1>4

LEMMA AloneCommit ==
  ASSUME Inv, AloneInv, NEW c \in Calls, Commit(c)
  PROVE  AloneInv'
PROOF
  <1> DEFINE call == [Unborn EXCEPT !.status = "ended"]
             new == [subject |-> Batch(c), from |-> calls[c].from, to |-> calls[c].to,
                     now |-> calls[c].now]
  <1>1. /\ Open(c) /\ calls \in [Calls -> CallRecords] /\ begun' = begun
        /\ calls' = [calls EXCEPT ![c] = call] /\ begun \in Nat
    BY TypesAreCalls DEF Commit, At, End, Become, Inv, TypeOK
  <1>2. call.status = "ended" /\ call.now = 0
    BY DEF Unborn
  <1>3. events' \subseteq events \cup {new}
    BY DEF Commit
  <1>4. new.now <= begun
    BY DEF AloneInv, Clock
  <1> HIDE DEF call, new
  <1>5. Clock'
    BY <1>1, <1>2, <1>3, <1>4 DEF AloneInv, Clock
  <1>6. ASSUME NEW d \in Calls \ {c} PROVE AloneFacts(d)'
    <2>1. ~(Open(d) /\ calls[d].alone) /\ calls'[d] = calls[d]
      BY <1>1 DEF AloneInv, AloneFacts
    <2> QED BY <2>1 DEF AloneFacts, Open
  <1>7. AloneFacts(c)'
    BY <1>1, <1>2 DEF AloneFacts, Open
  <1> QED BY <1>5, <1>6, <1>7 DEF AloneInv

LEMMA NextAlone == Inv /\ AloneInv /\ [Next]_vars => AloneInv'
PROOF
  <1> SUFFICES ASSUME Inv, AloneInv, [Next]_vars PROVE AloneInv'
    OBVIOUS
  <1>1. CASE UNCHANGED vars
    <2>1. UNCHANGED <<creds, goods, events, begun, calls>>
      BY <1>1 DEF vars, tables
    <2>2. \A b \in Batches : CurrentState(b)' = CurrentState(b)
      BY <2>1, SameState
    <2>3. ASSUME NEW c \in Calls PROVE AloneFacts(c)'
      <3>1. AloneFacts(c) /\ (Learned(calls[c]) => Learned(calls[c])')
        BY <2>1, <2>2 DEF AloneInv, Learned, Seen, Wrote
      <3> QED BY <2>1, <3>1 DEF AloneFacts, Open
    <2>4. Clock'
      BY <2>1 DEF AloneInv, Clock
    <2> QED BY <2>3, <2>4 DEF AloneInv
  <1>2. ASSUME NEW c \in Calls, NEW req \in Requests, Begin(c, req) PROVE AloneInv'
    BY <1>2, AloneBegin
  <1>3. ASSUME NEW c \in Calls, Serve(c) PROVE AloneInv'
    BY <1>3, AloneEarly, AloneAssess, AloneRecompute, AloneMove, AloneLate, AloneCommit DEF Serve
  <1>4. ASSUME NEW c \in Calls, Fail(c) PROVE AloneInv'
    BY <1>4, AloneEnd DEF Fail
  <1> QED BY <1>1, <1>2, <1>3, <1>4 DEF Next, Terminated

\* The latest event of a log is its state.
LEMMA LatestEvent ==
  ASSUME NEW new \in events', events' = events \cup {new},
         \A e \in events : e.now < new.now, \A e \in events' : e.now \in Nat
  PROVE  CurrentState(new.subject)' = new.to
PROOF
  <1> DEFINE b == new.subject
             log == {e \in events' : e.subject = b}
  <1>1. new \in log /\ \A d \in log : d.now <= new.now
    OBVIOUS
  <1>2. \A e \in log : (\A d \in log : d.now <= e.now) => e = new
    OBVIOUS
  <1>3. (CHOOSE e \in log : \A d \in log : d.now <= e.now) = new
    BY <1>1, <1>2
  <1>4. CurrentState(b)' = IF log = {} THEN goods'[b].state
          ELSE (CHOOSE e \in log : \A d \in log : d.now <= e.now).to
    BY DEF CurrentState
  <1> QED BY <1>1, <1>3, <1>4

\* What a recomputation decided is enough.
LEMMA RecallStep ==
  ASSUME Inv, AloneInv, NEW c \in Calls, Recomputes(c), calls[c].alone,
         NEW b, b = Batch(c), NEW now, now = calls[c].now
  PROVE  Enforced(b, now)'
PROOF
  <1> DEFINE from == calls[c].from
             to == calls[c].to
             missing == Missing(Policies[b], calls[c].types, now)
             new == [subject |-> b, from |-> from, to |-> to, now |-> now]
  <1>1. /\ Commit(c) /\ calls[c].req.op # "move" /\ calls[c].status = "open"
        /\ calls[c].step = "commit" /\ b \in Batches /\ b = calls[c].req.subject
        /\ calls[c] \in CallRecords /\ AloneFacts(c)
    BY OpenCall DEF Recomputes, Commit, At, Batch, AloneInv
  <1>2. /\ Learned(calls[c]) /\ \A e \in events : e.now < now
    BY <1>1 DEF AloneFacts, Open
  <1>3. /\ calls[c].types = TypesOf(Seen(calls[c]), b, now)
        /\ from = CurrentState(b) /\ to = Recomputed(b, from, calls[c].types, now)
    BY <1>1, <1>2 DEF Learned
  <1>4. creds' = Seen(calls[c])
    BY <1>1 DEF Commit, Visible, Seen, WroteCredential, Wrote, Writing, Open
  <1>5. TypesOf(creds, b, now)' = calls[c].types
    BY <1>3, <1>4
  <1>6. CASE missing = {}
    <2>1. Missing(Policies[b], TypesOf(creds, b, now), now)' = {}
      BY <1>5, <1>6
    <2> QED BY <2>1 DEF Enforced
  <1>7. CASE missing # {} /\ from \in Final \cup {"recalled"}
    <2>1. to = None
      BY <1>3, <1>7 DEF Recomputed
    <2>2. CurrentState(b)' = from
      BY <1>1, <1>3, <2>1, SameState DEF Commit
    <2> QED BY <1>7, <2>2 DEF Enforced
  <1>8. CASE missing # {} /\ from \notin Final \cup {"recalled"}
    <2>1. to = "recalled"
      BY <1>3, <1>8 DEF Recomputed
    <2>2. to # None
      BY <2>1, ComplianceAssumption DEF LifecycleStates
    <2>3. events' = events \cup {new}
      BY <1>1, <2>2 DEF Commit
    <2>4. \A e \in events' : e.now \in Nat
      BY NextInv, <1>1, CommitStep DEF Inv, TypeOK
    <2>5. new \in events' /\ new.subject = b /\ new.to = "recalled" /\ new.now = now
      BY <2>1, <2>3
    <2> HIDE DEF new
    <2>6. CurrentState(b)' = "recalled"
      BY <1>2, <2>3, <2>4, <2>5, LatestEvent
    <2> QED BY <2>6 DEF Enforced
  <1> QED BY <1>6, <1>7, <1>8

\* A recomputation that overlapped no other call leaves its batch recalled, or
\* final, or with all that its policies require.
THEOREM RecallFollowsHolds == Spec => RecallFollows
PROOF
  <1>1. Inv /\ AloneInv /\ [Next]_vars =>
          [\A c \in Calls : Recomputes(c) /\ calls[c].alone =>
             \A b \in {Batch(c)}, now \in {calls[c].now} : Enforced(b, now)']_vars
    BY RecallStep
  <1> QED BY <1>1, ComplianceInvariance, InitInv, NextInv, InitAlone, NextAlone, PTL
          DEF Spec, RecallFollows
=============================================================================
