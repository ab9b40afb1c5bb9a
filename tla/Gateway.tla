------------------------------- MODULE Gateway -------------------------------
(* The HTTP server in front of the engine: VG-SIG authentication, the DID     *)
(* documents it reads, the nonces it remembers, and the handlers that write   *)
(* without an intent (documents, data access grants, policies). Each call     *)
(* takes its own short transactions, so that calls interleave between the     *)
(* check of the signature, the nonce, the kind of the signer and the effect;  *)
(* the server may stop and start again between any two of them.               *)
EXTENDS DidDocuments, NonceStore, McpTools, Integers

CONSTANTS Calls,         \* the requests in progress at one time
          Datasets,      \* "shielded:extra" is the one decrypt asks for
          PolicyIds, PolicyVersions,
          PolicyTerms,   \* what the anchor of a policy hashes
          StoredIntents, \* the intents table, by id
          Requests,      \* the requests that may arrive, by scenario
          Drift,         \* MAX_CLOCK_DRIFT_SECS
          \* bounds, by scenario
          MaxNow, MaxArrivals, MaxRestarts

ASSUME GatewayAssumption ==
    /\ Drift \in Nat
    /\ \A bound \in {MaxNow, MaxArrivals, MaxRestarts} : bound \in [DOMAIN Requests -> Nat]
    /\ "shielded:extra" \in Datasets

\* What a request carries by the time a handler has read it.
ASSUME RequestsAssumption ==
    \A s \in DOMAIN Requests : \A r \in Requests[s] :
        /\ r.did \in Keys /\ r.key \in Keys /\ r.nonce \in Nonces /\ r.ts \in Int
        /\ r.op \in {"register", "update"} => r.arg \in Submitted
        /\ r.op = "grant" =>
              /\ r.arg.grantee \in Keys /\ r.arg.dataset \in Datasets /\ r.arg.until \in Int

VARIABLES scenario,      \* which set of requests this behaviour draws from
          calls,         \* the step each call is at, its request, and how many
                         \* versions its signer's document had at its arrival
          grants,        \* data_access_grants: until when, 0 when there is none
          policies,      \* the policies table
          saved,         \* every policy that was ever committed (history)
          anchors,       \* the PolicyRegistered anchors of the ledger
          now, arrivals, restarts

tables == <<grants, policies, saved, anchors>>
clock  == <<scenario, now, arrivals, restarts>>
vars   == <<history, seen, accepted, calls, tables, clock>>

Idle == [pc |-> "idle"]
Busy(pc, r, from) == [pc |-> pc, req |-> r, from |-> from, at |-> now]
InState(c, pc) == calls[c].pc = pc
Request(c) == calls[c].req
Move(c, pc) == calls' = [calls EXCEPT ![c].pc = pc]
Leave(c)    == calls' = [calls EXCEPT ![c] = Idle]

Init ==
    /\ HistoryInit /\ NoncesInit
    /\ scenario \in DOMAIN Requests
    /\ calls = [c \in Calls |-> Idle]
    /\ grants = [g \in Keys \X Datasets |-> 0]
    /\ policies = [p \in PolicyIds \X PolicyVersions |-> {}]
    /\ saved = {} /\ anchors = {}
    /\ now = 0 /\ arrivals = 0 /\ restarts = 0

---------------------------------------------------------------------------
(* vg_sig_auth                                                                *)

\* The white list: POST of a document needs no signature.
Unsigned(r) == r.op = "register"

\* The drift of the header against the clock of the server.
InWindow(r) == r.ts <= now + Drift /\ now <= r.ts + Drift

\* A request arrives; a header outside the window is refused at once.
Arrive(c) ==
    /\ InState(c, "idle") /\ arrivals < MaxArrivals[scenario]
    /\ \E r \in Requests[scenario] :
         /\ Unsigned(r) \/ InWindow(r)
         /\ calls' = [calls EXCEPT ![c] =
               Busy(IF Unsigned(r) THEN "handle" ELSE "signed", r, Len(history[r.did]))]
    /\ arrivals' = arrivals + 1
    /\ UNCHANGED <<history, nonceVars, tables, scenario, now, restarts>>

\* Mutant: any key of the document will do.
AnyKeyMatches(r) ==
    Registered(r.did) /\ \E m \in Current(r.did).methods : m.key = r.key

\* find_document and the comparison with the active key of the document.
KeyMatches(r) == Registered(r.did) /\ IsActive(Current(r.did), r.key)
Authenticate(c) ==
    /\ InState(c, "signed")
    /\ IF KeyMatches(Request(c)) THEN Move(c, "authentic") ELSE Leave(c)
    /\ UNCHANGED <<history, nonceVars, tables, clock>>

\* The routes that only a regulator may call.
Managed(r) == r.op \in {"grant", "policy"}

\* check_and_record, under the mutex of the store.
RecordNonce(c) ==
    /\ InState(c, "authentic")
    /\ ~IsReplay(Request(c).nonce)
    /\ Record(Request(c).nonce, Request(c).ts)
    /\ Move(c, IF Managed(Request(c)) THEN "managed" ELSE "handle")
    /\ UNCHANGED <<history, tables, clock>>
RefuseNonce(c) ==
    /\ InState(c, "authentic") /\ IsReplay(Request(c).nonce)
    /\ Leave(c)
    /\ UNCHANGED <<history, nonceVars, tables, clock>>

\* require_regulator: the kind in the document, read again.
IsRegulator(did) == Registered(did) /\ Current(did).kind = "regulator"
RequireRegulator(c) ==
    /\ InState(c, "managed")
    /\ IF IsRegulator(Request(c).did) THEN Move(c, "handle") ELSE Leave(c)
    /\ UNCHANGED <<history, nonceVars, tables, clock>>

---------------------------------------------------------------------------
(* The handlers                                                               *)

Handles(c, op) == InState(c, "handle") /\ Request(c).op = op
Refuse(c)      == Leave(c) /\ UNCHANGED <<history, nonceVars, tables, clock>>

\* register: self derived, valid, and inserted when there is none.
Register(c) ==
    /\ Handles(c, "register")
    /\ LET doc == Request(c).arg
       IN  IF ~SelfDerived(doc) \/ ~IsValid(doc) \/ RefusesInsert(doc) THEN Refuse(c)
           ELSE /\ InsertDocument(doc, doc.did, 0)
                /\ Move(c, "done")
                /\ UNCHANGED <<nonceVars, tables, clock>>

\* update: only one's own document.
Update(c) ==
    /\ Handles(c, "update")
    /\ LET doc == Request(c).arg
       IN  IF Request(c).did # doc.did \/ ~IsValid(doc) \/ RefusesSave(doc) THEN Refuse(c)
           ELSE /\ SaveDocument(doc, Request(c).key, calls[c].from)
                /\ Move(c, "done")
                /\ UNCHANGED <<nonceVars, tables, clock>>

\* grant_data_access: an upsert that only ever extends.
GrantDataAccess(grantee, dataset, until) ==
    grants' = [grants EXCEPT ![<<grantee, dataset>>] = IF until > @ THEN until ELSE @]
Grant(c) ==
    /\ Handles(c, "grant")
    /\ LET g == Request(c).arg IN GrantDataAccess(g.grantee, g.dataset, g.until)
    /\ Move(c, "done")
    /\ UNCHANGED <<history, nonceVars, policies, saved, anchors, clock>>

\* decrypt: the grant of the signer, read and compared with the clock.
MayDecrypt(did) == now < grants[<<did, "shielded:extra">>]
Decrypt(c) ==
    /\ Handles(c, "decrypt")
    /\ IF ~MayDecrypt(Request(c).did) THEN Leave(c)
       ELSE calls' = [calls EXCEPT ![c].pc = "done", ![c].at = now]
    /\ UNCHANGED <<history, nonceVars, tables, clock>>

\* save_policy: an upsert of all columns, by id and version.
UpsertPolicy(p) ==
    /\ policies' = [policies EXCEPT ![<<p.id, p.version>>] = {p.terms}]
    /\ saved' = saved \cup {p}

\* Mutant: a policy that exists already is left as it is.
SavePolicyOnce(c) ==
    /\ Handles(c, "policy")
    /\ LET p == Request(c).arg
       IN  IF policies[<<p.id, p.version>>] # {} THEN UNCHANGED <<policies, saved>>
           ELSE UpsertPolicy(p)
    /\ Move(c, "anchor")
    /\ UNCHANGED <<history, nonceVars, grants, anchors, clock>>

\* create of a policy: save_policy and commit, ...
SavePolicy(c) ==
    /\ Handles(c, "policy")
    /\ UpsertPolicy(Request(c).arg)
    /\ Move(c, "anchor")
    /\ UNCHANGED <<history, nonceVars, grants, anchors, clock>>

\* ... and the anchor last. The ledger of the chain refuses this kind of item.
AnchorPolicy(c) ==
    /\ InState(c, "anchor")
    /\ anchors' = anchors \cup {Request(c).arg}
    /\ Move(c, "done")
    /\ UNCHANGED <<history, nonceVars, grants, policies, saved, clock>>
RefuseAnchor(c) ==
    /\ InState(c, "anchor")
    /\ Leave(c)
    /\ UNCHANGED <<history, nonceVars, tables, clock>>

\* The intent of a write, through the interface it came in by.
IntentsOf(r) ==
    IF r.via = "rest" THEN RestIntent(r.did, r.arg.action, r.arg.path, r.arg.body)
    ELSE McpIntent(r.did, r.arg.action, r.arg.params)

\* The question of a read, through each interface that offers it, and the
\* answer, which is the same rows in any interface but for an intent.
QuestionsOf(read, via) ==
    LET way == read[via]
    IN  CASE via = "rest" -> RestRead(way.name, way.asked)
          [] via = "mcp"  -> McpRead(way.name, way.params)
          [] via = "uri"  -> ReadResource(way.scheme, way.segments)
AnswersOf(read, via) == {Answer(StoredIntents, q) : q \in QuestionsOf(read, via)}

\* A read is answered or refused, and changes nothing.
Read(c) ==
    /\ Handles(c, "read")
    /\ IF QuestionsOf(Request(c).arg, Request(c).via) = {} THEN Leave(c) ELSE Move(c, "done")
    /\ UNCHANGED <<history, nonceVars, tables, clock>>

\* run_intent and run_tool hand the signer and the intent to the engine.
Execute(c) ==
    /\ Handles(c, "write")
    /\ IF IntentsOf(Request(c)) = {} THEN Leave(c) ELSE Move(c, "done")
    /\ UNCHANGED <<history, nonceVars, tables, clock>>

\* approve hands the signer to the engine as the approver.
Approve(c) ==
    /\ Handles(c, "approve")
    /\ Move(c, "done")
    /\ UNCHANGED <<history, nonceVars, tables, clock>>

Reply(c) ==
    /\ InState(c, "done")
    /\ Leave(c)
    /\ UNCHANGED <<history, nonceVars, tables, clock>>

---------------------------------------------------------------------------
\* The process ends, with every call in it and every nonce it remembers.
Restart ==
    /\ restarts < MaxRestarts[scenario]
    /\ restarts' = restarts + 1
    /\ calls' = [c \in Calls |-> Idle]
    /\ NoncesReset
    /\ UNCHANGED <<history, tables, scenario, now, arrivals>>

Tick ==
    /\ now < MaxNow[scenario]
    /\ now' = now + 1
    /\ UNCHANGED <<history, nonceVars, calls, tables, scenario, arrivals, restarts>>

Step(c) ==
    \/ Arrive(c) \/ Authenticate(c) \/ RecordNonce(c) \/ RefuseNonce(c)
    \/ RequireRegulator(c) \/ Register(c) \/ Update(c) \/ Grant(c) \/ Decrypt(c)
    \/ SavePolicy(c) \/ AnchorPolicy(c) \/ RefuseAnchor(c)
    \/ Execute(c) \/ Approve(c) \/ Read(c) \/ Reply(c)

Next == Restart \/ Tick \/ \E c \in Calls : Step(c)

Spec == Init /\ [][Next]_vars

---------------------------------------------------------------------------
(* Properties                                                                 *)

\* What the engine makes of an intent: its payload read into the struct of the
\* handler; nothing when it does not parse.
Understood(intents) ==
    {[i EXCEPT !.payload = Struct(i.action, @)] :
        i \in {j \in intents : PayloadParses(j.action, j.payload)}}
HasUnknownFields(w) ==
    \E i \in RestIntent("", w.action, w.path, w.body) :
        ~(DOMAIN i.payload \subseteq DOMAIN Struct(i.action, i.payload))

\* The id of a resource is one segment that is not empty; elsewhere it is any
\* text.
IsOneSegment(read) == Len(read.uri.segments) = 2 /\ read.uri.segments[2] # ""

\* The same call means the same thing through REST and through MCP: what the
\* handler reads out of the payload of a write is equal, and one refuses when
\* the other does. The only difference is a field that neither knows: REST
\* passes it on to a struct that denies it, and MCP drops it. A read gives the
\* same answer wherever it is offered: the same rows, as far as they may be
\* shown.
InterfacesAgree ==
    \A c \in Calls : calls[c].pc # "idle" =>
        LET a == Request(c).arg
            did == Request(c).did
        IN  CASE Request(c).op = "write" ->
                    \/ HasUnknownFields(a)
                    \/ Understood(RestIntent(did, a.action, a.path, a.body))
                        = Understood(McpIntent(did, a.action, a.params))
              [] Request(c).op = "read" ->
                    \A v, w \in DOMAIN a :
                        \/ "uri" \in {v, w} /\ ~IsOneSegment(a)
                        \/ AnswersOf(a, v) = AnswersOf(a, w)
              [] OTHER -> TRUE

\* A nonce that was accepted and is forgotten gave way to newer ones: all the
\* entries but one are at least as new. So a header is accepted twice only
\* after a restart or after Capacity newer ones.
OldestIsForgottenFirst ==
    \A n \in Nonces : \A t \in accepted[n] :
        \/ n \in DOMAIN seen
        \/ Cardinality({m \in DOMAIN seen : seen[m] >= t}) >= Capacity - 1

\* The versions of the signer's document that were current at some time of the
\* call.
DuringCall(c) == calls[c].from .. Len(history[Request(c).did])
VersionOf(c, v) == history[Request(c).did][v].doc

\* Whatever a call has done, the key that signed it was the active key of its
\* signer at some time between its arrival and now, a managed route was called
\* by a subject that was a regulator in that time, and what was decrypted was
\* granted until later than the clock it was compared with.
EffectsAreAuthorised ==
    \A c \in Calls : calls[c].pc \in {"handle", "anchor", "done"} /\ ~Unsigned(Request(c)) =>
        /\ \E v \in DuringCall(c) : v > 0 /\ IsActive(VersionOf(c, v), Request(c).key)
        /\ Managed(Request(c)) =>
              \E v \in DuringCall(c) : v > 0 /\ VersionOf(c, v).kind = "regulator"
        /\ (Request(c).op = "decrypt" /\ calls[c].pc = "done") =>
              calls[c].at < grants[<<Request(c).did, "shielded:extra">>]

\* The check of a registration and the reading of its rows order the methods in
\* one way: no id occurs twice, and both orders agree on the ids.
IsOrdered(doc) ==
    \A i, j \in DOMAIN doc.methods : i # j =>
        LET a == doc.methods[i].id
            b == doc.methods[j].id
        IN  a # b /\ (ByteRank[a] < ByteRank[b] <=> Collation[a] < Collation[b])

\* The documents of a DID form a chain of keys: every version but the first was
\* signed with a key that was active in an earlier one; and the first is active
\* with the key the DID is derived from, unless it was sent with two methods of
\* one id, or with ids that the database orders otherwise than their bytes.
DocumentsSucceed ==
    \A d \in Keys : \A v \in DOMAIN history[d] :
        IF v = 1 THEN IsOrdered(history[d][1].sent) => IsActive(history[d][1].doc, d)
        ELSE \E u \in 1 .. v - 1 : IsActive(history[d][u].doc, history[d][v].by)

\* The ledger names no policy that was not committed first, whatever the order
\* of the calls and wherever the server stopped.
NoDanglingAnchor == anchors \subseteq saved
==============================================================================
