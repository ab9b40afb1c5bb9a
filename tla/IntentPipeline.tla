--------------------------- MODULE IntentPipeline ---------------------------
(***************************************************************************)
(* The intent engine, the only writer of the system.  Every API call is    *)
(* one PostgreSQL transaction at READ COMMITTED: it takes a pooled         *)
(* connection, reads committed rows statement by statement, writes rows it *)
(* keeps locked until it ends, and its writes become visible at commit.    *)
(*                                                                         *)
(* execute inserts the intent, authorises it and dispatches the handler;   *)
(* approve re-runs the handler of an intent parked at the approval gate.   *)
(* The handler is abstract here: it rejects, parks (gated actions), or     *)
(* writes its business rows and anchors them in the ledger.  An anchor     *)
(* takes a second connection, commits by itself and cannot be rolled back. *)
(***************************************************************************)
EXTENDS IntentStatus, FiniteSets

CONSTANTS
  Txns,         \* API calls, each served by one database transaction
  Ids,          \* intent ids
  Actors,       \* DIDs that submit intents
  Nonces,       \* intent nonces
  Actions,      \* business actions
  Registered,   \* actions that have a handler
  Gated,        \* actions whose handler stops at the approval gate
  NumAnchors,   \* action -> ledger anchors its handler makes
  Granted,      \* capabilities table: [agent, action, until]
  Approvers,    \* DIDs that call approve
  Regulators,   \* approvers whose kind is the role the gate requires
  Requests,     \* the raw intents that clients submit
  MaxTime,      \* bound of the clock
  PoolSize,     \* connections in the pool
  Unlimited,    \* the end of a capability that does not lapse
  NoRow, NoTxn, NoApproval, Undecided

\* What an agent may be granted, each at most once.
Capabilities == [agent : Actors,
                 action : {"read_product", "create_batch", "request_transfer",
                           "transfer_ownership", "issue_credential", "revoke_credential",
                           "register_policy", "update_custody", "submit_shielded_tx",
                           "mass_recall"},
                 until : Nat \cup {Unlimited}]

Row == [action : Actions, actor : Actors, nonce : Nonces,
        expires : Nat, status : Statuses]

RawIntent == [id : Ids, action : Actions, actor : Actors,
              nonce : Nonces, expires : Nat]

ASSUME ConstantsAssumption ==
  /\ Registered \subseteq Actions
  /\ Gated \subseteq Actions
  /\ NumAnchors \in [Actions -> Nat]
  /\ Granted \subseteq Capabilities
  /\ \A a, b \in Granted : a.agent = b.agent /\ a.action = b.action => a = b
  /\ Unlimited \notin Nat
  /\ Regulators \subseteq Approvers
  /\ Requests \subseteq RawIntent
  /\ MaxTime \in Nat
  /\ PoolSize \in Nat
  /\ NoRow \notin Row
  /\ NoTxn \notin Txns
  /\ NoApproval \notin Approvers
  /\ Undecided \notin Approvers
  /\ NoApproval # Undecided

VARIABLES
  intents,       \* intents table: id -> committed row
  approvals,     \* approvals table: id -> NoApproval, Undecided or who decided
  audit,         \* audit log: id -> results in the order appended
  effects,       \* id -> business sections committed on its behalf
  anchors,       \* id -> ledger anchors made on its behalf
  clock,
  intentLock,    \* id -> transaction with an uncommitted write of the intent
  approvalLock,  \* id -> transaction with an uncommitted decision
  txns           \* the calls in flight

store == <<intents, approvals, audit, effects>>
locks == <<intentLock, approvalLock>>
vars  == <<intents, approvals, audit, effects, anchors, clock,
           intentLock, approvalLock, txns>>

\* The record of a call: where it is, whose request it serves, the time and
\* the intent it works with, whether it has marked the approval decided, how
\* many anchors its handler still has to make, its outcome and its answer.
Call(pc, id, by, now, intent, outcome, reply) ==
  [pc |-> pc, id |-> id, by |-> by, now |-> now, intent |-> intent,
   decided |-> FALSE, left |-> 0, outcome |-> outcome, reply |-> reply]

Idle == Call("idle", NoRow, NoRow, 0, NoRow, "none", "none")

Init ==
  /\ intents = [i \in Ids |-> NoRow]
  /\ approvals = [i \in Ids |-> NoApproval]
  /\ audit = [i \in Ids |-> <<>>]
  /\ effects = [i \in Ids |-> 0]
  /\ anchors = [i \in Ids |-> 0]
  /\ clock = 0
  /\ intentLock = [i \in Ids |-> NoTxn]
  /\ approvalLock = [i \in Ids |-> NoTxn]
  /\ txns = [t \in Txns |-> Idle]
-----------------------------------------------------------------------------
(* Helpers.                                                                *)

Active(t) == txns[t].pc \notin {"idle", "ended"}

\* A transaction holds a connection until it ends; an anchor borrows one more
\* for the length of its own transaction.
FreeConnection == Cardinality({t \in Txns : Active(t)}) < PoolSize

Expired(row, now) == now >= row.expires

LocksFreedBy(t) ==
  /\ intentLock' = [i \in Ids |-> IF intentLock[i] = t THEN NoTxn ELSE intentLock[i]]
  /\ approvalLock' = [i \in Ids |-> IF approvalLock[i] = t THEN NoTxn ELSE approvalLock[i]]

Become(t, call) == txns' = [txns EXCEPT ![t] = call]

\* The call returns without writing: the transaction is dropped.
Return(t, reply) ==
  /\ Become(t, [txns[t] EXCEPT !.pc = "ended", !.reply = reply])
  /\ LocksFreedBy(t)
  /\ UNCHANGED <<store, anchors, clock>>

WithStatus(row, status) == [row EXCEPT !.status = status]

Goto(t, pc) == Become(t, [txns[t] EXCEPT !.pc = pc])

\* reject_and_commit, up to its save: the in-memory intent is rejected.
Reject(t) ==
  /\ Become(t, [txns[t] EXCEPT !.pc = "save", !.outcome = "deny",
                                !.intent = WithStatus(txns[t].intent, "rejected")])
  /\ UNCHANGED <<store, locks, anchors, clock>>
-----------------------------------------------------------------------------
(* execute.                                                                *)

RowOf(raw, status) == [action |-> raw.action, actor |-> raw.actor,
                       nonce |-> raw.nonce, expires |-> raw.expires,
                       status |-> status]

\* pool.begin, then Utc::now, then Intent::new: an intent that is already
\* expired is refused before any row is written.
BeginExecute(t, raw) ==
  /\ txns[t].pc = "idle"
  /\ FreeConnection
  /\ Become(t, IF Expired(raw, clock)
               THEN Call("ended", raw.id, raw.actor, clock, RowOf(raw, "created"), "none", "invalid")
               ELSE Call("insert", raw.id, raw.actor, clock, RowOf(raw, "created"), "none", "none"))
  /\ UNCHANGED <<store, locks, anchors, clock>>

\* The two unique keys of the intents table: id, and (actor, nonce).
Conflicts(i, row, j, other) ==
  \/ i = j
  \/ row.actor = other.actor /\ row.nonce = other.nonce

\* INSERT ... ON CONFLICT DO NOTHING waits for an uncommitted writer of a
\* conflicting row, and does nothing when a committed row conflicts.
Insert(t) ==
  LET id == txns[t].id
      row == txns[t].intent
  IN
  /\ txns[t].pc = "insert"
  /\ \A j \in Ids : intentLock[j] # NoTxn =>
       ~Conflicts(id, row, j, txns[intentLock[j]].intent)
  /\ IF \E j \in Ids : intents[j] # NoRow /\ Conflicts(id, row, j, intents[j])
     THEN /\ Goto(t, "conflict")
          /\ UNCHANGED intentLock
     ELSE /\ Become(t, [txns[t] EXCEPT !.pc = "authorize",
                                        !.intent = WithStatus(txns[t].intent, "validated")])
          /\ intentLock' = [intentLock EXCEPT ![id] = t]
  /\ UNCHANGED <<store, approvalLock, anchors, clock>>

\* After a conflict: a row under this id is an idempotent replay and its
\* current status is the answer; no row means the nonce was used elsewhere.
ReadExisting(t) ==
  LET existing == intents[txns[t].id] IN
  /\ txns[t].pc = "conflict"
  /\ Return(t, IF existing = NoRow THEN "replay" ELSE existing.status)

\* The capability that an action asks of its actor: none for reads and for the
\* settlement by the system, and one for all that founds goods.
RequiredCapability(action) ==
  CASE action \in {"compliance_check", "submit_state_root"} -> {}
    [] action \in {"create_batch", "split_batch", "merge_batch", "transform_batch",
                    "create_item"} -> {"create_batch"}
    [] action = "transfer_product"  -> {"transfer_ownership"}
    [] action = "shielded_transfer" -> {"submit_shielded_tx"}
    [] OTHER                        -> {action}

\* capabilities_of: all rows of the agent, lapsed ones too.
CapabilitiesOf(agent) == {cap \in Granted : cap.agent = agent}

\* Capability::is_active_at, assert_allowed.
IsActiveAt(cap, now) == cap.until = Unlimited \/ now < cap.until
HoldsCapability(row, now) ==
  \A action \in RequiredCapability(row.action) :
    \E cap \in CapabilitiesOf(row.actor) : cap.action = action /\ IsActiveAt(cap, now)

\* authorize, over the capabilities valid at the transaction's own now.  (An
\* actor without a valid document is one that submits no request.)
Authorize(t) ==
  /\ txns[t].pc = "authorize"
  /\ IF HoldsCapability(txns[t].intent, txns[t].now)
     THEN /\ Become(t, [txns[t] EXCEPT !.pc = "handle",
                                        !.intent = WithStatus(txns[t].intent, "authorized")])
          /\ UNCHANGED <<store, locks, anchors, clock>>
     ELSE Reject(t)
-----------------------------------------------------------------------------
(* approve.                                                                *)

\* begin, now, and get: the row read here is the snapshot the rest of the
\* call works on.  A parked intent past its expiry is set to expired.
BeginApprove(t, id, who) ==
  LET row == intents[id] IN
  /\ txns[t].pc = "idle"
  /\ FreeConnection
  /\ Become(t, IF row = NoRow \/ row.status \in Terminal
               THEN Call("ended", id, who, clock, row, "none", "error")
               ELSE IF Expired(row, clock)
               THEN Call("save", id, who, clock, WithStatus(row, "expired"), "deny", "none")
               ELSE Call("find", id, who, clock, row, "none", "none"))
  /\ UNCHANGED <<store, locks, anchors, clock>>

\* approvals.find and the role check, on rows committed by now.
FindApproval(t) ==
  LET found == approvals[txns[t].id] IN
  /\ txns[t].pc = "find"
  /\ IF found = Undecided /\ txns[t].by \in Regulators
     THEN /\ Goto(t, "decide")
          /\ UNCHANGED <<store, locks, anchors, clock>>
     ELSE Return(t, IF found \in {NoApproval, Undecided}
                    THEN "error" ELSE txns[t].intent.status)

\* Mutant: the update does not test decided_by again.
DecideUnconditionally(t) ==
  LET id == txns[t].id IN
  /\ txns[t].pc = "decide"
  /\ approvalLock[id] = NoTxn
  /\ Become(t, [txns[t] EXCEPT !.pc = "handle", !.decided = TRUE])
  /\ approvalLock' = [approvalLock EXCEPT ![id] = t]
  /\ UNCHANGED <<store, intentLock, anchors, clock>>

\* mark_decided: UPDATE ... WHERE decided_by IS NULL waits for the row lock
\* and then tests the committed row again; no row hit means another decided.
Decide(t) ==
  LET id == txns[t].id IN
  /\ txns[t].pc = "decide"
  /\ approvalLock[id] = NoTxn
  /\ IF approvals[id] = Undecided
     THEN /\ Become(t, [txns[t] EXCEPT !.pc = "handle", !.decided = TRUE])
          /\ approvalLock' = [approvalLock EXCEPT ![id] = t]
          /\ UNCHANGED <<store, intentLock, anchors, clock>>
     ELSE Return(t, txns[t].intent.status)
-----------------------------------------------------------------------------
(* dispatch_and_finish, shared by both calls.                              *)

\* The handler, or a missing handler, returns Err: its writes are rolled back
\* to the savepoint.
HandlerRejects(t) ==
  /\ txns[t].pc = "handle"
  /\ Reject(t)

\* A gated handler that sees no decision stops before any business write.
HandlerParks(t) ==
  /\ txns[t].pc = "handle"
  /\ txns[t].intent.action \in Registered \cap Gated
  /\ ~txns[t].decided
  /\ Become(t, [txns[t] EXCEPT !.pc = "save", !.outcome = "park",
                                !.intent = WithStatus(txns[t].intent, "policy_checked")])
  /\ UNCHANGED <<store, locks, anchors, clock>>

\* The status in which a handler leaves the intent it completes.
HandlerExits(row) == IF row.action \in Gated THEN {"proved"}
                     ELSE {"authorized", "policy_checked"}

\* Mutant: the handler does not look for a decision.
HandlerWritesUngated(t) ==
  LET row == txns[t].intent IN
  /\ txns[t].pc = "handle"
  /\ row.action \in Registered
  /\ \E s \in HandlerExits(row) :
       Become(t, [txns[t] EXCEPT !.pc = "anchor", !.left = NumAnchors[row.action],
                                 !.intent = WithStatus(txns[t].intent, s)])
  /\ UNCHANGED <<store, locks, anchors, clock>>

\* The handler's checks pass and its business rows are written.
HandlerWrites(t) ==
  LET row == txns[t].intent IN
  /\ txns[t].pc = "handle"
  /\ row.action \in Registered
  /\ row.action \in Gated => txns[t].decided
  /\ \E s \in HandlerExits(row) :
       Become(t, [txns[t] EXCEPT !.pc = "anchor", !.left = NumAnchors[row.action],
                                 !.intent = WithStatus(txns[t].intent, s)])
  /\ UNCHANGED <<store, locks, anchors, clock>>

\* ledger.anchor: a transaction of its own, on a second connection.
Anchor(t) ==
  /\ txns[t].pc = "anchor"
  /\ txns[t].left > 0
  /\ FreeConnection
  /\ anchors' = [anchors EXCEPT ![txns[t].id] = @ + 1]
  /\ Become(t, [txns[t] EXCEPT !.left = @ - 1])
  /\ UNCHANGED <<store, locks, clock>>

\* Mutant: a failed anchor is skipped.
AnchorFailureIgnored(t) ==
  /\ txns[t].pc = "anchor"
  /\ txns[t].left > 0
  /\ Become(t, [txns[t] EXCEPT !.left = @ - 1])
  /\ UNCHANGED <<store, locks, anchors, clock>>

\* Mutant: the wait for a second connection has no timeout.
AnchorFailsConnected(t) ==
  /\ txns[t].pc = "anchor"
  /\ txns[t].left > 0
  /\ FreeConnection
  /\ Reject(t)

\* An anchor fails, and with it the handler: the ledger is unavailable, or the
\* pool gave no second connection within acquire_timeout.
AnchorFails(t) ==
  /\ txns[t].pc = "anchor"
  /\ txns[t].left > 0
  /\ Reject(t)

\* Mutant: the caller is answered before the commit.
FinishAnswersEarly(t) ==
  /\ txns[t].pc = "anchor"
  /\ txns[t].left = 0
  /\ Become(t, [txns[t] EXCEPT !.pc = "save", !.outcome = "allow", !.reply = "confirmed",
                                !.intent = WithStatus(txns[t].intent, "confirmed")])
  /\ UNCHANGED <<store, locks, anchors, clock>>

\* The handler completed: walk to confirmed, or drop the call if the graph
\* has no such path.
Finish(t) ==
  /\ txns[t].pc = "anchor"
  /\ txns[t].left = 0
  /\ IF Walkable(txns[t].intent.status, CompletionPath(txns[t].intent.status))
     THEN /\ Become(t, [txns[t] EXCEPT !.pc = "save", !.outcome = "allow",
                                        !.intent = WithStatus(txns[t].intent, "confirmed")])
          /\ UNCHANGED <<store, locks, anchors, clock>>
     ELSE Return(t, "error")

\* intents.save: INSERT ... ON CONFLICT (id) DO UPDATE of every column,
\* whatever status the committed row has by now.
Save(t) ==
  LET id == txns[t].id IN
  /\ txns[t].pc = "save"
  /\ intentLock[id] \in {NoTxn, t}
  /\ intentLock' = [intentLock EXCEPT ![id] = t]
  /\ Goto(t, "commit")
  /\ UNCHANGED <<store, approvalLock, anchors, clock>>

\* Mutants: parking does not record a pending approval; expiring reopens it.
ApprovalNotOpened(t) == IF txns[t].decided THEN txns[t].by ELSE approvals[txns[t].id]

ApprovalReopened(t) ==
  IF txns[t].decided THEN txns[t].by
  ELSE IF txns[t].outcome = "park" \/ txns[t].intent.status = "expired" THEN Undecided
  ELSE approvals[txns[t].id]

\* The approvals row as the commit leaves it: mark_decided, or
\* upsert_undecided (ON CONFLICT DO NOTHING).
ApprovalAfter(t) ==
  LET id == txns[t].id IN
  IF txns[t].decided THEN txns[t].by
  ELSE IF txns[t].outcome = "park" /\ approvals[id] = NoApproval THEN Undecided
  ELSE approvals[id]

\* The audit log of an intent as the commit leaves it; a parked call adds none.
AuditAfter(t) ==
  LET log == audit[txns[t].id] IN
  IF txns[t].outcome = "park" THEN log ELSE Append(log, txns[t].outcome)

\* The audit row is written and everything becomes visible at once.
Commit(t) ==
  LET id == txns[t].id
      result == txns[t].outcome
  IN
  /\ txns[t].pc = "commit"
  /\ intents' = [intents EXCEPT ![id] = txns[t].intent]
  /\ approvals' = [approvals EXCEPT ![id] = ApprovalAfter(t)]
  /\ audit' = [audit EXCEPT ![id] = AuditAfter(t)]
  /\ effects' = [effects EXCEPT ![id] = IF result = "allow" THEN @ + 1 ELSE @]
  /\ Become(t, [txns[t] EXCEPT !.pc = "ended", !.reply = txns[t].intent.status])
  /\ LocksFreedBy(t)
  /\ UNCHANGED <<anchors, clock>>
-----------------------------------------------------------------------------
(* The environment.                                                        *)

\* No connection within the acquire timeout: the call fails before it begins.
BeginTimesOut(t) ==
  /\ txns[t].pc = "idle"
  /\ ~FreeConnection
  /\ Return(t, "error")

\* The server or the connection dies, or a statement after the savepoint (save,
\* audit, commit) fails: the open transaction is lost, its anchors are not.
Crash(t) == Active(t) /\ Return(t, "lost")

Tick == /\ clock < MaxTime
        /\ clock' = clock + 1
        /\ UNCHANGED <<store, locks, anchors, txns>>

Terminated == (\A t \in Txns : txns[t].pc = "ended") /\ UNCHANGED vars

Begin(t) == \/ \E raw \in Requests : BeginExecute(t, raw)
            \/ \E id \in Ids, who \in Approvers : BeginApprove(t, id, who)
            \/ BeginTimesOut(t)

\* What the server does on its own once a call has begun.
Serve(t) == \/ Insert(t) \/ ReadExisting(t) \/ Authorize(t)
            \/ FindApproval(t) \/ Decide(t)
            \/ HandlerRejects(t) \/ HandlerParks(t) \/ HandlerWrites(t)
            \/ Anchor(t) \/ AnchorFails(t) \/ Finish(t)
            \/ Save(t) \/ Commit(t)

Next == \/ \E t \in Txns : Begin(t) \/ Serve(t) \/ Crash(t)
        \/ Tick
        \/ Terminated

Spec == Init /\ [][Next]_vars

FairSpec == Spec /\ \A t \in Txns : WF_vars(Serve(t))
-----------------------------------------------------------------------------
(* Properties.                                                             *)

Txn == [pc : {"idle", "insert", "conflict", "authorize", "find", "decide",
              "handle", "anchor", "save", "commit", "ended"},
        id : Ids \cup {NoRow},
        by : Actors \cup Approvers \cup {NoRow},
        now : Nat,
        intent : Row \cup {NoRow},
        decided : BOOLEAN,
        left : Nat,
        outcome : {"none", "allow", "deny", "park"},
        reply : Statuses \cup {"none", "invalid", "replay", "error", "lost"}]

\* The types of the tables and of the calls in flight.
TypeOK ==
  /\ intents \in [Ids -> Row \cup {NoRow}]
  /\ approvals \in [Ids -> Approvers \cup {NoApproval, Undecided}]
  /\ audit \in [Ids -> Seq({"allow", "deny"})]
  /\ effects \in [Ids -> Nat]
  /\ anchors \in [Ids -> Nat]
  /\ clock \in Nat
  /\ intentLock \in [Ids -> Txns \cup {NoTxn}]
  /\ approvalLock \in [Ids -> Txns \cup {NoTxn}]
  /\ txns \in [Txns -> Txn]

\* However calls are retried, replayed, raced or lost, the business section of
\* an intent is committed at most once (execute's insert and approve's one-time
\* decision are the two places that must exclude a second run).
ExecutedAtMostOnce == \A i \in Ids : effects[i] <= 1

\* A gated action has business effects only when a regulator's decision stands
\* in the approvals table.
GateHolds == \A i \in Ids :
  effects[i] > 0 /\ intents[i].action \in Gated => approvals[i] \in Regulators

\* A committed intent that is not terminal can be resumed: its approval is still
\* undecided and the status graph has a path from where it stopped, through the
\* proof steps of the handler, to confirmed.
ParkedCanResume == \A i \in Ids :
  intents[i] # NoRow /\ intents[i].status \notin Terminal =>
    /\ approvals[i] = Undecided
    /\ Walkable(intents[i].status, <<"proof_required", "proved">>)
    /\ Walkable("proved", CompletionPath("proved"))

\* Two intents never share an actor's nonce (the replay defence of execute).
NonceUsedOnce == \A i, j \in Ids :
  /\ intents[i] # NoRow /\ intents[j] # NoRow
  /\ intents[i].actor = intents[j].actor /\ intents[i].nonce = intents[j].nonce
  => i = j

\* Who was told "confirmed" can rely on it: the business effects are committed,
\* also for an idempotent replay, an approval that lost the race, and later.
ConfirmedReplyIsDurable == \A t \in Txns :
  txns[t].reply = "confirmed" => effects[txns[t].id] = 1

\* Business effects are never committed without all their ledger anchors.
EffectsAreAnchored == \A i \in Ids :
  effects[i] > 0 => anchors[i] >= NumAnchors[intents[i].action]

\* A decision, once committed, is never changed or withdrawn.
DecisionsAreFinal ==
  [][\A i \in Ids : approvals[i] \in Approvers => approvals'[i] = approvals[i]]_vars

\* Every call that has begun returns: no lock wait and no wait for a pooled
\* connection lasts for ever.
EveryCallReturns == \A t \in Txns : Active(t) ~> txns[t].pc = "ended"

(* The inductive invariant behind the properties above.                    *)

\* The call is inserting its intent: it holds the row lock, nothing is
\* committed under the id yet.
Creating(t) ==
  /\ ~txns[t].decided
  /\ \/ txns[t].pc \in {"authorize", "handle", "anchor"}
     \/ txns[t].pc \in {"save", "commit"} /\ txns[t].intent.status # "expired"

\* The call works on a snapshot of a committed intent.
Resuming(t) ==
  \/ txns[t].decided
  \/ txns[t].pc \in {"find", "decide"}
  \/ txns[t].pc \in {"save", "commit"} /\ txns[t].intent.status = "expired"

SameIntent(row, other) ==
  /\ row # NoRow
  /\ row.action = other.action /\ row.actor = other.actor
  /\ row.nonce = other.nonce /\ row.expires = other.expires

Distinct(t, u) == ~Conflicts(txns[t].id, txns[t].intent, txns[u].id, txns[u].intent)

CallInv(t) ==
  LET c == txns[t] IN
  /\ c.id \in Ids /\ c.intent \in Row
  /\ c.pc \in {"insert", "conflict", "authorize", "find", "decide"} => ~c.decided
  /\ Creating(t) => /\ intentLock[c.id] = t
                    /\ intents[c.id] = NoRow
                    /\ \A j \in Ids : intents[j] # NoRow =>
                         ~Conflicts(c.id, c.intent, j, intents[j])
  /\ Resuming(t) => SameIntent(intents[c.id], c.intent)
  /\ c.decided => /\ approvalLock[c.id] = t
                  /\ approvals[c.id] = Undecided
                  /\ c.by \in Regulators
  /\ c.pc \in {"find", "decide"} => c.intent.status \notin Terminal
  /\ c.pc = "decide" => c.by \in Regulators
  /\ c.pc = "anchor" => /\ (c.intent.action \in Gated => c.decided)
                        /\ anchors[c.id] + c.left >= NumAnchors[c.intent.action]
  /\ c.pc \in {"save", "commit"} =>
       \/ /\ c.outcome = "allow" /\ c.intent.status = "confirmed"
          /\ (c.intent.action \in Gated => c.decided)
          /\ anchors[c.id] >= NumAnchors[c.intent.action]
       \/ c.outcome = "deny" /\ c.intent.status = "rejected"
       \/ c.outcome = "deny" /\ c.intent.status = "expired" /\ ~c.decided
       \/ /\ c.outcome = "park" /\ c.intent.status = "policy_checked"
          /\ c.intent.action \in Gated /\ ~c.decided
  /\ c.pc = "commit" => intentLock[c.id] = t

RowInv(i) ==
  /\ intents[i] = NoRow => effects[i] = 0 /\ approvals[i] = NoApproval
  /\ approvals[i] # NoApproval => intents[i].action \in Gated
  /\ approvals[i] = Undecided => effects[i] = 0
  /\ intents[i] # NoRow /\ intents[i].status \notin Terminal =>
       intents[i].status = "policy_checked" /\ approvals[i] = Undecided
  /\ intents[i] # NoRow /\ intents[i].status = "confirmed" => effects[i] = 1
  /\ effects[i] <= 1
  /\ effects[i] > 0 => anchors[i] >= NumAnchors[intents[i].action]
  /\ effects[i] > 0 /\ intents[i].action \in Gated => approvals[i] \in Regulators

\* What holds between the calls in flight, the locks and the committed rows:
\* a creating call alone knows its id and nonce, a call that decided alone can
\* resume its intent, and every snapshot names the intent that is committed.
CallsAreIsolated ==
  /\ \A t \in Txns : Active(t) => CallInv(t)
  /\ \A t, u \in Txns :
       t # u /\ Active(t) /\ Active(u) /\ Creating(t) /\ Creating(u) => Distinct(t, u)
  /\ \A i \in Ids : RowInv(i)
  /\ \A t \in Txns : txns[t].reply = "confirmed" =>
       txns[t].id \in Ids /\ effects[txns[t].id] = 1

(* What the engine promises whatever the races: see ExecutionGate.         *)

phase == [i \in Ids |->
  IF intents[i] = NoRow THEN "absent"
  ELSE IF effects[i] > 0
       THEN IF intents[i].action \in Gated THEN "executed_approved" ELSE "executed_direct"
  ELSE IF approvals[i] = Undecided THEN "parked" ELSE "refused"]

Gate == INSTANCE ExecutionGate

ImplementsGate == Gate!Spec
=============================================================================
