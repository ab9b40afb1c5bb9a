----------------------- MODULE IntentPipeline_proofs ------------------------
(***************************************************************************)
(* Proofs about IntentPipeline, for every set of calls, ids, requests and  *)
(* actions: the inductive invariant, the safety properties it implies, and *)
(* that the engine implements ExecutionGate.                               *)
(***************************************************************************)
EXTENDS IntentPipeline, TLAPS

Inv == TypeOK /\ CallsAreIsolated

USE ConstantsAssumption

Replies == Statuses \cup {"none", "invalid", "replay", "error", "lost"}

\* Changing the status of a row changes nothing else.
LEMMA StatusChange ==
  ASSUME NEW row \in Row, NEW s \in Statuses
  PROVE  /\ WithStatus(row, s) \in Row
         /\ WithStatus(row, s) # NoRow
         /\ WithStatus(row, s).status = s
         /\ WithStatus(row, s).action = row.action
         /\ WithStatus(row, s).actor = row.actor
         /\ WithStatus(row, s).nonce = row.nonce
         /\ WithStatus(row, s).expires = row.expires
BY DEF WithStatus, Row

\* The record of a call that has begun.
LEMMA ActiveCall ==
  ASSUME Inv, NEW t \in Txns, Active(t)
  PROVE  /\ CallInv(t) /\ txns[t] \in Txn /\ txns[t].intent \in Row /\ txns[t].id \in Ids
         /\ txns[t].reply = "confirmed" => effects[txns[t].id] = 1
BY DEF Inv, TypeOK, CallsAreIsolated, CallInv

\* The record updates of the actions stay in the type of a call.
LEMMA DeniedIsTxn ==
  ASSUME NEW c \in Txn, NEW row \in Row
  PROVE  [c EXCEPT !.pc = "save", !.outcome = "deny", !.intent = row] \in Txn
BY Zenon DEF Txn

\* HandlerParks.
LEMMA ParkedIsTxn ==
  ASSUME NEW c \in Txn, NEW row \in Row
  PROVE  [c EXCEPT !.pc = "save", !.outcome = "park", !.intent = row] \in Txn
BY Zenon DEF Txn

\* Finish.
LEMMA AllowedIsTxn ==
  ASSUME NEW c \in Txn, NEW row \in Row
  PROVE  [c EXCEPT !.pc = "save", !.outcome = "allow", !.intent = row] \in Txn
BY Zenon DEF Txn

\* Insert and Authorize.
LEMMA AuthorizedIsTxn ==
  ASSUME NEW c \in Txn, NEW row \in Row, NEW pc \in {"authorize", "handle"}
  PROVE  [c EXCEPT !.pc = pc, !.intent = row] \in Txn
BY Zenon DEF Txn

\* HandlerWrites.
LEMMA WritingIsTxn ==
  ASSUME NEW c \in Txn, NEW row \in Row, NEW n \in Nat
  PROVE  [c EXCEPT !.pc = "anchor", !.left = n, !.intent = row] \in Txn
BY Zenon DEF Txn

\* Decide.
LEMMA DecidedIsTxn ==
  ASSUME NEW c \in Txn
  PROVE  [c EXCEPT !.pc = "handle", !.decided = TRUE] \in Txn
BY Zenon DEF Txn

\* A call that only moves on.
LEMMA GoneIsTxn ==
  ASSUME NEW c \in Txn, NEW pc \in {"conflict", "decide", "commit"}
  PROVE  [c EXCEPT !.pc = pc] \in Txn
BY Zenon DEF Txn

\* Anchor.
LEMMA AnchoredIsTxn ==
  ASSUME NEW c \in Txn, NEW n \in Nat
  PROVE  [c EXCEPT !.left = n] \in Txn
BY Zenon DEF Txn

\* A call that returns.
LEMMA EndedIsTxn ==
  ASSUME NEW c \in Txn, NEW r \in Replies
  PROVE  [c EXCEPT !.pc = "ended", !.reply = r] \in Txn
BY Zenon DEF Txn, Replies

\* A step that changes no table, only the record of one call, the locks that
\* call holds and the ledger, keeps the invariant when the new record satisfies
\* it and the call does not start creating an intent another call is creating.
LEMMA OwnStep ==
  ASSUME Inv, NEW t \in Txns, NEW c \in Txn, Become(t, c),
         UNCHANGED store, clock' \in Nat,
         intentLock' \in [Ids -> Txns \cup {NoTxn}],
         approvalLock' \in [Ids -> Txns \cup {NoTxn}],
         anchors' \in [Ids -> Nat],
         \A i \in Ids : anchors'[i] >= anchors[i],
         \A i \in Ids, u \in Txns \ {t} :
           /\ intentLock[i] = u => intentLock'[i] = u
           /\ approvalLock[i] = u => approvalLock'[i] = u,
         Active(t)' => CallInv(t)',
         Active(t)' /\ Creating(t)' =>
           \A u \in Txns \ {t} : Active(u) /\ Creating(u) =>
             ~Conflicts(c.id, c.intent, txns[u].id, txns[u].intent),
         c.reply = "confirmed" => c.id \in Ids /\ effects[c.id] = 1
  PROVE  Inv'
PROOF
  <1>1. TypeOK'
    BY DEF Inv, TypeOK, store, Become
  <1>2. txns'[t] = c /\ \A u \in Txns \ {t} : txns'[u] = txns[u]
    BY DEF Inv, TypeOK, Become
  <1>3. ASSUME NEW u \in Txns, Active(u)' PROVE CallInv(u)'
    <2>1. CASE u = t
      BY <1>3, <2>1
    <2>2. CASE u # t
      <3>1. Active(u) /\ CallInv(u) /\ txns[u] \in Txn /\ txns[u].id \in Ids /\ txns[u].intent \in Row
        BY <1>2, <1>3, <2>2, ActiveCall DEF Active
      <3>2. /\ anchors[txns[u].id] \in Nat /\ anchors'[txns[u].id] \in Nat
            /\ txns[u].left \in Nat /\ NumAnchors[txns[u].intent.action] \in Nat
        BY <3>1 DEF Inv, TypeOK, Txn, Row
      <3> QED
        BY <1>2, <2>2, <3>1, <3>2 DEF CallInv, Creating, Resuming, SameIntent, Conflicts, store
    <2> QED BY <2>1, <2>2
  <1>4. ASSUME NEW u \in Txns, NEW v \in Txns, u # v, Active(u)', Active(v)',
               Creating(u)', Creating(v)'
        PROVE Distinct(u, v)'
    <2>1. CASE u # t /\ v # t
      <3>1. Active(u) /\ Creating(u) /\ Active(v) /\ Creating(v)
        BY <1>2, <1>4, <2>1 DEF Active, Creating
      <3> QED
        BY <1>2, <1>4, <2>1, <3>1 DEF Inv, CallsAreIsolated, Distinct, Conflicts
    <2>2. CASE u = t
      <3>1. Active(v) /\ Creating(v)
        BY <1>2, <1>4, <2>2 DEF Active, Creating
      <3> QED
        BY <1>2, <1>4, <2>2, <3>1 DEF Distinct, Conflicts
    <2>3. CASE v = t
      <3>1. Active(u) /\ Creating(u)
        BY <1>2, <1>4, <2>3 DEF Active, Creating
      <3> QED
        BY <1>2, <1>4, <2>3, <3>1 DEF Distinct, Conflicts
    <2> QED BY <2>1, <2>2, <2>3
  <1>5. ASSUME NEW i \in Ids PROVE RowInv(i)'
    <2>1. /\ anchors[i] \in Nat /\ anchors'[i] \in Nat /\ anchors'[i] >= anchors[i]
          /\ effects[i] \in Nat
          /\ intents[i] # NoRow => NumAnchors[intents[i].action] \in Nat
      BY DEF Inv, TypeOK, Row
    <2> QED
      BY <2>1 DEF Inv, CallsAreIsolated, RowInv, store
  <1>6. ASSUME NEW u \in Txns, txns'[u].reply = "confirmed"
        PROVE  txns'[u].id \in Ids /\ effects'[txns'[u].id] = 1
    BY <1>2, <1>6 DEF Inv, CallsAreIsolated, store
  <1> QED
    BY <1>1, <1>3, <1>4, <1>5, <1>6 DEF Inv, CallsAreIsolated

\* The special case of OwnStep for a call that goes on with its intent: locks
\* and ledger stay, and it creates afterwards only if it did before.
LEMMA ProceedStep ==
  ASSUME Inv, NEW t \in Txns, Active(t), NEW c \in Txn, Become(t, c),
         UNCHANGED <<store, locks, anchors, clock>>,
         c.id = txns[t].id, c.reply = txns[t].reply,
         SameIntent(c.intent, txns[t].intent),
         CallInv(t)', Creating(t)' => Creating(t)
  PROVE  Inv'
PROOF
  <1>1. /\ UNCHANGED store /\ clock' \in Nat /\ locks' = locks /\ anchors' = anchors
        /\ intentLock' \in [Ids -> Txns \cup {NoTxn}]
        /\ approvalLock' \in [Ids -> Txns \cup {NoTxn}]
        /\ anchors' \in [Ids -> Nat]
    BY DEF Inv, TypeOK, locks
  <1>2. \A i \in Ids : anchors'[i] >= anchors[i]
    BY <1>1 DEF Inv, TypeOK
  <1>3. Creating(t)' =>
          \A u \in Txns \ {t} : Active(u) /\ Creating(u) =>
             ~Conflicts(c.id, c.intent, txns[u].id, txns[u].intent)
    BY DEF Inv, CallsAreIsolated, Distinct, Conflicts, SameIntent
  <1>4. c.reply = "confirmed" => c.id \in Ids /\ effects[c.id] = 1
    BY ActiveCall
  <1> QED
    BY <1>1, <1>2, <1>3, <1>4, OwnStep DEF locks

\* A call that ends without committing keeps the invariant: it only gives its
\* locks back.
LEMMA ReturnStep ==
  ASSUME Inv, NEW t \in Txns, NEW r \in Replies, Return(t, r),
         r = "confirmed" => txns[t].id \in Ids /\ effects[txns[t].id] = 1
  PROVE  Inv'
PROOF
  <1> DEFINE c == [txns[t] EXCEPT !.pc = "ended", !.reply = r]
  <1>1. txns[t] \in Txn
    BY DEF Inv, TypeOK
  <1>2. c \in Txn
    BY <1>1, EndedIsTxn
  <1>3. c.pc = "ended" /\ c.reply = r /\ c.id = txns[t].id
    BY <1>1 DEF Txn
  <1>4. Become(t, c)
    BY DEF Return
  <1> HIDE DEF c
  <1>5. ~Active(t)'
    BY <1>3, <1>4 DEF Active, Become, Inv, TypeOK
  <1>6. /\ UNCHANGED store /\ clock' \in Nat /\ anchors' \in [Ids -> Nat]
        /\ \A i \in Ids : anchors'[i] >= anchors[i]
    BY DEF Return, Inv, TypeOK
  <1>7. /\ intentLock' \in [Ids -> Txns \cup {NoTxn}]
        /\ approvalLock' \in [Ids -> Txns \cup {NoTxn}]
        /\ \A i \in Ids, u \in Txns \ {t} :
             /\ intentLock[i] = u => intentLock'[i] = u
             /\ approvalLock[i] = u => approvalLock'[i] = u
    BY DEF Return, LocksFreedBy, Inv, TypeOK
  <1> QED
    BY <1>2, <1>3, <1>4, <1>5, <1>6, <1>7, OwnStep

\* Rejecting is a step of a call that has no outcome yet.
LEMMA RejectStep ==
  ASSUME Inv, NEW t \in Txns, Reject(t),
         txns[t].pc \in {"authorize", "handle", "anchor"}
  PROVE  Inv'
PROOF
  <1> DEFINE row == WithStatus(txns[t].intent, "rejected")
             c == [txns[t] EXCEPT !.pc = "save", !.outcome = "deny", !.intent = row]
  <1>1. Active(t) /\ CallInv(t) /\ txns[t] \in Txn /\ txns[t].intent \in Row
    BY ActiveCall DEF Active
  <1>2. row \in Row /\ row.status = "rejected" /\ SameIntent(row, txns[t].intent)
    BY <1>1, StatusChange DEF Statuses, Terminal, SameIntent
  <1>3. Become(t, c) /\ UNCHANGED <<store, locks, anchors, clock>>
    BY DEF Reject
  <1> HIDE DEF row
  <1>4. /\ c.pc = "save" /\ c.outcome = "deny" /\ c.intent = row
        /\ c.id = txns[t].id /\ c.by = txns[t].by
        /\ c.decided = txns[t].decided /\ c.reply = txns[t].reply
    BY <1>1 DEF Txn
  <1>5. c \in Txn
    BY <1>1, <1>2, DeniedIsTxn
  <1> HIDE DEF c
  <1>6. txns'[t] = c
    BY <1>3 DEF Inv, TypeOK, Become
  <1>7. CallInv(t)'
    BY <1>1, <1>2, <1>3, <1>4, <1>6
    DEF CallInv, Creating, Resuming, SameIntent, Conflicts, store, locks
  <1>8. Creating(t)' => Creating(t)
    BY <1>4, <1>6 DEF Creating
  <1> QED
    BY <1>1, <1>2, <1>3, <1>4, <1>5, <1>7, <1>8, ProceedStep

\* An authorised call still holds its row, and goes on to the handler.
LEMMA AuthorizeStep ==
  ASSUME Inv, NEW t \in Txns, Authorize(t), ~Reject(t)
  PROVE  Inv'
PROOF
  <1> DEFINE row == WithStatus(txns[t].intent, "authorized")
             c == [txns[t] EXCEPT !.pc = "handle", !.intent = row]
  <1>1. Active(t) /\ CallInv(t) /\ txns[t] \in Txn /\ txns[t].intent \in Row
    BY ActiveCall DEF Active, Authorize
  <1>2. row \in Row /\ row.status = "authorized" /\ SameIntent(row, txns[t].intent)
    BY <1>1, StatusChange DEF Statuses, Unsubmitted, Terminal, SameIntent
  <1>3. Become(t, c) /\ UNCHANGED <<store, locks, anchors, clock>>
    BY DEF Authorize
  <1> HIDE DEF row
  <1>4. /\ c.pc = "handle" /\ c.intent = row
        /\ c.id = txns[t].id /\ c.by = txns[t].by
        /\ c.decided = txns[t].decided /\ c.reply = txns[t].reply
    BY <1>1 DEF Txn
  <1>5. c \in Txn
    BY <1>1, <1>2, AuthorizedIsTxn
  <1> HIDE DEF c
  <1>6. txns'[t] = c
    BY <1>3 DEF Inv, TypeOK, Become
  <1>7. CallInv(t)'
    BY <1>1, <1>2, <1>3, <1>4, <1>6
    DEF CallInv, Creating, Resuming, SameIntent, Conflicts, store, locks, Authorize, Terminal
  <1>8. Creating(t)' => Creating(t)
    BY <1>4, <1>6, <1>1 DEF Creating, CallInv, Authorize
  <1> QED
    BY <1>1, <1>2, <1>3, <1>4, <1>5, <1>7, <1>8, ProceedStep

\* A parked call wrote nothing, is gated and undecided.
LEMMA HandlerParksStep ==
  ASSUME Inv, NEW t \in Txns, HandlerParks(t)
  PROVE  Inv'
PROOF
  <1> DEFINE row == WithStatus(txns[t].intent, "policy_checked")
             c == [txns[t] EXCEPT !.pc = "save", !.outcome = "park", !.intent = row]
  <1>1. Active(t) /\ CallInv(t) /\ txns[t] \in Txn /\ txns[t].intent \in Row
    BY ActiveCall DEF Active, HandlerParks
  <1>2. row \in Row /\ row.status = "policy_checked" /\ SameIntent(row, txns[t].intent)
    BY <1>1, StatusChange DEF Statuses, Unsubmitted, Terminal, SameIntent
  <1>3. Become(t, c) /\ UNCHANGED <<store, locks, anchors, clock>>
    BY DEF HandlerParks
  <1> HIDE DEF row
  <1>4. /\ c.pc = "save" /\ c.outcome = "park" /\ c.intent = row
        /\ c.id = txns[t].id /\ c.by = txns[t].by
        /\ c.decided = txns[t].decided /\ c.reply = txns[t].reply
    BY <1>1 DEF Txn
  <1>5. c \in Txn
    BY <1>1, <1>2, ParkedIsTxn
  <1> HIDE DEF c
  <1>6. txns'[t] = c
    BY <1>3 DEF Inv, TypeOK, Become
  <1>7. CallInv(t)'
    BY <1>1, <1>2, <1>3, <1>4, <1>6
    DEF CallInv, Creating, Resuming, SameIntent, Conflicts, store, locks, HandlerParks, Terminal
  <1>8. Creating(t)' => Creating(t)
    BY <1>4, <1>6, <1>1 DEF Creating, CallInv, HandlerParks
  <1> QED
    BY <1>1, <1>2, <1>3, <1>4, <1>5, <1>7, <1>8, ProceedStep

\* A completed handler has made all its anchors.
LEMMA FinishStep ==
  ASSUME Inv, NEW t \in Txns, Finish(t)
  PROVE  Inv'
PROOF
  <1>a. CASE Return(t, "error")
    BY <1>a, ReturnStep DEF Replies
  <1>b. CASE ~Return(t, "error")
    <2> DEFINE row == WithStatus(txns[t].intent, "confirmed")
               c == [txns[t] EXCEPT !.pc = "save", !.outcome = "allow", !.intent = row]
    <2>1. Active(t) /\ CallInv(t) /\ txns[t] \in Txn /\ txns[t].intent \in Row
      BY ActiveCall DEF Active, Finish
    <2>2. row \in Row /\ row.status = "confirmed" /\ SameIntent(row, txns[t].intent)
      BY <2>1, StatusChange DEF Statuses, Unsubmitted, Terminal, SameIntent
    <2>3. Become(t, c) /\ UNCHANGED <<store, locks, anchors, clock>>
      BY <1>b DEF Finish
    <2> HIDE DEF row
    <2>4. /\ c.pc = "save" /\ c.outcome = "allow" /\ c.intent = row
          /\ c.id = txns[t].id /\ c.by = txns[t].by
          /\ c.decided = txns[t].decided /\ c.reply = txns[t].reply
      BY <2>1 DEF Txn
    <2>5. c \in Txn
      BY <2>1, <2>2, AllowedIsTxn
    <2> HIDE DEF c
    <2>6. txns'[t] = c
      BY <2>3 DEF Inv, TypeOK, Become
    <2>a. /\ txns[t].pc = "anchor"
          /\ txns[t].intent.action \in Gated => txns[t].decided
          /\ anchors[txns[t].id] >= NumAnchors[txns[t].intent.action]
      <3>1. /\ txns[t].pc = "anchor" /\ txns[t].left = 0 /\ txns[t].id \in Ids
            /\ anchors[txns[t].id] \in Nat /\ NumAnchors[txns[t].intent.action] \in Nat
        BY <2>1 DEF Finish, CallInv, Inv, TypeOK, Row
      <3> QED
        BY <2>1, <3>1 DEF CallInv
    <2>7. CallInv(t)'
      BY <2>1, <2>2, <2>3, <2>4, <2>6, <2>a
      DEF CallInv, Creating, Resuming, SameIntent, Conflicts, store, locks
    <2>8. Creating(t)' => Creating(t)
      BY <2>4, <2>6, <2>a DEF Creating
    <2> QED
      BY <2>1, <2>2, <2>3, <2>4, <2>5, <2>7, <2>8, ProceedStep
  <1> QED BY <1>a, <1>b

\* A gated handler writes only under a decision, and owes all its anchors.
LEMMA HandlerWritesStep ==
  ASSUME Inv, NEW t \in Txns, HandlerWrites(t)
  PROVE  Inv'
PROOF
  <1>1. PICK s \in HandlerExits(txns[t].intent) :
          Become(t, [txns[t] EXCEPT !.pc = "anchor",
                       !.left = NumAnchors[txns[t].intent.action],
                       !.intent = WithStatus(txns[t].intent, s)])
    BY DEF HandlerWrites
  <1> DEFINE row == WithStatus(txns[t].intent, s)
             n == NumAnchors[txns[t].intent.action]
             c == [txns[t] EXCEPT !.pc = "anchor", !.left = n, !.intent = row]
  <1>2. /\ Active(t) /\ CallInv(t) /\ txns[t] \in Txn
        /\ txns[t].intent \in Row /\ txns[t].id \in Ids
    BY ActiveCall DEF Active, HandlerWrites
  <1>3. row \in Row /\ SameIntent(row, txns[t].intent)
    BY <1>2, StatusChange DEF Statuses, Unsubmitted, SameIntent, HandlerExits
  <1>4. n \in Nat /\ anchors[txns[t].id] \in Nat
    BY <1>2 DEF Row, Inv, TypeOK
  <1>5. Become(t, c) /\ UNCHANGED <<store, locks, anchors, clock>>
    BY <1>1 DEF HandlerWrites
  <1> HIDE DEF row, n
  <1>6. /\ c.pc = "anchor" /\ c.left = n /\ c.intent = row
        /\ c.id = txns[t].id /\ c.by = txns[t].by
        /\ c.decided = txns[t].decided /\ c.reply = txns[t].reply
    BY <1>2 DEF Txn
  <1>7. c \in Txn
    BY <1>2, <1>3, <1>4, WritingIsTxn
  <1> HIDE DEF c
  <1>8. txns'[t] = c
    BY <1>5 DEF Inv, TypeOK, Become
  <1>9. /\ txns[t].pc = "handle"
        /\ row.action \in Gated => c.decided
        /\ anchors[c.id] + c.left >= NumAnchors[row.action]
    BY <1>3, <1>4, <1>6 DEF HandlerWrites, SameIntent, n
  <1>10. CallInv(t)'
    BY <1>2, <1>3, <1>5, <1>6, <1>8, <1>9
    DEF CallInv, Creating, Resuming, SameIntent, Conflicts, store, locks
  <1>11. Creating(t)' => Creating(t)
    BY <1>6, <1>8, <1>9 DEF Creating
  <1> QED
    BY <1>2, <1>3, <1>5, <1>6, <1>7, <1>10, <1>11, ProceedStep

\* What is anchored and what is left to anchor stay in balance.
LEMMA AnchorStep ==
  ASSUME Inv, NEW t \in Txns, Anchor(t)
  PROVE  Inv'
PROOF
  <1> DEFINE n == txns[t].left - 1
             c == [txns[t] EXCEPT !.left = n]
  <1>1. /\ Active(t) /\ CallInv(t) /\ txns[t] \in Txn
        /\ txns[t].intent \in Row /\ txns[t].id \in Ids
        /\ txns[t].pc = "anchor" /\ txns[t].left > 0
        /\ txns[t].reply = "confirmed" => effects[txns[t].id] = 1
    BY ActiveCall DEF Active, Anchor
  <1>2. n \in Nat /\ anchors[txns[t].id] \in Nat /\ NumAnchors[txns[t].intent.action] \in Nat
    BY <1>1 DEF Txn, Row, Inv, TypeOK
  <1>3. /\ Become(t, c) /\ UNCHANGED store /\ UNCHANGED locks /\ clock' = clock
        /\ anchors' = [anchors EXCEPT ![txns[t].id] = @ + 1]
    BY DEF Anchor
  <1>4. /\ c.pc = "anchor" /\ c.left = n /\ c.intent = txns[t].intent
        /\ c.id = txns[t].id /\ c.by = txns[t].by
        /\ c.decided = txns[t].decided /\ c.reply = txns[t].reply
    BY <1>1 DEF Txn
  <1>5. c \in Txn
    BY <1>1, <1>2, AnchoredIsTxn
  <1> HIDE DEF c
  <1>6. txns'[t] = c
    BY <1>3 DEF Inv, TypeOK, Become
  <1>7. /\ anchors' \in [Ids -> Nat] /\ \A i \in Ids : anchors'[i] >= anchors[i]
        /\ anchors'[c.id] + c.left = anchors[txns[t].id] + txns[t].left
    <2>1. anchors \in [Ids -> Nat] /\ txns[t].left \in Nat
      BY <1>1 DEF Inv, TypeOK, Txn
    <2>2. anchors' \in [Ids -> Nat] /\ \A i \in Ids : anchors'[i] >= anchors[i]
      BY <1>1, <1>3, <2>1
    <2>3. anchors'[c.id] = anchors[txns[t].id] + 1
      BY <1>1, <1>3, <1>4, <2>1
    <2> QED BY <1>2, <1>4, <2>1, <2>2, <2>3
  <1>8. CallInv(t)'
    BY <1>1, <1>3, <1>4, <1>6, <1>7
    DEF CallInv, Creating, Resuming, SameIntent, Conflicts, store, locks
  <1>9. Creating(t) /\ Creating(t)' =>
          \A u \in Txns \ {t} : Active(u) /\ Creating(u) =>
             ~Conflicts(c.id, c.intent, txns[u].id, txns[u].intent)
    BY <1>1, <1>4 DEF Inv, CallsAreIsolated, Distinct
  <1>10. Creating(t)' => Creating(t)
    BY <1>1, <1>4, <1>6 DEF Creating
  <1>11. /\ clock' \in Nat
         /\ intentLock' \in [Ids -> Txns \cup {NoTxn}] /\ intentLock' = intentLock
         /\ approvalLock' \in [Ids -> Txns \cup {NoTxn}] /\ approvalLock' = approvalLock
    BY <1>3 DEF Inv, TypeOK, locks
  <1> QED
    BY <1>1, <1>3, <1>4, <1>5, <1>7, <1>8, <1>9, <1>10, <1>11, OwnStep

\* Saving takes the row lock, which a creating call holds already.
LEMMA SaveStep ==
  ASSUME Inv, NEW t \in Txns, Save(t)
  PROVE  Inv'
PROOF
  <1> DEFINE c == [txns[t] EXCEPT !.pc = "commit"]
  <1>1. /\ Active(t) /\ CallInv(t) /\ txns[t] \in Txn
        /\ txns[t].intent \in Row /\ txns[t].id \in Ids
        /\ txns[t].pc = "save"
        /\ txns[t].reply = "confirmed" => effects[txns[t].id] = 1
    BY ActiveCall DEF Active, Save
  <1>2. /\ Become(t, c) /\ UNCHANGED store /\ clock' = clock /\ anchors' = anchors
        /\ approvalLock' = approvalLock
        /\ intentLock[txns[t].id] \in {NoTxn, t}
        /\ intentLock' = [intentLock EXCEPT ![txns[t].id] = t]
    BY DEF Save, Goto
  <1>3. /\ c.pc = "commit" /\ c.intent = txns[t].intent
        /\ c.id = txns[t].id /\ c.by = txns[t].by /\ c.outcome = txns[t].outcome
        /\ c.decided = txns[t].decided /\ c.reply = txns[t].reply
    BY <1>1 DEF Txn
  <1>4. c \in Txn
    BY <1>1, GoneIsTxn
  <1> HIDE DEF c
  <1>5. txns'[t] = c
    BY <1>2 DEF Inv, TypeOK, Become
  <1>6. /\ clock' \in Nat
        /\ anchors' \in [Ids -> Nat] /\ \A i \in Ids : anchors'[i] >= anchors[i]
        /\ intentLock' \in [Ids -> Txns \cup {NoTxn}] /\ intentLock'[txns[t].id] = t
        /\ approvalLock' \in [Ids -> Txns \cup {NoTxn}]
        /\ \A i \in Ids, u \in Txns \ {t} :
             /\ intentLock[i] = u => intentLock'[i] = u
             /\ approvalLock[i] = u => approvalLock'[i] = u
    BY <1>1, <1>2 DEF Inv, TypeOK
  <1>7. CallInv(t)'
    BY <1>1, <1>2, <1>3, <1>5, <1>6
    DEF CallInv, Creating, Resuming, SameIntent, Conflicts, store
  <1>8. Creating(t)' => Creating(t)
    BY <1>1, <1>3, <1>5 DEF Creating
  <1>9. Creating(t) =>
          \A u \in Txns \ {t} : Active(u) /\ Creating(u) =>
             ~Conflicts(c.id, c.intent, txns[u].id, txns[u].intent)
    BY <1>1, <1>3 DEF Inv, CallsAreIsolated, Distinct
  <1> QED
    BY <1>1, <1>2, <1>3, <1>4, <1>6, <1>7, <1>8, <1>9, OwnStep

\* An inserted row conflicts with no committed row and no other creating call.
LEMMA InsertStep ==
  ASSUME Inv, NEW t \in Txns, Insert(t)
  PROVE  Inv'
PROOF
  <1>1. /\ Active(t) /\ CallInv(t) /\ txns[t] \in Txn
        /\ txns[t].intent \in Row /\ txns[t].id \in Ids
        /\ txns[t].pc = "insert" /\ ~txns[t].decided
        /\ txns[t].reply = "confirmed" => effects[txns[t].id] = 1
    BY ActiveCall DEF Active, Insert, CallInv
  <1>2. CASE \E j \in Ids : intents[j] # NoRow /\ Conflicts(txns[t].id, txns[t].intent, j, intents[j])
    <2> DEFINE c == [txns[t] EXCEPT !.pc = "conflict"]
    <2>1. Become(t, c) /\ UNCHANGED <<store, locks, anchors, clock>>
      BY <1>2 DEF Insert, Goto, locks
    <2>2. /\ c.pc = "conflict" /\ c.intent = txns[t].intent /\ c.id = txns[t].id
          /\ c.decided = txns[t].decided /\ c.reply = txns[t].reply
      BY <1>1 DEF Txn
    <2>3. c \in Txn
      BY <1>1, GoneIsTxn
    <2> HIDE DEF c
    <2>4. txns'[t] = c
      BY <2>1 DEF Inv, TypeOK, Become
    <2>5. CallInv(t)' /\ ~Creating(t)'
      BY <1>1, <2>2, <2>4 DEF CallInv, Creating, Resuming
    <2>6. SameIntent(c.intent, txns[t].intent)
      BY <1>1, <2>2 DEF SameIntent
    <2> QED
      BY <1>1, <2>1, <2>2, <2>3, <2>5, <2>6, ProceedStep
  <1>3. CASE ~ \E j \in Ids : intents[j] # NoRow /\ Conflicts(txns[t].id, txns[t].intent, j, intents[j])
    <2> DEFINE row == WithStatus(txns[t].intent, "validated")
               c == [txns[t] EXCEPT !.pc = "authorize", !.intent = row]
    <2>1. row \in Row /\ SameIntent(row, txns[t].intent)
      BY <1>1, StatusChange DEF Statuses, Unsubmitted, SameIntent
    <2>2. /\ Become(t, c) /\ UNCHANGED store /\ clock' = clock /\ anchors' = anchors
          /\ approvalLock' = approvalLock
          /\ intentLock' = [intentLock EXCEPT ![txns[t].id] = t]
          /\ \A j \in Ids : intentLock[j] # NoTxn =>
               ~Conflicts(txns[t].id, txns[t].intent, j, txns[intentLock[j]].intent)
      BY <1>3 DEF Insert
    <2> HIDE DEF row
    <2>3. /\ c.pc = "authorize" /\ c.intent = row
          /\ c.id = txns[t].id /\ c.by = txns[t].by
          /\ c.decided = txns[t].decided /\ c.reply = txns[t].reply
      BY <1>1 DEF Txn
    <2>4. c \in Txn
      BY <1>1, <2>1, AuthorizedIsTxn
    <2> HIDE DEF c
    <2>5. txns'[t] = c
      BY <2>2 DEF Inv, TypeOK, Become
    <2>6. /\ clock' \in Nat
          /\ anchors' \in [Ids -> Nat] /\ \A i \in Ids : anchors'[i] >= anchors[i]
          /\ intentLock' \in [Ids -> Txns \cup {NoTxn}] /\ intentLock'[txns[t].id] = t
          /\ approvalLock' \in [Ids -> Txns \cup {NoTxn}]
      BY <1>1, <2>2 DEF Inv, TypeOK
    <2>7. intentLock[txns[t].id] = NoTxn
      BY <1>1, <2>2 DEF Conflicts
    <2>8. \A i \in Ids, u \in Txns \ {t} :
             /\ intentLock[i] = u => intentLock'[i] = u
             /\ approvalLock[i] = u => approvalLock'[i] = u
      BY <1>1, <2>2, <2>7, ConstantsAssumption DEF Inv, TypeOK
    <2>9. /\ intents[c.id] = NoRow
          /\ \A j \in Ids : intents[j] # NoRow => ~Conflicts(c.id, c.intent, j, intents[j])
      BY <1>1, <1>3, <2>1, <2>3 DEF Conflicts, SameIntent
    <2>10. CallInv(t)'
      BY <1>1, <2>1, <2>2, <2>3, <2>5, <2>6, <2>9 DEF CallInv, Creating, Resuming, store
    <2>11. ASSUME NEW u \in Txns \ {t}, Active(u), Creating(u)
           PROVE  ~Conflicts(c.id, c.intent, txns[u].id, txns[u].intent)
      <3>1. txns[u].id \in Ids /\ intentLock[txns[u].id] = u
        BY <2>11, ActiveCall DEF CallInv
      <3> QED
        BY <2>1, <2>2, <2>3, <3>1, ConstantsAssumption DEF Conflicts, SameIntent
    <2> QED
      BY <1>1, <2>2, <2>3, <2>4, <2>6, <2>8, <2>10, <2>11, OwnStep
  <1> QED BY <1>2, <1>3

\* A replay is answered with the committed status, never with more.
LEMMA ReadExistingStep ==
  ASSUME Inv, NEW t \in Txns, ReadExisting(t)
  PROVE  Inv'
PROOF
  <1> DEFINE existing == intents[txns[t].id]
             r == IF existing = NoRow THEN "replay" ELSE existing.status
  <1>1. txns[t].id \in Ids
    BY ActiveCall DEF Active, ReadExisting
  <1>2. r \in Replies
    BY <1>1 DEF Inv, TypeOK, Row, Replies
  <1>3. r = "confirmed" => effects[txns[t].id] = 1
    BY <1>1 DEF Inv, CallsAreIsolated, RowInv
  <1>4. Return(t, r)
    BY DEF ReadExisting
  <1> QED
    BY <1>1, <1>2, <1>3, <1>4, ReturnStep

\* A call goes on to decide only for a regulator.
LEMMA FindApprovalStep ==
  ASSUME Inv, NEW t \in Txns, FindApproval(t)
  PROVE  Inv'
PROOF
  <1>1. /\ Active(t) /\ CallInv(t) /\ txns[t] \in Txn
        /\ txns[t].intent \in Row /\ txns[t].id \in Ids
        /\ txns[t].pc = "find" /\ ~txns[t].decided
        /\ txns[t].intent.status \notin Terminal
    BY ActiveCall DEF Active, FindApproval, CallInv
  <1>2. CASE approvals[txns[t].id] = Undecided /\ txns[t].by \in Regulators
    <2> DEFINE c == [txns[t] EXCEPT !.pc = "decide"]
    <2>1. Become(t, c) /\ UNCHANGED <<store, locks, anchors, clock>>
      BY <1>2 DEF FindApproval, Goto
    <2>2. /\ c.pc = "decide" /\ c.intent = txns[t].intent /\ c.id = txns[t].id
          /\ c.by = txns[t].by /\ c.decided = txns[t].decided /\ c.reply = txns[t].reply
      BY <1>1 DEF Txn
    <2>3. c \in Txn
      BY <1>1, GoneIsTxn
    <2> HIDE DEF c
    <2>4. txns'[t] = c
      BY <2>1 DEF Inv, TypeOK, Become
    <2>5. CallInv(t)' /\ ~Creating(t)'
      BY <1>1, <1>2, <2>1, <2>2, <2>4 DEF CallInv, Creating, Resuming, SameIntent, store, locks
    <2>6. SameIntent(c.intent, txns[t].intent)
      BY <1>1, <2>2 DEF SameIntent
    <2> QED
      BY <1>1, <2>1, <2>2, <2>3, <2>5, <2>6, ProceedStep
  <1>3. CASE ~(approvals[txns[t].id] = Undecided /\ txns[t].by \in Regulators)
    <2> DEFINE r == IF approvals[txns[t].id] \in {NoApproval, Undecided}
                    THEN "error" ELSE txns[t].intent.status
    <2>1. Return(t, r)
      BY <1>3 DEF FindApproval
    <2>2. r \in Replies /\ r # "confirmed"
      BY <1>1 DEF Row, Replies, Terminal
    <2> QED BY <2>1, <2>2, ReturnStep
  <1> QED BY <1>2, <1>3

\* The call that marks the approval decided is the only one that can.
LEMMA DecideStep ==
  ASSUME Inv, NEW t \in Txns, Decide(t)
  PROVE  Inv'
PROOF
  <1>1. /\ Active(t) /\ CallInv(t) /\ txns[t] \in Txn
        /\ txns[t].intent \in Row /\ txns[t].id \in Ids
        /\ txns[t].pc = "decide" /\ ~txns[t].decided
        /\ txns[t].intent.status \notin Terminal /\ txns[t].by \in Regulators
        /\ txns[t].reply = "confirmed" => effects[txns[t].id] = 1
    BY ActiveCall DEF Active, Decide, CallInv
  <1>2. CASE approvals[txns[t].id] = Undecided
    <2> DEFINE c == [txns[t] EXCEPT !.pc = "handle", !.decided = TRUE]
    <2>1. /\ Become(t, c) /\ UNCHANGED store /\ clock' = clock /\ anchors' = anchors
          /\ intentLock' = intentLock
          /\ approvalLock[txns[t].id] = NoTxn
          /\ approvalLock' = [approvalLock EXCEPT ![txns[t].id] = t]
      BY <1>2 DEF Decide
    <2>2. /\ c.pc = "handle" /\ c.intent = txns[t].intent /\ c.id = txns[t].id
          /\ c.by = txns[t].by /\ c.decided = TRUE /\ c.reply = txns[t].reply
      BY <1>1 DEF Txn
    <2>3. c \in Txn
      BY <1>1, DecidedIsTxn
    <2> HIDE DEF c
    <2>4. txns'[t] = c
      BY <2>1 DEF Inv, TypeOK, Become
    <2>5. /\ clock' \in Nat
          /\ anchors' \in [Ids -> Nat] /\ \A i \in Ids : anchors'[i] >= anchors[i]
          /\ intentLock' \in [Ids -> Txns \cup {NoTxn}]
          /\ approvalLock' \in [Ids -> Txns \cup {NoTxn}] /\ approvalLock'[txns[t].id] = t
          /\ \A i \in Ids, u \in Txns \ {t} :
               /\ intentLock[i] = u => intentLock'[i] = u
               /\ approvalLock[i] = u => approvalLock'[i] = u
      BY <1>1, <2>1, ConstantsAssumption DEF Inv, TypeOK
    <2>6. CallInv(t)' /\ ~Creating(t)'
      BY <1>1, <1>2, <2>1, <2>2, <2>4, <2>5 DEF CallInv, Creating, Resuming, SameIntent, store
    <2> QED
      BY <1>1, <2>1, <2>2, <2>3, <2>5, <2>6, OwnStep
  <1>3. CASE approvals[txns[t].id] # Undecided
    <2>1. Return(t, txns[t].intent.status)
      BY <1>3 DEF Decide
    <2>2. txns[t].intent.status \in Replies /\ txns[t].intent.status # "confirmed"
      BY <1>1 DEF Row, Replies, Terminal
    <2> QED BY <2>1, <2>2, ReturnStep
  <1> QED BY <1>2, <1>3

\* A call that has just begun: no lock is taken and nothing is written.
LEMMA BeginStep ==
  ASSUME Inv, NEW t \in Txns, txns[t].pc = "idle", NEW c \in Txn, Become(t, c),
         UNCHANGED <<store, locks, anchors, clock>>,
         ~c.decided, c.reply # "confirmed",
         c.pc \in {"ended", "insert", "find", "save"},
         c.pc # "ended" => c.id \in Ids /\ c.intent \in Row,
         c.pc = "find" => c.intent.status \notin Terminal,
         c.pc = "save" => c.outcome = "deny" /\ c.intent.status = "expired",
         c.pc \in {"find", "save"} => SameIntent(intents[c.id], c.intent)
  PROVE  Inv'
PROOF
  <1>1. txns'[t] = c
    BY DEF Inv, TypeOK, Become
  <1>2. ~Creating(t)'
    BY <1>1 DEF Creating
  <1>3. ASSUME Active(t)' PROVE CallInv(t)'
    BY <1>1, <1>2, <1>3 DEF CallInv, Resuming, SameIntent, Active, store, locks
  <1>4. /\ UNCHANGED store /\ clock' \in Nat
        /\ intentLock' \in [Ids -> Txns \cup {NoTxn}] /\ intentLock' = intentLock
        /\ approvalLock' \in [Ids -> Txns \cup {NoTxn}] /\ approvalLock' = approvalLock
        /\ anchors' \in [Ids -> Nat] /\ \A i \in Ids : anchors'[i] >= anchors[i]
    BY DEF Inv, TypeOK, locks
  <1> QED
    BY <1>2, <1>3, <1>4, OwnStep

\* The record of a call that begins.
LEMMA CallIsTxn ==
  ASSUME NEW pc \in {"ended", "insert", "find", "save"}, NEW id \in Ids,
         NEW by \in Actors \cup Approvers, NEW now \in Nat, NEW row \in Row \cup {NoRow},
         NEW outcome \in {"none", "deny"}, NEW reply \in {"none", "invalid", "error"}
  PROVE  Call(pc, id, by, now, row, outcome, reply) \in Txn
BY DEF Call, Txn

\* execute begins.
LEMMA BeginExecuteStep ==
  ASSUME Inv, NEW t \in Txns, NEW raw \in Requests, BeginExecute(t, raw)
  PROVE  Inv'
PROOF
  <1> DEFINE row == RowOf(raw, "created")
  <1>1. raw \in RawIntent /\ clock \in Nat
    BY ConstantsAssumption DEF Inv, TypeOK
  <1>2. row \in Row /\ raw.id \in Ids /\ raw.actor \in Actors
    BY <1>1 DEF RowOf, Row, RawIntent, Statuses, Unsubmitted
  <1>3. txns[t].pc = "idle" /\ UNCHANGED <<store, locks, anchors, clock>>
    BY DEF BeginExecute
  <1>4. CASE Become(t, Call("ended", raw.id, raw.actor, clock, row, "none", "invalid"))
    <2> DEFINE c == Call("ended", raw.id, raw.actor, clock, row, "none", "invalid")
    <2>1. c \in Txn
      BY <1>1, <1>2, CallIsTxn
    <2>2. c.pc = "ended" /\ ~c.decided /\ c.reply = "invalid"
      BY DEF Call
    <2> QED BY <1>3, <1>4, <2>1, <2>2, BeginStep
  <1>5. CASE Become(t, Call("insert", raw.id, raw.actor, clock, row, "none", "none"))
    <2> DEFINE c == Call("insert", raw.id, raw.actor, clock, row, "none", "none")
    <2>1. c \in Txn
      BY <1>1, <1>2, CallIsTxn
    <2>2. c.pc = "insert" /\ ~c.decided /\ c.reply = "none" /\ c.id = raw.id /\ c.intent = row
      BY DEF Call
    <2> QED BY <1>2, <1>3, <1>5, <2>1, <2>2, BeginStep
  <1> QED BY <1>4, <1>5 DEF BeginExecute

\* approve begins, on a snapshot of the committed intent.
LEMMA BeginApproveStep ==
  ASSUME Inv, NEW t \in Txns, NEW id \in Ids, NEW who \in Approvers,
         BeginApprove(t, id, who)
  PROVE  Inv'
PROOF
  <1> DEFINE row == intents[id]
  <1>1. row \in Row \cup {NoRow} /\ clock \in Nat
    BY DEF Inv, TypeOK
  <1>2. txns[t].pc = "idle" /\ UNCHANGED <<store, locks, anchors, clock>>
    BY DEF BeginApprove
  <1>3. CASE row = NoRow \/ row.status \in Terminal
    <2> DEFINE c == Call("ended", id, who, clock, row, "none", "error")
    <2>1. c \in Txn
      BY <1>1, CallIsTxn
    <2>2. c.pc = "ended" /\ ~c.decided /\ c.reply = "error"
      BY DEF Call
    <2>3. Become(t, c)
      BY <1>3 DEF BeginApprove
    <2> HIDE DEF c
    <2> QED BY <1>2, <2>1, <2>2, <2>3, BeginStep
  <1>4. CASE ~(row = NoRow \/ row.status \in Terminal) /\ Expired(row, clock)
    <2> DEFINE c == Call("save", id, who, clock, WithStatus(row, "expired"), "deny", "none")
    <2>1. /\ WithStatus(row, "expired") \in Row
          /\ WithStatus(row, "expired").status = "expired"
          /\ SameIntent(row, WithStatus(row, "expired"))
      BY <1>1, <1>4, StatusChange DEF Statuses, Terminal, SameIntent
    <2>2. c \in Txn
      BY <1>1, <2>1, CallIsTxn
    <2>3. /\ c.pc = "save" /\ ~c.decided /\ c.reply = "none" /\ c.id = id
          /\ c.outcome = "deny" /\ c.intent = WithStatus(row, "expired")
      BY DEF Call
    <2>4. Become(t, c)
      BY <1>4 DEF BeginApprove
    <2> HIDE DEF c
    <2> QED BY <1>2, <2>1, <2>2, <2>3, <2>4, BeginStep
  <1>5. CASE ~(row = NoRow \/ row.status \in Terminal) /\ ~Expired(row, clock)
    <2> DEFINE c == Call("find", id, who, clock, row, "none", "none")
    <2>1. row \in Row /\ row.status \notin Terminal /\ SameIntent(row, row)
      BY <1>1, <1>5 DEF SameIntent
    <2>2. c \in Txn
      BY <1>1, CallIsTxn
    <2>3. /\ c.pc = "find" /\ ~c.decided /\ c.reply = "none" /\ c.id = id
          /\ c.intent = row
      BY DEF Call
    <2>4. Become(t, c)
      BY <1>5 DEF BeginApprove
    <2> HIDE DEF c
    <2> QED BY <1>2, <2>1, <2>2, <2>3, <2>4, BeginStep
  <1> QED BY <1>3, <1>4, <1>5

\* What a call about to commit knows, by the way it got there.
LEMMA CommitCases ==
  ASSUME Inv, NEW t \in Txns, txns[t].pc = "commit",
         NEW id, id = txns[t].id, NEW row, row = txns[t].intent
  PROVE  /\ id \in Ids /\ row \in Row /\ intentLock[id] = t
         /\ \/ /\ Creating(t) /\ intents[id] = NoRow /\ approvals[id] = NoApproval
               /\ effects[id] = 0 /\ ~txns[t].decided
               /\ \/ /\ txns[t].outcome = "allow" /\ row.status = "confirmed"
                     /\ row.action \notin Gated /\ anchors[id] >= NumAnchors[row.action]
                  \/ txns[t].outcome = "deny" /\ row.status = "rejected"
                  \/ /\ txns[t].outcome = "park" /\ row.status = "policy_checked"
                     /\ row.action \in Gated
            \/ /\ ~Creating(t) /\ SameIntent(intents[id], row) /\ txns[t].decided
               /\ txns[t].by \in Regulators /\ approvalLock[id] = t
               /\ approvals[id] = Undecided /\ effects[id] = 0 /\ row.action \in Gated
               /\ \/ /\ txns[t].outcome = "allow" /\ row.status = "confirmed"
                     /\ anchors[id] >= NumAnchors[row.action]
                  \/ txns[t].outcome = "deny" /\ row.status = "rejected"
            \/ /\ ~Creating(t) /\ SameIntent(intents[id], row) /\ ~txns[t].decided
               /\ txns[t].outcome = "deny" /\ row.status = "expired"
PROOF
  <1>1. Active(t) /\ CallInv(t) /\ id \in Ids /\ row \in Row /\ RowInv(id)
    BY ActiveCall DEF Active, Inv, CallsAreIsolated
  <1>2. Undecided # NoApproval
    BY ConstantsAssumption
  <1>3. /\ intentLock[id] = t
        /\ \/ /\ txns[t].outcome = "allow" /\ row.status = "confirmed"
              /\ (row.action \in Gated => txns[t].decided)
              /\ anchors[id] >= NumAnchors[row.action]
           \/ txns[t].outcome = "deny" /\ row.status = "rejected"
           \/ txns[t].outcome = "deny" /\ row.status = "expired" /\ ~txns[t].decided
           \/ /\ txns[t].outcome = "park" /\ row.status = "policy_checked"
              /\ row.action \in Gated /\ ~txns[t].decided
    BY <1>1 DEF CallInv
  <1>4. CASE txns[t].decided
    <2>1. /\ ~Creating(t) /\ SameIntent(intents[id], row)
          /\ txns[t].by \in Regulators /\ approvalLock[id] = t
          /\ approvals[id] = Undecided
      BY <1>1, <1>4 DEF CallInv, Creating, Resuming
    <2>2. effects[id] = 0 /\ row.action \in Gated
      BY <1>1, <1>2, <2>1 DEF RowInv, SameIntent
    <2> QED BY <1>1, <1>3, <1>4, <2>1, <2>2
  <1>5. CASE ~txns[t].decided /\ row.status = "expired"
    <2>1. ~Creating(t) /\ SameIntent(intents[id], row)
      BY <1>1, <1>5 DEF CallInv, Creating, Resuming
    <2> QED BY <1>1, <1>3, <1>5, <2>1
  <1>6. CASE ~txns[t].decided /\ row.status # "expired"
    <2>1. Creating(t) /\ intents[id] = NoRow
      BY <1>1, <1>6 DEF CallInv, Creating
    <2>2. approvals[id] = NoApproval /\ effects[id] = 0
      BY <1>1, <2>1 DEF RowInv
    <2> QED BY <1>1, <1>3, <1>6, <2>1, <2>2
  <1> QED BY <1>4, <1>5, <1>6

\* A commit publishes the row, the decision and the effects together.
LEMMA CommitStep ==
  ASSUME Inv, NEW t \in Txns, Commit(t)
  PROVE  Inv'
PROOF
  <1> DEFINE id == txns[t].id
             row == txns[t].intent
             result == txns[t].outcome
             c == [txns[t] EXCEPT !.pc = "ended", !.reply = txns[t].intent.status]
  <1>1. /\ Active(t) /\ CallInv(t) /\ txns[t] \in Txn /\ txns[t].pc = "commit"
        /\ row.status \in Replies
    BY ActiveCall DEF Active, Commit, Row, Replies
  <1>2. /\ Become(t, c) /\ anchors' = anchors /\ clock' = clock
        /\ intents' = [intents EXCEPT ![id] = row]
        /\ approvals' = [approvals EXCEPT ![id] = ApprovalAfter(t)]
        /\ audit' = [audit EXCEPT ![id] = AuditAfter(t)]
        /\ effects' = [effects EXCEPT ![id] = IF result = "allow" THEN @ + 1 ELSE @]
        /\ LocksFreedBy(t)
    BY DEF Commit
  <1>3. c \in Txn /\ c.pc = "ended" /\ c.reply = row.status /\ c.id = id
    <2>1. c \in Txn
      BY <1>1, EndedIsTxn
    <2> QED BY <1>1, <2>1 DEF Txn
  <1> HIDE DEF c
  <1>4. /\ txns'[t] = c /\ ~Active(t)'
        /\ \A u \in Txns \ {t} : txns'[u] = txns[u]
    BY <1>2, <1>3 DEF Inv, TypeOK, Become, Active
  <1>5. id \in Ids /\ row \in Row /\ intentLock[id] = t /\ row # NoRow
    BY <1>1, CommitCases, ConstantsAssumption
  <1>6. ApprovalAfter(t) = IF txns[t].decided THEN txns[t].by
                           ELSE IF result = "park" THEN Undecided ELSE approvals[id]
    BY <1>1, CommitCases DEF ApprovalAfter
  <1>7. ApprovalAfter(t) \in Approvers \cup {NoApproval, Undecided}
    <2>1. approvals[id] \in Approvers \cup {NoApproval, Undecided}
      BY <1>5 DEF Inv, TypeOK
    <2>2. txns[t].decided => txns[t].by \in Approvers
      BY <1>1, ConstantsAssumption DEF CallInv
    <2> QED BY <1>6, <2>1, <2>2
  <1>8. /\ \A i \in Ids, u \in Txns \ {t} :
             /\ intentLock[i] = u => intentLock'[i] = u
             /\ approvalLock[i] = u => approvalLock'[i] = u
        /\ intentLock' \in [Ids -> Txns \cup {NoTxn}]
        /\ approvalLock' \in [Ids -> Txns \cup {NoTxn}]
    BY <1>2 DEF LocksFreedBy, Inv, TypeOK
  <1>9. /\ intents'[id] = row /\ approvals'[id] = ApprovalAfter(t)
        /\ effects'[id] = IF result = "allow" THEN effects[id] + 1 ELSE effects[id]
        /\ \A i \in Ids \ {id} : /\ intents'[i] = intents[i] /\ approvals'[i] = approvals[i]
                                  /\ effects'[i] = effects[i]
    BY <1>2, <1>5 DEF Inv, TypeOK
  <1>10. TypeOK'
    <2>1. intents' \in [Ids -> Row \cup {NoRow}] /\ approvals' \in [Ids -> Approvers \cup {NoApproval, Undecided}]
      BY <1>2, <1>5, <1>7 DEF Inv, TypeOK
    <2>2. effects' \in [Ids -> Nat]
      BY <1>2, <1>5 DEF Inv, TypeOK
    <2>3. audit' \in [Ids -> Seq({"allow", "deny"})]
      <3>1. result \in {"allow", "deny", "park"}
        BY <1>1, CommitCases
      <3>2. audit[id] \in Seq({"allow", "deny"})
        BY <1>5 DEF Inv, TypeOK
      <3>3. result # "park" => Append(audit[id], result) \in Seq({"allow", "deny"})
        BY <3>1, <3>2
      <3> QED BY <1>2, <1>5, <3>2, <3>3 DEF Inv, TypeOK, AuditAfter
    <2> QED
      BY <1>2, <1>3, <1>8, <2>1, <2>2, <2>3 DEF Inv, TypeOK, Become
  <1>11. ASSUME NEW u \in Txns, Active(u)' PROVE CallInv(u)'
    <2>1. u # t /\ Active(u) /\ CallInv(u) /\ txns'[u] = txns[u]
      BY <1>4, <1>11 DEF Active, Inv, CallsAreIsolated
    <2>2. txns[u].id \in Ids /\ txns[u].intent \in Row
      BY <2>1, ActiveCall
    <2>3. Creating(u) => txns[u].id # id
      BY <1>5, <2>1 DEF CallInv
    <2>4. Creating(u) => ~Conflicts(txns[u].id, txns[u].intent, id, row)
      <3>1. CASE Creating(t)
        BY <1>1, <2>1, <3>1 DEF Inv, CallsAreIsolated, Distinct
      <3>2. CASE ~Creating(t)
        BY <1>1, <1>5, <2>1, <3>2, CommitCases DEF CallInv, Conflicts, SameIntent
      <3> QED BY <3>1, <3>2
    <2>5. Creating(u) => /\ intents'[txns[u].id] = NoRow
                         /\ \A j \in Ids : intents'[j] # NoRow =>
                              ~Conflicts(txns[u].id, txns[u].intent, j, intents'[j])
      BY <1>9, <2>1, <2>2, <2>3, <2>4 DEF CallInv
    <2>6. Resuming(u) => SameIntent(intents'[txns[u].id], txns[u].intent)
      BY <1>1, <1>5, <1>9, <2>1, <2>2, CommitCases DEF CallInv, SameIntent
    <2>7. txns[u].decided => approvals'[txns[u].id] = Undecided
      <3>1. CASE txns[u].id # id
        BY <1>9, <2>1, <2>2, <3>1 DEF CallInv
      <3>2. CASE txns[u].id = id
        BY <1>1, <1>6, <1>9, <2>1, <3>2, CommitCases, ConstantsAssumption DEF CallInv, Resuming, SameIntent
      <3> QED BY <3>1, <3>2
    <2> QED
      BY <1>2, <1>8, <2>1, <2>2, <2>5, <2>6, <2>7 DEF CallInv, Creating, Resuming
  <1>12. ASSUME NEW u \in Txns, NEW v \in Txns, u # v, Active(u)', Active(v)',
               Creating(u)', Creating(v)'
         PROVE Distinct(u, v)'
    <2>1. u # t /\ v # t
      BY <1>4, <1>12
    <2>2. Active(u) /\ Creating(u) /\ Active(v) /\ Creating(v)
      BY <1>4, <1>12, <2>1 DEF Active, Creating
    <2> QED
      BY <1>4, <1>12, <2>1, <2>2 DEF Inv, CallsAreIsolated, Distinct, Conflicts
  <1>13. ASSUME NEW i \in Ids PROVE RowInv(i)'
    <2>1. RowInv(i) /\ anchors[i] \in Nat /\ effects[i] \in Nat
      BY DEF Inv, CallsAreIsolated, TypeOK
    <2>2. CASE i # id
      BY <1>2, <1>9, <2>1, <2>2 DEF RowInv
    <2>3. CASE i = id
      BY <1>1, <1>2, <1>5, <1>6, <1>9, <2>1, <2>3, CommitCases, ConstantsAssumption
      DEF RowInv, SameIntent, Terminal
    <2> QED BY <2>2, <2>3
  <1>14. ASSUME NEW u \in Txns, txns'[u].reply = "confirmed"
         PROVE  txns'[u].id \in Ids /\ effects'[txns'[u].id] = 1
    <2>1. CASE u = t
      BY <1>1, <1>3, <1>4, <1>5, <1>9, <1>14, <2>1, CommitCases
    <2>2. CASE u # t
      <3>1. txns[u].id \in Ids /\ effects[txns[u].id] = 1
        BY <1>4, <1>14, <2>2 DEF Inv, CallsAreIsolated
      <3>2. effects'[txns[u].id] = 1
        BY <1>1, <1>9, <3>1, CommitCases
      <3> QED BY <1>4, <2>2, <3>1, <3>2
    <2> QED BY <2>1, <2>2
  <1> QED
    BY <1>10, <1>11, <1>12, <1>13, <1>14 DEF Inv, CallsAreIsolated

\* The invariant holds before any call.
LEMMA InitInv == Init => Inv
PROOF
  <1> SUFFICES ASSUME Init PROVE Inv
    OBVIOUS
  <1>1. Idle \in Txn /\ Idle.pc = "idle" /\ Idle.reply = "none"
    BY DEF Idle, Call, Txn
  <1> HIDE DEF Idle
  <1>2. \A i \in Ids : <<>> \in Seq({"allow", "deny"})
    OBVIOUS
  <1>3. TypeOK
    BY <1>1, <1>2 DEF Init, TypeOK
  <1>4. \A t \in Txns : txns[t] = Idle
    BY DEF Init
  <1>5. \A t \in Txns : ~Active(t) /\ txns[t].reply = "none"
    BY <1>1, <1>4 DEF Active
  <1>6. ASSUME NEW i \in Ids PROVE RowInv(i)
    BY ConstantsAssumption DEF Init, RowInv
  <1> QED BY <1>3, <1>5, <1>6 DEF Inv, CallsAreIsolated

\* Every step of the engine, the clients, the clock and the failures.
LEMMA NextInv == Inv /\ [Next]_vars => Inv'
PROOF
  <1> SUFFICES ASSUME Inv, [Next]_vars PROVE Inv'
    OBVIOUS
  <1>1. ASSUME NEW t \in Txns, Begin(t) PROVE Inv'
    <2>1. CASE \E raw \in Requests : BeginExecute(t, raw)
      BY <2>1, BeginExecuteStep
    <2>2. CASE \E id \in Ids, who \in Approvers : BeginApprove(t, id, who)
      BY <2>2, BeginApproveStep
    <2>3. CASE BeginTimesOut(t)
      BY <2>3, ReturnStep DEF BeginTimesOut, Replies
    <2> QED BY <1>1, <2>1, <2>2, <2>3 DEF Begin
  <1>2. ASSUME NEW t \in Txns, Serve(t) PROVE Inv'
    <2>1. CASE Insert(t)         BY <2>1, InsertStep
    <2>2. CASE ReadExisting(t)   BY <2>2, ReadExistingStep
    <2>3. CASE Authorize(t)
      BY <2>3, AuthorizeStep, RejectStep DEF Authorize
    <2>4. CASE FindApproval(t)   BY <2>4, FindApprovalStep
    <2>5. CASE Decide(t)         BY <2>5, DecideStep
    <2>6. CASE HandlerRejects(t) BY <2>6, RejectStep DEF HandlerRejects
    <2>7. CASE HandlerParks(t)   BY <2>7, HandlerParksStep
    <2>8. CASE HandlerWrites(t)  BY <2>8, HandlerWritesStep
    <2>9. CASE Anchor(t)         BY <2>9, AnchorStep
    <2>10. CASE AnchorFails(t)   BY <2>10, RejectStep DEF AnchorFails
    <2>11. CASE Finish(t)        BY <2>11, FinishStep
    <2>12. CASE Save(t)          BY <2>12, SaveStep
    <2>13. CASE Commit(t)        BY <2>13, CommitStep
    <2> QED
      BY <1>2, <2>1, <2>2, <2>3, <2>4, <2>5, <2>6, <2>7, <2>8, <2>9, <2>10,
         <2>11, <2>12, <2>13 DEF Serve
  <1>3. ASSUME NEW t \in Txns, Crash(t) PROVE Inv'
    BY <1>3, ReturnStep DEF Crash, Replies
  <1>4. CASE Tick
    <2>1. clock' \in Nat /\ UNCHANGED <<store, locks, anchors, txns>>
      BY <1>4 DEF Tick, Inv, TypeOK
    <2> QED
      BY <2>1 DEF Inv, TypeOK, CallsAreIsolated, CallInv, RowInv, Creating, Resuming, Active,
                  Distinct, store, locks
  <1>5. CASE UNCHANGED vars
    BY <1>5 DEF Inv, TypeOK, CallsAreIsolated, CallInv, RowInv, Creating, Resuming, Active,
                Distinct, vars
  <1> QED
    BY <1>1, <1>2, <1>3, <1>4, <1>5 DEF Next, Terminated

\* The tables, locks and calls keep their types, and calls stay isolated.
THEOREM Invariance == Spec => [](TypeOK /\ CallsAreIsolated)
PROOF
  <1>1. Spec => []Inv
    BY InitInv, NextInv, PTL DEF Spec
  <1> QED BY <1>1, PTL DEF Inv

\* An intent's business section is committed at most once.
THEOREM ExecutedOnce == Spec => []ExecutedAtMostOnce
PROOF
  <1>1. Inv => ExecutedAtMostOnce
    BY DEF Inv, CallsAreIsolated, RowInv, ExecutedAtMostOnce
  <1> QED BY <1>1, Invariance, PTL DEF Inv

\* A gated action has effects only under a regulator's decision.
THEOREM GateIsHeld == Spec => []GateHolds
PROOF
  <1>1. Inv => GateHolds
    BY DEF Inv, CallsAreIsolated, RowInv, GateHolds
  <1> QED BY <1>1, Invariance, PTL DEF Inv

\* Effects are never committed without their ledger anchors.
THEOREM Anchored == Spec => []EffectsAreAnchored
PROOF
  <1>1. Inv => EffectsAreAnchored
    BY DEF Inv, CallsAreIsolated, RowInv, EffectsAreAnchored
  <1> QED BY <1>1, Invariance, PTL DEF Inv

\* A reply of "confirmed" is backed by committed effects.
THEOREM RepliesAreDurable == Spec => []ConfirmedReplyIsDurable
PROOF
  <1>1. Inv => ConfirmedReplyIsDurable
    BY DEF Inv, CallsAreIsolated, ConfirmedReplyIsDurable
  <1> QED BY <1>1, Invariance, PTL DEF Inv

\* Only a commit changes the tables.
LEMMA OnlyCommitsPublish ==
  ASSUME [Next]_vars
  PROVE  UNCHANGED store \/ \E t \in Txns : Commit(t)
PROOF
  <1>1. ASSUME NEW t \in Txns, Begin(t) PROVE UNCHANGED store
    BY <1>1 DEF Begin, BeginExecute, BeginApprove, BeginTimesOut, Return
  <1>2. ASSUME NEW t \in Txns, Serve(t) PROVE UNCHANGED store \/ Commit(t)
    <2>1. CASE Insert(t) \/ ReadExisting(t) \/ Authorize(t)
      BY <2>1 DEF Insert, ReadExisting, Authorize, Reject, Return
    <2>2. CASE FindApproval(t) \/ Decide(t)
      BY <2>2 DEF FindApproval, Decide, Return
    <2>3. CASE HandlerRejects(t) \/ HandlerParks(t) \/ HandlerWrites(t)
      BY <2>3 DEF HandlerRejects, HandlerParks, HandlerWrites, Reject
    <2>4. CASE Anchor(t) \/ AnchorFails(t) \/ Finish(t) \/ Save(t)
      BY <2>4 DEF Anchor, AnchorFails, Finish, Save, Reject, Return
    <2> QED BY <1>2, <2>1, <2>2, <2>3, <2>4 DEF Serve
  <1>3. ASSUME NEW t \in Txns, Crash(t) PROVE UNCHANGED store
    BY <1>3 DEF Crash, Return
  <1>4. CASE Tick \/ Terminated \/ UNCHANGED vars
    BY <1>4 DEF Tick, Terminated, vars, store
  <1> QED BY <1>1, <1>2, <1>3, <1>4 DEF Next

\* The rows a commit writes, and the ones it leaves alone.
LEMMA CommitWrites ==
  ASSUME Inv, NEW t \in Txns, Commit(t)
  PROVE  LET id == txns[t].id IN
         /\ id \in Ids /\ txns[t].pc = "commit"
         /\ intents'[id] = txns[t].intent
         /\ txns[t].intent \in Row /\ intents'[id] # NoRow
         /\ approvals'[id] = IF txns[t].decided THEN txns[t].by
                             ELSE IF txns[t].outcome = "park" THEN Undecided
                             ELSE approvals[id]
         /\ effects'[id] = IF txns[t].outcome = "allow" THEN effects[id] + 1 ELSE effects[id]
         /\ \A i \in Ids \ {id} : /\ intents'[i] = intents[i] /\ approvals'[i] = approvals[i]
                                   /\ effects'[i] = effects[i]
PROOF
  <1>1. /\ Active(t) /\ txns[t].id \in Ids /\ txns[t].intent \in Row
        /\ txns[t].pc = "commit"
    BY ActiveCall DEF Active, Commit
  <1>2. ApprovalAfter(t) = IF txns[t].decided THEN txns[t].by
                           ELSE IF txns[t].outcome = "park" THEN Undecided
                           ELSE approvals[txns[t].id]
    BY <1>1, CommitCases DEF ApprovalAfter
  <1> QED
    BY <1>1, <1>2 DEF Commit, Inv, TypeOK

\* Two intents never share an actor's nonce: the call that inserts an intent
\* conflicts with no committed row, and later commits keep actor and nonce.
THEOREM NoncesUsedOnce == Spec => []NonceUsedOnce
PROOF
  <1>1. Init => NonceUsedOnce
    BY DEF Init, NonceUsedOnce
  <1>2. ASSUME Inv, NonceUsedOnce, [Next]_vars PROVE NonceUsedOnce'
    <2>1. CASE UNCHANGED store
      BY <1>2, <2>1 DEF NonceUsedOnce, store
    <2>2. ASSUME NEW t \in Txns, Commit(t) PROVE NonceUsedOnce'
      <3> DEFINE id == txns[t].id
                 row == txns[t].intent
      <3>1. /\ id \in Ids /\ row \in Row /\ Active(t) /\ txns[t].pc = "commit"
            /\ intents'[id] = row
            /\ \A i \in Ids \ {id} : intents'[i] = intents[i]
        BY <1>2, <2>2, CommitWrites DEF Active
      <3>2. \A j \in Ids \ {id} : intents[j] # NoRow =>
              ~(row.actor = intents[j].actor /\ row.nonce = intents[j].nonce)
        <4>1. CASE Creating(t)
          BY <1>2, <3>1, <4>1, ActiveCall DEF CallInv, Conflicts
        <4>2. CASE ~Creating(t)
          <5>1. SameIntent(intents[id], row)
            BY <1>2, <3>1, <4>2, CommitCases
          <5> QED BY <1>2, <3>1, <5>1 DEF NonceUsedOnce, SameIntent
        <4> QED BY <4>1, <4>2
      <3> QED BY <1>2, <3>1, <3>2 DEF NonceUsedOnce
    <2> QED BY <1>2, <2>1, <2>2, OnlyCommitsPublish
  <1>3. Spec => []Inv
    BY Invariance, PTL DEF Inv
  <1> QED BY <1>1, <1>2, <1>3, PTL DEF Spec

\* A committed decision is never changed: only the call that holds the one
\* undecided row writes it.
THEOREM DecisionsStand == Spec => DecisionsAreFinal
PROOF
  <1> DEFINE Kept == \A i \in Ids : approvals[i] \in Approvers => approvals'[i] = approvals[i]
  <1>1. ASSUME Inv, [Next]_vars PROVE [Kept]_vars
    <2>1. CASE UNCHANGED store
      BY <2>1 DEF store
    <2>2. ASSUME NEW t \in Txns, Commit(t) PROVE Kept
      <3>1. Undecided \notin Approvers /\ NoApproval \notin Approvers
        BY ConstantsAssumption
      <3>2. /\ txns[t].decided => approvals[txns[t].id] = Undecided
            /\ ~txns[t].decided /\ txns[t].outcome = "park" => approvals[txns[t].id] = NoApproval
        BY <1>1, <2>2, CommitCases, CommitWrites
      <3> QED BY <1>1, <2>2, <3>1, <3>2, CommitWrites
    <2> QED BY <1>1, <2>1, <2>2, OnlyCommitsPublish
  <1>2. Spec => []Inv
    BY Invariance, PTL DEF Inv
  <1> QED BY <1>1, <1>2, PTL DEF Spec, DecisionsAreFinal

\* A commit moves the phase of its intent along an edge of the gate, or not.
LEMMA CommitMovesPhase ==
  ASSUME Inv, NEW t \in Txns, Commit(t)
  PROVE  [Gate!Next]_phase
PROOF
  <1> DEFINE id == txns[t].id
             Of(row, done, approval) ==
               IF row = NoRow THEN "absent"
               ELSE IF done > 0
                    THEN IF row.action \in Gated THEN "executed_approved" ELSE "executed_direct"
               ELSE IF approval = Undecided THEN "parked" ELSE "refused"
  <1>1. /\ id \in Ids /\ txns[t].pc = "commit" /\ RowInv(id) /\ effects[id] \in Nat
        /\ phase = [i \in Ids |-> Of(intents[i], effects[i], approvals[i])]
        /\ phase' = [i \in Ids |-> Of(intents'[i], effects'[i], approvals'[i])]
    BY CommitWrites DEF phase, Inv, TypeOK, CallsAreIsolated
  <1>2. \A i \in Ids \ {id} : Of(intents'[i], effects'[i], approvals'[i])
                             = Of(intents[i], effects[i], approvals[i])
    BY CommitWrites
  <1> DEFINE old == Of(intents[id], effects[id], approvals[id])
             new == Of(intents'[id], effects'[id], approvals'[id])
  <1>3. phase[id] = old /\ phase' = [phase EXCEPT ![id] = new]
    BY <1>1, <1>2
  <1>4. \/ old = "absent" /\ new \in {"executed_direct", "parked", "refused"}
        \/ old = "parked" /\ new \in {"executed_approved", "refused"}
        \/ new = old
    <2>1. NoApproval # Undecided /\ Undecided \notin Approvers /\ Regulators \subseteq Approvers
      BY ConstantsAssumption
    <2>2. CASE Creating(t)
      BY <1>1, <2>1, <2>2, CommitCases, CommitWrites
    <2>3. CASE ~Creating(t) /\ txns[t].decided
      BY <1>1, <2>1, <2>3, CommitCases, CommitWrites DEF SameIntent
    <2>4. CASE ~Creating(t) /\ ~txns[t].decided
      BY <1>1, <2>1, <2>4, CommitCases, CommitWrites DEF SameIntent
    <2> QED BY <2>2, <2>3, <2>4
  <1> HIDE DEF Of, old, new
  <1>5. new = old => phase' = phase
    BY <1>1, <1>3 DEF phase
  <1> QED
    BY <1>1, <1>3, <1>4, <1>5
    DEF Gate!Next, Gate!Move, Gate!ExecuteDirectly, Gate!Park, Gate!ExecuteApproved, Gate!Refuse

\* The engine implements the gate: every history of committed effects is one
\* of "at once", "after approval", "never".
THEOREM EngineImplementsGate == Spec => ImplementsGate
PROOF
  <1>1. Init => Gate!Init
    BY DEF Init, Gate!Init, phase
  <1>2. ASSUME Inv, [Next]_vars PROVE [Gate!Next]_phase
    <2>1. CASE UNCHANGED store
      BY <2>1 DEF store, phase
    <2>2. ASSUME NEW t \in Txns, Commit(t) PROVE [Gate!Next]_phase
      BY <1>2, <2>2, CommitMovesPhase
    <2> QED BY <1>2, <2>1, <2>2, OnlyCommitsPublish
  <1>3. Spec => []Inv
    BY Invariance, PTL DEF Inv
  <1> QED BY <1>1, <1>2, <1>3, PTL DEF Spec, ImplementsGate, Gate!Spec

\* A committed intent that is not terminal is parked, undecided, and the
\* status graph leads from there to confirmed.
THEOREM ParkedResumes == Spec => []ParkedCanResume
PROOF
  <1>1. /\ Walkable("policy_checked", <<"proof_required", "proved">>)
        /\ Walkable("proved", CompletionPath("proved"))
    BY DEF Walkable, CompletionPath, ApprovalPath, CanTransition, AllowedTransitions,
           Pipeline, Terminal
  <1>2. Inv => ParkedCanResume
    BY <1>1 DEF Inv, CallsAreIsolated, RowInv, ParkedCanResume
  <1> QED BY <1>2, Invariance, PTL DEF Inv
=============================================================================
