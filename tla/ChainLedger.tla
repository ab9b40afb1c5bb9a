---------------------------- MODULE ChainLedger ----------------------------
(***************************************************************************)
(* The ledger of a deployment with a chain: AlloyLedger, which all         *)
(* requests share, between the database and the contracts.  Two callers    *)
(* use it: the shielded transfer handler, whose nullifier and commitment   *)
(* wait in the pairing buffer until the cipher arrives, and the validium   *)
(* service, which commits a batch root and then sends it.  A request can   *)
(* end at any await, and the process can restart.                          *)
(***************************************************************************)
EXTENDS ShieldedRegistry, SequencesExt

CONSTANTS
  ZeroRoot,   \* Hash32::ZERO
  Transfers,  \* calls of the shielded transfer handler, after their approval;
              \* each derives a commitment of its own
  Old,        \* transfer -> nullifier of its old note
  Uploads,    \* calls of submit_validium_root
  Uploaded,   \* upload -> [ref, items]
  MaxCalls    \* bound: how many of the calls begin

\* What the constants must satisfy.
LedgerAssumption ==
  /\ Transfers \cap Uploads = {}
  /\ Nothing = ZeroRoot
  /\ MaxCalls \in Nat

VARIABLES
  nf,          \* pairing buffer: the nullifier that waits, or Nothing
  commitment,  \* pairing buffer: the commitment that waits, or Nothing
  rows,        \* shielded_txs: records of nullifier and commitment
  validium,    \* validium_batches: records of reference and root
  answered,    \* uploads that were answered, with the root they were told
  overlapped,  \* history: transfers that anchored while another one did
  hasty,       \* history: transfers that began to anchor while an attempt to
               \* spend the same note was pending
  calls        \* call -> [step, tx]

buffer == <<nf, commitment>>
tables == <<rows, validium>>
ledger == <<buffer, tables, answered, overlapped, hasty, calls, chain>>

Calls == Transfers \cup Uploads
Call(step) == [step |-> step, tx |-> Nothing]

LedgerInit == /\ nf = Nothing /\ commitment = Nothing
              /\ rows = {} /\ validium = {}
              /\ answered = {} /\ overlapped = {} /\ hasty = {}
              /\ calls = [c \in Calls |-> Call("idle")]
              /\ ChainInit

Become(c, call) == calls' = [calls EXCEPT ![c] = call]
Goto(c, step) == Become(c, [calls[c] EXCEPT !.step = step])
At(c, step) == calls[c].step = step

Begun == {c \in Calls : ~At(c, "idle")}
Begins(c) == At(c, "idle") /\ Cardinality(Begun) < MaxCalls
-----------------------------------------------------------------------------
(* merkle_root of the validium service, over free hashes: the parent of    *)
(* two nodes is the pair of them.                                          *)

\* One layer up; the last node of an odd layer is its own sibling.
Halved(layer) ==
  [i \in 1..((Len(layer) + 1) \div 2) |->
     <<layer[2 * i - 1], IF 2 * i <= Len(layer) THEN layer[2 * i] ELSE layer[2 * i - 1]>>]

\* Layers are halved while they hold more than one node: fewer times than
\* there are items.
MerkleRoot(items) ==
  IF items = <<>> THEN ZeroRoot
  ELSE FoldLeft(LAMBDA layer, i : IF Len(layer) > 1 THEN Halved(layer) ELSE layer,
                items, items)[1]

Ref(c) == Uploaded[c].ref
Root(c) == MerkleRoot(Uploaded[c].items)

\* What is taken of the hashes: none that a call derives is zero.
HashAssumption ==
  /\ \A c \in Transfers : Nothing \notin {c, Old[c]}
  /\ \A c \in Uploads : Uploaded[c].items # <<>> => Root(c) # Nothing
-----------------------------------------------------------------------------
(* The shielded transfer handler.                                          *)

\* is_nullifier_spent, a view call.
CheckNullifier(c) ==
  /\ Begins(c)
  /\ \/ MaySeeUnspent(Old[c]) /\ Goto(c, "write")
     \/ MaySeeSpent(Old[c]) /\ Goto(c, "failed")
  /\ UNCHANGED <<buffer, tables, answered, overlapped, hasty, chain>>

\* Between its inserts and its commit a transfer holds its nullifier row.
InTransaction == {"nullifier", "commitment", "extra", "send", "mining", "commit"}
HoldsNullifier(c) == calls[c].step \in InTransaction

WriteRows(c) ==
  /\ At(c, "write")
  /\ \A d \in Transfers : HoldsNullifier(d) => Old[d] # Old[c]
  /\ Goto(c, IF \E r \in rows : r.nf = Old[c] THEN "failed" ELSE "nullifier")
  /\ UNCHANGED <<buffer, tables, answered, overlapped, hasty, chain>>

\* The calls of anchor() must not overlap, says the adapter; nothing keeps them
\* from it, and a call that starts among others overlaps with them.
Anchors(c) == calls[c].step \in {"commitment", "extra", "send", "mining"}
Overlap(c) ==
  LET others == {d \in Transfers : Anchors(d)}
  IN overlapped' = overlapped \cup (IF others = {} THEN {} ELSE others \cup {c})

\* Nor does anything keep a repeated transfer waiting until the transaction of
\* the failed attempt is mined or dropped.
Haste(c) == hasty' = hasty \cup (IF Old[c] \in PendingSpends THEN {c} ELSE {})

\* Mutant: a nullifier that waits is not replaced.
AnchorFirstNullifier(c) ==
  /\ At(c, "nullifier")
  /\ nf' = IF nf = Nothing THEN Old[c] ELSE nf
  /\ Goto(c, "commitment")
  /\ Overlap(c) /\ Haste(c)
  /\ UNCHANGED <<commitment, tables, answered, chain>>

\* LedgerItem::Nullifier: kept, and a deferred receipt.
AnchorNullifier(c) ==
  /\ At(c, "nullifier")
  /\ nf' = Old[c]
  /\ Goto(c, "commitment")
  /\ Overlap(c) /\ Haste(c)
  /\ UNCHANGED <<commitment, tables, answered, chain>>

\* LedgerItem::Commitment: kept, and a deferred receipt.
AnchorCommitment(c) ==
  /\ At(c, "commitment")
  /\ commitment' = c
  /\ Goto(c, "extra")
  /\ UNCHANGED <<nf, tables, answered, overlapped, hasty, chain>>

\* LedgerItem::EncryptedExtra: what waits becomes one transaction.  Without a
\* commitment the call fails and a nullifier goes on waiting.
AnchorExtra(c) ==
  /\ At(c, "extra")
  /\ commitment' = Nothing
  /\ IF commitment = Nothing
     THEN Goto(c, "failed") /\ UNCHANGED nf
     ELSE /\ nf' = Nothing
          /\ Become(c, [step |-> "send",
                        tx |-> IF nf = Nothing THEN CommitOnly(commitment)
                               ELSE CommitAndSpend(nf, commitment)])
  /\ UNCHANGED <<tables, answered, overlapped, hasty, chain>>

\* The engine commits the rows of the handler.
CommitRows(c) ==
  /\ At(c, "commit")
  /\ rows' = rows \cup {[nf |-> Old[c], commitment |-> c]}
  /\ Goto(c, "done")
  /\ UNCHANGED <<buffer, validium, answered, overlapped, hasty, chain>>
-----------------------------------------------------------------------------
(* submit_validium_root.                                                   *)

Recorded(ref) == {b \in validium : b.ref = ref}
RootIsTaken(c) == \E b \in validium : b.root = Root(c)

\* No items: the zero root is the answer, and nothing is written.
SubmitNothing(c) ==
  /\ Begins(c) /\ Uploaded[c].items = <<>>
  /\ answered' = answered \cup {[call |-> c, root |-> Root(c)]}
  /\ Goto(c, "done")
  /\ UNCHANGED <<buffer, tables, overlapped, hasty, chain>>

\* INSERT ... ON CONFLICT (batch_ref) DO NOTHING.
Insert(c) ==
  validium' = IF Recorded(Ref(c)) # {} THEN validium
              ELSE validium \cup {[ref |-> Ref(c), root |-> Root(c)]}

\* Mutant: the root of this call is sent, whatever is on record.
SubmitOwnRoot(c) ==
  /\ Begins(c) /\ Uploaded[c].items # <<>>
  /\ Recorded(Ref(c)) # {} \/ ~RootIsTaken(c)
  /\ Insert(c)
  /\ Become(c, [step |-> "send", tx |-> CommitRoot(Root(c), Ref(c))])
  /\ UNCHANGED <<buffer, rows, answered, overlapped, hasty, chain>>

\* The insert, the SELECT of the root on record, and the commit: one
\* transaction, that waits for another insert of the reference or of the root.
SubmitRoot(c) ==
  /\ Begins(c) /\ Uploaded[c].items # <<>>
  /\ Recorded(Ref(c)) # {} \/ ~RootIsTaken(c)
  /\ Insert(c)
  /\ \E b \in validium' : /\ b.ref = Ref(c)
                          /\ Become(c, [step |-> "send", tx |-> CommitRoot(b.root, Ref(c))])
  /\ UNCHANGED <<buffer, rows, answered, overlapped, hasty, chain>>

\* The root is the primary key, and no conflict on it is handled: a root on
\* record under another reference is a storage error.  So it is for a repeat
\* that overlaps with the insert of its own batch.
RefuseRoot(c) ==
  /\ Begins(c) /\ Uploaded[c].items # <<>>
  /\ RootIsTaken(c)
  /\ Goto(c, "failed")
  /\ UNCHANGED <<buffer, tables, answered, overlapped, hasty, chain>>

Answer(c) ==
  /\ At(c, "answer")
  /\ answered' = answered \cup {[call |-> c, root |-> calls[c].tx.root]}
  /\ Goto(c, "done")
  /\ UNCHANGED <<buffer, tables, overlapped, hasty, chain>>
-----------------------------------------------------------------------------
(* Both: send and get_receipt.                                             *)

\* send() estimates the gas, which fails for a transaction that reverts, and
\* broadcasts.
SendTx(c) ==
  /\ At(c, "send") /\ MayPass(calls[c].tx)
  /\ Send(c, calls[c].tx)
  /\ Goto(c, "mining")
  /\ UNCHANGED <<buffer, tables, answered, overlapped, hasty>>

RefuseTx(c) ==
  /\ At(c, "send") /\ MayRevert(calls[c].tx)
  /\ Goto(c, "failed")
  /\ UNCHANGED <<buffer, tables, answered, overlapped, hasty, chain>>

\* Mutant: the hash of the broadcast is taken for the receipt.
ReceiveEarly(c) ==
  /\ At(c, "mining")
  /\ Goto(c, IF c \in Transfers THEN "commit" ELSE "answer")
  /\ UNCHANGED <<buffer, tables, answered, overlapped, hasty, chain>>

\* get_receipt() returns once the transaction is mined, whatever its status.
Receive(c) ==
  /\ At(c, "mining") /\ Mined(c)
  /\ Goto(c, IF c \in Transfers THEN "commit" ELSE "answer")
  /\ UNCHANGED <<buffer, tables, answered, overlapped, hasty, chain>>

\* The node cannot be reached, the client goes away, or a later statement
\* fails: open rows are rolled back, and what was sent stays sent.
Abort(c) ==
  /\ calls[c].step \notin {"idle", "done", "failed"}
  /\ Goto(c, "failed")
  /\ UNCHANGED <<buffer, tables, answered, overlapped, hasty, chain>>

\* The process restarts: a new ledger connects, with an empty buffer.
Restart ==
  /\ nf' = Nothing /\ commitment' = Nothing
  /\ calls' = [c \in Calls |-> IF calls[c].step = "idle" THEN calls[c]
                               ELSE [calls[c] EXCEPT !.step = IF @ = "done" THEN @ ELSE "failed"]]
  /\ UNCHANGED <<tables, answered, overlapped, hasty, chain>>

MineNext == Mine /\ UNCHANGED <<buffer, tables, answered, overlapped, hasty, calls>>

TransferStep(c) ==
  \/ CheckNullifier(c) \/ WriteRows(c)
  \/ AnchorNullifier(c) \/ AnchorCommitment(c) \/ AnchorExtra(c) \/ CommitRows(c)

UploadStep(c) == SubmitNothing(c) \/ SubmitRoot(c) \/ RefuseRoot(c) \/ Answer(c)

LedgerIdle ==
  /\ mempool = <<>>
  /\ \A c \in Begun : calls[c].step \in {"done", "failed"}
  /\ Begun = Calls \/ Cardinality(Begun) = MaxCalls
  /\ UNCHANGED ledger

LedgerNext ==
  \/ \E c \in Transfers : TransferStep(c)
  \/ \E c \in Uploads : UploadStep(c)
  \/ \E c \in Calls : SendTx(c) \/ RefuseTx(c) \/ Receive(c) \/ Abort(c)
  \/ Restart \/ MineNext \/ LedgerIdle

LedgerSpec == LedgerInit /\ [][LedgerNext]_ledger
-----------------------------------------------------------------------------
(* Properties.                                                             *)

\* The commitment of a transfer that anchored while no other one did is on
\* the chain only with the nullifier of that transfer, whatever the calls that
\* died before it, or mixed with each other, left in the buffer they share.
PairsStayTogether ==
  /\ \A e \in notesSpent : e.commitment \notin overlapped => e.nf = Old[e.commitment]
  /\ commitments \subseteq {e.commitment : e \in notesSpent} \cup overlapped

\* A transfer that the database has committed, and that anchored while no
\* other one did, has its note spent on the chain, although the adapter reads
\* no receipt status; and by its own transaction, unless it began to anchor
\* while an attempt to spend the same note was pending.
CommittedIsOnChain == \A r \in rows : r.commitment \notin overlapped =>
  /\ \E e \in notesSpent : e.nf = r.nf
  /\ r \in notesSpent \/ r.commitment \in hasty

\* The receipt is the proof that the items are on the chain: a transfer that
\* the database has committed, and that anchored while no other one did, is
\* there with its own commitment.
ReceiptsMeanSuccess == \A r \in rows : r.commitment \notin overlapped => r \in notesSpent

\* A batch reference has one root, and a root one reference: the row, every
\* root on the chain and every answer agree, over overlapping uploads of
\* different items, one root under two references, calls that die between the
\* commit and the transaction, and repeats.  An answered root is on the chain.
RootsAgree ==
  /\ \A a, b \in validium : a.ref = b.ref \/ a.root = b.root => a = b
  /\ \A e \in roots : \E b \in validium : b.ref = e.ref /\ b.root = e.root
  /\ \A a \in answered : Uploaded[a.call].items # <<>> =>
       /\ [root |-> a.root, ref |-> Ref(a.call)] \in roots
       /\ \E b \in validium : b.ref = Ref(a.call) /\ b.root = a.root
=============================================================================
