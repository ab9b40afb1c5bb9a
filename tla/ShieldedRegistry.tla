-------------------------- MODULE ShieldedRegistry -------------------------
(***************************************************************************)
(* The two contracts of contracts-ext, ShieldedRegistry and StateAnchor,   *)
(* behind the one operator account that the ledger adapter signs with:     *)
(* its transactions are mined in the order they were sent, and one that    *)
(* reverts is mined too and changes nothing.  Commitments and nullifiers   *)
(* are opaque; ciphers stay in events and are left out.                    *)
(***************************************************************************)
EXTENDS Sequences, SequencesExt

CONSTANT Nothing  \* bytes32(0)

VARIABLES
  nullifiers,   \* spent nullifiers
  commitments,  \* commitments on record
  notesSpent,   \* NoteSpent events: records of nullifier and commitment
  roots,        \* StateRootCommitted events: records of root and reference
  mempool       \* the operator's transactions that are not mined, each
                \* with the call that sent it

contracts == <<nullifiers, commitments, notesSpent, roots>>
chain == <<contracts, mempool>>

ChainInit == /\ nullifiers = {}
             /\ commitments = {}
             /\ notesSpent = {}
             /\ roots = {}
             /\ mempool = <<>>

\* A transaction of each entry point.
CommitAndSpend(nf, c) == [entry |-> "commitAndSpend", nf |-> nf, commitment |-> c]
CommitOnly(c) == [entry |-> "commit", nf |-> Nothing, commitment |-> c]
CommitRoot(root, ref) == [entry |-> "commitRoot", root |-> root, ref |-> ref]

\* The requires of the entry point, against given sets.
Accepts(tx, spent, present) ==
  CASE tx.entry = "commitAndSpend" -> tx.nf \notin spent /\ tx.commitment \notin present
    [] tx.entry = "commit" -> tx.commitment \notin present
    [] tx.entry = "commitRoot" -> tx.root # Nothing

\* What a node can say of a nullifier: it answers from the last block, or
\* from the last block and what is pending.
Pending == {sent.tx : sent \in ToSet(mempool)}
PendingSpends == {tx.nf : tx \in {t \in Pending : t.entry = "commitAndSpend"}}
PendingNotes == {tx.commitment : tx \in {t \in Pending : t.entry # "commitRoot"}}

MayPass(tx) == Accepts(tx, nullifiers, commitments)
MayRevert(tx) ==
  \/ ~MayPass(tx)
  \/ ~Accepts(tx, nullifiers \cup PendingSpends, commitments \cup PendingNotes)

MaySeeSpent(nf) == nf \in nullifiers \cup PendingSpends
MaySeeUnspent(nf) == nf \notin nullifiers

Send(c, tx) == mempool' = Append(mempool, [by |-> c, tx |-> tx]) /\ UNCHANGED contracts

Mined(c) == \A sent \in ToSet(mempool) : sent.by # c

\* commitAndSpend
SpendNote(tx) ==
  /\ tx.entry = "commitAndSpend"
  /\ nullifiers' = nullifiers \cup {tx.nf}
  /\ commitments' = commitments \cup {tx.commitment}
  /\ notesSpent' = notesSpent \cup {[nf |-> tx.nf, commitment |-> tx.commitment]}
  /\ UNCHANGED roots

\* commit
RecordNote(tx) ==
  /\ tx.entry = "commit"
  /\ commitments' = commitments \cup {tx.commitment}
  /\ UNCHANGED <<nullifiers, notesSpent, roots>>

\* commitRoot
RecordRoot(tx) ==
  /\ tx.entry = "commitRoot"
  /\ roots' = roots \cup {[root |-> tx.root, ref |-> tx.ref]}
  /\ UNCHANGED <<nullifiers, commitments, notesSpent>>

\* The next transaction of the operator is mined.
Mine ==
  /\ mempool # <<>>
  /\ mempool' = Tail(mempool)
  /\ LET tx == Head(mempool).tx IN
     IF MayPass(tx) THEN SpendNote(tx) \/ RecordNote(tx) \/ RecordRoot(tx)
     ELSE UNCHANGED contracts
=============================================================================
