-------------------------- MODULE InProcessLedger ---------------------------
(***************************************************************************)
(* The in-process ledger: the table ledger_anchors and the single row      *)
(* ledger_state with the chain root.  An anchor is a transaction of its    *)
(* own: insert the row, lock the root, extend it, commit.  A root is the   *)
(* hash of all items anchored so far in order, so the chain stands for it. *)
(*                                                                         *)
(* Sessions are these transactions, one per client at a time.  The actions *)
(* here are steps of a client; the module that composes the ledger with    *)
(* its clients says when they may be taken.                                *)
(***************************************************************************)
EXTENDS Naturals, Sequences, FiniteSets

CONSTANTS
  Clients,   \* who anchors: the calls being served
  Items,     \* what can be anchored
  Unique,    \* items of the kinds commitment and nullifier
  NoClient, NoItem

ASSUME LedgerAssumption == /\ Unique \subseteq Items
                           /\ NoClient \notin Clients
                           /\ NoItem \notin Items

VARIABLES
  rows,      \* ledger_anchors: committed rows with the number in tx_ref
  chain,     \* ledger_state, committed: the items behind root, in order
  head,      \* the client whose session locks ledger_state
  sessions

ledger == <<rows, chain, head, sessions>>

Session(step, item, prev, receipt) ==
  [step |-> step, item |-> item, prev |-> prev, receipt |-> receipt]

NoSession == Session("none", NoItem, <<>>, 0)

LedgerInit == /\ rows = {}
              /\ chain = <<>>
              /\ head = NoClient
              /\ sessions = [c \in Clients |-> NoSession]

Enter(c, session) == sessions' = [sessions EXCEPT ![c] = session]

\* The transaction has inserted its row and not yet committed.
Inserted(c) == sessions[c].step \in {"extend", "commit"}

BeginAnchor(c, item) ==
  /\ sessions[c].step = "none"
  /\ Enter(c, Session("insert", item, <<>>, 0))
  /\ UNCHANGED <<rows, chain, head>>

\* Mutant: nothing makes an item unique.
InsertAnchorAgain(c) ==
  /\ sessions[c].step = "insert"
  /\ Enter(c, [sessions[c] EXCEPT !.step = "extend"])
  /\ UNCHANGED <<rows, chain, head>>

\* INSERT ... ON CONFLICT DO NOTHING.  For the unique kinds it waits for an
\* uncommitted row of the same item; a committed one is answered with its own
\* receipt and the chain is left alone.
InsertAnchor(c) ==
  LET item == sessions[c].item
      same == {r \in rows : r.item = item}
  IN
  /\ sessions[c].step = "insert"
  /\ item \in Unique => \A d \in Clients : Inserted(d) => sessions[d].item # item
  /\ Enter(c, IF item \in Unique /\ same # {}
              THEN Session("done", item, <<>>, (CHOOSE r \in same : TRUE).seq)
              ELSE Session("extend", item, <<>>, 0))
  /\ UNCHANGED <<rows, chain, head>>

\* Mutant: SELECT without FOR UPDATE.
ExtendUnlocked(c) ==
  /\ sessions[c].step = "extend"
  /\ Enter(c, [sessions[c] EXCEPT !.step = "commit", !.prev = chain])
  /\ UNCHANGED <<rows, chain, head>>

\* SELECT root ... FOR UPDATE, then UPDATE of root and seq.
ExtendChain(c) ==
  /\ sessions[c].step = "extend"
  /\ head = NoClient
  /\ head' = c
  /\ Enter(c, [sessions[c] EXCEPT !.step = "commit", !.prev = chain])
  /\ UNCHANGED <<rows, chain>>

\* tx_ref is set and everything becomes visible.
CommitAnchor(c) ==
  LET session == sessions[c]
      seq == Len(session.prev) + 1
  IN
  /\ session.step = "commit"
  /\ rows' = rows \cup {[item |-> session.item, seq |-> seq]}
  /\ chain' = Append(session.prev, session.item)
  /\ head' = IF head = c THEN NoClient ELSE head
  /\ Enter(c, Session("done", session.item, <<>>, seq))

\* A statement of the session fails: the transaction is rolled back.
AnchorFails(c) ==
  /\ sessions[c].step \in {"insert", "extend", "commit"}
  /\ head' = IF head = c THEN NoClient ELSE head
  /\ Enter(c, Session("failed", NoItem, <<>>, 0))
  /\ UNCHANGED <<rows, chain>>

\* The client takes the receipt or the error, or is gone: the session ends,
\* rolled back if it was open.
EndSession(c) ==
  /\ head' = IF head = c THEN NoClient ELSE head
  /\ Enter(c, NoSession)
  /\ UNCHANGED <<rows, chain>>

LedgerStep(c) == \/ InsertAnchor(c) \/ ExtendChain(c) \/ CommitAnchor(c)

Present(item) == \E r \in rows : r.item = item
-----------------------------------------------------------------------------
(* Properties.                                                             *)

\* The table and the root tell the same story, whatever sessions run at once
\* or die: the rows are numbered without gaps or repetitions, and the chain
\* holds at each number the item of that row.
ChainMatchesRows ==
  /\ Cardinality(rows) = Len(chain)
  /\ \A i \in DOMAIN chain : [item |-> chain[i], seq |-> i] \in rows

\* A receipt, also one for an item that was anchored before, names the place in
\* the chain where the item is.
ReceiptsAreHonest == \A c \in Clients :
  sessions[c].step = "done" =>
    /\ sessions[c].receipt \in DOMAIN chain
    /\ chain[sessions[c].receipt] = sessions[c].item

Log == INSTANCE AnchorLog WITH log <- chain

\* The ledger is the append-only log with unique commitments and nullifiers.
ImplementsLog == Log!Spec
=============================================================================
