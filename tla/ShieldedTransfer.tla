------------------------- MODULE ShieldedTransfer --------------------------
(***************************************************************************)
(* The handler of ShieldedTransfer after its approval: it spends a note    *)
(* and creates one of the same amount, in one database transaction and     *)
(* three ledger anchors, each committed by itself.  Notes stand for their  *)
(* commitments, and a note's nullifier is as unique as the note.  What the *)
(* handler does before the gate writes nothing and is done again after it. *)
(* Proofs and ciphers are external: they are made or the handler fails.    *)
(***************************************************************************)
EXTENDS InProcessLedger, Functions

CONSTANTS
  Notes,     \* notes there can be
  Deposits,  \* notes there are at first, with their amounts
  Fresh,     \* client -> the note it would create
  Claims     \* [note, amount] that transfers name as their old note

ASSUME ShieldedAssumption ==
  /\ DOMAIN Deposits \subseteq Notes
  /\ Deposits \in [DOMAIN Deposits -> Nat]
  /\ IsFiniteSet(DOMAIN Deposits)
  /\ Fresh \in [Clients -> Notes \ DOMAIN Deposits]
  /\ \A c, d \in Clients : Fresh[c] = Fresh[d] => c = d
  /\ Claims \subseteq [note : Notes, amount : Nat]
  /\ Items = {"nullifier", "commitment", "extra"} \X Notes
  /\ Unique = {"nullifier", "commitment"} \X Notes

VARIABLES
  notes,       \* notes table: records of commitment and amount
  nullifiers,  \* nullifiers table: spent notes
  spends,      \* shielded_txs table: records of old and new note
  calls

vars == <<notes, nullifiers, spends, calls, ledger>>
tables == <<notes, nullifiers, spends>>

NoNote == [note |-> NoItem, amount |-> 0]

Idle == [step |-> "idle", old |-> NoNote, todo |-> <<>>]
Ended == [Idle EXCEPT !.step = "ended"]

Init == /\ notes = {[note |-> n, amount |-> Deposits[n]] : n \in DOMAIN Deposits}
        /\ nullifiers = {}
        /\ spends = {}
        /\ calls = [c \in Clients |-> Idle]
        /\ LedgerInit

Become(c, call) == calls' = [calls EXCEPT ![c] = call]

Goto(c, step) == Become(c, [calls[c] EXCEPT !.step = step])

Begin(c, claim) ==
  /\ calls[c].step = "idle"
  /\ Become(c, [Idle EXCEPT !.step = "find", !.old = claim])
  /\ UNCHANGED <<tables, ledger>>

\* The old note is on record with the claimed amount.
FindNote(c) ==
  /\ calls[c].step = "find"
  /\ IF calls[c].old \in notes THEN Goto(c, "check") ELSE Become(c, Ended)
  /\ UNCHANGED <<tables, ledger>>

\* is_nullifier_spent, on another connection: committed anchors only.
CheckNullifier(c) ==
  /\ calls[c].step = "check"
  /\ IF Present(<<"nullifier", calls[c].old.note>>) THEN Become(c, Ended) ELSE Goto(c, "write")
  /\ UNCHANGED <<tables, ledger>>

\* Mutant: the new note is anchored before the nullifier.
AnchorsSwapped(old, new) ==
  <<<<"commitment", new>>, <<"nullifier", old>>, <<"extra", new>>>>

\* The anchors in the order of the handler.
AnchorOrder(old, new) ==
  <<<<"nullifier", old>>, <<"commitment", new>>, <<"extra", new>>>>

\* The rows a call has written and not committed.
Writing(c) == calls[c].step = "anchor"

\* Mutant: no primary key on nullifiers.
WriteRowsUnkeyed(c) ==
  /\ calls[c].step = "write"
  /\ Become(c, [calls[c] EXCEPT !.step = "anchor",
                                !.todo = AnchorOrder(calls[c].old.note, Fresh[c])])
  /\ UNCHANGED <<tables, ledger>>

\* The inserts into notes, nullifiers and shielded_txs.  The insert of the
\* nullifier waits for another uncommitted one, and fails if it was committed.
WriteRows(c) ==
  LET old == calls[c].old.note IN
  /\ calls[c].step = "write"
  /\ \A d \in Clients : Writing(d) => calls[d].old.note # old
  /\ IF old \in nullifiers
     THEN Become(c, Ended)
     ELSE Become(c, [calls[c] EXCEPT !.step = "anchor", !.todo = AnchorOrder(old, Fresh[c])])
  /\ UNCHANGED <<tables, ledger>>

StartAnchor(c) ==
  /\ calls[c].step = "anchor"
  /\ calls[c].todo # <<>>
  /\ BeginAnchor(c, Head(calls[c].todo))
  /\ UNCHANGED <<tables, calls>>

RunAnchor(c) == LedgerStep(c) /\ UNCHANGED <<tables, calls>>

LoseAnchor(c) == AnchorFails(c) /\ UNCHANGED <<tables, calls>>

\* Mutant: nobody looks for the error of an anchor.
AwaitReceipt(c) ==
  /\ calls[c].step = "anchor"
  /\ sessions[c].step = "done"
  /\ Become(c, [calls[c] EXCEPT !.todo = Tail(calls[c].todo)])
  /\ EndSession(c)
  /\ UNCHANGED tables

\* The receipt of an anchor; an error rolls the rows back and rejects.
TakeReceipt(c) ==
  /\ calls[c].step = "anchor"
  /\ \/ sessions[c].step = "done" /\ Become(c, [calls[c] EXCEPT !.todo = Tail(calls[c].todo)])
     \/ sessions[c].step = "failed" /\ Become(c, Ended)
  /\ EndSession(c)
  /\ UNCHANGED tables

\* The engine commits: the rows become visible together.
Commit(c) ==
  LET old == calls[c].old IN
  /\ calls[c].step = "anchor"
  /\ calls[c].todo = <<>>
  /\ notes' = notes \cup {[note |-> Fresh[c], amount |-> old.amount]}
  /\ nullifiers' = nullifiers \cup {old.note}
  /\ spends' = spends \cup {[old |-> old.note, new |-> Fresh[c]]}
  /\ Become(c, Ended)
  /\ UNCHANGED ledger

\* The call dies, or a later statement fails: its rows are gone and an open
\* anchor with them; committed anchors stay.
Crash(c) ==
  /\ calls[c].step \notin {"idle", "ended"}
  /\ Become(c, Ended)
  /\ EndSession(c)
  /\ UNCHANGED tables

Terminated == (\A c \in Clients : calls[c].step = "ended") /\ UNCHANGED vars

Serve(c) == \/ FindNote(c) \/ CheckNullifier(c) \/ WriteRows(c)
            \/ StartAnchor(c) \/ RunAnchor(c) \/ TakeReceipt(c) \/ Commit(c)

Next == \/ \E c \in Clients : \/ \E claim \in Claims : Begin(c, claim)
                              \/ Serve(c) \/ LoseAnchor(c) \/ Crash(c)
        \/ Terminated

Spec == Init /\ [][Next]_vars

FairSpec == Spec /\ \A c \in Clients : WF_vars(Serve(c))
-----------------------------------------------------------------------------
(* Properties.                                                             *)

NoteRows == [note : Notes, amount : Nat]

\* The types of the tables, the calls and the ledger.
TypeOK ==
  /\ notes \subseteq NoteRows
  /\ nullifiers \subseteq Notes
  /\ spends \subseteq [old : Notes, new : Notes]
  /\ calls \in [Clients -> [step : {"idle", "find", "check", "write", "anchor", "ended"},
                            old : NoteRows \cup {NoNote}, todo : Seq(Items)]]
  /\ rows \subseteq [item : Items, seq : Nat \ {0}]
  /\ chain \in Seq(Items)
  /\ head \in Clients \cup {NoClient}
  /\ sessions \in [Clients -> [step : {"none", "insert", "extend", "commit", "done", "failed"},
                               item : Items \cup {NoItem}, prev : Seq(Items), receipt : Nat]]

Total(S) == SumFunctionOnSet([n \in S |-> n.amount], S)

\* Transfers neither create nor destroy value: the unspent notes hold what was
\* deposited, although the check for a double spend is made on another
\* connection, long before the rows are written.
ValueConserved ==
  Total({n \in notes : n.note \notin nullifiers})
    = Total({[note |-> n, amount |-> Deposits[n]] : n \in DOMAIN Deposits})

\* No note is spent by two committed transfers, although both may have passed
\* the check for a double spend.
SpentOnce == \A s, t \in spends : s.old = t.old => s = t

Anchored(item) == \E i \in DOMAIN chain : chain[i] = item

\* A committed transfer is on the ledger, the spent note before the new one,
\* also when an earlier call anchored the nullifier and died.
SpendsAreAnchored == \A s \in spends :
  /\ Anchored(<<"extra", s.new>>)
  /\ \E i, j \in DOMAIN chain : /\ i < j
                                /\ chain[i] = <<"nullifier", s.old>>
                                /\ chain[j] = <<"commitment", s.new>>

\* Every transfer ends: no wait for the nullifier of another transfer, for its
\* anchor or for the chain root lasts for ever.
EveryTransferEnds == \A c \in Clients :
  calls[c].step # "idle" ~> calls[c].step = "ended"
=============================================================================
