------------------------------- MODULE Outbox -------------------------------
(***************************************************************************)
(* The outbox of domain events.  A business transaction appends its events *)
(* to the table domain_events, and dispatchers, each in a transaction of   *)
(* its own, claim the oldest events that wait, hand them on and mark them. *)
(* The dispatchers are the ones the table is made for: the repository has  *)
(* the claim and the mark, and the indexer that calls them is external.    *)
(***************************************************************************)
EXTENDS Naturals, FiniteSets

CONSTANTS Writers,      \* business transactions that append
          Dispatchers,
          Limit,        \* of a claim
          MaxEvents,    \* bound: how many events are ever appended
          MaxLost       \* bound: how many claims are lost

OutboxAssumption == {Limit, MaxEvents, MaxLost} \subseteq Nat

VARIABLES serial,       \* bigserial: the last number given out
          appended,     \* writer -> its events that are not committed
          waiting,      \* committed rows with dispatched = false
          dispatched,   \* committed rows with dispatched = true
          claimed,      \* dispatcher -> the rows it has locked
          given,        \* dispatcher -> the ones of them it has handed on
          marked,       \* dispatcher -> the rows it has marked, not committed
          handedOn,     \* event -> how often it was handed to the consumer
          lost          \* event -> how often its delivery was rolled back (history)

outbox == <<serial, appended, waiting, dispatched, claimed, given, marked, handedOn, lost>>

Events == 1..MaxEvents

QueueInit ==
  /\ serial = 0
  /\ appended = [w \in Writers |-> {}]
  /\ waiting = {} /\ dispatched = {}
  /\ claimed = [d \in Dispatchers |-> {}]
  /\ given = claimed /\ marked = claimed
  /\ handedOn = [e \in Events |-> 0] /\ lost = [e \in Events |-> 0]

-----------------------------------------------------------------------------
(* The business transactions.                                              *)

\* append: the number is taken at once, the row is visible with the commit.
AppendEvent(w) ==
  /\ serial < MaxEvents
  /\ serial' = serial + 1
  /\ appended' = [appended EXCEPT ![w] = @ \cup {serial + 1}]
  /\ UNCHANGED <<waiting, dispatched, claimed, given, marked, handedOn, lost>>

\* The transaction ends: all its rows appear, or none does and their numbers
\* are never used again.
Close(w, visible) ==
  /\ appended[w] # {}
  /\ waiting' = waiting \cup visible
  /\ appended' = [appended EXCEPT ![w] = {}]
  /\ UNCHANGED <<serial, dispatched, claimed, given, marked, handedOn, lost>>
Commit(w)   == Close(w, appended[w])
Rollback(w) == Close(w, {})

-----------------------------------------------------------------------------
(* The dispatchers.                                                        *)

Locked == UNION {claimed[d] : d \in Dispatchers}
Oldest(rows) == {e \in rows : Cardinality({o \in rows : o < e}) < Limit}

\* Mutant: FOR UPDATE is left out of the query.
PendingEventsUnlocked == Oldest(waiting)

\* The rows of pending: the oldest that wait and that nobody has locked.
PendingEvents == Oldest(waiting \ Locked)

\* A claim may find nothing.
Claim(d) ==
  /\ claimed[d] = {}
  /\ claimed' = [claimed EXCEPT ![d] = PendingEvents]
  /\ UNCHANGED <<serial, appended, waiting, dispatched, given, marked, handedOn, lost>>

\* The next event of the claim goes to the consumer, ...
HandOn(d) ==
  \E e \in claimed[d] \ given[d] :
    /\ \A o \in claimed[d] \ given[d] : e <= o
    /\ handedOn' = [handedOn EXCEPT ![e] = @ + 1]
    /\ given' = [given EXCEPT ![d] = @ \cup {e}]
    /\ UNCHANGED <<serial, appended, waiting, dispatched, claimed, marked, lost>>

\* ... and mark_dispatched follows, in the transaction that claimed the row.
MarkDispatched(d) ==
  /\ given[d] # marked[d]
  /\ marked' = [marked EXCEPT ![d] = given[d]]
  /\ UNCHANGED <<serial, appended, waiting, dispatched, claimed, given, handedOn, lost>>

Release(d) ==
  /\ claimed' = [claimed EXCEPT ![d] = {}]
  /\ given' = [given EXCEPT ![d] = {}]
  /\ marked' = [marked EXCEPT ![d] = {}]

\* The transaction commits, perhaps with rows it has not got to.
CommitMarks(d) ==
  /\ claimed[d] # {} /\ given[d] = marked[d]
  /\ waiting' = waiting \ marked[d]
  /\ dispatched' = dispatched \cup marked[d]
  /\ Release(d)
  /\ UNCHANGED <<serial, appended, handedOn, lost>>

\* The dispatcher stops: its locks and its marks are gone, what it has handed
\* on is not.
Stop(d) ==
  /\ claimed[d] # {} /\ \A e \in given[d] : lost[e] < MaxLost
  /\ lost' = [e \in Events |-> IF e \in given[d] THEN lost[e] + 1 ELSE lost[e]]
  /\ Release(d)
  /\ UNCHANGED <<serial, appended, waiting, dispatched, handedOn>>

QueueNext ==
  \/ \E w \in Writers : AppendEvent(w) \/ Commit(w) \/ Rollback(w)
  \/ \E d \in Dispatchers : Claim(d) \/ HandOn(d) \/ MarkDispatched(d) \/ CommitMarks(d) \/ Stop(d)

QueueSpec == QueueInit /\ [][QueueNext]_outbox
-----------------------------------------------------------------------------
\* An event is handed on once, and once more for each dispatcher that stopped
\* after it: every delivery is accounted for by the mark of the row, by the
\* one dispatcher that has still to commit it, or by one that stopped. No
\* event is handed on that its writer rolled back.
DeliveriesAreCounted ==
  \A e \in Events :
    /\ handedOn[e] = lost[e] + Cardinality({d \in Dispatchers : e \in given[d]})
                             + (IF e \in dispatched THEN 1 ELSE 0)
    /\ handedOn[e] <= lost[e] + 1
    /\ handedOn[e] > 0 => e \in waiting \cup dispatched
=============================================================================
