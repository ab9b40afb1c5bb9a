---------------------------- MODULE GoodsRegistry ---------------------------
(***************************************************************************)
(* The handlers that create, split, merge, transfer and hand over goods    *)
(* (batches and single assets), as the SQL statements they run in one      *)
(* transaction at READ COMMITTED: a read sees the rows committed by then   *)
(* and the call's own writes; a write waits for another uncommitted writer *)
(* of the row and then overwrites it.  No read locks anything (there is no *)
(* SELECT ... FOR UPDATE in these repositories).                           *)
(*                                                                         *)
(* A call is a program, a sequence of <<statement, subject>>.  Policy and  *)
(* credential checks are external: they accept or reject.                  *)
(***************************************************************************)
EXTENDS LifecycleGraph, Integers, Sequences, FiniteSets, SequencesExt

CONSTANTS
  Calls,        \* API calls, each one database transaction
  Parties,      \* DIDs
  Batches,      \* batch ids
  Assets,       \* ids of single items
  Stock,        \* batches registered at first: id -> [producer, quantity, state]
  Requests,     \* the requests clients submit
  MaxInFlight,  \* calls open at a time (connections)
  MaxCount,     \* u32::MAX, where a transfer counter would overflow
  None,         \* an absent row, or an option a request leaves out
  Unwritten     \* a row a call has not written

Subjects == Batches \cup Assets

\* A row of the owner of a subject.
OwnerRows == [owner : Parties, count : Nat]

ASSUME RegistryAssumption ==
  /\ Batches \cap Assets = {}
  /\ DOMAIN Stock \subseteq Batches
  /\ \A b \in DOMAIN Stock : Stock[b].producer \in Parties
  /\ MaxInFlight \in Nat /\ MaxCount \in Nat
  /\ None \notin Parties /\ None \notin LifecycleStates
  /\ None \notin OwnerRows /\ Unwritten \notin OwnerRows \cup {None}

\* What a request carries by the time a handler has read it.
ASSUME RequestsAssumption ==
  \A req \in Requests :
    /\ req.op \in {"create", "transfer", "custody", "split", "merge"}
    /\ req.subject \in Subjects /\ req.by \in Parties
    /\ req.op \in {"create", "transfer"} => req.to \in Parties
    /\ req.op = "split" => req.children \in Seq(Batches)
    /\ req.op = "merge" => req.parents \in Seq(Batches) /\ req.parents # <<>>

\* Quantities are unsigned, only batches are split and merged, and a split names
\* each part with its quantity.
ASSUME QuantitiesAssumption ==
  /\ IsFiniteSet(Batches)
  /\ \A b \in DOMAIN Stock : Stock[b].quantity \in Nat
  /\ \A req \in Requests :
       /\ req.op = "create" /\ req.subject \in Batches => req.quantity \in Nat
       /\ req.op \in {"split", "merge"} => req.subject \in Batches
       /\ req.op = "split" => req.parts \in Seq(Nat) /\ Len(req.parts) = Len(req.children)

Rows == {"goods", "owner", "custody"} \X Subjects

VARIABLES
  db,         \* committed rows: goods, owner and custodian of each subject
  transfers,  \* transfers table: records with the serial of their insert
  serial,     \* the bigserial behind it
  events,     \* lifecycle_events table
  lineage,    \* batch_lineage table: edges with the call that made them
  begun,      \* calls begun so far: the now of the next
  calls

tables == <<db, transfers, events, lineage>>
vars == <<db, transfers, serial, events, lineage, begun, calls>>

Goods(quantity, state, producer) ==
  [quantity |-> quantity, state |-> state, active |-> TRUE, producer |-> producer]

\* Asset::new: an item is created by its manufacturer, in no other state.
NewAsset(req) == Goods(1, "created", req.to)

\* LifecycleEvent::new, once the graph has been asked.
Event(s, from, to, now) == [subject |-> s, from |-> from, to |-> to, now |-> now]

NoWrites == [r \in Rows |-> Unwritten]

Unborn == [status |-> "idle", req |-> None, todo |-> <<>>, now |-> 0, own |-> None,
           goods |-> [s \in Subjects |-> None], from |-> None, held |-> None,
           serial |-> 0, writes |-> NoWrites]

\* A batch registered by an earlier call: owned by its producer, and with the
\* event that led from created to its state.
Init ==
  /\ db = [r \in Rows |->
             IF r[2] \notin DOMAIN Stock THEN None
             ELSE LET b == Stock[r[2]] IN
                  CASE r[1] = "goods" -> Goods(b.quantity, b.state, b.producer)
                    [] r[1] = "owner" -> [owner |-> b.producer, count |-> 0]
                    [] r[1] = "custody" -> None]
  /\ transfers = {}
  /\ serial = 0
  /\ events = {Event(s, "created", Stock[s].state, 0) :
                 s \in {s \in DOMAIN Stock : Stock[s].state # "created"}}
  /\ lineage = {}
  /\ begun = 0
  /\ calls = [c \in Calls |-> Unborn]
-----------------------------------------------------------------------------
(* Programs.                                                               *)

\* record_lifecycle_transition, when the request asks for a new state.
Transition(s, req) == IF req.state = None THEN <<>>
                      ELSE <<<<"find", s>>, <<"mark", s>>>>

StateRead(s, req) == IF req.state = None THEN <<>> ELSE <<<<"state", s>>>>

\* Mutant: the record is inserted before the owner row is written.
RecordThenTransfer(s) == <<<<"record", s>>, <<"transfer", s>>>>

\* save, then record_transfer.
TransferAndRecord(s) == <<<<"transfer", s>>, <<"record", s>>>>

CustodyChange(s) == <<<<"custodian", s>>, <<"custody", s>>>>

\* One statement for each subject of a sequence, or two in turn.
ForEach(subjects, step) == [i \in DOMAIN subjects |-> <<step, subjects[i]>>]
ForEachTwo(subjects, first, second) ==
  [i \in 1 .. 2 * Len(subjects) |->
     <<IF i % 2 = 1 THEN first ELSE second, subjects[(i + 1) \div 2]>>]

CreateBatch(req) ==
  <<<<"absent", req.subject>>, <<"save", req.subject>>, <<"init", req.subject>>>>
  \o Transition(req.subject, req)

CreateItem(req) ==
  <<<<"absent", req.subject>>, <<"save", req.subject>>, <<"init", req.subject>>>>

TransferPublic(req) ==
  <<<<"authorize", req.subject>>, <<"own", req.subject>>>> \o StateRead(req.subject, req)
  \o TransferAndRecord(req.subject) \o Transition(req.subject, req)
  \o (IF req.custodian = None THEN <<>> ELSE CustodyChange(req.subject))

UpdateCustody(req) ==
  <<<<"holder", req.subject>>, <<"custodian", req.subject>>>> \o StateRead(req.subject, req)
  \o CustodyChange(req.subject) \o Transition(req.subject, req)

SplitBatch(req) ==
  <<<<"find", req.subject>>, <<"authorize", req.subject>>, <<"retire", req.subject>>>>
  \o ForEachTwo(req.children, "save", "init")

MergeBatch(req) ==
  ForEachTwo(req.parents, "find", "authorize")
  \o ForEach(req.parents, "retire")
  \o <<<<"save", req.subject>>, <<"init", req.subject>>>>

Program(req) == CASE req.op = "create" /\ req.subject \in Batches -> CreateBatch(req)
                  [] req.op = "create" /\ req.subject \in Assets  -> CreateItem(req)
                  [] req.op = "transfer" -> TransferPublic(req)
                  [] req.op = "custody"  -> UpdateCustody(req)
                  [] req.op = "split"    -> SplitBatch(req)
                  [] req.op = "merge"    -> MergeBatch(req)
-----------------------------------------------------------------------------
(* One statement.                                                          *)

Open(c) == calls[c].status = "open"

At(c, statement) == /\ Open(c)
                    /\ calls[c].todo # <<>>
                    /\ Head(calls[c].todo)[1] = statement

Subject(c) == Head(calls[c].todo)[2]

Become(c, call) == calls' = [calls EXCEPT ![c] = call]

Proceed(c, call) == Become(c, [call EXCEPT !.todo = Tail(calls[c].todo)])

\* What call c reads: its own write, or the committed row.
Read(c, table, s) == LET r == <<table, s>> IN
  IF calls[c].writes[r] = Unwritten THEN db[r] ELSE calls[c].writes[r]

Writers(table, s) == {c \in Calls : calls[c].writes[<<table, s>>] # Unwritten}

Write(c, table, s, row) ==
  /\ Writers(table, s) \subseteq {c}
  /\ Proceed(c, [calls[c] EXCEPT !.writes[<<table, s>>] = row])

End(c) == Become(c, [Unborn EXCEPT !.status = "ended"])

\* Mutant: the transaction is left open after the error.
RejectLeavesOpen(c) ==
  Become(c, [Unborn EXCEPT !.status = "ended", !.writes = calls[c].writes])

\* The handler returns Err: its writes are rolled back to the savepoint.
Reject(c) == End(c)

\* The state after the last event by time, or created.
CurrentState(s) ==
  LET log == {e \in events : e.subject = s} IN
  IF log = {} THEN "created"
  ELSE (CHOOSE e \in log : \A d \in log : d.now <= e.now).to
-----------------------------------------------------------------------------
(* Reads.                                                                  *)

\* require_owner.
Authorize(c) ==
  LET row == Read(c, "owner", Subject(c)) IN
  /\ At(c, "authorize")
  /\ IF row # None /\ row.owner = calls[c].req.by THEN Proceed(c, calls[c]) ELSE Reject(c)
  /\ UNCHANGED <<tables, serial, begun>>

\* The transfer handler reads the ownership again after require_owner.
ReadOwnership(c) ==
  /\ At(c, "own")
  /\ Proceed(c, [calls[c] EXCEPT !.own = Read(c, "owner", Subject(c))])
  /\ UNCHANGED <<tables, serial, begun>>

\* UpdateCustody: the goods must have an owner, whom the next read may overrule.
ReadHolder(c) ==
  LET row == Read(c, "owner", Subject(c)) IN
  /\ At(c, "holder")
  /\ IF row = None THEN Reject(c) ELSE Proceed(c, [calls[c] EXCEPT !.own = row])
  /\ UNCHANGED <<tables, serial, begun>>

\* get_custody.
Custodian(c) == Read(c, "custody", Subject(c))

\* current_custodian.  In UpdateCustody the first of the two reads decides
\* whether a caller who is not the owner may act; the second, in apply_custody,
\* refuses handing the goods to who holds them.
ReadCustodian(c) ==
  LET req == calls[c].req
      held == Custodian(c)
      first == \E i \in 2 .. Len(calls[c].todo) : calls[c].todo[i][1] = "custodian"
      to == IF req.op = "custody" THEN req.to ELSE req.custodian
  IN
  /\ At(c, "custodian")
  /\ IF (IF first THEN req.by \in {calls[c].own.owner, held} ELSE held # to)
     THEN Proceed(c, [calls[c] EXCEPT !.held = held])
     ELSE Reject(c)
  /\ UNCHANGED <<tables, serial, begun>>

\* current_state, and the policy check that follows and may reject.
ReadState(c) ==
  /\ At(c, "state")
  /\ \/ Proceed(c, [calls[c] EXCEPT !.from = CurrentState(Subject(c))])
     \/ Reject(c)
  /\ UNCHANGED <<tables, serial, begun>>

\* Mutant: the parts may leave a rest of the parent.
MaySplitOff(parent, req) ==
  /\ parent # None /\ parent.active /\ parent.state \notin Final
  /\ req.children # <<>>
  /\ SumFunction(req.parts) <= parent.quantity

\* Batch::split: the parent is in use, and its children share it out exactly.
MaySplit(parent, req) ==
  /\ parent # None /\ parent.active /\ parent.state \notin Final
  /\ req.children # <<>>
  /\ \A i, j \in DOMAIN req.children :
       req.children[i] # req.subject /\ (req.children[i] = req.children[j] => i = j)
  /\ \A i \in DOMAIN req.parts : req.parts[i] > 0
  /\ SumFunction(req.parts) = parent.quantity

\* find_batch or find_asset.  In record_lifecycle_transition the graph is asked
\* first, and the event is inserted, which Commit publishes.
FindGoods(c) ==
  LET s == Subject(c)
      row == Read(c, "goods", s)
      req == calls[c].req
  IN
  /\ At(c, "find")
  /\ IF \/ row = None
        \/ req.op = "split" /\ ~MaySplit(row, req)
        \/ req.state # None /\ ~MayBecome(calls[c].from, req.state)
     THEN Reject(c)
     ELSE Proceed(c, [calls[c] EXCEPT !.goods[s] = row])
  /\ UNCHANGED <<tables, serial, begun>>

FindAbsent(c) ==
  /\ At(c, "absent")
  /\ IF Read(c, "goods", Subject(c)) = None THEN Proceed(c, calls[c]) ELSE Reject(c)
  /\ UNCHANGED <<tables, serial, begun>>
-----------------------------------------------------------------------------
(* Writes.                                                                 *)

\* ownership.save: the whole row, whatever is there now.
SaveOwner(c, row) == Write(c, "owner", Subject(c), row)

\* Mutant: the count of transfers stays behind.
TransferUncounted(c) ==
  /\ At(c, "transfer")
  /\ SaveOwner(c, [calls[c].own EXCEPT !.owner = calls[c].req.to])
  /\ UNCHANGED <<tables, serial, begun>>

\* OwnershipState::transfer on the row read before, then save.
Transfer(c) ==
  LET own == calls[c].own
      to == calls[c].req.to
  IN
  /\ At(c, "transfer")
  /\ IF to = own.owner \/ own.count = MaxCount
     THEN Reject(c)
     ELSE SaveOwner(c, [owner |-> to, count |-> own.count + 1])
  /\ UNCHANGED <<tables, serial, begun>>

\* record_transfer: the insert draws its serial at once.
Record(c) ==
  /\ At(c, "record")
  /\ serial' = serial + 1
  /\ Proceed(c, [calls[c] EXCEPT !.serial = serial + 1])
  /\ UNCHANGED <<tables, begun>>

\* save_asset: the item as it was read, in its new state.
MarkedAsset(call, s) == [call.goods[s] EXCEPT !.state = call.req.state]

\* update_batch_state, two columns of the row as it is now.  Listing a batch
\* makes it active, delisting inactive; any other state keeps what was read.
MarkedBatch(c, s) ==
  LET to == calls[c].req.state
      active == (to = "available") \/ (to # "delisted" /\ calls[c].goods[s].active)
  IN [Read(c, "goods", s) EXCEPT !.state = to, !.active = active]

Mark(c) ==
  LET s == Subject(c) IN
  /\ At(c, "mark")
  /\ Write(c, "goods", s, IF s \in Assets THEN MarkedAsset(calls[c], s) ELSE MarkedBatch(c, s))
  /\ UNCHANGED <<tables, serial, begun>>

\* update_custody.
HandOver(c) ==
  LET req == calls[c].req IN
  /\ At(c, "custody")
  /\ Write(c, "custody", Subject(c), IF req.op = "custody" THEN req.to ELSE req.custodian)
  /\ UNCHANGED <<tables, serial, begun>>

\* Batch::merge: parents in use, of one source.
MayMerge(parents) ==
  \A p, q \in parents : /\ p.active /\ p.state \notin Final
                        /\ p.producer = q.producer

\* save_batch of a parent as it was read, now inactive.
Retire(c) ==
  LET s == Subject(c)
      call == calls[c]
  IN
  /\ At(c, "retire")
  /\ IF call.req.op = "merge"
        /\ ~MayMerge({call.goods[call.req.parents[i]] : i \in DOMAIN call.req.parents})
     THEN Reject(c)
     ELSE Write(c, "goods", s, [call.goods[s] EXCEPT !.active = FALSE])
  /\ UNCHANGED <<tables, serial, begun>>

\* The new batch or item: as requested, a part of the split batch, or the sum
\* of the merged ones.
NewGoods(call, s) ==
  LET req == call.req IN
  CASE req.op = "create" /\ s \in Assets -> NewAsset(req)
    [] req.op = "create" /\ s \in Batches ->
         Goods(req.quantity, IF req.state = None THEN "created" ELSE req.state, req.to)
    [] req.op = "split" ->
         Goods(req.parts[CHOOSE i \in DOMAIN req.children : req.children[i] = s],
               "created", call.goods[req.subject].producer)
    [] req.op = "merge" ->
         Goods(SumFunction([i \in DOMAIN req.parents |-> call.goods[req.parents[i]].quantity]),
               "created", call.goods[req.parents[1]].producer)

\* save_batch or save_asset of new goods: an upsert.
Save(c) ==
  LET s == Subject(c) IN
  /\ At(c, "save")
  /\ Write(c, "goods", s, NewGoods(calls[c], s))
  /\ UNCHANGED <<tables, serial, begun>>

\* Mutant: an existing owner is overwritten.
InitOwnerUpsert(c) ==
  /\ At(c, "init")
  /\ Write(c, "owner", Subject(c), [owner |-> calls[c].req.by, count |-> 0])
  /\ UNCHANGED <<tables, serial, begun>>

\* init_owner: INSERT ... ON CONFLICT DO NOTHING, AlreadyExists if it did nothing.
\* The producer or manufacturer owns what is created; the parts of a split and
\* the result of a merge stay with the owner that require_owner found.
InitOwner(c) ==
  LET s == Subject(c)
      req == calls[c].req
      owner == IF req.op = "create" THEN req.to ELSE req.by
  IN
  /\ At(c, "init")
  /\ Writers("owner", s) \subseteq {c}
  /\ IF Read(c, "owner", s) # None
     THEN Reject(c)
     ELSE Write(c, "owner", s, [owner |-> owner, count |-> 0])
  /\ UNCHANGED <<tables, serial, begun>>
-----------------------------------------------------------------------------
(* The call as a whole.                                                    *)

Begin(c, req) ==
  /\ calls[c].status = "idle"
  /\ Cardinality({d \in Calls : Open(d)}) < MaxInFlight
  /\ begun' = begun + 1
  /\ Become(c, [Unborn EXCEPT !.status = "open", !.req = req, !.now = begun + 1,
                              !.todo = Program(req), !.from = "created"])
  /\ UNCHANGED <<tables, serial>>

Edges(c) ==
  LET req == calls[c].req IN
  CASE req.op = "split" -> {[parent |-> req.subject, child |-> req.children[i], call |-> c] :
                              i \in DOMAIN req.children}
    [] req.op = "merge" -> {[parent |-> req.parents[i], child |-> req.subject, call |-> c] :
                              i \in DOMAIN req.parents}
    [] OTHER -> {}

\* Mutant: a hand-over leaves no event.
AppendedOfOwners(call) ==
  LET req == call.req IN
  IF \/ req.op \in {"split", "merge", "custody"} \/ req.state = None
     \/ req.op = "create" /\ req.subject \in Assets
  THEN {}
  ELSE {Event(req.subject, call.from, req.state, call.now)}

\* What the call appended to the log: an event, if it led to a new state.
Appended(call) ==
  LET req == call.req IN
  IF \/ req.op \in {"split", "merge"} \/ req.state = None
     \/ req.op = "create" /\ req.subject \in Assets
  THEN {}
  ELSE {Event(req.subject, call.from, req.state, call.now)}

\* The record of a transfer, with the count it led to.
TransferRecord(call) ==
  [subject |-> call.req.subject, by |-> call.req.by, from |-> call.own.owner,
   to |-> call.req.to, count |-> call.own.count + 1, serial |-> call.serial]

Commit(c) ==
  LET call == calls[c] IN
  /\ Open(c) /\ call.todo = <<>>
  /\ db' = [r \in Rows |-> Read(c, r[1], r[2])]
  /\ transfers' = transfers \cup
       (IF call.req.op = "transfer" THEN {TransferRecord(call)} ELSE {})
  /\ events' = events \cup Appended(call)
  /\ lineage' = lineage \cup Edges(c)
  /\ End(c)
  /\ UNCHANGED <<serial, begun>>

\* The row a call is about to write, if another call holds it.
Target(c) ==
  LET tableOf == [transfer |-> "owner", init |-> "owner", mark |-> "goods", retire |-> "goods",
                  save |-> "goods", custody |-> "custody"]
      step == Head(calls[c].todo)[1]
  IN IF Open(c) /\ calls[c].todo # <<>> /\ step \in DOMAIN tableOf
     THEN {<<tableOf[step], Subject(c)>>} ELSE {}

WaitsFor(c) == UNION {Writers(r[1], r[2]) \ {c} : r \in Target(c)}

\* A set of calls that wait for each other only, and none of it smaller.
Deadlock(S) ==
  LET Stuck(T) == \A c \in T : WaitsFor(c) # {} /\ WaitsFor(c) \subseteq T
  IN S # {} /\ Stuck(S) /\ \A T \in SUBSET S : T # {} /\ Stuck(T) => T = S

\* The database aborts one call of a deadlock, which its handler returns as Err.
BreakDeadlock(c) ==
  /\ \E S \in SUBSET Calls : c \in S /\ Deadlock(S)
  /\ Reject(c)
  /\ UNCHANGED <<tables, serial, begun>>

\* A statement, the policy check of a new batch or the ledger anchor at the end
\* fails, or the process dies.
Fail(c) == /\ Open(c)
           /\ Reject(c)
           /\ UNCHANGED <<tables, serial, begun>>

Terminated == (\A c \in Calls : calls[c].status = "ended") /\ UNCHANGED vars

Serve(c) == \/ Authorize(c) \/ ReadOwnership(c) \/ ReadHolder(c) \/ ReadCustodian(c)
            \/ ReadState(c) \/ FindGoods(c) \/ FindAbsent(c)
            \/ Transfer(c) \/ Record(c) \/ Mark(c) \/ HandOver(c)
            \/ Retire(c) \/ Save(c) \/ InitOwner(c)
            \/ Commit(c) \/ BreakDeadlock(c)

Next == \/ \E c \in Calls : (\E req \in Requests : Begin(c, req)) \/ Serve(c) \/ Fail(c)
        \/ Terminated

Spec == Init /\ [][Next]_vars

FairSpec == Spec /\ \A c \in Calls : WF_vars(Serve(c))
-----------------------------------------------------------------------------
(* Properties.                                                             *)

History(s) == {r \in transfers : r.subject = s}

\* Whoever wins a race, the registry names the receiver of the transfer that
\* was recorded last, and its count: save takes the row lock before
\* record_transfer draws the serial.
OwnerIsLastReceiver == \A s \in Subjects : \A r \in History(s) :
  (\A q \in History(s) : q.serial <= r.serial) =>
    db[<<"owner", s>>] = [owner |-> r.to, count |-> r.count]

\* A batch has one origin: all its parents in the lineage come from one split
\* or merge, also when two calls name the same new batch.
OriginIsUnique == \A d, e \in lineage : d.child = e.child => d.call = e.call

\* Every call ends: calls wait for each other's rows in different orders, and
\* the database breaks the deadlocks.
EveryCallEnds == \A c \in Calls : Open(c) ~> calls[c].status = "ended"

\* Every transfer is grounded, also of those that overlap: the first ones of a
\* subject start from one owner, and any other from the receiver of an earlier
\* one that led to the count before it. Two may start from the same, which
\* HistoryIsContinuous excludes.
HistoryIsGrounded == \A r \in transfers :
  /\ r.count = 1 => \A q \in History(r.subject) : q.count = 1 => q.from = r.from
  /\ r.count > 1 => \E q \in History(r.subject) :
                       /\ q.count = r.count - 1 /\ q.to = r.from
                       /\ q.serial < r.serial

\* The history of a subject is a chain: each transfer starts from the receiver
\* of the one before, and the counts run from 1 without a gap.
HistoryIsContinuous == \A s \in Subjects : \A r \in History(s) :
  /\ r.count = Cardinality({q \in History(s) : q.serial <= r.serial})
  /\ \A q \in History(s) : q.count = r.count - 1 => q.to = r.from

Registered(rows) == {b \in Batches : rows[<<"goods", b>>] # None}

\* The quantity of some batches, those that are no parent and those that are
\* no child.
Amount(rows, S) == SumFunctionOnSet([b \in S |-> rows[<<"goods", b>>].quantity], S)
Leaves(rows, edges) == {b \in Registered(rows) : \A e \in edges : e.parent # b}
Roots(rows, edges)  == {b \in Registered(rows) : \A e \in edges : e.child # b}

\* Splits and merges preserve the total quantity: the batches that are no
\* parent hold what those that are no child were created with.
QuantityConserved == Amount(db, Leaves(db, lineage)) = Amount(db, Roots(db, lineage))

\* Whatever overlaps or is relisted, nothing is lost: a batch that two calls
\* split, or that one merges twice, can only be counted more than once.
NothingIsLost == Amount(db, Leaves(db, lineage)) >= Amount(db, Roots(db, lineage))

\* A subject has been in a state that its log leads to, or in the first one.
Reached(log, s) == {"created"} \cup {e.to : e \in {e \in log : e.subject = s}}

\* Whichever of two calls saves its row last, the state in the row is one that
\* an event of the subject led to; and every event led from such a state.
StatesAreOnRecord ==
  /\ \A s \in Subjects :
       db[<<"goods", s>>] # None => db[<<"goods", s>>].state \in Reached(events, s)
  /\ \A e \in events : e.from \in Reached(events, e.subject)

\* The state in the goods row is the state of the last event in the log.
StateMatchesLog == \A s \in Subjects :
  db[<<"goods", s>>] # None => db[<<"goods", s>>].state = CurrentState(s)

=============================================================================
