# TLA+ models of verigoods

verigoods records goods, their owners, their lifecycle and private (shielded)
notes about them. A write is a signed request to a REST or MCP server; it goes
through one intent engine, in one PostgreSQL transaction per request, and is
anchored in a ledger, inside the process or on a chain. The models here follow
the Rust code under `src/crates` and the Solidity code under `src/contracts` and
`src/contracts-ext`; `PROJECT.json` maps each definition to the lines it stands
for and lists the hazards the properties are about.

## Inventory

| Part | State | Operations | What is hard | What must hold |
|---|---|---|---|---|
| Intent engine (`vg-application/src/intent_engine.rs`) | rows `intents`, `approvals`, audit log | `execute`, `approve` | retries and replays in overlapping transactions, two approvers, parking, a savepoint that cannot undo an anchor, one pool for two kinds of connection | an intent takes effect once and only after its approval; a confirmed answer is durable |
| Status graph (`vg-domain/src/intent`) | status of an intent | `advance`, `reject`, `confirm` | statuses saved from stale copies | terminal statuses stay |
| Goods handlers (`handlers/transfer.rs`, `handlers/commodity.rs`, `handlers/mod.rs`) | batches, assets, lineage, owners, custodians, transfer log, lifecycle events | create, transfer, custody, split, merge, recall; two views | read, check and save without a lock or a version; several rows in different orders; views of several statements | quantity is conserved or at least never lost, counters are continuous or at least grounded, only the owner transfers, the state agrees with the log |
| Lifecycle graph and policies (`lifecycle/state.rs`, `policy`) | `policies` | `assert_transition`, `check_transition` | forced edges from any state; windows that open and close | final states stay |
| Credentials and compliance (`handlers/credential.rs`, `services/compliance.rs`) | credentials, compliance flag | issue, revoke, recompute | recall and recovery from a snapshot | a batch without its credentials is recalled; a revocation happens once and is final |
| Shielded transfer (`handlers/shielded.rs`) | notes, nullifiers, shielded_txs | transfer of a note | the double-spend check is on another connection; three anchors commit one by one | value is conserved, a committed transfer is on the ledger |
| Hidden notes (`vg-infra-crypto`) | notes, ciphers | derive an address, scan, spend, disclose | the address, the tag and the cipher are computed by parties that share only a point | who receives a note finds it and can spend it; the regulator reads what is disclosed |
| In-process ledger (`vg-infra-pg/src/ledger_inprocess.rs`) | `ledger_anchors`, `ledger_state` | `anchor`, `submit_state_root`, two queries | anchors of concurrent requests, repeated items, crashes | an append-only log, no item of a unique kind twice |
| Chain ledger (`vg-infra-chain`) with `contracts-ext` | pairing buffer, nullifiers, commitments, roots, transactions in flight | `anchor`, `submit_state_root`, two queries | one buffer for all requests, sending outside its lock, receipts lost after sending, reverts, restarts | a spend on the chain is one that was asked for, what is committed is on the chain |
| Validium (`services/validium.rs`) | `validium_batches`, data access | submit a root, grant, check | committed before it is anchored, retried; the root is the primary key, and different items can have one | one root per `batch_ref` and one `batch_ref` per root, the same on the chain |
| Signatures (`vg-api/src/middleware/auth.rs`) | nonce store | check and record | keys rotate between check and effect; eviction, restart | an effect has a signer who had the right to it at its arrival |
| Documents, capabilities (`vg-domain/src/identity`) | DID documents with their versions | register, update | two updates at once; parents; methods sent as a list, stored by id and read in the order of the database | a version follows its predecessor, the first one is bound to its DID |
| REST and MCP (`vg-api`) | policies, grants | the routes, the MCP tools and resources | two or three ways to say the same thing, parsed by different code | both interfaces hand the engine the same intent, and ask the same question |
| Outbox (`vg-infra-pg/src/outbox.rs`) | `domain_events` | append, pending, mark | several dispatchers, a crash after delivery, serial numbers committed out of order | every repeated delivery is explained by a dispatcher that stopped |
| Circuits (`vg-infra-zk`) | traces | range check, cold chain, note opening, dispatcher | arithmetic in a small field, first rows, free rows, padding | an accepted trace is of a true statement, but for the bit that no row compares; a true statement has a trace |
| Solidity MVP contracts (`contracts/`) | eleven contracts | roles, registries, facade | registries that write for any holder of a role, the facade that checks | what was recorded stands; stock is conserved; a result stays proven |
| Bootstrap, configuration, prompts, health | none | | | |

The server authenticates a request, translates it and calls the engine; the
engine opens the transaction, authorises, and calls the handler of the action
inside a savepoint; handlers write rows through repositories in that transaction
and, last, anchor through the ledger port, which takes a second connection (or
sends a transaction to a chain) and commits by itself. Approvals are rows: a
parked intent continues in another call, perhaps of another process. Documents,
grants and policies are written by the server without an intent.

## Modules

| Module | Stands for |
|---|---|
| `IntentStatus` | the table of allowed statuses and the paths the engine walks on it |
| `ExecutionGate` | abstract: what the engine promises, an intent that is open, then perhaps decided, then executed at most once |
| `IntentPipeline`, `IntentPipeline_proofs` | the engine with the intent and approval repositories; theorems |
| `LifecycleGraph`, `PolicyEngine` | lifecycle states and edges; what active policies require and permit |
| `GoodsRegistry`, `GoodsRegistry_proofs` | the goods handlers, aggregates and repositories; theorems about them and `ReadViews` |
| `ReadViews` | two views of a batch, read statement by statement while `GoodsRegistry` writes |
| `Compliance`, `Compliance_proofs` | the credential handlers, the compliance service and lifecycle moves of the same batch; theorems |
| `AnchorLog` | abstract: an append-only log with items that may appear once |
| `InProcessLedger` | `InProcessLedger::anchor` and its tables; its actions are steps of a client |
| `ShieldedTransfer`, `ShieldedTransfer_proofs` | the shielded handler composed with that ledger; theorems |
| `HiddenNotes` | stealth keys and the cipher for the regulator over a group of prime order; what sender, receiver and regulator do with them |
| `ShieldedRegistry`, `ChainLedger` | the contracts `ShieldedRegistry` and `StateAnchor` behind one sender; `AlloyLedger` between its callers (transfers, validium) and them |
| `Outbox` | writers, dispatchers and the table of events |
| `Chain_proofs` | theorems about `ChainLedger`, `Outbox` and `CommodityContracts` |
| `Sums` | lemmas about sums over finite sets, for the proofs about amounts |
| `IntentPayloads`, `RestRoutes`, `McpTools` | JSON as far as the server tells it apart; the routes and the tools as translations to an intent or a question |
| `DidDocuments`, `NonceStore`, `Gateway`, `Gateway_proofs` | versions of documents; remembered nonces; the server's calls, step by step; theorems |
| `Statements` | the Poseidon2 sponge with an ideal permutation; chunks, words and commitments |
| `RangeCheck`, `ColdChain`, `NoteOpening` | the three circuits as systems whose behaviours are the traces they accept |
| `Circuits_proofs` | theorems about `RangeCheck` and about the notes of `HiddenNotes` |
| `ProofDispatcher` | routing, decoding and the comparison of public inputs |
| `AccessRoles`, `BatchRegistry`, `ComplianceContracts` | roles; batches; policies, proofs and results with the facade's check |
| `CommodityContracts` | the eleven contracts as one system |
| `MC...` | instances for TLC |

### IntentPipeline

A member of `Txns` is one API call. `BeginExecute` and `BeginApprove` take a
pooled connection; `Insert`, `ReadExisting`, `Authorize`, `FindApproval`,
`Decide` are the SQL statements in the order of the code, each of which sees
what is committed when it runs. A write is kept with the call and becomes
visible at `Commit`; until then the row's lock (`intentLock`, `approvalLock`)
makes other writers wait, and a waiting insert then sees the conflict. The
handler is abstract: it rejects (the savepoint is rolled back and the rejection
committed), parks, or writes a business section and makes its anchors; one of
these may fail. `Crash` ends a call anywhere: its rows go, its anchors stay. An
insert error other than a conflict leaves the transaction aborted and ends the
call the same way (`intent_engine.rs:284`). The clock moves, and an intent may
expire between any two steps. `effects` and `anchors` count what was done on
behalf of an intent; `audit` is the audit log. `RequiredCapability` is the
table of what each action asks of its actor, `HoldsCapability` the check of the
actor's grants against it, each with the time at which it lapses; the grants
(`Granted`) are a constant.

### GoodsRegistry and ReadViews

A call runs a program, the sequence of reads and writes of its handler, against
the committed rows and its own uncommitted ones. A write waits for the row's
lock, and PostgreSQL ends one of two calls that wait for each other
(`Deadlock`). A policy is a verdict chosen when it is asked. Subjects have a
goods row, an owner row and a custody row; the transfer log, the lifecycle
events, lineage and what was created are kept beside them. Rows are named for
the code that makes or saves them: `NewAsset`, `MarkedAsset`, `MarkedBatch`,
`SaveOwner`, `TransferRecord`, `Event`. A call that has ended
is reset to one record, so that ended calls do not distinguish states.

A view in `ReadViews` is a transaction of reads: at READ COMMITTED each
statement sees what is committed by then, so the batch, its owner, its lineage
and its history can come from different moments. `ViewsAreWhole` says what still
holds of them together.

### Compliance

A call issues a credential, revokes one, or moves a batch along its lifecycle;
its steps are the statements of the handler. An uncommitted credential or batch
row is kept with the call, is seen by it (`Visible`) and makes others wait
(`CredentialFree`, `BatchFree`). `Assess` and `Recompute` are two reads, of the
owner's credentials and of the batch's state, and `Recomputed` is the choice
among the three branches of `recompute_compliance`: recall, restoration through
the policy's gate, nothing. `Anchor` changes the ledger at once; the rest of the
call becomes visible at `Commit`. `Fail` ends a call after any step, for the
schema check, a refusal, a lost anchor or a crash: its writes go, its anchor
stays. `SchemaHolds` is the check of claims against the schema that the named
domain (`FindDomain`) has for the type; `PoliciesFor` finds the policies by the
jurisdiction of the owner and the category of the goods. Jurisdictions,
categories, the catalogue of policies and the domains are constants. Who is an issuer's agent, the fields of claims and their hash are
abstracted to the credential's id; `suspended` and `expired` are statuses of the
graph that no handler gives. Policies and owners are constants here: policies
are written by the server (`Gateway`), and changes of ownership are in
`GoodsRegistry`. Time is the number of calls begun, so windows of policies and
credentials open and close as calls go by.

### ShieldedTransfer and InProcessLedger

A note stands for its commitment, and its nullifier is as unique as the note. A
call goes through the old note, `is_nullifier_spent` on another connection, the
inserts, and three anchors, each a session of the ledger: insert with ON
CONFLICT, lock of `ledger_state`, extension of the root, commit. The root is the
hash of all items so far in order, so the model keeps the items. Proof and
encryption succeed or end the call; what the handler does before the approval
gate writes nothing and is done again after it, so only the part after the gate
is modelled.

### ChainLedger

`AlloyLedger::anchor` keeps a nullifier and a commitment in a buffer and sends
one transaction when the cipher arrives: `AnchorNullifier`, `AnchorCommitment`
and `AnchorExtra`. The buffer has one place for each (`nf`, `commitment`) and is
shared by all transfers. What was taken from it is sent outside the lock:
`SendTx` estimates the gas, which fails for what would revert (`RefuseTx`), and
broadcasts; `mempool` holds what was sent, `Mine` executes it against
`ShieldedRegistry` (a revert is mined and changes nothing), and `Receive` is the
receipt. `Abort` ends one request at any await, and `Restart` all of them with
the buffer. A member of `Transfers` is an attempt on its note `Old`; a member of
`Uploads` a call of the validium service, which commits `validium_batches`
(`SubmitRoot`) and anchors the root afterwards. The insert handles a conflict of
the reference; the root is the primary key of the table, so a root on record
under another reference is a storage error (`RefuseRoot`). Two histories are
kept. `overlapped`: the adapter's own documentation (`anchor.rs:28`) requires
that transfers anchor one at a time, so `PairsStayTogether` and
`CommittedIsOnChain` speak of transfers that did. `hasty`: nothing makes a
repeated transfer wait until the transaction of the failed attempt is mined or
dropped, so a transfer may begin to anchor while that one is pending; of such a
transfer `CommittedIsOnChain` promises that its note is spent, of the others that
it is spent by their own transaction. `RootsAgree` needs neither.

### HiddenNotes

A point is its scalar in a group of prime order and Keccak a table into
numbers that may exceed the order, so that reduction can collide. A `Transfer`
derives a one-time address for a wallet, makes a note for it and a cipher for a
regulator; `ScanNotes` is the search of the receiver with a view key, and
`OldNote` what it hands to the next transfer. Amounts keep the width of the
column they are stored in, and limbs the modulus they are loaded with. A cipher
is perfect: it opens under its key and under no other but the opposite one,
whose point has the same x coordinate.

### Gateway

A member of `Calls` is a request in progress. `Arrive` checks the clock drift,
`Authenticate` reads the document and compares the key, `RecordNonce` is the
critical section of the nonce store, `RequireRegulator` reads the document
again, then the handler runs; between any two of them another call may commit
and the server may restart and lose its nonces. A request is a record that names
the key that signed it: signatures are external. `via` is the interface it
comes through, and `WriteAsked` and `ReadAsked` hand the engine or the database
what `RestRoutes` and `McpTools` make of it; both say how a value is refused.
A DID derives from its key, so one value stands for both. A document comes as a
list of methods with ids and is stored as its rows (`Stored`): each method is an
upsert by its id, so the last of equal ids stays. A registration is checked on
the list, by the bytes of the ids and the first of equal ones (`SelfDerived`,
`ByteRank`); the active key is read from the rows in the order of the database
(`IsActive`, `Collation`, which is external).

### Circuits

A trace is laid row by row by a prover that chooses every value the constraints
of a circuit leave free; a behaviour that reaches the verdict
is an accepted trace. Fields are small and the permutation is ideal: it keeps
chains of absorbed blocks apart. Host commitments (`Statements`) and circuit
columns meet only in the words. `RangeCheck` and `ColdChain` lay bits, the
highest first, beside the chunks; their first row fixes the flags of the
comparison and leaves its two bits free, as in the code, so what both establish
is stated of the values without their highest bit (`Compared`). `NoteOpening`
lays words. `ProofDispatcher`
accepts a bundle when a trace exists, so it composes with each circuit by its
verdict.

### CommodityContracts

A step is a transaction that succeeds, by any account with the role it needs, or
the passing of time. The contracts fall into four groups that share no storage
and meet in the roles only: a behaviour uses those of one group. A facade is an
account that calls out in its entry points only, and an entry point that calls
two registries is one step.

### Outbox

`AppendEvent` draws the serial number of an event before its transaction commits, so
that numbers become visible out of order. `Claim` is `FOR UPDATE SKIP LOCKED`
with its limit, `HandOn` the delivery, `MarkDispatched` the update,
`CommitMarks` and `Stop` the end of a dispatcher's transaction. The repository
offers claim and mark; the dispatcher is the one its documentation describes, and
its delivery is marked external.

## Runs

| Run | What it shows | Bounds |
|---|---|---|
| `intent_main` | the safety properties of the engine and `ImplementsGate` | three calls (symmetric), two intent ids, two actors of whom one has no capability, two nonces, requests for a gated action with two anchors, a replay of its id with another payload, its nonce under another id; `MaxTime = 2`, `PoolSize = 3`: enough for a retry, a replay, two approvers and an expiry to overlap with a crash |
| `intent_liveness` | `EveryCallReturns` with a pool smaller than the calls' demand | three calls, `PoolSize = 2`, `MaxTime = 1`, two requests: all connections may be held by calls that need one more for an anchor |
| `registry_concurrent` | owner and log agree, a batch has one origin, no call waits for ever | three calls, `MaxInFlight = 2`, a stock of two batches and two new ids, six requests that lock rows in different orders or create the same id: what goes wrong between two overlapping calls, with a third before or after them |
| `registry_records` | quantity, counters and states over calls that do not overlap; what is left of them when calls on one batch do; and views that are read meanwhile | two parts. `serial`: four calls (symmetric), one at a time, two batches, two new ids, an asset, sixteen requests (creation, resale, splits of any shape, a merge, a recall, calls to be refused), `MaxCount = 2`. `overlap`: three calls, two at once; two transfers of one batch, a recall of it, a hand-over that lists it again, two splits, a merge that names it twice; one view of it or of a new one. Two calls that overlap and a third before or after them are enough for a stale read, a lost update, a batch split twice and a relisting |
| `shielded` | value, no note spent twice, anchoring, the ledger's log and progress | three calls, two deposited notes of different amounts, three new ones, a claim on a note not yet created, a claim with the wrong amount; any anchor may fail, any call may crash |
| `compliance` | a credential is revoked once, ledger and tables agree, a revocation is final, a recomputation that overlapped nothing enforces the policies | four calls (symmetric), two in flight; three credential ids of which two are taken and one expires at time 3, two types, a policy from the start and one with the window 2 to 4, a batch with an owner and one without, nine requests: enough for recall, restoration, a second recall, and a failure after an anchor followed by a repeat |
| `circuits` | soundness and completeness of each circuit, what a dispatcher issues, hidden notes | `RangeCheck` in the field of order 5 with two chunks of two bits, words of three bits, five rows after the bits; `ColdChain` in the field of order 11 with values of three bits, two readings; notes of at most six words in eight rows; a group of order 5, two views and two spends, three notes: every bit pattern of a claim and every free column is tried, and the fields are as tight around the chunks as the real field is around 30 bits |
| `chain` | contracts, chain ledger and outbox, one of them in a behaviour | contracts: two accounts and the facade, up to 5, 4, 4 and 6 transactions of the four groups, time 1 to 2; ledger: three transfers of which two are attempts on one note, four uploads of which three share a reference and one, under another, has the root of a different list, at most three calls, pending attempts, lost receipts and restarts anywhere; outbox: two writers, two dispatchers, four events, one loss, `Limit = 2` |
| `gateway` | signers, nonces, documents, policies and grants; and both interfaces on every shape of a write and a read | two calls, five scenarios: rotation of keys, with registrations that name one id twice or ids whose orders differ (4 arrivals), the nonce store at its limit of 2 (5 arrivals, a restart, time 0 to 2, drift 1), managed routes (4 arrivals, a restart), writes and reads (a single call after a registration: each field of each action odd, missing or unknown) |
| `registry_relisting` | a counterexample: a split batch is revived | three calls one at a time: two splits and a relisting of one batch |
| `registry_race` | a counterexample: two transfers from the same count | three calls, all of which may overlap |
| `chain_receipt` | a counterexample: a transfer commits though its transaction reverted | the ledger of `chain` |

The three counterexamples are findings: each contradicts a comment of the code,
quoted in `PROJECT.json`. Beside each stands what the code does give.
`QuantityConserved`, `HistoryIsContinuous` and `StateMatchesLog` hold of calls
that do not overlap and of requests that leave out a relisting after a split and
a parent named twice; with these, `NothingIsLost`, `HistoryIsGrounded` and
`StatesAreOnRecord` are what remains. `registry_records` checks the three pairs:
`QuantityIsKept`, `HistoryIsKept` and `StateIsKept` claim the weaker one of every
behaviour and the stronger one of those in the part `serial`.
`CommittedIsOnChain` is what remains of a receipt as a proof.

Three properties hold without a condition on the behaviours, and name what they
except: `CommittedIsOnChain` by a history of the transfer, `DocumentsSucceed` by
the ids of the document, `ProofsAreSound` by the bit that is never compared. The
exceptions are cases in which the code does not do what its text says; the
models and their runs contain them, and they are described below.

The properties are stated, each with the behaviour it is about, at the end of
the modules; those of several modules or parts in one instance
(`ProofsAreSound`, `ClaimsAreProvable`, `QuantityIsKept`, `HistoryIsKept`,
`StateIsKept`) in the MC module. Type correctness, and further invariants
that the proofs give for every instance (`GateHolds`, `NonceUsedOnce`,
`CallsAreIsolated`, `ReceiptsAreHonest`, `NoWrap`, `RecordsStand`), are not run
a second time.

**Fairness.** Calls are futures that the runtime polls until they end, and
PostgreSQL grants a lock to a waiter when it is free, so a step of a call that
stays possible is taken: weak fairness per call. Nothing is assumed of clients,
of crashes, of failing anchors or of approvers. The pool's acquire timeout is
assumed to fire, as sqlx does. The other models state safety only: nobody has
to send a transaction or a request, and no dispatcher of events is in the
repository.

**Deadlock** is checked wherever a call must be able to end: when all calls have
ended, a step that changes nothing says so. `circuits` and `gateway` switch it
off: a trace ends with its verdict, and a server at the bound of arrivals idles.

### Other places where code and text differ

These were met while modelling; a run shows the three above, and the models
contain the code's behaviour for all.

- `intent_repo.rs:119` saves over any status: an approval that read an intent
  before another rejected it stores `expired` over `rejected`, though
  `intent.rs:227` calls rejected terminal. No effect is run twice by it.
- `batch.rs:264` lets a batch be merged with itself and counts it twice, where
  `lineage.rs:20` says that a merge conserves quantity; the requests of
  the part `serial` leave it out, those of the part `overlap` have it.
- Two revocations that overlap each see the other's credential as valid and no
  recall follows (`compliance.rs:132`): hence `RecallFollows` speaks of
  recomputations that overlapped nothing. `compliance.rs:36` recomputes one
  batch; the other batches of the owner keep their flag.
- `range_check.rs:531` fixes `eq = 1` and `lt = 0` on the first row and ties the
  accumulators to its two bits, which nothing compares: the chain starts on the
  second row. An accepted value may exceed its bound in the highest bit, and so
  by half the range. The prover takes values of 64 bits only, so no claim of its
  own meets the case; the verifier accepts any trace. The module says otherwise
  in four places (lines 13-14, 56, 100-101 and 127-133: all 90 bits are compared,
  and the last row is equivalent to `x <= B`). What an accepted trace does establish, that the value without its
  first bit is at most the bound without it, is `ProofsAreSound`; the traces
  whose first bits differ are in the run.
- `coldchain.rs:545` has the same gap with every reading, since the comparison
  starts afresh on the row of its highest bit, though the module's text says that
  all bits take part: an accepted reading may exceed the limit in that bit. Here
  the limit's bits are compared again with each reading, so a true claim may also
  be refused, and `ClaimsAreProvable` leaves out readings that differ from the
  limit in it.
- `identity.rs:46` binds a registration to its DID by the first of the methods
  with the least id in the order of bytes. `validate` (`document.rs:111-127`)
  does not refuse two methods of one id, of which `insert_document`
  (`identity_repo.rs:112-129`) stores the last, and `find_document` (line 160)
  orders by the collation of the database. So a document may be stored whose
  active key was never checked, though `identity.rs:17-19` says that the two
  orders agree and that the digest bound at registration is the one that
  `active_pubkey` takes from then on. The requests of `gateway` include both
  kinds of registration; `DocumentsSucceed` binds a first version to its DID
  unless its list names an id twice or the two orders disagree on its ids
  (`IsOrdered`).
- `document.rs:43` calls the id of a method unique in its document, and a comment
  of the table (`0001_init.sql:29`) says that the primary key sees to it; the
  upsert by that key turns a second method of an id into a replacement of the
  first.
- `validium.rs:41` describes a repeated submission as idempotent by its
  reference. The root is the primary key: the same items under another reference
  are a storage error, and so may be a repeat that overlaps with the first.
- `transfer.rs:377` compares the expected custodian with the record that the
  handler has just read, so the check is of nothing an earlier reader saw.
- `handlers/mod.rs:250` saves the state of a move over whatever was committed
  since the batch was read, a recall among it.
- `outbox.rs:62` promises delivery in the order of the serial numbers: that
  needs one dispatcher, and writers that commit in the order they insert.
- `vg-domain/src/policy/policy.rs:74` calls versions monotonic; the upsert replaces the terms of a
  version that is there (`saved` keeps both, and `NoDanglingAnchor` is about it).
- `intent_engine.rs:376` checks the approver's role and no capability again.

## Proofs

`IntentPipeline_proofs` proves for every number of calls, intents, actors,
anchors, connections and any bound of the clock: type correctness, isolation of
calls, that an intent takes effect at most once and only through the gate, that
parked intents can be resumed, that nonces are used once, decisions are final,
effects are anchored, confirmed answers are durable, and that the engine
implements `ExecutionGate`. None of these is inductive alone. The invariant
`Inv` adds to the types who holds which lock and what a call that holds it knows
(`CallsAreIsolated`): as long as a call has an uncommitted write of an intent,
no other has, and the committed row is still what the call read. The rows then
satisfy a relation between status, effects and anchors (`RowInv`). There is a
lemma for each action, and the theorems follow from `Inv` or from `Inv` and one
step.

`ShieldedTransfer_proofs` proves the ledger for every set of clients and items:
`Inv` says that the holder of the root's lock is the one session that may commit
and has the committed chain as its base, that no two sessions have inserted
the same unique item, and that a unique item that a session has inserted is not
yet in the table. From it follow that the table and the chain agree, receipts
name the place of their item, the ledger implements `AnchorLog`, no note is spent
by two committed transfers (`SpentOnce`: the handler's own check reads another
connection and does not give this; the unique key of the nullifier rows does),
and a committed spend is on the ledger. `ValuePreserved` is `ValueConserved` for
any finite set of deposits: `NotesInv` adds that a note is in the table once and
is added by its own call only, as it ends, so a commit replaces an unspent note
by one that was not there, of the same amount (`TotalReplaced`).

`Compliance_proofs` proves all four properties of the run `compliance` for any
calls, credentials, owners and policies. `Inv` says what an open call knows of
its credential: one being issued is not in the table, one being revoked is there
and valid, no two open calls have written the same one, and before the commit
its status is on the ledger. Hence the status comparison of the update lets one
revocation through (`RevokedOnce`), and a credential that is not in the table
has nothing but issues on the ledger (`RevocationIsFinal`). `RecallFollows` needs
a second invariant, `AloneInv`: of a call that nothing has overlapped, the types
it found, the state it read and what it decided are what the tables still give,
and its time is after every event's, so that the event it appends is the current
state.

`GoodsRegistry_proofs` proves `OwnerIsLastReceiver` and `OriginIsUnique` for any
calls, subjects and requests. Neither is inductive: both rest on where a call is
in its program. The first lemmas compute the programs (in a transfer the write
of the owner row comes right before the record, and after it no statement
writes one; every child of a split or merge has its `init`). `Inv` then says of
each open call what it has by that place: a transfer past the write has the
owner row of its subject to itself, past the record it has a serial above all
recorded of that subject, and any other call has written owner rows only where
the table has none. No two open calls have written the same owner row
(`OneWriter`), so a commit leaves what other calls know true, adds the transfer
with the highest serial of its subject, and adds edges only to children that
were not in the table.

The run `registry_race` shows that overlapping transfers may count from the same
owner row, `registry_relisting` that a batch may be split twice. Four theorems say
what the code gives all the same, for any requests, any number of calls and any
overlap, with nothing assumed of the behaviour. `OverlapInv` adds two parts to
`Inv`. `Times`: calls begin at different times, and the time of an event tells
which call appended it. `StateInv`: the state of a goods row is one that an event
of its subject led to, or the first one, and a row is out of use only if its
batch was split, merged or delisted (`Stated`). It says of an open call what it
has of each subject, as read or as written (`Sound`), and what its program must
still do (`OneKnows`): whatever it makes gets a row before it gets an owner,
whatever it retires or marks has been found first, and a call that appends an
event has marked the row. The lemmas about `Before` and `Has` show this of every
program. Another call may commit a row between the read and the write, so what
was read need not be the last state; but events are never removed, so what an
event once led to stays on record (`StatesAlwaysOnRecord`).

`HistoryInv` is about every owner row that a transfer may start from, the one in
the table and those that transfers under way have read, current or not
(`Holds`): each names the receiver of a record with its count, or has count 0 and
names the first owner, who is the same in all of them (`Grounded`). A record made
from any of them is therefore the successor of an earlier one
(`HistoryAlwaysGrounded`).

`QuantityInv` says of the lineage that it is of registered batches
(`LineageKnown`); of a split or merge, that it writes no goods before it has found
all its parents, and that each is registered with the quantity that was found,
though its state and use may have changed since (`FoundParent`); and of every
goods row written, that it has the quantity the row had, or if the call makes it,
the quantity of the request, of the part, or of the parents together
(`AmountKnown`, `Made`). A commit then leaves the leaves as they were, adds a
root and a leaf of the same quantity, or puts children in the place of parents of
the same total, of which some may have been replaced before and do not leave a
second time: the leaves can only gain (`Kept`). A parent named twice is counted
twice in the child and leaves once (`SumOfImage`), which is a gain as well. Hence
`NothingIsEverLost`.

`ViewsAlwaysWhole` is `ViewsAreWhole` under the same overlap. `ViewInv`: after
each read, what the view has is what the registry had then, and the registry has
since moved on from it by events (`GoodsSeen`, `EdgesSeen`). It is kept by commits
because they only add events, and edges only to batches that have no owner yet
(`Further`).

These theorems have two hypotheses, `NoRowIsUnwritten` and `NoRowIsNone`: the
values that stand for a row that a call has not written, and for one that is
absent, are not themselves rows of goods. In the runs they are model values; as an
`ASSUME` they would quantify over all values.

`Circuits_proofs` proves for every chunk width and every field larger than two
powers of it that the columns of the comparison mean what they are taken to
mean: the difference that a row leaves in the field is a bit and not a multiple
of the order (`NeverWraps`), and `eq` and `lt` are the order of the integers
whose bits were read (`ComparesInOrder`). What the commitment binds rests on the
sponge and is model-checked.

The same module proves both properties of the hidden notes for any prime order,
any table of hashes and any wallets, notes and regulators. `NotesAssumption`
says of the group that no product of two scalars is zero, which is what a prime
order gives; of the hash only that it is a number. `NotesAreMade` is inductive: a
row is a note for a one-time address of its receiver (`IsReceived`), a cipher
one made for the regulator it names (`IsAddressed`). Lemmas about remainders
carry the rest: sender and receiver agree on a shared point (`Agreement`), so
the receiver computes the address of the row (`ReceiverFinds`); whichever
wallet's scan hits a row, the key that it unlocks is that of the address, though
the hash was reduced in one place and not in the other (`UnlockedIsKey`); and two
keys agree with an ephemeral key on one x coordinate only if they are equal or
opposite (`KeysDiffer`), the only step that needs the order to be a prime.

`Chain_proofs` proves what `ChainLedger` and `Outbox` promise, for any numbers
of transfers, uploads, writers, dispatchers and events. `LedgerInv` has three
parts beside the types. For the buffer (`OverlapIsSeen`, `BufferIsOwn`,
`PairsAreCarried`): two transfers in progress are both marked as overlapped, so
what the buffer holds when an unmarked transfer reaches its cipher is its own
nullifier and commitment, and every spend that carries such a transfer's
commitment carries its nullifier. For the roots (`RootsAreCarried`,
`SentAreOnRecord`): a root is sent only for a batch on record, a batch on record
is never replaced, and neither its reference nor its root gets a second one; no
property of the Merkle tree is used, so different items may have one root.
`CommittedSpendsAreOnChain` needs two more invariants. `TryingInv`: a transfer
whose transaction was sent has its note spent, or its spend is still in the
mempool, and a spend that leaves it, whether it is mined or reverts, leaves the
note spent (`Tries`, `RowsAreSpent`). `SpendingInv`: of a transfer that began to
anchor with no other attempt pending and no other transfer under way (outside
`Excused`), at most one transaction that would spend its note waits, its own, and
nothing before it in the mempool can make it revert (`SpendsWait`, `WillPass`), so
its receipt means success. `HashAssumption` says only that none of the hashes is
zero. The invariant of the outbox (`RowsAreApart`, `ClaimsAreApart`,
with a count for each event) says that no row is held by two dispatchers and
that what a dispatcher holds was handed on once since it was last lost.

Of the contracts, `Chain_proofs` proves that a result that the facade wrote
stays proven (`ResultsProven`), from an invariant that says of each id on record
what its registry can still do to it, and that identities, credentials, owners,
batches and results, once on record, are changed in the ways the contracts allow
and in no other (`RegistriesAppend`), for any accounts, ids, times and number of
transactions. `StockConserved` is `BatchesConserved` for any finite set of batch
ids. Its invariant, `ConservedInv`, adds to the two claims that what is written
has a quantity and its own id, and that parents in the lineage are written: so
the children of a split and of a merge, which the contract only checks to be
absent, were neither in the sum nor in the lineage. As the property does, it
speaks of registries without a record under the zero id; the contracts read such
a record as none, and may write it again.

`Sums` has what the proofs about amounts share. The library's induction theorems
take the claim as an operator, which the provers cannot instantiate; here the
claim is the set of the subsets it holds for. Strict inclusion orders the
subsets of a finite set well, so a least subset outside that set would
contradict the step (`SmallerSetsFirst`). From it follow that the function that
`SumFunctionOnSet` chooses exists and is the same wherever it starts
(`AddsExists`, `AddsAgree`), that any element may be taken out of a sum first
(`SumTakesOut`), that disjoint sets add (`SumOfParts`), that names do not matter
(`SumRenamed`), which turns the sum over the list of a split into that over the
batches it writes, and that names which coincide count once (`SumOfImage`), as
the parents of a merge may.

`Gateway_proofs` proves for any keys, calls, requests and restarts that a
version follows its predecessor (`DocumentsChained`), an anchor of a policy has
its policy (`AnchorsCommitted`), and an effect was authorised
(`EffectsAuthorised`). The invariant keeps with each call what it rests on
(`Warranted`): the version of the document that authenticated it, at or after
its arrival. It holds on although documents go on changing because versions are
only appended and grants only extended. Versions are documents as they are
stored: a row is a method of the list that no later one of its id replaced
(`StoredIs`), and of an ordered list the method that the registration was
checked by is the one read as active (`DerivedIsActive`); of a list that is not,
`DocumentsChained` promises no binding of the first version, and the same of the
later ones. `OldestForgotten` has an invariant of its own, `NoncesInv`: every
timestamp that was accepted is remembered, or a full store of newer ones is.

Apart from the two hypotheses that the registry's theorems name
(`NoRowIsUnwritten`, `NoRowIsNone`), the theorems use only the assumptions on
constants stated in the modules, which TLC evaluates in the runs. Those are what
the code's types and checks give: `QuantitiesAssumption`, for one, says that
quantities are unsigned, that the handlers of splits and merges take batches
only, and that a split comes as pairs of child and part.

Only model-checked: liveness (fairness and ENABLED are beyond the prover);
`QuantityConserved`, `HistoryIsContinuous` and `StateMatchesLog`, which are
claims about calls that do not overlap, so no theorem of the specification;
soundness and completeness of whole traces; and `InterfacesAgree`, which is a
statement about finitely many shapes of requests.

## Not modelled

- Creation of products (a row without rules), single assets beyond their
  creation, transfer and custody, prompts and health, texts of errors.
- Capabilities and regulatory domains are constants: no route of the server
  changes them.
- Cryptography is ideal: signatures name their key, hashes are free, proofs
  exist where a trace does. Poseidon's limbs of 31 bits, whose encoding of words
  the code documents as not injective, are narrower than the words that the
  models use.
- Bootstrap and configuration read settings and keep no state.
- The order of `AlloyLedger`'s transactions across several operator accounts:
  the code signs with one.
