---------------------------- MODULE Chain_proofs ----------------------------
(***************************************************************************)
(* Theorems about what leaves the database, for any calls, batches and     *)
(* events: the ledger that sends transactions to the contracts, with the   *)
(* contracts behind it, and the outbox of events.                          *)
(***************************************************************************)
EXTENDS CommodityContracts, ChainLedger, Outbox, Sums, FiniteSetTheorems, TLAPS

TransferSteps == {"idle", "write", "nullifier", "commitment", "extra", "send", "mining",
                  "commit", "done", "failed"}
UploadSteps == {"idle", "send", "mining", "answer", "done", "failed"}

Nullifiers == {Old[c] : c \in Transfers}
Spend(c) == CommitAndSpend(Old[c], c)
Attempt(c) == [nf |-> Old[c], commitment |-> c]
Sent == ToSet(mempool)

NoteTxs == [entry : {"commitAndSpend", "commit"}, nf : Nullifiers \cup {Nothing},
            commitment : Transfers]
RootTxs == {CommitRoot(Root(c), Ref(d)) : c, d \in Uploads}

RootedBatches == {[ref |-> Ref(c), root |-> Root(c)] : c \in {u \in Uploads : Uploaded[u].items # <<>>}}

\* What the calls are and what they may carry.
CallsType ==
  /\ calls \in [Calls -> [step : TransferSteps \cup UploadSteps,
                          tx : NoteTxs \cup RootTxs \cup {Nothing}]]
  /\ \A c \in Transfers : calls[c].step \in TransferSteps
  /\ \A c \in Uploads : calls[c].step \in UploadSteps

MempoolType == mempool \in Seq([by : Transfers, tx : NoteTxs] \cup [by : Uploads, tx : RootTxs])

LedgerType ==
  /\ nf \in Nullifiers \cup {Nothing}
  /\ commitment \in Transfers \cup {Nothing}
  /\ overlapped \subseteq Transfers
  /\ CallsType /\ MempoolType

-----------------------------------------------------------------------------
(* The pairing buffer.                                                     *)

\* Transfers that anchor at a time are known to overlap.
OverlapIsSeen == \A c, d \in Transfers : Anchors(c) /\ Anchors(d) /\ c # d => c \in overlapped

\* The buffer is that of the only transfer that anchors.
BufferIsOwn == \A c \in Transfers :
  /\ c \notin overlapped /\ At(c, "commitment") => nf = Old[c]
  /\ c \notin overlapped /\ At(c, "extra") => nf = Old[c] /\ commitment = c
  /\ At(c, "extra") => commitment \in overlapped \cup {Nothing, c}

\* The transaction of a call is its own spend, or it is a mixture and so are
\* the call and the note.
Carries(c, tx) == tx = Spend(c) \/ (tx.commitment \in overlapped /\ c \in overlapped)

PairsAreCarried ==
  /\ \A c \in Transfers : calls[c].step \in {"send", "mining"} =>
       calls[c].tx \in NoteTxs /\ Carries(c, calls[c].tx)
  /\ \A sent \in Sent : sent.by \in Transfers => Carries(sent.by, sent.tx)

PairingInv == OverlapIsSeen /\ BufferIsOwn /\ PairsAreCarried /\ PairsStayTogether
-----------------------------------------------------------------------------
(* Spends that the database commits.                                       *)

SpendsOf(c) == {sent \in Sent : sent.tx.entry = "commitAndSpend" /\ sent.tx.nf = Old[c]}
NotesOf(c) == {sent \in Sent : sent.tx.entry # "commitRoot" /\ sent.tx.commitment = c}
Own(c) == [by |-> c, tx |-> Spend(c)]

\* The spend is pending, and nothing before it stands in its way.
WillPass(c) == /\ Own(c) \in Sent
               /\ Old[c] \notin nullifiers /\ c \notin commitments
               /\ SpendsOf(c) \subseteq {Own(c)} /\ NotesOf(c) \subseteq {Own(c)}

\* Who has a transaction out has sent it.
SendersHaveSent == \A sent \in Sent :
  calls[sent.by].step \in {"mining", "commit", "answer", "done", "failed"}

\* Who may find another attempt of the spend ahead.
Excused == overlapped \cup hasty

SpendsWait == \A c \in Transfers : c \notin Excused =>
  /\ calls[c].step \in {"commitment", "extra", "send"} => SpendsOf(c) = {}
  /\ At(c, "mining") => Attempt(c) \in notesSpent \/ WillPass(c)
  /\ At(c, "commit") => Attempt(c) \in notesSpent

OwnAreOnChain == \A r \in rows : r.commitment \notin Excused => r \in notesSpent

SpendingInv == SendersHaveSent /\ SpendsWait /\ OwnAreOnChain
-----------------------------------------------------------------------------
(* Batch roots.                                                            *)

\* A root that a call sends is the one on record.
IsOnRecord(root, ref) == \E b \in validium : b.ref = ref /\ b.root = root

Carried(c) == /\ calls[c].tx = CommitRoot(calls[c].tx.root, Ref(c))
              /\ IsOnRecord(calls[c].tx.root, Ref(c))
OnChain(c) == [root |-> calls[c].tx.root, ref |-> Ref(c)] \in roots

RootsAreCarried == \A c \in Uploads :
  /\ calls[c].step \in {"send", "mining", "answer"} => Carried(c)
  /\ At(c, "mining") => OnChain(c) \/ [by |-> c, tx |-> calls[c].tx] \in Sent
  /\ At(c, "answer") => OnChain(c)

SentAreOnRecord == \A sent \in Sent : sent.by \in Uploads =>
  sent.tx = CommitRoot(sent.tx.root, sent.tx.ref) /\ IsOnRecord(sent.tx.root, sent.tx.ref)

RootingInv == /\ validium \subseteq RootedBatches
              /\ \A a \in answered : a.call \in Uploads
              /\ RootsAreCarried /\ SentAreOnRecord /\ RootsAgree

LedgerInv == LedgerType /\ PairingInv /\ RootingInv
-----------------------------------------------------------------------------
(* The mempool as a set.                                                   *)

LEMMA SentIs == ASSUME MempoolType
                PROVE  /\ Sent \subseteq [by : Transfers, tx : NoteTxs] \cup [by : Uploads, tx : RootTxs]
                       /\ \A sent \in Sent : \E i \in DOMAIN mempool : sent = mempool[i]
  BY DEF MempoolType, Sent, ToSet

LEMMA SendAdds ==
  ASSUME MempoolType, NEW c \in Calls, NEW tx, Send(c, tx),
         c \in Transfers => tx \in NoteTxs, c \in Uploads => tx \in RootTxs
  PROVE  MempoolType' /\ Sent' = Sent \cup {[by |-> c, tx |-> tx]}
PROOF
  <1> DEFINE All == [by : Transfers, tx : NoteTxs] \cup [by : Uploads, tx : RootTxs]
             new == [by |-> c, tx |-> tx]
  <1>1. new \in All
    BY DEF Calls
  <1>2. mempool \in Seq(All) /\ mempool' = Append(mempool, new)
    BY DEF MempoolType, Send
  <1> HIDE DEF All, new
  <1>3. mempool' \in Seq(All)
    BY <1>1, <1>2
  <1>4. ToSet(mempool') = ToSet(mempool) \cup {new}
    <2>1. DOMAIN mempool' = DOMAIN mempool \cup {Len(mempool) + 1}
      BY <1>1, <1>2
    <2>2. /\ \A i \in DOMAIN mempool : mempool'[i] = mempool[i]
          /\ mempool'[Len(mempool) + 1] = new
      BY <1>1, <1>2
    <2> QED BY <2>1, <2>2 DEF ToSet
  <1> QED BY <1>3, <1>4 DEF MempoolType, Sent, All, new

\* The head leaves the mempool, and everything else stays in it.
LEMMA MineTakes ==
  ASSUME MempoolType, Mine
  PROVE  /\ MempoolType'
         /\ Head(mempool) \in Sent
         /\ Sent' \subseteq Sent
         /\ \A sent \in Sent : sent # Head(mempool) => sent \in Sent'
PROOF
  <1> DEFINE All == [by : Transfers, tx : NoteTxs] \cup [by : Uploads, tx : RootTxs]
  <1>1. mempool \in Seq(All) /\ mempool # <<>> /\ mempool' = Tail(mempool)
    BY DEF MempoolType, Mine
  <1> HIDE DEF All
  <1>2. mempool' \in Seq(All) /\ Len(mempool') = Len(mempool) - 1 /\ Len(mempool) \in Nat \ {0}
    BY <1>1
  <1>3. DOMAIN mempool = 1..Len(mempool) /\ DOMAIN mempool' = 1..(Len(mempool) - 1)
    BY <1>1, <1>2
  <1>4. \A i \in DOMAIN mempool' : i + 1 \in DOMAIN mempool /\ mempool'[i] = mempool[i + 1]
    BY <1>1, <1>2, <1>3
  <1>5. Head(mempool) = mempool[1] /\ 1 \in DOMAIN mempool
    BY <1>1, <1>2, <1>3
  <1>6. \A i \in DOMAIN mempool : i = 1 \/ (i - 1 \in DOMAIN mempool' /\ mempool[i] = mempool'[i - 1])
    BY <1>2, <1>3, <1>4
  <1>7. Head(mempool) \in Sent
    BY <1>5 DEF Sent, ToSet
  <1>8. Sent' \subseteq Sent
    BY <1>4 DEF Sent, ToSet
  <1>9. ASSUME NEW sent \in Sent, sent # Head(mempool) PROVE sent \in Sent'
    <2>1. PICK i \in DOMAIN mempool : sent = mempool[i]
      BY <1>9 DEF Sent, ToSet
    <2>2. i - 1 \in DOMAIN mempool' /\ mempool[i] = mempool'[i - 1]
      BY <2>1, <1>5, <1>6, <1>9
    <2> QED BY <2>1, <2>2 DEF Sent, ToSet
  <1>10. MempoolType'
    BY <1>2 DEF MempoolType, All
  <1> QED BY <1>7, <1>8, <1>9, <1>10
-----------------------------------------------------------------------------
(* The calls.                                                              *)

StepsOf(c) == IF c \in Transfers THEN TransferSteps ELSE UploadSteps

\* A call gets a new step and transaction, and the others keep theirs.
LEMMA BecomeFacts ==
  ASSUME LedgerAssumption, CallsType, NEW c \in Calls, NEW step \in StepsOf(c),
         NEW tx \in NoteTxs \cup RootTxs \cup {Nothing},
         Become(c, [step |-> step, tx |-> tx])
  PROVE  /\ CallsType'
         /\ calls'[c].step = step /\ calls'[c].tx = tx
         /\ \A d \in Calls : d # c => calls'[d] = calls[d]
PROOF
  <1> DEFINE new == [step |-> step, tx |-> tx]
             Records == [step : TransferSteps \cup UploadSteps,
                         tx : NoteTxs \cup RootTxs \cup {Nothing}]
  <1>1. new \in Records
    BY DEF StepsOf
  <1>2. calls \in [Calls -> Records] /\ calls' = [calls EXCEPT ![c] = new]
    BY DEF CallsType, Become
  <1>3. new.step = step /\ new.tx = tx
    OBVIOUS
  <1> HIDE DEF new, Records
  <1>4. /\ calls' \in [Calls -> Records]
        /\ calls'[c] = new
        /\ \A d \in Calls : d # c => calls'[d] = calls[d]
    BY <1>1, <1>2
  <1>5. /\ \A d \in Transfers : calls'[d].step \in TransferSteps
        /\ \A d \in Uploads : calls'[d].step \in UploadSteps
    BY <1>3, <1>4, LedgerAssumption DEF CallsType, LedgerAssumption, Calls, StepsOf
  <1> QED BY <1>3, <1>4, <1>5 DEF CallsType, Records

LEMMA GotoFacts ==
  ASSUME LedgerAssumption, CallsType, NEW c \in Calls, NEW step \in StepsOf(c), Goto(c, step)
  PROVE  /\ CallsType'
         /\ calls'[c].step = step /\ calls'[c].tx = calls[c].tx
         /\ \A d \in Calls : d # c => calls'[d] = calls[d]
PROOF
  <1> DEFINE tx == calls[c].tx
             Records == [step : TransferSteps \cup UploadSteps,
                         tx : NoteTxs \cup RootTxs \cup {Nothing}]
  <1>1. calls[c] \in Records
    BY DEF CallsType
  <1>2. tx \in NoteTxs \cup RootTxs \cup {Nothing}
    BY <1>1
  <1>3. [calls[c] EXCEPT !.step = step] = [step |-> step, tx |-> tx]
    BY <1>1
  <1>4. Become(c, [step |-> step, tx |-> tx])
    BY <1>3 DEF Goto
  <1> HIDE DEF tx
  <1>5. CallsType' /\ calls'[c].step = step /\ calls'[c].tx = tx
        /\ \A d \in Calls : d # c => calls'[d] = calls[d]
    BY <1>2, <1>4, BecomeFacts
  <1> QED BY <1>5 DEF tx
-----------------------------------------------------------------------------
(* Steps that touch neither what the calls share nor what they have sent.  *)

Retired == {"write", "nullifier", "done", "failed"}
Unsent == {"idle", "write", "nullifier", "commitment", "extra", "send"}

\* A call stays where it is, or goes to a step that claims nothing.
Retires(c) == calls'[c] = calls[c] \/ calls'[c].step \in Retired
CallsRetire ==
  /\ \A c \in Calls : Retires(c)
  /\ \A c \in Calls : calls'[c].step \in Unsent => calls[c].step \in Unsent

LEMMA PairingKeeps ==
  ASSUME PairingInv,
         \A c \in Transfers : calls'[c].step \in {"commitment", "extra", "send", "mining"} =>
           calls'[c] = calls[c],
         UNCHANGED <<overlapped, chain>>,
         UNCHANGED buffer \/ \A c \in Transfers : ~Anchors(c)'
  PROVE  PairingInv'
PROOF
  <1>1. OverlapIsSeen'
    BY DEF PairingInv, OverlapIsSeen, Anchors
  <1>2. BufferIsOwn'
    BY DEF PairingInv, BufferIsOwn, Anchors, At, buffer
  <1>3. Sent' = Sent
    BY DEF Sent, chain
  <1>4. PairsAreCarried'
    BY <1>3 DEF PairingInv, PairsAreCarried, Carries
  <1>5. PairsStayTogether'
    BY DEF PairingInv, PairsStayTogether, chain, contracts
  <1> QED BY <1>1, <1>2, <1>4, <1>5 DEF PairingInv

LEMMA PairingRetires ==
  ASSUME PairingInv, \A c \in Transfers : Retires(c),
         UNCHANGED <<overlapped, chain>>,
         UNCHANGED buffer \/ \A c \in Transfers : ~Anchors(c)'
  PROVE  PairingInv'
PROOF
  <1>1. \A c \in Transfers :
          calls'[c].step \in {"commitment", "extra", "send", "mining"} => calls'[c] = calls[c]
    BY DEF Retires, Retired
  <1> QED BY <1>1, PairingKeeps

LEMMA SendersAreCalls == MempoolType => \A sent \in Sent : sent.by \in Calls
  BY SentIs DEF Calls

LEMMA SpendingRetires ==
  ASSUME LedgerType, SpendingInv, CallsRetire, UNCHANGED <<rows, overlapped, hasty, chain>>
  PROVE  SpendingInv'
PROOF
  <1>1. \A c \in Transfers : c \in Calls
    BY DEF Calls
  <1>2. \A c \in Transfers :
          calls'[c].step \in {"commitment", "extra", "send", "mining", "commit"} =>
            calls'[c] = calls[c]
    BY <1>1 DEF CallsRetire, Retires, Retired
  <1>3. /\ Sent' = Sent /\ UNCHANGED <<notesSpent, nullifiers, commitments>>
        /\ \A c \in Transfers : SpendsOf(c)' = SpendsOf(c) /\ NotesOf(c)' = NotesOf(c)
    BY DEF Sent, chain, contracts, SpendsOf, NotesOf
  <1>4. SendersHaveSent'
    <2> SUFFICES ASSUME NEW sent \in Sent
                 PROVE  calls'[sent.by].step \in {"mining", "commit", "answer", "done", "failed"}
      BY <1>3 DEF SendersHaveSent
    <2>1. sent.by \in Calls
      BY SendersAreCalls DEF LedgerType
    <2>2. calls[sent.by].step \notin Unsent
      BY DEF SpendingInv, SendersHaveSent, Unsent
    <2> QED BY <2>1, <2>2 DEF CallsRetire, Retires, SpendingInv, SendersHaveSent, Retired, Unsent
  <1>5. \A c \in Transfers : WillPass(c)' <=> WillPass(c)
    BY <1>3 DEF WillPass, Own, Spend
  <1>6. SpendsWait'
    BY <1>2, <1>3, <1>5 DEF SpendingInv, SpendsWait, Excused, At, Attempt
  <1>7. OwnAreOnChain'
    BY <1>3 DEF SpendingInv, OwnAreOnChain, Excused
  <1> QED BY <1>4, <1>6, <1>7 DEF SpendingInv

LEMMA RootingRetires ==
  ASSUME RootingInv, \A c \in Uploads : Retires(c), UNCHANGED <<validium, answered, chain>>
  PROVE  RootingInv'
PROOF
  <1>2. \A c \in Uploads :
          calls'[c].step \in {"send", "mining", "answer"} => calls'[c] = calls[c]
    BY DEF Retires, Retired
  <1>3. Sent' = Sent /\ UNCHANGED roots
    BY DEF Sent, chain, contracts
  <1>4. \A c \in Uploads : calls'[c].step \in {"send", "mining", "answer"} =>
          (Carried(c)' <=> Carried(c)) /\ (OnChain(c)' <=> OnChain(c))
    BY <1>2, <1>3 DEF Carried, OnChain, IsOnRecord
  <1>5. RootsAreCarried'
    BY <1>2, <1>3, <1>4 DEF RootingInv, RootsAreCarried, At
  <1>6. SentAreOnRecord' /\ RootsAgree'
    BY <1>3 DEF RootingInv, SentAreOnRecord, IsOnRecord, RootsAgree
  <1> QED BY <1>5, <1>6 DEF RootingInv
-----------------------------------------------------------------------------
(* One step of one call.                                                   *)

\* A call that goes to a step that claims nothing.
LEMMA GotoRetires ==
  ASSUME LedgerAssumption, CallsType, NEW c \in Calls,
         NEW step \in Retired \cap StepsOf(c), Goto(c, step),
         step \in Unsent => calls[c].step \in Unsent
  PROVE  CallsType' /\ CallsRetire
  BY GotoFacts DEF CallsRetire, Retires

LEMMA Kinds == LedgerAssumption =>
  /\ \A c \in Transfers : c \in Calls /\ c \notin Uploads /\ StepsOf(c) = TransferSteps
  /\ \A c \in Uploads : c \in Calls /\ c \notin Transfers /\ StepsOf(c) = UploadSteps
  BY DEF LedgerAssumption, Calls, StepsOf

LEMMA CheckNullifierRetires ==
  ASSUME LedgerAssumption, CallsType, NEW c \in Transfers, CheckNullifier(c)
  PROVE  CallsType' /\ CallsRetire
  BY GotoRetires, Kinds DEF CheckNullifier, Begins, At, Retired, Unsent, TransferSteps

LEMMA WriteRowsRetires ==
  ASSUME LedgerAssumption, CallsType, NEW c \in Transfers, WriteRows(c)
  PROVE  CallsType' /\ CallsRetire
  BY GotoRetires, Kinds DEF WriteRows, At, Retired, Unsent, TransferSteps

LEMMA CommitRowsRetires ==
  ASSUME LedgerAssumption, CallsType, NEW c \in Transfers, CommitRows(c)
  PROVE  CallsType' /\ CallsRetire
  BY GotoRetires, Kinds DEF CommitRows, At, Retired, Unsent, TransferSteps

LEMMA FailRetires ==
  ASSUME LedgerAssumption, CallsType, NEW c \in Calls, Goto(c, "failed")
  PROVE  CallsType' /\ CallsRetire
  BY GotoRetires DEF Retired, Unsent, TransferSteps, UploadSteps, StepsOf

LEMMA DoneRetires ==
  ASSUME LedgerAssumption, CallsType, NEW c \in Calls, Goto(c, "done")
  PROVE  CallsType' /\ CallsRetire
  BY GotoRetires DEF Retired, Unsent, TransferSteps, UploadSteps, StepsOf

LEMMA RestartRetires ==
  ASSUME LedgerAssumption, CallsType, Restart
  PROVE  CallsType' /\ CallsRetire /\ \A c \in Calls : ~Anchors(c)'
PROOF
  <1> DEFINE Records == [step : TransferSteps \cup UploadSteps,
                         tx : NoteTxs \cup RootTxs \cup {Nothing}]
             dropped(call) == [call EXCEPT !.step = IF @ = "done" THEN @ ELSE "failed"]
  <1>1. \A call \in Records : /\ dropped(call) \in Records
                              /\ dropped(call).step \in {"done", "failed"}
    BY DEF TransferSteps, UploadSteps
  <1>2. calls \in [Calls -> Records]
    BY DEF CallsType
  <1>3. calls' = [c \in Calls |-> IF calls[c].step = "idle" THEN calls[c] ELSE dropped(calls[c])]
    BY DEF Restart
  <1> HIDE DEF Records, dropped
  <1>4. calls' \in [Calls -> Records]
    BY <1>1, <1>2, <1>3
  <1>5. \A c \in Calls : /\ calls[c].step = "idle" => calls'[c] = calls[c]
                         /\ calls[c].step # "idle" => calls'[c].step \in {"done", "failed"}
    BY <1>1, <1>2, <1>3
  <1>6. CallsType'
    BY <1>4, <1>5 DEF CallsType, Calls, Records, TransferSteps, UploadSteps
  <1> QED BY <1>5, <1>6 DEF CallsRetire, Retires, Retired, Unsent, Anchors
-----------------------------------------------------------------------------
(* A transfer anchors its nullifier, its commitment and its cipher.        *)

LEMMA AnchorNullifierCalls ==
  ASSUME LedgerAssumption, CallsType, NEW c \in Transfers, AnchorNullifier(c)
  PROVE  /\ CallsType' /\ calls[c].step = "nullifier" /\ calls'[c].step = "commitment"
         /\ \A d \in Calls : d # c => calls'[d] = calls[d]
         /\ overlapped \subseteq overlapped' /\ overlapped' \subseteq overlapped \cup Transfers
         /\ \A d \in Transfers : Anchors(d) => d \in overlapped' /\ c \in overlapped'
  BY GotoFacts, Kinds DEF AnchorNullifier, At, TransferSteps, Overlap

LEMMA AnchorNullifierPairs ==
  ASSUME LedgerAssumption, LedgerType, PairingInv, NEW c \in Transfers, AnchorNullifier(c)
  PROVE  LedgerType' /\ PairingInv'
PROOF
  <1>1. /\ CallsType' /\ calls[c].step = "nullifier" /\ calls'[c].step = "commitment"
        /\ \A d \in Transfers : d # c => calls'[d] = calls[d]
        /\ overlapped \subseteq overlapped' /\ overlapped' \subseteq Transfers
        /\ \A d \in Transfers : Anchors(d) => d \in overlapped' /\ c \in overlapped'
    BY AnchorNullifierCalls, Kinds DEF LedgerType
  <1>2. UNCHANGED <<commitment, chain>> /\ nf' = Old[c]
    BY DEF AnchorNullifier
  <1>3. Sent' = Sent /\ UNCHANGED <<mempool, notesSpent, commitments>>
    BY <1>2 DEF Sent, chain, contracts
  <1>4. LedgerType'
    BY <1>1, <1>2, <1>3 DEF LedgerType, Nullifiers, MempoolType
  <1>5. \A d \in Transfers : d # c => (Anchors(d)' <=> Anchors(d))
    BY <1>1 DEF Anchors
  <1>6. OverlapIsSeen'
    BY <1>1, <1>5 DEF PairingInv, OverlapIsSeen
  <1>7. BufferIsOwn'
    <2> SUFFICES ASSUME NEW d \in Transfers
                 PROVE  /\ d \notin overlapped' /\ At(d, "commitment")' => nf' = Old[d]
                        /\ d \notin overlapped' /\ At(d, "extra")' => nf' = Old[d] /\ commitment' = d
                        /\ At(d, "extra")' => commitment' \in overlapped' \cup {Nothing, d}
      BY DEF BufferIsOwn
    <2>1. CASE d = c
      BY <2>1, <1>1, <1>2 DEF At
    <2>2. CASE d # c
      <3>1. calls'[d] = calls[d] /\ (Anchors(d) => d \in overlapped')
        BY <2>2, <1>1
      <3> QED BY <3>1, <1>1, <1>2 DEF At, Anchors, PairingInv, BufferIsOwn
    <2> QED BY <2>1, <2>2
  <1>8. PairsAreCarried'
    BY <1>1, <1>3 DEF PairingInv, PairsAreCarried, Carries
  <1>9. PairsStayTogether'
    BY <1>1, <1>3 DEF PairingInv, PairsStayTogether
  <1> QED BY <1>4, <1>6, <1>7, <1>8, <1>9 DEF PairingInv

LEMMA AnchorCommitmentPairs ==
  ASSUME LedgerAssumption, LedgerType, PairingInv, NEW c \in Transfers, AnchorCommitment(c)
  PROVE  /\ LedgerType' /\ PairingInv'
         /\ calls[c].step = "commitment" /\ calls'[c].step = "extra"
         /\ \A d \in Calls : d # c => calls'[d] = calls[d]
PROOF
  <1>1. /\ CallsType' /\ calls[c].step = "commitment" /\ calls'[c].step = "extra"
        /\ \A d \in Calls : d # c => calls'[d] = calls[d]
    BY GotoFacts, Kinds DEF AnchorCommitment, At, TransferSteps, LedgerType
  <1>2. UNCHANGED <<nf, overlapped, chain>> /\ commitment' = c
    BY DEF AnchorCommitment
  <1>3. Sent' = Sent /\ UNCHANGED <<mempool, notesSpent, commitments>>
    BY <1>2 DEF Sent, chain, contracts
  <1>4. LedgerType'
    BY <1>1, <1>2, <1>3 DEF LedgerType, MempoolType
  <1>5. \A d \in Transfers : Anchors(d)' <=> Anchors(d)
    BY <1>1, Kinds DEF Anchors
  <1>6. OverlapIsSeen'
    BY <1>2, <1>5 DEF PairingInv, OverlapIsSeen
  <1>7. BufferIsOwn'
    <2> SUFFICES ASSUME NEW d \in Transfers
                 PROVE  /\ d \notin overlapped' /\ At(d, "commitment")' => nf' = Old[d]
                        /\ d \notin overlapped' /\ At(d, "extra")' => nf' = Old[d] /\ commitment' = d
                        /\ At(d, "extra")' => commitment' \in overlapped' \cup {Nothing, d}
      BY DEF BufferIsOwn
    <2>1. CASE d = c
      BY <2>1, <1>1, <1>2 DEF At, PairingInv, BufferIsOwn
    <2>2. CASE d # c
      <3>1. calls'[d] = calls[d]
        BY <2>2, <1>1, Kinds
      <3>2. Anchors(d) => d \in overlapped /\ c \in overlapped
        BY <2>2, <1>1 DEF PairingInv, OverlapIsSeen, Anchors
      <3> QED BY <3>1, <3>2, <1>2 DEF At, Anchors, PairingInv, BufferIsOwn
    <2> QED BY <2>1, <2>2
  <1>8. PairsAreCarried'
    BY <1>1, <1>2, <1>3, Kinds DEF PairingInv, PairsAreCarried, Carries
  <1>9. PairsStayTogether'
    BY <1>2, <1>3 DEF PairingInv, PairsStayTogether
  <1> QED BY <1>1, <1>4, <1>6, <1>7, <1>8, <1>9 DEF PairingInv

\* What the buffer makes of the three items.
Bundle == IF nf = Nothing THEN CommitOnly(commitment) ELSE CommitAndSpend(nf, commitment)

LEMMA AnchorExtraCalls ==
  ASSUME LedgerAssumption, LedgerType, NEW c \in Transfers, AnchorExtra(c)
  PROVE  /\ CallsType' /\ calls[c].step = "extra"
         /\ \A d \in Calls : d # c => calls'[d] = calls[d]
         /\ commitment' = Nothing
         /\ \/ commitment = Nothing /\ calls'[c].step = "failed" /\ UNCHANGED nf
            \/ /\ commitment # Nothing /\ nf' = Nothing
               /\ calls'[c].step = "send" /\ calls'[c].tx = Bundle /\ Bundle \in NoteTxs
PROOF
  <1>1. CASE commitment = Nothing
    BY <1>1, GotoFacts, Kinds DEF AnchorExtra, At, TransferSteps, LedgerType
  <1>2. CASE commitment # Nothing
    <2>1. Bundle \in NoteTxs
      BY <1>2 DEF LedgerType, Bundle, CommitOnly, CommitAndSpend, NoteTxs, Nullifiers
    <2>2. Become(c, [step |-> "send", tx |-> Bundle]) /\ nf' = Nothing /\ commitment' = Nothing
      BY <1>2 DEF AnchorExtra, Bundle
    <2> HIDE DEF Bundle
    <2>3. /\ CallsType' /\ calls'[c].step = "send" /\ calls'[c].tx = Bundle
          /\ \A d \in Calls : d # c => calls'[d] = calls[d]
      BY <2>1, <2>2, BecomeFacts, Kinds DEF TransferSteps, LedgerType
    <2> QED BY <1>2, <2>1, <2>2, <2>3 DEF AnchorExtra, At
  <1> QED BY <1>1, <1>2

LEMMA AnchorExtraPairs ==
  ASSUME LedgerAssumption, HashAssumption, LedgerType, PairingInv, NEW c \in Transfers,
         AnchorExtra(c)
  PROVE  LedgerType' /\ PairingInv'
PROOF
  <1>1. /\ CallsType' /\ calls[c].step = "extra"
        /\ \A d \in Transfers : d # c => calls'[d] = calls[d]
        /\ commitment' = Nothing
        /\ \/ commitment = Nothing /\ calls'[c].step = "failed" /\ UNCHANGED nf
           \/ /\ commitment # Nothing /\ nf' = Nothing
              /\ calls'[c].step = "send" /\ calls'[c].tx = Bundle /\ Bundle \in NoteTxs
    BY AnchorExtraCalls, Kinds
  <1>2. UNCHANGED <<overlapped, chain>>
    BY DEF AnchorExtra
  <1>3. Sent' = Sent /\ UNCHANGED <<mempool, notesSpent, commitments>>
    BY <1>2 DEF Sent, chain, contracts
  <1>4. LedgerType'
    BY <1>1, <1>2, <1>3 DEF LedgerType, MempoolType
  <1>5. \A d \in Transfers : Anchors(d)' => Anchors(d)
    BY <1>1 DEF Anchors
  <1>6. OverlapIsSeen'
    BY <1>2, <1>5 DEF PairingInv, OverlapIsSeen
  <1>7. \A d \in Transfers : d # c /\ Anchors(d) => d \in overlapped
    BY <1>1 DEF PairingInv, OverlapIsSeen, Anchors
  <1>8. BufferIsOwn'
    BY <1>1, <1>2, <1>7 DEF BufferIsOwn, At, Anchors
  <1>9. commitment # Nothing => Carries(c, Bundle)
    <2>1. CASE c \in overlapped
      <3>1. commitment \in overlapped \cup {Nothing}
        BY <1>1, <2>1 DEF PairingInv, BufferIsOwn, At
      <3>2. Bundle.commitment = commitment
        BY DEF Bundle, CommitOnly, CommitAndSpend
      <3> QED BY <2>1, <3>1, <3>2 DEF Carries
    <2>2. CASE c \notin overlapped
      <3>1. nf = Old[c] /\ commitment = c /\ Old[c] # Nothing
        BY <1>1, <2>2, HashAssumption DEF PairingInv, BufferIsOwn, At, HashAssumption
      <3> QED BY <3>1 DEF Carries, Bundle, Spend
    <2> QED BY <2>1, <2>2
  <1>10. PairsAreCarried'
    BY <1>1, <1>2, <1>3, <1>9 DEF PairingInv, PairsAreCarried, Carries
  <1>11. PairsStayTogether'
    BY <1>2, <1>3 DEF PairingInv, PairsStayTogether
  <1> QED BY <1>4, <1>6, <1>8, <1>10, <1>11 DEF PairingInv
-----------------------------------------------------------------------------
(* Sending and mining.                                                     *)

LEMMA SendTxCalls ==
  ASSUME LedgerAssumption, LedgerType, NEW c \in Calls, SendTx(c),
         c \in Transfers => calls[c].tx \in NoteTxs, c \in Uploads => calls[c].tx \in RootTxs
  PROVE  /\ LedgerType' /\ calls[c].step = "send" /\ calls'[c].step = "mining"
         /\ calls'[c].tx = calls[c].tx
         /\ \A d \in Calls : d # c => calls'[d] = calls[d]
         /\ Sent' = Sent \cup {[by |-> c, tx |-> calls[c].tx]}
         /\ UNCHANGED <<nf, commitment, overlapped, contracts, rows, validium, answered>>
PROOF
  <1> DEFINE tx == calls[c].tx
  <1>1. calls[c].step = "send" /\ Send(c, tx) /\ Goto(c, "mining")
        /\ UNCHANGED <<nf, commitment, overlapped, rows, validium, answered>>
    BY DEF SendTx, At, buffer, tables
  <1>2. "mining" \in StepsOf(c)
    BY DEF StepsOf, TransferSteps, UploadSteps
  <1>3. /\ CallsType' /\ calls'[c].step = "mining" /\ calls'[c].tx = tx
        /\ \A d \in Calls : d # c => calls'[d] = calls[d]
    BY <1>1, <1>2, GotoFacts DEF LedgerType
  <1> HIDE DEF tx
  <1>4. MempoolType' /\ Sent' = Sent \cup {[by |-> c, tx |-> tx]}
    BY <1>1, SendAdds DEF LedgerType, tx
  <1>5. UNCHANGED contracts
    BY <1>1 DEF Send
  <1>6. LedgerType'
    BY <1>1, <1>3, <1>4 DEF LedgerType
  <1> QED BY <1>1, <1>3, <1>4, <1>5, <1>6 DEF tx

\* What a call that is about to send carries.
LEMMA ReadyTx ==
  ASSUME LedgerAssumption, PairingInv, RootingInv, NEW c \in Calls, calls[c].step = "send"
  PROVE  /\ c \in Transfers => calls[c].tx \in NoteTxs
         /\ c \in Uploads => calls[c].tx \in RootTxs
PROOF
  <1>1. c \in Transfers => calls[c].tx \in NoteTxs
    BY DEF PairingInv, PairsAreCarried
  <1>2. ASSUME c \in Uploads PROVE calls[c].tx \in RootTxs
    <2>1. Carried(c)
      BY <1>2 DEF RootingInv, RootsAreCarried
    <2>2. PICK b \in validium : b.root = calls[c].tx.root
      BY <2>1 DEF Carried, IsOnRecord
    <2>3. PICK u \in Uploads : b = [ref |-> Ref(u), root |-> Root(u)]
      BY DEF RootingInv, RootedBatches
    <2>4. calls[c].tx = CommitRoot(Root(u), Ref(c))
      BY <2>1, <2>2, <2>3 DEF Carried
    <2> QED BY <1>2, <2>4 DEF RootTxs
  <1> QED BY <1>1, <1>2

LEMMA SendTxPairs ==
  ASSUME LedgerAssumption, LedgerType, PairingInv, RootingInv, NEW c \in Calls, SendTx(c)
  PROVE  LedgerType' /\ PairingInv'
PROOF
  <1>1. calls[c].step = "send"
    BY DEF SendTx, At
  <1>2. /\ LedgerType' /\ calls'[c].step = "mining"
        /\ calls'[c].tx = calls[c].tx
        /\ \A d \in Calls : d # c => calls'[d] = calls[d]
        /\ Sent' = Sent \cup {[by |-> c, tx |-> calls[c].tx]}
        /\ UNCHANGED <<nf, commitment, overlapped, contracts>>
    BY <1>1, SendTxCalls, ReadyTx
  <1>3. \A d \in Transfers : /\ Anchors(d)' => Anchors(d)
                             /\ calls'[d].step \in {"commitment", "extra"} => calls'[d] = calls[d]
                             /\ calls'[d].tx = calls[d].tx
    BY <1>1, <1>2, Kinds DEF Anchors
  <1>4. OverlapIsSeen'
    BY <1>2, <1>3 DEF PairingInv, OverlapIsSeen
  <1>5. BufferIsOwn'
    BY <1>2, <1>3 DEF PairingInv, BufferIsOwn, At
  <1>6. \A d \in Transfers : calls'[d].step \in {"send", "mining"} =>
          calls[d].step \in {"send", "mining"}
    BY <1>1, <1>2, Kinds
  <1>7. PairsAreCarried'
    BY <1>1, <1>2, <1>3, <1>6 DEF PairingInv, PairsAreCarried, Carries
  <1>8. PairsStayTogether'
    BY <1>2 DEF PairingInv, PairsStayTogether, contracts
  <1> QED BY <1>2, <1>4, <1>5, <1>7, <1>8 DEF PairingInv

\* The contract does what the entry point does, or nothing.
LEMMA MineDoes ==
  ASSUME MempoolType, Mine, NEW tx, tx = Head(mempool).tx
  PROVE  /\ tx \in NoteTxs \cup RootTxs
         /\ \/ MayPass(tx) /\ SpendNote(tx)
            \/ MayPass(tx) /\ RecordNote(tx)
            \/ MayPass(tx) /\ RecordRoot(tx)
            \/ ~MayPass(tx) /\ UNCHANGED contracts
  BY MineTakes, SentIs DEF Mine

LEMMA MinePairs ==
  ASSUME LedgerAssumption, LedgerType, PairingInv, MineNext
  PROVE  LedgerType' /\ PairingInv'
PROOF
  <1> DEFINE head == Head(mempool)
             tx == head.tx
  <1>1. /\ MempoolType' /\ head \in Sent /\ Sent' \subseteq Sent
        /\ Mine /\ UNCHANGED <<nf, commitment, overlapped, calls>>
    BY MineTakes DEF LedgerType, MineNext, buffer
  <1>2. LedgerType'
    BY <1>1 DEF LedgerType, CallsType
  <1>3. OverlapIsSeen' /\ BufferIsOwn'
    BY <1>1 DEF PairingInv, OverlapIsSeen, Anchors, BufferIsOwn, At
  <1>4. PairsAreCarried'
    BY <1>1 DEF PairingInv, PairsAreCarried, Carries
  <1>5. \/ SpendNote(tx) \/ RecordNote(tx) \/ RecordRoot(tx) \/ UNCHANGED contracts
    BY <1>1, MineDoes DEF LedgerType
  <1>6. \/ head.by \in Transfers /\ tx \in NoteTxs
        \/ head.by \in Uploads /\ tx \in RootTxs
    BY <1>1, SentIs DEF LedgerType
  <1>7. \A t \in RootTxs : t.entry = "commitRoot"
    BY DEF RootTxs, CommitRoot
  <1>8. tx \in NoteTxs => Carries(head.by, tx) \/ head.by \in Uploads
    BY <1>1, <1>6 DEF PairingInv, PairsAreCarried
  <1>9. tx \in NoteTxs => head.by \in Transfers
    BY <1>6, <1>7 DEF NoteTxs
  <1>10. tx \in NoteTxs => tx = Spend(head.by) \/ tx.commitment \in overlapped
    BY <1>1, <1>9 DEF PairingInv, PairsAreCarried, Carries
  <1> HIDE DEF tx
  <1>11. PairsStayTogether'
    <2>1. CASE SpendNote(tx)
      <3>1. tx \in NoteTxs
        BY <2>1, <1>6, <1>7 DEF SpendNote
      <3>2. tx.nf = Old[tx.commitment] \/ tx.commitment \in overlapped
        BY <3>1, <1>10 DEF Spend, CommitAndSpend
      <3> DEFINE event == [nf |-> tx.nf, commitment |-> tx.commitment]
      <3>3. /\ notesSpent' = notesSpent \cup {event}
            /\ commitments' = commitments \cup {tx.commitment}
        BY <2>1 DEF SpendNote
      <3>4. event.nf = tx.nf /\ event.commitment = tx.commitment
        OBVIOUS
      <3> HIDE DEF event
      <3>5. \A e \in notesSpent' : e.commitment \notin overlapped' => e.nf = Old[e.commitment]
        BY <3>2, <3>3, <3>4, <1>1 DEF PairingInv, PairsStayTogether
      <3>6. commitments' \subseteq {e.commitment : e \in notesSpent'} \cup overlapped'
        BY <3>3, <3>4, <1>1 DEF PairingInv, PairsStayTogether
      <3> QED BY <3>5, <3>6 DEF PairsStayTogether
    <2>2. CASE RecordNote(tx)
      <3>1. tx \in NoteTxs
        BY <2>2, <1>6, <1>7 DEF RecordNote
      <3>2. tx.commitment \in overlapped
        BY <2>2, <3>1, <1>10 DEF RecordNote, Spend, CommitAndSpend
      <3> QED BY <2>2, <3>2, <1>1 DEF RecordNote, PairingInv, PairsStayTogether
    <2>3. CASE RecordRoot(tx)
      BY <2>3, <1>1 DEF RecordRoot, PairingInv, PairsStayTogether
    <2>4. CASE UNCHANGED contracts
      BY <2>4, <1>1 DEF contracts, PairingInv, PairsStayTogether
    <2> QED BY <2>1, <2>2, <2>3, <2>4, <1>5
  <1> QED BY <1>2, <1>3, <1>4, <1>11 DEF PairingInv
-----------------------------------------------------------------------------
(* Batch roots.                                                            *)

\* The batch of an upload, and what is on record after its insert.
RootedBatch(c) == [ref |-> Ref(c), root |-> Root(c)]

LEMMA BatchesAre == /\ \A c \in Uploads : Uploaded[c].items # <<>> => RootedBatch(c) \in RootedBatches
                    /\ \A b \in RootedBatches : \E c \in Uploads : b = RootedBatch(c) /\ Uploaded[c].items # <<>>
  BY DEF RootedBatches, RootedBatch

LEMMA SubmitRootCalls ==
  ASSUME LedgerAssumption, CallsType, validium \subseteq RootedBatches,
         \A a, b \in validium : a.ref = b.ref \/ a.root = b.root => a = b,
         NEW c \in Uploads, SubmitRoot(c)
  PROVE  /\ CallsType' /\ calls'[c].step = "send" /\ calls[c].step = "idle"
         /\ \A d \in Calls : d # c => calls'[d] = calls[d]
         /\ validium \subseteq validium' /\ validium' \subseteq RootedBatches
         /\ \A a, b \in validium' : a.ref = b.ref \/ a.root = b.root => a = b
         /\ Carried(c)'
PROOF
  <1>1. \/ validium' = validium
        \/ /\ validium' = validium \cup {RootedBatch(c)}
           /\ Recorded(Ref(c)) = {} /\ ~RootIsTaken(c)
    BY DEF SubmitRoot, Insert, RootedBatch
  <1>2. /\ RootedBatch(c) \in RootedBatches
        /\ RootedBatch(c).ref = Ref(c) /\ RootedBatch(c).root = Root(c)
    BY BatchesAre DEF SubmitRoot, RootedBatch
  <1>3. validium \subseteq validium' /\ validium' \subseteq RootedBatches
    BY <1>1, <1>2
  <1>4. \A b \in validium : /\ Recorded(Ref(c)) = {} => b.ref # Ref(c)
                            /\ ~RootIsTaken(c) => b.root # Root(c)
    BY DEF Recorded, RootIsTaken
  <1> DEFINE mine == RootedBatch(c)
  <1>5. \A a, b \in validium' : a.ref = b.ref \/ a.root = b.root => a = b
    <2>1. mine.ref = Ref(c) /\ mine.root = Root(c)
      BY <1>2
    <2> HIDE DEF mine
    <2> QED BY <1>1, <1>4, <2>1 DEF mine
  <1>6. PICK b \in validium' : /\ b.ref = Ref(c)
                               /\ Become(c, [step |-> "send", tx |-> CommitRoot(b.root, Ref(c))])
    BY DEF SubmitRoot
  <1> DEFINE tx == CommitRoot(b.root, Ref(c))
  <1>7. tx \in RootTxs
    <2>1. PICK u \in Uploads : b = RootedBatch(u)
      BY <1>3, BatchesAre
    <2> QED BY <2>1 DEF RootedBatch, RootTxs
  <1>8. tx.root = b.root /\ tx = CommitRoot(tx.root, Ref(c))
    BY DEF CommitRoot
  <1> HIDE DEF tx
  <1>9. "send" \in StepsOf(c)
    BY Kinds DEF UploadSteps
  <1>10. /\ CallsType' /\ calls'[c].step = "send" /\ calls'[c].tx = tx
         /\ \A d \in Calls : d # c => calls'[d] = calls[d]
    BY <1>6, <1>7, <1>9, BecomeFacts, Kinds DEF tx
  <1>11. Carried(c)'
    BY <1>6, <1>8, <1>10 DEF Carried, IsOnRecord
  <1> QED BY <1>3, <1>5, <1>10, <1>11 DEF SubmitRoot, Begins, At

LEMMA SubmitRootRoots ==
  ASSUME LedgerAssumption, HashAssumption, LedgerType, RootingInv, NEW c \in Uploads, SubmitRoot(c)
  PROVE  RootingInv'
PROOF
  <1>1. /\ CallsType' /\ calls'[c].step = "send"
        /\ \A d \in Uploads : d # c => calls'[d] = calls[d]
        /\ validium \subseteq validium' /\ validium' \subseteq RootedBatches
        /\ \A a, b \in validium' : a.ref = b.ref \/ a.root = b.root => a = b
        /\ Carried(c)'
    BY SubmitRootCalls, Kinds DEF LedgerType, RootingInv, RootsAgree
  <1>2. UNCHANGED <<answered, chain>>
    BY DEF SubmitRoot
  <1>3. Sent' = Sent /\ UNCHANGED roots
    BY <1>2 DEF Sent, chain, contracts
  <1>4. \A root, ref : IsOnRecord(root, ref) => IsOnRecord(root, ref)'
    BY <1>1 DEF IsOnRecord
  <1>5. \A d \in Uploads : d # c => (Carried(d) => Carried(d)') /\ (OnChain(d) => OnChain(d)')
    BY <1>1, <1>3, <1>4 DEF Carried, OnChain
  <1>6. RootsAreCarried'
    BY <1>1, <1>3, <1>5 DEF RootingInv, RootsAreCarried, At
  <1>7. SentAreOnRecord'
    BY <1>3, <1>4 DEF RootingInv, SentAreOnRecord
  <1>8. RootsAgree'
    BY <1>1, <1>2, <1>3 DEF RootingInv, RootsAgree
  <1> QED BY <1>1, <1>2, <1>6, <1>7, <1>8 DEF RootingInv

\* An answer that says what is on the chain.
LEMMA AnswersRoots ==
  ASSUME RootingInv, NEW c \in Uploads, NEW root, \A d \in Uploads : Retires(d),
         answered' = answered \cup {[call |-> c, root |-> root]},
         UNCHANGED <<validium, chain>>,
         Uploaded[c].items # <<>> =>
           [root |-> root, ref |-> Ref(c)] \in roots /\ IsOnRecord(root, Ref(c))
  PROVE  RootingInv'
PROOF
  <1>1. \A d \in Uploads :
          calls'[d].step \in {"send", "mining", "answer"} => calls'[d] = calls[d]
    BY DEF Retires, Retired
  <1>2. Sent' = Sent /\ UNCHANGED roots
    BY DEF Sent, chain, contracts
  <1>3. \A d \in Uploads : calls'[d].step \in {"send", "mining", "answer"} =>
          (Carried(d)' <=> Carried(d)) /\ (OnChain(d)' <=> OnChain(d))
    BY <1>1, <1>2 DEF Carried, OnChain, IsOnRecord
  <1>4. RootsAreCarried'
    BY <1>1, <1>2, <1>3 DEF RootingInv, RootsAreCarried, At
  <1>5. SentAreOnRecord'
    BY <1>2 DEF RootingInv, SentAreOnRecord, IsOnRecord
  <1> DEFINE answer == [call |-> c, root |-> root]
  <1>6. answer.call = c /\ answer.root = root /\ answered' = answered \cup {answer}
    OBVIOUS
  <1> HIDE DEF answer
  <1>7. RootsAgree'
    BY <1>2, <1>6 DEF RootingInv, RootsAgree, IsOnRecord
  <1> QED BY <1>4, <1>5, <1>6, <1>7 DEF RootingInv

LEMMA SubmitNothingRoots ==
  ASSUME LedgerAssumption, LedgerType, RootingInv, NEW c \in Uploads, SubmitNothing(c)
  PROVE  RootingInv'
PROOF
  <1>1. \A d \in Uploads : Retires(d)
    BY DoneRetires, Kinds DEF SubmitNothing, LedgerType, CallsRetire
  <1> QED BY <1>1, AnswersRoots DEF SubmitNothing, tables

LEMMA AnswerRoots ==
  ASSUME LedgerAssumption, LedgerType, RootingInv, NEW c \in Uploads, Answer(c)
  PROVE  RootingInv'
PROOF
  <1>1. \A d \in Uploads : Retires(d)
    BY DoneRetires, Kinds DEF Answer, LedgerType, CallsRetire
  <1> DEFINE root == calls[c].tx.root
  <1>2. [root |-> root, ref |-> Ref(c)] \in roots /\ IsOnRecord(root, Ref(c))
    BY DEF Answer, RootingInv, RootsAreCarried, At, OnChain, Carried
  <1>3. answered' = answered \cup {[call |-> c, root |-> root]} /\ UNCHANGED <<validium, chain>>
    BY DEF Answer, tables
  <1> HIDE DEF root
  <1> QED BY <1>1, <1>2, <1>3, AnswersRoots

LEMMA SendTxRoots ==
  ASSUME LedgerAssumption, LedgerType, PairingInv, RootingInv, NEW c \in Calls, SendTx(c)
  PROVE  RootingInv'
PROOF
  <1>1. calls[c].step = "send"
    BY DEF SendTx, At
  <1>2. /\ calls'[c].step = "mining" /\ calls'[c].tx = calls[c].tx
        /\ \A d \in Calls : d # c => calls'[d] = calls[d]
        /\ Sent' = Sent \cup {[by |-> c, tx |-> calls[c].tx]}
        /\ UNCHANGED <<roots, validium, answered>>
    BY <1>1, SendTxCalls, ReadyTx DEF contracts
  <1>3. \A d \in Uploads : calls'[d].tx = calls[d].tx
    BY <1>2, Kinds
  <1>4. \A d \in Uploads : (Carried(d)' <=> Carried(d)) /\ (OnChain(d)' <=> OnChain(d))
    BY <1>2, <1>3 DEF Carried, OnChain, IsOnRecord
  <1>5. ASSUME NEW d \in Uploads
        PROVE  /\ calls'[d].step \in {"send", "mining", "answer"} => Carried(d)'
               /\ At(d, "mining")' => OnChain(d)' \/ [by |-> d, tx |-> calls'[d].tx] \in Sent'
               /\ At(d, "answer")' => OnChain(d)'
    <2>1. CASE d = c
      BY <2>1, <1>1, <1>2, <1>4 DEF RootingInv, RootsAreCarried, At
    <2>2. CASE d # c
      <3>1. calls'[d] = calls[d]
        BY <2>2, <1>2, Kinds
      <3> QED BY <3>1, <1>2, <1>4 DEF RootingInv, RootsAreCarried, At
    <2> QED BY <2>1, <2>2
  <1>6. RootsAreCarried'
    BY <1>5 DEF RootsAreCarried
  <1>7. c \in Uploads => Carried(c)
    BY <1>1 DEF RootingInv, RootsAreCarried
  <1> DEFINE new == [by |-> c, tx |-> calls[c].tx]
  <1>8. /\ new.by = c /\ Sent' = Sent \cup {new}
        /\ c \in Uploads => /\ new.tx = CommitRoot(new.tx.root, new.tx.ref)
                            /\ IsOnRecord(new.tx.root, new.tx.ref)
    BY <1>2, <1>7 DEF Carried, CommitRoot
  <1> HIDE DEF new
  <1>9. SentAreOnRecord'
    BY <1>2, <1>8 DEF RootingInv, SentAreOnRecord, IsOnRecord
  <1>10. RootsAgree'
    BY <1>2 DEF RootingInv, RootsAgree
  <1> QED BY <1>2, <1>6, <1>9, <1>10 DEF RootingInv

LEMMA ReceiveCalls ==
  ASSUME LedgerAssumption, CallsType, NEW c \in Calls, Receive(c)
  PROVE  /\ CallsType' /\ calls[c].step = "mining" /\ calls'[c].tx = calls[c].tx
         /\ c \in Transfers => calls'[c].step = "commit"
         /\ c \in Uploads => calls'[c].step = "answer"
         /\ \A d \in Calls : d # c => calls'[d] = calls[d]
         /\ \A sent \in Sent : sent.by # c
PROOF
  <1>1. CASE c \in Transfers
    BY <1>1, GotoFacts, Kinds DEF Receive, At, TransferSteps, Mined, Sent
  <1>2. CASE c \in Uploads
    BY <1>2, GotoFacts, Kinds DEF Receive, At, UploadSteps, Mined, Sent
  <1> QED BY <1>1, <1>2 DEF Calls

LEMMA ReceiveRoots ==
  ASSUME LedgerAssumption, LedgerType, RootingInv, NEW c \in Calls, Receive(c)
  PROVE  RootingInv'
PROOF
  <1>1. /\ calls[c].step = "mining" /\ calls'[c].tx = calls[c].tx
        /\ c \in Uploads => calls'[c].step = "answer"
        /\ \A d \in Calls : d # c => calls'[d] = calls[d]
        /\ \A sent \in Sent : sent.by # c
    BY ReceiveCalls DEF LedgerType
  <1>2. UNCHANGED <<validium, answered, chain>>
    BY DEF Receive, tables
  <1>3. Sent' = Sent /\ UNCHANGED roots
    BY <1>2 DEF Sent, chain, contracts
  <1>4. \A d \in Uploads : calls'[d].tx = calls[d].tx
    BY <1>1, Kinds
  <1>5. \A d \in Uploads : (Carried(d)' <=> Carried(d)) /\ (OnChain(d)' <=> OnChain(d))
    BY <1>2, <1>3, <1>4 DEF Carried, OnChain, IsOnRecord
  <1>6. ASSUME NEW d \in Uploads
        PROVE  /\ calls'[d].step \in {"send", "mining", "answer"} => Carried(d)'
               /\ At(d, "mining")' => OnChain(d)' \/ [by |-> d, tx |-> calls'[d].tx] \in Sent'
               /\ At(d, "answer")' => OnChain(d)'
    <2>1. CASE d = c
      <3>1. Carried(c) /\ (OnChain(c) \/ [by |-> c, tx |-> calls[c].tx] \in Sent)
        BY <2>1, <1>1 DEF RootingInv, RootsAreCarried, At
      <3>2. OnChain(c)
        BY <3>1, <1>1
      <3> QED BY <2>1, <3>1, <3>2, <1>1, <1>5 DEF At
    <2>2. CASE d # c
      <3>1. calls'[d] = calls[d]
        BY <2>2, <1>1, Kinds
      <3> QED BY <3>1, <1>3, <1>5 DEF RootingInv, RootsAreCarried, At
    <2> QED BY <2>1, <2>2
  <1>7. RootsAreCarried'
    BY <1>6 DEF RootsAreCarried
  <1>8. SentAreOnRecord' /\ RootsAgree'
    BY <1>2, <1>3 DEF RootingInv, SentAreOnRecord, IsOnRecord, RootsAgree
  <1> QED BY <1>2, <1>7, <1>8 DEF RootingInv

\* A root on record is none that the contract refuses.
LEMMA RecordedRoots ==
  ASSUME HashAssumption, validium \subseteq RootedBatches, NEW root, NEW ref, IsOnRecord(root, ref)
  PROVE  root # Nothing
PROOF
  <1>1. PICK b \in validium : b.root = root
    BY DEF IsOnRecord
  <1>2. PICK c \in Uploads : b = RootedBatch(c) /\ Uploaded[c].items # <<>>
    BY BatchesAre
  <1> QED BY <1>1, <1>2, HashAssumption DEF RootedBatch, HashAssumption

LEMMA MineRoots ==
  ASSUME LedgerAssumption, HashAssumption, LedgerType, RootingInv, MineNext
  PROVE  RootingInv'
PROOF
  <1> DEFINE head == Head(mempool)
             tx == head.tx
             event == [root |-> tx.root, ref |-> tx.ref]
  <1>1. /\ MempoolType' /\ head \in Sent /\ Sent' \subseteq Sent
        /\ \A sent \in Sent : sent # head => sent \in Sent'
        /\ Mine /\ UNCHANGED <<validium, answered, calls>>
    BY MineTakes DEF LedgerType, MineNext, tables
  <1>2. \/ MayPass(tx) /\ SpendNote(tx)
        \/ MayPass(tx) /\ RecordNote(tx)
        \/ MayPass(tx) /\ RecordRoot(tx)
        \/ ~MayPass(tx) /\ UNCHANGED contracts
    BY <1>1, MineDoes DEF LedgerType
  <1>3. \/ head.by \in Transfers /\ tx \in NoteTxs
        \/ head.by \in Uploads /\ tx \in RootTxs
    BY <1>1, SentIs DEF LedgerType
  <1>4. head.by \in Uploads => /\ tx = CommitRoot(tx.root, tx.ref)
                               /\ IsOnRecord(tx.root, tx.ref)
    BY <1>1 DEF RootingInv, SentAreOnRecord
  <1> HIDE DEF tx
  <1>5. head.by \in Uploads => tx.entry = "commitRoot" /\ MayPass(tx)
    <2> SUFFICES ASSUME head.by \in Uploads PROVE tx.entry = "commitRoot" /\ MayPass(tx)
      OBVIOUS
    <2>1. tx.root # Nothing
      BY <1>4, RecordedRoots DEF RootingInv
    <2>2. tx.entry = "commitRoot"
      BY <1>4 DEF CommitRoot
    <2> QED BY <2>1, <2>2 DEF MayPass, Accepts
  <1>6. head.by \in Transfers => tx.entry # "commitRoot"
    BY <1>3, <1>4, Kinds DEF NoteTxs, LedgerAssumption
  <1>7. \/ head.by \in Uploads /\ roots' = roots \cup {event}
        \/ head.by \notin Uploads /\ UNCHANGED roots
    BY <1>2, <1>3, <1>5, <1>6, Kinds DEF SpendNote, RecordNote, RecordRoot, contracts
  <1>8. event.root = tx.root /\ event.ref = tx.ref
    OBVIOUS
  <1> HIDE DEF event
  <1>9. roots \subseteq roots'
    BY <1>7
  <1>10. \A d \in Uploads : (Carried(d)' <=> Carried(d)) /\ (OnChain(d) => OnChain(d)')
    BY <1>1, <1>9 DEF Carried, OnChain, IsOnRecord
  <1>11. ASSUME NEW d \in Uploads, At(d, "mining")
         PROVE  OnChain(d)' \/ [by |-> d, tx |-> calls[d].tx] \in Sent'
    <2> DEFINE own == [by |-> d, tx |-> calls[d].tx]
    <2>1. OnChain(d) \/ own \in Sent
      BY <1>11 DEF RootingInv, RootsAreCarried
    <2>2. CASE OnChain(d)
      BY <2>2, <1>10
    <2>3. CASE own \in Sent /\ own # head
      BY <2>3, <1>1
    <2>4. CASE own = head
      <3>1. head.by = d /\ tx = calls[d].tx
        BY <2>4 DEF tx
      <3>2. tx = CommitRoot(tx.root, Ref(d))
        BY <3>1, <1>11 DEF RootingInv, RootsAreCarried, Carried, At
      <3>3. tx.ref = Ref(d)
        BY <3>2 DEF CommitRoot
      <3>4. event = [root |-> calls[d].tx.root, ref |-> Ref(d)]
        BY <3>1, <3>3 DEF event
      <3> QED BY <3>1, <3>4, <1>1, <1>7 DEF OnChain
    <2> QED BY <2>1, <2>2, <2>3, <2>4
  <1>12. RootsAreCarried'
    BY <1>1, <1>10, <1>11 DEF RootingInv, RootsAreCarried, At
  <1>13. SentAreOnRecord'
    BY <1>1 DEF RootingInv, SentAreOnRecord, IsOnRecord
  <1>14. \A e \in roots' : \E b \in validium : b.ref = e.ref /\ b.root = e.root
    BY <1>4, <1>7, <1>8 DEF RootingInv, RootsAgree, IsOnRecord
  <1>15. RootsAgree'
    BY <1>1, <1>9, <1>14 DEF RootingInv, RootsAgree
  <1> QED BY <1>1, <1>12, <1>13, <1>15 DEF RootingInv
-----------------------------------------------------------------------------
(* Every step.                                                             *)

LEMMA InitInv == LedgerAssumption /\ LedgerInit => LedgerInv
PROOF
  <1> SUFFICES ASSUME LedgerAssumption, LedgerInit PROVE LedgerInv
    OBVIOUS
  <1>1. /\ mempool = <<>> /\ notesSpent = {} /\ commitments = {} /\ roots = {}
        /\ validium = {} /\ answered = {} /\ overlapped = {}
        /\ nf = Nothing /\ commitment = Nothing
    BY DEF LedgerInit, ChainInit
  <1>2. /\ calls = [c \in Calls |-> Call("idle")]
        /\ Call("idle") \in [step : TransferSteps \cup UploadSteps,
                             tx : NoteTxs \cup RootTxs \cup {Nothing}]
        /\ Call("idle").step = "idle"
    BY DEF LedgerInit, Call, TransferSteps, UploadSteps
  <1>3. \A c \in Calls : calls[c].step = "idle"
    BY <1>2
  <1>4. CallsType
    BY <1>2, <1>3 DEF CallsType, Calls, TransferSteps, UploadSteps
  <1>5. MempoolType /\ Sent = {}
    BY <1>1 DEF MempoolType, Sent, ToSet
  <1>6. LedgerType
    BY <1>1, <1>4, <1>5 DEF LedgerType
  <1>7. PairingInv
    BY <1>1, <1>3, <1>5 DEF PairingInv, OverlapIsSeen, BufferIsOwn, PairsAreCarried,
                            PairsStayTogether, Anchors, At, Calls
  <1>8. RootingInv
    BY <1>1, <1>3, <1>5 DEF RootingInv, RootsAreCarried, SentAreOnRecord, RootsAgree, At, Calls
  <1> QED BY <1>6, <1>7, <1>8 DEF LedgerInv

\* A step that changes calls only, and makes them retire.
LEMMA RetiringStep ==
  ASSUME LedgerInv, CallsType', CallsRetire, UNCHANGED <<buffer, validium, answered, overlapped, chain>>
  PROVE  LedgerInv'
PROOF
  <1>1. /\ \A c \in Transfers : Retires(c)
        /\ \A c \in Uploads : Retires(c)
    BY DEF CallsRetire, Calls
  <1>2. UNCHANGED <<nf, commitment, overlapped, mempool>>
    BY DEF buffer, chain
  <1>3. LedgerType'
    BY <1>2 DEF LedgerInv, LedgerType, MempoolType
  <1> QED BY <1>1, <1>3, PairingRetires, RootingRetires DEF LedgerInv

\* Only the transfer's own call changes, and no batch.
LEMMA AnchoringRoots ==
  ASSUME LedgerAssumption, RootingInv, NEW c \in Transfers, UNCHANGED <<tables, answered, chain>>,
         \A d \in Calls : d # c => calls'[d] = calls[d]
  PROVE  RootingInv'
PROOF
  <1>1. \A d \in Uploads : Retires(d)
    BY Kinds DEF Retires
  <1> QED BY <1>1, RootingRetires DEF tables

LEMMA UploadPairs ==
  ASSUME LedgerAssumption, LedgerType, PairingInv, NEW c \in Uploads, CallsType',
         \A d \in Calls : d # c => calls'[d] = calls[d],
         UNCHANGED <<buffer, overlapped, chain>>
  PROVE  LedgerType' /\ PairingInv'
PROOF
  <1>1. \A d \in Transfers : Retires(d)
    BY Kinds DEF Retires
  <1>2. UNCHANGED <<nf, commitment, overlapped, mempool>>
    BY DEF buffer, chain
  <1> QED BY <1>1, <1>2, PairingRetires DEF LedgerType, MempoolType

LEMMA NextInv == LedgerAssumption /\ HashAssumption /\ LedgerInv /\ [LedgerNext]_ledger => LedgerInv'
PROOF
  <1> SUFFICES ASSUME LedgerAssumption, HashAssumption, LedgerInv, [LedgerNext]_ledger
               PROVE  LedgerInv'
    OBVIOUS
  <1> USE DEF LedgerInv
  <1>0. CallsType
    BY DEF LedgerType
  <1>1. ASSUME NEW c \in Transfers, CheckNullifier(c) PROVE LedgerInv'
    BY <1>0, <1>1, CheckNullifierRetires, RetiringStep DEF CheckNullifier, tables
  <1>2. ASSUME NEW c \in Transfers, WriteRows(c) PROVE LedgerInv'
    BY <1>0, <1>2, WriteRowsRetires, RetiringStep DEF WriteRows, tables
  <1>3. ASSUME NEW c \in Transfers, AnchorNullifier(c) PROVE LedgerInv'
    BY <1>0, <1>3, AnchorNullifierCalls, AnchorNullifierPairs, AnchoringRoots DEF AnchorNullifier
  <1>4. ASSUME NEW c \in Transfers, AnchorCommitment(c) PROVE LedgerInv'
    BY <1>4, AnchorCommitmentPairs, AnchoringRoots DEF AnchorCommitment
  <1>5. ASSUME NEW c \in Transfers, AnchorExtra(c) PROVE LedgerInv'
    BY <1>5, AnchorExtraCalls, AnchorExtraPairs, AnchoringRoots DEF AnchorExtra
  <1>6. ASSUME NEW c \in Transfers, CommitRows(c) PROVE LedgerInv'
    BY <1>0, <1>6, CommitRowsRetires, RetiringStep DEF CommitRows
  <1>7. ASSUME NEW c \in Uploads, SubmitNothing(c) PROVE LedgerInv'
    <2>1. CallsType' /\ \A d \in Transfers : Retires(d)
      BY <1>0, <1>7, DoneRetires, Kinds DEF SubmitNothing, CallsRetire
    <2>2. UNCHANGED <<nf, commitment, overlapped, mempool>> /\ UNCHANGED <<buffer, overlapped, chain>>
      BY <1>7 DEF SubmitNothing, buffer, chain
    <2> QED BY <2>1, <2>2, <1>7, SubmitNothingRoots, PairingRetires DEF LedgerType, MempoolType
  <1>8. ASSUME NEW c \in Uploads, SubmitRoot(c) PROVE LedgerInv'
    <2>1. CallsType' /\ \A d \in Calls : d # c => calls'[d] = calls[d]
      BY <1>0, <1>8, SubmitRootCalls DEF RootingInv, RootsAgree
    <2> QED BY <2>1, <1>8, SubmitRootRoots, UploadPairs DEF SubmitRoot
  <1>18. ASSUME NEW c \in Uploads, RefuseRoot(c) PROVE LedgerInv'
    BY <1>0, <1>18, FailRetires, Kinds, RetiringStep DEF RefuseRoot, tables
  <1>9. ASSUME NEW c \in Uploads, Answer(c) PROVE LedgerInv'
    <2>1. CallsType' /\ \A d \in Transfers : Retires(d)
      BY <1>0, <1>9, DoneRetires, Kinds DEF Answer, CallsRetire
    <2>2. UNCHANGED <<nf, commitment, overlapped, mempool>> /\ UNCHANGED <<buffer, overlapped, chain>>
      BY <1>9 DEF Answer, buffer, chain
    <2> QED BY <2>1, <2>2, <1>9, AnswerRoots, PairingRetires DEF LedgerType, MempoolType
  <1>10. ASSUME NEW c \in Calls, SendTx(c) PROVE LedgerInv'
    BY <1>10, SendTxPairs, SendTxRoots
  <1>11. ASSUME NEW c \in Calls, RefuseTx(c) PROVE LedgerInv'
    BY <1>0, <1>11, FailRetires, RetiringStep DEF RefuseTx, tables
  <1>12. ASSUME NEW c \in Calls, Receive(c) PROVE LedgerInv'
    <2>1. /\ CallsType'
          /\ c \in Transfers => calls'[c].step = "commit"
          /\ \A d \in Calls : d # c => calls'[d] = calls[d]
      BY <1>0, <1>12, ReceiveCalls
    <2>2. \A d \in Transfers : calls'[d].step \in {"commitment", "extra", "send", "mining"} =>
            calls'[d] = calls[d]
      BY <2>1, Kinds
    <2>3. UNCHANGED <<nf, commitment, overlapped, mempool>>
          /\ UNCHANGED <<buffer, overlapped, chain>>
      BY <1>12 DEF Receive, buffer, chain
    <2>4. PairingInv'
      BY <2>2, <2>3, PairingKeeps
    <2> QED BY <2>1, <2>3, <2>4, <1>12, ReceiveRoots DEF LedgerType, MempoolType
  <1>13. ASSUME NEW c \in Calls, Abort(c) PROVE LedgerInv'
    BY <1>0, <1>13, FailRetires, RetiringStep DEF Abort, tables
  <1>14. CASE Restart
    <2>1. CallsType' /\ CallsRetire /\ \A c \in Calls : ~Anchors(c)'
      BY <1>0, <1>14, RestartRetires
    <2>2. /\ \A c \in Transfers : Retires(c) /\ ~Anchors(c)'
          /\ \A c \in Uploads : Retires(c)
      BY <2>1, Kinds DEF CallsRetire
    <2>3. nf' = Nothing /\ commitment' = Nothing /\ UNCHANGED <<overlapped, mempool>>
          /\ UNCHANGED <<overlapped, chain>> /\ UNCHANGED <<validium, answered, chain>>
      BY <1>14 DEF Restart, chain, tables
    <2>4. PairingInv' /\ RootingInv'
      BY <2>2, <2>3, PairingRetires, RootingRetires
    <2> QED BY <2>1, <2>3, <2>4 DEF LedgerType, MempoolType
  <1>15. CASE MineNext
    BY <1>15, MinePairs, MineRoots
  <1>16. CASE UNCHANGED ledger
    <2>1. CallsType' /\ CallsRetire /\ UNCHANGED <<buffer, validium, answered, overlapped, chain>>
      BY <1>0, <1>16 DEF ledger, tables, CallsType, CallsRetire, Retires
    <2> QED BY <2>1, RetiringStep
  <1>17. CASE LedgerNext
    BY <1>17, <1>1, <1>2, <1>3, <1>4, <1>5, <1>6, <1>7, <1>8, <1>9, <1>10, <1>11, <1>12, <1>13,
       <1>14, <1>15, <1>16, <1>18 DEF LedgerNext, TransferStep, UploadStep, LedgerIdle
  <1> QED BY <1>16, <1>17

LEMMA LedgerInvariant ==
  ASSUME LedgerAssumption, HashAssumption PROVE LedgerSpec => []LedgerInv
PROOF
  <1>1. LedgerInit => LedgerInv
    BY InitInv
  <1>2. LedgerInv /\ [LedgerNext]_ledger => LedgerInv'
    BY NextInv
  <1> QED BY <1>1, <1>2, PTL DEF LedgerSpec

\* Whatever retries, aborts, restarts and mixtures: the commitment of a
\* transfer that anchored while no other one did is on the chain only with the
\* nullifier of that transfer.
THEOREM TransfersStayPaired ==
  ASSUME LedgerAssumption, HashAssumption PROVE LedgerSpec => []PairsStayTogether
PROOF
  <1>1. LedgerInv => PairsStayTogether
    BY DEF LedgerInv, PairingInv
  <1> QED BY <1>1, LedgerInvariant, PTL

\* A batch reference has one root, and a root one reference: in the table, on
\* the chain and in the answers; and an answered root is on the chain.
THEOREM BatchesHaveOneRoot ==
  ASSUME LedgerAssumption, HashAssumption PROVE LedgerSpec => []RootsAgree
PROOF
  <1>1. LedgerInv => RootsAgree
    BY DEF LedgerInv, RootingInv
  <1> QED BY <1>1, LedgerInvariant, PTL
-----------------------------------------------------------------------------
(* Committed spends are on the chain: of a transfer that found no other    *)
(* attempt pending, its own.                                               *)

\* The part of SpendsWait about one transfer.
Waits(c) == c \notin Excused =>
  /\ calls[c].step \in {"commitment", "extra", "send"} => SpendsOf(c) = {}
  /\ At(c, "mining") => Attempt(c) \in notesSpent \/ WillPass(c)
  /\ At(c, "commit") => Attempt(c) \in notesSpent

LEMMA SpendsWaitIs == SpendsWait <=> \A c \in Transfers : Waits(c)
  BY DEF SpendsWait, Waits, Excused

\* A call that was in the mempool, or gets there, has sent.
Proceed == \A c \in Calls : calls'[c].step \in Unsent => calls[c].step \in Unsent

LEMMA SendersStay ==
  ASSUME LedgerType, SendersHaveSent, Sent' \subseteq Sent, Proceed, CallsType'
  PROVE  SendersHaveSent'
PROOF
  <1> SUFFICES ASSUME NEW sent \in Sent
               PROVE  calls'[sent.by].step \in {"mining", "commit", "answer", "done", "failed"}
    BY DEF SendersHaveSent
  <1>1. sent.by \in Calls
    BY SendersAreCalls DEF LedgerType
  <1>2. calls[sent.by].step \notin Unsent
    BY DEF SendersHaveSent, Unsent
  <1>3. calls'[sent.by].step \in TransferSteps \cup UploadSteps
    BY <1>1 DEF CallsType
  <1> QED BY <1>1, <1>2, <1>3 DEF Proceed, Unsent, TransferSteps, UploadSteps

LEMMA SpendsStay ==
  ASSUME NEW c \in Transfers, UNCHANGED contracts, Sent' = Sent
  PROVE  /\ SpendsOf(c)' = SpendsOf(c)
         /\ WillPass(c)' <=> WillPass(c)
  BY DEF SpendsOf, NotesOf, WillPass, Own, Spend, contracts

\* The chain is untouched, and every transfer keeps what it waits for.
LEMMA WaitsStays ==
  ASSUME NEW c \in Transfers, Waits(c), UNCHANGED contracts, Sent' = Sent,
         Excused \subseteq Excused',
         calls'[c] = calls[c] \/ calls'[c].step \notin {"commitment", "extra", "send", "mining", "commit"}
  PROVE  Waits(c)'
PROOF
  <1>1. SpendsOf(c)' = SpendsOf(c) /\ (WillPass(c)' <=> WillPass(c)) /\ UNCHANGED notesSpent
    BY SpendsStay DEF contracts
  <1> QED BY <1>1 DEF Waits, Excused, At, Attempt

\* The moment at which a transfer that finds another attempt pending is
\* marked.
LEMMA AnchorNullifierSpends ==
  ASSUME LedgerAssumption, LedgerInv, SpendingInv, NEW c \in Transfers, AnchorNullifier(c)
  PROVE  SpendingInv'
PROOF
  <1>1. /\ CallsType' /\ calls[c].step = "nullifier" /\ calls'[c].step = "commitment"
        /\ \A d \in Calls : d # c => calls'[d] = calls[d]
        /\ overlapped \subseteq overlapped'
    BY AnchorNullifierCalls DEF LedgerInv, LedgerType
  <1>2. /\ UNCHANGED <<rows, chain>>
        /\ hasty \subseteq hasty' /\ (Old[c] \in PendingSpends => c \in hasty')
    BY DEF AnchorNullifier, Haste, tables
  <1>3. Sent' = Sent /\ UNCHANGED contracts
    BY <1>2 DEF Sent, chain
  <1>4. SendersHaveSent'
    <2>1. Proceed
      BY <1>1 DEF Proceed, Unsent
    <2> QED BY <2>1, <1>1, <1>3, SendersStay DEF LedgerInv, SpendingInv
  <1>5. c \notin hasty' => SpendsOf(c) = {}
    BY <1>2 DEF SpendsOf, Sent, PendingSpends, Pending
  <1>6. Waits(c)'
    BY <1>1, <1>3, <1>5, SpendsStay DEF Waits, Excused, At
  <1>7. \A d \in Transfers : d # c => Waits(d)'
    BY <1>1, <1>2, <1>3, WaitsStays, SpendsWaitIs, Kinds DEF SpendingInv, Excused
  <1>8. SpendsWait'
    BY <1>6, <1>7 DEF SpendsWait, Waits, Excused
  <1>9. OwnAreOnChain'
    BY <1>1, <1>2, <1>3 DEF SpendingInv, OwnAreOnChain, Excused, contracts
  <1> QED BY <1>4, <1>8, <1>9 DEF SpendingInv

\* A transfer goes on anchoring: what it waits for is the same.
LEMMA AnchoringSpends ==
  ASSUME LedgerAssumption, LedgerInv, SpendingInv, NEW c \in Transfers, CallsType',
         calls[c].step \in {"commitment", "extra"}, calls'[c].step \in {"extra", "send", "failed"},
         \A d \in Calls : d # c => calls'[d] = calls[d],
         UNCHANGED <<rows, overlapped, hasty, chain>>
  PROVE  SpendingInv'
PROOF
  <1>1. Sent' = Sent /\ UNCHANGED contracts
    BY DEF Sent, chain
  <1>2. SendersHaveSent'
    <2>1. Proceed
      BY DEF Proceed, Unsent
    <2> QED BY <2>1, <1>1, SendersStay DEF LedgerInv, SpendingInv
  <1>3. Waits(c)'
    BY <1>1, SpendsStay, SpendsWaitIs DEF Waits, Excused, At, SpendingInv
  <1>4. \A d \in Transfers : d # c => Waits(d)'
    BY <1>1, WaitsStays, SpendsWaitIs, Kinds DEF SpendingInv, Excused
  <1>5. SpendsWait'
    BY <1>3, <1>4 DEF SpendsWait, Waits, Excused
  <1>6. OwnAreOnChain'
    BY <1>1 DEF SpendingInv, OwnAreOnChain, Excused, contracts
  <1> QED BY <1>2, <1>5, <1>6 DEF SpendingInv

\* Nobody else has sent a note of a transfer that is about to send alone.
LEMMA NoteIsNew ==
  ASSUME LedgerAssumption, LedgerInv, SendersHaveSent, NEW c \in Transfers,
         calls[c].step = "send", c \notin overlapped
  PROVE  NotesOf(c) = {}
PROOF
  <1> SUFFICES ASSUME NEW sent \in Sent, sent.tx.entry # "commitRoot", sent.tx.commitment = c
               PROVE  FALSE
    BY DEF NotesOf
  <1>1. sent.by \in Transfers
    BY SentIs DEF LedgerInv, LedgerType, RootTxs, CommitRoot
  <1>2. sent.tx = Spend(sent.by)
    BY <1>1 DEF LedgerInv, PairingInv, PairsAreCarried, Carries
  <1>3. sent.by = c
    BY <1>2 DEF Spend, CommitAndSpend
  <1> QED BY <1>3 DEF SendersHaveSent

LEMMA SendTxSpends ==
  ASSUME LedgerAssumption, LedgerInv, SpendingInv, NEW c \in Calls, SendTx(c)
  PROVE  SpendingInv'
PROOF
  <1> DEFINE tx == calls[c].tx
             new == [by |-> c, tx |-> calls[c].tx]
  <1>1. calls[c].step = "send" /\ MayPass(tx)
    BY DEF SendTx, At
  <1>2. /\ calls'[c].step = "mining" /\ calls'[c].tx = calls[c].tx
        /\ \A d \in Calls : d # c => calls'[d] = calls[d]
        /\ Sent' = Sent \cup {new}
        /\ UNCHANGED <<overlapped, hasty, contracts, rows>>
    BY <1>1, SendTxCalls, ReadyTx DEF LedgerInv, SendTx
  <1>3. new.by = c /\ new.tx = tx
    OBVIOUS
  <1>4. /\ c \in Transfers => tx \in NoteTxs /\ Carries(c, tx)
        /\ c \in Uploads => tx.entry = "commitRoot"
    BY <1>1, ReadyTx DEF LedgerInv, PairingInv, PairsAreCarried, RootTxs, CommitRoot
  <1>5. UNCHANGED <<nullifiers, commitments, notesSpent>>
    BY <1>2 DEF contracts
  <1>6. SendersHaveSent'
    <2> SUFFICES ASSUME NEW sent \in Sent'
                 PROVE  calls'[sent.by].step \in {"mining", "commit", "answer", "done", "failed"}
      BY DEF SendersHaveSent
    <2>1. CASE sent.by = c
      BY <2>1, <1>2
    <2>2. CASE sent.by # c
      <3>1. sent \in Sent /\ sent.by \in Calls
        BY <2>2, <1>2, <1>3, SendersAreCalls DEF LedgerInv, LedgerType
      <3> QED BY <2>2, <3>1, <1>2 DEF SpendingInv, SendersHaveSent
    <2> QED BY <2>1, <2>2
  <1>7. ASSUME c \in Transfers, c \notin Excused PROVE WillPass(c)'
    <2>1. tx = Spend(c)
      BY <1>4, <1>7 DEF Carries, Excused
    <2>2. SpendsOf(c) = {} /\ NotesOf(c) = {}
      BY <1>1, <1>7, NoteIsNew DEF SpendingInv, SpendsWait, Excused
    <2>3. Old[c] \notin nullifiers /\ c \notin commitments
      BY <1>1, <2>1 DEF MayPass, Accepts, Spend, CommitAndSpend
    <2>4. Own(c) = new
      BY <2>1 DEF Own
    <2> HIDE DEF new
    <2>5. SpendsOf(c)' \subseteq {new} /\ NotesOf(c)' \subseteq {new}
      BY <2>2, <1>2 DEF SpendsOf, NotesOf
    <2>6. Own(c)' = Own(c)
      BY DEF Own, Spend
    <2> QED BY <2>3, <2>4, <2>5, <2>6, <1>2, <1>5 DEF WillPass
  <1> HIDE DEF tx, new
  <1>8. ASSUME NEW d \in Transfers, d # c PROVE Waits(d)'
    <2>1. calls'[d] = calls[d] /\ Waits(d)
      BY <1>8, <1>2, Kinds, SpendsWaitIs DEF SpendingInv
    <2>2. CASE c \in Transfers
      <3>1. Anchors(d) => d \in overlapped
        BY <1>1, <1>8, <2>2 DEF LedgerInv, PairingInv, OverlapIsSeen, Anchors
      <3> QED BY <2>1, <3>1, <1>2, <1>5 DEF Waits, Excused, At, Anchors, Attempt
    <2>3. CASE c \in Uploads
      <3>1. SpendsOf(d)' = SpendsOf(d) /\ NotesOf(d)' = NotesOf(d)
        BY <1>2, <1>3, <1>4, <2>3 DEF SpendsOf, NotesOf
      <3>2. WillPass(d) => WillPass(d)'
        BY <3>1, <1>2, <1>5 DEF WillPass, Own, Spend
      <3> QED BY <2>1, <3>1, <3>2, <1>2, <1>5 DEF Waits, Excused, At, Attempt
    <2> QED BY <2>2, <2>3 DEF Calls
  <1>9. c \in Transfers => Waits(c)'
    BY <1>2, <1>7 DEF Waits, Excused, At
  <1>10. SpendsWait'
    BY <1>8, <1>9 DEF SpendsWait, Waits, Excused
  <1>11. OwnAreOnChain'
    BY <1>2, <1>5 DEF SpendingInv, OwnAreOnChain, Excused
  <1> QED BY <1>6, <1>10, <1>11 DEF SpendingInv

LEMMA ReceiveSpends ==
  ASSUME LedgerAssumption, LedgerInv, SpendingInv, NEW c \in Calls, Receive(c)
  PROVE  SpendingInv'
PROOF
  <1>1. /\ CallsType' /\ calls[c].step = "mining"
        /\ c \in Transfers => calls'[c].step = "commit"
        /\ c \in Uploads => calls'[c].step = "answer"
        /\ \A d \in Calls : d # c => calls'[d] = calls[d]
        /\ \A sent \in Sent : sent.by # c
    BY ReceiveCalls DEF LedgerInv, LedgerType
  <1>2. UNCHANGED <<rows, overlapped, hasty, chain>>
    BY DEF Receive, tables
  <1>3. Sent' = Sent /\ UNCHANGED contracts
    BY <1>2 DEF Sent, chain
  <1>4. SendersHaveSent'
    <2>1. Proceed
      BY <1>1 DEF Proceed, Unsent, Calls
    <2> QED BY <2>1, <1>1, <1>3, SendersStay DEF LedgerInv, SpendingInv
  <1>5. c \in Transfers => Waits(c)'
    <2> SUFFICES ASSUME c \in Transfers, c \notin Excused PROVE Attempt(c) \in notesSpent
      BY <1>1, <1>2, <1>3 DEF Waits, Excused, At, contracts, Attempt
    <2>1. Own(c) \notin Sent
      BY <1>1 DEF Own
    <2> QED BY <2>1, <1>1 DEF SpendingInv, SpendsWait, At, WillPass
  <1>6. \A d \in Transfers : d # c => Waits(d)'
    BY <1>1, <1>2, <1>3, WaitsStays, SpendsWaitIs, Kinds DEF SpendingInv, Excused
  <1>7. SpendsWait'
    BY <1>5, <1>6 DEF SpendsWait, Waits, Excused
  <1>8. OwnAreOnChain'
    BY <1>2, <1>3 DEF SpendingInv, OwnAreOnChain, Excused, contracts
  <1> QED BY <1>4, <1>7, <1>8 DEF SpendingInv

LEMMA MineSpends ==
  ASSUME LedgerAssumption, LedgerInv, SpendingInv, MineNext
  PROVE  SpendingInv'
PROOF
  <1> DEFINE head == Head(mempool)
             tx == head.tx
             event == [nf |-> tx.nf, commitment |-> tx.commitment]
  <1>1. /\ MempoolType' /\ head \in Sent /\ Sent' \subseteq Sent
        /\ \A sent \in Sent : sent # head => sent \in Sent'
        /\ Mine /\ UNCHANGED <<rows, overlapped, hasty, calls>>
    BY MineTakes DEF LedgerInv, LedgerType, MineNext, tables
  <1>2. \/ MayPass(tx) /\ SpendNote(tx)
        \/ MayPass(tx) /\ RecordNote(tx)
        \/ MayPass(tx) /\ RecordRoot(tx)
        \/ ~MayPass(tx) /\ UNCHANGED contracts
    BY <1>1, MineDoes DEF LedgerInv, LedgerType
  <1> HIDE DEF tx
  <1>3. event.nf = tx.nf /\ event.commitment = tx.commitment
    OBVIOUS
  <1> HIDE DEF event
  <1>4. notesSpent \subseteq notesSpent'
    BY <1>2 DEF SpendNote, RecordNote, RecordRoot, contracts
  <1>5. /\ \A n : n \in nullifiers' => n \in nullifiers \/ (tx.entry = "commitAndSpend" /\ tx.nf = n)
        /\ \A n : n \in commitments' => n \in commitments \/ (tx.entry # "commitRoot" /\ tx.commitment = n)
    BY <1>2 DEF SpendNote, RecordNote, RecordRoot, contracts
  <1>6. SendersHaveSent'
    BY <1>1 DEF SpendingInv, SendersHaveSent
  <1>7. ASSUME NEW c \in Transfers, WillPass(c) PROVE Attempt(c) \in notesSpent' \/ WillPass(c)'
    <2>1. CASE head = Own(c)
      <3>1. tx = Spend(c)
        BY <2>1 DEF tx, Own
      <3>2. tx.entry = "commitAndSpend" /\ tx.nf = Old[c] /\ tx.commitment = c
        BY <3>1 DEF Spend, CommitAndSpend
      <3>3. MayPass(tx)
        BY <3>2, <1>7 DEF WillPass, MayPass, Accepts
      <3>4. SpendNote(tx)
        BY <3>2, <3>3, <1>2 DEF RecordNote, RecordRoot
      <3> QED BY <3>2, <3>4 DEF SpendNote, Attempt
    <2>2. CASE head # Own(c)
      <3>1. head \notin SpendsOf(c) /\ head \notin NotesOf(c)
        BY <2>2, <1>7 DEF WillPass
      <3>2. /\ ~(tx.entry = "commitAndSpend" /\ tx.nf = Old[c])
            /\ ~(tx.entry # "commitRoot" /\ tx.commitment = c)
        BY <3>1, <1>1 DEF SpendsOf, NotesOf, tx
      <3>3. Old[c] \notin nullifiers' /\ c \notin commitments'
        BY <3>2, <1>5, <1>7 DEF WillPass
      <3>4. SpendsOf(c)' \subseteq SpendsOf(c) /\ NotesOf(c)' \subseteq NotesOf(c)
        BY <1>1 DEF SpendsOf, NotesOf
      <3>5. Own(c)' = Own(c)
        BY DEF Own, Spend
      <3>6. Own(c) \in Sent'
        BY <2>2, <1>1, <1>7 DEF WillPass
      <3> QED BY <3>3, <3>4, <3>5, <3>6, <1>7 DEF WillPass
    <2> QED BY <2>1, <2>2
  <1>8. ASSUME NEW c \in Transfers PROVE Waits(c)'
    <2>1. Waits(c)
      BY SpendsWaitIs DEF SpendingInv
    <2>2. SpendsOf(c)' \subseteq SpendsOf(c)
      BY <1>1 DEF SpendsOf
    <2>3. WillPass(c) => Attempt(c) \in notesSpent' \/ WillPass(c)'
      BY <1>7
    <2>4. Attempt(c)' = Attempt(c)
      BY DEF Attempt
    <2> QED BY <2>1, <2>2, <2>3, <2>4, <1>1, <1>4 DEF Waits, Excused, At
  <1>9. SpendsWait'
    BY <1>8 DEF SpendsWait, Waits, Excused
  <1>10. OwnAreOnChain'
    BY <1>1, <1>4 DEF SpendingInv, OwnAreOnChain, Excused
  <1> QED BY <1>6, <1>9, <1>10 DEF SpendingInv

\* The commit of the database, after the receipt.
LEMMA CommitRowsSpends ==
  ASSUME LedgerAssumption, LedgerInv, SpendingInv, NEW c \in Transfers, CommitRows(c)
  PROVE  SpendingInv'
PROOF
  <1> DEFINE row == [nf |-> Old[c], commitment |-> c]
  <1>1. CallsType' /\ CallsRetire
    BY CommitRowsRetires DEF LedgerInv, LedgerType
  <1>2. UNCHANGED <<overlapped, hasty, chain>> /\ rows' = rows \cup {row} /\ calls[c].step = "commit"
    BY DEF CommitRows, At
  <1>3. Sent' = Sent /\ UNCHANGED contracts
    BY <1>2 DEF Sent, chain
  <1>4. SendersHaveSent'
    <2>1. Proceed
      BY <1>1 DEF CallsRetire, Proceed
    <2> QED BY <2>1, <1>1, <1>3, SendersStay DEF LedgerInv, SpendingInv
  <1>5. \A d \in Transfers : Waits(d)'
    <2>1. \A d \in Transfers : Retires(d) /\ Waits(d)
      BY <1>1, Kinds, SpendsWaitIs DEF CallsRetire, SpendingInv
    <2> QED BY <2>1, <1>2, <1>3, WaitsStays DEF Retires, Retired, Excused
  <1>6. SpendsWait'
    BY <1>5 DEF SpendsWait, Waits, Excused
  <1>7. row.commitment = c /\ (c \notin Excused => row \in notesSpent)
    BY <1>2 DEF SpendingInv, SpendsWait, At, Attempt
  <1> HIDE DEF row
  <1>8. OwnAreOnChain'
    BY <1>2, <1>3, <1>7 DEF SpendingInv, OwnAreOnChain, Excused, contracts
  <1> QED BY <1>4, <1>6, <1>8 DEF SpendingInv

LEMMA SubmitRootSpends ==
  ASSUME LedgerAssumption, LedgerInv, SpendingInv, NEW c \in Uploads, SubmitRoot(c)
  PROVE  SpendingInv'
PROOF
  <1>1. /\ CallsType' /\ calls[c].step = "idle"
        /\ \A d \in Calls : d # c => calls'[d] = calls[d]
    BY SubmitRootCalls DEF LedgerInv, LedgerType, RootingInv, RootsAgree
  <1>2. UNCHANGED <<overlapped, hasty, chain, rows>>
    BY DEF SubmitRoot
  <1>3. Sent' = Sent /\ UNCHANGED contracts
    BY <1>2 DEF Sent, chain
  <1>4. SendersHaveSent'
    <2>1. Proceed
      BY <1>1 DEF Proceed, Unsent
    <2> QED BY <2>1, <1>1, <1>3, SendersStay DEF LedgerInv, SpendingInv
  <1>5. \A d \in Transfers : Waits(d)'
    BY <1>1, <1>2, <1>3, WaitsStays, SpendsWaitIs, Kinds DEF SpendingInv, Excused
  <1>6. SpendsWait'
    BY <1>5 DEF SpendsWait, Waits, Excused
  <1>7. OwnAreOnChain'
    BY <1>2, <1>3 DEF SpendingInv, OwnAreOnChain, Excused, contracts
  <1> QED BY <1>4, <1>6, <1>7 DEF SpendingInv

LEMMA InitSpends == LedgerAssumption /\ LedgerInit => SpendingInv
PROOF
  <1> SUFFICES ASSUME LedgerAssumption, LedgerInit PROVE SpendingInv
    OBVIOUS
  <1>1. mempool = <<>> /\ rows = {}
    BY DEF LedgerInit, ChainInit
  <1>2. Sent = {}
    BY <1>1 DEF Sent, ToSet
  <1>3. \A c \in Transfers : calls[c].step = "idle"
    BY Kinds DEF LedgerInit, Call
  <1> QED BY <1>1, <1>2, <1>3 DEF SpendingInv, SendersHaveSent, SpendsWait, OwnAreOnChain, At

LEMMA NextSpends ==
  LedgerAssumption /\ LedgerInv /\ SpendingInv /\ [LedgerNext]_ledger => SpendingInv'
PROOF
  <1> SUFFICES ASSUME LedgerAssumption, LedgerInv, SpendingInv, [LedgerNext]_ledger
               PROVE  SpendingInv'
    OBVIOUS
  <1>0. LedgerType /\ CallsType
    BY DEF LedgerInv, LedgerType
  <1>1. ASSUME NEW c \in Transfers, CheckNullifier(c) PROVE SpendingInv'
    BY <1>0, <1>1, CheckNullifierRetires, SpendingRetires DEF CheckNullifier, tables
  <1>2. ASSUME NEW c \in Transfers, WriteRows(c) PROVE SpendingInv'
    BY <1>0, <1>2, WriteRowsRetires, SpendingRetires DEF WriteRows, tables
  <1>3. ASSUME NEW c \in Transfers, AnchorNullifier(c) PROVE SpendingInv'
    BY <1>3, AnchorNullifierSpends
  <1>4. ASSUME NEW c \in Transfers, AnchorCommitment(c) PROVE SpendingInv'
    <2>1. /\ CallsType' /\ calls[c].step = "commitment" /\ calls'[c].step = "extra"
          /\ \A d \in Calls : d # c => calls'[d] = calls[d]
      BY <1>4, AnchorCommitmentPairs DEF LedgerInv, LedgerType
    <2> QED BY <2>1, <1>4, AnchoringSpends DEF AnchorCommitment, tables
  <1>5. ASSUME NEW c \in Transfers, AnchorExtra(c) PROVE SpendingInv'
    <2>1. /\ CallsType' /\ calls[c].step = "extra" /\ calls'[c].step \in {"send", "failed"}
          /\ \A d \in Calls : d # c => calls'[d] = calls[d]
      BY <1>0, <1>5, AnchorExtraCalls
    <2> QED BY <2>1, <1>5, AnchoringSpends DEF AnchorExtra, tables
  <1>6. ASSUME NEW c \in Transfers, CommitRows(c) PROVE SpendingInv'
    BY <1>6, CommitRowsSpends
  <1>7. ASSUME NEW c \in Uploads, SubmitNothing(c) PROVE SpendingInv'
    BY <1>0, <1>7, DoneRetires, Kinds, SpendingRetires DEF SubmitNothing, tables
  <1>8. ASSUME NEW c \in Uploads, SubmitRoot(c) PROVE SpendingInv'
    BY <1>8, SubmitRootSpends
  <1>18. ASSUME NEW c \in Uploads, RefuseRoot(c) PROVE SpendingInv'
    BY <1>0, <1>18, FailRetires, Kinds, SpendingRetires DEF RefuseRoot, tables
  <1>9. ASSUME NEW c \in Uploads, Answer(c) PROVE SpendingInv'
    BY <1>0, <1>9, DoneRetires, Kinds, SpendingRetires DEF Answer, tables
  <1>10. ASSUME NEW c \in Calls, SendTx(c) PROVE SpendingInv'
    BY <1>10, SendTxSpends
  <1>11. ASSUME NEW c \in Calls, RefuseTx(c) PROVE SpendingInv'
    BY <1>0, <1>11, FailRetires, SpendingRetires DEF RefuseTx, tables
  <1>12. ASSUME NEW c \in Calls, Receive(c) PROVE SpendingInv'
    BY <1>12, ReceiveSpends
  <1>13. ASSUME NEW c \in Calls, Abort(c) PROVE SpendingInv'
    BY <1>0, <1>13, FailRetires, SpendingRetires DEF Abort, tables
  <1>14. CASE Restart
    BY <1>0, <1>14, RestartRetires, SpendingRetires DEF Restart, tables
  <1>15. CASE MineNext
    BY <1>15, MineSpends
  <1>16. CASE UNCHANGED ledger
    <2>1. CallsRetire /\ UNCHANGED <<rows, overlapped, hasty, chain>>
      BY <1>16 DEF ledger, tables, CallsRetire, Retires
    <2> QED BY <1>0, <2>1, SpendingRetires
  <1>17. CASE LedgerNext
    BY <1>17, <1>1, <1>2, <1>3, <1>4, <1>5, <1>6, <1>7, <1>8, <1>9, <1>10, <1>11, <1>12, <1>13,
       <1>14, <1>15, <1>16, <1>18 DEF LedgerNext, TransferStep, UploadStep, LedgerIdle
  <1> QED BY <1>16, <1>17

LEMMA SpendingInvariant ==
  ASSUME LedgerAssumption, HashAssumption PROVE LedgerSpec => [](LedgerInv /\ SpendingInv)
PROOF
  <1>1. LedgerInit => LedgerInv /\ SpendingInv
    BY InitInv, InitSpends
  <1>2. (LedgerInv /\ SpendingInv) /\ [LedgerNext]_ledger => (LedgerInv /\ SpendingInv)'
    BY NextInv, NextSpends
  <1> QED BY <1>1, <1>2, PTL DEF LedgerSpec
-----------------------------------------------------------------------------
(* The note of a committed transfer is spent on the chain, by whichever    *)
(* attempt.                                                                *)

IsSpent(n) == \E e \in notesSpent : e.nf = n

\* The part of it about a transfer under way.
Tries(c) == c \notin overlapped =>
  /\ At(c, "mining") => Own(c) \in Sent \/ IsSpent(Old[c])
  /\ At(c, "commit") => IsSpent(Old[c])

RowsAreSpent == \A r \in rows : r.commitment \notin overlapped => IsSpent(r.nf)

TryingInv == /\ nullifiers \subseteq {e.nf : e \in notesSpent}
             /\ \A c \in Transfers : Tries(c)
             /\ RowsAreSpent

LEMMA TryingStays ==
  ASSUME TryingInv, overlapped \subseteq overlapped', UNCHANGED <<rows, chain>>,
         \A c \in Transfers : calls'[c].step \in {"mining", "commit"} => calls'[c] = calls[c]
  PROVE  TryingInv'
PROOF
  <1>1. Sent' = Sent /\ UNCHANGED <<nullifiers, notesSpent>>
    BY DEF Sent, chain, contracts
  <1>2. \A c \in Transfers : Tries(c)'
    BY <1>1 DEF TryingInv, Tries, At, IsSpent, Own, Spend
  <1> QED BY <1>1, <1>2 DEF TryingInv, RowsAreSpent, IsSpent

\* Steps of another kind of call, and of this one before it sends.
LEMMA TryingRetires ==
  ASSUME LedgerAssumption, TryingInv, CallsRetire, UNCHANGED <<rows, overlapped, chain>>
  PROVE  TryingInv'
  BY TryingStays, Kinds DEF CallsRetire, Retires, Retired

LEMMA SendTxTries ==
  ASSUME LedgerAssumption, LedgerInv, TryingInv, NEW c \in Calls, SendTx(c)
  PROVE  TryingInv'
PROOF
  <1> DEFINE new == [by |-> c, tx |-> calls[c].tx]
  <1>1. /\ calls[c].step = "send" /\ calls'[c].step = "mining"
        /\ \A d \in Calls : d # c => calls'[d] = calls[d]
        /\ Sent' = Sent \cup {new}
        /\ UNCHANGED <<overlapped, nullifiers, notesSpent, rows>>
    BY SendTxCalls, ReadyTx DEF LedgerInv, SendTx, At, contracts
  <1>2. c \in Transfers /\ c \notin overlapped => new = Own(c)
    BY <1>1 DEF LedgerInv, PairingInv, PairsAreCarried, Carries, Own
  <1> HIDE DEF new
  <1>3. ASSUME NEW d \in Transfers PROVE Tries(d)'
    <2>1. Own(d)' = Own(d) /\ (IsSpent(Old[d])' <=> IsSpent(Old[d])) /\ Tries(d)
      BY <1>1 DEF Own, Spend, IsSpent, TryingInv
    <2>2. CASE d = c
      BY <2>1, <2>2, <1>1, <1>2 DEF Tries, At
    <2>3. CASE d # c
      BY <2>1, <2>3, <1>1, Kinds DEF Tries, At
    <2> QED BY <2>2, <2>3
  <1> QED BY <1>1, <1>3 DEF TryingInv, RowsAreSpent, IsSpent

LEMMA ReceiveTries ==
  ASSUME LedgerAssumption, LedgerInv, TryingInv, NEW c \in Calls, Receive(c)
  PROVE  TryingInv'
PROOF
  <1>1. /\ calls[c].step = "mining" /\ calls'[c].step \in {"commit", "answer"}
        /\ \A d \in Calls : d # c => calls'[d] = calls[d]
        /\ \A sent \in Sent : sent.by # c
    BY ReceiveCalls DEF LedgerInv, LedgerType, Calls
  <1>2. UNCHANGED <<rows, overlapped, notesSpent, nullifiers>> /\ Sent' = Sent
    BY DEF Receive, tables, chain, contracts, Sent
  <1>3. ASSUME NEW d \in Transfers PROVE Tries(d)'
    <2>1. Own(d)' = Own(d) /\ (IsSpent(Old[d])' <=> IsSpent(Old[d])) /\ Tries(d)
      BY <1>2 DEF Own, Spend, IsSpent, TryingInv
    <2>2. CASE d = c
      <3>1. Own(c) \notin Sent
        BY <1>1 DEF Own
      <3> QED BY <3>1, <2>1, <2>2, <1>1, <1>2 DEF Tries, At
    <2>3. CASE d # c
      BY <2>1, <2>3, <1>1, <1>2, Kinds DEF Tries, At
    <2> QED BY <2>2, <2>3
  <1> QED BY <1>2, <1>3 DEF TryingInv, RowsAreSpent, IsSpent

LEMMA CommitRowsTries ==
  ASSUME LedgerAssumption, LedgerInv, TryingInv, NEW c \in Transfers, CommitRows(c)
  PROVE  TryingInv'
PROOF
  <1> DEFINE row == [nf |-> Old[c], commitment |-> c]
  <1>1. CallsRetire
    BY CommitRowsRetires DEF LedgerInv, LedgerType
  <1>2. /\ UNCHANGED <<overlapped, notesSpent, nullifiers>> /\ Sent' = Sent
        /\ rows' = rows \cup {row} /\ calls[c].step = "commit"
    BY DEF CommitRows, At, chain, contracts, Sent
  <1>3. row.nf = Old[c] /\ row.commitment = c
    OBVIOUS
  <1> HIDE DEF row
  <1>4. c \notin overlapped => IsSpent(Old[c])
    BY <1>2 DEF TryingInv, Tries, At
  <1>5. ASSUME NEW d \in Transfers PROVE Tries(d)'
    <2>1. Own(d)' = Own(d) /\ (IsSpent(Old[d])' <=> IsSpent(Old[d])) /\ Tries(d)
      BY <1>2 DEF Own, Spend, IsSpent, TryingInv
    <2>2. calls'[d] = calls[d] \/ calls'[d].step \notin {"mining", "commit"}
      BY <1>1, Kinds DEF CallsRetire, Retires, Retired
    <2> QED BY <2>1, <2>2, <1>2 DEF Tries, At
  <1> QED BY <1>2, <1>3, <1>4, <1>5 DEF TryingInv, RowsAreSpent, IsSpent

\* Whether the spend of a transfer is mined or reverts, its note is spent.
LEMMA MineTries ==
  ASSUME LedgerAssumption, LedgerInv, TryingInv, MineNext
  PROVE  TryingInv'
PROOF
  <1> DEFINE head == Head(mempool)
             tx == head.tx
             event == [nf |-> tx.nf, commitment |-> tx.commitment]
  <1>1. /\ head \in Sent
        /\ \A sent \in Sent : sent # head => sent \in Sent'
        /\ Mine /\ UNCHANGED <<rows, overlapped, calls>>
    BY MineTakes DEF LedgerInv, LedgerType, MineNext, tables
  <1>2. \/ MayPass(tx) /\ SpendNote(tx)
        \/ MayPass(tx) /\ RecordNote(tx)
        \/ MayPass(tx) /\ RecordRoot(tx)
        \/ ~MayPass(tx) /\ UNCHANGED contracts
    BY <1>1, MineDoes DEF LedgerInv, LedgerType
  <1> HIDE DEF tx
  <1>3. event.nf = tx.nf /\ event.commitment = tx.commitment
    OBVIOUS
  <1> HIDE DEF event
  <1>4. /\ notesSpent \subseteq notesSpent'
        /\ \/ UNCHANGED nullifiers
           \/ nullifiers' = nullifiers \cup {tx.nf} /\ event \in notesSpent'
    BY <1>2 DEF SpendNote, RecordNote, RecordRoot, contracts, event
  <1>5. nullifiers' \subseteq {e.nf : e \in notesSpent'}
    BY <1>3, <1>4 DEF TryingInv
  <1>6. \A n : IsSpent(n) => IsSpent(n)'
    BY <1>4 DEF IsSpent
  <1>7. ASSUME NEW c \in Transfers, c \notin overlapped, head = Own(c) PROVE IsSpent(Old[c])'
    <2>1. tx = Spend(c)
      BY <1>7 DEF tx, Own
    <2>2. tx.entry = "commitAndSpend" /\ tx.nf = Old[c] /\ tx.commitment = c
      BY <2>1 DEF Spend, CommitAndSpend
    <2>3. CASE MayPass(tx)
      <3>1. SpendNote(tx)
        BY <2>2, <2>3, <1>2 DEF RecordNote, RecordRoot
      <3>2. event \in notesSpent'
        BY <3>1 DEF SpendNote, event
      <3> QED BY <3>2, <2>2, <1>3 DEF IsSpent
    <2>4. CASE ~MayPass(tx)
      <3>1. Old[c] \in nullifiers \/ c \in commitments
        BY <2>2, <2>4 DEF MayPass, Accepts
      <3>2. c \in commitments => IsSpent(Old[c])
        BY <1>7 DEF LedgerInv, PairingInv, PairsStayTogether, IsSpent
      <3>3. Old[c] \in nullifiers => IsSpent(Old[c])
        BY DEF TryingInv, IsSpent
      <3> QED BY <3>1, <3>2, <3>3, <1>6
    <2> QED BY <2>3, <2>4
  <1>8. ASSUME NEW c \in Transfers PROVE Tries(c)'
    <2>1. Tries(c) /\ Own(c)' = Own(c)
      BY DEF TryingInv, Own, Spend
    <2> QED BY <2>1, <1>1, <1>6, <1>7 DEF Tries, At
  <1>9. RowsAreSpent'
    BY <1>1, <1>6 DEF TryingInv, RowsAreSpent
  <1> QED BY <1>5, <1>8, <1>9 DEF TryingInv

LEMMA InitTries == LedgerAssumption /\ LedgerInit => TryingInv
PROOF
  <1> SUFFICES ASSUME LedgerAssumption, LedgerInit PROVE TryingInv
    OBVIOUS
  <1>1. nullifiers = {} /\ rows = {}
    BY DEF LedgerInit, ChainInit
  <1>2. \A c \in Transfers : calls[c].step = "idle"
    BY Kinds DEF LedgerInit, Call
  <1> QED BY <1>1, <1>2 DEF TryingInv, Tries, RowsAreSpent, At

LEMMA NextTries == LedgerAssumption /\ LedgerInv /\ TryingInv /\ [LedgerNext]_ledger => TryingInv'
PROOF
  <1> SUFFICES ASSUME LedgerAssumption, LedgerInv, TryingInv, [LedgerNext]_ledger
               PROVE  TryingInv'
    OBVIOUS
  <1>0. LedgerType /\ CallsType
    BY DEF LedgerInv, LedgerType
  <1>1. ASSUME NEW c \in Transfers, CheckNullifier(c) PROVE TryingInv'
    BY <1>0, <1>1, CheckNullifierRetires, TryingRetires DEF CheckNullifier, tables
  <1>2. ASSUME NEW c \in Transfers, WriteRows(c) PROVE TryingInv'
    BY <1>0, <1>2, WriteRowsRetires, TryingRetires DEF WriteRows, tables
  <1>3. ASSUME NEW c \in Transfers, AnchorNullifier(c) PROVE TryingInv'
    <2>1. /\ calls'[c].step = "commitment" /\ overlapped \subseteq overlapped'
          /\ \A d \in Calls : d # c => calls'[d] = calls[d]
      BY <1>0, <1>3, AnchorNullifierCalls
    <2>2. UNCHANGED <<rows, chain>>
      BY <1>3 DEF AnchorNullifier, tables
    <2> QED BY <2>1, <2>2, TryingStays, Kinds
  <1>4. ASSUME NEW c \in Transfers, AnchorCommitment(c) PROVE TryingInv'
    <2>1. calls'[c].step = "extra" /\ \A d \in Calls : d # c => calls'[d] = calls[d]
      BY <1>0, <1>4, AnchorCommitmentPairs DEF LedgerInv
    <2>2. UNCHANGED <<rows, overlapped, chain>>
      BY <1>4 DEF AnchorCommitment, tables
    <2> QED BY <2>1, <2>2, TryingStays, Kinds
  <1>5. ASSUME NEW c \in Transfers, AnchorExtra(c) PROVE TryingInv'
    <2>1. calls'[c].step \in {"send", "failed"} /\ \A d \in Calls : d # c => calls'[d] = calls[d]
      BY <1>0, <1>5, AnchorExtraCalls
    <2>2. UNCHANGED <<rows, overlapped, chain>>
      BY <1>5 DEF AnchorExtra, tables
    <2> QED BY <2>1, <2>2, TryingStays, Kinds
  <1>6. ASSUME NEW c \in Transfers, CommitRows(c) PROVE TryingInv'
    BY <1>6, CommitRowsTries
  <1>7. ASSUME NEW c \in Uploads, SubmitNothing(c) PROVE TryingInv'
    BY <1>0, <1>7, DoneRetires, Kinds, TryingRetires DEF SubmitNothing, tables
  <1>8. ASSUME NEW c \in Uploads, SubmitRoot(c) PROVE TryingInv'
    <2>1. \A d \in Calls : d # c => calls'[d] = calls[d]
      BY <1>0, <1>8, SubmitRootCalls DEF LedgerInv, RootingInv, RootsAgree
    <2>2. UNCHANGED <<rows, overlapped, chain>>
      BY <1>8 DEF SubmitRoot
    <2> QED BY <2>1, <2>2, TryingStays, Kinds
  <1>9. ASSUME NEW c \in Uploads, RefuseRoot(c) PROVE TryingInv'
    BY <1>0, <1>9, FailRetires, Kinds, TryingRetires DEF RefuseRoot, tables
  <1>10. ASSUME NEW c \in Uploads, Answer(c) PROVE TryingInv'
    BY <1>0, <1>10, DoneRetires, Kinds, TryingRetires DEF Answer, tables
  <1>11. ASSUME NEW c \in Calls, SendTx(c) PROVE TryingInv'
    BY <1>11, SendTxTries
  <1>12. ASSUME NEW c \in Calls, RefuseTx(c) PROVE TryingInv'
    BY <1>0, <1>12, FailRetires, TryingRetires DEF RefuseTx, tables
  <1>13. ASSUME NEW c \in Calls, Receive(c) PROVE TryingInv'
    BY <1>13, ReceiveTries
  <1>14. ASSUME NEW c \in Calls, Abort(c) PROVE TryingInv'
    BY <1>0, <1>14, FailRetires, TryingRetires DEF Abort, tables
  <1>15. CASE Restart
    BY <1>0, <1>15, RestartRetires, TryingRetires DEF Restart, tables
  <1>16. CASE MineNext
    BY <1>16, MineTries
  <1>17. CASE UNCHANGED ledger
    <2>1. CallsRetire /\ UNCHANGED <<rows, overlapped, chain>>
      BY <1>17 DEF ledger, tables, CallsRetire, Retires
    <2> QED BY <2>1, TryingRetires
  <1>18. CASE LedgerNext
    BY <1>18, <1>1, <1>2, <1>3, <1>4, <1>5, <1>6, <1>7, <1>8, <1>9, <1>10, <1>11, <1>12, <1>13,
       <1>14, <1>15, <1>16, <1>17 DEF LedgerNext, TransferStep, UploadStep, LedgerIdle
  <1> QED BY <1>17, <1>18

\* A committed transfer that anchored while no other one did has its note
\* spent on the chain, whatever died, was repeated or reverted; and by its own
\* transaction unless another attempt was pending when it began to anchor.
THEOREM CommittedSpendsAreOnChain ==
  ASSUME LedgerAssumption, HashAssumption PROVE LedgerSpec => []CommittedIsOnChain
PROOF
  <1>1. LedgerInit => TryingInv
    BY InitTries
  <1>2. LedgerInv /\ TryingInv /\ [LedgerNext]_ledger => TryingInv'
    BY NextTries
  <1>3. OwnAreOnChain /\ RowsAreSpent => CommittedIsOnChain
    BY DEF OwnAreOnChain, RowsAreSpent, IsSpent, CommittedIsOnChain, Excused
  <1>4. SpendingInv => OwnAreOnChain
    BY DEF SpendingInv
  <1>5. TryingInv => RowsAreSpent
    BY DEF TryingInv
  <1>6. LedgerSpec => [](LedgerInv /\ SpendingInv)
    BY SpendingInvariant
  <1> QED BY <1>1, <1>2, <1>3, <1>4, <1>5, <1>6, PTL DEF LedgerSpec
-----------------------------------------------------------------------------
(* The outbox.                                                             *)

Given == 1..serial

QueueType ==
  /\ serial \in 0..MaxEvents
  /\ appended \in [Writers -> SUBSET Given]
  /\ waiting \subseteq Given /\ dispatched \subseteq Given
  /\ claimed \in [Dispatchers -> SUBSET Given]
  /\ given \in [Dispatchers -> SUBSET Given]
  /\ marked \in [Dispatchers -> SUBSET Given]
  /\ handedOn \in [Events -> Nat] /\ lost \in [Events -> Nat]

\* An event is with one writer, or waits, or is dispatched.
RowsAreApart ==
  /\ waiting \cap dispatched = {}
  /\ \A w \in Writers : appended[w] \cap (waiting \cup dispatched) = {}
  /\ \A v, w \in Writers : v # w => appended[v] \cap appended[w] = {}

\* A dispatcher marks what it has handed on, of what it has locked, which
\* waits; and no other one has locked it.
ClaimsAreApart ==
  /\ \A d \in Dispatchers : marked[d] \subseteq given[d] /\ given[d] \subseteq claimed[d]
  /\ \A d \in Dispatchers : claimed[d] \subseteq waiting
  /\ \A c, d \in Dispatchers : c # d => claimed[c] \cap claimed[d] = {}

\* The parts of DeliveriesAreCounted.
Holders(e) == {d \in Dispatchers : e \in given[d]}
Done(e) == IF e \in dispatched THEN 1 ELSE 0
IsCounted(e) == handedOn[e] = lost[e] + Cardinality(Holders(e)) + Done(e)
IsReal(e) == handedOn[e] > 0 => e \in waiting \cup dispatched

QueueInv == QueueType /\ RowsAreApart /\ ClaimsAreApart /\ \A e \in Events : IsCounted(e) /\ IsReal(e)

LEMMA GivenAreEvents == OutboxAssumption /\ QueueType => Given \subseteq Events
  BY DEF QueueType, Given, Events, OutboxAssumption

\* At most one dispatcher has handed an event on and not committed.
LEMMA HoldersAre ==
  ASSUME ClaimsAreApart, NEW e
  PROVE  /\ Holders(e) = {} => Cardinality(Holders(e)) = 0
         /\ \A d \in Dispatchers : e \in claimed[d] => Holders(e) = {} \/ Holders(e) = {d}
         /\ \A d \in Dispatchers : e \in given[d] =>
              Holders(e) = {d} /\ Cardinality(Holders(e)) = 1
         /\ Holders(e) = {} \/ (e \in waiting /\ Cardinality(Holders(e)) = 1)
PROOF
  <1>1. Holders(e) = {} => Cardinality(Holders(e)) = 0
    BY FS_EmptySet
  <1>2. ASSUME NEW d \in Dispatchers, e \in claimed[d]
        PROVE  Holders(e) = {} \/ Holders(e) = {d}
    BY <1>2 DEF Holders, ClaimsAreApart
  <1>3. ASSUME NEW d \in Dispatchers, e \in given[d]
        PROVE  Holders(e) = {d} /\ Cardinality(Holders(e)) = 1 /\ e \in waiting
    <2>1. Holders(e) = {d}
      BY <1>2, <1>3 DEF Holders, ClaimsAreApart
    <2> QED BY <2>1, <1>3, FS_Singleton DEF ClaimsAreApart
  <1>4. Holders(e) # {} => \E d \in Dispatchers : e \in given[d]
    BY DEF Holders
  <1> QED BY <1>1, <1>2, <1>3, <1>4

LEMMA QueueCounts == QueueInv => DeliveriesAreCounted
PROOF
  <1> SUFFICES ASSUME QueueInv
               PROVE  \A e \in Events :
                 /\ handedOn[e] = lost[e] + Cardinality({d \in Dispatchers : e \in given[d]})
                                          + (IF e \in dispatched THEN 1 ELSE 0)
                 /\ handedOn[e] <= lost[e] + 1
                 /\ handedOn[e] > 0 => e \in waiting \cup dispatched
    BY DEF DeliveriesAreCounted
  <1> TAKE e \in Events
  <1>1. Holders(e) = {} \/ (e \in waiting /\ Cardinality(Holders(e)) = 1)
    BY HoldersAre DEF QueueInv
  <1>2. Holders(e) = {} => Cardinality(Holders(e)) = 0
    BY HoldersAre DEF QueueInv
  <1>3. e \in waiting => Done(e) = 0
    BY DEF QueueInv, RowsAreApart, Done
  <1>4. handedOn[e] = lost[e] + Cardinality(Holders(e)) + Done(e)
    BY DEF QueueInv, IsCounted
  <1>5. handedOn[e] \in Nat /\ lost[e] \in Nat /\ Done(e) \in {0, 1}
    BY DEF QueueInv, QueueType, Done
  <1>6. handedOn[e] <= lost[e] + 1
    BY <1>1, <1>2, <1>3, <1>4, <1>5
  <1>7. handedOn[e] > 0 => e \in waiting \cup dispatched
    BY DEF QueueInv, IsReal
  <1> QED BY <1>4, <1>6, <1>7 DEF Holders, Done

LEMMA QueueInitInv == OutboxAssumption /\ QueueInit => QueueInv
PROOF
  <1> SUFFICES ASSUME OutboxAssumption, QueueInit PROVE QueueInv
    OBVIOUS
  <1>1. QueueType
    BY DEF OutboxAssumption, QueueInit, QueueType
  <1>2. RowsAreApart /\ ClaimsAreApart
    BY DEF QueueInit, RowsAreApart, ClaimsAreApart
  <1>3. \A e \in Events : Holders(e) = {} /\ Done(e) = 0 /\ handedOn[e] = 0 /\ lost[e] = 0
    BY DEF QueueInit, Holders, Done
  <1>4. \A e \in Events : Cardinality(Holders(e)) = 0
    BY <1>2, <1>3, HoldersAre
  <1> QED BY <1>1, <1>2, <1>3, <1>4 DEF QueueInv, IsCounted, IsReal

\* The counts stay where no delivery, mark or loss changes.
LEMMA CountsStay ==
  ASSUME NEW e \in Events, IsCounted(e), IsReal(e), UNCHANGED <<given, handedOn, lost, dispatched>>,
         waiting \subseteq waiting'
  PROVE  IsCounted(e)' /\ IsReal(e)'
PROOF
  <1>1. Holders(e)' = Holders(e) /\ Done(e)' = Done(e)
    BY DEF Holders, Done
  <1> QED BY <1>1 DEF IsCounted, IsReal

LEMMA AppendQueue ==
  ASSUME OutboxAssumption, QueueInv, NEW w \in Writers, AppendEvent(w)
  PROVE  QueueInv'
PROOF
  <1> USE DEF QueueInv
  <1>1. /\ serial < MaxEvents /\ serial' = serial + 1
        /\ appended' = [appended EXCEPT ![w] = appended[w] \cup {serial + 1}]
        /\ UNCHANGED <<waiting, dispatched, claimed, given, marked, handedOn, lost>>
    BY DEF AppendEvent
  <1>2. serial \in Nat /\ MaxEvents \in Nat
    BY DEF QueueType, OutboxAssumption
  <1>3. Given' = Given \cup {serial + 1} /\ serial + 1 \notin Given /\ serial' \in 0..MaxEvents
    BY <1>1, <1>2 DEF Given
  <1> HIDE DEF Given
  <1>4. appended \in [Writers -> SUBSET Given]
    BY DEF QueueType
  <1> DEFINE new == serial + 1
  <1> HIDE DEF new
  <1>5. /\ appended' \in [Writers -> SUBSET Given']
        /\ appended'[w] = appended[w] \cup {new}
        /\ \A v \in Writers : v # w => appended'[v] = appended[v]
    BY <1>1, <1>3, <1>4 DEF new
  <1>6. QueueType'
    BY <1>1, <1>3, <1>5 DEF QueueType
  <1>7. new \notin waiting \cup dispatched /\ \A v \in Writers : new \notin appended[v]
    BY <1>3, <1>4 DEF QueueType, new
  <1>8. RowsAreApart'
    BY <1>1, <1>5, <1>7 DEF RowsAreApart
  <1>9. ClaimsAreApart'
    BY <1>1 DEF ClaimsAreApart
  <1>10. \A e \in Events : IsCounted(e)' /\ IsReal(e)'
    BY <1>1, CountsStay
  <1> QED BY <1>6, <1>8, <1>9, <1>10

LEMMA CloseQueue ==
  ASSUME QueueInv, NEW w \in Writers, NEW visible \in SUBSET appended[w], Close(w, visible)
  PROVE  QueueInv'
PROOF
  <1> USE DEF QueueInv
  <1>1. /\ waiting' = waiting \cup visible
        /\ appended' = [appended EXCEPT ![w] = {}]
        /\ UNCHANGED <<serial, dispatched, claimed, given, marked, handedOn, lost>>
    BY DEF Close
  <1>2. appended \in [Writers -> SUBSET Given] /\ Given' = Given
    BY <1>1 DEF QueueType, Given
  <1>3. /\ appended' \in [Writers -> SUBSET Given]
        /\ appended'[w] = {}
        /\ \A v \in Writers : v # w => appended'[v] = appended[v]
    BY <1>1, <1>2
  <1>4. QueueType'
    BY <1>1, <1>2, <1>3 DEF QueueType
  <1>5. RowsAreApart'
    BY <1>1, <1>3 DEF RowsAreApart
  <1>6. ClaimsAreApart'
    BY <1>1 DEF ClaimsAreApart
  <1>7. \A e \in Events : IsCounted(e)' /\ IsReal(e)'
    BY <1>1, CountsStay
  <1> QED BY <1>4, <1>5, <1>6, <1>7

LEMMA ClaimQueue ==
  ASSUME QueueInv, NEW d \in Dispatchers, Claim(d)
  PROVE  QueueInv'
PROOF
  <1> USE DEF QueueInv
  <1>1. /\ claimed[d] = {} /\ claimed' = [claimed EXCEPT ![d] = PendingEvents]
        /\ UNCHANGED <<serial, appended, waiting, dispatched, given, marked, handedOn, lost>>
    BY DEF Claim
  <1>2. claimed \in [Dispatchers -> SUBSET Given] /\ Given' = Given /\ waiting \subseteq Given
    BY <1>1 DEF QueueType, Given
  <1>3. PendingEvents \subseteq waiting \ Locked
    BY DEF PendingEvents, Oldest
  <1>4. \A c \in Dispatchers : claimed[c] \subseteq Locked
    BY DEF Locked
  <1>5. /\ claimed' \in [Dispatchers -> SUBSET Given]
        /\ claimed'[d] = PendingEvents
        /\ \A c \in Dispatchers : c # d => claimed'[c] = claimed[c]
    BY <1>1, <1>2, <1>3
  <1>6. QueueType'
    BY <1>1, <1>2, <1>5 DEF QueueType
  <1>7. RowsAreApart'
    BY <1>1 DEF RowsAreApart
  <1>8. ClaimsAreApart'
    BY <1>1, <1>3, <1>4, <1>5 DEF ClaimsAreApart
  <1>9. \A e \in Events : IsCounted(e)' /\ IsReal(e)'
    BY <1>1, CountsStay
  <1> QED BY <1>6, <1>7, <1>8, <1>9

LEMMA HandOnQueue ==
  ASSUME OutboxAssumption, QueueInv, NEW d \in Dispatchers, HandOn(d)
  PROVE  QueueInv'
PROOF
  <1> USE DEF QueueInv
  <1>1. PICK e \in claimed[d] \ given[d] :
          /\ handedOn' = [handedOn EXCEPT ![e] = handedOn[e] + 1]
          /\ given' = [given EXCEPT ![d] = given[d] \cup {e}]
          /\ UNCHANGED <<serial, appended, waiting, dispatched, claimed, marked, lost>>
    BY DEF HandOn
  <1>2. e \in waiting /\ e \in Given /\ e \in Events
    BY GivenAreEvents DEF ClaimsAreApart, QueueType
  <1>3. Given' = Given /\ given \in [Dispatchers -> SUBSET Given] /\ handedOn \in [Events -> Nat]
    BY <1>1 DEF Given, QueueType
  <1>4. /\ given' \in [Dispatchers -> SUBSET Given]
        /\ given'[d] = given[d] \cup {e}
        /\ \A c \in Dispatchers : c # d => given'[c] = given[c]
    BY <1>1, <1>2, <1>3
  <1>5. /\ handedOn' \in [Events -> Nat]
        /\ handedOn'[e] = handedOn[e] + 1
        /\ \A o \in Events : o # e => handedOn'[o] = handedOn[o]
    BY <1>1, <1>2, <1>3
  <1>6. QueueType'
    BY <1>1, <1>3, <1>4, <1>5 DEF QueueType
  <1>7. RowsAreApart'
    BY <1>1 DEF RowsAreApart
  <1>8. ClaimsAreApart'
    BY <1>1, <1>4 DEF ClaimsAreApart
  <1>9. Holders(e) = {} /\ Cardinality(Holders(e)) = 0
    <2>1. Holders(e) = {} \/ Holders(e) = {d}
      BY HoldersAre
    <2>2. d \notin Holders(e)
      BY DEF Holders
    <2> QED BY <2>1, <2>2, HoldersAre
  <1>10. Holders(e)' = {d}
    BY <1>4, <1>9 DEF Holders
  <1>11. Cardinality(Holders(e)') = 1
    BY <1>10, FS_Singleton
  <1>12. IsCounted(e)' /\ IsReal(e)'
    <2>1. Done(e)' = Done(e) /\ Done(e) = 0 /\ lost[e] \in Nat /\ handedOn[e] \in Nat
      BY <1>1, <1>2 DEF Done, RowsAreApart, QueueType
    <2>2. handedOn[e] = lost[e] + 0 + Done(e)
      BY <1>2, <1>9 DEF IsCounted
    <2>3. handedOn'[e] = lost'[e] + 1 + Done(e)'
      BY <2>1, <2>2, <1>1, <1>5
    <2> QED BY <2>3, <1>11, <1>1, <1>2 DEF IsCounted, IsReal
  <1>13. ASSUME NEW o \in Events, o # e PROVE IsCounted(o)' /\ IsReal(o)'
    <2>1. Holders(o)' = Holders(o) /\ Done(o)' = Done(o)
      BY <1>1, <1>4, <1>13 DEF Holders, Done
    <2> QED BY <2>1, <1>1, <1>5, <1>13 DEF IsCounted, IsReal
  <1> QED BY <1>6, <1>7, <1>8, <1>12, <1>13

LEMMA MarkQueue ==
  ASSUME QueueInv, NEW d \in Dispatchers, MarkDispatched(d)
  PROVE  QueueInv'
PROOF
  <1> USE DEF QueueInv
  <1>1. /\ marked' = [marked EXCEPT ![d] = given[d]]
        /\ UNCHANGED <<serial, appended, waiting, dispatched, claimed, given, handedOn, lost>>
    BY DEF MarkDispatched
  <1>2. /\ Given' = Given /\ marked \in [Dispatchers -> SUBSET Given]
        /\ given \in [Dispatchers -> SUBSET Given]
    BY <1>1 DEF Given, QueueType
  <1>3. /\ marked' \in [Dispatchers -> SUBSET Given]
        /\ marked'[d] = given[d]
        /\ \A c \in Dispatchers : c # d => marked'[c] = marked[c]
    BY <1>1, <1>2
  <1>4. QueueType'
    BY <1>1, <1>2, <1>3 DEF QueueType
  <1>5. RowsAreApart' /\ ClaimsAreApart'
    BY <1>1, <1>3 DEF RowsAreApart, ClaimsAreApart
  <1>6. \A e \in Events : IsCounted(e)' /\ IsReal(e)'
    BY <1>1, CountsStay
  <1> QED BY <1>4, <1>5, <1>6

LEMMA ReleaseGives ==
  ASSUME QueueType, NEW d \in Dispatchers, Release(d), UNCHANGED serial
  PROVE  /\ Given' = Given
         /\ claimed' \in [Dispatchers -> SUBSET Given] /\ claimed'[d] = {}
         /\ given' \in [Dispatchers -> SUBSET Given] /\ given'[d] = {}
         /\ marked' \in [Dispatchers -> SUBSET Given] /\ marked'[d] = {}
         /\ \A c \in Dispatchers : c # d =>
              claimed'[c] = claimed[c] /\ given'[c] = given[c] /\ marked'[c] = marked[c]
  BY DEF Release, QueueType, Given

LEMMA CommitMarksQueue ==
  ASSUME OutboxAssumption, QueueInv, NEW d \in Dispatchers, CommitMarks(d)
  PROVE  QueueInv'
PROOF
  <1> USE DEF QueueInv
  <1>1. /\ given[d] = marked[d] /\ Release(d)
        /\ waiting' = waiting \ given[d] /\ dispatched' = dispatched \cup given[d]
        /\ UNCHANGED <<serial, appended, handedOn, lost>>
    BY DEF CommitMarks
  <1>2. /\ Given' = Given
        /\ claimed' \in [Dispatchers -> SUBSET Given] /\ claimed'[d] = {}
        /\ given' \in [Dispatchers -> SUBSET Given] /\ given'[d] = {}
        /\ marked' \in [Dispatchers -> SUBSET Given] /\ marked'[d] = {}
        /\ \A c \in Dispatchers : c # d =>
             claimed'[c] = claimed[c] /\ given'[c] = given[c] /\ marked'[c] = marked[c]
    BY <1>1, ReleaseGives
  <1>3. given[d] \subseteq claimed[d] /\ claimed[d] \subseteq waiting /\ given[d] \subseteq Given
    BY DEF ClaimsAreApart, QueueType
  <1>4. QueueType'
    BY <1>1, <1>2, <1>3 DEF QueueType
  <1>5. RowsAreApart'
    BY <1>1, <1>3 DEF RowsAreApart
  <1>6. \A c \in Dispatchers : c # d => claimed[c] \cap given[d] = {}
    BY <1>3 DEF ClaimsAreApart
  <1>7. ClaimsAreApart'
    BY <1>1, <1>2, <1>6 DEF ClaimsAreApart
  <1>8. ASSUME NEW e \in Events PROVE IsCounted(e)' /\ IsReal(e)'
    <2>1. CASE e \in given[d]
      <3>1. Holders(e) = {d} /\ Cardinality(Holders(e)) = 1
        BY <2>1, HoldersAre
      <3>2. Holders(e)' = {}
        BY <3>1, <1>2 DEF Holders
      <3>3. Cardinality(Holders(e)') = 0
        BY <3>2, FS_EmptySet
      <3>4. Done(e) = 0 /\ Done(e)' = 1
        BY <2>1, <1>1, <1>3 DEF Done, RowsAreApart
      <3>5. handedOn[e] = lost[e] + 1 + 0
        BY <3>1, <3>4 DEF IsCounted
      <3>6. lost[e] \in Nat /\ e \in dispatched'
        BY <2>1, <1>1 DEF QueueType
      <3>7. handedOn'[e] = lost'[e] + 0 + 1
        BY <3>5, <3>6, <1>1
      <3> QED BY <3>3, <3>4, <3>6, <3>7 DEF IsCounted, IsReal
    <2>2. CASE e \notin given[d]
      <3>1. Holders(e)' = Holders(e) /\ Done(e)' = Done(e)
        BY <2>2, <1>1, <1>2 DEF Holders, Done
      <3> QED BY <2>2, <3>1, <1>1 DEF IsCounted, IsReal
    <2> QED BY <2>1, <2>2
  <1> QED BY <1>4, <1>5, <1>7, <1>8

LEMMA StopQueue ==
  ASSUME OutboxAssumption, QueueInv, NEW d \in Dispatchers, Stop(d)
  PROVE  QueueInv'
PROOF
  <1> USE DEF QueueInv
  <1>1. /\ lost' = [e \in Events |-> IF e \in given[d] THEN lost[e] + 1 ELSE lost[e]]
        /\ Release(d) /\ UNCHANGED <<serial, appended, waiting, dispatched, handedOn>>
    BY DEF Stop
  <1>2. /\ Given' = Given
        /\ claimed' \in [Dispatchers -> SUBSET Given] /\ claimed'[d] = {}
        /\ given' \in [Dispatchers -> SUBSET Given] /\ given'[d] = {}
        /\ marked' \in [Dispatchers -> SUBSET Given] /\ marked'[d] = {}
        /\ \A c \in Dispatchers : c # d =>
             claimed'[c] = claimed[c] /\ given'[c] = given[c] /\ marked'[c] = marked[c]
    BY <1>1, ReleaseGives
  <1>3. lost \in [Events -> Nat]
    BY DEF QueueType
  <1>4. /\ lost' \in [Events -> Nat]
        /\ \A e \in Events : lost'[e] = IF e \in given[d] THEN lost[e] + 1 ELSE lost[e]
    BY <1>1, <1>3
  <1>5. QueueType'
    BY <1>1, <1>2, <1>4 DEF QueueType
  <1>6. RowsAreApart'
    BY <1>1 DEF RowsAreApart
  <1>7. ClaimsAreApart'
    BY <1>1, <1>2 DEF ClaimsAreApart
  <1>8. ASSUME NEW e \in Events PROVE IsCounted(e)' /\ IsReal(e)'
    <2>0. Done(e)' = Done(e) /\ Done(e) \in {0, 1}
      BY <1>1 DEF Done
    <2>1. CASE e \in given[d]
      <3>1. Holders(e) = {d} /\ Cardinality(Holders(e)) = 1
        BY <2>1, HoldersAre
      <3>2. Holders(e)' = {}
        BY <3>1, <1>2 DEF Holders
      <3>3. Cardinality(Holders(e)') = 0
        BY <3>2, FS_EmptySet
      <3>4. handedOn[e] = lost[e] + 1 + Done(e) /\ lost'[e] = lost[e] + 1 /\ lost[e] \in Nat
        BY <3>1, <1>3, <1>4, <2>1 DEF IsCounted
      <3>5. handedOn'[e] = lost'[e] + 0 + Done(e)'
        BY <3>4, <2>0, <1>1
      <3> QED BY <3>3, <3>5, <1>1 DEF IsCounted, IsReal
    <2>2. CASE e \notin given[d]
      <3>1. Holders(e)' = Holders(e) /\ lost'[e] = lost[e]
        BY <2>2, <1>2, <1>4 DEF Holders
      <3> QED BY <2>0, <3>1, <1>1 DEF IsCounted, IsReal
    <2> QED BY <2>1, <2>2
  <1> QED BY <1>5, <1>6, <1>7, <1>8

LEMMA QueueNextInv == OutboxAssumption /\ QueueInv /\ [QueueNext]_outbox => QueueInv'
PROOF
  <1> SUFFICES ASSUME OutboxAssumption, QueueInv, [QueueNext]_outbox PROVE QueueInv'
    OBVIOUS
  <1>1. ASSUME NEW w \in Writers, AppendEvent(w) \/ Commit(w) \/ Rollback(w) PROVE QueueInv'
    BY <1>1, AppendQueue, CloseQueue DEF Commit, Rollback
  <1>2. ASSUME NEW d \in Dispatchers,
               Claim(d) \/ HandOn(d) \/ MarkDispatched(d) \/ CommitMarks(d) \/ Stop(d)
        PROVE  QueueInv'
    BY <1>2, ClaimQueue, HandOnQueue, MarkQueue, CommitMarksQueue, StopQueue
  <1>3. CASE UNCHANGED outbox
    <2>1. UNCHANGED <<serial, appended, waiting, dispatched, claimed, given, marked, handedOn, lost>>
      BY <1>3 DEF outbox
    <2>2. QueueType' /\ RowsAreApart' /\ ClaimsAreApart'
      BY <2>1 DEF QueueInv, QueueType, Given, RowsAreApart, ClaimsAreApart
    <2>3. \A e \in Events : IsCounted(e)' /\ IsReal(e)'
      BY <2>1, CountsStay DEF QueueInv
    <2> QED BY <2>2, <2>3 DEF QueueInv
  <1> QED BY <1>1, <1>2, <1>3 DEF QueueNext

\* However many writers roll back and dispatchers stop: every delivery of an
\* event is accounted for by its mark, by the one dispatcher that has still to
\* commit it, or by one that stopped.
THEOREM EveryDeliveryIsCounted == ASSUME OutboxAssumption PROVE QueueSpec => []DeliveriesAreCounted
PROOF
  <1>1. QueueInit => QueueInv
    BY QueueInitInv
  <1>2. QueueInv /\ [QueueNext]_outbox => QueueInv'
    BY QueueNextInv
  <1>3. QueueInv => DeliveriesAreCounted
    BY QueueCounts
  <1> QED BY <1>1, <1>2, <1>3, PTL DEF QueueSpec

-----------------------------------------------------------------------------
(* The contracts.                                                          *)

\* A DID that has a controller is the DID of that account.
PeopleInv ==
  /\ identities \in [Accounts -> [did : Dids \cup {Zero}, active : BOOLEAN]]
  /\ controllerOf \in [Dids -> Accounts \cup {Zero}]
  /\ credentials \in [Credentials -> [status : {"NONE", "ACTIVE", "REVOKED"}, expiresAt : Nat]]
  /\ \A d \in Dids : controllerOf[d] # Zero => d # Zero /\ identities[controllerOf[d]].did = d

GoodsInv == ownershipOf \in [Assets -> [owner : Dids \cup {Zero}, transfers : Nat, c2c : Nat]]

StockInv == DOMAIN batches = Batches

\* What a registry holds under an id other than zero is empty or carries that id.
JudgementInv ==
  /\ now \in Nat /\ now > 0
  /\ policies \in [Policies -> [policyId : Policies \cup {Zero}, effectiveAt : Nat,
                                expiresAt : Nat, active : BOOLEAN]]
  /\ proofs \in [Proofs -> [proofId : Proofs \cup {Zero}, verified : BOOLEAN]]
  /\ results \in [Results -> [policyId : Policies \cup {Zero}, proofId : Proofs \cup {Zero},
                              checkedAt : Nat, by : Accounts \cup {Zero}]]
  /\ \A p \in Policies : policies[p] = NoPolicy \/ policies[p].policyId = p
  /\ \A p \in Proofs : proofs[p] = NoProof \/ proofs[p].proofId = p
  /\ \A r \in Results : results[r] = NoResult \/
       (results[r].checkedAt > 0 /\ results[r].policyId \in Policies /\ results[r].proofId \in Proofs)

ContractsInv == PeopleInv /\ GoodsInv /\ StockInv /\ JudgementInv /\ ResultsStayProven
-----------------------------------------------------------------------------
LEMMA ContractsInit == Init => ContractsInv
<1> SUFFICES ASSUME Init PROVE ContractsInv
  OBVIOUS
<1>1. PeopleInv
  BY DEF Init, PeopleInv
<1>2. GoodsInv
  BY DEF Init, GoodsInv, NoOwner
<1>3. StockInv
  BY DEF Init, StockInit, StockInv
<1>4. JudgementInv
  BY DEF Init, JudgementInit, JudgementInv, NoPolicy, NoProof, NoResult
<1>5. ResultsStayProven
  BY DEF Init, JudgementInit, ResultsStayProven, NoResult
<1> QED
  BY <1>1, <1>2, <1>3, <1>4, <1>5 DEF ContractsInv

LEMMA PeopleStep ==
  ASSUME PeopleInv, NEW a \in Senders, People(a)
  PROVE PeopleInv' /\ PeopleStand
<1>1. ASSUME NEW account \in Accounts, NEW did \in Dids, RegisterIdentity(a, account, did)
      PROVE PeopleInv' /\ PeopleStand
  <2> DEFINE record == [did |-> did, active |-> TRUE]
  <2>1. /\ identities' = [identities EXCEPT ![account] = record]
        /\ controllerOf' = [controllerOf EXCEPT ![did] = account]
        /\ credentials' = credentials
        /\ did # Zero /\ identities[account].did = Zero /\ controllerOf[did] = Zero
    BY <1>1 DEF RegisterIdentity
  <2>2. record \in [did : Dids \cup {Zero}, active : BOOLEAN] /\ record.did = did
    OBVIOUS
  <2> HIDE DEF record
  <2>3. account # Zero
    BY ContractsAssumption
  <2>4. ASSUME NEW d \in Dids, controllerOf[d] # Zero
        PROVE d # did /\ controllerOf[d] # account
    BY <2>1, <2>4 DEF PeopleInv
  <2>5. ASSUME NEW d \in Dids, controllerOf[d] # Zero
        PROVE /\ controllerOf'[d] = controllerOf[d]
              /\ identities'[controllerOf[d]].did = d
    BY <2>1, <2>4, <2>5 DEF PeopleInv
  <2>6. PeopleInv'
    BY <2>1, <2>2, <2>3, <2>5 DEF PeopleInv
  <2> QED
    BY <2>1, <2>5, <2>6 DEF PeopleStand
<1>2. ASSUME NEW account \in Accounts, NEW active \in BOOLEAN, SetActive(a, account, active)
      PROVE PeopleInv' /\ PeopleStand
  BY <1>2, PeopleInv, ContractsAssumption DEF PeopleInv, SetActive, PeopleStand
<1>3. ASSUME Pause PROVE PeopleInv' /\ PeopleStand
  BY <1>3, PeopleInv DEF PeopleInv, Pause, PeopleStand
<1>4. ASSUME NEW c \in Credentials, NEW until \in Times, Issue(a, c, until)
      PROVE PeopleInv' /\ PeopleStand
  BY <1>4, PeopleInv, ContractsAssumption DEF PeopleInv, Issue, PeopleStand
<1>5. ASSUME NEW c \in Credentials, Revoke(a, c) PROVE PeopleInv' /\ PeopleStand
  BY <1>5, PeopleInv DEF PeopleInv, Revoke, PeopleStand
<1> QED
  BY <1>1, <1>2, <1>3, <1>4, <1>5, People(a) DEF People

LEMMA MoveStep ==
  ASSUME GoodsInv, NEW a, NEW asset \in Assets, NEW did \in Dids, NEW c2c \in BOOLEAN,
         MoveOwnership(a, asset, did, c2c)
  PROVE GoodsInv' /\ GoodsStand
<1> DEFINE before == ownershipOf[asset]
           after == [owner |-> did, transfers |-> before.transfers + 1,
                     c2c |-> before.c2c + (IF c2c THEN 1 ELSE 0)]
<1>1. ownershipOf' = [ownershipOf EXCEPT ![asset] = after]
  BY DEF MoveOwnership
<1>2. before.transfers \in Nat /\ before.c2c \in Nat
  BY DEF GoodsInv
<1>3. after \in [owner : Dids \cup {Zero}, transfers : Nat, c2c : Nat]
  BY <1>2
<1>4. after.owner = did /\ after.transfers = before.transfers + 1
  OBVIOUS
<1>5. did # Zero /\ did # before.owner
  BY DEF MoveOwnership
<1> HIDE DEF before, after
<1>6. GoodsInv'
  BY <1>1, <1>3, GoodsInv DEF GoodsInv
<1>7. ASSUME NEW x \in Assets, ownershipOf[x].owner # Zero
      PROVE /\ ownershipOf'[x].owner # Zero
            /\ ownershipOf'[x].transfers = IF ownershipOf'[x].owner = ownershipOf[x].owner
                                           THEN ownershipOf[x].transfers
                                           ELSE ownershipOf[x].transfers + 1
  <2>1. CASE x = asset
    <3>1. ownershipOf'[x] = after
      BY <1>1, <2>1 DEF GoodsInv
    <3> QED
      BY <3>1, <2>1, <1>4, <1>5 DEF before
  <2>2. CASE x # asset
    <3>1. ownershipOf'[x] = ownershipOf[x]
      BY <1>1, <2>2 DEF GoodsInv
    <3> QED
      BY <3>1, <1>7
  <2> QED
    BY <2>1, <2>2
<1> QED
  BY <1>6, <1>7 DEF GoodsStand

LEMMA GoodsStep ==
  ASSUME GoodsInv, NEW a \in Senders, Goods(a)
  PROVE GoodsInv' /\ GoodsStand
<1>1. ASSUME ownershipOf' = ownershipOf PROVE GoodsInv' /\ GoodsStand
  BY <1>1, GoodsInv DEF GoodsInv, GoodsStand
<1>2. ASSUME NEW asset \in Assets, NEW did \in Dids, InitializeOwner(a, asset, did)
      PROVE GoodsInv' /\ GoodsStand
  BY <1>2, GoodsInv DEF GoodsInv, GoodsStand, InitializeOwner, NoOwner
<1>3. ASSUME NEW asset \in Assets, NEW did \in Dids, NEW c2c \in BOOLEAN,
             Transfer(a, asset, did, c2c) \/ ExecuteTransfer(a, asset, did, c2c)
      PROVE GoodsInv' /\ GoodsStand
  BY <1>3, GoodsInv, MoveStep DEF Transfer, ExecuteTransfer
<1> QED
  BY <1>1, <1>2, <1>3, Goods(a) DEF Goods, RegisterProductType, CreateAsset

LEMMA StockStep ==
  ASSUME StockInv, NEW a \in Senders, Stock(a)
  PROVE StockInv' /\ StockStands
<1>1. ASSUME NEW b \in Batches, NEW t \in Types, NEW q \in Quantities, CreateBatch(a, b, t, q)
      PROVE StockInv' /\ StockStands
  BY <1>1, StockInv DEF StockInv, StockStands, CreateBatch, Exists
<1>2. ASSUME NEW p \in Batches, NEW ids \in SomeIds, NEW qs, SplitBatch(a, p, ids, qs)
      PROVE StockInv' /\ StockStands
  <2>1. batches' = [Written(p, ids, qs) EXCEPT ![p].active = FALSE]
    BY <1>2 DEF SplitBatch
  <2>2. DOMAIN Written(p, ids, qs) = Batches
    BY DEF Written
  <2>3. ASSUME NEW b \in Batches, Exists(b) PROVE Written(p, ids, qs)[b] = batches[b]
    <3>1. b \notin ToSet(ids)
      BY <1>2, <2>3 DEF SplitBatch, ToSet
    <3> QED
      BY <3>1 DEF Written
  <2> QED
    BY <2>1, <2>2, <2>3 DEF StockInv, StockStands, Spent
<1>3. ASSUME NEW ps \in SomeIds, NEW child \in Batches, NEW q, MergeBatches(a, ps, child, q)
      PROVE StockInv' /\ StockStands
  BY <1>3, StockInv DEF StockInv, StockStands, MergeBatches
<1> QED
  BY <1>1, <1>2, <1>3, Stock(a) DEF Stock

LEMMA RecordStep ==
  ASSUME JudgementInv, NEW a \in Accounts, NEW r \in Results, NEW p \in Policies, NEW proof \in Proofs,
         RecordCompliance(a, r, p, proof)
  PROVE JudgementInv' /\ JudgementStands
<1> DEFINE result == [policyId |-> p, proofId |-> proof, checkedAt |-> now, by |-> a]
<1>1. results' = [results EXCEPT ![r] = result] /\ UNCHANGED <<now, policies, proofs>>
  BY DEF RecordCompliance
<1>2. result \in [policyId : Policies \cup {Zero}, proofId : Proofs \cup {Zero},
                  checkedAt : Nat, by : Accounts \cup {Zero}]
  BY DEF JudgementInv
<1>3. result.checkedAt > 0 /\ result.policyId \in Policies /\ result.proofId \in Proofs
  BY DEF JudgementInv
<1>4. results[r] = NoResult
  BY DEF RecordCompliance, JudgementInv
<1> HIDE DEF result
<1>5. JudgementInv'
  BY <1>1, <1>2, <1>3 DEF JudgementInv, NoPolicy, NoProof, NoResult
<1> QED
  BY <1>1, <1>4, <1>5 DEF JudgementStands, JudgementInv

LEMMA ResultsFollow ==
  ASSUME JudgementInv, ResultsStayProven, JudgementStands, UNCHANGED results
  PROVE ResultsStayProven'
<1> SUFFICES ASSUME NEW r \in Results, results[r].by = Network,
                    Zero \notin {results[r].policyId, results[r].proofId}
             PROVE /\ InForce(policies[results[r].policyId], results[r].checkedAt)'
                   /\ proofs'[results[r].proofId].verified
  BY DEF ResultsStayProven, InForce
<1> DEFINE p == results[r].policyId  q == results[r].proofId
<1>1. InForce(policies[p], results[r].checkedAt) /\ proofs[q].verified
  BY DEF ResultsStayProven
<1>2. p \in Policies \ {Zero} /\ q \in Proofs \ {Zero}
  BY DEF JudgementInv
<1>3. policies[p] # NoPolicy
  BY <1>1 DEF InForce, NoPolicy
<1>4. proofs[q] # NoProof
  BY <1>1 DEF NoProof
<1>5. policies'[p] = policies[p] /\ proofs'[q] = proofs[q]
  BY <1>2, <1>3, <1>4 DEF JudgementStands
<1> QED
  BY <1>1, <1>5 DEF InForce

LEMMA JudgementStep ==
  ASSUME JudgementInv, ResultsStayProven, NEW a \in Senders, Judgement(a)
  PROVE JudgementInv' /\ JudgementStands /\ ResultsStayProven'
<1>1. ASSUME NEW p \in Policies, NEW from \in Times, NEW until \in Times,
             RegisterPolicy(a, p, from, until)
      PROVE JudgementInv' /\ JudgementStands /\ UNCHANGED results
  <2> DEFINE policy == [policyId |-> p, effectiveAt |-> from, expiresAt |-> until, active |-> TRUE]
  <2>1. /\ policies' = [policies EXCEPT ![p] = policy] /\ policies[p].policyId = Zero
        /\ UNCHANGED <<now, proofs, results>>
    BY <1>1 DEF RegisterPolicy
  <2>2. policy \in [policyId : Policies \cup {Zero}, effectiveAt : Nat, expiresAt : Nat,
                    active : BOOLEAN] /\ policy.policyId = p
    BY ContractsAssumption
  <2> HIDE DEF policy
  <2> QED
    BY <2>1, <2>2 DEF JudgementInv, JudgementStands, NoPolicy, NoProof, NoResult
<1>2. ASSUME NEW c \in Circuits, NEW v \in Verifiers \cup {Zero}, SetVerifier(a, c, v)
      PROVE JudgementInv' /\ JudgementStands /\ UNCHANGED results
  BY <1>2 DEF SetVerifier, JudgementInv, JudgementStands
<1>3. ASSUME NEW p \in Proofs, NEW c \in Circuits, NEW verdict \in BOOLEAN,
             RecordProof(a, p, c, verdict)
      PROVE JudgementInv' /\ JudgementStands /\ UNCHANGED results
  BY <1>3 DEF RecordProof, JudgementInv, JudgementStands, NoProof, NoPolicy, NoResult
<1>4. ASSUME NEW r \in Results, NEW p \in Policies, NEW proof \in Proofs,
             RecordCompliance(a, r, p, proof)
      PROVE JudgementInv' /\ JudgementStands /\ ResultsStayProven'
  <2>1. JudgementInv' /\ JudgementStands
    BY <1>4, RecordStep DEF Senders
  <2>2. a # Network
    BY DEF Senders
  <2> QED
    BY <2>1, <2>2, <1>4 DEF ResultsStayProven, RecordCompliance, JudgementInv, InForce
<1>5. ASSUME NEW r \in Results, NEW p \in Policies, NEW proof \in Proofs,
             ExecuteCompliance(a, r, p, proof)
      PROVE JudgementInv' /\ JudgementStands /\ ResultsStayProven'
  <2>1. RecordCompliance(Network, r, p, proof) /\ InForce(policies[p], now) /\ proofs[proof].verified
    BY <1>5 DEF ExecuteCompliance
  <2>2. JudgementInv' /\ JudgementStands
    BY <2>1, RecordStep, AccountsAssumption
  <2> QED
    BY <2>1, <2>2 DEF ResultsStayProven, RecordCompliance, JudgementInv, InForce
<1> QED
  BY <1>1, <1>2, <1>3, <1>4, <1>5, ResultsFollow, Judgement(a) DEF Judgement
-----------------------------------------------------------------------------
\* A group that no step touches keeps its invariant and its records.
LEMMA Untouched ==
  ASSUME ContractsInv
  PROVE /\ UNCHANGED people => PeopleInv' /\ PeopleStand
        /\ UNCHANGED goods => GoodsInv' /\ GoodsStand
        /\ UNCHANGED stock => StockInv' /\ StockStands
        /\ UNCHANGED <<now, judgement>> => JudgementInv' /\ JudgementStands /\ ResultsStayProven'
<1>1. ASSUME UNCHANGED people PROVE PeopleInv' /\ PeopleStand
  BY <1>1, ContractsInv DEF ContractsInv, PeopleInv, PeopleStand, people
<1>2. ASSUME UNCHANGED goods PROVE GoodsInv' /\ GoodsStand
  BY <1>2, ContractsInv DEF ContractsInv, GoodsInv, GoodsStand, goods
<1>3. ASSUME UNCHANGED stock PROVE StockInv' /\ StockStands
  BY <1>3, ContractsInv DEF ContractsInv, StockInv, StockStands, stock
<1>4. ASSUME UNCHANGED <<now, judgement>>
      PROVE JudgementInv' /\ JudgementStands /\ ResultsStayProven'
  BY <1>4, ContractsInv DEF ContractsInv, JudgementInv, JudgementStands, ResultsStayProven, InForce, judgement
<1> QED
  BY <1>1, <1>2, <1>3, <1>4

LEMMA ContractsStep ==
  ASSUME ContractsInv, [Next]_vars
  PROVE ContractsInv' /\ PeopleStand /\ GoodsStand /\ StockStands /\ JudgementStands
<1>1. CASE UNCHANGED vars
  BY <1>1, Untouched DEF vars, ContractsInv
<1>2. CASE Time
  <2>1. UNCHANGED <<people, goods, stock>>
    BY <1>2 DEF Time
  <2>2. JudgementInv' /\ JudgementStands /\ UNCHANGED results
    BY <1>2, ContractsInv DEF ContractsInv, Time, Elapse, judgement, JudgementInv, JudgementStands
  <2> QED
    BY <2>1, <2>2, Untouched, ResultsFollow DEF ContractsInv
<1>3. CASE Transaction
  <2>1. CASE Grants
    BY <2>1, Untouched DEF Grants, ContractsInv
  <2>2. ASSUME NEW a \in Senders, People(a), UNCHANGED <<goods, stock, now, judgement>>
        PROVE ContractsInv' /\ PeopleStand /\ GoodsStand /\ StockStands /\ JudgementStands
    BY <2>2, PeopleStep, Untouched DEF ContractsInv
  <2>3. ASSUME NEW a \in Senders, Goods(a), UNCHANGED <<people, stock, now, judgement>>
        PROVE ContractsInv' /\ PeopleStand /\ GoodsStand /\ StockStands /\ JudgementStands
    BY <2>3, GoodsStep, Untouched DEF ContractsInv
  <2>4. ASSUME NEW a \in Senders, Stock(a), UNCHANGED <<people, goods, now, judgement>>
        PROVE ContractsInv' /\ PeopleStand /\ GoodsStand /\ StockStands /\ JudgementStands
    BY <2>4, StockStep, Untouched DEF ContractsInv
  <2>5. ASSUME NEW a \in Senders, Judgement(a), UNCHANGED <<people, goods, stock>>
        PROVE ContractsInv' /\ PeopleStand /\ GoodsStand /\ StockStands /\ JudgementStands
    BY <2>5, JudgementStep, Untouched DEF ContractsInv
  <2> QED
    BY <1>3, <2>1, <2>2, <2>3, <2>4, <2>5 DEF Transaction
<1> QED
  BY <1>1, <1>2, <1>3 DEF Next, Terminated

\* The registries are what their contracts make of them: an id other than zero
\* leads to a record of that id or to none.
THEOREM ContractsInvariance == Spec => []ContractsInv
<1> QED
  BY ContractsInit, ContractsStep, PTL DEF Spec

\* What the facade has recorded stays proven, for any ids, accounts and windows
\* and whatever the holders of roles do with the registries behind it.
THEOREM ResultsProven == Spec => []ResultsStayProven
<1>1. ContractsInv => ResultsStayProven
  BY DEF ContractsInv
<1> QED
  BY <1>1, ContractsInvariance, PTL

\* Every registry is append-only but for the changes its contract names.
THEOREM RegistriesAppend == Spec => RecordsStand
<1>1. ContractsInv /\ [Next]_vars => [PeopleStand /\ GoodsStand /\ StockStands /\ JudgementStands]_vars
  BY ContractsStep
<1> QED
  BY <1>1, ContractsInvariance, PTL DEF Spec, RecordsStand

-----------------------------------------------------------------------------
(* What the batches on chain hold.                                         *)

StockRecords == [batchId : Batches, productId : Types \cup {Zero}, quantity : Nat, active : BOOLEAN]

StockType == /\ batches \in [Batches -> StockRecords]
             /\ created \in [Types -> Nat]

\* What has been written is some quantity, under its own id.
WrittenIsSome == \A b \in Batches :
  batches[b] = NoBatch \/ (batches[b].batchId = b /\ batches[b].quantity > 0)

ZeroUnwritten == batches[Zero] = NoBatch

ParentsAreWritten == ZeroUnwritten => \A e \in lineage : e[1] \in Batches /\ Exists(e[1])

\* The conjuncts of BatchesConserved.
Held == [b \in Batches |-> batches[b].quantity]
ActiveOf(t) == {b \in Batches : batches[b].active /\ batches[b].productId = t}
NothingLost == \A t \in Types : SumFunctionOnSet(Held, ActiveOf(t)) = created[t]
UsedAreParents == \A b \in Batches : Exists(b) => (batches[b].active <=> ~\E e \in lineage : e[1] = b)

ConservedInv == /\ StockType /\ WrittenIsSome /\ ParentsAreWritten
                /\ ZeroUnwritten => NothingLost /\ UsedAreParents

LEMMA ConservedIsParts == BatchesConserved <=> (ZeroUnwritten => NothingLost /\ UsedAreParents)
  BY DEF BatchesConserved, ZeroUnwritten, NothingLost, UsedAreParents, Quantity, Held, ActiveOf

LEMMA ConservedInit == Init => ConservedInv
<1> SUFFICES ASSUME Init PROVE ConservedInv
  OBVIOUS
<1>1. batches = [b \in Batches |-> NoBatch] /\ lineage = {} /\ created = [t \in Types |-> 0]
  BY DEF Init, StockInit
<1>2. NoBatch \in StockRecords /\ NoBatch.active = FALSE /\ NoBatch.batchId = Zero
  BY BatchesAssumption DEF NoBatch, StockRecords
<1>3. StockType /\ WrittenIsSome /\ ParentsAreWritten
  BY <1>1, <1>2 DEF StockType, WrittenIsSome, ParentsAreWritten
<1>4. NothingLost
  <2>1. \A t \in Types : ActiveOf(t) = {}
    BY <1>1, <1>2 DEF ActiveOf
  <2> QED BY <2>1, <1>1, SumOfNone DEF NothingLost
<1>5. UsedAreParents
  BY <1>1, <1>2 DEF UsedAreParents, Exists
<1> QED BY <1>3, <1>4, <1>5 DEF ConservedInv

\* The batches and what they hold.
LEMMA HeldFacts ==
  ASSUME StockType
  PROVE  /\ \A b \in Batches : Held[b] = batches[b].quantity /\ Held[b] \in Nat
         /\ \A S \in SUBSET Batches : IsFiniteSet(S) /\ SumFunctionOnSet(Held, S) \in Int
         /\ \A t : ActiveOf(t) \in SUBSET Batches
<1>1. \A b \in Batches : Held[b] = batches[b].quantity /\ Held[b] \in Nat
  BY DEF Held, StockType, StockRecords
<1>2. ASSUME NEW S \in SUBSET Batches
      PROVE  IsFiniteSet(S) /\ SumFunctionOnSet(Held, S) \in Int
  <2>1. IsFiniteSet(S)
    BY BatchesAssumption, FS_Subset
  <2>2. \A b \in S : Held[b] \in Int
    BY <1>1
  <2> QED BY <2>1, <2>2, SumIsInt
<1> QED BY <1>1, <1>2 DEF ActiveOf

\* Nothing is where nothing has been written.
LEMMA UnwrittenIsEmpty ==
  ASSUME WrittenIsSome, ZeroUnwritten, NEW b \in Batches, ~Exists(b)
  PROVE  batches[b] = NoBatch
  BY DEF WrittenIsSome, ZeroUnwritten, Exists

LEMMA CreateConserves ==
  ASSUME ConservedInv, NEW a, NEW b \in Batches, NEW t \in Types, NEW q \in Quantities,
         CreateBatch(a, b, t, q)
  PROVE  ConservedInv'
<1>1. /\ batches' = [batches EXCEPT ![b] = Batch(b, t, q)] /\ ~Exists(b) /\ q > 0 /\ q \in Nat
      /\ created' = [created EXCEPT ![t] = @ + q] /\ lineage' = lineage
  BY ContractsAssumption DEF CreateBatch
<1>2. /\ Batch(b, t, q) \in StockRecords /\ Batch(b, t, q).batchId = b
      /\ Batch(b, t, q).quantity = q /\ Batch(b, t, q).active = TRUE
      /\ Batch(b, t, q).productId = t /\ Batch(b, t, q) # NoBatch
  BY <1>1, ContractsAssumption DEF Batch, StockRecords, NoBatch
<1>3. StockType' /\ WrittenIsSome'
  BY <1>1, <1>2 DEF ConservedInv, StockType, WrittenIsSome
<1>4. ASSUME ZeroUnwritten'
      PROVE  ZeroUnwritten /\ b # Zero
  BY <1>1, <1>2, <1>4, BatchesAssumption DEF ConservedInv, StockType, ZeroUnwritten
<1>5. ParentsAreWritten'
  BY <1>1, <1>2, <1>4 DEF ConservedInv, StockType, ParentsAreWritten, Exists
<1>6. ASSUME ZeroUnwritten' PROVE NothingLost'
  <2>1. batches[b] = NoBatch
    BY <1>1, <1>4, <1>6, UnwrittenIsEmpty DEF ConservedInv
  <2>2. \A s \in Types : b \notin ActiveOf(s)
    BY <2>1 DEF ActiveOf, NoBatch
  <2>3. \A x \in Batches \ {b} : Held'[x] = Held[x]
    BY <1>1 DEF Held, ConservedInv, StockType
  <2>4. Held'[b] = q
    BY <1>1, <1>2 DEF Held, ConservedInv, StockType
  <2>5. SUFFICES ASSUME NEW s \in Types
                 PROVE  SumFunctionOnSet(Held', ActiveOf(s)') = created'[s]
    BY DEF NothingLost
  <2>6. SumFunctionOnSet(Held', ActiveOf(s)) = SumFunctionOnSet(Held, ActiveOf(s))
    <3>1. IsFiniteSet(ActiveOf(s)) /\ \A x \in ActiveOf(s) : Held'[x] = Held[x]
      BY <2>2, <2>3, HeldFacts DEF ConservedInv
    <3> QED BY <3>1, SumOfSame
  <2>7. SumFunctionOnSet(Held, ActiveOf(s)) = created[s] /\ created[s] \in Int
    BY <1>4, <1>6 DEF ConservedInv, NothingLost, StockType
  <2>8. CASE s = t
    <3>1. ActiveOf(s)' = ActiveOf(s) \cup {b}
      BY <1>1, <1>2, <2>8 DEF ActiveOf, ConservedInv, StockType
    <3>2. IsFiniteSet(ActiveOf(s)) /\ \A x \in ActiveOf(s) : Held'[x] \in Int
      BY <2>2, <2>3, HeldFacts DEF ConservedInv
    <3>3. Held'[b] \in Int /\ b \notin ActiveOf(s)
      BY <1>1, <2>2, <2>4
    <3>4. SumFunctionOnSet(Held', ActiveOf(s) \cup {b}) = Held'[b] + SumFunctionOnSet(Held', ActiveOf(s))
      <4> DEFINE S == ActiveOf(s)  f == Held'
      <4> HIDE DEF S, f
      <4> QED BY <3>2, <3>3, SumTakesIn DEF S, f
    <3>5. created'[s] = created[s] + q
      BY <1>1, <2>8 DEF ConservedInv, StockType
    <3> QED BY <3>1, <3>4, <3>5, <2>4, <2>6, <2>7, <1>1
  <2>9. CASE s # t
    <3>1. ActiveOf(s)' = ActiveOf(s)
      BY <1>1, <1>2, <2>2, <2>9 DEF ActiveOf, ConservedInv, StockType
    <3>2. created'[s] = created[s]
      BY <1>1, <2>9 DEF ConservedInv, StockType
    <3> QED BY <3>1, <3>2, <2>6, <2>7
  <2> QED BY <2>8, <2>9
<1>7. ASSUME ZeroUnwritten' PROVE UsedAreParents'
  <2>1. \A e \in lineage : e[1] # b
    BY <1>1, <1>4, <1>7 DEF ConservedInv, ParentsAreWritten
  <2> QED BY <1>1, <1>2, <1>4, <1>7, <2>1 DEF ConservedInv, StockType, UsedAreParents, Exists
<1> QED BY <1>3, <1>5, <1>6, <1>7 DEF ConservedInv

LEMMA LastIsChosen ==
  ASSUME NEW ids \in SomeIds, NEW qs, NEW b \in ToSet(ids)
  PROVE  \E i \in DOMAIN ids : ids[i] = b /\ LastQuantity(ids, qs, b) = qs[i]
<1>1. PICK n \in 0..3 : ids \in [1..n -> Batches]
  BY DEF SomeIds
<1>2. PICK k \in 1..n : ids[k] = b
  BY <1>1 DEF ToSet
<1>3. \E i \in DOMAIN ids : ids[i] = b /\ \A j \in DOMAIN ids : ids[j] = b => j <= i
  <2>1. DOMAIN ids = 1..n /\ n \in {0, 1, 2, 3}
    BY <1>1
  <2>2. CASE n = 1
    BY <2>1, <2>2, <1>2
  <2>3. CASE n = 2
    BY <2>1, <2>3, <1>2
  <2>4. CASE n = 3
    BY <2>1, <2>4, <1>2
  <2> QED BY <2>1, <2>2, <2>3, <2>4
<1>4. PICK i \in DOMAIN ids : /\ i = CHOOSE j \in DOMAIN ids : ids[j] = b /\ \A l \in DOMAIN ids : ids[l] = b => l <= j
                              /\ ids[i] = b
  BY <1>3
<1> QED BY <1>4 DEF LastQuantity

LEMMA SplitFacts ==
  ASSUME ConservedInv, NEW a, NEW p \in Batches, NEW ids \in SomeIds,
         NEW qs \in BoundedSeq(Quantities, 2), SplitBatch(a, p, ids, qs)
  PROVE  /\ StockType' /\ WrittenIsSome'
         /\ ZeroUnwritten' => ZeroUnwritten /\ Zero \notin ToSet(ids)
<1> DEFINE W == Written(p, ids, qs)
           product == batches[p].productId
<1>1. /\ batches[p].active /\ batches' = [W EXCEPT ![p].active = FALSE] /\ created' = created
  BY DEF SplitBatch
<1>2. ASSUME NEW b \in ToSet(ids)
      PROVE  LastQuantity(ids, qs, b) \in Nat /\ LastQuantity(ids, qs, b) > 0
  <2>1. PICK i \in DOMAIN ids : ids[i] = b /\ LastQuantity(ids, qs, b) = qs[i]
    BY LastIsChosen
  <2>2. qs[i] > 0
    BY DEF SplitBatch
  <2>3. DOMAIN qs = DOMAIN ids /\ qs[i] \in Quantities
    <3>1. PICK m \in 0..2 : qs \in [1..m -> Quantities]
      BY DEF BoundedSeq, SeqOf
    <3>2. PICK n \in 0..3 : ids \in [1..n -> Batches]
      BY DEF SomeIds
    <3>3. Len(qs) = m /\ Len(ids) = n
      BY <3>1, <3>2
    <3> QED BY <3>1, <3>2, <3>3 DEF SplitBatch
  <2> QED BY <2>1, <2>2, <2>3, ContractsAssumption
<1>3. product \in Types \cup {Zero} /\ batches[p] # NoBatch
  BY <1>1 DEF ConservedInv, StockType, StockRecords, NoBatch
<1>4. ASSUME NEW b \in Batches
      PROVE  /\ W[b] \in StockRecords
             /\ b # p => W[b] = NoBatch \/ (W[b].batchId = b /\ W[b].quantity > 0)
             /\ W[b] # NoBatch => W[b].batchId = b /\ W[b].quantity > 0
  <2>1. CASE b \in ToSet(ids)
    <3>1. W[b] = [batchId |-> b, productId |-> product,
                  quantity |-> LastQuantity(ids, qs, b), active |-> TRUE]
      BY <2>1 DEF Written, Batch
    <3> QED BY <1>2, <1>3, <2>1, <3>1 DEF StockRecords
  <2>2. CASE b \notin ToSet(ids)
    BY <2>2 DEF Written, ConservedInv, StockType, WrittenIsSome
  <2> QED BY <2>1, <2>2
<1>5. W[p] # NoBatch /\ DOMAIN W = Batches /\ W[p].batchId = p /\ W[p].quantity > 0
  <2>1. W[p].active
    BY <1>1 DEF Written, Batch
  <2>2. W[p] # NoBatch
    BY <2>1 DEF NoBatch
  <2> QED BY <2>2, <1>4 DEF Written
<1>6. \A b \in Batches : batches'[b] = IF b = p THEN [W[p] EXCEPT !.active = FALSE] ELSE W[b]
  <2> HIDE DEF W
  <2> QED BY <1>1, <1>5
<1>7. DOMAIN batches' = Batches /\ batches' = [b \in Batches |-> batches'[b]]
  <2> HIDE DEF W
  <2> QED BY <1>1, <1>5
<1> DEFINE rest == [W[p] EXCEPT !.active = FALSE]
<1>8. rest \in StockRecords /\ rest.batchId = p /\ rest.quantity > 0
  <2>1. W[p] \in StockRecords
    BY <1>4
  <2> HIDE DEF W
  <2> QED BY <2>1, <1>5 DEF StockRecords
<1>9. StockType' /\ WrittenIsSome'
  <2> HIDE DEF W, rest
  <2>1. \A b \in Batches : batches'[b] \in StockRecords
    BY <1>4, <1>6, <1>8 DEF rest
  <2>2. batches' \in [Batches -> StockRecords]
    BY <1>7, <2>1
  <2>3. WrittenIsSome'
    BY <1>4, <1>6, <1>8 DEF WrittenIsSome, rest
  <2> QED BY <2>2, <2>3, <1>1 DEF StockType, ConservedInv
<1>10. ASSUME ZeroUnwritten' PROVE ZeroUnwritten /\ Zero \notin ToSet(ids)
  <2>1. batches'[Zero] = NoBatch /\ Zero \in Batches
    BY <1>10, BatchesAssumption DEF ZeroUnwritten
  <2>2. Zero # p
    <3>1. NoBatch.quantity = 0
      BY DEF NoBatch
    <3>2. batches'[p] = rest
      BY <1>6
    <3> HIDE DEF W, rest
    <3> QED BY <2>1, <3>1, <3>2, <1>8
  <2>3. W[Zero] = NoBatch
    <3> HIDE DEF W
    <3> QED BY <2>1, <2>2, <1>6
  <2>4. Zero \notin ToSet(ids)
    BY <2>3, <2>1 DEF Written, Batch, NoBatch
  <2>5. W[Zero] = batches[Zero]
    BY <2>1, <2>4 DEF Written
  <2> HIDE DEF W
  <2> QED BY <2>3, <2>4, <2>5 DEF ZeroUnwritten
<1> QED BY <1>9, <1>10

LEMMA SplitConserves ==
  ASSUME ConservedInv, NEW a, NEW p \in Batches, NEW ids \in SomeIds,
         NEW qs \in BoundedSeq(Quantities, 2), SplitBatch(a, p, ids, qs)
  PROVE  ConservedInv'
<1>1. StockType' /\ WrittenIsSome'
  BY SplitFacts
<1> DEFINE product == batches[p].productId
           children == ToSet(ids)
<1>2. SUFFICES ASSUME ZeroUnwritten'
               PROVE  ParentsAreWritten' /\ NothingLost' /\ UsedAreParents'
  BY <1>1 DEF ConservedInv, ParentsAreWritten
<1>3. ZeroUnwritten /\ Zero \notin children
  BY <1>2, SplitFacts
<1>4. PICK n \in 0..3 : ids \in [1..n -> Batches]
  BY DEF SomeIds
<1>5. qs \in [1..n -> Quantities] /\ n > 0
  <2>1. PICK m \in 0..2 : qs \in [1..m -> Quantities]
    BY DEF BoundedSeq, SeqOf
  <2>2. Len(qs) = m /\ Len(ids) = n
    BY <2>1, <1>4
  <2> QED BY <2>1, <2>2 DEF SplitBatch
<1>6. /\ children \subseteq Batches /\ children # {} /\ \A b \in children : ~Exists(b)
      /\ batches[p].active /\ p # Zero /\ Exists(p) /\ p \notin children
  <2>1. children \subseteq Batches /\ children # {} /\ \A b \in children : ~Exists(b)
    BY <1>4, <1>5 DEF ToSet, SplitBatch
  <2>2. batches[p].active /\ batches[p] # NoBatch
    BY DEF SplitBatch, NoBatch
  <2>3. Exists(p)
    BY <2>2, <1>3, UnwrittenIsEmpty DEF ConservedInv
  <2>4. p # Zero
    BY <2>2, <1>3 DEF ZeroUnwritten
  <2> QED BY <2>1, <2>2, <2>3, <2>4
<1>7. \A i, j \in DOMAIN ids : ids[i] = ids[j] => i = j
  <2>1. \A i, j \in DOMAIN ids : i # j /\ ids[i] = ids[j] => ids[i] = Zero
    BY DEF SplitBatch
  <2> QED BY <2>1, <1>3 DEF ToSet
<1>8. \A i \in 1..n : LastQuantity(ids, qs, ids[i]) = qs[i]
  <2>1. TAKE i \in 1..n
  <2>2. ids[i] \in ToSet(ids) /\ i \in DOMAIN ids
    BY <1>4 DEF ToSet
  <2>3. PICK j \in DOMAIN ids : ids[j] = ids[i] /\ LastQuantity(ids, qs, ids[i]) = qs[j]
    <3> DEFINE b == ids[i]
    <3> HIDE DEF b
    <3>1. b \in ToSet(ids)
      BY <2>2 DEF b
    <3>2. \E j \in DOMAIN ids : ids[j] = b /\ LastQuantity(ids, qs, b) = qs[j]
      BY <3>1, LastIsChosen
    <3> QED BY <3>2 DEF b
  <2> QED BY <2>2, <2>3, <1>7
<1>9. \A b \in Batches : batches'[b] = IF b = p THEN Spent(p)
                                       ELSE IF b \in children
                                       THEN Batch(b, product, LastQuantity(ids, qs, b))
                                       ELSE batches[b]
  <2>1. batches' = [Written(p, ids, qs) EXCEPT ![p].active = FALSE]
    BY DEF SplitBatch
  <2>2. DOMAIN Written(p, ids, qs) = Batches /\ Written(p, ids, qs)[p] = batches[p]
    BY <1>6 DEF Written
  <2>3. \A b \in Batches : batches'[b] = IF b = p THEN Spent(p) ELSE Written(p, ids, qs)[b]
    BY <2>1, <2>2 DEF Spent
  <2> QED BY <2>3 DEF Written
<1>10. /\ Spent(p).batchId = p /\ Spent(p).active = FALSE /\ Spent(p).productId = product
       /\ Spent(p).quantity = batches[p].quantity
  BY <1>6 DEF Spent, ConservedInv, StockType, StockRecords, WrittenIsSome, Exists, NoBatch
<1>c. \A q \in Quantities : q \in Int
  BY ContractsAssumption
<1>a. \A b, q : /\ Batch(b, product, q).batchId = b /\ Batch(b, product, q).productId = product
                /\ Batch(b, product, q).quantity = q /\ Batch(b, product, q).active = TRUE
  BY DEF Batch
<1>b. \A b \in children : /\ batches'[b].batchId = b /\ batches'[b].productId = product
                          /\ batches'[b].quantity = LastQuantity(ids, qs, b)
                          /\ batches'[b].active = TRUE
  <2> HIDE DEF children, product
  <2> QED BY <1>9, <1>a, <1>6
<1>11. /\ lineage' = lineage \cup ({p} \X children) /\ created' = created
       /\ SumFunction(qs) = batches[p].quantity
  BY <1>6 DEF SplitBatch, Written
<1>12. ParentsAreWritten'
  BY <1>3, <1>6, <1>9, <1>10, <1>11 DEF ConservedInv, ParentsAreWritten, Exists, Batch
<1>13. UsedAreParents'
  <2>1. SUFFICES ASSUME NEW b \in Batches, Exists(b)'
                 PROVE  batches'[b].active <=> ~\E e \in lineage' : e[1] = b
    BY DEF UsedAreParents
  <2>e. /\ \A e \in lineage' : e \in lineage \/ e[1] = p
        /\ \A e \in lineage : e \in lineage'
    BY <1>11
  <2>2. CASE b = p
    <3>1. \E e \in lineage' : e[1] = p
      <4>1. PICK x \in children : TRUE
        BY <1>6
      <4>2. <<p, x>> \in lineage'
        BY <1>11, <4>1
      <4> QED BY <4>2
    <3> QED BY <2>2, <3>1, <1>9, <1>10
  <2>3. CASE b # p /\ b \in children
    <3>1. ~\E e \in lineage : e[1] = b
      BY <2>3, <1>3, <1>6 DEF ConservedInv, ParentsAreWritten
    <3> QED BY <2>3, <3>1, <2>e, <1>b
  <2>4. CASE b # p /\ b \notin children
    <3>1. Exists(b) /\ batches'[b] = batches[b]
      BY <2>1, <2>4, <1>9 DEF Exists
    <3> QED BY <2>4, <3>1, <2>e, <1>3 DEF ConservedInv, UsedAreParents
  <2> QED BY <2>2, <2>3, <2>4
<1>14. NothingLost'
  <2>1. SUFFICES ASSUME NEW s \in Types
                 PROVE  SumFunctionOnSet(Held', ActiveOf(s)') = created'[s]
    BY DEF NothingLost
  <2>2. SumFunctionOnSet(Held, ActiveOf(s)) = created[s] /\ created[s] \in Int
    BY <1>3 DEF ConservedInv, NothingLost, StockType
  <2>3. \A x \in Batches \ children : Held'[x] = Held[x]
    BY <1>9, <1>10 DEF Held
  <2>4. \A b \in children : b \notin ActiveOf(s)
    BY <1>3, <1>6, UnwrittenIsEmpty DEF ActiveOf, NoBatch, ConservedInv
  <2> DEFINE S == ActiveOf(s)
  <2>5. /\ IsFiniteSet(S) /\ IsFiniteSet(S \ {p}) /\ IsFiniteSet(children)
        /\ \A x \in Batches : Held[x] \in Int /\ Held'[x] \in Int
    <3>1. S \subseteq Batches
      BY DEF ActiveOf
    <3>2. IsFiniteSet(S) /\ IsFiniteSet(S \ {p}) /\ IsFiniteSet(children)
      BY <3>1, <1>6, BatchesAssumption, FS_Subset
    <3>3. \A x \in Batches : Held[x] \in Int
      BY HeldFacts DEF ConservedInv
    <3>4. \A x \in Batches : Held'[x] \in Int
      BY <1>1 DEF Held, StockType, StockRecords
    <3> QED BY <3>2, <3>3, <3>4
  <2>6. CASE s # product
    <3>1. ActiveOf(s)' = S
      <4> HIDE DEF children, product
      <4>1. \A b \in Batches : b \in ActiveOf(s)' <=> b \in ActiveOf(s)
        <5>1. TAKE b \in Batches
        <5>2. CASE b = p
          BY <5>2, <1>9, <1>10, <2>6 DEF ActiveOf, product
        <5>3. CASE b \in children
          BY <5>3, <1>b, <2>4, <2>6 DEF ActiveOf
        <5>4. CASE b # p /\ b \notin children
          BY <5>4, <1>9 DEF ActiveOf
        <5> QED BY <5>2, <5>3, <5>4
      <4> QED BY <4>1 DEF ActiveOf
    <3>2. SumFunctionOnSet(Held', S) = SumFunctionOnSet(Held, S)
      <4>1. \A x \in S : Held'[x] = Held[x]
        BY <2>3, <2>4 DEF ActiveOf
      <4> HIDE DEF S
      <4> QED BY <2>5, <4>1, SumOfSame
    <3> QED BY <3>1, <3>2, <2>2, <1>11
  <2>7. CASE s = product
    <3>1. p \in S /\ S \subseteq Batches
      BY <2>7, <1>6 DEF ActiveOf
    <3>2. ActiveOf(s)' = (S \ {p}) \cup children
      <4> HIDE DEF children, product
      <4>1. \A b \in Batches : b \in ActiveOf(s)' <=> b \in (ActiveOf(s) \ {p}) \cup children
        <5>1. TAKE b \in Batches
        <5>2. CASE b = p
          BY <5>2, <1>6, <1>9, <1>10 DEF ActiveOf
        <5>3. CASE b \in children
          BY <5>3, <1>b, <2>7 DEF ActiveOf
        <5>4. CASE b # p /\ b \notin children
          BY <5>4, <1>9 DEF ActiveOf
        <5> QED BY <5>2, <5>3, <5>4
      <4> QED BY <4>1, <1>6 DEF ActiveOf
    <3>3. (S \ {p}) \cap children = {}
      BY <2>4
    <3>4. SumFunctionOnSet(Held', S \ {p}) = SumFunctionOnSet(Held, S \ {p})
      <4>1. \A x \in S \ {p} : Held'[x] = Held[x]
        BY <2>3, <2>4, <3>1
      <4> HIDE DEF S
      <4> QED BY <2>5, <4>1, SumOfSame
    <3>5. SumFunctionOnSet(Held, S) = Held[p] + SumFunctionOnSet(Held, S \ {p})
      <4>1. \A x \in S : Held[x] \in Int
        BY <2>5, <3>1
      <4> HIDE DEF S
      <4> QED BY <2>5, <3>1, <4>1, SumTakesOut
    <3>6. SumFunctionOnSet(Held', children) = Held[p]
      <4>1. IsFiniteSet(1..n) /\ DOMAIN qs = 1..n /\ DOMAIN ids = 1..n
        BY <1>4, <1>5, FS_Interval
      <4>2. \A i \in 1..n : qs[i] = Held'[ids[i]] /\ qs[i] \in Int
        <5>1. TAKE i \in 1..n
        <5>2. ids[i] \in children /\ ids[i] \in Batches /\ ids[i] # p
          BY <1>4, <1>6 DEF ToSet
        <5>3. batches'[ids[i]].quantity = LastQuantity(ids, qs, ids[i])
          <6> DEFINE b == ids[i]
          <6> HIDE DEF b, children, product
          <6> QED BY <5>2, <1>b DEF b
        <5>4. Held'[ids[i]] = qs[i]
          BY <5>2, <5>3, <1>8 DEF Held
        <5>5. qs[i] \in Quantities
          BY <1>5
        <5>6. qs[i] \in Int
          BY <5>5, <1>c, Zenon
        <5> QED BY <5>4, <5>6, Zenon
      <4>3. \A i, j \in 1..n : ids[i] = ids[j] => i = j
        BY <1>7, <4>1
      <4>4. SumFunctionOnSet(qs, 1..n) = SumFunctionOnSet(Held', {ids[i] : i \in 1..n})
        <5> DEFINE D == 1..n  f == Held'
        <5> HIDE DEF D, f
        <5> QED BY <4>1, <4>2, <4>3, SumRenamed DEF D, f
      <4>5. children = {ids[i] : i \in 1..n}
        BY <4>1 DEF ToSet
      <4>6. SumFunction(qs) = SumFunctionOnSet(qs, 1..n)
        BY <4>1 DEF SumFunction
      <4>7. Held[p] = batches[p].quantity
        BY DEF Held
      <4> HIDE DEF children
      <4> QED BY <4>4, <4>5, <4>6, <4>7, <1>11
    <3>7. SumFunctionOnSet(Held', (S \ {p}) \cup children)
            = SumFunctionOnSet(Held', S \ {p}) + SumFunctionOnSet(Held', children)
      <4>1. \A x \in (S \ {p}) \cup children : Held'[x] \in Int
        BY <2>5, <3>1, <1>6
      <4> DEFINE R == S \ {p}  f == Held'
      <4>2. IsFiniteSet(R) /\ R \cap children = {} /\ \A x \in R \cup children : f[x] \in Int
        BY <2>5, <3>3, <4>1
      <4> HIDE DEF R, f, children
      <4>3. SumFunctionOnSet(f, R \cup children)
              = SumFunctionOnSet(f, R) + SumFunctionOnSet(f, children)
        BY <4>2, <2>5, SumOfParts
      <4> QED BY <4>3 DEF R, f
    <3>8. SumFunctionOnSet(Held, S \ {p}) \in Int /\ Held[p] \in Int
      BY <2>5, <3>1, HeldFacts DEF ConservedInv
    <3> HIDE DEF S, children
    <3>9. SumFunctionOnSet(Held', ActiveOf(s)') = SumFunctionOnSet(Held, S \ {p}) + Held[p]
      BY <3>2, <3>4, <3>6, <3>7
    <3>10. SumFunctionOnSet(Held, S \ {p}) + Held[p] = Held[p] + SumFunctionOnSet(Held, S \ {p})
      BY <3>8
    <3> QED BY <3>9, <3>10, <3>5, <2>2, <1>11 DEF S
  <2> QED BY <2>6, <2>7
<1> QED BY <1>12, <1>13, <1>14

LEMMA MergeConserves ==
  ASSUME ConservedInv, NEW a, NEW parents \in SomeIds, NEW child \in Batches,
         MergeBatches(a, parents, child, Quantity(ToSet(parents)))
  PROVE  ConservedInv'
<1> DEFINE P == ToSet(parents)
           q == Quantity(P)
           product == batches[parents[1]].productId
<1>1. /\ P \subseteq Batches /\ parents[1] \in P
  <2>1. PICK n \in 0..3 : parents \in [1..n -> Batches]
    BY DEF SomeIds
  <2>2. parents # <<>>
    BY DEF MergeBatches
  <2>3. n # 0
    BY <2>1, <2>2
  <2>4. 1 \in 1..n
    BY <2>3
  <2> QED BY <2>1, <2>4 DEF ToSet
<1>2. /\ ~Exists(child) /\ q > 0 /\ created' = created /\ lineage' = lineage \cup (P \X {child})
      /\ \A p \in P : batches[p].active /\ batches[p].productId = product
  BY DEF MergeBatches
<1>3. q = SumFunctionOnSet(Held, P) /\ q \in Nat
  <2>1. q = SumFunctionOnSet(Held, P)
    BY DEF Quantity, Held
  <2>2. SumFunctionOnSet(Held, P) \in Int
    BY <1>1, HeldFacts DEF ConservedInv
  <2> HIDE DEF q, P
  <2> QED BY <2>1, <2>2, <1>2
<1>4. /\ batches' = [b \in Batches |-> batches'[b]]
      /\ \A b \in Batches : batches'[b] = IF b = child THEN Batch(child, product, q)
                                         ELSE IF b \in P THEN Spent(b) ELSE batches[b]
  BY DEF MergeBatches
<1> HIDE DEF q, product, P
<1>5. \A b \in P : batches[b] # NoBatch /\ b \in Batches /\ product \in Types \cup {Zero}
  BY <1>1, <1>2 DEF NoBatch, ConservedInv, StockType, StockRecords
<1>6. /\ Batch(child, product, q).batchId = child /\ Batch(child, product, q).quantity = q
      /\ Batch(child, product, q).active = TRUE /\ Batch(child, product, q).productId = product
      /\ Batch(child, product, q) \in StockRecords
  BY <1>1, <1>3, <1>5 DEF Batch, StockRecords
<1>7. \A b \in P : /\ Spent(b) \in StockRecords /\ Spent(b).batchId = b /\ Spent(b).active = FALSE
                   /\ Spent(b).quantity = batches[b].quantity /\ Spent(b).quantity > 0
  <2>1. TAKE b \in P
  <2>2. batches[b] \in StockRecords /\ batches[b].batchId = b /\ batches[b].quantity > 0
    BY <1>5 DEF ConservedInv, StockType, WrittenIsSome
  <2> QED BY <2>2 DEF Spent, StockRecords
<1>8. StockType'
  <2>1. \A b \in Batches : batches'[b] \in StockRecords
    BY <1>4, <1>6, <1>7 DEF ConservedInv, StockType
  <2> QED BY <2>1, <1>2, <1>4 DEF ConservedInv, StockType
<1>9. WrittenIsSome'
  BY <1>2, <1>4, <1>6, <1>7 DEF ConservedInv, WrittenIsSome
<1>10. SUFFICES ASSUME ZeroUnwritten'
                PROVE  ParentsAreWritten' /\ NothingLost' /\ UsedAreParents'
  BY <1>8, <1>9 DEF ConservedInv, ParentsAreWritten
<1>11. ZeroUnwritten /\ child # Zero /\ Zero \notin P
  <2>1. batches'[Zero] = NoBatch /\ Zero \in Batches /\ NoBatch.quantity = 0
    BY <1>10, BatchesAssumption DEF ZeroUnwritten, NoBatch
  <2>2. child # Zero
    BY <2>1, <1>4, <1>6, <1>2, <1>3
  <2>3. Zero \notin P
    BY <2>1, <2>2, <1>4, <1>7
  <2> QED BY <2>1, <2>2, <2>3, <1>4 DEF ZeroUnwritten
<1>12. batches[child] = NoBatch /\ child \notin P /\ \A p \in P : Exists(p)
  BY <1>2, <1>5, <1>11, UnwrittenIsEmpty DEF ConservedInv
<1>13. ParentsAreWritten'
  <2>1. \A b \in Batches : Exists(b) => Exists(b)'
    BY <1>2, <1>4, <1>7, <1>11 DEF Exists
  <2>2. \A e \in lineage' : e \in lineage \/ e[1] \in P
    BY <1>2
  <2> QED BY <2>1, <2>2, <1>1, <1>11, <1>12 DEF ConservedInv, ParentsAreWritten
<1>14. UsedAreParents'
  <2>1. /\ \A e \in lineage' : e \in lineage \/ e[1] \in P
        /\ \A e \in lineage : e \in lineage'
        /\ \A p \in P : <<p, child>> \in lineage'
    BY <1>2
  <2>2. SUFFICES ASSUME NEW b \in Batches, Exists(b)'
                 PROVE  batches'[b].active <=> ~\E e \in lineage' : e[1] = b
    BY DEF UsedAreParents
  <2>3. CASE b = child
    <3>1. ~\E e \in lineage : e[1] = b
      BY <2>3, <1>2, <1>11 DEF ConservedInv, ParentsAreWritten
    <3> QED BY <2>3, <3>1, <2>1, <1>4, <1>6, <1>12
  <2>4. CASE b \in P
    <3>1. \E e \in lineage' : e[1] = b
      <4>1. <<b, child>> \in lineage' /\ <<b, child>>[1] = b
        BY <2>1, <2>4
      <4> QED BY <4>1
    <3> QED BY <2>4, <3>1, <1>4, <1>7, <1>12
  <2>5. CASE b # child /\ b \notin P
    <3>1. Exists(b) /\ batches'[b] = batches[b]
      BY <2>2, <2>5, <1>4 DEF Exists
    <3> QED BY <2>5, <3>1, <2>1, <1>11 DEF ConservedInv, UsedAreParents
  <2> QED BY <2>3, <2>4, <2>5
<1>15. NothingLost'
  <2>1. SUFFICES ASSUME NEW s \in Types
                 PROVE  SumFunctionOnSet(Held', ActiveOf(s)') = created'[s]
    BY DEF NothingLost
  <2>2. SumFunctionOnSet(Held, ActiveOf(s)) = created[s] /\ created[s] \in Int
    BY <1>11 DEF ConservedInv, NothingLost, StockType
  <2>3. \A x \in Batches \ {child} : Held'[x] = Held[x]
    BY <1>4, <1>7 DEF Held
  <2>4. Held'[child] = q
    BY <1>4, <1>6 DEF Held
  <2>5. \A r : child \notin ActiveOf(r)
    BY <1>12 DEF ActiveOf, NoBatch
  <2> DEFINE S == ActiveOf(s)
             R == S \ P
  <2>6. IsFiniteSet(S) /\ IsFiniteSet(R) /\ IsFiniteSet(P) /\ S \subseteq Batches
    BY <1>1, BatchesAssumption, FS_Subset DEF ActiveOf
  <2>7. \A x \in Batches : Held[x] \in Int /\ Held'[x] \in Int
    <3>1. \A x \in Batches : Held'[x] \in Int
      BY <1>8 DEF Held, StockType, StockRecords
    <3> QED BY <3>1, HeldFacts DEF ConservedInv
  <2>8. CASE s # product
    <3>1. ActiveOf(s)' = S
      <4>1. \A b \in Batches : b \in ActiveOf(s)' <=> b \in ActiveOf(s)
        <5>1. TAKE b \in Batches
        <5>2. CASE b = child
          BY <5>2, <1>4, <1>6, <2>5, <2>8 DEF ActiveOf
        <5>3. CASE b # child /\ b \in P
          BY <5>3, <1>2, <1>4, <1>7, <2>8 DEF ActiveOf
        <5>4. CASE b # child /\ b \notin P
          BY <5>4, <1>4 DEF ActiveOf
        <5> QED BY <5>2, <5>3, <5>4
      <4> QED BY <4>1 DEF ActiveOf
    <3>2. SumFunctionOnSet(Held', S) = SumFunctionOnSet(Held, S)
      <4>1. \A x \in S : Held'[x] = Held[x]
        BY <2>3, <2>5, <2>6
      <4> HIDE DEF S
      <4> QED BY <2>6, <4>1, SumOfSame
    <3> QED BY <3>1, <3>2, <2>2, <1>2
  <2>9. CASE s = product
    <3>1. P \subseteq S /\ R \cup P = S /\ R \cap P = {} /\ child \notin R
      BY <2>9, <1>1, <1>2, <2>5 DEF ActiveOf
    <3>2. ActiveOf(s)' = R \cup {child}
      <4>1. \A b \in Batches : b \in ActiveOf(s)' <=> b \in (ActiveOf(s) \ P) \cup {child}
        <5>1. TAKE b \in Batches
        <5>2. CASE b = child
          BY <5>2, <1>4, <1>6, <2>9 DEF ActiveOf
        <5>3. CASE b # child /\ b \in P
          BY <5>3, <1>4, <1>7 DEF ActiveOf
        <5>4. CASE b # child /\ b \notin P
          BY <5>4, <1>4 DEF ActiveOf
        <5> QED BY <5>2, <5>3, <5>4
      <4> QED BY <4>1 DEF ActiveOf
    <3>3. R \subseteq Batches /\ \A x \in R : Held'[x] = Held[x]
      BY <2>3, <2>6, <3>1
    <3> HIDE DEF S, R
    <3>4. SumFunctionOnSet(Held', R) = SumFunctionOnSet(Held, R)
      BY <2>6, <3>3, SumOfSame
    <3>5. SumFunctionOnSet(Held, R \cup P) = SumFunctionOnSet(Held, R) + SumFunctionOnSet(Held, P)
      <4>1. \A x \in R \cup P : Held[x] \in Int
        BY <1>1, <2>7, <3>3
      <4> DEFINE f == Held
      <4> HIDE DEF f
      <4> QED BY <4>1, <2>6, <3>1, SumOfParts DEF f
    <3>6. SumFunctionOnSet(Held', R \cup {child}) = Held'[child] + SumFunctionOnSet(Held', R)
      <4>1. (\A x \in R : Held'[x] \in Int) /\ Held'[child] \in Int
        BY <2>7, <3>3
      <4> DEFINE f == Held'
      <4> HIDE DEF f
      <4> QED BY <4>1, <2>6, <3>1, SumTakesIn DEF f
    <3>7. SumFunctionOnSet(Held, R) \in Int
      BY <3>3, HeldFacts DEF ConservedInv
    <3>8. q + SumFunctionOnSet(Held, R) = SumFunctionOnSet(Held, R) + SumFunctionOnSet(Held, P)
      BY <1>3, <3>7
    <3>9. created[s] = SumFunctionOnSet(Held, R) + SumFunctionOnSet(Held, P)
      BY <2>2, <3>1, <3>5 DEF S
    <3>10. SumFunctionOnSet(Held', ActiveOf(s)') = q + SumFunctionOnSet(Held, R)
      BY <2>4, <3>2, <3>4, <3>6
    <3> QED BY <3>8, <3>9, <3>10, <1>2
  <2> QED BY <2>8, <2>9
<1> QED BY <1>13, <1>14, <1>15

LEMMA StockConserves ==
  ASSUME ConservedInv, NEW a, Stock(a)
  PROVE  ConservedInv'
  BY CreateConserves, SplitConserves, MergeConserves DEF Stock

LEMMA ConservedNext == ConservedInv /\ [Next]_vars => ConservedInv'
<1>1. ASSUME ConservedInv, UNCHANGED stock PROVE ConservedInv'
  BY <1>1 DEF stock, ConservedInv, StockType, WrittenIsSome, ParentsAreWritten, ZeroUnwritten,
              NothingLost, UsedAreParents, Exists, Held, ActiveOf
<1>2. ASSUME [Next]_vars PROVE UNCHANGED stock \/ \E a \in Senders : Stock(a)
  BY <1>2 DEF Next, vars, Transaction, Grants, Time, Terminated
<1> QED BY <1>1, <1>2, StockConserves

\* BatchRegistry: creating, splitting and merging keep what was created of a
\* product, in the active batches; exactly the parents in the lineage are inactive.
THEOREM StockConserved == Spec => []BatchesConserved
<1>1. Spec => []ConservedInv
  BY ConservedInit, ConservedNext, PTL DEF Spec
<1>2. ConservedInv => BatchesConserved
  BY ConservedIsParts DEF ConservedInv
<1> QED BY <1>1, <1>2, PTL
=============================================================================
