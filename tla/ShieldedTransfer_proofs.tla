---------------------- MODULE ShieldedTransfer_proofs -----------------------
(***************************************************************************)
(* Theorems about the shielded transfer and the ledger it anchors in, for  *)
(* any clients, notes and claims.                                          *)
(***************************************************************************)
EXTENDS ShieldedTransfer, Sums, FiniteSetTheorems, TLAPS

SessionSteps == {"none", "insert", "extend", "commit", "done", "failed"}

Sessions == [step : SessionSteps, item : Items \cup {NoItem}, prev : Seq(Items), receipt : Nat]

LedgerType == /\ rows \subseteq [item : Items, seq : Nat \ {0}]
              /\ chain \in Seq(Items)
              /\ head \in Clients \cup {NoClient}
              /\ sessions \in [Clients -> Sessions]

\* Each row has its place in the chain, and each place its row.
Numbered == /\ IsFiniteSet(rows)
            /\ ChainMatchesRows
            /\ \A r \in rows : r.seq \in DOMAIN chain /\ chain[r.seq] = r.item

\* Who may commit holds the root, and has read the root as it is.
RootIsHeld == \A c \in Clients :
  /\ sessions[c].step = "commit" <=> head = c
  /\ sessions[c].step = "commit" => sessions[c].prev = chain

\* A unique item that a session has inserted is inserted nowhere else.
InsertsAreUnique == \A c \in Clients :
  Inserted(c) /\ sessions[c].item \in Unique =>
    /\ \A d \in Clients : Inserted(d) /\ sessions[d].item = sessions[c].item => d = c
    /\ ~ Present(sessions[c].item)

SessionsHaveItems == \A c \in Clients :
  sessions[c].step \in {"insert", "extend", "commit", "done"} => sessions[c].item \in Items

LedgerInv == /\ LedgerType /\ Numbered /\ RootIsHeld /\ InsertsAreUnique
             /\ SessionsHaveItems /\ ReceiptsAreHonest

LEMMA LedgerInitInv == LedgerInit => LedgerInv
PROOF
  <1> SUFFICES ASSUME LedgerInit PROVE LedgerInv
    OBVIOUS
  <1>1. LedgerType
    BY DEF LedgerInit, LedgerType, NoSession, Session, Sessions, SessionSteps
  <1>2. Numbered
    BY FS_EmptySet DEF LedgerInit, Numbered, ChainMatchesRows
  <1>3. RootIsHeld
    BY LedgerAssumption DEF LedgerInit, RootIsHeld, NoSession, Session
  <1>4. InsertsAreUnique /\ SessionsHaveItems /\ ReceiptsAreHonest
    BY DEF LedgerInit, InsertsAreUnique, SessionsHaveItems, ReceiptsAreHonest, Inserted,
           NoSession, Session
  <1> QED BY <1>1, <1>2, <1>3, <1>4 DEF LedgerInv

LEMMA LedgerUnchanged == LedgerInv /\ UNCHANGED ledger => LedgerInv'
PROOF
  BY DEF LedgerInv, ledger, LedgerType, Numbered, ChainMatchesRows, RootIsHeld,
         InsertsAreUnique, SessionsHaveItems, ReceiptsAreHonest, Inserted, Present

\* A session moves to a step from which it may not commit, and gives up the
\* root if it holds it; the table and the chain stay.
LEMMA SessionMoves ==
  ASSUME LedgerInv, NEW c \in Clients, NEW s \in Sessions,
         Enter(c, s), UNCHANGED <<rows, chain>>,
         head' = IF head = c THEN NoClient ELSE head,
         s.step \in {"none", "insert", "done", "failed"},
         s.step \in {"insert", "done"} => s.item \in Items,
         s.step = "done" => s.receipt \in DOMAIN chain /\ chain[s.receipt] = s.item
  PROVE  LedgerInv'
PROOF
  <1>1. sessions' = [sessions EXCEPT ![c] = s] /\ sessions \in [Clients -> Sessions]
    BY DEF Enter, LedgerInv, LedgerType
  <1>2. LedgerType'
    BY <1>1 DEF LedgerInv, LedgerType
  <1>3. Numbered'
    BY DEF LedgerInv, Numbered, ChainMatchesRows
  <1>4. RootIsHeld'
    BY <1>1, LedgerAssumption DEF LedgerInv, RootIsHeld
  <1>5. InsertsAreUnique'
    BY <1>1 DEF LedgerInv, InsertsAreUnique, Inserted, Present
  <1>6. SessionsHaveItems'
    BY <1>1 DEF LedgerInv, SessionsHaveItems
  <1>7. ReceiptsAreHonest'
    BY <1>1 DEF LedgerInv, ReceiptsAreHonest
  <1> QED BY <1>2, <1>3, <1>4, <1>5, <1>6, <1>7 DEF LedgerInv

LEMMA BeginAnchorInv ==
  ASSUME LedgerInv, NEW c \in Clients, NEW item \in Items, BeginAnchor(c, item)
  PROVE  LedgerInv'
PROOF
  <1>1. Session("insert", item, <<>>, 0) \in Sessions
    BY DEF Session, Sessions, SessionSteps
  <1>2. head' = IF head = c THEN NoClient ELSE head
    BY DEF BeginAnchor, LedgerInv, RootIsHeld
  <1> QED BY <1>1, <1>2, SessionMoves DEF BeginAnchor, Session

LEMMA AnchorFailsInv ==
  ASSUME LedgerInv, NEW c \in Clients, AnchorFails(c)
  PROVE  LedgerInv'
PROOF
  <1>1. Session("failed", NoItem, <<>>, 0) \in Sessions
    BY DEF Session, Sessions, SessionSteps
  <1> QED BY <1>1, SessionMoves DEF AnchorFails, Session

LEMMA EndSessionInv ==
  ASSUME LedgerInv, NEW c \in Clients, EndSession(c)
  PROVE  LedgerInv'
PROOF
  <1>1. NoSession \in Sessions
    BY DEF NoSession, Session, Sessions, SessionSteps
  <1> QED BY <1>1, SessionMoves DEF EndSession, NoSession, Session

LEMMA InsertAnchorInv ==
  ASSUME LedgerInv, NEW c \in Clients, InsertAnchor(c)
  PROVE  LedgerInv'
PROOF
  <1> DEFINE item == sessions[c].item
             same == {r \in rows : r.item = item}
  <1>1. item \in Items /\ sessions[c].step = "insert" /\ sessions \in [Clients -> Sessions]
    BY DEF InsertAnchor, LedgerInv, SessionsHaveItems, LedgerType
  <1>2. CASE item \in Unique /\ same # {}
    <2> DEFINE r == CHOOSE r \in same : TRUE
    <2>1. r \in rows /\ r.item = item
      BY <1>2
    <2>2. r.seq \in DOMAIN chain /\ chain[r.seq] = item /\ r.seq \in Nat
      BY <2>1 DEF LedgerInv, Numbered, LedgerType
    <2>3. Enter(c, Session("done", item, <<>>, r.seq)) /\ UNCHANGED <<rows, chain, head>>
      BY <1>2 DEF InsertAnchor
    <2>4. Session("done", item, <<>>, r.seq) \in Sessions
      BY <2>2, <1>1 DEF Session, Sessions, SessionSteps
    <2>5. head' = IF head = c THEN NoClient ELSE head
      BY <1>1, <2>3 DEF LedgerInv, RootIsHeld
    <2> HIDE DEF r
    <2> QED BY <1>1, <2>2, <2>3, <2>4, <2>5, SessionMoves DEF Session
  <1>3. CASE ~(item \in Unique /\ same # {})
    <2>1. sessions' = [sessions EXCEPT ![c] = Session("extend", item, <<>>, 0)]
          /\ UNCHANGED <<rows, chain, head>>
      BY <1>3 DEF InsertAnchor, Enter
    <2>2. Session("extend", item, <<>>, 0) \in Sessions
      BY <1>1 DEF Session, Sessions, SessionSteps
    <2>3. LedgerType'
      BY <2>1, <2>2 DEF LedgerInv, LedgerType
    <2>4. Numbered'
      BY <2>1 DEF LedgerInv, Numbered, ChainMatchesRows
    <2>5. RootIsHeld'
      BY <1>1, <2>1 DEF LedgerInv, RootIsHeld, Session
    <2>6. InsertsAreUnique'
      <3>1. item \in Unique => /\ ~ Present(item)
                               /\ \A d \in Clients : Inserted(d) => sessions[d].item # item
        BY <1>3 DEF InsertAnchor, Present
      <3> QED BY <1>1, <2>1, <3>1 DEF LedgerInv, InsertsAreUnique, Inserted, Present, Session
    <2>7. SessionsHaveItems' /\ ReceiptsAreHonest'
      BY <1>1, <2>1 DEF LedgerInv, SessionsHaveItems, ReceiptsAreHonest, Session
    <2> QED BY <2>3, <2>4, <2>5, <2>6, <2>7 DEF LedgerInv
  <1> QED BY <1>2, <1>3

\* After an insert the session still has its item.
LEMMA InsertKeepsItem ==
  ASSUME LedgerInv, NEW c \in Clients, InsertAnchor(c)
  PROVE  /\ sessions'[c].item = sessions[c].item
         /\ \A d \in Clients \ {c} : sessions'[d] = sessions[d]
PROOF
  <1> DEFINE item == sessions[c].item
             same == {r \in rows : r.item = item}
  <1>1. \/ Enter(c, Session("done", item, <<>>, (CHOOSE r \in same : TRUE).seq))
        \/ Enter(c, Session("extend", item, <<>>, 0))
    BY DEF InsertAnchor
  <1> QED BY <1>1 DEF Enter, Session, LedgerInv, LedgerType

LEMMA ExtendChainInv ==
  ASSUME LedgerInv, NEW c \in Clients, ExtendChain(c)
  PROVE  LedgerInv'
PROOF
  <1>1. /\ sessions' = [sessions EXCEPT ![c] = [sessions[c] EXCEPT !.step = "commit", !.prev = chain]]
        /\ sessions \in [Clients -> Sessions]
        /\ sessions[c].step = "extend"
        /\ head = NoClient /\ head' = c /\ UNCHANGED <<rows, chain>>
    BY DEF ExtendChain, Enter, LedgerInv, LedgerType
  <1>2. LedgerType'
    BY <1>1 DEF LedgerInv, LedgerType, Sessions, SessionSteps
  <1>3. Numbered'
    BY <1>1 DEF LedgerInv, Numbered, ChainMatchesRows
  <1>4. RootIsHeld'
    BY <1>1, LedgerAssumption DEF LedgerInv, RootIsHeld, Sessions
  <1>5. InsertsAreUnique'
    BY <1>1 DEF LedgerInv, InsertsAreUnique, Inserted, Present, Sessions
  <1>6. SessionsHaveItems' /\ ReceiptsAreHonest'
    BY <1>1 DEF LedgerInv, SessionsHaveItems, ReceiptsAreHonest, Sessions
  <1> QED BY <1>2, <1>3, <1>4, <1>5, <1>6 DEF LedgerInv

\* What a commit does, in terms of the committed chain.
LEMMA CommitAppends ==
  ASSUME LedgerInv, NEW c \in Clients, CommitAnchor(c)
  PROVE  /\ sessions[c].item \in Items
         /\ sessions[c].item \in Unique => ~ Present(sessions[c].item)
         /\ chain' = Append(chain, sessions[c].item)
         /\ rows' = rows \cup {[item |-> sessions[c].item, seq |-> Len(chain) + 1]}
         /\ head = c /\ head' = NoClient
         /\ sessions' = [sessions EXCEPT ![c] =
                           Session("done", sessions[c].item, <<>>, Len(chain) + 1)]
PROOF
  BY DEF CommitAnchor, Enter, LedgerInv, RootIsHeld, InsertsAreUnique, Inserted,
         SessionsHaveItems

LEMMA CommitAnchorInv ==
  ASSUME LedgerInv, NEW c \in Clients, CommitAnchor(c)
  PROVE  LedgerInv'
PROOF
  <1> DEFINE item == sessions[c].item
             seq == Len(chain) + 1
             row == [item |-> item, seq |-> seq]
  <1>1. /\ item \in Items
        /\ chain' = Append(chain, item)
        /\ rows' = rows \cup {row}
        /\ head = c /\ head' = NoClient
        /\ sessions' = [sessions EXCEPT ![c] = Session("done", item, <<>>, seq)]
    BY CommitAppends
  <1>2. chain \in Seq(Items) /\ sessions \in [Clients -> Sessions] /\ seq \in Nat \ {0}
    BY DEF LedgerInv, LedgerType
  <1>3. /\ chain' \in Seq(Items) /\ Len(chain') = seq
        /\ \A i \in DOMAIN chain : i \in DOMAIN chain' /\ chain'[i] = chain[i]
        /\ \A i \in DOMAIN chain' : i \in DOMAIN chain \/ i = seq
        /\ seq \in DOMAIN chain' /\ chain'[seq] = item
    BY <1>1, <1>2
  <1> HIDE DEF row, seq, item
  <1>4. LedgerType'
    BY <1>1, <1>2, <1>3 DEF LedgerInv, LedgerType, Session, Sessions, SessionSteps, row, seq
  <1>5. Numbered'
    <2>1. row \notin rows
      BY <1>2 DEF row, seq, LedgerInv, Numbered
    <2>2. IsFiniteSet(rows') /\ Cardinality(rows') = Cardinality(rows) + 1
      BY <1>1, <2>1, FS_AddElement DEF LedgerInv, Numbered
    <2>3. Cardinality(rows') = Len(chain')
      BY <1>3, <2>2 DEF LedgerInv, Numbered, ChainMatchesRows, seq
    <2>4. \A i \in DOMAIN chain' : [item |-> chain'[i], seq |-> i] \in rows'
      BY <1>1, <1>3 DEF LedgerInv, Numbered, ChainMatchesRows, row
    <2>5. \A r \in rows' : r.seq \in DOMAIN chain' /\ chain'[r.seq] = r.item
      BY <1>1, <1>3 DEF LedgerInv, Numbered, row
    <2> QED BY <2>2, <2>3, <2>4, <2>5 DEF Numbered, ChainMatchesRows
  <1>6. RootIsHeld'
    BY <1>1, <1>2, LedgerAssumption DEF LedgerInv, RootIsHeld, Session
  <1>7. InsertsAreUnique'
    <2> SUFFICES ASSUME NEW d \in Clients, Inserted(d)', (sessions[d].item \in Unique)'
                 PROVE  /\ \A e \in Clients :
                             Inserted(e)' /\ sessions'[e].item = sessions'[d].item => e = d
                        /\ ~ Present(sessions[d].item)'
      BY DEF InsertsAreUnique
    <2>1. \A e \in Clients : Inserted(e)' => e # c /\ sessions'[e] = sessions[e] /\ Inserted(e)
      BY <1>1, <1>2 DEF Inserted, Session
    <2>2. Inserted(c)
      BY DEF CommitAnchor, Inserted
    <2>3. sessions[d].item # item
      BY <2>1, <2>2 DEF LedgerInv, InsertsAreUnique, item
    <2>4. ~ Present(sessions[d].item)'
      BY <1>1, <2>1, <2>3 DEF LedgerInv, InsertsAreUnique, Present, row
    <2> QED BY <2>1, <2>4 DEF LedgerInv, InsertsAreUnique
  <1>8. SessionsHaveItems'
    BY <1>1, <1>2 DEF LedgerInv, SessionsHaveItems, Session
  <1>9. ReceiptsAreHonest'
    BY <1>1, <1>2, <1>3 DEF LedgerInv, ReceiptsAreHonest, Session
  <1> QED BY <1>4, <1>5, <1>6, <1>7, <1>8, <1>9 DEF LedgerInv
-----------------------------------------------------------------------------
(* The calls.                                                              *)

CallRecords == [step : {"idle", "find", "check", "write", "anchor", "ended"},
                old : NoteRows \cup {NoNote}, todo : Seq(Items)]

TablesType == /\ notes \subseteq NoteRows
              /\ nullifiers \subseteq Notes
              /\ spends \subseteq [old : Notes, new : Notes]
              /\ calls \in [Clients -> CallRecords]

\* What call c anchors.
Old(c) == <<"nullifier", calls[c].old.note>>
New(c) == <<"commitment", Fresh[c]>>
Extra(c) == <<"extra", Fresh[c]>>

\* Item a comes before item b in the chain.
Before(a, b) == \E i, j \in DOMAIN chain : i < j /\ chain[i] = a /\ chain[j] = b

BegunHasNote == \A c \in Clients :
  calls[c].step \notin {"idle", "ended"} => calls[c].old \in NoteRows

\* A session anchors the next item of its call.
SessionsServe == \A c \in Clients : sessions[c].step # "none" =>
  /\ calls[c].step = "anchor"
  /\ calls[c].todo # <<>>
  /\ sessions[c].step # "failed" => sessions[c].item = Head(calls[c].todo)

\* What call c no longer has to anchor is anchored.
AnchoredSoFar(c) ==
  \/ calls[c].todo = <<Old(c), New(c), Extra(c)>>
  \/ calls[c].todo = <<New(c), Extra(c)>> /\ Anchored(Old(c))
  \/ calls[c].todo = <<Extra(c)>> /\ Before(Old(c), New(c))
  \/ calls[c].todo = <<>> /\ Before(Old(c), New(c)) /\ Anchored(Extra(c))

Progress == \A c \in Clients : Writing(c) => AnchoredSoFar(c)

\* The new note of a call is anchored by that call alone, after the old one.
NewFollowsOld == \A c \in Clients : \A j \in DOMAIN chain : chain[j] = New(c) =>
  /\ calls[c].step \in {"anchor", "ended"}
  /\ calls[c].step = "anchor" => \E i \in DOMAIN chain : i < j /\ chain[i] = Old(c)

OneSpender ==
  /\ \A c \in Clients : Writing(c) => calls[c].old.note \notin nullifiers
  /\ \A c, d \in Clients :
       Writing(c) /\ Writing(d) /\ calls[c].old.note = calls[d].old.note => c = d
  /\ \A s \in spends : s.old \in nullifiers

CallsInv == /\ TablesType /\ BegunHasNote /\ SessionsServe /\ Progress /\ NewFollowsOld
            /\ OneSpender /\ SpentOnce /\ SpendsAreAnchored

Inv == LedgerInv /\ CallsInv

LEMMA IdleAndEnded ==
  /\ Idle \in CallRecords /\ Ended \in CallRecords
  /\ Idle.step = "idle" /\ Ended.step = "ended"
PROOF
  <1>1. Idle \in CallRecords /\ Idle.step = "idle"
    BY DEF Idle, CallRecords
  <1>2. Ended \in CallRecords /\ Ended.step = "ended"
    BY <1>1 DEF Ended, CallRecords
  <1> QED BY <1>1, <1>2

LEMMA InitInv == Init => Inv
PROOF
  <1> SUFFICES ASSUME Init PROVE Inv
    OBVIOUS
  <1>1. LedgerInv
    BY LedgerInitInv DEF Init
  <1>2. /\ chain = <<>> /\ spends = {} /\ nullifiers = {}
        /\ calls = [c \in Clients |-> Idle]
        /\ \A c \in Clients : sessions[c].step = "none"
    BY DEF Init, LedgerInit, NoSession, Session
  <1>3. notes \subseteq NoteRows
    BY ShieldedAssumption DEF Init, NoteRows
  <1>5. TablesType
    BY <1>2, <1>3, IdleAndEnded DEF TablesType
  <1>6. BegunHasNote /\ SessionsServe /\ Progress /\ OneSpender
    BY <1>2, IdleAndEnded DEF BegunHasNote, SessionsServe, Progress, OneSpender, Writing
  <1>7. NewFollowsOld /\ SpentOnce /\ SpendsAreAnchored
    BY <1>2 DEF NewFollowsOld, SpentOnce, SpendsAreAnchored
  <1> QED BY <1>1, <1>5, <1>6, <1>7 DEF Inv, CallsInv

LEMMA ItemsDiffer ==
  ASSUME NEW c \in Clients, NEW d \in Clients
  PROVE  /\ New(c) # Old(d) /\ New(c) # Extra(d)
         /\ New(c) = New(d) => c = d
PROOF
  BY ShieldedAssumption DEF New, Old, Extra

\* A call that has not written moves on, or any call ends; the tables and the
\* chain stay, and the call has no session then.
LEMMA CallMoves ==
  ASSUME CallsInv, NEW c \in Clients, NEW call \in CallRecords,
         Become(c, call), UNCHANGED <<tables, chain>>,
         \A d \in Clients \ {c} : sessions'[d] = sessions[d],
         sessions'[c].step = "none",
         \/ call.step = "ended"
         \/ /\ calls[c].step \notin {"anchor", "ended"}
            /\ call.step \in {"find", "check", "write"}
            /\ call.old \in NoteRows
  PROVE  CallsInv'
PROOF
  <1>1. /\ calls \in [Clients -> CallRecords] /\ calls' = [calls EXCEPT ![c] = call]
        /\ UNCHANGED <<notes, nullifiers, spends, chain>>
    BY DEF Become, CallsInv, TablesType, tables
  <1>2. TablesType' /\ BegunHasNote'
    BY <1>1 DEF CallsInv, TablesType, BegunHasNote
  <1>3. SessionsServe'
    BY <1>1 DEF CallsInv, SessionsServe
  <1>4. Progress'
    BY <1>1 DEF CallsInv, Progress, Writing, AnchoredSoFar, Old, New, Extra, Anchored, Before
  <1>5. NewFollowsOld'
    BY <1>1 DEF CallsInv, NewFollowsOld, Old, New
  <1>6. OneSpender'
    BY <1>1 DEF CallsInv, OneSpender, Writing
  <1>7. SpentOnce' /\ SpendsAreAnchored'
    BY <1>1 DEF CallsInv, SpentOnce, SpendsAreAnchored, Anchored
  <1> QED BY <1>2, <1>3, <1>4, <1>5, <1>6, <1>7 DEF CallsInv

\* A session moves on and its call, the tables and the chain stay.
LEMMA SessionMovesOn ==
  ASSUME CallsInv, NEW c \in Clients, UNCHANGED <<tables, calls, chain>>,
         \A d \in Clients \ {c} : sessions'[d] = sessions[d],
         calls[c].step = "anchor", calls[c].todo # <<>>,
         sessions'[c].step # "failed" => sessions'[c].item = Head(calls[c].todo)
  PROVE  CallsInv'
PROOF
  <1>1. UNCHANGED <<notes, nullifiers, spends, calls, chain>>
    BY DEF tables
  <1>2. TablesType' /\ BegunHasNote' /\ OneSpender' /\ SpentOnce'
    BY <1>1 DEF CallsInv, TablesType, BegunHasNote, OneSpender, SpentOnce, Writing
  <1>3. SessionsServe'
    BY <1>1 DEF CallsInv, SessionsServe
  <1>4. Progress' /\ NewFollowsOld' /\ SpendsAreAnchored'
    BY <1>1 DEF CallsInv, Progress, NewFollowsOld, SpendsAreAnchored, Writing, AnchoredSoFar,
                Old, New, Extra, Anchored, Before
  <1> QED BY <1>2, <1>3, <1>4 DEF CallsInv

\* The session of a call commits: the chain has one item more.
LEMMA CommitAnchorCalls ==
  ASSUME LedgerInv, CallsInv, NEW c \in Clients, CommitAnchor(c), UNCHANGED <<tables, calls>>
  PROVE  CallsInv'
PROOF
  <1> DEFINE item == sessions[c].item
  <1>1. /\ chain' = Append(chain, item) /\ item \in Items
        /\ sessions' = [sessions EXCEPT ![c] = Session("done", item, <<>>, Len(chain) + 1)]
        /\ sessions \in [Clients -> Sessions]
        /\ UNCHANGED <<notes, nullifiers, spends, calls>>
    BY CommitAppends DEF tables, LedgerInv, LedgerType
  <1>2. /\ calls[c].step = "anchor" /\ calls[c].todo # <<>> /\ item = Head(calls[c].todo)
    BY DEF CommitAnchor, CallsInv, SessionsServe
  <1>3. /\ \A i \in DOMAIN chain : i \in DOMAIN chain' /\ chain'[i] = chain[i]
        /\ DOMAIN chain' = DOMAIN chain \cup {Len(chain) + 1}
        /\ chain'[Len(chain) + 1] = item
        /\ \A i \in DOMAIN chain : i \in Nat /\ i < Len(chain) + 1
    BY <1>1 DEF LedgerInv, LedgerType
  <1> HIDE DEF item
  <1>4. TablesType' /\ BegunHasNote' /\ OneSpender' /\ SpentOnce'
    BY <1>1 DEF CallsInv, TablesType, BegunHasNote, OneSpender, SpentOnce, Writing
  <1>5. SessionsServe'
    BY <1>1, <1>2 DEF CallsInv, SessionsServe, Session
  <1>6. Progress'
    <2> SUFFICES ASSUME NEW d \in Clients, Writing(d) PROVE AnchoredSoFar(d)'
      BY <1>1 DEF Progress, Writing
    <2>1. AnchoredSoFar(d) /\ UNCHANGED <<calls, Old(d), New(d), Extra(d)>>
      BY <1>1 DEF CallsInv, Progress, Old, New, Extra
    <2>2. (Anchored(Old(d)) => Anchored(Old(d))') /\ (Anchored(Extra(d)) => Anchored(Extra(d))')
      BY <1>3, <2>1 DEF Anchored
    <2>3. Before(Old(d), New(d)) => Before(Old(d), New(d))'
      BY <1>3, <2>1 DEF Before
    <2> QED BY <2>1, <2>2, <2>3 DEF AnchoredSoFar
  <1>7. NewFollowsOld'
    <2> SUFFICES ASSUME NEW d \in Clients, NEW j \in DOMAIN chain', chain'[j] = New(d)
                 PROVE  /\ calls[d].step \in {"anchor", "ended"}
                        /\ calls[d].step = "anchor" =>
                              \E i \in DOMAIN chain' : i < j /\ chain'[i] = Old(d)
      BY <1>1 DEF NewFollowsOld, New, Old
    <2>1. CASE j \in DOMAIN chain
      BY <2>1, <1>3 DEF CallsInv, NewFollowsOld
    <2>2. CASE j = Len(chain) + 1
      <3>1. Head(calls[c].todo) = New(d)
        BY <2>2, <1>2, <1>3
      <3>2. AnchoredSoFar(c)
        BY <1>2 DEF CallsInv, Progress, Writing
      <3>3. c = d /\ Anchored(Old(c))
        BY <3>1, <3>2, <1>2, ItemsDiffer DEF AnchoredSoFar
      <3> QED BY <3>3, <2>2, <1>2, <1>3 DEF Anchored
    <2> QED BY <2>1, <2>2, <1>3
  <1>8. SpendsAreAnchored'
    <2> SUFFICES ASSUME NEW s \in spends
                 PROVE  /\ Anchored(<<"extra", s.new>>)'
                        /\ Before(<<"nullifier", s.old>>, <<"commitment", s.new>>)'
      BY <1>1 DEF SpendsAreAnchored, Before
    <2>1. Anchored(<<"extra", s.new>>) /\ Before(<<"nullifier", s.old>>, <<"commitment", s.new>>)
      BY DEF CallsInv, SpendsAreAnchored, Before
    <2> QED BY <1>3, <2>1 DEF Anchored, Before
  <1> QED BY <1>4, <1>5, <1>6, <1>7, <1>8 DEF CallsInv

LEMMA WriteRowsInv ==
  ASSUME LedgerInv, CallsInv, NEW c \in Clients, WriteRows(c)
  PROVE  CallsInv'
PROOF
  <1>1. /\ calls \in [Clients -> CallRecords] /\ calls[c].step = "write"
        /\ calls[c].old \in NoteRows /\ calls[c].old.note \in Notes
        /\ UNCHANGED <<tables, ledger>> /\ UNCHANGED <<chain, sessions>>
        /\ sessions[c].step = "none"
    BY DEF WriteRows, CallsInv, TablesType, BegunHasNote, NoteRows, SessionsServe, ledger
  <1>2. CASE calls[c].old.note \in nullifiers
    <2>1. Become(c, Ended)
      BY <1>2 DEF WriteRows
    <2> QED BY <1>1, <2>1, CallMoves, IdleAndEnded
  <1>3. CASE calls[c].old.note \notin nullifiers
    <2> DEFINE list == AnchorOrder(calls[c].old.note, Fresh[c])
               call == [calls[c] EXCEPT !.step = "anchor", !.todo = list]
    <2>1. calls' = [calls EXCEPT ![c] = call]
      BY <1>3 DEF WriteRows, Become
    <2>2. list = <<Old(c), New(c), Extra(c)>> /\ list \in Seq(Items)
      BY <1>1, ShieldedAssumption DEF AnchorOrder, Old, New, Extra
    <2>3. /\ call \in CallRecords /\ call.step = "anchor" /\ call.todo = list
          /\ call.old = calls[c].old
      BY <1>1, <2>2 DEF CallRecords
    <2> HIDE DEF list, call
    <2>4. UNCHANGED <<notes, nullifiers, spends>>
      BY <1>1 DEF tables
    <2>5. TablesType' /\ BegunHasNote'
      BY <1>1, <2>1, <2>3, <2>4 DEF CallsInv, TablesType, BegunHasNote
    <2>6. SessionsServe'
      BY <1>1, <2>1 DEF CallsInv, SessionsServe
    <2>7. \A d \in Clients : UNCHANGED <<Old(d), New(d), Extra(d)>>
      BY <1>1, <2>1, <2>3 DEF Old, New, Extra
    <2>8. Progress'
      <3> SUFFICES ASSUME NEW d \in Clients, Writing(d)' PROVE AnchoredSoFar(d)'
        BY DEF Progress
      <3>1. CASE d = c
        BY <3>1, <1>1, <2>1, <2>2, <2>3, <2>7 DEF AnchoredSoFar
      <3>2. CASE d # c
        BY <3>2, <1>1, <2>1, <2>7 DEF CallsInv, Progress, Writing, AnchoredSoFar, Anchored, Before
      <3> QED BY <3>1, <3>2
    <2>9. NewFollowsOld'
      BY <1>1, <2>1, <2>3, <2>7 DEF CallsInv, NewFollowsOld
    <2>10. OneSpender'
      BY <1>1, <1>3, <2>1, <2>3, <2>4 DEF CallsInv, OneSpender, Writing, WriteRows
    <2>11. SpentOnce' /\ SpendsAreAnchored'
      BY <1>1, <2>4 DEF CallsInv, SpentOnce, SpendsAreAnchored, Anchored
    <2> QED BY <2>5, <2>6, <2>8, <2>9, <2>10, <2>11 DEF CallsInv
  <1> QED BY <1>2, <1>3

LEMMA ReceiptTaken ==
  ASSUME LedgerInv, CallsInv, NEW c \in Clients, TakeReceipt(c), sessions[c].step = "done"
  PROVE  CallsInv'
PROOF
  <1> DEFINE list == calls[c].todo
             call == [calls[c] EXCEPT !.todo = Tail(list)]
  <1>1. /\ calls \in [Clients -> CallRecords] /\ calls' = [calls EXCEPT ![c] = call]
        /\ calls[c].step = "anchor" /\ list # <<>> /\ sessions[c].item = Head(list)
        /\ sessions \in [Clients -> Sessions] /\ sessions' = [sessions EXCEPT ![c] = NoSession]
        /\ UNCHANGED <<notes, nullifiers, spends, chain>>
    BY DEF TakeReceipt, Become, CallsInv, TablesType, SessionsServe, EndSession, Enter, tables,
           LedgerInv, LedgerType
  <1>2. list \in Seq(Items) /\ Tail(list) \in Seq(Items)
    BY <1>1 DEF CallRecords
  <1>3. /\ call \in CallRecords /\ call.step = "anchor" /\ call.todo = Tail(list)
        /\ call.old = calls[c].old
    BY <1>1, <1>2 DEF CallRecords
  <1> HIDE DEF call
  <1>4. TablesType' /\ BegunHasNote'
    BY <1>1, <1>3 DEF CallsInv, TablesType, BegunHasNote
  <1>5. SessionsServe'
    BY <1>1, <1>3 DEF CallsInv, SessionsServe, NoSession, Session
  <1>6. \A d \in Clients : UNCHANGED <<Old(d), New(d), Extra(d)>>
    BY <1>1, <1>3 DEF Old, New, Extra
  <1>7. Progress'
    <2> SUFFICES ASSUME NEW d \in Clients, Writing(d)' PROVE AnchoredSoFar(d)'
      BY DEF Progress
    <2>1. CASE d # c
      BY <2>1, <1>1, <1>6 DEF CallsInv, Progress, Writing, AnchoredSoFar, Anchored, Before
    <2>2. CASE d = c
      <3>1. AnchoredSoFar(c)
        BY <1>1 DEF CallsInv, Progress, Writing
      <3>2. PICK j \in DOMAIN chain : chain[j] = Head(list)
        BY <1>1 DEF LedgerInv, ReceiptsAreHonest
      <3>3. calls'[c].todo = Tail(list)
        BY <1>1, <1>3
      <3>4. CASE list = <<Old(c), New(c), Extra(c)>>
        <4>1. Tail(list) = <<New(c), Extra(c)>> /\ Head(list) = Old(c)
          BY <3>4
        <4> QED BY <4>1, <3>2, <3>3, <2>2, <1>1, <1>6 DEF AnchoredSoFar, Anchored
      <3>5. CASE list = <<New(c), Extra(c)>>
        <4>1. Tail(list) = <<Extra(c)>> /\ Head(list) = New(c)
          BY <3>5
        <4>2. PICK i \in DOMAIN chain : i < j /\ chain[i] = Old(c)
          BY <4>1, <3>2, <1>1 DEF CallsInv, NewFollowsOld
        <4> QED BY <4>1, <4>2, <3>2, <3>3, <2>2, <1>1, <1>6 DEF AnchoredSoFar, Before
      <3>6. CASE list = <<Extra(c)>> /\ Before(Old(c), New(c))
        <4>1. Tail(list) = <<>> /\ Head(list) = Extra(c)
          BY <3>6
        <4> QED BY <4>1, <3>2, <3>3, <3>6, <2>2, <1>1, <1>6 DEF AnchoredSoFar, Before, Anchored
      <3> QED BY <3>1, <3>4, <3>5, <3>6, <1>1 DEF AnchoredSoFar
    <2> QED BY <2>1, <2>2
  <1>8. NewFollowsOld'
    BY <1>1, <1>3, <1>6 DEF CallsInv, NewFollowsOld
  <1>9. OneSpender'
    BY <1>1, <1>3 DEF CallsInv, OneSpender, Writing
  <1>10. SpentOnce' /\ SpendsAreAnchored'
    BY <1>1 DEF CallsInv, SpentOnce, SpendsAreAnchored, Anchored
  <1> QED BY <1>4, <1>5, <1>7, <1>8, <1>9, <1>10 DEF CallsInv

LEMMA CommitInv ==
  ASSUME LedgerInv, CallsInv, NEW c \in Clients, Commit(c)
  PROVE  CallsInv'
PROOF
  <1> DEFINE note == calls[c].old.note
             spend == [old |-> note, new |-> Fresh[c]]
  <1>1. /\ calls \in [Clients -> CallRecords] /\ calls' = [calls EXCEPT ![c] = Ended]
        /\ calls[c].step = "anchor" /\ calls[c].todo = <<>>
        /\ calls[c].old \in NoteRows /\ note \in Notes /\ Fresh[c] \in Notes
        /\ nullifiers' = nullifiers \cup {note} /\ spends' = spends \cup {spend}
        /\ notes' = notes \cup {[note |-> Fresh[c], amount |-> calls[c].old.amount]}
        /\ UNCHANGED <<chain, sessions>>
    BY ShieldedAssumption DEF Commit, Become, CallsInv, TablesType, BegunHasNote, NoteRows, ledger
  <1>2. TablesType'
    BY <1>1, IdleAndEnded DEF CallsInv, TablesType, NoteRows
  <1>3. BegunHasNote' /\ SessionsServe'
    BY <1>1, IdleAndEnded DEF CallsInv, TablesType, BegunHasNote, SessionsServe
  <1>4. Progress'
    BY <1>1, IdleAndEnded DEF CallsInv, Progress, Writing, AnchoredSoFar, Old, New, Extra,
                              Anchored, Before
  <1>5. NewFollowsOld'
    BY <1>1, IdleAndEnded DEF CallsInv, NewFollowsOld, Old, New
  <1>6. OneSpender'
    BY <1>1, IdleAndEnded DEF CallsInv, OneSpender, Writing
  <1>7. SpentOnce'
    BY <1>1 DEF CallsInv, OneSpender, SpentOnce, Writing
  <1>8. SpendsAreAnchored'
    <2>1. Before(<<"nullifier", spend.old>>, <<"commitment", spend.new>>)
          /\ Anchored(<<"extra", spend.new>>)
      BY <1>1 DEF CallsInv, Progress, Writing, AnchoredSoFar, Old, New, Extra
    <2> HIDE DEF spend
    <2> QED BY <1>1, <2>1 DEF CallsInv, SpendsAreAnchored, Anchored, Before
  <1> QED BY <1>2, <1>3, <1>4, <1>5, <1>6, <1>7, <1>8 DEF CallsInv

LEMMA NextInv == Inv /\ [Next]_vars => Inv'
PROOF
  <1> SUFFICES ASSUME Inv, [Next]_vars PROVE Inv'
    OBVIOUS
  <1> USE DEF Inv
  <1>1. CASE UNCHANGED vars
    <2>1. UNCHANGED <<notes, nullifiers, spends, calls, chain, sessions>> /\ UNCHANGED ledger
      BY <1>1 DEF vars, ledger
    <2> QED BY <2>1, LedgerUnchanged DEF CallsInv, TablesType, BegunHasNote, SessionsServe,
              Progress, NewFollowsOld, OneSpender, SpentOnce, SpendsAreAnchored, Writing,
              AnchoredSoFar, Old, New, Extra, Anchored, Before
  <1>2. ASSUME NEW c \in Clients, NEW claim \in Claims, Begin(c, claim) PROVE Inv'
    <2> DEFINE call == [Idle EXCEPT !.step = "find", !.old = claim]
    <2>1. claim \in NoteRows
      BY ShieldedAssumption DEF NoteRows
    <2>2. call \in CallRecords /\ call.step = "find" /\ call.old \in NoteRows
      BY <2>1, IdleAndEnded DEF CallRecords
    <2> HIDE DEF call
    <2>3. /\ Become(c, call) /\ calls[c].step = "idle"
          /\ UNCHANGED <<tables, ledger>> /\ UNCHANGED <<chain, sessions>>
      BY <1>2 DEF Begin, ledger, call
    <2>4. sessions[c].step = "none"
      BY <2>3 DEF CallsInv, SessionsServe
    <2> QED BY <2>2, <2>3, <2>4, CallMoves, LedgerUnchanged
  <1>3. ASSUME NEW c \in Clients, FindNote(c) \/ CheckNullifier(c) PROVE Inv'
    <2>1. /\ calls[c].step \in {"find", "check"} /\ UNCHANGED <<tables, ledger>>
          /\ UNCHANGED <<chain, sessions>> /\ calls[c] \in CallRecords
          /\ calls[c].old \in NoteRows
      BY <1>3 DEF FindNote, CheckNullifier, CallsInv, TablesType, BegunHasNote, ledger
    <2>2. sessions[c].step = "none"
      BY <2>1 DEF CallsInv, SessionsServe
    <2>3. CASE Become(c, Ended)
      BY <2>1, <2>2, <2>3, CallMoves, LedgerUnchanged, IdleAndEnded
    <2>4. ASSUME NEW step \in {"check", "write"}, Goto(c, step) PROVE Inv'
      <3> DEFINE call == [calls[c] EXCEPT !.step = step]
      <3>1. call \in CallRecords /\ call.step = step /\ call.old \in NoteRows
        BY <2>1 DEF CallRecords
      <3>2. Become(c, call)
        BY <2>4 DEF Goto
      <3> HIDE DEF call
      <3> QED BY <2>1, <2>2, <3>1, <3>2, CallMoves, LedgerUnchanged
    <2> QED BY <1>3, <2>3, <2>4 DEF FindNote, CheckNullifier
  <1>4. ASSUME NEW c \in Clients, WriteRows(c) PROVE Inv'
    BY <1>4, WriteRowsInv, LedgerUnchanged DEF WriteRows
  <1>5. ASSUME NEW c \in Clients, StartAnchor(c) PROVE Inv'
    <2>1. /\ calls[c].step = "anchor" /\ calls[c].todo # <<>>
          /\ BeginAnchor(c, Head(calls[c].todo)) /\ UNCHANGED <<tables, calls>>
          /\ calls[c].todo \in Seq(Items)
      BY <1>5 DEF StartAnchor, CallsInv, TablesType, CallRecords
    <2>2. Head(calls[c].todo) \in Items
      BY <2>1
    <2>3. LedgerInv'
      BY <2>1, <2>2, BeginAnchorInv
    <2>4. /\ UNCHANGED chain /\ sessions'[c].item = Head(calls[c].todo)
          /\ \A d \in Clients \ {c} : sessions'[d] = sessions[d]
      BY <2>1 DEF BeginAnchor, Enter, Session, LedgerInv, LedgerType
    <2> QED BY <2>1, <2>3, <2>4, SessionMovesOn
  <1>6. ASSUME NEW c \in Clients, RunAnchor(c) PROVE Inv'
    <2>1. UNCHANGED <<tables, calls>>
      BY <1>6 DEF RunAnchor
    <2>2. CASE InsertAnchor(c) \/ ExtendChain(c)
      <3>1. /\ calls[c].step = "anchor" /\ calls[c].todo # <<>>
            /\ sessions[c].item = Head(calls[c].todo)
        BY <2>2 DEF InsertAnchor, ExtendChain, CallsInv, SessionsServe
      <3>2. /\ UNCHANGED chain /\ sessions'[c].item = sessions[c].item
            /\ \A d \in Clients \ {c} : sessions'[d] = sessions[d]
        <4>1. CASE InsertAnchor(c)
          BY <4>1, InsertKeepsItem DEF InsertAnchor
        <4>2. CASE ExtendChain(c)
          BY <4>2 DEF ExtendChain, Enter, LedgerInv, LedgerType, Sessions
        <4> QED BY <2>2, <4>1, <4>2
      <3>3. LedgerInv'
        BY <2>2, InsertAnchorInv, ExtendChainInv
      <3> QED BY <2>1, <3>1, <3>2, <3>3, SessionMovesOn
    <2>3. CASE CommitAnchor(c)
      BY <2>1, <2>3, CommitAnchorInv, CommitAnchorCalls
    <2> QED BY <1>6, <2>2, <2>3 DEF RunAnchor, LedgerStep
  <1>7. ASSUME NEW c \in Clients, LoseAnchor(c) PROVE Inv'
    <2>1. /\ AnchorFails(c) /\ UNCHANGED <<tables, calls>>
          /\ calls[c].step = "anchor" /\ calls[c].todo # <<>>
      BY <1>7 DEF LoseAnchor, AnchorFails, CallsInv, SessionsServe
    <2>2. /\ UNCHANGED chain /\ sessions'[c].step = "failed"
          /\ \A d \in Clients \ {c} : sessions'[d] = sessions[d]
      BY <2>1 DEF AnchorFails, Enter, Session, LedgerInv, LedgerType
    <2> QED BY <2>1, <2>2, AnchorFailsInv, SessionMovesOn
  <1>8. ASSUME NEW c \in Clients, TakeReceipt(c) \/ Crash(c) PROVE Inv'
    <2>1. /\ EndSession(c) /\ UNCHANGED <<tables, chain>> /\ sessions'[c].step = "none"
          /\ \A d \in Clients \ {c} : sessions'[d] = sessions[d]
      BY <1>8 DEF TakeReceipt, Crash, EndSession, Enter, NoSession, Session, LedgerInv, LedgerType
    <2>2. LedgerInv'
      BY <2>1, EndSessionInv
    <2>3. CASE Become(c, Ended)
      BY <2>1, <2>2, <2>3, CallMoves, IdleAndEnded
    <2>4. CASE TakeReceipt(c) /\ sessions[c].step = "done"
      BY <2>2, <2>4, ReceiptTaken
    <2> QED BY <1>8, <2>3, <2>4 DEF TakeReceipt, Crash
  <1>9. ASSUME NEW c \in Clients, Commit(c) PROVE Inv'
    BY <1>9, CommitInv, LedgerUnchanged DEF Commit
  <1> QED BY <1>1, <1>2, <1>3, <1>4, <1>5, <1>6, <1>7, <1>8, <1>9 DEF Next, Serve, Terminated
-----------------------------------------------------------------------------
(* The theorems.                                                           *)

\* The handler and the ledger keep the inductive invariant, and so their types.
THEOREM TransferInvariance == Spec => [](Inv /\ TypeOK)
PROOF
  <1>1. Spec => []Inv
    BY InitInv, NextInv, PTL DEF Spec
  <1>2. Inv => TypeOK
    BY DEF Inv, LedgerInv, LedgerType, CallsInv, TablesType, CallRecords, Sessions,
           SessionSteps, TypeOK
  <1> QED BY <1>1, <1>2, PTL

\* Whatever anchors run at once, fail or die with their calls, the rows of
\* ledger_anchors are the chain behind the root of ledger_state.
THEOREM RowsMatchChain == Spec => []ChainMatchesRows
PROOF
  <1>1. Inv => ChainMatchesRows
    BY DEF Inv, LedgerInv, Numbered
  <1> QED BY <1>1, TransferInvariance, PTL

\* A receipt, of a new row or of one that was there, names the item's place.
THEOREM HonestReceipts == Spec => []ReceiptsAreHonest
PROOF
  <1>1. Inv => ReceiptsAreHonest
    BY DEF Inv, LedgerInv
  <1> QED BY <1>1, TransferInvariance, PTL

\* At most one committed transfer spends a note: the check on another
\* connection may be stale, the primary key of nullifiers decides.
THEOREM NoDoubleSpend == Spec => []SpentOnce
PROOF
  <1>1. Inv => SpentOnce
    BY DEF Inv, CallsInv
  <1> QED BY <1>1, TransferInvariance, PTL

\* A committed transfer has its three items in the chain, the nullifier of the
\* old note before the commitment of the new one.
THEOREM SpendsAnchored == Spec => []SpendsAreAnchored
PROOF
  <1>1. Inv => SpendsAreAnchored
    BY DEF Inv, CallsInv
  <1> QED BY <1>1, TransferInvariance, PTL

\* Every step of the ledger's tables appends an item, a unique one for the first
\* time, or changes nothing.
LEMMA ChainStep ==
  ASSUME Inv, [Next]_vars
  PROVE  UNCHANGED chain \/ \E c \in Clients : CommitAnchor(c)
PROOF
  BY DEF Next, vars, ledger, Begin, Serve, FindNote, CheckNullifier, WriteRows, StartAnchor,
         BeginAnchor, RunAnchor, LedgerStep, InsertAnchor, ExtendChain, LoseAnchor, AnchorFails,
         TakeReceipt, EndSession, Commit, Crash, Terminated

\* The ledger, driven by the handler, is the append-only log in which a
\* commitment or a nullifier appears at most once.
THEOREM LedgerImplementsLog == Spec => ImplementsLog
PROOF
  <1>1. Init => Log!Init
    BY DEF Init, LedgerInit, Log!Init
  <1>2. ASSUME Inv, [Next]_vars PROVE [Log!Next]_chain
    <2>1. CASE UNCHANGED chain
      BY <2>1
    <2>2. ASSUME NEW c \in Clients, CommitAnchor(c) PROVE Log!Next
      <3> DEFINE item == sessions[c].item
      <3>1. /\ item \in Items /\ chain' = Append(chain, item)
            /\ item \in Unique => ~ Present(item)
        BY <1>2, <2>2, CommitAppends DEF Inv
      <3>2. item \in Unique => ~ Log!Logged(item)
        BY <1>2, <3>1 DEF Inv, LedgerInv, Numbered, ChainMatchesRows, Present, Log!Logged
      <3> HIDE DEF item
      <3> QED BY <3>1, <3>2 DEF Log!Next, Log!Add
    <2> QED BY <1>2, <2>1, <2>2, ChainStep
  <1> QED BY <1>1, <1>2, TransferInvariance, PTL DEF Spec, ImplementsLog, Log!Spec

-----------------------------------------------------------------------------
(* What the notes hold.                                                    *)

\* The notes nobody has spent.
Unspent == {n \in notes : n.note \notin nullifiers}

Deposited == {[note |-> n, amount |-> Deposits[n]] : n \in DOMAIN Deposits}

NotesOnce == \A m, n \in notes : m.note = n.note => m = n

\* Only its call adds the note of a client, and then ends.
NewNotesOfEnded == \A n \in notes : \A c \in Clients :
  n.note = Fresh[c] => calls[c].step = "ended"

OldNoteFound == \A c \in Clients :
  calls[c].step \in {"check", "write", "anchor"} => calls[c].old \in notes

SpentAreNotes == \A n \in nullifiers : \E m \in notes : m.note = n

NotesInv == /\ IsFiniteSet(notes) /\ NotesOnce /\ NewNotesOfEnded /\ OldNoteFound
            /\ SpentAreNotes /\ ValueConserved

\* A note in the place of another one of its amount leaves the total.
LEMMA TotalReplaced ==
  ASSUME NEW S, IsFiniteSet(S), \A n \in S : n.amount \in Int,
         NEW old \in S, NEW new, new \notin S, new.amount = old.amount
  PROVE  Total((S \ {old}) \cup {new}) = Total(S)
PROOF
  <1> DEFINE R == S \ {old}
             All == S \cup {new}
             f == [n \in All |-> n.amount]
  <1>1. IsFiniteSet(R) /\ IsFiniteSet(R \cup {new})
    BY FS_Subset, FS_AddElement
  <1>2. \A n \in All : f[n] = n.amount /\ f[n] \in Int
    OBVIOUS
  <1>3. \A T \in SUBSET All : IsFiniteSet(T) => Total(T) = SumFunctionOnSet(f, T)
    <2>1. TAKE T \in SUBSET All
    <2>2. HAVE IsFiniteSet(T)
    <2> DEFINE g == [n \in T |-> n.amount]
    <2>3. \A n \in T : g[n] = f[n]
      BY <2>1
    <2> HIDE DEF f, g
    <2>4. SumFunctionOnSet(g, T) = SumFunctionOnSet(f, T)
      BY <2>2, <2>3, SumOfSame
    <2> QED BY <2>4 DEF Total, g
  <1>4. new \notin R /\ R \subseteq S /\ R \subseteq All /\ S \subseteq All /\ R \cup {new} \subseteq All
    OBVIOUS
  <1> HIDE DEF f
  <1>5. SumFunctionOnSet(f, S) = f[old] + SumFunctionOnSet(f, R)
    BY <1>2, SumTakesOut
  <1>6. SumFunctionOnSet(f, R \cup {new}) = f[new] + SumFunctionOnSet(f, R)
    <2>1. (\A n \in R : f[n] \in Int) /\ f[new] \in Int
      BY <1>2
    <2> HIDE DEF R
    <2> QED BY <1>1, <1>4, <2>1, SumTakesIn
  <1>7. f[new] = f[old]
    BY <1>2
  <1>8. Total(S) = SumFunctionOnSet(f, S) /\ Total(R \cup {new}) = SumFunctionOnSet(f, R \cup {new})
    <2> HIDE DEF All, R
    <2> QED BY <1>1, <1>3, <1>4
  <1> QED BY <1>5, <1>6, <1>7, <1>8

LEMMA NotesInit == Init => NotesInv
PROOF
  <1> SUFFICES ASSUME Init PROVE NotesInv
    OBVIOUS
  <1>1. /\ notes = Deposited /\ nullifiers = {} /\ calls = [c \in Clients |-> Idle]
    BY DEF Init, Deposited
  <1>2. IsFiniteSet(notes)
    <2>1. IsFiniteSet(DOMAIN Deposits)
      BY ShieldedAssumption
    <2> DEFINE row == [n \in DOMAIN Deposits |-> [note |-> n, amount |-> Deposits[n]]]
    <2>2. Deposited = {row[n] : n \in DOMAIN Deposits}
      BY DEF Deposited
    <2> HIDE DEF row
    <2>3. IsFiniteSet({row[n] : n \in DOMAIN Deposits})
      BY <2>1, ImageIsFinite
    <2> QED BY <1>1, <2>2, <2>3
  <1>3. NotesOnce
    BY <1>1 DEF NotesOnce, Deposited
  <1>4. NewNotesOfEnded
    BY <1>1, ShieldedAssumption DEF NewNotesOfEnded, Deposited
  <1>5. OldNoteFound /\ SpentAreNotes
    BY <1>1, IdleAndEnded DEF OldNoteFound, SpentAreNotes
  <1>6. ValueConserved
    <2>1. {n \in notes : n.note \notin nullifiers} = Deposited
      BY <1>1
    <2> QED BY <2>1 DEF ValueConserved, Deposited
  <1> QED BY <1>2, <1>3, <1>4, <1>5, <1>6 DEF NotesInv

\* A step that is no commit leaves the tables.
LEMMA NotesStay ==
  ASSUME CallsInv, NotesInv, UNCHANGED <<notes, nullifiers>>,
         \A c \in Clients :
           /\ calls[c].step = "ended" => calls'[c].step = "ended"
           /\ calls'[c].step \in {"check", "write", "anchor"} => calls'[c].old \in notes
  PROVE  NotesInv'
PROOF
  <1>1. IsFiniteSet(notes)' /\ NotesOnce' /\ SpentAreNotes' /\ ValueConserved'
    BY DEF NotesInv, NotesOnce, SpentAreNotes, ValueConserved
  <1>2. NewNotesOfEnded' /\ OldNoteFound'
    BY DEF NotesInv, NewNotesOfEnded, OldNoteFound
  <1> QED BY <1>1, <1>2 DEF NotesInv

LEMMA NotesNext == Inv /\ NotesInv /\ [Next]_vars => NotesInv'
PROOF
  <1> SUFFICES ASSUME Inv, NotesInv, [Next]_vars PROVE NotesInv'
    OBVIOUS
  <1>1. ASSUME NEW c \in Clients, Commit(c) PROVE NotesInv'
    <2> DEFINE old == calls[c].old
               new == [note |-> Fresh[c], amount |-> old.amount]
    <2>1. /\ calls \in [Clients -> CallRecords] /\ calls' = [calls EXCEPT ![c] = Ended]
          /\ calls[c].step = "anchor" /\ notes \subseteq NoteRows
          /\ notes' = notes \cup {new} /\ nullifiers' = nullifiers \cup {old.note}
      BY <1>1 DEF Commit, Become, Inv, CallsInv, TablesType
    <2>2. /\ old \in notes /\ old.note \notin nullifiers
          /\ \A n \in notes : n.note # Fresh[c]
      BY <2>1 DEF Inv, CallsInv, OneSpender, Writing, NotesInv, OldNoteFound, NewNotesOfEnded
    <2>3. new.note = Fresh[c] /\ new.amount = old.amount /\ new \notin notes
      BY <2>2
    <2> HIDE DEF old, new
    <2>4. IsFiniteSet(notes')
      BY <2>1, FS_AddElement DEF NotesInv
    <2>5. NotesOnce'
      BY <2>1, <2>2, <2>3 DEF NotesInv, NotesOnce
    <2>6. NewNotesOfEnded'
      BY <2>1, <2>3, IdleAndEnded, ShieldedAssumption DEF NotesInv, NewNotesOfEnded
    <2>7. OldNoteFound'
      BY <2>1, IdleAndEnded DEF NotesInv, OldNoteFound
    <2>8. SpentAreNotes'
      BY <2>1, <2>2 DEF NotesInv, SpentAreNotes
    <2>9. ValueConserved'
      <3>1. Fresh[c] \notin nullifiers
        BY <2>2 DEF NotesInv, SpentAreNotes
      <3>2. Unspent' = (Unspent \ {old}) \cup {new}
        BY <2>1, <2>2, <2>3, <3>1 DEF Unspent, NotesInv, NotesOnce
      <3>3. IsFiniteSet(Unspent)
        BY FS_Subset DEF NotesInv, Unspent
      <3>4. \A n \in Unspent : n.amount \in Int
        BY <2>1 DEF Unspent, NoteRows
      <3>5. old \in Unspent /\ new \notin Unspent
        BY <2>2, <2>3 DEF Unspent
      <3>6. Total((Unspent \ {old}) \cup {new}) = Total(Unspent)
        <4> DEFINE S == Unspent
        <4> HIDE DEF S
        <4> QED BY <2>3, <3>3, <3>4, <3>5, TotalReplaced DEF S
      <3>7. Total(Unspent) = Total(Deposited) /\ (ValueConserved <=> Total(Unspent) = Total(Deposited))
        BY DEF NotesInv, ValueConserved, Unspent, Deposited
      <3>8. Total(Unspent') = Total(Deposited)
        BY <3>2, <3>6, <3>7
      <3> QED BY <3>8 DEF ValueConserved, Unspent, Deposited, Total
    <2> QED BY <2>4, <2>5, <2>6, <2>7, <2>8, <2>9 DEF NotesInv
  <1>2. ASSUME ~ \E c \in Clients : Commit(c) PROVE NotesInv'
    <2>1. UNCHANGED <<notes, nullifiers>>
      BY <1>2 DEF Next, vars, ledger, Begin, Serve, FindNote, CheckNullifier, WriteRows, StartAnchor,
                  RunAnchor, LoseAnchor, TakeReceipt, Crash, Terminated, tables
    <2>2. ASSUME NEW c \in Clients
          PROVE  /\ calls[c].step = "ended" => calls'[c].step = "ended"
                 /\ calls'[c].step \in {"check", "write", "anchor"} => calls'[c].old \in notes
      <3> DEFINE Kept == /\ calls[c].step = "ended" => calls'[c].step = "ended"
                         /\ calls'[c].step \in {"check", "write", "anchor"} => calls'[c].old \in notes
      <3>0. /\ calls \in [Clients -> CallRecords]
            /\ calls[c].step \in {"check", "write", "anchor"} => calls[c].old \in notes
        BY DEF Inv, CallsInv, TablesType, NotesInv, OldNoteFound
      <3>1. CASE UNCHANGED calls
        BY <3>0, <3>1
      <3>2. ASSUME NEW d \in Clients, NEW claim \in Claims, Begin(d, claim) PROVE Kept
        BY <3>0, <3>2 DEF Begin, Become, Idle
      <3>a. ASSUME NEW d \in Clients, NEW call, Become(d, call), calls[d].step # "ended",
                   call.step \in {"check", "write", "anchor"} => call.old \in notes
            PROVE  Kept
        BY <3>0, <3>a DEF Become
      <3>b. ASSUME NEW d \in Clients, NEW step, Goto(d, step), calls[d].step # "ended",
                   calls[d].old \in notes
            PROVE  Kept
        <4> DEFINE call == [calls[d] EXCEPT !.step = step]
        <4>1. call.old = calls[d].old
          BY <3>0 DEF CallRecords
        <4>2. Become(d, call)
          BY <3>b DEF Goto
        <4> HIDE DEF call, Kept
        <4> QED BY <3>a, <3>b, <4>1, <4>2
      <3>3. ASSUME NEW d \in Clients, FindNote(d) PROVE Kept
        <4> HIDE DEF Kept
        <4> QED BY <3>3, <3>a, <3>b, IdleAndEnded DEF FindNote
      <3>4. ASSUME NEW d \in Clients, CheckNullifier(d) PROVE Kept
        <4>1. calls[d].old \in notes
          BY <3>4 DEF CheckNullifier, NotesInv, OldNoteFound
        <4> HIDE DEF Kept
        <4> QED BY <3>4, <4>1, <3>a, <3>b, IdleAndEnded DEF CheckNullifier
      <3>5. ASSUME NEW d \in Clients, WriteRows(d) PROVE Kept
        <4> DEFINE call == [calls[d] EXCEPT !.step = "anchor",
                                            !.todo = AnchorOrder(calls[d].old.note, Fresh[d])]
        <4>1. calls[d].old \in notes /\ calls[d].step # "ended" /\ Ended.step # "anchor"
              /\ Ended.step \notin {"check", "write"}
          BY <3>5, IdleAndEnded DEF WriteRows, NotesInv, OldNoteFound
        <4>2. call.old = calls[d].old
          BY <3>0 DEF CallRecords
        <4>3. Become(d, Ended) \/ Become(d, call)
          BY <3>5 DEF WriteRows
        <4> HIDE DEF call, Kept
        <4>4. CASE Become(d, Ended)
          BY <4>1, <4>4, <3>a
        <4>5. CASE Become(d, call)
          BY <4>1, <4>2, <4>5, <3>a
        <4> QED BY <4>3, <4>4, <4>5
      <3>6. ASSUME NEW d \in Clients, TakeReceipt(d) PROVE Kept
        <4> DEFINE call == [calls[d] EXCEPT !.todo = Tail(calls[d].todo)]
        <4>1. calls[d].old \in notes /\ calls[d].step # "ended" /\ Ended.step # "anchor"
              /\ Ended.step \notin {"check", "write"}
          BY <3>6, IdleAndEnded DEF TakeReceipt, NotesInv, OldNoteFound
        <4>2. call.old = calls[d].old
          BY <3>0 DEF CallRecords
        <4>3. Become(d, Ended) \/ Become(d, call)
          BY <3>6 DEF TakeReceipt
        <4> HIDE DEF call, Kept
        <4>4. CASE Become(d, Ended)
          BY <4>1, <4>4, <3>a
        <4>5. CASE Become(d, call)
          BY <4>1, <4>2, <4>5, <3>a
        <4> QED BY <4>3, <4>4, <4>5
      <3>7. ASSUME NEW d \in Clients, Crash(d) PROVE Kept
        BY <3>0, <3>7, IdleAndEnded DEF Crash, Become
      <3> QED BY <1>2, <3>1, <3>2, <3>3, <3>4, <3>5, <3>6, <3>7
              DEF Next, vars, Serve, StartAnchor, RunAnchor, LoseAnchor, Terminated
    <2> QED BY <2>1, <2>2, NotesStay DEF Inv
  <1> QED BY <1>1, <1>2

\* Whatever transfers run at once, fail or die, the notes nobody has spent hold
\* what was deposited.
THEOREM ValuePreserved == Spec => []ValueConserved
PROOF
  <1>1. Spec => []NotesInv
    BY InitInv, NextInv, NotesInit, NotesNext, PTL DEF Spec
  <1>2. NotesInv => ValueConserved
    BY DEF NotesInv
  <1> QED BY <1>1, <1>2, PTL
=============================================================================
