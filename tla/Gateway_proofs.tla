---------------------------- MODULE Gateway_proofs ----------------------------
(* What holds of the gateway for every set of calls, keys and requests, and    *)
(* for every capacity of the nonce store.                                      *)
EXTENDS Gateway, FiniteSetTheorems, TLAPS

Steps == {"signed", "authentic", "managed", "handle", "anchor", "done"}
BusyCalls == [pc : Steps, req : Requests[scenario], from : Nat, at : Nat]

Typed ==
    /\ scenario \in DOMAIN Requests
    /\ history \in [Keys -> Seq(Versions)]
    /\ calls \in [Calls -> {Idle} \cup BusyCalls]
    /\ grants \in [Keys \X Datasets -> Int]
    /\ now \in Nat

\* A version of the document that was current during call k, of which P holds.
KeyHeld(k, h) ==
    \E v \in k.from .. Len(h[k.req.did]) :
        v > 0 /\ IsActive(h[k.req.did][v].doc, k.req.key)
RoleHeld(k, h) ==
    \E v \in k.from .. Len(h[k.req.did]) :
        v > 0 /\ h[k.req.did][v].doc.kind = "regulator"

\* What a busy call rests on, given the documents, the grants and the policies
\* committed so far.
Warranted(k, h, g, s) ==
    /\ k.from <= Len(h[k.req.did])
    /\ (k.pc # "signed" /\ ~Unsigned(k.req)) => KeyHeld(k, h)
    /\ (k.pc \in {"handle", "anchor", "done"} /\ Managed(k.req)) => RoleHeld(k, h)
    /\ (k.pc = "done" /\ k.req.op = "decrypt") => k.at < g[<<k.req.did, "shielded:extra">>]
    /\ k.pc = "anchor" => k.req.op = "policy" /\ k.req.arg \in s

AllWarranted ==
    \A c \in Calls : calls[c] # Idle => Warranted(calls[c], history, grants, saved)

Inv == Typed /\ AllWarranted /\ DocumentsSucceed /\ NoDanglingAnchor

(* Documents are only appended to, grants only extended.                       *)
Extends(h, h2) ==
    \A d \in Keys : /\ Len(h[d]) <= Len(h2[d])
                    /\ \A v \in 1 .. Len(h[d]) : h2[d][v] = h[d][v]
GrantsExtend(g, g2) == \A e \in Keys \X Datasets : g[e] <= g2[e]

Histories == [Keys -> Seq(Versions)]
Grants    == [Keys \X Datasets -> Int]

(* What a call rests on is not taken away by what is committed later.          *)
LEMMA WarrantsLast ==
  ASSUME NEW k, k.from \in Nat, k.req.did \in Keys, k.at \in Nat,
         NEW h \in Histories, NEW h2 \in Histories, Extends(h, h2),
         NEW g \in Grants, NEW g2 \in Grants, GrantsExtend(g, g2),
         NEW s, NEW s2, s \subseteq s2,
         Warranted(k, h, g, s)
  PROVE  Warranted(k, h2, g2, s2)
<1> DEFINE d == k.req.did
           n == Len(h[d])
           n2 == Len(h2[d])
<1>1. n \in Nat /\ n2 \in Nat
  BY DEF Histories
<1>2. n <= n2 /\ \A v \in 1 .. n : h2[d][v] = h[d][v]
  BY DEF Extends
<1>3. k.from <= n2
  <2>1. k.from <= n
    BY DEF Warranted
  <2> HIDE DEF n, n2
  <2> QED
    BY <1>1, <1>2, <2>1
<1>4. ASSUME NEW v \in k.from .. n, v > 0
      PROVE  v \in k.from .. n2 /\ h2[d][v] = h[d][v]
  <2> HIDE DEF n, n2
  <2>1. v \in 1 .. n /\ v \in k.from .. n2
    BY <1>1, <1>2, <1>4
  <2> QED
    BY <1>2, <2>1
<1>5. KeyHeld(k, h) => KeyHeld(k, h2)
  <2> SUFFICES ASSUME KeyHeld(k, h) PROVE KeyHeld(k, h2)
    OBVIOUS
  <2>1. PICK v \in k.from .. n : v > 0 /\ IsActive(h[d][v].doc, k.req.key)
    BY DEF KeyHeld
  <2>2. v \in k.from .. n2 /\ h2[d][v] = h[d][v]
    BY <1>4, <2>1
  <2> QED
    BY <2>1, <2>2 DEF KeyHeld
<1>6. RoleHeld(k, h) => RoleHeld(k, h2)
  <2> SUFFICES ASSUME RoleHeld(k, h) PROVE RoleHeld(k, h2)
    OBVIOUS
  <2>1. PICK v \in k.from .. n : v > 0 /\ h[d][v].doc.kind = "regulator"
    BY DEF RoleHeld
  <2>2. v \in k.from .. n2 /\ h2[d][v] = h[d][v]
    BY <1>4, <2>1
  <2> QED
    BY <2>1, <2>2 DEF RoleHeld
<1>7. k.at < g[<<d, "shielded:extra">>] => k.at < g2[<<d, "shielded:extra">>]
  <2> DEFINE e == <<d, "shielded:extra">>
  <2>1. e \in Keys \X Datasets
    BY GatewayAssumption
  <2>2. g[e] \in Int /\ g2[e] \in Int /\ g[e] <= g2[e]
    BY <2>1 DEF Grants, GrantsExtend
  <2> HIDE DEF e
  <2>3. k.at < g[e] => k.at < g2[e]
    BY <2>2
  <2> QED
    BY <2>3 DEF e
<1> QED
  BY <1>3, <1>5, <1>6, <1>7 DEF Warranted

(* A step of one call, and of the tables, keeps every call warranted if the   *)
(* record it leaves behind is.                                                *)
LEMMA StepKeepsWarrants ==
  ASSUME Typed, AllWarranted, NEW c \in Calls,
         calls'[c] # Idle => Warranted(calls'[c], history', grants', saved'),
         \A o \in Calls \ {c} : calls'[o] = calls[o],
         history' \in Histories, Extends(history, history'),
         grants' \in Grants, GrantsExtend(grants, grants'), saved \subseteq saved'
  PROVE  AllWarranted'
<1> SUFFICES ASSUME NEW o \in Calls, calls'[o] # Idle
             PROVE  Warranted(calls'[o], history', grants', saved')
  BY DEF AllWarranted
<1>1. CASE o = c
  BY <1>1
<1>2. CASE o # c
  <2> DEFINE k == calls[o]
  <2>1. k \in BusyCalls /\ calls'[o] = k
    BY <1>2 DEF Typed
  <2>2. k.from \in Nat /\ k.at \in Nat /\ k.req \in Requests[scenario]
    BY <2>1 DEF BusyCalls
  <2>3. k.req.did \in Keys
    BY <2>2, RequestsAssumption DEF Typed
  <2>4. Warranted(k, history, grants, saved)
    BY <2>1 DEF AllWarranted
  <2>5. history \in Histories /\ grants \in Grants
    BY DEF Typed, Histories, Grants
  <2> HIDE DEF k
  <2>6. Warranted(k, history', grants', saved')
    BY <2>2, <2>3, <2>4, <2>5, WarrantsLast
  <2> QED
    BY <2>1, <2>6
<1> QED
  BY <1>1, <1>2

-------------------------------------------------------------------------------
(* The rows of a document are methods that it was sent with.                  *)
LEMMA StoredIs ==
  ASSUME NEW doc \in Submitted
  PROVE  /\ Stored(doc) \in Documents
         /\ \A m \in StoredMethods(doc) : \E i \in DOMAIN doc.methods :
               m = doc.methods[i] /\ IsLast(doc, i)
<1>1. \A i \in DOMAIN doc.methods : doc.methods[i] \in Methods
  BY DEF Submitted
<1>2. StoredMethods(doc) \subseteq Methods
  BY <1>1 DEF StoredMethods
<1>3. doc.did \in Keys /\ doc.kind \in Kinds /\ doc.parent \in Keys \cup {NoKey}
  BY DEF Submitted
<1> QED
  BY <1>2, <1>3 DEF Stored, Documents, StoredMethods

(* Of an ordered document the key that derives the DID is the active one.     *)
LEMMA DerivedIsActive ==
  ASSUME NEW doc \in Submitted, SelfDerived(doc), IsOrdered(doc)
  PROVE  IsActive(Stored(doc), doc.did)
<1>1. PICK i \in DOMAIN doc.methods :
         /\ doc.methods[i].key = doc.did /\ ~doc.methods[i].revoked
         /\ \A j \in DOMAIN doc.methods :
               \/ doc.methods[j].revoked
               \/ ByteRank[doc.methods[i].id] < ByteRank[doc.methods[j].id]
               \/ doc.methods[i].id = doc.methods[j].id /\ i <= j
  BY DEF SelfDerived
<1>2. doc.methods \in Seq(Methods)
  BY DEF Submitted
<1> DEFINE m == doc.methods[i]
           n == Len(doc.methods)
<1>3. n \in Nat /\ DOMAIN doc.methods = 1 .. n /\ i \in 1 .. n
  BY <1>2
<1>4. \A j \in 1 .. n : doc.methods[j] \in Methods
  BY <1>2, <1>3
<1>5. \A j \in 1 .. n : j # i => doc.methods[j].id # m.id
  BY <1>3 DEF IsOrdered
<1>6. IsLast(doc, i)
  <2>1. \A j \in i + 1 .. n : j \in 1 .. n /\ j # i
    <3> HIDE DEF n
    <3> QED BY <1>3
  <2> QED
    BY <2>1, <1>5 DEF IsLast
<1>7. m \in StoredMethods(doc)
  BY <1>1, <1>6 DEF StoredMethods
<1>8. ASSUME NEW o \in StoredMethods(doc)
      PROVE  o.revoked \/ Collation[m.id] <= Collation[o.id]
  <2>1. PICK j \in 1 .. n : o = doc.methods[j]
    BY <1>3, StoredIs
  <2>2. Collation[m.id] \in Nat /\ Collation[o.id] \in Nat
    <3>1. m.id \in Ids /\ o.id \in Ids
      BY <1>3, <1>4, <2>1 DEF Methods
    <3> QED
      BY <3>1, OrdersAssumption
  <2>3. CASE j = i
    BY <2>1, <2>2, <2>3
  <2>4. CASE j # i
    <3>1. o.id # m.id
      BY <1>5, <2>1, <2>4
    <3>2. o.revoked \/ ByteRank[m.id] < ByteRank[o.id]
      BY <1>1, <1>3, <2>1, <3>1
    <3>3. ByteRank[m.id] < ByteRank[o.id] <=> Collation[m.id] < Collation[o.id]
      BY <1>3, <2>1, <2>4 DEF IsOrdered
    <3>4. Collation[m.id] < Collation[o.id] => Collation[m.id] <= Collation[o.id]
      <4> DEFINE x == Collation[m.id]
                 y == Collation[o.id]
      <4> HIDE DEF x, y
      <4>1. x \in Nat /\ y \in Nat => (x < y => x <= y)
        OBVIOUS
      <4> QED
        BY <2>2, <4>1 DEF x, y
    <3> QED
      BY <3>2, <3>3, <3>4, Zenon
  <2> QED
    BY <2>3, <2>4
<1> QED
  <2>1. Stored(doc).methods = StoredMethods(doc)
    BY DEF Stored
  <2> QED
    BY <1>1, <1>7, <1>8, <2>1 DEF IsActive

(* A commit appends one version to one document.                              *)
LEMMA CommitAppends ==
  ASSUME Typed, NEW doc \in Submitted, NEW by \in Keys, NEW from \in Nat,
         Commit(doc, by, from)
  PROVE  /\ history' \in Histories /\ Extends(history, history')
         /\ Len(history'[doc.did]) = Len(history[doc.did]) + 1
         /\ history'[doc.did][Len(history[doc.did]) + 1].doc = Stored(doc)
         /\ history'[doc.did][Len(history[doc.did]) + 1].sent = doc
         /\ history'[doc.did][Len(history[doc.did]) + 1].by = by
         /\ \A d \in Keys : d # doc.did => history'[d] = history[d]
<1> DEFINE last == [doc |-> Stored(doc), sent |-> doc, by |-> by, from |-> from]
           d == doc.did
<1>1. d \in Keys /\ last \in Versions
  BY StoredIs DEF Submitted, Versions
<1>2. history \in [Keys -> Seq(Versions)]
  BY DEF Typed
<1>3. history' = [history EXCEPT ![d] = Append(@, last)]
  BY DEF Commit
<1>4. last.doc = Stored(doc) /\ last.sent = doc /\ last.by = by
  OBVIOUS
<1> HIDE DEF last, d
<1>5. /\ history'[d] = Append(history[d], last)
      /\ \A e \in Keys : e # d => history'[e] = history[e]
  BY <1>1, <1>2, <1>3
<1>6. history[d] \in Seq(Versions) /\ history'[d] \in Seq(Versions)
  BY <1>1, <1>2, <1>5
<1>7. history' \in Histories
  BY <1>2, <1>3, <1>6 DEF Histories
<1>8. /\ Len(history'[d]) = Len(history[d]) + 1
      /\ history'[d][Len(history[d]) + 1] = last
      /\ \A v \in 1 .. Len(history[d]) : history'[d][v] = history[d][v]
  BY <1>5, <1>6
<1>9. Extends(history, history')
  <2> SUFFICES ASSUME NEW e \in Keys
               PROVE  /\ Len(history[e]) <= Len(history'[e])
                      /\ \A v \in 1 .. Len(history[e]) : history'[e][v] = history[e][v]
    BY DEF Extends
  <2>1. Len(history[e]) \in Nat
    BY <1>2
  <2>2. CASE e = d
    BY <1>8, <2>1, <2>2
  <2>3. CASE e # d
    BY <1>5, <2>1, <2>3
  <2> QED
    BY <2>2, <2>3
<1> QED
  BY <1>4, <1>5, <1>7, <1>8, <1>9 DEF d

(* A new version keeps the chain of keys if it is the first one and derives   *)
(* the DID, or is signed with a key that was active before.                   *)
LEMMA CommitSucceeds ==
  ASSUME Typed, DocumentsSucceed,
         NEW doc \in Submitted, NEW by \in Keys, NEW from \in Nat,
         Commit(doc, by, from),
         IF Len(history[doc.did]) = 0 THEN SelfDerived(doc)
         ELSE \E u \in 1 .. Len(history[doc.did]) : IsActive(history[doc.did][u].doc, by)
  PROVE  DocumentsSucceed'
<1> DEFINE d == doc.did
           n == Len(history[d])
<1>1. d \in Keys /\ n \in Nat
  BY DEF Submitted, Typed
<1>2. /\ Len(history'[d]) = n + 1
      /\ history'[d][n + 1].doc = Stored(doc) /\ history'[d][n + 1].by = by
      /\ history'[d][n + 1].sent = doc
      /\ \A e \in Keys : e # d => history'[e] = history[e]
      /\ \A v \in 1 .. n : history'[d][v] = history[d][v]
      /\ history' \in Histories
  BY <1>1, CommitAppends DEF Extends
<1> SUFFICES ASSUME NEW e \in Keys, NEW v \in DOMAIN history'[e]
             PROVE  IF v = 1 THEN IsOrdered(history'[e][1].sent) => IsActive(history'[e][1].doc, e)
                    ELSE \E u \in 1 .. v - 1 : IsActive(history'[e][u].doc, history'[e][v].by)
  BY DEF DocumentsSucceed
<1>3. CASE e # d
  BY <1>2, <1>3 DEF DocumentsSucceed
<1>4. CASE e = d
  <2>1. v \in 1 .. n + 1
    BY <1>1, <1>2, <1>4 DEF Histories
  <2>2. CASE v = n + 1
    <3>1. CASE n = 0
      <4> HIDE DEF d, n
      <4>1. v = 1 /\ history'[d][1].doc = Stored(doc) /\ history'[d][1].sent = doc
        BY <1>2, <2>2, <3>1
      <4>2. IsOrdered(doc) => IsActive(Stored(doc), doc.did)
        BY <3>1, DerivedIsActive DEF n, d
      <4> QED
        BY <1>4, <4>1, <4>2 DEF d
    <3>2. CASE n # 0
      <4>1. PICK u \in 1 .. n : IsActive(history[d][u].doc, by)
        BY <3>2
      <4>2. history'[d][u] = history[d][u]
        BY <1>2
      <4> HIDE DEF n
      <4>3. v # 1 /\ u \in 1 .. v - 1
        BY <1>1, <2>2, <3>2
      <4> QED
        BY <1>2, <1>4, <2>2, <4>1, <4>2, <4>3
    <3> QED
      BY <3>1, <3>2
  <2>3. CASE v \in 1 .. n
    <3>1. history[d] \in Seq(Versions)
      BY <1>1 DEF Typed
    <3>2. v \in DOMAIN history[d]
      BY <2>3, <3>1
    <3>3. IF v = 1 THEN IsOrdered(history[d][1].sent) => IsActive(history[d][1].doc, d)
          ELSE \E u \in 1 .. v - 1 : IsActive(history[d][u].doc, history[d][v].by)
      BY <1>1, <3>2 DEF DocumentsSucceed
    <3> HIDE DEF n
    <3>4. \A u \in 1 .. v - 1 : u \in 1 .. n
      BY <1>1, <2>3
    <3>5. 1 \in 1 .. n
      BY <1>1, <2>3
    <3> HIDE DEF d
    <3>6. CASE v = 1
      BY <1>2, <1>4, <3>3, <3>5, <3>6
    <3>7. CASE v # 1
      BY <1>2, <1>4, <2>3, <3>3, <3>4, <3>7
    <3> QED
      BY <3>6, <3>7
  <2> QED
    <3> HIDE DEF n
    <3> QED BY <1>1, <2>1, <2>2, <2>3
<1> QED
  BY <1>3, <1>4

-------------------------------------------------------------------------------
(* A call in one of the steps is busy with a request of the scenario.         *)
LEMMA BusyCall ==
  ASSUME Typed, AllWarranted, NEW c \in Calls, NEW p \in Steps, InState(c, p)
  PROVE  /\ calls[c] \in BusyCalls /\ calls[c] # Idle
         /\ Request(c) \in Requests[scenario]
         /\ Request(c).did \in Keys /\ Request(c).key \in Keys
         /\ calls[c].from \in Nat
         /\ Warranted(calls[c], history, grants, saved)
<1>1. calls[c] # Idle
  BY DEF InState, Idle, Steps
<1>2. calls[c] \in BusyCalls
  BY <1>1 DEF Typed
<1>3. Request(c) \in Requests[scenario] /\ calls[c].from \in Nat
  BY <1>2 DEF BusyCalls, Request
<1>4. Request(c).did \in Keys /\ Request(c).key \in Keys
  BY <1>3, RequestsAssumption DEF Typed
<1>5. Warranted(calls[c], history, grants, saved)
  BY <1>1 DEF AllWarranted
<1> QED
  BY <1>1, <1>2, <1>3, <1>4, <1>5

(* What Move and Leave do to the calls.                                       *)
LEMMA MoveCalls ==
  ASSUME Typed, AllWarranted, NEW c \in Calls, NEW p \in Steps, NEW q \in Steps,
         InState(c, p), Move(c, q), scenario' = scenario
  PROVE  /\ calls' \in [Calls -> {Idle} \cup BusyCalls']
         /\ \A o \in Calls \ {c} : calls'[o] = calls[o]
         /\ calls'[c].pc = q /\ calls'[c].req = calls[c].req
         /\ calls'[c].from = calls[c].from /\ calls'[c].at = calls[c].at
<1>1. calls[c] \in BusyCalls
  BY BusyCall
<1>2. calls' = [calls EXCEPT ![c].pc = q] /\ BusyCalls' = BusyCalls
  BY DEF Move, BusyCalls
<1>3. calls'[c] = [calls[c] EXCEPT !.pc = q] /\ \A o \in Calls \ {c} : calls'[o] = calls[o]
  BY <1>2 DEF Typed
<1>4. /\ calls'[c] \in BusyCalls
      /\ calls'[c].pc = q /\ calls'[c].req = calls[c].req
      /\ calls'[c].from = calls[c].from /\ calls'[c].at = calls[c].at
  BY <1>1, <1>3 DEF BusyCalls
<1>5. calls' \in [Calls -> {Idle} \cup BusyCalls]
  BY <1>2, <1>4 DEF Typed
<1> QED
  BY <1>2, <1>3, <1>4, <1>5

LEMMA LeaveCalls ==
  ASSUME Typed, NEW c \in Calls, Leave(c), scenario' = scenario
  PROVE  /\ calls' \in [Calls -> {Idle} \cup BusyCalls']
         /\ \A o \in Calls \ {c} : calls'[o] = calls[o]
         /\ calls'[c] = Idle
<1>1. BusyCalls' = BusyCalls
  BY DEF BusyCalls
<1> QED
  BY <1>1 DEF Leave, Typed

(* A step of one call that writes no table, or an anchor only.                *)
LEMMA QuietStep ==
  ASSUME Inv, NEW c \in Calls,
         calls' \in [Calls -> {Idle} \cup BusyCalls'],
         \A o \in Calls \ {c} : calls'[o] = calls[o],
         calls'[c] # Idle => Warranted(calls'[c], history, grants, saved),
         anchors' = anchors \/ anchors' \subseteq saved,
         UNCHANGED <<history, grants, saved, scenario, now>>
  PROVE  Inv'
<1>1. Typed /\ AllWarranted /\ DocumentsSucceed /\ NoDanglingAnchor
  BY DEF Inv
<1>2. Typed'
  BY <1>1 DEF Typed
<1>3. Extends(history, history') /\ history' \in Histories
  BY <1>1 DEF Extends, Histories, Typed
<1>4. GrantsExtend(grants, grants') /\ grants' \in Grants
  BY <1>1 DEF GrantsExtend, Grants, Typed
<1>5. AllWarranted'
  BY <1>1, <1>3, <1>4, StepKeepsWarrants
<1>6. DocumentsSucceed' /\ NoDanglingAnchor'
  BY <1>1 DEF DocumentsSucceed, NoDanglingAnchor
<1> QED
  BY <1>2, <1>5, <1>6 DEF Inv

LEMMA QuietLeave ==
  ASSUME Inv, NEW c \in Calls, Leave(c),
         UNCHANGED <<history, grants, saved, anchors, scenario, now>>
  PROVE  Inv'
<1>1. /\ calls' \in [Calls -> {Idle} \cup BusyCalls']
      /\ \A o \in Calls \ {c} : calls'[o] = calls[o]
      /\ calls'[c] = Idle
  BY LeaveCalls DEF Inv
<1> QED
  BY <1>1, QuietStep

LEMMA ArriveStep == ASSUME Inv, NEW c \in Calls, Arrive(c) PROVE Inv'
<1>1. PICK r \in Requests[scenario] :
         calls' = [calls EXCEPT ![c] =
            Busy(IF Unsigned(r) THEN "handle" ELSE "signed", r, Len(history[r.did]))]
  BY DEF Arrive
<1>2. UNCHANGED <<history, grants, saved, anchors, scenario, now>>
  BY DEF Arrive, tables
<1> DEFINE p == IF Unsigned(r) THEN "handle" ELSE "signed"
           n == Len(history[r.did])
           k == [pc |-> p, req |-> r, from |-> n, at |-> now]
<1>3. r.did \in Keys /\ p \in Steps
  BY RequestsAssumption DEF Inv, Typed, Steps
<1>4. n \in Nat
  BY <1>3 DEF Inv, Typed
<1>5. /\ calls' = [calls EXCEPT ![c] = k]
      /\ calls \in [Calls -> {Idle} \cup BusyCalls] /\ BusyCalls' = BusyCalls
  BY <1>1, <1>2 DEF Busy, Inv, Typed, BusyCalls
<1>6. k \in BusyCalls
  BY <1>3, <1>4 DEF BusyCalls, Inv, Typed
<1>7. Warranted(k, history, grants, saved)
  <2>1. k.pc = p /\ k.req = r /\ k.from = n
    OBVIOUS
  <2> HIDE DEF k
  <2>2. k.from <= Len(history[k.req.did])
    BY <1>4, <2>1
  <2>3. CASE Unsigned(r)
    BY <2>1, <2>2, <2>3 DEF Warranted, Unsigned, Managed
  <2>4. CASE ~Unsigned(r)
    BY <2>1, <2>2, <2>4 DEF Warranted
  <2> QED
    BY <2>3, <2>4
<1> HIDE DEF k
<1>8. /\ calls' \in [Calls -> {Idle} \cup BusyCalls']
      /\ calls'[c] = k /\ \A o \in Calls \ {c} : calls'[o] = calls[o]
  BY <1>5, <1>6
<1> QED
  BY <1>2, <1>7, <1>8, QuietStep

(* A quiet step that moves a call on: what it rested on before, and what the  *)
(* new step asks for besides.                                                 *)
LEMMA QuietMove ==
  ASSUME Inv, NEW c \in Calls, NEW p \in Steps, NEW q \in Steps,
         InState(c, p), Move(c, q),
         (p = "signed" /\ q # "signed" /\ ~Unsigned(Request(c))) => KeyHeld(calls[c], history),
         (q \in {"handle", "anchor", "done"} /\ Managed(Request(c)))
            => (p \in {"handle", "anchor", "done"} \/ RoleHeld(calls[c], history)),
         (q = "done" /\ Request(c).op = "decrypt")
            => calls[c].at < grants[<<Request(c).did, "shielded:extra">>],
         q # "anchor",
         anchors' = anchors \/ anchors' \subseteq saved,
         UNCHANGED <<history, grants, saved, scenario, now>>
  PROVE  Inv'
<1>1. /\ calls' \in [Calls -> {Idle} \cup BusyCalls']
      /\ \A o \in Calls \ {c} : calls'[o] = calls[o]
      /\ calls'[c].pc = q /\ calls'[c].req = calls[c].req
      /\ calls'[c].from = calls[c].from /\ calls'[c].at = calls[c].at
  BY MoveCalls DEF Inv
<1>2. Warranted(calls[c], history, grants, saved) /\ calls[c].pc = p
  BY BusyCall DEF Inv, InState
<1>3. Warranted(calls'[c], history, grants, saved)
  BY <1>1, <1>2 DEF Warranted, KeyHeld, RoleHeld, Request
<1> QED
  BY <1>1, <1>3, QuietStep

LEMMA AuthenticateStep == ASSUME Inv, NEW c \in Calls, Authenticate(c) PROVE Inv'
<1>1. InState(c, "signed") /\ UNCHANGED <<history, grants, saved, anchors, scenario, now>>
  BY DEF Authenticate, tables, clock
<1>2. CASE KeyMatches(Request(c))
  <2> DEFINE d == Request(c).did
             n == Len(history[d])
  <2>1. Move(c, "authentic")
    BY <1>2 DEF Authenticate
  <2>2. /\ d \in Keys /\ calls[c].from \in Nat
        /\ Warranted(calls[c], history, grants, saved)
    BY <1>1, BusyCall DEF Inv, Steps
  <2>3. n \in Nat /\ calls[c].from <= n
    BY <2>2 DEF Inv, Typed, Warranted, Request
  <2>4. n > 0 /\ IsActive(history[d][n].doc, Request(c).key)
    BY <1>2 DEF KeyMatches, Registered, Current
  <2>5. KeyHeld(calls[c], history)
    <3>1. n \in calls[c].from .. n
      <4> HIDE DEF n
      <4> QED BY <2>2, <2>3
    <3> QED
      BY <2>4, <3>1 DEF KeyHeld, Request
  <2> QED
    BY <1>1, <2>1, <2>5, QuietMove DEF Steps
<1>3. CASE ~KeyMatches(Request(c))
  BY <1>1, <1>3, QuietLeave DEF Authenticate
<1> QED
  BY <1>2, <1>3

LEMMA RecordNonceStep == ASSUME Inv, NEW c \in Calls, RecordNonce(c) PROVE Inv'
<1>1. InState(c, "authentic") /\ UNCHANGED <<history, grants, saved, anchors, scenario, now>>
  BY DEF RecordNonce, tables, clock
<1>2. Move(c, IF Managed(Request(c)) THEN "managed" ELSE "handle")
  BY DEF RecordNonce
<1>3. CASE Managed(Request(c))
  BY <1>1, <1>2, <1>3, QuietMove DEF Steps
<1>4. CASE ~Managed(Request(c))
  BY <1>1, <1>2, <1>4, QuietMove DEF Steps
<1> QED
  BY <1>3, <1>4

LEMMA RequireRegulatorStep == ASSUME Inv, NEW c \in Calls, RequireRegulator(c) PROVE Inv'
<1>1. InState(c, "managed") /\ UNCHANGED <<history, grants, saved, anchors, scenario, now>>
  BY DEF RequireRegulator, tables, clock
<1>2. CASE IsRegulator(Request(c).did)
  <2> DEFINE d == Request(c).did
             n == Len(history[d])
  <2>1. Move(c, "handle")
    BY <1>2 DEF RequireRegulator
  <2>2. /\ d \in Keys /\ calls[c].from \in Nat
        /\ Warranted(calls[c], history, grants, saved)
    BY <1>1, BusyCall DEF Inv, Steps
  <2>3. n \in Nat /\ calls[c].from <= n
    BY <2>2 DEF Inv, Typed, Warranted, Request
  <2>4. n > 0 /\ history[d][n].doc.kind = "regulator"
    BY <1>2 DEF IsRegulator, Registered, Current
  <2>5. RoleHeld(calls[c], history)
    <3>1. n \in calls[c].from .. n
      <4> HIDE DEF n
      <4> QED BY <2>2, <2>3
    <3> QED
      BY <2>4, <3>1 DEF RoleHeld, Request
  <2> QED
    BY <1>1, <2>1, <2>5, QuietMove DEF Steps
<1>3. CASE ~IsRegulator(Request(c).did)
  BY <1>1, <1>3, QuietLeave DEF RequireRegulator
<1> QED
  BY <1>2, <1>3

\* decrypt: the record keeps the time of the comparison.
LEMMA DecryptStep == ASSUME Inv, NEW c \in Calls, Decrypt(c) PROVE Inv'
<1>1. /\ InState(c, "handle") /\ Request(c).op = "decrypt"
      /\ UNCHANGED <<history, grants, saved, anchors, scenario, now>>
  BY DEF Decrypt, Handles, tables, clock
<1>2. CASE ~MayDecrypt(Request(c).did)
  BY <1>1, <1>2, QuietLeave DEF Decrypt
<1>3. CASE MayDecrypt(Request(c).did)
  <2>1. calls' = [calls EXCEPT ![c].pc = "done", ![c].at = now]
    BY <1>3 DEF Decrypt
  <2>2. calls[c] \in BusyCalls /\ Warranted(calls[c], history, grants, saved)
    BY <1>1, BusyCall DEF Inv, Steps
  <2>3. /\ calls \in [Calls -> {Idle} \cup BusyCalls] /\ BusyCalls' = BusyCalls
        /\ now \in Nat
    BY <1>1 DEF Inv, Typed, BusyCalls
  <2>4. /\ calls'[c] = [calls[c] EXCEPT !.pc = "done", !.at = now]
        /\ \A o \in Calls \ {c} : calls'[o] = calls[o]
    BY <2>1, <2>3
  <2>5. /\ calls'[c] \in BusyCalls
        /\ calls'[c].pc = "done" /\ calls'[c].req = calls[c].req
        /\ calls'[c].from = calls[c].from /\ calls'[c].at = now
    BY <2>2, <2>3, <2>4 DEF BusyCalls, Steps
  <2>6. calls' \in [Calls -> {Idle} \cup BusyCalls']
    BY <2>1, <2>3, <2>5
  <2>7. Warranted(calls'[c], history, grants, saved)
    BY <1>1, <1>3, <2>2, <2>5
       DEF Warranted, KeyHeld, RoleHeld, MayDecrypt, Request, InState, Unsigned, Managed
  <2> QED
    BY <1>1, <2>4, <2>6, <2>7, QuietStep
<1> QED
  BY <1>2, <1>3

(* Reads, and the calls that are handed to the engine.                        *)
LEMMA AnswerSteps ==
  ASSUME Inv, NEW c \in Calls, Execute(c) \/ Approve(c) \/ Read(c) \/ Reply(c)
                               \/ RefuseNonce(c) \/ RefuseAnchor(c)
  PROVE  Inv'
<1>1. UNCHANGED <<history, grants, saved, anchors, scenario, now>>
  BY DEF Execute, Approve, Read, Reply, RefuseNonce, RefuseAnchor, tables, clock
<1>2. CASE Leave(c)
  BY <1>1, <1>2, QuietLeave
<1>3. CASE /\ InState(c, "handle") /\ Request(c).op \in {"write", "read", "approve"}
           /\ Move(c, "done")
  BY <1>1, <1>3, QuietMove DEF Steps, Managed
<1> QED
  BY <1>2, <1>3 DEF Execute, Approve, Read, Reply, RefuseNonce, RefuseAnchor, Handles

-------------------------------------------------------------------------------
(* The steps that write.                                                      *)
LEMMA NoChange ==
  ASSUME Typed
  PROVE  /\ history \in Histories /\ Extends(history, history)
         /\ grants \in Grants /\ GrantsExtend(grants, grants)
  BY DEF Typed, Histories, Grants, Extends, GrantsExtend

(* A commit of a document by the call itself, with a key that is its own or   *)
(* was the active one.                                                        *)
LEMMA DocumentStep ==
  ASSUME Inv, NEW c \in Calls, InState(c, "handle"), Request(c).op \in {"register", "update"},
         NEW by \in Keys, NEW from \in Nat, Commit(Request(c).arg, by, from), Move(c, "done"),
         UNCHANGED <<grants, saved, anchors, scenario, now>>,
         LET d == Request(c).arg.did
         IN  IF Len(history[d]) = 0 THEN SelfDerived(Request(c).arg)
             ELSE \E u \in 1 .. Len(history[d]) : IsActive(history[d][u].doc, by)
  PROVE  Inv'
<1> DEFINE doc == Request(c).arg
           k == calls[c]
<1>1. Typed /\ AllWarranted /\ DocumentsSucceed /\ NoDanglingAnchor
  BY DEF Inv
<1>2. /\ k \in BusyCalls /\ Request(c) \in Requests[scenario]
      /\ Request(c).did \in Keys /\ Warranted(k, history, grants, saved)
  BY <1>1, BusyCall DEF Steps
<1>3. doc \in Submitted
  BY <1>1, <1>2, RequestsAssumption DEF Typed
<1>4. history' \in Histories /\ Extends(history, history')
  BY <1>1, <1>3, CommitAppends
<1>5. grants' \in Grants /\ GrantsExtend(grants, grants') /\ saved \subseteq saved'
  BY <1>1, NoChange
<1>6. /\ calls' \in [Calls -> {Idle} \cup BusyCalls']
      /\ \A o \in Calls \ {c} : calls'[o] = calls[o]
      /\ calls'[c].pc = "done" /\ calls'[c].req = k.req
      /\ calls'[c].from = k.from /\ calls'[c].at = k.at
  BY <1>1, MoveCalls DEF Steps
<1>7. Warranted(calls'[c], history', grants', saved')
  <2>1. k.from \in Nat /\ k.at \in Nat /\ k.req = Request(c) /\ k.pc = "handle"
    BY <1>2 DEF BusyCalls, Request, InState
  <2>2. history \in Histories /\ grants \in Grants
    BY <1>1, NoChange
  <2> HIDE DEF k
  <2>3. Warranted(k, history', grants', saved')
    BY <1>2, <1>4, <1>5, <2>1, <2>2, WarrantsLast
  <2> QED
    BY <1>6, <2>1, <2>3 DEF Warranted, KeyHeld, RoleHeld, Managed
<1>8. AllWarranted'
  BY <1>1, <1>4, <1>5, <1>6, <1>7, StepKeepsWarrants
<1>9. DocumentsSucceed'
  BY <1>1, <1>3, CommitSucceeds
<1>10. Typed' /\ NoDanglingAnchor'
  BY <1>1, <1>4, <1>6 DEF Typed, Histories, NoDanglingAnchor
<1> QED
  BY <1>8, <1>9, <1>10 DEF Inv

LEMMA RegisterStep == ASSUME Inv, NEW c \in Calls, Register(c) PROVE Inv'
<1> DEFINE doc == Request(c).arg
<1>1. InState(c, "handle") /\ Request(c).op = "register"
  BY DEF Register, Handles
<1>2. CASE ~SelfDerived(doc) \/ ~IsValid(doc) \/ RefusesInsert(doc)
  BY <1>2, QuietLeave DEF Register, Refuse, tables, clock
<1>3. CASE ~(~SelfDerived(doc) \/ ~IsValid(doc) \/ RefusesInsert(doc))
  <2>1. /\ InsertDocument(doc, doc.did, 0) /\ Move(c, "done")
        /\ UNCHANGED <<grants, saved, anchors, scenario, now>>
    BY <1>3 DEF Register, tables, clock
  <2>2. doc \in Submitted
    BY <1>1, BusyCall, RequestsAssumption DEF Inv, Typed, Steps
  <2>3. doc.did \in Keys /\ Len(history[doc.did]) \in Nat
    BY <2>2 DEF Submitted, Inv, Typed
  <2>4. Len(history[doc.did]) = 0
    BY <2>1, <2>3 DEF InsertDocument, Registered
  <2>5. SelfDerived(doc)
    BY <1>3
  <2>6. Commit(doc, doc.did, 0)
    BY <2>1 DEF InsertDocument
  <2> QED
    BY <1>1, <2>1, <2>3, <2>4, <2>5, <2>6, DocumentStep
<1> QED
  BY <1>2, <1>3

\* An update is of the signer's own document, whose active key signed it.
LEMMA UpdateStep == ASSUME Inv, NEW c \in Calls, Update(c) PROVE Inv'
<1> DEFINE doc == Request(c).arg
           k == calls[c]
<1>1. InState(c, "handle") /\ Request(c).op = "update"
  BY DEF Update, Handles
<1>2. CASE Request(c).did # doc.did \/ ~IsValid(doc) \/ RefusesSave(doc)
  BY <1>2, QuietLeave DEF Update, Refuse, tables, clock
<1>3. CASE ~(Request(c).did # doc.did \/ ~IsValid(doc) \/ RefusesSave(doc))
  <2>1. /\ SaveDocument(doc, Request(c).key, k.from) /\ Move(c, "done")
        /\ UNCHANGED <<grants, saved, anchors, scenario, now>>
    BY <1>3 DEF Update, tables, clock
  <2>2. /\ Request(c).key \in Keys /\ Request(c).did \in Keys /\ k.from \in Nat
        /\ Warranted(k, history, grants, saved)
    BY <1>1, BusyCall DEF Inv, Steps
  <2>3. KeyHeld(k, history)
    BY <1>1, <2>2 DEF Warranted, InState, Unsigned, Request
  <2>4. PICK v \in k.from .. Len(history[doc.did]) :
           v > 0 /\ IsActive(history[doc.did][v].doc, Request(c).key)
    BY <1>3, <2>3 DEF KeyHeld, Request
  <2> DEFINE n == Len(history[doc.did])
  <2>5. n \in Nat
    BY <1>3, <2>2 DEF Inv, Typed
  <2>6. v \in 1 .. n /\ n # 0
    <3> HIDE DEF n, k
    <3>1. v \in k.from .. n /\ v > 0
      BY <2>4 DEF n
    <3> QED BY <2>2, <2>5, <3>1
  <2>7. Commit(doc, Request(c).key, k.from)
    BY <2>1 DEF SaveDocument
  <2> QED
    BY <1>1, <2>1, <2>2, <2>4, <2>6, <2>7, DocumentStep
<1> QED
  BY <1>2, <1>3

(* A step that extends the grants or saves a policy.                          *)
LEMMA TableStep ==
  ASSUME Inv, NEW c \in Calls, NEW q \in Steps, InState(c, "handle"), Move(c, q),
         q \in {"done", "anchor"}, Request(c).op # "decrypt",
         q = "anchor" => Request(c).op = "policy" /\ Request(c).arg \in saved',
         grants' \in Grants, GrantsExtend(grants, grants'), saved \subseteq saved',
         UNCHANGED <<history, anchors, scenario, now>>
  PROVE  Inv'
<1> DEFINE k == calls[c]
<1>1. Typed /\ AllWarranted /\ DocumentsSucceed /\ NoDanglingAnchor
  BY DEF Inv
<1>2. /\ k \in BusyCalls /\ Warranted(k, history, grants, saved)
      /\ Request(c).did \in Keys
  BY <1>1, BusyCall DEF Steps
<1>3. /\ calls' \in [Calls -> {Idle} \cup BusyCalls']
      /\ \A o \in Calls \ {c} : calls'[o] = calls[o]
      /\ calls'[c].pc = q /\ calls'[c].req = k.req
      /\ calls'[c].from = k.from /\ calls'[c].at = k.at
  BY <1>1, MoveCalls DEF Steps
<1>4. history' \in Histories /\ Extends(history, history')
  BY <1>1, NoChange
<1>5. Warranted(calls'[c], history', grants', saved')
  BY <1>2, <1>3 DEF Warranted, KeyHeld, RoleHeld, Request, InState
<1>6. AllWarranted'
  BY <1>1, <1>3, <1>4, <1>5, StepKeepsWarrants
<1>7. DocumentsSucceed'
  BY <1>1 DEF DocumentsSucceed
<1>8. Typed' /\ NoDanglingAnchor'
  BY <1>1, <1>3 DEF Typed, Grants, NoDanglingAnchor
<1> QED
  BY <1>6, <1>7, <1>8 DEF Inv

LEMMA GrantStep == ASSUME Inv, NEW c \in Calls, Grant(c) PROVE Inv'
<1> DEFINE r == Request(c).arg
           e == <<r.grantee, r.dataset>>
<1>1. /\ InState(c, "handle") /\ Request(c).op = "grant" /\ Move(c, "done")
      /\ GrantDataAccess(r.grantee, r.dataset, r.until)
      /\ UNCHANGED <<history, saved, anchors, scenario, now>>
  BY DEF Grant, Handles, clock
<1>2. e \in Keys \X Datasets /\ r.until \in Int
  BY <1>1, BusyCall, RequestsAssumption DEF Inv, Typed, Steps
<1>3. grants \in [Keys \X Datasets -> Int]
  BY DEF Inv, Typed
<1>4. grants' = [grants EXCEPT ![e] = IF r.until > @ THEN r.until ELSE @]
  BY <1>1 DEF GrantDataAccess
<1> HIDE DEF e, r
<1>5. grants' \in Grants /\ GrantsExtend(grants, grants')
  BY <1>2, <1>3, <1>4 DEF Grants, GrantsExtend
<1> QED
  BY <1>1, <1>5, TableStep DEF Steps

LEMMA SavePolicyStep == ASSUME Inv, NEW c \in Calls, SavePolicy(c) PROVE Inv'
<1>1. /\ InState(c, "handle") /\ Request(c).op = "policy" /\ Move(c, "anchor")
      /\ saved' = saved \cup {Request(c).arg}
      /\ UNCHANGED <<history, grants, anchors, scenario, now>>
  BY DEF SavePolicy, UpsertPolicy, Handles, clock
<1>2. grants' \in Grants /\ GrantsExtend(grants, grants')
  BY <1>1, NoChange DEF Inv
<1> QED
  BY <1>1, <1>2, TableStep DEF Steps

LEMMA AnchorPolicyStep == ASSUME Inv, NEW c \in Calls, AnchorPolicy(c) PROVE Inv'
<1>1. /\ InState(c, "anchor") /\ Move(c, "done")
      /\ anchors' = anchors \cup {Request(c).arg}
      /\ UNCHANGED <<history, grants, saved, scenario, now>>
  BY DEF AnchorPolicy, clock
<1>2. Warranted(calls[c], history, grants, saved)
  BY <1>1, BusyCall DEF Inv, Steps
<1>3. Request(c).op = "policy" /\ Request(c).arg \in saved
  BY <1>1, <1>2 DEF Warranted, InState, Request
<1>4. anchors' \subseteq saved
  BY <1>1, <1>3 DEF Inv, NoDanglingAnchor
<1> QED
  BY <1>1, <1>3, <1>4, QuietMove DEF Steps

(* A restart forgets calls and nonces, never what is committed.               *)
LEMMA RestartStep == ASSUME Inv, Restart PROVE Inv'
<1>1. /\ calls' = [c \in Calls |-> Idle]
      /\ UNCHANGED <<history, grants, saved, anchors, scenario, now>>
  BY DEF Restart, tables
<1>2. Typed'
  BY <1>1 DEF Inv, Typed
<1>3. AllWarranted'
  BY <1>1 DEF AllWarranted
<1>4. DocumentsSucceed' /\ NoDanglingAnchor'
  BY <1>1 DEF Inv, DocumentsSucceed, NoDanglingAnchor
<1> QED
  BY <1>2, <1>3, <1>4 DEF Inv

\* The clock, and steps that change nothing.
LEMMA ClockStep == ASSUME Inv, Tick \/ UNCHANGED vars PROVE Inv'
<1>1. UNCHANGED <<history, calls, grants, saved, anchors, scenario>> /\ now' \in Nat
  BY DEF Tick, vars, tables, clock, Inv, Typed
<1> QED
  BY <1>1 DEF Inv, Typed, BusyCalls, AllWarranted, DocumentsSucceed, NoDanglingAnchor

LEMMA InvInit == Init => Inv
<1> SUFFICES ASSUME Init PROVE Inv
  OBVIOUS
<1>1. Typed
  BY DEF Init, HistoryInit, Typed
<1>2. AllWarranted
  BY DEF Init, AllWarranted
<1>3. DocumentsSucceed
  BY DEF Init, HistoryInit, DocumentsSucceed
<1>4. NoDanglingAnchor
  BY DEF Init, NoDanglingAnchor
<1> QED
  BY <1>1, <1>2, <1>3, <1>4 DEF Inv

LEMMA InvNext == Inv /\ [Next]_vars => Inv'
<1> SUFFICES ASSUME Inv, [Next]_vars PROVE Inv'
  OBVIOUS
<1>1. CASE Restart
  BY <1>1, RestartStep
<1>2. CASE Tick \/ UNCHANGED vars
  BY <1>2, ClockStep
<1>3. ASSUME NEW c \in Calls, Step(c)
      PROVE  Inv'
  BY <1>3, ArriveStep, AuthenticateStep, RecordNonceStep, RequireRegulatorStep, RegisterStep,
     UpdateStep, GrantStep, DecryptStep, SavePolicyStep, AnchorPolicyStep, AnswerSteps DEF Step
<1> QED
  BY <1>1, <1>2, <1>3 DEF Next

(* The invariant of the gateway.                                              *)
THEOREM GatewayInvariance == Spec => []Inv
  BY InvInit, InvNext, PTL DEF Spec

(* The documents of a DID form a chain of keys (did_repo.rs, identity.rs):     *)
(* the first is active with the key the DID derives from, every later one was  *)
(* signed with a key that was active in an earlier version.                    *)
THEOREM DocumentsChained == Spec => []DocumentsSucceed
<1>1. Inv => DocumentsSucceed
  BY DEF Inv
<1> QED
  BY <1>1, GatewayInvariance, PTL

(* The ledger names no policy that was not committed first (policy.rs).        *)
THEOREM AnchorsCommitted == Spec => []NoDanglingAnchor
<1>1. Inv => NoDanglingAnchor
  BY DEF Inv
<1> QED
  BY <1>1, GatewayInvariance, PTL

(* What a call has done was signed with a key that was active during the call, *)
(* a managed route was called by a regulator, and what was decrypted was       *)
(* granted (auth.rs, identity.rs, shielded.rs).                                *)
THEOREM EffectsAuthorised == Spec => []EffectsAreAuthorised
<1>1. Inv => EffectsAreAuthorised
  <2> SUFFICES ASSUME Inv, NEW c \in Calls,
                      calls[c].pc \in {"handle", "anchor", "done"}, ~Unsigned(Request(c))
               PROVE  /\ \E v \in DuringCall(c) : v > 0 /\ IsActive(VersionOf(c, v), Request(c).key)
                      /\ Managed(Request(c)) =>
                            \E v \in DuringCall(c) : v > 0 /\ VersionOf(c, v).kind = "regulator"
                      /\ (Request(c).op = "decrypt" /\ calls[c].pc = "done") =>
                            calls[c].at < grants[<<Request(c).did, "shielded:extra">>]
    BY DEF EffectsAreAuthorised
  <2>1. Warranted(calls[c], history, grants, saved)
    BY BusyCall DEF Inv, Steps, InState
  <2> QED
    BY <2>1 DEF Warranted, KeyHeld, RoleHeld, DuringCall, VersionOf, Request
<1> QED
  BY <1>1, GatewayInvariance, PTL

-------------------------------------------------------------------------------
(* The nonces.                                                                *)

AtLeast(f, t) == {m \in DOMAIN f : f[m] >= t}

\* f is a store with values for the map; a timestamp was accepted with a nonce
\* only if it is remembered, with this timestamp or a later one, or gave way to
\* newer ones.
Store(f) ==
    /\ IsFiniteSet(DOMAIN f) /\ Cardinality(DOMAIN f) <= Capacity
    /\ DOMAIN f \subseteq Nonces /\ \A n \in DOMAIN f : f[n] \in Int
Accounted(f, n, t) ==
    (n \in DOMAIN f /\ f[n] >= t) \/ Cardinality(AtLeast(f, t)) >= Capacity - 1

NoncesInv ==
    /\ Store(seen)
    /\ accepted \in [Nonces -> SUBSET Int]
    /\ \A n \in Nonces : \A t \in accepted[n] : Accounted(seen, n, t)

(* Entries that are at least as new are counted.                              *)
LEMMA CountAtLeast ==
  ASSUME NEW f, IsFiniteSet(DOMAIN f), NEW t, NEW E \in SUBSET DOMAIN f,
         \A m \in E : f[m] >= t
  PROVE  /\ Cardinality(E) <= Cardinality(AtLeast(f, t))
         /\ Cardinality(E) \in Nat /\ Cardinality(AtLeast(f, t)) \in Nat
<1>1. AtLeast(f, t) \in SUBSET DOMAIN f /\ E \in SUBSET AtLeast(f, t)
  BY DEF AtLeast
<1>2. IsFiniteSet(AtLeast(f, t))
  BY <1>1, FS_Subset
<1>3. IsFiniteSet(E) /\ Cardinality(E) <= Cardinality(AtLeast(f, t))
  BY <1>1, <1>2, FS_Subset
<1> QED
  BY <1>2, <1>3, FS_CardinalityType

(* What a remembered nonce does to the map: those of the others that are not  *)
(* forgotten stay, and their number is within the capacity.                   *)
LEMMA RememberStore ==
  ASSUME NEW f, Store(f), NEW nonce \in Nonces \ DOMAIN f, NEW ts \in Int,
         NEW kept \in SUBSET DOMAIN f, Cardinality(kept) < Capacity,
         NEW g, g = [n \in kept \cup {nonce} |-> IF n = nonce THEN ts ELSE f[n]]
  PROVE  Store(g) /\ g[nonce] = ts /\ \A n \in kept : g[n] = f[n]
<1>1. DOMAIN g = kept \cup {nonce} /\ g[nonce] = ts /\ nonce \notin kept
  OBVIOUS
<1>2. \A n \in kept : g[n] = f[n]
  OBVIOUS
<1>3. IsFiniteSet(kept)
  BY FS_Subset DEF Store
<1>4. IsFiniteSet(DOMAIN g) /\ Cardinality(DOMAIN g) = Cardinality(kept) + 1
  BY <1>1, <1>3, FS_AddElement
<1>5. Cardinality(DOMAIN g) <= Capacity
  <2>1. Cardinality(kept) \in Nat
    BY <1>3, FS_CardinalityType
  <2> QED
    BY <1>4, <2>1, CapacityAssumption
<1>6. DOMAIN g \subseteq Nonces /\ \A n \in DOMAIN g : g[n] \in Int
  BY <1>1, <1>2 DEF Store
<1> QED
  BY <1>1, <1>2, <1>4, <1>5, <1>6 DEF Store

(* Every entry of a store is accounted for after one more is remembered, in a *)
(* store that is not full or in the place of the oldest.                      *)
LEMMA RememberFree ==
  ASSUME NEW f, Store(f), NEW nonce \in Nonces \ DOMAIN f, NEW ts \in Int,
         Cardinality(DOMAIN f) < Capacity,
         NEW g, g = [n \in DOMAIN f \cup {nonce} |-> IF n = nonce THEN ts ELSE f[n]],
         NEW n \in Nonces, NEW t \in Int, Accounted(f, n, t)
  PROVE  Store(g) /\ g[nonce] = ts /\ Accounted(g, n, t)
<1>1. Store(g) /\ g[nonce] = ts /\ \A m \in DOMAIN f : g[m] = f[m]
  <2> DEFINE kept == DOMAIN f
  <2>1. kept \in SUBSET DOMAIN f /\ Cardinality(kept) < Capacity
    OBVIOUS
  <2>2. g = [m \in kept \cup {nonce} |-> IF m = nonce THEN ts ELSE f[m]]
    OBVIOUS
  <2>3. kept = DOMAIN f
    OBVIOUS
  <2> HIDE DEF kept
  <2>4. Store(g) /\ g[nonce] = ts /\ \A m \in kept : g[m] = f[m]
    BY <2>1, <2>2, RememberStore
  <2> QED
    BY <2>3, <2>4
<1>2. DOMAIN f \subseteq DOMAIN g
  OBVIOUS
<1>3. CASE n \in DOMAIN f /\ f[n] >= t
  BY <1>1, <1>2, <1>3 DEF Accounted
<1>4. CASE Cardinality(AtLeast(f, t)) >= Capacity - 1
  <2>1. AtLeast(f, t) \in SUBSET DOMAIN g /\ \A m \in AtLeast(f, t) : g[m] >= t
    BY <1>1, <1>2 DEF AtLeast
  <2>2. /\ Cardinality(AtLeast(f, t)) <= Cardinality(AtLeast(g, t))
        /\ Cardinality(AtLeast(f, t)) \in Nat /\ Cardinality(AtLeast(g, t)) \in Nat
    BY <1>1, <2>1, CountAtLeast DEF Store
  <2>3. Cardinality(AtLeast(g, t)) >= Capacity - 1
    BY <1>4, <2>2, CapacityAssumption
  <2> QED
    BY <1>1, <2>3 DEF Accounted
<1> QED
  BY <1>1, <1>3, <1>4 DEF Accounted

LEMMA RememberFull ==
  ASSUME NEW f, Store(f), NEW nonce \in Nonces \ DOMAIN f, NEW ts \in Int,
         Cardinality(DOMAIN f) >= Capacity,
         NEW o \in DOMAIN f, \A m \in DOMAIN f : f[o] <= f[m],
         NEW g, g = [n \in (DOMAIN f \ {o}) \cup {nonce} |-> IF n = nonce THEN ts ELSE f[n]],
         NEW n \in Nonces, NEW t \in Int, Accounted(f, n, t)
  PROVE  Store(g) /\ g[nonce] = ts /\ Accounted(g, n, t)
<1> DEFINE kept == DOMAIN f \ {o}
<1>1. IsFiniteSet(kept) /\ Cardinality(kept) = Capacity - 1
  <2>1. Cardinality(DOMAIN f) \in Nat /\ Cardinality(DOMAIN f) <= Capacity
    BY FS_CardinalityType DEF Store
  <2>2. Cardinality(DOMAIN f) = Capacity
    BY <2>1, CapacityAssumption
  <2>3. IsFiniteSet(kept) /\ Cardinality(kept) = Cardinality(DOMAIN f) - 1
    BY FS_RemoveElement DEF Store
  <2> QED
    BY <2>2, <2>3
<1>2. kept \in SUBSET DOMAIN f /\ g = [m \in kept \cup {nonce} |-> IF m = nonce THEN ts ELSE f[m]]
  OBVIOUS
<1>3. Cardinality(kept) < Capacity
  BY <1>1, CapacityAssumption
<1> HIDE DEF kept
<1>4. Store(g) /\ g[nonce] = ts /\ \A m \in kept : g[m] = f[m]
  BY <1>2, <1>3, RememberStore
<1>5. kept \in SUBSET DOMAIN g
  BY <1>2
<1>6. CASE f[o] >= t
  <2>1. \A m \in kept : g[m] >= t
    <3>1. \A m \in kept : f[m] \in Int /\ f[o] <= f[m] /\ f[o] \in Int
      BY <1>2 DEF Store
    <3> QED BY <1>4, <1>6, <3>1
  <2>2. Cardinality(kept) <= Cardinality(AtLeast(g, t))
    BY <1>4, <1>5, <2>1, CountAtLeast DEF Store
  <2> QED
    BY <1>1, <1>4, <2>2 DEF Accounted
<1>7. CASE ~(f[o] >= t)
  <2>1. CASE n \in DOMAIN f /\ f[n] >= t
    <3>1. n \in kept
      BY <1>7, <2>1 DEF kept
    <3> QED
      BY <1>4, <1>5, <2>1, <3>1 DEF Accounted
  <2>2. CASE Cardinality(AtLeast(f, t)) >= Capacity - 1
    <3>1. AtLeast(f, t) \in SUBSET kept /\ \A m \in AtLeast(f, t) : f[m] >= t
      BY <1>7 DEF AtLeast, kept
    <3>2. AtLeast(f, t) \in SUBSET DOMAIN g /\ \A m \in AtLeast(f, t) : g[m] >= t
      BY <1>4, <1>5, <3>1
    <3>3. /\ Cardinality(AtLeast(f, t)) <= Cardinality(AtLeast(g, t))
          /\ Cardinality(AtLeast(f, t)) \in Nat /\ Cardinality(AtLeast(g, t)) \in Nat
      BY <1>4, <3>2, CountAtLeast DEF Store
    <3>4. Cardinality(AtLeast(g, t)) >= Capacity - 1
      BY <2>2, <3>3, CapacityAssumption
    <3> QED
      BY <1>4, <3>4 DEF Accounted
  <2> QED
    BY <2>1, <2>2 DEF Accounted
<1> QED
  BY <1>6, <1>7

LEMMA RecordKeepsNonces ==
  ASSUME NoncesInv, NEW nonce \in Nonces, NEW ts \in Int, Record(nonce, ts)
  PROVE  NoncesInv'
<1>1. nonce \notin DOMAIN seen /\ accepted' = [accepted EXCEPT ![nonce] = @ \cup {ts}]
  BY DEF Record
<1>2. accepted' \in [Nonces -> SUBSET Int]
  BY <1>1 DEF NoncesInv
<1>3. \A n \in Nonces : \A t \in accepted'[n] : t \in accepted[n] \/ (n = nonce /\ t = ts)
  BY <1>1 DEF NoncesInv
<1>4. /\ Store(seen')
      /\ nonce \in DOMAIN seen' /\ seen'[nonce] = ts
      /\ \A n \in Nonces : \A t \in accepted[n] : Accounted(seen', n, t)
  <2>1. CASE Cardinality(DOMAIN seen) >= Capacity
    <3>1. PICK o \in Oldest : Remember(nonce, ts, {o})
      BY <2>1 DEF Record
    <3>2. /\ o \in DOMAIN seen /\ \A m \in DOMAIN seen : seen[o] <= seen[m]
          /\ seen' = [n \in (DOMAIN seen \ {o}) \cup {nonce} |-> IF n = nonce THEN ts ELSE seen[n]]
      BY <3>1 DEF Oldest, Remember
    <3>3. DOMAIN seen \ {o} \in SUBSET DOMAIN seen /\ Cardinality(DOMAIN seen \ {o}) < Capacity
      <4>1. Cardinality(DOMAIN seen) \in Nat /\ Cardinality(DOMAIN seen) <= Capacity
        BY FS_CardinalityType DEF NoncesInv, Store
      <4>2. Cardinality(DOMAIN seen \ {o}) = Cardinality(DOMAIN seen) - 1
        BY <3>2, FS_RemoveElement DEF NoncesInv, Store
      <4> QED BY <4>1, <4>2, CapacityAssumption
    <3>4. Store(seen') /\ seen'[nonce] = ts
      <4> DEFINE kept == DOMAIN seen \ {o}
      <4>1. kept \in SUBSET DOMAIN seen /\ Cardinality(kept) < Capacity
        BY <3>3
      <4>2. seen' = [n \in kept \cup {nonce} |-> IF n = nonce THEN ts ELSE seen[n]]
        BY <3>2
      <4>3. Store(seen) /\ nonce \in Nonces \ DOMAIN seen
        BY <1>1 DEF NoncesInv
      <4> HIDE DEF kept
      <4> QED BY <4>1, <4>2, <4>3, RememberStore
    <3>5. \A n \in Nonces : \A t \in accepted[n] : Accounted(seen', n, t)
      BY <1>1, <2>1, <3>2, RememberFull DEF NoncesInv
    <3> QED BY <3>2, <3>4, <3>5
  <2>2. CASE ~(Cardinality(DOMAIN seen) >= Capacity)
    <3>1. seen' = [n \in DOMAIN seen \cup {nonce} |-> IF n = nonce THEN ts ELSE seen[n]]
      <4>1. Remember(nonce, ts, {})
        BY <2>2 DEF Record
      <4> QED BY <4>1 DEF Remember
    <3>2. Cardinality(DOMAIN seen) < Capacity
      <4>1. Cardinality(DOMAIN seen) \in Nat
        BY FS_CardinalityType DEF NoncesInv, Store
      <4> QED BY <2>2, <4>1, CapacityAssumption
    <3>3. Store(seen') /\ seen'[nonce] = ts
      <4> DEFINE kept == DOMAIN seen
      <4>1. kept \in SUBSET DOMAIN seen /\ Cardinality(kept) < Capacity
        BY <3>2
      <4>2. seen' = [n \in kept \cup {nonce} |-> IF n = nonce THEN ts ELSE seen[n]]
        BY <3>1
      <4>3. Store(seen) /\ nonce \in Nonces \ DOMAIN seen
        BY <1>1 DEF NoncesInv
      <4> HIDE DEF kept
      <4> QED BY <4>1, <4>2, <4>3, RememberStore
    <3>4. \A n \in Nonces : \A t \in accepted[n] : Accounted(seen', n, t)
      BY <1>1, <3>1, <3>2, RememberFree DEF NoncesInv
    <3> QED BY <3>1, <3>3, <3>4
  <2> QED
    BY <2>1, <2>2
<1>5. Accounted(seen', nonce, ts)
  BY <1>4 DEF Accounted
<1> QED
  BY <1>2, <1>3, <1>4, <1>5 DEF NoncesInv

LEMMA EmptyStore ==
  ASSUME NEW f, f = <<>>
  PROVE  Store(f)
<1>1. DOMAIN f = {}
  BY SMT
<1>2. IsFiniteSet(DOMAIN f) /\ Cardinality(DOMAIN f) = 0
  BY <1>1, FS_EmptySet
<1> QED
  BY <1>1, <1>2, CapacityAssumption DEF Store

LEMMA NoncesStart == Init => NoncesInv
<1> SUFFICES ASSUME Init PROVE NoncesInv
  OBVIOUS
<1>1. seen = <<>> /\ accepted = [n \in Nonces |-> {}]
  BY DEF Init, NoncesInit
<1>2. Store(seen)
  BY <1>1, EmptyStore
<1> QED
  BY <1>1, <1>2 DEF NoncesInv

LEMMA NoncesNext == Inv /\ NoncesInv /\ [Next]_vars => NoncesInv'
<1> SUFFICES ASSUME Inv, NoncesInv, [Next]_vars PROVE NoncesInv'
  OBVIOUS
<1>1. CASE UNCHANGED nonceVars
  BY <1>1 DEF nonceVars, NoncesInv
<1>2. CASE Restart
  <2>1. seen' = <<>> /\ accepted' = [n \in Nonces |-> {}]
    BY <1>2 DEF Restart, NoncesReset
  <2>2. Store(seen')
    BY <2>1, EmptyStore
  <2> QED
    BY <2>1, <2>2 DEF NoncesInv
<1>3. ASSUME NEW c \in Calls, RecordNonce(c) PROVE NoncesInv'
  <2>1. InState(c, "authentic") /\ Record(Request(c).nonce, Request(c).ts)
    BY <1>3 DEF RecordNonce
  <2>2. Request(c).nonce \in Nonces /\ Request(c).ts \in Int
    BY <2>1, BusyCall, RequestsAssumption DEF Inv, Typed, Steps
  <2> QED
    BY <2>1, <2>2, RecordKeepsNonces
<1>4. ASSUME NEW c \in Calls, Step(c), ~RecordNonce(c) PROVE UNCHANGED nonceVars
  BY <1>4 DEF Step, Arrive, Authenticate, RefuseNonce, RequireRegulator, Register, Update, Grant,
     Decrypt, SavePolicy, AnchorPolicy, RefuseAnchor, Execute, Approve, Read, Reply, Refuse,
     nonceVars
<1>5. CASE Tick \/ UNCHANGED vars
  BY <1>1, <1>5 DEF Tick, vars, nonceVars
<1> QED
  BY <1>1, <1>2, <1>3, <1>4, <1>5 DEF Next

(* The nonces that were accepted are accounted for at all times.              *)
THEOREM NoncesInvariance == Spec => []NoncesInv
  BY GatewayInvariance, NoncesStart, NoncesNext, PTL DEF Spec

(* A nonce that is forgotten gave way to newer ones (auth.rs): a header can be *)
(* accepted twice only after a restart or after Capacity newer ones.           *)
THEOREM OldestForgotten == Spec => []OldestIsForgottenFirst
<1>1. NoncesInv => OldestIsForgottenFirst
  BY DEF NoncesInv, Accounted, AtLeast, OldestIsForgottenFirst
<1> QED
  BY <1>1, NoncesInvariance, PTL
=============================================================================
