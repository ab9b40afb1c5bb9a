---------------------------- MODULE DidDocuments -----------------------------
(* The DID documents and the operations of their repository. A DID is derived *)
(* from the digest of a public key, so that a key and the DID it derives are  *)
(* the same value here. The versions of a document are kept in the order of   *)
(* their commits: the table holds the last one.                               *)
EXTENDS Sequences, Naturals

CONSTANTS Keys,        \* digests of public keys, which are also the DIDs
          Kinds,       \* kinds of subjects, "agent" and "regulator" among them
          NoKey,       \* stands for the parent of a document that has none
          Ids,         \* ids of methods, which are any text, ...
          ByteRank,    \* ... in the order of their bytes, as String compares them
          Collation    \* ... and in that of the database's collation (external)

\* Both orders are total.
ASSUME OrdersAssumption ==
    \A rank \in {ByteRank, Collation} :
        rank \in [Ids -> Nat] /\ \A a, b \in Ids : rank[a] = rank[b] => a = b

ASSUME KindsAssumption ==
    /\ {"agent", "regulator"} \subseteq Kinds
    /\ NoKey \notin Keys

VARIABLE history       \* for each DID its committed versions, oldest first

Methods == [id : Ids, key : Keys, revoked : BOOLEAN]

\* The document that a request carries: nothing keeps two methods from having
\* one id.
Submitted == [did : Keys, kind : Kinds, parent : Keys \cup {NoKey}, methods : Seq(Methods)]

\* The rows of it: each method is an upsert by its id, so that the last one of
\* an id is the one that stays.
IsLast(doc, i) == \A j \in i + 1 .. Len(doc.methods) : doc.methods[j].id # doc.methods[i].id
StoredMethods(doc) == {doc.methods[i] : i \in {j \in DOMAIN doc.methods : IsLast(doc, j)}}
Stored(doc) ==
    [did |-> doc.did, kind |-> doc.kind, parent |-> doc.parent, methods |-> StoredMethods(doc)]

Documents == [did : Keys, kind : Kinds, parent : Keys \cup {NoKey}, methods : SUBSET Methods]

\* One commit: the document as it is stored and as it was sent, the key that
\* signed for it (its own for the first one), and how many versions there were
\* when the call arrived.
Versions == [doc : Documents, sent : Submitted, by : Keys, from : Nat]

HistoryInit == history = [d \in Keys |-> <<>>]

Registered(d) == Len(history[d]) > 0
Current(d)    == history[d][Len(history[d])].doc

\* active_pubkey of what find_document reads: the first method that is not
\* revoked, in the order of the database.
IsActive(doc, key) ==
    \E m \in doc.methods :
       /\ m.key = key /\ ~m.revoked
       /\ \A o \in doc.methods : o.revoked \/ Collation[m.id] <= Collation[o.id]

\* Mutant: any key of the document may derive the DID.
SomeKeyDerives(doc) == \E i \in DOMAIN doc.methods : doc.methods[i].key = doc.did

\* ensure_self_derived, on the document as it was sent: of the methods that are
\* not revoked, the first of those with the least id derives the DID.
SelfDerived(doc) ==
    \E i \in DOMAIN doc.methods :
       /\ doc.methods[i].key = doc.did /\ ~doc.methods[i].revoked
       /\ \A j \in DOMAIN doc.methods :
             \/ doc.methods[j].revoked
             \/ ByteRank[doc.methods[i].id] < ByteRank[doc.methods[j].id]
             \/ doc.methods[i].id = doc.methods[j].id /\ i <= j

\* validate, and the CHECK of the table: an agent and no other has a parent.
\* No DID that is derived from a key reads "did:vg:agent:...", which is what
\* validate asks of the parent.
IsValid(doc) == (doc.kind = "agent") <=> (doc.parent # NoKey)

\* The parent is a foreign key.
ParentExists(doc) == doc.parent # NoKey => Registered(doc.parent)

Commit(doc, by, from) ==
    history' = [history EXCEPT ![doc.did] =
                   Append(@, [doc |-> Stored(doc), sent |-> doc, by |-> by, from |-> from])]

\* insert_document: ON CONFLICT DO NOTHING, then AlreadyExists.
InsertDocument(doc, by, from) ==
    /\ ~Registered(doc.did) /\ ParentExists(doc)
    /\ Commit(doc, by, from)
RefusesInsert(doc) == Registered(doc.did) \/ ~ParentExists(doc)

\* save_document: the row, the methods and the removal of the others in one
\* transaction that holds the row's lock from its first statement.
SaveDocument(doc, by, from) == ParentExists(doc) /\ Commit(doc, by, from)
RefusesSave(doc) == ~ParentExists(doc)
==============================================================================
