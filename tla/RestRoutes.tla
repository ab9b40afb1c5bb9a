----------------------------- MODULE RestRoutes ------------------------------
(* The routes of the REST interface as a translation: a write (route, path    *)
(* parameter, JSON body) and its signer give the intent the engine is handed, *)
(* and a read gives the question that is put to the database; or the route    *)
(* refuses the request itself.                                                *)
EXTENDS IntentPayloads

\* RawIntent. An id that the caller leaves out is generated, one for a call.
Intent(action, actor, on_behalf_of, id, payload) ==
    [action |-> action, actor |-> actor, on_behalf_of |-> on_behalf_of,
     id |-> id, payload |-> payload]

MetaFields == {"intent_id", "on_behalf_of"}

\* split_meta: the body is an object, the key is null or a text and the
\* principal null or a DID.
MetaIsGood(body) ==
    /\ IsObject(body)
    /\ \/ Field(Content(body), "intent_id") = Null
       \/ IsText(Field(Content(body), "intent_id"))
    /\ \/ Field(Content(body), "on_behalf_of") = Null
       \/ IsDid(Field(Content(body), "on_behalf_of"))
PayloadOf(body) == Without(Content(body), MetaFields)

\* inject_subject: the path wins over the body.
InjectSubject(payload, type, id) == Insert(payload, "subject", SubjectRef(type, id))

---------------------------------------------------------------------------
(* The routes: the set of the payloads, empty when a route refuses.           *)

CreateBatchRoute(payload) == {payload}

SplitBatchRoute(path, payload) == {InjectSubject(payload, "batch", path)}

\* The array of a body that names the parent of the path.
Names(v, id) ==
    /\ JsonType(v) = "array"
    /\ \E i \in DOMAIN Content(v) : Content(v)[i] = Text(id)

\* The path is one of the parents, and the subject is the new batch.
MergeBatchRoute(path, payload) ==
    LET new == Field(payload, "new_batch_id")
    IN  IF ~Names(Field(payload, "children"), path) \/ ~IsText(new) THEN {}
        ELSE {InjectSubject(payload, "batch", Content(new))}

\* A text that is no hash is refused early.
CreateItemRoute(payload) ==
    LET commitment == Field(payload, "authenticity_commitment")
    IN  IF IsText(commitment) /\ ~IsHash(commitment) THEN {} ELSE {payload}

TransferRoute(payload) == {payload}
CustodyRoute(payload)  == {payload}

\* ensure_subject: there is one, whatever it is.
HasSubject(payload) == "subject" \in DOMAIN payload

IssueRoute(payload) == IF HasSubject(payload) THEN {payload} ELSE {}
RevokeRoute(path, payload) ==
    IF HasSubject(payload) THEN {Insert(payload, "credential_id", Text(path))} ELSE {}

RoutePayloads(route, path, payload) ==
    CASE route = "create_batch" -> CreateBatchRoute(payload)
      [] route = "split_batch"  -> SplitBatchRoute(path, payload)
      [] route = "merge_batch"  -> MergeBatchRoute(path, payload)
      [] route = "create_item"  -> CreateItemRoute(payload)
      [] route = "transfer_product" -> TransferRoute(payload)
      [] route = "update_custody"   -> CustodyRoute(payload)
      [] route = "issue_credential"  -> IssueRoute(payload)
      [] route = "revoke_credential" -> RevokeRoute(path, payload)

\* run_intent: the intents, empty when the route refuses.
RestIntent(actor, route, path, body) ==
    IF ~MetaIsGood(body) THEN {}
    ELSE {Intent(route, actor, Field(Content(body), "on_behalf_of"),
                 Field(Content(body), "intent_id"), payload) :
            payload \in RoutePayloads(route, path, PayloadOf(body))}

---------------------------------------------------------------------------
(* The reads: the set of the questions, empty when a route refuses. A text    *)
(* with a separator is the sequence of its two parts.                         *)

Question(table, key) == [table |-> table, key |-> key]

\* parse_subject_param: "batch:<id>" or "asset:<id>".
ParseSubjectParam(raw) ==
    IF Len(raw) = 2 /\ raw[1] \in SubjectTypes THEN {SubjectRef(raw[1], raw[2])} ELSE {}

AboutSubject(read, subjects) == {Question(read, s) : s \in subjects}
AboutDid(did) == IF did \in DidTexts THEN {Question("list_credentials", did)} ELSE {}

AboutKeys(view, spend) == {Question("scan_notes", <<view, spend>>)}

GetBatch(id)   == {Question("batch", id)}
GetProduct(id) == {Question("product", id)}
GetIntent(id)  == {Question("intent", id)}

\* get_batch, get_product, get of an intent, history, check, required, list of
\* the credentials, scan. A query parameter or a key that is missing is refused.
RestRead(route, asked) ==
    CASE route = "get_batch"   -> GetBatch(asked[1])
      [] route = "get_product" -> GetProduct(asked[1])
      [] route = "get_intent"  -> GetIntent(asked[1])
      [] route = "list_credentials" -> IF asked = <<>> THEN {} ELSE AboutDid(asked[1])
      [] route = "scan_notes" -> IF Len(asked) # 2 THEN {} ELSE AboutKeys(asked[1], asked[2])
      [] route \in {"list_transfers", "check_compliance", "required"} ->
            AboutSubject(route, ParseSubjectParam(asked))

\* sanitize_intent: a note that is spent keeps its secret and its salt to itself.
SanitizeIntent(i) ==
    IF i.action = "shielded_transfer" /\ IsObject(Field(i.payload, "old_note"))
    THEN [i EXCEPT !.payload =
            Insert(@, "old_note", Object(Without(Content(@["old_note"]), {"secret", "salt"})))]
    ELSE i

\* What is answered: the intent as it may be shown, or the rows themselves.
Answer(intents, q) ==
    IF q.table = "intent" /\ q.key \in DOMAIN intents THEN SanitizeIntent(intents[q.key]) ELSE q
==============================================================================
