--------------------------- MODULE IntentPayloads ----------------------------
(* JSON as far as the interfaces and the handlers tell it apart, and the      *)
(* payload structs of the intent handlers. A value is a pair of its JSON type *)
(* and its content, the content of an object is a function from field names,  *)
(* and the texts that parse as a DID, a hash, ... are given as sets.          *)
EXTENDS Sequences

CONSTANTS DidTexts,     \* the texts Did::parse accepts
          HashTexts,    \* the texts Hash32::from_hex accepts
          WordTexts     \* the snake_case names of states, reasons and types

Text(s)    == <<"string", s>>
Number(n)  == <<"number", n>>
Flag(b)    == <<"boolean", b>>
Null       == <<"null", "null">>
List(s)    == <<"array", s>>
Object(f)  == <<"object", f>>

JsonType(v) == v[1]
Content(v)  == v[2]
IsText(v)   == JsonType(v) = "string"
IsObject(v) == JsonType(v) = "object"

\* Did::parse
IsDid(v) == IsText(v) /\ Content(v) \in DidTexts

\* Hash32::from_hex
IsHash(v) == IsText(v) /\ Content(v) \in HashTexts

\* The named field of an object, Null when it is missing (serde's Option and
\* Map::get alike).
Field(f, name) == IF name \in DOMAIN f THEN f[name] ELSE Null

\* Map::insert and Map::remove.
Insert(f, name, v) ==
    [n \in DOMAIN f \cup {name} |-> IF n = name THEN v ELSE f[n]]
Without(f, names) == [n \in DOMAIN f \ names |-> f[n]]

\* SubjectRef: {"type": "batch" | "asset", "id": text}.
SubjectTypes == {"batch", "asset"}
SubjectRef(type, id) == Object([type |-> Text(type), id |-> Text(id)])
IsSubject(v) ==
    /\ IsObject(v)
    /\ {"type", "id"} \subseteq DOMAIN Content(v)
    /\ IsText(Content(v)["id"])
    /\ IsText(Content(v)["type"])
    /\ Content(Content(v)["type"]) \in SubjectTypes

\* An object with exactly these fields, the first a text.
HasFields(v, names) == IsObject(v) /\ DOMAIN Content(v) = names

---------------------------------------------------------------------------
(* The payload structs, as parse_payload reads them: unknown fields are       *)
(* refused, required fields must be there and parse, and an optional field    *)
(* that is missing is null.                                                   *)

\* CustodySpec
IsCustody(v) ==
    /\ HasFields(v, {"to", "reason"})
    /\ IsDid(Content(v)["to"])
    /\ IsText(Content(v)["reason"]) /\ Content(Content(v)["reason"]) \in WordTexts

\* ChildSpec
IsChildSpec(v) ==
    /\ HasFields(v, {"id", "quantity"})
    /\ IsText(Content(v)["id"])
    /\ JsonType(Content(v)["quantity"]) = "number"

\* Whether serde reads value v as a field of this kind.
Parses(v, kind) ==
    CASE kind = "text"    -> IsText(v)
      [] kind = "number"  -> JsonType(v) = "number"
      [] kind = "flag"    -> JsonType(v) = "boolean"
      [] kind = "did"     -> IsDid(v)
      [] kind = "hash"    -> IsHash(v)
      [] kind = "word"    -> IsText(v) /\ Content(v) \in WordTexts
      [] kind = "subject" -> IsSubject(v)
      [] kind = "texts"   -> JsonType(v) = "array" /\ \A i \in DOMAIN Content(v) : IsText(Content(v)[i])
      [] kind = "specs"   -> JsonType(v) = "array" /\ \A i \in DOMAIN Content(v) : IsChildSpec(Content(v)[i])
      [] kind = "custody" -> IsCustody(v)
      [] kind = "any"     -> TRUE

\* The structs: the kinds of the required fields and of the optional ones.
CreateBatchPayload ==
    [must |-> [subject |-> "subject", product_id |-> "text", quantity |-> "number",
               unit |-> "text"],
     may |-> [target_state |-> "word"]]
SplitBatchPayload ==
    [must |-> [subject |-> "subject", children |-> "specs"], may |-> <<>>]
MergeBatchPayload ==
    [must |-> [subject |-> "subject", children |-> "texts", new_batch_id |-> "text"],
     may |-> <<>>]
CreateItemPayload ==
    [must |-> [subject |-> "subject", product_id |-> "text", authenticity_commitment |-> "hash"],
     may |-> [manufacturer |-> "did"]]
TransferPublicPayload ==
    [must |-> [subject |-> "subject", to |-> "did", c2c |-> "flag"],
     may |-> [lifecycle_to |-> "word", custody |-> "custody"]]
UpdateCustodyPayload ==
    [must |-> [subject |-> "subject", to |-> "did", reason |-> "word"],
     may |-> [lifecycle_to |-> "word"]]
IssueCredentialPayload ==
    [must |-> [subject |-> "subject", holder |-> "did", ctype |-> "word", claims |-> "any"],
     may |-> [expires_at |-> "word", credential_id |-> "text", domain_id |-> "text"]]
RevokeCredentialPayload ==
    [must |-> [subject |-> "subject", credential_id |-> "text"], may |-> [reason |-> "text"]]

PayloadStructs ==
    [create_batch |-> CreateBatchPayload, split_batch |-> SplitBatchPayload,
     merge_batch |-> MergeBatchPayload, create_item |-> CreateItemPayload,
     transfer_product |-> TransferPublicPayload, update_custody |-> UpdateCustodyPayload,
     issue_credential |-> IssueCredentialPayload,
     revoke_credential |-> RevokeCredentialPayload]

Actions == DOMAIN PayloadStructs

\* parse_payload of an action: deny_unknown_fields, required, optional.
PayloadParses(action, payload) ==
    LET must == PayloadStructs[action].must
        may  == PayloadStructs[action].may
    IN  /\ DOMAIN payload \subseteq DOMAIN must \cup DOMAIN may
        /\ \A f \in DOMAIN must : f \in DOMAIN payload /\ Parses(payload[f], must[f])
        /\ \A f \in DOMAIN may  : Field(payload, f) = Null \/ Parses(payload[f], may[f])

\* The struct a payload is read into.
Struct(action, payload) ==
    [f \in DOMAIN PayloadStructs[action].must \cup DOMAIN PayloadStructs[action].may |->
        Field(payload, f)]
==============================================================================
