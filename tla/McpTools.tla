------------------------------ MODULE McpTools -------------------------------
(* The tools and the resources of the MCP interface as a translation: the     *)
(* parameters of a write tool and the signer of the HTTP request give the     *)
(* intent the engine is handed, those of a read tool and the URI of a         *)
(* resource the question; or the tool refuses its parameters.                 *)
EXTENDS RestRoutes

---------------------------------------------------------------------------
(* The parameter structs: the kind of each field, "option" for the ones that  *)
(* may be missing or null. Unknown parameters are ignored.                    *)

CreateBatchParams == [batch_id |-> "text", product_id |-> "text", quantity |-> "number",
                      unit |-> "text", target_state |-> "option"]
SplitBatchParams == [batch_id |-> "text", children |-> "specs"]
MergeBatchParams == [batch_id |-> "text", children |-> "texts", new_batch_id |-> "text"]
CreateItemParams == [asset_id |-> "text", product_id |-> "text",
                     authenticity_commitment |-> "text", manufacturer |-> "option"]
TransferProductParams ==
    [subject_type |-> "text", subject_id |-> "text", to |-> "text", c2c |-> "flag",
     lifecycle_to |-> "option", custody |-> "custody"]
UpdateCustodyParams == [subject_type |-> "text", subject_id |-> "text", to |-> "text",
                        reason |-> "text", lifecycle_to |-> "option"]
IssueCredentialParams ==
    [subject_type |-> "text", subject_id |-> "text", holder |-> "text", ctype |-> "text",
     claims |-> "any", expires_at |-> "option", credential_id |-> "option", domain_id |-> "option"]
RevokeCredentialParams == [subject_type |-> "text", subject_id |-> "text",
                           credential_id |-> "text", reason |-> "option"]

ToolParams ==
    [create_batch |-> CreateBatchParams, split_batch |-> SplitBatchParams,
     merge_batch |-> MergeBatchParams, create_item |-> CreateItemParams,
     transfer_product |-> TransferProductParams, update_custody |-> UpdateCustodyParams,
     issue_credential |-> IssueCredentialParams, revoke_credential |-> RevokeCredentialParams]

\* CustodySpecParams and ChildSpec, which ignore what they do not know as well.
IsCustodyParams(v) ==
    /\ IsObject(v)
    /\ {"to", "reason"} \subseteq DOMAIN Content(v)
    /\ IsText(Content(v)["to"]) /\ IsText(Content(v)["reason"])
IsChildParams(v) ==
    /\ IsObject(v)
    /\ {"id", "quantity"} \subseteq DOMAIN Content(v)
    /\ IsText(Content(v)["id"])
    /\ JsonType(Content(v)["quantity"]) = "number"

ParamParses(kind, v) ==
    CASE kind = "option"  -> v = Null \/ IsText(v)
      [] kind = "custody" -> v = Null \/ IsCustodyParams(v)
      [] kind = "specs"   -> JsonType(v) = "array" /\ \A i \in DOMAIN Content(v) : IsChildParams(Content(v)[i])
      [] OTHER -> Parses(v, kind)

\* Parameters(...) and WriteMeta: the struct is read. A flag (c2c) may not be
\* null; a value that may be anything (claims) has to be there.
ParamsParse(tool, params) ==
    /\ \A f \in DOMAIN ToolParams[tool] :
         /\ ToolParams[tool][f] \in {"option", "custody"} \/ f \in DOMAIN params
         /\ ParamParses(ToolParams[tool][f], Field(params, f))
    /\ \A f \in MetaFields : ParamParses("option", Field(params, f))

---------------------------------------------------------------------------
(* The tools: the set of the payloads, empty when a tool refuses.             *)

\* subject_ref and subject_value: the type is one of two.
Subjects(type, id) ==
    IF Content(type) \in SubjectTypes THEN {SubjectRef(Content(type), Content(id))} ELSE {}

\* The json!({...}) a tool assembles: the subject, and the named fields; an
\* option that is missing is null.
Json(subject, p, names) ==
    [f \in names \cup {"subject"} |-> IF f = "subject" THEN subject ELSE Field(p, f)]
Rebuilt(v, names) == Object([n \in names |-> Content(v)[n]])

CreateBatchTool(p) ==
    {Json(SubjectRef("batch", Content(p.batch_id)), p,
          {"product_id", "quantity", "unit", "target_state"})}

\* The children are rebuilt field by field.
SplitBatchTool(p) ==
    {[Json(SubjectRef("batch", Content(p.batch_id)), p, {"children"}) EXCEPT
        !.children = List([i \in DOMAIN Content(@) |-> Rebuilt(Content(@)[i], {"id", "quantity"})])]}

\* Mutant: a merge names the batch it was called for.
MergeToolOfCall(p) ==
    IF ~Names(p.children, Content(p.batch_id)) THEN {}
    ELSE {Json(SubjectRef("batch", Content(p.batch_id)), p, {"children", "new_batch_id"})}

MergeBatchTool(p) ==
    IF ~Names(p.children, Content(p.batch_id)) THEN {}
    ELSE {Json(SubjectRef("batch", Content(p.new_batch_id)), p, {"children", "new_batch_id"})}

CreateItemTool(p) ==
    IF ~IsHash(p.authenticity_commitment) THEN {}
    ELSE {Json(SubjectRef("asset", Content(p.asset_id)), p,
               {"product_id", "authenticity_commitment", "manufacturer"})}

\* The custody is rebuilt as well.
TransferProductTool(p) ==
    {[Json(s, p, {"to", "c2c", "lifecycle_to", "custody"}) EXCEPT
        !.custody = IF @ = Null THEN Null ELSE Rebuilt(@, {"to", "reason"})] :
     s \in Subjects(p.subject_type, p.subject_id)}

UpdateCustodyTool(p) ==
    {Json(s, p, {"to", "reason", "lifecycle_to"}) : s \in Subjects(p.subject_type, p.subject_id)}

IssueCredentialTool(p) ==
    {Json(s, p, {"holder", "ctype", "claims", "expires_at", "credential_id", "domain_id"}) :
     s \in Subjects(p.subject_type, p.subject_id)}

RevokeCredentialTool(p) ==
    {Json(s, p, {"credential_id", "reason"}) : s \in Subjects(p.subject_type, p.subject_id)}

Payloads(tool, p) ==
    CASE tool = "create_batch" -> CreateBatchTool(p)
      [] tool = "split_batch"  -> SplitBatchTool(p)
      [] tool = "merge_batch"  -> MergeBatchTool(p)
      [] tool = "create_item"  -> CreateItemTool(p)
      [] tool = "transfer_product" -> TransferProductTool(p)
      [] tool = "update_custody"   -> UpdateCustodyTool(p)
      [] tool = "issue_credential"  -> IssueCredentialTool(p)
      [] tool = "revoke_credential" -> RevokeCredentialTool(p)

\* on_behalf_of: null or a DID.
PrincipalParses(params) ==
    Field(params, "on_behalf_of") = Null \/ IsDid(params["on_behalf_of"])

\* run_tool: the intents, empty when the tool refuses.
McpIntent(actor, tool, params) ==
    IF ~ParamsParse(tool, params) \/ ~PrincipalParses(params) THEN {}
    ELSE {Intent(tool, actor, Field(params, "on_behalf_of"), Field(params, "intent_id"), payload) :
            payload \in Payloads(tool, params)}

---------------------------------------------------------------------------
(* The reads: the set of the questions, empty when a tool refuses.            *)

\* IdParams, DidParams, ScanNotesParams and SubjectParams.
ReadParams(tool) ==
    CASE tool \in {"get_batch", "get_intent", "get_proof"} -> {"id"}
      [] tool = "list_credentials" -> {"did"}
      [] tool = "scan_notes" -> {"view_priv", "spend_pub"}
      [] OTHER -> {"subject_type", "subject_id"}

ReadParamsParse(tool, p) == \A f \in ReadParams(tool) : f \in DOMAIN p /\ IsText(p[f])

GetBatchTool(p)  == GetBatch(Content(p.id))
GetIntentTool(p) == GetIntent(Content(p.id))
GetProofTool(p)  == {Question("proof", Content(p.id))}
ListCredentialsTool(p)  == AboutDid(Content(p.did))
ScanNotesTool(p)        == AboutKeys(Content(p.view_priv), Content(p.spend_pub))
ListTransfersTool(p)    == AboutSubject("list_transfers", Subjects(p.subject_type, p.subject_id))
ComplianceTool(tool, p) == AboutSubject(tool, Subjects(p.subject_type, p.subject_id))
OwnershipTool(tool, p)  == AboutSubject(tool, Subjects(p.subject_type, p.subject_id))

McpRead(tool, p) ==
    IF ~ReadParamsParse(tool, p) THEN {}
    ELSE CASE tool = "get_batch"  -> GetBatchTool(p)
           [] tool = "get_intent" -> GetIntentTool(p)
           [] tool = "get_proof"  -> GetProofTool(p)
           [] tool = "list_credentials" -> ListCredentialsTool(p)
           [] tool = "scan_notes"       -> ScanNotesTool(p)
           [] tool = "list_transfers"   -> ListTransfersTool(p)
           [] tool \in {"check_compliance", "required"} -> ComplianceTool(tool, p)
           [] tool \in {"get_ownership", "get_custody"} -> OwnershipTool(tool, p)

\* parse_uri: commodity://{kind}/{id}, the segments after the scheme; the id
\* is one segment that is not empty.
ParseUri(scheme, segments) ==
    IF scheme = "commodity" /\ Len(segments) = 2 /\ segments[2] # "" THEN {segments} ELSE {}

\* read_commodity: the kind is one of three.
ReadResource(scheme, segments) ==
    {Question(s[1], s[2]) : s \in {k \in ParseUri(scheme, segments) :
                                      k[1] \in {"batch", "asset", "product"}}}
==============================================================================
