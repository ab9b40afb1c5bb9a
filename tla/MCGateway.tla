------------------------------ MODULE MCGateway ------------------------------
(* The gateway with two calls at a time, in five scenarios: key rotation, the *)
(* nonce store at its limit, the managed routes, and single calls in every    *)
(* shape a client can give them, writes and reads.                            *)
EXTENDS Gateway, TLC

CONSTANTS c1, c2

MCKeys == {"kA", "kB", "kR"}
MCKinds == {"enterprise", "regulator", "agent"}
MCNonces == {"n1", "n2", "n3"}
Slots == Permutations(Calls)

\* Capital letters come before the small ones as bytes, and after them in most
\* collations.
MCIds == {"a", "b", "B"}
MCByteRank  == [B |-> 1, a |-> 2, b |-> 3]
MCCollation == [a |-> 1, b |-> 2, B |-> 3]

Good(id, key)   == [id |-> id, key |-> key, revoked |-> FALSE]
Revoked(id, key) == [id |-> id, key |-> key, revoked |-> TRUE]
Doc(did, kind, methods, parent) ==
    [did |-> did, kind |-> kind, methods |-> methods, parent |-> parent]
DocA   == Doc("kA", "enterprise", <<Good("a", "kA")>>, "none")
DocAB  == Doc("kA", "enterprise", <<Good("b", "kB"), Revoked("a", "kA")>>, "none")
DocA0  == Doc("kA", "enterprise", <<Revoked("a", "kA")>>, "none")
DocR   == Doc("kR", "regulator", <<Good("a", "kR"), Good("b", "kB")>>, "none")
DocR2  == Doc("kR", "enterprise", <<Good("a", "kR")>>, "none")
DocAgt == Doc("kB", "agent", <<Good("b", "kB")>>, "kA")
DocOrf == Doc("kB", "agent", <<Good("b", "kB")>>, "none")
\* Two methods of one id, and two ids that the two orders disagree on.
DocTwo == Doc("kA", "enterprise", <<Good("a", "kA"), Good("a", "kB")>>, "none")
DocOdd == Doc("kA", "enterprise", <<Good("a", "kB"), Good("B", "kA")>>, "none")

Req(op, did, key, nonce, ts, arg) ==
    [op |-> op, did |-> did, key |-> key, nonce |-> nonce, ts |-> ts, via |-> "rest", arg |-> arg]
RegisterOf(doc) == Req("register", doc.did, doc.did, "n1", 0, doc)
UpdateBy(doc, key, nonce) == Req("update", doc.did, key, nonce, 0, doc)
Terms(id, version, terms) == [id |-> id, version |-> version, terms |-> terms]
GrantOf(until) == [grantee |-> "kA", dataset |-> "shielded:extra", until |-> until]
OtherGrant == [grantee |-> "kA", dataset |-> "other", until |-> 2]

KeyRequests ==
    {RegisterOf(d) : d \in {DocA, DocAB, DocTwo, DocOdd, DocAgt, DocOrf}} \cup
    {UpdateBy(DocA, k, "n1") : k \in {"kA", "kB"}} \cup
    {UpdateBy(DocAB, "kA", n) : n \in {"n1", "n2"}} \cup
    {UpdateBy(DocA0, "kA", "n3"), Req("update", "kB", "kB", "n3", 0, DocA)}

NonceRequests ==
    {RegisterOf(DocA)} \cup
    {Req("approve", "kA", "kA", h[1], h[2], "i1") :
        h \in {<<"n1", 0>>, <<"n1", 1>>, <<"n2", 1>>, <<"n2", 2>>, <<"n3", 0>>, <<"n3", 2>>}}

IamRequests ==
    {RegisterOf(DocA), RegisterOf(DocR), UpdateBy(DocR2, "kR", "n1")} \cup
    {Req("grant", "kR", "kR", "n1", 0, OtherGrant), Req("grant", "kR", "kR", "n1", 0, GrantOf(2)),
     Req("grant", "kR", "kR", "n2", 0, GrantOf(1)), Req("grant", "kA", "kA", "n3", 0, GrantOf(2)),
     Req("decrypt", "kA", "kA", "n3", 0, ""),
     Req("policy", "kR", "kR", "n1", 0, Terms("p", 1, "t1")),
     Req("policy", "kR", "kR", "n2", 0, Terms("p", 1, "t2"))}

---------------------------------------------------------------------------
\* A call as a client thinks of it: the action and its arguments by the names
\* of the MCP parameters, and how it is written for each interface.
Specs == List(<<Object([id |-> Text("b2"), quantity |-> Number(2)])>>)
GoodArgs ==
    [create_batch |-> [batch_id |-> Text("b1"), product_id |-> Text("p1"),
                       quantity |-> Number(5), unit |-> Text("kg"), target_state |-> Text("sold")],
     split_batch |-> [batch_id |-> Text("b1"), children |-> Specs],
     merge_batch |-> [batch_id |-> Text("b1"), children |-> List(<<Text("b2"), Text("b1")>>),
                      new_batch_id |-> Text("b3")],
     create_item |-> [asset_id |-> Text("a1"), product_id |-> Text("p1"),
                      authenticity_commitment |-> Text("h32"), manufacturer |-> Text("did:vg:a")],
     transfer_product |-> [subject_type |-> Text("batch"), subject_id |-> Text("b1"),
                           to |-> Text("did:vg:a"), c2c |-> Flag(TRUE), lifecycle_to |-> Text("sold"),
                           custody |-> Object([to |-> Text("did:vg:a"), reason |-> Text("sold")])],
     update_custody |-> [subject_type |-> Text("asset"), subject_id |-> Text("a1"),
                         to |-> Text("did:vg:a"), reason |-> Text("sold"), lifecycle_to |-> Null],
     issue_credential |-> [subject_type |-> Text("batch"), subject_id |-> Text("b1"),
                           holder |-> Text("did:vg:a"), ctype |-> Text("sold"),
                           claims |-> Object(<<>>), expires_at |-> Text("sold"),
                           credential_id |-> Text("v1"), domain_id |-> Null],
     revoke_credential |-> [subject_type |-> Text("batch"), subject_id |-> Text("b1"),
                            credential_id |-> Text("v1"), reason |-> Text("x")]]
Meta == [intent_id |-> Text("i1"), on_behalf_of |-> Text("did:vg:a")]
Together(f, g) == [n \in DOMAIN f \cup DOMAIN g |-> IF n \in DOMAIN f THEN f[n] ELSE g[n]]

PathFields == [create_batch |-> {}, split_batch |-> {"batch_id"}, merge_batch |-> {"batch_id"},
               create_item |-> {}, transfer_product |-> {}, update_custody |-> {},
               issue_credential |-> {}, revoke_credential |-> {"credential_id"}]
OddValues ==
    {Text("oops"), Number(1), Null, List(<<>>), Object([to |-> Text("did:vg:a")]),
     Object([to |-> Text("oops"), reason |-> Text("sold")])}

\* One field is odd, missing, or one that nobody knows.
ArgsOf(action) ==
    LET good == Together(GoodArgs[action], Meta)
    IN  {good, Insert(good, "note", Text("x"))}
        \cup {Insert(good, f, v) : f \in DOMAIN good \ PathFields[action], v \in OddValues}
        \cup {Insert(good, f, Text("oops")) : f \in PathFields[action]}
        \cup {Without(good, {f}) : f \in DOMAIN good \ PathFields[action]}

SubjectNames == {"batch_id", "asset_id", "subject_type", "subject_id"}
SubjectOf(action, args) ==
    CASE action = "create_batch" /\ "batch_id" \in DOMAIN args ->
            [subject |-> Object([type |-> Text("batch"), id |-> args["batch_id"]])]
      [] action = "create_item" /\ "asset_id" \in DOMAIN args ->
            [subject |-> Object([type |-> Text("asset"), id |-> args["asset_id"]])]
      [] {"subject_type", "subject_id"} \subseteq DOMAIN args ->
            [subject |-> Object([type |-> args["subject_type"], id |-> args["subject_id"]])]
      [] OTHER -> <<>>
PathOf(action, args) ==
    IF PathFields[action] = {} THEN ""
    ELSE Content(args[CHOOSE f \in PathFields[action] : TRUE])

Write(action, args) ==
    [action |-> action, params |-> args, path |-> PathOf(action, args),
     body |-> Object(Together(SubjectOf(action, args),
                              Without(args, SubjectNames \cup PathFields[action])))]
WriteRequests ==
    {RegisterOf(DocA)} \cup
    {[Req("write", "kA", "kA", "n1", 0, w) EXCEPT !.via = i] :
        i \in {"rest", "mcp"},
        w \in UNION {{Write(a, args) : args \in ArgsOf(a)} : a \in Actions}}

---------------------------------------------------------------------------
\* A read as a client thinks of it, in every way it may be written.
Note == Object([secret |-> Text("x"), salt |-> Text("x"), commitment |-> Text("h32")])
MCIntents ==
    [i1 |-> [action |-> "shielded_transfer", payload |-> [old_note |-> Note]],
     i2 |-> [action |-> "shielded_transfer", payload |-> [old_note |-> Text("oops")]],
     i3 |-> [action |-> "transfer_product", payload |-> [old_note |-> Note]]]

Rest(name, asked) == [name |-> name, asked |-> asked]
Mcp(name, params) == [name |-> name, params |-> params]
Uri(scheme, segments) == [scheme |-> scheme, segments |-> segments]

SubjectKinds == {"batch", "asset", "lot"}
Reads ==
    {[rest |-> Rest("get_batch", <<id>>), mcp |-> Mcp("get_batch", [id |-> Text(id)]),
      uri |-> Uri("commodity", <<"batch", id>>)] : id \in {"b1", ""}}
    \cup {[rest |-> Rest("get_batch", <<"b/1">>), mcp |-> Mcp("get_batch", [id |-> Text("b/1")]),
           uri |-> Uri("commodity", <<"batch", "b", "1">>)],
          [rest |-> Rest("get_product", <<"p1">>), uri |-> Uri("commodity", <<"product", "p1">>)],
          [uri |-> Uri("commodity", <<"lot", "b1">>)],
          [uri |-> Uri("https", <<"batch", "b1">>)],
          [mcp |-> Mcp("get_batch", [id |-> Number(1)])],
          [mcp |-> Mcp("get_proof", [id |-> Text("z1")])],
          [rest |-> Rest("list_credentials", <<>>), mcp |-> Mcp("list_credentials", <<>>)],
          [rest |-> Rest("scan_notes", <<"v">>),
           mcp |-> Mcp("scan_notes", [view_priv |-> Text("v")])],
          [rest |-> Rest("scan_notes", <<"v", "s">>),
           mcp |-> Mcp("scan_notes", [view_priv |-> Text("v"), spend_pub |-> Text("s")])]}
    \cup {[rest |-> Rest("get_intent", <<id>>), mcp |-> Mcp("get_intent", [id |-> Text(id)])] :
            id \in {"i1", "i2", "i3", "i4"}}
    \cup {[rest |-> Rest("list_credentials", <<d>>),
           mcp |-> Mcp("list_credentials", [did |-> Text(d)])] : d \in {"did:vg:a", "oops"}}
    \cup {[rest |-> Rest(name, <<kind, id>>),
           mcp |-> Mcp(name, [subject_type |-> Text(kind), subject_id |-> Text(id)])] :
            name \in {"list_transfers", "check_compliance", "required"},
            kind \in SubjectKinds, id \in {"b1", ""}}
    \cup {[mcp |-> Mcp(name, [subject_type |-> Text(kind), subject_id |-> Text("b1")])] :
            name \in {"get_ownership", "get_custody"}, kind \in SubjectKinds}
    \cup {[rest |-> Rest("list_transfers", <<"b1">>)]}
ReadRequests ==
    {RegisterOf(DocA)} \cup
    UNION {{[Req("read", "kA", "kA", "n1", 0, read) EXCEPT !.via = v] : v \in DOMAIN read} :
            read \in Reads}

MCRequests ==
    [keys |-> KeyRequests, nonces |-> NonceRequests, managed |-> IamRequests,
     writes |-> WriteRequests, reads |-> ReadRequests]
MCMaxArrivals == [keys |-> 4, nonces |-> 5, managed |-> 4, writes |-> 2, reads |-> 2]
MCMaxNow      == [keys |-> 0, nonces |-> 2, managed |-> 1, writes |-> 0, reads |-> 0]
MCMaxRestarts == [keys |-> 0, nonces |-> 1, managed |-> 1, writes |-> 0, reads |-> 0]
==============================================================================
