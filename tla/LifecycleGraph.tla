--------------------------- MODULE LifecycleGraph ---------------------------
(***************************************************************************)
(* The lifecycle graph of goods: 13 states, the edges of the business      *)
(* matrix and the two forced by a regulator, recall and destruction.       *)
(***************************************************************************)
LifecycleStates == {"created", "produced", "inspected", "in_transit", "in_warehouse",
                    "available", "delisted", "sold", "owned", "resold", "recalled",
                    "expired", "destroyed"}

\* States no transition leaves.
Final == {"expired", "destroyed"}

BusinessEdges == {<<"created", "produced">>,
                  <<"produced", "inspected">>, <<"produced", "in_transit">>,
                  <<"produced", "in_warehouse">>,
                  <<"inspected", "in_transit">>, <<"inspected", "in_warehouse">>,
                  <<"inspected", "available">>,
                  <<"in_transit", "in_warehouse">>, <<"in_transit", "available">>,
                  <<"in_warehouse", "available">>, <<"in_warehouse", "in_transit">>,
                  <<"available", "sold">>, <<"available", "expired">>,
                  <<"available", "delisted">>, <<"delisted", "available">>,
                  <<"sold", "owned">>, <<"owned", "resold">>,
                  <<"recalled", "available">>}

\* Recall and destruction are forced from any state that is not final.
ForcedEdges == {e \in (LifecycleStates \ Final) \X {"recalled", "destroyed"} : e[1] # e[2]}

MayBecome(from, to) == <<from, to>> \in BusinessEdges \cup ForcedEdges
=============================================================================
