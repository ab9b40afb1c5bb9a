------------------------------ MODULE ReadViews ------------------------------
(* The views of a batch that REST, MCP and the consumer page assemble while   *)
(* the handlers of GoodsRegistry write. A view is one transaction, but at     *)
(* READ COMMITTED each of its statements sees what is committed by then.      *)
EXTENDS GoodsRegistry

CONSTANT Viewed     \* the batches that are asked for

ASSUME ViewedAssumption == Viewed \subseteq Batches

VARIABLE view        \* the view being assembled, its reads still to do first

viewVars == <<vars, view>>

Closed == [todo |-> <<>>, kind |-> None, of |-> None, goods |-> None, edges |-> {}, owner |-> None,
           state |-> None]

\* Mutant: the lineage and the owner are read before the batch.
GoodsLast(kind) ==
    IF kind = "consumer" THEN <<"owner", "goods", "state">>
    ELSE <<"lineage", "owner", "goods", "state">>

\* batch_aggregate (get_batch, mcp_get_batch, commodity://batch/{id}), and the
\* view of the consumer, which leaves the lineage out.
Reads(kind) ==
    IF kind = "consumer" THEN <<"goods", "owner", "state">>
    ELSE <<"goods", "lineage", "owner", "state">>

OpenView(kind, b) ==
    /\ view = Closed
    /\ view' = [Closed EXCEPT !.todo = Reads(kind), !.kind = kind, !.of = b]
    /\ UNCHANGED vars

Reading(statement) == view.todo # <<>> /\ Head(view.todo) = statement
Take(seen) == view' = [seen EXCEPT !.todo = Tail(view.todo)] /\ UNCHANGED vars

\* find_batch; NotFound ends the view.
ViewGoods ==
    LET row == db[<<"goods", view.of>>]
    IN  /\ Reading("goods")
        /\ IF row = None THEN view' = Closed /\ UNCHANGED vars
           ELSE Take([view EXCEPT !.goods = row])

\* lineage_of: the edges above and below the batch.
ViewLineage ==
    /\ Reading("lineage")
    /\ Take([view EXCEPT !.edges = {e \in lineage : view.of \in {e.parent, e.child}}])

\* ownership.get
ViewOwner ==
    /\ Reading("owner")
    /\ Take([view EXCEPT !.owner = db[<<"owner", view.of>>]])

\* current_state, or the state of the batch as it was read.
ViewState ==
    /\ Reading("state")
    /\ Take([view EXCEPT !.state =
               IF \E e \in events : e.subject = view.of THEN CurrentState(view.of)
               ELSE view.goods.state])

Whole == view # Closed /\ view.todo = <<>>

Answer == Whole /\ view' = Closed /\ UNCHANGED vars

View == \/ \E kind \in {"aggregate", "consumer"}, b \in Viewed : OpenView(kind, b)
        \/ ViewGoods \/ ViewLineage \/ ViewOwner \/ ViewState
        \/ Answer

ViewSpec == Init /\ view = Closed /\ [][(Next /\ UNCHANGED view) \/ View]_viewVars
-----------------------------------------------------------------------------
(* Properties.                                                             *)

\* An event led from the first state to the second.
Follows(s, from, to) ==
    \E e \in events : /\ e.subject = s /\ e.to = to
                      /\ \/ from = "created"
                         \/ \E d \in events : d.subject = s /\ d.to = from /\ d.now < e.now

\* A view may be assembled from several commits, and still no part of it is
\* older than the batch it shows: a batch has an owner, its state is that of
\* the row or one that came after it, and a view with the lineage shows what a
\* batch was made of and, when it is out of use, what became of it.
ViewsAreWhole ==
    Whole =>
      /\ view.owner # None
      /\ view.state = view.goods.state \/ Follows(view.of, view.goods.state, view.state)
      /\ view.kind = "aggregate" =>
           /\ {e \in lineage : e.child = view.of} \subseteq view.edges
           /\ ~view.goods.active /\ ~Follows(view.of, "created", "delisted") =>
                 \E e \in view.edges : e.parent = view.of
=============================================================================
