-------------------------- MODULE MCGoodsRegistry ---------------------------
(* Small instances of GoodsRegistry for TLC. *)
EXTENDS GoodsRegistry, TLC

CONSTANTS c1, c2, c3, c4, ann, bob, eve, p, q, k1, k2, item

MCThreeCalls == {c1, c2, c3}
CallSymmetry == Permutations(Calls)
MCFourCalls == {c1, c2, c3, c4}
MCParties == {ann, bob, eve}
MCBatches == {p, q, k1, k2}
MCAssets == {item}
MCStock == [b \in {p, q} |-> [producer |-> ann, quantity |-> 2, state |-> "inspected"]]

Create(s, by, owner) == [op |-> "create", by |-> by, subject |-> s, to |-> owner, quantity |-> 1,
                          state |-> IF s = item THEN None ELSE "produced"]
Give(s, by, to, state, custodian) ==
  [op |-> "transfer", by |-> by, subject |-> s, to |-> to, state |-> state, custodian |-> custodian]
Carry(s, by, to, state) ==
  [op |-> "custody", by |-> by, subject |-> s, to |-> to, state |-> state]
Split(s, by, children, parts) ==
  [op |-> "split", by |-> by, subject |-> s, children |-> children, parts |-> parts, state |-> None]
Merge(parents, by, s) ==
  [op |-> "merge", by |-> by, subject |-> s, parents |-> parents, state |-> None]

\* Two transfers and a hand-over that lock rows in different orders, a split, a
\* merge and a creation that compete for parents and for new ids.
MCRequests == {Give(p, ann, bob, "available", bob),
                Give(p, ann, eve, None, None),
                Carry(p, ann, eve, "destroyed"),
                Split(p, ann, <<k1, k2>>, <<1, 1>>),
                Merge(<<p, q>>, ann, k1),
                Create(k1, bob, bob)}

\* One at a time: also resale, creation of items, and requests to be refused.
MCSerialRequests == MCRequests \cup
               {Give(p, bob, eve, None, None), Give(p, eve, ann, None, None),
              Give(item, bob, ann, None, None),
                Create(item, ann, bob), Create(k2, bob, bob), Merge(<<k1, q>>, ann, k2),
                Carry(p, bob, ann, "recalled"),
                Split(p, ann, <<k2>>, <<2>>), Split(q, ann, <<k2>>, <<1>>),
               Split(q, ann, <<k2, k2>>, <<1, 1>>)}

\* Overlapping calls on one batch, each perhaps twice: a transfer and one by the
\* receiver, two splits, a merge that names it twice, and a hand-over that lists
\* it again.
MCOverlapping == {Give(p, ann, bob, "recalled", None), Give(p, bob, eve, None, None),
                   Split(p, ann, <<k1>>, <<2>>), Split(p, ann, <<k2>>, <<2>>),
                   Merge(<<p, p>>, ann, k1), Carry(p, ann, bob, "available")}

\* Splitting, listing and splitting again.
MCRelisting == {Split(p, ann, <<k1>>, <<2>>), Carry(p, ann, bob, "available"),
                 Split(p, ann, <<k2>>, <<2>>)}

=============================================================================
