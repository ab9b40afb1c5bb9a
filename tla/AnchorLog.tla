----------------------------- MODULE AnchorLog ------------------------------
(***************************************************************************)
(* What the ledger promises to whoever reads it: an append-only log, in    *)
(* which a commitment or a nullifier appears at most once.                 *)
(***************************************************************************)
EXTENDS Sequences

CONSTANTS Items,   \* what can be anchored
          Unique   \* the items of the idempotent kinds

VARIABLE log

Logged(item) == \E i \in DOMAIN log : log[i] = item

Init == log = <<>>

Add(item) == /\ item \in Unique => ~Logged(item)
             /\ log' = Append(log, item)

Next == \E item \in Items : Add(item)

Spec == Init /\ [][Next]_log
=============================================================================
