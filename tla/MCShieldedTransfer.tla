------------------------- MODULE MCShieldedTransfer -------------------------
(* A small instance of ShieldedTransfer for TLC. *)
EXTENDS ShieldedTransfer, TLC

CONSTANTS c1, c2, c3, n1, n2, m1, m2, m3

MCClients == {c1, c2, c3}
MCNotes == {n1, n2, m1, m2, m3}
MCDeposits == n1 :> 1 @@ n2 :> 2
MCFresh == c1 :> m1 @@ c2 :> m2 @@ c3 :> m3
MCItems == {"nullifier", "commitment", "extra"} \X MCNotes
MCUnique == {"nullifier", "commitment"} \X MCNotes

\* Two notes, a note to be created, and a claim with the wrong amount.
MCClaims == {[note |-> n1, amount |-> 1], [note |-> n2, amount |-> 2],
             [note |-> m1, amount |-> 1], [note |-> n1, amount |-> 2]}
=============================================================================
