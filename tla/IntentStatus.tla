---------------------------- MODULE IntentStatus ----------------------------
(***************************************************************************)
(* The status graph of an intent: the edge table ALLOWED_TRANSITIONS, the  *)
(* check every in-memory move goes through, and the path along which the   *)
(* engine takes a handled intent to confirmed.                             *)
(***************************************************************************)
EXTENDS Naturals, Sequences

Terminal == {"confirmed", "rejected", "expired", "cancelled"}

\* The statuses before submission: the only ones that may be cancelled.
Unsubmitted == {"created", "validated", "authorized", "policy_checked",
                "proof_required", "proved", "approved"}

Statuses == Unsubmitted \cup {"submitted"} \cup Terminal

Pipeline == {<<"created", "validated">>, <<"validated", "authorized">>,
             <<"authorized", "policy_checked">>,
             <<"policy_checked", "proof_required">>,
             <<"policy_checked", "approved">>,
             <<"proof_required", "proved">>, <<"proved", "approved">>,
             <<"approved", "submitted">>, <<"submitted", "confirmed">>}

AllowedTransitions == Pipeline
                        \cup (Unsubmitted \X {"rejected", "expired", "cancelled"})
                        \cup ({"submitted"} \X {"rejected", "expired"})

CanTransition(from, to) == /\ from # to
                           /\ from \notin Terminal
                           /\ <<from, to>> \in AllowedTransitions

\* Intent::advance applied to each status of a path in turn: every edge must
\* be allowed, or the first that is not returns InvalidTransition.
Walkable(from, path) == \A i \in 1 .. Len(path) :
                          CanTransition(IF i = 1 THEN from ELSE path[i - 1], path[i])

\* The path advance_to_approved takes; for a status it does not list the
\* function returns InvalidTransition, here a path no edge of which exists.
ApprovalPath(from) ==
  CASE from = "authorized"                    -> <<"policy_checked", "approved">>
    [] from \in {"policy_checked", "proved"}  -> <<"approved">>
    [] from = "proof_required"                -> <<"proved", "approved">>
    [] from = "approved"                      -> <<>>
    [] OTHER                                  -> <<from>>

\* The whole path of a completed handler: approved, submitted, confirmed.
CompletionPath(from) == ApprovalPath(from) \o <<"submitted", "confirmed">>
=============================================================================
