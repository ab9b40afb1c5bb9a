---------------------------- MODULE ExecutionGate ---------------------------
(***************************************************************************)
(* What the intent engine promises of the business effects of an intent:   *)
(* they happen at once (an action without a gate), or after the intent was *)
(* parked and approved, or never; and never twice.  Refusal before the     *)
(* effects is final.  A parked intent that expires stays parked here: the  *)
(* promise is about effects, and nothing is executed by expiring.          *)
(***************************************************************************)
CONSTANT Ids
VARIABLE phase

Init == phase = [i \in Ids |-> "absent"]

Move(i, from, to) == phase[i] = from /\ phase' = [phase EXCEPT ![i] = to]

ExecuteDirectly(i) == Move(i, "absent", "executed_direct")
Park(i)            == Move(i, "absent", "parked")
ExecuteApproved(i) == Move(i, "parked", "executed_approved")
Refuse(i)          == Move(i, "absent", "refused") \/ Move(i, "parked", "refused")

Next == \E i \in Ids : \/ ExecuteDirectly(i) \/ Park(i)
                       \/ ExecuteApproved(i) \/ Refuse(i)

Spec == Init /\ [][Next]_phase
=============================================================================
