--------------------------- MODULE TenantLifecycle ---------------------------
(***************************************************************************)
(* What the rest of the system may rely on about tenants_tenant.status and *)
(* previous_status: which changes exist at all, and what previous_status   *)
(* says afterwards.  Nothing is said about who makes them, in what order   *)
(* the writers read and write, or which of them crash; Migrator implements *)
(* this specification with leases and compare-and-set writes.              *)
(***************************************************************************)

VARIABLES status, prev

Provisionable == {"new", "pending"}
Upgradable    == {"active", "deactivated"}

\* What an operator may request (STATUS_TRANSITIONS without the identities).
OperatorMoves(s) ==
    CASE s = "active"      -> {"deactivated", "maintenance"}
      [] s = "deactivated" -> {"active", "maintenance"}
      [] s = "failed"      -> {"new", "maintenance"}
      [] s = "maintenance" -> {"active", "deactivated", "failed"}
      [] OTHER             -> {}

Init == status \in {"new", "active"} /\ prev = "new"

\* A migrator claims the tenant, or resumes the claim of another.
Claim == status \in Provisionable /\ status' = "pending" /\ prev' = "new"

\* A claimed tenant is finished.
Finish == status = "pending" /\ status' = "active" /\ prev' = "pending"

\* A migrator gives up: the schema of a NEW tenant is taken, provisioning
\* failed, or the schema of a served tenant is gone.
GiveUp ==
    /\ status \in Provisionable \cup Upgradable
    /\ status' = "failed" /\ prev' = status

Operate == status' \in OperatorMoves(status) /\ prev' = status

\* The row is deleted; it never comes back under this primary key.
Remove == status # "deleted" /\ status' = "deleted" /\ prev' = prev

Next == Claim \/ Finish \/ GiveUp \/ Operate \/ Remove

Spec == Init /\ [][Next]_<<status, prev>>
=============================================================================
