------------------------------ MODULE RunLedger ------------------------------
(***************************************************************************)
(* What the summary of a migrate_schemas run promises: a target is started *)
(* at most once and at most Limit at a time, one that was never started is *)
(* told apart from one that was, nothing is taken back, and the summary is *)
(* closed last, with nothing running.  Nothing is said about stages,       *)
(* queues, pools or signals; MigrateSchemas implements this specification. *)
(***************************************************************************)
EXTENDS Naturals, FiniteSets

CONSTANT Targets
VARIABLES
    Limit,   \* targets in flight at a time
    state,   \* per target: todo, running, ran or unrun
    closed

Init == state = [t \in Targets |-> "todo"] /\ closed = FALSE

Start(t) ==
    /\ ~closed /\ state[t] = "todo"
    /\ Cardinality({u \in Targets : state[u] = "running"}) < Limit
    /\ state' = [state EXCEPT ![t] = "running"]
    /\ UNCHANGED closed

\* Some targets end, some are given up without a start.
Settle(ended, given) ==
    /\ ~closed
    /\ \A t \in ended : state[t] = "running"
    /\ \A t \in given : state[t] = "todo"
    /\ state' = [t \in Targets |-> IF t \in ended THEN "ran"
                                   ELSE IF t \in given THEN "unrun" ELSE state[t]]
    /\ UNCHANGED closed

Close ==
    /\ ~closed /\ closed' = TRUE
    /\ \A t \in Targets : state[t] # "running"
    /\ UNCHANGED state

Next ==
    \/ \E t \in Targets : Start(t)
    \/ \E ended, given \in SUBSET Targets : Settle(ended, given)
    \/ Close

Spec == Init /\ [][Next]_<<state, closed>>
=============================================================================
