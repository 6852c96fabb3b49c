--------------------------- MODULE MCResolveCache ---------------------------
(***************************************************************************)
(* Small instances of ResolveCache.                                        *)
(***************************************************************************)
EXTENDS ResolveCache, TLC

CONSTANTS h1, h2, t1, t2, r1, w1, w2

Deployment(warm, covers, reconciles, changes, lost) ==
    [warm |-> warm, covers |-> covers, reconciles |-> reconciles, writes |-> changes,
     faults |-> lost, commands |-> FALSE, tasks |-> {}, hosts |-> {h1},
     rows |-> {h1}, tenants |-> Tenants]

\* A worker that runs tasks of one tenant; and an operator at the commands.
Tasks == [Deployment(FALSE, FALSE, FALSE, 1, 1) EXCEPT !.tasks = {t1}]
Commands == [Deployment(FALSE, TRUE, FALSE, 2, 0) EXCEPT !.commands = TRUE, !.tenants = {t1}]

\* A domain may take another hostname, twice.
Renames == [Deployment(FALSE, TRUE, FALSE, 2, 0) EXCEPT !.hosts = {h1, h2}, !.tenants = {t1}]

\* Holds that outlast a fill and nothing lost; and holds that do not, with a lost
\* invalidation and the reconcile task.
MCDeployments ==
    {Deployment(warm, TRUE, FALSE, 2, 0) : warm \in BOOLEAN}
        \cup {Deployment(TRUE, FALSE, TRUE, 1, 1), Tasks, Commands, Renames}

\* Nothing lost, and the reconcile task.
Rebuilding == {Deployment(TRUE, TRUE, TRUE, 1, 0)}
=============================================================================
