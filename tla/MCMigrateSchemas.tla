-------------------------- MODULE MCMigrateSchemas --------------------------
(***************************************************************************)
(* A small instance of MigrateSchemas: three tenants on two shards.        *)
(***************************************************************************)
EXTENDS MigrateSchemas

MCTenants == 1..3
MCShards == {1, 2}
MCShardOf == <<1, 1, 2>>
MCActive == {1, 2}

At(status, schema) == [status |-> status, schema |-> schema]
Fleet(public, r1, r2, r3) ==
    [t \in 0..3 |-> <<At("active", public), r1, r2, r3>>[t + 1]]

\* Everything behind; public migrated by a newer release, with a schema missing.
MCFleets ==
    {Fleet("behind", At("new", "missing"), At("active", "behind"), At("deactivated", "behind")),
     Fleet("ahead", At("active", "missing"), At("failed", "missing"), At("pending", "missing"))}

CmdLine(st, j, p, m, k, c) ==
    [stage |-> st, jobs |-> j, perShard |-> p, maxFailures |-> m, keepGoing |-> k, cli |-> c]

\* Sequential and parallel, with and without --keep-going, from the command line
\* and under call_command; the last one is refused.
MCOptions ==
    {CmdLine("both", 2, 1, 1, FALSE, TRUE), CmdLine("tenant", 2, 2, 1, TRUE, TRUE),
     CmdLine("both", 1, 1, 1, TRUE, TRUE), CmdLine("tenant", 3, 1, 2, FALSE, FALSE),
     CmdLine("shared", 1, 1, 1, FALSE, TRUE), CmdLine("both", 1, 2, 3, FALSE, TRUE)}
=============================================================================
