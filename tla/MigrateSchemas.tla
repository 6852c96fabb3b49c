--------------------------- MODULE MigrateSchemas ---------------------------
(***************************************************************************)
(* One run of the migrate_schemas command (tenants/management/commands/     *)
(* migrate_schemas.py): the shared stage, the selection of the tenants, the  *)
(* tenant stage (per-shard queues, round robin, failure breaker) driven      *)
(* sequentially or by a pool of forked workers, signals, a pool that breaks, *)
(* the re-check of locked targets and the report.  Workers, the operating    *)
(* system and another migrator run take their steps in between.              *)
(* reconcile_tenants --check is the operator Problems.                       *)
(***************************************************************************)
EXTENDS Naturals, Sequences, FiniteSets, FiniteSetsExt, Functions

CONSTANTS
    Tenants,      \* primary keys: positive numbers, targets run in their order
    Shards,       \* aliases of the tenant shards: positive numbers, in sort order
    ShardOf,      \* the shard of each tenant
    ActiveShards, \* shards with is_active
    Options,      \* command lines tried, see CommandLines
    None,
    Fleets,       \* what the database may hold at the start
    MaxSignals,   \* bound: signals
    MaxEvents     \* bound: faults and leases another run takes, those after a signal
                  \* counted with the signals

CommandLines ==
    [stage : {"shared", "tenant", "both"}, jobs : Nat, perShard : Nat,
     maxFailures : Nat, keepGoing : BOOLEAN, cli : BOOLEAN]

ASSUME CommandConstants ==
    /\ Tenants \subseteq Nat \ {0} /\ Shards \subseteq Nat \ {0}
    /\ IsFiniteSet(Tenants) /\ IsFiniteSet(Shards)
    /\ ShardOf \in [Tenants -> Shards] /\ ActiveShards \subseteq Shards
    /\ Options \subseteq CommandLines
    /\ MaxSignals \in Nat /\ MaxEvents \in Nat

Shared == 0                       \* the target of the shared stage; its lease key
Targets == Tenants \cup {Shared}

VARIABLES
    opt,          \* the options of this run
    pc,           \* where the parent process is
    entry,        \* the summary rows: kind, reason, conn (conn_error), before
    queues, inflight, consecutive, stop, last,   \* TenantStage
    batch,        \* the futures the last wait() returned, not looked at yet
    fut,          \* per tenant: its future, or the call of the sequential mode
    work,         \* per target: what migrate_tenant does in its process
    pool,         \* the process pool
    signals, hard,
    snap,         \* targets with a snapshot in the summary
    code,         \* exit code
    row,          \* the database: status and schema of each tenant, "public"
    lease,        \* per lease key: None, "us" or "other"
    faults, others,
    late,         \* history: targets started after the first signal
    passed        \* history: per shard, targets of others taken while it could run

stage == <<queues, inflight, consecutive, stop, last>>
vars == <<opt, pc, entry, stage, batch, fut, work, pool, signals, hard, snap,
          code, row, lease, faults, others, late, passed>>

Absent == [kind |-> "absent", reason |-> "", conn |-> None, before |-> None]
Blank(status) == [Absent EXCEPT !.kind = "not_run", !.before = status]
Result(k, r, c) == [kind |-> k, reason |-> r, conn |-> c, before |-> None]

\* A future that has no result yet, an exception of the call, a BrokenProcessPool.
Pending == Result("pending", "", None)
Raised  == Result("raised", "", None)
Lost    == Result("lost", "", None)

Provisionable == {"new", "pending"}
Upgradable == {"active", "deactivated"}
Statuses == Provisionable \cup Upgradable \cup {"failed"}

Kinds == {"absent", "not_run", "running", "ok", "noop", "failed", "skipped", "interrupted"}
Reasons == {"", "applied", "up_to_date", "status_failed", "locked", "conn_error",
            "code_older_than_db", "schema_missing", "migration_error", "stopped",
            "shard_unreachable", "hard_stop", "done_by_another_run",
            "provisioning_elsewhere"}

\* Summary rows and futures.
Outcomes == [kind : Kinds \cup {"pending", "raised", "lost"}, reason : Reasons,
             conn : {None, "default", "shard"}, before : Statuses \cup {None}]

\* stop_reason
Stops == {"signal", "shared_failed", "default_unreachable", "fail_fast", "max_failures",
          "hard_stop", "broken_pool"}
ExitCodes == {0, 1, 130}

ASSUME NoneDistinct == None \notin Outcomes \cup Stops \cup ExitCodes

-----------------------------------------------------------------------------
(* The command line and the rows it starts from *)

\* The numeric checks of _validate; a refused command line changes nothing.
Accepted(o) ==
    o.jobs >= 1 /\ o.perShard >= 1 /\ o.maxFailures >= 1 /\ o.perShard <= o.jobs

\* "ahead": a newer release has applied migrations this code does not know.
Rows == [status : Statuses, schema : {"missing", "behind", "current", "ahead"}]

\* pending_plan is empty: unknown migrations do not count.
Current(w) == w.schema \in {"current", "ahead"}

CodeOlder == row[Shared].schema = "ahead"

ASSUME FleetRows == Fleets \subseteq [Targets -> Rows]

Init ==
    /\ opt \in {o \in Options : Accepted(o)}
    /\ row \in Fleets
    /\ lease = [t \in Targets |-> None]
    /\ pc = IF opt.stage = "tenant" THEN "select" ELSE "shared"
    /\ code = None /\ stop = None
    /\ entry = [t \in Targets |-> Absent]
    /\ queues = [s \in Shards |-> <<>>]
    /\ inflight = [s \in Shards |-> 0] /\ consecutive = [s \in Shards |-> 0]
    /\ last = 0 /\ batch = {} /\ pool = "none"
    /\ fut = [t \in Targets |-> None] /\ work = [t \in Targets |-> "off"]
    /\ signals = 0 /\ hard = FALSE /\ snap = {}
    /\ faults = 0 /\ others = 0 /\ late = 0 /\ passed = [s \in Shards |-> 0]

Event == signals + faults + others < MaxEvents
Signal ==
    /\ signals < MaxSignals /\ faults + others < MaxEvents
    /\ signals' = signals + 1

Working(t) == work[t] \in {"start", "run"}

\* Broken: SIGTERM, which the workers ignore.
KilledNone == work

\* _kill_workers.
Killed == [t \in Targets |-> IF Working(t) THEN "dead" ELSE work[t]]
Parallel == pool # "none"
Running == {t \in Tenants : fut[t] # None}     \* `running` of _run_parallel

-----------------------------------------------------------------------------
(* TenantStage *)

InQueue(qs) == UNION {Range(qs[s]) : s \in Shards}
Empty == [s \in Shards |-> <<>>]
Jobs == IF Parallel THEN opt.jobs ELSE 1
PerShard == IF Parallel THEN opt.perShard ELSE 1

\* The job slots taken, sum(inflight) of them.
SlotsOut == UNION {{s} \X (1..inflight[s]) : s \in Shards}

\* Every job slot is taken.
Full == Cardinality(SlotsOut) >= Jobs

Ready == {s \in Shards : queues[s] # <<>> /\ inflight[s] < PerShard}

\* Broken: the shard served last is not remembered.
PickFirst ==
    IF Full \/ Ready = {}
      THEN None ELSE Min(Ready)

\* Broken: the per-shard limit is not looked at.
PickUnlimited ==
    LET some == {s \in Shards : queues[s] # <<>>}
    IN  IF Full \/ some = {}
          THEN None ELSE Min(some)

\* The shard the next target comes from: round robin after the one served last.
pick_next ==
    LET after == {s \in Ready : s > last}
    IN  IF Full \/ Ready = {}
          THEN None
          ELSE Min(IF after # {} THEN after ELSE Ready)

Marked(es, ts, k, r) ==
    [t \in Targets |->
        IF t \in ts THEN [es[t] EXCEPT !.kind = k, !.reason = r] ELSE es[t]]
Taken(es, t, r) == [es EXCEPT ![t] = [r EXCEPT !.before = es[t].before]]

\* TenantStage.halt: the queued targets are not run, the first reason stays
\* unless it is overridden.
Halt(qs, es, reason, override) ==
    /\ stop' = IF stop = None \/ override THEN reason ELSE stop
    /\ entry' = Marked(es, InQueue(qs), "not_run", "stopped")
    /\ queues' = Empty

\* The consecutive failures of a shard after one more result.
Count(n, r) ==
    IF r.conn # None \/ r.kind = "skipped" THEN n
    ELSE IF r.kind = "failed" THEN n + 1 ELSE 0

\* Broken: the breaker looks at the count before this failure.
HaltLate(r, n, left) ==
    IF r.conn = "default" THEN "default_unreachable"
    ELSE IF r.kind # "failed" \/ stop # None THEN None
    ELSE IF opt.keepGoing
      THEN IF n > opt.maxFailures THEN "max_failures" ELSE None
      ELSE IF InQueue(left) # {} THEN "fail_fast" ELSE None

\* Why done() halts the stage, given what it leaves queued.
HaltReason(r, n, left) ==
    IF r.conn = "default" THEN "default_unreachable"
    ELSE IF r.kind # "failed" \/ stop # None THEN None
    ELSE IF opt.keepGoing
      THEN IF n >= opt.maxFailures THEN "max_failures" ELSE None
      ELSE IF InQueue(left) # {} THEN "fail_fast" ELSE None

\* Entry.take and TenantStage.done for the result r of tenant t.
Done(t, r) ==
    LET s    == ShardOf[t]
        n    == Count(consecutive[s], r)
        left == IF r.conn = "shard" THEN [queues EXCEPT ![s] = <<>>] ELSE queues
        es   == Marked(Taken(entry, t, r), InQueue(queues) \ InQueue(left),
                       "not_run", "shard_unreachable")
        why  == HaltReason(r, n, left)
    IN  /\ inflight' = [inflight EXCEPT ![s] = @ - 1]
        /\ consecutive' = [consecutive EXCEPT ![s] = n]
        /\ IF why # None THEN Halt(left, es, why, FALSE)
           ELSE queues' = left /\ entry' = es /\ UNCHANGED stop
        /\ UNCHANGED last

-----------------------------------------------------------------------------
(* migrate_tenant and migrate_shared, in a worker or in the parent.  What     *)
(* happens under the lease is the subject of module Migrator.                 *)

world == <<row, lease, faults, others>>
parent == <<opt, pc, entry, stage, batch, pool, signals, hard, snap, code, late, passed>>

\* The call returns or raises; a broken pool loses what a worker sends.
Return(t, r) ==
    /\ work' = [work EXCEPT ![t] = "ended"]
    /\ fut' = IF fut[t] = Pending THEN [fut EXCEPT ![t] = r] ELSE fut

Fault == Event /\ faults' = faults + 1

\* Load, gate, no-op shortcut, lease_acquire and, in _provision, the first look at
\* the release of the database: None when the call goes on under its lease.
EarlyResult(t) ==
    IF row[t].status = "failed" THEN Result("skipped", "status_failed", None)
    ELSE IF row[t].status \in Upgradable /\ Current(row[t])
      THEN Result("noop", "up_to_date", None)
    ELSE IF lease[t] = "other" THEN Result("skipped", "locked", None)
    ELSE IF row[t].status \in Provisionable /\ CodeOlder
      THEN Result("skipped", "code_older_than_db", None)
    ELSE None

\* The shared stage has no shortcut, and a busy lease fails it at once.
EarlyShared ==
    IF lease[Shared] = "other" THEN Result("failed", "locked", None) ELSE None

WorkStart(t) ==
    /\ work[t] = "start"
    /\ LET early == IF t = Shared THEN EarlyShared ELSE EarlyResult(t)
       IN  IF early # None
             THEN Return(t, early) /\ UNCHANGED <<row, lease>>
             ELSE /\ work' = [work EXCEPT ![t] = "run"]
                  /\ lease' = [lease EXCEPT ![t] = "us"]
                  /\ row' = IF row[t].status = "new"
                              THEN [row EXCEPT ![t].status = "pending"] ELSE row
                  /\ UNCHANGED fut
    /\ UNCHANGED <<parent, faults, others>>

\* How a lost connection is reported: the side it was on.
ConnErrors(t) ==
    {Result("failed", "conn_error", c) :
        c \in IF t = Shared THEN {"default"} ELSE {"default", "shard"}}

\* The call ends before it holds the lease: no connection, or it raises.
WorkFault(t) ==
    /\ work[t] = "start" /\ Fault
    /\ \E r \in ConnErrors(t) \cup {Raised} : Return(t, r)
    /\ UNCHANGED <<parent, row, lease, others>>

\* A migrated row, by this code or by a newer release.
Migrated(w, schema) ==
    [status |-> IF w.status \in Upgradable THEN w.status ELSE "active",
     schema |-> IF w.schema = "ahead" THEN "ahead" ELSE schema]

\* Every migration of the target is applied.  _provision looks at the release of the
\* database once more and leaves a tenant of a newer one PENDING.
Applied(t) ==
    /\ ~(row[t].status \in Upgradable /\ row[t].schema = "missing")
    /\ IF row[t].status = "pending" /\ CodeOlder
         THEN /\ row' = [row EXCEPT ![t].schema = Migrated(row[t], "current").schema]
              /\ Return(t, Result("skipped", "code_older_than_db", None))
         ELSE /\ row' = [row EXCEPT ![t] = Migrated(row[t], "current")]
              /\ Return(t, Result("ok", "applied", None))

\* _upgrade finds no schema.
SchemaMissing(t) ==
    /\ row[t].status \in Upgradable /\ row[t].schema = "missing"
    /\ row' = [row EXCEPT ![t].status = "failed"]
    /\ Return(t, Result("failed", "schema_missing", None))

WorkDone(t) ==
    /\ work[t] = "run"
    /\ Applied(t) \/ SchemaMissing(t)
    /\ lease' = [lease EXCEPT ![t] = None]
    /\ UNCHANGED <<parent, faults, others>>

\* A migration fails, or a connection is lost under the lease.
WorkFails(t) ==
    /\ work[t] = "run" /\ Fault
    /\ lease' = [lease EXCEPT ![t] = None]
    /\ \/ /\ Return(t, Result("failed", "migration_error", None))
          /\ row' = IF row[t].status = "pending"
                      THEN [row EXCEPT ![t].status = "failed"] ELSE row
       \/ /\ \E r \in ConnErrors(t) : Return(t, r)
          /\ UNCHANGED row
    /\ UNCHANGED <<parent, others>>

Work(t) == WorkStart(t) \/ WorkFault(t) \/ WorkDone(t) \/ WorkFails(t)

-----------------------------------------------------------------------------
(* Another run, of this release or of a newer one: provision_tenant in Celery, *)
(* or a second migrate_schemas                                               *)

rest == <<parent, fut, work>>

OtherTakes(t) ==
    /\ lease[t] = None /\ row[t].schema # "ahead" /\ row[t].status # "failed"
    /\ Event /\ others' = others + 1
    /\ lease' = [lease EXCEPT ![t] = "other"]
    /\ row' = IF row[t].status = "new" THEN [row EXCEPT ![t].status = "pending"] ELSE row
    /\ UNCHANGED <<rest, faults>>

OtherEnds(t) ==
    /\ lease[t] = "other"
    /\ lease' = [lease EXCEPT ![t] = None]
    /\ \/ /\ \E schema \in {"current", "ahead"} :
                row' = [row EXCEPT ![t] = Migrated(row[t], schema)]
          /\ UNCHANGED faults
       \/ /\ Fault
          /\ row' \in {row, [row EXCEPT ![t].status =
                                IF row[t].status = "pending" THEN "failed" ELSE @]}
    /\ UNCHANGED <<rest, others>>

-----------------------------------------------------------------------------
(* The parent: handle, _run, _run_sequential, _run_parallel *)

idle == <<opt, signals, hard>>

\* Broken: a target whose process was cut off keeps its kind.
SettleUnrun(kind, reason) ==
    Marked(entry, {t \in Targets : entry[t].kind = "not_run" /\ entry[t].reason = ""},
           "not_run", "stopped")

\* _settle: running entries get `kind`, unstarted ones are not run.
Settle(kind, reason) ==
    Marked(Marked(entry, {t \in Targets : entry[t].kind = "running"}, kind, reason),
           {t \in Targets : entry[t].kind = "not_run" /\ entry[t].reason = ""},
           "not_run", "stopped")

\* An exception leaves _run: everything is settled as failed.
Escape == entry' = Settle("failed", "migration_error") /\ code' = 1 /\ pc' = "report"

StartShared ==
    /\ pc = "shared" /\ pc' = "sharedWait"
    /\ entry' = [entry EXCEPT ![Shared] = [Blank(None) EXCEPT !.kind = "running"]]
    /\ fut' = [fut EXCEPT ![Shared] = Pending]
    /\ work' = [work EXCEPT ![Shared] = "start"]
    /\ UNCHANGED <<stage, batch, pool, snap, code, world, idle, late, passed>>

EndShared ==
    /\ pc = "sharedWait" /\ fut[Shared] # Pending
    /\ fut' = [fut EXCEPT ![Shared] = None]
    /\ IF fut[Shared] = Raised
         THEN Escape /\ UNCHANGED stop
         ELSE /\ entry' = Taken(entry, Shared, fut[Shared])
              /\ stop' = IF fut[Shared].kind # "ok" THEN "shared_failed" ELSE stop
              /\ pc' = IF stop' = None /\ opt.stage = "both" THEN "select" ELSE "report"
              /\ UNCHANGED code
    /\ UNCHANGED <<queues, inflight, consecutive, last, batch, work, pool, snap, world, idle,
                   late, passed>>

\* _select_targets: FAILED tenants and those on inactive shards are not taken.
Selected ==
    {t \in Tenants : /\ row[t].status \in Provisionable \cup Upgradable
                     /\ ShardOf[t] \in ActiveShards}

\* By primary key.
Ordered(ts) ==
    CHOOSE q \in [1..Cardinality(ts) -> ts] : \A i, j \in DOMAIN q : i < j => q[i] < q[j]

Select ==
    /\ pc = "select"
    /\ \/ /\ signals > 0 /\ stop' = "signal" /\ pc' = "report"
          /\ UNCHANGED <<entry, queues, pool, faults>>
       \/ /\ signals = 0 /\ Fault /\ stop' = "default_unreachable" /\ pc' = "report"
          /\ UNCHANGED <<entry, queues, pool>>
       \/ /\ signals = 0
          /\ entry' = [t \in Targets |->
                         IF t \in Selected THEN Blank(row[t].status) ELSE entry[t]]
          /\ queues' = [s \in Shards |->
                          Ordered({t \in Selected : ShardOf[t] = s})]
          /\ pool' = IF opt.jobs > 1 /\ opt.cli /\ Cardinality(Selected) > 1
                       THEN "empty" ELSE "none"
          /\ pc' = IF Selected = {} THEN "report" ELSE "top"
          /\ UNCHANGED <<stop, faults>>
    /\ UNCHANGED <<inflight, consecutive, last, batch, fut, work, snap, code,
                   row, lease, others, idle, late, passed>>

\* Broken: the drain is noticed only when nothing runs.
TopIdle ==
    /\ pc = "top" /\ pc' = "next"
    /\ IF signals > 0 /\ Running = {} THEN Halt(queues, entry, "signal", FALSE)
       ELSE UNCHANGED <<stop, entry, queues>>
    /\ UNCHANGED <<inflight, consecutive, last, batch, fut, work, pool, snap, code,
                   world, idle, late, passed>>

\* The head of the loop: a drain was asked for.
Top ==
    /\ pc = "top" /\ pc' = "next"
    /\ IF signals > 0 THEN Halt(queues, entry, "signal", FALSE)
       ELSE UNCHANGED <<stop, entry, queues>>
    /\ UNCHANGED <<inflight, consecutive, last, batch, fut, work, pool, snap, code,
                   world, idle, late, passed>>

\* What becomes of a target handed to the pool: with every worker killed nobody
\* starts it; with one worker dead another may.
Submitted ==
    IF pool # "dying" THEN {"start"} ELSE IF hard THEN {"off"} ELSE {"off", "start"}

\* stage.next and the start of its target.  A broken pool refuses a submit.
Take ==
    /\ pc = "next" /\ stop = None /\ pick_next # None
    /\ LET s == pick_next
           t == Head(queues[s])
       IN  /\ last' = s
           /\ queues' = [queues EXCEPT ![s] = Tail(@)]
           /\ inflight' = [inflight EXCEPT ![s] = @ + 1]
           /\ passed' = [u \in Shards |-> IF u = s THEN 0
                                          ELSE IF u \in Ready THEN passed[u] + 1 ELSE passed[u]]
           /\ late' = IF signals > 0 THEN late + 1 ELSE late
           /\ entry' = [entry EXCEPT ![t].kind = "running"]
           /\ IF pool = "broken"
                THEN pc' = "refused" /\ UNCHANGED <<fut, work, pool>>
                ELSE /\ fut' = [fut EXCEPT ![t] = Pending]
                     /\ \E w \in Submitted : work' = [work EXCEPT ![t] = w]
                     /\ pool' = IF pool = "empty" THEN "live" ELSE pool
                     /\ pc' = IF Parallel THEN "next" ELSE "wait"
    /\ UNCHANGED <<consecutive, stop, batch, snap, code, world, idle>>

Locked(es) == {t \in Tenants : es[t].kind = "skipped" /\ es[t].reason = "locked"}

\* Nothing to take: leave the stage when nothing runs, else wait.
NoMore ==
    /\ pc = "next" /\ (stop # None \/ pick_next = None)
    /\ IF Running = {}
         THEN /\ pc' = "recheck" /\ batch' = Locked(entry)
              /\ pool' = IF Parallel THEN "closed" ELSE pool
         ELSE pc' = "wait" /\ UNCHANGED <<batch, pool>>
    /\ UNCHANGED <<entry, stage, fut, work, snap, code, world, idle, late, passed>>

\* wait() returns the finished futures, or none after _POLL_SECS.
Wait ==
    /\ pc = "wait"
    /\ batch' = {t \in Running : fut[t] # Pending}
    /\ ~Parallel => batch' # {}
    /\ pc' = IF batch' = {} THEN "top" ELSE "collect"
    /\ UNCHANGED <<entry, stage, fut, work, pool, snap, code, world, idle, late, passed>>

Collected(t) ==
    IF fut[t] = Raised THEN Result("failed", "migration_error", None) ELSE fut[t]

\* One finished future.  An exception of migrate_tenant fails its entry in the
\* parallel mode and aborts a sequential run.
Collect(t) ==
    /\ pc = "collect" /\ t \in batch /\ fut[t] # Lost
    /\ fut' = [fut EXCEPT ![t] = None]
    /\ batch' = batch \ {t}
    /\ IF fut[t] = Raised /\ ~Parallel
         THEN Escape /\ UNCHANGED stage
         ELSE Done(t, Collected(t)) /\ UNCHANGED <<code, pc>>
    /\ UNCHANGED <<work, pool, snap, world, idle, late, passed>>

\* Broken: futures of a broken pool are passed over.
EndBatchBlind ==
    /\ pc = "collect" /\ \A t \in batch : fut[t] = Lost
    /\ pc' = "top" /\ batch' = {}
    /\ UNCHANGED <<entry, stage, fut, work, pool, snap, code, world, idle, late, passed>>

EndBatch ==
    /\ pc = "collect" /\ \A t \in batch : fut[t] = Lost
    /\ pc' = IF batch = {} THEN "top" ELSE "broken"
    /\ batch' = {}
    /\ UNCHANGED <<entry, stage, fut, work, pool, snap, code, world, idle, late, passed>>

\* The pool broke.  Its loop over results that made it back finds none: wait() has
\* returned every future that was finished, and a broken pool finishes no other.
\* What was running is cut off.
CutOff ==
    /\ pc = "broken" /\ pc' = "finally"
    /\ Halt(queues, Marked(entry, Running, "interrupted", "hard_stop"),
            IF hard THEN "hard_stop" ELSE "broken_pool", TRUE)
    /\ UNCHANGED <<inflight, consecutive, last, batch, fut, work, pool, snap, code, world,
                   idle, late, passed>>

\* The finally of _run_parallel after a broken pool, or as the BrokenProcessPool of a
\* refused submit passes through it: _pool_live is reset first ...
Unpool ==
    /\ pc \in {"finally", "refused"}
    /\ pc' = IF pc = "finally" THEN "kill" ELSE "killRaise"
    /\ pool' = "closed"
    /\ UNCHANGED <<entry, stage, batch, fut, work, snap, code, world, idle, late, passed>>

\* ... then the workers are killed if a future is left, and the executor shut down.
KillWorkers ==
    /\ pc \in {"kill", "killRaise"}
    /\ work' = IF Running # {} THEN Killed ELSE work
    /\ IF pc = "killRaise" THEN Escape ELSE pc' = "snap" /\ UNCHANGED <<entry, code>>
    /\ UNCHANGED <<stage, batch, fut, pool, snap, world, idle, late, passed>>

Interrupted == {t \in Targets : entry[t].kind = "interrupted"}

Snapshots ==
    /\ pc = "snap" /\ pc' = "recheck"
    /\ snap' = Interrupted /\ batch' = Locked(entry)
    /\ UNCHANGED <<entry, stage, fut, work, pool, code, world, idle, late, passed>>

\* Broken: whoever held the lease is trusted to have finished.
RecheckKindBlind(t) ==
    IF row[t].status \in Upgradable THEN "done_by_another_run"
    ELSE IF row[t].status = "pending" /\ lease[t] # None THEN "provisioning_elsewhere"
    ELSE None

\* What the re-check of a locked target finds out, None when the skip stands.
RecheckKind(t) ==
    IF row[t].status \in Upgradable /\ Current(row[t]) THEN "done_by_another_run"
    ELSE IF row[t].status = "pending" /\ lease[t] # None THEN "provisioning_elsewhere"
    ELSE None

\* _recheck_locked, one target after the other; an error leaves the skip.
Recheck ==
    /\ pc = "recheck" /\ batch # {}
    /\ LET t == Min(batch)
       IN  /\ batch' = batch \ {t}
           /\ \/ /\ entry' = IF RecheckKind(t) = None THEN entry
                             ELSE Marked(entry, {t}, "ok", RecheckKind(t))
                 /\ UNCHANGED faults
              \/ Fault /\ UNCHANGED entry
    /\ UNCHANGED <<pc, stage, fut, work, pool, snap, code, row, lease, others, idle,
                   late, passed>>

EndRecheck ==
    /\ pc = "recheck" /\ batch = {} /\ pc' = "report"
    /\ UNCHANGED <<entry, stage, batch, fut, work, pool, snap, code, world, idle,
                   late, passed>>

\* Broken: a stopped run is judged by the targets it got to.
ExitByEntries ==
    IF \A t \in Targets : entry[t].kind \in {"absent", "ok", "noop"} THEN 0 ELSE 1

exit_code ==
    IF stop = None /\ \A t \in Targets : entry[t].kind \in {"absent", "ok", "noop"}
      THEN 0 ELSE 1

Report ==
    /\ pc = "report" /\ pc' = "done"
    /\ code' = IF code = None THEN exit_code ELSE code
    /\ UNCHANGED <<entry, stage, batch, fut, work, pool, snap, world, idle, late, passed>>

-----------------------------------------------------------------------------
(* Signals and the pool *)

\* Broken: the flag is never reset before the pool exists.
PoolAlways == pool # "closed"

PoolLive == pool \in {"empty", "live", "dying", "broken"}

\* KeyboardInterrupt leaves _run.  migrate_tenant's finally releases the lease of
\* a call in the parent unless its backend may still be busy; a pool is left as it
\* is, its workers with it if they were about to be killed.
Interrupt(c) ==
    /\ entry' = Settle("interrupted", "hard_stop")
    /\ snap' = snap \cup {t \in Targets : entry[t].kind = "running"}
    /\ stop' = "hard_stop" /\ code' = c /\ pc' = "report"
    /\ pool' = IF pc \in {"kill", "killRaise"} THEN "left" ELSE pool
    /\ IF Parallel THEN UNCHANGED <<work, lease>>
       ELSE /\ work' = Killed
            /\ lease' \in {lease, [t \in Targets |->
                                     IF work[t] = "run" THEN None ELSE lease[t]]}

\* _on_signal: the first signal drains, the next ones stop hard.
OnSignal ==
    /\ opt.cli /\ pc \notin {"report", "done"}
    /\ Signal
    /\ IF signals = 0
         THEN UNCHANGED <<hard, entry, snap, stop, code, pc, work, lease, pool>>
       ELSE IF PoolLive
         THEN /\ hard' = TRUE
              /\ work' = Killed
              /\ pool' = IF pool = "live" THEN "dying" ELSE pool
              /\ UNCHANGED <<entry, snap, stop, code, pc, lease>>
       ELSE hard' = TRUE /\ Interrupt(1)
    /\ UNCHANGED <<opt, queues, inflight, consecutive, last, batch, fut, row, faults,
                   others, late, passed>>

\* A hard stop while the snapshots are read skips the rest of them.
SkipSnapshots ==
    /\ pc = "snap" /\ signals > 0 /\ Signal
    /\ hard' = TRUE /\ pc' = "recheck" /\ batch' = Locked(entry)
    /\ UNCHANGED <<opt, entry, stage, fut, work, pool, snap, code, world, late, passed>>

\* Ctrl-C under call_command: no handler of ours, the exception propagates.
ForeignInterrupt ==
    /\ ~opt.cli /\ pc \notin {"report", "done"}
    /\ Signal
    /\ Interrupt(130)
    /\ UNCHANGED <<opt, queues, inflight, consecutive, last, batch, fut, hard, row,
                   faults, others, late, passed>>

\* The OOM killer takes one worker, busy or not.
WorkerDies ==
    /\ pool \in {"live", "dying"} /\ Fault
    /\ pool' = "dying"
    /\ \E ts \in {{}} \cup {{t} : t \in {u \in Tenants : Working(u)}} :
          work' = [t \in Targets |-> IF t \in ts THEN "dead" ELSE work[t]]
    /\ UNCHANGED <<opt, pc, entry, stage, batch, fut, signals, hard, snap, code, row,
                   lease, others, late, passed>>

\* The executor notices: unfinished futures get BrokenProcessPool.  The other
\* workers ignore its SIGTERM and go on.
PoolBreaks ==
    /\ pool = "dying" /\ pool' = "broken"
    /\ fut' = [t \in Targets |-> IF fut[t] = Pending THEN Lost ELSE fut[t]]
    /\ UNCHANGED <<opt, pc, entry, stage, batch, work, signals, hard, snap, code,
                   world, late, passed>>

Parent ==
    \/ StartShared \/ EndShared \/ Select \/ Top \/ Take \/ NoMore \/ Wait
    \/ \E t \in Tenants : Collect(t)
    \/ EndBatch \/ CutOff \/ Unpool \/ KillWorkers
    \/ Snapshots \/ Recheck \/ EndRecheck \/ Report

Next ==
    \/ Parent
    \/ OnSignal \/ SkipSnapshots \/ ForeignInterrupt \/ WorkerDies \/ PoolBreaks
    \/ \E t \in Targets : Work(t) \/ OtherTakes(t) \/ OtherEnds(t)

Spec == Init /\ [][Next]_vars

\* The parent runs on and the executor notices a dead worker.  Workers owe
\* nothing: a migration may block for ever.
FairSpec == Spec /\ WF_vars(Parent) /\ WF_vars(PoolBreaks)

-----------------------------------------------------------------------------
(* reconcile_tenants *)

\* The problems of --check.  A PENDING tenant, stuck or not, is only a warning.
Problems(unreachable) ==
    LET active == {t \in Tenants : row[t].status = "active"}
    IN  {<<"code_older_than_db", Shared>> : t \in {u \in {Shared} : CodeOlder}}
        \cup {<<"public", Shared>> : t \in {u \in {Shared} : ~Current(row[u])}}
        \cup {<<"unreachable", ShardOf[t]>> : t \in {u \in active : ShardOf[u] \in unreachable}}
        \cup {<<row[t].schema, t>> :
                t \in {u \in active : ShardOf[u] \notin unreachable /\ ~Current(row[u])}}

\* The NEXT column of --report.
NextStep(t) ==
    IF lease[t] # None THEN "wait, or release the lease"
    ELSE IF t = Shared THEN IF Current(row[t]) THEN "-" ELSE "migrate_schemas --shared"
    ELSE IF row[t].status = "failed" THEN "admin: FAILED to NEW"
    ELSE IF row[t].schema = "missing" /\ row[t].status \notin Provisionable THEN "restore it"
    ELSE IF ~Current(row[t]) \/ row[t].status \in Provisionable
      THEN "migrate_schemas -s" ELSE "-"

-----------------------------------------------------------------------------
(* Properties *)

TypeOK ==
    /\ opt \in Options
    /\ pc \in {"shared", "sharedWait", "select", "top", "next", "refused", "wait",
               "collect", "broken", "finally", "kill", "killRaise", "snap", "recheck",
               "report", "done"}
    /\ entry \in [Targets -> Outcomes]
    /\ queues \in [Shards -> Seq(Tenants)]
    /\ inflight \in [Shards -> Nat] /\ consecutive \in [Shards -> Nat]
    /\ stop \in Stops \cup {None}
    /\ last \in Shards \cup {0} /\ batch \subseteq Tenants
    /\ fut \in [Targets -> Outcomes \cup {None}]
    /\ work \in [Targets -> {"off", "start", "run", "ended", "dead"}]
    /\ pool \in {"none", "empty", "live", "dying", "broken", "closed", "left"}
    /\ signals \in Nat /\ hard \in BOOLEAN /\ snap \subseteq Targets
    /\ code \in ExitCodes \cup {None}
    /\ row \in [Targets -> Rows]
    /\ lease \in [Targets -> {None, "us", "other"}]
    /\ faults \in Nat /\ others \in Nat
    /\ late \in Nat /\ passed \in [Shards -> Nat]

\* A target the summary calls ok or noop is up to date, whoever did it and
\* however the run ended; only `provisioning elsewhere` vouches for another run.
Truthful ==
    pc = "done" => \A t \in Targets :
        entry[t].kind \in {"ok", "noop"} /\ entry[t].reason # "provisioning_elsewhere"
            => Current(row[t])

\* After a run of both stages with exit code 0 the deploy gate has nothing to
\* report but tenants on inactive shards and, when a newer release has migrated
\* public, that this code is older: such a run provisions nobody, but with nobody to
\* provision it is no error to migrate_schemas, and it is one to the gate.  --report
\* has a next step for all the gate reports but that one, after any run.
GateAgrees ==
    pc = "done" => \A x \in Problems({}) \ {<<"code_older_than_db", Shared>>} :
        /\ NextStep(x[2]) # "-"
        /\ code = 0 /\ opt.stage = "both" =>
              x[2] \in Tenants /\ ShardOf[x[2]] \notin ActiveShards

\* --jobs-per-shard bounds the migrations that really run on a shard, a breaking
\* pool and a hard stop included.
ShardLimit ==
    \A s \in Shards :
        Cardinality({t \in Tenants : ShardOf[t] = s /\ Working(t)}) <= PerShard

\* The breaker: when a shard has failed --max-failures times in a row (once
\* without --keep-going), only what was in flight can still fail.
BreakerBound ==
    \A s \in Shards :
        consecutive[s] < (IF opt.keepGoing THEN opt.maxFailures ELSE 1) + PerShard

\* No shard that could run a target is passed over by a second round.
RoundRobin == \A s \in Shards : passed[s] < Cardinality(Shards)

\* When the summary is written, no process of this run migrates any more, unless a
\* hard stop hit the parent after it had reset _pool_live and before it killed the
\* workers; what they are at is then listed as interrupted.
NobodyLeft ==
    pc \in {"report", "done"} => \A t \in Targets :
        Working(t) => pool = "left" /\ entry[t].kind = "interrupted"

\* `draining - no new targets`: what is started after the first signal fits in
\* the free slots of one round.
DrainPrompt == late <= Jobs

\* A hard stop that met a pool with workers, or no pool, ends the command whatever
\* the workers were doing.
HardStopEnds == hard /\ pool \notin {"empty", "live"} ~> pc = "done"

\* The command ends if every migration it waits for does.
Terminates == (\A t \in Targets : []<>~Working(t)) => <>(pc = "done")

\* How the ledger of module RunLedger sees an entry of the summary.
Booked(e) ==
    CASE e.kind = "running" -> "running"
      [] e.kind = "absent" -> "todo"
      [] e.kind = "not_run" -> IF e.reason = "" THEN "todo" ELSE "unrun"
      [] OTHER -> "ran"
Ledger == INSTANCE RunLedger WITH
    Limit <- Jobs, state <- [t \in Targets |-> Booked(entry[t])], closed <- pc = "done"

\* The summary is such a ledger: a target is started once and within the job limit,
\* nothing is taken back, and the report comes last, with nothing running.
LedgerKept == Ledger!Spec

=============================================================================
