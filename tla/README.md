# Verification of the multi-tenant, sharded backend

TLA+ models of the backend's platform code, the TLC configurations that check them
on small instances, and TLAPS proofs of the central properties for every instance.
Paths are relative to `src/`; definitions keep the names of the code where they can,
and `PROJECT.json` maps every one of them to its lines.

## The system

One database, `default`, holds the tenants, their domains, the shards, the reserved
hosts, the migration leases and the watermarks of periodic tasks. Each tenant's
tables live in a PostgreSQL schema of its own on one of several shard databases.
Three kinds of process work on them:

* web processes resolve a hostname to a tenant (Redis snapshot, host gate,
  database), check its status and route the ORM to its shard; operators use the
  admin site and the console API of the same processes;
* Celery workers run tenant tasks, provision and drop schemas, fan periodic tasks
  out over the tenants and rebuild the Redis structures;
* management commands migrate shards and tenants at a deployment and serve the
  operators.

They meet in the tenant's row, its migration lease, its schema on the shard, the
broker and Redis. No transaction spans two of these, so the code's correctness is
the order in which single statements reach them. That order is what the models keep.

| Part | Source | Modules |
|---|---|---|
| Tenant migrator, lease, operators' status changes | `tenants/migrator.py`, `tenants/console/`, `management/commands/migration_lease.py` | `Migrator`; abstract: `TenantLifecycle` |
| Deployment command, deploy gate | `management/commands/migrate_schemas.py`, `reconcile_tenants.py` | `MigrateSchemas`; abstract: `RunLedger` |
| Snapshots in Redis, a worker's own tier | `tenants/resolver/cache.py`, `tenants/signals.py`, `tenants/celery/task.py` | `ResolveCache` |
| Host gate | `tenants/resolver/registry.py` | `HostRegistry` |
| Resolution of a request, throttles | `tenants/resolver/service.py`, `throttle.py`, `tenants/middleware.py` | `ResolveService`, `WorkerThreads` |
| Contexts, router, keys, headers, logins | `tenants/context.py`, `tenants/routers.py`, `tenants/auth/`, `commons/platform/cache_keys.py` | `TenantContext` |
| A request from host to response | `tenants/middleware.py` | `Request` = `ResolveService` + `TenantContext` |
| Periodic tasks | `tenants/celery/dispatch.py`, `commons/platform/beat.py`, `tenants/checks/beat.py` | `Fanout`, `BeatSchedule` |
| Tenants, domains, rules, shards and schemas over time | `tenants/console/`, `tenants/models.py`, bootstrap and drop commands, legacy migrator | `Catalog`, `ReservedHosts` |

`MC*` modules and `.cfg` files instantiate these for TLC; `*Proofs` modules hold the
theorems.

## Modules

### `Migrator`: one tenant and everyone who touches it

Different tenants use different lease rows, schemas and session labels, so one tenant
is the whole protocol. Its state:

* `status`, `prev`: the row; `"deleted"` once it is gone, for good.
* `leaseOwner`, `leaseExpired`: its `MigrationLease`. The clock is only the question
  whether `until` has passed.
* `schema`, `applied`: what is on the shard. Migrations are numbered, one per
  release; a schema is described by the last recorded one, a process (`code`) by the
  last one it knows, `public` by the release that last migrated the shared tables. A
  *foreign* schema is one this tenant did not create; `vetted` says that an operator
  has taken the tenant through an operator-owned status since.
* `pc`, `run`: what each process executes next in `migrate_tenant`, and its locals. A
  process is one value of `owner()`.
* `session`, `orphans`: `tm:<key>` connections with a living client, and backends
  that went on working after their client was gone.
* `shown`, `form`: what an operator has read and checked but not yet written.
* `stale`: a status write not yet followed by `forget_tenant`.

One action is one statement another process can observe. `lease_acquire` is two
(`LeaseProbe` on the shard, `LeaseTake` on default), as in the code; `_fenced_cas` is
one, because it is one transaction. The faults are lost connections (with or without
the statement's effect, with or without an orphaned backend), interrupts, process
death at any point, and a failing release. Operators act through the admin form
(`FormClean`, `FormSave`, `FormForget`), the console (`Transition`, whose `stopper` is
asked only if the row it loaded still has the status to leave; `DeleteCheck`, `Delete`),
`migration_lease --release` (`ReleaseCheck`, `ForceRelease`) and a restore by the
runbook (`Restore`).

Abstracted: the wording of outcomes and the run log, the diagnosis of a lost CAS, the
INVALID-index report, the anomaly of a tenant on the default shard. The lease and the
session an operator's check reads are read in one step. `migrate_shared` is one step.
An orphaned backend ends without recording the migration it was running: the client
records it, and the client is gone.

`TenantLifecycle` is what the rest of the system may rely on: which status changes
exist and what `previous_status` says after each. `Migrator` implements it under the
identity mapping (`LifecycleKept`).

### `MigrateSchemas`: one run of the deployment command

The parent process (`handle`, `_run`, `_run_sequential`, `_run_parallel`), the state
of `TenantStage` (per-shard queues, in-flight counts, consecutive failures, the shard
served last), the futures, the pool, and per target what `migrate_tenant` does in its
process. Workers, signals, a dying worker, the executor noticing it, and another
migrator run step in between. A worker's call is a start (load, gate, shortcut, lease)
and an end; what happens under the lease is `Migrator`. `Problems` and `NextStep` are
`reconcile_tenants --check` and the NEXT column of `--report`.

When the pool breaks, the code once more looks for results that made it back. The
executor is external: here it marks every unfinished future at once and finishes none
after that, and `wait()` returns all that are finished, so that loop finds nothing and
`CutOff` has no step for it. The `finally` of `_run_parallel` is two steps, `Unpool`
(`_pool_live` is reset) and `KillWorkers`: a hard stop between them ends the run with its
workers alive. A schema or `public` may be *ahead*, migrated by a newer release.

`RunLedger` is the promise of the summary: a target is started at most once and at
most `Limit` at a time, one never started is told from one that was, nothing is taken
back, and the summary is closed last with nothing running.

### `ResolveCache`: snapshots in Redis

Keys are hostnames (host-snap) and tenants, which stand for their schema name
(schema-snap). An entry is absent, a cached miss, a tombstone (the *hold*), or a
snapshot. Request threads fill with `SET NX` in separate statements; a writer loads
Domain rows and later saves or deletes them by primary key, as `Domain.from_db` and
`Domain.save` do, or rolls back; its transaction
commits and leaves a queue of `on_commit` callbacks, which the same thread runs one by
one and which a crash or a Redis outage may lose; the reconcile task and the commands
`warm_resolve_cache` and `invalidate_resolve_cache` overwrite or delete entries; a
Celery worker looks in Redis, then in its own tier, then in the database. `dep` is the
deployment: `WARM_ENABLED`, whether a fill is shorter than `HOLD_SECONDS`, who acts,
and the bounds.

Abstracted: `forget_hosts` derives the schema at the commit, in the code just before
it; the rebuild writes key by key, which is finer than its pipelines; the hold and
negative caching are on; a deleted tenant is not created again (`Catalog` does that).

### `HostRegistry`: the host gate

The SET `treg:hosts` (`{}` is an absent key, as in Redis), its rebuild target, the
dirty counter, the lock, the coalescing marker, the armed TTL and the broker's queue.
A Domain change runs its Redis commands one at a time; so does the reconcile task.
Redis errors skip the rest of one call and go on with the next, as each of `add`,
`remove`, `arm` and `trigger_warm` catches its own.

Abstracted: setting the marker and publishing the task are one step (a process that
dies between them is a lost publish); copies of the task beyond `MaxQueue` merge with
those waiting; the task of a killed worker is not redelivered, since a redelivery is
only one task more; the dirty counter does not expire.

### `ResolveService`, `TenantContext` and `Request`

`ResolveService` is the miss path of a request thread: snapshot, gate verdict, fill
cap (the shared counter, and the local bucket when Redis cannot count), single flight
(leader, followers, timeout, a leader stopped by a control-flow exception), the query,
and the fall-back to the database on any other error. The Domain rows stand still
here. `TenantContext` is what `current_db` and the schema of each connection are while
requests, tasks and commands enter and leave contexts in every order the code allows,
and what the router, cache keys, task headers, sessions and tokens read from them.
`Request` composes them: a thread that found its tenant goes through the status gate
into its view. `WorkerThreads` declares what the two share.

### `BeatSchedule` and `Fanout`

`BeatSchedule` is what `scoped_schedule` makes of an entry and which schedules the
system checks let through, as pure operators. `Fanout` runs one entry of a deployable
schedule: beat ticks, the FIFO queue, waves under the lock, the due check against the
watermark, batches, `mark_ran` as an insert and an update. Time is discrete; a cron in
a tenant's timezone is a set of instants.

### `Catalog` and `ReservedHosts`

`Catalog` keeps what the other modules fix: rows of tenants, domains, rules and shards
come and go, a schema name is used again after its tenant is gone, and schemas on the
shards outlive their rows. Threads are console requests, admin forms and bootstrap
commands that validate or load first and write later, deletions included: a domain is
loaded and then deleted by its key, and a tenant is loaded, its domains are collected and
the cascade deletes those, or fails on one that was added since. Workers migrate (or run
the legacy command, which has no lease); droppers run `drop_tenant_schema` by hand or from
the queue. `ReservedHosts` is `matches`, `candidate_q` and the normalisation of rules over
label sequences, as pure operators.

Abstracted: the claim and the refresh of the row in the legacy command are one step;
a lost drop message is a deletion without a drop; deactivated tenants behave like
active ones and are left out. `menu` bounds what one behaviour does.

## What the runs check

An `MC` module and a `.cfg` are one question. Counts are distinct states.

| Run | States | Question and answer |
|---|---|---|
| `lease` | 782,124 | Two reusable processes, two faults anywhere, leases that may run out under their owners. PENDING becomes ACTIVE on a complete schema only (`ActivatedCurrent`); PENDING left by a crash is resolved while somebody keeps starting runs (`PendingResolved`). |
| `admin` | 2,791,598 | One-shot processes with and without `--maintenance` and targeted flags against an operator's forms and console transitions, `migration_lease --release`, a lost schema, a restore, a deletion. The lease excludes (`OwnerOnly`), no shard session outlives it (`SessionOwned`), MAINTENANCE is respected (`MaintenanceExclusive`), no foreign schema is adopted unseen (`NoSilentAdoption`), operators' statuses are left to operators (`OperatorStatusKept`), every visible status write is followed by `forget_tenant` (`ForgetOwed`), and the row follows the lifecycle (`LifecycleKept`). |
| `stage` | 511,317 | One `migrate_schemas` run, sequential or with a pool, under signals, a dying worker, lost connections and another run, of this release or of a newer one. The summary is true (`Truthful`); exit code 0 means what the deploy gate checks, but for the report that this code is older than the database (`GateAgrees`); `--jobs-per-shard`, the breaker and the round robin hold (`ShardLimit`, `BreakerBound`, `RoundRobin`); nobody migrates when the summary is written, unless a hard stop came between `_pool_live = False` and the kill, and then the target is listed as interrupted (`NobodyLeft`); a drain starts no more than fits in the free slots (`DrainPrompt`); the command ends (`HardStopEnds`, `Terminates`) and keeps its ledger (`LedgerKept`). |
| `cache` | 364,498 | An entry that contradicts the database is one a committed transaction is about to tombstone, or a name its row had only between another writer's load and save (`Coherent`); with holds shorter than a fill and a lost invalidation, the cache and the tasks routed by it come back to the database for good (`EventuallyCoherent`, `TasksCatchUp`). |
| `gate` | 613,833 | A host whose row nobody touches is never refused (`StableServed`); a SET left without a TTL is exact (`SettledExact`); after faults it becomes exact for good (`EventuallyExact`). |
| `request` | 439,792 | Two requests share, lose and time out of a single flight while cache, gate, counter and database fail, and views and tasks nest contexts. Answers are facts (`HonestAnswer`), lookups are coalesced and capped (`Coalesced`, `BudgetKept`), nobody waits for ever (`EveryoneAnswered`), and queries, keys and headers stay with the tenant in context (`BothAxes`, `OwnData`, `KeysOwn`). |
| `fanout` | 2,447,954 | Two workers, two tenants, one fault, at pace and behind. A watermark was earned by a dispatch (`WatermarkHonest`) and never goes back (`WatermarkMonotone`), one fresh wave at a time (`OneFreshWave`), a missed tick heals within its grace (`SelfHeals`), no occurrence is sent twice at pace (`OnceWhenPaced`). |
| `catalog` | 654,357 | Names are used again, domains re-pointed, rules edited while workers migrate, drop and die. No tenant inherits another one's data (`NoInheritedData`), the conflicts report is exact (`ConflictsExact`), a host that loses its row is invalidated by whoever takes it, unless it was saved to a row another operation had loaded (`RepointForgets`). |

### Where the code and its documentation disagree

Each of these runs ends in a counterexample; `findings` in `PROJECT.json` quotes the
sentence.

| Run | Property | What happens |
|---|---|---|
| `orphan` | `OneBackend` | The probe and the upsert of `lease_acquire` are two statements. A backend orphaned between them goes on beside the migration that then starts. |
| `delete` | `ConsoleSparesMaintenance` | The console checks MAINTENANCE on the row it loaded and deletes without a condition. |
| `rebuild` | `RebuildRacesHandled` | A status change during a rebuild bumps no counter; the forced write replaces its tombstone by the old row. |
| `drop` | `OnlyOrphansDropped` | `drop_tenant_schema` looks for a live tenant once, before it looks at the schema and waits for the answer. A tenant created in between loses its schema. |

Other limits are premises of the properties. TLC gives a counterexample when one of
them is dropped:

* `Supported`, third conjunct: `lease_force_release` compares `owner()` only, so a
  Celery worker that takes its own expired lease again is taken for the run the
  operator looked at. Its docstring says "A run that re-took the lease in between is
  not touched" (`tenants/migrator.py:289`).
* `Supported`, first two conjuncts: no migration outlives `LEASE_TTL` and nobody
  uses `--force`. The runbook says so too. `ActivatedCurrent` needs them for targeted
  runs only.
* `Coherent`: no rebuild (see `rebuild`) and no `forget_all`, which deletes holds
  together with the entries they protect. `missed`: a save or a deletion forgets the name
  it loaded; one the row was given since, by another save, is left in the cache until its
  TTL.
* `NobodyLeft`: `pool = "left"`, a hard stop after `_pool_live` is reset
  (`migrate_schemas.py`, `finally` of `_run_parallel`) and before the workers are killed.
* `GateAgrees`: a run of older code that has nobody to provision exits 0, while
  `reconcile_tenants --check` reports `code_older_than_db`.
* `Rebuilt` in `EventuallyCoherent` and `TasksCatchUp`: under WARM nothing refreshes
  the schema-snap of a tenant without domains. No invalidation reaches a worker's own
  tier: an older entry of it may route again when a hold ends over a cold cache.
* `StableServed`: the armed TTL may end between `EXISTS` and `SADD` (`arm`), and two
  rebuilds may share their target once a lock has run out (`overlap`).
* `writes < Passes` in `SettledExact`: a change in each of the passes, its trigger
  coalesced away by the marker, leaves the stale SET of the last pass without a TTL.
* `EventuallyExact`: a Redis error that skips `SADD` and the bump is made good by the
  daily task only. The expiry of the dirty counter (`registry.py:95`) is not modelled.
* `Alone` in `SelfHeals`: the due check looks at the latest occurrence only
  (`dispatch.py:125`), which takes the place of an earlier one that was missed.
* `SelfHeals` counts ticks that come on time, and a lock that is gone when the next tick
  comes. `LOCK_SECONDS` and `FANOUT_PERIOD_SECONDS` are both 60 by default, so the lock of
  a killed wave ends just as the next tick is due; a tick that comes early would find it.
* `OnceWhenPaced`: its premise is that waves and batches end before the next tick. With a
  backlog of waves an occurrence is dispatched once per wave that reads the watermark
  before the first batch writes it (`dispatch.py:205`).
* `OwnData`: `database=` overrides, and a task run eagerly for public inside a tenant's
  request, which `_guard_public` lets through (`routers.py:122`).
* `NoInheritedData`: a confirmed or legacy adoption (`adopted`) and a move to another
  shard (`moved`) are the operator's.
* `RepointForgets`: of two overlapping operations on one row the second, a re-point, a
  deletion or a cascade, forgets the host it loaded, not the one it takes the row from
  (`overlapped`). It is the `missed` of `ResolveCache`.

### Bounds

* `lease`, `admin`: two processes and two releases. The protocol relates a process to
  the previous owner and its code to the release of `public`; a third of either plays
  one of these parts again. Two faults: one breaks a run, the second hits the run that
  recovers. Two operator requests: a check, and somebody else's write before the
  operator's own.
* `stage`: three tenants on two shards (a shard with a queue and one to go round to),
  six command lines, two fleets (one under a newer release), two signals (`MaxSignals`)
  and two faults or foreign leases (`MaxEvents`), which after a signal count together.
* `cache`: one host that moves between two tenants, two overlapping writers, one filling
  thread, and a menu of deployments (`MCDeployments`) with up to two transactions, or one
  and a lost invalidation; one deployment has one tenant and a second hostname, so that
  two writers load the domain and rename it one after the other. The tasks have one worker
  process, since a worker's tier is its own. Requests, rebuilds and expiries are not
  bounded.
* `gate`: two hosts, one writer, one worker, two changes, each kind of fault once.
  `Passes` is 3 as in the code; `MaxQueue` 1 is one task that waits. With one worker two
  rebuilds do not overlap; the theorems are for any number.
* `request`: two hosts, three threads, one fault; contexts nest three deep in one thread
  at a time (`MCDepths`), since threads share no context.
* `fanout`: seven instants, two tenants with three occurrences, ten schedules of which
  the system checks refuse some; at pace, and three instants behind.
* `catalog`: `menu` chooses between a fresh platform, the reuse of a name by one thread
  (three edits, two workers, a dropper) or by two that overlap (one worker, one fault), and
  two threads that re-point and delete domains while rules change.
* Deadlock is not checked: with faults, edits and transactions used up, idle processes
  are a legal end of every one of these systems. That the command ends and that
  requests are answered are liveness properties.
* Symmetry (processes, operators, workers, droppers, threads that overlap) is used in
  runs without liveness only. `lease`, which has liveness, starts the older code in the
  first of its two processes instead (`LeaseSpec`).

The theorems below have none of these bounds.

### Fairness

* `Migrator`: a living process's next statement, the end of an orphaned backend
  (PostgreSQL notices the dead client), lease expiry. Nothing is assumed about `Start`:
  `tasks.py` says that recovery is not automatic, so `PendingResolved` has the premise
  that runs of current code are started again and again.
* `MigrateSchemas`: the parent's next statement, and that the executor notices a dead
  worker. Workers owe nothing: `Terminates` has the premise that every migration ends,
  `HardStopEnds` has none, because the workers are killed.
* `ResolveCache`: threads and callbacks go on, TTLs elapse, the reconcile is started
  again and again (its beat entry in `settings_multitenant.py`). Requests and
  transactions are not assumed to come.
* `HostRegistry`: callbacks and workers go on, TTLs elapse, misses arrive while the SET
  is absent. The beat is a premise of `EventuallyExact`, where it is needed.
* `Request`: every step of a thread but the return of a leader's query. That the other
  queries return (a follower's own after a timeout or an aborted leader, and the fall-back
  to the database) is an assumption about the database and not a guarantee of the code,
  which bounds the wait for a leader only. `EveryoneAnswered` is about that bound: nobody
  hangs because somebody else does.

## What is proved

The theorems hold for every value of the constants that satisfies the named `ASSUME`s of
the modules: `None` is told from what it stands beside, bounds are numbers, menus hold
states the program can start from. TLC evaluates them on every run. Each proof shows an
inductive invariant (checked by TLC first) with one step per action, and derives the
property from it.

### `MigratorProofs`

| Theorem | States |
|---|---|
| `TypeCorrect` | `Spec => []TypeOK`; no run records a migration its code does not have |
| `Exclusion`, `MutualExclusion` | `Spec => []OwnerOnly`; under `Supported`, two processes in their critical sections are one |
| `SessionsOwned` | `Spec => []SessionOwned` |
| `MaintenanceSafe` | `Spec => []MaintenanceExclusive` |
| `AdoptionSeen` | `Spec => []NoSilentAdoption` |
| `ActivationCurrent` | `Spec => ActivatedCurrent` |
| `OperatorsDecide` | `Spec => OperatorStatusKept` |
| `ForgetsFollow` | `Spec => []ForgetOwed` |
| `LifecycleImplemented` | `Spec => LifecycleKept`, the refinement of `TenantLifecycle` |

`TypeInv` adds to `TypeOK` what a process's locals say at three program points.
`LeaseInv` strengthens `OwnerOnly` by two facts about *former* owners: without reuse a
lease is held by a process inside, ended or dead, and the owner an operator was shown is
ended or dead. Without them `ForceRelease` could free the lease of a run that is inside.
`SessionInv` says that the code closes its session before it releases.
`MaintenanceExclusive` follows, since entering MAINTENANCE requires a free lease.
`Unvetted` is what makes `NoSilentAdoption` inductive: while nobody has looked at a
foreign schema, the row is NEW as it was created or FAILED, and a run that is inside has
read it so and is being turned away. `CurrentInv` carries the plan that `Verify` read
to the compare-and-set of `Activate`: as long as the row is PENDING nobody takes a
migration away, even if the lease is lost. `FormsOK` carries a form's checked
transition to its save, for the refinement and for `OperatorsDecide`.

### `MigrateSchemasProofs` and `MigrateLedgerProofs`

| Theorem | States |
|---|---|
| `TypeCorrect` | `Spec => []TypeOK` |
| `SummaryTruthful` | `Spec => []Truthful` |
| `GateFollows` | `Spec => []GateAgrees` |
| `ShardLimitHolds` | `Spec => []ShardLimit` |
| `BreakerHolds` | `Spec => []BreakerBound` |
| `RoundRobinHolds` | `Spec => []RoundRobin` |
| `DrainIsPrompt` | `Spec => []DrainPrompt` |
| `LedgerImplemented` | `Spec => LedgerKept`, the refinement of `RunLedger` |
| `NobodyIsLeft` | `Spec => []NobodyLeft` |

The last three are in `MigrateLedgerProofs`.

`Calls` relates processes, futures and the parent: a worker at work has a future that is
pending or was lost with the pool, the sequential mode has one call at a time, and before
the tenant stage there is no pool. It is what lets every exit of the parent (the end of
the loop, a broken pool, an exception, both kinds of interrupt) conclude that nobody is at
work, but for the workers of a pool that a hard stop left. `Vouched` says that a result on
its way through a future, and an entry made of it, are about a schema that is current, and
that a current schema stays so; `Truthful` is its last state. `Covered` is for exit code
0: as long as nothing stopped the run, the shared stage has an entry and so has every
tenant on an active shard that the deploy gate would report. A schema counts as current
when nothing is pending, also when a newer release is ahead; `GateFollows` is about every
problem the gate reports but the age of the code. `Slots` bounds `TenantStage`'s counters:
the futures of a shard are no more than its in-flight count, that count no more than
`--jobs-per-shard`, and failures and slots together stay below the sum of the two limits,
which is what `BreakerBound` leaves when the slots are given back. `Turns` bounds how
often a shard was passed over by the shards between it and the one served last, in the
order of the round (`RoundGrows`: each pick that passes a shard over adds a shard to that
set). The existence of the least ready shard and of the ordered queue is proved with
well-founded induction (`MinIn`, `Listing`).

`Drain` is for the drain: once a signal has come the parent takes targets only until it is
back at the head of the loop, and each of them holds a slot, so `late` is no more than the
slots that are out, and those no more than `--jobs`. The slots are counted as pairs of a
shard and a number up to its in-flight count (`SlotsOut`), the size of which is the
`sum(inflight)` of the code; one more target in flight is one more pair (`OneSlot`).
`Books` is for the ledger. It ties the entries of the summary to the rest of the stage: a
queued target is queued once and not started; in the stage a target is `running` exactly
when it has a future, or has just been refused by a broken pool; outside it none is; the
targets of the re-check were skipped; and no more targets run than there are slots out.
`BooksStep` then has two conclusions for each action, that `Books` is kept and that the
entries move as a step of `RunLedger` may (`LedgerStep`): started with a slot free, ended
if it was running, given up if it was not, or closed with nothing running. `NobodyIsLeft`
rests on `Strays`, from `Books`: whoever still works when a hard stop leaves the pool had
a future, so its entry was `running` and is `interrupted` now.

### `HostRegistryProofs`

`StableHosts` is `Spec => []StableServed`, from `Registry`: every actor relies on the
stable hosts being in the SET it is about to extend, or in the target it is building
together with the rows still to come. The SET alone is not inductive, because `RENAME`
replaces it.

`SettledIsExact` is `Spec => []SettledExact`, from `ExactInv`: a SET that differs from the
rows is armed, or a writer is about to arm it, or a reconcile will replace it
(`Mended`). What a reconcile has read is the rows, unless its recheck is going to find
the dirty counter moved (`Reading`). `Counted` and `Paced` count: a pass is repeated only
for a bump that came in between, so fewer changes than passes leave a pass to spare.

### `FanoutProofs`

`Honest`, `FreshWave` and `Monotone` (`WatermarkHonest`, `OneFreshWave`,
`WatermarkMonotone`), from `Invariance`: a batch holds tenants that were due at its
`run_ts`, a batch that is about to write the watermark has counted dispatches for the
tenants it sent, and a wave owns the lock or has outlived it. `OneWavePerTick` is what
the system checks of the schedule are for.

`PacedOnce` (`OnceWhenPaced`) rests on `OnceInv`: when waves and batches are done before
the next tick, the due check of a wave runs alone, a tenant then waits for its dispatch in
one place (one batch in the queue or in one worker), what waits has not been sent, and
what was sent is marked or its batch is about to mark it. `Heals` (`SelfHeals`) rests on
`HealInv`, a count: an occurrence that is not dispatched `n` ticks after its time has cost
`n` faults, or `n - 1` while this tick may still dispatch it (`Excused`, `Coming`).
`SelfHeals` is about occurrences that have no other one of the tenant within grace
(`Alone`): the due check looks at the latest occurrence only, so a missed one that is
followed so closely is replaced and not made good.

### `CacheProofs`

`CacheCoherent` is `Spec => []Coherent`, from `CacheInv`: what a request thread is about
to write agrees with the database, or a tombstone is still to come or was missed (`Due`),
or the key was tombstoned since the thread read it and is still held, so that its `SET NX`
does nothing (`Current`, `Held`). `Loading` says that a writer who has loaded rows has run
the callbacks of its last transaction, so a commit adds to no queue but its own empty one.
`ResolveCache` assumes for it that there are finitely many hosts.

### `RequestProofs`

`AnswersHonest`, `OneFlight`, `Budget` (`HonestAnswer`, `Coalesced`, `BudgetKept`) rest on
`Flight`: slots name the threads that hold them, followers follow a thread that still
leads their host, and cache entries are facts. `AxesFollow`, `DataIsOwn`, `KeysAreOwn`
(`BothAxes`, `OwnData`, `KeysOwn`) rest on `Contexts`: each frame remembers what was in
force below it, so leaving it restores that, at any depth.

### `CatalogProofs`

`Forgets` and `ReportExact` are `Spec => []RepointForgets` and `Spec => []ConflictsExact`.
The first rests on `HostsInOrder`: primary keys are unique (`PksUnique`), and a row still
has the host under which a thread loaded it or one that was saved over it since (`Known`).
It is proved together with `DataInOrder` below (`InOrder`), since a thread that destroys a
tenant takes its shard and name from the row. The second is for hostnames of any length,
with lemmas about what `matches` and the SQL prefilter say of label sequences.
`DataNotInherited` (`NoInheritedData`) rests on `DataInOrder`: rows of one name do not
live together, data is in tables and tables in a schema, and a job is past its look at the
schema only if the tenant is clean.

### Only model-checked

* Liveness: `PendingResolved`, `HardStopEnds`, `Terminates`, `EventuallyCoherent`,
  `TasksCatchUp`, `EventuallyExact`, `EveryoneAnswered`. TLAPS does not reason about
  fairness and ENABLED. Every safety invariant, action property and refinement that a
  passing run checks is also a theorem.
* The four violated properties, which no proof could show.

## Not modelled

* S3 uploads, products and the other business applications: requests inside one tenant's
  schema, no protocol between processes.
* Settings, deployment files, CI scripts, benchmarks, seed commands: configuration and
  tooling. System checks other than those of the beat schedule look at settings only.
* Health probes and the read side of the console and its serializers: reads within one
  request. The count of tenants before a shard is deactivated (`console/views.py:184`)
  is one step with the deactivation.
* Exception classification, per-tenant logs, snapshots' contents, the text and JSON of
  summaries, the report of INVALID indexes.
* The retry counter of `provision_tenant`: somebody starting runs again.
* Formats of tokens, headers and hostnames beyond what they are compared for.
