---------------------------- MODULE ResolveCache ----------------------------
(***************************************************************************)
(* The snapshot cache of tenant resolution (tenants/resolver/cache.py): one *)
(* entry per hostname (host-snap) and one per schema (schema-snap).  Three  *)
(* kinds of writers share it:                                              *)
(*   - request threads, which read a row on a miss and fill with SET NX;   *)
(*   - the transactions that change Domain and Tenant rows, whose on_commit *)
(*     callbacks replace entries by a short-lived tombstone (the hold);    *)
(*   - the reconcile task, which overwrites entries with a scan of the DB, *)
(*     and the commands warm_resolve_cache and invalidate_resolve_cache.    *)
(* Celery workers read the schema-snaps, and keep a cache of their own (L1)  *)
(* for when there is none.                                                 *)
(* A tenant stands for its schema name, so Hosts and Tenants are the keys.  *)
(***************************************************************************)
EXTENDS Naturals, Sequences, FiniteSets

CONSTANTS
    Hosts, Tenants, Resolvers, Writers,
    None,        \* no tenant
    Deployments, \* settings to consider, see dep
    Passes       \* re-runs of a rebuild (3 in the code)

ASSUME CacheConstants ==
    /\ Hosts \cap Tenants = {}
    /\ IsFiniteSet(Hosts)
    /\ None \notin Hosts \cup Tenants
    /\ Deployments \subseteq [warm : BOOLEAN, covers : BOOLEAN, reconciles : BOOLEAN,
                             commands : BOOLEAN, tasks : SUBSET Tenants,
                             hosts : SUBSET Hosts, rows : SUBSET Hosts, tenants : SUBSET Tenants,
                             writes : Nat, faults : Nat]
    /\ Passes \in Nat \ {0}

VARIABLES
    dep,      \* the deployment: TENANT_REGISTRY["WARM_ENABLED"], under which ACTIVE
              \* snapshots never expire; whether a fill is shorter than HOLD_SECONDS;
              \* whether the reconcile task may run, and the two commands; whose
              \* tasks the worker runs; and the bounds: hostnames that are asked for
              \* and pointed at a tenant, those that may have a row at the start,
              \* tenants that exist, transactions and
              \* commands, invalidations lost to a crash or a Redis outage
    owner,    \* Domain rows: the tenant a hostname points to, or None
    pk,       \* their primary keys, 0 for no row
    status,   \* Tenant rows: the status, or "gone" once deleted
    snap,     \* the cache
    res,      \* request threads inside _fill
    txn,      \* what each writer has loaded and is about to save or delete
    queue,    \* on_commit callbacks of each writer still to run
    missed,   \* hosts that lost their row to a writer who had loaded it under another
              \* name, and that were not invalidated since
    dirty,    \* treg:hosts:dirty
    rec,      \* the reconcile task, or a command
    local,    \* L1 of a Celery worker
    task,     \* the task it starts
    writes, faults

worker == <<local, task>>
writer == <<pk, txn, missed>>
vars == <<dep, owner, status, snap, res, writer, queue, dirty, rec, local, task, writes, faults>>

Keys == Hosts \cup Tenants

Statuses == {"active", "deactivated"}

\* What _classify tells apart.  A corrupt value is treated as a miss.
Entry == [kind : {"absent", "negative", "hold", "positive"},
          tenant : Tenants \cup {None}, status : Statuses \cup {"none"}]

Plain(kind) == [kind |-> kind, tenant |-> None, status |-> "none"]
Absent   == Plain("absent")
Negative == Plain("negative")
Hold     == Plain("hold")
Positive(t, s) == [kind |-> "positive", tenant |-> t, status |-> s]

\* The snapshot the database gives for a key now; Absent if it has no row.
Row(k) ==
    LET t == IF k \in Tenants THEN k ELSE owner[k]
    IN  IF t = None \/ status[t] = "gone" THEN Absent ELSE Positive(t, status[t])

\* WARM_TTL_BY_STATUS maps ACTIVE to no expiry; every other entry has a TTL.
Expires(e) == e.kind # "absent" /\ ~(dep.warm /\ e.kind = "positive" /\ e.status = "active")

\* Broken: the fill overwrites what it finds.
SetOver(k, e) == [snap EXCEPT ![k] = e]

\* cache.set(key, e, nx=True)
SetNx(k, e) == IF snap[k] = Absent THEN [snap EXCEPT ![k] = e] ELSE snap

\* set_many of the rebuild: over whatever is there, a hold included.
SetMany(k, e) == [snap EXCEPT ![k] = e]

\* cache.set_many({k: TOMBSTONE}, hold); a request thread that has already read
\* its row remembers which keys were invalidated under it.
Invalidate(keys) ==
    /\ snap' = [k \in Keys |-> IF k \in keys THEN Hold ELSE snap[k]]
    /\ missed' = missed \ keys
    /\ res' = [r \in Resolvers |->
                  IF res[r].pc \in {"host", "schema", "miss"}
                  THEN [res[r] EXCEPT !.held = @ \cup keys] ELSE res[r]]

\* forget_hosts finds the schema in the cached snapshot, best effort.
Derived(h) == IF snap[h].kind = "positive" THEN {snap[h].tenant} ELSE {}

ResIdle == [pc |-> "idle", host |-> None, row |-> Absent, held |-> {}]
RecIdle == [pc |-> "idle", pass |-> 0, before |-> 0,
            rows |-> [h \in Hosts |-> Absent], todo |-> {}, schemas |-> {}, nx |-> FALSE]
NoTxn == [tenant |-> None, rows |-> {}]
TaskIdle == [pc |-> "idle", tenant |-> None, row |-> Absent]

Init ==
    /\ dep \in Deployments
    /\ owner \in [Hosts -> dep.tenants \cup {None}]
    /\ \A h \in Hosts \ dep.rows : owner[h] = None
    /\ pk \in [Hosts -> 0..Cardinality({h \in Hosts : owner[h] # None})]
    /\ \A h \in Hosts : pk[h] = 0 <=> owner[h] = None
    /\ \A g, h \in Hosts : owner[h] # None /\ pk[g] = pk[h] => g = h
    /\ status = [t \in Tenants |-> IF t \in dep.tenants THEN "active" ELSE "gone"]
    /\ snap = [k \in Keys |-> Absent]
    /\ res = [r \in Resolvers |-> ResIdle]
    /\ txn = [w \in Writers |-> NoTxn] /\ missed = {}
    /\ queue = [w \in Writers |-> <<>>]
    /\ dirty = 0
    /\ rec = RecIdle
    /\ local = [t \in Tenants |-> Absent] /\ task = TaskIdle
    /\ writes = 0 /\ faults = 0

-----------------------------------------------------------------------------
(* A request: _via_cache, then _fill.  A hit and a cached miss answer        *)
(* without changing anything; a hold is a miss.                             *)

Miss(r, h) ==
    /\ res[r].pc = "idle"
    /\ snap[h].kind \in {"absent", "hold"}
    /\ res' = [res EXCEPT ![r] = [ResIdle EXCEPT !.pc = "read", !.host = h]]
    /\ UNCHANGED <<dep, writer, worker, owner, status, snap, queue, dirty, rec, writes, faults>>

\* db_resolver(): one query for the domain, its tenant and shard.
ReadRow(r) ==
    /\ res[r].pc = "read"
    /\ LET row == Row(res[r].host) IN
       res' = [res EXCEPT ![r].row = row,
                          ![r].pc = IF row = Absent THEN "miss" ELSE "host"]
    /\ UNCHANGED <<dep, writer, worker, owner, status, snap, queue, dirty, rec, writes, faults>>

StoreMiss(r) ==
    /\ res[r].pc = "miss"
    /\ snap' = SetNx(res[r].host, Negative)
    /\ res' = [res EXCEPT ![r] = ResIdle]
    /\ UNCHANGED <<dep, writer, worker, owner, status, queue, dirty, rec, writes, faults>>

\* put(): the host-snap, then the schema-snap with the same payload.
PutHost(r) ==
    /\ res[r].pc = "host"
    /\ snap' = SetNx(res[r].host, res[r].row)
    /\ res' = [res EXCEPT ![r].pc = "schema"]
    /\ UNCHANGED <<dep, writer, worker, owner, status, queue, dirty, rec, writes, faults>>

PutSchema(r) ==
    /\ res[r].pc = "schema"
    /\ snap' = SetNx(res[r].row.tenant, res[r].row)
    /\ res' = [res EXCEPT ![r] = ResIdle]
    /\ UNCHANGED <<dep, writer, worker, owner, status, queue, dirty, rec, writes, faults>>

\* The request dies, or Redis is down for the rest of the fill.
Abandon(r) ==
    /\ res[r].pc # "idle"
    /\ res' = [res EXCEPT ![r] = ResIdle]
    /\ UNCHANGED <<dep, writer, worker, owner, status, snap, queue, dirty, rec, writes, faults>>

Fill(r) == ReadRow(r) \/ StoreMiss(r) \/ PutHost(r) \/ PutSchema(r) \/ Abandon(r)

Request(r) == Fill(r) \/ \E h \in dep.hosts : Miss(r, h)

-----------------------------------------------------------------------------
(* Transactions.  A commit leaves the callbacks the code registered with    *)
(* on_commit, run one after the other by the same thread.                   *)

Tombstone(keys)  == [do |-> "tombstone", keys |-> keys]
Bump             == [do |-> "bump", keys |-> {}]
ForgetHost(h)    == [do |-> "forget_host", keys |-> {h}]
ForgetTenant(t)  == [do |-> "forget_tenant", keys |-> {t}]

\* The Domain receivers: forget_host inside the transaction, which derives the
\* schema there, and _apply, of which the dirty bump matters here.
DomainSignal(h) == <<Tombstone({h} \cup Derived(h)), Bump>>

\* The hosts a writer has loaded, and the hosts those rows have now.
LoadedHosts(w) == {r.host : r \in txn[w].rows}
Here(w) == {h \in Hosts : \E r \in txn[w].rows : pk[h] = r.pk}

Begin(w) ==
    /\ queue[w] = <<>> /\ txn[w] = NoTxn
    /\ writes < dep.writes /\ writes' = writes + 1

Load(w, t, hosts) ==
    /\ Begin(w)
    /\ txn' = [txn EXCEPT ![w] = [tenant |-> t,
                                    rows |-> {[host |-> h, pk |-> pk[h]] : h \in hosts}]]
    /\ UNCHANGED <<dep, worker, owner, pk, status, snap, res, missed, queue, dirty, rec, faults>>

\* A serializer or an admin view reads a Domain; Domain.from_db keeps its name.
LoadDomain(w, h) == owner[h] # None /\ Load(w, None, {h})

\* Tenant.delete collects the domains for the cascade.
LoadTenant(w, t) == status[t] # "gone" /\ Load(w, t, {h \in Hosts : owner[h] = t})

\* A transaction that fails, on a host that is taken or a tenant that is gone or has
\* a new domain, and a request that ends early, leave nothing behind.
Rollback(w) ==
    /\ txn[w] # NoTxn
    /\ txn' = [txn EXCEPT ![w] = NoTxn]
    /\ UNCHANGED <<dep, worker, owner, pk, status, snap, res, missed, queue, dirty, rec, writes, faults>>

Commit(w, callbacks) ==
    /\ queue' = [queue EXCEPT ![w] = callbacks]
    /\ UNCHANGED <<dep, worker, snap, res, dirty, rec, faults>>

\* The database gives a row the next number of a sequence; here, one that no row has
\* and no writer holds.
NewPk ==
    CHOOSE n \in 1..(Cardinality(Hosts) * (1 + Cardinality(Writers)) + 1) :
        /\ \A h \in Hosts : pk[h] # n
        /\ \A w \in Writers : \A r \in txn[w].rows : r.pk # n

CreateDomain(w, h, t) ==
    /\ Begin(w)
    /\ status[t] # "gone"
    /\ owner[h] = None
    /\ owner' = [owner EXCEPT ![h] = t]
    /\ pk' = [pk EXCEPT ![h] = NewPk]
    /\ Commit(w, DomainSignal(h))
    /\ UNCHANGED <<status, txn, missed>>

\* The end of a transaction that took the rows of here away from their hosts.
Took(w, here, forgotten) ==
    /\ txn' = [txn EXCEPT ![w] = NoTxn]
    /\ missed' = missed \cup (here \ forgotten)

Vacate(f, here, empty) == [h \in Hosts |-> IF h \in here THEN empty ELSE f[h]]

\* Domain.save, by primary key (it inserts a row that is gone): post_save sees the
\* new hostname, and Domain.save forgets the one that was loaded.
SaveDomain(w, h, t) ==
    /\ txn[w].tenant = None
    /\ status[t] # "gone"
    /\ owner[h] = None \/ h \in Here(w)
    /\ owner' = [Vacate(owner, Here(w), None) EXCEPT ![h] = t]
    /\ \E r \in txn[w].rows :
          /\ Took(w, Here(w), {h, r.host})
          /\ pk' = [Vacate(pk, Here(w), 0) EXCEPT ![h] = r.pk]
          /\ Commit(w, IF r.host = h THEN DomainSignal(h)
                       ELSE Append(DomainSignal(h), ForgetHost(r.host)))
    /\ UNCHANGED <<status, writes>>

\* post_delete has the row as it was loaded.
DeleteDomain(w) ==
    /\ txn[w].tenant = None
    /\ owner' = Vacate(owner, Here(w), None)
    /\ pk' = Vacate(pk, Here(w), 0)
    /\ \E h \in LoadedHosts(w) : Took(w, Here(w), {h}) /\ Commit(w, DomainSignal(h))
    /\ UNCHANGED <<status, writes>>

\* A status change by QuerySet.update: the call site forgets the tenant once
\* the change is committed.
SetStatus(w, t, s) ==
    /\ Begin(w)
    /\ status[t] \notin {"gone", s}
    /\ status' = [status EXCEPT ![t] = s]
    /\ Commit(w, <<ForgetTenant(t)>>)
    /\ UNCHANGED <<owner, writer>>

\* The cascade deletes the domains first, in any order, then the tenant.  A domain
\* that was not collected refers to the tenant, and the transaction fails.
DeleteTenant(w, t) ==
    /\ txn[w].tenant = t
    /\ \A h \in Hosts : owner[h] = t => h \in Here(w)
    /\ status' = [status EXCEPT ![t] = "gone"]
    /\ owner' = Vacate(owner, Here(w), None)
    /\ pk' = Vacate(pk, Here(w), 0)
    /\ Took(w, Here(w), LoadedHosts(w))
    /\ LET n == Cardinality(LoadedHosts(w))
       IN  \E order \in [1..n -> LoadedHosts(w)] :
              /\ \A h \in LoadedHosts(w) : \E i \in DOMAIN order : order[i] = h
              /\ Commit(w, Append([i \in 1..2 * n |->
                                     DomainSignal(order[(i + 1) \div 2])[2 - (i % 2)]],
                                  Tombstone({t})))
    /\ UNCHANGED writes

Write(w) ==
    \/ \E h \in dep.hosts, t \in Tenants : CreateDomain(w, h, t) \/ SaveDomain(w, h, t)
    \/ \E h \in dep.hosts : LoadDomain(w, h)
    \/ \E t \in Tenants, s \in Statuses : SetStatus(w, t, s)
    \/ \E t \in Tenants : LoadTenant(w, t) \/ DeleteTenant(w, t)
    \/ DeleteDomain(w) \/ Rollback(w)

-----------------------------------------------------------------------------
(* The callbacks.                                                          *)

Running(w, do) == queue[w] # <<>> /\ Head(queue[w]).do = do

RunTombstone(w) ==
    /\ Running(w, "tombstone")
    /\ Invalidate(Head(queue[w]).keys)
    /\ queue' = [queue EXCEPT ![w] = Tail(@)]
    /\ UNCHANGED <<dep, pk, txn, worker, owner, status, dirty, rec, writes, faults>>

\* add() and remove() do nothing unless WARM is on.
RunBump(w) ==
    /\ Running(w, "bump")
    /\ dirty' = IF dep.warm THEN dirty + 1 ELSE dirty
    /\ queue' = [queue EXCEPT ![w] = Tail(@)]
    /\ UNCHANGED <<dep, writer, worker, owner, status, snap, res, rec, writes, faults>>

\* forget_host called after the commit: the tombstone runs at once.
RunForgetHost(w) ==
    /\ Running(w, "forget_host")
    /\ Invalidate(UNION {{h} \cup Derived(h) : h \in Head(queue[w]).keys})
    /\ queue' = [queue EXCEPT ![w] = Tail(@)]
    /\ UNCHANGED <<dep, pk, txn, worker, owner, status, dirty, rec, writes, faults>>

\* forget_tenant: _keys_for reads the domains, then the tombstone.
RunForgetTenant(w) ==
    /\ Running(w, "forget_tenant")
    /\ LET t == Head(queue[w]).keys IN
       queue' = [queue EXCEPT ![w] =
                    <<Tombstone(t \cup {h \in Hosts : owner[h] \in t})>> \o Tail(@)]
    /\ UNCHANGED <<dep, writer, worker, owner, status, snap, res, dirty, rec, writes, faults>>

\* Redis is down and IGNORE_EXCEPTIONS (or the except in registry.py) hides it.
LoseCallback(w) ==
    /\ queue[w] # <<>>
    /\ faults < dep.faults
    /\ faults' = faults + 1
    /\ queue' = [queue EXCEPT ![w] = Tail(@)]
    /\ UNCHANGED <<dep, writer, worker, owner, status, snap, res, dirty, rec, writes>>

\* The process dies between the commit and the end of its callbacks.
WriterDies(w) ==
    /\ queue[w] # <<>>
    /\ faults < dep.faults
    /\ faults' = faults + 1
    /\ queue' = [queue EXCEPT ![w] = <<>>]
    /\ UNCHANGED <<dep, writer, worker, owner, status, snap, res, dirty, rec, writes>>

Callback(w) == RunTombstone(w) \/ RunBump(w) \/ RunForgetHost(w) \/ RunForgetTenant(w)

-----------------------------------------------------------------------------
(* reconcile(), under the treg:warming lock: the module HostRegistry has    *)
(* the lock and the SET, this one what the task writes into the cache.      *)

RecBefore ==
    /\ dep.reconciles /\ dep.warm
    /\ rec.pc \in {"idle", "again"}
    /\ rec' = [rec EXCEPT !.pc = "scan", !.before = dirty, !.pass = @ + 1]
    /\ UNCHANGED <<dep, writer, worker, owner, status, snap, res, queue, dirty, writes, faults>>

\* The rows of one query over the domains, and the keys to write for them.
Scanned(r, pc) ==
    LET rows == [h \in Hosts |-> Row(h)]
        found == {h \in Hosts : rows[h] # Absent}
    IN  [r EXCEPT !.pc = pc, !.rows = rows, !.todo = found \cup {rows[h].tenant : h \in found}]

\* _rebuild_once: one query, written batch by batch.
RecScan ==
    /\ rec.pc = "scan"
    /\ rec' = Scanned(rec, "write")
    /\ UNCHANGED <<dep, writer, worker, owner, status, snap, res, queue, dirty, writes, faults>>

\* put_many, then put_schema_many: a forced write, over a hold too.  Each key is
\* a step of its own, which is finer than the pipelines of the code.  _fill_absent
\* writes the same keys with SET NX.
RecWrite(k) ==
    /\ rec.pc \in {"write", "warm"}
    /\ k \in rec.todo
    /\ k \in Tenants => rec.todo \cap Hosts = {}
    /\ \E h \in Hosts :
          /\ rec.rows[h] # Absent
          /\ k \in {h, rec.rows[h].tenant}
          /\ snap' = IF rec.nx THEN SetNx(k, rec.rows[h]) ELSE SetMany(k, rec.rows[h])
    /\ rec' = [rec EXCEPT !.todo = @ \ {k}]
    /\ UNCHANGED <<dep, writer, worker, owner, status, res, queue, dirty, writes, faults>>

\* The dirty-recheck: at most Passes rebuilds.
RecCheck ==
    /\ rec.pc = "write"
    /\ rec.todo = {}
    /\ rec' = [rec EXCEPT !.pc = IF dirty = rec.before \/ rec.pass = Passes
                                 THEN "schemas" ELSE "again"]
    /\ UNCHANGED <<dep, writer, worker, owner, status, snap, res, queue, dirty, writes, faults>>

RecSchemas ==
    /\ rec.pc = "schemas"
    /\ rec' = [rec EXCEPT !.pc = "sweep hosts",
                          !.schemas = {t \in Tenants : status[t] # "gone"}]
    /\ UNCHANGED <<dep, writer, worker, owner, status, snap, res, queue, dirty, writes, faults>>

\* sweep_orphans: per namespace, read the positives of names that are not valid,
\* then delete those keys whatever they hold by then.
Orphans(keys, valid) == {k \in keys \ valid : snap[k].kind = "positive"}

RecSweep ==
    /\ \/ /\ rec.pc = "sweep hosts"
          /\ rec' = [rec EXCEPT !.pc = "drop hosts",
                        !.todo = Orphans(Hosts, {h \in Hosts : rec.rows[h] # Absent})]
       \/ /\ rec.pc = "sweep schemas"
          /\ rec' = [rec EXCEPT !.pc = "drop schemas",
                        !.todo = Orphans(Tenants, rec.schemas)]
    /\ UNCHANGED <<dep, writer, worker, owner, status, snap, res, queue, dirty, writes, faults>>

RecDrop ==
    /\ rec.pc \in {"drop hosts", "drop schemas"}
    /\ snap' = [k \in Keys |-> IF k \in rec.todo THEN Absent ELSE snap[k]]
    /\ rec' = IF rec.pc = "drop hosts"
              THEN [rec EXCEPT !.pc = "sweep schemas", !.todo = {}] ELSE RecIdle
    /\ UNCHANGED <<dep, writer, worker, owner, status, res, queue, dirty, writes, faults>>

Reconcile ==
    \/ RecBefore \/ RecScan \/ RecCheck \/ RecSchemas \/ RecSweep \/ RecDrop
    \/ \E k \in Keys : RecWrite(k)

-----------------------------------------------------------------------------
(* The commands.  Under WARM both run the reconcile task instead.            *)

Started == dep.commands /\ writes < dep.writes /\ writes' = writes + 1

\* warm_resolve_cache: warm() fills what is absent, or overwrites with --force.
WarmStart(force) ==
    /\ Started /\ ~dep.warm
    /\ rec.pc = "idle"
    /\ rec' = [Scanned(rec, "warm") EXCEPT !.nx = ~force]
    /\ UNCHANGED <<dep, writer, worker, owner, status, snap, res, queue, dirty, faults>>

WarmEnd ==
    /\ rec.pc = "warm" /\ rec.todo = {}
    /\ rec' = RecIdle
    /\ UNCHANGED <<dep, writer, worker, owner, status, snap, res, queue, dirty, writes, faults>>

\* invalidate_resolve_cache --all: forget_all deletes one namespace, then the
\* other, the holds with them.
ForgetAll ==
    /\ Started /\ ~dep.warm /\ rec.pc = "idle"
    /\ snap' = [k \in Keys |-> IF k \in Hosts THEN Absent ELSE snap[k]]
    /\ rec' = [rec EXCEPT !.pc = "forget"]
    /\ UNCHANGED <<dep, writer, worker, owner, status, res, queue, dirty, faults>>

ForgetSchemas ==
    /\ rec.pc = "forget"
    /\ snap' = [k \in Keys |-> IF k \in Tenants THEN Absent ELSE snap[k]]
    /\ rec' = RecIdle
    /\ UNCHANGED <<dep, writer, worker, owner, status, res, queue, dirty, writes, faults>>

\* invalidate_resolve_cache --ids or --schemas: the hosts are read, the tombstones
\* follow at once.
InvalidateCommand(w, t) ==
    /\ Started
    /\ queue[w] = <<>> /\ txn[w] = NoTxn
    /\ LET mine == {h \in Hosts : owner[h] = t}
       IN  queue' = [queue EXCEPT ![w] =
                        <<Tombstone({t} \cup mine \cup UNION {Derived(h) : h \in mine})>>]
    /\ UNCHANGED <<dep, writer, worker, owner, status, snap, res, dirty, rec, faults>>

Command ==
    \/ \E force \in BOOLEAN : WarmStart(force)
    \/ ForgetAll
    \/ \E w \in Writers, t \in Tenants : InvalidateCommand(w, t)

-----------------------------------------------------------------------------
(* TenantTask.get_tenant_for_schema.  A positive schema-snap routes the task, *)
(* and so does L1 when the shared cache has nothing: neither changes anything. *)

\* A hold sends the task to the database, past L1; nothing at all sends it there
\* to fill L1.
TaskMiss(t) ==
    /\ task.pc = "idle" /\ t \in dep.tasks
    /\ snap[t] = Hold \/ (snap[t] = Absent /\ local[t] = Absent)
    /\ task' = [TaskIdle EXCEPT !.tenant = t, !.pc = IF snap[t] = Hold THEN "pass" ELSE "read"]
    /\ UNCHANGED <<dep, writer, owner, status, snap, res, queue, dirty, rec, local, writes, faults>>

\* The shared cache is down, whatever it holds: a miss.
TaskDown(t) ==
    /\ task.pc = "idle" /\ t \in dep.tasks /\ local[t] = Absent
    /\ faults < dep.faults
    /\ faults' = faults + 1
    /\ task' = [TaskIdle EXCEPT !.tenant = t, !.pc = "read"]
    /\ UNCHANGED <<dep, writer, owner, status, snap, res, queue, dirty, rec, local, writes>>

\* _db_get; Tenant.DoesNotExist fails the task.
TaskRead ==
    /\ task.pc \in {"pass", "read"}
    /\ LET row == Row(task.tenant)
       IN  task' = IF task.pc = "pass" \/ row = Absent THEN TaskIdle
                   ELSE [task EXCEPT !.pc = "fill", !.row = row]
    /\ UNCHANGED <<dep, writer, owner, status, snap, res, queue, dirty, rec, local, writes, faults>>

TaskFill ==
    /\ task.pc = "fill"
    /\ local' = [local EXCEPT ![task.tenant] = task.row]
    /\ task' = TaskIdle
    /\ UNCHANGED <<dep, writer, owner, status, snap, res, queue, dirty, rec, writes, faults>>

\* Broken: an entry that was read again would live on.
LocalKept(t) == FALSE /\ UNCHANGED vars

\* SimpleCache: an entry ends CELERY_TASK_TENANT_CACHE_SECONDS after it was set,
\* however often it is read.
LocalExpire(t) ==
    /\ local[t] # Absent
    /\ local' = [local EXCEPT ![t] = Absent]
    /\ UNCHANGED <<dep, writer, owner, status, snap, res, queue, dirty, rec, task, writes, faults>>

-----------------------------------------------------------------------------
(* Redis drops an entry when its TTL ends.  A hold outlasts the fills that   *)
(* had read their row when it was set, if covers.                          *)
Expire(k) ==
    /\ Expires(snap[k])
    /\ snap[k] = Hold /\ dep.covers => \A r \in Resolvers : k \notin res[r].held
    /\ snap' = [snap EXCEPT ![k] = Absent]
    /\ UNCHANGED <<dep, writer, worker, owner, status, res, queue, dirty, rec, writes, faults>>

Next ==
    \/ \E r \in Resolvers : Request(r)
    \/ \E w \in Writers : Write(w) \/ Callback(w) \/ LoseCallback(w) \/ WriterDies(w)
    \/ Reconcile \/ Command \/ WarmEnd \/ ForgetSchemas
    \/ \E k \in Keys : Expire(k)
    \/ \E t \in Tenants : TaskMiss(t) \/ TaskDown(t) \/ LocalExpire(t)
    \/ TaskRead \/ TaskFill

Spec == Init /\ [][Next]_vars

\* Threads and the task keep running, TTLs elapse and beat schedules the task
\* every day; nobody has to send a request or to commit a transaction.
FairSpec ==
    /\ Spec
    /\ \A r \in Resolvers : WF_vars(Fill(r))
    /\ \A w \in Writers : WF_vars(Callback(w))
    /\ WF_vars(Reconcile) /\ WF_vars(WarmEnd \/ ForgetSchemas)
    /\ WF_vars(TaskRead \/ TaskFill)
    /\ \A t \in Tenants : WF_vars(LocalExpire(t))
    /\ \A k \in Keys : WF_vars(Expire(k))

-----------------------------------------------------------------------------
\* Each variable keeps its type; a schema entry never holds a cached miss.
TypeOK ==
    /\ dep \in Deployments
    /\ owner \in [Hosts -> Tenants \cup {None}]
    /\ status \in [Tenants -> Statuses \cup {"gone"}]
    /\ snap \in [Keys -> Entry]
    /\ \A t \in Tenants : snap[t].kind # "negative"
    /\ res \in [Resolvers -> [pc : {"idle", "read", "miss", "host", "schema"},
                             host : Hosts \cup {None}, row : Entry, held : SUBSET Keys]]
    /\ \A w \in Writers : queue[w] \in
          Seq([do : {"tombstone", "bump", "forget_host", "forget_tenant"},
               keys : SUBSET Keys])
    /\ dirty \in 0..(dep.writes * Cardinality(Hosts))
    /\ rec.todo \subseteq Keys /\ rec.pass \in 0..Passes
    /\ writes \in 0..dep.writes /\ faults \in 0..dep.faults

\* The cache says something the database does not.
Stale(k) ==
    \/ snap[k].kind = "positive" /\ snap[k] # Row(k)
    \/ snap[k] = Negative /\ Row(k) # Absent

\* A committed transaction has yet to invalidate k.
Owed(k) ==
    \E w \in Writers : \E i \in DOMAIN queue[w] :
        LET c == queue[w][i] IN
        \/ k \in c.keys
        \/ c.do = "forget_tenant" /\ k \in Hosts /\ owner[k] \in c.keys

\* Whatever the order in which fills, renames, re-points, deletions and status
\* changes interleave, an entry that contradicts the database (another tenant, an
\* older status, a cached miss for a host that exists) is one that a committed
\* transaction is about to tombstone: "a slow resolver can't resurrect stale
\* data" (cache.py, put).  This needs fills shorter than the hold, no lost
\* invalidation, no rebuild, whose forced writes may bring back a status that
\* changed since its scan, and no forget_all, which deletes the holds.  The one
\* host it says nothing of is a missed one: a save or a deletion forgets the host
\* it loaded, and if another save renamed the row since, nobody forgets the name
\* in between.
Coherent ==
    dep.covers /\ ~dep.reconciles /\ ~dep.commands /\ faults = 0 =>
        \A k \in Keys : Stale(k) => Owed(k) \/ k \in missed

\* What put_many's docstring says of the forced writes: "the real mid-rebuild
\* races are handled by the dirty-recheck + sweep_orphans".  With the task and
\* every transaction finished, no host is served with an older status of its
\* tenant.
RebuildRacesHandled ==
    (rec.pc = "idle" /\ \A w \in Writers : queue[w] = <<>>) =>
        \A h \in Hosts : snap[h].kind = "positive" /\ snap[h].tenant = owner[h]
                              => snap[h] = Row(h)

\* A key the rebuild writes or the sweep may drop.  The rebuild goes through the
\* domains, so nothing refreshes the schema-snap of a tenant that has none.
Rebuilt(k) == k \in Hosts \/ status[k] = "gone" \/ \E h \in Hosts : owner[h] = k

\* Once transactions stop, the cache comes to agree with the database for good,
\* even when invalidations were lost: entries with a TTL expire, and the daily
\* reconcile overwrites or sweeps those without one.
EventuallyCoherent == <>[](\A k \in Keys : Rebuilt(k) \/ ~dep.warm => ~Stale(k))

\* What a task of the tenant starting now is routed by.
Routed(t) ==
    IF snap[t].kind = "positive" THEN snap[t]
    ELSE IF snap[t] = Absent /\ local[t] # Absent THEN local[t] ELSE Row(t)

\* Once transactions stop, tasks come to be routed by the current row for good.
\* No invalidation reaches L1, and when a hold ends over a cold cache an older
\* entry of L1 routes again: only its own TTL takes it out.
TasksCatchUp == <>[](\A t \in Tenants : Rebuilt(t) \/ ~dep.warm => Routed(t) = Row(t))

=============================================================================
