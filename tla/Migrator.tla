------------------------------ MODULE Migrator ------------------------------
(***************************************************************************)
(* The migration protocol of one tenant: tenants/migrator.py with          *)
(* everyone else who writes the tenant's row, its lease or its schema.     *)
(*                                                                         *)
(* A process p of Procs is one value of owner() (host:pid:start); it runs  *)
(* migrate_tenant for this tenant step by step, pc[p] naming the statement *)
(* it executes next.  One step is one statement sent to `default` or to    *)
(* the shard, because those are what other processes can see between.      *)
(* Different tenants use different lease rows, schemas and session labels, *)
(* so one tenant is the whole protocol.                                    *)
(*                                                                         *)
(* The migrations of the code base are numbered 1..MaxRelease, one per     *)
(* release: a schema is described by the last one recorded in its          *)
(* django_migrations table, a process by the last one its code knows.      *)
(***************************************************************************)
EXTENDS Integers, FiniteSets

CONSTANTS
    Procs,         \* owner() strings of the processes that call migrate_tenant
    Operators,     \* people with an admin page, a console request or a shell
    None,          \* SQL NULL, and "no page open"
    MaxRelease,    \* bound: newest release that is ever deployed
    MaxFaults,     \* bound: faults (lost connections, crashes, errors) per behaviour
    MaxEdits,      \* bound: operator requests per behaviour
    RunOptions,    \* option sets a run may be started with
    Reuse,         \* TRUE: a process may call migrate_tenant again (Celery worker)
    Outlive,       \* TRUE: a lease may expire under a live owner (> LEASE_TTL)
    ReleaseModes   \* subset of {"checked", "force"}: migration_lease --release [--force]

Flags == {"maintenance", "targeted"}

ASSUME ConstantsAssumption ==
    /\ None \notin Procs
    /\ MaxRelease \in Nat \ {0}
    /\ MaxFaults \in Nat
    /\ MaxEdits \in Nat
    /\ RunOptions \subseteq SUBSET Flags
    /\ Reuse \in BOOLEAN
    /\ Outlive \in BOOLEAN
    /\ ReleaseModes \subseteq {"checked", "force"}

VARIABLES
    status,        \* tenants_tenant.status, or "deleted" once the row is gone
    prev,          \* tenants_tenant.previous_status
    leaseOwner,    \* tenants_migrationlease.owner
    leaseExpired,  \* until < now()
    schema,        \* the schema on the shard: "missing", "own" or "foreign"
    applied,       \* last migration recorded in it
    public,        \* release that last migrated public
    pc,            \* what each process executes next
    code,          \* newest migration each process's code knows
    run,           \* locals of migrate_tenant: opts, the loaded row, next migration
    session,       \* the tm:<key> shard connection of each process
    orphans,       \* processes whose tm:<key> backend outlived its client
    shown,         \* owner each operator's --release has read and checked
    form,          \* status change an operator's request has checked and not finished
    stale,         \* resolve cache may hold a snapshot older than the row
    vetted,        \* an operator looked at the schema since it appeared
    faults, edits  \* counters behind MaxFaults and MaxEdits

rowVars    == <<status, prev>>
leaseVars  == <<leaseOwner, leaseExpired>>
schemaVars == <<schema, applied, vetted>>
backends   == <<session, orphans>>
operVars   == <<shown, form, edits>>
elsewhere  == <<operVars, public, code>>      \* what no process writes
processes  == <<public, pc, code, run>>       \* what no operator writes
vars == <<rowVars, leaseVars, schemaVars, backends, operVars,
          public, pc, code, run, stale, faults>>

-----------------------------------------------------------------------------
(* Values *)

Releases      == 1 .. MaxRelease
Provisionable == {"new", "pending"}
Upgradable    == {"active", "deactivated"}
OperatorOwned == {"failed", "maintenance"}
Statuses      == Provisionable \cup Upgradable \cup OperatorOwned
RowStates     == Statuses \cup {"deleted"}

\* Status changes the admin form offers; the console's activate and
\* deactivate are two of them.
StatusTransitions ==
    {<<"active", "deactivated">>, <<"active", "maintenance">>,
     <<"deactivated", "active">>, <<"deactivated", "maintenance">>,
     <<"failed", "new">>, <<"failed", "maintenance">>,
     <<"maintenance", "active">>, <<"maintenance", "deactivated">>,
     <<"maintenance", "failed">>}

BlankRun == [opts |-> {}, status |-> "deleted", prev |-> "new", mig |-> 0]

\* Statements run before the lease is held, and while migrate_tenant believes
\* it holds it.
Unleased == {"load", "shortcut", "probe", "take"}
Leased   == {"reload", "prov", "m4", "casExists", "claim", "create", "open",
             "plan", "run", "stmt", "verify", "recheck", "activate", "fail",
             "casFailed", "upg", "casMissing", "forget", "close", "release"}
Resting  == {"idle", "ended", "dead"}

Critical(p) == pc[p] \in Leased

-----------------------------------------------------------------------------
(* What one statement reads or writes *)

\* A step of a process that changes nothing but its own pc and locals.
OnlyReads == UNCHANGED <<rowVars, leaseVars, schemaVars, backends, elsewhere,
                         stale, faults>>

Goto(p, l) == pc' = [pc EXCEPT ![p] = l]
After      == IF Reuse THEN "idle" ELSE "ended"
Return(p)  == Goto(p, After) /\ run' = [run EXCEPT ![p] = BlankRun]

Fault == faults < MaxFaults /\ faults' = faults + 1

Targeted(p)     == "targeted" \in run[p].opts
Provisioning(p) == run[p].status \in Provisionable

\* _gate and _upgradable on a row in status s.
Gated(s, opts) ==
    s = "failed" \/ (s = "maintenance" /\ "maintenance" \notin opts)
UpgradableBy(s, opts) ==
    s \in Upgradable \/ (s = "maintenance" /\ "maintenance" \in opts)

\* pending_plan for code c: MISSING, [] or a non-empty plan.
SchemaMissing == schema = "missing"
UpToDate(c)   == schema # "missing" /\ applied >= c

\* Broken: asks django_migrations instead of pg_class.
HasRelationsRecorded == schema # "missing" /\ applied > 0

HasRelations  == schema # "missing" /\ (schema = "foreign" \/ applied > 0)
CodeOlder(c)  == c < public

\* shard_session_active: a non-idle backend labelled tm:<key>.
SessionActive == orphans # {} \/ \E q \in Procs : session[q] = "busy"

\* Broken: an upsert that never takes an expired lease.
LeaseFreeNoExpiry == leaseOwner = None

LeaseFree == leaseOwner = None \/ leaseExpired

\* _fenced_cas.
CasMatches(p, expected) == status \in expected /\ leaseOwner = p
CasWrites(new, old)     == status' = new /\ prev' = old

Close(p) == session' = [session EXCEPT ![p] = "none"] /\ UNCHANGED orphans

-----------------------------------------------------------------------------
Init ==
    /\ \/ /\ status = "new"
          /\ \/ schema = "missing" /\ applied = 0
             \/ schema = "foreign" /\ applied \in 0 .. 1
       \/ status = "active" /\ schema = "own" /\ applied = 1
    /\ prev = "new"
    /\ leaseOwner = None /\ leaseExpired = FALSE
    /\ public = 1
    /\ pc = [p \in Procs |-> "idle"]
    /\ code \in [Procs -> Releases]
    /\ run = [p \in Procs |-> BlankRun]
    /\ session = [p \in Procs |-> "none"] /\ orphans = {}
    /\ shown = [o \in Operators |-> None]
    /\ form = [o \in Operators |-> None]
    /\ stale = FALSE /\ vetted = FALSE
    /\ faults = 0 /\ edits = 0

-----------------------------------------------------------------------------
(* _migrate_tenant up to the lease *)

Start(p) ==
    /\ pc[p] = "idle"
    /\ \E opts \in RunOptions : run' = [run EXCEPT ![p].opts = opts]
    /\ Goto(p, "load")
    /\ OnlyReads

Load(p) ==
    /\ pc[p] = "load"
    /\ LET opts == run[p].opts IN
       IF status = "deleted" \/ Gated(status, opts)
       THEN Return(p)
       ELSE /\ Goto(p, IF UpgradableBy(status, opts) /\ ~Targeted(p)
                       THEN "shortcut" ELSE "probe")
            /\ UNCHANGED run
    /\ OnlyReads

Shortcut(p) ==
    /\ pc[p] = "shortcut"
    /\ IF UpToDate(code[p]) THEN Return(p) ELSE Goto(p, "probe") /\ UNCHANGED run
    /\ OnlyReads

\* lease_acquire, first statement (M1): ask the shard for a working backend.
LeaseProbe(p) ==
    /\ pc[p] = "probe"
    /\ IF SessionActive THEN Return(p) ELSE Goto(p, "take") /\ UNCHANGED run
    /\ OnlyReads

\* lease_acquire, second statement: the upsert on default.
LeaseTake(p) ==
    /\ pc[p] = "take"
    /\ IF LeaseFree
       THEN /\ leaseOwner' = p /\ leaseExpired' = FALSE
            /\ Goto(p, "reload") /\ UNCHANGED run
       ELSE Return(p) /\ UNCHANGED leaseVars
    /\ UNCHANGED <<rowVars, schemaVars, backends, elsewhere, stale, faults>>

\* An error or an interrupt before the lease: nothing was written, except that
\* the upsert may have committed although its answer was lost.
UnleasedError(p) ==
    /\ pc[p] \in Unleased
    /\ Fault
    /\ Return(p)
    /\ \/ UNCHANGED leaseVars
       \/ pc[p] = "take" /\ LeaseFree /\ leaseOwner' = p /\ leaseExpired' = FALSE
    /\ UNCHANGED <<rowVars, schemaVars, backends, elsewhere, stale>>

-----------------------------------------------------------------------------
(* Under the lease *)

Reload(p) ==
    /\ pc[p] = "reload"
    /\ run' = [run EXCEPT ![p].status = status, ![p].prev = prev]
    /\ LET opts == run[p].opts IN
       Goto(p, CASE status = "deleted" \/ Gated(status, opts) -> "close"
                 [] status \in Provisionable                  -> "prov"
                 [] OTHER                                     -> "upg")
    /\ OnlyReads

\* _provision: targeted runs and old code are turned away.
Prov(p) ==
    /\ pc[p] = "prov"
    /\ Goto(p, IF Targeted(p) \/ CodeOlder(code[p]) THEN "close" ELSE "m4")
    /\ OnlyReads /\ UNCHANGED run

\* M4: a NEW tenant never adopts a non-empty schema silently.
M4(p) ==
    /\ pc[p] = "m4"
    /\ Goto(p, IF /\ run[p].status = "new" /\ run[p].prev # "failed"
                  /\ HasRelations
               THEN "casExists" ELSE "claim")
    /\ OnlyReads /\ UNCHANGED run

\* A fenced status write.  It is followed by _forget, except for the claim.
StatusCas(p, here, expected, new, old, next) ==
    /\ pc[p] = here
    /\ IF CasMatches(p, expected)
       THEN /\ CasWrites(new, old)
            /\ stale' = IF new = "pending" THEN stale ELSE TRUE
            /\ Goto(p, next)
       ELSE Goto(p, "close") /\ UNCHANGED <<rowVars, stale>>
    /\ UNCHANGED <<leaseVars, schemaVars, backends, elsewhere, run, faults>>

CasExists(p)  == StatusCas(p, "casExists", {"new"}, "failed", "new", "forget")
Claim(p)      == StatusCas(p, "claim", Provisionable, "pending", "new", "create")

\* Broken: goes ACTIVE and leaves the cache as it is.
ActivateSilently(p) == StatusCas(p, "activate", {"pending"}, "active", "pending", "close")

Activate(p)   == StatusCas(p, "activate", {"pending"}, "active", "pending", "forget")
CasFailed(p)  == StatusCas(p, "casFailed", {"pending"}, "failed", "pending", "forget")

\* Broken: a schema_missing write that does not compare with the status it read.
CasMissingAny(p) == StatusCas(p, "casMissing", Upgradable, "failed",
                              run[p].status, "forget")

CasMissing(p) == StatusCas(p, "casMissing", {run[p].status}, "failed",
                           run[p].status, "forget")

\* CREATE SCHEMA IF NOT EXISTS, on a connection that carries no label yet.
Create(p) ==
    /\ pc[p] = "create"
    /\ IF SchemaMissing
       THEN schema' = "own" /\ applied' = 0 /\ UNCHANGED vetted
       ELSE UNCHANGED schemaVars
    /\ Goto(p, "open")
    /\ UNCHANGED <<rowVars, leaseVars, backends, elsewhere, run, stale,
                   faults>>

OpenShard(p) ==
    /\ pc[p] = "open"
    /\ session' = [session EXCEPT ![p] = "idle"]
    /\ Goto(p, "plan")
    /\ UNCHANGED <<rowVars, leaseVars, schemaVars, orphans, elsewhere, run,
                   stale, faults>>

\* run_migrations reads django_migrations once and then executes its plan.
Plan(p) ==
    /\ pc[p] = "plan"
    /\ run' = [run EXCEPT ![p].mig = IF Targeted(p) THEN code[p] ELSE applied + 1]
    /\ Goto(p, "run")
    /\ OnlyReads

\* A migration starts: its backend is busy until the statement ends.
StmtStart(p) ==
    /\ pc[p] = "run"
    /\ run[p].mig <= code[p]
    /\ session' = [session EXCEPT ![p] = "busy"]
    /\ Goto(p, "stmt")
    /\ UNCHANGED <<rowVars, leaseVars, schemaVars, orphans, elsewhere, run,
                   stale, faults>>

\* It succeeds only on the schema it was planned for.  A targeted run (app_label,
\* migration_name, --fake, --prune) may leave any migration as the last one.
Applicable(p) == ~SchemaMissing /\ (Targeted(p) \/ applied = run[p].mig - 1)

StmtDone(p) ==
    /\ pc[p] = "stmt"
    /\ Applicable(p)
    /\ applied' \in IF Targeted(p) THEN 0 .. code[p] ELSE {run[p].mig}
    /\ run' = [run EXCEPT ![p].mig = @ + 1]
    /\ session' = [session EXCEPT ![p] = "idle"]
    /\ Goto(p, "run")
    /\ UNCHANGED <<rowVars, leaseVars, schema, vetted, orphans, elsewhere,
                   stale, faults>>

\* The plan is done: provisioning verifies it, an upgrade is finished.
RunDone(p) ==
    /\ pc[p] = "run"
    /\ run[p].mig > code[p]
    /\ Goto(p, IF Provisioning(p) THEN "verify" ELSE "close")
    /\ OnlyReads /\ UNCHANGED run

\* Broken: an exception of a migration is swallowed.
FailureSwallowed(p) == IF Provisioning(p) THEN "activate" ELSE "close"

\* Where a non-connection exception leads once the tenant is claimed.
Failure(p) == IF Provisioning(p) THEN "fail" ELSE "close"

\* A migration fails (bad migration, lock_timeout, or not the schema it expects).
StmtError(p) ==
    /\ pc[p] = "stmt"
    /\ IF Applicable(p) THEN Fault ELSE UNCHANGED faults
    /\ session' = [session EXCEPT ![p] = "idle"]
    /\ Goto(p, Failure(p))
    /\ UNCHANGED <<rowVars, leaseVars, schemaVars, orphans, elsewhere, run,
                   stale>>

\* pending_plan after the run; it closes the shard connection.
Verify(p) ==
    /\ pc[p] = "verify"
    /\ Close(p)
    /\ Goto(p, IF UpToDate(code[p]) THEN "recheck" ELSE "fail")
    /\ UNCHANGED <<rowVars, leaseVars, schemaVars, elsewhere, run, stale,
                   faults>>

Recheck(p) ==
    /\ pc[p] = "recheck"
    /\ Goto(p, IF CodeOlder(code[p]) THEN "close" ELSE "activate")
    /\ OnlyReads /\ UNCHANGED run

\* _failure closes the shard before the status is written.
Fail(p) ==
    /\ pc[p] = "fail"
    /\ Close(p)
    /\ Goto(p, "casFailed")
    /\ UNCHANGED <<rowVars, leaseVars, schemaVars, elsewhere, run, stale,
                   faults>>

\* Broken: treats MAINTENANCE like a served tenant.
UpgradeAny(p) ==
    /\ pc[p] = "upg"
    /\ Goto(p, CASE SchemaMissing                     -> "casMissing"
                 [] UpToDate(code[p]) /\ ~Targeted(p) -> "close"
                 [] OTHER                             -> "open")
    /\ OnlyReads /\ UNCHANGED run

\* _upgrade: the plan under the lease decides.
Upgrade(p) ==
    /\ pc[p] = "upg"
    /\ Goto(p, CASE SchemaMissing /\ run[p].status = "maintenance"  -> "close"
                 [] SchemaMissing /\ run[p].status # "maintenance"  -> "casMissing"
                 [] UpToDate(code[p]) /\ ~Targeted(p)               -> "close"
                 [] OTHER                                           -> "open")
    /\ OnlyReads /\ UNCHANGED run

Forget(p) ==
    /\ pc[p] = "forget"
    /\ stale' = FALSE
    /\ Goto(p, "close")
    /\ UNCHANGED <<rowVars, leaseVars, schemaVars, backends, elsewhere, run,
                   faults>>

\* Broken: the lease goes first, the connection stays for the pool.
CloseShardLater(p) ==
    /\ pc[p] = "close"
    /\ Goto(p, "release")
    /\ OnlyReads /\ UNCHANGED run

\* m5: the shard connection is closed before the lease is released.
CloseShard(p) ==
    /\ pc[p] = "close"
    /\ Close(p)
    /\ Goto(p, "release")
    /\ UNCHANGED <<rowVars, leaseVars, schemaVars, elsewhere, run, stale,
                   faults>>

FreeLease == leaseOwner' = None /\ leaseExpired' = FALSE

LeaseRelease(p) ==
    /\ pc[p] = "release"
    /\ IF leaseOwner = p THEN FreeLease ELSE UNCHANGED leaseVars
    /\ Return(p)
    /\ UNCHANGED <<rowVars, schemaVars, backends, elsewhere, stale, faults>>

-----------------------------------------------------------------------------
(* Faults *)

\* Whether the backend of a client that went away keeps working.
Abandon(p) ==
    /\ session' = [session EXCEPT ![p] = "none"]
    /\ \/ UNCHANGED orphans
       \/ session[p] = "busy" /\ orphans' = orphans \cup {p}

\* A connection is lost under the lease: the run reports conn_error, writes no
\* status (PENDING stays resumable) and releases the lease.  A lost answer may
\* hide a status write that was committed.
LostAnswer(p) ==
    \/ pc[p] = "casExists" /\ CasMatches(p, {"new"}) /\ CasWrites("failed", "new")
    \/ pc[p] = "claim" /\ CasMatches(p, Provisionable) /\ CasWrites("pending", "new")
    \/ pc[p] = "activate" /\ CasMatches(p, {"pending"}) /\ CasWrites("active", "pending")
    \/ pc[p] = "casFailed" /\ CasMatches(p, {"pending"}) /\ CasWrites("failed", "pending")
    \/ /\ pc[p] = "casMissing" /\ CasMatches(p, {run[p].status})
       /\ CasWrites("failed", run[p].status)

ConnectionLost(p) ==
    /\ pc[p] \in Leased \ {"close", "release"}
    /\ Fault
    /\ Abandon(p)
    /\ \/ UNCHANGED <<rowVars, stale>>
       \/ LostAnswer(p) /\ stale' = IF pc[p] = "claim" THEN stale ELSE TRUE
    /\ Goto(p, "close")
    /\ UNCHANGED <<leaseVars, schemaVars, elsewhere, run>>

\* Any other exception of a claimed provisioning run, outside a migration.
ProvisionError(p) ==
    /\ pc[p] \in {"create", "open", "plan", "run", "verify", "recheck",
                 "activate"}
    /\ Provisioning(p)
    /\ Fault
    /\ Goto(p, "fail")
    /\ UNCHANGED <<rowVars, leaseVars, schemaVars, backends, elsewhere, run,
                   stale>>

\* KeyboardInterrupt inside a migration.  If the statement was cancelled the run
\* ends as usual; if the backend still works the lease is kept.
Interrupt(p) ==
    /\ pc[p] = "stmt"
    /\ Fault
    /\ \/ /\ session' = [session EXCEPT ![p] = "idle"]
          /\ Goto(p, "close")
          /\ UNCHANGED <<orphans, run>>
       \/ /\ session' = [session EXCEPT ![p] = "none"]
          /\ orphans' = orphans \cup {p}
          /\ Return(p)
    /\ UNCHANGED <<rowVars, leaseVars, schemaVars, elsewhere, stale>>

\* lease_release fails: logged, the lease expires with its TTL.
ReleaseError(p) ==
    /\ pc[p] = "release"
    /\ Fault
    /\ Return(p)
    /\ UNCHANGED <<rowVars, leaseVars, schemaVars, backends, elsewhere, stale>>

\* SIGKILL, OOM, reboot: this owner() never comes back.
Crash(p) ==
    /\ pc[p] \notin Resting
    /\ Fault
    /\ Abandon(p)
    /\ Goto(p, "dead")
    /\ run' = [run EXCEPT ![p] = BlankRun]
    /\ UNCHANGED <<rowVars, leaseVars, schemaVars, elsewhere, stale>>

\* PostgreSQL notices that the client is gone and rolls the migration back.
OrphanEnds(p) ==
    /\ p \in orphans
    /\ orphans' = orphans \ {p}
    /\ UNCHANGED <<rowVars, leaseVars, schemaVars, session, elsewhere, stale,
                   faults, processes>>

\* LEASE_TTL passes.  A migration that outlives it is not supported.
LeaseExpire ==
    /\ leaseOwner # None /\ ~leaseExpired
    /\ Outlive \/ ~Critical(leaseOwner)
    /\ leaseExpired' = TRUE
    /\ UNCHANGED <<rowVars, leaseOwner, schemaVars, backends, elsewhere, stale,
                   faults, processes>>

-----------------------------------------------------------------------------
(* Operators: migration_lease, admin, console, DBA *)

\* Broken: an idle backend is enough, the lease need not have expired.
ReleasableIdle == "checked" \in ReleaseModes /\ ~SessionActive

Releasable ==
    \/ "force" \in ReleaseModes
    \/ "checked" \in ReleaseModes /\ ~SessionActive /\ leaseExpired

\* migration_lease --release: read the holder and check it ...
ReleaseCheck(o) ==
    /\ shown[o] = None
    /\ leaseOwner # None
    /\ Releasable
    /\ shown' = [shown EXCEPT ![o] = leaseOwner]
    /\ UNCHANGED <<rowVars, leaseVars, schemaVars, backends, form, edits,
                   stale, faults, processes>>

\* ... then lease_force_release, fenced on the owner that was shown.
ForceRelease(o) ==
    /\ shown[o] # None
    /\ IF leaseOwner = shown[o] THEN FreeLease ELSE UNCHANGED leaseVars
    /\ shown' = [shown EXCEPT ![o] = None]
    /\ UNCHANGED <<rowVars, schemaVars, backends, form, edits, stale, faults,
                   processes>>

\* check_reactivation in a web process whose code knows release c.
CheckReactivation(c) == ~CodeOlder(c) /\ UpToDate(c)

\* TenantAdminForm.clean: what it checks of a change to status `new`.
MayChange(new) ==
    /\ <<status, new>> \in StatusTransitions
    /\ new = "active" => \E c \in Releases : CheckReactivation(c)
    /\ new = "maintenance" /\ leaseOwner # None => leaseExpired /\ ~SessionActive

FormClean(o) ==
    /\ form[o] = None
    /\ edits < MaxEdits
    /\ edits' = edits + 1
    /\ \E new \in Statuses :
          /\ MayChange(new)
          /\ form' = [form EXCEPT ![o] =
                        [old |-> status, new |-> new, by |-> "admin", saved |-> FALSE]]
    /\ UNCHANGED <<rowVars, leaseVars, schemaVars, backends, shown, stale,
                   faults, processes>>

\* TenantViewSet._transition, of deactivate and activate.  The stopper looks only at
\* a row that was loaded in the status to start from; the update below goes by
\* that status, whatever was loaded.
Transition(o) ==
    /\ form[o] = None
    /\ edits < MaxEdits
    /\ edits' = edits + 1
    /\ status \notin {"maintenance", "deleted"}
    /\ \E from \in Upgradable :
          LET to == IF from = "active" THEN "deactivated" ELSE "active"
          IN  /\ to = "active" /\ status = from => \E c \in Releases : CheckReactivation(c)
              /\ form' = [form EXCEPT ![o] =
                            [old |-> from, new |-> to, by |-> "console", saved |-> FALSE]]
    /\ UNCHANGED <<rowVars, leaseVars, schemaVars, backends, shown, stale,
                   faults, processes>>

\* DELETE of the tenant: perform_destroy refuses MAINTENANCE on the row it
\* loaded, the admin's delete page refuses nothing.
DeleteCheck(o) ==
    /\ form[o] = None
    /\ edits < MaxEdits
    /\ edits' = edits + 1
    /\ status # "deleted"
    /\ \E by \in {"admin", "console"} :
          /\ by = "console" => status # "maintenance"
          /\ form' = [form EXCEPT ![o] =
                        [old |-> status, new |-> "deleted", by |-> by, saved |-> FALSE]]
    /\ UNCHANGED <<rowVars, leaseVars, schemaVars, backends, shown, stale,
                   faults, processes>>

\* Broken: save_model relies on the check the form made.
LeaseLockNone(new) == TRUE

\* lease_lock_for_transition: only an entry into MAINTENANCE asks for the lease.
LeaseLock(new) == new = "maintenance" => LeaseFree

\* save_model: lock the lease row, CAS on the status the operator saw.
Checked(o) == form[o] # None /\ ~form[o].saved

FormSave(o) ==
    /\ Checked(o) /\ form[o].new # "deleted"
    /\ IF status = form[o].old /\ LeaseLock(form[o].new)
       THEN /\ CasWrites(form[o].new, form[o].old)
            /\ stale' = TRUE
            /\ vetted' = IF form[o].old \in OperatorOwned THEN TRUE ELSE vetted
            /\ form' = [form EXCEPT ![o].saved = TRUE]
       ELSE /\ form' = [form EXCEPT ![o] = None]
            /\ UNCHANGED <<rowVars, stale, vetted>>
    /\ UNCHANGED <<leaseVars, schema, applied, backends, shown, edits, faults,
                   processes>>

\* instance.delete(): no condition on the status any more.
Delete(o) ==
    /\ Checked(o) /\ form[o].new = "deleted"
    /\ status' = "deleted"
    /\ stale' = TRUE
    /\ form' = [form EXCEPT ![o].saved = TRUE]
    /\ UNCHANGED <<prev, leaseVars, schemaVars, backends, shown, edits, faults,
                   processes>>

\* forget_tenant after the commit.
FormForget(o) ==
    /\ form[o] # None /\ form[o].saved
    /\ stale' = FALSE
    /\ form' = [form EXCEPT ![o] = None]
    /\ UNCHANGED <<rowVars, leaseVars, schemaVars, backends, shown, edits,
                   faults, processes>>

-----------------------------------------------------------------------------
(* The rest of the world *)

\* A newer release migrates public (migrate_schemas --shared).
MigrateShared ==
    /\ public < MaxRelease
    /\ public' = public + 1
    /\ UNCHANGED <<rowVars, leaseVars, schemaVars, backends, operVars, pc,
                   code, run, stale, faults>>

\* drop_tenant_schema refuses a schema that a tenant row still names.
DropSchema ==
    /\ status = "deleted" /\ schema # "missing"
    /\ schema' = "missing" /\ applied' = 0
    /\ UNCHANGED <<rowVars, leaseVars, vetted, backends, elsewhere, stale,
                   faults, processes>>

\* Disaster: the schema of a served tenant disappears.
LoseSchema ==
    /\ status \in Upgradable /\ schema # "missing"
    /\ Fault
    /\ schema' = "missing" /\ applied' = 0
    /\ UNCHANGED <<rowVars, leaseVars, vetted, backends, elsewhere, stale,
                   processes>>

\* migration_lease --list prints the held leases and the session of each.
ListEmpty == leaseOwner = None

\* The runbook's restore: MAINTENANCE, an empty --list, then pg_restore.
Restore ==
    /\ status = "maintenance" /\ ListEmpty
    /\ edits < MaxEdits
    /\ edits' = edits + 1
    /\ schema' = "own" /\ applied' \in 0 .. public /\ vetted' = TRUE
    /\ UNCHANGED <<rowVars, leaseVars, backends, shown, form, stale, faults,
                   processes>>

-----------------------------------------------------------------------------
Process(p) ==
    \/ Load(p) \/ Shortcut(p) \/ LeaseProbe(p) \/ LeaseTake(p) \/ Reload(p)
    \/ Prov(p) \/ M4(p) \/ CasExists(p) \/ Claim(p) \/ Create(p)
    \/ OpenShard(p) \/ Plan(p) \/ StmtStart(p) \/ StmtDone(p) \/ StmtError(p)
    \/ RunDone(p) \/ Verify(p) \/ Recheck(p) \/ Activate(p)
    \/ Fail(p) \/ CasFailed(p) \/ Upgrade(p) \/ CasMissing(p)
    \/ Forget(p) \/ CloseShard(p) \/ LeaseRelease(p)

Faulty(p) ==
    \/ UnleasedError(p) \/ ConnectionLost(p) \/ ProvisionError(p)
    \/ Interrupt(p) \/ ReleaseError(p) \/ Crash(p)

Operator(o) ==
    \/ ReleaseCheck(o) \/ ForceRelease(o) \/ FormClean(o) \/ Transition(o)
    \/ DeleteCheck(o) \/ FormSave(o) \/ Delete(o) \/ FormForget(o)

World == MigrateShared \/ DropSchema \/ LoseSchema \/ Restore \/ LeaseExpire

Next ==
    \/ \E p \in Procs : Start(p) \/ Process(p) \/ Faulty(p) \/ OrphanEnds(p)
    \/ \E o \in Operators : Operator(o)
    \/ World

Spec == Init /\ [][Next]_vars

\* A process that is alive keeps executing, PostgreSQL ends an orphaned backend
\* and leases run out.  Nothing makes anyone start a run.
Fairness ==
    /\ \A p \in Procs : WF_vars(Process(p)) /\ WF_vars(OrphanEnds(p))
    /\ WF_vars(LeaseExpire)

FairSpec == Spec /\ Fairness

-----------------------------------------------------------------------------
(* Properties *)

RunType == [opts : SUBSET Flags, status : RowStates, prev : Statuses,
            mig : 0 .. MaxRelease + 1]
FormType == [old : Statuses, new : RowStates, by : {"admin", "console"},
             saved : BOOLEAN]

\* An operator with no page open is told from one with a page.
ASSUME NoForm == None \notin FormType

\* Every variable keeps the shape of the row, lease, schema or local it models;
\* in particular no run ever records a migration its code does not have.
TypeOK ==
    /\ status \in RowStates /\ prev \in Statuses
    /\ leaseOwner \in Procs \cup {None} /\ leaseExpired \in BOOLEAN
    /\ schema \in {"missing", "own", "foreign"} /\ applied \in 0 .. MaxRelease
    /\ public \in Releases
    /\ pc \in [Procs -> Unleased \cup Leased \cup Resting]
    /\ code \in [Procs -> Releases]
    /\ run \in [Procs -> RunType]
    /\ session \in [Procs -> {"none", "idle", "busy"}] /\ orphans \subseteq Procs
    /\ shown \in [Operators -> Procs \cup {None}]
    /\ form \in [Operators -> FormType \cup {None}]
    /\ stale \in BOOLEAN /\ vetted \in BOOLEAN
    /\ faults \in 0 .. MaxFaults /\ edits \in 0 .. MaxEdits

\* The conditions under which the lease excludes: no migration outlives LEASE_TTL,
\* nobody uses --force, and an operator's --release never meets a process that
\* comes back under the same owner(), which is all lease_force_release compares.
Supported ==
    /\ ~Outlive
    /\ "force" \notin ReleaseModes
    /\ ReleaseModes = {} \/ ~Reuse

\* I1: a tenant is migrated only by the owner of its lease, so two processes are
\* never both inside migrate_tenant's leased part, whatever connections are
\* lost, answers dropped, processes killed or leases expired and released.
OwnerOnly == Supported => \A p \in Procs : Critical(p) => leaseOwner = p /\ ~leaseExpired

\* m5 and I8: a tm:<key> session of a living client, with the migrator's
\* lock_timeout, exists only while that client holds the lease, so the next
\* owner never meets the session of the previous one.
SessionOwned == Supported => \A p \in Procs : session[p] # "none" => leaseOwner = p

\* Section 14.2: while a tenant is in MAINTENANCE (a DBA may be restoring it) no
\* run without --maintenance has got past re-reading the row.
MaintenanceExclusive ==
    Supported /\ status = "maintenance" =>
        \A p \in Procs : pc[p] \in Leased \ {"reload", "close", "release", "forget"} =>
            "maintenance" \in run[p].opts

\* M4: a schema of unknown origin is written to only after an operator has
\* taken the tenant through an operator-owned status.
NoSilentAdoption ==
    schema = "foreign" /\ ~vetted =>
        \A p \in Procs : pc[p] \notin {"create", "open", "plan", "run", "stmt", "verify"}

\* I4: a tenant becomes ACTIVE out of PENDING only with a schema that has every
\* migration the activating code knows.  Without targeted runs this needs none of
\* the conditions above: it holds even when the lease was lost meanwhile.
Untargeted == \A opts \in RunOptions : "targeted" \notin opts
ActivatedCurrent ==
    [][(Supported \/ Untargeted) /\ status = "pending" /\ status' = "active" =>
        \E p \in Procs : pc[p] = "activate" /\ UpToDate(code[p])]_vars

\* I7: the migrator never writes a FAILED or MAINTENANCE row; only an operator's
\* request moves a tenant out of them, and no process moves in that step.
OperatorStatusKept ==
    [][(status \in OperatorOwned /\ status' # status) => (pc' = pc)]_vars

\* I3: as long as no fault intervened, a status write that the web tier can tell
\* apart is followed by forget_tenant: whoever wrote last still owes it.
ForgetOwed ==
    faults = 0 /\ stale =>
        \/ \E p \in Procs : pc[p] = "forget"
        \/ \E o \in Operators : form[o] # None /\ form[o].saved

\* As long as runs of the current code are started again and again, and from some
\* time on none outlives its lease, PENDING does not last: a claim whose run
\* crashed is resumed, to ACTIVE or FAILED.
PendingResolved ==
    (/\ \A p \in Procs : code[p] = MaxRelease
     /\ []<>(\E p \in Procs : pc[p] = "load")
     /\ <>[](leaseExpired => ~Critical(leaseOwner)))
        => (status = "pending" ~> status # "pending")

\* The row moves only along the lifecycle, with previous_status naming the status
\* it left: PENDING is entered by a claim only (I2), an upgrade writes FAILED at
\* most (I6), and a deleted row stays deleted.
Lifecycle == INSTANCE TenantLifecycle
LifecycleKept == Lifecycle!Spec

-----------------------------------------------------------------------------
(* Claims of the documentation that the code does not keep *)

\* lease_acquire: while a backend labelled tm:<key> still works, no second
\* migration of the tenant starts beside it.
OneBackend == Cardinality(orphans \cup {p \in Procs : session[p] = "busy"}) <= 1

\* perform_destroy: the console does not delete a tenant that is in MAINTENANCE.
ConsoleSparesMaintenance ==
    [][\A o \in Operators :
        Delete(o) /\ form[o].by = "console" => status # "maintenance"]_vars

=============================================================================
