------------------------------- MODULE Catalog -------------------------------
(***************************************************************************)
(* The registry of shards, tenants, domains and reserved hosts on default,  *)
(* and the schemas that exist on the shards, as the console, the admin site, *)
(* the commands and the service tasks change them: tenants/console,          *)
(* tenants/management/commands, tenants/models.py.                          *)
(*                                                                         *)
(* Here a schema name is used again after its tenant is gone, so a tenant is *)
(* its primary key.  How one row is migrated (leases, faults, statuses an    *)
(* operator sets) is the module Migrator; a migration is a job of a few      *)
(* statements here.                                                         *)
(***************************************************************************)
EXTENDS ReservedHosts, FiniteSets

CONSTANTS
    Shards,      \* aliases in settings.DATABASES other than default
    Names,       \* schema names
    Canon,       \* validate_schema_name: the name a spelling folds to, or None
    None,
    Hostnames,   \* hostnames as typed
    RuleForms,   \* rules as typed: <<type, value, base>>
    Threads,     \* console requests, admin forms and bootstrap commands
    Workers,     \* processes that migrate
    Droppers,    \* processes that run drop_tenant_schema
    Setups,      \* the rows and schemas to start from, and a menu
    MaxTenants, MaxDomains   \* bounds

ASSUME CatalogConstants ==
    /\ None \notin Names \cup Shards
    /\ \A spelling \in DOMAIN Canon : Canon[spelling] \in Names \cup {None}
    /\ Hostnames \subseteq Typed
    /\ \A form \in RuleForms : form[1] \in MatchTypes /\ {form[2], form[3]} \subseteq Typed
    /\ {MaxTenants, MaxDomains} \subseteq Nat
    /\ \A setup \in Setups : {setup.menu.edits, setup.menu.faults} \subseteq Nat

VARIABLES
    shard,       \* Shard rows
    tenant,      \* Tenant rows by primary key
    dom,         \* Domain rows
    rules,       \* ReservedHostRule rows
    schema,      \* the schemas of each shard
    req, job, drop,   \* what each thread, worker and dropper is doing
    dropQueue,   \* drop_tenant_schema_task messages
    unforgotten, \* hosts that lost their row and were not invalidated since
    overlapped,  \* hosts saved to a row that another operation had loaded
    menu,        \* bounds of this behaviour: who acts, what is typed, how often
    edits, faults

rowVars == <<shard, tenant, dom, rules>>
vars == <<rowVars, schema, req, job, drop, dropQueue, unforgotten, overlapped, menu, edits, faults>>

Public == 0                 \* the key of the public tenant
Ids == 1..MaxTenants

\* moved: the admin form changed the shard.  adopted: an operator confirmed the
\* schema, or the legacy command took the tenant over.
Row(name, on) == [name |-> name, shard |-> on, status |-> "new", prev |-> "new",
                  moved |-> FALSE, adopted |-> FALSE]
Free == [Row(None, None) EXCEPT !.status = "free"]

Live(i) == tenant[i].status \notin {"free", "gone"}
Named(name) == {i \in Ids : Live(i) /\ tenant[i].name = name}
Unused == {i \in Ids : tenant[i].status = "free"}
NewId == CHOOSE i \in Unused : \A j \in Unused : i <= j

Hosts == {d.host : d \in dom}
PublicHosts == {d.host : d \in {e \in dom : e.tenant = Public}}
PrimaryOf(i) == {d \in dom : d.tenant = i /\ d.primary}
\* Keys are not used twice: not one of a row, nor one that an operation has loaded.
LoadedPks == UNION {{r.pk : r \in req[t].loaded} : t \in Threads}
FreePks == (1..MaxDomains) \ ({d.pk : d \in dom} \cup LoadedPks)

Active == {r.rule : r \in {x \in rules : x.active}}

\* data: tenants that were served from the schema.
NoSchema == [exists |-> FALSE, relations |-> FALSE, data |-> {}]
Home(i) == <<tenant[i].shard, tenant[i].name>>

\* Any rows and schemas that agree with each other: names are unique, tables are
\* in a schema, and a tenant in use has its own data or none.
Consistent(setup) ==
    /\ setup.tenant \in [Ids -> [name : Names \cup {None}, shard : Shards \cup {None},
                                 status : {"free", "new", "pending", "active", "failed"},
                                 prev : {"new", "pending", "active"},
                                 moved : {FALSE}, adopted : {FALSE}]]
    /\ setup.dom \subseteq [pk : 1..MaxDomains, host : Seq(Labels \cup Broken),
                            tenant : Ids \cup {Public}, primary : BOOLEAN]
    /\ \A d, e \in setup.dom : d.pk = e.pk => d = e
    /\ setup.schema \in [Shards \X Names -> [exists : BOOLEAN, relations : BOOLEAN,
                                             data : SUBSET Ids]]
    /\ \A at \in Shards \X Names :
          /\ setup.schema[at].relations => setup.schema[at].exists
          /\ setup.schema[at].data # {} => setup.schema[at].relations
    /\ \A i \in Ids : setup.tenant[i].status # "free" =>
          /\ setup.tenant[i].name \in Names /\ setup.tenant[i].shard \in Shards
          /\ setup.tenant[i].status \in {"pending", "active"} =>
                setup.schema[setup.tenant[i].shard, setup.tenant[i].name].data \subseteq {i}
          /\ \A j \in Ids : setup.tenant[j].name = setup.tenant[i].name => j = i
    /\ setup.menu.threads \subseteq Threads /\ setup.menu.workers \subseteq Workers
    /\ setup.menu.hosts \cup setup.menu.domains \subseteq Hostnames

ASSUME SetupsConsistent == \A setup \in Setups : Consistent(setup)

\* loaded: the Domain rows a thread is to save or to delete, as it loaded them.
Quiet == [pc |-> "idle", name |-> None, shard |-> None, host |-> <<>>,
          id |-> Public, loaded |-> {}, primary |-> TRUE, drop |-> FALSE]
NoJob == [pc |-> "idle", id |-> Public, at |-> <<None, None>>, check |-> FALSE, prev |-> "new"]
NoDrop == [pc |-> "idle", at |-> <<None, None>>, queued |-> FALSE]

Init ==
    /\ \E setup \in Setups :
          /\ shard = setup.shard /\ rules = {}
          /\ tenant = setup.tenant /\ dom = setup.dom /\ schema = setup.schema
          /\ menu = setup.menu
    /\ req = [t \in Threads |-> Quiet]
    /\ job = [w \in Workers |-> NoJob]
    /\ drop = [d \in Droppers |-> NoDrop]
    /\ dropQueue = {}
    /\ unforgotten = {} /\ overlapped = {}
    /\ edits = 0 /\ faults = 0

Edit == edits < menu.edits /\ edits' = edits + 1

Calm == UNCHANGED <<job, drop, dropQueue, faults>>

-----------------------------------------------------------------------------
(* Domain rows.  A save invalidates the new host and the one that was loaded,  *)
(* a deletion the one that was loaded; both go by the primary key.            *)

Loaded(d) == [pk |-> d.pk, host |-> d.host]
Keys(t) == {r.pk : r \in req[t].loaded}
LoadedHosts(t) == {r.host : r \in req[t].loaded}

Invalidated(forget) == unforgotten' = (unforgotten \cup (Hosts \ {d.host : d \in dom'})) \ forget

\* DomainMixin.save, of the row beside these: the tenant keeps one primary domain.
Beside(rows, i, primary, pk, host) ==
    LET only == primary \/ ~\E d \in rows : d.tenant = i /\ d.primary
    IN  {IF only /\ d.tenant = i THEN [d EXCEPT !.primary = FALSE] ELSE d : d \in rows}
        \cup {[pk |-> pk, host |-> host, tenant |-> i, primary |-> only]}

FirstPk == CHOOSE pk \in FreePks : \A other \in FreePks : pk <= other

InsertDomain(host, i) ==
    /\ FreePks # {}
    /\ dom' = Beside(dom, i, TRUE, FirstPk, host)
    /\ Invalidated({host})

KeepDomains == UNCHANGED <<dom, unforgotten>>

\* validate_tenant_domain
ValidTenantDomain(typed) ==
    /\ ValidHostname(typed)
    /\ typed.labels \notin PublicHosts
    /\ ~Reserved(Active, typed.labels)

\* Folds the spelling to its canonical name, None when it has none.
validate_schema_name(spelling) == Canon[spelling]

\* validate_tenant_schema_name
ValidTenantName(name) == name \notin reserved_schema_labels(Active)

\* Of a new tenant: the format, the reserved words, uniqueness.
ValidNewName(name) == name # None /\ ValidTenantName(name) /\ Named(name) = {}

-----------------------------------------------------------------------------
(* Creating a tenant.  A refused input changes nothing and is not a step.     *)

Working(t, pc) == req[t].pc = pc
Goto(t, pc) == req' = [req EXCEPT ![t].pc = pc]
Done(t) == req' = [req EXCEPT ![t] = Quiet]

\* TenantSerializer: the validators of the fields.
CreateFields(t, spelling, s, typed) ==
    /\ Working(t, "idle") /\ Edit
    /\ ValidNewName(validate_schema_name(spelling))
    /\ shard[s] = "active"
    /\ ValidTenantDomain(typed)
    /\ normalize_host(typed) \notin Hosts
    /\ req' = [req EXCEPT ![t] = [Quiet EXCEPT !.pc = "schema", !.shard = s,
                                 !.name = validate_schema_name(spelling),
                                 !.host = normalize_host(typed)]]
    /\ UNCHANGED <<rowVars, schema, unforgotten, overlapped>> /\ Calm

\* TenantSerializer.validate: the schema must not exist on the shard.
CreateValidate(t) ==
    /\ Working(t, "schema")
    /\ IF schema[req[t].shard, req[t].name].exists THEN Done(t) ELSE Goto(t, "insert")
    /\ UNCHANGED <<rowVars, schema, unforgotten, overlapped, edits>> /\ Calm

\* The add form of the admin: Tenant.clean, no domain, no look at the shard.
AdminAdd(t, spelling, s) ==
    /\ Working(t, "idle") /\ Edit
    /\ ValidNewName(validate_schema_name(spelling))
    /\ shard[s] = "active"
    /\ req' = [req EXCEPT ![t] = [Quiet EXCEPT !.pc = "insert", !.shard = s,
                                 !.name = validate_schema_name(spelling)]]
    /\ UNCHANGED <<rowVars, schema, unforgotten, overlapped>> /\ Calm

\* What the tables accept: unique names and hosts, a shard that has a row.
Insertable(t) == Named(req[t].name) = {} /\ shard[req[t].shard] # "absent"

\* TenantSerializer.create: both rows in one transaction, or neither.
CreateInsert(t) ==
    /\ Working(t, "insert")
    /\ \/ /\ Insertable(t) /\ req[t].host \notin Hosts /\ Unused # {}
          /\ tenant' = [tenant EXCEPT ![NewId] = Row(req[t].name, req[t].shard)]
          /\ IF req[t].host = <<>> THEN KeepDomains ELSE InsertDomain(req[t].host, NewId)
       \/ /\ ~(Insertable(t) /\ req[t].host \notin Hosts)
          /\ UNCHANGED tenant /\ KeepDomains
    /\ Done(t)
    /\ UNCHANGED <<shard, rules, schema, overlapped, edits>> /\ Calm

\* bootstrap_tenant normalizes the host first; --force overrides the
\* reserved words and the host checks.
BootCheck(t, spelling, s, typed, force) ==
    /\ Working(t, "idle") /\ Edit
    /\ validate_schema_name(spelling) # None
    /\ force \/ /\ ValidTenantName(validate_schema_name(spelling))
                /\ ValidTenantDomain([typed EXCEPT !.dots = 0])
    /\ shard[s] = "active"
    /\ req' = [req EXCEPT ![t] = [Quiet EXCEPT !.pc = "boot tenant", !.shard = s,
                                 !.name = validate_schema_name(spelling),
                                 !.host = normalize_host(typed)]]
    /\ UNCHANGED <<rowVars, schema, unforgotten, overlapped>> /\ Calm

\* Tenant.objects.get_or_create(schema_name=...)
BootTenant(t) ==
    /\ Working(t, "boot tenant")
    /\ \/ \E i \in Named(req[t].name) :
             /\ req' = [req EXCEPT ![t].pc = "boot domain", ![t].id = i]
             /\ UNCHANGED tenant
       \/ /\ Insertable(t) /\ Unused # {}
          /\ tenant' = [tenant EXCEPT ![NewId] = Row(req[t].name, req[t].shard)]
          /\ req' = [req EXCEPT ![t].pc = "boot domain", ![t].id = NewId]
       \/ /\ Named(req[t].name) = {} /\ ~Insertable(t)
          /\ Done(t) /\ UNCHANGED tenant
    /\ UNCHANGED <<shard, dom, rules, schema, unforgotten, overlapped, edits>> /\ Calm

\* Domain.objects.get_or_create: a host that another tenant has stays there.
\* The run of migrate_schemas that follows is a job.
BootDomain(t) ==
    /\ Working(t, "boot domain")
    /\ IF req[t].host \in Hosts \/ ~Live(req[t].id)
       THEN KeepDomains ELSE InsertDomain(req[t].host, req[t].id)
    /\ Done(t)
    /\ UNCHANGED <<shard, tenant, rules, schema, overlapped, edits>> /\ Calm

-----------------------------------------------------------------------------
(* Changing domains.                                                        *)

\* TenantSerializer.validate_domain of an update.
UpdateCheck(t, i, typed) ==
    /\ Working(t, "idle") /\ Edit
    /\ Live(i)
    /\ ValidTenantDomain(typed)
    /\ \A d \in dom : d.host = normalize_host(typed) => d \in PrimaryOf(i)
    /\ req' = [req EXCEPT ![t] = [Quiet EXCEPT !.pc = "load", !.id = i,
                                               !.host = normalize_host(typed)]]
    /\ UNCHANGED <<rowVars, schema, unforgotten, overlapped>> /\ Calm

\* TenantSerializer.update reads the primary domain, if there is one.
UpdateLoad(t) ==
    /\ Working(t, "load")
    /\ \/ \E d \in PrimaryOf(req[t].id) :
             IF d.host = req[t].host THEN Done(t)
             ELSE req' = [req EXCEPT ![t].pc = "save", ![t].loaded = {Loaded(d)}]
       \/ PrimaryOf(req[t].id) = {} /\ Goto(t, "save")
    /\ UNCHANGED <<rowVars, schema, unforgotten, overlapped, edits>> /\ Calm

\* The form of DomainAdmin: Domain.clean, which exempts the public tenant.
DomainForm(t, pk, i, typed, primary) ==
    /\ Working(t, "idle") /\ Edit
    /\ i # Public => Live(i) /\ ValidTenantDomain(typed)
    /\ \A d \in dom : d.host = normalize_host(typed) => d.pk = pk
    /\ pk # 0 => \E d \in dom : d.pk = pk
    /\ req' = [req EXCEPT ![t] = [Quiet EXCEPT !.pc = "save", !.id = i, !.primary = primary,
                  !.host = normalize_host(typed),
                  !.loaded = {Loaded(d) : d \in {e \in dom : e.pk = pk}}]]
    /\ UNCHANGED <<rowVars, schema, unforgotten, overlapped>> /\ Calm

\* Broken: only post_save invalidates.
SaveForgetsNew(t) == {req[t].host}

\* post_save forgets the new host, Domain.save the one that was loaded.
SaveForgets(t) == {req[t].host} \cup LoadedHosts(t)

\* Ghost: the host was saved while somebody else had the row loaded.
Overtaken(t) == IF \E u \in Threads \ {t} : Keys(u) \cap Keys(t) # {} THEN {req[t].host} ELSE {}

\* Domain.save: an UPDATE by primary key, or an INSERT when there is no such row.
DomainSave(t) ==
    /\ Working(t, "save")
    /\ LET rest == {d \in dom : d.pk \notin Keys(t)}
           new == IF FreePks = {} THEN {} ELSE {FirstPk}
           fits == /\ req[t].id # Public => Live(req[t].id)
                   /\ \A d \in rest : d.host # req[t].host
       IN  \/ /\ fits
              /\ \E pk \in IF Keys(t) = {} THEN new ELSE Keys(t) :
                    dom' = Beside(rest, req[t].id, req[t].primary, pk, req[t].host)
              /\ Invalidated(SaveForgets(t))
              /\ overlapped' = overlapped \cup Overtaken(t)
           \/ ~fits /\ KeepDomains /\ UNCHANGED overlapped
    /\ Done(t)
    /\ UNCHANGED <<shard, tenant, rules, schema, edits>> /\ Calm

\* DomainAdmin loads the row that it is to delete...
DomainDeleteLoad(t, d) ==
    /\ Working(t, "idle") /\ Edit
    /\ d \in dom
    /\ req' = [req EXCEPT ![t] = [Quiet EXCEPT !.pc = "delete", !.loaded = {Loaded(d)}]]
    /\ UNCHANGED <<rowVars, schema, unforgotten, overlapped>> /\ Calm

\* post_delete has the rows as they were loaded.
DeleteForgets(t) == LoadedHosts(t)

\* ... and deletes it by its key, whatever it says by now.
DomainDelete(t) ==
    /\ Working(t, "delete")
    /\ dom' = {d \in dom : d.pk \notin Keys(t)}
    /\ Invalidated(DeleteForgets(t))
    /\ Done(t)
    /\ UNCHANGED <<shard, tenant, rules, schema, overlapped, edits>> /\ Calm

\* bootstrap_public: get_or_create again; the format is checked, nothing else.
BootstrapPublic(typed) ==
    /\ Edit
    /\ ValidHostname(typed)
    /\ normalize_host(typed) \notin Hosts
    /\ InsertDomain(normalize_host(typed), Public)
    /\ UNCHANGED <<shard, tenant, rules, schema, req, overlapped>> /\ Calm

-----------------------------------------------------------------------------
(* Tenant rows: the console's destroy and two edits of the admin form.        *)

\* TenantViewSet.destroy loads the tenant; perform_destroy takes its shard and
\* name from there.  dropSchema is ?drop_schema=true; the admin deletes without.
DestroyLoad(t, i, dropSchema) ==
    /\ Working(t, "idle") /\ Edit
    /\ Live(i)
    /\ req' = [req EXCEPT ![t] = [Quiet EXCEPT !.pc = "collect", !.id = i, !.drop = dropSchema,
                                 !.shard = tenant[i].shard, !.name = tenant[i].name]]
    /\ UNCHANGED <<rowVars, schema, unforgotten, overlapped>> /\ Calm

\* Tenant.delete reads the domains that go by the cascade...
DestroyCollect(t) ==
    /\ Working(t, "collect")
    /\ req' = [req EXCEPT ![t].pc = "destroy",
                          ![t].loaded = {Loaded(d) : d \in {e \in dom : e.tenant = req[t].id}}]
    /\ UNCHANGED <<rowVars, schema, unforgotten, overlapped, edits>> /\ Calm

\* ... and deletes those and the tenant in one transaction, which fails when a
\* domain was added since: then nothing is invalidated and no drop is queued.
Destroy(t) ==
    /\ Working(t, "destroy")
    /\ LET i == req[t].id
           rest == {d \in dom : d.pk \notin Keys(t)}
       IN  \/ /\ \A d \in rest : d.tenant # i
              /\ dom' = rest
              /\ tenant' = IF Live(i) THEN [tenant EXCEPT ![i] = [Free EXCEPT !.status = "gone"]]
                                      ELSE tenant
              /\ Invalidated(DeleteForgets(t))
              /\ dropQueue' = dropQueue \cup
                    (IF req[t].drop THEN {<<req[t].shard, req[t].name>>} ELSE {})
           \/ (\E d \in rest : d.tenant = i) /\ KeepDomains /\ UNCHANGED <<tenant, dropQueue>>
    /\ Done(t)
    /\ UNCHANGED <<shard, rules, schema, job, drop, overlapped, edits, faults>>

\* The change form leaves the shard writable; Tenant.clean wants an active one.
AdminMove(i, s) ==
    /\ Edit
    /\ Live(i) /\ shard[s] = "active" /\ s # tenant[i].shard
    /\ tenant' = [tenant EXCEPT ![i].shard = s, ![i].moved = TRUE]
    /\ UNCHANGED <<shard, dom, rules, schema, req, unforgotten, overlapped>> /\ Calm

\* FAILED -> NEW, for which the form wants the schema confirmed.
AdminConfirm(i) ==
    /\ Edit
    /\ tenant[i].status = "failed"
    /\ tenant' = [tenant EXCEPT ![i].status = "new", ![i].prev = "failed", ![i].adopted = TRUE]
    /\ UNCHANGED <<shard, dom, rules, schema, req, unforgotten, overlapped>> /\ Calm

-----------------------------------------------------------------------------
(* Shards and rules.                                                        *)

OnShard(s) == {i \in Ids : Live(i) /\ tenant[i].shard = s}

Tables == UNCHANGED <<tenant, dom, schema, req, unforgotten, overlapped>> /\ Calm

\* sync_shards: a row for every alias that has none, active only with the flag.
SyncShards(activate) ==
    /\ Edit
    /\ shard' = [s \in Shards |-> IF shard[s] # "absent" THEN shard[s]
                                  ELSE IF activate THEN "active" ELSE "inactive"]
    /\ UNCHANGED rules /\ Tables

PutShard(s, to) == shard' = [shard EXCEPT ![s] = to] /\ UNCHANGED rules /\ Tables

\* ShardViewSet.activate
ShardActivate(s) == Edit /\ shard[s] = "inactive" /\ PutShard(s, "active")

\* ShardViewSet.deactivate: not while the shard hosts a tenant.
ShardDeactivate(s) == Edit /\ shard[s] = "active" /\ OnShard(s) = {} /\ PutShard(s, "inactive")

\* Tenant.shard is PROTECT, and Shard.delete keeps the default shard.
Deletable(s) == shard[s] # "absent" /\ OnShard(s) = {}

\* ShardViewSet.destroy wants the shard inactive first.
ShardDestroy(s) == Edit /\ shard[s] = "inactive" /\ Deletable(s) /\ PutShard(s, "absent")

\* ShardAdmin.delete_model and delete_queryset do not.
ShardAdminDelete(s) == Edit /\ Deletable(s) /\ PutShard(s, "absent")

\* Shard.clean: the alias of a row that is there is immutable.
ShardClean(row, alias) == row = None \/ row = alias

\* ShardAdminForm adds a shard (row is None) or edits one, and sets is_active
\* whatever the shard holds; it offers the aliases no other row has.
ShardAdminForm(row, alias, on) ==
    /\ Edit
    /\ row # None => shard[row] # "absent"
    /\ shard[alias] = "absent" \/ row = alias
    /\ ShardClean(row, alias)
    /\ PutShard(alias, IF on THEN "active" ELSE "inactive")

\* ReservedHostRuleSerializer.validate, of a new rule (old is empty) or an edit.
RuleSave(old, form) ==
    /\ Edit
    /\ old \subseteq rules
    /\ ValidRule(form[1], form[2], form[3])
    /\ LET rule == NormalizeRule(form[1], form[2], form[3])
       IN  /\ \A r \in rules \ old : r.rule # rule
           /\ rules' = (rules \ old) \cup {[rule |-> rule, active |-> TRUE]}
    /\ UNCHANGED shard /\ Tables

RuleToggle(r) ==
    /\ Edit
    /\ r \in rules
    /\ rules' = (rules \ {r}) \cup {[r EXCEPT !.active = ~r.active]}
    /\ UNCHANGED shard /\ Tables

RuleDelete(r) ==
    /\ Edit
    /\ r \in rules
    /\ rules' = rules \ {r}
    /\ UNCHANGED shard /\ Tables

\* ReservedHostRuleViewSet.conflicts: the business domains a rule reserves,
\* narrowed by SQL, then matched.
conflicts(rule) ==
    {d \in dom : d.tenant # Public /\ candidate_q(rule, d.host) /\ matches(rule, d.host)}

-----------------------------------------------------------------------------
(* Migrations.                                                              *)

JobGoto(w, pc) == job' = [job EXCEPT ![w].pc = pc]
JobDone(w) == job' = [job EXCEPT ![w] = NoJob]
Mine(w) == tenant[job[w].id]
At(w) == schema[job[w].at]

\* What a job leaves alone.
Aside == UNCHANGED <<shard, dom, rules, req, drop, dropQueue, unforgotten, overlapped, edits>>

\* An UPDATE of the row where its status is one of these, and by the key alone.
Cas(w, from, to, prev) ==
    tenant' = IF Mine(w).status \in from
              THEN [tenant EXCEPT ![job[w].id].status = to, ![job[w].id].prev = prev] ELSE tenant
Put(w, to) ==
    tenant' = IF Live(job[w].id) THEN [tenant EXCEPT ![job[w].id].status = to] ELSE tenant

LegacySteps == {"legacy ensure", "legacy run", "legacy final"}

\* migrate_tenant: one lease per primary key, then the row is read.  check: the
\* schema is to be looked at before it is used.
JobLoad(w, i) ==
    /\ job[w].pc = "idle"
    /\ tenant[i].status \in {"new", "pending"}
    /\ \A v \in Workers : job[v].id = i => job[v].pc \in LegacySteps
    /\ job' = [job EXCEPT ![w] = [NoJob EXCEPT !.pc = "check", !.id = i, !.at = Home(i),
                  !.check = tenant[i].status = "new" /\ tenant[i].prev # "failed"]]
    /\ UNCHANGED <<tenant, schema, faults>> /\ Aside

\* Broken: a schema that has tables is taken over.
JobAdopt(w) ==
    /\ job[w].pc = "check"
    /\ Cas(w, {"new", "pending"}, "pending", "new")
    /\ IF Mine(w).status \in {"new", "pending"} THEN JobGoto(w, "create") ELSE JobDone(w)
    /\ UNCHANGED <<schema, faults>> /\ Aside

\* _provision: a new tenant whose schema has tables fails, any other is claimed.
JobCheck(w) ==
    /\ job[w].pc = "check"
    /\ IF job[w].check /\ At(w).relations
       THEN Cas(w, {"new"}, "failed", "new") /\ JobDone(w)
       ELSE JobGoto(w, "claim") /\ UNCHANGED tenant
    /\ UNCHANGED <<schema, faults>> /\ Aside

JobClaim(w) ==
    /\ job[w].pc = "claim"
    /\ Cas(w, {"new", "pending"}, "pending", "new")
    /\ IF Mine(w).status \in {"new", "pending"} THEN JobGoto(w, "create") ELSE JobDone(w)
    /\ UNCHANGED <<schema, faults>> /\ Aside

JobCreate(w) ==
    /\ job[w].pc = "create"
    /\ schema' = [schema EXCEPT ![job[w].at].exists = TRUE]
    /\ JobGoto(w, "migrate")
    /\ UNCHANGED <<tenant, faults>> /\ Aside

\* run_migrations and the plan after it: a schema that went is an error.
JobMigrate(w) ==
    /\ job[w].pc = "migrate"
    /\ IF At(w).exists
       THEN /\ schema' = [schema EXCEPT ![job[w].at].relations = TRUE]
            /\ JobGoto(w, "finish") /\ UNCHANGED tenant
       ELSE Cas(w, {"pending"}, "failed", "pending") /\ JobDone(w) /\ UNCHANGED schema
    /\ UNCHANGED faults /\ Aside

\* From here on the tenant is served from the schema of its row, and has rows in
\* its tables.
Serve(i) ==
    schema' = [schema EXCEPT ![Home(i)].data = @ \cup (IF schema[Home(i)].relations THEN {i} ELSE {})]

JobFinish(w) ==
    /\ job[w].pc = "finish"
    /\ Cas(w, {"pending"}, "active", "pending")
    /\ IF Mine(w).status = "pending" THEN Serve(job[w].id) ELSE UNCHANGED schema
    /\ JobDone(w)
    /\ UNCHANGED faults /\ Aside

\* A lost connection or a dead process: the row stays as it is.
JobDies(w) ==
    /\ job[w].pc # "idle"
    /\ faults < menu.faults /\ faults' = faults + 1
    /\ JobDone(w)
    /\ UNCHANGED <<tenant, schema>> /\ Aside

\* A migration that raises: tables were made, the tenant fails.
JobRaises(w) ==
    /\ job[w].pc \in {"migrate", "legacy run"} /\ At(w).exists
    /\ faults < menu.faults /\ faults' = faults + 1
    /\ schema' = [schema EXCEPT ![job[w].at].relations = TRUE]
    /\ IF job[w].pc = "migrate" THEN Cas(w, {"pending"}, "failed", "pending")
       ELSE Put(w, "failed")
    /\ JobDone(w)
    /\ Aside

\* A later release's run finds the schema of an active tenant gone.
JobMissing(i) ==
    /\ tenant[i].status = "active" /\ ~schema[Home(i)].exists
    /\ \A v \in Workers : job[v].id # i
    /\ tenant' = [tenant EXCEPT ![i].status = "failed", ![i].prev = "active"]
    /\ UNCHANGED <<schema, job, faults>> /\ Aside

\* No tenant is deactivated in this module.
Claimable == {"new", "active", "deactivated"}

\* migrate_schemas_legacy goes over the tenant it is given, or over the claimable
\* ones of a shard; without arguments those are the active shards.
LegacyTargets(arguments) ==
    {i \in Ids : tenant[i].status \in Claimable /\
                 (arguments = "none" => shard[tenant[i].shard] = "active")}

\* An UPDATE claims the row, no lease.
LegacyClaim(w, i, arguments) ==
    /\ job[w].pc = "idle"
    /\ i \in LegacyTargets(arguments)
    /\ tenant' = [tenant EXCEPT ![i].status = "pending", ![i].prev = tenant[i].status,
                                ![i].adopted = @ \/ tenant[i].status = "new"]
    /\ job' = [job EXCEPT ![w] = [NoJob EXCEPT !.pc = "legacy ensure", !.id = i,
                                               !.at = Home(i), !.prev = tenant[i].status]]
    /\ UNCHANGED <<schema, faults>> /\ Aside

\* It creates a new tenant's schema, uses the one that is there, and fails the
\* others; every later UPDATE goes by the primary key alone.
LegacyEnsure(w) ==
    /\ job[w].pc = "legacy ensure"
    /\ IF At(w).exists \/ job[w].prev = "new"
       THEN /\ schema' = [schema EXCEPT ![job[w].at].exists = TRUE]
            /\ JobGoto(w, "legacy run") /\ UNCHANGED tenant
       ELSE /\ Put(w, "failed")
            /\ JobDone(w) /\ UNCHANGED schema
    /\ UNCHANGED faults /\ Aside

\* Without its schema the executor works on the next one of the search path.
LegacyRun(w) ==
    /\ job[w].pc = "legacy run"
    /\ schema' = [schema EXCEPT ![job[w].at].relations = At(w).exists]
    /\ JobGoto(w, "legacy final")
    /\ UNCHANGED <<tenant, faults>> /\ Aside

LegacyFinal(w) ==
    /\ job[w].pc = "legacy final"
    /\ Put(w, "active")
    /\ IF Live(job[w].id) THEN Serve(job[w].id) ELSE UNCHANGED schema
    /\ JobDone(w)
    /\ UNCHANGED faults /\ Aside

\* create_tenant_schema
CreateTenantSchema(i) ==
    /\ Edit
    /\ Live(i) /\ ~schema[Home(i)].exists
    /\ schema' = [schema EXCEPT ![Home(i)].exists = TRUE]
    /\ UNCHANGED <<rowVars, req, unforgotten, overlapped>> /\ Calm

-----------------------------------------------------------------------------
(* drop_tenant_schema, by hand or from the queue.                           *)

DropQuiet == UNCHANGED <<rowVars, req, job, unforgotten, overlapped>>
DropGoto(d, pc) == drop' = [drop EXCEPT ![d].pc = pc]
DropDone(d) == drop' = [drop EXCEPT ![d] = NoDrop]

DropTask(d, at) ==
    /\ drop[d].pc = "idle" /\ at \in dropQueue
    /\ drop' = [drop EXCEPT ![d] = [pc |-> "live", at |-> at, queued |-> TRUE]]
    /\ dropQueue' = dropQueue \ {at}
    /\ UNCHANGED <<schema, edits, faults>> /\ DropQuiet

DropByHand(d, at) ==
    /\ drop[d].pc = "idle" /\ Edit
    /\ drop' = [drop EXCEPT ![d] = [pc |-> "live", at |-> at, queued |-> FALSE]]
    /\ UNCHANGED <<schema, dropQueue, faults>> /\ DropQuiet

\* A live tenant with this name on this shard refuses the command.
DropLive(d) ==
    /\ drop[d].pc = "live"
    /\ IF \E i \in Ids : Live(i) /\ Home(i) = drop[d].at THEN DropDone(d) ELSE DropGoto(d, "exists")
    /\ UNCHANGED <<schema, dropQueue, edits, faults>> /\ DropQuiet

DropExists(d) ==
    /\ drop[d].pc = "exists"
    /\ IF schema[drop[d].at].exists THEN DropGoto(d, "drop") ELSE DropDone(d)
    /\ UNCHANGED <<schema, dropQueue, edits, faults>> /\ DropQuiet

DropRun(d) ==
    /\ drop[d].pc = "drop"
    /\ schema' = [schema EXCEPT ![drop[d].at] = NoSchema]
    /\ DropDone(d)
    /\ UNCHANGED <<dropQueue, edits, faults>> /\ DropQuiet

\* acks_late: the message is delivered again when the whole worker died, but is
\* acknowledged when only the process of the task was killed.
DropDies(d) ==
    /\ drop[d].pc # "idle"
    /\ faults < menu.faults /\ faults' = faults + 1
    /\ \/ drop[d].queued /\ dropQueue' = dropQueue \cup {drop[d].at}
       \/ UNCHANGED dropQueue
    /\ DropDone(d)
    /\ UNCHANGED <<schema, edits>> /\ DropQuiet

-----------------------------------------------------------------------------
ThreadStep(t) ==
    \/ \E x \in DOMAIN Canon, s \in Shards :
          \/ \E h \in menu.hosts : \/ CreateFields(t, x, s, h)
                                  \/ \E force \in BOOLEAN : BootCheck(t, x, s, h, force)
          \/ AdminAdd(t, x, s)
    \/ CreateValidate(t) \/ CreateInsert(t) \/ BootTenant(t) \/ BootDomain(t)
    \/ \E h \in menu.domains :
          \/ \E i \in Ids : UpdateCheck(t, i, h)
          \/ \E pk \in 0..MaxDomains, i \in Ids \cup {Public}, p \in BOOLEAN :
                DomainForm(t, pk, i, h, p)
    \/ UpdateLoad(t) \/ DomainSave(t)
    \/ \E d \in dom : DomainDeleteLoad(t, d)
    \/ \E i \in Ids, b \in BOOLEAN : DestroyLoad(t, i, b)
    \/ DomainDelete(t) \/ DestroyCollect(t) \/ Destroy(t)

TableStep ==
    \/ \E h \in menu.domains : BootstrapPublic(h)
    \/ \E i \in Ids, s \in Shards : AdminMove(i, s)
    \/ \E i \in Ids : AdminConfirm(i) \/ CreateTenantSchema(i)
    \/ \E b \in BOOLEAN : SyncShards(b)
    \/ \E s \in Shards :
          \/ ShardActivate(s) \/ ShardDeactivate(s) \/ ShardDestroy(s) \/ ShardAdminDelete(s)
          \/ \E row \in Shards \cup {None}, b \in BOOLEAN : ShardAdminForm(row, s, b)
    \/ \E old \in {{}} \cup {{r} : r \in rules}, form \in menu.forms : RuleSave(old, form)
    \/ \E r \in rules : RuleToggle(r) \/ RuleDelete(r)

WorkerStep(w) ==
    \/ \E i \in Ids : JobLoad(w, i)
    \/ \E i \in Ids, arguments \in {"none", "some"} : LegacyClaim(w, i, arguments)
    \/ JobCheck(w) \/ JobClaim(w) \/ JobCreate(w) \/ JobMigrate(w) \/ JobFinish(w)
    \/ LegacyEnsure(w) \/ LegacyRun(w) \/ LegacyFinal(w)
    \/ JobRaises(w) \/ JobDies(w)

DropperStep(d) ==
    \/ \E at \in Shards \X Names : DropTask(d, at) \/ DropByHand(d, at)
    \/ DropLive(d) \/ DropExists(d) \/ DropRun(d) \/ DropDies(d)

Next ==
    /\ \/ \E t \in menu.threads : ThreadStep(t)
       \/ TableStep
       \/ \E i \in Ids : JobMissing(i)
       \/ \E w \in menu.workers : WorkerStep(w)
       \/ \E d \in menu.droppers : DropperStep(d)
    /\ UNCHANGED menu

Spec == Init /\ [][Next]_vars

-----------------------------------------------------------------------------
\* A tenant that went ACTIVE through the migrator is never served from a schema
\* that another tenant was served from, however often its name was used before:
\* deletes without a drop, drops that ran late, dead workers and stale jobs of a
\* deleted row included.  Two ways around it are the operator's: a confirmed (or
\* legacy) adoption, and a move to another shard.
NoInheritedData ==
    \A i \in Ids :
        tenant[i].status = "active" /\ ~tenant[i].moved /\ ~tenant[i].adopted
            => schema[Home(i)].data \subseteq {i}

\* The conflicts report misses no business domain that a stored rule reserves:
\* what the SQL filter leaves out, the matcher would not have matched.
ConflictsExact ==
    \A r \in rules :
        conflicts(r.rule) = {d \in dom : d.tenant # Public /\ matches(r.rule, d.host)}

\* A hostname that loses its row is invalidated by whatever takes the row from it
\* (a re-point, a deletion, the cascade of a tenant), though each of them knows the
\* host only as it loaded it.  The code's one exception: a host saved to a row that
\* another operation had loaded, which that operation cannot name.
RepointForgets == unforgotten \subseteq overlapped

\* drop_tenant_schema "only cleans up orphaned schemas": no tenant that is served
\* from the schema it was provisioned in loses it.
OnlyOrphansDropped ==
    [][\A i \in Ids :
          /\ tenant[i].status = "active" /\ ~tenant[i].moved /\ ~tenant[i].adopted
          /\ schema[Home(i)].exists
          => schema'[Home(i)].exists]_vars

==============================================================================
