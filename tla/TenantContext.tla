---------------------------- MODULE TenantContext ----------------------------
(* Which database and schema a thread works on: the current_db variable and   *)
(* the schema of each of its connections (tenants/context.py), as the request *)
(* middlewares, Celery tasks and nested contexts move them, and what the      *)
(* database router, the cache keys, the task headers and the schema-bound     *)
(* logins read from them.  Both axes belong to one thread: ContextVar and     *)
(* django.db.connections are thread-local.                                    *)
EXTENDS Integers, Sequences, WorkerThreads

CONSTANTS
  Web,            \* threads that serve requests; the others run tasks
  Tenants, Public,
  Shards,         \* aliases of settings.DATABASES other than "default"
  Home,           \* the shard alias of each tenant; it may have left DATABASES
  Overrides,      \* values of the database= argument in use, None among them
  Depths          \* bounds of the model: how deep each thread nests contexts,
                  \* 0 for a thread that does nothing

Aliases == Shards \cup {"default"}
Schemas == Tenants \cup {Public}

ASSUME ContextConstants ==
  /\ Web \subseteq Threads
  /\ Public \notin Tenants
  /\ None \notin Aliases /\ None \notin Schemas
  /\ \A x \in Tenants : Home[x] # "default"        \* Tenant.clean
  /\ Overrides \subseteq Aliases \cup {None}
  /\ Depths \subseteq [Threads -> Nat]

VARIABLES
  depth,      \* one of Depths
  phase,      \* "idle", "resolving", "gate", "view" or "task"
  serving,    \* the tenant of the request
  db,         \* current_db
  schema,     \* schema_name of each connection of the thread
  frames      \* the context managers the thread is inside of

contextVars == <<depth, phase, serving, db, schema, frames>>

\* A frame of use_alias has no schema to restore.  free: database= was given, or
\* the frame is a public task inside of a request.
Frame(a, to, prev, token, free) ==
  [on |-> a, to |-> to, prev |-> prev, token |-> token, free |-> free]
Switches(f, a) == f.on = a /\ f.to # None

\* The innermost frame, and those around it.
Inner(fs) == fs[Len(fs)]
Outer(fs) == SubSeq(fs, 1, Len(fs) - 1)

ContextInit ==
  /\ depth \in Depths
  /\ phase = [t \in Threads |-> "idle"]
  /\ serving = [t \in Threads |-> None]
  /\ db = [t \in Threads |-> None]
  /\ schema = [t \in Threads |-> [a \in Aliases |-> Public]]
  /\ frames = [t \in Threads |-> <<>>]

---------------------------------------------------------------------------
(* The context managers *)

use_alias(t, a, free) ==
  /\ frames' = [frames EXCEPT ![t] = Append(@, Frame(a, None, None, db[t], free))]
  /\ db' = [db EXCEPT ![t] = a]
  /\ UNCHANGED schema

\* _switch: the connection is looked up first, so an alias outside DATABASES
\* raises before anything changes.
switch(t, a, s, free) ==
  /\ a \in Aliases
  /\ frames' = [frames EXCEPT ![t] = Append(@, Frame(a, s, schema[t][a], db[t], free))]
  /\ db' = [db EXCEPT ![t] = a]
  /\ schema' = [schema EXCEPT ![t][a] = s]

tenant_context(t, x, database) ==
  switch(t, IF database = None THEN Home[x] ELSE database, x, database # None)

\* schema_context resolves the database of a schema name through the registry.
ResolveDatabase(s, database) ==
  IF database # None THEN database ELSE IF s = Public THEN "default" ELSE Home[s]
schema_context(t, s, database) ==
  switch(t, ResolveDatabase(s, database), s, database # None)

\* Mutant: the upstream quirk, the default connection's schema is restored onto
\* the target.
RestoredUpstream(t, f) ==
  IF f.to = None THEN schema[t] ELSE [schema[t] EXCEPT ![f.on] = schema[t]["default"]]

\* The finally clauses of _switch and use_alias.
Restored(t, f) ==
  IF f.to = None THEN schema[t] ELSE [schema[t] EXCEPT ![f.on] = f.prev]

---------------------------------------------------------------------------
(* What is read from the two axes *)

\* Mutant: active_alias, which takes "no context" for "default".
CurrentSchemaNameActive(t) == schema[t][IF db[t] = None THEN "default" ELSE db[t]]

\* current_schema_name
CurrentSchemaName(t) == IF db[t] = None THEN Public ELSE schema[t][db[t]]

\* The schema in a key of the cache framework, and in one made by hand, which
\* tenant_token refuses to make on public.
Refused == "refused"
make_key(t) == CurrentSchemaName(t)
tenant_token(t) == IF CurrentSchemaName(t) = Public THEN Refused ELSE CurrentSchemaName(t)

\* headers_with_schema: a header that is there already stays.
HeaderSchema(t, given) == IF given = None THEN CurrentSchemaName(t) ELSE given

\* SchemaBoundSessionMiddleware and SchemaBoundJWTAuthentication compare the
\* schema of a login with the default connection; the management endpoints
\* require public there.
SessionValid(t, s) == s = schema[t]["default"]
TokenValid(t, s) == s = schema[t]["default"]
ManagementHost(t) == schema[t]["default"] = Public

\* A model is "shared" (of a shared app only), "quasi" (of contenttypes, auth or
\* admin), "strict" (of a strictly routed app), or "allowlisted": one of those on
\* PUBLIC_MODEL_ALLOWLIST.
StrictlyRouted(m) == m \in {"strict", "allowlisted"}

\* Mutant: only a query without a context is looked at.
GuardPublicUnbound(t, m, a) == m = "strict" /\ db[t] = None /\ schema[t][a] = Public

\* _guard_public in its default mode.
GuardPublic(t, m, a) == m = "strict" /\ schema[t][a] = Public

\* db_for_read, db_for_write.
Route(t, m) ==
  LET alias == IF db[t] = None THEN "default" ELSE db[t]
  IN IF m = "shared" THEN "default"
     ELSE IF GuardPublic(t, m, alias) THEN Refused
     ELSE IF db[t] = None /\ StrictlyRouted(m) THEN Refused
     ELSE alias

\* allow_migrate for the connection a: shared apps on default's public schema,
\* tenant apps in tenant schemas on shards, and no data migration (one without
\* a model) of a strictly routed app on public.
AllowMigrate(t, a, m, data) ==
  /\ ~(data /\ schema[t][a] = Public /\ StrictlyRouted(m))
  /\ schema[t][a] # Public => m # "shared"
  /\ (schema[t][a] = Public) = (a = "default")

---------------------------------------------------------------------------
(* The request *)

\* django-tenants puts the default connection on public first.
BeginRequest(t) ==
  /\ t \in Web
  /\ depth[t] > 0
  /\ phase[t] = "idle"
  /\ phase' = [phase EXCEPT ![t] = "resolving"]
  /\ schema' = [schema EXCEPT ![t]["default"] = Public]
  /\ UNCHANGED <<depth, serving, db, frames>>

\* The host's tenant is set on the default connection.
SetTenant(t, x) ==
  /\ phase[t] = "resolving"
  /\ phase' = [phase EXCEPT ![t] = "gate"]
  /\ serving' = [serving EXCEPT ![t] = x]
  /\ schema' = [schema EXCEPT ![t]["default"] = x]
  /\ UNCHANGED <<depth, db, frames>>

\* An error response before the view.  django-tenants leaves the default
\* connection as it is.
Respond(t) ==
  /\ phase[t] \in {"resolving", "gate"}
  /\ phase' = [phase EXCEPT ![t] = "idle"]
  /\ serving' = [serving EXCEPT ![t] = None]
  /\ UNCHANGED <<depth, db, schema, frames>>

Statuses == {"new", "pending", "active", "failed", "deactivated", "maintenance"}

\* The status gate of ShardAwareTenantMiddleware: admin is a path below /admin.
Passes(x, status, admin) ==
  x = Public \/ status = "active" \/ (admin /\ status \in {"failed", "maintenance"})

GateRefuses(t, status, admin) ==
  /\ phase[t] = "gate"
  /\ ~Passes(serving[t], status, admin)
  /\ Respond(t)

\* TenantShardRoutingMiddleware: a shard that left DATABASES raises here.
EnterView(t, status, admin) ==
  /\ phase[t] = "gate"
  /\ Passes(serving[t], status, admin)
  /\ IF serving[t] = Public THEN use_alias(t, "default", FALSE)
     ELSE tenant_context(t, serving[t], None)
  /\ phase' = [phase EXCEPT ![t] = "view"]
  /\ UNCHANGED <<depth, serving>>

RoutingFails(t, status, admin) ==
  /\ phase[t] = "gate"
  /\ serving[t] # Public
  /\ Passes(serving[t], status, admin)
  /\ Home[serving[t]] \notin Aliases
  /\ Respond(t)

---------------------------------------------------------------------------
(* Tasks and nested contexts *)

\* TenantTask.__call__ with a header; a tenant that cannot be found raises.
EnterTask(t, header) ==
  IF header = Public THEN use_alias(t, "default", phase[t] = "view" /\ serving[t] # Public)
  ELSE tenant_context(t, header, None)

\* A worker runs a message, or a command enters its tenant.
BeginTask(t, header) ==
  /\ t \notin Web
  /\ depth[t] > 0
  /\ phase[t] = "idle"
  /\ EnterTask(t, header)
  /\ phase' = [phase EXCEPT ![t] = "task"]
  /\ UNCHANGED <<depth, serving>>

\* bootstrap_tenant seeds the admin of the tenant it made.
SeedAdmin(t, x) ==
  /\ t \notin Web
  /\ depth[t] > 0
  /\ phase[t] = "idle"
  /\ tenant_context(t, x, None)
  /\ phase' = [phase EXCEPT ![t] = "task"]
  /\ UNCHANGED <<depth, serving>>

Room(t) == phase[t] \in {"view", "task"} /\ Len(frames[t]) < depth[t]

\* TenantTask.apply: the eager call, with the caller's schema unless a header is
\* given.
EagerTask(t, given) ==
  /\ Room(t)
  /\ EnterTask(t, HeaderSchema(t, given))
  /\ UNCHANGED <<depth, phase, serving>>

\* TenantViewSet.create_admin: the console, on public, enters another tenant.
CreateAdmin(t, x) ==
  /\ Room(t)
  /\ phase[t] = "view" /\ ManagementHost(t)
  /\ tenant_context(t, x, None)
  /\ UNCHANGED <<depth, phase, serving>>

EnterTenant(t, x, database) ==
  /\ Room(t)
  /\ tenant_context(t, x, database)
  /\ UNCHANGED <<depth, phase, serving>>

EnterSchema(t, s, database) ==
  /\ Room(t)
  /\ schema_context(t, s, database)
  /\ UNCHANGED <<depth, phase, serving>>

\* The innermost block is left, by return or by an exception; an exception
\* leaves as many blocks as it is not caught in.  Leaving the outermost ends the
\* request or task, and the middleware puts the shard connection on public.
Leave(t) ==
  /\ frames[t] # <<>>
  /\ LET f == Inner(frames[t])
         restored == Restored(t, f)
     IN /\ schema' = [schema EXCEPT ![t] =
             IF phase[t] = "view" /\ Len(frames[t]) = 1 /\ f.to # None
             THEN [restored EXCEPT ![f.on] = Public] ELSE restored]
        /\ db' = [db EXCEPT ![t] = f.token]
  /\ frames' = [frames EXCEPT ![t] = Outer(@)]
  /\ IF Len(frames[t]) = 1
     THEN /\ phase' = [phase EXCEPT ![t] = "idle"]
          /\ serving' = [serving EXCEPT ![t] = None]
     ELSE UNCHANGED <<phase, serving>>
  /\ UNCHANGED depth

Nested(t) ==
  \/ \E given \in Schemas \cup {None} : EagerTask(t, given)
  \/ \E x \in Tenants : CreateAdmin(t, x) \/ \E database \in Overrides : EnterTenant(t, x, database)
  \/ \E s \in Schemas, database \in Overrides : EnterSchema(t, s, database)
  \/ Leave(t)

---------------------------------------------------------------------------
(* Properties *)

\* What a connection is on outside of all contexts: shards on public, default on
\* the tenant of the request.
Base(t, a) == IF a = "default" /\ phase[t] \in {"gate", "view"} THEN serving[t] ELSE Public

\* The contexts wire and restore both axes: current_db names the innermost
\* context's database, and every connection is on the schema of the innermost
\* context over it.  So nothing of one request or task is left for the next,
\* except what django-tenants leaves on default and resets itself.
BothAxes ==
  \A t \in Threads :
    /\ db[t] = IF frames[t] = <<>> THEN None ELSE Inner(frames[t]).on
    /\ \A a \in Aliases :
         LET over == {i \in DOMAIN frames[t] : Switches(frames[t][i], a)}
         IN IF over # {}
            THEN \E i \in over : /\ \A j \in over : j <= i
                                 /\ schema[t][a] = frames[t][i].to
            ELSE schema[t][a] = Base(t, a) \/ (a = "default" /\ t \in Web /\ phase[t] = "idle")

\* A query on a strictly routed model is refused or reaches the schema of a
\* tenant on that tenant's own shard, where the migrations of such models run,
\* and that tenant is the one of the innermost context.  Not covered: database=
\* overrides, and a task run eagerly for public inside a tenant's request, where
\* default is on the tenant's schema.
OwnData ==
  \A t \in Threads :
    LET a == Route(t, "strict")
    IN a # Refused /\ (\A i \in DOMAIN frames[t] : ~frames[t][i].free) =>
         /\ schema[t][a] = Inner(frames[t]).to
         /\ schema[t][a] \in Tenants
         /\ Home[schema[t][a]] = a
         /\ \A data \in BOOLEAN : AllowMigrate(t, a, "strict", data)

\* Cache keys and task headers name public, or a tenant the thread itself is
\* bound to: never the tenant that was served before.  When the request reaches
\* its view, the logins that are valid are those of the tenant it is for, and
\* the management endpoints open on the management host only.
KeysOwn ==
  \A t \in Threads :
    /\ \A s \in {make_key(t), tenant_token(t), HeaderSchema(t, None)} \ {Public, Refused} :
         \/ phase[t] = "view" /\ s = serving[t]
         \/ \E i \in DOMAIN frames[t] : s = frames[t][i].to
    /\ phase[t] = "view" /\ Len(frames[t]) = 1 =>
         /\ \A s \in Schemas : SessionValid(t, s) /\ TokenValid(t, s) <=> s = serving[t]
         /\ ManagementHost(t) <=> serving[t] = Public
=============================================================================
