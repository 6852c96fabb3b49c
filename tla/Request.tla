------------------------------- MODULE Request -------------------------------
(* The whole path of a request: ResolveService finds the tenant of the host   *)
(* and TenantContext routes the view to the tenant's shard and schema, while  *)
(* worker threads run tasks.  (ShardAwareTenantMiddleware and                 *)
(* TenantShardRoutingMiddleware in tenants/middleware.py.)                    *)
EXTENDS ResolveService, TenantContext

CONSTANT HostTenants      \* contents of the Domain table to consider

ASSUME RequestConstants == HostTenants \subseteq [Known -> Schemas]

VARIABLE hostTenant       \* the tenant each Domain row leads to

vars == <<resolveVars, contextVars, hostTenant>>

Init == ResolveInit /\ ContextInit /\ hostTenant \in HostTenants

\* process_request: default goes to public, then get_tenant.
Receive(t, h) == BeginRequest(t) /\ Arrive(t, h)

Resolving(t) == ResolveStep(t) /\ UNCHANGED contextVars

Done(t) == req' = [req EXCEPT ![t] = Quiet]
ResolveRest == <<mode, cache, inflight, now, probe, bucket, granted, faults>>

\* The tenant goes onto the request and the default connection.
Found(t) ==
  /\ Answered(t)
  /\ req[t].got = "tenant"
  /\ SetTenant(t, hostTenant[req[t].host])
  /\ Done(t)
  /\ UNCHANGED ResolveRest

\* 404 for "notfound", 503 for "deferred", 500 for "dberror"; a stopped thread
\* unwinds without a response.
NotServed(t) ==
  /\ Answered(t)
  /\ req[t].got # "tenant"
  /\ Respond(t)
  /\ Done(t)
  /\ UNCHANGED ResolveRest

Serving(t) ==
  /\ \/ \E status \in Statuses, admin \in BOOLEAN :
          GateRefuses(t, status, admin) \/ EnterView(t, status, admin)
            \/ RoutingFails(t, status, admin)
     \/ Nested(t)
     \/ \E header \in Schemas : BeginTask(t, header)
     \/ \E x \in Tenants : SeedAdmin(t, x)
  /\ UNCHANGED resolveVars

Next ==
  /\ \/ \E t \in Threads :
          \/ \E h \in Hosts : Receive(t, h)
          \/ Resolving(t) \/ Found(t) \/ NotServed(t) \/ Serving(t)
     \/ ((\E h \in Hosts : Evict(h)) \/ Tick) /\ UNCHANGED contextVars
  /\ UNCHANGED hostTenant

\* Threads are scheduled, followers time out, and a query other than a leader's
\* returns.
Spec ==
  /\ Init /\ [][Next]_vars
  /\ \A t \in Threads : WF_vars(Unaided(t) /\ UNCHANGED <<contextVars, hostTenant>>)
=============================================================================
