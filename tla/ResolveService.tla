--------------------------- MODULE ResolveService ---------------------------
(* How a request thread finds the tenant of its host: snapshot cache, host    *)
(* gate, fill cap, single flight and the fail-open fallback                   *)
(* (tenants/resolver/service.py and throttle.py, get_tenant in                *)
(* tenants/middleware.py).  What the cache and the host registry hold over    *)
(* time is the matter of ResolveCache and HostRegistry; here the Domain rows  *)
(* do not change and both are truthful, when they answer at all.              *)
EXTENDS Integers, FiniteSetsExt, WorkerThreads

CONSTANTS
  Processes,
  ProcessOf,      \* the process each thread belongs to
  Hosts,
  Known,          \* hosts that have a Domain row
  Modes,          \* "off", "cache": snapshots only, "gate": with the registry
  FILLCAP_PER_SEC, FILLCAP_LOCAL_PER_SEC,
  MaxTime, MaxFaults        \* bounds of the model

ASSUME ResolveConstants ==
  /\ ProcessOf \in [Threads -> Processes]
  /\ Known \subseteq Hosts
  /\ Modes \subseteq {"off", "cache", "gate"}
  /\ {FILLCAP_PER_SEC, FILLCAP_LOCAL_PER_SEC, MaxTime, MaxFaults} \subseteq Nat
  /\ MaxFaults > 0

VARIABLES
  mode,
  req,         \* what each thread is doing
  cache,       \* cached answer per host: "miss", "neg" or "pos"
  inflight,    \* _inflight of each process: the leader of the host's slot
  now,         \* the second
  probe,       \* treg:probe:<now>, saturating one above the limit
  bucket,      \* the local bucket of each process: tokens and ts
  granted,     \* lookups admitted: by the counter this second, by each bucket
  faults

resolveVars == <<mode, req, cache, inflight, now, probe, bucket, granted, faults>>

---------------------------------------------------------------------------
(* Requests *)

\* role: in what capacity the thread queries the database ("lead": for its slot,
\* "own": for itself through _fill, "open": directly).  got: what the slot holds
\* for a follower, or what the thread's own resolver returned.  stop: a
\* control-flow exception hit this thread.
Request(pc, h, role, leader, got) ==
  [pc |-> pc, host |-> h, role |-> role, leader |-> leader, got |-> got,
   stop |-> FALSE]
Quiet == Request("idle", None, "none", None, "none")

Become(t, r) == req' = [req EXCEPT ![t] = r]
Goto(t, pc) == Become(t, [req[t] EXCEPT !.pc = pc])

Querying(t) == req[t].pc = "query"
Leads(t) == req[t].role = "lead"

\* The answers of resolve(): "tenant", "notfound" (the caller's not_found),
\* "deferred" (ResolveDeferred), "dberror" and "aborted" (the exception that
\* stops a thread: SystemExit, KeyboardInterrupt).
Answer(r, a) == [r EXCEPT !.pc = "answered", !.got = a, !.leader = None]
Answered(t) == req[t].pc = "answered"

\* The except clauses of resolve(): any other exception falls open to the
\* database.
Conclude(r, got) ==
  CASE got = "tenant"      -> Answer(r, "tenant")
    [] got = "absent"      -> Answer(r, "notfound")
    [] got = "operational" -> Answer(r, "dberror")
    [] OTHER               -> [r EXCEPT !.pc = "query", !.role = "open",
                                        !.leader = None, !.got = "none"]

\* resolver(), outside the slot.
OwnResolve(r) ==
  [r EXCEPT !.pc = "query", !.role = "own", !.leader = None, !.got = "none"]

ResolveInit ==
  /\ mode \in Modes
  /\ req = [t \in Threads |-> Quiet]
  /\ cache = [h \in Hosts |-> "miss"]
  /\ inflight = [p \in Processes |-> [h \in Hosts |-> None]]
  /\ now = 0
  /\ probe = 0
  /\ bucket = [p \in Processes |-> [tokens |-> 0, ts |-> 0]]
  /\ granted = [counter |-> 0, local |-> [p \in Processes |-> 0]]
  /\ faults = 0

Fault == faults < MaxFaults /\ faults' = faults + 1

---------------------------------------------------------------------------
(* resolve and _via_cache *)

Arrive(t, h) ==
  /\ req[t].pc = "idle"
  /\ Become(t, Request(IF mode = "off" THEN "query" ELSE "lookup", h,
                       IF mode = "off" THEN "open" ELSE "none", None, "none"))
  /\ UNCHANGED <<mode, cache, inflight, now, probe, bucket, granted, faults>>

\* get_snapshot.  A snapshot that expired, is held, or cannot be read is a miss.
Lookup(t) ==
  /\ req[t].pc = "lookup"
  /\ \E seen \in {"miss", cache[req[t].host]} :
       Become(t, CASE seen = "neg" -> Answer(req[t], "notfound")
                   [] seen = "pos" -> Answer(req[t], "tenant")
                   [] OTHER -> [req[t] EXCEPT !.pc = IF mode = "gate" THEN "gate" ELSE "join"])
  /\ UNCHANGED <<mode, cache, inflight, now, probe, bucket, granted, faults>>

\* An exception of the cache or gate code itself.
LookupFails(t) ==
  /\ req[t].pc \in {"lookup", "gate"}
  /\ Fault
  /\ Become(t, Conclude(req[t], "bug"))
  /\ UNCHANGED <<mode, cache, inflight, now, probe, bucket, granted>>

\* host_registry.check: a member may have lost its row already, a stranger is
\* rejected, and without the set (or without Redis) nothing is known.
Verdicts(h) == {"UNKNOWN", "MEMBER"} \cup (IF h \in Known THEN {} ELSE {"NONMEMBER"})

Gate(t) ==
  /\ req[t].pc = "gate"
  /\ \E verdict \in Verdicts(req[t].host) :
       Become(t, CASE verdict = "NONMEMBER" -> Answer(req[t], "notfound")
                   [] verdict = "MEMBER" -> [req[t] EXCEPT !.pc = "join"]
                   [] OTHER -> [req[t] EXCEPT !.pc = "cap"])
  /\ UNCHANGED <<mode, cache, inflight, now, probe, bucket, granted, faults>>

Decide(t, allowed) ==
  Become(t, IF allowed THEN [req[t] EXCEPT !.pc = "join"] ELSE Answer(req[t], "deferred"))

\* Mutant: the limit itself is not counted.
CounterAllowLate(t) ==
  /\ req[t].pc = "cap"
  /\ probe' = Min({probe + 1, FILLCAP_PER_SEC + 2})
  /\ LET allowed == probe' <= FILLCAP_PER_SEC + 1
     IN /\ Decide(t, allowed)
        /\ granted' = [granted EXCEPT !.counter = @ + IF allowed THEN 1 ELSE 0]
  /\ UNCHANGED <<mode, cache, inflight, now, bucket, faults>>

\* FillCap.allow: INCR of the second's counter, shared by all processes.
CounterAllow(t) ==
  /\ req[t].pc = "cap"
  /\ probe' = Min({probe + 1, FILLCAP_PER_SEC + 1})
  /\ LET allowed == probe' <= FILLCAP_PER_SEC
     IN /\ Decide(t, allowed)
        /\ granted' = [granted EXCEPT !.counter = @ + IF allowed THEN 1 ELSE 0]
  /\ UNCHANGED <<mode, cache, inflight, now, bucket, faults>>

\* _LocalBucket.allow, when Redis fails.
LocalAllow(t) ==
  LET p      == ProcessOf[t]
      tokens == Min({Max({1, FILLCAP_LOCAL_PER_SEC}),
                     bucket[p].tokens + (now - bucket[p].ts) * FILLCAP_LOCAL_PER_SEC})
      taken  == IF tokens >= 1 THEN 1 ELSE 0
  IN /\ req[t].pc = "cap"
     /\ bucket' = [bucket EXCEPT ![p] = [tokens |-> tokens - taken, ts |-> now]]
     /\ granted' = [granted EXCEPT !.local[p] = @ + taken]
     /\ Decide(t, taken = 1)
     /\ UNCHANGED <<mode, cache, inflight, now, probe, faults>>

---------------------------------------------------------------------------
(* single_flight *)

\* Mutant: the slot is read before the lock is taken and set after it.
JoinUnlocked(t) ==
  LET p == ProcessOf[t]
      h == req[t].host
  IN /\ req[t].pc = "join"
     /\ \/ /\ Become(t, [req[t] EXCEPT !.pc = "query", !.role = "lead"])
           /\ inflight' = [inflight EXCEPT ![p][h] = t]
        \/ /\ inflight[p][h] # None
           /\ Become(t, [req[t] EXCEPT !.pc = "wait", !.leader = inflight[p][h]])
           /\ UNCHANGED inflight
     /\ UNCHANGED <<mode, cache, now, probe, bucket, granted, faults>>

\* Under the lock: lead the host's slot, or follow the thread that does.
Join(t) ==
  LET p == ProcessOf[t]
      h == req[t].host
  IN /\ req[t].pc = "join"
     /\ IF inflight[p][h] = None
        THEN /\ Become(t, [req[t] EXCEPT !.pc = "query", !.role = "lead"])
             /\ inflight' = [inflight EXCEPT ![p][h] = t]
        ELSE /\ Become(t, [req[t] EXCEPT !.pc = "wait", !.leader = inflight[p][h]])
             /\ UNCHANGED inflight
     /\ UNCHANGED <<mode, cache, now, probe, bucket, granted, faults>>

\* resolver() returned or raised: the leader's outcome goes into its slot, any
\* other thread goes on with it.
Outcome(t, got) ==
  Become(t, IF Leads(t) THEN [req[t] EXCEPT !.pc = "pop", !.got = got]
            ELSE Conclude(req[t], got))

\* _resolve_tenant: the Domain row decides.  Through _fill the answer is cached
\* before it is returned.
Query(t) ==
  LET found == IF req[t].host \in Known THEN "tenant" ELSE "absent"
  IN /\ Querying(t)
     /\ IF req[t].role = "open" THEN Become(t, Conclude(req[t], found))
        ELSE Become(t, [req[t] EXCEPT !.pc = "store", !.got = found])
     /\ UNCHANGED <<mode, cache, inflight, now, probe, bucket, granted, faults>>

\* Every psycopg error and django's OperationalError surface; its InterfaceError
\* is one of the "other exceptions", except on the fallback itself.
QueryFails(t) ==
  /\ Querying(t)
  /\ Fault
  /\ \E error \in {"operational", "interface"} :
       IF req[t].role = "open" THEN Become(t, Answer(req[t], "dberror"))
       ELSE Outcome(t, error)
  /\ UNCHANGED <<mode, cache, inflight, now, probe, bucket, granted>>

Fresh(got) == IF got = "tenant" THEN "pos" ELSE "neg"

\* put or store_miss, with nx; it may be declined, or be lost with Redis.
Store(t) ==
  /\ req[t].pc = "store"
  /\ \E written \in {cache[req[t].host], Fresh(req[t].got)} :
       cache' = [cache EXCEPT ![req[t].host] = IF @ = "miss" THEN written ELSE @]
  /\ Outcome(t, req[t].got)
  /\ UNCHANGED <<mode, inflight, now, probe, bucket, granted, faults>>

StoreFails(t) ==
  /\ req[t].pc = "store"
  /\ Fault
  /\ Outcome(t, "bug")
  /\ UNCHANGED <<mode, cache, inflight, now, probe, bucket, granted>>

\* The finally clause, under the lock.
Pop(t) ==
  /\ req[t].pc = "pop"
  /\ inflight' = [inflight EXCEPT ![ProcessOf[t]][req[t].host] = None]
  /\ Goto(t, "wake")
  /\ UNCHANGED <<mode, cache, now, probe, bucket, granted, faults>>

Followers(t) == {f \in Threads : req[f].pc = "wait" /\ req[f].leader = t}

\* What a thread does with the slot once its event is set.
Shared(r, got) == IF got = "unset" THEN OwnResolve(r) ELSE Conclude(r, got)

\* Mutant: BaseException is shared too.
WakeSharingAll(t) ==
  /\ req[t].pc = "wake"
  /\ req' = [f \in Threads |->
       CASE f \in Followers(t) \cup {t} ->
              IF req[t].got = "unset" THEN Answer(req[f], "aborted")
              ELSE Conclude(req[f], req[t].got)
         [] OTHER -> req[f]]
  /\ UNCHANGED <<mode, cache, inflight, now, probe, bucket, granted, faults>>

\* event.set: nothing changes the slot afterwards, so every follower has its
\* outcome from here on.  A stopped leader goes on unwinding.
Wake(t) ==
  /\ req[t].pc = "wake"
  /\ req' = [f \in Threads |->
       CASE f = t -> IF req[t].got = "unset" THEN Answer(req[t], "aborted")
                     ELSE Conclude(req[t], req[t].got)
         [] f \in Followers(t) -> Shared(req[f], req[t].got)
         [] OTHER -> req[f]]
  /\ UNCHANGED <<mode, cache, inflight, now, probe, bucket, granted, faults>>

\* Mutant: event.wait() without a timeout.
WaitForever(t) == FALSE /\ UNCHANGED resolveVars

\* The leader is slower than wait_timeout.
WaitTimeout(t) ==
  /\ req[t].pc = "wait"
  /\ faults' = Min({faults + 1, MaxFaults})
  /\ Become(t, OwnResolve(req[t]))
  /\ UNCHANGED <<mode, cache, inflight, now, probe, bucket, granted>>

\* A control-flow exception stops the thread, a leader inside its resolver.
Stopped(t) ==
  /\ req[t].pc \notin {"idle", "answered", "pop", "wake"}
  /\ Fault
  /\ LET r == [req[t] EXCEPT !.stop = TRUE]
     IN Become(t, IF Leads(t) THEN [r EXCEPT !.pc = "pop", !.got = "unset"]
                  ELSE Answer(r, "aborted"))
  /\ UNCHANGED <<mode, cache, inflight, now, probe, bucket, granted>>

---------------------------------------------------------------------------
(* The environment *)

\* A snapshot expires, or is dropped by an invalidation.
Evict(h) ==
  /\ cache[h] # "miss"
  /\ cache' = [cache EXCEPT ![h] = "miss"]
  /\ UNCHANGED <<mode, req, inflight, now, probe, bucket, granted, faults>>

\* The next second has a counter of its own.
Tick ==
  /\ now < MaxTime
  /\ now' = now + 1
  /\ probe' = 0
  /\ granted' = [granted EXCEPT !.counter = 0]
  /\ UNCHANGED <<mode, req, cache, inflight, bucket, faults>>

ResolveStep(t) ==
  \/ Lookup(t) \/ LookupFails(t) \/ Gate(t) \/ CounterAllow(t) \/ LocalAllow(t)
  \/ Join(t) \/ Query(t) \/ QueryFails(t) \/ Store(t) \/ StoreFails(t)
  \/ Pop(t) \/ Wake(t) \/ WaitTimeout(t) \/ Stopped(t)

\* What a thread does without anybody's help.  A leader's query may hang.
Unaided(t) ==
  \/ Lookup(t) \/ Gate(t) \/ CounterAllow(t) \/ Join(t) \/ Store(t) \/ Pop(t)
  \/ Wake(t) \/ WaitTimeout(t) \/ (~Leads(t) /\ Query(t))

---------------------------------------------------------------------------
(* Properties *)

\* The answer is a fact about the host: "not found" is said only of a host
\* without a Domain row, never because the database, Redis or the budget failed
\* or because another thread was stopped; only a stopped thread is aborted.
HonestAnswer ==
  \A t \in Threads : Answered(t) =>
    /\ req[t].got = "notfound" => req[t].host \notin Known
    /\ req[t].got = "tenant" => req[t].host \in Known
    /\ req[t].got = "aborted" => req[t].stop

\* single_flight: one thread of a process leads a host at a time, and as long as
\* nobody timed out, failed or was stopped no other thread of it asks the
\* database for that host.
Coalesced ==
  \A p \in Processes, h \in Hosts :
    LET asking == {t \in Threads : ProcessOf[t] = p /\ req[t].host = h /\ Querying(t)}
    IN \A t, u \in asking :
         (Leads(t) /\ Leads(u)) \/ (mode # "off" /\ faults = 0) => t = u

\* fill_cap: while the registry cannot tell members from strangers, at most
\* FILLCAP_PER_SEC lookups a second pass in the whole cluster, and where Redis
\* cannot count them each process passes no more than its rate allows.
BudgetKept ==
  /\ granted.counter <= FILLCAP_PER_SEC
  /\ \A p \in Processes : granted.local[p] <= FILLCAP_LOCAL_PER_SEC * now

\* Every request is answered, also when the thread it waits for hangs in the
\* database, fails or is stopped; the only one that may hang is a leader whose
\* own query never returns.
EveryoneAnswered ==
  \A t \in Threads :
    \/ []<>(req[t].pc \in {"idle", "answered"})
    \/ <>[](Querying(t) /\ Leads(t))
=============================================================================
