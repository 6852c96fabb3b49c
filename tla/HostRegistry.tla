---------------------------- MODULE HostRegistry ----------------------------
(***************************************************************************)
(* The host gate of tenant resolution (tenants/resolver/registry.py): a     *)
(* Redis SET of every valid hostname.  A host that is not in the SET is      *)
(* refused without a look at the database; an absent SET lets every host     *)
(* through and asks for a rebuild.  The SET is maintained by the on_commit   *)
(* callbacks of Domain changes and by the reconcile task, which rebuilds it  *)
(* under a lock; a marker keeps bursts from enqueueing the task many times.  *)
(* WARM_ENABLED and GATE_ENABLED are on.                                   *)
(***************************************************************************)
EXTENDS Naturals, FiniteSets

CONSTANTS
    Hosts, Writers, Workers,
    None,
    MaxWrites,     \* bound: committed Domain changes
    MaxFaults,     \* bound: kinds of fault that happen, each once
    MaxQueue,      \* bound: copies of the task waiting in the broker
    Passes         \* rebuilds of one reconcile (3 in the code)

ASSUME RegistryConstants ==
    /\ None \notin Workers \cup Hosts
    /\ MaxWrites \in Nat /\ MaxFaults \in Nat
    /\ MaxQueue \in Nat \ {0} /\ Passes \in Nat \ {0}

VARIABLES
    domains,  \* hostnames of the Domain rows
    hosts,    \* treg:hosts; Redis has no empty set, so {} is an absent key
    armed,    \* treg:hosts has a TTL
    build,    \* treg:hosts:new
    dirty,    \* treg:hosts:dirty
    lock,     \* treg:warming
    marker,   \* treg:warm_pending
    queue,    \* reconcile tasks in the broker
    wr,       \* writers running their callbacks
    wk,       \* Celery workers running the task
    touched,  \* history: hostnames some Domain change was about
    writes,
    faults    \* history: the kinds of fault that happened

db == <<domains, touched, writes>>
redis == <<hosts, armed, build, dirty, lock, marker>>
vars == <<db, redis, queue, wr, wk, faults>>

WriterIdle == [pc |-> "idle", host |-> None, old |-> None]
WorkerIdle == [pc |-> "idle", pass |-> 0, before |-> 0, todo |-> {}]

\* Any set of domains; the SET is absent or was rebuilt from them.
Init ==
    /\ domains \in SUBSET Hosts
    /\ hosts \in {{}, domains}
    /\ armed = FALSE /\ build = {} /\ dirty = 0 /\ lock = None
    /\ marker = FALSE /\ queue = 0
    /\ wr = [w \in Writers |-> WriterIdle]
    /\ wk = [k \in Workers |-> WorkerIdle]
    /\ touched = {} /\ writes = 0 /\ faults = {}

\* A Redis error, a publish the broker loses, a worker that is killed.
\* "arm": the SET expired between a writer's EXISTS and its SADD; "overlap": the
\* lock expired under a reconcile longer than WARM_LOCK_SECONDS.
FaultKinds == {"redis", "broker", "worker", "arm", "overlap"}

Fault(kind) ==
    /\ kind \notin faults
    /\ Cardinality(faults) < MaxFaults
    /\ faults' = faults \cup {kind}

\* trigger_warm: SET NX, then the publish, which a broker that is down loses.
\* The bound on the queue merges a copy that would only wait behind others.
Trigger ==
    IF marker THEN UNCHANGED <<marker, queue, faults>>
    ELSE /\ marker' = TRUE
         /\ \/ /\ queue' = IF queue < MaxQueue THEN queue + 1 ELSE queue
               /\ UNCHANGED faults
            \/ UNCHANGED queue /\ Fault("broker")

-----------------------------------------------------------------------------
(* A Domain change and its callbacks.                                      *)

At(w, label) == wr[w].pc = label
Step(w, label) == wr' = [wr EXCEPT ![w].pc = label]

Commit(w, first, host, old, rows) ==
    /\ At(w, "idle")
    /\ writes < MaxWrites
    /\ writes' = writes + 1
    /\ domains' = rows
    /\ touched' = touched \cup ({host, old} \ {None})
    /\ wr' = [wr EXCEPT ![w] = [pc |-> first, host |-> host, old |-> old]]
    /\ UNCHANGED <<redis, queue, wk, faults>>

Create(w, h) == h \notin domains /\ Commit(w, "exists", h, None, domains \cup {h})

Remove(w, h) == h \in domains /\ Commit(w, "srem", h, None, domains \ {h})

\* Domain.save with another hostname runs the receiver for the new one.
Rename(w, old, new) ==
    /\ old \in domains /\ new \notin domains
    /\ Commit(w, "exists", new, old, (domains \ {old}) \cup {new})

\* Broken: adds without looking whether the SET exists.
ExistsAlways(w) ==
    /\ At(w, "exists")
    /\ Step(w, "sadd")
    /\ UNCHANGED <<db, redis, queue, wk, faults>>

\* _apply_membership("sadd"): the SET is never started by an addition.
Exists(w) ==
    /\ At(w, "exists")
    /\ Step(w, IF hosts # {} THEN "sadd" ELSE "bump")
    /\ UNCHANGED <<db, redis, queue, wk, faults>>

Sadd(w) ==
    /\ At(w, "sadd")
    /\ hosts' = hosts \cup {wr[w].host}
    /\ Step(w, "bump")
    /\ UNCHANGED <<db, armed, build, dirty, lock, marker, queue, wk, faults>>

\* _apply_membership("srem"); Redis drops a SET with its last member.
Srem(w) ==
    /\ At(w, "srem")
    /\ hosts' = hosts \ {wr[w].host}
    /\ armed' = (armed /\ hosts' # {})
    /\ Step(w, "bump")
    /\ UNCHANGED <<db, build, dirty, lock, marker, queue, wk, faults>>

BumpDirty(w) ==
    /\ At(w, "bump")
    /\ dirty' = dirty + 1
    /\ Step(w, "arm")
    /\ UNCHANGED <<db, hosts, armed, build, lock, marker, queue, wk, faults>>

\* EXPIRE does nothing to a key that is absent.
Arm(w) ==
    /\ At(w, "arm")
    /\ armed' = (hosts # {})
    /\ Step(w, "trigger")
    /\ UNCHANGED <<db, hosts, build, dirty, lock, marker, queue, wk, faults>>

TriggerWarm(w) ==
    /\ At(w, "trigger")
    /\ Trigger
    /\ wr' = [wr EXCEPT ![w] = WriterIdle]
    /\ UNCHANGED <<db, hosts, armed, build, dirty, lock, wk>>

\* add, remove, arm and trigger_warm each swallow their own errors: what is left
\* of that call is skipped and the next one runs.
RedisError(w) ==
    /\ ~At(w, "idle")
    /\ Fault("redis")
    /\ wr' = [wr EXCEPT ![w] = IF At(w, "trigger") THEN WriterIdle
                               ELSE [@ EXCEPT !.pc = IF At(w, "arm") THEN "trigger"
                                                     ELSE "arm"]]
    /\ UNCHANGED <<db, redis, queue, wk>>

Callback(w) ==
    Exists(w) \/ Sadd(w) \/ Srem(w) \/ BumpDirty(w) \/ Arm(w) \/ TriggerWarm(w)

Write(w) ==
    \/ \E h \in Hosts : Create(w, h) \/ Remove(w, h)
    \/ \E old, new \in Hosts : Rename(w, old, new)

-----------------------------------------------------------------------------
(* The reconcile task: run_locked, reconcile, _rebuild_once.                *)

In(k, label) == wk[k].pc = label
Move(k, label) == wk' = [wk EXCEPT ![k].pc = label]
Reads == UNCHANGED <<db, redis, queue, wr, faults>>

\* A worker takes the task; it returns at once if another holds the lock.
Acquire(k) ==
    /\ In(k, "idle")
    /\ queue > 0
    /\ queue' = queue - 1
    /\ IF lock = None
       THEN lock' = k /\ wk' = [wk EXCEPT ![k] = [WorkerIdle EXCEPT !.pc = "before"]]
       ELSE UNCHANGED <<lock, wk>>
    /\ UNCHANGED <<db, hosts, armed, build, dirty, marker, wr, faults>>

Before(k) ==
    /\ In(k, "before")
    /\ wk' = [wk EXCEPT ![k].pc = "clear", ![k].before = dirty, ![k].pass = @ + 1]
    /\ Reads

Clear(k) ==
    /\ In(k, "clear")
    /\ build' = {}
    /\ Move(k, "scan")
    /\ UNCHANGED <<db, hosts, armed, dirty, lock, marker, queue, wr, faults>>

\* One query; its rows arrive in chunks.
Scan(k) ==
    /\ In(k, "scan")
    /\ wk' = [wk EXCEPT ![k].pc = "flush", ![k].todo = domains]
    /\ Reads

Flush(k) ==
    /\ In(k, "flush")
    /\ \E chunk \in SUBSET wk[k].todo \ {{}} :
          /\ build' = build \cup chunk
          /\ wk' = [wk EXCEPT ![k].todo = @ \ chunk]
    /\ UNCHANGED <<db, hosts, armed, dirty, lock, marker, queue, wr, faults>>

Built(k) ==
    /\ In(k, "flush")
    /\ wk[k].todo = {}
    /\ Move(k, IF build # {} THEN "rename" ELSE "delete")
    /\ Reads

\* RENAME replaces the SET and its TTL; it fails when its source is gone.
RenameSet(k) ==
    /\ In(k, "rename")
    /\ IF build = {} THEN Move(k, "release") /\ UNCHANGED redis
       ELSE /\ hosts' = build /\ armed' = FALSE /\ build' = {}
            /\ Move(k, "check")
            /\ UNCHANGED <<dirty, lock, marker>>
    /\ UNCHANGED <<db, queue, wr, faults>>

DeleteSet(k) ==
    /\ In(k, "delete")
    /\ hosts' = {} /\ armed' = FALSE
    /\ Move(k, "check")
    /\ UNCHANGED <<db, build, dirty, lock, marker, queue, wr, faults>>

\* Broken: one rebuild, whatever happened meanwhile.
CheckNothing(k) == In(k, "check") /\ Move(k, "release") /\ Reads

\* The dirty-recheck; the sweep that follows is in ResolveCache.
Check(k) ==
    /\ In(k, "check")
    /\ Move(k, IF dirty = wk[k].before \/ wk[k].pass = Passes THEN "release" ELSE "before")
    /\ Reads

\* Fenced: deletes the lock only if it is still this run's.
Release(k) ==
    /\ In(k, "release")
    /\ lock' = IF lock = k THEN None ELSE lock
    /\ wk' = [wk EXCEPT ![k] = WorkerIdle]
    /\ UNCHANGED <<db, hosts, armed, build, dirty, marker, queue, wr, faults>>

Task(k) ==
    \/ Acquire(k) \/ Before(k) \/ Clear(k) \/ Scan(k) \/ Flush(k) \/ Built(k)
    \/ RenameSet(k) \/ DeleteSet(k) \/ Check(k) \/ Release(k)

\* An error inside reconcile still reaches the finally that releases the lock.
TaskError(k) ==
    /\ wk[k].pc \notin {"idle", "release"}
    /\ Fault("redis")
    /\ Move(k, "release")
    /\ UNCHANGED <<db, redis, queue, wr>>

\* A killed worker leaves the lock to its TTL and treg:hosts:new behind.
TaskDies(k) ==
    /\ wk[k].pc # "idle"
    /\ Fault("worker")
    /\ wk' = [wk EXCEPT ![k] = WorkerIdle]
    /\ UNCHANGED <<db, redis, queue, wr>>

-----------------------------------------------------------------------------
(* TTLs, requests and the schedule.                                        *)

\* Broken: the marker has no TTL.
MarkerStays == FALSE /\ UNCHANGED vars

MarkerExpire ==
    /\ marker
    /\ marker' = FALSE
    /\ UNCHANGED <<db, hosts, armed, build, dirty, lock, queue, wr, wk, faults>>

ArmExpire ==
    /\ armed
    /\ IF \E w \in Writers : At(w, "sadd") THEN Fault("arm") ELSE UNCHANGED faults
    /\ hosts' = {} /\ armed' = FALSE
    /\ UNCHANGED <<db, build, dirty, lock, marker, queue, wr, wk>>

LockExpire ==
    /\ lock # None
    /\ IF wk[lock].pc # "idle" THEN Fault("overlap") ELSE UNCHANGED faults
    /\ lock' = None
    /\ UNCHANGED <<db, hosts, armed, build, dirty, marker, queue, wr, wk>>

\* check() on a cache miss: an absent SET asks for a rebuild.  The other
\* verdicts change nothing.
Request ==
    /\ hosts = {}
    /\ ~marker
    /\ Trigger
    /\ UNCHANGED <<db, hosts, armed, build, dirty, lock, wr, wk>>

\* The beat entry resolve-gate-reconcile.
Beat ==
    /\ queue = 0
    /\ queue' = 1
    /\ UNCHANGED <<db, redis, wr, wk, faults>>

Next ==
    \/ \E w \in Writers : Write(w) \/ Callback(w) \/ RedisError(w)
    \/ \E k \in Workers : Task(k) \/ TaskError(k) \/ TaskDies(k)
    \/ MarkerExpire \/ ArmExpire \/ LockExpire \/ Request \/ Beat

Spec == Init /\ [][Next]_vars

\* Callbacks and workers keep running, TTLs elapse and requests keep arriving.
FairSpec ==
    /\ Spec
    /\ \A w \in Writers : WF_vars(Callback(w))
    /\ \A k \in Workers : WF_vars(Task(k))
    /\ WF_vars(MarkerExpire) /\ WF_vars(ArmExpire) /\ WF_vars(LockExpire)
    /\ WF_vars(Request)

-----------------------------------------------------------------------------
\* Each variable keeps its type, and a key that is absent has no TTL.
TypeOK ==
    /\ domains \subseteq Hosts /\ hosts \subseteq Hosts /\ build \subseteq Hosts
    /\ armed \in BOOLEAN /\ marker \in BOOLEAN
    /\ armed => hosts # {}
    /\ lock \in Workers \cup {None}
    /\ dirty \in 0..MaxWrites /\ queue \in 0..MaxQueue
    /\ wr \in [Writers -> [pc : {"idle", "exists", "sadd", "srem", "bump", "arm", "trigger"},
                           host : Hosts \cup {None}, old : Hosts \cup {None}]]
    /\ wk \in [Workers -> [pc : {"idle", "before", "clear", "scan", "flush", "rename",
                                 "delete", "check", "release"},
                           pass : 0..Passes, before : 0..MaxWrites, todo : SUBSET Hosts]]
    /\ touched \subseteq Hosts
    /\ writes \in 0..MaxWrites /\ faults \subseteq FaultKinds

\* The gate never refuses a host whose Domain row nobody touches: while the SET
\* exists it has every such host, whatever rebuilds, additions, removals, expiries
\* and crashes interleave.  Two races are outside of it: an armed SET that expires
\* between EXISTS and SADD, and two reconciles that share treg:hosts:new because
\* the lock of the first ran out.
StableServed == faults \cap {"arm", "overlap"} = {} /\ hosts # {} => domains \ touched \subseteq hosts

\* Nobody is at work on the SET and nothing will make anyone rebuild it.
Settled ==
    /\ \A w \in Writers : At(w, "idle")
    /\ \A k \in Workers : In(k, "idle")
    /\ queue = 0 /\ hosts # {} /\ ~armed

\* Without faults, and with fewer changes than a reconcile has passes, a SET that
\* is left without a TTL is exact: what a rebuild missed, its dirty-recheck, a
\* later task or the armed TTL makes good.
SettledExact == faults = {} /\ writes < Passes /\ Settled => hosts = domains

\* Once Domain changes stop, the SET comes to be exactly the hostnames of the
\* database and stays so.  A lost publish is made good by the armed TTL, the
\* marker's TTL and the next miss; a Redis error or a killed worker by the daily
\* task, if beat keeps scheduling it.
EventuallyExact ==
    [](faults \subseteq {"broker", "arm"}) \/ []<><<Beat>>_vars => <>[](hosts = domains)

=============================================================================
