------------------------------- MODULE Fanout -------------------------------
(* The beat fan-out of one schedule entry: celery beat enqueues a wave at     *)
(* every tick, fanout_dispatch decides under the wave lock which tenants are  *)
(* due, sub_dispatch sends their tasks and then moves the TaskRun watermark.  *)
(* (tenants/celery/dispatch.py, TaskRun in tenants/models.py,                 *)
(* commons/platform/beat.py.)  Time is discrete.  Waves and batches share the *)
(* FIFO queue "fanout", which several workers consume.                        *)
EXTENDS Integers, Sequences, FiniteSets, FiniteSetsExt, BeatSchedule

CONSTANTS
  Tenants,     \* schemas of the ACTIVE tenants
  Workers,     \* processes consuming the fanout queue
  Occ,         \* Occ[t]: instants at which the cron falls in t's own timezone;
               \* {} for a tenant whose timezone is NULL or unknown to zoneinfo
  Schedules,   \* beat schedules as the settings write them
  Lags,        \* how far behind its queue a deployment of the workers may be
  BatchSize, LOCK_SECONDS,
  MaxTime, MaxQueue, MaxFaults     \* bounds of the model

\* Occurrences are instants of the horizon.  A wave takes time only if the lock
\* has a positive lifetime.  The settings give intervals and periods in seconds.
ASSUME FanoutConstants ==
  /\ IsFiniteSet(Tenants)
  /\ \A s \in Schedules : \A n \in DOMAIN s :
       /\ s[n].grace \in Nat \cup {None}
       /\ s[n].period \in (Nat \ {0}) \cup {None}
       /\ s[n].kind = "interval" => s[n].every \in Nat \ {0}
  /\ Occ \in [Tenants -> SUBSET (0 .. MaxTime)]
  /\ {BatchSize, LOCK_SECONDS, FANOUT_PERIOD} \subseteq Nat \ {0}
  /\ {TZ_GRACE_SECONDS, MaxTime, MaxQueue, MaxFaults} \subseteq Nat
  /\ Lags \subseteq Nat
  /\ None \notin Int \cup [owner : Workers, until : Int]

VARIABLES
  conf,      \* an entry, the waves a tick brings of it, and the lag of the workers
  now,
  queue,     \* the broker's list
  worker,    \* what each worker is doing
  lock,      \* the wave lock: None, or who took it and when it expires
  last,      \* TaskRun.last_run_at, -1 while there is no row
  fired,     \* fired[t][o]: how often t's task was sent for occurrence o
  faults

vars == <<conf, now, queue, worker, lock, last, fired, faults>>

---------------------------------------------------------------------------
(* The due check *)

Past(t, ts) == {o \in Occ[t] : o < ts}

\* The occurrence a wave reading the clock at ts looks at: the latest one
\* strictly before ts.
Latest(t, ts) == Max(Past(t, ts))

Due(t, ts) ==
  /\ Past(t, ts) # {}
  /\ Latest(t, ts) > last[t]
  /\ ts - Latest(t, ts) <= GraceOf(conf)

\* The schemas of the wave: _due_by_tenant_tz, or every ACTIVE tenant.
Targets(ts) == IF conf.cron THEN {t \in Tenants : Due(t, ts)} ELSE Tenants

---------------------------------------------------------------------------
(* Messages and workers *)

Wave(at) == [at |-> at, batch |-> {}, ts |-> None]
Batch(at, S, ts) == [at |-> at, batch |-> S, ts |-> ts]
IsWave(m) == m.batch = {}

\* ts is the clock the task works with, left what it still has to send and sent
\* what it has sent.
Job(pc, msg, ts, left, sent) ==
  [pc |-> pc, msg |-> msg, ts |-> ts, left |-> left, sent |-> sent]
Idle == Job("idle", Wave(0), None, {}, {})

Busy == {k \in Workers : worker[k].pc # "idle"}
InWave(k) == worker[k].pc \in {"due", "batches", "release"}

Become(k, job) == worker' = [worker EXCEPT ![k] = job]

Init ==
  /\ \E written \in Schedules, lag \in Lags :
       LET s == [n \in DOMAIN written |-> scoped_schedule(written[n])]
       IN /\ \A n \in DOMAIN written : Classified(written[n])
          /\ Deployable(s)
          /\ \E n \in DOMAIN s :
               /\ s[n].task = FANOUT_TASK_NAME
               /\ conf = [cron |-> s[n].cron, grace |-> s[n].grace,
                          period |-> s[n].period, lag |-> lag,
                          waves |-> Cardinality({m \in DOMAIN s :
                             s[m].task = FANOUT_TASK_NAME /\ LockKey(s[m]) = LockKey(s[n])})]
  /\ now = 0
  /\ queue = <<>>
  /\ worker = [k \in Workers |-> Idle]
  /\ lock = None
  /\ last = [t \in Tenants |-> -1]
  /\ fired = [t \in Tenants |-> [o \in Occ[t] |-> 0]]
  /\ faults = 0

---------------------------------------------------------------------------
(* The clock and beat *)

\* No message may wait, or be worked on, for longer than the lag.
OnPace ==
  /\ \A i \in 1 .. Len(queue) : now < queue[i].at + conf.lag
  /\ \A k \in Busy : now < worker[k].msg.at + conf.lag

\* The lock's TTL runs out by itself; beat enqueues the waves at every period.
Pass ==
  /\ now < MaxTime
  /\ OnPace
  /\ now' = now + 1
  /\ lock' = IF lock # None /\ lock.until <= now + 1 THEN None ELSE lock
  /\ IF (now + 1) % conf.period = 0
       THEN /\ Len(queue) < MaxQueue
            /\ queue' = queue \o [i \in 1 .. conf.waves |-> Wave(now + 1)]
       ELSE UNCHANGED queue
  /\ UNCHANGED <<conf, worker, last, fired, faults>>

---------------------------------------------------------------------------
(* fanout_dispatch *)

\* The lock is taken without blocking, then the clock is read.
StartWave(k) ==
  /\ k \notin Busy
  /\ queue # <<>> /\ IsWave(Head(queue))
  /\ lock = None
  /\ lock' = [owner |-> k, until |-> now + LOCK_SECONDS]
  /\ Become(k, Job("due", Head(queue), now, {}, {}))
  /\ queue' = Tail(queue)
  /\ UNCHANGED <<conf, now, last, fired, faults>>

\* An overlapping wave returns at once.
SkipWave(k) ==
  /\ k \notin Busy
  /\ queue # <<>> /\ IsWave(Head(queue))
  /\ lock # None
  /\ queue' = Tail(queue)
  /\ UNCHANGED <<conf, now, worker, lock, last, fired, faults>>

\* load_map and the due check, with the clock read before.
DueCheck(k) ==
  /\ worker[k].pc = "due"
  /\ LET due == Targets(worker[k].ts)
     IN worker' = [worker EXCEPT ![k].left = due,
                                 ![k].pc = IF due = {} THEN "release" ELSE "batches"]
  /\ UNCHANGED <<conf, now, queue, lock, last, fired, faults>>

\* sub_dispatch.delay of one batch; an interval batch carries no run_ts.
SendBatch(k) ==
  /\ worker[k].pc = "batches"
  /\ Len(queue) < MaxQueue
  /\ \E S \in SUBSET worker[k].left :
       /\ S # {} /\ Cardinality(S) <= BatchSize
       /\ S = worker[k].left \/ Cardinality(S) = BatchSize
       /\ queue' = Append(queue, Batch(now, S, IF conf.cron THEN worker[k].ts ELSE None))
       /\ worker' = [worker EXCEPT ![k].left = @ \ S,
                                   ![k].pc = IF S = worker[k].left THEN "release" ELSE "batches"]
  /\ UNCHANGED <<conf, now, lock, last, fired, faults>>

\* The broker refuses the batch: the wave fails, its finally still runs.
WaveFails(k) ==
  /\ worker[k].pc = "batches"
  /\ faults < MaxFaults
  /\ faults' = faults + 1
  /\ worker' = [worker EXCEPT ![k].left = {}, ![k].pc = "release"]
  /\ UNCHANGED <<conf, now, queue, lock, last, fired>>

\* Mutant: DEL without comparing the token.
ReleaseAny(k) ==
  /\ worker[k].pc = "release"
  /\ lock' = None
  /\ Become(k, Idle)
  /\ UNCHANGED <<conf, now, queue, last, fired, faults>>

\* Lock.release deletes the key only while it still holds the wave's token.
Release(k) ==
  /\ worker[k].pc = "release"
  /\ lock' = IF lock # None /\ lock.owner = k THEN None ELSE lock
  /\ Become(k, Idle)
  /\ UNCHANGED <<conf, now, queue, last, fired, faults>>

---------------------------------------------------------------------------
(* sub_dispatch *)

StartBatch(k) ==
  /\ k \notin Busy
  /\ queue # <<>> /\ ~IsWave(Head(queue))
  /\ Become(k, Job("send", Head(queue), Head(queue).ts, Head(queue).batch, {}))
  /\ queue' = Tail(queue)
  /\ UNCHANGED <<conf, now, lock, last, fired, faults>>

\* Where the loop goes once nothing is left to send.
AfterLoop(sent) == IF conf.cron /\ sent # {} THEN "insert" ELSE "return"

\* send_task for one schema.
Send(k) ==
  /\ worker[k].pc = "send"
  /\ \E t \in worker[k].left :
       /\ worker' = [worker EXCEPT
            ![k].left = @ \ {t},
            ![k].sent = @ \cup {t},
            ![k].pc = IF worker[k].left = {t} THEN AfterLoop(worker[k].sent \cup {t}) ELSE "send"]
       /\ fired' = IF conf.cron THEN [fired EXCEPT ![t][Latest(t, worker[k].ts)] = @ + 1]
                                ELSE fired
  /\ UNCHANGED <<conf, now, queue, lock, last, faults>>

\* Mutant: a schema the broker refused counts as sent.
SendFailsBlind(k) ==
  /\ worker[k].pc = "send"
  /\ faults < MaxFaults
  /\ faults' = faults + 1
  /\ \E t \in worker[k].left :
       worker' = [worker EXCEPT
         ![k].left = @ \ {t},
         ![k].sent = @ \cup {t},
         ![k].pc = IF worker[k].left = {t} THEN AfterLoop(worker[k].sent \cup {t}) ELSE "send"]
  /\ UNCHANGED <<conf, now, queue, lock, last, fired>>

\* kombu's OperationalError: the schema is left to the next tick.
SendFails(k) ==
  /\ worker[k].pc = "send"
  /\ faults < MaxFaults
  /\ faults' = faults + 1
  /\ \E t \in worker[k].left :
       worker' = [worker EXCEPT
         ![k].left = @ \ {t},
         ![k].pc = IF worker[k].left = {t} THEN AfterLoop(worker[k].sent) ELSE "send"]
  /\ UNCHANGED <<conf, now, queue, lock, last, fired>>

\* mark_ran, first statement: INSERT ... ON CONFLICT DO NOTHING.
MarkInsert(k) ==
  /\ worker[k].pc = "insert"
  /\ last' = [t \in Tenants |->
                IF t \in worker[k].sent /\ last[t] = -1 THEN worker[k].ts ELSE last[t]]
  /\ worker' = [worker EXCEPT ![k].pc = "update"]
  /\ UNCHANGED <<conf, now, queue, lock, fired, faults>>

\* Mutant: an upsert that overwrites.
MarkOverwrite(k) ==
  /\ worker[k].pc = "update"
  /\ last' = [t \in Tenants |-> IF t \in worker[k].sent THEN worker[k].ts ELSE last[t]]
  /\ Become(k, Idle)
  /\ UNCHANGED <<conf, now, queue, lock, fired, faults>>

\* mark_ran, second statement: UPDATE of the strictly older rows.
MarkUpdate(k) ==
  /\ worker[k].pc = "update"
  /\ last' = [t \in Tenants |->
                IF t \in worker[k].sent /\ last[t] # -1 /\ last[t] < worker[k].ts
                THEN worker[k].ts ELSE last[t]]
  /\ Become(k, Idle)
  /\ UNCHANGED <<conf, now, queue, lock, fired, faults>>

\* Nothing was sent, or an interval entry: no watermark.
Return(k) ==
  /\ worker[k].pc = "return"
  /\ Become(k, Idle)
  /\ UNCHANGED <<conf, now, queue, lock, last, fired, faults>>

\* A worker dies, or a send raises what the loop does not swallow.  With
\* acks_late the message is gone, or comes back when the connection was lost too.
Crash(k) ==
  /\ k \in Busy
  /\ faults < MaxFaults
  /\ faults' = faults + 1
  /\ Become(k, Idle)
  /\ \/ UNCHANGED queue
     \/ Len(queue) < MaxQueue /\ queue' = Append(queue, worker[k].msg)
  /\ UNCHANGED <<conf, now, lock, last, fired>>

Next ==
  \/ Pass
  \/ \E k \in Workers :
       \/ StartWave(k) \/ SkipWave(k) \/ DueCheck(k) \/ SendBatch(k) \/ WaveFails(k)
       \/ Release(k) \/ StartBatch(k) \/ Send(k) \/ SendFails(k)
       \/ MarkInsert(k) \/ MarkUpdate(k) \/ Return(k) \/ Crash(k)

Spec == Init /\ [][Next]_vars

---------------------------------------------------------------------------
(* Properties *)

\* Types of the state.
TypeOK ==
  /\ now \in 0 .. MaxTime
  /\ lock = None \/ lock \in [owner : Workers, until : Nat]
  /\ last \in [Tenants -> -1 .. MaxTime]
  /\ \A t \in Tenants : fired[t] \in [Occ[t] -> Nat]
  /\ \A k \in Workers :
       /\ worker[k].left \subseteq Tenants /\ worker[k].sent \subseteq Tenants
       /\ worker[k].pc \in {"idle", "due", "batches", "release", "send", "insert", "update",
                            "return"}
  /\ faults \in 0 .. MaxFaults

\* The TaskRun watermark of a tenant never moves backward, however the two
\* statements of two batches interleave (mark_ran).
WatermarkMonotone == [][\A t \in Tenants : last'[t] >= last[t]]_vars

\* A watermark that suppresses an occurrence was written by a batch that sent
\* this occurrence's task: sub_dispatch marks after the send, and only what it sent.
WatermarkHonest ==
  \A t \in Tenants : last[t] # -1 => /\ Past(t, last[t]) # {}
                                     /\ fired[t][Latest(t, last[t])] > 0

\* Of the waves running at the same time at most one is still within its TTL:
\* a wave that outlived its lock does not release the lock of its successor.
OneFreshWave ==
  \A j, k \in Workers :
    j # k /\ InWave(j) /\ InWave(k) =>
      \/ now >= worker[j].ts + LOCK_SECONDS
      \/ now >= worker[k].ts + LOCK_SECONDS

\* The ticks within grace of an occurrence that a prompt deployment can lose
\* and still dispatch it: "a missed tick self-heals within grace".
Spare == Max({0, GraceOf(conf) \div conf.period - 1})

\* No other occurrence of the tenant within grace: the due check looks only at
\* the latest one, so a later one takes the place of one that was missed.
Alone(t, o) ==
  \A p \in Occ[t] \ {o} : p + GraceOf(conf) < o \/ o + GraceOf(conf) < p

\* E002 is enough: when the workers keep pace, an occurrence is sent by the end
\* of its grace, even after as many faults as there are spare ticks.
SelfHeals ==
  conf.cron /\ conf.lag = 0 /\ faults <= Spare /\ LOCK_SECONDS <= conf.period =>
    \A t \in Tenants : \A o \in Occ[t] :
      Alone(t, o) /\ now > o + GraceOf(conf) => fired[t][o] > 0

\* Without faults, and when a wave and its batches are done before the next
\* tick, the watermark lets no occurrence be dispatched twice.
OnceWhenPaced ==
  conf.cron /\ 2 * conf.lag < conf.period /\ faults = 0 =>
    \A t \in Tenants : \A o \in Occ[t] : fired[t][o] <= 1

=============================================================================
