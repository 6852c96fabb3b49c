---------------------------- MODULE FanoutProofs ----------------------------
(* Proofs about Fanout, for every set of tenants and workers, every schedule,  *)
(* every lag and every bound.                                                 *)
EXTENDS Fanout, WellFoundedInduction, TLAPS

\* Zenon finds the leaves that name no prover; SMT those with arithmetic, sequences
\* and updates of functions.
USE ZenonT(30)

---------------------------------------------------------------------------
(* The latest occurrence *)

\* A nonempty set of instants up to some bound has a greatest element.
LEMMA MaxExists ==
  ASSUME NEW n \in Nat, NEW S \in SUBSET (0 .. n), S # {}
  PROVE  Max(S) \in S /\ \A y \in S : Max(S) >= y
  <1> DEFINE T == {n - x : x \in S}
  <1>1. T \subseteq Nat /\ T # {}
    <2>1. \A x \in S : x \in Int /\ 0 <= x /\ x <= n
      BY SMT
    <2>2. \A x \in S : n - x \in Nat
      BY SMT, <2>1
    <2> QED BY <2>2
  <1>2. PICK m \in T : \A y \in T : <<y, m>> \notin OpToRel(<, Nat)
    BY <1>1, NatLessThanWellFounded, WFMin
  <1>3. \A y \in T : ~(y < m)
    BY <1>1, <1>2 DEF OpToRel
  <1>4. PICK x \in S : m = n - x
    BY DEF T
  <1>5. \A y \in S : x >= y
    <2> SUFFICES ASSUME NEW y \in S PROVE x >= y
      OBVIOUS
    <2>1. ~(n - y < n - x)
      BY <1>3, <1>4
    <2>2. x \in Int /\ y \in Int
      BY SMT
    <2> QED BY SMT, <2>1, <2>2
  <1> QED BY <1>5 DEF Max

\* When a tenant has an occurrence before ts, Latest is one of its occurrences.
LEMMA LatestOccurs ==
  ASSUME NEW t \in Tenants, NEW ts, Past(t, ts) # {}
  PROVE  Latest(t, ts) \in Occ[t]
  <1>1. Past(t, ts) \in SUBSET (0 .. MaxTime) /\ Past(t, ts) \subseteq Occ[t] /\ MaxTime \in Nat
    BY FanoutConstants DEF Past
  <1> QED BY <1>1, MaxExists DEF Latest

---------------------------------------------------------------------------
(* The inductive invariant *)

Instants == 0 .. MaxTime

\* A batch of a calendar entry holds tenants that were due at its run_ts.
Messages ==
  {m \in [at : Instants, batch : SUBSET Tenants, ts : Instants \cup {None}] :
     conf.cron /\ ~IsWave(m) => m.ts \in Instants /\ \A t \in m.batch : Past(t, m.ts) # {}}

Jobs == [pc : {"idle", "due", "batches", "release", "send", "insert", "update", "return"},
         msg : Messages, ts : Instants \cup {None}, left : SUBSET Tenants, sent : SUBSET Tenants]

Types ==
  /\ conf.cron \in BOOLEAN
  /\ conf.waves = 1
  /\ now \in Instants
  /\ queue \in Seq(Messages)
  /\ worker \in [Workers -> Jobs]
  /\ last \in [Tenants -> Instants \cup {-1}]
  /\ DOMAIN fired = Tenants /\ \A t \in Tenants : fired[t] \in [Occ[t] -> Nat]

\* What a job knows of the tenants it holds: those it has to send were due, and
\* those it has sent have their dispatch counted.
JobKnows(k) ==
  LET j == worker[k]
  IN /\ InWave(k) => j.ts \in Instants
     /\ j.pc \in {"insert", "update"} => conf.cron
     /\ j.pc \in {"batches", "send", "insert", "update"} /\ conf.cron =>
          /\ j.ts \in Instants
          /\ \A t \in j.left : Past(t, j.ts) # {}
     /\ j.pc \in {"send", "insert", "update"} /\ conf.cron =>
          \A t \in j.sent : Past(t, j.ts) # {} /\ fired[t][Latest(t, j.ts)] > 0

\* A wave owns the lock, or has outlived it.
LockKnows(k) ==
  InWave(k) => \/ lock # None /\ lock.owner = k
               \/ now >= worker[k].ts + LOCK_SECONDS

\* The lock lasts as long as its wave is fresh.
LockLasts ==
  lock # None => /\ lock.until \in Int
                 /\ \A k \in Workers : InWave(k) /\ lock.owner = k =>
                      \/ lock.until >= worker[k].ts + LOCK_SECONDS
                      \/ now >= worker[k].ts + LOCK_SECONDS

Inv ==
  /\ Types
  /\ \A k \in Workers : JobKnows(k) /\ LockKnows(k)
  /\ LockLasts
  /\ WatermarkHonest

\* A set of one element has size 1: the definition of Cardinality, unfolded twice.
LEMMA SingletonSize ==
  ASSUME NEW x
  PROVE  Cardinality({x}) = 1
  <1> DEFINE F(f) == [T \in SUBSET {x} |-> IF T = {} THEN 0
                                           ELSE 1 + f[T \ {CHOOSE y : y \in T}]]
             size == [T \in SUBSET {x} |-> IF T = {} THEN 0 ELSE 1]
  <1>1. \A T \in SUBSET {x} : T = {} \/ T = {x}
    BY SMT
  <1>2. (CHOOSE y : y \in {x}) = x
    BY SMT
  <1>3. \A f : F(f)[{}] = 0 /\ F(f)[{x}] = 1 + f[{x} \ {x}]
    BY SMT, <1>2
  <1>4. {x} \ {x} = {}
    BY SMT
  <1>5. F(size) = size
    BY SMT, <1>1, <1>2, <1>4
  <1>6. \A f : f = F(f) => f[{x}] = 1
    <2> SUFFICES ASSUME NEW f, f = F(f) PROVE f[{x}] = 1
      OBVIOUS
    <2> HIDE DEF F
    <2>1. f[{}] = 0 /\ f[{x}] = 1 + f[{}]
      BY <1>3, <1>4
    <2> QED BY SMT, <2>1
  <1> HIDE DEF F, size
  <1>7. (CHOOSE f : f = F(f)) = F(CHOOSE f : f = F(f))
    BY <1>5
  <1>8. (CHOOSE f : f = F(f))[{x}] = 1
    BY <1>6, <1>7
  <1> QED BY <1>8 DEF Cardinality, F

\* At start nothing is sent, marked or locked.
LEMMA InitInv == Init => Inv
  <1> SUFFICES ASSUME Init PROVE Inv
    OBVIOUS
  <1>1. conf.cron \in BOOLEAN /\ conf.waves = 1
    <2>1. PICK written \in Schedules, lag \in Lags :
            LET s == [n \in DOMAIN written |-> scoped_schedule(written[n])]
            IN /\ Deployable(s)
               /\ \E n \in DOMAIN s :
                    /\ s[n].task = FANOUT_TASK_NAME
                    /\ conf = [cron |-> s[n].cron, grace |-> s[n].grace,
                               period |-> s[n].period, lag |-> lag,
                               waves |-> Cardinality({m \in DOMAIN s :
                                  s[m].task = FANOUT_TASK_NAME /\ LockKey(s[m]) = LockKey(s[n])})]
      BY DEF Init
    <2> DEFINE s == [n \in DOMAIN written |-> scoped_schedule(written[n])]
    <2>2. PICK n \in DOMAIN s :
                    /\ s[n].task = FANOUT_TASK_NAME
                    /\ conf = [cron |-> s[n].cron, grace |-> s[n].grace,
                               period |-> s[n].period, lag |-> lag,
                               waves |-> Cardinality({m \in DOMAIN s :
                                  s[m].task = FANOUT_TASK_NAME /\ LockKey(s[m]) = LockKey(s[n])})]
      BY <2>1
    <2>3. s[n].cron \in BOOLEAN
      BY DEF scoped_schedule
    <2> HIDE DEF s
    <2>4. E006(s)
      BY <2>1 DEF Deployable, s
    <2>5. {m \in DOMAIN s : s[m].task = FANOUT_TASK_NAME /\ LockKey(s[m]) = LockKey(s[n])} = {n}
      BY <2>2, <2>4 DEF E006
    <2> QED BY <2>2, <2>3, <2>5, SingletonSize
  <1>2. Wave(0) \in Messages
    BY SMT, FanoutConstants DEF Wave, Messages, IsWave, Instants
  <1>3. Types
    BY SMT, <1>1, <1>2, FanoutConstants DEF Init, Types, Idle, Job, Jobs, Instants
  <1> QED
    BY <1>1, <1>3
      DEF Init, Inv, JobKnows, LockKnows, LockLasts, WatermarkHonest, InWave, Idle, Job

\* The entry of a behaviour stays, so the sets of messages and jobs do too.
LEMMA SetsKept ==
  ASSUME UNCHANGED conf
  PROVE  Messages' = Messages /\ Jobs' = Jobs
  BY DEF Messages, Jobs, Past

\* Taking a message from the queue.
LEMMA Taken ==
  ASSUME Types, queue # <<>>
  PROVE  Head(queue) \in Messages /\ Tail(queue) \in Seq(Messages)
  BY SMT DEF Types

\* A job that does not move keeps what it knows.
LEMMA KeepsKnowing ==
  ASSUME NEW j \in Workers, worker'[j] = worker[j], UNCHANGED <<conf, fired>>, JobKnows(j)
  PROVE  JobKnows(j)'
  BY DEF JobKnows, InWave, Past, Latest

\* Time passes: what is late stays late, and beat adds one wave.
LEMMA PassInv ==
  ASSUME Inv, Pass PROVE Inv'
  <1> USE DEF Inv
  <1>1. Messages' = Messages /\ Jobs' = Jobs
    BY SetsKept DEF Pass
  <1>2. now' \in Instants /\ now' = now + 1 /\ now \in Int
    BY SMT, FanoutConstants DEF Pass, Types, Instants
  <1>3. queue' \in Seq(Messages)
    <2>1. CASE UNCHANGED queue
      BY <2>1 DEF Types
    <2>2. CASE queue' = queue \o [i \in 1 .. conf.waves |-> Wave(now + 1)]
      <3>1. Wave(now + 1) \in Messages
        BY <1>2 DEF Wave, Messages, IsWave
      <3>2. [i \in 1 .. conf.waves |-> Wave(now + 1)] \in Seq(Messages)
        BY SMT, <3>1 DEF Types
      <3> QED BY SMT, <2>2, <3>2 DEF Types
    <2> QED BY <2>1, <2>2 DEF Pass
  <1>4. Types'
    BY <1>1, <1>2, <1>3 DEF Pass, Types
  <1>5. \A k \in Workers : JobKnows(k)'
    BY DEF Pass, JobKnows, InWave, Past, Latest
  <1>6. \A k \in Workers : InWave(k) => worker[k].ts + LOCK_SECONDS \in Int
    BY SMT, FanoutConstants DEF JobKnows, Instants
  <1>7. \A k \in Workers : LockKnows(k)'
    <2> SUFFICES ASSUME NEW k \in Workers, InWave(k) PROVE LockKnows(k)'
      BY DEF LockKnows, Pass, InWave
    <2>1. CASE now >= worker[k].ts + LOCK_SECONDS
      BY SMT, <2>1, <1>2, <1>6 DEF LockKnows, Pass
    <2>2. CASE lock # None /\ lock.owner = k /\ ~(now >= worker[k].ts + LOCK_SECONDS)
      <3>1. lock.until \in Int /\ lock.until >= worker[k].ts + LOCK_SECONDS
        BY <2>2 DEF LockLasts
      <3> QED BY SMT, <2>2, <3>1, <1>2, <1>6 DEF LockKnows, Pass
    <2> QED BY <2>1, <2>2 DEF LockKnows
  <1>8. LockLasts'
    BY SMT, <1>2, <1>6 DEF LockLasts, Pass, InWave
  <1>9. WatermarkHonest'
    BY DEF WatermarkHonest, Pass, Past, Latest
  <1> QED BY <1>4, <1>5, <1>7, <1>8, <1>9

\* A wave starts with a lock that outlasts it while it is fresh.
LEMMA StartWaveInv ==
  ASSUME Inv, NEW k \in Workers, StartWave(k) PROVE Inv'
  <1> USE DEF Inv
  <1>1. Messages' = Messages /\ Jobs' = Jobs
    BY SetsKept DEF StartWave
  <1>2. worker' = [worker EXCEPT ![k] = Job("due", Head(queue), now, {}, {})]
    BY DEF StartWave, Become
  <1>3. Types'
    BY <1>1, <1>2, Taken DEF StartWave, Types, Jobs, Job, Instants
  <1>4. worker'[k].pc = "due" /\ worker'[k].ts = now
    BY <1>2 DEF Types, Job
  <1>5. \A j \in Workers : j # k => worker'[j] = worker[j]
    BY <1>2 DEF Types
  <1>6. \A j \in Workers : JobKnows(j)'
    <2>1. JobKnows(k)'
      BY <1>4 DEF StartWave, JobKnows, Types
    <2> QED BY <2>1, <1>5, KeepsKnowing DEF StartWave
  <1>7. \A j \in Workers : LockKnows(j)'
    <2>1. lock' # None /\ lock'.owner = k
      BY SMT, FanoutConstants DEF StartWave, Types, Instants
    <2>2. \A j \in Workers : j # k => LockKnows(j)'
      BY <1>5 DEF StartWave, LockKnows, InWave
    <2> QED BY <2>1, <2>2 DEF LockKnows
  <1>8. LockLasts'
    BY SMT, <1>4, <1>5, FanoutConstants DEF StartWave, LockLasts, InWave, Types, Instants
  <1>9. WatermarkHonest'
    BY DEF WatermarkHonest, StartWave, Past, Latest
  <1> QED BY <1>3, <1>6, <1>7, <1>8, <1>9

\* A step of one worker that starts no wave and leaves the lock.
LEMMA LockKept ==
  ASSUME Inv, NEW k \in Workers, NEW job,
         worker' = [worker EXCEPT ![k] = job], UNCHANGED <<now, lock>>,
         job.pc \in {"due", "batches", "release"} => InWave(k) /\ job.ts = worker[k].ts
  PROVE  (\A j \in Workers : LockKnows(j)') /\ LockLasts'
  <1>1. worker'[k] = job /\ \A j \in Workers : j # k => worker'[j] = worker[j]
    BY DEF Inv, Types
  <1>2. \A j \in Workers : InWave(j)' => InWave(j) /\ worker'[j].ts = worker[j].ts
    BY <1>1 DEF InWave
  <1> QED BY <1>2 DEF Inv, LockKnows, LockLasts

\* ... and sends and marks nothing.
LEMMA WorkerMoves ==
  ASSUME Inv, NEW k \in Workers, NEW job \in Jobs,
         worker' = [worker EXCEPT ![k] = job], UNCHANGED <<conf, now, lock, last, fired>>,
         queue' \in Seq(Messages),
         job.pc \in {"due", "batches", "release"} => InWave(k) /\ job.ts = worker[k].ts,
         JobKnows(k)'
  PROVE  Inv'
  <1>1. Messages' = Messages /\ Jobs' = Jobs
    BY SetsKept
  <1>2. Types'
    BY <1>1 DEF Inv, Types
  <1>3. \A j \in Workers : j # k => worker'[j] = worker[j]
    BY DEF Inv, Types
  <1>4. \A j \in Workers : JobKnows(j)'
    BY <1>3, KeepsKnowing DEF Inv
  <1>5. WatermarkHonest'
    BY DEF Inv, WatermarkHonest, Past, Latest
  <1> QED BY <1>2, <1>4, <1>5, LockKept DEF Inv

\* A wave that finds the lock taken returns at once.
LEMMA SkipWaveInv ==
  ASSUME Inv, NEW k \in Workers, SkipWave(k) PROVE Inv'
  <1>1. Messages' = Messages /\ Jobs' = Jobs
    BY SetsKept DEF SkipWave
  <1>2. Types'
    BY <1>1, Taken DEF SkipWave, Inv, Types
  <1> QED
    BY <1>2 DEF SkipWave, Inv, JobKnows, LockKnows, LockLasts, WatermarkHonest, InWave, Past, Latest

\* The tenants of a calendar wave are due, so the cron fell before its clock.
LEMMA DueCheckInv ==
  ASSUME Inv, NEW k \in Workers, DueCheck(k) PROVE Inv'
  <1> DEFINE due == Targets(worker[k].ts)
             job == [worker[k] EXCEPT !.left = due, !.pc = IF due = {} THEN "release" ELSE "batches"]
  <1>1. worker[k] \in Jobs /\ worker[k].pc = "due"
    BY DEF Inv, Types, DueCheck
  <1>2. due \in SUBSET Tenants
    BY DEF Targets
  <1>3. job \in Jobs
    BY <1>1, <1>2 DEF Jobs
  <1>4. worker' = [worker EXCEPT ![k] = job]
    BY <1>1 DEF DueCheck, Inv, Types, Jobs
  <1>5. JobKnows(k)'
    <2>1. worker'[k] = job
      BY <1>4 DEF Inv, Types
    <2>2. worker[k].ts \in Instants
      BY <1>1 DEF Inv, JobKnows, InWave
    <2>3. conf.cron => \A t \in due : Past(t, worker[k].ts) # {}
      BY DEF Targets, Due
    <2>4. /\ worker'[k].pc \in {"release", "batches"}
          /\ worker'[k].ts = worker[k].ts /\ worker'[k].left = due
      BY <2>1, <1>1 DEF Jobs
    <2> HIDE DEF due, job
    <2> QED BY <2>2, <2>3, <2>4 DEF DueCheck, JobKnows, InWave, Past
  <1>6. job.ts = worker[k].ts /\ InWave(k)
    BY <1>1 DEF Jobs, InWave
  <1> QED BY <1>3, <1>4, <1>5, <1>6, WorkerMoves DEF DueCheck, Inv, Types

\* A batch carries the wave's clock with the tenants that were due at it.
LEMMA SendBatchInv ==
  ASSUME Inv, NEW k \in Workers, SendBatch(k) PROVE Inv'
  <1>1. worker[k] \in Jobs /\ worker[k].pc = "batches" /\ worker[k].ts \in Instants
    BY DEF Inv, Types, SendBatch, JobKnows, InWave
  <1>2. PICK S \in SUBSET worker[k].left :
          /\ queue' = Append(queue, Batch(now, S, IF conf.cron THEN worker[k].ts ELSE None))
          /\ worker' = [worker EXCEPT ![k].left = @ \ S,
                          ![k].pc = IF S = worker[k].left THEN "release" ELSE "batches"]
    BY DEF SendBatch
  <1> DEFINE msg == Batch(now, S, IF conf.cron THEN worker[k].ts ELSE None)
             job == [worker[k] EXCEPT !.left = @ \ S,
                          !.pc = IF S = worker[k].left THEN "release" ELSE "batches"]
  <1>3. job \in Jobs
    BY <1>1 DEF Jobs
  <1>4. worker' = [worker EXCEPT ![k] = job]
    BY <1>1, <1>2 DEF Inv, Types, Jobs
  <1>5. conf.cron => \A t \in worker[k].left : Past(t, worker[k].ts) # {}
    BY <1>1 DEF Inv, JobKnows
  <1>6. msg \in Messages
    BY <1>1, <1>5 DEF Batch, Messages, IsWave, Inv, Types, Jobs
  <1>7. queue' \in Seq(Messages)
    BY SMT, <1>2, <1>6 DEF Inv, Types
  <1>8. JobKnows(k)'
    <2>1. worker'[k] = job
      BY <1>4 DEF Inv, Types
    <2>2. /\ worker'[k].pc \in {"release", "batches"}
          /\ worker'[k].ts = worker[k].ts /\ worker'[k].left \subseteq worker[k].left
      BY SMT, <2>1, <1>1 DEF Jobs
    <2> HIDE DEF job
    <2> QED BY <2>2, <1>1, <1>5 DEF SendBatch, JobKnows, InWave, Past
  <1>9. job.ts = worker[k].ts /\ InWave(k)
    BY <1>1 DEF Jobs, InWave
  <1> HIDE DEF job
  <1> QED BY <1>3, <1>4, <1>7, <1>8, <1>9, WorkerMoves DEF SendBatch

\* A wave that raises goes on to release its lock.
LEMMA WaveFailsInv ==
  ASSUME Inv, NEW k \in Workers, WaveFails(k) PROVE Inv'
  <1> DEFINE job == [worker[k] EXCEPT !.left = {}, !.pc = "release"]
  <1>1. worker[k] \in Jobs /\ worker[k].pc = "batches" /\ worker[k].ts \in Instants
    BY DEF Inv, Types, WaveFails, JobKnows, InWave
  <1>2. job \in Jobs
    BY <1>1 DEF Jobs
  <1>3. worker' = [worker EXCEPT ![k] = job] /\ worker'[k] = job
    BY <1>1 DEF WaveFails, Inv, Types, Jobs
  <1>4. JobKnows(k)'
    BY <1>1, <1>3 DEF WaveFails, JobKnows, InWave, Jobs
  <1>5. job.ts = worker[k].ts /\ InWave(k)
    BY <1>1 DEF Jobs, InWave
  <1> QED BY <1>2, <1>3, <1>4, <1>5, WorkerMoves DEF WaveFails, Inv, Types

\* An idle worker: Return, Crash, the end of a wave.
LEMMA IdleKnows ==
  ASSUME Inv, NEW k \in Workers, Become(k, Idle), UNCHANGED conf
  PROVE  /\ Idle \in Jobs /\ Idle.pc = "idle"
         /\ worker' = [worker EXCEPT ![k] = Idle]
         /\ JobKnows(k)'
  <1>1. Wave(0) \in Messages
    BY SMT, FanoutConstants DEF Wave, Messages, IsWave, Instants
  <1>2. Idle \in Jobs /\ Idle.pc = "idle"
    BY <1>1 DEF Idle, Job, Jobs
  <1>3. worker'[k] = Idle
    BY DEF Become, Inv, Types
  <1> QED BY <1>2, <1>3 DEF Become, JobKnows, InWave

\* Only the owner's token releases the lock, so a wave that is still fresh keeps it.
LEMMA ReleaseInv ==
  ASSUME Inv, NEW k \in Workers, Release(k) PROVE Inv'
  <1>1. /\ Idle \in Jobs /\ Idle.pc = "idle"
        /\ worker' = [worker EXCEPT ![k] = Idle]
        /\ JobKnows(k)'
    BY IdleKnows DEF Release
  <1>2. worker'[k] = Idle /\ \A j \in Workers : j # k => worker'[j] = worker[j]
    BY <1>1 DEF Inv, Types
  <1>3. Types'
    BY <1>1, SetsKept DEF Release, Inv, Types
  <1>4. \A j \in Workers : JobKnows(j)'
    BY <1>1, <1>2, KeepsKnowing DEF Release, Inv
  <1>5. (\A j \in Workers : LockKnows(j)') /\ LockLasts'
    BY <1>1, <1>2 DEF Release, Inv, LockKnows, LockLasts, InWave
  <1>6. WatermarkHonest'
    BY DEF Release, Inv, WatermarkHonest, Past, Latest
  <1> QED BY <1>3, <1>4, <1>5, <1>6 DEF Inv

\* A batch starts with the clock and the tenants of its message.
LEMMA StartBatchInv ==
  ASSUME Inv, NEW k \in Workers, StartBatch(k) PROVE Inv'
  <1> DEFINE job == Job("send", Head(queue), Head(queue).ts, Head(queue).batch, {})
  <1>1. Head(queue) \in Messages /\ Tail(queue) \in Seq(Messages)
    BY Taken DEF StartBatch, Inv
  <1>2. job \in Jobs
    BY <1>1 DEF Job, Jobs, Messages
  <1>3. worker' = [worker EXCEPT ![k] = job] /\ worker'[k] = job
    BY DEF StartBatch, Become, Inv, Types
  <1>4. JobKnows(k)'
    <2>1. /\ worker'[k].pc = "send" /\ worker'[k].ts = Head(queue).ts
          /\ worker'[k].left = Head(queue).batch /\ worker'[k].sent = {}
      BY SMT, <1>3 DEF Job
    <2>2. conf.cron => /\ Head(queue).ts \in Instants
                       /\ \A t \in Head(queue).batch : Past(t, Head(queue).ts) # {}
      BY <1>1 DEF StartBatch, Messages
    <2>3. conf' = conf
      BY DEF StartBatch
    <2> HIDE DEF job
    <2> QED BY <2>1, <2>2, <2>3 DEF JobKnows, InWave, Past
  <1>5. job.pc = "send"
    BY DEF Job
  <1> HIDE DEF job
  <1> QED BY <1>1, <1>2, <1>3, <1>4, <1>5, WorkerMoves DEF StartBatch

\* A dispatch is counted before its tenant counts as sent, and no count falls.
LEMMA SendInv ==
  ASSUME Inv, NEW k \in Workers, Send(k) PROVE Inv'
  <1>1. worker[k] \in Jobs /\ worker[k].pc = "send"
    BY DEF Inv, Types, Send
  <1>2. PICK t \in worker[k].left :
          /\ worker' = [worker EXCEPT
               ![k].left = @ \ {t},
               ![k].sent = @ \cup {t},
               ![k].pc = IF worker[k].left = {t} THEN AfterLoop(worker[k].sent \cup {t}) ELSE "send"]
          /\ fired' = IF conf.cron THEN [fired EXCEPT ![t][Latest(t, worker[k].ts)] = @ + 1]
                                   ELSE fired
    BY DEF Send
  <1> DEFINE ts == worker[k].ts
             job == [worker[k] EXCEPT !.left = @ \ {t}, !.sent = @ \cup {t},
                !.pc = IF worker[k].left = {t} THEN AfterLoop(worker[k].sent \cup {t}) ELSE "send"]
  <1>3. t \in Tenants
    BY <1>1 DEF Jobs
  <1>4. conf.cron => ts \in Instants /\ Past(t, ts) # {} /\ Latest(t, ts) \in Occ[t]
    BY <1>1, <1>3, LatestOccurs DEF Inv, JobKnows
  <1>5. DOMAIN fired' = Tenants /\ \A x \in Tenants : fired'[x] \in [Occ[x] -> Nat]
    BY SMT, <1>2, <1>3, <1>4 DEF Inv, Types
  <1>6. \A x \in Tenants : \A o \in Occ[x] : fired[x][o] > 0 => fired'[x][o] > 0
    BY SMT, <1>2, <1>3, <1>4 DEF Inv, Types
  <1>7. conf.cron => fired'[t][Latest(t, ts)] > 0
    BY SMT, <1>2, <1>3, <1>4 DEF Inv, Types
  <1>8. /\ job \in Jobs /\ job.pc \in {"send", "insert", "return"}
        /\ job.pc = "insert" => conf.cron
        /\ job.ts = ts /\ job.left \subseteq worker[k].left /\ job.sent = worker[k].sent \cup {t}
    BY <1>1, <1>3 DEF Jobs, AfterLoop
  <1>9. /\ worker' = [worker EXCEPT ![k] = job] /\ worker'[k] = job
        /\ \A j \in Workers : j # k => worker'[j] = worker[j]
    BY <1>1, <1>2 DEF Inv, Types, Jobs
  <1> HIDE DEF job
  <1>10. Types'
    BY <1>5, <1>8, <1>9, SetsKept DEF Send, Inv, Types
  <1>11. \A j \in Workers : JobKnows(j)'
    <2>1. \A x \in Tenants : \A u : Past(x, u) # {} /\ fired[x][Latest(x, u)] > 0
             => fired'[x][Latest(x, u)] > 0
      BY <1>6, LatestOccurs
    <2>2. ASSUME NEW j \in Workers, j # k PROVE JobKnows(j)'
      <3>1. JobKnows(j) /\ worker[j].sent \subseteq Tenants /\ worker'[j] = worker[j]
        BY <2>2, <1>9 DEF Inv, Types, Jobs
      <3> QED BY <3>1, <2>1 DEF Send, JobKnows, InWave
    <2>3. JobKnows(k)'
      <3>1. JobKnows(k) /\ worker[k].sent \subseteq Tenants
        BY <1>1 DEF Inv, Jobs
      <3>2. conf.cron => \A x \in job.sent : Past(x, ts) # {} /\ fired'[x][Latest(x, ts)] > 0
        BY <3>1, <2>1, <1>1, <1>4, <1>7, <1>8 DEF JobKnows
      <3> QED BY <3>1, <3>2, <1>1, <1>4, <1>8, <1>9 DEF Send, JobKnows, InWave
    <2> QED BY <2>2, <2>3
  <1>12. (\A j \in Workers : LockKnows(j)') /\ LockLasts'
    BY <1>8, <1>9, LockKept DEF Send
  <1>13. WatermarkHonest'
    BY <1>6, LatestOccurs DEF Send, Inv, WatermarkHonest, Past, Latest
  <1> QED BY <1>10, <1>11, <1>12, <1>13 DEF Inv

\* A dispatch the broker refuses leaves its tenant unsent and unmarked.
LEMMA SendFailsInv ==
  ASSUME Inv, NEW k \in Workers, SendFails(k) PROVE Inv'
  <1>1. worker[k] \in Jobs /\ worker[k].pc = "send"
    BY DEF Inv, Types, SendFails
  <1>2. PICK t \in worker[k].left :
          worker' = [worker EXCEPT
            ![k].left = @ \ {t},
            ![k].pc = IF worker[k].left = {t} THEN AfterLoop(worker[k].sent) ELSE "send"]
    BY DEF SendFails
  <1> DEFINE job == [worker[k] EXCEPT !.left = @ \ {t},
                !.pc = IF worker[k].left = {t} THEN AfterLoop(worker[k].sent) ELSE "send"]
  <1>3. /\ job \in Jobs /\ job.pc \in {"send", "insert", "return"}
        /\ job.pc = "insert" => conf.cron
        /\ job.ts = worker[k].ts /\ job.left \subseteq worker[k].left /\ job.sent = worker[k].sent
    BY <1>1 DEF Jobs, AfterLoop
  <1>4. worker' = [worker EXCEPT ![k] = job] /\ worker'[k] = job
    BY <1>1, <1>2 DEF Inv, Types, Jobs
  <1> HIDE DEF job
  <1>5. JobKnows(k)'
    BY <1>1, <1>3, <1>4 DEF SendFails, Inv, JobKnows, InWave
  <1> QED BY <1>3, <1>4, <1>5, WorkerMoves DEF SendFails, Inv, Types

\* mark_ran writes a clock at which everything it marks was sent.
LEMMA MarkInsertInv ==
  ASSUME Inv, NEW k \in Workers, MarkInsert(k) PROVE Inv'
  <1>1. worker[k] \in Jobs /\ worker[k].pc = "insert" /\ JobKnows(k)
    BY DEF Inv, Types, MarkInsert
  <1> DEFINE job == [worker[k] EXCEPT !.pc = "update"]
  <1>2. /\ job \in Jobs /\ job.pc = "update" /\ job.ts = worker[k].ts
        /\ job.left = worker[k].left /\ job.sent = worker[k].sent
    BY <1>1 DEF Jobs
  <1>3. /\ worker' = [worker EXCEPT ![k] = job] /\ worker'[k] = job
        /\ \A j \in Workers : j # k => worker'[j] = worker[j]
    BY <1>1 DEF MarkInsert, Inv, Types, Jobs
  <1> HIDE DEF job
  <1>4. worker[k].ts \in Instants
    BY <1>1 DEF JobKnows
  <1>5. Types'
    BY <1>2, <1>3, <1>4, SetsKept DEF MarkInsert, Inv, Types
  <1>6. JobKnows(k)'
    BY SMT, <1>1, <1>2, <1>3 DEF MarkInsert, JobKnows, InWave, Past, Latest
  <1>7. \A j \in Workers : JobKnows(j)'
    BY <1>3, <1>6, KeepsKnowing DEF MarkInsert, Inv
  <1>8. (\A j \in Workers : LockKnows(j)') /\ LockLasts'
    BY <1>2, <1>3, LockKept DEF MarkInsert
  <1>9. WatermarkHonest'
    BY <1>1 DEF MarkInsert, Inv, JobKnows, WatermarkHonest, Past, Latest
  <1> QED BY <1>5, <1>7, <1>8, <1>9 DEF Inv

\* mark_ran's UPDATE writes the clock of the batch, as its INSERT does.
LEMMA MarkUpdateInv ==
  ASSUME Inv, NEW k \in Workers, MarkUpdate(k) PROVE Inv'
  <1>1. worker[k] \in Jobs /\ worker[k].pc = "update" /\ JobKnows(k)
    BY DEF Inv, Types, MarkUpdate
  <1>2. /\ Idle \in Jobs /\ Idle.pc = "idle"
        /\ worker' = [worker EXCEPT ![k] = Idle]
        /\ JobKnows(k)'
    BY IdleKnows DEF MarkUpdate
  <1>3. \A j \in Workers : j # k => worker'[j] = worker[j]
    BY <1>2 DEF Inv, Types
  <1>4. worker[k].ts \in Instants
    BY <1>1 DEF JobKnows
  <1>5. Types'
    BY <1>2, <1>4, SetsKept DEF MarkUpdate, Inv, Types
  <1>6. \A j \in Workers : JobKnows(j)'
    BY <1>2, <1>3, KeepsKnowing DEF MarkUpdate, Inv
  <1>7. (\A j \in Workers : LockKnows(j)') /\ LockLasts'
    BY <1>2, LockKept DEF MarkUpdate
  <1>8. WatermarkHonest'
    BY <1>1 DEF MarkUpdate, Inv, JobKnows, WatermarkHonest, Past, Latest
  <1> QED BY <1>5, <1>6, <1>7, <1>8 DEF Inv

\* A job returns or its worker dies: the queue and the watermarks stay.
LEMMA EndsInv ==
  ASSUME Inv, NEW k \in Workers, Return(k) \/ Crash(k) PROVE Inv'
  <1>1. /\ Idle \in Jobs /\ Idle.pc = "idle"
        /\ worker' = [worker EXCEPT ![k] = Idle]
        /\ JobKnows(k)'
    BY IdleKnows DEF Return, Crash
  <1>2. worker[k].msg \in Messages
    BY DEF Inv, Types, Jobs
  <1>3. queue' \in Seq(Messages)
    <2>1. queue \in Seq(Messages)
      BY DEF Inv, Types
    <2>2. queue' = queue \/ queue' = Append(queue, worker[k].msg)
      BY DEF Return, Crash
    <2> QED BY SMT, <1>2, <2>1, <2>2
  <1> QED BY <1>1, <1>3, WorkerMoves DEF Return, Crash

\* Every step keeps the invariant.
LEMMA NextInv == Inv /\ [Next]_vars => Inv'
  <1> SUFFICES ASSUME Inv, [Next]_vars PROVE Inv'
    OBVIOUS
  <1>1. CASE Pass
    BY <1>1, PassInv
  <1>2. ASSUME NEW k \in Workers,
               \/ StartWave(k) \/ SkipWave(k) \/ DueCheck(k) \/ SendBatch(k) \/ WaveFails(k)
               \/ Release(k) \/ StartBatch(k) \/ Send(k) \/ SendFails(k)
               \/ MarkInsert(k) \/ MarkUpdate(k) \/ Return(k) \/ Crash(k)
        PROVE  Inv'
    BY <1>2, StartWaveInv, SkipWaveInv, DueCheckInv, SendBatchInv, WaveFailsInv, ReleaseInv,
       StartBatchInv, SendInv, SendFailsInv, MarkInsertInv, MarkUpdateInv, EndsInv
  <1>3. CASE UNCHANGED vars
    <2>1. Messages' = Messages /\ Jobs' = Jobs
      BY <1>3, SetsKept DEF vars
    <2>2. Types'
      BY <1>3, <2>1 DEF vars, Inv, Types
    <2> QED
      BY <1>3, <2>2
        DEF vars, Inv, JobKnows, LockKnows, LockLasts, WatermarkHonest, InWave, Past, Latest
  <1> QED BY <1>1, <1>2, <1>3 DEF Next

---------------------------------------------------------------------------
(* The theorems *)

\* The invariant holds in every reachable state.
THEOREM Invariance == Spec => []Inv
  BY InitInv, NextInv, PTL DEF Spec

\* The system checks of the beat schedule leave one entry per lock and watermark
\* key, so a tick brings one wave of it: what the two halves of E006 are for.
THEOREM OneWavePerTick == Spec => [](conf.waves = 1)
  <1>1. Inv => conf.waves = 1
    BY DEF Inv, Types
  <1> QED BY <1>1, Invariance, PTL

\* A watermark that suppresses an occurrence was written after a dispatch of it.
THEOREM Honest == Spec => []WatermarkHonest
  <1>1. Inv => WatermarkHonest
    BY DEF Inv
  <1> QED BY <1>1, Invariance, PTL

\* Two waves at once: one of them has outlived its lock.
THEOREM FreshWave == Spec => []OneFreshWave
  <1>1. Inv => OneFreshWave
    BY DEF Inv, OneFreshWave, LockKnows
  <1> QED BY <1>1, Invariance, PTL

\* No watermark moves backward: the INSERT writes rows that were not there, the
\* UPDATE older ones.
THEOREM Monotone == Spec => WatermarkMonotone
  <1>1. Inv /\ [Next]_vars => [\A t \in Tenants : last'[t] >= last[t]]_vars
    <2> SUFFICES ASSUME Inv, [Next]_vars, NEW t \in Tenants PROVE last'[t] >= last[t]
      OBVIOUS
    <2>1. last \in [Tenants -> Instants \cup {-1}] /\ last[t] \in Int
      BY SMT DEF Inv, Types, Instants
    <2>2. CASE UNCHANGED last
      BY SMT, <2>1, <2>2
    <2>3. ASSUME NEW k \in Workers, MarkInsert(k) \/ MarkUpdate(k) PROVE last'[t] >= last[t]
      <3>1. worker[k].ts \in Instants
        BY <2>3 DEF Inv, JobKnows, MarkInsert, MarkUpdate
      <3> QED BY SMT, <2>1, <2>3, <3>1 DEF MarkInsert, MarkUpdate, Instants
    <2> QED
      BY <2>2, <2>3
        DEF Next, vars, Pass, StartWave, SkipWave, DueCheck, SendBatch, WaveFails, Release,
            StartBatch, Send, SendFails, Return, Crash
  <1> QED BY <1>1, Invariance, PTL DEF Spec, WatermarkMonotone
---------------------------------------------------------------------------
(* Facts both invariants below need *)

\* The entry of a behaviour: a calendar entry passed E002.
Entry ==
  /\ faults \in Nat
  /\ conf.lag \in Nat
  /\ conf.cron => /\ conf.period \in Nat \ {0}
                  /\ GraceOf(conf) \in Nat /\ GraceOf(conf) >= conf.period

\* E002 and the types of the settings give the entry its types.
LEMMA InitEntry == Init => Entry
  <1> SUFFICES ASSUME Init PROVE Entry
    OBVIOUS
  <1>1. PICK written \in Schedules, lag \in Lags :
          LET s == [n \in DOMAIN written |-> scoped_schedule(written[n])]
          IN /\ \A n \in DOMAIN written : Classified(written[n])
             /\ Deployable(s)
             /\ \E n \in DOMAIN s :
                  /\ s[n].task = FANOUT_TASK_NAME
                  /\ conf = [cron |-> s[n].cron, grace |-> s[n].grace,
                             period |-> s[n].period, lag |-> lag,
                             waves |-> Cardinality({m \in DOMAIN s :
                                s[m].task = FANOUT_TASK_NAME /\ LockKey(s[m]) = LockKey(s[n])})]
    BY DEF Init
  <1> DEFINE s == [n \in DOMAIN written |-> scoped_schedule(written[n])]
  <1>2. PICK n \in DOMAIN s :
             /\ s[n].task = FANOUT_TASK_NAME
             /\ conf = [cron |-> s[n].cron, grace |-> s[n].grace,
                        period |-> s[n].period, lag |-> lag,
                        waves |-> Cardinality({m \in DOMAIN s :
                           s[m].task = FANOUT_TASK_NAME /\ LockKey(s[m]) = LockKey(s[n])})]
    BY <1>1
  <1> DEFINE e == written[n]
  <1>3. n \in DOMAIN written /\ s[n] = scoped_schedule(e)
    OBVIOUS
  <1>4. /\ e.grace \in Nat \cup {None} /\ e.period \in (Nat \ {0}) \cup {None}
        /\ lag \in Nat /\ TZ_GRACE_SECONDS \in Nat /\ FANOUT_PERIOD \in Nat \ {0}
    BY <1>3, FanoutConstants
  <1>5. E002(s[n])
    BY <1>1 DEF Deployable
  <1>6. /\ conf.lag = lag /\ conf.cron = s[n].cron /\ conf.grace = s[n].grace
        /\ conf.period = s[n].period
    BY <1>2
  <1> HIDE DEF s, e
  <1>7. /\ s[n].cron => s[n].grace = e.grace
        /\ s[n].cron => s[n].period = (IF e.period # None THEN e.period ELSE FANOUT_PERIOD)
    <2>1. scoped_schedule(e).cron => e.kind = "calendar"
      BY DEF scoped_schedule
    <2>2. /\ e.kind = "calendar" => s[n].grace = e.grace
          /\ e.kind = "calendar" =>
               s[n].period = IF e.period # None THEN e.period ELSE FANOUT_PERIOD
      BY SMT, <1>3 DEF scoped_schedule
    <2>3. s[n].cron => e.kind = "calendar"
      BY <1>3, <2>1
    <2> QED BY <2>2, <2>3
  <1>8. ASSUME conf.cron
        PROVE  /\ conf.period \in Nat \ {0}
               /\ GraceOf(conf) \in Nat /\ GraceOf(conf) >= conf.period
    <2>1. conf.grace = e.grace /\ conf.period = (IF e.period # None THEN e.period ELSE FANOUT_PERIOD)
      BY <1>6, <1>7, <1>8
    <2>2. GraceOf(conf) = GraceOf(s[n])
      BY <1>6 DEF GraceOf
    <2>3. GraceOf(s[n]) >= s[n].period
      BY <1>2, <1>5, <1>6, <1>8 DEF E002
    <2> QED BY <1>4, <1>6, <2>1, <2>2, <2>3 DEF GraceOf
  <1>9. faults \in Nat
    BY DEF Init
  <1> QED BY <1>4, <1>6, <1>8, <1>9 DEF Entry

\* The entry never changes, and faults are not taken back.
LEMMA EntryKept ==
  ASSUME Inv, [Next]_vars
  PROVE  UNCHANGED conf /\ faults' \in {faults, faults + 1} /\ (Entry => Entry')
  <1>1. UNCHANGED conf /\ faults' \in {faults, faults + 1}
    <2>1. CASE Pass \/ UNCHANGED vars
      BY <2>1 DEF vars, Pass
    <2>2. ASSUME NEW k \in Workers,
                 \/ StartWave(k) \/ SkipWave(k) \/ DueCheck(k) \/ SendBatch(k) \/ Release(k)
                 \/ StartBatch(k) \/ Send(k) \/ MarkInsert(k) \/ MarkUpdate(k) \/ Return(k)
          PROVE  UNCHANGED <<conf, faults>>
      BY <2>2 DEF StartWave, SkipWave, DueCheck, SendBatch, Release, StartBatch, Send,
         MarkInsert, MarkUpdate, Return
    <2>3. ASSUME NEW k \in Workers, WaveFails(k) \/ SendFails(k) \/ Crash(k)
          PROVE  UNCHANGED conf /\ faults' = faults + 1
      BY <2>3 DEF WaveFails, SendFails, Crash
    <2> QED BY <2>1, <2>2, <2>3 DEF Next
  <1>2. GraceOf(conf)' = GraceOf(conf)
    BY <1>1 DEF GraceOf
  <1> QED BY SMT, <1>1, <1>2 DEF Entry

\* Between two ticks the count of ticks stays.
LEMMA NoTick ==
  ASSUME NEW n \in Nat, NEW p \in Nat \ {0}, (n + 1) % p # 0
  PROVE  (n + 1) % p = (n % p) + 1 /\ (n + 1) \div p = n \div p /\ n % p \in Nat
  BY SMT

\* At a tick the count of ticks goes up by one.
LEMMA AtATick ==
  ASSUME NEW n \in Nat, NEW p \in Nat \ {0}, (n + 1) % p = 0
  PROVE  n % p = p - 1 /\ (n + 1) \div p = (n \div p) + 1
  BY SMT

\* The queue without its head.
LEMMA TailOf ==
  ASSUME NEW M, NEW q \in Seq(M), q # <<>>
  PROVE  /\ Head(q) = q[1] /\ Len(q) \in Nat \ {0} /\ 1 \in 1 .. Len(q)
         /\ Len(Tail(q)) = Len(q) - 1
         /\ \A i \in 1 .. Len(Tail(q)) : i + 1 \in 1 .. Len(q) /\ Tail(q)[i] = q[i + 1]
         /\ \A i \in 1 .. Len(q) : i # 1 => i - 1 \in 1 .. Len(Tail(q)) /\ Tail(q)[i - 1] = q[i]
  BY SMT

\* The queue with one message more.
LEMMA AppendOf ==
  ASSUME NEW M, NEW q \in Seq(M), NEW m \in M
  PROVE  /\ Len(Append(q, m)) = Len(q) + 1 /\ Len(q) \in Nat
         /\ \A i \in 1 .. Len(q) : Append(q, m)[i] = q[i]
         /\ Append(q, m)[Len(q) + 1] = m
  BY SMT

\* A job about a wave holds tenants exactly while it sends batches, and a job that
\* is done with its tenants holds none.
JobFilled(j) ==
  /\ j.pc = "batches" => j.left # {}
  /\ j.pc \in {"idle", "due", "release", "insert", "update", "return"} => j.left = {}
  /\ j.pc # "idle" => (IsWave(j.msg) <=> j.pc \in {"due", "batches", "release"})
Filled == \A k \in Workers : JobFilled(worker[k])

\* A step that gives worker k another job.
LEMMA JobStep ==
  ASSUME Inv, Filled, NEW k \in Workers, NEW job, worker' = [worker EXCEPT ![k] = job], JobFilled(job)
  PROVE  /\ Filled' /\ worker'[k] = job /\ \A j \in Workers \ {k} : worker'[j] = worker[j]
         /\ Busy' = (Busy \ {k}) \cup (IF job.pc = "idle" THEN {} ELSE {k})
  <1>1. worker'[k] = job /\ \A j \in Workers \ {k} : worker'[j] = worker[j]
    BY DEF Inv, Types
  <1> QED BY SMT, <1>1 DEF Filled, JobFilled, IsWave, Busy
---------------------------------------------------------------------------
(* No occurrence is dispatched twice *)

\* A calendar entry whose waves, with their batches, are done before the next tick,
\* and nothing has failed.
Paced == conf.cron /\ 2 * conf.lag < conf.period /\ faults = 0

\* The last tick.
Tick == now - (now % conf.period)

\* Messages and jobs are of the last tick, and within their lag.
InTime(m) == now <= m.at + conf.lag /\ m.at <= Tick + conf.lag
OfTick ==
  /\ \A i \in 1 .. Len(queue) : InTime(queue[i]) /\ (IsWave(queue[i]) => queue[i].at = Tick)
  /\ \A k \in Busy : InTime(worker[k].msg) /\ (InWave(k) => worker[k].msg.at = Tick)

\* Until its due check the wave of a tick is alone.
WaveAlone ==
  /\ \A i \in 1 .. Len(queue) : IsWave(queue[i]) => Len(queue) = 1 /\ Busy = {}
  /\ \A k \in Workers : worker[k].pc = "due" => queue = <<>> /\ Busy = {k}
  /\ \A j, k \in Workers : InWave(j) /\ InWave(k) => j = k

\* A tenant waits for its dispatch in one place.
Apart ==
  /\ \A i, j \in 1 .. Len(queue) : i # j => queue[i].batch \cap queue[j].batch = {}
  /\ \A i \in 1 .. Len(queue), k \in Workers : queue[i].batch \cap worker[k].left = {}
  /\ \A j, k \in Workers : j # k => worker[j].left \cap worker[k].left = {}

\* What waits has not been dispatched.
Unsent ==
  /\ \A i \in 1 .. Len(queue) : \A t \in queue[i].batch : fired[t][Latest(t, queue[i].ts)] = 0
  /\ \A k \in Workers : \A t \in worker[k].left : fired[t][Latest(t, worker[k].ts)] = 0

\* What was dispatched is marked, or about to be.
Marking(k, t, o) ==
  worker[k].pc \in {"send", "insert", "update"} /\ t \in worker[k].sent /\ o < worker[k].ts
Marked ==
  /\ \A t \in Tenants : \A o \in Occ[t] :
       fired[t][o] > 0 => last[t] > o \/ \E k \in Workers : Marking(k, t, o)
  /\ \A k \in Workers : worker[k].pc = "update" => \A t \in worker[k].sent : last[t] # -1

Once == \A t \in Tenants : \A o \in Occ[t] : fired[t][o] <= 1

OnceInv == Filled /\ (Paced => OfTick /\ WaveAlone /\ Apart /\ Unsent /\ Marked /\ Once)

\* At start there is nothing to dispatch.
LEMMA InitOnce == Init => OnceInv
  <1> SUFFICES ASSUME Init PROVE OnceInv
    OBVIOUS
  <1>1. Idle.pc = "idle" /\ Idle.left = {}
    BY DEF Idle, Job
  <1>2. \A k \in Workers : worker[k] = Idle
    BY DEF Init
  <1>3. Len(queue) = 0 /\ Busy = {} /\ \A k \in Workers : ~InWave(k)
    BY <1>1, <1>2 DEF Init, Busy, InWave
  <1>4. Filled
    BY <1>1, <1>2 DEF Filled, JobFilled
  <1>5. \A t \in Tenants : \A o \in Occ[t] : fired[t][o] = 0
    BY DEF Init
  <1> QED
    BY SMT, <1>1, <1>2, <1>3, <1>4, <1>5 DEF OnceInv, OfTick, WaveAlone, Apart, Unsent, Marked, Once

\* When the clock comes to a tick, what the last one brought is done with.
LEMMA TickEmpty ==
  ASSUME Inv, Entry, conf.cron, 2 * conf.lag < conf.period, OfTick, OnPace,
         (now + 1) % conf.period = 0
  PROVE  queue = <<>> /\ Busy = {}
  <1>0. conf.period \in Nat \ {0} /\ conf.lag \in Nat /\ now \in Nat
    BY SMT, FanoutConstants DEF Entry, Inv, Types, Instants
  <1>a. now % conf.period = conf.period - 1
    BY <1>0, AtATick
  <1>1. /\ conf.period \in Nat \ {0} /\ conf.lag \in Nat /\ now \in Nat
        /\ Tick = now - (conf.period - 1)
    BY <1>0, <1>a DEF Tick
  <1>2. ASSUME NEW m \in Messages, InTime(m), now < m.at + conf.lag PROVE FALSE
    <2>1. m.at \in Int
      BY SMT, <1>2, FanoutConstants DEF Messages, Instants
    <2> QED BY SMT, <1>1, <1>2, <2>1 DEF InTime
  <1>3. \A i \in 1 .. Len(queue) : queue[i] \in Messages
    BY SMT DEF Inv, Types
  <1>4. \A k \in Busy : worker[k].msg \in Messages
    BY DEF Inv, Types, Busy, Jobs
  <1>5. Busy = {}
    BY <1>2, <1>4 DEF OfTick, OnPace
  <1>6. 1 .. Len(queue) = {}
    BY <1>2, <1>3 DEF OfTick, OnPace
  <1>7. queue \in Seq(Messages)
    BY DEF Inv, Types
  <1> QED BY <1>5, <1>6, <1>7, TailOf

\* A tick brings one wave, to an empty queue.
LEMMA PassOnce ==
  ASSUME Inv, Entry, OnceInv, Pass PROVE OnceInv'
  <1>1. UNCHANGED <<conf, worker, last, fired, faults>> /\ now' = now + 1 /\ OnPace
    BY DEF Pass
  <1>2. Filled' /\ Busy' = Busy /\ \A k \in Workers : InWave(k)' <=> InWave(k)
    BY <1>1 DEF OnceInv, Filled, JobFilled, IsWave, Busy, InWave
  <1> SUFFICES ASSUME Paced' PROVE (OfTick /\ WaveAlone /\ Apart /\ Unsent /\ Marked /\ Once)'
    BY <1>2 DEF OnceInv
  <1>3. Paced /\ OfTick /\ WaveAlone /\ Apart /\ Unsent /\ Marked /\ Once
    BY <1>1 DEF Paced, OnceInv
  <1>4. conf.period \in Nat \ {0} /\ conf.lag \in Nat /\ now \in Nat
    BY SMT, <1>3, FanoutConstants DEF Entry, Inv, Types, Instants, Paced
  <1>5. Marked' /\ Once'
    BY <1>1, <1>3 DEF Marked, Marking, Once
  <1>6. CASE (now + 1) % conf.period = 0
    <2>1. queue = <<>> /\ Busy = {}
      BY <1>1, <1>3, <1>6, TickEmpty DEF Paced
    <2>2. conf.waves = 1
      BY DEF Inv, Types
    <2>3. Len(queue') = 1 /\ queue'[1] = Wave(now + 1)
      BY SMT, <1>6, <2>1, <2>2 DEF Pass
    <2>4. Tick' = now + 1
      BY SMT, <1>1, <1>4, <1>6 DEF Tick
    <2>5. \A i \in 1 .. Len(queue') : queue'[i].at = now + 1 /\ queue'[i].batch = {} /\ i = 1
      BY SMT, <2>3 DEF Wave
    <2>6. OfTick'
      BY SMT, <1>1, <1>2, <1>4, <2>1, <2>4, <2>5 DEF OfTick, InTime
    <2>7. \A k \in Workers : ~InWave(k) /\ worker[k].pc # "due"
      BY <2>1 DEF Busy, InWave
    <2>8. WaveAlone'
      BY <1>1, <1>2, <2>1, <2>3, <2>7 DEF WaveAlone
    <2>9. Apart' /\ Unsent'
      BY SMT, <1>1, <1>3, <2>5 DEF Apart, Unsent, Latest, Past
    <2> QED BY <1>5, <2>6, <2>8, <2>9
  <1>7. CASE (now + 1) % conf.period # 0
    <2>1. queue' = queue
      BY <1>7 DEF Pass
    <2>a. (now + 1) % conf.period = (now % conf.period) + 1 /\ now % conf.period \in Nat
      BY <1>4, <1>7, NoTick
    <2>2. Tick' = Tick
      BY SMT, <1>1, <1>4, <2>a DEF Tick
    <2>3. ASSUME NEW m \in Messages, InTime(m), now < m.at + conf.lag
          PROVE  now + 1 <= m.at + conf.lag
      <3>1. m.at \in Int
        BY SMT, <2>3, FanoutConstants DEF Messages, Instants
      <3> QED BY SMT, <1>4, <2>3, <3>1
    <2>4. /\ \A i \in 1 .. Len(queue) : queue[i] \in Messages
          /\ \A k \in Busy : worker[k].msg \in Messages
      BY SMT DEF Inv, Types, Busy, Jobs
    <2>5. OfTick'
      BY <1>1, <1>2, <1>3, <2>1, <2>2, <2>3, <2>4 DEF OfTick, InTime, OnPace, IsWave, Busy
    <2>6. WaveAlone'
      BY <1>1, <1>2, <1>3, <2>1 DEF WaveAlone, IsWave
    <2>7. Apart' /\ Unsent'
      BY SMT, <1>1, <1>3, <2>1 DEF Apart, Unsent, Latest, Past
    <2> QED BY <1>5, <2>5, <2>6, <2>7
  <1> QED BY <1>6, <1>7
\* A wave is taken from a queue that holds nothing else, with every worker idle.
LEMMA StartWaveOnce ==
  ASSUME Inv, Entry, OnceInv, NEW k \in Workers, StartWave(k) PROVE OnceInv'
  <1> DEFINE job == Job("due", Head(queue), now, {}, {})
  <1>1. /\ queue \in Seq(Messages) /\ queue # <<>> /\ IsWave(Head(queue)) /\ queue' = Tail(queue)
        /\ worker' = [worker EXCEPT ![k] = job]
        /\ UNCHANGED <<conf, now, last, fired, faults>>
    BY DEF Inv, Types, StartWave, Become
  <1>2. /\ job.pc = "due" /\ job.left = {} /\ job.sent = {} /\ job.ts = now /\ job.msg = Head(queue)
    BY DEF Job
  <1> HIDE DEF job
  <1>3. JobFilled(job)
    BY <1>1, <1>2 DEF JobFilled
  <1>4. /\ Filled' /\ worker'[k] = job /\ \A j \in Workers \ {k} : worker'[j] = worker[j]
        /\ Busy' = (Busy \ {k}) \cup {k}
    BY <1>1, <1>2, <1>3, JobStep DEF OnceInv
  <1> SUFFICES ASSUME Paced' PROVE (OfTick /\ WaveAlone /\ Apart /\ Unsent /\ Marked /\ Once)'
    BY <1>4 DEF OnceInv
  <1>5. OfTick /\ WaveAlone /\ Apart /\ Unsent /\ Marked /\ Once
    BY <1>1 DEF Paced, OnceInv
  <1>6. Head(queue) = queue[1] /\ 1 \in 1 .. Len(queue)
    BY <1>1, TailOf
  <1>7. Len(queue) = 1 /\ Busy = {}
    BY <1>1, <1>5, <1>6 DEF WaveAlone
  <1>8. Len(queue') = 0 /\ queue' = <<>> /\ Busy' = {k}
    BY SMT, <1>1, <1>4, <1>7, TailOf
  <1>9. OfTick'
    BY SMT, <1>1, <1>2, <1>4, <1>5, <1>6, <1>8 DEF OfTick, InTime, Tick
  <1>10. WaveAlone'
    BY SMT, <1>4, <1>8 DEF WaveAlone, Busy, InWave
  <1>11. Apart' /\ Unsent'
    BY SMT, <1>1, <1>2, <1>4, <1>5, <1>8 DEF Apart, Unsent, Latest, Past
  <1>12. Marked' /\ Once'
    <2>1. worker[k].pc = "idle"
      BY <1>7 DEF Busy
    <2> QED BY SMT, <1>1, <1>2, <1>4, <1>5, <2>1 DEF Marked, Marking, Once
  <1> QED BY <1>9, <1>10, <1>11, <1>12

\* A wave that finds the lock taken leaves the queue empty.
LEMMA SkipWaveOnce ==
  ASSUME Inv, Entry, OnceInv, NEW k \in Workers, SkipWave(k) PROVE OnceInv'
  <1>1. /\ queue \in Seq(Messages) /\ queue # <<>> /\ IsWave(Head(queue)) /\ queue' = Tail(queue)
        /\ UNCHANGED <<conf, now, worker, last, fired, faults>>
    BY DEF Inv, Types, SkipWave
  <1>2. Filled' /\ Busy' = Busy
    BY <1>1 DEF OnceInv, Filled, JobFilled, IsWave, Busy
  <1> SUFFICES ASSUME Paced' PROVE (OfTick /\ WaveAlone /\ Apart /\ Unsent /\ Marked /\ Once)'
    BY <1>2 DEF OnceInv
  <1>3. OfTick /\ WaveAlone /\ Apart /\ Unsent /\ Marked /\ Once
    BY <1>1 DEF Paced, OnceInv
  <1>4. Head(queue) = queue[1] /\ 1 \in 1 .. Len(queue)
    BY <1>1, TailOf
  <1>5. Len(queue) = 1 /\ Busy = {}
    BY <1>1, <1>3, <1>4 DEF WaveAlone
  <1>6. Len(queue') = 0 /\ \A j \in Workers : worker[j].pc = "idle" /\ ~InWave(j)
    BY SMT, <1>1, <1>5, TailOf DEF Busy, InWave
  <1>7. OfTick' /\ WaveAlone'
    BY SMT, <1>1, <1>2, <1>5, <1>6 DEF OfTick, WaveAlone, InWave
  <1>8. Apart' /\ Unsent'
    BY SMT, <1>1, <1>3, <1>6 DEF Apart, Unsent, Latest, Past
  <1>9. Marked' /\ Once'
    BY <1>1, <1>3 DEF Marked, Marking, Once
  <1> QED BY <1>7, <1>8, <1>9

\* The due check runs with nothing else at work, so what it finds newer than the
\* watermark has not been dispatched.
LEMMA DueCheckOnce ==
  ASSUME Inv, Entry, OnceInv, NEW k \in Workers, DueCheck(k) PROVE OnceInv'
  <1> DEFINE due == Targets(worker[k].ts)
             job == [worker[k] EXCEPT !.left = due, !.pc = IF due = {} THEN "release" ELSE "batches"]
  <1>1. /\ worker[k] \in Jobs /\ worker[k].pc = "due"
        /\ UNCHANGED <<conf, now, queue, last, fired, faults>>
    BY DEF Inv, Types, DueCheck
  <1>2. worker' = [worker EXCEPT ![k] = job]
    BY <1>1 DEF DueCheck, Inv, Types, Jobs
  <1>3. /\ job.pc = (IF due = {} THEN "release" ELSE "batches") /\ job.left = due
        /\ job.sent = worker[k].sent /\ job.ts = worker[k].ts /\ job.msg = worker[k].msg
    BY <1>1 DEF Jobs
  <1> HIDE DEF job
  <1>4. JobFilled(job)
    BY <1>1, <1>3 DEF JobFilled, OnceInv, Filled
  <1>5. /\ Filled' /\ worker'[k] = job /\ \A j \in Workers \ {k} : worker'[j] = worker[j]
        /\ Busy' = (Busy \ {k}) \cup {k}
    BY <1>2, <1>3, <1>4, JobStep DEF OnceInv
  <1> SUFFICES ASSUME Paced' PROVE (OfTick /\ WaveAlone /\ Apart /\ Unsent /\ Marked /\ Once)'
    BY <1>5 DEF OnceInv
  <1>6. conf.cron /\ OfTick /\ WaveAlone /\ Apart /\ Unsent /\ Marked /\ Once
    BY <1>1 DEF Paced, OnceInv
  <1>7. queue = <<>> /\ Len(queue) = 0 /\ Busy = {k} /\ Busy' = {k}
    BY SMT, <1>1, <1>5, <1>6 DEF WaveAlone
  <1>8. \A j \in Workers \ {k} : worker[j].pc = "idle" /\ worker[j].left = {}
    BY <1>7 DEF Busy, OnceInv, Filled, JobFilled
  <1>9. OfTick'
    BY SMT, <1>1, <1>3, <1>5, <1>6, <1>7 DEF OfTick, InTime, Tick, InWave
  <1>10. WaveAlone'
    BY SMT, <1>1, <1>3, <1>5, <1>7, <1>8 DEF WaveAlone, InWave
  <1>11. Apart'
    BY SMT, <1>1, <1>5, <1>7, <1>8 DEF Apart
  <1>12. \A t \in due : fired[t][Latest(t, worker[k].ts)] = 0
    <2> SUFFICES ASSUME NEW t \in due PROVE fired[t][Latest(t, worker[k].ts)] = 0
      OBVIOUS
    <2>1. t \in Tenants /\ Due(t, worker[k].ts)
      BY <1>6 DEF Targets
    <2> DEFINE o == Latest(t, worker[k].ts)
    <2>2. o \in Occ[t] /\ o > last[t]
      BY <2>1, LatestOccurs DEF Due
    <2>3. \A j \in Workers : ~Marking(j, t, o)
      BY <1>1, <1>8 DEF Marking
    <2> HIDE DEF o
    <2>4. o \in Int /\ last[t] \in Int /\ fired[t][o] \in Nat
      BY SMT, <2>1, <2>2, FanoutConstants DEF Inv, Types, Instants
    <2>5. ~(last[t] > o)
      BY SMT, <2>2, <2>4
    <2>6. ~(fired[t][o] > 0)
      BY <1>6, <2>1, <2>2, <2>3, <2>5 DEF Marked
    <2>7. fired[t][o] = 0
      BY SMT, <2>4, <2>6
    <2> QED BY <2>7 DEF o
  <1> HIDE DEF due
  <1>13. Unsent'
    <2>1. \A j \in Workers : \A t \in worker'[j].left : fired[t][Latest(t, worker'[j].ts)] = 0
      BY <1>3, <1>5, <1>8, <1>12
    <2>2. \A i \in 1 .. Len(queue') : \A t \in queue'[i].batch : fired[t][Latest(t, queue'[i].ts)] = 0
      BY <1>1, <1>6 DEF Unsent
    <2> QED BY <1>1, <2>1, <2>2 DEF Unsent, Latest, Past
  <1>14. Marked' /\ Once'
    BY SMT, <1>1, <1>3, <1>5, <1>6 DEF Marked, Marking, Once
  <1> QED BY <1>9, <1>10, <1>11, <1>13, <1>14
\* A batch takes its tenants from the wave, which keeps the others.
LEMMA SendBatchOnce ==
  ASSUME Inv, Entry, OnceInv, NEW k \in Workers, SendBatch(k) PROVE OnceInv'
  <1>1. /\ worker[k] \in Jobs /\ worker[k].pc = "batches" /\ worker[k].left # {}
        /\ worker[k].left \in SUBSET Tenants /\ worker[k].ts \in Instants
        /\ UNCHANGED <<conf, now, last, fired, faults>>
    BY DEF Inv, Types, SendBatch, OnceInv, Filled, JobFilled, Jobs, JobKnows, InWave
  <1>2. PICK S \in SUBSET worker[k].left :
          /\ S # {} /\ Cardinality(S) <= BatchSize
          /\ S = worker[k].left \/ Cardinality(S) = BatchSize
          /\ queue' = Append(queue, Batch(now, S, IF conf.cron THEN worker[k].ts ELSE None))
          /\ worker' = [worker EXCEPT ![k].left = @ \ S,
                          ![k].pc = IF S = worker[k].left THEN "release" ELSE "batches"]
    BY DEF SendBatch
  <1> DEFINE msg == Batch(now, S, IF conf.cron THEN worker[k].ts ELSE None)
             job == [worker[k] EXCEPT !.left = @ \ S,
                          !.pc = IF S = worker[k].left THEN "release" ELSE "batches"]
  <1>3. S # {}
    BY <1>2
  <1>4. /\ job.pc = (IF S = worker[k].left THEN "release" ELSE "batches")
        /\ job.left = worker[k].left \ S
        /\ job.sent = worker[k].sent /\ job.ts = worker[k].ts /\ job.msg = worker[k].msg
    BY <1>1 DEF Jobs
  <1>5. worker' = [worker EXCEPT ![k] = job]
    BY <1>1, <1>2 DEF Inv, Types, Jobs
  <1>6. msg.at = now /\ msg.batch = S /\ (conf.cron => msg.ts = worker[k].ts)
    BY DEF Batch
  <1>7. conf.cron => msg \in Messages
    <2>1. conf.cron => \A t \in worker[k].left : Past(t, worker[k].ts) # {}
      BY <1>1 DEF Inv, JobKnows
    <2> QED BY <1>1, <2>1 DEF Batch, Messages, IsWave, Inv, Types
  <1>8. queue' = Append(queue, msg)
    BY <1>2
  <1> HIDE DEF job, msg
  <1>9. JobFilled(job)
    BY <1>1, <1>2, <1>4 DEF JobFilled, OnceInv, Filled
  <1>10. /\ Filled' /\ worker'[k] = job /\ \A j \in Workers \ {k} : worker'[j] = worker[j]
         /\ Busy' = (Busy \ {k}) \cup {k}
    BY <1>4, <1>5, <1>9, JobStep DEF OnceInv
  <1> SUFFICES ASSUME Paced' PROVE (OfTick /\ WaveAlone /\ Apart /\ Unsent /\ Marked /\ Once)'
    BY <1>10 DEF OnceInv
  <1>11. /\ conf.cron /\ OfTick /\ WaveAlone /\ Apart /\ Unsent /\ Marked /\ Once
         /\ k \in Busy /\ Busy' = Busy /\ InWave(k)
    BY <1>1, <1>10 DEF Paced, OnceInv, Busy, InWave
  <1>12. /\ Len(queue') = Len(queue) + 1 /\ Len(queue) \in Nat
         /\ \A i \in 1 .. Len(queue) : queue'[i] = queue[i]
         /\ queue'[Len(queue) + 1] = msg
    <2>1. queue \in Seq(Messages)
      BY DEF Inv, Types
    <2> QED BY SMT, <1>7, <1>8, <1>11, <2>1, AppendOf
  <1>13. \A i \in 1 .. Len(queue') : (i \in 1 .. Len(queue) /\ queue'[i] = queue[i])
                                     \/ (i = Len(queue) + 1 /\ queue'[i] = msg)
    BY SMT, <1>12
  <1>14. \A i \in 1 .. Len(queue) : ~IsWave(queue[i])
    BY <1>11 DEF WaveAlone
  <1>15. OfTick'
    <2>1. InTime(msg)
      <3>1. now \in Nat /\ conf.lag \in Nat /\ worker[k].msg.at = Tick /\ InTime(worker[k].msg)
        BY SMT, <1>11, FanoutConstants DEF Inv, Types, Instants, Entry, OfTick
      <3>2. worker[k].msg.at \in Int
        BY SMT, <1>1, FanoutConstants DEF Jobs, Messages, Instants
      <3> QED BY SMT, <1>6, <3>1, <3>2 DEF InTime
    <2>2. Tick' = Tick /\ \A m : InTime(m)' <=> InTime(m)
      BY <1>1 DEF Tick, InTime
    <2>3. \A i \in 1 .. Len(queue') : (InTime(queue[i]) /\ ~IsWave(queue[i]))'
      BY <1>3, <1>6, <1>11, <1>13, <1>14, <2>1, <2>2 DEF OfTick, InTime, IsWave, Tick
    <2>4. \A j \in Busy' : (InTime(worker[j].msg) /\ (InWave(j) => worker[j].msg.at = Tick))'
      <3>1. \A j \in Busy' : /\ j \in Busy /\ worker'[j].msg = worker[j].msg
                             /\ InWave(j)' => InWave(j)
        BY <1>4, <1>10, <1>11 DEF Busy, InWave
      <3> QED BY <1>1, <1>11, <2>2, <3>1 DEF OfTick, InTime
    <2> QED BY <2>3, <2>4 DEF OfTick
  <1>16. WaveAlone'
    <2>1. \A i \in 1 .. Len(queue') : ~IsWave(queue'[i])
      BY <1>3, <1>6, <1>13, <1>14 DEF IsWave
    <2>2. \A j \in Workers : worker'[j].pc # "due"
      BY SMT, <1>1, <1>4, <1>10, <1>11 DEF WaveAlone
    <2>3. \A j \in Workers : InWave(j)' => InWave(j)
      BY <1>10, <1>11 DEF InWave
    <2> QED BY <1>11, <2>1, <2>2, <2>3 DEF WaveAlone, IsWave
  <1>17. Apart'
    <2>1. \A i \in 1 .. Len(queue) : queue[i].batch \cap S = {}
      BY <1>2, <1>11 DEF Apart
    <2>2. \A j \in Workers : worker'[j].left \subseteq worker[j].left /\ worker'[j].left \cap S = {}
      BY <1>2, <1>4, <1>10, <1>11 DEF Apart
    <2>3. \A i, j \in 1 .. Len(queue') : i # j => queue'[i].batch \cap queue'[j].batch = {}
      BY <1>6, <1>11, <1>13, <2>1 DEF Apart
    <2>4. \A i \in 1 .. Len(queue'), j \in Workers : queue'[i].batch \cap worker'[j].left = {}
      BY <1>6, <1>11, <1>13, <2>2 DEF Apart
    <2>5. \A i, j \in Workers : i # j => worker'[i].left \cap worker'[j].left = {}
      BY <1>11, <2>2 DEF Apart
    <2> QED BY <2>3, <2>4, <2>5 DEF Apart
  <1>18. Unsent'
    <2>1. \A t \in S : fired[t][Latest(t, msg.ts)] = 0
      BY <1>6, <1>11 DEF Unsent
    <2>2. \A i \in 1 .. Len(queue') : \A t \in queue'[i].batch : fired[t][Latest(t, queue'[i].ts)] = 0
      BY <1>6, <1>11, <1>13, <2>1 DEF Unsent
    <2>3. \A j \in Workers : worker'[j].left \subseteq worker[j].left /\ worker'[j].ts = worker[j].ts
      BY <1>4, <1>10
    <2>4. \A j \in Workers : \A t \in worker'[j].left : fired[t][Latest(t, worker'[j].ts)] = 0
      BY <1>11, <2>3 DEF Unsent
    <2> QED BY <1>1, <2>2, <2>4 DEF Unsent, Latest, Past
  <1>19. Marked' /\ Once'
    BY SMT, <1>1, <1>4, <1>10, <1>11 DEF Marked, Marking, Once
  <1> QED BY <1>15, <1>16, <1>17, <1>18, <1>19

\* A batch passes from the queue to a worker.
LEMMA StartBatchOnce ==
  ASSUME Inv, Entry, OnceInv, NEW k \in Workers, StartBatch(k) PROVE OnceInv'
  <1> DEFINE job == Job("send", Head(queue), Head(queue).ts, Head(queue).batch, {})
  <1>1. /\ queue \in Seq(Messages) /\ queue # <<>> /\ ~IsWave(Head(queue)) /\ queue' = Tail(queue)
        /\ worker' = [worker EXCEPT ![k] = job] /\ worker[k].pc = "idle"
        /\ UNCHANGED <<conf, now, last, fired, faults>>
    BY DEF Inv, Types, StartBatch, Become, Busy
  <1>2. /\ job.pc = "send" /\ job.left = Head(queue).batch /\ job.sent = {}
        /\ job.ts = Head(queue).ts /\ job.msg = Head(queue)
    BY DEF Job
  <1> HIDE DEF job
  <1>3. JobFilled(job)
    BY <1>1, <1>2 DEF JobFilled
  <1>4. /\ Filled' /\ worker'[k] = job /\ \A j \in Workers \ {k} : worker'[j] = worker[j]
        /\ Busy' = (Busy \ {k}) \cup {k}
    BY <1>1, <1>2, <1>3, JobStep DEF OnceInv
  <1> SUFFICES ASSUME Paced' PROVE (OfTick /\ WaveAlone /\ Apart /\ Unsent /\ Marked /\ Once)'
    BY <1>4 DEF OnceInv
  <1>5. OfTick /\ WaveAlone /\ Apart /\ Unsent /\ Marked /\ Once
    BY <1>1 DEF Paced, OnceInv
  <1>6. /\ Head(queue) = queue[1] /\ 1 \in 1 .. Len(queue)
        /\ \A i \in 1 .. Len(queue') :
             i + 1 \in 1 .. Len(queue) /\ queue'[i] = queue[i + 1] /\ i + 1 # 1 /\ i \in Nat
    BY SMT, <1>1, TailOf
  <1>7. \A i \in 1 .. Len(queue) : ~IsWave(queue[i])
    <2> SUFFICES ASSUME NEW i \in 1 .. Len(queue), IsWave(queue[i]) PROVE FALSE
      OBVIOUS
    <2>1. Len(queue) = 1
      BY <1>5 DEF WaveAlone
    <2> QED BY SMT, <1>1, <1>6, <2>1
  <1>8. OfTick'
    BY SMT, <1>1, <1>2, <1>4, <1>5, <1>6, <1>7 DEF OfTick, InTime, Tick, InWave, IsWave
  <1>9. WaveAlone'
    <2>1. \A j \in Workers : worker[j].pc # "due"
      BY <1>1, <1>5 DEF WaveAlone
    <2>2. \A j \in Workers : worker'[j].pc # "due" /\ (InWave(j)' => InWave(j))
      BY <1>2, <1>4, <2>1 DEF InWave
    <2>3. \A i \in 1 .. Len(queue') : ~IsWave(queue'[i])
      BY <1>6, <1>7
    <2> QED BY <1>5, <2>2, <2>3 DEF WaveAlone, IsWave
  <1>10. Apart'
    <2>1. \A i, j \in 1 .. Len(queue') : i # j => i + 1 # j + 1
      BY SMT, <1>6
    <2>2. \A i, j \in 1 .. Len(queue') : i # j => queue'[i].batch \cap queue'[j].batch = {}
      BY <1>5, <1>6, <2>1 DEF Apart
    <2>3. \A i \in 1 .. Len(queue'), j \in Workers : queue'[i].batch \cap worker'[j].left = {}
      BY SMT, <1>2, <1>4, <1>5, <1>6 DEF Apart
    <2>4. \A i, j \in Workers : i # j => worker'[i].left \cap worker'[j].left = {}
      BY SMT, <1>2, <1>4, <1>5, <1>6 DEF Apart
    <2> QED BY <2>2, <2>3, <2>4 DEF Apart
  <1>11. Unsent'
    <2>1. \A i \in 1 .. Len(queue') : \A t \in queue'[i].batch : fired[t][Latest(t, queue'[i].ts)] = 0
      BY SMT, <1>5, <1>6 DEF Unsent
    <2>2. \A j \in Workers : \A t \in worker'[j].left : fired[t][Latest(t, worker'[j].ts)] = 0
      <3>1. \A t \in job.left : fired[t][Latest(t, job.ts)] = 0
        BY <1>2, <1>5, <1>6 DEF Unsent
      <3> QED BY <1>4, <1>5, <3>1 DEF Unsent
    <2> QED BY <1>1, <2>1, <2>2 DEF Unsent, Latest, Past
  <1>12. Marked' /\ Once'
    BY SMT, <1>1, <1>2, <1>4, <1>5 DEF Marked, Marking, Once
  <1> QED BY <1>8, <1>9, <1>10, <1>11, <1>12

\* A job that goes on with fewer tenants, or ends.
LEMMA Narrows ==
  ASSUME Inv, OfTick, WaveAlone, Apart, NEW k \in Workers, NEW job,
         worker'[k] = job, \A j \in Workers \ {k} : worker'[j] = worker[j],
         UNCHANGED <<conf, now, queue>>, job.left \subseteq worker[k].left,
         worker[k].pc \notin {"idle", "due"},
         job.pc # "idle" => job.msg = worker[k].msg,
         job.pc \notin {"due", "batches", "release"}
  PROVE  (OfTick /\ WaveAlone /\ Apart)'
  <1>1. Busy' \subseteq Busy /\ k \in Busy
    BY DEF Busy
  <1>2. \A j \in Workers : InWave(j)' => InWave(j) /\ worker'[j] = worker[j]
    BY DEF InWave
  <1>3. OfTick'
    <2>1. Tick' = Tick
      BY DEF Tick
    <2>2. \A j \in Busy' : worker'[j].msg = worker[j].msg
      BY <1>1 DEF Busy
    <2>3. \A i \in 1 .. Len(queue') : (InTime(queue[i]) /\ (IsWave(queue[i]) => queue[i].at = Tick))'
      BY <2>1 DEF OfTick, IsWave, InTime
    <2>4. \A j \in Busy' : (InTime(worker[j].msg) /\ (InWave(j) => worker[j].msg.at = Tick))'
      BY SMT, <1>1, <1>2, <2>1, <2>2 DEF OfTick, InTime, Busy
    <2> QED BY <2>3, <2>4 DEF OfTick
  <1>4. \A i \in 1 .. Len(queue) : ~IsWave(queue[i])
    BY <1>1 DEF WaveAlone
  <1>5. \A j \in Workers : worker'[j].pc # "due"
    BY <1>1 DEF WaveAlone
  <1>6. WaveAlone'
    BY <1>2, <1>4, <1>5 DEF WaveAlone, IsWave
  <1>7. Apart'
    BY SMT DEF Apart
  <1> QED BY <1>3, <1>6, <1>7
\* The latest occurrence before a clock is before it, and no other is later.
LEMMA LatestIsLast ==
  ASSUME NEW t \in Tenants, NEW ts, Past(t, ts) # {}
  PROVE  Latest(t, ts) < ts /\ \A p \in Past(t, ts) : p <= Latest(t, ts)
  <1>1. Past(t, ts) \in SUBSET (0 .. MaxTime) /\ MaxTime \in Nat
    BY FanoutConstants DEF Past
  <1>2. Latest(t, ts) \in Past(t, ts) /\ \A p \in Past(t, ts) : Latest(t, ts) >= p
    BY <1>1, MaxExists DEF Latest
  <1>3. Latest(t, ts) < ts
    BY <1>2 DEF Past
  <1>4. \A p \in Past(t, ts) : p \in Int
    BY SMT, <1>1
  <1> QED BY <1>2, <1>3, <1>4

\* A dispatch is counted where it was not yet, for a tenant that waited nowhere else.
LEMMA SendOnce ==
  ASSUME Inv, Entry, OnceInv, NEW k \in Workers, Send(k) PROVE OnceInv'
  <1>1. /\ worker[k] \in Jobs /\ worker[k].pc = "send" /\ worker[k].left \in SUBSET Tenants
        /\ UNCHANGED <<conf, now, queue, last, faults>>
    BY DEF Inv, Types, Send, Jobs
  <1>2. PICK t \in worker[k].left :
          /\ worker' = [worker EXCEPT
               ![k].left = @ \ {t},
               ![k].sent = @ \cup {t},
               ![k].pc = IF worker[k].left = {t} THEN AfterLoop(worker[k].sent \cup {t}) ELSE "send"]
          /\ fired' = IF conf.cron THEN [fired EXCEPT ![t][Latest(t, worker[k].ts)] = @ + 1]
                                   ELSE fired
    BY DEF Send
  <1> DEFINE ts == worker[k].ts
             o == Latest(t, ts)
             job == [worker[k] EXCEPT !.left = @ \ {t}, !.sent = @ \cup {t},
                !.pc = IF worker[k].left = {t} THEN AfterLoop(worker[k].sent \cup {t}) ELSE "send"]
  <1>3. t \in Tenants
    BY <1>1
  <1>4. /\ job.pc = (IF worker[k].left = {t} THEN AfterLoop(worker[k].sent \cup {t}) ELSE "send")
        /\ job.left = worker[k].left \ {t} /\ job.sent = worker[k].sent \cup {t}
        /\ job.ts = ts /\ job.msg = worker[k].msg
    BY <1>1 DEF Jobs
  <1>5. worker' = [worker EXCEPT ![k] = job]
    BY <1>1, <1>2 DEF Inv, Types, Jobs
  <1> HIDE DEF job
  <1>6. JobFilled(job) /\ job.pc \in {"send", "insert", "return"} /\ (conf.cron => job.pc # "return")
    BY <1>1, <1>4 DEF JobFilled, OnceInv, Filled, AfterLoop
  <1>7. Filled' /\ worker'[k] = job /\ \A j \in Workers \ {k} : worker'[j] = worker[j]
    BY <1>5, <1>6, JobStep DEF OnceInv
  <1> SUFFICES ASSUME Paced' PROVE (OfTick /\ WaveAlone /\ Apart /\ Unsent /\ Marked /\ Once)'
    BY <1>7 DEF OnceInv
  <1>8. conf.cron /\ OfTick /\ WaveAlone /\ Apart /\ Unsent /\ Marked /\ Once
    BY <1>1 DEF Paced, OnceInv
  <1>9. (OfTick /\ WaveAlone /\ Apart)'
    BY <1>1, <1>4, <1>6, <1>7, <1>8, Narrows
  <1>10. Past(t, ts) # {} /\ o \in Occ[t] /\ o < ts
    <2>1. Past(t, ts) # {}
      BY <1>1, <1>8 DEF Inv, JobKnows
    <2> QED BY <1>3, <2>1, LatestOccurs, LatestIsLast
  <1>11. fired[t][o] = 0
    BY <1>8 DEF Unsent
  <1>12. fired' = [fired EXCEPT ![t][o] = @ + 1]
    BY <1>2, <1>8
  <1> HIDE DEF o, ts
  <1>13. /\ \A x \in Tenants \ {t} : fired'[x] = fired[x]
         /\ \A q \in Occ[t] \ {o} : fired'[t][q] = fired[t][q]
         /\ fired'[t][o] = 1
    BY SMT, <1>3, <1>10, <1>11, <1>12 DEF Inv, Types
  <1>14. Once'
    BY SMT, <1>8, <1>13 DEF Once
  <1>15. Unsent'
    <2>1. \A i \in 1 .. Len(queue) : t \notin queue[i].batch /\ queue[i].batch \subseteq Tenants
      BY SMT, <1>8 DEF Apart, Inv, Types, Messages
    <2>2. \A j \in Workers : t \notin worker'[j].left /\ worker'[j].left \subseteq worker[j].left
                             /\ worker'[j].left \subseteq Tenants /\ worker'[j].ts = worker[j].ts
      BY SMT, <1>1, <1>4, <1>7, <1>8 DEF Apart, Inv, Types, Jobs, ts
    <2>3. \A i \in 1 .. Len(queue) : \A x \in queue[i].batch : fired'[x][Latest(x, queue[i].ts)] = 0
      BY SMT, <1>8, <1>13, <2>1 DEF Unsent
    <2>4. \A j \in Workers : \A x \in worker'[j].left : fired'[x][Latest(x, worker'[j].ts)] = 0
      BY SMT, <1>8, <1>13, <2>2 DEF Unsent
    <2> QED BY SMT, <1>1, <2>3, <2>4 DEF Unsent, Latest, Past
  <1>16. Marked'
    <2>1. \A q \in Occ[t] : q = o => Marking(k, t, q)'
      BY <1>4, <1>6, <1>7, <1>8, <1>10 DEF Marking
    <2>2. \A j \in Workers, x \in Tenants, q \in Instants : Marking(j, x, q) => Marking(j, x, q)'
      BY <1>1, <1>4, <1>6, <1>7, <1>8 DEF Marking, ts
    <2>3. ASSUME NEW x \in Tenants, NEW q \in Occ[x], fired'[x][q] > 0
          PROVE  last'[x] > q \/ \E j \in Workers : Marking(j, x, q)'
      <3>1. CASE x = t /\ q = o
        BY <2>1, <3>1
      <3>2. CASE ~(x = t /\ q = o)
        <4>1. fired[x][q] > 0 /\ q \in Instants
          BY <1>13, <2>3, <3>2, FanoutConstants DEF Instants
        <4> QED BY <1>1, <1>8, <2>2, <4>1 DEF Marked
      <3> QED BY <3>1, <3>2
    <2>4. \A j \in Workers : worker'[j].pc = "update" => \A x \in worker'[j].sent : last'[x] # -1
      BY <1>1, <1>6, <1>7, <1>8 DEF Marked
    <2> QED BY <2>3, <2>4 DEF Marked
  <1> QED BY <1>9, <1>14, <1>15, <1>16

\* mark_ran puts the clock of the batch, or a later one, on what was sent.
LEMMA MarkInsertOnce ==
  ASSUME Inv, Entry, OnceInv, NEW k \in Workers, MarkInsert(k) PROVE OnceInv'
  <1> DEFINE job == [worker[k] EXCEPT !.pc = "update"]
  <1>1. /\ worker[k] \in Jobs /\ worker[k].pc = "insert" /\ worker[k].sent \subseteq Tenants
        /\ worker[k].ts \in Instants
        /\ UNCHANGED <<conf, now, queue, fired, faults>>
    BY DEF Inv, Types, MarkInsert, Jobs, JobKnows
  <1>2. worker' = [worker EXCEPT ![k] = job]
    BY <1>1 DEF MarkInsert, Inv, Types, Jobs
  <1>3. /\ job.pc = "update" /\ job.left = worker[k].left /\ job.sent = worker[k].sent
        /\ job.ts = worker[k].ts /\ job.msg = worker[k].msg
    BY <1>1 DEF Jobs
  <1> HIDE DEF job
  <1>4. JobFilled(job)
    BY <1>1, <1>3 DEF JobFilled, OnceInv, Filled
  <1>5. Filled' /\ worker'[k] = job /\ \A j \in Workers \ {k} : worker'[j] = worker[j]
    BY <1>2, <1>4, JobStep DEF OnceInv
  <1> SUFFICES ASSUME Paced' PROVE (OfTick /\ WaveAlone /\ Apart /\ Unsent /\ Marked /\ Once)'
    BY <1>5 DEF OnceInv
  <1>6. OfTick /\ WaveAlone /\ Apart /\ Unsent /\ Marked /\ Once
    BY <1>1 DEF Paced, OnceInv
  <1>7. (OfTick /\ WaveAlone /\ Apart)'
    BY <1>1, <1>3, <1>5, <1>6, Narrows
  <1>8. Once' /\ Unsent'
    BY SMT, <1>1, <1>3, <1>5, <1>6 DEF Once, Unsent, Latest, Past
  <1>9. \A t \in Tenants : /\ last'[t] \in Int /\ last[t] \in Int /\ last'[t] >= last[t]
                           /\ last[t] # -1 => last'[t] # -1
                           /\ t \in worker[k].sent => last'[t] # -1
    BY SMT, <1>1, FanoutConstants DEF MarkInsert, Inv, Types, Instants
  <1>10. \A j \in Workers, t \in Tenants, o \in Instants : Marking(j, t, o) => Marking(j, t, o)'
    BY <1>1, <1>3, <1>5 DEF Marking
  <1>11. Marked'
    <2>1. ASSUME NEW x \in Tenants, NEW q \in Occ[x], fired'[x][q] > 0
          PROVE  last'[x] > q \/ \E j \in Workers : Marking(j, x, q)'
      <3>1. q \in Instants /\ q \in Int
        BY SMT, FanoutConstants DEF Instants
      <3> QED BY SMT, <1>1, <1>6, <1>9, <1>10, <2>1, <3>1 DEF Marked
    <2>2. \A j \in Workers : worker'[j].pc = "update" => \A x \in worker'[j].sent : last'[x] # -1
      <3>1. \A j \in Workers : worker[j].sent \subseteq Tenants
        BY DEF Inv, Types, Jobs
      <3> QED BY <1>3, <1>5, <1>6, <1>9, <3>1 DEF Marked
    <2> QED BY <2>1, <2>2 DEF Marked
  <1> QED BY <1>7, <1>8, <1>11

\* ... and then the job is done.
LEMMA MarkUpdateOnce ==
  ASSUME Inv, Entry, OnceInv, NEW k \in Workers, MarkUpdate(k) PROVE OnceInv'
  <1>1. /\ worker[k] \in Jobs /\ worker[k].pc = "update" /\ worker[k].sent \subseteq Tenants
        /\ worker[k].ts \in Instants /\ worker' = [worker EXCEPT ![k] = Idle]
        /\ UNCHANGED <<conf, now, queue, fired, faults>>
    BY DEF Inv, Types, MarkUpdate, Jobs, JobKnows, Become
  <1>2. Idle.pc = "idle" /\ Idle.left = {} /\ JobFilled(Idle)
    BY DEF Idle, Job, JobFilled
  <1>3. Filled' /\ worker'[k] = Idle /\ \A j \in Workers \ {k} : worker'[j] = worker[j]
    BY <1>1, <1>2, JobStep DEF OnceInv
  <1> SUFFICES ASSUME Paced' PROVE (OfTick /\ WaveAlone /\ Apart /\ Unsent /\ Marked /\ Once)'
    BY <1>3 DEF OnceInv
  <1>4. OfTick /\ WaveAlone /\ Apart /\ Unsent /\ Marked /\ Once
    BY <1>1 DEF Paced, OnceInv
  <1>5. (OfTick /\ WaveAlone /\ Apart)'
    BY <1>1, <1>2, <1>3, <1>4, Narrows
  <1>6. Once' /\ Unsent'
    <2>1. Once'
      BY <1>1, <1>4 DEF Once
    <2>2. \A j \in Workers : \A x \in worker'[j].left : worker'[j] = worker[j]
      BY <1>2, <1>3
    <2>3. \A j \in Workers : \A x \in worker'[j].left : fired'[x][Latest(x, worker'[j].ts)] = 0
      BY <1>1, <1>4, <2>2 DEF Unsent
    <2>4. \A i \in 1 .. Len(queue') : \A x \in queue'[i].batch :
            fired'[x][Latest(x, queue'[i].ts)] = 0
      BY <1>1, <1>4 DEF Unsent
    <2> QED BY <2>1, <2>3, <2>4 DEF Unsent, Latest, Past
  <1>7. \A t \in Tenants : /\ last'[t] \in Int /\ last[t] \in Int /\ last'[t] >= last[t]
                           /\ last[t] # -1 => last'[t] # -1
                           /\ t \in worker[k].sent => last'[t] >= worker[k].ts
    <2>1. worker[k].ts \in Nat /\ \A t \in Tenants : last[t] \in Int
      BY SMT, <1>1, FanoutConstants DEF Inv, Types, Instants
    <2>2. \A t \in Tenants :
            last'[t] = IF t \in worker[k].sent /\ last[t] # -1 /\ last[t] < worker[k].ts
                       THEN worker[k].ts ELSE last[t]
      BY DEF MarkUpdate
    <2>3. \A t \in worker[k].sent : last[t] # -1
      BY <1>1, <1>4 DEF Marked
    <2> QED BY SMT, <2>1, <2>2, <2>3
  <1>8. Marked'
    <2>1. ASSUME NEW x \in Tenants, NEW q \in Occ[x], fired'[x][q] > 0
          PROVE  last'[x] > q \/ \E j \in Workers : Marking(j, x, q)'
      <3>1. q \in Int /\ worker[k].ts \in Int
        BY SMT, <1>1, FanoutConstants DEF Instants
      <3>2. CASE last[x] > q
        BY SMT, <1>7, <3>1, <3>2
      <3>3. CASE Marking(k, x, q)
        BY SMT, <1>7, <3>1, <3>3 DEF Marking
      <3>4. ASSUME NEW j \in Workers \ {k}, Marking(j, x, q) PROVE Marking(j, x, q)'
        BY <1>3, <3>4 DEF Marking
      <3> QED BY <1>1, <1>4, <2>1, <3>2, <3>3, <3>4 DEF Marked
    <2>2. \A j \in Workers : worker'[j].pc = "update" => \A x \in worker'[j].sent : last'[x] # -1
      <3>1. \A j \in Workers : worker[j].sent \subseteq Tenants
        BY DEF Inv, Types, Jobs
      <3> QED BY <1>2, <1>3, <1>4, <1>7, <3>1 DEF Marked
    <2> QED BY <2>1, <2>2 DEF Marked
  <1> QED BY <1>5, <1>6, <1>8

\* A job that marks nothing returns, and a wave releases its lock.
LEMMA EndsOnce ==
  ASSUME Inv, Entry, OnceInv, NEW k \in Workers, Release(k) \/ Return(k) PROVE OnceInv'
  <1>1. /\ worker[k].pc \in {"release", "return"} /\ worker' = [worker EXCEPT ![k] = Idle]
        /\ UNCHANGED <<conf, now, queue, fired, last, faults>>
    BY DEF Release, Return, Become
  <1>2. Idle.pc = "idle" /\ Idle.left = {} /\ JobFilled(Idle)
    BY DEF Idle, Job, JobFilled
  <1>3. Filled' /\ worker'[k] = Idle /\ \A j \in Workers \ {k} : worker'[j] = worker[j]
    BY <1>1, <1>2, JobStep DEF OnceInv
  <1> SUFFICES ASSUME Paced' PROVE (OfTick /\ WaveAlone /\ Apart /\ Unsent /\ Marked /\ Once)'
    BY <1>3 DEF OnceInv
  <1>4. OfTick /\ WaveAlone /\ Apart /\ Unsent /\ Marked /\ Once
    BY <1>1 DEF Paced, OnceInv
  <1>5. (OfTick /\ WaveAlone /\ Apart)'
    BY <1>1, <1>2, <1>3, <1>4, Narrows
  <1>6. Once' /\ Unsent'
    BY SMT, <1>1, <1>2, <1>3, <1>4 DEF Once, Unsent, Latest, Past
  <1>7. Marked'
    <2>1. \A j \in Workers, t \in Tenants, o \in Instants : Marking(j, t, o) => Marking(j, t, o)'
      BY <1>1, <1>3 DEF Marking
    <2>2. ASSUME NEW x \in Tenants, NEW q \in Occ[x], fired'[x][q] > 0
          PROVE  last'[x] > q \/ \E j \in Workers : Marking(j, x, q)'
      <3>1. q \in Instants
        BY FanoutConstants DEF Instants
      <3> QED BY <1>1, <1>4, <2>1, <2>2, <3>1 DEF Marked
    <2>3. \A j \in Workers : worker'[j].pc = "update" => \A x \in worker'[j].sent : last'[x] # -1
      BY SMT, <1>1, <1>2, <1>3, <1>4 DEF Marked
    <2> QED BY <2>2, <2>3 DEF Marked
  <1> QED BY <1>5, <1>6, <1>7

\* A fault ends the promise; what a job holds stays as it should be.
LEMMA FaultOnce ==
  ASSUME Inv, Entry, OnceInv, NEW k \in Workers, WaveFails(k) \/ SendFails(k) \/ Crash(k)
  PROVE  OnceInv'
  <1>1. faults' = faults + 1 /\ worker[k] \in Jobs
    BY DEF WaveFails, SendFails, Crash, Inv, Types
  <1>2. ASSUME WaveFails(k) PROVE Filled'
    <2> DEFINE job == [worker[k] EXCEPT !.left = {}, !.pc = "release"]
    <2>1. worker' = [worker EXCEPT ![k] = job]
      BY <1>1, <1>2 DEF WaveFails, Inv, Types, Jobs
    <2>2. job.pc = "release" /\ job.left = {} /\ job.msg = worker[k].msg
      BY <1>1 DEF Jobs
    <2> HIDE DEF job
    <2>3. JobFilled(job)
      BY <1>2, <2>2 DEF WaveFails, JobFilled, OnceInv, Filled
    <2> QED BY <2>1, <2>3, JobStep DEF OnceInv
  <1>3. ASSUME SendFails(k) PROVE Filled'
    <2>1. PICK t \in worker[k].left :
            worker' = [worker EXCEPT
              ![k].left = @ \ {t},
              ![k].pc = IF worker[k].left = {t} THEN AfterLoop(worker[k].sent) ELSE "send"]
      BY <1>3 DEF SendFails
    <2> DEFINE job == [worker[k] EXCEPT !.left = @ \ {t},
                !.pc = IF worker[k].left = {t} THEN AfterLoop(worker[k].sent) ELSE "send"]
    <2>2. worker' = [worker EXCEPT ![k] = job]
      BY <1>1, <2>1 DEF Inv, Types, Jobs
    <2>3. /\ job.pc = (IF worker[k].left = {t} THEN AfterLoop(worker[k].sent) ELSE "send")
          /\ job.left = worker[k].left \ {t} /\ job.msg = worker[k].msg
      BY <1>1 DEF Jobs
    <2> HIDE DEF job
    <2>4. JobFilled(job)
      BY <1>3, <2>3 DEF SendFails, JobFilled, OnceInv, Filled, AfterLoop
    <2> QED BY <2>2, <2>4, JobStep DEF OnceInv
  <1>4. ASSUME Crash(k) PROVE Filled'
    <2>1. JobFilled(Idle) /\ worker' = [worker EXCEPT ![k] = Idle]
      BY <1>4 DEF Idle, Job, JobFilled, Crash, Become
    <2> QED BY <2>1, JobStep DEF OnceInv
  <1>5. Filled'
    BY <1>2, <1>3, <1>4
  <1>6. ~Paced'
    BY SMT, <1>1 DEF Entry, Paced
  <1> QED BY <1>5, <1>6 DEF OnceInv

\* Without faults, and when a wave and its batches are done before the next tick,
\* no occurrence is dispatched twice: for any number of tenants, workers and ticks.
THEOREM PacedOnce == Spec => []OnceWhenPaced
  <1>1. Inv /\ Entry /\ OnceInv /\ [Next]_vars => OnceInv'
    <2> SUFFICES ASSUME Inv, Entry, OnceInv, [Next]_vars PROVE OnceInv'
      OBVIOUS
    <2>1. CASE Pass
      BY <2>1, PassOnce
    <2>2. ASSUME NEW k \in Workers,
                 \/ StartWave(k) \/ SkipWave(k) \/ DueCheck(k) \/ SendBatch(k) \/ WaveFails(k)
                 \/ Release(k) \/ StartBatch(k) \/ Send(k) \/ SendFails(k)
                 \/ MarkInsert(k) \/ MarkUpdate(k) \/ Return(k) \/ Crash(k)
          PROVE  OnceInv'
      BY <2>2, StartWaveOnce, SkipWaveOnce, DueCheckOnce, SendBatchOnce, StartBatchOnce,
         SendOnce, MarkInsertOnce, MarkUpdateOnce, EndsOnce, FaultOnce
    <2>3. CASE UNCHANGED vars
      <3>1. UNCHANGED <<conf, now, queue, worker, last, fired, faults>>
        BY <2>3 DEF vars
      <3>2. Filled' /\ (Paced' => Paced) /\ Busy' = Busy /\ Tick' = Tick
        BY <3>1 DEF OnceInv, Filled, JobFilled, Paced, Busy, Tick
      <3>3. OfTick => OfTick'
        BY <3>1, <3>2 DEF OfTick, InTime, InWave, IsWave
      <3>4. WaveAlone => WaveAlone'
        BY <3>1, <3>2 DEF WaveAlone, InWave, IsWave
      <3>5. (Apart => Apart') /\ (Once => Once')
        BY <3>1 DEF Apart, Once
      <3>6. (Unsent => Unsent') /\ (Marked => Marked')
        BY <3>1 DEF Unsent, Marked, Marking, Latest, Past
      <3> QED BY <3>2, <3>3, <3>4, <3>5, <3>6 DEF OnceInv
    <2> QED BY <2>1, <2>2, <2>3 DEF Next
  <1>2. OnceInv => OnceWhenPaced
    BY DEF OnceInv, Paced, Once, OnceWhenPaced
  <1> QED BY InitInv, InitEntry, InitOnce, NextInv, EntryKept, <1>1, <1>2, PTL DEF Spec
---------------------------------------------------------------------------
(* A missed tick is made good *)

\* A calendar entry with prompt workers, whose lock does not outlive a tick.
Prompt == conf.cron /\ conf.lag = 0 /\ LOCK_SECONDS <= conf.period

\* Everything happens at a tick, with the clock of that tick, for tenants that are
\* due at it.
Timely(t, ts) == Past(t, ts) # {} /\ ts - Latest(t, ts) <= GraceOf(conf)
MsgNow(m) == m.at = now /\ (~IsWave(m) => m.ts = now /\ \A t \in m.batch : Timely(t, now))
JobNow(j) == MsgNow(j.msg) /\ j.ts = now /\ \A t \in j.left \cup j.sent : Timely(t, now)
AtTick ==
  /\ \A i \in 1 .. Len(queue) : MsgNow(queue[i])
  /\ \A k \in Workers : worker[k].pc # "idle" => JobNow(worker[k])
  /\ queue # <<>> \/ Busy # {} => now % conf.period = 0
  /\ lock # None => lock.until <= Tick + LOCK_SECONDS

\* A watermark is the clock of a wave its tenant was due at.
Clocks == \A t \in Tenants : last[t] # -1 => Timely(t, last[t]) /\ last[t] <= now

\* The current tick may still dispatch the tenant.
WaveComing == lock = None /\ \E i \in 1 .. Len(queue) : IsWave(queue[i])
Held(k, t) ==
  worker[k].pc = "due" \/ (worker[k].pc \in {"batches", "send"} /\ t \in worker[k].left)
Coming(t) ==
  \/ WaveComing
  \/ \E k \in Workers : Held(k, t)
  \/ \E i \in 1 .. Len(queue) : t \in queue[i].batch

\* The ticks since an occurrence.
Ticks(o) == (now \div conf.period) - (o \div conf.period)

\* An occurrence that is owed a dispatch: within grace, and not dispatched.
Owed(t, o) ==
  /\ o \in Occ[t] /\ Alone(t, o) /\ o < now /\ now <= o + GraceOf(conf)
  /\ fired[t][o] = 0

\* Each tick that did not dispatch an occurrence had a fault of its own.
Excused ==
  \A t \in Tenants : \A o \in Occ[t] : Owed(t, o) =>
    \/ Ticks(o) <= faults
    \/ Ticks(o) <= faults + 1 /\ Coming(t)

HealInv == Prompt => AtTick /\ Clocks /\ Excused /\ SelfHeals

\* At start no occurrence has passed.
LEMMA InitHeal == Init => HealInv
  <1> SUFFICES ASSUME Init, Prompt PROVE AtTick /\ Clocks /\ Excused /\ SelfHeals
    BY DEF HealInv
  <1>1. Idle.pc = "idle"
    BY DEF Idle, Job
  <1>2. \A k \in Workers : worker[k].pc = "idle"
    BY <1>1 DEF Init
  <1>3. now = 0 /\ queue = <<>> /\ lock = None
    BY DEF Init
  <1>4. AtTick /\ Clocks
    <2>1. Clocks
      BY DEF Init, Clocks
    <2>2. Busy = {}
      BY <1>2 DEF Busy
    <2>3. \A i \in 1 .. Len(queue) : MsgNow(queue[i])
      BY SMT, <1>3
    <2> QED BY <1>2, <1>3, <2>1, <2>2, <2>3 DEF AtTick
  <1>5. \A t \in Tenants : \A o \in Occ[t] : o \in Nat /\ ~(o < now)
    BY SMT, <1>3, FanoutConstants
  <1>6. Excused
    BY <1>5 DEF Excused, Owed
  <1>7. GraceOf(conf) \in Nat
    BY InitEntry DEF Entry, Prompt
  <1>8. SelfHeals
    <2>1. \A t \in Tenants : \A o \in Occ[t] : ~(now > o + GraceOf(conf))
      BY SMT, <1>3, <1>5, <1>7
    <2> QED BY <2>1 DEF SelfHeals
  <1> QED BY <1>4, <1>6, <1>8

\* An occurrence that is owed is the latest one, and the watermark is older.
LEMMA OwedIsDue ==
  ASSUME Inv, Entry, Prompt, Clocks, NEW t \in Tenants, NEW o \in Occ[t], Alone(t, o),
         o < now, now <= o + GraceOf(conf)
  PROVE  /\ Past(t, now) # {} /\ Latest(t, now) = o
         /\ fired[t][o] = 0 => Due(t, now)
  <1>1. /\ now \in Nat /\ GraceOf(conf) \in Nat /\ o \in Nat
        /\ \A p \in Occ[t] : p \in Nat
    BY SMT, FanoutConstants DEF Inv, Types, Instants, Entry, Prompt
  <1>2. o \in Past(t, now)
    BY DEF Past
  <1>3. /\ Latest(t, now) \in Occ[t] /\ Latest(t, now) < now /\ o <= Latest(t, now)
    BY <1>2, LatestOccurs, LatestIsLast
  <1>4. Latest(t, now) = o
    <2>1. Latest(t, now) # o => Latest(t, now) + GraceOf(conf) < o \/ o + GraceOf(conf) < Latest(t, now)
      BY <1>3 DEF Alone
    <2>2. Latest(t, now) \in Nat
      BY <1>1, <1>3
    <2> QED BY SMT, <1>1, <1>3, <2>1, <2>2
  <1>5. ASSUME fired[t][o] = 0 PROVE last[t] < o
    <2>1. last[t] \in Int
      BY SMT, FanoutConstants DEF Inv, Types, Instants
    <2> SUFFICES ASSUME last[t] >= o PROVE FALSE
      BY SMT, <1>1, <2>1
    <2>2. last[t] # -1
      BY SMT, <1>1
    <2>3. /\ Past(t, last[t]) # {} /\ fired[t][Latest(t, last[t])] > 0
          /\ last[t] - Latest(t, last[t]) <= GraceOf(conf) /\ last[t] <= now
      BY <2>2 DEF Inv, WatermarkHonest, Clocks, Timely
    <2> DEFINE l == Latest(t, last[t])
    <2>4. l \in Occ[t] /\ l < last[t] /\ \A p \in Past(t, last[t]) : p <= l
      BY <2>3, LatestOccurs, LatestIsLast
    <2>5. l # o
      BY SMT, <1>5, <2>3
    <2>6. l + GraceOf(conf) < o \/ o + GraceOf(conf) < l
      BY <2>4, <2>5 DEF Alone
    <2>7. l \in Nat /\ last[t] - l <= GraceOf(conf)
      BY <1>1, <2>3, <2>4
    <2> HIDE DEF l
    <2> QED BY SMT, <1>1, <2>1, <2>3, <2>4, <2>6, <2>7
  <1>6. ASSUME fired[t][o] = 0 PROVE Due(t, now)
    <2>1. last[t] \in Int
      BY SMT, FanoutConstants DEF Inv, Types, Instants
    <2>2. o > last[t] /\ now - o <= GraceOf(conf)
      BY SMT, <1>1, <1>5, <1>6, <2>1
    <2> QED BY <1>2, <1>4, <2>2 DEF Due
  <1> QED BY <1>2, <1>4, <1>6

\* A step at an instant: what was owed and may still come, comes, or there was a
\* fault.
LEMMA StepHeals ==
  ASSUME Inv, Entry, Prompt, Excused, SelfHeals, UNCHANGED <<conf, now>>,
         \A t \in Tenants : \A o \in Occ[t] : fired'[t][o] \in Nat /\ fired'[t][o] >= fired[t][o],
         \/ faults' = faults + 1
         \/ faults' = faults /\ \A t \in Tenants : \A o \in Occ[t] :
              Owed(t, o) /\ fired'[t][o] = 0 /\ Coming(t) => Coming(t)'
  PROVE  (Excused /\ SelfHeals)'
  <1>1. /\ faults \in Nat /\ faults' \in Nat /\ faults <= faults'
        /\ \A t \in Tenants : \A o \in Occ[t] : fired[t][o] \in Nat
    BY SMT DEF Entry, Inv, Types
  <1>2. /\ GraceOf(conf)' = GraceOf(conf)
        /\ \A t \in Tenants : \A o \in Occ[t] : Alone(t, o)' <=> Alone(t, o)
    BY DEF GraceOf, Alone
  <1>3. \A t \in Tenants : \A o \in Occ[t] : Owed(t, o)' => Owed(t, o) /\ fired'[t][o] = 0
    BY SMT, <1>1, <1>2 DEF Owed
  <1>4. \A t \in Tenants : \A o \in Occ[t] : Ticks(o)' = Ticks(o) /\ Ticks(o) \in Int
    <2>1. now \in Nat /\ conf.period \in Nat \ {0} /\ \A t \in Tenants : \A o \in Occ[t] : o \in Nat
      BY SMT, FanoutConstants DEF Inv, Types, Instants, Entry, Prompt
    <2>2. \A n \in Nat, p \in Nat \ {0} : n \div p \in Int
      BY SMT
    <2> QED BY SMT, <2>1, <2>2 DEF Ticks
  <1>5. Excused'
    <2> SUFFICES ASSUME NEW t \in Tenants, NEW o \in Occ[t], Owed(t, o)'
                 PROVE  Ticks(o) <= faults' \/ (Ticks(o) <= faults' + 1 /\ Coming(t)')
      BY <1>4 DEF Excused
    <2>1. Owed(t, o) /\ fired'[t][o] = 0
      BY <1>3
    <2>2. Ticks(o) <= faults \/ (Ticks(o) <= faults + 1 /\ Coming(t))
      BY <2>1 DEF Excused
    <2>3. Ticks(o) \in Int
      BY <1>4
    <2> QED BY SMT, <1>1, <2>1, <2>2, <2>3
  <1>6. SelfHeals'
    <2>1. Spare' = Spare
      BY <1>2 DEF Spare
    <2>2. Spare \in Int
      <3>1. GraceOf(conf) \in Nat /\ conf.period \in Nat \ {0}
        BY DEF Entry, Prompt
      <3>2. (GraceOf(conf) \div conf.period) - 1 \in Int
        BY SMT, <3>1
      <3>3. \A x \in Int : Max({0, x}) \in Int
        <4> SUFFICES ASSUME NEW x \in Int PROVE Max({0, x}) \in Int
          OBVIOUS
        <4>1. \E m \in {0, x} : \A y \in {0, x} : m >= y
          BY SMT
        <4>2. Max({0, x}) \in {0, x}
          BY <4>1 DEF Max
        <4> QED BY SMT, <4>2
      <3> QED BY <3>2, <3>3 DEF Spare
    <2>3. faults' <= Spare' => faults <= Spare
      BY SMT, <1>1, <2>1, <2>2
    <2> QED BY SMT, <1>1, <1>2, <2>3 DEF SelfHeals
  <1> QED BY <1>5, <1>6

\* A step that dispatches nothing: the dispatches stay as they were.
LEMMA StillHeals ==
  ASSUME Inv, Entry, Prompt, Excused, SelfHeals, UNCHANGED <<conf, now, fired>>,
         \/ faults' = faults + 1
         \/ faults' = faults /\ \A t \in Tenants : \A o \in Occ[t] :
              Owed(t, o) /\ Coming(t) => Coming(t)'
  PROVE  (Excused /\ SelfHeals)'
  <1>1. \A t \in Tenants : \A o \in Occ[t] : fired[t][o] \in Nat
    BY DEF Inv, Types
  <1>2. \A n \in Nat : n >= n
    BY SMT
  <1> QED BY <1>1, <1>2, StepHeals

\* Whole periods add up.
LEMMA WholePeriods ==
  ASSUME NEW a \in Nat, NEW b \in Nat, NEW p \in Nat \ {0}
  PROVE  (a + b) \div p >= (a \div p) + (b \div p) /\ (b >= p => b \div p >= 1)
  <1>1. (a + b) \div p >= (a \div p) + (b \div p)
    BY SMT
  <1>2. b >= p => b \div p >= 1
    BY SMT
  <1> QED BY <1>1, <1>2

\* By the end of its grace an occurrence has seen more ticks than there are faults.
LEMMA EnoughTicks ==
  ASSUME Entry, Prompt, faults <= Spare, NEW o \in Nat, now = o + GraceOf(conf)
  PROVE  ~(Ticks(o) <= faults)
  <1> DEFINE g == GraceOf(conf)
             p == conf.period
  <1>1. g \in Nat /\ p \in Nat \ {0} /\ g >= p /\ faults \in Nat
    BY DEF Entry, Prompt
  <1>2. g \div p \in Int /\ o \div p \in Int /\ (o + g) \div p \in Int
    BY SMT, <1>1
  <1>3. (o + g) \div p >= (o \div p) + (g \div p) /\ g \div p >= 1
    BY <1>1, WholePeriods
  <1>4. Spare = (g \div p) - 1
    <2>1. \A x \in Int : x >= 0 => Max({0, x}) = x
      <3> SUFFICES ASSUME NEW x \in Int, x >= 0 PROVE Max({0, x}) = x
        OBVIOUS
      <3>1. x \in {0, x} /\ \A y \in {0, x} : x >= y
        BY SMT
      <3>2. Max({0, x}) \in {0, x} /\ \A y \in {0, x} : Max({0, x}) >= y
        BY <3>1 DEF Max
      <3> QED BY SMT, <3>2
    <2>2. (g \div p) - 1 \in Int /\ (g \div p) - 1 >= 0
      BY SMT, <1>2, <1>3
    <2> QED BY <2>1, <2>2 DEF Spare
  <1>5. Ticks(o) = ((o + g) \div p) - (o \div p)
    BY DEF Ticks
  <1> HIDE DEF g, p
  <1> QED BY SMT, <1>1, <1>2, <1>3, <1>4, <1>5

\* The clock moves on when the tick is worked off, and a tick finds the lock free.
LEMMA PassHeal ==
  ASSUME Inv, Entry, HealInv, Pass PROVE HealInv'
  <1>1. UNCHANGED <<conf, worker, last, fired, faults>> /\ now' = now + 1 /\ OnPace
    BY DEF Pass
  <1>2. GraceOf(conf)' = GraceOf(conf)
    BY <1>1 DEF GraceOf
  <1> SUFFICES ASSUME Prompt PROVE (AtTick /\ Clocks /\ Excused /\ SelfHeals)'
    BY <1>1 DEF HealInv, Prompt
  <1>3. AtTick /\ Clocks /\ Excused /\ SelfHeals
    BY DEF HealInv
  <1>4. /\ conf.period \in Nat \ {0} /\ conf.lag = 0 /\ now \in Nat /\ GraceOf(conf) \in Nat
        /\ GraceOf(conf) >= conf.period /\ faults \in Nat
        /\ \A t \in Tenants : \A o \in Occ[t] : o \in Nat
    BY SMT, FanoutConstants DEF Entry, Inv, Types, Instants, Prompt
  <1>5. queue = <<>> /\ Busy = {} /\ Busy' = {}
    <2>1. \A i \in 1 .. Len(queue) : FALSE
      BY SMT, <1>1, <1>3, <1>4 DEF AtTick, MsgNow, OnPace
    <2>2. queue \in Seq(Messages)
      BY DEF Inv, Types
    <2>3. queue = <<>>
      BY <2>1, <2>2, TailOf
    <2>4. \A k \in Busy : FALSE
      BY SMT, <1>1, <1>3, <1>4 DEF AtTick, JobNow, MsgNow, OnPace, Busy
    <2> QED BY <1>1, <2>3, <2>4 DEF Busy
  <1>6. \A k \in Workers : worker[k].pc = "idle"
    BY <1>5 DEF Busy
  <1>7. \A t \in Tenants : ~Coming(t)
    BY SMT, <1>5, <1>6 DEF Coming, WaveComing, Held
  <1>8. \A t \in Tenants : \A o \in Occ[t] : Owed(t, o) => Ticks(o) <= faults
    BY <1>3, <1>7 DEF Excused
  <1>9. Clocks'
    <2>1. \A t \in Tenants : last[t] \in Int
      BY SMT, FanoutConstants DEF Inv, Types, Instants
    <2> QED BY SMT, <1>1, <1>2, <1>3, <1>4, <2>1 DEF Clocks, Timely
  <1>10. \A t \in Tenants : \A o \in Occ[t] : Alone(t, o)' <=> Alone(t, o)
    BY <1>2 DEF Alone
  <1>11. SelfHeals'
    <2> SUFFICES ASSUME faults <= Spare, NEW t \in Tenants, NEW o \in Occ[t], Alone(t, o),
                        now + 1 > o + GraceOf(conf)
                 PROVE  fired[t][o] > 0
      <3>1. Spare' = Spare
        BY <1>1, <1>2 DEF Spare
      <3> QED BY <1>1, <1>2, <1>10, <3>1 DEF SelfHeals
    <2>1. CASE now > o + GraceOf(conf)
      BY <1>3, <2>1 DEF SelfHeals, Prompt
    <2>2. CASE now = o + GraceOf(conf)
      <3>1. o \in Nat /\ fired[t][o] \in Nat
        BY <1>4 DEF Inv, Types
      <3>2. ~(Ticks(o) <= faults)
        BY <2>2, <3>1, EnoughTicks
      <3>3. o < now /\ now <= o + GraceOf(conf)
        BY SMT, <1>4, <2>2, <3>1
      <3>4. ~Owed(t, o)
        BY <1>8, <3>2
      <3> QED BY SMT, <3>1, <3>3, <3>4 DEF Owed
    <2> QED BY SMT, <1>4, <2>1, <2>2
  <1>12. ASSUME NEW t \in Tenants, NEW o \in Occ[t], Owed(t, o)'
         PROVE  /\ Ticks(o) <= faults
                /\ Ticks(o)' = ((now + 1) \div conf.period) - (o \div conf.period)
                /\ Ticks(o) = (now \div conf.period) - (o \div conf.period)
                /\ o \div conf.period \in Int /\ now \div conf.period \in Int
    <2>1. o \in Nat /\ o \div conf.period \in Int /\ now \div conf.period \in Int
      BY SMT, <1>4
    <2>2. CASE o < now
      <3>1. Owed(t, o)
        BY SMT, <1>1, <1>2, <1>4, <1>10, <1>12, <2>1, <2>2 DEF Owed
      <3> QED BY <1>1, <1>8, <2>1, <3>1 DEF Ticks
    <2>3. CASE o = now
      <3>1. Ticks(o) = 0
        BY SMT, <2>1, <2>3 DEF Ticks
      <3> QED BY SMT, <1>1, <1>4, <2>1, <3>1 DEF Ticks
    <2>4. o < now \/ o = now
      BY SMT, <1>1, <1>4, <1>12, <2>1 DEF Owed
    <2> QED BY <2>2, <2>3, <2>4
  <1>13. CASE (now + 1) % conf.period = 0
    <2>1. conf.waves = 1 /\ (lock # None => lock.until \in Int)
      BY DEF Inv, Types, LockLasts
    <2>2. Len(queue') = 1 /\ queue'[1] = Wave(now + 1) /\ queue' # <<>>
      BY SMT, <1>5, <1>13, <2>1 DEF Pass
    <2>a. now % conf.period = conf.period - 1 /\ (now + 1) \div conf.period = (now \div conf.period) + 1
      BY <1>4, <1>13, AtATick
    <2>3. lock' = None
      <3>1. lock # None => lock.until <= now + 1
        <4>1. Tick = now - (conf.period - 1)
          BY <2>a DEF Tick
        <4>2. LOCK_SECONDS \in Nat /\ LOCK_SECONDS <= conf.period
          BY FanoutConstants DEF Prompt
        <4> QED BY SMT, <1>3, <1>4, <2>1, <4>1, <4>2 DEF AtTick
      <3> QED BY <3>1 DEF Pass
    <2>4. \A i \in 1 .. Len(queue') : IsWave(queue'[i]) /\ queue'[i].at = now + 1 /\ i = 1
      BY SMT, <2>2 DEF Wave, IsWave
    <2>5. AtTick'
      BY <1>1, <1>6, <1>13, <2>3, <2>4 DEF AtTick, MsgNow, IsWave
    <2>6. \A t \in Tenants : Coming(t)'
      BY SMT, <2>2, <2>3, <2>4 DEF Coming, WaveComing, IsWave
    <2>7. Excused'
      BY SMT, <1>1, <1>4, <1>12, <2>a, <2>6 DEF Excused
    <2> QED BY <1>9, <1>11, <2>5, <2>7
  <1>14. CASE (now + 1) % conf.period # 0
    <2>1. queue' = queue
      BY <1>14 DEF Pass
    <2>a. /\ (now + 1) % conf.period = (now % conf.period) + 1 /\ now % conf.period \in Nat
          /\ (now + 1) \div conf.period = now \div conf.period
      BY <1>4, <1>14, NoTick
    <2>2. Tick' = Tick
      BY SMT, <1>1, <1>4, <2>a DEF Tick
    <2>3. lock' \in {None, lock}
      BY DEF Pass
    <2>4. AtTick'
      BY SMT, <1>1, <1>3, <1>5, <1>6, <2>1, <2>2, <2>3 DEF AtTick
    <2>5. Excused'
      BY <1>1, <1>12, <2>a DEF Excused
    <2> QED BY <1>9, <1>11, <2>4, <2>5
  <1> QED BY <1>13, <1>14

\* A step at an instant that gives worker k another job.
LEMMA JobHeals ==
  ASSUME Inv, AtTick, NEW k \in Workers, NEW job, worker' = [worker EXCEPT ![k] = job],
         UNCHANGED <<conf, now>>, job.pc = "idle" \/ JobNow(job),
         \A i \in 1 .. Len(queue') : MsgNow(queue'[i]), queue # <<>> \/ Busy # {},
         \/ lock' \in {None, lock}
         \/ lock' = [owner |-> k, until |-> now + LOCK_SECONDS]
  PROVE  AtTick' /\ worker'[k] = job /\ \A j \in Workers \ {k} : worker'[j] = worker[j]
  <1>1. worker'[k] = job /\ \A j \in Workers \ {k} : worker'[j] = worker[j]
    BY DEF Inv, Types
  <1>2. now % conf.period = 0 /\ now \in Nat
    BY SMT, FanoutConstants DEF AtTick, Inv, Types, Instants
  <1>3. \A i \in 1 .. Len(queue') : (\A q : q = queue'[i] => MsgNow(q)')
    BY DEF MsgNow, Timely, GraceOf
  <1>4. \A j \in Workers : worker'[j].pc # "idle" => (\A q : q = worker'[j] => JobNow(q)')
    <2>1. \A q : JobNow(q) => JobNow(q)'
      BY DEF JobNow, MsgNow, Timely, GraceOf
    <2>2. \A j \in Workers : worker'[j].pc # "idle" => JobNow(worker'[j])
      BY <1>1 DEF AtTick
    <2> QED BY <2>1, <2>2
  <1>5. Tick' = Tick /\ Tick = now
    BY SMT, <1>2 DEF Tick
  <1>6. lock' # None => lock'.until <= Tick + LOCK_SECONDS
    BY SMT, <1>2, <1>5, FanoutConstants DEF AtTick
  <1> QED BY <1>1, <1>2, <1>3, <1>4, <1>5, <1>6 DEF AtTick

\* The watermarks stay what they were.
LEMMA ClocksKept ==
  ASSUME Clocks, UNCHANGED <<conf, now, last>> PROVE Clocks'
  BY DEF Clocks, Timely, GraceOf

\* What a tenant waited for stays, but for the job of worker k and the head of the
\* queue.
LEMMA ComingKept ==
  ASSUME NEW k \in Workers, NEW t \in Tenants, Coming(t),
         \A j \in Workers \ {k} : worker'[j] = worker[j],
         WaveComing => Coming(t)', Held(k, t) => Coming(t)',
         \A i \in 1 .. Len(queue) : t \in queue[i].batch => Coming(t)'
  PROVE  Coming(t)'
  <1>1. \A j \in Workers \ {k} : Held(j, t) => Held(j, t)'
    BY DEF Held
  <1> QED BY <1>1 DEF Coming

\* A wave that takes the lock will look at every tenant.
LEMMA StartWaveHeal ==
  ASSUME Inv, Entry, HealInv, NEW k \in Workers, StartWave(k) PROVE HealInv'
  <1>1. UNCHANGED <<conf, now, last, fired, faults>> /\ queue # <<>> /\ IsWave(Head(queue))
    BY DEF StartWave
  <1> SUFFICES ASSUME Prompt PROVE (AtTick /\ Clocks /\ Excused /\ SelfHeals)'
    BY <1>1 DEF HealInv, Prompt
  <1>2. AtTick /\ Clocks /\ Excused /\ SelfHeals
    BY DEF HealInv
  <1> DEFINE job == Job("due", Head(queue), now, {}, {})
  <1>3. /\ job.pc = "due" /\ job.msg = Head(queue) /\ job.ts = now /\ job.left = {} /\ job.sent = {}
        /\ worker' = [worker EXCEPT ![k] = job]
    BY DEF StartWave, Become, Job
  <1> HIDE DEF job
  <1>4. /\ Head(queue) = queue[1] /\ 1 \in 1 .. Len(queue) /\ queue' = Tail(queue)
        /\ \A i \in 1 .. Len(queue') : i + 1 \in 1 .. Len(queue) /\ queue'[i] = queue[i + 1]
    BY SMT, <1>1, TailOf DEF StartWave, Inv, Types
  <1>5. JobNow(job) /\ \A i \in 1 .. Len(queue') : MsgNow(queue'[i])
    BY <1>2, <1>3, <1>4 DEF AtTick, JobNow
  <1>6. lock' = [owner |-> k, until |-> now + LOCK_SECONDS]
    BY DEF StartWave
  <1>7. AtTick' /\ worker'[k] = job
    BY <1>1, <1>2, <1>3, <1>5, <1>6, JobHeals
  <1>8. \A t \in Tenants : Coming(t)'
    BY <1>3, <1>7 DEF Coming, Held
  <1>9. (Excused /\ SelfHeals)'
    BY <1>1, <1>2, <1>8, StillHeals
  <1> QED BY <1>1, <1>2, <1>7, <1>9, ClocksKept

\* A wave that finds the lock taken brings nothing.
LEMMA SkipWaveHeal ==
  ASSUME Inv, Entry, HealInv, NEW k \in Workers, SkipWave(k) PROVE HealInv'
  <1>1. UNCHANGED <<conf, now, worker, lock, last, fired, faults>> /\ queue # <<>> /\ IsWave(Head(queue))
        /\ lock # None
    BY DEF SkipWave
  <1> SUFFICES ASSUME Prompt PROVE (AtTick /\ Clocks /\ Excused /\ SelfHeals)'
    BY <1>1 DEF HealInv, Prompt
  <1>2. AtTick /\ Clocks /\ Excused /\ SelfHeals
    BY DEF HealInv
  <1>4. /\ Head(queue) = queue[1] /\ queue' = Tail(queue)
        /\ \A i \in 1 .. Len(queue') : i + 1 \in 1 .. Len(queue) /\ queue'[i] = queue[i + 1]
        /\ \A i \in 1 .. Len(queue) : i # 1 => i - 1 \in 1 .. Len(queue') /\ queue'[i - 1] = queue[i]
    BY SMT, <1>1, TailOf DEF SkipWave, Inv, Types
  <1>5. \A i \in 1 .. Len(queue') : MsgNow(queue'[i])
    BY <1>2, <1>4 DEF AtTick
  <1>6. worker' = [worker EXCEPT ![k] = worker[k]] /\ (worker[k].pc = "idle" \/ JobNow(worker[k]))
    BY <1>1, <1>2 DEF AtTick, Inv, Types
  <1>7. AtTick'
    BY <1>1, <1>2, <1>5, <1>6, JobHeals
  <1>8. ASSUME NEW t \in Tenants, Coming(t) PROVE Coming(t)'
    <2>1. Held(k, t) => Coming(t)'
      BY <1>1 DEF Held, Coming
    <2>2. \A i \in 1 .. Len(queue) : t \in queue[i].batch => Coming(t)'
      BY <1>1, <1>4 DEF Coming, IsWave
    <2>3. ~WaveComing
      BY <1>1 DEF WaveComing
    <2> QED BY <1>1, <1>8, <2>1, <2>2, <2>3, ComingKept
  <1>9. (Excused /\ SelfHeals)'
    BY <1>1, <1>2, <1>8, StillHeals
  <1> QED BY <1>1, <1>2, <1>7, <1>9, ClocksKept

\* The due check finds every tenant that is owed a dispatch.
LEMMA DueCheckHeal ==
  ASSUME Inv, Entry, HealInv, NEW k \in Workers, DueCheck(k) PROVE HealInv'
  <1>1. /\ UNCHANGED <<conf, now, queue, lock, last, fired, faults>> /\ worker[k].pc = "due"
        /\ worker[k] \in Jobs
    BY DEF DueCheck, Inv, Types
  <1> SUFFICES ASSUME Prompt PROVE (AtTick /\ Clocks /\ Excused /\ SelfHeals)'
    BY <1>1 DEF HealInv, Prompt
  <1>2. AtTick /\ Clocks /\ Excused /\ SelfHeals
    BY DEF HealInv
  <1> DEFINE due == Targets(worker[k].ts)
             job == [worker[k] EXCEPT !.left = due, !.pc = IF due = {} THEN "release" ELSE "batches"]
  <1>3. /\ worker' = [worker EXCEPT ![k] = job]
        /\ job.pc = (IF due = {} THEN "release" ELSE "batches") /\ job.left = due
        /\ job.msg = worker[k].msg /\ job.ts = worker[k].ts /\ job.sent = worker[k].sent
    <2>1. worker' = [worker EXCEPT ![k] = job]
      BY <1>1 DEF DueCheck, Inv, Types, Jobs
    <2> QED BY <1>1, <2>1 DEF Jobs
  <1>4. worker[k].ts = now /\ JobNow(worker[k])
    BY <1>1, <1>2 DEF AtTick, JobNow
  <1>5. \A t \in Tenants : t \in due <=> Due(t, now)
    BY <1>4 DEF Targets, Prompt
  <1>6. due \subseteq Tenants
    BY DEF Targets
  <1> HIDE DEF due, job
  <1>7. JobNow(job)
    BY <1>3, <1>4, <1>5, <1>6 DEF JobNow, Due, Timely
  <1>8. k \in Busy /\ \A i \in 1 .. Len(queue') : MsgNow(queue'[i])
    BY <1>1, <1>2 DEF AtTick, Busy
  <1>9. AtTick' /\ worker'[k] = job /\ \A j \in Workers \ {k} : worker'[j] = worker[j]
    BY <1>1, <1>2, <1>3, <1>7, <1>8, JobHeals
  <1>10. ASSUME NEW t \in Tenants, NEW o \in Occ[t], Owed(t, o), Coming(t) PROVE Coming(t)'
    <2>1. t \in due
      BY <1>2, <1>5, <1>10, OwedIsDue DEF Owed
    <2>2. Held(k, t)'
      BY <1>3, <1>9, <2>1 DEF Held
    <2> QED BY <2>2 DEF Coming
  <1>11. (Excused /\ SelfHeals)'
    BY <1>1, <1>2, <1>10, StillHeals
  <1> QED BY <1>1, <1>2, <1>9, <1>11, ClocksKept

\* A tenant of the wave goes into a batch, or waits for a later one.
LEMMA SendBatchHeal ==
  ASSUME Inv, Entry, HealInv, NEW k \in Workers, SendBatch(k) PROVE HealInv'
  <1>1. /\ UNCHANGED <<conf, now, lock, last, fired, faults>> /\ worker[k].pc = "batches"
        /\ worker[k] \in Jobs
    BY DEF SendBatch, Inv, Types
  <1>2. PICK S \in SUBSET worker[k].left :
          /\ queue' = Append(queue, Batch(now, S, IF conf.cron THEN worker[k].ts ELSE None))
          /\ worker' = [worker EXCEPT ![k].left = @ \ S,
                          ![k].pc = IF S = worker[k].left THEN "release" ELSE "batches"]
    BY DEF SendBatch
  <1> SUFFICES ASSUME Prompt PROVE (AtTick /\ Clocks /\ Excused /\ SelfHeals)'
    BY <1>1 DEF HealInv, Prompt
  <1>3. AtTick /\ Clocks /\ Excused /\ SelfHeals /\ conf.cron
    BY DEF HealInv, Prompt
  <1> DEFINE msg == Batch(now, S, worker[k].ts)
             job == [worker[k] EXCEPT !.left = @ \ S,
                          !.pc = IF S = worker[k].left THEN "release" ELSE "batches"]
  <1>4. /\ job.pc = (IF S = worker[k].left THEN "release" ELSE "batches")
        /\ job.left = worker[k].left \ S
        /\ job.sent = worker[k].sent /\ job.ts = worker[k].ts /\ job.msg = worker[k].msg
    BY <1>1 DEF Jobs
  <1>5. worker' = [worker EXCEPT ![k] = job]
    BY <1>1, <1>2 DEF Inv, Types, Jobs
  <1>6. msg.at = now /\ msg.batch = S /\ msg.ts = worker[k].ts
    BY DEF Batch
  <1>7. msg \in Messages
    <2>1. worker[k].ts \in Instants /\ \A t \in worker[k].left : Past(t, worker[k].ts) # {}
      BY <1>1, <1>3 DEF Inv, JobKnows
    <2>2. worker[k].left \subseteq Tenants
      BY <1>1 DEF Jobs
    <2> QED BY <2>1, <2>2 DEF Batch, Messages, IsWave, Inv, Types
  <1>8. queue' = Append(queue, msg)
    BY <1>2, <1>3
  <1> HIDE DEF job, msg
  <1>9. /\ Len(queue') = Len(queue) + 1 /\ Len(queue) \in Nat
        /\ \A i \in 1 .. Len(queue) : queue'[i] = queue[i]
        /\ queue'[Len(queue) + 1] = msg
    BY SMT, <1>7, <1>8, AppendOf DEF Inv, Types
  <1>10. JobNow(worker[k])
    BY <1>1, <1>3 DEF AtTick
  <1>11. JobNow(job) /\ MsgNow(msg)
    BY <1>4, <1>6, <1>10 DEF JobNow, MsgNow
  <1>12. k \in Busy /\ \A i \in 1 .. Len(queue') : MsgNow(queue'[i])
    <2>1. \A i \in 1 .. Len(queue') : i \in 1 .. Len(queue) \/ i = Len(queue) + 1
      BY SMT, <1>9
    <2> QED BY <1>1, <1>3, <1>9, <1>11, <2>1 DEF AtTick, Busy
  <1>13. AtTick' /\ worker'[k] = job /\ \A j \in Workers \ {k} : worker'[j] = worker[j]
    BY <1>1, <1>3, <1>5, <1>11, <1>12, JobHeals
  <1>14. ASSUME NEW t \in Tenants, Coming(t) PROVE Coming(t)'
    <2>1. \A i \in 1 .. Len(queue) : i \in 1 .. Len(queue')
      BY SMT, <1>9
    <2>2. WaveComing => Coming(t)'
      BY <1>1, <1>9, <2>1 DEF WaveComing, Coming, IsWave
    <2>3. \A i \in 1 .. Len(queue) : t \in queue[i].batch => Coming(t)'
      BY <1>9, <2>1 DEF Coming
    <2>4. Held(k, t) => Coming(t)'
      <3>1. CASE t \in S
        <4>1. Len(queue) + 1 \in 1 .. Len(queue')
          BY SMT, <1>9
        <4> QED BY <1>6, <1>9, <3>1, <4>1 DEF Coming
      <3>2. CASE t \notin S
        BY <1>1, <1>4, <1>13, <3>2 DEF Coming, Held
      <3> QED BY <3>1, <3>2
    <2> QED BY <1>13, <1>14, <2>2, <2>3, <2>4, ComingKept
  <1>15. (Excused /\ SelfHeals)'
    BY <1>1, <1>3, <1>14, StillHeals
  <1> QED BY <1>1, <1>3, <1>13, <1>15, ClocksKept

\* The tenants of a batch go from the queue to the worker.
LEMMA StartBatchHeal ==
  ASSUME Inv, Entry, HealInv, NEW k \in Workers, StartBatch(k) PROVE HealInv'
  <1>1. /\ UNCHANGED <<conf, now, lock, last, fired, faults>> /\ queue # <<>> /\ ~IsWave(Head(queue))
        /\ worker[k].pc = "idle"
    BY DEF StartBatch, Busy
  <1> SUFFICES ASSUME Prompt PROVE (AtTick /\ Clocks /\ Excused /\ SelfHeals)'
    BY <1>1 DEF HealInv, Prompt
  <1>2. AtTick /\ Clocks /\ Excused /\ SelfHeals
    BY DEF HealInv
  <1> DEFINE job == Job("send", Head(queue), Head(queue).ts, Head(queue).batch, {})
  <1>3. /\ job.pc = "send" /\ job.msg = Head(queue) /\ job.ts = Head(queue).ts
        /\ job.left = Head(queue).batch /\ job.sent = {}
        /\ worker' = [worker EXCEPT ![k] = job]
    BY DEF StartBatch, Become, Job
  <1> HIDE DEF job
  <1>4. /\ Head(queue) = queue[1] /\ 1 \in 1 .. Len(queue) /\ queue' = Tail(queue)
        /\ \A i \in 1 .. Len(queue') : i + 1 \in 1 .. Len(queue) /\ queue'[i] = queue[i + 1]
        /\ \A i \in 1 .. Len(queue) : i # 1 => i - 1 \in 1 .. Len(queue') /\ queue'[i - 1] = queue[i]
    BY SMT, <1>1, TailOf DEF StartBatch, Inv, Types
  <1>5. JobNow(job) /\ \A i \in 1 .. Len(queue') : MsgNow(queue'[i])
    <2>1. MsgNow(Head(queue)) /\ \A i \in 1 .. Len(queue') : MsgNow(queue'[i])
      BY <1>2, <1>4 DEF AtTick
    <2>2. Head(queue).ts = now /\ \A t \in Head(queue).batch : Timely(t, now)
      BY <1>1, <2>1 DEF MsgNow
    <2> QED BY <1>3, <2>1, <2>2 DEF JobNow
  <1>6. AtTick' /\ worker'[k] = job /\ \A j \in Workers \ {k} : worker'[j] = worker[j]
    BY <1>1, <1>2, <1>3, <1>5, JobHeals
  <1>7. ASSUME NEW t \in Tenants, Coming(t) PROVE Coming(t)'
    <2>1. WaveComing => Coming(t)'
      BY <1>1, <1>4 DEF WaveComing, Coming, IsWave
    <2>2. ASSUME NEW i \in 1 .. Len(queue), t \in queue[i].batch PROVE Coming(t)'
      <3>1. CASE i = 1
        <4>1. Held(k, t)'
          BY <1>3, <1>4, <1>6, <2>2, <3>1 DEF Held
        <4> QED BY <4>1 DEF Coming
      <3>2. CASE i # 1
        BY <1>4, <2>2, <3>2 DEF Coming
      <3> QED BY <3>1, <3>2
    <2>3. ~Held(k, t)
      BY <1>1 DEF Held
    <2> QED BY <1>6, <1>7, <2>1, <2>2, <2>3, ComingKept
  <1>8. (Excused /\ SelfHeals)'
    BY <1>1, <1>2, <1>7, StillHeals
  <1> QED BY <1>1, <1>2, <1>6, <1>8, ClocksKept

\* What is owed is sent, or still held.
LEMMA SendHeal ==
  ASSUME Inv, Entry, HealInv, NEW k \in Workers, Send(k) PROVE HealInv'
  <1>1. /\ worker[k] \in Jobs /\ worker[k].pc = "send" /\ worker[k].left \in SUBSET Tenants
        /\ UNCHANGED <<conf, now, queue, lock, last, faults>>
    BY DEF Inv, Types, Send, Jobs
  <1>2. PICK t \in worker[k].left :
          /\ worker' = [worker EXCEPT
               ![k].left = @ \ {t},
               ![k].sent = @ \cup {t},
               ![k].pc = IF worker[k].left = {t} THEN AfterLoop(worker[k].sent \cup {t}) ELSE "send"]
          /\ fired' = IF conf.cron THEN [fired EXCEPT ![t][Latest(t, worker[k].ts)] = @ + 1]
                                   ELSE fired
    BY DEF Send
  <1> SUFFICES ASSUME Prompt PROVE (AtTick /\ Clocks /\ Excused /\ SelfHeals)'
    BY <1>1 DEF HealInv, Prompt
  <1>3. AtTick /\ Clocks /\ Excused /\ SelfHeals /\ conf.cron
    BY DEF HealInv, Prompt
  <1> DEFINE job == [worker[k] EXCEPT !.left = @ \ {t}, !.sent = @ \cup {t},
                !.pc = IF worker[k].left = {t} THEN AfterLoop(worker[k].sent \cup {t}) ELSE "send"]
  <1>4. /\ job.pc = (IF worker[k].left = {t} THEN AfterLoop(worker[k].sent \cup {t}) ELSE "send")
        /\ job.left = worker[k].left \ {t} /\ job.sent = worker[k].sent \cup {t}
        /\ job.ts = worker[k].ts /\ job.msg = worker[k].msg
    BY <1>1 DEF Jobs
  <1>5. worker' = [worker EXCEPT ![k] = job]
    BY <1>1, <1>2 DEF Inv, Types, Jobs
  <1> HIDE DEF job
  <1>6. JobNow(worker[k]) /\ k \in Busy /\ \A i \in 1 .. Len(queue') : MsgNow(queue'[i])
    BY <1>1, <1>3 DEF AtTick, Busy
  <1>7. JobNow(job)
    BY <1>4, <1>6 DEF JobNow
  <1>8. AtTick' /\ worker'[k] = job /\ \A j \in Workers \ {k} : worker'[j] = worker[j]
    BY <1>1, <1>3, <1>5, <1>6, <1>7, JobHeals
  <1>9. t \in Tenants /\ Past(t, now) # {} /\ Latest(t, now) \in Occ[t] /\ worker[k].ts = now
    <2>1. t \in Tenants /\ Past(t, now) # {} /\ worker[k].ts = now
      BY <1>1, <1>6 DEF JobNow, Timely
    <2> QED BY <2>1, LatestOccurs
  <1>10. fired' = [fired EXCEPT ![t][Latest(t, now)] = @ + 1]
    BY <1>2, <1>3, <1>9
  <1>11. /\ \A x \in Tenants : \A q \in Occ[x] : fired'[x][q] \in Nat /\ fired'[x][q] >= fired[x][q]
         /\ fired'[t][Latest(t, now)] # 0
    <2> DEFINE o == Latest(t, now)
    <2>1. o \in Occ[t] /\ fired' = [fired EXCEPT ![t][o] = @ + 1]
      BY <1>9, <1>10
    <2> HIDE DEF o
    <2>2. /\ \A x \in Tenants \ {t} : fired'[x] = fired[x]
          /\ \A q \in Occ[t] \ {o} : fired'[t][q] = fired[t][q]
          /\ fired'[t][o] = fired[t][o] + 1
      BY <1>9, <2>1 DEF Inv, Types
    <2>3. \A x \in Tenants : \A q \in Occ[x] : fired[x][q] \in Nat
      BY DEF Inv, Types
    <2>4. fired'[t][o] # 0
      BY SMT, <1>9, <2>1, <2>2, <2>3
    <2>5. \A x \in Tenants : \A q \in Occ[x] : fired'[x][q] \in Nat /\ fired'[x][q] >= fired[x][q]
      BY SMT, <1>9, <2>1, <2>2, <2>3
    <2> QED BY <2>4, <2>5 DEF o
  <1>12. ASSUME NEW x \in Tenants, NEW q \in Occ[x], Owed(x, q), fired'[x][q] = 0, Coming(x)
         PROVE  Coming(x)'
    <2>1. x # t
      BY <1>3, <1>11, <1>12, OwedIsDue DEF Owed
    <2>2. Held(k, x) => Coming(x)'
      <3>1. Held(k, x) => Held(k, x)'
        BY <1>1, <1>4, <1>8, <2>1 DEF Held
      <3> QED BY <3>1 DEF Coming
    <2>3. WaveComing => Coming(x)'
      BY <1>1 DEF WaveComing, Coming
    <2>4. \A i \in 1 .. Len(queue) : x \in queue[i].batch => Coming(x)'
      BY <1>1 DEF Coming
    <2> QED BY <1>8, <1>12, <2>2, <2>3, <2>4, ComingKept
  <1>13. (Excused /\ SelfHeals)'
    BY <1>1, <1>3, <1>11, <1>12, StepHeals
  <1> QED BY <1>1, <1>3, <1>8, <1>13, ClocksKept

\* A job that holds nothing to send ends, or goes on to mark.
LEMMA HoldsNothingHeal ==
  ASSUME Inv, Entry, Prompt, AtTick, Excused, SelfHeals, NEW k \in Workers, NEW job,
         worker' = [worker EXCEPT ![k] = job], job.pc = "idle" \/ JobNow(job),
         worker[k].pc \in {"release", "insert", "update", "return"},
         UNCHANGED <<conf, now, queue, fired, faults>>, lock' \in {None, lock}
  PROVE  (AtTick /\ Excused /\ SelfHeals)'
  <1>1. k \in Busy /\ \A i \in 1 .. Len(queue') : MsgNow(queue'[i])
    BY DEF AtTick, Busy
  <1>2. AtTick' /\ \A j \in Workers \ {k} : worker'[j] = worker[j]
    BY <1>1, JobHeals
  <1>3. ASSUME NEW t \in Tenants, Coming(t) PROVE Coming(t)'
    <2>1. ~Held(k, t)
      BY DEF Held
    <2>2. WaveComing => Coming(t)'
      BY DEF WaveComing, Coming
    <2>3. \A i \in 1 .. Len(queue) : t \in queue[i].batch => Coming(t)'
      BY DEF Coming
    <2> QED BY <1>2, <1>3, <2>1, <2>2, <2>3, ComingKept
  <1>4. (Excused /\ SelfHeals)'
    BY <1>3, StillHeals
  <1> QED BY <1>2, <1>4

\* A wave releases its lock; a batch that marks nothing returns.
LEMMA EndsHeal ==
  ASSUME Inv, Entry, HealInv, NEW k \in Workers, Release(k) \/ Return(k) PROVE HealInv'
  <1>1. /\ worker[k].pc \in {"release", "return"} /\ worker' = [worker EXCEPT ![k] = Idle]
        /\ UNCHANGED <<conf, now, queue, fired, last, faults>> /\ lock' \in {None, lock}
    BY DEF Release, Return, Become
  <1> SUFFICES ASSUME Prompt PROVE (AtTick /\ Clocks /\ Excused /\ SelfHeals)'
    BY <1>1 DEF HealInv, Prompt
  <1>2. AtTick /\ Clocks /\ Excused /\ SelfHeals
    BY DEF HealInv
  <1>3. Idle.pc = "idle"
    BY DEF Idle, Job
  <1>4. (AtTick /\ Excused /\ SelfHeals)'
    BY <1>1, <1>2, <1>3, HoldsNothingHeal
  <1> QED BY <1>1, <1>2, <1>4, ClocksKept

\* mark_ran writes the clock of a wave its tenants were due at.
LEMMA MarkHeal ==
  ASSUME Inv, Entry, HealInv, NEW k \in Workers, MarkInsert(k) \/ MarkUpdate(k) PROVE HealInv'
  <1>1. /\ worker[k] \in Jobs /\ worker[k].pc \in {"insert", "update"}
        /\ UNCHANGED <<conf, now, queue, fired, faults>> /\ lock' \in {None, lock}
        /\ \A t \in Tenants : last'[t] = last[t] \/ (t \in worker[k].sent /\ last'[t] = worker[k].ts)
    BY DEF MarkInsert, MarkUpdate, Inv, Types
  <1> SUFFICES ASSUME Prompt PROVE (AtTick /\ Clocks /\ Excused /\ SelfHeals)'
    BY <1>1 DEF HealInv, Prompt
  <1>2. AtTick /\ Clocks /\ Excused /\ SelfHeals
    BY DEF HealInv
  <1>3. JobNow(worker[k]) /\ now \in Nat
    BY SMT, <1>1, <1>2, FanoutConstants DEF AtTick, Inv, Types, Instants
  <1>4. Clocks'
    <2>1. \A t \in Tenants : last'[t] = last[t] \/ (last'[t] = now /\ Timely(t, now))
      BY <1>1, <1>3 DEF JobNow
    <2> QED BY SMT, <1>1, <1>2, <1>3, <2>1 DEF Clocks, Timely, GraceOf
  <1>5. CASE MarkInsert(k)
    <2> DEFINE job == [worker[k] EXCEPT !.pc = "update"]
    <2>1. worker' = [worker EXCEPT ![k] = job]
      BY <1>1, <1>5 DEF MarkInsert, Inv, Types, Jobs
    <2>2. /\ job.left = worker[k].left /\ job.sent = worker[k].sent
          /\ job.ts = worker[k].ts /\ job.msg = worker[k].msg
      BY <1>1 DEF Jobs
    <2> HIDE DEF job
    <2>3. JobNow(job)
      BY <1>3, <2>2 DEF JobNow
    <2>4. (AtTick /\ Excused /\ SelfHeals)'
      BY <1>1, <1>2, <2>1, <2>3, HoldsNothingHeal
    <2> QED BY <1>4, <2>4
  <1>6. CASE MarkUpdate(k)
    <2>1. worker' = [worker EXCEPT ![k] = Idle] /\ Idle.pc = "idle"
      BY <1>6 DEF MarkUpdate, Become, Idle, Job
    <2>2. (AtTick /\ Excused /\ SelfHeals)'
      BY <1>1, <1>2, <2>1, HoldsNothingHeal
    <2> QED BY <1>4, <2>2
  <1> QED BY <1>5, <1>6

\* A fault pays for the tick it spoils.
LEMMA FaultHeal ==
  ASSUME Inv, Entry, HealInv, NEW k \in Workers, WaveFails(k) \/ SendFails(k) \/ Crash(k)
  PROVE  HealInv'
  <1>1. /\ UNCHANGED <<conf, now, lock, last, fired>> /\ faults' = faults + 1
        /\ worker[k].pc # "idle" /\ worker[k] \in Jobs /\ k \in Busy
    BY DEF WaveFails, SendFails, Crash, Busy, Inv, Types
  <1> SUFFICES ASSUME Prompt PROVE (AtTick /\ Clocks /\ Excused /\ SelfHeals)'
    BY <1>1 DEF HealInv, Prompt
  <1>2. AtTick /\ Clocks /\ Excused /\ SelfHeals
    BY DEF HealInv
  <1>3. JobNow(worker[k]) /\ \A i \in 1 .. Len(queue) : MsgNow(queue[i])
    BY <1>1, <1>2 DEF AtTick
  <1>4. ASSUME WaveFails(k) PROVE AtTick'
    <2> DEFINE job == [worker[k] EXCEPT !.left = {}, !.pc = "release"]
    <2>1. worker' = [worker EXCEPT ![k] = job] /\ queue' = queue
      BY <1>1, <1>4 DEF WaveFails, Inv, Types, Jobs
    <2>2. job.left = {} /\ job.msg = worker[k].msg /\ job.ts = worker[k].ts /\ job.sent = worker[k].sent
      BY <1>1 DEF Jobs
    <2> HIDE DEF job
    <2>3. JobNow(job)
      BY <1>3, <2>2 DEF JobNow
    <2> QED BY <1>1, <1>2, <1>3, <2>1, <2>3, JobHeals
  <1>5. ASSUME SendFails(k) PROVE AtTick'
    <2>1. PICK t \in worker[k].left :
            worker' = [worker EXCEPT
              ![k].left = @ \ {t},
              ![k].pc = IF worker[k].left = {t} THEN AfterLoop(worker[k].sent) ELSE "send"]
      BY <1>5 DEF SendFails
    <2> DEFINE job == [worker[k] EXCEPT !.left = @ \ {t},
                !.pc = IF worker[k].left = {t} THEN AfterLoop(worker[k].sent) ELSE "send"]
    <2>2. worker' = [worker EXCEPT ![k] = job]
      BY <1>1, <2>1 DEF Inv, Types, Jobs
    <2>3. /\ job.left = worker[k].left \ {t} /\ job.msg = worker[k].msg /\ job.ts = worker[k].ts
          /\ job.sent = worker[k].sent
      BY <1>1 DEF Jobs
    <2> HIDE DEF job
    <2>4. JobNow(job) /\ queue' = queue
      BY <1>3, <1>5, <2>3 DEF JobNow, SendFails
    <2> QED BY <1>1, <1>2, <1>3, <2>2, <2>4, JobHeals
  <1>6. ASSUME Crash(k) PROVE AtTick'
    <2>1. worker' = [worker EXCEPT ![k] = Idle] /\ Idle.pc = "idle"
      BY <1>6 DEF Crash, Become, Idle, Job
    <2>2. \A i \in 1 .. Len(queue') : MsgNow(queue'[i])
      <3>1. CASE queue' = queue
        BY <1>3, <3>1
      <3>2. CASE queue' = Append(queue, worker[k].msg)
        <4>1. worker[k].msg \in Messages /\ MsgNow(worker[k].msg)
          BY <1>1, <1>3 DEF Jobs, JobNow
        <4>2. /\ Len(queue') = Len(queue) + 1 /\ Len(queue) \in Nat
              /\ \A i \in 1 .. Len(queue) : queue'[i] = queue[i]
              /\ queue'[Len(queue) + 1] = worker[k].msg
          BY SMT, <3>2, <4>1, AppendOf DEF Inv, Types
        <4>3. \A i \in 1 .. Len(queue') : i \in 1 .. Len(queue) \/ i = Len(queue) + 1
          BY SMT, <4>2
        <4> QED BY <1>3, <4>1, <4>2, <4>3
      <3> QED BY <1>6, <3>1, <3>2 DEF Crash
    <2> QED BY <1>1, <1>2, <2>1, <2>2, JobHeals
  <1>7. (Excused /\ SelfHeals)'
    BY <1>1, <1>2, StillHeals
  <1>8. AtTick'
    BY <1>4, <1>5, <1>6
  <1> QED BY <1>1, <1>2, <1>7, <1>8, ClocksKept

\* A missed tick heals itself: when the workers keep pace, an occurrence of a
\* calendar entry that E002 lets through is dispatched by the end of its grace, after
\* as many faults as there are spare ticks: for any number of tenants, workers and
\* occurrences, and any period and grace.
THEOREM Heals == Spec => []SelfHeals
  <1>1. Inv /\ Entry /\ HealInv /\ [Next]_vars => HealInv'
    <2> SUFFICES ASSUME Inv, Entry, HealInv, [Next]_vars PROVE HealInv'
      OBVIOUS
    <2>1. CASE Pass
      BY <2>1, PassHeal
    <2>2. ASSUME NEW k \in Workers,
                 \/ StartWave(k) \/ SkipWave(k) \/ DueCheck(k) \/ SendBatch(k) \/ WaveFails(k)
                 \/ Release(k) \/ StartBatch(k) \/ Send(k) \/ SendFails(k)
                 \/ MarkInsert(k) \/ MarkUpdate(k) \/ Return(k) \/ Crash(k)
          PROVE  HealInv'
      BY <2>2, StartWaveHeal, SkipWaveHeal, DueCheckHeal, SendBatchHeal, StartBatchHeal,
         SendHeal, MarkHeal, EndsHeal, FaultHeal
    <2>3. CASE UNCHANGED vars
      <3>1. UNCHANGED <<conf, now, queue, worker, lock, last, fired, faults>>
        BY <2>3 DEF vars
      <3>2. Tick' = Tick /\ Busy' = Busy /\ GraceOf(conf)' = GraceOf(conf)
        BY <3>1 DEF Tick, Busy, GraceOf
      <3>3. Prompt' => Prompt
        BY <3>1 DEF Prompt
      <3> SUFFICES ASSUME Prompt PROVE (AtTick /\ Clocks /\ Excused /\ SelfHeals)'
        BY <3>3 DEF HealInv
      <3>4. AtTick /\ Clocks /\ Excused /\ SelfHeals
        BY DEF HealInv
      <3>5. AtTick'
        BY <3>1, <3>2, <3>4 DEF AtTick, MsgNow, JobNow, Timely
      <3>6. \A t \in Tenants : Coming(t) => Coming(t)'
        BY <3>1 DEF Coming, WaveComing, Held
      <3>7. (Excused /\ SelfHeals)'
        BY <3>1, <3>4, <3>6, StillHeals
      <3> QED BY <3>1, <3>4, <3>5, <3>7, ClocksKept
    <2> QED BY <2>1, <2>2, <2>3 DEF Next
  <1>2. HealInv => SelfHeals
    BY DEF HealInv, Prompt, SelfHeals
  <1> QED BY InitInv, InitEntry, InitHeal, NextInv, EntryKept, <1>1, <1>2, PTL DEF Spec
=============================================================================
