------------------------- MODULE HostRegistryProofs -------------------------
(***************************************************************************)
(* Proofs about HostRegistry, for every number of hosts, writers and workers *)
(* and every bound.                                                        *)
(***************************************************************************)
EXTENDS HostRegistry, FiniteSetTheorems, TLAPS

\* Zenon finds the leaves that name no prover; SMT those with arithmetic, sequences
\* and updates of functions.
USE ZenonT(30)

\* The hosts whose row nobody touches.
Stable == domains \ touched

\* Neither of the two races happened.
Orderly == faults \cap {"arm", "overlap"} = {}

\* The states of the actors.
WriterState == [pc : {"idle", "exists", "sadd", "srem", "bump", "arm", "trigger"},
                host : Hosts \cup {None}, old : Hosts \cup {None}]
WorkerState == [pc : {"idle", "before", "clear", "scan", "flush", "rename", "delete", "check",
                      "release"},
                pass : Nat, before : Nat, todo : SUBSET Hosts]

\* Types, and that callbacks are about hosts that were touched.
Types ==
    /\ domains \subseteq Hosts /\ dirty \in Nat
    /\ wr \in [Writers -> WriterState]
    /\ wk \in [Workers -> WorkerState]
    /\ \A w \in Writers : wr[w].pc # "idle" => wr[w].host \in touched
    /\ lock \in Workers \cup {None}

\* What each actor may rely on: a writer about to add, that the SET has the
\* stable hosts; a worker, that the lock is its own and that treg:hosts:new, with
\* the rows still to come, has them.
Relies ==
    /\ hosts # {} => Stable \subseteq hosts
    /\ \A w \in Writers : wr[w].pc = "sadd" => Stable \subseteq hosts
    /\ \A k \in Workers :
          /\ wk[k].pc # "idle" => lock = k
          /\ wk[k].pc = "flush" => Stable \subseteq build \cup wk[k].todo
          /\ wk[k].pc = "rename" => Stable \subseteq build
          /\ wk[k].pc = "delete" => Stable = {}

Inv == Types /\ (Orderly => Relies)

\* Nobody is at work at start, and the SET is absent or exact.
LEMMA InitInv == Init => Inv
  <1> SUFFICES ASSUME Init PROVE Inv
    OBVIOUS
  <1>1. /\ WriterIdle \in WriterState /\ WriterIdle.pc = "idle"
        /\ WorkerIdle \in WorkerState /\ WorkerIdle.pc = "idle"
    BY DEF WriterIdle, WriterState, WorkerIdle, WorkerState
  <1>2. Types
    BY <1>1 DEF Init, Types
  <1>3. Relies
    BY <1>1 DEF Init, Relies, Stable
  <1> QED BY <1>2, <1>3 DEF Inv

\* A Domain change touches what it changes, so no stable host comes or goes.
LEMMA WriteInv ==
  ASSUME Inv, NEW w \in Writers, Write(w) PROVE Inv'
  <1> USE RegistryConstants
  <1>1. PICK first \in {"exists", "srem"}, host \in Hosts, old \in Hosts \cup {None} :
          /\ At(w, "idle") /\ touched' = touched \cup ({host, old} \ {None})
          /\ wr' = [wr EXCEPT ![w] = [pc |-> first, host |-> host, old |-> old]]
          /\ domains' \subseteq domains \cup {host}
          /\ UNCHANGED dirty
          /\ UNCHANGED <<redis, queue, wk, faults>>
    <2>1. CASE \E h \in Hosts : Create(w, h)
      BY <2>1 DEF Create, Commit, redis
    <2>2. CASE \E h \in Hosts : Remove(w, h)
      BY <2>2 DEF Remove, Commit, redis
    <2>3. CASE \E old, new \in Hosts : Rename(w, old, new)
      BY <2>3 DEF Rename, Commit, redis
    <2> QED BY <2>1, <2>2, <2>3 DEF Write
  <1>2. Stable' \subseteq Stable
    BY <1>1 DEF Stable
  <1>a. [pc |-> first, host |-> host, old |-> old] \in WriterState
    BY DEF WriterState
  <1>3. Types'
    BY <1>1, <1>a DEF Inv, Types, redis
  <1>4. Orderly' => Relies'
    BY <1>1, <1>2 DEF Inv, Types, Orderly, Relies, redis
  <1> QED BY <1>3, <1>4 DEF Inv

\* The SET after a callback: as it was, with or without one touched host.
LEMMA CallbackSet ==
  ASSUME NEW w \in Writers, Callback(w) \/ RedisError(w)
  PROVE  /\ hosts' \in {hosts, hosts \cup {wr[w].host}, hosts \ {wr[w].host}}
         /\ hosts = {} => hosts' = {} \/ wr[w].pc = "sadd"
         /\ UNCHANGED <<db, build, lock, wk>>
         /\ faults \subseteq faults' /\ dirty' \in {dirty, dirty + 1}
  <1>1. CASE Exists(w) BY <1>1 DEF Exists, redis
  <1>2. CASE Sadd(w) BY <1>2 DEF Sadd, At
  <1>3. CASE Srem(w)
    <2>1. hosts' = hosts \ {wr[w].host} /\ UNCHANGED <<db, dirty, build, lock, wk, faults>>
      BY <1>3 DEF Srem
    <2> QED BY <2>1
  <1>4. CASE BumpDirty(w) BY <1>4 DEF BumpDirty
  <1>5. CASE Arm(w)
    <2>1. UNCHANGED <<db, dirty, hosts, build, lock, wk, faults>>
      BY <1>5 DEF Arm
    <2> QED BY <2>1
  <1>6. CASE TriggerWarm(w) BY <1>6 DEF TriggerWarm, Trigger, Fault
  <1>7. CASE RedisError(w) BY <1>7 DEF RedisError, Fault, redis
  <1> QED BY <1>1, <1>2, <1>3, <1>4, <1>5, <1>6, <1>7 DEF Callback

\* The writer after a callback: at a later step for the same host, or done.
LEMMA CallbackWriter ==
  ASSUME Types, NEW w \in Writers, Callback(w) \/ RedisError(w)
  PROVE  /\ wr[w].pc # "idle"
         /\ \E to \in {"sadd", "bump", "arm", "trigger"} :
               wr' \in {[wr EXCEPT ![w].pc = to], [wr EXCEPT ![w] = WriterIdle]}
                  /\ (to = "sadd" => hosts # {} /\ hosts' = hosts)
  <1> USE DEF At, Step
  <1>1. CASE Exists(w)
    <2>1. CASE hosts # {}
      <3>1. wr' = [wr EXCEPT ![w].pc = "sadd"] /\ wr[w].pc = "exists" /\ hosts' = hosts
        BY <1>1, <2>1 DEF Exists, redis
      <3> QED BY <2>1, <3>1
    <2>2. CASE hosts = {}
      <3>1. wr' = [wr EXCEPT ![w].pc = "bump"] /\ wr[w].pc = "exists"
        BY <1>1, <2>2 DEF Exists
      <3> QED BY <3>1
    <2> QED BY <2>1, <2>2
  <1>2. CASE Sadd(w) BY <1>2 DEF Sadd
  <1>3. CASE Srem(w)
    <2>1. wr' = [wr EXCEPT ![w].pc = "bump"] /\ wr[w].pc = "srem"
      BY <1>3 DEF Srem
    <2> QED BY <2>1
  <1>4. CASE BumpDirty(w) BY <1>4 DEF BumpDirty
  <1>5. CASE Arm(w)
    <2>1. wr' = [wr EXCEPT ![w].pc = "trigger"] /\ wr[w].pc = "arm"
      BY <1>5 DEF Arm
    <2> QED BY <2>1
  <1>6. CASE TriggerWarm(w) BY <1>6 DEF TriggerWarm
  <1>7. CASE RedisError(w) BY <1>7 DEF RedisError
  <1> QED BY <1>1, <1>2, <1>3, <1>4, <1>5, <1>6, <1>7 DEF Callback

\* The callbacks add and remove touched hosts only, and never start the SET.
LEMMA CallbackInv ==
  ASSUME Inv, NEW w \in Writers, Callback(w) \/ RedisError(w) PROVE Inv'
  <1>1. /\ UNCHANGED <<db, build, lock, wk>> /\ faults \subseteq faults'
        /\ wr' \in [Writers -> WriterState]
        /\ \A v \in Writers :
              /\ v # w => wr'[v] = wr[v]
              /\ wr'[v].pc # "idle" => wr[v].pc # "idle" /\ wr'[v].host = wr[v].host
        /\ wr[w].pc # "idle"
        /\ wr'[w].pc = "sadd" => hosts # {} /\ hosts' = hosts
        /\ dirty' \in Nat
    <2>0. Types
      BY DEF Inv
    <2>1. PICK to \in {"sadd", "bump", "arm", "trigger"} :
            /\ wr' \in {[wr EXCEPT ![w].pc = to], [wr EXCEPT ![w] = WriterIdle]}
            /\ to = "sadd" => hosts # {} /\ hosts' = hosts
      BY <2>0, CallbackWriter
    <2>2. dirty' \in Nat /\ wr[w].pc # "idle"
      BY SMT, <2>0, CallbackSet, CallbackWriter DEF Types
    <2>3. CASE wr' = [wr EXCEPT ![w].pc = to]
      <3>1. /\ wr' \in [Writers -> WriterState]
            /\ wr'[w].pc = to /\ wr'[w].host = wr[w].host
            /\ \A v \in Writers \ {w} : wr'[v] = wr[v]
        BY <2>0, <2>3 DEF Types, WriterState
      <3> QED BY <2>1, <2>2, <3>1, CallbackSet
    <2>4. CASE wr' = [wr EXCEPT ![w] = WriterIdle]
      <3>1. WriterIdle \in WriterState /\ WriterIdle.pc = "idle"
        BY DEF WriterState, WriterIdle
      <3>2. /\ wr' \in [Writers -> WriterState]
            /\ wr'[w].pc = "idle"
            /\ \A v \in Writers \ {w} : wr'[v] = wr[v]
        BY <2>0, <2>4, <3>1 DEF Types
      <3> QED BY <2>2, <3>2, CallbackSet
    <2> QED BY <2>1, <2>3, <2>4
  <1>2. Types' /\ Stable' = Stable
    BY <1>1 DEF Inv, Types, Stable, db
  <1>3. ASSUME Orderly' PROVE Relies'
    <2>1. Relies /\ wr[w].host \notin Stable
      BY <1>1, <1>3 DEF Orderly, Inv, Types, Stable
    <2>2. /\ hosts' # {} => Stable \subseteq hosts'
          /\ Stable \subseteq hosts => Stable \subseteq hosts'
          /\ wr'[w].pc = "sadd" => Stable \subseteq hosts'
      BY <1>1, <2>1, CallbackSet DEF Relies
    <2> QED BY <1>1, <1>2, <2>1, <2>2 DEF Relies
  <1> QED BY <1>2, <1>3 DEF Inv

\* A reconcile holds the lock, so treg:hosts:new is its own until it is renamed.
LEMMA TaskInv ==
  ASSUME Inv, NEW k \in Workers, Task(k) \/ TaskError(k) \/ TaskDies(k) PROVE Inv'
  <1> USE RegistryConstants
  <1>1. /\ UNCHANGED <<db, wr>>
        /\ faults \subseteq faults'
        /\ wk' \in [Workers -> WorkerState]
        /\ UNCHANGED dirty
        /\ \A j \in Workers : j # k => wk'[j] = wk[j]
        /\ lock' \in Workers \cup {None}
    <2> USE DEF Inv, Types, WorkerState, Move, Reads, redis
    <2>1. CASE Acquire(k) BY SMT, <2>1 DEF Acquire, WorkerIdle
    <2>2. CASE Before(k) BY SMT, <2>2 DEF Before
    <2>3. CASE Clear(k) \/ Built(k) \/ Check(k) BY SMT, <2>3 DEF Clear, Built, Check
    <2>4. CASE Scan(k) BY <2>4 DEF Scan
    <2>5. CASE Flush(k) BY SMT, <2>5 DEF Flush
    <2>6. CASE RenameSet(k) BY SMT, <2>6 DEF RenameSet
    <2>7. CASE DeleteSet(k) BY <2>7 DEF DeleteSet
    <2>8. CASE Release(k) BY <2>8 DEF Release, WorkerIdle
    <2>9. CASE TaskError(k) BY <2>9 DEF TaskError, Fault
    <2>10. CASE TaskDies(k) BY <2>10 DEF TaskDies, Fault, WorkerIdle
    <2> QED BY <2>1, <2>2, <2>3, <2>4, <2>5, <2>6, <2>7, <2>8, <2>9, <2>10 DEF Task
  <1>2. Types' /\ Stable' = Stable /\ Stable \subseteq domains
    BY <1>1 DEF Inv, Types, Stable, db
  <1>3. ASSUME Orderly' PROVE Relies'
    <2>1. Relies
      BY <1>1, <1>3 DEF Orderly, Inv
    <2>2. Acquire(k) \/ wk[k].pc # "idle"
      BY DEF Task, Before, Clear, Scan, Flush, Built, RenameSet, DeleteSet, Check, Release,
         TaskError, TaskDies, In
    <2>3. CASE Acquire(k)
      BY SMT, <1>1, <1>2, <2>1, <2>3 DEF Inv, Types, Relies, Acquire, WorkerIdle
    <2>4. CASE wk[k].pc # "idle"
      <3>1. \A j \in Workers : j # k => wk'[j].pc = "idle"
        BY <1>1, <2>1, <2>4 DEF Relies
      <3>2. lock = k /\ ~In(k, "idle")
        BY <2>1, <2>4 DEF Relies, In
      <3>3. wk'[k].pc # "idle" => lock' = k
        BY SMT, <3>2 DEF Inv, Types, WorkerState, Task, Acquire, Before, Clear, Scan, Flush, Built, RenameSet,
           DeleteSet, Check, Release, TaskError, TaskDies, Move, Reads, redis, WorkerIdle
      <3>4. /\ wk'[k].pc = "flush" => Stable \subseteq build' \cup wk'[k].todo
            /\ wk'[k].pc = "rename" => Stable \subseteq build'
            /\ wk'[k].pc = "delete" => Stable = {}
        <4> USE DEF In, Move, Reads, redis, WorkerState
        <4>0. /\ wk \in [Workers -> WorkerState]
              /\ Relies
          BY <2>1 DEF Inv, Types
        <4>1. CASE Scan(k) BY <1>2, <4>0, <4>1 DEF Scan
        <4>2. CASE Flush(k)
          <5>1. PICK chunk \in SUBSET wk[k].todo :
                  /\ build' = build \cup chunk
                  /\ wk' = [wk EXCEPT ![k].todo = @ \ chunk]
            BY <4>2 DEF Flush
          <5>2. wk'[k].pc = "flush" /\ wk'[k].todo = wk[k].todo \ chunk
            BY <4>0, <4>2, <5>1 DEF Flush
          <5> QED BY <4>0, <4>2, <5>1, <5>2 DEF Relies, Flush
        <4>3. CASE Built(k) BY <4>0, <4>3 DEF Relies, Built
        <4>4. CASE ~(Scan(k) \/ Flush(k) \/ Built(k))
          <5>1. wk'[k].pc \notin {"flush", "rename", "delete"}
            BY SMT, <3>2, <4>0, <4>4 DEF Task, Acquire, Before, Clear, RenameSet, DeleteSet, Check,
               Release, TaskError, TaskDies, WorkerIdle
          <5> QED BY <5>1
        <4> QED BY <4>1, <4>2, <4>3, <4>4
      <3>5. /\ hosts' # {} => Stable \subseteq hosts'
            /\ Stable \subseteq hosts => Stable \subseteq hosts'
        BY <2>1, <3>2 DEF Relies, Task, Acquire, Before, Clear, Scan, Flush, Built, RenameSet,
           DeleteSet, Check, Release, TaskError, TaskDies, Reads, redis, In
      <3> QED BY <1>1, <1>2, <2>1, <3>1, <3>3, <3>4, <3>5 DEF Relies
    <2> QED BY <2>2, <2>3, <2>4
  <1> QED BY <1>2, <1>3 DEF Inv

\* An expiry takes the whole SET; under a writer about to add, or a reconcile at
\* work, it is one of the two races.
LEMMA ExpireInv ==
  ASSUME Inv, MarkerExpire \/ ArmExpire \/ LockExpire \/ Request \/ Beat PROVE Inv'
  <1> USE RegistryConstants
  <1>1. /\ UNCHANGED <<db, wr, wk, build, dirty>>
        /\ faults \subseteq faults'
        /\ lock' \in {lock, None}
    BY DEF MarkerExpire, ArmExpire, LockExpire, Request, Beat, Trigger, Fault, redis
  <1>2. Types' /\ Stable' = Stable
    BY <1>1 DEF Inv, Types, Stable, db
  <1>3. ASSUME Orderly' PROVE Relies'
    <2>1. Relies
      BY <1>1, <1>3 DEF Orderly, Inv
    <2>2. \A j \in Workers : wk[j].pc # "idle" => lock' = j
      BY <1>3, <2>1 DEF Relies, Orderly, MarkerExpire, ArmExpire, LockExpire, Request, Beat,
         Fault, redis
    <2>3. /\ hosts' \in {hosts, {}}
          /\ \A w \in Writers : wr[w].pc = "sadd" => hosts' = hosts
      BY <1>3 DEF Orderly, MarkerExpire, ArmExpire, LockExpire, Request, Beat, Fault, redis, At
    <2> QED BY <1>1, <1>2, <2>1, <2>2, <2>3 DEF Relies
  <1> QED BY <1>2, <1>3 DEF Inv

\* What every actor relies on is kept by every step of every actor.
THEOREM Registry == Spec => []Inv
  <1>1. Inv /\ [Next]_vars => Inv'
    <2> SUFFICES ASSUME Inv, [Next]_vars PROVE Inv'
      OBVIOUS
    <2>1. CASE UNCHANGED vars
      BY <2>1 DEF Inv, Types, Orderly, Relies, Stable, vars, db, redis
    <2>2. CASE Next
      BY <2>2, WriteInv, CallbackInv, TaskInv, ExpireInv DEF Next
    <2> QED BY <2>1, <2>2
  <1> QED BY InitInv, <1>1, PTL DEF Spec

\* The gate refuses no host that nobody touches, however many writers, reconciles
\* and expiries interleave, but for the two races the registry accepts.
THEOREM StableHosts == Spec => []StableServed
  <1>1. Inv => StableServed
    BY DEF Inv, Orderly, Relies, Stable, StableServed
  <1> QED BY <1>1, Registry, PTL
-----------------------------------------------------------------------------
(* A SET that is left without a TTL is exact.                              *)

\* The writers that have not bumped the dirty counter yet, and those that have not
\* armed the SET yet.
Ahead(w) == wr[w].pc \in {"exists", "sadd", "srem", "bump"}
Pending == {w \in Writers : Ahead(w)}
Arming(w) == Ahead(w) \/ wr[w].pc = "arm"

\* A change bumps the counter once, after its commit.
Counted == writes \in Nat /\ IsFiniteSet(Pending) /\ dirty + Cardinality(Pending) <= writes

\* A reconcile starts over only for a counter that has moved, so it cannot have
\* started over more often than that.
Paced(k) ==
    /\ wk[k].before <= dirty
    /\ wk[k].pc = "before" => wk[k].pass <= dirty
    /\ wk[k].pc \in {"clear", "scan", "flush", "rename", "delete", "check"} =>
          wk[k].pass <= wk[k].before + 1

\* The recheck of a reconcile will tell that its rows are old, or a writer is still
\* going to bump the counter and to arm the SET.
Late(k) == dirty # wk[k].before \/ \E w \in Writers : Ahead(w)

\* A reconcile that will yet replace the SET.
Redoing(k) ==
    \/ wk[k].pc \in {"before", "clear", "scan", "flush", "rename", "delete"}
    \/ wk[k].pc = "check" /\ dirty # wk[k].before

Calm == faults = {} /\ writes < Passes

\* What makes good a SET that is not exact, and what a reconcile has read.
Mended ==
    \/ hosts = {} \/ hosts = domains \/ armed
    \/ \E w \in Writers : Arming(w)
    \/ \E k \in Workers : Redoing(k)
Reading(k) ==
    /\ wk[k].pc = "scan" => build = {}
    /\ wk[k].pc = "flush" => build \cup wk[k].todo = domains \/ Late(k)
    /\ wk[k].pc = "rename" => build # {} /\ (build = domains \/ Late(k))

ExactInv ==
    /\ Counted
    /\ \A k \in Workers : Paced(k)
    /\ Calm => Mended /\ \A k \in Workers : Reading(k)

\* Nothing is pending at start, and the SET is absent or exact.
LEMMA InitExact == Init => ExactInv
  <1> SUFFICES ASSUME Init PROVE ExactInv
    OBVIOUS
  <1>1. WriterIdle.pc = "idle" /\ WorkerIdle.pc = "idle" /\ WorkerIdle.before = 0
    BY DEF WriterIdle, WorkerIdle
  <1>2. Pending = {}
    BY <1>1 DEF Init, Pending, Ahead
  <1>3. Counted
    BY SMT, <1>2, FS_EmptySet DEF Counted, Init
  <1>4. \A k \in Workers : Paced(k) /\ Reading(k)
    BY SMT, <1>1 DEF Init, Paced, Reading
  <1>5. Mended
    BY DEF Init, Mended
  <1> QED BY <1>3, <1>4, <1>5 DEF ExactInv

\* A commit makes its writer one more that has yet to bump and to arm.
LEMMA WriteExact ==
  ASSUME Inv, ExactInv, NEW w \in Writers, Write(w) PROVE ExactInv'
  <1>1. PICK first \in {"exists", "srem"}, host \in Hosts, old \in Hosts \cup {None} :
          /\ At(w, "idle") /\ writes' = writes + 1
          /\ wr' = [wr EXCEPT ![w] = [pc |-> first, host |-> host, old |-> old]]
          /\ UNCHANGED <<redis, wk, faults>>
    <2>1. CASE \E h \in Hosts : Create(w, h)
      BY <2>1 DEF Create, Commit
    <2>2. CASE \E h \in Hosts : Remove(w, h)
      BY <2>2 DEF Remove, Commit
    <2>3. CASE \E old, new \in Hosts : Rename(w, old, new)
      BY <2>3 DEF Rename, Commit
    <2> QED BY <2>1, <2>2, <2>3 DEF Write
  <1>2. Ahead(w)' /\ ~Ahead(w) /\ \A v \in Writers \ {w} : wr'[v] = wr[v]
    BY <1>1 DEF Inv, Types, Ahead, At
  <1>3. Pending' = Pending \cup {w} /\ w \notin Pending
    BY <1>2 DEF Pending, Ahead
  <1>4. Counted'
    <2>1. IsFiniteSet(Pending') /\ Cardinality(Pending') = Cardinality(Pending) + 1
      BY <1>3, FS_AddElement DEF ExactInv, Counted
    <2>2. dirty' = dirty /\ dirty \in Nat /\ Cardinality(Pending) \in Nat
      BY <1>1, FS_CardinalityType DEF redis, Inv, Types, ExactInv, Counted
    <2> QED BY SMT, <1>1, <2>1, <2>2 DEF ExactInv, Counted
  <1>5. \A k \in Workers : Paced(k)'
    BY <1>1 DEF ExactInv, Paced, redis
  <1>6. Mended' /\ \A k \in Workers : Late(k)'
    BY <1>2 DEF Mended, Arming, Late
  <1>7. ASSUME Calm' PROVE \A k \in Workers : Reading(k)'
    <2>1. Calm
      BY SMT, <1>1, <1>7, RegistryConstants DEF Calm, ExactInv, Counted
    <2> QED BY <1>1, <1>6, <2>1 DEF ExactInv, Reading, redis
  <1> QED BY <1>4, <1>5, <1>6, <1>7 DEF ExactInv

\* What a callback does to the dirty counter and to the writers yet to bump it.
LEMMA CallbackCounts ==
  ASSUME Inv, NEW w \in Writers, Callback(w) \/ RedisError(w)
  PROVE  /\ UNCHANGED <<db, build, wk>> /\ faults \subseteq faults'
         /\ \/ dirty' = dirty /\ Pending' \subseteq Pending
               /\ (faults' = {} => Ahead(w)' \/ ~Ahead(w))
            \/ dirty' = dirty + 1 /\ Ahead(w) /\ Pending' = Pending \ {w}
         /\ \A v \in Writers \ {w} : wr'[v] = wr[v]
  <1> USE DEF At, Step
  <1>0. UNCHANGED <<db, build, wk>> /\ faults \subseteq faults'
    BY CallbackSet
  <1>1. wr \in [Writers -> [pc : {"idle", "exists", "sadd", "srem", "bump", "arm", "trigger"},
                             host : Hosts \cup {None}, old : Hosts \cup {None}]]
    BY DEF Inv, Types, WriterState
  <1>2. \A v \in Writers \ {w} : wr'[v] = wr[v]
    <2>1. PICK to \in {"sadd", "bump", "arm", "trigger"} :
            wr' \in {[wr EXCEPT ![w].pc = to], [wr EXCEPT ![w] = WriterIdle]}
      BY CallbackWriter DEF Inv
    <2> QED BY <1>1, <2>1
  <1>3. CASE BumpDirty(w)
    <2>1. wr[w].pc = "bump" /\ wr'[w].pc = "arm" /\ dirty' = dirty + 1
      BY <1>1, <1>3 DEF BumpDirty
    <2>2. Pending' = Pending \ {w} /\ Ahead(w)
      BY <1>2, <2>1 DEF Pending, Ahead
    <2> QED BY <1>0, <1>2, <2>1, <2>2
  <1>4. CASE ~BumpDirty(w)
    <2>1. /\ dirty' = dirty
          /\ Ahead(w)' => Ahead(w)
          /\ faults' = {} => Ahead(w)' \/ ~Ahead(w)
      <3> USE DEF Ahead
      <3>1. CASE Exists(w)
        BY <1>1, <3>1 DEF Exists, redis
      <3>2. CASE Sadd(w)
        BY <1>1, <3>2 DEF Sadd
      <3>3. CASE Srem(w)
        <4>1. wr' = [wr EXCEPT ![w].pc = "bump"] /\ wr[w].pc = "srem" /\ dirty' = dirty
          BY <3>3 DEF Srem
        <4> QED BY <1>1, <4>1
      <3>4. CASE Arm(w)
        <4>1. wr' = [wr EXCEPT ![w].pc = "trigger"] /\ wr[w].pc = "arm" /\ dirty' = dirty
          BY <3>4 DEF Arm
        <4> QED BY <1>1, <4>1
      <3>5. CASE TriggerWarm(w)
        BY <1>1, <3>5 DEF TriggerWarm, WriterIdle
      <3>6. CASE RedisError(w)
        <4>1. dirty' = dirty /\ faults' # {} /\ wr[w].pc # "idle"
          BY <3>6 DEF RedisError, Fault, redis
        <4>2. wr'[w].pc \in {"idle", "trigger", "arm"}
          BY <1>1, <3>6 DEF RedisError, WriterIdle
        <4> QED BY <4>1, <4>2
      <3> QED BY <1>4, <3>1, <3>2, <3>3, <3>4, <3>5, <3>6 DEF Callback
    <2>2. Pending' \subseteq Pending
      BY <1>2, <2>1 DEF Pending, Ahead
    <2> QED BY <1>0, <1>2, <2>1, <2>2
  <1> QED BY <1>3, <1>4

\* A writer leaves what it has put out of date to its bump and to its arm.
LEMMA CallbackExact ==
  ASSUME Inv, ExactInv, NEW w \in Writers, Callback(w) \/ RedisError(w) PROVE ExactInv'
  <1>1. /\ UNCHANGED <<domains, writes, build, wk>> /\ faults \subseteq faults'
        /\ \/ dirty' = dirty /\ Pending' \subseteq Pending
              /\ (faults' = {} => Ahead(w)' \/ ~Ahead(w))
           \/ dirty' = dirty + 1 /\ Ahead(w) /\ Pending' = Pending \ {w}
        /\ \A v \in Writers \ {w} : wr'[v] = wr[v]
    BY CallbackCounts DEF db
  <1>2. dirty \in Nat /\ \A k \in Workers : wk[k].before \in Nat /\ wk[k].pass \in Nat
    BY DEF Inv, Types, WorkerState
  <1>3. Counted'
    <2>1. CASE dirty' = dirty /\ Pending' \subseteq Pending
      <3>1. IsFiniteSet(Pending') /\ Cardinality(Pending') <= Cardinality(Pending)
        BY <2>1, FS_Subset DEF ExactInv, Counted
      <3>2. Cardinality(Pending') \in Nat /\ Cardinality(Pending) \in Nat
        BY <3>1, FS_CardinalityType DEF ExactInv, Counted
      <3> QED BY SMT, <1>1, <1>2, <2>1, <3>1, <3>2 DEF ExactInv, Counted
    <2>2. CASE dirty' = dirty + 1 /\ Ahead(w) /\ Pending' = Pending \ {w}
      <3>1. w \in Pending
        BY <2>2 DEF Pending
      <3>2. IsFiniteSet(Pending') /\ Cardinality(Pending') = Cardinality(Pending) - 1
        BY <2>2, <3>1, FS_RemoveElement DEF ExactInv, Counted
      <3>3. Cardinality(Pending') \in Nat /\ Cardinality(Pending) \in Nat
        BY <3>2, FS_CardinalityType DEF ExactInv, Counted
      <3> QED BY SMT, <1>1, <1>2, <2>2, <3>2, <3>3 DEF ExactInv, Counted
    <2> QED BY <1>1, <2>1, <2>2
  <1>4. \A k \in Workers : Paced(k)'
    BY SMT, <1>1, <1>2 DEF ExactInv, Paced
  <1>5. ASSUME Calm' PROVE Mended' /\ \A k \in Workers : Reading(k)'
    <2>1. Calm /\ faults' = {}
      BY <1>1, <1>5 DEF Calm
    <2>2. \A k \in Workers : Late(k) => Late(k)'
      <3> SUFFICES ASSUME NEW k \in Workers, Late(k) PROVE Late(k)'
        OBVIOUS
      <3>1. CASE dirty' = dirty + 1
        <4>1. dirty' # wk'[k].before
          BY SMT, <1>1, <1>2, <3>1 DEF ExactInv, Paced
        <4> QED BY <4>1 DEF Late
      <3>2. CASE dirty' = dirty /\ (Ahead(w)' \/ ~Ahead(w))
        <4>1. \A v \in Writers : Ahead(v) => Ahead(v)'
          BY <1>1, <3>2 DEF Ahead
        <4> QED BY <1>1, <3>2, <4>1 DEF Late
      <3> QED BY <1>1, <2>1, <3>1, <3>2
    <2>3. \A k \in Workers : Reading(k)'
      BY <1>1, <2>1, <2>2 DEF ExactInv, Reading
    <2>4. Mended'
      <3>0. \A k \in Workers : Redoing(k) => Redoing(k)'
        BY SMT, <1>1, <1>2 DEF ExactInv, Paced, Redoing
      <3>1. CASE Arming(w)'
        BY <3>1 DEF Mended
      <3>2. CASE ~Arming(w)' /\ Arming(w)
        <4>1. Arm(w)
          <5> USE DEF At, Step, Arming, Ahead, Inv, Types, WriterState
          <5>1. ~Exists(w) BY <3>2 DEF Exists
          <5>2. ~Sadd(w) BY <3>2 DEF Sadd
          <5>3. ~Srem(w)
            <6>1. Srem(w) => wr' = [wr EXCEPT ![w].pc = "bump"]
              BY DEF Srem
            <6> QED BY <3>2, <6>1
          <5>4. ~BumpDirty(w) BY <3>2 DEF BumpDirty
          <5>5. ~TriggerWarm(w) BY <3>2 DEF TriggerWarm
          <5>6. ~RedisError(w) BY <2>1 DEF RedisError, Fault
          <5> QED BY <5>1, <5>2, <5>3, <5>4, <5>5, <5>6 DEF Callback
        <4>2. hosts' = {} \/ armed'
          BY <4>1 DEF Arm
        <4> QED BY <4>2 DEF Mended
      <3>3. CASE ~Arming(w)
        <4>1. TriggerWarm(w)
          <5> USE DEF At, Step, Arming, Ahead
          <5>1. ~Exists(w) BY <3>3 DEF Exists
          <5>2. ~Sadd(w) BY <3>3 DEF Sadd
          <5>3. ~Srem(w) BY <3>3 DEF Srem
          <5>4. ~BumpDirty(w) BY <3>3 DEF BumpDirty
          <5>5. ~Arm(w) BY <3>3 DEF Arm
          <5>6. ~RedisError(w) BY <2>1 DEF RedisError, Fault
          <5> QED BY <5>1, <5>2, <5>3, <5>4, <5>5, <5>6 DEF Callback
        <4>2. hosts' = hosts /\ armed' = armed
          BY <4>1 DEF TriggerWarm
        <4>3. \A v \in Writers : Arming(v) => Arming(v)'
          BY <1>1, <3>3 DEF Arming, Ahead
        <4>4. Mended
          BY <2>1 DEF ExactInv
        <4>5. domains' = domains
          BY <1>1
        <4> QED BY <3>0, <4>2, <4>3, <4>4, <4>5 DEF Mended
      <3> QED BY <3>1, <3>2, <3>3
    <2> QED BY <2>3, <2>4
  <1> QED BY <1>3, <1>4, <1>5 DEF ExactInv
\* A reconcile that ends leaves a SET that is exact, or that someone else is still
\* to put right: its last recheck saw the counter it started from, because the
\* passes never run out.
LEMMA TaskExact ==
  ASSUME Inv, ExactInv, NEW k \in Workers, Task(k) \/ TaskError(k) \/ TaskDies(k)
  PROVE  ExactInv'
  <1> USE RegistryConstants
  <1>1. /\ UNCHANGED <<domains, writes, wr, dirty>>
        /\ faults \subseteq faults'
        /\ \A j \in Workers : j # k => wk'[j] = wk[j]
    <2> USE DEF Inv, Types, WorkerState, Move, Reads, redis, db
    <2>1. CASE Acquire(k) BY <2>1 DEF Acquire
    <2>2. CASE Before(k) BY <2>2 DEF Before
    <2>3. CASE Clear(k) \/ Built(k) \/ Check(k) BY <2>3 DEF Clear, Built, Check
    <2>4. CASE Scan(k) BY <2>4 DEF Scan
    <2>5. CASE Flush(k) BY <2>5 DEF Flush
    <2>6. CASE RenameSet(k) BY <2>6 DEF RenameSet
    <2>7. CASE DeleteSet(k) BY <2>7 DEF DeleteSet
    <2>8. CASE Release(k) BY <2>8 DEF Release
    <2>9. CASE TaskError(k) BY <2>9 DEF TaskError, Fault
    <2>10. CASE TaskDies(k) BY <2>10 DEF TaskDies, Fault
    <2> QED BY <2>1, <2>2, <2>3, <2>4, <2>5, <2>6, <2>7, <2>8, <2>9, <2>10 DEF Task
  <1>2. /\ dirty \in Nat /\ wk[k].before \in Nat /\ wk[k].pass \in Nat
        /\ wk \in [Workers -> WorkerState] /\ Paced(k)
    BY DEF Inv, Types, WorkerState, ExactInv
  <1>3. /\ Pending' = Pending /\ Counted'
        /\ \A w \in Writers : (Ahead(w)' <=> Ahead(w)) /\ (Arming(w)' <=> Arming(w))
    BY <1>1 DEF Pending, Ahead, Arming, ExactInv, Counted
  <1>4. \A j \in Workers : Paced(j)'
    <2>1. \A j \in Workers \ {k} : Paced(j)'
      BY <1>1 DEF ExactInv, Paced
    <2>2. Paced(k)'
      <3> USE <1>1, <1>2 DEF Paced, In, Move, WorkerState
      <3>1. CASE Acquire(k) BY SMT, <3>1 DEF Acquire, WorkerIdle
      <3>2. CASE Before(k) BY SMT, <3>2 DEF Before
      <3>3. CASE Clear(k) \/ Built(k) BY SMT, <3>3 DEF Clear, Built
      <3>4. CASE Scan(k) BY <3>4 DEF Scan
      <3>5. CASE Flush(k) BY SMT, <3>5 DEF Flush
      <3>6. CASE RenameSet(k) BY SMT, <3>6 DEF RenameSet
      <3>7. CASE DeleteSet(k) BY <3>7 DEF DeleteSet
      <3>8. CASE Check(k) BY SMT, <3>8 DEF Check
      <3>9. CASE Release(k) \/ TaskDies(k) BY SMT, <3>9 DEF Release, TaskDies, WorkerIdle
      <3>10. CASE TaskError(k) BY <3>10 DEF TaskError
      <3> QED BY <3>1, <3>2, <3>3, <3>4, <3>5, <3>6, <3>7, <3>8, <3>9, <3>10 DEF Task
    <2> QED BY <2>1, <2>2
  <1>5. ASSUME Calm' PROVE Mended' /\ \A j \in Workers : Reading(j)'
    <2>1. Calm /\ faults' = {} /\ Mended /\ \A j \in Workers : Reading(j)
      BY <1>1, <1>5 DEF Calm, ExactInv
    <2>2. \A j \in Workers : wk[j].pc # "idle" => lock = j
      BY <2>1 DEF Inv, Relies, Orderly, Calm
    <2>3. Task(k)
      BY <2>1 DEF TaskError, TaskDies, Fault
    <2>4. CASE Acquire(k)
      <3>1. CASE lock = None
        <4>1. wk'[k].pc = "before" /\ \A j \in Workers : wk[j].pc = "idle"
          BY <1>2, <2>2, <2>4, <3>1 DEF Acquire, WorkerIdle
        <4>2. Redoing(k)' /\ \A j \in Workers : Reading(j)'
          BY <1>1, <4>1 DEF Redoing, Reading
        <4> QED BY <4>2 DEF Mended
      <3>2. CASE lock # None
        <4>1. wk' = wk /\ hosts' = hosts /\ armed' = armed /\ build' = build
          BY <2>4, <3>2 DEF Acquire
        <4>2. \A j \in Workers : Reading(j)' /\ (Redoing(j)' <=> Redoing(j))
          BY <1>1, <1>3, <2>1, <4>1 DEF Reading, Late, Redoing
        <4> QED BY <1>1, <1>3, <2>1, <4>1, <4>2 DEF Mended
      <3> QED BY <3>1, <3>2
    <2>5. CASE ~Acquire(k)
      <3>1. wk[k].pc # "idle"
        BY <2>3, <2>5 DEF Task, Before, Clear, Scan, Flush, Built, RenameSet, DeleteSet, Check,
           Release, In
      <3>2. \A j \in Workers \ {k} : wk[j].pc = "idle" /\ wk'[j].pc = "idle"
        BY <1>1, <2>2, <3>1
      <3>3. \A j \in Workers \ {k} : Reading(j)' /\ ~Redoing(j)
        BY <3>2 DEF Reading, Redoing
      <3>4. Reading(k) /\ (Late(k) => dirty # wk[k].before \/ \E w \in Writers : Ahead(w)')
        BY <1>3, <2>1 DEF Late
      <3> SUFFICES Mended' /\ Reading(k)'
        BY <3>3
      <3> USE DEF In, Move
      <3>5. CASE Before(k)
        <4>1. wk'[k].pc = "clear"
          BY <1>2, <3>5 DEF Before, WorkerState
        <4> QED BY <4>1 DEF Mended, Redoing, Reading
      <3>6. CASE Clear(k)
        <4>1. wk'[k].pc = "scan" /\ build' = {}
          BY <1>2, <3>6 DEF Clear, WorkerState
        <4> QED BY <4>1 DEF Mended, Redoing, Reading
      <3>7. CASE Scan(k)
        <4>1. wk'[k].pc = "flush" /\ wk'[k].todo = domains /\ build' = build /\ build = {}
          BY <1>2, <3>4, <3>7 DEF Scan, WorkerState, Reads, redis, Reading
        <4> QED BY <1>1, <4>1 DEF Mended, Redoing, Reading
      <3>8. CASE Flush(k)
        <4>1. PICK chunk \in SUBSET wk[k].todo :
                /\ build' = build \cup chunk
                /\ wk' = [wk EXCEPT ![k].todo = @ \ chunk]
          BY <3>8 DEF Flush
        <4>2. /\ wk[k].pc = "flush" /\ wk'[k].pc = "flush" /\ wk'[k].before = wk[k].before
              /\ build' \cup wk'[k].todo = build \cup wk[k].todo
          BY <1>2, <3>8, <4>1 DEF Flush, WorkerState
        <4>3. build' \cup wk'[k].todo = domains' \/ Late(k)'
          BY <1>1, <3>4, <4>2 DEF Reading, Late
        <4> QED BY <4>2, <4>3 DEF Mended, Redoing, Reading
      <3>9. CASE Built(k)
        <4>1. /\ wk[k].pc = "flush" /\ wk'[k].pc = (IF build # {} THEN "rename" ELSE "delete")
              /\ wk'[k].before = wk[k].before /\ wk[k].todo = {} /\ build' = build
          BY <1>2, <3>9 DEF Built, WorkerState, Reads, redis
        <4>2. build' = domains' \/ Late(k)'
          BY <1>1, <3>4, <4>1 DEF Reading, Late
        <4> QED BY <4>1, <4>2 DEF Mended, Redoing, Reading
      <3>10. CASE RenameSet(k)
        <4>1. build # {} /\ (build = domains \/ Late(k))
          BY <3>4, <3>10 DEF RenameSet, Reading
        <4>2. hosts' = build /\ wk'[k].pc = "check" /\ wk'[k].before = wk[k].before
          BY <1>2, <3>10, <4>1 DEF RenameSet, WorkerState
        <4> QED BY <1>1, <3>4, <4>1, <4>2 DEF Mended, Redoing, Reading, Arming
      <3>11. CASE DeleteSet(k)
        <4>1. hosts' = {} /\ wk'[k].pc = "check"
          BY <1>2, <3>11 DEF DeleteSet, WorkerState
        <4> QED BY <4>1 DEF Mended, Reading
      <3>12. CASE Check(k)
        <4>1. CASE dirty = wk[k].before \/ wk[k].pass = Passes
          <5>1. dirty = wk[k].before
            <6>1. dirty < Passes
              <7>1. Cardinality(Pending) \in Nat
                BY FS_CardinalityType DEF ExactInv, Counted
              <7> QED BY SMT, <1>2, <2>1, <7>1 DEF ExactInv, Counted, Calm
            <6>2. wk[k].pass <= wk[k].before + 1 /\ wk[k].before <= dirty
              BY <1>2, <3>12 DEF Check, Paced
            <6> QED BY SMT, <1>2, <4>1, <6>1, <6>2
          <5>2. ~Redoing(k) /\ hosts' = hosts /\ armed' = armed /\ wk'[k].pc = "release"
            BY <1>2, <3>12, <4>1, <5>1 DEF Check, Redoing, Reads, redis, WorkerState
          <5>3. hosts' = {} \/ hosts' = domains' \/ armed' \/ \E w \in Writers : Arming(w)'
            BY <1>1, <1>3, <2>1, <3>3, <5>2 DEF Mended
          <5>4. Reading(k)'
            BY <5>2 DEF Reading
          <5> QED BY <5>3, <5>4 DEF Mended
        <4>2. CASE ~(dirty = wk[k].before \/ wk[k].pass = Passes)
          <5>1. wk'[k].pc = "before"
            BY <1>2, <3>12, <4>2 DEF Check, WorkerState
          <5> QED BY <5>1 DEF Mended, Redoing, Reading
        <4> QED BY <4>1, <4>2
      <3>13. CASE Release(k)
        <4>1. ~Redoing(k) /\ hosts' = hosts /\ armed' = armed /\ wk'[k].pc = "idle"
          BY <1>2, <3>13 DEF Release, Redoing, WorkerIdle
        <4>2. hosts' = {} \/ hosts' = domains' \/ armed' \/ \E w \in Writers : Arming(w)'
          BY <1>1, <1>3, <2>1, <3>3, <4>1 DEF Mended
        <4>3. Reading(k)'
          BY <4>1 DEF Reading
        <4> QED BY <4>2, <4>3 DEF Mended
      <3> QED BY <2>3, <2>5, <3>5, <3>6, <3>7, <3>8, <3>9, <3>10, <3>11, <3>12, <3>13 DEF Task
    <2> QED BY <2>4, <2>5
  <1> QED BY <1>3, <1>4, <1>5 DEF ExactInv

\* An expiry leaves the SET or takes it away; the rest concerns other keys.
LEMMA ExpireExact ==
  ASSUME Inv, ExactInv, MarkerExpire \/ ArmExpire \/ LockExpire \/ Request \/ Beat
  PROVE  ExactInv'
  <1>1. /\ UNCHANGED <<domains, writes, wr, wk, build, dirty>> /\ faults \subseteq faults'
        /\ hosts' = {} \/ (hosts' = hosts /\ armed' = armed)
    BY DEF MarkerExpire, ArmExpire, LockExpire, Request, Beat, Trigger, Fault, redis, db
  <1>2. /\ Counted'
        /\ \A w \in Writers : (Ahead(w)' <=> Ahead(w)) /\ (Arming(w)' <=> Arming(w))
    BY <1>1 DEF Pending, Ahead, Arming, ExactInv, Counted
  <1>3. \A k \in Workers : /\ Paced(k)' /\ (Redoing(k)' <=> Redoing(k))
                           /\ (Late(k)' <=> Late(k)) /\ (Reading(k) => Reading(k)')
    BY <1>1, <1>2 DEF ExactInv, Paced, Redoing, Late, Reading
  <1>4. Calm' => Calm
    BY <1>1 DEF Calm
  <1>5. Mended => Mended'
    <2>1. domains' = domains
      BY <1>1
    <2>2. hosts' = {} \/ (hosts' = hosts /\ armed' = armed)
      BY <1>1
    <2> QED BY <1>2, <1>3, <2>1, <2>2 DEF Mended
  <1> QED BY <1>2, <1>3, <1>4, <1>5 DEF ExactInv

\* Without faults, and with fewer changes than a reconcile has passes, a SET that
\* nobody works on and that has no TTL is exact, for every number of concurrent
\* writers and workers.
THEOREM SettledIsExact == Spec => []SettledExact
  <1>1. Inv /\ ExactInv /\ [Next]_vars => ExactInv'
    <2> SUFFICES ASSUME Inv, ExactInv, [Next]_vars PROVE ExactInv'
      OBVIOUS
    <2>1. CASE UNCHANGED vars
      BY <2>1 DEF ExactInv, Counted, Pending, Ahead, Arming, Paced, Late, Redoing, Calm,
         Mended, Reading, vars, db, redis
    <2>2. CASE Next
      BY <2>2, WriteExact, CallbackExact, TaskExact, ExpireExact DEF Next
    <2> QED BY <2>1, <2>2
  <1>2. ExactInv => SettledExact
    <2> SUFFICES ASSUME ExactInv, faults = {}, writes < Passes, Settled PROVE hosts = domains
      BY DEF SettledExact
    <2>1. Mended /\ hosts # {} /\ ~armed
      BY DEF ExactInv, Calm, Settled
    <2>2. /\ \A w \in Writers : ~Arming(w)
          /\ \A k \in Workers : ~Redoing(k)
      BY DEF Settled, At, In, Arming, Ahead, Redoing
    <2> QED BY <2>1, <2>2 DEF Mended
  <1> QED BY InitInv, InitExact, Registry, <1>1, <1>2, PTL DEF Spec
=============================================================================
