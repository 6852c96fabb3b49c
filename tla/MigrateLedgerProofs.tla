------------------------ MODULE MigrateLedgerProofs ------------------------
(***************************************************************************)
(* Proofs about the drain of MigrateSchemas and about the ledger it keeps,    *)
(* for every number of tenants, shards, jobs and failures.                    *)
(***************************************************************************)
EXTENDS MigrateSchemasProofs

\* Zenon finds the leaves that name no prover; SMT those with arithmetic, sequences
\* and updates of functions.
USE ZenonT(30)

-----------------------------------------------------------------------------
(* Job slots and the drain *)

Pairs(f) == {x \in Shards \X Nat : x[2] > 0 /\ x[2] <= f[x[1]]}

\* Finitely many slots are taken.
LEMMA FewSlots ==
  ASSUME NEW f \in [Shards -> Nat], NEW n \in Nat, \A v \in Shards : f[v] <= n
  PROVE  IsFiniteSet(Pairs(f)) /\ Cardinality(Pairs(f)) \in Nat
  <1>1. Pairs(f) \subseteq Shards \X (1..n)
    <2> SUFFICES ASSUME NEW y \in Pairs(f) PROVE y \in Shards \X (1..n)
      OBVIOUS
    <2>1. y \in Shards \X Nat /\ y[2] > 0 /\ y[2] <= f[y[1]]
      BY DEF Pairs
    <2>2. y[1] \in Shards /\ y[2] \in Nat /\ y = <<y[1], y[2]>> /\ f[y[1]] \in Nat
      BY SMT, <2>1
    <2>3. f[y[1]] <= n
      BY <2>2
    <2>4. y[2] \in 1..n
      BY SMT, <2>1, <2>2, <2>3
    <2> QED BY <2>2, <2>4
  <1>2. IsFiniteSet(1..n) /\ IsFiniteSet(Shards)
    BY SMT, FS_Interval, CommandConstants
  <1>3. IsFiniteSet(Shards \X (1..n))
    BY <1>2, FS_Product
  <1>4. IsFiniteSet(Pairs(f)) /\ Cardinality(Pairs(f)) \in Nat
    BY <1>1, <1>3, FS_Subset, FS_CardinalityType
  <1> QED BY <1>4

\* One more slot of a shard is one more job.
LEMMA OneSlot ==
  ASSUME NEW f \in [Shards -> Nat], NEW n \in Nat, \A v \in Shards : f[v] <= n,
         NEW s \in Shards, NEW g, g = [f EXCEPT ![s] = @ + 1]
  PROVE  /\ IsFiniteSet(Pairs(f)) /\ Cardinality(Pairs(f)) \in Nat
         /\ Cardinality(Pairs(g)) = Cardinality(Pairs(f)) + 1
  <1> DEFINE x == <<s, f[s] + 1>>
  <1>4. IsFiniteSet(Pairs(f)) /\ Cardinality(Pairs(f)) \in Nat
    BY FewSlots
  <1>5. x \notin Pairs(f)
    BY SMT DEF Pairs
  <1>6. Pairs(g) = Pairs(f) \cup {x}
    <2>1. ASSUME NEW v \in Shards, NEW k \in Nat
          PROVE  k <= g[v] <=> k <= f[v] \/ (v = s /\ k = f[s] + 1)
      BY SMT, <2>1
    <2>2. ASSUME NEW v \in Shards, NEW k \in Nat
          PROVE  <<v, k>> \in Pairs(g) <=> <<v, k>> \in Pairs(f) \/ <<v, k>> = x
      <3>1. <<v, k>> \in Pairs(g) <=> k > 0 /\ k <= g[v]
        BY DEF Pairs
      <3>2. <<v, k>> \in Pairs(f) <=> k > 0 /\ k <= f[v]
        BY DEF Pairs
      <3>3. <<v, k>> = x <=> v = s /\ k = f[s] + 1
        OBVIOUS
      <3>4. k = f[s] + 1 => k > 0
        BY SMT
      <3> QED BY <2>1, <3>1, <3>2, <3>3, <3>4
    <2>3. \A y \in Pairs(f) \cup Pairs(g) \cup {x} :
             \E v \in Shards, k \in Nat : y = <<v, k>>
      BY SMT DEF Pairs
    <2> HIDE DEF x
    <2>4. ASSUME NEW y \in Pairs(f) \cup Pairs(g) \cup {x}
          PROVE  y \in Pairs(g) <=> y \in Pairs(f) \/ y = x
      <3>1. PICK v \in Shards, k \in Nat : y = <<v, k>>
        BY <2>3
      <3> QED BY <2>2, <3>1
    <2> QED BY <2>4
  <1> HIDE DEF x
  <1>7. Cardinality(Pairs(f) \cup {x}) = Cardinality(Pairs(f)) + 1
    BY <1>4, <1>5, FS_AddElement
  <1> QED BY <1>4, <1>6, <1>7

\* The slots taken are those pairs.
LEMMA SlotPairs ==
  /\ inflight \in [Shards -> Nat] => SlotsOut = Pairs(inflight)
  /\ inflight' \in [Shards -> Nat] => SlotsOut' = Pairs(inflight')
  BY SMT DEF SlotsOut, Pairs

\* The drain.  Before the first signal nothing is late; after it the parent goes
\* on taking targets only until it is back at the head of the loop, and what it
\* takes until then are slots it has out.
Drain ==
    /\ signals = 0 \/ pc \in Early => late = 0
    /\ late <= Jobs
    /\ pc = "next" /\ stop = None => late <= Cardinality(SlotsOut)

\* A step that takes no target.
LEMMA LateStep ==
  ASSUME Typed, Calls, Slots, Others, Drain, [Next]_vars, ~Take
  PROVE  /\ late' = late /\ (signals' = 0 => signals = 0)
         /\ pc' = "next" /\ stop' = None => \/ late = 0
                                            \/ pc = "next" /\ UNCHANGED <<inflight, stop>>
  <1> USE DEF Others
  <1>1. CASE StartShared \/ EndShared \/ Select
    BY <1>1 DEF StartShared, EndShared, Escape, Select, idle
  <1>2. CASE Top
    <2>1. CASE signals = 0
      BY <1>2, <2>1 DEF Top, idle, Drain
    <2>2. CASE signals # 0
      <3>1. stop' # None
        BY SMT, <1>2, <2>2, NoneDistinct DEF Top, Halt, Stops
      <3> QED BY <1>2, <2>2, <3>1 DEF Top, idle
    <2> QED BY <2>1, <2>2
  <1>3. CASE NoMore \/ Wait \/ EndBatch \/ CutOff \/ Unpool \/ KillWorkers
    BY <1>3 DEF Escape, NoMore, Wait, EndBatch, CutOff, Unpool, KillWorkers, idle
  <1>4. CASE \E t \in Tenants : Collect(t)
    BY <1>4, CollectIs
  <1>5. CASE Snapshots \/ Recheck \/ EndRecheck \/ Report
    BY <1>5 DEF Snapshots, Recheck, EndRecheck, Report, idle
  <1>6. CASE OnSignal \/ ForeignInterrupt \/ SkipSnapshots
    <2>1. signals' = signals + 1 /\ late' = late
      BY <1>6 DEF OnSignal, ForeignInterrupt, SkipSnapshots, Signal
    <2>2. pc' = "next" => pc = "next" /\ UNCHANGED <<inflight, stop>>
      BY <1>6, SignalIs DEF SkipSnapshots, stage
    <2> QED BY SMT, <2>1, <2>2
  <1>7. CASE WorkerDies \/ PoolBreaks \/ UNCHANGED vars
    BY <1>7 DEF WorkerDies, PoolBreaks, vars, stage
  <1>8. CASE \E t \in Targets : Work(t) \/ OtherTakes(t) \/ OtherEnds(t)
    <2>1. UNCHANGED parent
      BY <1>8, WorkIs DEF OtherTakes, OtherEnds, rest
    <2> QED BY SMT, <2>1 DEF parent, stage
  <1> QED BY <1>1, <1>2, <1>3, <1>4, <1>5, <1>6, <1>7, <1>8 DEF Next, Parent

\* Every step keeps Drain.
LEMMA DrainStep ==
  ASSUME Typed, Calls, Slots, Others, Drain, [Next]_vars, Slots'
  PROVE  Drain'
  <1>0. /\ opt.jobs \in Nat /\ opt.jobs > 0 /\ Jobs \in Nat /\ Jobs > 0 /\ late \in Nat
        /\ signals \in Nat
    <2>1. opt \in CommandLines /\ Accepted(opt)
      BY CommandConstants DEF Typed
    <2>2. opt.jobs \in Nat /\ opt.jobs > 0
      BY SMT, <2>1 DEF CommandLines, Accepted
    <2> QED BY SMT, <2>2 DEF Jobs, Others
  <1>1. CASE Take
    <2>1. /\ pc = "next" /\ stop = None /\ pick_next # None
          /\ UNCHANGED <<opt, stop, signals>>
          /\ late' = IF signals > 0 THEN late + 1 ELSE late
          /\ inflight' = [inflight EXCEPT ![pick_next] = @ + 1]
          /\ pool' = pool \/ (pool = "empty" /\ pool' = "live")
          /\ pc' \in {"refused", "next", "wait"}
      BY <1>1 DEF Take, idle
    <2>2. Jobs' = Jobs
      BY <2>1 DEF Jobs, Parallel
    <2>3. pick_next \in Shards /\ ~Full
      BY <2>1, PickReady DEF pick_next
    <2>4. /\ inflight \in [Shards -> Nat] /\ inflight' \in [Shards -> Nat] /\ PerShard \in Nat
          /\ \A v \in Shards : inflight[v] <= PerShard
      BY Numbers DEF Slots
    <2>5. /\ Cardinality(Pairs(inflight)) \in Nat
          /\ Cardinality(Pairs(inflight')) = Cardinality(Pairs(inflight)) + 1
      BY <2>1, <2>3, <2>4, OneSlot
    <2>6. /\ Cardinality(SlotsOut) \in Nat /\ Cardinality(SlotsOut') = Cardinality(SlotsOut) + 1
      BY <2>4, <2>5, SlotPairs
    <2>7. Cardinality(SlotsOut) < Jobs
      BY SMT, <1>0, <2>3, <2>6 DEF Full
    <2>8. late <= Cardinality(SlotsOut) /\ (signals = 0 => late = 0)
      BY <2>1 DEF Drain
    <2>9. /\ late' <= Cardinality(SlotsOut') /\ late' <= Jobs'
          /\ (signals' = 0 => late' = 0)
      BY SMT, <1>0, <2>1, <2>2, <2>6, <2>7, <2>8
    <2>10. pc' \notin Early
      BY <2>1 DEF Early
    <2> QED BY <2>9, <2>10 DEF Drain
  <1>2. CASE ~Take
    <2>1. /\ late' = late /\ (signals' = 0 => signals = 0)
          /\ pc' = "next" /\ stop' = None => \/ late = 0
                                             \/ pc = "next" /\ UNCHANGED <<inflight, stop>>
      BY <1>2, LateStep
    <2>2. pc' \in Early => pc \in Early
      <3>1. CASE Select
        BY <3>1 DEF Select, Early
      <3>2. ASSUME NEW t \in Tenants, Collect(t) PROVE pc' \in Early => pc \in Early
        BY <3>2, CollectIs DEF Early
      <3>3. CASE ~Select /\ \A t \in Tenants : ~Collect(t)
        BY <1>2, <3>3, StillStep DEF Still
      <3> QED BY <3>1, <3>2, <3>3
    <2>3. late' <= Jobs'
      <3>1. CASE Select
        <4>1. late = 0 /\ opt' = opt
          BY <3>1 DEF Select, Drain, Early, idle
        <4>2. Jobs' \in Nat
          BY <1>0, <4>1 DEF Jobs
        <4> QED BY SMT, <2>1, <4>1, <4>2
      <3>2. CASE ~Select
        <4>1. opt' = opt /\ (pool' = "none" <=> pool = "none")
          BY <1>2, <3>2, StillStep, CollectIs DEF Still
        <4>2. Jobs' = Jobs
          BY <4>1 DEF Jobs, Parallel
        <4> QED BY <2>1, <4>2 DEF Drain
      <3> QED BY <3>1, <3>2
    <2>4. pc' = "next" /\ stop' = None => late' <= Cardinality(SlotsOut')
      <3>1. CASE late = 0
        <4>1. opt' = opt
          BY <1>2, StillStep, CollectIs DEF Still, Select, idle
        <4>2. PerShard' \in Nat
          BY <4>1, Numbers DEF PerShard
        <4>3. inflight' \in [Shards -> Nat] /\ \A v \in Shards : inflight'[v] <= PerShard'
          BY DEF Slots
        <4>4. Cardinality(SlotsOut') \in Nat
          BY <4>2, <4>3, FewSlots, SlotPairs
        <4> QED BY SMT, <2>1, <3>1, <4>4
      <3>2. CASE pc = "next" /\ UNCHANGED <<inflight, stop>>
        <4>1. SlotsOut' = SlotsOut
          BY <3>2 DEF SlotsOut
        <4> QED BY <2>1, <3>2, <4>1 DEF Drain
      <3> QED BY <2>1, <3>1, <3>2
    <2>5. signals' = 0 \/ pc' \in Early => late' = 0
      BY <2>1, <2>2 DEF Drain
    <2> QED BY <2>3, <2>4, <2>5 DEF Drain
  <1> QED BY <1>1, <1>2

\* `draining - no new targets`: what is started after the first signal fits in the
\* job slots that were free in one round, whatever the pool and the workers do.
THEOREM DrainIsPrompt == Spec => []DrainPrompt
  <1>1. Init /\ Typed => Drain
    <2> SUFFICES ASSUME Init, Typed PROVE Drain
      OBVIOUS
    <2>1. late = 0 /\ signals = 0 /\ pool = "none" /\ pc \in {"select", "shared"}
      BY DEF Init
    <2>2. Jobs = 1
      BY <2>1 DEF Jobs, Parallel
    <2> QED BY SMT, <2>1, <2>2 DEF Drain
  <1>2. /\ Typed /\ Calls /\ Slots /\ Others /\ Drain /\ [Next]_vars /\ Slots' => Drain'
    BY DrainStep
  <1>3. Drain => DrainPrompt
    BY DEF Drain, DrainPrompt
  <1> QED BY <1>1, <1>2, <1>3, OthersInvariant, PTL DEF Spec

-----------------------------------------------------------------------------
(* The ledger *)

Busy == {t \in Targets : entry[t].kind = "running"}

\* The loop of the stage, and the way out of it that _settle has not seen yet.
Loop == {"top", "next", "refused", "wait", "collect", "broken", "killRaise"}
Refusal == {"refused", "killRaise"}

\* What the entries of the summary have to do with queues, futures and slots.  A
\* queued target is queued once and not started; in the stage a target is running
\* when it has a future (or its submit was just refused); and no more run than
\* there are slots out.
Books ==
    /\ \A s \in Shards : \A i, j \in 1..Len(queues[s]) : queues[s][i] = queues[s][j] => i = j
    /\ pc \in Loop => \A t \in InQueue(queues) : Fresh(entry[t])
    /\ \A t \in Tenants :
          /\ pc \in Loop /\ fut[t] # None => entry[t].kind = "running"
          /\ entry[t].kind = "running" => pc \in Loop /\ (fut[t] # None \/ pc \in Refusal)
          /\ pc \in Early => entry[t].kind = "absent"
    /\ pc = "shared" => entry[Shared].kind = "absent"
    /\ pc = "sharedWait" <=> entry[Shared].kind = "running"
    /\ pc = "recheck" => \A t \in batch : entry[t].kind = "skipped"
    /\ pc \notin Early => Cardinality(Busy) <= Cardinality(SlotsOut)

\* Entries end as they may: what ran has a result, what did not is given up.
Moved ==
    \A t \in Targets :
        \/ Booked(entry'[t]) = Booked(entry[t])
        \/ Booked(entry[t]) = "running" /\ Booked(entry'[t]) = "ran"
        \/ Booked(entry[t]) = "todo" /\ Booked(entry'[t]) = "unrun"

\* One target is started, with a slot free for it.
Started ==
    /\ Cardinality(Busy) < Jobs
    /\ \E t \in Targets :
          /\ Booked(entry[t]) = "todo" /\ Booked(entry'[t]) = "running"
          /\ \A u \in Targets : u # t => Booked(entry'[u]) = Booked(entry[u])

LedgerStep ==
    \/ (Moved \/ Started) /\ pc # "done" /\ pc' # "done"
    \/ Busy = {} /\ entry' = entry /\ pc # "done" /\ pc' = "done"
    \/ UNCHANGED <<entry, pc>>

\* How the kinds of an entry are booked.
LEMMA BookedIs ==
  ASSUME NEW e
  PROVE  /\ Booked(e) = "running" <=> e.kind = "running"
         /\ Booked(e) = "todo" <=> e.kind = "absent" \/ Fresh(e)
         /\ e.kind = "not_run" /\ e.reason \in {"stopped", "shard_unreachable"} =>
               Booked(e) = "unrun"
         /\ Booked(e) = "ran" <=> e.kind \notin Unstarted
  BY DEF Booked, Unstarted, Fresh

\* A step that keeps the books is a step of the ledger.
LEMMA LedgerNext ==
  ASSUME LedgerStep
  PROVE  [Ledger!Next]_<<[t \in Targets |-> Booked(entry[t])], pc = "done">>
  <1> DEFINE st == [t \in Targets |-> Booked(entry[t])]
  <1>0. /\ \A t \in Targets : st[t] = Booked(entry[t]) /\ st'[t] = Booked(entry'[t])
        /\ st' = [t \in Targets |-> Booked(entry'[t])]
    OBVIOUS
  <1>1. CASE Moved /\ pc # "done" /\ pc' # "done"
    <2> DEFINE ended == {t \in Targets : st[t] = "running" /\ st'[t] = "ran"}
               given == {t \in Targets : st[t] = "todo" /\ st'[t] = "unrun"}
    <2>1. st' = [t \in Targets |-> IF t \in ended THEN "ran"
                                   ELSE IF t \in given THEN "unrun" ELSE st[t]]
      <3>1. \A t \in Targets : st'[t] = IF t \in ended THEN "ran"
                                         ELSE IF t \in given THEN "unrun" ELSE st[t]
        BY <1>0, <1>1 DEF Moved
      <3> QED BY <3>1
    <2>2. Ledger!Settle(ended, given)
      BY <1>1, <2>1 DEF Ledger!Settle
    <2>3. ended \in SUBSET Targets /\ given \in SUBSET Targets
      OBVIOUS
    <2> HIDE DEF ended, given
    <2> QED BY <2>2, <2>3 DEF Ledger!Next
  <1>2. CASE Started /\ pc # "done" /\ pc' # "done"
    <2>1. PICK t \in Targets :
             /\ Booked(entry[t]) = "todo" /\ Booked(entry'[t]) = "running"
             /\ \A u \in Targets : u # t => Booked(entry'[u]) = Booked(entry[u])
      BY <1>2 DEF Started
    <2>2. st' = [st EXCEPT ![t] = "running"]
      BY <1>0, <2>1
    <2>3. {u \in Targets : st[u] = "running"} = Busy
      BY <1>0, BookedIs DEF Busy
    <2>4. Ledger!Start(t)
      <3>1. Cardinality({u \in Targets : st[u] = "running"}) < Jobs
        BY <1>2, <2>3 DEF Started
      <3>2. st[t] = "todo" /\ (pc' = "done") = (pc = "done")
        BY <1>0, <1>2, <2>1
      <3>3. ~(pc = "done")
        BY <1>2
      <3> QED BY <2>2, <3>1, <3>2, <3>3 DEF Ledger!Start, Ledger!Cardinality, Cardinality
    <2> QED BY <2>4 DEF Ledger!Next
  <1>3. CASE Busy = {} /\ entry' = entry /\ pc # "done" /\ pc' = "done"
    <2>1. \A t \in Targets : st[t] # "running"
      BY <1>0, <1>3, BookedIs DEF Busy
    <2>2. Ledger!Close
      BY SMT, <1>0, <1>3, <2>1 DEF Ledger!Close
    <2> QED BY <2>2 DEF Ledger!Next
  <1>4. CASE UNCHANGED <<entry, pc>>
    BY <1>4
  <1> QED BY <1>1, <1>2, <1>3, <1>4 DEF LedgerStep

\* Sets of targets can be counted, and so can the slots out.
LEMMA Counts ==
  /\ \A S \in SUBSET Targets : IsFiniteSet(S) /\ Cardinality(S) \in Nat
  /\ Typed /\ Slots => Cardinality(SlotsOut) \in Nat
  <1>1. IsFiniteSet(Targets)
    BY CommandConstants, FS_AddElement DEF Targets
  <1>2. ASSUME NEW S \in SUBSET Targets PROVE IsFiniteSet(S) /\ Cardinality(S) \in Nat
    BY <1>1, FS_Subset, FS_CardinalityType
  <1>3. ASSUME Typed, Slots PROVE Cardinality(SlotsOut) \in Nat
    <2>1. /\ inflight \in [Shards -> Nat] /\ PerShard \in Nat
          /\ \A v \in Shards : inflight[v] <= PerShard
      BY <1>3, Numbers DEF Slots
    <2> QED BY <2>1, FewSlots, SlotPairs
  <1> QED BY <1>2, <1>3

\* Steps inside a phase that write no entry keep the books.
LEMMA BooksSame ==
  ASSUME Books, UNCHANGED <<entry, queues, inflight>>,
         \A t \in Tenants : fut'[t] = None => fut[t] = None,
         \A t \in Tenants : fut[t] = None => fut'[t] = None,
         \/ pc' = pc
         \/ pc \in Loop \ Refusal /\ pc' \in Loop
         \/ pc = "refused" /\ pc' = "killRaise",
         pc' = "recheck" => batch' \subseteq batch
  PROVE  Books' /\ LedgerStep
  <1>1. /\ pc' \in Loop <=> pc \in Loop
        /\ pc' \in Early <=> pc \in Early
        /\ pc' = "shared" <=> pc = "shared"
        /\ pc' = "sharedWait" <=> pc = "sharedWait"
        /\ pc' = "recheck" <=> pc = "recheck"
        /\ pc \in Refusal => pc' \in Refusal
        /\ pc' = pc \/ (pc # "done" /\ pc' # "done")
    BY DEF Loop, Refusal, Early
  <1>2. InQueue(queues)' = InQueue(queues) /\ Busy' = Busy /\ SlotsOut' = SlotsOut
    BY DEF InQueue, Busy, SlotsOut
  <1>3. ASSUME NEW t \in Tenants
        PROVE  /\ pc' \in Loop /\ fut'[t] # None => entry'[t].kind = "running"
               /\ entry'[t].kind = "running" => pc' \in Loop /\ (fut'[t] # None \/ pc' \in Refusal)
               /\ pc' \in Early => entry'[t].kind = "absent"
    BY <1>1 DEF Books
  <1>4. Books'
    BY <1>1, <1>2, <1>3 DEF Books
  <1>5. LedgerStep
    BY <1>1 DEF LedgerStep, Moved
  <1> QED BY <1>4, <1>5

\* Steps that leave the stage with nothing running keep the books.
LEMMA BooksOver ==
  ASSUME Typed, Slots, Books, inflight' = inflight, pc # "done",
         \A s \in Shards : queues'[s] \in {queues[s], <<>>},
         pc' \in {"finally", "kill", "snap", "recheck", "report"}, Moved,
         \A t \in Targets : entry'[t].kind # "running",
         pc' = "recheck" => \A t \in batch' : entry'[t].kind = "skipped"
  PROVE  Books' /\ LedgerStep
  <1>1. /\ pc' \notin Loop /\ pc' \notin Early /\ pc' # "shared" /\ pc' # "sharedWait"
        /\ pc' # "done"
    BY DEF Loop, Early
  <1>2. Busy' = {} /\ SlotsOut' = SlotsOut
    BY DEF Busy, SlotsOut
  <1>3. Cardinality(Busy') <= Cardinality(SlotsOut')
    BY SMT, <1>2, Counts, FS_EmptySet
  <1>4. \A s \in Shards :
          \A i, j \in 1..Len(queues'[s]) : queues'[s][i] = queues'[s][j] => i = j
    <2> TAKE s \in Shards
    <2>1. CASE queues'[s] = queues[s]
      BY SMT, <2>1 DEF Books
    <2>2. CASE queues'[s] = <<>>
      BY SMT, <2>2
    <2> QED BY <2>1, <2>2
  <1>5. Books'
    BY <1>1, <1>3, <1>4, TargetsAre DEF Books
  <1> QED BY <1>1, <1>5 DEF LedgerStep

\* _settle gives every entry its end.
LEMMA SettleMoves ==
  ASSUME Typed, NEW k \in Kinds \ Unstarted, NEW r \in Reasons, entry' = Settle(k, r)
  PROVE  Moved /\ \A t \in Targets : entry'[t].kind # "running"
  <1> SUFFICES ASSUME NEW t \in Targets
               PROVE  /\ entry'[t].kind # "running"
                      /\ \/ Booked(entry'[t]) = Booked(entry[t])
                         \/ Booked(entry[t]) = "running" /\ Booked(entry'[t]) = "ran"
                         \/ Booked(entry[t]) = "todo" /\ Booked(entry'[t]) = "unrun"
    BY DEF Moved
  <1>1. \/ entry[t].kind # "running" /\ entry'[t] = entry[t]
        \/ entry[t].kind = "running" /\ entry'[t].kind = k
        \/ /\ Fresh(entry[t])
           /\ entry'[t].kind = "not_run" /\ entry'[t].reason = "stopped"
    BY SMT, SettleIs
  <1>2. k # "running"
    BY DEF Unstarted
  <1> QED BY <1>1, <1>2, BookedIs

\* The shared stage: one target, before any other.
LEMMA SharedBooks ==
  ASSUME Typed, Calls, Slots, Vouched, Books, StartShared \/ EndShared
  PROVE  Books' /\ LedgerStep
  <1> USE TargetsAre
  <1>0. entry \in [Targets -> Outcomes] /\ fut \in [Targets -> Outcomes \cup {None}]
    BY DEF Typed
  <1>1. CASE StartShared
    <2>1. /\ pc = "shared" /\ pc' = "sharedWait" /\ UNCHANGED <<queues, batch>>
          /\ entry' = [entry EXCEPT ![Shared] = [Blank(None) EXCEPT !.kind = "running"]]
          /\ fut' = [fut EXCEPT ![Shared] = Pending]
      BY <1>1 DEF StartShared, stage
    <2>2. /\ entry'[Shared].kind = "running"
          /\ \A t \in Targets : t # Shared => entry'[t] = entry[t]
      BY <1>0, <2>1, BlankIs
    <2>3. /\ pc \in Early /\ pc' \in Early /\ pc' \notin Loop /\ pc' # "shared" /\ pc' # "recheck"
          /\ pc # "done" /\ pc' # "done"
      BY <2>1 DEF Early, Loop
    <2>4. entry[Shared].kind = "absent" /\ \A t \in Tenants : entry[t].kind = "absent"
      BY <2>1, <2>3 DEF Books
    <2>5. \A t \in Tenants : entry'[t].kind = "absent"
      BY <2>2, <2>4
    <2>6. Books'
      BY SMT, <2>1, <2>2, <2>3, <2>5 DEF Books
    <2>7. Cardinality(Busy) = 0
      <3>1. Busy = {}
        BY <2>4 DEF Busy, Targets
      <3> QED BY <3>1, FS_EmptySet
    <2>8. Jobs = 1
      BY <2>3 DEF Calls, Jobs, Parallel
    <2>9. Started
      <3>1. Booked(entry[Shared]) = "todo" /\ Booked(entry'[Shared]) = "running"
        BY <2>2, <2>4, BookedIs
      <3>2. \A u \in Targets : u # Shared => Booked(entry'[u]) = Booked(entry[u])
        BY <2>2
      <3>3. Cardinality(Busy) < Jobs
        BY SMT, <2>7, <2>8
      <3> QED BY <3>1, <3>2, <3>3 DEF Started
    <2> QED BY <2>3, <2>6, <2>9 DEF LedgerStep
  <1>2. CASE EndShared
    <2>1. /\ pc = "sharedWait" /\ UNCHANGED <<queues, inflight, batch>>
          /\ fut' = [fut EXCEPT ![Shared] = None] /\ pc' \in {"select", "report"}
      BY <1>2 DEF EndShared, Escape
    <2>2. /\ entry[Shared].kind = "running" /\ fut[Shared] # None
          /\ \A t \in Tenants : entry[t].kind = "absent" /\ fut[t] = None
      BY <2>1 DEF Books, Calls, Early, Running
    <2>3. CASE entry' = Settle("failed", "migration_error") /\ pc' = "report"
      <3>1. "failed" \in Kinds \ Unstarted /\ "migration_error" \in Reasons
        BY DEF Kinds, Unstarted, Reasons
      <3>2. Moved /\ \A t \in Targets : entry'[t].kind # "running"
        BY <2>3, <3>1, SettleMoves
      <3> QED BY <2>1, <2>3, <3>2, BooksOver
    <2>4. CASE entry' = Taken(entry, Shared, fut[Shared])
      <3>1. fut[Shared].kind \notin Unstarted /\ fut[Shared] \in Outcomes
        BY <1>0, <2>2 DEF Vouched
      <3>2. /\ \A u \in Targets : u # Shared => entry'[u] = entry[u]
            /\ entry'[Shared].kind = fut[Shared].kind
        BY SMT, <1>0, <2>4, <3>1, TakenIs
      <3>3. /\ Booked(entry[Shared]) = "running" /\ Booked(entry'[Shared]) = "ran"
        BY <2>2, <3>1, <3>2, BookedIs
      <3>4. Moved
        BY <3>2, <3>3 DEF Moved
      <3>5. \A t \in Targets : entry'[t].kind # "running"
        BY <2>2, <3>1, <3>2 DEF Unstarted, Targets
      <3>6. CASE pc' = "report"
        BY <2>1, <3>4, <3>5, <3>6, BooksOver
      <3>7. CASE pc' = "select"
        <4>1. pc \in Early /\ pc' \in Early /\ pc' \notin Loop
          BY <2>1, <3>7 DEF Early, Loop
        <4>2. \A t \in Tenants : entry'[t].kind = "absent"
          BY <2>2, <3>2
        <4>3. Books'
          BY SMT, <2>1, <3>5, <3>7, <4>1, <4>2 DEF Books
        <4> QED BY <2>1, <3>4, <3>7, <4>3 DEF LedgerStep
      <3> QED BY <2>1, <3>6, <3>7
    <2> QED BY <1>2, <2>3, <2>4 DEF EndShared, Escape
  <1> QED BY <1>1, <1>2

\* The queues hold entries of tenants.
LEMMA Queued ==
  ASSUME NEW qs \in [Shards -> Seq(Tenants)]
  PROVE  /\ InQueue(qs) \subseteq Tenants
         /\ \A t \in InQueue(qs) : \E s \in Shards : \E i \in 1..Len(qs[s]) : t = qs[s][i]
         /\ \A s \in Shards : \A i \in 1..Len(qs[s]) : qs[s][i] \in InQueue(qs)
  <1>1. \A s \in Shards : /\ DOMAIN qs[s] = 1..Len(qs[s])
                           /\ \A i \in 1..Len(qs[s]) : qs[s][i] \in Tenants
    BY SMT
  <1>2. InQueue(qs) = UNION {Range(qs[s]) : s \in Shards}
    BY DEF InQueue
  <1>3. \A s \in Shards : Range(qs[s]) = {qs[s][i] : i \in 1..Len(qs[s])}
    BY <1>1 DEF Range
  <1>4. ASSUME NEW t \in InQueue(qs)
        PROVE  \E s \in Shards : \E i \in 1..Len(qs[s]) : t = qs[s][i]
    <2>1. PICK s \in Shards : t \in Range(qs[s])
      BY <1>2
    <2>2. PICK i \in 1..Len(qs[s]) : t = qs[s][i]
      BY <1>3, <2>1
    <2> QED BY <2>2
  <1>5. ASSUME NEW t \in InQueue(qs) PROVE t \in Tenants
    <2>1. PICK s \in Shards : \E i \in 1..Len(qs[s]) : t = qs[s][i]
      BY <1>4
    <2> QED BY <1>1, <2>1
  <1>6. \A s \in Shards : \A i \in 1..Len(qs[s]) : qs[s][i] \in InQueue(qs)
    BY <1>2, <1>3
  <1> QED BY <1>4, <1>5, <1>6

\* The selection queues every target it enters, once, and starts none.
LEMMA SelectBooks ==
  ASSUME Typed, Calls, Slots, Books, Select, Typed'
  PROVE  Books' /\ LedgerStep
  <1> USE TargetsAre
  <1>1. /\ pc = "select" /\ pc' \in {"report", "top"} /\ UNCHANGED <<inflight, fut, batch>>
    BY DEF Select
  <1>2. /\ pc \in Early /\ pc' \notin Early /\ pc' # "shared" /\ pc' # "sharedWait" /\ pc' # "recheck"
        /\ pc # "done" /\ pc' # "done"
    BY <1>1 DEF Early
  <1>3. /\ \A t \in Tenants : entry[t].kind = "absent" /\ fut[t] = None
        /\ entry[Shared].kind # "running"
    BY <1>1, <1>2 DEF Books, Calls, Running
  <1>4. CASE pc' = "report" /\ UNCHANGED <<entry, queues>>
    <2>1. \A t \in Targets : entry'[t].kind # "running"
      BY <1>3, <1>4 DEF Targets
    <2>2. Moved
      BY <1>4 DEF Moved
    <2> QED BY <1>1, <1>2, <1>4, <2>1, <2>2, BooksOver
  <1>5. CASE /\ entry' = [t \in Targets |-> IF t \in Selected THEN Blank(row[t].status) ELSE entry[t]]
             /\ queues' = [s \in Shards |-> Ordered({t \in Selected : ShardOf[t] = s})]
    <2>1. /\ Selected \subseteq Tenants
          /\ \A t \in Selected : Fresh(entry'[t]) /\ entry'[t].kind = "not_run"
          /\ \A t \in Targets : t \notin Selected => entry'[t] = entry[t]
      <3>1. Selected \subseteq Tenants
        BY DEF Selected
      <3>2. \A t \in Selected : row[t].status \in Statuses
        BY <3>1 DEF Typed, Rows
      <3>3. \A t \in Selected : entry'[t] = Blank(row[t].status)
        BY <1>5, <3>1
      <3>4. \A t \in Targets : t \notin Selected => entry'[t] = entry[t]
        BY <1>5
      <3>5. \A t \in Selected : Blank(row[t].status).kind = "not_run" /\ Blank(row[t].status).reason = ""
        BY <3>2, BlankIs
      <3> QED BY <3>1, <3>3, <3>4, <3>5 DEF Fresh
    <2>2. \A t \in Targets : entry'[t].kind # "running"
      BY <1>3, <2>1 DEF Targets
    <2>3. \A t \in Targets : Booked(entry'[t]) = Booked(entry[t])
      <3> TAKE t \in Targets
      <3>1. CASE t \in Selected
        <4>1. Booked(entry'[t]) = "todo" /\ Booked(entry[t]) = "todo"
          BY <1>3, <2>1, <3>1, BookedIs
        <4> QED BY <4>1
      <3>2. CASE t \notin Selected
        BY <2>1, <3>2
      <3> QED BY <3>1, <3>2
    <2>4. ASSUME NEW s \in Shards
          PROVE  \A i, j \in 1..Len(queues'[s]) : /\ queues'[s][i] = queues'[s][j] => i = j
                                                   /\ queues'[s][i] \in Selected
      <3> DEFINE S == {t \in Selected : ShardOf[t] = s}
      <3>1. S \in SUBSET Selected /\ S \in SUBSET Tenants /\ S \in SUBSET Nat
        BY <2>1, CommandConstants
      <3>2. IsFiniteSet(S) /\ Cardinality(S) \in Nat
        BY <3>1, CommandConstants, FS_Subset, FS_CardinalityType
      <3>3. queues'[s] = Ordered(S)
        BY <1>5
      <3> HIDE DEF S
      <3>4. /\ Ordered(S) \in [1..Cardinality(S) -> S]
            /\ \A i, j \in 1..Cardinality(S) : i < j => Ordered(S)[i] < Ordered(S)[j]
        BY <3>1, <3>2, Listing
      <3>5. Len(Ordered(S)) = Cardinality(S)
        BY SMT, <3>2, <3>4
      <3>6. ASSUME NEW i \in 1..Cardinality(S), NEW j \in 1..Cardinality(S), i # j
            PROVE  Ordered(S)[i] # Ordered(S)[j]
        <4>1. Ordered(S)[i] \in Nat /\ Ordered(S)[j] \in Nat
          BY <3>1, <3>4
        <4>2. i < j \/ j < i
          BY SMT, <3>2, <3>6
        <4> QED BY SMT, <3>4, <4>1, <4>2
      <3>7. \A i \in 1..Cardinality(S) : Ordered(S)[i] \in Selected
        BY <3>1, <3>4
      <3> QED BY <3>3, <3>5, <3>6, <3>7
    <2>5. \A t \in InQueue(queues') : t \in Selected
      <3> SUFFICES ASSUME NEW t \in InQueue(queues') PROVE t \in Selected
        OBVIOUS
      <3>1. queues' \in [Shards -> Seq(Tenants)]
        BY DEF Typed
      <3>2. PICK s \in Shards : \E i \in 1..Len(queues'[s]) : t = queues'[s][i]
        BY <3>1, Queued
      <3>3. PICK i \in 1..Len(queues'[s]) : t = queues'[s][i]
        BY <3>2
      <3>4. queues'[s][i] \in Selected
        BY <2>4
      <3> QED BY <3>3, <3>4
    <2>6. Cardinality(Busy') <= Cardinality(SlotsOut')
      <3>1. Busy' = {} /\ SlotsOut' = SlotsOut
        BY <1>1, <2>2 DEF Busy, SlotsOut
      <3> QED BY SMT, <3>1, Counts, FS_EmptySet
    <2>7. \A s \in Shards : \A i, j \in 1..Len(queues'[s]) : queues'[s][i] = queues'[s][j] => i = j
      BY <2>4
    <2>8. \A t \in InQueue(queues)' : Fresh(entry'[t])
      <3>1. InQueue(queues)' = InQueue(queues')
        BY DEF InQueue
      <3> QED BY <2>1, <2>5, <3>1
    <2>9. \A t \in Tenants : fut'[t] = None
      BY <1>1, <1>3
    <2>10. Books'
      BY <1>2, <2>2, <2>6, <2>7, <2>8, <2>9 DEF Books
    <2> QED BY <1>2, <2>3, <2>10 DEF LedgerStep, Moved
  <1> QED BY <1>4, <1>5 DEF Select

\* TenantStage.halt gives up what is queued and touches nothing else.
LEMMA StoppedIs ==
  ASSUME NEW es \in [Targets -> Outcomes], NEW ts
  PROVE  /\ \A t \in Targets : t \notin ts => Marked(es, ts, "not_run", "stopped")[t] = es[t]
         /\ \A t \in Targets :
               t \in ts => /\ Marked(es, ts, "not_run", "stopped")[t].kind = "not_run"
                          /\ Marked(es, ts, "not_run", "stopped")[t].reason = "stopped"
  <1>1. "not_run" \in Kinds /\ "stopped" \in Reasons
    BY DEF Kinds, Reasons
  <1> QED BY SMT, <1>1, MarkedIs

\* The head of the loop: a drain gives up what is queued.
LEMMA TopBooks ==
  ASSUME Typed, Slots, Books, Top
  PROVE  Books' /\ LedgerStep
  <1> USE TargetsAre
  <1>1. pc = "top" /\ pc' = "next" /\ UNCHANGED <<inflight, fut, batch>>
    BY DEF Top
  <1>2. /\ pc \in Loop /\ pc' \in Loop /\ pc \notin Refusal /\ pc' # "recheck"
        /\ pc' \notin Early /\ pc \notin Early /\ pc' # "shared" /\ pc' # "sharedWait"
        /\ pc # "sharedWait" /\ pc # "done" /\ pc' # "done"
    BY <1>1 DEF Loop, Refusal, Early
  <1>3. CASE UNCHANGED <<entry, queues>>
    BY <1>1, <1>2, <1>3, BooksSame
  <1>4. CASE entry' = Marked(entry, InQueue(queues), "not_run", "stopped") /\ queues' = Empty
    <2> DEFINE queued == InQueue(queues)
    <2>1. \A t \in queued : Fresh(entry[t]) /\ entry[t].kind = "not_run"
      BY <1>2 DEF Books, Fresh
    <2>2. entry \in [Targets -> Outcomes]
      BY DEF Typed
    <2>3. entry' = Marked(entry, queued, "not_run", "stopped")
      BY <1>4
    <2> HIDE DEF queued
    <2>4. /\ \A t \in Targets : t \notin queued => entry'[t] = entry[t]
          /\ \A t \in Targets : t \in queued => /\ entry'[t].kind = "not_run"
                                                 /\ entry'[t].reason = "stopped"
      BY SMT, <2>2, <2>3, StoppedIs
    <2>5. Moved
      <3> SUFFICES ASSUME NEW t \in Targets, t \in queued
                   PROVE  Booked(entry[t]) = "todo" /\ Booked(entry'[t]) = "unrun"
        BY <2>4 DEF Moved
      <3> QED BY <2>1, <2>4, BookedIs
    <2>6. \A t \in Targets : entry'[t].kind = "running" <=> entry[t].kind = "running"
      BY <2>1, <2>4
    <2>7. Busy' = Busy /\ SlotsOut' = SlotsOut
      BY <1>1, <2>6 DEF Busy, SlotsOut
    <2>8. /\ \A s \in Shards : queues'[s] = <<>>
          /\ InQueue(queues)' = {}
      <3>1. \A s \in Shards : queues'[s] = <<>> /\ Range(<<>>) = {}
        BY SMT, <1>4 DEF Empty, Range
      <3> QED BY <3>1 DEF InQueue
    <2>9. \A s \in Shards : \A i, j \in 1..Len(queues'[s]) : queues'[s][i] = queues'[s][j] => i = j
      BY SMT, <2>8
    <2>10. ASSUME NEW t \in Tenants
           PROVE  /\ fut'[t] # None => entry'[t].kind = "running"
                  /\ entry'[t].kind = "running" => fut'[t] # None
      BY <1>1, <1>2, <2>6 DEF Books
    <2>11. entry'[Shared].kind # "running" /\ Cardinality(Busy) <= Cardinality(SlotsOut)
      BY <1>2, <2>6 DEF Books
    <2>12. Books'
      BY <1>2, <2>7, <2>8, <2>9, <2>10, <2>11 DEF Books
    <2> QED BY <1>2, <2>5, <2>12 DEF LedgerStep
  <1> QED BY <1>3, <1>4 DEF Top, Halt

\* A target is taken: it is not started yet, there is a slot for it, and it is in
\* no queue any more.
LEMMA TakeBooks ==
  ASSUME Typed, Slots, Books, Take, Typed'
  PROVE  Books' /\ LedgerStep
  <1> USE TargetsAre
  <1>0. /\ pc = "next" /\ stop = None /\ pick_next # None /\ UNCHANGED opt
        /\ pick_next \in Shards /\ queues[pick_next] # <<>> /\ ~Full
    BY PickReady DEF Take, idle, pick_next
  <1>a. PICK s \in Shards : s = pick_next
    BY <1>0
  <1>b. PICK t : t = Head(queues[s])
    OBVIOUS
  <1>1. /\ entry \in [Targets -> Outcomes] /\ fut \in [Targets -> Outcomes \cup {None}]
        /\ queues \in [Shards -> Seq(Tenants)] /\ queues' \in [Shards -> Seq(Tenants)]
        /\ queues[s] \in Seq(Tenants) /\ queues[s] # <<>>
    BY <1>0, <1>a DEF Typed
  <1>2. 1 \in 1..Len(queues[s]) /\ t = queues[s][1] /\ t \in Tenants /\ ShardOf[t] = s
    <2>1. 1 \in 1..Len(queues[s]) /\ t = queues[s][1] /\ t \in Tenants
      BY SMT, <1>1, <1>b
    <2> QED BY <2>1 DEF Slots
  <1>3. /\ queues' = [queues EXCEPT ![s] = Tail(@)]
        /\ inflight' = [inflight EXCEPT ![s] = @ + 1]
        /\ entry' = [entry EXCEPT ![t].kind = "running"]
        /\ \/ pc' = "refused" /\ fut' = fut
           \/ pc' \in {"next", "wait"} /\ fut' = [fut EXCEPT ![t] = Pending]
    BY <1>a, <1>b DEF Take
  <1>4. /\ pc \in Loop /\ pc' \in Loop /\ pc \notin Refusal /\ pc' # "recheck"
        /\ pc' \notin Early /\ pc \notin Early /\ pc' # "shared" /\ pc' # "sharedWait"
        /\ pc # "sharedWait" /\ pc # "done" /\ pc' # "done"
    BY <1>0, <1>3 DEF Loop, Refusal, Early
  <1>5. Fresh(entry[t]) /\ entry[t].kind = "not_run"
    <2>1. t \in InQueue(queues)
      BY <1>1, <1>2, Queued
    <2> QED BY <1>4, <2>1 DEF Books, Fresh
  <1>6. entry'[t].kind = "running" /\ \A u \in Targets : u # t => entry'[u] = entry[u]
    <2>1. \A u \in Targets : u # t => entry'[u] = entry[u]
      BY <1>1, <1>3
    <2>2. entry'[t].kind = "running"
      BY SMT, <1>1, <1>2, <1>3 DEF Outcomes
    <2> QED BY <2>1, <2>2
  <1>7. ASSUME NEW v \in Shards, NEW i \in 1..Len(queues'[v])
        PROVE  /\ queues'[v][i] \in InQueue(queues) /\ queues'[v][i] # t
               /\ \A j \in 1..Len(queues'[v]) : queues'[v][i] = queues'[v][j] => i = j
    <2>1. CASE v = s
      <3>1. queues'[v] = Tail(queues[s])
        BY <1>1, <1>3, <2>1
      <3>2. /\ Len(queues[s]) \in Nat /\ Len(queues[s]) = Len(queues'[v]) + 1 /\ i \in Nat
            /\ \A j \in 1..Len(queues'[v]) : /\ j \in Nat /\ j + 1 \in 1..Len(queues[s]) /\ j + 1 # 1
                                              /\ queues'[v][j] = queues[s][j + 1]
        BY SMT, <1>1, <3>1
      <3>3. queues[s][i + 1] \in InQueue(queues)
        BY <1>1, <3>2, Queued
      <3>4. \A j, k \in 1..Len(queues[s]) : queues[s][j] = queues[s][k] => j = k
        BY DEF Books
      <3>5. queues'[v][i] # t
        BY SMT, <1>2, <3>2, <3>4
      <3>6. ASSUME NEW j \in 1..Len(queues'[v]), queues'[v][i] = queues'[v][j] PROVE i = j
        <4>1. queues[s][i + 1] = queues[s][j + 1]
          BY <3>2, <3>6
        <4>2. i + 1 = j + 1
          BY <3>2, <3>4, <4>1
        <4> QED BY SMT, <3>2, <4>2
      <3> QED BY <3>2, <3>3, <3>5, <3>6
    <2>2. CASE v # s
      <3>1. queues'[v] = queues[v]
        BY <1>1, <1>3, <2>2
      <3>2. ShardOf[queues[v][i]] = v
        BY <3>1 DEF Slots
      <3>3. queues[v][i] \in InQueue(queues)
        BY <1>1, <3>1, Queued
      <3>4. \A j \in 1..Len(queues[v]) : queues[v][i] = queues[v][j] => i = j
        BY <3>1 DEF Books
      <3> QED BY <1>2, <2>2, <3>1, <3>2, <3>3, <3>4
    <2> QED BY <2>1, <2>2
  <1>8. ASSUME NEW u \in InQueue(queues') PROVE Fresh(entry'[u])
    <2>1. PICK v \in Shards : \E i \in 1..Len(queues'[v]) : u = queues'[v][i]
      BY <1>1, Queued
    <2>2. u \in InQueue(queues) /\ u # t
      BY <1>7, <2>1
    <2>3. u \in Targets
      BY <1>1, <2>2, Queued
    <2>4. Fresh(entry[u])
      BY <1>4, <2>2 DEF Books
    <2> QED BY <1>6, <2>2, <2>3, <2>4
  <1>9. Busy' = Busy \cup {t} /\ t \notin Busy /\ t \in Targets
    BY <1>2, <1>5, <1>6 DEF Busy
  <1>10. /\ Cardinality(Busy) \in Nat /\ Cardinality(Busy') = Cardinality(Busy) + 1
    <2>1. Busy \in SUBSET Targets
      BY DEF Busy
    <2>2. IsFiniteSet(Busy) /\ Cardinality(Busy) \in Nat
      BY <2>1, Counts
    <2> QED BY <1>9, <2>2, FS_AddElement
  <1>11. /\ Cardinality(SlotsOut) \in Nat /\ Cardinality(SlotsOut') = Cardinality(SlotsOut) + 1
    <2>1. /\ inflight \in [Shards -> Nat] /\ PerShard \in Nat
          /\ \A v \in Shards : inflight[v] <= PerShard
      BY Numbers DEF Slots
    <2>2. inflight' \in [Shards -> Nat]
      BY SMT, <1>3, <2>1
    <2>3. /\ Cardinality(Pairs(inflight)) \in Nat
          /\ Cardinality(Pairs(inflight')) = Cardinality(Pairs(inflight)) + 1
      BY <1>3, <2>1, OneSlot
    <2> QED BY <2>1, <2>2, <2>3, SlotPairs
  <1>12. Cardinality(Busy) <= Cardinality(SlotsOut)
    BY <1>4 DEF Books
  <1>13. Cardinality(SlotsOut) < Jobs /\ Jobs \in Nat
    <2>1. opt \in CommandLines
      BY CommandConstants DEF Typed
    <2>2. Jobs \in Nat
      BY <2>1 DEF Jobs, CommandLines
    <2> QED BY SMT, <1>0, <1>11, <2>2 DEF Full
  <1>14. Started
    <2>1. Cardinality(Busy) < Jobs
      BY SMT, <1>10, <1>11, <1>12, <1>13
    <2>2. Booked(entry[t]) = "todo" /\ Booked(entry'[t]) = "running"
      BY <1>5, <1>6, BookedIs
    <2>3. \A u \in Targets : u # t => Booked(entry'[u]) = Booked(entry[u])
      BY <1>6
    <2> QED BY <1>9, <2>1, <2>2, <2>3 DEF Started
  <1>15. ASSUME NEW u \in Tenants
         PROVE  /\ fut'[u] # None => entry'[u].kind = "running"
                /\ entry'[u].kind = "running" => fut'[u] # None \/ pc' \in Refusal
    <2>1. CASE u = t
      <3>1. pc' \in Refusal \/ fut'[t] = Pending
        BY <1>1, <1>3, <1>9 DEF Refusal
      <3> QED BY <1>6, <2>1, <3>1, FutureIs
    <2>2. CASE u # t
      <3>1. fut'[u] = fut[u] /\ entry'[u] = entry[u]
        BY <1>1, <1>3, <1>6, <2>2
      <3>2. /\ fut[u] # None => entry[u].kind = "running"
            /\ entry[u].kind = "running" => fut[u] # None
        BY <1>4 DEF Books
      <3> QED BY <3>1, <3>2
    <2> QED BY <2>1, <2>2
  <1>16. entry'[Shared].kind # "running"
    BY <1>2, <1>4, <1>6 DEF Books
  <1>17. Cardinality(Busy') <= Cardinality(SlotsOut')
    BY SMT, <1>10, <1>11, <1>12
  <1>18. \A u \in InQueue(queues)' : Fresh(entry'[u])
    BY <1>8 DEF InQueue
  <1>19. \A v \in Shards : \A i, j \in 1..Len(queues'[v]) : queues'[v][i] = queues'[v][j] => i = j
    BY <1>7
  <1>20. Books'
    BY <1>4, <1>15, <1>16, <1>17, <1>18, <1>19 DEF Books
  <1> QED BY <1>4, <1>14, <1>20 DEF LedgerStep

\* A result is taken: its target ran, what is dropped from the queues is given up,
\* and a slot is free again.
LEMMA DoneBooks ==
  ASSUME Typed, Slots, Books, NEW t \in Tenants, NEW r \in Outcomes, r.kind \notin Unstarted,
         Done(t, r), fut[t] # None, fut' = [fut EXCEPT ![t] = None],
         pc = "collect", UNCHANGED <<pc, opt, pool>>, Typed', Slots'
  PROVE  Books' /\ LedgerStep
  <1> USE TargetsAre
  <1>1. /\ entry \in [Targets -> Outcomes] /\ fut \in [Targets -> Outcomes \cup {None}]
        /\ queues \in [Shards -> Seq(Tenants)] /\ queues' \in [Shards -> Seq(Tenants)]
    BY DEF Typed
  <1>2. /\ pc \in Loop /\ pc' \in Loop /\ pc \notin Refusal /\ pc' # "recheck"
        /\ pc' \notin Early /\ pc \notin Early /\ pc' # "shared" /\ pc' # "sharedWait"
        /\ pc # "sharedWait" /\ pc # "done" /\ pc' # "done"
    BY DEF Loop, Refusal, Early
  <1>3. /\ \A u \in Tenants : /\ fut[u] # None => entry[u].kind = "running"
                              /\ entry[u].kind = "running" => fut[u] # None
        /\ entry[Shared].kind # "running"
        /\ Cardinality(Busy) <= Cardinality(SlotsOut)
    BY <1>2 DEF Books
  <1>4. \A u \in InQueue(queues) : Fresh(entry[u]) /\ entry[u].kind = "not_run"
    BY <1>2 DEF Books, Fresh
  <1>5. /\ \A s \in Shards : queues'[s] \in {queues[s], <<>>}
        /\ \A u \in Targets :
              \/ u # t /\ entry'[u] = entry[u]
              \/ /\ u \in InQueue(queues) \ InQueue(queues') /\ entry'[u].kind = "not_run"
                 /\ entry'[u].reason \in {"stopped", "shard_unreachable"}
              \/ u = t /\ entry'[u].kind = r.kind
    BY SMT, DoneIs
  <1>6. entry[t].kind = "running" /\ t \notin InQueue(queues) /\ t \in Targets
    BY <1>3, <1>4
  <1>7. r.kind # "running"
    BY DEF Unstarted
  <1>8. ASSUME NEW u \in Targets
        PROVE  /\ entry'[u].kind = "running" <=> u # t /\ entry[u].kind = "running"
               /\ \/ Booked(entry'[u]) = Booked(entry[u])
                  \/ Booked(entry[u]) = "running" /\ Booked(entry'[u]) = "ran"
                  \/ Booked(entry[u]) = "todo" /\ Booked(entry'[u]) = "unrun"
               /\ u \in InQueue(queues') => entry'[u] = entry[u] \/ u = t
    <2>1. CASE u # t /\ entry'[u] = entry[u]
      BY <2>1
    <2>2. CASE /\ u \in InQueue(queues) \ InQueue(queues') /\ entry'[u].kind = "not_run"
               /\ entry'[u].reason \in {"stopped", "shard_unreachable"}
      <3>1. Booked(entry[u]) = "todo" /\ Booked(entry'[u]) = "unrun"
        BY <1>4, <2>2, BookedIs
      <3> QED BY <1>4, <2>2, <3>1
    <2>3. CASE u = t /\ entry'[u].kind = r.kind
      <3>1. Booked(entry[u]) = "running" /\ Booked(entry'[u]) = "ran"
        BY <1>6, <2>3, BookedIs
      <3> QED BY <1>7, <2>3, <3>1
    <2> QED BY <1>5, <2>1, <2>2, <2>3
  <1>9. Moved
    BY <1>8 DEF Moved
  <1>10. ASSUME NEW u \in InQueue(queues') PROVE Fresh(entry'[u])
    <2>1. PICK v \in Shards : \E i \in 1..Len(queues'[v]) : u = queues'[v][i]
      BY <1>1, Queued
    <2>2. PICK i \in 1..Len(queues'[v]) : u = queues'[v][i]
      BY <2>1
    <2>3. queues'[v] = queues[v]
      BY SMT, <1>5, <2>2
    <2>4. u \in InQueue(queues)
      BY <1>1, <2>2, <2>3, Queued
    <2>5. u \in Targets
      BY <1>1, <2>4, Queued
    <2>6. entry'[u] = entry[u]
      BY <1>6, <1>8, <2>4, <2>5
    <2> QED BY <1>4, <2>4, <2>6
  <1>11. \A v \in Shards : \A i, j \in 1..Len(queues'[v]) : queues'[v][i] = queues'[v][j] => i = j
    <2> TAKE v \in Shards
    <2>1. CASE queues'[v] = queues[v]
      BY <2>1 DEF Books
    <2>2. CASE queues'[v] = <<>>
      BY SMT, <2>2
    <2> QED BY <1>5, <2>1, <2>2
  <1>12. Cardinality(Busy) \in Nat /\ Cardinality(Busy') = Cardinality(Busy) - 1
    <2>1. Busy' = Busy \ {t} /\ t \in Busy
      BY <1>6, <1>8 DEF Busy
    <2>2. Busy \in SUBSET Targets
      BY DEF Busy
    <2>3. IsFiniteSet(Busy) /\ Cardinality(Busy) \in Nat
      BY <2>2, Counts
    <2> QED BY <2>1, <2>3, FS_RemoveElement
  <1>13. Cardinality(SlotsOut') \in Nat /\ Cardinality(SlotsOut) = Cardinality(SlotsOut') + 1
    <2> DEFINE s == ShardOf[t]
    <2>1. /\ inflight \in [Shards -> Nat] /\ inflight' \in [Shards -> Nat] /\ s \in Shards
      BY CommandConstants DEF Slots
    <2>2. inflight' = [inflight EXCEPT ![s] = @ - 1]
      BY DEF Done
    <2>3. /\ PerShard \in Nat /\ \A v \in Shards : inflight'[v] <= PerShard
      <3>1. PerShard' = PerShard
        BY DEF PerShard, Parallel
      <3> QED BY <3>1, Numbers DEF Slots
    <2> HIDE DEF s
    <2>4. inflight = [inflight' EXCEPT ![s] = @ + 1]
      <3>1. inflight'[s] = inflight[s] - 1 /\ inflight[s] \in Nat
        BY <2>1, <2>2
      <3>2. \A v \in Shards : v # s => inflight'[v] = inflight[v]
        BY <2>1, <2>2
      <3>3. inflight[s] = inflight'[s] + 1
        BY SMT, <3>1
      <3>4. \A v \in Shards : inflight[v] = [inflight' EXCEPT ![s] = @ + 1][v]
        BY <2>1, <3>2, <3>3
      <3> QED BY <2>1, <3>4
    <2>5. /\ Cardinality(Pairs(inflight')) \in Nat
          /\ Cardinality(Pairs(inflight)) = Cardinality(Pairs(inflight')) + 1
      BY <2>1, <2>3, <2>4, OneSlot
    <2> QED BY <2>1, <2>5, SlotPairs
  <1>14. Cardinality(Busy') <= Cardinality(SlotsOut')
    BY SMT, <1>3, <1>12, <1>13
  <1>15. ASSUME NEW u \in Tenants
         PROVE  /\ fut'[u] # None => entry'[u].kind = "running"
                /\ entry'[u].kind = "running" => fut'[u] # None
    BY <1>1, <1>3, <1>8
  <1>16. entry'[Shared].kind # "running"
    BY <1>3, <1>8
  <1>17. \A u \in InQueue(queues)' : Fresh(entry'[u])
    BY <1>10 DEF InQueue
  <1>18. Books'
    BY <1>2, <1>11, <1>14, <1>15, <1>16, <1>17 DEF Books
  <1> QED BY <1>2, <1>9, <1>18 DEF LedgerStep

\* A finished future is collected, or its exception ends a sequential run.
LEMMA CollectBooks ==
  ASSUME Typed, Calls, Slots, Vouched, Books, NEW t \in Tenants, Collect(t), Typed', Slots'
  PROVE  Books' /\ LedgerStep
  <1>1. /\ pc = "collect" /\ fut[t] # None /\ Collected(t) \in Outcomes
        /\ fut' = [fut EXCEPT ![t] = None] /\ UNCHANGED opt
    BY CollectIs
  <1>2. Collected(t).kind \notin Unstarted
    <2>1. fut[t].kind \notin Unstarted
      BY <1>1, TargetsAre DEF Vouched
    <2>2. Result("failed", "migration_error", None).kind \notin Unstarted
      BY DEF Result, Unstarted
    <2> QED BY <2>1, <2>2 DEF Collected
  <1>3. CASE Done(t, Collected(t)) /\ UNCHANGED <<pool, pc>>
    BY <1>1, <1>2, <1>3, DoneBooks
  <1>4. CASE /\ entry' = Settle("failed", "migration_error") /\ pc' = "report"
             /\ UNCHANGED <<stage, pool>>
    <2>1. "failed" \in Kinds \ Unstarted /\ "migration_error" \in Reasons
      BY DEF Kinds, Unstarted, Reasons
    <2>2. Moved /\ \A u \in Targets : entry'[u].kind # "running"
      BY <1>4, <2>1, SettleMoves
    <2>3. UNCHANGED <<inflight, queues>> /\ pc # "done" /\ pc' \in {"snap", "recheck", "report"}
      BY <1>1, <1>4 DEF stage
    <2> QED BY <1>4, <2>2, <2>3, BooksOver
  <1> QED BY <1>3, <1>4, CollectIs

\* The pool broke: what runs is cut off, what is queued is given up.
LEMMA CutOffBooks ==
  ASSUME Typed, Slots, Books, CutOff
  PROVE  Books' /\ LedgerStep
  <1> USE TargetsAre
  <1>1. /\ pc = "broken" /\ pc' = "finally" /\ inflight' = inflight /\ queues' = Empty
        /\ entry' = Marked(Marked(entry, Running, "interrupted", "hard_stop"),
                           InQueue(queues), "not_run", "stopped")
    BY DEF CutOff, Halt
  <1>2. pc \in Loop /\ pc \notin Refusal /\ pc # "sharedWait" /\ pc # "done"
    BY <1>1 DEF Loop, Refusal
  <1>3. /\ \A u \in Tenants : /\ fut[u] # None => entry[u].kind = "running"
                              /\ entry[u].kind = "running" => fut[u] # None
        /\ entry[Shared].kind # "running"
    BY <1>2 DEF Books
  <1>4. \A u \in InQueue(queues) : Fresh(entry[u]) /\ entry[u].kind = "not_run"
    BY <1>2 DEF Books, Fresh
  <1>5. \A u \in Targets : u \in Running <=> entry[u].kind = "running"
    BY <1>3 DEF Running, Targets
  <1> DEFINE cut    == Running
             es     == Marked(entry, cut, "interrupted", "hard_stop")
             queued == InQueue(queues)
  <1> HIDE DEF cut, queued
  <1>6. /\ es \in [Targets -> Outcomes]
        /\ \A u \in Targets : u \notin cut => es[u] = entry[u]
        /\ \A u \in Targets : u \in cut => es[u].kind = "interrupted"
    <2>1. "interrupted" \in Kinds /\ "hard_stop" \in Reasons /\ entry \in [Targets -> Outcomes]
      BY DEF Kinds, Reasons, Typed
    <2> QED BY SMT, <2>1, MarkedIs
  <1>7. entry' = Marked(es, queued, "not_run", "stopped")
    BY <1>1 DEF cut, queued
  <1> HIDE DEF es
  <1>8. /\ \A u \in Targets : u \notin queued => entry'[u] = es[u]
        /\ \A u \in Targets : u \in queued => /\ entry'[u].kind = "not_run"
                                               /\ entry'[u].reason = "stopped"
    BY SMT, <1>6, <1>7, StoppedIs
  <1>9. ASSUME NEW u \in Targets
        PROVE  /\ entry'[u].kind # "running"
               /\ \/ Booked(entry'[u]) = Booked(entry[u])
                  \/ Booked(entry[u]) = "running" /\ Booked(entry'[u]) = "ran"
                  \/ Booked(entry[u]) = "todo" /\ Booked(entry'[u]) = "unrun"
    <2>1. CASE u \in queued
      <3>1. Booked(entry[u]) = "todo" /\ Booked(entry'[u]) = "unrun"
        BY SMT, <1>4, <1>8, <2>1, BookedIs DEF queued
      <3> QED BY <1>8, <2>1, <3>1
    <2>2. CASE u \notin queued /\ u \in cut
      <3>1. entry[u].kind = "running" /\ entry'[u].kind = "interrupted"
        BY <1>5, <1>6, <1>8, <2>2 DEF cut
      <3>2. Booked(entry[u]) = "running" /\ Booked(entry'[u]) = "ran"
        BY <3>1, BookedIs DEF Unstarted
      <3> QED BY <3>1, <3>2
    <2>3. CASE u \notin queued /\ u \notin cut
      BY SMT, <1>5, <1>6, <1>8, <2>3 DEF cut
    <2> QED BY <2>1, <2>2, <2>3
  <1>10. Moved /\ \A u \in Targets : entry'[u].kind # "running"
    BY <1>9 DEF Moved
  <1>11. \A s \in Shards : queues'[s] \in {queues[s], <<>>}
    BY <1>1 DEF Empty
  <1>12. pc' \in {"finally", "kill", "snap", "recheck", "report"} /\ pc' # "recheck"
    BY <1>1
  <1> QED BY <1>1, <1>2, <1>10, <1>11, <1>12, BooksOver

\* The stage is over, is refused or is interrupted; what follows it starts nothing.
LEMMA OverBooks ==
  ASSUME Typed, Calls, Slots, Books,
         Unpool \/ KillWorkers \/ NoMore \/ Snapshots \/ Recheck \/ EndRecheck \/ Report
           \/ OnSignal \/ ForeignInterrupt \/ SkipSnapshots
  PROVE  Books' /\ LedgerStep
  <1> USE TargetsAre
  <1>0. /\ "failed" \in Kinds \ Unstarted /\ "migration_error" \in Reasons
        /\ "interrupted" \in Kinds \ Unstarted /\ "hard_stop" \in Reasons
    BY DEF Kinds, Unstarted, Reasons
  <1>1. pc \notin Loop /\ pc # "sharedWait" => \A t \in Targets : entry[t].kind # "running"
    BY DEF Books, Targets
  <1>2. ASSUME pc \notin Loop, pc # "sharedWait", pc # "done", UNCHANGED <<entry, queues, inflight>>,
               pc' \in {"kill", "snap", "recheck", "report"},
               pc' = "recheck" => \A t \in batch' : entry[t].kind = "skipped"
        PROVE  Books' /\ LedgerStep
    <2>1. Moved /\ \A t \in Targets : entry'[t].kind # "running"
      BY <1>1, <1>2 DEF Moved
    <2> QED BY <1>2, <2>1, BooksOver
  <1>3. \A t \in Locked(entry) : entry[t].kind = "skipped"
    BY DEF Locked
  <1>4. CASE Unpool \/ KillWorkers
    <2>1. UNCHANGED <<queues, inflight, fut, batch>>
      BY <1>4 DEF Unpool, KillWorkers, stage
    <2>2. CASE pc = "killRaise" /\ pc' = "report" /\ entry' = Settle("failed", "migration_error")
      <3>1. Moved /\ \A u \in Targets : entry'[u].kind # "running"
        BY <1>0, <2>2, SettleMoves
      <3> QED BY <2>1, <2>2, <3>1, BooksOver
    <2>3. CASE pc = "refused" /\ pc' = "killRaise" /\ entry' = entry
      BY <2>1, <2>3, BooksSame
    <2>4. CASE pc \in {"finally", "kill"} /\ pc' \in {"kill", "snap"} /\ entry' = entry
      BY <1>2, <2>1, <2>4 DEF Loop
    <2> QED BY <1>4, <2>2, <2>3, <2>4 DEF Unpool, KillWorkers, Escape
  <1>5. CASE NoMore
    <2>1. /\ pc = "next" /\ UNCHANGED <<entry, queues, inflight, fut>>
          /\ \/ Running = {} /\ pc' = "recheck" /\ batch' = Locked(entry)
             \/ pc' = "wait"
      BY <1>5 DEF NoMore, stage
    <2>2. CASE pc' = "wait"
      BY <2>1, <2>2, BooksSame DEF Loop, Refusal
    <2>3. CASE Running = {} /\ pc' = "recheck" /\ batch' = Locked(entry)
      <3>1. \A t \in Targets : entry[t].kind # "running"
        BY <2>1, <2>3 DEF Books, Running, Targets, Refusal
      <3>2. Moved /\ \A t \in Targets : entry'[t].kind # "running"
        BY <2>1, <3>1 DEF Moved
      <3>3. \A t \in batch' : entry'[t].kind = "skipped"
        BY <1>3, <2>1, <2>3
      <3> QED BY <2>1, <2>3, <3>2, <3>3, BooksOver
    <2> QED BY <2>1, <2>2, <2>3
  <1>6. CASE Snapshots \/ EndRecheck
    <2>1. /\ pc \in {"snap", "recheck"} /\ UNCHANGED <<entry, queues, inflight>>
          /\ pc' \in {"recheck", "report"} /\ (pc' = "recheck" => batch' = Locked(entry))
      BY <1>6 DEF Snapshots, EndRecheck, stage
    <2> QED BY <1>2, <1>3, <2>1 DEF Loop
  <1>7. CASE Recheck
    <2>1. /\ UNCHANGED <<pc, queues, inflight>> /\ pc = "recheck" /\ batch' \subseteq batch
          /\ batch \subseteq Tenants /\ \A t \in batch : entry[t].kind = "skipped"
      BY <1>7 DEF Recheck, stage, Books, Typed
    <2>2. CASE entry' = entry
      BY <1>2, <2>1, <2>2 DEF Loop
    <2>3. ASSUME NEW t \in batch, entry'[t].kind = "ok",
                 \A u \in Targets : u # t => entry'[u] = entry[u], t \notin batch'
          PROVE  Books' /\ LedgerStep
      <3>1. \A u \in Targets : entry[u].kind # "running" /\ entry'[u].kind # "running"
        BY <1>1, <2>1, <2>3 DEF Loop
      <3>2. Booked(entry[t]) = "ran" /\ Booked(entry'[t]) = "ran"
        BY <2>1, <2>3, BookedIs DEF Unstarted
      <3>3. Moved
        BY <2>3, <3>2 DEF Moved
      <3>4. \A u \in batch' : entry'[u].kind = "skipped"
        BY <2>1, <2>3
      <3> QED BY <2>1, <3>1, <3>3, <3>4, BooksOver
    <2> QED BY <1>7, <2>1, <2>2, <2>3, RecheckWrites
  <1>8. CASE Report
    <2>1. pc = "report" /\ pc' = "done" /\ UNCHANGED <<entry, queues, inflight, fut, batch>>
      BY <1>8 DEF Report, stage
    <2>2. Busy = {} /\ Busy' = {} /\ SlotsOut' = SlotsOut
      BY <1>1, <2>1 DEF Busy, Loop, SlotsOut
    <2>3. /\ pc' \notin Loop /\ pc' \notin Early /\ pc' # "shared" /\ pc' # "sharedWait"
          /\ pc' # "recheck" /\ pc \notin Early /\ pc \notin Loop /\ pc # "sharedWait"
      BY <2>1 DEF Loop, Early
    <2>4. Books'
      BY <1>1, <2>1, <2>2, <2>3 DEF Books
    <2> QED BY <2>1, <2>2, <2>4 DEF LedgerStep
  <1>9. CASE OnSignal \/ ForeignInterrupt
    <2>1. UNCHANGED <<queues, inflight, batch, fut>> /\ pc # "done"
      BY <1>9 DEF OnSignal, ForeignInterrupt
    <2>2. CASE UNCHANGED <<entry, pc>>
      BY <2>1, <2>2, BooksSame
    <2>3. CASE entry' = Settle("interrupted", "hard_stop") /\ pc' = "report"
      <3>1. Moved /\ \A u \in Targets : entry'[u].kind # "running"
        BY <1>0, <2>3, SettleMoves
      <3> QED BY <2>1, <2>3, <3>1, BooksOver
    <2> QED BY <1>9, <2>2, <2>3, SignalIs
  <1>10. CASE SkipSnapshots
    <2>1. /\ pc = "snap" /\ UNCHANGED <<entry, queues, inflight, fut>>
          /\ pc' = "recheck" /\ batch' = Locked(entry)
      BY <1>10 DEF SkipSnapshots, stage
    <2> QED BY <1>2, <1>3, <2>1 DEF Loop
  <1> QED BY <1>4, <1>5, <1>6, <1>7, <1>8, <1>9, <1>10

\* Every step keeps the books and is a step of the ledger.
LEMMA BooksStep ==
  ASSUME Typed, Calls, Slots, Vouched, Books, [Next]_vars, Typed', Slots'
  PROVE  Books' /\ LedgerStep
  <1>1. CASE StartShared \/ EndShared \/ Select \/ Top \/ Take \/ CutOff
    BY <1>1, SharedBooks, SelectBooks, TopBooks, TakeBooks, CutOffBooks
  <1>2. CASE \/ Unpool \/ KillWorkers \/ NoMore \/ Snapshots \/ Recheck \/ EndRecheck \/ Report
             \/ OnSignal \/ ForeignInterrupt \/ SkipSnapshots
    BY <1>2, OverBooks
  <1>3. CASE \E t \in Tenants : Collect(t)
    BY <1>3, CollectBooks
  <1>4. CASE Wait \/ EndBatch
    <2>1. /\ UNCHANGED <<entry, queues, inflight, fut>> /\ pc \in {"wait", "collect"}
          /\ pc' \in {"top", "collect", "broken"}
      BY <1>4 DEF Wait, EndBatch, stage
    <2> QED BY <2>1, BooksSame DEF Loop, Refusal
  <1>5. CASE WorkerDies \/ PoolBreaks
    <2>1. /\ UNCHANGED <<entry, queues, inflight, pc, batch>>
          /\ fut' = fut \/ fut' = [t \in Targets |-> IF fut[t] = Pending THEN Lost ELSE fut[t]]
      BY <1>5 DEF WorkerDies, PoolBreaks, stage
    <2>2. \A t \in Tenants : fut'[t] = None <=> fut[t] = None
      BY <2>1, FutureIs, TargetsAre
    <2> QED BY <2>1, <2>2, BooksSame
  <1>6. ASSUME NEW t \in Targets, Work(t) PROVE Books' /\ LedgerStep
    <2>1. UNCHANGED <<entry, queues, inflight, pc, batch>>
      BY <1>6, WorkIs DEF parent, stage
    <2>2. \A u \in Tenants : fut'[u] = None <=> fut[u] = None
      <3>1. fut \in [Targets -> Outcomes \cup {None}] /\ Pending # None
        BY FutureIs DEF Typed
      <3> QED BY <1>6, <3>1, WorkIs, TargetsAre
    <2> QED BY <2>1, <2>2, BooksSame
  <1>7. CASE UNCHANGED vars \/ \E t \in Targets : OtherTakes(t) \/ OtherEnds(t)
    <2>1. UNCHANGED <<entry, queues, inflight, pc, batch, fut>>
      BY <1>7 DEF vars, OtherTakes, OtherEnds, rest, parent, stage
    <2> QED BY <2>1, BooksSame
  <1> QED BY <1>1, <1>2, <1>3, <1>4, <1>5, <1>6, <1>7 DEF Next, Parent

\* At the start nothing is queued, started or booked.
LEMMA BooksInit ==
  ASSUME Init
  PROVE  Ledger!Init /\ Books
  <1>1. /\ \A t \in Targets : entry[t].kind = "absent"
        /\ fut = [t \in Targets |-> None] /\ pc \in {"select", "shared"}
        /\ queues = [s \in Shards |-> <<>>]
    BY BlankIs DEF Init
  <1>2. \A t \in Targets : Booked(entry[t]) = "todo"
    BY <1>1, BookedIs
  <1>3. Ledger!Init
    BY <1>1, <1>2 DEF Ledger!Init
  <1>4. pc \in Early /\ pc \notin Loop /\ pc # "sharedWait" /\ pc # "recheck"
    BY <1>1 DEF Early, Loop
  <1>5. \A s \in Shards : \A i, j \in 1..Len(queues[s]) : queues[s][i] = queues[s][j] => i = j
    BY SMT, <1>1
  <1>6. Books
    BY <1>1, <1>4, <1>5, TargetsAre DEF Books
  <1> QED BY <1>3, <1>6

\* MigrateSchemas implements RunLedger: with whatever pool, signals, failures and
\* other runs, a target is started at most once and never above --jobs, an end is
\* never taken back, and the report comes last, with nothing running.
THEOREM LedgerImplemented == Spec => LedgerKept
  <1>1. Init => Ledger!Init /\ Books
    BY BooksInit
  <1>2. /\ Typed /\ Calls /\ Slots /\ Vouched /\ Books /\ [Next]_vars /\ Typed' /\ Slots' =>
             Books' /\ [Ledger!Next]_<<[t \in Targets |-> Booked(entry[t])], pc = "done">>
    BY BooksStep, LedgerNext
  <1> QED BY <1>1, <1>2, StageInvariant, SummaryInvariant, PTL
            DEF Spec, LedgerKept, Ledger!Spec

\* The books are in order throughout.
LEMMA BooksInvariant == Spec => [](Typed /\ Calls /\ Books)
  <1>1. Init => Books
    BY BooksInit
  <1>2. Typed /\ Calls /\ Slots /\ Vouched /\ Books /\ [Next]_vars /\ Typed' /\ Slots' => Books'
    BY BooksStep
  <1> QED BY <1>1, <1>2, StageInvariant, SummaryInvariant, PTL DEF Spec

-----------------------------------------------------------------------------
(* Who is left *)

\* Workers the parent has given up on, but not killed, are booked as interrupted.
Strays ==
    pc \in {"finally", "kill"} \/ pool = "left" =>
        \A t \in Tenants : Working(t) => entry[t].kind = "interrupted"

\* Every step keeps Strays.
LEMMA StraysStep ==
  ASSUME Typed, Calls, Books, Strays, [Next]_vars, Calls'
  PROVE  Strays'
  <1> USE TargetsAre
  <1>0. /\ \A t \in Tenants : Working(t) => fut[t] # None
        /\ pool' = "left" => pc' \in {"report", "done"}
    BY AtWork DEF Running, Calls, Pooled
  <1>1. CASE CutOff
    <2> DEFINE cut == Running
               es == Marked(entry, cut, "interrupted", "hard_stop")
               queued == InQueue(queues)
    <2>1. /\ pc = "broken" /\ work' = work
          /\ entry' = Marked(es, queued, "not_run", "stopped")
      BY <1>1 DEF CutOff, Halt
    <2>2. /\ \A t \in Tenants : fut[t] # None => entry[t].kind = "running"
          /\ \A t \in queued : entry[t].kind = "not_run"
      BY <2>1 DEF Books, Loop, Fresh
    <2>3. \A t \in Tenants : Working(t) => t \in cut /\ t \notin queued
      BY <1>0, <2>2 DEF Running
    <2> HIDE DEF cut, queued
    <2>4. /\ es \in [Targets -> Outcomes]
          /\ \A t \in Targets : t \in cut => es[t].kind = "interrupted"
      <3>1. "interrupted" \in Kinds /\ "hard_stop" \in Reasons /\ entry \in [Targets -> Outcomes]
        BY DEF Kinds, Reasons, Typed
      <3> QED BY SMT, <3>1, MarkedIs
    <2> HIDE DEF es
    <2>5. \A t \in Targets : t \notin queued => entry'[t] = es[t]
      BY SMT, <2>1, <2>4, StoppedIs
    <2>6. \A t \in Tenants : Working(t)' => Working(t)
      BY <2>1 DEF Working
    <2> QED BY <2>3, <2>4, <2>5, <2>6 DEF Strays
  <1>2. CASE OnSignal \/ ForeignInterrupt
    <2>1. CASE UNCHANGED <<entry, pc, work, pool>>
      BY <2>1 DEF Strays, Working
    <2>2. CASE work' = Killed
      BY <2>2, KilledIs DEF Strays, Working
    <2>3. CASE /\ entry' = Settle("interrupted", "hard_stop") /\ work' = work /\ pc' = "report"
               /\ pool \in {"none", "closed"}
               /\ pool' = IF pc \in {"kill", "killRaise"} THEN "left" ELSE pool
      <3>1. \A t \in Targets :
              \/ entry[t].kind # "running" /\ entry'[t] = entry[t]
              \/ entry[t].kind = "running" /\ entry'[t].kind = "interrupted"
              \/ Fresh(entry[t])
        <4>1. "interrupted" \in Kinds /\ "hard_stop" \in Reasons
          BY DEF Kinds, Reasons
        <4> QED BY SMT, <2>3, <4>1, SettleIs
      <3>2. pc \in {"kill", "killRaise"} => \A t \in Tenants : Working(t) =>
                entry[t].kind \in {"running", "interrupted"}
        BY <1>0 DEF Books, Strays, Loop
      <3>3. \A t \in Tenants : Working(t)' => Working(t)
        BY <2>3 DEF Working
      <3> QED BY <2>3, <3>1, <3>2, <3>3 DEF Strays, Fresh
    <2> QED BY <1>2, <2>1, <2>2, <2>3, SignalIs
  <1>3. CASE Unpool \/ Report
    <2>1. /\ UNCHANGED <<entry, work>> /\ pc \in {"finally", "refused", "report"}
          /\ pc = "finally" \/ pc' \notin {"finally", "kill"}
          /\ pool' = "closed" \/ pool' = pool
      BY <1>3 DEF Unpool, Report
    <2>2. \A t \in Tenants : Working(t)' => Working(t)
      BY <2>1 DEF Working
    <2> QED BY <2>1, <2>2 DEF Strays
  <1>4. ASSUME NEW t \in Targets, Work(t) PROVE Strays'
    <2>1. UNCHANGED <<entry, pc, pool>> /\ Working(t) /\ \A u \in Targets : u # t => work'[u] = work[u]
      BY <1>4, WorkIs DEF parent
    <2>2. \A u \in Tenants : Working(u)' => Working(u)
      BY <2>1 DEF Working
    <2> QED BY <2>1, <2>2 DEF Strays
  <1>5. CASE WorkerDies \/ PoolBreaks \/ UNCHANGED vars \/ \E t \in Targets : OtherTakes(t) \/ OtherEnds(t)
    <2>1. /\ UNCHANGED <<entry, pc>> /\ (pool' = "left" => pool = "left")
          /\ \A u \in Tenants : work'[u] \in {"dead", work[u]}
      BY <1>5 DEF WorkerDies, PoolBreaks, vars, OtherTakes, OtherEnds, rest, parent, Typed
    <2>2. \A u \in Tenants : Working(u)' => Working(u)
      BY <2>1 DEF Working
    <2> QED BY <2>1, <2>2 DEF Strays
  <1>6. CASE /\ Parent \/ SkipSnapshots
             /\ ~CutOff /\ ~Unpool /\ ~Report
    <2>1. /\ pc' \notin {"finally", "kill"} /\ pool' \in {pool, "none", "empty", "live", "closed"}
          /\ pc \notin {"report", "done"}
      <3>1. CASE StartShared \/ EndShared \/ Select \/ Top \/ Take \/ NoMore \/ Wait
        BY <3>1 DEF StartShared, EndShared, Escape, Select, Top, Take, NoMore, Wait
      <3>2. CASE EndBatch \/ KillWorkers \/ Snapshots \/ Recheck \/ EndRecheck \/ SkipSnapshots
        BY <3>2 DEF EndBatch, KillWorkers, Escape, Snapshots, Recheck, EndRecheck, SkipSnapshots
      <3>3. CASE \E t \in Tenants : Collect(t)
        BY <3>3, CollectIs
      <3> QED BY <1>6, <3>1, <3>2, <3>3 DEF Parent
    <2>2. pool # "left"
      BY <2>1 DEF Calls, Pooled
    <2> QED BY <2>1, <2>2 DEF Strays
  <1> QED BY <1>1, <1>2, <1>3, <1>4, <1>5, <1>6 DEF Next, Parent

\* When the summary is written, a process of this run migrates on only if a signal came
\* between the reset of _pool_live and _kill_workers, and then its target is called
\* interrupted: nobody is left by a drain, any other hard stop, a broken pool or an
\* error in the parent.
THEOREM NobodyIsLeft == Spec => []NobodyLeft
  <1>1. Init => Strays
    BY DEF Init, Strays
  <1>2. Typed /\ Calls /\ Books /\ Strays /\ [Next]_vars /\ Calls' => Strays'
    BY StraysStep
  <1>3. Typed /\ Calls /\ Strays => NobodyLeft
    <2> SUFFICES ASSUME Typed, Calls, Strays, pc \in {"report", "done"}, NEW t \in Targets, Working(t)
                 PROVE  pool = "left" /\ entry[t].kind = "interrupted"
      BY DEF NobodyLeft
    <2>1. pool = "left"
      BY AtWork DEF InStage
    <2>2. t \in Tenants
      BY DEF Calls, Targets
    <2> QED BY <2>1, <2>2 DEF Strays
  <1> QED BY <1>1, <1>2, <1>3, BooksInvariant, PTL DEF Spec

=============================================================================
