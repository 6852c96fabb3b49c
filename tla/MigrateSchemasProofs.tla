------------------------ MODULE MigrateSchemasProofs ------------------------
(***************************************************************************)
(* Proofs about MigrateSchemas, for every fleet, every set of shards, every  *)
(* command line and any number of signals, faults and runs beside this one.  *)
(***************************************************************************)
EXTENDS MigrateSchemas, FiniteSetTheorems, WellFoundedInduction, TLAPS

\* Zenon finds the leaves that name no prover; SMT those with arithmetic, sequences
\* and updates of functions.
USE ZenonT(30)

-----------------------------------------------------------------------------
(* Operators *)

\* A set of numbers that is not empty has a least one: pick_next finds a shard.
LEMMA MinIn ==
  ASSUME NEW S \in SUBSET Nat, S # {}
  PROVE  Min(S) \in S /\ \A m \in S : Min(S) <= m
  <1>1. PICK n \in S : \A m \in S : <<m, n>> \notin OpToRel(<, Nat)
    BY WFMin, NatLessThanWellFounded
  <1>2. \A m \in S : ~(m < n)
    BY <1>1 DEF OpToRel
  <1>3. \A m \in S : n <= m
    BY SMT, <1>2
  <1> QED BY <1>3 DEF Min

\* A finite set of numbers can be listed in increasing order: the queues hold the
\* rows of the selection.
LEMMA Listing ==
  ASSUME NEW S \in SUBSET Nat, IsFiniteSet(S)
  PROVE  /\ Ordered(S) \in [1..Cardinality(S) -> S]
         /\ \A i, j \in 1..Cardinality(S) : i < j => Ordered(S)[i] < Ordered(S)[j]
  <1> DEFINE Increasing(q) == \A i, j \in DOMAIN q : i < j => q[i] < q[j]
             Listed(T) == \E q \in [1..Cardinality(T) -> T] : Increasing(q)
             Counter == {n \in Nat : \E T \in SUBSET S : Cardinality(T) = n /\ ~Listed(T)}
  <1>1. \A T \in SUBSET S : IsFiniteSet(T) /\ Cardinality(T) \in Nat
    BY FS_Subset, FS_CardinalityType
  <1>2. Counter = {}
    <2> SUFFICES ASSUME Counter # {} PROVE FALSE
      OBVIOUS
    <2>1. PICK n \in Counter : \A m \in Counter : n <= m
      BY MinIn
    <2>2. PICK T \in SUBSET S : Cardinality(T) = n /\ ~Listed(T)
      BY <2>1
    <2>3. CASE T = {}
      <3>1. Cardinality(T) = 0
        BY <2>3, FS_EmptySet
      <3>2. [i \in 1..0 |-> 0] \in [1..Cardinality(T) -> T] /\ Increasing([i \in 1..0 |-> 0])
        BY SMT, <3>1
      <3> QED BY <2>2, <3>2
    <2>4. CASE T # {}
      <3> DEFINE x == Min(T)
                 U == T \ {x}
      <3>1. x \in T /\ x \in Nat /\ \A y \in T : x <= y
        BY <2>4, MinIn
      <3>2. Cardinality(U) = n - 1 /\ n - 1 \in Nat
        <4>1. Cardinality(U) = n - 1
          BY <1>1, <2>2, <3>1, FS_RemoveElement
        <4>2. Cardinality(U) \in Nat
          BY <1>1
        <4> QED BY <4>1, <4>2
      <3>3. Listed(U)
        <4>1. n - 1 \notin Counter
          BY SMT, <2>1, <3>2
        <4>2. U \in SUBSET S
          OBVIOUS
        <4> QED BY <3>2, <4>1, <4>2
      <3>4. PICK q \in [1..(n - 1) -> U] : Increasing(q)
        BY <3>2, <3>3
      <3> DEFINE p == [i \in 1..n |-> IF i = 1 THEN x ELSE q[i - 1]]
      <3>5. \A i \in 1..n : i # 1 => i - 1 \in 1..(n - 1) /\ q[i - 1] \in U
        BY SMT, <3>2, <3>4
      <3>6. p \in [1..n -> T]
        BY <3>1, <3>5
      <3>7. \A i, j \in 1..n : i < j => p[i] < p[j]
        <4> SUFFICES ASSUME NEW i \in 1..n, NEW j \in 1..n, i < j PROVE p[i] < p[j]
          OBVIOUS
        <4>1. j # 1 /\ p[j] = q[j - 1] /\ j - 1 \in 1..(n - 1) /\ q[j - 1] \in U
          BY SMT, <3>2, <3>5
        <4>2. CASE i = 1
          <5>1. p[i] = x /\ q[j - 1] \in T /\ q[j - 1] # x
            BY <4>1, <4>2
          <5>2. q[j - 1] \in Nat /\ x <= q[j - 1]
            BY <5>1, <3>1
          <5> QED BY SMT, <4>1, <5>1, <5>2, <3>1
        <4>3. CASE i # 1
          <5>1. p[i] = q[i - 1] /\ i - 1 \in 1..(n - 1)
            BY <4>3, <3>5
          <5>2. i - 1 < j - 1
            BY SMT, <3>2
          <5> QED BY <4>1, <5>1, <5>2, <3>4
        <4> QED BY <4>2, <4>3
      <3>8. Listed(T)
        BY <2>2, <3>6, <3>7
      <3> QED BY <2>2, <3>8
    <2> QED BY <2>3, <2>4
  <1>3. \E q \in [1..Cardinality(S) -> S] : Increasing(q)
    <2>1. Cardinality(S) \in Nat /\ Cardinality(S) \notin Counter
      BY <1>1, <1>2
    <2>2. S \in SUBSET S
      OBVIOUS
    <2>3. Listed(S)
      <3> HIDE DEF Listed
      <3> QED BY <2>1, <2>2
    <2> QED BY <2>3
  <1>4. Ordered(S) \in [1..Cardinality(S) -> S] /\ Increasing(Ordered(S))
    BY <1>3 DEF Ordered
  <1>5. DOMAIN Ordered(S) = 1..Cardinality(S)
    BY <1>4
  <1> QED BY <1>4, <1>5

\* What _settle and halt do to the summary: kind and reason of the entries named.
LEMMA MarkedIs ==
  ASSUME NEW es \in [Targets -> Outcomes], NEW ts, NEW k \in Kinds, NEW r \in Reasons
  PROVE  /\ Marked(es, ts, k, r) \in [Targets -> Outcomes]
         /\ \A t \in Targets : t \notin ts => Marked(es, ts, k, r)[t] = es[t]
         /\ \A t \in Targets : t \in ts => /\ Marked(es, ts, k, r)[t].kind = k
                                           /\ Marked(es, ts, k, r)[t].reason = r
  <1>1. \A t \in Targets : /\ [es[t] EXCEPT !.kind = k, !.reason = r] \in Outcomes
                           /\ [es[t] EXCEPT !.kind = k, !.reason = r].kind = k
                           /\ [es[t] EXCEPT !.kind = k, !.reason = r].reason = r
    BY DEF Outcomes
  <1> QED BY <1>1 DEF Marked

\* Entry.take copies the result and keeps the status the target had before.
LEMMA TakenIs ==
  ASSUME NEW es \in [Targets -> Outcomes], NEW t \in Targets, NEW r \in Outcomes
  PROVE  /\ Taken(es, t, r) \in [Targets -> Outcomes]
         /\ \A u \in Targets : u # t => Taken(es, t, r)[u] = es[u]
         /\ Taken(es, t, r)[t].kind = r.kind /\ Taken(es, t, r)[t].reason = r.reason
  <1>1. es[t].before \in Statuses \cup {None}
    BY DEF Outcomes
  <1>2. /\ [r EXCEPT !.before = es[t].before] \in Outcomes
        /\ [r EXCEPT !.before = es[t].before].kind = r.kind
        /\ [r EXCEPT !.before = es[t].before].reason = r.reason
    BY <1>1 DEF Outcomes
  <1> QED BY <1>2 DEF Taken

\* The states of a future without a result are outcomes, so not None.
LEMMA FutureIs ==
  /\ Pending \in Outcomes /\ Raised \in Outcomes /\ Lost \in Outcomes
  /\ Pending.kind = "pending" /\ Raised.kind = "raised" /\ Lost.kind = "lost"
  /\ Pending.reason = "" /\ Raised.reason = "" /\ Lost.reason = ""
  /\ None \notin Outcomes
  <1>1. Pending \in Outcomes /\ Pending.kind = "pending" /\ Pending.reason = ""
    BY DEF Pending, Result, Outcomes, Reasons
  <1>2. Raised \in Outcomes /\ Raised.kind = "raised" /\ Raised.reason = ""
    BY DEF Raised, Result, Outcomes, Reasons
  <1>3. Lost \in Outcomes /\ Lost.kind = "lost" /\ Lost.reason = ""
    BY DEF Lost, Result, Outcomes, Reasons
  <1> QED BY <1>1, <1>2, <1>3, NoneDistinct

\* A new entry of the summary.
LEMMA BlankIs ==
  /\ Absent \in Outcomes /\ Absent.kind = "absent" /\ Absent.reason = ""
  /\ \A b \in Statuses \cup {None} :
        Blank(b) \in Outcomes /\ Blank(b).kind = "not_run" /\ Blank(b).reason = ""
  /\ [Blank(None) EXCEPT !.kind = "running"] \in Outcomes
  /\ [Blank(None) EXCEPT !.kind = "running"].kind = "running"
  /\ [Blank(None) EXCEPT !.kind = "running"].reason = ""
  <1>1. Absent \in Outcomes /\ Absent.kind = "absent" /\ Absent.reason = ""
    BY DEF Absent, Outcomes, Kinds, Reasons
  <1>2. ASSUME NEW b \in Statuses \cup {None}
        PROVE  Blank(b) \in Outcomes /\ Blank(b).kind = "not_run" /\ Blank(b).reason = ""
    BY <1>1 DEF Blank, Outcomes, Kinds
  <1>3. /\ [Blank(None) EXCEPT !.kind = "running"] \in Outcomes
        /\ [Blank(None) EXCEPT !.kind = "running"].kind = "running"
        /\ [Blank(None) EXCEPT !.kind = "running"].reason = ""
    <2> DEFINE b == Blank(None)
    <2>1. b \in Outcomes /\ b.reason = ""
      BY <1>2
    <2> HIDE DEF b
    <2>2. /\ [b EXCEPT !.kind = "running"] \in Outcomes
          /\ [b EXCEPT !.kind = "running"].kind = "running"
          /\ [b EXCEPT !.kind = "running"].reason = ""
      BY <2>1 DEF Outcomes, Kinds
    <2> QED BY <2>2 DEF b
  <1> QED BY <1>1, <1>2, <1>3

\* pick_next names a shard that has a target queued and a free slot.
LEMMA PickReady ==
  ASSUME pick_next # None
  PROVE  pick_next \in Ready /\ pick_next \in Shards /\ queues[pick_next] # <<>>
  <1> DEFINE after == {s \in Ready : s > last}
             from  == IF after # {} THEN after ELSE Ready
  <1>1. Ready # {} /\ pick_next = Min(from)
    BY DEF pick_next
  <1>2. from \in SUBSET Nat /\ from # {} /\ from \subseteq Ready
    BY <1>1, CommandConstants DEF Ready
  <1> HIDE DEF from
  <1>3. pick_next \in from
    BY <1>1, <1>2, MinIn
  <1> QED BY <1>2, <1>3 DEF Ready

-----------------------------------------------------------------------------
(* Types *)

Early == {"shared", "sharedWait", "select"}
InStage == {"top", "next", "refused", "wait", "collect", "broken", "finally", "kill", "killRaise"}

Typed ==
    /\ opt \in Options /\ Accepted(opt)
    /\ pc \in Early \cup InStage \cup {"snap", "recheck", "report", "done"}
    /\ entry \in [Targets -> Outcomes]
    /\ fut \in [Targets -> Outcomes \cup {None}]
    /\ work \in [Targets -> {"off", "start", "run", "ended", "dead"}]
    /\ pool \in {"none", "empty", "live", "dying", "broken", "closed", "left"}
    /\ stop \in Stops \cup {None}
    /\ queues \in [Shards -> Seq(Tenants)]
    /\ batch \subseteq Tenants
    /\ row \in [Targets -> Rows]
    /\ code \in ExitCodes \cup {None}

\* TenantStage.done takes the result of t and may drop queued targets.
LEMMA DoneIs ==
  ASSUME Typed, NEW t \in Tenants, NEW r \in Outcomes, Done(t, r)
  PROVE  /\ entry' \in [Targets -> Outcomes]
         /\ stop' \in Stops \cup {None} /\ (stop' = None => stop = None)
         /\ queues' \in [Shards -> Seq(Tenants)]
         /\ \A s \in Shards : queues'[s] \in {queues[s], <<>>}
         /\ \A u \in Targets :
               \/ u # t /\ entry'[u] = entry[u]
               \/ /\ u \in InQueue(queues) \ InQueue(queues') /\ entry'[u].kind = "not_run"
                  /\ entry'[u].reason \in {"stopped", "shard_unreachable"}
               \/ u = t /\ entry'[u].kind = r.kind /\ entry'[u].reason = r.reason
  <1> DEFINE s    == ShardOf[t]
             n    == Count(consecutive[s], r)
             left == IF r.conn = "shard" THEN [queues EXCEPT ![s] = <<>>] ELSE queues
             cut  == InQueue(queues) \ InQueue(left)
             took == Taken(entry, t, r)
             es   == Marked(took, cut, "not_run", "shard_unreachable")
             why  == HaltReason(r, n, left)
  <1>1. /\ t \in Targets /\ entry \in [Targets -> Outcomes] /\ stop \in Stops \cup {None}
        /\ "not_run" \in Kinds /\ "stopped" \in Reasons /\ "shard_unreachable" \in Reasons
    BY DEF Targets, Typed, Kinds, Reasons
  <1>2. /\ took \in [Targets -> Outcomes]
        /\ \A u \in Targets : u # t => took[u] = entry[u]
        /\ took[t].kind = r.kind /\ took[t].reason = r.reason
    BY SMT, <1>1, TakenIs
  <1>4. why \in Stops \cup {None}
    BY DEF HaltReason, Stops
  <1>5. \/ why # None /\ Halt(left, es, why, FALSE)
        \/ why = None /\ entry' = es /\ stop' = stop /\ queues' = left
    BY DEF Done
  <1>8. /\ queues' \in [Shards -> Seq(Tenants)]
        /\ \A x \in Shards : queues'[x] \in {queues[x], <<>>}
    <2>1. queues \in [Shards -> Seq(Tenants)]
      BY DEF Typed
    <2>2. left \in [Shards -> Seq(Tenants)] /\ \A x \in Shards : left[x] \in {queues[x], <<>>}
      <3>1. CASE r.conn = "shard"
        <4> HIDE DEF s
        <4>1. left = [x \in Shards |-> IF x = s THEN <<>> ELSE queues[x]]
          BY <2>1, <3>1
        <4>2. \A x \in Shards : left[x] = IF x = s THEN <<>> ELSE queues[x]
          BY <4>1
        <4>3. \A x \in Shards : left[x] \in Seq(Tenants)
          BY SMT, <2>1, <4>2
        <4> HIDE DEF left
        <4> QED BY <4>1, <4>2, <4>3
      <3>2. CASE r.conn # "shard"
        BY <2>1, <3>2
      <3> QED BY <3>1, <3>2
    <2>3. queues' = left \/ queues' = Empty
      BY <1>5 DEF Halt
    <2> HIDE DEF left
    <2>4. Empty \in [Shards -> Seq(Tenants)] /\ \A x \in Shards : Empty[x] = <<>>
      BY SMT DEF Empty
    <2>5. CASE queues' = left
      BY <2>2, <2>5
    <2>6. CASE queues' = Empty
      BY <2>4, <2>6
    <2> QED BY <2>3, <2>5, <2>6
  <1>9. /\ cut \subseteq InQueue(queues) \ InQueue(left)
        /\ InQueue(left) \subseteq InQueue(queues) /\ InQueue(Empty) = {}
    <2>1. cut \subseteq InQueue(queues) \ InQueue(left)
      OBVIOUS
    <2>2. \A x \in Shards : left[x] = queues[x] \/ left[x] = <<>>
      BY DEF Typed
    <2>3. Range(<<>>) = {}
      BY SMT DEF Range
    <2> HIDE DEF left
    <2>4. InQueue(left) \subseteq InQueue(queues)
      BY <2>2, <2>3 DEF InQueue
    <2>5. InQueue(Empty) = {}
      BY <2>3 DEF InQueue, Empty
    <2> QED BY <2>1, <2>4, <2>5
  <1> HIDE DEF took, cut, why, left, n
  <1>3. /\ es \in [Targets -> Outcomes]
        /\ \A u \in Targets : u \notin cut => es[u] = took[u]
        /\ \A u \in Targets : u \in cut => /\ es[u].kind = "not_run"
                                           /\ es[u].reason = "shard_unreachable"
    BY SMT, <1>1, <1>2, MarkedIs
  <1> HIDE DEF es
  <1>6. CASE why # None /\ Halt(left, es, why, FALSE)
    <2> DEFINE queued == InQueue(left)
    <2>1. /\ entry' = Marked(es, queued, "not_run", "stopped")
          /\ stop' = IF stop = None THEN why ELSE stop
      BY <1>6 DEF Halt
    <2> HIDE DEF queued
    <2>2. /\ entry' \in [Targets -> Outcomes]
          /\ \A u \in Targets : u \notin queued => entry'[u] = es[u]
          /\ \A u \in Targets : u \in queued => /\ entry'[u].kind = "not_run"
                                                /\ entry'[u].reason = "stopped"
      BY SMT, <1>1, <1>3, <2>1, MarkedIs
    <2>3. stop' \in Stops \cup {None} /\ (stop' = None => stop = None)
      BY <1>1, <1>4, <1>6, <2>1
    <2>4. queued \subseteq InQueue(queues) /\ InQueue(queues') = {}
      BY <1>6, <1>9 DEF queued, Halt
    <2> QED BY SMT, <1>2, <1>3, <1>8, <1>9, <2>2, <2>3, <2>4
  <1>7. CASE entry' = es /\ stop' = stop /\ queues' = left
    BY <1>1, <1>2, <1>3, <1>7, <1>8, <1>9
  <1> QED BY <1>5, <1>6, <1>7

\* An entry whose target waits to be started.
Fresh(e) == e.kind = "not_run" /\ e.reason = ""

\* _settle: running entries get kind and reason, unstarted ones are not run.
LEMMA SettleIs ==
  ASSUME Typed, NEW kind \in Kinds, NEW reason \in Reasons
  PROVE  /\ Settle(kind, reason) \in [Targets -> Outcomes]
         /\ \A u \in Targets :
               \/ /\ entry[u].kind # "running"
                  /\ Settle(kind, reason)[u] = entry[u]
               \/ /\ entry[u].kind = "running"
                  /\ Settle(kind, reason)[u].kind = kind /\ Settle(kind, reason)[u].reason = reason
               \/ /\ Fresh(entry[u])
                  /\ Settle(kind, reason)[u].kind = "not_run"
                  /\ Settle(kind, reason)[u].reason = "stopped"
  <1> DEFINE on == {t \in Targets : entry[t].kind = "running"}
             off == {t \in Targets : entry[t].kind = "not_run" /\ entry[t].reason = ""}
             es == Marked(entry, on, kind, reason)
  <1>3. Settle(kind, reason) = Marked(es, off, "not_run", "stopped")
    BY DEF Settle
  <1> HIDE DEF on, off
  <1>1. entry \in [Targets -> Outcomes] /\ "not_run" \in Kinds /\ "stopped" \in Reasons
    BY DEF Typed, Kinds, Reasons
  <1>2. /\ es \in [Targets -> Outcomes]
        /\ \A t \in Targets : t \notin on => es[t] = entry[t]
        /\ \A t \in Targets : t \in on => es[t].kind = kind /\ es[t].reason = reason
    BY SMT, <1>1, MarkedIs
  <1> HIDE DEF es
  <1>4. /\ Settle(kind, reason) \in [Targets -> Outcomes]
        /\ \A t \in Targets : t \notin off => Settle(kind, reason)[t] = es[t]
        /\ \A t \in Targets : t \in off => /\ Settle(kind, reason)[t].kind = "not_run"
                                           /\ Settle(kind, reason)[t].reason = "stopped"
    BY SMT, <1>1, <1>2, <1>3, MarkedIs
  <1>5. \A t \in Targets :
            /\ t \in on <=> entry[t].kind = "running"
            /\ t \in off <=> Fresh(entry[t])
    BY DEF on, off, Fresh
  <1> QED BY SMT, <1>2, <1>4, <1>5

\* The pool: closed before its workers are killed, which only a signal prevents, and
\* used by nothing but the command line's parallel mode.
Pooled ==
    /\ pool = "left" => pc \in {"report", "done"}
    /\ pc \in InStage => (pool = "closed" <=> pc \in {"kill", "killRaise"})
    /\ pc \in {"refused", "broken", "finally"} => Parallel
    /\ Parallel => opt.cli

\* Who migrates, and when.  A call of a worker has a future that is pending or was
\* lost with the pool, and outlives the stage only when a signal left it there; the
\* sequential mode has one call at a time.
Calls ==
    /\ Pooled
    /\ \A t \in Tenants : Working(t) => /\ fut[t] \in {Pending, Lost}
                                        /\ pc \in InStage \/ pool = "left"
    /\ Working(Shared) => fut[Shared] = Pending /\ pc = "sharedWait"
    /\ pc = "sharedWait" => fut[Shared] # None
    /\ pc \in Early => pool = "none" /\ Running = {}
    /\ pc = "collect" => \A t \in batch : fut[t] \notin {None, Pending}
    /\ ~Parallel =>
          /\ \A t \in Targets : fut[t] # Lost
          /\ pc \in {"top", "next"} => Running = {}
          /\ pc = "wait" => \A t, u \in Running : t = u
          /\ pc = "collect" => Running \subseteq batch

\* The targets, and what a step of the parent leaves alone.
LEMMA TargetsAre == Shared \in Targets /\ Tenants \subseteq Targets /\ Shared \notin Tenants
  BY CommandConstants DEF Targets, Shared

\* Killing the workers leaves nobody at work.
LEMMA KilledIs ==
  ASSUME Typed
  PROVE  /\ Killed \in [Targets -> {"off", "start", "run", "ended", "dead"}]
         /\ \A t \in Targets : Killed[t] \notin {"start", "run"}
  BY DEF Killed, Working, Typed

\* Why a call ends before it has a lease to work under.
EarlyReasons == {"status_failed", "up_to_date", "locked", "code_older_than_db"}

\* What a call returns: an outcome, never the state of a future without a result.
LEMMA CallResults ==
  ASSUME Typed, NEW t \in Targets
  PROVE  /\ EarlyResult(t) \in Outcomes \cup {None} /\ EarlyShared \in Outcomes \cup {None}
         /\ \A r \in ConnErrors(t) : /\ r \in Outcomes /\ r.kind = "failed"
                                     /\ r.reason = "conn_error"
         /\ EarlyShared # None => EarlyShared.kind = "failed" /\ EarlyShared.reason = "locked"
         /\ EarlyResult(t) # None =>
               /\ EarlyResult(t).kind \in {"skipped", "noop"}
               /\ EarlyResult(t).reason \in EarlyReasons
               /\ EarlyResult(t).kind = "noop" => Current(row[t])
         /\ Result("failed", "migration_error", None) \in Outcomes
         /\ Result("ok", "applied", None) \in Outcomes
         /\ Result("skipped", "code_older_than_db", None) \in Outcomes
         /\ Result("failed", "schema_missing", None) \in Outcomes
  <1> USE DEF EarlyReasons
  <1>1. \A k \in Kinds, r \in Reasons, c \in {None, "default", "shard"} :
            /\ Result(k, r, c) \in Outcomes
            /\ Result(k, r, c).kind = k /\ Result(k, r, c).reason = r
    BY DEF Result, Outcomes
  <1>2. /\ {"skipped", "noop", "failed", "ok"} \subseteq Kinds
        /\ {"status_failed", "up_to_date", "locked", "conn_error", "migration_error", "applied",
            "code_older_than_db", "schema_missing"} \subseteq Reasons
    BY DEF Kinds, Reasons
  <1>3. \A r \in ConnErrors(t) :
            \E c \in {None, "default", "shard"} : r = Result("failed", "conn_error", c)
    BY DEF ConnErrors
  <1>4. \A r \in ConnErrors(t) : r \in Outcomes /\ r.kind = "failed" /\ r.reason = "conn_error"
    BY SMT, <1>1, <1>2, <1>3
  <1>5. \/ EarlyResult(t) = Result("skipped", "status_failed", None)
        \/ EarlyResult(t) = Result("noop", "up_to_date", None) /\ Current(row[t])
        \/ EarlyResult(t) = Result("skipped", "locked", None)
        \/ EarlyResult(t) = Result("skipped", "code_older_than_db", None)
        \/ EarlyResult(t) = None
    BY DEF EarlyResult
  <1>6. EarlyShared = Result("failed", "locked", None) \/ EarlyShared = None
    BY DEF EarlyShared
  <1>7. /\ Result("failed", "migration_error", None) \in Outcomes
        /\ Result("ok", "applied", None) \in Outcomes
        /\ Result("skipped", "code_older_than_db", None) \in Outcomes
        /\ Result("failed", "schema_missing", None) \in Outcomes
    BY <1>1, <1>2
  <1>8. /\ EarlyResult(t) \in Outcomes \cup {None}
        /\ EarlyResult(t) # None =>
               /\ EarlyResult(t).kind \in {"skipped", "noop"}
               /\ EarlyResult(t).reason \in EarlyReasons
               /\ EarlyResult(t).kind = "noop" => Current(row[t])
    BY SMT, <1>1, <1>2, <1>5
  <1>9. /\ EarlyShared \in Outcomes \cup {None}
        /\ EarlyShared # None => EarlyShared.kind = "failed" /\ EarlyShared.reason = "locked"
    BY SMT, <1>1, <1>2, <1>6
  <1> QED BY <1>4, <1>7, <1>8, <1>9

\* The rows of the catalog: what is current stays so, and nothing that serves
\* falls behind.
RowsKept ==
    /\ row' \in [Targets -> Rows]
    /\ \A t \in Targets :
          /\ Current(row[t]) => Current(row'[t])
          /\ row'[t].status \in Upgradable /\ ~Current(row'[t]) =>
                row[t].status \in Upgradable /\ ~Current(row[t])

\* migrate_tenant and the other run only take a row forward.
LEMMA RowStep ==
  ASSUME Typed, NEW t \in Targets, Work(t) \/ OtherTakes(t) \/ OtherEnds(t)
  PROVE  RowsKept
  <1> DEFINE w == row[t]
             claimed == [row EXCEPT ![t].status = "pending"]
             broken == [row EXCEPT ![t].status = "failed"]
             held == [row EXCEPT ![t].schema = Migrated(w, "current").schema]
             done(schema) == [row EXCEPT ![t] = Migrated(w, schema)]
  <1>1. row \in [Targets -> Rows]
    BY DEF Typed
  <1>2. \/ row' = row
        \/ w.status = "new" /\ row' = claimed
        \/ row' = broken
        \/ w.status = "pending" /\ row' = held
        \/ \E schema \in {"current", "ahead"} : row' = done(schema)
    <2>1. CASE OtherEnds(t)
      <3> DEFINE same == [row EXCEPT ![t].status = row[t].status]
      <3>1. same = row
        BY SMT, <1>1 DEF Rows
      <3>2. \/ \E schema \in {"current", "ahead"} : row' = done(schema)
            \/ row' = row \/ row' = broken \/ row' = same
        BY <2>1 DEF OtherEnds
      <3> HIDE DEF same
      <3> QED BY <3>1, <3>2
    <2>2. CASE WorkDone(t)
      BY <2>2 DEF WorkDone, Applied, SchemaMissing
    <2>3. CASE WorkStart(t) \/ WorkFault(t) \/ WorkFails(t) \/ OtherTakes(t)
      BY <2>3 DEF WorkStart, WorkFault, WorkFails, OtherTakes
    <2> QED BY <2>1, <2>2, <2>3 DEF Work
  <1>3. /\ w \in Rows
        /\ \A schema \in {"current", "ahead"} : Migrated(w, schema) \in Rows /\ Current(Migrated(w, schema))
    BY <1>1 DEF Rows, Migrated, Statuses, Upgradable, Current
  <1>4. CASE row' = row
    BY <1>1, <1>4 DEF RowsKept
  <1>5. CASE row' = claimed
    BY <1>1, <1>5 DEF RowsKept, Rows, Statuses, Provisionable, Upgradable, Current
  <1>6. CASE row' = broken
    BY <1>1, <1>6 DEF RowsKept, Rows, Statuses, Upgradable, Current
  <1>7. ASSUME NEW schema \in {"current", "ahead"}, row' = done(schema) PROVE RowsKept
    <2>1. /\ row' \in [Targets -> Rows] /\ Current(row'[t])
          /\ \A u \in Targets : u # t => row'[u] = row[u]
      BY <1>1, <1>3, <1>7
    <2> QED BY <2>1 DEF RowsKept
  <1>8. CASE row' = held
    <2>1. /\ row' \in [Targets -> Rows] /\ Current(row'[t])
          /\ \A u \in Targets : u # t => row'[u] = row[u]
      BY <1>1, <1>3, <1>8 DEF Rows, Current
    <2> QED BY <2>1 DEF RowsKept
  <1> QED BY <1>2, <1>4, <1>5, <1>6, <1>7, <1>8

\* Every step of the parent keeps the types.
LEMMA TypedParent ==
  ASSUME Typed, Calls, Parent
  PROVE  Typed'
  <1> USE TargetsAre
  <1>0. /\ entry \in [Targets -> Outcomes] /\ fut \in [Targets -> Outcomes \cup {None}]
        /\ row \in [Targets -> Rows] /\ queues \in [Shards -> Seq(Tenants)]
        /\ "not_run" \in Kinds /\ "stopped" \in Reasons /\ "hard_stop" \in Reasons
        /\ "interrupted" \in Kinds /\ "failed" \in Kinds /\ "migration_error" \in Reasons
        /\ "ok" \in Kinds /\ None \notin Outcomes /\ Pending \in Outcomes
        /\ Empty \in [Shards -> Seq(Tenants)]
    <2>1. Empty \in [Shards -> Seq(Tenants)]
      BY SMT DEF Empty
    <2>2. None \notin Outcomes /\ Pending \in Outcomes
      BY FutureIs
    <2> QED BY <2>1, <2>2 DEF Typed, Kinds, Reasons
  <1>1. ASSUME NEW ts, NEW k \in Kinds, NEW r \in Reasons
        PROVE  Marked(entry, ts, k, r) \in [Targets -> Outcomes]
    BY <1>0, MarkedIs
  <1>2. Settle("failed", "migration_error") \in [Targets -> Outcomes]
    BY <1>0, SettleIs
  <1>3. CASE StartShared
    <2>1. entry' \in [Targets -> Outcomes]
      BY <1>0, <1>3, BlankIs DEF StartShared
    <2>2. fut' \in [Targets -> Outcomes \cup {None}]
      BY <1>0, <1>3 DEF StartShared
    <2> QED BY <1>3, <2>1, <2>2 DEF StartShared, Typed, Early, InStage, stage, world, idle
  <1>4. CASE EndShared
    <2>1. fut[Shared] \in Outcomes
      BY <1>0, <1>4 DEF EndShared, Calls
    <2>2. Taken(entry, Shared, fut[Shared]) \in [Targets -> Outcomes]
      BY <1>0, <2>1, TakenIs
    <2>3. entry' \in [Targets -> Outcomes]
      BY <1>2, <1>4, <2>2 DEF EndShared, Escape
    <2>4. fut' \in [Targets -> Outcomes \cup {None}]
      BY <1>0, <1>4 DEF EndShared
    <2>5. stop' \in Stops \cup {None}
      BY <1>4 DEF EndShared, Typed, Stops
    <2>6. /\ pc' \in {"select", "report"}
          /\ work' = work /\ pool' = pool /\ code' \in {1, code}
      BY <1>4 DEF EndShared, Escape
    <2> QED BY SMT, <1>4, <2>3, <2>4, <2>5, <2>6
      DEF EndShared, Typed, Early, InStage, ExitCodes, world, idle
  <1>5. CASE Select
    <2>1. entry' \in [Targets -> Outcomes]
      <3>1. \A t \in Targets : Blank(row[t].status) \in Outcomes
        BY <1>0, BlankIs DEF Rows
      <3> QED BY SMT, <1>0, <1>5, <3>1 DEF Select
    <2>2. queues' \in [Shards -> Seq(Tenants)]
      <3>1. ASSUME NEW s \in Shards
            PROVE  Ordered({t \in Selected : ShardOf[t] = s}) \in Seq(Tenants)
        <4> DEFINE S == {t \in Selected : ShardOf[t] = s}
        <4>1. S \in SUBSET Tenants /\ S \in SUBSET Nat
          BY CommandConstants DEF Selected
        <4>2. IsFiniteSet(S) /\ Cardinality(S) \in Nat
          BY <4>1, CommandConstants, FS_Subset, FS_CardinalityType
        <4> HIDE DEF S
        <4>3. Ordered(S) \in [1..Cardinality(S) -> S]
          BY <4>1, <4>2, Listing
        <4>4. Ordered(S) \in Seq(S)
          BY SMT, <4>2, <4>3
        <4> QED BY SMT, <4>1, <4>4 DEF S
      <3> QED BY <1>0, <1>5, <3>1 DEF Select
    <2>3. stop' \in Stops \cup {None} /\ pool' \in {pool, "empty", "none"} /\ pc' \in {"report", "top"}
      BY <1>5 DEF Select, Typed, Stops
    <2> QED BY <1>5, <2>1, <2>2, <2>3 DEF Select, Typed, Early, InStage, idle
  <1>6. CASE Top
    <2>1. /\ entry' \in [Targets -> Outcomes] /\ stop' \in Stops \cup {None}
          /\ queues' \in [Shards -> Seq(Tenants)]
      <3> DEFINE es == Marked(entry, InQueue(queues), "not_run", "stopped")
      <3>1. es \in [Targets -> Outcomes]
        BY <1>0, <1>1
      <3>2. \/ entry' = es /\ queues' = Empty /\ stop' \in {"signal", stop}
            \/ UNCHANGED <<stop, entry, queues>>
        BY <1>6 DEF Top, Halt
      <3> HIDE DEF es
      <3> QED BY <1>0, <3>1, <3>2 DEF Typed, Stops
    <2> QED BY <1>6, <2>1 DEF Top, Typed, Early, InStage, world, idle
  <1>7. CASE Take
    <2> DEFINE s == pick_next
               t == Head(queues[s])
    <2>1. s \in Shards /\ queues[s] \in Seq(Tenants) /\ queues[s] # <<>>
      BY <1>0, <1>7, PickReady DEF Take
    <2>2. t \in Tenants /\ Tail(queues[s]) \in Seq(Tenants)
      BY SMT, <2>1
    <2>3. /\ queues' = [queues EXCEPT ![s] = Tail(@)]
          /\ entry' = [entry EXCEPT ![t].kind = "running"]
          /\ fut' = fut \/ fut' = [fut EXCEPT ![t] = Pending]
          /\ work' = work \/ \E w \in {"off", "start"} : work' = [work EXCEPT ![t] = w]
          /\ pool' \in {pool, "live"} /\ pc' \in {"refused", "next", "wait"}
      BY <1>7 DEF Take, Submitted
    <2> HIDE DEF s, t
    <2>4. queues' \in [Shards -> Seq(Tenants)]
      BY <1>0, <2>1, <2>2, <2>3
    <2>5. entry' \in [Targets -> Outcomes]
      <3>1. \A u \in Targets : [entry[u] EXCEPT !.kind = "running"] \in Outcomes
        BY <1>0 DEF Outcomes, Kinds
      <3> QED BY <1>0, <2>3, <3>1
    <2>6. fut' \in [Targets -> Outcomes \cup {None}]
      BY <1>0, <2>3
    <2>7. work' \in [Targets -> {"off", "start", "run", "ended", "dead"}]
      BY <2>3 DEF Typed
    <2> QED BY <1>7, <2>3, <2>4, <2>5, <2>6, <2>7
      DEF Take, Typed, Early, InStage, world, idle
  <1>8. CASE Unpool \/ KillWorkers
    <2>1. entry' \in [Targets -> Outcomes]
      BY <1>0, <1>2, <1>8 DEF Unpool, KillWorkers, Escape
    <2>2. work' \in [Targets -> {"off", "start", "run", "ended", "dead"}]
      BY <1>8, KilledIs DEF Unpool, KillWorkers, Typed
    <2>3. /\ pc' \in {"kill", "killRaise", "report", "snap"} /\ pool' \in {"closed", pool}
          /\ code' \in {1, code} /\ UNCHANGED <<opt, stage, batch, fut, row>>
      BY <1>8 DEF Unpool, KillWorkers, Escape, world, idle
    <2> QED BY SMT, <2>1, <2>2, <2>3 DEF Typed, ExitCodes, Early, InStage, stage
  <1>9. CASE NoMore
    BY <1>9 DEF NoMore, Locked, Typed, Early, InStage, stage, world, idle
  <1>10. CASE Wait
    BY <1>10 DEF Wait, Running, Typed, Early, InStage, stage, world, idle
  <1>11. ASSUME NEW t \in Tenants, Collect(t) PROVE Typed'
    <2>1. fut[t] \in Outcomes /\ Collected(t) \in Outcomes
      BY SMT, <1>0, <1>11, CallResults DEF Collect, Calls, Collected
    <2>2. /\ entry' \in [Targets -> Outcomes] /\ stop' \in Stops \cup {None}
          /\ queues' \in [Shards -> Seq(Tenants)]
      <3>1. CASE Done(t, Collected(t))
        BY <2>1, <3>1, DoneIs
      <3>2. CASE Escape /\ UNCHANGED stage
        BY <1>2, <3>2 DEF Escape, Typed, stage
      <3> QED BY <1>11, <3>1, <3>2 DEF Collect
    <2>3. fut' \in [Targets -> Outcomes \cup {None}] /\ batch' \subseteq Tenants
      BY <1>0, <1>11 DEF Collect, Typed
    <2>4. /\ pc' \in {pc, "report"}
          /\ work' = work /\ pool' = pool /\ code' \in {1, code}
      BY <1>11 DEF Collect, Escape
    <2> QED BY SMT, <1>11, <2>2, <2>3, <2>4 DEF Collect, Typed, ExitCodes, Early, InStage, world, idle
  <1>12. CASE CutOff
    <2> DEFINE es == Marked(entry, Running, "interrupted", "hard_stop")
    <2>1. es \in [Targets -> Outcomes]
      BY <1>0, <1>1
    <2>2. /\ entry' = Marked(es, InQueue(queues), "not_run", "stopped")
          /\ queues' = Empty /\ stop' \in Stops
      BY <1>12 DEF CutOff, Halt, Stops
    <2> HIDE DEF es
    <2>3. entry' \in [Targets -> Outcomes]
      BY <1>0, <2>1, <2>2, MarkedIs
    <2> QED BY <1>0, <1>12, <2>2, <2>3 DEF CutOff, Typed, Early, InStage, world, idle
  <1>13. CASE EndBatch \/ Snapshots \/ EndRecheck
    BY <1>13 DEF EndBatch, Snapshots, EndRecheck, Locked, Typed, Early, InStage, stage, world, idle
  <1>14. CASE Recheck
    <2> DEFINE t == Min(batch)
               k == RecheckKind(t)
               es == Marked(entry, {t}, "ok", k)
    <2>1. k # None => k \in Reasons
      BY DEF RecheckKind, Reasons
    <2>2. entry' \in [Targets -> Outcomes]
      <3>1. entry' = entry \/ (k # None /\ entry' = es)
        BY <1>14 DEF Recheck
      <3> HIDE DEF t, k
      <3>2. k # None => es \in [Targets -> Outcomes]
        BY <1>0, <1>1, <2>1
      <3> HIDE DEF es
      <3> QED BY <1>0, <3>1, <3>2
    <2> QED BY <1>14, <2>2 DEF Recheck, Typed, stage, idle
  <1>15. CASE Report
    BY SMT, <1>15 DEF Report, exit_code, ExitCodes, Typed, Early, InStage, stage, world, idle
  <1> QED BY <1>3, <1>4, <1>5, <1>6, <1>7, <1>8, <1>9, <1>10, <1>11, <1>12, <1>13,
             <1>14, <1>15 DEF Parent

\* The kinds of an entry whose target has no result.
Unstarted == {"absent", "not_run", "running"}

\* What a call does to its future and to its process.
LEMMA WorkIs ==
  ASSUME Typed, NEW t \in Targets, Work(t)
  PROVE  /\ Working(t)
         /\ work' \in [Targets -> {"off", "start", "run", "ended", "dead"}]
         /\ \A u \in Targets : u # t => work'[u] = work[u]
         /\ \/ fut' = fut
            \/ /\ fut[t] = Pending /\ work'[t] = "ended"
               /\ \E r \in Outcomes :
                     /\ fut' = [fut EXCEPT ![t] = r]
                     /\ r # Pending /\ r # Lost /\ r # None
                     /\ r.kind \notin Unstarted /\ r.reason # "provisioning_elsewhere"
                     /\ r.kind \in {"ok", "noop"} => Current(row'[t])
         /\ UNCHANGED parent
  <1> DEFINE Sent(r) == /\ r \in Outcomes /\ r # Pending /\ r # Lost /\ r # None
                        /\ r.kind \notin Unstarted /\ r.reason # "provisioning_elsewhere"
                        /\ r.kind \in {"ok", "noop"} => Current(row'[t])
  <1>0. row \in [Targets -> Rows] /\ work \in [Targets -> {"off", "start", "run", "ended", "dead"}]
    BY DEF Typed
  <1>1. ASSUME NEW r, Sent(r), Return(t, r)
        PROVE  /\ work' = [work EXCEPT ![t] = "ended"]
               /\ \/ fut' = fut
                  \/ fut[t] = Pending /\ \E x \in Outcomes : fut' = [fut EXCEPT ![t] = x] /\ Sent(x)
    <2> HIDE DEF Sent
    <2>1. r \in Outcomes
      BY <1>1 DEF Sent
    <2> QED BY <1>1, <2>1 DEF Return
  <1>2. \A r \in ConnErrors(t) : Sent(r)
    BY CallResults, FutureIs DEF Unstarted
  <1>3. Sent(Raised)
    BY FutureIs DEF Unstarted
  <1>4. Sent(Result("failed", "migration_error", None))
    <2> DEFINE r == Result("failed", "migration_error", None)
    <2>1. r \in Outcomes
      BY CallResults
    <2>2. r.kind = "failed" /\ r.reason = "migration_error"
      BY DEF Result
    <2> HIDE DEF r
    <2>3. Sent(r)
      BY <2>1, <2>2, FutureIs DEF Unstarted
    <2> QED BY <2>3 DEF r
  <1>5. CASE WorkStart(t)
    <2> DEFINE early == IF t = Shared THEN EarlyShared ELSE EarlyResult(t)
    <2>1. early # None => /\ early \in Outcomes /\ early.kind \in {"skipped", "noop", "failed"}
                          /\ early.reason \in EarlyReasons
                          /\ early.kind = "noop" => Current(row[t])
      BY CallResults DEF EarlyReasons
    <2>2. early # None => Return(t, early) /\ row' = row
      BY <1>5 DEF WorkStart
    <2>3. early = None => fut' = fut /\ work' = [work EXCEPT ![t] = "run"]
      BY <1>5 DEF WorkStart
    <2> HIDE DEF early
    <2>4. early # None => Sent(early)
      BY <2>1, <2>2, FutureIs DEF Unstarted, EarlyReasons
    <2> HIDE DEF Sent
    <2>5. \/ work' = [work EXCEPT ![t] = "ended"]
          \/ work' = [work EXCEPT ![t] = "run"]
      BY <1>1, <2>2, <2>3, <2>4
    <2>6. \/ fut' = fut
          \/ /\ fut[t] = Pending /\ work' = [work EXCEPT ![t] = "ended"]
             /\ \E x \in Outcomes : fut' = [fut EXCEPT ![t] = x] /\ Sent(x)
      BY <1>1, <2>2, <2>3, <2>4
    <2>7. Working(t) /\ UNCHANGED parent
      BY <1>5 DEF WorkStart, Working
    <2> QED BY <1>0, <2>5, <2>6, <2>7 DEF Sent
  <1>6. CASE WorkFault(t)
    <2> HIDE DEF Sent
    <2>1. PICK r \in ConnErrors(t) \cup {Raised} : Return(t, r)
      BY <1>6 DEF WorkFault
    <2>2. /\ work' = [work EXCEPT ![t] = "ended"]
          /\ \/ fut' = fut
             \/ fut[t] = Pending /\ \E x \in Outcomes : fut' = [fut EXCEPT ![t] = x] /\ Sent(x)
      BY <1>1, <1>2, <1>3, <2>1
    <2>3. Working(t) /\ UNCHANGED parent
      BY <1>6 DEF WorkFault, Working
    <2> QED BY <1>0, <2>2, <2>3 DEF Sent
  <1>7. CASE WorkDone(t)
    <2>1. ASSUME NEW r \in Outcomes, r.kind \in {"ok", "skipped", "failed"},
                 r.reason \in {"applied", "code_older_than_db", "schema_missing"},
                 r.kind = "ok" => Current(row'[t])
          PROVE  Sent(r)
      BY <2>1, FutureIs DEF Unstarted
    <2>2. PICK r \in Outcomes :
             /\ r.kind \in {"ok", "skipped", "failed"} /\ (r.kind = "ok" => Current(row'[t]))
             /\ r.reason \in {"applied", "code_older_than_db", "schema_missing"}
             /\ Return(t, r)
      <3>1. CASE row[t].status = "pending" /\ CodeOlder /\ Applied(t)
        <4> DEFINE r == Result("skipped", "code_older_than_db", None)
        <4>1. r \in Outcomes /\ Return(t, r)
          BY <3>1, CallResults DEF Applied
        <4>2. r.kind = "skipped" /\ r.reason = "code_older_than_db"
          BY DEF Result
        <4> HIDE DEF r
        <4> QED BY <4>1, <4>2
      <3>2. CASE ~(row[t].status = "pending" /\ CodeOlder) /\ Applied(t)
        <4> DEFINE r == Result("ok", "applied", None)
        <4>1. r \in Outcomes /\ Return(t, r)
          BY <3>2, CallResults DEF Applied
        <4>2. r.kind = "ok" /\ r.reason = "applied"
          BY DEF Result
        <4>3. Current(row'[t])
          <5>1. row'[t] = Migrated(row[t], "current")
            BY <1>0, <3>2 DEF Applied
          <5>2. Current(Migrated(row[t], "current"))
            BY DEF Migrated, Current
          <5> QED BY <5>1, <5>2
        <4> HIDE DEF r
        <4> QED BY <4>1, <4>2, <4>3
      <3>3. CASE SchemaMissing(t)
        <4> DEFINE r == Result("failed", "schema_missing", None)
        <4>1. r \in Outcomes /\ Return(t, r)
          BY <3>3, CallResults DEF SchemaMissing
        <4>2. r.kind = "failed" /\ r.reason = "schema_missing"
          BY DEF Result
        <4> HIDE DEF r
        <4> QED BY <4>1, <4>2
      <3> QED BY <1>7, <3>1, <3>2, <3>3 DEF WorkDone
    <2>3. Sent(r)
      BY <2>1, <2>2
    <2> HIDE DEF Sent
    <2>4. /\ work' = [work EXCEPT ![t] = "ended"]
          /\ \/ fut' = fut
             \/ fut[t] = Pending /\ \E x \in Outcomes : fut' = [fut EXCEPT ![t] = x] /\ Sent(x)
      BY <1>1, <2>2, <2>3
    <2>5. Working(t) /\ UNCHANGED parent
      BY <1>7 DEF WorkDone, Working
    <2> QED BY <1>0, <2>4, <2>5 DEF Sent
  <1>8. CASE WorkFails(t)
    <2> HIDE DEF Sent
    <2>1. PICK r : Sent(r) /\ Return(t, r)
      BY <1>2, <1>4, <1>8 DEF WorkFails
    <2>2. /\ work' = [work EXCEPT ![t] = "ended"]
          /\ \/ fut' = fut
             \/ fut[t] = Pending /\ \E x \in Outcomes : fut' = [fut EXCEPT ![t] = x] /\ Sent(x)
      BY <1>1, <2>1
    <2>3. Working(t) /\ UNCHANGED parent
      BY <1>8 DEF WorkFails, Working
    <2> QED BY <1>0, <2>2, <2>3 DEF Sent
  <1> QED BY <1>5, <1>6, <1>7, <1>8 DEF Work

\* A signal: what it can change.  It is counted, or it breaks the pool, or it leaves
\* the command; once the pool is closed nobody kills its workers.
LEMMA SignalIs ==
  ASSUME Typed, Calls, OnSignal \/ ForeignInterrupt
  PROVE  /\ UNCHANGED <<opt, queues, inflight, consecutive, last, batch, fut, row, late, passed>>
         /\ pc \notin {"report", "done"} /\ (pool' = "none" <=> pool = "none")
         /\ \/ UNCHANGED <<entry, stop, code, pc, work, pool>>
            \/ /\ UNCHANGED <<entry, stop, code, pc>> /\ work' = Killed
               /\ pool \notin {"none", "closed", "left"}
               /\ pool' \in {pool, "dying"}
            \/ /\ entry' = Settle("interrupted", "hard_stop")
               /\ stop' = "hard_stop" /\ code' \in {1, 130} /\ pc' = "report"
               /\ pool \in {"none", "closed"}
               /\ work' = IF Parallel THEN work ELSE Killed
               /\ pool' = IF pc \in {"kill", "killRaise"} THEN "left" ELSE pool
  <1>0. /\ pool = "left" => pc \in {"report", "done"}
        /\ pc \in {"kill", "killRaise"} => pool = "closed"
    BY DEF Calls, Pooled, InStage
  <1>1. CASE OnSignal
    <2>1. CASE signals = 0
      BY <1>1, <2>1 DEF OnSignal
    <2>2. CASE signals # 0 /\ PoolLive
      BY <1>1, <2>2 DEF OnSignal, PoolLive
    <2>3. CASE signals # 0 /\ ~PoolLive
      <3>1. pool \in {"none", "closed"} /\ Interrupt(1)
        BY <1>0, <1>1, <2>3 DEF OnSignal, PoolLive, Typed
      <3> QED BY <1>0, <1>1, <2>3, <3>1 DEF OnSignal, Interrupt
    <2> QED BY <2>1, <2>2, <2>3
  <1>2. CASE ForeignInterrupt
    <2>1. ~Parallel
      BY <1>2 DEF ForeignInterrupt, Calls, Pooled
    <2> QED BY <1>0, <1>2, <2>1 DEF ForeignInterrupt, Interrupt, Parallel
  <1> QED BY <1>1, <1>2

\* Every step keeps the types.
LEMMA TypedStep ==
  ASSUME Typed, Calls, [Next]_vars
  PROVE  Typed'
  <1>1. CASE Parent
    BY <1>1, TypedParent
  <1>2. CASE OnSignal \/ ForeignInterrupt
    <2>1. "interrupted" \in Kinds /\ "hard_stop" \in Reasons
      BY DEF Kinds, Reasons
    <2>2. Settle("interrupted", "hard_stop") \in [Targets -> Outcomes]
      BY <2>1, SettleIs
    <2>3. /\ entry' \in [Targets -> Outcomes] /\ stop' \in Stops \cup {None}
          /\ code' \in ExitCodes \cup {None}
          /\ pc' \in Early \cup InStage \cup {"snap", "recheck", "report", "done"}
          /\ pool' \in {"none", "empty", "live", "dying", "broken", "closed", "left"}
          /\ work' \in [Targets -> {"off", "start", "run", "ended", "dead"}]
      BY SMT, <1>2, <2>2, SignalIs, KilledIs DEF Typed, Stops, ExitCodes
    <2>4. UNCHANGED <<opt, queues, batch, fut, row>>
      BY <1>2, SignalIs
    <2> QED BY <2>3, <2>4 DEF Typed
  <1>3. CASE SkipSnapshots
    BY <1>3 DEF SkipSnapshots, Locked, Typed, stage, world
  <1>4. CASE WorkerDies
    <2>1. work' \in [Targets -> {"off", "start", "run", "ended", "dead"}]
      BY <1>4 DEF WorkerDies, Typed
    <2> QED BY <1>4, <2>1 DEF WorkerDies, Typed, stage
  <1>5. CASE PoolBreaks
    <2>1. fut' \in [Targets -> Outcomes \cup {None}]
      BY <1>5, FutureIs DEF PoolBreaks, Typed
    <2> QED BY <1>5, <2>1 DEF PoolBreaks, Typed, stage, world
  <1>6. ASSUME NEW t \in Targets, Work(t) PROVE Typed'
    <2>1. row' \in [Targets -> Rows]
      BY <1>6, RowStep DEF RowsKept
    <2>2. /\ fut' \in [Targets -> Outcomes \cup {None}] /\ UNCHANGED parent
          /\ work' \in [Targets -> {"off", "start", "run", "ended", "dead"}]
      BY SMT, <1>6, WorkIs DEF Typed
    <2> QED BY <2>1, <2>2 DEF Typed, parent, stage
  <1>7. ASSUME NEW t \in Targets, OtherTakes(t) \/ OtherEnds(t) PROVE Typed'
    <2>1. row' \in [Targets -> Rows]
      BY <1>7, RowStep DEF RowsKept
    <2> QED BY <1>7, <2>1 DEF OtherTakes, OtherEnds, Typed, rest, parent, stage
  <1>8. CASE UNCHANGED vars
    BY <1>8 DEF Typed, vars, stage
  <1> QED BY <1>1, <1>2, <1>3, <1>4, <1>5, <1>6, <1>7, <1>8 DEF Next

\* A tenant at work has a future in `running`; outside of the two stages, or with
\* nothing running in the tenant stage, nobody is at work.
LEMMA AtWork ==
  ASSUME Typed, Calls
  PROVE  /\ \A t \in Tenants : Working(t) => t \in Running
         /\ pc \notin InStage \cup {"sharedWait"} /\ pool # "left" =>
               \A t \in Targets : ~Working(t)
         /\ pc \in Early \cup {"snap", "recheck"} => pool # "left"
         /\ pc \in InStage => ~Working(Shared)
         /\ pc \in InStage /\ Running = {} => \A t \in Targets : ~Working(t)
  <1>1. \A t \in Tenants : Working(t) => t \in Running
    BY FutureIs DEF Calls, Running
  <1>2. \A t \in Targets : t \in Tenants \/ t = Shared
    BY DEF Targets
  <1>3. "sharedWait" \notin InStage
    BY DEF InStage
  <1>4. pc \in Early \cup {"snap", "recheck"} \cup InStage => pool # "left"
    BY DEF Calls, Pooled, Early, InStage
  <1> QED BY <1>1, <1>2, <1>3, <1>4 DEF Calls

\* Every step keeps the pool's states in order.
LEMMA PooledStep ==
  ASSUME Typed, Calls, [Next]_vars
  PROVE  Pooled'
  <1> USE DEF Pooled, InStage, Parallel
  <1>0. Pooled
    BY DEF Calls
  <1>1. CASE StartShared \/ EndShared
    <2>1. pc \in Early /\ pool' = pool /\ pc' \in {"sharedWait", "select", "report"}
      BY <1>1 DEF StartShared, EndShared, Escape, Early
    <2> QED BY <2>1 DEF Calls
  <1>2. CASE Select
    <2>1. /\ pc \in Early /\ opt' = opt /\ pc' \in {"top", "report"}
          /\ pool' = pool \/ pool' = "none" \/ (pool' = "empty" /\ opt.cli)
      BY <1>2 DEF Select, Early, idle
    <2> QED BY <2>1 DEF Calls
  <1>3. CASE Top \/ Take \/ NoMore \/ Wait
    <2>1. /\ opt' = opt /\ pc \in {"top", "next", "wait"}
          /\ \/ pool' = pool /\ pc' \in {"next", "wait", "top", "collect"}
             \/ pool' = pool /\ pool = "broken" /\ pc' = "refused"
             \/ pool = "empty" /\ pool' = "live" /\ pc' \in {"next", "wait"}
             \/ pool' = (IF Parallel THEN "closed" ELSE pool) /\ pc' = "recheck"
      BY <1>3 DEF Top, Take, NoMore, Wait, idle
    <2> QED BY <1>0, <2>1
  <1>4. ASSUME NEW t \in Tenants, Collect(t) PROVE Pooled'
    <2>1. pc = "collect" /\ UNCHANGED <<opt, pool>> /\ pc' \in {"collect", "report"}
      BY <1>4 DEF Collect, Escape, idle
    <2> QED BY <1>0, <2>1
  <1>5. CASE EndBatch
    <2>1. pc = "collect" /\ UNCHANGED <<opt, pool>> /\ (batch = {} \/ \E t \in batch : fut[t] = Lost)
          /\ pc' = IF batch = {} THEN "top" ELSE "broken"
      BY <1>5 DEF EndBatch, idle
    <2>2. pc' = "broken" => Parallel
      BY <2>1, TargetsAre DEF Calls, Typed
    <2> QED BY <1>0, <2>1, <2>2
  <1>6. CASE CutOff \/ Unpool \/ KillWorkers
    <2>1. /\ opt' = opt
          /\ \/ pc = "broken" /\ pc' = "finally" /\ pool' = pool
             \/ pc \in {"finally", "refused"} /\ pc' \in {"kill", "killRaise"} /\ pool' = "closed"
             \/ pc \in {"kill", "killRaise"} /\ pc' \in {"snap", "report"} /\ pool' = pool
      BY <1>6 DEF CutOff, Unpool, KillWorkers, Escape, idle
    <2> QED BY <1>0, <2>1
  <1>7. CASE Snapshots \/ Recheck \/ EndRecheck \/ Report \/ SkipSnapshots
    <2>1. /\ UNCHANGED <<opt, pool>> /\ pc \in {"snap", "recheck", "report"}
          /\ pc' \in {"recheck", "report", "done"} /\ (pc = "report" => pc' = "done")
      BY <1>7 DEF Snapshots, Recheck, EndRecheck, Report, SkipSnapshots, idle
    <2> QED BY <1>0, <2>1
  <1>8. CASE OnSignal \/ ForeignInterrupt
    <2>1. /\ opt' = opt
          /\ \/ UNCHANGED <<pc, pool>>
             \/ pc' = pc /\ pool \notin {"none", "closed", "left"} /\ pool' \in {pool, "dying"}
             \/ /\ pc' = "report"
                /\ pool' = IF pc \in {"kill", "killRaise"} THEN "left" ELSE pool
      BY <1>8, SignalIs
    <2> QED BY <1>0, <2>1
  <1>9. CASE WorkerDies \/ PoolBreaks
    <2>1. UNCHANGED <<opt, pc>> /\ pool \in {"live", "dying"} /\ pool' \in {"dying", "broken"}
      BY <1>9 DEF WorkerDies, PoolBreaks
    <2> QED BY <1>0, <2>1
  <1>10. CASE UNCHANGED vars \/ \E t \in Targets : Work(t) \/ OtherTakes(t) \/ OtherEnds(t)
    <2>1. UNCHANGED <<opt, pc, pool>>
      BY <1>10, WorkIs DEF vars, OtherTakes, OtherEnds, rest, parent
    <2> QED BY <1>0, <2>1
  <1> QED BY <1>1, <1>2, <1>3, <1>4, <1>5, <1>6, <1>7, <1>8, <1>9, <1>10 DEF Next, Parent

\* With nobody at work and the stage left, Calls holds.
LEMMA CallsOver ==
  ASSUME Pooled', \A t \in Targets : ~Working(t)', pc' \in {"snap", "recheck", "report", "done"},
         (~Parallel)' => \A t \in Targets : fut'[t] # Lost
  PROVE  Calls'
  BY TargetsAre DEF Calls, Early, InStage

\* Every step of the parent keeps Calls.
LEMMA CallsParent ==
  ASSUME Typed, Calls, Parent
  PROVE  Calls'
  <1> USE TargetsAre
  <1>p. Pooled'
    BY PooledStep DEF Next
  <1>0. /\ fut \in [Targets -> Outcomes \cup {None}] /\ Pending # None /\ Lost # None /\ Pending # Lost
        /\ work \in [Targets -> {"off", "start", "run", "ended", "dead"}]
        /\ batch \subseteq Tenants
    BY FutureIs DEF Typed
  <1>1. CASE StartShared
    <2>1. /\ pc = "shared" /\ pc' = "sharedWait" /\ pool' = pool
          /\ fut' = [fut EXCEPT ![Shared] = Pending] /\ work' = [work EXCEPT ![Shared] = "start"]
      BY <1>1 DEF StartShared
    <2>2. pool = "none" /\ Running = {} /\ \A t \in Targets : ~Working(t)
      BY <2>1, AtWork DEF Calls, Early, InStage
    <2>3. \A t \in Tenants : fut'[t] = fut[t] /\ work'[t] = work[t]
      BY <1>0, <2>1
    <2>4. fut'[Shared] = Pending /\ \A t \in Targets : fut'[t] # Lost
      BY <1>0, <2>1, <2>2 DEF Calls, Parallel
    <2>5. Running' = {} /\ \A t \in Tenants : ~Working(t)'
      BY <2>2, <2>3 DEF Running, Working
    <2> QED BY <1>p, <1>0, <2>1, <2>2, <2>4, <2>5 DEF Calls, Early, InStage
  <1>2. CASE EndShared
    <2>1. /\ pc = "sharedWait" /\ pc' \in {"select", "report"}
          /\ fut' = [fut EXCEPT ![Shared] = None] /\ work' = work /\ fut[Shared] # Pending
      BY <1>2 DEF EndShared, Escape
    <2>2. pool = "none" /\ Running = {} /\ \A t \in Targets : ~Working(t)
      BY <2>1 DEF Calls, Early, InStage, Targets
    <2>3. pool' = "none"
      BY <1>2, <2>2 DEF EndShared, Escape, Parallel
    <2>4. \A t \in Tenants : fut'[t] = fut[t]
      BY <1>0, <2>1
    <2>5. \A t \in Targets : fut'[t] # Lost
      BY <1>0, <2>1, <2>2 DEF Calls, Parallel
    <2>6. Running' = {} /\ \A t \in Targets : ~Working(t)'
      BY <2>1, <2>2, <2>4 DEF Running, Working
    <2> QED BY <1>p, <2>1, <2>3, <2>5, <2>6 DEF Calls, Early, InStage
  <1>3. CASE Select
    <2>1. pc = "select" /\ pc' \in {"top", "report"} /\ fut' = fut /\ work' = work
      BY <1>3 DEF Select
    <2>2. pool = "none" /\ Running = {} /\ \A t \in Targets : ~Working(t)
      BY <2>1, AtWork DEF Calls, Early, InStage
    <2>3. \A t \in Targets : fut'[t] # Lost
      BY <2>1, <2>2 DEF Calls, Parallel
    <2>4. Running' = {} /\ \A t \in Targets : ~Working(t)'
      BY <2>1, <2>2 DEF Running, Working
    <2> QED BY <1>p, <2>1, <2>3, <2>4 DEF Calls, Early, InStage
  <1>4. CASE Top
    BY <1>p, <1>4 DEF Top, Calls, Pooled, Early, InStage, Working, Running, Parallel
  <1>5. CASE Take
    <2> DEFINE t == Head(queues[pick_next])
    <2>1. t \in Tenants
      BY SMT, <1>5, PickReady DEF Take, Typed
    <2>2. \/ pool = "broken" /\ pc' = "refused" /\ UNCHANGED <<fut, work, pool>>
          \/ /\ fut' = [fut EXCEPT ![t] = Pending]
             /\ \E w \in {"off", "start"} : work' = [work EXCEPT ![t] = w]
             /\ pool' = IF pool = "empty" THEN "live" ELSE pool
             /\ pc' = IF Parallel THEN "next" ELSE "wait"
      BY <1>5 DEF Take, Submitted
    <2>3. pc = "next" /\ ~Working(Shared)
      BY <1>5, AtWork DEF Take, InStage
    <2> HIDE DEF t
    <2>4. CASE pool = "broken" /\ pc' = "refused" /\ UNCHANGED <<fut, work, pool>>
      BY <1>p, <2>3, <2>4 DEF Calls, Pooled, Early, InStage, Working, Running, Parallel
    <2>5. CASE /\ fut' = [fut EXCEPT ![t] = Pending]
               /\ \E w \in {"off", "start"} : work' = [work EXCEPT ![t] = w]
               /\ pool' = IF pool = "empty" THEN "live" ELSE pool
               /\ pc' = IF Parallel THEN "next" ELSE "wait"
      <3>1. /\ fut'[t] = Pending
            /\ \A u \in Targets : u # t => fut'[u] = fut[u] /\ work'[u] = work[u]
        BY <1>0, <2>1, <2>5
      <3>2. \A u \in Tenants : Working(u)' => fut'[u] \in {Pending, Lost}
        BY <3>1 DEF Calls, Working
      <3>3. ~Working(Shared)'
        BY <2>1, <2>3, <3>1 DEF Working
      <3>4. Parallel' = Parallel
        BY <2>5 DEF Parallel
      <3>5. ~Parallel => (\A u \in Targets : fut'[u] # Lost) /\ Running' = {t}
        BY SMT, <1>0, <2>1, <2>3, <3>1 DEF Calls, Running
      <3>6. pc' \in {"next", "wait"} /\ (~Parallel => pc' = "wait")
        BY <2>5
      <3>7. (~Parallel)' => ~Parallel
        BY <2>5 DEF Parallel
      <3> QED BY <1>p, <3>2, <3>3, <3>5, <3>6, <3>7 DEF Calls, Early, InStage
    <2> QED BY <2>2, <2>4, <2>5
  <1>6. CASE KillWorkers
    <2>1. /\ pc \in {"kill", "killRaise"} /\ pc' \in {"report", "snap"} /\ UNCHANGED <<fut, pool>>
          /\ work' = IF Running # {} THEN Killed ELSE work
      BY <1>6 DEF KillWorkers, Escape
    <2>2. \A t \in Targets : ~Working(t)'
      <3>1. CASE Running # {}
        BY <2>1, <3>1, KilledIs DEF Working
      <3>2. CASE Running = {}
        BY <2>1, <3>2, AtWork DEF Working, InStage
      <3> QED BY <3>1, <3>2
    <2>3. (~Parallel)' => \A t \in Targets : fut'[t] # Lost
      BY <2>1 DEF Calls, Parallel
    <2> QED BY <1>p, <2>1, <2>2, <2>3, CallsOver
  <1>7. CASE NoMore
    <2>1. /\ pc = "next" /\ fut' = fut /\ work' = work
          /\ \/ Running = {} /\ pc' = "recheck" /\ pool' = IF Parallel THEN "closed" ELSE pool
             \/ Running # {} /\ pc' = "wait" /\ pool' = pool
      BY <1>7 DEF NoMore
    <2>2. CASE Running = {} /\ pc' = "recheck" /\ pool' = IF Parallel THEN "closed" ELSE pool
      <3>1. \A t \in Targets : ~Working(t)'
        BY <2>1, <2>2, AtWork DEF Working, InStage
      <3>2. (~Parallel)' => \A t \in Targets : fut'[t] # Lost
        BY <2>1, <2>2 DEF Calls, Parallel
      <3> QED BY <1>p, <2>2, <3>1, <3>2, CallsOver
    <2>3. CASE Running # {} /\ pc' = "wait" /\ pool' = pool
      BY <1>p, <2>1, <2>3 DEF Calls, Early, InStage, Working, Running, Parallel
    <2> QED BY <2>1, <2>2, <2>3
  <1>8. CASE Wait
    <2>1. /\ pc = "wait" /\ fut' = fut /\ work' = work /\ pool' = pool
          /\ batch' = {t \in Running : fut[t] # Pending}
          /\ ~Parallel => batch' # {}
          /\ pc' = IF batch' = {} THEN "top" ELSE "collect"
      BY <1>8 DEF Wait
    <2>2. \A t \in batch' : fut'[t] \notin {None, Pending}
      BY <2>1 DEF Running
    <2>3. ~Parallel => Running \subseteq batch'
      BY <2>1 DEF Calls
    <2>4. Running' = Running /\ (~Parallel)' = (~Parallel)
      BY <2>1 DEF Running, Parallel
    <2> QED BY <1>p, <2>1, <2>2, <2>3, <2>4 DEF Calls, Early, InStage, Working, Parallel
  <1>9. ASSUME NEW t \in Tenants, Collect(t) PROVE Calls'
    <2>1. /\ pc = "collect" /\ t \in batch /\ fut[t] # Lost /\ batch' = batch \ {t}
          /\ fut' = [fut EXCEPT ![t] = None] /\ work' = work
          /\ \/ ~Parallel /\ pc' = "report" /\ pool' = pool
             \/ pc' = "collect" /\ pool' = pool
      BY <1>9 DEF Collect, Escape
    <2>2. ~Working(t) /\ ~Working(Shared)
      BY <2>1, AtWork DEF Calls, InStage
    <2>3. fut'[t] = None /\ \A u \in Targets : u # t => fut'[u] = fut[u]
      BY <1>0, <2>1
    <2>4. Running' = Running \ {t}
      BY <1>0, <2>3 DEF Running
    <2>5. ~Parallel => \A u \in Targets : fut'[u] # Lost
      BY <1>0, <2>3 DEF Calls
    <2>6. CASE ~Parallel /\ pc' = "report" /\ pool' = pool
      <3>1. \A u \in Tenants : ~Working(u)
        BY <2>1, <2>6, AtWork DEF Calls
      <3>2. \A u \in Targets : ~Working(u)'
        BY <2>1, <2>2, <3>1 DEF Working, Targets
      <3> QED BY <1>p, <2>5, <2>6, <3>2, CallsOver
    <2>7. CASE pc' = "collect" /\ pool' = pool
      <3>1. \A u \in Tenants : Working(u)' => fut'[u] \in {Pending, Lost}
        BY <2>1, <2>2, <2>3 DEF Calls, Working
      <3>2. \A u \in batch' : fut'[u] \notin {None, Pending}
        BY <1>0, <2>1, <2>3 DEF Calls
      <3>3. ~Parallel => Running' \subseteq batch'
        BY <2>1, <2>4 DEF Calls
      <3>4. ~Working(Shared)' /\ Parallel' = Parallel
        BY <2>1, <2>2, <2>7 DEF Working, Parallel
      <3> QED BY <1>p, <2>5, <2>7, <3>1, <3>2, <3>3, <3>4 DEF Calls, Early, InStage
    <2> QED BY <2>1, <2>6, <2>7
  <1>10. CASE EndBatch
    <2>1. /\ pc = "collect" /\ \A t \in batch : fut[t] = Lost
          /\ pc' = IF batch = {} THEN "top" ELSE "broken"
          /\ fut' = fut /\ work' = work /\ pool' = pool
      BY <1>10 DEF EndBatch, stage
    <2>2. ~Parallel => batch = {} /\ Running = {}
      BY <1>0, <2>1 DEF Calls
    <2>3. Running' = Running /\ Parallel' = Parallel
      BY <2>1 DEF Running, Parallel
    <2> QED BY <1>p, <2>1, <2>2, <2>3 DEF Calls, Early, InStage, Working
  <1>11. CASE CutOff \/ Unpool
    <2>1. /\ pc \in {"broken", "finally", "refused"} /\ pc' \in {"finally", "kill", "killRaise"}
          /\ UNCHANGED <<fut, work>> /\ pool' \in {pool, "closed"}
      BY <1>11 DEF CutOff, Unpool
    <2>2. Parallel /\ Parallel'
      BY <2>1 DEF Calls, Pooled, Parallel
    <2> QED BY <1>p, <2>1, <2>2 DEF Calls, Early, InStage, Working
  <1>12. CASE Snapshots \/ Recheck \/ EndRecheck
    <2>1. /\ pc \in {"snap", "recheck"} /\ pc' \in {"recheck", "report"}
          /\ UNCHANGED <<fut, work, pool>>
      BY <1>12 DEF Snapshots, Recheck, EndRecheck
    <2>2. \A t \in Targets : ~Working(t)'
      BY <2>1, AtWork DEF Working, InStage
    <2> QED BY <1>p, <2>1, <2>2, CallsOver DEF Calls, Parallel
  <1>13. CASE Report
    <2>1. pc = "report" /\ pc' = "done" /\ UNCHANGED <<fut, work, pool>>
      BY <1>13 DEF Report
    <2> QED BY <1>p, <2>1 DEF Calls, Early, InStage, Working, Parallel
  <1> QED BY <1>1, <1>2, <1>3, <1>4, <1>5, <1>6, <1>7, <1>8, <1>9, <1>10, <1>11,
             <1>12, <1>13 DEF Parent

\* Every step keeps Calls: workers, signals and the pool included.
LEMMA CallsStep ==
  ASSUME Typed, Calls, [Next]_vars
  PROVE  Calls'
  <1> USE TargetsAre
  <1>p. Pooled'
    BY PooledStep DEF Next
  <1>0. /\ fut \in [Targets -> Outcomes \cup {None}] /\ Pending # None /\ Lost # None /\ Pending # Lost
        /\ work \in [Targets -> {"off", "start", "run", "ended", "dead"}]
        /\ batch \subseteq Tenants
    BY FutureIs DEF Typed
  <1>1. CASE Parent
    BY <1>1, CallsParent
  <1>2. CASE OnSignal \/ ForeignInterrupt
    <2>1. fut' = fut /\ batch' = batch
      BY <1>2, SignalIs
    <2>2. CASE UNCHANGED <<entry, stop, code, pc, work, pool>>
      BY <1>p, <2>1, <2>2 DEF Calls, Working, Running, Parallel
    <2>3. CASE pc' = pc /\ work' = Killed /\ pool \notin {"none", "closed", "left"}
               /\ pool' \in {pool, "dying"}
      <3>1. \A t \in Targets : ~Working(t)'
        BY <2>3, KilledIs DEF Working
      <3>2. Parallel /\ Parallel'
        BY <2>3 DEF Parallel
      <3> QED BY <1>p, <2>1, <2>3, <3>1, <3>2 DEF Calls, Running, Early
    <2>4. CASE /\ pc' = "report" /\ pool \in {"none", "closed"}
               /\ work' = IF Parallel THEN work ELSE Killed
               /\ pool' = IF pc \in {"kill", "killRaise"} THEN "left" ELSE pool
      <3>1. (~Parallel)' => \A t \in Targets : fut'[t] # Lost
        BY <2>1, <2>4 DEF Calls, Parallel
      <3>2. CASE ~Parallel
        <4>1. \A t \in Targets : ~Working(t)'
          BY <2>4, <3>2, KilledIs DEF Working
        <4> QED BY <1>p, <2>4, <3>1, <4>1, CallsOver
      <3>3. CASE Parallel /\ pc \in {"kill", "killRaise"}
        BY <1>p, <2>1, <2>4, <3>3 DEF Calls, Early, InStage, Working, Parallel
      <3>4. CASE Parallel /\ pc \notin {"kill", "killRaise"}
        <4>1. pool = "closed" /\ pc \notin InStage \cup {"sharedWait"}
          BY <2>4, <3>4 DEF Calls, Pooled, Parallel, Early
        <4>2. \A t \in Targets : ~Working(t)'
          BY <2>4, <3>4, <4>1, AtWork DEF Working
        <4> QED BY <1>p, <2>4, <3>1, <4>2, CallsOver
      <3> QED BY <3>2, <3>3, <3>4
    <2> QED BY <1>2, <2>2, <2>3, <2>4, SignalIs
  <1>3. CASE SkipSnapshots
    <2>1. pc = "snap" /\ pc' = "recheck" /\ UNCHANGED <<fut, work, pool>>
      BY <1>3 DEF SkipSnapshots
    <2>2. \A t \in Targets : ~Working(t)'
      BY <2>1, AtWork DEF Working, InStage
    <2> QED BY <1>p, <2>1, <2>2, CallsOver DEF Calls, Parallel
  <1>4. CASE WorkerDies
    <2>1. /\ pool \in {"live", "dying"} /\ pool' = "dying" /\ UNCHANGED <<pc, batch, fut>>
          /\ \A t \in Targets : Working(t)' => Working(t)
      BY <1>0, <1>4 DEF WorkerDies, Working
    <2>2. Parallel /\ Parallel' /\ Running' = Running
      BY <2>1 DEF Parallel, Running
    <2> QED BY <1>p, <2>1, <2>2 DEF Calls
  <1>5. CASE PoolBreaks
    <2>1. /\ pool = "dying" /\ pool' = "broken" /\ UNCHANGED <<pc, batch, work>>
          /\ \A t \in Targets : fut'[t] = IF fut[t] = Pending THEN Lost ELSE fut[t]
      BY <1>0, <1>5 DEF PoolBreaks
    <2>2. pc \notin Early /\ ~Working(Shared)
      BY <2>1 DEF Calls, Early
    <2>3. \A t \in Tenants : Working(t)' => fut'[t] \in {Pending, Lost} /\ pc' \in InStage
      BY <2>1 DEF Calls, Working
    <2>4. ~Working(Shared)' /\ Parallel'
      BY <2>1, <2>2 DEF Working, Parallel
    <2>5. pc = "collect" => \A t \in batch : fut'[t] \notin {None, Pending}
      BY <1>0, <2>1 DEF Calls
    <2> QED BY <1>p, <2>1, <2>2, <2>3, <2>4, <2>5 DEF Calls, Early
  <1>6. ASSUME NEW t \in Targets, Work(t) PROVE Calls'
    <2>1. /\ Working(t) /\ UNCHANGED <<pc, batch, pool>>
          /\ \A u \in Targets : u # t => work'[u] = work[u]
      BY <1>6, WorkIs DEF parent
    <2>2. CASE fut' = fut
      <3>1. \A u \in Targets : Working(u)' => Working(u)
        BY <2>1 DEF Working
      <3> QED BY <1>p, <2>1, <2>2, <3>1 DEF Calls, Running, Parallel
    <2>3. CASE fut[t] = Pending /\ work'[t] = "ended"
               /\ \E r \in Outcomes :
                     fut' = [fut EXCEPT ![t] = r] /\ r # Pending /\ r # Lost /\ r # None
      <3>1. /\ fut'[t] \notin {Pending, Lost, None}
            /\ \A u \in Targets : u # t => fut'[u] = fut[u]
        BY <1>0, <2>3
      <3>2. \A u \in Targets : Working(u)' => u # t /\ Working(u)
        BY <2>1, <2>3 DEF Working
      <3>3. Running' = Running /\ Parallel' = Parallel
        BY SMT, <1>0, <2>1, <2>3, <3>1 DEF Running, Parallel
      <3> QED BY SMT, <1>p, <1>0, <2>1, <2>3, <3>1, <3>2, <3>3 DEF Calls
    <2> QED BY <1>6, <2>2, <2>3, WorkIs
  <1>7. ASSUME NEW t \in Targets, OtherTakes(t) \/ OtherEnds(t) PROVE Calls'
    <2>1. UNCHANGED <<pc, pool, fut, work, batch>>
      BY <1>7 DEF OtherTakes, OtherEnds, rest, parent
    <2> QED BY <1>p, <2>1 DEF Calls, Working, Running, Parallel
  <1>8. CASE UNCHANGED vars
    BY <1>p, <1>8 DEF Calls, vars, Working, Running, Parallel
  <1> QED BY <1>1, <1>2, <1>3, <1>4, <1>5, <1>6, <1>7, <1>8 DEF Next

\* Typed and Calls hold throughout.
LEMMA CallsInvariant == Spec => [](Typed /\ Calls)
  <1>1. Init => Typed /\ Calls
    <2> SUFFICES ASSUME Init PROVE Typed /\ Calls
      OBVIOUS
    <2>1. /\ entry = [t \in Targets |-> Absent] /\ fut = [t \in Targets |-> None]
          /\ work = [t \in Targets |-> "off"] /\ queues = [s \in Shards |-> <<>>]
          /\ pc \in {"select", "shared"} /\ pool = "none" /\ batch = {} /\ row \in Fleets
          /\ code = None /\ stop = None /\ opt \in Options /\ Accepted(opt)
      BY DEF Init
    <2>2. entry \in [Targets -> Outcomes]
      BY <2>1, BlankIs
    <2>3. queues \in [Shards -> Seq(Tenants)]
      BY SMT, <2>1
    <2>4. row \in [Targets -> Rows]
      BY <2>1, FleetRows
    <2>5. Typed
      BY <2>1, <2>2, <2>3, <2>4 DEF Typed, Early, InStage
    <2>6. (\A t \in Targets : ~Working(t)) /\ Running = {} /\ \A t \in Targets : fut[t] # Lost
      BY <2>1, TargetsAre, FutureIs DEF Working, Running
    <2>7. Calls
      BY <2>1, <2>6, TargetsAre DEF Calls, Pooled, Parallel, Early, InStage
    <2> QED BY <2>5, <2>7
  <1>2. Typed /\ Calls /\ [Next]_vars => (Typed /\ Calls)'
    BY TypedStep, CallsStep
  <1> QED BY <1>1, <1>2, PTL DEF Spec

-----------------------------------------------------------------------------
(* What the summary says *)

Good == {"ok", "noop"}

\* A tenant the deploy gate reports: it serves, or may serve, and is not current.
Behind(t) == row[t].status \in Upgradable /\ ~Current(row[t])

\* A good entry, or a future that holds a good result, is about a schema that is
\* current; `provisioning elsewhere` is about a tenant that does not serve yet.
Vouched ==
    /\ \A t \in Targets :
          /\ entry[t].kind \in Good /\ entry[t].reason # "provisioning_elsewhere" =>
                Current(row[t])
          /\ fut[t] # None => /\ fut[t].reason # "provisioning_elsewhere"
                              /\ fut[t].kind \notin Unstarted
                              /\ fut[t].kind \in Good => Current(row[t])
    /\ entry[Shared].reason # "provisioning_elsewhere"
    /\ \A t \in Tenants : entry[t].kind \in Good => ~Behind(t)

\* An entry is written: with a kind of its own, and a good one only about a
\* schema that is current.
Written ==
    \A t \in Targets :
        \/ entry'[t] = entry[t]
        \/ /\ entry'[t].kind # "absent"
           /\ t = Shared => entry'[t].reason # "provisioning_elsewhere"
           /\ entry'[t].kind \in Good => Current(row'[t])

\* The same of a future.
Promised ==
    \A t \in Targets :
        \/ fut'[t] \in {fut[t], None}
        \/ /\ fut'[t].kind \notin Unstarted /\ fut'[t].reason # "provisioning_elsewhere"
           /\ fut'[t].kind \in Good => Current(row'[t])

\* Steps that write so keep Vouched.
LEMMA VouchedKept ==
  ASSUME Vouched, RowsKept, Written, Promised
  PROVE  Vouched'
  <1> USE TargetsAre
  <1>1. ASSUME NEW t \in Targets
        PROVE  /\ entry'[t].kind \in Good /\ entry'[t].reason # "provisioning_elsewhere" =>
                     Current(row'[t])
               /\ fut'[t] # None => /\ fut'[t].reason # "provisioning_elsewhere"
                                    /\ fut'[t].kind \notin Unstarted
                                    /\ fut'[t].kind \in Good => Current(row'[t])
    <2>1. Current(row[t]) => Current(row'[t])
      BY DEF RowsKept
    <2>2. entry'[t].kind \in Good /\ entry'[t].reason # "provisioning_elsewhere" =>
             Current(row'[t])
      BY <2>1 DEF Vouched, Written
    <2>3. fut'[t] # None => /\ fut'[t].reason # "provisioning_elsewhere"
                            /\ fut'[t].kind \notin Unstarted
                            /\ fut'[t].kind \in Good => Current(row'[t])
      BY <2>1 DEF Vouched, Promised
    <2> QED BY <2>2, <2>3
  <1>2. entry'[Shared].reason # "provisioning_elsewhere"
    BY DEF Vouched, Written
  <1>3. ASSUME NEW t \in Tenants, entry'[t].kind \in Good PROVE ~Behind(t)'
    <2>1. Behind(t)' => Behind(t) /\ ~Current(row'[t])
      BY DEF Behind, RowsKept
    <2> QED BY <1>3, <2>1 DEF Vouched, Written
  <1> QED BY <1>1, <1>2, <1>3 DEF Vouched

\* Every step of the parent but the re-check writes so.
LEMMA WritesParent ==
  ASSUME Typed, Calls, Vouched, Parent, ~Recheck
  PROVE  Written /\ Promised /\ RowsKept
  <1> USE TargetsAre
  <1>0. /\ entry \in [Targets -> Outcomes] /\ fut \in [Targets -> Outcomes \cup {None}]
        /\ row \in [Targets -> Rows] /\ batch \subseteq Tenants
        /\ "not_run" \in Kinds /\ "stopped" \in Reasons /\ "hard_stop" \in Reasons
        /\ "interrupted" \in Kinds /\ "failed" \in Kinds /\ "migration_error" \in Reasons
    BY DEF Typed, Kinds, Reasons
  <1>1. row' = row /\ RowsKept
    BY <1>0
      DEF Parent, StartShared, EndShared, Select, Top, Take, NoMore, Wait, Collect,
         EndBatch, CutOff, Unpool, KillWorkers, Snapshots, EndRecheck, Report, world, RowsKept
  <1>2. ASSUME entry' = Settle("failed", "migration_error") PROVE Written
    <2>1. \A u \in Targets :
               \/ entry'[u] = entry[u]
               \/ entry'[u].kind = "failed" /\ entry'[u].reason = "migration_error"
               \/ entry'[u].kind = "not_run" /\ entry'[u].reason = "stopped"
      BY SMT, <1>0, <1>2, SettleIs
    <2> QED BY <2>1 DEF Written, Good
  <1>3. ASSUME fut' = fut PROVE Promised
    BY <1>3 DEF Promised
  <1>4. ASSUME NEW t \in Targets, fut' = [fut EXCEPT ![t] = None] PROVE Promised
    BY <1>0, <1>4 DEF Promised
  <1>5. ASSUME NEW t \in Targets, fut' = [fut EXCEPT ![t] = Pending] PROVE Promised
    <2>1. fut'[t] = Pending /\ \A u \in Targets : u # t => fut'[u] = fut[u]
      BY <1>0, <1>5
    <2> QED BY <2>1, FutureIs DEF Promised, Good, Unstarted
  <1>6. CASE StartShared
    <2>1. /\ entry' = [entry EXCEPT ![Shared] = [Blank(None) EXCEPT !.kind = "running"]]
          /\ fut' = [fut EXCEPT ![Shared] = Pending]
      BY <1>6 DEF StartShared
    <2>2. /\ entry'[Shared].kind = "running" /\ entry'[Shared].reason = ""
          /\ \A t \in Targets : t # Shared => entry'[t] = entry[t]
      BY <1>0, <2>1, BlankIs
    <2>3. Written
      BY <2>2 DEF Written, Good
    <2> QED BY <1>1, <1>5, <2>1, <2>3
  <1>7. CASE EndShared
    <2>1. fut[Shared] # None /\ fut[Shared] \in Outcomes
      BY <1>0, <1>7 DEF EndShared, Calls
    <2>2. CASE entry' = Taken(entry, Shared, fut[Shared])
      <3>1. /\ \A u \in Targets : u # Shared => entry'[u] = entry[u]
            /\ entry'[Shared].kind = fut[Shared].kind /\ entry'[Shared].reason = fut[Shared].reason
        BY SMT, <1>0, <2>1, <2>2, TakenIs
      <3> QED BY <1>1, <1>4, <1>7, <2>1, <3>1 DEF Written, Vouched, EndShared, Unstarted
    <2>3. CASE entry' = Settle("failed", "migration_error")
      BY <1>1, <1>2, <1>4, <1>7, <2>3 DEF EndShared
    <2> QED BY <1>7, <2>2, <2>3 DEF EndShared, Escape
  <1>8. CASE Select
    <2>1. \A t \in Targets : entry'[t] = entry[t] \/ entry'[t] = Blank(row[t].status)
      BY <1>8 DEF Select
    <2>2. \A t \in Targets : /\ Blank(row[t].status).kind = "not_run"
                             /\ Blank(row[t].status).reason = ""
      BY <1>0, BlankIs DEF Rows
    <2>3. Written
      BY <2>1, <2>2 DEF Written, Good
    <2> QED BY <1>1, <1>3, <1>8, <2>3 DEF Select
  <1>9. CASE Top
    <2> DEFINE queued == InQueue(queues)
               es == Marked(entry, queued, "not_run", "stopped")
    <2>1. entry' = es \/ entry' = entry
      BY <1>9 DEF Top, Halt
    <2> HIDE DEF queued
    <2>2. /\ \A t \in Targets : t \notin queued => es[t] = entry[t]
          /\ \A t \in Targets : t \in queued => /\ es[t].kind = "not_run"
                                                 /\ es[t].reason = "stopped"
      BY SMT, <1>0, MarkedIs
    <2> HIDE DEF es
    <2>3. Written
      BY <2>1, <2>2 DEF Written, Good
    <2> QED BY <1>1, <1>3, <1>9, <2>3 DEF Top
  <1>10. CASE Take
    <2> DEFINE t == Head(queues[pick_next])
    <2>1. t \in Targets /\ t \in Tenants
      BY SMT, <1>10, PickReady DEF Take, Typed
    <2>2. /\ entry' = [entry EXCEPT ![t].kind = "running"]
          /\ fut' = fut \/ fut' = [fut EXCEPT ![t] = Pending]
      BY <1>10 DEF Take
    <2> HIDE DEF t
    <2>3. \A u \in Targets : u # t => entry'[u] = entry[u]
      BY <1>0, <2>2
    <2>4. entry'[t].kind = "running" /\ entry'[t].reason = entry[t].reason
      BY SMT, <1>0, <2>1, <2>2 DEF Outcomes
    <2>5. Promised
      BY <1>3, <1>5, <2>1, <2>2
    <2> QED BY <1>1, <2>1, <2>3, <2>4, <2>5 DEF Written, Good
  <1>11. CASE KillWorkers
    <2>1. fut' = fut /\ (entry' = entry \/ entry' = Settle("failed", "migration_error"))
      BY <1>11 DEF KillWorkers, Escape
    <2> QED BY <1>1, <1>2, <1>3, <2>1 DEF Written
  <1>12. CASE NoMore \/ Wait \/ EndBatch \/ Unpool \/ Snapshots \/ EndRecheck \/ Report
    <2>1. entry' = entry /\ fut' = fut
      BY <1>12 DEF NoMore, Wait, EndBatch, Unpool, Snapshots, EndRecheck, Report
    <2> QED BY <1>1, <1>3, <2>1 DEF Written
  <1>13. ASSUME NEW t \in Tenants, NEW r \in Outcomes, Done(t, r), r.kind # "absent",
                r.kind \in Good => Current(row[t])
         PROVE  Written
    <2>1. \A u \in Targets :
               \/ u # t /\ entry'[u] = entry[u]
               \/ /\ u \in InQueue(queues) \ InQueue(queues') /\ entry'[u].kind = "not_run"
                  /\ entry'[u].reason \in {"stopped", "shard_unreachable"}
               \/ u = t /\ entry'[u].kind = r.kind /\ entry'[u].reason = r.reason
      BY <1>13, DoneIs
    <2> QED BY <1>1, <1>13, <2>1 DEF Written, Good
  <1>14. ASSUME NEW t \in Tenants, Collect(t) PROVE Written /\ Promised
    <2>1. fut[t] \in Outcomes
      BY <1>0, <1>14 DEF Collect, Calls
    <2>2. Promised
      BY <1>4, <1>14 DEF Collect
    <2>3. CASE Done(t, Collected(t))
      <3>1. /\ Collected(t) \in Outcomes /\ Collected(t).kind # "absent"
            /\ Collected(t).kind \in Good => Current(row[t])
        <4>1. CASE fut[t] = Raised
          <5>1. Collected(t) = Result("failed", "migration_error", None)
            BY <4>1 DEF Collected
          <5> QED BY SMT, <5>1, CallResults DEF Result, Good
        <4>2. CASE fut[t] # Raised
          BY <2>1, <4>2, FutureIs DEF Collected, Vouched, Unstarted
        <4> QED BY <4>1, <4>2
      <3> QED BY <1>13, <2>2, <2>3, <3>1
    <2>4. CASE Escape
      BY <1>2, <2>2, <2>4 DEF Escape
    <2> QED BY <1>14, <2>3, <2>4 DEF Collect
  <1>15. CASE CutOff
    <2> DEFINE es == Marked(entry, Running, "interrupted", "hard_stop")
    <2>1. /\ es \in [Targets -> Outcomes]
          /\ \A t \in Targets : \/ es[t] = entry[t]
                                \/ es[t].kind = "interrupted" /\ es[t].reason = "hard_stop"
      BY SMT, <1>0, MarkedIs
    <2> DEFINE queued == InQueue(queues)
               after == Marked(es, queued, "not_run", "stopped")
    <2>2. entry' = after
      BY <1>15 DEF CutOff, Halt
    <2> HIDE DEF es, queued
    <2>3. /\ \A t \in Targets : t \notin queued => after[t] = es[t]
          /\ \A t \in Targets : t \in queued => /\ after[t].kind = "not_run"
                                                 /\ after[t].reason = "stopped"
      BY SMT, <1>0, <2>1, MarkedIs
    <2> HIDE DEF after
    <2>4. Written
      BY <2>1, <2>2, <2>3 DEF Written, Good
    <2> QED BY <1>1, <1>3, <1>15, <2>4 DEF CutOff
  <1> QED BY <1>1, <1>6, <1>7, <1>8, <1>9, <1>10, <1>11, <1>12, <1>14, <1>15 DEF Parent

\* Every other step but the re-check writes so, too.
LEMMA Writes ==
  ASSUME Typed, Calls, Vouched, [Next]_vars, ~Recheck
  PROVE  Written /\ Promised /\ RowsKept
  <1>0. row \in [Targets -> Rows] /\ fut \in [Targets -> Outcomes \cup {None}]
    BY DEF Typed
  <1>1. CASE Parent
    BY <1>1, WritesParent
  <1>2. ASSUME row' = row, fut' = fut PROVE Promised /\ RowsKept
    BY <1>0, <1>2 DEF Promised, RowsKept
  <1>3. CASE OnSignal \/ ForeignInterrupt
    <2>1. row' = row /\ fut' = fut
      BY <1>3, SignalIs
    <2>2. "interrupted" \in Kinds /\ "hard_stop" \in Reasons
      BY DEF Kinds, Reasons
    <2>3. \A u \in Targets :
               \/ Settle("interrupted", "hard_stop")[u] = entry[u]
               \/ /\ Settle("interrupted", "hard_stop")[u].kind = "interrupted"
                  /\ Settle("interrupted", "hard_stop")[u].reason = "hard_stop"
               \/ /\ Settle("interrupted", "hard_stop")[u].kind = "not_run"
                  /\ Settle("interrupted", "hard_stop")[u].reason = "stopped"
      BY <2>2, SettleIs
    <2>4. entry' = entry \/ entry' = Settle("interrupted", "hard_stop")
      BY <1>3, SignalIs
    <2>5. Written
      BY <2>3, <2>4 DEF Written, Good
    <2> QED BY <1>2, <2>1, <2>5
  <1>4. CASE SkipSnapshots \/ WorkerDies \/ UNCHANGED vars
    <2>1. entry' = entry /\ row' = row /\ fut' = fut
      BY <1>4 DEF SkipSnapshots, WorkerDies, vars, world
    <2> QED BY <1>2, <2>1 DEF Written
  <1>5. CASE PoolBreaks
    <2>1. /\ entry' = entry /\ row' = row
          /\ \A t \in Targets : fut'[t] = Lost \/ fut'[t] = fut[t]
      BY <1>0, <1>5 DEF PoolBreaks, world
    <2>2. Promised
      BY <2>1, FutureIs DEF Promised, Good, Unstarted
    <2> QED BY <1>0, <2>1, <2>2 DEF Written, RowsKept
  <1>6. ASSUME NEW t \in Targets, Work(t) PROVE Written /\ Promised /\ RowsKept
    <2>1. RowsKept
      BY <1>6, RowStep
    <2>2. entry' = entry
      BY <1>6, WorkIs DEF parent
    <2>3. CASE fut' = fut
      BY <2>1, <2>2, <2>3 DEF Written, Promised
    <2>4. CASE \E r \in Outcomes :
                   /\ fut' = [fut EXCEPT ![t] = r]
                   /\ r.kind \notin Unstarted /\ r.reason # "provisioning_elsewhere"
                   /\ r.kind \in {"ok", "noop"} => Current(row'[t])
      BY <1>0, <2>1, <2>2, <2>4 DEF Written, Promised, Good
    <2> QED BY <1>6, <2>3, <2>4, WorkIs
  <1>7. ASSUME NEW t \in Targets, OtherTakes(t) \/ OtherEnds(t)
        PROVE  Written /\ Promised /\ RowsKept
    <2>1. RowsKept
      BY <1>7, RowStep
    <2>2. entry' = entry /\ fut' = fut
      BY <1>7 DEF OtherTakes, OtherEnds, rest, parent
    <2> QED BY <2>1, <2>2 DEF Written, Promised
  <1> QED BY <1>1, <1>3, <1>4, <1>5, <1>6, <1>7 DEF Next

\* What _recheck_locked writes: ok, about a row that another run made current or
\* that another run is still provisioning.
LEMMA RecheckWrites ==
  ASSUME Typed, Recheck
  PROVE  /\ UNCHANGED <<opt, pc, stop, code, row, fut>> /\ pc = "recheck"
         /\ \/ entry' = entry
            \/ \E t \in Tenants \cap batch :
                  /\ t \notin batch' /\ \A u \in Targets : u # t => entry'[u] = entry[u]
                  /\ entry'[t].kind = "ok"
                  /\ \/ Current(row[t])
                     \/ row[t].status = "pending" /\ entry'[t].reason = "provisioning_elsewhere"
  <1> DEFINE t == Min(batch)
             k == RecheckKind(t)
  <1>1. t \in Tenants /\ t \in batch /\ t \notin batch'
    BY MinIn, CommandConstants DEF Recheck, Typed
  <1>2. entry' = entry \/ (k # None /\ entry' = Marked(entry, {t}, "ok", k))
    BY DEF Recheck
  <1>3. k # None => /\ k \in Reasons
                    /\ \/ Current(row[t])
                       \/ row[t].status = "pending" /\ k = "provisioning_elsewhere"
    BY DEF RecheckKind, Reasons
  <1>4. UNCHANGED <<opt, pc, stop, code, row, fut>> /\ pc = "recheck"
    BY DEF Recheck, stage, idle
  <1> HIDE DEF t, k
  <1>5. ASSUME k # None, entry' = Marked(entry, {t}, "ok", k)
        PROVE  /\ \A u \in Targets : u # t => entry'[u] = entry[u]
               /\ entry'[t].kind = "ok" /\ entry'[t].reason = k
    <2>1. entry \in [Targets -> Outcomes] /\ "ok" \in Kinds /\ t \in Targets
      BY <1>1, TargetsAre DEF Typed, Kinds
    <2> DEFINE ts == {t}
    <2>2. t \in ts /\ \A u \in Targets : u # t => u \notin ts
      OBVIOUS
    <2>3. entry' = Marked(entry, ts, "ok", k)
      BY <1>5
    <2> HIDE DEF ts
    <2>4. /\ \A u \in Targets : u \notin ts => entry'[u] = entry[u]
          /\ \A u \in Targets : u \in ts => entry'[u].kind = "ok" /\ entry'[u].reason = k
      <3>1. k \in Reasons
        BY <1>3, <1>5
      <3>2. /\ \A u \in Targets : u \notin ts => Marked(entry, ts, "ok", k)[u] = entry[u]
            /\ \A u \in Targets : u \in ts =>
                  /\ Marked(entry, ts, "ok", k)[u].kind = "ok"
                  /\ Marked(entry, ts, "ok", k)[u].reason = k
        BY SMT, <2>1, <3>1, MarkedIs
      <3> QED BY <2>3, <3>2
    <2> QED BY <2>1, <2>2, <2>4
  <1> QED BY <1>1, <1>2, <1>3, <1>4, <1>5

\* Every step keeps Vouched.
LEMMA VouchedStep ==
  ASSUME Typed, Calls, Vouched, [Next]_vars
  PROVE  Vouched'
  <1>1. CASE ~Recheck
    BY <1>1, Writes, VouchedKept
  <1>2. CASE Recheck
    <2>1. row' = row /\ fut' = fut
      BY <1>2, RecheckWrites
    <2>2. CASE entry' = entry
      <3>1. Written /\ Promised /\ RowsKept
        BY <2>1, <2>2 DEF Written, Promised, RowsKept, Typed
      <3> QED BY <3>1, VouchedKept
    <2>3. ASSUME NEW t \in Tenants, \A u \in Targets : u # t => entry'[u] = entry[u],
                 entry'[t].kind = "ok",
                 \/ Current(row[t])
                 \/ row[t].status = "pending" /\ entry'[t].reason = "provisioning_elsewhere"
          PROVE  Vouched'
      <3>1. t \in Targets /\ t # Shared /\ Shared \in Targets
        BY TargetsAre
      <3>2. ASSUME NEW u \in Targets
            PROVE  entry'[u].kind \in Good /\ entry'[u].reason # "provisioning_elsewhere" =>
                      Current(row[u])
        BY <2>3 DEF Vouched
      <3>3. \A u \in Tenants : entry'[u].kind \in Good => ~Behind(u)
        BY <2>3, TargetsAre DEF Vouched, Behind, Upgradable
      <3>4. entry'[Shared].reason # "provisioning_elsewhere"
        BY <2>3, <3>1 DEF Vouched
      <3> QED BY <2>1, <3>2, <3>3, <3>4 DEF Vouched, Behind
    <2> QED BY <1>2, <2>2, <2>3, RecheckWrites
  <1> QED BY <1>1, <1>2

\* A run that has not failed so far has an entry for whatever the gate reports:
\* "public" once the shared stage was started, and every tenant on an active
\* shard that is behind once the targets were selected.
Clean == opt.stage = "both" /\ stop = None /\ code \in {None, 0}
Covered ==
    /\ code = 0 => /\ pc = "done" /\ stop = None
                   /\ \A t \in Targets : entry[t].kind \in Good \cup {"absent"}
    /\ Clean /\ pc # "shared" => entry[Shared].kind # "absent"
    /\ Clean /\ pc \notin Early =>
          \A t \in Tenants : ShardOf[t] \in ActiveShards /\ Behind(t) => entry[t].kind # "absent"

\* Steps inside a phase keep Covered.
LEMMA CoveredKept ==
  ASSUME Covered, RowsKept, opt' = opt, code' = code, stop' = None => stop = None,
         \A t \in Targets : entry'[t].kind = "absent" => entry[t].kind = "absent",
         pc' = pc \/ (pc \notin Early /\ pc' \notin Early),
         pc = "done" => UNCHANGED <<pc, stop, entry>>
  PROVE  Covered'
  <1>1. \A t \in Tenants : Behind(t)' => Behind(t)
    BY TargetsAre DEF Behind, RowsKept
  <1>2. code' = 0 => /\ pc' = "done" /\ stop' = None
                     /\ \A t \in Targets : entry'[t].kind \in Good \cup {"absent"}
    BY DEF Covered
  <1>3. Clean' => Clean
    BY DEF Clean
  <1>4. Clean' /\ pc' # "shared" => entry'[Shared].kind # "absent"
    BY <1>3, TargetsAre DEF Covered, Early
  <1>5. Clean' /\ pc' \notin Early =>
          \A t \in Tenants : ShardOf[t] \in ActiveShards /\ Behind(t)' => entry'[t].kind # "absent"
    BY <1>1, <1>3, TargetsAre DEF Covered
  <1> QED BY <1>2, <1>4, <1>5 DEF Covered

\* Steps that give up keep Covered.
LEMMA CoveredOff ==
  ASSUME code' # 0, stop' # None \/ code' \in {1, 130}
  PROVE  Covered'
  BY NoneDistinct DEF Covered, Clean, ExitCodes

\* Every step keeps Covered.
LEMMA CoveredStep ==
  ASSUME Typed, Calls, Vouched, Covered, [Next]_vars
  PROVE  Covered'
  <1> USE TargetsAre
  <1>0. /\ entry \in [Targets -> Outcomes] /\ fut \in [Targets -> Outcomes \cup {None}]
        /\ row \in [Targets -> Rows] /\ stop \in Stops \cup {None}
        /\ code \in ExitCodes \cup {None} /\ None \notin Outcomes
    BY FutureIs DEF Typed
  <1>1. pc # "done" => code # 0
    BY DEF Covered
  <1>2. ASSUME ~Recheck PROVE RowsKept /\ \A t \in Targets : entry'[t].kind = "absent" =>
                                                             entry[t].kind = "absent"
    BY <1>2, Writes DEF Written
  <1>3. CASE StartShared
    <2>1. /\ pc' = "sharedWait" /\ code' = code /\ code # 0
          /\ entry' = [entry EXCEPT ![Shared] = [Blank(None) EXCEPT !.kind = "running"]]
      BY <1>1, <1>3 DEF StartShared
    <2>2. entry'[Shared].kind = "running"
      BY <1>0, <2>1, BlankIs
    <2> QED BY <2>1, <2>2 DEF Covered, Early
  <1>4. CASE EndShared
    <2>1. pc = "sharedWait" /\ code # 0 /\ fut[Shared] \in Outcomes
      BY <1>0, <1>1, <1>4 DEF EndShared, Calls
    <2>2. CASE code' = 1
      BY SMT, <2>2, CoveredOff
    <2>3. CASE /\ entry' = Taken(entry, Shared, fut[Shared]) /\ code' = code /\ opt' = opt
               /\ stop' = IF fut[Shared].kind # "ok" THEN "shared_failed" ELSE stop
               /\ pc' = IF stop' = None /\ opt.stage = "both" THEN "select" ELSE "report"
      <3>1. CASE stop' # None
        BY <2>1, <2>3, <3>1, CoveredOff
      <3>2. CASE stop' = None
        <4>1. fut[Shared].kind = "ok"
          BY <2>3, <3>2, NoneDistinct DEF Stops
        <4>2. entry'[Shared].kind = "ok"
          <5> DEFINE r == fut[Shared]
                     took == Taken(entry, Shared, r)
          <5>1. r \in Outcomes
            BY <2>1
          <5> HIDE DEF r
          <5>2. took[Shared].kind = r.kind
            BY SMT, <1>0, <5>1, TakenIs
          <5> QED BY <2>3, <4>1, <5>2 DEF r
        <4>3. Clean' => pc' = "select"
          BY <2>3, <3>2 DEF Clean
        <4> QED BY <2>1, <2>3, <4>2, <4>3 DEF Covered, Early
      <3> QED BY <3>1, <3>2
    <2> QED BY <1>4, <2>2, <2>3 DEF EndShared, Escape, idle
  <1>5. CASE Select
    <2>1. pc = "select" /\ code' = code /\ code # 0 /\ opt' = opt /\ row' = row
      BY <1>1, <1>5 DEF Select, idle
    <2>2. CASE stop' \in {"signal", "default_unreachable"}
      BY <2>1, <2>2, CoveredOff, NoneDistinct DEF Stops
    <2>3. CASE /\ stop' = stop /\ pc' \in {"report", "top"}
               /\ entry' = [t \in Targets |->
                              IF t \in Selected THEN Blank(row[t].status) ELSE entry[t]]
      <3>1. Clean' => Clean
        BY <2>1, <2>3 DEF Clean
      <3>2. Clean => entry'[Shared].kind # "absent"
        BY <2>1, <2>3 DEF Covered, Selected
      <3>3. ASSUME NEW t \in Tenants, ShardOf[t] \in ActiveShards, Behind(t)'
            PROVE  entry'[t].kind # "absent"
        <4>1. t \in Selected
          BY <2>1, <3>3 DEF Selected, Behind
        <4>2. Blank(row[t].status).kind = "not_run"
          <5>1. row[t].status \in Statuses
            BY <1>0 DEF Rows
          <5> QED BY <5>1, BlankIs
        <4> QED BY <2>3, <4>1, <4>2
      <3> QED BY <2>1, <3>1, <3>2, <3>3 DEF Covered
    <2> QED BY <1>5, <2>2, <2>3 DEF Select
  <1>6. CASE Report
    <2>1. /\ pc = "report" /\ pc' = "done" /\ UNCHANGED <<entry, stop, opt, row>>
          /\ code' = IF code = None THEN exit_code ELSE code
          /\ code # 0
      BY <1>1, <1>6 DEF Report, stage, world, idle
    <2>2. code' = 0 => code = None /\ stop = None
                       /\ \A t \in Targets : entry[t].kind \in Good \cup {"absent"}
      BY SMT, <2>1 DEF exit_code, Good
    <2>3. Clean' => Clean
      BY <1>0, <2>1, NoneDistinct DEF Clean, exit_code, ExitCodes
    <2>4. \A t \in Tenants : Behind(t)' = Behind(t)
      BY <2>1 DEF Behind
    <2>5. pc \notin Early /\ pc # "shared"
      BY <2>1 DEF Early
    <2> QED BY <2>1, <2>2, <2>3, <2>4, <2>5 DEF Covered
  <1>7. CASE Top \/ Take \/ NoMore \/ Wait \/ EndBatch \/ CutOff \/ Unpool \/ Snapshots
             \/ EndRecheck \/ SkipSnapshots
    <2>1. /\ pc \in InStage \cup {"snap", "recheck"}
          /\ pc' \in InStage \cup {"snap", "recheck", "report"} /\ opt' = opt /\ code' = code
      BY <1>7 DEF Top, Take, NoMore, Wait, EndBatch, CutOff, Unpool, Snapshots, EndRecheck, SkipSnapshots,
                  InStage, idle
    <2>2. stop' = None => stop = None
      BY <1>7, NoneDistinct
        DEF Top, Halt, Take, NoMore, Wait, EndBatch, CutOff, Unpool, Snapshots, EndRecheck, SkipSnapshots,
            stage, Stops
    <2>3. ~Recheck
      BY <1>7 DEF Recheck, Top, Take, NoMore, Wait, EndBatch, CutOff, Unpool, Snapshots, EndRecheck,
                  SkipSnapshots
    <2>4. pc \notin Early /\ pc' \notin Early /\ pc # "done"
      BY <2>1 DEF Early, InStage
    <2> QED BY <1>2, <2>1, <2>2, <2>3, <2>4, CoveredKept
  <1>8. CASE KillWorkers
    <2>1. CASE code' = 1
      BY SMT, <2>1, CoveredOff
    <2>2. CASE pc' = "snap" /\ code' = code
      <3>1. /\ pc \in {"kill", "killRaise"} /\ opt' = opt /\ stop' = stop
        BY <1>8 DEF KillWorkers, stage, idle
      <3>2. ~Recheck /\ pc \notin Early /\ pc' \notin Early /\ pc # "done"
        BY <2>2, <3>1 DEF Recheck, Early
      <3> QED BY <1>2, <2>2, <3>1, <3>2, CoveredKept
    <2> QED BY <1>8, <2>1, <2>2 DEF KillWorkers, Escape
  <1>9. ASSUME NEW t \in Tenants, Collect(t) PROVE Covered'
    <2>1. CASE code' = 1
      BY SMT, <2>1, CoveredOff
    <2>2. CASE \E r \in Outcomes : Done(t, r) /\ code' = code /\ pc' = pc /\ opt' = opt
      <3>1. stop' = None => stop = None
        BY <2>2, DoneIs
      <3>2. pc = "collect" /\ ~Recheck
        BY <1>9 DEF Collect, Recheck
      <3> QED BY <1>2, <2>2, <3>1, <3>2, CoveredKept
    <2>3. Collected(t) \in Outcomes
      BY SMT, <1>0, <1>9, CallResults DEF Collect, Calls, Collected
    <2>4. code' = 1 \/ (Done(t, Collected(t)) /\ code' = code /\ pc' = pc /\ opt' = opt)
      BY <1>9 DEF Collect, Escape, idle
    <2> QED BY <2>1, <2>2, <2>3, <2>4
  <1>10. CASE Recheck
    <2>1. RowsKept
      BY <1>0, <1>10, RecheckWrites DEF RowsKept
    <2>2. \A t \in Targets : entry'[t].kind = "absent" => entry[t].kind = "absent"
      BY <1>10, RecheckWrites
    <2> QED BY <1>10, <2>1, <2>2, RecheckWrites, CoveredKept
  <1>11. CASE OnSignal \/ ForeignInterrupt
    <2>1. ~Recheck \/ UNCHANGED <<entry, row>>
      BY <1>11, SignalIs DEF Recheck
    <2>2. CASE code' \in {1, 130}
      BY SMT, <2>2, CoveredOff
    <2>3. CASE UNCHANGED <<entry, stop, code, pc>>
      <3>1. opt' = opt /\ row' = row
        BY <1>11, SignalIs
      <3>2. RowsKept
        BY <1>0, <3>1 DEF RowsKept
      <3> QED BY <2>3, <3>1, <3>2, CoveredKept
    <2> QED BY <1>11, <2>2, <2>3, SignalIs
  <1>12. CASE WorkerDies \/ PoolBreaks \/ UNCHANGED vars
    <2>1. UNCHANGED <<opt, pc, entry, stop, code, row>>
      BY <1>12 DEF WorkerDies, PoolBreaks, vars, stage, world
    <2>2. RowsKept
      BY <1>0, <2>1 DEF RowsKept
    <2> QED BY <2>1, <2>2, CoveredKept
  <1>13. ASSUME NEW t \in Targets, Work(t) \/ OtherTakes(t) \/ OtherEnds(t) PROVE Covered'
    <2>1. UNCHANGED parent
      BY <1>13, WorkIs DEF OtherTakes, OtherEnds, rest
    <2>2. UNCHANGED <<opt, pc, entry, stop, code>>
      BY <2>1 DEF parent, stage
    <2>3. RowsKept
      BY <1>13, RowStep
    <2> QED BY <2>2, <2>3, CoveredKept
  <1> QED BY <1>3, <1>4, <1>5, <1>6, <1>7, <1>8, <1>9, <1>10, <1>11, <1>12, <1>13
          DEF Next, Parent

\* Vouched and Covered hold throughout.
LEMMA SummaryInvariant == Spec => [](Typed /\ Calls /\ Vouched /\ Covered)
  <1>1. Init => Vouched /\ Covered
    <2> SUFFICES ASSUME Init PROVE Vouched /\ Covered
      OBVIOUS
    <2>1. /\ \A t \in Targets : entry[t] = Absent /\ fut[t] = None
          /\ code = None /\ pc = IF opt.stage = "tenant" THEN "select" ELSE "shared"
      BY DEF Init
    <2>2. Vouched
      BY <2>1, BlankIs, TargetsAre DEF Vouched, Good
    <2>3. Covered
      BY <2>1, NoneDistinct DEF Covered, Clean, Early, ExitCodes
    <2> QED BY <2>2, <2>3
  <1>2. Typed /\ Calls /\ Vouched /\ Covered /\ [Next]_vars => (Vouched /\ Covered)'
    BY VouchedStep, CoveredStep
  <1> QED BY <1>1, <1>2, CallsInvariant, PTL DEF Spec

\* The summary tells the truth: a target called ok or noop is up to date, whoever
\* did it and however the run ended, unless it says `provisioning elsewhere`.
THEOREM SummaryTruthful == Spec => []Truthful
  <1>1. Vouched => Truthful
    BY DEF Vouched, Truthful, Good
  <1> QED BY <1>1, SummaryInvariant, PTL

\* Exit code 0 of both stages means that the deploy gate has nothing to report on
\* the active shards but a release newer than the code; and --report has a next step
\* for all else the gate reports.
THEOREM GateFollows == Spec => []GateAgrees
  <1>1. Typed /\ Vouched /\ Covered => GateAgrees
    <2> SUFFICES ASSUME Typed, Vouched, Covered, pc = "done",
                        NEW x \in Problems({}) \ {<<"code_older_than_db", Shared>>}
                 PROVE  /\ NextStep(x[2]) # "-"
                        /\ code = 0 /\ opt.stage = "both" =>
                              x[2] \in Tenants /\ ShardOf[x[2]] \notin ActiveShards
      BY DEF GateAgrees
    <2>1. \/ x[2] = Shared /\ ~Current(row[Shared])
          \/ /\ x[2] \in Tenants /\ row[x[2]].status = "active"
             /\ ~Current(row[x[2]])
      BY SMT DEF Problems
    <2>2. NextStep(x[2]) # "-"
      BY <2>1, TargetsAre DEF NextStep, Provisionable
    <2>3. ASSUME code = 0, opt.stage = "both"
          PROVE  x[2] \in Tenants /\ ShardOf[x[2]] \notin ActiveShards
      <3>1. Clean /\ pc # "shared" /\ pc \notin Early
        BY <2>3 DEF Covered, Clean, Early
      <3>2. \A t \in Targets : entry[t].kind \in Good \cup {"absent"}
        BY <2>3 DEF Covered
      <3>3. Current(row[Shared])
        BY <3>1, <3>2, TargetsAre DEF Covered, Vouched
      <3>4. CASE x[2] \in Tenants /\ row[x[2]].status = "active" /\ ~Current(row[x[2]])
        <4>1. Behind(x[2]) /\ x[2] \in Targets
          BY <3>4, TargetsAre DEF Behind, Upgradable
        <4> QED BY <3>1, <3>2, <3>4, <4>1 DEF Covered, Vouched
      <3> QED BY <2>1, <3>3, <3>4
    <2> QED BY <2>2, <2>3
  <1> QED BY <1>1, SummaryInvariant, PTL

-----------------------------------------------------------------------------
(* The tenant stage: --jobs-per-shard, the failure breaker and the round robin *)

InFlight(s) == {t \in Tenants : ShardOf[t] = s /\ fut[t] # None}

\* Failures in a row that halt the stage.
Breaker == IF opt.keepGoing THEN opt.maxFailures ELSE 1

\* TenantStage's counters.  Futures take slots; a shard that can still be given
\* targets has not failed often enough to halt the stage, and one that cannot may
\* fail once more for each slot it has out.
Slots ==
    /\ inflight \in [Shards -> Nat] /\ consecutive \in [Shards -> Nat]
    /\ \A s \in Shards :
          /\ \A i \in 1..Len(queues[s]) : ShardOf[queues[s][i]] = s
          /\ Cardinality(InFlight(s)) <= inflight[s]
          /\ inflight[s] <= PerShard
          /\ \A u \in Shards : stop = None /\ queues[u] # <<>> => consecutive[s] < Breaker
          /\ consecutive[s] + inflight[s] < Breaker + PerShard
          /\ pc \in Early => inflight[s] = 0 /\ consecutive[s] = 0 /\ queues[s] = <<>>

\* The shards a round that begins after s has come by when it has reached l.
Round(s, l) == IF l >= s THEN {v \in Shards : s < v /\ v <= l} ELSE {v \in Shards : v > s \/ v <= l}

\* A shard with targets was passed over at most once by each shard of that round,
\* and not at all while its slots were taken.
Turns ==
    /\ last \in Nat /\ passed \in [Shards -> Nat]
    /\ \A s \in Shards :
          /\ passed[s] < Cardinality(Shards)
          /\ queues[s] # <<>> => passed[s] <= Cardinality(Round(s, last))
          /\ queues[s] # <<>> /\ inflight[s] >= PerShard => passed[s] = 0
          /\ pc \in Early => passed[s] = 0

\* The numbers of a command line that was accepted.
LEMMA Numbers ==
  ASSUME Typed
  PROVE  /\ PerShard \in Nat /\ PerShard > 0 /\ Breaker \in Nat /\ Breaker > 0
         /\ opt.perShard \in Nat /\ opt.perShard > 0
         /\ \A s \in Shards : IsFiniteSet(InFlight(s)) /\ Cardinality(InFlight(s)) \in Nat
  <1>1. opt \in CommandLines /\ Accepted(opt)
    BY CommandConstants DEF Typed
  <1>2. \A s \in Shards : InFlight(s) \in SUBSET Tenants
    BY DEF InFlight
  <1>3. \A s \in Shards : IsFiniteSet(InFlight(s)) /\ Cardinality(InFlight(s)) \in Nat
    BY <1>2, CommandConstants, FS_Subset, FS_CardinalityType
  <1>4. opt.perShard \in Nat /\ opt.perShard > 0 /\ opt.maxFailures \in Nat /\ opt.maxFailures > 0
    BY SMT, <1>1 DEF CommandLines, Accepted
  <1> QED BY SMT, <1>3, <1>4 DEF PerShard, Breaker

\* A round leaves out the shard it began after.
LEMMA RoundSize ==
  ASSUME NEW s \in Shards, NEW l \in Nat
  PROVE  /\ IsFiniteSet(Round(s, l)) /\ Cardinality(Round(s, l)) \in Nat
         /\ Cardinality(Shards) \in Nat /\ Cardinality(Round(s, l)) < Cardinality(Shards)
  <1>1. Round(s, l) \in SUBSET Shards /\ s \notin Round(s, l)
    BY SMT, CommandConstants DEF Round
  <1>2. IsFiniteSet(Shards) /\ Cardinality(Shards) \in Nat
    BY CommandConstants, FS_CardinalityType
  <1>3. /\ IsFiniteSet(Round(s, l)) /\ Cardinality(Round(s, l)) <= Cardinality(Shards)
        /\ Cardinality(Shards) # Cardinality(Round(s, l))
    BY <1>1, <1>2, FS_Subset
  <1>4. Cardinality(Round(s, l)) \in Nat
    BY <1>3, FS_CardinalityType
  <1> QED BY SMT, <1>2, <1>3, <1>4

\* pick_next serves no shard twice before it comes to one that is ready.
LEMMA RoundGrows ==
  ASSUME last \in Nat, pick_next # None, NEW u \in Ready, u # pick_next
  PROVE  Cardinality(Round(u, last)) + 1 <= Cardinality(Round(u, pick_next))
  <1> DEFINE s == pick_next
             after == {v \in Ready : v > last}
             from  == IF after # {} THEN after ELSE Ready
  <1>1. Ready \subseteq Shards /\ Shards \subseteq Nat /\ u \in Shards /\ u \in Nat
    BY CommandConstants DEF Ready
  <1>2. Ready # {} /\ s = Min(from)
    BY DEF pick_next
  <1>3. from \in SUBSET Nat /\ from # {} /\ from \subseteq Ready
    BY <1>1, <1>2
  <1>4. s \in from /\ \A v \in from : s <= v
    <2> HIDE DEF from, s
    <2> QED BY <1>2, <1>3, MinIn
  <1>5. s \in Shards /\ s \in Nat
    BY <1>1, <1>3, <1>4
  <1>6. \/ s > last /\ (u > last => s < u)
        \/ s < u /\ u <= last /\ s <= last
    <2> HIDE DEF s
    <2>1. CASE after # {}
      <3>1. s > last /\ (u > last => s <= u)
        BY <1>4, <2>1
      <3> QED BY SMT, <1>1, <1>5, <3>1 DEF s
    <2>2. CASE after = {}
      <3>1. s <= u /\ s # u
        BY <1>4, <2>2 DEF s
      <3>2. u <= last /\ s <= last
        BY SMT, <1>1, <1>3, <1>4, <1>5, <2>2
      <3> QED BY SMT, <1>1, <1>5, <3>1, <3>2
    <2> QED BY <2>1, <2>2
  <1> HIDE DEF s
  <1>7. Round(u, last) \cup {s} \subseteq Round(u, s) /\ s \notin Round(u, last)
    <2>1. \A v \in Shards : v \in Nat
      BY <1>1
    <2>2. s \in Round(u, s) /\ s \notin Round(u, last)
      BY SMT, <1>1, <1>5, <1>6 DEF Round
    <2>3. ASSUME NEW v \in Round(u, last) PROVE v \in Round(u, s)
      BY SMT, <1>1, <1>5, <1>6, <2>1, <2>3 DEF Round
    <2> QED BY <2>2, <2>3
  <1>8. /\ IsFiniteSet(Round(u, last)) /\ Cardinality(Round(u, last)) \in Nat
        /\ IsFiniteSet(Round(u, s)) /\ Cardinality(Round(u, s)) \in Nat
    BY <1>1, <1>5, RoundSize
  <1>9. Cardinality(Round(u, last) \cup {s}) = Cardinality(Round(u, last)) + 1
    BY <1>7, <1>8, FS_AddElement
  <1>10. Cardinality(Round(u, last) \cup {s}) <= Cardinality(Round(u, s))
    BY <1>7, <1>8, FS_Subset
  <1> QED BY <1>9, <1>10 DEF s

\* A queue that is not empty holds a target.
LEMMA QueueHolds ==
  ASSUME NEW qs \in [Shards -> Seq(Tenants)], NEW s \in Shards, qs[s] # <<>>
  PROVE  InQueue(qs) # {}
  <1>1. 1 \in DOMAIN qs[s]
    BY SMT DEF InQueue
  <1>2. qs[s][1] \in Range(qs[s])
    BY <1>1 DEF Range
  <1> QED BY <1>2 DEF InQueue

\* A step that takes no target and collects no result.
Still ==
    /\ UNCHANGED <<opt, inflight, consecutive, last, passed>>
    /\ pool' = "none" <=> pool = "none"
    /\ \A t \in Tenants : fut[t] = None => fut'[t] = None
    /\ \A s \in Shards : queues'[s] \in {queues[s], <<>>}
    /\ stop' = None => stop = None
    /\ pc' \in Early => pc \in Early

\* Such a step keeps Slots and Turns.
LEMMA StillKeeps ==
  ASSUME Typed, Slots, Turns, Still
  PROVE  Slots' /\ Turns'
  <1> USE DEF Still
  <1>1. PerShard' = PerShard /\ Breaker' = Breaker
    BY DEF PerShard, Parallel, Breaker
  <1>2. PerShard \in Nat /\ Breaker \in Nat
    BY Numbers
  <1>3. \A s \in Shards : Round(s, last)' = Round(s, last)
    BY DEF Round
  <1>4. Turns'
    BY <1>1, <1>3 DEF Turns
  <1>5. ASSUME NEW s \in Shards
        PROVE  /\ Cardinality(InFlight(s)') <= inflight'[s]
               /\ \A i \in 1..Len(queues'[s]) : ShardOf[queues'[s][i]] = s
               /\ pc' \in Early => queues'[s] = <<>>
               /\ \A u \in Shards : stop' = None /\ queues'[u] # <<>> => consecutive'[s] < Breaker'
    <2>1. InFlight(s)' \subseteq InFlight(s)
      BY DEF InFlight
    <2>2. /\ IsFiniteSet(InFlight(s)) /\ Cardinality(InFlight(s)) \in Nat
      BY Numbers
    <2>3. Cardinality(InFlight(s)') <= Cardinality(InFlight(s)) /\ Cardinality(InFlight(s)') \in Nat
      BY <2>1, <2>2, FS_Subset, FS_CardinalityType
    <2>4. Cardinality(InFlight(s)) <= inflight[s] /\ inflight[s] \in Nat /\ inflight' = inflight
      BY DEF Slots
    <2>5. Cardinality(InFlight(s)') <= inflight'[s]
      BY SMT, <2>2, <2>3, <2>4
    <2>6. CASE queues'[s] = <<>>
      BY SMT, <1>1, <2>5, <2>6 DEF Slots
    <2>7. CASE queues'[s] = queues[s]
      BY SMT, <1>1, <2>5, <2>7 DEF Slots
    <2> QED BY <2>6, <2>7
  <1>7. \A s \in Shards :
          /\ inflight'[s] <= PerShard' /\ consecutive'[s] + inflight'[s] < Breaker' + PerShard'
          /\ pc' \in Early => inflight'[s] = 0 /\ consecutive'[s] = 0
    BY <1>1 DEF Slots
  <1>8. inflight' \in [Shards -> Nat] /\ consecutive' \in [Shards -> Nat]
    BY DEF Slots
  <1>9. Slots'
    BY <1>5, <1>7, <1>8 DEF Slots
  <1> QED BY <1>4, <1>9

\* Entry.take and TenantStage.done: a slot is free again, one more failure counts,
\* and a count that reaches the breaker leaves nothing to take.
LEMMA DoneCounts ==
  ASSUME Typed, Slots, NEW t \in Tenants, NEW r \in Outcomes, Done(t, r)
  PROVE  /\ inflight' = [inflight EXCEPT ![ShardOf[t]] = @ - 1]
         /\ \E n \in Nat :
               /\ consecutive' = [consecutive EXCEPT ![ShardOf[t]] = n]
               /\ n <= consecutive[ShardOf[t]] + 1
               /\ \A u \in Shards : stop' = None /\ queues'[u] # <<>> => n < Breaker
  <1> DEFINE s    == ShardOf[t]
             n    == Count(consecutive[s], r)
             left == IF r.conn = "shard" THEN [queues EXCEPT ![s] = <<>>] ELSE queues
             es   == Marked(Taken(entry, t, r), InQueue(queues) \ InQueue(left),
                            "not_run", "shard_unreachable")
             why  == HaltReason(r, n, left)
  <1>1. s \in Shards /\ consecutive[s] \in Nat
    BY CommandConstants DEF Slots
  <1>2. n \in Nat /\ n <= consecutive[s] + 1 /\ (r.kind # "failed" => n = consecutive[s] \/ n = 0)
    <2> HIDE DEF s
    <2> QED BY SMT, <1>1 DEF Count
  <1>3. /\ inflight' = [inflight EXCEPT ![s] = @ - 1]
        /\ consecutive' = [consecutive EXCEPT ![s] = n]
        /\ \/ why # None /\ Halt(left, es, why, FALSE)
           \/ why = None /\ stop' = stop /\ queues' = left
    BY DEF Done
  <1>4. ASSUME NEW u \in Shards, stop' = None, queues'[u] # <<>> PROVE n < Breaker
    <2>1. stop = None /\ queues' \in [Shards -> Seq(Tenants)] /\ queues[u] # <<>>
      BY <1>4, DoneIs
    <2>2. why = None /\ queues' = left
      <3> HIDE DEF why, left, es
      <3> QED BY <1>3, <1>4, <2>1 DEF Halt
    <2>3. InQueue(left) # {}
      <3> HIDE DEF left
      <3> QED BY SMT, <1>4, <2>1, <2>2, QueueHolds
    <2>4. consecutive[s] < Breaker /\ Breaker \in Nat /\ Breaker > 0
      BY <1>1, <2>1, Numbers DEF Slots
    <2>5. CASE r.kind # "failed"
      <3> HIDE DEF n
      <3> QED BY <1>1, <1>2, <2>4, <2>5
    <2>6. CASE r.kind = "failed"
      <3>1. opt.keepGoing /\ ~(n >= opt.maxFailures)
        <4> HIDE DEF left, n, s
        <4>1. {"default_unreachable", "max_failures", "fail_fast"} \subseteq Stops
          BY DEF Stops
        <4>2. None \notin Stops
          BY NoneDistinct
        <4> QED BY <2>1, <2>2, <2>3, <2>6, <4>1, <4>2 DEF HaltReason
      <3>2. Breaker = opt.maxFailures
        BY <3>1 DEF Breaker
      <3> HIDE DEF n
      <3> QED BY SMT, <1>2, <2>4, <3>1, <3>2
    <2> QED BY <2>5, <2>6
  <1> HIDE DEF n, s
  <1>5. \E m \in Nat : /\ consecutive' = [consecutive EXCEPT ![s] = m]
                       /\ m <= consecutive[s] + 1
                       /\ \A u \in Shards : stop' = None /\ queues'[u] # <<>> => m < Breaker
    BY <1>2, <1>3, <1>4
  <1> QED BY <1>3, <1>5 DEF s

\* The slot that done() gives back was the one of its future.
LEMMA DoneKeeps ==
  ASSUME Typed, Slots, Turns, NEW t \in Tenants, NEW r \in Outcomes, Done(t, r), fut[t] # None,
         fut' = [fut EXCEPT ![t] = None], UNCHANGED <<opt, pool, pc, passed>>,
         pc \notin Early
  PROVE  Slots' /\ Turns'
  <1> DEFINE s == ShardOf[t]
  <1>1. PICK n \in Nat : /\ consecutive' = [consecutive EXCEPT ![s] = n]
                         /\ n <= consecutive[s] + 1
                         /\ \A u \in Shards : stop' = None /\ queues'[u] # <<>> => n < Breaker
    BY DoneCounts
  <1>2. inflight' = [inflight EXCEPT ![s] = @ - 1] /\ last' = last
    BY DoneCounts DEF Done
  <1>3. /\ s \in Shards /\ inflight \in [Shards -> Nat] /\ consecutive \in [Shards -> Nat]
    BY CommandConstants DEF Slots
  <1>4. /\ PerShard' = PerShard /\ Breaker' = Breaker /\ Parallel' = Parallel
        /\ PerShard \in Nat /\ Breaker \in Nat
    BY Numbers DEF PerShard, Breaker, Parallel
  <1>5. /\ \A u \in Shards : queues'[u] \in {queues[u], <<>>}
        /\ stop' = None => stop = None
    BY DoneIs
  <1>6. /\ \A u \in Tenants : fut'[u] = IF u = t THEN None ELSE fut[u]
    BY TargetsAre DEF Typed
  <1>7. /\ t \in InFlight(s) /\ InFlight(s)' = InFlight(s) \ {t}
        /\ \A u \in Shards : u # s => InFlight(u)' = InFlight(u)
    BY <1>6 DEF InFlight
  <1>8. \A u \in Shards : IsFiniteSet(InFlight(u)) /\ Cardinality(InFlight(u)) \in Nat
    BY Numbers
  <1>9. Cardinality(InFlight(s)') = Cardinality(InFlight(s)) - 1
    <2> DEFINE C == InFlight(s)
    <2>1. IsFiniteSet(C) /\ t \in C /\ InFlight(s)' = C \ {t}
      BY <1>3, <1>7, <1>8
    <2>2. Cardinality(C \ {t}) = Cardinality(C) - 1
      <3> HIDE DEF C
      <3> QED BY <2>1, FS_RemoveElement
    <2> QED BY <2>1, <2>2
  <1>10. Cardinality(InFlight(s)) > 0
    <2>1. InFlight(s) # {}
      BY <1>7
    <2> QED BY SMT, <1>3, <1>8, <2>1, FS_EmptySet
  <1>11. inflight[s] > 0 /\ inflight[s] \in Nat /\ Cardinality(InFlight(s)) <= inflight[s]
    BY SMT, <1>3, <1>8, <1>10 DEF Slots
  <1> HIDE DEF s
  <1>12. /\ inflight'[s] = inflight[s] - 1 /\ consecutive'[s] = n
         /\ \A u \in Shards : u # s => inflight'[u] = inflight[u] /\ consecutive'[u] = consecutive[u]
         /\ inflight' \in [Shards -> Nat] /\ consecutive' \in [Shards -> Nat]
    BY SMT, <1>1, <1>2, <1>3, <1>11
  <1>13. ASSUME NEW u \in Shards
         PROVE  /\ \A i \in 1..Len(queues'[u]) : ShardOf[queues'[u][i]] = u
                /\ Cardinality(InFlight(u)') <= inflight'[u]
                /\ inflight'[u] <= PerShard'
                /\ \A v \in Shards : stop' = None /\ queues'[v] # <<>> => consecutive'[u] < Breaker'
                /\ consecutive'[u] + inflight'[u] < Breaker' + PerShard'
    <2>1. \A i \in 1..Len(queues'[u]) : ShardOf[queues'[u][i]] = u
      BY SMT, <1>5 DEF Slots
    <2>2. CASE u = s
      <3>1. Cardinality(InFlight(u)') <= inflight'[u]
        BY SMT, <1>8, <1>9, <1>11, <1>12, <2>2
      <3>2. inflight'[u] <= PerShard' /\ consecutive'[u] + inflight'[u] < Breaker' + PerShard'
        BY SMT, <1>1, <1>3, <1>4, <1>11, <1>12, <2>2 DEF Slots
      <3> QED BY <1>1, <1>4, <1>12, <2>1, <2>2, <3>1, <3>2
    <2>3. CASE u # s
      <3>1. Cardinality(InFlight(u)') <= inflight'[u]
        BY <1>7, <1>12, <2>3 DEF Slots
      <3>2. \A v \in Shards : stop' = None /\ queues'[v] # <<>> => consecutive'[u] < Breaker'
        BY <1>4, <1>5, <1>12, <2>3 DEF Slots
      <3> QED BY <1>4, <1>12, <2>1, <2>3, <3>1, <3>2 DEF Slots
    <2> QED BY <2>2, <2>3
  <1>14. Slots'
    BY <1>4, <1>12, <1>13 DEF Slots
  <1>15. \A u \in Shards : Round(u, last)' = Round(u, last)
    BY <1>2 DEF Round
  <1>16. \A u \in Shards : inflight'[u] <= inflight[u] /\ inflight[u] \in Nat /\ inflight'[u] \in Nat
    BY SMT, <1>3, <1>11, <1>12
  <1>17. Turns'
    <2>1. /\ last' \in Nat /\ passed' \in [Shards -> Nat]
          /\ \A u \in Shards : /\ passed'[u] < Cardinality(Shards)
                               /\ pc' \in Early => passed'[u] = 0
      BY <1>2 DEF Turns
    <2>2. \A u \in Shards : queues'[u] # <<>> => passed'[u] <= Cardinality(Round(u, last)')
      BY <1>5, <1>15 DEF Turns
    <2>3. \A u \in Shards : inflight'[u] >= PerShard' => inflight[u] >= PerShard
      BY SMT, <1>4, <1>16
    <2>4. \A u \in Shards : queues'[u] # <<>> /\ inflight'[u] >= PerShard' => passed'[u] = 0
      BY <1>5, <2>3 DEF Turns
    <2> QED BY <2>1, <2>2, <2>4 DEF Turns
  <1> QED BY <1>14, <1>17

\* stage.next takes from a shard with a free slot, and the others wait one turn.
LEMMA TakeKeeps ==
  ASSUME Typed, Slots, Turns, Take
  PROVE  Slots' /\ Turns'
  <1>0. stop = None /\ pick_next # None /\ UNCHANGED <<opt, stop, consecutive>>
    BY DEF Take, idle
  <1>a. PICK s \in Shards : s = pick_next
    BY <1>0, PickReady
  <1>b. PICK t : t = Head(queues[s])
    OBVIOUS
  <1>1. s \in Ready /\ s \in Shards /\ queues[s] # <<>>
    BY <1>0, <1>a, PickReady
  <1>2. queues \in [Shards -> Seq(Tenants)] /\ fut \in [Targets -> Outcomes \cup {None}]
    BY DEF Typed
  <1>3. t \in Tenants /\ ShardOf[t] = s /\ Tail(queues[s]) \in Seq(Tenants)
    <2>1. queues[s] \in Seq(Tenants) /\ queues[s] # <<>>
      BY <1>1, <1>2
    <2>2. 1 \in 1..Len(queues[s]) /\ t = queues[s][1]
      BY SMT, <1>b, <2>1
    <2>3. ShardOf[queues[s][1]] = s
      BY <1>1, <2>2 DEF Slots
    <2> QED BY SMT, <2>1, <2>2, <2>3
  <1>4. /\ last' = s /\ queues' = [queues EXCEPT ![s] = Tail(@)]
        /\ inflight' = [inflight EXCEPT ![s] = @ + 1]
        /\ passed' = [u \in Shards |-> IF u = s THEN 0
                                       ELSE IF u \in Ready THEN passed[u] + 1 ELSE passed[u]]
        /\ fut' = fut \/ fut' = [fut EXCEPT ![t] = Pending]
        /\ pool' = pool \/ (pool = "empty" /\ pool' = "live")
        /\ pc' \in {"refused", "next", "wait"}
    BY <1>a, <1>b DEF Take
  <1>5. /\ PerShard' = PerShard /\ Breaker' = Breaker
        /\ PerShard \in Nat /\ Breaker \in Nat
    BY <1>0, <1>4, Numbers DEF PerShard, Breaker, Parallel
  <1>6. inflight \in [Shards -> Nat] /\ consecutive \in [Shards -> Nat]
    BY DEF Slots
  <1>7. /\ inflight'[s] = inflight[s] + 1 /\ queues'[s] = Tail(queues[s])
        /\ \A u \in Shards : u # s => inflight'[u] = inflight[u] /\ queues'[u] = queues[u]
        /\ inflight' \in [Shards -> Nat] /\ inflight[s] < PerShard
    BY SMT, <1>1, <1>2, <1>4, <1>6 DEF Ready
  <1>8. \A u \in Shards : IsFiniteSet(InFlight(u)) /\ Cardinality(InFlight(u)) \in Nat
    BY Numbers
  <1>9. /\ InFlight(s)' \subseteq InFlight(s) \cup {t}
        /\ \A u \in Shards : u # s => InFlight(u)' \subseteq InFlight(u)
    <2>1. \A u \in Tenants : u # t => fut'[u] = fut[u]
      BY <1>2, <1>4, TargetsAre
    <2> QED BY <1>3, <2>1 DEF InFlight
  <1>10. ASSUME NEW u \in Shards PROVE Cardinality(InFlight(u)') <= inflight'[u]
    <2>1. CASE u = s
      <3>1. /\ IsFiniteSet(InFlight(s) \cup {t})
            /\ Cardinality(InFlight(s) \cup {t}) <= Cardinality(InFlight(s)) + 1
        <4> DEFINE C == InFlight(s)
        <4>1. IsFiniteSet(C) /\ Cardinality(C) \in Nat
          BY <1>1, <1>8
        <4>2. IsFiniteSet(C \cup {t}) /\ Cardinality(C \cup {t}) <= Cardinality(C) + 1
          <5> HIDE DEF C
          <5> QED BY SMT, <4>1, FS_AddElement
        <4> QED BY <4>2
      <3>2. /\ Cardinality(InFlight(s)') <= Cardinality(InFlight(s) \cup {t})
            /\ Cardinality(InFlight(s)') \in Nat /\ Cardinality(InFlight(s) \cup {t}) \in Nat
        BY <1>9, <3>1, FS_Subset, FS_CardinalityType
      <3>3. Cardinality(InFlight(s)) <= inflight[s] /\ inflight[s] \in Nat
        BY <1>1, <1>6 DEF Slots
      <3> QED BY SMT, <1>1, <1>7, <1>8, <2>1, <3>1, <3>2, <3>3
    <2>2. CASE u # s
      <3>1. /\ Cardinality(InFlight(u)') <= Cardinality(InFlight(u))
            /\ Cardinality(InFlight(u)') \in Nat
        BY <1>8, <1>9, <2>2, FS_Subset, FS_CardinalityType
      <3>2. Cardinality(InFlight(u)) <= inflight[u] /\ inflight[u] \in Nat
        BY <1>6 DEF Slots
      <3> QED BY SMT, <1>7, <1>8, <2>2, <3>1, <3>2
    <2> QED BY <2>1, <2>2
  <1>11. ASSUME NEW u \in Shards
         PROVE  \A i \in 1..Len(queues'[u]) : ShardOf[queues'[u][i]] = u
    <2>1. CASE u = s
      <3>1. /\ queues[s] \in Seq(Tenants) /\ queues[s] # <<>>
            /\ \A i \in 1..Len(queues[s]) : ShardOf[queues[s][i]] = s
        BY <1>1, <1>2 DEF Slots
      <3>2. \A i \in 1..Len(Tail(queues[s])) :
               Tail(queues[s])[i] = queues[s][i + 1] /\ i + 1 \in 1..Len(queues[s])
        BY SMT, <3>1
      <3>3. \A i \in 1..Len(Tail(queues[s])) : ShardOf[Tail(queues[s])[i]] = s
        BY SMT, <3>1, <3>2
      <3> QED BY <1>7, <2>1, <3>3
    <2>2. CASE u # s
      BY SMT, <1>7, <2>2 DEF Slots
    <2> QED BY <2>1, <2>2
  <1>12. \A u \in Shards : consecutive[u] < Breaker /\ consecutive[u] \in Nat
    BY <1>0, <1>1, <1>6 DEF Slots
  <1>13. \A u \in Shards : inflight'[u] <= PerShard /\ inflight'[u] \in Nat
    <2>1. \A u \in Shards : inflight[u] <= PerShard /\ inflight[u] \in Nat
      BY <1>6 DEF Slots
    <2> QED BY SMT, <1>5, <1>7, <2>1
  <1>14. \A u \in Shards : consecutive'[u] + inflight'[u] < Breaker' + PerShard'
    BY SMT, <1>0, <1>5, <1>12, <1>13
  <1>15. pc' \notin Early
    BY <1>4 DEF Early
  <1>16. Slots'
    BY SMT, <1>0, <1>5, <1>6, <1>7, <1>10, <1>11, <1>12, <1>13, <1>14, <1>15 DEF Slots
  <1>17. s \in Nat /\ last \in Nat /\ passed \in [Shards -> Nat] /\ Cardinality(Shards) \in Nat
    BY <1>1, CommandConstants, RoundSize DEF Turns
  <1>18. ASSUME NEW u \in Shards
         PROVE  /\ passed'[u] \in Nat /\ passed'[u] < Cardinality(Shards)
                /\ queues'[u] # <<>> => passed'[u] <= Cardinality(Round(u, s))
                /\ queues'[u] # <<>> /\ inflight'[u] >= PerShard' => passed'[u] = 0
    <2>1. /\ Cardinality(Round(u, s)) \in Nat /\ Cardinality(Round(u, s)) < Cardinality(Shards)
      BY <1>17, RoundSize
    <2>2. CASE u = s
      <3>1. passed'[u] = 0
        BY <1>4, <2>2
      <3> QED BY SMT, <1>17, <2>1, <3>1
    <2>3. CASE u # s /\ u \in Ready
      <3>1. Cardinality(Round(u, last)) + 1 <= Cardinality(Round(u, s))
        BY <1>0, <1>17, <1>a, <2>3, RoundGrows
      <3>2. queues[u] # <<>> /\ inflight[u] < PerShard
        BY <2>3 DEF Ready
      <3>3. passed[u] <= Cardinality(Round(u, last)) /\ passed[u] \in Nat
        BY <1>17, <3>2 DEF Turns
      <3>4. passed'[u] = passed[u] + 1
        BY <1>4, <2>3
      <3>5. Cardinality(Round(u, last)) \in Nat
        BY <1>17, RoundSize
      <3>6. passed'[u] <= Cardinality(Round(u, s)) /\ passed'[u] \in Nat
        BY SMT, <2>1, <3>1, <3>3, <3>4, <3>5
      <3>7. passed'[u] < Cardinality(Shards)
        BY SMT, <1>17, <2>1, <3>6
      <3>8. inflight'[u] < PerShard' /\ inflight'[u] \in Nat /\ PerShard' \in Nat
        BY SMT, <1>5, <1>7, <1>13, <2>3, <3>2
      <3> QED BY SMT, <3>6, <3>7, <3>8
    <2>4. CASE u # s /\ u \notin Ready
      <3>1. passed'[u] = passed[u]
        BY <1>4, <2>4
      <3>2. queues[u] # <<>> => inflight[u] >= PerShard
        BY SMT, <1>5, <1>6, <2>4 DEF Ready
      <3>3. queues[u] # <<>> => passed[u] = 0
        BY <3>2 DEF Turns
      <3>4. passed[u] < Cardinality(Shards) /\ passed[u] \in Nat
        BY <1>17 DEF Turns
      <3> QED BY SMT, <1>7, <2>1, <2>4, <3>1, <3>3, <3>4
    <2> QED BY <2>2, <2>3, <2>4
  <1>19. passed' \in [Shards -> Nat] /\ last' \in Nat
    <2>1. DOMAIN passed' = Shards /\ passed' = [u \in Shards |-> passed'[u]]
      BY <1>4
    <2> QED BY <1>4, <1>17, <1>18, <2>1
  <1>20. \A u \in Shards : Round(u, last)' = Round(u, s)
    BY <1>4 DEF Round
  <1>21. Turns'
    BY <1>15, <1>18, <1>19, <1>20 DEF Turns
  <1> QED BY <1>16, <1>21

\* The selection queues each tenant on its shard; nothing was taken yet.
LEMMA SelectKeeps ==
  ASSUME Typed, Calls, Slots, Turns, Select
  PROVE  Slots' /\ Turns'
  <1>1. /\ pc = "select" /\ pc \in Early /\ pc' \in {"report", "top"}
        /\ UNCHANGED <<opt, inflight, consecutive, last, fut, passed>>
    BY DEF Select, idle, Early
  <1>2. CASE stop' # None /\ UNCHANGED <<queues, pool>>
    <2>1. Still
      BY <1>1, <1>2 DEF Still, Early
    <2> QED BY <2>1, StillKeeps
  <1>3. CASE queues' = [s \in Shards |-> Ordered({t \in Selected : ShardOf[t] = s})]
    <2>1. \A s \in Shards : inflight[s] = 0 /\ consecutive[s] = 0 /\ passed[s] = 0
      BY <1>1 DEF Slots, Turns
    <2>2. /\ PerShard' \in Nat /\ PerShard' > 0 /\ Breaker' \in Nat /\ Breaker' > 0
      BY SMT, <1>1, Numbers DEF PerShard, Breaker
    <2>3. \A s \in Shards : Cardinality(InFlight(s)') = 0
      <3>1. \A s \in Shards : InFlight(s)' = {}
        BY <1>1 DEF Calls, Running, InFlight
      <3> QED BY <3>1, FS_EmptySet
    <2>4. ASSUME NEW s \in Shards
          PROVE  \A i \in 1..Len(queues'[s]) : ShardOf[queues'[s][i]] = s
      <3> DEFINE S == {t \in Selected : ShardOf[t] = s}
      <3>1. S \in SUBSET Tenants /\ S \in SUBSET Nat /\ \A t \in S : ShardOf[t] = s
        BY CommandConstants DEF Selected
      <3>2. IsFiniteSet(S) /\ Cardinality(S) \in Nat
        BY <3>1, CommandConstants, FS_Subset, FS_CardinalityType
      <3>3. queues'[s] = Ordered(S)
        BY <1>3
      <3> HIDE DEF S
      <3>4. Ordered(S) \in [1..Cardinality(S) -> S]
        BY <3>1, <3>2, Listing
      <3>5. Len(Ordered(S)) = Cardinality(S)
        BY SMT, <3>2, <3>4
      <3> QED BY <3>1, <3>3, <3>4, <3>5
    <2>5. pc' \notin Early
      BY <1>1 DEF Early
    <2>6. ASSUME NEW s \in Shards
          PROVE  /\ inflight'[s] <= PerShard' /\ consecutive'[s] < Breaker'
                 /\ Cardinality(InFlight(s)') <= inflight'[s]
                 /\ consecutive'[s] + inflight'[s] < Breaker' + PerShard'
      BY SMT, <1>1, <2>1, <2>2, <2>3
    <2>7. inflight' \in [Shards -> Nat] /\ consecutive' \in [Shards -> Nat]
      BY <1>1 DEF Slots
    <2>8. Slots'
      BY <2>4, <2>5, <2>6, <2>7 DEF Slots
    <2>9. \A s \in Shards : Round(s, last)' = Round(s, last) /\ Cardinality(Round(s, last)) \in Nat
      BY <1>1, RoundSize DEF Round, Turns
    <2>10. Turns'
      BY SMT, <1>1, <2>1, <2>5, <2>9 DEF Turns
    <2> QED BY <2>8, <2>10
  <1> QED
    <2>1. \/ stop' \in {"signal", "default_unreachable"} /\ UNCHANGED <<queues, pool>>
          \/ queues' = [s \in Shards |-> Ordered({t \in Selected : ShardOf[t] = s})]
      BY DEF Select
    <2>2. None \notin {"signal", "default_unreachable"}
      BY NoneDistinct DEF Stops
    <2> QED BY <1>2, <1>3, <2>1, <2>2

\* Every other step leaves the stage as it was, or halts it.
LEMMA StillStep ==
  ASSUME Typed, Calls, Slots, [Next]_vars, ~Select, ~Take, \A t \in Tenants : ~Collect(t)
  PROVE  Still
  <1>0. /\ fut \in [Targets -> Outcomes \cup {None}] /\ Pending # None /\ Lost # None
        /\ \A s \in Shards : Empty[s] = <<>>
        /\ pc \in {"refused", "finally"} => pool # "none"
    BY FutureIs DEF Typed, Empty, Calls, Pooled, Parallel
  <1> USE TargetsAre
  <1>1. CASE StartShared
    BY <1>0, <1>1 DEF StartShared, Still, stage, idle, Early, Shared
  <1>2. CASE EndShared
    <2>1. /\ pc = "sharedWait" /\ pool = "none" /\ fut' = [fut EXCEPT ![Shared] = None]
          /\ UNCHANGED <<opt, queues, inflight, consecutive, last, passed>>
      BY <1>2 DEF EndShared, Calls, Early, idle
    <2>2. pool' = pool /\ (stop' = None => stop = None) /\ pc' \in {"select", "report"}
      <3>1. None # "shared_failed"
        BY NoneDistinct DEF Stops
      <3>2. CASE fut[Shared] = Raised
        BY <1>2, <2>1, <3>2 DEF EndShared, Escape, Parallel
      <3>3. CASE fut[Shared] # Raised
        BY <1>2, <3>1, <3>3 DEF EndShared
      <3> QED BY <3>2, <3>3
    <2> QED BY <1>0, <2>1, <2>2 DEF Still, Early
  <1>4. CASE Top
    <2>1. stop' = None => stop = None
      BY <1>4 DEF Top, Halt
    <2>2. queues' \in {queues, Empty}
      BY <1>4 DEF Top, Halt
    <2> QED BY <1>0, <1>4, <2>1, <2>2 DEF Top, Still, idle, Early
  <1>6. CASE Unpool
    BY <1>0, <1>6 DEF Unpool, Still, stage, idle, Early
  <1>7. CASE NoMore
    BY <1>0, <1>7 DEF NoMore, Still, stage, idle, Parallel, Early
  <1>8. CASE Wait
    BY <1>0, <1>8 DEF Wait, Still, stage, idle, Early
  <1>10. CASE EndBatch
    BY <1>0, <1>10 DEF EndBatch, Still, stage, idle, Early
  <1>11. CASE CutOff
    <2>1. stop' # None /\ queues' = Empty
      BY <1>11, NoneDistinct DEF CutOff, Halt, Stops
    <2> QED BY <1>0, <1>11, <2>1 DEF CutOff, Still, idle, Early
  <1>3. CASE KillWorkers
    BY <1>0, <1>3 DEF KillWorkers, Escape, Still, stage, idle, Early
  <1>12. CASE Snapshots
    BY <1>0, <1>12 DEF Snapshots, Still, stage, idle, Early
  <1>13. CASE Recheck
    BY <1>0, <1>13 DEF Recheck, Still, stage, idle, Early
  <1>14. CASE EndRecheck
    BY <1>0, <1>14 DEF EndRecheck, Still, stage, idle, Early
  <1>15. CASE Report
    BY <1>0, <1>15 DEF Report, Still, stage, idle, Early
  <1>16. CASE OnSignal \/ ForeignInterrupt
    <2>1. None # "hard_stop"
      BY NoneDistinct DEF Stops
    <2> QED BY <1>0, <1>16, <2>1, SignalIs DEF Still, Early
  <1>17. CASE SkipSnapshots
    BY <1>0, <1>17 DEF SkipSnapshots, Still, stage, Early
  <1>18. CASE WorkerDies
    BY <1>0, <1>18 DEF WorkerDies, Still, stage
  <1>19. CASE PoolBreaks
    BY <1>0, <1>19 DEF PoolBreaks, Still, stage
  <1>20. ASSUME NEW t \in Targets, Work(t) PROVE Still
    <2>1. UNCHANGED parent /\ \A u \in Tenants : fut[u] = None => fut'[u] = None
      BY <1>0, <1>20, WorkIs
    <2> QED BY <1>0, <2>1 DEF Still, parent, stage
  <1>21. ASSUME NEW t \in Targets, OtherTakes(t) \/ OtherEnds(t) PROVE Still
    BY <1>0, <1>21 DEF OtherTakes, OtherEnds, Still, rest, parent, stage
  <1>22. CASE UNCHANGED vars
    BY <1>0, <1>22 DEF vars, Still, stage
  <1>23. CASE Parent
    BY SMT, <1>1, <1>2, <1>3, <1>4, <1>6, <1>7, <1>8, <1>10, <1>11, <1>12,
       <1>13, <1>14, <1>15, <1>23 DEF Parent
  <1> QED BY SMT, <1>16, <1>17, <1>18, <1>19, <1>20, <1>21, <1>22, <1>23 DEF Next

\* The result of a future is collected: the call raised in the parent and aborts
\* the run, or done() takes it.
LEMMA CollectIs ==
  ASSUME Typed, Calls, NEW t \in Tenants, Collect(t)
  PROVE  /\ pc = "collect" /\ fut[t] # None /\ fut[t] \in Outcomes
         /\ Collected(t) \in Outcomes /\ fut' = [fut EXCEPT ![t] = None]
         /\ UNCHANGED <<opt, passed, late, signals>>
         /\ \/ Done(t, Collected(t)) /\ UNCHANGED <<pool, pc>>
            \/ /\ entry' = Settle("failed", "migration_error") /\ pc' = "report"
               /\ UNCHANGED <<stage, pool>>
  <1>1. fut \in [Targets -> Outcomes \cup {None}] /\ t \in Targets
    BY TargetsAre DEF Typed
  <1>2. /\ pc = "collect" /\ t \in batch /\ fut' = [fut EXCEPT ![t] = None]
        /\ UNCHANGED <<opt, passed, late, signals>>
    BY SMT DEF Collect, idle
  <1>3. fut[t] # None /\ fut[t] \in Outcomes
    BY <1>1, <1>2 DEF Calls
  <1>4. Collected(t) \in Outcomes
    BY <1>3 DEF Collected, Result, Outcomes, Kinds, Reasons
  <1>5. CASE fut[t] = Raised /\ ~Parallel
    BY <1>2, <1>3, <1>4, <1>5 DEF Collect, Escape
  <1>6. CASE ~(fut[t] = Raised /\ ~Parallel)
    <2>1. Done(t, Collected(t)) /\ UNCHANGED <<pool, pc>>
      BY <1>6 DEF Collect
    <2> QED BY <1>2, <1>3, <1>4, <2>1
  <1> QED BY <1>5, <1>6

\* Every step keeps Slots and Turns.
LEMMA StageStep ==
  ASSUME Typed, Calls, Slots, Turns, [Next]_vars
  PROVE  Slots' /\ Turns'
  <1>1. ASSUME NEW t \in Tenants, Collect(t) PROVE Slots' /\ Turns'
    <2>1. pc \notin Early /\ "report" \notin Early
      BY <1>1, CollectIs DEF Early
    <2>2. CASE Done(t, Collected(t)) /\ UNCHANGED <<pool, pc>>
      BY <1>1, <2>1, <2>2, CollectIs, DoneKeeps
    <2>3. CASE /\ entry' = Settle("failed", "migration_error") /\ pc' = "report"
               /\ UNCHANGED <<stage, pool>>
      <3>1. fut' = [fut EXCEPT ![t] = None] /\ UNCHANGED <<opt, passed>>
        BY <1>1, CollectIs
      <3>2. Still
        BY <2>1, <2>3, <3>1, TargetsAre DEF Still, stage, Typed
      <3> QED BY <3>2, StillKeeps
    <2> QED BY <1>1, <2>2, <2>3, CollectIs
  <1> QED BY <1>1, SelectKeeps, TakeKeeps, StillStep, StillKeeps

\* Slots and Turns hold throughout.
LEMMA StageInvariant == Spec => [](Typed /\ Calls /\ Slots /\ Turns)
  <1>1. Init /\ Typed => Slots /\ Turns
    <2> SUFFICES ASSUME Init, Typed PROVE Slots /\ Turns
      OBVIOUS
    <2>1. /\ queues = [s \in Shards |-> <<>>] /\ inflight = [s \in Shards |-> 0]
          /\ consecutive = [s \in Shards |-> 0] /\ passed = [s \in Shards |-> 0]
          /\ last = 0 /\ fut = [t \in Targets |-> None] /\ pc \in {"select", "shared"}
      BY DEF Init
    <2>2. \A s \in Shards : Cardinality(InFlight(s)) = 0
      <3>1. \A s \in Shards : InFlight(s) = {}
        BY SMT, <2>1, TargetsAre DEF InFlight
      <3> QED BY <3>1, FS_EmptySet
    <2>3. PerShard \in Nat /\ PerShard > 0 /\ Breaker \in Nat /\ Breaker > 0
      BY Numbers
    <2>4. Slots
      BY SMT, <2>1, <2>2, <2>3 DEF Slots
    <2>5. \A s \in Shards : /\ Cardinality(Round(s, last)) \in Nat /\ Cardinality(Shards) \in Nat
                            /\ Cardinality(Shards) > 0
      BY SMT, <2>1, RoundSize
    <2>6. Turns
      BY <2>1, <2>5 DEF Turns
    <2> QED BY <2>4, <2>6
  <1>2. Typed /\ Calls /\ Slots /\ Turns /\ [Next]_vars => (Slots /\ Turns)'
    BY StageStep
  <1> QED BY <1>1, <1>2, CallsInvariant, PTL DEF Spec

\* --jobs-per-shard bounds the migrations at work on a shard, however the pool
\* breaks or the run is stopped.
THEOREM ShardLimitHolds == Spec => []ShardLimit
  <1>1. Typed /\ Calls /\ Slots => ShardLimit
    <2> SUFFICES ASSUME Typed, Calls, Slots, NEW s \in Shards
                 PROVE  Cardinality({t \in Tenants : ShardOf[t] = s /\ Working(t)}) <= PerShard
      BY DEF ShardLimit
    <2> DEFINE W == {t \in Tenants : ShardOf[t] = s /\ Working(t)}
    <2>1. W \subseteq InFlight(s)
      BY AtWork DEF InFlight, Running
    <2>2. IsFiniteSet(InFlight(s)) /\ Cardinality(InFlight(s)) \in Nat /\ PerShard \in Nat
      BY Numbers
    <2> HIDE DEF W
    <2>3. Cardinality(W) <= Cardinality(InFlight(s)) /\ Cardinality(W) \in Nat
      BY <2>1, <2>2, FS_Subset, FS_CardinalityType
    <2>4. Cardinality(InFlight(s)) <= inflight[s] /\ inflight[s] <= PerShard /\ inflight[s] \in Nat
      BY DEF Slots
    <2>5. Cardinality(W) <= PerShard
      BY SMT, <2>2, <2>3, <2>4
    <2> QED BY <2>5 DEF W
  <1> QED BY <1>1, StageInvariant, PTL

\* A shard that has reached the breaker fails no more often than it had migrations
\* in flight.
THEOREM BreakerHolds == Spec => []BreakerBound
  <1>1. Typed /\ Slots => BreakerBound
    BY SMT, Numbers DEF Slots, BreakerBound, Breaker
  <1> QED BY <1>1, StageInvariant, PTL

\* A shard that could run a target is not passed over by a second round of the
\* others, whatever fails, halts or finishes in between.
THEOREM RoundRobinHolds == Spec => []RoundRobin
  <1>1. Turns => RoundRobin
    BY DEF Turns, RoundRobin
  <1> QED BY <1>1, StageInvariant, PTL

\* What the invariants above leave out of TypeOK.
Others ==
    /\ signals \in Nat /\ hard \in BOOLEAN /\ snap \subseteq Targets
    /\ lease \in [Targets -> {None, "us", "other"}]
    /\ faults \in Nat /\ others \in Nat /\ late \in Nat /\ last \in Shards \cup {0}

\* Every step keeps these types.
LEMMA OthersStep ==
  ASSUME Typed, Calls, Others, [Next]_vars
  PROVE  Others'
  <1> USE DEF Others
  <1>1. CASE Take
    <2>1. last' \in Shards
      BY <1>1, PickReady DEF Take
    <2> QED BY SMT, <1>1, <2>1 DEF Take, world, idle
  <1>2. CASE Select
    BY SMT, <1>2 DEF Select, Fault, idle
  <1>3. CASE Recheck
    BY SMT, <1>3 DEF Recheck, Fault, stage, idle
  <1>4. CASE StartShared \/ EndShared \/ Top \/ Unpool \/ KillWorkers
    BY <1>4 DEF StartShared, EndShared, Top, Unpool, KillWorkers, stage, world, idle
  <1>5. CASE NoMore \/ Wait \/ EndBatch \/ EndRecheck \/ Report
    BY <1>5 DEF NoMore, Wait, EndBatch, EndRecheck, Report, stage, world, idle
  <1>6. ASSUME NEW t \in Tenants, Collect(t) PROVE Others'
    <2>1. last' = last
      BY <1>6 DEF Collect, Done, stage
    <2> QED BY <1>6, <2>1 DEF Collect, world, idle
  <1>7. CASE CutOff
    BY <1>7 DEF CutOff, world, idle
  <1>8. CASE Snapshots
    BY <1>8 DEF Snapshots, Interrupted, stage, world, idle
  <1>9. ASSUME NEW c, Interrupt(c)
        PROVE  snap' \subseteq Targets /\ lease' \in [Targets -> {None, "us", "other"}]
    BY <1>9 DEF Interrupt
  <1>10. CASE OnSignal
    <2>1. UNCHANGED <<last, faults, others, late>> /\ signals' \in Nat
      BY SMT, <1>10 DEF OnSignal, Signal
    <2>3. hard' = hard \/ hard' = TRUE
      BY <1>10 DEF OnSignal
    <2>4. hard' \in BOOLEAN
      BY <2>3
    <2>2. snap' \subseteq Targets /\ lease' \in [Targets -> {None, "us", "other"}]
      BY <1>9, <1>10 DEF OnSignal
    <2> QED BY <2>1, <2>2, <2>4
  <1>11. CASE ForeignInterrupt
    <2>1. UNCHANGED <<last, faults, others, late, hard>> /\ signals' \in Nat
      BY SMT, <1>11 DEF ForeignInterrupt, Signal
    <2>2. snap' \subseteq Targets /\ lease' \in [Targets -> {None, "us", "other"}]
      BY <1>9, <1>11 DEF ForeignInterrupt
    <2> QED BY <2>1, <2>2
  <1>12. CASE SkipSnapshots
    <2>1. UNCHANGED <<last, faults, others, late, snap, lease>> /\ signals' \in Nat
      BY SMT, <1>12 DEF SkipSnapshots, Signal, stage, world
    <2>2. hard' = hard \/ hard' = TRUE
      BY SMT, <1>12 DEF SkipSnapshots
    <2>3. hard' \in BOOLEAN
      BY <2>2
    <2> QED BY <2>1, <2>3
  <1>13. CASE WorkerDies \/ PoolBreaks
    BY SMT, <1>13 DEF WorkerDies, PoolBreaks, Fault, stage, world
  <1>14. ASSUME NEW t \in Targets, Work(t) PROVE Others'
    <2>1. UNCHANGED <<signals, hard, snap, late, last>>
      BY <1>14 DEF Work, WorkStart, WorkFault, WorkDone, WorkFails, parent, stage
    <2>2. faults' \in Nat /\ others' = others
      BY SMT, <1>14 DEF Work, WorkStart, WorkFault, WorkDone, WorkFails, Fault
    <2>3. lease' = lease \/ \E x \in {None, "us"} : lease' = [lease EXCEPT ![t] = x]
      BY <1>14 DEF Work, WorkStart, WorkFault, WorkDone, WorkFails
    <2> QED BY <2>1, <2>2, <2>3
  <1>15. ASSUME NEW t \in Targets, OtherTakes(t) \/ OtherEnds(t) PROVE Others'
    <2>1. UNCHANGED <<signals, hard, snap, late, last>> /\ faults' \in Nat /\ others' \in Nat
      BY SMT, <1>15 DEF OtherTakes, OtherEnds, Fault, rest, parent, stage
    <2>2. \E x \in {None, "other"} : lease' = [lease EXCEPT ![t] = x]
      BY <1>15 DEF OtherTakes, OtherEnds
    <2> QED BY <2>1, <2>2
  <1>16. CASE UNCHANGED vars
    BY <1>16 DEF vars, stage
  <1>17. CASE Parent
    BY <1>1, <1>2, <1>3, <1>4, <1>5, <1>6, <1>7, <1>8, <1>17 DEF Parent
  <1> QED BY <1>10, <1>11, <1>12, <1>13, <1>14, <1>15, <1>16, <1>17 DEF Next

\* These types hold throughout.
LEMMA OthersInvariant == Spec => [](Typed /\ Calls /\ Slots /\ Turns /\ Others)
  <1>1. Init => Others
    <2> SUFFICES ASSUME Init PROVE Others
      OBVIOUS
    <2>1. /\ signals \in Nat /\ snap \subseteq Targets /\ faults \in Nat /\ others \in Nat
          /\ late \in Nat /\ last \in Shards \cup {0}
      BY DEF Init
    <2>2. hard \in BOOLEAN /\ lease \in [Targets -> {None, "us", "other"}]
      BY DEF Init
    <2> QED BY <2>1, <2>2 DEF Others
  <1>2. Typed /\ Calls /\ Others /\ [Next]_vars => Others'
    BY OthersStep
  <1> QED BY <1>1, <1>2, StageInvariant, PTL DEF Spec

\* Types: the counters stay numbers (a slot is given back once), every queue holds
\* tenants, and no future, entry or exit code is out of its set.
THEOREM TypeCorrect == Spec => []TypeOK
  <1>1. Typed /\ Slots /\ Turns /\ Others => TypeOK
    BY DEF Typed, Slots, Turns, Others, TypeOK, Early, InStage
  <1> QED BY <1>1, OthersInvariant, PTL

=============================================================================
