---------------------------- MODULE RequestProofs ----------------------------
(* Proofs about Request: first what ResolveService answers, for every set of  *)
(* threads, processes and hosts, every limit and every bound; then the two    *)
(* axes of TenantContext, for every set of threads, tenants and shards and    *)
(* contexts nested to any depth.                                              *)
EXTENDS Request, TLAPS

\* Zenon finds the leaves that name no prover; SMT those with arithmetic, sequences
\* and updates of functions.
USE ZenonT(30)

---------------------------------------------------------------------------
(* Single flight, and what an answer says *)

Pcs == {"idle", "lookup", "gate", "cap", "join", "wait", "query", "store", "pop", "wake",
        "answered"}
Gots == {"none", "tenant", "absent", "operational", "interface", "bug", "unset",
         "notfound", "deferred", "dberror", "aborted"}
Requests ==
  [pc : Pcs, host : Hosts \cup {None}, role : {"none", "lead", "own", "open"},
   leader : Threads \cup {None}, got : Gots, stop : BOOLEAN]

\* A thread holds its host's slot until it pops it, and its followers wait until
\* it sets the event.
Holding(r) == r.role = "lead" /\ r.pc \in {"query", "store", "pop"}
Leading(r) == r.role = "lead" /\ r.pc \in {"query", "store", "pop", "wake"}

\* What is known of a request by itself.
RequestKnows(r) ==
  /\ r \in Requests
  /\ r.pc # "idle" => r.host \in Hosts
  /\ r.got = "tenant" => r.host \in Known
  /\ r.got \in {"absent", "notfound"} => r.host \notin Known
  /\ r.got \in {"unset", "aborted"} => r.stop
  /\ r.pc = "query" => r.role # "none"
  /\ r.pc \in {"pop", "wake"} => r.role = "lead"
  /\ r.pc = "store" => r.role \in {"lead", "own"} /\ r.got \in {"tenant", "absent"}
  /\ r.role = "lead" => r.pc \in {"query", "store", "pop", "wake", "answered"}

\* Without a fault only leaders get to the database, and they return with a fact.
Orderly(r, m, n) ==
  m # "off" /\ n = 0 =>
    /\ r.pc = "query" => r.role = "lead"
    /\ r.pc \in {"store", "pop", "wake"} => r.role = "lead" /\ r.got \in {"tenant", "absent"}

\* The slots name the threads that hold them, and followers follow a thread that
\* still leads their host.
Slots ==
  /\ inflight \in [Processes -> [Hosts -> Threads \cup {None}]]
  /\ \A p \in Processes, h \in Hosts : inflight[p][h] # None =>
       /\ Holding(req[inflight[p][h]])
       /\ ProcessOf[inflight[p][h]] = p
       /\ req[inflight[p][h]].host = h
  /\ \A t \in Threads : Holding(req[t]) => inflight[ProcessOf[t]][req[t].host] = t
  /\ \A f \in Threads : req[f].pc = "wait" =>
       /\ req[f].leader \in Threads
       /\ Leading(req[req[f].leader])
       /\ req[req[f].leader].host = req[f].host

CacheTruthful ==
  /\ cache \in [Hosts -> {"miss", "neg", "pos"}]
  /\ \A h \in Hosts : /\ cache[h] = "neg" => h \notin Known
                      /\ cache[h] = "pos" => h \in Known

FlightInv ==
  /\ faults \in 0 .. MaxFaults
  /\ DOMAIN req = Threads
  /\ \A t \in Threads : RequestKnows(req[t]) /\ Orderly(req[t], mode, faults)
  /\ Slots
  /\ CacheTruthful

\* The least of two numbers.
LEMMA MinOfTwo ==
  ASSUME NEW a \in Int, NEW b \in Int
  PROVE  Min({a, b}) \in {a, b} /\ Min({a, b}) <= a /\ Min({a, b}) <= b
  <1>1. CASE a <= b
    BY SMT, <1>1 DEF Min
  <1>2. CASE b <= a
    BY SMT, <1>2 DEF Min
  <1> QED BY SMT, <1>1, <1>2

\* Nobody is served at start.
LEMMA FlightInit == Init => FlightInv
  <1> SUFFICES ASSUME Init PROVE FlightInv
    OBVIOUS
  <1> USE ThreadConstants, ResolveConstants DEF Init, ResolveInit
  <1>1. RequestKnows(Quiet) /\ Orderly(Quiet, mode, faults) /\ ~Holding(Quiet) /\ Quiet.pc = "idle"
    BY DEF RequestKnows, Requests, Pcs, Gots, Orderly, Holding, Quiet, Request
  <1>2. Slots
    BY <1>1 DEF Slots
  <1>3. CacheTruthful
    BY DEF CacheTruthful
  <1> QED BY SMT, <1>1, <1>2, <1>3 DEF FlightInv

\* One thread goes on and takes, gives up and follows no slot.
LEMMA Moves ==
  ASSUME FlightInv, NEW t \in Threads, NEW r,
         req' = [req EXCEPT ![t] = r], UNCHANGED <<mode, inflight>>,
         faults' \in 0 .. MaxFaults, faults' >= faults, CacheTruthful',
         RequestKnows(r), Orderly(r, mode, faults'),
         Holding(r) <=> Holding(req[t]), Leading(r) <=> Leading(req[t]),
         Leading(r) => r.host = req[t].host,
         r.pc = "wait" => FALSE
  PROVE  FlightInv'
  <1>1. \A u \in Threads : req'[u] = IF u = t THEN r ELSE req[u]
    BY DEF FlightInv
  <1>2. \A u \in Threads : Orderly(req'[u], mode', faults') /\ RequestKnows(req'[u])
    BY SMT, <1>1 DEF FlightInv, Orderly
  <1>3. \A u \in Threads : /\ Holding(req'[u]) <=> Holding(req[u])
                           /\ Leading(req'[u]) <=> Leading(req[u])
                           /\ Leading(req[u]) => req'[u].host = req[u].host
                           /\ Holding(req[u]) => req'[u].host = req[u].host
                           /\ req'[u].pc = "wait" =>
                                /\ req[u].pc = "wait" /\ req'[u].leader = req[u].leader
                                /\ req'[u].host = req[u].host
    BY SMT, <1>1 DEF Holding, Leading
  <1>4. Slots'
    <2>1. Slots
      BY DEF FlightInv
    <2> QED BY SMT, <2>1, <1>3 DEF Slots
  <1> QED BY <1>1, <1>2, <1>4 DEF FlightInv

\* A thread that has its answer.
LEMMA AnswerKnows ==
  ASSUME NEW r, RequestKnows(r), r.pc # "idle", NEW m, NEW n,
         NEW a \in {"tenant", "notfound", "deferred", "dberror", "aborted"},
         a = "tenant" => r.host \in Known, a = "notfound" => r.host \notin Known,
         a = "aborted" => r.stop
  PROVE  /\ RequestKnows(Answer(r, a)) /\ Orderly(Answer(r, a), m, n)
         /\ ~Holding(Answer(r, a)) /\ ~Leading(Answer(r, a))
         /\ Answer(r, a).pc = "answered"
  <1> DEFINE x == Answer(r, a)
  <1>1. r \in Requests
    BY DEF RequestKnows
  <1>2. x \in Requests
    BY <1>1 DEF Requests, Pcs, Gots, Answer
  <1>3. /\ x.pc = "answered" /\ x.got = a /\ x.host = r.host
    BY <1>1 DEF Requests, Answer
  <1>4. x.stop = r.stop
    BY <1>1 DEF Requests, Answer
  <1> HIDE DEF x
  <1>5. RequestKnows(x)
    BY <1>2, <1>3, <1>4 DEF RequestKnows
  <1>6. Orderly(x, m, n) /\ ~Holding(x) /\ ~Leading(x)
    BY <1>3 DEF Orderly, Holding, Leading
  <1> QED BY <1>3, <1>5, <1>6 DEF x

\* A thread that resolves for itself.
LEMMA OwnKnows ==
  ASSUME NEW r, RequestKnows(r), r.pc # "idle", NEW m, NEW n, m = "off" \/ n # 0
  PROVE  /\ RequestKnows(OwnResolve(r)) /\ Orderly(OwnResolve(r), m, n)
         /\ ~Holding(OwnResolve(r)) /\ ~Leading(OwnResolve(r))
         /\ OwnResolve(r).pc = "query"
  <1> DEFINE o == OwnResolve(r)
  <1>1. /\ o \in Requests /\ o.host = r.host /\ o.pc = "query" /\ o.role = "own"
        /\ o.got = "none"
    BY DEF RequestKnows, Requests, Pcs, Gots, OwnResolve
  <1> HIDE DEF o
  <1>2. RequestKnows(o) /\ Orderly(o, m, n) /\ ~Holding(o) /\ ~Leading(o)
    BY <1>1 DEF RequestKnows, Orderly, Holding, Leading
  <1> QED BY <1>1, <1>2 DEF o

\* The except clauses: a fact is answered, anything unexpected asks the database.
LEMMA ConcludeKnows ==
  ASSUME NEW r, RequestKnows(r), r.pc # "idle", NEW m, NEW n, NEW got,
         got = "tenant" => r.host \in Known, got = "absent" => r.host \notin Known,
         got \in {"tenant", "absent"} \/ m = "off" \/ n # 0
  PROVE  /\ RequestKnows(Conclude(r, got)) /\ Orderly(Conclude(r, got), m, n)
         /\ ~Holding(Conclude(r, got)) /\ ~Leading(Conclude(r, got))
         /\ Conclude(r, got).pc \in {"answered", "query"}
  <1> DEFINE o == [r EXCEPT !.pc = "query", !.role = "open", !.leader = None, !.got = "none"]
  <1>1. CASE got = "tenant"
    BY <1>1, AnswerKnows DEF Conclude
  <1>2. CASE got = "absent"
    BY <1>2, AnswerKnows DEF Conclude
  <1>3. CASE got = "operational"
    BY <1>3, AnswerKnows DEF Conclude
  <1>4. CASE got \notin {"tenant", "absent", "operational"}
    <2>1. Conclude(r, got) = o
      BY <1>4 DEF Conclude
    <2>2. /\ o \in Requests /\ o.host = r.host /\ o.pc = "query" /\ o.role = "open"
          /\ o.got = "none"
      BY DEF RequestKnows, Requests, Pcs, Gots
    <2> HIDE DEF o
    <2>3. RequestKnows(o) /\ Orderly(o, m, n) /\ ~Holding(o) /\ ~Leading(o)
      BY <1>4, <2>2 DEF RequestKnows, Orderly, Holding, Leading
    <2> QED BY <2>1, <2>2, <2>3
  <1> QED BY <1>1, <1>2, <1>3, <1>4

\* The thread of a step has a request, and is idle or has a host.
LEMMA TheRequest ==
  ASSUME FlightInv, NEW t \in Threads
  PROVE  /\ RequestKnows(req[t]) /\ req[t] \in Requests /\ Orderly(req[t], mode, faults)
         /\ req[t].pc # "idle" => req[t].host \in Hosts
         /\ faults \in Nat /\ faults <= MaxFaults /\ MaxFaults \in Nat /\ MaxFaults > 0
         /\ CacheTruthful
  BY SMT, ResolveConstants DEF FlightInv, RequestKnows

\* A request comes in.
LEMMA ArriveFlight ==
  ASSUME FlightInv, NEW t \in Threads, NEW h \in Hosts, Arrive(t, h) PROVE FlightInv'
  <1> DEFINE r == Request(IF mode = "off" THEN "query" ELSE "lookup", h,
                          IF mode = "off" THEN "open" ELSE "none", None, "none")
  <1>1. /\ RequestKnows(r) /\ Orderly(r, mode, faults) /\ ~Holding(r) /\ ~Leading(r)
        /\ r.pc # "wait"
    BY DEF RequestKnows, Requests, Pcs, Gots, Orderly, Holding, Leading, Request
  <1>2. ~Holding(req[t]) /\ ~Leading(req[t])
    BY DEF Arrive, Holding, Leading
  <1> HIDE DEF r
  <1>3. req' = [req EXCEPT ![t] = r] /\ UNCHANGED <<mode, inflight, cache, faults>>
    BY DEF Arrive, Become, r
  <1>4. CacheTruthful' /\ faults' \in 0 .. MaxFaults /\ faults' >= faults
    BY SMT, <1>3, TheRequest DEF CacheTruthful
  <1> QED BY <1>1, <1>2, <1>3, <1>4, Moves

\* A hit is answered; a miss goes on to the gate or the slot.
LEMMA LookupFlight ==
  ASSUME FlightInv, NEW t \in Threads, Lookup(t) PROVE FlightInv'
  <1>1. PICK seen \in {"miss", cache[req[t].host]} :
          req' = [req EXCEPT ![t] =
            CASE seen = "neg" -> Answer(req[t], "notfound")
              [] seen = "pos" -> Answer(req[t], "tenant")
              [] OTHER -> [req[t] EXCEPT !.pc = IF mode = "gate" THEN "gate" ELSE "join"]]
    BY DEF Lookup, Become
  <1> DEFINE g == [req[t] EXCEPT !.pc = IF mode = "gate" THEN "gate" ELSE "join"]
  <1>2. req[t].pc = "lookup" /\ UNCHANGED <<mode, cache, inflight, faults>>
    BY DEF Lookup
  <1>3. ~Holding(req[t]) /\ ~Leading(req[t]) /\ CacheTruthful'
        /\ faults' \in 0 .. MaxFaults /\ faults' >= faults
    BY SMT, <1>2, TheRequest DEF Holding, Leading, CacheTruthful
  <1>4. seen = "neg" => req[t].host \notin Known
    BY <1>2, TheRequest DEF CacheTruthful
  <1>5. seen = "pos" => req[t].host \in Known
    BY <1>2, TheRequest DEF CacheTruthful
  <1>6. CASE seen = "neg"
    BY <1>1, <1>2, <1>3, <1>4, <1>6, TheRequest, AnswerKnows, Moves
  <1>7. CASE seen = "pos"
    BY <1>1, <1>2, <1>3, <1>5, <1>7, TheRequest, AnswerKnows, Moves
  <1>8. CASE seen \notin {"neg", "pos"}
    <2>1. /\ RequestKnows(g) /\ Orderly(g, mode, faults) /\ ~Holding(g) /\ ~Leading(g)
          /\ g.pc # "wait"
      BY SMT, <1>2, TheRequest DEF RequestKnows, Requests, Pcs, Gots, Orderly, Holding, Leading
    <2> HIDE DEF g
    <2>2. req' = [req EXCEPT ![t] = g]
      BY <1>1, <1>8 DEF g
    <2> QED BY <2>1, <2>2, <1>2, <1>3, Moves
  <1> QED BY <1>6, <1>7, <1>8

\* An exception of the cache or gate code.
LEMMA LookupFailsFlight ==
  ASSUME FlightInv, NEW t \in Threads, LookupFails(t) PROVE FlightInv'
  <1> DEFINE r == Conclude(req[t], "bug")
  <1>1. /\ req' = [req EXCEPT ![t] = r] /\ UNCHANGED <<mode, inflight, cache>>
        /\ faults' = faults + 1 /\ faults < MaxFaults /\ req[t].pc \in {"lookup", "gate"}
    BY DEF LookupFails, Become, Fault
  <1>2. ~Holding(req[t]) /\ ~Leading(req[t]) /\ CacheTruthful'
        /\ faults' \in 0 .. MaxFaults /\ faults' # 0 /\ faults' >= faults
    BY SMT, <1>1, TheRequest DEF Holding, Leading, CacheTruthful
  <1>3. /\ RequestKnows(r) /\ Orderly(r, mode, faults') /\ ~Holding(r) /\ ~Leading(r)
        /\ r.pc # "wait"
    BY <1>1, <1>2, TheRequest, ConcludeKnows
  <1> HIDE DEF r
  <1> QED BY <1>1, <1>2, <1>3, Moves

\* The gate's verdicts: only a stranger is turned away.
LEMMA GateFlight ==
  ASSUME FlightInv, NEW t \in Threads, Gate(t) PROVE FlightInv'
  <1>1. PICK verdict \in Verdicts(req[t].host) :
          req' = [req EXCEPT ![t] =
            CASE verdict = "NONMEMBER" -> Answer(req[t], "notfound")
              [] verdict = "MEMBER" -> [req[t] EXCEPT !.pc = "join"]
              [] OTHER -> [req[t] EXCEPT !.pc = "cap"]]
    BY DEF Gate, Become
  <1>2. req[t].pc = "gate" /\ UNCHANGED <<mode, cache, inflight, faults>>
    BY DEF Gate
  <1>3. ~Holding(req[t]) /\ ~Leading(req[t]) /\ CacheTruthful'
        /\ faults' \in 0 .. MaxFaults /\ faults' >= faults
    BY SMT, <1>2, TheRequest DEF Holding, Leading, CacheTruthful
  <1>4. CASE verdict = "NONMEMBER"
    <2>1. req[t].host \notin Known
      BY <1>4 DEF Verdicts
    <2> QED BY <1>1, <1>2, <1>3, <1>4, <2>1, TheRequest, AnswerKnows, Moves
  <1>5. CASE verdict # "NONMEMBER"
    <2>1. PICK pc \in {"join", "cap"} : req' = [req EXCEPT ![t] = [req[t] EXCEPT !.pc = pc]]
      BY <1>1, <1>5
    <2> DEFINE g == [req[t] EXCEPT !.pc = pc]
    <2>2. /\ RequestKnows(g) /\ Orderly(g, mode, faults) /\ ~Holding(g) /\ ~Leading(g)
          /\ g.pc # "wait"
      BY SMT, <1>2, TheRequest DEF RequestKnows, Requests, Pcs, Gots, Orderly, Holding, Leading
    <2> HIDE DEF g
    <2>3. req' = [req EXCEPT ![t] = g]
      BY <2>1 DEF g
    <2> QED BY <2>2, <2>3, <1>2, <1>3, Moves
  <1> QED BY <1>4, <1>5

\* The fill cap: a request is let through or deferred.
LEMMA DecideFlight ==
  ASSUME FlightInv, NEW t \in Threads, req[t].pc = "cap",
         \/ Become(t, [req[t] EXCEPT !.pc = "join"])
         \/ Become(t, Answer(req[t], "deferred")),
         UNCHANGED <<mode, cache, inflight, faults>>
  PROVE  FlightInv'
  <1>1. ~Holding(req[t]) /\ ~Leading(req[t]) /\ CacheTruthful'
        /\ faults' \in 0 .. MaxFaults /\ faults' >= faults
    BY SMT, TheRequest DEF Holding, Leading, CacheTruthful
  <1>2. CASE Become(t, Answer(req[t], "deferred"))
    BY <1>1, <1>2, TheRequest, AnswerKnows, Moves DEF Become
  <1>3. CASE Become(t, [req[t] EXCEPT !.pc = "join"])
    <2> DEFINE g == [req[t] EXCEPT !.pc = "join"]
    <2>1. /\ RequestKnows(g) /\ Orderly(g, mode, faults) /\ ~Holding(g) /\ ~Leading(g)
          /\ g.pc # "wait"
      BY SMT, TheRequest DEF RequestKnows, Requests, Pcs, Gots, Orderly, Holding, Leading
    <2> HIDE DEF g
    <2>2. req' = [req EXCEPT ![t] = g]
      BY <1>3 DEF Become, g
    <2> QED BY <2>1, <2>2, <1>1, Moves
  <1> QED BY <1>2, <1>3

\* single_flight: the thread leads a free slot or follows the one that holds it.
LEMMA JoinFlight ==
  ASSUME FlightInv, NEW t \in Threads, Join(t) PROVE FlightInv'
  <1> DEFINE p == ProcessOf[t]
             h == req[t].host
             lead == [req[t] EXCEPT !.pc = "query", !.role = "lead"]
             follow == [req[t] EXCEPT !.pc = "wait", !.leader = inflight[p][h]]
  <1>1. req[t].pc = "join" /\ UNCHANGED <<mode, cache, faults>> /\ ~Holding(req[t])
        /\ ~Leading(req[t]) /\ p \in Processes /\ h \in Hosts /\ RequestKnows(req[t])
    BY ResolveConstants, TheRequest DEF Join, Holding, Leading
  <1>2. Slots /\ DOMAIN req = Threads /\ faults \in Nat /\ CacheTruthful'
    BY SMT, <1>1 DEF FlightInv, CacheTruthful
  <1>3. CASE inflight[p][h] = None
    <2>1. /\ RequestKnows(lead) /\ Orderly(lead, mode, faults) /\ Holding(lead) /\ Leading(lead)
          /\ lead.pc = "query" /\ lead.host = h
      BY <1>1 DEF RequestKnows, Requests, Pcs, Gots, Orderly, Holding, Leading
    <2>2. req' = [req EXCEPT ![t] = lead] /\ inflight' = [inflight EXCEPT ![p][h] = t]
      BY <1>3 DEF Join, Become
    <2> HIDE DEF lead
    <2>3. \A u \in Threads : req'[u] = IF u = t THEN lead ELSE req[u]
      BY <1>2, <2>2
    <2>4. inflight' \in [Processes -> [Hosts -> Threads \cup {None}]]
          /\ \A q \in Processes, k \in Hosts :
               inflight'[q][k] = IF q = p /\ k = h THEN t ELSE inflight[q][k]
      BY SMT, <1>1, <1>2, <2>2 DEF Slots
    <2>5. \A u \in Threads : Holding(req[u]) =>
            ~(ProcessOf[u] = p /\ req[u].host = h) /\ ProcessOf[u] \in Processes
            /\ req[u].host \in Hosts
      <3> SUFFICES ASSUME NEW u \in Threads, Holding(req[u])
                   PROVE  ~(ProcessOf[u] = p /\ req[u].host = h) /\ ProcessOf[u] \in Processes
                          /\ req[u].host \in Hosts
        OBVIOUS
      <3>1. inflight[ProcessOf[u]][req[u].host] = u
        BY <1>2 DEF Slots
      <3> QED BY <3>1, <1>3, ResolveConstants, ThreadConstants, TheRequest DEF Holding
    <2>6. Slots'
      <3>1. \A q \in Processes, k \in Hosts : inflight'[q][k] # None =>
              /\ Holding(req'[inflight'[q][k]])
              /\ ProcessOf[inflight'[q][k]] = q
              /\ req'[inflight'[q][k]].host = k
        BY SMT, <1>1, <1>2, <2>1, <2>3, <2>4 DEF Slots
      <3>2. \A u \in Threads : Holding(req'[u]) => inflight'[ProcessOf[u]][req'[u].host] = u
        BY SMT, <1>1, <1>2, <2>1, <2>3, <2>4, <2>5 DEF Slots
      <3>3. \A f \in Threads : req'[f].pc = "wait" =>
              /\ req'[f].leader \in Threads
              /\ Leading(req'[req'[f].leader])
              /\ req'[req'[f].leader].host = req'[f].host
        BY SMT, <1>1, <1>2, <2>1, <2>3 DEF Slots
      <3> QED BY <2>4, <3>1, <3>2, <3>3 DEF Slots
    <2>7. \A u \in Threads : RequestKnows(req'[u]) /\ Orderly(req'[u], mode', faults')
      BY <1>1, <2>1, <2>3 DEF FlightInv
    <2> QED BY <1>1, <1>2, <2>2, <2>6, <2>7 DEF FlightInv
  <1>4. CASE inflight[p][h] # None
    <2> DEFINE l == inflight[p][h]
    <2>1. l \in Threads /\ Holding(req[l]) /\ Leading(req[l]) /\ req[l].host = h
      <3>1. l \in Threads /\ Holding(req[l]) /\ req[l].host = h
        BY SMT, <1>1, <1>2, <1>4 DEF Slots
      <3> QED BY <3>1 DEF Holding, Leading
    <2>2. /\ RequestKnows(follow) /\ Orderly(follow, mode, faults) /\ ~Holding(follow)
          /\ ~Leading(follow) /\ follow.pc = "wait" /\ follow.leader = l /\ follow.host = h
      BY <1>1, <2>1 DEF RequestKnows, Requests, Pcs, Gots, Orderly, Holding, Leading
    <2>3. req' = [req EXCEPT ![t] = follow] /\ inflight' = inflight
      BY <1>4 DEF Join, Become
    <2> HIDE DEF follow
    <2>4. \A u \in Threads : req'[u] = IF u = t THEN follow ELSE req[u]
      BY <1>2, <2>3
    <2>5. Slots'
      <3>1. \A u \in Threads : Holding(req'[u]) <=> Holding(req[u])
        BY <1>1, <2>2, <2>4
      <3>2. \A u \in Threads : Leading(req[u]) => req'[u] = req[u]
        BY <1>1, <2>4
      <3>3. \A u \in Threads : Holding(req[u]) => req'[u] = req[u]
        BY <1>1, <2>4
      <3>4. \A f \in Threads : req'[f].pc = "wait" =>
              /\ req'[f].leader \in Threads
              /\ Leading(req'[req'[f].leader])
              /\ req'[req'[f].leader].host = req'[f].host
        <4>1. req'[t].leader = l /\ req'[t].host = h /\ req'[l] = req[l]
          BY <2>1, <2>2, <2>4, <3>2
        <4>2. \A f \in Threads \ {t} : req'[f] = req[f]
          BY <2>4
        <4>3. \A f \in Threads : req[f].pc = "wait" =>
                /\ req[f].leader \in Threads
                /\ Leading(req[req[f].leader])
                /\ req[req[f].leader].host = req[f].host
          BY <1>2 DEF Slots
        <4> HIDE DEF l
        <4>4. Leading(req'[req'[t].leader]) /\ req'[req'[t].leader].host = req'[t].host
              /\ req'[t].leader \in Threads
          BY <2>1, <4>1
        <4>5. ASSUME NEW f \in Threads \ {t}, req[f].pc = "wait"
              PROVE  req'[req[f].leader] = req[req[f].leader]
          BY <3>2, <4>3, <4>5
        <4> QED BY SMT, <4>2, <4>3, <4>4, <4>5
      <3> QED BY SMT, <1>2, <2>3, <3>1, <3>3, <3>4 DEF Slots
    <2>6. \A u \in Threads : RequestKnows(req'[u]) /\ Orderly(req'[u], mode', faults')
      BY <1>1, <2>2, <2>4 DEF FlightInv
    <2> QED BY <1>1, <1>2, <2>3, <2>5, <2>6 DEF FlightInv
  <1> QED BY <1>3, <1>4

\* The resolver returned or raised.
LEMMA OutcomeFlight ==
  ASSUME FlightInv, NEW t \in Threads, req[t].pc \in {"query", "store"},
         NEW got \in {"tenant", "absent", "operational", "interface", "bug"},
         got = "tenant" => req[t].host \in Known, got = "absent" => req[t].host \notin Known,
         got \in {"tenant", "absent"} \/ faults' # 0,
         Outcome(t, got), UNCHANGED <<mode, inflight>>, CacheTruthful',
         faults' \in 0 .. MaxFaults, faults' >= faults
  PROVE  FlightInv'
  <1>1. CASE Leads(t)
    <2> DEFINE r == [req[t] EXCEPT !.pc = "pop", !.got = got]
    <2>1. r \in Requests /\ r.host = req[t].host /\ r.pc = "pop" /\ r.role = "lead" /\ r.got = got
      BY <1>1, TheRequest DEF Requests, Pcs, Gots, Leads
    <2>2. req' = [req EXCEPT ![t] = r]
      BY <1>1 DEF Outcome, Become
    <2> HIDE DEF r
    <2>3. RequestKnows(r) /\ Orderly(r, mode, faults') /\ Holding(r) /\ Leading(r)
      BY <2>1, TheRequest DEF RequestKnows, Orderly, Holding, Leading
    <2>4. Holding(req[t]) /\ Leading(req[t])
      BY <1>1 DEF Holding, Leading, Leads
    <2> QED BY <2>1, <2>2, <2>3, <2>4, Moves
  <1>2. CASE ~Leads(t)
    <2>1. ~Holding(req[t]) /\ ~Leading(req[t])
      BY <1>2 DEF Holding, Leading, Leads
    <2>2. req' = [req EXCEPT ![t] = Conclude(req[t], got)]
      BY <1>2 DEF Outcome, Become
    <2> QED BY <2>1, <2>2, TheRequest, ConcludeKnows, Moves
  <1> QED BY <1>1, <1>2

\* The Domain row decides.
LEMMA QueryFlight ==
  ASSUME FlightInv, NEW t \in Threads, Query(t) PROVE FlightInv'
  <1> DEFINE found == IF req[t].host \in Known THEN "tenant" ELSE "absent"
             r == [req[t] EXCEPT !.pc = "store", !.got = found]
  <1>1. req[t].pc = "query" /\ UNCHANGED <<mode, cache, inflight, faults>>
    BY DEF Query, Querying
  <1>2. CacheTruthful' /\ faults' \in 0 .. MaxFaults /\ faults' >= faults
    BY SMT, <1>1, TheRequest DEF CacheTruthful
  <1>3. CASE req[t].role = "open"
    <2>1. ~Holding(req[t]) /\ ~Leading(req[t])
      BY <1>3 DEF Holding, Leading
    <2>2. req' = [req EXCEPT ![t] = Conclude(req[t], found)]
      BY <1>3 DEF Query, Become
    <2> QED BY <1>1, <1>2, <2>1, <2>2, TheRequest, ConcludeKnows, Moves
  <1>4. CASE req[t].role # "open"
    <2>0. req[t].role \in {"lead", "own"}
      BY <1>1, <1>4, TheRequest DEF RequestKnows, Requests
    <2>1. /\ r \in Requests /\ r.host = req[t].host /\ r.pc = "store" /\ r.role = req[t].role
          /\ r.got = found
      BY TheRequest DEF Requests, Pcs, Gots
    <2>2. req' = [req EXCEPT ![t] = r]
      BY <1>4 DEF Query, Become
    <2> HIDE DEF r
    <2>3. RequestKnows(r) /\ Orderly(r, mode, faults')
      BY <1>1, <2>0, <2>1, TheRequest DEF RequestKnows, Orderly
    <2>4. (Holding(r) <=> Holding(req[t])) /\ (Leading(r) <=> Leading(req[t]))
      BY <1>1, <2>1 DEF Holding, Leading
    <2> QED BY <1>1, <1>2, <2>1, <2>2, <2>3, <2>4, Moves
  <1> QED BY <1>3, <1>4

\* The database failed.
LEMMA QueryFailsFlight ==
  ASSUME FlightInv, NEW t \in Threads, QueryFails(t) PROVE FlightInv'
  <1>1. req[t].pc = "query" /\ UNCHANGED <<mode, cache, inflight>> /\ faults' = faults + 1
        /\ faults < MaxFaults
    BY DEF QueryFails, Querying, Fault
  <1>2. CacheTruthful' /\ faults' \in 0 .. MaxFaults /\ faults' >= faults /\ faults' # 0
    BY SMT, <1>1, TheRequest DEF CacheTruthful
  <1>3. CASE req[t].role = "open"
    <2>1. ~Holding(req[t]) /\ ~Leading(req[t])
      BY <1>3 DEF Holding, Leading
    <2>2. req' = [req EXCEPT ![t] = Answer(req[t], "dberror")]
      BY <1>3 DEF QueryFails, Become
    <2> QED BY <1>1, <1>2, <2>1, <2>2, TheRequest, AnswerKnows, Moves
  <1>4. CASE req[t].role # "open"
    <2>1. PICK error \in {"operational", "interface"} : Outcome(t, error)
      BY <1>4 DEF QueryFails
    <2> QED BY <1>1, <1>2, <2>1, OutcomeFlight
  <1> QED BY <1>3, <1>4

\* The answer is cached, or its storing failed.
LEMMA StoreFlight ==
  ASSUME FlightInv, NEW t \in Threads, Store(t) \/ StoreFails(t) PROVE FlightInv'
  <1>1. req[t].pc = "store" /\ UNCHANGED <<mode, inflight>>
    BY DEF Store, StoreFails
  <1>2. /\ req[t].got \in {"tenant", "absent"} /\ req[t].host \in Hosts
        /\ req[t].got = "tenant" => req[t].host \in Known
        /\ req[t].got = "absent" => req[t].host \notin Known
    BY <1>1, TheRequest DEF RequestKnows
  <1>3. CASE StoreFails(t)
    <2>1. UNCHANGED cache /\ faults' = faults + 1 /\ faults < MaxFaults /\ Outcome(t, "bug")
      BY <1>3 DEF StoreFails, Fault
    <2>2. CacheTruthful' /\ faults' \in 0 .. MaxFaults /\ faults' >= faults /\ faults' # 0
      BY SMT, <2>1, TheRequest DEF CacheTruthful
    <2> QED BY <1>1, <2>1, <2>2, OutcomeFlight
  <1>4. CASE Store(t)
    <2>1. PICK written \in {cache[req[t].host], Fresh(req[t].got)} :
            cache' = [cache EXCEPT ![req[t].host] = IF @ = "miss" THEN written ELSE @]
      BY <1>4 DEF Store
    <2>2. CacheTruthful'
      BY <1>2, <2>1, TheRequest DEF CacheTruthful, Fresh
    <2>3. faults' \in 0 .. MaxFaults /\ faults' >= faults /\ Outcome(t, req[t].got)
      BY SMT, <1>4, TheRequest DEF Store
    <2> QED BY <1>1, <1>2, <2>2, <2>3, OutcomeFlight
  <1> QED BY <1>3, <1>4

\* A follower gives up waiting.
LEMMA WaitTimeoutFlight ==
  ASSUME FlightInv, NEW t \in Threads, WaitTimeout(t) PROVE FlightInv'
  <1>1. /\ req[t].pc = "wait" /\ UNCHANGED <<mode, cache, inflight>>
        /\ faults' = Min({faults + 1, MaxFaults})
        /\ req' = [req EXCEPT ![t] = OwnResolve(req[t])]
    BY DEF WaitTimeout, Become
  <1>2. faults \in Nat /\ faults <= MaxFaults /\ MaxFaults \in Nat \ {0} /\ CacheTruthful'
    BY SMT, <1>1, TheRequest DEF CacheTruthful
  <1>3. faults' \in 0 .. MaxFaults /\ faults' >= faults /\ faults' # 0
    <2>1. faults' \in {faults + 1, MaxFaults}
      BY SMT, <1>1, <1>2, MinOfTwo
    <2>2. faults' <= MaxFaults
      BY SMT, <1>1, <1>2, MinOfTwo
    <2> QED BY SMT, <1>2, <2>1, <2>2
  <1>4. ~Holding(req[t]) /\ ~Leading(req[t])
    BY <1>1 DEF Holding, Leading
  <1> QED BY <1>1, <1>2, <1>3, <1>4, TheRequest, OwnKnows, Moves

\* A thread is stopped; a leader unwinds through its finally clause.
LEMMA StoppedFlight ==
  ASSUME FlightInv, NEW t \in Threads, Stopped(t) PROVE FlightInv'
  <1> DEFINE s == [req[t] EXCEPT !.stop = TRUE]
             r == [s EXCEPT !.pc = "pop", !.got = "unset"]
  <1>1. /\ req[t].pc \notin {"idle", "answered", "pop", "wake"}
        /\ UNCHANGED <<mode, cache, inflight>> /\ faults' = faults + 1 /\ faults < MaxFaults
    BY DEF Stopped, Fault
  <1>2. CacheTruthful' /\ faults' \in 0 .. MaxFaults /\ faults' >= faults /\ faults' # 0
    BY SMT, <1>1, TheRequest DEF CacheTruthful
  <1>3. /\ s \in Requests /\ s.host = req[t].host /\ s.pc = req[t].pc /\ s.role = req[t].role
        /\ s.got = req[t].got /\ s.stop
    BY TheRequest DEF Requests
  <1>4. CASE Leads(t)
    <2>1. req' = [req EXCEPT ![t] = r]
      BY <1>4 DEF Stopped, Become
    <2>2. /\ r \in Requests /\ r.host = req[t].host /\ r.pc = "pop" /\ r.role = "lead"
          /\ r.got = "unset" /\ r.stop
      BY <1>4, TheRequest DEF Requests, Pcs, Gots, Leads
    <2> HIDE DEF r
    <2>3. RequestKnows(r) /\ Orderly(r, mode, faults') /\ Holding(r) /\ Leading(r)
      BY <1>1, <1>2, <2>2, TheRequest DEF RequestKnows, Orderly, Holding, Leading
    <2>4. Holding(req[t]) /\ Leading(req[t])
      BY <1>1, <1>4, TheRequest DEF Holding, Leading, Leads, RequestKnows
    <2> QED BY <1>1, <1>2, <2>1, <2>2, <2>3, <2>4, Moves
  <1>5. CASE ~Leads(t)
    <2>1. req' = [req EXCEPT ![t] = Answer(s, "aborted")]
      BY <1>5 DEF Stopped, Become
    <2> HIDE DEF s
    <2>2. RequestKnows(s) /\ s.pc # "idle"
      BY SMT, <1>1, <1>3, TheRequest DEF RequestKnows
    <2>3. ~Holding(req[t]) /\ ~Leading(req[t])
      BY <1>5 DEF Holding, Leading, Leads
    <2> QED BY <1>1, <1>2, <1>3, <2>1, <2>2, <2>3, AnswerKnows, Moves
  <1> QED BY <1>4, <1>5

\* The leader frees its slot; its followers keep waiting for the event.
LEMMA PopFlight ==
  ASSUME FlightInv, NEW t \in Threads, Pop(t) PROVE FlightInv'
  <1> DEFINE p == ProcessOf[t]
             h == req[t].host
             r == [req[t] EXCEPT !.pc = "wake"]
  <1>1. /\ req[t].pc = "pop" /\ UNCHANGED <<mode, cache, faults>>
        /\ req' = [req EXCEPT ![t] = r] /\ inflight' = [inflight EXCEPT ![p][h] = None]
    BY DEF Pop, Goto, Become
  <1>2. /\ r \in Requests /\ r.host = h /\ r.pc = "wake" /\ r.role = req[t].role
        /\ r.got = req[t].got /\ r.stop = req[t].stop
    BY TheRequest DEF Requests, Pcs
  <1> HIDE DEF r
  <1>3. p \in Processes /\ h \in Hosts /\ RequestKnows(req[t]) /\ req[t].role = "lead"
    BY <1>1, ResolveConstants, TheRequest DEF RequestKnows
  <1>4. RequestKnows(r) /\ Orderly(r, mode, faults)
    BY <1>1, <1>2, <1>3, TheRequest DEF RequestKnows, Orderly
  <1>5. ~Holding(r) /\ Leading(r) /\ Holding(req[t]) /\ Leading(req[t])
    BY <1>1, <1>2, <1>3 DEF Holding, Leading
  <1>6. DOMAIN req = Threads /\ Slots /\ CacheTruthful' /\ faults' \in 0 .. MaxFaults
    BY <1>1 DEF FlightInv, CacheTruthful
  <1>7. \A u \in Threads : req'[u] = IF u = t THEN r ELSE req[u]
    BY <1>1, <1>6
  <1>8. inflight' \in [Processes -> [Hosts -> Threads \cup {None}]]
        /\ \A q \in Processes, k \in Hosts :
             inflight'[q][k] = IF q = p /\ k = h THEN None ELSE inflight[q][k]
    BY SMT, <1>1, <1>3, <1>6 DEF Slots
  <1>9. inflight[p][h] = t
    BY <1>5, <1>6 DEF Slots
  <1>10. Slots'
    <2>1. \A q \in Processes, k \in Hosts : inflight'[q][k] # None =>
            /\ Holding(req'[inflight'[q][k]])
            /\ ProcessOf[inflight'[q][k]] = q
            /\ req'[inflight'[q][k]].host = k
      <3> SUFFICES ASSUME NEW q \in Processes, NEW k \in Hosts, inflight'[q][k] # None
                   PROVE  /\ Holding(req'[inflight'[q][k]])
                          /\ ProcessOf[inflight'[q][k]] = q
                          /\ req'[inflight'[q][k]].host = k
        OBVIOUS
      <3> DEFINE l == inflight[q][k]
      <3>1. inflight'[q][k] = l /\ l # None /\ ~(q = p /\ k = h)
        BY <1>8
      <3>2. l \in Threads /\ Holding(req[l]) /\ ProcessOf[l] = q /\ req[l].host = k
        BY SMT, <3>1, <1>6 DEF Slots
      <3>3. l # t
        BY <3>1, <3>2
      <3> QED BY <3>1, <3>2, <3>3, <1>7
    <2>2. \A u \in Threads : Holding(req'[u]) => inflight'[ProcessOf[u]][req'[u].host] = u
      <3> SUFFICES ASSUME NEW u \in Threads, Holding(req'[u])
                   PROVE  inflight'[ProcessOf[u]][req'[u].host] = u
        OBVIOUS
      <3>1. u # t /\ req'[u] = req[u]
        BY <1>5, <1>7
      <3>2. inflight[ProcessOf[u]][req[u].host] = u /\ ProcessOf[u] \in Processes
            /\ req[u].host \in Hosts
        BY SMT, <3>1, <1>6, ResolveConstants, TheRequest DEF Slots, Holding
      <3> QED BY SMT, <3>1, <3>2, <1>8, <1>9
    <2>3. \A f \in Threads : req'[f].pc = "wait" =>
            /\ req'[f].leader \in Threads
            /\ Leading(req'[req'[f].leader])
            /\ req'[req'[f].leader].host = req'[f].host
      <3>1. \A u \in Threads : /\ req'[u].host = req[u].host
                               /\ Leading(req[u]) => Leading(req'[u])
                               /\ req'[u].pc = "wait" => req'[u] = req[u]
        BY <1>2, <1>5, <1>7
      <3> QED BY SMT, <3>1, <1>6 DEF Slots
    <2> QED BY <1>8, <2>1, <2>2, <2>3 DEF Slots
  <1>11. \A u \in Threads : RequestKnows(req'[u]) /\ Orderly(req'[u], mode', faults')
    BY <1>1, <1>4, <1>7 DEF FlightInv
  <1> QED BY <1>1, <1>6, <1>10, <1>11 DEF FlightInv

\* The event is set: the leader and its followers go on with what the slot holds.
LEMMA WakeFlight ==
  ASSUME FlightInv, NEW t \in Threads, Wake(t) PROVE FlightInv'
  <1> DEFINE got == req[t].got
  <1>1. req[t].pc = "wake" /\ UNCHANGED <<mode, cache, inflight, faults>>
    BY DEF Wake
  <1>2. /\ RequestKnows(req[t]) /\ Orderly(req[t], mode, faults) /\ req[t].role = "lead"
        /\ ~Holding(req[t]) /\ Slots
    BY <1>1, TheRequest DEF RequestKnows, Holding, FlightInv
  <1>3. \A u \in Threads : req'[u] =
          IF u = t THEN IF got = "unset" THEN Answer(req[t], "aborted") ELSE Conclude(req[t], got)
          ELSE IF u \in Followers(t) THEN Shared(req[u], got) ELSE req[u]
    <2>1. t \notin Followers(t)
      BY <1>1 DEF Followers
    <2> QED BY <2>1 DEF Wake
  <1>4. /\ got = "tenant" => req[t].host \in Known
        /\ got = "absent" => req[t].host \notin Known
        /\ got = "unset" => req[t].stop
        /\ got \in {"tenant", "absent"} \/ mode = "off" \/ faults # 0
    BY <1>1, <1>2 DEF RequestKnows, Orderly
  <1>5. \A u \in Followers(t) : u \in Threads /\ req[u].pc = "wait" /\ req[u].host = req[t].host
    BY SMT, <1>2 DEF Followers, Slots
  <1>6. \A u \in Threads : u = t \/ u \in Followers(t) =>
          /\ RequestKnows(req'[u]) /\ Orderly(req'[u], mode, faults)
          /\ ~Holding(req'[u]) /\ ~Leading(req'[u]) /\ req'[u].pc # "wait"
    <2>1. /\ RequestKnows(req'[t]) /\ Orderly(req'[t], mode, faults)
          /\ ~Holding(req'[t]) /\ ~Leading(req'[t]) /\ req'[t].pc # "wait"
      <3>1. CASE got = "unset"
        BY SMT, <1>1, <1>2, <1>3, <1>4, <3>1, AnswerKnows
      <3>2. CASE got # "unset"
        <4>1. req'[t] = Conclude(req[t], got)
          BY <1>3, <3>2
        <4> HIDE DEF got
        <4> QED BY SMT, <1>1, <1>2, <1>4, <4>1, ConcludeKnows
      <3> QED BY <3>1, <3>2
    <2>2. ASSUME NEW u \in Followers(t), u # t
          PROVE  /\ RequestKnows(req'[u]) /\ Orderly(req'[u], mode, faults)
                 /\ ~Holding(req'[u]) /\ ~Leading(req'[u]) /\ req'[u].pc # "wait"
      <3>1. RequestKnows(req[u]) /\ req[u].pc # "idle" /\ req'[u] = Shared(req[u], got)
        BY <1>3, <1>5, <2>2, TheRequest
      <3>2. CASE got = "unset"
        BY <1>4, <3>1, <3>2, OwnKnows DEF Shared
      <3>3. CASE got # "unset"
        BY SMT, <1>4, <1>5, <3>1, <3>3, ConcludeKnows DEF Shared
      <3> QED BY <3>2, <3>3
    <2> QED BY <2>1, <2>2
  <1>7. \A u \in Threads : u # t /\ u \notin Followers(t) => req'[u] = req[u]
    BY <1>3
  <1>8. \A u \in Threads : Holding(req[u]) \/ (Leading(req[u]) /\ u # t) => req'[u] = req[u]
    BY <1>2, <1>5, <1>7 DEF Holding, Leading
  <1>9. \A u \in Threads : Holding(req'[u]) => req'[u] = req[u]
    BY <1>6, <1>7
  <1>10. \A f \in Threads : req'[f].pc = "wait" =>
           /\ req'[f] = req[f] /\ req[f].leader # t
    BY <1>6, <1>7 DEF Followers
  <1>11. Slots'
    <2>1. \A f \in Threads : req'[f].pc = "wait" =>
            /\ req'[f].leader \in Threads
            /\ Leading(req'[req'[f].leader])
            /\ req'[req'[f].leader].host = req'[f].host
      <3> SUFFICES ASSUME NEW f \in Threads, req'[f].pc = "wait"
                   PROVE  /\ req'[f].leader \in Threads
                          /\ Leading(req'[req'[f].leader])
                          /\ req'[req'[f].leader].host = req'[f].host
        OBVIOUS
      <3>1. req'[f] = req[f] /\ req[f].leader # t
        BY <1>10
      <3>2. req[f].leader \in Threads /\ Leading(req[req[f].leader])
            /\ req[req[f].leader].host = req[f].host
        BY SMT, <1>2, <3>1 DEF Slots
      <3>3. req'[req[f].leader] = req[req[f].leader]
        BY <1>8, <3>1, <3>2
      <3> QED BY <3>1, <3>2, <3>3
    <2>2. inflight' = inflight /\ inflight \in [Processes -> [Hosts -> Threads \cup {None}]]
      BY <1>1, <1>2 DEF Slots
    <2>3. ASSUME NEW p \in Processes, NEW h \in Hosts, inflight[p][h] # None
          PROVE  /\ Holding(req'[inflight[p][h]])
                 /\ ProcessOf[inflight[p][h]] = p
                 /\ req'[inflight[p][h]].host = h
      <3>1. inflight[p][h] \in Threads
        BY <2>2, <2>3
      <3>2. /\ Holding(req[inflight[p][h]]) /\ ProcessOf[inflight[p][h]] = p
            /\ req[inflight[p][h]].host = h
        BY SMT, <1>2, <2>3 DEF Slots
      <3> QED BY <1>8, <3>1, <3>2
    <2>4. ASSUME NEW u \in Threads, Holding(req'[u])
          PROVE  inflight[ProcessOf[u]][req'[u].host] = u
      BY SMT, <1>2, <1>9, <2>4 DEF Slots
    <2> QED BY SMT, <2>1, <2>2, <2>3, <2>4 DEF Slots
  <1>12. \A u \in Threads : RequestKnows(req'[u]) /\ Orderly(req'[u], mode', faults')
    BY <1>1, <1>6, <1>7 DEF FlightInv
  <1>13. DOMAIN req' = Threads
    BY DEF Wake
  <1> QED BY <1>1, <1>11, <1>12, <1>13 DEF FlightInv, CacheTruthful

\* Steps that leave requests, slots and faults alone.
LEMMA RestFlight ==
  ASSUME FlightInv, UNCHANGED <<mode, req, inflight, faults>>, CacheTruthful'
  PROVE  FlightInv'
  BY SMT DEF FlightInv, Slots

\* The answer has been used.
LEMMA DoneFlight ==
  ASSUME FlightInv, NEW t \in Threads, Answered(t), Done(t), UNCHANGED ResolveRest
  PROVE  FlightInv'
  <1>1. RequestKnows(Quiet) /\ Orderly(Quiet, mode, faults) /\ ~Holding(Quiet) /\ ~Leading(Quiet)
        /\ Quiet.pc # "wait"
    BY DEF RequestKnows, Requests, Pcs, Gots, Orderly, Holding, Leading, Quiet, Request
  <1>2. ~Holding(req[t]) /\ ~Leading(req[t]) /\ req' = [req EXCEPT ![t] = Quiet]
    BY DEF Holding, Leading, Answered, Done
  <1>3. UNCHANGED <<mode, cache, inflight, faults>>
    BY DEF ResolveRest
  <1>4. CacheTruthful' /\ faults' \in 0 .. MaxFaults /\ faults' >= faults
    BY SMT, <1>3, TheRequest DEF CacheTruthful
  <1> QED BY <1>1, <1>2, <1>3, <1>4, Moves

\* Every step keeps the invariant.
LEMMA FlightNext == FlightInv /\ [Next]_vars => FlightInv'
  <1> SUFFICES ASSUME FlightInv, [Next]_vars PROVE FlightInv'
    OBVIOUS
  <1>0. CacheTruthful
    BY DEF FlightInv
  <1>1. ASSUME NEW t \in Threads, NEW h \in Hosts, Receive(t, h) PROVE FlightInv'
    BY <1>1, ArriveFlight DEF Receive
  <1>2. ASSUME NEW t \in Threads, Resolving(t) PROVE FlightInv'
    <2>1. CASE CounterAllow(t)
      BY <2>1, DecideFlight DEF CounterAllow, Decide
    <2>2. CASE LocalAllow(t)
      BY <2>2, DecideFlight DEF LocalAllow, Decide
    <2> QED
      BY <1>2, <2>1, <2>2, LookupFlight, LookupFailsFlight, GateFlight, JoinFlight, QueryFlight,
         QueryFailsFlight, StoreFlight, PopFlight, WakeFlight, WaitTimeoutFlight, StoppedFlight
        DEF Resolving, ResolveStep
  <1>3. ASSUME NEW t \in Threads, Found(t) \/ NotServed(t) PROVE FlightInv'
    BY <1>3, DoneFlight DEF Found, NotServed
  <1>4. CASE UNCHANGED resolveVars
    BY <1>0, <1>4, RestFlight DEF resolveVars, CacheTruthful
  <1>5. ASSUME NEW h \in Hosts, Evict(h) PROVE FlightInv'
    BY <1>0, <1>5, RestFlight DEF Evict, CacheTruthful
  <1>6. CASE Tick
    BY <1>0, <1>6, RestFlight DEF Tick, CacheTruthful
  <1>7. ASSUME NEW t \in Threads, Serving(t) PROVE FlightInv'
    BY <1>4, <1>7 DEF Serving
  <1>8. CASE UNCHANGED vars
    BY <1>4, <1>8 DEF vars
  <1> QED BY <1>1, <1>2, <1>3, <1>5, <1>6, <1>7, <1>8 DEF Next

---------------------------------------------------------------------------
(* The fill cap *)

BudgetInv ==
  /\ now \in Nat /\ probe \in Nat
  /\ granted \in [counter : Nat, local : [Processes -> Nat]]
  /\ granted.counter <= probe /\ granted.counter <= FILLCAP_PER_SEC
  /\ bucket \in [Processes -> [tokens : Nat, ts : Nat]]
  /\ \A p \in Processes :
       /\ bucket[p].ts <= now
       /\ granted.local[p] + bucket[p].tokens <= FILLCAP_LOCAL_PER_SEC * bucket[p].ts

\* A counter of the second admits what it counts, up to the limit.
LEMMA CounterBudget ==
  ASSUME BudgetInv, NEW t \in Threads, CounterAllow(t) PROVE BudgetInv'
  <1>1. FILLCAP_PER_SEC \in Nat /\ probe \in Nat /\ granted.counter \in Nat
    BY ResolveConstants DEF BudgetInv
  <1>2. probe' = Min({probe + 1, FILLCAP_PER_SEC + 1}) /\ UNCHANGED <<now, bucket>>
    BY DEF CounterAllow
  <1>3. probe' \in {probe + 1, FILLCAP_PER_SEC + 1} /\ probe' <= FILLCAP_PER_SEC + 1
    <2>1. probe + 1 \in Int /\ FILLCAP_PER_SEC + 1 \in Int
      BY SMT, <1>1
    <2> QED BY <1>2, <2>1, MinOfTwo
  <1>4. granted' = [granted EXCEPT !.counter =
                      @ + IF probe' <= FILLCAP_PER_SEC THEN 1 ELSE 0]
    BY DEF CounterAllow
  <1>5. /\ granted' \in [counter : Nat, local : [Processes -> Nat]]
        /\ granted'.local = granted.local
        /\ granted'.counter = granted.counter + IF probe' <= FILLCAP_PER_SEC THEN 1 ELSE 0
    BY SMT, <1>1, <1>4 DEF BudgetInv
  <1>6. probe' \in Nat /\ granted'.counter <= probe' /\ granted'.counter <= FILLCAP_PER_SEC
    <2>1. CASE probe' <= FILLCAP_PER_SEC
      BY SMT, <1>1, <1>3, <1>5, <2>1 DEF BudgetInv
    <2>2. CASE ~(probe' <= FILLCAP_PER_SEC)
      BY SMT, <1>1, <1>3, <1>5, <2>2 DEF BudgetInv
    <2> QED BY <2>1, <2>2
  <1> QED BY <1>2, <1>5, <1>6 DEF BudgetInv

\* A bucket holds and has given no more than its rate since it was made.
LEMMA LocalBudget ==
  ASSUME BudgetInv, NEW t \in Threads, LocalAllow(t) PROVE BudgetInv'
  <1> DEFINE p == ProcessOf[t]
             R == FILLCAP_LOCAL_PER_SEC
             cap == Max({1, R})
             sum == bucket[p].tokens + (now - bucket[p].ts) * R
             tokens == Min({cap, sum})
             taken == IF tokens >= 1 THEN 1 ELSE 0
  <1>1. /\ p \in Processes /\ R \in Nat /\ now \in Nat
        /\ bucket[p] \in [tokens : Nat, ts : Nat] /\ bucket[p].ts <= now
        /\ granted.local[p] \in Nat
        /\ granted.local[p] + bucket[p].tokens <= R * bucket[p].ts
    BY ResolveConstants DEF BudgetInv
  <1>2. cap \in Nat
    <2>1. CASE 1 >= R
      BY SMT, <1>1, <2>1 DEF Max
    <2>2. CASE R >= 1
      BY SMT, <1>1, <2>2 DEF Max
    <2> QED BY SMT, <1>1, <2>1, <2>2
  <1>3. sum \in Nat
    <2>1. now - bucket[p].ts \in Nat
      BY SMT, <1>1
    <2>2. (now - bucket[p].ts) * R \in Nat
      BY SMT, <1>1, <2>1
    <2> QED BY SMT, <1>1, <2>2
  <1>4. granted.local[p] + sum <= R * now
    <2>1. (now - bucket[p].ts) * R = R * now - R * bucket[p].ts
      BY SMT, <1>1
    <2>2. R * now \in Int /\ R * bucket[p].ts \in Int
      BY SMT, <1>1
    <2> QED BY SMT, <1>1, <2>1, <2>2
  <1> HIDE DEF cap, sum
  <1>5. tokens \in Nat /\ tokens <= sum
    BY SMT, <1>2, <1>3, MinOfTwo
  <1>6. /\ bucket' = [bucket EXCEPT ![p] = [tokens |-> tokens - taken, ts |-> now]]
        /\ granted' = [granted EXCEPT !.local[p] = @ + taken]
        /\ UNCHANGED <<now, probe>>
    BY DEF LocalAllow, cap, sum
  <1> HIDE DEF tokens
  <1>7. taken \in {0, 1} /\ tokens - taken \in Nat
    BY SMT, <1>5
  <1> HIDE DEF taken
  <1>8. /\ bucket' \in [Processes -> [tokens : Nat, ts : Nat]]
        /\ granted' \in [counter : Nat, local : [Processes -> Nat]]
        /\ granted'.counter = granted.counter
        /\ bucket'[p].tokens = tokens - taken /\ bucket'[p].ts = now
        /\ granted'.local[p] = granted.local[p] + taken
        /\ \A q \in Processes \ {p} :
             bucket'[q] = bucket[q] /\ granted'.local[q] = granted.local[q]
    <2>1. /\ bucket' \in [Processes -> [tokens : Nat, ts : Nat]]
          /\ bucket'[p].tokens = tokens - taken /\ bucket'[p].ts = now
          /\ \A q \in Processes \ {p} : bucket'[q] = bucket[q]
      BY <1>1, <1>6, <1>7 DEF BudgetInv
    <2>2. /\ granted.counter \in Nat /\ granted.local \in [Processes -> Nat]
          /\ granted' = [counter |-> granted.counter,
                         local |-> [granted.local EXCEPT ![p] = @ + taken]]
      BY <1>6 DEF BudgetInv
    <2> QED BY SMT, <1>1, <1>7, <2>1, <2>2
  <1>9. \A q \in Processes :
          /\ bucket'[q].ts <= now
          /\ granted'.local[q] + bucket'[q].tokens <= R * bucket'[q].ts
    <2>1. granted'.local[p] + bucket'[p].tokens <= R * now
      <3>1. R * now \in Int
        BY SMT, <1>1
      <3> QED BY SMT, <1>1, <1>3, <1>4, <1>5, <1>7, <1>8, <3>1
    <2>2. \A q \in Processes \ {p} :
            /\ bucket[q].ts <= now
            /\ granted.local[q] + bucket[q].tokens <= R * bucket[q].ts
      BY DEF BudgetInv
    <2>3. now <= now
      BY SMT, <1>1
    <2> QED BY <1>8, <2>1, <2>2, <2>3
  <1> QED BY <1>6, <1>8, <1>9 DEF BudgetInv

\* Only the fill cap and the clock move the budget.
LEMMA BudgetNext == BudgetInv /\ [Next]_vars => BudgetInv'
  <1> SUFFICES ASSUME BudgetInv, [Next]_vars PROVE BudgetInv'
    OBVIOUS
  <1>1. CASE UNCHANGED <<now, probe, bucket, granted>>
    BY <1>1 DEF BudgetInv
  <1>2. CASE Tick
    <2>1. /\ now \in Nat /\ now' = now + 1 /\ probe' = 0 /\ bucket' = bucket
          /\ granted' = [granted EXCEPT !.counter = 0]
      BY <1>2 DEF Tick, BudgetInv
    <2>2. /\ granted' \in [counter : Nat, local : [Processes -> Nat]]
          /\ granted'.counter = 0 /\ granted'.local = granted.local
      BY <2>1 DEF BudgetInv
    <2>3. 0 <= FILLCAP_PER_SEC
      BY SMT, ResolveConstants
    <2>4. \A p \in Processes : bucket[p].ts <= now'
      BY SMT, <2>1 DEF BudgetInv
    <2> QED BY SMT, <2>1, <2>2, <2>3, <2>4 DEF BudgetInv
  <1>3. ASSUME NEW t \in Threads, Resolving(t) PROVE BudgetInv'
    BY <1>1, <1>3, CounterBudget, LocalBudget
      DEF Resolving, ResolveStep, Lookup, LookupFails, Gate, Join, Query, QueryFails, Store,
          StoreFails, Pop, Wake, WaitTimeout, Stopped
  <1> QED
    BY <1>1, <1>2, <1>3
      DEF Next, vars, resolveVars, Receive, Arrive, Found, NotServed, ResolveRest, Serving, Evict

---------------------------------------------------------------------------
(* The theorems *)

\* What is known of the requests, the slots and the cache holds in every
\* reachable state.
THEOREM Flight == Spec => []FlightInv
  BY FlightInit, FlightNext, PTL DEF Spec

\* "Not found" is said only of hosts without a Domain row, however the database,
\* Redis or another thread fails meanwhile.
THEOREM AnswersHonest == Spec => []HonestAnswer
  <1>1. FlightInv => HonestAnswer
    BY DEF FlightInv, RequestKnows, HonestAnswer
  <1> QED BY <1>1, Flight, PTL

\* single_flight lets one thread of a process ask the database for a host.
THEOREM OneFlight == Spec => []Coalesced
  <1>1. FlightInv => Coalesced
    <2> SUFFICES ASSUME FlightInv, NEW p \in Processes, NEW h \in Hosts,
                        NEW t \in Threads, ProcessOf[t] = p, req[t].host = h, Querying(t)
                 PROVE  Leads(t) \/ (mode # "off" /\ faults = 0) => t = inflight[p][h]
      BY DEF Coalesced
    <2>1. Leads(t) => t = inflight[p][h]
      BY SMT DEF FlightInv, Slots, Holding, Querying, Leads
    <2>2. mode # "off" /\ faults = 0 => Leads(t)
      BY DEF FlightInv, Orderly, Querying, Leads
    <2> QED BY <2>1, <2>2
  <1> QED BY <1>1, Flight, PTL

\* The database is asked no more often than the budgets of the cluster and of
\* each process allow.
THEOREM Budget == Spec => []BudgetKept
  <1>1. Init => BudgetInv
    BY SMT, ResolveConstants DEF Init, ResolveInit, BudgetInv
  <1>2. BudgetInv => BudgetKept
    <2> SUFFICES ASSUME BudgetInv, NEW p \in Processes
                 PROVE  granted.local[p] <= FILLCAP_LOCAL_PER_SEC * now
      BY DEF BudgetInv, BudgetKept
    <2> DEFINE R == FILLCAP_LOCAL_PER_SEC
               s == bucket[p].ts
    <2>1. /\ R \in Nat /\ now \in Nat /\ s \in Nat /\ s <= now /\ bucket[p].tokens \in Nat
          /\ granted.local[p] \in Nat
          /\ granted.local[p] + bucket[p].tokens <= R * s
      BY ResolveConstants DEF BudgetInv
    <2> HIDE DEF s
    <2>2. R * s <= R * now /\ R * s \in Nat /\ R * now \in Nat
      <3>1. now - s \in Nat /\ R * (now - s) \in Nat
        BY SMT, <2>1
      <3>2. R * now = R * s + R * (now - s)
        BY SMT, <2>1
      <3>3. R * s \in Nat /\ R * now \in Nat
        BY SMT, <2>1
      <3> QED BY SMT, <3>1, <3>2, <3>3
    <2> QED BY SMT, <2>1, <2>2
  <1> QED BY <1>1, <1>2, BudgetNext, PTL DEF Spec

---------------------------------------------------------------------------
(* A stack of frames *)

FrameSet ==
  [on : Aliases, to : Schemas \cup {None}, prev : Schemas \cup {None},
   token : Aliases \cup {None}, free : BOOLEAN]

\* s is the schema of the innermost of the first n frames over a, or the base
\* when none of them is over a.
Innermost(fr, n, a, s, base) ==
  \/ \E j \in 1 .. n : /\ Switches(fr[j], a) /\ s = fr[j].to
                       /\ \A k \in 1 .. n : k > j => ~Switches(fr[k], a)
  \/ (\A j \in 1 .. n : ~Switches(fr[j], a)) /\ s = base

BaseOf(ph, srv, a) == IF a = "default" /\ ph \in {"gate", "view"} THEN srv ELSE Public

\* Every frame remembers what was there before it.
Remembers(fr, ph, srv) ==
  \A i \in 1 .. Len(fr) :
    /\ fr[i].token = IF i = 1 THEN None ELSE fr[i - 1].on
    /\ fr[i].to # None =>
         Innermost(fr, i - 1, fr[i].on, fr[i].prev, BaseOf(ph, srv, fr[i].on))

\* A frame without an override is over a tenant's own shard, or over default for
\* public.
Own(f, ph, srv) ==
  \/ f.to \in Tenants /\ f.on = Home[f.to]
  \/ f.to = Public /\ f.on = "default"
  \/ f.to = None /\ f.on = "default" /\ (ph = "view" => srv = Public)

\* The context a view runs in.
Routed(f, srv) ==
  IF srv = Public THEN f.on = "default" /\ f.to = None
  ELSE f.on = Home[srv] /\ f.to = srv

\* What is known of a thread (web or not) with its phase, tenant, current_db,
\* schemas and frames.
Knows(t, ph, srv, d, sch, fr) ==
  /\ fr \in Seq(FrameSet)
  /\ sch \in [Aliases -> Schemas]
  /\ ph \in {"idle", "resolving", "gate", "view", "task"}
  /\ ph \in {"resolving", "gate", "view"} => t \in Web
  /\ ph = "task" => t \notin Web
  /\ ph \in {"gate", "view"} => srv \in Schemas
  /\ Len(fr) = 0 <=> ph \in {"idle", "resolving", "gate"}
  /\ d = IF Len(fr) = 0 THEN None ELSE fr[Len(fr)].on
  /\ Remembers(fr, ph, srv)
  /\ \A i \in 1 .. Len(fr) : fr[i].free \/ Own(fr[i], ph, srv)
  /\ ph = "view" => Routed(fr[1], srv)
  /\ \A a \in Aliases : Innermost(fr, Len(fr), a, sch[a], BaseOf(ph, srv, a))
                        \/ (a = "default" /\ t \in Web /\ ph = "idle")

\* A thread outside of all contexts: its shards are on public, and default is on
\* what django-tenants put there.
LEMMA BareThread ==
  ASSUME NEW t, NEW ph \in {"idle", "resolving", "gate"}, ph # "idle" => t \in Web,
         NEW srv, ph = "gate" => srv \in Schemas,
         NEW sch \in [Aliases -> Schemas], NEW fr \in Seq(FrameSet), Len(fr) = 0,
         \A a \in Aliases : a # "default" \/ t \notin Web => sch[a] = Public,
         ph = "resolving" => sch["default"] = Public, ph = "gate" => sch["default"] = srv
  PROVE  Knows(t, ph, srv, None, sch, fr)
  <1>1. Remembers(fr, ph, srv)
    BY SMT DEF Remembers
  <1>2. \A a \in Aliases : Innermost(fr, 0, a, sch[a], BaseOf(ph, srv, a))
                           \/ (a = "default" /\ t \in Web /\ ph = "idle")
    BY SMT DEF Innermost, BaseOf
  <1> QED BY SMT, <1>1, <1>2 DEF Knows

\* ... and conversely.
LEMMA BareKnown ==
  ASSUME NEW t, NEW ph \in {"idle", "resolving", "gate"}, NEW srv, NEW d, NEW sch, NEW fr,
         Knows(t, ph, srv, d, sch, fr)
  PROVE  /\ sch \in [Aliases -> Schemas] /\ fr \in Seq(FrameSet) /\ Len(fr) = 0 /\ d = None
         /\ \A a \in Aliases : a # "default" \/ t \notin Web => sch[a] = Public
         /\ ph # "idle" => t \in Web
  <1>1. /\ sch \in [Aliases -> Schemas] /\ fr \in Seq(FrameSet) /\ Len(fr) = 0 /\ d = None
        /\ ph # "idle" => t \in Web
    BY DEF Knows
  <1>2. \A a \in Aliases : a # "default" \/ t \notin Web => Innermost(fr, 0, a, sch[a], Public)
    BY <1>1 DEF Knows, BaseOf
  <1> QED BY SMT, <1>1, <1>2 DEF Innermost

\* Entering a context pushes a frame that remembers both axes.
LEMMA Push ==
  ASSUME NEW t, NEW ph, NEW srv, NEW d, NEW sch, NEW fr, Knows(t, ph, srv, d, sch, fr),
         NEW ph2, \/ ph2 = ph /\ ph \in {"view", "task"}
                  \/ ph = "gate" /\ ph2 = "view"
                  \/ ph = "idle" /\ ph2 = "task" /\ t \notin Web,
         NEW f \in FrameSet, f.token = d, f.free \/ Own(f, ph2, srv),
         ph = "gate" => Routed(f, srv),
         NEW sch2, f.to = None => sch2 = sch,
         f.to # None => f.prev = sch[f.on] /\ sch2 = [sch EXCEPT ![f.on] = f.to]
  PROVE  Knows(t, ph2, srv, f.on, sch2, Append(fr, f))
  <1> DEFINE fr2 == Append(fr, f)
             n == Len(fr)
  <1>1. fr \in Seq(FrameSet) /\ sch \in [Aliases -> Schemas] /\ n \in Nat
    BY SMT DEF Knows
  <1>2. /\ fr2 \in Seq(FrameSet) /\ Len(fr2) = n + 1 /\ fr2[n + 1] = f
        /\ \A i \in 1 .. n : fr2[i] = fr[i]
    BY SMT, <1>1
  <1>3. f.on \in Aliases /\ f.to \in Schemas \cup {None}
    BY DEF FrameSet
  <1> HIDE DEF fr2
  <1>4. \A a : BaseOf(ph2, srv, a) = BaseOf(ph, srv, a)
    BY DEF BaseOf
  <1>5. ASSUME NEW m \in 0 .. n, NEW a, NEW s, NEW b, Innermost(fr, m, a, s, b)
        PROVE  Innermost(fr2, m, a, s, b)
    <2>1. \A j \in 1 .. m : fr2[j] = fr[j]
      BY SMT, <1>1, <1>2
    <2> QED BY <1>5, <2>1 DEF Innermost
  <1>6. \A a \in Aliases : Innermost(fr, n, a, sch[a], BaseOf(ph, srv, a))
    BY DEF Knows
  <1>7. Remembers(fr2, ph2, srv)
    <2> SUFFICES ASSUME NEW i \in 1 .. n + 1
                 PROVE  /\ fr2[i].token = IF i = 1 THEN None ELSE fr2[i - 1].on
                        /\ fr2[i].to # None =>
                             Innermost(fr2, i - 1, fr2[i].on, fr2[i].prev,
                                       BaseOf(ph2, srv, fr2[i].on))
      BY <1>2 DEF Remembers
    <2>1. CASE i = n + 1
      <3>1. f.token = IF i = 1 THEN None ELSE fr2[i - 1].on
        BY SMT, <1>1, <1>2, <2>1 DEF Knows
      <3>2. f.to # None => Innermost(fr2, n, f.on, f.prev, BaseOf(ph2, srv, f.on))
        BY SMT, <1>1, <1>3, <1>4, <1>5, <1>6
      <3> QED BY SMT, <1>1, <1>2, <2>1, <3>1, <3>2
    <2>2. CASE i \in 1 .. n
      <3>1. /\ fr[i].token = IF i = 1 THEN None ELSE fr[i - 1].on
            /\ fr[i].to # None =>
                 Innermost(fr, i - 1, fr[i].on, fr[i].prev, BaseOf(ph, srv, fr[i].on))
        BY <2>2 DEF Knows, Remembers
      <3>2. i - 1 \in 0 .. n /\ (i # 1 => i - 1 \in 1 .. n)
        BY SMT, <1>1, <2>2
      <3> QED BY SMT, <1>2, <1>4, <1>5, <2>2, <3>1, <3>2
    <2> QED BY SMT, <1>1, <2>1, <2>2
  <1>8. \A a \in Aliases : Innermost(fr2, n + 1, a, sch2[a], BaseOf(ph2, srv, a))
    <2> SUFFICES ASSUME NEW a \in Aliases
                 PROVE  Innermost(fr2, n + 1, a, sch2[a], BaseOf(ph2, srv, a))
      OBVIOUS
    <2>1. CASE Switches(f, a)
      <3>1. sch2[a] = f.to
        BY <1>1, <2>1 DEF Switches
      <3> QED BY SMT, <1>1, <1>2, <2>1, <3>1 DEF Innermost
    <2>2. CASE ~Switches(f, a)
      <3>1. sch2[a] = sch[a]
        BY <1>1, <1>3, <2>2 DEF Switches
      <3>2. Innermost(fr2, n, a, sch2[a], BaseOf(ph2, srv, a))
        BY SMT, <1>1, <1>4, <1>5, <1>6, <3>1
      <3> QED BY SMT, <1>1, <1>2, <2>2, <3>2 DEF Innermost
    <2> QED BY <2>1, <2>2
  <1>9. \A i \in 1 .. n + 1 : fr2[i].free \/ Own(fr2[i], ph2, srv)
    <2>1. ph2 = "view" => ph = "view" \/ n = 0
      BY DEF Knows
    <2>2. \A i \in 1 .. n : fr[i].free \/ Own(fr[i], ph2, srv)
      BY SMT, <2>1, <1>1 DEF Knows, Own
    <2> QED BY SMT, <1>1, <1>2, <2>2
  <1>10. ph2 = "view" => Routed(fr2[1], srv)
    BY SMT, <1>1, <1>2 DEF Knows
  <1>11. sch2 \in [Aliases -> Schemas]
    BY <1>1, <1>3
  <1>12. /\ ph2 \in {"view", "task"} /\ (ph2 = "view" => t \in Web /\ srv \in Schemas)
         /\ (ph2 = "task" => t \notin Web)
    BY DEF Knows
  <1> QED BY SMT, <1>1, <1>2, <1>7, <1>8, <1>9, <1>10, <1>11, <1>12 DEF Knows, fr2

\* What leaving the innermost frame puts back.
Back(sch, f) == IF f.to = None THEN sch ELSE [sch EXCEPT ![f.on] = f.prev]
Left(ph, sch, fr) ==
  LET f == fr[Len(fr)]
  IN IF ph = "view" /\ Len(fr) = 1 /\ f.to # None THEN [Back(sch, f) EXCEPT ![f.on] = Public]
     ELSE Back(sch, f)

\* What is left of a stack whose innermost frame is popped.
LEMMA OuterOf ==
  ASSUME NEW S, NEW fr \in Seq(S), Len(fr) # 0
  PROVE  /\ Outer(fr) \in Seq(S) /\ Len(Outer(fr)) = Len(fr) - 1
         /\ \A i \in 1 .. Len(fr) - 1 : Outer(fr)[i] = fr[i]
  <1> DEFINE n == Len(fr) - 1
             g == Outer(fr)
  <1>1. n \in Nat /\ \A i \in 1 .. n : fr[i] \in S
    BY SMT
  <1>2. g = [i \in 1 .. n |-> fr[i]]
    BY SMT, <1>1 DEF Outer
  <1>3. g \in [1 .. n -> S]
    BY SMT, <1>1, <1>2
  <1> HIDE DEF g, n
  <1>4. g \in Seq(S) /\ DOMAIN g = 1 .. n
    BY SMT, <1>1, <1>3
  <1>5. Len(g) = n
    BY SMT, <1>1, <1>4
  <1> QED BY SMT, <1>2, <1>4, <1>5 DEF g, n

\* Leaving a context pops its frame and restores what the frame remembers.
LEMMA Unwind ==
  ASSUME NEW t, NEW ph, NEW srv, NEW d, NEW sch, NEW fr, Knows(t, ph, srv, d, sch, fr),
         Len(fr) # 0
  PROVE  /\ Len(fr) # 1 => Knows(t, ph, srv, fr[Len(fr)].token, Left(ph, sch, fr), Outer(fr))
         /\ Len(fr) = 1 => Knows(t, "idle", None, fr[Len(fr)].token, Left(ph, sch, fr), Outer(fr))
  <1> DEFINE fr2 == Outer(fr)
             n == Len(fr)
             f == fr[n]
             back == Back(sch, f)
             sch2 == Left(ph, sch, fr)
  <1>0. fr \in Seq(FrameSet) /\ n \in Nat \ {0}
    BY SMT DEF Knows
  <1>1. /\ sch \in [Aliases -> Schemas] /\ ph \in {"view", "task"}
        /\ f \in FrameSet /\ f.on \in Aliases
    <2>1. f \in FrameSet
      BY SMT, <1>0
    <2>2. f.on \in Aliases
      BY <2>1 DEF FrameSet
    <2> QED BY <2>1, <2>2 DEF Knows
  <1>2. /\ fr2 \in Seq(FrameSet) /\ Len(fr2) = n - 1
        /\ \A i \in 1 .. n - 1 : fr2[i] = fr[i] /\ fr[i] \in FrameSet
    <2>1. \A i \in 1 .. n - 1 : fr[i] \in FrameSet
      BY SMT, <1>0
    <2> QED BY SMT, <1>0, <2>1, OuterOf
  <1> HIDE DEF fr2, f, back, sch2
  <1>3. ASSUME NEW m \in 0 .. n - 1, NEW a, NEW s, NEW b, Innermost(fr, m, a, s, b)
        PROVE  Innermost(fr2, m, a, s, b)
    <2>1. \A i \in 1 .. m : fr2[i] = fr[i]
      BY SMT, <1>0, <1>2
    <2> QED BY <1>3, <2>1 DEF Innermost
  <1>4. \A a \in Aliases : Innermost(fr, n, a, sch[a], BaseOf(ph, srv, a))
    BY <1>1 DEF Knows
  <1>5. /\ f.token = IF n = 1 THEN None ELSE fr[n - 1].on
        /\ f.to # None => Innermost(fr, n - 1, f.on, f.prev, BaseOf(ph, srv, f.on))
    <2>1. n \in 1 .. Len(fr)
      BY SMT, <1>0
    <2> QED BY <2>1 DEF Knows, Remembers, f
  <1>6. BaseOf(ph, srv, f.on) \in Schemas
    BY <1>1 DEF Knows, BaseOf, Schemas
  <1>7. f.to # None => f.prev \in Schemas
    <2> SUFFICES ASSUME f.to # None PROVE f.prev \in Schemas
      OBVIOUS
    <2>1. CASE f.prev = BaseOf(ph, srv, f.on)
      BY <1>6, <2>1
    <2>2. CASE \E j \in 1 .. n - 1 : Switches(fr[j], f.on) /\ f.prev = fr[j].to
      BY <1>2, <2>2 DEF Switches, FrameSet
    <2> QED BY <1>5, <2>1, <2>2 DEF Innermost
  <1>8. back \in [Aliases -> Schemas] /\ sch2 \in [Aliases -> Schemas]
    <2>1. back \in [Aliases -> Schemas]
      BY <1>1, <1>7 DEF back, Back
    <2> QED BY <1>1, <2>1 DEF Schemas, sch2, Left, back, f
  <1>9. \A a \in Aliases : Innermost(fr, n - 1, a, back[a], BaseOf(ph, srv, a))
    <2> SUFFICES ASSUME NEW a \in Aliases
                 PROVE  Innermost(fr, n - 1, a, back[a], BaseOf(ph, srv, a))
      OBVIOUS
    <2>1. CASE Switches(f, a)
      BY <1>1, <1>5, <2>1 DEF Switches, back, Back
    <2>2. CASE ~Switches(f, a)
      <3>1. back[a] = sch[a]
        BY <1>1, <2>2 DEF Switches, back, Back
      <3>2. Innermost(fr, n, a, back[a], BaseOf(ph, srv, a))
        BY <1>4, <3>1
      <3> QED BY SMT, <1>0, <2>2, <3>2 DEF Innermost, f
    <2> QED BY <2>1, <2>2
  <1>10. CASE n # 1
    <2>1. sch2 = back /\ n - 1 \in Nat \ {0} /\ n - 1 \in 0 .. n - 1
      BY SMT, <1>0, <1>10 DEF sch2, Left, back, f
    <2>2. Remembers(fr2, ph, srv)
      <3> SUFFICES ASSUME NEW i \in 1 .. n - 1
                   PROVE  /\ fr2[i].token = IF i = 1 THEN None ELSE fr2[i - 1].on
                          /\ fr2[i].to # None =>
                               Innermost(fr2, i - 1, fr2[i].on, fr2[i].prev,
                                         BaseOf(ph, srv, fr2[i].on))
        BY <1>2 DEF Remembers
      <3>1. /\ fr[i].token = IF i = 1 THEN None ELSE fr[i - 1].on
            /\ fr[i].to # None =>
                 Innermost(fr, i - 1, fr[i].on, fr[i].prev, BaseOf(ph, srv, fr[i].on))
        <4>1. i \in 1 .. Len(fr)
          BY SMT, <1>0
        <4> QED BY <4>1 DEF Knows, Remembers
      <3> HIDE DEF n
      <3>2. i - 1 \in 0 .. n - 1 /\ (i # 1 => i - 1 \in 1 .. n - 1)
        BY SMT, <1>0
      <3> QED BY <1>2, <1>3, <3>1, <3>2
    <2>3. \A a \in Aliases : Innermost(fr2, n - 1, a, sch2[a], BaseOf(ph, srv, a))
      BY <1>3, <1>9, <2>1
    <2>4. \A i \in 1 .. n - 1 : fr2[i].free \/ Own(fr2[i], ph, srv)
      BY SMT, <1>0, <1>2 DEF Knows
    <2>5. ph = "view" => Routed(fr2[1], srv)
      BY SMT, <1>2, <2>1 DEF Knows
    <2>6. f.token = fr2[n - 1].on
      BY SMT, <1>2, <1>5, <1>10, <2>1
    <2>7. Knows(t, ph, srv, f.token, sch2, fr2)
      BY <1>1, <1>2, <1>8, <2>1, <2>2, <2>3, <2>4, <2>5, <2>6 DEF Knows
    <2> QED BY <1>10, <2>7 DEF f, sch2, fr2
  <1>11. CASE n = 1
    <2>1. Len(fr2) = 0 /\ f.token = None
      BY SMT, <1>2, <1>5, <1>11
    <2>2. \A a \in Aliases : a # "default" \/ t \notin Web => sch2[a] = Public
      <3> SUFFICES ASSUME NEW a \in Aliases, a # "default" \/ t \notin Web PROVE sch2[a] = Public
        OBVIOUS
      <3>1. ph = "view" => t \in Web
        BY DEF Knows
      <3>2. BaseOf(ph, srv, a) = Public
        BY <1>1, <3>1 DEF BaseOf
      <3>3. back[a] = Public
        BY SMT, <1>9, <1>11, <3>2 DEF Innermost
      <3> QED BY <1>1, <1>8, <3>3 DEF sch2, Left, back, f
    <2>3. Knows(t, "idle", None, f.token, sch2, fr2)
      BY <1>2, <1>8, <2>1, <2>2, BareThread
    <2> QED BY <1>11, <2>3 DEF f, sch2, fr2
  <1> QED BY <1>10, <1>11
---------------------------------------------------------------------------
(* The threads *)

ContextInv ==
  /\ hostTenant \in [Known -> Schemas]
  /\ DOMAIN phase = Threads /\ DOMAIN serving = Threads /\ DOMAIN db = Threads
  /\ DOMAIN schema = Threads /\ DOMAIN frames = Threads
  /\ \A t \in Threads : Knows(t, phase[t], serving[t], db[t], schema[t], frames[t])

\* A step of one thread leaves the other threads alone: both axes are its own.
Alone(t) ==
  /\ DOMAIN phase' = Threads /\ DOMAIN serving' = Threads /\ DOMAIN db' = Threads
  /\ DOMAIN schema' = Threads /\ DOMAIN frames' = Threads
  /\ \A u \in Threads \ {t} :
       /\ phase'[u] = phase[u] /\ serving'[u] = serving[u] /\ db'[u] = db[u]
       /\ schema'[u] = schema[u] /\ frames'[u] = frames[u]

\* It is enough to look at the thread that moves.
LEMMA OneThread ==
  ASSUME ContextInv, NEW t \in Threads, Alone(t), UNCHANGED hostTenant,
         Knows(t, phase'[t], serving'[t], db'[t], schema'[t], frames'[t])
  PROVE  ContextInv'
  <1>1. \A u \in Threads : Knows(u, phase'[u], serving'[u], db'[u], schema'[u], frames'[u])
    BY DEF ContextInv, Alone
  <1> QED BY <1>1 DEF ContextInv, Alone

\* What is known of current_db and the schemas.
LEMMA Axes ==
  ASSUME ContextInv, NEW t \in Threads
  PROVE  /\ db[t] \in Aliases \cup {None} /\ schema[t] \in [Aliases -> Schemas]
         /\ frames[t] \in Seq(FrameSet)
         /\ Knows(t, phase[t], serving[t], db[t], schema[t], frames[t])
  <1>1. Knows(t, phase[t], serving[t], db[t], schema[t], frames[t])
    BY DEF ContextInv
  <1>2. frames[t] \in Seq(FrameSet) /\ schema[t] \in [Aliases -> Schemas]
    BY <1>1 DEF Knows
  <1>3. Len(frames[t]) # 0 => frames[t][Len(frames[t])] \in FrameSet
    BY SMT, <1>2
  <1>4. db[t] = IF Len(frames[t]) = 0 THEN None ELSE frames[t][Len(frames[t])].on
    BY <1>1 DEF Knows
  <1>5. db[t] \in Aliases \cup {None}
    BY <1>3, <1>4 DEF FrameSet
  <1> QED BY <1>1, <1>2, <1>5

\* Entering a context, from the phase it is entered in.
Enters(t, ph2) ==
  /\ \/ phase[t] = ph2 /\ ph2 \in {"view", "task"}
     \/ phase[t] = "gate" /\ ph2 = "view"
     \/ phase[t] = "idle" /\ ph2 = "task" /\ t \notin Web
  /\ \/ phase' = [phase EXCEPT ![t] = ph2]
     \/ phase[t] = ph2 /\ UNCHANGED phase
  /\ UNCHANGED <<serving, hostTenant>>

\* use_alias
LEMMA UseAlias ==
  ASSUME ContextInv, NEW t \in Threads, NEW ph2, Enters(t, ph2),
         NEW free \in BOOLEAN, use_alias(t, "default", free),
         free \/ (ph2 = "view" => serving[t] = Public),
         phase[t] = "gate" => serving[t] = Public
  PROVE  ContextInv'
  <1> DEFINE f == Frame("default", None, None, db[t], free)
  <1>1. "default" \in Aliases
    BY DEF Aliases
  <1>2. f \in FrameSet /\ f.on = "default" /\ f.to = None /\ f.token = db[t] /\ f.free = free
    <2>1. db[t] \in Aliases \cup {None} /\ None \in Schemas \cup {None}
      BY Axes
    <2> QED BY <1>1, <2>1 DEF Frame, FrameSet
  <1>3. f.free \/ Own(f, ph2, serving[t])
    BY <1>2 DEF Own
  <1>4. frames' = [frames EXCEPT ![t] = Append(@, f)] /\ db' = [db EXCEPT ![t] = "default"]
        /\ UNCHANGED schema
    BY DEF use_alias
  <1> HIDE DEF f
  <1>5. phase[t] = "gate" => Routed(f, serving[t])
    BY <1>2 DEF Routed, Enters
  <1>6. Alone(t) /\ phase'[t] = ph2 /\ serving'[t] = serving[t] /\ db'[t] = f.on
        /\ schema'[t] = schema[t] /\ frames'[t] = Append(frames[t], f)
    BY <1>2, <1>4 DEF ContextInv, Alone, Enters
  <1>7. Knows(t, ph2, serving[t], f.on, schema[t], Append(frames[t], f))
    BY <1>2, <1>3, <1>5, Axes, Push DEF Enters
  <1> QED BY <1>6, <1>7, OneThread DEF Enters

\* _switch
LEMMA Switch ==
  ASSUME ContextInv, NEW t \in Threads, NEW ph2, Enters(t, ph2),
         NEW a, NEW s \in Schemas, NEW free \in BOOLEAN, switch(t, a, s, free),
         free \/ (s = Public /\ a = "default") \/ (s \in Tenants /\ a = Home[s]),
         phase[t] = "gate" => s = serving[t] /\ s \in Tenants /\ a = Home[s]
  PROVE  ContextInv'
  <1> DEFINE f == Frame(a, s, schema[t][a], db[t], free)
  <1>1. a \in Aliases /\ schema[t][a] \in Schemas /\ s # None
    BY Axes, ContextConstants DEF switch
  <1>2. /\ f \in FrameSet /\ f.on = a /\ f.to = s /\ f.token = db[t] /\ f.free = free
        /\ f.prev = schema[t][a]
    <2>1. db[t] \in Aliases \cup {None} /\ s \in Schemas \cup {None}
          /\ schema[t][a] \in Schemas \cup {None}
      BY <1>1, Axes
    <2> QED BY <1>1, <2>1 DEF Frame, FrameSet
  <1>3. /\ frames' = [frames EXCEPT ![t] = Append(@, f)] /\ db' = [db EXCEPT ![t] = a]
        /\ schema' = [schema EXCEPT ![t][a] = s]
    BY DEF switch
  <1> HIDE DEF f
  <1>4. f.free \/ Own(f, ph2, serving[t])
    BY <1>2 DEF Own
  <1>5. phase[t] = "gate" => Routed(f, serving[t])
    BY <1>2, ContextConstants DEF Routed
  <1>6. Alone(t) /\ phase'[t] = ph2 /\ serving'[t] = serving[t] /\ db'[t] = f.on
        /\ schema'[t] = [schema[t] EXCEPT ![a] = s] /\ frames'[t] = Append(frames[t], f)
    BY <1>2, <1>3 DEF ContextInv, Alone, Enters
  <1>7. Knows(t, ph2, serving[t], f.on, [schema[t] EXCEPT ![a] = s], Append(frames[t], f))
    <2> DEFINE sch2 == [schema[t] EXCEPT ![a] = s]
    <2>1. f.to # None /\ f.prev = schema[t][f.on] /\ sch2 = [schema[t] EXCEPT ![f.on] = f.to]
      BY <1>1, <1>2
    <2> HIDE DEF sch2
    <2>2. /\ Knows(t, phase[t], serving[t], db[t], schema[t], frames[t])
          /\ f \in FrameSet /\ f.token = db[t]
      BY <1>2, Axes
    <2>3. \/ ph2 = phase[t] /\ phase[t] \in {"view", "task"}
          \/ phase[t] = "gate" /\ ph2 = "view"
          \/ phase[t] = "idle" /\ ph2 = "task" /\ t \notin Web
      BY DEF Enters
    <2>4. Knows(t, ph2, serving[t], f.on, sch2, Append(frames[t], f))
      BY <1>4, <1>5, <2>1, <2>2, <2>3, Push
    <2> QED BY <2>4 DEF sch2
  <1> QED BY <1>6, <1>7, OneThread DEF Enters

\* The request before its view: only default moves.
LEMMA BeforeView ==
  ASSUME ContextInv, NEW t \in Threads, NEW x \in Schemas,
         BeginRequest(t) \/ SetTenant(t, x) \/ Respond(t), UNCHANGED hostTenant
  PROVE  ContextInv'
  <1>1. phase[t] \in {"idle", "resolving", "gate"} /\ (phase[t] = "idle" => t \in Web)
    BY DEF BeginRequest, SetTenant, Respond
  <1>2. /\ schema[t] \in [Aliases -> Schemas] /\ frames[t] \in Seq(FrameSet)
        /\ Len(frames[t]) = 0 /\ db[t] = None /\ t \in Web
        /\ \A a \in Aliases : a # "default" => schema[t][a] = Public
    BY SMT, <1>1, Axes, BareKnown
  <1>3. Alone(t)
    BY DEF ContextInv, Alone, BeginRequest, SetTenant, Respond
  <1>4. UNCHANGED <<db, frames>> /\ DOMAIN phase = Threads /\ DOMAIN serving = Threads
        /\ DOMAIN schema = Threads /\ "default" \in Aliases /\ Public \in Schemas
    BY DEF BeginRequest, SetTenant, Respond, ContextInv, Aliases, Schemas
  <1>5. Knows(t, phase'[t], serving'[t], db'[t], schema'[t], frames'[t])
    <2>1. CASE BeginRequest(t)
      <3>1. phase'[t] = "resolving" /\ schema'[t] = [schema[t] EXCEPT !["default"] = Public]
        BY <1>4, <2>1 DEF BeginRequest
      <3>2. schema'[t] \in [Aliases -> Schemas] /\ schema'[t]["default"] = Public
            /\ \A a \in Aliases : a # "default" \/ t \notin Web => schema'[t][a] = Public
        BY <1>2, <1>4, <3>1
      <3>3. db'[t] = None /\ frames'[t] \in Seq(FrameSet) /\ Len(frames'[t]) = 0 /\ t \in Web
        BY <1>2, <1>4
      <3> QED BY SMT, <3>1, <3>2, <3>3, BareThread
    <2>2. CASE SetTenant(t, x)
      <3>1. phase'[t] = "gate" /\ serving'[t] = x
            /\ schema'[t] = [schema[t] EXCEPT !["default"] = x]
        BY <1>4, <2>2 DEF SetTenant
      <3>2. schema'[t] \in [Aliases -> Schemas] /\ schema'[t]["default"] = x
            /\ \A a \in Aliases : a # "default" \/ t \notin Web => schema'[t][a] = Public
        BY <1>2, <1>4, <3>1
      <3>3. db'[t] = None /\ frames'[t] \in Seq(FrameSet) /\ Len(frames'[t]) = 0 /\ t \in Web
        BY <1>2, <1>4
      <3> QED BY SMT, <3>1, <3>2, <3>3, BareThread
    <2>3. CASE Respond(t)
      <3>1. phase'[t] = "idle" /\ schema'[t] = schema[t]
        BY <1>4, <2>3 DEF Respond
      <3> QED BY <1>2, <1>4, <3>1, BareThread
    <2> QED BY <2>1, <2>2, <2>3
  <1> QED BY <1>3, <1>5, OneThread

\* The innermost context is left.
LEMMA LeaveInv ==
  ASSUME ContextInv, NEW t \in Threads, Leave(t), UNCHANGED hostTenant PROVE ContextInv'
  <1> DEFINE fr == frames[t]
             n == Len(fr)
             f == fr[n]
  <1>1. Knows(t, phase[t], serving[t], db[t], schema[t], fr) /\ fr \in Seq(FrameSet)
    BY Axes
  <1>2. n \in Nat /\ n # 0
    BY SMT, <1>1 DEF Leave
  <1>3. /\ schema' = [schema EXCEPT ![t] =
             IF phase[t] = "view" /\ n = 1 /\ f.to # None
             THEN [Restored(t, f) EXCEPT ![f.on] = Public] ELSE Restored(t, f)]
        /\ db' = [db EXCEPT ![t] = f.token]
        /\ frames' = [frames EXCEPT ![t] = Outer(@)]
        /\ n = 1 => /\ phase' = [phase EXCEPT ![t] = "idle"]
                    /\ serving' = [serving EXCEPT ![t] = None]
        /\ n # 1 => UNCHANGED <<phase, serving>>
    BY DEF Leave, Inner
  <1>4. Restored(t, f) = Back(schema[t], f)
    BY DEF Restored, Back
  <1>5. schema' = [schema EXCEPT ![t] = Left(phase[t], schema[t], fr)]
    BY <1>3, <1>4 DEF Left
  <1>6. Alone(t) /\ schema'[t] = Left(phase[t], schema[t], fr) /\ db'[t] = f.token
        /\ frames'[t] = Outer(fr)
        /\ (n = 1 => phase'[t] = "idle" /\ serving'[t] = None)
        /\ (n # 1 => phase'[t] = phase[t] /\ serving'[t] = serving[t])
    BY SMT, <1>3, <1>5 DEF ContextInv, Alone
  <1>7. Knows(t, phase'[t], serving'[t], db'[t], schema'[t], frames'[t])
    BY <1>1, <1>2, <1>6, Unwind
  <1> QED BY <1>6, <1>7, OneThread

\* tenant_context and schema_context: without an override a tenant's own shard,
\* and default for public.
LEMMA TenantContextInv ==
  ASSUME ContextInv, NEW t \in Threads, NEW ph2, Enters(t, ph2), NEW x \in Tenants,
         NEW database \in Overrides \cup {None}, tenant_context(t, x, database),
         phase[t] = "gate" => x = serving[t] /\ database = None
  PROVE  ContextInv'
  <1>1. x \in Schemas
    BY DEF Schemas
  <1>2. CASE database = None
    <2>1. switch(t, Home[x], x, FALSE)
      BY <1>2 DEF tenant_context
    <2> QED BY <1>1, <2>1, Switch
  <1>3. CASE database # None
    <2>1. switch(t, database, x, TRUE)
      BY <1>3 DEF tenant_context
    <2> QED BY <1>1, <1>3, <2>1, Switch
  <1> QED BY <1>2, <1>3

\* schema_context finds the same database for a schema's name.
LEMMA SchemaContextInv ==
  ASSUME ContextInv, NEW t \in Threads, NEW ph2, Enters(t, ph2), NEW s \in Schemas,
         NEW database \in Overrides \cup {None}, schema_context(t, s, database),
         phase[t] # "gate"
  PROVE  ContextInv'
  <1>1. CASE database = None
    <2>1. switch(t, IF s = Public THEN "default" ELSE Home[s], s, FALSE)
      BY <1>1 DEF schema_context, ResolveDatabase
    <2>2. CASE s = Public
      BY <2>1, <2>2, Switch
    <2>3. CASE s # Public
      BY <2>1, <2>3, Switch DEF Schemas
    <2> QED BY <2>2, <2>3
  <1>2. CASE database # None
    <2>1. switch(t, database, s, TRUE)
      BY <1>2 DEF schema_context, ResolveDatabase
    <2> QED BY <2>1, Switch
  <1> QED BY <1>1, <1>2

\* A task for public binds default, which inside of a tenant's request is not on
\* public.
LEMMA TaskContextInv ==
  ASSUME ContextInv, NEW t \in Threads, NEW ph2, Enters(t, ph2), NEW s \in Schemas,
         EnterTask(t, s), phase[t] # "gate"
  PROVE  ContextInv'
  <1>1. CASE s # Public
    BY <1>1, TenantContextInv DEF EnterTask, Schemas
  <1>2. CASE s = Public /\ phase[t] = "view" /\ serving[t] # Public
    <2>1. use_alias(t, "default", TRUE)
      BY <1>2 DEF EnterTask
    <2> QED BY <1>2, <2>1, UseAlias
  <1>3. CASE s = Public /\ ~(phase[t] = "view" /\ serving[t] # Public)
    <2>1. use_alias(t, "default", FALSE)
      BY <1>3 DEF EnterTask
    <2>2. ph2 = "view" => serving[t] = Public
      BY <1>3 DEF Enters
    <2> QED BY <1>3, <2>1, <2>2, UseAlias
  <1> QED BY <1>1, <1>2, <1>3

\* What a view or a task nests.
LEMMA NestedInv ==
  ASSUME ContextInv, NEW t \in Threads, Nested(t), UNCHANGED hostTenant PROVE ContextInv'
  <1>1. Room(t) /\ UNCHANGED <<phase, serving>> => Enters(t, phase[t]) /\ phase[t] # "gate"
    BY DEF Room, Enters
  <1>2. ASSUME NEW given \in Schemas \cup {None}, EagerTask(t, given) PROVE ContextInv'
    <2>1. CurrentSchemaName(t) \in Schemas
      BY Axes DEF CurrentSchemaName, Schemas
    <2>2. HeaderSchema(t, given) \in Schemas
      BY <2>1 DEF HeaderSchema
    <2> QED BY <1>1, <1>2, <2>2, TaskContextInv DEF EagerTask
  <1>3. ASSUME NEW x \in Tenants, CreateAdmin(t, x) PROVE ContextInv'
    BY <1>1, <1>3, TenantContextInv DEF CreateAdmin
  <1>4. ASSUME NEW x \in Tenants, NEW database \in Overrides, EnterTenant(t, x, database)
        PROVE  ContextInv'
    BY <1>1, <1>4, TenantContextInv DEF EnterTenant
  <1>5. ASSUME NEW s \in Schemas, NEW database \in Overrides, EnterSchema(t, s, database)
        PROVE  ContextInv'
    BY <1>1, <1>5, SchemaContextInv DEF EnterSchema
  <1> QED BY <1>2, <1>3, <1>4, <1>5, LeaveInv DEF Nested

\* The steps of serving.
LEMMA ServingInv ==
  ASSUME ContextInv, NEW t \in Threads, Serving(t), UNCHANGED hostTenant PROVE ContextInv'
  <1>1. ASSUME NEW status \in Statuses, NEW admin \in BOOLEAN, EnterView(t, status, admin)
        PROVE  ContextInv'
    <2>1. phase[t] = "gate" /\ Enters(t, "view")
      BY <1>1 DEF EnterView, Enters
    <2>2. serving[t] \in Schemas
      BY <2>1, Axes DEF Knows
    <2>3. CASE serving[t] = Public
      <3>1. use_alias(t, "default", FALSE)
        BY <1>1, <2>3 DEF EnterView
      <3> QED BY <2>1, <2>3, <3>1, UseAlias
    <2>4. CASE serving[t] # Public
      <3>1. tenant_context(t, serving[t], None) /\ serving[t] \in Tenants
        BY <1>1, <2>2, <2>4 DEF EnterView, Schemas
      <3> QED BY <2>1, <3>1, TenantContextInv
    <2> QED BY <2>3, <2>4
  <1>2. ASSUME NEW status \in Statuses, NEW admin \in BOOLEAN,
               GateRefuses(t, status, admin) \/ RoutingFails(t, status, admin)
        PROVE  ContextInv'
    <2>1. Public \in Schemas /\ Respond(t)
      BY <1>2 DEF GateRefuses, RoutingFails, Schemas
    <2> QED BY <2>1, BeforeView
  <1>3. ASSUME NEW header \in Schemas, BeginTask(t, header) PROVE ContextInv'
    <2>1. Enters(t, "task") /\ phase[t] # "gate"
      BY <1>3 DEF BeginTask, Enters
    <2> QED BY <1>3, <2>1, TaskContextInv DEF BeginTask
  <1>4. ASSUME NEW x \in Tenants, SeedAdmin(t, x) PROVE ContextInv'
    <2>1. Enters(t, "task") /\ phase[t] # "gate"
      BY <1>4 DEF SeedAdmin, Enters
    <2> QED BY <1>4, <2>1, TenantContextInv DEF SeedAdmin
  <1> QED BY <1>1, <1>2, <1>3, <1>4, NestedInv DEF Serving

\* At start nobody is in a context.
LEMMA ContextStart == Init => ContextInv
  <1> SUFFICES ASSUME Init PROVE ContextInv
    OBVIOUS
  <1>1. hostTenant \in [Known -> Schemas] /\ Public \in Schemas /\ <<>> \in Seq(FrameSet)
    BY SMT, RequestConstants DEF Init, Schemas
  <1>2. ASSUME NEW t \in Threads
        PROVE  Knows(t, phase[t], serving[t], db[t], schema[t], frames[t])
    <2> DEFINE sch == [a \in Aliases |-> Public]
    <2>1. phase[t] = "idle" /\ db[t] = None /\ schema[t] = sch /\ frames[t] = <<>>
      BY DEF Init, ContextInit
    <2>2. sch \in [Aliases -> Schemas] /\ \A a \in Aliases : sch[a] = Public
      BY <1>1
    <2>3. Len(<<>>) = 0
      OBVIOUS
    <2> HIDE DEF sch
    <2> QED BY <1>1, <2>1, <2>2, <2>3, BareThread
  <1> QED BY <1>1, <1>2 DEF ContextInv, Init, ContextInit

\* Every step keeps the invariant.  The host of a request that found its tenant
\* has a Domain row, by the invariant of the resolver.
LEMMA ContextNext == ContextInv /\ FlightInv /\ [Next]_vars => ContextInv'
  <1> SUFFICES ASSUME ContextInv, FlightInv, [Next]_vars PROVE ContextInv'
    OBVIOUS
  <1>1. CASE UNCHANGED <<contextVars, hostTenant>>
    BY <1>1 DEF ContextInv, contextVars
  <1>2. ASSUME NEW t \in Threads, NEW h \in Hosts, Receive(t, h), UNCHANGED hostTenant
        PROVE  ContextInv'
    <2>1. Public \in Schemas
      BY DEF Schemas
    <2> QED BY <1>2, <2>1, BeforeView DEF Receive
  <1>3. ASSUME NEW t \in Threads, Found(t), UNCHANGED hostTenant PROVE ContextInv'
    <2>1. req[t].host \in Known
      BY <1>3 DEF Found, FlightInv, RequestKnows
    <2>2. hostTenant[req[t].host] \in Schemas
      BY <2>1 DEF ContextInv
    <2> QED BY <1>3, <2>2, BeforeView DEF Found
  <1>4. ASSUME NEW t \in Threads, NotServed(t), UNCHANGED hostTenant PROVE ContextInv'
    <2>1. Public \in Schemas
      BY DEF Schemas
    <2> QED BY <1>4, <2>1, BeforeView DEF NotServed
  <1> QED BY <1>1, <1>2, <1>3, <1>4, ServingInv DEF Next, Resolving, vars
---------------------------------------------------------------------------
(* The theorems *)

\* What is known of every thread holds in every reachable state.
THEOREM Contexts == Spec => []ContextInv
  BY ContextStart, ContextNext, Flight, PTL DEF Spec

\* Both axes follow the innermost context, however deep contexts are nested and
\* wherever an exception leaves them.
THEOREM AxesFollow == Spec => []BothAxes
  <1>1. ContextInv => BothAxes
    <2> SUFFICES ASSUME ContextInv, NEW t \in Threads
                 PROVE  /\ db[t] = IF frames[t] = <<>> THEN None ELSE Inner(frames[t]).on
                        /\ \A a \in Aliases :
                             LET over == {i \in DOMAIN frames[t] : Switches(frames[t][i], a)}
                             IN IF over # {}
                                THEN \E i \in over : /\ \A j \in over : j <= i
                                                     /\ schema[t][a] = frames[t][i].to
                                ELSE schema[t][a] = Base(t, a)
                                     \/ (a = "default" /\ t \in Web /\ phase[t] = "idle")
      BY DEF BothAxes
    <2> DEFINE fr == frames[t]
    <2>1. Knows(t, phase[t], serving[t], db[t], schema[t], fr) /\ fr \in Seq(FrameSet)
      BY Axes
    <2>2. DOMAIN fr = 1 .. Len(fr) /\ Len(fr) \in Nat /\ (fr = <<>> <=> Len(fr) = 0)
      BY SMT, <2>1
    <2>3. db[t] = IF fr = <<>> THEN None ELSE Inner(fr).on
      BY <2>1, <2>2 DEF Knows, Inner
    <2>4. ASSUME NEW a \in Aliases
          PROVE  LET over == {i \in DOMAIN fr : Switches(fr[i], a)}
                 IN IF over # {}
                    THEN \E i \in over : /\ \A j \in over : j <= i
                                         /\ schema[t][a] = fr[i].to
                    ELSE schema[t][a] = Base(t, a)
                         \/ (a = "default" /\ t \in Web /\ phase[t] = "idle")
      <3> DEFINE over == {i \in 1 .. Len(fr) : Switches(fr[i], a)}
      <3>1. BaseOf(phase[t], serving[t], a) = Base(t, a)
        BY DEF BaseOf, Base
      <3>2. \/ Innermost(fr, Len(fr), a, schema[t][a], Base(t, a))
            \/ (a = "default" /\ t \in Web /\ phase[t] = "idle" /\ Len(fr) = 0)
        BY <2>1, <3>1 DEF Knows
      <3>3. CASE over = {}
        BY <2>2, <3>2, <3>3 DEF Innermost
      <3>4. CASE over # {}
        <4>1. PICK i \in 1 .. Len(fr) : Switches(fr[i], a)
          BY <3>4
        <4>2. Len(fr) # 0
          BY SMT, <4>1
        <4>3. PICK j \in 1 .. Len(fr) : /\ Switches(fr[j], a) /\ schema[t][a] = fr[j].to
                                        /\ \A k \in 1 .. Len(fr) : k > j => ~Switches(fr[k], a)
          BY <3>2, <4>1, <4>2 DEF Innermost
        <4>4. j \in over /\ \A k \in over : k <= j
          BY SMT, <4>3
        <4> QED BY <2>2, <4>3, <4>4
      <3> QED BY <3>3, <3>4
    <2> QED BY <2>3, <2>4
  <1> QED BY <1>1, Contexts, PTL

\* A query on a strictly routed model is refused or reaches its own tenant's
\* schema on its own tenant's shard.
THEOREM DataIsOwn == Spec => []OwnData
  <1>1. ContextInv => OwnData
    <2> SUFFICES ASSUME ContextInv, NEW t \in Threads, Route(t, "strict") # Refused,
                        \A i \in DOMAIN frames[t] : ~frames[t][i].free
                 PROVE  LET a == Route(t, "strict")
                        IN /\ schema[t][a] = Inner(frames[t]).to
                           /\ schema[t][a] \in Tenants
                           /\ Home[schema[t][a]] = a
                           /\ \A data \in BOOLEAN : AllowMigrate(t, a, "strict", data)
      BY DEF OwnData
    <2> DEFINE fr == frames[t]
               n == Len(fr)
               f == fr[n]
               a == db[t]
    <2>1. Knows(t, phase[t], serving[t], a, schema[t], fr) /\ fr \in Seq(FrameSet)
      BY Axes
    <2>2. a # None /\ Route(t, "strict") = a /\ schema[t][a] # Public
      BY DEF Route, GuardPublic, StrictlyRouted
    <2>3. n \in Nat \ {0} /\ n \in DOMAIN fr /\ DOMAIN fr = 1 .. n /\ f.on = a /\ Inner(fr) = f
      <3>1. n # 0 /\ f.on = a
        BY <2>1, <2>2 DEF Knows
      <3>2. n \in Nat /\ DOMAIN fr = 1 .. n
        BY SMT, <2>1
      <3>3. Inner(fr) = f
        BY DEF Inner
      <3> HIDE DEF n
      <3> QED BY SMT, <3>1, <3>2, <3>3
    <2>4. a \in Aliases /\ phase[t] # "idle"
      BY <2>2, <2>3, <2>1, Axes DEF Knows
    <2>5. \A i \in 1 .. n : Own(fr[i], phase[t], serving[t])
      BY <2>1, <2>3 DEF Knows
    <2>6. Innermost(fr, n, a, schema[t][a], BaseOf(phase[t], serving[t], a))
      BY <2>1, <2>4 DEF Knows
    <2>7. f.to # None => schema[t][a] = f.to
      BY SMT, <2>3, <2>6 DEF Innermost, Switches
    <2>8. f.to # None
      <3> SUFFICES ASSUME f.to = None PROVE FALSE
        OBVIOUS
      <3>1. a = "default" /\ (phase[t] = "view" => serving[t] = Public)
        BY <2>3, <2>5, ContextConstants DEF Own, Schemas
      <3>2. BaseOf(phase[t], serving[t], a) = Public
        BY <2>1, <2>3 , <3>1 DEF BaseOf, Knows
      <3>3. PICK j \in 1 .. n : Switches(fr[j], a) /\ schema[t][a] = fr[j].to
        BY <2>2, <2>6, <3>2 DEF Innermost
      <3>4. fr[j].on = "default" /\ fr[j].to # None
        BY <3>1, <3>3 DEF Switches
      <3>5. fr[j].to = Public
        BY <2>5, <3>4, ContextConstants DEF Own
      <3> QED BY <2>2, <3>3, <3>5
    <2>9. schema[t][a] = f.to /\ f.to \in Tenants /\ a = Home[f.to]
      BY <2>2, <2>3, <2>5, <2>7, <2>8 DEF Own
    <2>10. a # "default"
      BY <2>9, ContextConstants
    <2> QED BY <2>2, <2>3, <2>9, <2>10 DEF AllowMigrate
  <1> QED BY <1>1, Contexts, PTL

\* Cache keys, task headers and logins belong to the tenant the thread is bound
\* to.
THEOREM KeysAreOwn == Spec => []KeysOwn
  <1>1. ContextInv => KeysOwn
    <2> SUFFICES ASSUME ContextInv, NEW t \in Threads
                 PROVE  /\ \A s \in {make_key(t), tenant_token(t), HeaderSchema(t, None)}
                                      \ {Public, Refused} :
                             \/ phase[t] = "view" /\ s = serving[t]
                             \/ \E i \in DOMAIN frames[t] : s = frames[t][i].to
                        /\ phase[t] = "view" /\ Len(frames[t]) = 1 =>
                             /\ \A s \in Schemas : SessionValid(t, s) /\ TokenValid(t, s)
                                                     <=> s = serving[t]
                             /\ ManagementHost(t) <=> serving[t] = Public
      BY DEF KeysOwn
    <2> DEFINE fr == frames[t]
               n == Len(fr)
               a == db[t]
    <2>1. Knows(t, phase[t], serving[t], a, schema[t], fr) /\ fr \in Seq(FrameSet)
      BY Axes
    <2>2. n \in Nat /\ DOMAIN fr = 1 .. n
      BY SMT, <2>1
    <2>3. ASSUME CurrentSchemaName(t) # Public
          PROVE  \/ phase[t] = "view" /\ CurrentSchemaName(t) = serving[t]
                 \/ \E i \in DOMAIN fr : CurrentSchemaName(t) = fr[i].to
      <3>1. a # None /\ CurrentSchemaName(t) = schema[t][a] /\ a \in Aliases
        BY <2>3, Axes DEF CurrentSchemaName
      <3>2. phase[t] \in {"view", "task"}
        BY <2>1, <3>1 DEF Knows
      <3>3. Innermost(fr, n, a, schema[t][a], BaseOf(phase[t], serving[t], a))
        BY <2>1, <3>1, <3>2 DEF Knows
      <3> QED BY <2>2, <2>3, <3>1, <3>2, <3>3 DEF Innermost, BaseOf
    <2>4. \A s \in {make_key(t), tenant_token(t), HeaderSchema(t, None)} \ {Public, Refused} :
            s = CurrentSchemaName(t) /\ s # Public
      BY DEF make_key, tenant_token, HeaderSchema
    <2>5. ASSUME phase[t] = "view", n = 1 PROVE schema[t]["default"] = serving[t]
      <3>1. "default" \in Aliases /\ BaseOf("view", serving[t], "default") = serving[t]
        BY DEF Aliases, BaseOf
      <3>2. Innermost(fr, 1, "default", schema[t]["default"], serving[t])
        BY <2>1, <2>5, <3>1 DEF Knows
      <3>3. ~Switches(fr[1], "default")
        <4>1. Routed(fr[1], serving[t]) /\ serving[t] \in Schemas
          BY <2>1, <2>5 DEF Knows
        <4> QED BY <4>1, ContextConstants DEF Routed, Switches, Schemas
      <3> QED BY SMT, <3>2, <3>3 DEF Innermost
    <2> QED BY <2>3, <2>4, <2>5 DEF SessionValid, TokenValid, ManagementHost
  <1> QED BY <1>1, Contexts, PTL
=============================================================================
