---------------------------- MODULE CatalogProofs ----------------------------
(***************************************************************************)
(* Proofs about Catalog, for every number of shards, names, tenants, threads, *)
(* workers and drops: its hostnames (the conflicts report, the invalidations), *)
(* then its schemas (no tenant inherits the data of another one).              *)
(***************************************************************************)
EXTENDS Catalog, SequenceTheorems, WellFoundedInduction, TLAPS

\* Zenon finds the leaves that name no prover; SMT those with arithmetic, sequences
\* and updates of functions.
USE ZenonT(30)

\* What a thread, and a Domain row, can be.
HostSeq == Seq(Labels \cup Broken)
Status == {"free", "new", "pending", "active", "failed", "gone"}
TenantRow == [name : Names \cup {None}, shard : Shards \cup {None}, status : Status, prev : Status,
              moved : BOOLEAN, adopted : BOOLEAN]
LoadedRow == [pk : Nat, host : HostSeq]
Request == [pc : {"idle", "schema", "insert", "boot tenant", "boot domain", "load", "save",
                  "delete", "collect", "destroy"},
            name : Names \cup {None}, shard : Shards \cup {None}, host : HostSeq,
            id : Ids \cup {Public}, loaded : SUBSET LoadedRow, primary : BOOLEAN, drop : BOOLEAN]
DomainRow == [pk : Nat, host : HostSeq, tenant : Ids \cup {Public}, primary : BOOLEAN]

\* A thread that is to insert a tenant has a name and a shard for it.
Ready(r) == r.pc \in {"schema", "insert", "boot tenant"} => r.name \in Names /\ r.shard \in Shards

HostTypes ==
    /\ menu.threads \subseteq Threads
    /\ menu.hosts \cup menu.domains \subseteq Typed
    /\ req \in [Threads -> Request]
    /\ \A t \in Threads : Ready(req[t])
    /\ dom \subseteq DomainRow

PksUnique == \A d, e \in dom : d.pk = e.pk => d.host = e.host

\* A row has the host under which it was loaded, or one that was saved since.
Agrees(loaded) ==
    \A r \in loaded : \A d \in dom : d.pk = r.pk => d.host = r.host \/ d.host \in overlapped
Known == \A t \in Threads : Agrees(req[t].loaded)

HostInv == HostTypes /\ PksUnique /\ Known /\ RepointForgets

-----------------------------------------------------------------------------
(* Operators.                                                              *)

\* A set of numbers that is not empty has a least one: new keys are unused ones.
LEMMA LeastIn ==
  ASSUME NEW S \in SUBSET Nat, S # {}
  PROVE  (CHOOSE n \in S : \A m \in S : n <= m) \in S
  <1>1. PICK n \in S : \A m \in S : <<m, n>> \notin OpToRel(<, Nat)
    BY WFMin, NatLessThanWellFounded
  <1>2. \A m \in S : ~(m < n)
    BY <1>1 DEF OpToRel
  <1>3. \A m \in S : n <= m
    BY SMT, <1>2
  <1> QED BY <1>3

\* The keys the database gives to new rows are unused ones.
LEMMA NewKeys ==
  /\ Unused # {} => NewId \in Unused /\ NewId \in Ids
  /\ FreePks # {} => FirstPk \in Nat /\ FirstPk \notin LoadedPks /\ \A d \in dom : d.pk # FirstPk
  <1>1. Unused \in SUBSET Nat /\ Unused \subseteq Ids /\ FreePks \in SUBSET Nat
    BY SMT, CatalogConstants DEF Unused, Ids, FreePks
  <1>2. Unused # {} => NewId \in Unused
    BY <1>1, LeastIn DEF NewId
  <1>3. FreePks # {} => FirstPk \in FreePks
    BY <1>1, LeastIn DEF FirstPk
  <1>4. \A pk \in FreePks : pk \notin LoadedPks /\ \A d \in dom : d.pk # pk
    BY DEF FreePks
  <1> QED BY <1>1, <1>2, <1>3, <1>4

\* Rows with one more: every old host is still there, and nothing else is new.
Grown(rows, more, pk, host) ==
    /\ more \subseteq DomainRow
    /\ {d.host : d \in rows} \subseteq {d.host : d \in more}
    /\ \A e \in more : \/ e.pk = pk /\ e.host = host
                       \/ \E d \in rows : e.pk = d.pk /\ e.host = d.host

\* Saving a row next to others touches only the primary flag of those.
LEMMA BesideRows ==
  ASSUME NEW rows \in SUBSET DomainRow, NEW i \in Ids \cup {Public}, NEW primary \in BOOLEAN,
         NEW pk \in Nat, NEW host \in HostSeq
  PROVE  Grown(rows, Beside(rows, i, primary, pk, host), pk, host)
  <1> DEFINE only == primary \/ ~\E d \in rows : d.tenant = i /\ d.primary
             new == [pk |-> pk, host |-> host, tenant |-> i, primary |-> only]
             f(d) == IF only /\ d.tenant = i THEN [d EXCEPT !.primary = FALSE] ELSE d
  <1>1. Beside(rows, i, primary, pk, host) = {f(d) : d \in rows} \cup {new}
    BY DEF Beside
  <1>2. \A d \in rows : f(d) \in DomainRow /\ f(d).host = d.host /\ f(d).pk = d.pk
    <2> SUFFICES ASSUME NEW d \in rows
                 PROVE  f(d) \in DomainRow /\ f(d).host = d.host /\ f(d).pk = d.pk
      OBVIOUS
    <2>1. /\ [d EXCEPT !.primary = FALSE] \in DomainRow /\ [d EXCEPT !.primary = FALSE].host = d.host
          /\ [d EXCEPT !.primary = FALSE].pk = d.pk
      BY DEF DomainRow
    <2> QED BY <2>1
  <1>3. new \in DomainRow /\ new.pk = pk /\ new.host = host
    <2>1. only \in BOOLEAN
      OBVIOUS
    <2> HIDE DEF only
    <2> QED BY <2>1 DEF DomainRow
  <1> HIDE DEF f, new
  <1> QED BY <1>1, <1>2, <1>3 DEF Grown

\* The first label of a host, as a sequence.
LEMMA FirstLabel ==
  ASSUME NEW S, NEW s, s[1] \in S PROVE SubSeq(s, 1, 1) = <<s[1]>>
  <1>1. \A i \in 1 .. 1 : s[i] \in S
    BY SMT
  <1>2. /\ SubSeq(s, 1, 1) \in Seq(S)
        /\ Len(SubSeq(s, 1, 1)) = IF 1 <= 1 THEN 1 - 1 + 1 ELSE 0
        /\ \A i \in 1 .. 1 - 1 + 1 : SubSeq(s, 1, 1)[i] = s[1 + i - 1]
    BY SMT, <1>1, SubSeqProperties
  <1>3. Len(SubSeq(s, 1, 1)) = 1 /\ SubSeq(s, 1, 1)[1] = s[1]
    BY SMT, <1>2
  <1>4. <<s[1]>> \in Seq(S) /\ Len(<<s[1]>>) = 1 /\ <<s[1]>>[1] = s[1]
    BY SMT
  <1>5. \A i \in 1 .. Len(SubSeq(s, 1, 1)) : SubSeq(s, 1, 1)[i] = <<s[1]>>[i]
    BY SMT, <1>3, <1>4
  <1> QED BY <1>2, <1>3, <1>4, <1>5, SeqEqual

\* The SQL filter lets through whatever the matcher would match.
LEMMA Candidates ==
  ASSUME NEW rule, NEW host \in HostSeq, matches(rule, host) PROVE candidate_q(rule, host)
  <1>1. CASE rule.type # "label"
    BY <1>1 DEF matches, candidate_q
  <1>2. CASE rule.type = "label" /\ host # rule.value
    <2>1. host # <<>> /\ rule.value = <<Head(host)>>
      BY <1>2 DEF matches
    <2>2. Len(host) \in Nat /\ Len(host) >= 1 /\ Head(host) = host[1]
      BY SMT, <2>1 DEF HostSeq
    <2>3. host[1] \in Labels \cup Broken
      BY SMT, <2>1, <2>2 DEF HostSeq
    <2>4. SubSeq(host, 1, 1) = rule.value /\ Len(rule.value) = 1
      BY <2>1, <2>2, <2>3, FirstLabel
    <2>5. Len(host) # 1
      <3> SUFFICES ASSUME Len(host) = 1 PROVE FALSE
        OBVIOUS
      <3>1. SubSeq(host, 1, 1) = host
        <4>1. \A i \in 1 .. Len(host) : host[i] = SubSeq(host, 1, 1)[i]
          BY SMT, <2>1, <2>2, <2>4
        <4>2. SubSeq(host, 1, 1) \in Seq(Labels \cup Broken) /\ Len(SubSeq(host, 1, 1)) = 1
          BY SMT, <2>1, <2>2, <2>3, <2>4
        <4> QED BY <4>1, <4>2, SeqEqual DEF HostSeq
      <3> QED BY <1>2, <2>4, <3>1
    <2>6. Len(rule.value) < Len(host) /\ SubSeq(host, 1, Len(rule.value)) = rule.value
      <3>1. 1 < Len(host)
        <4>1. \A n \in Nat : n >= 1 /\ n # 1 => 1 < n
          BY SMT
        <4> QED BY <2>2, <2>5, <4>1
      <3> QED BY <2>4, <3>1
    <2> QED BY <1>2, <2>6 DEF candidate_q, StartsWith
  <1>3. CASE rule.type = "label" /\ host = rule.value
    BY <1>3 DEF candidate_q
  <1> QED BY <1>1, <1>2, <1>3

-----------------------------------------------------------------------------
(* Threads.                                                                *)

\* An idle thread is in order.
LEMMA QuietRequest == Quiet \in Request /\ Ready(Quiet) /\ Quiet.loaded = {}
  BY SMT DEF Quiet, Request, Ready, HostSeq

\* Nobody is at work at start.
LEMMA InitHosts == Init => HostInv
  <1> SUFFICES ASSUME Init PROVE HostInv
    OBVIOUS
  <1>1. PICK setup \in Setups : dom = setup.dom /\ menu = setup.menu
    BY DEF Init
  <1>2. Quiet \in Request /\ Ready(Quiet) /\ Quiet.loaded = {}
    BY QuietRequest
  <1>3. req \in [Threads -> Request] /\ \A t \in Threads : Ready(req[t]) /\ req[t].loaded = {}
    BY <1>2 DEF Init
  <1>4. dom \subseteq DomainRow
    <2>1. dom \subseteq [pk : 1..MaxDomains, host : Seq(Labels \cup Broken),
                         tenant : Ids \cup {Public}, primary : BOOLEAN]
      BY <1>1, SetupsConsistent DEF Consistent
    <2>2. 1..MaxDomains \subseteq Nat
      BY SMT, CatalogConstants
    <2> QED BY <2>1, <2>2 DEF DomainRow, HostSeq
  <1>5. menu.threads \subseteq Threads /\ menu.hosts \cup menu.domains \subseteq Typed
    BY <1>1, SetupsConsistent, CatalogConstants DEF Consistent
  <1>6. PksUnique /\ Known
    BY <1>1, <1>3, SetupsConsistent DEF Consistent, PksUnique, Known, Agrees
  <1> QED BY <1>3, <1>4, <1>5, <1>6 DEF Init, HostInv, HostTypes, RepointForgets

\* Threads that load nothing.
Stepped ==
    /\ req' \in [Threads -> Request]
    /\ \A t \in Threads : Ready(req'[t]) /\ req'[t].loaded \subseteq req[t].loaded

\* One thread moves at a time.
LEMMA Moves ==
  ASSUME HostTypes, NEW t \in Threads, NEW r \in Request, Ready(r), r.loaded \subseteq req[t].loaded,
         req' = [req EXCEPT ![t] = r]
  PROVE  Stepped
  BY DEF HostTypes, Stepped

\* A thread that is done, or goes on with what it has, stays in order.
LEMMA Going ==
  ASSUME HostTypes, NEW t \in Threads
  PROVE  /\ Done(t) => Stepped
         /\ Goto(t, "insert") /\ Working(t, "schema") => Stepped
         /\ Goto(t, "save") => Stepped
  <1>0. req[t] \in Request /\ req \in [Threads -> Request] /\ Ready(req[t])
    BY DEF HostTypes
  <1>1. Quiet \in Request /\ Ready(Quiet) /\ Quiet.loaded \subseteq req[t].loaded
    BY QuietRequest
  <1>2. CASE Done(t)
    BY <1>1, <1>2, Moves DEF Done, Goto
  <1>3. CASE Goto(t, "insert") /\ Working(t, "schema")
    <2> DEFINE r == [req[t] EXCEPT !.pc = "insert"]
    <2>1. r \in Request /\ Ready(r) /\ r.loaded \subseteq req[t].loaded
      BY <1>0, <1>3 DEF Request, Ready, Working
    <2>2. req' = [req EXCEPT ![t] = r]
      BY <1>0, <1>3 DEF Goto
    <2> HIDE DEF r
    <2> QED BY <2>1, <2>2, Moves
  <1>4. CASE Goto(t, "save")
    <2> DEFINE r == [req[t] EXCEPT !.pc = "save"]
    <2>1. r \in Request /\ Ready(r) /\ r.loaded \subseteq req[t].loaded
      BY <1>0 DEF Request, Ready
    <2>2. req' = [req EXCEPT ![t] = r]
      BY <1>0, <1>4 DEF Goto
    <2> HIDE DEF r
    <2> QED BY <2>1, <2>2, Moves
  <1> QED BY <1>2, <1>3, <1>4

\* Nothing happens to the rows.
LEMMA SameHosts ==
  ASSUME HostInv, Stepped, UNCHANGED <<dom, unforgotten, overlapped, menu>> PROVE HostInv'
  <1>1. HostTypes' /\ PksUnique' /\ RepointForgets'
    BY DEF HostInv, HostTypes, PksUnique, RepointForgets, Stepped
  <1>2. \A t \in Threads : Agrees(req[t].loaded) /\ req'[t].loaded \subseteq req[t].loaded
    BY DEF HostInv, Known, Stepped
  <1>3. Known'
    BY <1>2 DEF Known, Agrees
  <1> QED BY <1>1, <1>3 DEF HostInv

\* A thread loads rows as they are.
LEMMA LoadHosts ==
  ASSUME HostInv, NEW t \in Threads, NEW r \in Request, Ready(r), req' = [req EXCEPT ![t] = r],
         \A l \in r.loaded : \E d \in dom : l = Loaded(d),
         UNCHANGED <<dom, unforgotten, overlapped, menu>>
  PROVE  HostInv'
  <1>1. /\ req' \in [Threads -> Request] /\ req'[t] = r
        /\ \A u \in Threads \ {t} : req'[u] = req[u]
    BY DEF HostInv, HostTypes
  <1>2. HostTypes' /\ PksUnique' /\ RepointForgets'
    BY <1>1 DEF HostInv, HostTypes, PksUnique, RepointForgets
  <1>3. \A d \in dom : Loaded(d).pk = d.pk /\ Loaded(d).host = d.host
    BY DEF Loaded
  <1>4. Agrees(r.loaded)
    <2> SUFFICES ASSUME NEW l \in r.loaded, NEW e \in dom, e.pk = l.pk PROVE e.host = l.host
      BY DEF Agrees
    <2>1. PICK d \in dom : l = Loaded(d)
      OBVIOUS
    <2>2. e.pk = d.pk /\ l.host = d.host
      BY <1>3, <2>1
    <2> QED BY <2>2 DEF HostInv, PksUnique
  <1>5. \A u \in Threads : Agrees(req'[u].loaded)
    BY <1>1, <1>4 DEF HostInv, Known
  <1>6. Known'
    BY <1>5 DEF Known, Agrees
  <1> QED BY <1>2, <1>6 DEF HostInv

\* One row more, with a key of its own.
Added ==
    /\ unforgotten' \subseteq unforgotten
    /\ \E pk \in Nat, host \in HostSeq :
          /\ pk \notin LoadedPks /\ \A d \in dom : d.pk # pk
          /\ Grown(dom, dom', pk, host)

\* A new row takes no host from another one.
LEMMA Inserted ==
  ASSUME HostInv, NEW i \in Ids \cup {Public}, NEW host \in HostSeq, InsertDomain(host, i)
  PROVE  Added
  <1>1. /\ dom \in SUBSET DomainRow /\ FirstPk \in Nat /\ FirstPk \notin LoadedPks
        /\ \A d \in dom : d.pk # FirstPk
    BY NewKeys DEF HostInv, HostTypes, InsertDomain
  <1>2. /\ dom' = Beside(dom, i, TRUE, FirstPk, host)
        /\ unforgotten' = (unforgotten \cup (Hosts \ {d.host : d \in dom'})) \ {host}
    BY DEF InsertDomain, Invalidated
  <1>3. Grown(dom, dom', FirstPk, host)
    BY <1>1, <1>2, BesideRows
  <1>4. unforgotten' \subseteq unforgotten
    BY <1>2, <1>3 DEF Hosts, Grown
  <1> QED BY <1>1, <1>3, <1>4 DEF Added

\* So the rows that are loaded stay what they are.
LEMMA AddedHosts ==
  ASSUME HostInv, Stepped, Added, UNCHANGED <<overlapped, menu>> PROVE HostInv'
  <1>1. PICK pk \in Nat, host \in HostSeq :
          pk \notin LoadedPks /\ (\A d \in dom : d.pk # pk) /\ Grown(dom, dom', pk, host)
    BY DEF Added
  <1>0. \A e \in dom' : (e.pk = pk /\ e.host = host) \/ \E d \in dom : e.pk = d.pk /\ e.host = d.host
    BY <1>1 DEF Grown
  <1>2. HostTypes' /\ RepointForgets'
    BY <1>1 DEF HostInv, HostTypes, RepointForgets, Stepped, Added, Grown
  <1>3. PksUnique'
    <2> SUFFICES ASSUME NEW d \in dom', NEW e \in dom', d.pk = e.pk PROVE d.host = e.host
      BY DEF PksUnique
    <2> QED BY <1>0, <1>1 DEF HostInv, PksUnique
  <1>4. Known'
    <2> SUFFICES ASSUME NEW t \in Threads, NEW r \in req'[t].loaded, NEW d \in dom', d.pk = r.pk
                 PROVE  d.host = r.host \/ d.host \in overlapped
      BY DEF Known, Agrees
    <2>1. r \in req[t].loaded
      BY DEF Stepped
    <2>2. r.pk \in LoadedPks
      <3>1. r.pk \in {l.pk : l \in req[t].loaded}
        BY <2>1
      <3> QED BY <3>1 DEF LoadedPks
    <2>3. PICK e \in dom : d.pk = e.pk /\ d.host = e.host
      BY <1>0, <1>1, <2>2
    <2> QED BY <2>1, <2>3 DEF HostInv, Known, Agrees
  <1> QED BY <1>2, <1>3, <1>4 DEF HostInv

\* The hosts that a thread's keys have are the ones it loaded, or overlapped.
LEMMA TakenHosts ==
  ASSUME HostInv, NEW t \in Threads
  PROVE  \A d \in dom : d.pk \in Keys(t) => d.host \in LoadedHosts(t) \/ d.host \in overlapped
  <1> SUFFICES ASSUME NEW d \in dom, NEW r \in req[t].loaded, d.pk = r.pk
               PROVE  d.host \in LoadedHosts(t) \/ d.host \in overlapped
    BY DEF Keys
  <1>1. d.host = r.host \/ d.host \in overlapped
    BY DEF HostInv, Known, Agrees
  <1> QED BY <1>1 DEF LoadedHosts

\* A deletion, by itself or by the cascade, takes the rows it loaded.
LEMMA DeleteHosts ==
  ASSUME HostInv, NEW t \in Threads, Stepped, dom' = {d \in dom : d.pk \notin Keys(t)},
         Invalidated(DeleteForgets(t)), UNCHANGED <<overlapped, menu>>
  PROVE  HostInv'
  <1>1. \A d \in dom : d \in dom' \/ d.host \in LoadedHosts(t) \/ d.host \in overlapped
    BY TakenHosts
  <1>2. unforgotten' = (unforgotten \cup (Hosts \ {d.host : d \in dom'})) \ LoadedHosts(t)
    BY DEF Invalidated, DeleteForgets
  <1>3. RepointForgets'
    BY <1>1, <1>2 DEF RepointForgets, HostInv, Hosts
  <1>4. HostTypes' /\ PksUnique'
    BY DEF HostInv, HostTypes, PksUnique, Stepped
  <1>5. Known'
    BY DEF HostInv, Known, Agrees, Stepped
  <1> QED BY <1>3, <1>4, <1>5 DEF HostInv

\* A save takes from a row the host it loaded, unless another save was faster; and
\* then that save has overtaken this one.
LEMMA SaveHosts ==
  ASSUME HostInv, NEW t \in Threads, DomainSave(t), UNCHANGED menu PROVE HostInv'
  <1>1. Stepped /\ req'[t].loaded = {}
    <2>1. Done(t)
      BY DEF DomainSave
    <2>2. req'[t] = Quiet
      BY <2>1 DEF Done, HostInv, HostTypes
    <2> QED BY <2>1, <2>2, Going, QuietRequest DEF HostInv
  <1> DEFINE rest == {d \in dom : d.pk \notin Keys(t)}
             new == IF FreePks = {} THEN {} ELSE {FirstPk}
  <1>2. CASE KeepDomains /\ UNCHANGED overlapped
    BY <1>1, <1>2, SameHosts DEF KeepDomains
  <1>3. ASSUME NEW pk \in IF Keys(t) = {} THEN new ELSE Keys(t),
               dom' = Beside(rest, req[t].id, req[t].primary, pk, req[t].host),
               Invalidated(SaveForgets(t)), overlapped' = overlapped \cup Overtaken(t)
        PROVE  HostInv'
    <2>1. /\ req[t].id \in Ids \cup {Public} /\ req[t].primary \in BOOLEAN
          /\ req[t].host \in HostSeq /\ req[t].loaded \in SUBSET LoadedRow
      BY DEF HostInv, HostTypes, Request
    <2>2. /\ pk \in Nat /\ \A d \in rest : d.pk # pk
          /\ pk \in Keys(t) \/ pk \notin LoadedPks
      <3>1. CASE Keys(t) = {}
        <4>1. FreePks # {} /\ pk = FirstPk
          BY <3>1
        <4> QED BY <4>1, NewKeys
      <3>2. CASE Keys(t) # {}
        <4>1. pk \in Keys(t)
          BY <3>2
        <4> QED BY <2>1, <4>1 DEF Keys, LoadedRow
      <3> QED BY <3>1, <3>2
    <2>3. rest \in SUBSET DomainRow
      BY DEF HostInv, HostTypes
    <2>0. Grown(rest, dom', pk, req[t].host)
      <3> HIDE DEF rest, new
      <3> QED BY <1>3, <2>1, <2>2, <2>3, BesideRows
    <2>4. /\ dom' \subseteq DomainRow /\ {d.host : d \in rest} \subseteq {d.host : d \in dom'}
          /\ \A e \in dom' : \/ e.pk = pk /\ e.host = req[t].host
                             \/ \E d \in rest : e.pk = d.pk /\ e.host = d.host
      <3> HIDE DEF rest, new
      <3> QED BY <2>0 DEF Grown
    <2>5. RepointForgets'
      <3>1. \A d \in dom : \/ d.host \in {e.host : e \in dom'} \/ d.host \in LoadedHosts(t)
                           \/ d.host \in overlapped
        <4>1. \A d \in dom : d \in rest \/ d.host \in LoadedHosts(t) \/ d.host \in overlapped
          BY TakenHosts
        <4> HIDE DEF rest
        <4> QED BY <2>4, <4>1
      <3>2. unforgotten' = (unforgotten \cup (Hosts \ {d.host : d \in dom'}))
                              \ ({req[t].host} \cup LoadedHosts(t))
        BY <1>3 DEF Invalidated, SaveForgets
      <3> QED BY <1>3, <3>1, <3>2 DEF RepointForgets, HostInv, Hosts
    <2>6. PksUnique'
      <3> SUFFICES ASSUME NEW d \in dom', NEW e \in dom', d.pk = e.pk PROVE d.host = e.host
        BY DEF PksUnique
      <3>1. rest \subseteq dom
        OBVIOUS
      <3>2. \A a, b \in rest : a.pk = b.pk => a.host = b.host
        BY <3>1 DEF HostInv, PksUnique
      <3> HIDE DEF rest, new
      <3>3. \A a \in rest : a.pk # pk
        BY <2>2
      <3>4. CASE d.pk = pk
        BY <2>4, <3>3, <3>4
      <3>5. CASE d.pk # pk
        <4>1. PICK a \in rest : d.pk = a.pk /\ d.host = a.host
          BY <2>4, <3>5
        <4>2. PICK b \in rest : e.pk = b.pk /\ e.host = b.host
          BY <2>4, <3>5
        <4> QED BY <3>2, <4>1, <4>2
      <3> QED BY <3>4, <3>5
    <2>7. Known'
      <3> SUFFICES ASSUME NEW u \in Threads, NEW r \in req'[u].loaded, NEW e \in dom', e.pk = r.pk
                   PROVE  e.host = r.host \/ e.host \in overlapped'
        BY DEF Known, Agrees
      <3>1. u # t /\ r \in req[u].loaded
        BY <1>1 DEF Stepped
      <3>2. r.pk \in Keys(u) /\ r.pk \in LoadedPks
        <4>1. r.pk \in {l.pk : l \in req[u].loaded}
          BY <3>1
        <4> QED BY <4>1 DEF Keys, LoadedPks
      <3>3. rest \subseteq dom
        OBVIOUS
      <3> HIDE DEF rest, new
      <3>4. CASE e.pk = pk /\ e.host = req[t].host
        <4>1. r.pk \in Keys(t)
          BY <2>2, <3>2, <3>4
        <4>2. Overtaken(t) = {req[t].host}
          BY <3>1, <3>2, <4>1 DEF Overtaken
        <4> QED BY <1>3, <3>4, <4>2
      <3>5. CASE \E d \in rest : e.pk = d.pk /\ e.host = d.host
        BY <1>3, <3>1, <3>3, <3>5 DEF HostInv, Known, Agrees
      <3> QED BY <2>4, <3>4, <3>5
    <2>8. HostTypes'
      BY <1>1, <2>4 DEF HostInv, HostTypes, Stepped
    <2> QED BY <2>5, <2>6, <2>7, <2>8 DEF HostInv
  <1> QED BY <1>2, <1>3 DEF DomainSave

\* What a thread reads when it starts has the right type.
LEMMA StartHosts ==
  ASSUME HostInv, NEW t \in Threads, NEW s \in Shards, NEW x \in DOMAIN Canon, NEW h \in Typed,
         \/ CreateFields(t, x, s, h) \/ AdminAdd(t, x, s)
         \/ \E force \in BOOLEAN : BootCheck(t, x, s, h, force)
  PROVE  /\ Stepped
         /\ UNCHANGED <<dom, unforgotten, overlapped>>
  <1>1. normalize_host(h) \in HostSeq
    BY DEF normalize_host, Typed, HostSeq
  <1>2. validate_schema_name(x) # None => validate_schema_name(x) \in Names
    BY CatalogConstants DEF validate_schema_name
  <1> DEFINE name == validate_schema_name(x)
             host == normalize_host(h)
  <1>3. PICK pc \in {"schema", "insert", "boot tenant"} :
          /\ name # None
          /\ \/ req' = [req EXCEPT ![t] = [Quiet EXCEPT !.pc = pc, !.shard = s, !.name = name,
                                                        !.host = host]]
             \/ req' = [req EXCEPT ![t] = [Quiet EXCEPT !.pc = pc, !.shard = s, !.name = name]]
    <2>1. CASE CreateFields(t, x, s, h)
      BY <2>1 DEF CreateFields, ValidNewName
    <2>2. CASE AdminAdd(t, x, s)
      BY <2>2 DEF AdminAdd, ValidNewName
    <2>3. CASE \E force \in BOOLEAN : BootCheck(t, x, s, h, force)
      BY <2>3 DEF BootCheck
    <2> QED BY <2>1, <2>2, <2>3
  <1>4. PICK r \in Request : Ready(r) /\ r.loaded = {} /\ req' = [req EXCEPT ![t] = r]
    <2>0. name \in Names /\ host \in HostSeq
      BY <1>1, <1>2, <1>3
    <2> HIDE DEF name, host
    <2>1. Quiet \in Request /\ Quiet.loaded = {}
      BY QuietRequest
    <2>2. /\ [Quiet EXCEPT !.pc = pc, !.shard = s, !.name = name, !.host = host] \in Request
          /\ Ready([Quiet EXCEPT !.pc = pc, !.shard = s, !.name = name, !.host = host])
          /\ [Quiet EXCEPT !.pc = pc, !.shard = s, !.name = name, !.host = host].loaded = {}
      BY <2>0, <2>1 DEF Request, Ready
    <2>3. /\ [Quiet EXCEPT !.pc = pc, !.shard = s, !.name = name] \in Request
          /\ Ready([Quiet EXCEPT !.pc = pc, !.shard = s, !.name = name])
          /\ [Quiet EXCEPT !.pc = pc, !.shard = s, !.name = name].loaded = {}
      BY <2>0, <2>1 DEF Request, Ready
    <2> QED BY <1>3, <2>2, <2>3
  <1>5. UNCHANGED <<dom, unforgotten, overlapped>>
    BY DEF CreateFields, AdminAdd, BootCheck, rowVars
  <1>6. HostTypes
    BY DEF HostInv
  <1> QED BY <1>4, <1>5, <1>6, Moves

\* Every step of a thread keeps the hosts in order.
LEMMA ThreadHosts ==
  ASSUME HostInv, tenant \in [Ids -> TenantRow], NEW t \in Threads, ThreadStep(t), UNCHANGED menu
  PROVE  HostInv'
  <1> DEFINE Same == UNCHANGED <<dom, unforgotten, overlapped>>
  <1>0. /\ HostTypes /\ req[t] \in Request
        /\ req[t].host \in HostSeq /\ req[t].id \in Ids \cup {Public}
        /\ menu.hosts \subseteq Typed /\ menu.domains \subseteq Typed
    BY DEF HostInv, HostTypes, Request
  <1>1. ASSUME Stepped, Same PROVE HostInv'
    BY <1>1, SameHosts
  <1>2. ASSUME Stepped, Added, UNCHANGED overlapped PROVE HostInv'
    BY <1>2, AddedHosts
  <1>12. \A d \in dom : Loaded(d) \in LoadedRow
    BY <1>0 DEF HostTypes, DomainRow, Loaded, LoadedRow
  <1>3. ASSUME NEW x \in DOMAIN Canon, NEW s \in Shards,
               \/ \E h \in menu.hosts : \/ CreateFields(t, x, s, h)
                                       \/ \E force \in BOOLEAN : BootCheck(t, x, s, h, force)
               \/ AdminAdd(t, x, s)
        PROVE  HostInv'
    <2>1. PICK h \in Typed : \/ CreateFields(t, x, s, h) \/ AdminAdd(t, x, s)
                             \/ \E force \in BOOLEAN : BootCheck(t, x, s, h, force)
      <3>1. [labels |-> <<>>, dots |-> 0] \in Typed
        BY SMT DEF Typed
      <3> QED BY <1>0, <1>3, <3>1
    <2> QED BY <1>1, <2>1, StartHosts
  <1>4. CASE CreateValidate(t)
    BY <1>0, <1>1, <1>4, Going DEF CreateValidate, rowVars
  <1>5. CASE CreateInsert(t)
    <2>1. Stepped /\ UNCHANGED overlapped
      BY <1>0, <1>5, Going DEF CreateInsert
    <2>2. CASE KeepDomains
      BY <1>1, <2>1, <2>2 DEF KeepDomains
    <2>3. CASE ~KeepDomains
      <3>1. Unused # {} /\ InsertDomain(req[t].host, NewId)
        BY <1>5, <2>3 DEF CreateInsert
      <3> QED BY <1>0, <1>2, <2>1, <3>1, NewKeys, Inserted
    <2> QED BY <2>2, <2>3
  <1>6. CASE BootTenant(t)
    <2>1. PICK r \in Request : /\ Ready(r) /\ r.loaded \subseteq req[t].loaded
                               /\ req' = [req EXCEPT ![t] = r]
      <3>1. PICK i \in Ids \cup {Public} :
              req' = [req EXCEPT ![t].pc = "boot domain", ![t].id = i] \/ Done(t)
        BY <1>6, NewKeys DEF BootTenant, Named
      <3>2. /\ [req[t] EXCEPT !.pc = "boot domain", !.id = i] \in Request
            /\ [req[t] EXCEPT !.pc = "boot domain", !.id = i].loaded = req[t].loaded
        BY <1>0 DEF Request
      <3>3. Ready([req[t] EXCEPT !.pc = "boot domain", !.id = i])
        BY <1>0 DEF Request, Ready
      <3>4. Quiet \in Request /\ Ready(Quiet) /\ Quiet.loaded = {}
        BY QuietRequest
      <3> QED BY <1>0, <3>1, <3>2, <3>3, <3>4 DEF Done, HostTypes
    <2> QED BY <1>0, <1>1, <1>6, <2>1, Moves DEF BootTenant
  <1>7. CASE BootDomain(t)
    <2>1. Stepped /\ UNCHANGED overlapped
      BY <1>0, <1>7, Going DEF BootDomain
    <2>2. KeepDomains \/ InsertDomain(req[t].host, req[t].id)
      BY <1>7 DEF BootDomain
    <2>3. CASE KeepDomains
      BY <1>1, <2>1, <2>3 DEF KeepDomains
    <2>4. CASE InsertDomain(req[t].host, req[t].id)
      BY <1>0, <1>2, <2>1, <2>4, Inserted
    <2> QED BY <2>2, <2>3, <2>4
  <1>8. ASSUME NEW h \in menu.domains, NEW i \in Ids, UpdateCheck(t, i, h) PROVE HostInv'
    <2>1. normalize_host(h) \in HostSeq
      BY <1>0 DEF normalize_host, Typed, HostSeq
    <2> DEFINE host == normalize_host(h)
               r == [Quiet EXCEPT !.pc = "load", !.id = i, !.host = host]
    <2>2. req' = [req EXCEPT ![t] = r] /\ Same
      BY <1>8 DEF UpdateCheck, rowVars
    <2> HIDE DEF host
    <2>3. Quiet \in Request /\ Quiet.loaded = {}
      BY QuietRequest
    <2>4. r \in Request /\ Ready(r) /\ r.loaded \subseteq req[t].loaded
      BY <2>1, <2>3 DEF Request, Ready, host
    <2> QED BY <1>0, <1>1, <2>2, <2>4, Moves
  <1>9. CASE UpdateLoad(t)
    <2>1. CASE Done(t) \/ Goto(t, "save")
      BY <1>0, <1>1, <1>9, <2>1, Going DEF UpdateLoad, rowVars
    <2>2. ASSUME NEW d \in dom, req' = [req EXCEPT ![t].pc = "save", ![t].loaded = {Loaded(d)}]
          PROVE  HostInv'
      <3>1. {Loaded(d)} \in SUBSET LoadedRow
        BY <1>12
      <3> DEFINE r == [req[t] EXCEPT !.pc = "save", !.loaded = {Loaded(d)}]
      <3>2. r \in Request /\ Ready(r) /\ r.loaded = {Loaded(d)}
        BY <1>0, <3>1 DEF Request, Ready
      <3>3. req' = [req EXCEPT ![t] = r] /\ Same
        BY <1>0, <1>9, <2>2 DEF UpdateLoad, rowVars, HostTypes
      <3> HIDE DEF r
      <3> QED BY <3>2, <3>3, LoadHosts
    <2> QED BY <1>9, <2>1, <2>2 DEF UpdateLoad, PrimaryOf
  <1>10. ASSUME NEW h \in menu.domains, NEW pk \in 0..MaxDomains, NEW i \in Ids \cup {Public},
                NEW primary \in BOOLEAN, DomainForm(t, pk, i, h, primary)
         PROVE  HostInv'
    <2>1. normalize_host(h) \in HostSeq
      BY <1>0 DEF normalize_host, Typed, HostSeq
    <2> DEFINE host == normalize_host(h)
               rows == {Loaded(d) : d \in {e \in dom : e.pk = pk}}
               r == [Quiet EXCEPT !.pc = "save", !.id = i, !.primary = primary, !.host = host,
                                  !.loaded = rows]
    <2>2. req' = [req EXCEPT ![t] = r] /\ Same
      BY <1>10 DEF DomainForm, rowVars
    <2>3. rows \in SUBSET LoadedRow /\ \A l \in rows : \E d \in dom : l = Loaded(d)
      BY <1>12
    <2> HIDE DEF rows, host
    <2>4. Quiet \in Request
      BY QuietRequest
    <2>5. r \in Request /\ Ready(r) /\ r.loaded = rows
      BY <2>1, <2>3, <2>4 DEF Request, Ready, host
    <2> HIDE DEF r
    <2> QED BY <2>2, <2>3, <2>5, LoadHosts
  <1>11. CASE DomainSave(t)
    BY <1>11, SaveHosts
  <1>13. ASSUME NEW d \in dom, DomainDeleteLoad(t, d) PROVE HostInv'
    <2> DEFINE r == [Quiet EXCEPT !.pc = "delete", !.loaded = {Loaded(d)}]
    <2>1. req' = [req EXCEPT ![t] = r] /\ Same
      BY <1>13 DEF DomainDeleteLoad, rowVars
    <2>2. {Loaded(d)} \in SUBSET LoadedRow /\ Quiet \in Request
      BY <1>12, QuietRequest
    <2>3. r \in Request /\ Ready(r) /\ r.loaded = {Loaded(d)}
      BY <2>2 DEF Request, Ready
    <2> HIDE DEF r
    <2> QED BY <2>1, <2>3, LoadHosts
  <1>14. CASE DomainDelete(t)
    BY <1>0, <1>14, Going, DeleteHosts DEF DomainDelete
  <1>15. ASSUME NEW i \in Ids, NEW b \in BOOLEAN, DestroyLoad(t, i, b) PROVE HostInv'
    <2>1. Live(i) /\ Same
      BY <1>15 DEF DestroyLoad, rowVars
    <2> DEFINE r == [Quiet EXCEPT !.pc = "collect", !.id = i, !.drop = b,
                                  !.shard = tenant[i].shard, !.name = tenant[i].name]
    <2>2. req' = [req EXCEPT ![t] = r]
      BY <1>15 DEF DestroyLoad
    <2>3. tenant[i].shard \in Shards \cup {None} /\ tenant[i].name \in Names \cup {None}
      BY DEF TenantRow
    <2>4. Quiet \in Request /\ Quiet.loaded = {}
      BY QuietRequest
    <2>5. r \in Request /\ Ready(r) /\ r.loaded \subseteq req[t].loaded
      BY <2>3, <2>4 DEF Request, Ready
    <2> HIDE DEF r
    <2> QED BY <1>0, <1>1, <2>1, <2>2, <2>5, Moves
  <1>16. CASE DestroyCollect(t)
    <2> DEFINE rows == {Loaded(d) : d \in {e \in dom : e.tenant = req[t].id}}
               r == [req[t] EXCEPT !.pc = "destroy", !.loaded = rows]
    <2>1. req' = [req EXCEPT ![t] = r] /\ Same
      BY <1>0, <1>16 DEF DestroyCollect, rowVars, HostTypes
    <2>2. rows \in SUBSET LoadedRow /\ \A l \in rows : \E d \in dom : l = Loaded(d)
      BY <1>12
    <2> HIDE DEF rows
    <2>3. r \in Request /\ Ready(r) /\ r.loaded = rows
      BY <1>0, <2>2 DEF Request, Ready
    <2> HIDE DEF r
    <2> QED BY <2>1, <2>2, <2>3, LoadHosts
  <1>17. CASE Destroy(t)
    <2>1. Stepped /\ UNCHANGED overlapped
      BY <1>0, <1>17, Going DEF Destroy
    <2>2. \/ dom' = {d \in dom : d.pk \notin Keys(t)} /\ Invalidated(DeleteForgets(t))
          \/ KeepDomains
      BY <1>17 DEF Destroy
    <2> QED BY <1>1, <2>1, <2>2, DeleteHosts DEF KeepDomains
  <1> QED BY <1>3, <1>4, <1>5, <1>6, <1>7, <1>8, <1>9, <1>10, <1>11, <1>13, <1>14, <1>15,
         <1>16, <1>17 DEF ThreadStep

-----------------------------------------------------------------------------
(* Everybody else.                                                         *)

\* The commands and the admin site, but for the rows that threads edit.
LEMMA TableHosts ==
  ASSUME HostInv, TableStep, UNCHANGED menu PROVE HostInv'
  <1>0. HostTypes /\ menu.domains \subseteq Typed
    BY DEF HostInv, HostTypes
  <1>1. ASSUME UNCHANGED <<dom, req, unforgotten, overlapped>> PROVE HostInv'
    BY <1>0, <1>1, SameHosts DEF Stepped, HostTypes
  <1>4. ASSUME NEW h \in menu.domains, BootstrapPublic(h) PROVE HostInv'
    <2>1. normalize_host(h) \in HostSeq
      BY <1>0 DEF normalize_host, Typed, HostSeq
    <2>2. UNCHANGED <<req, overlapped>> /\ InsertDomain(normalize_host(h), Public)
      BY <1>4 DEF BootstrapPublic
    <2>3. Stepped
      BY <1>0, <2>2 DEF Stepped, HostTypes
    <2>4. Added
      BY <2>1, <2>2, Inserted
    <2> QED BY <2>2, <2>3, <2>4, AddedHosts
  <1>6. ASSUME NEW i \in Ids,
               (\E s \in Shards : AdminMove(i, s)) \/ AdminConfirm(i) \/ CreateTenantSchema(i)
        PROVE  HostInv'
    BY <1>1, <1>6 DEF AdminMove, AdminConfirm, CreateTenantSchema, rowVars
  <1>7. ASSUME \E b \in BOOLEAN : SyncShards(b) PROVE HostInv'
    BY <1>1, <1>7 DEF SyncShards, Tables
  <1>8. ASSUME NEW s \in Shards,
               \/ ShardActivate(s) \/ ShardDeactivate(s) \/ ShardDestroy(s) \/ ShardAdminDelete(s)
               \/ \E row \in Shards \cup {None}, b \in BOOLEAN : ShardAdminForm(row, s, b)
        PROVE  HostInv'
    BY <1>1, <1>8 DEF ShardActivate, ShardDeactivate, ShardDestroy, ShardAdminDelete,
       ShardAdminForm, PutShard, Tables
  <1>9. ASSUME \/ \E old \in {{}} \cup {{r} : r \in rules}, form \in menu.forms : RuleSave(old, form)
               \/ \E r \in rules : RuleToggle(r) \/ RuleDelete(r)
        PROVE  HostInv'
    BY <1>1, <1>9 DEF RuleSave, RuleToggle, RuleDelete, Tables
  <1> QED BY <1>4, <1>6, <1>7, <1>8, <1>9 DEF TableStep

\* Jobs and drops leave the hosts alone.
LEMMA OtherHosts ==
  ASSUME HostInv, UNCHANGED menu,
         \/ \E i \in Ids : JobMissing(i)
         \/ \E w \in menu.workers : WorkerStep(w)
         \/ \E d \in menu.droppers : DropperStep(d)
  PROVE  HostInv'
  <1>1. UNCHANGED <<dom, req, unforgotten, overlapped>>
    <2>1. CASE \E i \in Ids : JobMissing(i)
      BY <2>1 DEF JobMissing, Aside
    <2>2. CASE \E w \in menu.workers : WorkerStep(w)
      BY <2>2 DEF WorkerStep, JobLoad, LegacyClaim, JobCheck, JobClaim, JobCreate, JobMigrate,
         JobFinish, LegacyEnsure, LegacyRun, LegacyFinal, JobRaises, JobDies, Aside
    <2>3. CASE \E d \in menu.droppers : DropperStep(d)
      BY <2>3 DEF DropperStep, DropTask, DropByHand, DropLive, DropExists, DropRun, DropDies,
         DropQuiet, rowVars
    <2> QED BY <2>1, <2>2, <2>3
  <1> QED BY <1>1, SameHosts DEF HostInv, HostTypes, Stepped

------------------------------------------------------------------------------
(* Rows, schemas and jobs *)

Places == Shards \X Names
SchemaState == [exists : BOOLEAN, relations : BOOLEAN, data : SUBSET Ids]
Job == [pc : {"idle", "check", "claim", "create", "migrate", "finish",
              "legacy ensure", "legacy run", "legacy final"},
        id : Ids \cup {Public}, at : (Shards \cup {None}) \X (Names \cup {None}),
        check : BOOLEAN, prev : Status]

\* Unless the operator took it over or moved it, the tenant has its own data only.
Clean(i) ==
    Live(i) /\ ~tenant[i].moved /\ ~tenant[i].adopted => schema[Home(i)].data \subseteq {i}

\* Rows of one name do not live together; a tenant in use is clean, and so is one
\* that a job has looked at.
Rows ==
    \A i \in Ids :
        /\ Live(i) => tenant[i].name \in Names /\ tenant[i].shard \in Shards
        /\ tenant[i].status = "new" /\ tenant[i].prev = "failed" => tenant[i].adopted
        /\ tenant[i].status \in {"pending", "active"} => Clean(i)
        /\ \A j \in Ids : Live(i) /\ Live(j) /\ tenant[i].name = tenant[j].name => i = j

\* Data is in tables and tables are in a schema.
Layers ==
    \A at \in Places : /\ schema[at].relations => schema[at].exists
                       /\ schema[at].data # {} => schema[at].relations

\* A job works on a row that was there, where the row said it was, and is past the
\* look at the schema only if the tenant is clean.
Sound(j) ==
    j.pc # "idle" =>
        /\ j.id \in Ids /\ tenant[j.id].status # "free"
        /\ Live(j.id) /\ ~tenant[j.id].moved => j.at = Home(j.id)
        /\ (j.pc = "check" /\ j.check) \/ Clean(j.id)

DataTypes ==
    /\ menu.workers \subseteq Workers
    /\ tenant \in [Ids -> TenantRow]
    /\ schema \in [Places -> SchemaState]
    /\ job \in [Workers -> Job]

DataInv == DataTypes /\ Rows /\ Layers /\ \A w \in Workers : Sound(job[w])

-----------------------------------------------------------------------------
(* What steps do to rows and schemas.                                       *)

\* A row that is there keeps its name, and its shard unless it is moved.
RowKept(i) ==
    /\ tenant[i].status = "free" => tenant'[i].status = "free"
    /\ tenant[i].status # "free" => tenant'[i].status # "free"
    /\ tenant'[i].status \notin {"free", "gone"} =>
          /\ Live(i) /\ tenant'[i].name = tenant[i].name /\ tenant'[i].shard \in Shards
          /\ ~tenant'[i].moved => ~tenant[i].moved /\ tenant'[i].shard = tenant[i].shard
          /\ ~tenant'[i].adopted => ~tenant[i].adopted
    /\ tenant'[i].status = "new" /\ tenant'[i].prev = "failed" => tenant'[i].adopted
    /\ tenant'[i].status \in {"pending", "active"} => Clean(i) \/ tenant'[i].adopted

\* A job that is sound, or whose tenant is taken over.
SoundAfter(j) ==
    j.pc # "idle" =>
        /\ j.id \in Ids /\ tenant[j.id].status # "free"
        /\ Live(j.id) /\ ~tenant[j.id].moved => j.at = Home(j.id)
        /\ (j.pc = "check" /\ j.check) \/ Clean(j.id) \/ tenant'[j.id].adopted

\* A schema gets data only from a live tenant whose home it is.
DataKept ==
    \A at \in Places : \A j \in schema'[at].data :
        j \in schema[at].data \/ (j \in Ids /\ Live(j) /\ Home(j) = at)

\* A tenant that was clean stays so.
LEMMA CleanKept ==
  ASSUME DataInv, DataTypes', DataKept, NEW i \in Ids, RowKept(i), Clean(i), tenant[i].status # "free"
  PROVE  Clean(i)'
  <1> SUFFICES ASSUME Live(i)', ~tenant'[i].moved, ~tenant'[i].adopted
               PROVE  schema'[Home(i)'].data \subseteq {i}
    BY DEF Clean
  <1>1. Live(i) /\ ~tenant[i].moved /\ ~tenant[i].adopted /\ Home(i)' = Home(i)
    BY DEF RowKept, Live, Home
  <1>2. Home(i) \in Places /\ schema[Home(i)].data \subseteq {i}
    BY <1>1 DEF DataInv, Rows, Clean, Home, Places
  <1>3. \A j \in Ids : Live(j) /\ Home(j) = Home(i) => j = i
    BY <1>1 DEF DataInv, Rows, Home
  <1> QED BY <1>1, <1>2, <1>3 DEF DataKept

\* Steps that keep the rows, the data and the jobs in order keep the invariant.
LEMMA Kept ==
  ASSUME DataInv, DataTypes', DataKept, Layers', \A i \in Ids : RowKept(i),
         \A w \in Workers : SoundAfter(job'[w])
  PROVE  DataInv'
  <1>1. Rows'
    <2> SUFFICES ASSUME NEW i \in Ids
                 PROVE  /\ Live(i)' => tenant'[i].name \in Names /\ tenant'[i].shard \in Shards
                        /\ tenant'[i].status = "new" /\ tenant'[i].prev = "failed" => tenant'[i].adopted
                        /\ tenant'[i].status \in {"pending", "active"} => Clean(i)'
                        /\ \A j \in Ids : Live(i)' /\ Live(j)' /\ tenant'[i].name = tenant'[j].name => i = j
      BY DEF Rows
    <2>1. Live(i)' => tenant'[i].name \in Names /\ tenant'[i].shard \in Shards
      BY DEF DataInv, Rows, RowKept, Live
    <2>2. tenant'[i].status \in {"pending", "active"} => Clean(i)'
      BY CleanKept DEF RowKept, Live, Clean
    <2>3. \A j \in Ids : Live(i)' /\ Live(j)' /\ tenant'[i].name = tenant'[j].name => i = j
      BY DEF DataInv, Rows, RowKept, Live
    <2> QED BY <2>1, <2>2, <2>3 DEF RowKept
  <1>2. ASSUME NEW w \in Workers PROVE Sound(job[w])'
    <2> SUFFICES ASSUME job'[w].pc # "idle"
                 PROVE  /\ job'[w].id \in Ids /\ tenant'[job'[w].id].status # "free"
                        /\ Live(job[w].id)' /\ ~tenant'[job'[w].id].moved => job'[w].at = Home(job[w].id)'
                        /\ (job'[w].pc = "check" /\ job'[w].check) \/ Clean(job[w].id)'
      BY DEF Sound
    <2>1. SoundAfter(job'[w])
      OBVIOUS
    <2>2. PICK i \in Ids : i = job'[w].id /\ RowKept(i) /\ tenant[i].status # "free"
      BY <2>1 DEF SoundAfter
    <2>3. Live(i)' /\ ~tenant'[i].moved => job'[w].at = Home(i)'
      BY <2>1, <2>2 DEF SoundAfter, RowKept, Live, Home
    <2>4. Clean(i) => Clean(i)'
      BY <2>2, CleanKept
    <2> QED BY <2>1, <2>2, <2>3, <2>4 DEF SoundAfter, RowKept, Live, Home, Clean
  <1> QED BY <1>1, <1>2 DEF DataInv

\* A schema that changes in one place changes as it may there.
SchemaKept == schema' \in [Places -> SchemaState] /\ DataKept /\ Layers'

LawfulState(at, new) ==
    /\ new \in SchemaState
    /\ new.relations => new.exists
    /\ new.data # {} => new.relations
    /\ \A j \in new.data : j \in schema[at].data \/ (j \in Ids /\ Live(j) /\ Home(j) = at)

\* Nothing happens to the schemas.
LEMMA SchemaSame ==
  ASSUME DataInv, UNCHANGED schema PROVE SchemaKept
  BY DEF DataInv, DataTypes, Layers, SchemaKept, DataKept

\* One schema changes, lawfully.
LEMMA SchemaPut ==
  ASSUME DataInv, NEW at, NEW new, at \in Places => LawfulState(at, new),
         schema' = [schema EXCEPT ![at] = new]
  PROVE  SchemaKept
  <1>1. schema \in [Places -> SchemaState] /\ Layers
    BY DEF DataInv, DataTypes
  <1>2. CASE at \notin Places
    <2>1. schema' = schema
      BY <1>1, <1>2
    <2> QED BY <2>1, SchemaSame
  <1>3. CASE at \in Places
    <2>1. /\ schema' \in [Places -> SchemaState] /\ schema'[at] = new
          /\ \A x \in Places \ {at} : schema'[x] = schema[x]
      BY <1>1, <1>3 DEF LawfulState
    <2>2. Layers'
      BY <1>1, <1>3, <2>1 DEF Layers, LawfulState
    <2>3. DataKept
      BY <1>3, <2>1 DEF DataKept, LawfulState
    <2> QED BY <2>1, <2>2, <2>3 DEF SchemaKept
  <1> QED BY <1>2, <1>3

\* What CREATE SCHEMA, a migration, DROP SCHEMA and a tenant's rows do is lawful.
LEMMA LawfulChanges ==
  ASSUME DataInv, NEW at \in Places
  PROVE  /\ LawfulState(at, [schema[at] EXCEPT !.exists = TRUE])
         /\ schema[at].exists => LawfulState(at, [schema[at] EXCEPT !.relations = TRUE])
         /\ ~schema[at].exists => LawfulState(at, [schema[at] EXCEPT !.relations = FALSE])
         /\ LawfulState(at, NoSchema)
         /\ \A i \in Ids : schema[at].relations /\ Live(i) /\ Home(i) = at =>
               LawfulState(at, [schema[at] EXCEPT !.data = @ \cup {i}])
  <1>1. /\ schema[at] \in SchemaState
        /\ schema[at].relations => schema[at].exists
        /\ schema[at].data # {} => schema[at].relations
    BY DEF DataInv, DataTypes, Layers
  <1>2. LawfulState(at, [schema[at] EXCEPT !.exists = TRUE])
    BY <1>1 DEF LawfulState, SchemaState
  <1>3. schema[at].exists => LawfulState(at, [schema[at] EXCEPT !.relations = TRUE])
    BY <1>1 DEF LawfulState, SchemaState
  <1>4. ~schema[at].exists => LawfulState(at, [schema[at] EXCEPT !.relations = FALSE])
    BY <1>1 DEF LawfulState, SchemaState
  <1>5. LawfulState(at, NoSchema)
    BY <1>1 DEF LawfulState, SchemaState, NoSchema
  <1>6. ASSUME NEW i \in Ids, schema[at].relations, Live(i), Home(i) = at
        PROVE  LawfulState(at, [schema[at] EXCEPT !.data = @ \cup {i}])
    BY <1>1, <1>6 DEF LawfulState, SchemaState
  <1> QED BY <1>2, <1>3, <1>4, <1>5, <1>6

\* CREATE SCHEMA.
LEMMA SchemaCreated ==
  ASSUME DataInv, NEW at, schema' = [schema EXCEPT ![at].exists = TRUE] PROVE SchemaKept
  <1>1. schema' = [schema EXCEPT ![at] = [schema[at] EXCEPT !.exists = TRUE]]
    BY DEF DataInv, DataTypes
  <1> QED BY <1>1, LawfulChanges, SchemaPut

\* Migrations make tables, in a schema that exists.
LEMMA SchemaMigrated ==
  ASSUME DataInv, NEW at, schema[at].exists, schema' = [schema EXCEPT ![at].relations = TRUE]
  PROVE  SchemaKept
  <1>1. schema' = [schema EXCEPT ![at] = [schema[at] EXCEPT !.relations = TRUE]]
    BY DEF DataInv, DataTypes
  <1> QED BY <1>1, LawfulChanges, SchemaPut

\* The legacy executor makes them only if the schema exists.
LEMMA SchemaLegacy ==
  ASSUME DataInv, NEW at, schema' = [schema EXCEPT ![at].relations = schema[at].exists]
  PROVE  SchemaKept
  <1>1. CASE at \notin Places
    <2>1. schema' = schema
      BY <1>1 DEF DataInv, DataTypes
    <2> QED BY <2>1, SchemaSame
  <1>2. CASE at \in Places /\ schema[at].exists
    <2>1. schema[at].exists = TRUE
      BY <1>2 DEF DataInv, DataTypes, SchemaState
    <2>2. schema' = [schema EXCEPT ![at] = [schema[at] EXCEPT !.relations = TRUE]]
      BY <1>2, <2>1 DEF DataInv, DataTypes
    <2> QED BY <1>2, <2>2, LawfulChanges, SchemaPut
  <1>3. CASE at \in Places /\ ~schema[at].exists
    <2>1. schema[at].exists = FALSE
      BY <1>3 DEF DataInv, DataTypes, SchemaState
    <2>2. schema' = [schema EXCEPT ![at] = [schema[at] EXCEPT !.relations = FALSE]]
      BY <1>3, <2>1 DEF DataInv, DataTypes
    <2> QED BY <1>3, <2>2, LawfulChanges, SchemaPut
  <1> QED BY <1>1, <1>2, <1>3

\* A tenant that is served writes to its home.
LEMMA SchemaServed ==
  ASSUME DataInv, NEW i \in Ids, Live(i), Serve(i) PROVE SchemaKept
  <1> DEFINE at == Home(i)
  <1>1. at \in Places
    BY DEF DataInv, Rows, Home, Places
  <1>2. schema' = [schema EXCEPT ![at].data = @ \cup (IF schema[at].relations THEN {i} ELSE {})]
    BY DEF Serve
  <1>3. CASE schema[at].relations
    <2>1. schema' = [schema EXCEPT ![at] = [schema[at] EXCEPT !.data = @ \cup {i}]]
      <3> HIDE DEF at
      <3> QED BY <1>2, <1>3 DEF DataInv, DataTypes
    <2> QED BY <1>1, <1>3, <2>1, LawfulChanges, SchemaPut
  <1>4. CASE ~schema[at].relations
    <2>1. schema' = schema
      <3> HIDE DEF at
      <3>1. schema' = [schema EXCEPT ![at].data = @ \cup {}]
        BY <1>2, <1>4
      <3>2. schema[at] \in SchemaState /\ schema \in [Places -> SchemaState]
        BY <1>1 DEF DataInv, DataTypes
      <3> QED BY <1>1, <3>1, <3>2 DEF SchemaState
    <2> QED BY <2>1, SchemaSame
  <1> QED BY <1>3, <1>4

\* A row that becomes new changes as it may.
RowsKept == tenant' \in [Ids -> TenantRow] /\ \A i \in Ids : RowKept(i)

LawfulRow(i, new) ==
    /\ new \in TenantRow /\ tenant[i].status # "free" /\ new.status # "free"
    /\ new.status # "gone" =>
          /\ Live(i) /\ new.name = tenant[i].name /\ new.shard \in Shards
          /\ ~new.moved => ~tenant[i].moved /\ new.shard = tenant[i].shard
          /\ ~new.adopted => ~tenant[i].adopted
    /\ new.status = "new" /\ new.prev = "failed" => new.adopted
    /\ new.status \in {"pending", "active"} => Clean(i) \/ new.adopted

\* Nothing happens to the rows.
LEMMA RowsSame ==
  ASSUME DataInv, UNCHANGED tenant PROVE RowsKept
  BY DEF DataInv, DataTypes, Rows, RowsKept, RowKept, Live

\* One row changes, lawfully.
LEMMA RowPut ==
  ASSUME DataInv, NEW i \in Ids, NEW new, LawfulRow(i, new), tenant' = [tenant EXCEPT ![i] = new]
  PROVE  RowsKept
  <1>1. /\ tenant' \in [Ids -> TenantRow] /\ tenant'[i] = new
        /\ \A j \in Ids \ {i} : tenant'[j] = tenant[j]
    BY DEF DataInv, DataTypes, LawfulRow
  <1>2. RowKept(i)
    BY <1>1 DEF LawfulRow, RowKept
  <1>3. \A j \in Ids \ {i} : RowKept(j)
    BY <1>1 DEF DataInv, Rows, RowKept, Live
  <1> QED BY <1>1, <1>2, <1>3 DEF RowsKept

\* An UPDATE of the status of a row that is there.
LEMMA RowStatus ==
  ASSUME DataInv, NEW i \in Ids, Live(i), NEW to \in {"pending", "active", "failed"},
         to \in {"pending", "active"} => Clean(i), NEW prev \in Status,
         \/ tenant' = [tenant EXCEPT ![i].status = to, ![i].prev = prev]
         \/ tenant' = [tenant EXCEPT ![i].status = to]
  PROVE  RowsKept
  <1>1. /\ tenant \in [Ids -> TenantRow] /\ tenant[i].shard \in Shards /\ tenant[i] \in TenantRow
        /\ tenant[i].status # "free"
    BY DEF DataInv, DataTypes, Rows, Live
  <1>2. CASE tenant' = [tenant EXCEPT ![i].status = to, ![i].prev = prev]
    <2> DEFINE new == [tenant[i] EXCEPT !.status = to, !.prev = prev]
    <2>1. tenant' = [tenant EXCEPT ![i] = new]
      BY <1>1, <1>2
    <2>2. LawfulRow(i, new)
      BY <1>1 DEF LawfulRow, TenantRow, Status
    <2> HIDE DEF new
    <2> QED BY <2>1, <2>2, RowPut
  <1>3. CASE tenant' = [tenant EXCEPT ![i].status = to]
    <2> DEFINE new == [tenant[i] EXCEPT !.status = to]
    <2>1. tenant' = [tenant EXCEPT ![i] = new]
      BY <1>1, <1>3
    <2>2. LawfulRow(i, new)
      BY <1>1 DEF LawfulRow, TenantRow, Status
    <2> HIDE DEF new
    <2> QED BY <2>1, <2>2, RowPut
  <1> QED BY <1>2, <1>3

\* One job goes on, soundly.
LEMMA JobPut ==
  ASSUME DataInv, NEW w \in Workers, NEW j \in Job, Sound(j), job' = [job EXCEPT ![w] = j]
  PROVE  job' \in [Workers -> Job] /\ \A v \in Workers : Sound(job'[v])
  <1>1. /\ job' \in [Workers -> Job] /\ job'[w] = j
        /\ \A v \in Workers \ {w} : job'[v] = job[v]
    BY DEF DataInv, DataTypes
  <1>2. \A v \in Workers \ {w} : Sound(job[v])
    BY DEF DataInv
  <1> QED BY <1>1, <1>2

\* A job may end at any point, and go on past the look once the tenant is clean.
LEMMA JobGoes ==
  ASSUME DataInv, NEW w \in Workers, NEW pc \in {"claim", "create", "migrate", "finish",
                                               "legacy ensure", "legacy run", "legacy final"},
         \/ JobDone(w)
         \/ JobGoto(w, pc) /\ job[w].pc # "idle" /\ (job[w].pc # "check" \/ Clean(job[w].id))
  PROVE  job' \in [Workers -> Job] /\ \A v \in Workers : Sound(job'[v])
  <1>1. CASE JobDone(w)
    <2>1. NoJob \in Job /\ NoJob.pc = "idle"
      BY DEF NoJob, Job, Status
    <2>2. Sound(NoJob)
      BY <2>1 DEF Sound
    <2> QED BY <1>1, <2>1, <2>2, JobPut DEF JobDone
  <1>2. CASE JobGoto(w, pc) /\ job[w].pc # "idle" /\ (job[w].pc # "check" \/ Clean(job[w].id))
    <2>1. job[w] \in Job /\ Sound(job[w]) /\ job \in [Workers -> Job]
      BY DEF DataInv, DataTypes
    <2> DEFINE j == [job[w] EXCEPT !.pc = pc]
    <2>2. /\ j \in Job /\ j.pc = pc /\ j.id = job[w].id /\ j.at = job[w].at
          /\ pc \notin {"idle", "check"}
      BY <2>1 DEF Job
    <2>3. job' = [job EXCEPT ![w] = j]
      BY <1>2, <2>1 DEF JobGoto
    <2> HIDE DEF j
    <2>4. Sound(j)
      BY <1>2, <2>1, <2>2 DEF Sound
    <2> QED BY <2>2, <2>3, <2>4, JobPut
  <1> QED BY <1>1, <1>2

\* Jobs, rows and schemas together.
LEMMA AllKept ==
  ASSUME DataInv, UNCHANGED menu, RowsKept, SchemaKept,
         job' \in [Workers -> Job], \A v \in Workers : Sound(job'[v])
  PROVE  DataInv'
  <1>1. DataTypes'
    BY DEF DataInv, DataTypes, RowsKept, SchemaKept
  <1>2. \A v \in Workers : SoundAfter(job'[v])
    BY DEF Sound, SoundAfter
  <1> QED BY <1>1, <1>2, Kept DEF RowsKept, SchemaKept

-----------------------------------------------------------------------------
(* Jobs.                                                                   *)

\* The row of a job.
LEMMA JobRow ==
  ASSUME DataInv, NEW w \in Workers, job[w].pc # "idle"
  PROVE  /\ job[w].id \in Ids /\ tenant[job[w].id].status \in Status \ {"free"}
         /\ job[w].pc # "check" => Clean(job[w].id)
         /\ Live(job[w].id) /\ ~tenant[job[w].id].moved => job[w].at = Home(job[w].id)
  <1>1. Sound(job[w]) /\ tenant \in [Ids -> TenantRow]
    BY DEF DataInv, DataTypes
  <1>2. job[w].id \in Ids /\ tenant[job[w].id].status # "free"
    BY <1>1 DEF Sound
  <1>3. tenant[job[w].id].status \in Status
    BY <1>1, <1>2 DEF TenantRow
  <1> QED BY <1>1, <1>2, <1>3 DEF Sound

\* The compare-and-swap of a job leaves its row lawful.
LEMMA CasKept ==
  ASSUME DataInv, NEW w \in Workers, job[w].pc # "idle",
         NEW from \in SUBSET {"new", "pending"}, NEW to \in {"pending", "active", "failed"},
         NEW prev \in Status, Cas(w, from, to, prev),
         to \in {"pending", "active"} => Clean(job[w].id)
  PROVE  RowsKept
  <1>1. job[w].id \in Ids
    BY JobRow
  <1>2. CASE Mine(w).status \in from
    <2>1. Live(job[w].id)
      BY <1>2 DEF Mine, Live
    <2>2. tenant' = [tenant EXCEPT ![job[w].id].status = to, ![job[w].id].prev = prev]
      BY <1>2 DEF Cas
    <2> QED BY <1>1, <2>1, <2>2, RowStatus
  <1>3. CASE Mine(w).status \notin from
    BY <1>3, RowsSame DEF Cas
  <1> QED BY <1>2, <1>3

\* So does the UPDATE of the legacy command.
LEMMA PutKept ==
  ASSUME DataInv, NEW w \in Workers, job[w].pc # "idle",
         NEW to \in {"pending", "active", "failed"}, Put(w, to),
         to \in {"pending", "active"} => Clean(job[w].id)
  PROVE  RowsKept
  <1>1. job[w].id \in Ids
    BY JobRow
  <1>2. CASE Live(job[w].id)
    <2>1. tenant' = [tenant EXCEPT ![job[w].id].status = to]
      BY <1>2 DEF Put
    <2>2. "new" \in Status
      BY DEF Status
    <2> QED BY <1>1, <1>2, <2>1, <2>2, RowStatus
  <1>3. CASE ~Live(job[w].id)
    BY <1>3, RowsSame DEF Put
  <1> QED BY <1>2, <1>3

\* A job starts on a live row; it skips the look only for a tenant that was claimed
\* before or whose schema the operator confirmed.
LEMMA LoadKept ==
  ASSUME DataInv, UNCHANGED menu, NEW w \in Workers, NEW i \in Ids, JobLoad(w, i) PROVE DataInv'
  <1>1. /\ Live(i) /\ tenant[i].status \in {"new", "pending"} /\ tenant[i] \in TenantRow
        /\ tenant[i].name \in Names /\ tenant[i].shard \in Shards
        /\ tenant[i].status = "pending" => Clean(i)
        /\ tenant[i].status = "new" /\ tenant[i].prev = "failed" => tenant[i].adopted
    BY DEF JobLoad, DataInv, DataTypes, Rows, Live
  <1>2. Home(i) \in (Shards \cup {None}) \X (Names \cup {None})
    BY <1>1 DEF Home
  <1>3. NoJob \in Job
    BY DEF NoJob, Job, Status
  <1> DEFINE look == tenant[i].status = "new" /\ tenant[i].prev # "failed"
             j == [NoJob EXCEPT !.pc = "check", !.id = i, !.at = Home(i), !.check = look]
  <1>4. job' = [job EXCEPT ![w] = j] /\ UNCHANGED <<tenant, schema>>
    BY DEF JobLoad
  <1>5. look \in BOOLEAN /\ (~look => Clean(i))
    BY <1>1 DEF Clean
  <1> HIDE DEF look
  <1>6. j \in Job /\ j.pc = "check" /\ j.id = i /\ j.at = Home(i) /\ j.check = look
    BY <1>2, <1>3, <1>5 DEF Job
  <1> HIDE DEF j
  <1>7. Sound(j)
    BY <1>1, <1>5, <1>6 DEF Sound
  <1>8. job' \in [Workers -> Job] /\ \A v \in Workers : Sound(job'[v])
    BY <1>4, <1>6, <1>7, JobPut
  <1> QED BY <1>4, <1>8, RowsSame, SchemaSame, AllKept

\* A schema that has no tables has no data of anyone.
LEMMA CheckKept ==
  ASSUME DataInv, UNCHANGED menu, NEW w \in Workers, JobCheck(w) PROVE DataInv'
  <1>1. job[w].pc = "check" /\ UNCHANGED schema
    BY DEF JobCheck
  <1>2. CASE job[w].check /\ At(w).relations
    <2>1. Cas(w, {"new"}, "failed", "new") /\ JobDone(w)
      BY <1>2 DEF JobCheck
    <2>2. RowsKept
      BY <1>1, <2>1, CasKept DEF Status
    <2> QED BY <1>1, <2>1, <2>2, JobGoes, SchemaSame, AllKept
  <1>3. CASE ~(job[w].check /\ At(w).relations)
    <2>1. JobGoto(w, "claim") /\ UNCHANGED tenant
      BY <1>3 DEF JobCheck
    <2>2. Clean(job[w].id)
      <3>1. Sound(job[w]) /\ job[w].id \in Ids
        BY <1>1, JobRow DEF DataInv
      <3>2. CASE ~job[w].check
        BY <1>1, <3>1, <3>2 DEF Sound
      <3>3. CASE ~At(w).relations
        <4> SUFFICES ASSUME Live(job[w].id), ~tenant[job[w].id].moved
                     PROVE  schema[Home(job[w].id)].data \subseteq {job[w].id}
          BY DEF Clean
        <4>1. job[w].at = Home(job[w].id)
          BY <1>1, <3>1 DEF Sound
        <4>2. Home(job[w].id) \in Places
          BY <3>1 DEF DataInv, Rows, Home, Places
        <4>3. schema[Home(job[w].id)].data = {}
          BY <3>3, <4>1, <4>2 DEF At, DataInv, Layers
        <4> QED BY <4>3
      <3> QED BY <1>3, <3>2, <3>3
    <2>3. job' \in [Workers -> Job] /\ \A v \in Workers : Sound(job'[v])
      BY <1>1, <2>1, <2>2, JobGoes
    <2> QED BY <1>1, <2>1, <2>3, RowsSame, SchemaSame, AllKept
  <1> QED BY <1>2, <1>3

\* The steps after the look, of a job that goes on or ends.
LEMMA StepKept ==
  ASSUME DataInv, UNCHANGED menu, NEW w \in Workers,
         JobClaim(w) \/ JobCreate(w) \/ JobMigrate(w) \/ JobFinish(w)
  PROVE  DataInv'
  <1> USE DEF Status
  <1>0. job[w].pc \in {"claim", "create", "migrate", "finish"} /\ job[w].pc # "check" /\ job[w].pc # "idle"
    BY DEF JobClaim, JobCreate, JobMigrate, JobFinish
  <1>1. Clean(job[w].id) /\ job[w].id \in Ids
    BY <1>0, JobRow
  <1>2. \A pc \in {"create", "migrate", "finish"} : JobGoto(w, pc) \/ JobDone(w) =>
           job' \in [Workers -> Job] /\ \A v \in Workers : Sound(job'[v])
    BY <1>0, JobGoes
  <1>3. CASE JobClaim(w)
    <2>1. RowsKept
      BY <1>0, <1>1, <1>3, CasKept DEF JobClaim
    <2>2. SchemaKept
      BY <1>3, SchemaSame DEF JobClaim
    <2>3. JobGoto(w, "create") \/ JobDone(w)
      BY <1>3 DEF JobClaim
    <2> QED BY <1>2, <2>1, <2>2, <2>3, AllKept
  <1>4. CASE JobCreate(w)
    <2>1. SchemaKept
      BY <1>4, SchemaCreated DEF JobCreate
    <2>2. RowsKept /\ JobGoto(w, "migrate")
      BY <1>4, RowsSame DEF JobCreate
    <2> QED BY <1>2, <2>1, <2>2, AllKept
  <1>5. CASE JobMigrate(w) /\ At(w).exists
    <2>1. SchemaKept
      BY <1>5, SchemaMigrated DEF JobMigrate, At
    <2>2. RowsKept /\ JobGoto(w, "finish")
      BY <1>5, RowsSame DEF JobMigrate
    <2> QED BY <1>2, <2>1, <2>2, AllKept
  <1>6. CASE JobMigrate(w) /\ ~At(w).exists
    <2>1. Cas(w, {"pending"}, "failed", "pending") /\ JobDone(w) /\ UNCHANGED schema
      BY <1>6 DEF JobMigrate
    <2>2. RowsKept
      BY <1>0, <2>1, CasKept
    <2> QED BY <1>2, <2>1, <2>2, SchemaSame, AllKept
  <1>7. CASE JobFinish(w)
    <2>1. Cas(w, {"pending"}, "active", "pending") /\ JobDone(w)
      BY <1>7 DEF JobFinish
    <2>2. RowsKept
      BY <1>0, <1>1, <2>1, CasKept
    <2>3. SchemaKept
      <3>1. CASE Mine(w).status = "pending"
        <4>1. Live(job[w].id) /\ Serve(job[w].id)
          BY <1>7, <3>1 DEF JobFinish, Mine, Live
        <4> QED BY <1>1, <4>1, SchemaServed
      <3>2. CASE Mine(w).status # "pending"
        BY <1>7, <3>2, SchemaSame DEF JobFinish
      <3> QED BY <3>1, <3>2
    <2> QED BY <1>2, <2>1, <2>2, <2>3, AllKept
  <1> QED BY <1>3, <1>4, <1>5, <1>6, <1>7

\* Jobs that fail, or die.
LEMMA FaultKept ==
  ASSUME DataInv, UNCHANGED menu, NEW w \in Workers, JobRaises(w) \/ JobDies(w) PROVE DataInv'
  <1> USE DEF Status
  <1>0. job[w].pc # "idle" /\ JobDone(w)
    BY DEF JobRaises, JobDies
  <1>1. job' \in [Workers -> Job] /\ \A v \in Workers : Sound(job'[v])
    BY <1>0, JobGoes
  <1>2. CASE JobDies(w)
    BY <1>1, <1>2, RowsSame, SchemaSame, AllKept DEF JobDies
  <1>3. CASE JobRaises(w)
    <2>1. SchemaKept
      BY <1>3, SchemaMigrated DEF JobRaises, At
    <2>2. Cas(w, {"pending"}, "failed", "pending") \/ Put(w, "failed")
      BY <1>3 DEF JobRaises
    <2>3. RowsKept
      BY <1>0, <2>2, CasKept, PutKept
    <2> QED BY <1>1, <2>1, <2>3, AllKept
  <1> QED BY <1>2, <1>3

\* The legacy command marks what it takes over, and writes by key alone: only to
\* rows it claimed, which are clean or marked.
LEMMA LegacyClaimKept ==
  ASSUME DataInv, UNCHANGED menu, NEW w \in Workers, NEW i \in Ids, NEW arguments,
         LegacyClaim(w, i, arguments)
  PROVE  DataInv'
  <1>1. /\ Live(i) /\ tenant[i].status \in {"new", "active"} /\ tenant[i] \in TenantRow
        /\ tenant[i].name \in Names /\ tenant[i].shard \in Shards
        /\ tenant[i].status = "active" => Clean(i)
        /\ tenant \in [Ids -> TenantRow]
    BY DEF LegacyClaim, LegacyTargets, Claimable, DataInv, DataTypes, Rows, Live, TenantRow, Status
  <1>2. Home(i) \in (Shards \cup {None}) \X (Names \cup {None})
    BY <1>1 DEF Home
  <1>3. NoJob \in Job
    BY DEF NoJob, Job, Status
  <1>4. UNCHANGED schema
    BY DEF LegacyClaim
  <1> DEFINE j == [NoJob EXCEPT !.pc = "legacy ensure", !.id = i, !.at = Home(i),
                                !.prev = tenant[i].status]
  <1>5. job' = [job EXCEPT ![w] = j]
    BY DEF LegacyClaim
  <1>6. j \in Job /\ j.pc = "legacy ensure" /\ j.id = i /\ j.at = Home(i)
    BY <1>1, <1>2, <1>3 DEF Job, Status
  <1> HIDE DEF j
  <1>7. CASE tenant[i].status = "active"
    <2> DEFINE new == [tenant[i] EXCEPT !.status = "pending", !.prev = "active"]
    <2>1. tenant' = [tenant EXCEPT ![i] = new]
      <3>1. tenant[i].adopted \in BOOLEAN
        BY <1>1 DEF TenantRow
      <3>2. (tenant[i].adopted \/ tenant[i].status = "new") = tenant[i].adopted
        BY <1>7, <3>1
      <3>3. tenant' = [tenant EXCEPT ![i].status = "pending", ![i].prev = "active",
                                     ![i].adopted = tenant[i].adopted]
        BY <1>1, <1>7, <3>2 DEF LegacyClaim
      <3> QED BY <1>1, <3>3 DEF TenantRow
    <2>2. LawfulRow(i, new)
      BY <1>1, <1>7 DEF LawfulRow, TenantRow, Status
    <2> HIDE DEF new
    <2>3. RowsKept
      BY <2>1, <2>2, RowPut
    <2>4. Sound(j)
      BY <1>1, <1>6, <1>7 DEF Sound
    <2>5. job' \in [Workers -> Job] /\ \A v \in Workers : Sound(job'[v])
      BY <1>5, <1>6, <2>4, JobPut
    <2> QED BY <1>4, <2>3, <2>5, SchemaSame, AllKept
  <1>8. CASE tenant[i].status = "new"
    <2> DEFINE new == [tenant[i] EXCEPT !.status = "pending", !.prev = "new", !.adopted = TRUE]
    <2>1. tenant' = [tenant EXCEPT ![i] = new]
      <3>1. (tenant[i].adopted \/ tenant[i].status = "new") = TRUE
        BY <1>8
      <3>2. tenant' = [tenant EXCEPT ![i].status = "pending", ![i].prev = "new", ![i].adopted = TRUE]
        BY <1>1, <1>8, <3>1 DEF LegacyClaim
      <3> QED BY <1>1, <3>2 DEF TenantRow
    <2>2. LawfulRow(i, new) /\ new.adopted
      BY <1>1, <1>8 DEF LawfulRow, TenantRow, Status
    <2>3. tenant'[i].adopted
      BY <1>1, <2>1, <2>2
    <2> HIDE DEF new
    <2>4. RowsKept /\ SchemaKept
      BY <1>4, <2>1, <2>2, RowPut, SchemaSame
    <2>5. job' \in [Workers -> Job] /\ \A v \in Workers : SoundAfter(job'[v])
      <3>1. SoundAfter(j)
        BY <1>1, <1>6, <1>8, <2>3 DEF SoundAfter
      <3>2. \A v \in Workers : SoundAfter(job[v])
        BY DEF DataInv, Sound, SoundAfter
      <3> QED BY <1>5, <1>6, <3>1, <3>2 DEF DataInv, DataTypes
    <2>6. DataTypes'
      BY <2>4, <2>5 DEF DataInv, DataTypes, RowsKept, SchemaKept
    <2> QED BY <2>4, <2>5, <2>6, Kept DEF RowsKept, SchemaKept
  <1> QED BY <1>1, <1>7, <1>8

\* Its later steps.
LEMMA LegacyKept ==
  ASSUME DataInv, UNCHANGED menu, NEW w \in Workers,
         LegacyEnsure(w) \/ LegacyRun(w) \/ LegacyFinal(w)
  PROVE  DataInv'
  <1>0. job[w].pc \in {"legacy ensure", "legacy run", "legacy final"} /\ job[w].pc # "check"
        /\ job[w].pc # "idle"
    BY DEF LegacyEnsure, LegacyRun, LegacyFinal
  <1>1. Clean(job[w].id) /\ job[w].id \in Ids
    BY <1>0, JobRow
  <1>2. \A pc \in {"legacy run", "legacy final"} : JobGoto(w, pc) \/ JobDone(w) =>
           job' \in [Workers -> Job] /\ \A v \in Workers : Sound(job'[v])
    BY <1>0, JobGoes
  <1>3. CASE LegacyEnsure(w) /\ (At(w).exists \/ job[w].prev = "new")
    <2>1. SchemaKept
      BY <1>3, SchemaCreated DEF LegacyEnsure
    <2>2. RowsKept /\ JobGoto(w, "legacy run")
      BY <1>3, RowsSame DEF LegacyEnsure
    <2> QED BY <1>2, <2>1, <2>2, AllKept
  <1>4. CASE LegacyEnsure(w) /\ ~(At(w).exists \/ job[w].prev = "new")
    <2>1. Put(w, "failed") /\ JobDone(w) /\ UNCHANGED schema
      BY <1>4 DEF LegacyEnsure
    <2>2. RowsKept
      BY <1>0, <2>1, PutKept
    <2> QED BY <1>2, <2>1, <2>2, SchemaSame, AllKept
  <1>5. CASE LegacyRun(w)
    <2>1. SchemaKept
      BY <1>5, SchemaLegacy DEF LegacyRun, At
    <2>2. RowsKept /\ JobGoto(w, "legacy final")
      BY <1>5, RowsSame DEF LegacyRun
    <2> QED BY <1>2, <2>1, <2>2, AllKept
  <1>6. CASE LegacyFinal(w)
    <2>1. Put(w, "active") /\ JobDone(w)
      BY <1>6 DEF LegacyFinal
    <2>2. RowsKept
      BY <1>0, <1>1, <2>1, PutKept
    <2>3. SchemaKept
      BY <1>1, <1>6, SchemaServed, SchemaSame DEF LegacyFinal
    <2> QED BY <1>2, <2>1, <2>2, <2>3, AllKept
  <1> QED BY <1>3, <1>4, <1>5, <1>6

-----------------------------------------------------------------------------
(* Rows, schemas and drops.                                                 *)

\* Jobs go on as they were.
LEMMA RestKept ==
  ASSUME DataInv, UNCHANGED <<menu, job>>, RowsKept, SchemaKept PROVE DataInv'
  BY AllKept DEF DataInv, DataTypes

\* Operators' edits, and the run that finds a schema gone, leave the rows lawful.
LEMMA EditKept ==
  ASSUME DataInv, UNCHANGED menu, NEW i \in Ids, NEW s \in Shards,
         AdminMove(i, s) \/ AdminConfirm(i) \/ JobMissing(i)
  PROVE  DataInv'
  <1> USE DEF Status
  <1>1. /\ Live(i) /\ tenant[i] \in TenantRow /\ tenant \in [Ids -> TenantRow]
        /\ tenant[i].name \in Names /\ tenant[i].shard \in Shards
        /\ UNCHANGED <<job, schema>>
        /\ tenant[i].status \in {"pending", "active"} => Clean(i)
        /\ tenant[i].status = "new" /\ tenant[i].prev = "failed" => tenant[i].adopted
    BY DEF DataInv, DataTypes, Rows, Live, AdminMove, AdminConfirm, JobMissing, Calm
  <1>3. CASE AdminMove(i, s)
    <2> DEFINE new == [tenant[i] EXCEPT !.shard = s, !.moved = TRUE]
    <2>1. LawfulRow(i, new)
      BY <1>1 DEF LawfulRow, TenantRow, Live
    <2>2. tenant' = [tenant EXCEPT ![i] = new]
      BY <1>1, <1>3 DEF AdminMove
    <2> HIDE DEF new
    <2> QED BY <1>1, <2>1, <2>2, RowPut, SchemaSame, RestKept
  <1>4. CASE AdminConfirm(i)
    <2> DEFINE new == [tenant[i] EXCEPT !.status = "new", !.prev = "failed", !.adopted = TRUE]
    <2>1. LawfulRow(i, new)
      BY <1>1 DEF LawfulRow, TenantRow, Live
    <2>2. tenant' = [tenant EXCEPT ![i] = new]
      BY <1>1, <1>4 DEF AdminConfirm
    <2> HIDE DEF new
    <2> QED BY <1>1, <2>1, <2>2, RowPut, SchemaSame, RestKept
  <1>5. CASE JobMissing(i)
    <2>1. tenant' = [tenant EXCEPT ![i].status = "failed", ![i].prev = "active"]
      BY <1>5 DEF JobMissing
    <2>2. RowsKept
      BY <1>1, <2>1, RowStatus
    <2> QED BY <1>1, <2>2, SchemaSame, RestKept
  <1> QED BY <1>3, <1>4, <1>5

\* A deletion takes a row that is there, or nothing.
LEMMA DestroyKept ==
  ASSUME DataInv, UNCHANGED menu, NEW t \in Threads, Destroy(t) PROVE DataInv'
  <1> DEFINE i == req[t].id
             new == [Free EXCEPT !.status = "gone"]
  <1>1. UNCHANGED <<schema, job>>
    BY DEF Destroy
  <1>2. tenant' = (IF Live(i) THEN [tenant EXCEPT ![i] = new] ELSE tenant) \/ UNCHANGED tenant
    BY DEF Destroy
  <1>3. tenant \in [Ids -> TenantRow]
    BY DEF DataInv, DataTypes
  <1>4. CASE UNCHANGED tenant
    BY <1>1, <1>4, RowsSame, SchemaSame, RestKept
  <1>5. CASE i \in Ids /\ Live(i) /\ tenant' = [tenant EXCEPT ![i] = new]
    <2>1. LawfulRow(i, new)
      BY <1>3, <1>5 DEF LawfulRow, TenantRow, Live, Free, Row, Status
    <2> HIDE DEF new, i
    <2> QED BY <1>1, <1>5, <2>1, RowPut, SchemaSame, RestKept
  <1>6. CASE i \notin Ids /\ tenant' = [tenant EXCEPT ![i] = new]
    <2> HIDE DEF new, i
    <2>1. tenant' = tenant
      BY <1>3, <1>6
    <2> QED BY <1>4, <2>1
  <1> QED BY <1>2, <1>4, <1>5, <1>6

\* A new row takes a name no live row has, and a key no job knows.
LEMMA InsertKept ==
  ASSUME DataInv, UNCHANGED <<menu, job, schema>>, NEW i \in Ids, tenant[i].status = "free",
         NEW name \in Names, NEW on \in Shards, Named(name) = {},
         tenant' = [tenant EXCEPT ![i] = Row(name, on)]
  PROVE  DataInv'
  <1>1. Row(name, on) \in TenantRow /\ Row(name, on).status = "new" /\ Row(name, on).prev = "new"
        /\ Row(name, on).name = name /\ Row(name, on).shard = on
    BY DEF Row, TenantRow, Status
  <1>2. /\ tenant' \in [Ids -> TenantRow] /\ tenant'[i] = Row(name, on)
        /\ \A j \in Ids \ {i} : tenant'[j] = tenant[j]
    BY <1>1 DEF DataInv, DataTypes
  <1>3. \A j \in Ids \ {i} : (Live(j)' <=> Live(j)) /\ (Clean(j)' <=> Clean(j)) /\ Home(j)' = Home(j)
    BY <1>2 DEF Live, Clean, Home
  <1>4. DataTypes' /\ Layers'
    BY <1>2 DEF DataInv, DataTypes, Layers
  <1>5. Rows'
    <2> SUFFICES ASSUME NEW j \in Ids
                 PROVE  /\ Live(j)' => tenant'[j].name \in Names /\ tenant'[j].shard \in Shards
                        /\ tenant'[j].status = "new" /\ tenant'[j].prev = "failed" => tenant'[j].adopted
                        /\ tenant'[j].status \in {"pending", "active"} => Clean(j)'
                        /\ \A k \in Ids : Live(j)' /\ Live(k)' /\ tenant'[j].name = tenant'[k].name => j = k
      BY DEF Rows
    <2>1. \A k \in Ids \ {i} : Live(k)' => tenant'[k].name # name
      BY <1>2, <1>3 DEF Named
    <2>2. CASE j = i
      BY <1>1, <1>2, <2>1, <2>2
    <2>3. CASE j # i
      BY <1>1, <1>2, <1>3, <2>1, <2>3 DEF DataInv, Rows
    <2> QED BY <2>2, <2>3
  <1>6. ASSUME NEW w \in Workers PROVE Sound(job[w])'
    <2>1. Sound(job[w]) /\ job'[w] = job[w]
      BY DEF DataInv
    <2>2. job[w].pc # "idle" => job[w].id \in Ids \ {i}
      BY <2>1 DEF Sound
    <2> QED BY <1>2, <1>3, <2>1, <2>2 DEF Sound
  <1> QED BY <1>4, <1>5, <1>6 DEF DataInv

\* Requests insert rows, or leave rows, schemas and jobs alone.
LEMMA ThreadKept ==
  ASSUME DataInv, HostInv, UNCHANGED menu, NEW t \in Threads, ThreadStep(t) PROVE DataInv'
  <1>1. ASSUME UNCHANGED <<tenant, schema, job>> PROVE DataInv'
    BY <1>1, RowsSame, SchemaSame, RestKept
  <1>2. ASSUME Working(t, "insert") \/ Working(t, "boot tenant"), Insertable(t), Unused # {},
               UNCHANGED <<schema, job>>,
               tenant' = [tenant EXCEPT ![NewId] = Row(req[t].name, req[t].shard)]
        PROVE  DataInv'
    <2>1. req[t].name \in Names /\ req[t].shard \in Shards
      BY <1>2 DEF HostInv, HostTypes, Ready, Working
    <2>2. NewId \in Ids /\ tenant[NewId].status = "free"
      BY <1>2, NewKeys DEF Unused
    <2>3. Named(req[t].name) = {}
      BY <1>2 DEF Insertable
    <2> QED BY <1>2, <2>1, <2>2, <2>3, InsertKept
  <1>3. ASSUME NEW x \in DOMAIN Canon, NEW s \in Shards,
               \/ \E h \in menu.hosts : \/ CreateFields(t, x, s, h)
                                       \/ \E force \in BOOLEAN : BootCheck(t, x, s, h, force)
               \/ AdminAdd(t, x, s)
        PROVE  DataInv'
    BY <1>1, <1>3 DEF CreateFields, BootCheck, AdminAdd, rowVars, Calm
  <1>4. CASE CreateInsert(t)
    <2>1. Working(t, "insert") /\ UNCHANGED <<schema, job>>
      BY <1>4 DEF CreateInsert, Calm
    <2>2. \/ /\ Insertable(t) /\ Unused # {}
             /\ tenant' = [tenant EXCEPT ![NewId] = Row(req[t].name, req[t].shard)]
          \/ UNCHANGED tenant
      BY <1>4 DEF CreateInsert
    <2> QED BY <1>1, <1>2, <2>1, <2>2
  <1>5. CASE BootTenant(t)
    <2>1. Working(t, "boot tenant") /\ UNCHANGED <<schema, job>>
      BY <1>5 DEF BootTenant, Calm
    <2>2. \/ /\ Insertable(t) /\ Unused # {}
             /\ tenant' = [tenant EXCEPT ![NewId] = Row(req[t].name, req[t].shard)]
          \/ UNCHANGED tenant
      BY <1>5 DEF BootTenant
    <2> QED BY <1>1, <1>2, <2>1, <2>2
  <1>6. CASE \/ CreateValidate(t) \/ BootDomain(t) \/ UpdateLoad(t) \/ DomainSave(t)
             \/ DomainDelete(t) \/ DestroyCollect(t)
    BY <1>1, <1>6 DEF CreateValidate, BootDomain, UpdateLoad, DomainSave, DomainDelete,
       DestroyCollect, rowVars, Calm
  <1>7. ASSUME NEW h \in menu.domains,
               \/ \E i \in Ids : UpdateCheck(t, i, h)
               \/ \E pk \in 0..MaxDomains, i \in Ids \cup {Public}, p \in BOOLEAN :
                     DomainForm(t, pk, i, h, p)
        PROVE  DataInv'
    BY <1>1, <1>7 DEF UpdateCheck, DomainForm, rowVars, Calm
  <1>8. ASSUME \/ \E d \in dom : DomainDeleteLoad(t, d)
               \/ \E i \in Ids, b \in BOOLEAN : DestroyLoad(t, i, b)
        PROVE  DataInv'
    BY <1>1, <1>8 DEF DomainDeleteLoad, DestroyLoad, rowVars, Calm
  <1>9. CASE Destroy(t)
    BY <1>9, DestroyKept
  <1> QED BY <1>3, <1>4, <1>5, <1>6, <1>7, <1>8, <1>9 DEF ThreadStep

\* So do the admin site and the commands.
LEMMA TableKept ==
  ASSUME DataInv, UNCHANGED menu, TableStep PROVE DataInv'
  <1>1. ASSUME UNCHANGED <<tenant, schema, job>> PROVE DataInv'
    BY <1>1, RowsSame, SchemaSame, RestKept
  <1>3. ASSUME NEW i \in Ids, NEW s \in Shards, AdminMove(i, s) PROVE DataInv'
    BY <1>3, EditKept
  <1>4. ASSUME NEW i \in Ids, AdminConfirm(i) PROVE DataInv'
    <2>1. Live(i)
      BY <1>4 DEF AdminConfirm, Live
    <2>2. tenant[i].shard \in Shards
      BY <2>1 DEF DataInv, Rows
    <2> QED BY <1>4, <2>2, EditKept
  <1>5. ASSUME NEW i \in Ids, CreateTenantSchema(i) PROVE DataInv'
    <2>1. SchemaKept
      BY <1>5, SchemaCreated DEF CreateTenantSchema
    <2> QED BY <1>5, <2>1, RowsSame, RestKept DEF CreateTenantSchema, rowVars, Calm
  <1>6. ASSUME \E h \in menu.domains : BootstrapPublic(h) PROVE DataInv'
    BY <1>1, <1>6 DEF BootstrapPublic, Calm
  <1>7. ASSUME \E b \in BOOLEAN : SyncShards(b) PROVE DataInv'
    BY <1>1, <1>7 DEF SyncShards, Tables, Calm
  <1>8. ASSUME NEW s \in Shards,
               \/ ShardActivate(s) \/ ShardDeactivate(s) \/ ShardDestroy(s) \/ ShardAdminDelete(s)
               \/ \E row \in Shards \cup {None}, b \in BOOLEAN : ShardAdminForm(row, s, b)
        PROVE  DataInv'
    BY <1>1, <1>8 DEF ShardActivate, ShardDeactivate, ShardDestroy, ShardAdminDelete,
       ShardAdminForm, PutShard, Tables, Calm
  <1>9. ASSUME \/ \E old \in {{}} \cup {{r} : r \in rules}, form \in menu.forms : RuleSave(old, form)
               \/ \E r \in rules : RuleToggle(r) \/ RuleDelete(r)
        PROVE  DataInv'
    BY <1>1, <1>9 DEF RuleSave, RuleToggle, RuleDelete, Tables, Calm
  <1> QED BY <1>3, <1>4, <1>5, <1>6, <1>7, <1>8, <1>9 DEF TableStep

\* A drop leaves nothing behind, wherever it falls among the steps of a job.
LEMMA DropKept ==
  ASSUME DataInv, UNCHANGED menu, NEW d, DropperStep(d) PROVE DataInv'
  <1>1. UNCHANGED <<tenant, job>>
    BY DEF DropperStep, DropTask, DropByHand, DropLive, DropExists, DropRun, DropDies,
           DropQuiet, rowVars
  <1>2. CASE DropRun(d)
    <2>1. schema' = [schema EXCEPT ![drop[d].at] = NoSchema]
      BY <1>2 DEF DropRun
    <2>2. SchemaKept
      BY <2>1, LawfulChanges, SchemaPut
    <2> QED BY <1>1, <2>2, RowsSame, RestKept
  <1>3. CASE ~DropRun(d)
    <2>1. UNCHANGED schema
      BY <1>3 DEF DropperStep, DropTask, DropByHand, DropLive, DropExists, DropDies
    <2> QED BY <1>1, <2>1, RowsSame, SchemaSame, RestKept
  <1> QED BY <1>2, <1>3

\* The rows and schemas to start from are in order.
LEMMA InitData == Init => DataInv
  <1> SUFFICES ASSUME Init PROVE DataInv
    OBVIOUS
  <1>1. PICK setup \in Setups :
          tenant = setup.tenant /\ schema = setup.schema /\ menu = setup.menu
    BY DEF Init
  <1>2. Consistent(setup)
    BY SetupsConsistent
  <1>3. NoJob \in Job /\ NoJob.pc = "idle"
    BY DEF NoJob, Job, Status
  <1>4. job \in [Workers -> Job] /\ \A w \in Workers : Sound(job[w])
    BY <1>3 DEF Init, Sound
  <1>5. /\ tenant \in [Ids -> [name : Names \cup {None}, shard : Shards \cup {None},
                               status : {"free", "new", "pending", "active", "failed"},
                               prev : {"new", "pending", "active"},
                               moved : {FALSE}, adopted : {FALSE}]]
        /\ \A i \in Ids : tenant[i].status # "free" =>
              /\ tenant[i].name \in Names /\ tenant[i].shard \in Shards
              /\ tenant[i].status \in {"pending", "active"} =>
                    schema[tenant[i].shard, tenant[i].name].data \subseteq {i}
              /\ \A j \in Ids : tenant[j].name = tenant[i].name => j = i
    BY <1>1, <1>2 DEF Consistent
  <1>6. DataTypes /\ Layers
    <2>1. tenant \in [Ids -> TenantRow]
      BY <1>5 DEF TenantRow, Status
    <2>2. schema \in [Places -> SchemaState] /\ menu.workers \subseteq Workers
      BY <1>1, <1>2 DEF Consistent, Places, SchemaState
    <2>3. Layers
      BY <1>1, <1>2 DEF Consistent, Places, Layers
    <2> QED BY <1>4, <2>1, <2>2, <2>3 DEF DataTypes
  <1>7. Rows
    <2> SUFFICES ASSUME NEW i \in Ids
                 PROVE  /\ Live(i) => tenant[i].name \in Names /\ tenant[i].shard \in Shards
                        /\ tenant[i].status = "new" /\ tenant[i].prev = "failed" => tenant[i].adopted
                        /\ tenant[i].status \in {"pending", "active"} => Clean(i)
                        /\ \A j \in Ids : Live(i) /\ Live(j) /\ tenant[i].name = tenant[j].name => i = j
      BY DEF Rows
    <2>1. tenant[i].prev # "failed"
      BY <1>5
    <2> QED BY <1>5, <2>1 DEF Live, Clean, Home
  <1> QED BY <1>4, <1>6, <1>7 DEF DataInv

-----------------------------------------------------------------------------
(* Every step keeps both.                                                   *)

\* What an operation has loaded is the row as it is, or as a save that it overlaps
\* left it; and a tenant's row says where its schema is.
THEOREM InOrder == Spec => [](HostInv /\ DataInv)
  <1>1. HostInv /\ DataInv /\ [Next]_vars => DataInv'
    <2> SUFFICES ASSUME HostInv, DataInv, [Next]_vars PROVE DataInv'
      OBVIOUS
    <2>1. CASE UNCHANGED vars
      BY <2>1, RowsSame, SchemaSame, RestKept DEF vars, rowVars
    <2>2. CASE Next
      <3>1. menu.threads \subseteq Threads /\ menu.workers \subseteq Workers
        BY DEF HostInv, HostTypes, DataInv, DataTypes
      <3>2. UNCHANGED menu
        BY <2>2 DEF Next
      <3>3. ASSUME NEW w \in Workers, WorkerStep(w) PROVE DataInv'
        BY <3>2, <3>3, LoadKept, LegacyClaimKept, CheckKept, StepKept, FaultKept, LegacyKept
           DEF WorkerStep
      <3>4. ASSUME NEW i \in Ids, JobMissing(i) PROVE DataInv'
        <4>1. Live(i)
          BY <3>4 DEF JobMissing, Live
        <4>2. tenant[i].shard \in Shards
          BY <4>1 DEF DataInv, Rows
        <4> QED BY <3>2, <3>4, <4>2, EditKept
      <3> QED BY <2>2, <3>1, <3>2, <3>3, <3>4, ThreadKept, TableKept, DropKept DEF Next
    <2> QED BY <2>1, <2>2
  <1>2. HostInv /\ DataInv /\ [Next]_vars => HostInv'
    <2> SUFFICES ASSUME HostInv, DataInv, [Next]_vars PROVE HostInv'
      OBVIOUS
    <2>1. CASE UNCHANGED vars
      BY <2>1, SameHosts DEF HostInv, HostTypes, Stepped, vars, rowVars
    <2>2. CASE Next
      <3>1. menu.threads \subseteq Threads /\ tenant \in [Ids -> TenantRow]
        BY DEF HostInv, HostTypes, DataInv, DataTypes
      <3> QED BY <2>2, <3>1, ThreadHosts, TableHosts, OtherHosts DEF Next
    <2> QED BY <2>1, <2>2
  <1> QED BY <1>1, <1>2, InitHosts, InitData, PTL DEF Spec

\* Rows of hosts stay in order: keys are unique, a row has the host it was loaded
\* with or one saved since, and a host without a row is forgotten or overlapped.
THEOREM HostsInOrder == Spec => []HostInv
  BY InOrder, PTL

\* Rows and schemas stay in order.
THEOREM DataInOrder == Spec => []DataInv
  BY InOrder, PTL


\* A host that lost its row was invalidated by what took the row, unless it was
\* saved to a row that another operation had loaded.
THEOREM Forgets == Spec => []RepointForgets
  <1>1. HostInv => RepointForgets
    BY DEF HostInv
  <1> QED BY <1>1, HostsInOrder, PTL

\* The conflicts report is exact, whatever rules are stored and hosts registered.
THEOREM ReportExact == Spec => []ConflictsExact
  <1>1. HostInv => ConflictsExact
    <2> SUFFICES ASSUME HostInv, NEW r \in rules
                 PROVE  conflicts(r.rule) = {d \in dom : d.tenant # Public /\ matches(r.rule, d.host)}
      BY DEF ConflictsExact
    <2>1. \A d \in dom : d.host \in HostSeq
      BY DEF HostInv, HostTypes, DomainRow
    <2>2. \A d \in dom : matches(r.rule, d.host) => candidate_q(r.rule, d.host)
      BY <2>1, Candidates
    <2> QED BY <2>2 DEF conflicts
  <1> QED BY <1>1, HostsInOrder, PTL

\* No tenant that the migrator made ACTIVE is served from a schema with data of
\* another one, unless an operator took it over or moved it.
THEOREM DataNotInherited == Spec => []NoInheritedData
  <1>1. DataInv => NoInheritedData
    BY DEF DataInv, Rows, Clean, Live, NoInheritedData
  <1> QED BY <1>1, DataInOrder, PTL
=============================================================================
