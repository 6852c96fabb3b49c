----------------------------- MODULE CacheProofs -----------------------------
(* The snapshot cache contradicts the database only where a committed          *)
(* transaction has yet to invalidate it, for any number of hosts, tenants,     *)
(* request threads and writers.                                                *)
EXTENDS ResolveCache, FiniteSetTheorems, TLAPS

\* Zenon finds the leaves that name no prover; SMT those with arithmetic, sequences
\* and updates of functions.
USE ZenonT(30)

\* What Coherent asks for: fills shorter than the hold, and neither a rebuild nor
\* a command nor a lost invalidation.
Sheltered == dep.covers /\ ~dep.reconciles /\ ~dep.commands /\ faults = 0

Callbacks ==
  {c \in [do : {"tombstone", "bump", "forget_host", "forget_tenant"}, keys : SUBSET Keys] :
     c.do = "bump" => c.keys = {}}
Fills == [pc : {"idle", "read", "miss", "host", "schema"},
          host : Hosts \cup {None}, row : Entry, held : SUBSET Keys]

Types ==
  /\ owner \in [Hosts -> Tenants \cup {None}]
  /\ status \in [Tenants -> Statuses \cup {"gone"}]
  /\ snap \in [Keys -> Entry]
  /\ \A k \in Keys : snap[k].kind = "positive" => snap[k].tenant \in Tenants
  /\ res \in [Resolvers -> Fills]
  /\ queue \in [Writers -> Seq(Callbacks)]

\* What a request thread has read, and for which host.
FillKnows(f) ==
  /\ f.pc # "idle" => f.host \in Hosts
  /\ f.pc = "miss" => f.row = Absent
  /\ f.pc \in {"host", "schema"} => f.row.kind = "positive" /\ f.row.tenant \in Tenants

\* The keys a request thread has yet to write.
Unwritten(f) ==
  {k \in Keys : \/ f.pc \in {"miss", "host"} /\ k = f.host
                \/ f.pc \in {"host", "schema"} /\ k = f.row.tenant}

\* A key that was invalidated under a request thread is still held, so that its
\* SET NX does nothing.
Held == \A r \in Resolvers : \A k \in res[r].held : snap[k] = Hold

\* A committed transaction has yet to invalidate k, or nobody will.
Due(k) == Owed(k) \/ k \in missed

\* What a request thread is about to write is what the database says, or will be
\* tombstoned after, or was tombstoned before.
Current ==
  \A r \in Resolvers : \A k \in Unwritten(res[r]) :
    res[r].row = Row(k) \/ Due(k) \/ k \in res[r].held

\* A writer that has loaded rows has run its callbacks.
Loading ==
  /\ txn = [w \in Writers |-> txn[w]] /\ queue = [w \in Writers |-> queue[w]]
  /\ \A w \in Writers : /\ LoadedHosts(w) \subseteq Hosts
                        /\ txn[w] # NoTxn => queue[w] = <<>>

CacheInv ==
  /\ faults \in Nat /\ dep.hosts \subseteq Hosts
  /\ Sheltered => /\ Types /\ (\A r \in Resolvers : FillKnows(res[r]))
                  /\ rec.pc = "idle"
                  /\ Held /\ Current
                  /\ \A k \in Keys : Stale(k) => Due(k)

---------------------------------------------------------------------------
(* Entries, rows and callbacks *)

\* The four kinds of entries differ.
LEMMA Kinds ==
  /\ Absent \in Entry /\ Negative \in Entry /\ Hold \in Entry
  /\ Absent.kind = "absent" /\ Negative.kind = "negative" /\ Hold.kind = "hold"
  /\ \A t \in Tenants, s \in Statuses :
       /\ Positive(t, s) \in Entry /\ Positive(t, s).kind = "positive"
       /\ Positive(t, s).tenant = t
  BY DEF Absent, Negative, Hold, Plain, Positive, Entry

\* A row is Absent, or positive and the same under the host and under the schema.
LEMMA RowIs ==
  ASSUME Types, NEW k \in Keys
  PROVE  /\ Row(k) \in Entry
         /\ Row(k) # Absent => /\ Row(k).kind = "positive" /\ Row(k).tenant \in Tenants
                               /\ Row(Row(k).tenant) = Row(k)
  <1> DEFINE t == IF k \in Tenants THEN k ELSE owner[k]
  <1>1. t \in Tenants \cup {None} /\ None \notin Tenants
    BY CacheConstants DEF Types, Keys
  <1>2. Row(k) = IF t = None \/ status[t] = "gone" THEN Absent ELSE Positive(t, status[t])
    BY DEF Row
  <1> HIDE DEF t
  <1>3. CASE t = None \/ status[t] = "gone"
    BY <1>2, <1>3, Kinds
  <1>4. CASE t # None /\ status[t] # "gone"
    <2>1. t \in Tenants /\ status[t] \in Statuses /\ Row(k) = Positive(t, status[t])
      BY <1>1, <1>2, <1>4 DEF Types
    <2>2. Row(t) = Positive(t, status[t])
      BY <1>4, <2>1 DEF Row
    <2> QED BY SMT, <2>1, <2>2, Kinds
  <1> QED BY <1>3, <1>4

\* A callback that invalidates k.
Owes(c, k) == k \in c.keys \/ (c.do = "forget_tenant" /\ k \in Hosts /\ owner[k] \in c.keys)

\* An invalidation is owed when a queued callback will do it.
LEMMA OwedIs ==
  \A k : Owed(k) <=> \E w \in Writers : \E i \in DOMAIN queue[w] : Owes(queue[w][i], k)
  BY DEF Owed, Owes

\* The tail of a sequence of callbacks.
LEMMA TailOf ==
  ASSUME NEW M, NEW q \in Seq(M), q # <<>>
  PROVE  /\ Head(q) \in M /\ Tail(q) \in Seq(M)
         /\ \A i \in DOMAIN q : q[i] = Head(q) \/ (i - 1 \in DOMAIN Tail(q) /\ Tail(q)[i - 1] = q[i])
  BY SMT

\* A sequence of callbacks whose first one is replaced.
LEMMA ReplaceHead ==
  ASSUME NEW M, NEW q \in Seq(M), q # <<>>, NEW m \in M
  PROVE  /\ <<m>> \o Tail(q) \in Seq(M) /\ DOMAIN (<<m>> \o Tail(q)) = DOMAIN q
         /\ 1 \in DOMAIN q /\ q[1] = Head(q) /\ (<<m>> \o Tail(q))[1] = m
         /\ \A i \in DOMAIN q \ {1} : (<<m>> \o Tail(q))[i] = q[i]
  BY SMT

\* A sequence of callbacks with one more.
LEMMA AppendOf ==
  ASSUME NEW M, NEW q \in Seq(M), NEW m \in M
  PROVE  /\ Append(q, m) \in Seq(M)
         /\ \A i \in DOMAIN q : i \in DOMAIN Append(q, m) /\ Append(q, m)[i] = q[i]
         /\ \E i \in DOMAIN Append(q, m) : Append(q, m)[i] = m
  <1>1. /\ Append(q, m) \in Seq(M)
        /\ \A i \in DOMAIN q : i \in DOMAIN Append(q, m) /\ Append(q, m)[i] = q[i]
    BY SMT
  <1>2. Len(q) + 1 \in DOMAIN Append(q, m) /\ Append(q, m)[Len(q) + 1] = m
    BY SMT
  <1> QED BY <1>1, <1>2

\* The callbacks of a Domain receiver.
LEMMA SignalIs ==
  ASSUME Types, NEW h \in Hosts
  PROVE  /\ DomainSignal(h) \in Seq(Callbacks) /\ Len(DomainSignal(h)) = 2
         /\ DomainSignal(h)[1] \in Callbacks /\ DomainSignal(h)[2] \in Callbacks
         /\ h \in DomainSignal(h)[1].keys
  <1>1. Derived(h) \subseteq Keys
    BY DEF Derived, Keys, Types
  <1>2. Tombstone({h} \cup Derived(h)) \in Callbacks /\ Bump \in Callbacks
    BY <1>1 DEF Tombstone, Bump, Callbacks, Keys
  <1> QED BY SMT, <1>2 DEF DomainSignal, Tombstone

---------------------------------------------------------------------------
(* Steps that keep the invariant *)

\* A transaction: it leaves a callback for every key whose row it changes.
LEMMA CommitKeeps ==
  ASSUME CacheInv, Sheltered, NEW w \in Writers, NEW cs \in Seq(Callbacks),
         queue[w] = <<>>, queue' = [queue EXCEPT ![w] = cs],
         UNCHANGED <<dep, snap, res, rec, faults>>,
         owner' \in [Hosts -> Tenants \cup {None}],
         status' \in [Tenants -> Statuses \cup {"gone"}],
         missed \subseteq missed',
         \A k \in Keys : Row(k)' # Row(k) \/ (k \in Hosts /\ owner'[k] # owner[k])
           => \/ k \in missed'
              \/ \E i \in DOMAIN cs : \/ k \in cs[i].keys
                                      \/ cs[i].do = "forget_tenant" /\ k \in Hosts /\ owner'[k] \in cs[i].keys
  PROVE  CacheInv'
  <1>1. Types /\ (\A r \in Resolvers : FillKnows(res[r])) /\ Held /\ Current
        /\ rec.pc = "idle" /\ \A k \in Keys : Stale(k) => Due(k)
    BY DEF CacheInv
  <1>2. queue'[w] = cs /\ \A v \in Writers \ {w} : queue'[v] = queue[v]
    BY <1>1 DEF Types
  <1>3. \A k \in Keys : Row(k)' # Row(k) \/ (k \in Hosts /\ owner'[k] # owner[k]) => Due(k)'
    <2> SUFFICES ASSUME NEW k \in Keys, Row(k)' # Row(k) \/ (k \in Hosts /\ owner'[k] # owner[k])
                 PROVE  Due(k)'
      OBVIOUS
    <2> SUFFICES ASSUME k \notin missed' PROVE Owed(k)'
      BY DEF Due
    <2>1. PICK i \in DOMAIN cs :
            \/ k \in cs[i].keys
            \/ cs[i].do = "forget_tenant" /\ k \in Hosts /\ owner'[k] \in cs[i].keys
      OBVIOUS
    <2>2. i \in DOMAIN queue'[w] /\ queue'[w][i] = cs[i]
      BY <1>2
    <2> QED BY <2>1, <2>2 DEF Owed
  <1>4. ASSUME NEW k \in Keys, Due(k) PROVE Due(k)'
    <2> SUFFICES ASSUME Owed(k) PROVE Due(k)'
      BY <1>4 DEF Due
    <2>1. CASE k \in Hosts /\ owner'[k] # owner[k]
      BY <1>3, <2>1
    <2>2. CASE k \in Hosts => owner'[k] = owner[k]
      <3>1. PICK v \in Writers : \E i \in DOMAIN queue[v] : Owes(queue[v][i], k)
        BY OwedIs
      <3>2. v # w
        BY SMT, <3>1
      <3>3. queue'[v] = queue[v] /\ \E i \in DOMAIN queue[v] : Owes(queue[v][i], k)
        BY <1>2, <3>1, <3>2
      <3> QED BY <2>2, <3>3 DEF Owes, Owed, Due
    <2> QED BY <2>1, <2>2
  <1>5. Types'
    BY <1>1 DEF Types
  <1>6. Held' /\ \A r \in Resolvers : FillKnows(res'[r])
    BY <1>1 DEF Held
  <1>7. Current'
    <2> SUFFICES ASSUME NEW r \in Resolvers, NEW k \in Unwritten(res[r])
                 PROVE  res[r].row = Row(k)' \/ Due(k)' \/ k \in res[r].held
      BY DEF Current, Unwritten
    <2>1. k \in Keys
      BY DEF Unwritten
    <2> QED BY <1>1, <1>3, <1>4, <2>1 DEF Current
  <1>8. ASSUME NEW k \in Keys, Stale(k)' PROVE Due(k)'
    <2>1. Row(k)' = Row(k) => Stale(k)
      BY <1>8 DEF Stale
    <2> QED BY <1>1, <1>3, <1>4, <2>1
  <1> QED BY <1>1, <1>5, <1>6, <1>7, <1>8 DEF CacheInv

\* A tombstone: every key that is owed stays owed or is held, under the threads
\* that have read their row too.
LEMMA TombstoneKeeps ==
  ASSUME CacheInv, Sheltered, NEW keys \in SUBSET Keys, Invalidate(keys),
         UNCHANGED <<dep, owner, status, rec, faults>>,
         queue' \in [Writers -> Seq(Callbacks)],
         \A k \in Keys : Owed(k) => Owed(k)' \/ k \in keys
  PROVE  CacheInv'
  <1>1. Types /\ (\A r \in Resolvers : FillKnows(res[r])) /\ Held /\ Current
        /\ rec.pc = "idle" /\ \A k \in Keys : Stale(k) => Due(k)
    BY DEF CacheInv
  <1>0. \A k \in Keys : Due(k) => Due(k)' \/ k \in keys
    BY DEF Due, Invalidate
  <1>2. /\ \A k \in keys : snap'[k] = Hold
        /\ \A k \in Keys \ keys : snap'[k] = snap[k]
    BY DEF Invalidate
  <1>3. \A r \in Resolvers :
          /\ res[r].pc \notin {"host", "schema", "miss"} => res'[r] = res[r]
          /\ res[r].pc \in {"host", "schema", "miss"} =>
               res'[r] = [res[r] EXCEPT !.held = @ \cup keys]
    BY DEF Invalidate
  <1>4. \A r \in Resolvers :
          /\ res'[r] \in Fills /\ res'[r].pc = res[r].pc /\ res'[r].host = res[r].host
          /\ res'[r].row = res[r].row /\ res[r].held \subseteq res'[r].held
          /\ res'[r].held \subseteq res[r].held \cup keys
          /\ res[r].pc \in {"host", "schema", "miss"} => keys \subseteq res'[r].held
    <2> SUFFICES ASSUME NEW r \in Resolvers
                 PROVE  /\ res'[r] \in Fills /\ res'[r].pc = res[r].pc /\ res'[r].host = res[r].host
                        /\ res'[r].row = res[r].row /\ res[r].held \subseteq res'[r].held
                        /\ res'[r].held \subseteq res[r].held \cup keys
                        /\ res[r].pc \in {"host", "schema", "miss"} => keys \subseteq res'[r].held
      OBVIOUS
    <2>1. res[r] \in Fills
      BY <1>1 DEF Types
    <2>2. CASE res[r].pc \notin {"host", "schema", "miss"}
      BY <1>3, <2>1, <2>2
    <2>3. CASE res[r].pc \in {"host", "schema", "miss"}
      <3>1. res'[r] = [res[r] EXCEPT !.held = @ \cup keys]
        BY <1>3, <2>3
      <3>2. res'[r].held = res[r].held \cup keys
        BY <2>1, <3>1 DEF Fills
      <3>3. /\ res'[r].pc = res[r].pc /\ res'[r].host = res[r].host /\ res'[r].row = res[r].row
            /\ res'[r] \in Fills
        BY <2>1, <3>1 DEF Fills
      <3> QED BY <3>2, <3>3
    <2> QED BY <2>2, <2>3
  <1>5. \A k \in Keys : Row(k)' = Row(k)
    BY DEF Row
  <1>6. Types'
    <2>1. snap' \in [Keys -> Entry]
      BY <1>1, <1>2, Kinds DEF Invalidate, Types
    <2>2. res' \in [Resolvers -> Fills]
      BY <1>4 DEF Invalidate
    <2>3. \A k \in Keys : snap'[k].kind = "positive" => snap'[k].tenant \in Tenants
      BY <1>1, <1>2, Kinds DEF Types
    <2> QED BY <1>1, <2>1, <2>2, <2>3 DEF Types
  <1>7. Held' /\ \A r \in Resolvers : FillKnows(res'[r])
    <2>1. \A r \in Resolvers : \A k \in res'[r].held : snap'[k] = Hold
      BY <1>1, <1>2, <1>4 DEF Held, Types, Fills
    <2>2. \A r \in Resolvers : FillKnows(res'[r])
      BY <1>1, <1>4 DEF FillKnows
    <2> QED BY <2>1, <2>2 DEF Held
  <1>8. Current'
    <2> SUFFICES ASSUME NEW r \in Resolvers, NEW k \in Unwritten(res'[r])
                 PROVE  res'[r].row = Row(k)' \/ Due(k)' \/ k \in res'[r].held
      BY DEF Current, Unwritten
    <2>1. k \in Keys /\ k \in Unwritten(res[r]) /\ res[r].pc \in {"host", "schema", "miss"}
      BY <1>4 DEF Unwritten
    <2>2. res[r].row = Row(k) \/ Due(k) \/ k \in res[r].held
      BY <1>1, <2>1 DEF Current
    <2> QED BY <1>0, <1>4, <1>5, <2>1, <2>2
  <1>9. ASSUME NEW k \in Keys, Stale(k)' PROVE Due(k)'
    <2>1. k \notin keys
      BY <1>2, <1>9, Kinds DEF Stale
    <2>2. Stale(k)
      BY <1>2, <1>5, <1>9, <2>1 DEF Stale
    <2> QED BY <1>0, <1>1, <2>1, <2>2
  <1> QED BY <1>1, <1>6, <1>7, <1>8, <1>9 DEF CacheInv

\* A callback that leaves the cache alone and forgets no key.
LEMMA QueueKeeps ==
  ASSUME CacheInv, Sheltered, UNCHANGED <<dep, owner, status, snap, res, missed, rec, faults>>,
         queue' \in [Writers -> Seq(Callbacks)], \A k \in Keys : Owed(k) => Owed(k)'
  PROVE  CacheInv'
  <1>1. Types /\ (\A r \in Resolvers : FillKnows(res[r])) /\ Held /\ Current
        /\ rec.pc = "idle" /\ \A k \in Keys : Stale(k) => Due(k)
    BY DEF CacheInv
  <1>2. \A k \in Keys : Row(k)' = Row(k) /\ (Stale(k)' <=> Stale(k))
    BY DEF Row, Stale
  <1>5. \A k \in Keys : Due(k) => Due(k)'
    BY DEF Due
  <1>3. Types' /\ Held'
    BY <1>1 DEF Types, Held
  <1>4. Current'
    <2>1. \A r \in Resolvers : Unwritten(res[r]) \subseteq Keys
      BY DEF Unwritten
    <2> SUFFICES ASSUME NEW r \in Resolvers, NEW k \in Unwritten(res[r])
                 PROVE  res[r].row = Row(k)' \/ Due(k)' \/ k \in res[r].held
      BY DEF Current, Unwritten
    <2> QED BY <1>1, <1>2, <1>5, <2>1 DEF Current
  <1>6. \A k \in Keys : Stale(k)' => Due(k)'
    BY <1>1, <1>2, <1>5
  <1> QED BY <1>1, <1>3, <1>4, <1>6 DEF CacheInv

\* A request thread: it writes over nothing, and what it writes is true or owed.
LEMMA FillKeeps ==
  ASSUME CacheInv, Sheltered, NEW r \in Resolvers, NEW f \in Fills, res' = [res EXCEPT ![r] = f],
         UNCHANGED <<dep, owner, status, missed, queue, rec, faults>>,
         FillKnows(f), f.held \subseteq res[r].held,
         snap' \in [Keys -> Entry],
         \A k \in Keys :
           \/ snap'[k] = snap[k]
           \/ /\ snap[k] = Absent
              /\ snap'[k].kind = "positive" => snap'[k].tenant \in Tenants
              /\ Due(k) \/ snap'[k] = Row(k) \/ (snap'[k] = Negative /\ Row(k) = Absent),
         \A k \in Unwritten(f) : f.row = Row(k) \/ Due(k) \/ k \in f.held
  PROVE  CacheInv'
  <1>1. Types /\ (\A q \in Resolvers : FillKnows(res[q])) /\ Held /\ Current
        /\ rec.pc = "idle" /\ \A k \in Keys : Stale(k) => Due(k)
    BY DEF CacheInv
  <1>2. res'[r] = f /\ \A q \in Resolvers \ {r} : res'[q] = res[q]
    BY <1>1 DEF Types
  <1>3. \A k \in Keys : Row(k)' = Row(k) /\ (Due(k)' <=> Due(k))
    BY DEF Row, Owed, Due
  <1>4. Types'
    BY <1>1 DEF Types
  <1>5. \A q \in Resolvers : FillKnows(res'[q]) /\ res'[q].held \subseteq res[q].held
    BY <1>1, <1>2
  <1>6. Held'
    <2>1. \A q \in Resolvers : res[q].held \subseteq Keys
      BY <1>1 DEF Types, Fills
    <2>2. \A q \in Resolvers : \A k \in res[q].held : snap'[k] = Hold
      BY SMT, <1>1, <2>1, Kinds DEF Held
    <2> QED BY <1>5, <2>2 DEF Held
  <1>7. Current'
    <2> SUFFICES ASSUME NEW q \in Resolvers, NEW k \in Unwritten(res'[q])
                 PROVE  res'[q].row = Row(k) \/ Due(k) \/ k \in res'[q].held
      <3>1. \A q \in Resolvers : Unwritten(res'[q]) \subseteq Keys
        BY DEF Unwritten
      <3> QED BY <1>3, <3>1 DEF Current, Unwritten
    <2> QED BY <1>1, <1>2 DEF Current
  <1>8. ASSUME NEW k \in Keys, Stale(k)' PROVE Due(k)'
    <2>1. CASE snap'[k] = snap[k]
      BY <1>1, <1>3, <1>8, <2>1 DEF Stale
    <2>2. CASE Due(k)
      BY <1>3, <2>2
    <2>3. CASE snap'[k] = Row(k)
      <3>1. Row(k) = Absent \/ Row(k).kind = "positive"
        BY <1>1, RowIs
      <3> QED BY <1>3, <1>8, <2>3, <3>1, Kinds DEF Stale
    <2>4. CASE snap'[k] = Negative /\ Row(k) = Absent
      BY <1>3, <1>8, <2>4, Kinds DEF Stale
    <2> QED BY <2>1, <2>2, <2>3, <2>4
  <1> QED BY <1>1, <1>4, <1>5, <1>6, <1>7, <1>8 DEF CacheInv

\* cache.set(nx=True) writes only where there is nothing.
LEMMA SetNxIs ==
  ASSUME Types, NEW k \in Keys, NEW e \in Entry
  PROVE  /\ SetNx(k, e) \in [Keys -> Entry]
         /\ \A j \in Keys : \/ SetNx(k, e)[j] = snap[j]
                            \/ j = k /\ snap[j] = Absent /\ SetNx(k, e)[j] = e
  BY DEF SetNx, Types

\* The thread between two requests.
LEMMA IdleFill == ResIdle \in Fills /\ FillKnows(ResIdle) /\ Unwritten(ResIdle) = {} /\ ResIdle.held = {}
  <1>1. ResIdle \in Fills /\ ResIdle.pc = "idle" /\ ResIdle.held = {}
    BY Kinds DEF ResIdle, Fills
  <1> QED BY <1>1 DEF FillKnows, Unwritten

\* The steps of _fill.
LEMMA RequestKeeps ==
  ASSUME CacheInv, Sheltered, NEW r \in Resolvers, Request(r) PROVE CacheInv'
  <1>1. Types /\ FillKnows(res[r]) /\ Held /\ Current /\ res[r] \in Fills
    BY DEF CacheInv, Types
  <1>2. CASE \E h \in dep.hosts : Miss(r, h)
    <2>1. PICK h \in Hosts : Miss(r, h)
      BY <1>2 DEF CacheInv
    <2> DEFINE f == [ResIdle EXCEPT !.pc = "read", !.host = h]
    <2>2. f \in Fills /\ f.pc = "read" /\ f.host = h /\ f.held = {} /\ f.row = Absent
      BY IdleFill DEF Fills, ResIdle
    <2>3. res' = [res EXCEPT ![r] = f] /\ UNCHANGED <<dep, owner, status, missed, queue, rec, faults, snap>>
      BY <2>1 DEF Miss, writer
    <2> HIDE DEF f
    <2>4. FillKnows(f) /\ Unwritten(f) = {} /\ f.held \subseteq res[r].held
      BY <2>2 DEF FillKnows, Unwritten
    <2> QED BY <1>1, <2>2, <2>3, <2>4, FillKeeps DEF Types
  <1>3. CASE ReadRow(r)
    <2> DEFINE row == Row(res[r].host)
               f == [res[r] EXCEPT !.row = row, !.pc = IF row = Absent THEN "miss" ELSE "host"]
    <2>1. res[r].host \in Hosts /\ res[r].host \in Keys /\ res[r].pc = "read"
      BY <1>1, <1>3 DEF ReadRow, FillKnows, Keys
    <2>2. /\ row \in Entry
          /\ row # Absent => /\ row.kind = "positive" /\ row.tenant \in Tenants
                             /\ Row(row.tenant) = row
      BY <1>1, <2>1, RowIs
    <2>3. row = Row(res[r].host)
      OBVIOUS
    <2>4. res' = [res EXCEPT ![r] = f] /\ UNCHANGED <<dep, owner, status, missed, queue, rec, faults, snap>>
      BY <1>1, <1>3 DEF ReadRow, Types, Fills, writer
    <2> HIDE DEF row
    <2>5. /\ f.row = row /\ f.pc = (IF row = Absent THEN "miss" ELSE "host") /\ f.host = res[r].host
          /\ f.held = res[r].held /\ f \in Fills
      BY <1>1, <2>2 DEF Fills
    <2> HIDE DEF f
    <2>6. FillKnows(f) /\ f.held \subseteq res[r].held
      BY <2>1, <2>2, <2>5 DEF FillKnows
    <2>7. \A k \in Unwritten(f) : f.row = Row(k)
      BY <2>2, <2>3, <2>5 DEF Unwritten
    <2> QED BY <1>1, <2>4, <2>5, <2>6, <2>7, FillKeeps DEF Types
  <1>4. CASE StoreMiss(r)
    <2>1. res[r].host \in Keys /\ res[r].pc = "miss" /\ res[r].row = Absent
          /\ res[r].host \in Unwritten(res[r])
      BY <1>1, <1>4 DEF StoreMiss, FillKnows, Keys, Unwritten
    <2>2. Row(res[r].host) = Absent \/ Due(res[r].host) \/ snap[res[r].host] = Hold
      BY <1>1, <2>1 DEF Current, Held
    <2>3. /\ snap' = SetNx(res[r].host, Negative) /\ res' = [res EXCEPT ![r] = ResIdle]
          /\ UNCHANGED <<dep, owner, status, missed, queue, rec, faults>>
      BY <1>4 DEF StoreMiss, writer
    <2>4. /\ snap' \in [Keys -> Entry]
          /\ \A j \in Keys : \/ snap'[j] = snap[j]
                             \/ j = res[r].host /\ snap[j] = Absent /\ snap'[j] = Negative
      <3>1. Negative \in Entry
        BY Kinds
      <3>2. /\ SetNx(res[r].host, Negative) \in [Keys -> Entry]
            /\ \A j \in Keys : \/ SetNx(res[r].host, Negative)[j] = snap[j]
                               \/ /\ j = res[r].host /\ snap[j] = Absent
                                  /\ SetNx(res[r].host, Negative)[j] = Negative
        BY SMT, <1>1, <2>1, <3>1, SetNxIs
      <3> QED BY <2>3, <3>2
    <2>5. \A j \in Keys :
            \/ snap'[j] = snap[j]
            \/ /\ snap[j] = Absent
               /\ snap'[j].kind = "positive" => snap'[j].tenant \in Tenants
               /\ Due(j) \/ snap'[j] = Row(j) \/ (snap'[j] = Negative /\ Row(j) = Absent)
      BY <2>2, <2>4, Kinds
    <2> QED BY <2>3, <2>4, <2>5, IdleFill, FillKeeps
  <1>5. CASE PutHost(r)
    <2> DEFINE f == [res[r] EXCEPT !.pc = "schema"]
    <2>1. /\ res[r].host \in Keys /\ res[r].pc = "host" /\ res[r].row.kind = "positive"
          /\ res[r].row \in Entry /\ res[r].row.tenant \in Tenants
          /\ res[r].host \in Unwritten(res[r])
      BY <1>1, <1>5 DEF PutHost, FillKnows, Keys, Unwritten, Fills
    <2>2. Row(res[r].host) = res[r].row \/ Due(res[r].host) \/ snap[res[r].host] = Hold
      BY <1>1, <2>1 DEF Current, Held
    <2>3. /\ snap' = SetNx(res[r].host, res[r].row) /\ res' = [res EXCEPT ![r] = f]
          /\ UNCHANGED <<dep, owner, status, missed, queue, rec, faults>>
      BY <1>1, <1>5 DEF PutHost, Types, Fills, writer
    <2>4. /\ snap' \in [Keys -> Entry]
          /\ \A j \in Keys : \/ snap'[j] = snap[j]
                             \/ j = res[r].host /\ snap[j] = Absent /\ snap'[j] = res[r].row
      BY SMT, <1>1, <2>1, <2>3, SetNxIs
    <2>5. \A j \in Keys :
            \/ snap'[j] = snap[j]
            \/ /\ snap[j] = Absent
               /\ snap'[j].kind = "positive" => snap'[j].tenant \in Tenants
               /\ Due(j) \/ snap'[j] = Row(j) \/ (snap'[j] = Negative /\ Row(j) = Absent)
      BY <2>1, <2>2, <2>4, Kinds
    <2>6. f \in Fills /\ f.pc = "schema" /\ f.host = res[r].host /\ f.row = res[r].row
          /\ f.held = res[r].held
      BY <1>1 DEF Fills
    <2> HIDE DEF f
    <2>7. FillKnows(f) /\ Unwritten(f) \subseteq Unwritten(res[r])
      BY <1>1, <2>1, <2>6 DEF FillKnows, Unwritten
    <2>8. \A k \in Unwritten(f) : f.row = Row(k) \/ Due(k) \/ k \in f.held
      BY <1>1, <2>6, <2>7 DEF Current
    <2> QED BY <2>3, <2>4, <2>5, <2>6, <2>7, <2>8, FillKeeps
  <1>6. CASE PutSchema(r)
    <2>1. /\ res[r].row.tenant \in Keys /\ res[r].pc = "schema" /\ res[r].row.kind = "positive"
          /\ res[r].row \in Entry /\ res[r].row.tenant \in Tenants
          /\ res[r].row.tenant \in Unwritten(res[r])
      BY <1>1, <1>6 DEF PutSchema, FillKnows, Keys, Unwritten, Fills
    <2>2. \/ Row(res[r].row.tenant) = res[r].row \/ Due(res[r].row.tenant)
          \/ snap[res[r].row.tenant] = Hold
      BY <1>1, <2>1 DEF Current, Held
    <2>3. /\ snap' = SetNx(res[r].row.tenant, res[r].row) /\ res' = [res EXCEPT ![r] = ResIdle]
          /\ UNCHANGED <<dep, owner, status, missed, queue, rec, faults>>
      BY <1>6 DEF PutSchema, writer
    <2>4. /\ snap' \in [Keys -> Entry]
          /\ \A j \in Keys : \/ snap'[j] = snap[j]
                             \/ j = res[r].row.tenant /\ snap[j] = Absent /\ snap'[j] = res[r].row
      BY SMT, <1>1, <2>1, <2>3, SetNxIs
    <2>5. \A j \in Keys :
            \/ snap'[j] = snap[j]
            \/ /\ snap[j] = Absent
               /\ snap'[j].kind = "positive" => snap'[j].tenant \in Tenants
               /\ Due(j) \/ snap'[j] = Row(j) \/ (snap'[j] = Negative /\ Row(j) = Absent)
      BY <2>1, <2>2, <2>4, Kinds
    <2> QED BY <2>3, <2>4, <2>5, IdleFill, FillKeeps
  <1>7. CASE Abandon(r)
    <2>1. res' = [res EXCEPT ![r] = ResIdle] /\ UNCHANGED <<dep, owner, status, missed, queue, rec, faults, snap>>
      BY <1>7 DEF Abandon, writer
    <2> QED BY <1>1, <2>1, IdleFill, FillKeeps DEF Types
  <1> QED BY <1>2, <1>3, <1>4, <1>5, <1>6, <1>7 DEF Request, Fill

\* A TTL ends: a hold that a thread relies on does not expire.
LEMMA ExpireKeeps ==
  ASSUME CacheInv, Sheltered, NEW k \in Keys, Expire(k) PROVE CacheInv'
  <1>1. Types /\ (\A r \in Resolvers : FillKnows(res[r])) /\ Held /\ Current
        /\ rec.pc = "idle" /\ \A j \in Keys : Stale(j) => Due(j)
    BY DEF CacheInv
  <1>2. /\ snap' = [snap EXCEPT ![k] = Absent] /\ UNCHANGED <<dep, owner, status, res, missed, queue, rec, faults>>
        /\ snap[k] = Hold => \A r \in Resolvers : k \notin res[r].held
    BY DEF Expire, Sheltered, writer
  <1>3. \A j \in Keys : Row(j)' = Row(j) /\ (Due(j)' <=> Due(j))
    BY <1>2 DEF Row, Owed, Due
  <1>4. snap'[k] = Absent /\ \A j \in Keys \ {k} : snap'[j] = snap[j]
    BY <1>1, <1>2 DEF Types
  <1>5. Types'
    BY <1>1, <1>2, <1>4, Kinds DEF Types
  <1>6. Held'
    <2>1. \A r \in Resolvers : res[r].held \subseteq Keys \ {k}
      BY <1>1, <1>2 DEF Held, Types, Fills
    <2> QED BY <1>1, <1>2, <1>4, <2>1 DEF Held
  <1>7. Current'
    <2>1. \A r \in Resolvers : Unwritten(res[r]) \subseteq Keys
      BY DEF Unwritten
    <2> QED BY <1>1, <1>2, <1>3, <2>1 DEF Current, Unwritten
  <1>8. \A j \in Keys : Stale(j)' => Due(j)'
    BY <1>1, <1>3, <1>4, Kinds DEF Stale
  <1> QED BY <1>1, <1>2, <1>5, <1>6, <1>7, <1>8 DEF CacheInv

\* A callback that is done with leaves the others.
LEMMA Done ==
  ASSUME Types, NEW w \in Writers, queue[w] # <<>>, queue' = [queue EXCEPT ![w] = Tail(@)],
         UNCHANGED owner
  PROVE  /\ queue' \in [Writers -> Seq(Callbacks)] /\ Head(queue[w]) \in Callbacks
         /\ \A k : Owed(k) => Owed(k)' \/ Owes(Head(queue[w]), k)
  <1>1. queue[w] \in Seq(Callbacks)
    BY DEF Types
  <1>2. /\ Head(queue[w]) \in Callbacks /\ Tail(queue[w]) \in Seq(Callbacks)
        /\ \A i \in DOMAIN queue[w] :
             \/ queue[w][i] = Head(queue[w])
             \/ i - 1 \in DOMAIN Tail(queue[w]) /\ Tail(queue[w])[i - 1] = queue[w][i]
    BY <1>1, TailOf
  <1>3. queue'[w] = Tail(queue[w]) /\ \A v \in Writers \ {w} : queue'[v] = queue[v]
    BY DEF Types
  <1>4. queue' \in [Writers -> Seq(Callbacks)]
    BY <1>2 DEF Types
  <1>5. ASSUME NEW k, Owed(k), ~Owes(Head(queue[w]), k) PROVE Owed(k)'
    <2>1. PICK v \in Writers : \E i \in DOMAIN queue[v] : Owes(queue[v][i], k)
      BY <1>5, OwedIs
    <2>2. PICK i \in DOMAIN queue[v] : Owes(queue[v][i], k)
      BY <2>1
    <2>3. \E j \in DOMAIN queue'[v] : queue'[v][j] = queue[v][i]
      <3>1. CASE v = w
        <4>1. queue[w][i] # Head(queue[w])
          BY <1>5, <2>2, <3>1
        <4>2. i - 1 \in DOMAIN Tail(queue[w]) /\ Tail(queue[w])[i - 1] = queue[w][i]
          BY <1>2, <2>2, <3>1, <4>1
        <4> QED BY <1>3, <3>1, <4>2
      <3>2. CASE v # w
        BY <1>3, <2>2, <3>2
      <3> QED BY <3>1, <3>2
    <2> QED BY <2>2, <2>3 DEF Owes, Owed
  <1> QED BY <1>2, <1>4, <1>5

\* The callbacks run in order, each to its end.
LEMMA CallbackKeeps ==
  ASSUME CacheInv, Sheltered, NEW w \in Writers, Callback(w) PROVE CacheInv'
  <1>1. Types
    BY DEF CacheInv
  <1>2. queue[w] # <<>> /\ UNCHANGED <<dep, owner, status, rec, faults>>
    BY DEF Callback, RunTombstone, RunBump, RunForgetHost, RunForgetTenant, Running
  <1>3. CASE RunTombstone(w) \/ RunForgetHost(w)
    <2>1. queue' = [queue EXCEPT ![w] = Tail(@)] /\ Head(queue[w]).do \in {"tombstone", "forget_host"}
      BY <1>3 DEF RunTombstone, RunForgetHost, Running
    <2>2. /\ queue' \in [Writers -> Seq(Callbacks)] /\ Head(queue[w]) \in Callbacks
          /\ \A k \in Keys : Owed(k) => Owed(k)' \/ Owes(Head(queue[w]), k)
      BY <1>1, <1>2, <2>1, Done
    <2>3. \A k \in Keys : Owed(k) => Owed(k)' \/ k \in Head(queue[w]).keys
      BY <2>1, <2>2 DEF Owes
    <2>4. CASE RunTombstone(w)
      <3>1. Invalidate(Head(queue[w]).keys) /\ Head(queue[w]).keys \in SUBSET Keys
        BY <2>2, <2>4 DEF RunTombstone, Callbacks
      <3> QED BY <1>2, <2>2, <2>3, <3>1, TombstoneKeeps
    <2>5. CASE RunForgetHost(w)
      <3> DEFINE keys == UNION {{h} \cup Derived(h) : h \in Head(queue[w]).keys}
      <3>1. Head(queue[w]).keys \in SUBSET Keys
        BY <2>2 DEF Callbacks
      <3>2. \A h \in Keys : Derived(h) \subseteq Keys
        BY <1>1 DEF Derived, Types, Keys
      <3>3. keys \in SUBSET Keys /\ Head(queue[w]).keys \subseteq keys
        BY SMT, <3>1, <3>2
      <3>4. Invalidate(keys)
        BY <2>5 DEF RunForgetHost
      <3> HIDE DEF keys
      <3>5. \A k \in Keys : Owed(k) => Owed(k)' \/ k \in keys
        BY <2>3, <3>3
      <3> QED BY <1>2, <2>2, <3>3, <3>4, <3>5, TombstoneKeeps
    <2> QED BY <1>3, <2>4, <2>5
  <1>4. CASE RunBump(w)
    <2>1. /\ queue' = [queue EXCEPT ![w] = Tail(@)] /\ Head(queue[w]).do = "bump"
          /\ UNCHANGED <<snap, res, missed>>
      BY <1>4 DEF RunBump, Running, writer
    <2>2. /\ queue' \in [Writers -> Seq(Callbacks)] /\ Head(queue[w]) \in Callbacks
          /\ \A k \in Keys : Owed(k) => Owed(k)' \/ Owes(Head(queue[w]), k)
      BY <1>1, <1>2, <2>1, Done
    <2>3. \A k \in Keys : Owed(k) => Owed(k)'
      BY <2>1, <2>2 DEF Owes, Callbacks
    <2> QED BY <1>2, <2>1, <2>2, <2>3, QueueKeeps
  <1>5. CASE RunForgetTenant(w)
    <2> DEFINE c == Head(queue[w])
               m == Tombstone(c.keys \cup {h \in Hosts : owner[h] \in c.keys})
    <2>1. queue[w] \in Seq(Callbacks) /\ c \in Callbacks
      BY <1>1, <1>2, TailOf DEF Types
    <2>2. /\ m \in Callbacks /\ m.keys = c.keys \cup {h \in Hosts : owner[h] \in c.keys}
      BY <2>1 DEF Tombstone, Callbacks, Keys
    <2>3. queue' = [queue EXCEPT ![w] = <<m>> \o Tail(queue[w])] /\ UNCHANGED <<snap, res, missed>>
      BY <1>5 DEF RunForgetTenant, writer
    <2>4. \A k \in Keys : Owes(c, k) => k \in m.keys
      BY <2>2 DEF Owes
    <2> HIDE DEF m, c
    <2>5. /\ <<m>> \o Tail(queue[w]) \in Seq(Callbacks)
          /\ DOMAIN (<<m>> \o Tail(queue[w])) = DOMAIN queue[w]
          /\ 1 \in DOMAIN queue[w] /\ queue[w][1] = c /\ (<<m>> \o Tail(queue[w]))[1] = m
          /\ \A i \in DOMAIN queue[w] \ {1} : (<<m>> \o Tail(queue[w]))[i] = queue[w][i]
      BY SMT, <1>2, <2>1, <2>2, ReplaceHead DEF c
    <2>6. queue'[w] = <<m>> \o Tail(queue[w]) /\ \A v \in Writers \ {w} : queue'[v] = queue[v]
      BY <1>1, <2>3 DEF Types
    <2>7. queue' \in [Writers -> Seq(Callbacks)]
      BY <1>1, <2>3, <2>5 DEF Types
    <2>8. ASSUME NEW k \in Keys, Owed(k) PROVE Owed(k)'
      <3>1. PICK v \in Writers : \E i \in DOMAIN queue[v] : Owes(queue[v][i], k)
        BY <2>8, OwedIs
      <3>2. PICK i \in DOMAIN queue[v] : Owes(queue[v][i], k)
        BY <3>1
      <3>3. CASE v = w /\ i = 1
        <4>1. k \in m.keys
          BY <2>4, <2>5, <3>2, <3>3
        <4>2. 1 \in DOMAIN queue'[w] /\ queue'[w][1] = m
          BY <2>5, <2>6
        <4> QED BY <4>1, <4>2 DEF Owed
      <3>4. CASE v # w \/ i # 1
        <4>1. i \in DOMAIN queue'[v] /\ queue'[v][i] = queue[v][i]
          BY <2>5, <2>6, <3>2, <3>4
        <4> QED BY <1>2, <3>2, <4>1 DEF Owes, Owed
      <3> QED BY <3>3, <3>4
    <2> QED BY <1>2, <2>3, <2>7, <2>8, QueueKeeps
  <1> QED BY <1>3, <1>4, <1>5 DEF Callback

\* What a writer has loaded tells it from an idle one.
LEMMA Busy ==
  ASSUME Loading, NEW w \in Writers
  PROVE  /\ txn[w].rows # {} \/ txn[w].tenant # None => queue[w] = <<>>
         /\ \A r \in txn[w].rows : r.host \in Hosts
  <1>1. NoTxn.rows = {} /\ NoTxn.tenant = None
    BY DEF NoTxn
  <1> QED BY <1>1 DEF Loading, LoadedHosts

\* Each transaction owes the keys of the rows it changes, but the hosts that a
\* row it saves or deletes has taken since it was loaded.
LEMMA WriteKeeps ==
  ASSUME CacheInv, Loading, Sheltered, NEW w \in Writers, Write(w) PROVE CacheInv'
  <1>1. /\ Types /\ dep.hosts \subseteq Hosts /\ Hosts \cap Tenants = {} /\ None \notin Tenants
        /\ None \notin Hosts
    BY CacheConstants DEF CacheInv
  <1>2. \A cs : Commit(w, cs) => /\ queue' = [queue EXCEPT ![w] = cs]
                                 /\ UNCHANGED <<dep, snap, res, rec, faults>>
    BY DEF Commit
  <1>3. ASSUME NEW hosts \in SUBSET Hosts, NEW f \in [Hosts -> Tenants \cup {None}],
               NEW cs \in Seq(Callbacks), queue[w] = <<>>, owner' = f, UNCHANGED status,
               \A h \in Hosts \ hosts : f[h] = owner[h],
               missed \subseteq missed',
               \A h \in hosts : h \in missed' \/ \E i \in DOMAIN cs : h \in cs[i].keys,
               Commit(w, cs)
        PROVE  CacheInv'
    <2>1. \A k \in Keys : k \notin hosts => Row(k)' = Row(k) /\ (k \in Hosts => owner'[k] = owner[k])
      BY <1>1, <1>3 DEF Row, Keys
    <2>2. status' \in [Tenants -> Statuses \cup {"gone"}]
      BY <1>1, <1>3 DEF Types
    <2>3. \A k \in Keys : Row(k)' # Row(k) \/ (k \in Hosts /\ owner'[k] # owner[k]) =>
            \/ k \in missed'
            \/ \E i \in DOMAIN cs : \/ k \in cs[i].keys
                                    \/ cs[i].do = "forget_tenant" /\ k \in Hosts /\ owner'[k] \in cs[i].keys
      BY <1>3, <2>1
    <2> QED BY <1>2, <1>3, <2>2, <2>3, CommitKeeps
  <1>4. ASSUME NEW h \in Hosts, NEW t \in Tenants, CreateDomain(w, h, t) PROVE CacheInv'
    <2> DEFINE f == [owner EXCEPT ![h] = t]
               cs == DomainSignal(h)
    <2>1. cs \in Seq(Callbacks) /\ 1 \in DOMAIN cs /\ h \in cs[1].keys
      BY SMT, <1>1, SignalIs
    <2>2. /\ queue[w] = <<>> /\ owner' = f /\ UNCHANGED <<status, missed>> /\ Commit(w, cs)
      BY <1>4 DEF CreateDomain, Begin
    <2>3. f \in [Hosts -> Tenants \cup {None}] /\ \A x \in Hosts \ {h} : f[x] = owner[x]
      BY <1>1 DEF Types
    <2> HIDE DEF f, cs
    <2>4. {h} \in SUBSET Hosts /\ missed \subseteq missed'
          /\ \A x \in {h} : x \in missed' \/ \E i \in DOMAIN cs : x \in cs[i].keys
      BY <2>1, <2>2
    <2> QED BY <1>3, <2>1, <2>2, <2>3, <2>4
  <1>5. ASSUME NEW h \in Hosts, NEW t \in Tenants, SaveDomain(w, h, t) PROVE CacheInv'
    <2> DEFINE f == [Vacate(owner, Here(w), None) EXCEPT ![h] = t]
               ds == DomainSignal(h)
    <2>1. PICK r \in txn[w].rows :
            /\ Took(w, Here(w), {h, r.host})
            /\ Commit(w, IF r.host = h THEN ds ELSE Append(ds, ForgetHost(r.host)))
      BY <1>5 DEF SaveDomain
    <2>2. queue[w] = <<>> /\ r.host \in Hosts /\ owner' = f /\ UNCHANGED status
      BY <1>5, <2>1, Busy DEF SaveDomain
    <2>3. missed' = missed \cup (Here(w) \ {h, r.host}) /\ Here(w) \subseteq Hosts
      BY <2>1 DEF Took, Here
    <2>4. f \in [Hosts -> Tenants \cup {None}] /\ \A x \in Hosts \ ({h} \cup Here(w)) : f[x] = owner[x]
      BY <1>1 DEF Types, Vacate
    <2>5. ds \in Seq(Callbacks) /\ 1 \in DOMAIN ds /\ h \in ds[1].keys
      BY SMT, <1>1, SignalIs
    <2>6. ForgetHost(r.host) \in Callbacks /\ r.host \in ForgetHost(r.host).keys
      BY <2>2 DEF ForgetHost, Callbacks, Keys
    <2>7. PICK cs \in Seq(Callbacks) :
            /\ Commit(w, cs) /\ 1 \in DOMAIN cs /\ cs[1] = ds[1]
            /\ r.host = h \/ \E i \in DOMAIN cs : cs[i] = ForgetHost(r.host)
      <3> HIDE DEF ds
      <3>1. CASE r.host = h
        BY <2>1, <2>5, <3>1
      <3>2. CASE r.host # h
        <4> DEFINE cs == Append(ds, ForgetHost(r.host))
        <4>1. Commit(w, cs)
          BY <2>1, <3>2
        <4>2. /\ cs \in Seq(Callbacks) /\ 1 \in DOMAIN cs /\ cs[1] = ds[1]
              /\ \E i \in DOMAIN cs : cs[i] = ForgetHost(r.host)
          BY SMT, <2>5, <2>6, AppendOf
        <4> HIDE DEF cs
        <4> QED BY <4>1, <4>2
      <3> QED BY <3>1, <3>2
    <2> HIDE DEF f, ds
    <2>8. \A x \in {h} \cup Here(w) : x \in missed' \/ \E i \in DOMAIN cs : x \in cs[i].keys
      BY <2>3, <2>5, <2>6, <2>7
    <2>9. {h} \cup Here(w) \in SUBSET Hosts /\ missed \subseteq missed'
      BY <2>3
    <2> QED BY <1>3, <2>2, <2>4, <2>7, <2>8, <2>9
  <1>6. ASSUME DeleteDomain(w) PROVE CacheInv'
    <2> DEFINE f == Vacate(owner, Here(w), None)
    <2>1. PICK h \in LoadedHosts(w) : Took(w, Here(w), {h}) /\ Commit(w, DomainSignal(h))
      BY <1>6 DEF DeleteDomain
    <2> DEFINE cs == DomainSignal(h)
    <2>2. h \in Hosts /\ txn[w].rows # {}
      BY <2>1, Busy DEF LoadedHosts
    <2>3. queue[w] = <<>> /\ owner' = f /\ UNCHANGED status
      BY <1>6, <2>2, Busy DEF DeleteDomain
    <2>4. missed' = missed \cup (Here(w) \ {h}) /\ Here(w) \subseteq Hosts
      BY <2>1 DEF Took, Here
    <2>5. f \in [Hosts -> Tenants \cup {None}] /\ \A x \in Hosts \ Here(w) : f[x] = owner[x]
      BY <1>1 DEF Types, Vacate
    <2>6. cs \in Seq(Callbacks) /\ 1 \in DOMAIN cs /\ h \in cs[1].keys
      BY SMT, <1>1, <2>2, SignalIs
    <2>7. Commit(w, cs)
      BY <2>1
    <2> HIDE DEF f, cs
    <2>8. \A x \in Here(w) : x \in missed' \/ \E i \in DOMAIN cs : x \in cs[i].keys
      BY <2>4, <2>6
    <2>9. Here(w) \in SUBSET Hosts /\ missed \subseteq missed'
      BY <2>4
    <2> QED BY <1>3, <2>3, <2>5, <2>6, <2>7, <2>8, <2>9
  <1>7. ASSUME NEW t \in Tenants, NEW s \in Statuses, SetStatus(w, t, s) PROVE CacheInv'
    <2> DEFINE c == ForgetTenant(t)
               cs == <<c>>
    <2>1. c \in Callbacks /\ c.keys = {t} /\ c.do = "forget_tenant"
      BY DEF ForgetTenant, Callbacks, Keys
    <2>2. /\ status' = [status EXCEPT ![t] = s] /\ UNCHANGED <<owner, missed>> /\ Commit(w, cs)
          /\ queue[w] = <<>>
      BY <1>7 DEF SetStatus, Begin, writer
    <2> HIDE DEF c
    <2>3. cs \in Seq(Callbacks) /\ 1 \in DOMAIN cs /\ cs[1] = c
      BY SMT, <2>1
    <2> HIDE DEF cs
    <2>4. \A k \in Keys : k # t /\ (k \in Hosts => owner[k] # t) => Row(k)' = Row(k)
      BY <1>1, <2>2 DEF Row, Types, Keys
    <2>5. owner' \in [Hosts -> Tenants \cup {None}] /\ status' \in [Tenants -> Statuses \cup {"gone"}]
      BY <1>1, <2>2 DEF Types
    <2>6. \A k \in Keys : Row(k)' # Row(k) \/ (k \in Hosts /\ owner'[k] # owner[k]) =>
            \E i \in DOMAIN cs : \/ k \in cs[i].keys
                                 \/ cs[i].do = "forget_tenant" /\ k \in Hosts /\ owner'[k] \in cs[i].keys
      BY <2>1, <2>2, <2>3, <2>4
    <2> QED BY <1>2, <2>2, <2>3, <2>5, <2>6, CommitKeeps
  <1>8. ASSUME NEW t \in Tenants, DeleteTenant(w, t) PROVE CacheInv'
    <2> DEFINE mine == LoadedHosts(w)
               n == Cardinality(mine)
    <2>1. mine \subseteq Hosts /\ n \in Nat
      <3>1. mine \subseteq Hosts
        BY DEF Loading
      <3> HIDE DEF mine
      <3> QED BY SMT, <3>1, CacheConstants, FS_Subset, FS_CardinalityType
    <2>2. PICK order \in [1..n -> mine] :
            /\ \A h \in mine : \E i \in DOMAIN order : order[i] = h
            /\ Commit(w, Append([i \in 1..2 * n |->
                                   DomainSignal(order[(i + 1) \div 2])[2 - (i % 2)]],
                                Tombstone({t})))
      BY <1>8 DEF DeleteTenant
    <2>3. /\ status' = [status EXCEPT ![t] = "gone"]
          /\ owner' = [h \in Hosts |-> IF h \in Here(w) THEN None ELSE owner[h]]
          /\ missed' = missed \cup (Here(w) \ mine)
          /\ queue[w] = <<>>
          /\ \A h \in Hosts : owner[h] = t => h \in Here(w)
      BY <1>1, <1>8, Busy DEF DeleteTenant, Took, Vacate
    <2> DEFINE ds == [i \in 1..2 * n |-> DomainSignal(order[(i + 1) \div 2])[2 - (i % 2)]]
               cs == Append(ds, Tombstone({t}))
    <2>4. mine \subseteq Hosts
      BY <2>1
    <2>5. Commit(w, cs)
      BY <2>2
    <2> HIDE DEF n, mine
    <2>7. \A i \in 1..2 * n : (i + 1) \div 2 \in 1..n /\ 2 - (i % 2) \in {1, 2}
      BY SMT, <2>1
    <2>8. \A i \in 1..2 * n : ds[i] \in Callbacks
      <3> SUFFICES ASSUME NEW i \in 1..2 * n
                   PROVE  DomainSignal(order[(i + 1) \div 2])[2 - (i % 2)] \in Callbacks
        OBVIOUS
      <3>1. order[(i + 1) \div 2] \in Hosts
        BY <2>4, <2>7
      <3>2. \A h \in Hosts : DomainSignal(h)[1] \in Callbacks /\ DomainSignal(h)[2] \in Callbacks
        BY <1>1, SignalIs
      <3>3. 2 - (i % 2) = 1 \/ 2 - (i % 2) = 2
        BY <2>7
      <3> QED BY <3>1, <3>2, <3>3
    <2>9. ASSUME NEW h \in mine PROVE \E i \in DOMAIN ds : h \in ds[i].keys
      <3>1. PICK j \in 1..n : order[j] = h
        BY <2>2
      <3>2. /\ 2 * j - 1 \in 1..2 * n /\ (2 * j - 1 + 1) \div 2 = j
            /\ 2 - ((2 * j - 1) % 2) = 1
        BY SMT, <2>1
      <3>3. ds[2 * j - 1] = DomainSignal(h)[1]
        BY <3>1, <3>2
      <3>4. h \in DomainSignal(h)[1].keys
        BY <1>1, <2>4, SignalIs
      <3> QED BY <3>2, <3>3, <3>4
    <2>10. ds \in Seq(Callbacks)
      <3>1. ds \in [1..2 * n -> Callbacks] /\ 2 * n \in Nat
        BY SMT, <2>1, <2>8
      <3> HIDE DEF ds
      <3> QED BY SMT, <3>1
    <2>11. Tombstone({t}) \in Callbacks /\ t \in Tombstone({t}).keys
      BY DEF Tombstone, Callbacks, Keys
    <2> HIDE DEF ds
    <2>12. /\ cs \in Seq(Callbacks)
           /\ \A i \in DOMAIN ds : i \in DOMAIN cs /\ cs[i] = ds[i]
           /\ \E i \in DOMAIN cs : cs[i] = Tombstone({t})
      BY SMT, <2>10, <2>11, AppendOf
    <2> HIDE DEF cs
    <2>13. \A k \in Keys : k # t /\ k \notin Here(w) =>
             Row(k)' = Row(k) /\ (k \in Hosts => owner'[k] = owner[k])
      BY <1>1, <2>3 DEF Row, Types, Keys
    <2>14. owner' \in [Hosts -> Tenants \cup {None}] /\ status' \in [Tenants -> Statuses \cup {"gone"}]
      BY <1>1, <2>3 DEF Types
    <2>15. \A k \in Keys : Row(k)' # Row(k) \/ (k \in Hosts /\ owner'[k] # owner[k]) =>
             \/ k \in missed'
             \/ \E i \in DOMAIN cs : \/ k \in cs[i].keys
                                     \/ cs[i].do = "forget_tenant" /\ k \in Hosts /\ owner'[k] \in cs[i].keys
      <3> SUFFICES ASSUME NEW k \in Keys, k = t \/ k \in Here(w)
                   PROVE  k \in missed' \/ \E i \in DOMAIN cs : k \in cs[i].keys
        BY <2>13
      <3>1. CASE k = t
        BY <2>11, <2>12, <3>1
      <3>2. CASE k \in mine
        BY <2>9, <2>12, <3>2
      <3>3. CASE k \in Here(w) \ mine
        BY <2>3, <3>3
      <3> QED BY <3>1, <3>2, <3>3
    <2>16. missed \subseteq missed'
      BY <2>3
    <2> QED BY <1>2, <2>3, <2>5, <2>12, <2>14, <2>15, <2>16, CommitKeeps
  <1>9. ASSUME \/ Rollback(w) \/ \E h \in Hosts : LoadDomain(w, h)
               \/ \E t \in Tenants : LoadTenant(w, t)
        PROVE  CacheInv'
    <2>1. UNCHANGED <<dep, owner, status, snap, res, missed, queue, rec, faults>>
      BY <1>9 DEF Rollback, LoadDomain, LoadTenant, Load
    <2>2. queue' \in [Writers -> Seq(Callbacks)] /\ \A k \in Keys : Owed(k) => Owed(k)'
      BY <1>1, <2>1 DEF Types, Owed
    <2> QED BY <2>1, <2>2, QueueKeeps
  <1> QED BY <1>1, <1>4, <1>5, <1>6, <1>7, <1>8, <1>9 DEF Write

\* A writer loads after its callbacks, and saves before the next ones.
LEMMA LoadingKept == CacheInv /\ Loading /\ [Next]_vars => Loading'
  <1> SUFFICES ASSUME dep.hosts \subseteq Hosts, Loading, [Next]_vars PROVE Loading'
    BY DEF CacheInv
  <1>1. ASSUME UNCHANGED <<txn, queue>> PROVE Loading'
    BY <1>1 DEF Loading, LoadedHosts
  <1>2. ASSUME NEW w \in Writers, NEW q, txn[w] = NoTxn, queue' = [queue EXCEPT ![w] = q], UNCHANGED txn
        PROVE  Loading'
    BY <1>2 DEF Loading, LoadedHosts
  <1>3. ASSUME NEW w \in Writers, NEW q, txn' = [txn EXCEPT ![w] = NoTxn],
               queue' = [queue EXCEPT ![w] = q]
        PROVE  Loading'
    <2>1. NoTxn.rows = {}
      BY DEF NoTxn
    <2>2. txn'[w] = NoTxn /\ \A v \in Writers \ {w} : txn'[v] = txn[v] /\ queue'[v] = queue[v]
      BY <1>3 DEF Loading
    <2>3. LoadedHosts(w)' = {} /\ \A v \in Writers \ {w} : LoadedHosts(v)' = LoadedHosts(v)
      BY <2>1, <2>2 DEF LoadedHosts
    <2>4. txn' = [v \in Writers |-> txn'[v]] /\ queue' = [v \in Writers |-> queue'[v]]
      BY <1>3 DEF Loading
    <2> QED BY <2>2, <2>3, <2>4 DEF Loading
  <1>4. ASSUME NEW w \in Writers, NEW t, NEW hosts \in SUBSET Hosts, Load(w, t, hosts) PROVE Loading'
    <2> DEFINE l == [tenant |-> t, rows |-> {[host |-> h, pk |-> pk[h]] : h \in hosts}]
    <2>1. txn' = [txn EXCEPT ![w] = l] /\ UNCHANGED queue /\ queue[w] = <<>>
      BY <1>4 DEF Load, Begin
    <2>2. \A r \in l.rows : r.host \in Hosts
      <3> SUFFICES ASSUME NEW r \in {[host |-> h, pk |-> pk[h]] : h \in hosts} PROVE r.host \in Hosts
        OBVIOUS
      <3>1. PICK h \in hosts : r = [host |-> h, pk |-> pk[h]]
        OBVIOUS
      <3> QED BY <3>1
    <2> HIDE DEF l
    <2>3. txn'[w] = l /\ \A v \in Writers \ {w} : txn'[v] = txn[v]
      BY <2>1 DEF Loading
    <2>4. LoadedHosts(w)' \subseteq Hosts /\ \A v \in Writers \ {w} : LoadedHosts(v)' = LoadedHosts(v)
      BY <2>2, <2>3 DEF LoadedHosts
    <2>5. txn' = [v \in Writers |-> txn'[v]]
      BY <2>1 DEF Loading
    <2> QED BY <2>1, <2>3, <2>4, <2>5 DEF Loading
  <1>5. ASSUME NEW w \in Writers, Write(w) PROVE Loading'
    <2>1. CASE Rollback(w)
      <3>1. txn' = [txn EXCEPT ![w] = NoTxn] /\ queue' = [queue EXCEPT ![w] = queue[w]]
        BY <2>1 DEF Rollback, Loading
      <3> QED BY <1>3, <3>1
    <2>2. CASE \E h \in dep.hosts : LoadDomain(w, h)
      <3>1. PICK h \in dep.hosts : owner[h] # None /\ Load(w, None, {h})
        BY <2>2 DEF LoadDomain
      <3>2. {h} \in SUBSET Hosts
        OBVIOUS
      <3> QED BY <1>4, <3>1, <3>2
    <2>3. CASE \E t \in Tenants : LoadTenant(w, t)
      BY <1>4, <2>3 DEF LoadTenant
    <2>4. CASE \E h \in dep.hosts, t \in Tenants : CreateDomain(w, h, t)
      <3>1. PICK h \in dep.hosts, t \in Tenants : CreateDomain(w, h, t)
        BY <2>4
      <3> QED BY <1>2, <3>1 DEF CreateDomain, Begin, Commit
    <2>5. CASE \E t \in Tenants, s \in Statuses : SetStatus(w, t, s)
      <3>1. PICK t \in Tenants, s \in Statuses : SetStatus(w, t, s)
        BY <2>5
      <3> QED BY <1>2, <3>1 DEF SetStatus, Begin, Commit, writer
    <2>6. CASE \E h \in dep.hosts, t \in Tenants : SaveDomain(w, h, t)
      <3>1. PICK h \in dep.hosts, t \in Tenants : SaveDomain(w, h, t)
        BY <2>6
      <3>2. txn' = [txn EXCEPT ![w] = NoTxn] /\ \E q : queue' = [queue EXCEPT ![w] = q]
        BY <3>1 DEF SaveDomain, Took, Commit
      <3> QED BY <1>3, <3>2
    <2>7. CASE DeleteDomain(w)
      <3>1. txn' = [txn EXCEPT ![w] = NoTxn] /\ \E q : queue' = [queue EXCEPT ![w] = q]
        BY <2>7 DEF DeleteDomain, Took, Commit
      <3> QED BY <1>3, <3>1
    <2>8. CASE \E t \in Tenants : DeleteTenant(w, t)
      <3>1. txn' = [txn EXCEPT ![w] = NoTxn] /\ \E q : queue' = [queue EXCEPT ![w] = q]
        BY <2>8 DEF DeleteTenant, Took, Commit
      <3> QED BY <1>3, <3>1
    <2> QED BY <1>5, <2>1, <2>2, <2>3, <2>4, <2>5, <2>6, <2>7, <2>8 DEF Write
  <1>6. ASSUME NEW w \in Writers, Callback(w) \/ LoseCallback(w) \/ WriterDies(w) PROVE Loading'
    <2>1. queue[w] # <<>> /\ UNCHANGED txn /\ \E q : queue' = [queue EXCEPT ![w] = q]
      BY <1>6 DEF Callback, RunTombstone, RunBump, RunForgetHost, RunForgetTenant, Running,
         LoseCallback, WriterDies, writer
    <2>2. txn[w] = NoTxn
      BY <2>1 DEF Loading
    <2> QED BY <1>2, <2>1, <2>2
  <1>7. ASSUME NEW w \in Writers, NEW t \in Tenants, InvalidateCommand(w, t) PROVE Loading'
    <2>1. txn[w] = NoTxn /\ UNCHANGED txn /\ \E q : queue' = [queue EXCEPT ![w] = q]
      BY <1>7 DEF InvalidateCommand, writer
    <2> QED BY <1>2, <2>1
  <1>8. ASSUME NEW r \in Resolvers, Request(r) PROVE UNCHANGED <<txn, queue>>
    BY <1>8 DEF Request, Fill, Miss, ReadRow, StoreMiss, PutHost, PutSchema, Abandon, writer
  <1>9. ASSUME Reconcile \/ WarmEnd \/ ForgetSchemas \/ ForgetAll \/ \E force \in BOOLEAN : WarmStart(force)
        PROVE  UNCHANGED <<txn, queue>>
    BY <1>9 DEF Reconcile, RecBefore, RecScan, RecCheck, RecSchemas, RecSweep, RecDrop, RecWrite,
       WarmStart, ForgetAll, WarmEnd, ForgetSchemas, writer
  <1>10. ASSUME NEW k \in Keys, Expire(k) PROVE UNCHANGED <<txn, queue>>
    BY <1>10 DEF Expire, writer
  <1>11. ASSUME NEW t \in Tenants, TaskMiss(t) \/ TaskDown(t) \/ LocalExpire(t)
         PROVE  UNCHANGED <<txn, queue>>
    BY <1>11 DEF TaskMiss, TaskDown, LocalExpire, writer
  <1>12. ASSUME TaskRead \/ TaskFill \/ UNCHANGED vars PROVE UNCHANGED <<txn, queue>>
    BY <1>12 DEF TaskRead, TaskFill, vars, writer
  <1> QED BY <1>1, <1>5, <1>6, <1>7, <1>8, <1>9, <1>10, <1>11, <1>12 DEF Next, Command

---------------------------------------------------------------------------
(* The theorem *)

\* At start nothing is cached.
LEMMA InitCache == Init => CacheInv /\ Loading
  <1> SUFFICES ASSUME Init PROVE CacheInv /\ Loading
    OBVIOUS
  <1>0. Loading
    <2>1. NoTxn.rows = {}
      BY DEF NoTxn
    <2>2. txn = [w \in Writers |-> NoTxn] /\ queue = [w \in Writers |-> <<>>]
      BY DEF Init
    <2> QED BY <2>1, <2>2 DEF Loading, LoadedHosts
  <1>1. faults \in Nat /\ dep.hosts \subseteq Hosts
    BY CacheConstants DEF Init
  <1>2. Types
    <2>1. dep.tenants \subseteq Tenants
      BY CacheConstants DEF Init
    <2>2. owner \in [Hosts -> Tenants \cup {None}] /\ status \in [Tenants -> Statuses \cup {"gone"}]
      BY <2>1 DEF Init, Statuses
    <2>3. /\ snap \in [Keys -> Entry] /\ res \in [Resolvers -> Fills]
          /\ \A k \in Keys : snap[k].kind # "positive"
      BY IdleFill, Kinds DEF Init
    <2>4. queue \in [Writers -> Seq(Callbacks)]
      BY SMT DEF Init
    <2> QED BY <2>2, <2>3, <2>4 DEF Types
  <1>3. \A r \in Resolvers : res[r] = ResIdle
    BY DEF Init
  <1>4. (\A r \in Resolvers : FillKnows(res[r])) /\ Held /\ Current
    BY <1>3, IdleFill DEF Held, Current
  <1>5. rec.pc = "idle" /\ \A k \in Keys : ~Stale(k)
    BY Kinds DEF Init, RecIdle, Stale
  <1> QED BY <1>0, <1>1, <1>2, <1>4, <1>5 DEF CacheInv

\* The settings stay, and what is lost is counted.
LEMMA Counted ==
  ASSUME [Next]_vars PROVE UNCHANGED dep /\ faults' \in {faults, faults + 1}
  <1>1. ASSUME NEW r \in Resolvers, Request(r) PROVE UNCHANGED <<dep, faults>>
    BY <1>1 DEF Request, Fill, Miss, ReadRow, StoreMiss, PutHost, PutSchema, Abandon
  <1>2. ASSUME NEW w \in Writers, Write(w) PROVE UNCHANGED <<dep, faults>>
    BY <1>2 DEF Write, CreateDomain, SaveDomain, DeleteDomain, SetStatus, DeleteTenant, Commit,
       LoadDomain, LoadTenant, Load, Rollback
  <1>3. ASSUME NEW w \in Writers, Callback(w) \/ LoseCallback(w) \/ WriterDies(w)
        PROVE  UNCHANGED dep /\ faults' \in {faults, faults + 1}
    BY <1>3 DEF Callback, RunTombstone, RunBump, RunForgetHost, RunForgetTenant, LoseCallback,
       WriterDies
  <1>4. ASSUME Reconcile \/ Command \/ WarmEnd \/ ForgetSchemas PROVE UNCHANGED <<dep, faults>>
    BY <1>4 DEF Reconcile, RecBefore, RecScan, RecCheck, RecSchemas, RecSweep, RecDrop, RecWrite,
       Command, WarmStart, ForgetAll, InvalidateCommand, WarmEnd, ForgetSchemas
  <1>5. ASSUME NEW k \in Keys, Expire(k) PROVE UNCHANGED <<dep, faults>>
    BY <1>5 DEF Expire
  <1>6. ASSUME NEW t \in Tenants, TaskMiss(t) \/ TaskDown(t) \/ LocalExpire(t)
        PROVE  UNCHANGED dep /\ faults' \in {faults, faults + 1}
    BY <1>6 DEF TaskMiss, TaskDown, LocalExpire
  <1>7. ASSUME TaskRead \/ TaskFill PROVE UNCHANGED <<dep, faults>>
    BY <1>7 DEF TaskRead, TaskFill
  <1>8. CASE UNCHANGED vars
    BY <1>8 DEF vars
  <1> QED BY <1>1, <1>2, <1>3, <1>4, <1>5, <1>6, <1>7, <1>8 DEF Next

\* Every step keeps the invariant.
LEMMA NextCache == CacheInv /\ Loading /\ [Next]_vars => CacheInv'
  <1> SUFFICES ASSUME CacheInv, Loading, [Next]_vars PROVE CacheInv'
    OBVIOUS
  <1>1. UNCHANGED dep /\ faults' \in {faults, faults + 1} /\ faults \in Nat /\ dep.hosts \subseteq Hosts
    BY Counted DEF CacheInv
  <1>2. CASE ~Sheltered'
    BY SMT, <1>1, <1>2 DEF CacheInv
  <1>3. CASE Sheltered'
    <2>1. Sheltered /\ faults' = faults
      BY SMT, <1>1, <1>3 DEF Sheltered
    <2>2. rec.pc = "idle"
      BY <2>1 DEF CacheInv
    <2>3. ASSUME NEW r \in Resolvers, Request(r) PROVE CacheInv'
      BY <2>1, <2>3, RequestKeeps
    <2>4. ASSUME NEW w \in Writers, Write(w) \/ Callback(w) PROVE CacheInv'
      BY <2>1, <2>4, WriteKeeps, CallbackKeeps
    <2>5. ASSUME NEW w \in Writers, LoseCallback(w) \/ WriterDies(w) PROVE FALSE
      BY SMT, <1>1, <2>1, <2>5 DEF LoseCallback, WriterDies
    <2>6. ASSUME Reconcile PROVE FALSE
      BY <2>1, <2>2, <2>6 DEF Sheltered, Reconcile, RecBefore, RecScan, RecCheck, RecSchemas, RecSweep,
         RecDrop, RecWrite
    <2>7. ASSUME Command \/ WarmEnd \/ ForgetSchemas PROVE FALSE
      BY <2>1, <2>2, <2>7 DEF Sheltered, Command, WarmStart, ForgetAll, InvalidateCommand, Started,
         WarmEnd, ForgetSchemas
    <2>8. ASSUME NEW k \in Keys, Expire(k) PROVE CacheInv'
      BY <2>1, <2>8, ExpireKeeps
    <2>9. ASSUME UNCHANGED <<owner, status, snap, res, missed, queue, rec>> PROVE CacheInv'
      <3>1. \A k \in Keys : Owed(k) => Owed(k)'
        BY <2>9 DEF Owed
      <3>2. queue' \in [Writers -> Seq(Callbacks)]
        BY <2>1, <2>9 DEF CacheInv, Types
      <3> QED BY <1>1, <2>1, <2>9, <3>1, <3>2, QueueKeeps
    <2>10. ASSUME NEW t \in Tenants, TaskMiss(t) \/ TaskDown(t) \/ LocalExpire(t) PROVE CacheInv'
      BY <2>9, <2>10 DEF TaskMiss, TaskDown, LocalExpire, writer
    <2>11. CASE TaskRead \/ TaskFill \/ UNCHANGED vars
      BY <2>9, <2>11 DEF TaskRead, TaskFill, vars, writer
    <2> QED BY <2>3, <2>4, <2>5, <2>6, <2>7, <2>8, <2>10, <2>11 DEF Next
  <1> QED BY <1>2, <1>3

\* However fills, saves, renames, deletions and status changes interleave, an entry
\* that contradicts the database is one that a committed transaction is about to
\* tombstone, when fills are shorter than the hold, nothing is lost and neither a
\* rebuild nor a command writes: for any number of hosts, tenants, threads, writers
\* and transactions.  The exception is a host whose row a writer took away having
\* loaded it under another name.
THEOREM CacheCoherent == Spec => []Coherent
  <1>1. CacheInv => Coherent
    BY DEF CacheInv, Sheltered, Coherent, Due
  <1> QED BY InitCache, NextCache, LoadingKept, <1>1, PTL DEF Spec
=============================================================================
