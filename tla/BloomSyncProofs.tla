-------------------------- MODULE BloomSyncProofs --------------------------
(***************************************************************************)
(* Proofs about BloomSync for any gateways, entries and hash positions.    *)
(*                                                                         *)
(* Redis only gains entries, so everything a process holds (replies, calls *)
(* in flight, filters) stays explained by it; and a starting process reads *)
(* each list after the entries it owes were stored.                        *)
(***************************************************************************)
EXTENDS BloomSync, FiniteSetTheorems, TLAPS

\* Whatever a process or the history remembers is in Redis.
Stored ==
    /\ \A p \in pending : p[3] \in redis[p[2]]
    /\ \A l \in Lists : acked[l] \subseteq redis[l]
    /\ \A g \in Gateways, l \in Lists :
          snap[g][l] \subseteq redis[l] /\ due[g][l] \subseteq redis[l]

\* A starting process has read what it owes from each list it has read.
StartupRead ==
    \A g \in Gateways : phase[g] = "starting" =>
        /\ reload[g] \in {"reading agents", "rebuilding"} =>
              due[g]["ips"] \subseteq snap[g]["ips"]
        /\ reload[g] = "rebuilding" =>
              due[g]["agents"] \subseteq snap[g]["agents"]

\* A serving process has in its live filters what it owes.
Loaded ==
    \A g \in Gateways, l \in Lists : phase[g] = "serving" =>
        \A e \in due[g][l] : Contains(live[g][l], e)

Inv == TypeOK /\ Stored /\ StartupRead /\ Loaded /\ NoInventedBlock

-----------------------------------------------------------------------------
\* A filter built from a collection contains its entries, grows with it and
\* holds positions of the filter only.
LEMMA LoadFacts ==
  /\ \A S : \A e \in S : Contains(Load(S), e)
  /\ \A S, T : S \subseteq T => Load(S) \subseteq Load(T)
  /\ \A S \in SUBSET Entries : Load(S) \in SUBSET Bits
  BY BloomAssumption DEF Load, Contains

\* What a filter holds after a loop over S, wherever the loop stops.
LEMMA FillFacts ==
  ASSUME NEW S \in SUBSET Entries, NEW q \in Orders(S)
  PROVE  /\ Filled(q) \subseteq Load(S)
         /\ Whole(q) => Filled(q) = Load(S)
         /\ Cardinality(Counted(q, Cardinality(S))) \in Nat
<1>1. Cardinality(S) \in Nat
  BY FS_Subset, FS_CardinalityType, BloomAssumption
<1>2. /\ q \in [1..Cardinality(S) -> S]
      /\ S \subseteq {q[i] : i \in DOMAIN q}
  BY DEF Orders
<1>3. Made(q) \subseteq DOMAIN q
  BY DEF Made
<1>4. {q[i] : i \in Made(q)} \subseteq S
  BY <1>2, <1>3
<1>5. Whole(q) => {q[i] : i \in Made(q)} = S
  BY <1>2, <1>4 DEF Whole
<1>6. IsFiniteSet(1..Cardinality(S))
  BY <1>1, FS_Interval
<1>7. Counted(q, Cardinality(S)) \subseteq 1..Cardinality(S)
  BY DEF Counted
<1>8. Cardinality(Counted(q, Cardinality(S))) \in Nat
  BY <1>6, <1>7, FS_Subset, FS_CardinalityType
<1> QED
  BY <1>4, <1>5, <1>8, LoadFacts DEF Filled

\* The filters a rebuild makes of the replies.
LEMMA ContentsFacts ==
  ASSUME TypeOK, NEW g \in Gateways, NEW q,
         \A l \in Lists : q[l] \in Orders(snap[g][l])
  PROVE  /\ Contents(q) \in [Lists -> SUBSET Bits]
         /\ \A l \in Lists : /\ Contents(q)[l] \subseteq Load(snap[g][l])
                             /\ Complete(q) => Contents(q)[l] = Load(snap[g][l])
         /\ \A l \in Lists :
               Cardinality(Counted(q[l], Cardinality(snap[g][l]))) \in Nat
<1>0. snap \in [Gateways -> [Lists -> SUBSET Entries]]
  BY DEF TypeOK
<1>1. \A l \in Lists : snap[g][l] \in SUBSET Entries
  BY <1>0
<1>2. \A l \in Lists :
        /\ Filled(q[l]) \subseteq Load(snap[g][l])
        /\ Whole(q[l]) => Filled(q[l]) = Load(snap[g][l])
        /\ Cardinality(Counted(q[l], Cardinality(snap[g][l]))) \in Nat
  <2> TAKE l \in Lists
  <2>1. snap[g][l] \in SUBSET Entries /\ q[l] \in Orders(snap[g][l])
    BY <1>1
  <2> QED
    BY <2>1, FillFacts
<1>3. \A l \in Lists : Load(snap[g][l]) \in SUBSET Bits
  BY <1>1, LoadFacts
<1>4. \A l \in Lists : Contents(q)[l] \in {{}, Filled(q[l])}
  BY DEF Contents
<1>5. \A l \in Lists : Complete(q) => Contents(q)[l] = Filled(q[l])
  BY DEF Contents, Complete, Lists
<1>6. Contents(q) = [l \in Lists |-> Contents(q)[l]]
  BY DEF Contents
<1>7. \A l \in Lists : Contents(q)[l] \subseteq Load(snap[g][l])
  BY <1>2, <1>4
<1>8. \A l \in Lists : Complete(q) => Contents(q)[l] = Load(snap[g][l])
  BY <1>2, <1>5 DEF Complete
<1>9. \A l \in Lists : Contents(q)[l] \in SUBSET Bits
  BY <1>3, <1>7
<1>10. Contents(q) \in [Lists -> SUBSET Bits]
  BY <1>6, <1>9
<1> QED
  BY <1>2, <1>7, <1>8, <1>10

\* A rebuild serves, refreshes the worker or ends a process that starts.
LEMMA RebuildCases ==
  ASSUME NEW g \in Gateways, Rebuild(g)
  PROVE  /\ reload[g] = "rebuilding"
         /\ \/ phase[g] = "starting" /\ Stop(g)
            \/ \E q : /\ \A l \in Lists : q[l] \in Orders(snap[g][l])
                      /\ \/ phase[g] = "starting" /\ Complete(q) /\ Serve(g, q)
                         \/ phase[g] = "serving" /\ Refresh(g, q)
<1>1. PICK ips \in Orders(snap[g]["ips"]), agents \in Orders(snap[g]["agents"]) :
        LET q == [l \in Lists |-> IF l = "ips" THEN ips ELSE agents] IN
          \/ phase[g] = "starting" /\ Complete(q) /\ Serve(g, q)
          \/ phase[g] = "starting" /\ ~ Complete(q) /\ Stop(g)
          \/ phase[g] = "serving" /\ Refresh(g, q)
  BY DEF Rebuild
<1> DEFINE q == [l \in Lists |-> IF l = "ips" THEN ips ELSE agents]
<1>2. \A l \in Lists : q[l] \in Orders(snap[g][l])
  BY DEF Lists
<1>3. reload[g] = "rebuilding"
  BY DEF Rebuild
<1> HIDE DEF q
<1> QED
  BY <1>1, <1>2, <1>3 DEF q

\* The second half of an admin call adds and answers, or raises.
LEMMA AddCases ==
  ASSUME NEW g \in Gateways, NEW l \in Lists, NEW e, BlockAdd(g, l, e)
  PROVE  /\ UNCHANGED <<redis, phase, worker, reload, snap>>
         /\ <<g, l, e>> \in pending /\ pending' \subseteq pending
         /\ Add(g, l, e) \/ UNCHANGED <<live, count, acked, due>>
  BY DEF BlockAdd, history

LEMMA CountType ==
  ASSUME NEW g, NEW l, NEW e, count[g][l] \in Nat
  PROVE  CountWith(g, l, e) \in Nat
<1>1. CASE Contains(live[g][l], e)
  BY <1>1 DEF CountWith
<1>2. CASE ~ Contains(live[g][l], e)
  BY <1>2 DEF CountWith
<1> QED
  BY <1>1, <1>2

LEMMA MembersType == \A l \in Lists : Members(l) \subseteq Entries
  BY DEF Members, Entries

LEMMA InvInit == Init => Inv
  BY DEF Init, Inv, TypeOK, Stored, StartupRead, Loaded, NoInventedBlock,
     NoEntries, Lists

-----------------------------------------------------------------------------
LEMMA TypeNext == TypeOK /\ [Next]_vars => TypeOK'
<1> SUFFICES ASSUME TypeOK, [Next]_vars PROVE TypeOK'
  OBVIOUS
<1> USE DEF TypeOK
<1>0. /\ NoEntries \in [Lists -> SUBSET Entries]
      /\ NoEntries \in [Lists -> SUBSET Bits]
      /\ [l \in Lists |-> 0] \in [Lists -> Nat]
  BY DEF NoEntries
<1>1. ASSUME NEW g \in Gateways, Start(g) PROVE TypeOK'
  BY <1>1 DEF Start
<1>2. ASSUME NEW g \in Gateways, Wake(g) PROVE TypeOK'
  BY <1>2 DEF Wake, history
<1>3. ASSUME NEW g \in Gateways, ReadIps(g) PROVE TypeOK'
  <2>1. redis["ips"] \in SUBSET Entries
    BY DEF Lists
  <2>2. [snap[g] EXCEPT !["ips"] = redis["ips"]] \in [Lists -> SUBSET Entries]
    BY <1>3, <2>1
  <2>3. snap' \in [Gateways -> [Lists -> SUBSET Entries]]
    BY <1>3, <2>2 DEF ReadIps
  <2>4. /\ reload' \in [Gateways ->
              {"asleep", "reading ips", "reading agents", "rebuilding"}]
        /\ UNCHANGED <<redis, phase, live, count, worker, pending, acked, due>>
    BY <1>3 DEF ReadIps, history
  <2> QED
    BY <2>3, <2>4
<1>4. ASSUME NEW g \in Gateways, ReadAgents(g) PROVE TypeOK'
  <2>1. redis["agents"] \in SUBSET Entries
    BY DEF Lists
  <2>2. [snap[g] EXCEPT !["agents"] = redis["agents"]] \in [Lists -> SUBSET Entries]
    BY <1>4, <2>1
  <2>3. snap' \in [Gateways -> [Lists -> SUBSET Entries]]
    BY <1>4, <2>2 DEF ReadAgents
  <2>4. /\ reload' \in [Gateways ->
              {"asleep", "reading ips", "reading agents", "rebuilding"}]
        /\ UNCHANGED <<redis, phase, live, count, worker, pending, acked, due>>
    BY <1>4 DEF ReadAgents, history
  <2> QED
    BY <2>3, <2>4
<1>5. ASSUME NEW g \in Gateways, Stop(g) PROVE TypeOK'
  <2>1. /\ live' \in [Gateways -> [Lists -> SUBSET Bits]]
        /\ worker' \in [Gateways -> [Lists -> SUBSET Bits]]
        /\ count' \in [Gateways -> [Lists -> Nat]]
    BY <1>0, <1>5 DEF Stop
  <2>2. /\ snap' \in [Gateways -> [Lists -> SUBSET Entries]]
        /\ due' \in [Gateways -> [Lists -> SUBSET Entries]]
    BY <1>0, <1>5 DEF Stop
  <2>3. /\ phase' \in [Gateways -> {"down", "starting", "serving"}]
        /\ reload' \in [Gateways ->
              {"asleep", "reading ips", "reading agents", "rebuilding"}]
        /\ UNCHANGED <<redis, acked>>
    BY <1>5 DEF Stop
  <2>4. /\ pending' \subseteq pending
        /\ \A p \in pending' : p[1] # g /\ p[1] \in Gateways
    BY <1>5 DEF Stop, Left
  <2>5. \A h \in Gateways \ {g} : phase'[h] = phase[h]
    BY <1>5 DEF Stop
  <2>6. \A p \in pending' : phase'[p[1]] = "serving"
    BY <2>4, <2>5
  <2> QED
    BY <2>1, <2>2, <2>3, <2>4, <2>6
<1>6. ASSUME NEW g \in Gateways, Rebuild(g) PROVE TypeOK'
  <2>1. CASE Stop(g)
    BY <1>5, <2>1
  <2>2. ASSUME NEW q, \A l \in Lists : q[l] \in Orders(snap[g][l]),
               phase[g] = "starting", Serve(g, q)
        PROVE  TypeOK'
    <3>1. /\ Contents(q) \in [Lists -> SUBSET Bits]
          /\ [l \in Lists |-> Cardinality(Counted(q[l], Cardinality(snap[g][l])))]
                \in [Lists -> Nat]
      BY <2>2, ContentsFacts
    <3>2. live' \in [Gateways -> [Lists -> SUBSET Bits]]
      BY <2>2, <3>1 DEF Serve
    <3>3. count' \in [Gateways -> [Lists -> Nat]]
      BY <2>2, <3>1 DEF Serve
    <3>4. /\ snap' \in [Gateways -> [Lists -> SUBSET Entries]]
          /\ reload' \in [Gateways ->
                {"asleep", "reading ips", "reading agents", "rebuilding"}]
      BY <1>0, <2>2 DEF Serve
    <3>5. /\ phase' \in [Gateways -> {"down", "starting", "serving"}]
          /\ \A h \in Gateways : phase[h] = "serving" => phase'[h] = "serving"
      BY <2>2 DEF Serve
    <3>6. UNCHANGED <<redis, worker, pending, acked, due>>
      BY <2>2 DEF Serve, history
    <3>7. \A p \in pending' : phase'[p[1]] = "serving"
      BY <3>5, <3>6
    <3> QED
      BY <3>2, <3>3, <3>4, <3>5, <3>6, <3>7
  <2>3. ASSUME NEW q, \A l \in Lists : q[l] \in Orders(snap[g][l]), Refresh(g, q)
        PROVE  TypeOK'
    <3>1. worker' \in [Gateways -> [Lists -> SUBSET Bits]]
      BY <2>3, ContentsFacts DEF Refresh
    <3>2. /\ snap' \in [Gateways -> [Lists -> SUBSET Entries]]
          /\ reload' \in [Gateways ->
                {"asleep", "reading ips", "reading agents", "rebuilding"}]
      BY <1>0, <2>3 DEF Refresh
    <3>3. UNCHANGED <<redis, phase, live, count, pending, acked, due>>
      BY <2>3 DEF Refresh, history
    <3> QED
      BY <3>1, <3>2, <3>3
  <2> QED
    BY <1>6, <2>1, <2>2, <2>3, RebuildCases
<1>7. ASSUME NEW g \in Gateways, ReloadFail(g) PROVE TypeOK'
  <2>1. CASE Stop(g)
    BY <1>5, <2>1
  <2>2. CASE WorkerFails(g, "asleep")
    <3>1. /\ snap' \in [Gateways -> [Lists -> SUBSET Entries]]
          /\ reload' \in [Gateways ->
                {"asleep", "reading ips", "reading agents", "rebuilding"}]
      BY <1>0, <2>2 DEF WorkerFails
    <3>2. UNCHANGED <<redis, phase, live, count, worker, pending, acked, due>>
      BY <2>2 DEF WorkerFails, history
    <3> QED
      BY <3>1, <3>2
  <2> QED
    BY <1>7, <2>1, <2>2 DEF ReloadFail
<1>8. ASSUME NEW g \in Gateways, NEW l \in Lists, NEW e \in Members(l),
             BlockSadd(g, l, e)
      PROVE  TypeOK'
  <2>1. e \in Entries
    BY MembersType
  <2>2. redis' \in [Lists -> SUBSET Entries]
    BY <1>8, <2>1 DEF BlockSadd
  <2>3. /\ pending' \subseteq Gateways \X Lists \X Entries
        /\ \A p \in pending' : phase[p[1]] = "serving"
    <3>1. pending' = pending \/ pending' = pending \union {<<g, l, e>>}
      BY <1>8 DEF BlockSadd
    <3>2. /\ <<g, l, e>> \in Gateways \X Lists \X Entries
          /\ <<g, l, e>>[1] = g /\ phase[g] = "serving"
      BY <1>8, <2>1 DEF BlockSadd
    <3> QED
      BY <3>1, <3>2
  <2> QED
    BY <1>8, <2>2, <2>3 DEF BlockSadd, history
<1>9. ASSUME NEW g \in Gateways, NEW l \in Lists, NEW e \in Members(l),
             BlockAdd(g, l, e)
      PROVE  TypeOK'
  <2>1. e \in Entries /\ Hash[e] \in SUBSET Bits
    BY MembersType, BloomAssumption
  <2>2. /\ UNCHANGED <<redis, phase, worker, reload, snap>>
        /\ pending' \subseteq pending
    BY <1>9, AddCases
  <2>3. CASE UNCHANGED <<live, count, acked, due>>
    BY <2>2, <2>3
  <2>4. CASE Add(g, l, e)
    <3>1. live' \in [Gateways -> [Lists -> SUBSET Bits]]
      BY <2>1, <2>4 DEF Add
    <3>2. count' \in [Gateways -> [Lists -> Nat]]
      <4>1. count \in [Gateways -> [Lists -> Nat]] /\ count[g][l] \in Nat
        OBVIOUS
      <4>3. CountWith(g, l, e) \in Nat
        BY <4>1, CountType
      <4>4. count' = [count EXCEPT ![g][l] = CountWith(g, l, e)]
        BY <2>4 DEF Add
      <4>5. [count[g] EXCEPT ![l] = CountWith(g, l, e)] \in [Lists -> Nat]
        BY <4>1, <4>3
      <4> QED
        BY <4>1, <4>4, <4>5
    <3>3. acked' \in [Lists -> SUBSET Entries]
      BY <2>1, <2>4 DEF Add
    <3>4. due' \in [Gateways -> [Lists -> SUBSET Entries]]
      <4>1. /\ due \in [Gateways -> [Lists -> SUBSET Entries]]
            /\ due[g] \in [Lists -> SUBSET Entries]
        OBVIOUS
      <4>2. [due[g] EXCEPT ![l] = @ \union {e}] \in [Lists -> SUBSET Entries]
        BY <2>1, <4>1
      <4>3. due' = [due EXCEPT ![g] = [due[g] EXCEPT ![l] = @ \union {e}]]
        BY <2>4 DEF Add
      <4> QED
        BY <4>1, <4>2, <4>3
    <3> QED
      BY <2>2, <3>1, <3>2, <3>3, <3>4
  <2> QED
    BY <1>9, <2>3, <2>4, AddCases
<1>10. CASE UNCHANGED vars
  BY <1>10 DEF vars, history
<1> QED
  BY <1>1, <1>2, <1>3, <1>4, <1>5, <1>6, <1>7, <1>8, <1>9, <1>10 DEF Next

\* Redis only gains entries; each is one that a call in flight may carry.
LEMMA RedisGrows ==
  ASSUME TypeOK, [Next]_vars
  PROVE  \A l \in Lists : redis[l] \subseteq redis'[l]
<1>1. ASSUME NEW g \in Gateways, NEW k \in Lists, NEW e \in Members(k),
             BlockSadd(g, k, e)
      PROVE  \A l \in Lists : redis[l] \subseteq redis'[l]
  BY <1>1 DEF BlockSadd, TypeOK
<1>2. ASSUME NEW g \in Gateways, Stop(g) PROVE redis' = redis
  BY <1>2 DEF Stop
<1>3. ASSUME NEW g \in Gateways, Rebuild(g) PROVE redis' = redis
  BY <1>2, <1>3, RebuildCases DEF Serve, Refresh
<1>4. ASSUME NEW g \in Gateways, ReloadFail(g) PROVE redis' = redis
  BY <1>2, <1>4 DEF ReloadFail, WorkerFails
<1>5. ASSUME NEW g \in Gateways,
             Start(g) \/ Wake(g) \/ ReadIps(g) \/ ReadAgents(g)
      PROVE  redis' = redis
  BY <1>5 DEF Start, Wake, ReadIps, ReadAgents
<1>6. ASSUME NEW g \in Gateways, NEW k \in Lists, NEW e \in Members(k),
             BlockAdd(g, k, e)
      PROVE  redis' = redis
  BY <1>6 DEF BlockAdd
<1>7. CASE UNCHANGED vars
  BY <1>7 DEF vars
<1> QED
  BY <1>1, <1>2, <1>3, <1>4, <1>5, <1>6, <1>7 DEF Next

LEMMA StoredNext == TypeOK /\ Stored /\ [Next]_vars => Stored'
<1> SUFFICES ASSUME TypeOK, Stored, [Next]_vars PROVE Stored'
  OBVIOUS
<1>0. \A l \in Lists : redis[l] \subseteq redis'[l]
  BY RedisGrows
<1>1. ASSUME NEW g \in Gateways, Start(g) PROVE Stored'
  BY <1>1 DEF Start, Stored, TypeOK
<1>2. ASSUME NEW g \in Gateways, ReadIps(g) \/ ReadAgents(g) PROVE Stored'
  <2>1. \A h \in Gateways, l \in Lists : snap'[h][l] \in {snap[h][l], redis[l]}
    <3>1. CASE ReadIps(g)
      BY <3>1 DEF ReadIps, TypeOK
    <3>2. CASE ReadAgents(g)
      BY <3>2 DEF ReadAgents, TypeOK
    <3> QED
      BY <1>2, <3>1, <3>2
  <2>2. UNCHANGED <<redis, pending, acked, due>>
    BY <1>2 DEF ReadIps, ReadAgents, history
  <2> QED
    BY <2>1, <2>2 DEF Stored
<1>3. ASSUME NEW g \in Gateways, Wake(g) PROVE Stored'
  BY <1>3 DEF Wake, Stored, history
<1>5. ASSUME NEW g \in Gateways, Stop(g) PROVE Stored'
  <2>1. \A h \in Gateways, l \in Lists : /\ snap'[h][l] \in {snap[h][l], {}}
                                       /\ due'[h][l] \in {due[h][l], {}}
    BY <1>5 DEF Stop, TypeOK, NoEntries
  <2>2. UNCHANGED <<redis, acked>> /\ pending' \subseteq pending
    BY <1>5 DEF Stop, Left
  <2> QED
    BY <2>1, <2>2 DEF Stored
<1>4. ASSUME NEW g \in Gateways, Rebuild(g) PROVE Stored'
  <2>1. CASE Stop(g)
    BY <1>5, <2>1
  <2>2. ASSUME NEW q, Serve(g, q) \/ Refresh(g, q) PROVE Stored'
    <3>1. /\ UNCHANGED <<redis, pending, acked, due>>
          /\ snap' = [snap EXCEPT ![g] = NoEntries]
      BY <2>2 DEF Serve, Refresh, history
    <3>2. \A h \in Gateways, l \in Lists : snap'[h][l] \in {snap[h][l], {}}
      BY <3>1 DEF TypeOK, NoEntries
    <3> QED
      BY <3>1, <3>2 DEF Stored
  <2> QED
    BY <1>4, <2>1, <2>2, RebuildCases
<1>6. ASSUME NEW g \in Gateways, ReloadFail(g) PROVE Stored'
  <2>1. CASE Stop(g)
    BY <1>5, <2>1
  <2>2. CASE WorkerFails(g, "asleep")
    <3>1. /\ UNCHANGED <<redis, pending, acked, due>>
          /\ snap' = [snap EXCEPT ![g] = NoEntries]
      BY <2>2 DEF WorkerFails, history
    <3>2. \A h \in Gateways, l \in Lists : snap'[h][l] \in {snap[h][l], {}}
      BY <3>1 DEF TypeOK, NoEntries
    <3> QED
      BY <3>1, <3>2 DEF Stored
  <2> QED
    BY <1>6, <2>1, <2>2 DEF ReloadFail
<1>7. ASSUME NEW g \in Gateways, NEW l \in Lists, NEW e \in Members(l),
             BlockSadd(g, l, e)
      PROVE  Stored'
  <2>1. e \in redis'[l]
    BY <1>7 DEF BlockSadd, TypeOK
  <2>2. \A p \in pending' : p[3] \in redis'[p[2]]
    <3> SUFFICES ASSUME NEW p \in pending' PROVE p[3] \in redis'[p[2]]
      OBVIOUS
    <3>1. CASE p \in pending
      <4>1. p[2] \in Lists /\ p[3] \in redis[p[2]]
        BY <3>1 DEF Stored, TypeOK
      <4> QED
        BY <1>0, <4>1
    <3>2. CASE p = <<g, l, e>>
      BY <2>1, <3>2
    <3> QED
      BY <1>7, <3>1, <3>2 DEF BlockSadd
  <2> QED
    BY <1>0, <1>7, <2>2 DEF BlockSadd, Stored, history
<1>8. ASSUME NEW g \in Gateways, NEW l \in Lists, NEW e \in Members(l),
             BlockAdd(g, l, e)
      PROVE  Stored'
  <2>1. e \in redis[l]
    BY <1>8 DEF BlockAdd, Stored
  <2>2. /\ \A k \in Lists : acked'[k] \subseteq redis[k]
        /\ \A h \in Gateways, k \in Lists : due'[h][k] \subseteq redis[k]
    <3>1. CASE UNCHANGED <<live, count, acked, due>>
      BY <3>1 DEF Stored
    <3>2. CASE Add(g, l, e)
      BY <2>1, <3>2 DEF Add, Stored, TypeOK
    <3> QED
      BY <1>8, <3>1, <3>2, AddCases
  <2>3. UNCHANGED <<redis, snap>> /\ pending' \subseteq pending
    BY <1>8 DEF BlockAdd
  <2> QED
    BY <2>2, <2>3 DEF Stored
<1>9. CASE UNCHANGED vars
  BY <1>9 DEF vars, Stored, history
<1> QED
  BY <1>1, <1>2, <1>3, <1>4, <1>5, <1>6, <1>7, <1>8, <1>9 DEF Next

LEMMA StartupNext ==
  TypeOK /\ Stored /\ StartupRead /\ [Next]_vars => StartupRead'
<1> SUFFICES ASSUME TypeOK, Stored, StartupRead, [Next]_vars PROVE StartupRead'
  OBVIOUS
<1> USE DEF StartupRead, TypeOK
<1>1. ASSUME NEW g \in Gateways, Start(g) PROVE StartupRead'
  BY <1>1 DEF Start
<1>2. ASSUME NEW g \in Gateways, ReadIps(g) PROVE StartupRead'
  BY <1>2 DEF ReadIps, Stored, Lists, history
<1>3. ASSUME NEW g \in Gateways, ReadAgents(g) PROVE StartupRead'
  BY <1>3 DEF ReadAgents, Stored, Lists, history
<1>4. ASSUME NEW g \in Gateways, Wake(g) PROVE StartupRead'
  BY <1>4 DEF Wake, history
<1>6. ASSUME NEW g \in Gateways, Stop(g) PROVE StartupRead'
  <2>1. \A h \in Gateways \ {g} : UNCHANGED <<phase[h], reload[h], snap[h], due[h]>>
    BY <1>6 DEF Stop
  <2>2. phase'[g] # "starting"
    BY <1>6 DEF Stop
  <2> QED
    BY <2>1, <2>2
<1>5. ASSUME NEW g \in Gateways, Rebuild(g) PROVE StartupRead'
  <2>1. CASE Stop(g)
    BY <1>6, <2>1
  <2>2. ASSUME NEW q, \/ phase[g] = "starting" /\ Serve(g, q)
                      \/ phase[g] = "serving" /\ Refresh(g, q)
        PROVE  StartupRead'
    <3>1. \A h \in Gateways \ {g} : UNCHANGED <<phase[h], reload[h], snap[h], due[h]>>
      BY <2>2 DEF Serve, Refresh, history
    <3>2. phase'[g] # "starting"
      BY <2>2 DEF Serve, Refresh
    <3> QED
      BY <3>1, <3>2
  <2> QED
    BY <1>5, <2>1, <2>2, RebuildCases
<1>7. ASSUME NEW g \in Gateways, ReloadFail(g) PROVE StartupRead'
  <2>1. CASE Stop(g)
    BY <1>6, <2>1
  <2>2. CASE WorkerFails(g, "asleep")
    <3>1. \A h \in Gateways \ {g} : UNCHANGED <<phase[h], reload[h], snap[h], due[h]>>
      BY <2>2 DEF WorkerFails, history
    <3>2. phase'[g] # "starting"
      BY <2>2 DEF WorkerFails
    <3> QED
      BY <3>1, <3>2
  <2> QED
    BY <1>7, <2>1, <2>2 DEF ReloadFail
<1>8. ASSUME NEW g \in Gateways, NEW l \in Lists, NEW e \in Members(l),
             BlockSadd(g, l, e) \/ BlockAdd(g, l, e)
      PROVE  StartupRead'
  <2>1. UNCHANGED <<phase, reload, snap>>
    BY <1>8 DEF BlockSadd, BlockAdd
  <2>2. phase[g] = "serving"
    BY <1>8 DEF BlockSadd, BlockAdd
  <2>3. \A h \in Gateways \ {g} : due'[h] = due[h]
    <3>1. CASE BlockSadd(g, l, e)
      BY <3>1 DEF BlockSadd, history
    <3>2. CASE BlockAdd(g, l, e)
      <4>1. CASE UNCHANGED <<live, count, acked, due>>
        BY <4>1
      <4>2. CASE Add(g, l, e)
        BY <4>2 DEF Add
      <4> QED
        BY <3>2, <4>1, <4>2, AddCases
    <3> QED
      BY <1>8, <3>1, <3>2
  <2> QED
    BY <2>1, <2>2, <2>3
<1>9. CASE UNCHANGED vars
  BY <1>9 DEF vars, history
<1> QED
  BY <1>1, <1>2, <1>3, <1>4, <1>5, <1>6, <1>7, <1>8, <1>9 DEF Next

LEMMA LoadedNext ==
  TypeOK /\ StartupRead /\ Loaded /\ [Next]_vars => Loaded'
<1> SUFFICES ASSUME TypeOK, StartupRead, Loaded, [Next]_vars,
                    NEW h \in Gateways, NEW k \in Lists, phase'[h] = "serving",
                    NEW d \in due'[h][k]
             PROVE  Contains(live[h][k], d)'
  BY DEF Loaded
<1>0. ASSUME phase[h] = "serving", due'[h] = due[h], live'[h] = live[h]
      PROVE  Contains(live[h][k], d)'
  BY <1>0 DEF Loaded, Contains
<1>1. ASSUME NEW g \in Gateways, Start(g) \/ Stop(g)
      PROVE  Contains(live[h][k], d)'
  <2>1. h # g
    BY <1>1 DEF Start, Stop, TypeOK
  <2>2. phase[h] = "serving"
    BY <1>1, <2>1 DEF Start, Stop, TypeOK
  <2>3. CASE Start(g)
    BY <1>0, <2>1, <2>2, <2>3 DEF Start, TypeOK
  <2>4. CASE Stop(g)
    BY <1>0, <2>1, <2>2, <2>4 DEF Stop, TypeOK
  <2> QED
    BY <1>1, <2>3, <2>4
<1>2. ASSUME NEW g \in Gateways, Wake(g) \/ ReadIps(g) \/ ReadAgents(g)
      PROVE  Contains(live[h][k], d)'
  BY <1>0, <1>2 DEF Wake, ReadIps, ReadAgents, history
<1>3. ASSUME NEW g \in Gateways, ReloadFail(g)
      PROVE  Contains(live[h][k], d)'
  <2>1. CASE Stop(g)
    BY <1>1, <2>1
  <2>2. CASE WorkerFails(g, "asleep")
    BY <1>0, <2>2 DEF WorkerFails, history
  <2> QED
    BY <1>3, <2>1, <2>2 DEF ReloadFail
<1>4. ASSUME NEW g \in Gateways, Rebuild(g) PROVE Contains(live[h][k], d)'
  <2>1. CASE Stop(g)
    BY <1>1, <2>1
  <2>2. ASSUME NEW q, Refresh(g, q) PROVE Contains(live[h][k], d)'
    BY <1>0, <2>2 DEF Refresh, history
  <2>3. ASSUME NEW q, \A l \in Lists : q[l] \in Orders(snap[g][l]),
               phase[g] = "starting", Complete(q), Serve(g, q)
        PROVE  Contains(live[h][k], d)'
    <3>1. CASE h # g
      <4>1. phase[h] = "serving" /\ due'[h] = due[h] /\ live'[h] = live[h]
        BY <2>3, <3>1 DEF Serve, TypeOK, history
      <4> QED
        BY <1>0, <4>1
    <3>2. CASE h = g
      <4>1. due'[h][k] \subseteq snap[g][k]
        BY <1>4, <2>3, <3>2, RebuildCases DEF Serve, StartupRead, Lists, history
      <4>2. live'[h] = Contents(q)
        BY <2>3, <3>2 DEF Serve, TypeOK
      <4>3. Contents(q)[k] = Load(snap[g][k])
        BY <2>3, ContentsFacts
      <4>4. Contains(Load(snap[g][k]), d)
        BY <4>1, LoadFacts
      <4> QED
        BY <4>2, <4>3, <4>4 DEF Contains
    <3> QED
      BY <3>1, <3>2
  <2> QED
    BY <1>4, <2>1, <2>2, <2>3, RebuildCases
<1>5. ASSUME NEW g \in Gateways, NEW l \in Lists, NEW e \in Members(l),
             BlockSadd(g, l, e)
      PROVE  Contains(live[h][k], d)'
  BY <1>0, <1>5 DEF BlockSadd, history
<1>6. ASSUME NEW g \in Gateways, NEW l \in Lists, NEW e \in Members(l),
             BlockAdd(g, l, e)
      PROVE  Contains(live[h][k], d)'
  <2>1. phase[h] = "serving"
    BY <1>6, AddCases
  <2>2. CASE UNCHANGED <<live, count, acked, due>>
    BY <1>0, <2>1, <2>2
  <2>3. CASE Add(g, l, e)
    <3>1. live[h][k] \subseteq live'[h][k]
      BY <2>3 DEF Add, TypeOK
    <3>2. CASE d \in due[h][k]
      BY <2>1, <3>1, <3>2 DEF Loaded, Contains
    <3>3. CASE d \notin due[h][k]
      <4>1. h = g /\ k = l /\ d = e
        BY <2>3, <3>3 DEF Add, TypeOK
      <4>2. live'[h][k] = live[h][k] \union Hash[e]
        BY <2>3, <4>1 DEF Add, TypeOK
      <4> QED
        BY <4>1, <4>2 DEF Contains
    <3> QED
      BY <3>2, <3>3
  <2> QED
    BY <1>6, <2>2, <2>3, AddCases
<1>7. CASE UNCHANGED vars
  BY <1>0, <1>7 DEF vars, history
<1> QED
  BY <1>1, <1>2, <1>3, <1>4, <1>5, <1>6, <1>7 DEF Next

LEMMA ExplainedNext ==
  TypeOK /\ Stored /\ NoInventedBlock /\ [Next]_vars => NoInventedBlock'
<1> SUFFICES ASSUME TypeOK, Stored, NoInventedBlock, [Next]_vars,
                    NEW h \in Gateways, NEW k \in Lists
             PROVE  live'[h][k] \union worker'[h][k] \subseteq Load(redis'[k])
  BY DEF NoInventedBlock, Load
<1>0. /\ Load(redis[k]) \subseteq Load(redis'[k])
      /\ live[h][k] \union worker[h][k] \subseteq Load(redis[k])
  BY RedisGrows, LoadFacts DEF NoInventedBlock
<1>1. ASSUME live'[h][k] \subseteq live[h][k], worker'[h][k] \subseteq worker[h][k]
      PROVE  live'[h][k] \union worker'[h][k] \subseteq Load(redis'[k])
  BY <1>0, <1>1
<1>2. ASSUME NEW g \in Gateways,
             Start(g) \/ Wake(g) \/ ReadIps(g) \/ ReadAgents(g)
      PROVE  live' = live /\ worker' = worker
  BY <1>2 DEF Start, Wake, ReadIps, ReadAgents
<1>3. ASSUME NEW g \in Gateways, Stop(g)
      PROVE  live'[h][k] \subseteq live[h][k] /\ worker'[h][k] \subseteq worker[h][k]
  BY <1>3 DEF Stop, TypeOK, NoEntries
<1>4. ASSUME NEW g \in Gateways, ReloadFail(g)
      PROVE  live'[h][k] \subseteq live[h][k] /\ worker'[h][k] \subseteq worker[h][k]
  BY <1>3, <1>4 DEF ReloadFail, WorkerFails
<1>5. ASSUME NEW g \in Gateways, Rebuild(g)
      PROVE  live'[h][k] \union worker'[h][k] \subseteq Load(redis'[k])
  <2>1. Load(snap[g][k]) \subseteq Load(redis[k])
    BY LoadFacts DEF Stored
  <2>2. CASE Stop(g)
    BY <1>1, <1>3, <2>2
  <2>3. ASSUME NEW q, \A l \in Lists : q[l] \in Orders(snap[g][l]),
               Serve(g, q) \/ Refresh(g, q)
        PROVE  live'[h][k] \union worker'[h][k] \subseteq Load(redis'[k])
    <3>1. live'[h] \in {live[h], Contents(q)} /\ worker'[h] \in {worker[h], Contents(q)}
      BY <2>3 DEF Serve, Refresh, TypeOK
    <3>2. Contents(q)[k] \subseteq Load(snap[g][k])
      BY <2>3, ContentsFacts
    <3> QED
      BY <1>0, <2>1, <3>1, <3>2
  <2> QED
    BY <1>5, <2>2, <2>3, RebuildCases
<1>6. ASSUME NEW g \in Gateways, NEW l \in Lists, NEW e \in Members(l),
             BlockSadd(g, l, e)
      PROVE  live' = live /\ worker' = worker
  BY <1>6 DEF BlockSadd
<1>7. ASSUME NEW g \in Gateways, NEW l \in Lists, NEW e \in Members(l),
             BlockAdd(g, l, e)
      PROVE  live'[h][k] \union worker'[h][k] \subseteq Load(redis'[k])
  <2>1. e \in redis[l]
    BY <1>7 DEF BlockAdd, Stored
  <2>2. Hash[e] \subseteq Load(redis[l])
    BY <2>1, LoadFacts DEF Contains
  <2>3. /\ worker' = worker
        /\ \/ live'[h][k] = live[h][k]
           \/ k = l /\ live'[h][k] = live[h][k] \union Hash[e]
    <3>1. ASSUME UNCHANGED <<live, count, acked, due>>
          PROVE  live'[h][k] = live[h][k]
      BY <3>1
    <3>2. ASSUME Add(g, l, e)
          PROVE  \/ live'[h][k] = live[h][k]
                 \/ k = l /\ live'[h][k] = live[h][k] \union Hash[e]
      BY <3>2 DEF Add, TypeOK
    <3>3. worker' = worker
      BY <1>7, AddCases
    <3> QED
      BY <1>7, <3>1, <3>2, <3>3, AddCases
  <2> QED
    BY <1>0, <2>2, <2>3
<1>8. CASE UNCHANGED vars
  BY <1>1, <1>8 DEF vars
<1> QED
  BY <1>1, <1>2, <1>3, <1>4, <1>5, <1>6, <1>7, <1>8 DEF Next

-----------------------------------------------------------------------------
\* Inv holds in every reachable state.
LEMMA Invariance == Spec => []Inv
<1>1. Inv /\ [Next]_vars => Inv'
  BY TypeNext, StoredNext, StartupNext, LoadedNext, ExplainedNext DEF Inv
<1> QED
  BY InvInit, <1>1, PTL DEF Spec

\* The variables keep their types, and admin calls end with their process.
THEOREM TypeCorrect == Spec => []TypeOK
<1>1. Inv => TypeOK
  BY DEF Inv
<1> QED
  BY Invariance, <1>1, PTL

\* An answered block is enforced on its gateway at once and on every gateway
\* started later, whatever reloads, failures and restarts come between.
THEOREM BlocksEnforced == Spec => []AckedBlockEnforced
<1>1. Inv => AckedBlockEnforced
  BY DEF Inv, Loaded, AckedBlockEnforced, Denied, Contains, Lists
<1> QED
  BY Invariance, <1>1, PTL

\* Filters hold only positions of entries Redis has on the same list.
THEOREM BlocksExplained == Spec => []NoInventedBlock
<1>1. Inv => NoInventedBlock
  BY DEF Inv
<1> QED
  BY Invariance, <1>1, PTL

-----------------------------------------------------------------------------
\* Whether an entry is denied by a process depends on its live filter alone.
LEMMA DenialsFacts ==
  /\ Denials \in [Gateways -> [Lists -> SUBSET Entries]]
  /\ \A g \in Gateways, l \in Lists :
        Denials[g][l] = {e \in Entries : Contains(live[g][l], e)}
  BY DEF Denials

LEMMA CoveredFacts ==
  /\ \A S \in SUBSET Entries :
        Covered[S] = {e \in Entries : Contains(Load(S), e)}
  /\ Covered[{}] = {e \in Entries : Contains({}, e)}
<1>1. \A S \in SUBSET Entries :
        Covered[S] = {e \in Entries : Contains(Load(S), e)}
  BY DEF Covered
<1>2. Load({}) = {}
  BY DEF Load
<1>3. {} \in SUBSET Entries
  OBVIOUS
<1> QED
  BY <1>1, <1>2, <1>3

\* A live filter that Redis explains denies what a filter of the list denies.
LEMMA DenialsCovered ==
  ASSUME TypeOK, NoInventedBlock, NEW g \in Gateways, NEW l \in Lists
  PROVE  Denials[g][l] \in SUBSET Covered[redis[l]]
<1>1. redis[l] \in SUBSET Entries
  BY DEF TypeOK
<1>2. live[g][l] \subseteq Load(redis[l])
  BY DEF NoInventedBlock
<1>3. \A e \in Entries : Contains(live[g][l], e) => Contains(Load(redis[l]), e)
  BY <1>2 DEF Contains
<1> QED
  BY <1>1, <1>3, DenialsFacts, CoveredFacts

\* A process that is down or starts anew denies what empty filters deny.
LEMMA DenialsNone ==
  ASSUME NEW g \in Gateways, live[g] = NoEntries
  PROVE  Denials[g] = [l \in Lists |-> Covered[{}]]
<1>1. \A l \in Lists : live[g][l] = {}
  BY DEF NoEntries
<1>2. Denials[g] = [l \in Lists |-> {e \in Entries : Contains({}, e)}]
  BY <1>1 DEF Denials, Contains
<1> QED
  BY <1>2, CoveredFacts

LEMMA RefinesInit == Init => Contract!BLInit
<1> SUFFICES ASSUME Init PROVE Contract!BLInit
  OBVIOUS
<1>1. \A g \in Gateways : live[g] = NoEntries
  BY DEF Init
<1>2. \A g \in Gateways : Denials[g] = [l \in Lists |-> Covered[{}]]
  BY <1>1, DenialsNone
<1>3. Denials = [g \in Gateways |-> [l \in Lists |-> Covered[{}]]]
  BY <1>2, DenialsFacts
<1> QED
  BY <1>3 DEF Init, NoEntries, Contract!BLInit, Contract!Nothing

\* A step that leaves lists, phases, answers and live filters alone is not
\* seen.
LEMMA Unseen ==
  ASSUME UNCHANGED <<redis, phase, live, acked, due>>
  PROVE  UNCHANGED Contract!blVars
<1>1. Denials' = Denials
  BY DEF Denials, Contains
<1> QED
  BY <1>1 DEF Contract!blVars

\* A start is the contract's, and so is every way a process ends.
LEMMA RefinesStart ==
  ASSUME NEW g \in Gateways, Start(g)
  PROVE  Contract!Begin(g)
<1>1. Denials' = Denials
  BY DEF Start, Denials, Contains
<1> QED
  BY <1>1 DEF Start, Contract!Begin

LEMMA RefinesStop ==
  ASSUME TypeOK, NEW g \in Gateways, Stop(g)
  PROVE  Contract!End(g)
<1>1. live'[g] = NoEntries /\ \A h \in Gateways \ {g} : live'[h] = live[h]
  BY DEF Stop, TypeOK
<1>2. Denials'[g] = [l \in Lists |-> Covered[{}]]
  <2>1. \A l \in Lists : live'[g][l] = {}
    BY <1>1 DEF NoEntries
  <2>2. Denials'[g] = [l \in Lists |-> {e \in Entries : Contains({}, e)}]
    BY <2>1 DEF Denials, Contains
  <2> QED
    BY <2>2, CoveredFacts
<1>3. \A h \in Gateways \ {g} : Denials'[h] = Denials[h]
  BY <1>1 DEF Denials, Contains
<1>4. Denials' = [Denials EXCEPT ![g] = [l \in Lists |-> Covered[{}]]]
  BY <1>2, <1>3 DEF Denials
<1> QED
  BY <1>4 DEF Stop, Contract!End, Contract!Nothing, NoEntries

\* The first rebuild makes a process ready: it denies what it owes and no
\* more than filters of the lists.
LEMMA RefinesServe ==
  ASSUME TypeOK, TypeOK', Loaded', NoInventedBlock', NEW g \in Gateways, NEW q,
         phase[g] = "starting", Serve(g, q)
  PROVE  Contract!Ready(g)
<1>1. /\ live' = [live EXCEPT ![g] = Contents(q)]
      /\ phase' = [phase EXCEPT ![g] = "serving"]
      /\ UNCHANGED <<redis, acked, due>>
  BY DEF Serve, history
<1>2. \A h \in Gateways \ {g} : live'[h] = live[h]
  BY <1>1 DEF TypeOK
<1>3. \A h \in Gateways \ {g} : Denials'[h] = Denials[h]
  BY <1>2 DEF Denials, Contains
<1> DEFINE D == Denials'[g]
<1>4. D \in [Lists -> SUBSET Entries]
  BY DEF Denials
<1>5. Denials' = [Denials EXCEPT ![g] = D]
  BY <1>3 DEF Denials
<1>6. ASSUME NEW l \in Lists
      PROVE  due[g][l] \subseteq D[l] /\ D[l] \subseteq Covered[redis[l]]
  <2>1. phase'[g] = "serving"
    BY <1>1 DEF TypeOK
  <2>2. \A e \in due'[g][l] : Contains(live'[g][l], e)
    BY <2>1 DEF Loaded, Contains
  <2>3. due'[g][l] \subseteq Entries
    <3>1. due' \in [Gateways -> [Lists -> SUBSET Entries]]
      BY DEF TypeOK
    <3> QED
      BY <3>1
  <2>4. D[l] = {e \in Entries : Contains(live'[g][l], e)}
    BY DEF Denials, Contains
  <2>5. live'[g][l] \subseteq Load(redis'[l])
    BY DEF NoInventedBlock, Load
  <2>6. redis[l] \in SUBSET Entries
    BY DEF TypeOK
  <2>7. \A e \in Entries : Contains(live'[g][l], e) => Contains(Load(redis[l]), e)
    BY <1>1, <2>5 DEF Contains, Load
  <2>8. D[l] \subseteq Covered[redis[l]]
    BY <2>4, <2>6, <2>7, CoveredFacts
  <2> QED
    BY <1>1, <2>2, <2>3, <2>4, <2>8
<1>7. \E E \in [Lists -> SUBSET Entries] :
         /\ \A l \in Lists : due[g][l] \subseteq E[l] /\ E[l] \subseteq Covered[redis[l]]
         /\ Denials' = [Denials EXCEPT ![g] = E]
  BY <1>4, <1>5, <1>6
<1> QED
  BY <1>1, <1>7 DEF Contract!Ready

\* The reply of SADD lists an entry; its add, when the filter takes it, is
\* the answer.
LEMMA RefinesSadd ==
  ASSUME NEW g \in Gateways, NEW l \in Lists, NEW e, BlockSadd(g, l, e)
  PROVE  Contract!Block(g, l, e)
<1>1. Denials' = Denials
  BY DEF BlockSadd, Denials, Contains
<1> QED
  BY <1>1 DEF BlockSadd, Contract!Block, history

LEMMA RefinesAdd ==
  ASSUME TypeOK, TypeOK', Stored, NoInventedBlock', NEW g \in Gateways,
         NEW l \in Lists, NEW e \in Entries, BlockAdd(g, l, e), Add(g, l, e)
  PROVE  Contract!Answer(g, l, e)
<1>1. /\ UNCHANGED <<redis, phase>>
      /\ <<g, l, e>> \in pending
  BY AddCases
<1>2. phase[g] = "serving" /\ e \in redis[l]
  BY <1>1 DEF TypeOK, Stored
<1>3. /\ live'[g][l] = live[g][l] \union Hash[e]
      /\ \A h \in Gateways, k \in Lists : h # g \/ k # l => live'[h][k] = live[h][k]
  <2>1. live \in [Gateways -> [Lists -> SUBSET Bits]]
    BY DEF TypeOK
  <2>2. live' = [live EXCEPT ![g][l] = @ \union Hash[e]]
    BY DEF Add
  <2> QED
    BY <2>1, <2>2
<1> DEFINE D == {d \in Entries : Contains(live'[g][l], d)}
<1>4. Denials'[g][l] = D
  BY DEF Denials, Contains
<1>5. \A h \in Gateways, k \in Lists : h # g \/ k # l => Denials'[h][k] = Denials[h][k]
  BY <1>3 DEF Denials, Contains
<1>6. Denials' = [Denials EXCEPT ![g][l] = D]
  <2>1. Denials \in [Gateways -> [Lists -> SUBSET Entries]]
    BY DenialsFacts
  <2>2. Denials' \in [Gateways -> [Lists -> SUBSET Entries]]
    BY DEF Denials
  <2> HIDE DEF D
  <2>3. Denials'[g] = [Denials[g] EXCEPT ![l] = D]
    BY <1>4, <1>5, <2>1, <2>2
  <2>4. \A h \in Gateways \ {g} : Denials'[h] = Denials[h]
    BY <1>5, <2>1, <2>2
  <2>5. Denials' = [Denials EXCEPT ![g] = [Denials[g] EXCEPT ![l] = D]]
    BY <2>1, <2>2, <2>3, <2>4
  <2> QED
    BY <2>5
<1>7. D \in SUBSET Covered[redis[l]]
  <2>1. redis[l] \in SUBSET Entries
    BY DEF TypeOK
  <2>2. live'[g][l] \subseteq Load(redis[l])
    BY <1>1 DEF NoInventedBlock, Load
  <2>3. \A d \in Entries : Contains(live'[g][l], d) => Contains(Load(redis[l]), d)
    BY <2>2 DEF Contains
  <2> QED
    BY <2>1, <2>3, CoveredFacts
<1>8. Denials[g][l] \union {e} \subseteq D
  BY <1>3, DenialsFacts DEF Contains
<1>9. /\ acked' = [acked EXCEPT ![l] = @ \union {e}]
      /\ due' = [due EXCEPT ![g][l] = @ \union {e}]
  BY DEF Add
<1>10. \E E \in SUBSET Covered[redis[l]] :
          /\ Denials[g][l] \union {e} \subseteq E
          /\ Denials' = [Denials EXCEPT ![g][l] = E]
  BY <1>6, <1>7, <1>8
<1> QED
  BY <1>1, <1>2, <1>9, <1>10 DEF Contract!Answer

LEMMA RefinesNext ==
  Inv /\ Inv' /\ [Next]_vars => [Contract!BLNext]_Contract!blVars
<1> SUFFICES ASSUME Inv, Inv', [Next]_vars
             PROVE  [Contract!BLNext]_Contract!blVars
  OBVIOUS
<1>0. /\ TypeOK /\ Stored
      /\ TypeOK' /\ Loaded' /\ NoInventedBlock'
  BY DEF Inv
<1>1. ASSUME NEW g \in Gateways, Start(g) PROVE Contract!BLNext
  BY <1>1, RefinesStart DEF Contract!BLNext
<1>2. ASSUME NEW g \in Gateways, Stop(g) PROVE Contract!BLNext
  BY <1>0, <1>2, RefinesStop DEF Contract!BLNext
<1>3. ASSUME NEW g \in Gateways, Wake(g) \/ ReadIps(g) \/ ReadAgents(g)
      PROVE  UNCHANGED Contract!blVars
  BY <1>3, Unseen DEF Wake, ReadIps, ReadAgents, history
<1>4. ASSUME NEW g \in Gateways, Rebuild(g)
      PROVE  [Contract!BLNext]_Contract!blVars
  <2>1. CASE Stop(g)
    BY <1>2, <2>1
  <2>2. ASSUME NEW q, Refresh(g, q) PROVE UNCHANGED Contract!blVars
    BY <2>2, Unseen DEF Refresh, history
  <2>3. ASSUME NEW q, phase[g] = "starting", Serve(g, q) PROVE Contract!BLNext
    BY <1>0, <2>3, RefinesServe DEF Contract!BLNext
  <2> QED
    BY <1>4, <2>1, <2>2, <2>3, RebuildCases
<1>5. ASSUME NEW g \in Gateways, ReloadFail(g)
      PROVE  [Contract!BLNext]_Contract!blVars
  <2>1. CASE Stop(g)
    BY <1>2, <2>1
  <2>2. CASE WorkerFails(g, "asleep")
    BY <2>2, Unseen DEF WorkerFails, history
  <2> QED
    BY <1>5, <2>1, <2>2 DEF ReloadFail
<1>6. ASSUME NEW g \in Gateways, NEW l \in Lists, NEW e \in Members(l),
             BlockSadd(g, l, e)
      PROVE  Contract!BLNext
  BY <1>6, RefinesSadd, MembersType DEF Contract!BLNext
<1>7. ASSUME NEW g \in Gateways, NEW l \in Lists, NEW e \in Members(l),
             BlockAdd(g, l, e)
      PROVE  [Contract!BLNext]_Contract!blVars
  <2>1. UNCHANGED <<redis, phase>>
    BY <1>7, AddCases
  <2>2. CASE UNCHANGED <<live, count, acked, due>>
    BY <2>1, <2>2, Unseen
  <2>3. CASE Add(g, l, e)
    BY <1>0, <1>7, <2>3, RefinesAdd, MembersType DEF Contract!BLNext
  <2> QED
    BY <1>7, <2>2, <2>3, AddCases
<1>8. CASE UNCHANGED vars
  BY <1>8, Unseen DEF vars, history
<1> QED
  BY <1>1, <1>2, <1>3, <1>4, <1>5, <1>6, <1>7, <1>8 DEF Next

\* Reloads, lost replies, crashes and the worker do not show: what admins and
\* clients see is the contract of BlockLists.
THEOREM Refinement == Spec => ImplementsBlockLists
<1>1. Init => Contract!BLInit
  BY RefinesInit
<1>2. Inv /\ Inv' /\ [Next]_vars => [Contract!BLNext]_Contract!blVars
  BY RefinesNext
<1> QED
  BY Invariance, <1>1, <1>2, PTL DEF Spec, ImplementsBlockLists, Contract!BLSpec
=============================================================================
