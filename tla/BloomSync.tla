----------------------------- MODULE BloomSync -----------------------------
(***************************************************************************)
(* The two block lists (known_bad_ips and abusive_agents): Redis holds     *)
(* them, every gateway process screens requests against in-memory Bloom    *)
(* filters loaded from Redis.                                              *)
(*                                                                         *)
(* A process is one asyncio loop: what lies between two awaits is one      *)
(* step.  A reload (sync_from_redis) awaits SMEMBERS twice and rebuilds    *)
(* both filters when the second reply is in; block-ip and block-agent      *)
(* await SADD and then add to the live filter.  At startup the reload      *)
(* fills app.state.bloom; afterwards bloom_sync_worker reloads every 60    *)
(* seconds the BloomFilterService it created for itself.                   *)
(*                                                                         *)
(* A filter is the set of its set bits and, for the live ones, the number  *)
(* of adds that set a bit.  pybloom_live counts those, and its add raises  *)
(* once the count has passed the capacity: a rebuild from a list that is   *)
(* too long stops half way.  No route and no worker removes an entry from  *)
(* Redis.                                                                  *)
(***************************************************************************)
EXTENDS FiniteSets, Naturals

CONSTANTS
    Gateways,    \* gateway processes
    Ips, Agents, \* the entries of the two lists
    NoAgent,     \* the empty User-Agent, which is never screened
    Bits,        \* positions of a filter
    Hash,        \* Hash[e]: the positions of e
    Capacity,    \* settings.bloom_filter_capacity
    MaxPending   \* bound on concurrent admin calls per gateway

Lists == {"ips", "agents"}

Entries == Ips \union Agents

Members(l) == IF l = "ips" THEN Ips ELSE Agents

ASSUME BloomAssumption ==
    /\ \A e \in Entries : Hash[e] \in SUBSET Bits
    /\ IsFiniteSet(Entries)
    /\ Capacity \in Nat
    /\ MaxPending \in Nat

VARIABLES
    redis,    \* redis[l]: members of the Redis set behind list l
    phase,    \* phase[g]: is the process down, in lifespan startup, serving
    live,     \* live[g][l]: app.state.bloom, what the middleware reads
    count,    \* count[g][l]: the adds that set a bit of it
    worker,   \* worker[g][l]: the worker's own BloomFilterService
    reload,   \* reload[g]: where sync_from_redis stands
    snap,     \* snap[g][l]: what its SMEMBERS returned
    pending,  \* admin calls <<g, l, e>> between SADD and the filter's add
    acked,    \* history: acked[l], entries some admin call answered for
    due       \* history: due[g][l], entries this process must deny

history == <<acked, due>>

vars == <<redis, phase, live, count, worker, reload, snap, pending, history>>

NoEntries == [l \in Lists |-> {}]

\* BloomFilter.add over a collection, and the membership test.
Load(S) == UNION {Hash[e] : e \in S}

Contains(filter, e) == Hash[e] \subseteq filter

\* The orders in which a loop may visit a set.
Orders(S) == {q \in [1..Cardinality(S) -> S] : S \subseteq {q[i] : i \in DOMAIN q}}

\* The adds, among the first n of order q, that set a bit.
Counted(q, n) ==
    {i \in 1..n : ~ Contains(Load({q[j] : j \in 1..(i - 1)}), q[i])}

\* The adds of order q that are made before one raises.
Made(q) == {i \in DOMAIN q : Cardinality(Counted(q, i - 1)) <= Capacity}

Whole(q) == Made(q) = DOMAIN q

Filled(q) == Load({q[i] : i \in Made(q)})

-----------------------------------------------------------------------------
Init ==
    /\ redis = NoEntries
    /\ phase = [g \in Gateways |-> "down"]
    /\ live = [g \in Gateways |-> NoEntries]
    /\ count = [g \in Gateways |-> [l \in Lists |-> 0]]
    /\ worker = [g \in Gateways |-> NoEntries]
    /\ reload = [g \in Gateways |-> "asleep"]
    /\ snap = [g \in Gateways |-> NoEntries]
    /\ pending = {}
    /\ acked = NoEntries
    /\ due = [g \in Gateways |-> NoEntries]

\* The lifespan starts: an empty service, then the first reload.
Start(g) ==
    /\ phase[g] = "down"
    /\ phase' = [phase EXCEPT ![g] = "starting"]
    /\ reload' = [reload EXCEPT ![g] = "reading ips"]
    /\ due' = [due EXCEPT ![g] = acked]
    /\ UNCHANGED <<redis, live, count, worker, snap, pending, acked>>

\* asyncio.sleep(60) is over.
Wake(g) ==
    /\ phase[g] = "serving" /\ reload[g] = "asleep"
    /\ reload' = [reload EXCEPT ![g] = "reading ips"]
    /\ UNCHANGED <<redis, phase, live, count, worker, snap, pending, history>>

\* SMEMBERS known_bad_ips.
ReadIps(g) ==
    /\ reload[g] = "reading ips"
    /\ snap' = [snap EXCEPT ![g]["ips"] = redis["ips"]]
    /\ reload' = [reload EXCEPT ![g] = "reading agents"]
    /\ UNCHANGED <<redis, phase, live, count, worker, pending, history>>

\* SMEMBERS abusive_agents.
ReadAgents(g) ==
    /\ reload[g] = "reading agents"
    /\ snap' = [snap EXCEPT ![g]["agents"] = redis["agents"]]
    /\ reload' = [reload EXCEPT ![g] = "rebuilding"]
    /\ UNCHANGED <<redis, phase, live, count, worker, pending, history>>

\* Mutants of Contents: no loop over the agents; the two replies swapped.
ContentsIpsOnly(q) == [l \in Lists |-> IF l = "agents" THEN {} ELSE Filled(q[l])]

ContentsSwapped(q) ==
    [l \in Lists |-> Filled(q[IF l = "ips" THEN "agents" ELSE "ips"])]

\* What the new filters hold after the two loops.  The agents' loop is only
\* reached when the one over the addresses did not raise.
Contents(q) ==
    [l \in Lists |-> IF l = "agents" /\ ~ Whole(q["ips"]) THEN {}
                     ELSE Filled(q[l])]

\* Mutant of Complete: startup puts up with a rebuild that raised.
CompleteOrNot(q) == TRUE

\* sync_from_redis returns; otherwise an add raised.
Complete(q) == \A l \in Lists : Whole(q[l])

\* Mutant of Left: admin calls outlive their process.
LeftAll(g) == pending

\* The admin calls of the other processes.
Left(g) == {p \in pending : p[1] # g}

\* The process ends, by a crash or by the lifespan's shutdown, and its memory
\* with it.
Stop(g) ==
    /\ phase[g] # "down"
    /\ phase' = [phase EXCEPT ![g] = "down"]
    /\ reload' = [reload EXCEPT ![g] = "asleep"]
    /\ live' = [live EXCEPT ![g] = NoEntries]
    /\ count' = [count EXCEPT ![g] = [l \in Lists |-> 0]]
    /\ worker' = [worker EXCEPT ![g] = NoEntries]
    /\ snap' = [snap EXCEPT ![g] = NoEntries]
    /\ due' = [due EXCEPT ![g] = NoEntries]
    /\ pending' = Left(g)
    /\ UNCHANGED <<redis, acked>>

\* Startup: the live filters are loaded, the worker is created with empty
\* filters and reloads at once, and requests are taken.
Serve(g, q) ==
    /\ phase' = [phase EXCEPT ![g] = "serving"]
    /\ live' = [live EXCEPT ![g] = Contents(q)]
    /\ count' = [count EXCEPT ![g] = [l \in Lists |->
                    Cardinality(Counted(q[l], Cardinality(snap[g][l])))]]
    /\ reload' = [reload EXCEPT ![g] = "reading ips"]
    /\ snap' = [snap EXCEPT ![g] = NoEntries]
    /\ UNCHANGED <<redis, worker, pending, history>>

\* Mutant of Refresh: the worker shares the filters of the middleware.
RefreshShared(g, q) ==
    /\ live' = [live EXCEPT ![g] = Contents(q)]
    /\ reload' = [reload EXCEPT ![g] = "asleep"]
    /\ snap' = [snap EXCEPT ![g] = NoEntries]
    /\ UNCHANGED <<redis, phase, worker, count, pending, history>>

\* The worker's filters are replaced, wholly or as far as they take entries,
\* and it sleeps.
Refresh(g, q) ==
    /\ worker' = [worker EXCEPT ![g] = Contents(q)]
    /\ reload' = [reload EXCEPT ![g] = "asleep"]
    /\ snap' = [snap EXCEPT ![g] = NoEntries]
    /\ UNCHANGED <<redis, phase, live, count, pending, history>>

\* Both replies are in: new filters, filled in the order the sets iterate.
Rebuild(g) ==
    /\ reload[g] = "rebuilding"
    /\ \E ips \in Orders(snap[g]["ips"]), agents \in Orders(snap[g]["agents"]) :
          LET q == [l \in Lists |-> IF l = "ips" THEN ips ELSE agents] IN
          \/ phase[g] = "starting" /\ Complete(q) /\ Serve(g, q)
          \/ phase[g] = "starting" /\ ~ Complete(q) /\ Stop(g)
          \/ phase[g] = "serving" /\ Refresh(g, q)

\* The worker's reload raised, which leaves it in the given state.
WorkerFails(g, state) ==
    /\ phase[g] = "serving" /\ reload[g] # "asleep"
    /\ reload' = [reload EXCEPT ![g] = state]
    /\ snap' = [snap EXCEPT ![g] = NoEntries]
    /\ UNCHANGED <<redis, phase, live, count, worker, pending, history>>

\* Mutant of ReloadFail: the worker without its except clause.
ReloadFailEndsWorker(g) ==
    (phase[g] = "starting" /\ Stop(g)) \/ WorkerFails(g, "ended")

\* Redis fails a reload: startup gives up, the worker logs and sleeps.
ReloadFail(g) ==
    (phase[g] = "starting" /\ Stop(g)) \/ WorkerFails(g, "asleep")

\* block-ip, block-agent: SADD.  When its reply is lost the handler raises
\* and the entry stays in Redis alone.
BlockSadd(g, l, e) ==
    /\ phase[g] = "serving"
    /\ Cardinality({p \in pending : p[1] = g}) < MaxPending
    /\ redis' = [redis EXCEPT ![l] = @ \union {e}]
    /\ pending' \in {pending, pending \union {<<g, l, e>>}}
    /\ UNCHANGED <<phase, live, count, worker, reload, snap, history>>

CountWith(g, l, e) ==
    IF Contains(live[g][l], e) THEN count[g][l] ELSE count[g][l] + 1

\* The live filter takes the entry and the admin is answered.
Add(g, l, e) ==
    /\ live' = [live EXCEPT ![g][l] = @ \union Hash[e]]
    /\ count' = [count EXCEPT ![g][l] = CountWith(g, l, e)]
    /\ acked' = [acked EXCEPT ![l] = @ \union {e}]
    /\ due' = [due EXCEPT ![g][l] = @ \union {e}]

\* The reply of SADD is in.  A full filter raises, and the entry stays in
\* Redis unanswered.
BlockAdd(g, l, e) ==
    /\ <<g, l, e>> \in pending
    /\ pending' = pending \ {<<g, l, e>>}
    /\ \/ count[g][l] <= Capacity /\ Add(g, l, e)
       \/ count[g][l] > Capacity /\ UNCHANGED <<live, count, history>>
    /\ UNCHANGED <<redis, phase, worker, reload, snap>>

Next ==
    \E g \in Gateways :
        \/ Start(g) \/ Wake(g) \/ ReadIps(g) \/ ReadAgents(g) \/ Rebuild(g)
        \/ ReloadFail(g) \/ Stop(g)
        \/ \E l \in Lists : \E e \in Members(l) :
               BlockSadd(g, l, e) \/ BlockAdd(g, l, e)

Spec == Init /\ [][Next]_vars

\* The event loop resumes every task, and Redis answers again and again
\* however often it fails (the worker's except clause makes it retry).
Fairness ==
    \A g \in Gateways :
        /\ WF_vars(Wake(g)) /\ SF_vars(ReadIps(g))
        /\ SF_vars(ReadAgents(g)) /\ SF_vars(Rebuild(g))
        /\ \A l \in Lists, e \in Entries : WF_vars(BlockAdd(g, l, e))

FairSpec == Spec /\ Fairness

-----------------------------------------------------------------------------
\* BloomFilterMiddleware.dispatch: the 403 for a request of ip and agent.
Denied(g, ip, agent) ==
    \/ Contains(live[g]["ips"], ip)
    \/ agent # NoAgent /\ Contains(live[g]["agents"], agent)

\* Types of the variables; a call between SADD and add is one of a process
\* that serves requests.
TypeOK ==
    /\ redis \in [Lists -> SUBSET Entries]
    /\ phase \in [Gateways -> {"down", "starting", "serving"}]
    /\ live \in [Gateways -> [Lists -> SUBSET Bits]]
    /\ count \in [Gateways -> [Lists -> Nat]]
    /\ worker \in [Gateways -> [Lists -> SUBSET Bits]]
    /\ reload \in [Gateways ->
          {"asleep", "reading ips", "reading agents", "rebuilding"}]
    /\ snap \in [Gateways -> [Lists -> SUBSET Entries]]
    /\ pending \subseteq Gateways \X Lists \X Entries
    /\ \A p \in pending : phase[p[1]] = "serving"
    /\ acked \in [Lists -> SUBSET Entries]
    /\ due \in [Gateways -> [Lists -> SUBSET Entries]]

\* A block that was answered (routers/admin.py:31-33, 47-48) denies the very
\* next request on that gateway, whatever its worker is in the middle of, and
\* after a restart it denies requests on every gateway started since
\* (bloom_filter.py:56 "so it survives restarts").  A process whose filters
\* cannot take the whole list does not serve.
AckedBlockEnforced ==
    \A g \in Gateways : phase[g] = "serving" =>
        \A ip \in Ips, agent \in Agents :
            \/ ip \in due[g]["ips"]
            \/ agent \in due[g]["agents"] /\ agent # NoAgent
            => Denied(g, ip, agent)

\* A filter never holds a position that no entry of its own list explains:
\* a denied request is on the list or a false positive of it, never the
\* victim of a half-done reload or of the other list.
NoInventedBlock ==
    \A g \in Gateways, l \in Lists :
        live[g][l] \union worker[g][l] \subseteq Load(redis[l])

\* The entries that a filter of the entries S denies, and those that the live
\* filters of each gateway deny.
Covered == [S \in SUBSET Entries |-> {e \in Entries : Contains(Load(S), e)}]

Denials ==
    [g \in Gateways |-> [l \in Lists |-> {e \in Entries : Contains(live[g][l], e)}]]

\* Admins and clients see blocks that are listed, answered and denied.  That
\* filters are rebuilt from replies that may be old, that the worker reloads
\* beside them, that a process ends between SADD and add: none of it shows
\* (services/bloom_filter.py:55-58, 73-76, 80-107; workers/bloom_sync.py:29-42).
Contract == INSTANCE BlockLists
    WITH Cover <- Covered, listed <- redis, answered <- acked,
         up <- phase, owed <- due, denied <- Denials

ImplementsBlockLists == Contract!BLSpec

\* A list that every rebuild can load, whatever the order.
Fits(l) == Cardinality(redis[l]) <= Capacity + 1

\* Interrupted reloads do not stop the worker (bloom_sync.py:36-40): what is
\* in Redis reaches the filters of every worker that stays up, unless a list
\* outgrows them.
WorkerCatchesUp ==
    \A g \in Gateways, l \in Lists, e \in Entries :
        e \in redis[l] /\ phase[g] = "serving"
            ~> \/ Contains(worker[g][l], e)
               \/ phase[g] # "serving"
               \/ \E k \in Lists : ~ Fits(k)

\* bloom_sync.py:25-27 "each gateway process runs its own sync worker, so all
\* instances converge within one sync interval of a new block being applied":
\* an answered block is eventually enforced by every gateway that stays up.
InstancesConverge ==
    \A g \in Gateways, ip \in Ips :
        ip \in acked["ips"] /\ phase[g] = "serving"
            ~> Denied(g, ip, NoAgent) \/ phase[g] # "serving"
=============================================================================
