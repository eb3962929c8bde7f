--------------------------- MODULE LifespanProofs ---------------------------
(***************************************************************************)
(* Proofs about Lifespan for any number of attempts and requests.  What    *)
(* the provers know of 2 ^ n is that it counts the subsets of n things;    *)
(* that it doubles with n follows from that.                               *)
(***************************************************************************)
EXTENDS Lifespan, FiniteSetTheorems, FunctionTheorems, TLAPS

\* What may still run is decided by how far the lifespan has come.
Order ==
    /\ requests \in Nat /\ cancel \in BOOLEAN /\ closed \in BOOLEAN
    /\ phase \in {"ping", "backoff", "load", "gave up", "failed"} =>
          requests = 0 /\ worker = "none"
    /\ phase \in {"awaiting worker", "closing", "stopped"} => requests = 0
    /\ phase \in {"closing", "stopped"} => worker = "ended"
    /\ phase \in {"serving", "draining"} => worker # "ended"
    /\ cancel => phase = "awaiting worker" /\ worker # "ended"
    /\ closed => phase \in {"closing", "stopped"}

LEMMA OrderInit == Init => Order
<1> SUFFICES ASSUME Init PROVE Order
  OBVIOUS
<1>1. requests = 0 /\ 0 \in Nat
  BY DEF Init
<1>2. cancel = FALSE /\ closed = FALSE /\ phase = "ping" /\ worker = "none"
  BY DEF Init
<1> QED
  BY <1>1, <1>2 DEF Order

LEMMA ReplyCount ==
  ASSUME requests \in Nat, Reply
  PROVE  requests # 0 /\ requests' \in Nat
<1>1. requests > 0 /\ requests' = requests - 1
  BY DEF Reply
<1> QED
  BY <1>1

LEMMA OrderNext == Order /\ [Next]_vars => Order'
<1> SUFFICES ASSUME Order, [Next]_vars PROVE Order'
  OBVIOUS
<1> USE DEF Order, connection
<1>1. CASE Connect
  BY <1>1 DEF Connect
<1>2. CASE Refused
  BY <1>2 DEF Refused
<1>3. CASE Sleep
  BY <1>3 DEF Sleep
<1>4. CASE StartupFails
  BY <1>4 DEF StartupFails
<1>5. CASE Serve
  BY <1>5 DEF Serve
<1>6. CASE Request
  BY <1>6 DEF Request
<1>7. CASE Reply
  <2>1. requests # 0 /\ requests' \in Nat
    BY <1>7, ReplyCount
  <2>2. UNCHANGED <<phase, worker, cancel, closed>>
    BY <1>7 DEF Reply
  <2> QED
    BY <2>1, <2>2
<1>8. CASE WorkerStep
  BY <1>8 DEF WorkerStep
<1>9. CASE WorkerCancelled
  BY <1>9 DEF WorkerCancelled
<1>10. CASE Terminate
  BY <1>10 DEF Terminate
<1>11. CASE Shutdown
  BY <1>11 DEF Shutdown
<1>12. CASE CloseRedis
  BY <1>12 DEF CloseRedis
<1>13. CASE Stop
  BY <1>13 DEF Stop
<1>14. CASE UNCHANGED vars
  BY <1>14 DEF vars
<1> QED
  BY <1>1, <1>2, <1>3, <1>4, <1>5, <1>6, <1>7, <1>8, <1>9, <1>10, <1>11, <1>12, <1>13, <1>14 DEF Next, Finished

\* Nothing uses the Redis client once its closing has begun, whatever the
\* worker was doing when it was cancelled.
THEOREM NoUseHolds == Spec => []NoUseAfterClose
<1>1. Order => NoUseAfterClose
  BY DEF Order, NoUseAfterClose
<1> QED
  BY OrderInit, OrderNext, <1>1, PTL DEF Spec

-----------------------------------------------------------------------------
Power(n) == 2 ^ n

\* The sets that may be formed of n things.
Choices(n) == SUBSET (1..n)

LEMMA PowerCounts ==
  ASSUME NEW n \in Nat
  PROVE  IsFiniteSet(Choices(n)) /\ Cardinality(Choices(n)) = Power(n)
<1>1. IsFiniteSet(1..n) /\ Cardinality(1..n) = n
  BY FS_Interval
<1>2. /\ IsFiniteSet(SUBSET (1..n))
      /\ Cardinality(SUBSET (1..n)) = 2 ^ Cardinality(1..n)
  BY <1>1, FS_SUBSET, Zenon
<1> QED
  BY <1>1, <1>2, Zenon DEF Choices, Power

LEMMA PowerZero == Power(0) = 1
<1>1. Choices(0) = {{}}
  BY DEF Choices
<1> QED
  BY <1>1, PowerCounts, FS_Singleton

\* A set of n + 1 things has the last one or not.
LEMMA PowerDoubles ==
  ASSUME NEW n \in Nat
  PROVE  /\ Power(n) \in Nat \ {0}
         /\ Power(n + 1) = 2 * Power(n)
<1> DEFINE With == {S \in Choices(n + 1) : n + 1 \in S}
           f == [S \in Choices(n) |-> S \cup {n + 1}]
<1>1. IsFiniteSet(Choices(n)) /\ IsFiniteSet(Choices(n + 1))
  BY PowerCounts
<1>2. Choices(n + 1) = Choices(n) \cup With
  BY DEF Choices
<1>3. Choices(n) \cap With = {}
  BY DEF Choices
<1>4. f \in Bijection(Choices(n), With)
  <2>1. f \in [Choices(n) -> With]
    BY DEF Choices
  <2>2. \A S, T \in Choices(n) : f[S] = f[T] => S = T
    <3> SUFFICES ASSUME NEW S \in Choices(n), NEW T \in Choices(n),
                        S \cup {n + 1} = T \cup {n + 1}
                 PROVE  S = T
      OBVIOUS
    <3>1. n + 1 \notin S /\ n + 1 \notin T
      BY DEF Choices
    <3> QED
      BY <3>1
  <2>3. \A W \in With : \E S \in Choices(n) : f[S] = W
    <3> SUFFICES ASSUME NEW W \in With PROVE \E S \in Choices(n) : S \cup {n + 1} = W
      OBVIOUS
    <3>1. W \ {n + 1} \in Choices(n)
      BY DEF Choices
    <3>2. (W \ {n + 1}) \cup {n + 1} = W
      OBVIOUS
    <3> QED
      BY <3>1, <3>2
  <2> QED
    BY <2>1, <2>2, <2>3, Fun_IsBij
<1>5. IsFiniteSet(With) /\ Cardinality(With) = Cardinality(Choices(n))
  BY <1>1, <1>4, FS_Bijection DEF ExistsBijection
<1> HIDE DEF With
<1>6. Cardinality(Choices(n)) \in Nat /\ Cardinality(With) \in Nat
  BY <1>1, <1>5, FS_CardinalityType
<1>7. Cardinality(Choices(n + 1)) = Cardinality(Choices(n)) + Cardinality(With)
  BY <1>1, <1>2, <1>3, <1>5, <1>6, FS_Union, FS_EmptySet
<1>8. Cardinality(Choices(n)) # 0
  <2>1. {} \in Choices(n)
    BY DEF Choices
  <2> QED
    BY <1>1, <2>1, FS_EmptySet
<1> QED
  BY <1>5, <1>6, <1>7, <1>8, PowerCounts
-----------------------------------------------------------------------------
\* What the properties say of the variables that no retry touches.
Rest ==
    /\ redisAt \in 0..LatestStart
    /\ requests \in 0..MaxRequests
    /\ worker \in {"none", "created", "reloading", "asleep", "ended"}
    /\ cancel \in BOOLEAN /\ closed \in BOOLEAN

Places == {"ping", "backoff", "load", "serving", "draining", "awaiting worker",
           "closing"} \union Ends

\* The seconds slept when the lifespan stands at a ping or a delay, the second
\* a refused last ping was too early for, and the types.
Slept ==
    /\ Rest /\ phase \in Places
    /\ attempt \in 1..MaxAttempts /\ wait \in Nat /\ slept \in Nat
    /\ phase = "ping" => wait = 0 /\ slept + 1 = Power(attempt - 1)
    /\ phase = "backoff" =>
          /\ wait > 0 /\ attempt < MaxAttempts
          /\ slept + wait + 1 = Power(attempt)
    /\ phase = "gave up" => slept + 1 = Power(MaxAttempts - 1) /\ slept < redisAt

LEMMA RedisAtNat == Rest => redisAt \in Nat
<1> SUFFICES ASSUME Rest PROVE redisAt \in Nat
  OBVIOUS
<1>1. redisAt \in 0..LatestStart
  BY DEF Rest
<1> QED
  BY <1>1, LifespanAssumption

LEMMA SleptInit == Init => Slept
<1> SUFFICES ASSUME Init PROVE Slept
  OBVIOUS
<1>1. phase = "ping" /\ phase \in Places
  BY DEF Init, Places
<1>4. Rest
  <2>1. requests \in 0..MaxRequests /\ redisAt \in 0..LatestStart
    BY LifespanAssumption DEF Init
  <2>2. cancel \in BOOLEAN /\ closed \in BOOLEAN /\ worker = "none"
    BY DEF Init
  <2> QED
    BY <2>1, <2>2 DEF Rest
<1>2. attempt = 1 /\ 1 \in 1..MaxAttempts /\ wait = 0 /\ slept = 0
  BY LifespanAssumption DEF Init
<1>3. slept + 1 = Power(attempt - 1)
  BY <1>2, PowerZero
<1> QED
  BY <1>1, <1>2, <1>3, <1>4 DEF Slept

LEMMA RestNext == Slept /\ [Next]_vars => Rest'
<1> SUFFICES ASSUME Slept, [Next]_vars PROVE Rest'
  OBVIOUS
<1>1. Rest
  BY DEF Slept
<1>2. CASE Request
  <2>1. requests' \in 0..MaxRequests
    BY <1>1, <1>2, LifespanAssumption DEF Request, Rest
  <2> QED
    BY <1>1, <1>2, <2>1 DEF Request, Rest, connection
<1>3. CASE Reply
  <2>1. requests' \in 0..MaxRequests
    BY <1>1, <1>3, LifespanAssumption DEF Reply, Rest
  <2> QED
    BY <1>1, <1>3, <2>1 DEF Reply, Rest, connection
<1>4. CASE UNCHANGED <<redisAt, requests>> /\ ~ Request /\ ~ Reply
  <2> USE <1>1 DEF Rest
  <2>1. CASE Connect
    BY <2>1 DEF Connect, connection
  <2>2. CASE Refused
    BY <2>2 DEF Refused
  <2>3. CASE Sleep
    BY <2>3 DEF Sleep
  <2>4. CASE StartupFails
    BY <2>4 DEF StartupFails, connection
  <2>5. CASE Serve
    BY <2>5 DEF Serve, connection
  <2>6. CASE WorkerStep
    BY <2>6 DEF WorkerStep, connection
  <2>7. CASE WorkerCancelled
    BY <2>7 DEF WorkerCancelled, connection
  <2>8. CASE Terminate
    BY <2>8 DEF Terminate, connection
  <2>9. CASE Shutdown
    BY <2>9 DEF Shutdown, connection
  <2>10. CASE CloseRedis
    BY <2>10 DEF CloseRedis, connection
  <2>11. CASE Stop
    BY <2>11 DEF Stop, connection
  <2>12. CASE UNCHANGED vars
    BY <2>12 DEF vars
  <2> QED
    BY <1>4, <2>1, <2>2, <2>3, <2>4, <2>5, <2>6, <2>7, <2>8, <2>9, <2>10,
       <2>11, <2>12 DEF Next, Finished
<1> QED
  BY <1>2, <1>3, <1>4 DEF Next, Finished, vars, connection, Connect, Refused,
     Sleep, StartupFails, Serve, WorkerStep, WorkerCancelled, Terminate,
     Shutdown, CloseRedis, Stop

LEMMA SleptNext == Slept /\ [Next]_vars => Slept'
<1> SUFFICES ASSUME Slept, [Next]_vars PROVE Slept'
  OBVIOUS
<1>0. /\ Rest' /\ phase \in Places /\ redisAt \in Nat
      /\ attempt \in 1..MaxAttempts /\ wait \in Nat /\ slept \in Nat
      /\ MaxAttempts \in Nat \ {0}
  BY RestNext, RedisAtNat, LifespanAssumption DEF Slept
<1>1. CASE Refused
  <2>1. /\ phase = "ping" /\ slept < redisAt
        /\ wait = 0 /\ slept + 1 = Power(attempt - 1)
        /\ UNCHANGED <<redisAt, attempt, slept>>
    <3>1. phase = "ping" /\ ~ Up /\ UNCHANGED <<redisAt, attempt, slept>>
      BY <1>1 DEF Refused
    <3>2. slept < redisAt
      BY <1>0, <3>1 DEF Up
    <3> QED
      BY <3>1, <3>2 DEF Slept
  <2>2. CASE attempt # LastAttempt
    <3>1. wait' = Power(attempt - 1) /\ phase' = "backoff"
      BY <1>1, <2>2 DEF Refused, Delay, Power
    <3>2. attempt - 1 \in Nat /\ (attempt - 1) + 1 = attempt
      BY <1>0
    <3>3. Power(attempt - 1) \in Nat \ {0} /\ Power(attempt) = 2 * Power(attempt - 1)
      BY <3>2, PowerDoubles
    <3>4. wait' \in Nat /\ wait' > 0 /\ slept' + wait' + 1 = Power(attempt')
      BY <1>0, <2>1, <3>1, <3>3
    <3>5. attempt' < MaxAttempts /\ attempt' \in 1..MaxAttempts
      BY <1>0, <2>1, <2>2 DEF LastAttempt
    <3>6. phase' \in Places
      BY <3>1 DEF Places
    <3> QED
      BY <1>0, <2>1, <3>1, <3>4, <3>5, <3>6 DEF Slept, Rest, Places
  <2>3. CASE attempt = LastAttempt
    BY <1>0, <1>1, <2>1, <2>3 DEF Refused, LastAttempt, Slept, Places, Ends
  <2> QED
    BY <2>2, <2>3
<1>2. CASE Sleep
  <2>1. /\ phase = "backoff" /\ wait > 0 /\ attempt < MaxAttempts
        /\ slept + wait + 1 = Power(attempt)
        /\ wait' = wait - 1 /\ slept' = slept + 1 /\ redisAt' = redisAt
    BY <1>2 DEF Sleep, Slept
  <2>2. wait' \in Nat /\ slept' \in Nat /\ slept' + wait' = slept + wait
    BY <1>0, <2>1
  <2>3. CASE wait' > 0 /\ UNCHANGED <<phase, attempt>>
    BY <1>0, <2>1, <2>2, <2>3 DEF Slept
  <2>4. CASE wait' = 0 /\ phase' = "ping" /\ attempt' = attempt + 1
    <3>1. attempt' \in 1..MaxAttempts /\ attempt' - 1 = attempt
      BY <1>0, <2>1, <2>4
    <3>2. slept' + 1 = Power(attempt' - 1)
      BY <1>0, <2>1, <2>2, <2>4, <3>1
    <3> QED
      BY <1>0, <2>2, <2>4, <3>1, <3>2 DEF Slept, Places
  <2> QED
    BY <1>2, <2>3, <2>4 DEF Sleep
<1>3. ASSUME phase' \notin {"ping", "backoff", "gave up"}, phase' \in Places,
             UNCHANGED <<attempt, wait, slept>>
      PROVE  Slept'
  BY <1>0, <1>3 DEF Slept
<1>4. CASE UNCHANGED <<phase, connection>>
  BY <1>0, <1>4 DEF Slept, connection
<1>5. CASE Connect \/ StartupFails \/ Serve \/ Terminate \/ Shutdown \/ CloseRedis \/ Stop
  BY <1>3, <1>5 DEF Connect, StartupFails, Serve, Terminate, Shutdown,
     CloseRedis, Stop, connection, Places, Ends
<1>6. CASE Request \/ Reply \/ WorkerStep \/ WorkerCancelled \/ UNCHANGED vars
  BY <1>4, <1>6 DEF Request, Reply, WorkerStep, WorkerCancelled, vars, connection
<1> QED
  BY <1>1, <1>2, <1>5, <1>6 DEF Next, Finished

LEMMA SleptHolds == Spec => []Slept
  BY SleptInit, SleptNext, PTL DEF Spec

\* The types of Lifespan's variables: no attempt is one too many.
THEOREM TypeCorrect == Spec => []TypeOK
<1>1. Slept => TypeOK
  BY DEF Slept, Rest, Places, TypeOK
<1> QED
  BY SleptHolds, <1>1, PTL

\* A Redis that takes connections within the sum of the delays is not given
\* up, for any number of attempts (redis_client.py:28-50).
THEOREM SlowRedis == Spec => []SlowRedisFound
<1>1. MaxAttempts - 1 \in Nat
  BY LifespanAssumption
<1>2. Power(MaxAttempts - 1) \in Nat
  BY <1>1, PowerDoubles
<1>3. Slept => SlowRedisFound
  <2>1. ASSUME Slept, phase = "gave up"
        PROVE  redisAt > Power(MaxAttempts - 1) - 1
    <3>1. /\ slept + 1 = Power(MaxAttempts - 1) /\ slept < redisAt
          /\ slept \in Nat /\ redisAt \in Nat
      BY <2>1, RedisAtNat DEF Slept
    <3> QED
      BY <1>2, <3>1
  <2> QED
    BY <2>1 DEF SlowRedisFound, Power
<1> QED
  BY SleptHolds, <1>3, PTL
=============================================================================
