------------------------------ MODULE Lifespan ------------------------------
(***************************************************************************)
(* One life of a gateway process: lifespan in app/main.py with             *)
(* create_redis_client, the first load, the worker task, the requests that *)
(* the server takes in between, and the shutdown.                          *)
(*                                                                         *)
(* The process is one asyncio loop with three kinds of tasks, the          *)
(* lifespan, the worker and the requests, which share one Redis client.    *)
(* The server (uvicorn) resumes the lifespan for the shutdown when no      *)
(* request is left; task.cancel() raises CancelledError at the await where *)
(* the task stands.  What the reloads do to the filters is in BloomSync.   *)
(***************************************************************************)
EXTENDS Naturals

CONSTANTS
    MaxAttempts,  \* _MAX_RETRIES
    MaxRequests,  \* bound on the requests in flight
    LatestStart   \* bound on the second at which Redis comes up

ASSUME LifespanAssumption ==
    /\ MaxAttempts \in Nat \ {0}
    /\ MaxRequests \in Nat
    /\ LatestStart \in Nat

VARIABLES
    redisAt,   \* the second from which on Redis takes connections
    phase,     \* the await the lifespan stands at, or how it ended
    attempt,   \* number of the ping
    wait,      \* seconds left of the delay
    slept,     \* seconds slept so far
    requests,  \* number of requests in flight
    worker,    \* the await the worker stands at
    cancel,    \* sync_task.cancel() is called and not yet delivered
    closed     \* close_redis_client is called

vars == <<redisAt, phase, attempt, wait, slept, requests, worker, cancel, closed>>

connection == <<redisAt, attempt, wait, slept>>

Init ==
    /\ redisAt \in 0..LatestStart
    /\ phase = "ping"
    /\ attempt = 1
    /\ wait = 0
    /\ slept = 0
    /\ requests = 0
    /\ worker = "none"
    /\ cancel = FALSE
    /\ closed = FALSE

Up == slept >= redisAt

\* Mutants of Delay and LastAttempt: the delay grows by one second each time;
\* one attempt too many.
DelayLinear(n) == n

LastAttemptLate == MaxAttempts + 1

Delay(n) == 2 ^ (n - 1)

LastAttempt == MaxAttempts

Connect ==
    /\ phase = "ping" /\ Up
    /\ phase' = "load"
    /\ UNCHANGED <<connection, requests, worker, cancel, closed>>

\* redis.exceptions.ConnectionError: the next attempt, or the end.
Refused ==
    /\ phase = "ping" /\ ~ Up
    /\ \/ /\ attempt # LastAttempt
          /\ wait' = Delay(attempt)
          /\ phase' = "backoff"
       \/ /\ attempt = LastAttempt
          /\ phase' = "gave up"
          /\ UNCHANGED wait
    /\ UNCHANGED <<redisAt, attempt, slept, requests, worker, cancel, closed>>

\* One second of asyncio.sleep(delay).
Sleep ==
    /\ phase = "backoff"
    /\ wait' = wait - 1
    /\ slept' = slept + 1
    /\ \/ wait' > 0 /\ UNCHANGED <<phase, attempt>>
       \/ wait' = 0 /\ phase' = "ping" /\ attempt' = attempt + 1
    /\ UNCHANGED <<redisAt, requests, worker, cancel, closed>>

\* Any other exception, a timeout of the ping included, ends the startup; so
\* does any exception of the first load.
StartupFails ==
    /\ phase \in {"ping", "load"}
    /\ phase' = "failed"
    /\ UNCHANGED <<connection, requests, worker, cancel, closed>>

\* The first load is done: the worker is created and requests are taken.
Serve ==
    /\ phase = "load"
    /\ phase' = "serving"
    /\ worker' = "created"
    /\ UNCHANGED <<connection, requests, cancel, closed>>

Request ==
    /\ phase = "serving" /\ requests < MaxRequests
    /\ requests' = requests + 1
    /\ UNCHANGED <<connection, phase, worker, cancel, closed>>

\* A request is answered, or ends with an exception.
Reply ==
    /\ requests > 0
    /\ requests' = requests - 1
    /\ UNCHANGED <<connection, phase, worker, cancel, closed>>

\* The worker's loop: a reload, which may fail, and a sleep.
WorkerStep ==
    /\ ~ cancel
    /\ \/ worker \in {"created", "asleep"} /\ worker' = "reloading"
       \/ worker = "reloading" /\ worker' = "asleep"
    /\ UNCHANGED <<connection, phase, requests, cancel, closed>>

\* A mutant of WorkerCancelled: the reload catches BaseException.
WorkerCancelledCaught ==
    /\ cancel
    /\ cancel' = FALSE
    /\ worker' = IF worker = "reloading" THEN "asleep" ELSE "ended"
    /\ UNCHANGED <<connection, phase, requests, closed>>

\* CancelledError, which except Exception lets through.
WorkerCancelled ==
    /\ cancel
    /\ cancel' = FALSE
    /\ worker' = "ended"
    /\ UNCHANGED <<connection, phase, requests, closed>>

\* SIGTERM: no more requests are taken.
Terminate ==
    /\ phase = "serving"
    /\ phase' = "draining"
    /\ UNCHANGED <<connection, requests, worker, cancel, closed>>

\* A mutant of Shutdown: the client is closed before the worker is awaited.
ShutdownCloses ==
    /\ phase = "draining" /\ requests = 0
    /\ phase' = "awaiting worker"
    /\ cancel' = TRUE
    /\ closed' = TRUE
    /\ UNCHANGED <<connection, requests, worker>>

\* The server resumes the lifespan: sync_task.cancel().
Shutdown ==
    /\ phase = "draining" /\ requests = 0
    /\ phase' = "awaiting worker"
    /\ cancel' = TRUE
    /\ UNCHANGED <<connection, requests, worker, closed>>

\* await sync_task is over: close_redis_client.
CloseRedis ==
    /\ phase = "awaiting worker" /\ worker = "ended"
    /\ phase' = "closing"
    /\ closed' = TRUE
    /\ UNCHANGED <<connection, requests, worker, cancel>>

Stop ==
    /\ phase = "closing"
    /\ phase' = "stopped"
    /\ UNCHANGED <<connection, requests, worker, cancel, closed>>

Ends == {"gave up", "failed", "stopped"}

Finished == phase \in Ends /\ UNCHANGED vars

Next ==
    \/ Connect \/ Refused \/ Sleep \/ StartupFails \/ Serve
    \/ Request \/ Reply \/ WorkerStep \/ WorkerCancelled
    \/ Terminate \/ Shutdown \/ CloseRedis \/ Stop \/ Finished

Spec == Init /\ [][Next]_vars

\* The loop delivers cancellations and resumes the lifespan.  Redis need answer
\* nobody: not the worker, and not the requests, which wait on the same client
\* without a timeout and may never end.
Fairness ==
    /\ WF_vars(WorkerCancelled)
    /\ WF_vars(Shutdown) /\ WF_vars(CloseRedis) /\ WF_vars(Stop)

FairSpec == Spec /\ Fairness

-----------------------------------------------------------------------------
TypeOK ==
    /\ redisAt \in 0..LatestStart
    /\ phase \in {"ping", "backoff", "load", "serving", "draining",
                  "awaiting worker", "closing"} \union Ends
    /\ attempt \in 1..MaxAttempts
    /\ wait \in Nat /\ slept \in Nat
    /\ requests \in 0..MaxRequests
    /\ worker \in {"none", "created", "reloading", "asleep", "ended"}
    /\ cancel \in BOOLEAN /\ closed \in BOOLEAN

\* redis_client.py:19-20 "prevents the app from crashing when Redis is slow to
\* start": a Redis that takes connections within the sum of the delays (15
\* seconds for five attempts) is not given up.
SlowRedisFound == phase = "gave up" => redisAt > 2 ^ (MaxAttempts - 1) - 1

\* Nothing uses the Redis client once its closing has begun (main.py:57-64):
\* the worker has ended, wherever the cancellation met it, and no request is
\* in flight.
NoUseAfterClose == closed => worker = "ended" /\ requests = 0

\* Once the last request has ended a shutdown ends, even if the worker is in the
\* middle of a reload that Redis never answers (bloom_sync.py:36,
\* main.py:58-62).  Nothing is promised while a request is left: one that waits
\* for such a Redis holds the shutdown for as long (redis_client.py:22-26).
ShutdownEnds == (phase = "draining" /\ requests = 0) ~> (phase = "stopped")
=============================================================================
