---------------------------- MODULE RateLimiter ----------------------------
(***************************************************************************)
(* RateLimiter.check_rate_limit and its Lua script, for one client_id.     *)
(*                                                                         *)
(* Keys of different clients never meet (rate_limit:{client_id}), so one   *)
(* key is enough.  A request reads its gateway's clock, sends the script   *)
(* and waits; the script runs atomically on Redis some time later.  When   *)
(* the reply is lost the Redis client sends the same script again, with    *)
(* the same arguments, or lets the call raise.                             *)
(*                                                                         *)
(* Time is in milliseconds of Redis's clock.  When a script runs its stamp *)
(* lags that clock by at most Lag (slow host, time in flight, retries) or  *)
(* leads it by at most Lead (fast host).                                   *)
(*                                                                         *)
(* The member the script adds is "{now}-{client_id}" with score now, so in *)
(* one key the member IS the stamp and the sorted set is a set of stamps.  *)
(***************************************************************************)
EXTENDS Integers, FiniteSets

CONSTANTS
    Requests,       \* calls of check_rate_limit, each made once
    Limit,          \* settings.rate_limit_requests
    WindowSeconds,  \* settings.rate_limit_window_seconds
    Ms,             \* milliseconds in a second (1000 in the code)
    Lag, Lead,      \* bounds on stamp - Redis clock when the script runs
    MaxTime         \* bound of the modelled clock

ASSUME RateAssumption ==
    /\ IsFiniteSet(Requests)
    /\ Limit \in Nat \ {0}
    /\ WindowSeconds \in Nat \ {0}
    /\ Ms \in Nat \ {0}
    /\ Lag \in Nat
    /\ Lead \in Nat
    /\ MaxTime \in Nat

VARIABLES
    clock,      \* Redis's clock
    zset,       \* the sorted set rate_limit:{client_id}
    expireAt,   \* the deadline EXPIRE gave the key
    stamp,      \* stamp[r]: "now" of request r
    outcome,    \* outcome[r]
    remaining,  \* remaining[r]: second component of the reply to r
    entered     \* history: the requests for which ZADD was executed

vars == <<clock, zset, expireAt, stamp, outcome, remaining, entered>>

Span == WindowSeconds * Ms

\* EXPIRE key (window + 1).
KeyTtl == (WindowSeconds + 1) * Ms

Slack == Lag + Lead

Contract == INSTANCE SlidingWindow
              WITH stamp <- stamp, outcome <- outcome, entered <- entered

Log == Contract!Log

After(t) == Contract!After(t)

-----------------------------------------------------------------------------
Init ==
    /\ clock = 0
    /\ zset = {}
    /\ expireAt = 0
    /\ stamp = [r \in Requests |-> 0]
    /\ outcome = [r \in Requests |-> "idle"]
    /\ remaining = [r \in Requests |-> 0]
    /\ entered = {}

\* now = int(time.time() * 1000) on the gateway's clock, then the await.
Send(r) ==
    /\ outcome[r] = "idle"
    /\ \E now \in 0..(clock + Lead) :
          /\ clock <= now + Lag
          /\ stamp' = [stamp EXCEPT ![r] = now]
    /\ outcome' = [outcome EXCEPT ![r] = "sent"]
    /\ UNCHANGED <<clock, zset, expireAt, remaining, entered>>

\* Redis removes a key once its clock has passed the deadline.
Stored == IF clock > expireAt THEN {} ELSE zset

\* Mutants of Kept: an exclusive bound, and a bound in seconds.
KeptBoundary(now) == {a \in Stored : a >= now - Span}
KeptSeconds(now) == {a \in Stored : a > now - WindowSeconds}

\* ZREMRANGEBYSCORE key 0 (now - window * 1000): the bound is inclusive.
Kept(now) == {a \in Stored : a > now - Span}

\* Mutant of Room: count <= limit.
RoomAtLimit(now) == Cardinality(Kept(now)) <= Limit

Room(now) == Cardinality(Kept(now)) < Limit

\* Mutant of Expiry: EXPIRE on a new key only.
ExpiryOfNew == IF Stored = {} THEN clock + KeyTtl ELSE expireAt

\* EXPIRE key (window + 1).
Expiry == clock + KeyTtl

\* Mutant of Left: the promise computed without the request itself.
LeftBefore(now) == Limit - Cardinality(Kept(now))

\* The second element of the reply.
Left(now) == Limit - Cardinality(Kept(now)) - 1

\* The branch count < limit: ZADD, EXPIRE window + 1, {1, limit - count - 1}.
\* Without its reply the call is still "sent".
RunAdmit(r) ==
    /\ outcome[r] = "sent"
    /\ Room(stamp[r])
    /\ zset' = Kept(stamp[r]) \union {stamp[r]}
    /\ expireAt' = Expiry
    /\ entered' = entered \union {r}
    /\ \/ /\ outcome' = [outcome EXCEPT ![r] = "allowed"]
          /\ remaining' = [remaining EXCEPT ![r] = Left(stamp[r])]
       \/ UNCHANGED <<outcome, remaining>>
    /\ UNCHANGED <<clock, stamp>>

\* The other branch: only the eviction is left behind.
RunRefuse(r) ==
    /\ outcome[r] = "sent"
    /\ ~ Room(stamp[r])
    /\ zset' = Kept(stamp[r])
    /\ \/ outcome' = [outcome EXCEPT ![r] = "rejected"]
       \/ UNCHANGED outcome
    /\ UNCHANGED <<clock, expireAt, stamp, remaining, entered>>

\* The call raises, whether or not the script ran: the middleware's caller
\* sees a 500.
Raise(r) ==
    /\ outcome[r] = "sent"
    /\ outcome' = [outcome EXCEPT ![r] = "failed"]
    /\ UNCHANGED <<clock, zset, expireAt, stamp, remaining, entered>>

\* Time passes, but not beyond what Lag allows a request in flight.
Tick ==
    /\ clock < MaxTime
    /\ \A r \in Requests : outcome[r] = "sent" => clock < stamp[r] + Lag
    /\ clock' = clock + 1
    /\ UNCHANGED <<zset, expireAt, stamp, outcome, remaining, entered>>

\* The bounded model stops when every call was made and time is used up.
Finished ==
    /\ clock = MaxTime
    /\ \A r \in Requests : outcome[r] \notin {"idle", "sent"}
    /\ UNCHANGED vars

Next ==
    \/ \E r \in Requests : Send(r) \/ RunAdmit(r) \/ RunRefuse(r) \/ Raise(r)
    \/ Tick
    \/ Finished

Spec == Init /\ [][Next]_vars

-----------------------------------------------------------------------------
\* The types of the variables; the stored set holds only logged stamps and
\* never more than Limit of them, so the key cannot grow (rate_limiter.py:23).
TypeOK ==
    /\ clock \in 0..MaxTime
    /\ zset \subseteq Log
    /\ Cardinality(zset) <= Limit
    /\ expireAt \in Nat
    /\ stamp \in [Requests -> Nat]
    /\ outcome \in [Requests -> {"idle", "sent", "allowed", "rejected", "failed"}]
    /\ remaining \in [Requests -> 0..Limit]
    /\ entered \subseteq {r \in Requests : outcome[r] # "idle"}

\* The sliding window itself (DESIGN.md, Decision 1): in no window of
\* Span - Slack milliseconds, wherever it is placed, are there more than
\* Limit logged milliseconds, although the script only sees what evictions
\* by other hosts' clocks, late scripts, retries and EXPIRE have left.
WindowLimit ==
    \A t \in Log :
        Cardinality({a \in Log : t - (Span - Slack) < a /\ a <= t}) <= Limit

\* Retry-After: window_seconds (middleware/rate_limit.py:53-61) is honest: a
\* client refused at s and refused again at or after s + Span was refused
\* because Limit stamps later than s were logged.
RetryAfterHonoured ==
    \A r, q \in Requests :
        /\ outcome[r] = "rejected" /\ outcome[q] = "rejected"
        /\ stamp[q] >= stamp[r] + Span
        => Cardinality(After(stamp[r])) >= Limit

\* X-RateLimit-Remaining never promises more than the quota still holds: when
\* r is admitted, the promise and the stamps of its shortened window together
\* stay within Limit.
PromiseWithinQuota ==
    [][\A r \in Requests :
          outcome[r] = "sent" /\ outcome'[r] = "allowed" =>
             remaining'[r] + Cardinality({a \in Log' : a > stamp[r] - Span + Slack})
                <= Limit]_vars

\* Eviction, expiry, retries and the clock are invisible: the script
\* implements the sliding log of SlidingWindow.
ImplementsContract == Contract!SWSpec

\* README.md:101 "the sliding window enforces exactly at the configured
\* limit": counted in requests rather than in distinct milliseconds.
RequestLimit ==
    \A q \in Requests :
        Cardinality({r \in entered : /\ stamp[r] > stamp[q] - Span
                                     /\ stamp[r] <= stamp[q]}) <= Limit
=============================================================================
