---------------------------- MODULE GatewayChain ----------------------------
(***************************************************************************)
(* Requests on their way through the middleware of one gateway, and back   *)
(* (app/main.py): RequestID, Auth, BloomFilter, RateLimit, AbuseDetector,  *)
(* ShadowMode, router.  It composes the parts that the other modules have  *)
(* in detail: who answers a request, what the layers before it have        *)
(* charged or counted by then, and what a failure of Redis leaves behind.  *)
(*                                                                         *)
(* The filter is the one the middleware reads, with the entries it is      *)
(* given (BloomSync has its bits and its loading); the quota of a client   *)
(* is its sorted set (RateLimiter has the stamps); the verdict of the      *)
(* AbuseDetector is any one (AbuseResponse has the reasons).               *)
(***************************************************************************)
EXTENDS Naturals, FiniteSets

CONSTANTS
    Requests,   \* each is made once
    Clients,    \* names in valid tokens
    Admins,     \* the ones whose token has the role of an admin
    NoToken,    \* no token, or one that does not decode
    Anonymous,  \* client id on the public paths
    Ips,
    NoIp,
    Limit       \* rate_limit_requests

ASSUME ChainAssumption ==
    /\ IsFiniteSet(Requests)
    /\ Admins \subseteq Clients
    /\ NoToken \notin Clients
    /\ NoIp \notin Ips
    /\ Limit \in Nat \ {0}

VARIABLES
    pc,          \* the layer that has the request
    req,         \* what it asks for, from whom and where
    status,      \* the response on its way back
    by,          \* the layer that answered, or "raised"
    flagged,     \* request.state.shadow_rule
    quota,       \* rate_limit:{client}: the requests with an entry
    filter,      \* the addresses in app.state.bloom
    total,       \* REQUESTS_TOTAL by status
    rejections,  \* RATE_LIMIT_REJECTIONS
    hits,        \* BLOOM_FILTER_HITS
    detections,  \* ABUSE_DETECTIONS by state
    acked,       \* history: addresses whose block-ip call was answered
    late         \* history: requests that came from such an address

vars == <<pc, req, status, by, flagged, quota, filter, total, rejections,
          hits, detections, acked, late>>

counters == <<total, rejections, hits, detections>>

history == <<acked, late>>

(***************************************************************************)
(* "health" stands for the public paths that write nothing and have no     *)
(* limit, "register" has none either, "login" is public and limited,       *)
(* "redoc" wants a token and has no limit, "proxy" stands for the limited  *)
(* routes that write nothing here.  Status 200 stands for every status     *)
(* that no layer gives.                                                    *)
(***************************************************************************)
Public == {"health", "register", "login"}

Excluded == {"health", "register", "redoc"}

Codes == {200, 401, 403, 429}

Verdicts == {"throttled", "soft_block"}

Inputs ==
    [path : Public, token : {NoToken}, ip : Ips, target : {NoIp}]
        \cup [path : {"redoc", "proxy"}, token : Clients \cup {NoToken},
              ip : Ips, target : {NoIp}]
        \cup [path : {"block"}, token : Clients \cup {NoToken},
              ip : Ips, target : Ips]

NoInput == [path |-> "none", token |-> NoToken, ip |-> NoIp, target |-> NoIp]

Client(r) == IF req[r].path \in Public THEN Anonymous ELSE req[r].token

Init ==
    /\ pc = [r \in Requests |-> "idle"]
    /\ req = [r \in Requests |-> NoInput]
    /\ status = [r \in Requests |-> 0]
    /\ by = [r \in Requests |-> "none"]
    /\ flagged = [r \in Requests |-> "none"]
    /\ quota = [c \in Clients \cup {Anonymous} |-> {}]
    /\ filter = {}
    /\ total = [s \in Codes |-> 0]
    /\ rejections = 0
    /\ hits = 0
    /\ detections = [v \in Verdicts |-> 0]
    /\ acked = {}
    /\ late = {}

-----------------------------------------------------------------------------
\* Mutant of Then: the rate limiter is put before the filter.
ThenLimitFirst(layer) ==
    CASE layer = "auth"  -> "limit"
      [] layer = "limit" -> "bloom"
      [] layer = "bloom" -> "abuse"
      [] layer = "abuse" -> "route"

\* The order of add_middleware, read backwards.  ShadowMode does nothing on
\* the way in.
Then(layer) ==
    CASE layer = "auth"  -> "bloom"
      [] layer = "bloom" -> "limit"
      [] layer = "limit" -> "abuse"
      [] layer = "abuse" -> "route"

Forward(r) ==
    /\ pc' = [pc EXCEPT ![r] = Then(pc[r])]
    /\ UNCHANGED <<status, by>>

\* Mutant of Answer: the rate limiter raises its RateLimitExceededError.  The
\* exception handlers of the application are further in, so it gets past
\* RequestID.
AnswerLimitRaises(r, code) ==
    /\ pc' = [pc EXCEPT ![r] = IF pc[r] = "limit" THEN "done" ELSE "count"]
    /\ by' = [by EXCEPT ![r] = IF pc[r] = "limit" THEN "raised" ELSE pc[r]]
    /\ status' = [status EXCEPT ![r] = IF pc[r] = "limit" THEN 500 ELSE code]

\* The layer answers by itself; the layers before it see the response.
Answer(r, code) ==
    /\ pc' = [pc EXCEPT ![r] = IF pc[r] = "route" THEN "shadow" ELSE "count"]
    /\ by' = [by EXCEPT ![r] = pc[r]]
    /\ status' = [status EXCEPT ![r] = code]

Arrive(r) ==
    /\ pc[r] = "idle"
    /\ pc' = [pc EXCEPT ![r] = "auth"]
    /\ \E i \in Inputs :
          /\ req' = [req EXCEPT ![r] = i]
          /\ late' = IF i.ip \in acked THEN late \cup {r} ELSE late
    /\ UNCHANGED <<status, by, flagged, quota, filter, counters, acked>>

Authenticate(r) ==
    /\ pc[r] = "auth"
    /\ IF req[r].path \in Public \/ req[r].token # NoToken
         THEN Forward(r)
         ELSE Answer(r, 401)
    /\ UNCHANGED <<req, flagged, quota, filter, counters, history>>

Screen(r) ==
    /\ pc[r] = "bloom"
    /\ req[r].ip \notin filter
    /\ Forward(r)
    /\ UNCHANGED <<req, flagged, quota, filter, counters, history>>

\* The address is on the list; or the agent is, or either is a false positive.
Deny(r) ==
    /\ pc[r] = "bloom"
    /\ hits' = hits + 1
    /\ Answer(r, 403)
    /\ UNCHANGED <<req, flagged, quota, filter, total, rejections, detections,
                   history>>

LimitSkip(r) ==
    /\ pc[r] = "limit"
    /\ req[r].path \in Excluded
    /\ Forward(r)
    /\ UNCHANGED <<req, flagged, quota, filter, counters, history>>

\* Mutant of Enter: the count is compared before the request is added.
EnterAtLimit(r) ==
    /\ pc[r] = "limit"
    /\ req[r].path \notin Excluded
    /\ Cardinality(quota[Client(r)]) <= Limit
    /\ \E e \in quota[Client(r)] \cup {r} :
          quota' = [quota EXCEPT ![Client(r)] = @ \cup {e}]

\* The request enters the window, or shares the entry of another request of the
\* same client and millisecond.
Enter(r) ==
    /\ pc[r] = "limit"
    /\ req[r].path \notin Excluded
    /\ Cardinality(quota[Client(r)]) < Limit
    /\ \E e \in quota[Client(r)] \cup {r} :
          quota' = [quota EXCEPT ![Client(r)] = @ \cup {e}]

LimitAdmit(r) ==
    /\ Enter(r)
    /\ Forward(r)
    /\ UNCHANGED <<req, flagged, filter, counters, history>>

LimitReject(r) ==
    /\ pc[r] = "limit"
    /\ req[r].path \notin Excluded
    /\ Cardinality(quota[Client(r)]) >= Limit
    /\ rejections' = rejections + 1
    /\ Answer(r, 429)
    /\ UNCHANGED <<req, flagged, quota, filter, total, hits, detections, history>>

\* Time passes and an entry leaves the window of its client.
Slide(c) ==
    /\ \E e \in quota[c] : quota' = [quota EXCEPT ![c] = @ \ {e}]
    /\ UNCHANGED <<pc, req, status, by, flagged, filter, counters, history>>

AbusePass(r) ==
    /\ pc[r] = "abuse"
    /\ Forward(r)
    /\ UNCHANGED <<req, flagged, quota, filter, counters, history>>

Detect(v) ==
    /\ detections' = [detections EXCEPT ![v] = @ + 1]
    /\ UNCHANGED <<total, rejections, hits>>

\* Shadow mode is on: the verdict is for the log, the request goes on.
AbuseFlag(r) ==
    /\ pc[r] = "abuse"
    /\ \E v \in Verdicts :
          /\ Detect(v)
          /\ flagged' = [flagged EXCEPT ![r] = v]
    /\ Forward(r)
    /\ UNCHANGED <<req, quota, filter, history>>

AbuseRefuse(r) ==
    /\ pc[r] = "abuse"
    /\ Detect("soft_block")
    /\ Answer(r, 429)
    /\ UNCHANGED <<req, flagged, quota, filter, history>>

AbuseThrottle(r) ==
    /\ pc[r] = "abuse"
    /\ Detect("throttled")
    /\ Forward(r)
    /\ UNCHANGED <<req, flagged, quota, filter, history>>

\* Redis not answering the ping is a line of the answer.
Health(r) ==
    /\ pc[r] = "route"
    /\ req[r].path \in {"health", "redoc"}
    /\ Answer(r, 200)
    /\ UNCHANGED <<req, flagged, quota, filter, counters, history>>

\* 201, or 409 for a name that is taken.  A taken e-mail address, or a database
\* that is down, raises (Fail).
Register(r) ==
    /\ pc[r] = "route"
    /\ req[r].path = "register"
    /\ Answer(r, 200)
    /\ UNCHANGED <<req, flagged, quota, filter, counters, history>>

Proxy(r) ==
    /\ pc[r] = "route"
    /\ req[r].path = "proxy"
    /\ Answer(r, 200)
    /\ UNCHANGED <<req, flagged, quota, filter, counters, history>>

Login(r) ==
    /\ pc[r] = "route"
    /\ req[r].path = "login"
    /\ \E code \in {200, 401, 403} : Answer(r, code)
    /\ UNCHANGED <<req, flagged, quota, filter, counters, history>>

\* require_admin: the token is not an admin's, or has expired on the way.
AdminRefuse(r) ==
    /\ pc[r] = "route"
    /\ req[r].path = "block"
    /\ \/ Answer(r, 401)
       \/ req[r].token \notin Admins /\ Answer(r, 403)
    /\ UNCHANGED <<req, flagged, quota, filter, counters, history>>

\* Mutant of BlockIp: the entry goes to Redis only, for the next reload.
BlockIpStoreOnly(r) ==
    /\ pc[r] = "route"
    /\ req[r].path = "block"
    /\ req[r].token \in Admins
    /\ Answer(r, 200)
    /\ UNCHANGED <<req, flagged, quota, filter, counters, history>>

BlockIp(r) ==
    /\ pc[r] = "route"
    /\ req[r].path = "block"
    /\ req[r].token \in Admins
    /\ filter' = filter \cup {req[r].target}
    /\ Answer(r, 200)
    /\ UNCHANGED <<req, flagged, quota, counters, history>>

\* ShadowMode reads its flag after every response of the router and logs the
\* flagged ones.
Shadow(r) ==
    /\ pc[r] = "shadow"
    /\ pc' = [pc EXCEPT ![r] = "count"]
    /\ UNCHANGED <<req, status, by, flagged, quota, filter, counters, history>>

\* RequestID counts the response and sends it.
Count(r) ==
    /\ pc[r] = "count"
    /\ pc' = [pc EXCEPT ![r] = "done"]
    /\ total' = [total EXCEPT ![status[r]] = @ + 1]
    /\ acked' = IF req[r].path = "block" /\ status[r] = 200
                  THEN acked \cup {req[r].target}
                  ELSE acked
    /\ UNCHANGED <<req, status, by, flagged, quota, filter, rejections, hits,
                   detections, late>>

\* The places where the layer of r awaits Redis or the database.
Awaits(r) ==
    \/ pc[r] = "limit" /\ req[r].path \notin Excluded
    \/ pc[r] \in {"abuse", "shadow"}
    \/ pc[r] = "route" /\ req[r].path \in {"register", "login", "block"}

\* An exception of an await passes through all layers, RequestID included.
Raise(r) ==
    /\ pc' = [pc EXCEPT ![r] = "done"]
    /\ by' = [by EXCEPT ![r] = "raised"]
    /\ status' = [status EXCEPT ![r] = 500]
    /\ UNCHANGED <<req, flagged, filter, counters, history>>

Fail(r) ==
    /\ Awaits(r)
    /\ Raise(r)
    /\ UNCHANGED quota

\* The script has run and its reply is lost.
LimitLost(r) ==
    /\ Enter(r)
    /\ Raise(r)

Finished ==
    /\ \A r \in Requests : pc[r] = "done"
    /\ UNCHANGED vars

Next ==
    \/ \E r \in Requests :
          \/ Arrive(r) \/ Authenticate(r) \/ Screen(r) \/ Deny(r)
          \/ LimitSkip(r) \/ LimitAdmit(r) \/ LimitReject(r) \/ LimitLost(r)
          \/ AbusePass(r) \/ AbuseFlag(r) \/ AbuseRefuse(r) \/ AbuseThrottle(r)
          \/ Health(r) \/ Register(r) \/ Proxy(r) \/ Login(r)
          \/ AdminRefuse(r) \/ BlockIp(r)
          \/ Shadow(r) \/ Count(r) \/ Fail(r)
    \/ \E c \in Clients \cup {Anonymous} : Slide(c)
    \/ Finished

Spec == Init /\ [][Next]_vars

-----------------------------------------------------------------------------
\* Types, and the window holds no more than the limit however many requests of
\* a client are between the layers.
TypeOK ==
    /\ pc \in [Requests -> {"idle", "auth", "bloom", "limit", "abuse", "route",
                            "shadow", "count", "done"}]
    /\ req \in [Requests -> Inputs \cup {NoInput}]
    /\ \A r \in Requests : pc[r] # "idle" => req[r] \in Inputs
    /\ status \in [Requests -> Codes \cup {0, 500}]
    /\ \A r \in Requests : pc[r] \in {"shadow", "count"} => status[r] \in Codes
    /\ by \in [Requests -> {"none", "auth", "bloom", "limit", "abuse", "route",
                            "raised"}]
    /\ flagged \in [Requests -> Verdicts \cup {"none"}]
    /\ quota \in [Clients \cup {Anonymous} -> SUBSET Requests]
    /\ \A c \in Clients \cup {Anonymous} : Cardinality(quota[c]) <= Limit
    /\ filter \subseteq Ips
    /\ total \in [Codes -> Nat]
    /\ rejections \in Nat
    /\ hits \in Nat
    /\ detections \in [Verdicts -> Nat]
    /\ acked \subseteq Ips
    /\ late \subseteq Requests

\* A window holds requests of its own client only, and only such as have got
\* past the token check, the filter and the limit itself: what one of these
\* turns away costs its client nothing, and cannot prolong its lockout
\* (middleware/auth.py:34, 44; bloom_filter.py:29, 36; rate_limit.py:57).
Charged(r, c) ==
    /\ c = Client(r)
    /\ req[r].path \notin Excluded
    /\ req[r].path \in Public \/ c \in Clients
    /\ pc[r] \in {"abuse", "route", "shadow", "count", "done"}
    /\ by[r] \notin {"auth", "bloom", "limit"}

DeniedCostsNothing ==
    \A c \in Clients \cup {Anonymous} : \A r \in quota[c] : Charged(r, c)

\* Once a block-ip call is answered, no request that comes from the address
\* gets past the filter: none waits for Redis, is charged or reaches a route,
\* on any path, and although the other layers may be failing (routers/admin.py:31-33).
NoServiceAfterBlock ==
    \A r \in late :
        /\ pc[r] \notin {"limit", "abuse", "route", "shadow"}
        /\ by[r] \in {"none", "auth", "bloom"}

\* The counters tell one story at every moment: the requests turned away, as
\* the limiter, the filter and the detector count them, are the responses with
\* their status, as RequestID counts them, and those on their way; what raised
\* is in none of them (core/metrics.py:25-48).
Answers(layer, code) ==
    {r \in Requests : by[r] = layer /\ status[r] = code}

OnTheWay(code) ==
    {r \in Requests : pc[r] \in {"shadow", "count"} /\ status[r] = code}

SoftFlagged == {r \in Requests : flagged[r] = "soft_block"}

CountersAddUp ==
    /\ total[429] + Cardinality(OnTheWay(429)) + Cardinality(SoftFlagged)
         = rejections + detections["soft_block"]
    /\ total[403] + Cardinality(OnTheWay(403))
         = hits + Cardinality(Answers("route", 403))
    /\ total[200] + total[401] + total[403] + total[429]
         + Cardinality({r \in Requests : by[r] = "raised"})
         = Cardinality({r \in Requests : pc[r] = "done"})
=============================================================================
