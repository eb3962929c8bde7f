--------------------------- MODULE AbuseResponse ---------------------------
(***************************************************************************)
(* AbuseDetectorMiddleware, ShadowModeMiddleware, the login handler and    *)
(* the admin routes for soft blocks and shadow mode, over the Redis keys   *)
(* they share: failed_auth:*, blocked_ip:*, config:shadow_mode_enabled and *)
(* shadow_log:*.                                                           *)
(*                                                                         *)
(* Requests of all gateways run concurrently; each await on Redis is one   *)
(* step.  Requests are slots: a finished one may be used again.  Deadlines *)
(* are countdowns that Tick lowers; how long a step takes is not bounded.  *)
(***************************************************************************)
EXTENDS Integers, FiniteSets

CONSTANTS
    Requests,                     \* requests in flight at the same time
    Ips,                          \* client addresses
    Names,                        \* user names: login names and client ids
    Anonymous,                    \* client_id of the public paths
    NoLogin,                      \* the request is not a login
    IpThreshold, UserThreshold,   \* settings.auth_failure_*_threshold
    FailWindow,                   \* settings.auth_failure_window_seconds
    BlockTtl,                     \* SOFT_BLOCK_TTL
    Entropies,                    \* verdicts on timing that occur
    ShadowDefault,                \* settings.shadow_mode_enabled
    MaxRetries,                   \* retries of the Redis client
    MaxAdmin                      \* bound on admin calls

Keys == Ips \union Names \union {Anonymous}

ASSUME AbuseAssumption ==
    /\ IsFiniteSet(Requests) /\ Ips # {}
    /\ NoLogin \notin Keys
    /\ IpThreshold \in Nat \ {0} /\ UserThreshold \in Nat \ {0}
    /\ FailWindow \in Nat \ {0} /\ BlockTtl \in Nat \ {0}
    /\ Entropies \subseteq {"none", "low", "lowest"}
    /\ ShadowDefault \in BOOLEAN
    /\ MaxRetries \in Nat /\ MaxAdmin \in Nat

VARIABLES
    fails, failTtl,   \* failed_auth:k, its value and its time to live
    blockTtl,         \* blocked_ip:ip, its time to live; 0: no such key
    origin,           \* history: who wrote blocked_ip:ip
    flag,             \* config:shadow_mode_enabled
    pc,               \* pc[r]: the await request r stands at
    req,              \* req[r]: what request r carries
    tries,            \* tries[r]: executions of its failure pipeline
    admin             \* admin calls made

redisVars == <<fails, failTtl, blockTtl, origin, flag>>

vars == <<redisVars, pc, req, tries, admin>>

Levels == {"normal", "elevated", "hard"}
States == {"allowed", "throttled", "soft_block"}
Reasons == {"none", "signal", "enforced", "shadow", "admin"}
Answers == {0, 200, 401, 403, 429, 500}
Modes == {"on", "off", "mixed"}

Request == [ip : Ips, client : Names \union {Anonymous},
            login : Names \union {Anonymous, NoLogin},
            level : Levels, state : States, reason : Reasons,
            flagged : BOOLEAN, logged : BOOLEAN, throttled : BOOLEAN,
            answer : Answers, mode : Modes]

ShadowOn == IF flag = "absent" THEN ShadowDefault ELSE flag = "true"

Mode == IF ShadowOn THEN "on" ELSE "off"

NewRequest(ip, client, login) ==
    [ip |-> ip, client |-> client, login |-> login, level |-> "normal",
     state |-> "allowed", reason |-> "none", flagged |-> FALSE, logged |-> FALSE,
     throttled |-> FALSE, answer |-> 0, mode |-> Mode]

Goto(r, step) == pc' = [pc EXCEPT ![r] = step]

\* A response leaves the handler: ShadowModeMiddleware has it next.
Respond(r, status) ==
    /\ req' = [req EXCEPT ![r].answer = status]
    /\ Goto(r, "shadow")

\* An exception that nothing catches: a 500, and no middleware sees it.
Abort(r) ==
    /\ req' = [req EXCEPT ![r].answer = 500]
    /\ Goto(r, "done")

-----------------------------------------------------------------------------
Init ==
    /\ fails = [k \in Keys |-> 0]
    /\ failTtl = [k \in Keys |-> 0]
    /\ blockTtl = [ip \in Ips |-> 0]
    /\ origin = [ip \in Ips |-> "none"]
    /\ flag = "absent"
    /\ pc = [r \in Requests |-> "idle"]
    /\ req = [r \in Requests |->
                NewRequest(CHOOSE ip \in Ips : TRUE, Anonymous, NoLogin)]
    /\ tries = [r \in Requests |-> 0]
    /\ admin = 0

\* A request that passed the outer middleware.  Logins and the other public
\* paths are "anonymous"; elsewhere client_id is the token's user name.
Arrive(r) ==
    /\ pc[r] \in {"idle", "done"}
    /\ \E ip \in Ips, client \in Names \union {Anonymous},
          login \in Names \union {Anonymous, NoLogin} :
          /\ login # NoLogin => client = Anonymous
          /\ req' = [req EXCEPT ![r] = NewRequest(ip, client, login)]
    /\ tries' = [tries EXCEPT ![r] = 0]
    /\ Goto(r, "signals")
    /\ UNCHANGED <<redisVars, admin>>

\* The signals' verdict once no block exists: hard means apply_soft_block.
\* A ratio of 0.7 of a threshold is elevated.
Level(ipCount, userCount, entropy) ==
    IF \/ ipCount >= IpThreshold \/ userCount >= UserThreshold
       \/ entropy = "lowest"
    THEN "hard"
    ELSE IF \/ 10 * ipCount >= 7 * IpThreshold
            \/ 10 * userCount >= 7 * UserThreshold
            \/ entropy = "low"
         THEN "elevated" ELSE "normal"

\* MGET of both counters; the timing samples that follow give any entropy.
ReadSignals(r) ==
    /\ pc[r] = "signals"
    /\ \E entropy \in Entropies :
          req' = [req EXCEPT ![r].level =
                    Level(fails[req[r].ip], fails[req[r].client], entropy)]
    /\ Goto(r, "block")
    /\ UNCHANGED <<redisVars, tries, admin>>

\* A mutant of CheckBlock: hard signals of a blocked client block it anew.
CheckBlockAnew(r) ==
    /\ pc[r] = "block"
    /\ LET hard == req[r].level = "hard"
           blocked == blockTtl[req[r].ip] > 0 IN
       /\ req' = [req EXCEPT
            ![r].state = IF blocked THEN "soft_block" ELSE "allowed",
            ![r].reason = IF blocked THEN origin[req[r].ip] ELSE "signal",
            ![r].level = "normal"]
       /\ Goto(r, IF hard THEN "apply" ELSE "flag")
    /\ UNCHANGED <<redisVars, tries, admin>>

\* compute_abuse_score: EXISTS blocked_ip:ip, then the signals read before.
CheckBlock(r) ==
    /\ pc[r] = "block"
    /\ LET blocked == blockTtl[req[r].ip] > 0
           level == req[r].level IN
       /\ req' = [req EXCEPT
            ![r].state = IF blocked THEN "soft_block"
                         ELSE IF level = "elevated" THEN "throttled" ELSE "allowed",
            ![r].reason = IF blocked THEN origin[req[r].ip]
                          ELSE IF level = "normal" THEN "none" ELSE "signal",
            ![r].level = "normal"]
       /\ Goto(r, IF ~ blocked /\ level = "hard" THEN "apply" ELSE "flag")
    /\ UNCHANGED <<redisVars, tries, admin>>

\* apply_soft_block: SET blocked_ip:ip 1 EX ttl, whatever the shadow mode.
ApplyBlock(r) ==
    /\ pc[r] = "apply"
    /\ blockTtl' = [blockTtl EXCEPT ![req[r].ip] = BlockTtl]
    /\ origin' = [origin EXCEPT
                    ![req[r].ip] = IF ShadowOn THEN "shadow" ELSE "enforced"]
    /\ req' = [req EXCEPT ![r].state = "soft_block"]
    /\ Goto(r, "flag")
    /\ UNCHANGED <<fails, failTtl, flag, tries, admin>>

\* A mutant of ReadFlag: the soft block is enforced before shadow mode is asked.
ReadFlagLate(r) ==
    /\ pc[r] = "flag"
    /\ \/ /\ req[r].state = "soft_block"
          /\ req' = [req EXCEPT ![r].answer = 429]
          /\ Goto(r, "done")
       \/ /\ req[r].state # "soft_block"
          /\ req' = [req EXCEPT ![r].flagged = ShadowOn /\ req[r].state = "throttled"]
          /\ Goto(r, "handler")
    /\ UNCHANGED <<redisVars, tries, admin>>

\* is_shadow_mode_enabled in AbuseDetectorMiddleware, and what follows it.
ReadFlag(r) ==
    /\ pc[r] = "flag"
    /\ \/ /\ ShadowOn /\ req[r].state # "allowed"
          /\ req' = [req EXCEPT ![r].flagged = TRUE]
          /\ Goto(r, "handler")
       \/ /\ ~ ShadowOn /\ req[r].state = "soft_block"
          /\ req' = [req EXCEPT ![r].answer = 429]
          /\ Goto(r, "done")
       \/ /\ ~ ShadowOn /\ req[r].state = "throttled"
          /\ req' = [req EXCEPT ![r].throttled = TRUE]
          /\ Goto(r, "asleep")
       \/ /\ req[r].state = "allowed"
          /\ Goto(r, "handler")
          /\ UNCHANGED req
    /\ UNCHANGED <<redisVars, tries, admin>>

\* apply_throttle is over.
WakeUp(r) ==
    /\ pc[r] = "asleep"
    /\ Goto(r, "handler")
    /\ UNCHANGED <<redisVars, req, tries, admin>>

\* Any route but the login.
Serve(r) ==
    /\ pc[r] = "handler" /\ req[r].login = NoLogin
    /\ Respond(r, 200)
    /\ UNCHANGED <<redisVars, tries, admin>>

\* A mutant of Stuffing: a threshold is refused only once it is passed.
StuffingAbove(r) ==
    \/ fails[req[r].ip] > IpThreshold
    \/ fails[req[r].login] > UserThreshold

Stuffing(r) ==
    \/ fails[req[r].ip] >= IpThreshold
    \/ fails[req[r].login] >= UserThreshold

\* A mutant of LoginCheck: a refused attempt renews the window.
LoginCheckRenews(r) ==
    /\ pc[r] = "handler" /\ req[r].login # NoLogin
    /\ IF Stuffing(r)
       THEN /\ Respond(r, 403)
            /\ failTtl' = [failTtl EXCEPT ![req[r].ip] = FailWindow]
       ELSE Goto(r, "verify") /\ UNCHANGED <<req, failTtl>>
    /\ UNCHANGED <<fails, blockTtl, origin, flag, tries, admin>>

\* is_credential_stuffing: MGET of both counters.
LoginCheck(r) ==
    /\ pc[r] = "handler" /\ req[r].login # NoLogin
    /\ IF Stuffing(r)
       THEN Respond(r, 403)
       ELSE Goto(r, "verify") /\ UNCHANGED req
    /\ UNCHANGED <<redisVars, tries, admin>>

LoginSucceed(r) ==
    /\ pc[r] = "verify"
    /\ tries[r] = 0
    /\ Respond(r, 200)
    /\ UNCHANGED <<redisVars, tries, admin>>

Hits(r, k) == IF k \in {req[r].ip, req[r].login}
              THEN IF req[r].ip = req[r].login THEN 2 ELSE 1
              ELSE 0

\* A mutant of RecordFailure: EXPIRE of the address alone.
RecordFailureIpExpire(r) ==
    /\ pc[r] = "verify"
    /\ fails' = [k \in Keys |-> fails[k] + Hits(r, k)]
    /\ failTtl' = [failTtl EXCEPT ![req[r].ip] = FailWindow]
    /\ tries' = [tries EXCEPT ![r] = @ + 1]
    /\ Respond(r, 401)
    /\ UNCHANGED <<blockTtl, origin, flag, admin>>

\* record_auth_failure: INCR and EXPIRE of both counters in one transaction.
\* If its reply is lost the client sends it again, at most MaxRetries times.
RecordFailure(r) ==
    /\ pc[r] = "verify"
    /\ fails' = [k \in Keys |-> fails[k] + Hits(r, k)]
    /\ failTtl' = [k \in Keys |-> IF Hits(r, k) > 0 THEN FailWindow ELSE failTtl[k]]
    /\ tries' = [tries EXCEPT ![r] = @ + 1]
    /\ \/ Respond(r, 401)
       \/ tries[r] < MaxRetries /\ UNCHANGED <<pc, req>>
       \/ Abort(r)
    /\ UNCHANGED <<blockTtl, origin, flag, admin>>

\* ShadowModeMiddleware, after the response: its own read of the flag.
PostShadow(r) ==
    /\ pc[r] = "shadow"
    /\ Goto(r, IF ShadowOn /\ req[r].flagged THEN "log" ELSE "done")
    /\ UNCHANGED <<redisVars, req, tries, admin>>

\* SET shadow_log:request_id.
LogEvent(r) ==
    /\ pc[r] = "log"
    /\ req' = [req EXCEPT ![r].logged = TRUE]
    /\ Goto(r, "done")
    /\ UNCHANGED <<redisVars, tries, admin>>

\* Redis, the database or the upstream fails at an await: nothing catches it.
Fail(r) ==
    /\ pc[r] \notin {"idle", "done", "asleep"}
    /\ Abort(r)
    /\ UNCHANGED <<redisVars, tries, admin>>

Step(r) ==
    \/ ReadSignals(r) \/ CheckBlock(r) \/ ApplyBlock(r) \/ ReadFlag(r)
    \/ WakeUp(r) \/ Serve(r) \/ LoginCheck(r) \/ LoginSucceed(r)
    \/ RecordFailure(r) \/ PostShadow(r) \/ LogEvent(r) \/ Fail(r)

\* POST and DELETE /admin/soft-block-ip/{ip}.
AdminBlock(ip, ttl) ==
    /\ admin < MaxAdmin
    /\ admin' = admin + 1
    /\ blockTtl' = [blockTtl EXCEPT ![ip] = ttl]
    /\ origin' = [origin EXCEPT ![ip] = IF ttl > 0 THEN "admin" ELSE "none"]
    /\ UNCHANGED <<fails, failTtl, flag, pc, req, tries>>

\* POST /admin/shadow-mode.
AdminShadow(enabled) ==
    /\ admin < MaxAdmin
    /\ admin' = admin + 1
    /\ flag' = IF enabled THEN "true" ELSE "false"
    /\ req' = [r \in Requests |->
                 [req[r] EXCEPT !.mode = IF @ = Mode' \/ pc[r] \in {"idle", "done"}
                                         THEN @ ELSE "mixed"]]
    /\ UNCHANGED <<fails, failTtl, blockTtl, origin, pc, tries>>

Less(ttl) == IF ttl > 0 THEN ttl - 1 ELSE 0

\* Time: Redis removes the keys whose time is over.
Tick ==
    /\ \/ \E k \in Keys : failTtl[k] > 0
       \/ \E ip \in Ips : blockTtl[ip] > 0
    /\ failTtl' = [k \in Keys |-> Less(failTtl[k])]
    /\ fails' = [k \in Keys |-> IF failTtl[k] <= 1 THEN 0 ELSE fails[k]]
    /\ blockTtl' = [ip \in Ips |-> Less(blockTtl[ip])]
    /\ origin' = [ip \in Ips |-> IF blockTtl[ip] <= 1 THEN "none" ELSE origin[ip]]
    /\ UNCHANGED <<flag, pc, req, tries, admin>>

Next ==
    \/ \E r \in Requests : Arrive(r) \/ Step(r)
    \/ \E ip \in Ips, ttl \in {0, BlockTtl} : AdminBlock(ip, ttl)
    \/ \E enabled \in BOOLEAN : AdminShadow(enabled)
    \/ Tick

Spec == Init /\ [][Next]_vars

\* Redis's clock does not stop.  Nothing is assumed about requests.
FairSpec == Spec /\ WF_vars(Tick)

-----------------------------------------------------------------------------
UserKeys == Names \union {Anonymous}

\* Types; a counter has a time to live exactly while it is there, so no
\* lockout outlives its window.
TypeOK ==
    /\ fails \in [Keys -> Nat] /\ failTtl \in [Keys -> 0..FailWindow]
    /\ \A k \in Keys : fails[k] > 0 <=> failTtl[k] > 0
    /\ blockTtl \in [Ips -> 0..BlockTtl]
    /\ origin \in [Ips -> {"none", "enforced", "shadow", "admin"}]
    /\ flag \in {"absent", "true", "false"}
    /\ pc \in [Requests -> {"idle", "signals", "block", "apply", "flag", "asleep",
                            "handler", "verify", "shadow", "log", "done"}]
    /\ req \in [Requests -> Request]
    /\ tries \in [Requests -> 0..(MaxRetries + 1)]
    /\ admin \in 0..MaxAdmin

\* The thresholds that lock counter k: a user may be named like an address.
Thresholds(k) ==
    {t \in {IpThreshold, UserThreshold} : \/ k \in Ips /\ t = IpThreshold
                                          \/ k \in UserKeys /\ t = UserThreshold}

Locked(k) == \A t \in Thresholds(k) : fails[k] >= t

\* One key may count the failures of an address and of a user at once.
Axes(k) == IF k \in Ips \intersect UserKeys THEN 2 ELSE 1

\* How often counter k may still be raised, if all requests are logins.
Pending(k) == Cardinality(Requests) * (Axes(k) * (MaxRetries + 1))

\* The raises of k still to come from the logins past their check: so many
\* runs as each has left, times its hits.
Open(k) ==
    {x \in Requests \X (1..(Axes(k) * (MaxRetries + 1))) :
        /\ pc[x[1]] = "verify"
        /\ x[2] <= Hits(x[1], k) * (MaxRetries + 1 - tries[x[1]])}

\* The check and the record of a login are separate round trips
\* (routers/auth.py:64-88), so concurrent logins overshoot a threshold, but
\* by no more than what the logins in flight can record.
FailureOvershoot ==
    \A k \in Keys : \E t \in Thresholds(k) : fails[k] <= t - 1 + Pending(k)

\* How long a counter can stand at most: its time to live, and a window for
\* each failure still to come.
TimeLeft(k) == failTtl[k] + FailWindow * Cardinality(Open(k))

\* Once a counter is locked nothing gains it time, not even the failures of
\* logins that passed their check before, nor attempts that are refused, so the
\* lockout is over after TimeLeft (routers/auth.py:64-88,
\* services/abuse_detector.py:28-33).
LockoutFades ==
    [][\A k \in Keys : Locked(k) =>
          /\ TimeLeft(k)' <= TimeLeft(k)
          /\ Tick => TimeLeft(k)' < TimeLeft(k)]_vars

\* A lockout ends even if the attempts never stop: refused attempts do not
\* renew the window (routers/auth.py:70-74, services/abuse_detector.py:28-33).
LockoutEnds == \A k \in Keys : []<>(fails[k] = 0)

\* A soft block ends even if the client keeps calling: a blocked client's
\* signals are not scored again (graduated_response.py:95-98).
SoftBlockEnds == \A ip \in Ips : []<>(blockTtl[ip] = 0)

\* The same bound for a soft block, and a block for each request that has been
\* scored and not yet written it.
BlockLeft(ip) ==
    blockTtl[ip] + BlockTtl * Cardinality({r \in Requests : pc[r] = "apply" /\ req[r].ip = ip})

\* While a client is blocked only an admin gains the block time, whatever the
\* client does and however late a request applies what it found before
\* (graduated_response.py:95-124).
BlockFades ==
    [][\A ip \in Ips : blockTtl[ip] > 0 /\ admin' = admin =>
          /\ BlockLeft(ip)' <= BlockLeft(ip)
          /\ Tick => BlockLeft(ip)' < BlockLeft(ip)]_vars

\* The detector's verdict on a request that sees one shadow mode from start to
\* end is either logged or enforced (middleware/abuse_detector.py:67-100,
\* shadow_mode.py:27-49).  In shadow mode the detector neither refuses nor
\* delays anyone, and the verdicts are exactly what is logged.  Otherwise
\* nothing is logged, a soft block is refused before its handler, what is merely
\* suspicious is delayed, and nothing else is.  A 500 may come in between.
\* This is the detector's part only: the login's own check refuses with 403 in
\* either mode, also a request that is logged as merely "would be blocked"
\* (routers/auth.py:64-74), against DESIGN.md:221-222.
VerdictLoggedOrEnforced ==
    \A r \in Requests : pc[r] = "done" =>
        /\ req[r].mode = "on" =>
              /\ req[r].answer # 429 /\ ~ req[r].throttled
              /\ req[r].logged => req[r].state # "allowed"
              /\ req[r].state # "allowed" => req[r].logged \/ req[r].answer = 500
        /\ req[r].mode = "off" =>
              /\ ~ req[r].logged
              /\ req[r].answer = 429 => req[r].state = "soft_block"
              /\ req[r].state = "soft_block" => req[r].answer \in {429, 500}
              /\ req[r].throttled => req[r].state = "throttled"
              /\ req[r].state = "throttled" => req[r].throttled \/ req[r].answer = 500

\* DESIGN.md:221-222 "logs would-be blocks without enforcing them": no request
\* is refused for a block that another request wrote in shadow mode.
WouldBeBlocksNotEnforced ==
    \A r \in Requests :
        pc[r] = "done" /\ req[r].answer = 429 => req[r].reason # "shadow"
=============================================================================
