# A TLA+ model of the API gateway

The gateway is a FastAPI application (`app/`): every request passes a chain of
middleware that authenticates it, screens it against block lists, limits its
rate and scores its client's behaviour. Several gateway processes share one
Redis. This directory holds TLA+ modules for its core, the TLC configurations
that check them, and theorems about them checked by TLAPS.

Line numbers refer to the source files as they are in this commit.

## 1. Inventory

| Part | State | Operations | Hard behaviour | Correct when |
|---|---|---|---|---|
| Rate limiter (`services/rate_limiter.py`, `middleware/rate_limit.py`) | sorted set `rate_limit:{client}` in Redis, with a deadline | `check_rate_limit` (a Lua script) | gateway clocks against Redis's clock, scripts out of order, lost replies and replays, `EXPIRE` | no window holds more than the limit; `Retry-After` and `X-RateLimit-Remaining` are honest |
| Block lists (`services/bloom_filter.py`, `workers/bloom_sync.py`, `middleware/bloom_filter.py`) | sets `known_bad_ips`, `abusive_agents` in Redis; two Bloom filters in each `BloomFilterService`; one service in `app.state`, one in the worker | reload, block-ip, block-agent, screening | a reload of two awaits against admin calls; crash between `SADD` and the add; failing reloads | an answered block is enforced, at once and after restarts, and is not undone by a reload; nobody is denied for half a reload |
| Abuse detection (`services/abuse_detector.py`, `middleware/abuse_detector.py`) | counters `failed_auth:{ip or name}` with a deadline, samples `request_times:{client}` | read signals, `record_auth_failure`, `is_credential_stuffing` | check-then-act in the login, replayed transactions, samples of skewed hosts out of order | counters overshoot by a known amount, lockouts end and new attempts do not renew them; the newest samples are judged, and only regular ones |
| Graduated response (`services/graduated_response.py`) | key `blocked_ip:{ip}` with a deadline | score, apply, lift, throttle | signals read long before they are scored | soft blocks end, and new requests do not renew them |
| Shadow mode (`middleware/shadow_mode.py`, `services/shadow_logger.py`, `core/redis_client.py`) | flag `config:shadow_mode_enabled`, entries `shadow_log:{request}` | toggle, two reads per request, log, statistics | the toggle between the reads, blocks that outlive the mode, refusals that never ask for it | what the detector finds is enforced or logged, never both |
| Login, registration (`routers/auth.py`, `models/user.py`) | table `users` | login, register | lookup, then insert; a role read before `verify_password` and used after it | registration is one step for its callers: answered ones stand and are distinct, and nothing comes after an answer |
| Admin routes (`routers/admin.py`) | none of their own | block-ip, block-agent, soft-block, lift, shadow-mode, two reads | run concurrently with everything | see the parts they write |
| Lifespan (`main.py`), Redis connection (`core/redis_client.py`) | `app.state.redis`, `app.state.bloom`, the worker task | start with retries, stop | Redis up late; a worker cancelled anywhere; requests in flight at the end | a slow Redis is found; nothing uses Redis once its closing began; a shutdown ends after the last request |
| Authentication and roles (`middleware/auth.py`, `core/security.py`, `dependencies.py`) | none; role, name and expiry are in the token | issue, decode, require_admin | the role claim outlives a change of role; a token expires on its way through the chain | an admin's power ends soon after the role |
| Request id and metrics (`middleware/request_id.py`, `core/metrics.py`) | Prometheus counters of each process | count a response, a rejection, a hit, a detection | responses and exceptions pass the layers that count in different places | the counters tell one story |
| The chain (`main.py:92-99`, all of `middleware/`) | the order of the layers | pass on, answer, raise | a layer's await fails after outer layers have charged the client | what the token check, the filter or the limiter turns away costs its client nothing (the detector's refusals are charged, they come later); a blocked address gets no service |
| Logging, upstream route, configuration | - | - | - | - |

How the parts interact. The chain is RequestID, Auth, BloomFilter, RateLimit,
AbuseDetector, ShadowMode, router (`main.py:92-99`); each calls the next and
sees its response. They share state through `request.state` (`client_id` from
Auth, `client_ip` from BloomFilter, `shadow_rule` from AbuseDetector to
ShadowMode) and through Redis: the login handler writes the counters that the
AbuseDetector of later requests reads, the AbuseDetector writes the soft block
that it reads itself, admin routes write the lists, the blocks and the flag.
A process is one asyncio loop, so what lies between two awaits is one step and
every await on Redis is a point where other requests, other processes and the
worker may run. Redis runs one command, script or transaction at a time.

## 2. Modules

| Module | Models | Extends |
|---|---|---|
| `SlidingWindow` | abstract contract of the rate limiter: a log and two rules | |
| `RateLimiter` | the script, its callers, clocks, expiry, replays; INSTANCEs `SlidingWindow` | |
| `RateLimiterProofs` | theorems of `RateLimiter` | `RateLimiter`, TLAPS |
| `BlockLists` | abstract contract of the block lists: what is listed, answered and denied | |
| `BloomSync` | the block lists in Redis, the services of every process, reloads, admin calls; INSTANCEs `BlockLists` | |
| `BloomSyncProofs` | theorems of `BloomSync` | `BloomSync`, TLAPS |
| `AbuseResponse` | the request path through AbuseDetector, login and ShadowMode, with counters, soft blocks and the flag | |
| `AbuseResponseProofs` | theorems of `AbuseResponse` | `AbuseResponse`, TLAPS |
| `Registry` | abstract contract of registration: an account in one step, then a reply | |
| `Accounts` | the users table, registration, login, tokens, `require_admin`; INSTANCEs `Registry` | |
| `AccountsProofs` | theorems of `Accounts` | `Accounts`, TLAPS |
| `NewestSamples` | abstract contract of the timing samples: all stamps remembered, the newest shown | |
| `TimingSamples` | the timing samples of a client and the verdict on them; INSTANCEs `NewestSamples` | |
| `FiniteSums` | lemmas about sums over finite sets | FiniteSetsExt, TLAPS |
| `TimingSamplesProofs` | theorems of `TimingSamples` | `TimingSamples`, `FiniteSums`, TLAPS |
| `Lifespan` | the life of a process: connecting, first load, worker, requests, shutdown | |
| `LifespanProofs` | theorems of `Lifespan` | `Lifespan`, TLAPS |
| `GatewayChain` | requests through all layers of one gateway and back, composing the parts above | |
| `GatewayChainProofs` | theorems of `GatewayChain` | `GatewayChain`, TLAPS |
| `MCRateLimiter`, `MCBloomSync`, `MCAbuseResponse`, `MCAccounts`, `MCTimingSamples`, `MCGatewayChain` | symmetry and constants for TLC | the module named |

Definitions called a mutant in their comment (`RoomAtLimit`,
`ContentsSwapped`, ...) are no part of the models. Each is the definition that
follows it with a plausible bug, and shows that the property it is paired with
in `PROJECT.json` notices that bug.

### RateLimiter

`Send` is the Python side (`now`, the await), `RunAdmit` and `RunRefuse` are
the two branches of the script, which Redis runs atomically; `Raise` is a call
that gives up. A lost reply leaves the call in `"sent"`, and the Redis client
may then run the same script again, or raise. The member is
`"{now}-{client_id}"`; inside one key it is determined by `now`, so the sorted
set is a set of stamps. `Kept` is `ZREMRANGEBYSCORE` with its inclusive bound.
`Stored` applies `EXPIRE`; `Room`, `Expiry` and `Left` are the script's
comparison, its deadline and the second component of its reply. `Lag` and `Lead` bound how far a stamp is behind or
ahead of Redis's clock when its script runs; the code relies on such a bound
without naming it, and `Slack`, their sum, is what the promises lose by it.

`SlidingWindow` knows neither eviction nor expiry nor the clock: a request may
enter while fewer than `Limit` stamps lie in the window shortened by `Slack`,
and may be refused only when `Limit` stamps lie in the whole window.
`RateLimiter` implements it with the same `stamp`, `outcome` and `entered`
(`entered` is a history variable), named in its INSTANCE ... WITH.

### BloomSync

A filter is the set of its set bits and `Hash[e]` the positions of `e`, so
false positives are real ones. `Start`, `ReadIps`, `ReadAgents` and `Rebuild`
are the lifespan's first reload; afterwards the same reload belongs to the
worker, between `Wake`s. `Rebuild` writes `live` (`app.state.bloom`) at startup
and `worker` later, because `bloom_sync_worker` creates a service of its own
(`workers/bloom_sync.py:29`).

A filter also has a capacity. `pybloom_live` counts the adds that set a bit and
its `add` raises once the count has passed the capacity; the library is outside
`app/` and modelled from that use. `Rebuild` therefore takes the entries in any
order (`Orders`), makes the adds up to the first that raises (`Made`), and the
loop over the agents is reached only if the one over the addresses did not
raise (`Contents`). A raising rebuild ends a startup (`Stop`) and leaves the
worker with a part of the list (`Refresh`); an admin call that raises leaves
its entry in Redis, unanswered (`BlockAdd`). `BlockSadd` and `BlockAdd` are the two halves of
an admin call around its await. `Stop` is a crash or a shutdown; `ReloadFail`
is an exception of Redis, which ends a startup and which the worker survives.
`acked` and `due` are history: answered blocks, and those a process owes.

`BlockLists` is what admins and clients see. An admin call lists its entry and
is answered; from then on its gateway denies the entry as long as it serves, and
a gateway that starts later denies it too. Beyond these blocks it may deny what a
filter of the list cannot tell from them (`Cover`), and what it denies changes at an
answer, at the start and at the end of a process only. There are no replies, reloads and workers in it: `BloomSync`
implements it with `Denials`, what the live filters contain, for `denied`.

### AbuseResponse

A request is a slot with a program counter, one value per await. `Arrive` is a
request that reaches the AbuseDetector; `ReadSignals` its MGET; `CheckBlock` and
`ApplyBlock` the two awaits of `compute_abuse_score`; `ReadFlag` the first read
of the flag and the decision; `LoginCheck`, then `LoginSucceed` or
`RecordFailure`, the login; `PostShadow` and `LogEvent` ShadowModeMiddleware.
`Fail` is an exception at any await, which becomes a 500 that no middleware
handles. `AdminBlock`, `AdminShadow` are the admin routes. `Tick` lowers all
times to live. Timing entropy is an arbitrary verdict from `Entropies`. Login
names, client ids and addresses share one key space in Redis
(`failed_auth:{...}`), and the model keeps that: `Keys` is their union, and the
sets may overlap; one failure then counts twice (`Hits`). `Open`, `Pending`,
`TimeLeft` and `BlockLeft` are quantities the properties speak of. `origin` and the fields `reason`,
`mode` are history; a request's `mode` is the shadow mode it has seen, `"mixed"`
if it was switched on its way. Only the detector and ShadowModeMiddleware ask for the
mode: `LoginCheck` refuses whatever it is, as the code does, so
`VerdictLoggedOrEnforced` is about what the detector does with its verdict.

### Accounts

`Lookup`, `Insert` and `Refresh` are `register` between its awaits on the
database; `Insert` is the commit, where the unique columns are checked, and
`Refresh` the reload of the row and the reply. `Fail` after the commit is a 500
for an account that exists. `Fetch` and `Issue` are the halves of
`login` around `verify_password`, which runs in a thread; the token gets the
role of the row as it was fetched. `Authenticate` and `RequireAdmin` decode
the token of an admin call, each on its own, with the rate limiter, the
detector and a throttle between them. `SetRole` is the operator's `UPDATE`
(`README.md:145-151`). A request runs once and keeps its answer, so what is said
of it holds for good. The failure counters of a login are in `AbuseResponse`.
`Registry` has one step that makes an account and one that replies; `Accounts`
implements it with the rows without their roles for `accounts`.
`Skew` and `LoginTime` bound the hosts' clocks and `verify_password`; the code
names neither bound. `held` and `at` are history.

### TimingSamples

`Send`, `Record` and `Read` are `record_request_timing` up to its await, its
transaction (`ZADD`, `ZREMRANGEBYRANK`, `EXPIRE`) and the `ZRANGE` of
`compute_timing_entropy`. Member and score of a sample are its stamp, so the
sorted set is a set of stamps. Stamps come from clocks that differ from
Redis's by up to `Skew`; a transaction whose reply is lost may run again.
`Trim` is the removal by rank. `StdevBelow` is `statistics.stdev` of the gaps
compared with a threshold, squared and multiplied out to stay in the integers;
`Verdict` is what `compute_abuse_score` makes of it, at the threshold and at half of it.
`NewestSamples` never trims: it remembers all stamps until none came for `Ttl`,
and shows the newest. `log` and the mapping `quiet <- Ttl - ttl` link the two.

### Lifespan

`Connect`, `Refused`, `Sleep` and `StartupFails` are `create_redis_client` with
its five attempts and doubled delays, a second at a time, against a Redis that
takes connections from second `redisAt` on. `Serve` creates the worker after
the first load. `Terminate` is the server's signal, `Shutdown` the lifespan
resumed when no request is left, `WorkerCancelled` the `CancelledError` that
`except Exception` lets through, `CloseRedis` and `Stop` the end. Failures after
`CloseRedis` are not distinguished.

### GatewayChain

A request is a program counter over the layers. `Authenticate`, `Screen` and
`Deny`, `LimitSkip`, `LimitAdmit` and `LimitReject`, `AbusePass`, `AbuseFlag`,
`AbuseRefuse` and `AbuseThrottle` are the layers inwards; `Health`, `Register`,
`Proxy`, `Login`, `AdminRefuse` and `BlockIp` the routes; `Shadow` and `Count` the
layers that act on the way out. `Then` is the order of `add_middleware`, read
backwards. `Fail` is an exception of any await, `LimitLost` one of the limiter
after its script ran; both pass every layer, because
the application's exception handlers (`main.py:71-90`) run further in than its
middleware, so the request is neither counted nor given its `X-Request-ID`. The parts are present
through what they do to a request: the filter is the set of addresses it was
given, a window is the set of requests with an entry (a request may share the
entry of another of the same millisecond), the detector's verdict is any.
`Slide` lets entries leave a window. `acked` and `late` are history.

## 3. Runs and bounds

| Run | Question | Bounds | Result |
|---|---|---|---|
| `rate_window` | the window limit, size of the key, `Retry-After`, `X-RateLimit-Remaining`, the abstract contract | 4 requests, limit 2, window 6 ms (3 s of 2 ms), hosts 1 ms fast or slow, 10 ms: the window passes, the key expires and comes back | holds |
| `rate_per_request` | the limit counted in requests | 3 requests, limit 2 | violated |
| `bloom_restart` | answered blocks, no invented block, the abstract contract, types | 2 gateways, 1 address, 1 agent, which share a bit, 1 call in flight per gateway | holds |
| `bloom_reload` | calls during reloads, rebuilds that raise half way, the worker catches up | 1 gateway, 3 addresses that share bits and a filter with capacity 1, so that the third add raises; 1 call in flight | holds |
| `bloom_converge` | all gateways enforce a block in the end | 2 gateways, 1 address | violated |
| `abuse_requests` | overshoot of the counters, types, the detector's verdict logged or enforced | 2 requests, thresholds 2, 1 address that is also a user name, all verdicts, each transaction replayed once at most, counters live for 1, blocks for 2, 1 admin call; shadow mode on at first, so that the login check may be the only guard | holds |
| `abuse_expiry` | lockouts and soft blocks end and only run down | 2 requests, 1 address, thresholds 2 and 3, windows of 2, shadow mode off at first, one admin call (toggle, block or lift) | holds |
| `accounts` | registrations, their abstract contract, types, how long an admin's power lasts | 3 requests of any kind, 2 names, 2 addresses, 2 passwords, a token lives to the end of its second, logins take up to 1 s, clocks differ by up to 1 s, 3 s | holds |
| `abuse_shadow_leftover` | would-be blocks are not enforced | 1 request | violated |
| `timing` | the newest samples are shown, only regular ones judged | 2 calls that repeat, 4 samples, the key lives 2 ms, hosts 1 ms fast or slow, 4 ms, threshold 1 | holds |
| `lifespan` | slow starts of Redis, order of the shutdown, its end after the last request | 5 attempts as in the code, Redis up at any second from 0 to 17 (or too late), 2 requests in flight | holds |
| `chain` | what the layers charge, deny and count fits together | 2 requests of any kind, an admin and a user, 2 addresses, limit 1, failures of every await | holds |

The bounds let the cases that matter happen: the limit and every threshold are reached,
passed by concurrent requests, and left again by expiry, for counters of one
kind and for one that counts both kinds; a window passes
completely; a process restarts while a call is in flight on it and on the
other; a window is full and empties; a filter is full. The lists of `bloom_restart` fit
their filters; `bloom_reload` has one that does not. Four samples let one be trimmed and still leave
three gaps to judge. Two requests in `chain` are one that blocks and one that
comes late, or one that fills the window of the other; a third makes the run
too long, and the theorems of section 5 hold for any number. In `accounts` a token
is good for two seconds of the three (its own and, on a slow host, the next); what
an operator or the clock does after the last answer is not explored (`Open`), since
no property looks at it. Symmetry is used for requests and gateways, in runs without liveness
properties only. Deadlock is checked in every run; `Finished` is the
end of a bounded run in which no request is left.

Fairness. `BloomSync`: the event loop resumes a task that can run (weak
fairness of `Wake`, `BlockAdd`), and Redis answers again and again although
reloads may fail in between (strong fairness of the three reload steps, which
`ReloadFail` disables); `Stop`, `Start` and admin calls are not fair.
`Lifespan`: the loop delivers a cancellation and resumes the lifespan (weak
fairness of `WorkerCancelled`, `Shutdown`, `CloseRedis`, `Stop`). Nothing is
assumed about requests (`Reply` is not fair): they await Redis through the same client
as the worker, which has no socket timeout (`core/redis_client.py:22-26`), and a client
that hangs up does not cancel its handler. `ShutdownEnds` therefore speaks of
the shutdown from the moment the last request has ended; from there it ends even if
the worker stands in a reload that Redis never answers.
`AbuseResponse`: only Redis's clock goes on (`Tick`); nothing is assumed about
requests, which may call for ever or hang.

## 4. What the violated runs show

1. `rate_per_request`: `README.md:101-102` says the production run "confirmed the
   sliding window enforces exactly at the configured limit". Requests of one
   client with the same millisecond share one member of the sorted set
   (`rate_limiter.py:59`), so they count once. What holds is `WindowLimit`:
   the limit in distinct milliseconds.
2. `bloom_converge`: `workers/bloom_sync.py:25-27` (also `DESIGN.md:141-142` and
   `middleware/bloom_filter.py:16-17`) promises that all instances converge within one
   sync interval. The worker refreshes its own service, and the one the
   middleware reads is loaded at startup only. What holds is
   `AckedBlockEnforced`: the answering gateway and those started later.
3. `abuse_shadow_leftover`: `DESIGN.md:221-222` says shadow mode logs would-be blocks
   "without enforcing them". The block is written whatever the mode and is
   enforced once the mode is off.

A second disagreement with the same sentence, "All enforcement rules have a
runtime-togglable shadow mode that logs would-be blocks without enforcing them"
(also `README.md:78-79`, `CONTRIBUTING.md:82`, `services/shadow_logger.py:17-18` and
`middleware/abuse_detector.py:67`, "log but never enforce"), is in the model and has no run of
its own: **the login refuses in shadow mode**. Its check of the counters
(`routers/auth.py:64-74`) never asks for the mode. With shadow mode on all the
time, the detector finds an address or the client id of the login at its failure
threshold, lets the login pass and flags it; the login's check finds the same
counter and answers 403 (`LoginCheck`); and ShadowModeMiddleware logs the request
as one that would be blocked (`LogEvent`). The rate limiter's 429
(`middleware/rate_limit.py:57-61`) and the filter's 403
(`middleware/bloom_filter.py:28-40`) do not ask for the mode either, and are not logged. What
holds is `VerdictLoggedOrEnforced`, for the detector alone.

Other differences met while reading, without a run: the two branches of
migrations that `1130f7259f8a` merges both create the table `users`
(`4d6b8b0f3f62`, `e5e33863a297`), so `alembic upgrade head` (`start.sh:3`) cannot run
both on an empty database; `Accounts` starts from the table as `e5e33863a297`
and the model declare it. Nothing reads `is_active`; a client that goes on after
a soft block never "escalates to a hard block" (`graduated_response.py:51-52`;
nothing calls `add_ip_to_redis` but the admin route); a soft block an admin
lifts is written again by the client's next request while its counter is still
at the threshold; concurrent logins of one address pass the check together and
fail past the threshold (`routers/auth.py:64, 84`, against
`tests/load/scenarios/credential_stuffer.py:11`; what holds is
`FailureOvershoot`); a request that is let through in shadow mode is not logged
when the mode is switched off before its second read
(`middleware/shadow_mode.py:28`, against `services/shadow_logger.py:17-18`; what
holds is `VerdictLoggedOrEnforced`); all public paths share the client id `anonymous`, hence one
rate limit and one set of timing samples, so that the "at least 3 requests from
a client" of `DESIGN.md:325` may be three of three clients.

`middleware/rate_limit.py:31-32` says health checks are reachable "regardless of
client abuse score"; the AbuseDetector, one layer further in, refuses a blocked
address on every path. The same layer reads Redis, so when Redis is down
`/health` raises before it reaches the branch that reports `"error"`
(`main.py:111-112`). `DESIGN.md:330-331` (also 275) says a demoted admin keeps power
until the token expires, "up to 30 minutes"; a login that fetched its row
before the demotion creates its token after it (`routers/auth.py:79-95`), and the 30
minutes start then (what holds is `AdminRecently`). `core/metrics.py:27` calls
`REQUESTS_TOTAL` the "Total HTTP requests processed" and
`middleware/request_id.py:12-17` says every request gets an id and is counted; a
request whose handling raises is neither (what holds is `CountersAddUp`).
ShadowMode reads its flag after every response, flagged or not, so a failure of
Redis there turns a served request, or an applied block, into a 500.
A shutdown waits for its requests without a limit: uvicorn runs without a
graceful-shutdown timeout (`start.sh:6`), and a request that awaits a Redis that never
answers does not end (`core/redis_client.py:22-26`), so neither does the process until
it is killed (what holds is `ShutdownEnds`, from the last request on).
`workers/bloom_sync.py:36-39` says a failed sync leaves the filter in its "last
known state"; a rebuild that raises half way leaves a part of the list
(the worker's filters screen nothing, so nobody is let through by it).
`RateLimitExceededError` is built and never raised (`middleware/rate_limit.py:27`).

## 5. Proofs

TLAPS checks the following for every value of the constants that satisfies the
named assumption of the module (`RateAssumption`, `BloomAssumption`,
`AbuseAssumption`, `AccountsAssumption`, `TimingAssumption`,
`LifespanAssumption`, `ChainAssumption`).

`RateLimiterProofs`. The inductive invariant `Inv` adds to the types what the
properties rest on: stamps of calls in flight are within `Lag` and `Lead` of the
clock, no logged stamp leads the clock by more than `Lead`, the key expires no earlier
than a window after every stored stamp, and every logged stamp that a script still running
may have to count is still stored (what was evicted is old by at least a
window, less the skew). Neither `WindowLimit` nor `RetryAfterHonoured` is
inductive without it. `KeptBetween` and `KeptCounts` turn it into: the script
counts a set between the stamps of the shortened window and those of the whole
one. From that follow `WindowHolds`, `RetryAfterHolds`, `PromiseHolds` and
`Refinement` (`StepRefines`: each action is a step of `SlidingWindow` or a
stutter). `SMTT`/`Zenon` leaves reason about cardinalities with the library's
theorems about finite sets.

`FiniteSums` has no constants. Each theorem below is about the specification
`Spec`, without fairness.

`BloomSyncProofs`. `AckedBlockEnforced` needs: answered entries are in Redis, a
reload that has read a list while its process starts holds at least what the
process owes, and a serving process's live filters contain every entry it owes;
`NoInventedBlock` needs that what a reload has read is still in Redis. Both use
that lists in Redis only grow. `ContentsFacts` says what a rebuild leaves in a
filter, whatever the order and wherever it raises: never more than the entries
read, and all of them if it is complete; `RebuildCases` and `AddCases` split the two actions
that may raise. `Refinement` (each process for itself): `Start` begins, a rebuild that
completes makes ready (`RefinesServe`, where the two invariants give what is owed
and what is covered), every way to end is `End`, `BlockSadd` lists, `Add` answers;
reads, refreshes of the worker, its failures and an `add` that raises change
nothing of what is seen (`Unseen`).

`AbuseResponseProofs`. Three invariants over one type invariant (`TInv`: the
types, that a counter exists exactly while it has a deadline, and `TriesBound`,
how often a failure pipeline can have run where its request stands).
`FailureOvershoot` is not inductive, because it says nothing of the logins that
have passed the check and not yet recorded. `OInv` counts them: `Open(k)` is the
set of pairs (request at `"verify"`, number of a raise of `k` it may still make), and
`Within` bounds `fails[k] + Cardinality(Open(k))`. Passing the
check opens at most `Pending(k)` pairs while `fails[k]` is below a threshold, each
run of the pipeline closes as many pairs as it adds failures (`RecordCloses`), and
everything else only closes pairs (`OpenShrinks`). This holds for a key on both
axes too: a run may add two (`Hits`), and its bound is that of the higher threshold,
since a login that meets the key on one axis is held to that axis's threshold.

The same set bounds a lockout. `LockoutFades` says that once the counter has
reached all its thresholds `TimeLeft`, its time to live and a window for each open
raise, never grows and falls with every tick: the check refuses whoever comes now
(`RefusedLogin`), and who passed it before pays a pair for each renewal
(`LockoutStep`; `Windows` multiplies it out). `BlockFades` says the same of a soft block:
a request that finds the block there does not score (`BlockSteps`), one that read
before it pays with its place at `"apply"`; only an admin gains the block time.
Both are variants. With a clock that goes on they are why `LockoutEnds` and
`SoftBlockEnds` hold, whatever the number of requests; that last step, from the
variant to the liveness property, is TLC's.

`VerdictLoggedOrEnforced` (`ShadowHolds`) says nothing of the login's own refusal. It
needs to know at every await what a request has been through (`Treated`), and that the mode it recorded is
the mode of now as long as it is not `"mixed"`. `StepLocal` says once that a step of one
request leaves the others and the flag alone.

`AccountsProofs`. `RInv` adds to the types that no two rows share a name or an
address (`Unique`), that a registration past its commit or answered has its row
(`Recorded`), that a row is what its request asked for and that request is past
its commit (`Committed`), and that a request under way has no answer (`Silent`).
`RegistrationsHold` follows because two answered registrations with one name
would have one row. `Refinement` maps the commit to `Register`, the answers to
`Created`, `Conflict` and `Tell`, and the rest to stutters: `Committed` is why nobody
registers twice or after a 500, and `SetRole` is unseen because roles are no part of
the registry. `AInv` follows a role on its way: today's admins are in the
history (`HeldNow`), a fetched admin row was in it when it was fetched
(`RowHonest`), that was no longer than `LoginTime` ago (`Timely`), so a token's
expiry is bounded by an instant of the history (`TokenHonest`), and an admin call
carries an issued token (`Carried`) whose expiry `RequireAdmin` looks at.

`TimingSamplesProofs`. The invariant is that the key holds the `MaxSamples`
newest stamps of the history (`samples = Newest(log)`), and nothing without a
deadline. It is kept because the newest of the newest and one more stamp
are the newest of all (`NewestOfNewest`): a stamp with fewer than `MaxSamples` stamps above it in the
trimmed set has no more above it in the whole (`NewestBounded`, `NewestAbove`).
`TrimIsNewest` turns the ranks of the code into that form. `Refinement` maps each step
to one of `NewestSamples` or to a stutter. It does not depend on the order in which
stamps arrive, nor on the skew.

`Judged` proves `JudgedRegular`, what `statistics.stdev` below the threshold says of
any two gaps. `FiniteSums` has what it needs of sums over sets. The library's
induction theorems take an operator, which the provers cannot instantiate, so an
induction there is about a set of sets: those of which the claim is true
(`SubsetInduction`, from the well-founded order of the numbers). `SumRemove` shows that the
fold, which takes its elements by `CHOOSE`, does not depend on the order;
`SumOfDistances` that a sum of squares is not negative, and `VarianceOfTwo` that
`n * (g - h) ^ 2` is at most twice the scatter of `n` numbers with `g` and `h` among them. With
`StdevSays`, which reads the code's comparison as one of the scatter, `JudgedIsNear` bounds
the difference of two gaps, and `EvenIsLowest` is the other direction: equal gaps are judged.

`LifespanProofs`. `Order` says for each place of the lifespan what may still
run: no worker before the first load, no request once the worker is awaited,
a cancellation only while it is awaited. `NoUseHolds` follows. `Slept` is about the
delays: at the ping of attempt `a` the process has slept `2 ^ (a - 1) - 1` seconds, in the
delay after it `2 ^ a - 1` less what is left of it. That a power doubles
(`PowerDoubles`) is read off the subsets of `1..n`, whose number the library has a theorem
about. `SlowRedis` follows: who gave up was refused by a Redis that came up later
than all delays together, whatever the number of attempts.

`GatewayChainProofs`. `Inv` adds to the types what a request has been through
where it stands (`Unanswered`, `Identified`, `Story`), that the entries of a window
are `Charged` (`Windows`), and that the filter holds every answered entry and
every one whose answer is on its way (`Covered`). `CountersAddUp` compares counters
with cardinalities of sets of requests; each step is of one request (`Local`), so each set
shifts by that request at most (`Shifts`, `Change`), and every
action shifts both sides alike. `DeniedHolds`, `ServiceHolds` and `CountersHold` hold for
any number of requests, clients and addresses.

Only model-checked: `WorkerCatchesUp`, `LockoutEnds`, `SoftBlockEnds` and
`ShutdownEnds` (liveness under fairness is outside the prover's reach), and the
violated statements. Every invariant and every other property of a run that holds is
a theorem.

## 6. Not modelled, and plan

Order of the work: the rate limiter (the abstract contract first, then the
script), the block lists, the abuse response, the accounts, then the timing
samples, the lifespan and the chain; these are done. Possible next steps:

1. The refinement of an abstract lockout (a counter that forgets) by
   `AbuseResponse`, whose variants and bounds are proved.
2. `GatewayChain` with several processes, whose filters differ until a restart
   (`BloomSync` has that difference; the chain has one filter).

Not modelled: `get_shadow_stats` and the other reads of the admin routes, which
change nothing and promise nothing about keys that expire meanwhile; the
migrations, which run before the process; the SQLAlchemy pool and its timeouts;
bcrypt and JWT coding; the latency histogram and the pool gauges; log lines and
response bodies; the exception classes that nothing raises; validation by the
schemas. Redis is modelled as an external service with atomic commands, no loss
of data, and calls that fail or lose their reply. What the client library does
then is outside `app/`, so a lost reply is modelled as either a replay or an
exception.
