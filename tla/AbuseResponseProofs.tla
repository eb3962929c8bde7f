------------------------ MODULE AbuseResponseProofs ------------------------
(***************************************************************************)
(* Theorems about AbuseResponse, for any number of concurrent requests,    *)
(* addresses and names, any thresholds, windows and number of replays.     *)
(***************************************************************************)
EXTENDS AbuseResponse, TLAPS, FiniteSetTheorems

\* The types, and how often a failure pipeline can have run: not before the
\* login's check, and never once too often while it may still run.
TriesBound ==
    \A r \in Requests :
        /\ pc[r] \in {"signals", "block", "apply", "flag", "asleep", "handler"}
              => tries[r] = 0
        /\ pc[r] = "verify" => tries[r] <= MaxRetries

TInv == TypeOK /\ TriesBound

\* What is recorded, and what may still be, stays below the bound.
Within(k) ==
    \E t \in Thresholds(k) : fails[k] + Cardinality(Open(k)) <= t - 1 + Pending(k)

\* The requests that are about to block ip.
Applying(ip) == {r \in Requests : pc[r] = "apply" /\ req[r].ip = ip}

\* What a request that has seen one mode only has been through so far.
Treated(r) ==
    /\ pc[r] \notin {"idle", "done"} /\ req[r].mode # "mixed" => req[r].mode = Mode
    /\ pc[r] \in {"signals", "block", "apply", "flag"} =>
          /\ ~ req[r].flagged /\ ~ req[r].logged /\ ~ req[r].throttled
          /\ req[r].answer = 0
    /\ pc[r] \in {"asleep", "handler", "verify", "shadow", "log"} =>
          ~ req[r].logged /\ req[r].answer # 429
    /\ req[r].mode = "on" /\ pc[r] \in {"asleep", "handler", "verify", "shadow", "log"} =>
          /\ ~ req[r].throttled
          /\ req[r].flagged <=> req[r].state # "allowed"
          /\ pc[r] = "log" => req[r].flagged
    /\ req[r].mode = "off" /\ pc[r] \in {"asleep", "handler", "verify", "shadow", "log"} =>
          /\ req[r].state # "soft_block" /\ pc[r] # "log"
          /\ req[r].throttled <=> req[r].state = "throttled"
    /\ pc[r] = "done" /\ req[r].mode = "on" =>
          /\ req[r].answer # 429 /\ ~ req[r].throttled
          /\ req[r].logged => req[r].state # "allowed"
          /\ req[r].state # "allowed" => req[r].logged \/ req[r].answer = 500
    /\ pc[r] = "done" /\ req[r].mode = "off" =>
          /\ ~ req[r].logged
          /\ req[r].answer = 429 => req[r].state = "soft_block"
          /\ req[r].state = "soft_block" => req[r].answer \in {429, 500}
          /\ req[r].throttled => req[r].state = "throttled"
          /\ req[r].state = "throttled" => req[r].throttled \/ req[r].answer = 500

SInv == TInv /\ \A r \in Requests : Treated(r)

OInv == TInv /\ \A k \in Keys : Within(k)

-----------------------------------------------------------------------------
LEMMA ModeType == Mode \in {"on", "off"}
  BY DEF Mode

LEMMA NewRequestType ==
  ASSUME NEW ip \in Ips, NEW client \in Names \union {Anonymous},
         NEW login \in Names \union {Anonymous, NoLogin}
  PROVE  NewRequest(ip, client, login) \in Request
  BY ModeType DEF NewRequest, Request, Levels, States, Reasons, Answers, Modes

\* A request whose fields are set to values of their types is a request.
LEMMA FieldTypes ==
  ASSUME NEW q \in Request
  PROVE  /\ \A v \in Levels : [q EXCEPT !.level = v] \in Request
         /\ \A v \in States : [q EXCEPT !.state = v] \in Request
         /\ \A v \in Reasons : [q EXCEPT !.reason = v] \in Request
         /\ \A v \in Answers : [q EXCEPT !.answer = v] \in Request
         /\ \A v \in Modes : [q EXCEPT !.mode = v] \in Request
         /\ \A v \in BOOLEAN : [q EXCEPT !.flagged = v] \in Request
         /\ \A v \in BOOLEAN : [q EXCEPT !.logged = v] \in Request
         /\ \A v \in BOOLEAN : [q EXCEPT !.throttled = v] \in Request
<1>1. \A v \in Levels : [q EXCEPT !.level = v] \in Request
  BY DEF Request
<1>2. \A v \in States : [q EXCEPT !.state = v] \in Request
  BY DEF Request
<1>3. \A v \in Reasons : [q EXCEPT !.reason = v] \in Request
  BY DEF Request
<1>4. \A v \in Answers : [q EXCEPT !.answer = v] \in Request
  BY DEF Request
<1>5. \A v \in Modes : [q EXCEPT !.mode = v] \in Request
  BY DEF Request
<1>6. \A v \in BOOLEAN : [q EXCEPT !.flagged = v] \in Request
  BY DEF Request
<1>7. \A v \in BOOLEAN : [q EXCEPT !.logged = v] \in Request
  BY DEF Request
<1>8. \A v \in BOOLEAN : [q EXCEPT !.throttled = v] \in Request
  BY DEF Request
<1> QED
  BY <1>1, <1>2, <1>3, <1>4, <1>5, <1>6, <1>7, <1>8

\* The same for the function of all requests.
LEMMA ReqType ==
  ASSUME TypeOK, NEW r \in Requests, NEW q \in Request
  PROVE  [req EXCEPT ![r] = q] \in [Requests -> Request]
  BY DEF TypeOK

\* The same for one field of one of the requests.
LEMMA SetField ==
  ASSUME TypeOK, NEW r \in Requests
  PROVE  /\ \A v \in Levels : [req EXCEPT ![r].level = v] \in [Requests -> Request]
         /\ \A v \in States : [req EXCEPT ![r].state = v] \in [Requests -> Request]
         /\ \A v \in Answers : [req EXCEPT ![r].answer = v] \in [Requests -> Request]
         /\ \A v \in BOOLEAN : [req EXCEPT ![r].flagged = v] \in [Requests -> Request]
         /\ \A v \in BOOLEAN : [req EXCEPT ![r].logged = v] \in [Requests -> Request]
         /\ \A v \in BOOLEAN : [req EXCEPT ![r].throttled = v] \in [Requests -> Request]
<1>1. req[r] \in Request
  BY DEF TypeOK
<1>2. \A v \in Levels : [req EXCEPT ![r].level = v] \in [Requests -> Request]
  BY <1>1, FieldTypes, ReqType
<1>3. \A v \in States : [req EXCEPT ![r].state = v] \in [Requests -> Request]
  BY <1>1, FieldTypes, ReqType
<1>4. \A v \in Answers : [req EXCEPT ![r].answer = v] \in [Requests -> Request]
  BY <1>1, FieldTypes, ReqType
<1>5. \A v \in BOOLEAN : [req EXCEPT ![r].flagged = v] \in [Requests -> Request]
  BY <1>1, FieldTypes, ReqType
<1>6. \A v \in BOOLEAN : [req EXCEPT ![r].logged = v] \in [Requests -> Request]
  BY <1>1, FieldTypes, ReqType
<1>7. \A v \in BOOLEAN : [req EXCEPT ![r].throttled = v] \in [Requests -> Request]
  BY <1>1, FieldTypes, ReqType
<1> QED
  BY <1>2, <1>3, <1>4, <1>5, <1>6, <1>7

LEMMA FieldValues ==
  /\ "normal" \in Levels /\ "soft_block" \in States
  /\ 200 \in Answers /\ 401 \in Answers /\ 403 \in Answers
  /\ 429 \in Answers /\ 500 \in Answers
  /\ "on" \in Modes /\ "off" \in Modes /\ "mixed" \in Modes
  BY DEF Levels, States, Answers, Modes

LEMMA ReadFlagCases ==
  ASSUME NEW r \in Requests, ReadFlag(r)
  PROVE  \/ req' = [req EXCEPT ![r].flagged = TRUE]
         \/ req' = [req EXCEPT ![r].answer = 429]
         \/ req' = [req EXCEPT ![r].throttled = TRUE]
         \/ req' = req
  BY DEF ReadFlag

LEMMA TInvInit == Init => TInv
<1> SUFFICES ASSUME Init PROVE TInv
  OBVIOUS
<1>1. NewRequest(CHOOSE ip \in Ips : TRUE, Anonymous, NoLogin) \in Request
  BY AbuseAssumption, NewRequestType
<1>2. TypeOK
  BY <1>1, AbuseAssumption DEF Init, TypeOK
<1>3. TriesBound
  BY DEF Init, TriesBound
<1> QED
  BY <1>2, <1>3 DEF TInv

LEMMA TInvNext == TInv /\ [Next]_vars => TInv'
<1> SUFFICES ASSUME TInv, [Next]_vars PROVE TInv'
  OBVIOUS
<1> USE AbuseAssumption DEF TInv, TypeOK, TriesBound
<1>1. ASSUME NEW r \in Requests, Arrive(r) PROVE TInv'
  <2>1. PICK ip \in Ips, client \in Names \union {Anonymous},
             login \in Names \union {Anonymous, NoLogin} :
               req' = [req EXCEPT ![r] = NewRequest(ip, client, login)]
    BY <1>1 DEF Arrive
  <2>2. req' \in [Requests -> Request]
    BY <2>1, NewRequestType
  <2> QED
    BY <1>1, <2>2 DEF Arrive, redisVars, Goto
<1>2. ASSUME NEW r \in Requests, ReadSignals(r) PROVE TInv'
  <2>1. PICK entropy \in Entropies :
           req' = [req EXCEPT ![r].level =
                     Level(fails[req[r].ip], fails[req[r].client], entropy)]
    BY <1>2 DEF ReadSignals
  <2>2. Level(fails[req[r].ip], fails[req[r].client], entropy) \in Levels
    BY DEF Level, Levels
  <2>3. req' \in [Requests -> Request]
    BY <2>1, <2>2, SetField
  <2> QED
    BY <1>2, <2>3 DEF ReadSignals, redisVars, Goto
<1>3. ASSUME NEW r \in Requests, CheckBlock(r) PROVE TInv'
  <2> DEFINE blocked == blockTtl[req[r].ip] > 0
               s == IF blocked THEN "soft_block"
                    ELSE IF req[r].level = "elevated" THEN "throttled" ELSE "allowed"
               v == IF blocked THEN origin[req[r].ip]
                    ELSE IF req[r].level = "normal" THEN "none" ELSE "signal"
               q == [[[req[r] EXCEPT !.state = s] EXCEPT !.reason = v]
                        EXCEPT !.level = "normal"]
  <2>2. s \in States /\ v \in Reasons
    <3>1. req[r].ip \in Ips
      BY DEF Request
    <3>2. origin[req[r].ip] \in Reasons
      BY <3>1 DEF Reasons
    <3> QED
      BY <3>2 DEF States, Reasons
  <2>3. q \in Request
    <3> HIDE DEF s, v
    <3>1. [req[r] EXCEPT !.state = s] \in Request
      BY <2>2, FieldTypes
    <3>2. [[req[r] EXCEPT !.state = s] EXCEPT !.reason = v] \in Request
      BY <2>2, <3>1, FieldTypes
    <3> QED
      BY <3>2, FieldTypes, FieldValues
  <2>4. req' = [req EXCEPT ![r] = q]
    BY <1>3 DEF CheckBlock
  <2>5. req' \in [Requests -> Request]
    <3> HIDE DEF q
    <3> QED
      BY <2>3, <2>4, ReqType
  <2> QED
    BY <1>3, <2>5 DEF CheckBlock, redisVars, Goto
<1>4. ASSUME NEW r \in Requests, ApplyBlock(r) PROVE TInv'
  <2>1. req' \in [Requests -> Request]
    BY <1>4, SetField, FieldValues DEF ApplyBlock
  <2>2. req[r].ip \in Ips
    BY DEF Request
  <2> QED
    BY <1>4, <2>1, <2>2 DEF ApplyBlock, redisVars, Goto
<1>5. ASSUME NEW r \in Requests, ReadFlag(r) PROVE TInv'
  <2>1. req' \in [Requests -> Request]
    <3>1. CASE req' = [req EXCEPT ![r].flagged = TRUE]
      BY <3>1, SetField
    <3>2. CASE req' = [req EXCEPT ![r].answer = 429]
      BY <3>2, SetField, FieldValues
    <3>3. CASE req' = [req EXCEPT ![r].throttled = TRUE]
      BY <3>3, SetField
    <3>4. CASE req' = req
      BY <3>4
    <3> QED
      BY <1>5, <3>1, <3>2, <3>3, <3>4, ReadFlagCases
  <2> QED
    BY <1>5, <2>1 DEF ReadFlag, redisVars, Goto
<1>6. ASSUME NEW r \in Requests, WakeUp(r) PROVE TInv'
  BY <1>6 DEF WakeUp, redisVars, Goto
<1>7. ASSUME NEW r \in Requests, Serve(r) PROVE TInv'
  <2>1. req' \in [Requests -> Request]
    BY <1>7, SetField, FieldValues DEF Serve, Respond
  <2> QED
    BY <1>7, <2>1 DEF Serve, Respond, redisVars, Goto
<1>8. ASSUME NEW r \in Requests, LoginCheck(r) PROVE TInv'
  <2>1. req' \in [Requests -> Request]
    BY <1>8, SetField, FieldValues DEF LoginCheck, Respond
  <2> QED
    BY <1>8, <2>1 DEF LoginCheck, Respond, redisVars, Goto
<1>9. ASSUME NEW r \in Requests, LoginSucceed(r) PROVE TInv'
  <2>1. req' \in [Requests -> Request]
    BY <1>9, SetField, FieldValues DEF LoginSucceed, Respond
  <2> QED
    BY <1>9, <2>1 DEF LoginSucceed, Respond, redisVars, Goto
<1>10. ASSUME NEW r \in Requests, RecordFailure(r) PROVE TInv'
  <2>1. req' \in [Requests -> Request]
    BY <1>10, SetField, FieldValues DEF RecordFailure, Respond, Abort
  <2>2. \A k \in Keys : Hits(r, k) \in 0..2
    BY DEF Hits
  <2>3. /\ fails' \in [Keys -> Nat] /\ failTtl' \in [Keys -> 0..FailWindow]
        /\ \A k \in Keys : fails'[k] > 0 <=> failTtl'[k] > 0
    BY <1>10, <2>2 DEF RecordFailure
  <2>4. /\ tries' \in [Requests -> 0..(MaxRetries + 1)]
        /\ pc' \in [Requests -> {"idle", "signals", "block", "apply", "flag",
                    "asleep", "handler", "verify", "shadow", "log", "done"}]
        /\ TriesBound'
    BY <1>10 DEF RecordFailure, Respond, Abort, Goto
  <2> QED
    BY <1>10, <2>1, <2>3, <2>4 DEF RecordFailure
<1>11. ASSUME NEW r \in Requests, PostShadow(r) PROVE TInv'
  BY <1>11 DEF PostShadow, redisVars, Goto
<1>12. ASSUME NEW r \in Requests, LogEvent(r) PROVE TInv'
  <2>1. req' \in [Requests -> Request]
    BY <1>12, SetField, FieldValues DEF LogEvent
  <2> QED
    BY <1>12, <2>1 DEF LogEvent, redisVars, Goto
<1>13. ASSUME NEW r \in Requests, Fail(r) PROVE TInv'
  <2>1. req' \in [Requests -> Request]
    BY <1>13, SetField, FieldValues DEF Fail, Abort
  <2> QED
    BY <1>13, <2>1 DEF Fail, Abort, redisVars, Goto
<1>14. ASSUME NEW ip \in Ips, NEW ttl \in {0, BlockTtl}, AdminBlock(ip, ttl)
       PROVE  TInv'
  BY <1>14 DEF AdminBlock
<1>15. ASSUME NEW enabled \in BOOLEAN, AdminShadow(enabled) PROVE TInv'
  <2>1. Mode' \in {"on", "off"}
    BY DEF Mode
  <2>2. req' \in [Requests -> Request]
    <3>1. ASSUME NEW x \in Requests PROVE req'[x] \in Request
      <4> DEFINE w == IF req[x].mode = Mode' \/ pc[x] \in {"idle", "done"}
                      THEN req[x].mode ELSE "mixed"
      <4>1. w \in Modes
        BY FieldValues DEF Request
      <4>2. req'[x] = [req[x] EXCEPT !.mode = w]
        BY <1>15 DEF AdminShadow
      <4> HIDE DEF w
      <4> QED
        BY <4>1, <4>2, FieldTypes
    <3>2. req' = [x \in Requests |-> req'[x]]
      BY <1>15 DEF AdminShadow
    <3> QED
      BY <3>1, <3>2
  <2> QED
    BY <1>15, <2>2 DEF AdminShadow
<1>16. ASSUME Tick PROVE TInv'
  <2>1. \A k \in Keys : Less(failTtl[k]) \in 0..FailWindow
    BY DEF Less
  <2>2. \A ip \in Ips : Less(blockTtl[ip]) \in 0..BlockTtl
    BY DEF Less
  <2>3. /\ fails' \in [Keys -> Nat] /\ failTtl' \in [Keys -> 0..FailWindow]
        /\ \A k \in Keys : fails'[k] > 0 <=> failTtl'[k] > 0
    BY <1>16, <2>1 DEF Tick, Less
  <2>4. /\ blockTtl' \in [Ips -> 0..BlockTtl]
        /\ origin' \in [Ips -> {"none", "enforced", "shadow", "admin"}]
    BY <1>16, <2>2 DEF Tick
  <2> QED
    BY <1>16, <2>3, <2>4 DEF Tick
<1>17. ASSUME UNCHANGED vars PROVE TInv'
  BY <1>17 DEF vars, redisVars
<1> QED
  BY <1>1, <1>2, <1>3, <1>4, <1>5, <1>6, <1>7, <1>8, <1>9, <1>10, <1>11, <1>12,
     <1>13, <1>14, <1>15, <1>16, <1>17 DEF Next, Step

LEMMA TInvariance == Spec => []TInv
  BY TInvInit, TInvNext, PTL DEF Spec

\* Every counter has a time to live exactly while it is there, whatever the
\* order in which logins record failures, replay them and time passes
\* (services/abuse_detector.py:28-33).
THEOREM TypeCorrect == Spec => []TypeOK
<1>1. TInv => TypeOK
  BY DEF TInv
<1> QED
  BY <1>1, TInvariance, PTL
-----------------------------------------------------------------------------
\* A step of one request leaves the others and the flag alone.
LEMMA StepLocal ==
  ASSUME TypeOK, NEW r \in Requests, Arrive(r) \/ Step(r)
  PROVE  /\ \A x \in Requests \ {r} : /\ pc'[x] = pc[x] /\ req'[x] = req[x]
                                      /\ tries'[x] = tries[x]
         /\ flag' = flag
<1> USE DEF TypeOK, Goto, Respond, Abort, redisVars
<1>1. CASE Arrive(r)
  BY <1>1 DEF Arrive
<1>2. CASE ReadSignals(r)
  BY <1>2 DEF ReadSignals
<1>3. CASE CheckBlock(r)
  BY <1>3 DEF CheckBlock
<1>4. CASE ApplyBlock(r)
  BY <1>4 DEF ApplyBlock
<1>5. CASE ReadFlag(r)
  BY <1>5 DEF ReadFlag
<1>6. CASE WakeUp(r)
  BY <1>6 DEF WakeUp
<1>7. CASE Serve(r)
  BY <1>7 DEF Serve
<1>8. CASE LoginCheck(r)
  BY <1>8 DEF LoginCheck
<1>9. CASE LoginSucceed(r)
  BY <1>9 DEF LoginSucceed
<1>10. CASE RecordFailure(r)
  BY <1>10 DEF RecordFailure
<1>11. CASE PostShadow(r)
  BY <1>11 DEF PostShadow
<1>12. CASE LogEvent(r)
  BY <1>12 DEF LogEvent
<1>13. CASE Fail(r)
  BY <1>13 DEF Fail
<1> QED
  BY <1>1, <1>2, <1>3, <1>4, <1>5, <1>6, <1>7, <1>8, <1>9, <1>10, <1>11, <1>12,
     <1>13 DEF Step

\* What an admin does to a request in flight, and what time does to it.
LEMMA OthersLocal ==
  ASSUME TypeOK,
         \/ \E ip \in Ips, ttl \in {0, BlockTtl} : AdminBlock(ip, ttl)
         \/ \E enabled \in BOOLEAN : AdminShadow(enabled)
         \/ Tick
         \/ UNCHANGED vars
  PROVE  /\ pc' = pc /\ tries' = tries
         /\ \A x \in Requests : req'[x] = [req[x] EXCEPT !.mode = req'[x].mode]
<1>0. \A x \in Requests : req[x] = [req[x] EXCEPT !.mode = req[x].mode]
  BY DEF TypeOK, Request
<1>1. ASSUME NEW ip \in Ips, NEW ttl \in {0, BlockTtl}, AdminBlock(ip, ttl)
      PROVE  pc' = pc /\ tries' = tries /\ req' = req
  BY <1>1 DEF AdminBlock
<1>2. ASSUME NEW enabled \in BOOLEAN, AdminShadow(enabled)
      PROVE  /\ pc' = pc /\ tries' = tries
             /\ \A x \in Requests : req'[x] = [req[x] EXCEPT !.mode = req'[x].mode]
  <2>1. ASSUME NEW x \in Requests
        PROVE  req'[x] = [req[x] EXCEPT !.mode = req'[x].mode]
    <3> DEFINE w == IF req[x].mode = Mode' \/ pc[x] \in {"idle", "done"}
                    THEN req[x].mode ELSE "mixed"
    <3>1. req'[x] = [req[x] EXCEPT !.mode = w]
      BY <1>2 DEF AdminShadow
    <3> HIDE DEF w
    <3> QED
      BY <3>1 DEF TypeOK, Request
  <2> QED
    BY <1>2, <2>1 DEF AdminShadow
<1>3. CASE Tick
  BY <1>0, <1>3 DEF Tick
<1>4. CASE UNCHANGED vars
  BY <1>0, <1>4 DEF vars
<1> QED
  BY <1>0, <1>1, <1>2, <1>3, <1>4

-----------------------------------------------------------------------------
\* There are Pending slots, so no more than Pending raises are open.
LEMMA OpenSlots ==
  ASSUME NEW k, NEW S \in SUBSET (Requests \X (1..(Axes(k) * (MaxRetries + 1))))
  PROVE  /\ IsFiniteSet(S) /\ Cardinality(S) \in Nat
         /\ Cardinality(S) <= Pending(k) /\ Pending(k) \in Nat
         /\ \A T \in SUBSET S : IsFiniteSet(T) /\ Cardinality(T) \in Nat
                                /\ Cardinality(T) <= Cardinality(S)
         /\ \A x \in S : Cardinality(S \ {x}) = Cardinality(S) - 1
<1> DEFINE n == Axes(k) * (MaxRetries + 1)
<1>0. n \in Nat
  BY AbuseAssumption DEF Axes
<1> HIDE DEF n
<1>1. IsFiniteSet(1..n) /\ Cardinality(1..n) = n
  BY <1>0, FS_Interval
<1>2. /\ IsFiniteSet(Requests \X (1..n))
      /\ Cardinality(Requests \X (1..n)) = Pending(k)
  BY <1>1, AbuseAssumption, FS_Product DEF Pending, n
<1>3. IsFiniteSet(S) /\ Cardinality(S) <= Pending(k)
  BY <1>2, FS_Subset DEF n
<1>4. Pending(k) \in Nat /\ Cardinality(S) \in Nat
  BY <1>2, <1>3, FS_CardinalityType
<1>5. \A T \in SUBSET S : IsFiniteSet(T) /\ Cardinality(T) \in Nat
                           /\ Cardinality(T) <= Cardinality(S)
  BY <1>3, FS_Subset, FS_CardinalityType
<1>6. \A x \in S : Cardinality(S \ {x}) = Cardinality(S) - 1
  BY <1>3, FS_RemoveElement
<1> QED
  BY <1>3, <1>4, <1>5, <1>6

LEMMA OpenCounts ==
  ASSUME NEW k
  PROVE  /\ Open(k) \in SUBSET (Requests \X (1..(Axes(k) * (MaxRetries + 1))))
         /\ Cardinality(Open(k)) \in Nat
         /\ Cardinality(Open(k)) <= Pending(k) /\ Pending(k) \in Nat
<1>1. Open(k) \in SUBSET (Requests \X (1..(Axes(k) * (MaxRetries + 1))))
  BY DEF Open
<1> QED
  BY <1>1, OpenSlots

\* A login hits a counter once for each of its axes at most, and only one that
\* its check has found below a threshold.
LEMMA HitsBound ==
  ASSUME TypeOK, NEW r \in Requests, NEW k \in Keys
  PROVE  /\ Hits(r, k) \in {0, 1, 2} /\ Hits(r, k) <= Axes(k)
         /\ Hits(r, k) # 0 /\ ~ Stuffing(r) => \E t \in Thresholds(k) : fails[k] < t
<1>1. /\ req[r].ip \in Ips
      /\ req[r].login \in UserKeys \union {NoLogin}
      /\ NoLogin \notin Keys
      /\ fails[k] \in Nat
      /\ IpThreshold \in Nat /\ UserThreshold \in Nat
  BY AbuseAssumption DEF TypeOK, Request, UserKeys
<1>2. Hits(r, k) \in {0, 1, 2} /\ Hits(r, k) <= Axes(k)
  BY <1>1 DEF Hits, Axes
<1>3. CASE k = req[r].ip
  <2>1. IpThreshold \in Thresholds(k)
    BY <1>1, <1>3 DEF Thresholds
  <2>2. ~ Stuffing(r) => fails[k] < IpThreshold
    <3>1. req[r].ip \in Keys /\ fails[req[r].ip] \in Nat
      BY <1>1, <1>3
    <3> QED
      BY <1>1, <1>3, <3>1 DEF Stuffing
  <2> QED
    BY <1>2, <2>1, <2>2
<1>4. CASE k = req[r].login
  <2>1. UserThreshold \in Thresholds(k)
    BY <1>1, <1>4 DEF Thresholds
  <2>2. ~ Stuffing(r) => fails[k] < UserThreshold
    BY <1>1, <1>4 DEF Stuffing
  <2> QED
    BY <1>2, <2>1, <2>2
<1>5. CASE k \notin {req[r].ip, req[r].login}
  BY <1>2, <1>5 DEF Hits
<1> QED
  BY <1>3, <1>4, <1>5

LEMMA ThresholdTypes ==
  ASSUME NEW k \in Keys
  PROVE  /\ Thresholds(k) # {}
         /\ \A t \in Thresholds(k) : t \in Nat /\ t >= 1
  BY AbuseAssumption DEF Thresholds, Keys, UserKeys

\* No request enters the pipeline or has its tries lowered: what is open
\* shrinks.
LEMMA OpenShrinks ==
  ASSUME TypeOK, TypeOK', NEW k \in Keys,
         \A x \in Requests : pc'[x] = "verify" =>
            \/ Hits(x, k)' = 0
            \/ /\ pc[x] = "verify"
               /\ req'[x].ip = req[x].ip /\ req'[x].login = req[x].login
               /\ tries'[x] >= tries[x]
  PROVE  Open(k)' \subseteq Open(k)
<1> SUFFICES ASSUME NEW x \in Open(k)' PROVE x \in Open(k)
  OBVIOUS
<1>1. /\ x \in Requests \X (1..(Axes(k) * (MaxRetries + 1)))
      /\ pc'[x[1]] = "verify"
      /\ x[2] <= Hits(x[1], k)' * (MaxRetries + 1 - tries'[x[1]])
  BY DEF Open, Axes, UserKeys
<1>2. /\ x[1] \in Requests /\ x[2] \in Nat /\ x[2] >= 1 /\ MaxRetries \in Nat
      /\ tries[x[1]] \in Nat /\ tries'[x[1]] \in Nat
  BY <1>1, AbuseAssumption DEF TypeOK, Axes
<1>3. Hits(x[1], k)' # 0
  BY <1>1, <1>2
<1>4. /\ pc[x[1]] = "verify" /\ Hits(x[1], k)' = Hits(x[1], k)
      /\ tries'[x[1]] >= tries[x[1]]
  BY <1>1, <1>2, <1>3 DEF Hits
<1>5. x[2] <= Hits(x[1], k) * (MaxRetries + 1 - tries[x[1]])
  <2> DEFINE h == Hits(x[1], k)
  <2>1. h \in {1, 2}
    BY <1>2, <1>3, <1>4, HitsBound
  <2>2. x[2] <= h * (MaxRetries + 1 - tries'[x[1]])
    BY <1>1, <1>4
  <2> HIDE DEF h
  <2>3. x[2] <= h * (MaxRetries + 1 - tries[x[1]])
    BY <1>2, <1>4, <2>1, <2>2
  <2> QED
    BY <2>3 DEF h
<1> QED
  BY <1>1, <1>4, <1>5 DEF Open

LEMMA PendingStays == \A k : Pending(k)' = Pending(k) /\ Thresholds(k)' = Thresholds(k)
  BY DEF Pending, Axes, UserKeys, Thresholds

\* What a step that opens nothing leaves open.
LEMMA OpenFewer ==
  ASSUME NEW k, Open(k)' \subseteq Open(k)
  PROVE  /\ Cardinality(Open(k)') <= Cardinality(Open(k))
         /\ Cardinality(Open(k)') \in Nat /\ Cardinality(Open(k)) \in Nat
<1>1. Open(k) \in SUBSET (Requests \X (1..(Axes(k) * (MaxRetries + 1))))
  BY DEF Open
<1> QED
  BY <1>1, OpenSlots

\* Steps that neither let a login pass its check nor record a failure.
LEMMA QuietStep ==
  ASSUME TInv, NEW r \in Requests, Arrive(r) \/ Step(r),
         ~ LoginCheck(r), ~ RecordFailure(r)
  PROVE  fails' = fails /\ failTtl' = failTtl /\ pc'[r] # "verify"
<1> USE DEF TInv, TypeOK, Goto, Respond, Abort, redisVars
<1>1. CASE Arrive(r)
  BY <1>1 DEF Arrive
<1>2. CASE ReadSignals(r)
  BY <1>2 DEF ReadSignals
<1>3. CASE CheckBlock(r)
  BY <1>3 DEF CheckBlock
<1>4. CASE ApplyBlock(r)
  BY <1>4 DEF ApplyBlock
<1>5. CASE ReadFlag(r)
  BY <1>5 DEF ReadFlag
<1>6. CASE WakeUp(r)
  BY <1>6 DEF WakeUp
<1>7. CASE Serve(r)
  BY <1>7 DEF Serve
<1>8. CASE LoginSucceed(r)
  BY <1>8 DEF LoginSucceed
<1>9. CASE PostShadow(r)
  BY <1>9 DEF PostShadow
<1>10. CASE LogEvent(r)
  BY <1>10 DEF LogEvent
<1>11. CASE Fail(r)
  BY <1>11 DEF Fail
<1> QED
  BY <1>1, <1>2, <1>3, <1>4, <1>5, <1>6, <1>7, <1>8, <1>9, <1>10, <1>11 DEF Step

\* A step that neither checks a login nor records a failure opens nothing, and
\* gains a counter neither counts nor time.
LEMMA QuietCounter ==
  ASSUME TInv, TInv', NEW k \in Keys,
         \/ \E r \in Requests : /\ Arrive(r) \/ Step(r)
                                /\ ~ LoginCheck(r) /\ ~ RecordFailure(r)
         \/ \E ip \in Ips, ttl \in {0, BlockTtl} : AdminBlock(ip, ttl)
         \/ \E enabled \in BOOLEAN : AdminShadow(enabled)
         \/ Tick
         \/ UNCHANGED vars
  PROVE  Open(k)' \subseteq Open(k) /\ fails'[k] <= fails[k] /\ failTtl'[k] <= failTtl[k]
<1>0. fails[k] \in Nat /\ failTtl[k] \in Nat
  BY DEF TInv, TypeOK
<1>1. ASSUME NEW r \in Requests, Arrive(r) \/ Step(r),
             ~ LoginCheck(r), ~ RecordFailure(r)
      PROVE  Open(k)' \subseteq Open(k) /\ fails' = fails /\ failTtl' = failTtl
  <2>1. fails' = fails /\ failTtl' = failTtl /\ pc'[r] # "verify"
    BY <1>1, QuietStep
  <2>2. \A x \in Requests : pc'[x] = "verify" =>
            /\ pc[x] = "verify"
            /\ req'[x].ip = req[x].ip /\ req'[x].login = req[x].login
            /\ tries'[x] >= tries[x]
    BY <1>1, <2>1, StepLocal DEF TInv, TypeOK
  <2> QED
    BY <2>1, <2>2, OpenShrinks DEF TInv
<1>2. ASSUME \/ \E ip \in Ips, ttl \in {0, BlockTtl} : AdminBlock(ip, ttl)
             \/ \E enabled \in BOOLEAN : AdminShadow(enabled)
             \/ Tick
             \/ UNCHANGED vars
      PROVE  Open(k)' \subseteq Open(k) /\ fails'[k] <= fails[k] /\ failTtl'[k] <= failTtl[k]
  <2>1. fails'[k] <= fails[k] /\ failTtl'[k] <= failTtl[k]
    BY <1>0, <1>2 DEF AdminBlock, AdminShadow, Tick, Less, vars, redisVars
  <2>2. ASSUME NEW x \in Requests
        PROVE  /\ pc'[x] = pc[x] /\ tries'[x] >= tries[x]
               /\ req'[x].ip = req[x].ip /\ req'[x].login = req[x].login
    <3>1. pc' = pc /\ tries' = tries /\ req'[x] = [req[x] EXCEPT !.mode = req'[x].mode]
      BY <1>2, OthersLocal DEF TInv
    <3>2. req[x] \in Request /\ tries[x] \in Nat
      BY DEF TInv, TypeOK
    <3> QED
      BY <3>1, <3>2 DEF Request
  <2> QED
    BY <2>1, <2>2, OpenShrinks DEF TInv
<1> QED
  BY <1>0, <1>1, <1>2

\* A login that does not hit a counter, or is refused, opens nothing.
LEMMA RefusedLogin ==
  ASSUME TInv, TInv', NEW k \in Keys, NEW r \in Requests, LoginCheck(r),
         Stuffing(r) \/ Hits(r, k) = 0
  PROVE  Open(k)' \subseteq Open(k)
<1>1. CASE Stuffing(r)
  <2>1. pc'[r] # "verify"
    BY <1>1 DEF LoginCheck, Respond, Goto, TInv, TypeOK
  <2>2. \A x \in Requests : pc'[x] = "verify" =>
            /\ pc[x] = "verify"
            /\ req'[x].ip = req[x].ip /\ req'[x].login = req[x].login
            /\ tries'[x] >= tries[x]
    BY <2>1, StepLocal DEF Step, TInv, TypeOK
  <2> QED
    BY <2>2, OpenShrinks DEF TInv
<1>2. CASE ~ Stuffing(r) /\ Hits(r, k) = 0
  <2>1. Hits(r, k)' = 0
    BY <1>2 DEF LoginCheck, Hits
  <2>2. \A x \in Requests : pc'[x] = "verify" =>
            \/ Hits(x, k)' = 0
            \/ /\ pc[x] = "verify"
               /\ req'[x].ip = req[x].ip /\ req'[x].login = req[x].login
               /\ tries'[x] >= tries[x]
    <3> SUFFICES ASSUME NEW x \in Requests \ {r}, pc'[x] = "verify"
                 PROVE  /\ pc[x] = "verify"
                        /\ req'[x].ip = req[x].ip /\ req'[x].login = req[x].login
                        /\ tries'[x] >= tries[x]
      BY <2>1
    <3> QED
      BY StepLocal DEF Step, TInv, TypeOK
  <2> QED
    BY <2>2, OpenShrinks DEF TInv
<1> QED
  BY <1>1, <1>2

\* A failure that is recorded closes as many raises as it makes.
LEMMA RecordCloses ==
  ASSUME TInv, TInv', NEW k \in Keys, NEW r \in Requests, RecordFailure(r)
  PROVE  /\ Open(k)' \subseteq Open(k)
         /\ Cardinality(Open(k)') \in Nat /\ Cardinality(Open(k)) \in Nat
         /\ Cardinality(Open(k)') + Hits(r, k) <= Cardinality(Open(k))
<1> DEFINE m == MaxRetries + 1 - tries[r]
           S == Open(k)
<1>1. /\ tries[r] \in 0..MaxRetries /\ tries'[r] = tries[r] + 1
      /\ MaxRetries \in Nat /\ pc[r] = "verify"
  BY AbuseAssumption DEF TInv, TypeOK, TriesBound, RecordFailure
<1>2. m \in Nat /\ m >= 1 /\ MaxRetries + 1 - tries'[r] = m - 1 /\ m <= MaxRetries + 1
  BY <1>1
<1>3. ASSUME NEW x \in Requests, pc'[x] = "verify"
      PROVE  /\ pc[x] = "verify"
             /\ req'[x].ip = req[x].ip /\ req'[x].login = req[x].login
             /\ tries'[x] >= tries[x]
  <2>1. CASE x # r
    BY <1>3, <2>1, StepLocal DEF Step, TInv, TypeOK
  <2>2. CASE x = r
    BY <1>1, <1>3, <2>2 DEF RecordFailure, Respond, Abort, Goto, TInv, TypeOK
  <2> QED
    BY <2>1, <2>2
<1>4. Open(k)' \subseteq Open(k)
  BY <1>3, OpenShrinks DEF TInv
<1>5. /\ S \in SUBSET (Requests \X (1..(Axes(k) * (MaxRetries + 1))))
      /\ Cardinality(S) \in Nat /\ Cardinality(Open(k)') \in Nat
      /\ Cardinality(Open(k)') <= Cardinality(S)
  BY <1>4, OpenCounts, OpenFewer
<1>6. \A n \in Nat : <<r, n>> \in Open(k)' => n <= Hits(r, k) * (m - 1)
  <2> SUFFICES ASSUME NEW n \in Nat, <<r, n>> \in Open(k)'
               PROVE  n <= Hits(r, k) * (m - 1)
    OBVIOUS
  <2>1. pc'[r] = "verify" /\ n <= Hits(r, k)' * (MaxRetries + 1 - tries'[r])
    BY DEF Open
  <2>2. Hits(r, k)' = Hits(r, k)
    BY <1>3, <2>1 DEF Hits
  <2> QED
    BY <1>2, <2>1, <2>2
<1>7. \A n \in Nat : n >= 1 /\ n <= Hits(r, k) * m /\ n <= Axes(k) * (MaxRetries + 1)
                        => <<r, n>> \in S
  BY <1>1 DEF Open
<1> HIDE DEF m, S
<1>8. CASE Hits(r, k) = 0
  BY <1>4, <1>5, <1>8 DEF S
<1>9. CASE Hits(r, k) = 1
  <2>1. Axes(k) \in {1, 2}
    BY DEF Axes
  <2>2. <<r, m>> \in S
    BY <1>1, <1>2, <1>7, <1>9, <2>1
  <2>3. <<r, m>> \notin Open(k)'
    BY <1>2, <1>6, <1>9
  <2>4. Open(k)' \in SUBSET (S \ {<<r, m>>})
    BY <1>4, <2>3 DEF S
  <2>5. Cardinality(S \ {<<r, m>>}) = Cardinality(S) - 1
    BY <1>5, <2>2, OpenSlots
  <2>6. Cardinality(Open(k)') <= Cardinality(S \ {<<r, m>>})
    BY <1>5, <2>4, OpenSlots
  <2> QED
    BY <1>4, <1>5, <1>9, <2>5, <2>6 DEF S
<1>10. CASE Hits(r, k) = 2
  <2> DEFINE top == <<r, 2 * m>>
             next == <<r, 2 * m - 1>>
  <2>1. Axes(k) = 2
    BY <1>10, HitsBound DEF Axes, TInv
  <2>2. top \in S /\ next \in S /\ top # next
    BY <1>1, <1>2, <1>7, <1>10, <2>1
  <2>3. top \notin Open(k)' /\ next \notin Open(k)'
    BY <1>2, <1>6, <1>10
  <2> HIDE DEF top, next
  <2>4. Open(k)' \in SUBSET ((S \ {top}) \ {next})
    BY <1>4, <2>3 DEF S
  <2>5. /\ Cardinality(S \ {top}) = Cardinality(S) - 1
        /\ Cardinality((S \ {top}) \ {next}) = Cardinality(S \ {top}) - 1
    <3>1. S \ {top} \in SUBSET (Requests \X (1..(Axes(k) * (MaxRetries + 1))))
          /\ next \in S \ {top}
      BY <1>5, <2>2
    <3> QED
      BY <1>5, <2>2, <3>1, OpenSlots
  <2>6. Cardinality(Open(k)') <= Cardinality((S \ {top}) \ {next})
    <3>1. (S \ {top}) \ {next} \in SUBSET (Requests \X (1..(Axes(k) * (MaxRetries + 1))))
      BY <1>5
    <3> QED
      BY <2>4, <3>1, OpenSlots
  <2> QED
    BY <1>4, <1>5, <1>10, <2>5, <2>6 DEF S
<1> QED
  BY <1>8, <1>9, <1>10, HitsBound DEF TInv

LEMMA WithinNext ==
  ASSUME TInv, TInv', [Next]_vars, NEW k \in Keys, Within(k)
  PROVE  Within(k)'
<1>0. PICK t \in Thresholds(k) : fails[k] + Cardinality(Open(k)) <= t - 1 + Pending(k)
  BY DEF Within
<1>1. /\ t \in Nat /\ fails[k] \in Nat /\ fails'[k] \in Nat
      /\ Cardinality(Open(k)) \in Nat /\ Pending(k) \in Nat
      /\ Pending(k)' = Pending(k) /\ Thresholds(k)' = Thresholds(k)
  BY ThresholdTypes, OpenCounts, PendingStays DEF TInv, TypeOK
<1>2. ASSUME fails'[k] <= fails[k], Open(k)' \subseteq Open(k)
      PROVE  Within(k)'
  <2>1. fails'[k] + Cardinality(Open(k)') <= t - 1 + Pending(k)'
    BY <1>0, <1>1, <1>2, OpenFewer
  <2> QED
    BY <1>1, <2>1 DEF Within
<1>3. ASSUME NEW r \in Requests, LoginCheck(r) PROVE Within(k)'
  <2>1. fails' = fails
    BY <1>3 DEF LoginCheck, redisVars
  <2>2. CASE Hits(r, k) # 0 /\ ~ Stuffing(r)
    <3>1. PICK u \in Thresholds(k) : fails[k] < u
      BY <2>2, HitsBound DEF TInv
    <3>2. u \in Nat
      BY ThresholdTypes
    <3>3. /\ Open(k)' \in SUBSET (Requests \X (1..(Axes(k) * (MaxRetries + 1))))
          /\ Cardinality(Open(k)') \in Nat /\ Cardinality(Open(k)') <= Pending(k)
      <4>1. Open(k)' \in SUBSET (Requests \X (1..(Axes(k) * (MaxRetries + 1))))
        BY DEF Open, Axes, UserKeys
      <4> QED
        BY <4>1, OpenSlots
    <3>4. fails'[k] + Cardinality(Open(k)') <= u - 1 + Pending(k)'
      BY <1>1, <2>1, <3>1, <3>2, <3>3
    <3> QED
      BY <1>1, <3>4 DEF Within
  <2>3. CASE Stuffing(r) \/ Hits(r, k) = 0
    BY <1>1, <1>2, <1>3, <2>1, <2>3, RefusedLogin
  <2> QED
    BY <2>2, <2>3
<1>4. ASSUME NEW r \in Requests, RecordFailure(r) PROVE Within(k)'
  <2>1. fails'[k] = fails[k] + Hits(r, k)
    BY <1>4 DEF RecordFailure
  <2>2. /\ Cardinality(Open(k)') + Hits(r, k) <= Cardinality(Open(k))
        /\ Cardinality(Open(k)') \in Nat /\ Hits(r, k) \in Nat
    BY <1>4, RecordCloses, HitsBound DEF TInv
  <2>3. fails'[k] + Cardinality(Open(k)') <= t - 1 + Pending(k)'
    BY <1>0, <1>1, <2>1, <2>2
  <2> QED
    BY <1>1, <2>3 DEF Within
<1> QED
  BY <1>2, <1>3, <1>4, QuietCounter DEF Next, Step

LEMMA OInvariance == Spec => []OInv
<1>1. Init => OInv
  <2> SUFFICES ASSUME Init, NEW k \in Keys PROVE Within(k)
    BY TInvInit DEF OInv
  <2>1. Open(k) = {} /\ fails[k] = 0
    BY DEF Init, Open
  <2>2. Pending(k) \in Nat /\ Cardinality(Open(k)) = 0
    BY <2>1, OpenCounts, FS_EmptySet
  <2>3. PICK t \in Thresholds(k) : t \in Nat /\ t >= 1
    BY ThresholdTypes
  <2> QED
    BY <2>1, <2>2, <2>3 DEF Within
<1>2. OInv /\ [Next]_vars => OInv'
  <2> SUFFICES ASSUME OInv, [Next]_vars PROVE OInv'
    OBVIOUS
  <2>1. TInv' /\ TInv
    BY TInvNext DEF OInv
  <2>2. ASSUME NEW k \in Keys PROVE Within(k)'
    BY <2>1, WithinNext DEF OInv
  <2> QED
    BY <2>1, <2>2 DEF OInv, Keys
<1> QED
  BY <1>1, <1>2, PTL DEF Spec

\* The check and the record of a login are separate round trips, yet an
\* address or a user name never collects more failures than its threshold
\* and the logins in flight allow (routers/auth.py:64-88).
THEOREM OvershootHolds == Spec => []FailureOvershoot
<1>1. OInv => FailureOvershoot
  <2> SUFFICES ASSUME OInv, NEW k \in Keys
               PROVE  \E t \in Thresholds(k) : fails[k] <= t - 1 + Pending(k)
    BY DEF FailureOvershoot
  <2>1. PICK t \in Thresholds(k) : fails[k] + Cardinality(Open(k)) <= t - 1 + Pending(k)
    BY DEF OInv, Within
  <2>2. /\ t \in Nat /\ fails[k] \in Nat
        /\ Cardinality(Open(k)) \in Nat /\ Pending(k) \in Nat
    BY ThresholdTypes, OpenCounts DEF OInv, TInv, TypeOK
  <2> QED
    BY <2>1, <2>2
<1> QED
  BY <1>1, OInvariance, PTL

-----------------------------------------------------------------------------
\* Products grow with a factor, and by the other one at least.
LEMMA Windows ==
  ASSUME NEW w \in Nat, NEW a \in Nat, NEW b \in Nat, a <= b
  PROVE  /\ w * a \in Nat /\ w * b \in Nat /\ w * a <= w * b
         /\ a < b => w + w * a <= w * b
<1>1. PICK c \in Nat : b = a + c
  <2>1. b - a \in Nat /\ b = a + (b - a)
    OBVIOUS
  <2> QED
    BY <2>1
<1>2. w * b = w * a + w * c
  BY <1>1
<1>3. w * a \in Nat /\ w * c \in Nat /\ w * b \in Nat
  OBVIOUS
<1>4. CASE c = 0
  BY <1>1, <1>2, <1>3, <1>4
<1>5. CASE c # 0
  <2>1. PICK e \in Nat : c = e + 1
    <3>1. c - 1 \in Nat /\ c = (c - 1) + 1
      BY <1>5
    <3> QED
      BY <3>1
  <2>2. w * c = w * e + w /\ w * e \in Nat
    BY <2>1
  <2> QED
    BY <1>2, <1>3, <2>2
<1> QED
  BY <1>4, <1>5

LEMMA LockoutStep ==
  ASSUME TInv, TInv', [Next]_vars, NEW k \in Keys, Locked(k)
  PROVE  /\ TimeLeft(k)' <= TimeLeft(k)
         /\ Tick => TimeLeft(k)' < TimeLeft(k)
<1> DEFINE a == Cardinality(Open(k)')
           b == Cardinality(Open(k))
<1>0. /\ FailWindow \in Nat /\ failTtl'[k] \in Nat /\ failTtl[k] \in Nat
      /\ fails[k] \in Nat /\ failTtl[k] >= 1
  <2>1. fails[k] > 0
    BY ThresholdTypes DEF Locked, TInv, TypeOK
  <2> QED
    BY <2>1, AbuseAssumption DEF TInv, TypeOK
<1>1. /\ TimeLeft(k) = failTtl[k] + FailWindow * b
      /\ TimeLeft(k)' = failTtl'[k] + FailWindow * a
  BY DEF TimeLeft
<1>2. ASSUME Open(k)' \subseteq Open(k), failTtl'[k] <= failTtl[k]
      PROVE  /\ TimeLeft(k)' <= TimeLeft(k)
             /\ failTtl'[k] < failTtl[k] => TimeLeft(k)' < TimeLeft(k)
  <2>1. a \in Nat /\ b \in Nat /\ a <= b
    BY <1>2, OpenFewer
  <2> HIDE DEF a, b
  <2>2. /\ FailWindow * a \in Nat /\ FailWindow * b \in Nat
        /\ FailWindow * a <= FailWindow * b
    BY <1>0, <2>1, Windows
  <2> QED
    BY <1>0, <1>1, <1>2, <2>2
<1>3. ASSUME NEW r \in Requests, LoginCheck(r)
      PROVE  TimeLeft(k)' <= TimeLeft(k)
  <2>1. failTtl' = failTtl
    BY <1>3 DEF LoginCheck, redisVars
  <2>2. Stuffing(r) \/ Hits(r, k) = 0
    <3>1. \A t \in Thresholds(k) : t \in Nat /\ ~ fails[k] < t
      BY <1>0, ThresholdTypes DEF Locked
    <3> QED
      BY <3>1, HitsBound DEF TInv
  <2> QED
    BY <1>0, <1>2, <1>3, <2>1, <2>2, RefusedLogin
<1>4. ASSUME NEW r \in Requests, RecordFailure(r)
      PROVE  TimeLeft(k)' <= TimeLeft(k)
  <2>1. failTtl'[k] = IF Hits(r, k) > 0 THEN FailWindow ELSE failTtl[k]
    BY <1>4 DEF RecordFailure
  <2>2. /\ a + Hits(r, k) <= b /\ a \in Nat /\ b \in Nat
        /\ Hits(r, k) \in {0, 1, 2} /\ Open(k)' \subseteq Open(k)
    BY <1>4, RecordCloses, HitsBound DEF TInv
  <2>3. CASE Hits(r, k) = 0
    BY <1>0, <1>2, <2>1, <2>2, <2>3
  <2>4. CASE Hits(r, k) > 0
    <3> HIDE DEF a, b
    <3>1. a < b /\ failTtl'[k] = FailWindow
      BY <2>1, <2>2, <2>4
    <3>2. /\ FailWindow + FailWindow * a <= FailWindow * b
          /\ FailWindow * a \in Nat /\ FailWindow * b \in Nat
      BY <1>0, <2>2, <3>1, Windows
    <3> QED
      BY <1>0, <1>1, <3>1, <3>2
  <2> QED
    BY <2>2, <2>3, <2>4
<1>5. Tick => failTtl'[k] < failTtl[k]
  BY <1>0 DEF Tick, Less
<1>6. \A r \in Requests : LoginCheck(r) \/ RecordFailure(r) => ~ Tick
  <2> SUFFICES ASSUME NEW r \in Requests, Tick, LoginCheck(r) \/ RecordFailure(r)
               PROVE  FALSE
    OBVIOUS
  <2>1. pc' = pc /\ tries' = tries
    BY DEF Tick
  <2>2. CASE LoginCheck(r)
    BY <2>1, <2>2 DEF LoginCheck, Respond, Goto, TInv, TypeOK
  <2>3. CASE RecordFailure(r)
    BY <2>1, <2>3 DEF RecordFailure, TInv, TypeOK
  <2> QED
    BY <2>2, <2>3
<1> QED
  BY <1>2, <1>3, <1>4, <1>5, <1>6, QuietCounter DEF Next, Step

\* A counter at its threshold runs out within a time that only gets shorter,
\* however many logins are in flight, refused or replayed
\* (routers/auth.py:64-88, services/abuse_detector.py:28-33).
THEOREM LockoutHolds == Spec => LockoutFades
<1>1. TInv /\ TInv' /\ [Next]_vars =>
        [\A k \in Keys : Locked(k) =>
            /\ TimeLeft(k)' <= TimeLeft(k)
            /\ Tick => TimeLeft(k)' < TimeLeft(k)]_vars
  BY LockoutStep
<1> QED
  BY <1>1, TInvariance, PTL DEF Spec, LockoutFades

-----------------------------------------------------------------------------
\* Only CheckBlock of an address that is not blocked makes a request apply a
\* block, and only ApplyBlock and admins write one.
LEMMA BlockSteps ==
  ASSUME TInv, NEW r \in Requests, Arrive(r) \/ Step(r), ~ ApplyBlock(r)
  PROVE  /\ blockTtl' = blockTtl
         /\ pc'[r] = "apply" => blockTtl[req'[r].ip] = 0
<1> USE DEF TInv, TypeOK, Goto, Respond, Abort, redisVars
<1>1. CASE Arrive(r)
  BY <1>1 DEF Arrive
<1>2. CASE ReadSignals(r)
  BY <1>2 DEF ReadSignals
<1>3. CASE CheckBlock(r)
  <2>1. req[r].ip \in Ips /\ req'[r].ip = req[r].ip
    BY <1>3 DEF CheckBlock, Request
  <2>2. blockTtl[req[r].ip] \in Nat
    BY <2>1
  <2> QED
    BY <1>3, <2>1, <2>2 DEF CheckBlock
<1>4. CASE ReadFlag(r)
  BY <1>4 DEF ReadFlag
<1>5. CASE WakeUp(r)
  BY <1>5 DEF WakeUp
<1>6. CASE Serve(r)
  BY <1>6 DEF Serve
<1>7. CASE LoginCheck(r)
  BY <1>7 DEF LoginCheck
<1>8. CASE LoginSucceed(r)
  BY <1>8 DEF LoginSucceed
<1>9. CASE RecordFailure(r)
  BY <1>9 DEF RecordFailure
<1>10. CASE PostShadow(r)
  BY <1>10 DEF PostShadow
<1>11. CASE LogEvent(r)
  BY <1>11 DEF LogEvent
<1>12. CASE Fail(r)
  BY <1>12 DEF Fail
<1> QED
  BY <1>1, <1>2, <1>3, <1>4, <1>5, <1>6, <1>7, <1>8, <1>9, <1>10, <1>11, <1>12
  DEF Step

LEMMA ApplyingCounts ==
  ASSUME NEW S \in SUBSET Requests
  PROVE  /\ Cardinality(S) \in Nat
         /\ \A T \in SUBSET S : Cardinality(T) \in Nat /\ Cardinality(T) <= Cardinality(S)
         /\ \A x \in S : Cardinality(S \ {x}) = Cardinality(S) - 1
<1>1. IsFiniteSet(S)
  BY AbuseAssumption, FS_Subset
<1> QED
  BY <1>1, FS_Subset, FS_CardinalityType, FS_RemoveElement

LEMMA BlockStep ==
  ASSUME TInv, TInv', [Next]_vars, NEW ip \in Ips, blockTtl[ip] > 0, admin' = admin
  PROVE  /\ BlockLeft(ip)' <= BlockLeft(ip)
         /\ Tick => BlockLeft(ip)' < BlockLeft(ip)
<1> DEFINE a == Cardinality(Applying(ip)')
           b == Cardinality(Applying(ip))
<1>0. /\ BlockTtl \in Nat /\ blockTtl'[ip] \in Nat /\ blockTtl[ip] \in Nat
      /\ blockTtl[ip] >= 1 /\ admin \in Nat
  BY AbuseAssumption DEF TInv, TypeOK
<1>1. /\ BlockLeft(ip) = blockTtl[ip] + BlockTtl * b
      /\ BlockLeft(ip)' = blockTtl'[ip] + BlockTtl * a
  BY DEF BlockLeft, Applying
<1>2. Applying(ip) \in SUBSET Requests /\ a \in Nat /\ b \in Nat
  <2>1. Applying(ip) \in SUBSET Requests /\ Applying(ip)' \in SUBSET Requests
    BY DEF Applying
  <2> QED
    BY <2>1, ApplyingCounts
<1>3. ASSUME Applying(ip)' \subseteq Applying(ip), blockTtl'[ip] <= blockTtl[ip]
      PROVE  /\ BlockLeft(ip)' <= BlockLeft(ip)
             /\ blockTtl'[ip] < blockTtl[ip] => BlockLeft(ip)' < BlockLeft(ip)
  <2>1. a <= b
    BY <1>2, <1>3, ApplyingCounts
  <2> HIDE DEF a, b
  <2>2. /\ BlockTtl * a \in Nat /\ BlockTtl * b \in Nat
        /\ BlockTtl * a <= BlockTtl * b
    BY <1>0, <1>2, <2>1, Windows
  <2> QED
    BY <1>0, <1>1, <1>3, <2>2
<1>4. ASSUME NEW r \in Requests, Arrive(r) \/ Step(r), ~ ApplyBlock(r)
      PROVE  BlockLeft(ip)' <= BlockLeft(ip) /\ ~ Tick
  <2>1. Applying(ip)' \subseteq Applying(ip)
    <3> SUFFICES ASSUME NEW x \in Requests, pc'[x] = "apply", req'[x].ip = ip
                 PROVE  pc[x] = "apply" /\ req[x].ip = ip
      BY DEF Applying
    <3>1. x # r
      BY <1>0, <1>4, BlockSteps
    <3> QED
      BY <1>4, <3>1, StepLocal DEF TInv
  <2>2. blockTtl' = blockTtl
    BY <1>4, BlockSteps
  <2>3. ~ Tick
    <3>1. Tick => blockTtl'[ip] < blockTtl[ip]
      BY <1>0 DEF Tick, Less
    <3> QED
      BY <1>0, <2>2, <3>1
  <2> QED
    BY <1>0, <1>3, <2>1, <2>2, <2>3
<1>5. ASSUME NEW r \in Requests, ApplyBlock(r)
      PROVE  BlockLeft(ip)' <= BlockLeft(ip) /\ ~ Tick
  <2>0. /\ pc[r] = "apply" /\ pc'[r] = "flag"
        /\ \A x \in Requests \ {r} : pc'[x] = pc[x] /\ req'[x] = req[x]
    BY <1>5, StepLocal DEF ApplyBlock, Goto, Step, TInv, TypeOK
  <2>1. Applying(ip)' \subseteq Applying(ip) \ {r}
    BY <2>0 DEF Applying
  <2>2. ~ Tick
    BY <2>0 DEF Tick
  <2>3. CASE req[r].ip = ip
    <3>1. r \in Applying(ip) /\ blockTtl'[ip] = BlockTtl
      BY <1>5, <2>0, <2>3 DEF Applying, ApplyBlock, TInv, TypeOK
    <3>2. a < b
      <4>1. Cardinality(Applying(ip) \ {r}) = b - 1
        BY <1>2, <3>1, ApplyingCounts
      <4>2. a <= Cardinality(Applying(ip) \ {r})
        BY <1>2, <2>1, ApplyingCounts
      <4> QED
        BY <1>2, <4>1, <4>2
    <3> HIDE DEF a, b
    <3>3. /\ BlockTtl + BlockTtl * a <= BlockTtl * b
          /\ BlockTtl * a \in Nat /\ BlockTtl * b \in Nat
      BY <1>0, <1>2, <3>2, Windows
    <3> QED
      BY <1>0, <1>1, <2>2, <3>1, <3>3
  <2>4. CASE req[r].ip # ip
    <3>1. blockTtl'[ip] = blockTtl[ip]
      BY <1>5, <2>4 DEF ApplyBlock, TInv, TypeOK
    <3> QED
      BY <1>0, <1>3, <2>1, <2>2, <3>1
  <2> QED
    BY <2>3, <2>4
<1>6. CASE Tick \/ UNCHANGED vars
  <2>1. pc' = pc /\ req' = req
    BY <1>6 DEF Tick, vars
  <2>2. Applying(ip)' \subseteq Applying(ip)
    BY <2>1 DEF Applying
  <2>3. blockTtl'[ip] <= blockTtl[ip] /\ (Tick => blockTtl'[ip] < blockTtl[ip])
    BY <1>0, <1>6 DEF Tick, Less, vars, redisVars
  <2> QED
    BY <1>3, <2>2, <2>3
<1>7. /\ \A x \in Ips, ttl \in {0, BlockTtl} : ~ AdminBlock(x, ttl)
      /\ \A enabled \in BOOLEAN : ~ AdminShadow(enabled)
  BY <1>0 DEF AdminBlock, AdminShadow
<1> QED
  BY <1>4, <1>5, <1>6, <1>7 DEF Next

\* While a client is blocked its block runs out within a time that only gets
\* shorter, unless an admin steps in (graduated_response.py:95-124).
THEOREM BlockHolds == Spec => BlockFades
<1>1. TInv /\ TInv' /\ [Next]_vars =>
        [\A ip \in Ips : blockTtl[ip] > 0 /\ admin' = admin =>
            /\ BlockLeft(ip)' <= BlockLeft(ip)
            /\ Tick => BlockLeft(ip)' < BlockLeft(ip)]_vars
  BY BlockStep
<1> QED
  BY <1>1, TInvariance, PTL DEF Spec, BlockFades

-----------------------------------------------------------------------------
\* Every step of a request keeps what was said of it.
LEMMA TreatedStep ==
  ASSUME TInv, NEW r \in Requests, Arrive(r) \/ Step(r), Treated(r)
  PROVE  Treated(r)'
<1>0. /\ Mode' = Mode /\ (Mode = "on" <=> ShadowOn) /\ (Mode = "off" <=> ~ ShadowOn)
      /\ req[r] \in Request
  BY StepLocal DEF Mode, ShadowOn, TInv, TypeOK
<1> USE <1>0 DEF TInv, TypeOK, Treated, Goto, Respond, Abort, Request
<1>1. CASE Arrive(r)
  BY <1>1 DEF Arrive, NewRequest
<1>2. CASE ReadSignals(r)
  BY <1>2 DEF ReadSignals
<1>3. CASE CheckBlock(r)
  <2>1. CASE blockTtl[req[r].ip] > 0
    BY <1>3, <2>1 DEF CheckBlock
  <2>2. CASE ~ blockTtl[req[r].ip] > 0
    BY <1>3, <2>2 DEF CheckBlock
  <2> QED
    BY <2>1, <2>2
<1>4. CASE ApplyBlock(r)
  BY <1>4 DEF ApplyBlock
<1>5. CASE ReadFlag(r)
  <2>1. CASE ShadowOn /\ req[r].state # "allowed"
    BY <1>5, <2>1 DEF ReadFlag
  <2>2. CASE ~ ShadowOn /\ req[r].state = "soft_block"
    BY <1>5, <2>2 DEF ReadFlag
  <2>3. CASE ~ ShadowOn /\ req[r].state = "throttled"
    BY <1>5, <2>3 DEF ReadFlag
  <2>4. CASE req[r].state = "allowed"
    BY <1>5, <2>4 DEF ReadFlag
  <2> QED
    BY <1>5, <2>1, <2>2, <2>3, <2>4 DEF ReadFlag
<1>6. CASE WakeUp(r)
  BY <1>6 DEF WakeUp
<1>7. ASSUME NEW code \in {200, 401, 403}, Respond(r, code),
             pc[r] \in {"handler", "verify"}
      PROVE  Treated(r)'
  <2>1. /\ pc'[r] = "shadow" /\ req'[r] = [req[r] EXCEPT !.answer = code]
    BY <1>7
  <2>2. /\ req'[r].mode = req[r].mode /\ req'[r].flagged = req[r].flagged
        /\ req'[r].logged = req[r].logged /\ req'[r].state = req[r].state
        /\ req'[r].throttled = req[r].throttled /\ req'[r].answer = code
    BY <2>1
  <2> QED
    BY <1>7, <2>1, <2>2
<1>8. CASE Serve(r)
  BY <1>7, <1>8 DEF Serve
<1>9. CASE LoginCheck(r)
  <2>1. CASE Respond(r, 403)
    BY <1>7, <1>9, <2>1 DEF LoginCheck
  <2>2. CASE Goto(r, "verify") /\ UNCHANGED req
    BY <1>9, <2>2 DEF LoginCheck
  <2> QED
    BY <1>9, <2>1, <2>2 DEF LoginCheck
<1>10. CASE LoginSucceed(r)
  BY <1>7, <1>10 DEF LoginSucceed
<1>11. CASE RecordFailure(r)
  <2>1. CASE Respond(r, 401)
    BY <1>7, <1>11, <2>1 DEF RecordFailure
  <2>2. CASE UNCHANGED <<pc, req>>
    BY <2>2
  <2>3. CASE Abort(r)
    BY <1>11, <2>3 DEF RecordFailure
  <2> QED
    BY <1>11, <2>1, <2>2, <2>3 DEF RecordFailure
<1>12. CASE PostShadow(r)
  BY <1>12 DEF PostShadow
<1>13. CASE LogEvent(r)
  BY <1>13 DEF LogEvent
<1>14. CASE Fail(r)
  BY <1>14 DEF Fail
<1> QED
  BY <1>1, <1>2, <1>3, <1>4, <1>5, <1>6, <1>8, <1>9, <1>10, <1>11, <1>12,
     <1>13, <1>14 DEF Step

\* Of a record of another mode only what does not depend on the mode is left.
LEMMA TreatedMixed ==
  ASSUME TInv, NEW x \in Requests, Treated(x), pc' = pc,
         \/ req'[x] = req[x]
         \/ req'[x] = [req[x] EXCEPT !.mode = "mixed"],
         \/ req'[x].mode = "mixed" \/ Mode' = Mode \/ req[x].mode = Mode'
         \/ pc[x] \in {"idle", "done"}
  PROVE  Treated(x)'
<1>0. req[x] \in Request
  BY DEF TInv, TypeOK
<1>1. CASE req'[x] = req[x]
  BY <1>1 DEF Treated
<1>2. CASE req'[x] = [req[x] EXCEPT !.mode = "mixed"]
  BY <1>0, <1>2 DEF Treated, Request
<1> QED
  BY <1>1, <1>2

\* What admins and time do keeps it too: a request in flight while the shadow
\* mode changes has seen both.
LEMMA TreatedOthers ==
  ASSUME TInv, NEW x \in Requests, Treated(x),
         \/ \E ip \in Ips, ttl \in {0, BlockTtl} : AdminBlock(ip, ttl)
         \/ \E enabled \in BOOLEAN : AdminShadow(enabled)
         \/ Tick
         \/ UNCHANGED vars
  PROVE  Treated(x)'
<1>1. CASE \/ \E ip \in Ips, ttl \in {0, BlockTtl} : AdminBlock(ip, ttl)
           \/ Tick
           \/ UNCHANGED vars
  <2>1. pc' = pc /\ req' = req /\ flag' = flag
    BY <1>1 DEF AdminBlock, Tick, vars, redisVars
  <2>2. Mode' = Mode
    BY <2>1 DEF Mode, ShadowOn
  <2> QED
    BY <2>1, <2>2, TreatedMixed
<1>2. ASSUME NEW enabled \in BOOLEAN, AdminShadow(enabled)
      PROVE  Treated(x)'
  <2>0. req[x] = [req[x] EXCEPT !.mode = req[x].mode]
    BY DEF TInv, TypeOK, Request
  <2>1. pc' = pc
    BY <1>2 DEF AdminShadow
  <2>2. CASE req[x].mode = Mode' \/ pc[x] \in {"idle", "done"}
    <3>1. req'[x] = req[x]
      BY <1>2, <2>0, <2>2 DEF AdminShadow
    <3> QED
      BY <2>1, <2>2, <3>1, TreatedMixed
  <2>3. CASE ~ (req[x].mode = Mode' \/ pc[x] \in {"idle", "done"})
    <3>1. req'[x] = [req[x] EXCEPT !.mode = "mixed"]
      BY <1>2, <2>3 DEF AdminShadow
    <3>2. req'[x].mode = "mixed"
      BY <3>1 DEF TInv, TypeOK, Request
    <3> QED
      BY <2>1, <3>1, <3>2, TreatedMixed
  <2> QED
    BY <2>2, <2>3
<1> QED
  BY <1>1, <1>2

LEMMA SInvariance == Spec => []SInv
<1>1. Init => SInv
  <2> SUFFICES ASSUME Init, NEW r \in Requests PROVE Treated(r)
    BY TInvInit DEF SInv
  <2> QED
    BY DEF Init, Treated, NewRequest
<1>2. SInv /\ [Next]_vars => SInv'
  <2> SUFFICES ASSUME SInv, [Next]_vars, NEW x \in Requests PROVE Treated(x)'
    BY TInvNext DEF SInv
  <2>1. TInv /\ Treated(x)
    BY DEF SInv
  <2>2. ASSUME NEW r \in Requests, Arrive(r) \/ Step(r)
        PROVE  Treated(x)'
    <3>1. CASE x = r
      BY <2>1, <2>2, <3>1, TreatedStep
    <3>2. CASE x # r
      <4>1. pc'[x] = pc[x] /\ req'[x] = req[x] /\ flag' = flag
        BY <2>1, <2>2, <3>2, StepLocal DEF TInv
      <4>2. Mode' = Mode
        BY <4>1 DEF Mode, ShadowOn
      <4> QED
        BY <2>1, <4>1, <4>2 DEF Treated
    <3> QED
      BY <3>1, <3>2
  <2> QED
    BY <2>1, <2>2, TreatedOthers DEF Next
<1> QED
  BY <1>1, <1>2, PTL DEF Spec

\* The detector's verdict on a request that sees one shadow mode from start to
\* end is logged and not enforced, or enforced and not logged, whatever other
\* requests, admins and time do meanwhile (middleware/abuse_detector.py:67-100,
\* middleware/shadow_mode.py:27-49).  The login's own refusal is no part of it.
THEOREM ShadowHolds == Spec => []VerdictLoggedOrEnforced
<1>1. SInv => VerdictLoggedOrEnforced
  BY DEF SInv, Treated, VerdictLoggedOrEnforced
<1> QED
  BY <1>1, SInvariance, PTL
=============================================================================
