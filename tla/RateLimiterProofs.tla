------------------------- MODULE RateLimiterProofs -------------------------
(***************************************************************************)
(* Proofs about RateLimiter for every set of requests, every limit and     *)
(* window, and every bound on clock skew.                                  *)
(*                                                                         *)
(* The key the script works on is an incomplete copy of the log: evictions *)
(* use other hosts' clocks and EXPIRE drops everything.  The argument is   *)
(* that a stamp missing from the key is so old (Forgotten) that no script  *)
(* still in flight (InFlight) could count it in its shortened window, so   *)
(* Kept lies between the two windows of the contract (KeptBetween).        *)
(***************************************************************************)
EXTENDS RateLimiter, FiniteSetTheorems, TLAPS

\* A stamp leads Redis's clock by Lead at most.
StampBound == \A r \in Requests : outcome[r] # "idle" => stamp[r] <= clock + Lead

\* A script still to be run carries a stamp that is at most Lag old.
InFlight == \A r \in Requests : outcome[r] = "sent" => clock <= stamp[r] + Lag

\* EXPIRE outlives the window of every member.
Deadline == \A a \in zset : a + Span <= expireAt + Lead

\* What the key no longer holds is older than every window to come.
Forgotten == \A a \in Log : a \in Stored \/ a + Span <= clock + Lead

\* A refusal found Limit stamps in its window.
Refusals ==
    \A r \in Requests : outcome[r] = "rejected" =>
        Cardinality(After(stamp[r] - Span)) >= Limit

Inv == TypeOK /\ StampBound /\ InFlight /\ Deadline /\ Forgotten

-----------------------------------------------------------------------------
\* The window is a natural number of milliseconds and EXPIRE's argument is
\* that window plus one second (rate_limiter.py:18, 27).
LEMMA SpanType == /\ Span \in Nat
                  /\ KeyTtl = Span + Ms
                  /\ Slack \in Nat
  BY RateAssumption DEF Span, Slack, KeyTtl

\* There are finitely many requests, so the log and its parts are finite.
LEMMA LogFinite ==
  ASSUME TypeOK
  PROVE  /\ IsFiniteSet(Log)
         /\ Log \subseteq Nat
         /\ \A S \in SUBSET Log : IsFiniteSet(S)
<1>1. IsFiniteSet(entered)
  BY RateAssumption, FS_Subset DEF TypeOK
<1>2. IsFiniteSet(Log)
  <2> DEFINE f == [r \in entered |-> stamp[r]]
  <2>1. f \in Surjection(entered, Log)
    BY DEF Surjection, Log, Contract!Log
  <2> QED
    BY <1>1, <2>1, FS_Surjection
<1>3. Log \subseteq Nat
  BY DEF TypeOK, Log, Contract!Log
<1> QED
  BY <1>2, <1>3, FS_Subset

\* What a script that is about to run finds in the key lies between the
\* shortened window and the whole one (rate_limiter.py:20-23).
LEMMA KeptBetween ==
  ASSUME Inv, NEW r \in Requests, outcome[r] = "sent"
  PROVE  /\ After(stamp[r] - Span + Slack) \subseteq Kept(stamp[r])
         /\ Kept(stamp[r]) \subseteq After(stamp[r] - Span)
<1> USE SpanType, RateAssumption
<1>1. /\ stamp[r] \in Nat /\ clock \in Nat
      /\ clock <= stamp[r] + Lag
      /\ Log \subseteq Nat
      /\ Stored \subseteq Log
  BY LogFinite DEF Inv, TypeOK, InFlight, Stored
<1>2. ASSUME NEW a \in Log, a > stamp[r] - Span + Slack
      PROVE  a \in Kept(stamp[r])
  <2>1. ~ (a + Span <= clock + Lead)
    BY <1>1, <1>2 DEF Slack
  <2>2. a \in Stored
    BY <2>1 DEF Inv, Forgotten
  <2> QED
    BY <1>1, <1>2, <2>2 DEF Kept
<1> QED
  BY <1>1, <1>2 DEF Kept, After, Contract!After, Log

\* The same in numbers: what the script counts is bounded by both windows.
LEMMA KeptCounts ==
  ASSUME Inv, NEW r \in Requests, outcome[r] = "sent"
  PROVE  /\ IsFiniteSet(Kept(stamp[r]))
         /\ Cardinality(After(stamp[r] - Span + Slack))
               <= Cardinality(Kept(stamp[r]))
         /\ Cardinality(Kept(stamp[r]))
               <= Cardinality(After(stamp[r] - Span))
         /\ Cardinality(Kept(stamp[r])) \in Nat
         /\ Cardinality(After(stamp[r] - Span)) \in Nat
         /\ Cardinality(After(stamp[r] - Span + Slack)) \in Nat
<1>1. /\ Kept(stamp[r]) \in SUBSET Log
      /\ After(stamp[r] - Span) \in SUBSET Log
      /\ After(stamp[r] - Span + Slack) \in SUBSET Log
  BY KeptBetween DEF After, Contract!After, Log
<1>2. /\ IsFiniteSet(Kept(stamp[r]))
      /\ IsFiniteSet(After(stamp[r] - Span))
      /\ IsFiniteSet(After(stamp[r] - Span + Slack))
  BY <1>1, LogFinite DEF Inv
<1> QED
  BY <1>2, KeptBetween, FS_Subset, FS_CardinalityType

\* Only a script that admits adds to the log, and only its own stamp.
LEMMA LogGrows ==
  ASSUME TypeOK, [Next]_vars
  PROVE  /\ \/ Log' = Log
            \/ \E r \in Requests : RunAdmit(r) /\ Log' = Log \union {stamp[r]}
         /\ \A r \in Requests : outcome[r] # "idle" => stamp'[r] = stamp[r]
<1>1. ASSUME NEW r \in Requests, Send(r)
      PROVE  /\ Log' = Log
             /\ \A q \in Requests : outcome[q] # "idle" => stamp'[q] = stamp[q]
  BY <1>1 DEF Send, TypeOK, Log, Contract!Log
<1>2. ASSUME NEW r \in Requests, RunAdmit(r)
      PROVE  Log' = Log \union {stamp[r]} /\ stamp' = stamp
  BY <1>2 DEF RunAdmit, Room, Expiry, Left, TypeOK, Log, Contract!Log
<1>3. ASSUME NEW r \in Requests, RunRefuse(r) \/ Raise(r)
      PROVE  Log' = Log /\ stamp' = stamp
  BY <1>3 DEF RunRefuse, Room, Raise, Log, Contract!Log
<1>4. CASE Tick \/ Finished \/ UNCHANGED vars
  BY <1>4 DEF Tick, Finished, vars, Log, Contract!Log
<1> QED
  BY <1>1, <1>2, <1>3, <1>4 DEF Next

-----------------------------------------------------------------------------
\* Inv holds when the key is empty and nothing was sent.
LEMMA InvInit == Init => Inv
<1> SUFFICES ASSUME Init PROVE Inv
  OBVIOUS
<1>1. zset = {} /\ Log = {} /\ Stored = {}
  BY DEF Init, Log, Contract!Log, Stored
<1>2. TypeOK
  BY <1>1, RateAssumption, FS_EmptySet DEF Init, TypeOK
<1> QED
  BY <1>1, <1>2 DEF Inv, Init, StampBound, InFlight, Deadline, Forgotten

\* One more member of a set that was below the limit.
LEMMA AddOne ==
  ASSUME NEW S, NEW x, IsFiniteSet(S), Cardinality(S) < Limit
  PROVE  IsFiniteSet(S \union {x}) /\ Cardinality(S \union {x}) <= Limit
<1>1. Cardinality(S) \in Nat /\ Limit \in Nat
  BY FS_CardinalityType, RateAssumption
<1>2. /\ IsFiniteSet(S \union {x})
      /\ \/ Cardinality(S \union {x}) = Cardinality(S)
         \/ Cardinality(S \union {x}) = Cardinality(S) + 1
  BY FS_AddElement
<1> QED
  BY <1>1, <1>2

\* Every step of a script, a caller or the clock preserves Inv.
LEMMA InvNext == Inv /\ [Next]_vars => Inv'
<1> SUFFICES ASSUME Inv, [Next]_vars PROVE Inv'
  OBVIOUS
<1> USE RateAssumption
<1>0. /\ Span \in Nat /\ TypeOK /\ StampBound /\ InFlight /\ Deadline /\ Forgotten
      /\ clock \in Nat /\ expireAt \in Nat
      /\ Log \subseteq Nat /\ Stored \subseteq zset
  BY LogFinite, SpanType DEF Inv, TypeOK, Stored
<1>1. ASSUME NEW r \in Requests, Send(r) PROVE Inv'
  <2>1. Log' = Log /\ Stored' = Stored
    BY <1>0, <1>1 DEF Send, TypeOK, Stored, Log, Contract!Log
  <2>2. TypeOK'
    BY <1>0, <1>1, <2>1 DEF Send, TypeOK
  <2> QED
    BY <1>0, <1>1, <2>1, <2>2
       DEF Send, Inv, TypeOK, StampBound, InFlight, Deadline, Forgotten
<1>2. ASSUME NEW r \in Requests, RunAdmit(r) PROVE Inv'
  <2>1. /\ outcome[r] = "sent" /\ stamp[r] \in Nat
        /\ stamp[r] <= clock + Lead
    BY <1>0, <1>2 DEF RunAdmit, Room, Expiry, Left, TypeOK, StampBound
  <2>2. /\ IsFiniteSet(Kept(stamp[r]))
        /\ Cardinality(Kept(stamp[r])) \in Nat
        /\ Cardinality(Kept(stamp[r])) < Limit
        /\ Kept(stamp[r]) \subseteq zset
    BY <1>0, <1>2, <2>1, KeptCounts DEF RunAdmit, Room, Expiry, Left, Kept
  <2>3. Log' = Log \union {stamp[r]}
    BY <1>0, <1>2 DEF RunAdmit, Room, Expiry, Left, TypeOK, Log, Contract!Log
  <2>4. zset' = Kept(stamp[r]) \union {stamp[r]} /\ expireAt' = clock + Span + Ms
    BY <1>0, <1>2, SpanType DEF RunAdmit, Room, Expiry, Left
  <2>5. Stored' = zset'
    BY <1>0, <1>2, <2>4 DEF RunAdmit, Room, Expiry, Left, Stored
  <2>6. TypeOK'
    <3>1. Cardinality(zset') <= Limit
      BY <2>2, <2>4, AddOne
    <3>2. zset' \subseteq Log'
      BY <1>0, <2>2, <2>3, <2>4 DEF TypeOK
    <3>3. remaining' \in [Requests -> 0..Limit]
      BY <1>0, <1>2, <2>2 DEF RunAdmit, Room, Expiry, Left, TypeOK
    <3> QED
      BY <1>0, <1>2, <2>1, <2>4, <3>1, <3>2, <3>3 DEF RunAdmit, Room, Expiry, Left, TypeOK
  <2>7. StampBound' /\ InFlight'
    BY <1>0, <1>2 DEF RunAdmit, Room, Expiry, Left, TypeOK, StampBound, InFlight
  <2>8. Deadline'
    <3>1. \A a \in Log : a <= clock + Lead
      BY <1>0 DEF Log, Contract!Log, TypeOK, StampBound
    <3>2. zset' \subseteq Log \union {stamp[r]}
      BY <1>0, <2>2, <2>4 DEF TypeOK
    <3>3. \A a \in zset' : a \in Nat /\ a <= clock + Lead
      BY <1>0, <2>1, <3>1, <3>2
    <3> QED
      BY <1>0, <2>4, <3>3 DEF Deadline
  <2>9. Forgotten'
    <3> SUFFICES ASSUME NEW a \in Log', a \notin zset'
                 PROVE  a + Span <= clock + Lead
      BY <1>2, <2>5 DEF Forgotten, RunAdmit, Room, Expiry, Left
    <3>1. a \in Log /\ a \notin Kept(stamp[r])
      BY <2>3, <2>4
    <3>2. CASE a \in Stored
      <4>1. a \in Nat /\ ~ (a > stamp[r] - Span)
        BY <1>0, <3>1, <3>2 DEF Kept
      <4> QED
        BY <1>0, <2>1, <4>1
    <3> QED
      BY <1>0, <3>1, <3>2 DEF Forgotten
  <2> QED
    BY <2>6, <2>7, <2>8, <2>9 DEF Inv
<1>3. ASSUME NEW r \in Requests, RunRefuse(r) PROVE Inv'
  <2>1. /\ outcome[r] = "sent" /\ stamp[r] \in Nat
        /\ stamp[r] <= clock + Lead
    BY <1>0, <1>3 DEF RunRefuse, Room, TypeOK, StampBound
  <2>2. Kept(stamp[r]) \subseteq zset /\ Kept(stamp[r]) \subseteq Stored
    BY <1>0 DEF Kept
  <2>3. /\ Log' = Log /\ zset' = Kept(stamp[r])
        /\ Stored' \in {Kept(stamp[r]), {}} /\ expireAt' = expireAt
    BY <1>3 DEF RunRefuse, Room, Stored, Log, Contract!Log
  <2>4. Cardinality(Kept(stamp[r])) <= Limit
    <3>1. IsFiniteSet(zset) /\ Cardinality(zset) <= Limit
      BY <1>0, LogFinite DEF TypeOK
    <3> QED
      BY <2>2, <3>1, FS_Subset, FS_CardinalityType
  <2>5. TypeOK'
    BY <1>0, <1>3, <2>2, <2>3, <2>4 DEF RunRefuse, Room, TypeOK
  <2>6. StampBound' /\ InFlight' /\ Deadline'
    BY <1>0, <1>3, <2>2, <2>3 DEF RunRefuse, Room, TypeOK, StampBound, InFlight, Deadline
  <2>7. Forgotten'
    <3> SUFFICES ASSUME NEW a \in Log, a \notin Stored'
                 PROVE  a + Span <= clock + Lead
      BY <1>3, <2>3 DEF Forgotten, RunRefuse, Room
    <3>1. CASE a \notin Stored
      BY <1>0, <3>1 DEF Forgotten
    <3>2. CASE a \in Stored
      <4>1. clock' = clock /\ ~ (clock > expireAt)
        BY <1>3, <3>2 DEF Stored, RunRefuse, Room
      <4>2. a \notin Kept(stamp[r])
        BY <1>0, <2>3, <4>1 DEF Stored
      <4> QED
        BY <1>0, <2>1, <3>2, <4>2 DEF Kept
    <3> QED
      BY <3>1, <3>2
  <2> QED
    BY <2>5, <2>6, <2>7 DEF Inv
<1>4. ASSUME NEW r \in Requests, Raise(r) PROVE Inv'
  <2>1. Log' = Log /\ Stored' = Stored
    BY <1>4 DEF Raise, Stored, Log, Contract!Log
  <2> QED
    BY <1>0, <1>4, <2>1
       DEF Raise, Inv, TypeOK, StampBound, InFlight, Deadline, Forgotten
<1>5. CASE Tick
  <2>1. Log' = Log /\ zset' = zset /\ clock' = clock + 1 /\ expireAt' = expireAt
    BY <1>5 DEF Tick, Log, Contract!Log
  <2>2. TypeOK'
    BY <1>0, <1>5, <2>1 DEF Tick, TypeOK
  <2>3. StampBound' /\ InFlight' /\ Deadline'
    BY <1>0, <1>5, <2>1 DEF Tick, TypeOK, StampBound, InFlight, Deadline
  <2>4. Forgotten'
    <3> SUFFICES ASSUME NEW a \in Log, a \notin Stored'
                 PROVE  a + Span <= clock + 1 + Lead
      BY <2>1 DEF Forgotten
    <3>1. CASE a \in Stored
      <4>1. a \in zset /\ clock + 1 > expireAt
        BY <1>0, <2>1, <3>1 DEF Stored
      <4> QED
        BY <1>0, <4>1 DEF Deadline
    <3> QED
      BY <1>0, <3>1 DEF Forgotten
  <2> QED
    BY <2>2, <2>3, <2>4 DEF Inv
<1>6. CASE Finished \/ UNCHANGED vars
  BY <1>0, <1>6 DEF Finished, vars, Inv, TypeOK, StampBound, InFlight, Deadline,
     Forgotten, Stored, Log, Contract!Log
<1> QED
  BY <1>1, <1>2, <1>3, <1>4, <1>5, <1>6 DEF Next

\* Inv holds in every reachable state.
LEMMA Invariance == Spec => []Inv
  BY InvInit, InvNext, PTL DEF Spec

\* Types, and the key that never holds more than Limit members.
THEOREM TypeCorrect == Spec => []TypeOK
<1>1. Inv => TypeOK
  BY DEF Inv
<1> QED
  BY Invariance, <1>1, PTL

-----------------------------------------------------------------------------
\* The window property survives a step: a window the new stamp falls into
\* holds, besides it, only stamps the script counted.
LEMMA WindowNext == Inv /\ WindowLimit /\ [Next]_vars => WindowLimit'
<1> DEFINE Win(L, t) == {a \in L : t - (Span - Slack) < a /\ a <= t}
<1> SUFFICES ASSUME Inv, WindowLimit, [Next]_vars, NEW t \in Log'
             PROVE  Cardinality(Win(Log', t)) <= Limit
  BY DEF WindowLimit
<1>0. Log \subseteq Nat /\ Span \in Nat /\ Slack \in Nat
  BY LogFinite, SpanType DEF Inv
<1>1. CASE Log' = Log
  BY <1>1 DEF WindowLimit
<1>2. ASSUME NEW r \in Requests, RunAdmit(r), Log' = Log \union {stamp[r]}
      PROVE  Cardinality(Win(Log', t)) <= Limit
  <2>1. /\ outcome[r] = "sent" /\ stamp[r] \in Nat
        /\ Cardinality(Kept(stamp[r])) < Limit
    BY <1>2 DEF RunAdmit, Room, Expiry, Left, Inv, TypeOK
  <2>2. IsFiniteSet(Kept(stamp[r]))
    BY <2>1, KeptCounts
  <2>3. CASE stamp[r] \in Win(Log', t)
    <3>1. /\ IsFiniteSet(Kept(stamp[r]) \union {stamp[r]})
          /\ Cardinality(Kept(stamp[r]) \union {stamp[r]}) <= Limit
      BY <2>1, <2>2, AddOne
    <3>2. ASSUME NEW a \in Win(Log', t), a # stamp[r]
          PROVE  a \in Kept(stamp[r])
      <4>1. a \in Log /\ a \in Nat /\ t \in Nat
        BY <1>0, <1>2, <2>1, <3>2
      <4>2. t - (Span - Slack) < a /\ stamp[r] <= t
        BY <2>3, <3>2
      <4>3. a > stamp[r] - Span + Slack
        BY <1>0, <2>1, <4>1, <4>2
      <4> QED
        BY <2>1, <4>1, <4>3, KeptBetween DEF After, Contract!After, Log
    <3>3. Win(Log', t) \subseteq Kept(stamp[r]) \union {stamp[r]}
      BY <3>2
    <3>4. /\ Cardinality(Win(Log', t))
               <= Cardinality(Kept(stamp[r]) \union {stamp[r]})
          /\ IsFiniteSet(Win(Log', t))
      BY <3>1, <3>3, FS_Subset
    <3> QED
      BY <3>1, <3>4, FS_CardinalityType, RateAssumption
  <2>4. CASE stamp[r] \notin Win(Log', t)
    <3>1. Win(Log', t) = Win(Log, t)
      BY <1>2, <2>4
    <3>2. CASE t \in Log
      BY <3>1, <3>2 DEF WindowLimit
    <3>3. CASE t = stamp[r]
      <4>1. Win(Log, t) = {}
        <5>1. stamp[r] \in Log'
          BY <1>2
        <5>2. ~ (stamp[r] - (Span - Slack) < stamp[r])
          BY <2>1, <2>4, <3>3, <5>1
        <5>3. Span - Slack <= 0
          BY <1>0, <2>1, <5>2
        <5>4. \A a \in Log : ~ (stamp[r] - (Span - Slack) < a /\ a <= stamp[r])
          BY <1>0, <2>1, <5>3
        <5> QED
          BY <3>3, <5>4
      <4> QED
        BY <3>1, <4>1, FS_EmptySet, RateAssumption
    <3> QED
      BY <1>2, <3>2, <3>3
  <2> QED
    BY <2>3, <2>4
<1> QED
  BY <1>1, <1>2, LogGrows DEF Inv

\* The sliding window holds for every limit, window length and clock skew.
THEOREM WindowHolds == Spec => []WindowLimit
<1>1. Init => WindowLimit
  BY DEF Init, WindowLimit, Log, Contract!Log
<1> QED
  BY <1>1, WindowNext, Invariance, PTL DEF Spec

\* A refusal is recorded with a full window, and the log only grows.
LEMMA RefusalsNext == Inv /\ Refusals /\ [Next]_vars => Refusals'
<1> SUFFICES ASSUME Inv, Refusals, [Next]_vars,
                    NEW r \in Requests, outcome'[r] = "rejected"
             PROVE  Cardinality(After(stamp[r] - Span)') >= Limit
  BY DEF Refusals
<1>1. outcome[r] = "rejected" \/ (RunRefuse(r) /\ outcome[r] = "sent")
  BY DEF Next, vars, Send, RunAdmit, Room, Expiry, Left, RunRefuse, Raise, Tick, Finished, Inv, TypeOK
<1>2. /\ Cardinality(After(stamp[r] - Span)) >= Limit
      /\ stamp'[r] = stamp[r]
  <2>1. CASE outcome[r] = "rejected"
    BY <2>1, LogGrows DEF Refusals, Inv
  <2>2. CASE RunRefuse(r) /\ outcome[r] = "sent"
    BY <2>2, KeptCounts, RateAssumption DEF RunRefuse, Room
  <2> QED
    BY <1>1, <2>1, <2>2
<1>3. IsFiniteSet(Log') /\ Log \subseteq Log' /\ IsFiniteSet(Log)
  <2>1. IsFiniteSet(Log)
    BY LogFinite DEF Inv
  <2>2. \A x : IsFiniteSet(Log \union {x})
    BY <2>1, FS_AddElement
  <2> QED
    BY <2>1, <2>2, LogGrows DEF Inv
<1> DEFINE Old == After(stamp[r] - Span)
           New == After(stamp[r] - Span)'
<1>4. Old \subseteq New /\ IsFiniteSet(New) /\ IsFiniteSet(Old)
  BY <1>2, <1>3, FS_Subset DEF After, Contract!After, Log
<1>5. Cardinality(Old) <= Cardinality(New)
  BY <1>4, FS_Subset
<1>6. Cardinality(Old) \in Nat /\ Cardinality(New) \in Nat
  BY <1>4, FS_CardinalityType
<1> QED
  BY <1>2, <1>5, <1>6, RateAssumption

\* Retry-After is honest for every limit, window length and clock skew.
THEOREM RetryAfterHolds == Spec => []RetryAfterHonoured
<1>1. Init => Refusals
  BY DEF Init, Refusals
<1>2. Inv /\ Refusals => RetryAfterHonoured
  <2> SUFFICES ASSUME Inv, Refusals, NEW r \in Requests, NEW q \in Requests,
                      outcome[r] = "rejected", outcome[q] = "rejected",
                      stamp[q] >= stamp[r] + Span
               PROVE  Cardinality(After(stamp[r])) >= Limit
    BY DEF RetryAfterHonoured
  <2> DEFINE Late == After(stamp[q] - Span)
             Wide == After(stamp[r])
  <2>1. /\ Log \subseteq Nat /\ Span \in Nat
        /\ stamp[q] \in Nat /\ stamp[r] \in Nat
    BY LogFinite, SpanType DEF Inv, TypeOK
  <2>2. Late \subseteq Wide
    <3>1. \A a \in Log : a > stamp[q] - Span => a > stamp[r]
      BY <2>1
    <3> QED
      BY <3>1 DEF After, Contract!After, Log
  <2>3. IsFiniteSet(Late) /\ IsFiniteSet(Wide)
    BY LogFinite DEF Inv, After, Contract!After, Log
  <2>4. Cardinality(Late) <= Cardinality(Wide)
    BY <2>2, <2>3, FS_Subset
  <2>5. Cardinality(Late) >= Limit
    BY DEF Refusals
  <2> QED
    BY <2>3, <2>4, <2>5, FS_CardinalityType, RateAssumption
<1> QED
  BY <1>1, <1>2, RefusalsNext, Invariance, PTL DEF Spec

\* The remaining quota sent with an admission is never too large.
THEOREM PromiseHolds == Spec => PromiseWithinQuota
<1> DEFINE Fits(r) == outcome[r] = "sent" /\ outcome'[r] = "allowed" =>
        remaining'[r] + Cardinality({a \in Log' : a > stamp[r] - Span + Slack})
           <= Limit
<1>1. ASSUME Inv, [Next]_vars, NEW r \in Requests,
             outcome[r] = "sent", outcome'[r] = "allowed"
      PROVE  remaining'[r] + Cardinality({a \in Log' : a > stamp[r] - Span + Slack})
                <= Limit
  <2> DEFINE K == Kept(stamp[r])
             W == {a \in Log' : a > stamp[r] - Span + Slack}
  <2>1. /\ RunAdmit(r)
        /\ remaining'[r] = Limit - Cardinality(Kept(stamp[r])) - 1
    BY <1>1 DEF Next, vars, Send, RunAdmit, Room, Expiry, Left, RunRefuse, Raise, Tick, Finished,
       Inv, TypeOK
  <2>2. /\ IsFiniteSet(K) /\ Cardinality(K) \in Nat
        /\ After(stamp[r] - Span + Slack) \subseteq K
    BY <1>1, KeptCounts, KeptBetween
  <2>3. Log' = Log \union {stamp[r]}
    BY <1>1, <2>1 DEF RunAdmit, Room, Expiry, Left, Inv, TypeOK, Log, Contract!Log
  <2>4. W \subseteq K \union {stamp[r]}
    BY <2>2, <2>3 DEF After, Contract!After, Log
  <2>5. /\ IsFiniteSet(K \union {stamp[r]})
        /\ \/ Cardinality(K \union {stamp[r]}) = Cardinality(K)
           \/ Cardinality(K \union {stamp[r]}) = Cardinality(K) + 1
    BY <2>2, FS_AddElement
  <2>6. IsFiniteSet(W) /\ Cardinality(W) <= Cardinality(K \union {stamp[r]})
    BY <2>4, <2>5, FS_Subset
  <2>7. Cardinality(W) \in Nat
    BY <2>6, FS_CardinalityType
  <2> HIDE DEF W, K
  <2>8. remaining'[r] = Limit - Cardinality(K) - 1
    BY <2>1 DEF K
  <2>9. remaining'[r] + Cardinality(W) <= Limit
    BY <2>2, <2>5, <2>6, <2>7, <2>8, RateAssumption
  <2> QED
    BY <2>9 DEF W
<1>2. Inv /\ [Next]_vars => [\A r \in Requests : Fits(r)]_vars
  BY <1>1
<1> QED
  BY <1>2, Invariance, PTL DEF Spec, PromiseWithinQuota

-----------------------------------------------------------------------------
\* The contract counts with the same Cardinality.
LEMMA SameCount == \A S : Contract!Cardinality(S) = Cardinality(S)
  BY DEF Contract!Cardinality, Cardinality

\* A step of the script, a caller or the clock is a step of the sliding log
\* or leaves it alone.
LEMMA StepRefines == Inv /\ [Next]_vars => [Contract!SWNext]_(Contract!swVars)
<1> SUFFICES ASSUME Inv, [Next]_vars
             PROVE  Contract!SWNext \/ UNCHANGED Contract!swVars
  OBVIOUS
<1>0. /\ TypeOK /\ Limit \in Nat /\ Lead \in Nat
  BY RateAssumption DEF Inv
<1>1. ASSUME NEW r \in Requests, Send(r) PROVE Contract!Arrive(r)
  <2>1. clock \in Nat /\ stamp \in [Requests -> Nat]
    BY <1>0 DEF TypeOK
  <2>2. PICK now \in 0..(clock + Lead) : stamp' = [stamp EXCEPT ![r] = now]
    BY <1>1 DEF Send
  <2>3. now \in Nat /\ stamp'[r] = now
    BY <1>0, <2>1, <2>2
  <2> QED
    BY <1>1, <2>2, <2>3 DEF Send, Contract!Arrive
<1>2. ASSUME NEW r \in Requests, RunAdmit(r) PROVE Contract!Admit(r)
  <2>1. outcome[r] = "sent" /\ Cardinality(Kept(stamp[r])) < Limit
    BY <1>2 DEF RunAdmit, Room, Expiry, Left
  <2>2. Cardinality(After(stamp[r] - Span + Slack)) < Limit
    BY <1>0, <2>1, KeptCounts
  <2>3. Contract!Cardinality(Contract!After(stamp[r] - Span + Slack)) < Limit
    BY <2>2, SameCount DEF After
  <2> QED
    BY <1>2, <2>3 DEF RunAdmit, Room, Expiry, Left, Contract!Admit
<1>3. ASSUME NEW r \in Requests, RunRefuse(r)
      PROVE  Contract!Refuse(r) \/ UNCHANGED Contract!swVars
  <2>1. outcome[r] = "sent" /\ ~ Room(stamp[r])
    BY <1>3 DEF RunRefuse
  <2>2. Cardinality(After(stamp[r] - Span)) >= Limit
    BY <1>0, <2>1, KeptCounts, RateAssumption DEF Room
  <2>3. Contract!Cardinality(Contract!After(stamp[r] - Span)) >= Limit
    BY <2>2, SameCount DEF After
  <2> QED
    BY <1>3, <2>3 DEF RunRefuse, Room, Contract!Refuse, Contract!swVars
<1>4. ASSUME NEW r \in Requests, Raise(r) PROVE Contract!Fail(r)
  BY <1>4 DEF Raise, Contract!Fail
<1>5. CASE Tick \/ Finished \/ UNCHANGED vars
  BY <1>5 DEF Tick, Finished, vars, Contract!swVars
<1> QED
  BY <1>1, <1>2, <1>3, <1>4, <1>5 DEF Next, Contract!SWNext

\* The Lua script, its eviction, its expiry and the client's retries implement
\* the sliding log.
THEOREM Refinement == Spec => ImplementsContract
<1>1. Init => Contract!SWInit
  BY DEF Init, Contract!SWInit
<1> QED
  BY <1>1, StepRefines, Invariance, PTL DEF Spec, ImplementsContract, Contract!SWSpec
=============================================================================
