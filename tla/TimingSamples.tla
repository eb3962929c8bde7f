--------------------------- MODULE TimingSamples ---------------------------
(***************************************************************************)
(* The timing samples of one client id (key request_times:client_id): every *)
(* request that reaches the AbuseDetector records its stamp, then reads    *)
(* what is stored and computes the spread of the gaps.                     *)
(*                                                                         *)
(* Member and score of a sample are its stamp in milliseconds, so the      *)
(* sorted set is a set of stamps.  Requests of one client id, which may be *)
(* on several hosts with clocks of their own, run between the two awaits.  *)
(***************************************************************************)
EXTENDS FiniteSetsExt

CONSTANTS
    Calls,       \* requests in flight
    MaxSamples,  \* settings.scraping_sample_size
    Ttl,         \* time to live of the key
    Num, Den,    \* settings.scraping_entropy_threshold is Num / Den
    Skew,        \* a host's clock differs from Redis's by at most this
    MaxClock     \* bound on the clock

ASSUME TimingAssumption ==
    /\ MaxSamples \in Nat \ {0} /\ Ttl \in Nat \ {0}
    /\ Num \in Nat /\ Den \in Nat \ {0}
    /\ Skew \in Nat /\ MaxClock \in Nat

VARIABLES
    clock,    \* Redis's clock
    samples,  \* the sorted set
    ttl,      \* its time to live; 0: no such key
    pc,       \* pc[c]: the await call c stands at
    stamp,    \* stamp[c]: the stamp it carries
    seen,     \* seen[c]: the stamps its last ZRANGE returned
    log       \* history: the stamps recorded since the key was last absent

vars == <<clock, samples, ttl, pc, stamp, seen, log>>

Goto(c, step) == pc' = [pc EXCEPT ![c] = step]

Return(c) == Goto(c, "idle") /\ stamp' = [stamp EXCEPT ![c] = 0]

Init ==
    /\ clock = 0
    /\ samples = {}
    /\ ttl = 0
    /\ pc = [c \in Calls |-> "idle"]
    /\ stamp = [c \in Calls |-> 0]
    /\ seen = [c \in Calls |-> {}]
    /\ log = {}

\* record_request_timing up to its await: the host's clock is read.
Send(c) ==
    /\ pc[c] = "idle"
    /\ \E now \in Nat \cap ((clock - Skew)..(clock + Skew)) :
          stamp' = [stamp EXCEPT ![c] = now]
    /\ Goto(c, "record")
    /\ UNCHANGED <<clock, samples, ttl, seen, log>>

\* Mutants of Trim: one too many is kept; the newest are removed.
TrimLate(S) ==
    {s \in S : Cardinality({t \in S : t < s}) >= Cardinality(S) - (MaxSamples + 1)}

TrimNewest(S) == {s \in S : Cardinality({t \in S : t < s}) < MaxSamples}

\* ZREMRANGEBYRANK 0 -(MaxSamples + 1): the ranks below the MaxSamples highest are removed.
Trim(S) == {s \in S : Cardinality({t \in S : t < s}) >= Cardinality(S) - MaxSamples}

\* ZADD, ZREMRANGEBYRANK and EXPIRE in one transaction.  If its reply is lost
\* the client may send it again.
Record(c) ==
    /\ pc[c] = "record"
    /\ samples' = Trim(samples \union {stamp[c]})
    /\ ttl' = Ttl
    /\ log' = log \union {stamp[c]}
    /\ \/ Goto(c, "read")
       \/ UNCHANGED pc
    /\ UNCHANGED <<clock, stamp, seen>>

\* compute_timing_entropy: ZRANGE 0 -1.
Read(c) ==
    /\ pc[c] = "read"
    /\ seen' = [seen EXCEPT ![c] = samples]
    /\ Return(c)
    /\ UNCHANGED <<clock, samples, ttl, log>>

\* Redis fails at an await, or the reply of Record is lost for good.
Fail(c) ==
    /\ pc[c] # "idle"
    /\ Return(c)
    /\ UNCHANGED <<clock, samples, ttl, seen, log>>

\* The key is gone with the last tick of its time to live.
Tick ==
    /\ clock < MaxClock
    /\ clock' = clock + 1
    /\ ttl' = IF ttl = 0 THEN 0 ELSE ttl - 1
    /\ samples' = IF ttl' = 0 THEN {} ELSE samples
    /\ log' = IF ttl' = 0 THEN {} ELSE log
    /\ UNCHANGED <<pc, stamp, seen>>

Next ==
    \/ \E c \in Calls : Send(c) \/ Record(c) \/ Read(c) \/ Fail(c)
    \/ Tick

Spec == Init /\ [][Next]_vars

-----------------------------------------------------------------------------
\* A mutant of Gap: the distance to the first stamp instead of the previous one.
GapFromFirst(S, t) == t - Min(S)

\* The gap that ends at stamp t.
Gap(S, t) == t - CHOOSE u \in S : u < t /\ \A v \in S : v < t => v <= u

\* The stamps that end a gap.
Ends(S) == {t \in S : \E u \in S : u < t}

\* statistics.stdev(gaps) < num / den, squared and without divisions.
StdevBelow(S, num, den) ==
    LET n == Cardinality(Ends(S))
        gap == [t \in Ends(S) |-> Gap(S, t)]
        sum == SumFunctionOnSet(gap, Ends(S))
        squares == SumFunctionOnSet([t \in Ends(S) |-> gap[t] * gap[t]], Ends(S)) IN
    den * den * (n * squares - sum * sum) < num * num * n * (n - 1)

\* What compute_abuse_score makes of the entropy: below half the threshold is
\* a soft block, below the threshold a throttle.
Verdict(S) ==
    IF Cardinality(S) < 3 THEN "none"
    ELSE IF StdevBelow(S, Num, 2 * Den) THEN "lowest"
    ELSE IF StdevBelow(S, Num, Den) THEN "low"
    ELSE "none"

\* Types; the key never holds more than MaxSamples samples.
TypeOK ==
    /\ clock \in Nat /\ ttl \in 0..Ttl
    /\ samples \in SUBSET Nat /\ log \in SUBSET Nat /\ IsFiniteSet(log)
    /\ samples \subseteq log /\ Cardinality(samples) <= MaxSamples
    /\ pc \in [Calls -> {"idle", "record", "read"}]
    /\ stamp \in [Calls -> Nat]
    /\ seen \in [Calls -> SUBSET Nat]

\* Trimming at every record, in whatever order the scripts of skewed hosts
\* run and however often they are replayed, is not noticed: a call is shown
\* the MaxSamples newest of all stamps since the key was last absent
\* (abuse_detector.py:76-81, 96).
Contract == INSTANCE NewestSamples WITH log <- log, quiet <- Ttl - ttl, seen <- seen

ImplementsNewest == Contract!NSSpec

Neighbours(S) ==
    {p \in S \X S : p[1] < p[2] /\ \A v \in S : v <= p[1] \/ p[2] <= v}

\* abuse_detector.py:90-91 "Bots have LOW variance (requests are suspiciously
\* regular)": evenly spaced samples are judged whatever their pace, and a
\* judged client has at least three samples, whose gaps are less apart than
\* the threshold times the root of 2 (MaxSamples - 2).
JudgedRegular ==
    \A c \in Calls :
        LET S == seen[c]
            gaps == {p[2] - p[1] : p \in Neighbours(S)} IN
        /\ Cardinality(S) >= 3 /\ Cardinality(gaps) = 1 /\ Num > 0 =>
              Verdict(S) = "lowest"
        /\ Verdict(S) # "none" =>
              /\ Cardinality(S) >= 3
              /\ \A g, h \in gaps :
                    Den * Den * (g - h) * (g - h) < 2 * (MaxSamples - 2) * Num * Num
=============================================================================
