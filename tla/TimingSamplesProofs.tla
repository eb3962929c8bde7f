------------------------ MODULE TimingSamplesProofs ------------------------
(***************************************************************************)
(* Proofs about TimingSamples for any number of calls, any sample size and *)
(* any skew.  The key fact is that what was trimmed is never missed: the   *)
(* newest of the newest, with one more stamp, are the newest of all.       *)
(***************************************************************************)
EXTENDS TimingSamples, FiniteSums

Above(S, s) == {t \in S : t > s}

Newest(S) == {s \in S : Cardinality(Above(S, s)) < MaxSamples}

\* The key holds the newest of what it was given, and goes with its deadline.
Inv ==
    /\ TypeOK
    /\ samples = Newest(log)
    /\ ttl = 0 => log = {}

-----------------------------------------------------------------------------
\* The contract counts with the same Cardinality.
LEMMA SameNewest ==
  ASSUME NEW S
  PROVE  Contract!Newest(S) = Newest(S)
<1>1. \A T : Contract!Cardinality(T) = Cardinality(T)
  BY DEF Contract!Cardinality, Cardinality
<1>2. \A s : Above(S, s) = {t \in S : t > s}
  BY DEF Above
<1>3. \A s : Contract!Cardinality({t \in S : t > s}) = Cardinality(Above(S, s))
  BY <1>1, <1>2
<1> QED
  BY <1>3 DEF Newest, Contract!Newest

LEMMA AboveFacts ==
  ASSUME NEW S \in SUBSET Nat, IsFiniteSet(S), NEW s \in Nat
  PROVE  IsFiniteSet(Above(S, s)) /\ Cardinality(Above(S, s)) \in Nat
<1>1. Above(S, s) \in SUBSET S
  BY DEF Above
<1> QED
  BY <1>1, FS_Subset, FS_CardinalityType

\* More stamps have more above them.
LEMMA AboveGrows ==
  ASSUME NEW S \in SUBSET Nat, IsFiniteSet(S), NEW T \in SUBSET S, NEW s \in Nat
  PROVE  Cardinality(Above(T, s)) <= Cardinality(Above(S, s))
<1>1. Above(T, s) \in SUBSET Above(S, s)
  BY DEF Above
<1>2. IsFiniteSet(Above(S, s))
  BY AboveFacts
<1> QED
  BY <1>1, <1>2, FS_Subset

\* Trimming by rank keeps what has fewer than MaxSamples above it.
LEMMA TrimIsNewest ==
  ASSUME NEW S \in SUBSET Nat, IsFiniteSet(S)
  PROVE  Trim(S) = Newest(S)
<1> DEFINE Below(s) == {t \in S : t < s}
<1>1. ASSUME NEW s \in S
      PROVE  /\ Cardinality(Below(s)) \in Nat
             /\ Cardinality(S) = Cardinality(Below(s)) + Cardinality(Above(S, s)) + 1
  <2>1. IsFiniteSet(Above(S, s)) /\ Cardinality(Above(S, s)) \in Nat
    BY AboveFacts
  <2>0. s \in Nat /\ \A t \in S : t \in Nat
    OBVIOUS
  <2>2. Below(s) \in SUBSET S
    OBVIOUS
  <2>3. IsFiniteSet(Below(s)) /\ Cardinality(Below(s)) \in Nat
    BY <2>2, FS_Subset, FS_CardinalityType
  <2>4. Below(s) \cap Above(S, s) = {}
    <3> SUFFICES ASSUME NEW t \in S, t < s, t > s PROVE FALSE
      BY DEF Above
    <3> QED
      BY <2>0
  <2>5. /\ IsFiniteSet(Below(s) \union Above(S, s))
        /\ Cardinality(Below(s) \union Above(S, s)) =
              Cardinality(Below(s)) + Cardinality(Above(S, s)) - Cardinality({})
    BY <2>1, <2>3, <2>4, FS_Union
  <2>6. s \notin Below(s) \union Above(S, s)
    BY DEF Above
  <2>7. S = (Below(s) \union Above(S, s)) \union {s}
    <3>1. \A t \in S : t < s \/ t = s \/ t > s
      BY <2>0
    <3> QED
      BY <3>1 DEF Above
  <2>8. Cardinality(S) = Cardinality(Below(s) \union Above(S, s)) + 1
    BY <2>5, <2>6, <2>7, FS_AddElement
  <2>9. Cardinality({}) = 0
    BY FS_EmptySet
  <2> HIDE DEF Below
  <2> QED
    BY <2>1, <2>3, <2>5, <2>8, <2>9
<1>2. ASSUME NEW s \in S
      PROVE  Cardinality(Below(s)) >= Cardinality(S) - MaxSamples
                <=> Cardinality(Above(S, s)) < MaxSamples
  <2>1. Cardinality(Above(S, s)) \in Nat
    BY AboveFacts
  <2> HIDE DEF Below
  <2> QED
    BY <1>1, <2>1, TimingAssumption
<1>3. Trim(S) = {s \in S : Cardinality(Below(s)) >= Cardinality(S) - MaxSamples}
  BY DEF Trim
<1> HIDE DEF Below
<1> QED
  BY <1>2, <1>3 DEF Newest

\* No more than MaxSamples are the newest.
LEMMA NewestBounded ==
  ASSUME NEW S \in SUBSET Nat, IsFiniteSet(S)
  PROVE  /\ Newest(S) \in SUBSET S /\ IsFiniteSet(Newest(S))
         /\ Cardinality(Newest(S)) <= MaxSamples
<1>1. Newest(S) \in SUBSET S
  BY DEF Newest
<1>2. IsFiniteSet(Newest(S))
  BY <1>1, FS_Subset
<1>3. CASE Newest(S) = {}
  BY <1>2, <1>1, <1>3, FS_EmptySet, TimingAssumption
<1>4. CASE Newest(S) # {}
  <2>1. PICK m \in Newest(S) : \A s \in Newest(S) : m <= s
    BY <1>1, <1>4, Smallest
  <2>0. m \in Nat /\ \A t \in Newest(S) : t \in S /\ t \in Nat
    BY <1>1
  <2>2. /\ IsFiniteSet(Above(S, m)) /\ Cardinality(Above(S, m)) \in Nat
        /\ Cardinality(Above(S, m)) < MaxSamples
    BY <1>1, AboveFacts DEF Newest
  <2>3. Newest(S) \in SUBSET (Above(S, m) \union {m})
    <3>1. \A t \in Newest(S) : t = m \/ t > m
      BY <2>0, <2>1
    <3> QED
      BY <2>0, <3>1 DEF Above
  <2>4. /\ IsFiniteSet(Above(S, m) \union {m})
        /\ Cardinality(Above(S, m) \union {m}) <= MaxSamples
    <3>1. m \notin Above(S, m)
      BY <2>0 DEF Above
    <3>2. /\ IsFiniteSet(Above(S, m) \union {m})
          /\ Cardinality(Above(S, m) \union {m}) = Cardinality(Above(S, m)) + 1
      BY <2>2, <3>1, FS_AddElement
    <3> QED
      BY <2>2, <3>2, TimingAssumption
  <2>5. Cardinality(Newest(S)) <= Cardinality(Above(S, m) \union {m})
    BY <2>3, <2>4, FS_Subset
  <2>6. /\ Cardinality(Newest(S)) \in Nat
        /\ Cardinality(Above(S, m) \union {m}) \in Nat
    BY <1>2, <2>4, FS_CardinalityType
  <2> QED
    BY <1>1, <1>2, <2>4, <2>5, <2>6, TimingAssumption
<1> QED
  BY <1>3, <1>4

\* Above a stamp that is not among the newest there are MaxSamples that are.
LEMMA NewestAbove ==
  ASSUME NEW S \in SUBSET Nat, IsFiniteSet(S), NEW s \in Nat,
         NEW t \in S, t > s, t \notin Newest(S)
  PROVE  Cardinality(Above(Newest(S), s)) >= MaxSamples
<1> DEFINE Old == {u \in S : u > s /\ u \notin Newest(S)}
           Counts == {Cardinality(Above(S, u)) : u \in Old}
<1>1. Counts \in SUBSET Nat /\ Counts # {}
  BY AboveFacts
<1>2. PICK n \in Counts : \A k \in Counts : n <= k
  <2> HIDE DEF Counts
  <2> QED
    BY <1>1, Smallest
<1>3. PICK m \in Old : n = Cardinality(Above(S, m))
  OBVIOUS
<1>4. ASSUME NEW u \in Above(S, m) PROVE u \in Newest(S) /\ u > s
  <2>1. u \in S /\ u > m /\ m > s /\ u \in Nat /\ m \in Nat
    BY DEF Above
  <2>2. Above(S, u) \in SUBSET Above(S, m)
    <3>1. \A v \in S : v \in Nat
      OBVIOUS
    <3>2. \A v \in S : v > u => v > m
      BY <2>1, <3>1
    <3> QED
      BY <3>2 DEF Above
  <2>3. Above(S, u) # Above(S, m)
    BY <2>1 DEF Above
  <2>4. IsFiniteSet(Above(S, m)) /\ Cardinality(Above(S, m)) \in Nat
    BY <2>1, AboveFacts
  <2>5. Cardinality(Above(S, u)) \in Nat
    BY <2>1, AboveFacts
  <2>6. Cardinality(Above(S, u)) < Cardinality(Above(S, m))
    BY <2>2, <2>3, <2>4, <2>5, FS_Subset
  <2>7. Cardinality(Above(S, u)) \notin Counts
    <3> HIDE DEF Counts
    <3> QED
      BY <1>2, <1>3, <2>4, <2>5, <2>6
  <2>8. u \notin Old
    BY <2>7
  <2> QED
    BY <2>1, <2>8
<1>5. Above(S, m) \in SUBSET Above(Newest(S), s)
  BY <1>4 DEF Above
<1>6. /\ Newest(S) \in SUBSET Nat
      /\ IsFiniteSet(Newest(S))
  BY NewestBounded
<1>7. /\ IsFiniteSet(Above(Newest(S), s))
      /\ Cardinality(Above(Newest(S), s)) \in Nat
  BY <1>6, AboveFacts
<1>8. Cardinality(Above(S, m)) <= Cardinality(Above(Newest(S), s))
  BY <1>5, <1>7, FS_Subset
<1>9. Cardinality(Above(S, m)) \in Nat /\ Cardinality(Above(S, m)) >= MaxSamples
  BY AboveFacts, TimingAssumption DEF Newest
<1> QED
  BY <1>7, <1>8, <1>9, TimingAssumption

\* What was trimmed is never missed.
LEMMA NewestOfNewest ==
  ASSUME NEW S \in SUBSET Nat, IsFiniteSet(S), NEW x \in Nat
  PROVE  Newest(Newest(S) \union {x}) = Newest(S \union {x})
<1> DEFINE T == S \union {x}
           U == Newest(S) \union {x}
<1>1. /\ T \in SUBSET Nat /\ IsFiniteSet(T)
      /\ U \in SUBSET T /\ U \in SUBSET Nat /\ IsFiniteSet(U)
  BY NewestBounded, FS_AddElement
<1>2. ASSUME NEW s \in Newest(T) PROVE s \in Newest(U)
  <2>1. s \in T /\ s \in Nat /\ Cardinality(Above(T, s)) < MaxSamples
    BY <1>1 DEF Newest
  <2>2. s \in U
    <3>1. CASE s = x
      BY <3>1
    <3>2. CASE s # x
      <4>1. s \in S
        BY <2>1, <3>2
      <4>2. Cardinality(Above(S, s)) <= Cardinality(Above(T, s))
        BY <1>1, <2>1, AboveGrows
      <4>3. /\ Cardinality(Above(S, s)) \in Nat
            /\ Cardinality(Above(T, s)) \in Nat
        BY <1>1, <2>1, AboveFacts
      <4> QED
        BY <2>1, <4>1, <4>2, <4>3, TimingAssumption DEF Newest
    <3> QED
      BY <3>1, <3>2
  <2>3. Cardinality(Above(U, s)) <= Cardinality(Above(T, s))
    BY <1>1, <2>1, AboveGrows
  <2>4. /\ Cardinality(Above(U, s)) \in Nat
        /\ Cardinality(Above(T, s)) \in Nat
    BY <1>1, <2>1, AboveFacts
  <2> HIDE DEF T, U
  <2> QED
    BY <2>1, <2>2, <2>3, <2>4, TimingAssumption DEF Newest
<1>3. ASSUME NEW s \in Newest(U) PROVE s \in Newest(T)
  <2>1. s \in U /\ s \in T /\ s \in Nat /\ Cardinality(Above(U, s)) < MaxSamples
    BY <1>1 DEF Newest
  <2>2. Above(T, s) \in SUBSET Above(U, s)
    <3> SUFFICES ASSUME NEW t \in S, t > s, t \notin Newest(S) PROVE FALSE
      BY DEF Above
    <3>1. Cardinality(Above(Newest(S), s)) >= MaxSamples
      BY <2>1, NewestAbove
    <3>2. Cardinality(Above(Newest(S), s)) <= Cardinality(Above(U, s))
      BY <1>1, <2>1, AboveGrows
    <3>3. /\ Cardinality(Above(U, s)) \in Nat
          /\ Cardinality(Above(Newest(S), s)) \in Nat
      BY <1>1, <2>1, AboveFacts, NewestBounded
    <3> HIDE DEF U
    <3> QED
      BY <2>1, <3>1, <3>2, <3>3, TimingAssumption
  <2>3. Above(T, s) = Above(U, s)
    BY <1>1, <2>2 DEF Above
  <2> HIDE DEF T, U
  <2> QED
    BY <2>1, <2>3 DEF Newest
<1> QED
  BY <1>2, <1>3

-----------------------------------------------------------------------------
LEMMA NewestEmpty == Newest({}) = {}
  BY DEF Newest

LEMMA InvInit == Init => Inv
<1> SUFFICES ASSUME Init PROVE Inv
  OBVIOUS
<1>1. IsFiniteSet({}) /\ Cardinality({}) = 0
  BY FS_EmptySet
<1> QED
  BY <1>1, NewestEmpty, TimingAssumption DEF Init, Inv, TypeOK

\* One more stamp: what the transaction leaves in the key.
LEMMA RecordSamples ==
  ASSUME Inv, NEW c \in Calls, Record(c)
  PROVE  /\ log' \in SUBSET Nat /\ IsFiniteSet(log')
         /\ samples' = Newest(log')
         /\ samples' \in SUBSET log' /\ Cardinality(samples') <= MaxSamples
<1>1. /\ log \in SUBSET Nat /\ IsFiniteSet(log) /\ stamp[c] \in Nat
      /\ samples = Newest(log)
  BY DEF Inv, TypeOK
<1>2. log' = log \union {stamp[c]} /\ samples' = Trim(samples \union {stamp[c]})
  BY DEF Record
<1>3. log' \in SUBSET Nat /\ IsFiniteSet(log')
  BY <1>1, <1>2, FS_AddElement
<1>4. /\ samples \union {stamp[c]} \in SUBSET Nat
      /\ IsFiniteSet(samples \union {stamp[c]})
  BY <1>1, NewestBounded, FS_AddElement
<1>5. samples' = Newest(samples \union {stamp[c]})
  BY <1>2, <1>4, TrimIsNewest
<1>6. samples' = Newest(log')
  BY <1>1, <1>2, <1>5, NewestOfNewest
<1> QED
  BY <1>3, <1>6, NewestBounded

LEMMA InvNext == Inv /\ [Next]_vars => Inv'
<1> SUFFICES ASSUME Inv, [Next]_vars PROVE Inv'
  OBVIOUS
<1>0. ASSUME samples' = samples, log' = log, ttl' = ttl, clock' = clock,
             pc' \in [Calls -> {"idle", "record", "read"}],
             stamp' \in [Calls -> Nat], seen' \in [Calls -> SUBSET Nat]
      PROVE  Inv'
  BY <1>0 DEF Inv, TypeOK, Newest, Above
<1>1. ASSUME NEW c \in Calls, Send(c) PROVE Inv'
  <2>1. pc' \in [Calls -> {"idle", "record", "read"}] /\ stamp' \in [Calls -> Nat]
    BY <1>1 DEF Send, Goto, Inv, TypeOK
  <2> QED
    BY <1>0, <1>1, <2>1 DEF Send, Inv, TypeOK
<1>2. ASSUME NEW c \in Calls, Record(c) PROVE Inv'
  <2>1. /\ pc' \in [Calls -> {"idle", "record", "read"}]
        /\ ttl' \in 0..Ttl /\ ttl' # 0
        /\ UNCHANGED <<clock, stamp, seen>>
    BY <1>2, TimingAssumption DEF Record, Goto, Inv, TypeOK
  <2>2. /\ log' \in SUBSET Nat /\ IsFiniteSet(log')
        /\ samples' = Newest(log')
        /\ samples' \in SUBSET log' /\ Cardinality(samples') <= MaxSamples
    BY <1>2, RecordSamples
  <2>3. samples' = Newest(log)'
    BY <2>2 DEF Newest, Above
  <2>4. TypeOK'
    BY <2>1, <2>2 DEF Inv, TypeOK
  <2> QED
    BY <2>1, <2>3, <2>4 DEF Inv
<1>3. ASSUME NEW c \in Calls, Read(c) PROVE Inv'
  <2>1. /\ pc' \in [Calls -> {"idle", "record", "read"}]
        /\ stamp' \in [Calls -> Nat]
        /\ seen' \in [Calls -> SUBSET Nat]
    BY <1>3 DEF Read, Return, Goto, Inv, TypeOK
  <2> QED
    BY <1>0, <1>3, <2>1 DEF Read
<1>4. ASSUME NEW c \in Calls, Fail(c) PROVE Inv'
  <2>1. /\ pc' \in [Calls -> {"idle", "record", "read"}]
        /\ stamp' \in [Calls -> Nat]
    BY <1>4 DEF Fail, Return, Goto, Inv, TypeOK
  <2> QED
    BY <1>0, <1>4, <2>1 DEF Fail, Inv, TypeOK
<1>5. CASE Tick
  <2>1. /\ clock' \in Nat /\ ttl' \in 0..Ttl
        /\ UNCHANGED <<pc, stamp, seen>>
    BY <1>5, TimingAssumption DEF Tick, Inv, TypeOK
  <2>2. CASE ttl' = 0
    <3>1. samples' = {} /\ log' = {}
      BY <1>5, <2>2 DEF Tick
    <3>2. IsFiniteSet({}) /\ Cardinality({}) = 0
      BY FS_EmptySet
    <3>3. samples' = Newest(log)'
      BY <3>1 DEF Newest, Above
    <3>4. TypeOK'
      BY <2>1, <3>1, <3>2, TimingAssumption DEF Inv, TypeOK
    <3> QED
      BY <3>1, <3>3, <3>4 DEF Inv
  <2>3. CASE ttl' # 0
    <3>1. samples' = samples /\ log' = log
      BY <1>5, <2>3 DEF Tick
    <3>2. samples' = Newest(log)'
      BY <3>1 DEF Inv, Newest, Above
    <3>3. TypeOK'
      BY <2>1, <3>1 DEF Inv, TypeOK
    <3> QED
      BY <2>3, <3>2, <3>3 DEF Inv
  <2> QED
    BY <2>2, <2>3
<1>6. CASE UNCHANGED vars
  BY <1>0, <1>6 DEF vars, Inv, TypeOK
<1> QED
  BY <1>1, <1>2, <1>3, <1>4, <1>5, <1>6 DEF Next

LEMMA Invariance == Spec => []Inv
  BY InvInit, InvNext, PTL DEF Spec

\* The key never holds more than MaxSamples samples, and they are stamps that
\* were recorded since it was last absent.
THEOREM TypeCorrect == Spec => []TypeOK
<1>1. Inv => TypeOK
  BY DEF Inv
<1> QED
  BY Invariance, <1>1, PTL

-----------------------------------------------------------------------------
LEMMA RefineInit == Init => Contract!NSInit
  BY TimingAssumption DEF Init, Contract!NSInit

LEMMA RefineStep ==
  Inv /\ [Next]_vars => [Contract!NSNext]_<<log, Ttl - ttl, seen>>
<1> SUFFICES ASSUME Inv, [Next]_vars
             PROVE  Contract!NSNext \/ UNCHANGED <<log, Ttl - ttl, seen>>
  OBVIOUS
<1>1. ASSUME NEW c \in Calls, Send(c) \/ Fail(c)
      PROVE  UNCHANGED <<log, Ttl - ttl, seen>>
  BY <1>1 DEF Send, Fail
<1>2. ASSUME NEW c \in Calls, Record(c) PROVE Contract!Sample
  <2>1. stamp[c] \in log' /\ log' = log \union {stamp[c]}
    BY <1>2 DEF Record
  <2>2. ttl' = Ttl /\ seen' = seen
    BY <1>2 DEF Record
  <2> QED
    BY <2>1, <2>2, TimingAssumption DEF Contract!Sample
<1>3. ASSUME NEW c \in Calls, Read(c) PROVE Contract!Show(c)
  BY <1>3, SameNewest DEF Read, Inv, Contract!Show
<1>4. CASE Tick
  <2>1. CASE ttl = 0
    BY <1>4, <2>1 DEF Tick, Inv
  <2>2. CASE ttl # 0
    <3>1. ttl \in 1..Ttl /\ ttl' = ttl - 1
      BY <1>4, <2>2 DEF Tick, Inv, TypeOK
    <3>2. Ttl - ttl < Ttl /\ Ttl - ttl' = (Ttl - ttl) + 1
      BY <3>1, TimingAssumption
    <3>3. Ttl - ttl' = Ttl <=> ttl' = 0
      BY <3>1, TimingAssumption
    <3>4. log' = (IF Ttl - ttl' = Ttl THEN {} ELSE log) /\ seen' = seen
      BY <1>4, <3>3 DEF Tick
    <3>5. Contract!Wait
      BY <3>2, <3>4 DEF Contract!Wait
    <3> QED
      BY <3>5 DEF Contract!NSNext
  <2> QED
    BY <2>1, <2>2
<1>5. CASE UNCHANGED vars
  BY <1>5 DEF vars
<1> QED
  BY <1>1, <1>2, <1>3, <1>4, <1>5 DEF Next, Contract!NSNext

\* Trimming is not noticed: calls are shown the newest of all stamps since the
\* key was last absent, and it is absent after Ttl without a sample only.
THEOREM Refinement == Spec => ImplementsNewest
  BY RefineInit, RefineStep, Invariance, PTL
  DEF Spec, ImplementsNewest, Contract!NSSpec

-----------------------------------------------------------------------------
\* What a call was shown fits the key.
Shown ==
    \A c \in Calls : /\ seen[c] \in SUBSET Nat /\ IsFiniteSet(seen[c])
                     /\ Cardinality(seen[c]) <= MaxSamples

LEMMA ShownInit == Init => Shown
  BY FS_EmptySet, TimingAssumption DEF Init, Shown

LEMMA ShownNext == Inv /\ Shown /\ [Next]_vars => Shown'
<1> SUFFICES ASSUME Inv, Shown, [Next]_vars PROVE Shown'
  OBVIOUS
<1>1. ASSUME NEW c \in Calls, Read(c) PROVE Shown'
  <2>1. /\ samples \in SUBSET Nat /\ IsFiniteSet(samples)
        /\ Cardinality(samples) <= MaxSamples
    BY FS_Subset DEF Inv, TypeOK
  <2>2. \A d \in Calls : seen'[d] = IF d = c THEN samples ELSE seen[d]
    BY <1>1 DEF Read, Inv, TypeOK
  <2> QED
    BY <2>1, <2>2 DEF Shown
<1>2. CASE UNCHANGED seen
  BY <1>2 DEF Shown
<1> QED
  BY <1>1, <1>2 DEF Next, Send, Record, Fail, Tick, vars

LEMMA ShownHolds == Spec => []Shown
  BY Invariance, ShownInit, ShownNext, PTL DEF Spec

-----------------------------------------------------------------------------
Distances(S) == {p[2] - p[1] : p \in Neighbours(S)}

\* A stamp that is not the first has a previous one, from which its gap is.
LEMMA Previous ==
  ASSUME NEW S \in SUBSET Nat, NEW t \in Ends(S)
  PROVE  \E u \in S : <<u, t>> \in Neighbours(S)
<1> DEFINE Gaps == {t - u : u \in {v \in S : v < t}}
<1>1. t \in S /\ t \in Nat /\ \A v \in S : v \in Nat
  BY DEF Ends
<1>2. Gaps \in SUBSET Nat /\ Gaps # {}
  <2>1. \A u \in S : u < t => t - u \in Nat
    BY <1>1
  <2> QED
    BY <2>1 DEF Ends
<1>3. PICK d \in Gaps : \A e \in Gaps : d <= e
  <2> HIDE DEF Gaps
  <2> QED
    BY <1>2, Smallest
<1>4. PICK u \in S : u < t /\ d = t - u
  OBVIOUS
<1>5. ASSUME NEW v \in S PROVE v <= u \/ t <= v
  <2> SUFFICES ASSUME v < t PROVE v <= u
    BY <1>1
  <2>1. t - u <= t - v
    BY <1>3, <1>4
  <2> QED
    BY <1>1, <2>1
<1> QED
  BY <1>1, <1>4, <1>5 DEF Neighbours

LEMMA GapIsDistance ==
  ASSUME NEW S \in SUBSET Nat, NEW p \in Neighbours(S)
  PROVE  p[2] \in Ends(S) /\ Gap(S, p[2]) = p[2] - p[1] /\ p[2] - p[1] \in Int
<1>1. /\ p[1] \in S /\ p[2] \in S /\ p[1] < p[2]
      /\ \A v \in S : v <= p[1] \/ p[2] <= v
  BY DEF Neighbours
<1>2. p[1] \in Nat /\ p[2] \in Nat /\ \A v \in S : v \in Nat
  BY <1>1
<1>3. \A u \in S : (u < p[2] /\ \A v \in S : v < p[2] => v <= u) <=> u = p[1]
  BY <1>1, <1>2
<1>4. (CHOOSE u \in S : u < p[2] /\ \A v \in S : v < p[2] => v <= u) = p[1]
  BY <1>1, <1>3
<1>5. Gap(S, p[2]) = p[2] - p[1]
  BY <1>4, Zenon DEF Gap
<1>6. p[2] \in Ends(S)
  BY <1>1 DEF Ends
<1> QED
  BY <1>2, <1>5, <1>6

\* Every stamp but the first ends a gap.
LEMMA EndsCount ==
  ASSUME NEW S \in SUBSET Nat, IsFiniteSet(S), S # {}
  PROVE  IsFiniteSet(Ends(S)) /\ Cardinality(Ends(S)) = Cardinality(S) - 1
<1>1. PICK m \in S : \A s \in S : m <= s
  BY Smallest
<1>2. \A s \in S : s \in Nat
  OBVIOUS
<1>3. Ends(S) = S \ {m}
  <2>1. \A s \in S : (\E u \in S : u < s) <=> s # m
    BY <1>1, <1>2
  <2> QED
    BY <2>1 DEF Ends
<1> QED
  BY <1>3, FS_RemoveElement

\* The gaps as a function, and n times the sum of their squares less the
\* square of their sum.
Gaps(S) == [t \in Ends(S) |-> Gap(S, t)]

Scatter(S) ==
    Cardinality(Ends(S)) * SumFunctionOnSet(Squares(Gaps(S)), Ends(S))
      - SumFunctionOnSet(Gaps(S), Ends(S)) * SumFunctionOnSet(Gaps(S), Ends(S))

LEMMA GapsType ==
  ASSUME NEW S \in SUBSET Nat
  PROVE  Gaps(S) \in [Ends(S) -> Int]
<1>1. ASSUME NEW t \in Ends(S) PROVE Gap(S, t) \in Int
  <2>1. PICK u \in S : <<u, t>> \in Neighbours(S)
    BY Previous
  <2> QED
    BY <2>1, GapIsDistance
<1> QED
  BY <1>1 DEF Gaps

LEMMA StdevSays ==
  ASSUME NEW S, NEW num, NEW den
  PROVE  StdevBelow(S, num, den) <=>
            den * den * Scatter(S)
              < num * num * Cardinality(Ends(S)) * (Cardinality(Ends(S)) - 1)
<1>1. Squares(Gaps(S)) = [t \in Ends(S) |-> Gaps(S)[t] * Gaps(S)[t]]
  BY DEF Squares, Gaps
<1> QED
  BY <1>1, Zenon DEF StdevBelow, Scatter, Gaps

\* With one distance only the scatter is nothing.
LEMMA RegularScatter ==
  ASSUME NEW S \in SUBSET Nat, IsFiniteSet(S), S # {},
         Cardinality(Distances(S)) = 1
  PROVE  Scatter(S) = 0
<1> DEFINE E == Ends(S)
           n == Cardinality(E)
<1>1. IsFiniteSet(E) /\ n \in Nat
  BY EndsCount, FS_CardinalityType
<1>2. IsFiniteSet(Distances(S))
  <2>1. IsFiniteSet(S \X S)
    BY FS_Product
  <2>2. Neighbours(S) \in SUBSET (S \X S)
    BY DEF Neighbours
  <2>3. IsFiniteSet(Neighbours(S))
    BY <2>1, <2>2, FS_Subset
  <2> DEFINE f == [p \in Neighbours(S) |-> p[2] - p[1]]
  <2>4. f \in Surjection(Neighbours(S), Distances(S))
    BY DEF Distances, Surjection
  <2> HIDE DEF f
  <2> QED
    BY <2>3, <2>4, FS_Surjection
<1>3. PICK k : Distances(S) = {k}
  BY <1>2, FS_Singleton
<1>4. ASSUME NEW t \in E PROVE Gaps(S)[t] = k /\ k \in Int
  <2>1. PICK u \in S : <<u, t>> \in Neighbours(S)
    BY Previous
  <2>2. t - u \in Distances(S)
    BY <2>1 DEF Distances
  <2> QED
    BY <1>3, <2>1, <2>2, GapIsDistance DEF Gaps
<1>5. CASE E = {}
  <2>1. n = 0 /\ SumFunctionOnSet(Gaps(S), E) = 0
    BY <1>1, <1>5, FS_EmptySet, SumEmpty
  <2>2. SumFunctionOnSet(Squares(Gaps(S)), E) = 0
    BY <1>5, SumEmpty
  <2> QED
    BY <2>1, <2>2 DEF Scatter
<1>6. CASE E # {}
  <2>1. k \in Int /\ k * k \in Int
    BY <1>4, <1>6
  <2>2. Gaps(S) \in [E -> Int] /\ \A t \in E : Gaps(S)[t] = k
    BY <1>4, GapsType
  <2>3. SumFunctionOnSet(Gaps(S), E) = n * k
    BY <1>1, <2>1, <2>2, SumConstant
  <2>4. /\ Squares(Gaps(S)) \in [E -> Int]
        /\ \A t \in E : Squares(Gaps(S))[t] = k * k
    BY <2>2, SquaresType
  <2>5. SumFunctionOnSet(Squares(Gaps(S)), E) = n * (k * k)
    BY <1>1, <2>1, <2>4, SumConstant
  <2>6. Scatter(S) = n * (n * (k * k)) - (n * k) * (n * k)
    BY <2>3, <2>5 DEF Scatter
  <2> HIDE DEF n
  <2> QED
    BY <1>1, <2>1, <2>6
<1> QED
  BY <1>5, <1>6

\* Evenly spaced stamps are judged whatever their pace.
LEMMA EvenIsLowest ==
  ASSUME NEW S \in SUBSET Nat, IsFiniteSet(S), Cardinality(S) >= 3,
         Cardinality(Distances(S)) = 1, Num > 0
  PROVE  Verdict(S) = "lowest"
<1> DEFINE n == Cardinality(Ends(S))
<1>1. Cardinality(S) \in Nat /\ S # {}
  BY FS_CardinalityType, FS_EmptySet
<1>2. n \in Nat /\ n >= 2
  <2>1. n = Cardinality(S) - 1
    BY <1>1, EndsCount
  <2> HIDE DEF n
  <2> QED
    BY <1>1, <2>1
<1>3. Scatter(S) = 0
  BY <1>1, RegularScatter
<1>4. (2 * Den) * (2 * Den) * 0 < Num * Num * n * (n - 1)
  <2> HIDE DEF n
  <2>1. n - 1 \in Nat \ {0} /\ Num \in Nat \ {0} /\ Den \in Nat
    BY <1>2, TimingAssumption
  <2>2. \A x, y \in Nat \ {0} : x * y \in Nat \ {0}
    OBVIOUS
  <2>3. Num * Num * n * (n - 1) \in Nat \ {0}
    BY <1>2, <2>1, <2>2
  <2> QED
    BY <2>1, <2>3
<1>5. StdevBelow(S, Num, 2 * Den)
  BY <1>3, <1>4, StdevSays
<1>6. ~ (Cardinality(S) < 3)
  BY <1>1
<1> QED
  BY <1>5, <1>6 DEF Verdict

-----------------------------------------------------------------------------
\* The scatter bounds the distance of two gaps.
LEMMA ScatterOfTwo ==
  ASSUME NEW S \in SUBSET Nat, IsFiniteSet(S), S # {},
         NEW g \in Distances(S), NEW h \in Distances(S)
  PROVE  /\ g \in Int /\ h \in Int /\ Scatter(S) \in Int
         /\ Cardinality(Ends(S)) * (g - h) * (g - h) <= 2 * Scatter(S)
<1> DEFINE E == Ends(S)
           n == Cardinality(E)
<1>1. /\ IsFiniteSet(E) /\ n \in Nat
      /\ Gaps(S) \in [E -> Int]
  BY EndsCount, FS_CardinalityType, GapsType
<1>2. /\ SumFunctionOnSet(Gaps(S), E) \in Int
      /\ SumFunctionOnSet(Squares(Gaps(S)), E) \in Int
  BY <1>1, SumType, SquaresType
<1>3. Scatter(S) \in Int /\ 0 <= Scatter(S)
  <2>1. SumFunctionOnSet(Gaps(S), E) * SumFunctionOnSet(Gaps(S), E)
           <= n * SumFunctionOnSet(Squares(Gaps(S)), E)
    BY <1>1, SquareOfSum
  <2> HIDE DEF n
  <2> QED
    BY <1>1, <1>2, <2>1 DEF Scatter, n
<1>4. PICK a \in E : g = Gaps(S)[a]
  <2>1. PICK p \in Neighbours(S) : g = p[2] - p[1]
    BY DEF Distances
  <2> QED
    BY <2>1, GapIsDistance DEF Gaps
<1>5. PICK b \in E : h = Gaps(S)[b]
  <2>1. PICK p \in Neighbours(S) : h = p[2] - p[1]
    BY DEF Distances
  <2> QED
    BY <2>1, GapIsDistance DEF Gaps
<1>6. g \in Int /\ h \in Int
  BY <1>1, <1>4, <1>5
<1>7. n * (g - h) * (g - h) <= 2 * Scatter(S)
  <2>1. CASE a = b
    <3>1. g = h
      BY <1>4, <1>5, <2>1
    <3>2. n * (g - h) * (g - h) = 0
      <4> HIDE DEF n
      <4> QED
        BY <1>1, <1>6, <3>1
    <3> HIDE DEF n
    <3> QED
      BY <1>3, <3>2
  <2>2. CASE a # b
    BY <1>1, <1>4, <1>5, <2>2, VarianceOfTwo, Zenon DEF Scatter
  <2> QED
    BY <2>1, <2>2
<1> QED
  BY <1>3, <1>6, <1>7

LEMMA JudgedBound ==
  ASSUME NEW v \in Int, NEW d \in Int, NEW n \in Nat, NEW M \in Nat, NEW k \in 1..2,
         n >= 2, n <= M - 1, n * d * d <= 2 * v,
         (k * Den) * (k * Den) * v < Num * Num * n * (n - 1)
  PROVE  Den * Den * d * d < 2 * (M - 2) * Num * Num
<1> USE TimingAssumption
<1>0. Den \in Nat \ {0} /\ Num \in Nat
  OBVIOUS
<1>1. d * d \in Nat /\ n * d * d \in Nat /\ v >= 0
  OBVIOUS
<1>2. Den * Den * v <= (k * Den) * (k * Den) * v
  OBVIOUS
<1>3. Den * Den * (n * d * d) <= Den * Den * (2 * v)
  OBVIOUS
<1>4. n * (Den * Den * d * d) < n * (2 * (n - 1) * Num * Num)
  OBVIOUS
<1>5. Den * Den * d * d < 2 * (n - 1) * Num * Num
  OBVIOUS
<1>6. 2 * (n - 1) * Num * Num <= 2 * (M - 2) * Num * Num
  OBVIOUS
<1> QED
  BY <1>5, <1>6

LEMMA JudgedIsNear ==
  ASSUME NEW S \in SUBSET Nat, IsFiniteSet(S), Cardinality(S) <= MaxSamples,
         Verdict(S) # "none", NEW g \in Distances(S), NEW h \in Distances(S)
  PROVE  Den * Den * (g - h) * (g - h) < 2 * (MaxSamples - 2) * Num * Num
<1> DEFINE n == Cardinality(Ends(S))
<1>1. Cardinality(S) \in Nat /\ Cardinality(S) >= 3 /\ S # {}
  BY FS_CardinalityType, FS_EmptySet DEF Verdict
<1>2. n \in Nat /\ n >= 2 /\ n <= MaxSamples - 1 /\ MaxSamples \in Nat
  <2>1. n = Cardinality(S) - 1
    BY <1>1, EndsCount
  <2> HIDE DEF n
  <2> QED
    BY <1>1, <2>1, TimingAssumption
<1>3. /\ g \in Int /\ h \in Int /\ Scatter(S) \in Int
      /\ n * (g - h) * (g - h) <= 2 * Scatter(S)
  BY <1>1, ScatterOfTwo
<1>4. PICK k \in 1..2 : StdevBelow(S, Num, k * Den)
  <2>1. 1 * Den = Den
    BY TimingAssumption
  <2>2. StdevBelow(S, Num, 2 * Den) \/ StdevBelow(S, Num, Den)
    BY DEF Verdict
  <2> QED
    BY <2>1, <2>2
<1>5. (k * Den) * (k * Den) * Scatter(S) < Num * Num * n * (n - 1)
  BY <1>4, StdevSays
<1>6. g - h \in Int
  BY <1>3
<1> HIDE DEF n
<1> QED
  BY <1>2, <1>3, <1>5, <1>6, JudgedBound

\* abuse_detector.py:90-91: whoever is judged by the gaps is regular, within
\* the threshold times the root of 2 (MaxSamples - 2), and whoever is as
\* regular as can be is judged.
THEOREM Judged == Spec => []JudgedRegular
<1>1. Shown => JudgedRegular
  <2> SUFFICES ASSUME Shown, NEW c \in Calls
               PROVE  /\ /\ Cardinality(seen[c]) >= 3
                         /\ Cardinality(Distances(seen[c])) = 1
                         /\ Num > 0
                         => Verdict(seen[c]) = "lowest"
                      /\ Verdict(seen[c]) # "none" =>
                            /\ Cardinality(seen[c]) >= 3
                            /\ \A g, h \in Distances(seen[c]) :
                                  Den * Den * (g - h) * (g - h)
                                    < 2 * (MaxSamples - 2) * Num * Num
    BY DEF JudgedRegular, Distances
  <2>1. /\ seen[c] \in SUBSET Nat /\ IsFiniteSet(seen[c])
        /\ Cardinality(seen[c]) <= MaxSamples /\ Cardinality(seen[c]) \in Nat
    BY FS_CardinalityType DEF Shown
  <2>2. Verdict(seen[c]) # "none" => Cardinality(seen[c]) >= 3
    BY <2>1 DEF Verdict
  <2> QED
    BY <2>1, <2>2, EvenIsLowest, JudgedIsNear
<1> QED
  BY ShownHolds, <1>1, PTL
=============================================================================
