------------------------- MODULE GatewayChainProofs -------------------------
(***************************************************************************)
(* Theorems of GatewayChain.  DeniedCostsNothing and NoServiceAfterBlock   *)
(* are inductive together with what is known of a request at each layer;   *)
(* CountersAddUp needs to know how one step changes a set of requests.     *)
(***************************************************************************)
EXTENDS GatewayChain, FiniteSetTheorems, TLAPS

USE ChainAssumption

LEMMA InputFields ==
    ASSUME NEW i \in Inputs
    PROVE  /\ i.path \in {"health", "register", "login", "redoc", "proxy",
                         "block"}
           /\ i.token \in Clients \cup {NoToken}
           /\ i.path \in Public => i.token = NoToken
           /\ i.ip \in Ips
           /\ i.path = "block" => i.target \in Ips
  BY DEF Inputs, Public

\* What a request has been through when it stands at a layer.
Unanswered ==
    \A r \in Requests :
        pc[r] \in {"idle", "auth", "bloom", "limit", "abuse", "route"}
            => by[r] = "none"

Identified ==
    \A r \in Requests :
        pc[r] \in {"bloom", "limit"} => \/ req[r].path \in Public
                                       \/ req[r].token \in Clients

\* The filter holds what block-ip has answered or is about to answer.
Covered ==
    /\ acked \subseteq filter
    /\ \A r \in late : pc[r] # "idle" /\ req[r].ip \in filter
    /\ \A r \in Requests :
          (/\ pc[r] \in {"shadow", "count"}
           /\ req[r].path = "block"
           /\ status[r] = 200) => req[r].target \in filter

\* A step of one request.
Handles(r) ==
    \/ Arrive(r) \/ Authenticate(r) \/ Screen(r) \/ Deny(r)
    \/ LimitSkip(r) \/ LimitAdmit(r) \/ LimitReject(r) \/ LimitLost(r)
    \/ AbusePass(r) \/ AbuseFlag(r) \/ AbuseRefuse(r) \/ AbuseThrottle(r)
    \/ Health(r) \/ Register(r) \/ Proxy(r) \/ Login(r) \/ AdminRefuse(r)
    \/ BlockIp(r) \/ Shadow(r) \/ Count(r) \/ Fail(r)

LEMMA TypesInit == Init => TypeOK
  <1> SUFFICES ASSUME Init PROVE TypeOK
    OBVIOUS
  <1>1. Cardinality({}) = 0
    BY FS_EmptySet
  <1> QED
    BY <1>1 DEF Init, TypeOK, Codes, Verdicts

\* A window grows by one request at most, and only while there is room.
LEMMA Adding ==
    ASSUME NEW S \in SUBSET Requests, NEW r \in Requests, NEW e \in S \cup {r},
           Cardinality(S) < Limit
    PROVE  Cardinality(S \cup {e}) <= Limit
  <1>1. IsFiniteSet(S) /\ Cardinality(S) \in Nat
    BY FS_Subset, FS_CardinalityType
  <1>2. CASE e \in S
    <2>1. S \cup {e} = S
      BY <1>2
    <2> QED
      BY <1>1, <2>1
  <1>3. CASE e \notin S
    <2>1. Cardinality(S \cup {e}) = Cardinality(S) + 1
      BY <1>1, <1>3, FS_AddElement
    <2> QED
      BY <1>1, <2>1
  <1> QED
    BY <1>2, <1>3

LEMMA Removing ==
    ASSUME NEW S \in SUBSET Requests, NEW e \in S, Cardinality(S) <= Limit
    PROVE  Cardinality(S \ {e}) <= Limit
  <1>1. IsFiniteSet(S)
    BY FS_Subset
  <1>2. Cardinality(S) \in Nat /\ Cardinality(S \ {e}) = Cardinality(S) - 1
    BY <1>1, FS_CardinalityType, FS_RemoveElement
  <1> QED
    BY <1>2

Windows ==
    /\ quota \in [Clients \cup {Anonymous} -> SUBSET Requests]
    /\ \A c \in Clients \cup {Anonymous} : Cardinality(quota[c]) <= Limit

LEMMA EntersWithin ==
    ASSUME Windows, NEW r \in Requests, Enter(r)
    PROVE  Windows'
  <1>1. PICK e \in quota[Client(r)] \cup {r} :
          quota' = [quota EXCEPT ![Client(r)] = @ \cup {e}]
    BY DEF Enter
  <1>2. CASE Client(r) \in Clients \cup {Anonymous}
    <2>1. Cardinality(quota[Client(r)] \cup {e}) <= Limit
      BY <1>1, <1>2, Adding DEF Windows, Enter
    <2>2. quota[Client(r)] \cup {e} \subseteq Requests
      BY <1>1, <1>2 DEF Windows
    <2> QED
      BY <1>1, <1>2, <2>1, <2>2 DEF Windows
  <1>3. CASE Client(r) \notin Clients \cup {Anonymous}
    <2>1. quota' = quota
      BY <1>1, <1>3 DEF Windows
    <2> QED
      BY <2>1 DEF Windows
  <1> QED
    BY <1>2, <1>3

LEMMA SlidesWithin ==
    ASSUME Windows, NEW c \in Clients \cup {Anonymous}, Slide(c)
    PROVE  Windows'
  <1>1. PICK e \in quota[c] : quota' = [quota EXCEPT ![c] = @ \ {e}]
    BY DEF Slide
  <1>2. Cardinality(quota[c] \ {e}) <= Limit
    BY <1>1, Removing DEF Windows
  <1> QED
    BY <1>1, <1>2 DEF Windows

\* What TypeOK says besides.
Types ==
    /\ pc \in [Requests -> {"idle", "auth", "bloom", "limit", "abuse", "route",
                            "shadow", "count", "done"}]
    /\ req \in [Requests -> Inputs \cup {NoInput}]
    /\ \A r \in Requests : pc[r] # "idle" => req[r] \in Inputs
    /\ status \in [Requests -> {200, 401, 403, 429, 0, 500}]
    /\ \A r \in Requests : pc[r] \in {"shadow", "count"}
                               => status[r] \in {200, 401, 403, 429}
    /\ by \in [Requests -> {"none", "auth", "bloom", "limit", "abuse", "route",
                            "raised"}]
    /\ filter \subseteq Ips
    /\ acked \subseteq Ips
    /\ late \subseteq Requests

Counts ==
    /\ flagged \in [Requests -> {"throttled", "soft_block", "none"}]
    /\ total \in [{200, 401, 403, 429} -> Nat]
    /\ rejections \in Nat
    /\ hits \in Nat
    /\ detections \in [{"throttled", "soft_block"} -> Nat]

LEMMA TypeParts == TypeOK <=> Types /\ Counts /\ Windows
  <1>1. Codes \cup {0, 500} = {200, 401, 403, 429, 0, 500}
    BY DEF Codes
  <1>2. Verdicts \cup {"none"} = {"throttled", "soft_block", "none"}
    BY DEF Verdicts
  <1> QED
    BY <1>1, <1>2 DEF TypeOK, Types, Counts, Windows, Codes, Verdicts

LEMMA TypesNext == Types /\ [Next]_vars => Types'
  <1> SUFFICES ASSUME Types, [Next]_vars PROVE Types'
    OBVIOUS
  <1>1. ASSUME NEW r \in Requests,
               Handles(r)
        PROVE  Types'
    <2>1. CASE Arrive(r)
      BY <2>1 DEF Arrive, counters, Types
    <2>2. CASE Authenticate(r)
      BY <2>2 DEF Authenticate, Forward, Then, Answer, counters, history, Types
    <2>3. CASE Screen(r)
      BY <2>3 DEF Screen, Forward, Then, counters, history, Types
    <2>4. CASE Deny(r)
      BY <2>4 DEF Deny, Answer, counters, history, Types
    <2>5. CASE LimitSkip(r)
      BY <2>5 DEF LimitSkip, Forward, Then, counters, history, Types
    <2>6. CASE LimitAdmit(r)
      BY <2>6 DEF LimitAdmit, Enter, Forward, Then, counters, history, Types
    <2>7. CASE LimitReject(r)
      BY <2>7 DEF LimitReject, Answer, counters, history, Types
    <2>8. CASE LimitLost(r)
      BY <2>8 DEF LimitLost, Enter, Raise, counters, history, Types
    <2>9. CASE AbusePass(r)
      BY <2>9 DEF AbusePass, Forward, Then, counters, history, Types
    <2>10. CASE AbuseFlag(r)
      BY <2>10 DEF AbuseFlag, Detect, Forward, Then, counters, history, Types
    <2>11. CASE AbuseRefuse(r)
      BY <2>11 DEF AbuseRefuse, Detect, Answer, counters, history, Types
    <2>12. CASE AbuseThrottle(r)
      BY <2>12 DEF AbuseThrottle, Detect, Forward, Then, counters, history,
         Types
    <2>13. CASE Health(r)
      BY <2>13 DEF Health, Answer, counters, history, Types
    <2>14. CASE Proxy(r)
      BY <2>14 DEF Proxy, Answer, counters, history, Types
    <2>14a. CASE Register(r)
      BY <2>14a DEF Register, Answer, counters, history, Types
    <2>15. CASE Login(r)
      BY <2>15 DEF Login, Answer, counters, history, Types
    <2>16. CASE AdminRefuse(r)
      BY <2>16 DEF AdminRefuse, Answer, counters, history, Types
    <2>17. CASE BlockIp(r)
      <3>1. req[r] \in Inputs /\ req[r].target \in Ips
        BY <2>17, InputFields DEF BlockIp, Types
      <3> QED
        BY <2>17, <3>1 DEF BlockIp, Answer, counters, history, Types
    <2>18. CASE Shadow(r)
      BY <2>18 DEF Shadow, counters, history, Types
    <2>19. CASE Count(r)
      <3>1. req[r].path = "block" => req[r].target \in Ips
        BY <2>19, InputFields DEF Count, Types
      <3> QED
        BY <2>19, <3>1 DEF Count, history, Types
    <2>20. CASE Fail(r)
      BY <2>20 DEF Fail, Awaits, Raise, counters, history, Types
    <2> QED
      BY <1>1, <2>1, <2>2, <2>3, <2>4, <2>5, <2>6, <2>7, <2>8, <2>9, <2>10,
         <2>11, <2>12, <2>13, <2>14, <2>14a, <2>15, <2>16, <2>17, <2>18, <2>19,
         <2>20 DEF Handles
  <1>2. ASSUME NEW c \in Clients \cup {Anonymous}, Slide(c)
        PROVE  Types'
    BY <1>2 DEF Slide, counters, history, Types
  <1>3. CASE UNCHANGED vars
    BY <1>3 DEF vars, Types
  <1> QED
    BY <1>1, <1>2, <1>3 DEF Next, Finished, Handles

LEMMA CountsNext == Types /\ Counts /\ [Next]_vars => Counts'
  <1> SUFFICES ASSUME Types, Counts, [Next]_vars PROVE Counts'
    OBVIOUS
  <1>1. ASSUME NEW r \in Requests,
               Handles(r)
        PROVE  Counts'
    <2>1. CASE Arrive(r)
      BY <2>1 DEF Arrive, counters, history, Counts, Types, Verdicts
    <2>2. CASE Authenticate(r)
      BY <2>2 DEF Authenticate, Forward, Then, Answer, counters, history,
         Counts, Types, Verdicts
    <2>3. CASE Screen(r)
      BY <2>3 DEF Screen, Forward, Then, counters, history, Counts, Types,
         Verdicts
    <2>4. CASE Deny(r)
      BY <2>4 DEF Deny, Answer, counters, history, Counts, Types, Verdicts
    <2>5. CASE LimitSkip(r)
      BY <2>5 DEF LimitSkip, Forward, Then, counters, history, Counts, Types,
         Verdicts
    <2>6. CASE LimitAdmit(r)
      BY <2>6 DEF LimitAdmit, Enter, Forward, Then, counters, history, Counts,
         Types, Verdicts
    <2>7. CASE LimitReject(r)
      BY <2>7 DEF LimitReject, Answer, counters, history, Counts, Types,
         Verdicts
    <2>8. CASE LimitLost(r)
      BY <2>8 DEF LimitLost, Enter, Raise, counters, history, Counts, Types,
         Verdicts
    <2>9. CASE AbusePass(r)
      BY <2>9 DEF AbusePass, Forward, Then, counters, history, Counts, Types,
         Verdicts
    <2>10. CASE AbuseFlag(r)
      BY <2>10 DEF AbuseFlag, Detect, Forward, Then, counters, history,
         Counts, Types, Verdicts
    <2>11. CASE AbuseRefuse(r)
      BY <2>11 DEF AbuseRefuse, Detect, Answer, counters, history, Counts,
         Types, Verdicts
    <2>12. CASE AbuseThrottle(r)
      BY <2>12 DEF AbuseThrottle, Detect, Forward, Then, counters, history,
         Counts, Types, Verdicts
    <2>13. CASE Health(r)
      BY <2>13 DEF Health, Answer, counters, history, Counts, Types, Verdicts
    <2>14. CASE Proxy(r)
      BY <2>14 DEF Proxy, Answer, counters, history, Counts, Types, Verdicts
    <2>14a. CASE Register(r)
      BY <2>14a DEF Register, Answer, counters, history, Counts, Types, Verdicts
    <2>15. CASE Login(r)
      BY <2>15 DEF Login, Answer, counters, history, Counts, Types, Verdicts
    <2>16. CASE AdminRefuse(r)
      BY <2>16 DEF AdminRefuse, Answer, counters, history, Counts, Types,
         Verdicts
    <2>17. CASE BlockIp(r)
      BY <2>17 DEF BlockIp, Answer, counters, history, Counts, Types, Verdicts
    <2>18. CASE Shadow(r)
      BY <2>18 DEF Shadow, counters, history, Counts, Types, Verdicts
    <2>19. CASE Count(r)
      BY <2>19 DEF Count, counters, history, Counts, Types, Verdicts
    <2>20. CASE Fail(r)
      BY <2>20 DEF Fail, Awaits, Raise, counters, history, Counts, Types,
         Verdicts
    <2> QED
      BY <1>1, <2>1, <2>2, <2>3, <2>4, <2>5, <2>6, <2>7, <2>8, <2>9, <2>10,
         <2>11, <2>12, <2>13, <2>14, <2>14a, <2>15, <2>16, <2>17, <2>18, <2>19,
         <2>20 DEF Handles
  <1>2. ASSUME NEW c \in Clients \cup {Anonymous}, Slide(c)
        PROVE  Counts'
    BY <1>2 DEF Slide, counters, history, Counts
  <1>3. CASE UNCHANGED vars
    BY <1>3 DEF vars, Counts, Types, Verdicts
  <1> QED
    BY <1>1, <1>2, <1>3 DEF Next, Finished, Handles

LEMMA UnansweredNext == Types /\ Unanswered /\ [Next]_vars => Unanswered'
  <1> SUFFICES ASSUME Types, Unanswered, [Next]_vars PROVE Unanswered'
    OBVIOUS
  <1>1. ASSUME NEW r \in Requests,
               Handles(r)
        PROVE  Unanswered'
    <2>1. CASE Arrive(r)
      BY <2>1 DEF Arrive, counters, history, Unanswered, Types
    <2>2. CASE Authenticate(r)
      BY <2>2 DEF Authenticate, Forward, Then, Answer, counters, history,
         Unanswered, Types
    <2>3. CASE Screen(r)
      BY <2>3 DEF Screen, Forward, Then, counters, history, Unanswered, Types
    <2>4. CASE Deny(r)
      BY <2>4 DEF Deny, Answer, counters, history, Unanswered, Types
    <2>5. CASE LimitSkip(r)
      BY <2>5 DEF LimitSkip, Forward, Then, counters, history, Unanswered, Types
    <2>6. CASE LimitAdmit(r)
      BY <2>6 DEF LimitAdmit, Enter, Forward, Then, counters, history,
         Unanswered, Types
    <2>7. CASE LimitReject(r)
      BY <2>7 DEF LimitReject, Answer, counters, history, Unanswered, Types
    <2>8. CASE LimitLost(r)
      BY <2>8 DEF LimitLost, Enter, Raise, counters, history, Unanswered, Types
    <2>9. CASE AbusePass(r)
      BY <2>9 DEF AbusePass, Forward, Then, counters, history, Unanswered, Types
    <2>10. CASE AbuseFlag(r)
      BY <2>10 DEF AbuseFlag, Detect, Forward, Then, counters, history,
         Unanswered, Types
    <2>11. CASE AbuseRefuse(r)
      BY <2>11 DEF AbuseRefuse, Detect, Answer, counters, history, Unanswered,
         Types
    <2>12. CASE AbuseThrottle(r)
      BY <2>12 DEF AbuseThrottle, Detect, Forward, Then, counters, history,
         Unanswered, Types
    <2>13. CASE Health(r)
      BY <2>13 DEF Health, Answer, counters, history, Unanswered, Types
    <2>14. CASE Proxy(r)
      BY <2>14 DEF Proxy, Answer, counters, history, Unanswered, Types
    <2>14a. CASE Register(r)
      BY <2>14a DEF Register, Answer, counters, history, Unanswered, Types
    <2>15. CASE Login(r)
      BY <2>15 DEF Login, Answer, counters, history, Unanswered, Types
    <2>16. CASE AdminRefuse(r)
      BY <2>16 DEF AdminRefuse, Answer, counters, history, Unanswered, Types
    <2>17. CASE BlockIp(r)
      BY <2>17 DEF BlockIp, Answer, counters, history, Unanswered, Types
    <2>18. CASE Shadow(r)
      BY <2>18 DEF Shadow, counters, history, Unanswered, Types
    <2>19. CASE Count(r)
      BY <2>19 DEF Count, counters, history, Unanswered, Types
    <2>20. CASE Fail(r)
      BY <2>20 DEF Fail, Awaits, Raise, counters, history, Unanswered, Types
    <2> QED
      BY <1>1, <2>1, <2>2, <2>3, <2>4, <2>5, <2>6, <2>7, <2>8, <2>9, <2>10,
         <2>11, <2>12, <2>13, <2>14, <2>14a, <2>15, <2>16, <2>17, <2>18, <2>19,
         <2>20 DEF Handles
  <1>2. ASSUME NEW c \in Clients \cup {Anonymous}, Slide(c)
        PROVE  Unanswered'
    BY <1>2 DEF Slide, counters, history, Unanswered
  <1>3. CASE UNCHANGED vars
    BY <1>3 DEF vars, Unanswered, Types
  <1> QED
    BY <1>1, <1>2, <1>3 DEF Next, Finished, Handles

LEMMA IdentifiedNext == Types /\ Identified /\ [Next]_vars => Identified'
  <1> SUFFICES ASSUME Types, Identified, [Next]_vars PROVE Identified'
    OBVIOUS
  <1>1. ASSUME NEW r \in Requests,
               Handles(r)
        PROVE  Identified'
    <2>1. CASE Arrive(r)
      BY <2>1 DEF Arrive, counters, history, Identified, Types
    <2>2. CASE Authenticate(r)
      <3>1. req[r].token \in Clients \cup {NoToken}
        BY <2>2, InputFields DEF Authenticate, Types
      <3> QED
        BY <2>2, <3>1 DEF Authenticate, Forward, Then, Answer, counters,
           history, Types,
           Identified
    <2>3. CASE Screen(r)
      BY <2>3 DEF Screen, Forward, Then, counters, history, Identified, Types
    <2>4. CASE Deny(r)
      BY <2>4 DEF Deny, Answer, counters, history, Identified, Types
    <2>5. CASE LimitSkip(r)
      BY <2>5 DEF LimitSkip, Forward, Then, counters, history, Identified, Types
    <2>6. CASE LimitAdmit(r)
      BY <2>6 DEF LimitAdmit, Enter, Forward, Then, counters, history,
         Identified, Types
    <2>7. CASE LimitReject(r)
      BY <2>7 DEF LimitReject, Answer, counters, history, Identified, Types
    <2>8. CASE LimitLost(r)
      BY <2>8 DEF LimitLost, Enter, Raise, counters, history, Identified, Types
    <2>9. CASE AbusePass(r)
      BY <2>9 DEF AbusePass, Forward, Then, counters, history, Identified, Types
    <2>10. CASE AbuseFlag(r)
      BY <2>10 DEF AbuseFlag, Detect, Forward, Then, counters, history,
         Identified, Types
    <2>11. CASE AbuseRefuse(r)
      BY <2>11 DEF AbuseRefuse, Detect, Answer, counters, history, Identified,
         Types
    <2>12. CASE AbuseThrottle(r)
      BY <2>12 DEF AbuseThrottle, Detect, Forward, Then, counters, history,
         Identified, Types
    <2>13. CASE Health(r)
      BY <2>13 DEF Health, Answer, counters, history, Identified, Types
    <2>14. CASE Proxy(r)
      BY <2>14 DEF Proxy, Answer, counters, history, Identified, Types
    <2>14a. CASE Register(r)
      BY <2>14a DEF Register, Answer, counters, history, Identified, Types
    <2>15. CASE Login(r)
      BY <2>15 DEF Login, Answer, counters, history, Identified, Types
    <2>16. CASE AdminRefuse(r)
      BY <2>16 DEF AdminRefuse, Answer, counters, history, Identified, Types
    <2>17. CASE BlockIp(r)
      BY <2>17 DEF BlockIp, Answer, counters, history, Identified, Types
    <2>18. CASE Shadow(r)
      BY <2>18 DEF Shadow, counters, history, Identified, Types
    <2>19. CASE Count(r)
      BY <2>19 DEF Count, counters, history, Identified, Types
    <2>20. CASE Fail(r)
      BY <2>20 DEF Fail, Awaits, Raise, counters, history, Identified, Types
    <2> QED
      BY <1>1, <2>1, <2>2, <2>3, <2>4, <2>5, <2>6, <2>7, <2>8, <2>9, <2>10,
         <2>11, <2>12, <2>13, <2>14, <2>14a, <2>15, <2>16, <2>17, <2>18, <2>19,
         <2>20 DEF Handles
  <1>2. ASSUME NEW c \in Clients \cup {Anonymous}, Slide(c)
        PROVE  Identified'
    BY <1>2 DEF Slide, counters, history, Identified
  <1>3. CASE UNCHANGED vars
    BY <1>3 DEF vars, Identified, Types
  <1> QED
    BY <1>1, <1>2, <1>3 DEF Next, Finished, Handles

LEMMA CoveredNext == Types /\ Covered /\ [Next]_vars => Covered'
  <1> SUFFICES ASSUME Types, Covered, [Next]_vars PROVE Covered'
    OBVIOUS
  <1>1. ASSUME NEW r \in Requests,
               Handles(r)
        PROVE  Covered'
    <2>1. CASE Arrive(r)
      BY <2>1 DEF Arrive, counters, history, Covered, Types
    <2>2. CASE Authenticate(r)
      BY <2>2 DEF Authenticate, Forward, Then, Answer, counters, history,
         Covered, Types
    <2>3. CASE Screen(r)
      BY <2>3 DEF Screen, Forward, Then, counters, history, Covered, Types
    <2>4. CASE Deny(r)
      BY <2>4 DEF Deny, Answer, counters, history, Covered, Types
    <2>5. CASE LimitSkip(r)
      BY <2>5 DEF LimitSkip, Forward, Then, counters, history, Covered, Types
    <2>6. CASE LimitAdmit(r)
      BY <2>6 DEF LimitAdmit, Enter, Forward, Then, counters, history,
         Covered, Types
    <2>7. CASE LimitReject(r)
      BY <2>7 DEF LimitReject, Answer, counters, history, Covered, Types
    <2>8. CASE LimitLost(r)
      BY <2>8 DEF LimitLost, Enter, Raise, counters, history, Covered, Types
    <2>9. CASE AbusePass(r)
      BY <2>9 DEF AbusePass, Forward, Then, counters, history, Covered, Types
    <2>10. CASE AbuseFlag(r)
      BY <2>10 DEF AbuseFlag, Detect, Forward, Then, counters, history,
         Covered, Types
    <2>11. CASE AbuseRefuse(r)
      BY <2>11 DEF AbuseRefuse, Detect, Answer, counters, history, Covered,
         Types
    <2>12. CASE AbuseThrottle(r)
      BY <2>12 DEF AbuseThrottle, Detect, Forward, Then, counters, history,
         Covered, Types
    <2>13. CASE Health(r)
      BY <2>13 DEF Health, Answer, counters, history, Covered, Types
    <2>14. CASE Proxy(r)
      BY <2>14 DEF Proxy, Answer, counters, history, Covered, Types
    <2>14a. CASE Register(r)
      BY <2>14a DEF Register, Answer, counters, history, Covered, Types
    <2>15. CASE Login(r)
      BY <2>15 DEF Login, Answer, counters, history, Covered, Types
    <2>16. CASE AdminRefuse(r)
      BY <2>16 DEF AdminRefuse, Answer, counters, history, Covered, Types
    <2>17. CASE BlockIp(r)
      BY <2>17 DEF BlockIp, Answer, counters, history, Covered, Types
    <2>18. CASE Shadow(r)
      BY <2>18 DEF Shadow, counters, history, Covered, Types
    <2>19. CASE Count(r)
      BY <2>19 DEF Count, counters, history, Covered, Types
    <2>20. CASE Fail(r)
      BY <2>20 DEF Fail, Awaits, Raise, counters, history, Covered, Types
    <2> QED
      BY <1>1, <2>1, <2>2, <2>3, <2>4, <2>5, <2>6, <2>7, <2>8, <2>9, <2>10,
         <2>11, <2>12, <2>13, <2>14, <2>14a, <2>15, <2>16, <2>17, <2>18, <2>19,
         <2>20 DEF Handles
  <1>2. ASSUME NEW c \in Clients \cup {Anonymous}, Slide(c)
        PROVE  Covered'
    BY <1>2 DEF Slide, counters, history, Covered
  <1>3. CASE UNCHANGED vars
    BY <1>3 DEF vars, Covered, Types
  <1> QED
    BY <1>1, <1>2, <1>3 DEF Next, Finished, Handles

\* The quota changes for one client and by the request at the limiter only.
LEMMA EnterAdds ==
    ASSUME Windows, NEW r \in Requests, Enter(r)
    PROVE  \A c \in Clients \cup {Anonymous} : \A q \in quota'[c] :
               q \in quota[c] \/ (q = r /\ c = Client(r))
  <1>1. PICK e \in quota[Client(r)] \cup {r} :
          quota' = [quota EXCEPT ![Client(r)] = @ \cup {e}]
    BY DEF Enter
  <1> QED
    BY <1>1 DEF Windows

LEMMA DeniedNext ==
    Types /\ Windows /\ Unanswered /\ Identified /\ DeniedCostsNothing /\
    [Next]_vars => DeniedCostsNothing'
  <1> SUFFICES ASSUME Types, Windows, Unanswered, Identified,
     DeniedCostsNothing, [Next]_vars PROVE DeniedCostsNothing'
    OBVIOUS
  <1>1. ASSUME NEW r \in Requests,
               Handles(r)
        PROVE  DeniedCostsNothing'
    <2>1. CASE Arrive(r)
      BY <2>1 DEF Arrive, counters, history, DeniedCostsNothing, Charged,
         Client, Types, Unanswered, Identified, Windows
    <2>2. CASE Authenticate(r)
      BY <2>2 DEF Authenticate, Forward, Then, Answer, counters, history,
         DeniedCostsNothing, Charged, Client, Types, Unanswered, Identified,
         Windows
    <2>3. CASE Screen(r)
      BY <2>3 DEF Screen, Forward, Then, counters, history,
         DeniedCostsNothing, Charged, Client, Types, Unanswered, Identified,
         Windows
    <2>4. CASE Deny(r)
      BY <2>4 DEF Deny, Answer, counters, history, DeniedCostsNothing,
         Charged, Client, Types, Unanswered, Identified, Windows
    <2>5. CASE LimitSkip(r)
      BY <2>5 DEF LimitSkip, Forward, Then, counters, history,
         DeniedCostsNothing, Charged, Client, Types, Unanswered, Identified,
         Windows
    <2>6. CASE LimitAdmit(r)
      <3>1. req' = req
        BY <2>6 DEF LimitAdmit, Raise
      <3>2. ASSUME NEW c \in Clients \cup {Anonymous}, NEW q \in quota'[c]
            PROVE  Charged(q, c)'
        <4>1. q \in quota[c] \/ (q = r /\ c = Client(r))
          BY <2>6, EnterAdds DEF LimitAdmit
        <4>2. q \in Requests
          BY <4>1 DEF Windows
        <4> QED
          BY <2>6, <3>1, <4>1, <4>2 DEF LimitAdmit, Enter, Forward, Then,
             counters, history, DeniedCostsNothing, Charged, Client, Types,
             Unanswered, Identified
      <3> QED
        BY <3>2 DEF DeniedCostsNothing
    <2>7. CASE LimitReject(r)
      BY <2>7 DEF LimitReject, Answer, counters, history, DeniedCostsNothing,
         Charged, Client, Types, Unanswered, Identified, Windows
    <2>8. CASE LimitLost(r)
      <3>1. req' = req
        BY <2>8 DEF LimitLost, Raise
      <3>2. ASSUME NEW c \in Clients \cup {Anonymous}, NEW q \in quota'[c]
            PROVE  Charged(q, c)'
        <4>1. q \in quota[c] \/ (q = r /\ c = Client(r))
          BY <2>8, EnterAdds DEF LimitLost
        <4>2. q \in Requests
          BY <4>1 DEF Windows
        <4> QED
          BY <2>8, <3>1, <4>1, <4>2 DEF LimitLost, Enter, Raise, counters,
             history, DeniedCostsNothing, Charged, Client, Types, Unanswered,
             Identified
      <3> QED
        BY <3>2 DEF DeniedCostsNothing
    <2>9. CASE AbusePass(r)
      BY <2>9 DEF AbusePass, Forward, Then, counters, history,
         DeniedCostsNothing, Charged, Client, Types, Unanswered, Identified,
         Windows
    <2>10. CASE AbuseFlag(r)
      BY <2>10 DEF AbuseFlag, Detect, Forward, Then, counters, history,
         DeniedCostsNothing, Charged, Client, Types, Unanswered, Identified,
         Windows
    <2>11. CASE AbuseRefuse(r)
      BY <2>11 DEF AbuseRefuse, Detect, Answer, counters, history,
         DeniedCostsNothing, Charged, Client, Types, Unanswered, Identified,
         Windows
    <2>12. CASE AbuseThrottle(r)
      BY <2>12 DEF AbuseThrottle, Detect, Forward, Then, counters, history,
         DeniedCostsNothing, Charged, Client, Types, Unanswered, Identified,
         Windows
    <2>13. CASE Health(r)
      BY <2>13 DEF Health, Answer, counters, history, DeniedCostsNothing,
         Charged, Client, Types, Unanswered, Identified, Windows
    <2>14. CASE Proxy(r)
      BY <2>14 DEF Proxy, Answer, counters, history, DeniedCostsNothing,
         Charged, Client, Types, Unanswered, Identified, Windows
    <2>14a. CASE Register(r)
      BY <2>14a DEF Register, Answer, counters, history, DeniedCostsNothing,
         Charged, Client, Types, Unanswered, Identified, Windows
    <2>15. CASE Login(r)
      BY <2>15 DEF Login, Answer, counters, history, DeniedCostsNothing,
         Charged, Client, Types, Unanswered, Identified, Windows
    <2>16. CASE AdminRefuse(r)
      BY <2>16 DEF AdminRefuse, Answer, counters, history, DeniedCostsNothing,
         Charged, Client, Types, Unanswered, Identified, Windows
    <2>17. CASE BlockIp(r)
      BY <2>17 DEF BlockIp, Answer, counters, history, DeniedCostsNothing,
         Charged, Client, Types, Unanswered, Identified, Windows
    <2>18. CASE Shadow(r)
      BY <2>18 DEF Shadow, counters, history, DeniedCostsNothing, Charged,
         Client, Types, Unanswered, Identified, Windows
    <2>19. CASE Count(r)
      BY <2>19 DEF Count, counters, history, DeniedCostsNothing, Charged,
         Client, Types, Unanswered, Identified, Windows
    <2>20. CASE Fail(r)
      BY <2>20 DEF Fail, Awaits, Raise, counters, history, DeniedCostsNothing,
         Charged, Client, Types, Unanswered, Identified, Windows
    <2> QED
      BY <1>1, <2>1, <2>2, <2>3, <2>4, <2>5, <2>6, <2>7, <2>8, <2>9, <2>10,
         <2>11, <2>12, <2>13, <2>14, <2>14a, <2>15, <2>16, <2>17, <2>18, <2>19,
         <2>20 DEF Handles
  <1>2. ASSUME NEW c \in Clients \cup {Anonymous}, Slide(c)
        PROVE  DeniedCostsNothing'
    <2>1. \A k \in Clients \cup {Anonymous} : quota'[k] \subseteq quota[k]
      BY <1>2 DEF Slide, Windows
    <2>2. UNCHANGED <<pc, req, by>>
      BY <1>2 DEF Slide
    <2> QED
      BY <2>1, <2>2 DEF DeniedCostsNothing, Charged, Client
  <1>3. CASE UNCHANGED vars
    BY <1>3 DEF vars, DeniedCostsNothing, Charged, Client, Types, Unanswered,
       Identified, Windows
  <1> QED
    BY <1>1, <1>2, <1>3 DEF Next, Finished, Handles

LEMMA ServiceNext ==
    Types /\ Unanswered /\ Covered /\ NoServiceAfterBlock /\ [Next]_vars
        => NoServiceAfterBlock'
  <1> SUFFICES ASSUME Types, Unanswered, Covered, NoServiceAfterBlock,
     [Next]_vars PROVE NoServiceAfterBlock'
    OBVIOUS
  <1>1. ASSUME NEW r \in Requests,
               Handles(r)
        PROVE  NoServiceAfterBlock'
    <2>1. CASE Arrive(r)
      BY <2>1 DEF Arrive, counters, history, NoServiceAfterBlock, Covered,
         Unanswered, Types
    <2>2. CASE Authenticate(r)
      BY <2>2 DEF Authenticate, Forward, Then, Answer, counters, history,
         NoServiceAfterBlock, Covered, Unanswered, Types
    <2>3. CASE Screen(r)
      BY <2>3 DEF Screen, Forward, Then, counters, history,
         NoServiceAfterBlock, Covered, Unanswered, Types
    <2>4. CASE Deny(r)
      BY <2>4 DEF Deny, Answer, counters, history, NoServiceAfterBlock,
         Covered, Unanswered, Types
    <2>5. CASE LimitSkip(r)
      BY <2>5 DEF LimitSkip, Forward, Then, counters, history,
         NoServiceAfterBlock, Covered, Unanswered, Types
    <2>6. CASE LimitAdmit(r)
      BY <2>6 DEF LimitAdmit, Enter, Forward, Then, counters, history,
         NoServiceAfterBlock, Covered, Unanswered, Types
    <2>7. CASE LimitReject(r)
      BY <2>7 DEF LimitReject, Answer, counters, history, NoServiceAfterBlock,
         Covered, Unanswered, Types
    <2>8. CASE LimitLost(r)
      BY <2>8 DEF LimitLost, Enter, Raise, counters, history,
         NoServiceAfterBlock, Covered, Unanswered, Types
    <2>9. CASE AbusePass(r)
      BY <2>9 DEF AbusePass, Forward, Then, counters, history,
         NoServiceAfterBlock, Covered, Unanswered, Types
    <2>10. CASE AbuseFlag(r)
      BY <2>10 DEF AbuseFlag, Detect, Forward, Then, counters, history,
         NoServiceAfterBlock, Covered, Unanswered, Types
    <2>11. CASE AbuseRefuse(r)
      BY <2>11 DEF AbuseRefuse, Detect, Answer, counters, history,
         NoServiceAfterBlock, Covered, Unanswered, Types
    <2>12. CASE AbuseThrottle(r)
      BY <2>12 DEF AbuseThrottle, Detect, Forward, Then, counters, history,
         NoServiceAfterBlock, Covered, Unanswered, Types
    <2>13. CASE Health(r)
      BY <2>13 DEF Health, Answer, counters, history, NoServiceAfterBlock,
         Covered, Unanswered, Types
    <2>14. CASE Proxy(r)
      BY <2>14 DEF Proxy, Answer, counters, history, NoServiceAfterBlock,
         Covered, Unanswered, Types
    <2>14a. CASE Register(r)
      BY <2>14a DEF Register, Answer, counters, history, NoServiceAfterBlock,
         Covered, Unanswered, Types
    <2>15. CASE Login(r)
      BY <2>15 DEF Login, Answer, counters, history, NoServiceAfterBlock,
         Covered, Unanswered, Types
    <2>16. CASE AdminRefuse(r)
      BY <2>16 DEF AdminRefuse, Answer, counters, history,
         NoServiceAfterBlock, Covered, Unanswered, Types
    <2>17. CASE BlockIp(r)
      BY <2>17 DEF BlockIp, Answer, counters, history, NoServiceAfterBlock,
         Covered, Unanswered, Types
    <2>18. CASE Shadow(r)
      BY <2>18 DEF Shadow, counters, history, NoServiceAfterBlock, Covered,
         Unanswered, Types
    <2>19. CASE Count(r)
      BY <2>19 DEF Count, counters, history, NoServiceAfterBlock, Covered,
         Unanswered, Types
    <2>20. CASE Fail(r)
      BY <2>20 DEF Fail, Awaits, Raise, counters, history,
         NoServiceAfterBlock, Covered, Unanswered, Types
    <2> QED
      BY <1>1, <2>1, <2>2, <2>3, <2>4, <2>5, <2>6, <2>7, <2>8, <2>9, <2>10,
         <2>11, <2>12, <2>13, <2>14, <2>14a, <2>15, <2>16, <2>17, <2>18, <2>19,
         <2>20 DEF Handles
  <1>2. ASSUME NEW c \in Clients \cup {Anonymous}, Slide(c)
        PROVE  NoServiceAfterBlock'
    BY <1>2 DEF Slide, counters, history, NoServiceAfterBlock
  <1>3. CASE UNCHANGED vars
    BY <1>3 DEF vars, NoServiceAfterBlock, Covered, Unanswered, Types
  <1> QED
    BY <1>1, <1>2, <1>3 DEF Next, Finished, Handles

Raised == {r \in Requests : by[r] = "raised"}

Done == {r \in Requests : pc[r] = "done"}

Bit(r, S) == IF r \in S THEN 1 ELSE 0

Shifts(r, S, T) == Cardinality(T) = Cardinality(S) + Bit(r, T) - Bit(r, S)

LEMMA Part ==
    ASSUME NEW S \in SUBSET Requests, NEW r \in Requests
    PROVE  /\ Cardinality(S \ {r}) \in Nat
           /\ Cardinality(S) = Cardinality(S \ {r}) + Bit(r, S)
  <1>1. IsFiniteSet(S) /\ IsFiniteSet(S \ {r})
    BY FS_Subset
  <1>2. Cardinality(S) \in Nat /\ Cardinality(S \ {r}) \in Nat
    BY <1>1, FS_CardinalityType
  <1>3. CASE r \in S
    <2>1. Cardinality(S \ {r}) = Cardinality(S) - 1
      BY <1>1, <1>3, FS_RemoveElement
    <2> QED
      BY <1>2, <1>3, <2>1 DEF Bit
  <1>4. CASE r \notin S
    <2>1. S \ {r} = S
      BY <1>4
    <2>2. Cardinality(S \ {r}) = Cardinality(S)
      BY <2>1
    <2> QED
      BY <1>2, <1>4, <2>2 DEF Bit
  <1> QED
    BY <1>3, <1>4

\* The cardinality of a set that changes by one request at most.
LEMMA Change ==
    ASSUME NEW S \in SUBSET Requests, NEW T \in SUBSET Requests,
           NEW r \in Requests, S \ {r} = T \ {r}
    PROVE  /\ Cardinality(S) \in Nat /\ Cardinality(T) \in Nat
           /\ Shifts(r, S, T)
  <1>1. /\ Cardinality(S \ {r}) \in Nat
        /\ Cardinality(S) = Cardinality(S \ {r}) + Bit(r, S)
        /\ Cardinality(T) = Cardinality(S \ {r}) + Bit(r, T)
    BY Part
  <1> QED
    BY <1>1 DEF Bit, Shifts

\* A step of a request leaves the others alone.
LEMMA Local ==
    ASSUME Types, Counts, NEW r \in Requests, Handles(r),
           NEW q \in Requests, q # r
    PROVE  /\ pc'[q] = pc[q] /\ status'[q] = status[q]
           /\ by'[q] = by[q] /\ flagged'[q] = flagged[q]
  <1>1. CASE Arrive(r)
    BY <1>1 DEF Arrive, counters, history, Types, Counts
  <1>2. CASE Authenticate(r)
    BY <1>2 DEF Authenticate, Forward, Then, Answer, counters, history, Types,
       Counts
  <1>3. CASE Screen(r)
    BY <1>3 DEF Screen, Forward, Then, counters, history, Types, Counts
  <1>4. CASE Deny(r)
    BY <1>4 DEF Deny, Answer, counters, history, Types, Counts
  <1>5. CASE LimitSkip(r)
    BY <1>5 DEF LimitSkip, Forward, Then, counters, history, Types, Counts
  <1>6. CASE LimitAdmit(r)
    BY <1>6 DEF LimitAdmit, Enter, Forward, Then, counters, history, Types,
       Counts
  <1>7. CASE LimitReject(r)
    BY <1>7 DEF LimitReject, Answer, counters, history, Types, Counts
  <1>8. CASE LimitLost(r)
    BY <1>8 DEF LimitLost, Enter, Raise, counters, history, Types, Counts
  <1>9. CASE AbusePass(r)
    BY <1>9 DEF AbusePass, Forward, Then, counters, history, Types, Counts
  <1>10. CASE AbuseFlag(r)
    BY <1>10 DEF AbuseFlag, Detect, Forward, Then, counters, history, Types,
       Counts
  <1>11. CASE AbuseRefuse(r)
    BY <1>11 DEF AbuseRefuse, Detect, Answer, counters, history, Types, Counts
  <1>12. CASE AbuseThrottle(r)
    BY <1>12 DEF AbuseThrottle, Detect, Forward, Then, counters, history,
       Types, Counts
  <1>13. CASE Health(r)
    BY <1>13 DEF Health, Answer, counters, history, Types, Counts
  <1>14. CASE Proxy(r)
    BY <1>14 DEF Proxy, Answer, counters, history, Types, Counts
  <1>14a. CASE Register(r)
    BY <1>14a DEF Register, Answer, counters, history, Types, Counts
  <1>15. CASE Login(r)
    BY <1>15 DEF Login, Answer, counters, history, Types, Counts
  <1>16. CASE AdminRefuse(r)
    BY <1>16 DEF AdminRefuse, Answer, counters, history, Types, Counts
  <1>17. CASE BlockIp(r)
    BY <1>17 DEF BlockIp, Answer, counters, history, Types, Counts
  <1>18. CASE Shadow(r)
    BY <1>18 DEF Shadow, counters, history, Types, Counts
  <1>19. CASE Count(r)
    BY <1>19 DEF Count, counters, history, Types, Counts
  <1>20. CASE Fail(r)
    BY <1>20 DEF Fail, Awaits, Raise, counters, history, Types, Counts
  <1> QED
    BY <1>1, <1>2, <1>3, <1>4, <1>5, <1>6, <1>7, <1>8, <1>9, <1>10, <1>11,
       <1>12, <1>13, <1>14, <1>14a, <1>15, <1>16, <1>17, <1>18, <1>19, <1>20
       DEF Handles

LEMMA SetsChange ==
    ASSUME Types, Counts, NEW r \in Requests, Handles(r)
    PROVE  /\ \A code : Shifts(r, OnTheWay(code), OnTheWay(code)')
           /\ Shifts(r, SoftFlagged, SoftFlagged')
           /\ Shifts(r, Answers("route", 403), Answers("route", 403)')
           /\ Shifts(r, Raised, Raised')
           /\ Shifts(r, Done, Done')
  <1>1. ASSUME NEW code
        PROVE  Shifts(r, OnTheWay(code), OnTheWay(code)')
    <2>1. OnTheWay(code) \ {r} = OnTheWay(code)' \ {r}
      BY Local DEF OnTheWay
    <2>2. OnTheWay(code) \subseteq Requests /\ OnTheWay(code)' \subseteq Requests
      BY DEF OnTheWay
    <2> QED
      BY <2>1, <2>2, Change
  <1>2. Shifts(r, SoftFlagged, SoftFlagged')
    <2>1. SoftFlagged \ {r} = SoftFlagged' \ {r}
      BY Local DEF SoftFlagged
    <2>2. SoftFlagged \subseteq Requests /\ SoftFlagged' \subseteq Requests
      BY DEF SoftFlagged
    <2> QED
      BY <2>1, <2>2, Change
  <1>3. Shifts(r, Answers("route", 403), Answers("route", 403)')
    <2>1. Answers("route", 403) \ {r} = Answers("route", 403)' \ {r}
      BY Local DEF Answers
    <2>2. /\ Answers("route", 403) \in SUBSET Requests
          /\ Answers("route", 403)' \in SUBSET Requests
      BY DEF Answers
    <2>3. ASSUME NEW S \in SUBSET Requests, NEW T \in SUBSET Requests,
                 S \ {r} = T \ {r}
          PROVE  Shifts(r, S, T)
      BY <2>3, Change
    <2> QED
      BY <2>1, <2>2, <2>3
  <1>4. Shifts(r, Raised, Raised')
    <2>1. Raised \ {r} = Raised' \ {r}
      BY Local DEF Raised
    <2>2. Raised \subseteq Requests /\ Raised' \subseteq Requests
      BY DEF Raised
    <2> QED
      BY <2>1, <2>2, Change
  <1>5. Shifts(r, Done, Done')
    <2>1. Done \ {r} = Done' \ {r}
      BY Local DEF Done
    <2>2. Done \subseteq Requests /\ Done' \subseteq Requests
      BY DEF Done
    <2> QED
      BY <2>1, <2>2, Change
  <1> QED
    BY <1>1, <1>2, <1>3, <1>4, <1>5

LEMMA SetsCount ==
    /\ \A code : Cardinality(OnTheWay(code)) \in Nat
    /\ Cardinality(SoftFlagged) \in Nat
    /\ Cardinality(Answers("route", 403)) \in Nat
    /\ Cardinality(Raised) \in Nat
    /\ Cardinality(Done) \in Nat
  <1>1. \A S \in SUBSET Requests : Cardinality(S) \in Nat
    BY FS_Subset, FS_CardinalityType
  <1> QED
    BY <1>1 DEF OnTheWay, SoftFlagged, Answers, Raised, Done

\* What a request carries at each layer on its way back.
Story ==
    \A r \in Requests :
        /\ pc[r] \in {"idle", "auth", "bloom", "limit", "abuse"}
              => flagged[r] = "none"
        /\ pc[r] = "shadow" => by[r] = "route" /\ status[r] \in {200, 401, 403}
        /\ pc[r] = "count" => by[r] # "raised"

LEMMA StoryNext ==
    Types /\ Counts /\ Unanswered /\ Story /\ [Next]_vars => Story'
  <1> SUFFICES ASSUME Types, Counts, Unanswered, Story, [Next]_vars PROVE Story'
    OBVIOUS
  <1>1. ASSUME NEW r \in Requests,
               Handles(r)
        PROVE  Story'
    <2>1. CASE Arrive(r)
      BY <2>1 DEF Arrive, counters, history, Story, Types, Counts, Unanswered
    <2>2. CASE Authenticate(r)
      BY <2>2 DEF Authenticate, Forward, Then, Answer, counters, history,
         Story, Types, Counts, Unanswered
    <2>3. CASE Screen(r)
      BY <2>3 DEF Screen, Forward, Then, counters, history, Story, Types,
         Counts, Unanswered
    <2>4. CASE Deny(r)
      BY <2>4 DEF Deny, Answer, counters, history, Story, Types, Counts,
         Unanswered
    <2>5. CASE LimitSkip(r)
      BY <2>5 DEF LimitSkip, Forward, Then, counters, history, Story, Types,
         Counts, Unanswered
    <2>6. CASE LimitAdmit(r)
      BY <2>6 DEF LimitAdmit, Enter, Forward, Then, counters, history, Story,
         Types, Counts, Unanswered
    <2>7. CASE LimitReject(r)
      BY <2>7 DEF LimitReject, Answer, counters, history, Story, Types,
         Counts, Unanswered
    <2>8. CASE LimitLost(r)
      BY <2>8 DEF LimitLost, Enter, Raise, counters, history, Story, Types,
         Counts, Unanswered
    <2>9. CASE AbusePass(r)
      BY <2>9 DEF AbusePass, Forward, Then, counters, history, Story, Types,
         Counts, Unanswered
    <2>10. CASE AbuseFlag(r)
      BY <2>10 DEF AbuseFlag, Detect, Forward, Then, counters, history, Story,
         Types, Counts, Unanswered
    <2>11. CASE AbuseRefuse(r)
      BY <2>11 DEF AbuseRefuse, Detect, Answer, counters, history, Story,
         Types, Counts, Unanswered
    <2>12. CASE AbuseThrottle(r)
      BY <2>12 DEF AbuseThrottle, Detect, Forward, Then, counters, history,
         Story, Types, Counts, Unanswered
    <2>13. CASE Health(r)
      BY <2>13 DEF Health, Answer, counters, history, Story, Types, Counts,
         Unanswered
    <2>14. CASE Proxy(r)
      BY <2>14 DEF Proxy, Answer, counters, history, Story, Types, Counts,
         Unanswered
    <2>14a. CASE Register(r)
      BY <2>14a DEF Register, Answer, counters, history, Story, Types, Counts,
         Unanswered
    <2>15. CASE Login(r)
      BY <2>15 DEF Login, Answer, counters, history, Story, Types, Counts,
         Unanswered
    <2>16. CASE AdminRefuse(r)
      BY <2>16 DEF AdminRefuse, Answer, counters, history, Story, Types,
         Counts, Unanswered
    <2>17. CASE BlockIp(r)
      BY <2>17 DEF BlockIp, Answer, counters, history, Story, Types, Counts,
         Unanswered
    <2>18. CASE Shadow(r)
      BY <2>18 DEF Shadow, counters, history, Story, Types, Counts, Unanswered
    <2>19. CASE Count(r)
      BY <2>19 DEF Count, counters, history, Story, Types, Counts, Unanswered
    <2>20. CASE Fail(r)
      BY <2>20 DEF Fail, Awaits, Raise, counters, history, Story, Types,
         Counts, Unanswered
    <2> QED
      BY <1>1, <2>1, <2>2, <2>3, <2>4, <2>5, <2>6, <2>7, <2>8, <2>9, <2>10,
         <2>11, <2>12, <2>13, <2>14, <2>14a, <2>15, <2>16, <2>17, <2>18, <2>19,
         <2>20 DEF Handles
  <1>2. ASSUME NEW c \in Clients \cup {Anonymous}, Slide(c)
        PROVE  Story'
    BY <1>2 DEF Slide, counters, history, Story
  <1>3. CASE UNCHANGED vars
    BY <1>3 DEF vars, Story, Types, Counts, Unanswered
  <1> QED
    BY <1>1, <1>2, <1>3 DEF Next, Finished, Handles

Refusals ==
    total[429] + Cardinality(OnTheWay(429)) + Cardinality(SoftFlagged)
        = rejections + detections["soft_block"]

Denials ==
    total[403] + Cardinality(OnTheWay(403))
        = hits + Cardinality(Answers("route", 403))

Ended ==
    total[200] + total[401] + total[403] + total[429] + Cardinality(Raised)
        = Cardinality(Done)

LEMMA StoriesMeet == CountersAddUp <=> Refusals /\ Denials /\ Ended
  BY DEF CountersAddUp, Refusals, Denials, Ended, Raised, Done

LEMMA RefusalsNext ==
    Types /\ Counts /\ Unanswered /\ Story /\ Refusals /\ [Next]_vars => Refusals'
  <1> SUFFICES ASSUME Types, Counts, Unanswered, Story, Refusals, [Next]_vars
     PROVE Refusals'
    OBVIOUS
  <1>1. ASSUME NEW r \in Requests, Handles(r)
        PROVE  Refusals'
    <2>1. /\ Shifts(r, OnTheWay(429), OnTheWay(429)')
          /\ Shifts(r, SoftFlagged, SoftFlagged')
      BY <1>1, SetsChange
    <2>2. /\ Cardinality(OnTheWay(429)) \in Nat
          /\ Cardinality(SoftFlagged) \in Nat
      BY SetsCount
    <2>4. CASE Arrive(r)
      BY <2>1, <2>2, <2>4 DEF Arrive, counters, history, Refusals, Bit,
         Shifts, OnTheWay, SoftFlagged, Types, Counts, Unanswered, Story
    <2>5. CASE Authenticate(r)
      BY <2>1, <2>2, <2>5 DEF Authenticate, Forward, Then, Answer, counters,
         history, Refusals, Bit, Shifts, OnTheWay, SoftFlagged, Types, Counts,
         Unanswered, Story
    <2>6. CASE Screen(r)
      BY <2>1, <2>2, <2>6 DEF Screen, Forward, Then, counters, history,
         Refusals, Bit, Shifts, OnTheWay, SoftFlagged, Types, Counts,
         Unanswered, Story
    <2>7. CASE Deny(r)
      BY <2>1, <2>2, <2>7 DEF Deny, Answer, counters, history, Refusals, Bit,
         Shifts, OnTheWay, SoftFlagged, Types, Counts, Unanswered, Story
    <2>8. CASE LimitSkip(r)
      BY <2>1, <2>2, <2>8 DEF LimitSkip, Forward, Then, counters, history,
         Refusals, Bit, Shifts, OnTheWay, SoftFlagged, Types, Counts,
         Unanswered, Story
    <2>9. CASE LimitAdmit(r)
      BY <2>1, <2>2, <2>9 DEF LimitAdmit, Enter, Forward, Then, counters,
         history, Refusals, Bit, Shifts, OnTheWay, SoftFlagged, Types, Counts,
         Unanswered, Story
    <2>10. CASE LimitReject(r)
      BY <2>1, <2>2, <2>10 DEF LimitReject, Answer, counters, history,
         Refusals, Bit, Shifts, OnTheWay, SoftFlagged, Types, Counts,
         Unanswered, Story
    <2>11. CASE LimitLost(r)
      BY <2>1, <2>2, <2>11 DEF LimitLost, Enter, Raise, counters, history,
         Refusals, Bit, Shifts, OnTheWay, SoftFlagged, Types, Counts,
         Unanswered, Story
    <2>12. CASE AbusePass(r)
      BY <2>1, <2>2, <2>12 DEF AbusePass, Forward, Then, counters, history,
         Refusals, Bit, Shifts, OnTheWay, SoftFlagged, Types, Counts,
         Unanswered, Story
    <2>13. CASE AbuseFlag(r)
      BY <2>1, <2>2, <2>13 DEF AbuseFlag, Detect, Forward, Then, counters,
         history, Refusals, Bit, Shifts, OnTheWay, SoftFlagged, Types, Counts,
         Unanswered, Story
    <2>14. CASE AbuseRefuse(r)
      BY <2>1, <2>2, <2>14 DEF AbuseRefuse, Detect, Answer, counters, history,
         Refusals, Bit, Shifts, OnTheWay, SoftFlagged, Types, Counts,
         Unanswered, Story
    <2>15. CASE AbuseThrottle(r)
      BY <2>1, <2>2, <2>15 DEF AbuseThrottle, Detect, Forward, Then, counters,
         history, Refusals, Bit, Shifts, OnTheWay, SoftFlagged, Types, Counts,
         Unanswered, Story
    <2>16. CASE Health(r)
      BY <2>1, <2>2, <2>16 DEF Health, Answer, counters, history, Refusals,
         Bit, Shifts, OnTheWay, SoftFlagged, Types, Counts, Unanswered, Story
    <2>17. CASE Proxy(r)
      BY <2>1, <2>2, <2>17 DEF Proxy, Answer, counters, history, Refusals,
         Bit, Shifts, OnTheWay, SoftFlagged, Types, Counts, Unanswered, Story
    <2>17a. CASE Register(r)
      BY <2>1, <2>2, <2>17a DEF Register, Answer, counters, history, Refusals,
         Bit, Shifts, OnTheWay, SoftFlagged, Types, Counts, Unanswered, Story
    <2>18. CASE Login(r)
      BY <2>1, <2>2, <2>18 DEF Login, Answer, counters, history, Refusals,
         Bit, Shifts, OnTheWay, SoftFlagged, Types, Counts, Unanswered, Story
    <2>19. CASE AdminRefuse(r)
      BY <2>1, <2>2, <2>19 DEF AdminRefuse, Answer, counters, history,
         Refusals, Bit, Shifts, OnTheWay, SoftFlagged, Types, Counts,
         Unanswered, Story
    <2>20. CASE BlockIp(r)
      BY <2>1, <2>2, <2>20 DEF BlockIp, Answer, counters, history, Refusals,
         Bit, Shifts, OnTheWay, SoftFlagged, Types, Counts, Unanswered, Story
    <2>21. CASE Shadow(r)
      BY <2>1, <2>2, <2>21 DEF Shadow, counters, history, Refusals, Bit,
         Shifts, OnTheWay, SoftFlagged, Types, Counts, Unanswered, Story
    <2>22. CASE Count(r)
      BY <2>1, <2>2, <2>22 DEF Count, counters, history, Refusals, Bit,
         Shifts, OnTheWay, SoftFlagged, Types, Counts, Unanswered, Story
    <2>23. CASE Fail(r)
      BY <2>1, <2>2, <2>23 DEF Fail, Awaits, Raise, counters, history,
         Refusals, Bit, Shifts, OnTheWay, SoftFlagged, Types, Counts,
         Unanswered, Story
    <2> QED
      BY <1>1, <2>4, <2>5, <2>6, <2>7, <2>8, <2>9, <2>10, <2>11, <2>12, <2>13,
         <2>14, <2>15, <2>16, <2>17, <2>17a, <2>18, <2>19, <2>20, <2>21, <2>22,
         <2>23 DEF Handles
  <1>2. ASSUME NEW c \in Clients \cup {Anonymous}, Slide(c)
        PROVE  Refusals'
    BY <1>2 DEF Slide, counters, Refusals, OnTheWay, SoftFlagged
  <1>3. CASE UNCHANGED vars
    BY <1>3 DEF vars, counters, Refusals, OnTheWay, SoftFlagged
  <1> QED
    BY <1>1, <1>2, <1>3 DEF Next, Finished, Handles

LEMMA DenialsNext ==
    Types /\ Counts /\ Unanswered /\ Story /\ Denials /\ [Next]_vars => Denials'
  <1> SUFFICES ASSUME Types, Counts, Unanswered, Story, Denials, [Next]_vars
     PROVE Denials'
    OBVIOUS
  <1>1. ASSUME NEW r \in Requests, Handles(r)
        PROVE  Denials'
    <2>1. /\ Shifts(r, OnTheWay(403), OnTheWay(403)')
          /\ Shifts(r, Answers("route", 403), Answers("route", 403)')
      BY <1>1, SetsChange
    <2>2. /\ Cardinality(OnTheWay(403)) \in Nat
          /\ Cardinality(Answers("route", 403)) \in Nat
      BY SetsCount
    <2>4. CASE Arrive(r)
      BY <2>1, <2>2, <2>4 DEF Arrive, counters, history, Denials, Bit, Shifts,
         OnTheWay, Answers, Types, Counts, Unanswered, Story
    <2>5. CASE Authenticate(r)
      BY <2>1, <2>2, <2>5 DEF Authenticate, Forward, Then, Answer, counters,
         history, Denials, Bit, Shifts, OnTheWay, Answers, Types, Counts,
         Unanswered, Story
    <2>6. CASE Screen(r)
      BY <2>1, <2>2, <2>6 DEF Screen, Forward, Then, counters, history,
         Denials, Bit, Shifts, OnTheWay, Answers, Types, Counts, Unanswered,
         Story
    <2>7. CASE Deny(r)
      BY <2>1, <2>2, <2>7 DEF Deny, Answer, counters, history, Denials, Bit,
         Shifts, OnTheWay, Answers, Types, Counts, Unanswered, Story
    <2>8. CASE LimitSkip(r)
      BY <2>1, <2>2, <2>8 DEF LimitSkip, Forward, Then, counters, history,
         Denials, Bit, Shifts, OnTheWay, Answers, Types, Counts, Unanswered,
         Story
    <2>9. CASE LimitAdmit(r)
      BY <2>1, <2>2, <2>9 DEF LimitAdmit, Enter, Forward, Then, counters,
         history, Denials, Bit, Shifts, OnTheWay, Answers, Types, Counts,
         Unanswered, Story
    <2>10. CASE LimitReject(r)
      BY <2>1, <2>2, <2>10 DEF LimitReject, Answer, counters, history,
         Denials, Bit, Shifts, OnTheWay, Answers, Types, Counts, Unanswered,
         Story
    <2>11. CASE LimitLost(r)
      BY <2>1, <2>2, <2>11 DEF LimitLost, Enter, Raise, counters, history,
         Denials, Bit, Shifts, OnTheWay, Answers, Types, Counts, Unanswered,
         Story
    <2>12. CASE AbusePass(r)
      BY <2>1, <2>2, <2>12 DEF AbusePass, Forward, Then, counters, history,
         Denials, Bit, Shifts, OnTheWay, Answers, Types, Counts, Unanswered,
         Story
    <2>13. CASE AbuseFlag(r)
      BY <2>1, <2>2, <2>13 DEF AbuseFlag, Detect, Forward, Then, counters,
         history, Denials, Bit, Shifts, OnTheWay, Answers, Types, Counts,
         Unanswered, Story
    <2>14. CASE AbuseRefuse(r)
      BY <2>1, <2>2, <2>14 DEF AbuseRefuse, Detect, Answer, counters, history,
         Denials, Bit, Shifts, OnTheWay, Answers, Types, Counts, Unanswered,
         Story
    <2>15. CASE AbuseThrottle(r)
      BY <2>1, <2>2, <2>15 DEF AbuseThrottle, Detect, Forward, Then, counters,
         history, Denials, Bit, Shifts, OnTheWay, Answers, Types, Counts,
         Unanswered, Story
    <2>16. CASE Health(r)
      BY <2>1, <2>2, <2>16 DEF Health, Answer, counters, history, Denials,
         Bit, Shifts, OnTheWay, Answers, Types, Counts, Unanswered, Story
    <2>17. CASE Proxy(r)
      BY <2>1, <2>2, <2>17 DEF Proxy, Answer, counters, history, Denials, Bit,
         Shifts, OnTheWay, Answers, Types, Counts, Unanswered, Story
    <2>17a. CASE Register(r)
      BY <2>1, <2>2, <2>17a DEF Register, Answer, counters, history, Denials,
         Bit, Shifts, OnTheWay, Answers, Types, Counts, Unanswered, Story
    <2>18. CASE Login(r)
      BY <2>1, <2>2, <2>18 DEF Login, Answer, counters, history, Denials, Bit,
         Shifts, OnTheWay, Answers, Types, Counts, Unanswered, Story
    <2>19. CASE AdminRefuse(r)
      BY <2>1, <2>2, <2>19 DEF AdminRefuse, Answer, counters, history,
         Denials, Bit, Shifts, OnTheWay, Answers, Types, Counts, Unanswered,
         Story
    <2>20. CASE BlockIp(r)
      BY <2>1, <2>2, <2>20 DEF BlockIp, Answer, counters, history, Denials,
         Bit, Shifts, OnTheWay, Answers, Types, Counts, Unanswered, Story
    <2>21. CASE Shadow(r)
      BY <2>1, <2>2, <2>21 DEF Shadow, counters, history, Denials, Bit,
         Shifts, OnTheWay, Answers, Types, Counts, Unanswered, Story
    <2>22. CASE Count(r)
      BY <2>1, <2>2, <2>22 DEF Count, counters, history, Denials, Bit, Shifts,
         OnTheWay, Answers, Types, Counts, Unanswered, Story
    <2>23. CASE Fail(r)
      BY <2>1, <2>2, <2>23 DEF Fail, Awaits, Raise, counters, history,
         Denials, Bit, Shifts, OnTheWay, Answers, Types, Counts, Unanswered,
         Story
    <2> QED
      BY <1>1, <2>4, <2>5, <2>6, <2>7, <2>8, <2>9, <2>10, <2>11, <2>12, <2>13,
         <2>14, <2>15, <2>16, <2>17, <2>17a, <2>18, <2>19, <2>20, <2>21, <2>22,
         <2>23 DEF Handles
  <1>2. ASSUME NEW c \in Clients \cup {Anonymous}, Slide(c)
        PROVE  Denials'
    BY <1>2 DEF Slide, counters, Denials, OnTheWay, Answers
  <1>3. CASE UNCHANGED vars
    BY <1>3 DEF vars, counters, Denials, OnTheWay, Answers
  <1> QED
    BY <1>1, <1>2, <1>3 DEF Next, Finished, Handles

LEMMA EndedNext ==
    Types /\ Counts /\ Unanswered /\ Story /\ Ended /\ [Next]_vars => Ended'
  <1> SUFFICES ASSUME Types, Counts, Unanswered, Story, Ended, [Next]_vars
     PROVE Ended'
    OBVIOUS
  <1>1. ASSUME NEW r \in Requests, Handles(r)
        PROVE  Ended'
    <2>1. /\ Shifts(r, Raised, Raised')
          /\ Shifts(r, Done, Done')
      BY <1>1, SetsChange
    <2>2. /\ Cardinality(Raised) \in Nat
          /\ Cardinality(Done) \in Nat
      BY SetsCount
    <2>4. CASE Arrive(r)
      BY <2>1, <2>2, <2>4 DEF Arrive, counters, history, Ended, Bit, Shifts,
         Raised, Done, Types, Counts, Unanswered, Story
    <2>5. CASE Authenticate(r)
      BY <2>1, <2>2, <2>5 DEF Authenticate, Forward, Then, Answer, counters,
         history, Ended, Bit, Shifts, Raised, Done, Types, Counts, Unanswered,
         Story
    <2>6. CASE Screen(r)
      BY <2>1, <2>2, <2>6 DEF Screen, Forward, Then, counters, history, Ended,
         Bit, Shifts, Raised, Done, Types, Counts, Unanswered, Story
    <2>7. CASE Deny(r)
      BY <2>1, <2>2, <2>7 DEF Deny, Answer, counters, history, Ended, Bit,
         Shifts, Raised, Done, Types, Counts, Unanswered, Story
    <2>8. CASE LimitSkip(r)
      BY <2>1, <2>2, <2>8 DEF LimitSkip, Forward, Then, counters, history,
         Ended, Bit, Shifts, Raised, Done, Types, Counts, Unanswered, Story
    <2>9. CASE LimitAdmit(r)
      BY <2>1, <2>2, <2>9 DEF LimitAdmit, Enter, Forward, Then, counters,
         history, Ended, Bit, Shifts, Raised, Done, Types, Counts, Unanswered,
         Story
    <2>10. CASE LimitReject(r)
      BY <2>1, <2>2, <2>10 DEF LimitReject, Answer, counters, history, Ended,
         Bit, Shifts, Raised, Done, Types, Counts, Unanswered, Story
    <2>11. CASE LimitLost(r)
      BY <2>1, <2>2, <2>11 DEF LimitLost, Enter, Raise, counters, history,
         Ended, Bit, Shifts, Raised, Done, Types, Counts, Unanswered, Story
    <2>12. CASE AbusePass(r)
      BY <2>1, <2>2, <2>12 DEF AbusePass, Forward, Then, counters, history,
         Ended, Bit, Shifts, Raised, Done, Types, Counts, Unanswered, Story
    <2>13. CASE AbuseFlag(r)
      BY <2>1, <2>2, <2>13 DEF AbuseFlag, Detect, Forward, Then, counters,
         history, Ended, Bit, Shifts, Raised, Done, Types, Counts, Unanswered,
         Story
    <2>14. CASE AbuseRefuse(r)
      BY <2>1, <2>2, <2>14 DEF AbuseRefuse, Detect, Answer, counters, history,
         Ended, Bit, Shifts, Raised, Done, Types, Counts, Unanswered, Story
    <2>15. CASE AbuseThrottle(r)
      BY <2>1, <2>2, <2>15 DEF AbuseThrottle, Detect, Forward, Then, counters,
         history, Ended, Bit, Shifts, Raised, Done, Types, Counts, Unanswered,
         Story
    <2>16. CASE Health(r)
      BY <2>1, <2>2, <2>16 DEF Health, Answer, counters, history, Ended, Bit,
         Shifts, Raised, Done, Types, Counts, Unanswered, Story
    <2>17. CASE Proxy(r)
      BY <2>1, <2>2, <2>17 DEF Proxy, Answer, counters, history, Ended, Bit,
         Shifts, Raised, Done, Types, Counts, Unanswered, Story
    <2>17a. CASE Register(r)
      BY <2>1, <2>2, <2>17a DEF Register, Answer, counters, history, Ended, Bit,
         Shifts, Raised, Done, Types, Counts, Unanswered, Story
    <2>18. CASE Login(r)
      BY <2>1, <2>2, <2>18 DEF Login, Answer, counters, history, Ended, Bit,
         Shifts, Raised, Done, Types, Counts, Unanswered, Story
    <2>19. CASE AdminRefuse(r)
      BY <2>1, <2>2, <2>19 DEF AdminRefuse, Answer, counters, history, Ended,
         Bit, Shifts, Raised, Done, Types, Counts, Unanswered, Story
    <2>20. CASE BlockIp(r)
      BY <2>1, <2>2, <2>20 DEF BlockIp, Answer, counters, history, Ended, Bit,
         Shifts, Raised, Done, Types, Counts, Unanswered, Story
    <2>21. CASE Shadow(r)
      BY <2>1, <2>2, <2>21 DEF Shadow, counters, history, Ended, Bit, Shifts,
         Raised, Done, Types, Counts, Unanswered, Story
    <2>22. CASE Count(r)
      BY <2>1, <2>2, <2>22 DEF Count, counters, history, Ended, Bit, Shifts,
         Raised, Done, Types, Counts, Unanswered, Story
    <2>23. CASE Fail(r)
      BY <2>1, <2>2, <2>23 DEF Fail, Awaits, Raise, counters, history, Ended,
         Bit, Shifts, Raised, Done, Types, Counts, Unanswered, Story
    <2> QED
      BY <1>1, <2>4, <2>5, <2>6, <2>7, <2>8, <2>9, <2>10, <2>11, <2>12, <2>13,
         <2>14, <2>15, <2>16, <2>17, <2>17a, <2>18, <2>19, <2>20, <2>21, <2>22,
         <2>23 DEF Handles
  <1>2. ASSUME NEW c \in Clients \cup {Anonymous}, Slide(c)
        PROVE  Ended'
    BY <1>2 DEF Slide, counters, Ended, Raised, Done
  <1>3. CASE UNCHANGED vars
    BY <1>3 DEF vars, counters, Ended, Raised, Done
  <1> QED
    BY <1>1, <1>2, <1>3 DEF Next, Finished, Handles

Inv ==
    Types /\ Counts /\ Windows /\ Unanswered /\ Identified /\ Covered /\ Story
        /\ DeniedCostsNothing /\ NoServiceAfterBlock /\ CountersAddUp

LEMMA InvInit == Init => Inv
  <1> SUFFICES ASSUME Init PROVE Inv
    OBVIOUS
  <1>1. Types /\ Counts /\ Windows
    BY TypesInit, TypeParts
  <1>2. Unanswered /\ Identified /\ Covered
    BY DEF Init, Unanswered, Identified, Covered
  <1>3. DeniedCostsNothing /\ NoServiceAfterBlock
    BY DEF Init, DeniedCostsNothing, NoServiceAfterBlock
  <1>4. Story
    BY DEF Init, Story
  <1>5. CountersAddUp
    <2>1. /\ OnTheWay(429) = {} /\ OnTheWay(403) = {} /\ SoftFlagged = {}
          /\ Answers("route", 403) = {} /\ Raised = {} /\ Done = {}
      BY DEF Init, OnTheWay, SoftFlagged, Answers, Raised, Done
    <2>2. Cardinality({}) = 0
      BY FS_EmptySet
    <2>3. /\ total[200] = 0 /\ total[401] = 0 /\ total[403] = 0 /\ total[429] = 0
          /\ rejections = 0 /\ hits = 0 /\ detections["soft_block"] = 0
      BY DEF Init, Codes, Verdicts
    <2> QED
      BY <2>1, <2>2, <2>3, StoriesMeet DEF Refusals, Denials, Ended
  <1> QED
    BY <1>1, <1>2, <1>3, <1>4, <1>5 DEF Inv

LEMMA WindowsNext == Windows /\ [Next]_vars => Windows'
  <1> SUFFICES ASSUME Windows, [Next]_vars PROVE Windows'
    OBVIOUS
  <1>1. ASSUME NEW r \in Requests, LimitAdmit(r) \/ LimitLost(r)
        PROVE  Windows'
    BY <1>1, EntersWithin DEF LimitAdmit, LimitLost
  <1>2. ASSUME NEW c \in Clients \cup {Anonymous}, Slide(c)
        PROVE  Windows'
    BY <1>2, SlidesWithin
  <1>3. ASSUME NEW r \in Requests, Handles(r), ~LimitAdmit(r), ~LimitLost(r)
        PROVE  quota' = quota
    BY <1>3 DEF Handles, Arrive, Authenticate, Screen, Deny, LimitSkip,
       LimitReject, AbusePass, AbuseFlag, AbuseRefuse, AbuseThrottle,
       Health, Register, Proxy, Login, AdminRefuse, BlockIp, Shadow,
       Count, Fail
  <1>4. quota' = quota => Windows'
    BY DEF Windows
  <1>5. UNCHANGED vars => quota' = quota
    BY DEF vars
  <1> QED
    BY <1>1, <1>2, <1>3, <1>4, <1>5 DEF Next, Finished, Handles

LEMMA InvNext == Inv /\ [Next]_vars => Inv'
  <1> SUFFICES ASSUME Inv, [Next]_vars PROVE Inv'
    OBVIOUS
  <1>0. /\ Types /\ Counts /\ Windows /\ Unanswered /\ Identified /\ Covered
        /\ Story /\ DeniedCostsNothing /\ NoServiceAfterBlock
        /\ Refusals /\ Denials /\ Ended
    BY StoriesMeet DEF Inv
  <1>1. Types' /\ Counts' /\ Windows'
    BY <1>0, TypesNext, CountsNext, WindowsNext
  <1>2. Unanswered' /\ Identified' /\ Covered' /\ Story'
    BY <1>0, UnansweredNext, IdentifiedNext, CoveredNext, StoryNext
  <1>3. DeniedCostsNothing' /\ NoServiceAfterBlock'
    BY <1>0, DeniedNext, ServiceNext
  <1>4. Refusals' /\ Denials' /\ Ended'
    BY <1>0, RefusalsNext, DenialsNext, EndedNext
  <1>5. CountersAddUp'
    BY <1>4 DEF CountersAddUp, Refusals, Denials, Ended, Raised, Done
  <1> QED
    BY <1>1, <1>2, <1>3, <1>5 DEF Inv

LEMMA Invariance == Spec => []Inv
  BY InvInit, InvNext, PTL DEF Spec

\* The types, and every window within the limit, however many requests of its
\* client are between the layers.
THEOREM TypeCorrect == Spec => []TypeOK
  <1>1. Inv => TypeOK
    BY TypeParts DEF Inv
  <1> QED
    BY Invariance, <1>1, PTL

\* A request that the token check, the filter or the limiter turns away is
\* charged to nobody.
THEOREM DeniedHolds == Spec => []DeniedCostsNothing
  <1>1. Inv => DeniedCostsNothing
    BY DEF Inv
  <1> QED
    BY Invariance, <1>1, PTL

\* No request from an address whose block was answered before it came gets past
\* the filter, whatever runs beside it and whatever fails.
THEOREM ServiceHolds == Spec => []NoServiceAfterBlock
  <1>1. Inv => NoServiceAfterBlock
    BY DEF Inv
  <1> QED
    BY Invariance, <1>1, PTL

\* The counters of the layers and the total tell one story at every moment,
\* failures included.
THEOREM CountersHold == Spec => []CountersAddUp
  <1>1. Inv => CountersAddUp
    BY DEF Inv
  <1> QED
    BY Invariance, <1>1, PTL
=============================================================================
