--------------------------- MODULE SlidingWindow ---------------------------
(***************************************************************************)
(* What the rate limiter of app/services/rate_limiter.py promises for one  *)
(* client_id: a log of the stamps (milliseconds) of admitted requests, and *)
(* two rules.  A request may be admitted only while fewer than Limit       *)
(* stamps lie in the window that ends with it, shortened by Slack; it may  *)
(* be refused only when Limit stamps lie in the whole window.              *)
(*                                                                         *)
(* Nothing here evicts, expires or runs a clock: those are the means by    *)
(* which RateLimiter implements this module.                               *)
(***************************************************************************)
EXTENDS Integers, FiniteSets

CONSTANTS
    Requests,   \* the calls of check_rate_limit, each made once
    Limit,      \* rate_limit_requests
    Span,       \* length of the window, in milliseconds
    Slack       \* how far clocks and delays may shorten the window

VARIABLES
    stamp,      \* stamp[r]: the gateway's time when r was sent
    outcome,    \* outcome[r]: how far r got
    entered     \* the requests whose stamp the log holds

swVars == <<stamp, outcome, entered>>

Log == {stamp[r] : r \in entered}

After(t) == {a \in Log : a > t}

SWInit ==
    /\ stamp = [r \in Requests |-> 0]
    /\ outcome = [r \in Requests |-> "idle"]
    /\ entered = {}

Arrive(r) ==
    /\ outcome[r] = "idle"
    /\ stamp'[r] \in Nat
    /\ stamp' = [stamp EXCEPT ![r] = stamp'[r]]
    /\ outcome' = [outcome EXCEPT ![r] = "sent"]
    /\ UNCHANGED entered

\* The answer may be lost, and the entry then stands without it.
Admit(r) ==
    /\ outcome[r] = "sent"
    /\ Cardinality(After(stamp[r] - Span + Slack)) < Limit
    /\ entered' = entered \union {r}
    /\ outcome' \in {outcome, [outcome EXCEPT ![r] = "allowed"]}
    /\ UNCHANGED stamp

Refuse(r) ==
    /\ outcome[r] = "sent"
    /\ Cardinality(After(stamp[r] - Span)) >= Limit
    /\ outcome' = [outcome EXCEPT ![r] = "rejected"]
    /\ UNCHANGED <<stamp, entered>>

Fail(r) ==
    /\ outcome[r] = "sent"
    /\ outcome' = [outcome EXCEPT ![r] = "failed"]
    /\ UNCHANGED <<stamp, entered>>

SWNext == \E r \in Requests : Arrive(r) \/ Admit(r) \/ Refuse(r) \/ Fail(r)

SWSpec == SWInit /\ [][SWNext]_swVars
=============================================================================
