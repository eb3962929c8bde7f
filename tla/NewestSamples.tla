--------------------------- MODULE NewestSamples ---------------------------
(***************************************************************************)
(* What the timing samples of a client promise, without trimming: all      *)
(* stamps are remembered until no sample came for Ttl, and a request sees  *)
(* the MaxSamples newest of them.                                          *)
(***************************************************************************)
EXTENDS FiniteSets, Naturals

CONSTANTS Calls, MaxSamples, Ttl

VARIABLES
    log,    \* the stamps remembered
    quiet,  \* time since the last sample
    seen    \* seen[c]: what call c was last shown

Newest(S) == {s \in S : Cardinality({t \in S : t > s}) < MaxSamples}

NSInit ==
    /\ log = {}
    /\ quiet = Ttl
    /\ seen = [c \in Calls |-> {}]

Sample ==
    /\ \E s \in log' : log' = log \union {s}
    /\ quiet' = 0
    /\ UNCHANGED seen

Show(c) ==
    /\ seen' = [seen EXCEPT ![c] = Newest(log)]
    /\ UNCHANGED <<log, quiet>>

Wait ==
    /\ quiet < Ttl
    /\ quiet' = quiet + 1
    /\ log' = IF quiet' = Ttl THEN {} ELSE log
    /\ UNCHANGED seen

NSNext == Sample \/ (\E c \in Calls : Show(c)) \/ Wait

NSSpec == NSInit /\ [][NSNext]_<<log, quiet, seen>>
=============================================================================
