------------------------------ MODULE Registry ------------------------------
(***************************************************************************)
(* What registration promises its callers (register in routers/auth.py):   *)
(* an account is made in one step, out of what one request asked for, only *)
(* if neither its name nor its address is in use, and it stays.  201 is    *)
(* said of an account that is there, 409 of a name that is another's, and  *)
(* 500 says nothing: the account may be there or not, but it will not      *)
(* come later.                                                             *)
(*                                                                         *)
(* There is no lookup, and nothing but this step decides who gets a name.  *)
(***************************************************************************)
CONSTANT Requests

VARIABLES
    claim,     \* claim[r]: the name, address and password r asks for
    accounts,  \* the accounts, each with the request that made it
    reply      \* reply[r]: the status r was answered; 0: none of these

rgVars == <<claim, accounts, reply>>

RGInit ==
    /\ accounts = {}
    /\ reply = [r \in Requests |-> 0]

Mine(r) == {a \in accounts : a.id = r}

Register(r) ==
    /\ reply[r] = 0 /\ Mine(r) = {}
    /\ \A a \in accounts : a.name # claim[r].name /\ a.email # claim[r].email
    /\ accounts' = accounts \union
          {[id |-> r, name |-> claim[r].name, email |-> claim[r].email,
            password |-> claim[r].password]}
    /\ UNCHANGED <<claim, reply>>

Tell(r, status) ==
    /\ reply[r] = 0
    /\ reply' = [reply EXCEPT ![r] = status]
    /\ UNCHANGED <<claim, accounts>>

Created(r) == Mine(r) # {} /\ Tell(r, 201)

Conflict(r) ==
    /\ Mine(r) = {} /\ \E a \in accounts : a.name = claim[r].name
    /\ Tell(r, 409)

RGNext ==
    \E r \in Requests : Register(r) \/ Created(r) \/ Conflict(r) \/ Tell(r, 500)

RGSpec == RGInit /\ [][RGNext]_rgVars
=============================================================================
