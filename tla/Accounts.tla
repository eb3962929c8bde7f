------------------------------ MODULE Accounts ------------------------------
(***************************************************************************)
(* The users table, registration and login, the tokens a login issues and  *)
(* the two places that decode them: AuthMiddleware and require_admin.      *)
(*                                                                         *)
(* A request runs once and keeps its answer.  What precedes its first      *)
(* query (bcrypt, the outer middleware) reads nothing and is part of that  *)
(* query's step.  Time is in seconds, as exp is; a host may be up to Skew  *)
(* ahead of the slowest one, whose time is clock.                          *)
(***************************************************************************)
EXTENDS Integers, FiniteSets

CONSTANTS
    Requests,                     \* requests to register, log in, administer
    Names, Emails, Passwords,
    Ttl,                          \* ACCESS_TOKEN_EXPIRE_MINUTES
    Skew,                         \* bound on the difference of two clocks
    LoginTime,                    \* bound on verify_password
    MaxClock                      \* bound on the time explored

ASSUME AccountsAssumption ==
    /\ Ttl \in Nat /\ Skew \in Nat /\ LoginTime \in Nat /\ MaxClock \in Nat

VARIABLES
    users,    \* the rows of the table
    tokens,   \* the tokens issued so far
    pc,       \* pc[r]: the await request r stands at
    asked,    \* asked[r]: the names and secrets r came with
    row,      \* row[r]: what the login r fetched, a row or nothing
    token,    \* token[r]: what the admin call r carries, a token or nothing
    answer,   \* answer[r]: status of r's response, 0: none yet
    at,       \* at[r]: when r fetched its row, or passed require_admin
    clock,
    held      \* history: <<name, instant>>, name was an admin then

requestVars == <<pc, asked, row, token, answer, at>>

vars == <<users, tokens, requestVars, clock, held>>

Roles == {"user", "admin"}

Claim == [name : Names, email : Emails, password : Passwords]

User == [id : Requests, name : Names, email : Emails, password : Passwords,
         role : Roles]

Token == [sub : Names, role : Roles, exp : Nat]

\* The time a host may read.
HostTime == clock..(clock + Skew)

Answer(r, status) ==
    /\ answer' = [answer EXCEPT ![r] = status]
    /\ pc' = [pc EXCEPT ![r] = "done"]

-----------------------------------------------------------------------------
Init ==
    /\ users = {} /\ tokens = {}
    /\ pc = [r \in Requests |-> "idle"]
    /\ asked \in [Requests -> Claim]
    /\ row = [r \in Requests |-> {}]
    /\ token = [r \in Requests |-> {}]
    /\ answer = [r \in Requests |-> 0]
    /\ at = [r \in Requests |-> 0]
    /\ clock = 0
    /\ held = {}

Found(name) == {u \in users : u.name = name}

\* A mutant of Lookup: the address is looked up too, with the same answer.
LookupEither(r) ==
    LET found == {u \in users : u.name = asked[r].name \/ u.email = asked[r].email} IN
    /\ pc[r] = "idle"
    /\ \/ found # {} /\ Answer(r, 409)
       \/ found = {} /\ pc' = [pc EXCEPT ![r] = "insert"] /\ UNCHANGED answer
    /\ UNCHANGED <<users, tokens, asked, row, token, at, clock, held>>

\* register: hash_password, then SELECT of the user name.
Lookup(r) ==
    /\ pc[r] = "idle"
    /\ \/ /\ Found(asked[r].name) # {}
          /\ Answer(r, 409)
       \/ /\ Found(asked[r].name) = {}
          /\ pc' = [pc EXCEPT ![r] = "insert"]
          /\ UNCHANGED answer
    /\ UNCHANGED <<users, tokens, asked, row, token, at, clock, held>>

NewUser(r) == [id |-> r, name |-> asked[r].name, email |-> asked[r].email,
               password |-> asked[r].password, role |-> "user"]

\* A mutant of Taken: the table has no constraint on user names.
TakenEmail(r) == \E u \in users : u.email = asked[r].email

\* The two unique columns.
Taken(r) == \E u \in users : u.name = asked[r].name \/ u.email = asked[r].email

\* register: add and commit.  A violated constraint is an exception nobody
\* catches.
Insert(r) ==
    /\ pc[r] = "insert"
    /\ \/ Taken(r) /\ Answer(r, 500) /\ UNCHANGED users
       \/ /\ ~ Taken(r)
          /\ users' = users \union {NewUser(r)}
          /\ pc' = [pc EXCEPT ![r] = "refresh"]
          /\ UNCHANGED answer
    /\ UNCHANGED <<tokens, asked, row, token, at, clock, held>>

\* register: refresh and the reply.
Refresh(r) ==
    /\ pc[r] = "refresh"
    /\ Answer(r, 201)
    /\ UNCHANGED <<users, tokens, asked, row, token, at, clock, held>>

\* login: SELECT of the user; verify_password follows, in a thread.
Fetch(r) ==
    /\ pc[r] = "idle"
    /\ row' = [row EXCEPT ![r] = Found(asked[r].name)]
    /\ at' = [at EXCEPT ![r] = clock]
    /\ pc' = [pc EXCEPT ![r] = "verify"]
    /\ UNCHANGED <<users, tokens, asked, token, answer, clock, held>>

\* A mutant of Issue: a user who does not exist is not refused.
IssueUnknown(r) ==
    /\ pc[r] = "verify"
    /\ \E now \in HostTime :
          tokens' = tokens \union
              {[sub |-> asked[r].name, exp |-> now + Ttl,
                role |-> IF row[r] = {} THEN "none"
                         ELSE (CHOOSE u \in row[r] : TRUE).role]}
    /\ Answer(r, 200)
    /\ UNCHANGED <<users, asked, row, token, at, clock, held>>

\* login: the password is verified, create_access_token with the role fetched.
Issue(r) ==
    /\ pc[r] = "verify"
    /\ \/ /\ \A u \in row[r] : u.password # asked[r].password
          /\ Answer(r, 401)
          /\ UNCHANGED tokens
       \/ \E u \in row[r], now \in HostTime :
          /\ u.password = asked[r].password
          /\ tokens' = tokens \union
                {[sub |-> u.name, role |-> u.role, exp |-> now + Ttl]}
          /\ Answer(r, 200)
    /\ UNCHANGED <<users, asked, row, token, at, clock, held>>

\* decode_access_token on some host: exp is checked, in whole seconds.
Valid(t, now) == now <= t.exp

\* AuthMiddleware of an admin route; the other middleware may then delay it.
Authenticate(r) ==
    /\ pc[r] = "idle"
    /\ \E t \in tokens, now \in HostTime :
          /\ token' = [token EXCEPT ![r] = {t}]
          /\ IF Valid(t, now)
             THEN pc' = [pc EXCEPT ![r] = "guard"] /\ UNCHANGED answer
             ELSE Answer(r, 401)
    /\ UNCHANGED <<users, tokens, asked, row, at, clock, held>>

\* A mutant of RequireAdmin: it trusts AuthMiddleware's check of the token.
RequireAdminTrusting(r) ==
    /\ pc[r] = "guard"
    /\ \E t \in token[r] : Answer(r, IF t.role # "admin" THEN 403 ELSE 200)
    /\ at' = [at EXCEPT ![r] = clock]
    /\ UNCHANGED <<users, tokens, asked, row, token, clock, held>>

\* require_admin decodes the token again and reads its role; 200 stands for
\* whatever the admin route then does.
RequireAdmin(r) ==
    /\ pc[r] = "guard"
    /\ \E t \in token[r], now \in HostTime :
          Answer(r, IF ~ Valid(t, now) THEN 401
                    ELSE IF t.role # "admin" THEN 403 ELSE 200)
    /\ at' = [at EXCEPT ![r] = clock]
    /\ UNCHANGED <<users, tokens, asked, row, token, clock, held>>

\* The database, Redis or the pool fails at an await, or the reply of a commit
\* or the response is lost.
Fail(r) ==
    /\ pc[r] \in {"insert", "refresh", "verify", "guard"}
    /\ Answer(r, 500)
    /\ UNCHANGED <<users, tokens, asked, row, token, at, clock, held>>

\* Another bound: what follows the last answer is not explored.
Open == \E r \in Requests : pc[r] # "done"

Admins(table) == {u.name : u \in {v \in table : v.role = "admin"}}

\* UPDATE users SET role = ... WHERE username = ..., by an operator.
SetRole(name, new) ==
    /\ Open
    /\ \E u \in Found(name) : u.role # new
    /\ users' = {[u EXCEPT !.role = IF u.name = name THEN new ELSE @] : u \in users}
    /\ held' = held \union (Admins(users') \X {clock})
    /\ UNCHANGED <<tokens, requestVars, clock>>

Tick ==
    /\ Open /\ clock < MaxClock
    /\ \A r \in Requests : pc[r] = "verify" => clock < at[r] + LoginTime
    /\ clock' = clock + 1
    /\ held' = held \union (Admins(users) \X {clock'})
    /\ UNCHANGED <<users, tokens, requestVars>>

Finished == ~ Open /\ UNCHANGED vars

Next ==
    \/ \E r \in Requests :
          \/ Lookup(r) \/ Insert(r) \/ Refresh(r) \/ Fetch(r) \/ Issue(r)
          \/ Authenticate(r) \/ RequireAdmin(r) \/ Fail(r)
    \/ \E name \in Names, new \in Roles : SetRole(name, new)
    \/ Tick
    \/ Finished

Spec == Init /\ [][Next]_vars

-----------------------------------------------------------------------------
TypeOK ==
    /\ users \subseteq User /\ tokens \subseteq Token
    /\ pc \in [Requests -> {"idle", "insert", "refresh", "verify", "guard", "done"}]
    /\ asked \in [Requests -> Claim]
    /\ row \in [Requests -> SUBSET User]
    /\ token \in [Requests -> SUBSET Token]
    /\ answer \in [Requests -> {0, 200, 201, 401, 403, 409, 500}]
    /\ at \in [Requests -> Nat] /\ clock \in Nat
    /\ held \subseteq Names \X Nat

\* A registration that was answered 201 has its account, as it was asked for,
\* and shares neither name nor address with another one, though all of them
\* looked the name up before they inserted (routers/auth.py:33-51).
RegistrationsStand ==
    \A r \in Requests : answer[r] = 201 =>
        /\ \E u \in users :
              /\ u.id = r /\ u.name = asked[r].name
              /\ u.email = asked[r].email /\ u.password = asked[r].password
        /\ \A q \in Requests \ {r} : answer[q] = 201 =>
              asked[q].name # asked[r].name /\ asked[q].email # asked[r].email

\* Registration is one step for its callers, although the lookup, the commit
\* and the reply are three: 409 is said only of a name that is taken, a 500
\* after the commit leaves the account for good, and a 500 before it leaves
\* nothing that comes later (routers/auth.py:33-51).
Contract == INSTANCE Registry
    WITH claim <- asked,
         accounts <- {[id |-> u.id, name |-> u.name, email |-> u.email,
                       password |-> u.password] : u \in users},
         reply <- [r \in Requests |->
                      IF answer[r] \in {201, 409, 500} THEN answer[r] ELSE 0]

ImplementsRegistry == Contract!RGSpec

\* The caller of an admin route that ran was an admin at some time within the
\* given span before it was let in.
AdminWithin(span) ==
    \A r \in Requests : \A t \in token[r] : answer[r] = 200 =>
        \E h \in held : h[1] = t.sub /\ h[2] <= at[r] /\ at[r] <= h[2] + span

\* The role in a token outlives a change in the table, but not for ever: the
\* life of a token, the login that read the role before, and the hosts' clocks
\* bound it (core/security.py:40-51, dependencies.py:31-72).
AdminRecently == AdminWithin(Ttl + LoginTime + Skew)
=============================================================================
