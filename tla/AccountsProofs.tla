-------------------------- MODULE AccountsProofs --------------------------
(***************************************************************************)
(* Theorems about Accounts, for any number of requests, names and          *)
(* addresses, any life of a token, duration of a login and clock skew.     *)
(***************************************************************************)
EXTENDS Accounts, TLAPS

\* No two rows share a name or an address.
Unique ==
    \A u, v \in users : u.name = v.name \/ u.email = v.email => u = v

\* u is the row that request r asked for.
RowOf(u, r) ==
    /\ u.id = r /\ u.name = asked[r].name
    /\ u.email = asked[r].email /\ u.password = asked[r].password

\* A registration that has committed, or was answered 201, has its row.
Recorded ==
    \A r \in Requests :
        pc[r] = "refresh" \/ answer[r] = 201 => \E u \in users : RowOf(u, r)

\* Every row was asked for by its request, which is past its commit.
Committed ==
    \A u \in users : pc[u.id] \notin {"idle", "insert"} /\ RowOf(u, u.id)

\* A request under way has no answer.
Silent == \A r \in Requests : pc[r] # "done" => answer[r] = 0

RInv == TypeOK /\ Unique /\ Recorded /\ Committed /\ Silent

\* A login in verify_password fetched its row LoginTime ago at most.
Timely == \A r \in Requests : pc[r] = "verify" =>
              at[r] <= clock /\ clock <= at[r] + LoginTime

\* Today's admins are on record, and nobody is for a time to come.
HeldNow ==
    /\ \A u \in users : u.role = "admin" => <<u.name, clock>> \in held
    /\ \A h \in held : h[2] <= clock

\* An admin's row was an admin's when it was fetched.
RowHonest ==
    \A r \in Requests : \A u \in row[r] :
        pc[r] = "verify" /\ u.role = "admin" => <<u.name, at[r]>> \in held

\* A token for an admin expires within the bounds of the login that made it.
TokenHonest ==
    \A t \in tokens : t.role = "admin" =>
        \E h \in held : h[1] = t.sub /\ t.exp <= h[2] + LoginTime + Skew + Ttl

\* A request under way has no answer, and an admin call one issued token.
Carried ==
    \A r \in Requests :
        /\ pc[r] # "done" => answer[r] = 0
        /\ pc[r] \in {"idle", "insert", "refresh", "verify"} => token[r] = {}
        /\ pc[r] = "guard" => \E t \in tokens : token[r] = {t}

AInv == /\ TypeOK /\ Timely /\ HeldNow /\ RowHonest /\ TokenHonest /\ Carried
        /\ AdminRecently

-----------------------------------------------------------------------------
\* What a login fetches, and what the roles of rows are set to, are rows.
LEMMA FoundRows ==
  ASSUME NEW name, users \subseteq User
  PROVE  Found(name) \subseteq User
  BY DEF Found

LEMMA SetRoleRows ==
  ASSUME users \subseteq User, NEW name \in Names, NEW new \in Roles, SetRole(name, new)
  PROVE  /\ users' \subseteq User
         /\ \A v \in users' : \E u \in users :
                /\ v.id = u.id /\ v.name = u.name /\ v.email = u.email
                /\ v.password = u.password
         /\ \A u \in users : \E v \in users' :
                /\ v.id = u.id /\ v.name = u.name /\ v.email = u.email
                /\ v.password = u.password
<1> DEFINE f(u) == [u EXCEPT !.role = IF u.name = name THEN new ELSE @]
<1>1. users' = {f(u) : u \in users}
  BY DEF SetRole
<1>2. ASSUME NEW u \in User
      PROVE  /\ f(u) \in User
             /\ f(u).id = u.id /\ f(u).name = u.name /\ f(u).email = u.email
             /\ f(u).password = u.password
  BY <1>2 DEF User
<1> HIDE DEF f
<1> QED
  BY <1>1, <1>2

LEMMA AdminNames ==
  ASSUME NEW table \in SUBSET User
  PROVE  /\ Admins(table) \subseteq Names
         /\ \A u \in table : u.role = "admin" => u.name \in Admins(table)
  BY DEF Admins, User

LEMMA HostTimes ==
  ASSUME clock \in Nat
  PROVE  \A now \in HostTime : now \in Nat /\ clock <= now /\ now <= clock + Skew
  BY AccountsAssumption DEF HostTime

LEMMA TypeNext == TypeOK /\ [Next]_vars => TypeOK'
<1> SUFFICES ASSUME TypeOK, [Next]_vars PROVE TypeOK'
  OBVIOUS
<1> USE DEF TypeOK, Answer
<1>1. ASSUME NEW r \in Requests, Lookup(r) PROVE TypeOK'
  BY <1>1 DEF Lookup
<1>2. ASSUME NEW r \in Requests, Insert(r) PROVE TypeOK'
  <2>1. NewUser(r) \in User
    BY DEF NewUser, User, Claim, Roles
  <2> QED
    BY <1>2, <2>1 DEF Insert
<1>3. ASSUME NEW r \in Requests, Fetch(r) PROVE TypeOK'
  BY <1>3, FoundRows DEF Fetch
<1>4. ASSUME NEW r \in Requests, Issue(r) PROVE TypeOK'
  <2>1. ASSUME NEW u \in row[r], NEW now \in HostTime
        PROVE  [sub |-> u.name, role |-> u.role, exp |-> now + Ttl] \in Token
    <3>1. u \in User /\ now + Ttl \in Nat
      BY HostTimes, AccountsAssumption
    <3> QED
      BY <3>1 DEF User, Token
  <2>2. tokens' \subseteq Token
    BY <1>4, <2>1 DEF Issue
  <2> QED
    BY <1>4, <2>2 DEF Issue
<1>5. ASSUME NEW r \in Requests, Authenticate(r) PROVE TypeOK'
  BY <1>5 DEF Authenticate
<1>6. ASSUME NEW r \in Requests, RequireAdmin(r) PROVE TypeOK'
  BY <1>6 DEF RequireAdmin
<1>7. ASSUME NEW r \in Requests, Fail(r) PROVE TypeOK'
  BY <1>7 DEF Fail
<1>8. ASSUME NEW name \in Names, NEW new \in Roles, SetRole(name, new)
      PROVE  TypeOK'
  <2>1. users' \subseteq User
    BY <1>8, SetRoleRows
  <2>2. held' \subseteq Names \X Nat
    BY <1>8, <2>1, AdminNames DEF SetRole
  <2> QED
    BY <1>8, <2>1, <2>2 DEF SetRole, requestVars
<1>11. ASSUME NEW r \in Requests, Refresh(r) PROVE TypeOK'
  BY <1>11 DEF Refresh
<1>9. CASE Tick
  <2>1. clock' \in Nat /\ Admins(users) \subseteq Names
    BY <1>9, AdminNames DEF Tick
  <2> QED
    BY <1>9, <2>1 DEF Tick, requestVars
<1>10. CASE UNCHANGED vars
  BY <1>10 DEF vars, requestVars
<1> QED
  BY <1>1, <1>2, <1>3, <1>4, <1>5, <1>6, <1>7, <1>8, <1>9, <1>10,
     <1>11 DEF Next, Finished

\* The types of the variables of Accounts.
THEOREM TypeCorrect == Spec => []TypeOK
<1>1. Init => TypeOK
  BY DEF Init, TypeOK
<1> QED
  BY <1>1, TypeNext, PTL DEF Spec

-----------------------------------------------------------------------------
\* A step that leaves the table alone, and takes request r on without letting
\* it commit or answering it 201.
LEMMA TableKept ==
  ASSUME RInv, TypeOK', users' = users, asked' = asked,
         \A r \in Requests :
            /\ pc'[r] = "refresh" => pc[r] = "refresh"
            /\ answer'[r] = 201 => answer[r] = 201 \/ pc[r] = "refresh"
            /\ pc'[r] \in {"idle", "insert"} => pc[r] \in {"idle", "insert"}
            /\ pc'[r] # "done" => answer'[r] = 0
  PROVE  RInv'
<1>1. \A u \in users : u.id \in Requests
  BY DEF RInv, TypeOK, User
<1>2. Unique' /\ Silent'
  BY DEF RInv, Unique, Silent
<1>3. Recorded'
  BY DEF RInv, Recorded, RowOf
<1>4. Committed'
  BY <1>1 DEF RInv, Committed, RowOf
<1> QED
  BY <1>2, <1>3, <1>4 DEF RInv

LEMMA RNext == RInv /\ [Next]_vars => RInv'
<1> SUFFICES ASSUME RInv, [Next]_vars PROVE RInv'
  OBVIOUS
<1>0. TypeOK /\ TypeOK'
  BY TypeNext DEF RInv
<1>1. ASSUME NEW r \in Requests,
             \/ Lookup(r) \/ Refresh(r) \/ Fetch(r) \/ Issue(r) \/ Authenticate(r)
             \/ RequireAdmin(r) \/ Fail(r)
      PROVE  RInv'
  <2>1. users' = users /\ asked' = asked
    BY <1>1 DEF Lookup, Refresh, Fetch, Issue, Authenticate, RequireAdmin, Fail
  <2>2. \A q \in Requests \ {r} : pc'[q] = pc[q] /\ answer'[q] = answer[q]
    BY <1>0, <1>1
       DEF Lookup, Refresh, Fetch, Issue, Authenticate, RequireAdmin, Fail, Answer,
           TypeOK
  <2>3. /\ pc'[r] # "refresh" /\ pc'[r] # "idle"
        /\ pc'[r] = "insert" => pc[r] = "idle"
        /\ answer'[r] = 201 => pc[r] = "refresh"
        /\ pc'[r] # "done" => answer'[r] = 0
    BY <1>0, <1>1
       DEF Lookup, Refresh, Fetch, Issue, Authenticate, RequireAdmin, Fail, Answer,
           TypeOK, RInv, Silent
  <2>4. \A q \in Requests \ {r} : pc[q] # "done" => answer[q] = 0
    BY DEF RInv, Silent
  <2> QED
    BY <1>0, <2>1, <2>2, <2>3, <2>4, TableKept
<1>2. ASSUME NEW r \in Requests, Insert(r) PROVE RInv'
  <2>0. /\ asked' = asked /\ pc[r] = "insert"
        /\ \A q \in Requests \ {r} : pc'[q] = pc[q] /\ answer'[q] = answer[q]
        /\ \A q \in Requests \ {r} : pc[q] # "done" => answer[q] = 0
    BY <1>0, <1>2 DEF Insert, Answer, TypeOK, RInv, Silent
  <2>1. CASE users' = users /\ answer'[r] = 500 /\ pc'[r] = "done"
    BY <1>0, <2>0, <2>1, TableKept
  <2>2. CASE /\ ~ Taken(r) /\ users' = users \union {NewUser(r)}
             /\ pc'[r] = "refresh" /\ answer' = answer
    <3>5. PICK n : n = NewUser(r)
      OBVIOUS
    <3>0. RowOf(n, r)' /\ n.id = r /\ users' = users \union {n}
      BY <2>0, <2>2, <3>5 DEF RowOf, NewUser
    <3>1. Unique'
      BY <2>2 DEF RInv, Unique, Taken, NewUser
    <3>2. Recorded'
      <4>1. ASSUME NEW q \in Requests \ {r}, pc'[q] = "refresh" \/ answer'[q] = 201
            PROVE  \E u \in users' : RowOf(u, q)'
        BY <2>0, <2>2, <4>1 DEF RInv, Recorded, RowOf
      <4>2. \E u \in users' : RowOf(u, r)'
        BY <3>0
      <4>3. \A q \in Requests :
               pc'[q] = "refresh" \/ answer'[q] = 201 => \E u \in users' : RowOf(u, q)'
        BY <4>1, <4>2, Zenon
      <4> QED
        BY <4>3, Zenon DEF Recorded
    <3>3. Committed'
      <4>1. ASSUME NEW u \in users
            PROVE  pc'[u.id] \notin {"idle", "insert"} /\ RowOf(u, u.id)'
        <5>1. /\ u.id \in Requests /\ pc[u.id] \notin {"idle", "insert"}
              /\ RowOf(u, u.id)
          BY <1>0 DEF RInv, Committed, TypeOK, User
        <5> QED
          BY <2>0, <5>1 DEF RowOf
      <4> QED
        BY <2>2, <3>0, <4>1, Zenon DEF Committed
    <3>4. Silent'
      BY <2>0, <2>2 DEF RInv, Silent
    <3> QED
      BY <1>0, <3>1, <3>2, <3>3, <3>4 DEF RInv
  <2> QED
    BY <1>0, <1>2, <2>1, <2>2 DEF Insert, Answer, TypeOK
<1>3. ASSUME NEW name \in Names, NEW new \in Roles, SetRole(name, new)
      PROVE  RInv'
  <2> DEFINE f(u) == [u EXCEPT !.role = IF u.name = name THEN new ELSE @]
  <2>1. users' = {f(u) : u \in users}
    BY <1>3 DEF SetRole
  <2>2. ASSUME NEW u \in users
        PROVE  /\ f(u).name = u.name /\ f(u).email = u.email /\ f(u).id = u.id
               /\ f(u).password = u.password
    BY <1>0 DEF TypeOK, User
  <2>3. asked' = asked /\ answer' = answer /\ pc' = pc
    BY <1>3 DEF SetRole, requestVars
  <2> HIDE DEF f
  <2>4. Unique'
    BY <2>1, <2>2 DEF RInv, Unique
  <2>5. Recorded'
    <3> SUFFICES ASSUME NEW r \in Requests, pc[r] = "refresh" \/ answer[r] = 201
                 PROVE  \E v \in users' : RowOf(v, r)'
      BY <2>3 DEF Recorded
    <3>1. PICK u \in users : RowOf(u, r)
      BY DEF RInv, Recorded
    <3>2. f(u) \in users' /\ RowOf(f(u), r)'
      BY <2>1, <2>2, <2>3, <3>1 DEF RowOf
    <3> QED
      BY <3>2
  <2>6. Committed'
    <3> SUFFICES ASSUME NEW u \in users
                 PROVE  pc'[f(u).id] \notin {"idle", "insert"} /\ RowOf(f(u), f(u).id)'
      BY <2>1 DEF Committed
    <3>1. pc[u.id] \notin {"idle", "insert"} /\ RowOf(u, u.id)
      BY DEF RInv, Committed
    <3> QED
      BY <2>2, <2>3, <3>1 DEF RowOf
  <2>7. Silent'
    BY <2>3 DEF RInv, Silent
  <2> QED
    BY <1>0, <2>4, <2>5, <2>6, <2>7 DEF RInv
<1>4. CASE Tick \/ UNCHANGED vars
  <2>1. users' = users /\ asked' = asked /\ answer' = answer /\ pc' = pc
    BY <1>4 DEF Tick, vars, requestVars
  <2> QED
    BY <1>0, <2>1, TableKept DEF RInv, Silent
<1> QED
  BY <1>1, <1>2, <1>3, <1>4 DEF Next, Finished

LEMMA RInvHolds == Spec => []RInv
<1>1. Init => RInv
  BY DEF Init, RInv, TypeOK, Unique, Recorded, Committed, Silent
<1> QED
  BY <1>1, RNext, PTL DEF Spec

\* Registrations that were answered 201 have their accounts and share no name
\* or address, though each looked its name up in another step than it inserted
\* (routers/auth.py:33-51).
THEOREM RegistrationsHold == Spec => []RegistrationsStand
<1>1. RInv => RegistrationsStand
  BY DEF RInv, Unique, Recorded, RowOf, RegistrationsStand
<1> QED
  BY RInvHolds, <1>1, PTL

-----------------------------------------------------------------------------
\* What Registry sees of a row, and of an answer.
Account(u) == [id |-> u.id, name |-> u.name, email |-> u.email, password |-> u.password]

Registered == {Account(u) : u \in users}

Reply == [r \in Requests |-> IF answer[r] \in {201, 409, 500} THEN answer[r] ELSE 0]

LEMMA AccountFields ==
  /\ \A u : /\ Account(u).id = u.id /\ Account(u).name = u.name
            /\ Account(u).email = u.email /\ Account(u).password = u.password
  BY DEF Account

\* A request without a row has no account; one with a row has.
LEMMA MineSays ==
  \A r : Contract!Mine(r) = {} <=> \A u \in users : u.id # r
  BY AccountFields DEF Contract!Mine, Account

\* A request that is answered says so, and nothing else.
LEMMA ReplyOf ==
  ASSUME NEW r \in Requests, NEW status \in {201, 409, 500}, TypeOK,
         Answer(r, status), answer[r] = 0, users' = users, asked' = asked
  PROVE  Contract!Tell(r, status)
<1>1. Reply[r] = 0
  BY DEF Reply
<1>2. Reply' = [Reply EXCEPT ![r] = status]
  <2>1. \A q \in Requests : answer'[q] = IF q = r THEN status ELSE answer[q]
    BY DEF Answer, TypeOK
  <2>2. Reply' = [q \in Requests |-> IF answer'[q] \in {201, 409, 500}
                                     THEN answer'[q] ELSE 0]
    BY DEF Reply
  <2>3. /\ Reply \in [Requests -> {0, 201, 409, 500}]
        /\ Reply' \in [Requests -> {0, 201, 409, 500}]
    BY <2>2 DEF Reply
  <2>4. \A q \in Requests : Reply'[q] = IF q = r THEN status ELSE Reply[q]
    BY <2>1, <2>2 DEF Reply
  <2> QED
    BY <2>3, <2>4
<1>3. Registered' = Registered
  BY DEF Registered, Account
<1> QED
  BY <1>1, <1>2, <1>3 DEF Contract!Tell, Reply, Registered, Account

LEMMA RefineStep == RInv /\ TypeOK' /\ [Next]_vars
                        => [Contract!RGNext]_<<asked, Registered, Reply>>
<1> SUFFICES ASSUME RInv, TypeOK', [Next]_vars
             PROVE  Contract!RGNext \/ UNCHANGED <<asked, Registered, Reply>>
  OBVIOUS
<1>0. TypeOK /\ Silent
  BY DEF RInv
<1>1. ASSUME NEW r \in Requests, Lookup(r)
      PROVE  Contract!RGNext \/ UNCHANGED <<asked, Registered, Reply>>
  <2>1. CASE Found(asked[r].name) # {} /\ Answer(r, 409)
    <3>1. pc[r] = "idle" /\ answer[r] = 0 /\ users' = users /\ asked' = asked
      BY <1>0, <1>1 DEF Lookup, Silent
    <3>2. Contract!Tell(r, 409)
      BY <1>0, <2>1, <3>1, ReplyOf
    <3>3. \A u \in users : u.id # r
      BY <3>1 DEF RInv, Committed
    <3>4. \E a \in Registered : a.name = asked[r].name
      BY <2>1, AccountFields DEF Found, Registered
    <3>5. Contract!Conflict(r)
      BY <3>2, <3>3, <3>4, MineSays DEF Contract!Conflict, Registered, Account
    <3> QED
      BY <3>5 DEF Contract!RGNext
  <2>2. CASE answer' = answer
    BY <1>1, <2>2 DEF Lookup, Registered, Account, Reply
  <2> QED
    BY <1>1, <2>1, <2>2 DEF Lookup
<1>2. ASSUME NEW r \in Requests, Insert(r)
      PROVE  Contract!RGNext
  <2>1. pc[r] = "insert" /\ answer[r] = 0 /\ asked' = asked
    BY <1>0, <1>2 DEF Insert, Silent
  <2>2. CASE Answer(r, 500) /\ UNCHANGED users
    BY <1>0, <2>1, <2>2, ReplyOf DEF Contract!RGNext
  <2>3. CASE ~ Taken(r) /\ users' = users \union {NewUser(r)} /\ answer' = answer
    <3>1. \A u \in users : u.id # r
      BY <2>1 DEF RInv, Committed
    <3>2. \A a \in Registered : a.name # asked[r].name /\ a.email # asked[r].email
      BY <2>3, AccountFields DEF Taken, Registered
    <3>3. Account(NewUser(r)) =
             [id |-> r, name |-> asked[r].name, email |-> asked[r].email,
              password |-> asked[r].password]
      BY DEF Account, NewUser
    <3>4. Registered' = Registered \union {Account(NewUser(r))}
      <4>1. Registered' = {Account(u) : u \in users'}
        BY DEF Registered, Account
      <4> QED
        BY <2>3, <4>1 DEF Registered
    <3>5. Reply[r] = 0 /\ Reply' = Reply
      BY <2>1, <2>3 DEF Reply
    <3>6. Contract!Register(r)
      BY <2>1, <3>1, <3>2, <3>3, <3>4, <3>5, MineSays
         DEF Contract!Register, Registered, Account, Reply
    <3> QED
      BY <3>6 DEF Contract!RGNext
  <2> QED
    BY <1>2, <2>2, <2>3 DEF Insert
<1>3. ASSUME NEW r \in Requests, Refresh(r)
      PROVE  Contract!RGNext
  <2>1. /\ pc[r] = "refresh" /\ answer[r] = 0 /\ users' = users /\ asked' = asked
        /\ Answer(r, 201)
    BY <1>0, <1>3 DEF Refresh, Silent
  <2>2. Contract!Tell(r, 201)
    BY <1>0, <2>1, ReplyOf
  <2>3. \E u \in users : u.id = r
    BY <2>1 DEF RInv, Recorded, RowOf
  <2>4. Contract!Created(r)
    BY <2>2, <2>3, MineSays DEF Contract!Created
  <2> QED
    BY <2>4 DEF Contract!RGNext
<1>4. ASSUME NEW r \in Requests, Fail(r)
      PROVE  Contract!RGNext
  <2>1. answer[r] = 0 /\ users' = users /\ asked' = asked /\ Answer(r, 500)
    BY <1>0, <1>4 DEF Fail, Silent
  <2> QED
    BY <1>0, <2>1, ReplyOf DEF Contract!RGNext
<1>5. ASSUME NEW r \in Requests,
             Fetch(r) \/ Issue(r) \/ Authenticate(r) \/ RequireAdmin(r)
      PROVE  UNCHANGED <<asked, Registered, Reply>>
  <2>1. users' = users /\ asked' = asked
    BY <1>5 DEF Fetch, Issue, Authenticate, RequireAdmin
  <2>2. /\ answer'[r] \notin {201, 409, 500} /\ answer[r] \notin {201, 409, 500}
        /\ \A q \in Requests \ {r} : answer'[q] = answer[q]
    BY <1>0, <1>5
       DEF Fetch, Issue, Authenticate, RequireAdmin, Answer, Silent, TypeOK
  <2> QED
    BY <2>1, <2>2 DEF Registered, Account, Reply
<1>6. ASSUME NEW name \in Names, NEW new \in Roles, SetRole(name, new)
      PROVE  UNCHANGED <<asked, Registered, Reply>>
  <2> DEFINE f(u) == [u EXCEPT !.role = IF u.name = name THEN new ELSE @]
  <2>1. users' = {f(u) : u \in users}
    BY <1>6 DEF SetRole
  <2>2. \A u \in users : Account(f(u)) = Account(u)
    BY <1>0 DEF TypeOK, User, Account
  <2>3. Registered' = {Account(u) : u \in users'}
    BY DEF Registered, Account
  <2>4. asked' = asked /\ Reply' = Reply
    BY <1>6 DEF SetRole, requestVars, Reply
  <2> HIDE DEF f
  <2>5. Registered' = Registered
    BY <2>1, <2>2, <2>3 DEF Registered
  <2> QED
    BY <2>4, <2>5
<1>7. CASE Tick \/ UNCHANGED vars
  BY <1>7 DEF Tick, vars, requestVars, Registered, Account, Reply
<1> QED
  BY <1>1, <1>2, <1>3, <1>4, <1>5, <1>6, <1>7 DEF Next, Finished

\* Registration is one step for its callers (routers/auth.py:33-51): the row
\* appears at the commit, whoever looked the name up before, 409 is said of
\* names that are taken, and no row comes after an answer.
THEOREM Refinement == Spec => ImplementsRegistry
<1>1. Init => Contract!RGInit
  BY DEF Init, Contract!RGInit
<1> QED
  BY <1>1, RInvHolds, RefineStep, PTL
  DEF Spec, ImplementsRegistry, Contract!RGSpec, Contract!rgVars, RInv, Registered,
      Account, Reply

-----------------------------------------------------------------------------
\* While the history only grows, what was said of a request that does not
\* move, and of a token that was there, remains.
LEMMA StillHonest ==
  ASSUME AInv, held \subseteq held', NEW r \in Requests,
         pc'[r] = pc[r], answer'[r] = answer[r], at'[r] = at[r],
         row'[r] = row[r], token'[r] = token[r]
  PROVE  /\ \A u \in row'[r] : pc'[r] = "verify" /\ u.role = "admin"
                => <<u.name, at'[r]>> \in held'
         /\ \A t \in token'[r] : answer'[r] = 200 =>
                \E h \in held' : /\ h[1] = t.sub /\ h[2] <= at'[r]
                                 /\ at'[r] <= h[2] + (Ttl + LoginTime + Skew)
  BY DEF AInv, RowHonest, AdminRecently, AdminWithin

LEMMA ANext == AInv /\ [Next]_vars => AInv'
<1> SUFFICES ASSUME AInv, [Next]_vars PROVE AInv'
  OBVIOUS
<1>0. TypeOK /\ TypeOK'
  BY TypeNext DEF AInv
<1>1. ASSUME NEW r \in Requests, Lookup(r) \/ Insert(r) \/ Refresh(r) \/ Fail(r)
      PROVE  AInv'
  <2>1. UNCHANGED <<tokens, asked, row, token, at, clock, held>>
    BY <1>1 DEF Lookup, Insert, Refresh, Fail
  <2>2. /\ pc'[r] # "verify" /\ pc'[r] # "guard" /\ pc'[r] # "idle"
        /\ pc'[r] # "done" => answer'[r] = 0 /\ token[r] = {}
        /\ answer'[r] # 200
        /\ \A q \in Requests \ {r} : pc'[q] = pc[q] /\ answer'[q] = answer[q]
    BY <1>0, <1>1 DEF Lookup, Insert, Refresh, Fail, Answer, TypeOK, AInv, Carried
  <2>3. HeldNow'
    BY <2>1, <1>1 DEF AInv, HeldNow, Lookup, Insert, Refresh, Fail, NewUser
  <2>4. Timely' /\ RowHonest' /\ TokenHonest' /\ Carried' /\ AdminRecently'
    BY <2>1, <2>2 DEF AInv, Timely, RowHonest, TokenHonest, Carried,
                      AdminRecently, AdminWithin
  <2> QED
    BY <1>0, <2>3, <2>4 DEF AInv
<1>2. ASSUME NEW r \in Requests, Fetch(r) PROVE AInv'
  <2>1. /\ UNCHANGED <<users, tokens, asked, token, answer, clock, held>>
        /\ pc'[r] = "verify" /\ at'[r] = clock /\ row'[r] = Found(asked[r].name)
        /\ answer[r] = 0 /\ token[r] = {}
        /\ \A q \in Requests \ {r} : /\ pc'[q] = pc[q] /\ at'[q] = at[q]
                                      /\ row'[q] = row[q]
    BY <1>0, <1>2 DEF Fetch, TypeOK, AInv, Carried
  <2>2. Timely'
    BY <1>0, <2>1, AccountsAssumption DEF AInv, Timely, TypeOK
  <2>3. RowHonest'
    BY <2>1 DEF AInv, HeldNow, RowHonest, Found
  <2>4. HeldNow' /\ TokenHonest' /\ Carried' /\ AdminRecently'
    BY <2>1 DEF AInv, HeldNow, TokenHonest, Carried, AdminRecently, AdminWithin
  <2> QED
    BY <1>0, <2>2, <2>3, <2>4 DEF AInv
<1>3. ASSUME NEW r \in Requests, Issue(r) PROVE AInv'
  <2>1. /\ UNCHANGED <<users, asked, row, token, at, clock, held>>
        /\ pc[r] = "verify" /\ pc'[r] = "done" /\ token[r] = {}
        /\ tokens \subseteq tokens'
        /\ \A q \in Requests \ {r} : pc'[q] = pc[q] /\ answer'[q] = answer[q]
    BY <1>0, <1>3 DEF Issue, Answer, TypeOK, AInv, Carried
  <2>2. ASSUME NEW u \in row[r], NEW now \in HostTime, u.role = "admin"
        PROVE  \E h \in held :
                  h[1] = u.name /\ now + Ttl <= h[2] + LoginTime + Skew + Ttl
    <3>1. <<u.name, at[r]>> \in held
      BY <2>1, <2>2 DEF AInv, RowHonest
    <3>2. now <= at[r] + LoginTime + Skew
      BY <1>0, <2>1, HostTimes, AccountsAssumption DEF AInv, Timely, TypeOK
    <3>3. now + Ttl <= at[r] + LoginTime + Skew + Ttl
      BY <1>0, <3>2, HostTimes, AccountsAssumption DEF TypeOK
    <3> QED
      BY <3>1, <3>3
  <2>3. TokenHonest'
    <3> SUFFICES ASSUME NEW t \in tokens', t.role = "admin"
                 PROVE  \E h \in held :
                           h[1] = t.sub /\ t.exp <= h[2] + LoginTime + Skew + Ttl
      BY <2>1 DEF TokenHonest
    <3>1. CASE t \in tokens
      BY <3>1 DEF AInv, TokenHonest
    <3>2. CASE t \notin tokens
      <4>1. PICK u \in row[r], now \in HostTime :
               t = [sub |-> u.name, role |-> u.role, exp |-> now + Ttl]
        BY <1>3, <3>2 DEF Issue
      <4> QED
        BY <2>2, <4>1
    <3> QED
      BY <3>1, <3>2
  <2>4. Timely' /\ HeldNow' /\ RowHonest' /\ Carried' /\ AdminRecently'
    BY <2>1 DEF AInv, Timely, HeldNow, RowHonest, Carried, AdminRecently,
                AdminWithin
  <2> QED
    BY <1>0, <2>3, <2>4 DEF AInv
<1>4. ASSUME NEW r \in Requests, Authenticate(r) PROVE AInv'
  <2>1. /\ UNCHANGED <<users, tokens, asked, row, at, clock, held>>
        /\ \E t \in tokens : token'[r] = {t}
        /\ \/ pc'[r] = "guard" /\ answer'[r] = 0
           \/ pc'[r] = "done" /\ answer'[r] = 401
        /\ \A q \in Requests \ {r} : /\ pc'[q] = pc[q] /\ answer'[q] = answer[q]
                                      /\ token'[q] = token[q]
    BY <1>0, <1>4 DEF Authenticate, Answer, TypeOK, AInv, Carried
  <2>2. Timely' /\ HeldNow' /\ RowHonest' /\ TokenHonest' /\ Carried'
    BY <2>1 DEF AInv, Timely, HeldNow, RowHonest, TokenHonest, Carried
  <2>3. AdminRecently'
    BY <2>1 DEF AInv, AdminRecently, AdminWithin
  <2> QED
    BY <1>0, <2>2, <2>3 DEF AInv
<1>5. ASSUME NEW r \in Requests, RequireAdmin(r) PROVE AInv'
  <2>1. PICK t \in tokens : token[r] = {t}
    BY <1>5 DEF RequireAdmin, AInv, Carried
  <2>2. /\ UNCHANGED <<users, tokens, asked, row, token, clock, held>>
        /\ pc'[r] = "done" /\ at'[r] = clock
        /\ \A q \in Requests \ {r} : /\ pc'[q] = pc[q] /\ answer'[q] = answer[q]
                                      /\ at'[q] = at[q]
    BY <1>0, <1>5 DEF RequireAdmin, Answer, TypeOK
  <2>3. ASSUME answer'[r] = 200
        PROVE  \E h \in held : /\ h[1] = t.sub /\ h[2] <= at'[r]
                               /\ at'[r] <= h[2] + (Ttl + LoginTime + Skew)
    <3>1. t.role = "admin" /\ \E now \in HostTime : now <= t.exp
      BY <1>0, <1>5, <2>1, <2>3 DEF RequireAdmin, Answer, Valid, TypeOK
    <3>2. clock <= t.exp /\ t.exp \in Nat /\ clock \in Nat
      BY <1>0, <3>1, HostTimes DEF TypeOK, Token
    <3>3. PICK h \in held : h[1] = t.sub /\ t.exp <= h[2] + LoginTime + Skew + Ttl
      BY <3>1 DEF AInv, TokenHonest
    <3>4. h[2] <= clock /\ h[2] \in Nat
      BY <1>0 DEF AInv, HeldNow, TypeOK
    <3>5. clock <= h[2] + (Ttl + LoginTime + Skew)
      BY <3>2, <3>3, <3>4, AccountsAssumption
    <3> QED
      BY <2>2, <3>3, <3>4, <3>5
  <2>4. AdminRecently'
    BY <2>1, <2>2, <2>3 DEF AInv, AdminRecently, AdminWithin
  <2>5. Timely' /\ HeldNow' /\ RowHonest' /\ TokenHonest' /\ Carried'
    BY <2>2 DEF AInv, Timely, HeldNow, RowHonest, TokenHonest, Carried
  <2> QED
    BY <1>0, <2>4, <2>5 DEF AInv
<1>6. ASSUME NEW name \in Names, NEW new \in Roles, SetRole(name, new)
      PROVE  AInv'
  <2>1. /\ UNCHANGED <<tokens, requestVars, clock>>
        /\ held' = held \union (Admins(users') \X {clock})
    BY <1>6 DEF SetRole
  <2>2. HeldNow'
    BY <1>0, <2>1, AdminNames DEF AInv, HeldNow, TypeOK
  <2>3. RowHonest' /\ AdminRecently'
    BY <2>1, StillHonest DEF RowHonest, AdminRecently, AdminWithin, requestVars
  <2>4. Timely' /\ TokenHonest' /\ Carried'
    BY <2>1 DEF AInv, Timely, TokenHonest, Carried, requestVars
  <2> QED
    BY <1>0, <2>2, <2>3, <2>4 DEF AInv
<1>7. CASE Tick
  <2>1. /\ UNCHANGED <<users, tokens, requestVars>>
        /\ clock' = clock + 1
        /\ held' = held \union (Admins(users) \X {clock'})
        /\ \A r \in Requests : pc[r] = "verify" => clock < at[r] + LoginTime
    BY <1>7 DEF Tick
  <2>2. HeldNow'
    <3>1. \A h \in held : h[2] <= clock /\ h[2] \in Nat
      BY <1>0 DEF AInv, HeldNow, TypeOK
    <3> QED
      BY <1>0, <2>1, <3>1, AdminNames DEF HeldNow, TypeOK
  <2>3. RowHonest' /\ AdminRecently'
    BY <2>1, StillHonest DEF RowHonest, AdminRecently, AdminWithin, requestVars
  <2>4. Timely'
    BY <1>0, <2>1, AccountsAssumption DEF AInv, Timely, TypeOK, requestVars
  <2>5. TokenHonest' /\ Carried'
    BY <2>1 DEF AInv, TokenHonest, Carried, requestVars
  <2> QED
    BY <1>0, <2>2, <2>3, <2>4, <2>5 DEF AInv
<1>8. CASE UNCHANGED vars
  <2> QED
    BY <1>0, <1>8 DEF AInv, vars, requestVars, Timely, HeldNow, RowHonest,
                      TokenHonest, Carried, AdminRecently, AdminWithin
<1> QED
  BY <1>1, <1>2, <1>3, <1>4, <1>5, <1>6, <1>7, <1>8 DEF Next, Finished

\* Whoever passes require_admin was an admin within the life of a token, the
\* duration of a login and the skew of the clocks (dependencies.py:31-72).
THEOREM AdminHolds == Spec => []AdminRecently
<1>1. Init => AInv
  BY DEF Init, AInv, TypeOK, Timely, HeldNow, RowHonest, TokenHonest, Carried,
         AdminRecently, AdminWithin
<1>2. AInv => AdminRecently
  BY DEF AInv
<1> QED
  BY <1>1, <1>2, ANext, PTL DEF Spec
=============================================================================
