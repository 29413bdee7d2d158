--------------------------- MODULE Accounts_proofs ---------------------------
(***************************************************************************)
(* The invariants of Accounts.tla for any accounts, roles and number of    *)
(* requests in flight. No step is atomic but a save of one row or one      *)
(* group, so the proofs follow what a request still knows: as long as no   *)
(* other has saved since it read, what it read is so.                      *)
(***************************************************************************)
EXTENDS Accounts, FiniteSetTheorems, TLAPS

Active(r) == request[r] # NoRequest
At(r, what, at) == request[r].what = what /\ request[r].at \in at

OtherAdmin(u) == \E v \in ActiveAdmins : v # u

\* Requests are served by a running container, for accounts that are there.
RequestsFit ==
    \A r \in Requests : Active(r) =>
        /\ container = "running"
        /\ account[request[r].of] # "absent"
        /\ At(r, "role", {"read", "checked", "saved", "cleared"}) \/ At(r, "password", {"read"})

RowsFit ==
    /\ \A u \in Users : account[u] = "absent" => roles[u] = {}
    /\ container = "created" => account[Boss] = "active" /\ roles[Boss] = {}

\* What a request may rely on while nobody has saved since it began: the row is as it
\* read it, and someone other than its user administers, or its user is going to.
Fits(q) ==
    /\ q.what = "role" /\ q.at \in {"read", "checked"} =>
         q.password = password[q.of] /\ (q.wasAdmin <=> "admin" \in roles[q.of])
    /\ q.what = "password" => (q.active <=> account[q.of] = "active")
    /\ q.what = "role" /\ q.at = "read" => ActiveAdmins # {}
    /\ q.at = "checked" => OtherAdmin(q.of) \/ (q.role = "admin" /\ q.active)
    /\ q.at \in {"saved", "cleared"} =>
         OtherAdmin(q.of) \/ (q.role = "admin" /\ account[q.of] = "active")
    /\ q.at = "cleared" => roles[q.of] = {}

FreshFits == \A r \in Requests : Active(r) /\ ~request[r].stale => Fits(request[r])

\* Before the bootstrap the database is empty or has an administrator who can log in.
AtRest ==
    container = "starting" /\ ~Disturbed =>
        (\A u \in Users : account[u] = "absent") \/ ActiveAdmins # {}

\* OneRole in every state of the container, but for the account being bootstrapped.
RoleEach ==
    ~Disturbed =>
        \A u \in Users :
            account[u] # "absent" /\ ~BeingSaved(u) /\ ~(container = "created" /\ u = Boss)
            => \E x \in Roles : roles[u] = {x}

IInv ==
    /\ TypeOK /\ RequestsFit /\ RowsFit /\ FreshFits /\ AtRest /\ RoleEach
    /\ AdminRemains /\ OneRole /\ DecisionsHold /\ StartsUndisturbed
-----------------------------------------------------------------------------
(* Requests and their steps.                                               *)

Queries ==
    [what : {"none", "role", "password"}, of : Users,
     at : {"none", "read", "checked", "saved", "cleared"}, role : Roles,
     active : BOOLEAN, password : 0..MaxPasswords, wasAdmin : BOOLEAN, stale : BOOLEAN]

LEMMA NoRequestFields ==
    /\ NoRequest \in Queries
    /\ NoRequest.what = "none" /\ NoRequest.at = "none" /\ ~NoRequest.stale
BY AccountsAssumption DEF NoRequest, Queries

\* The records that requests begin with ...
NewUser(u, role) ==
    [NoRequest EXCEPT !.what = "role", !.of = u, !.at = "cleared", !.role = role]

LEMMA CreatedFields ==
    ASSUME NEW u \in Users, NEW role \in Roles, NEW q, q = NewUser(u, role)
    PROVE  /\ q \in Queries /\ q.what = "role" /\ q.of = u /\ q.at = "cleared"
           /\ q.role = role /\ ~q.stale
<1>1. q = [what |-> "role", of |-> u, at |-> "cleared", role |-> role, active |-> TRUE,
           password |-> 0, wasAdmin |-> FALSE, stale |-> FALSE]
  BY DEF NewUser, NoRequest
<1> QED BY <1>1, AccountsAssumption DEF Queries

UserRead(u, p, b) ==
    [what |-> "role", of |-> u, at |-> "read", role |-> "admin", active |-> TRUE,
     password |-> p, wasAdmin |-> b, stale |-> FALSE]

LEMMA ReadFields ==
    ASSUME NEW u \in Users, password[u] \in 0..MaxPasswords, NEW q,
           q = UserRead(u, password[u], "admin" \in roles[u])
    PROVE  /\ q \in Queries /\ q.what = "role" /\ q.of = u /\ q.at = "read"
           /\ q.password = password[u] /\ (q.wasAdmin <=> "admin" \in roles[u]) /\ ~q.stale
<1>1. q \in Queries
  BY AccountsAssumption DEF Queries, UserRead
<1>2. /\ q.what = "role" /\ q.of = u /\ q.at = "read"
      /\ q.password = password[u] /\ (q.wasAdmin <=> "admin" \in roles[u]) /\ ~q.stale
  BY DEF UserRead
<1> QED BY <1>1, <1>2

PasswordRead(u, b) ==
    [what |-> "password", of |-> u, at |-> "read", role |-> "admin", active |-> b,
     password |-> 0, wasAdmin |-> FALSE, stale |-> FALSE]

LEMMA PasswordFields ==
    ASSUME NEW u \in Users, NEW q, q = PasswordRead(u, account[u] = "active")
    PROVE  /\ q \in Queries /\ q.what = "password" /\ q.of = u /\ q.at = "read"
           /\ (q.active <=> account[u] = "active") /\ ~q.stale
<1>1. q \in Queries
  BY AccountsAssumption DEF Queries, PasswordRead
<1>2. /\ q.what = "password" /\ q.of = u /\ q.at = "read"
      /\ (q.active <=> account[u] = "active") /\ ~q.stale
  BY DEF PasswordRead
<1> QED BY <1>1, <1>2

\* ... and those they go on with.
LEMMA NextFields ==
    ASSUME NEW q \in Queries, NEW a \in {"saved", "cleared"}
    PROVE  LET n == [q EXCEPT !.at = a]
           IN  /\ n \in Queries /\ n.at = a /\ n.what = q.what /\ n.of = q.of
               /\ n.role = q.role /\ n.active = q.active /\ n.stale = q.stale
BY DEF Queries

CheckedAs(q, role, b) == [q EXCEPT !.at = "checked", !.role = role, !.active = b]

LEMMA CheckedFields ==
    ASSUME NEW q \in Queries, NEW role \in Roles, NEW b \in BOOLEAN, NEW n,
           n = CheckedAs(q, role, b)
    PROVE  /\ n \in Queries /\ n.at = "checked" /\ n.what = q.what /\ n.of = q.of
           /\ n.role = role /\ n.active = b /\ n.stale = q.stale
           /\ n.password = q.password /\ n.wasAdmin = q.wasAdmin
BY DEF Queries, CheckedAs

\* A save makes what all others have read stale.
LEMMA SavesEffect ==
    ASSUME request \in [Requests -> Queries], NEW r \in Requests, NEW q \in Queries, Saves(r, q)
    PROVE  /\ request' \in [Requests -> Queries] /\ request'[r] = q
           /\ \A s \in Requests : s # r =>
                /\ Active(s)' <=> Active(s)
                /\ Active(s) => /\ request'[s].stale /\ request'[s].of = request[s].of
                                /\ request'[s].what = request[s].what
                                /\ request'[s].at = request[s].at
                /\ Halfway(s)' <=> Halfway(s)
                /\ request'[s].of = request[s].of
           /\ raced' = (raced \/ request[r].stale) /\ UNCHANGED <<container, cut>>
<1>1. ASSUME NEW s \in Requests, s # r
      PROVE  /\ request'[s] \in Queries
             /\ Active(s)' <=> Active(s)
             /\ Active(s) => request'[s].stale
             /\ /\ request'[s].of = request[s].of
                /\ request'[s].what = request[s].what
                /\ request'[s].at = request[s].at
  <2>1. CASE request[s] = NoRequest
    BY <1>1, <2>1, NoRequestFields DEF Saves, Active
  <2>2. CASE request[s] # NoRequest
    <3>1. request'[s] = [request[s] EXCEPT !.stale = TRUE]
      BY <1>1, <2>2 DEF Saves
    <3>2. request'[s] \in Queries /\ request'[s].stale /\ request'[s].of = request[s].of
          /\ request'[s].what = request[s].what /\ request'[s].at = request[s].at
      <4> DEFINE n == [request[s] EXCEPT !.stale = TRUE]
      <4>1. /\ n \in Queries /\ n.stale /\ n.of = request[s].of
            /\ n.what = request[s].what /\ n.at = request[s].at
        BY DEF Queries
      <4> HIDE DEF n
      <4>2. request'[s] = n
        BY <3>1 DEF n
      <4> QED BY <4>1, <4>2
    <3>3. request'[s] # NoRequest
      BY <3>2, NoRequestFields
    <3> QED BY <2>2, <3>2, <3>3 DEF Active
  <2> QED BY <2>1, <2>2
<1>2. request'[r] = q
  BY DEF Saves
<1>3. DOMAIN request' = Requests /\ request' = [s \in Requests |-> request'[s]]
  BY DEF Saves
<1>4. request' \in [Requests -> Queries]
  BY <1>1, <1>2, <1>3
<1> QED BY <1>1, <1>2, <1>4 DEF Saves, Halfway

LEMMA TypesSplit ==
    TypeOK <=> /\ container \in {"starting", "created", "failed", "running"}
               /\ account \in [Users -> {"absent", "active", "disabled"}]
               /\ password \in [Users -> 0..MaxPasswords]
               /\ roles \in [Users -> SUBSET Roles]
               /\ request \in [Requests -> Queries]
               /\ decided \in [Users -> [active : BOOLEAN, password : 0..MaxPasswords]]
               /\ raced \in BOOLEAN /\ cut \in BOOLEAN
BY DEF TypeOK, Queries

LEMMA HalfwayIsRole ==
    ASSUME RequestsFit, NEW r \in Requests, Halfway(r)
    PROVE  Active(r) /\ At(r, "role", {"saved", "cleared"})
BY NoRequestFields DEF RequestsFit, Halfway, Active, At

\* The steps of a request, by what they save.
Reads(r) == \E u \in Users : ReadUser(r, u) \/ ReadForPassword(r, u)
Checks(r) == \E role \in Roles, active \in BOOLEAN : CheckLastAdmin(r, role, active)
Creates(r) == \E u \in Users, role \in Roles, active \in BOOLEAN : CreateUser(r, u, role, active)
Writes(r) == Creates(r) \/ SaveUser(r) \/ ClearGroups(r) \/ AddGroup(r) \/ SavePassword(r)

LEMMA StepKinds ==
    ASSUME [Next]_vars
    PROVE  \/ \E r \in Requests : Reads(r) \/ Checks(r) \/ Writes(r) \/ RequestDies(r)
           \/ Bootstrap \/ BootstrapAdds \/ Restart \/ ContainerStops
           \/ UNCHANGED vars
BY DEF Next, Starts, Reads, Checks, Creates, Writes

\* What is saved, and what the request goes on with.
Saved(r, u) ==
    \/ /\ ~Active(r) /\ MayAdminister /\ account[u] = "absent"
       /\ \E active \in BOOLEAN :
            /\ account' = [account EXCEPT ![u] = State(active)]
            /\ password' = [password EXCEPT ![u] = 0]
            /\ decided' = [decided EXCEPT ![u] = Decision(active, 0)]
       /\ roles' = roles
       /\ Active(r)' /\ At(r, "role", {"cleared"})' /\ ~request'[r].stale
    \/ /\ Active(r) /\ request[r].of = u /\ At(r, "role", {"checked"})
       /\ account' = [account EXCEPT ![u] = State(request[r].active)]
       /\ password' = [password EXCEPT ![u] = request[r].password]
       /\ decided' = [decided EXCEPT ![u].active = request[r].active]
       /\ roles' = roles
       /\ Active(r)' /\ At(r, "role", {"saved"})'
       /\ request'[r].stale = request[r].stale /\ request'[r].role = request[r].role
    \/ /\ Active(r) /\ request[r].of = u /\ At(r, "role", {"saved"})
       /\ roles' = [roles EXCEPT ![u] = {}]
       /\ UNCHANGED <<account, password, decided>>
       /\ Active(r)' /\ At(r, "role", {"cleared"})'
       /\ request'[r].stale = request[r].stale /\ request'[r].role = request[r].role
    \/ /\ Active(r) /\ request[r].of = u /\ At(r, "role", {"cleared"})
       /\ roles' = [roles EXCEPT ![u] = @ \cup {request[r].role}]
       /\ UNCHANGED <<account, password, decided>>
       /\ ~Active(r)'
    \/ /\ Active(r) /\ request[r].of = u /\ At(r, "password", {"read"})
       /\ account' = [account EXCEPT ![u] = State(request[r].active)]
       /\ \E new \in 0..MaxPasswords :
            /\ password' = [password EXCEPT ![u] = new]
            /\ decided' = [decided EXCEPT ![u].password = new]
       /\ roles' = roles
       /\ ~Active(r)'

Others(r, u) ==
    /\ request'[r].of = u \/ ~Active(r)'
    /\ \A s \in Requests : s # r =>
         /\ Active(s)' <=> Active(s)
         /\ Active(s) => /\ request'[s].stale /\ request'[s].of = request[s].of
                         /\ request'[s].what = request[s].what
                         /\ request'[s].at = request[s].at
         /\ Halfway(s)' <=> Halfway(s)
         /\ request'[s].of = request[s].of
    /\ raced' = (raced \/ request[r].stale) /\ UNCHANGED <<container, cut>>

LEMMA WriteSteps ==
    ASSUME TypeOK, NEW r \in Requests, Writes(r)
    PROVE  request' \in [Requests -> Queries] /\ \E u \in Users : Saved(r, u) /\ Others(r, u)
<1>1. request \in [Requests -> Queries] /\ request[r] \in Queries /\ request[r].of \in Users
  BY TypesSplit DEF Queries
<1>2. \A q \in Queries : q.at # "none" => q # NoRequest
  BY NoRequestFields
<1>3. ASSUME NEW u \in Users, NEW role \in Roles, NEW active \in BOOLEAN,
             CreateUser(r, u, role, active)
      PROVE  request' \in [Requests -> Queries] /\ Saved(r, u) /\ Others(r, u)
  <2>0. PICK q : q = NewUser(u, role)
    OBVIOUS
  <2>1. q \in Queries /\ q.what = "role" /\ q.of = u /\ q.at = "cleared" /\ ~q.stale
    BY <2>0, CreatedFields
  <2>2. Saves(r, q)
    BY <1>3, <2>0 DEF CreateUser, NewUser
  <2>3. request' \in [Requests -> Queries] /\ Others(r, u) /\ request'[r] = q
    BY <1>1, <2>1, <2>2, SavesEffect DEF Others
  <2>4. Active(r)' /\ At(r, "role", {"cleared"})' /\ ~request'[r].stale
    BY <1>2, <2>1, <2>3 DEF Active, At
  <2> QED BY <1>3, <2>3, <2>4 DEF CreateUser, Saved, Active
<1>4. ASSUME SaveUser(r)
      PROVE  LET u == request[r].of
             IN  request' \in [Requests -> Queries] /\ Saved(r, u) /\ Others(r, u)
  <2> DEFINE q == [request[r] EXCEPT !.at = "saved"]
  <2>1. /\ q \in Queries /\ q.what = request[r].what /\ q.of = request[r].of
        /\ q.at = "saved" /\ q.stale = request[r].stale /\ q.role = request[r].role
    BY <1>1, NextFields, AccountsAssumption
  <2>2. Saves(r, q) /\ request[r].what = "role" /\ request[r].at = "checked"
    BY <1>4 DEF SaveUser, InFlight
  <2> HIDE DEF q
  <2>3. request' \in [Requests -> Queries] /\ Others(r, request[r].of) /\ request'[r] = q
    BY <1>1, <2>1, <2>2, SavesEffect DEF Others
  <2>4. /\ Active(r) /\ At(r, "role", {"checked"}) /\ Active(r)' /\ At(r, "role", {"saved"})'
        /\ request'[r].stale = request[r].stale /\ request'[r].role = request[r].role
    BY <1>1, <1>2, <2>1, <2>2, <2>3, NoRequestFields DEF Active, At
  <2> QED BY <1>4, <2>3, <2>4 DEF SaveUser, Saved
<1>5. ASSUME ClearGroups(r)
      PROVE  LET u == request[r].of
             IN  request' \in [Requests -> Queries] /\ Saved(r, u) /\ Others(r, u)
  <2> DEFINE q == [request[r] EXCEPT !.at = "cleared"]
  <2>1. /\ q \in Queries /\ q.what = request[r].what /\ q.of = request[r].of
        /\ q.at = "cleared" /\ q.stale = request[r].stale /\ q.role = request[r].role
    BY <1>1, NextFields, AccountsAssumption
  <2>2. Saves(r, q) /\ request[r].what = "role" /\ request[r].at = "saved"
    BY <1>5 DEF ClearGroups, InFlight
  <2> HIDE DEF q
  <2>3. request' \in [Requests -> Queries] /\ Others(r, request[r].of) /\ request'[r] = q
    BY <1>1, <2>1, <2>2, SavesEffect DEF Others
  <2>4. /\ Active(r) /\ At(r, "role", {"saved"}) /\ Active(r)' /\ At(r, "role", {"cleared"})'
        /\ request'[r].stale = request[r].stale /\ request'[r].role = request[r].role
    BY <1>1, <1>2, <2>1, <2>2, <2>3, NoRequestFields DEF Active, At
  <2> QED BY <1>5, <2>3, <2>4 DEF ClearGroups, Saved
<1>6. ASSUME AddGroup(r)
      PROVE  LET u == request[r].of
             IN  request' \in [Requests -> Queries] /\ Saved(r, u) /\ Others(r, u)
  <2>1. Saves(r, NoRequest) /\ request[r].what = "role" /\ request[r].at = "cleared"
    BY <1>6 DEF AddGroup, InFlight
  <2>2. request' \in [Requests -> Queries] /\ ~Active(r)' /\ Others(r, request[r].of)
    BY <1>1, <2>1, SavesEffect, NoRequestFields DEF Others, Active
  <2>3. Active(r) /\ At(r, "role", {"cleared"})
    BY <2>1, NoRequestFields DEF Active, At
  <2> QED BY <1>6, <2>2, <2>3 DEF AddGroup, Saved
<1>7. ASSUME SavePassword(r)
      PROVE  LET u == request[r].of
             IN  request' \in [Requests -> Queries] /\ Saved(r, u) /\ Others(r, u)
  <2>1. Saves(r, NoRequest) /\ request[r].what = "password" /\ request[r].at = "read"
    BY <1>7 DEF SavePassword, InFlight
  <2>2. request' \in [Requests -> Queries] /\ ~Active(r)' /\ Others(r, request[r].of)
    BY <1>1, <2>1, SavesEffect, NoRequestFields DEF Others, Active
  <2>3. Active(r) /\ At(r, "password", {"read"})
    BY <2>1, NoRequestFields DEF Active, At
  <2> DEFINE new == decided[request[r].of].password + 1
  <2>4. new \in 0..MaxPasswords
    <3>1. decided[request[r].of] \in [active : BOOLEAN, password : 0..MaxPasswords]
      BY <1>1, TypesSplit
    <3>2. new <= MaxPasswords
      BY <1>7 DEF SavePassword
    <3> QED BY <3>1, <3>2, AccountsAssumption
  <2>5. /\ account' = [account EXCEPT ![request[r].of] = State(request[r].active)]
        /\ password' = [password EXCEPT ![request[r].of] = new]
        /\ decided' = [decided EXCEPT ![request[r].of].password = new]
        /\ roles' = roles
    BY <1>7 DEF SavePassword
  <2> HIDE DEF new
  <2> QED BY <2>2, <2>3, <2>4, <2>5 DEF Saved
<1> QED BY <1>1, <1>3, <1>4, <1>5, <1>6, <1>7 DEF Writes, Creates

\* What a request has read ...
LEMMA ReadSteps ==
    ASSUME TypeOK, NEW r \in Requests, Reads(r)
    PROVE  /\ UNCHANGED <<container, account, password, roles, decided, raced, cut>>
           /\ container = "running" /\ ~Active(r) /\ Active(r)' /\ ~request'[r].stale
           /\ request' \in [Requests -> Queries]
           /\ \A s \in Requests : s # r => request'[s] = request[s]
           /\ account[request'[r].of] # "absent"
           /\ \/ /\ At(r, "role", {"read"})' /\ ActiveAdmins # {}
                 /\ request'[r].password = password[request'[r].of]
                 /\ request'[r].wasAdmin <=> "admin" \in roles[request'[r].of]
              \/ /\ At(r, "password", {"read"})'
                 /\ request'[r].active <=> account[request'[r].of] = "active"
<1>1. request \in [Requests -> Queries] /\ password \in [Users -> 0..MaxPasswords]
  BY TypesSplit
<1>2. ASSUME NEW q \in Queries, Begin(r, q), q.at = "read"
      PROVE  /\ UNCHANGED <<container, account, password, roles, decided, raced, cut>>
             /\ ~Active(r) /\ Active(r)' /\ request'[r] = q
             /\ request' \in [Requests -> Queries]
             /\ \A s \in Requests : s # r => request'[s] = request[s]
  BY <1>1, <1>2, NoRequestFields DEF Begin, Active
<1>3. ASSUME NEW u \in Users, ReadUser(r, u)
      PROVE  \E q \in Queries :
               /\ Begin(r, q) /\ q.of = u /\ ~q.stale /\ account[u] # "absent"
               /\ container = "running" /\ ActiveAdmins # {}
               /\ q.what = "role" /\ q.at = "read" /\ q.password = password[u]
               /\ q.wasAdmin <=> "admin" \in roles[u]
  <2>0. PICK q : q = [NoRequest EXCEPT !.what = "role", !.of = u, !.at = "read",
                        !.password = password[u], !.wasAdmin = "admin" \in roles[u]]
    OBVIOUS
  <2>3. q = UserRead(u, password[u], "admin" \in roles[u])
    BY <2>0 DEF UserRead, NoRequest
  <2>1. password[u] \in 0..MaxPasswords
    BY <1>1
  <2>2. /\ q \in Queries /\ q.what = "role" /\ q.of = u /\ q.at = "read"
        /\ q.password = password[u] /\ (q.wasAdmin <=> "admin" \in roles[u]) /\ ~q.stale
    BY <2>1, <2>3, ReadFields
  <2>4. Begin(r, q)
    BY <1>3, <2>0 DEF ReadUser
  <2> QED BY <1>3, <2>2, <2>4 DEF ReadUser, MayAdminister
<1>4. ASSUME NEW u \in Users, ReadForPassword(r, u)
      PROVE  \E q \in Queries :
               /\ Begin(r, q) /\ q.of = u /\ ~q.stale /\ account[u] # "absent"
               /\ container = "running" /\ q.what = "password" /\ q.at = "read"
               /\ q.active <=> account[u] = "active"
  <2>0. PICK q : q = [NoRequest EXCEPT !.what = "password", !.of = u, !.at = "read",
                                       !.active = account[u] = "active"]
    OBVIOUS
  <2>1. q = PasswordRead(u, account[u] = "active")
    BY <2>0 DEF PasswordRead, NoRequest
  <2>2. /\ q \in Queries /\ q.what = "password" /\ q.of = u /\ q.at = "read"
        /\ (q.active <=> account[u] = "active") /\ ~q.stale
    BY <2>1, PasswordFields
  <2>3. Begin(r, q)
    BY <1>4, <2>0 DEF ReadForPassword
  <2> QED BY <1>4, <2>2, <2>3 DEF ReadForPassword
<1>5. CASE \E u \in Users : ReadUser(r, u)
  <2> PICK u \in Users, q \in Queries :
         /\ Begin(r, q) /\ q.of = u /\ ~q.stale /\ account[u] # "absent"
         /\ container = "running" /\ ActiveAdmins # {}
         /\ q.what = "role" /\ q.at = "read" /\ q.password = password[u]
         /\ q.wasAdmin <=> "admin" \in roles[u]
    BY <1>3, <1>5
  <2> QED BY <1>2 DEF At
<1>6. CASE \E u \in Users : ReadForPassword(r, u)
  <2> PICK u \in Users, q \in Queries :
         /\ Begin(r, q) /\ q.of = u /\ ~q.stale /\ account[u] # "absent"
         /\ container = "running" /\ q.what = "password" /\ q.at = "read"
         /\ q.active <=> account[u] = "active"
    BY <1>4, <1>6
  <2> QED BY <1>2 DEF At
<1> QED BY <1>5, <1>6 DEF Reads

\* ... what it may do after the check of the form ...
LEMMA CheckSteps ==
    ASSUME TypeOK, NEW r \in Requests, Checks(r)
    PROVE  /\ UNCHANGED <<container, account, password, roles, decided, raced, cut>>
           /\ request' \in [Requests -> Queries]
           /\ \A s \in Requests : s # r => request'[s] = request[s]
           /\ Active(r) /\ At(r, "role", {"read"})
           /\ \/ ~Active(r)'
              \/ /\ Active(r)' /\ At(r, "role", {"checked"})'
                 /\ request'[r].of = request[r].of /\ request'[r].stale = request[r].stale
                 /\ request'[r].password = request[r].password
                 /\ request'[r].wasAdmin = request[r].wasAdmin
                 /\ \/ ~request[r].wasAdmin
                    \/ request'[r].role = "admin" /\ request'[r].active
                    \/ ~(ActiveAdmins \subseteq {request[r].of})
<1> PICK role \in Roles, active \in BOOLEAN : CheckLastAdmin(r, role, active)
  BY DEF Checks
<1>1. request \in [Requests -> Queries] /\ request[r] \in Queries
  BY TypesSplit
<1> PICK q : q = CheckedAs(request[r], role, active)
  OBVIOUS
<1> DEFINE refused == /\ request[r].wasAdmin /\ (role # "admin" \/ ~active)
                      /\ ActiveAdmins \subseteq {request[r].of}
<1>2. /\ q \in Queries /\ q.at = "checked" /\ q.what = request[r].what /\ q.of = request[r].of
      /\ q.role = role /\ q.active = active /\ q.stale = request[r].stale
      /\ q.password = request[r].password /\ q.wasAdmin = request[r].wasAdmin
  BY <1>1, CheckedFields
<1>3. request' = [request EXCEPT ![r] = IF refused THEN NoRequest ELSE q]
  BY DEF CheckLastAdmin, CheckedAs
<1>4. q # NoRequest /\ Active(r) /\ request[r].what = "role" /\ request[r].at = "read"
  BY <1>2, NoRequestFields DEF CheckLastAdmin, InFlight, Active
<1>5. UNCHANGED <<container, account, password, roles, decided, raced, cut>>
  BY DEF CheckLastAdmin
<1>6. ~refused => \/ ~request[r].wasAdmin
                  \/ role = "admin" /\ active
                  \/ ~(ActiveAdmins \subseteq {request[r].of})
  OBVIOUS
<1> HIDE DEF refused
<1>7. CASE refused
  BY <1>1, <1>3, <1>4, <1>5, <1>7, NoRequestFields DEF At, Active
<1>8. CASE ~refused
  BY <1>1, <1>2, <1>3, <1>4, <1>5, <1>6, <1>8 DEF At, Active
<1> QED BY <1>7, <1>8

\* ... and what its death leaves.
LEMMA DeathSteps ==
    ASSUME TypeOK, NEW r \in Requests, RequestDies(r)
    PROVE  /\ UNCHANGED <<container, account, password, roles, decided, raced>>
           /\ request' \in [Requests -> Queries] /\ ~Active(r)'
           /\ \A s \in Requests : s # r => request'[s] = request[s]
           /\ cut' = (cut \/ Halfway(r))
BY TypesSplit, NoRequestFields DEF RequestDies, Active

LEMMA TypesInductive ==
    ASSUME TypeOK, [Next]_vars
    PROVE  TypeOK'
<1> USE AccountsAssumption
<1>1. /\ container \in {"starting", "created", "failed", "running"}
      /\ account \in [Users -> {"absent", "active", "disabled"}]
      /\ password \in [Users -> 0..MaxPasswords]
      /\ roles \in [Users -> SUBSET Roles]
      /\ request \in [Requests -> Queries]
      /\ decided \in [Users -> [active : BOOLEAN, password : 0..MaxPasswords]]
      /\ raced \in BOOLEAN /\ cut \in BOOLEAN
  BY TypesSplit
<1>2. \A b \in BOOLEAN : State(b) \in {"absent", "active", "disabled"}
  BY DEF State
<1>3. \A b \in BOOLEAN, p \in 0..MaxPasswords :
        Decision(b, p) \in [active : BOOLEAN, password : 0..MaxPasswords]
  BY DEF Decision
<1>4. \A r \in Requests : /\ request[r].role \in Roles /\ request[r].active \in BOOLEAN
                          /\ request[r].password \in 0..MaxPasswords
                          /\ request[r].stale \in BOOLEAN
  BY <1>1 DEF Queries
<1>5. ASSUME NEW r \in Requests, Writes(r) PROVE TypeOK'
  <2> PICK u \in Users : Saved(r, u) /\ Others(r, u)
    BY <1>5, WriteSteps
  <2>1. request' \in [Requests -> Queries] /\ container' = container
        /\ raced' \in BOOLEAN /\ cut' \in BOOLEAN
    BY <1>1, <1>4, <1>5, WriteSteps DEF Others
  <2>2. account' \in [Users -> {"absent", "active", "disabled"}]
    BY <1>1, <1>2, <1>4 DEF Saved
  <2>3. password' \in [Users -> 0..MaxPasswords]
    BY <1>1, <1>4 DEF Saved
  <2>4. roles' \in [Users -> SUBSET Roles]
    BY <1>1, <1>4 DEF Saved
  <2>5. decided' \in [Users -> [active : BOOLEAN, password : 0..MaxPasswords]]
    <3>1. 0 \in 0..MaxPasswords
      OBVIOUS
    <3>2. \A b \in BOOLEAN, d \in [active : BOOLEAN, password : 0..MaxPasswords] :
            [d EXCEPT !.active = b] \in [active : BOOLEAN, password : 0..MaxPasswords]
      OBVIOUS
    <3>3. \A p \in 0..MaxPasswords, d \in [active : BOOLEAN, password : 0..MaxPasswords] :
            [d EXCEPT !.password = p] \in [active : BOOLEAN, password : 0..MaxPasswords]
      OBVIOUS
    <3> QED BY <1>1, <1>3, <1>4, <3>1, <3>2, <3>3 DEF Saved
  <2> QED BY <1>1, <2>1, <2>2, <2>3, <2>4, <2>5 DEF TypeOK, Queries
<1>6. ASSUME NEW r \in Requests, Reads(r) \/ Checks(r) \/ RequestDies(r) PROVE TypeOK'
  <2>1. /\ UNCHANGED <<container, account, password, roles, decided, raced>>
        /\ request' \in [Requests -> Queries] /\ cut' \in BOOLEAN
    BY <1>1, <1>6, ReadSteps, CheckSteps, DeathSteps
  <2> QED BY <1>1, <2>1 DEF TypeOK, Queries
<1>7. Bootstrap => TypeOK'
  <2> SUFFICES ASSUME Bootstrap PROVE TypeOK'
    OBVIOUS
  <2>1. /\ container' \in {"starting", "created", "failed", "running"}
        /\ account' \in [Users -> {"absent", "active", "disabled"}]
        /\ password' \in [Users -> 0..MaxPasswords]
        /\ decided' \in [Users -> [active : BOOLEAN, password : 0..MaxPasswords]]
    <3>1. 0 \in 0..MaxPasswords
      OBVIOUS
    <3> QED BY <1>1, <1>3, <3>1 DEF Bootstrap
  <2> QED BY <1>1, <2>1 DEF Bootstrap, TypeOK, Queries
<1>8. BootstrapAdds \/ Restart => TypeOK'
  <2> SUFFICES ASSUME BootstrapAdds \/ Restart PROVE TypeOK'
    OBVIOUS
  <2>1. roles' \in [Users -> SUBSET Roles] /\ container' \in {"starting", "running"}
        /\ UNCHANGED <<account, password, request, decided, raced, cut>>
    BY <1>1 DEF BootstrapAdds, Restart
  <2> QED BY <1>1, <2>1 DEF TypeOK, Queries
<1>9. ContainerStops => TypeOK'
  <2> SUFFICES ASSUME ContainerStops PROVE TypeOK'
    OBVIOUS
  <2>1. request' \in [Requests -> Queries] /\ container' = "starting" /\ cut' \in BOOLEAN
    BY NoRequestFields DEF ContainerStops
  <2> QED BY <1>1, <2>1 DEF ContainerStops, TypeOK, Queries
<1>10. UNCHANGED vars => TypeOK'
  BY <1>1 DEF vars, TypeOK, Queries
<1> QED BY <1>5, <1>6, <1>7, <1>8, <1>9, <1>10, StepKinds

-----------------------------------------------------------------------------
(* Requests.                                                               *)

LEMMA RequestsInductive ==
    ASSUME IInv, [Next]_vars
    PROVE  RequestsFit' /\ RowsFit'
<1> USE DEF IInv
<1>1. /\ account \in [Users -> {"absent", "active", "disabled"}]
      /\ roles \in [Users -> SUBSET Roles] /\ request \in [Requests -> Queries]
      /\ \A r \in Requests : request[r].of \in Users
      /\ Boss \in Users
  BY TypesSplit, AccountsAssumption DEF Queries
<1> DEFINE Rest == RequestsFit' /\ RowsFit'
<1>2. ASSUME NEW r \in Requests, Writes(r) PROVE Rest
  <2> PICK u \in Users : Saved(r, u) /\ Others(r, u)
    BY <1>2, WriteSteps
  <2>1. container = "running" /\ container' = "running"
    BY DEF Saved, Others, RequestsFit, MayAdminister
  <2>2. \A v \in Users : account'[v] = "absent" => account[v] = "absent" /\ v # u
    <3>1. \A b \in BOOLEAN : State(b) # "absent"
      BY DEF State
    <3>2. request[r].active \in BOOLEAN
      BY <1>1 DEF Queries
    <3>3. Active(r) => account[request[r].of] # "absent"
      BY DEF RequestsFit
    <3> QED BY <1>1, <3>1, <3>2, <3>3 DEF Saved
  <2>3. \A v \in Users : v # u => roles'[v] = roles[v]
    BY <1>1 DEF Saved
  <2>4. RowsFit'
    BY <2>1, <2>2, <2>3 DEF RowsFit
  <2>5. ASSUME NEW s \in Requests, Active(s)', s # r
        PROVE  /\ Active(s) /\ request'[s].of = request[s].of
               /\ request'[s].what = request[s].what /\ request'[s].at = request[s].at
    BY <2>5 DEF Others
  <2>6. Active(r)' => /\ request'[r].of = u
                      /\ At(r, "role", {"saved"})' \/ At(r, "role", {"cleared"})'
    BY DEF Saved, Others
  <2>7. RequestsFit'
    BY <1>1, <2>1, <2>2, <2>5, <2>6 DEF RequestsFit, At
  <2> QED BY <2>4, <2>7
<1>3. ASSUME NEW r \in Requests, Reads(r) PROVE Rest
  <2>1. RequestsFit'
    BY <1>3, ReadSteps DEF RequestsFit, At, Active
  <2> QED BY <1>3, <2>1, ReadSteps DEF RowsFit
<1>4. ASSUME NEW r \in Requests, Checks(r) PROVE Rest
  <2>1. RequestsFit'
    BY <1>4, CheckSteps DEF RequestsFit, At, Active
  <2> QED BY <1>4, <2>1, CheckSteps DEF RowsFit
<1>5. ASSUME NEW r \in Requests, RequestDies(r) PROVE Rest
  <2>1. RequestsFit'
    BY <1>5, DeathSteps DEF RequestsFit, At, Active
  <2> QED BY <1>5, <2>1, DeathSteps DEF RowsFit
<1>6. ASSUME Bootstrap PROVE Rest
  <2>1. \A r \in Requests : ~Active(r)'
    BY <1>6 DEF Bootstrap, RequestsFit, Active
  <2>2. RowsFit'
    BY <1>1, <1>6 DEF Bootstrap, RowsFit
  <2> QED BY <2>1, <2>2 DEF RequestsFit
<1>7. ASSUME BootstrapAdds PROVE Rest
  <2>1. \A r \in Requests : ~Active(r)'
    BY <1>7 DEF BootstrapAdds, RequestsFit, Active
  <2>2. RowsFit'
    BY <1>1, <1>7 DEF BootstrapAdds, RowsFit
  <2> QED BY <2>1, <2>2 DEF RequestsFit
<1>8. ASSUME Restart \/ ContainerStops PROVE Rest
  <2>1. \A r \in Requests : ~Active(r)'
    BY <1>8 DEF Restart, ContainerStops, RequestsFit, Active
  <2> QED BY <1>8, <2>1 DEF Restart, ContainerStops, RequestsFit, RowsFit
<1>9. ASSUME UNCHANGED vars PROVE Rest
  BY <1>9 DEF vars, RequestsFit, RowsFit, Active, At
<1> HIDE DEF Rest
<1>10. Rest
  BY <1>2, <1>3, <1>4, <1>5, <1>6, <1>7, <1>8, <1>9, StepKinds
<1> QED BY <1>10 DEF Rest

\* Administrators change only with an account or a role.
LEMMA SameAdmins ==
    ASSUME UNCHANGED <<account, roles>>
    PROVE  ActiveAdmins' = ActiveAdmins /\ \A u \in Users : OtherAdmin(u)' <=> OtherAdmin(u)
BY DEF ActiveAdmins, OtherAdmin

\* A save for one account leaves the other administrators.
LEMMA OthersAdminister ==
    ASSUME TypeOK, NEW r \in Requests, NEW u \in Users, Saved(r, u)
    PROVE  /\ OtherAdmin(u) => OtherAdmin(u)'
           /\ \A v \in Users : v # u => account'[v] = account[v] /\ roles'[v] = roles[v]
<1>1. \A v \in Users : v # u => account'[v] = account[v] /\ roles'[v] = roles[v]
  BY TypesSplit DEF Saved
<1> QED BY <1>1 DEF OtherAdmin, ActiveAdmins

LEMMA SameFits ==
    ASSUME UNCHANGED <<account, password, roles>>
    PROVE  \A q \in Queries : Fits(q)' <=> Fits(q)
<1>1. ActiveAdmins' = ActiveAdmins /\ \A u \in Users : OtherAdmin(u)' <=> OtherAdmin(u)
  BY SameAdmins
<1>2. \A q \in Queries : q.of \in Users
  BY DEF Queries
<1> QED BY <1>1, <1>2 DEF Fits

LEMMA FreshInductive ==
    ASSUME IInv, [Next]_vars
    PROVE  FreshFits'
<1> USE DEF IInv
<1>1. /\ account \in [Users -> {"absent", "active", "disabled"}]
      /\ roles \in [Users -> SUBSET Roles] /\ request \in [Requests -> Queries]
      /\ request' \in [Requests -> Queries]
      /\ \A q \in Queries : q.of \in Users /\ q.active \in BOOLEAN /\ q.wasAdmin \in BOOLEAN
  <2>1. TypeOK'
    BY TypesInductive
  <2>2. request' \in [Requests -> Queries]
    BY <2>1 DEF TypeOK, Queries
  <2> QED BY <2>2, TypesSplit DEF Queries
<1> SUFFICES ASSUME NEW s \in Requests, NEW q \in Queries, q = request'[s],
                    q # NoRequest, ~q.stale
             PROVE  Fits(q)'
  BY <1>1 DEF FreshFits, Active, Fits, OtherAdmin, ActiveAdmins
\* What another request may rely on stays while nothing is saved.
<1>2. ASSUME UNCHANGED <<account, password, roles>>, request'[s] = request[s] PROVE Fits(q)'
  BY <1>1, <1>2, SameFits DEF FreshFits, Active
<1>3. ASSUME NEW r \in Requests, Reads(r) PROVE Fits(q)'
  <2>1. CASE s # r
    BY <1>2, <1>3, <2>1, ReadSteps
  <2>2. CASE s = r
    <3>1. Fits(q)
      BY <1>3, <2>2, ReadSteps DEF At, Fits
    <3> QED BY <1>3, <3>1, ReadSteps, SameFits
  <2> QED BY <2>1, <2>2
<1>4. ASSUME NEW r \in Requests, Checks(r) PROVE Fits(q)'
  <2>1. CASE s # r
    BY <1>2, <1>4, <2>1, CheckSteps
  <2>2. CASE s = r
    <3>1. /\ Active(r) /\ request[r] \in Queries /\ ~request[r].stale /\ request[r].of = q.of
          /\ request[r].what = "role" /\ request[r].at = "read"
          /\ q.what = "role" /\ q.at = "checked" /\ q.password = request[r].password
          /\ q.wasAdmin = request[r].wasAdmin
          /\ \/ ~request[r].wasAdmin
             \/ q.role = "admin" /\ q.active
             \/ ~(ActiveAdmins \subseteq {q.of})
      BY <1>1, <1>4, <2>2, CheckSteps DEF At, Active
    <3>2. Fits(request[r])
      BY <3>1 DEF FreshFits
    <3>3. /\ q.password = password[q.of] /\ (q.wasAdmin <=> "admin" \in roles[q.of])
          /\ ActiveAdmins # {}
      BY <3>1, <3>2 DEF Fits
    <3>4. OtherAdmin(q.of) \/ (q.role = "admin" /\ q.active)
      BY <3>1, <3>3 DEF OtherAdmin, ActiveAdmins
    <3>5. Fits(q)
      BY <3>1, <3>3, <3>4 DEF Fits
    <3> QED BY <1>4, <3>5, CheckSteps, SameFits
  <2> QED BY <2>1, <2>2
<1>5. ASSUME NEW r \in Requests, RequestDies(r) PROVE Fits(q)'
  <2>1. s # r
    BY <1>5, DeathSteps DEF Active
  <2> QED BY <1>2, <1>5, <2>1, DeathSteps
<1>6. ASSUME NEW r \in Requests, Writes(r) PROVE Fits(q)'
  <2> PICK u \in Users : Saved(r, u) /\ Others(r, u)
    BY <1>6, WriteSteps
  <2>1. s = r
    BY DEF Others, Active
  <2>2. Active(r)' /\ q.of = u
    BY <2>1 DEF Others, Active
  <2>3. /\ OtherAdmin(u) => OtherAdmin(u)'
        /\ \A v \in Users : v # u => account'[v] = account[v] /\ roles'[v] = roles[v]
    BY OthersAdminister
  <2>4. CASE ~Active(r)
    <3>1. /\ MayAdminister /\ account[u] = "absent" /\ roles' = roles
          /\ q.what = "role" /\ q.at = "cleared"
      BY <2>1, <2>4 DEF Saved, At
    <3>2. roles'[u] = {}
      BY <3>1 DEF RowsFit
    <3>3. OtherAdmin(u)
      BY <3>1 DEF MayAdminister, OtherAdmin, ActiveAdmins
    <3> QED BY <2>2, <2>3, <3>1, <3>2, <3>3 DEF Fits
  <2>5. CASE Active(r) /\ At(r, "role", {"checked"})
    <3>1. /\ q.what = "role" /\ q.at = "saved" /\ request[r].of = u /\ ~request[r].stale
          /\ q.role = request[r].role /\ request[r].at = "checked"
          /\ account' = [account EXCEPT ![u] = State(request[r].active)]
      BY <2>1, <2>2, <2>5 DEF Saved, At
    <3>2. OtherAdmin(u) \/ (q.role = "admin" /\ request[r].active)
      BY <2>5, <3>1 DEF FreshFits, Fits
    <3>3. request[r].active => account'[u] = "active"
      BY <1>1, <3>1 DEF State
    <3> QED BY <2>2, <2>3, <3>1, <3>2, <3>3 DEF Fits
  <2>6. CASE Active(r) /\ At(r, "role", {"saved"})
    <3>1. /\ q.what = "role" /\ q.at = "cleared" /\ request[r].of = u /\ ~request[r].stale
          /\ q.role = request[r].role /\ request[r].at = "saved"
          /\ account' = account /\ roles' = [roles EXCEPT ![u] = {}]
      BY <2>1, <2>2, <2>6 DEF Saved, At
    <3>2. OtherAdmin(u) \/ (q.role = "admin" /\ account[u] = "active")
      BY <2>6, <3>1 DEF FreshFits, Fits
    <3>3. roles'[u] = {}
      BY <1>1, <3>1
    <3> QED BY <2>2, <2>3, <3>1, <3>2, <3>3 DEF Fits
  <2> QED BY <2>2, <2>4, <2>5, <2>6 DEF Saved
<1>7. ASSUME Bootstrap \/ BootstrapAdds PROVE Fits(q)'
  BY <1>7 DEF Bootstrap, BootstrapAdds, RequestsFit, Active
<1>8. ASSUME Restart \/ ContainerStops PROVE Fits(q)'
  BY <1>8 DEF Restart, ContainerStops, RequestsFit, Active
<1>9. ASSUME UNCHANGED vars PROVE Fits(q)'
  BY <1>2, <1>9 DEF vars
<1> QED BY <1>3, <1>4, <1>5, <1>6, <1>7, <1>8, <1>9, StepKinds

-----------------------------------------------------------------------------
(* Decisions.                                                              *)

LEMMA DecisionsInductive ==
    ASSUME IInv, [Next]_vars
    PROVE  DecisionsHold'
<1> USE DEF IInv
<1>1. /\ account \in [Users -> {"absent", "active", "disabled"}]
      /\ password \in [Users -> 0..MaxPasswords]
      /\ decided \in [Users -> [active : BOOLEAN, password : 0..MaxPasswords]]
      /\ \A r \in Requests : request[r].active \in BOOLEAN
  BY TypesSplit DEF Queries
<1>2. \A b \in BOOLEAN, p \in 0..MaxPasswords :
         Decision(b, p).active = b /\ Decision(b, p).password = p
  BY DEF Decision
<1>3. ASSUME UNCHANGED <<account, password, decided, raced>> PROVE DecisionsHold'
  BY <1>3 DEF DecisionsHold
<1>4. ASSUME NEW r \in Requests, Writes(r) PROVE DecisionsHold'
  <2> SUFFICES ASSUME ~raced', NEW v \in Users, account'[v] # "absent"
               PROVE  account'[v] = State(decided'[v].active) /\ password'[v] = decided'[v].password
    BY DEF DecisionsHold
  <2> PICK u \in Users : Saved(r, u) /\ Others(r, u)
    BY <1>4, WriteSteps
  <2>1. ~raced /\ ~request[r].stale
    BY DEF Others
  <2>2. account[v] # "absent" => account[v] = State(decided[v].active)
                                 /\ password[v] = decided[v].password
    BY <2>1 DEF DecisionsHold
  <2>3. CASE v # u
    <3>1. account'[v] = account[v] /\ password'[v] = password[v] /\ decided'[v] = decided[v]
      BY <1>1, <2>3 DEF Saved
    <3> QED BY <2>2, <3>1
  <2>4. CASE v = u /\ ~Active(r)
    <3>1. PICK active \in BOOLEAN : /\ account' = [account EXCEPT ![u] = State(active)]
                                    /\ password' = [password EXCEPT ![u] = 0]
                                    /\ decided' = [decided EXCEPT ![u] = Decision(active, 0)]
      BY <2>4 DEF Saved
    <3>2. 0 \in 0..MaxPasswords
      BY AccountsAssumption
    <3> QED BY <1>1, <1>2, <2>4, <3>1, <3>2
  <2>5. CASE v = u /\ Active(r)
    <3>1. request[r].of = u /\ account[u] # "absent" /\ Fits(request[r])
      BY <2>1, <2>5 DEF Saved, RequestsFit, FreshFits
    <3>2. CASE At(r, "role", {"checked"})
      <4>1. /\ account' = [account EXCEPT ![u] = State(request[r].active)]
            /\ password' = [password EXCEPT ![u] = request[r].password]
            /\ decided' = [decided EXCEPT ![u].active = request[r].active]
        BY <2>5, <3>2 DEF Saved, At
      <4>2. request[r].password = password[u]
        BY <3>1, <3>2 DEF Fits, At
      <4>3. decided'[u].active = request[r].active /\ decided'[u].password = decided[u].password
        BY <1>1, <4>1
      <4> QED BY <1>1, <2>2, <2>5, <3>1, <4>1, <4>2, <4>3
    <3>3. CASE At(r, "role", {"saved", "cleared"})
      BY <2>2, <2>5, <3>1, <3>3 DEF Saved, At
    <3>4. CASE At(r, "password", {"read"})
      <4>1. PICK new \in 0..MaxPasswords :
               /\ account' = [account EXCEPT ![u] = State(request[r].active)]
               /\ password' = [password EXCEPT ![u] = new]
               /\ decided' = [decided EXCEPT ![u].password = new]
        BY <2>5, <3>4 DEF Saved, At
      <4>2. State(request[r].active) = account[u]
        BY <1>1, <3>1, <3>4 DEF Fits, At, State
      <4>3. decided'[u].active = decided[u].active /\ decided'[u].password = new
        BY <1>1, <4>1
      <4> QED BY <1>1, <2>2, <2>5, <3>1, <4>1, <4>2, <4>3
    <3> QED BY <2>5, <3>2, <3>3, <3>4 DEF Saved, At
  <2> QED BY <2>3, <2>4, <2>5
<1>5. ASSUME NEW r \in Requests, Reads(r) \/ Checks(r) \/ RequestDies(r) PROVE DecisionsHold'
  BY <1>3, <1>5, ReadSteps, CheckSteps, DeathSteps
<1>6. ASSUME Bootstrap PROVE DecisionsHold'
  <2>1. CASE UNCHANGED <<account, password, decided>>
    BY <1>3, <1>6, <2>1 DEF Bootstrap
  <2>2. CASE /\ account' = [account EXCEPT ![Boss] = "active"]
             /\ password' = [password EXCEPT ![Boss] = 0]
             /\ decided' = [decided EXCEPT ![Boss] = Decision(TRUE, 0)]
    <3>1. Decision(TRUE, 0).active = TRUE /\ Decision(TRUE, 0).password = 0
          /\ State(TRUE) = "active"
      BY DEF Decision, State
    <3>2. raced' = raced /\ Boss \in Users
      BY <1>6, AccountsAssumption DEF Bootstrap
    <3> QED BY <1>1, <2>2, <3>1, <3>2 DEF DecisionsHold
  <2> QED BY <1>6, <2>1, <2>2 DEF Bootstrap
<1>7. ASSUME BootstrapAdds \/ Restart \/ ContainerStops \/ UNCHANGED vars PROVE DecisionsHold'
  BY <1>3, <1>7 DEF BootstrapAdds, Restart, ContainerStops, vars
<1> QED BY <1>4, <1>5, <1>6, <1>7, StepKinds

-----------------------------------------------------------------------------
(* Administrators and roles.                                               *)

\* A request that reads, checks or dies undisturbed leaves what is being saved.
LEMMA SameSaving ==
    ASSUME TypeOK, NEW r \in Requests, Reads(r) \/ Checks(r) \/ RequestDies(r), ~Disturbed'
    PROVE  /\ ~Disturbed /\ UNCHANGED <<container, account, roles>>
           /\ \A u \in Users : BeingSaved(u)' <=> BeingSaved(u)
<1>1. /\ ~Disturbed /\ UNCHANGED <<container, account, roles>>
      /\ \A s \in Requests : s # r => request'[s] = request[s]
      /\ ~Halfway(r) /\ ~Halfway(r)'
  <2>1. CASE Reads(r)
    BY <2>1, ReadSteps, NoRequestFields DEF Disturbed, Active, At, Halfway
  <2>2. CASE Checks(r)
    BY <2>2, CheckSteps, NoRequestFields DEF Disturbed, Active, At, Halfway
  <2>3. CASE RequestDies(r)
    BY <2>3, DeathSteps, NoRequestFields DEF Disturbed, Active, Halfway
  <2> QED BY <2>1, <2>2, <2>3
<1>2. \A s \in Requests : (Halfway(s)' <=> Halfway(s)) /\ (s # r => request'[s] = request[s])
  BY <1>1 DEF Halfway
<1> QED BY <1>1, <1>2 DEF BeingSaved

\* A save that nobody disturbs: what another request saves is still being saved, and the
\* account of this one is until its role is there.
LEMMA UndisturbedSave ==
    ASSUME IInv, NEW r \in Requests, NEW u \in Users, Saved(r, u), Others(r, u), ~Disturbed'
    PROVE  /\ ~Disturbed /\ container = "running" /\ container' = "running"
           /\ \A v \in Users : v # u => (BeingSaved(v)' <=> BeingSaved(v))
           /\ \/ BeingSaved(u)'
              \/ /\ At(r, "role", {"cleared"}) /\ account' = account
                 /\ request[r].role \in Roles /\ roles' = [roles EXCEPT ![u] = {request[r].role}]
                 /\ OtherAdmin(u) \/ (request[r].role = "admin" /\ account[u] = "active")
              \/ /\ account' = account /\ roles' = roles /\ account[u] # "absent"
                 /\ BeingSaved(u)' <=> BeingSaved(u)
<1> USE DEF IInv
<1>1. ~Disturbed /\ ~request[r].stale
  BY DEF Others, Disturbed
<1>2. container = "running" /\ container' = "running"
  BY DEF Saved, Others, RequestsFit, MayAdminister
<1>3. \A s \in Requests : s # r => (Halfway(s)' <=> Halfway(s)) /\ request'[s].of = request[s].of
  BY DEF Others
<1>4. (Halfway(r) => request[r].of = u) /\ (Halfway(r)' => request'[r].of = u)
  <2>1. Halfway(r) => Active(r)
    BY NoRequestFields DEF Halfway, Active
  <2>2. Halfway(r)' => Active(r)'
    BY NoRequestFields DEF Halfway, Active
  <2> QED BY <2>1, <2>2 DEF Saved, Others
<1>5. \A v \in Users : v # u => (BeingSaved(v)' <=> BeingSaved(v))
  BY <1>3, <1>4 DEF BeingSaved
<1>6. CASE ~Active(r) \/ At(r, "role", {"checked", "saved"})
  <2>1. Halfway(r)'
    BY <1>6 DEF Saved, At, Halfway
  <2> QED BY <1>1, <1>2, <1>4, <1>5, <2>1 DEF BeingSaved
<1>7. CASE Active(r) /\ At(r, "role", {"cleared"})
  <2>1. request[r].of = u /\ account' = account
        /\ roles' = [roles EXCEPT ![u] = @ \cup {request[r].role}]
    BY <1>7 DEF Saved, At
  <2>2. /\ roles[u] = {}
        /\ OtherAdmin(u) \/ (request[r].role = "admin" /\ account[u] = "active")
    BY <1>1, <1>7, <2>1 DEF FreshFits, Fits, At
  <2>3. request[r].role \in Roles /\ roles \in [Users -> SUBSET Roles]
    BY TypesSplit DEF Queries
  <2>4. roles' = [roles EXCEPT ![u] = {request[r].role}]
    BY <2>1, <2>2, <2>3
  <2> QED BY <1>1, <1>2, <1>5, <1>7, <2>1, <2>2, <2>3, <2>4
<1>8. CASE Active(r) /\ At(r, "password", {"read"})
  <2>1. /\ request[r].of = u /\ account' = [account EXCEPT ![u] = State(request[r].active)]
        /\ roles' = roles /\ ~Active(r)'
    BY <1>8 DEF Saved, At
  <2>2. account[u] # "absent" /\ (request[r].active <=> account[u] = "active")
    BY <1>1, <1>8, <2>1 DEF RequestsFit, FreshFits, Fits, At
  <2>3. account' = account
    BY <2>1, <2>2, TypesSplit DEF State
  <2>4. ~Halfway(r) /\ ~Halfway(r)'
    BY <1>8, <2>1, NoRequestFields DEF Active, At, Halfway
  <2>5. BeingSaved(u)' <=> BeingSaved(u)
    BY <1>3, <2>4 DEF BeingSaved
  <2> QED BY <1>1, <1>2, <1>5, <2>1, <2>2, <2>3, <2>5
<1> QED BY <1>6, <1>7, <1>8 DEF Saved, At

LEMMA AdminsInductive ==
    ASSUME IInv, [Next]_vars
    PROVE  AtRest' /\ AdminRemains' /\ StartsUndisturbed'
<1> USE DEF IInv
<1> SUFFICES ASSUME ~Disturbed'
             PROVE  /\ container' # "failed"
                    /\ container' = "starting" =>
                         (\A u \in Users : account'[u] = "absent") \/ ActiveAdmins' # {}
                    /\ container' = "running" =>
                         ActiveAdmins' # {} \/ \E u \in Users : BeingSaved(u)'
  BY DEF AtRest, AdminRemains, StartsUndisturbed
<1> DEFINE Rest == /\ container' # "failed"
                   /\ container' = "starting" =>
                        (\A u \in Users : account'[u] = "absent") \/ ActiveAdmins' # {}
                   /\ container' = "running" =>
                        ActiveAdmins' # {} \/ \E u \in Users : BeingSaved(u)'
<1>1. /\ ~Disturbed => container # "failed"
      /\ ~Disturbed /\ container = "starting" =>
           (\A u \in Users : account[u] = "absent") \/ ActiveAdmins # {}
      /\ ~Disturbed /\ container = "running" =>
           ActiveAdmins # {} \/ \E u \in Users : BeingSaved(u)
  BY DEF AtRest, AdminRemains, StartsUndisturbed
<1>2. /\ account \in [Users -> {"absent", "active", "disabled"}]
      /\ roles \in [Users -> SUBSET Roles] /\ Boss \in Users
      /\ container \in {"starting", "created", "failed", "running"}
  BY TypesSplit, AccountsAssumption
<1>3. ASSUME NEW r \in Requests, Writes(r) PROVE Rest
  <2> PICK u \in Users : Saved(r, u) /\ Others(r, u)
    BY <1>3, WriteSteps
  <2>1. ~Disturbed /\ container = "running" /\ container' = "running"
    BY UndisturbedSave
  <2>2. CASE BeingSaved(u)'
    BY <2>1, <2>2
  <2>3. CASE OtherAdmin(u)
    BY <2>1, <2>3, OthersAdminister DEF OtherAdmin
  <2>4. CASE /\ account' = account /\ account[u] = "active"
             /\ roles' = [roles EXCEPT ![u] = {"admin"}]
    <3>1. u \in ActiveAdmins'
      BY <1>2, <2>4 DEF ActiveAdmins
    <3> QED BY <2>1, <3>1
  <2>5. CASE account' = account /\ roles' = roles /\ (BeingSaved(u)' <=> BeingSaved(u))
    <3>1. ActiveAdmins' = ActiveAdmins
      BY <2>5 DEF ActiveAdmins
    <3>2. \A v \in Users : BeingSaved(v)' <=> BeingSaved(v)
      BY <2>5, UndisturbedSave
    <3> QED BY <1>1, <2>1, <3>1, <3>2
  <2> QED BY <2>2, <2>3, <2>4, <2>5, UndisturbedSave
<1>4. ASSUME NEW r \in Requests, Reads(r) \/ Checks(r) \/ RequestDies(r) PROVE Rest
  BY <1>1, <1>4, SameSaving, SameAdmins
<1>5. ASSUME Bootstrap PROVE Rest
  <2>1. ~Disturbed /\ container = "starting" /\ roles' = roles
    BY <1>5 DEF Bootstrap, Disturbed
  <2>2. CASE \E u \in Users : "admin" \in roles[u]
    <3>1. ActiveAdmins # {}
      BY <1>1, <2>1, <2>2 DEF RowsFit
    <3> QED BY <1>5, <2>1, <2>2, <3>1 DEF Bootstrap, ActiveAdmins
  <2>3. CASE ~ \E u \in Users : "admin" \in roles[u]
    <3>1. account[Boss] = "absent"
      BY <1>1, <1>2, <2>1, <2>3 DEF ActiveAdmins
    <3> QED BY <1>5, <2>3, <3>1 DEF Bootstrap
  <2> QED BY <2>2, <2>3
<1>6. ASSUME BootstrapAdds PROVE Rest
  <2>1. Boss \in ActiveAdmins' /\ container' = "running"
    BY <1>2, <1>6 DEF BootstrapAdds, RowsFit, ActiveAdmins
  <2> QED BY <2>1
<1>7. ASSUME Restart PROVE Rest
  BY <1>1, <1>7 DEF Restart, Disturbed
<1>8. ASSUME ContainerStops PROVE Rest
  <2>1. /\ ~Disturbed /\ container # "created" /\ \A r \in Requests : ~Halfway(r)
        /\ container' = "starting" /\ UNCHANGED <<account, roles>>
    BY <1>8 DEF ContainerStops, Disturbed
  <2>2. \A u \in Users : ~BeingSaved(u)
    BY <2>1 DEF BeingSaved
  <2> QED BY <1>1, <1>2, <2>1, <2>2, SameAdmins
<1>9. ASSUME UNCHANGED vars PROVE Rest
  <2>1. \A u \in Users : BeingSaved(u)' <=> BeingSaved(u)
    BY <1>9 DEF vars, BeingSaved, Halfway
  <2> QED BY <1>1, <1>9, <2>1, SameAdmins DEF vars, Disturbed
<1> HIDE DEF Rest
<1>10. Rest
  BY <1>3, <1>4, <1>5, <1>6, <1>7, <1>8, <1>9, StepKinds
<1> QED BY <1>10 DEF Rest

LEMMA RolesInductive ==
    ASSUME IInv, [Next]_vars
    PROVE  RoleEach'
<1> USE DEF IInv
<1> SUFFICES ASSUME ~Disturbed', NEW v \in Users, account'[v] # "absent", ~BeingSaved(v)',
                    ~(container' = "created" /\ v = Boss)
             PROVE  \E x \in Roles : roles'[v] = {x}
  BY DEF RoleEach
<1>1. /\ account \in [Users -> {"absent", "active", "disabled"}]
      /\ roles \in [Users -> SUBSET Roles] /\ Boss \in Users /\ "admin" \in Roles
  BY TypesSplit, AccountsAssumption
<1>2. ASSUME ~Disturbed, account[v] # "absent", ~BeingSaved(v), roles'[v] = roles[v],
             ~(container = "created" /\ v = Boss)
      PROVE  \E x \in Roles : roles'[v] = {x}
  BY <1>2 DEF RoleEach
<1>3. ASSUME NEW r \in Requests, Writes(r) PROVE \E x \in Roles : roles'[v] = {x}
  <2> PICK u \in Users : Saved(r, u) /\ Others(r, u)
    BY <1>3, WriteSteps
  <2>1. ~Disturbed /\ container = "running"
    BY UndisturbedSave
  <2>2. CASE v # u
    <3>1. account'[v] = account[v] /\ roles'[v] = roles[v] /\ ~BeingSaved(v)
      BY <2>2, OthersAdminister, UndisturbedSave
    <3> QED BY <1>2, <2>1, <3>1
  <2>3. CASE v = u
    <3>1. \/ \E x \in Roles : roles' = [roles EXCEPT ![u] = {x}]
          \/ account' = account /\ roles' = roles /\ ~BeingSaved(u)
      BY <2>3, UndisturbedSave
    <3> QED BY <1>1, <1>2, <2>1, <2>3, <3>1
  <2> QED BY <2>2, <2>3
<1>4. ASSUME NEW r \in Requests, Reads(r) \/ Checks(r) \/ RequestDies(r)
      PROVE  \E x \in Roles : roles'[v] = {x}
  BY <1>2, <1>4, SameSaving
<1>5. ASSUME Bootstrap PROVE \E x \in Roles : roles'[v] = {x}
  <2>1. ~Disturbed /\ ~BeingSaved(v) /\ roles' = roles /\ container = "starting"
    BY <1>5 DEF Bootstrap, Disturbed, BeingSaved, Halfway
  <2>2. account[v] # "absent"
    BY <1>1, <1>5 DEF Bootstrap
  <2> QED BY <1>2, <2>1, <2>2
<1>6. ASSUME BootstrapAdds PROVE \E x \in Roles : roles'[v] = {x}
  <2>1. ~Disturbed /\ ~BeingSaved(v) /\ account' = account
    BY <1>6 DEF BootstrapAdds, Disturbed, BeingSaved, Halfway
  <2>2. CASE v = Boss
    <3>1. roles'[Boss] = {"admin"}
      BY <1>1, <1>6 DEF BootstrapAdds, RowsFit
    <3> QED BY <1>1, <2>2, <3>1
  <2>3. CASE v # Boss
    <3>1. roles'[v] = roles[v]
      BY <1>1, <1>6, <2>3 DEF BootstrapAdds
    <3> QED BY <1>2, <2>1, <2>3, <3>1
  <2> QED BY <2>2, <2>3
<1>7. ASSUME Restart \/ UNCHANGED vars PROVE \E x \in Roles : roles'[v] = {x}
  <2>1. /\ ~Disturbed /\ ~BeingSaved(v) /\ UNCHANGED <<account, roles>>
        /\ ~(container = "created" /\ v = Boss)
    BY <1>7 DEF Restart, vars, Disturbed, BeingSaved, Halfway
  <2> QED BY <1>2, <2>1
<1>8. ASSUME ContainerStops PROVE \E x \in Roles : roles'[v] = {x}
  <2>1. /\ ~Disturbed /\ container # "created" /\ \A r \in Requests : ~Halfway(r)
        /\ UNCHANGED <<account, roles>>
    BY <1>8 DEF ContainerStops, Disturbed
  <2> QED BY <1>2, <2>1 DEF BeingSaved
<1> QED BY <1>3, <1>4, <1>5, <1>6, <1>7, <1>8, StepKinds

\* One role is a set of one.
LEMMA RoleIsOne ==
    ASSUME RoleEach
    PROVE  OneRole
<1>1. \A x \in Roles : Cardinality({x}) = 1
  BY FS_Singleton
<1> QED BY <1>1 DEF RoleEach, OneRole

-----------------------------------------------------------------------------
LEMMA Begins == Init => IInv
<1> SUFFICES ASSUME Init PROVE IInv
  OBVIOUS
<1> USE AccountsAssumption DEF Init
<1>1. TypeOK
  <2>1. Decision(FALSE, 0) \in [active : BOOLEAN, password : 0..MaxPasswords]
    BY DEF Decision
  <2>2. request \in [Requests -> Queries] /\ decided \in [Users -> [active : BOOLEAN, password : 0..MaxPasswords]]
    BY <2>1, NoRequestFields
  <2>3. /\ account \in [Users -> {"absent", "active", "disabled"}]
        /\ password \in [Users -> 0..MaxPasswords] /\ roles \in [Users -> SUBSET Roles]
    OBVIOUS
  <2>4. container \in {"starting", "created", "failed", "running"}
        /\ raced \in BOOLEAN /\ cut \in BOOLEAN
    OBVIOUS
  <2> QED BY ONLY <2>2, <2>3, <2>4, TypesSplit
<1>2. RequestsFit /\ RowsFit /\ FreshFits
  BY DEF RequestsFit, RowsFit, FreshFits, Active
<1>3. AtRest /\ AdminRemains /\ DecisionsHold /\ StartsUndisturbed
  BY DEF AtRest, AdminRemains, DecisionsHold, StartsUndisturbed
<1>4. RoleEach /\ OneRole
  BY RoleIsOne DEF RoleEach
<1> QED BY <1>1, <1>2, <1>3, <1>4 DEF IInv

\* The invariant holds of every behaviour: each part is kept by every save, reading,
\* death and start.
THEOREM Inductive == Spec => []IInv
<1>1. IInv /\ [Next]_vars => IInv'
  <2> SUFFICES ASSUME IInv, [Next]_vars PROVE IInv'
    OBVIOUS
  <2>1. TypeOK' /\ RequestsFit' /\ RowsFit' /\ FreshFits'
    BY TypesInductive, RequestsInductive, FreshInductive DEF IInv
  <2>2. AtRest' /\ AdminRemains' /\ StartsUndisturbed' /\ DecisionsHold' /\ RoleEach'
    BY AdminsInductive, DecisionsInductive, RolesInductive
  <2>3. OneRole'
    BY <2>2, RoleIsOne, PTL
  <2> QED BY <2>1, <2>2, <2>3 DEF IInv
<1> QED BY Begins, <1>1, PTL DEF Spec

\* Rows, requests and histories hold values of their kinds.
THEOREM TypeCorrect == Spec => []TypeOK
<1>1. IInv => TypeOK
  BY DEF IInv
<1> QED BY Inductive, <1>1, PTL

\* However many requests there are, the running system keeps an administrator who can log
\* in: the check of user_edit is enough as long as nobody saves between it and the role.
THEOREM AdministratorRemains == Spec => []AdminRemains
<1>1. IInv => AdminRemains
  BY DEF IInv
<1> QED BY Inductive, <1>1, PTL

\* The clearing and adding of groups leaves every account one role, under the same condition.
THEOREM RoleIsSingle == Spec => []OneRole
<1>1. IInv => OneRole
  BY DEF IInv
<1> QED BY Inductive, <1>1, PTL

\* Whole rows saved by user_edit and by the password forms lose a decision only when a
\* request saves over a row it has not read again.
THEOREM DecisionsAreKept == Spec => []DecisionsHold
<1>1. IInv => DecisionsHold
  BY DEF IInv
<1> QED BY Inductive, <1>1, PTL

\* The bootstrap fails only in a system that a death or a lost update has disturbed.
THEOREM BootstrapSucceeds == Spec => []StartsUndisturbed
<1>1. IInv => StartsUndisturbed
  BY DEF IInv
<1> QED BY Inductive, <1>1, PTL
=============================================================================
