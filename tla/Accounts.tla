------------------------------ MODULE Accounts ------------------------------
(***************************************************************************)
(* Accounts, roles and the bootstrap of the container: user_create,        *)
(* user_edit, user_password and password_change as the web processes run   *)
(* them side by side, and manage.py bootstrap, which runs before them at   *)
(* every start.                                                            *)
(*                                                                         *)
(* A request reads a whole User row and saves the whole row; its role is   *)
(* saved after that, as groups.clear() and groups.add(). There is no       *)
(* transaction around any of it.                                           *)
(***************************************************************************)
EXTENDS Integers, FiniteSets

CONSTANTS
    Users,           \* accounts
    Boss,            \* the account PM_ADMIN_USERNAME names
    Roles,           \* the groups, "admin" among them
    Requests,        \* requests in flight at a time
    MaxPasswords     \* bound: passwords an account is given after its first

ASSUME AccountsAssumption ==
    /\ Boss \in Users
    /\ "admin" \in Roles
    /\ MaxPasswords \in Nat

VARIABLES
    container,       \* the start of the container, and whether it serves requests
    account,         \* User.is_active, "absent" without a row
    password,        \* which password the row has
    roles,           \* User.groups
    request,         \* the requests in flight
    decided,         \* history: what administrators and owners last decided
    raced,           \* history: a request saved over what it had not seen
    cut              \* history: a death came between two saves

vars == <<container, account, password, roles, request, decided, raced, cut>>

\* Fields: what the request does, to whom, how far it is; what it was asked to save, what
\* it read; history: others have saved since.
NoRequest == [what |-> "none", of |-> Boss, at |-> "none", role |-> "admin", active |-> TRUE,
              password |-> 0, wasAdmin |-> FALSE, stale |-> FALSE]

InFlight(r, what, at) == request[r].what = what /\ request[r].at = at
State(active) == IF active THEN "active" ELSE "disabled"
Decision(active, p) == [active |-> active, password |-> p]

ActiveAdmins == {u \in Users : account[u] = "active" /\ "admin" \in roles[u]}

\* role_for and admin_required: a disabled account has no session.
MayAdminister == container = "running" /\ ActiveAdmins # {}

-----------------------------------------------------------------------------
(* The views.                                                              *)

\* Request r starts as record q.
Begin(r, q) ==
    /\ request[r] = NoRequest
    /\ request' = [request EXCEPT ![r] = q]
    /\ UNCHANGED <<container, account, password, roles, decided, raced, cut>>

\* Request r saves something and goes on as q; what the others have read is stale.
Saves(r, q) ==
    /\ request' = [s \in Requests |->
                     IF s = r THEN q
                     ELSE IF request[s] = NoRequest THEN NoRequest
                     ELSE [request[s] EXCEPT !.stale = TRUE]]
    /\ raced' = (raced \/ request[r].stale)
    /\ UNCHANGED <<container, cut>>

\* user_create: the row ...
CreateUser(r, u, role, active) ==
    /\ MayAdminister
    /\ request[r] = NoRequest
    /\ account[u] = "absent"
    /\ account' = [account EXCEPT ![u] = State(active)]
    /\ password' = [password EXCEPT ![u] = 0]
    /\ decided' = [decided EXCEPT ![u] = Decision(active, 0)]
    /\ Saves(r, [NoRequest EXCEPT !.what = "role", !.of = u, !.at = "cleared", !.role = role])
    /\ UNCHANGED roles

\* user_edit reads the row and whether it is an administrator's.
ReadUser(r, u) ==
    /\ MayAdminister
    /\ account[u] # "absent"
    /\ Begin(r, [NoRequest EXCEPT !.what = "role", !.of = u, !.at = "read",
                    !.password = password[u], !.wasAdmin = "admin" \in roles[u]])

\* Fault: disabling is no demotion.
ChecksRoleOnly(r, role, active) ==
    /\ InFlight(r, "role", "read")
    /\ LET q == request[r] IN
        request' = [request EXCEPT ![r] =
            IF q.wasAdmin /\ role # "admin" /\ ActiveAdmins \subseteq {q.of}
            THEN NoRequest
            ELSE [q EXCEPT !.at = "checked", !.role = role, !.active = active]]
    /\ UNCHANGED <<container, account, password, roles, decided, raced, cut>>

\* The form asks for a role and whether the account is active: the last active
\* administrator is neither demoted nor disabled.
CheckLastAdmin(r, role, active) ==
    /\ InFlight(r, "role", "read")
    /\ LET q == request[r] IN
        request' = [request EXCEPT ![r] =
            IF q.wasAdmin /\ (role # "admin" \/ ~ active) /\ ActiveAdmins \subseteq {q.of}
            THEN NoRequest
            ELSE [q EXCEPT !.at = "checked", !.role = role, !.active = active]]
    /\ UNCHANGED <<container, account, password, roles, decided, raced, cut>>

\* form.save writes all fields of the row, the password it read included.
SaveUser(r) ==
    /\ InFlight(r, "role", "checked")
    /\ LET q == request[r] IN
        /\ account' = [account EXCEPT ![q.of] = State(q.active)]
        /\ password' = [password EXCEPT ![q.of] = q.password]
        /\ decided' = [decided EXCEPT ![q.of].active = q.active]
        /\ Saves(r, [q EXCEPT !.at = "saved"])
    /\ UNCHANGED roles

\* Fault: the old role is kept.
KeepsGroups(r) ==
    /\ InFlight(r, "role", "saved")
    /\ Saves(r, [request[r] EXCEPT !.at = "cleared"])
    /\ UNCHANGED <<account, password, roles, decided>>

\* user.groups.clear()
ClearGroups(r) ==
    /\ InFlight(r, "role", "saved")
    /\ roles' = [roles EXCEPT ![request[r].of] = {}]
    /\ Saves(r, [request[r] EXCEPT !.at = "cleared"])
    /\ UNCHANGED <<account, password, decided>>

\* Fault: the group is created by the label of the choice.
AddsLabel(r) ==
    /\ InFlight(r, "role", "cleared")
    /\ roles' = [roles EXCEPT ![request[r].of] = @ \cup {"Admin"}]
    /\ Saves(r, NoRequest)
    /\ UNCHANGED <<account, password, decided>>

\* user.groups.add(), also the second half of user_create.
AddGroup(r) ==
    /\ InFlight(r, "role", "cleared")
    /\ roles' = [roles EXCEPT ![request[r].of] = @ \cup {request[r].role}]
    /\ Saves(r, NoRequest)
    /\ UNCHANGED <<account, password, decided>>

\* user_password by an administrator, password_change by the user.
ReadForPassword(r, u) ==
    /\ container = "running"
    /\ account[u] = "active" \/ (account[u] = "disabled" /\ MayAdminister)
    /\ decided[u].password < MaxPasswords
    /\ Begin(r, [NoRequest EXCEPT !.what = "password", !.of = u, !.at = "read",
                                  !.active = account[u] = "active"])

\* Fault: a new password unlocks the account.
SavesPasswordActive(r) ==
    /\ InFlight(r, "password", "read")
    /\ LET q == request[r]
           new == decided[q.of].password + 1
       IN  /\ new <= MaxPasswords
           /\ account' = [account EXCEPT ![q.of] = "active"]
           /\ password' = [password EXCEPT ![q.of] = new]
           /\ decided' = [decided EXCEPT ![q.of].password = new]
           /\ Saves(r, NoRequest)
    /\ UNCHANGED roles

\* SetPasswordForm.save writes all fields of the row, is_active as it was read included.
SavePassword(r) ==
    /\ InFlight(r, "password", "read")
    /\ LET q == request[r]
           new == decided[q.of].password + 1
       IN  /\ new <= MaxPasswords
           /\ account' = [account EXCEPT ![q.of] = State(q.active)]
           /\ password' = [password EXCEPT ![q.of] = new]
           /\ decided' = [decided EXCEPT ![q.of].password = new]
           /\ Saves(r, NoRequest)
    /\ UNCHANGED roles

-----------------------------------------------------------------------------
(* Deaths and starts.                                                      *)

Halfway(r) == request[r].at \in {"saved", "cleared"}

\* A gunicorn process dies with the request.
RequestDies(r) ==
    /\ request[r] # NoRequest
    /\ request' = [request EXCEPT ![r] = NoRequest]
    /\ cut' = (cut \/ Halfway(r))
    /\ UNCHANGED <<container, account, password, roles, decided, raced>>

\* The container stops anywhere and docker starts it again.
ContainerStops ==
    /\ container' = "starting"
    /\ request' = [r \in Requests |-> NoRequest]
    /\ cut' = (cut \/ container = "created" \/ \E r \in Requests : Halfway(r))
    /\ UNCHANGED <<account, password, roles, decided, raced>>

\* bootstrap: with an administrator, disabled or not, there is nothing to do; without,
\* the account is created, which fails if the name is taken.
Bootstrap ==
    /\ container = "starting"
    /\ IF \E u \in Users : "admin" \in roles[u]
       THEN container' = "running" /\ UNCHANGED <<account, password, decided>>
       ELSE IF account[Boss] # "absent"
       THEN container' = "failed" /\ UNCHANGED <<account, password, decided>>
       ELSE /\ container' = "created"
            /\ account' = [account EXCEPT ![Boss] = "active"]
            /\ password' = [password EXCEPT ![Boss] = 0]
            /\ decided' = [decided EXCEPT ![Boss] = Decision(TRUE, 0)]
    /\ UNCHANGED <<roles, request, raced, cut>>

\* Fault: the account is left without its role.
BootstrapForgets ==
    /\ container = "created"
    /\ container' = "running"
    /\ UNCHANGED <<account, password, roles, request, decided, raced, cut>>

\* The account is given its role, and the services start.
BootstrapAdds ==
    /\ container = "created"
    /\ roles' = [roles EXCEPT ![Boss] = @ \cup {"admin"}]
    /\ container' = "running"
    /\ UNCHANGED <<account, password, request, decided, raced, cut>>

\* restart: unless-stopped
Restart ==
    /\ container = "failed"
    /\ container' = "starting"
    /\ UNCHANGED <<account, password, roles, request, decided, raced, cut>>

-----------------------------------------------------------------------------
\* The first start, with an empty database.
Init ==
    /\ container = "starting"
    /\ account = [u \in Users |-> "absent"]
    /\ password = [u \in Users |-> 0]
    /\ roles = [u \in Users |-> {}]
    /\ request = [r \in Requests |-> NoRequest]
    /\ decided = [u \in Users |-> Decision(FALSE, 0)]
    /\ raced = FALSE /\ cut = FALSE

Starts == Bootstrap \/ BootstrapAdds \/ Restart

Next ==
    \/ \E r \in Requests :
        \/ \E u \in Users, role \in Roles, active \in BOOLEAN :
            CreateUser(r, u, role, active)
        \/ \E u \in Users : ReadUser(r, u) \/ ReadForPassword(r, u)
        \/ \E role \in Roles, active \in BOOLEAN : CheckLastAdmin(r, role, active)
        \/ SaveUser(r) \/ ClearGroups(r) \/ AddGroup(r) \/ SavePassword(r) \/ RequestDies(r)
    \/ Starts \/ ContainerStops

Spec == Init /\ [][Next]_vars
-----------------------------------------------------------------------------
\* Type invariant: rows, requests and histories hold values of their kinds.
TypeOK ==
    /\ container \in {"starting", "created", "failed", "running"}
    /\ account \in [Users -> {"absent", "active", "disabled"}]
    /\ password \in [Users -> 0..MaxPasswords]
    /\ roles \in [Users -> SUBSET Roles]
    /\ request \in [Requests ->
           [what : {"none", "role", "password"}, of : Users,
            at : {"none", "read", "checked", "saved", "cleared"}, role : Roles,
            active : BOOLEAN, password : 0..MaxPasswords, wasAdmin : BOOLEAN, stale : BOOLEAN]]
    /\ decided \in [Users -> [active : BOOLEAN, password : 0..MaxPasswords]]
    /\ raced \in BOOLEAN /\ cut \in BOOLEAN

BeingSaved(u) == \E r \in Requests : Halfway(r) /\ request[r].of = u
Disturbed == raced \/ cut

\* The system that serves requests has an administrator who can log in, whatever edits,
\* passwords, creations and restarts follow one another, as long as no request saves
\* over what another one has saved since it began, and none dies between its saves.
AdminRemains ==
    container = "running" /\ ~ Disturbed =>
        ActiveAdmins # {} \/ \E u \in Users : BeingSaved(u)

\* Under the same condition every account has exactly one role.
OneRole ==
    container = "running" /\ ~ Disturbed =>
        \A u \in Users : account[u] # "absent" /\ ~ BeingSaved(u) => Cardinality(roles[u]) = 1

\* A disabled account stays disabled and a new password stays the password, unless a
\* request saved a row of an older reading over it.
DecisionsHold ==
    ~ raced => \A u \in Users : account[u] # "absent" =>
        /\ account[u] = State(decided[u].active)
        /\ password[u] = decided[u].password

\* The bootstrap fails, and with it every later start, only in a system a death or a lost
\* update has left without administrators.
StartsUndisturbed == container = "failed" => Disturbed
=============================================================================
