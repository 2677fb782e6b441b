------------------------------- MODULE Dashboard -------------------------------
(***************************************************************************)
(* The accounts of the dashboard (server/internal/dashboard: auth.go,      *)
(* rbac.go, server.go, store_sqlite.go).  AuthManager keeps the accounts   *)
(* and the tokens in memory; the store has a table of accounts that        *)
(* NewServer loads.  The handlers run concurrently: a login compares the   *)
(* password outside the lock, a request carries the role the middleware    *)
(* gave it to its handler.  The ID of an account is its username, but for  *)
(* the administrator the first start creates (SeedId, "admin-1").         *)
(***************************************************************************)
EXTENDS FiniteSets

CONSTANTS
  Names,      \* usernames
  Admin,      \* DefaultAdmin
  SeedId,     \* the ID of the account NewAuthManager makes
  Requests,   \* handler goroutines
  Absent      \* no account

\* What the constants must satisfy; the MC module assumes it.
AdminAssumption == Admin \in Names /\ SeedId \notin Names
Ids == Names \cup {SeedId}
Roles == {"admin", "viewer"}

VARIABLES
  up,         \* the server runs
  users,      \* AuthManager.users: the role of an account, or Absent
  seeded,     \* the account Admin is the one with the ID SeedId
  rows,       \* dash_users of the store; Admin's row has the ID SeedId
  tokens,     \* AuthManager.tokens: the role in the token of an ID, or Absent
  request,    \* request[r]: a login or an API request on its way
  audited,    \* the last action the audit log has
  done        \* history: for every name, what the last request about it did

accounts == <<users, seeded>>
vars == <<up, accounts, rows, tokens, request, audited, done>>

Idle == [pc |-> "idle", user |-> Admin, id |-> Admin, role |-> "viewer", fresh |-> FALSE]
Nothing == [n \in Names |-> Absent]

TypeOK ==
  /\ up \in BOOLEAN
  /\ users \in [Names -> Roles \cup {Absent}]
  /\ rows \in [Names -> Roles \cup {Absent}]
  /\ seeded \in BOOLEAN
  /\ tokens \in [Ids -> Roles \cup {Absent}]
  /\ request \in [Requests -> [pc : {"idle", "login", "allowed"}, user : Names,
                               id : Ids, role : Roles, fresh : BOOLEAN]]
  /\ audited \in {"none", "create", "update", "delete"}
  /\ done \in [Names -> {"none", "created", "updated", "deleted"}]

Init ==
  /\ up = FALSE
  /\ users = Nothing /\ rows = Nothing /\ seeded = FALSE
  /\ tokens = [i \in Ids |-> Absent]
  /\ request = [r \in Requests |-> Idle]
  /\ audited = "none"
  /\ done = [n \in Names |-> "none"]

\* syncAuthUsers: the accounts of the store, or the default administrator,
\* which is saved.
Loaded == IF rows = Nothing THEN [Nothing EXCEPT ![Admin] = "admin"] ELSE rows

Start ==
  /\ ~up
  /\ up' = TRUE
  /\ users' = Loaded /\ seeded' = TRUE
  /\ rows' = Loaded
  /\ UNCHANGED <<tokens, request, audited, done>>

\* The process ends, with everything in memory.
Stop ==
  /\ up
  /\ up' = FALSE
  /\ users' = Nothing /\ seeded' = FALSE
  /\ tokens' = [i \in Ids |-> Absent]
  /\ request' = [r \in Requests |-> Idle]
  /\ UNCHANGED <<rows, audited, done>>

-------------------------------------------------------------------------------
At(r, pc) == up /\ request[r].pc = pc
IdOf(name) == IF name = Admin /\ seeded THEN SeedId ELSE name

\* What a change of the account to the role (or Absent) does to the requests
\* about it: a login reads the account it found again, an authenticated request
\* goes on with the role it was given.
Noticed(name, role) ==
  [r \in Requests |->
     IF request[r].user # name THEN request[r]
     ELSE IF request[r].pc = "login" /\ request[r].fresh /\ role # Absent
          THEN [pc |-> "login", user |-> name, id |-> request[r].id, role |-> role,
                fresh |-> TRUE]
          ELSE [pc |-> request[r].pc, user |-> name, id |-> request[r].id,
                role |-> request[r].role, fresh |-> FALSE]]

\* Login reads the account, compares the password outside the lock ...
LoginRead(r, name) ==
  /\ At(r, "idle") /\ users[name] # Absent
  /\ request' = [request EXCEPT ![r] = [pc |-> "login", user |-> name, id |-> IdOf(name),
                                        role |-> users[name], fresh |-> TRUE]]
  /\ UNCHANGED <<up, accounts, rows, tokens, audited, done>>

\* ... and keeps a token with the role the account has by then.
LoginDone(r) ==
  /\ At(r, "login")
  /\ tokens' = [tokens EXCEPT ![request[r].id] = request[r].role]
  /\ request' = [request EXCEPT ![r] = Idle]
  /\ UNCHANGED <<up, accounts, rows, audited, done>>

WrongPassword(r) ==
  /\ At(r, "login")
  /\ request' = [request EXCEPT ![r] = Idle]
  /\ UNCHANGED <<up, accounts, rows, tokens, audited, done>>

TokenExpires(id) ==
  /\ up /\ tokens[id] # Absent
  /\ tokens' = [tokens EXCEPT ![id] = Absent]
  /\ UNCHANGED <<up, accounts, rows, request, audited, done>>

\* Mutant: the role the token was issued with.
RoleOfToken(name) == tokens[IdOf(name)]

\* ValidateToken: the role a request is given is the account's, not the token's.
RoleOf(name) == users[name]

\* AuthMiddleware and rbacMiddleware; a refused request changes nothing.
Authenticate(r, name) ==
  /\ At(r, "idle") /\ tokens[IdOf(name)] # Absent /\ users[name] # Absent
  /\ request' = [request EXCEPT ![r] = [pc |-> "allowed", user |-> name, id |-> IdOf(name),
                                        role |-> RoleOf(name), fresh |-> TRUE]]
  /\ UNCHANGED <<up, accounts, rows, tokens, audited, done>>

\* rolePermissions: users are the administrator's to write and delete.
MayWriteUsers(r) == At(r, "allowed") /\ request[r].role = "admin"

Reply(r) ==
  /\ At(r, "allowed")
  /\ request' = [request EXCEPT ![r] = Idle]
  /\ UNCHANGED <<up, accounts, rows, tokens, audited, done>>

Finish(r, name, action, what) ==
  /\ request' = [Noticed(name, users'[name]) EXCEPT ![r] = Idle]
  /\ audited' = action
  /\ done' = [done EXCEPT ![name] = what]
  /\ UNCHANGED <<up, rows, tokens>>

CreateUser(r, name, role) ==
  /\ MayWriteUsers(r) /\ users[name] = Absent
  /\ users' = [users EXCEPT ![name] = role]
  /\ seeded' = (seeded /\ name # Admin)
  /\ Finish(r, name, "create", "created")

\* An account that is not there is reported updated, and audited.
UpdateUserRole(r, name, role) ==
  /\ MayWriteUsers(r)
  /\ users' = [users EXCEPT ![name] = IF @ = Absent THEN Absent ELSE role]
  /\ UNCHANGED seeded
  /\ Finish(r, name, "update", IF users[name] = Absent THEN done[name] ELSE "updated")

\* "Cannot delete yourself": the caller's ID is compared with the username.
DeleteUser(r, name) ==
  /\ MayWriteUsers(r) /\ request[r].id # name
  /\ users' = [users EXCEPT ![name] = Absent]
  /\ UNCHANGED seeded
  /\ Finish(r, name, "delete", "deleted")

-------------------------------------------------------------------------------
Next ==
  \/ Start \/ Stop
  \/ \E i \in Ids : TokenExpires(i)
  \/ \E r \in Requests :
       \/ \E n \in Names : LoginRead(r, n) \/ Authenticate(r, n) \/ DeleteUser(r, n)
       \/ \E n \in Names, role \in Roles : CreateUser(r, n, role) \/ UpdateUserRole(r, n, role)
       \/ LoginDone(r) \/ WrongPassword(r) \/ Reply(r)

Spec == Init /\ [][Next]_vars

-------------------------------------------------------------------------------
\* A changed role takes effect at once: a request authenticated after the last
\* change of its account, whenever its token was issued, has the role the
\* account has (Login, UpdateUserRole, ValidateToken, AuthMiddleware).
RoleIsCurrent ==
  \A r \in Requests :
    At(r, "allowed") /\ request[r].fresh => request[r].role = users[request[r].user]

\* What was created stays and what was deleted stays away, across restarts
\* (NewServer: the store is loaded so that a restart does not lose the state of
\* the accounts).
AccountsSurvive ==
  up => \A n \in Names : /\ done[n] = "created" => users[n] # Absent
                         /\ done[n] = "deleted" => users[n] = Absent
===============================================================================
