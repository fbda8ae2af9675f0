------------------------------- MODULE Accounts -------------------------------
(***************************************************************************)
(* Users, login sessions and the directory: auth.Service with its local    *)
(* and LDAP providers and its rate limiter, the user and LDAP operations   *)
(* of admin.Service, and the handlers that call them.                      *)
(*                                                                         *)
(* Several requests are served at once.  A statement or a transaction of   *)
(* the database, a section under the limiter's mutex and an exchange with  *)
(* the directory are one step each; between two of them every other        *)
(* request may run.  The transaction that stores a login session is two    *)
(* steps, since at READ COMMITTED its first statement does not see the     *)
(* row that another open transaction is about to insert.                   *)
(***************************************************************************)
EXTENDS Naturals, Sequences, FiniteSets

CONSTANTS Names,             \* canonical user names
          BootstrapAdmin,    \* ACCESSD_DEV_ADMIN_USERNAME
          Passwords,
          NoPassword,        \* an empty password_hash; a name not in the directory
          BootstrapPassword, \* ACCESSD_DEV_ADMIN_PASSWORD
          MappedRoles,       \* what a valid group_role_mapping gives a directory user
          StartupConfig,     \* the configuration Service.provider is built from
          Requests,          \* requests the HTTP server handles at once
          LoginInputs,       \* the logins clients try: name, form and password
          SettingsTried,     \* the LDAP settings administrators choose from
          DirectoriesTried,  \* what the directory may hold
          InitialSettings,
          InitialDirectory,
          Window,            \* limiter window, in ticks
          MaxAttempts,       \* limiter threshold
          MaxSessions,       \* bound: live auth_sessions rows
          MaxEdits           \* bound: changes by administrators, users and operators

\* ensureDefaultRoles; operators and auditors do not differ from users here.
Roles == {"admin", "user"}

\* How a name is typed: as stored, with other case, or with its domain.
Forms == {"exact", "case", "qualified"}

Modes == {"local", "ldap", "hybrid"}
Mappings == {"none", "valid", "invalid"}

\* normalizeLDAPSettings refuses another mode and an incomplete address of the
\* server, and lets any mapping through.
Settings == [mode : Modes, enabled : BOOLEAN, mapping : Mappings, deactivate : BOOLEAN]

ASSUME AccountsAssumption ==
  /\ BootstrapAdmin \in Names
  /\ BootstrapPassword \in Passwords
  /\ NoPassword \notin Passwords
  /\ MappedRoles \subseteq Roles
  /\ StartupConfig \in [mode : Modes, mapping : {"none", "valid"}]
  /\ IsFiniteSet(Requests) /\ Requests # {}
  /\ SettingsTried \subseteq Settings
  /\ DirectoriesTried \subseteq [Names -> Passwords \cup {NoPassword}]
  /\ LoginInputs \subseteq [name : Names, form : Forms, password : Passwords]
  /\ InitialSettings \in SettingsTried
  /\ InitialDirectory \in DirectoriesTried
  /\ Window \in Nat
  /\ MaxAttempts \in Nat \ {0}
  /\ MaxSessions \in Nat
  /\ MaxEdits \in Nat

VARIABLES
  users,      \* the users table with user_roles
  settings,   \* the row of ldap_settings
  directory,  \* the LDAP server: a name's password
  rows,       \* auth_sessions
  attempts,   \* LoginRateLimiter.attempts, ages in ticks, oldest first
  pc,         \* the step each request is at
  input,      \* its name and password
  cfg,        \* the settings it has read
  provider,   \* the provider it is to use
  targets,    \* the sessions its transaction revokes
  sync,       \* the entries its TriggerLDAPSync has found, and what it does to the others
  edits       \* changes made so far

request == <<pc, input, cfg, provider, targets>>
vars    == <<users, settings, directory, rows, attempts, request, sync, edits>>

-------------------------------------------------------------------------------
(* Tables and requests.                                                    *)

UserRow == [exists : BOOLEAN, provider : {"local", "ldap"}, active : BOOLEAN,
            hash : Passwords \cup {NoPassword}, roles : SUBSET Roles]

NoUser == [exists |-> FALSE, provider |-> "local", active |-> FALSE,
           hash |-> NoPassword, roles |-> {}]

\* The row syncLocalUser and upsertLDAPUserTx insert.
LDAPUser == [NoUser EXCEPT !.exists = TRUE, !.provider = "ldap", !.active = TRUE,
                           !.roles = {"user"}]

Ids == 1 .. MaxSessions

\* A row that is revoked or expired is never looked at again: its number is
\* free for another one.  during is history: the transactions of the same user,
\* still open, that were open when the row was committed.
SessionRow == [live : BOOLEAN, user : Names, during : SUBSET Requests]

Ended == [live |-> FALSE, user |-> BootstrapAdmin, during |-> {}]

LiveOf(n) == {i \in Ids : rows[i].live /\ rows[i].user = n}

Keys == Names \X {"plain", "qualified"}

\* The limiter's key is the name as typed, in lower case.
KeyOf(i) == <<i.name, IF i.form = "qualified" THEN "qualified" ELSE "plain">>

Inputs == [name : Names, form : Forms, password : Passwords]
NoInput == [name |-> BootstrapAdmin, form |-> "exact", password |-> BootstrapPassword]

Config == [mode : Modes, mapping : Mappings]
NoConfig == [mode |-> "local", mapping |-> "none"]

\* The steps of a login, once it has read the settings: the user's provider,
\* the provider itself, the user table once LDAP has accepted the password, and the session.
LoginSteps == {"lookup", "auth", "sync", "store", "commit"}

\* The steps of the others: a change of the password, an administrator's
\* request, and the search and the transaction of a synchronisation.
Steps == LoginSteps \cup {"idle", "change", "admin", "search", "apply"}

\* Requests between the limiter's check and its record of the outcome.
Trying(k) == {r \in Requests : pc[r] \in LoginSteps \ {"commit"} /\ KeyOf(input[r]) = k}

Goto(r, step) == pc' = [pc EXCEPT ![r] = step]

Forget(r) ==
  /\ input' = [input EXCEPT ![r] = NoInput]
  /\ cfg' = [cfg EXCEPT ![r] = NoConfig]
  /\ provider' = [provider EXCEPT ![r] = "local"]

\* The request is answered and forgotten.
Answer(r) == Goto(r, "idle") /\ Forget(r) /\ UNCHANGED targets

Edit == edits < MaxEdits /\ edits' = edits + 1

-------------------------------------------------------------------------------
TypeOK ==
  /\ users \in [Names -> UserRow]
  /\ settings \in Settings
  /\ directory \in [Names -> Passwords \cup {NoPassword}]
  /\ rows \in [Ids -> SessionRow]
  /\ attempts \in [Keys -> Seq(0 .. Window)]
  /\ pc \in [Requests -> Steps]
  /\ input \in [Requests -> Inputs]
  /\ cfg \in [Requests -> Config]
  /\ provider \in [Requests -> Modes]
  /\ targets \in [Requests -> SUBSET Ids]
  /\ sync \in [Requests -> [entries : SUBSET Names, deactivate : BOOLEAN]]
  /\ edits \in 0 .. MaxEdits

NoSync == [entries |-> {}, deactivate |-> FALSE]

\* Bootstrap: the roles, the administrator (created; or, when local or
\* without a hash, given the configured password), and its admin role.
Bootstrapped(u) ==
  LET keep == u.exists /\ u.hash # NoPassword /\ u.provider # "local"
      row  == IF ~u.exists
              THEN [NoUser EXCEPT !.exists = TRUE, !.active = TRUE, !.hash = BootstrapPassword]
              ELSE IF keep THEN u
              ELSE [u EXCEPT !.hash = BootstrapPassword, !.provider = "local"]
  IN  [row EXCEPT !.roles = @ \cup {"admin"}]

\* The server has started on a new database, and LDAP has been configured.
Init ==
  /\ users = [n \in Names |-> IF n = BootstrapAdmin THEN Bootstrapped(NoUser) ELSE NoUser]
  /\ settings = InitialSettings
  /\ directory = InitialDirectory
  /\ rows = [i \in Ids |-> Ended]
  /\ attempts = [k \in Keys |-> <<>>]
  /\ pc = [r \in Requests |-> "idle"]
  /\ input = [r \in Requests |-> NoInput]
  /\ cfg = [r \in Requests |-> NoConfig]
  /\ provider = [r \in Requests |-> "local"]
  /\ targets = [r \in Requests |-> {}]
  /\ sync = [r \in Requests |-> NoSync]
  /\ edits = 0

-------------------------------------------------------------------------------
(* The rate limiter; every operation is a section under its mutex.         *)

\* Mutant: nothing is dropped.
MPruned(q) == q

\* pruneLockedUnsafe drops entries from the front up to the first one that is
\* within the window.  Every operation on a key, and Cleanup on all, does so
\* before it looks at the entries, so attempts only keeps those within the window.
Pruned(q) ==
  LET start == CHOOSE s \in 0 .. Len(q) : /\ \A i \in 1 .. s : q[i] > Window
                                          /\ s < Len(q) => q[s + 1] <= Window
  IN  SubSeq(q, start + 1, Len(q))

\* Mutant: one more failure is let through.
MBlocked(k) == Len(attempts[k]) > MaxAttempts

Blocked(k) == Len(attempts[k]) >= MaxAttempts

RecordFailure(k) == attempts' = [attempts EXCEPT ![k] = Append(@, 0)]

Reset(k) == attempts' = [attempts EXCEPT ![k] = <<>>]

Tick ==
  /\ \E k \in Keys : attempts[k] # <<>>
  /\ attempts' = [k \in Keys |-> Pruned([i \in DOMAIN attempts[k] |-> attempts[k][i] + 1])]
  /\ UNCHANGED <<users, settings, directory, rows, request, sync, edits>>

-------------------------------------------------------------------------------
(* LoginWithContext.                                                       *)

\* resolveAuthConfigFromAdmin: a mode only counts when LDAP is enabled.
ResolvedConfig == [mode |-> IF settings.enabled THEN settings.mode ELSE "local",
                   mapping |-> settings.mapping]

\* A login that is not blocked reads the settings (the two commute with all
\* that others do in between).  When the query fails the provider of the
\* environment is used and the user is not looked up.
ResolveAuthConfig(r, i) ==
  /\ pc[r] = "idle"
  /\ ~Blocked(KeyOf(i))
  /\ input' = [input EXCEPT ![r] = i]
  /\ \/ /\ cfg' = [cfg EXCEPT ![r] = ResolvedConfig]
        /\ Goto(r, "lookup")
        /\ UNCHANGED provider
     \/ /\ cfg' = [cfg EXCEPT ![r] = StartupConfig]
        /\ provider' = [provider EXCEPT ![r] = StartupConfig.mode]
        /\ Goto(r, "auth")
  /\ UNCHANGED <<users, settings, directory, rows, attempts, targets, sync, edits>>

\* Mutant: a login that is blocked is recorded as a failure too.
MRejectBlocked(r, i) ==
  /\ pc[r] = "idle"
  /\ Blocked(KeyOf(i))
  /\ attempts' = [attempts EXCEPT ![KeyOf(i)] = Append(Tail(@), 0)]
  /\ UNCHANGED <<users, settings, directory, rows, request, sync, edits>>

\* A login that is blocked is answered at once.
RejectBlocked(r, i) ==
  /\ pc[r] = "idle"
  /\ Blocked(KeyOf(i))
  /\ UNCHANGED vars

\* lookupMappedAuthProvider compares names without case; a qualified name is
\* no user's.
MappedProvider(i) ==
  IF i.form # "qualified" /\ users[i.name].exists THEN users[i.name].provider ELSE "none"

\* parseGroupRoleMapping; NewLDAPProvider fails when it does.
MappingParses(mapping) == mapping # "invalid"

\* resolveProviderForLogin: the user's own provider, else the mode's, and the
\* local one whenever the LDAP provider cannot be built.
ProviderFor(mapped, c) ==
  LET wanted == IF mapped = "none" THEN c.mode ELSE mapped
  IN  IF MappingParses(c.mapping) THEN wanted ELSE "local"

\* A lookup that fails counts as a name that is not mapped.
LookupProvider(r) ==
  /\ pc[r] = "lookup"
  /\ \E mapped \in {MappedProvider(input[r]), "none"} :
       provider' = [provider EXCEPT ![r] = ProviderFor(mapped, cfg[r])]
  /\ Goto(r, "auth")
  /\ UNCHANGED <<users, settings, directory, rows, attempts, input, cfg, targets, sync, edits>>

\* A provider accepted the login.
Accepted(r) ==
  /\ Goto(r, "store")
  /\ cfg' = [cfg EXCEPT ![r] = NoConfig]
  /\ provider' = [provider EXCEPT ![r] = "local"]
  /\ UNCHANGED <<attempts, input, targets>>

\* A provider refused the login; LDAP's refusal is final unless the provider
\* is the hybrid one, which goes on with the local provider.
Refused(r) ==
  IF provider[r] = "hybrid"
  THEN /\ provider' = [provider EXCEPT ![r] = "local"]
       /\ Goto(r, "auth")
       /\ UNCHANGED <<attempts, input, cfg, targets>>
  ELSE RecordFailure(KeyOf(input[r])) /\ Answer(r)

\* lookupUser: the entry is searched by the name as typed, by the part without
\* its domain, and without regard to case.
EntryOf(i) == directory[i.name]

\* LDAPProvider.Authenticate, up to the group search: any exchange may fail.
AuthenticateLDAP(r) ==
  /\ pc[r] = "auth" /\ provider[r] # "local"
  /\ \/ /\ EntryOf(input[r]) = input[r].password
        /\ Goto(r, "sync")
        /\ UNCHANGED <<attempts, input, cfg, provider, targets>>
     \/ Refused(r)
  /\ UNCHANGED <<users, settings, directory, rows, sync, edits>>

\* resolveMappedRoles.
RolesFor(mapping) == IF mapping = "valid" THEN MappedRoles ELSE {}

\* syncLocalUser on the row it finds under the directory's name.
SyncedUser(u, mapping) ==
  LET row == IF u.exists THEN [u EXCEPT !.provider = "ldap", !.active = TRUE] ELSE LDAPUser
  IN  [row EXCEPT !.roles = @ \cup RolesFor(mapping)]

\* The transaction commits, or it fails and the provider has refused.
SyncLocalUser(r) ==
  /\ pc[r] = "sync"
  /\ \/ /\ users' = [users EXCEPT ![input[r].name] = SyncedUser(@, cfg[r].mapping)]
        /\ Accepted(r)
     \/ Refused(r) /\ UNCHANGED users
  /\ UNCHANGED <<settings, directory, rows, sync, edits>>

\* LocalProvider.Authenticate finds an active local user of exactly this name;
\* a query that fails is a refusal like any other.
AuthenticateLocal(r) ==
  LET u == users[input[r].name]
      accepted == /\ input[r].form = "exact" /\ u.exists /\ u.active
                  /\ u.provider = "local" /\ u.hash = input[r].password
  IN  /\ pc[r] = "auth" /\ provider[r] = "local"
      /\ (accepted /\ Accepted(r)) \/ Refused(r)
      /\ UNCHANGED <<users, settings, directory, rows, sync, edits>>

\* Mutant: earlier sessions are left alone.
MBeginSession(r) ==
  /\ pc[r] = "store"
  /\ Reset(KeyOf(input[r]))
  /\ Goto(r, "commit")
  /\ UNCHANGED <<users, settings, directory, rows, input, cfg, provider, targets, sync, edits>>

\* The limiter is reset; storeSession begins its transaction and revokes the
\* sessions it sees.  Nothing of it shows before the commit.
BeginSession(r) ==
  /\ pc[r] = "store"
  /\ Reset(KeyOf(input[r]))
  /\ targets' = [targets EXCEPT ![r] = LiveOf(input[r].name)]
  /\ Goto(r, "commit")
  /\ UNCHANGED <<users, settings, directory, rows, input, cfg, provider, sync, edits>>

\* The rows once r's transaction is over.
Without(r) == [i \in Ids |-> [rows[i] EXCEPT !.during = @ \ {r}]]

\* The transactions of r's user that are open beside its own.
Beside(r) == {q \in Requests \ {r} : pc[q] = "commit" /\ input[q].name = input[r].name}

\* storeSession inserts its row and commits.
CommitSession(r) ==
  LET left == [i \in Ids |-> IF i \in targets[r] THEN Ended ELSE Without(r)[i]] IN
  /\ pc[r] = "commit"
  /\ \E i \in Ids :
       /\ ~left[i].live
       /\ \A j \in Ids : j < i => left[j].live
       /\ rows' = [left EXCEPT ![i] = [live |-> TRUE, user |-> input[r].name,
                                        during |-> Beside(r)]]
  /\ targets' = [q \in Requests |-> IF q = r THEN {} ELSE targets[q] \ targets[r]]
  /\ Goto(r, "idle")
  /\ Forget(r)
  /\ UNCHANGED <<users, settings, directory, attempts, sync, edits>>

\* A statement of storeSession fails: the transaction is rolled back.
StoreFails(r) ==
  /\ pc[r] = "commit"
  /\ rows' = Without(r)
  /\ targets' = [targets EXCEPT ![r] = {}]
  /\ Goto(r, "idle")
  /\ Forget(r)
  /\ UNCHANGED <<users, settings, directory, attempts, sync, edits>>

\* Logout; or the session's TTL is over.
SessionEnds(i) ==
  /\ rows[i].live
  /\ rows' = [rows EXCEPT ![i] = Ended]
  /\ targets' = [q \in Requests |-> targets[q] \ {i}]
  /\ UNCHANGED <<users, settings, directory, attempts, pc, input, cfg, provider, sync, edits>>

-------------------------------------------------------------------------------
(* Requests of users and administrators.                                   *)

\* ResolveCurrentUser: the session is live and its user is active.
ResolveCurrentUser(i) == rows[i].live /\ users[rows[i].user].active

\* The middleware of every endpoint that needs a user, or one of a role.
Authenticated(i) == ResolveCurrentUser(i)

RequireRoles(i, allowed) == Authenticated(i) /\ users[rows[i].user].roles \cap allowed # {}

\* A change of the password begins: a local user gives the present one.
ChangeBegins(r, i, new) ==
  LET n == rows[i].user IN
  /\ pc[r] = "idle" /\ Edit
  /\ Authenticated(i)
  /\ users[n].provider = "local" /\ users[n].hash # NoPassword
  /\ Goto(r, "change")
  /\ input' = [input EXCEPT ![r] = [name |-> n, form |-> "exact", password |-> new]]
  /\ UNCHANGED <<users, settings, directory, rows, attempts, cfg, provider, targets, sync>>

\* ChangePassword's UPDATE is by id alone.
ChangePassword(r) ==
  /\ pc[r] = "change"
  /\ users' = [users EXCEPT ![input[r].name].hash = input[r].password]
  /\ Answer(r)
  /\ UNCHANGED <<settings, directory, rows, attempts, sync, edits>>

\* An administrator's request has passed the middleware; its handler follows.
AdminBegins(r, i) ==
  /\ pc[r] = "idle" /\ Edit
  /\ RequireRoles(i, {"admin"})
  /\ Goto(r, "admin")
  /\ UNCHANGED <<users, settings, directory, rows, attempts, input, cfg, provider, targets,
                 sync>>

\* admin.Service: what each operation makes of a user's row.
CreatedUser(pw)    == [NoUser EXCEPT !.exists = TRUE, !.active = TRUE, !.hash = pw]
WithActive(u, b)   == [u EXCEPT !.active = b]
WithHash(u, pw)    == [u EXCEPT !.hash = pw]
WithRole(u, role)  == [u EXCEPT !.roles = @ \cup {role}]
LessRole(u, role)  == [u EXCEPT !.roles = @ \ {role}]

\* A handler of the users table ends; a user that is missing, or that exists
\* already, is an error and leaves the table alone.
EditUser(r, n, exists, row) ==
  /\ pc[r] = "admin"
  /\ users' = IF users[n].exists = exists THEN [users EXCEPT ![n] = row] ELSE users
  /\ Answer(r)
  /\ UNCHANGED <<settings, directory, rows, attempts, sync, edits>>

CreateUser(r, n)         == \E pw \in Passwords : EditUser(r, n, FALSE, CreatedUser(pw))
SetUserActive(r, n)      == \E b \in BOOLEAN : EditUser(r, n, TRUE, WithActive(users[n], b))
ResetUserPassword(r, n)  == \E pw \in Passwords : EditUser(r, n, TRUE, WithHash(users[n], pw))
AssignRoleToUser(r, n)   == \E x \in Roles : EditUser(r, n, TRUE, WithRole(users[n], x))
RemoveRoleFromUser(r, n) == \E x \in Roles : EditUser(r, n, TRUE, LessRole(users[n], x))

\* The upsert of the one row.
UpsertLDAPSettings(r) ==
  /\ pc[r] = "admin"
  /\ settings' \in SettingsTried
  /\ Answer(r)
  /\ UNCHANGED <<users, directory, rows, attempts, sync, edits>>

-------------------------------------------------------------------------------
(* TriggerLDAPSync; nothing keeps two requests from it at once.            *)

\* The settings are read.  The ldap_sync_runs row, which nothing else reads, is
\* left out.
SyncBegins(r) ==
  /\ pc[r] = "admin"
  /\ settings.enabled
  /\ Goto(r, "search")
  /\ sync' = [sync EXCEPT ![r].deactivate = settings.deactivate]
  /\ UNCHANGED <<users, settings, directory, rows, attempts, input, cfg, provider, targets,
                 edits>>

SyncEnds(r) == sync' = [sync EXCEPT ![r] = NoSync] /\ Answer(r)

\* searchLDAPUsers.
SearchLDAPUsers == {n \in Names : directory[n] # NoPassword}

\* dial, bind and search; an empty answer counts as a failure.
SyncSearch(r) ==
  /\ pc[r] = "search"
  /\ \/ /\ SearchLDAPUsers # {}
        /\ sync' = [sync EXCEPT ![r].entries = SearchLDAPUsers]
        /\ Goto(r, "apply")
        /\ UNCHANGED <<input, cfg, provider, targets>>
     \/ SyncEnds(r)
  /\ UNCHANGED <<users, settings, directory, rows, attempts, edits>>

UpsertLDAPUserTx(u) ==
  IF u.exists THEN [u EXCEPT !.provider = "ldap", !.active = TRUE] ELSE LDAPUser

\* Mutant: the provider of the user is not looked at.
MDeactivateMissingLDAPUsersTx(u) == IF u.exists THEN [u EXCEPT !.active = FALSE] ELSE u

DeactivateMissingLDAPUsersTx(u) ==
  IF u.exists /\ u.provider = "ldap" THEN [u EXCEPT !.active = FALSE] ELSE u

\* syncLDAPUsers, in one transaction: the entries of the search, then the rest.
SyncedBy(r, n) ==
  IF n \in sync[r].entries THEN UpsertLDAPUserTx(users[n])
  ELSE IF sync[r].deactivate THEN DeactivateMissingLDAPUsersTx(users[n])
  ELSE users[n]

\* The transaction commits, or fails, or is cancelled with its request.
SyncApply(r) ==
  /\ pc[r] = "apply"
  /\ \/ users' = [n \in Names |-> SyncedBy(r, n)]
     \/ UNCHANGED users
  /\ SyncEnds(r)
  /\ UNCHANGED <<settings, directory, rows, attempts, edits>>

-------------------------------------------------------------------------------
(* The environment.                                                        *)

DirectoryChanges ==
  /\ Edit
  /\ directory' \in DirectoriesTried
  /\ UNCHANGED <<users, settings, rows, attempts, request, sync>>

\* The server dies and starts again: requests and limiter are gone, open
\* transactions roll back, and Bootstrap runs.
Restart ==
  /\ Edit
  /\ users' = [users EXCEPT ![BootstrapAdmin] = Bootstrapped(@)]
  /\ attempts' = [k \in Keys |-> <<>>]
  /\ pc' = [r \in Requests |-> "idle"]
  /\ input' = [r \in Requests |-> NoInput]
  /\ cfg' = [r \in Requests |-> NoConfig]
  /\ provider' = [r \in Requests |-> "local"]
  /\ targets' = [r \in Requests |-> {}]
  /\ sync' = [r \in Requests |-> NoSync]
  /\ rows' = [i \in Ids |-> [rows[i] EXCEPT !.during = {}]]
  /\ UNCHANGED <<settings, directory>>

Login(r) ==
  \/ \E i \in LoginInputs : RejectBlocked(r, i) \/ ResolveAuthConfig(r, i)
  \/ LookupProvider(r)
  \/ AuthenticateLDAP(r) \/ SyncLocalUser(r) \/ AuthenticateLocal(r)
  \/ BeginSession(r) \/ CommitSession(r) \/ StoreFails(r)

Admin(r) ==
  \/ \E i \in Ids : AdminBegins(r, i)
  \/ \E n \in Names : \/ CreateUser(r, n) \/ SetUserActive(r, n) \/ ResetUserPassword(r, n)
                       \/ AssignRoleToUser(r, n) \/ RemoveRoleFromUser(r, n)
  \/ UpsertLDAPSettings(r)
  \/ SyncBegins(r) \/ SyncSearch(r) \/ SyncApply(r)

Next ==
  \/ \E r \in Requests : \/ Login(r) \/ Admin(r) \/ ChangePassword(r)
                         \/ \E i \in Ids, pw \in Passwords : ChangeBegins(r, i, pw)
  \/ \E i \in Ids : SessionEnds(i)
  \/ DirectoryChanges
  \/ Tick \/ Restart

\* Time passes, whatever the requests do.
Spec == Init /\ [][Next]_vars /\ WF_vars(Tick)

-------------------------------------------------------------------------------
(* Properties.                                                             *)

\* A login that commits leaves no session of its user alive but its own and
\* those committed while its transaction was open: its revocation cannot see
\* the row another transaction is about to insert, and sees every other one.
\* Without logins that overlap in this way a user has one session.
SessionsOverlap ==
  [][\A r \in Requests : CommitSession(r) =>
       LET unseen == {i \in LiveOf(input[r].name) : r \in rows[i].during}
           alive  == {i \in Ids : rows'[i].live /\ rows'[i].user = input[r].name}
       IN  \A i, j \in alive \ unseen : i = j]_vars

\* The limiter is asked before the password is tried and told afterwards, so
\* logins that run at once overshoot MaxAttempts; the failures of a name within
\* the window, and the tries still under way, exceed it by the number of other
\* requests at most.
LimiterBound ==
  \A k \in Keys :
    Len(attempts[k]) + Cardinality(Trying(k)) <= MaxAttempts - 1 + Cardinality(Requests)

\* Who may change the row of a local account, in one step.
LocalAccountKept(n) ==
  users[n].exists /\ users[n].provider = "local" /\ users'[n] # users[n] =>
    \/ \E r \in Requests : pc[r] \in {"admin", "change"} /\ pc'[r] = "idle"
    \/ n = BootstrapAdmin /\ users'[n] = Bootstrapped(users[n])
    \/ /\ users'[n].provider = "ldap" /\ users'[n].active
       /\ \E r \in Requests : \/ pc[r] = "apply" /\ n \in sync[r].entries
                              \/ pc[r] = "sync" /\ input[r].name = n

\* A local account is the way in when the directory is not.  Its row changes
\* when an administrator or its own user changes it, when the server starts
\* again, and when the directory presents an entry of its name: a sync or a
\* login under its qualified name turns it into an LDAP account, whatever the
\* mode.  A sync never deactivates it.
LocalAccountsKept == [][\A n \in Names : LocalAccountKept(n)]_vars

\* A name that is locked out is let in again once the window has passed, however
\* often it is tried meanwhile: a try that is refused at once is not a failure.
LockoutEnds == \A i \in LoginInputs : Blocked(KeyOf(i)) ~> ~Blocked(KeyOf(i))

===============================================================================
