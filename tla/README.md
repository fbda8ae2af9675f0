# AccessD: a TLA+ model of the gateway and its connector

AccessD is an infrastructure access gateway. Users launch sessions through an HTTP API; a
connector on their machine starts a native client; the client talks to a proxy inside the API
process, which logs in to the target with a credential the user never sees. Every session has
a row, a timeline and an audit trail. This directory models the parts of that system where
concurrent writers, partial failures, crashes and shutdown make it hard to be right: the life of a
session row, accounts and logins, assets and grants, the server process, the proxies and what they
record, and the connector on the user's machine.

## 1. Inventory

All paths are under `src/`; "`sessions`" is `apps/api/internal/sessions`, and so on.

| Component | State | Operations | Meets | What makes it correct |
|---|---|---|---|---|
| `sessions/service.go` | rows of `sessions` (status, `started_at`, `ended_at`), append-only `session_events` and `audit_events`, all in PostgreSQL | `CreateLaunch`, `ResolveLaunchToken`, `RecordConnectorLaunchEvent`, `FailUnmaterializedConnectorLaunches`, the `Mark*` calls, `RecordCredentialUsage` | handlers, sweeper, every proxy | the row is well formed, finished stays finished, logs are in order |
| `handlers/sessions.go` | none | `Launch`, `RecordEvent`, reviews, exports | sessions, credentials, proxies | a launch that fails leaves nothing usable |
| sweeper (`cmd/server/main.go`) | the batch of one sweep | one sweep per tick | sessions | fails stuck launches only, and all of them |
| `sshproxy` | connections, bridges, pending SFTP requests, `known_hosts` | `authenticate`, `handleConn`, shell and SFTP bridges, `Shutdown` | sessions, credentials, upstream hosts | one final status per connection, complete recording, bounded waits |
| `pgproxy`, `mysqlproxy`, `mssqlproxy`, `redisproxy`, `mongoproxy` | listeners by session, tracked connections, a bounded log channel, `closed` | `RegisterSession`, accept loop, protocol flow, log worker, `Shutdown` | sessions, credentials, upstream databases | queries are logged in order and before they run, shutdown drains |
| `cmd/server/main.go`, `app` | services | start, ordered shutdown with one deadline | all | every service is drained |
| `auth` | users, login sessions, the limiter's windows, provider settings | `Login`, `Logout`, `ChangePassword`, the middleware, LDAP bind and mapping, `Bootstrap` | users table, LDAP | one login revokes the others, the limiter holds and lets go, the local way in survives |
| `admin` | users, roles, LDAP settings, sync runs | CRUD, LDAP sync | auth, audit | a sync never touches local accounts by itself |
| `assets`, `credentials`, `access`, `admin` | rows of assets, credentials, grants | create, update, archive, upsert, grant, revoke, check | launch handler | a deleted asset gives no access |
| `migrate` | applied versions | `Up` | start | each migration once and in order, nobody serves without |
| `apps/connector` | tracker entries, token files, DBeaver directories, FileZilla's site file, TLS files, known_hosts | launch shell/SFTP/DBeaver/Redis, prepare TLS, shell bridge | API, desktop programs, the SSH proxy | one client per launch, with its own credentials; nothing left behind |
| `apps/ui`, `packages/contracts`, `deploy`, `scripts` | none of their own | - | - | not modelled |

How they interact: the launch request inserts the row and (for databases and Redis) registers a
listener; the connector posts a report; the client connects to the proxy, whose goroutine for
that connection calls the `Mark*` operations; the sweeper runs beside them on a ticker. They
share nothing but the database: no transaction, no lock, and the guard of an `UPDATE` is the
only synchronisation. Inside a proxy service, goroutines share a mutex, two maps, a channel and
a wait group. Requests of the API share the database in the same way, each in statements of its own; several
server processes may share it too. On the user's machine, launches, bridges and connector processes
share files, again without locks.

The hard behaviours, each at its line, are the `hazards` of `PROJECT.json`.

## 2. Modules

| Module | What it is |
|---|---|
| `SessionRow` | abstract: what a row of `sessions` promises to its readers |
| `SessionLifecycle` | all writers of a row, statement by statement, with failed statements and crashes |
| `MCSessionLifecycle` | its instances |
| `SessionLifecycleProofs` | type correctness, row shape, claims, the sweeper, the audit trail |
| `SessionRowProofs` | the end of a session; `SessionLifecycle` implements `SessionRow` |
| `DatabaseProxy` | the proxy service: listeners, handlers, readers, log worker, shutdown |
| `MCDatabaseProxy` | its instances |
| `DatabaseProxyProofs` | type correctness, draining, what a log entry vouches for, the order of the log |
| `Accounts`, `MCAccounts` | logins, limiter, login sessions, administration of users, LDAP sign-in and sync |
| `AccountsProofs` | type correctness, sessions that overlap, the limiter's bound, local accounts |
| `Inventory` | assets, credentials, grants, and the launch handler's checks of them |
| `Server`, `MCServer` | the process: commands, migrations, seed, serving and stopping; composes `Inventory` |
| `ServerProofs` | type correctness, migrations, serving, the stop sequence, deleted assets |
| `Bridge` | the goroutines of an SSH bridge, an SFTP bridge and a MongoDB relay |
| `SFTPRelay` | the two parsers of the SFTP relay and their shared tables |
| `StatementLog` | what the database proxies log against what the server runs; MySQL's response phases |
| `HostKeys` | the known_hosts file of the SSH proxy and the callback built from it |
| `Relays`, `MCRelays` | these four side by side |
| `SFTPRelayProofs` | lemmas: the invariant of `SFTPRelay` and its steps |
| `RelaysProofs` | the invariants of the other relays; the theorems about all of `Relays` |
| `LocalTLS` | start of the connector and its four TLS files |
| `Launches` | the launch tracker and the launch of each kind of client |
| `ShellBridge` | the bridge command in the user's terminal and its known_hosts |
| `Connector`, `MCConnector` | these three side by side |
| `ConnectorProofs` | type correctness, one client per session, sites, TLS files, the bridges' trust |

### SessionLifecycle

One statement is one step. The row is `status`, `started`, `ended`, `action`; the logs are sets of
`<<type, session, author>>`, where the author is the connection, the report or the server that
wrote the entry (payloads are left out). Four kinds of process run over it:

- a **launch** (`lpc`): `CreateSession`, `LaunchCreated`, then `PrepareLinux`, or `PrepareProxy`
  and `RegisterSession`. `LaunchAborts` is every early return of `Launch` after `CreateLaunch`; as in the
  code, it leaves the row behind;
- a **report** (`rpc`): `ReportBegins`, `ReportEvent`, `ReportUpdate`;
- the **sweeper** (`spc`): `SweepSelect` (the batch is fixed then: the `SweepLimit` rows with the oldest report), `SweepCheck` for a row,
  `SweepUpdate` guarded by `status = 'pending'`, `SweepEvent`, `SweepAudit`, `SweepDone`;
- a **connection** (`cpc`): `Authenticate` (SSH: the token is the password) or `AcceptConn` (the session's
  own listener), `ProxyConnectedUpdate`/`Event`, `UseCredential`, `UpstreamConnected`, for a shell
  `ShellStartedUpdate`/`Event`/`Audit`, then `RelayRecords`, and finally the three steps of `MarkEnded` or
  `MarkFailed`. The one connection program covers the SSH proxy and the five database and Redis proxies:
  where the engines differ (SQL Server reports the connection before it asks for the credential; PostgreSQL
  and MySQL do not report it; Redis checks the token at AUTH) the model has the alternative as a disjunct or
  an action, guarded by the row's action.

`ConnStatementFails`, `LaunchStatementFails`, `ReportStatementFails` and `SweepStatementFails` let a statement
fail, with the consequence the code gives it (a Mark operation is given up and its caller goes on;
a request is answered with 500; a sweep returns). `CrashRestart` loses everything but the database.
Time is two sets: tokens that are `expired`, and sessions whose last success report has `aged` past the
materialization timeout; `older` is the order of the reports, which the sweep sorts by. The two can happen at any moment, so no relation between the two
durations is assumed.

Abstractions: the connector events `requested` and `failed` are only logged, so they are one value; terminal
recording (`data_in`, `data_out`, `terminal_resize`) does not concern the life of the row and is left out. The event and audit sets do not count duplicates: no property needs to.

### DatabaseProxy

The goroutines of `pgproxy`; the MySQL, SQL Server and Redis services have the same
skeleton. A section under `Service.mu` is one step, and what follows the unlock is another: this is where
`RegisterSession`/`StartServing`, `Accept`/`TrackConn`, `CheckClosed`/`SendQuery`, `ShutdownBegins`/
`CloseListeners` and `DeadlinePasses`/`CloseActiveConns` come apart. A query is `<<connection, number>>`; one whose
text the proxy does not know (an Execute of a portal that is not named like a cached statement, a function call)
is forwarded without an entry (`ReadUnlogged`). A message that runs nothing only keeps the connection from being idle and is left out, as is
the wire protocol. A send on the closed channel is a step of its own, `SendPanics`, after which nothing
happens any more. `UpstreamSilent` is the wait in `connectUpstream` that has no deadline.

### Accounts

A login is `Login` (limiter and settings, one step: nothing but time separates them), `LookupProvider`, then
`AuthenticateLocal` or `AuthenticateLDAP` and `SyncLocalUser`, then the transaction of `storeSession` in two steps,
`BeginSession` (its revocations are taken from what is committed) and `CommitSession`, or `StoreFails`. A session
remembers in `during` which transactions of its user were open when it was committed (history, for `SessionsOverlap`). The limiter's list
of an account is kept as ages, already pruned: that is what every reader of it does first. `directory` is the LDAP
server, which changes by itself. Names come as stored, in another case, or with a domain, because limiter, local
lookup and LDAP each treat them differently. An administrator's request passes the middleware in one step and
acts in another. A sync is an administrator's request and takes no lock, so several may run: it reads its settings, searches, and applies everything in one transaction, as
the code does; its history table is left out. `SettingsTried` and `DirectoriesTried` name the
settings and directories an instance may change to.

### Inventory and Server

A handler that looks an asset up and writes afterwards is two steps (`GrantBegins`/`AddUserGrant`,
`CredentialBegins`/`UpsertAssetCredential`, `DeleteBegins`/`DeleteAsset`, `LaunchBegins`/`CanUserPerform`/`CreateLaunch`/
`ResolveForAsset`). Groups are only read, so one user stands for all. An archived row keeps its number and
gives up its name (one already marked as deleted, `Marked`, it keeps), which is what makes the seed's upsert by name create a new asset. In `Server` every
process has one request slot and goes through `Start`, `ApplyMigration` for each version,
`Bootstrap`, the seed's three upserts, serving and stopping. A migration is one step: it is one
transaction, and the version's key is what two processes collide on. `Expire` is the one shutdown
deadline; `StopService` is a `Shutdown` that returns nil. When the deadline has passed a proxy closes the connections
it knows (`CloseActiveConns`), waits again, and `FailStop` returns the context's error, after which `runServer`
returns. A connection of a proxy is accepted in one step (`Accept`) and counted in the next (`TrackConn`):
the database proxies' accept loops are in the WaitGroup, the SSH proxy's is not (`Drained`). The SSH proxy opens
its listener in a goroutine (`Listen`), possibly after `Shutdown` has looked for it; such a stray listener
is never closed and the process does not end. `Hang` is a handler that waits for its target and not for its
client (the details are in `DatabaseProxy` and `Bridge`): the second wait then has no end.

### The relays

`Bridge` has the handler (`main`), the goroutine that serves channel requests (`serving`), three copiers, and the reader of the
client's connection, which blocks when the buffer of requests is full (`held`); the SSH library is modelled
by how it behaves towards this code and marked external. `SFTPRelay` cuts every packet in two halves, so
that a read can end anywhere that matters; forwarding and parsing are two steps, as the copier writes before
it parses, and the two directions share `pending` and `handles`. An event may fail to be written (`Writes`, up to
`MaxLost`), and a packet of a type that the parser does not decode ("other") is passed on like any. Clients are well behaved and use
a fresh id for each request. `StatementLog` runs the server's view (`stmts`, `portals`) beside the
proxy's (`cache`, `template`) and compares the last execution; for MySQL it also follows every response
packet by packet through `relaySingleResponse`, `relayRows`, `relayPrepareResponse` and `relayLocalInFile`. For SQL
Server the scan of an RPC payload is modelled by what it yields (`Scanned`): the longest run with a keyword, of the
statement or of a parameter, of those texts that lie at the bytes it looks at; `Runs` and `Length` say what it can see of
a text. `HostKeys`
has the file, the callback's copy of it (`loaded`), dials, and the operator; there is one key type. A line that is
taken out of the file stays as a blank one (`Gone`), which `knownhosts` and `upsertKnownHostEntry` both skip.

What these modules say about the code besides their properties, each a named exception of a property:

- a reply that is parsed after a later CLOSE of its handle, or before its request is stored, leaves operations with
  no path or an older one (`overtaken`);
- once a channel request has failed, nobody takes further ones: when the buffer is full the connection's reader
  blocks, the end of the client is not seen, and not even the maximum age frees the handler (`BridgeEnds`);
- a shell whose host ignores the end of its input outlives its client;
- MongoDB's `closeWrite` has no effect on the wrapped connections, so the other direction ends by its idle timeout;
- PostgreSQL portals are looked up by the portal's name, SQL Server's `sp_execute` is logged with the last prepared text,
  or with a parameter that looks like SQL, and a call with its text is logged with what the scan takes for it;
  Redis frames that are no command array are not logged (`plain` in `last`);
- an SFTP operation whose event cannot be written is missing from the session's events, and extended requests,
  symlinks and FSETSTAT leave none;
- MySQL answers start-up probes itself without forwarding them; cursors, statements of 16 MB, `COM_STATISTICS` and an
  authentication switch after `COM_CHANGE_USER` (both read as a number of columns), and Redis commands
  with several replies or none, make a relay lose step (`odd`).

### The connector

`Launches` numbers requests. `TryStart` and the two `Finish` steps are the tracker; between them a launch goes
through its kind's steps (`PrepareShell` or `PrepareRedis` and `OpenTerminal`, `OpenPuTTY`, `OpenRoboMongo`, `MakeTempDir`/`FindDBeaver`/
`StartDBeaver`, `PrepareFileZilla`/`ReadSites`/`WriteSites`/`OpenFileZilla`), and the last one is one
step with `Finish`. Whether a program is found and starts is a choice. `Panics` is the use of the launcher's
missing logger, recovered by the HTTP middleware. Reading and writing the site file are two steps; so are they for
known_hosts in `ShellBridge` and for each of the four files of `LocalTLS`, where a process may die in the middle
of a write.

## 3. Runs

| Run | Instance | Shows |
|---|---|---|
| `lifecycle_safety` | 1 session, 2 connections (symmetric), 1 report, shell, redis and dbeaver, 1 failed statement | `TypeOK`, `RowShape`, `ClaimedNotPending`, `AuditTrail`, `NoConnectionNoActive`, `SweepSparesClaimed`, and `RowSpec`: the refinement of `SessionRow` |
| `lifecycle_recovery` | 2 sessions, no connection, 2 reports, shell and dbeaver, a sweep of 1 row, 1 failed statement, 1 crash; fair | `StuckLaunchSwept` |
| `lifecycle_unmaterialized` | 1 session, 1 connection, 1 report, all actions, no failures; fair | violation of `UnmaterializedLaunchFails` |
| `dbproxy_service` | 1 session, 2 connections (symmetric), 2 queries each, channel of 1 | `TypeOK`, `LogInOrder`, `EntriesVouch`, `DrainedOnReturn` |
| `dbproxy_shutdown` | the same with 1 query each; fair | `ForcedCloseReturns` |
| `dbproxy_panic` | the same | violation of `NoPanic` |
| `dbproxy_max_age` | 1 connection, 1 query; fair | violation of `MaxSessionDuration` |
| `accounts` | 2 accounts (the bootstrap administrator and a user), 2 requests, 2 live sessions, window 1, 1 attempt, 1 change by administrator, directory or restart; time is fair | `SessionsOverlap`, `LimiterBound`, `LocalAccountsKept`, `LockoutEnds` |
| `server` | 2 processes, 2 migrations, 3 services, 1 name, 2 asset rows, 4 edits; fair | `MigrationsInOrder`, `ServingMigrated`, `DeletedStaysBare`, `StopInOrder`, `StopEnds` |
| `relays` | bridge: buffer of 2, 5 requests; SFTP: 4 packets, 1 handle, 2 paths, 1 lost event; statements: 4 messages; keys: 2 endpoints, 2 dials, 1 change; fair | `PathsTrue`, `OperationsRecorded`, `LoggedIsRun`, `InStep`, `BridgeEnds`, `AcceptedKept` |
| `known_hosts` | 4 endpoints, 2 dials, 3 changes | violation of `NoRestartNeeded` |
| `connector` | 2 processes with 2 starts; 2 launches of every kind and system, 1 stop; 2 bridges at once, 3 in all, 3 proxies, 1 rotation; fair | `OneClient`, `SiteIsOwn`, `DirsRemoved`, `PreparedConsistent`, `TrustKept` |

Every run of a module's main properties also checks its `TypeOK`.

Why the bounds are enough for what is asked. Sessions do not interact in `SessionLifecycle` except through the
places of the sweeper's batch, so one session with several writers
holds the interesting interleavings of safety. For `StuckLaunchSwept` two sessions compete for a batch of one: either may be
stuck, and a database launch, whose report is its own sign of life, is skipped by every sweep. That run has no
connections (one that comes makes the launch materialized and `Stuck` false), so nothing in it reads `expired`, and its
state constraint `TokensUnused` leaves the expiry of tokens out. Two connections are what it takes for one to reopen or to overwrite what
the other ended. Shell, database and Redis are the three shapes of a connection (a token at the door and a shell, a listener, or a listener
and a token later); an SFTP connection is a shell's without the shell. One failed statement is what
each property that survives failures needs: two would have to hit the same operation. In
`DatabaseProxy` a channel of one with two connections is full when it matters, and the second query of a
connection lets order be wrong. The safety properties but one are proved for all values besides.

For the new runs: two logins are what it takes to miss each other's session or to pass the limiter
together; with one attempt allowed every failure counts, and one change is enough for each exception of
`LocalAccountsKept`. Two processes and two versions make a race for the second version after one for the first; four edits are
a creation, a deletion, a request that straddles it and a crash. One SFTP handle is given out again and again,
which is what confuses a table; four packets are open, use, close, open. Requests that name a path ("path": remove,
rename, mkdir and the like) are recorded as `opendir` is and are left to the proof, as the instance would exceed five minutes. A buffer of two fills as
sixteen do. Four messages are prepare, bind or prepare again, execute and close. Two launches share an
entry, a site and a directory's timer; three exceed five minutes. `Relays` and `Connector` are sums: their parts share
no state, so a behaviour of one at a time is all there is to see.

Deadlock is checked for `SessionLifecycle`, where the sweeper never stops, and for `Accounts`, where time passes. Everything
else is meant to stop, so `CHECK_DEADLOCK FALSE` there.

### Fairness

`SessionLifecycle!FairSpec`: weak fairness of the sweeper's steps, which `runPendingLaunchSweep` guarantees by its
ticker, and of the passing of the timeout. Users, connector and hosts may stop at any time.

`DatabaseProxy!FairSpec`: weak fairness of what a goroutine does without waiting for somebody outside: Go's
scheduler runs it, a call on a closed socket or listener returns, a dial ends at `ConnectTimeout`, and
the shutdown context ends. No client is assumed to leave or to fall idle, and a silent host may be
silent for ever.

`Accounts!Spec`: time passes. `Server`: the shutdown deadline passes, goroutines that listen and add connections go on, and a `Shutdown` that can
return does; of clients and of handlers that hang nothing is assumed. `Relays`: the scheduler runs goroutines that can go on, timers (maximum age, shell
request, idle) fire, and upstream hosts answer channel requests; of clients nothing is assumed, nor that a host ends its
shell. `Connector`: a DBeaver launch under way goes on, and its removal timer fires while the process lives.

### What the violations say

Four runs refute what the documentation says, with the code as it is (see `findings`):

- a launch that the connector reports as successful and that no client ever uses stays `active`: the report
  makes the row active, and the sweeper looks at pending rows only. `StuckLaunchSwept` is what the sweeper
  does guarantee;
- `enqueueQueryLog` checks `closed` under the mutex and sends after the unlock, so a query during shutdown
  may be sent on the closed channel and panic;
- the maximum session duration of a database session closes its listener; a connection in use is
  not ended;
- the SSH proxy reads known_hosts when it is built: a key that an operator adds later is not seen before a
  restart (`HostKeys`, in known-hosts mode).

`ForcedCloseReturns` names two further ways in which the forced close does not come to an end: a
connection tracked after the snapshot, and a handler that waits for a silent host. `StopEnds` has the same two for the
whole process, and a third: a signal that comes before the SSH proxy has opened its listener.

## 4. Proofs

Every invariant and every action property of the passing runs is a theorem, for every value of the constants that the
named assumptions allow; TLC evaluates the assumptions in each run. They ask for little:

- `LifecycleAssumption`: distinct authors, granted actions are actions, bounds are naturals, a sweep takes one row at least;
- `ProxyAssumption`: the channel has room for one query at least, which `New` ensures by its default;
- `AccountsAssumption`: finitely many requests at once and at least one, a threshold of at least one attempt;
- `ServerAssumption`, `InventoryAssumption`: there is a service to stop and room for an asset;
- `BridgeAssumption`, `SFTPAssumption`, `StatementAssumption`, `ScanAssumption`, `HostKeysAssumption`: the request channel has a buffer,
  a read returns at least one half of a packet, a text is neither blank nor absent, hosts are of the four
  forms of name that the patterns of known_hosts tell apart and have keys;
- `LocalTLSAssumption`, `LaunchesAssumption`, `ShellBridgeAssumption`: jobs are of the known kinds and there is one, a
  session is not at the same time of DBeaver and of MongoDB, proxies have keys.

**SessionLifecycleProofs.** `TypeOK` is not inductive: a step writes `status[csess[c]]`, so a running connection must have a
session whose row exists. `Known` adds this for launches, connections, reports and the sweeper
(`Typed == TypeOK /\ Known`; `TypeCorrect`, `TypeInvariant`). `RowWriters` and `RowEffects` sum up what any
step can do to a row: it starts, fails or completes it, inserts it, or leaves it alone. From these follow
`RowShapeInvariant`, `ClaimInvariant` (with `ClaimMakers`: who becomes a claimer has just made the row not
pending) and the action property `SweeperSparesClaimed`, which needs nothing but that invariant and the guard of
the sweeper's `UPDATE`: the stale `SELECT` and check do not matter. `AuditTrailInvariant` needs the
strengthening `Trail`: a connection or sweep between two statements is `Behind` its log by exactly
one entry.

**SessionRowProofs.** `NoConnectionNoActiveInvariant` rests on `Settled`: the row of a session that some connection has
ended is finished, or another connection has reopened it and still has its own end before it. `RowRefinement`
maps `held` to "the launch is being prepared, or a listener is open, or a connection serves it": every
step that takes hold of a session finds it live (`Entries`), every other step only lets go, and writers
other than holders act on pending rows (`ConnWrites`, `PendingWrites`).

**DatabaseProxyProofs.** `Typed == TypeOK /\ HasQuery`. `DrainInvariant` uses `Drain`: what is open is in the map, in
Shutdown's snapshot, or nothing (`Closing`); every live handler belongs to a session that the wait group
counts (`HandlersCounted`); and the wait ends with all of them gone (`Waited`). The late `wg.Add` of
`RegisterSession` is harmless because by the time it runs the listener is closed. `Vouching`
rests on `Accounts`: every query a reader has read is logged, given up or without a known text, unless it is the one its reader is
about to log, and on the order of `LogInOrder`: what is still in the pipeline is newer than what is written.

`LogOrder` adds to `LogInOrder` that what is in the pipeline (written, in the worker's hand, in the
channel), or was given up, is not newer than its connection's last query, and older than it while that one has no entry.

**AccountsProofs.** `Typed` adds to `TypeOK` that the limiter's queues have the oldest entry in front, without
which pruning would not leave the entries within the window (`PrunedProperties`). `Overlap` needs `Revoking`: a live
session of the user that an open transaction does not revoke was committed beside it, and knows it. `Limited` counts,
for each name, the requests between the limiter's check and their outcome (`Trying`): a request enters only below
the threshold, and leaves by adding one entry at most. `LocalAccounts` needs types only.

**ServerProofs.** `Typed` adds `Applied`: the log is in order, and no process has seen more versions than it has; a process
finds the next version recorded, appends it right behind, or stops on the key. `StopsInOrder` rests on
`Stopping`: the stages before the current one have no connection left that they waited for, and what they missed is on
record. `DeletedBare` rests on `Archiving`, the archived row has given up its name so that the seed never comes upon it,
and `Finding`, what is about to write has found its asset.

**SFTPRelayProofs, RelaysProofs.** Each relay has its own inductive invariant, and a step of one leaves the variables of the
others alone (`RelaysStep`, `Invariant`).

- `SFTPInv`: the buffer of the client's parser is what is written and not yet parsed, beginning with a first half
  (`StreamWhole`); requests by handle follow the answer that gave the handle out, and the server gives it
  out again only after a close (`Exchange`); what the parser has recorded is what it has parsed
  (`RecordedSoFar`); and while nothing was overtaken, the tables of the relay hold what is still to be answered
  and the files of the handles that are open (`InTime`).
- `StatementInv`: what the server still has to say fits what the relay waits for (`Fits`; the exceptions carry `odd`),
  and the proxy remembers the text of every statement of the server, by protocol (`PgKnows` outside `stale`,
  `MsKnows` for the owner of the template, `MyKnows`, where the text is not stored before the answer arrives).
- `HostKeysInv`: at most one dial is rewriting the file, what it will write holds every accepted key too, and keys are
  accepted and repaired in different modes, which is why a repair never drops an accepted key.
- For `Bridge` only the types, with the capacity of the request channel; its property is a liveness one.

**ConnectorProofs.** In the same way `TLSInv`, `LaunchesInv` and `ShellInv`. `TLSInv` counts the keys that can still be made
by the processes under way against the starts, and says what a process that is alone has on disk at each of its
steps; two that prepare together know of each other. `LaunchesInv`: a job has one launch at most that runs, none before its
entry, and no open client while one runs. `ShellInv`: a bridge that is alone writes what the policy allows
into the file as it read it.

**Model-checked only**: liveness (`StuckLaunchSwept`, `ForcedCloseReturns`, `LockoutEnds`, `StopEnds`, `BridgeEnds`,
`DirsRemoved`), as fairness and ENABLED are beyond the prover. The three findings about `NoPanic`, `MaxSessionDuration` and
`UnmaterializedLaunchFails`, and the one about `NoRestartNeeded`, are counterexamples and need no proof. The strengthened
invariants of the relays and the connector hold in TLC on the instances of the runs as well.

## 5. Plan

What was planned first is modelled: the stop sequence, bridges and relays, statement caches, accounts and grants, migrations,
known_hosts, the LDAP synchronisation and the connector; and every safety property that a run checks is proved. Left, in the
order of importance:

1. Safety behind the liveness properties: what must hold for the handler of a bridge to be stuck (`Bridge`), and what a
   stop of the connector leaves behind (`Launches`), as invariants with proofs.
2. The rows a crash leaves active.
3. Pure operators: replay normalisation, against a reference definition.

## 6. Not modelled

- Wire protocols and cryptography: library code, or byte layout; handshakes of the database proxies with their
  password exchanges.
- Messages that the relays pass on without a look, and MySQL's replication commands (`COM_BINLOG_DUMP`), whose answer has
  no end.
- Configuration, listings, exports, replay and review pages, the audit enrichment: they only read.
- In administration: `UpdateUser` (mail address and display name), the LDAP connection test, the history of syncs,
  in which a run that dies stays `running`.
- In the connector: token signatures, the search for installed programs, CORS, the version endpoints. For port 22 the bridge's
  known_hosts pattern has no port, which the library's check rejects; `ShellBridge` has this as `Port22`.
- The UI, the contract, deployment and packaging.

The reasons are beside each component in `PROJECT.json`.
