--------------------------- MODULE SessionLifecycle ---------------------------
(***************************************************************************)
(* The life of a session: the row of the sessions table and the two        *)
(* append-only logs (session_events, audit_events), written by             *)
(*                                                                         *)
(*   - the launch request        handlers/sessions.go Launch, CreateLaunch *)
(*   - the connector's report    RecordConnectorLaunchEvent                *)
(*   - the sweeper               FailUnmaterializedConnectorLaunches       *)
(*   - the proxy connections     sshproxy handleConn and the database and  *)
(*                               Redis proxies' handleSessionConn          *)
(*                                                                         *)
(* None of them uses a transaction or a lock: one statement is one step,   *)
(* and the statements of concurrent operations interleave.  A statement    *)
(* may fail, which ends its operation there, and the server may crash      *)
(* between any two of them.                                                *)
(***************************************************************************)
EXTENDS Naturals, FiniteSets

CONSTANTS Sessions,    \* session ids
          Conns,       \* client connections to a proxy, each used once
          Reports,     \* POST /sessions/{id}/events requests, each used once
          Granted,     \* the actions that access grants let users launch
          Server,      \* the API process, as the author of a log entry
          NoSession,   \* the session of a connection not yet made
          SweepLimit,  \* rows one sweep examines (200)
          MaxFaults,   \* bound: statements that fail
          MaxCrashes   \* bound: crashes of the API process

Actions == {"shell", "sftp", "dbeaver", "redis"}

ASSUME LifecycleAssumption ==
  /\ Granted \subseteq Actions
  /\ NoSession \notin Sessions
  /\ Server \notin Conns \cup Reports
  /\ Conns \cap Reports = {}
  /\ SweepLimit \in Nat \ {0}
  /\ MaxFaults \in Nat
  /\ MaxCrashes \in Nat

VARIABLES
  \* the database
  status, started, ended,   \* columns of the row, as in SessionRow
  action,                   \* the row's reason column, "action:<action>"
  events,                   \* session_events: <<event type, session, author>>
  audits,                   \* audit_events: <<event and outcome, session, author>>
  \* time
  expired,                  \* sessions whose launch token's TTL has run out
  aged,                     \* sessions whose last success report is past the timeout
  older,                    \* <<s, t>>: the last success report of s came before that of t
  \* the API process
  lpc,                      \* the launch request of a session
  listening,                \* sessions with a listener of their own
  cpc, csess,               \* a connection's step and its session
  claimed,                  \* connections whose claiming UPDATE took place
  rpc, rsess, rtype,        \* a report's step, session and event type
  spc, sbatch, scur,        \* the sweeper's step, rows left and current row
  \* bounds
  faults, crashes

row    == <<status, started, ended, action>>
logs   == <<events, audits>>
time   == <<expired, aged, older>>
conn   == <<cpc, csess, claimed>>
report == <<rpc, rsess, rtype>>
sweep  == <<spc, sbatch, scur>>
bounds == <<faults, crashes>>
vars   == <<row, logs, time, lpc, listening, conn, report, sweep, bounds>>

Statuses == {"none", "pending", "active", "completed", "failed"}
Live     == {"pending", "active"}
Terminal == {"completed", "failed"}

\* connector_launch_requested and connector_launch_failed are only logged: one
\* value, connector_launch_other, stands for both.
ReportTypes == {"connector_launch_succeeded", "connector_launch_other"}
RelayEvents == {"file_operation", "db_query", "redis_command"}
EventTypes  == ReportTypes \cup RelayEvents
                 \cup {"launch_created", "proxy_connected", "upstream_connected",
                       "shell_started", "session_ended", "session_failed"}
AuditTypes  == {"credential_usage", "session_start", "end_success", "end_failed"}
Authors     == Conns \cup Reports \cup {Server}

LaunchSteps == {"none", "event", "prepare", "register", "done", "aborted"}

\* A connection's steps up to the UPDATE that ends the session, and from there.
PreFinal  == {"authed", "connected", "open", "prelogin", "dialing", "upstream",
              "shell_event", "shell_audit", "bridging", "end_update", "fail_update"}
PostFinal == {"end_event", "end_audit", "fail_event", "fail_audit", "closed"}
ConnSteps == PreFinal \cup PostFinal \cup {"free", "dropped"}

\* Connections in progress: the ones that hold a launch context of the session.
Serving(c) == cpc[c] \notin {"free", "dropped", "closed"}

\* The sessions with a success report of the connector.
Reported(s) == \E r \in Reports : <<"connector_launch_succeeded", s, r>> \in events

\* materializationEventsByAction
MaterializationEvents(a) ==
  CASE a = "shell"   -> {"proxy_connected"}
    [] a = "dbeaver" -> {"connector_launch_succeeded", "proxy_connected", "db_query"}
    [] a = "sftp"    -> {"proxy_connected", "file_operation"}
    [] a = "redis"   -> {"proxy_connected", "redis_command"}

\* launchMaterialized: one of the events the action is expected to produce is there.
Materialized(s) ==
  \E t \in MaterializationEvents(action[s]), a \in Authors : <<t, s, a>> \in events

Log(t, s, a)   == events' = events \cup {<<t, s, a>>}
Audit(t, s, a) == audits' = audits \cup {<<t, s, a>>}

-------------------------------------------------------------------------------
TypeOK ==
  /\ status \in [Sessions -> Statuses]
  /\ started \in [Sessions -> BOOLEAN]
  /\ ended \in [Sessions -> BOOLEAN]
  /\ action \in [Sessions -> Actions \cup {"none"}]
  /\ events \subseteq EventTypes \X Sessions \X Authors
  /\ audits \subseteq AuditTypes \X Sessions \X Authors
  /\ expired \subseteq Sessions
  /\ aged \subseteq Sessions
  /\ older \subseteq Sessions \X Sessions
  /\ lpc \in [Sessions -> LaunchSteps]
  /\ listening \subseteq Sessions
  /\ cpc \in [Conns -> ConnSteps]
  /\ csess \in [Conns -> Sessions \cup {NoSession}]
  /\ claimed \subseteq Conns
  /\ rpc \in [Reports -> {"free", "event", "update", "done"}]
  /\ rsess \in [Reports -> Sessions \cup {NoSession}]
  /\ rtype \in [Reports -> ReportTypes]
  /\ spc \in {"idle", "next", "update", "event", "audit"}
  /\ sbatch \subseteq Sessions
  /\ scur \in Sessions \cup {NoSession}
  /\ faults \in 0 .. MaxFaults
  /\ crashes \in 0 .. MaxCrashes

Init ==
  /\ status = [s \in Sessions |-> "none"]
  /\ started = [s \in Sessions |-> FALSE]
  /\ ended = [s \in Sessions |-> FALSE]
  /\ action = [s \in Sessions |-> "none"]
  /\ events = {} /\ audits = {}
  /\ expired = {} /\ aged = {} /\ older = {}
  /\ lpc = [s \in Sessions |-> "none"]
  /\ listening = {}
  /\ cpc = [c \in Conns |-> "free"]
  /\ csess = [c \in Conns |-> NoSession]
  /\ claimed = {}
  /\ rpc = [r \in Reports |-> "free"]
  /\ rsess = [r \in Reports |-> NoSession]
  /\ rtype = [r \in Reports |-> "connector_launch_other"]
  /\ spc = "idle" /\ sbatch = {} /\ scur = NoSession
  /\ faults = 0 /\ crashes = 0

-------------------------------------------------------------------------------
(* The launch request.  Nothing undoes the row when a later step fails.    *)

\* CreateLaunch: the INSERT of a pending row.
CreateSession(s, a) ==
  /\ lpc[s] = "none"
  /\ status' = [status EXCEPT ![s] = "pending"]
  /\ action' = [action EXCEPT ![s] = a]
  /\ lpc' = [lpc EXCEPT ![s] = "event"]
  /\ UNCHANGED <<started, ended, logs, time, listening, conn, report, sweep, bounds>>

\* CreateLaunch: the launch_created event; the tokens are signed with it.
LaunchCreated(s) ==
  /\ lpc[s] = "event"
  /\ Log("launch_created", s, Server)
  /\ lpc' = [lpc EXCEPT ![s] = "prepare"]
  /\ UNCHANGED <<row, audits, time, listening, conn, report, sweep, bounds>>

\* Launch, Linux assets: the credential exists and the token is handed out.
PrepareLinux(s) ==
  /\ lpc[s] = "prepare"
  /\ action[s] \in {"shell", "sftp"}
  /\ lpc' = [lpc EXCEPT ![s] = "done"]
  /\ UNCHANGED <<row, logs, time, listening, conn, report, sweep, bounds>>

\* Launch, database and Redis assets: the use of the credential is audited.
PrepareProxy(s) ==
  /\ lpc[s] = "prepare"
  /\ action[s] \in {"dbeaver", "redis"}
  /\ Audit("credential_usage", s, Server)
  /\ lpc' = [lpc EXCEPT ![s] = "register"]
  /\ UNCHANGED <<row, events, time, listening, conn, report, sweep, bounds>>

\* Launch: RegisterSession opens the session's listener and the reply names its port.
RegisterSession(s) ==
  /\ lpc[s] = "register"
  /\ listening' = listening \cup {s}
  /\ lpc' = [lpc EXCEPT ![s] = "done"]
  /\ UNCHANGED <<row, logs, time, conn, report, sweep, bounds>>

\* Launch: every early return after CreateLaunch (no credential, bad metadata, no
\* proxy, no port) answers 4xx or 5xx and leaves the row as it is.
LaunchAborts(s) ==
  /\ lpc[s] \in {"prepare", "register"}
  /\ lpc' = [lpc EXCEPT ![s] = "aborted"]
  /\ UNCHANGED <<row, logs, time, listening, conn, report, sweep, bounds>>

-------------------------------------------------------------------------------
(* The connector's report.                                                 *)

\* GetSessionContextForUser finds the row.
ReportBegins(r, s, t) ==
  /\ rpc[r] = "free"
  /\ status[s] # "none"
  /\ rpc' = [rpc EXCEPT ![r] = "event"]
  /\ rsess' = [rsess EXCEPT ![r] = s]
  /\ rtype' = [rtype EXCEPT ![r] = t]
  /\ UNCHANGED <<row, logs, time, lpc, listening, conn, sweep, bounds>>

\* The event, which is the session's youngest success report if it is one.
ReportEvent(r) ==
  /\ rpc[r] = "event"
  /\ Log(rtype[r], rsess[r], r)
  /\ IF rtype[r] = "connector_launch_succeeded"
     THEN /\ rpc' = [rpc EXCEPT ![r] = "update"]
          /\ aged' = aged \ {rsess[r]}
          /\ older' = {p \in older : rsess[r] \notin {p[1], p[2]}}
                        \cup {<<s, rsess[r]>> : s \in {t \in Sessions \ {rsess[r]} : Reported(t)}}
     ELSE /\ rpc' = [rpc EXCEPT ![r] = "done"]
          /\ UNCHANGED <<aged, older>>
  /\ UNCHANGED <<row, audits, expired, lpc, listening, conn, rsess, rtype, sweep, bounds>>

\* The UPDATE of a success report, WHERE status = 'pending'.
ReportUpdate(r) ==
  /\ rpc[r] = "update"
  /\ IF status[rsess[r]] = "pending"
     THEN /\ status' = [status EXCEPT ![rsess[r]] = "active"]
          /\ started' = [started EXCEPT ![rsess[r]] = TRUE]
     ELSE UNCHANGED <<status, started>>
  /\ rpc' = [rpc EXCEPT ![r] = "done"]
  /\ UNCHANGED <<ended, action, logs, time, lpc, listening, conn, rsess, rtype, sweep,
                 bounds>>

-------------------------------------------------------------------------------
(* The sweeper: FailUnmaterializedConnectorLaunches, on every tick.        *)

\* Pending rows whose last success report is older than the timeout.
SweepDue == {s \in Sessions : status[s] = "pending" /\ Reported(s) /\ s \in aged}

\* Mutant: ORDER BY ... DESC, the youngest report first.
SweepSelectNewest ==
  /\ spc = "idle"
  /\ sbatch' = {s \in SweepDue :
                  Cardinality({t \in SweepDue : <<s, t>> \in older}) < SweepLimit}
  /\ spc' = "next"
  /\ UNCHANGED <<row, logs, time, lpc, listening, conn, report, scur, bounds>>

\* The SELECT: the rows that are due, the oldest report first, up to the LIMIT.
SweepSelect ==
  /\ spc = "idle"
  /\ sbatch' = {s \in SweepDue :
                  Cardinality({t \in SweepDue : <<t, s>> \in older}) < SweepLimit}
  /\ spc' = "next"
  /\ UNCHANGED <<row, logs, time, lpc, listening, conn, report, scur, bounds>>

\* launchMaterialized, asked for the next row of the result.
SweepCheck(s) ==
  /\ spc = "next"
  /\ s \in sbatch
  /\ sbatch' = sbatch \ {s}
  /\ IF Materialized(s)
     THEN UNCHANGED <<spc, scur>>
     ELSE spc' = "update" /\ scur' = s
  /\ UNCHANGED <<row, logs, time, lpc, listening, conn, report, bounds>>

\* Mutant: the UPDATE has lost its condition.
SweepUpdateAlways ==
  /\ spc = "update"
  /\ status' = [status EXCEPT ![scur] = "failed"]
  /\ ended' = [ended EXCEPT ![scur] = TRUE]
  /\ spc' = "event"
  /\ UNCHANGED <<started, action, logs, time, lpc, listening, conn, report, sbatch, scur,
                 bounds>>

\* Mutant: the row scanned is gone when its event is written.
SweepUpdateForgets ==
  /\ spc = "update"
  /\ IF status[scur] = "pending"
     THEN /\ status' = [status EXCEPT ![scur] = "failed"]
          /\ ended' = [ended EXCEPT ![scur] = TRUE]
          /\ spc' = "event"
     ELSE /\ UNCHANGED <<status, ended>>
          /\ spc' = "next"
  /\ scur' = NoSession
  /\ UNCHANGED <<started, action, logs, time, lpc, listening, conn, report, sbatch, bounds>>

\* The UPDATE, WHERE status = 'pending'; a row that is pending no longer is skipped.
SweepUpdate ==
  /\ spc = "update"
  /\ IF status[scur] = "pending"
     THEN /\ status' = [status EXCEPT ![scur] = "failed"]
          /\ ended' = [ended EXCEPT ![scur] = TRUE]
          /\ spc' = "event"
     ELSE /\ UNCHANGED <<status, ended>>
          /\ spc' = "next"
  /\ UNCHANGED <<started, action, logs, time, lpc, listening, conn, report, sbatch, scur,
                 bounds>>

SweepEvent ==
  /\ spc = "event"
  /\ Log("session_failed", scur, Server)
  /\ spc' = "audit"
  /\ UNCHANGED <<row, audits, time, lpc, listening, conn, report, sbatch, scur, bounds>>

SweepAudit ==
  /\ spc = "audit"
  /\ Audit("end_failed", scur, Server)
  /\ spc' = "next"
  /\ UNCHANGED <<row, events, time, lpc, listening, conn, report, sbatch, scur, bounds>>

SweepDone ==
  /\ spc = "next"
  /\ sbatch = {}
  /\ spc' = "idle" /\ scur' = NoSession
  /\ UNCHANGED <<row, logs, time, lpc, listening, conn, report, sbatch, bounds>>

-------------------------------------------------------------------------------
(* A proxy connection.  Several may serve one session at the same time.    *)

\* Mutant: the status of the row is not looked at.
TokenUnexpired(s) == s \notin expired /\ status[s] # "none"

\* ResolveLaunchToken: the token is not expired and the row is pending or active.
TokenResolves(s) == s \notin expired /\ status[s] \in Live

\* A step of connection c from one point of its handler to another.
Goto(c, from, to) ==
  /\ cpc[c] \in from
  /\ cpc' = [cpc EXCEPT ![c] = to]

\* sshproxy authenticate: the launch token is the password.
Authenticate(c, s) ==
  /\ Goto(c, {"free"}, "authed")
  /\ csess' = [csess EXCEPT ![c] = s]
  /\ lpc[s] = "done"
  /\ action[s] \in {"shell", "sftp"}
  /\ TokenResolves(s)
  /\ UNCHANGED <<row, logs, time, lpc, listening, claimed, report, sweep, bounds>>

\* serveSession: the session's own listener accepts, and asks for nothing yet.
AcceptConn(c, s) ==
  /\ Goto(c, {"free"}, "authed")
  /\ csess' = [csess EXCEPT ![c] = s]
  /\ s \in listening
  /\ UNCHANGED <<row, logs, time, lpc, listening, claimed, report, sweep, bounds>>

\* serveSession: the maximum session age closes the listener, not its connections.
ListenerExpires(s) ==
  /\ s \in listening
  /\ listening' = listening \ {s}
  /\ UNCHANGED <<row, logs, time, lpc, conn, report, sweep, bounds>>

\* sshproxy handleConn: the handshake fails after the token was accepted.
HandshakeFails(c) ==
  /\ Goto(c, {"authed"}, "dropped")
  /\ action[csess[c]] \in {"shell", "sftp"}
  /\ UNCHANGED <<row, logs, time, lpc, listening, csess, claimed, report, sweep, bounds>>

\* Mutant: the UPDATE waits for a status the row does not have yet.
ProxyConnectedNoClaim(c) ==
  /\ Goto(c, {"authed"}, "connected")
  /\ claimed' = claimed \cup {c}
  /\ UNCHANGED <<row, logs, time, lpc, listening, csess, report, sweep, bounds>>

\* MarkProxyConnected: the UPDATE, WHERE status = 'pending', claims the session.
ProxyConnectedUpdate(c) ==
  /\ Goto(c, {"authed"}, "connected")
  /\ IF status[csess[c]] = "pending"
     THEN /\ status' = [status EXCEPT ![csess[c]] = "active"]
          /\ started' = [started EXCEPT ![csess[c]] = TRUE]
     ELSE UNCHANGED <<status, started>>
  /\ claimed' = claimed \cup {c}
  /\ UNCHANGED <<ended, action, logs, time, lpc, listening, csess, report, sweep, bounds>>

ProxyConnectedEvent(c) ==
  /\ Goto(c, {"connected"}, "open")
  /\ Log("proxy_connected", csess[c], c)
  /\ UNCHANGED <<row, audits, time, lpc, listening, csess, claimed, report, sweep, bounds>>

\* sshproxy handleConn: the client leaves without opening a session channel.
NoSessionChannel(c) ==
  /\ Goto(c, {"open"}, "fail_update")
  /\ action[csess[c]] \in {"shell", "sftp"}
  /\ UNCHANGED <<row, logs, time, lpc, listening, csess, claimed, report, sweep, bounds>>

\* mssqlproxy runProxyFlow records the upstream connection as soon as it is dialled,
\* before it asks for the credential.
SQLServerDialled(c) ==
  /\ Goto(c, {"open"}, "prelogin")
  /\ action[csess[c]] = "dbeaver"
  /\ Log("upstream_connected", csess[c], c)
  /\ UNCHANGED <<row, audits, time, lpc, listening, csess, claimed, report, sweep, bounds>>

\* connectUpstream: the credential is resolved and its use audited.
UseCredential(c) ==
  /\ Goto(c, {"open", "prelogin"}, "dialing")
  /\ Audit("credential_usage", csess[c], c)
  /\ UNCHANGED <<row, events, time, lpc, listening, csess, claimed, report, sweep, bounds>>

\* Mutant: the handler returns without MarkFailed.
UpstreamFailsSilently(c) ==
  /\ Goto(c, {"open", "prelogin", "dialing"}, "closed")
  /\ UNCHANGED <<row, logs, time, lpc, listening, csess, claimed, report, sweep, bounds>>

\* connectUpstream: no credential, a host that does not answer, a refused login.
UpstreamFails(c) ==
  /\ Goto(c, {"open", "prelogin", "dialing"}, "fail_update")
  /\ UNCHANGED <<row, logs, time, lpc, listening, csess, claimed, report, sweep, bounds>>

\* The upstream answers: MarkUpstreamConnected, which the PostgreSQL and MySQL proxies
\* do not call and the SQL Server proxy has called before.
UpstreamConnected(c) ==
  /\ Goto(c, {"dialing"}, "upstream")
  /\ \/ Log("upstream_connected", csess[c], c)
     \/ action[csess[c]] = "dbeaver" /\ UNCHANGED events
  /\ UNCHANGED <<row, audits, time, lpc, listening, csess, claimed, report, sweep, bounds>>

\* bridgeSession: MarkShellStarted's UPDATE, which has no condition on the status.
ShellStartedUpdate(c) ==
  /\ Goto(c, {"upstream"}, "shell_event")
  /\ action[csess[c]] = "shell"
  /\ status' = [status EXCEPT ![csess[c]] = "active"]
  /\ started' = [started EXCEPT ![csess[c]] = TRUE]
  /\ UNCHANGED <<ended, action, logs, time, lpc, listening, csess, claimed, report, sweep,
                 bounds>>

ShellStartedEvent(c) ==
  /\ Goto(c, {"shell_event"}, "shell_audit")
  /\ Log("shell_started", csess[c], c)
  /\ UNCHANGED <<row, audits, time, lpc, listening, csess, claimed, report, sweep, bounds>>

ShellStartedAudit(c) ==
  /\ Goto(c, {"shell_audit"}, "bridging")
  /\ Audit("session_start", csess[c], c)
  /\ UNCHANGED <<row, events, time, lpc, listening, csess, claimed, report, sweep, bounds>>

\* The relay of the other actions begins at once (a database), with the sftp
\* subsystem, or when the Redis client's AUTH carries a token that still resolves.
RelayBegins(c) ==
  /\ Goto(c, {"upstream"}, "bridging")
  /\ \/ action[csess[c]] \in {"sftp", "dbeaver"}
     \/ action[csess[c]] = "redis" /\ TokenResolves(csess[c])
  /\ UNCHANGED <<row, logs, time, lpc, listening, csess, claimed, report, sweep, bounds>>

\* What the relay records of the traffic, by action (the terminal recording of a
\* shell plays no part in the life of its session and is left out).
RelayEvent(a) ==
  CASE a = "sftp"    -> "file_operation"
    [] a = "dbeaver" -> "db_query"
    [] a = "redis"   -> "redis_command"

RelayRecords(c) ==
  /\ cpc[c] = "bridging"
  /\ action[csess[c]] # "shell"
  /\ Log(RelayEvent(action[csess[c]]), csess[c], c)
  /\ UNCHANGED <<row, audits, time, lpc, listening, conn, report, sweep, bounds>>

\* The bridge or the proxy flow returns an error: a request that fails or does not
\* come in time, a channel that is not accepted, a stream that breaks.
BridgeFails(c) ==
  /\ Goto(c, {"upstream", "bridging"}, "fail_update")
  /\ UNCHANGED <<row, logs, time, lpc, listening, csess, claimed, report, sweep, bounds>>

\* The bridge or the proxy flow returns nil; a Redis client may leave before AUTH.
BridgeEnds(c) ==
  /\ \/ Goto(c, {"bridging"}, "end_update")
     \/ Goto(c, {"upstream"}, "end_update") /\ action[csess[c]] = "redis"
  /\ UNCHANGED <<row, logs, time, lpc, listening, csess, claimed, report, sweep, bounds>>

\* Mutant: ended_at is not set.
EndedUpdateOpen(c) ==
  /\ Goto(c, {"end_update"}, "end_event")
  /\ status' = [status EXCEPT ![csess[c]] = "completed"]
  /\ started' = [started EXCEPT ![csess[c]] = TRUE]
  /\ UNCHANGED <<ended, action, logs, time, lpc, listening, csess, claimed, report, sweep,
                 bounds>>

\* MarkEnded: UPDATE, event, audit.  The UPDATE has no condition on the status.
EndedUpdate(c) ==
  /\ Goto(c, {"end_update"}, "end_event")
  /\ status' = [status EXCEPT ![csess[c]] = "completed"]
  /\ started' = [started EXCEPT ![csess[c]] = TRUE]
  /\ ended' = [ended EXCEPT ![csess[c]] = TRUE]
  /\ UNCHANGED <<action, logs, time, lpc, listening, csess, claimed, report, sweep, bounds>>

EndedEvent(c) ==
  /\ Goto(c, {"end_event"}, "end_audit")
  /\ Log("session_ended", csess[c], c)
  /\ UNCHANGED <<row, audits, time, lpc, listening, csess, claimed, report, sweep, bounds>>

EndedAudit(c) ==
  /\ Goto(c, {"end_audit"}, "closed")
  /\ Audit("end_success", csess[c], c)
  /\ UNCHANGED <<row, events, time, lpc, listening, csess, claimed, report, sweep, bounds>>

\* MarkFailed: the same with 'failed'; started_at keeps its value.
FailedUpdate(c) ==
  /\ Goto(c, {"fail_update"}, "fail_event")
  /\ status' = [status EXCEPT ![csess[c]] = "failed"]
  /\ ended' = [ended EXCEPT ![csess[c]] = TRUE]
  /\ UNCHANGED <<started, action, logs, time, lpc, listening, csess, claimed, report, sweep,
                 bounds>>

\* Mutant: the audit entry is written whether or not the event was.
FailedEventLost(c) ==
  /\ Goto(c, {"fail_event"}, "fail_audit")
  /\ UNCHANGED <<row, logs, time, lpc, listening, csess, claimed, report, sweep, bounds>>

FailedEvent(c) ==
  /\ Goto(c, {"fail_event"}, "fail_audit")
  /\ Log("session_failed", csess[c], c)
  /\ UNCHANGED <<row, audits, time, lpc, listening, csess, claimed, report, sweep, bounds>>

FailedAudit(c) ==
  /\ Goto(c, {"fail_audit"}, "closed")
  /\ Audit("end_failed", csess[c], c)
  /\ UNCHANGED <<row, events, time, lpc, listening, csess, claimed, report, sweep, bounds>>

-------------------------------------------------------------------------------
(* Failures and time.                                                      *)

\* A statement fails: the rest of its Mark operation is not attempted, the caller
\* logs a warning and goes on.
ConnStatementFails(c) ==
  /\ faults < MaxFaults
  /\ \/ Goto(c, {"authed", "connected"}, "open")
     \/ Goto(c, {"open"}, "prelogin") /\ action[csess[c]] = "dbeaver"
     \/ Goto(c, {"open", "prelogin"}, "dialing")
     \/ Goto(c, {"dialing"}, "upstream")
     \/ Goto(c, {"upstream"}, "bridging") /\ action[csess[c]] = "shell"
     \/ Goto(c, {"shell_event", "shell_audit"}, "bridging")
     \/ Goto(c, {"end_update", "fail_update", "end_event", "fail_event",
                 "end_audit", "fail_audit"}, "closed")
  /\ faults' = faults + 1
  /\ UNCHANGED <<row, logs, time, lpc, listening, csess, claimed, report, sweep, crashes>>

\* A statement of the launch request fails: it answers 500.
LaunchStatementFails(s) ==
  /\ faults < MaxFaults
  /\ lpc[s] \in {"event", "prepare"}
  /\ lpc' = [lpc EXCEPT ![s] = "aborted"]
  /\ faults' = faults + 1
  /\ UNCHANGED <<row, logs, time, listening, conn, report, sweep, crashes>>

ReportStatementFails(r) ==
  /\ faults < MaxFaults
  /\ rpc[r] \in {"event", "update"}
  /\ rpc' = [rpc EXCEPT ![r] = "done"]
  /\ faults' = faults + 1
  /\ UNCHANGED <<row, logs, time, lpc, listening, conn, rsess, rtype, sweep, crashes>>

\* The sweep returns at the first error; the next tick starts a new one.
SweepStatementFails ==
  /\ faults < MaxFaults
  /\ spc # "idle"
  /\ spc' = "idle" /\ sbatch' = {} /\ scur' = NoSession
  /\ faults' = faults + 1
  /\ UNCHANGED <<row, logs, time, lpc, listening, conn, report, crashes>>

\* The API process dies and is started again: what it was doing is lost, the
\* listeners are gone, and nothing reconciles the rows it left behind.
CrashRestart ==
  /\ crashes < MaxCrashes
  /\ crashes' = crashes + 1
  /\ lpc' = [s \in Sessions |-> IF lpc[s] \in {"event", "prepare", "register"}
                                THEN "aborted" ELSE lpc[s]]
  /\ listening' = {}
  /\ cpc' = [c \in Conns |-> IF Serving(c) THEN "closed" ELSE cpc[c]]
  /\ rpc' = [r \in Reports |-> IF rpc[r] \in {"event", "update"} THEN "done" ELSE rpc[r]]
  /\ spc' = "idle" /\ sbatch' = {} /\ scur' = NoSession
  /\ UNCHANGED <<row, logs, time, csess, claimed, rsess, rtype, faults>>

\* The launch token's TTL runs out.
TokenExpires(s) ==
  /\ status[s] # "none"
  /\ s \notin expired
  /\ expired' = expired \cup {s}
  /\ UNCHANGED <<row, logs, aged, older, lpc, listening, conn, report, sweep, bounds>>

\* The materialization timeout passes after the last success report, for the older
\* reports first.
ReportAges(s) ==
  /\ Reported(s)
  /\ s \notin aged
  /\ \A t \in Sessions : <<t, s>> \in older => t \in aged
  /\ aged' = aged \cup {s}
  /\ UNCHANGED <<row, logs, expired, older, lpc, listening, conn, report, sweep, bounds>>

-------------------------------------------------------------------------------
LaunchNext(s) ==
  \/ \E a \in Granted : CreateSession(s, a)
  \/ LaunchCreated(s) \/ PrepareLinux(s) \/ PrepareProxy(s) \/ RegisterSession(s)
  \/ LaunchAborts(s) \/ LaunchStatementFails(s) \/ ListenerExpires(s)

ReportNext(r) ==
  \/ \E s \in Sessions, t \in ReportTypes : ReportBegins(r, s, t)
  \/ ReportEvent(r) \/ ReportUpdate(r) \/ ReportStatementFails(r)

SweepStep ==
  \/ SweepSelect \/ SweepUpdate \/ SweepEvent \/ SweepAudit \/ SweepDone
  \/ \E s \in Sessions : SweepCheck(s)

ConnNext(c) ==
  \/ \E s \in Sessions : Authenticate(c, s) \/ AcceptConn(c, s)
  \/ HandshakeFails(c) \/ ProxyConnectedUpdate(c) \/ ProxyConnectedEvent(c)
  \/ NoSessionChannel(c) \/ SQLServerDialled(c) \/ UseCredential(c)
  \/ UpstreamFails(c) \/ UpstreamConnected(c)
  \/ ShellStartedUpdate(c) \/ ShellStartedEvent(c) \/ ShellStartedAudit(c)
  \/ RelayBegins(c) \/ RelayRecords(c) \/ BridgeFails(c) \/ BridgeEnds(c)
  \/ EndedUpdate(c) \/ EndedEvent(c) \/ EndedAudit(c)
  \/ FailedUpdate(c) \/ FailedEvent(c) \/ FailedAudit(c)
  \/ ConnStatementFails(c)

Next ==
  \/ \E s \in Sessions : LaunchNext(s) \/ TokenExpires(s) \/ ReportAges(s)
  \/ \E r \in Reports : ReportNext(r)
  \/ SweepStep \/ SweepStatementFails
  \/ \E c \in Conns : ConnNext(c)
  \/ CrashRestart

Spec == Init /\ [][Next]_vars

\* The ticker keeps the sweeper running and time passes.  Nothing is assumed of the
\* clients, the connector or the upstream hosts.
FairSpec ==
  /\ Spec
  /\ WF_vars(SweepStep)
  /\ \A s \in Sessions : WF_vars(ReportAges(s))

-------------------------------------------------------------------------------
(* Properties.                                                             *)

\* The timestamps of a row agree with its status: a row that is pending carries
\* neither, an active or completed one has started, a completed or failed one has
\* ended.  (An active row may carry ended_at: MarkShellStarted reopens a session.)
RowShape ==
  \A s \in Sessions :
    /\ status[s] \in {"none", "pending"} => ~started[s] /\ ~ended[s]
    /\ status[s] \in {"active", "completed"} => started[s]
    /\ status[s] \in Terminal => ended[s]

\* The UPDATE of MarkProxyConnected claims the session for good: no later statement
\* of any actor makes the row pending again, so the guard of the sweeper's and of
\* the report's UPDATE protects the claim.
ClaimedNotPending ==
  \A c \in claimed : status[csess[c]] \notin {"none", "pending"}

\* The sweeper never fails a session that a proxy connection has claimed, however
\* stale its SELECT and its launchMaterialized check are when it updates the row.
SweepSparesClaimed ==
  [][spc = "update" /\ spc' = "event" => \A c \in claimed : csess[c] # scur]_vars

\* The logs are written in an order an auditor can rely on: an entry about the end
\* or the start of a session in audit_events has its twin in session_events, an end
\* event means that the row has ended_at, and, unless a statement failed, nobody is
\* connected upstream without an audited use of the credential (to a database, where
\* the order is the engine's, this is not promised).
AuditTrail ==
  \A s \in Sessions, a \in Authors :
    /\ <<"end_success", s, a>> \in audits => <<"session_ended", s, a>> \in events
    /\ <<"end_failed", s, a>> \in audits => <<"session_failed", s, a>> \in events
    /\ <<"session_start", s, a>> \in audits => <<"shell_started", s, a>> \in events
    /\ <<"session_ended", s, a>> \in events => ended[s]
    /\ <<"session_failed", s, a>> \in events => ended[s]
    /\ faults = 0 /\ action[s] # "dbeaver" /\ <<"upstream_connected", s, a>> \in events
         => <<"credential_usage", s, a>> \in audits

\* When the last connection of a session is over, the session is: however several
\* connections interleave, and even though MarkShellStarted of one can reopen what
\* another has ended, the row is completed or failed once one of them has ended it
\* and none is left.  A failed statement or a crash leaves the row behind.
NoConnectionNoActive ==
  faults = 0 /\ crashes = 0 =>
    \A s \in Sessions :
      /\ \E c \in Conns : csess[c] = s /\ cpc[c] \in PostFinal
      /\ \A c \in Conns : csess[c] = s => cpc[c] \notin PreFinal
      => status[s] \in Terminal

\* Who holds a session in the sense of SessionRow.
Held(s) ==
  \/ lpc[s] \in {"event", "prepare", "register"}
  \/ s \in listening
  \/ \E c \in Conns : csess[c] = s /\ Serving(c)

Row == INSTANCE SessionRow WITH held <- [s \in Sessions |-> Held(s)]

\* The operations implement the promise of the sessions table: in particular a
\* finished session that no connection, listener or launch request holds keeps its
\* status for ever, although tokens can be presented again, reports can be late and
\* a sweep can be under way.
RowSpec == Row!Spec

\* A launch the connector reported as successful, whose row is still pending (the
\* UPDATE failed or the server crashed before it) and that shows no sign of life.
Stuck(s) ==
  /\ status[s] = "pending"
  /\ Reported(s)
  /\ ~Materialized(s)

\* Pending rows that show a sign of life are selected and skipped by every sweep.  (A
\* database launch is one as soon as it is reported: the report is its sign of life.)
Skipped(s) == status[s] = "pending" /\ Reported(s) /\ Materialized(s)

\* As many skipped rows as a sweep examines are ahead of s.
Crowded(s) ==
  Cardinality({t \in Sessions : Skipped(t) /\ <<t, s>> \in older}) >= SweepLimit

\* The sweeper resolves every stuck launch, whatever crashes and failed statements
\* of other operations and of the sweep itself come before and however many other
\* launches are stuck: only SweepLimit or more rows with an older report that no
\* sweep will ever touch can keep it from being reached.
StuckLaunchSwept == \A s \in Sessions : Stuck(s) ~> (~Stuck(s) \/ Crowded(s))

\* LOCAL_TESTING.md: "if connector reports launch success but no proxy/client
\* connection occurs, session should transition from `pending` to `failed` after
\* launch materialization timeout".
Unmaterialized(s) ==
  /\ Reported(s)
  /\ \A c \in Conns : csess[c] # s
UnmaterializedLaunchFails ==
  \A s \in Sessions :
    Unmaterialized(s) ~> (status[s] = "failed" \/ ~Unmaterialized(s))
===============================================================================
