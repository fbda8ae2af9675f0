------------------------ MODULE SessionLifecycleProofs ------------------------
(***************************************************************************)
(* Proofs about SessionLifecycle, for any sets of sessions, connections    *)
(* and reports and any number of failed statements and crashes.            *)
(***************************************************************************)
EXTENDS SessionLifecycle, TLAPS

USE DEF row, logs, time, conn, report, sweep, bounds

-------------------------------------------------------------------------------
(* Type correctness.  An operation writes to the row and the logs of the   *)
(* session it works for, so the types rest on the fact that every actor at *)
(* work has a session whose row exists.                                    *)

Known ==
  /\ \A s \in Sessions : lpc[s] = "none" <=> status[s] = "none"
  /\ \A s \in Sessions : IF status[s] = "none" THEN action[s] = "none"
                                                ELSE action[s] \in Actions
  /\ \A s \in listening \cup sbatch : status[s] # "none"
  /\ \A c \in Conns : IF cpc[c] = "free"
                       THEN csess[c] = NoSession /\ c \notin claimed
                       ELSE csess[c] \in Sessions /\ status[csess[c]] # "none"
  /\ \A r \in Reports : rpc[r] # "free"
                         => rsess[r] \in Sessions /\ status[rsess[r]] # "none"
  /\ spc \in {"update", "event", "audit"}
       => scur \in Sessions /\ status[scur] # "none"

Typed == TypeOK /\ Known

\* The empty database is typed.
LEMMA InitTyped == Init => Typed
  BY LifecycleAssumption
     DEF Init, Typed, TypeOK, Known, Statuses, LaunchSteps, ConnSteps, ReportTypes

\* The launch request and the passing of time.
LEMMA LaunchTyped ==
  ASSUME Typed, NEW s \in Sessions, LaunchNext(s) \/ TokenExpires(s) \/ ReportAges(s)
  PROVE  Typed'
  <1> USE DEF Typed, TypeOK, Known, Statuses, LaunchSteps
  <1>1. ASSUME NEW a \in Granted, CreateSession(s, a) PROVE Typed'
    BY <1>1, LifecycleAssumption DEF CreateSession
  <1>2. CASE LaunchCreated(s)
    BY <1>2 DEF LaunchCreated, Log, EventTypes, Authors
  <1>3. CASE PrepareLinux(s)
    BY <1>3 DEF PrepareLinux
  <1>4. CASE PrepareProxy(s)
    BY <1>4 DEF PrepareProxy, Audit, AuditTypes, Authors
  <1>5. CASE RegisterSession(s)
    BY <1>5 DEF RegisterSession
  <1>6. CASE LaunchAborts(s)
    BY <1>6 DEF LaunchAborts
  <1>7. CASE LaunchStatementFails(s)
    BY <1>7, LifecycleAssumption DEF LaunchStatementFails
  <1>8. CASE ListenerExpires(s)
    BY <1>8 DEF ListenerExpires
  <1>9. CASE TokenExpires(s)
    BY <1>9 DEF TokenExpires
  <1>10. CASE ReportAges(s)
    BY <1>10 DEF ReportAges
  <1> QED
    BY <1>1, <1>2, <1>3, <1>4, <1>5, <1>6, <1>7, <1>8, <1>9, <1>10 DEF LaunchNext

\* The connector's reports.
LEMMA ReportTyped ==
  ASSUME Typed, NEW r \in Reports, ReportNext(r)
  PROVE  Typed'
  <1> USE DEF Typed, TypeOK, Known, Statuses
  <1>1. ASSUME NEW s \in Sessions, NEW t \in ReportTypes, ReportBegins(r, s, t)
        PROVE  Typed'
    BY <1>1 DEF ReportBegins
  <1>2. CASE ReportEvent(r)
    BY <1>2 DEF ReportEvent, Log, EventTypes, Authors
  <1>3. CASE ReportUpdate(r)
    <2>1. CASE status[rsess[r]] = "pending"
      <3>1. /\ status' = [status EXCEPT ![rsess[r]] = "active"]
            /\ started' = [started EXCEPT ![rsess[r]] = TRUE]
        BY <1>3, <2>1 DEF ReportUpdate
      <3>2. TypeOK'
        BY <1>3, <2>1, <3>1 DEF ReportUpdate
      <3>3. Known'
        BY <1>3, <2>1, <3>1 DEF ReportUpdate
      <3> QED
        BY <3>2, <3>3
    <2>2. CASE status[rsess[r]] # "pending"
      BY <1>3, <2>2 DEF ReportUpdate
    <2> QED
      BY <2>1, <2>2
  <1>4. CASE ReportStatementFails(r)
    BY <1>4, LifecycleAssumption DEF ReportStatementFails
  <1> QED
    BY <1>1, <1>2, <1>3, <1>4 DEF ReportNext

\* The sweeper.
LEMMA SweepTyped ==
  ASSUME Typed, SweepStep \/ SweepStatementFails
  PROVE  Typed'
  <1> USE DEF Typed, TypeOK, Known, Statuses
  <1>1. CASE SweepSelect
    BY <1>1 DEF SweepSelect, SweepDue
  <1>2. ASSUME NEW s \in Sessions, SweepCheck(s) PROVE Typed'
    BY <1>2 DEF SweepCheck
  <1>3. CASE SweepUpdate
    <2>1. CASE status[scur] = "pending"
      <3>1. /\ status' = [status EXCEPT ![scur] = "failed"]
            /\ ended' = [ended EXCEPT ![scur] = TRUE]
        BY <1>3, <2>1 DEF SweepUpdate
      <3>2. TypeOK'
        BY <1>3, <2>1, <3>1 DEF SweepUpdate
      <3>3. Known'
        BY <1>3, <2>1, <3>1 DEF SweepUpdate
      <3> QED
        BY <3>2, <3>3
    <2>2. CASE status[scur] # "pending"
      BY <1>3, <2>2 DEF SweepUpdate
    <2> QED
      BY <2>1, <2>2
  <1>4. CASE SweepEvent
    BY <1>4 DEF SweepEvent, Log, EventTypes, Authors
  <1>5. CASE SweepAudit
    BY <1>5 DEF SweepAudit, Audit, AuditTypes, Authors
  <1>6. CASE SweepDone
    BY <1>6 DEF SweepDone
  <1>7. CASE SweepStatementFails
    BY <1>7, LifecycleAssumption DEF SweepStatementFails
  <1> QED
    BY <1>1, <1>2, <1>3, <1>4, <1>5, <1>6, <1>7 DEF SweepStep

\* The proxy connections.
LEMMA ConnTyped ==
  ASSUME Typed, NEW c \in Conns, ConnNext(c)
  PROVE  Typed'
  <1> USE DEF Typed, TypeOK, Known, Statuses, ConnSteps, PreFinal, PostFinal, Goto
  <1>1. ASSUME NEW s \in Sessions, Authenticate(c, s) PROVE Typed'
    BY <1>1 DEF Authenticate
  <1>2. ASSUME NEW s \in Sessions, AcceptConn(c, s) PROVE Typed'
    BY <1>2 DEF AcceptConn
  <1>3. CASE HandshakeFails(c)
    BY <1>3 DEF HandshakeFails
  <1>4. CASE ProxyConnectedUpdate(c)
    <2>1. CASE status[csess[c]] = "pending"
      <3>1. /\ status' = [status EXCEPT ![csess[c]] = "active"]
            /\ started' = [started EXCEPT ![csess[c]] = TRUE]
        BY <1>4, <2>1 DEF ProxyConnectedUpdate
      <3>2. TypeOK'
        BY <1>4, <2>1, <3>1 DEF ProxyConnectedUpdate
      <3>3. Known'
        BY <1>4, <2>1, <3>1 DEF ProxyConnectedUpdate
      <3> QED
        BY <3>2, <3>3
    <2>2. CASE status[csess[c]] # "pending"
      BY <1>4, <2>2 DEF ProxyConnectedUpdate
    <2> QED
      BY <2>1, <2>2
  <1>5. CASE ProxyConnectedEvent(c)
    BY <1>5 DEF ProxyConnectedEvent, Log, EventTypes, Authors
  <1>6. CASE NoSessionChannel(c)
    BY <1>6 DEF NoSessionChannel
  <1>7. CASE UseCredential(c)
    BY <1>7 DEF UseCredential, Audit, AuditTypes, Authors
  <1>8. CASE UpstreamFails(c)
    BY <1>8 DEF UpstreamFails
  <1>9. CASE UpstreamConnected(c)
    BY <1>9 DEF UpstreamConnected, Log, EventTypes, Authors
  <1>10. CASE ShellStartedUpdate(c)
    BY <1>10 DEF ShellStartedUpdate
  <1>11. CASE ShellStartedEvent(c)
    BY <1>11 DEF ShellStartedEvent, Log, EventTypes, Authors
  <1>12. CASE ShellStartedAudit(c)
    BY <1>12 DEF ShellStartedAudit, Audit, AuditTypes, Authors
  <1>13. CASE RelayBegins(c)
    BY <1>13 DEF RelayBegins
  <1>14. CASE RelayRecords(c)
    BY <1>14 DEF RelayRecords, Log, EventTypes, RelayEvents, RelayEvent, Actions, Authors
  <1>15. CASE BridgeFails(c)
    BY <1>15 DEF BridgeFails
  <1>16. CASE BridgeEnds(c)
    BY <1>16 DEF BridgeEnds
  <1>17. CASE EndedUpdate(c)
    BY <1>17 DEF EndedUpdate
  <1>18. CASE EndedEvent(c)
    BY <1>18 DEF EndedEvent, Log, EventTypes, Authors
  <1>19. CASE EndedAudit(c)
    BY <1>19 DEF EndedAudit, Audit, AuditTypes, Authors
  <1>20. CASE FailedUpdate(c)
    BY <1>20 DEF FailedUpdate
  <1>21. CASE FailedEvent(c)
    BY <1>21 DEF FailedEvent, Log, EventTypes, Authors
  <1>22. CASE FailedAudit(c)
    BY <1>22 DEF FailedAudit, Audit, AuditTypes, Authors
  <1>23. CASE ConnStatementFails(c)
    BY <1>23, LifecycleAssumption DEF ConnStatementFails
  <1>24. CASE SQLServerDialled(c)
    BY <1>24 DEF SQLServerDialled, Log, EventTypes, Authors
  <1> QED
    BY <1>1, <1>2, <1>3, <1>4, <1>5, <1>6, <1>7, <1>8, <1>9, <1>10, <1>11, <1>12,
       <1>13, <1>14, <1>15, <1>16, <1>17, <1>18, <1>19, <1>20, <1>21, <1>22,
       <1>23, <1>24
       DEF ConnNext

\* A crash keeps the types.
LEMMA CrashTyped ==
  ASSUME Typed, CrashRestart
  PROVE  Typed'
  BY LifecycleAssumption
     DEF CrashRestart, Typed, TypeOK, Known, LaunchSteps, ConnSteps, PreFinal, PostFinal,
         Serving

\* Every actor at work has a session whose row exists, and every variable its type.
THEOREM TypeCorrect == Spec => []Typed
  <1>1. Typed /\ [Next]_vars => Typed'
    <2> SUFFICES ASSUME Typed, [Next]_vars PROVE Typed'
      OBVIOUS
    <2>1. CASE UNCHANGED vars
      BY <2>1 DEF vars, Typed, TypeOK, Known
    <2> QED
      BY <2>1, LaunchTyped, ReportTyped, SweepTyped, ConnTyped, CrashTyped DEF Next
  <1> QED
    BY <1>1, InitTyped, PTL DEF Spec

\* TypeOK, the invariant of the runs.
COROLLARY TypeInvariant == Spec => []TypeOK
  BY TypeCorrect, PTL DEF Typed
-------------------------------------------------------------------------------
(* The row.  Seven of the operations write it; what each writes is enough  *)
(* for the shape of the row and for the claim of a proxy connection.       *)

\* The steps that write a row; every other one leaves all rows as they are.
LEMMA RowWriters ==
  ASSUME Next
  PROVE  \/ UNCHANGED row
         \/ \E s \in Sessions, a \in Granted : CreateSession(s, a)
         \/ \E r \in Reports : ReportUpdate(r)
         \/ SweepUpdate
         \/ \E c \in Conns : \/ ProxyConnectedUpdate(c) \/ ShellStartedUpdate(c)
                             \/ EndedUpdate(c) \/ FailedUpdate(c)
  <1>1. CASE \E s \in Sessions : LaunchNext(s) \/ TokenExpires(s) \/ ReportAges(s)
    BY <1>1 DEF LaunchNext, LaunchCreated, PrepareLinux, PrepareProxy, RegisterSession,
                LaunchAborts, LaunchStatementFails, ListenerExpires, TokenExpires,
                ReportAges
  <1>2. CASE \E r \in Reports : ReportNext(r)
    BY <1>2 DEF ReportNext, ReportBegins, ReportEvent, ReportStatementFails
  <1>3. CASE SweepStep \/ SweepStatementFails
    BY <1>3 DEF SweepStep, SweepSelect, SweepCheck, SweepEvent, SweepAudit, SweepDone,
                SweepStatementFails
  <1>4. CASE \E c \in Conns : ConnNext(c)
    BY <1>4 DEF ConnNext, Authenticate, AcceptConn, HandshakeFails, ProxyConnectedEvent,
                NoSessionChannel, SQLServerDialled, UseCredential, UpstreamFails, UpstreamConnected,
                ShellStartedEvent, ShellStartedAudit, RelayBegins, RelayRecords,
                BridgeFails, BridgeEnds, EndedEvent, EndedAudit, FailedEvent,
                FailedAudit, ConnStatementFails
  <1>5. CASE CrashRestart
    BY <1>5 DEF CrashRestart
  <1> QED
    BY <1>1, <1>2, <1>3, <1>4, <1>5 DEF Next

\* What a writer does to the row: it inserts a pending one, or it leaves the row of
\* some session s active, failed or completed, with the timestamps that go with it.
LEMMA RowEffects ==
  ASSUME Typed, Next
  PROVE  \/ UNCHANGED <<status, started, ended>>
         \/ \E s \in Sessions :
              \/ /\ status[s] = "none"
                 /\ status' = [status EXCEPT ![s] = "pending"]
                 /\ UNCHANGED <<started, ended>>
              \/ /\ status[s] # "none"
                 /\ status' = [status EXCEPT ![s] = "active"]
                 /\ started' = [started EXCEPT ![s] = TRUE]
                 /\ UNCHANGED ended
              \/ /\ status[s] # "none"
                 /\ status' = [status EXCEPT ![s] = "failed"]
                 /\ ended' = [ended EXCEPT ![s] = TRUE]
                 /\ UNCHANGED started
              \/ /\ status[s] # "none"
                 /\ status' = [status EXCEPT ![s] = "completed"]
                 /\ started' = [started EXCEPT ![s] = TRUE]
                 /\ ended' = [ended EXCEPT ![s] = TRUE]
  <1> USE DEF Typed, Known, Goto
  <1>1. ASSUME NEW s \in Sessions, NEW a \in Granted, CreateSession(s, a)
        PROVE  /\ status[s] = "none"
               /\ status' = [status EXCEPT ![s] = "pending"]
               /\ UNCHANGED <<started, ended>>
    BY <1>1 DEF CreateSession
  <1>2. ASSUME NEW r \in Reports, ReportUpdate(r)
        PROVE  \/ UNCHANGED <<status, started, ended>>
               \/ /\ rsess[r] \in Sessions
                  /\ status[rsess[r]] # "none"
                  /\ status' = [status EXCEPT ![rsess[r]] = "active"]
                  /\ started' = [started EXCEPT ![rsess[r]] = TRUE]
                  /\ UNCHANGED ended
    BY <1>2 DEF ReportUpdate
  <1>3. ASSUME SweepUpdate
        PROVE  \/ UNCHANGED <<status, started, ended>>
               \/ /\ scur \in Sessions
                  /\ status[scur] # "none"
                  /\ status' = [status EXCEPT ![scur] = "failed"]
                  /\ ended' = [ended EXCEPT ![scur] = TRUE]
                  /\ UNCHANGED started
    BY <1>3 DEF SweepUpdate
  <1>4. ASSUME NEW c \in Conns, ProxyConnectedUpdate(c) \/ ShellStartedUpdate(c)
        PROVE  \/ UNCHANGED <<status, started, ended>>
               \/ /\ csess[c] \in Sessions
                  /\ status[csess[c]] # "none"
                  /\ status' = [status EXCEPT ![csess[c]] = "active"]
                  /\ started' = [started EXCEPT ![csess[c]] = TRUE]
                  /\ UNCHANGED ended
    BY <1>4 DEF ProxyConnectedUpdate, ShellStartedUpdate
  <1>5. ASSUME NEW c \in Conns, EndedUpdate(c)
        PROVE  /\ csess[c] \in Sessions
               /\ status[csess[c]] # "none"
               /\ status' = [status EXCEPT ![csess[c]] = "completed"]
               /\ started' = [started EXCEPT ![csess[c]] = TRUE]
               /\ ended' = [ended EXCEPT ![csess[c]] = TRUE]
    BY <1>5 DEF EndedUpdate
  <1>6. ASSUME NEW c \in Conns, FailedUpdate(c)
        PROVE  /\ csess[c] \in Sessions
               /\ status[csess[c]] # "none"
               /\ status' = [status EXCEPT ![csess[c]] = "failed"]
               /\ ended' = [ended EXCEPT ![csess[c]] = TRUE]
               /\ UNCHANGED started
    BY <1>6 DEF FailedUpdate
  <1> HIDE DEF Typed, Known
  <1> QED
    BY RowWriters, <1>1, <1>2, <1>3, <1>4, <1>5, <1>6

\* A session that has left pending never returns to it.
LEMMA NeverPendingAgain ==
  ASSUME Typed, [Next]_vars, NEW s \in Sessions, status[s] \notin {"none", "pending"}
  PROVE  status'[s] \notin {"none", "pending"}
  <1>1. CASE UNCHANGED vars
    BY <1>1 DEF vars
  <1>2. CASE Next
    BY <1>2, RowEffects DEF Typed, TypeOK
  <1> QED
    BY <1>1, <1>2

\* started_at and ended_at are set at most once and agree with the status, whoever
\* writes the row in whatever order.
THEOREM RowShapeInvariant == Spec => []RowShape
  <1>1. Init => RowShape
    <2> SUFFICES ASSUME Init, NEW s \in Sessions
                 PROVE  status[s] = "none" /\ started[s] = FALSE /\ ended[s] = FALSE
      BY DEF RowShape, Terminal
    <2> QED
      BY DEF Init
  <1>2. Typed /\ RowShape /\ [Next]_vars => RowShape'
    <2> SUFFICES ASSUME Typed, RowShape, [Next]_vars PROVE RowShape'
      OBVIOUS
    <2>1. CASE UNCHANGED vars
      BY <2>1 DEF vars, RowShape
    <2>2. CASE Next
      BY <2>2, RowEffects DEF Typed, TypeOK, RowShape, Terminal, Statuses
    <2> QED
      BY <2>1, <2>2
  <1> QED
    BY <1>1, <1>2, TypeCorrect, PTL DEF Spec

\* Connections keep their session, and only MarkProxyConnected makes a claim.
LEMMA ClaimMakers ==
  ASSUME Typed, [Next]_vars, NEW c \in Conns, c \in claimed'
  PROVE  \/ c \in claimed /\ csess'[c] = csess[c]
         \/ ProxyConnectedUpdate(c)
  <1> USE DEF Typed, TypeOK, Known, Goto
  <1>1. CASE UNCHANGED vars
    BY <1>1 DEF vars
  <1>2. CASE \E s \in Sessions : LaunchNext(s) \/ TokenExpires(s) \/ ReportAges(s)
    BY <1>2 DEF LaunchNext, CreateSession, LaunchCreated, PrepareLinux, PrepareProxy,
                RegisterSession, LaunchAborts, LaunchStatementFails, ListenerExpires,
                TokenExpires, ReportAges
  <1>3. CASE \E r \in Reports : ReportNext(r)
    BY <1>3 DEF ReportNext, ReportBegins, ReportEvent, ReportUpdate, ReportStatementFails
  <1>4. CASE SweepStep \/ SweepStatementFails
    BY <1>4 DEF SweepStep, SweepSelect, SweepCheck, SweepUpdate, SweepEvent, SweepAudit,
                SweepDone, SweepStatementFails
  <1>5. ASSUME NEW d \in Conns, ConnNext(d)
        PROVE  \/ c \in claimed /\ csess'[c] = csess[c]
               \/ ProxyConnectedUpdate(c)
    <2>1. ASSUME NEW s \in Sessions, Authenticate(d, s) \/ AcceptConn(d, s)
          PROVE  c \in claimed /\ csess'[c] = csess[c]
      BY <2>1 DEF Authenticate, AcceptConn
    <2>2. CASE ProxyConnectedUpdate(d)
      BY <2>2 DEF ProxyConnectedUpdate
    <2>3. CASE UNCHANGED <<csess, claimed>>
      BY <2>3
    <2> HIDE DEF Typed, TypeOK, Known, Goto
    <2> QED
      BY <1>5, <2>1, <2>2, <2>3
         DEF ConnNext, HandshakeFails, ProxyConnectedEvent, NoSessionChannel,
             SQLServerDialled, UseCredential, UpstreamFails, UpstreamConnected, ShellStartedUpdate,
             ShellStartedEvent, ShellStartedAudit, RelayBegins, RelayRecords,
             BridgeFails, BridgeEnds, EndedUpdate, EndedEvent, EndedAudit,
             FailedUpdate, FailedEvent, FailedAudit, ConnStatementFails
  <1>6. CASE CrashRestart
    BY <1>6 DEF CrashRestart
  <1> QED
    BY <1>1, <1>2, <1>3, <1>4, <1>5, <1>6 DEF Next

\* A session claimed by a proxy connection is never pending again.
THEOREM ClaimInvariant == Spec => []ClaimedNotPending
  <1>1. Init => ClaimedNotPending
    BY DEF Init, ClaimedNotPending
  <1>2. Typed /\ Typed' /\ ClaimedNotPending /\ [Next]_vars => ClaimedNotPending'
    <2> SUFFICES ASSUME Typed, Typed', ClaimedNotPending, [Next]_vars,
                        NEW c \in Conns, c \in claimed'
                 PROVE  status'[csess'[c]] \notin {"none", "pending"}
      BY DEF Typed, TypeOK, ClaimedNotPending
    <2>1. CASE c \in claimed /\ csess'[c] = csess[c]
      BY <2>1, NeverPendingAgain DEF Typed, TypeOK, Known, ClaimedNotPending
    <2>2. CASE ProxyConnectedUpdate(c)
      BY <2>2 DEF ProxyConnectedUpdate, Goto, Typed, TypeOK, Known
    <2> QED
      BY <2>1, <2>2, ClaimMakers
  <1> QED
    BY <1>1, <1>2, TypeCorrect, PTL DEF Spec

\* Only the sweeper's own UPDATE, on a pending row, takes it to its event.
LEMMA SweepFailsPending ==
  ASSUME Next, spc = "update", spc' = "event"
  PROVE  status[scur] = "pending"
  <1>1. CASE \E s \in Sessions : LaunchNext(s) \/ TokenExpires(s) \/ ReportAges(s)
    BY <1>1 DEF LaunchNext, CreateSession, LaunchCreated, PrepareLinux, PrepareProxy,
                RegisterSession, LaunchAborts, LaunchStatementFails, ListenerExpires,
                TokenExpires, ReportAges
  <1>2. CASE \E r \in Reports : ReportNext(r)
    BY <1>2 DEF ReportNext, ReportBegins, ReportEvent, ReportUpdate, ReportStatementFails
  <1>3. CASE SweepStep \/ SweepStatementFails
    BY <1>3 DEF SweepStep, SweepSelect, SweepCheck, SweepUpdate, SweepEvent, SweepAudit,
                SweepDone, SweepStatementFails
  <1>4. CASE \E c \in Conns : ConnNext(c)
    BY <1>4 DEF ConnNext, Authenticate, AcceptConn, HandshakeFails, ProxyConnectedUpdate,
                ProxyConnectedEvent, NoSessionChannel, SQLServerDialled, UseCredential, UpstreamFails,
                UpstreamConnected, ShellStartedUpdate, ShellStartedEvent,
                ShellStartedAudit, RelayBegins, RelayRecords, BridgeFails, BridgeEnds,
                EndedUpdate, EndedEvent, EndedAudit, FailedUpdate, FailedEvent,
                FailedAudit, ConnStatementFails
  <1>5. CASE CrashRestart
    BY <1>5 DEF CrashRestart
  <1> QED
    BY <1>1, <1>2, <1>3, <1>4, <1>5 DEF Next

\* The sweeper spares a claimed session, although it selected and examined the row
\* earlier: the status it finds when it updates the row is not pending.
THEOREM SweeperSparesClaimed == Spec => SweepSparesClaimed
  <1>1. Typed /\ ClaimedNotPending /\ [Next]_vars
          => [spc = "update" /\ spc' = "event" => \A c \in claimed : csess[c] # scur]_vars
    <2> SUFFICES ASSUME ClaimedNotPending, Next, spc = "update", spc' = "event"
                 PROVE  \A c \in claimed : csess[c] # scur
      BY DEF vars
    <2> QED
      BY SweepFailsPending DEF ClaimedNotPending
  <1> QED
    BY <1>1, TypeCorrect, ClaimInvariant, PTL DEF Spec, SweepSparesClaimed

-------------------------------------------------------------------------------
(* The logs.  An entry of audit_events follows its twin because one        *)
(* connection writes both in turn: the invariant says what each point of a *)
(* handler has behind it.                                                  *)

Behind(c) ==
  /\ cpc[c] \in {"end_event", "end_audit", "fail_event", "fail_audit"}
       => ended[csess[c]]
  /\ cpc[c] = "end_audit" => <<"session_ended", csess[c], c>> \in events
  /\ cpc[c] = "fail_audit" => <<"session_failed", csess[c], c>> \in events
  /\ cpc[c] = "shell_audit" => <<"shell_started", csess[c], c>> \in events
  /\ faults = 0 /\ cpc[c] = "dialing" => <<"credential_usage", csess[c], c>> \in audits

SweepBehind ==
  /\ spc \in {"event", "audit"} => ended[scur]
  /\ spc = "audit" => <<"session_failed", scur, Server>> \in events

Trail == AuditTrail /\ (\A c \in Conns : Behind(c)) /\ SweepBehind

\* The launch request and the passing of time.
LEMMA LaunchTrail ==
  ASSUME Typed, Trail, NEW s \in Sessions, LaunchNext(s) \/ TokenExpires(s) \/ ReportAges(s)
  PROVE  Trail'
  <1> USE LifecycleAssumption
      DEF Typed, TypeOK, Known, Trail, AuditTrail, Behind, SweepBehind
  <1>1. ASSUME NEW a \in Granted, CreateSession(s, a) PROVE Trail'
    BY <1>1 DEF CreateSession
  <1>2. CASE LaunchCreated(s)
    BY <1>2 DEF LaunchCreated, Log
  <1>3. CASE PrepareLinux(s)
    BY <1>3 DEF PrepareLinux
  <1>4. CASE PrepareProxy(s)
    BY <1>4 DEF PrepareProxy, Audit
  <1>5. CASE RegisterSession(s)
    BY <1>5 DEF RegisterSession
  <1>6. CASE LaunchAborts(s)
    BY <1>6 DEF LaunchAborts
  <1>7. CASE LaunchStatementFails(s)
    <2>1. faults' # 0
      BY <1>7 DEF LaunchStatementFails
    <2> QED
      BY <1>7, <2>1 DEF LaunchStatementFails
  <1>8. CASE ListenerExpires(s)
    BY <1>8 DEF ListenerExpires
  <1>9. CASE TokenExpires(s)
    BY <1>9 DEF TokenExpires
  <1>10. CASE ReportAges(s)
    BY <1>10 DEF ReportAges
  <1> QED
    BY <1>1, <1>2, <1>3, <1>4, <1>5, <1>6, <1>7, <1>8, <1>9, <1>10 DEF LaunchNext

\* The connector's reports.
LEMMA ReportTrail ==
  ASSUME Typed, Trail, NEW r \in Reports, ReportNext(r)
  PROVE  Trail'
  <1> USE LifecycleAssumption
      DEF Typed, TypeOK, Known, Trail, AuditTrail, Behind, SweepBehind
  <1>1. ASSUME NEW s \in Sessions, NEW t \in ReportTypes, ReportBegins(r, s, t)
        PROVE  Trail'
    BY <1>1 DEF ReportBegins
  <1>2. CASE ReportEvent(r)
    BY <1>2 DEF ReportEvent, Log, ReportTypes
  <1>3. CASE ReportUpdate(r)
    BY <1>3 DEF ReportUpdate
  <1>4. CASE ReportStatementFails(r)
    <2>1. faults' # 0
      BY <1>4 DEF ReportStatementFails
    <2> QED
      BY <1>4, <2>1 DEF ReportStatementFails
  <1> QED
    BY <1>1, <1>2, <1>3, <1>4 DEF ReportNext

\* The sweeper.
LEMMA SweepTrail ==
  ASSUME Typed, Trail, SweepStep \/ SweepStatementFails
  PROVE  Trail'
  <1> USE LifecycleAssumption
      DEF Typed, TypeOK, Known, Trail, AuditTrail, Behind, SweepBehind
  <1>1. CASE SweepSelect
    BY <1>1 DEF SweepSelect
  <1>2. ASSUME NEW s \in Sessions, SweepCheck(s) PROVE Trail'
    BY <1>2 DEF SweepCheck
  <1>3. CASE SweepUpdate
    <2>1. CASE status[scur] = "pending"
      <3>1. /\ ended' = [ended EXCEPT ![scur] = TRUE]
            /\ spc' = "event"
            /\ UNCHANGED <<action, events, audits, cpc, csess, scur, faults>>
        BY <1>3, <2>1 DEF SweepUpdate
      <3>2. AuditTrail'
        BY <3>1
      <3>3. ASSUME NEW c \in Conns PROVE Behind(c)'
        BY <3>1
      <3>4. scur \in Sessions
        BY <1>3 DEF SweepUpdate
      <3>5. SweepBehind'
        BY <3>1, <3>4
      <3> HIDE DEF Typed, TypeOK, Known, AuditTrail, Behind, SweepBehind
      <3> QED
        BY <3>2, <3>3, <3>5
    <2>2. CASE status[scur] # "pending"
      <3>1. /\ spc' = "next"
            /\ UNCHANGED <<action, ended, events, audits, cpc, csess, scur, faults>>
        BY <1>3, <2>2 DEF SweepUpdate
      <3> QED
        BY <3>1
    <2> QED
      BY <2>1, <2>2
  <1>4. CASE SweepEvent
    BY <1>4 DEF SweepEvent, Log
  <1>5. CASE SweepAudit
    BY <1>5 DEF SweepAudit, Audit
  <1>6. CASE SweepDone
    BY <1>6 DEF SweepDone
  <1>7. CASE SweepStatementFails
    <2>1. faults' # 0
      BY <1>7 DEF SweepStatementFails
    <2> QED
      BY <1>7, <2>1 DEF SweepStatementFails
  <1> QED
    BY <1>1, <1>2, <1>3, <1>4, <1>5, <1>6, <1>7 DEF SweepStep

\* The proxy connections.
LEMMA ConnTrail ==
  ASSUME Typed, Trail, NEW c \in Conns, ConnNext(c)
  PROVE  Trail'
  <1> USE LifecycleAssumption
      DEF Typed, TypeOK, Known, Trail, AuditTrail, Behind, SweepBehind, Goto
  <1>1. ASSUME NEW s \in Sessions, Authenticate(c, s) PROVE Trail'
    BY <1>1 DEF Authenticate
  <1>2. ASSUME NEW s \in Sessions, AcceptConn(c, s) PROVE Trail'
    BY <1>2 DEF AcceptConn
  <1>3. CASE HandshakeFails(c)
    BY <1>3 DEF HandshakeFails
  <1>4. CASE ProxyConnectedUpdate(c)
    BY <1>4 DEF ProxyConnectedUpdate
  <1>5. CASE ProxyConnectedEvent(c)
    BY <1>5 DEF ProxyConnectedEvent, Log
  <1>6. CASE NoSessionChannel(c)
    BY <1>6 DEF NoSessionChannel
  <1>7. CASE UseCredential(c)
    BY <1>7 DEF UseCredential, Audit
  <1>8. CASE UpstreamFails(c)
    BY <1>8 DEF UpstreamFails
  <1>9. CASE UpstreamConnected(c)
    BY <1>9 DEF UpstreamConnected, Log
  <1>10. CASE ShellStartedUpdate(c)
    BY <1>10 DEF ShellStartedUpdate
  <1>11. CASE ShellStartedEvent(c)
    BY <1>11 DEF ShellStartedEvent, Log
  <1>12. CASE ShellStartedAudit(c)
    BY <1>12 DEF ShellStartedAudit, Audit
  <1>13. CASE RelayBegins(c)
    BY <1>13 DEF RelayBegins
  <1>14. CASE RelayRecords(c)
    <2> DEFINE t == RelayEvent(action[csess[c]])
    <2>1. t \in RelayEvents
      BY <1>14 DEF RelayRecords, RelayEvent, RelayEvents, Actions
    <2>2. events' = events \cup {<<t, csess[c], c>>}
      BY <1>14 DEF RelayRecords, Log
    <2> HIDE DEF t
    <2> QED
      BY <1>14, <2>1, <2>2 DEF RelayRecords, RelayEvents
  <1>15. CASE BridgeFails(c)
    BY <1>15 DEF BridgeFails
  <1>16. CASE BridgeEnds(c)
    <2>1. cpc' = [cpc EXCEPT ![c] = "end_update"]
      BY <1>16 DEF BridgeEnds
    <2> QED
      BY <1>16, <2>1 DEF BridgeEnds
  <1>17. CASE EndedUpdate(c)
    BY <1>17 DEF EndedUpdate
  <1>18. CASE EndedEvent(c)
    <2>1. /\ ended[csess[c]]
          /\ events' = events \cup {<<"session_ended", csess[c], c>>}
          /\ cpc' = [cpc EXCEPT ![c] = "end_audit"]
          /\ UNCHANGED <<action, ended, audits, csess, spc, scur, faults>>
      BY <1>18 DEF EndedEvent, Log
    <2>2. AuditTrail'
      <3> HIDE DEF Typed, Known, TypeOK
      <3> QED
        BY <2>1
    <2>3. ASSUME NEW d \in Conns PROVE Behind(d)'
      BY <2>1
    <2>4. SweepBehind'
      BY <2>1
    <2> HIDE DEF Typed, TypeOK, Known, AuditTrail, Behind, SweepBehind
    <2> QED
      BY <2>2, <2>3, <2>4
  <1>19. CASE EndedAudit(c)
    BY <1>19 DEF EndedAudit, Audit
  <1>20. CASE FailedUpdate(c)
    BY <1>20 DEF FailedUpdate
  <1>21. CASE FailedEvent(c)
    <2>1. /\ ended[csess[c]]
          /\ events' = events \cup {<<"session_failed", csess[c], c>>}
          /\ cpc' = [cpc EXCEPT ![c] = "fail_audit"]
          /\ UNCHANGED <<action, ended, audits, csess, spc, scur, faults>>
      BY <1>21 DEF FailedEvent, Log
    <2>2. AuditTrail'
      <3> HIDE DEF Typed, Known, TypeOK
      <3> QED
        BY <2>1
    <2>3. ASSUME NEW d \in Conns PROVE Behind(d)'
      BY <2>1
    <2>4. SweepBehind'
      BY <2>1
    <2> HIDE DEF Typed, TypeOK, Known, AuditTrail, Behind, SweepBehind
    <2> QED
      BY <2>2, <2>3, <2>4
  <1>22. CASE FailedAudit(c)
    BY <1>22 DEF FailedAudit, Audit
  <1>23. CASE ConnStatementFails(c)
    <2>1. faults' # 0
      BY <1>23 DEF ConnStatementFails
    <2>2. PICK to \in {"open", "prelogin", "dialing", "upstream", "bridging", "closed"} :
            cpc' = [cpc EXCEPT ![c] = to]
      BY <1>23 DEF ConnStatementFails
    <2> QED
      BY <1>23, <2>1, <2>2 DEF ConnStatementFails
  <1>24. CASE SQLServerDialled(c)
    BY <1>24 DEF SQLServerDialled, Log
  <1> QED
    BY <1>1, <1>2, <1>3, <1>4, <1>5, <1>6, <1>7, <1>8, <1>9, <1>10, <1>11, <1>12,
       <1>13, <1>14, <1>15, <1>16, <1>17, <1>18, <1>19, <1>20, <1>21, <1>22,
       <1>23, <1>24 DEF ConnNext

\* A crash leaves the logs as they are and nobody behind them.
LEMMA CrashTrail ==
  ASSUME Typed, Trail, CrashRestart
  PROVE  Trail'
  BY DEF CrashRestart, Serving, Typed, TypeOK, Known, Trail, AuditTrail, Behind,
         SweepBehind

\* The order of the logs, for every interleaving, failed statement and crash.
THEOREM AuditTrailInvariant == Spec => []AuditTrail
  <1>1. Init => Trail
    BY DEF Init, Trail, AuditTrail, Behind, SweepBehind
  <1>2. Typed /\ Trail /\ [Next]_vars => Trail'
    <2> SUFFICES ASSUME Typed, Trail, [Next]_vars PROVE Trail'
      OBVIOUS
    <2>1. CASE UNCHANGED vars
      BY <2>1 DEF vars, Trail, AuditTrail, Behind, SweepBehind
    <2> QED
      BY <2>1, LaunchTrail, ReportTrail, SweepTrail, ConnTrail, CrashTrail DEF Next
  <1>3. Trail => AuditTrail
    BY DEF Trail
  <1> QED
    BY <1>1, <1>2, <1>3, TypeCorrect, PTL DEF Spec
===============================================================================
