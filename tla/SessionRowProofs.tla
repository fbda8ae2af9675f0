--------------------------- MODULE SessionRowProofs ---------------------------
(***************************************************************************)
(* The end of a session, and the refinement of SessionRow.                 *)
(***************************************************************************)
EXTENDS SessionLifecycleProofs

USE DEF row, logs, time, conn, report, sweep, bounds

-------------------------------------------------------------------------------
(* When the last connection is over, the session is.  What keeps the row   *)
(* of a session that was ended from staying active is a connection that    *)
(* has reopened it and has not yet ended it again.                         *)

Reopened == {"shell_event", "shell_audit", "bridging", "end_update", "fail_update"}

SettledBy(c) ==
  /\ status[csess[c]] # "pending"
  /\ \/ status[csess[c]] \in Terminal
     \/ \E d \in Conns : csess[d] = csess[c] /\ cpc[d] \in Reopened

Settled ==
  faults = 0 /\ crashes = 0 => \A c \in Conns : cpc[c] \in PostFinal => SettledBy(c)

\* The launch request and the passing of time.
LEMMA LaunchSettled ==
  ASSUME Typed, Settled, NEW s \in Sessions, LaunchNext(s) \/ TokenExpires(s) \/ ReportAges(s)
  PROVE  Settled'
  <1> USE LifecycleAssumption
      DEF Typed, TypeOK, Known, Settled, SettledBy, Reopened, PostFinal, Terminal, Statuses
  <1>1. ASSUME NEW a \in Granted, CreateSession(s, a) PROVE Settled'
    BY <1>1 DEF CreateSession
  <1>2. CASE LaunchCreated(s)
    BY <1>2 DEF LaunchCreated
  <1>3. CASE PrepareLinux(s)
    BY <1>3 DEF PrepareLinux
  <1>4. CASE PrepareProxy(s)
    BY <1>4 DEF PrepareProxy
  <1>5. CASE RegisterSession(s)
    BY <1>5 DEF RegisterSession
  <1>6. CASE LaunchAborts(s)
    BY <1>6 DEF LaunchAborts
  <1>7. CASE LaunchStatementFails(s)
    <2>1. faults' # 0
      BY <1>7 DEF LaunchStatementFails
    <2> QED
      BY <2>1
  <1>8. CASE ListenerExpires(s)
    BY <1>8 DEF ListenerExpires
  <1>9. CASE TokenExpires(s)
    BY <1>9 DEF TokenExpires
  <1>10. CASE ReportAges(s)
    BY <1>10 DEF ReportAges
  <1> QED
    BY <1>1, <1>2, <1>3, <1>4, <1>5, <1>6, <1>7, <1>8, <1>9, <1>10 DEF LaunchNext

\* The connector's reports.
LEMMA ReportSettled ==
  ASSUME Typed, Settled, NEW r \in Reports, ReportNext(r)
  PROVE  Settled'
  <1> USE LifecycleAssumption
      DEF Typed, TypeOK, Known, Settled, SettledBy, Reopened, PostFinal, Terminal, Statuses
  <1>1. ASSUME NEW s \in Sessions, NEW t \in ReportTypes, ReportBegins(r, s, t)
        PROVE  Settled'
    BY <1>1 DEF ReportBegins
  <1>2. CASE ReportEvent(r)
    BY <1>2 DEF ReportEvent
  <1>3. CASE ReportUpdate(r)
    BY <1>3 DEF ReportUpdate
  <1>4. CASE ReportStatementFails(r)
    <2>1. faults' # 0
      BY <1>4 DEF ReportStatementFails
    <2> QED
      BY <2>1
  <1> QED
    BY <1>1, <1>2, <1>3, <1>4 DEF ReportNext

\* The sweeper.
LEMMA SweepSettled ==
  ASSUME Typed, Settled, SweepStep \/ SweepStatementFails
  PROVE  Settled'
  <1> USE LifecycleAssumption
      DEF Typed, TypeOK, Known, Settled, SettledBy, Reopened, PostFinal, Terminal, Statuses
  <1>1. CASE SweepSelect
    BY <1>1 DEF SweepSelect
  <1>2. ASSUME NEW s \in Sessions, SweepCheck(s) PROVE Settled'
    BY <1>2 DEF SweepCheck
  <1>3. CASE SweepUpdate
    BY <1>3 DEF SweepUpdate
  <1>4. CASE SweepEvent
    BY <1>4 DEF SweepEvent
  <1>5. CASE SweepAudit
    BY <1>5 DEF SweepAudit
  <1>6. CASE SweepDone
    BY <1>6 DEF SweepDone
  <1>7. CASE SweepStatementFails
    <2>1. faults' # 0
      BY <1>7 DEF SweepStatementFails
    <2> QED
      BY <2>1
  <1> QED
    BY <1>1, <1>2, <1>3, <1>4, <1>5, <1>6, <1>7 DEF SweepStep

\* The proxy connections.
LEMMA ConnSettled ==
  ASSUME Typed, Settled, NEW c \in Conns, ConnNext(c)
  PROVE  Settled'
  <1> USE LifecycleAssumption
      DEF Typed, TypeOK, Known, Settled, SettledBy, Reopened, PostFinal, Terminal, Statuses, Goto
  <1>1. ASSUME NEW s \in Sessions, Authenticate(c, s) PROVE Settled'
    BY <1>1 DEF Authenticate
  <1>2. ASSUME NEW s \in Sessions, AcceptConn(c, s) PROVE Settled'
    BY <1>2 DEF AcceptConn
  <1>3. CASE HandshakeFails(c)
    BY <1>3 DEF HandshakeFails
  <1>4. CASE ProxyConnectedUpdate(c)
    BY <1>4 DEF ProxyConnectedUpdate
  <1>5. CASE ProxyConnectedEvent(c)
    BY <1>5 DEF ProxyConnectedEvent
  <1>6. CASE NoSessionChannel(c)
    BY <1>6 DEF NoSessionChannel
  <1>7. CASE SQLServerDialled(c)
    BY <1>7 DEF SQLServerDialled
  <1>8. CASE UseCredential(c)
    BY <1>8 DEF UseCredential
  <1>9. CASE UpstreamFails(c)
    BY <1>9 DEF UpstreamFails
  <1>10. CASE UpstreamConnected(c)
    BY <1>10 DEF UpstreamConnected
  <1>11. CASE ShellStartedUpdate(c)
    BY <1>11 DEF ShellStartedUpdate
  <1>12. CASE ShellStartedEvent(c)
    BY <1>12 DEF ShellStartedEvent
  <1>13. CASE ShellStartedAudit(c)
    BY <1>13 DEF ShellStartedAudit
  <1>14. CASE RelayBegins(c)
    BY <1>14 DEF RelayBegins
  <1>15. CASE RelayRecords(c)
    BY <1>15 DEF RelayRecords
  <1>16. CASE BridgeFails(c)
    BY <1>16 DEF BridgeFails
  <1>17. CASE BridgeEnds(c)
    BY <1>17 DEF BridgeEnds
  <1>18. CASE EndedUpdate(c)
    BY <1>18 DEF EndedUpdate
  <1>19. CASE EndedEvent(c)
    BY <1>19 DEF EndedEvent
  <1>20. CASE EndedAudit(c)
    BY <1>20 DEF EndedAudit
  <1>21. CASE FailedUpdate(c)
    BY <1>21 DEF FailedUpdate
  <1>22. CASE FailedEvent(c)
    BY <1>22 DEF FailedEvent
  <1>23. CASE FailedAudit(c)
    BY <1>23 DEF FailedAudit
  <1>24. CASE ConnStatementFails(c)
    <2>1. faults' # 0
      BY <1>24 DEF ConnStatementFails
    <2> QED
      BY <2>1
  <1> QED
    BY <1>1, <1>2, <1>3, <1>4, <1>5, <1>6, <1>7, <1>8, <1>9, <1>10, <1>11, <1>12,
       <1>13, <1>14, <1>15, <1>16, <1>17, <1>18, <1>19, <1>20, <1>21, <1>22, <1>23,
       <1>24 DEF ConnNext

\* After a crash nothing is promised of the row.
LEMMA CrashSettled ==
  ASSUME Typed, CrashRestart
  PROVE  Settled'
  <1>1. crashes' # 0
    BY LifecycleAssumption DEF CrashRestart, Typed, TypeOK
  <1> QED
    BY <1>1 DEF Settled

\* Without failed statements and crashes, a session that was ended and has no
\* connection left is completed or failed, however its connections interleaved.
THEOREM NoConnectionNoActiveInvariant == Spec => []NoConnectionNoActive
  <1>1. Init => Settled
    BY DEF Init, Settled, PostFinal
  <1>2. Typed /\ Settled /\ [Next]_vars => Settled'
    <2> SUFFICES ASSUME Typed, Settled, [Next]_vars PROVE Settled'
      OBVIOUS
    <2>1. CASE UNCHANGED vars
      BY <2>1 DEF vars, Settled, SettledBy
    <2> QED
      BY <2>1, LaunchSettled, ReportSettled, SweepSettled, ConnSettled, CrashSettled
         DEF Next
  <1>3. Settled => NoConnectionNoActive
    BY DEF Settled, SettledBy, NoConnectionNoActive, Reopened, PreFinal
  <1> QED
    BY <1>1, <1>2, <1>3, TypeCorrect, PTL DEF Spec

-------------------------------------------------------------------------------
(* The refinement.  A step that leaves the row alone may only let go of a  *)
(* session, or take hold of a live one; a step that writes the row is made *)
(* for a pending session or by one that holds it, before and after.        *)

\* A step that writes no row and takes hold of no session is a Release.
LEMMA LettingGo ==
  ASSUME UNCHANGED <<status, started, ended>>,
         \A s \in Sessions : Held(s)' => Held(s)
  PROVE  Row!Release
  BY DEF Row!Release, Held

\* The launch request, but for its INSERT, and the passing of time.
LEMMA LaunchLetsGo ==
  ASSUME Typed, NEW s \in Sessions,
         \/ LaunchCreated(s) \/ PrepareLinux(s) \/ PrepareProxy(s) \/ RegisterSession(s)
         \/ LaunchAborts(s) \/ LaunchStatementFails(s) \/ ListenerExpires(s)
         \/ TokenExpires(s) \/ ReportAges(s)
  PROVE  Row!Release
  <1>1. UNCHANGED <<status, started, ended, csess>>
    BY DEF LaunchCreated, PrepareLinux, PrepareProxy, RegisterSession, LaunchAborts,
           LaunchStatementFails, ListenerExpires, TokenExpires, ReportAges
  <1>2. ASSUME NEW x \in Sessions, Held(x)' PROVE Held(x)
    BY <1>2 DEF Typed, TypeOK, Held, Serving, LaunchCreated, PrepareLinux, PrepareProxy,
                RegisterSession, LaunchAborts, LaunchStatementFails, ListenerExpires,
                TokenExpires, ReportAges
  <1> QED
    BY <1>1, <1>2, LettingGo

\* The reports and the sweeper, but for their UPDATEs.
LEMMA OthersLetGo ==
  ASSUME \/ \E r \in Reports : \/ \E s \in Sessions, t \in ReportTypes : ReportBegins(r, s, t)
                               \/ ReportEvent(r) \/ ReportStatementFails(r)
         \/ SweepSelect \/ SweepEvent \/ SweepAudit \/ SweepDone \/ SweepStatementFails
         \/ \E s \in Sessions : SweepCheck(s)
  PROVE  Row!Release
  <1>1. UNCHANGED <<status, started, ended, lpc, listening, cpc, csess>>
    BY DEF ReportBegins, ReportEvent, ReportStatementFails, SweepSelect, SweepEvent,
           SweepAudit, SweepDone, SweepStatementFails, SweepCheck
  <1>2. ASSUME NEW x \in Sessions, Held(x)' PROVE Held(x)
    BY <1>1, <1>2 DEF Held, Serving
  <1> QED
    BY <1>1, <1>2, LettingGo

\* The steps of a connection between its first and its last, but for the UPDATEs.
LEMMA ConnLetsGo ==
  ASSUME Typed, NEW c \in Conns,
         \/ HandshakeFails(c) \/ ProxyConnectedEvent(c) \/ NoSessionChannel(c)
         \/ SQLServerDialled(c) \/ UseCredential(c) \/ UpstreamFails(c)
         \/ UpstreamConnected(c)
         \/ ShellStartedEvent(c) \/ ShellStartedAudit(c) \/ RelayBegins(c)
         \/ RelayRecords(c) \/ BridgeFails(c) \/ BridgeEnds(c) \/ EndedEvent(c)
         \/ EndedAudit(c) \/ FailedEvent(c) \/ FailedAudit(c) \/ ConnStatementFails(c)
  PROVE  Row!Release
  <1>1. /\ UNCHANGED <<status, started, ended, lpc, listening, csess>>
        /\ Serving(c)
        /\ \A d \in Conns \ {c} : cpc'[d] = cpc[d]
    BY DEF Typed, TypeOK, Goto, Serving, HandshakeFails, ProxyConnectedEvent,
           NoSessionChannel, SQLServerDialled, UseCredential, UpstreamFails,
           UpstreamConnected,
           ShellStartedEvent, ShellStartedAudit, RelayBegins, RelayRecords, BridgeFails,
           BridgeEnds, EndedEvent, EndedAudit, FailedEvent, FailedAudit,
           ConnStatementFails
  <1>2. ASSUME NEW x \in Sessions, Held(x)' PROVE Held(x)
    BY <1>1, <1>2 DEF Held, Serving
  <1> QED
    BY <1>1, <1>2, LettingGo

\* The UPDATE of a connection leaves every hold as it is.
LEMMA HoldKept ==
  ASSUME NEW c \in Conns, csess[c] \in Sessions, Serving(c), Serving(c)',
         \A d \in Conns \ {c} : cpc'[d] = cpc[d],
         UNCHANGED <<lpc, listening, csess>>
  PROVE  /\ Held(csess[c])
         /\ [s \in Sessions |-> Held(s)]' = [s \in Sessions |-> Held(s)]
  <1>1. ASSUME NEW x \in Sessions PROVE Held(x)' <=> Held(x)
    BY DEF Held, Serving
  <1>2. Held(csess[c])
    BY DEF Held
  <1> QED
    BY <1>1, <1>2 DEF Held

\* A connection that writes a row holds the session, so the abstract row allows the write.
LEMMA ConnWrites ==
  ASSUME Typed, NEW c \in Conns,
         \/ ProxyConnectedUpdate(c) \/ ShellStartedUpdate(c)
         \/ EndedUpdate(c) \/ FailedUpdate(c)
  PROVE  [Row!Next]_(Row!vars)
  <1> DEFINE H == [s \in Sessions |-> Held(s)]
  <1>1. /\ Serving(c) /\ Serving(c)'
        /\ \A d \in Conns \ {c} : cpc'[d] = cpc[d]
        /\ UNCHANGED <<lpc, listening, csess>>
        /\ csess[c] \in Sessions
        /\ status[csess[c]] # "none"
    BY DEF Typed, TypeOK, Known, Goto, Serving, ProxyConnectedUpdate, ShellStartedUpdate,
           EndedUpdate, FailedUpdate
  <1>2. Held(csess[c]) /\ H' = H
    BY <1>1, HoldKept
  <1>3. H[csess[c]]
    BY <1>1, <1>2
  <1> HIDE DEF H
  <1>4. CASE ProxyConnectedUpdate(c)
    <2>1. CASE status[csess[c]] = "pending"
      <3>1. Row!Start(csess[c])
        BY <1>1, <1>2, <1>3, <1>4, <2>1
           DEF ProxyConnectedUpdate, Row!Start, Row!MayWrite, H
      <3> QED
        BY <1>1, <3>1 DEF Row!Next
    <2>2. CASE status[csess[c]] # "pending"
      BY <1>2, <1>4, <2>2 DEF ProxyConnectedUpdate, Row!vars, H
    <2> QED
      BY <2>1, <2>2
  <1>5. CASE ShellStartedUpdate(c)
    <2>1. Row!Start(csess[c])
      BY <1>1, <1>2, <1>3, <1>5 DEF ShellStartedUpdate, Row!Start, Row!MayWrite, H
    <2> QED
      BY <1>1, <2>1 DEF Row!Next
  <1>6. CASE EndedUpdate(c)
    <2>1. Row!Complete(csess[c])
      BY <1>1, <1>2, <1>3, <1>6 DEF EndedUpdate, Row!Complete, H
    <2> QED
      BY <1>1, <2>1 DEF Row!Next
  <1>7. CASE FailedUpdate(c)
    <2>1. Row!Fail(csess[c])
      BY <1>1, <1>2, <1>3, <1>7 DEF FailedUpdate, Row!Fail, Row!MayWrite, H
    <2> QED
      BY <1>1, <2>1 DEF Row!Next
  <1> QED
    BY <1>4, <1>5, <1>6, <1>7

\* The connector's report and the sweeper write pending rows only.
LEMMA PendingWrites ==
  ASSUME Typed, SweepUpdate \/ \E r \in Reports : ReportUpdate(r)
  PROVE  [Row!Next]_(Row!vars)
  <1> DEFINE H == [s \in Sessions |-> Held(s)]
  <1>1. UNCHANGED <<lpc, listening, cpc, csess>>
    BY DEF SweepUpdate, ReportUpdate
  <1>2. H' = H
    BY <1>1 DEF Held, Serving
  <1> HIDE DEF H
  <1>3. CASE SweepUpdate
    <2>1. CASE status[scur] = "pending"
      <3>1. scur \in Sessions /\ Row!Fail(scur)
        BY <1>2, <1>3, <2>1 DEF SweepUpdate, Row!Fail, Row!MayWrite, H, Typed, Known
      <3> QED
        BY <3>1 DEF Row!Next
    <2>2. CASE status[scur] # "pending"
      BY <1>2, <1>3, <2>2 DEF SweepUpdate, Row!vars, H
    <2> QED
      BY <2>1, <2>2
  <1>4. ASSUME NEW r \in Reports, ReportUpdate(r) PROVE [Row!Next]_(Row!vars)
    <2>1. CASE status[rsess[r]] = "pending"
      <3>1. rsess[r] \in Sessions /\ Row!Start(rsess[r])
        BY <1>2, <1>4, <2>1 DEF ReportUpdate, Row!Start, Row!MayWrite, H, Typed, Known
      <3> QED
        BY <3>1 DEF Row!Next
    <2>2. CASE status[rsess[r]] # "pending"
      BY <1>2, <1>4, <2>2 DEF ReportUpdate, Row!vars, H
    <2> QED
      BY <2>1, <2>2
  <1> QED
    BY <1>3, <1>4

\* The INSERT, and the two ways in which a connection comes to a session.
LEMMA Entries ==
  ASSUME Typed, NEW s \in Sessions,
         \/ \E a \in Granted : CreateSession(s, a)
         \/ \E c \in Conns : Authenticate(c, s) \/ AcceptConn(c, s)
  PROVE  [Row!Next]_(Row!vars)
  <1> DEFINE H == [x \in Sessions |-> Held(x)]
  <1>1. ASSUME NEW a \in Granted, CreateSession(s, a) PROVE Row!Create(s)
    <2>1. Held(s)' /\ \A x \in Sessions \ {s} : Held(x)' <=> Held(x)
      BY <1>1 DEF CreateSession, Held, Serving, Typed, TypeOK
    <2>2. H' = [H EXCEPT ![s] = TRUE]
      BY <2>1 DEF Held
    <2> HIDE DEF H
    <2> QED
      BY <1>1, <2>2 DEF CreateSession, Row!Create, H, Typed, Known
  <1>2. ASSUME NEW c \in Conns, Authenticate(c, s) PROVE Row!Hold(s)
    <2>1. Held(s)' /\ \A x \in Sessions \ {s} : Held(x)' <=> Held(x)
      BY <1>2 DEF Authenticate, Goto, Held, Serving, Typed, TypeOK, Known
    <2>2. H' = [H EXCEPT ![s] = TRUE]
      BY <2>1 DEF Held
    <2> HIDE DEF H
    <2> QED
      BY <1>2, <2>2
         DEF Authenticate, TokenResolves, Live, Row!Live, Row!Hold, H
  <1>3. ASSUME NEW c \in Conns, AcceptConn(c, s) PROVE Row!Release
    <2>1. ASSUME NEW x \in Sessions, Held(x)' PROVE Held(x)
      BY <1>3, <2>1 DEF AcceptConn, Goto, Held, Serving, Typed, TypeOK, Known
    <2> QED
      BY <1>3, <2>1, LettingGo DEF AcceptConn
  <1> HIDE DEF H
  <1> QED
    BY <1>1, <1>2, <1>3 DEF Row!Next

\* A crash lets go of every session.
LEMMA CrashLetsGo ==
  ASSUME CrashRestart
  PROVE  Row!Release
  <1>1. ASSUME NEW x \in Sessions, Held(x)' PROVE Held(x)
    BY <1>1 DEF CrashRestart, Held, Serving
  <1> QED
    BY <1>1, LettingGo DEF CrashRestart

\* The launch request, the report, the sweeper and the proxies implement the promise
\* of the sessions table.
THEOREM RowRefinement == Spec => RowSpec
  <1>1. Init => Row!Init
    <2> SUFFICES ASSUME Init PROVE [s \in Sessions |-> Held(s)] = [s \in Sessions |-> FALSE]
      BY DEF Init, Row!Init
    <2>1. ASSUME NEW s \in Sessions PROVE ~Held(s)
      BY DEF Init, Held, Serving
    <2> QED
      BY <2>1 DEF Held
  <1>2. Typed /\ [Next]_vars => [Row!Next]_(Row!vars)
    <2> SUFFICES ASSUME Typed, [Next]_vars PROVE [Row!Next]_(Row!vars)
      OBVIOUS
    <2>1. CASE UNCHANGED vars
      BY <2>1 DEF vars, Row!vars, Held, Serving
    <2>2. ASSUME NEW s \in Sessions, LaunchNext(s) \/ TokenExpires(s) \/ ReportAges(s)
          PROVE  [Row!Next]_(Row!vars)
      BY <2>2, Entries, LaunchLetsGo DEF LaunchNext, Row!Next
    <2>3. ASSUME NEW r \in Reports, ReportNext(r) PROVE [Row!Next]_(Row!vars)
      BY <2>3, OthersLetGo, PendingWrites DEF ReportNext, Row!Next
    <2>4. CASE SweepStep \/ SweepStatementFails
      BY <2>4, OthersLetGo, PendingWrites DEF SweepStep, Row!Next
    <2>5. ASSUME NEW c \in Conns, ConnNext(c) PROVE [Row!Next]_(Row!vars)
      BY <2>5, Entries, ConnWrites, ConnLetsGo DEF ConnNext, Row!Next
    <2>6. CASE CrashRestart
      BY <2>6, CrashLetsGo DEF Row!Next
    <2> QED
      BY <2>1, <2>2, <2>3, <2>4, <2>5, <2>6 DEF Next
  <1> QED
    BY <1>1, <1>2, TypeCorrect, PTL DEF Spec, RowSpec, Row!Spec
===============================================================================
