----------------------------- MODULE DatabaseProxy -----------------------------
(***************************************************************************)
(* The service that proxies database sessions (pgproxy; the MySQL, SQL     *)
(* Server and Redis services are built on the same skeleton).  Every       *)
(* session has a listener of its own and a goroutine that accepts on it;   *)
(* every connection has a handler goroutine and, while it is bridged, a    *)
(* goroutine that reads the client's messages, logs the queries whose text  *)
(* it knows and forwards them all.  The queries go through one bounded channel to one       *)
(* worker that writes them to session_events.  Shutdown closes all this    *)
(* down, with a deadline after which it closes the connections itself.     *)
(*                                                                         *)
(* A section under Service.mu is one step.  A send on a closed channel     *)
(* panics and takes the process down.                                      *)
(***************************************************************************)
EXTENDS Naturals, Sequences

CONSTANTS Sessions,     \* session ids, each registered at most once
          Conns,        \* client connections, each used once
          NoSession,    \* the session of a connection not yet accepted
          NoQuery,      \* the worker holds no query
          QueryLogQueue,\* capacity of the channel
          MaxQueries    \* bound: queries a client sends

ASSUME ProxyAssumption ==
  /\ NoSession \notin Sessions
  /\ QueryLogQueue \in Nat \ {0}
  /\ MaxQueries \in Nat
  /\ NoQuery \notin Conns \X (1 .. MaxQueries)

VARIABLES
  closed,      \* Service.closed; queryLogCh is closed in the same section
  listeners,   \* the keys of Service.listeners
  active,      \* the keys of Service.active
  lopen,       \* sessions whose listening socket is open
  spc,         \* the goroutine of a session, serveSession
  overage,     \* sessions past MaxSessionAge
  cpc, csess,  \* a connection's handler and its session
  sockets,     \* connections whose client socket has not been closed by the proxy
  fpc,         \* the connection's forwardClientMessages goroutine
  sent,        \* queries it has read
  unlogged,    \* those of them whose text it does not know
  queue,       \* queryLogCh
  wpc, hand,   \* queryLogWorker and the query it is writing
  recorded,    \* the db_query events, in the order they were written
  forwarded,   \* queries written to the upstream
  missed,      \* queries given up: queue full, service closed, or WriteEvent failed
  dpc,         \* Shutdown
  lsnap,       \* the listeners it is to close
  csnap,       \* the connections it is to close
  done,        \* its wg.Wait has returned
  panicked     \* the process is gone

registry == <<closed, listeners, active>>
serving  == <<lopen, spc, overage>>
conn     == <<cpc, csess, sockets>>
reader   == <<fpc, sent, unlogged>>
log      == <<queue, wpc, hand, recorded, forwarded, missed>>
shutdown == <<dpc, lsnap, csnap, done>>
vars     == <<registry, serving, conn, reader, log, shutdown, panicked>>

Queries == Conns \X (1 .. MaxQueries)

\* The query that connection c has read last.
Current(c) == <<c, sent[c]>>

\* The handler goroutine exists, or the accepted connection is about to get one.
Live(c) == cpc[c] \notin {"free", "over"}

\* serveSession is counted in Service.wg.
Counted(s) == spc[s] \in {"accepting", "waiting"}

ElementsOf(q) == {q[i] : i \in DOMAIN q}

\* A step that leaves the process running.
Alive == ~panicked /\ panicked' = FALSE

-------------------------------------------------------------------------------
TypeOK ==
  /\ closed \in BOOLEAN
  /\ listeners \subseteq Sessions
  /\ active \subseteq Conns
  /\ lopen \subseteq Sessions
  /\ spc \in [Sessions -> {"none", "registered", "accepting", "waiting", "done"}]
  /\ overage \subseteq Sessions
  /\ cpc \in [Conns -> {"free", "accepted", "handling", "dialing", "hung",
                        "bridging", "ending", "untracked", "over"}]
  /\ csess \in [Conns -> Sessions \cup {NoSession}]
  /\ sockets \subseteq Conns
  /\ fpc \in [Conns -> {"none", "reading", "logging", "sending", "forwarding", "exited"}]
  /\ sent \in [Conns -> 0 .. MaxQueries]
  /\ unlogged \subseteq Queries
  /\ queue \in Seq(Queries)
  /\ wpc \in {"ready", "writing", "done"}
  /\ hand \in Queries \cup {NoQuery}
  /\ recorded \in Seq(Queries)
  /\ forwarded \subseteq Queries
  /\ missed \subseteq Queries
  /\ dpc \in {"running", "closing", "waiting", "forcing", "forced", "returned", "timedout"}
  /\ lsnap \subseteq Sessions
  /\ csnap \subseteq Conns
  /\ done \in BOOLEAN
  /\ panicked \in BOOLEAN

\* New: the worker is running.
Init ==
  /\ closed = FALSE /\ listeners = {} /\ active = {}
  /\ lopen = {} /\ overage = {}
  /\ spc = [s \in Sessions |-> "none"]
  /\ cpc = [c \in Conns |-> "free"]
  /\ csess = [c \in Conns |-> NoSession]
  /\ sockets = {}
  /\ fpc = [c \in Conns |-> "none"]
  /\ sent = [c \in Conns |-> 0] /\ unlogged = {}
  /\ queue = <<>> /\ wpc = "ready" /\ hand = NoQuery
  /\ recorded = <<>> /\ forwarded = {} /\ missed = {}
  /\ dpc = "running" /\ lsnap = {} /\ csnap = {} /\ done = FALSE
  /\ panicked = FALSE

-------------------------------------------------------------------------------
(* A session's listener.                                                   *)

\* RegisterSession, under mu: refused once the service is closed.
RegisterSession(s) ==
  /\ spc[s] = "none"
  /\ ~closed
  /\ listeners' = listeners \cup {s}
  /\ lopen' = lopen \cup {s}
  /\ spc' = [spc EXCEPT ![s] = "registered"]
  /\ UNCHANGED <<closed, active, overage, conn, reader, log, shutdown>>
  /\ Alive

\* RegisterSession, after the unlock: wg.Add(1) and the goroutine.
StartServing(s) ==
  /\ spc[s] = "registered"
  /\ spc' = [spc EXCEPT ![s] = "accepting"]
  /\ UNCHANGED <<registry, lopen, overage, conn, reader, log, shutdown>>
  /\ Alive

\* The loop is between Accept and the start of the handler.
Accepting(s) == \E c \in Conns : csess[c] = s /\ cpc[c] = "accepted"

Accept(c, s) ==
  /\ spc[s] = "accepting"
  /\ ~Accepting(s)
  /\ s \in lopen
  /\ cpc[c] = "free"
  /\ cpc' = [cpc EXCEPT ![c] = "accepted"]
  /\ csess' = [csess EXCEPT ![c] = s]
  /\ sockets' = sockets \cup {c}
  /\ UNCHANGED <<registry, serving, reader, log, shutdown>>
  /\ Alive

\* trackConn, under mu, then connWG.Add(1) and the handler's goroutine.
TrackConn(c) ==
  /\ cpc[c] = "accepted"
  /\ active' = active \cup {c}
  /\ cpc' = [cpc EXCEPT ![c] = "handling"]
  /\ UNCHANGED <<closed, listeners, serving, csess, sockets, reader, log, shutdown>>
  /\ Alive

\* The MaxSessionAge timer, stopped when the loop ends, closes the listener.
MaxAgeReached(s) ==
  /\ spc[s] = "accepting"
  /\ s \notin overage
  /\ overage' = overage \cup {s}
  /\ lopen' = lopen \ {s}
  /\ UNCHANGED <<registry, spc, conn, reader, log, shutdown>>
  /\ Alive

\* Accept returns an error (the listener is closed, or any other): the loop ends.
AcceptFails(s) ==
  /\ spc[s] = "accepting"
  /\ ~Accepting(s)
  /\ spc' = [spc EXCEPT ![s] = "waiting"]
  /\ UNCHANGED <<registry, lopen, overage, conn, reader, log, shutdown>>
  /\ Alive

\* Mutant: connWG.Wait forgotten.
ServeReturnsAtOnce(s) ==
  /\ spc[s] = "waiting"
  /\ spc' = [spc EXCEPT ![s] = "done"]
  /\ lopen' = lopen \ {s}
  /\ listeners' = listeners \ {s}
  /\ UNCHANGED <<closed, active, overage, conn, reader, log, shutdown>>
  /\ Alive

\* The deferred calls: connWG.Wait, ln.Close, unregister, wg.Done.
ServeReturns(s) ==
  /\ spc[s] = "waiting"
  /\ \A c \in Conns : csess[c] = s => ~Live(c)
  /\ spc' = [spc EXCEPT ![s] = "done"]
  /\ lopen' = lopen \ {s}
  /\ listeners' = listeners \ {s}
  /\ UNCHANGED <<closed, active, overage, conn, reader, log, shutdown>>
  /\ Alive

-------------------------------------------------------------------------------
(* A connection's handler: handleSessionConn and runProxyFlow.             *)

Handler(c, from, to) ==
  /\ cpc[c] = from
  /\ cpc' = [cpc EXCEPT ![c] = to]

\* MarkProxyConnected and negotiateClientConn.
ClientNegotiates(c) ==
  /\ Handler(c, "handling", "dialing")
  /\ c \in sockets
  /\ UNCHANGED <<registry, serving, csess, sockets, reader, log, shutdown>>
  /\ Alive

\* A startup packet that is bad or does not come, a socket that is closed.
NegotiationFails(c) ==
  /\ Handler(c, "handling", "ending")
  /\ UNCHANGED <<registry, serving, csess, sockets, reader, log, shutdown>>
  /\ Alive

\* connectUpstream, the credential, authenticateUpstream and the replies to the client;
\* then the two copying goroutines.  A host may answer late.
UpstreamAnswers(c) ==
  /\ Handler(c, "dialing", "bridging") \/ Handler(c, "hung", "bridging")
  /\ c \in sockets
  /\ fpc' = [fpc EXCEPT ![c] = "reading"]
  /\ UNCHANGED <<registry, serving, csess, sockets, sent, unlogged, log, shutdown>>
  /\ Alive

\* connectUpstream: the host accepts the dial but does not answer the SSLRequest or
\* the TLS handshake, which are awaited without a deadline.
UpstreamSilent(c) ==
  /\ Handler(c, "dialing", "hung")
  /\ UNCHANGED <<registry, serving, csess, sockets, reader, log, shutdown>>
  /\ Alive

UpstreamFails(c) ==
  /\ Handler(c, "dialing", "ending") \/ Handler(c, "hung", "ending")
  /\ UNCHANGED <<registry, serving, csess, sockets, reader, log, shutdown>>
  /\ Alive

\* The select in runProxyFlow: the reader has returned.
FrontendReturns(c) ==
  /\ Handler(c, "bridging", "ending")
  /\ fpc[c] = "exited"
  /\ UNCHANGED <<registry, serving, csess, sockets, reader, log, shutdown>>
  /\ Alive

\* The select in runProxyFlow: the upstream has closed, or the client cannot be
\* written to.  The reader is left running.
BackendReturns(c) ==
  /\ Handler(c, "bridging", "ending")
  /\ UNCHANGED <<registry, serving, csess, sockets, reader, log, shutdown>>
  /\ Alive

\* MarkEnded or MarkFailed, then the deferred untrackConn.
UntrackConn(c) ==
  /\ Handler(c, "ending", "untracked")
  /\ active' = active \ {c}
  /\ UNCHANGED <<closed, listeners, serving, csess, sockets, reader, log, shutdown>>
  /\ Alive

\* The deferred Close and connWG.Done.
CloseConn(c) ==
  /\ Handler(c, "untracked", "over")
  /\ sockets' = sockets \ {c}
  /\ UNCHANGED <<registry, serving, csess, reader, log, shutdown>>
  /\ Alive

-------------------------------------------------------------------------------
(* The reader of a connection: forwardClientMessages, enqueueQueryLog.     *)

Reader(c, from, to) ==
  /\ fpc[c] = from
  /\ fpc' = [fpc EXCEPT ![c] = to]

\* A simple query, or the execution of a prepared statement of that name.
ReadQuery(c) ==
  /\ Reader(c, "reading", "logging")
  /\ c \in sockets
  /\ sent[c] < MaxQueries
  /\ sent' = [sent EXCEPT ![c] = @ + 1]
  /\ UNCHANGED <<registry, serving, conn, unlogged, log, shutdown>>
  /\ Alive

\* An Execute whose portal has not the name of a cached statement, a function call:
\* it runs, and there is no text to log.
ReadUnlogged(c) ==
  /\ Reader(c, "reading", "forwarding")
  /\ c \in sockets
  /\ sent[c] < MaxQueries
  /\ sent' = [sent EXCEPT ![c] = @ + 1]
  /\ unlogged' = unlogged \cup {<<c, sent[c] + 1>>}
  /\ UNCHANGED <<registry, serving, conn, log, shutdown>>
  /\ Alive

\* The client leaves or is idle for too long, or the socket is closed.
ReadFails(c) ==
  /\ Reader(c, "reading", "exited")
  /\ UNCHANGED <<registry, serving, conn, sent, unlogged, log, shutdown>>
  /\ Alive

\* enqueueQueryLog, under mu: a closed service logs nothing more.
CheckClosed(c) ==
  /\ fpc[c] = "logging"
  /\ IF closed
     THEN /\ fpc' = [fpc EXCEPT ![c] = "forwarding"]
          /\ missed' = missed \cup {Current(c)}
     ELSE /\ fpc' = [fpc EXCEPT ![c] = "sending"]
          /\ UNCHANGED missed
  /\ UNCHANGED <<registry, serving, conn, sent, unlogged, queue, wpc, hand, recorded,
                 forwarded, shutdown>>
  /\ Alive

\* enqueueQueryLog, after the unlock: the send, which does not wait for room.
SendQuery(c) ==
  /\ ~closed
  /\ Reader(c, "sending", "forwarding")
  /\ IF Len(queue) < QueryLogQueue
     THEN /\ queue' = Append(queue, Current(c))
          /\ UNCHANGED missed
     ELSE /\ missed' = missed \cup {Current(c)}
          /\ UNCHANGED queue
  /\ UNCHANGED <<registry, serving, conn, sent, unlogged, wpc, hand, recorded, forwarded,
                 shutdown>>
  /\ Alive

\* The same send when Shutdown has closed the channel in between.
SendPanics(c) ==
  /\ closed
  /\ fpc[c] = "sending"
  /\ ~panicked
  /\ panicked' = TRUE
  /\ UNCHANGED <<registry, serving, conn, reader, log, shutdown>>

\* The write to the upstream, which the handler closes when it leaves runProxyFlow.
ForwardQuery(c) ==
  /\ Reader(c, "forwarding", "reading")
  /\ cpc[c] = "bridging"
  /\ forwarded' = forwarded \cup {Current(c)}
  /\ UNCHANGED <<registry, serving, conn, sent, unlogged, queue, wpc, hand, recorded, missed,
                 shutdown>>
  /\ Alive

ForwardFails(c) ==
  /\ Reader(c, "forwarding", "exited")
  /\ UNCHANGED <<registry, serving, conn, sent, unlogged, log, shutdown>>
  /\ Alive

-------------------------------------------------------------------------------
(* The worker: queryLogWorker.                                             *)

\* Mutant: the query taken from the channel is not kept.
TakeQueryUnset ==
  /\ wpc = "ready"
  /\ queue # <<>>
  /\ queue' = Tail(queue)
  /\ wpc' = "writing"
  /\ UNCHANGED <<registry, serving, conn, reader, hand, recorded, forwarded, missed,
                 shutdown>>
  /\ Alive

TakeQuery ==
  /\ wpc = "ready"
  /\ queue # <<>>
  /\ hand' = Head(queue)
  /\ queue' = Tail(queue)
  /\ wpc' = "writing"
  /\ UNCHANGED <<registry, serving, conn, reader, recorded, forwarded, missed, shutdown>>
  /\ Alive

WriteQuery ==
  /\ wpc = "writing"
  /\ recorded' = Append(recorded, hand)
  /\ hand' = NoQuery
  /\ wpc' = "ready"
  /\ UNCHANGED <<registry, serving, conn, reader, queue, forwarded, missed, shutdown>>
  /\ Alive

\* Mutant: a write whose answer was lost is tried again.
WriteQueryRetries ==
  /\ wpc = "writing"
  /\ recorded' = Append(recorded, hand)
  /\ UNCHANGED <<registry, serving, conn, reader, queue, wpc, hand, forwarded, missed,
                 shutdown>>
  /\ Alive

\* Mutant: a failed write is put back, to be tried again later.
WriteQueryRequeues ==
  /\ wpc = "writing"
  /\ queue' = Append(queue, hand)
  /\ hand' = NoQuery
  /\ wpc' = "ready"
  /\ UNCHANGED <<registry, serving, conn, reader, recorded, forwarded, missed, shutdown>>
  /\ Alive

\* WriteEvent fails: a warning, and the next query.
WriteQueryFails ==
  /\ wpc = "writing"
  /\ missed' = missed \cup {hand}
  /\ hand' = NoQuery
  /\ wpc' = "ready"
  /\ UNCHANGED <<registry, serving, conn, reader, queue, recorded, forwarded, shutdown>>
  /\ Alive

\* The range over the channel ends when it is closed and empty; wg.Done.
WorkerReturns ==
  /\ wpc = "ready"
  /\ closed
  /\ queue = <<>>
  /\ wpc' = "done"
  /\ UNCHANGED <<registry, serving, conn, reader, queue, hand, recorded, forwarded, missed,
                 shutdown>>
  /\ Alive

-------------------------------------------------------------------------------
(* Shutdown.                                                               *)

\* Under mu: closed, the channel, and the listeners taken out of the map.
ShutdownBegins ==
  /\ dpc = "running"
  /\ dpc' = "closing"
  /\ closed' = TRUE
  /\ lsnap' = listeners
  /\ listeners' = {}
  /\ UNCHANGED <<active, serving, conn, reader, log, csnap, done>>
  /\ Alive

\* The listeners are closed, after the unlock; a goroutine waits for wg.
CloseListeners ==
  /\ dpc = "closing"
  /\ dpc' = "waiting"
  /\ lopen' = lopen \ lsnap
  /\ UNCHANGED <<registry, spc, overage, conn, reader, log, lsnap, csnap, done>>
  /\ Alive

\* wg.Wait: the worker and every serveSession have returned.
WaitReturns ==
  /\ dpc \in {"waiting", "forcing", "forced"}
  /\ ~done
  /\ wpc = "done"
  /\ \A s \in Sessions : ~Counted(s)
  /\ done' = TRUE
  /\ UNCHANGED <<registry, serving, conn, reader, log, dpc, lsnap, csnap>>
  /\ Alive

\* The select: done.
ShutdownReturns ==
  /\ dpc = "waiting"
  /\ done
  /\ dpc' = "returned"
  /\ UNCHANGED <<registry, serving, conn, reader, log, lsnap, csnap, done>>
  /\ Alive

\* The select: the deadline; closeActiveConns takes the tracked connections, under mu.
DeadlinePasses ==
  /\ dpc = "waiting"
  /\ dpc' = "forcing"
  /\ csnap' = active
  /\ UNCHANGED <<registry, serving, conn, reader, log, lsnap, done>>
  /\ Alive

\* Mutant: the snapshot is taken and not closed.
CloseNothing ==
  /\ dpc = "forcing"
  /\ dpc' = "forced"
  /\ UNCHANGED <<registry, serving, conn, reader, log, lsnap, csnap, done>>
  /\ Alive

\* closeActiveConns closes them, after the unlock.
CloseActiveConns ==
  /\ dpc = "forcing"
  /\ dpc' = "forced"
  /\ sockets' = sockets \ csnap
  /\ UNCHANGED <<registry, serving, cpc, csess, reader, log, lsnap, csnap, done>>
  /\ Alive

\* The second wait for done, which has no deadline.
ForcedReturns ==
  /\ dpc = "forced"
  /\ done
  /\ dpc' = "timedout"
  /\ UNCHANGED <<registry, serving, conn, reader, log, lsnap, csnap, done>>
  /\ Alive

-------------------------------------------------------------------------------
SessionNext(s) ==
  \/ RegisterSession(s) \/ StartServing(s) \/ MaxAgeReached(s)
  \/ AcceptFails(s) \/ ServeReturns(s)

ConnNext(c) ==
  \/ \E s \in Sessions : Accept(c, s)
  \/ TrackConn(c) \/ ClientNegotiates(c) \/ NegotiationFails(c)
  \/ UpstreamAnswers(c) \/ UpstreamSilent(c) \/ UpstreamFails(c)
  \/ FrontendReturns(c) \/ BackendReturns(c) \/ UntrackConn(c) \/ CloseConn(c)

ReaderNext(c) ==
  \/ ReadQuery(c) \/ ReadUnlogged(c) \/ ReadFails(c)
  \/ CheckClosed(c) \/ SendQuery(c) \/ SendPanics(c)
  \/ ForwardQuery(c) \/ ForwardFails(c)

WorkerNext == TakeQuery \/ WriteQuery \/ WriteQueryFails \/ WorkerReturns

ShutdownNext ==
  \/ ShutdownBegins \/ CloseListeners \/ WaitReturns \/ ShutdownReturns
  \/ DeadlinePasses \/ CloseActiveConns \/ ForcedReturns

Next ==
  \/ \E s \in Sessions : SessionNext(s)
  \/ \E c \in Conns : ConnNext(c) \/ ReaderNext(c)
  \/ WorkerNext \/ ShutdownNext

Spec == Init /\ [][Next]_vars

\* What the goroutines do without waiting for a client or for a host: a call on a
\* closed socket or listener returns, and a dial ends.
HandlerRuns(c) ==
  \/ TrackConn(c) \/ FrontendReturns(c) \/ UntrackConn(c) \/ CloseConn(c)
  \/ UpstreamSilent(c)
  \/ (cpc[c] = "dialing" /\ (UpstreamAnswers(c) \/ UpstreamFails(c)))
  \/ (c \notin sockets /\ NegotiationFails(c))

ReaderRuns(c) ==
  \/ CheckClosed(c) \/ SendQuery(c) \/ SendPanics(c) \/ ForwardQuery(c) \/ ForwardFails(c)
  \/ (c \notin sockets /\ ReadFails(c))

ServeRuns(s) ==
  StartServing(s) \/ ServeReturns(s) \/ (s \notin lopen /\ AcceptFails(s))

ShutdownRuns ==
  CloseListeners \/ ShutdownReturns \/ DeadlinePasses \/ CloseActiveConns \/ ForcedReturns

\* The scheduler runs every goroutine that can run, and the deadline passes.  Nothing
\* makes a client send a query, leave or fall idle (messages that are not queries, such
\* as Sync, keep a connection from being idle), or a silent host answer.
FairSpec ==
  /\ Spec
  /\ \A c \in Conns : WF_vars(HandlerRuns(c)) /\ WF_vars(ReaderRuns(c))
  /\ \A s \in Sessions : WF_vars(ServeRuns(s))
  /\ WF_vars(WorkerNext)
  /\ WF_vars(WaitReturns)
  /\ WF_vars(ShutdownRuns)

-------------------------------------------------------------------------------
(* Properties.                                                             *)

\* The queries on their way to session_events, oldest first.
Pipeline == recorded \o (IF wpc = "writing" THEN <<hand>> ELSE <<>>) \o queue

\* The db_query events of a connection are written in the order in which its client
\* sent the queries, each at most once, and a query that was given up is never
\* written after all.
LogInOrder ==
  /\ \A i, j \in DOMAIN Pipeline :
       i < j /\ Pipeline[i][1] = Pipeline[j][1] => Pipeline[i][2] < Pipeline[j][2]
  /\ ElementsOf(Pipeline) \cap missed = {}

\* What an entry of session_events vouches for: every query that its connection sent
\* before it is recorded too, or was given up (full queue, closed service, failed
\* write), or had no text the proxy knew; none of them is still on its way.  And what
\* reached the database is recorded, on its way, or left out for one of these reasons.
EntriesVouch ==
  /\ \A i \in DOMAIN recorded : \A n \in 1 .. (recorded[i][2] - 1) :
       <<recorded[i][1], n>> \in ElementsOf(recorded) \cup missed \cup unlogged
  /\ forwarded \subseteq ElementsOf(Pipeline) \cup missed \cup unlogged

\* Once Shutdown's wait is over, and so when it returns, nothing of the service is left
\* that could serve a client or lose a query: no connection has a handler, no listener
\* is open, and the worker has returned with the queue empty.
DrainedOnReturn ==
  done => /\ \A c \in Conns : ~Live(c)
          /\ lopen = {}
          /\ wpc = "done" /\ queue = <<>>

\* A connection that closeActiveConns did not see: accepted before the listener was
\* closed, and tracked after the snapshot.
Straggler == \E c \in Conns : Live(c) /\ c \notin csnap

\* After the deadline Shutdown closes the tracked connections and returns, unless a
\* handler hangs on a silent host, a connection slipped through between Accept and
\* trackConn, or the process panics.
ForcedCloseReturns ==
  dpc = "forcing" ~> \/ dpc = "timedout"
                     \/ Straggler \/ \E c \in Conns : cpc[c] = "hung"
                     \/ panicked

\* apps/api/README.md: the proxies "perform graceful shutdown draining of active
\* sessions before forced close on shutdown timeout".
NoPanic == ~panicked

\* apps/api/README.md: "Proxy services enforce configurable idle timeout + max session
\* duration".
MaxSessionDuration ==
  \A s \in Sessions :
    s \in overage ~> (panicked \/ \A c \in Conns : csess[c] = s => cpc[c] # "bridging")
===============================================================================
