------------------------- MODULE DatabaseProxyProofs -------------------------
(***************************************************************************)
(* Proofs about DatabaseProxy, for any sets of sessions and connections    *)
(* and any capacity of the channel.                                        *)
(***************************************************************************)
EXTENDS DatabaseProxy, SequenceTheorems, TLAPS

USE DEF registry, serving, conn, reader, log, shutdown

-------------------------------------------------------------------------------
(* Type correctness: a reader that logs or forwards has read a query, the  *)
(* worker writes one, and a connection has no reader before it is bridged. *)

HasQuery ==
  /\ \A c \in Conns : fpc[c] \in {"logging", "sending", "forwarding"} => sent[c] # 0
  /\ wpc = "writing" => hand \in Queries
  /\ \A c \in Conns : cpc[c] \in {"free", "accepted", "handling", "dialing", "hung"}
                       => fpc[c] = "none"

Typed == TypeOK /\ HasQuery

\* The query of such a reader is one.
LEMMA CurrentQuery ==
  ASSUME Typed, NEW c \in Conns, fpc[c] \in {"logging", "sending", "forwarding"}
  PROVE  Current(c) \in Queries
  <1>1. sent[c] \in 1 .. MaxQueries
    BY ProxyAssumption DEF Typed, TypeOK, HasQuery
  <1> QED
    BY <1>1 DEF Current, Queries

\* The service that New returns is typed.
LEMMA InitTyped == Init => Typed
  <1> SUFFICES ASSUME Init PROVE Typed
    OBVIOUS
  <1>1. queue \in Seq(Queries) /\ recorded \in Seq(Queries)
    BY DEF Init
  <1>2. sent \in [Conns -> 0 .. MaxQueries]
    BY ProxyAssumption DEF Init
  <1>3. HasQuery
    BY DEF Init, HasQuery
  <1> QED
    BY <1>1, <1>2, <1>3 DEF Init, Typed, TypeOK

\* The listener of a session.
LEMMA SessionTyped ==
  ASSUME Typed, NEW s \in Sessions, SessionNext(s)
  PROVE  Typed'
  <1> USE ProxyAssumption DEF Typed, TypeOK, HasQuery, Alive
  <1>1. CASE RegisterSession(s)
    BY <1>1 DEF RegisterSession
  <1>2. CASE StartServing(s)
    BY <1>2 DEF StartServing
  <1>3. CASE MaxAgeReached(s)
    BY <1>3 DEF MaxAgeReached
  <1>4. CASE AcceptFails(s)
    BY <1>4 DEF AcceptFails
  <1>5. CASE ServeReturns(s)
    BY <1>5 DEF ServeReturns
  <1> QED
    BY <1>1, <1>2, <1>3, <1>4, <1>5 DEF SessionNext

\* The handler of a connection.
LEMMA ConnTyped ==
  ASSUME Typed, NEW c \in Conns, ConnNext(c)
  PROVE  Typed'
  <1> USE ProxyAssumption DEF Typed, TypeOK, HasQuery, Alive
  <1>1. ASSUME NEW s \in Sessions, Accept(c, s) PROVE Typed'
    BY <1>1 DEF Accept
  <1>2. CASE TrackConn(c)
    BY <1>2 DEF TrackConn
  <1>3. CASE ClientNegotiates(c)
    BY <1>3 DEF ClientNegotiates, Handler
  <1>4. CASE NegotiationFails(c)
    BY <1>4 DEF NegotiationFails, Handler
  <1>5. CASE UpstreamAnswers(c)
    BY <1>5 DEF UpstreamAnswers, Handler
  <1>6. CASE UpstreamSilent(c)
    BY <1>6 DEF UpstreamSilent, Handler
  <1>7. CASE UpstreamFails(c)
    BY <1>7 DEF UpstreamFails, Handler
  <1>8. CASE FrontendReturns(c)
    BY <1>8 DEF FrontendReturns, Handler
  <1>9. CASE BackendReturns(c)
    BY <1>9 DEF BackendReturns, Handler
  <1>10. CASE UntrackConn(c)
    BY <1>10 DEF UntrackConn, Handler
  <1>11. CASE CloseConn(c)
    BY <1>11 DEF CloseConn, Handler
  <1> QED
    BY <1>1, <1>2, <1>3, <1>4, <1>5, <1>6, <1>7, <1>8, <1>9, <1>10, <1>11 DEF ConnNext

\* The reader of a connection.
LEMMA ReaderTyped ==
  ASSUME Typed, NEW c \in Conns, ReaderNext(c)
  PROVE  Typed'
  <1> USE ProxyAssumption DEF Typed, TypeOK, HasQuery, Alive
  <1>1. CASE ReadQuery(c)
    <2>1. sent[c] + 1 \in 1 .. MaxQueries
      BY <1>1 DEF ReadQuery
    <2>2. sent' \in [Conns -> 0 .. MaxQueries] /\ sent'[c] # 0
      BY <1>1, <2>1 DEF ReadQuery
    <2> QED
      BY <1>1, <2>2 DEF ReadQuery, Reader
  <1>2. CASE ReadFails(c)
    BY <1>2 DEF ReadFails, Reader
  <1>3. CASE CheckClosed(c)
    <2>1. Current(c) \in Queries
      BY <1>3, CurrentQuery DEF CheckClosed, Reader
    <2> QED
      BY <1>3, <2>1 DEF CheckClosed, Reader
  <1>4. CASE SendQuery(c)
    <2> USE DEF SendQuery, Reader
    <2>1. Current(c) \in Queries
      BY <1>4, CurrentQuery
    <2>2. Append(queue, Current(c)) \in Seq(Queries)
      BY <2>1
    <2>3. queue' \in Seq(Queries) /\ missed' \subseteq Queries
      BY <1>4, <2>1, <2>2
    <2> QED
      BY <1>4, <2>3
  <1>5. CASE SendPanics(c)
    BY <1>5 DEF SendPanics, Reader
  <1>6. CASE ForwardQuery(c)
    <2>1. Current(c) \in Queries
      BY <1>6, CurrentQuery DEF ForwardQuery, Reader
    <2> QED
      BY <1>6, <2>1 DEF ForwardQuery, Reader
  <1>7. CASE ForwardFails(c)
    BY <1>7 DEF ForwardFails, Reader
  <1>8. CASE ReadUnlogged(c)
    <2>1. sent[c] + 1 \in 1 .. MaxQueries
      BY <1>8 DEF ReadUnlogged
    <2>2. sent' \in [Conns -> 0 .. MaxQueries] /\ sent'[c] # 0
      BY <1>8, <2>1 DEF ReadUnlogged
    <2>3. unlogged' \subseteq Queries
      BY <1>8, <2>1 DEF ReadUnlogged, Queries
    <2> QED
      BY <1>8, <2>2, <2>3 DEF ReadUnlogged, Reader
  <1> QED
    BY <1>1, <1>2, <1>3, <1>4, <1>5, <1>6, <1>7, <1>8 DEF ReaderNext

\* The worker.
LEMMA WorkerTyped ==
  ASSUME Typed, WorkerNext
  PROVE  Typed'
  <1> USE ProxyAssumption DEF Typed, TypeOK, HasQuery, Alive
  <1>1. CASE TakeQuery
    <2>1. Head(queue) \in Queries /\ Tail(queue) \in Seq(Queries)
      BY <1>1 DEF TakeQuery
    <2> QED
      BY <1>1, <2>1 DEF TakeQuery
  <1>2. CASE WriteQuery
    <2>1. Append(recorded, hand) \in Seq(Queries)
      BY <1>2 DEF WriteQuery
    <2> QED
      BY <1>2, <2>1 DEF WriteQuery
  <1>3. CASE WriteQueryFails
    BY <1>3 DEF WriteQueryFails
  <1>4. CASE WorkerReturns
    BY <1>4 DEF WorkerReturns
  <1> QED
    BY <1>1, <1>2, <1>3, <1>4 DEF WorkerNext

\* Shutdown.
LEMMA ShutdownTyped ==
  ASSUME Typed, ShutdownNext
  PROVE  Typed'
  <1> USE ProxyAssumption DEF Typed, TypeOK, HasQuery, Alive
  <1>1. CASE ShutdownBegins
    BY <1>1 DEF ShutdownBegins
  <1>2. CASE CloseListeners
    BY <1>2 DEF CloseListeners
  <1>3. CASE WaitReturns
    BY <1>3 DEF WaitReturns
  <1>4. CASE ShutdownReturns
    BY <1>4 DEF ShutdownReturns
  <1>5. CASE DeadlinePasses
    BY <1>5 DEF DeadlinePasses
  <1>6. CASE CloseActiveConns
    BY <1>6 DEF CloseActiveConns
  <1>7. CASE ForcedReturns
    BY <1>7 DEF ForcedReturns
  <1> QED
    BY <1>1, <1>2, <1>3, <1>4, <1>5, <1>6, <1>7 DEF ShutdownNext

\* Every step keeps the types.
LEMMA NextTyped ==
  ASSUME Typed, [Next]_vars
  PROVE  Typed'
  <1>1. CASE UNCHANGED vars
    BY <1>1 DEF vars, Typed, TypeOK, HasQuery
  <1> QED
    BY <1>1, SessionTyped, ConnTyped, ReaderTyped, WorkerTyped, ShutdownTyped DEF Next

\* The service is type correct: readers that log or forward have a query, and so has a
\* worker that writes.
THEOREM TypeCorrect == Spec => []Typed
  BY InitTyped, NextTyped, PTL DEF Spec

\* TypeOK, the invariant of the runs.
COROLLARY TypeInvariant == Spec => []TypeOK
  BY TypeCorrect, PTL DEF Typed

-------------------------------------------------------------------------------
(* The drain.  Shutdown's wait can end only when every serveSession that   *)
(* was counted has returned, and those return after their handlers; no     *)
(* new handler can start, because an open listener is always one that      *)
(* Shutdown will close, and none is left open when it starts to wait.  A   *)
(* RegisterSession caught between its unlock and its wg.Add may still      *)
(* start a goroutine after the wait, but on a closed listener.             *)

Closing ==
  /\ closed <=> dpc # "running"
  /\ dpc = "running" => lopen \subseteq listeners
  /\ dpc = "closing" => lopen \subseteq lsnap
  /\ dpc \notin {"running", "closing"} => lopen = {}

HandlersCounted ==
  \A c \in Conns : Live(c) => csess[c] \in Sessions /\ Counted(csess[c])

Waited ==
  /\ wpc = "done" => closed /\ queue = <<>>
  /\ done => /\ dpc \notin {"running", "closing"}
             /\ wpc = "done"
             /\ \A c \in Conns : ~Live(c)

Drain == Closing /\ HandlersCounted /\ Waited

\* The listener of a session.
LEMMA SessionDrain ==
  ASSUME Typed, Drain, NEW s \in Sessions, SessionNext(s)
  PROVE  Drain'
  <1> USE DEF Typed, TypeOK, Drain, Closing, HandlersCounted, Waited, Live, Counted
  <1>1. CASE RegisterSession(s)
    BY <1>1 DEF RegisterSession
  <1>2. CASE StartServing(s)
    BY <1>2 DEF StartServing
  <1>3. CASE MaxAgeReached(s)
    BY <1>3 DEF MaxAgeReached
  <1>4. CASE AcceptFails(s)
    BY <1>4 DEF AcceptFails
  <1>5. CASE ServeReturns(s)
    BY <1>5 DEF ServeReturns
  <1> QED
    BY <1>1, <1>2, <1>3, <1>4, <1>5 DEF SessionNext

\* The handler of a connection.
LEMMA ConnDrain ==
  ASSUME Typed, Drain, NEW c \in Conns, ConnNext(c)
  PROVE  Drain'
  <1> USE DEF Typed, TypeOK, Drain, Closing, HandlersCounted, Waited, Live, Counted
  <1>1. ASSUME NEW s \in Sessions, Accept(c, s) PROVE Drain'
    BY <1>1 DEF Accept
  <1>2. CASE TrackConn(c)
    BY <1>2 DEF TrackConn
  <1>3. CASE ClientNegotiates(c)
    BY <1>3 DEF ClientNegotiates, Handler
  <1>4. CASE NegotiationFails(c)
    BY <1>4 DEF NegotiationFails, Handler
  <1>5. CASE UpstreamAnswers(c)
    BY <1>5 DEF UpstreamAnswers, Handler
  <1>6. CASE UpstreamSilent(c)
    BY <1>6 DEF UpstreamSilent, Handler
  <1>7. CASE UpstreamFails(c)
    BY <1>7 DEF UpstreamFails, Handler
  <1>8. CASE FrontendReturns(c)
    BY <1>8 DEF FrontendReturns, Handler
  <1>9. CASE BackendReturns(c)
    BY <1>9 DEF BackendReturns, Handler
  <1>10. CASE UntrackConn(c)
    BY <1>10 DEF UntrackConn, Handler
  <1>11. CASE CloseConn(c)
    BY <1>11 DEF CloseConn, Handler
  <1> QED
    BY <1>1, <1>2, <1>3, <1>4, <1>5, <1>6, <1>7, <1>8, <1>9, <1>10, <1>11 DEF ConnNext

\* The reader of a connection.
LEMMA ReaderDrain ==
  ASSUME Typed, Drain, NEW c \in Conns, ReaderNext(c)
  PROVE  Drain'
  <1> USE DEF Typed, TypeOK, Drain, Closing, HandlersCounted, Waited, Live, Counted
  <1>1. CASE ReadQuery(c)
    BY <1>1 DEF ReadQuery, Reader
  <1>2. CASE ReadFails(c)
    BY <1>2 DEF ReadFails, Reader
  <1>3. CASE CheckClosed(c)
    BY <1>3 DEF CheckClosed, Reader
  <1>4. CASE SendQuery(c)
    BY <1>4 DEF SendQuery, Reader
  <1>5. CASE SendPanics(c)
    BY <1>5 DEF SendPanics, Reader
  <1>6. CASE ForwardQuery(c)
    BY <1>6 DEF ForwardQuery, Reader
  <1>7. CASE ForwardFails(c)
    BY <1>7 DEF ForwardFails, Reader
  <1>8. CASE ReadUnlogged(c)
    BY <1>8 DEF ReadUnlogged, Reader
  <1> QED
    BY <1>1, <1>2, <1>3, <1>4, <1>5, <1>6, <1>7, <1>8 DEF ReaderNext

\* The worker.
LEMMA WorkerDrain ==
  ASSUME Typed, Drain, WorkerNext
  PROVE  Drain'
  <1> USE DEF Typed, TypeOK, Drain, Closing, HandlersCounted, Waited, Live, Counted
  <1>1. CASE TakeQuery
    BY <1>1 DEF TakeQuery
  <1>2. CASE WriteQuery
    BY <1>2 DEF WriteQuery
  <1>3. CASE WriteQueryFails
    BY <1>3 DEF WriteQueryFails
  <1>4. CASE WorkerReturns
    BY <1>4 DEF WorkerReturns
  <1> QED
    BY <1>1, <1>2, <1>3, <1>4 DEF WorkerNext

\* Shutdown.
LEMMA ShutdownDrain ==
  ASSUME Typed, Drain, ShutdownNext
  PROVE  Drain'
  <1> USE DEF Typed, TypeOK, Drain, Closing, HandlersCounted, Waited, Live, Counted
  <1>1. CASE ShutdownBegins
    BY <1>1 DEF ShutdownBegins
  <1>2. CASE CloseListeners
    BY <1>2 DEF CloseListeners
  <1>3. CASE WaitReturns
    BY <1>3 DEF WaitReturns
  <1>4. CASE ShutdownReturns
    BY <1>4 DEF ShutdownReturns
  <1>5. CASE DeadlinePasses
    BY <1>5 DEF DeadlinePasses
  <1>6. CASE CloseActiveConns
    BY <1>6 DEF CloseActiveConns
  <1>7. CASE ForcedReturns
    BY <1>7 DEF ForcedReturns
  <1> QED
    BY <1>1, <1>2, <1>3, <1>4, <1>5, <1>6, <1>7 DEF ShutdownNext

\* Nothing of the service is left when Shutdown's wait is over.
THEOREM DrainInvariant == Spec => []DrainedOnReturn
  <1>1. Init => Drain
    BY DEF Init, Drain, Closing, HandlersCounted, Waited, Live
  <1>2. Typed /\ Drain /\ [Next]_vars => Drain'
    <2> SUFFICES ASSUME Typed, Drain, [Next]_vars PROVE Drain'
      OBVIOUS
    <2>1. CASE UNCHANGED vars
      BY <2>1 DEF vars, Drain, Closing, HandlersCounted, Waited, Live, Counted
    <2> QED
      BY <2>1, SessionDrain, ConnDrain, ReaderDrain, WorkerDrain, ShutdownDrain DEF Next
  <1>3. Drain => DrainedOnReturn
    BY DEF Drain, Closing, Waited, DrainedOnReturn
  <1> QED
    BY <1>1, <1>2, <1>3, TypeCorrect, PTL DEF Spec

-------------------------------------------------------------------------------
(* What becomes of the log entry of a query.                               *)

\* What is sent on the channel joins its elements.
LEMMA ElementsAppend ==
  ASSUME NEW T, NEW q \in Seq(T), NEW x \in T
  PROVE  ElementsOf(Append(q, x)) = ElementsOf(q) \cup {x}
  <1> DEFINE a == Append(q, x)
  <1>1. DOMAIN a = 1 .. Len(q) + 1 /\ DOMAIN q = 1 .. Len(q) /\ Len(q) \in Nat
    OBVIOUS
  <1>2. a[Len(q) + 1] = x /\ \A i \in 1 .. Len(q) : a[i] = q[i]
    OBVIOUS
  <1> HIDE DEF a
  <1>3. \A i \in DOMAIN a : i = Len(q) + 1 \/ i \in DOMAIN q
    BY <1>1
  <1>4. \A i \in DOMAIN q : i \in DOMAIN a /\ a[i] = q[i]
    BY <1>1, <1>2
  <1>5. Len(q) + 1 \in DOMAIN a
    BY <1>1
  <1>6. ElementsOf(a) = ElementsOf(q) \cup {x}
    BY <1>2, <1>3, <1>4, <1>5 DEF ElementsOf
  <1> QED
    BY <1>6 DEF a

\* What is taken from the channel leaves its elements.
LEMMA ElementsHeadTail ==
  ASSUME NEW T, NEW q \in Seq(T), q # <<>>
  PROVE  ElementsOf(q) = {Head(q)} \cup ElementsOf(Tail(q))
  <1>1. ASSUME NEW i \in 1 .. Len(q) PROVE q[i] \in {Head(q)} \cup ElementsOf(Tail(q))
    <2>1. CASE i = 1
      BY <2>1
    <2>2. CASE i # 1
      <3>1. i - 1 \in 1 .. Len(Tail(q)) /\ Tail(q)[i - 1] = q[i]
        BY <2>2
      <3> QED
        BY <3>1 DEF ElementsOf
    <2> QED
      BY <2>1, <2>2
  <1>2. Head(q) \in ElementsOf(q)
    BY DEF ElementsOf
  <1>3. ASSUME NEW i \in 1 .. Len(Tail(q)) PROVE Tail(q)[i] \in ElementsOf(q)
    BY DEF ElementsOf
  <1> QED
    BY <1>1, <1>2, <1>3 DEF ElementsOf

\* The elements of a concatenation.
LEMMA ElementsConcat ==
  ASSUME NEW T, NEW q \in Seq(T), NEW r \in Seq(T)
  PROVE  ElementsOf(q) \cup ElementsOf(r) \subseteq ElementsOf(q \o r)
  <1>1. ASSUME NEW i \in 1 .. Len(q) PROVE q[i] \in ElementsOf(q \o r)
    BY DEF ElementsOf
  <1>2. ASSUME NEW i \in 1 .. Len(r) PROVE r[i] \in ElementsOf(q \o r)
    <2>1. Len(q) + i \in 1 .. Len(q \o r) /\ (q \o r)[Len(q) + i] = r[i]
      OBVIOUS
    <2> QED
      BY <2>1 DEF ElementsOf
  <1>3. DOMAIN q = 1 .. Len(q) /\ DOMAIN r = 1 .. Len(r)
    OBVIOUS
  <1> DEFINE E == ElementsOf(q \o r)
  <1> HIDE DEF E
  <1>4. (\A i \in DOMAIN q : q[i] \in E) /\ (\A i \in DOMAIN r : r[i] \in E)
    BY <1>1, <1>2, <1>3 DEF E
  <1>5. ElementsOf(q) \subseteq E /\ ElementsOf(r) \subseteq E
    BY <1>4 DEF ElementsOf
  <1> QED
    BY <1>5 DEF E

\* The log entry of q is written, on its way, or given up.
Logged(q) ==
  \/ q \in ElementsOf(recorded) \cup ElementsOf(queue) \cup missed
  \/ wpc = "writing" /\ q = hand

\* A log entry never disappears again.
LEMMA LoggedForGood ==
  ASSUME Typed, [Next]_vars, NEW q, Logged(q)
  PROVE  Logged(q)'
  <1> USE DEF Typed, TypeOK, HasQuery
  <1>1. CASE TakeQuery
    <2>1. ElementsOf(queue) = {Head(queue)} \cup ElementsOf(Tail(queue))
      BY <1>1, ElementsHeadTail DEF TakeQuery
    <2> QED
      BY <1>1, <2>1 DEF TakeQuery, Logged
  <1>2. CASE WriteQuery
    <2>1. ElementsOf(Append(recorded, hand)) = ElementsOf(recorded) \cup {hand}
      BY <1>2, ElementsAppend DEF WriteQuery
    <2> QED
      BY <1>2, <2>1 DEF WriteQuery, Logged
  <1>3. CASE WriteQueryFails
    BY <1>3 DEF WriteQueryFails, Logged
  <1>4. CASE WorkerReturns
    BY <1>4 DEF WorkerReturns, Logged
  <1>5. ASSUME NEW c \in Conns, SendQuery(c) PROVE Logged(q)'
    <2>1. Current(c) \in Queries
      BY <1>5, CurrentQuery DEF SendQuery, Reader
    <2>2. ElementsOf(Append(queue, Current(c))) = ElementsOf(queue) \cup {Current(c)}
      BY <2>1, ElementsAppend
    <2> QED
      BY <1>5, <2>2 DEF SendQuery, Logged
  <1>6. ASSUME NEW c \in Conns, CheckClosed(c) PROVE Logged(q)'
    BY <1>6 DEF CheckClosed, Logged
  <1>7. CASE UNCHANGED <<queue, wpc, hand, recorded, missed>>
    BY <1>7 DEF Logged
  <1>8. ASSUME NEW s \in Sessions, SessionNext(s)
        PROVE  UNCHANGED <<queue, wpc, hand, recorded, missed>>
    BY <1>8 DEF SessionNext, RegisterSession, StartServing, MaxAgeReached, AcceptFails,
                ServeReturns
  <1>9. ASSUME NEW c \in Conns, ConnNext(c)
        PROVE  UNCHANGED <<queue, wpc, hand, recorded, missed>>
    BY <1>9 DEF ConnNext, Accept, TrackConn, ClientNegotiates, NegotiationFails,
                UpstreamAnswers, UpstreamSilent, UpstreamFails, FrontendReturns,
                BackendReturns, UntrackConn, CloseConn
  <1>10. ASSUME NEW c \in Conns,
                \/ ReadQuery(c) \/ ReadUnlogged(c) \/ ReadFails(c) \/ SendPanics(c)
                \/ ForwardQuery(c) \/ ForwardFails(c)
         PROVE  UNCHANGED <<queue, wpc, hand, recorded, missed>>
    BY <1>10 DEF ReadQuery, ReadUnlogged, ReadFails, SendPanics, ForwardQuery, ForwardFails
  <1>11. ASSUME ShutdownNext PROVE UNCHANGED <<queue, wpc, hand, recorded, missed>>
    BY <1>11 DEF ShutdownNext, ShutdownBegins, CloseListeners, WaitReturns,
                 ShutdownReturns, DeadlinePasses, CloseActiveConns, ForcedReturns
  <1>12. ASSUME UNCHANGED vars PROVE UNCHANGED <<queue, wpc, hand, recorded, missed>>
    BY <1>12 DEF vars
  <1> HIDE DEF Typed, TypeOK, HasQuery
  <1> QED
    BY <1>1, <1>2, <1>3, <1>4, <1>5, <1>6, <1>7, <1>8, <1>9, <1>10, <1>11, <1>12
       DEF Next, WorkerNext, ReaderNext

\* How the queries read, their readers and the forwarded ones change: a query is read
\* with or without a text, its reader leaves the logging with CheckClosed or SendQuery,
\* and what is forwarded is the reader's query.
LEMMA ReaderSteps ==
  ASSUME Typed, [Next]_vars
  PROVE  /\ \A q \in forwarded' \ forwarded :
              \E c \in Conns : /\ fpc[c] = "forwarding" /\ q = Current(c)
                              /\ fpc'[c] = "reading" /\ sent'[c] = sent[c]
         /\ unlogged \subseteq unlogged'
         /\ \A c \in Conns :
              \/ /\ sent'[c] = sent[c]
                 /\ fpc'[c] \in {"logging", "sending"} => fpc[c] \in {"logging", "sending"}
                 /\ fpc[c] \in {"logging", "sending"}
                      => \/ fpc'[c] \in {"logging", "sending"}
                         \/ CheckClosed(c) /\ closed
                         \/ SendQuery(c)
              \/ ReadQuery(c)
              \/ ReadUnlogged(c)
  <1> USE DEF Typed, TypeOK, HasQuery
  <1>1. CASE UNCHANGED vars
    BY <1>1 DEF vars
  <1>2. ASSUME NEW s \in Sessions, SessionNext(s)
        PROVE  UNCHANGED <<forwarded, fpc, sent, unlogged>>
    BY <1>2 DEF SessionNext, RegisterSession, StartServing, MaxAgeReached, AcceptFails,
                ServeReturns
  <1>3. ASSUME NEW c \in Conns, ConnNext(c)
        PROVE  /\ UNCHANGED <<forwarded, sent, unlogged>>
               /\ \/ fpc' = fpc
                  \/ fpc' = [fpc EXCEPT ![c] = "reading"] /\ fpc[c] \notin {"logging", "sending"}
    BY <1>3 DEF ConnNext, Accept, TrackConn, ClientNegotiates, NegotiationFails,
                UpstreamAnswers, UpstreamSilent, UpstreamFails, FrontendReturns,
                BackendReturns, UntrackConn, CloseConn, Handler
  <1>4. ASSUME NEW c \in Conns, ReaderNext(c)
        PROVE  /\ \A q \in forwarded' \ forwarded :
                    /\ fpc[c] = "forwarding" /\ q = Current(c)
                    /\ fpc'[c] = "reading" /\ sent'[c] = sent[c]
               /\ unlogged \subseteq unlogged'
               /\ \A d \in Conns \ {c} : fpc'[d] = fpc[d] /\ sent'[d] = sent[d]
               /\ \/ /\ sent'[c] = sent[c]
                     /\ fpc'[c] \in {"logging", "sending"} => fpc[c] \in {"logging", "sending"}
                     /\ fpc[c] \in {"logging", "sending"}
                          => \/ fpc'[c] \in {"logging", "sending"}
                             \/ CheckClosed(c) /\ closed
                             \/ SendQuery(c)
                  \/ ReadQuery(c)
                  \/ ReadUnlogged(c)
    <2>1. CASE ReadQuery(c)
      BY <2>1 DEF ReadQuery, Reader
    <2>2. CASE ReadFails(c)
      BY <2>2 DEF ReadFails, Reader
    <2>3. CASE CheckClosed(c)
      BY <2>3 DEF CheckClosed
    <2>4. CASE SendQuery(c)
      BY <2>4 DEF SendQuery, Reader
    <2>5. CASE SendPanics(c)
      BY <2>5 DEF SendPanics
    <2>6. CASE ForwardQuery(c)
      BY <2>6 DEF ForwardQuery, Reader
    <2>7. CASE ForwardFails(c)
      BY <2>7 DEF ForwardFails, Reader
    <2>8. CASE ReadUnlogged(c)
      BY <2>8 DEF ReadUnlogged, Reader
    <2> QED
      BY <1>4, <2>1, <2>2, <2>3, <2>4, <2>5, <2>6, <2>7, <2>8 DEF ReaderNext
  <1>5. ASSUME WorkerNext \/ ShutdownNext PROVE UNCHANGED <<forwarded, fpc, sent, unlogged>>
    BY <1>5 DEF WorkerNext, TakeQuery, WriteQuery, WriteQueryFails, WorkerReturns,
                ShutdownNext, ShutdownBegins, CloseListeners, WaitReturns,
                ShutdownReturns, DeadlinePasses, CloseActiveConns, ForcedReturns
  <1>6. ASSUME UNCHANGED <<forwarded, fpc, sent, unlogged>>
        PROVE  /\ \A q \in forwarded' \ forwarded : FALSE
               /\ unlogged \subseteq unlogged'
               /\ \A c \in Conns : sent'[c] = sent[c] /\ fpc'[c] = fpc[c]
    BY <1>6
  <1> QED
    BY <1>1, <1>2, <1>3, <1>4, <1>5, <1>6 DEF Next

\* The two ways to "forwarding" dispose of the entry: it is queued or given up.
LEMMA SendLogs ==
  ASSUME Typed, NEW c \in Conns, (CheckClosed(c) /\ closed) \/ SendQuery(c)
  PROVE  Logged(Current(c))'
  <1>1. Current(c)' = Current(c)
    BY DEF CheckClosed, SendQuery, Current
  <1>2. CASE CheckClosed(c) /\ closed
    BY <1>1, <1>2 DEF CheckClosed, Logged
  <1>3. CASE SendQuery(c) /\ Len(queue) < QueryLogQueue
    <2>1. Current(c) \in Queries
      BY <1>3, CurrentQuery DEF SendQuery, Reader
    <2>2. ElementsOf(Append(queue, Current(c))) = ElementsOf(queue) \cup {Current(c)}
      BY <2>1, ElementsAppend DEF Typed, TypeOK
    <2> QED
      BY <1>1, <1>3, <2>2 DEF SendQuery, Logged
  <1>4. CASE SendQuery(c) /\ ~(Len(queue) < QueryLogQueue)
    BY <1>1, <1>4 DEF SendQuery, Logged
  <1> QED
    BY <1>2, <1>3, <1>4

\* Everything logged is in the pipeline or given up.
LEMMA LoggedInPipeline ==
  ASSUME Typed, NEW q, Logged(q)
  PROVE  q \in ElementsOf(Pipeline) \cup missed
  <1> DEFINE h == IF wpc = "writing" THEN <<hand>> ELSE <<>>
  <1>1. h \in Seq(Queries)
    BY DEF Typed, HasQuery
  <1>2. wpc = "writing" => hand \in ElementsOf(h)
    BY DEF ElementsOf
  <1>3. recorded \in Seq(Queries) /\ queue \in Seq(Queries)
    BY DEF Typed, TypeOK
  <1> HIDE DEF h
  <1>4. ElementsOf(recorded) \cup ElementsOf(h) \subseteq ElementsOf(recorded \o h)
    BY <1>1, <1>3, ElementsConcat
  <1>5. recorded \o h \in Seq(Queries)
    BY <1>1, <1>3
  <1>6. ElementsOf(recorded \o h) \cup ElementsOf(queue)
          \subseteq ElementsOf((recorded \o h) \o queue)
    BY <1>3, <1>5, ElementsConcat
  <1>7. Pipeline = (recorded \o h) \o queue
    BY DEF Pipeline, h
  <1> QED
    BY <1>2, <1>4, <1>6, <1>7 DEF Logged

-------------------------------------------------------------------------------
(* The log entries of a connection are in order.                           *)

\* What is on its way or given up was read before: it is not newer than the last
\* query of its connection, and older while that one has no entry.
Older(q) ==
  /\ q[2] <= sent[q[1]]
  /\ fpc[q[1]] \in {"logging", "sending"} => q[2] < sent[q[1]]

InOrder ==
  /\ LogInOrder
  /\ \A i \in DOMAIN Pipeline : Older(Pipeline[i])
  /\ \A q \in missed : Older(q)

\* The worker's hand as a sequence.
Held(w, h) == IF w = "writing" THEN <<h>> ELSE <<>>

\* A concatenation of three sequences, by position.
LEMMA ThreeParts ==
  ASSUME NEW T, NEW r \in Seq(T), NEW h \in Seq(T), NEW q \in Seq(T)
  PROVE  /\ (r \o h) \o q \in Seq(T)
         /\ DOMAIN ((r \o h) \o q) = 1 .. Len(r) + Len(h) + Len(q)
         /\ \A i \in 1 .. Len(r) + Len(h) + Len(q) :
              ((r \o h) \o q)[i] = IF i <= Len(r) THEN r[i]
                                   ELSE IF i <= Len(r) + Len(h) THEN h[i - Len(r)]
                                   ELSE q[i - Len(r) - Len(h)]
  <1>0. Len(r) \in Nat /\ Len(h) \in Nat /\ Len(q) \in Nat
    BY LenProperties
  <1>1. /\ r \o h \in Seq(T) /\ Len(r \o h) = Len(r) + Len(h)
        /\ \A i \in 1 .. Len(r) + Len(h) : (r \o h)[i] = IF i <= Len(r) THEN r[i] ELSE h[i - Len(r)]
    BY ConcatProperties
  <1>2. PICK rh : rh = r \o h
    OBVIOUS
  <1>3. /\ rh \o q \in Seq(T) /\ Len(rh \o q) = Len(rh) + Len(q)
        /\ \A i \in 1 .. Len(rh) + Len(q) : (rh \o q)[i] = IF i <= Len(rh) THEN rh[i] ELSE q[i - Len(rh)]
    BY <1>1, <1>2, ConcatProperties
  <1>4. DOMAIN (rh \o q) = 1 .. Len(r) + Len(h) + Len(q)
    BY <1>0, <1>1, <1>2, <1>3, LenProperties
  <1>5. ASSUME NEW i \in 1 .. Len(r) + Len(h) + Len(q)
        PROVE  (rh \o q)[i] = IF i <= Len(r) THEN r[i]
                              ELSE IF i <= Len(r) + Len(h) THEN h[i - Len(r)]
                              ELSE q[i - Len(r) - Len(h)]
    <2>1. CASE i <= Len(r) + Len(h)
      BY <1>0, <1>1, <1>2, <1>3, <2>1
    <2>2. CASE ~(i <= Len(r) + Len(h))
      <3>1. (rh \o q)[i] = q[i - Len(rh)]
        BY <1>0, <1>1, <1>2, <1>3, <2>2
      <3>2. i - Len(rh) = i - Len(r) - Len(h)
        BY <1>0, <1>1, <1>2
      <3> QED
        BY <1>0, <2>2, <3>1, <3>2
    <2> QED
      BY <2>1, <2>2
  <1> QED
    BY <1>2, <1>3, <1>4, <1>5

\* The hand holds one query or none.
LEMMA HeldParts ==
  ASSUME NEW r \in Seq(Queries), NEW q \in Seq(Queries), NEW w, NEW h, w = "writing" => h \in Queries
  PROVE  /\ Held(w, h) \in Seq(Queries)
         /\ Len(Held(w, h)) = IF w = "writing" THEN 1 ELSE 0
         /\ w = "writing" => Held(w, h)[1] = h
  BY DEF Held

\* The order and the ages survive when the pipeline loses an entry or none.
LEMMA ThinnedInOrder ==
  ASSUME InOrder, Pipeline \in Seq(Queries), Pipeline' \in Seq(Queries),
         NEW k \in Nat, NEW d \in {0, 1},
         \A i \in DOMAIN Pipeline' : /\ (IF i < k THEN i ELSE i + d) \in DOMAIN Pipeline
                                     /\ Pipeline'[i] = Pipeline[IF i < k THEN i ELSE i + d],
         \A c \in Conns : sent'[c] = sent[c],
         \A c \in Conns : fpc'[c] \in {"logging", "sending"} => fpc[c] \in {"logging", "sending"},
         missed \subseteq Queries,
         \A q \in missed' : q \in missed \/ (q \in Queries /\ Older(q)' /\ q \notin ElementsOf(Pipeline'))
  PROVE  InOrder'
  <1> DEFINE at(i) == IF i < k THEN i ELSE i + d
  <1>0. /\ \A i \in DOMAIN Pipeline : i \in Nat /\ Pipeline[i] \in Queries
        /\ \A i \in DOMAIN Pipeline' : i \in Nat /\ Pipeline'[i] \in Queries
    BY ElementOfSeq, LenProperties
  <1>1. \A i, j \in DOMAIN Pipeline' : i < j => at(i) < at(j)
    BY <1>0
  <1>2. \A i \in DOMAIN Pipeline' : at(i) \in DOMAIN Pipeline /\ Pipeline'[i] = Pipeline[at(i)]
    OBVIOUS
  <1> HIDE DEF at
  <1>3. \A i, j \in DOMAIN Pipeline' :
          i < j /\ Pipeline'[i][1] = Pipeline'[j][1] => Pipeline'[i][2] < Pipeline'[j][2]
    BY <1>1, <1>2 DEF InOrder, LogInOrder
  <1>4. ASSUME NEW q \in Queries, Older(q) PROVE Older(q)'
    <2>1. q[1] \in Conns
      BY DEF Queries
    <2> QED
      BY <1>4, <2>1 DEF Older
  <1>5. \A i \in DOMAIN Pipeline' : Older(Pipeline[i])'
    <2> TAKE i \in DOMAIN Pipeline'
    <2>1. PICK q \in Queries : q = Pipeline'[i] /\ Older(q)
      BY <1>0, <1>2 DEF InOrder
    <2>2. Older(q)'
      BY <2>1, <1>4
    <2> QED
      BY <2>1, <2>2 DEF Older
  <1>6. \A q \in missed' : Older(q)'
    BY <1>4 DEF InOrder
  <1>7. ElementsOf(Pipeline') \subseteq ElementsOf(Pipeline)
    BY <1>2 DEF ElementsOf
  <1>8. ElementsOf(Pipeline') \cap missed' = {}
    BY <1>7 DEF InOrder, LogInOrder
  <1>9. LogInOrder'
    BY <1>3, <1>8 DEF LogInOrder, ElementsOf
  <1> QED
    BY <1>5, <1>6, <1>9 DEF InOrder

\* The pipeline is its three parts.
LEMMA PipelineNow ==
  ASSUME Typed
  PROVE  /\ Pipeline = (recorded \o Held(wpc, hand)) \o queue
         /\ recorded \in Seq(Queries) /\ queue \in Seq(Queries) /\ Held(wpc, hand) \in Seq(Queries)
         /\ Pipeline \in Seq(Queries)
  <1>1. Pipeline = (recorded \o Held(wpc, hand)) \o queue
    BY DEF Pipeline, Held
  <1>2. recorded \in Seq(Queries) /\ queue \in Seq(Queries) /\ Held(wpc, hand) \in Seq(Queries)
    BY HeldParts DEF Typed, TypeOK, HasQuery
  <1> QED
    BY <1>1, <1>2, ThreeParts

\* The same before and after a step.
LEMMA PipelineTyped ==
  ASSUME Typed, Typed'
  PROVE  /\ Pipeline = (recorded \o Held(wpc, hand)) \o queue
         /\ Pipeline' = (recorded' \o Held(wpc', hand')) \o queue'
         /\ recorded \in Seq(Queries) /\ queue \in Seq(Queries) /\ Held(wpc, hand) \in Seq(Queries)
         /\ recorded' \in Seq(Queries) /\ queue' \in Seq(Queries) /\ Held(wpc', hand') \in Seq(Queries)
         /\ Pipeline \in Seq(Queries) /\ Pipeline' \in Seq(Queries)
  <1>1. Pipeline = (recorded \o Held(wpc, hand)) \o queue /\ Pipeline' = (recorded' \o Held(wpc', hand')) \o queue'
    BY DEF Pipeline, Held
  <1>2. /\ recorded \in Seq(Queries) /\ queue \in Seq(Queries) /\ Held(wpc, hand) \in Seq(Queries)
        /\ recorded' \in Seq(Queries) /\ queue' \in Seq(Queries) /\ Held(wpc', hand') \in Seq(Queries)
    BY HeldParts DEF Typed, TypeOK, HasQuery
  <1>3. (recorded \o Held(wpc, hand)) \o queue \in Seq(Queries)
    BY <1>2, ThreeParts
  <1>4. (recorded' \o Held(wpc', hand')) \o queue' \in Seq(Queries)
    BY <1>2, ThreeParts
  <1> QED
    BY <1>1, <1>2, <1>3, <1>4

\* A step that leaves the log and the queries read as they are.
LEMMA QuietInOrder ==
  ASSUME Typed, Typed', InOrder, UNCHANGED <<queue, wpc, hand, recorded>>,
         \A c \in Conns : sent'[c] = sent[c],
         \A c \in Conns : fpc'[c] \in {"logging", "sending"} => fpc[c] \in {"logging", "sending"},
         \A q \in missed' : q \in missed \/ (q \in Queries /\ Older(q)' /\ q \notin ElementsOf(Pipeline))
  PROVE  InOrder'
  <1>1. Pipeline' = Pipeline
    BY DEF Pipeline
  <1>2. Pipeline \in Seq(Queries) /\ missed \subseteq Queries
    BY PipelineTyped DEF Typed, TypeOK
  <1>3. \A i \in DOMAIN Pipeline' : (IF i < 0 THEN i ELSE i + 0) \in DOMAIN Pipeline
                                    /\ Pipeline'[i] = Pipeline[IF i < 0 THEN i ELSE i + 0]
    BY <1>1, <1>2, LenProperties
  <1> QED
    BY <1>1, <1>2, <1>3, ThinnedInOrder

\* A reader's step keeps the order: its query is the newest of its connection.
LEMMA ReaderInOrder ==
  ASSUME Typed, Typed', InOrder, NEW c \in Conns, ReaderNext(c)
  PROVE  InOrder'
  <1>0. /\ sent \in [Conns -> 0 .. MaxQueries] /\ missed \subseteq Queries
        /\ fpc \in [Conns -> {"none", "reading", "logging", "sending", "forwarding", "exited"}]
        /\ Pipeline \in Seq(Queries) /\ \A x \in Conns : sent[x] \in Nat
    BY PipelineTyped DEF Typed, TypeOK
  <1>1. /\ \A i \in DOMAIN Pipeline : Pipeline[i] \in Queries /\ i \in Nat /\ Older(Pipeline[i])
        /\ \A q \in missed : Older(q)
    BY <1>0, ElementOfSeq, LenProperties DEF InOrder
  <1>2. ASSUME NEW q \in Queries PROVE q[1] \in Conns /\ q[2] \in Nat
    BY DEF Queries
  <1>3. fpc[c] \in {"logging", "sending"} =>
          /\ \A i \in DOMAIN Pipeline : Pipeline[i] # Current(c)
          /\ Current(c) \notin ElementsOf(Pipeline) /\ Current(c) \notin missed
    <2> SUFFICES ASSUME fpc[c] \in {"logging", "sending"}, Older(Current(c)) PROVE FALSE
      BY <1>1 DEF ElementsOf
    <2>1. Current(c)[1] = c /\ Current(c)[2] = sent[c]
      BY DEF Current
    <2> QED
      BY <1>0, <2>1 DEF Older
  <1>4. CASE ReadQuery(c) \/ ReadUnlogged(c)
    <2>1. /\ sent' = [sent EXCEPT ![c] = @ + 1] /\ fpc[c] = "reading"
          /\ fpc' = [fpc EXCEPT ![c] = "logging"] \/ fpc' = [fpc EXCEPT ![c] = "forwarding"]
          /\ UNCHANGED <<queue, wpc, hand, recorded, missed>>
      BY <1>4 DEF ReadQuery, ReadUnlogged, Reader
    <2>2. Pipeline' = Pipeline
      BY <2>1 DEF Pipeline
    <2>3. ASSUME NEW q \in Queries, Older(q) PROVE Older(q)'
      <3>1. CASE q[1] = c
        BY <2>1, <2>3, <3>1, <1>0, <1>2 DEF Older
      <3>2. CASE q[1] # c
        BY <2>1, <2>3, <3>2, <1>0, <1>2 DEF Older
      <3> QED
        BY <3>1, <3>2
    <2>4. \A i \in DOMAIN Pipeline : Older(Pipeline[i])'
      <3> TAKE i \in DOMAIN Pipeline
      <3>1. PICK q \in Queries : q = Pipeline[i] /\ q = Pipeline'[i] /\ Older(q)
        BY <1>1, <2>2
      <3>2. Older(q)'
        BY <3>1, <2>3
      <3> QED
        BY <3>1, <3>2 DEF Older
    <2>5. \A q \in missed : Older(q)'
      BY <1>0, <1>1, <2>3
    <2>6. LogInOrder'
      BY <2>1, <2>2 DEF InOrder, LogInOrder
    <2> QED
      BY <2>1, <2>2, <2>4, <2>5, <2>6 DEF InOrder
  <1>5. CASE CheckClosed(c)
    <2>1. /\ fpc[c] = "logging" /\ UNCHANGED <<queue, wpc, hand, recorded, sent>>
          /\ \/ fpc' = [fpc EXCEPT ![c] = "forwarding"] /\ missed' = missed \cup {Current(c)}
             \/ fpc' = [fpc EXCEPT ![c] = "sending"] /\ missed' = missed
      BY <1>5 DEF CheckClosed
    <2>2. Current(c) \in Queries
      BY <2>1, CurrentQuery
    <2>3. missed' # missed => Older(Current(c))'
      <3>1. ASSUME fpc' = [fpc EXCEPT ![c] = "forwarding"] PROVE Older(Current(c))'
        <4>1. fpc'[c] = "forwarding" /\ sent'[c] = sent[c] /\ sent'[c] \in Nat
          BY <1>0, <2>1, <3>1
        <4> QED
          BY <4>1 DEF Older, Current
      <3> QED
        BY <2>1, <3>1
    <2>4. PICK q0 \in Queries : q0 = Current(c) /\ q0 = Current(c)' /\ q0 \notin ElementsOf(Pipeline)
      BY <1>3, <2>1, <2>2 DEF Current
    <2>5. missed' # missed => Older(q0)'
      BY <2>3, <2>4 DEF Older
    <2>6. \A q \in missed' : q \in missed \/ (q \in Queries /\ Older(q)' /\ q \notin ElementsOf(Pipeline))
      <3>1. CASE missed' = missed
        BY <3>1
      <3>2. CASE missed' # missed
        <4>1. Older(q0)' /\ missed' = missed \cup {q0}
          BY <3>2, <2>1, <2>4, <2>5
        <4>2. \A q \in missed' : q \in missed \/ q = q0
          BY <4>1
        <4> QED
          BY <4>1, <4>2, <2>4
      <3> QED
        BY <3>1, <3>2
    <2>7. \A x \in Conns : fpc'[x] \in {"logging", "sending"} => fpc[x] \in {"logging", "sending"}
      BY <1>0, <2>1
    <2> QED
      BY <2>1, <2>6, <2>7, QuietInOrder
  <1>6. CASE SendQuery(c)
    <2>1. /\ fpc[c] = "sending" /\ fpc' = [fpc EXCEPT ![c] = "forwarding"] /\ UNCHANGED <<wpc, hand, recorded, sent>>
          /\ \/ queue' = queue /\ missed' = missed \cup {Current(c)}
             \/ queue' = Append(queue, Current(c)) /\ missed' = missed
      BY <1>6 DEF SendQuery, Reader
    <2>2. Current(c) \in Queries
      BY <2>1, CurrentQuery
    <2>3. PICK q0 \in Queries : /\ q0 = Current(c) /\ q0[1] = c /\ q0[2] = sent[c]
                                /\ q0 \notin ElementsOf(Pipeline) /\ q0 \notin missed
      BY <1>3, <2>1, <2>2 DEF Current
    <2>4. Older(q0)'
      <3>1. fpc'[c] = "forwarding" /\ sent'[c] = sent[c] /\ sent[c] \in Nat
        BY <1>0, <2>1
      <3> QED
        BY <2>3, <3>1 DEF Older
    <2>5. \A x \in Conns : fpc'[x] \in {"logging", "sending"} => fpc[x] \in {"logging", "sending"}
      BY <1>0, <2>1
    <2>6. CASE queue' = queue
      <3>1. \A q \in missed' : q \in missed \/ (q \in Queries /\ Older(q)' /\ q \notin ElementsOf(Pipeline))
        <4>1. \A q \in missed' : q \in missed \/ q = q0
          BY <2>1, <2>3
        <4> QED
          BY <4>1, <2>3, <2>4
      <3> QED
        BY <2>1, <2>5, <2>6, <3>1, QuietInOrder
    <2>7. CASE queue' = Append(queue, Current(c)) /\ missed' = missed
      <3>1. Pipeline' = Append(Pipeline, q0)
        <4>1. /\ Pipeline = (recorded \o Held(wpc, hand)) \o queue
              /\ Pipeline' = (recorded \o Held(wpc, hand)) \o Append(queue, q0)
              /\ recorded \in Seq(Queries) /\ Held(wpc, hand) \in Seq(Queries) /\ queue \in Seq(Queries)
          BY <2>1, <2>3, <2>7, PipelineTyped
        <4>2. recorded \o Held(wpc, hand) \in Seq(Queries)
          BY <4>1, ConcatProperties
        <4>3. PICK rh \in Seq(Queries) : rh = recorded \o Held(wpc, hand)
          BY <4>2
        <4>4. Append(queue, q0) = queue \o <<q0>> /\ <<q0>> \in Seq(Queries)
          BY <4>1, AppendIsConcat
        <4>5. rh \o (queue \o <<q0>>) = (rh \o queue) \o <<q0>>
          BY <4>1, <4>4, ConcatAssociative
        <4>6. Append(rh \o queue, q0) = (rh \o queue) \o <<q0>>
          BY <4>1, AppendIsConcat, ConcatProperties
        <4> QED
          BY <4>1, <4>3, <4>4, <4>5, <4>6
      <3>2. /\ DOMAIN Pipeline = 1 .. Len(Pipeline) /\ DOMAIN Pipeline' = 1 .. Len(Pipeline) + 1
            /\ Len(Pipeline) \in Nat /\ Pipeline'[Len(Pipeline) + 1] = q0
            /\ \A i \in 1 .. Len(Pipeline) : Pipeline'[i] = Pipeline[i]
        BY <3>1, <1>0, AppendProperties, LenProperties
      <3>3. PICK n \in Nat : n = Len(Pipeline)
        BY <3>2
      <3>4. ASSUME NEW i \in 1 .. n
            PROVE  /\ Pipeline[i] \in Queries /\ Pipeline'[i] = Pipeline[i]
                   /\ Older(Pipeline[i]) /\ Older(Pipeline[i])' /\ (Pipeline[i][1] = c => Pipeline[i][2] < sent[c])
        <4>1. PICK q \in Queries : q = Pipeline[i] /\ q = Pipeline'[i] /\ Older(q)
          BY <1>1, <3>2, <3>3
        <4>2. q[1] = c => q[2] < sent[c]
          BY <4>1, <2>1 DEF Older
        <4>3. Older(q)'
          BY <4>1, <2>1, <2>5, <1>0, <1>2 DEF Older
        <4> QED
          BY <4>1, <4>2, <4>3 DEF Older
      <3>5. \A i, j \in DOMAIN Pipeline' :
              i < j /\ Pipeline'[i][1] = Pipeline'[j][1] => Pipeline'[i][2] < Pipeline'[j][2]
        <4> TAKE i, j \in DOMAIN Pipeline'
        <4>1. CASE j <= n
          BY <3>2, <3>3, <3>4, <4>1 DEF InOrder, LogInOrder
        <4>2. CASE j = n + 1
          BY <3>2, <3>3, <3>4, <4>2, <2>3
        <4> QED
          BY <3>2, <3>3, <4>1, <4>2
      <3>6. ElementsOf(Pipeline') = ElementsOf(Pipeline) \cup {q0}
        BY <3>1, <1>0, ElementsAppend
      <3>7. LogInOrder'
        BY <3>5, <3>6, <2>3, <2>7 DEF InOrder, LogInOrder, ElementsOf
      <3>8. \A i \in DOMAIN Pipeline' : Older(Pipeline[i])'
        <4> TAKE i \in DOMAIN Pipeline'
        <4>1. CASE i = n + 1
          <5>1. Pipeline'[i] = q0
            BY <3>2, <3>3, <4>1
          <5> QED
            BY <5>1, <2>4 DEF Older
        <4>2. CASE i \in 1 .. n
          BY <3>4, <4>2
        <4> QED
          BY <3>2, <3>3, <4>1, <4>2
      <3>9. ASSUME NEW q \in missed' PROVE Older(q)'
        BY <1>0, <1>1, <1>2, <2>1, <2>5, <2>7, <3>9 DEF Older
      <3> QED
        BY <3>7, <3>8, <3>9 DEF InOrder
    <2> QED
      BY <2>1, <2>6, <2>7
  <1>7. CASE ReadFails(c) \/ SendPanics(c) \/ ForwardQuery(c) \/ ForwardFails(c)
    <2>1. /\ UNCHANGED <<queue, wpc, hand, recorded, sent, missed>>
          /\ fpc' = fpc \/ fpc' = [fpc EXCEPT ![c] = "exited"] \/ fpc' = [fpc EXCEPT ![c] = "reading"]
      BY <1>7 DEF ReadFails, SendPanics, ForwardQuery, ForwardFails, Reader
    <2>2. \A x \in Conns : fpc'[x] \in {"logging", "sending"} => fpc[x] \in {"logging", "sending"}
      BY <1>0, <2>1
    <2> QED
      BY <2>1, <2>2, QuietInOrder
  <1> QED
    BY <1>4, <1>5, <1>6, <1>7 DEF ReaderNext

\* The worker moves the entries along, or gives one up.
LEMMA WorkerInOrder ==
  ASSUME Typed, Typed', InOrder, WorkerNext
  PROVE  InOrder'
  <1>0. /\ recorded \in Seq(Queries) /\ queue \in Seq(Queries) /\ Held(wpc, hand) \in Seq(Queries)
        /\ recorded' \in Seq(Queries) /\ queue' \in Seq(Queries) /\ Held(wpc', hand') \in Seq(Queries)
        /\ Pipeline \in Seq(Queries) /\ Pipeline' \in Seq(Queries) /\ missed \subseteq Queries
    BY PipelineTyped DEF Typed, TypeOK
  <1>1. PICK r \in Seq(Queries), q \in Seq(Queries), h \in Seq(Queries) :
          r = recorded /\ q = queue /\ h = Held(wpc, hand)
    BY <1>0
  <1>2. PICK r2 \in Seq(Queries), q2 \in Seq(Queries), h2 \in Seq(Queries) :
          r2 = recorded' /\ q2 = queue' /\ h2 = Held(wpc', hand')
    BY <1>0
  <1>3. PICK p, p2 : /\ p = Pipeline /\ p = (r \o h) \o q
                     /\ p2 = Pipeline' /\ p2 = (r2 \o h2) \o q2
    BY <1>1, <1>2, PipelineTyped
  <1>l. /\ Len(r) \in Nat /\ Len(q) \in Nat /\ Len(h) \in Nat
        /\ Len(r2) \in Nat /\ Len(q2) \in Nat /\ Len(h2) \in Nat
    BY LenProperties
  <1>4. /\ DOMAIN p = 1 .. Len(r) + Len(h) + Len(q)
        /\ \A i \in 1 .. Len(r) + Len(h) + Len(q) :
             p[i] = IF i <= Len(r) THEN r[i]
                    ELSE IF i <= Len(r) + Len(h) THEN h[i - Len(r)]
                    ELSE q[i - Len(r) - Len(h)]
    BY <1>3, ThreeParts
  <1>5. /\ DOMAIN p2 = 1 .. Len(r2) + Len(h2) + Len(q2)
        /\ \A i \in 1 .. Len(r2) + Len(h2) + Len(q2) :
             p2[i] = IF i <= Len(r2) THEN r2[i]
                     ELSE IF i <= Len(r2) + Len(h2) THEN h2[i - Len(r2)]
                     ELSE q2[i - Len(r2) - Len(h2)]
    BY <1>3, ThreeParts
  <1>6. sent' = sent /\ fpc' = fpc
    BY DEF WorkerNext, TakeQuery, WriteQuery, WriteQueryFails, WorkerReturns
  <1>7. ASSUME missed' = missed, DOMAIN p2 = DOMAIN p, \A i \in DOMAIN p : p2[i] = p[i]
        PROVE  InOrder'
    <2>1. \A i \in DOMAIN Pipeline' : (IF i < 0 THEN i ELSE i + 0) \in DOMAIN Pipeline
                                      /\ Pipeline'[i] = Pipeline[IF i < 0 THEN i ELSE i + 0]
      <3>1. \A i \in DOMAIN p2 : i \in Nat /\ (IF i < 0 THEN i ELSE i + 0) = i
        BY <1>5, <1>l
      <3>2. \A i \in DOMAIN p2 : (IF i < 0 THEN i ELSE i + 0) \in DOMAIN p /\ p2[i] = p[IF i < 0 THEN i ELSE i + 0]
        BY <1>7, <3>1
      <3> QED
        BY <1>3, <3>2
    <2> QED
      BY <1>0, <1>6, <1>7, <2>1, ThinnedInOrder
  <1>8. CASE TakeQuery
    <2>1. /\ q # <<>> /\ q2 = Tail(q) /\ h = <<>> /\ h2 = <<Head(q)>> /\ r2 = r /\ missed' = missed
      BY <1>1, <1>2, <1>8 DEF TakeQuery, Held
    <2>2. /\ Len(q2) = Len(q) - 1 /\ \A i \in 1 .. Len(q2) : q2[i] = q[i + 1]
      BY <2>1, HeadTailProperties
    <2>3. Len(h) = 0 /\ Len(h2) = 1 /\ h2[1] = q[1]
      BY <2>1
    <2>4. DOMAIN p2 = DOMAIN p
      BY <1>4, <1>5, <1>l, <2>1, <2>2, <2>3
    <2>5. ASSUME NEW i \in DOMAIN p PROVE p2[i] = p[i]
      <3>1. i \in Nat /\ i >= 1 /\ i <= Len(r) + Len(q)
        BY <1>4, <1>l, <2>3
      <3>2. CASE i <= Len(r)
        BY <1>4, <1>5, <1>l, <2>1, <2>2, <2>3, <2>4, <3>1, <3>2
      <3>a. /\ p[i] = IF i <= Len(r) THEN r[i]
                      ELSE IF i <= Len(r) + Len(h) THEN h[i - Len(r)] ELSE q[i - Len(r) - Len(h)]
            /\ p2[i] = IF i <= Len(r2) THEN r2[i]
                       ELSE IF i <= Len(r2) + Len(h2) THEN h2[i - Len(r2)] ELSE q2[i - Len(r2) - Len(h2)]
        BY <1>4, <1>5, <2>4
      <3>3. CASE i = Len(r) + 1
        <4>1. i - Len(r) - Len(h) = 1 /\ i - Len(r2) = 1 /\ ~(i <= Len(r)) /\ ~(i <= Len(r) + Len(h))
              /\ i <= Len(r2) + Len(h2)
          BY <1>l, <2>1, <2>3, <3>3
        <4> QED
          BY <3>a, <4>1, <2>1, <2>3
      <3>4. CASE i > Len(r) + 1
        <4>1. p[i] = q[i - Len(r)] /\ p2[i] = q2[i - Len(r) - 1]
          <5>1. /\ i - Len(r) - Len(h) = i - Len(r) /\ i - Len(r2) - Len(h2) = i - Len(r) - 1
                /\ ~(i <= Len(r)) /\ ~(i <= Len(r) + Len(h)) /\ ~(i <= Len(r2)) /\ ~(i <= Len(r2) + Len(h2))
            BY <1>l, <2>1, <2>3, <3>1, <3>4
          <5> QED
            BY <3>a, <5>1
        <4>2. i - Len(r) - 1 \in 1 .. Len(q2) /\ (i - Len(r) - 1) + 1 = i - Len(r)
          BY <1>l, <2>2, <3>1, <3>4
        <4> QED
          BY <4>1, <4>2, <2>2
      <3> QED
        BY <1>l, <3>1, <3>2, <3>3, <3>4
    <2> QED
      BY <1>7, <2>1, <2>4, <2>5
  <1>9. CASE WriteQuery
    <2>1. /\ hand \in Queries /\ r2 = Append(r, hand) /\ h = <<hand>> /\ h2 = <<>> /\ q2 = q /\ missed' = missed
      BY <1>1, <1>2, <1>9 DEF WriteQuery, Held, Typed, HasQuery
    <2>2. Len(r2) = Len(r) + 1 /\ r2[Len(r) + 1] = hand /\ \A i \in 1 .. Len(r) : r2[i] = r[i]
      BY <2>1, AppendProperties
    <2>3. Len(h) = 1 /\ h[1] = hand /\ Len(h2) = 0
      BY <2>1
    <2>4. DOMAIN p2 = DOMAIN p
      BY <1>4, <1>5, <1>l, <2>1, <2>2, <2>3
    <2>5. ASSUME NEW i \in DOMAIN p PROVE p2[i] = p[i]
      <3>1. i \in Nat /\ i >= 1 /\ i <= Len(r) + 1 + Len(q)
        BY <1>4, <1>l, <2>3
      <3>2. CASE i <= Len(r)
        BY <1>4, <1>5, <1>l, <2>1, <2>2, <2>3, <2>4, <3>1, <3>2
      <3>3. CASE i = Len(r) + 1
        BY <1>4, <1>5, <1>l, <2>1, <2>2, <2>3, <2>4, <3>1, <3>3
      <3>4. CASE i > Len(r) + 1
        BY <1>4, <1>5, <1>l, <2>1, <2>2, <2>3, <2>4, <3>1, <3>4
      <3> QED
        BY <1>l, <3>1, <3>2, <3>3, <3>4
    <2> QED
      BY <1>7, <2>1, <2>4, <2>5
  <1>10. CASE WriteQueryFails
    <2>1. /\ hand \in Queries /\ r2 = r /\ h = <<hand>> /\ h2 = <<>> /\ q2 = q /\ missed' = missed \cup {hand}
      BY <1>1, <1>2, <1>10 DEF WriteQueryFails, Held, Typed, HasQuery
    <2>2. Len(h) = 1 /\ h[1] = hand /\ Len(h2) = 0
      BY <2>1
    <2>3. PICK k \in Nat : k = Len(r) + 1
      BY <1>l
    <2>4. k \in DOMAIN p /\ p[k] = hand
      BY <1>4, <1>l, <2>2, <2>3
    <2>5. ASSUME NEW i \in DOMAIN p2
          PROVE  (IF i < k THEN i ELSE i + 1) \in DOMAIN p /\ p2[i] = p[IF i < k THEN i ELSE i + 1]
      <3>1. i \in Nat /\ i >= 1 /\ i <= Len(r) + Len(q)
        BY <1>5, <1>l, <2>1, <2>2
      <3>2. CASE i < k
        BY <1>4, <1>5, <1>l, <2>1, <2>2, <2>3, <3>1, <3>2
      <3>3. CASE ~(i < k)
        <4>1. i + 1 \in DOMAIN p /\ p[i + 1] = q[(i + 1) - Len(r) - 1] /\ p2[i] = q[i - Len(r) - 0]
          <5>1. /\ ~(i <= Len(r2)) /\ ~(i <= Len(r2) + Len(h2)) /\ i \in 1 .. Len(r2) + Len(h2) + Len(q2)
                /\ ~(i + 1 <= Len(r)) /\ ~(i + 1 <= Len(r) + Len(h)) /\ i + 1 \in 1 .. Len(r) + Len(h) + Len(q)
            BY <1>l, <2>1, <2>2, <2>3, <3>1, <3>3
          <5>2. p[i + 1] = q[(i + 1) - Len(r) - Len(h)] /\ p2[i] = q2[i - Len(r2) - Len(h2)]
            BY <1>4, <1>5, <5>1
          <5> QED
            BY <1>4, <2>1, <2>2, <5>1, <5>2
        <4>2. (i + 1) - Len(r) - 1 = i - Len(r) - 0
          BY <1>l, <3>1
        <4> QED
          BY <3>3, <4>1, <4>2
      <3> QED
        BY <3>2, <3>3
    <2>6. PICK x \in Queries : x = hand
      BY <2>1
    <2>7. x \notin ElementsOf(p2)
      \* Its place is the only one in the pipeline.
      <3>1. \A i \in DOMAIN p : p[i] = x => i = k
        <4> SUFFICES ASSUME NEW i \in DOMAIN p, p[i] = x, i # k PROVE FALSE
          OBVIOUS
        <4>1. i \in Nat /\ (i < k \/ k < i)
          BY <1>4, <1>l, <2>3
        <4>2. x[2] < x[2]
          BY <1>3, <2>4, <2>6, <4>1 DEF InOrder, LogInOrder
        <4>3. x[2] \in Nat
          BY DEF Queries
        <4> QED
          BY <4>2, <4>3
      <3>2. \A i \in DOMAIN p2 : (IF i < k THEN i ELSE i + 1) # k /\ i \in Nat
        BY <1>5, <1>l
      <3> QED
        BY <2>5, <3>1, <3>2 DEF ElementsOf
    <2>8. Older(x)'
      <3>1. Older(x)
        BY <1>3, <2>4, <2>6 DEF InOrder
      <3> QED
        BY <3>1, <1>6 DEF Older
    <2>9. \A y \in missed' : y \in missed \/ (y \in Queries /\ Older(y)' /\ y \notin ElementsOf(Pipeline'))
      <3>1. \A y \in missed' : y \in missed \/ y = x
        BY <2>1, <2>6
      <3> QED
        BY <3>1, <2>6, <2>7, <2>8, <1>3
    <2>10. \A i \in DOMAIN Pipeline' : (IF i < k THEN i ELSE i + 1) \in DOMAIN Pipeline
                                       /\ Pipeline'[i] = Pipeline[IF i < k THEN i ELSE i + 1]
      BY <1>3, <2>5
    <2> QED
      BY <1>0, <1>6, <2>9, <2>10, ThinnedInOrder
  <1>11. CASE WorkerReturns
    <2>1. /\ r2 = r /\ q2 = q /\ h = <<>> /\ h2 = <<>> /\ missed' = missed
      BY <1>1, <1>2, <1>11 DEF WorkerReturns, Held
    <2> QED
      BY <1>3, <1>7, <2>1
  <1> QED
    BY <1>8, <1>9, <1>10, <1>11 DEF WorkerNext

\* The order of the entries is inductive together with their age.
LEMMA InOrderInvariant == Spec => []InOrder
  <1>1. Init => InOrder
    <2> SUFFICES ASSUME Init PROVE InOrder
      OBVIOUS
    <2>1. Pipeline = <<>> /\ missed = {}
      BY DEF Init, Pipeline
    <2> QED
      BY <2>1 DEF InOrder, LogInOrder, ElementsOf
  <1>2. Typed /\ Typed' /\ InOrder /\ [Next]_vars => InOrder'
    <2> SUFFICES ASSUME Typed, Typed', InOrder, [Next]_vars PROVE InOrder'
      OBVIOUS
    <2>1. ASSUME UNCHANGED <<queue, wpc, hand, recorded, missed, sent>>,
                 \A c \in Conns : fpc'[c] \in {"logging", "sending"} => fpc[c] \in {"logging", "sending"}
          PROVE  InOrder'
      BY <2>1, QuietInOrder
    <2>2. CASE UNCHANGED vars
      BY <2>1, <2>2 DEF vars
    <2>3. ASSUME NEW s \in Sessions, SessionNext(s) PROVE InOrder'
      BY <2>1, <2>3 DEF SessionNext, RegisterSession, StartServing, MaxAgeReached, AcceptFails, ServeReturns
    <2>4. ASSUME NEW c \in Conns, ConnNext(c) PROVE InOrder'
      <3>1. /\ UNCHANGED <<queue, wpc, hand, recorded, missed, sent>>
            /\ fpc' = fpc \/ fpc' = [fpc EXCEPT ![c] = "reading"]
        BY <2>4 DEF ConnNext, Accept, TrackConn, ClientNegotiates, NegotiationFails, UpstreamAnswers, UpstreamSilent,
                    UpstreamFails, FrontendReturns, BackendReturns, UntrackConn, CloseConn
      <3>2. \A x \in Conns : fpc'[x] \in {"logging", "sending"} => fpc[x] \in {"logging", "sending"}
        BY <3>1 DEF Typed, TypeOK
      <3> QED
        BY <2>1, <3>1, <3>2
    <2>5. CASE ShutdownNext
      BY <2>1, <2>5 DEF ShutdownNext, ShutdownBegins, CloseListeners, WaitReturns, ShutdownReturns, DeadlinePasses,
                        CloseActiveConns, ForcedReturns
    <2> QED
      BY <2>2, <2>3, <2>4, <2>5, ReaderInOrder, WorkerInOrder DEF Next
  <1> QED
    BY <1>1, <1>2, TypeCorrect, PTL DEF Spec

\* A connection's queries are recorded in the order in which its client sent them,
\* each at most once and none that was given up, for any number of connections and
\* queries and any capacity of the channel.
THEOREM LogOrder == Spec => []LogInOrder
  <1>1. InOrder => LogInOrder
    BY DEF InOrder
  <1> QED
    BY <1>1, InOrderInvariant, PTL

-------------------------------------------------------------------------------
(* No entry is left out in silence.  Every query read is accounted for     *)
(* unless its reader is about to log it; with the order of the entries, an *)
(* entry that is written leaves no earlier one behind it in the pipeline.  *)

Accounted(q) == Logged(q) \/ q \in unlogged

Accounts ==
  /\ \A c \in Conns : \A n \in 1 .. sent[c] :
       \/ Accounted(<<c, n>>)
       \/ fpc[c] \in {"logging", "sending"} /\ n = sent[c]
  /\ \A q \in forwarded : Older(q)

\* A query accounted for stays so.
LEMMA AccountedForGood ==
  ASSUME Typed, [Next]_vars, NEW q, Accounted(q)
  PROVE  Accounted(q)'
  <1>1. CASE Logged(q)
    BY <1>1, LoggedForGood DEF Accounted
  <1>2. CASE q \in unlogged
    BY <1>2, ReaderSteps DEF Accounted
  <1> QED
    BY <1>1, <1>2 DEF Accounted

\* The queries of connection c after a step.
LEMMA ReadAccounted ==
  ASSUME Typed, Accounts, [Next]_vars, NEW c \in Conns, NEW n \in 1 .. sent'[c]
  PROVE  \/ Accounted(<<c, n>>)'
         \/ fpc'[c] \in {"logging", "sending"} /\ n = sent'[c]
  <1>0. sent \in [Conns -> 0 .. MaxQueries] /\ sent[c] \in Nat /\ n \in Nat
    BY ProxyAssumption DEF Typed, TypeOK
  <1>00. PICK q : q = <<c, n>>
    OBVIOUS
  <1>1. CASE /\ sent'[c] = sent[c]
             /\ fpc[c] \in {"logging", "sending"}
                  => \/ fpc'[c] \in {"logging", "sending"}
                     \/ CheckClosed(c) /\ closed
                     \/ SendQuery(c)
    <2>1. CASE Accounted(<<c, n>>)
      <3>1. Accounted(q)
        BY <2>1, <1>00
      <3>2. Accounted(q)'
        BY <3>1, AccountedForGood
      <3> QED
        BY <3>2, <1>00 DEF Accounted, Logged
    <2>2. CASE fpc[c] \in {"logging", "sending"} /\ n = sent[c]
      <3>1. CASE fpc'[c] \in {"logging", "sending"}
        BY <1>1, <2>2, <3>1
      <3>2. CASE (CheckClosed(c) /\ closed) \/ SendQuery(c)
        <4>1. Logged(Current(c))'
          BY <3>2, SendLogs
        <4>2. Current(c)' = <<c, n>>
          BY <1>1, <2>2 DEF Current
        <4> QED
          BY <4>1, <4>2 DEF Accounted, Logged
      <3> QED
        BY <1>1, <2>2, <3>1, <3>2
    <2> QED
      BY <1>1, <2>1, <2>2 DEF Accounts
  <1>2. CASE ReadQuery(c) \/ ReadUnlogged(c)
    <2>1. /\ sent'[c] = sent[c] + 1 /\ fpc[c] = "reading"
      BY <1>0, <1>2 DEF ReadQuery, ReadUnlogged, Reader
    <2>2. CASE n # sent'[c]
      <3>1. n \in 1 .. sent[c]
        BY <1>0, <2>1, <2>2
      <3>2. Accounted(q)
        BY <3>1, <2>1, <1>00 DEF Accounts
      <3>3. Accounted(q)'
        BY <3>2, AccountedForGood
      <3> QED
        BY <3>3, <1>00 DEF Accounted, Logged
    <2>3. CASE n = sent'[c] /\ ReadQuery(c)
      <3>1. fpc'[c] = "logging"
        BY <2>3 DEF ReadQuery, Reader, Typed, TypeOK
      <3> QED
        BY <2>3, <3>1
    <2>4. CASE n = sent'[c] /\ ReadUnlogged(c)
      <3>1. <<c, n>> \in unlogged'
        BY <2>1, <2>4 DEF ReadUnlogged
      <3> QED
        BY <3>1 DEF Accounted
    <2> QED
      BY <1>2, <2>2, <2>3, <2>4
  <1> QED
    BY <1>1, <1>2, ReaderSteps

\* A query that is not newer than its reader's stays so.
LEMMA StaysOlder ==
  ASSUME Typed, [Next]_vars, NEW q \in Queries, Older(q)
  PROVE  Older(q)'
  <1>1. q[1] \in Conns /\ q[2] \in Nat /\ sent[q[1]] \in Nat /\ sent \in [Conns -> 0 .. MaxQueries]
    BY ProxyAssumption DEF Queries, Typed, TypeOK
  <1>2. PICK c \in Conns : c = q[1]
    BY <1>1
  <1>3. CASE /\ sent'[c] = sent[c]
             /\ fpc'[c] \in {"logging", "sending"} => fpc[c] \in {"logging", "sending"}
    BY <1>1, <1>2, <1>3 DEF Older
  <1>4. CASE ReadQuery(c) \/ ReadUnlogged(c)
    <2>1. sent'[c] = sent[c] + 1
      BY <1>1, <1>4 DEF ReadQuery, ReadUnlogged
    <2> QED
      BY <1>1, <1>2, <2>1 DEF Older
  <1> QED
    BY <1>3, <1>4, ReaderSteps

\* What is forwarded has been read and is past its logging.
LEMMA ForwardedOlder ==
  ASSUME Typed, Accounts, [Next]_vars, NEW q \in forwarded'
  PROVE  Older(q)'
  <1>1. CASE q \in forwarded
    <2>1. q \in Queries /\ Older(q)
      BY <1>1 DEF Typed, TypeOK, Accounts
    <2> QED
      BY <2>1, StaysOlder
  <1>2. CASE q \notin forwarded
    <2>1. PICK c \in Conns : /\ q = Current(c) /\ fpc'[c] = "reading" /\ sent'[c] = sent[c]
      BY <1>2, ReaderSteps
    <2>2. q[1] = c /\ q[2] = sent[c] /\ sent[c] \in Nat
      BY <2>1, ProxyAssumption DEF Current, Typed, TypeOK
    <2> QED
      BY <2>1, <2>2 DEF Older
  <1> QED
    BY <1>1, <1>2

\* A query accounted for and older than one that is recorded is recorded, given up or
\* without text: in the pipeline it would come after the recorded one.
LEMMA OlderRecorded ==
  ASSUME Typed, InOrder, NEW i \in DOMAIN recorded, NEW c \in Conns, NEW m \in Nat, NEW n \in Nat,
         recorded[i] = <<c, n>>, m < n, Accounted(<<c, m>>)
  PROVE  <<c, m>> \in ElementsOf(recorded) \cup missed \cup unlogged
  <1> DEFINE r == recorded
             h == Held(wpc, hand)
             q == queue
  <1>1. /\ r \in Seq(Queries) /\ h \in Seq(Queries) /\ q \in Seq(Queries)
        /\ Pipeline = (r \o h) \o q
    BY PipelineNow
  <1>2. /\ DOMAIN Pipeline = 1 .. Len(r) + Len(h) + Len(q)
        /\ \A j \in 1 .. Len(r) + Len(h) + Len(q) :
              Pipeline[j] = IF j <= Len(r) THEN r[j]
                            ELSE IF j <= Len(r) + Len(h) THEN h[j - Len(r)]
                            ELSE q[j - Len(r) - Len(h)]
    BY <1>1, ThreeParts
  <1>3. /\ Len(r) \in Nat /\ Len(h) \in Nat /\ Len(q) \in Nat
        /\ DOMAIN r = 1 .. Len(r) /\ DOMAIN q = 1 .. Len(q)
    BY <1>1, LenProperties
  <1>4. wpc = "writing" => Len(h) = 1 /\ h[1] = hand
    BY HeldParts, <1>1 DEF Typed, TypeOK, HasQuery
  <1> HIDE DEF r, h, q
  <1>5. i \in 1 .. Len(r) /\ r[i] = <<c, n>>
    BY <1>3 DEF r
  <1>6. i \in DOMAIN Pipeline /\ Pipeline[i] = <<c, n>>
    BY <1>2, <1>3, <1>5
  <1>7. ASSUME NEW j \in DOMAIN Pipeline, Pipeline[j] = <<c, m>>, i < j PROVE FALSE
    <2>1. Pipeline[i][1] = c /\ Pipeline[j][1] = c /\ Pipeline[i][2] = n /\ Pipeline[j][2] = m
      BY <1>6, <1>7
    <2>2. n < m
      BY <1>6, <1>7, <2>1 DEF InOrder, LogInOrder
    <2> QED
      BY <2>2
  <1>8. CASE <<c, m>> \in ElementsOf(queue)
    <2>1. PICK k \in 1 .. Len(q) : q[k] = <<c, m>>
      BY <1>3, <1>8 DEF ElementsOf, q
    <2>2. PICK j : j = Len(r) + Len(h) + k
      OBVIOUS
    <2>3. /\ j \in 1 .. Len(r) + Len(h) + Len(q) /\ i < j
          /\ ~(j <= Len(r)) /\ ~(j <= Len(r) + Len(h)) /\ j - Len(r) - Len(h) = k
      BY <1>3, <1>5, <2>1, <2>2
    <2>4. j \in DOMAIN Pipeline /\ Pipeline[j] = q[k]
      BY <1>2, <2>3
    <2> QED
      BY <1>7, <2>1, <2>3, <2>4
  <1>9. CASE wpc = "writing" /\ <<c, m>> = hand
    <2>1. PICK j : j = Len(r) + 1
      OBVIOUS
    <2>2. /\ j \in 1 .. Len(r) + Len(h) + Len(q) /\ i < j
          /\ ~(j <= Len(r)) /\ j <= Len(r) + Len(h) /\ j - Len(r) = 1
      <3>1. Len(h) = 1
        BY <1>4, <1>9
      <3>2. Len(r) \in Nat /\ Len(q) \in Nat /\ i \in 1 .. Len(r)
        BY <1>3, <1>5
      <3> QED
        BY <2>1, <3>1, <3>2
    <2>3. j \in DOMAIN Pipeline /\ Pipeline[j] = h[1]
      BY <1>2, <2>2
    <2> QED
      BY <1>4, <1>7, <1>9, <2>2, <2>3
  <1> QED
    BY <1>8, <1>9 DEF Accounted, Logged

\* An entry of session_events vouches for every earlier query of its connection, and
\* nothing reaches the database that is neither recorded, nor on its way, nor left out
\* for a known reason: for any number of connections, any capacity of the channel and
\* every interleaving of readers, worker and Shutdown.
THEOREM Vouching == Spec => []EntriesVouch
  <1>1. Init => Accounts
    BY DEF Init, Accounts
  <1>2. Typed /\ Accounts /\ [Next]_vars => Accounts'
    <2> SUFFICES ASSUME Typed, Accounts, [Next]_vars PROVE Accounts'
      OBVIOUS
    <2>1. ASSUME NEW c \in Conns, NEW n \in 1 .. sent'[c]
          PROVE  \/ Accounted(<<c, n>>)'
                 \/ fpc'[c] \in {"logging", "sending"} /\ n = sent'[c]
      BY <2>1, ReadAccounted
    <2>2. \A q \in forwarded' : Older(q)'
      BY ForwardedOlder
    <2> QED
      BY <2>1, <2>2 DEF Accounts
  <1>3. Typed /\ InOrder /\ Accounts => EntriesVouch
    <2> SUFFICES ASSUME Typed, InOrder, Accounts PROVE EntriesVouch
      OBVIOUS
    <2>1. ASSUME NEW i \in DOMAIN recorded, NEW m \in 1 .. (recorded[i][2] - 1)
          PROVE  <<recorded[i][1], m>> \in ElementsOf(recorded) \cup missed \cup unlogged
      <3>1. PICK c \in Conns, n \in 1 .. MaxQueries : recorded[i] = <<c, n>>
        BY PipelineNow, ElementOfSeq, LenProperties DEF Queries
      <3>2. m \in Nat /\ n \in Nat /\ m < n /\ 1 <= m
        BY <2>1, <3>1, ProxyAssumption
      <3>3. i \in DOMAIN Pipeline /\ Pipeline[i] = recorded[i]
        BY PipelineNow, ThreeParts, LenProperties
      <3>4. Older(<<c, n>>)
        BY <3>1, <3>3 DEF InOrder
      <3>5. /\ sent[c] \in Nat /\ n <= sent[c]
        BY <3>4, ProxyAssumption DEF Older, Typed, TypeOK
      <3>6. m \in 1 .. sent[c] /\ m # sent[c]
        BY <3>2, <3>5
      <3>7. Accounted(<<c, m>>)
        BY <3>6 DEF Accounts
      <3>8. <<c, m>> \in ElementsOf(recorded) \cup missed \cup unlogged
        BY <3>1, <3>2, <3>7, OlderRecorded
      <3> QED
        BY <3>1, <3>8
    <2>2. ASSUME NEW q \in forwarded
          PROVE  q \in ElementsOf(Pipeline) \cup missed \cup unlogged
      <3>1. PICK c \in Conns, n \in 1 .. MaxQueries : q = <<c, n>>
        BY DEF Typed, TypeOK, Queries
      <3>2. Older(<<c, n>>)
        BY <3>1 DEF Accounts
      <3>3. /\ sent[c] \in Nat /\ n \in Nat /\ 1 <= n /\ n <= sent[c]
            /\ fpc[c] \in {"logging", "sending"} => n < sent[c]
        BY <3>2, ProxyAssumption DEF Older, Typed, TypeOK
      <3>4. n \in 1 .. sent[c] /\ (fpc[c] \in {"logging", "sending"} => n # sent[c])
        BY <3>3
      <3>5. Accounted(q)
        BY <3>1, <3>4 DEF Accounts
      <3> QED
        BY <3>5, LoggedInPipeline DEF Accounted
    <2> QED
      BY <2>1, <2>2 DEF EntriesVouch
  <1> QED
    BY <1>1, <1>2, <1>3, TypeCorrect, InOrderInvariant, PTL DEF Spec
===============================================================================
