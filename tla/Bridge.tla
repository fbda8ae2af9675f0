-------------------------------- MODULE Bridge --------------------------------
(***************************************************************************)
(* How one relayed connection starts and ends: bridgeSession and           *)
(* bridgeSFTPSession of sshproxy, and proxyBidirectional of mongoproxy.    *)
(*                                                                         *)
(* The SSH bridges run a goroutine for the client's channel requests, one  *)
(* copier for each of stdin, stdout and stderr, and the handler itself,    *)
(* which waits for the start, for the upstream session and then for the    *)
(* copiers.  The client's requests and data come through one loop of the   *)
(* SSH library: it queues requests in a channel of capacity ReqBuf and     *)
(* stops at a full one.  What is copied is the matter of SFTPRelay.        *)
(***************************************************************************)
EXTENDS Naturals, Sequences

CONSTANTS ReqBuf,       \* capacity of the channel of client requests
          MaxRequests   \* bound: requests of the client

ASSUME BridgeAssumption ==
  /\ ReqBuf \in Nat \ {0}
  /\ MaxRequests \in Nat

VARIABLES
  kind,       \* which bridge the connection runs
  main,       \* what the handler waits for
  why,        \* how the handler ended
  serving,    \* the goroutine of the channel requests is running
  startedCh,  \* shellStarted or subsystemStarted holds a value
  reqErrs,    \* reqErrs holds a value
  inbox,      \* requests queued for that goroutine
  held,       \* the request the library's loop waits to queue
  client,     \* the client's connection: "seen" once the library noticed its end
  upstream,   \* the upstream shell, subsystem or connection
  copier,     \* the copying goroutines
  requests    \* requests of the client so far

bridge == <<kind, main, why, serving, startedCh, reqErrs, inbox, held, client, upstream,
            copier, requests>>

-------------------------------------------------------------------------------
Kinds == {"shell", "sftp", "mongo"}

Streams == {"in", "out", "err"}

\* "start" asks for the shell or the sftp subsystem, "forward" is a pty-req or
\* a window-change, "refuse" any other request and "bad" one that does not parse.
Requests == {"start", "forward", "refuse", "bad"}

BridgeTypeOK ==
  /\ kind \in Kinds
  /\ main \in {"select", "waiting", "settling", "done"}
  /\ why \in {"none", "request_failed", "timeout", "wait_failed", "copy_failed", "ended"}
  /\ serving \in BOOLEAN
  /\ startedCh \in BOOLEAN
  /\ reqErrs \in BOOLEAN
  /\ inbox \in Seq(Requests) /\ Len(inbox) <= ReqBuf
  /\ held \in Requests \cup {"none"}
  /\ client \in {"open", "closed", "seen"}
  /\ upstream \in {"none", "running", "exited", "lost"}
  /\ copier \in [Streams -> {"off", "on", "done", "failed"}]
  /\ requests \in 0 .. MaxRequests

\* proxyBidirectional starts with the upstream connected and logged in, and
\* has neither requests nor a third stream.
BridgeInit ==
  /\ kind \in Kinds
  /\ main = IF kind = "mongo" THEN "settling" ELSE "select"
  /\ why = "none"
  /\ serving = (kind # "mongo")
  /\ startedCh = FALSE
  /\ reqErrs = FALSE
  /\ inbox = <<>>
  /\ held = "none"
  /\ client = "open"
  /\ upstream = IF kind = "mongo" THEN "running" ELSE "none"
  /\ copier = [s \in Streams |-> IF kind # "mongo" THEN "off" ELSE IF s = "err" THEN "done" ELSE "on"]
  /\ requests = 0

Finished(s) == copier[s] \in {"done", "failed"}

-------------------------------------------------------------------------------
(***************************************************************************)
(* The client and the library that reads its connection.                   *)
(***************************************************************************)

\* The loop queues a request, or is held up by a full channel.
SendRequest(r) ==
  /\ kind # "mongo" /\ main # "done"
  /\ client = "open" /\ held = "none"
  /\ requests < MaxRequests
  /\ requests' = requests + 1
  /\ IF Len(inbox) < ReqBuf
       THEN inbox' = Append(inbox, r) /\ UNCHANGED held
       ELSE held' = r /\ UNCHANGED inbox
  /\ UNCHANGED <<kind, main, why, serving, startedCh, reqErrs, client, upstream, copier>>

ClientCloses ==
  /\ client = "open" /\ main # "done"
  /\ client' = "closed"
  /\ UNCHANGED <<kind, main, why, serving, startedCh, reqErrs, inbox, held, upstream, copier, requests>>

\* Mutant: the timer is stopped when the session has started.
MMaxAgeReached ==
  /\ kind # "mongo" /\ main = "select" /\ client = "open"
  /\ client' = "closed"
  /\ UNCHANGED <<kind, main, why, serving, startedCh, reqErrs, inbox, held, upstream, copier, requests>>

\* The timer of handleConn closes the client's connection.
MaxAgeReached ==
  /\ kind # "mongo" /\ main # "done" /\ client = "open"
  /\ client' = "closed"
  /\ UNCHANGED <<kind, main, why, serving, startedCh, reqErrs, inbox, held, upstream, copier, requests>>

\* The loop reads on, finds the connection closed and ends the channel.
CloseSeen ==
  /\ client = "closed" /\ held = "none" /\ main # "done"
  /\ client' = "seen"
  /\ UNCHANGED <<kind, main, why, serving, startedCh, reqErrs, inbox, held, upstream, copier, requests>>

-------------------------------------------------------------------------------
(***************************************************************************)
(* The goroutine that serves the channel requests.                         *)
(***************************************************************************)

\* Which requests end the goroutine with an error.  Shell and
\* RequestSubsystem fail on a session that was started before.
Fails(r) ==
  \/ r = "bad"
  \/ r = "start" /\ upstream # "none"
  \/ r = "forward" /\ kind = "shell" /\ upstream \in {"exited", "lost"}

\* What the upstream host may refuse besides.
MayFail(r) == r = "start" \/ (r = "forward" /\ kind = "shell")

Taken ==
  /\ inbox # <<>>
  /\ inbox' = IF held = "none" THEN Tail(inbox) ELSE Append(Tail(inbox), held)
  /\ held' = "none"

HandleRequest ==
  /\ serving /\ Taken /\ main # "done"
  /\ ~ Fails(Head(inbox))
  /\ LET starts == Head(inbox) = "start" IN
       /\ upstream' = IF starts THEN "running" ELSE upstream
       /\ startedCh' = (startedCh \/ starts)
  /\ UNCHANGED <<kind, main, why, serving, reqErrs, client, copier, requests>>

RequestFails ==
  /\ serving /\ Taken /\ main # "done"
  /\ Fails(Head(inbox)) \/ MayFail(Head(inbox))
  /\ serving' = FALSE
  /\ reqErrs' = TRUE
  /\ UNCHANGED <<kind, main, why, startedCh, client, upstream, copier, requests>>

\* The library closed the channel of requests.
RequestsEnd ==
  /\ serving /\ inbox = <<>> /\ client = "seen" /\ main # "done"
  /\ serving' = FALSE
  /\ UNCHANGED <<kind, main, why, startedCh, reqErrs, inbox, held, client, upstream, copier, requests>>

-------------------------------------------------------------------------------
(***************************************************************************)
(* The handler.  When it returns, handleConn closes the upstream session   *)
(* and the client's connection.                                            *)
(***************************************************************************)
Return(reason) ==
  /\ main' = "done"
  /\ why' = reason

Started ==
  /\ main = "select" /\ startedCh
  /\ startedCh' = FALSE
  /\ main' = "waiting"
  /\ copier' = [s \in Streams |-> "on"]
  /\ UNCHANGED <<kind, why, serving, reqErrs, inbox, held, client, upstream, requests>>

StartFails ==
  /\ main = "select" /\ reqErrs
  /\ reqErrs' = FALSE
  /\ Return("request_failed")
  /\ UNCHANGED <<kind, serving, startedCh, inbox, held, client, upstream, copier, requests>>

StartTimeout ==
  /\ main = "select"
  /\ Return("timeout")
  /\ UNCHANGED <<kind, serving, startedCh, reqErrs, inbox, held, client, upstream, copier, requests>>

\* upstreamSession.Wait.
WaitReturns ==
  /\ main = "waiting" /\ upstream \in {"exited", "lost"}
  /\ main' = "settling"
  /\ UNCHANGED <<kind, why, serving, startedCh, reqErrs, inbox, held, client, upstream, copier, requests>>

\* The SSH bridges only log what a copier returns, proxyBidirectional returns it.
Settled ==
  /\ main = "settling" /\ \A s \in Streams : Finished(s)
  /\ Return(IF kind = "mongo" /\ \E s \in Streams : copier[s] = "failed" THEN "copy_failed"
            ELSE IF kind # "mongo" /\ upstream = "lost" THEN "wait_failed" ELSE "ended")
  /\ UNCHANGED <<kind, serving, startedCh, reqErrs, inbox, held, client, upstream, copier, requests>>

-------------------------------------------------------------------------------
(***************************************************************************)
(* The copiers: copyWithEvents and copyWithParser, io.Copy for MongoDB.    *)
(***************************************************************************)
Ends(s, how) ==
  /\ main # "done"
  /\ copier[s] = "on"
  /\ copier' = [copier EXCEPT ![s] = how]
  /\ UNCHANGED <<kind, main, why, serving, startedCh, reqErrs, inbox, held, client, upstream, requests>>

\* The source is at its end.
SourceEnds(s) ==
  /\ IF s = "in" THEN client = "seen" ELSE upstream \in {"exited", "lost"}
  /\ Ends(s, "done")

\* The destination does not take what was read.
WriteFails(s) ==
  /\ IF s = "in" THEN client = "open" /\ held = "none" /\ upstream \in {"exited", "lost"}
     ELSE client # "open" /\ upstream = "running"
  /\ Ends(s, "failed")

\* closeWrite finds no CloseWrite under the idle-timeout wrapper and does
\* nothing, so the other side learns of the end by its own timeout only.
IdleTimeout(s) ==
  /\ kind = "mongo"
  /\ Ends(s, "failed")

\* The upstream session ends, with a status or without; nothing obliges it to.
UpstreamEnds(how) ==
  /\ upstream = "running" /\ main # "done"
  /\ upstream' = how
  /\ UNCHANGED <<kind, main, why, serving, startedCh, reqErrs, inbox, held, client, copier, requests>>

-------------------------------------------------------------------------------
BridgeNext ==
  \/ \E r \in Requests : SendRequest(r)
  \/ ClientCloses \/ MaxAgeReached \/ CloseSeen
  \/ HandleRequest \/ RequestFails \/ RequestsEnd
  \/ Started \/ StartFails \/ StartTimeout \/ WaitReturns \/ Settled
  \/ \E s \in Streams : SourceEnds(s) \/ WriteFails(s) \/ IdleTimeout(s)
  \/ \E how \in {"exited", "lost"} : UpstreamEnds(how)

\* The handler returns, and so the session is finished, once the upstream
\* session is over, or for MongoDB once the client has gone.  The one way out is
\* a loop held up by requests that nobody serves any more: after a request
\* failed, the goroutine is gone, the stdin copier never learns of the end, and
\* neither the client's typing nor the maximum age can free the handler.
BridgeEnds ==
  ( \/ upstream \in {"exited", "lost"} /\ main # "select"
    \/ kind = "mongo" /\ client # "open" )
    ~> (main = "done" \/ (held # "none" /\ ~serving))
===============================================================================
