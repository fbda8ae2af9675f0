------------------------------- MODULE Launches -------------------------------
(***************************************************************************)
(* The launches of a running connector: the handlers of POST /launch/...,  *)
(* verifyConnectorToken, launchTracker, and the Launcher for shells,       *)
(* DBeaver, Robo 3T, redis-cli and FileZilla with what they leave on disk. *)
(*                                                                         *)
(* Requests are served concurrently, each with its own number.  What       *)
(* starting a program decides is the tracker's business only by success or *)
(* failure, so the lookup of programs is one choice.                       *)
(***************************************************************************)
EXTENDS Naturals, FiniteSets

CONSTANTS Jobs,         \* what is launched: a kind and a session
          Verifiers,    \* the configured token verifiers, of "local" and "remote"
          SiteOf,       \* the FileZilla site name of each session
          NoSession,    \* no session
          MaxLaunches,  \* bound: requests
          MaxStops      \* bound: stops of the connector

ASSUME LaunchesAssumption ==
  /\ Jobs # {}
  /\ \A j \in Jobs : j[1] \in {"shell", "dbeaver", "mongo", "redis", "sftp"}
  /\ \A j \in Jobs : j[2] # NoSession /\ j[2] \in DOMAIN SiteOf
  /\ \A i, j \in Jobs : i[1] = "dbeaver" /\ j[1] = "mongo" => i[2] # j[2]
  /\ Verifiers \subseteq {"local", "remote"}
  /\ MaxLaunches \in Nat /\ MaxStops \in Nat

VARIABLES
  os,        \* runtime.GOOS
  up,        \* the connector is running
  entries,   \* launchTracker.entries; old is past the tracker's ttl
  req,       \* the requests: their job, where they are, and what they read
  count,     \* requests so far
  tokens,    \* launch token files on disk, by request
  dirs,      \* temporary directories of DBeaver launches, by request
  timers,    \* goroutines that will remove such a directory
  sites,     \* FileZilla's site file: whose credentials a site has
  reading,   \* FileZilla has been started and has not read its site
  wrong,     \* clients that read the credentials of another session (for the properties)
  shared,    \* SFTP launches whose sites were written while another was under way (for the properties)
  opened,    \* clients opened under the entry of a job (for the properties)
  overrun,   \* an entry was dropped whose launch was still running (for the properties)
  orphans,   \* directories whose goroutine died with the connector (for the properties)
  stops      \* stops so far

launches == <<os, up, entries, req, count, tokens, dirs, timers, sites, reading, wrong, shared,
              opened, overrun, orphans, stops>>

-------------------------------------------------------------------------------
Numbers == 1 .. MaxLaunches

Sessions == {j[2] : j \in Jobs}

Names == {SiteOf[s] : s \in Sessions}

NoEntry == [state |-> "none", old |-> FALSE]

SiteFile == [Names -> Sessions \cup {NoSession}]

AnyJob == CHOOSE j \in Jobs : TRUE

Unused == [job |-> AnyJob, at |-> "none", read |-> [x \in Names |-> NoSession], direct |-> FALSE]

\* The steps of a launch after the tracker let it start.
Steps == {"begin", "terminal", "manifest", "attempt", "retry", "site", "write", "bundle", "again",
          "rewrite", "program"}

LaunchesTypeOK ==
  /\ os \in {"darwin", "linux", "windows"}
  /\ up \in BOOLEAN /\ overrun \in BOOLEAN
  /\ entries \in [Jobs -> [state : {"none", "progress", "done"}, old : BOOLEAN]]
  /\ req \in [Numbers -> [job : Jobs, at : Steps \cup {"none", "accepted", "ended"},
                          read : SiteFile, direct : BOOLEAN]]
  /\ count \in 0 .. MaxLaunches
  /\ tokens \subseteq Numbers /\ timers \subseteq Numbers /\ reading \subseteq Numbers
  /\ wrong \subseteq Numbers /\ shared \subseteq Numbers /\ orphans \subseteq Numbers
  /\ dirs \in [Numbers -> {"none", "new", "old"}]
  /\ \A n \in timers : dirs[n] # "none"
  /\ sites \in SiteFile
  /\ opened \in [Jobs -> Nat]
  /\ stops \in 0 .. MaxStops

LaunchesInit ==
  /\ os \in {"darwin", "linux", "windows"}
  /\ up = TRUE /\ overrun = FALSE
  /\ entries = [j \in Jobs |-> NoEntry]
  /\ req = [n \in Numbers |-> Unused]
  /\ count = 0 /\ stops = 0
  /\ tokens = {} /\ timers = {} /\ reading = {} /\ wrong = {} /\ shared = {} /\ orphans = {}
  /\ dirs = [n \in Numbers |-> "none"]
  /\ sites = [x \in Names |-> NoSession]
  /\ opened = [j \in Jobs |-> 0]

Kind(n) == req[n].job[1]

Goes(n, where) == req' = [req EXCEPT ![n].at = where]

disk == <<tokens, dirs, timers, sites, reading>>
history == <<wrong, shared, opened, overrun, orphans>>

-------------------------------------------------------------------------------
(***************************************************************************)
(* A request up to the tracker.                                            *)
(***************************************************************************)

\* fallbackConnectorTokenVerifier and verifyConnectorToken, for a token of
\* session tokenOf that the verifiers in taking find good: one that takes it is
\* enough, and without any verifier everything passes.
TokenAccepted(taking, tokenOf, session) ==
  Verifiers = {} \/ (taking # {} /\ tokenOf = session)

\* A request that is decoded, valid and has its token accepted.  The others
\* are answered at once and change nothing.
Accept(j, taking, tokenOf) ==
  /\ up /\ count < MaxLaunches
  /\ TokenAccepted(taking, tokenOf, j[2])
  /\ count' = count + 1
  /\ req' = [req EXCEPT ![count + 1] = [Unused EXCEPT !.job = j, !.at = "accepted"]]
  /\ UNCHANGED <<os, up, entries, disk, history, stops>>

Running(j) == \E n \in Numbers : req[n].job = j /\ req[n].at \in Steps

\* pruneLocked drops old entries whatever their launch is doing.
Dropped == {j \in Jobs : entries[j].state # "none" /\ entries[j].old}

\* Mutant: only a completed launch is taken for a duplicate.
MDuplicate(j) == entries[j].state = "done" /\ ~entries[j].old

Duplicate(j) == entries[j].state \in {"progress", "done"} /\ ~entries[j].old

\* TryStart, and the answer to a duplicate.
TryStart(n) ==
  /\ up /\ req[n].at = "accepted"
  /\ LET j == req[n].job
         pruned == [i \in Jobs |-> IF i \in Dropped THEN NoEntry ELSE entries[i]]
     IN  /\ entries' = IF Duplicate(j) THEN pruned
                       ELSE [pruned EXCEPT ![j] = [state |-> "progress", old |-> FALSE]]
         /\ Goes(n, IF Duplicate(j) THEN "ended" ELSE "begin")
  /\ opened' = [i \in Jobs |-> IF i \in Dropped THEN 0 ELSE opened[i]]
  /\ overrun' = (overrun \/ \E i \in Dropped : Running(i))
  /\ UNCHANGED <<os, up, count, disk, wrong, shared, orphans, stops>>

EntryAges(j) ==
  /\ up /\ entries[j].state # "none" /\ ~entries[j].old
  /\ entries' = [entries EXCEPT ![j].old = TRUE]
  /\ UNCHANGED <<os, up, req, count, disk, history, stops>>

-------------------------------------------------------------------------------
(***************************************************************************)
(* The end of a launch.                                                    *)
(***************************************************************************)

\* FinishSuccess, on whatever entry the job has by now.
FinishSuccess(n) ==
  LET j == req[n].job IN
  /\ entries' = IF entries[j].state = "none" THEN entries
                ELSE [entries EXCEPT ![j] = [state |-> "done", old |-> FALSE]]
  /\ opened' = [opened EXCEPT ![j] = @ + 1]
  /\ Goes(n, "ended")

\* FinishFailure, likewise.
FinishFailure(n) ==
  /\ entries' = [entries EXCEPT ![req[n].job] = NoEntry]
  /\ UNCHANGED opened
  /\ Goes(n, "ended")

\* A panic is recovered around the handler: the entry stays in progress.
Panics(n, started) ==
  /\ opened' = [opened EXCEPT ![req[n].job] = IF started THEN @ + 1 ELSE @]
  /\ Goes(n, "ended")
  /\ UNCHANGED entries

otherHistory == <<wrong, shared, overrun, orphans>>

-------------------------------------------------------------------------------
(***************************************************************************)
(* Terminals: LaunchShell and LaunchRedisCLI.                              *)
(***************************************************************************)

\* prepareLaunchTokenFile.
WithToken(n) == tokens \cup {n}

\* ssh is there, and the token is in its file, or the launch ends.
PrepareShell(n, ok) ==
  /\ up /\ req[n].at = "begin" /\ Kind(n) = "shell" /\ os # "windows"
  /\ IF ok THEN Goes(n, "terminal") /\ tokens' = WithToken(n) /\ UNCHANGED <<entries, opened>>
     ELSE FinishFailure(n) /\ UNCHANGED tokens
  /\ UNCHANGED <<os, up, count, dirs, timers, sites, reading, otherHistory, stops>>

\* redis-cli is there, or the launch ends.
PrepareRedis(n, found) ==
  /\ up /\ req[n].at = "begin" /\ Kind(n) = "redis"
  /\ IF found THEN Goes(n, "terminal") /\ UNCHANGED <<entries, opened>> ELSE FinishFailure(n)
  /\ UNCHANGED <<os, up, count, disk, otherHistory, stops>>

\* The terminal opens or does not.  main.go makes a Launcher without a logger,
\* and the terminals log to it unchecked: a panic once one has opened, and on
\* all systems but Linux when it has not.
OpenTerminal(n, opens) ==
  /\ up /\ req[n].at = "terminal"
  /\ IF opens \/ os # "linux" THEN Panics(n, opens) ELSE FinishFailure(n)
  /\ UNCHANGED <<os, up, count, disk, otherHistory, stops>>

\* The bridge in the terminal reads the token and removes the file.
ReadToken(n) ==
  /\ n \in tokens /\ req[n].at # "terminal"
  /\ tokens' = tokens \ {n}
  /\ UNCHANGED <<os, up, entries, req, count, dirs, timers, sites, reading, history, stops>>

-------------------------------------------------------------------------------
(***************************************************************************)
(* Programs with a window: PuTTY, Robo 3T and DBeaver.                     *)
(***************************************************************************)

\* Found and started, or not: PuTTY on Windows ...
OpenPuTTY(n, starts) ==
  /\ up /\ req[n].at = "begin" /\ Kind(n) = "shell" /\ os = "windows"
  /\ IF starts THEN FinishSuccess(n) ELSE FinishFailure(n)
  /\ UNCHANGED <<os, up, count, disk, otherHistory, stops>>

\* ... and Robo 3T, for the sessions of MongoDB that POST /launch/dbeaver gets.
OpenRoboMongo(n, starts) ==
  /\ up /\ req[n].at = "begin" /\ Kind(n) = "mongo"
  /\ IF starts THEN FinishSuccess(n) ELSE FinishFailure(n)
  /\ UNCHANGED <<os, up, count, disk, otherHistory, stops>>

\* LaunchDBeaver makes its directory first.
MakeTempDir(n, ok) ==
  /\ up /\ req[n].at = "begin" /\ Kind(n) = "dbeaver"
  /\ IF ok THEN Goes(n, "manifest") /\ dirs' = [dirs EXCEPT ![n] = "new"] /\ UNCHANGED <<entries, opened>>
     ELSE FinishFailure(n) /\ UNCHANGED dirs
  /\ UNCHANGED <<os, up, count, tokens, timers, sites, reading, otherHistory, stops>>

\* Mutant: the directory of a launch that fails early is left.
MRemoveOnFailure(n) == [dirs EXCEPT ![n] = IF req[n].at = "manifest" THEN @ ELSE "none"]

RemoveOnFailure(n) == [dirs EXCEPT ![n] = "none"]

\* The manifest is written and DBeaver found, or the launch ends.
FindDBeaver(n, ok) ==
  /\ up /\ req[n].at = "manifest"
  /\ IF ok THEN Goes(n, "attempt") /\ UNCHANGED <<entries, opened, dirs>>
     ELSE FinishFailure(n) /\ dirs' = RemoveOnFailure(n)
  /\ UNCHANGED <<os, up, count, tokens, timers, sites, reading, otherHistory, stops>>

\* DBeaver is started; after a failed attempt once more, with another name for
\* the connection.
StartDBeaver(n, ok) ==
  /\ up /\ req[n].at \in {"attempt", "retry"}
  /\ IF ok THEN FinishSuccess(n) /\ timers' = timers \cup {n} /\ UNCHANGED dirs
     ELSE IF req[n].at = "attempt" THEN Goes(n, "retry") /\ UNCHANGED <<entries, opened, dirs, timers>>
     ELSE FinishFailure(n) /\ dirs' = RemoveOnFailure(n) /\ UNCHANGED timers
  /\ UNCHANGED <<os, up, count, tokens, sites, reading, otherHistory, stops>>

\* Mutant: the goroutine goes round again instead of ending.
MRemoveTempDir(n) ==
  /\ up /\ n \in timers
  /\ dirs' = [dirs EXCEPT ![n] = "none"]
  /\ UNCHANGED <<os, up, entries, req, count, tokens, timers, sites, reading, history, stops>>

\* The goroutine has slept for the ttl.
RemoveTempDir(n) ==
  /\ up /\ n \in timers
  /\ timers' = timers \ {n}
  /\ dirs' = [dirs EXCEPT ![n] = "none"]
  /\ UNCHANGED <<os, up, entries, req, count, tokens, sites, reading, history, stops>>

DirAges(n) ==
  /\ dirs[n] = "new"
  /\ dirs' = [dirs EXCEPT ![n] = "old"]
  /\ UNCHANGED <<os, up, entries, req, count, tokens, timers, sites, reading, history, stops>>

-------------------------------------------------------------------------------
(***************************************************************************)
(* FileZilla: LaunchSFTPClient.  The site file is read, changed and        *)
(* written without a lock, and FileZilla reads it when it has started.  On *)
(* macOS this is done twice, for the second time when the bundle's         *)
(* executables are known.                                                  *)
(***************************************************************************)
Site(n) == SiteOf[req[n].job[2]]

\* SFTP launches between their first look at the site file and FileZilla's.
SiteUsers == {n \in Numbers : req[n].at \in {"write", "bundle", "again", "rewrite", "program"}} \cup reading

\* FileZilla is found, the proxy's host key fetched and put into known_hosts.
PrepareFileZilla(n, ok) ==
  /\ up /\ req[n].at = "begin" /\ Kind(n) = "sftp"
  /\ IF ok THEN Goes(n, "site") /\ UNCHANGED <<entries, opened>> ELSE FinishFailure(n)
  /\ UNCHANGED <<os, up, count, disk, otherHistory, stops>>

AfterSite(n) == IF os = "darwin" /\ req[n].at \in {"site", "write"} THEN "bundle" ELSE "program"

\* filezillaArgs: with a site file that cannot be used FileZilla gets the
\* address instead of a site.
ReadSites(n, usable) ==
  /\ up /\ req[n].at \in {"site", "again"}
  /\ req' = [req EXCEPT ![n].at = IF ~usable THEN AfterSite(n)
                                  ELSE IF @ = "site" THEN "write" ELSE "rewrite",
                        ![n].direct = ~usable, ![n].read = IF usable THEN sites ELSE @]
  /\ shared' = IF SiteUsers \ {n} = {} THEN shared ELSE shared \cup SiteUsers \cup {n}
  /\ UNCHANGED <<os, up, entries, count, disk, wrong, opened, overrun, orphans, stops>>

\* Mutant: an entry of this name that is there is kept.
MWithSite(n, file) == IF file[Site(n)] = NoSession THEN [file EXCEPT ![Site(n)] = req[n].job[2]] ELSE file

\* upsertFileZillaSite on the file as it was read.
WithSite(n, file) == [file EXCEPT ![Site(n)] = req[n].job[2]]

WriteSites(n, ok) ==
  /\ up /\ req[n].at \in {"write", "rewrite"}
  /\ sites' = IF ok THEN WithSite(n, req[n].read) ELSE sites
  /\ req' = [req EXCEPT ![n].at = AfterSite(n), ![n].direct = ~ok, ![n].read = Unused.read]
  /\ UNCHANGED <<os, up, entries, count, tokens, dirs, timers, reading, history, stops>>

\* macOSBundleExecutables.
FindBundle(n, ok) ==
  /\ up /\ req[n].at = "bundle"
  /\ IF ok THEN Goes(n, "again") /\ UNCHANGED <<entries, opened>> ELSE FinishFailure(n)
  /\ UNCHANGED <<os, up, count, disk, otherHistory, stops>>

OpenFileZilla(n, starts) ==
  /\ up /\ req[n].at = "program"
  /\ IF starts THEN FinishSuccess(n) ELSE FinishFailure(n)
  /\ reading' = IF starts /\ ~req[n].direct THEN reading \cup {n} ELSE reading
  /\ UNCHANGED <<os, up, count, tokens, dirs, timers, sites, otherHistory, stops>>

FileZillaReads(n) ==
  /\ n \in reading
  /\ reading' = reading \ {n}
  /\ wrong' = IF sites[Site(n)] = req[n].job[2] THEN wrong ELSE wrong \cup {n}
  /\ UNCHANGED <<os, up, entries, req, count, tokens, dirs, timers, sites, shared, opened, overrun, orphans, stops>>

-------------------------------------------------------------------------------
(***************************************************************************)
(* The process.  What it started goes on without it.                       *)
(***************************************************************************)
StopConnector ==
  /\ up /\ stops < MaxStops
  /\ up' = FALSE
  /\ stops' = stops + 1
  /\ req' = [n \in Numbers |-> IF req[n].at = "none" THEN Unused ELSE [req[n] EXCEPT !.at = "ended"]]
  /\ entries' = [j \in Jobs |-> NoEntry]
  /\ opened' = [j \in Jobs |-> 0]
  /\ timers' = {}
  /\ orphans' = {n \in Numbers : dirs[n] # "none"}
  /\ UNCHANGED <<os, count, tokens, dirs, sites, reading, wrong, shared, overrun>>

\* CleanupStaleDBeaverTemp removes the directories that are old enough.
StartConnector ==
  /\ ~up
  /\ up' = TRUE
  /\ dirs' = [n \in Numbers |-> IF dirs[n] = "old" THEN "none" ELSE dirs[n]]
  /\ UNCHANGED <<os, entries, req, count, tokens, timers, sites, reading, history, stops>>

LaunchStep(n) ==
  \/ TryStart(n) \/ RemoveTempDir(n)
  \/ \E ok \in BOOLEAN :
       \/ PrepareShell(n, ok) \/ PrepareRedis(n, ok) \/ OpenTerminal(n, ok)
       \/ OpenPuTTY(n, ok) \/ OpenRoboMongo(n, ok)
       \/ MakeTempDir(n, ok) \/ FindDBeaver(n, ok) \/ StartDBeaver(n, ok)
       \/ PrepareFileZilla(n, ok) \/ ReadSites(n, ok) \/ WriteSites(n, ok)
       \/ FindBundle(n, ok) \/ OpenFileZilla(n, ok)

LaunchesNext ==
  \/ \E j \in Jobs : \E taking \in SUBSET Verifiers, tokenOf \in Sessions : Accept(j, taking, tokenOf)
  \/ \E j \in Jobs : EntryAges(j)
  \/ \E n \in Numbers : LaunchStep(n) \/ ReadToken(n) \/ DirAges(n) \/ FileZillaReads(n)
  \/ StopConnector \/ StartConnector

-------------------------------------------------------------------------------
\* A session's client is opened once while the tracker has an entry for it,
\* however often the request is sent and however the requests interleave.  The
\* exception is a launch that takes longer than the tracker's ttl: its entry is
\* dropped while it runs, and when it fails it deletes the entry of its successor.
OneClient == overrun \/ \A j \in Jobs : opened[j] <= 1

\* FileZilla connects with the credentials of the session it was opened for,
\* unless another SFTP launch was between reading the site file and FileZilla's
\* own look at it.
SiteIsOwn == wrong \subseteq shared

\* The directory of a DBeaver launch goes away, whether the launch succeeds or
\* fails at any step; a stop of the connector leaves it to a later start.
DirsRemoved == \A n \in Numbers : dirs[n] # "none" ~> (dirs[n] = "none" \/ n \in orphans)
===============================================================================
