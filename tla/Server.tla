-------------------------------- MODULE Server --------------------------------
(***************************************************************************)
(* The accessd process: its commands, the migrations runner, Bootstrap     *)
(* with the development seed, serving and the stop sequence, for several   *)
(* processes on one database, together with the requests of Inventory that *)
(* a serving process handles.                                              *)
(*                                                                         *)
(* Every process has one request slot, so Requests of Inventory is the set *)
(* of processes.                                                           *)
(***************************************************************************)
EXTENDS Inventory, Sequences

CONSTANTS Migrations,  \* number of migration files
          Services,    \* the services that runServer stops, in their order
          Seed,        \* what bootstrapDevAccess seeds: a name, a type, a credential, an action
          Development  \* whether the environment is "development"

ASSUME ServerAssumption ==
  /\ Migrations \in Nat
  /\ Services \in Seq({"http", "ssh", "proxy"}) /\ Services # <<>>
  /\ Seed \in [name : Names \ Marked, type : Types, cred : CredTypes, action : Actions]
  /\ Development \in BOOLEAN

VARIABLES
  log,    \* versions whose transaction has committed, in that order
  proc,   \* the processes
  cut     \* connections that a process left open when it ended

server == <<log, proc, cut>>
vars == <<inventory, server>>

-------------------------------------------------------------------------------
Stages == 1 .. Len(Services)

Commands == {"server", "bootstrap", "migrate"}

\* pc: where runServer, runBootstrap or runMigrate is.  seen: the versions
\* appliedVersions found, and the ones committed since.  row, found: the asset
\* that the seed upserted, and whether it was a live one.  ssh: whether the SSH
\* proxy listens yet, on a listener that its Shutdown closes or a stray one.
\* stage: the service being stopped.  forced: it has closed its connections.
\* open: services with a connection in their WaitGroup; late: those with one
\* that is accepted but not there yet; hung: those whose handler waits for
\* something else than its client.  missed and straggling are history: services
\* that did not wait for a connection, or that took one after they had closed
\* the others.
ProcRow == [cmd : Commands,
            pc : {"off", "up", "auth", "asset", "credential", "grant", "serving", "stopping"},
            seen : 0 .. Migrations, row : Ids, found : BOOLEAN,
            ssh : {"none", "open", "stray"}, stage : Stages, expired : BOOLEAN, forced : BOOLEAN,
            open : SUBSET Stages, late : SUBSET Stages, hung : SUBSET Stages,
            missed : SUBSET Stages, straggling : SUBSET Stages,
            exit : {"none", "clean", "error", "killed"}]

Off(how) == [cmd |-> "server", pc |-> "off", seen |-> 0, row |-> 1, found |-> FALSE,
             ssh |-> "none", stage |-> 1, expired |-> FALSE, forced |-> FALSE,
             open |-> {}, late |-> {}, hung |-> {}, missed |-> {}, straggling |-> {},
             exit |-> how]

TypeOK ==
  /\ InventoryTypeOK
  /\ log \in Seq(1 .. Migrations)
  /\ proc \in [Requests -> ProcRow]
  /\ cut \in [Requests -> SUBSET Stages]

Init ==
  /\ InventoryInit
  /\ log = <<>>
  /\ proc = [p \in Requests |-> Off("none")]
  /\ cut = [p \in Requests |-> {}]

At(p, pc) == proc[p].pc = pc

Goto(p, step) == proc' = [proc EXCEPT ![p].pc = step]

\* The process ends: its requests are gone, what is still open is cut off.
Exit(p, how) ==
  /\ proc' = [proc EXCEPT ![p] = Off(how)]
  /\ cut' = [cut EXCEPT ![p] = proc[p].open \cup proc[p].late]
  /\ req' = [req EXCEPT ![p] = Idle]

-------------------------------------------------------------------------------
(* Start.                                                                  *)

\* The process is started and reads the versions that are applied.
Start(p) ==
  /\ At(p, "off") /\ Edit
  /\ \E c \in Commands :
       proc' = [proc EXCEPT ![p] = [Off("none") EXCEPT !.cmd = c, !.pc = "up", !.seen = Len(log)]]
  /\ cut' = [cut EXCEPT ![p] = {}]
  /\ UNCHANGED <<log, tables, req>>

\* Mutant: a version that is already recorded is no error.
MRecordable(v) == TRUE

\* The version is the primary key of the migrations table.
Recordable(v) == \A i \in DOMAIN log : log[i] # v

\* Mutant: the error of a migration is only logged.
MFailUp(p) ==
  /\ At(p, "up")
  /\ Goto(p, "auth")
  /\ UNCHANGED <<log, cut, req>>

\* Up fails, and the command with it: on a version that another process has
\* recorded, or for any other reason.
FailUp(p) ==
  /\ At(p, "up")
  /\ Exit(p, "error")
  /\ UNCHANGED log

\* Mutant: one version too many.
MApplyMigration(p) ==
  LET v == proc[p].seen + 1 IN
  /\ At(p, "up") /\ v <= Migrations + 1
  /\ Recordable(v)
  /\ log' = Append(log, v)
  /\ proc' = [proc EXCEPT ![p].seen = v]
  /\ UNCHANGED <<cut, req>>

\* Up: the transaction of the next version that was not seen.
ApplyMigration(p) ==
  LET v == proc[p].seen + 1 IN
  /\ At(p, "up") /\ v <= Migrations
  /\ Recordable(v)
  /\ log' = Append(log, v)
  /\ proc' = [proc EXCEPT ![p].seen = v]
  /\ UNCHANGED <<cut, req>>

\* Nothing is left to apply: runMigrate ends here, the others bootstrap.
Migrated(p) ==
  /\ At(p, "up") /\ proc[p].seen = Migrations
  /\ IF proc[p].cmd = "migrate" THEN Exit(p, "clean") ELSE Goto(p, "auth") /\ UNCHANGED <<cut, req>>
  /\ UNCHANGED log

\* RunMigrations changes nothing else.
Up(p) == (ApplyMigration(p) \/ Migrated(p) \/ FailUp(p)) /\ UNCHANGED <<tables, edits>>

\* Bootstrap is over: runBootstrap ends, the server listens.
Bootstrapped(p) ==
  IF proc[p].cmd = "bootstrap" THEN Exit(p, "clean") ELSE Goto(p, "serving") /\ UNCHANGED <<cut, req>>

\* Bootstrap: the accounts (see Accounts), then the seed.
Bootstrap(p) ==
  /\ At(p, "auth")
  /\ \/ IF Development THEN Goto(p, "asset") /\ UNCHANGED <<cut, req>> ELSE Bootstrapped(p)
     \/ Exit(p, "error")
  /\ UNCHANGED <<log, tables, edits>>

\* assets.Upsert: the row that holds the name keeps its status.
UpsertAsset(p) ==
  /\ At(p, "asset")
  /\ \E a \in Ids :
       /\ IF Holder(Seed.name) = {} THEN FreeRow(a) ELSE a \in Holder(Seed.name)
       /\ assets' = [assets EXCEPT ![a] = IF Holder(Seed.name) = {}
                                          THEN NewAsset(Seed.name, Seed.type)
                                          ELSE [@ EXCEPT !.type = Seed.type]]
       /\ proc' = [proc EXCEPT ![p].pc = "credential", ![p].row = a,
                               ![p].found = assets'[a].state = "active"]
  /\ UNCHANGED <<log, cut, creds, grants, launches, req, edits>>

\* credentials.Upsert.
UpsertCredential(p) ==
  /\ At(p, "credential")
  /\ creds' = creds \cup {<<proc[p].row, Seed.cred>>}
  /\ Goto(p, "grant")
  /\ UNCHANGED <<log, cut, assets, grants, launches, req, edits>>

\* GrantUserAction: what was revoked is granted again.
GrantUserAction(p) ==
  /\ At(p, "grant")
  /\ grants' = grants \cup {<<proc[p].row, Seed.action>>}
  /\ Bootstrapped(p)
  /\ UNCHANGED <<log, assets, creds, launches, edits>>

\* bootstrapDevAccess, in its order; the pc of the process says which is due.
BootstrapDevAccess(p) == UpsertAsset(p) \/ UpsertCredential(p) \/ GrantUserAction(p)

-------------------------------------------------------------------------------
(* Serving and stopping.                                                   *)

Request(p) == At(p, "serving") /\ Handle(p) /\ UNCHANGED server

Running(p) == proc[p].pc \in {"serving", "stopping"}

\* The goroutine of the SSH proxy opens its listener some time after the start.
\* A Shutdown that came first found none to close.
Listen(p) ==
  /\ Running(p) /\ proc[p].ssh = "none"
  /\ proc' = [proc EXCEPT
                ![p].ssh = IF /\ At(p, "stopping")
                              /\ \E i \in 1 .. proc[p].stage : Services[i] = "ssh"
                           THEN "stray" ELSE "open"]
  /\ UNCHANGED <<log, cut, inventory>>

\* The listeners of a service are open until its Shutdown closes them.
Listening(p, i) ==
  \/ Services[i] = "ssh" /\ proc[p].ssh = "stray"
  \/ /\ Services[i] = "ssh" => proc[p].ssh = "open"
     /\ At(p, "serving") \/ (At(p, "stopping") /\ i > proc[p].stage)

\* A client of the HTTP server connects.
Connect(p, i) ==
  /\ Services[i] = "http" /\ i \notin proc[p].open
  /\ Listening(p, i) /\ Edit
  /\ proc' = [proc EXCEPT ![p].open = @ \cup {i}]
  /\ UNCHANGED <<log, cut, tables, req>>

\* The accept loop of a proxy takes a connection.
Accept(p, i) ==
  /\ Services[i] # "http" /\ i \notin proc[p].late
  /\ Running(p) /\ Listening(p, i) /\ Edit
  /\ proc' = [proc EXCEPT ![p].late = @ \cup {i},
                          ![p].missed = IF proc[p].ssh = "stray" THEN @ \cup {i} ELSE @]
  /\ UNCHANGED <<log, cut, tables, req>>

\* trackConn and wg.Add.
TrackConn(p, i) ==
  /\ Running(p) /\ i \in proc[p].late
  /\ proc' = [proc EXCEPT ![p].late = @ \ {i}, ![p].open = @ \cup {i},
                          ![p].straggling = IF proc[p].forced /\ i = proc[p].stage
                                            THEN @ \cup {i} ELSE @]
  /\ UNCHANGED <<log, cut, inventory>>

\* A client of a service goes.
Disconnect(p, i) ==
  /\ Running(p) /\ i \in proc[p].open
  /\ proc' = [proc EXCEPT ![p].open = @ \ {i}, ![p].hung = @ \ {i}, ![p].straggling = @ \ {i}]
  /\ UNCHANGED <<log, cut, inventory>>

\* A handler of a proxy waits without a deadline for its target: for the end of
\* the upstream shell, or for the answer of a database that is silent.  Closing
\* its client's connection does not wake it.
Hang(p, i) ==
  /\ Running(p)
  /\ Services[i] # "http" /\ i \in proc[p].open \ proc[p].hung
  /\ proc' = [proc EXCEPT ![p].hung = @ \cup {i}]
  /\ UNCHANGED <<log, cut, inventory>>

\* SIGTERM.  The HTTP server stops taking requests at once.
Signal(p) ==
  /\ At(p, "serving")
  /\ proc' = [proc EXCEPT ![p].pc = "stopping"]
  /\ UNCHANGED <<log, cut, inventory>>

\* The request that was being handled goes on while the HTTP server waits.
FinishRequest(p) ==
  /\ At(p, "stopping") /\ proc[p].stage = 1 /\ req[p].pc # "idle"
  /\ Handle(p)
  /\ UNCHANGED server

\* ShutdownTimeout, one for all services.
Expire(p) ==
  /\ At(p, "stopping") /\ ~proc[p].expired
  /\ proc' = [proc EXCEPT ![p].expired = TRUE]
  /\ UNCHANGED <<log, cut, inventory>>

\* A service has no connection, and the HTTP server no request.  The accept
\* loops of the database proxies are in the WaitGroup, that of the SSH proxy is
\* not: a connection it is about to add is not waited for.
Drained(p, i) ==
  /\ i \notin proc[p].open
  /\ Services[i] = "http" => req[p].pc = "idle"
  /\ Services[i] = "proxy" => i \notin proc[p].late

\* Shutdown has returned nil and the next service follows.
NextStage(p, i) ==
  /\ proc' = [proc EXCEPT ![p].stage = i + 1, ![p].missed = @ \cup (proc[p].late \cap {i})]
  /\ UNCHANGED <<cut, req>>

\* Mutant: the proxy does not wait for its connections.
MStopService(p) ==
  LET i == proc[p].stage IN
  /\ At(p, "stopping")
  /\ IF i = Len(Services) THEN proc[p].ssh = "open" /\ Exit(p, "clean") ELSE NextStage(p, i)
  /\ UNCHANGED <<log, tables, edits>>

\* Shutdown returns nil; after the last one the goroutines of the two listeners
\* report that they have ended, which a stray listener never does.
StopService(p) ==
  LET i == proc[p].stage IN
  /\ At(p, "stopping") /\ ~proc[p].forced /\ Drained(p, i)
  /\ IF i = Len(Services) THEN proc[p].ssh = "open" /\ Exit(p, "clean") ELSE NextStage(p, i)
  /\ UNCHANGED <<log, tables, edits>>

\* Mutant: the wait goes on with the connections as they are.
MCloseActiveConns(p) ==
  /\ At(p, "stopping") /\ proc[p].expired /\ ~proc[p].forced
  /\ Services[proc[p].stage] # "http"
  /\ proc' = [proc EXCEPT ![p].forced = TRUE]
  /\ UNCHANGED <<log, cut, inventory>>

\* The context is over: a proxy closes the connections it knows, whose handlers
\* end unless they hang, and waits again.
CloseActiveConns(p) ==
  LET i == proc[p].stage IN
  /\ At(p, "stopping") /\ proc[p].expired /\ ~proc[p].forced
  /\ Services[i] # "http"
  /\ proc' = [proc EXCEPT ![p].forced = TRUE, ![p].open = @ \ ({i} \ proc[p].hung)]
  /\ UNCHANGED <<log, cut, inventory>>

\* The context is over and Shutdown returns its error, a proxy's once its second
\* wait has ended; runServer returns, and the services after it are not stopped.
FailStop(p) ==
  LET i == proc[p].stage IN
  /\ At(p, "stopping") /\ proc[p].expired
  /\ Services[i] # "http" => proc[p].forced /\ Drained(p, i)
  /\ Exit(p, "error")
  /\ UNCHANGED <<log, tables, edits>>

\* The process is killed, or a statement of the seed or a listener fails and
\* the command returns at once.
Crash(p) ==
  /\ ~At(p, "off") /\ Edit
  /\ \E how \in {"killed", "error"} : Exit(p, how)
  /\ UNCHANGED <<log, tables>>

Stop(p) == StopService(p) \/ CloseActiveConns(p) \/ FailStop(p)

\* What clients and targets do.
Client(p, i) == Connect(p, i) \/ Accept(p, i) \/ Disconnect(p, i) \/ Hang(p, i)

Next ==
  \E p \in Requests :
    \/ Start(p) \/ Up(p) \/ Bootstrap(p)
    \/ BootstrapDevAccess(p)
    \/ Request(p) \/ Signal(p) \/ FinishRequest(p) \/ Expire(p) \/ Stop(p) \/ Crash(p)
    \/ Listen(p) \/ \E i \in Stages : Client(p, i) \/ TrackConn(p, i)

\* The timer fires, a goroutine that can go on does, and a Shutdown whose wait is
\* over returns.  Clients and targets need not do anything.
Fairness ==
  \A p \in Requests : /\ WF_vars(Expire(p)) /\ WF_vars(Listen(p)) /\ WF_vars(Stop(p))
                       /\ \A i \in Stages : WF_vars(TrackConn(p, i))

Spec == Init /\ [][Next]_vars /\ Fairness

-------------------------------------------------------------------------------
(* Properties.                                                             *)

\* Processes that start at once run the migrations at once, without a lock.
\* Every version is applied once all the same, and after the ones before it:
\* the loser of the race for a version fails on its key and stops.
MigrationsInOrder == \A i \in DOMAIN log : log[i] = i

\* A process that serves, or that has begun to write, works on a database on
\* which every migration it knows has been applied.
ServingMigrated ==
  \A p \in Requests : proc[p].pc \notin {"off", "up"} => Len(log) = Migrations

\* A grant, a credential or a launch appears on an asset, in this step.
GainsOn(a) == \E x \in (creds' \ creds) \cup (grants' \ grants) \cup (launches' \ launches) : x[1] = a

\* An asset that is deleted in this step has no grant and no credential left.
Bared(a) ==
  Live(a) /\ assets'[a].state = "deleted" => \A x \in grants' \cup creds' : x[1] # a

\* The request, or the seed, that takes this step has found the asset alive
\* and was not done with it.
WriterFound(a) ==
  \E p \in Requests :
    \/ req[p].pc # "idle" /\ req[p].found /\ req[p].asset = a /\ req'[p] # req[p]
    \/ /\ proc[p].pc \in {"credential", "grant"} /\ proc'[p] # proc[p]
       /\ proc[p].found /\ proc[p].row = a

\* What this step may do to a deleted asset, or in deleting it.
StaysBare(a) ==
  /\ Bared(a)
  /\ assets[a].state = "deleted" /\ GainsOn(a) => WriterFound(a)

\* Deleting an asset takes its grants and credentials with it.  What appears on
\* it later is written by a request, or a seed, that found the asset before it
\* was deleted and writes now, once per step: nothing that begins afterwards
\* comes upon it.  That a later seed takes a new row rests on the archived row
\* giving up its name.
DeletedStaysBare == [][\A a \in Ids : StaysBare(a)]_vars

\* Services with a connection that their own Shutdown did not, or would not,
\* wait for.
Unawaited(p) == proc[p].missed \cup {i \in proc[p].late : Services[i] = "ssh"}

\* The process ends while it is stopping: cleanly, for its own error, or from
\* outside (which counts as an edit).
EndsInOrder(p) ==
  proc[p].pc = "stopping" /\ proc'[p].pc = "off" =>
    /\ proc'[p].exit = "clean" => cut'[p] \subseteq Unawaited(p)
    /\ proc'[p].exit = "error" /\ edits' = edits =>
         \A i \in cut'[p] : i > proc[p].stage \/ Services[i] = "http" \/ i \in Unawaited(p)

\* A server that reports a clean stop has cut off nobody but clients that the
\* SSH proxy had accepted and not yet added to its WaitGroup when it looked;
\* one that ran out of time has cut off, besides, only clients of the HTTP
\* server and of services it had not come to, never those of a proxy whose turn
\* was over or had come.
StopInOrder == [][\A p \in Requests : EndsInOrder(p)]_vars

\* A signal ends the process however long its clients stay: the connections
\* that are known when the time is up are closed.  Three things keep it alive:
\* a handler that hangs on its target, a connection that is added after the
\* others were closed, and a signal that came before the SSH proxy listened.
StopEnds ==
  \A p \in Requests :
    proc[p].pc = "stopping" ~>
      \/ proc[p].pc = "off" \/ proc[p].ssh = "stray"
      \/ proc[p].forced /\ proc[p].stage \in proc[p].hung \cup proc[p].straggling

===============================================================================
