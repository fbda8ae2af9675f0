----------------------------- MODULE StatementLog -----------------------------
(***************************************************************************)
(* What the database and Redis proxies record of the statements they pass  *)
(* on, and how the MySQL and Redis proxies keep requests and answers in    *)
(* step: forwardClientMessages of pgproxy and mssqlproxy, forwardCommands  *)
(* and the response relay of mysqlproxy, the command loop of redisproxy.   *)
(*                                                                         *)
(* A statement that is executed by name, number or handle is recorded with *)
(* the text the proxy remembers, which is compared here with the text the  *)
(* server runs.  From the channel on, entries are the matter of            *)
(* DatabaseProxy.  Messages the relays pass on without a look are left out.*)
(***************************************************************************)
EXTENDS Naturals, Sequences

CONSTANTS Texts,        \* statement texts
          Blank,        \* the text of white space only
          Nothing,      \* no text
          Probes,       \* texts that classifyMySQLStartupProbe knows
          CacheProbes,  \* texts that mention query_cache_size
          Runs,         \* the ASCII runs of a text that look like SQL, as texts
          Length,       \* the length of a text
          ProbeLimit,   \* startupProbeLimit
          MaxMessages   \* bound: messages of the client

ASSUME StatementAssumption ==
  /\ Blank \notin Texts /\ Nothing \notin Texts /\ Blank # Nothing
  /\ Probes \subseteq Texts /\ CacheProbes \subseteq Texts
  /\ ProbeLimit \in Nat /\ MaxMessages \in Nat

ASSUME ScanAssumption == Runs \in [Texts -> SUBSET Texts] /\ Length \in [Texts -> Nat]

VARIABLES
  proto,     \* the protocol of the connection
  cache,     \* preparedStmtCache
  template,  \* connectionPreparedState of SQL Server
  stmts,     \* the prepared statements of the server
  portals,   \* the portals of PostgreSQL
  stale,     \* names under which cache and server are known to differ (for the properties)
  owner,     \* the handle whose text the template is, 0 for none (for the properties)
  preparing, \* the statement whose COM_STMT_PREPARE is being answered
  startup,   \* startupPhase
  probes,    \* startupProbeCount
  authed,    \* clientAuthenticated of Redis
  phase,     \* where the relay of an answer is, and packets to count off
  answer,    \* packets of the server not yet relayed
  odd,       \* the client asked for what the relays do not follow (for the properties)
  last,      \* the last message: the text run, the text recorded, and whether they must agree
  messages   \* messages of the client so far

statement == <<proto, cache, template, stmts, portals, stale, owner, preparing, startup,
               probes, authed, phase, answer, odd, last, messages>>

-------------------------------------------------------------------------------
\* 0 is the unnamed statement or portal of PostgreSQL; MySQL and SQL Server
\* number theirs from 1.
Refs == 0 .. 2

Text == Texts \cup {Blank, Nothing}

NoPortal == [of |-> 0, text |-> Nothing, fresh |-> FALSE]

Idle == [at |-> "idle", n |-> 0]

At(where, n) == [at |-> where, n |-> n]

Phases == [at : {"idle", "first", "defs", "rows", "infile", "afterinfile", "prepare", "exact",
                "fields", "reply"}, n : Nat]

Packets == {"ok", "okmore", "err", "infile", "cols", "stats", "switch", "def", "eof", "eofmore",
            "row", "prepared", "reply"}

StatementTypeOK ==
  /\ proto \in {"postgres", "mysql", "mssql", "redis"}
  /\ cache \in [Refs -> Text] /\ stmts \in [Refs -> Text]
  /\ template \in Text
  /\ portals \in [Refs -> [of : Refs, text : Text, fresh : BOOLEAN]]
  /\ stale \subseteq Refs
  /\ owner \in Refs
  /\ preparing \in Refs \X Text
  /\ startup \in BOOLEAN /\ authed \in BOOLEAN /\ odd \in BOOLEAN
  /\ probes \in 0 .. ProbeLimit
  /\ phase \in Phases
  /\ answer \in Seq(Packets)
  /\ last \in [ran : Text, logged : Text, plain : BOOLEAN]
  /\ messages \in 0 .. MaxMessages

StatementInit ==
  /\ proto \in {"postgres", "mysql", "mssql", "redis"}
  /\ cache = [r \in Refs |-> Nothing] /\ stmts = cache
  /\ template = Nothing
  /\ portals = [r \in Refs |-> NoPortal]
  /\ stale = {} /\ owner = 0
  /\ preparing = <<0, Nothing>>
  /\ startup = TRUE /\ probes = 0
  /\ authed \in (IF proto = "redis" THEN BOOLEAN ELSE {TRUE})
  /\ phase = Idle /\ answer = <<>>
  /\ odd = FALSE
  /\ last = [ran |-> Nothing, logged |-> Nothing, plain |-> TRUE]
  /\ messages = 0

\* A message of a client that speaks p, taken up when the last one is done with.
Message(p) ==
  /\ proto = p /\ phase = Idle
  /\ messages < MaxMessages
  /\ messages' = messages + 1
  /\ UNCHANGED proto

\* White space runs nothing and is not recorded.
Meant(t) == IF t = Blank THEN Nothing ELSE t

Recorded(ran, logged, plain) == last' = [ran |-> ran, logged |-> logged, plain |-> plain]

Unrecorded == Recorded(Nothing, Nothing, TRUE)

\* Mutant: a statement that is prepared again keeps its first text.
MStored(r, t) ==
  IF t = Blank \/ cache[r] # Nothing THEN cache ELSE [cache EXCEPT ![r] = t]

\* Store, for a text that is not blank.
Stored(r, t) == IF t = Blank THEN cache ELSE [cache EXCEPT ![r] = t]

Deleted(r) == [cache EXCEPT ![r] = Nothing]

-------------------------------------------------------------------------------
(***************************************************************************)
(* PostgreSQL.  The server refuses to parse a name again that is in use,   *)
(* and a portal keeps the statement as it was when it was bound.  Other    *)
(* errors, and the messages skipped up to the next Sync, are left out.     *)
(***************************************************************************)
pgRest == <<template, owner, preparing, startup, probes, authed, phase, answer, odd>>

PgQuery(t) ==
  /\ Message("postgres")
  /\ Recorded(Meant(t), Meant(t), TRUE)
  /\ stmts' = [stmts EXCEPT ![0] = Nothing]
  /\ portals' = [portals EXCEPT ![0] = NoPortal]
  /\ UNCHANGED <<cache, stale, pgRest>>

PgParse(r, t) ==
  /\ Message("postgres")
  /\ LET taken == r # 0 /\ stmts[r] # Nothing IN
       /\ stmts' = IF taken THEN stmts ELSE [stmts EXCEPT ![r] = t]
       /\ stale' = IF taken \/ t = Blank THEN stale \cup {r} ELSE stale \ {r}
  /\ cache' = Stored(r, t)
  /\ portals' = [p \in Refs |-> IF portals[p].of = r THEN [portals[p] EXCEPT !.fresh = FALSE]
                                ELSE portals[p]]
  /\ Unrecorded
  /\ UNCHANGED pgRest

PgBind(p, r) ==
  /\ Message("postgres")
  /\ stmts[r] # Nothing
  /\ portals' = [portals EXCEPT ![p] = [of |-> r, text |-> stmts[r], fresh |-> TRUE]]
  /\ Unrecorded
  /\ UNCHANGED <<cache, stmts, stale, pgRest>>

\* The cache of statements is searched for the name of the portal.
PgExecute(p) ==
  /\ Message("postgres")
  /\ LET portal == portals[p] IN
       Recorded(Meant(portal.text), cache[p], portal.fresh /\ portal.of = p /\ p \notin stale)
  /\ UNCHANGED <<cache, stmts, portals, stale, pgRest>>

\* Closing a statement closes its portals.
PgClose(target, r) ==
  /\ Message("postgres")
  /\ IF target = "statement"
       THEN /\ cache' = Deleted(r)
            /\ stmts' = [stmts EXCEPT ![r] = Nothing]
            /\ stale' = stale \ {r}
            /\ portals' = [p \in Refs |-> IF portals[p].of = r THEN NoPortal ELSE portals[p]]
       ELSE portals' = [portals EXCEPT ![r] = NoPortal] /\ UNCHANGED <<cache, stmts, stale>>
  /\ Unrecorded
  /\ UNCHANGED pgRest

-------------------------------------------------------------------------------
(***************************************************************************)
(* SQL Server.  A procedure is called by its name or by its number, and    *)
(* the proxy knows the number of sp_executesql only.                       *)
(***************************************************************************)
msRest == <<cache, portals, stale, preparing, startup, probes, authed, phase, answer, odd>>

MsBatch(t) ==
  /\ Message("mssql")
  /\ Recorded(Meant(t), Meant(t), TRUE)
  /\ UNCHANGED <<template, stmts, owner, msRest>>

\* extractLikelySQLFromRPCPayload, of the texts that lie in the payload: the
\* longest run with a keyword, of any of them.  It sees every second byte only,
\* and so just some of the texts.
Scanned(texts) ==
  LET runs(seen) == UNION {Runs[t] : t \in seen \cap Texts}
      best(seen) == {x \in runs(seen) : \A y \in runs(seen) : Length[y] <= Length[x]}
  IN  UNION {IF runs(seen) = {} THEN {Nothing} ELSE best(seen) : seen \in SUBSET texts}

Preparing == {"sp_prepare", "sp_prepexec", "sp_cursorprepexec"}

\* The procedures of which handleQueryCapture keeps the text.
Templated == {"sp_prepare", "sp_prepexec", "sp_executesql"}

\* A call that carries its text, and perhaps a parameter.  found is what the scan
\* takes for the text.
MsText(proc, t, value, byName) ==
  /\ Message("mssql")
  /\ LET known == byName \/ proc = "sp_executesql"
         new   == IF proc \in Preparing THEN {r \in Refs \ {0} : stmts[r] = Nothing} ELSE {0}
     IN  \E found \in Scanned({t, value}), r \in {x \in new : \A y \in new : x <= y} :
           /\ stmts' = IF r = 0 THEN stmts ELSE [stmts EXCEPT ![r] = t]
           /\ IF known /\ proc \in Templated /\ found # Nothing
                THEN template' = found /\ owner' = IF found = t THEN r ELSE 0
                ELSE UNCHANGED <<template, owner>>
           /\ Recorded(t, IF found = Nothing /\ known THEN template ELSE found, found = t)
  /\ UNCHANGED msRest

\* A call by handle, recorded with the last text whatever the handle is, or with
\* a parameter that looks like SQL.
MsExecute(r, value, byName) ==
  /\ Message("mssql")
  /\ stmts[r] # Nothing
  /\ \E found \in Scanned({value}) :
       Recorded(stmts[r], IF found = Nothing /\ byName THEN template ELSE found,
                found = Nothing /\ byName /\ owner = r)
  /\ UNCHANGED <<template, stmts, owner, msRest>>

-------------------------------------------------------------------------------
(***************************************************************************)
(* MySQL.  The proxy reads a command, passes it on and relays the whole    *)
(* answer before it reads the next one.                                    *)
(***************************************************************************)
myRest == <<template, portals, stale, owner, authed>>

\* Answers to a statement: no rows, an error, rows, several results, and the
\* request for a local file.
Results == {<<"ok">>, <<"err">>, <<"cols", "def", "eof", "row", "eof">>,
            <<"cols", "def", "eof", "err">>, <<"okmore", "ok">>,
            <<"cols", "def", "eof", "eofmore", "err">>, <<"infile">>}

\* Answers that are not followed: the rows of a cursor are fetched later, and a
\* statement of 16 MB or more is not complete with its first packet.
Cursor == <<"cols", "def", "eof">>
Incomplete == <<>>

Answered(answers) ==
  /\ answer' \in answers
  /\ odd' = (odd \/ answer' \in {Cursor, Incomplete})
  /\ phase' = At("first", 0)

\* Mutant: one probe too many.
MStarting(t) == startup /\ t \in Probes /\ probes <= ProbeLimit

\* A probe of the client's driver, of which only the first ones are answered.
Starting(t) == startup /\ t \in Probes /\ probes < ProbeLimit

\* COM_QUERY.  Probes are answered by the proxy itself.
MyQuery(t) ==
  /\ Message("mysql")
  /\ LET locally  == t \in CacheProbes \/ Starting(t)
     IN  /\ probes' = IF Starting(t) /\ t \notin CacheProbes THEN probes + 1 ELSE probes
         /\ startup' = IF locally \/ t = Blank THEN startup ELSE FALSE
         /\ IF locally THEN Unrecorded /\ UNCHANGED <<phase, answer, odd>>
            ELSE Recorded(Meant(t), Meant(t), TRUE) /\ Answered(Results \cup {Incomplete})
  /\ UNCHANGED <<cache, stmts, preparing, myRest>>

\* COM_STMT_PREPARE, answered with up to one parameter and one column.
MyPrepare(t) ==
  /\ Message("mysql")
  /\ startup' = FALSE
  /\ Unrecorded
  /\ LET free == {r \in Refs \ {0} : \A x \in Refs : x >= r => stmts[x] = Nothing /\ cache[x] = Nothing}
     IN  \/ answer' = <<"err">> /\ preparing' = <<0, Nothing>>
         \/ /\ t # Blank /\ free # {}
            /\ preparing' = <<CHOOSE r \in free : \A x \in free : r <= x, t>>
            /\ answer' \in {<<"prepared">>, <<"prepared", "def", "eof">>,
                            <<"prepared", "def", "eof", "def", "eof">>}
  /\ phase' = At("prepare", 0)
  /\ stmts' = IF preparing'[1] = 0 THEN stmts ELSE [stmts EXCEPT ![preparing'[1]] = t]
  /\ UNCHANGED <<cache, probes, odd, myRest>>

\* COM_STMT_EXECUTE.
MyExecute(r) ==
  /\ Message("mysql")
  /\ r # 0
  /\ startup' = FALSE
  /\ Recorded(stmts[r], cache[r], stmts[r] # Nothing)
  /\ Answered(IF stmts[r] = Nothing THEN {<<"err">>}
              ELSE (Results \ {<<"infile">>}) \cup {Cursor, Incomplete})
  /\ UNCHANGED <<cache, stmts, preparing, probes, myRest>>

\* COM_STMT_CLOSE has no answer.
MyClose(r) ==
  /\ Message("mysql")
  /\ startup' = FALSE
  /\ cache' = Deleted(r)
  /\ stmts' = [stmts EXCEPT ![r] = Nothing]
  /\ Unrecorded
  /\ UNCHANGED <<preparing, probes, phase, answer, odd, myRest>>

\* The line of COM_STATISTICS, and the server's wish for another way to
\* authenticate, are no results.
Strange == {<<"stats">>, <<"switch">>}

\* Answers to the commands of the default branch; "ping" stands for those with a
\* plain answer.
Default(cmd) ==
  CASE cmd = "statistics" -> {<<"stats">>}
    [] cmd = "change_user" -> {<<"ok">>, <<"err">>, <<"switch">>}
    [] cmd = "reset" -> {<<"ok">>}
    [] cmd = "ping" -> {<<"ok">>, <<"err">>}

\* COM_FIELD_LIST, and the default branch; a new user or a reset drops the
\* statements of the server.
MyOther(cmd) ==
  /\ Message("mysql")
  /\ startup' = FALSE
  /\ IF cmd = "fields" THEN phase' = At("fields", 0) /\ answer' \in {<<"def", "eof">>, <<"err">>}
     ELSE phase' = At("first", 0) /\ answer' \in Default(cmd)
  /\ odd' = (odd \/ answer' \in Strange)
  /\ stmts' = IF cmd \in {"reset", "change_user"} /\ answer' = <<"ok">>
                THEN [r \in Refs |-> Nothing] ELSE stmts
  /\ Unrecorded
  /\ UNCHANGED <<cache, preparing, probes, myRest>>

\* The client sends its file, and the server answers the last, empty packet.
MyFile ==
  /\ proto = "mysql" /\ phase.at = "infile"
  /\ phase' = At("afterinfile", 0)
  /\ answer' \in {<<"ok">>, <<"err">>, <<"okmore", "ok">>}
  /\ UNCHANGED <<proto, cache, stmts, preparing, startup, probes, odd, last, messages, myRest>>

\* "Uptime" begins with an 85: so many columns and their end are waited for.  An
\* authentication switch reads as more still.
Miscount == 86

\* Mutant: the flag for further results is not looked at.
MAfterFirst(p) ==
  CASE p \in {"ok", "okmore", "err"} -> Idle
    [] p = "infile" -> At("infile", 0)
    [] p = "cols" -> At("defs", 2)
    [] p \in {"stats", "switch"} -> At("defs", Miscount)

\* relaySingleResponse on the first packet of a result.  What is no result is
\* read as a number of columns.
AfterFirst(p) ==
  CASE p \in {"ok", "err"} -> Idle
    [] p = "okmore" -> At("first", 0)
    [] p = "infile" -> At("infile", 0)
    [] p = "cols" -> At("defs", 2)
    [] p \in {"stats", "switch"} -> At("defs", Miscount)

\* relayRows.
AfterRow(p) ==
  CASE p = "row" -> At("rows", 0)
    [] p = "eofmore" -> At("first", 0)
    [] p \in {"eof", "err"} -> Idle

CountedOff(where, then) == IF phase.n > 1 THEN At(where, phase.n - 1) ELSE then

\* relayPrepareResponse counts off the definitions that the first packet announces.
AfterPrepare(p) ==
  IF p = "err" \/ Len(answer) = 1 THEN Idle ELSE At("exact", Len(answer) - 1)

NextPhase(p) ==
  CASE phase.at = "first"       -> AfterFirst(p)
    [] phase.at = "afterinfile" -> AfterFirst(p)
    [] phase.at = "defs"        -> CountedOff("defs", At("rows", 0))
    [] phase.at = "rows"        -> AfterRow(p)
    [] phase.at = "prepare"     -> AfterPrepare(p)
    [] phase.at = "exact"       -> CountedOff("exact", Idle)
    [] phase.at = "fields"      -> IF p \in {"eof", "err"} THEN Idle ELSE phase
    [] phase.at = "reply"       -> Idle

\* The relay reads a packet of the server and writes it to the client.
RelayPacket ==
  /\ phase.at \notin {"idle", "infile"} /\ answer # <<>>
  /\ phase' = NextPhase(Head(answer))
  /\ answer' = Tail(answer)
  /\ cache' = IF phase.at = "prepare" /\ Head(answer) = "prepared"
                THEN Stored(preparing[1], preparing[2]) ELSE cache
  /\ UNCHANGED <<proto, stmts, preparing, startup, probes, odd, last, messages, myRest>>

-------------------------------------------------------------------------------
(***************************************************************************)
(* Redis.  One answer is relayed for every command passed on.              *)
(***************************************************************************)
reRest == <<cache, template, stmts, portals, stale, owner, preparing, startup, probes>>

\* AUTH is answered by the proxy.
ReAuth(good) ==
  /\ Message("redis")
  /\ authed' = (authed \/ good)
  /\ Unrecorded
  /\ UNCHANGED <<phase, answer, odd, reRest>>

\* A command array.  A subscription is answered for each channel, and a client
\* may ask for no answers at all.
ReCommand(t, answers) ==
  /\ Message("redis")
  /\ IF authed
       THEN /\ Recorded(t, t, TRUE)
            /\ phase' = At("reply", 0)
            /\ answer' = answer \o [k \in 1 .. answers |-> "reply"]
            /\ odd' = (odd \/ answers # 1)
       ELSE Unrecorded /\ UNCHANGED <<phase, answer, odd>>
  /\ UNCHANGED <<authed, reRest>>

\* A frame that is no array of a command is passed on and not recorded.
ReFrame(t) ==
  /\ Message("redis")
  /\ Recorded(t, Nothing, FALSE)
  /\ phase' = At("reply", 0)
  /\ answer' = Append(answer, "reply")
  /\ UNCHANGED <<authed, odd, reRest>>

-------------------------------------------------------------------------------
StatementNext ==
  \/ \E t \in Texts \cup {Blank} :
       \/ PgQuery(t) \/ MsBatch(t) \/ MyQuery(t) \/ MyPrepare(t)
       \/ \E r \in Refs : PgParse(r, t)
  \/ \E p, r \in Refs : PgBind(p, r)
  \/ \E r \in Refs :
       \/ PgExecute(r)
       \/ \E target \in {"statement", "portal"} : PgClose(target, r)
       \/ \E value \in Texts \cup {Nothing}, byName \in BOOLEAN : MsExecute(r, value, byName)
       \/ MyExecute(r) \/ MyClose(r)
  \/ \E proc \in Preparing \cup {"sp_executesql"}, t \in Texts, value \in Texts \cup {Nothing},
        byName \in BOOLEAN : MsText(proc, t, value, byName)
  \/ \E cmd \in {"fields", "reset", "ping", "statistics", "change_user"} : MyOther(cmd)
  \/ MyFile \/ RelayPacket
  \/ \E good \in BOOLEAN : ReAuth(good)
  \/ \E t \in Texts : ReFrame(t) \/ \E answers \in 0 .. 2 : ReCommand(t, answers)

\* What is recorded for a statement is the text that the server runs, wherever
\* the proxy remembers the text of a prepared one.  The exceptions are in the
\* third field of last: in PostgreSQL a portal that is not called like its
\* statement, a statement parsed again between Bind and Execute, a name parsed
\* twice or with a blank text; in SQL Server a payload whose scan yields anything
\* but the statement (nothing, a piece of it, or a parameter), a call by number,
\* and a handle that was not the last one prepared, or whose own text the scan
\* did not yield; in Redis a frame that is no command array.
LoggedIsRun == last.plain => last.logged = last.ran

\* Requests and answers stay in step: the proxy waits for a command exactly when
\* the server has nothing left to say.  The exceptions are what the relays do
\* not follow: cursors, very long statements, COM_STATISTICS and a
\* COM_CHANGE_USER that the server answers with another way to authenticate, in
\* MySQL, and Redis commands with several answers or none, after which answers go
\* to the wrong command or both sides wait for each other.
InStep == odd \/ phase.at = "infile" \/ (phase = Idle <=> answer = <<>>)
===============================================================================
