----------------------------- MODULE RelaysProofs -----------------------------
(***************************************************************************)
(* Proofs about Relays: the events of an SFTP session, the statements that *)
(* are recorded, requests and answers in step, and the keys that are kept, *)
(* for any number of packets, handles, texts, messages, hosts and dials.   *)
(***************************************************************************)
EXTENDS Relays, SFTPRelayProofs

USE StatementAssumption, BridgeAssumption, HostKeysAssumption

-------------------------------------------------------------------------------
(***************************************************************************)
(* StatementLog.  What the server still has to say, by what the relay      *)
(* waits for.  The relay of MySQL stands still for good after an answer it *)
(* does not follow; the one of Redis goes on, one answer off.              *)
(***************************************************************************)

\* What is left of an answer to a statement from the column definitions on.
Rows == {<<"row", "eof">>, <<"err">>, <<"eofmore", "err">>, <<>>}

Definitions(n) ==
  IF n = 2 THEN {<<"def", "eof", "row", "eof">>, <<"def", "eof", "err">>,
                 <<"def", "eof", "eofmore", "err">>, <<"def", "eof">>}
  ELSE IF n = 1 THEN {<<"eof", "row", "eof">>, <<"eof", "err">>, <<"eof", "eofmore", "err">>, <<"eof">>}
  ELSE IF n = Miscount THEN {<<>>} ELSE {}

Announced(n) ==
  IF n = 4 THEN {<<"def", "eof", "def", "eof">>} ELSE IF n = 3 THEN {<<"eof", "def", "eof">>}
  ELSE IF n = 2 THEN {<<"def", "eof">>} ELSE IF n = 1 THEN {<<"eof">>} ELSE {}

Expected(at, n) ==
  CASE at \in {"idle", "infile"} -> {<<>>}
    [] at = "first"       -> Results \cup {Cursor, Incomplete} \cup Strange
    [] at = "afterinfile" -> {<<"ok">>, <<"err">>, <<"okmore", "ok">>}
    [] at = "defs"        -> Definitions(n)
    [] at = "rows"        -> Rows \cup {<<"eof">>}
    [] at = "prepare"     -> {<<"err">>, <<"prepared">>, <<"prepared", "def", "eof">>,
                              <<"prepared", "def", "eof", "def", "eof">>}
    [] at = "exact"       -> Announced(n)
    [] at = "fields"      -> {<<"def", "eof">>, <<"eof">>, <<"err">>}
    [] OTHER              -> {}

\* What is left when the client asked for what the relay does not follow.
Unfollowed == {<<"def", "eof">>, <<"eof">>, <<>>}

\* The answer a fits the phase ph of the relay of MySQL; o, when the client asked
\* for such a thing.
Fits(ph, a, o) ==
  /\ ph \in Phases /\ ph.at # "reply" /\ a \in Expected(ph.at, ph.n)
  /\ ph.at \notin {"defs", "exact"} => ph.n = 0
  /\ ph.at = "first" /\ a \in {Cursor, Incomplete} \cup Strange => o
  /\ ph.at = "defs" /\ a \in Unfollowed => o
  /\ ph.at = "rows" /\ a = <<>> => o

AnswersExpected ==
  /\ proto = "mysql" => Fits(phase, answer, odd)
  /\ proto = "redis" =>
       /\ phase \in {Idle, At("reply", 0)} /\ answer \in Seq({"reply"})
       /\ ~odd => answer = IF phase = Idle THEN <<>> ELSE <<"reply">>
  /\ proto \in {"postgres", "mssql"} => phase = Idle /\ answer = <<>>

-------------------------------------------------------------------------------
(***************************************************************************)
(* The texts that the proxies remember.                                    *)
(***************************************************************************)
PgKnows ==
  /\ \A r \in Refs \ stale : stmts[r] # Nothing => cache[r] = stmts[r] /\ stmts[r] # Blank
  /\ \A p \in Refs \ stale :
       portals[p].fresh /\ portals[p].of = p => cache[p] = portals[p].text /\ portals[p].text # Blank

MsKnows ==
  /\ stmts[0] = Nothing
  /\ owner # 0 => stmts[owner] # Nothing /\ template = stmts[owner]

\* The answer with the number of a prepared statement is on its way.
Awaited == phase.at = "prepare" /\ answer # <<>> /\ Head(answer) = "prepared"

MyKnows ==
  /\ stmts[0] = Nothing
  /\ \A r \in Refs : stmts[r] = Nothing \/ cache[r] = stmts[r] \/ (Awaited /\ preparing[1] = r)
  /\ Awaited => preparing[2] \in Texts /\ stmts[preparing[1]] = preparing[2]

TextsKnown ==
  /\ proto = "postgres" => PgKnows
  /\ proto = "mssql" => MsKnows
  /\ proto = "mysql" => MyKnows

StatementInv == StatementTypeOK /\ AnswersExpected /\ TextsKnown /\ LoggedIsRun

-------------------------------------------------------------------------------
(***************************************************************************)
(* HostKeys.  What is rewritten holds every accepted key as well.          *)
(***************************************************************************)
Keeps(lines, keys) ==
  \A e \in Endpoints : keys[e] # NoKey =>
    \E i \in 1 .. Len(lines) : lines[i].at = Pattern(e, FALSE) /\ lines[i].key = keys[e]

\* Keys are learned under accept-new and repaired under known-hosts, never both.
ByMode ==
  /\ \A d \in Dials :
       /\ dial[d].at = "fetch" \/ dial[d].repairing => mode = "known-hosts"
       /\ dial[d].at \in {"learn", "write"} => dial[d].key \in Keys /\ (dial[d].repairing \/ mode = "accept-new")
  /\ \A e \in Endpoints : accepted[e] # NoKey => mode = "accept-new"

OneWriter == \A c, d \in Dials : dial[c].at = "write" /\ dial[d].at = "write" => c = d

WriterKeeps == \A d \in Dials : dial[d].at = "write" => Keeps(dial[d].lines, accepted)

HostKeysInv == HostKeysTypeOK /\ ByMode /\ OneWriter /\ WriterKeeps /\ Keeps(known, accepted)
-------------------------------------------------------------------------------
(***************************************************************************)
(* The file of the known hosts.                                            *)
(***************************************************************************)
LEMMA PatternTyped ==
  ASSUME NEW e \in Endpoints, NEW b \in BOOLEAN
  PROVE  Pattern(e, b) \in Patterns /\ (Pattern(e, FALSE) = "v6" => e = "v6")
<1>1. e \in {"address", "v6", "name", "name22"}
  OBVIOUS
<1> QED
  BY <1>1 DEF Pattern, Patterns

LEMMA LineTyped ==
  ASSUME NEW e \in Endpoints, NEW b \in BOOLEAN, NEW k \in Keys
  PROVE  [at |-> Pattern(e, b), key |-> k] \in Line
BY PatternTyped DEF Line

\* What a rewrite u of lines leaves in the file: the new line, and every line but
\* the ones it takes the place of.
Rewrites(u, lines, e, b, k) ==
  /\ u \in Seq(Line)
  /\ \E i \in 1 .. Len(u) : u[i] = [at |-> Pattern(e, b), key |-> k]
  /\ \A i \in 1 .. Len(lines) :
       ~(e = "v6" /\ lines[i].at = Pattern(e, b)) => \E j \in 1 .. Len(u) : u[j] = lines[i]

LEMMA Rewritten ==
  ASSUME NEW lines \in Seq(Line), NEW e \in Endpoints, NEW b \in BOOLEAN, NEW k \in Keys
  PROVE  Rewrites(Upserted(lines, e, b, k), lines, e, b, k)
<1>0. PICK u : u = Upserted(lines, e, b, k)
  OBVIOUS
<1> SUFFICES Rewrites(u, lines, e, b, k)
  BY <1>0
<1>1. PICK line \in Line : line = [at |-> Pattern(e, b), key |-> k] /\ line.at = Pattern(e, b)
  BY LineTyped
<1>2. DOMAIN lines = 1 .. Len(lines) /\ Len(lines) \in Nat
  BY LenProperties
<1>3. PICK old \in SUBSET (1 .. Len(lines)) :
        old = {i \in 1 .. Len(lines) : e = "v6" /\ lines[i].at = Pattern(e, b)}
  OBVIOUS
<1>4. u = IF old = {} THEN Append(lines, line)
          ELSE [i \in 1 .. Len(lines) |-> IF i \notin old THEN lines[i]
                                         ELSE IF \A j \in old : i <= j THEN line ELSE Gone]
  BY <1>0, <1>1, <1>2, <1>3 DEF Upserted, Replaceable
<1>5. CASE old = {}
  <2>1. u = Append(lines, line)
    BY <1>4, <1>5
  <2>2. /\ u \in Seq(Line) /\ Len(u) = Len(lines) + 1 /\ u[Len(lines) + 1] = line
        /\ \A i \in 1 .. Len(lines) : u[i] = lines[i]
    BY <2>1, AppendProperties
  <2>3. Len(lines) + 1 \in 1 .. Len(u) /\ \A i \in 1 .. Len(lines) : i \in 1 .. Len(u)
    BY <1>2, <2>2
  <2> QED
    BY <1>1, <2>2, <2>3 DEF Rewrites
<1>6. CASE old # {}
  <2>1. u = [i \in 1 .. Len(lines) |-> IF i \notin old THEN lines[i]
                                      ELSE IF \A j \in old : i <= j THEN line ELSE Gone]
    BY <1>4, <1>6
  <2>2. \A i \in 1 .. Len(lines) : lines[i] \in Line
    BY ElementOfSeq
  <2>3. Gone \in Line
    BY DEF Line
  <2>4. u \in [1 .. Len(lines) -> Line]
    BY <1>1, <2>1, <2>2, <2>3
  <2>5. u \in Seq(Line) /\ Len(u) = Len(lines)
    BY <1>2, <2>4
  <2>6. PICK x \in old : \A j \in old : x <= j
    <3>1. old \in SUBSET Nat
      BY <1>2
    <3> QED
      BY <1>6, <3>1, LeastHandle
  <2>7. u[x] = line
    BY <2>1, <2>6
  <2>8. \A i \in 1 .. Len(lines) : i \notin old => u[i] = lines[i]
    BY <2>1
  <2> QED
    BY <1>1, <1>3, <2>5, <2>7, <2>8 DEF Rewrites
<1> QED
  BY <1>5, <1>6

\* The start: an empty file and nothing accepted.
LEMMA HostKeysStart == HostKeysInit => HostKeysInv
<1> SUFFICES ASSUME HostKeysInit PROVE HostKeysInv
  OBVIOUS
<1>1. /\ mode \in {"insecure", "known-hosts", "accept-new"} /\ autoFix \in BOOLEAN
      /\ known = <<>> /\ loaded = <<>> /\ running = TRUE /\ changes = 0
      /\ dial = [d \in Dials |-> NoDial] /\ accepted = [e \in Endpoints |-> NoKey]
      /\ hostKey \in [Endpoints -> {CHOOSE k \in Keys : TRUE}]
  BY DEF HostKeysInit
<1>2. NoDial \in DialRow /\ NoDial.at = "idle" /\ ~NoDial.repairing
  <2>1. (CHOOSE e \in Endpoints : TRUE) \in Endpoints
    OBVIOUS
  <2> QED
    BY <2>1 DEF NoDial, DialRow
<1>3. HostKeysTypeOK
  <2>1. (CHOOSE k \in Keys : TRUE) \in Keys
    OBVIOUS
  <2>2. hostKey \in [Endpoints -> Keys]
    BY <1>1, <2>1
  <2>3. dial \in [Dials -> DialRow] /\ accepted \in [Endpoints -> Keys \cup {NoKey}]
    BY <1>1, <1>2
  <2>4. known \in Seq(Line) /\ loaded \in Seq(Line)
    BY <1>1
  <2>5. changes \in 0 .. MaxChanges /\ running \in BOOLEAN
    BY <1>1
  <2> QED
    BY <1>1, <2>2, <2>3, <2>4, <2>5 DEF HostKeysTypeOK
<1>4. \A d \in Dials : dial[d].at = "idle" /\ ~dial[d].repairing
  BY <1>1, <1>2
<1>5. \A e \in Endpoints : accepted[e] = NoKey
  BY <1>1
<1> QED
  BY <1>3, <1>4, <1>5 DEF HostKeysInv, ByMode, OneWriter, WriterKeeps, Keeps

\* A step of one dial that touches neither the file nor what was accepted.
LEMMA DialMoves ==
  ASSUME HostKeysInv, NEW d \in Dials, NEW x \in DialRow, dial' = [dial EXCEPT ![d] = x],
         UNCHANGED <<mode, autoFix, known, loaded, running, hostKey, changes, accepted>>,
         x.at = "fetch" \/ x.repairing => mode = "known-hosts",
         x.at \in {"learn", "write"} => x.key \in Keys /\ (x.repairing \/ mode = "accept-new"),
         x.at = "write" => Unlocked /\ x.lines = known
  PROVE  HostKeysInv'
<1>1. HostKeysTypeOK'
  BY DEF HostKeysInv, HostKeysTypeOK
<1>2. dial \in [Dials -> DialRow] /\ dial' \in [Dials -> DialRow]
  BY DEF HostKeysInv, HostKeysTypeOK
<1>3. dial'[d] = x /\ \A c \in Dials : c # d => dial'[c] = dial[c]
  BY <1>2
<1>4. ByMode'
  <2>1. ASSUME NEW c \in Dials
        PROVE  /\ dial'[c].at = "fetch" \/ dial'[c].repairing => mode = "known-hosts"
               /\ dial'[c].at \in {"learn", "write"} =>
                    dial'[c].key \in Keys /\ (dial'[c].repairing \/ mode = "accept-new")
    <3>1. CASE c = d
      BY <1>3, <3>1
    <3>2. CASE c # d
      BY <1>3, <3>2 DEF HostKeysInv, ByMode
    <3> QED
      BY <3>1, <3>2
  <2>2. \A e \in Endpoints : accepted'[e] # NoKey => mode' = "accept-new"
    BY DEF HostKeysInv, ByMode
  <2> QED
    BY <2>1, <2>2 DEF ByMode
<1>5. OneWriter'
  BY <1>3 DEF HostKeysInv, OneWriter, Unlocked
<1>6. WriterKeeps'
  BY <1>3 DEF HostKeysInv, WriterKeeps
<1>7. Keeps(known, accepted)'
  BY DEF HostKeysInv
<1> QED
  BY <1>1, <1>4, <1>5, <1>6, <1>7 DEF HostKeysInv

\* A change of the file or of what was accepted, while the dials stay.
LEMMA FileChanges ==
  ASSUME HostKeysInv, HostKeysTypeOK', UNCHANGED <<mode, dial>>,
         \A e \in Endpoints : accepted'[e] \in {accepted[e], NoKey},
         Keeps(known', accepted')
  PROVE  HostKeysInv'
<1>1. ByMode'
  BY DEF HostKeysInv, ByMode
<1>2. OneWriter'
  BY DEF HostKeysInv, OneWriter
<1>3. ASSUME NEW l, Keeps(l, accepted) PROVE Keeps(l, accepted')
  BY <1>3 DEF Keeps
<1>4. WriterKeeps'
  BY <1>3 DEF HostKeysInv, WriterKeeps
<1> QED
  BY <1>1, <1>2, <1>4 DEF HostKeysInv

LEMMA NoDialTyped == NoDial \in DialRow /\ NoDial.at = "idle" /\ ~NoDial.repairing
<1>1. (CHOOSE e \in Endpoints : TRUE) \in Endpoints
  OBVIOUS
<1> QED
  BY <1>1 DEF NoDial, DialRow

LEMMA DialKept ==
  ASSUME HostKeysInv, NEW d \in Dials, NEW e \in Endpoints, Dial(d, e)
  PROVE  HostKeysInv'
<1>1. PICK at : /\ at \in (CASE Verdict(e) = "known"   -> Concluded
                            [] Verdict(e) = "learn"   -> {"learn", "failed"}
                            [] Verdict(e) = "refused" -> {IF autoFix THEN "fetch" ELSE "refused", "failed"})
                /\ dial' = [dial EXCEPT ![d] = [NoDial EXCEPT !.at = at, !.to = e, !.key = hostKey[e],
                                                 !.listed = (Listed(known, e) = hostKey[e])]]
  BY DEF Dial
<1>2. UNCHANGED <<mode, autoFix, known, loaded, running, hostKey, changes, accepted>>
  BY DEF Dial
<1>3. mode \in {"insecure", "known-hosts", "accept-new"} /\ hostKey[e] \in Keys
  BY DEF HostKeysInv, HostKeysTypeOK
<1>4. /\ at \in {"connected", "failed", "learn", "fetch", "refused"}
      /\ at = "learn" => mode = "accept-new"
      /\ at = "fetch" => mode = "known-hosts"
  BY <1>1, <1>3 DEF Verdict, Concluded
<1>5. PICK x : x = [NoDial EXCEPT !.at = at, !.to = e, !.key = hostKey[e], !.listed = (Listed(known, e) = hostKey[e])]
  OBVIOUS
<1>6. x \in DialRow /\ x.at = at /\ x.key = hostKey[e] /\ ~x.repairing
  BY <1>3, <1>4, <1>5, NoDialTyped DEF DialRow
<1> QED
  BY <1>1, <1>2, <1>3, <1>4, <1>5, <1>6, DialMoves

LEMMA ReadKept ==
  ASSUME HostKeysInv, NEW d \in Dials, ReadKnownHosts(d)
  PROVE  HostKeysInv'
<1>1. /\ dial[d].at = "learn" /\ Unlocked
      /\ dial' = [dial EXCEPT ![d].at = "write", ![d].lines = known]
      /\ UNCHANGED <<mode, autoFix, known, loaded, running, hostKey, changes, accepted>>
  BY DEF ReadKnownHosts
<1>2. dial \in [Dials -> DialRow] /\ known \in Seq(Line) /\ dial[d] \in DialRow
  BY DEF HostKeysInv, HostKeysTypeOK
<1>3. PICK x : x = [dial[d] EXCEPT !.at = "write", !.lines = known]
  OBVIOUS
<1>4. /\ x \in DialRow /\ x.at = "write" /\ x.lines = known
      /\ x.key = dial[d].key /\ x.repairing = dial[d].repairing
  BY <1>2, <1>3 DEF DialRow
<1>5. dial' = [dial EXCEPT ![d] = x]
  BY <1>1, <1>2, <1>3 DEF DialRow
<1>6. /\ dial[d].repairing => mode = "known-hosts"
      /\ dial[d].key \in Keys /\ (dial[d].repairing \/ mode = "accept-new")
  BY <1>1 DEF HostKeysInv, ByMode
<1> QED
  BY <1>1, <1>4, <1>5, <1>6, DialMoves

LEMMA FetchKept ==
  ASSUME HostKeysInv, NEW d \in Dials, NEW reached \in BOOLEAN, FetchHostKey(d, reached)
  PROVE  HostKeysInv'
<1>1. /\ dial[d].at = "fetch"
      /\ dial' = IF reached THEN [dial EXCEPT ![d].at = "learn", ![d].repairing = TRUE, ![d].key = hostKey[dial[d].to]]
                 ELSE [dial EXCEPT ![d].at = "refused"]
      /\ UNCHANGED <<mode, autoFix, known, loaded, running, hostKey, changes, accepted>>
  BY DEF FetchHostKey
<1>2. dial \in [Dials -> DialRow] /\ dial[d] \in DialRow /\ hostKey \in [Endpoints -> Keys]
  BY DEF HostKeysInv, HostKeysTypeOK
<1>3. hostKey[dial[d].to] \in Keys
  BY <1>2 DEF DialRow
<1>4. PICK x : x = IF reached THEN [dial[d] EXCEPT !.at = "learn", !.repairing = TRUE, !.key = hostKey[dial[d].to]]
                   ELSE [dial[d] EXCEPT !.at = "refused"]
  OBVIOUS
<1>5. /\ x \in DialRow /\ x.at \in {"learn", "refused"} /\ (x.at = "learn" => x.repairing /\ x.key \in Keys)
  BY <1>2, <1>3, <1>4 DEF DialRow
<1>6. dial' = [dial EXCEPT ![d] = x]
  BY <1>1, <1>2, <1>4 DEF DialRow
<1>7. mode = "known-hosts"
  BY <1>1 DEF HostKeysInv, ByMode
<1> QED
  BY <1>1, <1>5, <1>6, <1>7, DialMoves

LEMMA RetryKept ==
  ASSUME HostKeysInv, NEW d \in Dials, RetryDial(d)
  PROVE  HostKeysInv'
<1>1. UNCHANGED <<mode, autoFix, known, loaded, running, hostKey, changes, accepted>>
  BY DEF RetryDial
<1>2. PICK at \in {"connected", "failed", "refused"} : dial' = [dial EXCEPT ![d].at = at]
  BY DEF RetryDial, Concluded
<1>3. dial \in [Dials -> DialRow] /\ dial[d] \in DialRow
  BY DEF HostKeysInv, HostKeysTypeOK
<1>4. PICK x : x = [dial[d] EXCEPT !.at = at]
  OBVIOUS
<1>5. x \in DialRow /\ x.at = at /\ x.repairing = dial[d].repairing
  BY <1>3, <1>4 DEF DialRow
<1>6. dial' = [dial EXCEPT ![d] = x]
  BY <1>2, <1>3, <1>4 DEF DialRow
<1>7. dial[d].repairing => mode = "known-hosts"
  BY DEF HostKeysInv, ByMode
<1> QED
  BY <1>1, <1>2, <1>5, <1>6, <1>7, DialMoves

LEMMA HangupKept ==
  ASSUME HostKeysInv, NEW d \in Dials, Hangup(d)
  PROVE  HostKeysInv'
BY NoDialTyped, DialMoves DEF Hangup

LEMMA WriteKept ==
  ASSUME HostKeysInv, NEW d \in Dials, WriteKnownHosts(d)
  PROVE  HostKeysInv'
<1>1. dial[d].at = "write" /\ UNCHANGED <<mode, autoFix, loaded, running, hostKey, changes>>
  BY DEF WriteKnownHosts
<1>2. PICK x \in DialRow : x = dial[d]
  BY DEF HostKeysInv, HostKeysTypeOK
<1>3. /\ known' = Upserted(x.lines, x.to, x.repairing, x.key)
      /\ accepted' = IF x.repairing THEN accepted ELSE [accepted EXCEPT ![x.to] = x.key]
  BY <1>2 DEF WriteKnownHosts
<1>4. PICK at \in {"retry", "connected", "failed"} : dial' = [dial EXCEPT ![d].at = at, ![d].lines = <<>>]
  BY DEF WriteKnownHosts, Concluded
<1>5. dial \in [Dials -> DialRow] /\ accepted \in [Endpoints -> Keys \cup {NoKey}] /\ HostKeysTypeOK
  BY DEF HostKeysInv, HostKeysTypeOK
<1>6. PICK y : y = [x EXCEPT !.at = at, !.lines = <<>>]
  OBVIOUS
<1>7. y \in DialRow /\ y.at = at /\ y.repairing = x.repairing
  <2>1. <<>> \in Seq(Line)
    OBVIOUS
  <2> QED
    BY <1>6, <2>1 DEF DialRow
<1>8. dial' = [dial EXCEPT ![d] = y]
  BY <1>2, <1>4, <1>5, <1>6 DEF DialRow
<1>9. x.to \in Endpoints /\ x.lines \in Seq(Line) /\ x.repairing \in BOOLEAN
  BY DEF DialRow
<1>10. /\ x.key \in Keys /\ (x.repairing => mode = "known-hosts") /\ (~x.repairing => mode = "accept-new")
       /\ Keeps(x.lines, accepted)
  BY <1>1, <1>2 DEF HostKeysInv, ByMode, WriterKeeps
<1>11. PICK u : u = Upserted(x.lines, x.to, x.repairing, x.key)
  OBVIOUS
<1>12. /\ u \in Seq(Line)
       /\ \E i \in 1 .. Len(u) : u[i] = [at |-> Pattern(x.to, x.repairing), key |-> x.key]
       /\ \A i \in 1 .. Len(x.lines) :
            ~(x.to = "v6" /\ x.lines[i].at = Pattern(x.to, x.repairing)) => \E j \in 1 .. Len(u) : u[j] = x.lines[i]
  <2>1. Rewrites(u, x.lines, x.to, x.repairing, x.key)
    BY <1>9, <1>10, <1>11, Rewritten
  <2> QED
    BY <2>1 DEF Rewrites
<1>13. HostKeysTypeOK'
  <2>1. accepted' \in [Endpoints -> Keys \cup {NoKey}] /\ dial' \in [Dials -> DialRow] /\ known' \in Seq(Line)
    BY <1>3, <1>5, <1>7, <1>8, <1>10, <1>11, <1>12
  <2> QED
    BY <1>1, <1>5, <2>1 DEF HostKeysTypeOK
<1>14. dial'[d] = y /\ \A c \in Dials : c # d => dial'[c] = dial[c] /\ dial[c].at # "write"
  <2>1. dial'[d] = y /\ \A c \in Dials : c # d => dial'[c] = dial[c]
    BY <1>5, <1>8
  <2> QED
    BY <1>1, <2>1 DEF HostKeysInv, OneWriter
<1>15. ByMode'
  <2>1. ASSUME NEW c \in Dials
        PROVE  /\ dial'[c].at = "fetch" \/ dial'[c].repairing => mode = "known-hosts"
               /\ dial'[c].at \in {"learn", "write"} =>
                    dial'[c].key \in Keys /\ (dial'[c].repairing \/ mode = "accept-new")
    <3>1. CASE c = d
      BY <1>4, <1>7, <1>10, <1>14, <3>1
    <3>2. CASE c # d
      BY <1>14, <3>2 DEF HostKeysInv, ByMode
    <3> QED
      BY <3>1, <3>2
  <2>2. \A e \in Endpoints : accepted'[e] # NoKey => mode = "accept-new"
    <3>1. \A e \in Endpoints : accepted[e] # NoKey => mode = "accept-new"
      BY DEF HostKeysInv, ByMode
    <3> QED
      BY <1>3, <1>10, <3>1
  <2> QED
    BY <1>1, <2>1, <2>2 DEF ByMode
<1>16. OneWriter' /\ WriterKeeps'
  <2>1. \A c \in Dials : dial'[c].at # "write"
    BY <1>4, <1>7, <1>14
  <2> QED
    BY <2>1 DEF OneWriter, WriterKeeps
<1>17. Keeps(known', accepted')
  <2>1. ASSUME NEW e \in Endpoints, accepted'[e] # NoKey
        PROVE  \E i \in 1 .. Len(u) : u[i].at = Pattern(e, FALSE) /\ u[i].key = accepted'[e]
    <3>1. CASE e = x.to /\ ~x.repairing
      <4>1. accepted'[e] = x.key
        BY <1>3, <1>5, <3>1
      <4>2. PICK i \in 1 .. Len(u) : u[i] = [at |-> Pattern(x.to, x.repairing), key |-> x.key]
        BY <1>12
      <4>3. x.repairing = FALSE
        BY <1>9, <3>1
      <4>4. u[i].at = Pattern(x.to, x.repairing) /\ u[i].key = x.key
        BY <4>2
      <4> QED
        BY <3>1, <4>1, <4>3, <4>4, Zenon
    <3>2. CASE ~(e = x.to /\ ~x.repairing)
      <4>1. accepted'[e] = accepted[e]
        BY <1>3, <1>5, <3>2
      <4>2. ~x.repairing
        BY <1>10, <2>1, <4>1 DEF HostKeysInv, ByMode
      <4>3. e # x.to
        BY <3>2, <4>2
      <4>4. PICK i \in 1 .. Len(x.lines) : x.lines[i].at = Pattern(e, FALSE) /\ x.lines[i].key = accepted[e]
        BY <1>10, <2>1, <4>1 DEF Keeps
      <4>5. ~(x.to = "v6" /\ x.lines[i].at = Pattern(x.to, x.repairing))
        <5>1. x.repairing = FALSE
          BY <1>9, <4>2
        <5>2. x.to = "v6" => Pattern(x.to, FALSE) = "v6"
          BY DEF Pattern
        <5>3. Pattern(e, FALSE) = "v6" => e = "v6"
          BY PatternTyped
        <5> QED
          BY <4>3, <4>4, <5>1, <5>2, <5>3
      <4>6. PICK j \in 1 .. Len(u) : u[j] = x.lines[i]
        BY <1>12, <4>5
      <4> QED
        BY <4>1, <4>4, <4>6
    <3> QED
      BY <3>1, <3>2
  <2> QED
    BY <1>3, <1>11, <2>1 DEF Keeps
<1> QED
  BY <1>13, <1>15, <1>16, <1>17 DEF HostKeysInv

LEMMA RotateKept ==
  ASSUME HostKeysInv, NEW e \in Endpoints, NEW k \in Keys, RotateHostKey(e, k)
  PROVE  HostKeysInv'
<1>1. /\ changes < MaxChanges /\ changes' = changes + 1 /\ hostKey' = [hostKey EXCEPT ![e] = k]
      /\ UNCHANGED <<mode, autoFix, known, loaded, running, dial, accepted>>
  BY DEF RotateHostKey, Change
<1>2. HostKeysTypeOK /\ changes \in 0 .. MaxChanges /\ hostKey \in [Endpoints -> Keys] /\ Keeps(known, accepted)
  BY DEF HostKeysInv, HostKeysTypeOK
<1>3. changes' \in 0 .. MaxChanges /\ hostKey' \in [Endpoints -> Keys]
  BY <1>1, <1>2
<1>4. HostKeysTypeOK'
  BY <1>1, <1>2, <1>3 DEF HostKeysTypeOK
<1> QED
  BY <1>1, <1>2, <1>4, FileChanges

LEMMA AddsKept ==
  ASSUME HostKeysInv, NEW e \in Endpoints, OperatorAdds(e)
  PROVE  HostKeysInv'
<1>1. /\ changes < MaxChanges /\ changes' = changes + 1
      /\ known' = Append(known, [at |-> e, key |-> hostKey[e]])
      /\ UNCHANGED <<mode, autoFix, loaded, running, hostKey, dial, accepted>>
  BY DEF OperatorAdds, Change
<1>2. /\ HostKeysTypeOK /\ changes \in 0 .. MaxChanges /\ hostKey \in [Endpoints -> Keys] /\ Keeps(known, accepted)
      /\ known \in Seq(Line)
  BY DEF HostKeysInv, HostKeysTypeOK
<1>3. [at |-> e, key |-> hostKey[e]] \in Line
  BY <1>2 DEF Line, Patterns
<1>4. /\ known' \in Seq(Line) /\ Len(known') = Len(known) + 1 /\ Len(known) \in Nat
      /\ \A i \in 1 .. Len(known) : known'[i] = known[i]
  BY <1>1, <1>2, <1>3, AppendProperties, LenProperties
<1>5. changes' \in 0 .. MaxChanges
  BY <1>1, <1>2
<1>6. HostKeysTypeOK'
  BY <1>1, <1>2, <1>4, <1>5 DEF HostKeysTypeOK
<1>7. \A i \in 1 .. Len(known) : i \in 1 .. Len(known')
  BY <1>4
<1>8. Keeps(known', accepted')
  BY <1>1, <1>2, <1>4, <1>7 DEF Keeps
<1> QED
  BY <1>1, <1>6, <1>8, FileChanges

\* ssh-keygen takes the lines of the endpoint's own name out, and the key that
\* was accepted from it is no longer asked for.
LEMMA RemovesKept ==
  ASSUME HostKeysInv, NEW e \in Endpoints, OperatorRemoves(e)
  PROVE  HostKeysInv'
<1>1. /\ changes < MaxChanges /\ changes' = changes + 1
      /\ known' = [i \in DOMAIN known |-> IF known[i].at = e THEN Gone ELSE known[i]]
      /\ accepted' = [accepted EXCEPT ![e] = NoKey]
      /\ UNCHANGED <<mode, autoFix, loaded, running, hostKey, dial>>
  BY DEF OperatorRemoves, Change
<1>2. /\ HostKeysTypeOK /\ changes \in 0 .. MaxChanges /\ Keeps(known, accepted)
      /\ known \in Seq(Line) /\ accepted \in [Endpoints -> Keys \cup {NoKey}]
  BY DEF HostKeysInv, HostKeysTypeOK
<1>3. DOMAIN known = 1 .. Len(known) /\ Len(known) \in Nat /\ \A i \in 1 .. Len(known) : known[i] \in Line
  BY <1>2, LenProperties, ElementOfSeq
<1>4. Gone \in Line
  BY DEF Line
<1>5. known' \in [1 .. Len(known) -> Line]
  BY <1>1, <1>3, <1>4
<1>6. known' \in Seq(Line) /\ Len(known') = Len(known)
  BY <1>3, <1>5
<1>7. changes' \in 0 .. MaxChanges
  BY <1>1, <1>2
<1>8. /\ accepted' \in [Endpoints -> Keys \cup {NoKey}] /\ accepted'[e] = NoKey
      /\ \A f \in Endpoints : f # e => accepted'[f] = accepted[f]
  BY <1>1, <1>2
<1>9. HostKeysTypeOK'
  BY <1>1, <1>2, <1>6, <1>7, <1>8 DEF HostKeysTypeOK
<1>10. Keeps(known', accepted')
  <2>1. ASSUME NEW f \in Endpoints, accepted'[f] # NoKey
        PROVE  \E i \in 1 .. Len(known') : known'[i].at = Pattern(f, FALSE) /\ known'[i].key = accepted'[f]
    <3>1. f # e /\ accepted'[f] = accepted[f]
      BY <1>8, <2>1
    <3>2. PICK i \in 1 .. Len(known) : known[i].at = Pattern(f, FALSE) /\ known[i].key = accepted[f]
      BY <1>2, <2>1, <3>1 DEF Keeps
    <3>3. Pattern(f, FALSE) # e
      <4>1. e \in {"address", "v6", "name", "name22"} /\ f \in {"address", "v6", "name", "name22"}
        OBVIOUS
      <4> QED
        BY <3>1, <4>1 DEF Pattern
    <3>4. known'[i] = known[i]
      BY <1>1, <1>3, <3>2, <3>3
    <3> QED
      BY <1>6, <3>1, <3>2, <3>4
  <2> QED
    BY <2>1 DEF Keeps
<1> QED
  BY <1>1, <1>8, <1>9, <1>10, FileChanges

LEMMA StopKept ==
  ASSUME HostKeysInv, Stop
  PROVE  HostKeysInv'
<1>1. /\ changes < MaxChanges /\ changes' = changes + 1 /\ running' = FALSE
      /\ dial' = [d \in Dials |-> NoDial] /\ UNCHANGED <<mode, autoFix, loaded, hostKey>>
  BY DEF Stop, Change
<1>2. PICK torn \in BOOLEAN : /\ known' = IF torn THEN <<>> ELSE known
                             /\ accepted' = IF torn THEN [e \in Endpoints |-> NoKey] ELSE accepted
  BY DEF Stop
<1>3. /\ HostKeysTypeOK /\ changes \in 0 .. MaxChanges /\ Keeps(known, accepted)
      /\ known \in Seq(Line) /\ accepted \in [Endpoints -> Keys \cup {NoKey}]
  BY DEF HostKeysInv, HostKeysTypeOK
<1>4. changes' \in 0 .. MaxChanges
  BY <1>1, <1>3
<1>5. dial' \in [Dials -> DialRow] /\ \A d \in Dials : dial'[d].at = "idle" /\ ~dial'[d].repairing
  BY <1>1, NoDialTyped
<1>6. known' \in Seq(Line)
  <2>1. <<>> \in Seq(Line)
    OBVIOUS
  <2> QED
    BY <1>2, <1>3, <2>1
<1>7. accepted' \in [Endpoints -> Keys \cup {NoKey}]
  BY <1>2, <1>3
<1>8. HostKeysTypeOK'
  BY <1>1, <1>3, <1>4, <1>5, <1>6, <1>7 DEF HostKeysTypeOK
<1>9. Keeps(known', accepted')
  BY <1>2, <1>3 DEF Keeps
<1>10. \A e \in Endpoints : accepted'[e] # NoKey => mode' = "accept-new"
  BY <1>1, <1>2 DEF HostKeysInv, ByMode
<1> QED
  BY <1>5, <1>8, <1>9, <1>10 DEF HostKeysInv, ByMode, OneWriter, WriterKeeps

LEMMA StartKept ==
  ASSUME HostKeysInv, Start
  PROVE  HostKeysInv'
<1>1. /\ running' = TRUE /\ loaded' \in {loaded, known}
      /\ UNCHANGED <<mode, autoFix, known, hostKey, dial, changes, accepted>>
  BY DEF Start
<1>2. HostKeysTypeOK' /\ Keeps(known, accepted)
  BY <1>1 DEF HostKeysInv, HostKeysTypeOK
<1> QED
  BY <1>1, <1>2, FileChanges

LEMMA HostKeysStutter ==
  ASSUME HostKeysInv, UNCHANGED hostkeys
  PROVE  HostKeysInv'
BY DEF hostkeys, HostKeysInv, HostKeysTypeOK, ByMode, OneWriter, WriterKeeps

\* Every step of the dials, the hosts, the operator and the process keeps the
\* invariant.
LEMMA HostKeysStep == HostKeysInv /\ [HostKeysNext]_hostkeys => HostKeysInv'
<1> SUFFICES ASSUME HostKeysInv, [HostKeysNext]_hostkeys PROVE HostKeysInv'
  OBVIOUS
<1>1. ASSUME NEW d \in Dials, NEW e \in Endpoints, Dial(d, e) PROVE HostKeysInv'
  BY <1>1, DialKept
<1>2. ASSUME NEW d \in Dials, ReadKnownHosts(d) PROVE HostKeysInv'
  BY <1>2, ReadKept
<1>3. ASSUME NEW d \in Dials, WriteKnownHosts(d) PROVE HostKeysInv'
  BY <1>3, WriteKept
<1>4. ASSUME NEW d \in Dials, RetryDial(d) PROVE HostKeysInv'
  BY <1>4, RetryKept
<1>5. ASSUME NEW d \in Dials, Hangup(d) PROVE HostKeysInv'
  BY <1>5, HangupKept
<1>6. ASSUME NEW d \in Dials, NEW reached \in BOOLEAN, FetchHostKey(d, reached) PROVE HostKeysInv'
  BY <1>6, FetchKept
<1>7. ASSUME NEW e \in Endpoints, OperatorAdds(e) PROVE HostKeysInv'
  BY <1>7, AddsKept
<1>8. ASSUME NEW e \in Endpoints, OperatorRemoves(e) PROVE HostKeysInv'
  BY <1>8, RemovesKept
<1>9. ASSUME NEW e \in Endpoints, NEW k \in Keys, RotateHostKey(e, k) PROVE HostKeysInv'
  BY <1>9, RotateKept
<1>10. CASE Stop
  BY <1>10, StopKept
<1>11. CASE Start
  BY <1>11, StartKept
<1>12. CASE UNCHANGED hostkeys
  BY <1>12, HostKeysStutter
<1> QED
  BY <1>1, <1>2, <1>3, <1>4, <1>5, <1>6, <1>7, <1>8, <1>9, <1>10, <1>11, <1>12 DEF HostKeysNext

LEMMA KeptFollows == HostKeysInv => AcceptedKept
<1> SUFFICES ASSUME HostKeysInv PROVE AcceptedKept
  OBVIOUS
<1>1. Keeps(known, accepted) /\ known \in Seq(Line)
  BY DEF HostKeysInv, HostKeysTypeOK
<1>2. DOMAIN known = 1 .. Len(known)
  BY <1>1, LenProperties
<1> QED
  BY <1>1, <1>2 DEF Keeps, AcceptedKept, ToSet

-------------------------------------------------------------------------------
(***************************************************************************)
(* Answers of up to five packets.                                          *)
(***************************************************************************)
LEMMA Taken1 == \A a : Head(<<a>>) = a /\ Tail(<<a>>) = <<>> /\ <<a>> # <<>> /\ Len(<<a>>) = 1
OBVIOUS

LEMMA Taken2 == \A a, b : Head(<<a, b>>) = a /\ Tail(<<a, b>>) = <<b>> /\ <<a, b>> # <<>> /\ Len(<<a, b>>) = 2
OBVIOUS

LEMMA Taken3 == \A a, b, c : Head(<<a, b, c>>) = a /\ Tail(<<a, b, c>>) = <<b, c>> /\ <<a, b, c>> # <<>> /\ Len(<<a, b, c>>) = 3
OBVIOUS

LEMMA Taken4 == \A a, b, c, d : Head(<<a, b, c, d>>) = a /\ Tail(<<a, b, c, d>>) = <<b, c, d>> /\ <<a, b, c, d>> # <<>> /\ Len(<<a, b, c, d>>) = 4
OBVIOUS

LEMMA Taken5 == \A a, b, c, d, e : Head(<<a, b, c, d, e>>) = a /\ Tail(<<a, b, c, d, e>>) = <<b, c, d, e>> /\ <<a, b, c, d, e>> # <<>> /\ Len(<<a, b, c, d, e>>) = 5
OBVIOUS

-------------------------------------------------------------------------------
(***************************************************************************)
(* The relay of an answer of MySQL.                                        *)
(***************************************************************************)
LEMMA FitsEnd ==
  ASSUME NEW o
  PROVE  Fits(Idle, <<>>, o) /\ Fits(At("infile", 0), <<>>, o)
BY DEF Fits, Idle, At, Phases, Expected

LEMMA FitsFirst ==
  ASSUME NEW o, NEW a \in Results \cup {Cursor, Incomplete} \cup Strange,
         a \in {Cursor, Incomplete} \cup Strange => o
  PROVE  Fits(At("first", 0), a, o)
<1>1. At("first", 0).at = "first" /\ At("first", 0).n = 0 /\ At("first", 0) \in Phases
  BY DEF At, Phases
<1>2. Expected("first", 0) = Results \cup {Cursor, Incomplete} \cup Strange
  BY DEF Expected
<1> QED
  BY <1>1, <1>2 DEF Fits

\* None of the answers that are followed is one that is not.
LEMMA ResultsFollowed ==
  ASSUME NEW a \in Results
  PROVE  a # Cursor /\ a # Incomplete /\ a \notin Strange
<1>1. a # Cursor /\ a # Incomplete
  BY DEF Results, Cursor, Incomplete
<1>2. a \notin Strange
  BY DEF Results, Strange
<1> QED
  BY <1>1, <1>2

LEMMA FitsDefs ==
  ASSUME NEW o, NEW n \in {1, 2}, NEW a \in Definitions(n), a \in Unfollowed => o
  PROVE  Fits(At("defs", n), a, o)
<1>1. At("defs", n).at = "defs" /\ At("defs", n).n = n /\ At("defs", n) \in Phases
  BY DEF At, Phases
<1>2. Expected("defs", n) = Definitions(n)
  BY DEF Expected
<1> QED
  BY <1>1, <1>2 DEF Fits

\* What is read as a number of columns is not followed by anything.
LEMMA FitsMiscount ==
  ASSUME NEW o, o
  PROVE  Fits(At("defs", Miscount), <<>>, o)
<1>1. At("defs", Miscount).at = "defs" /\ At("defs", Miscount).n = Miscount /\ At("defs", Miscount) \in Phases
  BY DEF At, Phases, Miscount
<1>2. <<>> \in Expected("defs", Miscount)
  BY DEF Expected, Definitions, Miscount
<1> QED
  BY <1>1, <1>2 DEF Fits

LEMMA StrangeTaken ==
  ASSUME NEW a \in Strange
  PROVE  Head(a) \in {"stats", "switch"} /\ Tail(a) = <<>> /\ a # <<>> /\ a \in Seq(Packets)
<1>1. {"stats", "switch"} \subseteq Packets
  BY DEF Packets
<1>2. <<"stats">> \in Seq(Packets) /\ <<"switch">> \in Seq(Packets)
  BY <1>1
<1> QED
  BY <1>2, Taken1 DEF Strange

LEMMA FitsRows ==
  ASSUME NEW o, NEW a \in Rows \cup {<<"eof">>}, a = <<>> => o
  PROVE  Fits(At("rows", 0), a, o)
<1>1. At("rows", 0).at = "rows" /\ At("rows", 0).n = 0 /\ At("rows", 0) \in Phases
  BY DEF At, Phases
<1>2. Expected("rows", 0) = Rows \cup {<<"eof">>}
  BY DEF Expected
<1> QED
  BY <1>1, <1>2 DEF Fits

LEMMA FitsExact ==
  ASSUME NEW o, NEW n \in 1 .. 4, NEW a \in Announced(n)
  PROVE  Fits(At("exact", n), a, o)
<1>1. At("exact", n).at = "exact" /\ At("exact", n).n = n /\ At("exact", n) \in Phases
  BY DEF At, Phases
<1>2. Expected("exact", n) = Announced(n)
  BY DEF Expected
<1> QED
  BY <1>1, <1>2 DEF Fits

LEMMA FitsOther ==
  ASSUME NEW o, NEW at \in {"prepare", "fields", "afterinfile"}, NEW a \in Expected(at, 0)
  PROVE  Fits(At(at, 0), a, o)
<1>1. At(at, 0).at = at /\ At(at, 0).n = 0 /\ At(at, 0) \in Phases
  BY DEF At, Phases
<1> QED
  BY <1>1 DEF Fits

\* The first packet of an answer, and what is left then.
LEMMA FirstTaken ==
  ASSUME NEW a \in Results \cup {Cursor}
  PROVE  \/ Head(a) \in {"ok", "err"} /\ Tail(a) = <<>>
         \/ Head(a) = "infile" /\ Tail(a) = <<>>
         \/ Head(a) = "okmore" /\ Tail(a) = <<"ok">>
         \/ Head(a) = "cols" /\ Tail(a) \in Definitions(2) /\ (Tail(a) \in Unfollowed => a = Cursor)
<1>1. CASE a = <<"ok">>
  BY <1>1, Taken1
<1>2. CASE a = <<"err">>
  BY <1>2, Taken1
<1>3. CASE a = <<"infile">>
  BY <1>3, Taken1
<1>4. CASE a = <<"okmore", "ok">>
  BY <1>4, Taken2
<1>5. CASE a = <<"cols", "def", "eof", "row", "eof">>
  <2>1. Head(a) = "cols" /\ Tail(a) = <<"def", "eof", "row", "eof">>
    BY <1>5, Taken5
  <2> QED
    BY <2>1 DEF Definitions, Unfollowed
<1>6. CASE a = <<"cols", "def", "eof", "err">>
  <2>1. Head(a) = "cols" /\ Tail(a) = <<"def", "eof", "err">>
    BY <1>6, Taken4
  <2> QED
    BY <2>1 DEF Definitions, Unfollowed
<1>7. CASE a = <<"cols", "def", "eof", "eofmore", "err">>
  <2>1. Head(a) = "cols" /\ Tail(a) = <<"def", "eof", "eofmore", "err">>
    BY <1>7, Taken5
  <2> QED
    BY <2>1 DEF Definitions, Unfollowed
<1>8. CASE a = <<"cols", "def", "eof">>
  <2>1. Head(a) = "cols" /\ Tail(a) = <<"def", "eof">> /\ a = Cursor
    BY <1>8, Taken3 DEF Cursor
  <2> QED
    BY <2>1 DEF Definitions, Unfollowed
<1> QED
  BY <1>1, <1>2, <1>3, <1>4, <1>5, <1>6, <1>7, <1>8 DEF Results, Cursor

\* A definition, and what is left then.
LEMMA DefinitionTaken ==
  /\ \A a \in Definitions(2) : Tail(a) \in Definitions(1) /\ (Tail(a) \in Unfollowed => a \in Unfollowed)
  /\ \A a \in Definitions(1) : Tail(a) \in Rows /\ (Tail(a) = <<>> => a \in Unfollowed)
<1>1. ASSUME NEW a \in Definitions(2)
      PROVE  Tail(a) \in Definitions(1) /\ (Tail(a) \in Unfollowed => a \in Unfollowed)
  <2>1. CASE a = <<"def", "eof", "row", "eof">>
    <3>1. Tail(a) = <<"eof", "row", "eof">>
      BY <2>1, Taken4
    <3> QED
      BY <3>1 DEF Definitions, Unfollowed
  <2>2. CASE a = <<"def", "eof", "err">>
    <3>1. Tail(a) = <<"eof", "err">>
      BY <2>2, Taken3
    <3> QED
      BY <3>1 DEF Definitions, Unfollowed
  <2>3. CASE a = <<"def", "eof", "eofmore", "err">>
    <3>1. Tail(a) = <<"eof", "eofmore", "err">>
      BY <2>3, Taken4
    <3> QED
      BY <3>1 DEF Definitions, Unfollowed
  <2>4. CASE a = <<"def", "eof">>
    <3>1. Tail(a) = <<"eof">>
      BY <2>4, Taken2
    <3> QED
      BY <2>4, <3>1 DEF Definitions, Unfollowed
  <2> QED
    BY <2>1, <2>2, <2>3, <2>4 DEF Definitions
<1>2. ASSUME NEW a \in Definitions(1)
      PROVE  Tail(a) \in Rows /\ (Tail(a) = <<>> => a \in Unfollowed)
  <2>1. CASE a = <<"eof", "row", "eof">>
    <3>1. Tail(a) = <<"row", "eof">>
      BY <2>1, Taken3
    <3> QED
      BY <3>1, Taken2 DEF Rows
  <2>2. CASE a = <<"eof", "err">>
    <3>1. Tail(a) = <<"err">>
      BY <2>2, Taken2
    <3> QED
      BY <3>1, Taken1 DEF Rows
  <2>3. CASE a = <<"eof", "eofmore", "err">>
    <3>1. Tail(a) = <<"eofmore", "err">>
      BY <2>3, Taken3
    <3> QED
      BY <3>1, Taken2 DEF Rows
  <2>4. CASE a = <<"eof">>
    <3>1. Tail(a) = <<>>
      BY <2>4, Taken1
    <3> QED
      BY <2>4, <3>1 DEF Rows, Unfollowed
  <2> QED
    BY <2>1, <2>2, <2>3, <2>4 DEF Definitions
<1> QED
  BY <1>1, <1>2

\* The relay reads a packet, and what is left fits what it waits for next.
LEMMA RelayFits ==
  ASSUME Fits(phase, answer, odd), phase.at \notin {"idle", "infile"}, answer # <<>>
  PROVE  Fits(NextPhase(Head(answer)), Tail(answer), odd)
<1>0. /\ phase \in Phases /\ answer \in Expected(phase.at, phase.n) /\ phase.n \in Nat
      /\ phase.at \in {"first", "defs", "rows", "afterinfile", "prepare", "exact", "fields"}
      /\ phase.at \notin {"defs", "exact"} => phase.n = 0
  BY DEF Fits, Phases
<1>1. CASE phase.at \in {"first", "afterinfile"}
  <2>1. answer \in Results \cup {Cursor} \cup Strange /\ (answer \in {Cursor} \cup Strange => odd)
    <3>1. CASE phase.at = "first"
      BY <1>0, <3>1 DEF Fits, Expected, Incomplete
    <3>2. CASE phase.at = "afterinfile"
      <4>1. answer \in {<<"ok">>, <<"err">>, <<"okmore", "ok">>}
        BY <1>0, <3>2 DEF Expected
      <4> QED
        BY <4>1, ResultsFollowed DEF Results
    <3> QED
      BY <1>1, <3>1, <3>2
  <2>2. NextPhase(Head(answer)) = AfterFirst(Head(answer))
    BY <1>1 DEF NextPhase
  <2>3. CASE Head(answer) \in {"ok", "err"} /\ Tail(answer) = <<>>
    BY <2>2, <2>3, FitsEnd DEF AfterFirst
  <2>4. CASE Head(answer) = "infile" /\ Tail(answer) = <<>>
    BY <2>2, <2>4, FitsEnd DEF AfterFirst
  <2>5. CASE Head(answer) = "okmore" /\ Tail(answer) = <<"ok">>
    <3>1. <<"ok">> \in Results
      BY DEF Results
    <3>2. AfterFirst(Head(answer)) = At("first", 0)
      BY <2>5 DEF AfterFirst
    <3>3. Fits(At("first", 0), <<"ok">>, odd)
      BY <3>1, FitsFirst, ResultsFollowed
    <3> QED
      BY <2>2, <2>5, <3>2, <3>3
  <2>6. CASE Head(answer) = "cols" /\ Tail(answer) \in Definitions(2) /\ (Tail(answer) \in Unfollowed => answer = Cursor)
    <3>1. AfterFirst(Head(answer)) = At("defs", 2)
      BY <2>6 DEF AfterFirst
    <3>2. Fits(At("defs", 2), Tail(answer), odd)
      BY <2>1, <2>6, FitsDefs
    <3> QED
      BY <2>2, <3>1, <3>2
  <2>7. CASE answer \in Strange
    <3>1. AfterFirst(Head(answer)) = At("defs", Miscount) /\ Tail(answer) = <<>>
      BY <2>7, StrangeTaken DEF AfterFirst
    <3>2. Fits(At("defs", Miscount), <<>>, odd)
      BY <2>1, <2>7, FitsMiscount
    <3> QED
      BY <2>2, <3>1, <3>2
  <2> QED
    BY <2>1, <2>3, <2>4, <2>5, <2>6, <2>7, FirstTaken
<1>2. CASE phase.at = "defs"
  <2>1. answer \in Definitions(phase.n) /\ (answer \in Unfollowed => odd)
    BY <1>0, <1>2 DEF Fits, Expected
  <2>2. NextPhase(Head(answer)) = IF phase.n > 1 THEN At("defs", phase.n - 1) ELSE At("rows", 0)
    BY <1>2 DEF NextPhase, CountedOff
  <2>3. CASE phase.n = 2
    <3>1. NextPhase(Head(answer)) = At("defs", 1)
      BY <2>2, <2>3
    <3>2. Tail(answer) \in Definitions(1) /\ (Tail(answer) \in Unfollowed => odd)
      BY <2>1, <2>3, DefinitionTaken
    <3> QED
      BY <3>1, <3>2, FitsDefs
  <2>4. CASE phase.n = 1
    <3>1. NextPhase(Head(answer)) = At("rows", 0)
      BY <2>2, <2>4
    <3>2. Tail(answer) \in Rows /\ (Tail(answer) = <<>> => odd)
      BY <2>1, <2>4, DefinitionTaken
    <3> QED
      BY <3>1, <3>2, FitsRows
  <2>5. phase.n = 2 \/ phase.n = 1
    BY <2>1 DEF Definitions, Miscount
  <2> QED
    BY <2>3, <2>4, <2>5
<1>3. CASE phase.at = "rows"
  <2>1. answer \in {<<"row", "eof">>, <<"err">>, <<"eofmore", "err">>, <<"eof">>}
    BY <1>0, <1>3 DEF Expected, Rows
  <2>2. NextPhase(Head(answer)) = AfterRow(Head(answer))
    BY <1>3 DEF NextPhase
  <2>3. CASE answer = <<"row", "eof">>
    <3>1. Head(answer) = "row" /\ Tail(answer) = <<"eof">>
      BY <2>3, Taken2
    <3>2. AfterRow(Head(answer)) = At("rows", 0)
      BY <3>1 DEF AfterRow
    <3>3. <<"eof">> # <<>>
      OBVIOUS
    <3>4. Fits(At("rows", 0), <<"eof">>, odd)
      BY <3>3, FitsRows
    <3> QED
      BY <2>2, <3>1, <3>2, <3>4
  <2>4. CASE answer = <<"eofmore", "err">>
    <3>1. Head(answer) = "eofmore" /\ Tail(answer) = <<"err">>
      BY <2>4, Taken2
    <3>2. AfterRow(Head(answer)) = At("first", 0)
      BY <3>1 DEF AfterRow
    <3>3. <<"err">> \in Results
      BY DEF Results
    <3>4. Fits(At("first", 0), <<"err">>, odd)
      BY <3>3, FitsFirst, ResultsFollowed
    <3> QED
      BY <2>2, <3>1, <3>2, <3>4
  <2>5. CASE answer \in {<<"err">>, <<"eof">>}
    <3>1. Head(answer) \in {"err", "eof"} /\ Tail(answer) = <<>>
      BY <2>5, Taken1
    <3>2. AfterRow(Head(answer)) = Idle
      BY <3>1 DEF AfterRow
    <3> QED
      BY <2>2, <3>1, <3>2, FitsEnd
  <2> QED
    BY <2>1, <2>3, <2>4, <2>5
<1>4. CASE phase.at = "prepare"
  <2>1. answer \in {<<"err">>, <<"prepared">>, <<"prepared", "def", "eof">>, <<"prepared", "def", "eof", "def", "eof">>}
    BY <1>0, <1>4 DEF Expected
  <2>2. NextPhase(Head(answer)) = IF Head(answer) = "err" \/ Len(answer) = 1 THEN Idle ELSE At("exact", Len(answer) - 1)
    BY <1>4 DEF NextPhase, AfterPrepare
  <2>3. CASE answer \in {<<"err">>, <<"prepared">>}
    <3>1. Tail(answer) = <<>> /\ Len(answer) = 1
      BY <2>3, Taken1
    <3> QED
      BY <2>2, <3>1, FitsEnd
  <2>4. CASE answer = <<"prepared", "def", "eof">>
    <3>1. Head(answer) = "prepared" /\ Tail(answer) = <<"def", "eof">> /\ Len(answer) = 3
      BY <2>4, Taken3
    <3>2. NextPhase(Head(answer)) = At("exact", 2)
      BY <2>2, <3>1
    <3>3. Tail(answer) \in Announced(2)
      BY <3>1 DEF Announced
    <3> QED
      BY <3>2, <3>3, FitsExact
  <2>5. CASE answer = <<"prepared", "def", "eof", "def", "eof">>
    <3>1. Head(answer) = "prepared" /\ Tail(answer) = <<"def", "eof", "def", "eof">> /\ Len(answer) = 5
      BY <2>5, Taken5
    <3>2. NextPhase(Head(answer)) = At("exact", 4)
      BY <2>2, <3>1
    <3>3. Tail(answer) \in Announced(4)
      BY <3>1 DEF Announced
    <3> QED
      BY <3>2, <3>3, FitsExact
  <2> QED
    BY <2>1, <2>3, <2>4, <2>5
<1>5. CASE phase.at = "exact"
  <2>1. answer \in Announced(phase.n)
    BY <1>0, <1>5 DEF Expected
  <2>2. NextPhase(Head(answer)) = IF phase.n > 1 THEN At("exact", phase.n - 1) ELSE Idle
    BY <1>5 DEF NextPhase, CountedOff
  <2>3. CASE phase.n = 4
    <3>1. Tail(answer) = <<"eof", "def", "eof">>
      <4>1. answer = <<"def", "eof", "def", "eof">>
        BY <2>1, <2>3 DEF Announced
      <4> QED
        BY <4>1, Taken4
    <3>2. NextPhase(Head(answer)) = At("exact", 3) /\ Tail(answer) \in Announced(3)
      BY <2>2, <2>3, <3>1 DEF Announced
    <3> QED
      BY <3>2, FitsExact
  <2>4. CASE phase.n = 3
    <3>1. Tail(answer) = <<"def", "eof">>
      <4>1. answer = <<"eof", "def", "eof">>
        BY <2>1, <2>4 DEF Announced
      <4> QED
        BY <4>1, Taken3
    <3>2. NextPhase(Head(answer)) = At("exact", 2) /\ Tail(answer) \in Announced(2)
      BY <2>2, <2>4, <3>1 DEF Announced
    <3> QED
      BY <3>2, FitsExact
  <2>5. CASE phase.n = 2
    <3>1. Tail(answer) = <<"eof">>
      <4>1. answer = <<"def", "eof">>
        BY <2>1, <2>5 DEF Announced
      <4> QED
        BY <4>1, Taken2
    <3>2. NextPhase(Head(answer)) = At("exact", 1) /\ Tail(answer) \in Announced(1)
      BY <2>2, <2>5, <3>1 DEF Announced
    <3> QED
      BY <3>2, FitsExact
  <2>6. CASE phase.n = 1
    <3>1. Tail(answer) = <<>>
      <4>1. answer = <<"eof">>
        BY <2>1, <2>6 DEF Announced
      <4> QED
        BY <4>1, Taken1
    <3>2. NextPhase(Head(answer)) = Idle
      BY <2>2, <2>6
    <3> QED
      BY <3>1, <3>2, FitsEnd
  <2>7. phase.n = 4 \/ phase.n = 3 \/ phase.n = 2 \/ phase.n = 1
    BY <2>1 DEF Announced
  <2> QED
    BY <2>3, <2>4, <2>5, <2>6, <2>7
<1>6. CASE phase.at = "fields"
  <2>1. answer \in {<<"def", "eof">>, <<"eof">>, <<"err">>}
    BY <1>0, <1>6 DEF Expected
  <2>2. NextPhase(Head(answer)) = IF Head(answer) \in {"eof", "err"} THEN Idle ELSE phase
    BY <1>6 DEF NextPhase
  <2>3. CASE answer = <<"def", "eof">>
    <3>1. Head(answer) = "def" /\ Tail(answer) = <<"eof">>
      BY <2>3, Taken2
    <3>2. phase = At("fields", 0)
      BY <1>0, <1>6 DEF At, Phases
    <3>3. <<"eof">> \in Expected("fields", 0)
      BY DEF Expected
    <3> QED
      BY <2>2, <3>1, <3>2, <3>3, FitsOther
  <2>4. CASE answer \in {<<"eof">>, <<"err">>}
    <3>1. Head(answer) \in {"eof", "err"} /\ Tail(answer) = <<>>
      BY <2>4, Taken1
    <3> QED
      BY <2>2, <3>1, FitsEnd
  <2> QED
    BY <2>1, <2>3, <2>4
<1> QED
  BY <1>0, <1>1, <1>2, <1>3, <1>4, <1>5, <1>6

\* No packet of an answer brings the relay to the beginning of a preparation.
LEMMA RelayLeaves ==
  ASSUME Fits(phase, answer, odd), phase.at \notin {"idle", "infile"}, answer # <<>>
  PROVE  NextPhase(Head(answer)).at # "prepare"
<1>0. /\ answer \in Expected(phase.at, phase.n)
      /\ phase.at \in {"first", "defs", "rows", "afterinfile", "prepare", "exact", "fields"}
  BY DEF Fits, Phases
<1>1. CASE phase.at \in {"first", "afterinfile"}
  <2>1. answer \in Results \cup {Cursor} \cup Strange
    BY <1>0, <1>1 DEF Expected, Results, Incomplete
  <2>2. Head(answer) \in {"ok", "err", "okmore", "infile", "cols", "stats", "switch"}
    BY <2>1, FirstTaken, StrangeTaken
  <2>3. NextPhase(Head(answer)) = AfterFirst(Head(answer))
    BY <1>1 DEF NextPhase
  <2> QED
    BY <2>2, <2>3 DEF AfterFirst, At, Idle
<1>2. CASE phase.at \in {"defs", "exact"}
  BY <1>2 DEF NextPhase, CountedOff, At, Idle
<1>3. CASE phase.at = "rows"
  <2>1. answer \in {<<"row", "eof">>, <<"err">>, <<"eofmore", "err">>, <<"eof">>}
    BY <1>0, <1>3 DEF Expected, Rows
  <2>2. Head(answer) \in {"row", "err", "eofmore", "eof"}
    BY <2>1, Taken1, Taken2
  <2>3. NextPhase(Head(answer)) = AfterRow(Head(answer))
    BY <1>3 DEF NextPhase
  <2> QED
    BY <2>2, <2>3 DEF AfterRow, At, Idle
<1>4. CASE phase.at = "prepare"
  BY <1>4 DEF NextPhase, AfterPrepare, At, Idle
<1>5. CASE phase.at = "fields"
  BY <1>5 DEF NextPhase, Idle
<1> QED
  BY <1>0, <1>1, <1>2, <1>3, <1>4, <1>5

-------------------------------------------------------------------------------
(***************************************************************************)
(* The start of a connection.                                              *)
(***************************************************************************)
LEMMA NoPortalTyped ==
  NoPortal \in [of : Refs, text : Text, fresh : BOOLEAN] /\ ~NoPortal.fresh /\ NoPortal.of = 0
BY DEF NoPortal, Refs, Text

LEMMA StatementStart == StatementInit => StatementInv
<1> SUFFICES ASSUME StatementInit PROVE StatementInv
  OBVIOUS
<1>1. /\ proto \in {"postgres", "mysql", "mssql", "redis"}
      /\ cache = [r \in Refs |-> Nothing] /\ stmts = [r \in Refs |-> Nothing] /\ template = Nothing
      /\ portals = [r \in Refs |-> NoPortal] /\ stale = {} /\ owner = 0 /\ preparing = <<0, Nothing>>
      /\ startup = TRUE /\ probes = 0 /\ phase = Idle /\ answer = <<>> /\ odd = FALSE /\ messages = 0
      /\ last = [ran |-> Nothing, logged |-> Nothing, plain |-> TRUE] /\ authed \in BOOLEAN
  BY DEF StatementInit
<1>2. Nothing \in Text /\ 0 \in Refs /\ Idle \in Phases /\ Idle.at = "idle"
  BY DEF Text, Refs, Idle, Phases
<1>3. StatementTypeOK
  <2>1. cache \in [Refs -> Text] /\ stmts \in [Refs -> Text] /\ template \in Text
    BY <1>1, <1>2
  <2>2. portals \in [Refs -> [of : Refs, text : Text, fresh : BOOLEAN]]
    BY <1>1, NoPortalTyped
  <2>3. stale \subseteq Refs /\ owner \in Refs /\ preparing \in Refs \X Text
    BY <1>1, <1>2
  <2>4. probes \in 0 .. ProbeLimit /\ messages \in 0 .. MaxMessages
    BY <1>1
  <2>5. phase \in Phases /\ answer \in Seq(Packets)
    BY <1>1, <1>2
  <2>6. last \in [ran : Text, logged : Text, plain : BOOLEAN]
    BY <1>1, <1>2
  <2>7. startup \in BOOLEAN /\ authed \in BOOLEAN /\ odd \in BOOLEAN
    BY <1>1
  <2> QED
    BY <1>1, <2>1, <2>2, <2>3, <2>4, <2>5, <2>6, <2>7 DEF StatementTypeOK
<1>4. AnswersExpected
  <2>1. Fits(phase, answer, odd)
    BY <1>1, FitsEnd
  <2>2. <<>> \in Seq({"reply"})
    OBVIOUS
  <2> QED
    BY <1>1, <2>1, <2>2 DEF AnswersExpected
<1>5. TextsKnown
  <2>1. \A r \in Refs : stmts[r] = Nothing /\ ~portals[r].fresh
    BY <1>1, NoPortalTyped
  <2>2. PgKnows
    BY <2>1 DEF PgKnows
  <2>3. MsKnows
    BY <1>1, <1>2, <2>1 DEF MsKnows
  <2>4. MyKnows
    BY <1>1, <1>2, <2>1 DEF MyKnows, Awaited
  <2> QED
    BY <2>2, <2>3, <2>4 DEF TextsKnown
<1>6. LoggedIsRun
  BY <1>1 DEF LoggedIsRun
<1> QED
  BY <1>3, <1>4, <1>5, <1>6 DEF StatementInv

-------------------------------------------------------------------------------
(***************************************************************************)
(* PostgreSQL.                                                             *)
(***************************************************************************)
Portal == [of : Refs, text : Text, fresh : BOOLEAN]

Logs == [ran : Text, logged : Text, plain : BOOLEAN]

\* A message leaves the bound on them.
LEMMA MessageCounted ==
  ASSUME StatementTypeOK, NEW p, Message(p)
  PROVE  /\ proto = p /\ proto' = proto /\ phase = Idle /\ messages' \in 0 .. MaxMessages
<1>1. messages \in 0 .. MaxMessages /\ messages < MaxMessages /\ messages' = messages + 1
  BY DEF StatementTypeOK, Message
<1>2. messages' \in 0 .. MaxMessages
  BY <1>1
<1> QED
  BY <1>2 DEF Message

LEMMA LogTyped ==
  ASSUME NEW ran \in Text, NEW logged \in Text, NEW plain \in BOOLEAN, Recorded(ran, logged, plain),
         plain => logged = ran
  PROVE  last' \in Logs /\ LoggedIsRun'
BY DEF Recorded, Logs, LoggedIsRun

LEMMA UnrecordedTyped ==
  ASSUME Unrecorded
  PROVE  last' \in Logs /\ LoggedIsRun'
BY DEF Unrecorded, Recorded, Logs, LoggedIsRun, Text

LEMMA MeantTyped ==
  ASSUME NEW t \in Text
  PROVE  Meant(t) \in Text
BY DEF Meant, Text

LEMMA PgConcludes ==
  ASSUME StatementInv, Message("postgres"), UNCHANGED pgRest,
         cache' \in [Refs -> Text], stmts' \in [Refs -> Text], portals' \in [Refs -> Portal], stale' \subseteq Refs,
         last' \in Logs, LoggedIsRun', PgKnows'
  PROVE  StatementInv'
<1>1. proto = "postgres" /\ proto' = proto /\ phase = Idle /\ messages' \in 0 .. MaxMessages
  BY MessageCounted DEF StatementInv
<1>2. /\ template' = template /\ owner' = owner /\ preparing' = preparing /\ startup' = startup /\ probes' = probes
      /\ authed' = authed /\ phase' = phase /\ answer' = answer /\ odd' = odd
  BY DEF pgRest
<1>3. StatementTypeOK'
  BY <1>1, <1>2 DEF StatementInv, StatementTypeOK, Portal, Logs
<1>4. AnswersExpected'
  BY <1>1, <1>2 DEF StatementInv, AnswersExpected
<1>5. TextsKnown'
  BY <1>1 DEF TextsKnown
<1> QED
  BY <1>3, <1>4, <1>5 DEF StatementInv

\* What the proxy and the server know, in one place.
LEMMA PgState ==
  ASSUME StatementInv, Message("postgres")
  PROVE  /\ cache \in [Refs -> Text] /\ stmts \in [Refs -> Text] /\ portals \in [Refs -> Portal]
         /\ stale \subseteq Refs /\ PgKnows
<1>1. proto = "postgres"
  BY DEF Message
<1> QED
  BY <1>1 DEF StatementInv, StatementTypeOK, TextsKnown, Portal

LEMMA PgQueryKept ==
  ASSUME StatementInv, NEW t \in Texts \cup {Blank}, PgQuery(t)
  PROVE  StatementInv'
<1>1. /\ Message("postgres") /\ Recorded(Meant(t), Meant(t), TRUE)
      /\ stmts' = [stmts EXCEPT ![0] = Nothing] /\ portals' = [portals EXCEPT ![0] = NoPortal]
      /\ cache' = cache /\ stale' = stale /\ UNCHANGED pgRest
  BY DEF PgQuery
<1>2. /\ cache \in [Refs -> Text] /\ stmts \in [Refs -> Text] /\ portals \in [Refs -> Portal]
      /\ stale \subseteq Refs /\ PgKnows
  BY <1>1, PgState
<1>3. Meant(t) \in Text
  BY MeantTyped DEF Text
<1>4. last' \in Logs /\ LoggedIsRun'
  BY <1>1, <1>3, LogTyped
<1>5. stmts' \in [Refs -> Text] /\ portals' \in [Refs -> Portal]
  BY <1>1, <1>2, NoPortalTyped DEF Text, Portal
<1>6. \A r \in Refs : stmts'[r] \in {stmts[r], Nothing} /\ portals'[r] \in {portals[r], NoPortal}
  BY <1>1, <1>2
<1>7. PgKnows'
  BY <1>1, <1>2, <1>6, NoPortalTyped DEF PgKnows
<1> QED
  BY <1>1, <1>2, <1>4, <1>5, <1>7, PgConcludes

LEMMA PgParseKept ==
  ASSUME StatementInv, NEW r \in Refs, NEW t \in Texts \cup {Blank}, PgParse(r, t)
  PROVE  StatementInv'
<1>0. PICK taken \in BOOLEAN : taken = (r # 0 /\ stmts[r] # Nothing)
  OBVIOUS
<1>1. /\ Message("postgres") /\ Unrecorded /\ UNCHANGED pgRest /\ cache' = Stored(r, t)
      /\ stmts' = IF taken THEN stmts ELSE [stmts EXCEPT ![r] = t]
      /\ stale' = IF taken \/ t = Blank THEN stale \cup {r} ELSE stale \ {r}
      /\ portals' = [p \in Refs |-> IF portals[p].of = r THEN [portals[p] EXCEPT !.fresh = FALSE] ELSE portals[p]]
  BY <1>0 DEF PgParse
<1>2. /\ cache \in [Refs -> Text] /\ stmts \in [Refs -> Text] /\ portals \in [Refs -> Portal]
      /\ stale \subseteq Refs /\ PgKnows
  BY <1>1, PgState
<1>3. last' \in Logs /\ LoggedIsRun'
  BY <1>1, UnrecordedTyped
<1>4. t \in Text
  BY DEF Text
<1>5. /\ cache' \in [Refs -> Text] /\ stmts' \in [Refs -> Text] /\ stale' \subseteq Refs
      /\ \A x \in Refs : x # r => cache'[x] = cache[x] /\ stmts'[x] = stmts[x] /\ (x \in stale' <=> x \in stale)
      /\ r \in stale' \/ (stmts'[r] = t /\ cache'[r] = t /\ t # Blank)
  BY <1>1, <1>2, <1>4 DEF Stored
<1>6. ASSUME NEW p \in Refs
      PROVE  /\ portals'[p] \in Portal
             /\ portals[p].of = r => ~portals'[p].fresh
             /\ portals[p].of # r => portals'[p] = portals[p]
  <2>1. portals[p] \in Portal
    BY <1>2
  <2>2. [portals[p] EXCEPT !.fresh = FALSE] \in Portal /\ ~[portals[p] EXCEPT !.fresh = FALSE].fresh
    BY <2>1 DEF Portal
  <2> QED
    BY <1>1, <2>1, <2>2
<1>7. portals' \in [Refs -> Portal]
  BY <1>1, <1>6
<1>8. PgKnows'
  <2>1. ASSUME NEW x \in Refs \ stale', stmts'[x] # Nothing PROVE cache'[x] = stmts'[x] /\ stmts'[x] # Blank
    BY <1>2, <1>5, <2>1 DEF PgKnows
  <2>2. ASSUME NEW p \in Refs \ stale', portals'[p].fresh, portals'[p].of = p
        PROVE  cache'[p] = portals'[p].text /\ portals'[p].text # Blank
    <3>1. portals[p].of # r /\ portals'[p] = portals[p]
      BY <1>6, <2>2
    <3>2. p # r
      BY <2>2, <3>1
    <3> QED
      BY <1>2, <1>5, <2>2, <3>1, <3>2 DEF PgKnows
  <2> QED
    BY <2>1, <2>2 DEF PgKnows
<1> QED
  BY <1>1, <1>3, <1>5, <1>7, <1>8, PgConcludes

LEMMA PgBindKept ==
  ASSUME StatementInv, NEW p \in Refs, NEW r \in Refs, PgBind(p, r)
  PROVE  StatementInv'
<1>1. /\ Message("postgres") /\ Unrecorded /\ UNCHANGED pgRest /\ stmts[r] # Nothing
      /\ portals' = [portals EXCEPT ![p] = [of |-> r, text |-> stmts[r], fresh |-> TRUE]]
      /\ cache' = cache /\ stmts' = stmts /\ stale' = stale
  BY DEF PgBind
<1>2. /\ cache \in [Refs -> Text] /\ stmts \in [Refs -> Text] /\ portals \in [Refs -> Portal]
      /\ stale \subseteq Refs /\ PgKnows
  BY <1>1, PgState
<1>3. last' \in Logs /\ LoggedIsRun'
  BY <1>1, UnrecordedTyped
<1>4. [of |-> r, text |-> stmts[r], fresh |-> TRUE] \in Portal
  BY <1>2 DEF Portal
<1>5. portals' \in [Refs -> Portal]
  BY <1>1, <1>2, <1>4
<1>6. /\ portals'[p].of = r /\ portals'[p].text = stmts[r]
      /\ \A x \in Refs : x # p => portals'[x] = portals[x]
  BY <1>1, <1>2
<1>7. PgKnows'
  <2>1. ASSUME NEW x \in Refs \ stale', portals'[x].fresh, portals'[x].of = x
        PROVE  cache'[x] = portals'[x].text /\ portals'[x].text # Blank
    <3>1. CASE x = p
      BY <1>1, <1>2, <1>6, <2>1, <3>1 DEF PgKnows
    <3>2. CASE x # p
      BY <1>1, <1>2, <1>6, <2>1, <3>2 DEF PgKnows
    <3> QED
      BY <3>1, <3>2
  <2> QED
    BY <1>1, <1>2, <2>1 DEF PgKnows
<1> QED
  BY <1>1, <1>2, <1>3, <1>5, <1>7, PgConcludes

LEMMA PgExecuteKept ==
  ASSUME StatementInv, NEW p \in Refs, PgExecute(p)
  PROVE  StatementInv'
<1>1. /\ Message("postgres") /\ UNCHANGED pgRest /\ cache' = cache /\ stmts' = stmts /\ portals' = portals
      /\ stale' = stale
      /\ Recorded(Meant(portals[p].text), cache[p], portals[p].fresh /\ portals[p].of = p /\ p \notin stale)
  BY DEF PgExecute
<1>2. /\ cache \in [Refs -> Text] /\ stmts \in [Refs -> Text] /\ portals \in [Refs -> Portal]
      /\ stale \subseteq Refs /\ PgKnows
  BY <1>1, PgState
<1>3. PICK plain \in BOOLEAN : plain = (portals[p].fresh /\ portals[p].of = p /\ p \notin stale)
  BY <1>2 DEF Portal
<1>4. portals[p].text \in Text /\ cache[p] \in Text
  BY <1>2 DEF Portal
<1>5. plain => cache[p] = Meant(portals[p].text)
  BY <1>2, <1>3 DEF PgKnows, Meant
<1>6. last' \in Logs /\ LoggedIsRun'
  BY <1>1, <1>3, <1>4, <1>5, MeantTyped, LogTyped
<1>7. PgKnows'
  BY <1>1, <1>2 DEF PgKnows
<1> QED
  BY <1>1, <1>2, <1>6, <1>7, PgConcludes

LEMMA PgCloseKept ==
  ASSUME StatementInv, NEW target \in {"statement", "portal"}, NEW r \in Refs, PgClose(target, r)
  PROVE  StatementInv'
<1>1. Message("postgres") /\ Unrecorded /\ UNCHANGED pgRest
  BY DEF PgClose
<1>2. /\ cache \in [Refs -> Text] /\ stmts \in [Refs -> Text] /\ portals \in [Refs -> Portal]
      /\ stale \subseteq Refs /\ PgKnows
  BY <1>1, PgState
<1>3. last' \in Logs /\ LoggedIsRun'
  BY <1>1, UnrecordedTyped
<1>4. CASE target = "statement"
  <2>1. /\ cache' = Deleted(r) /\ stmts' = [stmts EXCEPT ![r] = Nothing] /\ stale' = stale \ {r}
        /\ portals' = [p \in Refs |-> IF portals[p].of = r THEN NoPortal ELSE portals[p]]
    BY <1>4 DEF PgClose
  <2>2. cache' \in [Refs -> Text] /\ stmts' \in [Refs -> Text] /\ stale' \subseteq Refs /\ portals' \in [Refs -> Portal]
    BY <1>2, <2>1, NoPortalTyped DEF Deleted, Text, Portal
  <2>3. /\ stmts'[r] = Nothing
        /\ \A x \in Refs : x # r => cache'[x] = cache[x] /\ stmts'[x] = stmts[x] /\ (x \in stale' <=> x \in stale)
    BY <1>2, <2>1 DEF Deleted
  <2>4. ASSUME NEW x \in Refs \ stale', portals'[x].fresh, portals'[x].of = x
        PROVE  cache'[x] = portals'[x].text /\ portals'[x].text # Blank
    <3>1. portals'[x] = portals[x] /\ portals[x].of # r
      BY <2>1, <2>4, NoPortalTyped
    <3>2. x # r
      BY <2>4, <3>1
    <3> QED
      BY <1>2, <2>3, <2>4, <3>1, <3>2 DEF PgKnows
  <2>5. PgKnows'
    BY <1>2, <2>3, <2>4 DEF PgKnows
  <2> QED
    BY <1>1, <1>3, <2>2, <2>5, PgConcludes
<1>5. CASE target = "portal"
  <2>1. portals' = [portals EXCEPT ![r] = NoPortal] /\ cache' = cache /\ stmts' = stmts /\ stale' = stale
    BY <1>5 DEF PgClose
  <2>2. portals' \in [Refs -> Portal] /\ \A x \in Refs : portals'[x] \in {portals[x], NoPortal}
    BY <1>2, <2>1, NoPortalTyped DEF Portal
  <2>3. PgKnows'
    BY <1>2, <2>1, <2>2, NoPortalTyped DEF PgKnows
  <2> QED
    BY <1>1, <1>2, <1>3, <2>1, <2>2, <2>3, PgConcludes
<1> QED
  BY <1>4, <1>5

-------------------------------------------------------------------------------
(***************************************************************************)
(* SQL Server.                                                             *)
(***************************************************************************)
LEMMA MsConcludes ==
  ASSUME StatementInv, Message("mssql"), UNCHANGED msRest,
         template' \in Text, stmts' \in [Refs -> Text], owner' \in Refs,
         last' \in Logs, LoggedIsRun', MsKnows'
  PROVE  StatementInv'
<1>1. proto = "mssql" /\ proto' = proto /\ phase = Idle /\ messages' \in 0 .. MaxMessages
  BY MessageCounted DEF StatementInv
<1>2. /\ cache' = cache /\ portals' = portals /\ stale' = stale /\ preparing' = preparing /\ startup' = startup
      /\ probes' = probes /\ authed' = authed /\ phase' = phase /\ answer' = answer /\ odd' = odd
  BY DEF msRest
<1>3. StatementTypeOK'
  BY <1>1, <1>2 DEF StatementInv, StatementTypeOK, Logs
<1>4. AnswersExpected'
  BY <1>1, <1>2 DEF StatementInv, AnswersExpected
<1>5. TextsKnown'
  BY <1>1 DEF TextsKnown
<1> QED
  BY <1>3, <1>4, <1>5 DEF StatementInv

LEMMA MsState ==
  ASSUME StatementInv, Message("mssql")
  PROVE  template \in Text /\ stmts \in [Refs -> Text] /\ owner \in Refs /\ MsKnows
<1>1. proto = "mssql"
  BY DEF Message
<1> QED
  BY <1>1 DEF StatementInv, StatementTypeOK, TextsKnown

LEMMA MsBatchKept ==
  ASSUME StatementInv, NEW t \in Texts \cup {Blank}, MsBatch(t)
  PROVE  StatementInv'
<1>1. /\ Message("mssql") /\ Recorded(Meant(t), Meant(t), TRUE) /\ UNCHANGED msRest
      /\ template' = template /\ stmts' = stmts /\ owner' = owner
  BY DEF MsBatch
<1>2. template \in Text /\ stmts \in [Refs -> Text] /\ owner \in Refs /\ MsKnows
  BY <1>1, MsState
<1>3. Meant(t) \in Text
  BY MeantTyped DEF Text
<1>4. last' \in Logs /\ LoggedIsRun'
  BY <1>1, <1>3, LogTyped
<1>5. MsKnows'
  BY <1>1, <1>2 DEF MsKnows
<1> QED
  BY <1>1, <1>2, <1>4, <1>5, MsConcludes

\* The scan yields a text, or nothing.
LEMMA ScannedTyped ==
  ASSUME NEW texts
  PROVE  Scanned(texts) \subseteq Texts \cup {Nothing}
<1>1. \A seen : UNION {Runs[t] : t \in seen \cap Texts} \subseteq Texts
  BY ScanAssumption
<1> QED
  BY <1>1 DEF Scanned

LEMMA MsTextKept ==
  ASSUME StatementInv, NEW proc, NEW t \in Texts, NEW value, NEW byName \in BOOLEAN,
         MsText(proc, t, value, byName)
  PROVE  StatementInv'
<1>1. Message("mssql") /\ UNCHANGED msRest
  BY DEF MsText
<1>2. template \in Text /\ stmts \in [Refs -> Text] /\ owner \in Refs /\ MsKnows
  BY <1>1, MsState
<1>3. PICK found \in Texts \cup {Nothing}, r \in Refs, kept \in BOOLEAN, named \in BOOLEAN :
        /\ r # 0 => stmts[r] = Nothing
        /\ stmts' = IF r = 0 THEN stmts ELSE [stmts EXCEPT ![r] = t]
        /\ kept => template' = found /\ owner' = IF found = t THEN r ELSE 0
        /\ ~kept => template' = template /\ owner' = owner
        /\ Recorded(t, IF found = Nothing /\ named THEN template ELSE found, found = t)
  <2>1. PICK new : new = IF proc \in Preparing THEN {x \in Refs \ {0} : stmts[x] = Nothing} ELSE {0}
    OBVIOUS
  <2>2. \A x \in new : x \in Refs /\ (x # 0 => stmts[x] = Nothing)
    BY <2>1 DEF Refs
  <2>3. PICK named \in BOOLEAN : named = (byName \/ proc = "sp_executesql")
    BY Zenon
  <2>4. PICK found \in Scanned({t, value}), r \in {x \in new : \A y \in new : x <= y} :
          /\ stmts' = IF r = 0 THEN stmts ELSE [stmts EXCEPT ![r] = t]
          /\ IF named /\ proc \in Templated /\ found # Nothing
               THEN template' = found /\ owner' = IF found = t THEN r ELSE 0
               ELSE UNCHANGED <<template, owner>>
          /\ Recorded(t, IF found = Nothing /\ named THEN template ELSE found, found = t)
    BY <2>1, <2>3 DEF MsText
  <2>5. found \in Texts \cup {Nothing} /\ r \in Refs /\ (r # 0 => stmts[r] = Nothing)
    BY <2>2, <2>4, ScannedTyped
  <2>6. PICK kept \in BOOLEAN : kept <=> (named /\ proc \in Templated /\ found # Nothing)
    BY Zenon
  <2> QED
    BY <2>3, <2>4, <2>5, <2>6
<1>4. t \in Text /\ t # Nothing /\ found \in Text
  BY StatementAssumption DEF Text
<1>5. last' \in Logs /\ LoggedIsRun'
  <2>1. PICK l \in Text : l = IF found = Nothing /\ named THEN template ELSE found
    BY <1>2, <1>4
  <2>2. PICK plain \in BOOLEAN : plain = (found = t)
    BY Zenon
  <2>3. plain => l = t
    BY <1>4, <2>1, <2>2
  <2> QED
    BY <1>3, <1>4, <2>1, <2>2, <2>3, LogTyped
<1>6. template' \in Text /\ stmts' \in [Refs -> Text] /\ owner' \in Refs
  <2>1. 0 \in Refs
    BY DEF Refs
  <2> QED
    BY <1>2, <1>3, <1>4, <2>1
<1>7. MsKnows'
  <2>1. stmts'[0] = Nothing
    BY <1>2, <1>3 DEF MsKnows, Refs
  <2>2. ASSUME owner' # 0 PROVE stmts'[owner'] # Nothing /\ template' = stmts'[owner']
    <3>1. CASE kept
      <4>1. owner' = r /\ template' = t /\ r # 0
        BY <1>3, <2>2, <3>1
      <4>2. stmts'[r] = t
        BY <1>2, <1>3, <4>1
      <4> QED
        BY <1>4, <4>1, <4>2
    <3>2. CASE ~kept
      <4>1. owner' = owner /\ template' = template /\ owner # 0
        BY <1>3, <2>2, <3>2
      <4>2. stmts[owner] # Nothing /\ template = stmts[owner]
        BY <1>2, <4>1 DEF MsKnows
      <4>3. stmts'[owner] = stmts[owner]
        BY <1>2, <1>3, <4>1, <4>2
      <4> QED
        BY <4>1, <4>2, <4>3
    <3> QED
      BY <3>1, <3>2
  <2> QED
    BY <2>1, <2>2 DEF MsKnows
<1> QED
  BY <1>1, <1>5, <1>6, <1>7, MsConcludes

LEMMA MsExecuteKept ==
  ASSUME StatementInv, NEW r \in Refs, NEW value, NEW byName \in BOOLEAN, MsExecute(r, value, byName)
  PROVE  StatementInv'
<1>1. /\ Message("mssql") /\ UNCHANGED msRest /\ stmts[r] # Nothing
      /\ template' = template /\ stmts' = stmts /\ owner' = owner
  BY DEF MsExecute
<1>2. PICK found \in Texts \cup {Nothing} :
        Recorded(stmts[r], IF found = Nothing /\ byName THEN template ELSE found,
                 found = Nothing /\ byName /\ owner = r)
  BY ScannedTyped DEF MsExecute
<1>3. template \in Text /\ stmts \in [Refs -> Text] /\ owner \in Refs /\ MsKnows
  BY <1>1, MsState
<1>4. PICK l \in Text : l = IF found = Nothing /\ byName THEN template ELSE found
  BY <1>3 DEF Text
<1>5. PICK plain \in BOOLEAN : plain = (found = Nothing /\ byName /\ owner = r)
  BY Zenon
<1>6. plain => l = stmts[r]
  <2>1. ASSUME plain PROVE l = stmts[r]
    <3>1. byName /\ owner = r /\ l = template
      BY <1>4, <1>5, <2>1
    <3>2. owner # 0
      BY <1>1, <1>3, <3>1 DEF MsKnows
    <3> QED
      BY <1>3, <3>1, <3>2 DEF MsKnows
  <2> QED
    BY <2>1
<1>7. last' \in Logs /\ LoggedIsRun'
  <2>1. stmts[r] \in Text
    BY <1>3
  <2> QED
    BY <1>2, <1>4, <1>5, <1>6, <2>1, LogTyped
<1>8. MsKnows'
  BY <1>1, <1>3 DEF MsKnows
<1> QED
  BY <1>1, <1>3, <1>7, <1>8, MsConcludes

-------------------------------------------------------------------------------
(***************************************************************************)
(* Redis.                                                                  *)
(***************************************************************************)
LEMMA ReConcludes ==
  ASSUME StatementInv, Message("redis"), UNCHANGED reRest, authed' \in BOOLEAN, odd' \in BOOLEAN,
         phase' \in {Idle, At("reply", 0)}, answer' \in Seq({"reply"}),
         ~odd' => answer' = IF phase' = Idle THEN <<>> ELSE <<"reply">>,
         last' \in Logs, LoggedIsRun'
  PROVE  StatementInv'
<1>1. proto = "redis" /\ proto' = proto /\ phase = Idle /\ messages' \in 0 .. MaxMessages
  BY MessageCounted DEF StatementInv
<1>2. /\ cache' = cache /\ template' = template /\ stmts' = stmts /\ portals' = portals /\ stale' = stale
      /\ owner' = owner /\ preparing' = preparing /\ startup' = startup /\ probes' = probes
  BY DEF reRest
<1>3. phase' \in Phases
  BY DEF Idle, At, Phases
<1>4. answer' \in Seq(Packets)
  <2>1. {"reply"} \subseteq Packets
    BY DEF Packets
  <2> QED
    BY <2>1
<1>5. StatementTypeOK'
  BY <1>1, <1>2, <1>3, <1>4 DEF StatementInv, StatementTypeOK, Logs
<1>6. AnswersExpected'
  BY <1>1 DEF AnswersExpected
<1>7. TextsKnown'
  BY <1>1 DEF TextsKnown
<1> QED
  BY <1>5, <1>6, <1>7 DEF StatementInv

LEMMA ReState ==
  ASSUME StatementInv, Message("redis")
  PROVE  /\ phase = Idle /\ answer \in Seq({"reply"}) /\ (~odd => answer = <<>>)
         /\ odd \in BOOLEAN /\ authed \in BOOLEAN
<1>1. proto = "redis" /\ phase = Idle
  BY DEF Message
<1> QED
  BY <1>1 DEF StatementInv, StatementTypeOK, AnswersExpected

LEMMA ReplyNotIdle == At("reply", 0) # Idle
<1>1. At("reply", 0).at # Idle.at
  BY DEF At, Idle
<1> QED
  BY <1>1

LEMMA ReAuthKept ==
  ASSUME StatementInv, NEW good \in BOOLEAN, ReAuth(good)
  PROVE  StatementInv'
<1>1. /\ Message("redis") /\ authed' = (authed \/ good) /\ Unrecorded /\ UNCHANGED reRest
      /\ phase' = phase /\ answer' = answer /\ odd' = odd
  BY DEF ReAuth
<1>2. /\ phase = Idle /\ answer \in Seq({"reply"}) /\ (~odd => answer = <<>>)
      /\ odd \in BOOLEAN /\ authed \in BOOLEAN
  BY <1>1, ReState
<1>3. last' \in Logs /\ LoggedIsRun'
  BY <1>1, UnrecordedTyped
<1> QED
  BY <1>1, <1>2, <1>3, ReConcludes

LEMMA ReCommandKept ==
  ASSUME StatementInv, NEW t \in Texts, NEW answers \in 0 .. 2, ReCommand(t, answers)
  PROVE  StatementInv'
<1>1. Message("redis") /\ authed' = authed /\ UNCHANGED reRest
  BY DEF ReCommand
<1>2. /\ phase = Idle /\ answer \in Seq({"reply"}) /\ (~odd => answer = <<>>)
      /\ odd \in BOOLEAN /\ authed \in BOOLEAN
  BY <1>1, ReState
<1>3. CASE authed
  <2>1. /\ Recorded(t, t, TRUE) /\ phase' = At("reply", 0) /\ odd' = (odd \/ answers # 1)
        /\ answer' = answer \o [k \in 1 .. answers |-> "reply"]
    BY <1>3 DEF ReCommand
  <2>2. last' \in Logs /\ LoggedIsRun'
    BY <2>1, LogTyped DEF Text
  <2>3. PICK c : c = [k \in 1 .. answers |-> "reply"]
    OBVIOUS
  <2>4. c \in Seq({"reply"}) /\ Len(c) = answers
    BY <2>3
  <2>5. answer' \in Seq({"reply"})
    BY <1>2, <2>1, <2>3, <2>4, ConcatProperties
  <2>6. ASSUME ~odd' PROVE answer' = <<"reply">>
    <3>1. answer = <<>> /\ answers = 1
      BY <1>2, <2>1, <2>6
    <3>2. c = <<"reply">>
      BY <2>3, <3>1
    <3>3. <<>> \o c = c
      BY <2>4, ConcatEmptySeq
    <3> QED
      BY <2>1, <2>3, <3>1, <3>2, <3>3
  <2> QED
    BY <1>1, <1>2, <2>1, <2>2, <2>5, <2>6, ReplyNotIdle, ReConcludes
<1>4. CASE ~authed
  <2>1. Unrecorded /\ phase' = phase /\ answer' = answer /\ odd' = odd
    BY <1>4 DEF ReCommand
  <2>2. last' \in Logs /\ LoggedIsRun'
    BY <2>1, UnrecordedTyped
  <2> QED
    BY <1>1, <1>2, <2>1, <2>2, ReConcludes
<1> QED
  BY <1>3, <1>4

LEMMA ReFrameKept ==
  ASSUME StatementInv, NEW t \in Texts, ReFrame(t)
  PROVE  StatementInv'
<1>1. /\ Message("redis") /\ Recorded(t, Nothing, FALSE) /\ phase' = At("reply", 0)
      /\ answer' = Append(answer, "reply") /\ authed' = authed /\ odd' = odd /\ UNCHANGED reRest
  BY DEF ReFrame
<1>2. /\ phase = Idle /\ answer \in Seq({"reply"}) /\ (~odd => answer = <<>>)
      /\ odd \in BOOLEAN /\ authed \in BOOLEAN
  BY <1>1, ReState
<1>3. last' \in Logs /\ LoggedIsRun'
  BY <1>1, LogTyped DEF Text
<1>4. answer' \in Seq({"reply"})
  BY <1>1, <1>2, AppendProperties
<1>5. ~odd => answer' = <<"reply">>
  BY <1>1, <1>2
<1> QED
  BY <1>1, <1>2, <1>3, <1>4, <1>5, ReplyNotIdle, ReConcludes

-------------------------------------------------------------------------------
(***************************************************************************)
(* MySQL.                                                                  *)
(***************************************************************************)
LEMMA MyConcludes ==
  ASSUME StatementInv, proto = "mysql", proto' = proto, UNCHANGED myRest, messages' \in 0 .. MaxMessages,
         cache' \in [Refs -> Text], stmts' \in [Refs -> Text], preparing' \in Refs \X Text,
         startup' \in BOOLEAN, probes' \in 0 .. ProbeLimit, odd' \in BOOLEAN, answer' \in Seq(Packets),
         Fits(phase', answer', odd'), MyKnows', last' \in Logs, LoggedIsRun'
  PROVE  StatementInv'
<1>1. template' = template /\ portals' = portals /\ stale' = stale /\ owner' = owner /\ authed' = authed
  BY DEF myRest
<1>2. phase' \in Phases
  BY DEF Fits
<1>3. StatementTypeOK'
  BY <1>1, <1>2 DEF StatementInv, StatementTypeOK, Logs
<1>4. AnswersExpected'
  BY DEF AnswersExpected
<1>5. TextsKnown'
  BY DEF TextsKnown
<1> QED
  BY <1>3, <1>4, <1>5 DEF StatementInv

LEMMA MyState ==
  ASSUME StatementInv, proto = "mysql"
  PROVE  /\ cache \in [Refs -> Text] /\ stmts \in [Refs -> Text] /\ preparing \in Refs \X Text
         /\ startup \in BOOLEAN /\ probes \in 0 .. ProbeLimit /\ odd \in BOOLEAN /\ messages \in 0 .. MaxMessages
         /\ answer \in Seq(Packets) /\ Fits(phase, answer, odd) /\ MyKnows /\ last \in Logs /\ LoggedIsRun
BY DEF StatementInv, StatementTypeOK, AnswersExpected, TextsKnown, Logs

\* A message of the client finds the relay idle, and every text remembered.
LEMMA MyMessage ==
  ASSUME StatementInv, Message("mysql")
  PROVE  /\ proto = "mysql" /\ proto' = proto /\ messages' \in 0 .. MaxMessages
         /\ phase = Idle /\ answer = <<>>
         /\ stmts[0] = Nothing /\ \A r \in Refs : stmts[r] = Nothing \/ cache[r] = stmts[r]
<1>1. proto = "mysql" /\ proto' = proto /\ phase = Idle /\ messages' \in 0 .. MaxMessages
  BY MessageCounted DEF StatementInv
<1>2. Fits(phase, answer, odd) /\ MyKnows
  BY <1>1, MyState
<1>3. Idle.at = "idle" /\ Idle.n = 0
  BY DEF Idle
<1>4. answer = <<>>
  BY <1>1, <1>2, <1>3 DEF Fits, Expected
<1>5. ~Awaited
  BY <1>4 DEF Awaited
<1> QED
  BY <1>1, <1>2, <1>4, <1>5 DEF MyKnows

\* What is known, when no answer with a new number is on its way.
LEMMA MyKnown ==
  ASSUME stmts'[0] = Nothing, \A r \in Refs : stmts'[r] = Nothing \/ cache'[r] = stmts'[r],
         phase'.at # "prepare"
  PROVE  MyKnows'
BY DEF MyKnows, Awaited

LEMMA ResultsTyped == \A a \in Results \cup {Cursor, Incomplete} : a \in Seq(Packets)
<1>1. {"ok", "err", "cols", "def", "eof", "row", "okmore", "eofmore", "infile"} \subseteq Packets
  BY DEF Packets
<1>2. <<"ok">> \in Seq(Packets) /\ <<"err">> \in Seq(Packets) /\ <<"infile">> \in Seq(Packets)
  BY <1>1
<1>3. <<"okmore", "ok">> \in Seq(Packets) /\ <<"cols", "def", "eof">> \in Seq(Packets)
  BY <1>1
<1>4. <<"cols", "def", "eof", "row", "eof">> \in Seq(Packets)
  BY <1>1
<1>5. <<"cols", "def", "eof", "err">> \in Seq(Packets)
  BY <1>1
<1>6. <<"cols", "def", "eof", "eofmore", "err">> \in Seq(Packets)
  BY <1>1
<1>7. <<>> \in Seq(Packets)
  OBVIOUS
<1> QED
  BY <1>2, <1>3, <1>4, <1>5, <1>6, <1>7 DEF Results, Cursor, Incomplete

LEMMA PreparedTyped ==
  \A a \in Expected("prepare", 0) \cup Expected("fields", 0) \cup Expected("afterinfile", 0) : a \in Seq(Packets)
<1>1. {"ok", "err", "def", "eof", "okmore", "prepared"} \subseteq Packets
  BY DEF Packets
<1>2. <<"ok">> \in Seq(Packets) /\ <<"err">> \in Seq(Packets) /\ <<"prepared">> \in Seq(Packets) /\ <<"eof">> \in Seq(Packets)
  BY <1>1
<1>3. <<"okmore", "ok">> \in Seq(Packets) /\ <<"def", "eof">> \in Seq(Packets)
  BY <1>1
<1>4. <<"prepared", "def", "eof">> \in Seq(Packets)
  BY <1>1
<1>5. <<"prepared", "def", "eof", "def", "eof">> \in Seq(Packets)
  BY <1>1
<1> QED
  BY <1>2, <1>3, <1>4, <1>5 DEF Expected

\* The server begins to answer a statement.
LEMMA AnsweredFits ==
  ASSUME odd \in BOOLEAN, NEW answers \in SUBSET (Results \cup {Cursor, Incomplete}), Answered(answers)
  PROVE  /\ odd' \in BOOLEAN /\ answer' \in Seq(Packets) /\ Fits(phase', answer', odd')
         /\ phase'.at # "prepare"
<1>1. /\ answer' \in Results \cup {Cursor, Incomplete} /\ phase' = At("first", 0)
      /\ odd' = (odd \/ answer' \in {Cursor, Incomplete})
  BY DEF Answered
<1>2. odd' \in BOOLEAN /\ (answer' \in {Cursor, Incomplete} => odd')
  BY <1>1, Zenon
<1>3. Fits(phase', answer', odd')
  <2>1. answer' \in Strange => odd'
    BY <1>1, <1>2, ResultsFollowed
  <2> QED
    BY <1>1, <1>2, <2>1, FitsFirst
<1>4. phase'.at # "prepare"
  BY <1>1 DEF At
<1> QED
  BY <1>1, <1>2, <1>3, <1>4, ResultsTyped

LEMMA MyQueryKept ==
  ASSUME StatementInv, NEW t \in Texts \cup {Blank}, MyQuery(t)
  PROVE  StatementInv'
<1>1. Message("mysql") /\ cache' = cache /\ stmts' = stmts /\ preparing' = preparing /\ UNCHANGED myRest
  BY DEF MyQuery
<1>2. PICK locally \in BOOLEAN : locally = (t \in CacheProbes \/ Starting(t))
  BY Zenon
<1>3. /\ probes' = IF Starting(t) /\ t \notin CacheProbes THEN probes + 1 ELSE probes
      /\ startup' = IF locally \/ t = Blank THEN startup ELSE FALSE
      /\ IF locally THEN Unrecorded /\ UNCHANGED <<phase, answer, odd>>
         ELSE Recorded(Meant(t), Meant(t), TRUE) /\ Answered(Results \cup {Incomplete})
  BY <1>2 DEF MyQuery
<1>4. /\ proto = "mysql" /\ proto' = proto /\ messages' \in 0 .. MaxMessages /\ phase = Idle /\ answer = <<>>
      /\ stmts[0] = Nothing /\ \A r \in Refs : stmts[r] = Nothing \/ cache[r] = stmts[r]
  BY <1>1, MyMessage
<1>5. /\ cache \in [Refs -> Text] /\ stmts \in [Refs -> Text] /\ preparing \in Refs \X Text
      /\ startup \in BOOLEAN /\ probes \in 0 .. ProbeLimit /\ odd \in BOOLEAN
      /\ answer \in Seq(Packets) /\ Fits(phase, answer, odd)
  BY <1>4, MyState
<1>6. probes' \in 0 .. ProbeLimit
  <2>1. Starting(t) => probes < ProbeLimit
    BY DEF Starting
  <2> QED
    BY <1>3, <1>5, <2>1
<1>7. startup' \in BOOLEAN
  BY <1>3, <1>5
<1>8. /\ last' \in Logs /\ LoggedIsRun' /\ odd' \in BOOLEAN /\ answer' \in Seq(Packets)
      /\ Fits(phase', answer', odd') /\ phase'.at # "prepare"
  <2>1. CASE locally
    <3>1. Unrecorded /\ phase' = phase /\ answer' = answer /\ odd' = odd
      BY <1>3, <2>1
    <3>2. phase'.at # "prepare"
      BY <1>4, <3>1 DEF Idle
    <3> QED
      BY <1>5, <3>1, <3>2, UnrecordedTyped
  <2>2. CASE ~locally
    <3>1. Recorded(Meant(t), Meant(t), TRUE) /\ Answered(Results \cup {Incomplete})
      BY <1>3, <2>2
    <3>2. last' \in Logs /\ LoggedIsRun'
      <4>1. Meant(t) \in Text
        BY MeantTyped DEF Text
      <4> QED
        BY <3>1, <4>1, LogTyped
    <3> QED
      BY <1>5, <3>1, <3>2, AnsweredFits
  <2> QED
    BY <2>1, <2>2
<1>9. MyKnows'
  BY <1>1, <1>4, <1>8, MyKnown
<1> QED
  BY <1>1, <1>4, <1>5, <1>6, <1>7, <1>8, <1>9, MyConcludes

LEMMA MyExecuteKept ==
  ASSUME StatementInv, NEW r \in Refs, MyExecute(r)
  PROVE  StatementInv'
<1>1. /\ Message("mysql") /\ cache' = cache /\ stmts' = stmts /\ preparing' = preparing /\ probes' = probes
      /\ startup' = FALSE /\ UNCHANGED myRest /\ Recorded(stmts[r], cache[r], stmts[r] # Nothing)
      /\ Answered(IF stmts[r] = Nothing THEN {<<"err">>} ELSE (Results \ {<<"infile">>}) \cup {Cursor, Incomplete})
  BY DEF MyExecute
<1>2. /\ proto = "mysql" /\ proto' = proto /\ messages' \in 0 .. MaxMessages /\ phase = Idle /\ answer = <<>>
      /\ stmts[0] = Nothing /\ \A x \in Refs : stmts[x] = Nothing \/ cache[x] = stmts[x]
  BY <1>1, MyMessage
<1>3. /\ cache \in [Refs -> Text] /\ stmts \in [Refs -> Text] /\ preparing \in Refs \X Text
      /\ probes \in 0 .. ProbeLimit /\ odd \in BOOLEAN
  BY <1>2, MyState
<1>4. last' \in Logs /\ LoggedIsRun'
  <2>1. PICK plain \in BOOLEAN : plain = (stmts[r] # Nothing)
    BY Zenon
  <2>2. stmts[r] \in Text /\ cache[r] \in Text /\ (plain => cache[r] = stmts[r])
    BY <1>2, <1>3, <2>1
  <2> QED
    BY <1>1, <2>1, <2>2, LogTyped
<1>5. /\ odd' \in BOOLEAN /\ answer' \in Seq(Packets) /\ Fits(phase', answer', odd') /\ phase'.at # "prepare"
  <2>1. <<"err">> \in Results
    BY DEF Results
  <2>2. PICK answers \in SUBSET (Results \cup {Cursor, Incomplete}) :
          answers = IF stmts[r] = Nothing THEN {<<"err">>} ELSE (Results \ {<<"infile">>}) \cup {Cursor, Incomplete}
    BY <2>1
  <2> QED
    BY <1>1, <1>3, <2>2, AnsweredFits
<1>6. MyKnows'
  BY <1>1, <1>2, <1>5, MyKnown
<1> QED
  BY <1>1, <1>2, <1>3, <1>4, <1>5, <1>6, MyConcludes

LEMMA MyCloseKept ==
  ASSUME StatementInv, NEW r \in Refs, MyClose(r)
  PROVE  StatementInv'
<1>1. /\ Message("mysql") /\ cache' = Deleted(r) /\ stmts' = [stmts EXCEPT ![r] = Nothing] /\ preparing' = preparing
      /\ probes' = probes /\ startup' = FALSE /\ UNCHANGED myRest /\ Unrecorded
      /\ phase' = phase /\ answer' = answer /\ odd' = odd
  BY DEF MyClose
<1>2. /\ proto = "mysql" /\ proto' = proto /\ messages' \in 0 .. MaxMessages /\ phase = Idle /\ answer = <<>>
      /\ stmts[0] = Nothing /\ \A x \in Refs : stmts[x] = Nothing \/ cache[x] = stmts[x]
  BY <1>1, MyMessage
<1>3. /\ cache \in [Refs -> Text] /\ stmts \in [Refs -> Text] /\ preparing \in Refs \X Text
      /\ probes \in 0 .. ProbeLimit /\ odd \in BOOLEAN /\ answer \in Seq(Packets) /\ Fits(phase, answer, odd)
  BY <1>2, MyState
<1>4. last' \in Logs /\ LoggedIsRun'
  BY <1>1, UnrecordedTyped
<1>5. cache' \in [Refs -> Text] /\ stmts' \in [Refs -> Text]
  BY <1>1, <1>3 DEF Deleted, Text
<1>6. MyKnows'
  <2>1. phase'.at # "prepare"
    BY <1>1, <1>2 DEF Idle
  <2>2. stmts'[0] = Nothing
    BY <1>1, <1>2, <1>3 DEF Refs
  <2>3. \A x \in Refs : stmts'[x] = Nothing \/ cache'[x] = stmts'[x]
    BY <1>1, <1>2, <1>3 DEF Deleted
  <2> QED
    BY <2>1, <2>2, <2>3, MyKnown
<1> QED
  BY <1>1, <1>2, <1>3, <1>4, <1>5, <1>6, MyConcludes

\* The number of a new statement is free in the cache too.
LEMMA MyPrepareKept ==
  ASSUME StatementInv, NEW t \in Texts \cup {Blank}, MyPrepare(t)
  PROVE  StatementInv'
<1>1. /\ Message("mysql") /\ startup' = FALSE /\ Unrecorded /\ phase' = At("prepare", 0)
      /\ stmts' = IF preparing'[1] = 0 THEN stmts ELSE [stmts EXCEPT ![preparing'[1]] = t]
      /\ cache' = cache /\ probes' = probes /\ odd' = odd /\ UNCHANGED myRest
  BY DEF MyPrepare
<1>2. /\ proto = "mysql" /\ proto' = proto /\ messages' \in 0 .. MaxMessages
      /\ stmts[0] = Nothing /\ \A x \in Refs : stmts[x] = Nothing \/ cache[x] = stmts[x]
  BY <1>1, MyMessage
<1>3. /\ cache \in [Refs -> Text] /\ stmts \in [Refs -> Text]
      /\ probes \in 0 .. ProbeLimit /\ odd \in BOOLEAN
  BY <1>2, MyState
<1>4. last' \in Logs /\ LoggedIsRun'
  BY <1>1, UnrecordedTyped
<1>5. \/ answer' = <<"err">> /\ preparing' = <<0, Nothing>>
      \/ /\ t # Blank
         /\ answer' \in {<<"prepared">>, <<"prepared", "def", "eof">>, <<"prepared", "def", "eof", "def", "eof">>}
         /\ \E r \in Refs \ {0} : preparing' = <<r, t>>
  <2>1. PICK free : free = {r \in Refs \ {0} : \A x \in Refs : x >= r => stmts[x] = Nothing /\ cache[x] = Nothing}
    OBVIOUS
  <2>2. \/ answer' = <<"err">> /\ preparing' = <<0, Nothing>>
        \/ /\ t # Blank /\ free # {}
           /\ preparing' = <<CHOOSE r \in free : \A x \in free : r <= x, t>>
           /\ answer' \in {<<"prepared">>, <<"prepared", "def", "eof">>,
                           <<"prepared", "def", "eof", "def", "eof">>}
    BY <2>1 DEF MyPrepare
  <2>3. free # {} => \E r \in free : \A x \in free : r <= x
    <3>1. free \subseteq {1, 2}
      BY <2>1 DEF Refs
    <3>2. CASE 1 \in free
      BY <3>1, <3>2
    <3>3. CASE 1 \notin free
      <4>1. \A x \in free : x = 2 /\ 2 <= x
        BY <3>1, <3>3
      <4> QED
        BY <4>1
    <3> QED
      BY <3>2, <3>3
  <2>4. free # {} => (CHOOSE r \in free : \A x \in free : r <= x) \in Refs \ {0}
    BY <2>1, <2>3
  <2> QED
    BY <2>2, <2>4
<1>6. answer' \in Expected("prepare", 0)
  BY <1>5 DEF Expected
<1>7. Fits(phase', answer', odd') /\ answer' \in Seq(Packets)
  BY <1>1, <1>6, FitsOther, PreparedTyped
<1>8. phase'.at = "prepare"
  BY <1>1 DEF At
<1>9. CASE answer' = <<"err">> /\ preparing' = <<0, Nothing>>
  <2>1. preparing' \in Refs \X Text /\ preparing'[1] = 0
    BY <1>9 DEF Refs, Text
  <2>2. stmts' = stmts
    BY <1>1, <2>1
  <2>3. ~Awaited'
    <3>1. Head(answer') = "err"
      BY <1>9, Taken1
    <3> QED
      BY <3>1 DEF Awaited
  <2>4. MyKnows'
    BY <1>1, <1>2, <2>2, <2>3 DEF MyKnows
  <2> QED
    BY <1>1, <1>2, <1>3, <1>4, <1>7, <2>1, <2>2, <2>4, MyConcludes
<1>10. CASE /\ t # Blank
            /\ answer' \in {<<"prepared">>, <<"prepared", "def", "eof">>, <<"prepared", "def", "eof", "def", "eof">>}
            /\ \E r \in Refs \ {0} : preparing' = <<r, t>>
  <2>1. PICK r \in Refs \ {0} : preparing' = <<r, t>>
    BY <1>10
  <2>2. t \in Texts /\ t \in Text
    BY <1>10 DEF Text
  <2>3. preparing'[1] = r /\ preparing'[2] = t /\ preparing' \in Refs \X Text
    BY <2>1, <2>2
  <2>4. stmts' = [stmts EXCEPT ![r] = t]
    BY <1>1, <2>3
  <2>5. /\ stmts' \in [Refs -> Text] /\ stmts'[r] = t /\ stmts'[0] = Nothing
        /\ \A x \in Refs : x # r => stmts'[x] = stmts[x]
    BY <1>2, <1>3, <2>2, <2>4 DEF Refs
  <2>6. Awaited'
    <3>1. answer' # <<>> /\ Head(answer') = "prepared"
      BY <1>10, Taken1, Taken3, Taken5
    <3> QED
      BY <1>8, <3>1 DEF Awaited
  <2>7. MyKnows'
    <3>1. ASSUME NEW x \in Refs
          PROVE  stmts'[x] = Nothing \/ cache'[x] = stmts'[x] \/ (Awaited' /\ preparing'[1] = x)
      BY <1>1, <1>2, <2>3, <2>5, <2>6
    <3> QED
      BY <2>2, <2>3, <2>5, <3>1 DEF MyKnows
  <2> QED
    BY <1>1, <1>2, <1>3, <1>4, <1>7, <2>3, <2>5, <2>7, MyConcludes
<1> QED
  BY <1>5, <1>9, <1>10

LEMMA MyOtherKept ==
  ASSUME StatementInv, NEW cmd \in {"fields", "reset", "ping", "statistics", "change_user"}, MyOther(cmd)
  PROVE  StatementInv'
<1>1. /\ Message("mysql") /\ startup' = FALSE /\ Unrecorded /\ cache' = cache /\ preparing' = preparing
      /\ probes' = probes /\ odd' = (odd \/ answer' \in Strange) /\ UNCHANGED myRest
      /\ stmts' \in {[r \in Refs |-> Nothing], stmts}
  BY DEF MyOther
<1>2. /\ proto = "mysql" /\ proto' = proto /\ messages' \in 0 .. MaxMessages
      /\ stmts[0] = Nothing /\ \A x \in Refs : stmts[x] = Nothing \/ cache[x] = stmts[x]
  BY <1>1, MyMessage
<1>3. /\ cache \in [Refs -> Text] /\ stmts \in [Refs -> Text] /\ preparing \in Refs \X Text
      /\ probes \in 0 .. ProbeLimit /\ odd \in BOOLEAN
  BY <1>2, MyState
<1>4. last' \in Logs /\ LoggedIsRun'
  BY <1>1, UnrecordedTyped
<1>5. stmts' \in [Refs -> Text] /\ stmts'[0] = Nothing
  BY <1>1, <1>2, <1>3 DEF Refs, Text
<1>6. \A x \in Refs : stmts'[x] = Nothing \/ cache'[x] = stmts'[x]
  BY <1>1, <1>2
<1>7. Fits(phase', answer', odd') /\ answer' \in Seq(Packets) /\ phase'.at # "prepare"
  <2>1. CASE cmd = "fields"
    <3>1. phase' = At("fields", 0) /\ answer' \in {<<"def", "eof">>, <<"err">>}
      BY <2>1 DEF MyOther
    <3>2. answer' \in Expected("fields", 0)
      BY <3>1 DEF Expected
    <3>3. phase'.at # "prepare"
      BY <3>1 DEF At
    <3> QED
      BY <3>1, <3>2, <3>3, FitsOther, PreparedTyped
  <2>2. CASE cmd # "fields"
    <3>1. phase' = At("first", 0) /\ answer' \in {<<"ok">>, <<"err">>} \cup Strange
      BY <2>2 DEF MyOther, Default, Strange
    <3>2. answer' \in Results \cup Strange
      BY <3>1 DEF Results
    <3>3. phase'.at # "prepare"
      BY <3>1 DEF At
    <3>4. answer' \in Strange => odd'
      BY <1>1, Zenon
    <3> QED
      BY <3>1, <3>2, <3>3, <3>4, FitsFirst, ResultsFollowed, ResultsTyped, StrangeTaken
  <2> QED
    BY <2>1, <2>2
<1>9. odd' \in BOOLEAN
  BY <1>1, <1>3, Zenon
<1>8. MyKnows'
  BY <1>5, <1>6, <1>7, MyKnown
<1> QED
  BY <1>1, <1>2, <1>3, <1>4, <1>5, <1>7, <1>8, <1>9, MyConcludes

LEMMA MyFileKept ==
  ASSUME StatementInv, MyFile
  PROVE  StatementInv'
<1>1. /\ proto = "mysql" /\ phase.at = "infile" /\ phase' = At("afterinfile", 0)
      /\ answer' \in {<<"ok">>, <<"err">>, <<"okmore", "ok">>} /\ proto' = proto /\ cache' = cache
      /\ stmts' = stmts /\ preparing' = preparing /\ startup' = startup /\ probes' = probes /\ odd' = odd
      /\ last' = last /\ messages' = messages /\ UNCHANGED myRest
  BY DEF MyFile
<1>2. /\ cache \in [Refs -> Text] /\ stmts \in [Refs -> Text] /\ preparing \in Refs \X Text
      /\ startup \in BOOLEAN /\ probes \in 0 .. ProbeLimit /\ odd \in BOOLEAN /\ messages \in 0 .. MaxMessages
      /\ MyKnows /\ last \in Logs /\ LoggedIsRun
  BY <1>1, MyState
<1>3. answer' \in Expected("afterinfile", 0)
  BY <1>1 DEF Expected
<1>4. Fits(phase', answer', odd') /\ answer' \in Seq(Packets)
  BY <1>1, <1>3, FitsOther, PreparedTyped
<1>5. MyKnows'
  <2>1. ~Awaited /\ phase'.at # "prepare"
    BY <1>1 DEF Awaited, At
  <2> QED
    BY <1>1, <1>2, <2>1, MyKnown DEF MyKnows
<1>6. LoggedIsRun'
  BY <1>1, <1>2 DEF LoggedIsRun
<1> QED
  BY <1>1, <1>2, <1>4, <1>5, <1>6, MyConcludes

\* The number of a new statement comes with the first packet of its answer, and
\* its text is stored with it.
LEMMA MyRelayKept ==
  ASSUME StatementInv, proto = "mysql", RelayPacket
  PROVE  StatementInv'
<1>1. /\ phase.at \notin {"idle", "infile"} /\ answer # <<>>
      /\ phase' = NextPhase(Head(answer)) /\ answer' = Tail(answer)
      /\ proto' = proto /\ stmts' = stmts /\ preparing' = preparing /\ startup' = startup /\ probes' = probes
      /\ odd' = odd /\ last' = last /\ messages' = messages /\ UNCHANGED myRest
      /\ cache' = IF phase.at = "prepare" /\ Head(answer) = "prepared"
                    THEN Stored(preparing[1], preparing[2]) ELSE cache
  BY DEF RelayPacket
<1>2. /\ cache \in [Refs -> Text] /\ stmts \in [Refs -> Text] /\ preparing \in Refs \X Text
      /\ startup \in BOOLEAN /\ probes \in 0 .. ProbeLimit /\ odd \in BOOLEAN /\ messages \in 0 .. MaxMessages
      /\ answer \in Seq(Packets) /\ Fits(phase, answer, odd) /\ MyKnows /\ last \in Logs /\ LoggedIsRun
  BY MyState
<1>3. Fits(phase', answer', odd')
  BY <1>1, <1>2, RelayFits
<1>4. answer' \in Seq(Packets)
  BY <1>1, <1>2, HeadTailProperties
<1>5. LoggedIsRun'
  BY <1>1, <1>2 DEF LoggedIsRun
<1>6. phase'.at # "prepare"
  BY <1>1, <1>2, RelayLeaves
<1>7. CASE Awaited
  <2>1. /\ preparing[1] \in Refs /\ preparing[2] \in Texts /\ preparing[2] \in Text /\ preparing[2] # Blank
        /\ stmts[preparing[1]] = preparing[2]
    BY <1>2, <1>7 DEF MyKnows, Text
  <2>2. cache' = [cache EXCEPT ![preparing[1]] = preparing[2]]
    BY <1>1, <1>7, <2>1 DEF Awaited, Stored
  <2>3. cache' \in [Refs -> Text]
    BY <1>2, <2>1, <2>2
  <2>4. \A r \in Refs : stmts'[r] = Nothing \/ cache'[r] = stmts'[r]
    BY <1>1, <1>2, <2>1, <2>2 DEF MyKnows
  <2>5. MyKnows'
    BY <1>1, <1>2, <1>6, <2>4, MyKnown DEF MyKnows
  <2> QED
    BY <1>1, <1>2, <1>3, <1>4, <1>5, <2>3, <2>5, MyConcludes
<1>8. CASE ~Awaited
  <2>1. cache' = cache
    BY <1>1, <1>8 DEF Awaited
  <2>2. MyKnows'
    BY <1>1, <1>2, <1>6, <1>8, <2>1, MyKnown DEF MyKnows
  <2> QED
    BY <1>1, <1>2, <1>3, <1>4, <1>5, <2>1, <2>2, MyConcludes
<1> QED
  BY <1>7, <1>8

\* Redis: one answer is taken.
LEMMA ReRelayKept ==
  ASSUME StatementInv, proto = "redis", RelayPacket
  PROVE  StatementInv'
<1>1. /\ phase.at \notin {"idle", "infile"} /\ answer # <<>>
      /\ phase' = NextPhase(Head(answer)) /\ answer' = Tail(answer)
      /\ proto' = proto /\ stmts' = stmts /\ preparing' = preparing /\ startup' = startup /\ probes' = probes
      /\ odd' = odd /\ last' = last /\ messages' = messages /\ UNCHANGED myRest
      /\ cache' = IF phase.at = "prepare" /\ Head(answer) = "prepared"
                    THEN Stored(preparing[1], preparing[2]) ELSE cache
  BY DEF RelayPacket
<1>2. /\ phase \in {Idle, At("reply", 0)} /\ answer \in Seq({"reply"})
      /\ ~odd => answer = IF phase = Idle THEN <<>> ELSE <<"reply">>
  BY DEF StatementInv, AnswersExpected
<1>3. Idle.at = "idle" /\ At("reply", 0).at = "reply" /\ Idle \in Phases
  BY DEF Idle, At, Phases
<1>4. phase.at = "reply" /\ phase # Idle
  BY <1>1, <1>2, <1>3
<1>5. phase' = Idle /\ cache' = cache
  BY <1>1, <1>4 DEF NextPhase
<1>6. answer' \in Seq({"reply"})
  BY <1>1, <1>2, HeadTailProperties
<1>7. ~odd' => answer' = <<>>
  BY <1>1, <1>2, <1>4, Taken1
<1>8. answer' \in Seq(Packets)
  <2>1. {"reply"} \subseteq Packets
    BY DEF Packets
  <2> QED
    BY <1>6, <2>1
<1>9. template' = template /\ portals' = portals /\ stale' = stale /\ owner' = owner /\ authed' = authed
  BY <1>1 DEF myRest
<1>10. StatementTypeOK'
  BY <1>1, <1>3, <1>5, <1>8, <1>9 DEF StatementInv, StatementTypeOK
<1>11. AnswersExpected'
  BY <1>1, <1>5, <1>6, <1>7 DEF AnswersExpected
<1>12. TextsKnown'
  BY <1>1 DEF TextsKnown
<1>13. LoggedIsRun'
  BY <1>1 DEF StatementInv, LoggedIsRun
<1> QED
  BY <1>10, <1>11, <1>12, <1>13 DEF StatementInv

\* PostgreSQL and SQL Server wait for no answers here.
LEMMA RelayPacketKept ==
  ASSUME StatementInv, RelayPacket
  PROVE  StatementInv'
<1>1. CASE proto = "mysql"
  BY <1>1, MyRelayKept
<1>2. CASE proto = "redis"
  BY <1>2, ReRelayKept
<1>3. CASE proto \in {"postgres", "mssql"}
  <2>1. answer = <<>>
    BY <1>3 DEF StatementInv, AnswersExpected
  <2> QED
    BY <2>1 DEF RelayPacket
<1> QED
  BY <1>1, <1>2, <1>3 DEF StatementInv, StatementTypeOK

LEMMA StatementStutter ==
  ASSUME StatementInv, UNCHANGED statement
  PROVE  StatementInv'
<1>1. StatementTypeOK'
  BY DEF StatementInv, StatementTypeOK, statement
<1>2. AnswersExpected'
  BY DEF StatementInv, AnswersExpected, statement
<1>3. TextsKnown'
  BY DEF StatementInv, TextsKnown, PgKnows, MsKnows, MyKnows, Awaited, statement
<1>4. LoggedIsRun'
  BY DEF StatementInv, LoggedIsRun, statement
<1> QED
  BY <1>1, <1>2, <1>3, <1>4 DEF StatementInv

\* Every message of a client and every packet of a server keeps the invariant.
LEMMA StatementStep == StatementInv /\ [StatementNext]_statement => StatementInv'
<1> SUFFICES ASSUME StatementInv, [StatementNext]_statement PROVE StatementInv'
  OBVIOUS
<1>1. ASSUME NEW t \in Texts \cup {Blank},
             PgQuery(t) \/ MsBatch(t) \/ MyQuery(t) \/ MyPrepare(t) \/ \E r \in Refs : PgParse(r, t)
      PROVE  StatementInv'
  BY <1>1, PgQueryKept, MsBatchKept, MyQueryKept, MyPrepareKept, PgParseKept
<1>2. ASSUME NEW p \in Refs, NEW r \in Refs, PgBind(p, r) PROVE StatementInv'
  BY <1>2, PgBindKept
<1>3. ASSUME NEW r \in Refs,
             \/ PgExecute(r)
             \/ \E target \in {"statement", "portal"} : PgClose(target, r)
             \/ \E value \in Texts \cup {Nothing}, byName \in BOOLEAN : MsExecute(r, value, byName)
             \/ MyExecute(r) \/ MyClose(r)
      PROVE  StatementInv'
  BY <1>3, PgExecuteKept, PgCloseKept, MsExecuteKept, MyExecuteKept, MyCloseKept
<1>4. ASSUME NEW proc \in Preparing \cup {"sp_executesql"}, NEW t \in Texts,
             NEW value \in Texts \cup {Nothing}, NEW byName \in BOOLEAN,
             MsText(proc, t, value, byName)
      PROVE  StatementInv'
  BY <1>4, MsTextKept
<1>5. ASSUME NEW cmd \in {"fields", "reset", "ping", "statistics", "change_user"}, MyOther(cmd)
      PROVE  StatementInv'
  BY <1>5, MyOtherKept
<1>6. CASE MyFile \/ RelayPacket
  BY <1>6, MyFileKept, RelayPacketKept
<1>7. ASSUME NEW good \in BOOLEAN, ReAuth(good) PROVE StatementInv'
  BY <1>7, ReAuthKept
<1>8. ASSUME NEW t \in Texts, ReFrame(t) \/ \E answers \in 0 .. 2 : ReCommand(t, answers)
      PROVE  StatementInv'
  BY <1>8, ReFrameKept, ReCommandKept
<1>9. CASE UNCHANGED statement
  BY <1>9, StatementStutter
<1> QED
  BY <1>1, <1>2, <1>3, <1>4, <1>5, <1>6, <1>7, <1>8, <1>9 DEF StatementNext

\* What fits the relay of MySQL is at an end exactly when the relay is.
LEMMA FitsInStep ==
  ASSUME NEW ph, NEW a, NEW o, Fits(ph, a, o), ~o, ph.at # "infile"
  PROVE  ph = Idle <=> a = <<>>
<1>1. ph \in Phases /\ a \in Expected(ph.at, ph.n) /\ ph.at # "reply"
  BY DEF Fits
<1>2. CASE ph.at = "idle"
  <2>1. a = <<>> /\ ph.n = 0
    BY <1>1, <1>2 DEF Expected, Fits
  <2>2. ph = Idle
    BY <1>1, <1>2, <2>1 DEF Phases, Idle
  <2> QED
    BY <2>1, <2>2
<1>3. CASE ph.at # "idle"
  <2>1. ph # Idle
    BY <1>3 DEF Idle
  <2>2. ph.at \in {"first", "defs", "rows", "afterinfile", "prepare", "exact", "fields"}
    BY <1>1, <1>3 DEF Phases
  <2>3. a # <<>>
    <3>1. CASE ph.at \in {"first", "rows"}
      <4>1. ph.at = "first" => a # Incomplete
        BY DEF Fits
      <4>2. ph.at = "rows" => a # <<>>
        BY DEF Fits
      <4> QED
        BY <3>1, <4>1, <4>2 DEF Incomplete
    <3>2. CASE ph.at = "defs"
      <4>1. a \notin Unfollowed
        BY <3>2 DEF Fits
      <4> QED
        BY <4>1 DEF Unfollowed
    <3>3. CASE ph.at = "exact"
      <4>1. a \in Announced(ph.n)
        BY <1>1, <3>3 DEF Expected
      <4> QED
        BY <4>1, Taken1, Taken2, Taken3, Taken4 DEF Announced
    <3>4. CASE ph.at = "afterinfile"
      BY <1>1, <3>4, Taken1, Taken2 DEF Expected
    <3>5. CASE ph.at = "prepare"
      BY <1>1, <3>5, Taken1, Taken3, Taken5 DEF Expected
    <3>6. CASE ph.at = "fields"
      BY <1>1, <3>6, Taken1, Taken2 DEF Expected
    <3> QED
      BY <2>2, <3>1, <3>2, <3>3, <3>4, <3>5, <3>6
  <2> QED
    BY <2>1, <2>3
<1> QED
  BY <1>2, <1>3

LEMMA StepFollows == StatementInv => InStep
<1> SUFFICES ASSUME StatementInv, ~odd, phase.at # "infile" PROVE phase = Idle <=> answer = <<>>
  BY DEF InStep
<1>1. CASE proto = "mysql"
  BY <1>1, FitsInStep DEF StatementInv, AnswersExpected
<1>2. CASE proto = "redis"
  BY <1>2, Taken1 DEF StatementInv, AnswersExpected
<1>3. CASE proto \in {"postgres", "mssql"}
  BY <1>3 DEF StatementInv, AnswersExpected
<1> QED
  BY <1>1, <1>2, <1>3 DEF StatementInv, StatementTypeOK

-------------------------------------------------------------------------------
(***************************************************************************)
(* Bridge.  The queue of requests never grows past its capacity: the       *)
(* library's loop holds one request and takes no other.                    *)
(***************************************************************************)
LEMMA BridgeStart == BridgeInit => BridgeTypeOK
<1> SUFFICES ASSUME BridgeInit PROVE BridgeTypeOK
  OBVIOUS
<1>1. inbox \in Seq(Requests) /\ Len(inbox) <= ReqBuf
  BY DEF BridgeInit
<1>2. copier \in [Streams -> {"off", "on", "done", "failed"}]
  BY DEF BridgeInit
<1>3. requests \in 0 .. MaxRequests
  BY DEF BridgeInit
<1>4. serving \in BOOLEAN
  BY DEF BridgeInit
<1> QED
  BY <1>1, <1>2, <1>3, <1>4 DEF BridgeInit, BridgeTypeOK

LEMMA SendTyped ==
  ASSUME BridgeTypeOK, NEW r \in Requests, SendRequest(r)
  PROVE  BridgeTypeOK'
<1>1. inbox \in Seq(Requests) /\ Len(inbox) <= ReqBuf /\ Len(inbox) \in Nat
  BY LenProperties DEF BridgeTypeOK
<1>2. requests' \in 0 .. MaxRequests
  BY DEF SendRequest, BridgeTypeOK
<1>3. inbox' \in Seq(Requests) /\ Len(inbox') <= ReqBuf /\ held' \in Requests \cup {"none"}
  <2>1. CASE Len(inbox) < ReqBuf
    <3>1. inbox' = Append(inbox, r) /\ held' = held
      BY <2>1 DEF SendRequest
    <3>2. inbox' \in Seq(Requests) /\ Len(inbox') = Len(inbox) + 1
      BY <1>1, <3>1, AppendProperties
    <3> QED
      BY <1>1, <2>1, <3>1, <3>2 DEF BridgeTypeOK
  <2>2. CASE ~(Len(inbox) < ReqBuf)
    BY <1>1, <2>2 DEF SendRequest
  <2> QED
    BY <2>1, <2>2
<1> QED
  BY <1>2, <1>3 DEF SendRequest, BridgeTypeOK

LEMMA TakenTyped ==
  ASSUME BridgeTypeOK, Taken
  PROVE  inbox' \in Seq(Requests) /\ Len(inbox') <= ReqBuf /\ held' \in Requests \cup {"none"}
<1>1. /\ inbox \in Seq(Requests) /\ Len(inbox) <= ReqBuf /\ Len(inbox) \in Nat /\ inbox # <<>>
      /\ held \in Requests \cup {"none"}
  BY LenProperties DEF BridgeTypeOK, Taken
<1>2. Tail(inbox) \in Seq(Requests) /\ Len(Tail(inbox)) = Len(inbox) - 1
  BY <1>1, HeadTailProperties
<1>3. CASE held = "none"
  <2>1. inbox' = Tail(inbox) /\ held' = "none"
    BY <1>3 DEF Taken
  <2> QED
    BY <1>1, <1>2, <2>1
<1>4. CASE held # "none"
  <2>1. inbox' = Append(Tail(inbox), held) /\ held \in Requests
    BY <1>1, <1>4 DEF Taken
  <2>2. inbox' \in Seq(Requests) /\ Len(inbox') = Len(Tail(inbox)) + 1
    BY <1>2, <2>1, AppendProperties
  <2>3. held' = "none"
    BY DEF Taken
  <2> QED
    BY <1>1, <1>2, <2>2, <2>3
<1> QED
  BY <1>3, <1>4

LEMMA HandledTyped ==
  ASSUME BridgeTypeOK, HandleRequest \/ RequestFails
  PROVE  BridgeTypeOK'
<1>1. inbox' \in Seq(Requests) /\ Len(inbox') <= ReqBuf /\ held' \in Requests \cup {"none"}
  BY TakenTyped DEF HandleRequest, RequestFails
<1>2. CASE HandleRequest
  <2>1. startedCh' \in BOOLEAN
    BY <1>2 DEF HandleRequest, BridgeTypeOK
  <2> QED
    BY <1>1, <1>2, <2>1 DEF HandleRequest, BridgeTypeOK
<1>3. CASE RequestFails
  BY <1>1, <1>3 DEF RequestFails, BridgeTypeOK
<1> QED
  BY <1>2, <1>3

LEMMA EndsTyped ==
  ASSUME BridgeTypeOK, NEW s \in Streams, NEW how \in {"done", "failed"}, Ends(s, how)
  PROVE  BridgeTypeOK'
<1>1. copier' \in [Streams -> {"off", "on", "done", "failed"}]
  BY DEF Ends, BridgeTypeOK
<1> QED
  BY <1>1 DEF Ends, BridgeTypeOK

LEMMA BridgeTyped == BridgeTypeOK /\ [BridgeNext]_bridge => BridgeTypeOK'
<1> SUFFICES ASSUME BridgeTypeOK, [BridgeNext]_bridge PROVE BridgeTypeOK'
  OBVIOUS
<1>1. ASSUME NEW r \in Requests, SendRequest(r) PROVE BridgeTypeOK'
  BY <1>1, SendTyped
<1>2. CASE ClientCloses \/ MaxAgeReached \/ CloseSeen
  BY <1>2 DEF ClientCloses, MaxAgeReached, CloseSeen, BridgeTypeOK
<1>3. CASE HandleRequest \/ RequestFails
  BY <1>3, HandledTyped
<1>4. CASE RequestsEnd
  BY <1>4 DEF RequestsEnd, BridgeTypeOK
<1>5. CASE Started
  <2>1. copier' \in [Streams -> {"off", "on", "done", "failed"}]
    BY <1>5 DEF Started
  <2> QED
    BY <1>5, <2>1 DEF Started, BridgeTypeOK
<1>6. CASE StartFails
  BY <1>6 DEF StartFails, Return, BridgeTypeOK
<1>7. CASE StartTimeout
  BY <1>7 DEF StartTimeout, Return, BridgeTypeOK
<1>8. CASE WaitReturns
  BY <1>8 DEF WaitReturns, BridgeTypeOK
<1>9. CASE Settled
  <2>1. main' = "done" /\ why' \in {"copy_failed", "wait_failed", "ended"}
    BY <1>9 DEF Settled, Return
  <2> QED
    BY <1>9, <2>1 DEF Settled, BridgeTypeOK
<1>10. ASSUME NEW s \in Streams, SourceEnds(s) \/ WriteFails(s) \/ IdleTimeout(s) PROVE BridgeTypeOK'
  BY <1>10, EndsTyped DEF SourceEnds, WriteFails, IdleTimeout
<1>11. ASSUME NEW how \in {"exited", "lost"}, UpstreamEnds(how) PROVE BridgeTypeOK'
  BY <1>11 DEF UpstreamEnds, BridgeTypeOK
<1>12. CASE UNCHANGED bridge
  BY <1>12 DEF bridge, BridgeTypeOK
<1> QED
  BY <1>1, <1>2, <1>3, <1>4, <1>5, <1>6, <1>7, <1>8, <1>9, <1>10, <1>11, <1>12 DEF BridgeNext

-------------------------------------------------------------------------------
(***************************************************************************)
(* The relays together: each keeps its own invariant, and the others stand *)
(* still.                                                                  *)
(***************************************************************************)
RelaysInv ==
  /\ relay \in {"bridge", "sftp", "statement", "hostkeys"}
  /\ BridgeTypeOK /\ SFTPInv /\ StatementInv /\ HostKeysInv

LEMMA RelaysStep == RelaysInv /\ [Next]_vars => RelaysInv'
<1> SUFFICES ASSUME RelaysInv, [Next]_vars PROVE RelaysInv'
  OBVIOUS
<1>1. relay' = relay /\ [BridgeNext]_bridge /\ [SFTPNext]_sftp /\ [StatementNext]_statement /\ [HostKeysNext]_hostkeys
  BY DEF Next, BridgeStep, vars
<1>2. BridgeTypeOK'
  BY <1>1, BridgeTyped DEF RelaysInv
<1>3. SFTPInv'
  BY <1>1, SFTPStep DEF RelaysInv
<1>4. StatementInv'
  BY <1>1, StatementStep DEF RelaysInv
<1>5. HostKeysInv'
  BY <1>1, HostKeysStep DEF RelaysInv
<1> QED
  BY <1>1, <1>2, <1>3, <1>4, <1>5 DEF RelaysInv

\* The invariant of every relay holds in every state of the system.
THEOREM Invariant == Spec => []RelaysInv
<1>1. Init => RelaysInv
  BY BridgeStart, SFTPStart, StatementStart, HostKeysStart DEF Init, RelaysInv
<1> QED
  BY <1>1, RelaysStep, PTL DEF Spec

\* Every variable of the relays keeps its type: the queue of requests stays
\* within its capacity, the handles, texts and lines that are remembered are ones
\* that were sent or read, and the counters stay within their bounds.
THEOREM Typing == Spec => []TypeOK
<1>1. RelaysInv => TypeOK
  BY DEF RelaysInv, SFTPInv, StatementInv, HostKeysInv, TypeOK
<1> QED
  BY <1>1, Invariant, PTL

\* For any number of packets, cut into chunks of any size: as long as neither of
\* the two parsers of an SFTP session has overtaken the other, every recorded
\* operation names the path of the request it stands for, also for handles that
\* the server gives out again.
THEOREM HandlePaths == Spec => []PathsTrue
<1>1. RelaysInv => PathsTrue
  BY PathsFollow DEF RelaysInv
<1> QED
  BY <1>1, Invariant, PTL

\* The parser of the client's stream records every operation that a request alone
\* tells, once and in the order of the requests, however copyWithParser's reads
\* cut the stream.
THEOREM Operations == Spec => []OperationsRecorded
<1>1. RelaysInv => OperationsRecorded
  BY RecordedFollow DEF RelaysInv
<1> QED
  BY <1>1, Invariant, PTL

\* For any texts and any number of messages: the text that the proxies record of
\* a statement executed by name, number or handle is the one the server runs,
\* with the exceptions LoggedIsRun lists.
THEOREM Logged == Spec => []LoggedIsRun
<1>1. RelaysInv => LoggedIsRun
  BY DEF RelaysInv, StatementInv
<1> QED
  BY <1>1, Invariant, PTL

\* The relays of MySQL and Redis wait for the next command exactly when the
\* server has nothing left to say, with the exceptions InStep lists.
THEOREM Stepping == Spec => []InStep
<1>1. RelaysInv => InStep
  BY StepFollows DEF RelaysInv
<1> QED
  BY <1>1, Invariant, PTL

\* For any number of keys and of dials at a time: a host key that accept-new took
\* stays in the known_hosts file, whichever other connections learn or repair keys
\* meanwhile, until a newer key of the host, the operator or a stop in the middle
\* of a rewrite takes it away.
THEOREM KeysKept == Spec => []AcceptedKept
<1>1. RelaysInv => AcceptedKept
  BY KeptFollows DEF RelaysInv
<1> QED
  BY <1>1, Invariant, PTL
===============================================================================
