------------------------------- MODULE HostKeys -------------------------------
(***************************************************************************)
(* How the SSH proxy trusts its upstream hosts, sshproxy: connectUpstream  *)
(* with the repair of known_hosts, buildUpstreamHostKeyCallback and        *)
(* upsertKnownHostEntry.  The callback is built once, when the proxy       *)
(* starts, and keeps the lines the file had then; both ways of learning a  *)
(* key rewrite the file under knownHostsMu, and the operator edits it with *)
(* ssh-keyscan and ssh-keygen.                                             *)
(*                                                                         *)
(* All keys have one type.  The library uses the first line that matches   *)
(* an address and type, and looks an endpoint up by the name it was dialled*)
(* by.                                                                     *)
(***************************************************************************)
EXTENDS Naturals, Sequences, FiniteSets, SequencesExt

CONSTANTS Endpoints,  \* the upstream hosts
          Keys,       \* their host keys
          NoKey,      \* no key
          Dials,      \* connections of the proxy
          MaxLines,   \* bound: no new dial when the file has so many lines
          MaxChanges  \* bound: key rotations, edits of the operator and restarts

ASSUME HostKeysAssumption ==
  /\ Endpoints \subseteq {"address", "v6", "name", "name22"} /\ Endpoints # {}
  /\ Keys # {} /\ NoKey \notin Keys
  /\ MaxLines \in Nat /\ MaxChanges \in Nat

VARIABLES
  mode,      \* UpstreamHostKeyMode
  autoFix,   \* UpstreamHostKeyAutoFix
  known,     \* the lines of the known_hosts file
  loaded,    \* the lines the callback was built from
  running,   \* the proxy is up
  hostKey,   \* the key each host has now
  dial,      \* the connections being made
  changes,   \* rotations, edits and restarts so far
  accepted   \* the last key accept-new took from each host (for the properties)

hostkeys == <<mode, autoFix, known, loaded, running, hostKey, dial, changes, accepted>>

-------------------------------------------------------------------------------
(***************************************************************************)
(* Endpoints and the patterns of the file.  "address" is an IPv4 address,  *)
(* "v6" an IPv6 address on a port other than 22, "name" a host name on     *)
(* such a port and "name22" a host name on port 22.                        *)
(***************************************************************************)

\* knownHostsAddrString takes the address of the connection, which is not what
\* a host name is looked up by.  The repair has no connection and makes up an
\* address from the host: a name yields none, and on port 22 nothing is left of
\* the pattern.
Pattern(e, repairing) ==
  CASE e \in {"address", "v6"} -> e
    [] e \in {"name", "name22"} /\ ~repairing -> "ip"
    [] e = "name" /\ repairing -> "port"
    [] e = "name22" /\ repairing -> "empty"

Patterns == Endpoints \cup {"ip", "port", "empty"}

\* The line is written in the normal form of knownhosts.Line, and searched for
\* in the form the pattern had before: they are the same for "v6" only.
Replaceable(e) == e = "v6"

\* A line that was taken out is left blank here: the library and the rewrite
\* skip blank lines.
Gone == [at |-> "gone", key |-> NoKey]

Line == [at : Patterns, key : Keys] \cup {Gone}

\* The key the lines hold for an endpoint: the first that matches.
Listed(lines, e) ==
  LET own == {i \in DOMAIN lines : lines[i].at = e}
  IN  IF own = {} THEN NoKey ELSE lines[CHOOSE i \in own : \A j \in own : i <= j].key

\* The library does not parse a line without a pattern.
Loadable(lines) == \A l \in ToSet(lines) : l.at # "empty"

\* upsertKnownHostEntry: the first old line is replaced, the others go.
Upserted(lines, e, repairing, k) ==
  LET line == [at |-> Pattern(e, repairing), key |-> k]
      old  == {i \in DOMAIN lines : Replaceable(e) /\ lines[i].at = line.at}
  IN  IF old = {} THEN Append(lines, line)
      ELSE [i \in DOMAIN lines |-> IF i \notin old THEN lines[i]
                                  ELSE IF \A j \in old : i <= j THEN line ELSE Gone]

NoDial == [at |-> "idle", to |-> CHOOSE e \in Endpoints : TRUE, key |-> NoKey,
           repairing |-> FALSE, lines |-> <<>>, listed |-> FALSE]

DialRow == [at : {"idle", "learn", "write", "fetch", "retry", "connected", "failed", "refused"},
            to : Endpoints, key : Keys \cup {NoKey}, repairing : BOOLEAN, lines : Seq(Line),
            listed : BOOLEAN]

HostKeysTypeOK ==
  /\ mode \in {"insecure", "known-hosts", "accept-new"}
  /\ autoFix \in BOOLEAN
  /\ known \in Seq(Line) /\ loaded \in Seq(Line)
  /\ running \in BOOLEAN
  /\ hostKey \in [Endpoints -> Keys]
  /\ dial \in [Dials -> DialRow]
  /\ changes \in 0 .. MaxChanges
  /\ accepted \in [Endpoints -> Keys \cup {NoKey}]

\* The proxy has just started, with an empty file.
HostKeysInit ==
  /\ mode \in {"insecure", "known-hosts", "accept-new"}
  /\ autoFix \in BOOLEAN
  /\ known = <<>> /\ loaded = <<>>
  /\ running = TRUE
  /\ hostKey \in [Endpoints -> {CHOOSE k \in Keys : TRUE}]
  /\ dial = [d \in Dials |-> NoDial]
  /\ changes = 0
  /\ accepted = [e \in Endpoints |-> NoKey]

-------------------------------------------------------------------------------
(***************************************************************************)
(* A connection: the dial with its check of the key, the repair, the retry.*)
(***************************************************************************)

\* What the callback makes of the key that the host presents.
Verdict(e) ==
  IF mode = "insecure" \/ Listed(loaded, e) = hostKey[e] THEN "known"
  ELSE IF mode = "accept-new" THEN "learn" ELSE "refused"

\* After the check of the key a dial may still fail: the credential, the
\* authentication, the session.
Concluded == {"connected", "failed"}

Dial(d, e) ==
  /\ running /\ dial[d].at = "idle"
  /\ Len(known) < MaxLines
  /\ \E at \in (CASE Verdict(e) = "known"   -> Concluded
                  [] Verdict(e) = "learn"   -> {"learn", "failed"}
                  [] Verdict(e) = "refused" -> {IF autoFix THEN "fetch" ELSE "refused", "failed"}) :
       dial' = [dial EXCEPT ![d] = [NoDial EXCEPT !.at = at, !.to = e, !.key = hostKey[e],
                                      !.listed = (Listed(known, e) = hostKey[e])]]
  /\ UNCHANGED <<mode, autoFix, known, loaded, running, hostKey, changes, accepted>>

\* Mutant: the file is rewritten without the lock.
MUnlocked == TRUE

\* knownHostsMu is free.
Unlocked == \A d \in Dials : dial[d].at # "write"

\* The file is read under the lock.
ReadKnownHosts(d) ==
  /\ running /\ dial[d].at = "learn" /\ Unlocked
  /\ dial' = [dial EXCEPT ![d].at = "write", ![d].lines = known]
  /\ UNCHANGED <<mode, autoFix, known, loaded, running, hostKey, changes, accepted>>

\* The file is written, and the lock given up.
WriteKnownHosts(d) ==
  /\ running /\ dial[d].at = "write"
  /\ LET x == dial[d] IN
       /\ known' = Upserted(x.lines, x.to, x.repairing, x.key)
       /\ accepted' = IF x.repairing THEN accepted ELSE [accepted EXCEPT ![x.to] = x.key]
       /\ \E at \in (IF x.repairing THEN {"retry"} ELSE Concluded) :
            dial' = [dial EXCEPT ![d].at = at, ![d].lines = <<>>]
  /\ UNCHANGED <<mode, autoFix, loaded, running, hostKey, changes>>

\* tryAutoRepairKnownHostsOnDialError asks the host for its key once more.
FetchHostKey(d, reached) ==
  /\ running /\ dial[d].at = "fetch"
  /\ dial' = IF reached THEN [dial EXCEPT ![d].at = "learn", ![d].repairing = TRUE, ![d].key = hostKey[dial[d].to]]
             ELSE [dial EXCEPT ![d].at = "refused"]
  /\ UNCHANGED <<mode, autoFix, known, loaded, running, hostKey, changes, accepted>>

\* The second dial has the same callback.
RetryDial(d) ==
  /\ running /\ dial[d].at = "retry"
  /\ \E at \in (IF Verdict(dial[d].to) = "known" THEN Concluded ELSE {"refused"}) :
       dial' = [dial EXCEPT ![d].at = at]
  /\ UNCHANGED <<mode, autoFix, known, loaded, running, hostKey, changes, accepted>>

\* The connection is over.
Hangup(d) ==
  /\ dial[d].at \in Concluded \cup {"refused"}
  /\ dial' = [dial EXCEPT ![d] = NoDial]
  /\ UNCHANGED <<mode, autoFix, known, loaded, running, hostKey, changes, accepted>>

-------------------------------------------------------------------------------
(***************************************************************************)
(* The hosts, the operator and the process.                                *)
(***************************************************************************)
Change == changes < MaxChanges /\ changes' = changes + 1

RotateHostKey(e, k) ==
  /\ Change
  /\ hostKey' = [hostKey EXCEPT ![e] = k]
  /\ UNCHANGED <<mode, autoFix, known, loaded, running, dial, accepted>>

\* ssh-keyscan, appended to the file.
OperatorAdds(e) ==
  /\ Change
  /\ known' = Append(known, [at |-> e, key |-> hostKey[e]])
  /\ UNCHANGED <<mode, autoFix, loaded, running, hostKey, dial, accepted>>

\* ssh-keygen -R: the lines of the endpoint's own name.
OperatorRemoves(e) ==
  /\ Change
  /\ known' = [i \in DOMAIN known |-> IF known[i].at = e THEN Gone ELSE known[i]]
  /\ accepted' = [accepted EXCEPT ![e] = NoKey]
  /\ UNCHANGED <<mode, autoFix, loaded, running, hostKey, dial>>

\* The process dies or is stopped.  A file that was being written is empty:
\* os.WriteFile truncates it first.
Stop ==
  /\ running /\ Change
  /\ running' = FALSE
  /\ dial' = [d \in Dials |-> NoDial]
  /\ LET writing == ~ \A d \in Dials : dial[d].at # "write" IN
       \E torn \in {FALSE, writing} :
         /\ known' = IF torn THEN <<>> ELSE known
         /\ accepted' = IF torn THEN [e \in Endpoints |-> NoKey] ELSE accepted
  /\ UNCHANGED <<mode, autoFix, loaded, hostKey>>

\* New: the callback is built from the file, or the server does not start.
Start ==
  /\ ~running
  /\ mode = "insecure" \/ Loadable(known)
  /\ running' = TRUE
  /\ loaded' = IF mode = "insecure" THEN loaded ELSE known
  /\ UNCHANGED <<mode, autoFix, known, hostKey, dial, changes, accepted>>

HostKeysNext ==
  \/ \E d \in Dials :
       \/ \E e \in Endpoints : Dial(d, e)
       \/ ReadKnownHosts(d) \/ WriteKnownHosts(d) \/ RetryDial(d) \/ Hangup(d)
       \/ \E reached \in BOOLEAN : FetchHostKey(d, reached)
  \/ \E e \in Endpoints :
       OperatorAdds(e) \/ OperatorRemoves(e) \/ \E k \in Keys \ {hostKey[e]} : RotateHostKey(e, k)
  \/ Stop \/ Start

HostKeysSpec == HostKeysInit /\ [][HostKeysNext]_hostkeys

-------------------------------------------------------------------------------
\* A key that accept-new took from a host stays in the file, whatever other
\* connections learn or repair at the same time and whatever the operator adds:
\* the two steps of a rewrite are under the lock.  Only a newer key of the host,
\* the operator, or a stop in the middle of a rewrite takes it away.
AcceptedKept ==
  \A e \in Endpoints : accepted[e] # NoKey =>
    \E l \in ToSet(known) : l.at = Pattern(e, FALSE) /\ l.key = accepted[e]

\* "No service restart is needed - the proxy reads the known-hosts file on each
\* connection" (DEPLOY.md): a host whose key is in the file when it is dialled
\* is not refused for its key.
NoRestartNeeded == \A d \in Dials : dial[d].at = "refused" => ~dial[d].listed
===============================================================================
