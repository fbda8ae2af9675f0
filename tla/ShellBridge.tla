------------------------------ MODULE ShellBridge ------------------------------
(***************************************************************************)
(* The connector's bridge-shell processes, one in each terminal a shell    *)
(* launch opens: runShellBridge with applyBridgeHostKeyPolicy, and the     *)
(* file of proxy keys they share, read, changed and written without a      *)
(* lock (upsertKnownHostLine).                                             *)
(***************************************************************************)
EXTENDS Naturals

CONSTANTS Bridges,      \* bridge processes
          Proxies,      \* SSH proxies, each with its address
          Port22,       \* those of them that listen on port 22
          ProxyKeys,    \* host keys
          Unknown,      \* no line for a proxy
          MaxBridges,   \* bound: processes started
          MaxRotations  \* bound: changes of a proxy's host key

ASSUME ShellBridgeAssumption ==
  /\ Proxies # {} /\ ProxyKeys # {} /\ Unknown \notin ProxyKeys
  /\ Port22 \subseteq Proxies
  /\ MaxBridges \in Nat /\ MaxRotations \in Nat

VARIABLES
  bridgeOf,   \* a bridge: its proxy, its policy, where it is, the key it fetched, the file it read
  hostKey,    \* the key each proxy has now
  trusted,    \* proxy_known_hosts: the key of each proxy's line
  hasToken,   \* bridges whose token file is on disk
  started,    \* bridges started so far
  rotations,  \* key changes so far
  crossed     \* bridges whose check and update were not alone (for the properties)

shell == <<bridgeOf, hostKey, trusted, hasToken, started, rotations, crossed>>

-------------------------------------------------------------------------------
TrustFile == [Proxies -> ProxyKeys \cup {Unknown}]

Empty == [x \in Proxies |-> Unknown]

AnyProxy == CHOOSE x \in Proxies : TRUE

Idle == [proxy |-> AnyProxy, policy |-> "strict", at |-> "none", key |-> Unknown, read |-> Empty]

\* Between the look at the file that decides and the end of the update.
Updating(b) == bridgeOf[b].at \in {"update", "write"}

ShellTypeOK ==
  /\ bridgeOf \in [Bridges ->
       [proxy : Proxies, policy : {"strict", "accept-new", "accept-replace"},
        at : {"none", "fetch", "check", "update", "write", "token", "dial", "connected"},
        key : ProxyKeys \cup {Unknown}, read : TrustFile]]
  /\ hostKey \in [Proxies -> ProxyKeys]
  /\ trusted \in TrustFile
  /\ hasToken \subseteq Bridges /\ crossed \subseteq Bridges
  /\ started \in 0 .. MaxBridges /\ rotations \in 0 .. MaxRotations

ShellInit ==
  /\ bridgeOf = [b \in Bridges |-> Idle]
  /\ hostKey \in [Proxies -> {CHOOSE k \in ProxyKeys : TRUE}]
  /\ trusted = Empty
  /\ hasToken = {} /\ crossed = {}
  /\ started = 0 /\ rotations = 0

Moves(b, where) == bridgeOf' = [bridgeOf EXCEPT ![b].at = where]

Exits(b) == bridgeOf' = [bridgeOf EXCEPT ![b] = Idle]

-------------------------------------------------------------------------------
\* A terminal runs the command with the token file the launch made.
StartBridge(b, x, m) ==
  /\ bridgeOf[b].at = "none" /\ started < MaxBridges
  /\ started' = started + 1
  /\ bridgeOf' = [bridgeOf EXCEPT ![b] = [Idle EXCEPT !.proxy = x, !.policy = m, !.at = "fetch"]]
  /\ hasToken' = hasToken \cup {b}
  /\ crossed' = crossed \ {b}
  /\ UNCHANGED <<hostKey, trusted, rotations>>

\* fetchSSHHostKey: the key the proxy shows in a handshake that is given up.
FetchProxyKey(b, reached) ==
  /\ bridgeOf[b].at = "fetch"
  /\ IF reached
       THEN bridgeOf' = [bridgeOf EXCEPT ![b].at = "check", ![b].key = hostKey[bridgeOf[b].proxy]]
       ELSE Exits(b)
  /\ UNCHANGED <<hostKey, trusted, hasToken, started, rotations, crossed>>

\* Mutant: accept-new takes a changed key too.
MMayUpdate(m, known) == m \in {"accept-new", "accept-replace"}

\* The policies that let a key which is not the known one be written.
MayUpdate(m, known) == m = "accept-replace" \/ (m = "accept-new" /\ known = Unknown)

\* The look at the file in applyBridgeHostKeyPolicy.  The address of a proxy
\* on port 22 is passed without its port, which the library does not take.
CheckPolicy(b) ==
  /\ bridgeOf[b].at = "check"
  /\ LET x     == bridgeOf[b].proxy
         known == trusted[x]
     IN  IF x \in Port22 THEN Exits(b)
         ELSE IF known = bridgeOf[b].key THEN Moves(b, "token")
         ELSE IF MayUpdate(bridgeOf[b].policy, known) THEN Moves(b, "update")
         ELSE Exits(b)
  /\ LET others == {c \in Bridges \ {b} : Updating(c)} IN
       crossed' = IF others = {} THEN crossed ELSE crossed \cup others \cup {b}
  /\ UNCHANGED <<hostKey, trusted, hasToken, started, rotations>>

\* upsertKnownHostLine reads the file again ...
ReadTrusted(b) ==
  /\ bridgeOf[b].at = "update"
  /\ bridgeOf' = [bridgeOf EXCEPT ![b].at = "write", ![b].read = trusted]
  /\ UNCHANGED <<hostKey, trusted, hasToken, started, rotations, crossed>>

\* ... and writes it with the proxy's line replaced or added.
WriteTrusted(b) ==
  /\ bridgeOf[b].at = "write"
  /\ trusted' = [bridgeOf[b].read EXCEPT ![bridgeOf[b].proxy] = bridgeOf[b].key]
  /\ bridgeOf' = [bridgeOf EXCEPT ![b].at = "token", ![b].read = Empty]
  /\ UNCHANGED <<hostKey, hasToken, started, rotations, crossed>>

\* The terminal is raw; the token is read and its file removed.
TakeToken(b, isTerminal) ==
  /\ bridgeOf[b].at = "token"
  /\ IF isTerminal THEN Moves(b, "dial") /\ hasToken' = hasToken \ {b}
     ELSE Exits(b) /\ UNCHANGED hasToken
  /\ UNCHANGED <<hostKey, trusted, started, rotations, crossed>>

\* dialSSHWithContext, with the fetched key as the only good one, and the
\* session on top of it.
DialProxy(b, accepted) ==
  /\ bridgeOf[b].at = "dial"
  /\ IF accepted /\ hostKey[bridgeOf[b].proxy] = bridgeOf[b].key THEN Moves(b, "connected") ELSE Exits(b)
  /\ UNCHANGED <<hostKey, trusted, hasToken, started, rotations, crossed>>

\* The shell ends, or the terminal is closed at any time.
EndBridge(b) ==
  /\ bridgeOf[b].at # "none"
  /\ Exits(b)
  /\ UNCHANGED <<hostKey, trusted, hasToken, started, rotations, crossed>>

\* os.WriteFile empties the file before it writes.
DieWriting(b) ==
  /\ bridgeOf[b].at = "write"
  /\ Exits(b)
  /\ trusted' = Empty
  /\ UNCHANGED <<hostKey, hasToken, started, rotations, crossed>>

RotateProxyKey(x, k) ==
  /\ rotations < MaxRotations /\ k # hostKey[x]
  /\ rotations' = rotations + 1
  /\ hostKey' = [hostKey EXCEPT ![x] = k]
  /\ UNCHANGED <<bridgeOf, trusted, hasToken, started, crossed>>

ShellNext ==
  \/ \E b \in Bridges :
       \/ \E x \in Proxies, m \in {"strict", "accept-new", "accept-replace"} : StartBridge(b, x, m)
       \/ CheckPolicy(b) \/ ReadTrusted(b) \/ WriteTrusted(b) \/ EndBridge(b) \/ DieWriting(b)
       \/ \E ok \in BOOLEAN : FetchProxyKey(b, ok) \/ TakeToken(b, ok) \/ DialProxy(b, ok)
  \/ \E x \in Proxies, k \in ProxyKeys : RotateProxyKey(x, k)

-------------------------------------------------------------------------------
\* The key a user has once accepted for a proxy changes only by a bridge to that
\* proxy that was told to replace keys.  Two things break this: bridges whose
\* check and update of the file overlap, and one that dies in its write.
TrustKept ==
  [][\A x \in Proxies : trusted[x] # Unknown /\ trusted'[x] # trusted[x] =>
       \E b \in Bridges :
         /\ bridgeOf[b].at = "write"
         /\ \/ bridgeOf[b].proxy = x /\ bridgeOf[b].policy = "accept-replace"
            \/ b \in crossed
            \/ bridgeOf'[b].at = "none"]_shell
===============================================================================
