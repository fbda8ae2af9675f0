---------------------------- MODULE ConnectorProofs ----------------------------
(***************************************************************************)
(* Proofs about Connector, for any number of processes, launches, jobs and *)
(* bridges.  Each part has its own inductive invariant, over its own       *)
(* variables; a step of another part leaves them alone.                    *)
(***************************************************************************)
EXTENDS Connector, FiniteSetTheorems, TLAPS

USE LocalTLSAssumption, LaunchesAssumption, ShellBridgeAssumption

-------------------------------------------------------------------------------
(***************************************************************************)
(* The certificate files.                                                  *)
(***************************************************************************)

\* The processes that may still make a leaf key, and those that may make a root.
LeafMakers == {p \in Procs : at[p] \in {"root", "rootCert", "rootKey", "leaf"}}

RootMakers == {p \in Procs : at[p] = "root"}

\* Every start allows two keys.
KeysCounted ==
  /\ IsFiniteSet(LeafMakers) /\ IsFiniteSet(RootMakers)
  /\ made + Cardinality(LeafMakers) + Cardinality(RootMakers) <= 2 * starts

Active(p) == at[p] \in Preparing \cup {"ready", "fallback"}

\* Two processes that prepare at the same time both know of it.
OverlapSeen == \A p, q \in Procs : p # q /\ Active(p) /\ Active(q) => p \in overlapped

\* What a process that is alone has on disk at each of its steps.
Along(p) ==
  /\ at[p] \in {"rootCert", "rootKey", "leaf", "leafCert", "leafKey", "ready"} => mine[p].root # 0
  /\ at[p] \in {"leafCert", "leafKey"} => mine[p].key # 0
  /\ at[p] \in {"rootKey", "leaf", "leafCert", "leafKey", "ready"} => rootCert = mine[p].root
  /\ at[p] \in {"leaf", "leafCert", "leafKey", "ready"} => rootKey = mine[p].root
  /\ at[p] = "leafKey" => leafCert = [key |-> mine[p].key, by |-> mine[p].root]
  /\ at[p] = "ready" => leafCert.by = rootCert /\ leafKey = leafCert.key /\ leafKey # 0

FilesAlong == \A p \in Procs \ overlapped : Along(p)

TLSInv == LocalTLSTypeOK /\ KeysCounted /\ OverlapSeen /\ FilesAlong

-------------------------------------------------------------------------------
(***************************************************************************)
(* The launches.                                                           *)
(***************************************************************************)

\* What is scheduled, unused, or stopped.
LaunchesOrder ==
  /\ \A n \in Numbers : n > count => req[n].at = "none"
  /\ \A n \in timers \cup reading : req[n].at = "ended"
  /\ \A n \in Numbers : req[n].at \in {"manifest", "attempt", "retry"} => dirs[n] # "none"
  /\ ~up => timers = {} /\ \A n \in Numbers : req[n].at \in {"none", "ended"}

Launching(n, j) == req[n].job = j /\ req[n].at \in Steps

\* A job has one launch at most, and none before the tracker has its entry; its
\* client has not been opened while the launch runs.
OneLaunch(j) ==
  /\ opened[j] <= 1
  /\ entries[j].state = "none" => opened[j] = 0 /\ ~Running(j)
  /\ Running(j) => opened[j] = 0
  /\ \A n, m \in Numbers : Launching(n, j) /\ Launching(m, j) => n = m

OneLaunchEach == overrun \/ \A j \in Jobs : OneLaunch(j)

\* Two launches that use the site file at the same time are both marked.
SharingSeen == \A n, m \in SiteUsers : n # m => n \in shared

\* The site of a launch that is alone is its own from the write on.
SiteAlong ==
  \A n \in Numbers \ shared :
    (n \in reading \/ (req[n].at = "program" /\ ~req[n].direct)) => sites[Site(n)] = req[n].job[2]

LaunchesInv ==
  LaunchesTypeOK /\ LaunchesOrder /\ OneLaunchEach /\ SharingSeen /\ SiteAlong /\ SiteIsOwn

-------------------------------------------------------------------------------
(***************************************************************************)
(* The bridges.                                                            *)
(***************************************************************************)

\* Two bridges that check and update at the same time are both marked.
CrossingSeen == \A b, c \in Bridges : b # c /\ Updating(b) /\ Updating(c) => b \in crossed

\* A bridge that is alone writes what the policy allows into the file as it is.
Allowed ==
  \A b \in Bridges \ crossed :
    /\ Updating(b) => MayUpdate(bridgeOf[b].policy, trusted[bridgeOf[b].proxy])
    /\ bridgeOf[b].at = "write" => bridgeOf[b].read = trusted

ShellInv == ShellTypeOK /\ CrossingSeen /\ Allowed

-------------------------------------------------------------------------------
BridgeRow ==
  [proxy : Proxies, policy : {"strict", "accept-new", "accept-replace"},
   at : {"none", "fetch", "check", "update", "write", "token", "dial", "connected"},
   key : ProxyKeys \cup {Unknown}, read : TrustFile]

\* What a bridge is while it does not run.
LEMMA IdleTyped == Idle \in BridgeRow
<1>1. AnyProxy \in Proxies
  BY DEF AnyProxy
<1>2. Empty \in TrustFile
  BY DEF Empty, TrustFile
<1> QED
  BY <1>1, <1>2 DEF Idle, BridgeRow

\* The bridges start with their invariant.
LEMMA ShellStart == ShellInit => ShellInv
<1> SUFFICES ASSUME ShellInit PROVE ShellInv
  OBVIOUS
<1>1. (CHOOSE k \in ProxyKeys : TRUE) \in ProxyKeys
  OBVIOUS
<1>2. ShellTypeOK
  BY <1>1, IdleTyped DEF ShellInit, ShellTypeOK, TrustFile, Empty, BridgeRow
<1>3. \A b \in Bridges : bridgeOf[b].at = "none"
  BY DEF ShellInit, Idle
<1> QED
  BY <1>2, <1>3 DEF ShellInv, CrossingSeen, Allowed, Updating

\* A bridge that starts, moves without a write, or ends: its file, the mark of
\* the others and their place stay.
LEMMA ShellMove ==
  ASSUME ShellInv, NEW b \in Bridges, ShellTypeOK', trusted' = trusted,
         \A c \in Bridges \ {b} : bridgeOf'[c] = bridgeOf[c],
         crossed \ {b} \subseteq crossed',
         ~Updating(b)'
  PROVE  ShellInv'
<1> USE DEF ShellInv, ShellTypeOK
<1>1. CrossingSeen'
  BY DEF CrossingSeen, Updating
<1>2. Allowed'
  BY DEF Allowed, Updating
<1> QED
  BY <1>1, <1>2

\* Every step of a bridge keeps the invariant.
LEMMA ShellKept == ShellInv /\ [ShellNext]_shell => ShellInv'
<1> SUFFICES ASSUME ShellInv, [ShellNext]_shell PROVE ShellInv'
  OBVIOUS
<1>0. ShellTypeOK /\ CrossingSeen /\ Allowed
  BY DEF ShellInv
<1>1. ASSUME NEW b \in Bridges, NEW x \in Proxies,
             NEW m \in {"strict", "accept-new", "accept-replace"}, StartBridge(b, x, m)
      PROVE  ShellInv'
  <2>1. [Idle EXCEPT !.proxy = x, !.policy = m, !.at = "fetch"] \in BridgeRow
    BY IdleTyped DEF BridgeRow
  <2>2. ShellTypeOK'
    BY <1>0, <1>1, <2>1 DEF StartBridge, ShellTypeOK, BridgeRow
  <2>3. bridgeOf'[b].at = "fetch"
    BY <1>0, <1>1 DEF StartBridge, ShellTypeOK, Idle
  <2> QED
    BY <1>0, <1>1, <2>2, <2>3, ShellMove DEF StartBridge, ShellTypeOK, Updating
<1>2. ASSUME NEW b \in Bridges, NEW ok \in BOOLEAN, FetchProxyKey(b, ok)
      PROVE  ShellInv'
  <2>1. ShellTypeOK'
    BY <1>0, <1>2, IdleTyped DEF FetchProxyKey, ShellTypeOK, Exits, BridgeRow
  <2>2. bridgeOf'[b].at \in {"check", "none"}
    BY <1>0, <1>2 DEF FetchProxyKey, ShellTypeOK, Exits, Idle
  <2> QED
    BY <1>0, <1>2, <2>1, <2>2, ShellMove DEF FetchProxyKey, ShellTypeOK, Exits, Updating
<1>3. ASSUME NEW b \in Bridges, CheckPolicy(b)
      PROVE  ShellInv'
  <2>1. ShellTypeOK'
    <3>1. bridgeOf' \in [Bridges -> BridgeRow]
      BY <1>0, <1>3, IdleTyped DEF CheckPolicy, ShellTypeOK, Exits, Moves, BridgeRow
    <3>2. crossed' \subseteq Bridges
      BY <1>0, <1>3 DEF CheckPolicy, ShellTypeOK
    <3> QED
      BY <1>0, <1>3, <3>1, <3>2 DEF CheckPolicy, ShellTypeOK, BridgeRow
  <2>2. CASE ~Updating(b)'
    <3>1. crossed \subseteq crossed' /\ trusted' = trusted
      BY <1>3 DEF CheckPolicy
    <3>2. \A c \in Bridges \ {b} : bridgeOf'[c] = bridgeOf[c]
      BY <1>0, <1>3 DEF CheckPolicy, ShellTypeOK, Exits, Moves
    <3> QED
      BY <2>1, <2>2, <3>1, <3>2, ShellMove
  <2>3. CASE Updating(b)'
    <3>1. /\ bridgeOf' = [bridgeOf EXCEPT ![b].at = "update"]
          /\ MayUpdate(bridgeOf[b].policy, trusted[bridgeOf[b].proxy])
      <4>1. CASE bridgeOf' = [bridgeOf EXCEPT ![b] = Idle]
        BY <1>0, <2>3, <4>1 DEF Updating, ShellTypeOK, Idle
      <4>2. CASE bridgeOf' = [bridgeOf EXCEPT ![b].at = "token"]
        BY <1>0, <2>3, <4>2 DEF Updating, ShellTypeOK
      <4> QED
        BY <1>3, <4>1, <4>2 DEF CheckPolicy, Exits, Moves
    <3>2. /\ trusted' = trusted
          /\ \A c \in Bridges \ {b} : Updating(c) => {b, c} \subseteq crossed'
          /\ crossed \subseteq crossed'
      BY <1>3 DEF CheckPolicy
    <3>3. /\ \A c \in Bridges \ {b} : bridgeOf'[c] = bridgeOf[c]
          /\ bridgeOf'[b] = [bridgeOf[b] EXCEPT !.at = "update"]
      BY <1>0, <3>1 DEF ShellTypeOK
    <3>4. CrossingSeen'
      BY <1>0, <3>2, <3>3 DEF CrossingSeen, Updating
    <3>5. Allowed'
      <4>1. /\ bridgeOf'[b].policy = bridgeOf[b].policy /\ bridgeOf'[b].proxy = bridgeOf[b].proxy
            /\ bridgeOf'[b].at = "update"
        BY <1>0, <3>3 DEF ShellTypeOK
      <4> QED
        BY <1>0, <3>1, <3>2, <3>3, <4>1 DEF Allowed, Updating
    <3> QED
      BY <2>1, <3>4, <3>5 DEF ShellInv
  <2> QED
    BY <2>2, <2>3
<1>4. ASSUME NEW b \in Bridges, ReadTrusted(b)
      PROVE  ShellInv'
  <2>1. ShellTypeOK'
    <3>1. [bridgeOf[b] EXCEPT !.at = "write", !.read = trusted] \in BridgeRow
      BY <1>0 DEF ShellTypeOK, BridgeRow
    <3>2. bridgeOf' \in [Bridges -> BridgeRow]
      BY <1>0, <1>4, <3>1 DEF ReadTrusted, ShellTypeOK, BridgeRow
    <3> QED
      BY <1>0, <1>4, <3>2 DEF ReadTrusted, ShellTypeOK, BridgeRow
  <2>2. /\ \A c \in Bridges \ {b} : bridgeOf'[c] = bridgeOf[c]
        /\ bridgeOf'[b].at = "write" /\ bridgeOf'[b].read = trusted
        /\ bridgeOf'[b].policy = bridgeOf[b].policy /\ bridgeOf'[b].proxy = bridgeOf[b].proxy
        /\ trusted' = trusted /\ crossed' = crossed /\ bridgeOf[b].at = "update"
    BY <1>0, <1>4 DEF ReadTrusted, ShellTypeOK
  <2>3. CrossingSeen'
    BY <1>0, <2>2 DEF CrossingSeen, Updating
  <2>4. Allowed'
    BY <1>0, <2>2 DEF Allowed, Updating
  <2> QED
    BY <2>1, <2>3, <2>4 DEF ShellInv
<1>5. ASSUME NEW b \in Bridges, WriteTrusted(b) \/ DieWriting(b)
      PROVE  ShellInv'
  <2>1. Empty \in TrustFile
    BY DEF Empty, TrustFile
  <2>2. ShellTypeOK'
    <3>1. CASE WriteTrusted(b)
      <4>1. trusted' \in TrustFile
        BY <1>0, <3>1 DEF WriteTrusted, ShellTypeOK, TrustFile
      <4>2. bridgeOf' = [bridgeOf EXCEPT ![b].at = "token", ![b].read = Empty]
        BY <3>1 DEF WriteTrusted
      <4>3. [bridgeOf[b] EXCEPT !.at = "token", !.read = Empty] \in BridgeRow
        BY <1>0, <2>1 DEF ShellTypeOK, BridgeRow
      <4>4. bridgeOf' \in [Bridges -> BridgeRow]
        BY <1>0, <4>2, <4>3 DEF ShellTypeOK, BridgeRow
      <4> QED
        BY <1>0, <3>1, <4>1, <4>4 DEF WriteTrusted, ShellTypeOK, BridgeRow
    <3>2. CASE DieWriting(b)
      BY <1>0, <3>2, <2>1, IdleTyped DEF DieWriting, ShellTypeOK, Exits, BridgeRow
    <3> QED
      BY <1>5, <3>1, <3>2
  <2>3. /\ \A c \in Bridges \ {b} : bridgeOf'[c] = bridgeOf[c]
        /\ bridgeOf'[b].at \in {"token", "none"}
        /\ crossed' = crossed /\ bridgeOf[b].at = "write"
    BY <1>0, <1>5 DEF WriteTrusted, DieWriting, Exits, ShellTypeOK, Idle
  <2>4. CrossingSeen'
    BY <1>0, <2>3 DEF CrossingSeen, Updating
  <2>5. Allowed'
    \* Another one that updates is marked.
    BY <1>0, <2>3 DEF Allowed, CrossingSeen, Updating
  <2> QED
    BY <2>2, <2>4, <2>5 DEF ShellInv
<1>6. ASSUME NEW b \in Bridges, NEW ok \in BOOLEAN,
             TakeToken(b, ok) \/ DialProxy(b, ok) \/ EndBridge(b)
      PROVE  ShellInv'
  <2>1. ShellTypeOK'
    <3>1. CASE TakeToken(b, ok)
      BY <1>0, <3>1, IdleTyped DEF TakeToken, ShellTypeOK, Exits, Moves, BridgeRow
    <3>2. CASE DialProxy(b, ok)
      BY <1>0, <3>2, IdleTyped DEF DialProxy, ShellTypeOK, Exits, Moves, BridgeRow
    <3>3. CASE EndBridge(b)
      BY <1>0, <3>3, IdleTyped DEF EndBridge, ShellTypeOK, Exits, BridgeRow
    <3> QED
      BY <1>6, <3>1, <3>2, <3>3
  <2>2. /\ bridgeOf'[b].at \in {"dial", "connected", "none"}
        /\ \A c \in Bridges \ {b} : bridgeOf'[c] = bridgeOf[c]
        /\ trusted' = trusted /\ crossed' = crossed
    BY <1>0, <1>6 DEF TakeToken, DialProxy, EndBridge, ShellTypeOK, Exits, Moves, Idle
  <2> QED
    BY <2>1, <2>2, ShellMove DEF Updating
<1>7. ASSUME NEW x \in Proxies, NEW k \in ProxyKeys, RotateProxyKey(x, k)
      PROVE  ShellInv'
  BY <1>0, <1>7 DEF RotateProxyKey, ShellInv, ShellTypeOK, CrossingSeen, Allowed, Updating
<1>8. CASE UNCHANGED shell
  BY <1>0, <1>8 DEF shell, ShellInv, ShellTypeOK, CrossingSeen, Allowed, Updating
<1> QED
  BY <1>1, <1>2, <1>3, <1>4, <1>5, <1>6, <1>7, <1>8 DEF ShellNext

-------------------------------------------------------------------------------
\* The starts with no file and no process.
LEMMA TLSStart == LocalTLSInit => TLSInv
<1> SUFFICES ASSUME LocalTLSInit PROVE TLSInv
  OBVIOUS
<1>0. 0 \in KeyNumbers /\ 0 \in 0 .. MaxStarts /\ 0 \in 0 .. MaxAging /\ 0 \in 0 .. 2
  BY DEF KeyNumbers
<1>1. LocalTLSTypeOK
  BY <1>0 DEF LocalTLSInit, LocalTLSTypeOK, NoKeys, NoLeaf
<1>2. LeafMakers = {} /\ RootMakers = {}
  BY DEF LocalTLSInit, LeafMakers, RootMakers
<1>3. KeysCounted
  BY <1>2, FS_EmptySet DEF KeysCounted, LocalTLSInit
<1> QED
  BY <1>1, <1>3 DEF TLSInv, OverlapSeen, FilesAlong, Along, Active, Preparing, Writing, LocalTLSInit

\* Taking an element out of a finite set, or putting one in.
LEMMA OneMore ==
  ASSUME NEW S, NEW x, IsFiniteSet(S)
  PROVE  /\ IsFiniteSet(S \cup {x}) /\ IsFiniteSet(S \ {x})
         /\ Cardinality(S) \in Nat
         /\ Cardinality(S \cup {x}) \in Nat /\ Cardinality(S \cup {x}) <= Cardinality(S) + 1
         /\ Cardinality(S \ {x}) \in Nat /\ Cardinality(S \ {x}) <= Cardinality(S)
         /\ x \in S => Cardinality(S \ {x}) = Cardinality(S) - 1
<1>1. Cardinality(S) \in Nat
  BY FS_CardinalityType
<1>2. IsFiniteSet(S \cup {x}) /\ Cardinality(S \cup {x}) = IF x \in S THEN Cardinality(S) ELSE Cardinality(S) + 1
  BY FS_AddElement
<1>3. IsFiniteSet(S \ {x}) /\ Cardinality(S \ {x}) = IF x \in S THEN Cardinality(S) - 1 ELSE Cardinality(S)
  BY FS_RemoveElement
<1>4. Cardinality(S \ {x}) \in Nat
  BY <1>3, FS_CardinalityType
<1> QED
  BY <1>1, <1>2, <1>3, <1>4

\* A step of p that makes no key and does not go back: the count stays covered.
LEMMA CountKept ==
  ASSUME KeysCounted, LocalTLSTypeOK, NEW p \in Procs, NEW where, at' = [at EXCEPT ![p] = where],
         made' = made, starts' = starts,
         where \in {"rootCert", "rootKey", "leaf"} => p \in LeafMakers,
         where # "root"
  PROVE  KeysCounted'
<1> DEFINE L == LeafMakers  R == RootMakers
<1>1. R' = R \ {p}
  BY DEF RootMakers, LocalTLSTypeOK
<1>2. L' = L \/ L' = L \ {p}
  <2>1. \A q \in Procs \ {p} : q \in L' <=> q \in L
    BY DEF LeafMakers, LocalTLSTypeOK
  <2>2. p \in L' => p \in L
    BY DEF LeafMakers, LocalTLSTypeOK
  <2>3. L \subseteq Procs /\ L' \subseteq Procs
    BY DEF LeafMakers
  <2> HIDE DEF L
  <2> QED
    <3>1. CASE p \in L'
      BY <2>1, <2>2, <2>3, <3>1
    <3>2. CASE p \notin L'
      BY <2>1, <2>3, <3>2
    <3> QED
      BY <3>1, <3>2
<1>3. /\ IsFiniteSet(L) /\ IsFiniteSet(R) /\ made + Cardinality(L) + Cardinality(R) <= 2 * starts
      /\ made \in Nat /\ starts \in Nat
  BY DEF KeysCounted, LocalTLSTypeOK, KeyNumbers
<1> HIDE DEF L, R
<1>4. IsFiniteSet(R') /\ Cardinality(R') \in Nat /\ Cardinality(R') <= Cardinality(R) /\ Cardinality(R) \in Nat
  BY <1>1, <1>3, OneMore
<1>5. IsFiniteSet(L') /\ Cardinality(L') \in Nat /\ Cardinality(L') <= Cardinality(L) /\ Cardinality(L) \in Nat
  <2>0. Cardinality(L) \in Nat
    BY <1>3, FS_CardinalityType
  <2>1. CASE L' = L
    BY <2>0, <2>1, <1>3
  <2>2. CASE L' = L \ {p}
    BY <2>2, <1>3, OneMore
  <2> QED
    BY <1>2, <2>1, <2>2
<1>6. made' + Cardinality(L') + Cardinality(R') <= 2 * starts'
  BY <1>3, <1>4, <1>5
<1> QED
  BY <1>4, <1>5, <1>6 DEF KeysCounted, L, R

\* A process that makes a key has one allowed to it.
LEMMA CountMakes ==
  ASSUME KeysCounted, LocalTLSTypeOK, NEW p \in Procs, NEW where, at' = [at EXCEPT ![p] = where],
         made' = made + 1, starts' = starts,
         (at[p] = "root" /\ where = "rootCert") \/ (at[p] = "leaf" /\ where = "leafCert")
  PROVE  KeysCounted' /\ made' \in KeyNumbers
<1>1. PICK L, R : L = LeafMakers /\ R = RootMakers
  OBVIOUS
<1>2. /\ IsFiniteSet(L) /\ IsFiniteSet(R) /\ made + Cardinality(L) + Cardinality(R) <= 2 * starts
      /\ made \in Nat /\ starts \in Nat /\ starts <= MaxStarts
  BY <1>1 DEF KeysCounted, LocalTLSTypeOK, KeyNumbers
<1>3. Cardinality(L) \in Nat /\ Cardinality(R) \in Nat
  BY <1>2, FS_CardinalityType
<1>4. CASE at[p] = "root" /\ where = "rootCert"
  <2>1. LeafMakers' = L /\ RootMakers' = R \ {p} /\ p \in R
    BY <1>1, <1>4 DEF LeafMakers, RootMakers, LocalTLSTypeOK
  <2>2. IsFiniteSet(R \ {p}) /\ Cardinality(R \ {p}) = Cardinality(R) - 1 /\ Cardinality(R \ {p}) \in Nat
    BY <2>1, <1>2, OneMore
  <2>3. made' + Cardinality(L) + Cardinality(R \ {p}) <= 2 * starts' /\ made' \in 0 .. 2 * MaxStarts
    BY <2>2, <1>2, <1>3
  <2> QED
    BY <2>1, <2>2, <2>3, <1>2 DEF KeysCounted, KeyNumbers
<1>5. CASE at[p] = "leaf" /\ where = "leafCert"
  <2>1. LeafMakers' = L \ {p} /\ RootMakers' = R /\ p \in L
    BY <1>1, <1>5 DEF LeafMakers, RootMakers, LocalTLSTypeOK
  <2>2. IsFiniteSet(L \ {p}) /\ Cardinality(L \ {p}) = Cardinality(L) - 1 /\ Cardinality(L \ {p}) \in Nat
    BY <2>1, <1>2, OneMore
  <2>3. made' + Cardinality(L \ {p}) + Cardinality(R) <= 2 * starts' /\ made' \in 0 .. 2 * MaxStarts
    BY <2>2, <1>2, <1>3
  <2> QED
    BY <2>1, <2>2, <2>3, <1>2 DEF KeysCounted, KeyNumbers
<1> QED
  BY <1>4, <1>5

\* Writes of a process that is preparing, and what each leaves.
LEMMA PutTyped ==
  ASSUME LocalTLSTypeOK, NEW p \in Procs, NEW torn \in BOOLEAN, Put(torn, p), at[p] \in Writing
  PROVE  /\ rootCert' \in KeyNumbers /\ rootKey' \in KeyNumbers /\ leafKey' \in KeyNumbers
         /\ leafCert' \in [key : KeyNumbers, by : KeyNumbers]
         /\ rootOld' \in BOOLEAN /\ leafAge' \in 0 .. 2
<1>1. mine[p].root \in KeyNumbers /\ mine[p].key \in KeyNumbers /\ 0 \in KeyNumbers
  BY DEF LocalTLSTypeOK, KeyNumbers
<1>2. CASE at[p] = "rootCert"
  BY <1>1, <1>2 DEF Put, PutRootCert, LocalTLSTypeOK
<1>3. CASE at[p] = "rootKey"
  BY <1>1, <1>3 DEF Put, PutRootKey, LocalTLSTypeOK
<1>4. CASE at[p] = "leafCert"
  BY <1>1, <1>4 DEF Put, PutLeafCert, LocalTLSTypeOK, NoLeaf
<1>5. CASE at[p] = "leafKey"
  BY <1>1, <1>5 DEF Put, PutLeafKey, LocalTLSTypeOK
<1> QED
  BY <1>2, <1>3, <1>4, <1>5 DEF Writing

\* A step of one process, the others where they were: the mark of two that
\* prepare together is kept, unless p starts.
LEMMA OverlapKept ==
  ASSUME OverlapSeen, LocalTLSTypeOK, NEW p \in Procs, NEW where, at' = [at EXCEPT ![p] = where],
         Active(p),
         overlapped' = overlapped \/ (overlapped' = overlapped \ {p} /\ where = "down")
  PROVE  OverlapSeen'
<1>1. \A q \in Procs : Active(q)' => Active(q)
  BY DEF Active, LocalTLSTypeOK
<1>2. where = "down" => ~Active(p)'
  BY DEF Active, Preparing, Writing, LocalTLSTypeOK
<1> QED
  BY <1>1, <1>2 DEF OverlapSeen

\* A process that is not preparing takes no part in either.
LEMMA AlongInactive ==
  ASSUME NEW p, at[p] \in {"down", "root", "fallback", "serving"}
  PROVE  Along(p)
BY DEF Along

\* Where the files and the process stay as they are, so does what it has.
LEMMA AlongStays ==
  ASSUME NEW p, Along(p), at'[p] = at[p], mine'[p] = mine[p],
         rootCert' = rootCert, rootKey' = rootKey, leafCert' = leafCert, leafKey' = leafKey
  PROVE  Along(p)'
BY DEF Along

\* A step of p that writes: every other process that is on its way is marked.
LEMMA OthersMarked ==
  ASSUME OverlapSeen, FilesAlong, LocalTLSTypeOK, NEW p \in Procs, NEW q \in Procs \ {p},
         Active(p), q \notin overlapped, at'[q] = at[q]
  PROVE  Along(q)'
<1>1. ~Active(q)
  BY DEF OverlapSeen
<1>2. at[q] \in {"down", "serving"}
  BY <1>1 DEF Active, LocalTLSTypeOK
<1> QED
  BY <1>2 DEF Along

\* Every step of a process keeps the invariant of the files.
LEMMA TLSKept == TLSInv /\ [LocalTLSNext]_tls => TLSInv'
<1> SUFFICES ASSUME TLSInv, [LocalTLSNext]_tls PROVE TLSInv'
  OBVIOUS
<1>0. LocalTLSTypeOK /\ KeysCounted /\ OverlapSeen /\ FilesAlong
  BY DEF TLSInv
<1>t. /\ at \in [Procs -> Preparing \cup {"down", "ready", "fallback", "serving"}]
      /\ mine \in [Procs -> [root : KeyNumbers, key : KeyNumbers]]
      /\ starts \in Nat /\ made \in Nat /\ starts <= MaxStarts
  BY <1>0 DEF LocalTLSTypeOK, KeyNumbers
<1>1. ASSUME NEW p \in Procs, NEW w \in {"serve", "command"}, NEW rotate \in BOOLEAN,
             StartProcess(p, w, rotate)
      PROVE  TLSInv'
  <2>0. /\ at[p] = "down" /\ at' = [at EXCEPT ![p] = "root"] /\ starts' = starts + 1
        /\ made' = made /\ mine' = mine /\ starts < MaxStarts
        /\ rootCert' = rootCert /\ rootKey' = rootKey /\ leafCert' = leafCert /\ leafKey' = leafKey
    BY <1>1 DEF StartProcess, Reaches, Files
  <2>1. LocalTLSTypeOK'
    <3>1. overlapped' \subseteq Procs
      BY <1>0, <1>1 DEF StartProcess, LocalTLSTypeOK
    <3>2. at' \in [Procs -> Preparing \cup {"down", "ready", "fallback", "serving"}]
      BY <2>0, <1>t DEF Preparing
    <3>3. starts' \in 0 .. MaxStarts
      BY <2>0, <1>t
    <3> QED
      BY <1>0, <1>1, <3>1, <3>2, <3>3 DEF StartProcess, LocalTLSTypeOK, Files
  <2>2. KeysCounted'
    <3>1. LeafMakers' = LeafMakers \cup {p} /\ RootMakers' = RootMakers \cup {p}
      BY <2>0, <1>t DEF LeafMakers, RootMakers
    <3>2. PICK L, R : L = LeafMakers /\ R = RootMakers
      OBVIOUS
    <3>3. IsFiniteSet(L) /\ IsFiniteSet(R) /\ made + Cardinality(L) + Cardinality(R) <= 2 * starts
      BY <1>0, <3>2 DEF KeysCounted
    <3>4. /\ IsFiniteSet(L \cup {p}) /\ Cardinality(L \cup {p}) \in Nat
          /\ Cardinality(L \cup {p}) <= Cardinality(L) + 1 /\ Cardinality(L) \in Nat
      BY <3>3, OneMore
    <3>5. /\ IsFiniteSet(R \cup {p}) /\ Cardinality(R \cup {p}) \in Nat
          /\ Cardinality(R \cup {p}) <= Cardinality(R) + 1 /\ Cardinality(R) \in Nat
      BY <3>3, OneMore
    <3>6. made' + Cardinality(L \cup {p}) + Cardinality(R \cup {p}) <= 2 * starts'
      BY <3>3, <3>4, <3>5, <2>0, <1>t
    <3> QED
      BY <3>1, <3>2, <3>4, <3>5, <3>6 DEF KeysCounted
  <2>3. OverlapSeen'
    <3>1. CASE \A q \in Procs \ {p} : ~Active(q)
      BY <2>0, <1>t, <3>1 DEF OverlapSeen, Active
    <3>2. CASE \E q \in Procs \ {p} : Active(q)
      <4>1. overlapped' = overlapped \cup {q \in Procs \ {p} : Active(q)} \cup {p}
        BY <1>1, <3>2 DEF StartProcess, Active
      <4> QED
        BY <2>0, <1>t, <4>1 DEF OverlapSeen, Active
    <3> QED
      BY <3>1, <3>2
  <2>4. FilesAlong'
    <3>1. \A q \in Procs \ {p} : q \notin overlapped' => q \notin overlapped
      BY <1>1 DEF StartProcess
    <3>2. ASSUME NEW q \in Procs, q \notin overlapped' PROVE Along(q)'
      <4>1. CASE q = p
        BY <2>0, <1>t, <4>1 DEF Along
      <4>2. CASE q # p
        <5>1. Along(q) /\ at'[q] = at[q]
          BY <3>1, <3>2, <4>2, <2>0, <1>0, <1>t DEF FilesAlong
        <5> QED
          BY <5>1, <2>0 DEF Along
      <4> QED
        BY <4>1, <4>2
    <3> QED
      BY <3>2 DEF FilesAlong
  <2> QED
    BY <2>1, <2>2, <2>3, <2>4 DEF TLSInv
<1>2. ASSUME NEW p \in Procs, TakeRoot(p)
      PROVE  TLSInv'
  <2>0. /\ at[p] = "root" /\ starts' = starts /\ overlapped' = overlapped /\ aging' = aging
        /\ rootCert' = rootCert /\ rootKey' = rootKey /\ leafCert' = leafCert /\ leafKey' = leafKey
        /\ what' = what /\ rotating' = rotating /\ rootOld' = rootOld /\ leafAge' = leafAge
    BY <1>2 DEF TakeRoot, Files
  <2>a. Active(p)
    BY <2>0 DEF Active, Preparing
  <2>1. CASE /\ at' = [at EXCEPT ![p] = "leaf"] /\ mine' = [mine EXCEPT ![p].root = rootCert] /\ made' = made
             /\ rootCert # 0 /\ rootKey = rootCert
    <3>1. LocalTLSTypeOK'
      <4>1. at' \in [Procs -> Preparing \cup {"down", "ready", "fallback", "serving"}]
        BY <2>1, <1>t DEF Preparing
      <4>2. mine' \in [Procs -> [root : KeyNumbers, key : KeyNumbers]]
        BY <2>1, <1>0, <1>t DEF LocalTLSTypeOK
      <4> QED
        BY <1>0, <2>0, <2>1, <4>1, <4>2 DEF LocalTLSTypeOK
    <3>2. KeysCounted'
      <4>1. p \in LeafMakers
        BY <2>0 DEF LeafMakers
      <4> QED
        BY <1>0, <2>0, <2>1, <4>1, CountKept
    <3>3. OverlapSeen'
      BY <1>0, <2>0, <2>1, <2>a, OverlapKept
    <3>4. Along(p)'
      BY <2>0, <2>1, <1>t DEF Along
    <3>5. \A q \in Procs \ {p} : q \notin overlapped => Along(q)'
      BY <1>0, <1>t, <2>1, <2>a, OthersMarked
    <3> QED
      BY <3>1, <3>2, <3>3, <3>4, <3>5, <2>0 DEF TLSInv, FilesAlong
  <2>2. CASE /\ at' = [at EXCEPT ![p] = "rootCert"] /\ mine' = [mine EXCEPT ![p].root = made + 1]
             /\ made' = made + 1
    <3>1. KeysCounted' /\ made' \in KeyNumbers
      BY <1>0, <2>0, <2>2, CountMakes
    <3>2. LocalTLSTypeOK'
      <4>1. at' \in [Procs -> Preparing \cup {"down", "ready", "fallback", "serving"}]
        BY <2>2, <1>t DEF Preparing, Writing
      <4>2. mine' \in [Procs -> [root : KeyNumbers, key : KeyNumbers]]
        BY <2>2, <1>t, <3>1
      <4> QED
        BY <1>0, <2>0, <3>1, <4>1, <4>2 DEF LocalTLSTypeOK
    <3>3. OverlapSeen'
      BY <1>0, <2>0, <2>2, <2>a, OverlapKept
    <3>4. Along(p)'
      <4>1. mine'[p].root = made + 1 /\ made + 1 # 0 /\ at'[p] = "rootCert"
        BY <2>2, <1>t
      <4> QED
        BY <4>1 DEF Along
    <3>5. \A q \in Procs \ {p} : q \notin overlapped => Along(q)'
      BY <1>0, <1>t, <2>2, <2>a, OthersMarked
    <3> QED
      BY <3>1, <3>2, <3>3, <3>4, <3>5, <2>0 DEF TLSInv, FilesAlong
  <2> QED
    BY <1>2, <2>1, <2>2 DEF TakeRoot, Reaches, RootLoads
<1>3. ASSUME NEW p \in Procs, TakeLeaf(p)
      PROVE  TLSInv'
  <2>0. /\ at[p] = "leaf" /\ starts' = starts /\ overlapped' = overlapped /\ aging' = aging
        /\ rootCert' = rootCert /\ rootKey' = rootKey /\ leafCert' = leafCert /\ leafKey' = leafKey
        /\ what' = what /\ rotating' = rotating /\ rootOld' = rootOld /\ leafAge' = leafAge
    BY <1>3 DEF TakeLeaf, Files
  <2>a. Active(p)
    BY <2>0 DEF Active, Preparing
  <2>1. CASE /\ at' = [at EXCEPT ![p] = "ready"] /\ mine' = mine /\ made' = made
             /\ leafCert.key # 0 /\ leafCert.by = mine[p].root /\ leafKey = leafCert.key
    <3>1. LocalTLSTypeOK'
      BY <1>0, <2>0, <2>1 DEF LocalTLSTypeOK
    <3>2. KeysCounted'
      BY <1>0, <2>0, <2>1, CountKept
    <3>3. OverlapSeen'
      BY <1>0, <2>0, <2>1, <2>a, OverlapKept
    <3>4. p \notin overlapped => Along(p)'
      BY <2>0, <2>1, <1>t, <1>0 DEF Along, FilesAlong
    <3>5. \A q \in Procs \ {p} : q \notin overlapped => Along(q)'
      BY <1>0, <1>t, <2>1, <2>a, OthersMarked
    <3> QED
      BY <3>1, <3>2, <3>3, <3>4, <3>5, <2>0 DEF TLSInv, FilesAlong
  <2>2. CASE /\ at' = [at EXCEPT ![p] = "leafCert"] /\ mine' = [mine EXCEPT ![p].key = made + 1]
             /\ made' = made + 1
    <3>1. KeysCounted' /\ made' \in KeyNumbers
      BY <1>0, <2>0, <2>2, CountMakes
    <3>2. LocalTLSTypeOK'
      <4>1. at' \in [Procs -> Preparing \cup {"down", "ready", "fallback", "serving"}]
        BY <2>2, <1>t DEF Preparing, Writing
      <4>2. mine' \in [Procs -> [root : KeyNumbers, key : KeyNumbers]]
        BY <2>2, <1>t, <3>1
      <4> QED
        BY <1>0, <2>0, <3>1, <4>1, <4>2 DEF LocalTLSTypeOK
    <3>3. OverlapSeen'
      BY <1>0, <2>0, <2>2, <2>a, OverlapKept
    <3>4. p \notin overlapped => Along(p)'
      <4>1. /\ mine'[p].root = mine[p].root /\ mine'[p].key = made + 1 /\ made + 1 # 0
            /\ at'[p] = "leafCert"
        BY <2>2, <1>t
      <4> QED
        BY <4>1, <2>0, <1>0 DEF Along, FilesAlong
    <3>5. \A q \in Procs \ {p} : q \notin overlapped => Along(q)'
      BY <1>0, <1>t, <2>2, <2>a, OthersMarked
    <3> QED
      BY <3>1, <3>2, <3>3, <3>4, <3>5, <2>0 DEF TLSInv, FilesAlong
  <2> QED
    BY <1>3, <2>1, <2>2 DEF TakeLeaf, Reaches, Reusable
<1>4. ASSUME NEW p \in Procs, WriteFile(p)
      PROVE  TLSInv'
  <2>0. /\ at[p] \in Writing /\ at' = [at EXCEPT ![p] = AfterWrite[at[p]]] /\ Put(FALSE, p)
        /\ starts' = starts /\ made' = made /\ overlapped' = overlapped /\ mine' = mine
        /\ what' = what /\ rotating' = rotating /\ aging' = aging
    BY <1>4 DEF WriteFile, Reaches
  <2>1. /\ AfterWrite[at[p]] \in {"rootKey", "leaf", "leafKey", "ready"}
        /\ AfterWrite[at[p]] \in {"rootKey", "leaf"} => at[p] \in {"rootCert", "rootKey"}
    BY <2>0 DEF AfterWrite, Writing
  <2>a. Active(p)
    BY <2>0 DEF Active, Preparing
  <2>2. LocalTLSTypeOK'
    <3>1. at' \in [Procs -> Preparing \cup {"down", "ready", "fallback", "serving"}]
      BY <2>0, <2>1, <1>t DEF Preparing, Writing
    <3> QED
      BY <1>0, <2>0, <3>1, PutTyped DEF LocalTLSTypeOK
  <2>3. KeysCounted'
    <3>1. AfterWrite[at[p]] \in {"rootCert", "rootKey", "leaf"} => p \in LeafMakers
      BY <2>1 DEF LeafMakers
    <3> QED
      BY <1>0, <2>0, <2>1, <3>1, CountKept
  <2>4. OverlapSeen'
    BY <1>0, <2>0, <2>a, OverlapKept
  <2>5. p \notin overlapped => Along(p)'
    <3> SUFFICES ASSUME p \notin overlapped PROVE Along(p)'
      OBVIOUS
    <3>1. Along(p)
      BY <1>0 DEF FilesAlong
    <3>2. mine'[p] = mine[p] /\ at'[p] = AfterWrite[at[p]]
      BY <2>0, <1>t
    <3>3. CASE at[p] = "rootCert"
      BY <2>0, <3>1, <3>2, <3>3 DEF Along, Put, PutRootCert, AfterWrite
    <3>4. CASE at[p] = "rootKey"
      BY <2>0, <3>1, <3>2, <3>4 DEF Along, Put, PutRootKey, AfterWrite
    <3>5. CASE at[p] = "leafCert"
      BY <2>0, <3>1, <3>2, <3>5 DEF Along, Put, PutLeafCert, AfterWrite
    <3>6. CASE at[p] = "leafKey"
      BY <2>0, <3>1, <3>2, <3>6 DEF Along, Put, PutLeafKey, AfterWrite
    <3> QED
      BY <2>0, <3>3, <3>4, <3>5, <3>6 DEF Writing
  <2>6. \A q \in Procs \ {p} : q \notin overlapped => Along(q)'
    BY <1>0, <1>t, <2>0, <2>a, OthersMarked
  <2> QED
    BY <2>2, <2>3, <2>4, <2>5, <2>6, <2>0 DEF TLSInv, FilesAlong
<1>5. ASSUME NEW p \in Procs, NEW torn \in BOOLEAN,
             PrepareFails(p, torn) \/ Listen(p) \/ Die(p, torn)
      PROVE  TLSInv'
  <2>1. PICK where \in {"fallback", "serving", "down"} :
          /\ at' = [at EXCEPT ![p] = where]
          /\ overlapped' = overlapped \/ (overlapped' = overlapped \ {p} /\ where = "down")
    BY <1>5 DEF PrepareFails, Listen, Die, EndsUnless, Reaches
  <2>2. /\ starts' = starts /\ made' = made /\ aging' = aging
        /\ (at[p] \in Writing /\ Put(TRUE, p)) \/ UNCHANGED Files
    BY <1>5 DEF PrepareFails, Listen, Die
  <2>3. /\ what' \in [Procs -> {"serve", "command"}]
        /\ mine' \in [Procs -> [root : KeyNumbers, key : KeyNumbers]]
        /\ rotating' \in [Procs -> BOOLEAN]
        /\ \A q \in Procs \ {p} : mine'[q] = mine[q]
    <3>1. PICK cond \in BOOLEAN :
            /\ what' = [what EXCEPT ![p] = IF cond THEN @ ELSE "serve"]
            /\ mine' = [mine EXCEPT ![p] = IF cond THEN @ ELSE NoKeys]
            /\ rotating' = [rotating EXCEPT ![p] = cond /\ @]
      BY <1>5 DEF PrepareFails, Listen, Die, EndsUnless
    <3>2. NoKeys \in [root : KeyNumbers, key : KeyNumbers]
      BY DEF NoKeys, KeyNumbers
    <3> QED
      BY <3>1, <3>2, <1>0 DEF LocalTLSTypeOK
  <2>4. LocalTLSTypeOK'
    <3>1. at' \in [Procs -> Preparing \cup {"down", "ready", "fallback", "serving"}]
      BY <2>1, <1>t
    <3>2. overlapped' \subseteq Procs
      BY <2>1, <1>0 DEF LocalTLSTypeOK
    <3>3. CASE at[p] \in Writing /\ Put(TRUE, p)
      BY <1>0, <2>2, <2>3, <3>1, <3>2, <3>3, PutTyped DEF LocalTLSTypeOK
    <3>4. CASE UNCHANGED Files
      BY <1>0, <2>2, <2>3, <3>1, <3>2, <3>4 DEF LocalTLSTypeOK, Files
    <3> QED
      BY <2>2, <3>3, <3>4
  <2>5. KeysCounted'
    BY <1>0, <2>1, <2>2, CountKept
  <2>6. Active(p) \/ at[p] = "serving"
    BY <1>5, <1>t DEF PrepareFails, Listen, Die, Active, Preparing
  <2>7. OverlapSeen'
    <3>1. CASE Active(p)
      BY <1>0, <2>1, <3>1, OverlapKept
    <3>2. CASE at[p] = "serving"
      <4>1. where = "down"
        BY <1>5, <2>1, <3>2, <1>t DEF Die, PrepareFails, Listen, EndsUnless, Reaches, Preparing, Writing
      <4>2. ~Active(p)'
        BY <2>1, <4>1, <1>t DEF Active, Preparing, Writing
      <4>3. \A q \in Procs \ {p} : Active(q)' <=> Active(q)
        BY <2>1, <1>t DEF Active
      <4> QED
        BY <1>0, <2>1, <4>2, <4>3 DEF OverlapSeen
    <3> QED
      BY <2>6, <3>1, <3>2
  <2>8. Along(p)'
    BY <2>1, <1>t DEF Along
  <2>9. ASSUME NEW q \in Procs \ {p}, q \notin overlapped PROVE Along(q)'
    <3>1. at'[q] = at[q] /\ mine'[q] = mine[q]
      BY <2>1, <2>3, <1>t
    <3>2. CASE Active(p)
      BY <1>0, <2>9, <3>1, <3>2, OthersMarked
    <3>3. CASE at[p] = "serving"
      <4>1. UNCHANGED Files
        BY <2>2, <3>3 DEF Writing
      <4> QED
        BY <4>1, <3>1, <1>0, <2>9, AlongStays DEF Files, FilesAlong
    <3> QED
      BY <2>6, <3>2, <3>3
  <2> QED
    BY <2>1, <2>4, <2>5, <2>7, <2>8, <2>9 DEF TLSInv, FilesAlong
<1>6. CASE Age
  <2>1. LocalTLSTypeOK'
    <3>1. aging' \in 0 .. MaxAging
      BY <1>0, <1>6 DEF Age, LocalTLSTypeOK
    <3>2. leafAge \in 0 .. 2 /\ (leafAge' = leafAge \/ (leafAge < 2 /\ leafAge' = leafAge + 1))
      BY <1>0, <1>6 DEF Age, LocalTLSTypeOK
    <3>3. leafAge' \in 0 .. 2
      BY <3>2
    <3>4. rootOld' \in BOOLEAN
      BY <1>0, <1>6 DEF Age, LocalTLSTypeOK
    <3> QED
      BY <1>0, <1>6, <3>1, <3>3, <3>4 DEF Age, LocalTLSTypeOK
  <2>2. UNCHANGED <<at, mine, rootCert, rootKey, leafCert, leafKey, made, starts, overlapped>>
    BY <1>6 DEF Age
  <2> QED
    BY <2>1, <2>2, <1>0 DEF TLSInv, KeysCounted, LeafMakers, RootMakers, OverlapSeen, Active, FilesAlong, Along
<1>7. CASE UNCHANGED tls
  BY <1>0, <1>7 DEF tls, TLSInv, LocalTLSTypeOK, KeysCounted, LeafMakers, RootMakers, OverlapSeen, Active, FilesAlong, Along
<1> QED
  BY <1>1, <1>2, <1>3, <1>4, <1>5, <1>6, <1>7 DEF LocalTLSNext

-------------------------------------------------------------------------------
ReqRow == [job : Jobs, at : Steps \cup {"none", "accepted", "ended"}, read : SiteFile, direct : BOOLEAN]

EntryRow == [state : {"none", "progress", "done"}, old : BOOLEAN]

SiteSteps == {"write", "bundle", "again", "rewrite", "program"}

\* A number that is not in use, and the sites of the jobs.
LEMMA UnusedTyped ==
  /\ Unused \in ReqRow /\ Unused.at = "none" /\ Unused.read \in SiteFile
  /\ NoEntry \in EntryRow
  /\ \A j \in Jobs : j[2] \in Sessions /\ SiteOf[j[2]] \in Names
<1>1. AnyJob \in Jobs
  BY DEF AnyJob
<1>2. [x \in Names |-> NoSession] \in SiteFile
  BY DEF SiteFile
<1>3. NoEntry \in EntryRow
  BY DEF NoEntry, EntryRow
<1>4. \A j \in Jobs : j[2] \in Sessions /\ SiteOf[j[2]] \in Names
  BY DEF Sessions, Names
<1> QED
  BY <1>1, <1>2, <1>3, <1>4 DEF Unused, ReqRow

\* The launches start with their invariant.
LEMMA LaunchesStart == LaunchesInit => LaunchesInv
<1> SUFFICES ASSUME LaunchesInit PROVE LaunchesInv
  OBVIOUS
<1>1. LaunchesTypeOK
  <2>1. 0 \in 0 .. MaxLaunches /\ 0 \in 0 .. MaxStops /\ 0 \in Nat
    OBVIOUS
  <2> QED
    BY <2>1, UnusedTyped DEF LaunchesInit, LaunchesTypeOK, ReqRow, EntryRow, SiteFile
<1>2. \A n \in Numbers : req[n].at = "none"
  BY UnusedTyped DEF LaunchesInit
<1>3. LaunchesOrder
  BY <1>2 DEF LaunchesOrder, LaunchesInit
<1>4. \A j \in Jobs : OneLaunch(j)
  BY <1>2 DEF OneLaunch, Running, Launching, Steps, LaunchesInit, NoEntry
<1>5. SharingSeen /\ SiteAlong /\ SiteIsOwn
  BY <1>2 DEF SharingSeen, SiteAlong, SiteIsOwn, SiteUsers, LaunchesInit
<1> QED
  BY <1>1, <1>3, <1>4, <1>5 DEF LaunchesInv, OneLaunchEach

\* The end of launch n, however it ends: what it does to its entry and its client.
Ends(n) ==
  LET j == req[n].job IN
  /\ entries' \in [Jobs -> EntryRow] /\ opened' \in [Jobs -> Nat]
  /\ \A i \in Jobs \ {j} : entries'[i] = entries[i] /\ opened'[i] = opened[i]
  /\ opened'[j] \in {opened[j], opened[j] + 1}
  /\ entries'[j].state = "none" /\ entries[j].state # "none" => opened'[j] = opened[j]

\* A launch that is under way goes to another step, or ends.
Advances(n) ==
  /\ up /\ req[n].at \in Steps
  /\ UNCHANGED <<os, up, count, wrong, overrun, orphans, stops>>
  /\ req' \in [Numbers -> ReqRow] /\ req'[n].job = req[n].job
  /\ \A m \in Numbers \ {n} : req'[m] = req[m]
  /\ \/ req'[n].at \in Steps /\ UNCHANGED <<entries, opened>>
     \/ req'[n].at = "ended" /\ Ends(n)

\* The three ends of a launch are ends in this sense.
LEMMA EndsProperly ==
  ASSUME LaunchesTypeOK, NEW n \in Numbers, req[n].at \in Steps,
         FinishSuccess(n) \/ FinishFailure(n) \/ (\E b \in BOOLEAN : Panics(n, b))
  PROVE  /\ Ends(n) /\ req' \in [Numbers -> ReqRow]
         /\ req'[n].at = "ended" /\ req'[n].job = req[n].job /\ req'[n].direct = req[n].direct
         /\ \A m \in Numbers \ {n} : req'[m] = req[m]
<1>0. /\ entries \in [Jobs -> EntryRow] /\ req \in [Numbers -> ReqRow] /\ opened \in [Jobs -> Nat]
      /\ req[n].job \in Jobs
  BY DEF LaunchesTypeOK, EntryRow, ReqRow
<1>1. req' = [req EXCEPT ![n].at = "ended"]
  BY DEF FinishSuccess, FinishFailure, Panics, Goes
<1>2. /\ req' \in [Numbers -> ReqRow]
      /\ req'[n].at = "ended" /\ req'[n].job = req[n].job /\ req'[n].direct = req[n].direct
      /\ \A m \in Numbers \ {n} : req'[m] = req[m]
  BY <1>0, <1>1 DEF ReqRow
<1>3. CASE FinishSuccess(n)
  <2>1. [state |-> "done", old |-> FALSE] \in EntryRow
    BY DEF EntryRow
  <2>2. entries' \in [Jobs -> EntryRow] /\ \A i \in Jobs \ {req[n].job} : entries'[i] = entries[i]
    BY <1>0, <1>3, <2>1 DEF FinishSuccess
  <2>3. opened' = [opened EXCEPT ![req[n].job] = @ + 1]
    BY <1>3 DEF FinishSuccess
  <2>4. opened' \in [Jobs -> Nat]
    BY <1>0, <2>3
  <2>5. entries[req[n].job].state # "none" => entries'[req[n].job].state # "none"
    BY <1>0, <1>3 DEF FinishSuccess
  <2> QED
    BY <1>0, <1>2, <2>2, <2>3, <2>4, <2>5 DEF Ends
<1>4. CASE FinishFailure(n)
  <2>1. entries' \in [Jobs -> EntryRow] /\ \A i \in Jobs \ {req[n].job} : entries'[i] = entries[i]
    BY <1>0, <1>4, UnusedTyped DEF FinishFailure
  <2>2. opened' = opened
    BY <1>4 DEF FinishFailure
  <2> QED
    BY <1>0, <1>2, <2>1, <2>2 DEF Ends
<1>5. ASSUME NEW b \in BOOLEAN, Panics(n, b)
      PROVE  Ends(n)
  <2>1. entries' = entries /\ opened' = [opened EXCEPT ![req[n].job] = IF b THEN @ + 1 ELSE @]
    BY <1>5 DEF Panics
  <2>2. opened' \in [Jobs -> Nat]
    BY <1>0, <2>1
  <2> QED
    BY <1>0, <2>1, <2>2 DEF Ends
<1> QED
  BY <1>2, <1>3, <1>4, <1>5

\* A move to a step.
LEMMA GoesProperly ==
  ASSUME LaunchesTypeOK, NEW n \in Numbers, NEW where \in Steps, Goes(n, where)
  PROVE  /\ req' \in [Numbers -> ReqRow]
         /\ req'[n].at = where /\ req'[n].job = req[n].job /\ req'[n].direct = req[n].direct
         /\ \A m \in Numbers \ {n} : req'[m] = req[m]
<1>0. req \in [Numbers -> ReqRow]
  BY DEF LaunchesTypeOK, ReqRow
<1> QED
  BY <1>0 DEF Goes, ReqRow

\* A launch that advances leaves one launch for a job, and one client.
LEMMA OneKept ==
  ASSUME LaunchesTypeOK, OneLaunchEach, NEW n \in Numbers, Advances(n)
  PROVE  OneLaunchEach'
<1> SUFFICES ASSUME ~overrun, NEW j \in Jobs PROVE OneLaunch(j)'
  BY DEF OneLaunchEach, Advances
<1>1. OneLaunch(j)
  BY DEF OneLaunchEach
<1>0. opened \in [Jobs -> Nat] /\ req[n].job \in Jobs /\ opened[j] \in Nat
  BY DEF LaunchesTypeOK
<1>2. CASE req'[n].at \in Steps /\ UNCHANGED <<entries, opened>>
  <2>1. \A m \in Numbers : Launching(m, j)' <=> Launching(m, j)
    BY <1>2 DEF Advances, Launching
  <2>2. Running(j)' <=> Running(j)
    BY <2>1 DEF Running, Launching
  <2> QED
    BY <1>1, <1>2, <2>1, <2>2 DEF OneLaunch
<1>3. CASE req'[n].at = "ended" /\ Ends(n)
  <2>1. \A m \in Numbers : Launching(m, j)' <=> (Launching(m, j) /\ m # n)
    BY <1>3 DEF Advances, Launching, Steps
  <2>2. Running(j)' => Running(j)
    BY <2>1 DEF Running, Launching
  <2>3. CASE req[n].job # j
    BY <1>1, <1>3, <2>1, <2>2, <2>3 DEF OneLaunch, Ends
  <2>4. CASE req[n].job = j
    <3>1. Launching(n, j) /\ Running(j)
      BY <2>4 DEF Advances, Launching, Running
    <3>2. ~Running(j)'
      BY <1>1, <2>1, <3>1 DEF OneLaunch, Running, Launching
    <3>3. opened[j] = 0 /\ entries[j].state # "none"
      BY <1>1, <3>1 DEF OneLaunch
    <3>4. opened'[j] <= 1 /\ (entries'[j].state = "none" => opened'[j] = 0)
      BY <1>3, <2>4, <3>3 DEF Ends
    <3> QED
      BY <1>1, <2>1, <3>2, <3>4 DEF OneLaunch
  <2> QED
    BY <2>3, <2>4
<1> QED
  BY <1>2, <1>3 DEF Advances

\* Steps that do not come to the site file leave it to the launches that use it.
LEMMA SitesQuiet ==
  ASSUME LaunchesTypeOK, SharingSeen, SiteAlong, SiteIsOwn,
         UNCHANGED <<sites, shared, reading, wrong>>,
         \A m \in Numbers : req'[m].at \in SiteSteps => req[m].at \in SiteSteps,
         \A m \in Numbers : req'[m].at = "program" => req'[m] = req[m],
         \A m \in reading : req'[m].job = req[m].job
  PROVE  SharingSeen' /\ SiteAlong' /\ SiteIsOwn'
<1>1. SiteUsers' \subseteq SiteUsers
  BY DEF SiteUsers, SiteSteps
<1>2. SharingSeen'
  BY <1>1 DEF SharingSeen
<1>3. SiteAlong'
  BY DEF SiteAlong, Site
<1>4. SiteIsOwn'
  BY DEF SiteIsOwn
<1> QED
  BY <1>2, <1>3, <1>4

\* The rest of the invariant, for a launch that advances.
LEMMA OrderKept ==
  ASSUME LaunchesTypeOK, LaunchesOrder, NEW n \in Numbers, Advances(n),
         \A m \in Numbers \ {n} : dirs'[m] = dirs[m],
         timers' \cup reading' \subseteq timers \cup reading \cup (IF req'[n].at = "ended" THEN {n} ELSE {}),
         req'[n].at \in {"manifest", "attempt", "retry"} => dirs'[n] # "none"
  PROVE  LaunchesOrder' /\ n \notin timers /\ n \notin reading
<1>1. n \notin timers \cup reading /\ up /\ up' /\ count' = count
  BY DEF LaunchesOrder, Advances, Steps
<1>2. ~(n > count)
  BY DEF LaunchesOrder, Advances, Steps
<1>3. timers \subseteq Numbers /\ reading \subseteq Numbers
  BY DEF LaunchesTypeOK
<1>4. \A m \in timers' \cup reading' : req'[m].at = "ended"
  BY <1>1, <1>3 DEF LaunchesOrder, Advances
<1>5. \A m \in Numbers : m > count' => req'[m].at = "none"
  BY <1>1, <1>2 DEF LaunchesOrder, Advances
<1>6. \A m \in Numbers : req'[m].at \in {"manifest", "attempt", "retry"} => dirs'[m] # "none"
  BY DEF LaunchesOrder, Advances
<1> QED
  BY <1>1, <1>4, <1>5, <1>6 DEF LaunchesOrder

\* Types, for a launch that advances.
LEMMA AdvanceTyped ==
  ASSUME LaunchesTypeOK, NEW n \in Numbers, Advances(n),
         tokens' \subseteq Numbers, timers' \subseteq Numbers, reading' \subseteq Numbers,
         shared' \subseteq Numbers, dirs' \in [Numbers -> {"none", "new", "old"}],
         \A m \in timers' : dirs'[m] # "none", sites' \in SiteFile
  PROVE  LaunchesTypeOK'
<1>1. entries' \in [Jobs -> EntryRow] /\ opened' \in [Jobs -> Nat]
  BY DEF LaunchesTypeOK, Advances, Ends, EntryRow
<1> QED
  BY <1>1 DEF LaunchesTypeOK, Advances, EntryRow, ReqRow

\* A launch that advances away from the site file.
LEMMA QuietAdvance ==
  ASSUME LaunchesInv, NEW n \in Numbers, Advances(n), UNCHANGED <<sites, shared, reading>>,
         tokens' \subseteq Numbers, dirs' \in [Numbers -> {"none", "new", "old"}],
         \A m \in Numbers \ {n} : dirs'[m] = dirs[m],
         timers' \subseteq timers \cup (IF req'[n].at = "ended" THEN {n} ELSE {}),
         n \in timers' => n \in timers \/ dirs'[n] # "none",
         req'[n].at \in {"manifest", "attempt", "retry"} => dirs'[n] # "none",
         req'[n].at \in SiteSteps => req[n].at \in SiteSteps,
         req'[n].at # "program"
  PROVE  LaunchesInv'
<1>0. LaunchesTypeOK /\ LaunchesOrder /\ OneLaunchEach /\ SharingSeen /\ SiteAlong /\ SiteIsOwn
  BY DEF LaunchesInv
<1>1. LaunchesOrder' /\ n \notin timers /\ n \notin reading
  <2>1. timers' \cup reading' \subseteq timers \cup reading \cup (IF req'[n].at = "ended" THEN {n} ELSE {})
    OBVIOUS
  <2> QED
    BY <1>0, <2>1, OrderKept
<1>2. LaunchesTypeOK'
  <2>1. timers' \subseteq Numbers /\ reading' \subseteq Numbers /\ shared' \subseteq Numbers /\ sites' \in SiteFile
    BY <1>0 DEF LaunchesTypeOK
  <2>2. \A m \in timers' : dirs'[m] # "none"
    BY <1>0, <1>1, <2>1 DEF LaunchesTypeOK
  <2> QED
    BY <1>0, <2>1, <2>2, AdvanceTyped
<1>3. OneLaunchEach'
  BY <1>0, OneKept
<1>4. SharingSeen' /\ SiteAlong' /\ SiteIsOwn'
  <2>1. wrong' = wrong /\ reading \subseteq Numbers
    BY <1>0 DEF Advances, LaunchesTypeOK
  <2>2. \A m \in Numbers : req'[m].at \in SiteSteps => req[m].at \in SiteSteps
    BY DEF Advances
  <2>3. \A m \in Numbers : req'[m].at = "program" => req'[m] = req[m]
    BY DEF Advances
  <2>4. \A m \in reading : req'[m].job = req[m].job
    BY <1>1, <2>1 DEF Advances
  <2> QED
    BY <1>0, <2>1, <2>2, <2>3, <2>4, SitesQuiet
<1> QED
  BY <1>1, <1>2, <1>3, <1>4 DEF LaunchesInv

\* The steps of a launch before and beside the site file.
LEMMA QuietSteps ==
  ASSUME LaunchesInv, NEW n \in Numbers, NEW ok \in BOOLEAN,
         \/ PrepareShell(n, ok) \/ PrepareRedis(n, ok) \/ OpenTerminal(n, ok)
         \/ OpenPuTTY(n, ok) \/ OpenRoboMongo(n, ok)
         \/ MakeTempDir(n, ok) \/ FindDBeaver(n, ok) \/ StartDBeaver(n, ok)
         \/ PrepareFileZilla(n, ok) \/ FindBundle(n, ok)
  PROVE  LaunchesInv'
<1>0. LaunchesTypeOK /\ LaunchesOrder
  BY DEF LaunchesInv
<1>t. /\ tokens \subseteq Numbers /\ dirs \in [Numbers -> {"none", "new", "old"}]
      /\ req \in [Numbers -> ReqRow]
  BY <1>0 DEF LaunchesTypeOK, ReqRow
<1>1. /\ up /\ UNCHANGED <<os, up, count, wrong, overrun, orphans, stops, sites, shared, reading>>
  BY DEF PrepareShell, PrepareRedis, OpenTerminal, OpenPuTTY, OpenRoboMongo, MakeTempDir, FindDBeaver,
         StartDBeaver, PrepareFileZilla, FindBundle, disk, otherHistory
<1>2. req[n].at \in {"begin", "terminal", "manifest", "attempt", "retry", "bundle"}
  BY DEF PrepareShell, PrepareRedis, OpenTerminal, OpenPuTTY, OpenRoboMongo, MakeTempDir, FindDBeaver,
         StartDBeaver, PrepareFileZilla, FindBundle
<1>3. \/ FinishSuccess(n) \/ FinishFailure(n) \/ \E b \in BOOLEAN : Panics(n, b)
      \/ /\ UNCHANGED <<entries, opened>>
         /\ \E where \in {"terminal", "manifest", "attempt", "retry", "site", "again"} : Goes(n, where)
  BY DEF PrepareShell, PrepareRedis, OpenTerminal, OpenPuTTY, OpenRoboMongo, MakeTempDir, FindDBeaver,
         StartDBeaver, PrepareFileZilla, FindBundle
<1>4. Advances(n) /\ req'[n].at \in {"ended", "terminal", "manifest", "attempt", "retry", "site", "again"}
  <2>1. CASE FinishSuccess(n) \/ FinishFailure(n) \/ \E b \in BOOLEAN : Panics(n, b)
    BY <1>0, <1>1, <1>2, <2>1, EndsProperly DEF Advances, Steps
  <2>2. CASE /\ UNCHANGED <<entries, opened>>
             /\ \E where \in {"terminal", "manifest", "attempt", "retry", "site", "again"} : Goes(n, where)
    BY <1>0, <1>1, <1>2, <2>2, GoesProperly DEF Advances, Steps
  <2> QED
    BY <1>3, <2>1, <2>2
<1>5. req'[n].at = "again" => req[n].at = "bundle"
  <2>1. CASE FindBundle(n, ok)
    BY <2>1 DEF FindBundle
  <2>2. CASE \E where \in {"terminal", "manifest", "attempt", "retry", "site", "ended"} : Goes(n, where)
    BY <2>2, <1>t DEF Goes, ReqRow
  <2> QED
    BY <2>1, <2>2 DEF PrepareShell, PrepareRedis, OpenTerminal, OpenPuTTY, OpenRoboMongo, MakeTempDir, FindDBeaver,
         StartDBeaver, PrepareFileZilla, FinishSuccess, FinishFailure, Panics
<1>6. tokens' \subseteq Numbers
  BY <1>t DEF PrepareShell, PrepareRedis, OpenTerminal, OpenPuTTY, OpenRoboMongo, MakeTempDir, FindDBeaver,
         StartDBeaver, PrepareFileZilla, FindBundle, disk, otherHistory, WithToken
<1>7. \/ dirs' = dirs /\ (req'[n].at \in {"manifest", "attempt", "retry"} => req[n].at \in {"manifest", "attempt"})
      \/ dirs' = [dirs EXCEPT ![n] = "new"] /\ timers' = timers
      \/ dirs' = [dirs EXCEPT ![n] = "none"] /\ req'[n].at = "ended" /\ timers' = timers
  <2>1. CASE MakeTempDir(n, ok)
    BY <2>1, <1>t DEF MakeTempDir, FinishFailure, Goes, ReqRow
  <2>2. CASE FindDBeaver(n, ok)
    BY <2>2, <1>t DEF FindDBeaver, FinishFailure, Goes, ReqRow, RemoveOnFailure
  <2>3. CASE StartDBeaver(n, ok)
    BY <2>3, <1>t DEF StartDBeaver, FinishSuccess, FinishFailure, Goes, ReqRow, RemoveOnFailure
  <2>4. CASE \/ PrepareShell(n, ok) \/ PrepareRedis(n, ok) \/ OpenTerminal(n, ok)
             \/ OpenPuTTY(n, ok) \/ OpenRoboMongo(n, ok) \/ PrepareFileZilla(n, ok) \/ FindBundle(n, ok)
    <3>1. dirs' = dirs
      BY <2>4 DEF PrepareShell, PrepareRedis, OpenTerminal, OpenPuTTY, OpenRoboMongo, PrepareFileZilla, FindBundle, disk
    <3>2. \E where \in {"terminal", "site", "again", "ended"} : Goes(n, where)
      BY <2>4 DEF PrepareShell, PrepareRedis, OpenTerminal, OpenPuTTY, OpenRoboMongo, PrepareFileZilla, FindBundle,
                  FinishSuccess, FinishFailure, Panics
    <3> QED
      BY <3>1, <3>2, <1>t DEF Goes, ReqRow
  <2> QED
    BY <2>1, <2>2, <2>3, <2>4
<1>8. timers' = timers \/ (timers' = timers \cup {n} /\ req'[n].at = "ended" /\ dirs' = dirs /\ req[n].at \in {"attempt", "retry"})
  <2>1. CASE StartDBeaver(n, ok)
    BY <2>1, <1>t DEF StartDBeaver, FinishSuccess, Goes, ReqRow
  <2>2. CASE ~StartDBeaver(n, ok)
    BY <2>2 DEF PrepareShell, PrepareRedis, OpenTerminal, OpenPuTTY, OpenRoboMongo, MakeTempDir, FindDBeaver,
                PrepareFileZilla, FindBundle, disk
  <2> QED
    BY <2>1, <2>2
<1>9. /\ dirs' \in [Numbers -> {"none", "new", "old"}]
      /\ \A m \in Numbers \ {n} : dirs'[m] = dirs[m]
      /\ req'[n].at \in {"manifest", "attempt", "retry"} => dirs'[n] # "none"
      /\ timers' \subseteq timers \cup (IF req'[n].at = "ended" THEN {n} ELSE {})
      /\ n \in timers' => n \in timers \/ dirs'[n] # "none"
  <2>1. req[n].at \in {"manifest", "attempt", "retry"} => dirs[n] # "none"
    BY <1>0 DEF LaunchesOrder
  <2> QED
    BY <1>t, <1>7, <1>8, <2>1
<1> QED
  BY <1>1, <1>2, <1>4, <1>5, <1>6, <1>9, QuietAdvance DEF SiteSteps

\* The first look at the site file, and the second one on macOS.
LEMMA ReadSitesKept ==
  ASSUME LaunchesInv, NEW n \in Numbers, NEW usable \in BOOLEAN, ReadSites(n, usable)
  PROVE  LaunchesInv'
<1>0. LaunchesTypeOK /\ LaunchesOrder /\ OneLaunchEach /\ SharingSeen /\ SiteAlong /\ SiteIsOwn
  BY DEF LaunchesInv
<1>t. /\ req \in [Numbers -> ReqRow] /\ sites \in SiteFile /\ shared \subseteq Numbers /\ reading \subseteq Numbers
  BY <1>0 DEF LaunchesTypeOK, ReqRow
<1>1. /\ up /\ req[n].at \in {"site", "again"}
      /\ UNCHANGED <<os, up, entries, count, tokens, dirs, timers, sites, reading, wrong, opened, overrun, orphans, stops>>
      /\ shared' = IF SiteUsers \ {n} = {} THEN shared ELSE shared \cup SiteUsers \cup {n}
  BY DEF ReadSites, disk
<1>2. PICK where \in {"write", "rewrite", "bundle", "program"}, file \in SiteFile :
        /\ req' = [req EXCEPT ![n].at = where, ![n].direct = ~usable, ![n].read = file]
        /\ where = "program" => ~usable
  <2>1. AfterSite(n) \in {"bundle", "program"}
    BY DEF AfterSite
  <2>2. /\ (IF ~usable THEN AfterSite(n) ELSE IF req[n].at = "site" THEN "write" ELSE "rewrite")
             \in {"write", "rewrite", "bundle", "program"}
        /\ (IF usable THEN sites ELSE req[n].read) \in SiteFile
    BY <1>t, <2>1 DEF ReqRow
  <2>3. req' = [req EXCEPT ![n].at = IF ~usable THEN AfterSite(n) ELSE IF req[n].at = "site" THEN "write" ELSE "rewrite",
                           ![n].direct = ~usable, ![n].read = IF usable THEN sites ELSE req[n].read]
    BY <1>t DEF ReadSites, ReqRow
  <2> QED
    BY <2>2, <2>3
<1>3. /\ req' \in [Numbers -> ReqRow] /\ req'[n].at = where /\ req'[n].direct = ~usable /\ req'[n].job = req[n].job
      /\ \A m \in Numbers \ {n} : req'[m] = req[m]
  <2>1. [req[n] EXCEPT !.at = where, !.direct = ~usable, !.read = file] \in ReqRow
    BY <1>t DEF ReqRow, Steps
  <2> QED
    BY <1>t, <1>2, <2>1 DEF ReqRow
<1>4. Advances(n)
  BY <1>1, <1>2, <1>3 DEF Advances, Steps
<1>5. LaunchesOrder' /\ n \notin timers /\ n \notin reading
  BY <1>0, <1>1, <1>2, <1>3, <1>4, OrderKept
<1>6. SiteUsers \subseteq Numbers /\ shared \subseteq shared' /\ shared' \subseteq Numbers
  BY <1>1, <1>t DEF SiteUsers
<1>7. LaunchesTypeOK'
  <2>1. /\ tokens \subseteq Numbers /\ timers \subseteq Numbers /\ dirs \in [Numbers -> {"none", "new", "old"}]
        /\ \A m \in timers : dirs[m] # "none"
    BY <1>0 DEF LaunchesTypeOK
  <2> QED
    BY <1>0, <1>1, <1>t, <1>4, <1>6, <2>1, AdvanceTyped
<1>8. OneLaunchEach'
  BY <1>0, <1>4, OneKept
<1>9. SharingSeen'
  <2>1. SiteUsers' \subseteq SiteUsers \cup {n}
    BY <1>1, <1>3 DEF SiteUsers
  <2>2. CASE SiteUsers \ {n} = {}
    BY <2>1, <2>2 DEF SharingSeen
  <2>3. CASE SiteUsers \ {n} # {}
    BY <1>1, <2>1, <2>3 DEF SharingSeen
  <2> QED
    BY <2>2, <2>3
<1>10. SiteAlong'
  <2> SUFFICES ASSUME NEW m \in Numbers \ shared',
                      m \in reading' \/ (req'[m].at = "program" /\ ~req'[m].direct)
               PROVE  sites'[SiteOf[req'[m].job[2]]] = req'[m].job[2]
    BY DEF SiteAlong, Site
  <2>1. m # n
    BY <1>1, <1>2, <1>3, <1>5
  <2> QED
    BY <2>1, <1>0, <1>1, <1>3, <1>6 DEF SiteAlong, Site
<1>11. SiteIsOwn'
  BY <1>0, <1>1, <1>6 DEF SiteIsOwn
<1> QED
  BY <1>5, <1>7, <1>8, <1>9, <1>10, <1>11 DEF LaunchesInv

\* The write of the site file.
LEMMA WriteSitesKept ==
  ASSUME LaunchesInv, NEW n \in Numbers, NEW ok \in BOOLEAN, WriteSites(n, ok)
  PROVE  LaunchesInv'
<1>0. LaunchesTypeOK /\ LaunchesOrder /\ OneLaunchEach /\ SharingSeen /\ SiteAlong /\ SiteIsOwn
  BY DEF LaunchesInv
<1>t. /\ req \in [Numbers -> ReqRow] /\ sites \in SiteFile /\ shared \subseteq Numbers /\ reading \subseteq Numbers
  BY <1>0 DEF LaunchesTypeOK, ReqRow
<1>1. /\ up /\ req[n].at \in {"write", "rewrite"}
      /\ UNCHANGED <<os, up, entries, count, tokens, dirs, timers, reading, wrong, shared, opened, overrun, orphans, stops>>
      /\ sites' = IF ok THEN WithSite(n, req[n].read) ELSE sites
      /\ req' = [req EXCEPT ![n].at = AfterSite(n), ![n].direct = ~ok, ![n].read = Unused.read]
  BY DEF WriteSites, history
<1>2. AfterSite(n) \in {"bundle", "program"}
  BY DEF AfterSite
<1>3. /\ req' \in [Numbers -> ReqRow] /\ req'[n].at = AfterSite(n) /\ req'[n].direct = ~ok /\ req'[n].job = req[n].job
      /\ \A m \in Numbers \ {n} : req'[m] = req[m]
  <2>1. [req[n] EXCEPT !.at = AfterSite(n), !.direct = ~ok, !.read = Unused.read] \in ReqRow
    BY <1>t, <1>2, UnusedTyped DEF ReqRow, Steps
  <2> QED
    BY <1>t, <1>1, <2>1 DEF ReqRow
<1>4. Advances(n)
  BY <1>1, <1>2, <1>3 DEF Advances, Steps
<1>5. LaunchesOrder' /\ n \notin timers /\ n \notin reading
  BY <1>0, <1>1, <1>2, <1>3, <1>4, OrderKept
<1>6. /\ sites' \in SiteFile
      /\ ok => sites'[Site(n)] = req[n].job[2]
  <2>1. req[n].job \in Jobs /\ req[n].read \in SiteFile
    BY <1>t DEF ReqRow
  <2>2. Site(n) \in Names /\ req[n].job[2] \in Sessions
    BY <2>1, UnusedTyped DEF Site
  <2>3. WithSite(n, req[n].read) \in SiteFile /\ WithSite(n, req[n].read)[Site(n)] = req[n].job[2]
    BY <2>1, <2>2 DEF WithSite, SiteFile
  <2> QED
    BY <1>1, <1>t, <2>3
<1>7. LaunchesTypeOK'
  <2>1. /\ tokens \subseteq Numbers /\ timers \subseteq Numbers /\ dirs \in [Numbers -> {"none", "new", "old"}]
        /\ \A m \in timers : dirs[m] # "none"
    BY <1>0 DEF LaunchesTypeOK
  <2> QED
    BY <1>0, <1>1, <1>t, <1>4, <1>6, <2>1, AdvanceTyped
<1>8. OneLaunchEach'
  BY <1>0, <1>4, OneKept
<1>9. n \in SiteUsers /\ SiteUsers' \subseteq SiteUsers
  BY <1>1, <1>3 DEF SiteUsers
<1>10. SharingSeen'
  BY <1>0, <1>1, <1>9 DEF SharingSeen
<1>11. SiteAlong'
  <2> SUFFICES ASSUME NEW m \in Numbers \ shared,
                      m \in reading \/ (req'[m].at = "program" /\ ~req'[m].direct)
               PROVE  sites'[SiteOf[req'[m].job[2]]] = req'[m].job[2]
    BY <1>1 DEF SiteAlong, Site
  <2>1. CASE m = n
    BY <2>1, <1>3, <1>5, <1>6 DEF Site
  <2>2. CASE m # n
    \* Another user of the file would be marked.
    <3>1. m \in SiteUsers'
      BY <1>1 DEF SiteUsers
    <3> QED
      BY <2>2, <3>1, <1>0, <1>9 DEF SharingSeen
  <2> QED
    BY <2>1, <2>2
<1>12. SiteIsOwn'
  BY <1>0, <1>1 DEF SiteIsOwn
<1> QED
  BY <1>5, <1>7, <1>8, <1>10, <1>11, <1>12 DEF LaunchesInv

\* FileZilla is started.
LEMMA OpenFileZillaKept ==
  ASSUME LaunchesInv, NEW n \in Numbers, NEW ok \in BOOLEAN, OpenFileZilla(n, ok)
  PROVE  LaunchesInv'
<1>0. LaunchesTypeOK /\ LaunchesOrder /\ OneLaunchEach /\ SharingSeen /\ SiteAlong /\ SiteIsOwn
  BY DEF LaunchesInv
<1>t. reading \subseteq Numbers /\ shared \subseteq Numbers /\ sites \in SiteFile
  BY <1>0 DEF LaunchesTypeOK
<1>1. /\ up /\ req[n].at = "program" /\ req[n].at \in Steps
      /\ UNCHANGED <<os, up, count, tokens, dirs, timers, sites, wrong, shared, overrun, orphans, stops>>
      /\ reading' = reading \/ (reading' = reading \cup {n} /\ ~req[n].direct)
      /\ FinishSuccess(n) \/ FinishFailure(n)
  BY DEF OpenFileZilla, otherHistory, Steps
<1>2. /\ Ends(n) /\ req' \in [Numbers -> ReqRow]
      /\ req'[n].at = "ended" /\ req'[n].job = req[n].job
      /\ \A m \in Numbers \ {n} : req'[m] = req[m]
  BY <1>0, <1>1, EndsProperly
<1>4. Advances(n)
  BY <1>1, <1>2 DEF Advances
<1>5. LaunchesOrder' /\ n \notin timers /\ n \notin reading
  <2>1. timers' \cup reading' \subseteq timers \cup reading \cup (IF req'[n].at = "ended" THEN {n} ELSE {})
    BY <1>1, <1>2
  <2> QED
    BY <1>0, <1>1, <1>2, <1>4, <2>1, OrderKept
<1>7. LaunchesTypeOK'
  <2>1. /\ tokens \subseteq Numbers /\ timers \subseteq Numbers /\ dirs \in [Numbers -> {"none", "new", "old"}]
        /\ \A m \in timers : dirs[m] # "none"
    BY <1>0 DEF LaunchesTypeOK
  <2> QED
    BY <1>0, <1>1, <1>t, <1>4, <2>1, AdvanceTyped
<1>8. OneLaunchEach'
  BY <1>0, <1>4, OneKept
<1>9. SiteUsers' \subseteq SiteUsers
  BY <1>1, <1>2 DEF SiteUsers
<1>10. SharingSeen'
  BY <1>0, <1>1, <1>9 DEF SharingSeen
<1>11. SiteAlong'
  <2> SUFFICES ASSUME NEW m \in Numbers \ shared,
                      m \in reading' \/ (req'[m].at = "program" /\ ~req'[m].direct)
               PROVE  sites'[SiteOf[req'[m].job[2]]] = req'[m].job[2]
    BY <1>1 DEF SiteAlong, Site
  <2>1. CASE m = n
    BY <2>1, <1>0, <1>1, <1>2, <1>5 DEF Site, SiteAlong
  <2>2. CASE m # n
    BY <2>2, <1>0, <1>1, <1>2 DEF Site, SiteAlong
  <2> QED
    BY <2>1, <2>2
<1>12. SiteIsOwn'
  BY <1>0, <1>1 DEF SiteIsOwn
<1> QED
  BY <1>5, <1>7, <1>8, <1>10, <1>11, <1>12 DEF LaunchesInv

\* A request comes in, or meets the tracker.
LEMMA RequestKept ==
  ASSUME LaunchesInv,
         \/ \E j \in Jobs : \E taking \in SUBSET Verifiers, tokenOf \in Sessions : Accept(j, taking, tokenOf)
         \/ \E n \in Numbers : TryStart(n)
  PROVE  LaunchesInv'
<1>0. LaunchesTypeOK /\ LaunchesOrder /\ OneLaunchEach /\ SharingSeen /\ SiteAlong /\ SiteIsOwn
  BY DEF LaunchesInv
<1>t. /\ req \in [Numbers -> ReqRow] /\ entries \in [Jobs -> EntryRow] /\ opened \in [Jobs -> Nat]
      /\ reading \subseteq Numbers /\ timers \subseteq Numbers /\ count \in Nat
  BY <1>0 DEF LaunchesTypeOK, ReqRow, EntryRow
<1>1. ASSUME NEW j \in Jobs, NEW taking \in SUBSET Verifiers, NEW tokenOf \in Sessions, Accept(j, taking, tokenOf)
      PROVE  LaunchesInv'
  <2>1. /\ up /\ count < MaxLaunches /\ count' = count + 1
        /\ req' = [req EXCEPT ![count + 1] = [Unused EXCEPT !.job = j, !.at = "accepted"]]
        /\ UNCHANGED <<os, up, entries, tokens, dirs, timers, sites, reading, wrong, shared, opened, overrun, orphans, stops>>
    BY <1>1 DEF Accept, disk, history
  <2>2. count + 1 \in Numbers /\ count' \in 0 .. MaxLaunches
    BY <2>1, <1>t DEF Numbers
  <2>3. /\ req' \in [Numbers -> ReqRow] /\ req'[count + 1].at = "accepted"
        /\ \A m \in Numbers \ {count + 1} : req'[m] = req[m]
    <3>1. [Unused EXCEPT !.job = j, !.at = "accepted"] \in ReqRow
      BY UnusedTyped DEF ReqRow
    <3>2. [Unused EXCEPT !.job = j, !.at = "accepted"].at = "accepted"
      BY UnusedTyped DEF ReqRow
    <3> QED
      BY <2>1, <2>2, <1>t, <3>1, <3>2
  <2>4. req[count + 1].at = "none"
    BY <1>0, <1>t, <2>2 DEF LaunchesOrder
  <2>5. LaunchesTypeOK'
    BY <1>0, <2>1, <2>2, <2>3 DEF LaunchesTypeOK, ReqRow
  <2>6. LaunchesOrder'
    <3>1. \A m \in Numbers : m > count' => req'[m].at = "none"
      BY <1>0, <1>t, <2>1, <2>3 DEF LaunchesOrder, Numbers
    <3> QED
      BY <1>0, <1>t, <2>1, <2>3, <2>4, <3>1 DEF LaunchesOrder
  <2>7. OneLaunchEach'
    <3> SUFFICES ASSUME ~overrun, NEW i \in Jobs PROVE OneLaunch(i)'
      BY <2>1 DEF OneLaunchEach
    <3>1. \A m \in Numbers : Launching(m, i)' <=> Launching(m, i)
      BY <2>2, <2>3, <2>4 DEF Launching, Steps
    <3>2. Running(i)' <=> Running(i)
      BY <3>1 DEF Running, Launching
    <3> QED
      BY <1>0, <2>1, <3>1, <3>2 DEF OneLaunchEach, OneLaunch
  <2>8. SharingSeen' /\ SiteAlong' /\ SiteIsOwn'
    <3>1. \A m \in Numbers : req'[m].at \in SiteSteps => req'[m] = req[m]
      BY <2>3 DEF SiteSteps
    <3>2. \A m \in reading : req'[m].job = req[m].job
      BY <1>0, <1>t, <2>3, <2>4 DEF LaunchesOrder
    <3> QED
      BY <1>0, <2>1, <3>1, <3>2, SitesQuiet DEF SiteSteps
  <2> QED
    BY <2>5, <2>6, <2>7, <2>8 DEF LaunchesInv
<1>2. ASSUME NEW n \in Numbers, TryStart(n)
      PROVE  LaunchesInv'
  <2> DEFINE j == req[n].job
             pruned == [i \in Jobs |-> IF i \in Dropped THEN NoEntry ELSE entries[i]]
  <2>1. /\ up /\ req[n].at = "accepted" /\ j \in Jobs
        /\ UNCHANGED <<os, up, count, tokens, dirs, timers, sites, reading, wrong, shared, orphans, stops>>
        /\ opened' = [i \in Jobs |-> IF i \in Dropped THEN 0 ELSE opened[i]]
        /\ overrun' = (overrun \/ \E i \in Dropped : Running(i))
        /\ Duplicate(j) => entries' = pruned /\ Goes(n, "ended")
        /\ ~Duplicate(j) => /\ entries' = [pruned EXCEPT ![j] = [state |-> "progress", old |-> FALSE]]
                            /\ Goes(n, "begin")
    BY <1>2, <1>t DEF TryStart, disk, ReqRow
  <2>2. PICK where \in {"ended", "begin"} :
          /\ req' = [req EXCEPT ![n].at = where]
          /\ where = "ended" <=> Duplicate(j)
    BY <2>1 DEF Goes
  <2>3. /\ req' \in [Numbers -> ReqRow] /\ req'[n].at = where /\ req'[n].job = req[n].job
        /\ \A m \in Numbers \ {n} : req'[m] = req[m]
    BY <2>2, <1>t DEF ReqRow, Steps
  <2>4. pruned \in [Jobs -> EntryRow] /\ \A i \in Jobs : pruned[i] = IF i \in Dropped THEN NoEntry ELSE entries[i]
    BY <1>t, UnusedTyped
  <2>5. entries' \in [Jobs -> EntryRow] /\ opened' \in [Jobs -> Nat]
    <3>1. [state |-> "progress", old |-> FALSE] \in EntryRow
      BY DEF EntryRow
    <3>2. [pruned EXCEPT ![j] = [state |-> "progress", old |-> FALSE]] \in [Jobs -> EntryRow]
      BY <2>1, <2>4, <3>1
    <3>3. opened' \in [Jobs -> Nat]
      BY <1>t, <2>1
    <3> HIDE DEF pruned, j
    <3> QED
      BY <2>1, <2>4, <3>2, <3>3
  <2>6. LaunchesTypeOK'
    <3>1. overrun' \in BOOLEAN
      BY <2>1
    <3> QED
      BY <1>0, <2>1, <2>3, <2>5, <3>1 DEF LaunchesTypeOK, ReqRow, EntryRow
  <2>7. LaunchesOrder'
    <3>1. ~(n > count)
      BY <1>0, <2>1 DEF LaunchesOrder
    <3>2. n \notin timers \cup reading
      BY <1>0, <2>1 DEF LaunchesOrder
    <3> QED
      BY <1>0, <1>t, <2>1, <2>2, <2>3, <3>1, <3>2 DEF LaunchesOrder
  <2>8. OneLaunchEach'
    <3> SUFFICES ASSUME ~overrun', NEW i \in Jobs PROVE OneLaunch(i)'
      BY DEF OneLaunchEach
    <3>1. OneLaunch(i) /\ (i \in Dropped => ~Running(i))
      BY <1>0, <2>1 DEF OneLaunchEach
    <3>2. /\ opened'[i] = IF i \in Dropped THEN 0 ELSE opened[i]
          /\ opened[i] \in Nat
      BY <1>t, <2>1
    <3>3. ~Launching(n, i)
      BY <2>1 DEF Launching, Steps
    <3>4. CASE i = j /\ ~Duplicate(j)
      <4>1. entries[i].state = "none" \/ i \in Dropped
        BY <3>4, <1>t DEF Duplicate, Dropped, EntryRow
      <4>2. ~Running(i) /\ opened'[i] = 0
        BY <3>1, <3>2, <4>1 DEF OneLaunch
      <4>3. entries'[i].state = "progress"
        <5> HIDE DEF pruned
        <5> QED
          BY <2>1, <2>4, <3>4
      <4>4. \A m \in Numbers : Launching(m, i)' => m = n
        BY <2>3, <4>2 DEF Launching, Running
      <4> QED
        BY <4>2, <4>3, <4>4 DEF OneLaunch
    <3>5. CASE ~(i = j /\ ~Duplicate(j))
      <4>1. \A m \in Numbers : Launching(m, i)' <=> Launching(m, i)
        BY <2>2, <2>3, <3>3, <3>5 DEF Launching, Steps
      <4>2. Running(i)' <=> Running(i)
        BY <4>1 DEF Running, Launching
      <4>3. entries'[i] = IF i \in Dropped THEN NoEntry ELSE entries[i]
        <5> HIDE DEF pruned
        <5> QED
          BY <2>1, <2>4, <3>5
      <4> QED
        BY <3>1, <3>2, <4>1, <4>2, <4>3 DEF OneLaunch
    <3> QED
      BY <3>4, <3>5
  <2>9. SharingSeen' /\ SiteAlong' /\ SiteIsOwn'
    <3>1. \A m \in Numbers : req'[m].at \in SiteSteps => req'[m] = req[m]
      BY <2>2, <2>3 DEF SiteSteps
    <3>2. \A m \in reading : req'[m].job = req[m].job
      BY <1>t, <2>3
    <3> QED
      BY <1>0, <2>1, <3>1, <3>2, SitesQuiet DEF SiteSteps
  <2> QED
    BY <2>6, <2>7, <2>8, <2>9 DEF LaunchesInv
<1> QED
  BY <1>1, <1>2

\* Time passes: an entry or a directory ages, a goroutine removes a directory, a
\* bridge reads its token.
LEMMA TimeKept ==
  ASSUME LaunchesInv,
         \/ \E j \in Jobs : EntryAges(j)
         \/ \E n \in Numbers : RemoveTempDir(n) \/ ReadToken(n) \/ DirAges(n)
  PROVE  LaunchesInv'
<1>0. LaunchesTypeOK /\ LaunchesOrder /\ OneLaunchEach /\ SharingSeen /\ SiteAlong /\ SiteIsOwn
  BY DEF LaunchesInv
<1>1. UNCHANGED <<os, up, req, count, sites, reading, wrong, shared, opened, overrun, orphans, stops>>
  BY DEF EntryAges, RemoveTempDir, ReadToken, DirAges, disk, history
<1>2. /\ entries' \in [Jobs -> EntryRow] /\ \A j \in Jobs : entries'[j].state = entries[j].state
      /\ tokens' \subseteq Numbers /\ timers' \subseteq timers
  <2>1. entries \in [Jobs -> EntryRow]
    BY <1>0 DEF LaunchesTypeOK, EntryRow
  <2>2. CASE entries' = entries
    BY <1>0, <2>1, <2>2 DEF EntryAges, RemoveTempDir, ReadToken, DirAges, disk, LaunchesTypeOK
  <2>3. ASSUME NEW j \in Jobs, EntryAges(j)
        PROVE  /\ entries' \in [Jobs -> EntryRow] /\ \A i \in Jobs : entries'[i].state = entries[i].state
               /\ tokens' = tokens /\ timers' = timers
    BY <2>1, <2>3 DEF EntryAges, EntryRow, disk
  <2> QED
    BY <1>0, <2>2, <2>3 DEF RemoveTempDir, ReadToken, DirAges, LaunchesTypeOK
<1>3. /\ dirs' \in [Numbers -> {"none", "new", "old"}]
      /\ \A m \in Numbers : dirs[m] # "none" /\ dirs'[m] = "none" => m \in timers /\ m \notin timers'
  <2>1. CASE dirs' = dirs
    BY <1>0, <2>1 DEF LaunchesTypeOK
  <2>2. ASSUME NEW n \in Numbers, RemoveTempDir(n) \/ DirAges(n)
        PROVE  /\ dirs' \in [Numbers -> {"none", "new", "old"}]
               /\ \A m \in Numbers : dirs[m] # "none" /\ dirs'[m] = "none" => m \in timers /\ m \notin timers'
    BY <1>0, <2>2 DEF LaunchesTypeOK, RemoveTempDir, DirAges
  <2> QED
    BY <2>1, <2>2 DEF EntryAges, ReadToken, disk
<1>4. LaunchesTypeOK'
  BY <1>0, <1>1, <1>2, <1>3 DEF LaunchesTypeOK, EntryRow
<1>5. LaunchesOrder'
  <2>1. timers \subseteq Numbers
    BY <1>0 DEF LaunchesTypeOK
  <2> QED
    BY <1>0, <1>1, <1>2, <1>3, <2>1 DEF LaunchesOrder
<1>6. OneLaunchEach'
  BY <1>0, <1>1, <1>2 DEF OneLaunchEach, OneLaunch, Running, Launching
<1>7. SharingSeen' /\ SiteAlong' /\ SiteIsOwn'
  BY <1>0, <1>1 DEF SharingSeen, SiteAlong, SiteIsOwn, SiteUsers, Site
<1> QED
  BY <1>4, <1>5, <1>6, <1>7 DEF LaunchesInv

\* FileZilla reads its site.
LEMMA FileZillaReadsKept ==
  ASSUME LaunchesInv, NEW n \in Numbers, FileZillaReads(n)
  PROVE  LaunchesInv'
<1>0. LaunchesTypeOK /\ LaunchesOrder /\ OneLaunchEach /\ SharingSeen /\ SiteAlong /\ SiteIsOwn
  BY DEF LaunchesInv
<1>1. /\ n \in reading /\ reading' = reading \ {n}
      /\ UNCHANGED <<os, up, entries, req, count, tokens, dirs, timers, sites, shared, opened, overrun, orphans, stops>>
      /\ wrong' = IF sites[Site(n)] = req[n].job[2] THEN wrong ELSE wrong \cup {n}
  BY DEF FileZillaReads
<1>2. SiteIsOwn'
  BY <1>0, <1>1 DEF SiteIsOwn, SiteAlong
<1>3. LaunchesTypeOK'
  BY <1>0, <1>1 DEF LaunchesTypeOK
<1>4. LaunchesOrder'
  BY <1>0, <1>1 DEF LaunchesOrder
<1>5. OneLaunchEach'
  BY <1>0, <1>1 DEF OneLaunchEach, OneLaunch, Running, Launching
<1>6. SharingSeen' /\ SiteAlong'
  BY <1>0, <1>1 DEF SharingSeen, SiteAlong, SiteUsers, Site
<1> QED
  BY <1>2, <1>3, <1>4, <1>5, <1>6 DEF LaunchesInv

\* The process stops and starts.
LEMMA ProcessKept ==
  ASSUME LaunchesInv, StopConnector \/ StartConnector
  PROVE  LaunchesInv'
<1>0. LaunchesTypeOK /\ LaunchesOrder /\ OneLaunchEach /\ SharingSeen /\ SiteAlong /\ SiteIsOwn
  BY DEF LaunchesInv
<1>1. CASE StopConnector
  <2>1. /\ up' = FALSE /\ stops < MaxStops /\ stops' = stops + 1
        /\ req' = [n \in Numbers |-> IF req[n].at = "none" THEN Unused ELSE [req[n] EXCEPT !.at = "ended"]]
        /\ entries' = [j \in Jobs |-> NoEntry] /\ opened' = [j \in Jobs |-> 0] /\ timers' = {}
        /\ orphans' = {n \in Numbers : dirs[n] # "none"}
        /\ UNCHANGED <<os, count, tokens, dirs, sites, reading, wrong, shared, overrun>>
    BY <1>1 DEF StopConnector
  <2>2. /\ req' \in [Numbers -> ReqRow]
        /\ \A n \in Numbers : req'[n].at = IF req[n].at = "none" THEN "none" ELSE "ended"
        /\ \A n \in Numbers : req[n].at # "none" => req'[n].job = req[n].job
    <3>1. req \in [Numbers -> ReqRow]
      BY <1>0 DEF LaunchesTypeOK, ReqRow
    <3>2. \A n \in Numbers : [req[n] EXCEPT !.at = "ended"] \in ReqRow
      BY <3>1 DEF ReqRow
    <3> QED
      BY <2>1, <3>1, <3>2, UnusedTyped DEF ReqRow
  <2>3. LaunchesTypeOK'
    <3>1. entries' \in [Jobs -> EntryRow] /\ opened' \in [Jobs -> Nat] /\ orphans' \subseteq Numbers
      BY <2>1, UnusedTyped
    <3>2. stops \in 0 .. MaxStops
      BY <1>0 DEF LaunchesTypeOK
    <3>3. stops' \in 0 .. MaxStops
      BY <2>1, <3>2
    <3>4. up' \in BOOLEAN
      BY <2>1
    <3> QED
      BY <1>0, <2>1, <2>2, <3>1, <3>3, <3>4 DEF LaunchesTypeOK, ReqRow, EntryRow
  <2>4. LaunchesOrder'
    <3>1. reading \subseteq Numbers
      BY <1>0 DEF LaunchesTypeOK
    <3> QED
      BY <1>0, <2>1, <2>2, <3>1 DEF LaunchesOrder
  <2>5. OneLaunchEach'
    BY <2>1, <2>2 DEF OneLaunchEach, OneLaunch, Running, Launching, Steps
  <2>6. SharingSeen' /\ SiteAlong' /\ SiteIsOwn'
    <3>1. \A m \in reading : req'[m].job = req[m].job
      <4>1. reading \subseteq Numbers /\ \A m \in reading : req[m].at = "ended"
        BY <1>0 DEF LaunchesTypeOK, LaunchesOrder
      <4> QED
        BY <2>2, <4>1
    <3>2. \A m \in Numbers : req'[m].at \notin SiteSteps
      BY <2>2 DEF SiteSteps
    <3> QED
      BY <1>0, <2>1, <3>1, <3>2, SitesQuiet DEF SiteSteps
  <2> QED
    BY <2>3, <2>4, <2>5, <2>6 DEF LaunchesInv
<1>2. CASE StartConnector
  <2>1. /\ ~up /\ up' = TRUE /\ dirs' = [n \in Numbers |-> IF dirs[n] = "old" THEN "none" ELSE dirs[n]]
        /\ UNCHANGED <<os, entries, req, count, tokens, timers, sites, reading, wrong, shared, opened, overrun, orphans, stops>>
    BY <1>2 DEF StartConnector, history
  <2>2. timers = {} /\ \A n \in Numbers : req[n].at \in {"none", "ended"}
    BY <1>0, <2>1 DEF LaunchesOrder
  <2>3. LaunchesTypeOK'
    BY <1>0, <2>1, <2>2 DEF LaunchesTypeOK
  <2>4. LaunchesOrder'
    BY <1>0, <2>1, <2>2 DEF LaunchesOrder
  <2>5. OneLaunchEach'
    BY <1>0, <2>1 DEF OneLaunchEach, OneLaunch, Running, Launching
  <2>6. SharingSeen' /\ SiteAlong' /\ SiteIsOwn'
    BY <1>0, <2>1 DEF SharingSeen, SiteAlong, SiteIsOwn, SiteUsers, Site
  <2> QED
    BY <2>3, <2>4, <2>5, <2>6 DEF LaunchesInv
<1> QED
  BY <1>1, <1>2

\* Every step of the launches keeps their invariant.
LEMMA LaunchesKept == LaunchesInv /\ [LaunchesNext]_launches => LaunchesInv'
<1> SUFFICES ASSUME LaunchesInv, [LaunchesNext]_launches PROVE LaunchesInv'
  OBVIOUS
<1>1. CASE UNCHANGED launches
  BY <1>1 DEF launches, LaunchesInv, LaunchesTypeOK, LaunchesOrder, OneLaunchEach, OneLaunch, Running, Launching,
              SharingSeen, SiteAlong, SiteIsOwn, SiteUsers, Site
<1>2. ASSUME NEW n \in Numbers, LaunchStep(n)
      PROVE  LaunchesInv'
  BY <1>2, RequestKept, TimeKept, QuietSteps, ReadSitesKept, WriteSitesKept, OpenFileZillaKept DEF LaunchStep
<1>3. ASSUME LaunchesNext, ~\E n \in Numbers : LaunchStep(n)
      PROVE  LaunchesInv'
  BY <1>3, RequestKept, TimeKept, FileZillaReadsKept, ProcessKept DEF LaunchesNext
<1> QED
  BY <1>1, <1>2, <1>3

-------------------------------------------------------------------------------
(***************************************************************************)
(* The whole connector.                                                    *)
(***************************************************************************)
ConnectorInv == part \in {"tls", "launches", "shell"} /\ TLSInv /\ LaunchesInv /\ ShellInv

\* The invariants of the parts hold together.
LEMMA Together == Spec => []ConnectorInv
<1>1. Init => ConnectorInv
  BY TLSStart, LaunchesStart, ShellStart DEF Init, ConnectorInv
<1>2. ConnectorInv /\ [Next]_vars => ConnectorInv'
  <2> SUFFICES ASSUME ConnectorInv, [Next]_vars PROVE ConnectorInv'
    OBVIOUS
  <2>1. [LocalTLSNext]_tls /\ [LaunchesNext]_launches /\ [ShellNext]_shell /\ part' = part
    BY DEF Next, vars, LaunchesPart
  <2> QED
    BY <2>1, TLSKept, LaunchesKept, ShellKept DEF ConnectorInv
<1> QED
  BY <1>1, <1>2, PTL DEF Spec

\* The connector's variables keep their types, for any number of processes,
\* launches and bridges; in particular a process makes two keys at most, and a
\* goroutine that waits has a directory to remove.
THEOREM Typing == Spec => []TypeOK
<1>1. ConnectorInv => TypeOK
  BY DEF ConnectorInv, TLSInv, LaunchesInv, ShellInv, TypeOK
<1> QED
  BY <1>1, Together, PTL

\* Requests of any number, in any interleaving, open one client for an entry of
\* the tracker, unless a launch outlives its entry.
THEOREM OneClientEach == Spec => []OneClient
<1>1. ConnectorInv => OneClient
  BY DEF ConnectorInv, LaunchesInv, OneLaunchEach, OneLaunch, OneClient
<1> QED
  BY <1>1, Together, PTL

\* FileZilla gets its own session's credentials, unless launches shared the file.
THEOREM OwnSite == Spec => []SiteIsOwn
<1>1. ConnectorInv => SiteIsOwn
  BY DEF ConnectorInv, LaunchesInv
<1> QED
  BY <1>1, Together, PTL

\* The four files of a process that prepared alone belong together, whatever
\* crashes, torn writes and failures came before.
THEOREM Prepared == Spec => []PreparedConsistent
<1>1. TLSInv => PreparedConsistent
  BY DEF TLSInv, FilesAlong, Along, PreparedConsistent
<1> QED
  BY <1>1, Together, PTL DEF ConnectorInv

\* A proxy's accepted key is changed only by a bridge to that proxy that was told
\* to replace keys, by bridges that overlap, or by one that dies in its write.
THEOREM Trust == Spec => TrustKept
<1> DEFINE Kept == \A x \in Proxies : trusted[x] # Unknown /\ trusted'[x] # trusted[x] =>
                     \E b \in Bridges :
                       /\ bridgeOf[b].at = "write"
                       /\ \/ bridgeOf[b].proxy = x /\ bridgeOf[b].policy = "accept-replace"
                          \/ b \in crossed
                          \/ bridgeOf'[b].at = "none"
<1>1. ShellInv /\ ShellNext => Kept
  <2> SUFFICES ASSUME ShellInv, ShellNext, NEW x \in Proxies, trusted[x] # Unknown, trusted'[x] # trusted[x]
               PROVE  \E b \in Bridges :
                        /\ bridgeOf[b].at = "write"
                        /\ \/ bridgeOf[b].proxy = x /\ bridgeOf[b].policy = "accept-replace"
                           \/ b \in crossed
                           \/ bridgeOf'[b].at = "none"
    OBVIOUS
  <2>0. ShellTypeOK /\ Allowed
    BY DEF ShellInv
  <2>1. PICK b \in Bridges : WriteTrusted(b) \/ DieWriting(b)
    BY DEF ShellNext, StartBridge, CheckPolicy, ReadTrusted, EndBridge, FetchProxyKey, TakeToken, DialProxy, RotateProxyKey
  <2>2. bridgeOf[b].at = "write"
    BY <2>1 DEF WriteTrusted, DieWriting
  <2>3. CASE DieWriting(b)
    <3>1. bridgeOf'[b].at = "none"
      BY <2>0, <2>3 DEF DieWriting, Exits, ShellTypeOK, Idle
    <3> QED
      BY <2>2, <3>1
  <2>4. CASE WriteTrusted(b) /\ b \notin crossed
    <3>1. /\ bridgeOf[b].read = trusted
          /\ MayUpdate(bridgeOf[b].policy, trusted[bridgeOf[b].proxy])
      BY <2>0, <2>2, <2>4 DEF Allowed, Updating
    <3>2. trusted' = [trusted EXCEPT ![bridgeOf[b].proxy] = bridgeOf[b].key]
      BY <2>4, <3>1 DEF WriteTrusted
    <3>3. bridgeOf[b].proxy = x
      BY <2>0, <3>2 DEF ShellTypeOK, TrustFile
    <3> QED
      BY <2>2, <3>1, <3>3 DEF MayUpdate
  <2> QED
    BY <2>1, <2>2, <2>3, <2>4
<1>2. ConnectorInv /\ [Next]_vars => [Kept]_shell
  BY <1>1 DEF ConnectorInv, Next, vars, LaunchesPart
<1> QED
  BY <1>2, Together, PTL DEF Spec, TrustKept
===============================================================================
