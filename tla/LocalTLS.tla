------------------------------- MODULE LocalTLS -------------------------------
(***************************************************************************)
(* How a connector process gets its certificate, local_tls.go and main.go  *)
(* of the connector: ensureLocalTLSFiles with loadOrCreateLocalCA and      *)
(* shouldReuseLeafTLSFiles, canServeWithExistingTLSFiles, and the start of *)
(* the TLS listener.                                                       *)
(*                                                                         *)
(* Four files are written one after the other: the certificate and the key *)
(* of the local root, and those of the leaf.  A process may die between    *)
(* any two writes, or in one.  Nothing keeps two processes apart: the      *)
(* browser may start a connector while one is starting, and the installer  *)
(* runs ensure-local-tls.                                                  *)
(***************************************************************************)
EXTENDS Naturals, FiniteSets

CONSTANTS Procs,      \* connector processes
          MaxStarts,  \* bound: processes started
          MaxAging    \* bound: steps of the certificates' age

ASSUME LocalTLSAssumption == MaxStarts \in Nat /\ MaxAging \in Nat

VARIABLES
  what,        \* "serve", or "command" for ensure-local-tls
  at,          \* where each process is
  mine,        \* the root a process works with, and the leaf key it made
  rotating,    \* the process was told to make a new root
  rootCert,    \* the files: the root's number, the number of its key, the leaf
  rootKey,     \*   as key number and root that signed it, and the number of the
  leafCert,    \*   leaf's key; 0 is a file that is missing or does not parse
  leafKey,
  rootOld,     \* the root expires within a day
  leafAge,     \* 0 good, 1 expires within a week, 2 within a day
  made,        \* keys made so far
  starts,      \* processes started so far
  aging,       \* steps of age so far
  overlapped   \* processes that were not alone while they prepared (for the properties)

tls == <<what, at, mine, rotating, rootCert, rootKey, leafCert, leafKey, rootOld, leafAge,
         made, starts, aging, overlapped>>

-------------------------------------------------------------------------------
\* Every start makes at most a root and a leaf key.
KeyNumbers == 0 .. 2 * MaxStarts

NoLeaf == [key |-> 0, by |-> 0]

NoKeys == [root |-> 0, key |-> 0]

Writing == {"rootCert", "rootKey", "leafCert", "leafKey"}

Preparing == Writing \cup {"root", "leaf"}

LocalTLSTypeOK ==
  /\ what \in [Procs -> {"serve", "command"}]
  /\ at \in [Procs -> Preparing \cup {"down", "ready", "fallback", "serving"}]
  /\ mine \in [Procs -> [root : KeyNumbers, key : KeyNumbers]]
  /\ rotating \in [Procs -> BOOLEAN]
  /\ rootCert \in KeyNumbers /\ rootKey \in KeyNumbers /\ leafKey \in KeyNumbers
  /\ leafCert \in [key : KeyNumbers, by : KeyNumbers]
  /\ rootOld \in BOOLEAN /\ leafAge \in 0 .. 2
  /\ made \in KeyNumbers
  /\ starts \in 0 .. MaxStarts /\ aging \in 0 .. MaxAging
  /\ overlapped \subseteq Procs

\* A fresh installation.
LocalTLSInit ==
  /\ what = [p \in Procs |-> "serve"]
  /\ at = [p \in Procs |-> "down"]
  /\ mine = [p \in Procs |-> NoKeys]
  /\ rotating = [p \in Procs |-> FALSE]
  /\ rootCert = 0 /\ rootKey = 0 /\ leafCert = NoLeaf /\ leafKey = 0
  /\ rootOld = FALSE /\ leafAge = 0
  /\ made = 0 /\ starts = 0 /\ aging = 0
  /\ overlapped = {}

Files == <<rootCert, rootKey, leafCert, leafKey, rootOld, leafAge>>

Reaches(p, where) == at' = [at EXCEPT ![p] = where]

\* Goes on, or ends and leaves nothing but the files.
EndsUnless(p, where, cond) ==
  /\ Reaches(p, IF cond THEN where ELSE "down")
  /\ what' = [what EXCEPT ![p] = IF cond THEN @ ELSE "serve"]
  /\ mine' = [mine EXCEPT ![p] = IF cond THEN @ ELSE NoKeys]
  /\ rotating' = [rotating EXCEPT ![p] = cond /\ @]
  /\ overlapped' = IF cond THEN overlapped ELSE overlapped \ {p}

-------------------------------------------------------------------------------
StartProcess(p, w, rotate) ==
  /\ at[p] = "down" /\ starts < MaxStarts
  /\ starts' = starts + 1
  /\ Reaches(p, "root")
  /\ what' = [what EXCEPT ![p] = w]
  /\ rotating' = [rotating EXCEPT ![p] = rotate]
  /\ UNCHANGED mine
  /\ LET others == {q \in Procs \ {p} : at[q] \in Preparing \cup {"ready", "fallback"}} IN
       overlapped' = IF others = {} THEN overlapped \ {p} ELSE overlapped \cup others \cup {p}
  /\ UNCHANGED <<Files, made, aging>>

\* loadLocalCA: the two files exist and parse, belong together, and do not
\* expire within a day.
RootLoads == rootCert # 0 /\ rootKey = rootCert /\ ~rootOld

\* loadOrCreateLocalCA.
TakeRoot(p) ==
  /\ at[p] = "root"
  /\ IF RootLoads /\ ~rotating[p]
       THEN Reaches(p, "leaf") /\ mine' = [mine EXCEPT ![p].root = rootCert] /\ UNCHANGED made
       ELSE /\ Reaches(p, "rootCert")
            /\ made' = made + 1
            /\ mine' = [mine EXCEPT ![p].root = made + 1]
  /\ UNCHANGED <<what, rotating, Files, starts, aging, overlapped>>

\* Mutant: the leaf's signature is not compared with the root.
MReusable(root) ==
  leafCert.key # 0 /\ leafKey = leafCert.key /\ leafAge = 0

\* shouldReuseLeafTLSFiles: leaf and chain are of this root, the key is the
\* leaf's, and the leaf is good for another week.
Reusable(root) ==
  leafCert.key # 0 /\ leafCert.by = root /\ leafKey = leafCert.key /\ leafAge = 0

TakeLeaf(p) ==
  /\ at[p] = "leaf"
  /\ IF Reusable(mine[p].root)
       THEN Reaches(p, "ready") /\ UNCHANGED <<made, mine>>
       ELSE /\ Reaches(p, "leafCert")
            /\ made' = made + 1
            /\ mine' = [mine EXCEPT ![p].key = made + 1]
  /\ UNCHANGED <<what, rotating, Files, starts, aging, overlapped>>

\* A file gets its content, or is left torn.
PutRootCert(torn, p) ==
  rootCert' = (IF torn THEN 0 ELSE mine[p].root) /\ rootOld' = FALSE /\ UNCHANGED <<rootKey, leafCert, leafKey, leafAge>>

PutRootKey(torn, p) ==
  rootKey' = (IF torn THEN 0 ELSE mine[p].root) /\ UNCHANGED <<rootCert, rootOld, leafCert, leafKey, leafAge>>

PutLeafCert(torn, p) ==
  /\ leafCert' = IF torn THEN NoLeaf ELSE [key |-> mine[p].key, by |-> mine[p].root]
  /\ leafAge' = 0
  /\ UNCHANGED <<rootCert, rootKey, rootOld, leafKey>>

PutLeafKey(torn, p) ==
  leafKey' = (IF torn THEN 0 ELSE mine[p].key) /\ UNCHANGED <<rootCert, rootKey, rootOld, leafCert, leafAge>>

Put(torn, p) ==
  CASE at[p] = "rootCert" -> PutRootCert(torn, p)
    [] at[p] = "rootKey"  -> PutRootKey(torn, p)
    [] at[p] = "leafCert" -> PutLeafCert(torn, p)
    [] at[p] = "leafKey"  -> PutLeafKey(torn, p)

AfterWrite == [rootCert |-> "rootKey", rootKey |-> "leaf", leafCert |-> "leafKey", leafKey |-> "ready"]

WriteFile(p) ==
  /\ at[p] \in Writing
  /\ Put(FALSE, p)
  /\ Reaches(p, AfterWrite[at[p]])
  /\ UNCHANGED <<what, mine, rotating, made, starts, aging, overlapped>>

\* canServeWithExistingTLSFiles.
Servable == leafCert.key # 0 /\ leafKey = leafCert.key /\ leafAge < 2

\* ensureLocalTLSFiles fails: on a directory or a key, before it touches a file,
\* or half way through it.  A server goes on with a pair that will do.
PrepareFails(p, torn) ==
  /\ at[p] \in Preparing
  /\ IF torn /\ at[p] \in Writing THEN Put(TRUE, p) ELSE UNCHANGED Files
  /\ EndsUnless(p, "fallback", what[p] = "serve" /\ Servable')
  /\ UNCHANGED <<made, starts, aging>>

\* ListenAndServeTLS takes the port and then loads the pair, either of which
\* may end the process.  The command is done.
Listen(p) ==
  /\ at[p] \in {"ready", "fallback"}
  /\ EndsUnless(p, "serving", /\ what[p] = "serve"
                              /\ \A q \in Procs : at[q] # "serving"
                              /\ leafCert.key # 0 /\ leafKey = leafCert.key)
  /\ UNCHANGED <<Files, made, starts, aging>>

\* The process dies or is stopped.
Die(p, torn) ==
  /\ at[p] # "down"
  /\ IF torn /\ at[p] \in Writing THEN Put(TRUE, p) ELSE UNCHANGED Files
  /\ EndsUnless(p, "down", FALSE)
  /\ UNCHANGED <<made, starts, aging>>

Age ==
  /\ aging < MaxAging
  /\ aging' = aging + 1
  /\ \/ leafAge < 2 /\ leafAge' = leafAge + 1 /\ UNCHANGED rootOld
     \/ ~rootOld /\ rootOld' = TRUE /\ UNCHANGED leafAge
  /\ UNCHANGED <<what, at, mine, rotating, rootCert, rootKey, leafCert, leafKey, made, starts, overlapped>>

LocalTLSNext ==
  \/ \E p \in Procs :
       \/ \E w \in {"serve", "command"}, rotate \in BOOLEAN : StartProcess(p, w, rotate)
       \/ TakeRoot(p) \/ TakeLeaf(p) \/ WriteFile(p) \/ Listen(p)
       \/ \E torn \in BOOLEAN : PrepareFails(p, torn) \/ Die(p, torn)
  \/ Age

\* A process that prepared its files alone has four files that belong together,
\* wherever earlier ones died or failed: the listener gets a leaf, its key, and
\* the root that browsers were told to trust.  Two processes that prepare at the
\* same time may mix their files.
PreparedConsistent ==
  \A p \in Procs \ overlapped :
    at[p] = "ready" => /\ rootCert = mine[p].root /\ rootKey = rootCert
                       /\ leafCert.by = rootCert /\ leafKey = leafCert.key /\ leafKey # 0
===============================================================================
