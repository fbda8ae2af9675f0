------------------------------- MODULE Connector -------------------------------
(***************************************************************************)
(* The connector's parts together: a process on its way to its listener,   *)
(* a running one with its launches, and the bridges in the terminals that  *)
(* shell launches open.  They share no state that the properties are       *)
(* about: part says which is looked at, and the others stay as they are.   *)
(***************************************************************************)
EXTENDS LocalTLS, Launches, ShellBridge

VARIABLE part  \* the part of the connector that is looked at

vars == <<part, tls, launches, shell>>

TypeOK ==
  /\ part \in {"tls", "launches", "shell"}
  /\ LocalTLSTypeOK
  /\ LaunchesTypeOK
  /\ ShellTypeOK

Init ==
  /\ part \in {"tls", "launches", "shell"}
  /\ LocalTLSInit
  /\ LaunchesInit /\ (part # "launches" => os = "linux")
  /\ ShellInit

LaunchesPart(A) == part = "launches" /\ A /\ UNCHANGED <<part, tls, shell>>

Next ==
  \/ part = "tls" /\ LocalTLSNext /\ UNCHANGED <<part, launches, shell>>
  \/ LaunchesPart(LaunchesNext)
  \/ part = "shell" /\ ShellNext /\ UNCHANGED <<part, tls, launches>>

\* A launch that is under way goes on, and a sleeping goroutine wakes.  That a
\* client is started, that a process is not stopped, or that a user comes back
\* is not assumed.
Fairness ==
  \A n \in Numbers :
    /\ WF_vars(LaunchesPart(\E ok \in BOOLEAN : FindDBeaver(n, ok) \/ StartDBeaver(n, ok)))
    /\ WF_vars(LaunchesPart(RemoveTempDir(n)))

Spec == Init /\ [][Next]_vars /\ Fairness
===============================================================================
