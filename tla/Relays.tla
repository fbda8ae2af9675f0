-------------------------------- MODULE Relays --------------------------------
(***************************************************************************)
(* The relays together, and the dials that go before one of SSH.  They     *)
(* share nothing with each other: relay says which part is looked at, and  *)
(* the state of the others stays as it is.                                 *)
(***************************************************************************)
EXTENDS Bridge, SFTPRelay, StatementLog, HostKeys

VARIABLE relay  \* the part of the relays that is looked at

vars == <<relay, bridge, sftp, statement, hostkeys>>

TypeOK ==
  /\ relay \in {"bridge", "sftp", "statement", "hostkeys"}
  /\ BridgeTypeOK
  /\ SFTPTypeOK
  /\ StatementTypeOK
  /\ HostKeysTypeOK

Init ==
  /\ relay \in {"bridge", "sftp", "statement", "hostkeys"}
  /\ BridgeInit /\ (relay # "bridge" => kind = "sftp")
  /\ SFTPInit
  /\ StatementInit /\ (relay # "statement" => proto = "postgres")
  /\ HostKeysInit /\ (relay # "hostkeys" => mode = "insecure" /\ ~autoFix)

BridgeStep(A) == relay = "bridge" /\ A /\ UNCHANGED <<relay, sftp, statement, hostkeys>>

Next ==
  \/ BridgeStep(BridgeNext)
  \/ relay = "sftp" /\ SFTPNext /\ UNCHANGED <<relay, bridge, statement, hostkeys>>
  \/ relay = "statement" /\ StatementNext /\ UNCHANGED <<relay, bridge, sftp, hostkeys>>
  \/ relay = "hostkeys" /\ HostKeysNext /\ UNCHANGED <<relay, bridge, sftp, statement>>

\* Goroutines that can go on do, and timers fire.  Of the client nothing is
\* assumed, of the upstream host only that it answers channel requests.
Fairness ==
  /\ WF_vars(BridgeStep(MaxAgeReached))
  /\ WF_vars(BridgeStep(CloseSeen))
  /\ WF_vars(BridgeStep(HandleRequest \/ RequestFails))
  /\ WF_vars(BridgeStep(Started \/ StartFails \/ StartTimeout))
  /\ WF_vars(BridgeStep(WaitReturns))
  /\ WF_vars(BridgeStep(Settled))
  /\ \A s \in Streams : WF_vars(BridgeStep(SourceEnds(s))) /\ WF_vars(BridgeStep(IdleTimeout(s)))

Spec == Init /\ [][Next]_vars /\ Fairness
===============================================================================
