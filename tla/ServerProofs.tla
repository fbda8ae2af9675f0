----------------------------- MODULE ServerProofs -----------------------------
(***************************************************************************)
(* Proofs about Server and, through it, Inventory: for any number of       *)
(* processes on the database, of migrations, of services to stop and of    *)
(* assets.                                                                 *)
(***************************************************************************)
EXTENDS Server, SequenceTheorems, TLAPS

USE DEF tables, inventory, server, vars

-------------------------------------------------------------------------------
(* Type correctness.  That a process starts at a version that exists rests *)
(* on the order of the log, and the order on every process having seen     *)
(* versions of the log only: it finds the next one recorded, or appends it *)
(* right behind them.                                                      *)

Applied == MigrationsInOrder /\ \A p \in Requests : proc[p].seen <= Len(log)

Typed == TypeOK /\ Applied

\* The first row of the table is one; what an idle request holds is typed.
LEMMA IdleTyped == 1 \in Ids /\ Idle \in RequestRow
  BY InventoryAssumption DEF Ids, Idle, RequestRow, Actions, Types

\* There is a service to stop.
LEMMA StagesTyped == /\ Len(Services) \in Nat \ {0} /\ 1 \in Stages
                     /\ \A i \in Stages : Services[i] \in {"http", "ssh", "proxy"}
  <1>1. Len(Services) \in Nat /\ \A i \in 1 .. Len(Services) : Services[i] \in {"http", "ssh", "proxy"}
    BY ServerAssumption, LenProperties, ElementOfSeq
  <1>2. Len(Services) # 0
    BY ServerAssumption, EmptySeq
  <1> QED
    BY <1>1, <1>2 DEF Stages

\* A process that is not running.
LEMMA OffTyped == \A how \in {"none", "clean", "error", "killed"} : Off(how) \in ProcRow
  BY IdleTyped, StagesTyped, ServerAssumption DEF Off, ProcRow, Commands

\* The empty database is typed.
LEMMA InitTyped == Init => Typed
  <1> SUFFICES ASSUME Init PROVE Typed
    OBVIOUS
  <1>1. InventoryTypeOK
    <2>1. PICK n \in Names : assets = [a \in Ids |-> [state |-> "free", name |-> n,
                                                     type |-> "linux_vm", renamed |-> FALSE]]
      BY DEF Init, InventoryInit
    <2>2. assets \in [Ids -> AssetRow]
      BY <2>1 DEF AssetRow, Types
    <2>3. req \in [Requests -> RequestRow] /\ edits \in 0 .. MaxEdits
      BY IdleTyped, InventoryAssumption DEF Init, InventoryInit
    <2> QED
      BY <2>2, <2>3 DEF Init, InventoryInit, InventoryTypeOK
  <1>2. proc \in [Requests -> ProcRow] /\ \A p \in Requests : proc[p].seen = 0
    BY OffTyped DEF Init, Off
  <1>3. log \in Seq(1 .. Migrations) /\ Len(log) = 0 /\ DOMAIN log = {}
    BY DEF Init
  <1> QED
    BY <1>1, <1>2, <1>3 DEF Init, Typed, TypeOK, Applied, MigrationsInOrder

\* The steps of a request.
LEMMA HandleTyped ==
  ASSUME InventoryTypeOK, NEW p \in Requests, Handle(p)
  PROVE  InventoryTypeOK'
  <1> USE DEF InventoryTypeOK
  <1>1. \A n \in Names, type \in Types : NewAsset(n, type) \in AssetRow
    BY DEF NewAsset, AssetRow
  <1>2. ASSUME NEW a \in Ids, NEW action \in Actions,
               NEW step \in {"grant", "credential", "delete", "check"},
               Found(p, step, a, action), Edit, UNCHANGED tables
        PROVE  InventoryTypeOK'
    <2>1. [pc |-> step, asset |-> a, action |-> action, type |-> assets[a].type,
           found |-> Live(a)] \in RequestRow
      BY DEF RequestRow, AssetRow, Live
    <2> QED
      BY <1>2, <2>1, InventoryAssumption DEF Found, Edit
  <1>3. /\ Answer(p) => req' \in [Requests -> RequestRow]
        /\ Edit => edits' \in 0 .. MaxEdits
    BY IdleTyped, InventoryAssumption DEF Answer, Edit
  <1>4. /\ req[p].asset \in Ids /\ req[p].action \in Actions
        /\ \A step \in {"create", "resolve"} :
             [req EXCEPT ![p].pc = step] \in [Requests -> RequestRow]
    BY DEF RequestRow
  <1>5. ASSUME NEW n \in Names, CreateAsset(p, n) PROVE InventoryTypeOK'
    BY <1>1, <1>3, <1>5 DEF CreateAsset
  <1>6. ASSUME NEW a \in Ids, UpdateAsset(p, a) PROVE InventoryTypeOK'
    BY <1>1, <1>3, <1>6 DEF UpdateAsset
  <1>7. ASSUME NEW a \in Ids, DeleteBegins(p, a) \/ CredentialBegins(p, a)
        PROVE  InventoryTypeOK'
    BY <1>2, <1>7 DEF DeleteBegins, CredentialBegins, Actions
  <1>8. ASSUME NEW a \in Ids, NEW action \in Actions,
               GrantBegins(p, a, action) \/ LaunchBegins(p, a, action)
        PROVE  InventoryTypeOK'
    BY <1>2, <1>8 DEF GrantBegins, LaunchBegins
  <1>9. ASSUME NEW a \in Ids, NEW action \in Actions, RemoveUserGrant(p, a, action)
        PROVE  InventoryTypeOK'
    BY <1>3, <1>9 DEF RemoveUserGrant
  <1>10. CASE DeleteAsset(p)
    <2>1. \A row \in AssetRow : Archived(row) \in AssetRow
      BY DEF Archived, AssetRow
    <2>2. assets' \in [Ids -> AssetRow] /\ grants' \subseteq grants /\ creds' \subseteq creds
      BY <1>4, <1>10, <2>1 DEF DeleteAsset
    <2> QED
      BY <1>3, <1>10, <2>2 DEF DeleteAsset
  <1>11. CASE AddUserGrant(p)
    BY <1>3, <1>4, <1>11 DEF AddUserGrant
  <1>12. CASE UpsertAssetCredential(p)
    BY <1>3, <1>4, <1>12 DEF UpsertAssetCredential
  <1>13. CASE CanUserPerform(p)
    BY <1>4, <1>13, IdleTyped DEF CanUserPerform
  <1>14. CASE CreateLaunch(p)
    <2>1. <<req[p].asset, req[p].action, FALSE>> \in Ids \X Actions \X BOOLEAN
      BY <1>4
    <2> QED
      BY <1>4, <1>14, <2>1 DEF CreateLaunch
  <1>15. CASE ResolveForAsset(p)
    <2>1. <<req[p].asset, req[p].action, TRUE>> \in Ids \X Actions \X BOOLEAN
      BY <1>4
    <2>2. launches' \subseteq launches \cup {<<req[p].asset, req[p].action, TRUE>>}
      BY <1>15 DEF ResolveForAsset
    <2> QED
      BY <1>3, <1>15, <2>1, <2>2 DEF ResolveForAsset
  <1> QED
    BY <1>5, <1>6, <1>7, <1>8, <1>9, <1>10, <1>11, <1>12, <1>13, <1>14, <1>15 DEF Handle

\* The lengths and versions of a log in order.
LEMMA VersionsInOrder ==
  ASSUME Typed
  PROVE  /\ Len(log) \in 0 .. Migrations /\ DOMAIN log = 1 .. Len(log)
         /\ \A i \in 1 .. Len(log) : log[i] = i
  <1>1. /\ Len(log) \in Nat /\ DOMAIN log = 1 .. Len(log)
        /\ \A i \in 1 .. Len(log) : log[i] \in 1 .. Migrations
    BY LenProperties, ElementOfSeq DEF Typed, TypeOK
  <1>2. \A i \in 1 .. Len(log) : log[i] = i
    BY <1>1 DEF Typed, Applied, MigrationsInOrder
  <1>3. Len(log) <= Migrations
    <2>1. CASE Len(log) = 0
      BY <2>1, ServerAssumption
    <2>2. CASE Len(log) # 0
      <3>1. Len(log) \in 1 .. Len(log)
        BY <1>1, <2>2
      <3> QED
        BY <1>1, <1>2, <3>1, ServerAssumption
    <2> QED
      BY <2>1, <2>2
  <1> QED
    BY <1>1, <1>2, <1>3, ServerAssumption

\* A step that writes nothing to the log, and to one process only.
LEMMA ProcessTyped ==
  ASSUME Typed, NEW p \in Requests, NEW row \in ProcRow, row.seen <= Len(log),
         proc' = [proc EXCEPT ![p] = row], UNCHANGED log
  PROVE  proc' \in [Requests -> ProcRow] /\ log' \in Seq(1 .. Migrations) /\ Applied'
  BY DEF Typed, TypeOK, Applied, MigrationsInOrder

\* A process goes on to another step.
LEMMA GotoTyped ==
  ASSUME Typed, NEW p \in Requests,
         NEW step \in {"auth", "asset", "credential", "grant", "serving", "stopping"},
         Goto(p, step), UNCHANGED log
  PROVE  proc' \in [Requests -> ProcRow] /\ log' \in Seq(1 .. Migrations) /\ Applied'
  <1> DEFINE row == [proc[p] EXCEPT !.pc = step]
  <1>1. proc[p] \in ProcRow /\ proc[p].seen <= Len(log)
    BY DEF Typed, TypeOK, Applied
  <1>2. row \in ProcRow
    BY <1>1 DEF ProcRow
  <1>3. row.seen = proc[p].seen
    BY <1>1 DEF ProcRow
  <1>4. proc' = [proc EXCEPT ![p] = row]
    BY DEF Goto
  <1> HIDE DEF row
  <1> QED
    BY <1>1, <1>2, <1>3, <1>4, ProcessTyped

\* A process ends.
LEMMA ExitTyped ==
  ASSUME Typed, NEW p \in Requests, NEW how \in {"clean", "error", "killed"},
         Exit(p, how), UNCHANGED log
  PROVE  /\ proc' \in [Requests -> ProcRow] /\ log' \in Seq(1 .. Migrations) /\ Applied'
         /\ cut' \in [Requests -> SUBSET Stages]
         /\ req' \in [Requests -> RequestRow]
  <1>1. Off(how) \in ProcRow /\ Off(how).seen <= Len(log)
    <2>1. Off(how) \in ProcRow
      BY OffTyped
    <2>2. Off(how).seen = 0
      BY DEF Off
    <2> QED
      BY <2>1, <2>2, VersionsInOrder, ServerAssumption
  <1>2. proc' \in [Requests -> ProcRow] /\ log' \in Seq(1 .. Migrations) /\ Applied'
    BY <1>1, ProcessTyped DEF Exit
  <1>3. proc[p].open \cup proc[p].late \in SUBSET Stages
    BY DEF Typed, TypeOK, ProcRow
  <1> QED
    BY <1>2, <1>3, IdleTyped DEF Typed, TypeOK, InventoryTypeOK, Exit

\* The end of Bootstrap.
LEMMA BootstrappedTyped ==
  ASSUME Typed, NEW p \in Requests, Bootstrapped(p), UNCHANGED log
  PROVE  /\ proc' \in [Requests -> ProcRow] /\ log' \in Seq(1 .. Migrations) /\ Applied'
         /\ cut' \in [Requests -> SUBSET Stages]
         /\ req' \in [Requests -> RequestRow]
  <1>1. CASE Exit(p, "clean")
    BY <1>1, ExitTyped
  <1>2. CASE Goto(p, "serving") /\ UNCHANGED <<cut, req>>
    BY <1>2, GotoTyped DEF Typed, TypeOK, InventoryTypeOK
  <1> QED
    BY <1>1, <1>2 DEF Bootstrapped

\* Start and the migrations.
LEMMA UpTyped ==
  ASSUME Typed, NEW p \in Requests, Start(p) \/ Up(p)
  PROVE  Typed'
  <1>1. CASE Start(p)
    <2>1. PICK c \in Commands :
            proc' = [proc EXCEPT ![p] = [Off("none") EXCEPT !.cmd = c, !.pc = "up",
                                                            !.seen = Len(log)]]
      BY <1>1 DEF Start
    <2>2. [Off("none") EXCEPT !.cmd = c, !.pc = "up", !.seen = Len(log)] \in ProcRow
      BY OffTyped, VersionsInOrder DEF ProcRow
    <2>3. [Off("none") EXCEPT !.cmd = c, !.pc = "up", !.seen = Len(log)].seen = Len(log)
      BY DEF Off
    <2>4. Len(log) <= Len(log)
      BY VersionsInOrder
    <2>5. proc' \in [Requests -> ProcRow] /\ log' \in Seq(1 .. Migrations) /\ Applied'
      BY <1>1, <2>1, <2>2, <2>3, <2>4, ProcessTyped DEF Start
    <2>6. edits' \in 0 .. MaxEdits /\ cut' \in [Requests -> SUBSET Stages]
      <3>1. edits' = edits + 1 /\ edits < MaxEdits /\ cut' = [cut EXCEPT ![p] = {}]
        BY <1>1 DEF Start, Edit
      <3> QED
        BY <3>1, InventoryAssumption DEF Typed, TypeOK, InventoryTypeOK
    <2> QED
      BY <1>1, <2>5, <2>6 DEF Start, Typed, TypeOK, InventoryTypeOK
  <1>2. CASE ApplyMigration(p) /\ UNCHANGED <<tables, edits>>
    <2> DEFINE v == proc[p].seen + 1
    <2>1. /\ v \in 1 .. Migrations /\ proc[p].seen \in Nat /\ v <= Len(log) + 1
          /\ log' = Append(log, v) /\ \A i \in DOMAIN log : log[i] # v
          /\ proc' = [proc EXCEPT ![p].seen = v]
      BY <1>2, VersionsInOrder, ServerAssumption
         DEF ApplyMigration, Recordable, Typed, TypeOK, Applied, ProcRow
    <2> HIDE DEF v
    <2>2. v = Len(log) + 1
      BY <2>1, VersionsInOrder, ServerAssumption
    <2>3. /\ log' \in Seq(1 .. Migrations) /\ Len(log') = Len(log) + 1
          /\ DOMAIN log' = 1 .. Len(log) + 1
          /\ \A i \in 1 .. Len(log) : log'[i] = log[i]
          /\ log'[Len(log) + 1] = v
      BY <2>1, AppendProperties, LenProperties DEF Typed, TypeOK
    <2>4. MigrationsInOrder'
      BY <2>2, <2>3, VersionsInOrder DEF MigrationsInOrder
    <2>5. proc' \in [Requests -> ProcRow] /\ \A q \in Requests : proc'[q].seen <= Len(log')
      <3> DEFINE row == [proc[p] EXCEPT !.seen = v]
      <3>1. proc' = [proc EXCEPT ![p] = row] /\ proc[p] \in ProcRow
        BY <2>1 DEF Typed, TypeOK
      <3>2. v \in 0 .. Migrations
        BY <2>1, ServerAssumption
      <3>3. row \in ProcRow /\ row.seen = v
        BY <3>1, <3>2 DEF ProcRow
      <3>4. \A q \in Requests : proc[q].seen \in Nat /\ proc[q].seen <= Len(log)
        BY DEF Typed, TypeOK, Applied, ProcRow
      <3> HIDE DEF row
      <3> QED
        BY <2>2, <2>3, <3>1, <3>3, <3>4, VersionsInOrder DEF Typed, TypeOK
    <2> QED
      BY <1>2, <2>3, <2>4, <2>5
         DEF ApplyMigration, Typed, TypeOK, Applied, InventoryTypeOK
  <1>3. CASE Migrated(p) /\ UNCHANGED <<tables, edits>>
    <2>1. CASE Exit(p, "clean")
      BY <1>3, <2>1, ExitTyped DEF Migrated, Typed, TypeOK, InventoryTypeOK
    <2>2. CASE Goto(p, "auth") /\ UNCHANGED <<cut, req>>
      BY <1>3, <2>2, GotoTyped DEF Migrated, Typed, TypeOK, InventoryTypeOK
    <2> QED
      BY <1>3, <2>1, <2>2 DEF Migrated
  <1>4. CASE FailUp(p) /\ UNCHANGED <<tables, edits>>
    BY <1>4, ExitTyped DEF FailUp, Typed, TypeOK, InventoryTypeOK
  <1> QED
    BY <1>1, <1>2, <1>3, <1>4 DEF Up

\* Bootstrap and the seed.
LEMMA SeedTyped ==
  ASSUME Typed, NEW p \in Requests, Bootstrap(p) \/ BootstrapDevAccess(p)
  PROVE  Typed'
  <1>1. CASE Bootstrap(p)
    <2>1. CASE Goto(p, "asset") /\ UNCHANGED <<cut, req>>
      BY <1>1, <2>1, GotoTyped DEF Bootstrap, Typed, TypeOK, InventoryTypeOK
    <2>2. CASE Bootstrapped(p)
      BY <1>1, <2>2, BootstrappedTyped DEF Bootstrap, Typed, TypeOK, InventoryTypeOK
    <2>3. CASE Exit(p, "error")
      BY <1>1, <2>3, ExitTyped DEF Bootstrap, Typed, TypeOK, InventoryTypeOK
    <2> QED
      BY <1>1, <2>1, <2>2, <2>3 DEF Bootstrap
  <1>2. CASE UpsertAsset(p)
    <2>1. PICK a \in Ids :
            /\ assets' = [assets EXCEPT ![a] = IF Holder(Seed.name) = {}
                                               THEN NewAsset(Seed.name, Seed.type)
                                               ELSE [@ EXCEPT !.type = Seed.type]]
            /\ proc' = [proc EXCEPT ![p].pc = "credential", ![p].row = a,
                                    ![p].found = assets'[a].state = "active"]
      BY <1>2 DEF UpsertAsset
    <2>2. assets' \in [Ids -> AssetRow]
      BY <2>1, ServerAssumption DEF Typed, TypeOK, InventoryTypeOK, AssetRow, NewAsset
    <2> DEFINE row == [proc[p] EXCEPT !.pc = "credential", !.row = a,
                                      !.found = assets'[a].state = "active"]
    <2>3. row \in ProcRow /\ row.seen <= Len(log)
      <3>1. proc[p] \in ProcRow /\ proc[p].seen <= Len(log)
        BY DEF Typed, TypeOK, Applied
      <3>2. PICK b \in BOOLEAN : b = (assets'[a].state = "active")
        OBVIOUS
      <3>3. row = [proc[p] EXCEPT !.pc = "credential", !.row = a, !.found = b]
        BY <3>2
      <3>4. [proc[p] EXCEPT !.pc = "credential", !.row = a, !.found = b] \in ProcRow
        BY <3>1 DEF ProcRow
      <3>5. [proc[p] EXCEPT !.pc = "credential", !.row = a, !.found = b].seen = proc[p].seen
        BY <3>1 DEF ProcRow
      <3> QED
        BY <3>1, <3>3, <3>4, <3>5
    <2>4. proc' = [proc EXCEPT ![p] = row]
      BY <2>1
    <2>5. proc' \in [Requests -> ProcRow] /\ log' \in Seq(1 .. Migrations) /\ Applied'
      <3> HIDE DEF row
      <3> QED
        BY <1>2, <2>3, <2>4, ProcessTyped DEF UpsertAsset
    <2> QED
      BY <1>2, <2>2, <2>5 DEF UpsertAsset, Typed, TypeOK, InventoryTypeOK
  <1>3. CASE UpsertCredential(p)
    <2>1. <<proc[p].row, Seed.cred>> \in Ids \X CredTypes
      BY ServerAssumption DEF Typed, TypeOK, ProcRow
    <2> QED
      BY <1>3, <2>1, GotoTyped DEF UpsertCredential, Typed, TypeOK, InventoryTypeOK
  <1>4. CASE GrantUserAction(p)
    <2>1. <<proc[p].row, Seed.action>> \in Ids \X Actions
      BY ServerAssumption DEF Typed, TypeOK, ProcRow
    <2> QED
      BY <1>4, <2>1, BootstrappedTyped DEF GrantUserAction, Typed, TypeOK, InventoryTypeOK
  <1> QED
    BY <1>1, <1>2, <1>3, <1>4 DEF BootstrapDevAccess

\* The steps of a process that serves or stops, and goes on.
Tends(p) ==
  \/ Listen(p) \/ Expire(p) \/ CloseActiveConns(p)
  \/ StopService(p) /\ NextStage(p, proc[p].stage) /\ proc[p].stage # Len(Services)
  \/ \E i \in Stages : Client(p, i) \/ TrackConn(p, i)

\* The steps with which it ends.
Ends(p) == (StopService(p) /\ Exit(p, "clean")) \/ FailStop(p) \/ Crash(p)

\* Every step is one of a process, and of one of these kinds.
LEMMA NextCases ==
  ASSUME Next
  PROVE  \E p \in Requests : \/ Start(p) \/ Up(p) \/ Bootstrap(p) \/ BootstrapDevAccess(p)
                             \/ Request(p) \/ FinishRequest(p) \/ Signal(p)
                             \/ Tends(p) \/ Ends(p)
  <1>1. ASSUME NEW p \in Requests, StopService(p) PROVE Tends(p) \/ Ends(p)
    BY <1>1 DEF StopService, Tends, Ends
  <1> QED
    BY <1>1 DEF Next, Stop, Tends, Ends

\* A process that goes on changes its own row, in what belongs to its services.
LEMMA Tending ==
  ASSUME Typed, NEW p \in Requests, Tends(p)
  PROVE  /\ \E row \in ProcRow :
              /\ proc' = [proc EXCEPT ![p] = row]
              /\ row.seen = proc[p].seen /\ row.pc = proc[p].pc
              /\ row.row = proc[p].row /\ row.found = proc[p].found
         /\ UNCHANGED <<log, cut, tables, req>> /\ edits' \in 0 .. MaxEdits
         /\ Running(p)
  <1>1. proc[p] \in ProcRow
    BY DEF Typed, TypeOK
  <1>2. Edit \/ UNCHANGED edits => edits' \in 0 .. MaxEdits
    BY InventoryAssumption DEF Edit, Typed, TypeOK, InventoryTypeOK
  <1>3. ASSUME NEW row,
               proc' = [proc EXCEPT ![p] = row], row \in ProcRow,
               row.seen = proc[p].seen, row.pc = proc[p].pc,
               row.row = proc[p].row, row.found = proc[p].found,
               UNCHANGED <<log, cut, tables, req>>, Edit \/ UNCHANGED edits, Running(p)
        PROVE  /\ \E r \in ProcRow :
                    /\ proc' = [proc EXCEPT ![p] = r]
                    /\ r.seen = proc[p].seen /\ r.pc = proc[p].pc
                    /\ r.row = proc[p].row /\ r.found = proc[p].found
               /\ UNCHANGED <<log, cut, tables, req>> /\ edits' \in 0 .. MaxEdits
               /\ Running(p)
    BY <1>2, <1>3
  <1>4. CASE Listen(p)
    <2>1. PICK v \in {"open", "stray"} : proc' = [proc EXCEPT ![p].ssh = v]
      BY <1>4 DEF Listen
    <2> QED
      BY <1>1, <1>3, <1>4, <2>1 DEF Listen, ProcRow
  <1>5. CASE Expire(p)
    BY <1>1, <1>3, <1>5 DEF Expire, ProcRow, At, Running
  <1>6. CASE CloseActiveConns(p)
    <2>1. PICK open \in SUBSET Stages :
            proc' = [proc EXCEPT ![p].forced = TRUE, ![p].open = open]
      BY <1>1, <1>6 DEF CloseActiveConns, ProcRow
    <2> DEFINE row == [proc[p] EXCEPT !.forced = TRUE, !.open = open]
    <2>2. proc' = [proc EXCEPT ![p] = row]
      BY <2>1
    <2>3. row \in ProcRow
      BY <1>1 DEF ProcRow
    <2>4. /\ row.seen = proc[p].seen /\ row.pc = proc[p].pc
          /\ row.row = proc[p].row /\ row.found = proc[p].found
      BY <1>1 DEF ProcRow
    <2>5. UNCHANGED <<log, cut, tables, req>> /\ UNCHANGED edits /\ Running(p)
      BY <1>6 DEF CloseActiveConns, inventory, At, Running
    <2> HIDE DEF row
    <2> QED
      BY <1>3, <2>2, <2>3, <2>4, <2>5
  <1>7. CASE StopService(p) /\ NextStage(p, proc[p].stage) /\ proc[p].stage # Len(Services)
    <2>1. PICK i \in Stages, missed \in SUBSET Stages :
            proc' = [proc EXCEPT ![p].stage = i, ![p].missed = missed]
      <3>1. proc[p].stage + 1 \in Stages
        BY <1>1, <1>7, StagesTyped DEF ProcRow, Stages
      <3>2. proc[p].missed \cup (proc[p].late \cap {proc[p].stage}) \in SUBSET Stages
        BY <1>1 DEF ProcRow
      <3> QED
        BY <1>7, <3>1, <3>2 DEF NextStage
    <2> DEFINE row == [proc[p] EXCEPT !.stage = i, !.missed = missed]
    <2>2. proc' = [proc EXCEPT ![p] = row]
      BY <2>1
    <2>3. row \in ProcRow
      BY <1>1 DEF ProcRow
    <2>4. /\ row.seen = proc[p].seen /\ row.pc = proc[p].pc
          /\ row.row = proc[p].row /\ row.found = proc[p].found
      BY <1>1 DEF ProcRow
    <2>5. UNCHANGED <<log, cut, tables, req>> /\ UNCHANGED edits /\ Running(p)
      BY <1>7 DEF StopService, NextStage, At, Running
    <2> HIDE DEF row
    <2> QED
      BY <1>3, <2>2, <2>3, <2>4, <2>5
  <1>8. ASSUME NEW i \in Stages, Connect(p, i)
        PROVE  Running(p) /\ proc' = [proc EXCEPT ![p] = [proc[p] EXCEPT !.open = @ \cup {i}]]
    BY <1>8 DEF Connect, Listening, Running, At
  <1>9. ASSUME NEW i \in Stages, Connect(p, i)
        PROVE  [proc[p] EXCEPT !.open = @ \cup {i}] \in ProcRow
    BY <1>1 DEF ProcRow
  <1>10. ASSUME NEW i \in Stages, Connect(p, i)
         PROVE  /\ \E r \in ProcRow :
                     /\ proc' = [proc EXCEPT ![p] = r]
                     /\ r.seen = proc[p].seen /\ r.pc = proc[p].pc
                     /\ r.row = proc[p].row /\ r.found = proc[p].found
                /\ UNCHANGED <<log, cut, tables, req>> /\ edits' \in 0 .. MaxEdits
                /\ Running(p)
    BY <1>1, <1>3, <1>8, <1>9, <1>10 DEF Connect, ProcRow
  <1>11. ASSUME NEW i \in Stages, Accept(p, i)
         PROVE  /\ \E r \in ProcRow :
                     /\ proc' = [proc EXCEPT ![p] = r]
                     /\ r.seen = proc[p].seen /\ r.pc = proc[p].pc
                     /\ r.row = proc[p].row /\ r.found = proc[p].found
                /\ UNCHANGED <<log, cut, tables, req>> /\ edits' \in 0 .. MaxEdits
                /\ Running(p)
    <2>1. PICK late \in SUBSET Stages, missed \in SUBSET Stages :
            proc' = [proc EXCEPT ![p].late = late, ![p].missed = missed]
      <3>1. /\ proc[p].late \cup {i} \in SUBSET Stages
            /\ proc[p].missed \in SUBSET Stages /\ proc[p].missed \cup {i} \in SUBSET Stages
        BY <1>1 DEF ProcRow
      <3> QED
        BY <1>11, <3>1 DEF Accept
    <2> DEFINE row == [proc[p] EXCEPT !.late = late, !.missed = missed]
    <2>2. proc' = [proc EXCEPT ![p] = row]
      BY <2>1
    <2>3. row \in ProcRow
      BY <1>1 DEF ProcRow
    <2>4. /\ row.seen = proc[p].seen /\ row.pc = proc[p].pc
          /\ row.row = proc[p].row /\ row.found = proc[p].found
      BY <1>1 DEF ProcRow
    <2>5. UNCHANGED <<log, cut, tables, req>> /\ Edit /\ Running(p)
      BY <1>11 DEF Accept
    <2> HIDE DEF row
    <2> QED
      BY <1>3, <2>2, <2>3, <2>4, <2>5
  <1>12. ASSUME NEW i \in Stages, TrackConn(p, i)
         PROVE  /\ \E r \in ProcRow :
                     /\ proc' = [proc EXCEPT ![p] = r]
                     /\ r.seen = proc[p].seen /\ r.pc = proc[p].pc
                     /\ r.row = proc[p].row /\ r.found = proc[p].found
                /\ UNCHANGED <<log, cut, tables, req>> /\ edits' \in 0 .. MaxEdits
                /\ Running(p)
    <2>1. PICK late \in SUBSET Stages, open \in SUBSET Stages, straggling \in SUBSET Stages :
            proc' = [proc EXCEPT ![p].late = late, ![p].open = open, ![p].straggling = straggling]
      <3>1. /\ proc[p].late \ {i} \in SUBSET Stages /\ proc[p].open \cup {i} \in SUBSET Stages
            /\ proc[p].straggling \in SUBSET Stages /\ proc[p].straggling \cup {i} \in SUBSET Stages
        BY <1>1 DEF ProcRow
      <3> QED
        BY <1>12, <3>1 DEF TrackConn
    <2> DEFINE row == [proc[p] EXCEPT !.late = late, !.open = open, !.straggling = straggling]
    <2>2. proc' = [proc EXCEPT ![p] = row]
      BY <2>1
    <2>3. row \in ProcRow
      BY <1>1 DEF ProcRow
    <2>4. /\ row.seen = proc[p].seen /\ row.pc = proc[p].pc
          /\ row.row = proc[p].row /\ row.found = proc[p].found
      BY <1>1 DEF ProcRow
    <2>5. UNCHANGED <<log, cut, tables, req>> /\ UNCHANGED edits /\ Running(p)
      BY <1>12 DEF TrackConn, inventory
    <2> HIDE DEF row
    <2> QED
      BY <1>3, <2>2, <2>3, <2>4, <2>5
  <1>13. ASSUME NEW i \in Stages, Disconnect(p, i) \/ Hang(p, i)
         PROVE  /\ \E r \in ProcRow :
                     /\ proc' = [proc EXCEPT ![p] = r]
                     /\ r.seen = proc[p].seen /\ r.pc = proc[p].pc
                     /\ r.row = proc[p].row /\ r.found = proc[p].found
                /\ UNCHANGED <<log, cut, tables, req>> /\ edits' \in 0 .. MaxEdits
                /\ Running(p)
    <2>1. CASE Disconnect(p, i)
      BY <1>1, <1>3, <2>1 DEF Disconnect, ProcRow
    <2>2. CASE Hang(p, i)
      BY <1>1, <1>3, <2>2 DEF Hang, ProcRow
    <2> QED
      BY <1>13, <2>1, <2>2
  <1> QED
    BY <1>4, <1>5, <1>6, <1>7, <1>10, <1>11, <1>12, <1>13 DEF Tends, Client

\* A process ends as Exit says.
LEMMA Ending ==
  ASSUME Typed, NEW p \in Requests, Ends(p)
  PROVE  /\ \E how \in {"clean", "error", "killed"} : Exit(p, how)
         /\ UNCHANGED <<log, tables>> /\ edits' \in 0 .. MaxEdits
  <1>1. Edit \/ UNCHANGED edits => edits' \in 0 .. MaxEdits
    BY InventoryAssumption DEF Edit, Typed, TypeOK, InventoryTypeOK
  <1> QED
    BY <1>1 DEF Ends, StopService, FailStop, Crash

\* Serving and stopping.
LEMMA ServeTyped ==
  ASSUME Typed, NEW p \in Requests,
         Request(p) \/ FinishRequest(p) \/ Signal(p) \/ Tends(p) \/ Ends(p)
  PROVE  Typed'
  <1>1. CASE Request(p) \/ FinishRequest(p)
    BY <1>1, HandleTyped
       DEF Request, FinishRequest, Typed, TypeOK, Applied, MigrationsInOrder
  <1>2. CASE Signal(p)
    BY <1>2, GotoTyped DEF Signal, Goto, Typed, TypeOK, InventoryTypeOK
  <1>3. CASE Tends(p)
    <2>1. PICK row \in ProcRow : proc' = [proc EXCEPT ![p] = row] /\ row.seen = proc[p].seen
      BY <1>3, Tending
    <2>2. UNCHANGED <<log, cut, tables, req>> /\ edits' \in 0 .. MaxEdits
      BY <1>3, Tending
    <2>3. proc' \in [Requests -> ProcRow] /\ log' \in Seq(1 .. Migrations) /\ Applied'
      BY <2>1, <2>2, ProcessTyped DEF Typed, Applied
    <2> QED
      BY <2>2, <2>3 DEF Typed, TypeOK, InventoryTypeOK
  <1>4. CASE Ends(p)
    BY <1>4, Ending, ExitTyped DEF Typed, TypeOK, InventoryTypeOK
  <1> QED
    BY <1>1, <1>2, <1>3, <1>4

\* Every step keeps the types and the order of the log.
LEMMA StepTyped == Typed /\ [Next]_vars => Typed'
  <1> SUFFICES ASSUME Typed, [Next]_vars PROVE Typed'
    OBVIOUS
  <1>1. CASE UNCHANGED vars
    BY <1>1 DEF Typed, TypeOK, InventoryTypeOK, Applied, MigrationsInOrder
  <1>2. CASE Next
    BY <1>2, NextCases, UpTyped, SeedTyped, ServeTyped
  <1> QED
    BY <1>1, <1>2

\* The tables, the log of migrations and the processes keep their types.
THEOREM Typing == Spec => []TypeOK
  <1>1. Typed => TypeOK
    BY DEF Typed
  <1> QED
    BY <1>1, InitTyped, StepTyped, PTL DEF Spec

\* However many processes run the migrations at once, every version is applied
\* once, and after the ones before it.
THEOREM InOrder == Spec => []MigrationsInOrder
  <1>1. Typed => MigrationsInOrder
    BY DEF Typed, Applied
  <1> QED
    BY <1>1, InitTyped, StepTyped, PTL DEF Spec

-------------------------------------------------------------------------------
(* Serving on a migrated database: a process leaves the migrations when it *)
(* has seen them all, and what it has seen is in the log, which only grows.*)

\* Every step keeps a process that has left the migrations on a database that
\* has them all.
LEMMA StepMigrated ==
  ASSUME Typed, Typed', ServingMigrated, [Next]_vars
  PROVE  ServingMigrated'
  <1> SUFFICES ASSUME NEW q \in Requests, proc'[q].pc \notin {"off", "up"}
               PROVE  Len(log') = Migrations
    BY DEF ServingMigrated
  <1>1. Len(log) \in 0 .. Migrations /\ Len(log') \in 0 .. Migrations
    <2>1. Len(log) \in 0 .. Migrations
      BY VersionsInOrder
    <2>2. /\ Len(log') \in Nat /\ DOMAIN log' = 1 .. Len(log')
          /\ \A i \in 1 .. Len(log') : log'[i] \in 1 .. Migrations /\ log'[i] = i
      BY LenProperties, ElementOfSeq DEF Typed, TypeOK, Applied, MigrationsInOrder
    <2>3. Len(log') # 0 => Len(log') \in 1 .. Len(log')
      BY <2>2
    <2> QED
      BY <2>1, <2>2, <2>3, ServerAssumption
  <1>2. Len(log) <= Len(log')
    <2>1. CASE UNCHANGED log
      BY <1>1, <2>1
    <2>2. ASSUME NEW p \in Requests, ApplyMigration(p) PROVE Len(log) <= Len(log')
      <3>1. /\ log' = Append(log, proc[p].seen + 1) /\ log \in Seq(1 .. Migrations)
            /\ proc[p].seen + 1 \in 1 .. Migrations
        BY <2>2, ServerAssumption DEF ApplyMigration, Typed, TypeOK, ProcRow
      <3> QED
        BY <1>1, <3>1, AppendProperties
    <2>3. ASSUME NEW p \in Requests, Tends(p) \/ Ends(p) PROVE UNCHANGED log
      BY <2>3, Tending, Ending
    <2> QED
      BY <2>1, <2>2, <2>3, NextCases
         DEF Start, Up, Migrated, FailUp, Bootstrap, BootstrapDevAccess, UpsertAsset,
             UpsertCredential, GrantUserAction, Request, Signal, FinishRequest
  <1>3. CASE proc[q].pc \notin {"off", "up"}
    BY <1>1, <1>2, <1>3, ServerAssumption DEF ServingMigrated
  <1>4. CASE proc[q].pc \in {"off", "up"}
    <2>1. ASSUME NEW p \in Requests, Up(p) PROVE proc[q].seen = Migrations
      <3>1. CASE FailUp(p)
        BY <1>4, <3>1 DEF FailUp, Exit, Off, Typed, TypeOK
      <3>2. CASE ApplyMigration(p)
        BY <1>4, <3>2 DEF ApplyMigration, Typed, TypeOK, ProcRow
      <3>3. CASE Migrated(p)
        <4>1. p = q
          BY <1>4, <3>3 DEF Migrated, Exit, Goto, Off, Typed, TypeOK
        <4> QED
          BY <3>3, <4>1 DEF Migrated
      <3> QED
        BY <2>1, <3>1, <3>2, <3>3 DEF Up
    <2>2. ASSUME NEW p \in Requests,
                 \/ Start(p) \/ Bootstrap(p) \/ BootstrapDevAccess(p)
                 \/ Request(p) \/ FinishRequest(p) \/ Signal(p) \/ Tends(p) \/ Ends(p)
          PROVE  proc'[q].pc \in {"off", "up"}
      <3> USE <1>4, <2>2 DEF Typed, TypeOK, At
      <3>1. CASE Start(p)
        BY <3>1 DEF Start, Off
      <3>2. CASE Bootstrap(p)
        BY <3>2 DEF Bootstrap, Bootstrapped, Goto, Exit, Off
      <3>3. CASE UpsertAsset(p) \/ UpsertCredential(p)
        BY <3>3 DEF UpsertAsset, UpsertCredential, Goto
      <3>4. CASE GrantUserAction(p)
        BY <3>4 DEF GrantUserAction, Bootstrapped, Goto, Exit, Off
      <3>5. CASE Request(p) \/ FinishRequest(p)
        BY <3>5 DEF Request, FinishRequest
      <3>6. CASE Signal(p)
        BY <3>6 DEF Signal
      <3>7. CASE Tends(p)
        BY <3>7, Tending
      <3>8. CASE Ends(p)
        BY <3>8, Ending DEF Exit, Off
      <3> QED
        BY <3>1, <3>2, <3>3, <3>4, <3>5, <3>6, <3>7, <3>8 DEF BootstrapDevAccess
    <2>3. proc[q].seen = Migrations
      BY <1>4, <2>1, <2>2, NextCases
    <2>4. Migrations <= Len(log)
      BY <2>3 DEF Typed, Applied
    <2> QED
      BY <1>1, <1>2, <2>4, ServerAssumption
  <1> QED
    BY <1>3, <1>4

\* A process that serves, or has begun to write, does so on a database with
\* every migration.
THEOREM ServesMigrated == Spec => []ServingMigrated
  <1>1. Init => ServingMigrated
    BY DEF Init, Off, ServingMigrated
  <1>2. Typed /\ Typed' /\ ServingMigrated /\ [Next]_vars => ServingMigrated'
    BY StepMigrated
  <1> QED
    BY <1>1, <1>2, InitTyped, StepTyped, PTL DEF Spec

-------------------------------------------------------------------------------
(* The stop sequence.  The stages before the one that is being stopped     *)
(* have no connection but the ones that were missed: a stage is left       *)
(* without any other, and only a stray listener takes one later.           *)

Stopping ==
  \A p \in Requests :
    /\ At(p, "stopping") =>
         \A i \in proc[p].open \cup proc[p].late : i >= proc[p].stage \/ i \in proc[p].missed
    /\ ~At(p, "stopping") => proc[p].stage = 1
    /\ \A i \in proc[p].late : Services[i] # "http"

\* The part of it about one process, of a row.
RowStops(row) ==
  /\ row.pc = "stopping" => \A i \in row.open \cup row.late : i >= row.stage \/ i \in row.missed
  /\ row.pc # "stopping" => row.stage = 1
  /\ \A i \in row.late : Services[i] # "http"

\* A step that changes one row to one that is all right.
LEMMA RowStopping ==
  ASSUME Typed, Stopping, NEW p \in Requests, NEW row, RowStops(row),
         proc' = [proc EXCEPT ![p] = row]
  PROVE  Stopping'
  <1>1. \A q \in Requests : RowStops(proc[q])
    BY DEF Stopping, RowStops, At
  <1>2. \A q \in Requests : proc'[q] = row \/ proc'[q] = proc[q]
    BY DEF Typed, TypeOK
  <1>3. \A q \in Requests : RowStops(proc'[q])
    BY <1>1, <1>2
  <1> QED
    BY <1>3 DEF Stopping, RowStops, At

\* A process that goes on keeps it.
LEMMA TendStopping ==
  ASSUME Typed, Stopping, NEW p \in Requests, Tends(p)
  PROVE  Stopping'
  <1>1. proc[p] \in ProcRow /\ RowStops(proc[p])
    BY DEF Typed, TypeOK, Stopping, RowStops, At
  <1>2. proc[p].stage \in 1 .. Len(Services) /\ Len(Services) \in Nat
    BY <1>1, StagesTyped DEF ProcRow, Stages
  <1>3. CASE Listen(p)
    <2>1. PICK v : proc' = [proc EXCEPT ![p].ssh = v]
      BY <1>3 DEF Listen
    <2>2. RowStops([proc[p] EXCEPT !.ssh = v])
      BY <1>1 DEF RowStops, ProcRow
    <2> QED
      BY <2>1, <2>2, RowStopping
  <1>4. CASE Expire(p)
    <2>1. RowStops([proc[p] EXCEPT !.expired = TRUE])
      BY <1>1 DEF RowStops, ProcRow
    <2> QED
      BY <1>4, <2>1, RowStopping DEF Expire
  <1>5. CASE CloseActiveConns(p)
    <2>1. PICK open \in SUBSET proc[p].open :
            proc' = [proc EXCEPT ![p].forced = TRUE, ![p].open = open]
      BY <1>5 DEF CloseActiveConns
    <2>2. RowStops([proc[p] EXCEPT !.forced = TRUE, !.open = open])
      BY <1>1 DEF RowStops, ProcRow
    <2> QED
      BY <2>1, <2>2, RowStopping
  <1>6. CASE StopService(p) /\ NextStage(p, proc[p].stage) /\ proc[p].stage # Len(Services)
    <2> DEFINE k == proc[p].stage
               row == [proc[p] EXCEPT !.stage = k + 1, !.missed = @ \cup (proc[p].late \cap {k})]
    <2>1. proc' = [proc EXCEPT ![p] = row]
      BY <1>6 DEF NextStage
    <2>2. proc[p].pc = "stopping" /\ k \notin proc[p].open
      BY <1>6 DEF StopService, Drained, At
    <2>3. ASSUME NEW i \in proc[p].open \cup proc[p].late
          PROVE  i >= k + 1 \/ i \in proc[p].missed \cup (proc[p].late \cap {k})
      <3>1. i \in 1 .. Len(Services)
        BY <1>1 DEF ProcRow, Stages
      <3>2. i >= k \/ i \in proc[p].missed
        BY <1>1, <2>2 DEF RowStops
      <3> QED
        BY <1>2, <2>2, <3>1, <3>2
    <2>4. RowStops(row)
      BY <1>1, <2>2, <2>3 DEF RowStops, ProcRow
    <2> HIDE DEF row
    <2> QED
      BY <2>1, <2>4, RowStopping
  <1>7. ASSUME NEW i \in Stages, Connect(p, i) PROVE Stopping'
    <2> DEFINE row == [proc[p] EXCEPT !.open = @ \cup {i}]
    <2>1. proc' = [proc EXCEPT ![p] = row]
      BY <1>7 DEF Connect
    <2>2. proc[p].pc = "stopping" => i >= proc[p].stage
      BY <1>2, <1>7 DEF Connect, Listening, At, Stages
    <2>3. RowStops(row)
      BY <1>1, <2>2 DEF RowStops, ProcRow
    <2> HIDE DEF row
    <2> QED
      BY <2>1, <2>3, RowStopping
  <1>8. ASSUME NEW i \in Stages, Accept(p, i) PROVE Stopping'
    <2>1. PICK missed : /\ proc' = [proc EXCEPT ![p].late = @ \cup {i}, ![p].missed = missed]
                        /\ missed = IF proc[p].ssh = "stray" THEN proc[p].missed \cup {i}
                                                             ELSE proc[p].missed
      BY <1>8 DEF Accept
    <2> DEFINE row == [proc[p] EXCEPT !.late = @ \cup {i}, !.missed = missed]
    <2>2. proc[p].pc = "stopping" => i >= proc[p].stage \/ i \in missed
      BY <1>2, <1>8, <2>1 DEF Accept, Listening, At, Stages
    <2>3. Services[i] # "http" /\ proc[p].missed \subseteq missed
      BY <1>8, <2>1 DEF Accept
    <2>4. RowStops(row)
      BY <1>1, <2>2, <2>3 DEF RowStops, ProcRow
    <2> HIDE DEF row
    <2>5. proc' = [proc EXCEPT ![p] = row]
      BY <2>1 DEF row
    <2> QED
      BY <2>4, <2>5, RowStopping
  <1>9. ASSUME NEW i \in Stages, TrackConn(p, i) PROVE Stopping'
    <2>1. PICK s : proc' = [proc EXCEPT ![p].late = @ \ {i}, ![p].open = @ \cup {i},
                                        ![p].straggling = s]
      BY <1>9 DEF TrackConn
    <2> DEFINE row == [proc[p] EXCEPT !.late = @ \ {i}, !.open = @ \cup {i}, !.straggling = s]
    <2>2. i \in proc[p].late
      BY <1>9 DEF TrackConn
    <2>3. RowStops(row)
      BY <1>1, <2>2 DEF RowStops, ProcRow
    <2> HIDE DEF row
    <2>4. proc' = [proc EXCEPT ![p] = row]
      BY <2>1 DEF row
    <2> QED
      BY <2>3, <2>4, RowStopping
  <1>10. ASSUME NEW i \in Stages, Disconnect(p, i) PROVE Stopping'
    <2> DEFINE row == [proc[p] EXCEPT !.open = @ \ {i}, !.hung = @ \ {i}, !.straggling = @ \ {i}]
    <2>1. proc' = [proc EXCEPT ![p] = row]
      BY <1>10 DEF Disconnect
    <2>2. RowStops(row)
      BY <1>1 DEF RowStops, ProcRow
    <2> HIDE DEF row
    <2> QED
      BY <2>1, <2>2, RowStopping
  <1>11. ASSUME NEW i \in Stages, Hang(p, i) PROVE Stopping'
    <2> DEFINE row == [proc[p] EXCEPT !.hung = @ \cup {i}]
    <2>1. proc' = [proc EXCEPT ![p] = row]
      BY <1>11 DEF Hang
    <2>2. RowStops(row)
      BY <1>1 DEF RowStops, ProcRow
    <2> HIDE DEF row
    <2> QED
      BY <2>1, <2>2, RowStopping
  <1> QED
    BY <1>3, <1>4, <1>5, <1>6, <1>7, <1>8, <1>9, <1>10, <1>11 DEF Tends, Client

\* Every step keeps the stages that are over without a connection.
LEMMA StepStopping ==
  ASSUME Typed, Stopping, [Next]_vars
  PROVE  Stopping'
  <1> USE DEF At
  <1>1. CASE UNCHANGED proc
    BY <1>1 DEF Stopping
  <1>2. ASSUME NEW p \in Requests, NEW how, Exit(p, how)
        PROVE  Stopping'
    <2>1. RowStops(Off(how))
      BY DEF RowStops, Off
    <2> QED
      BY <1>2, <2>1, RowStopping DEF Exit
  <1>3. ASSUME NEW p \in Requests, NEW step \in {"auth", "asset", "credential", "grant", "serving"},
               ~At(p, "stopping"), Goto(p, step)
        PROVE  Stopping'
    BY <1>3 DEF Stopping, Goto, Typed, TypeOK, ProcRow
  <1> SUFFICES ASSUME NEW p \in Requests,
                      \/ Start(p) \/ Up(p) \/ Bootstrap(p) \/ BootstrapDevAccess(p)
                      \/ Request(p) \/ FinishRequest(p) \/ Signal(p) \/ Tends(p) \/ Ends(p)
               PROVE  Stopping'
    BY <1>1, NextCases
  <1>4. CASE Start(p)
    <2>1. PICK c \in Commands :
            proc' = [proc EXCEPT ![p] = [Off("none") EXCEPT !.cmd = c, !.pc = "up",
                                                            !.seen = Len(log)]]
      BY <1>4 DEF Start
    <2>2. RowStops([Off("none") EXCEPT !.cmd = c, !.pc = "up", !.seen = Len(log)])
      BY DEF RowStops, Off
    <2> QED
      BY <2>1, <2>2, RowStopping
  <1>5. CASE ApplyMigration(p)
    BY <1>5 DEF ApplyMigration, Stopping, Typed, TypeOK, ProcRow
  <1>6. CASE Migrated(p) \/ FailUp(p)
    BY <1>2, <1>3, <1>6 DEF Migrated, FailUp
  <1>7. CASE Bootstrap(p) \/ UpsertCredential(p) \/ GrantUserAction(p)
    BY <1>2, <1>3, <1>7 DEF Bootstrap, Bootstrapped, UpsertCredential, GrantUserAction
  <1>8. CASE UpsertAsset(p)
    BY <1>8 DEF UpsertAsset, Stopping, Typed, TypeOK, ProcRow
  <1>9. CASE Request(p) \/ FinishRequest(p)
    BY <1>1, <1>9 DEF Request, FinishRequest
  <1>10. CASE Signal(p)
    <2> DEFINE row == [proc[p] EXCEPT !.pc = "stopping"]
    <2>1. proc' = [proc EXCEPT ![p] = row] /\ proc[p] \in ProcRow
      BY <1>10 DEF Signal, Typed, TypeOK
    <2>2. /\ \A i \in proc[p].open \cup proc[p].late : i >= proc[p].stage
          /\ \A i \in proc[p].late : Services[i] # "http"
      BY <1>10, <2>1 DEF Signal, Stopping, ProcRow, Stages
    <2>3. RowStops(row)
      BY <2>1, <2>2 DEF RowStops, ProcRow
    <2> HIDE DEF row
    <2> QED
      BY <2>1, <2>3, RowStopping
  <1>11. CASE Tends(p)
    BY <1>11, TendStopping
  <1>12. CASE Ends(p)
    BY <1>2, <1>12, Ending
  <1> QED
    BY <1>4, <1>5, <1>6, <1>7, <1>8, <1>9, <1>10, <1>11, <1>12 DEF Up, BootstrapDevAccess

\* What is cut off when a process ends while it is stopping: connections of
\* services to come, of the one whose turn it is, and missed ones.
LEMMA CutOff ==
  ASSUME Typed, Stopping, NEW q \in Requests, At(q, "stopping"), NEW how, Exit(q, how)
  PROVE  /\ proc'[q].exit = how
         /\ \A i \in cut'[q] : /\ i \in Stages /\ i \in proc[q].open \cup proc[q].late
                               /\ i >= proc[q].stage \/ i \in Unawaited(q)
                               /\ i \in proc[q].late => Services[i] # "http"
  <1>1. cut'[q] = proc[q].open \cup proc[q].late /\ proc'[q].exit = how
    BY DEF Exit, Off, Typed, TypeOK
  <1>2. proc[q].open \cup proc[q].late \subseteq Stages
    BY DEF Typed, TypeOK, ProcRow
  <1> QED
    BY <1>1, <1>2 DEF Stopping, Unawaited

\* Every step that ends a process which is stopping ends it in order.
LEMMA StepEnds ==
  ASSUME Typed, Stopping, [Next]_vars, NEW q \in Requests
  PROVE  EndsInOrder(q)
  <1> USE DEF At
  <1> SUFFICES ASSUME At(q, "stopping"), proc'[q].pc = "off"
               PROVE  EndsInOrder(q)
    BY DEF EndsInOrder
  <1>1. PICK p \in Requests :
          \/ Start(p) \/ Up(p) \/ Bootstrap(p) \/ BootstrapDevAccess(p)
          \/ Request(p) \/ FinishRequest(p) \/ Signal(p) \/ Tends(p) \/ Ends(p)
    BY NextCases
  <1>2. p = q
    <2> SUFFICES ASSUME p # q PROVE proc'[q] = proc[q]
      OBVIOUS
    <2> USE DEF Typed, TypeOK
    <2>1. CASE Start(p) \/ Up(p)
      BY <2>1 DEF Start, Up, ApplyMigration, Migrated, FailUp, Goto, Exit
    <2>2. CASE Bootstrap(p) \/ BootstrapDevAccess(p)
      BY <2>2 DEF Bootstrap, Bootstrapped, BootstrapDevAccess, UpsertAsset, UpsertCredential,
                  GrantUserAction, Goto, Exit
    <2>3. CASE Request(p) \/ Signal(p) \/ FinishRequest(p)
      BY <2>3 DEF Request, Signal, FinishRequest
    <2>4. CASE Tends(p)
      BY <2>4, Tending
    <2>5. CASE Ends(p)
      BY <2>5, Ending DEF Exit
    <2> QED
      BY <1>1, <2>1, <2>2, <2>3, <2>4, <2>5
  <1>3. proc[q].stage \in Stages /\ Len(Services) \in Nat
    BY StagesTyped DEF Typed, TypeOK, ProcRow
  <1>4. ASSUME NEW i \in proc[q].late, Services[i] # "http", Services[i] # "proxy", i \in Stages
        PROVE  i \in Unawaited(q)
    BY <1>4, StagesTyped DEF Unawaited
  <1>5. CASE StopService(q) /\ Exit(q, "clean")
    <2>1. /\ \A i \in cut'[q] : i \in proc[q].open \cup proc[q].late
                                /\ (i >= proc[q].stage \/ i \in Unawaited(q))
                                /\ i \in Stages /\ (i \in proc[q].late => Services[i] # "http")
          /\ proc'[q].exit = "clean"
      BY <1>5, CutOff
    <2>2. Drained(q, proc[q].stage)
      BY <1>5 DEF StopService
    <2>3. proc[q].stage = Len(Services)
      <3>1. CASE NextStage(q, proc[q].stage)
        BY <3>1 DEF NextStage, Typed, TypeOK, ProcRow
      <3> QED
        BY <1>5, <3>1 DEF StopService
    <2>4. ASSUME NEW i \in cut'[q], i >= proc[q].stage PROVE i \in Unawaited(q)
      <3>1. i = proc[q].stage
        BY <1>3, <2>1, <2>3, <2>4 DEF Stages
      <3>2. i \in proc[q].late /\ Services[i] # "proxy"
        BY <2>1, <2>2, <3>1 DEF Drained
      <3> QED
        BY <1>4, <2>1, <3>2
    <2> QED
      BY <2>1, <2>4 DEF EndsInOrder
  <1>6. CASE FailStop(q)
    <2>1. /\ \A i \in cut'[q] : i \in proc[q].open \cup proc[q].late
                                /\ (i >= proc[q].stage \/ i \in Unawaited(q))
                                /\ i \in Stages /\ (i \in proc[q].late => Services[i] # "http")
          /\ proc'[q].exit = "error"
      BY <1>6, CutOff DEF FailStop
    <2>2. Services[proc[q].stage] # "http" => Drained(q, proc[q].stage)
      BY <1>6 DEF FailStop
    <2>3. ASSUME NEW i \in cut'[q], ~(i > proc[q].stage), Services[i] # "http"
          PROVE  i \in Unawaited(q)
      <3>1. CASE i = proc[q].stage
        <4>1. i \in proc[q].late /\ Services[i] # "proxy"
          BY <2>1, <2>2, <2>3, <3>1 DEF Drained
        <4> QED
          BY <1>4, <2>1, <4>1
      <3>2. CASE i # proc[q].stage
        BY <1>3, <2>1, <2>3, <3>2 DEF Stages
      <3> QED
        BY <3>1, <3>2
    <2> QED
      BY <2>1, <2>3 DEF EndsInOrder
  <1>7. CASE Crash(q)
    <2>1. PICK how \in {"killed", "error"} : Exit(q, how)
      BY <1>7 DEF Crash
    <2>2. proc'[q].exit # "clean" /\ edits' # edits
      BY <1>7, <2>1 DEF Crash, Edit, Exit, Off, Typed, TypeOK, InventoryTypeOK
    <2> QED
      BY <2>2 DEF EndsInOrder
  <1>8. ASSUME \/ Start(q) \/ Up(q) \/ Bootstrap(q) \/ BootstrapDevAccess(q) \/ Request(q)
               \/ Signal(q)
        PROVE  FALSE
    BY <1>8 DEF Start, Up, ApplyMigration, Migrated, FailUp, Bootstrap, BootstrapDevAccess,
                UpsertAsset, UpsertCredential, GrantUserAction, Request, Signal
  <1>9. ASSUME FinishRequest(q) PROVE FALSE
    BY <1>9 DEF FinishRequest
  <1>10. ASSUME Tends(q) PROVE FALSE
    BY <1>10, Tending DEF Typed, TypeOK
  <1> QED
    BY <1>1, <1>2, <1>5, <1>6, <1>7, <1>8, <1>9, <1>10 DEF Ends

\* The empty database has no process that stops.
LEMMA InitStopping == Init => Stopping
  BY DEF Init, Stopping, At, Off

\* A clean stop has cut off nobody but what the SSH proxy had accepted and not
\* yet counted; a stop out of time, besides, nobody of a proxy whose turn was
\* over or had come.
THEOREM StopsInOrder == Spec => StopInOrder
  <1>1. Typed /\ Stopping /\ [Next]_vars => Stopping'
    BY StepStopping
  <1>2. Typed /\ Stopping /\ [Next]_vars => [\A p \in Requests : EndsInOrder(p)]_vars
    BY StepEnds
  <1> QED
    BY <1>1, <1>2, InitStopping, InitTyped, StepTyped, PTL DEF Spec, StopInOrder

-------------------------------------------------------------------------------
(* Deleted assets.  An archived row has given up its name, unless it bore  *)
(* the mark already, so a seed never comes upon it; and a request or a     *)
(* seed that is about to write has found its asset alive.                  *)

Archiving ==
  \A a \in Ids : assets[a].state = "deleted" => assets[a].renamed \/ assets[a].name \in Marked

Finding ==
  \A p \in Requests : /\ req[p].pc # "idle" => req[p].found
                      /\ proc[p].pc \in {"credential", "grant"} => proc[p].found

\* What a step does to assets that are deleted, or that it deletes.
KeepsBare == \A a \in Ids : Bared(a) /\ (GainsOn(a) => WriterFound(a))

\* A step that writes nothing.
LEMMA WritesNothing ==
  ASSUME Typed, UNCHANGED <<assets, creds, grants, launches>>
  PROVE  KeepsBare
  BY DEF KeepsBare, Bared, Live, GainsOn

\* A step that leaves no asset deleted that was alive.
LEMMA WritesAssets ==
  ASSUME Typed, UNCHANGED <<creds, grants, launches>>,
         \A a \in Ids : Live(a) => assets'[a].state # "deleted"
  PROVE  KeepsBare
  BY DEF KeepsBare, Bared, GainsOn

\* A request writes to an asset only once it has found it.
LEMMA HandleFinding ==
  ASSUME Typed, Archiving, Finding, NEW p \in Requests, Handle(p), UNCHANGED server
  PROVE  Archiving' /\ Finding' /\ KeepsBare
  <1> USE DEF Typed, TypeOK, InventoryTypeOK
  <1>1. ASSUME NEW a \in Ids, NEW b \in Ids, req[p].asset = b, req[p].found, req[p].pc # "idle",
               req'[p] # req[p], GainsOn(a) => a = b
        PROVE  GainsOn(a) => WriterFound(a)
    BY <1>1 DEF WriterFound
  <1>2. Answer(p) => Finding'
    BY DEF Answer, Idle, Finding
  <1>3. ASSUME NEW a \in Ids, NEW action \in Actions,
               NEW step \in {"grant", "credential", "delete", "check"},
               Found(p, step, a, action), Live(a), UNCHANGED tables
        PROVE  Archiving' /\ Finding'
    BY <1>3 DEF Found, Archiving, Finding
  <1>4. ASSUME NEW n \in Names, CreateAsset(p, n)
        PROVE  Archiving' /\ Finding' /\ KeepsBare
    <2>1. \A a \in Ids : assets'[a] = assets[a] \/ assets'[a].state = "active"
      BY <1>4 DEF CreateAsset, NewAsset
    <2> QED
      BY <1>4, <2>1, WritesAssets DEF CreateAsset, Archiving, Finding, Live
  <1>5. ASSUME NEW a \in Ids, UpdateAsset(p, a)
        PROVE  Archiving' /\ Finding' /\ KeepsBare
    <2>1. \A b \in Ids : assets'[b] = assets[b] \/ assets'[b].state = "active"
      BY <1>5 DEF UpdateAsset, NewAsset
    <2> QED
      BY <1>5, <2>1, WritesAssets DEF UpdateAsset, Archiving, Finding, Live
  <1>6. ASSUME NEW a \in Ids, DeleteBegins(p, a) \/ CredentialBegins(p, a)
        PROVE  Archiving' /\ Finding' /\ KeepsBare
    BY <1>3, <1>6, WritesNothing DEF DeleteBegins, CredentialBegins, AssetExists, GetByID, Actions
  <1>7. ASSUME NEW a \in Ids, NEW action \in Actions,
               GrantBegins(p, a, action) \/ LaunchBegins(p, a, action)
        PROVE  Archiving' /\ Finding' /\ KeepsBare
    BY <1>3, <1>7, WritesNothing DEF GrantBegins, LaunchBegins, AssetExists, GetByID
  <1>8. ASSUME NEW a \in Ids, NEW action \in Actions, RemoveUserGrant(p, a, action)
        PROVE  Archiving' /\ Finding' /\ KeepsBare
    BY <1>8 DEF RemoveUserGrant, Archiving, Finding, KeepsBare, Bared, Live, GainsOn
  <1>9. CASE DeleteAsset(p)
    <2>1. Archiving'
      <3>1. \A row \in AssetRow :
              Archived(row).name = row.name /\ (Archived(row).renamed \/ row.name \in Marked)
        BY DEF Archived, AssetRow
      <3>2. \A a \in Ids : assets'[a] = assets[a] \/ assets'[a] = Archived(assets[a])
        BY <1>9 DEF DeleteAsset
      <3> QED
        BY <3>1, <3>2 DEF Archiving
    <2>2. \A a \in Ids : ~GainsOn(a)
      BY <1>9 DEF DeleteAsset, GainsOn
    <2>3. ASSUME NEW a \in Ids, Live(a), assets'[a].state = "deleted",
                 NEW x \in grants' \cup creds'
          PROVE  x[1] # a
      <3>1. a = req[p].asset
        BY <1>9, <2>3 DEF DeleteAsset, Live
      <3>2. /\ grants' = {g \in grants : g[1] # a}
            /\ creds' = {c \in creds : c[1] # a}
        <4>1. CASE UNCHANGED <<grants, creds, assets>>
          BY <2>3, <4>1 DEF Live
        <4> QED
          BY <1>9, <3>1, <4>1 DEF DeleteAsset
      <3> QED
        BY <2>3, <3>2
    <2> QED
      BY <1>2, <1>9, <2>1, <2>2, <2>3 DEF DeleteAsset, KeepsBare, Bared
  <1>10. CASE AddUserGrant(p)
    <2>1. \A a \in Ids : GainsOn(a) => a = req[p].asset
      BY <1>10 DEF AddUserGrant, GainsOn
    <2>2. req[p].found /\ req[p].pc = "grant" /\ req'[p].pc = "idle" /\ req[p].asset \in Ids
      BY <1>10 DEF AddUserGrant, Finding, Answer, Idle, RequestRow
    <2>3. \A a \in Ids : GainsOn(a) => WriterFound(a)
      BY <1>1, <2>1, <2>2
    <2> QED
      BY <1>2, <1>10, <2>3 DEF AddUserGrant, Archiving, KeepsBare, Bared, Live
  <1>11. CASE UpsertAssetCredential(p)
    <2>1. \A a \in Ids : GainsOn(a) => a = req[p].asset
      BY <1>11 DEF UpsertAssetCredential, GainsOn
    <2>2. req[p].found /\ req[p].pc = "credential" /\ req'[p].pc = "idle" /\ req[p].asset \in Ids
      BY <1>11 DEF UpsertAssetCredential, Finding, Answer, Idle, RequestRow
    <2>3. \A a \in Ids : GainsOn(a) => WriterFound(a)
      BY <1>1, <2>1, <2>2
    <2> QED
      BY <1>2, <1>11, <2>3 DEF UpsertAssetCredential, Archiving, KeepsBare, Bared, Live
  <1>12. CASE CanUserPerform(p)
    <2>1. Finding'
      BY <1>12 DEF CanUserPerform, Idle, Finding, RequestRow
    <2> QED
      BY <1>12, <2>1, WritesNothing DEF CanUserPerform, Archiving
  <1>13. ASSUME NEW l \in Ids \X Actions \X BOOLEAN, l[1] = req[p].asset,
                launches' \ launches \subseteq {l}, UNCHANGED <<assets, creds, grants>>,
                req[p].pc # "idle", req'[p] # req[p]
         PROVE  KeepsBare
    <2>1. \A a \in Ids : GainsOn(a) => a = req[p].asset
      <3>1. \A a \in Ids : GainsOn(a) => \E x \in launches' \ launches : x[1] = a
        BY <1>13 DEF GainsOn
      <3> QED
        BY <1>13, <3>1
    <2>2. req[p].found /\ req[p].asset \in Ids
      BY <1>13 DEF Finding, RequestRow
    <2>3. \A a \in Ids : GainsOn(a) => WriterFound(a)
      BY <1>1, <1>13, <2>1, <2>2
    <2> QED
      BY <1>13, <2>3 DEF KeepsBare, Bared, Live
  <1>14. CASE CreateLaunch(p)
    <2> DEFINE l == <<req[p].asset, req[p].action, FALSE>>
    <2>1. l \in Ids \X Actions \X BOOLEAN /\ l[1] = req[p].asset
      BY DEF RequestRow
    <2>2. launches' \ launches \subseteq {l} /\ UNCHANGED <<assets, creds, grants>>
      BY <1>14 DEF CreateLaunch
    <2>3. Finding' /\ req[p].pc = "create" /\ req'[p].pc = "resolve"
      BY <1>14 DEF CreateLaunch, Finding, RequestRow
    <2> HIDE DEF l
    <2>4. KeepsBare
      BY <1>13, <2>1, <2>2, <2>3
    <2> QED
      BY <2>2, <2>3, <2>4 DEF Archiving
  <1>15. CASE ResolveForAsset(p)
    <2> DEFINE l == <<req[p].asset, req[p].action, TRUE>>
    <2>1. l \in Ids \X Actions \X BOOLEAN /\ l[1] = req[p].asset
      BY DEF RequestRow
    <2>2. launches' \ launches \subseteq {l} /\ UNCHANGED <<assets, creds, grants>>
      BY <1>15 DEF ResolveForAsset
    <2>3. req[p].pc = "resolve" /\ req'[p].pc = "idle"
      BY <1>15 DEF ResolveForAsset, Answer, Idle
    <2> HIDE DEF l
    <2>4. KeepsBare
      BY <1>13, <2>1, <2>2, <2>3
    <2> QED
      BY <1>2, <1>15, <2>2, <2>4 DEF ResolveForAsset, Archiving
  <1> QED
    BY <1>4, <1>5, <1>6, <1>7, <1>8, <1>9, <1>10, <1>11, <1>12, <1>14, <1>15 DEF Handle

\* A process that goes on, or ends, and writes to no asset.
LEMMA ProcessFinding ==
  ASSUME Typed, Archiving, Finding, NEW p \in Requests, UNCHANGED assets,
         \/ \E how : Exit(p, how)
         \/ /\ UNCHANGED req
            /\ \E step \in {"auth", "asset", "serving", "stopping"} : Goto(p, step)
  PROVE  Archiving' /\ Finding'
  <1>1. Archiving'
    BY DEF Archiving
  <1>2. ASSUME NEW how, Exit(p, how) PROVE Finding'
    BY <1>2 DEF Exit, Off, Idle, Finding, Typed, TypeOK, InventoryTypeOK
  <1>3. ASSUME UNCHANGED req, NEW step \in {"auth", "asset", "serving", "stopping"}, Goto(p, step)
        PROVE  Finding'
    BY <1>3 DEF Goto, Finding, Typed, TypeOK, ProcRow
  <1> QED
    BY <1>1, <1>2, <1>3

\* Every step writes only to assets that were found alive.
LEMMA StepFinding ==
  ASSUME Typed, Archiving, Finding, [Next]_vars
  PROVE  Archiving' /\ Finding' /\ KeepsBare
  <1> USE DEF Typed, TypeOK, At
  <1>1. UNCHANGED tables => KeepsBare
    BY WritesNothing
  <1>2. CASE UNCHANGED vars
    BY <1>1, <1>2 DEF Archiving, Finding
  <1> SUFFICES ASSUME NEW p \in Requests,
                      \/ Start(p) \/ Up(p) \/ Bootstrap(p) \/ BootstrapDevAccess(p)
                      \/ Request(p) \/ FinishRequest(p) \/ Signal(p) \/ Tends(p) \/ Ends(p)
               PROVE  Archiving' /\ Finding' /\ KeepsBare
    BY <1>2, NextCases
  <1>3. CASE Start(p)
    <2>1. Archiving' /\ Finding'
      BY <1>3 DEF Start, Off, Archiving, Finding
    <2> QED
      BY <1>1, <1>3, <2>1 DEF Start
  <1>4. CASE ApplyMigration(p) /\ UNCHANGED <<tables, edits>>
    <2>1. Archiving' /\ Finding'
      BY <1>4 DEF ApplyMigration, Archiving, Finding, ProcRow
    <2> QED
      BY <1>1, <1>4, <2>1
  <1>5. CASE (Migrated(p) \/ FailUp(p)) /\ UNCHANGED <<tables, edits>>
    BY <1>1, <1>5, ProcessFinding DEF Migrated, FailUp
  <1>6. CASE Bootstrap(p)
    BY <1>1, <1>6, ProcessFinding DEF Bootstrap, Bootstrapped
  <1>7. CASE UpsertAsset(p)
    <2>1. PICK a \in Ids :
            /\ IF Holder(Seed.name) = {} THEN FreeRow(a) ELSE a \in Holder(Seed.name)
            /\ assets' = [assets EXCEPT ![a] = IF Holder(Seed.name) = {}
                                               THEN NewAsset(Seed.name, Seed.type)
                                               ELSE [@ EXCEPT !.type = Seed.type]]
            /\ proc' = [proc EXCEPT ![p].pc = "credential", ![p].row = a,
                                    ![p].found = assets'[a].state = "active"]
      BY <1>7 DEF UpsertAsset
    <2>2. assets[a] \in AssetRow
      BY DEF InventoryTypeOK
    <2>3. assets'[a].state = "active"
      <3>1. CASE Holder(Seed.name) = {}
        BY <2>1, <3>1 DEF InventoryTypeOK, NewAsset
      <3>2. CASE Holder(Seed.name) # {}
        <4>1. assets[a].state # "free" /\ ~assets[a].renamed
          BY <2>1, <3>2 DEF Holder
        <4>2. assets[a].state = "active"
          BY <2>1, <2>2, <3>2, <4>1, ServerAssumption DEF Archiving, AssetRow, Holder
        <4>3. assets'[a] = [assets[a] EXCEPT !.type = Seed.type]
          BY <2>1, <3>2 DEF InventoryTypeOK
        <4> QED
          BY <2>2, <4>2, <4>3 DEF AssetRow
      <3> QED
        BY <3>1, <3>2
    <2>4. Archiving'
      BY <2>1, <2>3 DEF Archiving, InventoryTypeOK
    <2>5. Finding'
      BY <1>7, <2>1, <2>3 DEF UpsertAsset, Finding, ProcRow
    <2>6. \A b \in Ids : assets'[b] = assets[b] \/ assets'[b].state = "active"
      BY <2>1, <2>3 DEF InventoryTypeOK
    <2>7. KeepsBare
      BY <1>7, <2>6, WritesAssets DEF UpsertAsset, Live
    <2> QED
      BY <2>4, <2>5, <2>7
  <1>8. ASSUME NEW b \in Ids, proc[p].row = b, proc[p].found, proc'[p] # proc[p],
               proc[p].pc \in {"credential", "grant"}, UNCHANGED assets,
               \A a \in Ids : GainsOn(a) => a = b
        PROVE  KeepsBare
    BY <1>8 DEF KeepsBare, Bared, Live, WriterFound
  <1>9. CASE UpsertCredential(p)
    <2>1. \A a \in Ids : GainsOn(a) => a = proc[p].row
      BY <1>9 DEF UpsertCredential, GainsOn
    <2>2. /\ proc[p].row \in Ids /\ proc[p].found /\ proc[p].pc = "credential"
          /\ proc'[p].pc = "grant"
      BY <1>9 DEF UpsertCredential, Goto, Finding, ProcRow
    <2>3. Archiving' /\ Finding'
      BY <1>9 DEF UpsertCredential, Goto, Archiving, Finding, ProcRow
    <2>4. KeepsBare
      BY <1>8, <1>9, <2>1, <2>2 DEF UpsertCredential
    <2> QED
      BY <2>3, <2>4
  <1>10. CASE GrantUserAction(p)
    <2>1. \A a \in Ids : GainsOn(a) => a = proc[p].row
      BY <1>10 DEF GrantUserAction, GainsOn
    <2>2. /\ proc[p].row \in Ids /\ proc[p].found /\ proc[p].pc = "grant"
          /\ proc'[p].pc # "grant"
      BY <1>10 DEF GrantUserAction, Bootstrapped, Exit, Off, Goto, Finding, ProcRow
    <2>3. Archiving' /\ Finding'
      BY <1>10, ProcessFinding DEF GrantUserAction, Bootstrapped
    <2>4. KeepsBare
      BY <1>8, <1>10, <2>1, <2>2 DEF GrantUserAction
    <2> QED
      BY <2>3, <2>4
  <1>11. CASE Request(p) \/ FinishRequest(p)
    BY <1>11, HandleFinding DEF Request, FinishRequest
  <1>12. CASE Signal(p)
    BY <1>1, <1>12, ProcessFinding DEF Signal, Goto
  <1>13. CASE Tends(p)
    <2>1. Archiving' /\ Finding'
      BY <1>13, Tending DEF Archiving, Finding
    <2> QED
      BY <1>1, <1>13, <2>1, Tending
  <1>14. CASE Ends(p)
    BY <1>1, <1>14, Ending, ProcessFinding
  <1> QED
    BY <1>3, <1>4, <1>5, <1>6, <1>7, <1>9, <1>10, <1>11, <1>12, <1>13, <1>14
       DEF Up, BootstrapDevAccess

\* The empty database has no archived asset and no request.
LEMMA InitFinding == Init => Archiving /\ Finding
  BY DEF Init, InventoryInit, Idle, Off, Archiving, Finding

\* An asset is deleted with its grants and credentials; what appears on it later
\* is written by a request, or a seed, that found it before and is not done.
THEOREM DeletedBare == Spec => DeletedStaysBare
  <1>1. Typed /\ (Archiving /\ Finding) /\ [Next]_vars => (Archiving /\ Finding)'
    BY StepFinding
  <1>2. Typed /\ (Archiving /\ Finding) /\ [Next]_vars
          => [\A a \in Ids : StaysBare(a)]_vars
    <2>1. ASSUME KeepsBare PROVE \A a \in Ids : StaysBare(a)
      BY <2>1 DEF KeepsBare, StaysBare
    <2> QED
      BY <2>1, StepFinding
  <1> QED
    BY <1>1, <1>2, InitFinding, InitTyped, StepTyped, PTL DEF Spec, DeletedStaysBare

===============================================================================
