------------------------------ MODULE SessionRow ------------------------------
(***************************************************************************)
(* What a row of the sessions table promises to those who read it (the     *)
(* session list, the review page, an auditor), whatever the order in which *)
(* the API, the connector, the sweeper and the proxies write it:           *)
(*                                                                         *)
(*  - a row is created pending and never becomes pending again;            *)
(*  - started_at and ended_at are set once and never cleared;              *)
(*  - the sweeper and the connector's report act on pending rows only, any *)
(*    other writer must hold the session;                                  *)
(*  - a session can be taken hold of only while it is pending or active,   *)
(*    so a finished session that nobody holds is finished for good.        *)
(*                                                                         *)
(* A session is held while its launch request is being prepared, while a   *)
(* proxy listens for it, and while a proxy connection serves it.           *)
(***************************************************************************)
EXTENDS Naturals

CONSTANT Sessions

VARIABLES status,    \* the row's status column, "none" before the INSERT
          started,   \* started_at is set
          ended,     \* ended_at is set
          held       \* somebody holds the session

vars == <<status, started, ended, held>>

Statuses == {"none", "pending", "active", "completed", "failed"}
Live     == {"pending", "active"}
Terminal == {"completed", "failed"}

TypeOK ==
  /\ status \in [Sessions -> Statuses]
  /\ started \in [Sessions -> BOOLEAN]
  /\ ended \in [Sessions -> BOOLEAN]
  /\ held \in [Sessions -> BOOLEAN]

Init ==
  /\ status = [s \in Sessions |-> "none"]
  /\ started = [s \in Sessions |-> FALSE]
  /\ ended = [s \in Sessions |-> FALSE]
  /\ held = [s \in Sessions |-> FALSE]

\* The launch request inserts the row and holds the session.
Create(s) ==
  /\ status[s] = "none"
  /\ status' = [status EXCEPT ![s] = "pending"]
  /\ held' = [held EXCEPT ![s] = TRUE]
  /\ UNCHANGED <<started, ended>>

MayWrite(s) == status[s] = "pending" \/ (held[s] /\ status[s] # "none")

Start(s) ==
  /\ MayWrite(s)
  /\ status' = [status EXCEPT ![s] = "active"]
  /\ started' = [started EXCEPT ![s] = TRUE]
  /\ UNCHANGED <<ended, held>>

Fail(s) ==
  /\ MayWrite(s)
  /\ status' = [status EXCEPT ![s] = "failed"]
  /\ ended' = [ended EXCEPT ![s] = TRUE]
  /\ UNCHANGED <<started, held>>

\* Only a holder can declare a session completed.
Complete(s) ==
  /\ held[s]
  /\ status[s] # "none"
  /\ status' = [status EXCEPT ![s] = "completed"]
  /\ started' = [started EXCEPT ![s] = TRUE]
  /\ ended' = [ended EXCEPT ![s] = TRUE]
  /\ UNCHANGED held

\* A connection that presents the launch token takes hold of a live session.
Hold(s) ==
  /\ status[s] \in Live
  /\ held' = [held EXCEPT ![s] = TRUE]
  /\ UNCHANGED <<status, started, ended>>

\* Holders let go, all of them at once when the server stops.
Release ==
  /\ held' \in [Sessions -> BOOLEAN]
  /\ \A s \in Sessions : held'[s] => held[s]
  /\ UNCHANGED <<status, started, ended>>

Next ==
  \/ \E s \in Sessions : Create(s) \/ Start(s) \/ Fail(s) \/ Complete(s) \/ Hold(s)
  \/ Release

Spec == Init /\ [][Next]_vars
===============================================================================
