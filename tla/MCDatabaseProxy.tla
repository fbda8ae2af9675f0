--------------------------- MODULE MCDatabaseProxy ---------------------------
(***************************************************************************)
(* Small instances of DatabaseProxy.                                       *)
(***************************************************************************)
EXTENDS DatabaseProxy, TLC

\* Connections are interchangeable; sound for runs without liveness properties.
Symmetry == Permutations(Conns)
===============================================================================
