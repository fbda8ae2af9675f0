-------------------------- MODULE MCSessionLifecycle --------------------------
(***************************************************************************)
(* Small instances of SessionLifecycle.                                    *)
(***************************************************************************)
EXTENDS SessionLifecycle, TLC

\* Connections are interchangeable; sound for the safety runs.
Symmetry == Permutations(Conns)

\* State constraint of the run without connections, where nothing asks whether a
\* launch token has expired.
TokensUnused == expired = {}
===============================================================================
