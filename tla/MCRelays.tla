------------------------------- MODULE MCRelays -------------------------------
(***************************************************************************)
(* A small instance of Relays.                                             *)
(***************************************************************************)
EXTENDS Relays

\* One file and one directory to open, and a request that the parser does not
\* know; "opendir" is recorded at once, as a "path" would be.
MCAsked == {<<"open", "a">>, <<"opendir", "b">>, <<"other", "b">>}

\* "q1" and "q2" are plain statements, "set" has no keyword of a statement, and
\* what the scan sees of "cache" reads like "q1".
MCRuns == [q1 |-> {"q1"}, q2 |-> {"q2"}, set |-> {}, cache |-> {"q1"}]

\* Their lengths.
MCLength == [q1 |-> 1, q2 |-> 2, set |-> 3, cache |-> 4]
===============================================================================
