------------------------------ MODULE MCConnector ------------------------------
(***************************************************************************)
(* A small instance of Connector.                                          *)
(***************************************************************************)
EXTENDS Connector

\* One client of each kind, and two SFTP sessions of assets with one name.
MCJobs == {<<"shell", "s1">>, <<"dbeaver", "s1">>, <<"mongo", "s2">>, <<"redis", "s1">>,
           <<"sftp", "s1">>, <<"sftp", "s2">>}

MCSiteOf == [s1 |-> "site", s2 |-> "site"]
===============================================================================
