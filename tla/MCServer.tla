------------------------------- MODULE MCServer -------------------------------
(* Two processes on one database, with one seeded asset.                     *)
EXTENDS Server

CONSTANTS vm

MCServices == <<"http", "ssh", "proxy">>

MCSeed == [name |-> vm, type |-> "linux_vm", cred |-> "password", action |-> "shell"]

===============================================================================
