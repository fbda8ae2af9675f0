------------------------------ MODULE MCAccounts ------------------------------
(* A server with an administrator, one more account and two requests.        *)
EXTENDS Accounts, TLC

CONSTANTS admin, user, p1, p2

MCLoginInputs ==
  {[name |-> admin, form |-> "exact", password |-> p1],
   [name |-> user, form |-> "qualified", password |-> p1]}

\* The other account's password changes, and the administrator gets an entry.
MCDirectory == admin :> NoPassword @@ user :> p1
MCDirectories == {MCDirectory, admin :> p1 @@ user :> p2}

MCSettings == [mode |-> "hybrid", enabled |-> TRUE, mapping |-> "valid", deactivate |-> TRUE]
MCSettingsTried ==
  {MCSettings, [mode |-> "ldap", enabled |-> TRUE, mapping |-> "invalid", deactivate |-> FALSE]}

MCStartupConfig == [mode |-> "local", mapping |-> "none"]

===============================================================================
