------------------------------- MODULE Inventory -------------------------------
(***************************************************************************)
(* Assets, their credentials and the grants on them: assets.Service,       *)
(* credentials.Service, access.Service, the grant and asset operations of  *)
(* admin.Service, their handlers, and the checks of the launch handler.    *)
(*                                                                         *)
(* A handler looks the asset up, checks what it found and then writes, in  *)
(* statements of their own: other requests run in between.  Groups and     *)
(* their members are only read by this code; one user stands for all.      *)
(***************************************************************************)
EXTENDS Naturals, FiniteSets

CONSTANTS Requests,   \* requests handled at once
          Names,      \* asset names; host and port go with the name
          Marked,     \* the names that read as if the asset had been archived
          MaxAssets,  \* bound: assets rows
          MaxEdits    \* bound: requests, and changes by operators

ASSUME InventoryAssumption ==
  /\ Marked \subseteq Names
  /\ MaxAssets \in Nat \ {0}
  /\ MaxEdits \in Nat

VARIABLES
  assets,    \* the assets table
  creds,     \* the credentials table: an asset and a credential type
  grants,    \* access_grants of the user: an asset and an action
  launches,  \* sessions rows: an asset, an action, and whether the client got its payload
  req,       \* the request each slot is working on
  edits      \* requests so far

tables == <<assets, creds, grants, launches>>
inventory == <<tables, req, edits>>

-------------------------------------------------------------------------------
Ids == 1 .. MaxAssets

\* isSupportedType of assets.
Types == {"linux_vm", "database", "redis"}

\* isSupportedAction.
Actions == {"shell", "sftp", "dbeaver", "redis"}

\* isSupportedType of credentials.
CredTypes == {"password", "ssh_key", "db_password"}

\* isActionAllowedForAssetType; protocolForLaunch accepts the same pairs.
Fits(action, type) ==
  <<action, type>> \in {<<"shell", "linux_vm">>, <<"sftp", "linux_vm">>,
                        <<"dbeaver", "database">>, <<"redis", "redis">>}

\* The credentials a launch on an asset of this type can use.
CredTypesFor(type) ==
  CASE type = "linux_vm" -> {"ssh_key", "password"}
    [] type = "database" -> {"db_password"}
    [] type = "redis"    -> {"password"}

\* An archived asset keeps its row; renamed: under a name no other asset has.
AssetRow == [state : {"free", "active", "deleted"}, name : Names, type : Types, renamed : BOOLEAN]

Live(a) == assets[a].state = "active"

RequestRow == [pc : {"idle", "grant", "credential", "delete", "check", "create", "resolve"},
               asset : Ids, action : Actions, type : Types, found : BOOLEAN]

Idle == [pc |-> "idle", asset |-> 1, action |-> "shell", type |-> "linux_vm", found |-> FALSE]

InventoryTypeOK ==
  /\ assets \in [Ids -> AssetRow]
  /\ creds \subseteq Ids \X CredTypes
  /\ grants \subseteq Ids \X Actions
  /\ launches \subseteq Ids \X Actions \X BOOLEAN
  /\ req \in [Requests -> RequestRow]
  /\ edits \in 0 .. MaxEdits

InventoryInit ==
  /\ \E n \in Names : assets = [a \in Ids |-> [state |-> "free", name |-> n,
                                               type |-> "linux_vm", renamed |-> FALSE]]
  /\ creds = {} /\ grants = {} /\ launches = {}
  /\ req = [p \in Requests |-> Idle]
  /\ edits = 0

Edit == edits < MaxEdits /\ edits' = edits + 1

Answer(p) == req' = [req EXCEPT ![p] = Idle]

\* The request has found the asset and goes on to its write.
Found(p, step, a, action) ==
  req' = [req EXCEPT ![p] = [pc |-> step, asset |-> a, action |-> action,
                             type |-> assets[a].type, found |-> Live(a)]]

-------------------------------------------------------------------------------
(* Assets.                                                                 *)

\* The row that holds a name (and host and port), archived ones included: the
\* unique constraint knows no status.
Holder(n) == {a \in Ids : assets[a].state # "free" /\ assets[a].name = n /\ ~assets[a].renamed}

FreeRow(a) == assets[a].state = "free" /\ \A b \in Ids : b < a => assets[b].state # "free"

NewAsset(n, type) == [state |-> "active", name |-> n, type |-> type, renamed |-> FALSE]

\* CreateAsset: a name that is taken is an error.
CreateAsset(p, n) ==
  /\ req[p].pc = "idle" /\ Edit
  /\ Holder(n) = {}
  /\ \E a \in Ids, type \in Types :
       FreeRow(a) /\ assets' = [assets EXCEPT ![a] = NewAsset(n, type)]
  /\ UNCHANGED <<creds, grants, launches, req>>

\* UpdateAsset, in one statement; the type may change under existing grants.
UpdateAsset(p, a) ==
  /\ req[p].pc = "idle" /\ Edit
  /\ Live(a)
  /\ \E n \in Names, type \in Types :
       /\ Holder(n) \subseteq {a}
       /\ assets' = [assets EXCEPT ![a] = NewAsset(n, type)]
  /\ UNCHANGED <<creds, grants, launches, req>>

\* assetExists and GetByID.
AssetExists(a) == Live(a)

GetByID(a) == Live(a)

DeleteBegins(p, a) ==
  /\ req[p].pc = "idle" /\ Edit
  /\ AssetExists(a)
  /\ Found(p, "delete", a, "shell")
  /\ UNCHANGED tables

\* Mutant: the archived row keeps its name.
MArchived(row) == [row EXCEPT !.state = "deleted"]

\* The row is archived under another name, unless it bears the mark already.
Archived(row) == [row EXCEPT !.state = "deleted", !.renamed = row.name \notin Marked]

\* DeleteAsset's transaction, or its failure.
DeleteAsset(p) ==
  LET a == req[p].asset IN
  /\ req[p].pc = "delete"
  /\ \/ /\ grants' = {g \in grants : g[1] # a}
        /\ creds' = {c \in creds : c[1] # a}
        /\ assets' = [assets EXCEPT ![a] = Archived(@)]
     \/ UNCHANGED <<grants, creds, assets>>
  /\ Answer(p)
  /\ UNCHANGED <<launches, edits>>

-------------------------------------------------------------------------------
(* Grants and credentials.                                                 *)

\* GrantUserAllow, up to its INSERT: the asset exists and the action fits its
\* type, two lookups in one step.
GrantBegins(p, a, action) ==
  /\ req[p].pc = "idle" /\ Edit
  /\ AssetExists(a)
  /\ Fits(action, assets[a].type)
  /\ Found(p, "grant", a, action)
  /\ UNCHANGED tables

AddUserGrant(p) ==
  /\ req[p].pc = "grant"
  /\ grants' = grants \cup {<<req[p].asset, req[p].action>>}
  /\ Answer(p)
  /\ UNCHANGED <<assets, creds, launches, edits>>

RemoveUserGrant(p, a, action) ==
  /\ req[p].pc = "idle" /\ Edit
  /\ <<a, action>> \in grants
  /\ grants' = grants \ {<<a, action>>}
  /\ UNCHANGED <<assets, creds, launches, req>>

\* UpsertAssetCredential, up to the vault's upsert.
CredentialBegins(p, a) ==
  /\ req[p].pc = "idle" /\ Edit
  /\ GetByID(a)
  /\ Found(p, "credential", a, "shell")
  /\ UNCHANGED tables

\* The credential is stored, whatever its type is good for; the audit event
\* follows, and its failure is the client's answer but takes nothing back.
UpsertAssetCredential(p) ==
  /\ req[p].pc = "credential"
  /\ \E t \in CredTypes : creds' = creds \cup {<<req[p].asset, t>>}
  /\ Answer(p)
  /\ UNCHANGED <<assets, grants, launches, edits>>

-------------------------------------------------------------------------------
(* The launch handler's use of them.                                       *)

LaunchBegins(p, a, action) ==
  /\ req[p].pc = "idle" /\ Edit
  /\ GetByID(a)
  /\ Fits(action, assets[a].type)
  /\ Found(p, "check", a, action)
  /\ UNCHANGED tables

\* CanUserPerform; the status of the asset is not asked again.
CanUserPerform(p) ==
  /\ req[p].pc = "check"
  /\ req' = IF <<req[p].asset, req[p].action>> \in grants
            THEN [req EXCEPT ![p].pc = "create"] ELSE [req EXCEPT ![p] = Idle]
  /\ UNCHANGED <<tables, edits>>

\* CreateLaunch.
CreateLaunch(p) ==
  /\ req[p].pc = "create"
  /\ launches' = launches \cup {<<req[p].asset, req[p].action, FALSE>>}
  /\ req' = [req EXCEPT ![p].pc = "resolve"]
  /\ UNCHANGED <<assets, creds, grants, edits>>

\* ResolveForAsset for the type found at the start.  Without a credential, or
\* when a later part of the handler fails, the client gets an error and the
\* row stays as it is.
ResolveForAsset(p) ==
  /\ req[p].pc = "resolve"
  /\ \/ /\ \E t \in CredTypesFor(req[p].type) : <<req[p].asset, t>> \in creds
        /\ launches' = (launches \ {<<req[p].asset, req[p].action, FALSE>>})
                         \cup {<<req[p].asset, req[p].action, TRUE>>}
     \/ UNCHANGED launches
  /\ Answer(p)
  /\ UNCHANGED <<assets, creds, grants, edits>>

\* One step of a request.
Handle(p) ==
  \/ \E n \in Names : CreateAsset(p, n)
  \/ \E a \in Ids : \/ UpdateAsset(p, a) \/ DeleteBegins(p, a) \/ CredentialBegins(p, a)
                    \/ \E action \in Actions : \/ GrantBegins(p, a, action)
                                               \/ RemoveUserGrant(p, a, action)
                                               \/ LaunchBegins(p, a, action)
  \/ DeleteAsset(p) \/ AddUserGrant(p) \/ UpsertAssetCredential(p)
  \/ CanUserPerform(p) \/ CreateLaunch(p) \/ ResolveForAsset(p)

===============================================================================
