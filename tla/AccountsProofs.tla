---------------------------- MODULE AccountsProofs ----------------------------
(***************************************************************************)
(* Proofs about Accounts, for any names, passwords, settings, directories  *)
(* and logins tried, any number of requests at once, and any threshold and *)
(* window of the limiter.                                                  *)
(***************************************************************************)
EXTENDS Accounts, FiniteSetTheorems, SequenceTheorems, TLAPS

USE DEF request, vars

-------------------------------------------------------------------------------
(* The limiter's queue.  Pruned stops at the first entry within the        *)
(* window; that there is a first one is the least-number principle, here   *)
(* for sets of naturals.                                                   *)

Less == {p \in Nat \X Nat : p[1] < p[2]}

\* The order of the naturals, as a relation, is well founded.
LEMMA LessWellFounded == IsWellFoundedOn(Less, Nat)
  BY NatLessThanWellFounded, Zenon DEF OpToRel, Less

\* Less is the order and not more.
LEMMA LessIsLess ==
  ASSUME NEW x \in Nat, NEW y \in Nat, <<x, y>> \notin Less
  PROVE  y <= x
  <1>1. <<x, y>>[1] = x /\ <<x, y>>[2] = y /\ <<x, y>> \in Nat \X Nat
    OBVIOUS
  <1>2. ~(x < y)
    BY <1>1, Zenon DEF Less
  <1> QED
    BY <1>2

\* A set of naturals has a least element.
LEMMA LeastNatural ==
  ASSUME NEW T \in SUBSET Nat, T # {}
  PROVE  \E x \in T : \A y \in T : x <= y
  <1>1. PICK x \in T : \A y \in T : <<y, x>> \notin Less
    BY LessWellFounded, WFMin, Zenon
  <1>2. ASSUME NEW y \in T PROVE x <= y
    BY <1>1, LessIsLess
  <1> QED
    BY <1>2

\* Ages in the order of the queue: the oldest entry is in front.
OldestFirst(q) == \A i, j \in 1 .. Len(q) : i <= j => q[j] <= q[i]

\* pruneLockedUnsafe keeps exactly a tail of the queue; as the oldest entry
\* is in front, all of that tail is within the window.
LEMMA PrunedProperties ==
  ASSUME NEW q \in Seq(Nat), OldestFirst(q)
  PROVE  /\ Pruned(q) \in Seq(0 .. Window)
         /\ Len(Pruned(q)) <= Len(q)
         /\ OldestFirst(Pruned(q))
  <1> DEFINE Stops(s) == /\ \A i \in 1 .. s : q[i] > Window
                         /\ s < Len(q) => q[s + 1] <= Window
             start == CHOOSE s \in 0 .. Len(q) : Stops(s)
             T == {s \in 0 .. Len(q) : s < Len(q) => q[s + 1] <= Window}
  <1>1. Len(q) \in Nat /\ \A i \in 1 .. Len(q) : q[i] \in Nat
    BY ElementOfSeq, LenProperties
  <1>2. \E s \in 0 .. Len(q) : Stops(s)
    <2>1. T \in SUBSET Nat /\ Len(q) \in T
      BY <1>1
    <2>2. PICK s \in T : \A y \in T : s <= y
      BY <2>1, LeastNatural, Zenon
    <2>3. ASSUME NEW i \in 1 .. s PROVE q[i] > Window
      <3>1. i - 1 \in 0 .. Len(q) /\ i - 1 < Len(q) /\ ~(s <= i - 1)
        BY <1>1, <2>2
      <3>2. ~(q[(i - 1) + 1] <= Window)
        BY <2>2, <3>1
      <3>3. (i - 1) + 1 = i /\ i \in 1 .. Len(q)
        BY <1>1, <2>2
      <3> QED
        BY <3>2, <3>3, <1>1, AccountsAssumption
    <2> QED
      BY <2>2, <2>3
  <1>3. start \in 0 .. Len(q) /\ Stops(start)
    BY <1>2, Zenon
  <1> HIDE DEF start
  <1>4. \A i \in start + 1 .. Len(q) : q[i] \in 0 .. Window
    <2> SUFFICES ASSUME NEW i \in start + 1 .. Len(q) PROVE q[i] \in 0 .. Window
      OBVIOUS
    <2>1. start + 1 \in 1 .. Len(q) /\ i \in 1 .. Len(q) /\ start + 1 <= i
      BY <1>1, <1>3
    <2>2. q[start + 1] <= Window /\ q[i] <= q[start + 1]
      BY <1>1, <1>3, <2>1 DEF OldestFirst
    <2> QED
      BY <1>1, <2>1, <2>2, AccountsAssumption
  <1>5. Pruned(q) = SubSeq(q, start + 1, Len(q))
    BY DEF Pruned, start
  <1>6. /\ Pruned(q) \in Seq(0 .. Window)
        /\ Len(Pruned(q)) = IF start + 1 <= Len(q) THEN Len(q) - (start + 1) + 1 ELSE 0
        /\ \A i \in 1 .. Len(q) - (start + 1) + 1 : Pruned(q)[i] = q[(start + 1) + i - 1]
    <2>1. start + 1 \in Int /\ Len(q) \in Int
      BY <1>1, <1>3
    <2> QED
      BY <2>1, <1>4, <1>5, SubSeqProperties
  <1>7. Len(Pruned(q)) = Len(q) - start
    BY <1>1, <1>3, <1>6
  <1>8. OldestFirst(Pruned(q))
    <2> SUFFICES ASSUME NEW i \in 1 .. Len(q) - start, NEW j \in 1 .. Len(q) - start, i <= j
                 PROVE  Pruned(q)[j] <= Pruned(q)[i]
      BY <1>7 DEF OldestFirst
    <2>1. Pruned(q)[i] = q[start + i] /\ Pruned(q)[j] = q[start + j]
      BY <1>1, <1>3, <1>6
    <2>2. start + i \in 1 .. Len(q) /\ start + j \in 1 .. Len(q) /\ start + i <= start + j
      BY <1>1, <1>3
    <2> QED
      BY <2>1, <2>2 DEF OldestFirst
  <1> QED
    BY <1>1, <1>3, <1>6, <1>7, <1>8

-------------------------------------------------------------------------------
(* Type correctness.  That Tick leaves only entries within the window is   *)
(* part of it, so it rests on the order of the queues.                     *)

Typed == TypeOK /\ \A k \in Keys : OldestFirst(attempts[k])

\* What the operations make of a user's row is a user's row.
LEMMA RowsTyped ==
  /\ NoUser \in UserRow /\ LDAPUser \in UserRow
  /\ \A pw \in Passwords : CreatedUser(pw) \in UserRow
  /\ \A u \in UserRow :
       /\ Bootstrapped(u) \in UserRow
       /\ \A m \in Mappings : SyncedUser(u, m) \in UserRow
       /\ UpsertLDAPUserTx(u) \in UserRow /\ DeactivateMissingLDAPUsersTx(u) \in UserRow
       /\ \A b \in BOOLEAN : WithActive(u, b) \in UserRow
       /\ \A pw \in Passwords : WithHash(u, pw) \in UserRow
       /\ \A x \in Roles : WithRole(u, x) \in UserRow /\ LessRole(u, x) \in UserRow
  <1>1. NoUser \in UserRow /\ LDAPUser \in UserRow
    BY DEF NoUser, LDAPUser, UserRow, Roles
  <1>2. ASSUME NEW pw \in Passwords PROVE CreatedUser(pw) \in UserRow
    BY DEF CreatedUser, NoUser, UserRow, Roles
  <1>3. ASSUME NEW u \in UserRow PROVE Bootstrapped(u) \in UserRow
    BY AccountsAssumption DEF Bootstrapped, NoUser, UserRow, Roles
  <1>4. ASSUME NEW u \in UserRow, NEW m \in Mappings PROVE SyncedUser(u, m) \in UserRow
    BY AccountsAssumption DEF SyncedUser, RolesFor, LDAPUser, NoUser, UserRow, Roles
  <1>5. ASSUME NEW u \in UserRow
        PROVE  UpsertLDAPUserTx(u) \in UserRow /\ DeactivateMissingLDAPUsersTx(u) \in UserRow
    BY <1>1 DEF UpsertLDAPUserTx, DeactivateMissingLDAPUsersTx, UserRow
  <1>6. ASSUME NEW u \in UserRow
        PROVE  /\ \A b \in BOOLEAN : WithActive(u, b) \in UserRow
               /\ \A pw \in Passwords : WithHash(u, pw) \in UserRow
               /\ \A x \in Roles : WithRole(u, x) \in UserRow /\ LessRole(u, x) \in UserRow
    BY DEF WithActive, WithHash, WithRole, LessRole, UserRow
  <1> QED
    BY <1>1, <1>2, <1>3, <1>4, <1>5, <1>6

\* The values a request, a session and the sync begin with.
LEMMA DefaultsTyped ==
  /\ NoInput \in Inputs /\ NoConfig \in Config /\ Ended \in SessionRow
  /\ \A i \in Inputs : KeyOf(i) \in Keys
  BY AccountsAssumption
     DEF NoInput, Inputs, Forms, NoConfig, Config, Modes, Mappings, Ended, SessionRow, KeyOf, Keys

\* Leaving a transaction out of a row's history leaves a row.
LEMMA WithoutTyped ==
  ASSUME Typed, NEW r \in Requests
  PROVE  Without(r) \in [Ids -> SessionRow]
  <1> SUFFICES ASSUME NEW i \in Ids PROVE [rows[i] EXCEPT !.during = @ \ {r}] \in SessionRow
    BY DEF Without
  <1>1. rows[i] \in SessionRow
    BY DEF Typed, TypeOK
  <1> QED
    BY <1>1 DEF SessionRow

\* The server as it first starts is typed.
LEMMA InitTyped == Init => Typed
  <1> SUFFICES ASSUME Init PROVE Typed
    OBVIOUS
  <1>1. users \in [Names -> UserRow]
    BY RowsTyped DEF Init
  <1>2. attempts \in [Keys -> Seq(0 .. Window)] /\ \A k \in Keys : OldestFirst(attempts[k])
    BY DEF Init, OldestFirst
  <1> QED
    BY <1>1, <1>2, DefaultsTyped, AccountsAssumption
       DEF Init, Typed, TypeOK, Settings, Steps, Modes, NoSync

\* A failure is recorded at the end of its queue, with age 0.
LEMMA FailureTyped ==
  ASSUME Typed, NEW k \in Keys, RecordFailure(k)
  PROVE  /\ attempts' \in [Keys -> Seq(0 .. Window)]
         /\ \A q \in Keys : OldestFirst(attempts'[q])
         /\ Len(attempts'[k]) = Len(attempts[k]) + 1
         /\ \A q \in Keys \ {k} : attempts'[q] = attempts[q]
  <1> DEFINE a == attempts[k]
  <1>1. a \in Seq(0 .. Window) /\ 0 \in 0 .. Window /\ OldestFirst(a)
    BY AccountsAssumption DEF Typed, TypeOK
  <1>2. attempts' = [attempts EXCEPT ![k] = Append(a, 0)]
    BY DEF RecordFailure
  <1>3. /\ Append(a, 0) \in Seq(0 .. Window) /\ Len(Append(a, 0)) = Len(a) + 1
        /\ \A i \in 1 .. Len(a) : Append(a, 0)[i] = a[i]
        /\ Append(a, 0)[Len(a) + 1] = 0
    BY <1>1, AppendProperties
  <1>4. Len(a) \in Nat /\ \A i \in 1 .. Len(a) : a[i] \in 0 .. Window
    BY <1>1, ElementOfSeq, LenProperties
  <1>5. OldestFirst(Append(a, 0))
    <2> SUFFICES ASSUME NEW i \in 1 .. Len(a) + 1, NEW j \in 1 .. Len(a) + 1, i <= j
                 PROVE  Append(a, 0)[j] <= Append(a, 0)[i]
      BY <1>3 DEF OldestFirst
    <2>1. CASE j = Len(a) + 1
      BY <1>3, <1>4, <2>1
    <2>2. CASE j # Len(a) + 1
      BY <1>1, <1>3, <1>4, <2>2 DEF OldestFirst
    <2> QED
      BY <2>1, <2>2
  <1>6. attempts'[k] = Append(a, 0) /\ \A q \in Keys \ {k} : attempts'[q] = attempts[q]
    BY <1>2 DEF Typed, TypeOK
  <1>7. attempts' \in [Keys -> Seq(0 .. Window)]
    BY <1>2, <1>3 DEF Typed, TypeOK
  <1> QED
    BY <1>3, <1>5, <1>6, <1>7 DEF Typed

\* A step of the clock leaves typed queues, none of them longer.
LEMMA TickTyped ==
  ASSUME Typed, Tick
  PROVE  /\ attempts' \in [Keys -> Seq(0 .. Window)]
         /\ \A k \in Keys : OldestFirst(attempts'[k]) /\ Len(attempts'[k]) <= Len(attempts[k])
  <1> DEFINE aged(k) == [i \in DOMAIN attempts[k] |-> attempts[k][i] + 1]
  <1>1. ASSUME NEW k \in Keys
        PROVE  /\ Pruned(aged(k)) \in Seq(0 .. Window) /\ OldestFirst(Pruned(aged(k)))
               /\ Len(Pruned(aged(k))) <= Len(attempts[k])
    <2>1. attempts[k] \in Seq(0 .. Window) /\ OldestFirst(attempts[k])
      BY DEF Typed, TypeOK
    <2>2. /\ Len(attempts[k]) \in Nat /\ DOMAIN attempts[k] = 1 .. Len(attempts[k])
          /\ \A i \in 1 .. Len(attempts[k]) : attempts[k][i] \in 0 .. Window
      BY <2>1, ElementOfSeq, LenProperties
    <2>3. aged(k) \in Seq(Nat) /\ Len(aged(k)) = Len(attempts[k])
      BY <2>2, AccountsAssumption
    <2>4. \A i \in 1 .. Len(attempts[k]) : aged(k)[i] = attempts[k][i] + 1
      BY <2>2
    <2>5. OldestFirst(aged(k))
      <3> HIDE DEF aged
      <3> QED
        BY <2>1, <2>2, <2>3, <2>4 DEF OldestFirst
    <2> HIDE DEF aged
    <2> QED
      BY <2>3, <2>5, PrunedProperties
  <1>2. attempts' = [k \in Keys |-> Pruned(aged(k))]
    BY DEF Tick
  <1> HIDE DEF aged
  <1> QED
    BY <1>1, <1>2

\* A request is answered.
LEMMA AnswerTyped ==
  ASSUME Typed, NEW r \in Requests, Answer(r)
  PROVE  /\ pc' \in [Requests -> Steps] /\ input' \in [Requests -> Inputs]
         /\ cfg' \in [Requests -> Config] /\ provider' \in [Requests -> Modes]
         /\ targets' \in [Requests -> SUBSET Ids]
  BY DefaultsTyped DEF Typed, TypeOK, Answer, Goto, Forget, Steps, Modes

\* A provider accepts, or refuses.
LEMMA OutcomeTyped ==
  ASSUME Typed, NEW r \in Requests, Accepted(r) \/ Refused(r)
  PROVE  /\ pc' \in [Requests -> Steps] /\ input' \in [Requests -> Inputs]
         /\ cfg' \in [Requests -> Config] /\ provider' \in [Requests -> Modes]
         /\ targets' \in [Requests -> SUBSET Ids]
         /\ attempts' \in [Keys -> Seq(0 .. Window)]
         /\ \A k \in Keys : OldestFirst(attempts'[k])
  <1>1. CASE Accepted(r)
    BY <1>1, DefaultsTyped DEF Typed, TypeOK, Accepted, Goto, Steps, LoginSteps, Modes
  <1>2. CASE Refused(r) /\ provider[r] = "hybrid"
    BY <1>2 DEF Typed, TypeOK, Refused, Goto, Steps, LoginSteps, Modes
  <1>3. CASE Refused(r) /\ provider[r] # "hybrid"
    <2>1. RecordFailure(KeyOf(input[r])) /\ Answer(r)
      BY <1>3 DEF Refused
    <2>2. KeyOf(input[r]) \in Keys
      BY DefaultsTyped DEF Typed, TypeOK
    <2> QED
      BY <2>1, <2>2, AnswerTyped, FailureTyped
  <1> QED
    BY <1>1, <1>2, <1>3

\* The steps of a login.
LEMMA LoginTyped ==
  ASSUME Typed, NEW r \in Requests, Login(r)
  PROVE  Typed'
  <1>1. ASSUME NEW i \in LoginInputs, RejectBlocked(r, i) PROVE Typed'
    BY <1>1 DEF RejectBlocked, Typed, TypeOK
  <1>2. ASSUME NEW i \in LoginInputs, ResolveAuthConfig(r, i) PROVE Typed'
    <2>1. i \in Inputs /\ ResolvedConfig \in Config /\ StartupConfig \in Config
      BY AccountsAssumption
         DEF Typed, TypeOK, Inputs, ResolvedConfig, Config, Settings, Modes, Mappings
    <2>2. StartupConfig.mode \in Modes
      BY AccountsAssumption
    <2>3. QED
      <3>1. /\ input' \in [Requests -> Inputs]
            /\ UNCHANGED <<users, settings, directory, rows, attempts, targets, sync, edits>>
        BY <1>2, <2>1 DEF Typed, TypeOK, ResolveAuthConfig
      <3>2. /\ cfg' \in [Requests -> Config] /\ provider' \in [Requests -> Modes]
            /\ pc' \in [Requests -> Steps]
        <4>1. CASE /\ cfg' = [cfg EXCEPT ![r] = ResolvedConfig]
                   /\ Goto(r, "lookup")
                   /\ UNCHANGED provider
          BY <2>1, <4>1 DEF Typed, TypeOK, Goto, Steps, LoginSteps
        <4>2. CASE /\ cfg' = [cfg EXCEPT ![r] = StartupConfig]
                   /\ provider' = [provider EXCEPT ![r] = StartupConfig.mode]
                   /\ Goto(r, "auth")
          BY <2>1, <2>2, <4>2 DEF Typed, TypeOK, Goto, Steps, LoginSteps
        <4> QED
          BY <1>2, <4>1, <4>2 DEF ResolveAuthConfig
      <3> QED
        BY <3>1, <3>2 DEF Typed, TypeOK
  <1>3. CASE LookupProvider(r)
    <2>1. PICK mapped \in {MappedProvider(input[r]), "none"} :
            provider' = [provider EXCEPT ![r] = ProviderFor(mapped, cfg[r])]
      BY <1>3 DEF LookupProvider
    <2>2. MappedProvider(input[r]) \in {"local", "ldap", "none"}
      BY DEF Typed, TypeOK, MappedProvider, Inputs, UserRow
    <2>3. ProviderFor(mapped, cfg[r]) \in Modes
      BY <2>2 DEF Typed, TypeOK, ProviderFor, Config, Modes
    <2> QED
      BY <1>3, <2>1, <2>3 DEF Typed, TypeOK, LookupProvider, Goto, Steps, LoginSteps
  <1>4. CASE AuthenticateLDAP(r)
    <2>1. CASE Goto(r, "sync") /\ UNCHANGED <<attempts, input, cfg, provider, targets>>
      <3>1. /\ pc' \in [Requests -> Steps]
            /\ UNCHANGED <<users, settings, directory, rows, sync, edits>>
        BY <1>4, <2>1 DEF Typed, TypeOK, AuthenticateLDAP, Goto, Steps, LoginSteps
      <3> QED
        BY <2>1, <3>1 DEF Typed, TypeOK
    <2>2. CASE Refused(r)
      BY <1>4, <2>2, OutcomeTyped DEF Typed, TypeOK, AuthenticateLDAP
    <2> QED
      BY <1>4, <2>1, <2>2 DEF AuthenticateLDAP
  <1>5. CASE SyncLocalUser(r)
    <2>1. CASE /\ users' = [users EXCEPT ![input[r].name] = SyncedUser(@, cfg[r].mapping)]
               /\ Accepted(r)
      <3>1. input[r].name \in Names /\ cfg[r].mapping \in Mappings
        BY DEF Typed, TypeOK, Inputs, Config
      <3>2. users' \in [Names -> UserRow]
        BY <2>1, <3>1, RowsTyped DEF Typed, TypeOK
      <3> QED
        BY <1>5, <2>1, <3>2, OutcomeTyped DEF Typed, TypeOK, SyncLocalUser
    <2>2. CASE Refused(r) /\ UNCHANGED users
      BY <1>5, <2>2, OutcomeTyped DEF Typed, TypeOK, SyncLocalUser
    <2> QED
      BY <1>5, <2>1, <2>2 DEF SyncLocalUser
  <1>6. CASE AuthenticateLocal(r)
    <2>1. Accepted(r) \/ Refused(r)
      BY <1>6 DEF AuthenticateLocal
    <2> QED
      BY <1>6, <2>1, OutcomeTyped DEF Typed, TypeOK, AuthenticateLocal
  <1>7. CASE BeginSession(r)
    <2>1. attempts' \in [Keys -> Seq(0 .. Window)] /\ \A k \in Keys : OldestFirst(attempts'[k])
      <3>1. <<>> \in Seq(0 .. Window) /\ OldestFirst(<<>>)
        BY DEF OldestFirst
      <3> QED
        BY <1>7, <3>1 DEF Typed, TypeOK, BeginSession, Reset
    <2>2. LiveOf(input[r].name) \in SUBSET Ids
      BY DEF LiveOf
    <2> QED
      BY <1>7, <2>1, <2>2 DEF Typed, TypeOK, BeginSession, Goto, Steps, LoginSteps
  <1>8. CASE CommitSession(r)
    <2> DEFINE left == [i \in Ids |-> IF i \in targets[r] THEN Ended ELSE Without(r)[i]]
               row  == [live |-> TRUE, user |-> input[r].name, during |-> Beside(r)]
    <2>1. left \in [Ids -> SessionRow]
      BY DefaultsTyped, WithoutTyped
    <2>2. row \in SessionRow
      BY DEF Typed, TypeOK, Inputs, SessionRow, Beside
    <2>3. PICK i \in Ids : rows' = [left EXCEPT ![i] = row]
      BY <1>8 DEF CommitSession
    <2>4. rows' \in [Ids -> SessionRow]
      <3> HIDE DEF left, row
      <3> QED
        BY <2>1, <2>2, <2>3
    <2>5. targets' \in [Requests -> SUBSET Ids]
      BY <1>8 DEF CommitSession, Typed, TypeOK
    <2> QED
      BY <1>8, <2>4, <2>5, DefaultsTyped
         DEF Typed, TypeOK, CommitSession, Goto, Forget, Steps, Modes
  <1>9. CASE StoreFails(r)
    BY <1>9, WithoutTyped, DefaultsTyped DEF Typed, TypeOK, StoreFails, Goto, Forget, Steps, Modes
  <1> QED
    BY <1>1, <1>2, <1>3, <1>4, <1>5, <1>6, <1>7, <1>8, <1>9 DEF Login

\* The requests of administrators.
LEMMA AdminTyped ==
  ASSUME Typed, NEW r \in Requests, Admin(r)
  PROVE  Typed'
  <1>1. ASSUME NEW n \in Names, NEW b \in BOOLEAN, NEW row \in UserRow, EditUser(r, n, b, row)
        PROVE  Typed'
    <2>1. users' \in [Names -> UserRow]
      BY <1>1 DEF Typed, TypeOK, EditUser
    <2>2. Answer(r) /\ UNCHANGED <<settings, directory, rows, attempts, sync, edits>>
      BY <1>1 DEF EditUser
    <2> QED
      BY <2>1, <2>2, AnswerTyped DEF Typed, TypeOK
  <1>2. ASSUME NEW i \in Ids, AdminBegins(r, i) PROVE Typed'
    BY <1>2, AccountsAssumption DEF Typed, TypeOK, AdminBegins, Edit, Goto, Steps
  <1>3. ASSUME NEW n \in Names,
               \/ CreateUser(r, n) \/ SetUserActive(r, n) \/ ResetUserPassword(r, n)
               \/ AssignRoleToUser(r, n) \/ RemoveRoleFromUser(r, n)
        PROVE  \E b \in BOOLEAN, row \in UserRow : EditUser(r, n, b, row)
    <2>1. users[n] \in UserRow
      BY DEF Typed, TypeOK
    <2> QED
      BY <1>3, <2>1, RowsTyped
         DEF CreateUser, SetUserActive, ResetUserPassword, AssignRoleToUser, RemoveRoleFromUser
  <1>4. CASE UpsertLDAPSettings(r)
    BY <1>4, AnswerTyped, AccountsAssumption DEF Typed, TypeOK, UpsertLDAPSettings
  <1>5. CASE SyncBegins(r)
    <2>1. sync' \in [Requests -> [entries : SUBSET Names, deactivate : BOOLEAN]]
      BY <1>5 DEF Typed, TypeOK, SyncBegins, Settings
    <2> QED
      BY <1>5, <2>1 DEF Typed, TypeOK, SyncBegins, Goto, Steps
  <1>6. SyncEnds(r) => sync' \in [Requests -> [entries : SUBSET Names, deactivate : BOOLEAN]]
    BY DEF Typed, TypeOK, SyncEnds, NoSync
  <1>7. CASE SyncSearch(r)
    <2>1. CASE SyncEnds(r)
      BY <1>6, <1>7, <2>1, AnswerTyped DEF Typed, TypeOK, SyncSearch, SyncEnds
    <2>2. CASE /\ sync' = [sync EXCEPT ![r].entries = SearchLDAPUsers]
               /\ Goto(r, "apply")
               /\ UNCHANGED <<input, cfg, provider, targets>>
      <3>1. SearchLDAPUsers \in SUBSET Names
        BY DEF SearchLDAPUsers
      <3>2. sync' \in [Requests -> [entries : SUBSET Names, deactivate : BOOLEAN]]
        BY <2>2, <3>1 DEF Typed, TypeOK
      <3> QED
        BY <1>7, <2>2, <3>2 DEF Typed, TypeOK, SyncSearch, Goto, Steps
    <2> QED
      BY <1>7, <2>1, <2>2 DEF SyncSearch
  <1>8. CASE SyncApply(r)
    <2>1. \A n \in Names : SyncedBy(r, n) \in UserRow
      BY RowsTyped DEF Typed, TypeOK, SyncedBy
    <2>2. users' \in [Names -> UserRow]
      BY <1>8, <2>1 DEF Typed, TypeOK, SyncApply
    <2> QED
      BY <1>6, <1>8, <2>2, AnswerTyped DEF Typed, TypeOK, SyncApply, SyncEnds
  <1> QED
    BY <1>1, <1>2, <1>3, <1>4, <1>5, <1>7, <1>8 DEF Admin

\* A user's change of password, the end of a session, the clock and the
\* environment.
LEMMA OthersTyped ==
  ASSUME Typed,
         \/ \E r \in Requests : \/ ChangePassword(r)
                                \/ \E i \in Ids, pw \in Passwords : ChangeBegins(r, i, pw)
         \/ \E i \in Ids : SessionEnds(i)
         \/ DirectoryChanges \/ Tick \/ Restart
  PROVE  Typed'
  <1>1. ASSUME NEW r \in Requests, ChangePassword(r) PROVE Typed'
    <2>1. users' \in [Names -> UserRow]
      <3> DEFINE n == input[r].name
                 u == [users[n] EXCEPT !.hash = input[r].password]
      <3>1. users' = [users EXCEPT ![n] = u]
        BY <1>1 DEF ChangePassword
      <3>2. u \in UserRow
        <4>1. n \in Names /\ input[r].password \in Passwords
          BY DEF Typed, TypeOK, Inputs
        <4>2. users[n] \in UserRow
          BY <4>1 DEF Typed, TypeOK
        <4> QED
          BY <4>1, <4>2 DEF UserRow
      <3> QED
        BY <3>1, <3>2 DEF Typed, TypeOK
    <2> QED
      BY <1>1, <2>1, AnswerTyped DEF Typed, TypeOK, ChangePassword
  <1>2. ASSUME NEW r \in Requests, NEW i \in Ids, NEW pw \in Passwords, ChangeBegins(r, i, pw)
        PROVE  Typed'
    <2>1. [name |-> rows[i].user, form |-> "exact", password |-> pw] \in Inputs
      BY DEF Typed, TypeOK, Inputs, Forms, SessionRow
    <2>2. input' \in [Requests -> Inputs] /\ pc' \in [Requests -> Steps] /\ edits' \in 0 .. MaxEdits
      BY <1>2, <2>1, AccountsAssumption DEF Typed, TypeOK, ChangeBegins, Edit, Goto, Steps
    <2> QED
      BY <1>2, <2>2 DEF Typed, TypeOK, ChangeBegins
  <1>3. ASSUME NEW i \in Ids, SessionEnds(i) PROVE Typed'
    BY <1>3, DefaultsTyped DEF Typed, TypeOK, SessionEnds
  <1>4. CASE DirectoryChanges
    BY <1>4, AccountsAssumption DEF Typed, TypeOK, DirectoryChanges, Edit
  <1>5. CASE Tick
    BY <1>5, TickTyped DEF Typed, TypeOK, Tick
  <1>6. CASE Restart
    <2>1. users' \in [Names -> UserRow]
      BY <1>6, RowsTyped DEF Typed, TypeOK, Restart
    <2>2. attempts' \in [Keys -> Seq(0 .. Window)] /\ \A k \in Keys : OldestFirst(attempts'[k])
      BY <1>6 DEF Restart, OldestFirst
    <2>3. rows' \in [Ids -> SessionRow]
      <3>1. ASSUME NEW i \in Ids PROVE [rows[i] EXCEPT !.during = {}] \in SessionRow
        <4>1. rows[i] \in SessionRow
          BY DEF Typed, TypeOK
        <4> QED
          BY <4>1 DEF SessionRow
      <3>2. rows' = [i \in Ids |-> [rows[i] EXCEPT !.during = {}]]
        BY <1>6 DEF Restart
      <3> QED
        BY <3>1, <3>2
    <2> QED
      BY <1>6, <2>1, <2>2, <2>3, DefaultsTyped, AccountsAssumption
         DEF Typed, TypeOK, Restart, Edit, Steps, Modes, NoSync
  <1> QED
    BY <1>1, <1>2, <1>3, <1>4, <1>5, <1>6

\* Every step keeps the types.
LEMMA StepTyped == Typed /\ [Next]_vars => Typed'
  <1> SUFFICES ASSUME Typed, [Next]_vars PROVE Typed'
    OBVIOUS
  <1>1. CASE UNCHANGED vars
    BY <1>1 DEF Typed, TypeOK
  <1>2. CASE Next
    BY <1>2, LoginTyped, AdminTyped, OthersTyped DEF Next
  <1> QED
    BY <1>1, <1>2

\* The tables, the limiter and the requests keep their types; in particular
\* every failure the limiter remembers is within the window.
THEOREM Typing == Spec => []TypeOK
  <1>1. Typed => TypeOK
    BY DEF Typed
  <1> QED
    BY <1>1, InitTyped, StepTyped, PTL DEF Spec

-------------------------------------------------------------------------------
(* Sessions that overlap.  What a transaction about to insert a row does   *)
(* not revoke was committed after it began.                                *)

Revoking ==
  \A r \in Requests : pc[r] = "commit" =>
    \A j \in Ids : rows[j].live /\ rows[j].user = input[r].name
                    => j \in targets[r] \/ r \in rows[j].during

\* A step that stores and ends no session, revokes none, and takes no request
\* to its commit.
LEMMA SessionsAlone ==
  ASSUME Typed, Revoking, NEW r \in Requests, NEW step \in Steps \ {"commit"},
         UNCHANGED <<rows, targets>>,
         pc' = [pc EXCEPT ![r] = step],
         \A q \in Requests \ {r} : input'[q] = input[q]
  PROVE  Revoking'
  BY DEF Typed, TypeOK, Revoking

\* What the end of r's transaction leaves of the other rows.
LEMMA WithoutKeeps ==
  ASSUME Typed, NEW r \in Requests, NEW j \in Ids
  PROVE  /\ Without(r)[j].live = rows[j].live /\ Without(r)[j].user = rows[j].user
         /\ Without(r)[j].during = rows[j].during \ {r}
  <1>1. rows[j] \in SessionRow
    BY DEF Typed, TypeOK
  <1> QED
    BY <1>1 DEF Without, SessionRow

\* A login that commits: its own row is in a place of its own, and every other
\* live session was there before and is none of those it revokes.
LEMMA CommitLeaves ==
  ASSUME Typed, NEW r \in Requests, CommitSession(r)
  PROVE  \E i \in Ids :
           /\ rows'[i] = [live |-> TRUE, user |-> input[r].name, during |-> Beside(r)]
           /\ \A j \in Ids \ {i} : rows'[j].live =>
                /\ j \notin targets[r] /\ rows[j].live /\ rows'[j].user = rows[j].user
                /\ rows'[j].during = rows[j].during \ {r}
  <1> DEFINE left == [i \in Ids |-> IF i \in targets[r] THEN Ended ELSE Without(r)[i]]
             row  == [live |-> TRUE, user |-> input[r].name, during |-> Beside(r)]
  <1>1. PICK i \in Ids : rows' = [left EXCEPT ![i] = row]
    BY DEF CommitSession
  <1>2. rows'[i] = row /\ \A j \in Ids \ {i} : rows'[j] = left[j]
    BY <1>1
  <1>3. ASSUME NEW j \in Ids \ {i}, rows'[j].live
        PROVE  /\ j \notin targets[r] /\ rows[j].live /\ rows'[j].user = rows[j].user
               /\ rows'[j].during = rows[j].during \ {r}
    <2>1. rows'[j] = IF j \in targets[r] THEN Ended ELSE Without(r)[j]
      BY <1>2
    <2>2. j \notin targets[r]
      BY <1>3, <2>1 DEF Ended
    <2> QED
      BY <1>3, <2>1, <2>2, WithoutKeeps
  <1> QED
    BY <1>2, <1>3

\* A login that commits leaves alive its own session and what it could not see.
LEMMA CommitApart ==
  ASSUME Typed, Revoking, NEW r \in Requests, CommitSession(r),
         NEW a \in Ids, rows'[a].live, rows'[a].user = input[r].name,
         a \notin LiveOf(input[r].name) \/ r \notin rows[a].during,
         NEW b \in Ids, rows'[b].live, rows'[b].user = input[r].name,
         b \notin LiveOf(input[r].name) \/ r \notin rows[b].during
  PROVE  a = b
  <1>1. PICK i \in Ids :
          \A j \in Ids \ {i} : rows'[j].live =>
            j \notin targets[r] /\ rows[j].live /\ rows'[j].user = rows[j].user
    BY CommitLeaves
  <1>2. pc[r] = "commit"
    BY DEF CommitSession
  <1>3. a = i
    BY <1>1, <1>2 DEF Revoking, LiveOf
  <1>4. b = i
    BY <1>1, <1>2 DEF Revoking, LiveOf
  <1> QED
    BY <1>3, <1>4

\* Every step keeps the rows that a transaction does not revoke younger than it.
LEMMA StepApart ==
  ASSUME Typed, Revoking, [Next]_vars
  PROVE  Revoking'
  <1>1. CASE UNCHANGED <<pc, input, rows, targets>>
    BY <1>1 DEF Revoking
  <1>2. ASSUME NEW r \in Requests, Answer(r), UNCHANGED rows
        PROVE  Revoking'
    BY <1>2, SessionsAlone DEF Answer, Goto, Forget, Steps, Typed, TypeOK
  <1>3. ASSUME NEW r \in Requests, Accepted(r) \/ Refused(r), UNCHANGED rows
        PROVE  Revoking'
    <2>1. CASE Accepted(r)
      BY <1>3, <2>1, SessionsAlone DEF Accepted, Goto, Steps, LoginSteps
    <2>2. CASE Refused(r) /\ provider[r] = "hybrid"
      BY <1>3, <2>2, SessionsAlone DEF Refused, Goto, Steps, LoginSteps
    <2>3. CASE Refused(r) /\ provider[r] # "hybrid"
      BY <1>2, <1>3, <2>3 DEF Refused
    <2> QED
      BY <1>3, <2>1, <2>2, <2>3
  <1>4. ASSUME NEW r \in Requests, Login(r) PROVE Revoking'
    <2>1. ASSUME NEW i \in LoginInputs, RejectBlocked(r, i) PROVE UNCHANGED vars
      BY <2>1 DEF RejectBlocked
    <2>2. ASSUME NEW i \in LoginInputs, ResolveAuthConfig(r, i)
          PROVE  Revoking'
      BY <2>2, SessionsAlone DEF ResolveAuthConfig, Goto, Steps, LoginSteps, Typed, TypeOK
    <2>3. CASE LookupProvider(r)
      BY <2>3, SessionsAlone DEF LookupProvider, Goto, Steps, LoginSteps
    <2>4. CASE AuthenticateLDAP(r)
      <3>1. CASE Goto(r, "sync") /\ UNCHANGED <<attempts, input, cfg, provider, targets>>
        BY <2>4, <3>1, SessionsAlone DEF AuthenticateLDAP, Goto, Steps, LoginSteps
      <3>2. CASE Refused(r)
        BY <1>3, <2>4, <3>2 DEF AuthenticateLDAP
      <3> QED
        BY <2>4, <3>1, <3>2 DEF AuthenticateLDAP
    <2>5. CASE SyncLocalUser(r)
      BY <1>3, <2>5 DEF SyncLocalUser
    <2>6. CASE AuthenticateLocal(r)
      BY <1>3, <2>6 DEF AuthenticateLocal
    <2>7. CASE BeginSession(r)
      BY <2>7 DEF BeginSession, Goto, LiveOf, Typed, TypeOK, Revoking
    <2>8. CASE CommitSession(r)
      <3>1. PICK i \in Ids :
              /\ rows'[i] = [live |-> TRUE, user |-> input[r].name, during |-> Beside(r)]
              /\ \A j \in Ids \ {i} : rows'[j].live =>
                   /\ j \notin targets[r] /\ rows[j].live /\ rows'[j].user = rows[j].user
                   /\ rows'[j].during = rows[j].during \ {r}
        BY <2>8, CommitLeaves
      <3> SUFFICES ASSUME NEW q \in Requests, pc'[q] = "commit", NEW j \in Ids,
                          rows'[j].live, rows'[j].user = input'[q].name
                   PROVE  j \in targets'[q] \/ q \in rows'[j].during
        BY DEF Revoking
      <3>2. /\ q # r /\ pc[q] = "commit" /\ input'[q] = input[q]
            /\ targets'[q] = targets[q] \ targets[r]
        BY <2>8 DEF CommitSession, Goto, Forget, Typed, TypeOK
      <3>3. CASE j = i
        BY <3>1, <3>2, <3>3 DEF Beside
      <3>4. CASE j # i
        BY <3>1, <3>2, <3>4 DEF Revoking
      <3> QED
        BY <3>3, <3>4
    <2>9. CASE StoreFails(r)
      <3> SUFFICES ASSUME NEW q \in Requests, pc'[q] = "commit", NEW j \in Ids,
                          rows'[j].live, rows'[j].user = input'[q].name
                   PROVE  j \in targets'[q] \/ q \in rows'[j].during
        BY DEF Revoking
      <3>1. q # r /\ pc[q] = "commit" /\ input'[q] = input[q] /\ targets'[q] = targets[q]
        BY <2>9 DEF StoreFails, Goto, Forget, Typed, TypeOK
      <3>2. rows' = Without(r)
        BY <2>9 DEF StoreFails
      <3> QED
        BY <3>1, <3>2, WithoutKeeps DEF Revoking
    <2> QED
      BY <1>1, <1>4, <2>1, <2>2, <2>3, <2>4, <2>5, <2>6, <2>7, <2>8, <2>9 DEF Login
  <1>5. ASSUME NEW r \in Requests, Admin(r) PROVE Revoking'
    <2>1. ASSUME NEW i \in Ids, AdminBegins(r, i) PROVE Revoking'
      BY <2>1, SessionsAlone DEF AdminBegins, Goto, Steps
    <2>2. ASSUME NEW n \in Names,
                 \/ CreateUser(r, n) \/ SetUserActive(r, n) \/ ResetUserPassword(r, n)
                 \/ AssignRoleToUser(r, n) \/ RemoveRoleFromUser(r, n)
          PROVE  Answer(r) /\ UNCHANGED rows
      BY <2>2 DEF CreateUser, SetUserActive, ResetUserPassword, AssignRoleToUser,
                  RemoveRoleFromUser, EditUser
    <2>3. CASE UpsertLDAPSettings(r)
      BY <1>2, <2>3 DEF UpsertLDAPSettings
    <2>4. CASE SyncBegins(r)
      BY <2>4, SessionsAlone DEF SyncBegins, Goto, Steps, LoginSteps
    <2>5. CASE SyncSearch(r)
      <3>1. CASE SyncEnds(r)
        BY <1>2, <2>5, <3>1 DEF SyncSearch, SyncEnds
      <3>2. CASE Goto(r, "apply") /\ UNCHANGED <<input, cfg, provider, targets>>
        BY <2>5, <3>2, SessionsAlone DEF SyncSearch, Goto, Steps, LoginSteps
      <3> QED
        BY <2>5, <3>1, <3>2 DEF SyncSearch
    <2>6. CASE SyncApply(r)
      BY <1>2, <2>6 DEF SyncApply, SyncEnds
    <2> QED
      BY <1>2, <1>5, <2>1, <2>2, <2>3, <2>4, <2>5, <2>6 DEF Admin
  <1>6. ASSUME NEW r \in Requests, ChangePassword(r) PROVE Revoking'
    BY <1>2, <1>6 DEF ChangePassword
  <1>7. ASSUME NEW r \in Requests, NEW i \in Ids, NEW pw \in Passwords, ChangeBegins(r, i, pw)
        PROVE  Revoking'
    BY <1>7, SessionsAlone DEF ChangeBegins, Goto, Steps, Typed, TypeOK
  <1>8. ASSUME NEW i \in Ids, SessionEnds(i) PROVE Revoking'
    <2>1. ~rows'[i].live /\ \A j \in Ids \ {i} : rows'[j] = rows[j]
      BY <1>8 DEF SessionEnds, Ended, Typed, TypeOK
    <2> QED
      BY <1>8, <2>1 DEF SessionEnds, Revoking
  <1>9. CASE DirectoryChanges \/ Tick
    BY <1>1, <1>9 DEF DirectoryChanges, Tick
  <1>10. CASE Restart
    BY <1>10 DEF Restart, SessionsOverlap, Revoking
  <1> QED
    BY <1>1, <1>4, <1>5, <1>6, <1>7, <1>8, <1>9, <1>10 DEF Next

\* A login leaves alive, of its user's sessions, its own and those committed
\* while its transaction was open; every session it could see it ends.
THEOREM Overlap == Spec => SessionsOverlap
  <1>1. Init => Revoking
    BY DEF Init, Revoking, Ended
  <1>2. Typed /\ Revoking /\ [Next]_vars => Revoking'
    BY StepApart
  <1>3. Typed /\ Revoking /\ [Next]_vars =>
          [\A r \in Requests : CommitSession(r) =>
             LET unseen == {i \in LiveOf(input[r].name) : r \in rows[i].during}
                 alive  == {i \in Ids : rows'[i].live /\ rows'[i].user = input[r].name}
             IN  \A i, j \in alive \ unseen : i = j]_vars
    BY CommitApart
  <1> QED
    BY <1>1, <1>2, <1>3, InitTyped, StepTyped, PTL DEF Spec, SessionsOverlap

-------------------------------------------------------------------------------
(* The limiter.  A request that records a failure leaves the tries under   *)
(* way, and one that joins them found fewer than MaxAttempts failures.     *)

\* The tries under way are requests: there are no more of them.
LEMMA TryingFinite ==
  \A k \in Keys : /\ IsFiniteSet(Trying(k)) /\ Cardinality(Trying(k)) \in Nat
                  /\ Cardinality(Trying(k)) <= Cardinality(Requests)
                  /\ Cardinality(Requests) \in Nat
  <1> SUFFICES ASSUME NEW k \in Keys
               PROVE  /\ IsFiniteSet(Trying(k)) /\ Cardinality(Trying(k)) \in Nat
                      /\ Cardinality(Trying(k)) <= Cardinality(Requests)
                      /\ Cardinality(Requests) \in Nat
    OBVIOUS
  <1>1. Trying(k) \in SUBSET Requests
    BY DEF Trying
  <1> QED
    BY <1>1, FS_Subset, FS_CardinalityType, AccountsAssumption

\* The same in the next state, which has the same requests.
LEMMA TryingFiniteNext ==
  \A k \in Keys : /\ IsFiniteSet(Trying(k)') /\ Cardinality(Trying(k)') \in Nat
                  /\ Cardinality(Trying(k)') <= Cardinality(Requests)
  <1> SUFFICES ASSUME NEW k \in Keys
               PROVE  /\ IsFiniteSet(Trying(k)') /\ Cardinality(Trying(k)') \in Nat
                      /\ Cardinality(Trying(k)') <= Cardinality(Requests)
    OBVIOUS
  <1>1. Trying(k)' \in SUBSET Requests
    BY DEF Trying
  <1> QED
    BY <1>1, FS_Subset, FS_CardinalityType, AccountsAssumption

\* A queue has a length.
LEMMA LengthsTyped == Typed => \A k \in Keys : Len(attempts[k]) \in Nat
  BY LenProperties DEF Typed, TypeOK

\* A step that adds no try and records no failure.
LEMMA NothingAdded ==
  ASSUME Typed, Typed', LimiterBound,
         \A k \in Keys : /\ Trying(k)' \subseteq Trying(k)
                         /\ Len(attempts'[k]) <= Len(attempts[k])
  PROVE  LimiterBound'
  <1> SUFFICES ASSUME NEW k \in Keys
               PROVE  Len(attempts'[k]) + Cardinality(Trying(k)')
                        <= MaxAttempts - 1 + Cardinality(Requests)
    BY DEF LimiterBound
  <1>1. Cardinality(Trying(k)') <= Cardinality(Trying(k))
    BY TryingFinite, FS_Subset
  <1>2. Len(attempts[k]) \in Nat
    BY LengthsTyped
  <1>3. Len(attempts'[k]) \in Nat
    BY LengthsTyped DEF Typed, TypeOK
  <1>4. Len(attempts[k]) + Cardinality(Trying(k)) <= MaxAttempts - 1 + Cardinality(Requests)
    BY DEF LimiterBound
  <1> QED
    BY <1>1, <1>2, <1>3, <1>4, TryingFinite, TryingFiniteNext, AccountsAssumption

\* A request that is not at a try goes on to a step that is none, or one that
\* tries goes on with the same name.
LEMMA TryingAlone ==
  ASSUME Typed, NEW r \in Requests, NEW step \in Steps,
         pc' = [pc EXCEPT ![r] = step],
         \A q \in Requests \ {r} : input'[q] = input[q],
         \/ step \notin LoginSteps \ {"commit"}
         \/ pc[r] \in LoginSteps \ {"commit"} /\ input'[r] = input[r]
  PROVE  \A k \in Keys : Trying(k)' \subseteq Trying(k)
  BY DEF Typed, TypeOK, Trying

\* A failure is recorded for a request that tried.
LEMMA FailureBound ==
  ASSUME Typed, Typed', LimiterBound, NEW r \in Requests,
         pc[r] \in LoginSteps \ {"commit"},
         RecordFailure(KeyOf(input[r])), Answer(r)
  PROVE  LimiterBound'
  <1>1. PICK f \in Keys : f = KeyOf(input[r])
    BY DefaultsTyped DEF Typed, TypeOK
  <1>2. /\ Len(attempts'[f]) = Len(attempts[f]) + 1
        /\ \A q \in Keys \ {f} : attempts'[q] = attempts[q]
    BY <1>1, FailureTyped
  <1>3. /\ pc' = [pc EXCEPT ![r] = "idle"]
        /\ \A q \in Requests \ {r} : input'[q] = input[q]
    BY DEF Answer, Goto, Forget, Typed, TypeOK
  <1>4. \A k \in Keys : Trying(k)' \subseteq Trying(k)
    BY <1>3, TryingAlone DEF Steps, LoginSteps
  <1>5. r \in Trying(f) /\ Trying(f)' \subseteq Trying(f) \ {r}
    <2>1. r \in Trying(f)
      BY <1>1 DEF Trying
    <2>2. pc'[r] = "idle"
      BY <1>3 DEF Typed, TypeOK
    <2>3. r \notin Trying(f)'
      BY <2>2 DEF Trying, LoginSteps
    <2> QED
      BY <1>1, <1>4, <2>1, <2>3
  <1>6. Cardinality(Trying(f)') <= Cardinality(Trying(f)) - 1
    <2>1. /\ IsFiniteSet(Trying(f) \ {r})
          /\ Cardinality(Trying(f) \ {r}) = Cardinality(Trying(f)) - 1
      BY <1>1, <1>5, TryingFinite, FS_RemoveElement
    <2> QED
      BY <1>5, <2>1, FS_Subset
  <1> SUFFICES ASSUME NEW k \in Keys
               PROVE  Len(attempts'[k]) + Cardinality(Trying(k)')
                        <= MaxAttempts - 1 + Cardinality(Requests)
    BY DEF LimiterBound
  <1>7. Len(attempts[k]) + Cardinality(Trying(k)) <= MaxAttempts - 1 + Cardinality(Requests)
    BY DEF LimiterBound
  <1>8. Len(attempts[k]) \in Nat
    BY LengthsTyped
  <1>9. Cardinality(Trying(k)') <= Cardinality(Trying(k))
    BY <1>4, TryingFinite, FS_Subset
  <1>10. CASE k = f
    BY <1>2, <1>6, <1>7, <1>8, <1>10, TryingFinite, TryingFiniteNext, AccountsAssumption
  <1>11. CASE k # f
    <2>1. attempts'[k] = attempts[k]
      BY <1>2, <1>11
    <2> QED
      BY <1>7, <1>8, <1>9, <2>1, TryingFinite, TryingFiniteNext, AccountsAssumption
  <1> QED
    BY <1>10, <1>11

\* A provider accepts, or refuses.
LEMMA OutcomeBound ==
  ASSUME Typed, Typed', LimiterBound, NEW r \in Requests,
         pc[r] \in LoginSteps \ {"commit"},
         Accepted(r) \/ Refused(r)
  PROVE  LimiterBound'
  <1>1. CASE Accepted(r)
    <2>1. \A k \in Keys : Trying(k)' \subseteq Trying(k)
      BY <1>1, TryingAlone DEF Accepted, Goto, Steps, LoginSteps
    <2> QED
      BY <1>1, <2>1, NothingAdded, LengthsTyped DEF Accepted
  <1>2. CASE Refused(r) /\ provider[r] = "hybrid"
    <2>1. \A k \in Keys : Trying(k)' \subseteq Trying(k)
      BY <1>2, TryingAlone DEF Refused, Goto, Steps, LoginSteps
    <2> QED
      BY <1>2, <2>1, NothingAdded, LengthsTyped DEF Refused
  <1>3. CASE Refused(r) /\ provider[r] # "hybrid"
    BY <1>3, FailureBound DEF Refused
  <1> QED
    BY <1>1, <1>2, <1>3

\* Every step keeps the bound.
LEMMA StepBound ==
  ASSUME Typed, Typed', LimiterBound, [Next]_vars
  PROVE  LimiterBound'
  <1>1. CASE UNCHANGED <<pc, input, attempts>>
    BY <1>1, NothingAdded, LengthsTyped DEF Trying
  <1>2. ASSUME NEW r \in Requests, NEW step \in Steps \ (LoginSteps \ {"commit"}),
               pc' = [pc EXCEPT ![r] = step], UNCHANGED attempts,
               \A q \in Requests \ {r} : input'[q] = input[q]
        PROVE  LimiterBound'
    <2>1. \A k \in Keys : Trying(k)' \subseteq Trying(k)
      BY <1>2, TryingAlone
    <2> QED
      BY <1>2, <2>1, NothingAdded, LengthsTyped
  <1>3. ASSUME NEW r \in Requests, Answer(r), UNCHANGED attempts
        PROVE  LimiterBound'
    BY <1>2, <1>3 DEF Answer, Goto, Forget, Steps, LoginSteps, Typed, TypeOK
  <1>4. ASSUME NEW r \in Requests, Login(r) PROVE LimiterBound'
    <2>1. ASSUME NEW i \in LoginInputs, RejectBlocked(r, i) PROVE LimiterBound'
      BY <1>1, <2>1 DEF RejectBlocked
    <2>2. ASSUME NEW i \in LoginInputs, ResolveAuthConfig(r, i) PROVE LimiterBound'
      <3> DEFINE f == KeyOf(i)
      <3>1. Len(attempts[f]) < MaxAttempts /\ UNCHANGED attempts /\ f \in Keys
        BY <2>2, DefaultsTyped, LengthsTyped, AccountsAssumption
           DEF ResolveAuthConfig, Blocked, Inputs
      <3>2. \A k \in Keys \ {f} : Trying(k)' \subseteq Trying(k)
        BY <2>2 DEF ResolveAuthConfig, Goto, Trying, Typed, TypeOK
      <3> HIDE DEF f
      <3> SUFFICES ASSUME NEW k \in Keys
                   PROVE  Len(attempts'[k]) + Cardinality(Trying(k)')
                            <= MaxAttempts - 1 + Cardinality(Requests)
        BY DEF LimiterBound
      <3>3. Len(attempts[k]) \in Nat
        BY LengthsTyped
      <3>4. CASE k = f
        BY <3>1, <3>3, <3>4, TryingFinite, TryingFiniteNext, AccountsAssumption
      <3>5. CASE k # f
        <4>1. Cardinality(Trying(k)') <= Cardinality(Trying(k))
          BY <3>2, <3>5, TryingFinite, FS_Subset
        <4>2. Len(attempts[k]) + Cardinality(Trying(k)) <= MaxAttempts - 1 + Cardinality(Requests)
          BY DEF LimiterBound
        <4> QED
          BY <3>1, <3>3, <4>1, <4>2, TryingFinite, TryingFiniteNext, AccountsAssumption
      <3> QED
        BY <3>4, <3>5
    <2>3. CASE LookupProvider(r)
      <3>1. \A k \in Keys : Trying(k)' \subseteq Trying(k)
        BY <2>3, TryingAlone DEF LookupProvider, Goto, Steps, LoginSteps
      <3> QED
        BY <2>3, <3>1, NothingAdded, LengthsTyped DEF LookupProvider
    <2>4. CASE AuthenticateLDAP(r)
      <3>1. CASE Goto(r, "sync") /\ UNCHANGED <<attempts, input, cfg, provider, targets>>
        <4>1. \A k \in Keys : Trying(k)' \subseteq Trying(k)
          BY <2>4, <3>1, TryingAlone DEF AuthenticateLDAP, Goto, Steps, LoginSteps
        <4> QED
          BY <3>1, <4>1, NothingAdded, LengthsTyped
      <3>2. CASE Refused(r)
        BY <2>4, <3>2, OutcomeBound DEF AuthenticateLDAP, LoginSteps
      <3> QED
        BY <2>4, <3>1, <3>2 DEF AuthenticateLDAP
    <2>5. CASE SyncLocalUser(r)
      BY <2>5, OutcomeBound DEF SyncLocalUser, LoginSteps
    <2>6. CASE AuthenticateLocal(r)
      BY <2>6, OutcomeBound DEF AuthenticateLocal, LoginSteps
    <2>7. CASE BeginSession(r)
      <3>1. \A k \in Keys : Trying(k)' \subseteq Trying(k)
        BY <2>7, TryingAlone DEF BeginSession, Goto, Steps, LoginSteps
      <3>2. \A k \in Keys : Len(attempts'[k]) <= Len(attempts[k])
        BY <2>7, LengthsTyped DEF BeginSession, Reset, Typed, TypeOK
      <3> QED
        BY <3>1, <3>2, NothingAdded
    <2>8. CASE CommitSession(r) \/ StoreFails(r)
      BY <1>2, <2>8 DEF CommitSession, StoreFails, Goto, Forget, Steps, LoginSteps, Typed, TypeOK
    <2> QED
      BY <1>4, <2>1, <2>2, <2>3, <2>4, <2>5, <2>6, <2>7, <2>8 DEF Login
  <1>5. ASSUME NEW r \in Requests, Admin(r) PROVE LimiterBound'
    <2>1. ASSUME NEW i \in Ids, AdminBegins(r, i) PROVE LimiterBound'
      BY <1>2, <2>1 DEF AdminBegins, Goto, Steps, LoginSteps
    <2>2. ASSUME NEW n \in Names,
                 \/ CreateUser(r, n) \/ SetUserActive(r, n) \/ ResetUserPassword(r, n)
                 \/ AssignRoleToUser(r, n) \/ RemoveRoleFromUser(r, n)
          PROVE  Answer(r) /\ UNCHANGED attempts
      BY <2>2 DEF CreateUser, SetUserActive, ResetUserPassword, AssignRoleToUser,
                  RemoveRoleFromUser, EditUser
    <2>3. CASE UpsertLDAPSettings(r)
      BY <1>3, <2>3 DEF UpsertLDAPSettings
    <2>4. CASE SyncBegins(r)
      BY <1>2, <2>4 DEF SyncBegins, Goto, Steps, LoginSteps
    <2>5. CASE SyncSearch(r)
      <3>1. CASE SyncEnds(r)
        BY <1>3, <2>5, <3>1 DEF SyncSearch, SyncEnds
      <3>2. CASE Goto(r, "apply") /\ UNCHANGED <<input, cfg, provider, targets>>
        BY <1>2, <2>5, <3>2 DEF SyncSearch, Goto, Steps, LoginSteps
      <3> QED
        BY <2>5, <3>1, <3>2 DEF SyncSearch
    <2>6. CASE SyncApply(r)
      BY <1>3, <2>6 DEF SyncApply, SyncEnds
    <2> QED
      BY <1>3, <1>5, <2>1, <2>2, <2>3, <2>4, <2>5, <2>6 DEF Admin
  <1>6. ASSUME NEW r \in Requests, ChangePassword(r) PROVE LimiterBound'
    BY <1>3, <1>6 DEF ChangePassword
  <1>7. ASSUME NEW r \in Requests, NEW i \in Ids, NEW pw \in Passwords, ChangeBegins(r, i, pw)
        PROVE  LimiterBound'
    BY <1>2, <1>7 DEF ChangeBegins, Goto, Steps, LoginSteps, Typed, TypeOK
  <1>8. CASE (\E i \in Ids : SessionEnds(i)) \/ DirectoryChanges
    BY <1>1, <1>8 DEF SessionEnds, DirectoryChanges
  <1>9. CASE Tick
    <2>1. \A k \in Keys : Trying(k)' \subseteq Trying(k)
      BY <1>9 DEF Tick, Trying
    <2> QED
      BY <1>9, <2>1, TickTyped, NothingAdded
  <1>10. CASE Restart
    <2>1. \A k \in Keys : Trying(k)' \subseteq Trying(k)
      BY <1>10 DEF Restart, Trying, LoginSteps
    <2>2. \A k \in Keys : Len(attempts'[k]) <= Len(attempts[k])
      BY <1>10, LengthsTyped DEF Restart
    <2> QED
      BY <2>1, <2>2, NothingAdded
  <1> QED
    BY <1>1, <1>4, <1>5, <1>6, <1>7, <1>8, <1>9, <1>10 DEF Next

\* However many logins of a name run at once, the failures the limiter has
\* counted within the window and the tries still under way exceed the
\* threshold by the number of other requests at most.
THEOREM Limited == Spec => []LimiterBound
  <1>1. Init => LimiterBound
    <2> SUFFICES ASSUME Init, NEW k \in Keys
                 PROVE  Len(attempts[k]) + Cardinality(Trying(k))
                          <= MaxAttempts - 1 + Cardinality(Requests)
      BY DEF LimiterBound
    <2>1. Len(attempts[k]) = 0
      BY DEF Init
    <2> QED
      BY <2>1, TryingFinite, AccountsAssumption
  <1>2. Typed /\ Typed' /\ LimiterBound /\ [Next]_vars => LimiterBound'
    BY StepBound
  <1> QED
    BY <1>1, <1>2, InitTyped, StepTyped, PTL DEF Spec

-------------------------------------------------------------------------------
(* Local accounts.                                                         *)

\* Every step that changes the row of a local account is one of those listed.
LEMMA StepKept ==
  ASSUME Typed, [Next]_vars, NEW n \in Names
  PROVE  LocalAccountKept(n)
  <1>1. CASE users' = users
    BY <1>1 DEF LocalAccountKept
  <1>2. ASSUME NEW r \in Requests, pc[r] \in {"admin", "change"}, Answer(r)
        PROVE  LocalAccountKept(n)
    BY <1>2 DEF LocalAccountKept, Answer, Goto, Typed, TypeOK
  <1>3. ASSUME NEW r \in Requests, SyncLocalUser(r) PROVE LocalAccountKept(n)
    <2>1. CASE users' = [users EXCEPT ![input[r].name] = SyncedUser(@, cfg[r].mapping)]
      <3>1. CASE n = input[r].name
        <4>1. users[n].exists => users'[n].provider = "ldap" /\ users'[n].active
          BY <2>1, <3>1 DEF Typed, TypeOK, SyncedUser, UserRow
        <4> QED
          BY <1>3, <3>1, <4>1 DEF LocalAccountKept, SyncLocalUser
      <3>2. CASE n # input[r].name
        BY <2>1, <3>2 DEF LocalAccountKept, Typed, TypeOK
      <3> QED
        BY <3>1, <3>2
    <2> QED
      BY <1>1, <1>3, <2>1 DEF SyncLocalUser
  <1>4. ASSUME NEW r \in Requests, Login(r) PROVE LocalAccountKept(n)
    BY <1>1, <1>3, <1>4
       DEF Login, RejectBlocked, ResolveAuthConfig, LookupProvider, AuthenticateLDAP,
           AuthenticateLocal, BeginSession, CommitSession, StoreFails
  <1>5. ASSUME NEW r \in Requests, Admin(r) PROVE LocalAccountKept(n)
    <2>1. CASE SyncApply(r)
      <3>1. CASE users' = [m \in Names |-> SyncedBy(r, m)]
        <4>1. users'[n] = SyncedBy(r, n) /\ users[n] \in UserRow /\ pc[r] = "apply"
          BY <2>1, <3>1 DEF Typed, TypeOK, SyncApply
        <4> QED
          BY <4>1 DEF LocalAccountKept, SyncedBy, UpsertLDAPUserTx, DeactivateMissingLDAPUsersTx,
                      UserRow
      <3> QED
        BY <1>1, <2>1, <3>1 DEF SyncApply
    <2> QED
      BY <1>1, <1>2, <1>5, <2>1
         DEF Admin, AdminBegins, CreateUser, SetUserActive, ResetUserPassword, AssignRoleToUser,
             RemoveRoleFromUser, EditUser, UpsertLDAPSettings, SyncBegins, SyncSearch
  <1>6. ASSUME NEW r \in Requests, ChangePassword(r) PROVE LocalAccountKept(n)
    BY <1>2, <1>6 DEF ChangePassword
  <1>7. ASSUME NEW r \in Requests, NEW i \in Ids, NEW pw \in Passwords, ChangeBegins(r, i, pw)
        PROVE  LocalAccountKept(n)
    BY <1>1, <1>7 DEF ChangeBegins
  <1>8. CASE (\E i \in Ids : SessionEnds(i)) \/ DirectoryChanges \/ Tick
    BY <1>1, <1>8 DEF SessionEnds, DirectoryChanges, Tick
  <1>9. CASE Restart
    BY <1>9 DEF Restart, LocalAccountKept, Typed, TypeOK
  <1> QED
    BY <1>1, <1>4, <1>5, <1>6, <1>7, <1>8, <1>9 DEF Next

\* The row of a local account changes by its own user's or an administrator's
\* request, by a restart, or by becoming an active LDAP account of the entry
\* that the directory presents; a sync never deactivates it.
THEOREM LocalAccounts == Spec => LocalAccountsKept
  <1>1. Typed /\ [Next]_vars => [\A n \in Names : LocalAccountKept(n)]_vars
    BY StepKept
  <1> QED
    BY <1>1, InitTyped, StepTyped, PTL DEF Spec, LocalAccountsKept

===============================================================================
