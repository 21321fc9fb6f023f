------------------------------ MODULE Accounts ------------------------------
(***************************************************************************)
(* The accounts of the panel and their sessions.  A login gives a refresh  *)
(* token; each refresh replaces it by a new one; a logout, a new password  *)
(* or a deactivation revokes.  Requests read what they need before they    *)
(* write and hold no lock in between; updates of accounts and rotations of *)
(* tokens are single transactions that lock the row of the account.        *)
(*                                                                         *)
(* The access token only proves who asks: role and state come from the row *)
(* at each request, so it has no state here.  Names, mails and telephones  *)
(* of an account are left out, and a password is the number of times it    *)
(* was changed.                                                            *)
(***************************************************************************)
EXTENDS Integers, FiniteSets

CONSTANTS
    Users, Tokens, Requests, None,
    FirstSuperadmins,   \* accounts there at the start
    Lifetime,           \* refresh_expire_days
    MaxPasswords,       \* bound: changes of the password of an account
    MaxRequests         \* bound: requests served in all

Roles == {"SUPERADMIN", "ENCARGADO", "OPERADOR"}

ASSUME AccountsConstants ==
    /\ FirstSuperadmins \subseteq Users /\ FirstSuperadmins # {}
    /\ None \notin Users \cup Tokens \cup Requests
    /\ None \notin Roles /\ None \notin BOOLEAN
    /\ Lifetime \in Nat \ {0} /\ MaxPasswords \in Nat /\ MaxRequests \in Nat

VARIABLES
    account,   \* user -> row of users
    token,     \* token -> row of refresh_tokens
    request,   \* request -> what it has read
    served     \* requests so far

vars == <<account, token, request, served>>

-----------------------------------------------------------------------------

AccountRow == [role : Roles \cup {None}, active : BOOLEAN, password : 0 .. MaxPasswords]

NoAccount == [role |-> None, active |-> FALSE, password |-> 0]

NewAccount(role) == [role |-> role, active |-> TRUE, password |-> 0]

TokenRow ==
    [user : Users \cup {None}, left : 0 .. Lifetime, revoked : BOOLEAN,
     session : Tokens \cup {None},     \* history: the token of its login
     password : 0 .. MaxPasswords,     \* history: what the login verified
     late : BOOLEAN]                   \* history: stored after the account changed

NoToken == [user |-> None, left |-> 0, revoked |-> FALSE, session |-> None,
            password |-> 0, late |-> FALSE]

Unused(t) == token[t].user = None

\* RefreshToken.is_valid
IsValid(row) == ~row.revoked /\ row.left > 0

Idle == [pc |-> "idle", actor |-> None, user |-> None, token |-> None, password |-> 0]

RequestState ==
    [pc : {"idle", "issuing", "checking", "rotating", "patching"},
     actor : Users \cup {None}, user : Users \cup {None}, token : Tokens \cup {None},
     password : 0 .. MaxPasswords]

Begin(r, state) ==
    /\ request[r].pc = "idle" /\ served < MaxRequests
    /\ request' = [request EXCEPT ![r] = state]
    /\ served' = served + 1

End(r) == request' = [request EXCEPT ![r] = Idle]

IsSuperadmin(row) == row.role = "SUPERADMIN" /\ row.active

-----------------------------------------------------------------------------
(* Sessions.                                                               *)

\* The password is verified and the account is active; the row is not locked.
Login(r, u) ==
    /\ account[u].role # None /\ account[u].active
    /\ Begin(r, [Idle EXCEPT !.pc = "issuing", !.user = u, !.password = account[u].password])
    /\ UNCHANGED <<account, token>>

IssueSession(r, t) ==
    /\ request[r].pc = "issuing" /\ Unused(t)
    /\ LET u == request[r].user IN
       token' = [token EXCEPT ![t] =
            [user |-> u, left |-> Lifetime, revoked |-> FALSE, session |-> t,
             password |-> request[r].password,
             late |-> ~account[u].active \/ account[u].password # request[r].password]]
    /\ End(r)
    /\ UNCHANGED <<account, served>>

Refresh(r, t) ==
    /\ ~Unused(t) /\ IsValid(token[t])
    /\ Begin(r, [Idle EXCEPT !.pc = "checking", !.user = token[t].user, !.token = t])
    /\ UNCHANGED <<account, token>>

\* The time is taken here, before the lock is waited for: a token that has
\* expired since its look-up will be refused, one that expires later will not.
CheckUser(r) ==
    /\ request[r].pc = "checking"
    /\ IF account[request[r].user].active /\ token[request[r].token].left > 0
       THEN request' = [request EXCEPT ![r].pc = "rotating"]
       ELSE End(r)
    /\ UNCHANGED <<account, token, served>>

\* The rows are read again, with that of the account locked; the time is not.
MayRotate_AsRead(old) == TRUE
MayRotate(old) == account[token[old].user].active /\ ~token[old].revoked

Rotate(r, t) ==
    /\ request[r].pc = "rotating" /\ Unused(t)
    /\ LET old == request[r].token IN
       token' = IF MayRotate(old)
                THEN [token EXCEPT ![old].revoked = TRUE,
                                   ![t] = [token[old] EXCEPT !.left = Lifetime, !.revoked = FALSE]]
                ELSE token
    /\ End(r)
    /\ UNCHANGED <<account, served>>

\* Only its own user revokes a token; to repeat it does nothing.
Logout(u, t) ==
    /\ served < MaxRequests /\ served' = served + 1
    /\ account[u].active /\ token[t].user = u
    /\ token' = [token EXCEPT ![t].revoked = TRUE]
    /\ UNCHANGED <<account, request>>

Aged_PastItsEnd(row) == [row EXCEPT !.left = @ - 1]
Aged(row) == IF row.left > 0 THEN [row EXCEPT !.left = @ - 1] ELSE row

Tick ==
    /\ \E t \in Tokens : token[t].left > 0
    /\ token' = [t \in Tokens |-> Aged(token[t])]
    /\ UNCHANGED <<account, request, served>>

-----------------------------------------------------------------------------
(* Accounts.                                                               *)

CreateUser(a, u, role) ==
    /\ served < MaxRequests /\ served' = served + 1
    /\ IsSuperadmin(account[a]) /\ account[u].role = None
    /\ account' = [account EXCEPT ![u] = NewAccount(role)]
    /\ UNCHANGED <<token, request>>

\* Who asks is looked up once, before the update.
UpdateUser(r, a, u) ==
    /\ IsSuperadmin(account[a]) /\ account[u].role # None
    /\ Begin(r, [Idle EXCEPT !.pc = "patching", !.actor = a, !.user = u])
    /\ UNCHANGED <<account, token>>

\* A patch has only the fields that were given; None for those that were not.
Patches == [role : Roles \cup {None}, active : BOOLEAN \cup {None}, password : BOOLEAN]

\* Nobody deactivates or demotes himself.
IsSelfModification(patch) == patch.active = FALSE \/ patch.role \notin {None, "SUPERADMIN"}

Patched(row, patch) ==
    [role |-> IF patch.role = None THEN row.role ELSE patch.role,
     active |-> IF patch.active = None THEN row.active ELSE patch.active,
     password |-> IF patch.password THEN row.password + 1 ELSE row.password]

Revokes_OnlyPassword(patch) == patch.password
Revokes(patch) == patch.active = FALSE \/ patch.password

\* The last active superadmin stays one.
KeepsSuperadmin_ByActor(u, row) == TRUE
KeepsSuperadmin(u, row) ==
    IsSuperadmin(account[u]) /\ ~IsSuperadmin(row) =>
        \E v \in Users \ {u} : IsSuperadmin(account[v])

ApplyPatch(r, patch) ==
    /\ request[r].pc = "patching"
    /\ request[r].user = request[r].actor => ~IsSelfModification(patch)
    /\ LET u == request[r].user
           row == Patched(account[u], patch)
       IN /\ row.password <= MaxPasswords
          /\ IF KeepsSuperadmin(u, row)
             THEN /\ account' = [account EXCEPT ![u] = row]
                  /\ token' = IF Revokes(patch)
                              THEN [t \in Tokens |->
                                      IF token[t].user = u THEN [token[t] EXCEPT !.revoked = TRUE]
                                                           ELSE token[t]]
                              ELSE token
             ELSE UNCHANGED <<account, token>>
    /\ End(r)
    /\ UNCHANGED served

-----------------------------------------------------------------------------

\* bootstrap_superadmin made the first account.
Init ==
    /\ account = [u \in Users |->
            IF u \in FirstSuperadmins THEN NewAccount("SUPERADMIN") ELSE NoAccount]
    /\ token = [t \in Tokens |-> NoToken]
    /\ request = [r \in Requests |-> Idle]
    /\ served = 0

SessionStep ==
    \/ \E r \in Requests, u \in Users : Login(r, u)
    \/ \E r \in Requests, t \in Tokens : IssueSession(r, t) \/ Refresh(r, t) \/ Rotate(r, t)
    \/ \E r \in Requests : CheckUser(r)
    \/ \E u \in Users, t \in Tokens : Logout(u, t)
    \/ Tick

AccountStep ==
    \/ \E a, u \in Users, role \in Roles : CreateUser(a, u, role)
    \/ \E r \in Requests, a, u \in Users : UpdateUser(r, a, u)
    \/ \E r \in Requests, patch \in Patches : ApplyPatch(r, patch)

Next == SessionStep \/ AccountStep

Spec == Init /\ [][Next]_vars

-----------------------------------------------------------------------------
(* Properties.                                                             *)

\* Rows keep to their columns, and a rotated token keeps its account.
TypeOK ==
    /\ account \in [Users -> AccountRow]
    /\ token \in [Tokens -> TokenRow]
    /\ request \in [Requests -> RequestState]
    /\ served \in 0 .. MaxRequests
    /\ \A t \in Tokens : ~Unused(t) =>
          /\ token[t].session # None
          /\ token[token[t].session].user = token[t].user

\* Some superadmin is always active, even when two of them deactivate or demote
\* each other at the same time.
SuperadminRemains == \E u \in Users : IsSuperadmin(account[u])

\* A token that can still be refreshed belongs to a session of the password the
\* account has now, and to an account that is active: a refresh that overlaps a
\* change leaves nothing behind.  Only a session that a login stored after the
\* change it did not see is excepted.
LiveTokensAreCurrent ==
    \A t \in Tokens : ~Unused(t) /\ ~token[t].revoked /\ ~token[t].late =>
        /\ account[token[t].user].active
        /\ token[t].password = account[token[t].user].password

Rotating(t) == \E r \in Requests : request[r].pc = "rotating" /\ request[r].token = t

\* Not revoked, and of this time or of that of a rotation in progress.
IsLive(t) == ~token[t].revoked /\ (token[t].left > 0 \/ Rotating(t))

Live(s) == {t \in Tokens : token[t].session = s /\ IsLive(t)}

\* From its login on, a session has one token that a refresh can still rotate
\* until it has none, and then it never has one again: however refreshes of the
\* same token, logouts, updates and the end of its days overlap, it neither
\* forks nor comes back.
SessionsEndForGood ==
    [][\A s \in Tokens :
          \/ Live(s)' \subseteq Live(s)
          \/ Unused(s) /\ Live(s)' = {s}
          \/ Cardinality(Live(s)) = 1 /\ Cardinality(Live(s)') = 1]_vars
=============================================================================
