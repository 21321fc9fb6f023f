---------------------------- MODULE AccountsProofs ----------------------------
(***************************************************************************)
(* Sessions and superadmins for any number of accounts, tokens and         *)
(* requests: the four properties of Accounts that its run checks.          *)
(***************************************************************************)
EXTENDS Accounts, FiniteSetTheorems, TLAPS

\* The part of TypeOK about columns.
RowsTyped ==
    /\ account \in [Users -> AccountRow]
    /\ token \in [Tokens -> TokenRow]
    /\ request \in [Requests -> RequestState]
    /\ served \in 0 .. MaxRequests

\* A token that was never given is blank; one that was belongs to an account
\* that exists, and so does the first token of its session.
TokensBelong ==
    \A t \in Tokens :
        /\ Unused(t) => token[t] = NoToken
        /\ ~Unused(t) =>
              /\ account[token[t].user].role # None
              /\ token[t].session \in Tokens
              /\ token[token[t].session].user = token[t].user

\* What a request in progress has read is still there.
RequestsRefer ==
    \A r \in Requests :
        /\ request[r].pc \in {"issuing", "patching"} =>
              request[r].user \in Users /\ account[request[r].user].role # None
        /\ request[r].pc \in {"checking", "rotating"} =>
              request[r].token \in Tokens /\ ~Unused(request[r].token)
                /\ token[request[r].token].user = request[r].user

\* A session has at most one token that is not revoked, expired or not.
SessionsDoNotFork ==
    \A t1, t2 \in Tokens :
        /\ ~Unused(t1) /\ ~token[t1].revoked
        /\ ~Unused(t2) /\ ~token[t2].revoked
        /\ token[t1].session = token[t2].session
        => t1 = t2

AccountsInv ==
    /\ RowsTyped /\ TokensBelong /\ RequestsRefer
    /\ SuperadminRemains /\ LiveTokensAreCurrent /\ SessionsDoNotFork

-----------------------------------------------------------------------------

\* The bounds are numbers.
LEMMA Bounds == MaxRequests \in Nat /\ MaxPasswords \in Nat /\ Lifetime \in Nat \ {0}
  BY AccountsConstants

\* The blank rows have their types.
LEMMA BlanksTyped ==
  /\ NoAccount \in AccountRow /\ NoToken \in TokenRow /\ Idle \in RequestState
  /\ \A role \in Roles : NewAccount(role) \in AccountRow
  BY AccountsConstants DEF NoAccount, AccountRow, NoToken, TokenRow, Idle, RequestState, NewAccount

\* The first superadmins have accounts, and nobody is logged in.
LEMMA InitInv == Init => AccountsInv
<1> SUFFICES ASSUME Init PROVE AccountsInv
  OBVIOUS
<1>1. RowsTyped
  BY BlanksTyped, AccountsConstants DEF Init, RowsTyped, Roles
<1>2. \A t \in Tokens : Unused(t) /\ token[t] = NoToken
  BY DEF Init, Unused, NoToken
<1>3. TokensBelong /\ LiveTokensAreCurrent /\ SessionsDoNotFork
  BY <1>2 DEF TokensBelong, LiveTokensAreCurrent, SessionsDoNotFork
<1>4. RequestsRefer
  BY DEF Init, RequestsRefer, Idle
<1>5. SuperadminRemains
  BY AccountsConstants DEF Init, SuperadminRemains, IsSuperadmin, NewAccount
<1> QED BY <1>1, <1>3, <1>4, <1>5 DEF AccountsInv

-----------------------------------------------------------------------------
(* One lemma for each kind of step.                                        *)

\* Steps that touch only one request, whose reads are right.
LEMMA RequestKeepsInv ==
  ASSUME AccountsInv, UNCHANGED <<account, token>>, served' \in 0 .. MaxRequests,
         NEW r \in Requests, NEW state \in RequestState,
         request' = [request EXCEPT ![r] = state],
         state.pc \in {"issuing", "patching"} =>
            state.user \in Users /\ account[state.user].role # None,
         state.pc \in {"checking", "rotating"} =>
            state.token \in Tokens /\ ~Unused(state.token)
              /\ token[state.token].user = state.user
  PROVE  AccountsInv'
<1>1. RowsTyped'
  BY DEF AccountsInv, RowsTyped
<1>2. RequestsRefer'
  BY DEF AccountsInv, RowsTyped, RequestsRefer, Unused
<1>3. TokensBelong' /\ SuperadminRemains' /\ LiveTokensAreCurrent' /\ SessionsDoNotFork'
  BY DEF AccountsInv, TokensBelong, SuperadminRemains, LiveTokensAreCurrent, SessionsDoNotFork,
         Unused, IsSuperadmin
<1> QED BY <1>1, <1>2, <1>3 DEF AccountsInv

\* A request is served only below the bound.
LEMMA BeginCounts ==
  ASSUME served \in 0 .. MaxRequests, served < MaxRequests, served' = served + 1
  PROVE  served' \in 0 .. MaxRequests
  BY Bounds

\* A login, a refresh, or an update that begins.
LEMMA BeginKeepsInv ==
  ASSUME AccountsInv, NEW r \in Requests,
         \/ \E u \in Users : Login(r, u)
         \/ \E t \in Tokens : Refresh(r, t)
         \/ \E a, u \in Users : UpdateUser(r, a, u)
         \/ CheckUser(r)
  PROVE  AccountsInv'
<1>0. /\ served \in 0 .. MaxRequests /\ request \in [Requests -> RequestState]
      /\ account \in [Users -> AccountRow] /\ token \in [Tokens -> TokenRow]
  BY DEF AccountsInv, RowsTyped
<1>1. ASSUME NEW u \in Users, Login(r, u) PROVE AccountsInv'
  <2> DEFINE state == [Idle EXCEPT !.pc = "issuing", !.user = u,
                                   !.password = account[u].password]
  <2>1. state \in RequestState /\ state.pc = "issuing" /\ state.user = u
    BY <1>0, BlanksTyped DEF RequestState, AccountRow
  <2>2. Begin(r, state) /\ UNCHANGED <<account, token>> /\ account[u].role # None
    BY <1>1 DEF Login
  <2>3. request' = [request EXCEPT ![r] = state] /\ served' \in 0 .. MaxRequests
    BY <1>0, <2>2, BeginCounts DEF Begin
  <2> QED BY <2>1, <2>2, <2>3, RequestKeepsInv
<1>2. ASSUME NEW t \in Tokens, Refresh(r, t) PROVE AccountsInv'
  <2> DEFINE state == [Idle EXCEPT !.pc = "checking", !.user = token[t].user, !.token = t]
  <2>1. state \in RequestState /\ state.pc = "checking"
        /\ state.user = token[t].user /\ state.token = t
    BY <1>0, BlanksTyped DEF RequestState, TokenRow
  <2>2. Begin(r, state) /\ UNCHANGED <<account, token>> /\ ~Unused(t)
    BY <1>2 DEF Refresh
  <2>3. request' = [request EXCEPT ![r] = state] /\ served' \in 0 .. MaxRequests
    BY <1>0, <2>2, BeginCounts DEF Begin
  <2> QED BY <2>1, <2>2, <2>3, RequestKeepsInv
<1>3. ASSUME NEW a \in Users, NEW u \in Users, UpdateUser(r, a, u) PROVE AccountsInv'
  <2> DEFINE state == [Idle EXCEPT !.pc = "patching", !.actor = a, !.user = u]
  <2>1. state \in RequestState /\ state.pc = "patching" /\ state.user = u
    BY <1>0, BlanksTyped DEF RequestState
  <2>2. Begin(r, state) /\ UNCHANGED <<account, token>> /\ account[u].role # None
    BY <1>3 DEF UpdateUser
  <2>3. request' = [request EXCEPT ![r] = state] /\ served' \in 0 .. MaxRequests
    BY <1>0, <2>2, BeginCounts DEF Begin
  <2> QED BY <2>1, <2>2, <2>3, RequestKeepsInv
<1>4. CASE CheckUser(r)
  <2>0. UNCHANGED <<account, token>> /\ served' \in 0 .. MaxRequests
    BY <1>0, <1>4 DEF CheckUser
  <2>1. CASE account[request[r].user].active /\ token[request[r].token].left > 0
    <3> DEFINE state == [request[r] EXCEPT !.pc = "rotating"]
    <3>1. /\ state \in RequestState /\ state.pc = "rotating"
          /\ state.token = request[r].token /\ state.user = request[r].user
      BY <1>0 DEF RequestState
    <3>2. request' = [request EXCEPT ![r] = state] /\ request[r].pc = "checking"
      BY <1>0, <1>4, <2>1 DEF CheckUser
    <3>3. /\ state.token \in Tokens /\ ~Unused(state.token)
          /\ token[state.token].user = state.user
      BY <3>1, <3>2 DEF AccountsInv, RequestsRefer
    <3> QED BY <2>0, <3>1, <3>2, <3>3, RequestKeepsInv
  <2>2. CASE ~(account[request[r].user].active /\ token[request[r].token].left > 0)
    <3>1. request' = [request EXCEPT ![r] = Idle] /\ Idle.pc = "idle"
      BY <1>4, <2>2 DEF CheckUser, End, Idle
    <3> QED BY <2>0, <3>1, BlanksTyped, RequestKeepsInv
  <2> QED BY <2>1, <2>2
<1> QED BY <1>1, <1>2, <1>3, <1>4

\* A login is stored: a session of its own, marked when it came too late.
LEMMA IssueKeepsInv ==
  ASSUME AccountsInv, NEW r \in Requests, NEW t \in Tokens, IssueSession(r, t)
  PROVE  AccountsInv'
<1> DEFINE u == request[r].user
           row == [user |-> u, left |-> Lifetime, revoked |-> FALSE, session |-> t,
                   password |-> request[r].password,
                   late |-> ~account[u].active \/ account[u].password # request[r].password]
<1>1. /\ account \in [Users -> AccountRow] /\ token \in [Tokens -> TokenRow]
      /\ request \in [Requests -> RequestState] /\ served \in 0 .. MaxRequests
  BY DEF AccountsInv, RowsTyped
<1>2. /\ u \in Users /\ account[u].role # None /\ u # None
      /\ Unused(t) /\ None \notin Tokens
  BY AccountsConstants DEF AccountsInv, RequestsRefer, IssueSession
<1>3. /\ token' = [token EXCEPT ![t] = row] /\ request' = [request EXCEPT ![r] = Idle]
      /\ UNCHANGED <<account, served>>
  BY DEF IssueSession, End
<1>4. row \in TokenRow
  BY <1>1, <1>2, Bounds DEF TokenRow, RequestState
<1>5. /\ token'[t] = row
      /\ \A v \in Tokens \ {t} : token'[v] = token[v]
  BY <1>1, <1>3
<1>6. RowsTyped'
  BY <1>1, <1>3, <1>4, BlanksTyped DEF RowsTyped
<1>7. \A v \in Tokens : ~Unused(v) => token[v].session # t /\ v # t
  BY <1>2 DEF AccountsInv, TokensBelong, Unused
<1>8. TokensBelong'
  <2> SUFFICES ASSUME NEW v \in Tokens
               PROVE  /\ token'[v].user = None => token'[v] = NoToken
                      /\ token'[v].user # None =>
                            /\ account[token'[v].user].role # None
                            /\ token'[v].session \in Tokens
                            /\ token'[token'[v].session].user = token'[v].user
    BY <1>3 DEF TokensBelong, Unused
  <2>1. CASE v = t
    BY <1>2, <1>5, <2>1
  <2>2. CASE v # t
    <3>1. token'[v] = token[v]
      BY <1>5, <2>2
    <3>2. Unused(v) => token[v] = NoToken
      BY DEF AccountsInv, TokensBelong
    <3>3. ~Unused(v) => /\ account[token[v].user].role # None
                        /\ token[v].session \in Tokens /\ token[v].session # t
                        /\ token[token[v].session].user = token[v].user
      BY <1>7 DEF AccountsInv, TokensBelong
    <3> QED BY <1>5, <3>1, <3>2, <3>3 DEF Unused
  <2> QED BY <2>1, <2>2
<1>9. RequestsRefer'
  BY <1>1, <1>2, <1>3, <1>5 DEF AccountsInv, RequestsRefer, Idle, Unused
<1>10. SuperadminRemains'
  BY <1>3 DEF AccountsInv, SuperadminRemains, IsSuperadmin
<1>11. LiveTokensAreCurrent'
  <2> SUFFICES ASSUME NEW v \in Tokens, token'[v].user # None, ~token'[v].revoked,
                      ~token'[v].late
               PROVE  /\ account[token'[v].user].active
                      /\ token'[v].password = account[token'[v].user].password
    BY <1>3 DEF LiveTokensAreCurrent, Unused
  <2>1. CASE v = t
    <3>1. /\ token'[t].user = u /\ token'[t].password = request[r].password
          /\ token'[t].late = (~account[u].active \/ account[u].password # request[r].password)
      BY <1>5
    <3> HIDE DEF u
    <3> QED BY <2>1, <3>1
  <2>2. CASE v # t
    BY <1>5, <2>2 DEF AccountsInv, LiveTokensAreCurrent, Unused
  <2> QED BY <2>1, <2>2
<1>12. SessionsDoNotFork'
  <2> SUFFICES ASSUME NEW t1 \in Tokens, NEW t2 \in Tokens,
                      token'[t1].user # None, ~token'[t1].revoked,
                      token'[t2].user # None, ~token'[t2].revoked,
                      token'[t1].session = token'[t2].session
               PROVE  t1 = t2
    BY DEF SessionsDoNotFork, Unused
  <2> QED BY <1>5, <1>7 DEF AccountsInv, SessionsDoNotFork, Unused
<1> QED BY <1>6, <1>8, <1>9, <1>10, <1>11, <1>12 DEF AccountsInv

\* A rotation moves the life of a session from one token to another.
LEMMA RotateKeepsInv ==
  ASSUME AccountsInv, NEW r \in Requests, NEW t \in Tokens, Rotate(r, t)
  PROVE  AccountsInv'
<1> DEFINE old == request[r].token
           row == [token[old] EXCEPT !.left = Lifetime, !.revoked = FALSE]
<1>1. /\ account \in [Users -> AccountRow] /\ token \in [Tokens -> TokenRow]
      /\ request \in [Requests -> RequestState] /\ served \in 0 .. MaxRequests
  BY DEF AccountsInv, RowsTyped
<1>2. /\ old \in Tokens /\ ~Unused(old) /\ Unused(t) /\ old # t
      /\ request' = [request EXCEPT ![r] = Idle] /\ UNCHANGED <<account, served>>
  BY DEF AccountsInv, RequestsRefer, Rotate, End
<1>3. CASE ~MayRotate(old)
  <2>1. UNCHANGED token
    BY <1>3 DEF Rotate
  <2> QED BY <1>1, <1>2, <2>1, BlanksTyped, RequestKeepsInv DEF Idle
<1>4. CASE MayRotate(old)
  <2>1. token' = [token EXCEPT ![old].revoked = TRUE, ![t] = row]
    BY <1>4 DEF Rotate
  <2>2. row \in TokenRow /\ [token[old] EXCEPT !.revoked = TRUE] \in TokenRow
    <3>1. token[old] \in TokenRow /\ Lifetime \in 0 .. Lifetime
      BY <1>1, <1>2, Bounds
    <3> QED BY <3>1 DEF TokenRow
  <2>3. /\ token'[t] = row /\ token'[old] = [token[old] EXCEPT !.revoked = TRUE]
        /\ \A v \in Tokens \ {t, old} : token'[v] = token[v]
        /\ token' \in [Tokens -> TokenRow]
    BY <1>1, <1>2, <2>1, <2>2
  <2>4. /\ row.user = token[old].user /\ row.session = token[old].session
        /\ row.password = token[old].password /\ row.late = token[old].late /\ ~row.revoked
        /\ token'[old].user = token[old].user /\ token'[old].session = token[old].session
        /\ token'[old].revoked
    BY <1>1, <1>2, <2>3 DEF TokenRow
  <2>5. account[token[old].user].active /\ ~token[old].revoked
    BY <1>4 DEF MayRotate
  <2>6. RowsTyped'
    BY <1>1, <1>2, <2>3, BlanksTyped DEF RowsTyped
  <2>7. \A v \in Tokens : ~Unused(v) => v # t /\ token[v].session # t
                                        /\ token'[v].user = token[v].user
                                        /\ token'[v].session = token[v].session
    <3> SUFFICES ASSUME NEW v \in Tokens, ~Unused(v)
                 PROVE  v # t /\ token[v].session # t /\ token'[v].user = token[v].user
                        /\ token'[v].session = token[v].session
      OBVIOUS
    <3>1. ~Unused(token[v].session)
      BY DEF AccountsInv, TokensBelong, Unused
    <3>2. v # t /\ token[v].session # t
      BY <1>2, <3>1
    <3>3. token'[v].user = token[v].user /\ token'[v].session = token[v].session
      BY <2>3, <2>4, <3>2
    <3> QED BY <3>2, <3>3
  <2>8. TokensBelong'
    <3> SUFFICES ASSUME NEW v \in Tokens
                 PROVE  /\ token'[v].user = None => token'[v] = NoToken
                        /\ token'[v].user # None =>
                              /\ account[token'[v].user].role # None
                              /\ token'[v].session \in Tokens
                              /\ token'[token'[v].session].user = token'[v].user
      BY <1>2 DEF TokensBelong, Unused
    <3> DEFINE origin == IF v = t THEN old ELSE v
    <3>1. CASE v # t /\ Unused(v)
      BY <1>2, <2>3, <3>1 DEF AccountsInv, TokensBelong, Unused
    <3>2. CASE v = t \/ ~Unused(v)
      <4>1. origin \in Tokens /\ ~Unused(origin) /\ token'[v].user = token[origin].user
            /\ token'[v].session = token[origin].session
        BY <1>2, <2>3, <2>4, <2>7, <3>2
      <4>2. /\ account[token[origin].user].role # None
            /\ token[origin].session \in Tokens
            /\ token[token[origin].session].user = token[origin].user
            /\ ~Unused(token[origin].session)
        BY <4>1 DEF AccountsInv, TokensBelong, Unused
      <4> QED BY <2>7, <4>1, <4>2 DEF Unused
    <3> QED BY <3>1, <3>2
  <2>9. RequestsRefer'
    <3> SUFFICES ASSUME NEW q \in Requests
                 PROVE  /\ request'[q].pc \in {"issuing", "patching"} =>
                             request'[q].user \in Users /\ account[request'[q].user].role # None
                        /\ request'[q].pc \in {"checking", "rotating"} =>
                             /\ request'[q].token \in Tokens
                             /\ token'[request'[q].token].user # None
                             /\ token'[request'[q].token].user = request'[q].user
      BY <1>2 DEF RequestsRefer, Unused
    <3>1. CASE q = r
      BY <1>1, <1>2, <3>1 DEF Idle
    <3>2. CASE q # r
      BY <1>1, <1>2, <2>7, <3>2 DEF AccountsInv, RequestsRefer, Unused
    <3> QED BY <3>1, <3>2
  <2>10. SuperadminRemains'
    BY <1>2 DEF AccountsInv, SuperadminRemains, IsSuperadmin
  <2>11. LiveTokensAreCurrent'
    <3> SUFFICES ASSUME NEW v \in Tokens, token'[v].user # None, ~token'[v].revoked,
                        ~token'[v].late
                 PROVE  /\ account[token'[v].user].active
                        /\ token'[v].password = account[token'[v].user].password
      BY <1>2 DEF LiveTokensAreCurrent, Unused
    <3>1. CASE v = t
      <4>1. token[old].user # None /\ ~token[old].revoked /\ ~token[old].late
        BY <1>2, <2>3, <2>4, <2>5, <3>1 DEF Unused
      <4>2. token[old].password = account[token[old].user].password
        BY <1>2, <4>1 DEF AccountsInv, LiveTokensAreCurrent, Unused
      <4> QED BY <2>3, <2>4, <2>5, <3>1, <4>2
    <3>2. CASE v # t
      <4>1. token'[v] = token[v]
        BY <2>3, <2>4, <3>2
      <4> QED BY <4>1 DEF AccountsInv, LiveTokensAreCurrent, Unused
    <3> QED BY <3>1, <3>2
  <2>12. SessionsDoNotFork'
    <3> SUFFICES ASSUME NEW t1 \in Tokens, NEW t2 \in Tokens,
                        token'[t1].user # None, ~token'[t1].revoked,
                        token'[t2].user # None, ~token'[t2].revoked,
                        token'[t1].session = token'[t2].session
                 PROVE  t1 = t2
      BY DEF SessionsDoNotFork, Unused
    <3>1. t1 # old /\ t2 # old
      BY <2>4
    <3>2. \A v \in Tokens \ {t, old} : token[v].user # None /\ ~token[v].revoked =>
                token[v].session # token[old].session
      BY <1>2, <2>5 DEF AccountsInv, SessionsDoNotFork, Unused
    <3>3. CASE t1 # t /\ t2 # t
      BY <2>3, <3>1, <3>3 DEF AccountsInv, SessionsDoNotFork, Unused
    <3>4. token'[t].session = token[old].session
      BY <2>3, <2>4
    <3> HIDE DEF old, row
    <3>5. CASE t1 = t /\ t2 # t
      BY <2>3, <3>1, <3>2, <3>4, <3>5
    <3>6. CASE t2 = t /\ t1 # t
      BY <2>3, <3>1, <3>2, <3>4, <3>6
    <3> QED BY <3>3, <3>5, <3>6
  <2> QED BY <2>6, <2>8, <2>9, <2>10, <2>11, <2>12 DEF AccountsInv
<1> QED BY <1>3, <1>4

\* Tokens that only lose life, or are revoked, keep what the invariant says.
LEMMA WaneKeepsInv ==
  ASSUME AccountsInv, UNCHANGED <<account, request>>, served' \in 0 .. MaxRequests,
         token' \in [Tokens -> TokenRow],
         \A t \in Tokens :
            /\ token'[t].user = token[t].user /\ token'[t].session = token[t].session
            /\ token'[t].password = token[t].password /\ token'[t].late = token[t].late
            /\ Unused(t) => token'[t] = token[t]
            /\ token[t].revoked => token'[t].revoked
  PROVE  AccountsInv'
<1>1. RowsTyped'
  BY DEF AccountsInv, RowsTyped
<1>2. TokensBelong'
  BY DEF AccountsInv, TokensBelong, Unused
<1>3. RequestsRefer'
  BY DEF AccountsInv, RequestsRefer, Unused
<1>4. SuperadminRemains'
  BY DEF AccountsInv, SuperadminRemains, IsSuperadmin
<1>5. LiveTokensAreCurrent'
  BY DEF AccountsInv, LiveTokensAreCurrent, Unused
<1>6. SessionsDoNotFork'
  <2> SUFFICES ASSUME NEW t1 \in Tokens, NEW t2 \in Tokens,
                      token'[t1].user # None, ~token'[t1].revoked,
                      token'[t2].user # None, ~token'[t2].revoked,
                      token'[t1].session = token'[t2].session
               PROVE  t1 = t2
    BY DEF SessionsDoNotFork, Unused
  <2> QED BY DEF AccountsInv, SessionsDoNotFork, Unused
<1> QED BY <1>1, <1>2, <1>3, <1>4, <1>5, <1>6 DEF AccountsInv

\* A logout revokes one token.
LEMMA LogoutWanes ==
  ASSUME AccountsInv, NEW u \in Users, NEW v \in Tokens, Logout(u, v)
  PROVE  AccountsInv'
<1>1. /\ token \in [Tokens -> TokenRow] /\ served \in 0 .. MaxRequests
      /\ UNCHANGED <<account, request>> /\ ~Unused(v)
      /\ token' = [token EXCEPT ![v].revoked = TRUE]
  BY AccountsConstants DEF AccountsInv, RowsTyped, Logout, Unused
<1>2. served' \in 0 .. MaxRequests
  BY <1>1, BeginCounts DEF Logout
<1>3. /\ token'[v] = [token[v] EXCEPT !.revoked = TRUE]
      /\ \A t \in Tokens \ {v} : token'[t] = token[t]
      /\ token[v] \in TokenRow
  BY <1>1
<1>4. /\ token'[v] \in TokenRow /\ token'[v].revoked
      /\ token'[v].user = token[v].user /\ token'[v].session = token[v].session
      /\ token'[v].password = token[v].password /\ token'[v].late = token[v].late
  BY <1>3 DEF TokenRow
<1>5. token' \in [Tokens -> TokenRow]
  BY <1>1, <1>4
<1>6. ASSUME NEW t \in Tokens
      PROVE  /\ token'[t].user = token[t].user /\ token'[t].session = token[t].session
             /\ token'[t].password = token[t].password /\ token'[t].late = token[t].late
             /\ Unused(t) => token'[t] = token[t]
             /\ token[t].revoked => token'[t].revoked
  <2>1. CASE t = v
    BY <1>1, <1>4, <2>1
  <2>2. CASE t # v
    BY <1>3, <2>2
  <2> QED BY <2>1, <2>2
<1> QED BY <1>1, <1>2, <1>5, <1>6, WaneKeepsInv

\* Time takes a day from every token that has one left.
LEMMA TickWanes == ASSUME AccountsInv, Tick PROVE AccountsInv'
<1>1. /\ token \in [Tokens -> TokenRow] /\ served' \in 0 .. MaxRequests
      /\ UNCHANGED <<account, request>> /\ token' = [t \in Tokens |-> Aged(token[t])]
  BY DEF AccountsInv, RowsTyped, Tick
<1>2. ASSUME NEW row \in TokenRow
      PROVE  /\ Aged(row) \in TokenRow
             /\ Aged(row).user = row.user /\ Aged(row).session = row.session
             /\ Aged(row).password = row.password /\ Aged(row).late = row.late
             /\ row.left = 0 => Aged(row) = row
             /\ Aged(row).revoked = row.revoked
  <2>1. row.left \in 0 .. Lifetime /\ Lifetime \in Nat
    BY Bounds DEF TokenRow
  <2>2. CASE row.left > 0
    <3>1. Aged(row) = [row EXCEPT !.left = row.left - 1]
      BY <2>2 DEF Aged
    <3>2. row.left - 1 \in 0 .. Lifetime
      BY <2>1, <2>2
    <3> QED BY <2>2, <3>1, <3>2 DEF TokenRow
  <2>3. CASE ~(row.left > 0)
    BY <2>3 DEF Aged
  <2> QED BY <2>2, <2>3
<1>3. \A t \in Tokens : Unused(t) => token[t].left = 0
  BY DEF AccountsInv, TokensBelong, NoToken
<1>4. token' \in [Tokens -> TokenRow]
  BY <1>1, <1>2
<1>5. ASSUME NEW t \in Tokens
      PROVE  /\ token'[t].user = token[t].user /\ token'[t].session = token[t].session
             /\ token'[t].password = token[t].password /\ token'[t].late = token[t].late
             /\ Unused(t) => token'[t] = token[t]
             /\ token[t].revoked => token'[t].revoked
  <2>1. token'[t] = Aged(token[t]) /\ token[t] \in TokenRow
    BY <1>1
  <2> QED BY <1>2, <1>3, <2>1
<1> QED BY <1>1, <1>4, <1>5, WaneKeepsInv

-----------------------------------------------------------------------------
(* Accounts.                                                               *)

\* A change of one account: it goes on existing, and the tokens it leaves
\* unrevoked are of its password and of an active account.
AccountChanges(u, row) ==
    /\ row \in AccountRow /\ row.role # None
    /\ account' = [account EXCEPT ![u] = row]
    /\ request' \in [Requests -> RequestState]
    /\ \A r \in Requests : request'[r] = request[r] \/ request'[r] = Idle
    /\ token' \in [Tokens -> TokenRow]
    /\ \A t \in Tokens :
          /\ token[t].user # u => token'[t] = token[t]
          /\ token'[t].user = token[t].user /\ token'[t].session = token[t].session
          /\ token'[t].password = token[t].password /\ token'[t].late = token[t].late
          /\ token[t].revoked => token'[t].revoked
          /\ token[t].user = u /\ ~token'[t].revoked /\ ~token[t].late =>
                ~token[t].revoked /\ row.active /\ row.password = token[t].password
    /\ served' \in 0 .. MaxRequests

\* Such a change keeps the invariant, if a superadmin remains.
LEMMA AccountKeepsInv ==
  ASSUME AccountsInv, NEW u \in Users, NEW row, AccountChanges(u, row), SuperadminRemains'
  PROVE  AccountsInv'
<1> USE DEF AccountChanges
<1>1. /\ account \in [Users -> AccountRow] /\ token \in [Tokens -> TokenRow]
      /\ None \notin Users
  BY AccountsConstants DEF AccountsInv, RowsTyped
<1>2. /\ account'[u] = row /\ \A v \in Users \ {u} : account'[v] = account[v]
      /\ account' \in [Users -> AccountRow]
      /\ \A v \in Users : account[v].role # None => account'[v].role # None
  BY <1>1
<1>3. ASSUME NEW t \in Tokens
      PROVE  /\ token'[t].user = token[t].user /\ token'[t].session = token[t].session
             /\ token'[t].password = token[t].password /\ token'[t].late = token[t].late
             /\ Unused(t) => token'[t] = token[t]
             /\ token[t].revoked => token'[t].revoked
  BY <1>1 DEF Unused
<1>4. RowsTyped'
  BY <1>2 DEF RowsTyped
<1>5. TokensBelong'
  <2> SUFFICES ASSUME NEW t \in Tokens
               PROVE  /\ token'[t].user = None => token'[t] = NoToken
                      /\ token'[t].user # None =>
                            /\ account'[token'[t].user].role # None
                            /\ token'[t].session \in Tokens
                            /\ token'[token'[t].session].user = token'[t].user
    BY DEF TokensBelong, Unused
  <2>1. CASE Unused(t)
    BY <1>3, <2>1 DEF AccountsInv, TokensBelong, Unused
  <2>2. CASE ~Unused(t)
    <3>1. token[t].user \in Users
      BY <1>1, <2>2 DEF TokenRow, Unused
    <3> QED BY <1>2, <1>3, <2>2, <3>1 DEF AccountsInv, TokensBelong, Unused
  <2> QED BY <2>1, <2>2
<1>6. RequestsRefer'
  <2> SUFFICES ASSUME NEW q \in Requests
               PROVE  /\ request'[q].pc \in {"issuing", "patching"} =>
                           request'[q].user \in Users /\ account'[request'[q].user].role # None
                      /\ request'[q].pc \in {"checking", "rotating"} =>
                           /\ request'[q].token \in Tokens
                           /\ token'[request'[q].token].user # None
                           /\ token'[request'[q].token].user = request'[q].user
    BY DEF RequestsRefer, Unused
  <2>1. CASE request'[q] = Idle
    BY <2>1 DEF Idle
  <2>2. CASE request'[q] = request[q]
    BY <1>2, <1>3, <2>2 DEF AccountsInv, RequestsRefer, Unused
  <2> QED BY <2>1, <2>2
<1>7. LiveTokensAreCurrent'
  <2> SUFFICES ASSUME NEW t \in Tokens, token'[t].user # None, ~token'[t].revoked,
                      ~token'[t].late
               PROVE  /\ account'[token'[t].user].active
                      /\ token'[t].password = account'[token'[t].user].password
    BY DEF LiveTokensAreCurrent, Unused
  <2>1. CASE token[t].user = u
    BY <1>2, <1>3, <2>1
  <2>2. CASE token[t].user # u
    <3>1. token[t].user \in Users
      BY <1>1, <1>3 DEF TokenRow
    <3> QED BY <1>2, <1>3, <2>2, <3>1 DEF AccountsInv, LiveTokensAreCurrent, Unused
  <2> QED BY <2>1, <2>2
<1>8. SessionsDoNotFork'
  <2> SUFFICES ASSUME NEW t1 \in Tokens, NEW t2 \in Tokens,
                      token'[t1].user # None, ~token'[t1].revoked,
                      token'[t2].user # None, ~token'[t2].revoked,
                      token'[t1].session = token'[t2].session
               PROVE  t1 = t2
    BY DEF SessionsDoNotFork, Unused
  <2> QED BY <1>3 DEF AccountsInv, SessionsDoNotFork, Unused
<1> QED BY <1>4, <1>5, <1>6, <1>7, <1>8 DEF AccountsInv

\* A new account had no tokens, and was no superadmin.
LEMMA CreateKeepsInv ==
  ASSUME AccountsInv, NEW a \in Users, NEW u \in Users, NEW role \in Roles,
         CreateUser(a, u, role)
  PROVE  AccountsInv'
<1> DEFINE row == NewAccount(role)
<1>1. /\ account \in [Users -> AccountRow] /\ token \in [Tokens -> TokenRow]
      /\ request \in [Requests -> RequestState] /\ served \in 0 .. MaxRequests
      /\ None \notin Users /\ None \notin Roles /\ "SUPERADMIN" \in Roles
  BY AccountsConstants DEF AccountsInv, RowsTyped, Roles
<1>2. /\ account' = [account EXCEPT ![u] = row] /\ UNCHANGED <<token, request>>
      /\ IsSuperadmin(account[a]) /\ account[u].role = None
  BY DEF CreateUser
<1>3. served' \in 0 .. MaxRequests
  BY <1>1, BeginCounts DEF CreateUser
<1>4. row \in AccountRow /\ row.role # None
  BY <1>1, BlanksTyped DEF NewAccount
<1>5. \A t \in Tokens : token[t].user # u
  BY <1>1, <1>2 DEF AccountsInv, TokensBelong, Unused
<1>6. SuperadminRemains'
  <2>1. a # u
    BY <1>1, <1>2 DEF IsSuperadmin
  <2>2. account'[a] = account[a]
    BY <1>1, <1>2, <2>1
  <2> QED BY <1>2, <2>2 DEF SuperadminRemains, IsSuperadmin
<1>7. AccountChanges(u, row)
  BY <1>1, <1>2, <1>3, <1>4, <1>5 DEF AccountChanges
<1> QED BY <1>6, <1>7, AccountKeepsInv

\* An update keeps a superadmin, and revokes what it makes out of date.
LEMMA PatchKeepsInv ==
  ASSUME AccountsInv, NEW r \in Requests, NEW patch \in Patches, ApplyPatch(r, patch)
  PROVE  AccountsInv'
<1> DEFINE u == request[r].user
           row == Patched(account[u], patch)
<1>1. /\ account \in [Users -> AccountRow] /\ token \in [Tokens -> TokenRow]
      /\ request \in [Requests -> RequestState] /\ served' \in 0 .. MaxRequests
      /\ None \notin Users /\ None \notin BOOLEAN
  BY AccountsConstants DEF AccountsInv, RowsTyped, ApplyPatch
<1>2. /\ u \in Users /\ account[u].role # None
      /\ request' = [request EXCEPT ![r] = Idle]
      /\ row.password <= MaxPasswords
  BY DEF AccountsInv, RequestsRefer, ApplyPatch, End
<1>3. CASE ~KeepsSuperadmin(u, row)
  <2>1. UNCHANGED <<account, token>>
    BY <1>3 DEF ApplyPatch
  <2> QED BY <1>1, <1>2, <2>1, BlanksTyped, RequestKeepsInv DEF Idle
<1>4. CASE KeepsSuperadmin(u, row)
  <2>11. account' = [account EXCEPT ![u] = row]
    BY <1>4 DEF ApplyPatch
  <2>1. token' = IF Revokes(patch)
                 THEN [t \in Tokens |-> IF token[t].user = u
                                        THEN [token[t] EXCEPT !.revoked = TRUE]
                                        ELSE token[t]]
                 ELSE token
    BY <1>4 DEF ApplyPatch
  <2>2. /\ patch.role \in Roles \cup {None} /\ patch.active \in BOOLEAN \cup {None}
        /\ patch.password \in BOOLEAN
        /\ account[u] \in AccountRow
    BY <1>1, <1>2 DEF Patches
  <2>3. row \in AccountRow /\ row.role # None
    <3>1. account[u].password \in Nat /\ row.password \in 0 .. MaxPasswords
      BY <1>2, <2>2, Bounds DEF Patched, AccountRow
    <3>2. row.role \in Roles \cup {None} /\ row.role # None /\ row.active \in BOOLEAN
      BY <1>2, <2>2 DEF Patched, AccountRow
    <3> QED BY <3>1, <3>2 DEF Patched, AccountRow
  <2>4. ~Revokes(patch) => /\ account[u].active => row.active
                           /\ row.password = account[u].password
    BY <2>2 DEF Revokes, Patched
  <2>5. ASSUME NEW t \in Tokens
        PROVE  /\ token'[t] = token[t] \/ token'[t] = [token[t] EXCEPT !.revoked = TRUE]
               /\ token[t].user # u => token'[t] = token[t]
               /\ token[t].user = u /\ Revokes(patch) => token'[t].revoked
               /\ ~Revokes(patch) => token'[t] = token[t]
               /\ token'[t] \in TokenRow
    <3>1. token[t] \in TokenRow
      BY <1>1
    <3>2. [token[t] EXCEPT !.revoked = TRUE] \in TokenRow
          /\ [token[t] EXCEPT !.revoked = TRUE].revoked
      BY <3>1 DEF TokenRow
    <3> HIDE DEF u
    <3> QED BY <2>1, <3>1, <3>2
  <2>6. token' \in [Tokens -> TokenRow]
    <3>1. CASE Revokes(patch)
      BY <2>1, <2>5, <3>1
    <3>2. CASE ~Revokes(patch)
      BY <1>1, <2>1, <3>2
    <3> QED BY <3>1, <3>2
  <2>7. SuperadminRemains'
    <3>1. PICK v \in Users : IsSuperadmin(account[v])
      BY DEF AccountsInv, SuperadminRemains
    <3>2. account'[u] = row /\ \A w \in Users \ {u} : account'[w] = account[w]
      BY <1>1, <1>2, <2>11
    <3>3. \E w \in Users : IsSuperadmin(account'[w])
      <4> HIDE DEF u, row
      <4> QED BY <1>2, <1>4, <3>1, <3>2 DEF KeepsSuperadmin
    <3> QED BY <3>3 DEF SuperadminRemains, IsSuperadmin
  <2>8. \A t \in Tokens : token[t].user = u /\ ~token'[t].revoked /\ ~token[t].late =>
              ~token[t].revoked /\ row.active /\ row.password = token[t].password
    <3> SUFFICES ASSUME NEW t \in Tokens, token[t].user = u, ~token'[t].revoked, ~token[t].late
                 PROVE  ~token[t].revoked /\ row.active /\ row.password = token[t].password
      OBVIOUS
    <3>1. ~Revokes(patch) /\ ~token[t].revoked
      BY <2>5
    <3>2. account[u].active /\ token[t].password = account[u].password
      BY <1>1, <1>2, <3>1 DEF AccountsInv, LiveTokensAreCurrent, Unused
    <3> QED BY <2>4, <3>1, <3>2
  <2>9. /\ request' \in [Requests -> RequestState]
        /\ \A q \in Requests : request'[q] = request[q] \/ request'[q] = Idle
    BY <1>1, <1>2, BlanksTyped
  <2>10. ASSUME NEW t \in Tokens
         PROVE  /\ token[t].user # u => token'[t] = token[t]
                /\ token'[t].user = token[t].user /\ token'[t].session = token[t].session
                /\ token'[t].password = token[t].password /\ token'[t].late = token[t].late
                /\ token[t].revoked => token'[t].revoked
                /\ token[t].user = u /\ ~token'[t].revoked /\ ~token[t].late =>
                      ~token[t].revoked /\ row.active /\ row.password = token[t].password
    <3>1. token[t] \in TokenRow
      BY <1>1
    <3>2. token'[t] = token[t] \/ token'[t] = [token[t] EXCEPT !.revoked = TRUE]
      BY <2>5
    <3>3. /\ token'[t].user = token[t].user /\ token'[t].session = token[t].session
          /\ token'[t].password = token[t].password /\ token'[t].late = token[t].late
          /\ token[t].revoked => token'[t].revoked
      BY <3>1, <3>2 DEF TokenRow
    <3> QED BY <2>5, <2>8, <3>3
  <2> HIDE DEF u, row
  <2>12. AccountChanges(u, row)
    BY <1>1, <2>3, <2>6, <2>9, <2>10, <2>11 DEF AccountChanges
  <2> QED BY <1>2, <2>7, <2>12, AccountKeepsInv
<1> QED BY <1>3, <1>4

-----------------------------------------------------------------------------
(* The invariant, and what follows from it.                                *)

\* Every step keeps the invariant.
LEMMA NextKeepsInv == ASSUME AccountsInv, [Next]_vars PROVE AccountsInv'
<1>1. ASSUME NEW r \in Requests, NEW u \in Users, Login(r, u) PROVE AccountsInv'
  BY <1>1, BeginKeepsInv
<1>2. ASSUME NEW r \in Requests, NEW t \in Tokens, IssueSession(r, t) PROVE AccountsInv'
  BY <1>2, IssueKeepsInv
<1>3. ASSUME NEW r \in Requests, NEW t \in Tokens, Refresh(r, t) PROVE AccountsInv'
  BY <1>3, BeginKeepsInv
<1>4. ASSUME NEW r \in Requests, NEW t \in Tokens, Rotate(r, t) PROVE AccountsInv'
  BY <1>4, RotateKeepsInv
<1>5. ASSUME NEW r \in Requests, CheckUser(r) PROVE AccountsInv'
  BY <1>5, BeginKeepsInv
<1>6. ASSUME NEW u \in Users, NEW t \in Tokens, Logout(u, t) PROVE AccountsInv'
  BY <1>6, LogoutWanes
<1>7. CASE Tick
  BY <1>7, TickWanes
<1>8. ASSUME NEW a \in Users, NEW u \in Users, NEW role \in Roles, CreateUser(a, u, role)
      PROVE  AccountsInv'
  BY <1>8, CreateKeepsInv
<1>9. ASSUME NEW r \in Requests, NEW a \in Users, NEW u \in Users, UpdateUser(r, a, u)
      PROVE  AccountsInv'
  BY <1>9, BeginKeepsInv
<1>10. ASSUME NEW r \in Requests, NEW patch \in Patches, ApplyPatch(r, patch) PROVE AccountsInv'
  BY <1>10, PatchKeepsInv
<1>11. CASE UNCHANGED vars
  BY <1>11 DEF vars, AccountsInv, RowsTyped, TokensBelong, RequestsRefer, SuperadminRemains,
               LiveTokensAreCurrent, SessionsDoNotFork, Unused, IsSuperadmin
<1> QED
  BY <1>1, <1>2, <1>3, <1>4, <1>5, <1>6, <1>7, <1>8, <1>9, <1>10, <1>11
  DEF Next, SessionStep, AccountStep

\* The invariant holds in every state.
LEMMA InvHolds == Spec => []AccountsInv
  BY InitInv, NextKeepsInv, PTL DEF Spec

\* Rows keep to their columns, and a rotated token keeps its account.
THEOREM TypeCorrect == Spec => []TypeOK
<1>1. AccountsInv => TypeOK
  BY AccountsConstants DEF AccountsInv, RowsTyped, TokensBelong, TypeOK, Unused
<1> QED BY <1>1, InvHolds, PTL

\* UserAdminService never leaves the panel without an active superadmin, however
\* its updates interleave.
THEOREM SomeSuperadminRemains == Spec => []SuperadminRemains
<1>1. AccountsInv => SuperadminRemains
  BY DEF AccountsInv
<1> QED BY <1>1, InvHolds, PTL

\* A token that can be refreshed is of the password and the state that the
\* account has now, but for a login that overlapped the change.
THEOREM RefreshTokensAreCurrent == Spec => []LiveTokensAreCurrent
<1>1. AccountsInv => LiveTokensAreCurrent
  BY DEF AccountsInv
<1> QED BY <1>1, InvHolds, PTL

\* What a step may do to a session without reviving it: no token comes back or
\* changes session, and only what has days left begins to be rotated.
Wanes(t) ==
    /\ token'[t].session = token[t].session
    /\ token[t].revoked => token'[t].revoked
    /\ token'[t].left > 0 => token[t].left > 0
    /\ Rotating(t)' => Rotating(t) \/ token[t].left > 0

\* Where every token wanes, every session does.
LEMMA WaningEndsSessions ==
  ASSUME \A t \in Tokens : Wanes(t)
  PROVE  \A s \in Tokens : Live(s)' \subseteq Live(s)
  BY DEF Wanes, Live, IsLive

\* A step that leaves the requests alone, or clears one, begins no rotation.
LEMMA NoRotationBegins ==
  ASSUME AccountsInv,
         request' = request \/ \E r \in Requests : request' = [request EXCEPT ![r] = Idle]
  PROVE  \A t : Rotating(t)' => Rotating(t)
<1>1. \A q \in Requests : request'[q] = request[q] \/ request'[q] = Idle
  BY DEF AccountsInv, RowsTyped
<1> QED BY <1>1 DEF Rotating, Idle

\* A revocation, by a request that ends or by none.
LEMMA RevokingWanes ==
  ASSUME AccountsInv,
         request' = request \/ \E r \in Requests : request' = [request EXCEPT ![r] = Idle],
         \A t \in Tokens : token'[t] = token[t] \/ token'[t] = [token[t] EXCEPT !.revoked = TRUE]
  PROVE  \A t \in Tokens : Wanes(t)
<1>1. token \in [Tokens -> TokenRow]
  BY DEF AccountsInv, RowsTyped
<1>2. \A row \in TokenRow :
        LET gone == [row EXCEPT !.revoked = TRUE]
        IN gone.session = row.session /\ gone.revoked /\ gone.left = row.left
  BY DEF TokenRow
<1>3. \A t \in Tokens : Rotating(t)' => Rotating(t)
  BY NoRotationBegins
<1>4. ASSUME NEW t \in Tokens
      PROVE  /\ token'[t].session = token[t].session
             /\ token[t].revoked => token'[t].revoked
             /\ token'[t].left = token[t].left
  <2>1. token[t] \in TokenRow
    BY <1>1
  <2>2. CASE token'[t] = token[t]
    BY <2>2
  <2>3. CASE token'[t] = [token[t] EXCEPT !.revoked = TRUE]
    BY <1>2, <2>1, <2>3
  <2> QED BY <2>2, <2>3
<1> QED BY <1>3, <1>4 DEF Wanes

\* Requests that only read leave the tokens as they are.
LEMMA ReadersWane ==
  ASSUME AccountsInv, NEW r \in Requests,
         \/ \E u \in Users : Login(r, u)
         \/ \E t \in Tokens : Refresh(r, t)
         \/ \E a, u \in Users : UpdateUser(r, a, u)
         \/ CheckUser(r)
  PROVE  \A t \in Tokens : Wanes(t)
<1>0. UNCHANGED token /\ request \in [Requests -> RequestState]
  BY DEF AccountsInv, RowsTyped, Login, Refresh, UpdateUser, CheckUser
<1>1. ASSUME NEW q \in Requests
      PROVE  \/ request'[q] = request[q]
             \/ request'[q].pc # "rotating"
             \/ request'[q].token = request[q].token /\ token[request[q].token].left > 0
  <2>1. CASE q # r
    BY <1>0, <2>1 DEF Login, Refresh, UpdateUser, CheckUser, Begin, End
  <2>2. CASE q = r /\ CheckUser(r)
    <3>1. \/ request' = [request EXCEPT ![r] = Idle]
          \/ /\ request' = [request EXCEPT ![r].pc = "rotating"]
             /\ token[request[r].token].left > 0
      BY <2>2 DEF CheckUser, End
    <3> QED BY <1>0, <2>2, <3>1 DEF Idle, RequestState
  <2>3. ASSUME q = r, NEW u \in Users, Login(r, u) PROVE request'[q].pc # "rotating"
    BY <1>0, <2>3 DEF Login, Begin, Idle
  <2>4. ASSUME q = r, NEW t \in Tokens, Refresh(r, t) PROVE request'[q].pc # "rotating"
    BY <1>0, <2>4 DEF Refresh, Begin, Idle
  <2>5. ASSUME q = r, NEW a \in Users, NEW u \in Users, UpdateUser(r, a, u)
        PROVE  request'[q].pc # "rotating"
    BY <1>0, <2>5 DEF UpdateUser, Begin, Idle
  <2> QED BY <2>1, <2>2, <2>3, <2>4, <2>5
<1> QED BY <1>0, <1>1 DEF Wanes, Rotating

\* Each step ends, begins or continues a session, and never forks or revives it.
LEMMA SessionSteps ==
  ASSUME AccountsInv, [Next]_vars, NEW s \in Tokens
  PROVE  \/ Live(s)' \subseteq Live(s)
         \/ Unused(s) /\ Live(s)' = {s}
         \/ Cardinality(Live(s)) = 1 /\ Cardinality(Live(s)') = 1
<1>0. token \in [Tokens -> TokenRow] /\ Lifetime \in Nat \ {0}
  BY Bounds DEF AccountsInv, RowsTyped
<1>1. CASE UNCHANGED <<token, request>>
  BY <1>1, WaningEndsSessions DEF Wanes, Rotating
<1>2. ASSUME NEW r \in Requests, NEW t \in Tokens, IssueSession(r, t)
      PROVE  Live(s)' \subseteq Live(s) \/ (Unused(s) /\ Live(s)' = {s})
  <2>1. /\ Unused(t) /\ token'[t].session = t /\ ~token'[t].revoked /\ token'[t].left > 0
        /\ \A v \in Tokens \ {t} : token'[v] = token[v]
    BY <1>0, <1>2 DEF IssueSession
  <2>2. \A v \in Tokens : token[v].session # t
    BY <2>1, AccountsConstants DEF AccountsInv, TokensBelong, Unused, NoToken
  <2>3. \A v \in Tokens : Rotating(v)' => Rotating(v)
    BY <1>2, NoRotationBegins DEF IssueSession, End
  <2>4. CASE s = t
    BY <2>1, <2>2, <2>4 DEF Live, IsLive
  <2>5. CASE s # t
    BY <2>1, <2>3, <2>5 DEF Live, IsLive
  <2> QED BY <2>4, <2>5
<1>3. ASSUME NEW r \in Requests, NEW t \in Tokens, Rotate(r, t)
      PROVE  \/ Live(s)' \subseteq Live(s)
             \/ Cardinality(Live(s)) = 1 /\ Cardinality(Live(s)') = 1
  <2> DEFINE old == request[r].token
  <2>1. old \in Tokens /\ ~Unused(old) /\ Unused(t) /\ old # t
    BY <1>3 DEF AccountsInv, RequestsRefer, Rotate
  <2>2. \A v \in Tokens : Rotating(v)' => Rotating(v)
    BY <1>3, NoRotationBegins DEF Rotate, End
  <2>3. CASE ~MayRotate(old)
    <3>1. UNCHANGED token
      BY <1>3, <2>3 DEF Rotate
    <3> QED BY <2>2, <3>1, WaningEndsSessions DEF Wanes
  <2>4. CASE MayRotate(old)
    <3>1. token' = [token EXCEPT ![old].revoked = TRUE,
                        ![t] = [token[old] EXCEPT !.left = Lifetime, !.revoked = FALSE]]
      BY <1>3, <2>4 DEF Rotate
    <3>2. /\ token'[t] = [token[old] EXCEPT !.left = Lifetime, !.revoked = FALSE]
          /\ token'[old] = [token[old] EXCEPT !.revoked = TRUE]
          /\ \A v \in Tokens \ {t, old} : token'[v] = token[v]
          /\ token[old] \in TokenRow
      BY <1>0, <2>1, <3>1
    <3>3. /\ token'[t].session = token[old].session
          /\ ~token'[t].revoked /\ token'[t].left > 0
          /\ token'[old].revoked /\ ~token[old].revoked
      BY <1>0, <2>1, <2>4, <3>2 DEF TokenRow, MayRotate
    <3>4. Rotating(old)
      BY <1>3 DEF Rotate, Rotating
    <3>5. \A v \in Tokens : token[v].session = token[old].session /\ ~token[v].revoked
                                => v = old
      <4>1. token[old].session # None
        BY <2>1, AccountsConstants DEF AccountsInv, TokensBelong
      <4>2. \A v \in Tokens : Unused(v) => token[v].session = None
        BY DEF AccountsInv, TokensBelong, NoToken
      <4> QED BY <2>1, <3>3, <4>1, <4>2 DEF AccountsInv, SessionsDoNotFork
    <3> HIDE DEF old
    <3>6. CASE s = token[old].session
      <4>1. Live(s) = {old}
        BY <2>1, <3>3, <3>4, <3>5, <3>6 DEF Live, IsLive
      <4>2. ASSUME NEW v \in Tokens, ~token'[v].revoked, token'[v].session = s PROVE v = t
        <5>1. v # old
          BY <3>3, <4>2
        <5>2. CASE v # t
          BY <3>2, <3>5, <3>6, <4>2, <5>1, <5>2
        <5> QED BY <5>2
      <4>3. Live(s)' = {t}
        BY <3>3, <3>6, <4>2 DEF Live, IsLive
      <4> QED BY <4>1, <4>3, FS_Singleton
    <3>7. CASE s # token[old].session
      BY <2>1, <2>2, <3>2, <3>3, <3>7 DEF Live, IsLive
    <3> QED BY <3>6, <3>7
  <2> QED BY <2>3, <2>4
<1>4. ASSUME NEW u \in Users, NEW v \in Tokens, Logout(u, v) PROVE Live(s)' \subseteq Live(s)
  <2>1. token' = [token EXCEPT ![v].revoked = TRUE] /\ UNCHANGED request
    BY <1>4 DEF Logout
  <2>2. \A t \in Tokens : token'[t] = token[t] \/ token'[t] = [token[t] EXCEPT !.revoked = TRUE]
    BY <1>0, <2>1
  <2> QED BY <1>0, <2>1, <2>2, RevokingWanes, WaningEndsSessions
<1>5. CASE Tick
  <2>1. (\A t \in Tokens : token'[t] = Aged(token[t]) /\ token[t] \in TokenRow)
        /\ UNCHANGED request
    BY <1>0, <1>5 DEF Tick
  <2>2. ASSUME NEW row \in TokenRow
        PROVE  /\ Aged(row).session = row.session /\ Aged(row).revoked = row.revoked
               /\ Aged(row).left > 0 => row.left > 0
    <3>1. row.left > 0 => Aged(row) = [row EXCEPT !.left = row.left - 1]
      BY DEF Aged
    <3>2. ~(row.left > 0) => Aged(row) = row
      BY DEF Aged
    <3> QED BY <3>1, <3>2 DEF TokenRow
  <2>3. \A t \in Tokens : Rotating(t)' => Rotating(t)
    BY <2>1 DEF Rotating
  <2>4. \A t \in Tokens : Wanes(t)
    BY <2>1, <2>2, <2>3 DEF Wanes
  <2> QED BY <2>4, WaningEndsSessions
<1>6. ASSUME NEW r \in Requests, NEW patch \in Patches, ApplyPatch(r, patch)
      PROVE  Live(s)' \subseteq Live(s)
  <2>1. /\ \/ UNCHANGED token
           \/ token' = [t \in Tokens |-> IF token[t].user = request[r].user
                                         THEN [token[t] EXCEPT !.revoked = TRUE] ELSE token[t]]
        /\ request' = [request EXCEPT ![r] = Idle]
    BY <1>6 DEF ApplyPatch, End
  <2>2. \A t \in Tokens : token'[t] = token[t] \/ token'[t] = [token[t] EXCEPT !.revoked = TRUE]
    BY <1>0, <2>1
  <2> QED BY <1>0, <2>1, <2>2, RevokingWanes, WaningEndsSessions
<1>7. ASSUME NEW r \in Requests,
             \/ \E u \in Users : Login(r, u)
             \/ \E t \in Tokens : Refresh(r, t)
             \/ \E a, u \in Users : UpdateUser(r, a, u)
             \/ CheckUser(r)
      PROVE  Live(s)' \subseteq Live(s)
  BY <1>7, ReadersWane, WaningEndsSessions
<1>8. \/ UNCHANGED <<token, request>>
      \/ \E r \in Requests, t \in Tokens : IssueSession(r, t) \/ Rotate(r, t)
      \/ \E u \in Users, t \in Tokens : Logout(u, t)
      \/ Tick
      \/ \E r \in Requests, patch \in Patches : ApplyPatch(r, patch)
      \/ \E r \in Requests : \/ \E u \in Users : Login(r, u)
                             \/ \E t \in Tokens : Refresh(r, t)
                             \/ \E a, u \in Users : UpdateUser(r, a, u)
                             \/ CheckUser(r)
  BY DEF Next, SessionStep, AccountStep, CreateUser, vars
<1> QED BY <1>1, <1>2, <1>3, <1>4, <1>5, <1>6, <1>7, <1>8

\* RefreshSession and the revocations: a session has one token that can be
\* refreshed until it has none, and then it never has one again.
THEOREM EndedSessionsStayEnded == Spec => SessionsEndForGood
<1>1. AccountsInv /\ [Next]_vars =>
        [\A s \in Tokens :
            \/ Live(s)' \subseteq Live(s)
            \/ Unused(s) /\ Live(s)' = {s}
            \/ Cardinality(Live(s)) = 1 /\ Cardinality(Live(s)') = 1]_vars
  BY SessionSteps
<1> QED BY <1>1, InvHolds, PTL DEF Spec, SessionsEndForGood
=============================================================================
