-------------------------- MODULE AuthSessionsProofs --------------------------
(***************************************************************************)
(* Proofs about AuthSessions for any number of requests, tokens, logins    *)
(* and passwords, and for all PATCH bodies.                                *)
(***************************************************************************)
EXTENDS AuthSessions, TLAPS

Known == (Login \cup {None}) \X (Password \cup {None})

\* What a request was asked fits its operation.
RequestsOK ==
    \A r \in Request :
        /\ req[r].op = "update" => req[r].patch \in Patch
        /\ req[r].op = "refresh" => req[r].token \in Token
        /\ req[r].op = "login" => req[r].credentials \in Credentials
        /\ req[r].op = "password" => req[r].credentials[2] \in Password

\* Under the lock, what was read still is so.
LockOK ==
    \A r \in Request : lock = r =>
        /\ user.status = "present"
        /\ req[r].op # "update" => seen[r] = user

\* The rows tk that are stored belong to the account as u says it is, each to a
\* login of its own that was issued before.
TokensGood(tk, u) ==
    \A t \in Token : tk[t].state = "stored" =>
        /\ u.status = "present" /\ tk[t].version = u.version /\ tk[t].knows = u.credentials
        /\ tk[t].family \in Token /\ tk[tk[t].family].state # "unused"
        /\ \A v \in Token : tk[v].state = "stored" /\ tk[v].family = tk[t].family => v = t

\* No access token is newer than the account, and one that is as new was issued
\* for its credentials.
IssuedGood(tokens, u) ==
    /\ u.status = "none" => tokens = {}
    /\ \A a \in tokens : /\ a.version <= u.version
                         /\ a.version = u.version => a.knows = u.credentials

IInv ==
    /\ TypeOK /\ RequestsOK /\ LockOK
    /\ TokensGood(token, user) /\ IssuedGood(issued, user)

-------------------------------------------------------------------------------
\* Lemmas about rows and fields.

\* The values that mean nothing have their types.
LEMMA NullTypes ==
  /\ MaxVersion \in Nat
  /\ NoToken \in TokenRow /\ NoToken.state = "unused"
  /\ Gone \in TokenRow /\ Gone.state = "gone"
  /\ NoUser \in User /\ NoUser.status = "none"
  /\ NoRequest \in Asked /\ NoRequest.op = "none"
<1>1. MaxVersion \in Nat
  BY SessionsAssumption
<1>2. 0 \in 0 .. MaxVersion
  BY <1>1
<1>3. NoToken \in TokenRow /\ NoToken.state = "unused"
  BY <1>2 DEF NoToken, NoCredentials, TokenRow
<1>4. Gone \in TokenRow /\ Gone.state = "gone"
  BY <1>2 DEF Gone, NoToken, NoCredentials, TokenRow
<1>5. NoUser \in User /\ NoUser.status = "none"
  BY <1>2 DEF NoUser, NoCredentials, User
<1>6. NoRequest \in Asked /\ NoRequest.op = "none"
  BY DEF NoRequest, NoCredentials, Asked
<1> QED
  BY <1>1, <1>3, <1>4, <1>5, <1>6

\* The value a field gives, or the one there is.
LEMMA GivenType ==
  ASSUME NEW S, NEW field \in Field(S), NEW current
  PROVE  \/ field = {} /\ Given(field, current) = current
         \/ Given(field, current) \in S
<1>1. CASE field = {}
  BY <1>1 DEF Given
<1>2. CASE field # {}
  <2>1. PICK v \in S : field = {v}
    BY <1>2 DEF Field
  <2>2. Given(field, current) = v
    BY <2>1 DEF Given
  <2> QED
    BY <2>1, <2>2
<1> QED
  BY <1>1, <1>2

\* Fewer tokens of the same account are as good.
LEMMA ShrinkGood ==
  ASSUME NEW tk, NEW tk2, NEW u, NEW u2, TokensGood(tk, u),
         u2.status = u.status, u2.version = u.version, u2.credentials = u.credentials,
         \A t \in Token : tk2[t].state = "stored" =>
            /\ tk[t].state = "stored" /\ tk2[t].family = tk[t].family
            /\ tk2[t].version = tk[t].version /\ tk2[t].knows = tk[t].knows,
         \A t \in Token : tk2[t].state = "unused" => tk[t].state = "unused"
  PROVE  TokensGood(tk2, u2)
BY DEF TokensGood

\* A token that is minted for the account, for a new login or in the place of
\* one that is gone.
LEMMA MintGood ==
  ASSUME NEW tk \in [Token -> TokenRow], NEW u, TokensGood(tk, u), u.status = "present",
         NEW t \in Token, tk[t].state = "unused",
         NEW new, new.state = "stored", new.version = u.version, new.knows = u.credentials,
         NEW family \in Token, new.family = family,
         family = t \/ /\ tk[family].state # "unused"
                       /\ \A v \in Token : tk[v].state = "stored" => tk[v].family # family
  PROVE  TokensGood([tk EXCEPT ![t] = new], u)
<1> DEFINE tk2 == [tk EXCEPT ![t] = new]
<1>1. \A v \in Token : tk2[v] = IF v = t THEN new ELSE tk[v]
  OBVIOUS
<1>2. \A v \in Token : tk[v].state = "stored" => tk[v].family # family
  BY DEF TokensGood
<1>3. ASSUME NEW v \in Token, tk2[v].state = "stored"
      PROVE  /\ tk2[v].version = u.version /\ tk2[v].knows = u.credentials
             /\ tk2[v].family \in Token /\ tk2[tk2[v].family].state # "unused"
  BY <1>1, <1>3 DEF TokensGood
<1>4. ASSUME NEW v \in Token, NEW w \in Token, tk2[v].state = "stored",
             tk2[w].state = "stored", tk2[w].family = tk2[v].family
      PROVE  w = v
  BY <1>1, <1>2, <1>4 DEF TokensGood
<1> QED
  BY <1>3, <1>4 DEF TokensGood

\* After a revocation no token is stored, and the unused ones are.
LEMMA RevokedGood ==
  ASSUME token \in [Token -> TokenRow]
  PROVE  /\ Revoked \in [Token -> TokenRow]
         /\ \A t \in Token : /\ Revoked[t].state # "stored"
                             /\ Revoked[t].state = "unused" => token[t].state = "unused"
                             /\ Stored(t) => Revoked[t].state = "gone"
         /\ \A u : TokensGood(Revoked, u)
<1>1. Gone \in TokenRow /\ Gone.state = "gone"
  BY NullTypes
<1>2. Revoked \in [Token -> TokenRow]
  BY <1>1 DEF Revoked
<1>3. \A t \in Token : Revoked[t].state # "stored"
  BY <1>1 DEF Revoked, Stored
<1>4. \A t \in Token : /\ Revoked[t].state = "unused" => token[t].state = "unused"
                       /\ Stored(t) => Revoked[t].state = "gone"
  BY <1>1 DEF Revoked, Stored
<1> QED
  BY <1>2, <1>3, <1>4 DEF TokensGood

-------------------------------------------------------------------------------
\* The invariant holds at first and is kept.

LEMMA SInit == Init => IInv
<1> SUFFICES ASSUME Init PROVE IInv
  OBVIOUS
<1>1. TypeOK
  BY NullTypes, SessionsAssumption DEF Init, TypeOK
<1>2. RequestsOK
  BY NullTypes DEF Init, RequestsOK
<1>3. LockOK
  BY SessionsAssumption DEF Init, LockOK
<1>4. TokensGood(token, user)
  BY NullTypes DEF Init, TokensGood
<1>5. IssuedGood(issued, user)
  BY DEF Init, IssuedGood
<1> QED
  BY <1>1, <1>2, <1>3, <1>4, <1>5 DEF IInv

\* The step keeps what is about requests when it only begins one.
LEMMA BeginKeeps ==
  ASSUME IInv, NEW r \in Request, NEW asked \in Asked, NEW current \in User,
         Begin(r, asked, current),
         asked.op = "update" => asked.patch \in Patch,
         asked.op = "refresh" => asked.token \in Token,
         asked.op = "login" => asked.credentials \in Credentials,
         asked.op = "password" => asked.credentials[2] \in Password
  PROVE  IInv'
<1>1. TypeOK'
  BY DEF IInv, TypeOK, Begin
<1>2. RequestsOK'
  BY DEF IInv, TypeOK, Begin, RequestsOK
<1>3. LockOK'
  BY DEF IInv, TypeOK, Begin, LockOK
<1>4. TokensGood(token, user)' /\ IssuedGood(issued, user)'
  BY DEF IInv, Begin, TokensGood, IssuedGood
<1> QED
  BY <1>1, <1>2, <1>3, <1>4 DEF IInv

LEMMA BeginOK ==
  ASSUME IInv, NEW r \in Request,
         \/ \E c \in Credentials : BeginLogin(r, c)
         \/ \E password \in Password : BeginChangePassword(r, password)
         \/ \E t \in Token : BeginRefresh(r, t)
         \/ \E p \in Patch : BeginUpdate(r, p)
  PROVE  IInv'
<1>1. ASSUME NEW c \in Credentials, BeginLogin(r, c) PROVE IInv'
  <2> DEFINE asked == [NoRequest EXCEPT !.op = "login", !.credentials = c]
  <2>1. asked \in Asked /\ asked.op = "login" /\ asked.credentials = c
    BY NullTypes DEF Asked, Credentials, NoRequest
  <2> QED
    BY <1>1, <2>1, NullTypes, BeginKeeps DEF BeginLogin
<1>2. ASSUME NEW password \in Password, BeginChangePassword(r, password) PROVE IInv'
  <2> DEFINE asked == [NoRequest EXCEPT !.op = "password", !.credentials = <<None, password>>]
  <2>1. asked \in Asked /\ asked.op = "password" /\ asked.credentials[2] = password
    BY NullTypes DEF Asked, NoRequest
  <2> QED
    BY <1>2, <2>1, NullTypes, BeginKeeps DEF BeginChangePassword
<1>3. ASSUME NEW t \in Token, BeginRefresh(r, t) PROVE IInv'
  <2> DEFINE asked == [NoRequest EXCEPT !.op = "refresh", !.token = t]
  <2>1. asked \in Asked /\ asked.op = "refresh" /\ asked.token = t
    BY NullTypes DEF Asked, NoRequest
  <2> QED
    BY <1>3, <2>1, NullTypes, BeginKeeps DEF BeginRefresh
<1>4. ASSUME NEW p \in Patch, BeginUpdate(r, p) PROVE IInv'
  <2> DEFINE asked == [NoRequest EXCEPT !.op = "update", !.patch = p]
  <2>1. asked \in Asked /\ asked.op = "update" /\ asked.patch = p
    BY NullTypes DEF Asked, NoRequest
  <2>2. user \in User
    BY DEF IInv, TypeOK
  <2> QED
    BY <1>4, <2>1, <2>2, BeginKeeps DEF BeginUpdate
<1> QED
  BY <1>1, <1>2, <1>3, <1>4

\* Tokens that expire or are removed.
LEMMA TokenStepOK ==
  ASSUME IInv, NEW t \in Token, RefreshExpired(t) \/ Logout(t) \/ Expire(t)
  PROVE  IInv'
<1>1. token \in [Token -> TokenRow]
  BY DEF IInv, TypeOK
<1> DEFINE late == [token[t] EXCEPT !.expired = TRUE]
<1>2. PICK new \in {Gone, late} : token' = [token EXCEPT ![t] = new]
  BY <1>1 DEF RefreshExpired, Logout, Expire
<1>3. /\ new \in TokenRow /\ new.state # "unused"
      /\ new.state = "stored" => /\ new.family = token[t].family
                                 /\ new.version = token[t].version
                                 /\ new.knows = token[t].knows
  BY <1>1, NullTypes DEF TokenRow, RefreshExpired, Logout, Expire, Stored
<1>4. UNCHANGED <<user, issued, lock, pc, req, seen>> /\ Stored(t)
  BY DEF RefreshExpired, Logout, Expire
<1>5. TypeOK'
  BY <1>1, <1>2, <1>3, <1>4 DEF IInv, TypeOK
<1>6. RequestsOK' /\ LockOK' /\ IssuedGood(issued, user)'
  BY <1>4 DEF IInv, RequestsOK, LockOK, IssuedGood
<1>7. TokensGood(token', user)
  <2>1. \A v \in Token : token'[v] = IF v = t THEN new ELSE token[v]
    BY <1>1, <1>2
  <2>2. TokensGood(token, user)
    BY DEF IInv
  <2> QED
    BY <1>3, <1>4, <2>1, <2>2, ShrinkGood DEF Stored
<1> QED
  BY <1>4, <1>5, <1>6, <1>7 DEF IInv

\* An account is created before anything refers to it and deleted with its tokens.
LEMMA CreateUserOK ==
  ASSUME IInv, NEW c \in Credentials \cup {NoCredentials}, NEW staff \in BOOLEAN,
         NEW profile \in BOOLEAN, CreateUser(c, staff, profile)
  PROVE  IInv'
<1>1. UNCHANGED <<token, issued, lock, pc, req, seen>> /\ user.status = "none"
  BY DEF CreateUser
<1>2. user' \in User
  BY NullTypes DEF CreateUser, User, Credentials, NoCredentials
<1>3. TypeOK'
  BY <1>1, <1>2 DEF IInv, TypeOK
<1>4. RequestsOK' /\ LockOK'
  BY <1>1 DEF IInv, RequestsOK, LockOK
<1>5. TokensGood(token, user)'
  BY <1>1 DEF IInv, TokensGood
<1>6. IssuedGood(issued, user)'
  BY <1>1 DEF IInv, IssuedGood
<1> QED
  BY <1>3, <1>4, <1>5, <1>6 DEF IInv

LEMMA DeleteUserOK ==
  ASSUME IInv, DeleteUser
  PROVE  IInv'
<1>1. token \in [Token -> TokenRow] /\ user \in User /\ user.status = "present"
  BY DEF IInv, TypeOK, DeleteUser
<1>2. /\ UNCHANGED <<issued, lock, pc, req, seen>> /\ lock = None /\ token' = Revoked
      /\ user' = [user EXCEPT !.status = "deleted"]
  BY DEF DeleteUser
<1>3. /\ user' \in User /\ user'.status = "deleted"
      /\ user'.version = user.version /\ user'.credentials = user.credentials
  BY <1>1, <1>2 DEF User
<1>4. TypeOK'
  BY <1>1, <1>2, <1>3, RevokedGood DEF IInv, TypeOK
<1>5. RequestsOK' /\ LockOK'
  BY <1>2, SessionsAssumption DEF IInv, RequestsOK, LockOK
<1>6. TokensGood(token', user')
  BY <1>1, <1>2, RevokedGood
<1>7. IssuedGood(issued, user)'
  BY <1>2, <1>3 DEF IInv, IssuedGood
<1> QED
  BY <1>4, <1>5, <1>6, <1>7 DEF IInv

\* Only one request has the lock, and what it reads is what there is.
LEMMA LockUserOK ==
  ASSUME IInv, NEW r \in Request, LockUser(r)
  PROVE  IInv'
<1>1. TypeOK'
  BY SessionsAssumption DEF IInv, TypeOK, LockUser
<1>2. RequestsOK'
  BY DEF IInv, LockUser, RequestsOK
<1>3. LockOK'
  BY DEF IInv, TypeOK, LockUser, LockOK
<1>4. TokensGood(token, user)' /\ IssuedGood(issued, user)'
  BY DEF IInv, LockUser, TokensGood, IssuedGood
<1> QED
  BY <1>1, <1>2, <1>3, <1>4 DEF IInv

\* A request that ends leaves the others as they are.
LEMMA EndKeeps ==
  ASSUME IInv, NEW r \in Request,
         lock' = IF lock = r THEN None ELSE lock,
         pc' = [pc EXCEPT ![r] = "idle"],
         req' = [req EXCEPT ![r] = NoRequest],
         seen' = [seen EXCEPT ![r] = NoUser]
  PROVE  /\ pc' \in [Request -> {"idle", "wait", "locked"}]
         /\ req' \in [Request -> Asked] /\ seen' \in [Request -> User]
         /\ lock' \in Request \cup {None}
         /\ \A q \in Request : pc'[q] = "locked" <=> lock' = q
         /\ RequestsOK'
         /\ lock = r => LockOK'
         /\ UNCHANGED user => LockOK'
<1>1. TypeOK /\ RequestsOK /\ LockOK /\ None \notin Request
  BY SessionsAssumption DEF IInv
<1>2. /\ pc' \in [Request -> {"idle", "wait", "locked"}]
      /\ req' \in [Request -> Asked] /\ seen' \in [Request -> User]
      /\ lock' \in Request \cup {None}
      /\ \A q \in Request : pc'[q] = "locked" <=> lock' = q
  BY <1>1, NullTypes DEF TypeOK
<1>3. RequestsOK'
  BY <1>1, NullTypes DEF TypeOK, RequestsOK
<1>4. lock = r => LockOK'
  BY <1>1 DEF LockOK
<1>5. UNCHANGED user => LockOK'
  BY <1>1 DEF TypeOK, LockOK
<1> QED
  BY <1>2, <1>3, <1>4, <1>5

LEMMA FailOK ==
  ASSUME IInv, NEW r \in Request, Fail(r)
  PROVE  IInv'
<1>1. TypeOK' /\ RequestsOK' /\ LockOK'
  BY EndKeeps DEF IInv, TypeOK, Fail
<1>2. TokensGood(token, user)' /\ IssuedGood(issued, user)'
  BY DEF IInv, Fail, TokensGood, IssuedGood
<1> QED
  BY <1>1, <1>2 DEF IInv

\* Commit in the terms of EndKeeps.
LEMMA CommitEnds ==
  ASSUME IInv, NEW r \in Request, NEW op, Commit(r, op)
  PROVE  /\ pc' \in [Request -> {"idle", "wait", "locked"}]
         /\ req' \in [Request -> Asked] /\ seen' \in [Request -> User]
         /\ lock' \in Request \cup {None}
         /\ \A q \in Request : pc'[q] = "locked" <=> lock' = q
         /\ RequestsOK' /\ LockOK'
         /\ lock = r /\ req[r].op = op /\ user.status = "present"
         /\ op # "update" => seen[r] = user
<1>1. lock = r /\ req[r].op = op
  BY DEF IInv, TypeOK, Commit
<1>2. user.status = "present" /\ (op # "update" => seen[r] = user)
  BY <1>1 DEF IInv, LockOK
<1> QED
  BY <1>1, <1>2, EndKeeps DEF Commit

\* A pair that is minted under the lock: what is stored before it is good for
\* the account as it is afterwards.
LEMMA MintOK ==
  ASSUME IInv, NEW r \in Request, NEW op, Commit(r, op),
         NEW tk \in [Token -> TokenRow], NEW t \in Token, NEW family \in Token,
         Mint(tk, t, family, user'.version, user'.credentials),
         user' \in User, user'.status = "present",
         TokensGood(tk, user'), IssuedGood(issued, user'),
         family = t \/ /\ tk[family].state # "unused"
                       /\ \A v \in Token : tk[v].state = "stored" => tk[v].family # family
  PROVE  IInv'
<1> DEFINE new == [state |-> "stored", family |-> family, version |-> user'.version,
                   knows |-> user'.credentials, expired |-> FALSE]
           pair == [version |-> user'.version, knows |-> user'.credentials]
<1>1. tk[t].state = "unused" /\ token' = [tk EXCEPT ![t] = new]
  BY DEF Mint
<1>2. issued' = issued \cup {pair}
  BY DEF Mint
<1>3. /\ user'.version \in 0 .. MaxVersion
      /\ user'.credentials \in (Login \cup {None}) \X (Password \cup {None})
  BY DEF User
<1>4. new \in TokenRow
  BY <1>3 DEF TokenRow
<1>5. TypeOK'
  <2>1. token' \in [Token -> TokenRow]
    BY <1>1, <1>4
  <2>2. issued' \subseteq [version : 0 .. MaxVersion,
                         knows : (Login \cup {None}) \X (Password \cup {None})]
    BY <1>2, <1>3 DEF IInv, TypeOK
  <2> QED
    BY <2>1, <2>2, CommitEnds DEF TypeOK
<1>6. TokensGood(token', user')
  <2>1. /\ new.state = "stored" /\ new.version = user'.version
        /\ new.knows = user'.credentials /\ new.family = family
    OBVIOUS
  <2> QED
    BY <1>1, <2>1, MintGood
<1>7. IssuedGood(issued', user')
  <2>1. user'.version <= user'.version
    BY <1>3, NullTypes
  <2> QED
    BY <1>2, <2>1 DEF IssuedGood
<1> QED
  BY <1>5, <1>6, <1>7, CommitEnds DEF IInv

LEMMA CommitLoginOK ==
  ASSUME IInv, NEW r \in Request, NEW t \in Token, CommitLogin(r, t)
  PROVE  IInv'
<1>1. Commit(r, "login") /\ user' = user
  BY DEF CommitLogin
<1>2. seen[r] = user /\ user.status = "present"
  BY <1>1, CommitEnds
<1>3. Mint(token, t, t, user'.version, user'.credentials)
  BY <1>1, <1>2 DEF CommitLogin
<1>4. token \in [Token -> TokenRow] /\ user \in User
  BY DEF IInv, TypeOK
<1> QED
  BY <1>1, <1>2, <1>3, <1>4, MintOK DEF IInv

\* The exchanged token is the only one of its login, and gone.
LEMMA CommitRefreshOK ==
  ASSUME IInv, NEW r \in Request, NEW t \in Token, CommitRefresh(r, t)
  PROVE  IInv'
<1> DEFINE old == req[r].token
           tk == [token EXCEPT ![old] = Gone]
           family == token[old].family
<1>1. Commit(r, "refresh") /\ user' = user /\ Stored(old)
  BY DEF CommitRefresh
<1>2. seen[r] = user /\ user.status = "present" /\ req[r].op = "refresh"
  BY <1>1, CommitEnds
<1>3. token \in [Token -> TokenRow] /\ user \in User /\ old \in Token
  BY <1>2 DEF IInv, TypeOK, RequestsOK
<1>4. /\ token[old].state = "stored" /\ token[old].version = user.version
      /\ token[old].knows = user.credentials
      /\ family \in Token /\ token[family].state # "unused"
      /\ \A v \in Token : token[v].state = "stored" /\ token[v].family = family => v = old
  BY <1>1, <1>3 DEF IInv, TokensGood, Stored
<1>5. Mint(tk, t, family, user'.version, user'.credentials)
  BY <1>1, <1>2, <1>4 DEF CommitRefresh
<1>6. /\ tk \in [Token -> TokenRow]
      /\ \A v \in Token : tk[v] = IF v = old THEN Gone ELSE token[v]
      /\ Gone.state = "gone"
  BY <1>3, NullTypes
<1>7. TokensGood(tk, user)
  <2>1. TokensGood(token, user)
    BY DEF IInv
  <2> QED
    BY <1>6, <2>1, ShrinkGood
<1>8. /\ tk[family].state # "unused"
      /\ \A v \in Token : tk[v].state = "stored" => tk[v].family # family
  BY <1>4, <1>6
<1> HIDE DEF tk, family, old
<1> QED
  BY <1>1, <1>2, <1>3, <1>4, <1>5, <1>6, <1>7, <1>8, MintOK DEF IInv

\* A higher securityVersion leaves all that was issued before behind.
LEMMA RaisedGood ==
  ASSUME IInv, NEW u \in User, u.version = user.version + 1, u.status = "present"
  PROVE  IssuedGood(issued, u)
<1>1. user.version \in Nat /\ \A a \in issued : a.version \in Nat /\ a.version <= user.version
  BY NullTypes DEF IInv, TypeOK, User, IssuedGood
<1> QED
  BY <1>1 DEF IssuedGood

LEMMA CommitChangePasswordOK ==
  ASSUME IInv, NEW r \in Request, NEW t \in Token, CommitChangePassword(r, t)
  PROVE  IInv'
<1> DEFINE changed == <<user.credentials[1], req[r].credentials[2]>>
<1>1. /\ Commit(r, "password") /\ user.version < MaxVersion
      /\ user' = [user EXCEPT !.credentials = changed, !.version = @ + 1]
      /\ Mint(Revoked, t, t, user.version + 1, changed)
  BY DEF CommitChangePassword
<1>2. user.status = "present" /\ req[r].op = "password"
  BY <1>1, CommitEnds
<1>3. token \in [Token -> TokenRow] /\ user \in User /\ req[r].credentials[2] \in Password
  BY <1>2 DEF IInv, TypeOK, RequestsOK
<1>4. changed \in (Login \cup {None}) \X (Password \cup {None})
  BY <1>3 DEF User
<1>5. user.version + 1 \in 0 .. MaxVersion
  BY <1>1, <1>3, NullTypes DEF User
<1>6. /\ user' \in User /\ user'.version = user.version + 1
      /\ user'.credentials = changed /\ user'.status = "present"
  BY <1>1, <1>2, <1>3, <1>4, <1>5 DEF User
<1>7. /\ Revoked \in [Token -> TokenRow] /\ TokensGood(Revoked, user')
      /\ \A v \in Token : Revoked[v].state # "stored"
  BY <1>3, RevokedGood
<1>8. IssuedGood(issued, user')
  BY <1>6, RaisedGood
<1>9. Mint(Revoked, t, t, user'.version, user'.credentials)
  BY <1>1, <1>6
<1> QED
  BY <1>1, <1>6, <1>7, <1>8, <1>9, MintOK

\* What a PATCH leaves of an account.
LEMMA PatchedType ==
  ASSUME IInv, NEW p \in Patch, NEW changed \in BOOLEAN,
         changed => user.version < MaxVersion
  PROVE  /\ Patched(p, changed) \in User
         /\ Patched(p, changed).status = user.status
         /\ Patched(p, changed).version = IF changed THEN user.version + 1 ELSE user.version
         /\ p.credentials = {} => Patched(p, changed).credentials = user.credentials
         /\ p.roles = {} => /\ Patched(p, changed).staff = user.staff
                            /\ Patched(p, changed).profile = user.profile
<1>1. user \in User
  BY DEF IInv, TypeOK
<1>2. p \in PatchType
  BY SessionsAssumption
<1>3. /\ p.credentials \in Field(Credentials \cup {NoCredentials})
      /\ p.active \in Field(BOOLEAN)
  BY <1>2 DEF PatchType
<1> DEFINE credentials == Given(p.credentials, user.credentials)
           active == Given(p.active, user.active)
           staff == IF p.roles = {} THEN user.staff ELSE \E rs \in p.roles : "STAFF" \in rs
           profile == user.profile \/ \E rs \in p.roles : "TEACHER" \in rs
           version == IF changed THEN user.version + 1 ELSE user.version
<1>4. /\ credentials \in (Login \cup {None}) \X (Password \cup {None})
      /\ p.credentials = {} => credentials = user.credentials
  <2>1. Credentials \cup {NoCredentials} \subseteq (Login \cup {None}) \X (Password \cup {None})
    BY DEF Credentials, NoCredentials
  <2>2. user.credentials \in (Login \cup {None}) \X (Password \cup {None})
    BY <1>1 DEF User
  <2>3. p.credentials = {} => credentials = user.credentials
    BY DEF Given
  <2> QED
    BY <1>3, <2>1, <2>2, <2>3, GivenType
<1>5. active \in BOOLEAN
  BY <1>1, <1>3, GivenType DEF User
<1>6. staff \in BOOLEAN /\ profile \in BOOLEAN
  BY <1>1 DEF User
<1>7. version \in 0 .. MaxVersion
  BY <1>1, NullTypes DEF User
<1>8. p.roles = {} => staff = user.staff /\ profile = user.profile
  BY <1>1 DEF User
<1>9. Patched(p, changed) =
        [user EXCEPT !.credentials = credentials, !.staff = staff, !.profile = profile,
                     !.active = active, !.version = version]
  BY <1>1 DEF Patched, User
<1> HIDE DEF credentials, active, staff, profile, version
<1>10. LET u == [user EXCEPT !.credentials = credentials, !.staff = staff,
                             !.profile = profile, !.active = active, !.version = version]
       IN  /\ u \in User /\ u.status = user.status /\ u.version = version
           /\ u.credentials = credentials /\ u.staff = staff /\ u.profile = profile
  BY <1>1, <1>4, <1>5, <1>6, <1>7 DEF User
<1> QED
  BY <1>4, <1>8, <1>9, <1>10 DEF version

LEMMA CommitUpdateOK ==
  ASSUME IInv, NEW r \in Request, CommitUpdate(r)
  PROVE  IInv'
<1> DEFINE p == req[r].patch
           changed == AccessChanged(p, seen[r])
<1>1. /\ Commit(r, "update") /\ issued' = issued
      /\ changed => user.version < MaxVersion
      /\ user' = Patched(p, changed)
      /\ token' = IF changed THEN Revoked ELSE token
  BY DEF CommitUpdate
<1>2. user.status = "present" /\ req[r].op = "update"
  BY <1>1, CommitEnds
<1>3. token \in [Token -> TokenRow] /\ user \in User /\ p \in Patch /\ seen[r] \in User
  BY <1>2 DEF IInv, TypeOK, RequestsOK
<1>4. changed \in BOOLEAN /\ (~changed => p.credentials = {})
  BY DEF AccessChanged
<1> HIDE DEF p, changed
<1>5. /\ user' \in User /\ user'.status = "present"
      /\ user'.version = IF changed THEN user.version + 1 ELSE user.version
      /\ p.credentials = {} => user'.credentials = user.credentials
  BY <1>1, <1>2, <1>3, <1>4, PatchedType
<1>6. token' \in [Token -> TokenRow]
  BY <1>1, <1>3, RevokedGood
<1>7. TypeOK' /\ RequestsOK' /\ LockOK'
  BY <1>1, <1>5, <1>6, CommitEnds DEF IInv, TypeOK
<1>8. TokensGood(token', user') /\ IssuedGood(issued', user')
  <2>1. CASE changed
    <3>1. user'.version = user.version + 1 /\ token' = Revoked
      BY <1>1, <1>5, <2>1
    <3> QED
      BY <1>1, <1>3, <1>5, <3>1, RevokedGood, RaisedGood
  <2>2. CASE ~changed
    <3>1. /\ token' = token /\ user'.version = user.version
          /\ user'.credentials = user.credentials /\ user'.status = user.status
      BY <1>1, <1>2, <1>4, <1>5, <2>2
    <3> QED
      BY <1>1, <1>2, <3>1 DEF IInv, TokensGood, IssuedGood
  <2> QED
    BY <2>1, <2>2
<1> QED
  BY <1>7, <1>8 DEF IInv

\* Every step keeps the sessions in order.
LEMMA SStep == IInv /\ [Next]_vars => IInv'
<1> SUFFICES ASSUME IInv, [Next]_vars PROVE IInv'
  OBVIOUS
<1>1. CASE UNCHANGED vars
  BY <1>1 DEF vars, IInv, TypeOK, RequestsOK, LockOK, TokensGood, IssuedGood
<1>2. ASSUME NEW r \in Request,
             \/ LockUser(r) \/ Fail(r) \/ CommitUpdate(r)
             \/ \E t \in Token : \/ CommitLogin(r, t) \/ CommitRefresh(r, t)
                                 \/ CommitChangePassword(r, t)
      PROVE  IInv'
  BY <1>2, LockUserOK, FailOK, CommitUpdateOK, CommitLoginOK, CommitRefreshOK,
     CommitChangePasswordOK
<1> QED
  BY <1>1, <1>2, BeginOK, TokenStepOK, CreateUserOK, DeleteUserOK DEF Next

-------------------------------------------------------------------------------
\* The theorems.

\* Whatever requests race, every table keeps its type, and the account's lock is
\* with the request that thinks it has it.
THEOREM SessionsTypeCorrect == Spec => []TypeOK
<1>1. IInv => TypeOK
  BY DEF IInv
<1> QED
  BY <1>1, SInit, SStep, PTL DEF Spec

\* However logins, exchanges, changes of password and PATCHes interleave, who
\* holds a stored refresh token has shown the credentials the account has now
\* (auth.service.ts, users.service.ts update).
THEOREM SessionsAreOfKnownCredentials == Spec => []SessionsKnowCredentials
<1>1. IInv => SessionsKnowCredentials
  BY DEF IInv, TokensGood, SessionsKnowCredentials, Stored
<1> QED
  BY <1>1, SInit, SStep, PTL DEF Spec

\* A stored refresh token carries the present securityVersion of an account that
\* exists: exchanging it beside a change of rights mints nothing older.
THEOREM StoredTokensAreCurrent == Spec => []TokensCurrent
<1>1. IInv => TokensCurrent
  BY DEF IInv, TokensGood, TokensCurrent, Stored
<1> QED
  BY <1>1, SInit, SStep, PTL DEF Spec

\* One login is continued by one refresh token, however often and wherever it is
\* exchanged at once.
THEOREM LoginsHaveOneToken == Spec => []OneTokenPerLogin
<1>1. IInv => OneTokenPerLogin
  BY DEF IInv, TokensGood, OneTokenPerLogin, Stored
<1> QED
  BY <1>1, SInit, SStep, PTL DEF Spec

\* The guard accepts an access token only of someone who knew the credentials the
\* account has now (auth.guard.ts).
THEOREM GuardAdmitsKnownCredentials == Spec => []GuardKnowsCredentials
<1>1. IInv => GuardKnowsCredentials
  BY DEF IInv, IssuedGood, GuardKnowsCredentials, Accepted
<1> QED
  BY <1>1, SInit, SStep, PTL DEF Spec

\* A transaction that changes credentials, staff rights or profiles removes every
\* refresh token that was stored.
THEOREM ChangesEndSessions == Spec => ChangeEndsSessions
<1> DEFINE Rights == user.status = "present" /\ RightsOf(user') # RightsOf(user)
<1>1. ASSUME IInv, [Next]_vars, Rights PROVE \A t \in Token : Stored(t) => ~Stored(t)'
  <2>1. token \in [Token -> TokenRow]
    BY <1>1 DEF IInv, TypeOK
  <2>2. PICK r \in Request : CommitUpdate(r) \/ \E t \in Token : CommitChangePassword(r, t)
    <3>1. ~UNCHANGED user
      BY <1>1
    <3>2. ~DeleteUser
      <4>1. user \in User
        BY <1>1 DEF IInv, TypeOK
      <4> QED
        BY <1>1, <4>1 DEF DeleteUser, RightsOf, User
    <3>3. ~\E c \in Credentials \cup {NoCredentials}, staff, profile \in BOOLEAN :
             CreateUser(c, staff, profile)
      BY <1>1 DEF CreateUser
    <3> QED
      BY <1>1, <3>1, <3>2, <3>3
         DEF Next, vars, RefreshExpired, Logout, Expire, BeginLogin, BeginChangePassword,
             BeginRefresh, BeginUpdate, Begin, LockUser, Fail, CommitLogin, CommitRefresh
  <2>3. CASE CommitUpdate(r)
    <3> DEFINE p == req[r].patch
               changed == AccessChanged(p, seen[r])
    <3>1. /\ Commit(r, "update") /\ user' = Patched(p, changed)
          /\ changed => user.version < MaxVersion
          /\ token' = IF changed THEN Revoked ELSE token
      BY <2>3 DEF CommitUpdate
    <3>2. changed \in BOOLEAN /\ (~changed => p.credentials = {} /\ p.roles = {})
      BY DEF AccessChanged
    <3>3. p \in Patch
      BY <1>1, <3>1, CommitEnds DEF IInv, RequestsOK
    <3> HIDE DEF p, changed
    <3>4. changed
      BY <1>1, <3>1, <3>2, <3>3, PatchedType DEF RightsOf
    <3> QED
      BY <2>1, <3>1, <3>4, RevokedGood DEF Stored
  <2>4. ASSUME NEW t \in Token, CommitChangePassword(r, t)
        PROVE  \A u \in Token : Stored(u) => ~Stored(u)'
    <3>1. /\ Revoked[t].state = "unused"
          /\ \E new : token' = [Revoked EXCEPT ![t] = new]
      BY <2>4 DEF CommitChangePassword, Mint
    <3> QED
      BY <2>1, <3>1, RevokedGood DEF Stored
  <2> QED
    BY <2>2, <2>3, <2>4
<1>2. IInv /\ [Next]_vars => [Rights => \A t \in Token : Stored(t) => ~Stored(t)']_vars
  BY <1>1
<1> QED
  BY <1>2, SInit, SStep, PTL DEF Spec, ChangeEndsSessions

===============================================================================
