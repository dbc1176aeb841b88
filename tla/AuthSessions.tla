----------------------------- MODULE AuthSessions -----------------------------
(***************************************************************************)
(* The sessions of one account (auth.service.ts), the guard of every       *)
(* request (auth.guard.ts) and the account service that changes who may    *)
(* log in (users.service.ts).  Accounts share nothing but the uniqueness   *)
(* of logins, whose violation is one of the ways a transaction fails.      *)
(*                                                                         *)
(* A request first reads outside its transaction, then takes the account's *)
(* row lock and reads the row again, then commits: three steps.  What it   *)
(* read last is kept in seen.  PATCH of an account is different: it reads  *)
(* without a lock and takes the lock by its UPDATE.                        *)
(*                                                                         *)
(* Staff roles are one right, staff; profile says that the account is a    *)
(* teacher's or a student's, which it stays.  The signature and life time  *)
(* of an access token are left out: issued keeps every access token for    *)
(* ever.  The Telegram half of PATCH and DELETE is in TelegramBinding.     *)
(***************************************************************************)
EXTENDS Integers

CONSTANTS
    Request,        \* requests in flight, on all replicas
    Token,          \* refresh tokens that may be issued
    Login,          \* login names
    Password,       \* passwords, as their hashes tell them apart
    Patch,          \* the PATCH bodies administrators send
    MaxVersion,     \* bound on securityVersion
    None

\* assertCredentialPair: a login and a password, or neither.
Credentials == Login \X Password
NoCredentials == <<None, None>>

\* A field of a PATCH is the set of the values it gives: none or one.
Field(S) == {{}} \cup {{v} : v \in S}
Given(field, current) == IF field = {} THEN current ELSE CHOOSE v \in field : TRUE

PatchType ==
    [credentials : Field(Credentials \cup {NoCredentials}),
     roles : Field(SUBSET {"STAFF", "TEACHER"}),
     active : Field(BOOLEAN)]

ASSUME SessionsAssumption ==
    /\ MaxVersion \in Nat
    /\ Patch \subseteq PatchType
    /\ None \notin Login \cup Password \cup Request

VARIABLES
    user,       \* the account's row and its profiles
    token,      \* refresh_tokens, with what they were issued for
    issued,     \* access tokens handed out: [version, knows]
    lock,       \* the request that holds the row's lock
    pc,         \* what each request does next
    req,        \* what each request was asked
    seen        \* the row as each request last read it

vars == <<user, token, issued, lock, pc, req, seen>>

NoUser == [status |-> "none", active |-> FALSE, staff |-> FALSE, profile |-> FALSE,
           credentials |-> NoCredentials, version |-> 0]
NoToken == [state |-> "unused", family |-> None, version |-> 0, knows |-> NoCredentials,
            expired |-> FALSE]
Gone == [NoToken EXCEPT !.state = "gone"]
NoRequest == [op |-> "none", credentials |-> NoCredentials, token |-> None, patch |-> None]

\* resolveRoles(user).length > 0
HasRoles(u) == u.staff \/ u.profile

MayEnter(u) == u.status = "present" /\ u.active /\ HasRoles(u)

Stored(t) == token[t].state = "stored"

Init ==
    /\ user = NoUser
    /\ token = [t \in Token |-> NoToken]
    /\ issued = {}
    /\ lock = None
    /\ pc = [r \in Request |-> "idle"]
    /\ req = [r \in Request |-> NoRequest]
    /\ seen = [r \in Request |-> NoUser]

-------------------------------------------------------------------------------
\* Accounts.

\* A teacher, a student who may have no login, or a member of staff.
CreateUser(credentials, staff, profile) ==
    /\ user.status = "none"
    /\ staff \/ profile
    /\ credentials = NoCredentials => profile /\ ~staff
    /\ user' = [status |-> "present", active |-> TRUE, staff |-> staff,
                profile |-> profile, credentials |-> credentials, version |-> 0]
    /\ UNCHANGED <<token, issued, lock, pc, req, seen>>

\* The tokens go with the account.
Revoked == [t \in Token |-> IF Stored(t) THEN Gone ELSE token[t]]

DeleteUser ==
    /\ user.status = "present"
    /\ lock = None
    /\ user' = [user EXCEPT !.status = "deleted"]
    /\ token' = Revoked
    /\ UNCHANGED <<issued, lock, pc, req, seen>>

-------------------------------------------------------------------------------
\* A request begins, reading what it needs before its transaction.

Begin(r, asked, current) ==
    /\ pc[r] = "idle"
    /\ pc' = [pc EXCEPT ![r] = "wait"]
    /\ req' = [req EXCEPT ![r] = asked]
    /\ seen' = [seen EXCEPT ![r] = current]
    /\ UNCHANGED <<user, token, issued, lock>>

\* The password is compared before the transaction.
BeginLogin(r, c) ==
    /\ user.status = "present" /\ user.active /\ user.credentials = c
    /\ Begin(r, [NoRequest EXCEPT !.op = "login", !.credentials = c], NoUser)

BeginRefresh(r, t) ==
    /\ Stored(t) /\ ~token[t].expired
    /\ Begin(r, [NoRequest EXCEPT !.op = "refresh", !.token = t], NoUser)

\* Faulty variant of Accepted: the token's securityVersion is not compared.
AcceptedUntilExpiry(a) == MayEnter(user)

\* canActivate: the right to send a request that is not public.
Accepted(a) == MayEnter(user) /\ a.version = user.version

BeginChangePassword(r, password) ==
    /\ \E a \in issued : Accepted(a)
    /\ Begin(r, [NoRequest EXCEPT !.op = "password",
                                  !.credentials = <<None, password>>], NoUser)

BeginUpdate(r, p) ==
    /\ user.status = "present"
    /\ Begin(r, [NoRequest EXCEPT !.op = "update", !.patch = p], user)

\* A refresh with an expired token removes it.
RefreshExpired(t) ==
    /\ Stored(t) /\ token[t].expired
    /\ token' = [token EXCEPT ![t] = Gone]
    /\ UNCHANGED <<user, issued, lock, pc, req, seen>>

\* Takes no lock on the account.
Logout(t) ==
    /\ Stored(t)
    /\ token' = [token EXCEPT ![t] = Gone]
    /\ UNCHANGED <<user, issued, lock, pc, req, seen>>

Expire(t) ==
    /\ Stored(t) /\ ~token[t].expired
    /\ token' = [token EXCEPT ![t].expired = TRUE]
    /\ UNCHANGED <<user, issued, lock, pc, req, seen>>

-------------------------------------------------------------------------------
\* The transaction.

\* Faulty variant of LockUser: SELECT without FOR UPDATE.
LockUserWithoutLock(r) ==
    /\ pc[r] = "wait"
    /\ user.status = "present"
    /\ pc' = [pc EXCEPT ![r] = "locked"]
    /\ seen' = IF req[r].op = "update" THEN seen ELSE [seen EXCEPT ![r] = user]
    /\ UNCHANGED <<user, token, issued, lock, req>>

\* lockUser and the read after it; the UPDATE of a PATCH, which reads nothing.
LockUser(r) ==
    /\ pc[r] = "wait"
    /\ lock = None
    /\ user.status = "present"
    /\ lock' = r
    /\ pc' = [pc EXCEPT ![r] = "locked"]
    /\ seen' = IF req[r].op = "update" THEN seen ELSE [seen EXCEPT ![r] = user]
    /\ UNCHANGED <<user, token, issued, req>>

\* 401 or 404, an error of the database or of minting: the transaction rolls back.
Fail(r) ==
    /\ pc[r] # "idle"
    /\ lock' = IF lock = r THEN None ELSE lock
    /\ pc' = [pc EXCEPT ![r] = "idle"]
    /\ req' = [req EXCEPT ![r] = NoRequest]
    /\ seen' = [seen EXCEPT ![r] = NoUser]
    /\ UNCHANGED <<user, token, issued>>

\* The end of a request whose transaction holds the lock.
Commit(r, op) ==
    /\ pc[r] = "locked"
    /\ req[r].op = op
    /\ lock' = None
    /\ pc' = [pc EXCEPT ![r] = "idle"]
    /\ req' = [req EXCEPT ![r] = NoRequest]
    /\ seen' = [seen EXCEPT ![r] = NoUser]

\* generateTokens, over the refresh tokens as the transaction left them.
Mint(tokens, t, family, version, knows) ==
    /\ tokens[t].state = "unused"
    /\ token' = [tokens EXCEPT ![t] = [state |-> "stored", family |-> family,
                       version |-> version, knows |-> knows, expired |-> FALSE]]
    /\ issued' = issued \cup {[version |-> version, knows |-> knows]}

\* Faulty variant of CommitLogin: what was compared before the transaction is
\* not compared again under the lock.
CommitLoginUnchecked(r, t) ==
    /\ Commit(r, "login")
    /\ MayEnter(seen[r])
    /\ Mint(token, t, t, seen[r].version, req[r].credentials)
    /\ user' = user

CommitLogin(r, t) ==
    /\ Commit(r, "login")
    /\ MayEnter(seen[r])
    /\ seen[r].credentials = req[r].credentials
    /\ Mint(token, t, t, seen[r].version, req[r].credentials)
    /\ user' = user

\* Faulty variant of CommitRefresh: the number of tokens deleted is not looked at.
CommitRefreshAgain(r, t) ==
    LET old == req[r].token
    IN  /\ Commit(r, "refresh")
        /\ MayEnter(seen[r])
        /\ ~token[old].expired
        /\ Mint([token EXCEPT ![old] = Gone],
                t, token[old].family, seen[r].version, token[old].knows)
        /\ user' = user

\* The token is consumed by its deletion, which must find it.
CommitRefresh(r, t) ==
    LET old == req[r].token
    IN  /\ Commit(r, "refresh")
        /\ MayEnter(seen[r])
        /\ Stored(old) /\ ~token[old].expired
        /\ Mint([token EXCEPT ![old] = Gone],
                t, token[old].family, seen[r].version, token[old].knows)
        /\ user' = user

\* Faulty variant of CommitChangePassword: the new pair carries the
\* securityVersion that was read before it was raised.
CommitChangePasswordOldVersion(r, t) ==
    /\ Commit(r, "password")
    /\ MayEnter(seen[r])
    /\ user.version < MaxVersion
    /\ LET changed == <<user.credentials[1], req[r].credentials[2]>>
       IN  /\ user' = [user EXCEPT !.credentials = changed, !.version = @ + 1]
           /\ Mint(Revoked, t, t, seen[r].version, changed)

CommitChangePassword(r, t) ==
    /\ Commit(r, "password")
    /\ MayEnter(seen[r])
    /\ user.version < MaxVersion
    /\ LET changed == <<user.credentials[1], req[r].credentials[2]>>
       IN  /\ user' = [user EXCEPT !.credentials = changed, !.version = @ + 1]
           /\ Mint(Revoked, t, t, user.version + 1, changed)

\* Faulty variant of AccessChanged: roles are not counted.
AccessChangedByCredentials(p, current) ==
    p.credentials # {} \/ Given(p.active, current.active) # current.active

\* A PATCH counts as a change of access by what it read before the lock.
AccessChanged(p, current) ==
    \/ p.credentials # {}
    \/ p.roles # {}
    \/ Given(p.active, current.active) # current.active

Patched(p, changed) ==
    [user EXCEPT
        !.credentials = Given(p.credentials, @),
        !.staff = IF p.roles = {} THEN @ ELSE \E rs \in p.roles : "STAFF" \in rs,
        !.profile = @ \/ \E rs \in p.roles : "TEACHER" \in rs,
        !.active = Given(p.active, @),
        !.version = IF changed THEN @ + 1 ELSE @]

CommitUpdate(r) ==
    LET changed == AccessChanged(req[r].patch, seen[r])
    IN  /\ Commit(r, "update")
        /\ changed => user.version < MaxVersion
        /\ user' = Patched(req[r].patch, changed)
        /\ token' = IF changed THEN Revoked ELSE token
        /\ issued' = issued

-------------------------------------------------------------------------------
Next ==
    \/ \E c \in Credentials \cup {NoCredentials}, staff, profile \in BOOLEAN :
         CreateUser(c, staff, profile)
    \/ DeleteUser
    \/ \E t \in Token : RefreshExpired(t) \/ Logout(t) \/ Expire(t)
    \/ \E r \in Request :
         \/ \E c \in Credentials : BeginLogin(r, c)
         \/ \E password \in Password : BeginChangePassword(r, password)
         \/ \E t \in Token : BeginRefresh(r, t)
         \/ \E p \in Patch : BeginUpdate(r, p)
         \/ LockUser(r)
         \/ Fail(r)
         \/ \E t \in Token : \/ CommitLogin(r, t)
                             \/ CommitRefresh(r, t)
                             \/ CommitChangePassword(r, t)
         \/ CommitUpdate(r)

Spec == Init /\ [][Next]_vars

-------------------------------------------------------------------------------
\* Properties.

User == [status : {"none", "present", "deleted"}, active : BOOLEAN, staff : BOOLEAN,
         profile : BOOLEAN,
         credentials : (Login \cup {None}) \X (Password \cup {None}),
         version : 0 .. MaxVersion]

TokenRow == [state : {"unused", "stored", "gone"}, family : Token \cup {None},
             version : 0 .. MaxVersion,
             knows : (Login \cup {None}) \X (Password \cup {None}),
             expired : BOOLEAN]

Asked == [op : {"none", "login", "refresh", "password", "update"},
          credentials : (Login \cup {None}) \X (Password \cup {None}),
          token : Token \cup {None}, patch : Patch \cup {None}]

\* Every variable has its type; a request that holds the lock knows it.
TypeOK ==
    /\ user \in User
    /\ token \in [Token -> TokenRow]
    /\ issued \subseteq [version : 0 .. MaxVersion,
                        knows : (Login \cup {None}) \X (Password \cup {None})]
    /\ lock \in Request \cup {None}
    /\ pc \in [Request -> {"idle", "wait", "locked"}]
    /\ req \in [Request -> Asked]
    /\ seen \in [Request -> User]
    /\ \A r \in Request : pc[r] = "locked" <=> lock = r

\* Whoever holds a refresh token that is still stored has shown, at the login
\* or the change of password it descends from, the login and the password the
\* account has now: no login, exchange or PATCH, however interleaved, leaves
\* behind a session of credentials that were replaced (AuthService.login,
\* refresh, changePassword, UsersService.update).
SessionsKnowCredentials ==
    \A t \in Token : Stored(t) => token[t].knows = user.credentials

\* An exchange mints its pair for the rights the account has at the commit: a
\* stored token was issued under the present securityVersion of an existing
\* account (AuthService.refresh against UsersService.update and delete).
TokensCurrent ==
    \A t \in Token : Stored(t) =>
        user.status = "present" /\ token[t].version = user.version

\* A login is continued by one token at a time: two exchanges of one token,
\* on two replicas, do not both succeed (AuthService.refresh).
OneTokenPerLogin ==
    \A t, u \in Token :
        Stored(t) /\ Stored(u) /\ token[t].family = token[u].family => t = u

\* What the guard lets through was issued to someone who knew the credentials
\* the account has now (JwtAuthGuard.canActivate).
GuardKnowsCredentials ==
    \A a \in issued : Accepted(a) => a.knows = user.credentials

\* When the credentials, the staff rights or the profiles of an account
\* change, the refresh tokens stored until then go in the same transaction
\* (UsersService.update, AuthService.changePassword).
RightsOf(u) == <<u.credentials, u.staff, u.profile>>

ChangeEndsSessions ==
    [][user.status = "present" /\ RightsOf(user') # RightsOf(user)
         => \A t \in Token : Stored(t) => ~Stored(t)']_vars

\* An inactive account has no refresh token: deactivation revokes the sessions
\* in its own transaction.
InactiveHasNoSession == ~user.active => \A t \in Token : ~Stored(t)

===============================================================================
