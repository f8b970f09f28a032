------------------------------ MODULE Sessions ------------------------------
(***************************************************************************)
(* Login, renewal of access tokens and authorized requests (api/user.go,   *)
(* api/token.go and their gapi counterparts), with the clock on which the  *)
(* tokens expire, the sessions table, and what an operator changes by SQL: *)
(* the role of a user and the is_blocked flag of a session.                *)
(*                                                                         *)
(* A token cannot be forged (PASETO), so the tokens that exist are those   *)
(* that CreateToken has made, and a client has those it was answered with. *)
(***************************************************************************)
EXTENDS Naturals

CONSTANTS
  Logins,           \* calls of loginUser; also the ids of their sessions
  Renewals,         \* calls of renewAccessToken
  Updates,          \* calls of UpdateUser that set a password
  Users, Passwords,
  AccessDuration,   \* ACCESS_TOKEN_DURATION and REFRESH_TOKEN_DURATION, in
  RefreshDuration,  \* ticks of the clock
  MaxTime,          \* the clock stops here
  NoSession, NoArg

VARIABLES
  now,
  users,     \* the rows of table users: their password and role
  sessions,  \* the rows of table sessions, by login
  tokens,    \* the tokens that clients have been given
  pc,        \* the step of each call
  arg,       \* its arguments
  read,      \* what it has read or made so far
  reply      \* its answer

vars == <<now, users, sessions, tokens, pc, arg, read, reply>>

ASSUME Durations == /\ AccessDuration \in Nat /\ RefreshDuration \in Nat
                    /\ MaxTime \in Nat
ASSUME CallsAreDistinct == /\ Logins \cap Renewals = {}
                           /\ (Logins \cup Renewals) \cap Updates = {}

Calls == Logins \cup Renewals \cup Updates
Roles == {"depositor", "banker"}
Never == MaxTime + 1

(* The payload of a token, made now.  The ID of a refresh token is its       *)
(* session's; in an access token login is history, as are read, the time of  *)
(* the query behind the token, and delay, the time since the session's expiry*)
(* was checked for it.                                                       *)
Token(type, login, user, role, at, delay, duration) ==
  [type |-> type, login |-> login, user |-> user, role |-> role,
   read |-> at, delay |-> delay, expires |-> now + duration]

(* Mutant: the type of the token is not looked at.                           *)
ValidOfAnyType(token, type) == now <= token.expires

(* VerifyToken of one of the two types.  At its expiry it is still valid.    *)
Valid(token, type) == token.type = type /\ now <= token.expires

Running(x, step) == pc[x] = step /\ reply[x] = "none"
GoTo(x, step) == pc' = [pc EXCEPT ![x] = step]
Answer(x, answer) == reply' = [reply EXCEPT ![x] = answer]

-----------------------------------------------------------------------------

(* A user signs up as depositor; the bankers are made by SQL.                *)
Init ==
  /\ now = 0
  /\ users \in [Users -> [password: Passwords, role: {"depositor"}]]
  /\ sessions = [l \in Logins |-> NoSession]
  /\ tokens = {}
  /\ pc = [x \in Calls |-> "idle"]
  /\ arg = [x \in Calls |-> NoArg]
  /\ read = [x \in Calls |-> NoArg]
  /\ reply = [x \in Calls |-> "none"]

Tick == /\ now < MaxTime
        /\ now' = now + 1
        /\ UNCHANGED <<users, sessions, tokens, pc, arg, read, reply>>

Start(x, args) ==
  /\ pc[x] = "idle"
  /\ \E a \in args : arg' = [arg EXCEPT ![x] = a]
  /\ GoTo(x, "start")
  /\ UNCHANGED <<now, users, sessions, tokens, read, reply>>

(* A client may present any of the tokens it has, of either type.            *)
StartLogin(l) == Start(l, [user: Users, password: Passwords])
StartRenewal(n) == Start(n, tokens)
StartUpdate(c) == Start(c, [token: tokens, user: Users, password: Passwords])

Refuse(x) == /\ Answer(x, "refused")
             /\ UNCHANGED <<now, users, sessions, tokens, pc, arg, read>>

-----------------------------------------------------------------------------
(* loginUser.                                                                *)

GetUser(l) ==
  /\ Running(l, "start")
  /\ read' = [read EXCEPT ![l] = [user |-> users[arg[l].user], at |-> now]]
  /\ GoTo(l, "check")
  /\ UNCHANGED <<now, users, sessions, tokens, arg, reply>>

PasswordMatches(l) == read[l].user.password = arg[l].password

(* CheckPassword against the row that was read, and the access token.        *)
CreateAccessToken(l) ==
  /\ Running(l, "check")
  /\ PasswordMatches(l)
  /\ read' = [read EXCEPT ![l] =
       [access |-> Token("access", l, arg[l].user, read[l].user.role, read[l].at,
                         0, AccessDuration)]]
  /\ GoTo(l, "refresh")
  /\ UNCHANGED <<now, users, sessions, tokens, arg, reply>>

(* The refresh token of the same row, made when the clock is read again.     *)
CreateRefreshToken(l) ==
  /\ Running(l, "refresh")
  /\ LET access == read[l].access
     IN read' = [read EXCEPT ![l] =
          [access |-> access,
           refresh |-> Token("refresh", l, arg[l].user, access.role, access.read,
                             0, RefreshDuration)]]
  /\ GoTo(l, "store")
  /\ UNCHANGED <<now, users, sessions, tokens, arg, reply>>

WrongPassword(l) == Running(l, "check") /\ ~PasswordMatches(l) /\ Refuse(l)

(* Mutant: the error of the INSERT is dropped.                               *)
CreateSessionDropped(l) ==
  /\ Running(l, "store")
  /\ \E stored \in BOOLEAN : sessions' =
       IF stored
       THEN [sessions EXCEPT ![l] =
               [user |-> arg[l].user, refresh |-> read[l].refresh,
                expires |-> read[l].refresh.expires, blockedAt |-> Never]]
       ELSE sessions
  /\ GoTo(l, "return")
  /\ UNCHANGED <<now, users, tokens, arg, read, reply>>

(* The session row; expires_at is that of the refresh token.                 *)
CreateSession(l) ==
  /\ Running(l, "store")
  /\ sessions' = [sessions EXCEPT ![l] =
                    [user |-> arg[l].user, refresh |-> read[l].refresh,
                     expires |-> read[l].refresh.expires, blockedAt |-> Never]]
  /\ GoTo(l, "return")
  /\ UNCHANGED <<now, users, tokens, arg, read, reply>>

ReturnTokens(l) ==
  /\ Running(l, "return")
  /\ tokens' = tokens \cup {read[l].access, read[l].refresh}
  /\ Answer(l, "ok")
  /\ UNCHANGED <<now, users, sessions, pc, arg, read>>

-----------------------------------------------------------------------------
(* renewAccessToken.                                                         *)

VerifyToken(n) ==
  /\ Running(n, "start")
  /\ Valid(arg[n], "refresh")
  /\ GoTo(n, "session")
  /\ UNCHANGED <<now, users, sessions, tokens, arg, read, reply>>

InvalidToken(n) == Running(n, "start") /\ ~Valid(arg[n], "refresh") /\ Refuse(n)

(* Mutant: is_blocked is not looked at.                                      *)
SessionAcceptsBlocked(token) ==
  LET session == sessions[token.login]
  IN session # NoSession /\ session.user = token.user /\ session.refresh = token

(* GetSession, and the three comparisons of its row with the token.          *)
SessionAccepts(token) ==
  LET session == sessions[token.login]
  IN /\ session # NoSession
     /\ session.blockedAt = Never
     /\ session.user = token.user
     /\ session.refresh = token

GetSession(n) ==
  /\ Running(n, "session")
  /\ SessionAccepts(arg[n])
  /\ read' = [read EXCEPT ![n] = [expires |-> sessions[arg[n].login].expires, at |-> now]]
  /\ GoTo(n, "expiry")
  /\ UNCHANGED <<now, users, sessions, tokens, arg, reply>>

SessionRefuses(n) == Running(n, "session") /\ ~SessionAccepts(arg[n]) /\ Refuse(n)

(* Mutant: only the token's expiry is checked, at the start.                 *)
NeverExpired(n) == FALSE

(* The session's own expiry.                                                 *)
Expired(n) == now > read[n].expires

CheckExpiry(n) ==
  /\ Running(n, "expiry")
  /\ ~Expired(n)
  /\ read' = [read EXCEPT ![n] =
               [expires |-> read[n].expires, at |-> read[n].at, checked |-> now]]
  /\ GoTo(n, "mint")
  /\ UNCHANGED <<now, users, sessions, tokens, arg, reply>>

(* The new access token, made when CreateToken reads the clock again, and the*)
(* answer.  No refresh token is made.                                        *)
RenewAccessToken(n) ==
  /\ Running(n, "mint")
  /\ tokens' = tokens \cup {Token("access", arg[n].login, arg[n].user, arg[n].role,
                                  read[n].at, now - read[n].checked, AccessDuration)}
  /\ Answer(n, "ok")
  /\ UNCHANGED <<now, users, sessions, pc, arg, read>>

SessionExpired(n) == Running(n, "expiry") /\ Expired(n) /\ Refuse(n)

-----------------------------------------------------------------------------
(* gapi UpdateUser, for a request that sets the password.                    *)

(* authorizeUser, and the check of the target.                               *)
Permitted(a) ==
  /\ Valid(a.token, "access")
  /\ a.token.role \in Roles
  /\ a.token.role = "banker" \/ a.token.user = a.user

AuthorizeUser(c) ==
  /\ Running(c, "start")
  /\ Permitted(arg[c])
  /\ GoTo(c, "write")
  /\ UNCHANGED <<now, users, sessions, tokens, arg, read, reply>>

NotAuthorized(c) == Running(c, "start") /\ ~Permitted(arg[c]) /\ Refuse(c)

(* UPDATE users; it touches no session.  The connection may be lost with its *)
(* answer.                                                                   *)
UpdateUser(c) ==
  /\ Running(c, "write")
  /\ users' = [users EXCEPT ![arg[c].user].password = arg[c].password]
  /\ \E answer \in {"ok", "err"} : Answer(c, answer)
  /\ UNCHANGED <<now, sessions, tokens, pc, arg, read>>

-----------------------------------------------------------------------------

(* The database, or the program, fails under a call.                         *)
CallFails(x) ==
  /\ pc[x] # "idle"
  /\ reply[x] = "none"
  /\ Answer(x, "err")
  /\ UNCHANGED <<now, users, sessions, tokens, pc, arg, read>>

(* The operator.                                                             *)
Block(l) ==
  /\ sessions[l] # NoSession
  /\ sessions[l].blockedAt = Never
  /\ sessions' = [sessions EXCEPT ![l].blockedAt = now]
  /\ UNCHANGED <<now, users, tokens, pc, arg, read, reply>>

SetRole(u, role) ==
  /\ users' = [users EXCEPT ![u].role = role]
  /\ UNCHANGED <<now, sessions, tokens, pc, arg, read, reply>>

LoginStep(l) == \/ GetUser(l) \/ WrongPassword(l) \/ CreateAccessToken(l)
                \/ CreateRefreshToken(l) \/ CreateSession(l) \/ ReturnTokens(l)

RenewalStep(n) == \/ VerifyToken(n) \/ InvalidToken(n) \/ GetSession(n)
                  \/ SessionRefuses(n) \/ CheckExpiry(n) \/ SessionExpired(n)
                  \/ RenewAccessToken(n)

UpdateStep(c) == AuthorizeUser(c) \/ NotAuthorized(c) \/ UpdateUser(c)

Next ==
  \/ Tick
  \/ \E l \in Logins : StartLogin(l) \/ LoginStep(l) \/ Block(l)
  \/ \E n \in Renewals : StartRenewal(n) \/ RenewalStep(n)
  \/ \E c \in Updates : StartUpdate(c) \/ UpdateStep(c)
  \/ \E x \in Calls : CallFails(x)
  \/ \E u \in Users, role \in Roles : SetRole(u, role)

Spec == Init /\ [][Next]_vars

-----------------------------------------------------------------------------
(***************************************************************************)
(* Properties.                                                             *)
(***************************************************************************)
Times == 0..MaxTime
TokenType(type, duration) ==
  [type: {type}, login: Logins, user: Users, role: Roles, read: Times, delay: Times,
   expires: 0..MaxTime + duration]
AccessTokens == TokenType("access", AccessDuration)
RefreshTokens == TokenType("refresh", RefreshDuration)
SessionRows == [user: Users, refresh: RefreshTokens,
                expires: 0..MaxTime + RefreshDuration, blockedAt: Times \cup {Never}]

ASSUME NoSessionIsNoRow == NoSession \notin SessionRows

(* Every variable has its type.                                              *)
TypeOK ==
  /\ now \in Times
  /\ users \in [Users -> [password: Passwords, role: Roles]]
  /\ sessions \in [Logins -> SessionRows \cup {NoSession}]
  /\ tokens \subseteq AccessTokens \cup RefreshTokens
  /\ reply \in [Calls -> {"none", "ok", "refused", "err"}]
  /\ \A x \in Calls : pc[x] = "idle" => reply[x] = "none"

(* A client has a token only if its session is in the table, under the same  *)
(* user: loginUser answers after CreateSession and not when it fails.        *)
TokensHaveSession ==
  \A t \in tokens : /\ sessions[t.login] # NoSession
                    /\ sessions[t.login].user = t.user

(* An access token outlives its session by at most an access duration and the*)
(* time its renewal has taken since it checked the session's expiry; however *)
(* often, however late and beside whatever other calls it was renewed.       *)
LifetimeIsBounded ==
  \A t \in tokens : t.type = "access" =>
    t.expires <= sessions[t.login].expires + AccessDuration + t.delay

(* After a session is blocked no renewal that looks it up succeeds.          *)
BlockedIsNotRenewed == \A t \in tokens : t.read <= sessions[t.login].blockedAt

(* A password is changed with an access token, by the user of its session or *)
(* by a banker; never with a refresh token.                                  *)
PasswordChangeIsPermitted ==
  [][\A u \in Users : users'[u].password # users[u].password =>
       \E c \in Updates :
         LET token == arg[c].token
         IN /\ reply[c] # reply'[c] /\ token.type = "access"
            /\ token.role = "banker" \/ sessions[token.login].user = u]_vars

(* Blocking a session logs its user out at once ("immediate logout"): no     *)
(* request is authorized with a token of it.  Access tokens are not looked up*)
(* in the sessions table, and break it.                                      *)
BlockedIsLoggedOut ==
  [][\A c \in Updates : pc[c] = "start" /\ pc'[c] = "write" =>
       sessions[arg[c].token.login].blockedAt = Never]_vars

=============================================================================
