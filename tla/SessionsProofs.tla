---------------------------- MODULE SessionsProofs ----------------------------
(***************************************************************************)
(* The properties of Sessions for any calls, users, durations and time.    *)
(* The inductive invariant says of each call what it has read and made, and*)
(* of each token what its session still has.                               *)
(***************************************************************************)
EXTENDS Sessions, TLAPS

LoginArgs == [user: Users, password: Passwords]
UserRows == [password: Passwords, role: Roles]

(* The tokens of a login, before and after its session is stored.           *)
MadeBy(l) == {read[l].access, read[l].refresh}

(* The access token of a login that has not made its refresh token yet.     *)
FreshAccess(l) ==
  /\ read[l].access \in AccessTokens
  /\ read[l].access.login = l /\ read[l].access.user = arg[l].user
  /\ read[l].access.read <= now
  /\ read[l].access.expires <= now + AccessDuration

LoginInv(l) ==
  /\ pc[l] \in {"idle", "start", "check", "refresh", "store", "return"}
  /\ pc[l] # "idle" => arg[l] \in LoginArgs
  /\ pc[l] = "check" => read[l] \in [user: UserRows, at: 0..now]
  /\ pc[l] = "refresh" => FreshAccess(l)
  /\ pc[l] \in {"store", "return"} =>
       /\ read[l].access \in AccessTokens
       /\ read[l].refresh \in RefreshTokens
       /\ read[l].access.expires <= read[l].refresh.expires + AccessDuration
       /\ \A t \in MadeBy(l) : t.login = l /\ t.user = arg[l].user /\ t.read <= now
  /\ IF pc[l] = "return"
     THEN /\ sessions[l] # NoSession
          /\ sessions[l].user = arg[l].user
          /\ sessions[l].expires = read[l].refresh.expires
          /\ \A t \in MadeBy(l) : t.read <= sessions[l].blockedAt
     ELSE sessions[l] = NoSession

(* The session of a token is in the table, under its user; it was not       *)
(* blocked before the query behind the token, and bounds its life, up to the*)
(* time between the check of its expiry and the making of the token.        *)
TokenInv(t) ==
  /\ sessions[t.login] # NoSession
  /\ sessions[t.login].user = t.user
  /\ t.read <= now
  /\ t.read <= sessions[t.login].blockedAt
  /\ t.type = "access" =>
       t.expires <= sessions[t.login].expires + AccessDuration + t.delay

(* What a renewal has read is of the session of its token; past the check   *)
(* of the expiry that session had not expired when the clock was looked at. *)
RenewalInv(n) ==
  /\ pc[n] \in {"idle", "start", "session", "expiry", "mint"}
  /\ pc[n] # "idle" => arg[n] \in tokens
  /\ pc[n] \in {"session", "expiry", "mint"} => arg[n].type = "refresh"
  /\ pc[n] \in {"expiry", "mint"} =>
       /\ read[n].expires = sessions[arg[n].login].expires
       /\ read[n].at \in 0..now
       /\ read[n].at <= sessions[arg[n].login].blockedAt
  /\ pc[n] = "mint" =>
       read[n].checked \in 0..now /\ read[n].checked <= read[n].expires

UpdateInv(c) ==
  /\ pc[c] \in {"idle", "start", "write"}
  /\ pc[c] # "idle" => arg[c] \in [token: tokens, user: Users, password: Passwords]
  /\ pc[c] = "write" =>
       /\ arg[c].token.type = "access"
       /\ arg[c].token.role = "banker" \/ arg[c].token.user = arg[c].user

Functions ==
  /\ pc = [x \in Calls |-> pc[x]]
  /\ arg = [x \in Calls |-> arg[x]]
  /\ read = [x \in Calls |-> read[x]]

SessInv ==
  /\ TypeOK
  /\ Functions
  /\ \A l \in Logins : LoginInv(l)
  /\ \A n \in Renewals : RenewalInv(n)
  /\ \A c \in Updates : UpdateInv(c)
  /\ \A t \in tokens : TokenInv(t)
-----------------------------------------------------------------------------
(* What a step leaves alone keeps its part of the invariant.                *)

Untouched(x) == pc'[x] = pc[x] /\ arg'[x] = arg[x] /\ read'[x] = read[x]

SessionsStay == \A l \in Logins : sessions[l] # NoSession => sessions'[l] = sessions[l]

LEMMA TokenTypes ==
  ASSUME TypeOK, NEW t \in tokens
  PROVE  /\ t.type \in {"access", "refresh"} /\ t.login \in Logins /\ t.user \in Users
         /\ t.role \in Roles /\ t.read \in Times /\ t.delay \in Nat /\ t.expires \in Nat
         /\ t.type = "access" => t \in AccessTokens
         /\ t.type = "refresh" => t \in RefreshTokens
<1>1. \A u \in AccessTokens : /\ u.type = "access" /\ u.login \in Logins /\ u.user \in Users
                              /\ u.role \in Roles /\ u.read \in Times /\ u.delay \in Nat
                              /\ u.expires \in Nat
  BY DEF AccessTokens, TokenType, Times
<1>2. \A u \in RefreshTokens : /\ u.type = "refresh" /\ u.login \in Logins /\ u.user \in Users
                               /\ u.role \in Roles /\ u.read \in Times /\ u.delay \in Nat
                               /\ u.expires \in Nat
  BY DEF RefreshTokens, TokenType, Times
<1> QED
  BY <1>1, <1>2 DEF TypeOK

LEMMA RowTypes ==
  ASSUME TypeOK, NEW l \in Logins, sessions[l] # NoSession
  PROVE  /\ sessions[l] \in SessionRows
         /\ sessions[l].expires \in Nat /\ sessions[l].blockedAt \in Nat
         /\ sessions[l].user \in Users
BY Durations DEF TypeOK, SessionRows, Times, Never

LEMMA LoginKept ==
  ASSUME SessInv, NEW l \in Logins, Untouched(l),
         sessions'[l] = sessions[l], now' \in Times, now <= now'
  PROVE  LoginInv(l)'
<1>1. LoginInv(l) /\ now \in Times
  BY DEF SessInv, TypeOK
<1>2. ASSUME NEW t \in AccessTokens \cup RefreshTokens, t.read <= now
      PROVE  t.read <= now'
  BY <1>1, <1>2 DEF AccessTokens, RefreshTokens, TokenType, Times
<1>3. ASSUME FreshAccess(l) PROVE FreshAccess(l)'
  <2>1. read[l].access.read \in Times /\ read[l].access.expires \in Nat
    BY <1>3 DEF FreshAccess, AccessTokens, TokenType
  <2> QED
    BY <1>1, <1>3, <2>1, Durations DEF FreshAccess, Untouched, Times
<1>4. LoginInv(l) /\ pc[l] = "refresh" => FreshAccess(l)
  BY DEF LoginInv
<1> QED
  BY <1>1, <1>2, <1>3, <1>4 DEF LoginInv, Untouched, MadeBy, Times

LEMMA TokenKept ==
  ASSUME SessInv, NEW t \in tokens, SessionsStay, now' \in Times, now <= now'
  PROVE  TokenInv(t)'
<1>1. TokenInv(t) /\ now \in Times /\ t.login \in Logins /\ t.read \in Times
  BY TokenTypes DEF SessInv, TypeOK
<1>2. sessions'[t.login] = sessions[t.login]
  BY <1>1 DEF SessionsStay, TokenInv
<1> QED
  BY <1>1, <1>2 DEF TokenInv, Times

LEMMA RenewalKept ==
  ASSUME SessInv, NEW n \in Renewals, Untouched(n),
         tokens \subseteq tokens', SessionsStay, now' \in Times, now <= now'
  PROVE  RenewalInv(n)'
<1>1. RenewalInv(n) /\ now \in Times
  BY DEF SessInv, TypeOK
<1>2. ASSUME pc[n] \in {"expiry", "mint"}
      PROVE  sessions'[arg[n].login] = sessions[arg[n].login]
  <2>1. arg[n] \in tokens
    BY <1>1, <1>2 DEF RenewalInv
  <2>2. sessions[arg[n].login] # NoSession /\ arg[n].login \in Logins
    BY <2>1, TokenTypes DEF SessInv, TokenInv
  <2> QED
    BY <2>2 DEF SessionsStay
<1> QED
  BY <1>1, <1>2 DEF RenewalInv, Untouched, Times

LEMMA UpdateKept ==
  ASSUME SessInv, NEW c \in Updates, Untouched(c), tokens \subseteq tokens'
  PROVE  UpdateInv(c)'
<1>1. UpdateInv(c)
  BY DEF SessInv
<1> QED
  BY <1>1 DEF UpdateInv, Untouched

(* A step of the call x: what has to be shown of it.                        *)
LEMMA StepOfCall ==
  ASSUME SessInv, NEW x \in Calls,
         Functions', TypeOK', now' = now,
         \A y \in Calls \ {x} : Untouched(y),
         tokens \subseteq tokens', SessionsStay,
         \A l \in Logins \ {x} : sessions'[l] = sessions[l],
         \A t \in tokens' \ tokens : TokenInv(t)',
         x \in Logins => LoginInv(x)',
         x \in Renewals => RenewalInv(x)',
         x \in Updates => UpdateInv(x)'
  PROVE  SessInv'
<1>1. now' \in Times /\ now <= now'
  BY DEF SessInv, TypeOK, Times
<1>2. ASSUME NEW l \in Logins PROVE LoginInv(l)'
  BY <1>1, LoginKept DEF Calls
<1>3. ASSUME NEW n \in Renewals PROVE RenewalInv(n)'
  BY <1>1, RenewalKept DEF Calls
<1>4. ASSUME NEW c \in Updates PROVE UpdateInv(c)'
  BY UpdateKept DEF Calls
<1>5. ASSUME NEW t \in tokens' PROVE TokenInv(t)'
  BY <1>1, TokenKept
<1> QED
  BY <1>2, <1>3, <1>4, <1>5 DEF SessInv

-----------------------------------------------------------------------------
(* The steps that change one call and neither sessions nor tokens.          *)

LEMMA QuietStep ==
  ASSUME SessInv, NEW x \in Calls,
         Functions', \A y \in Calls \ {x} : Untouched(y),
         UNCHANGED <<now, sessions, tokens>>,
         users' \in [Users -> UserRows],
         reply' \in [Calls -> {"none", "ok", "refused", "err"}],
         \A y \in Calls : pc'[y] = "idle" => reply'[y] = "none",
         x \in Logins => LoginInv(x)',
         x \in Renewals => RenewalInv(x)',
         x \in Updates => UpdateInv(x)'
  PROVE  SessInv'
<1>1. TypeOK'
  BY DEF SessInv, TypeOK, UserRows
<1>2. SessionsStay
  BY DEF SessionsStay
<1> QED
  BY <1>1, <1>2, StepOfCall

LEMMA StartStep ==
  ASSUME SessInv, NEW x \in Calls, NEW args, Start(x, args),
         x \in Logins => args = LoginArgs,
         x \in Renewals => args = tokens,
         x \in Updates => args = [token: tokens, user: Users, password: Passwords]
  PROVE  SessInv'
<1>1. PICK a \in args : arg' = [arg EXCEPT ![x] = a]
  BY DEF Start
<1>2. /\ pc' = [pc EXCEPT ![x] = "start"] /\ pc[x] = "idle"
      /\ UNCHANGED <<now, users, sessions, tokens, read, reply>>
  BY DEF Start, GoTo
<1>3. Functions' /\ \A y \in Calls \ {x} : Untouched(y)
  BY <1>1, <1>2 DEF SessInv, Functions, Untouched
<1>4. pc'[x] = "start" /\ arg'[x] = a
  BY <1>1, <1>2 DEF SessInv, Functions
<1>5. x \in Logins => LoginInv(x)'
  BY <1>1, <1>2, <1>4 DEF SessInv, LoginInv
<1>6. x \in Renewals => RenewalInv(x)'
  BY <1>1, <1>2, <1>4 DEF RenewalInv
<1>7. x \in Updates => UpdateInv(x)'
  <2> SUFFICES ASSUME x \in Updates PROVE UpdateInv(x)'
    OBVIOUS
  <2>1. args = [token: tokens', user: Users, password: Passwords]
    BY <1>2
  <2>2. arg'[x] \in args
    BY <1>4
  <2>3. arg'[x] \in [token: tokens', user: Users, password: Passwords]
    BY <2>1, <2>2, Zenon
  <2> QED
    BY <1>4, <2>3 DEF UpdateInv
<1>8. \A y \in Calls : pc'[y] = "idle" => reply'[y] = "none"
  BY <1>2, <1>3, <1>4 DEF SessInv, TypeOK, Untouched
<1>9. users' \in [Users -> UserRows] /\ reply' \in [Calls -> {"none", "ok", "refused", "err"}]
  BY <1>2 DEF SessInv, TypeOK, UserRows
<1> QED
  BY <1>2, <1>3, <1>5, <1>6, <1>7, <1>8, <1>9, QuietStep

(* Refuse, a failure, and the end of UpdateUser: only the answer of x and   *)
(* the users change.                                                        *)
LEMMA AnswerStep ==
  ASSUME SessInv, NEW x \in Calls, pc[x] # "idle",
         NEW answer \in {"ok", "refused", "err"}, Answer(x, answer),
         users' \in [Users -> UserRows],
         UNCHANGED <<now, sessions, tokens, pc, arg, read>>
  PROVE  SessInv'
<1>1. Functions' /\ \A y \in Calls : Untouched(y)
  BY DEF SessInv, Functions, Untouched
<1>2. reply' \in [Calls -> {"none", "ok", "refused", "err"}]
  BY DEF SessInv, TypeOK, Answer
<1>3. \A y \in Calls : pc'[y] = "idle" => reply'[y] = "none"
  BY DEF SessInv, TypeOK, Answer
<1>4. SessionsStay /\ now' \in Times /\ now <= now' /\ tokens \subseteq tokens'
  BY DEF SessionsStay, SessInv, TypeOK, Times
<1>5. x \in Logins => LoginInv(x)'
  BY <1>1, <1>4, LoginKept
<1>6. x \in Renewals => RenewalInv(x)'
  BY <1>1, <1>4, RenewalKept
<1>7. x \in Updates => UpdateInv(x)'
  BY <1>1, <1>4, UpdateKept
<1> QED
  BY <1>1, <1>2, <1>3, <1>5, <1>6, <1>7, QuietStep

-----------------------------------------------------------------------------
(* A login.                                                                 *)

LEMMA GetUserStep ==
  ASSUME SessInv, NEW l \in Logins, GetUser(l)
  PROVE  SessInv'
<1>1. /\ pc' = [pc EXCEPT ![l] = "check"] /\ pc[l] = "start"
      /\ read' = [read EXCEPT ![l] = [user |-> users[arg[l].user], at |-> now]]
      /\ UNCHANGED <<now, users, sessions, tokens, arg, reply>>
  BY DEF GetUser, GoTo, Running
<1>2. l \in Calls /\ l \notin Renewals /\ l \notin Updates
  BY CallsAreDistinct DEF Calls
<1>3. Functions' /\ \A y \in Calls \ {l} : Untouched(y)
  BY <1>1, <1>2 DEF SessInv, Functions, Untouched
<1>4. pc'[l] = "check" /\ read'[l] = [user |-> users[arg[l].user], at |-> now]
  BY <1>1, <1>2 DEF SessInv, Functions
<1>5. arg[l] \in LoginArgs /\ now \in Times /\ users \in [Users -> UserRows]
      /\ sessions[l] = NoSession
  BY <1>1 DEF SessInv, LoginInv, TypeOK, UserRows
<1>6. read'[l] \in [user: UserRows, at: 0..now]
  BY <1>4, <1>5 DEF LoginArgs, Times
<1>7. LoginInv(l)'
  BY <1>1, <1>4, <1>5, <1>6 DEF LoginInv
<1>8. \A y \in Calls : pc'[y] = "idle" => reply'[y] = "none"
  BY <1>1, <1>3, <1>4 DEF SessInv, TypeOK, Untouched
<1> QED
  BY <1>1, <1>2, <1>3, <1>5, <1>7, <1>8, QuietStep DEF SessInv, TypeOK

LEMMA CreateAccessTokenStep ==
  ASSUME SessInv, NEW l \in Logins, CreateAccessToken(l)
  PROVE  SessInv'
<1> DEFINE role == read[l].user.role
           at == read[l].at
           access == Token("access", l, arg[l].user, role, at, 0, AccessDuration)
<1>1. /\ pc' = [pc EXCEPT ![l] = "refresh"] /\ pc[l] = "check"
      /\ read' = [read EXCEPT ![l] = [access |-> access]]
      /\ UNCHANGED <<now, users, sessions, tokens, arg, reply>>
  BY DEF CreateAccessToken, GoTo, Running
<1>2. l \in Calls /\ l \notin Renewals /\ l \notin Updates
  BY CallsAreDistinct DEF Calls
<1>3. Functions' /\ \A y \in Calls \ {l} : Untouched(y)
  BY <1>1, <1>2 DEF SessInv, Functions, Untouched
<1>4. pc'[l] = "refresh" /\ read'[l].access = access /\ arg'[l] = arg[l]
  BY <1>1, <1>2 DEF SessInv, Functions
<1>5. /\ arg[l].user \in Users /\ role \in Roles /\ at \in 0..now /\ now \in Times
      /\ sessions[l] = NoSession /\ arg[l] \in LoginArgs
  BY <1>1 DEF SessInv, LoginInv, TypeOK, UserRows, LoginArgs
<1>6. /\ at \in Times /\ at <= now /\ 0 \in Times
      /\ now + AccessDuration \in 0..MaxTime + AccessDuration
  BY <1>5, Durations DEF Times
<1>7. access \in AccessTokens
  BY <1>5, <1>6 DEF AccessTokens, TokenType, Token
<1>8. /\ access.expires = now + AccessDuration /\ access.login = l
      /\ access.user = arg[l].user /\ access.read = at
  BY DEF Token
<1> HIDE DEF access, at
<1>9. FreshAccess(l)'
  BY <1>1, <1>4, <1>5, <1>6, <1>7, <1>8, Durations DEF FreshAccess, Times
<1>10. LoginInv(l)'
  BY <1>1, <1>4, <1>5, <1>9 DEF LoginInv
<1>11. \A y \in Calls : pc'[y] = "idle" => reply'[y] = "none"
  BY <1>1, <1>3, <1>4 DEF SessInv, TypeOK, Untouched
<1> QED
  BY <1>1, <1>2, <1>3, <1>10, <1>11, QuietStep DEF SessInv, TypeOK, UserRows

(* The session will expire no earlier than now, when its access token was   *)
(* already made.                                                            *)
LEMMA CreateRefreshTokenStep ==
  ASSUME SessInv, NEW l \in Logins, CreateRefreshToken(l)
  PROVE  SessInv'
<1> DEFINE access == read[l].access
           refresh == Token("refresh", l, arg[l].user, access.role, access.read,
                            0, RefreshDuration)
<1>1. /\ pc' = [pc EXCEPT ![l] = "store"] /\ pc[l] = "refresh"
      /\ read' = [read EXCEPT ![l] = [access |-> access, refresh |-> refresh]]
      /\ UNCHANGED <<now, users, sessions, tokens, arg, reply>>
  BY DEF CreateRefreshToken, GoTo, Running
<1>2. l \in Calls /\ l \notin Renewals /\ l \notin Updates
  BY CallsAreDistinct DEF Calls
<1>3. Functions' /\ \A y \in Calls \ {l} : Untouched(y)
  BY <1>1, <1>2 DEF SessInv, Functions, Untouched
<1>4. pc'[l] = "store" /\ read'[l].access = access /\ read'[l].refresh = refresh
      /\ arg'[l] = arg[l]
  BY <1>1, <1>2 DEF SessInv, Functions
<1>5. FreshAccess(l) /\ sessions[l] = NoSession /\ arg[l] \in LoginArgs /\ now \in Times
  BY <1>1 DEF SessInv, LoginInv, TypeOK
<1>6. /\ access \in AccessTokens /\ access.login = l /\ access.user = arg[l].user
      /\ access.read <= now /\ access.expires <= now + AccessDuration
  BY <1>5 DEF FreshAccess
<1>7. access.role \in Roles /\ access.read \in Times /\ access.expires \in Nat
  BY <1>6 DEF AccessTokens, TokenType
<1>8. /\ refresh.expires = now + RefreshDuration /\ refresh.login = l
      /\ refresh.user = arg[l].user /\ refresh.read = access.read
  BY DEF Token
<1>9. refresh \in RefreshTokens
  <2>1. arg[l].user \in Users /\ 0 \in Times
        /\ now + RefreshDuration \in 0..MaxTime + RefreshDuration
    BY <1>5, Durations DEF LoginArgs, Times
  <2> QED
    BY <1>7, <2>1 DEF RefreshTokens, TokenType, Token
<1> HIDE DEF access, refresh
<1>10. access.expires <= refresh.expires + AccessDuration
  BY <1>5, <1>6, <1>7, <1>8, Durations DEF Times
<1>11. LoginInv(l)'
  BY <1>1, <1>4, <1>5, <1>6, <1>8, <1>9, <1>10 DEF LoginInv, MadeBy
<1>12. \A y \in Calls : pc'[y] = "idle" => reply'[y] = "none"
  BY <1>1, <1>3, <1>4 DEF SessInv, TypeOK, Untouched
<1> QED
  BY <1>1, <1>2, <1>3, <1>11, <1>12, QuietStep DEF SessInv, TypeOK, UserRows

LEMMA CreateSessionStep ==
  ASSUME SessInv, NEW l \in Logins, CreateSession(l)
  PROVE  SessInv'
<1> DEFINE row == [user |-> arg[l].user, refresh |-> read[l].refresh,
                   expires |-> read[l].refresh.expires, blockedAt |-> Never]
<1>1. /\ pc' = [pc EXCEPT ![l] = "return"] /\ pc[l] = "store"
      /\ sessions' = [sessions EXCEPT ![l] = row]
      /\ UNCHANGED <<now, users, tokens, arg, read, reply>>
  BY DEF CreateSession, GoTo, Running
<1>2. l \in Calls /\ l \notin Renewals /\ l \notin Updates
  BY CallsAreDistinct DEF Calls
<1>3. Functions' /\ \A y \in Calls \ {l} : Untouched(y)
  BY <1>1, <1>2 DEF SessInv, Functions, Untouched
<1>4. pc'[l] = "return" /\ sessions'[l] = row
  BY <1>1, <1>2 DEF SessInv, Functions, TypeOK
<1>5. LoginInv(l) /\ now \in Times /\ sessions[l] = NoSession
  BY <1>1 DEF SessInv, TypeOK, LoginInv
<1>6. /\ read[l].access \in AccessTokens /\ read[l].refresh \in RefreshTokens
      /\ arg[l] \in LoginArgs
      /\ \A t \in MadeBy(l) : t.read <= now
  BY <1>1, <1>5 DEF LoginInv
<1>7. \A t \in MadeBy(l) : t.read <= Never
  BY <1>5, <1>6, Durations DEF MadeBy, AccessTokens, RefreshTokens, TokenType, Times, Never
<1>8. row \in SessionRows
  <2>1. read[l].refresh.expires \in 0..MaxTime + RefreshDuration /\ arg[l].user \in Users
    BY <1>6 DEF RefreshTokens, TokenType, LoginArgs
  <2> QED
    BY <1>6, <2>1 DEF SessionRows
<1>9. row # NoSession
  BY <1>8, NoSessionIsNoRow
<1>10. LoginInv(l)'
  BY <1>1, <1>4, <1>5, <1>7, <1>9 DEF LoginInv, MadeBy
<1>11. SessionsStay /\ \A k \in Logins \ {l} : sessions'[k] = sessions[k]
  BY <1>1, <1>5 DEF SessionsStay, SessInv, TypeOK
<1>12. TypeOK'
  <2>1. sessions' \in [Logins -> SessionRows \cup {NoSession}]
    BY <1>1, <1>8 DEF SessInv, TypeOK
  <2>2. \A y \in Calls : pc'[y] = "idle" => reply'[y] = "none"
    BY <1>1, <1>3, <1>4 DEF SessInv, TypeOK, Untouched
  <2> QED
    BY <1>1, <2>1, <2>2 DEF SessInv, TypeOK
<1> QED
  BY <1>1, <1>2, <1>3, <1>10, <1>11, <1>12, StepOfCall

LEMMA ReturnTokensStep ==
  ASSUME SessInv, NEW l \in Logins, ReturnTokens(l)
  PROVE  SessInv'
<1>1. /\ tokens' = tokens \cup MadeBy(l) /\ pc[l] = "return"
      /\ reply' = [reply EXCEPT ![l] = "ok"]
      /\ UNCHANGED <<now, users, sessions, pc, arg, read>>
  BY DEF ReturnTokens, Answer, Running, MadeBy
<1>2. l \in Calls /\ l \notin Renewals /\ l \notin Updates
  BY CallsAreDistinct DEF Calls
<1>3. Functions' /\ \A y \in Calls : Untouched(y)
  BY <1>1 DEF SessInv, Functions, Untouched
<1>4. LoginInv(l) /\ now \in Times
  BY DEF SessInv, TypeOK
<1>5. MadeBy(l) \subseteq AccessTokens \cup RefreshTokens
  BY <1>1, <1>4 DEF LoginInv, MadeBy
<1>6. TypeOK'
  BY <1>1, <1>2, <1>5 DEF SessInv, TypeOK
<1>7. SessionsStay /\ now <= now' /\ now' \in Times
  BY <1>1, <1>4 DEF SessionsStay, Times
<1>8. LoginInv(l)'
  BY <1>1, <1>2, <1>3, <1>7, LoginKept
<1>9. ASSUME NEW t \in MadeBy(l) PROVE TokenInv(t)'
  <2>1. /\ t.login = l /\ t.user = arg[l].user /\ t.read <= now
        /\ sessions[l] # NoSession /\ sessions[l].user = arg[l].user
        /\ t.read <= sessions[l].blockedAt
        /\ sessions[l].expires = read[l].refresh.expires
    BY <1>1, <1>4 DEF LoginInv
  <2>2. t.type = "access" => t = read[l].access
    BY <1>1, <1>4 DEF LoginInv, MadeBy, RefreshTokens, TokenType
  <2>3. ASSUME t.type = "access"
        PROVE  t.expires <= sessions[l].expires + AccessDuration + t.delay
    <3>1. /\ t.expires <= read[l].refresh.expires + AccessDuration
          /\ t \in AccessTokens /\ read[l].refresh \in RefreshTokens
      BY <1>1, <1>4, <2>2, <2>3 DEF LoginInv
    <3>2. t.delay \in Nat /\ t.expires \in Nat /\ read[l].refresh.expires \in Nat
      BY <3>1 DEF AccessTokens, RefreshTokens, TokenType, Times
    <3> QED
      BY <2>1, <3>1, <3>2, Durations
  <2> QED
    BY <1>1, <2>1, <2>3 DEF TokenInv
<1> QED
  BY <1>1, <1>2, <1>3, <1>6, <1>7, <1>8, <1>9, StepOfCall

-----------------------------------------------------------------------------
(* A renewal.                                                               *)

LEMMA RenewalFacts ==
  ASSUME SessInv, NEW n \in Renewals, pc[n] # "idle"
  PROVE  /\ n \in Calls /\ n \notin Logins /\ n \notin Updates
         /\ RenewalInv(n) /\ arg[n] \in tokens
         /\ arg[n].login \in Logins /\ arg[n].user \in Users /\ arg[n].role \in Roles
         /\ sessions[arg[n].login] # NoSession
         /\ sessions[arg[n].login].user = arg[n].user
         /\ sessions[arg[n].login].expires \in Nat
         /\ now \in Times
<1>1. n \in Calls /\ n \notin Logins /\ n \notin Updates
  BY CallsAreDistinct DEF Calls
<1>2. RenewalInv(n) /\ arg[n] \in tokens /\ now \in Times
  BY DEF SessInv, RenewalInv, TypeOK
<1>3. TokenInv(arg[n])
  BY <1>2 DEF SessInv
<1> QED
  BY <1>1, <1>2, <1>3, TokenTypes, RowTypes DEF SessInv, TokenInv

LEMMA VerifyTokenStep ==
  ASSUME SessInv, NEW n \in Renewals, VerifyToken(n)
  PROVE  SessInv'
<1>1. /\ pc' = [pc EXCEPT ![n] = "session"] /\ pc[n] = "start"
      /\ arg[n].type = "refresh"
      /\ UNCHANGED <<now, users, sessions, tokens, arg, read, reply>>
  BY DEF VerifyToken, GoTo, Running, Valid
<1>2. n \in Calls /\ n \notin Logins /\ n \notin Updates /\ arg[n] \in tokens
  BY <1>1, RenewalFacts
<1>3. Functions' /\ (\A y \in Calls \ {n} : Untouched(y)) /\ pc'[n] = "session"
  BY <1>1, <1>2 DEF SessInv, Functions, Untouched
<1>4. RenewalInv(n)'
  BY <1>1, <1>2, <1>3 DEF RenewalInv
<1>5. \A y \in Calls : pc'[y] = "idle" => reply'[y] = "none"
  BY <1>1, <1>3 DEF SessInv, TypeOK, Untouched
<1> QED
  BY <1>1, <1>2, <1>3, <1>4, <1>5, QuietStep DEF SessInv, TypeOK, UserRows

LEMMA GetSessionStep ==
  ASSUME SessInv, NEW n \in Renewals, GetSession(n)
  PROVE  SessInv'
<1> DEFINE session == sessions[arg[n].login]
<1>1. /\ pc' = [pc EXCEPT ![n] = "expiry"] /\ pc[n] = "session"
      /\ read' = [read EXCEPT ![n] = [expires |-> session.expires, at |-> now]]
      /\ session.blockedAt = Never
      /\ UNCHANGED <<now, users, sessions, tokens, arg, reply>>
  BY DEF GetSession, GoTo, Running, SessionAccepts
<1>2. n \in Calls /\ n \notin Logins /\ n \notin Updates /\ arg[n] \in tokens
      /\ now \in Times /\ RenewalInv(n)
  BY <1>1, RenewalFacts
<1>3. Functions' /\ \A y \in Calls \ {n} : Untouched(y)
  BY <1>1, <1>2 DEF SessInv, Functions, Untouched
<1>4. /\ pc'[n] = "expiry" /\ arg'[n] = arg[n]
      /\ read'[n] = [expires |-> session.expires, at |-> now]
  BY <1>1, <1>2 DEF SessInv, Functions
<1>5. now \in 0..now /\ now <= session.blockedAt
  BY <1>1, <1>2, Durations DEF Times, Never
<1>6. RenewalInv(n)'
  BY <1>1, <1>2, <1>4, <1>5 DEF RenewalInv
<1>7. \A y \in Calls : pc'[y] = "idle" => reply'[y] = "none"
  BY <1>1, <1>3, <1>4 DEF SessInv, TypeOK, Untouched
<1> QED
  BY <1>1, <1>2, <1>3, <1>6, <1>7, QuietStep DEF SessInv, TypeOK, UserRows

LEMMA CheckExpiryStep ==
  ASSUME SessInv, NEW n \in Renewals, CheckExpiry(n)
  PROVE  SessInv'
<1>1. /\ pc' = [pc EXCEPT ![n] = "mint"] /\ pc[n] = "expiry" /\ ~(now > read[n].expires)
      /\ read' = [read EXCEPT ![n] =
                    [expires |-> read[n].expires, at |-> read[n].at, checked |-> now]]
      /\ UNCHANGED <<now, users, sessions, tokens, arg, reply>>
  BY DEF CheckExpiry, Expired, GoTo, Running
<1>2. n \in Calls /\ n \notin Logins /\ n \notin Updates /\ arg[n] \in tokens
      /\ now \in Times /\ RenewalInv(n) /\ sessions[arg[n].login].expires \in Nat
  BY <1>1, RenewalFacts
<1>3. Functions' /\ \A y \in Calls \ {n} : Untouched(y)
  BY <1>1, <1>2 DEF SessInv, Functions, Untouched
<1>4. /\ pc'[n] = "mint" /\ arg'[n] = arg[n] /\ read'[n].expires = read[n].expires
      /\ read'[n].at = read[n].at /\ read'[n].checked = now
  BY <1>1, <1>2 DEF SessInv, Functions
<1>5. read[n].expires \in Nat /\ now \in 0..now /\ now <= read[n].expires
  BY <1>1, <1>2 DEF RenewalInv, Times
<1>6. RenewalInv(n)'
  BY <1>1, <1>2, <1>4, <1>5 DEF RenewalInv
<1>7. \A y \in Calls : pc'[y] = "idle" => reply'[y] = "none"
  BY <1>1, <1>3, <1>4 DEF SessInv, TypeOK, Untouched
<1> QED
  BY <1>1, <1>2, <1>3, <1>6, <1>7, QuietStep DEF SessInv, TypeOK, UserRows

LEMMA RenewStep ==
  ASSUME SessInv, NEW n \in Renewals, RenewAccessToken(n)
  PROVE  SessInv'
<1> DEFINE delay == now - read[n].checked
           token == Token("access", arg[n].login, arg[n].user, arg[n].role, read[n].at,
                          delay, AccessDuration)
<1>1. /\ tokens' = tokens \cup {token} /\ pc[n] = "mint"
      /\ reply' = [reply EXCEPT ![n] = "ok"]
      /\ UNCHANGED <<now, users, sessions, pc, arg, read>>
  BY DEF RenewAccessToken, Answer, Running
<1>2. /\ n \in Calls /\ n \notin Logins /\ n \notin Updates /\ now \in Times
      /\ arg[n].login \in Logins /\ arg[n].user \in Users /\ arg[n].role \in Roles
      /\ sessions[arg[n].login] # NoSession /\ sessions[arg[n].login].user = arg[n].user
      /\ sessions[arg[n].login].expires \in Nat
  BY <1>1, RenewalFacts
<1>3. /\ read[n].expires = sessions[arg[n].login].expires
      /\ read[n].at \in 0..now /\ read[n].at <= sessions[arg[n].login].blockedAt
      /\ read[n].checked \in 0..now /\ read[n].checked <= read[n].expires
  BY <1>1, RenewalFacts DEF RenewalInv
<1>4. /\ token.type = "access" /\ token.login = arg[n].login /\ token.user = arg[n].user
      /\ token.role = arg[n].role
      /\ token.read = read[n].at /\ token.expires = now + AccessDuration
      /\ token.delay = now - read[n].checked
  BY DEF Token
<1>5. token \in AccessTokens
  <2>1. /\ read[n].at \in Times /\ delay \in Times
        /\ now + AccessDuration \in 0..MaxTime + AccessDuration
    BY <1>2, <1>3, Durations DEF Times
  <2> QED
    BY <1>2, <2>1 DEF AccessTokens, TokenType, Token
<1> HIDE DEF token, delay
<1>6. ASSUME NEW t, t = token PROVE TokenInv(t)'
  <2>1. t.read <= now
    BY <1>2, <1>3, <1>4, <1>6 DEF Times
  <2>2. t.expires <= sessions[t.login].expires + AccessDuration + t.delay
    BY <1>1, <1>2, <1>3, <1>4, <1>6, Durations DEF Times
  <2> QED
    BY <1>1, <1>2, <1>3, <1>4, <1>6, <2>1, <2>2 DEF TokenInv
<1>7. Functions' /\ \A y \in Calls : Untouched(y)
  BY <1>1 DEF SessInv, Functions, Untouched
<1>8. TypeOK'
  BY <1>1, <1>2, <1>5 DEF SessInv, TypeOK
<1>9. SessionsStay /\ now <= now' /\ now' \in Times /\ tokens \subseteq tokens'
  BY <1>1, <1>2 DEF SessionsStay, Times
<1>10. RenewalInv(n)'
  BY <1>2, <1>7, <1>9, RenewalKept
<1> QED
  BY <1>1, <1>2, <1>6, <1>7, <1>8, <1>9, <1>10, StepOfCall

-----------------------------------------------------------------------------
(* A change of a password.                                                  *)

LEMMA AuthorizeStep ==
  ASSUME SessInv, NEW c \in Updates, AuthorizeUser(c)
  PROVE  SessInv'
<1>1. /\ pc' = [pc EXCEPT ![c] = "write"] /\ pc[c] = "start" /\ Permitted(arg[c])
      /\ UNCHANGED <<now, users, sessions, tokens, arg, read, reply>>
  BY DEF AuthorizeUser, GoTo, Running
<1>2. c \in Calls /\ c \notin Logins /\ c \notin Renewals
  BY CallsAreDistinct DEF Calls
<1>3. Functions' /\ (\A y \in Calls \ {c} : Untouched(y)) /\ pc'[c] = "write"
  BY <1>1, <1>2 DEF SessInv, Functions, Untouched
<1>4. UpdateInv(c)
  BY DEF SessInv
<1>5. UpdateInv(c)'
  BY <1>1, <1>3, <1>4 DEF UpdateInv, Permitted, Valid
<1>6. \A y \in Calls : pc'[y] = "idle" => reply'[y] = "none"
  BY <1>1, <1>3 DEF SessInv, TypeOK, Untouched
<1> QED
  BY <1>1, <1>2, <1>3, <1>5, <1>6, QuietStep DEF SessInv, TypeOK, UserRows

LEMMA UpdateUserStep ==
  ASSUME SessInv, NEW c \in Updates, UpdateUser(c)
  PROVE  SessInv'
<1>1. /\ users' = [users EXCEPT ![arg[c].user].password = arg[c].password]
      /\ pc[c] = "write"
      /\ UNCHANGED <<now, sessions, tokens, pc, arg, read>>
  BY DEF UpdateUser, Running
<1>2. UpdateInv(c) /\ users \in [Users -> UserRows] /\ c \in Calls
  BY DEF SessInv, TypeOK, UserRows, Calls
<1>3. arg[c].user \in Users /\ arg[c].password \in Passwords
  BY <1>1, <1>2 DEF UpdateInv
<1>4. users' \in [Users -> UserRows]
  BY <1>1, <1>2, <1>3 DEF UserRows
<1>5. PICK answer \in {"ok", "err"} : Answer(c, answer)
  BY DEF UpdateUser
<1> QED
  BY <1>1, <1>2, <1>4, <1>5, AnswerStep

-----------------------------------------------------------------------------
(* The clock and the operator.                                              *)

LEMMA TickStep ==
  ASSUME SessInv, Tick
  PROVE  SessInv'
<1>1. /\ now' = now + 1 /\ now < MaxTime
      /\ UNCHANGED <<users, sessions, tokens, pc, arg, read, reply>>
  BY DEF Tick
<1>2. now' \in Times /\ now <= now'
  BY <1>1, Durations DEF SessInv, TypeOK, Times
<1>3. Functions' /\ SessionsStay /\ \A y \in Calls : Untouched(y)
  BY <1>1 DEF SessInv, Functions, Untouched, SessionsStay
<1>4. TypeOK'
  BY <1>1, <1>2 DEF SessInv, TypeOK
<1>5. \A l \in Logins : LoginInv(l)'
  BY <1>1, <1>2, <1>3, LoginKept DEF Calls
<1>6. \A n \in Renewals : RenewalInv(n)'
  BY <1>1, <1>2, <1>3, RenewalKept DEF Calls
<1>7. \A c \in Updates : UpdateInv(c)'
  BY <1>1, <1>3, UpdateKept DEF Calls
<1>8. \A t \in tokens' : TokenInv(t)'
  BY <1>1, <1>2, <1>3, TokenKept
<1> QED
  BY <1>3, <1>4, <1>5, <1>6, <1>7, <1>8 DEF SessInv

LEMMA SetRoleStep ==
  ASSUME SessInv, NEW u \in Users, NEW role \in Roles, SetRole(u, role)
  PROVE  SessInv'
<1>1. /\ users' = [users EXCEPT ![u].role = role]
      /\ UNCHANGED <<now, sessions, tokens, pc, arg, read, reply>>
  BY DEF SetRole
<1>2. Functions' /\ SessionsStay /\ \A y \in Calls : Untouched(y)
  BY <1>1 DEF SessInv, Functions, Untouched, SessionsStay
<1>3. TypeOK'
  BY <1>1 DEF SessInv, TypeOK
<1>4. now' \in Times /\ now <= now'
  BY <1>1 DEF SessInv, TypeOK, Times
<1>5. \A l \in Logins : LoginInv(l)'
  BY <1>1, <1>2, <1>4, LoginKept DEF Calls
<1>6. \A n \in Renewals : RenewalInv(n)'
  BY <1>1, <1>2, <1>4, RenewalKept DEF Calls
<1>7. \A c \in Updates : UpdateInv(c)'
  BY <1>1, <1>2, UpdateKept DEF Calls
<1>8. \A t \in tokens' : TokenInv(t)'
  BY <1>1, <1>2, <1>4, TokenKept
<1> QED
  BY <1>2, <1>3, <1>5, <1>6, <1>7, <1>8 DEF SessInv

(* Every query behind a token is in the past when its session is blocked.   *)
LEMMA BlockStep ==
  ASSUME SessInv, NEW l \in Logins, Block(l)
  PROVE  SessInv'
<1>1. /\ sessions' = [sessions EXCEPT ![l].blockedAt = now] /\ sessions[l] # NoSession
      /\ UNCHANGED <<now, users, tokens, pc, arg, read, reply>>
  BY DEF Block
<1>2. now \in Times /\ sessions[l] \in SessionRows
  BY <1>1, RowTypes DEF SessInv, TypeOK
<1>3. sessions'[l] = [sessions[l] EXCEPT !.blockedAt = now]
  BY <1>1 DEF SessInv, TypeOK
<1>4. /\ sessions'[l] \in SessionRows /\ sessions'[l].user = sessions[l].user
      /\ sessions'[l].expires = sessions[l].expires /\ sessions'[l].blockedAt = now
  BY <1>2, <1>3 DEF SessionRows
<1>5. sessions'[l] # NoSession
  BY <1>4, NoSessionIsNoRow
<1>6. \A k \in Logins \ {l} : sessions'[k] = sessions[k]
  BY <1>1 DEF SessInv, TypeOK
<1>7. TypeOK'
  <2>1. sessions' \in [Logins -> SessionRows \cup {NoSession}]
    BY <1>1, <1>3, <1>4 DEF SessInv, TypeOK
  <2> QED
    BY <1>1, <2>1 DEF SessInv, TypeOK
<1>8. Functions' /\ \A y \in Calls : Untouched(y)
  BY <1>1 DEF SessInv, Functions, Untouched
<1>9. ASSUME NEW k \in Logins PROVE LoginInv(k)'
  <2>1. CASE k # l
    BY <1>1, <1>2, <1>6, <1>8, <2>1, LoginKept DEF Calls, Times
  <2>2. CASE k = l
    <3>1. LoginInv(l)
      BY DEF SessInv
    <3>2. pc[l] = "return"
      BY <1>1, <3>1 DEF LoginInv
    <3> QED
      BY <1>1, <1>4, <1>5, <2>2, <3>1, <3>2 DEF LoginInv, MadeBy
  <2> QED
    BY <2>1, <2>2
<1>10. ASSUME NEW n \in Renewals PROVE RenewalInv(n)'
  <2>1. RenewalInv(n)
    BY DEF SessInv
  <2>2. CASE pc[n] \in {"expiry", "mint"}
    <3>1. /\ arg[n].login \in Logins /\ read[n].at <= now
          /\ read[n].expires = sessions[arg[n].login].expires
          /\ read[n].at <= sessions[arg[n].login].blockedAt
      BY <1>2, <2>1, <2>2, RenewalFacts DEF RenewalInv, Times
    <3>2. /\ read[n].expires = sessions'[arg[n].login].expires
          /\ read[n].at <= sessions'[arg[n].login].blockedAt
      BY <1>4, <1>6, <3>1
    <3> QED
      BY <1>1, <2>1, <2>2, <3>2 DEF RenewalInv
  <2>3. CASE pc[n] \notin {"expiry", "mint"}
    BY <1>1, <2>1, <2>3 DEF RenewalInv
  <2> QED
    BY <2>2, <2>3
<1>11. \A c \in Updates : UpdateInv(c)'
  BY <1>1, <1>8, UpdateKept DEF Calls
<1>12. ASSUME NEW t \in tokens' PROVE TokenInv(t)'
  <2>1. TokenInv(t) /\ t.login \in Logins
    BY <1>1, TokenTypes DEF SessInv
  <2> QED
    BY <1>1, <1>4, <1>5, <1>6, <2>1 DEF TokenInv
<1> QED
  BY <1>7, <1>8, <1>9, <1>10, <1>11, <1>12 DEF SessInv

-----------------------------------------------------------------------------
LEMMA InitSessInv == Init => SessInv
<1> SUFFICES ASSUME Init PROVE SessInv
  OBVIOUS
<1>1. TypeOK
  <2>1. now \in Times
    BY Durations DEF Init, Times
  <2>2. users \in [Users -> [password: Passwords, role: Roles]]
    BY DEF Init, Roles
  <2> QED
    BY <2>1, <2>2 DEF Init, TypeOK
<1>2. Functions
  BY DEF Init, Functions
<1>3. \A l \in Logins : LoginInv(l)
  BY DEF Init, LoginInv, Calls
<1>4. \A n \in Renewals : RenewalInv(n)
  BY DEF Init, RenewalInv, Calls
<1>5. \A c \in Updates : UpdateInv(c)
  BY DEF Init, UpdateInv, Calls
<1> QED
  BY <1>1, <1>2, <1>3, <1>4, <1>5 DEF Init, SessInv

LEMMA RefuseStep ==
  ASSUME SessInv, NEW x \in Calls, pc[x] # "idle", Refuse(x)
  PROVE  SessInv'
<1>1. users' \in [Users -> UserRows]
  BY DEF Refuse, SessInv, TypeOK, UserRows
<1> QED
  BY <1>1, AnswerStep DEF Refuse

LEMMA NextSessInv == SessInv /\ [Next]_vars => SessInv'
<1> SUFFICES ASSUME SessInv, [Next]_vars PROVE SessInv'
  OBVIOUS
<1>1. CASE Tick
  BY <1>1, TickStep
<1>2. ASSUME NEW l \in Logins, StartLogin(l) \/ LoginStep(l) \/ Block(l)
      PROVE  SessInv'
  <2>1. l \in Calls /\ l \notin Renewals /\ l \notin Updates
    BY CallsAreDistinct DEF Calls
  <2>2. CASE StartLogin(l)
    BY <2>1, <2>2, StartStep DEF StartLogin, LoginArgs
  <2>3. CASE WrongPassword(l)
    BY <2>1, <2>3, RefuseStep DEF WrongPassword, Running
  <2> QED
    BY <1>2, <2>2, <2>3, GetUserStep, CreateAccessTokenStep, CreateRefreshTokenStep,
       CreateSessionStep, ReturnTokensStep, BlockStep DEF LoginStep
<1>3. ASSUME NEW n \in Renewals, StartRenewal(n) \/ RenewalStep(n)
      PROVE  SessInv'
  <2>1. n \in Calls /\ n \notin Logins /\ n \notin Updates
    BY CallsAreDistinct DEF Calls
  <2>2. CASE StartRenewal(n)
    BY <2>1, <2>2, StartStep DEF StartRenewal
  <2>3. CASE InvalidToken(n) \/ SessionRefuses(n) \/ SessionExpired(n)
    BY <2>1, <2>3, RefuseStep DEF InvalidToken, SessionRefuses, SessionExpired, Running
  <2> QED
    BY <1>3, <2>2, <2>3, VerifyTokenStep, GetSessionStep, CheckExpiryStep, RenewStep
       DEF RenewalStep
<1>4. ASSUME NEW c \in Updates, StartUpdate(c) \/ UpdateStep(c)
      PROVE  SessInv'
  <2>1. c \in Calls /\ c \notin Logins /\ c \notin Renewals
    BY CallsAreDistinct DEF Calls
  <2>2. CASE StartUpdate(c)
    BY <2>1, <2>2, StartStep DEF StartUpdate
  <2>3. CASE NotAuthorized(c)
    BY <2>1, <2>3, RefuseStep DEF NotAuthorized, Running
  <2> QED
    BY <1>4, <2>2, <2>3, AuthorizeStep, UpdateUserStep DEF UpdateStep
<1>5. ASSUME NEW x \in Calls, CallFails(x)
      PROVE  SessInv'
  <2>1. users' \in [Users -> UserRows]
    BY <1>5 DEF CallFails, SessInv, TypeOK, UserRows
  <2> QED
    BY <1>5, <2>1, AnswerStep DEF CallFails
<1>6. ASSUME NEW u \in Users, NEW role \in Roles, SetRole(u, role)
      PROVE  SessInv'
  BY <1>6, SetRoleStep
<1>7. CASE UNCHANGED vars
  <2>1. TypeOK' /\ Functions' /\ SessionsStay /\ now' \in Times /\ now <= now'
        /\ UNCHANGED tokens /\ \A x \in Calls : Untouched(x)
    BY <1>7 DEF SessInv, TypeOK, Functions, SessionsStay, Untouched, vars, Times
  <2>2. \A l \in Logins : LoginInv(l)'
    BY <1>7, <2>1, LoginKept DEF Calls, vars
  <2>3. \A n \in Renewals : RenewalInv(n)'
    BY <2>1, RenewalKept DEF Calls
  <2>4. \A c \in Updates : UpdateInv(c)'
    BY <2>1, UpdateKept DEF Calls
  <2>5. \A t \in tokens' : TokenInv(t)'
    BY <2>1, TokenKept
  <2> QED
    BY <2>1, <2>2, <2>3, <2>4, <2>5 DEF SessInv
<1> QED
  BY <1>1, <1>2, <1>3, <1>4, <1>5, <1>6, <1>7 DEF Next

(* SessInv is invariant.                                                    *)
THEOREM SessionsInvariant == Spec => []SessInv
BY InitSessInv, NextSessInv, PTL DEF Spec

(* Every variable keeps its type.                                           *)
THEOREM TypeCorrect == Spec => []TypeOK
<1>1. SessInv => TypeOK
  BY DEF SessInv
<1> QED
  BY <1>1, SessionsInvariant, PTL

(* loginUser hands out tokens only after their session is in the table.     *)
THEOREM TokensAreStored == Spec => []TokensHaveSession
<1>1. SessInv => TokensHaveSession
  BY DEF SessInv, TokenInv, TokensHaveSession
<1> QED
  BY <1>1, SessionsInvariant, PTL

(* Renewals, however many and late, make no access token that outlives the  *)
(* session by more than an access duration and the time the renewal took    *)
(* after it had checked the expiry.                                         *)
THEOREM RenewalIsBounded == Spec => []LifetimeIsBounded
<1>1. SessInv => LifetimeIsBounded
  BY DEF SessInv, TokenInv, LifetimeIsBounded
<1> QED
  BY <1>1, SessionsInvariant, PTL

(* No renewal succeeds that has looked the session up after it was blocked. *)
THEOREM BlockingEndsRenewal == Spec => []BlockedIsNotRenewed
<1>1. SessInv => BlockedIsNotRenewed
  BY DEF SessInv, TokenInv, BlockedIsNotRenewed
<1> QED
  BY <1>1, SessionsInvariant, PTL

(* A password changes only under an access token of the user, or of a       *)
(* banker.                                                                  *)
THEOREM PasswordsAreProtected == Spec => PasswordChangeIsPermitted
<1>1. SessInv /\ [Next]_vars =>
        [\A u \in Users : users'[u].password # users[u].password =>
           \E c \in Updates :
             LET token == arg[c].token
             IN /\ reply[c] # reply'[c] /\ token.type = "access"
                /\ token.role = "banker" \/ sessions[token.login].user = u]_vars
  <2> SUFFICES ASSUME SessInv, Next, NEW u \in Users,
                      users'[u].password # users[u].password
               PROVE  \E c \in Updates :
                        LET token == arg[c].token
                        IN /\ reply[c] # reply'[c] /\ token.type = "access"
                           /\ token.role = "banker" \/ sessions[token.login].user = u
    BY DEF vars
  <2>1. users \in [Users -> UserRows]
    BY DEF SessInv, TypeOK, UserRows
  <2>2. PICK c \in Updates : UpdateUser(c)
    <3>1. \A v \in Users, role \in Roles :
            SetRole(v, role) => users'[u].password = users[u].password
      BY <2>1 DEF SetRole, UserRows
    <3> QED
      BY <3>1 DEF Next, Tick, StartLogin, StartRenewal, StartUpdate, Start, LoginStep,
         RenewalStep, UpdateStep, CallFails, Block, GetUser, WrongPassword,
         CreateAccessToken, CreateRefreshToken, CreateSession, ReturnTokens,
         VerifyToken, InvalidToken, GetSession, SessionRefuses, CheckExpiry,
         SessionExpired, RenewAccessToken, AuthorizeUser, NotAuthorized, Refuse
  <2>3. /\ pc[c] = "write" /\ reply[c] # reply'[c]
        /\ users' = [users EXCEPT ![arg[c].user].password = arg[c].password]
    BY <2>2 DEF UpdateUser, Running, Answer, SessInv, TypeOK, Calls
  <2>4. u = arg[c].user
    BY <2>1, <2>3 DEF UserRows
  <2>5. /\ arg[c].token \in tokens /\ arg[c].token.type = "access"
        /\ arg[c].token.role = "banker" \/ arg[c].token.user = u
    BY <2>3, <2>4 DEF SessInv, UpdateInv
  <2>6. sessions[arg[c].token.login].user = arg[c].token.user
    BY <2>5 DEF SessInv, TokenInv
  <2> QED
    BY <2>3, <2>5, <2>6
<1> QED
  BY <1>1, SessionsInvariant, PTL DEF Spec, PasswordChangeIsPermitted

===============================================================================
