------------------------------ MODULE WebClient ------------------------------
(***************************************************************************)
(* The Vue frontend in one browser tab, and the two calls of the server it *)
(* makes: the store of the signed-in user, the router and its guard, the   *)
(* tree of views and components, the login and registration forms with     *)
(* their requests, and the timers that change the page afterwards.         *)
(*                                                                         *)
(* JavaScript runs to completion, and the views are imported statically,   *)
(* so an event, a timer or an answer is one step, together with the        *)
(* microtasks it starts: guards, emitted events, the next rendering.       *)
(* Between two steps the user may do anything the page offers, and answers *)
(* arrive late, in any order, or never.  Timers are not ordered by their   *)
(* delays (500 ms and 2 s): answers and users take any time in between.    *)
(*                                                                         *)
(* Toasts, errorMessage and layout are left out: nothing reads them.       *)
(***************************************************************************)
EXTENDS Naturals

CONSTANTS
  Users,
  MaxRequests,  \* requests the forms send; also their ids
  null

ASSUME WebClientConstants ==
  /\ MaxRequests \in Nat
  /\ null \notin Nat

VARIABLES
  store,        \* store.ts: user and tokens, in memory only
  path,         \* the current route
  loading,      \* loading of the form on the page
  timers,       \* pending timeouts, by what they push
  issued,       \* requests sent so far
  requests,     \* those whose answer has not been handled
  signedOutAt,  \* requests sent before the last click on a logout button
  registered,   \* at the server: the rows of table users,
  sessions      \* and the logins that have a row in table sessions

vars == <<store, path, loading, timers, issued, requests, signedOutAt,
          registered, sessions>>
server == <<registered, sessions>>

Paths == {"/", "/register", "/dashboard", "/home"}
Empty == ""
Passwords == {"right", "wrong"}

-----------------------------------------------------------------------------
(* The store.                                                               *)

(* The user a response carries.  Its full_name, email and timestamps are    *)
(* only shown.                                                              *)
convertUser(u) == [username |-> u]

(* null is no object and no string, so neither a user nor a user's name.     *)
ASSUME NullIsNoUser == null \notin Users /\ \A u \in Users : convertUser(u) # null

State == [user : {null} \cup {convertUser(u) : u \in Users},
          accessToken : {null} \cup 1..MaxRequests,
          refreshToken : {null} \cup 1..MaxRequests]

noState == [user |-> null, accessToken |-> null, refreshToken |-> null]

(* A token is named after the login it was made for.                        *)
setUser(user, accessToken, refreshToken) ==
  [user |-> user, accessToken |-> accessToken, refreshToken |-> refreshToken]

(* Mutant: the refresh token stays.                                         *)
clearUserButRefresh ==
  [user |-> null, accessToken |-> null, refreshToken |-> store.refreshToken]

clearUser == [user |-> null, accessToken |-> null, refreshToken |-> null]

-----------------------------------------------------------------------------
(* The router.                                                              *)

requiresAuth == {"/dashboard"}
requiresGuest == {"/", "/register", "/home"}

(* Mutant: the check for authentication is forgotten.                       *)
beforeEachUnchecked(to, user) ==
  IF to \in requiresGuest /\ user # null THEN "/dashboard" ELSE to

(* The guard: where a navigation is sent on to, or let through.             *)
beforeEach(to, user) ==
  IF to \in requiresGuest /\ user # null THEN "/dashboard"
  ELSE IF to \in requiresAuth /\ user = null THEN "/"
  ELSE to

(* A redirect is a new navigation and passes the guard again.               *)
Resolve(to, user) == beforeEach(beforeEach(to, user), user)

(* The component on the page.  HomeView is one instance for both its routes *)
(* and switches its content on the user.                                    *)
Mounted(p, user) ==
  CASE p \in {"/", "/home"} -> IF user = null THEN "LoginUser" ELSE "UserInfo"
    [] p = "/register"      -> "RegisterUser"
    [] p = "/dashboard"     -> "DashboardView"

page == Mounted(path, store.user)

(* A request whose form is gone: its handler still runs, on refs and an     *)
(* emit that reach nobody.                                                  *)
Orphan(r) == IF r.form = "mounted" THEN [r EXCEPT !.form = "unmounted"] ELSE r

(* The end of a task: the page of path p and state s is rendered.  A form   *)
(* that was not on the page before starts afresh.                           *)
Render(p, s, busy, pending) ==
  LET kept == Mounted(p, s.user) = page
  IN /\ path' = p
     /\ store' = s
     /\ loading' = (kept /\ busy)
     /\ requests' = IF kept THEN pending ELSE {Orphan(r) : r \in pending}

Navigate(to) == Render(Resolve(to, store.user), store, loading, requests)

(* A push to the current location is a duplicate, and skips the guard.      *)
push(to) ==
  IF to = path THEN Render(path, store, loading, requests) ELSE Navigate(to)

-----------------------------------------------------------------------------
(* Requests.                                                                *)

Request == [id : 1..MaxRequests, kind : {"login", "register"}, user : Users,
            password : Passwords, form : {"mounted", "unmounted", "closed"},
            answer : {"none", "ok", "refused", "lost"}]

(* axios.post: the handler stops at the await, with the form's values of    *)
(* this moment in the request.                                              *)
post(kind, u, password) ==
  /\ issued < MaxRequests
  /\ issued' = issued + 1
  /\ requests' = requests \cup
       {[id |-> issued + 1, kind |-> kind, user |-> u, password |-> password,
         form |-> "mounted", answer |-> "none"]}
  /\ loading' = TRUE
  /\ UNCHANGED <<store, path, timers, signedOutAt, server>>

(* A form's request whose answer is there.                                  *)
Awaited(r, kind, answers) ==
  r \in requests /\ r.kind = kind /\ r.answer \in answers /\ r.form # "closed"

(* Mutant: only a success resets loading.                                   *)
finallyNever(r) == loading

(* finally: loading.value = false, on the form that sent r.                 *)
finally(r) == loading /\ r.form # "mounted"

(* The catch of both handlers: nothing but the message, and finally.        *)
Failed(r, kind) ==
  /\ Awaited(r, kind, {"refused", "lost"})
  /\ Render(path, store, finally(r), requests \ {r})
  /\ UNCHANGED <<timers, issued, signedOutAt, server>>

-----------------------------------------------------------------------------
(* LoginUser.vue.                                                           *)

(* Up to the await.  An empty field gives a toast and nothing else.         *)
handleLogin(u, password) ==
  /\ u # Empty /\ password # Empty
  /\ post("login", u, password)

(* Mutant: the timeout is not set.                                          *)
LoggedInToStay(r) ==
  /\ Awaited(r, "login", {"ok"})
  /\ Render(path, setUser(convertUser(r.user), r.id, r.id), finally(r), requests \ {r})
  /\ UNCHANGED <<timers, issued, signedOutAt, server>>

(* After the await: whoever was signed in, wherever the page is by now.     *)
LoggedIn(r) ==
  /\ Awaited(r, "login", {"ok"})
  /\ Render(path, setUser(convertUser(r.user), r.id, r.id), finally(r), requests \ {r})
  /\ timers' = [timers EXCEPT !.dashboard = @ + 1]
  /\ UNCHANGED <<issued, signedOutAt, server>>

(* What the form offers: the button, disabled while loading, and Enter in   *)
(* either input (handleKeyPress), which is not.                             *)
LoginUser ==
  \E u \in Users \cup {Empty}, password \in Passwords \cup {Empty} :
    \/ ~loading /\ handleLogin(u, password)
    \/ handleLogin(u, password)

-----------------------------------------------------------------------------
(* RegisterUser.vue.                                                        *)

(* filled: the full name and the email are not empty.                       *)
handleRegister(u, password, filled) ==
  /\ u # Empty /\ password # Empty /\ filled
  /\ post("register", u, password)

(* After the await: emit('registered'), which an unmounted form does not,   *)
(* and RegisterView's onRegistered.                                         *)
Registered(r) ==
  /\ Awaited(r, "register", {"ok"})
  /\ Render(path, store, finally(r), requests \ {r})
  /\ timers' = IF r.form = "mounted" THEN [timers EXCEPT !.login = @ + 1] ELSE timers
  /\ UNCHANGED <<issued, signedOutAt, server>>

(* Mutant: a button without :loading.                                       *)
RegisterUserImpatient ==
  \E u \in Users \cup {Empty}, filled \in BOOLEAN : handleRegister(u, "right", filled)

(* The form's only event is its button, disabled while loading.             *)
RegisterUser ==
  \E u \in Users \cup {Empty}, filled \in BOOLEAN :
    ~loading /\ handleRegister(u, "right", filled)

(* The link back, beside the form.                                          *)
goToLogin == push("/") /\ UNCHANGED <<timers, issued, signedOutAt, server>>

RegisterView == path = "/register" /\ (RegisterUser \/ goToLogin)

-----------------------------------------------------------------------------
(* UserInfo.vue and HomeView.vue.                                           *)

(* onLogout: the store is cleared and the page stays.                       *)
onLogout ==
  /\ Render(path, clearUser, loading, requests)
  /\ signedOutAt' = issued
  /\ UNCHANGED <<timers, issued, server>>

(* What the profile offers is its Sign Out button, which emits 'logout'.    *)
UserInfo == onLogout

goToRegister == push("/register") /\ UNCHANGED <<timers, issued, signedOutAt, server>>

goToDashboard == push("/dashboard") /\ UNCHANGED <<timers, issued, signedOutAt, server>>

HomeView ==
  /\ path \in {"/", "/home"}
  /\ \/ store.user # null /\ (UserInfo \/ goToDashboard)
     \/ store.user = null /\ (LoginUser \/ goToRegister)

-----------------------------------------------------------------------------
(* DashboardView.vue.                                                       *)

goToHome == push("/home") /\ UNCHANGED <<timers, issued, signedOutAt, server>>

(* Mutant: the page stays, as in onLogout.                                  *)
logoutAndStay ==
  /\ Render(path, clearUser, loading, requests)
  /\ signedOutAt' = issued
  /\ UNCHANGED <<timers, issued, server>>

(* The guard of this push runs after clearUser.                             *)
logout ==
  /\ Render(Resolve("/", null), clearUser, loading, requests)
  /\ signedOutAt' = issued
  /\ UNCHANGED <<timers, issued, server>>

(* The Logout button and the profile card; the other cards do nothing.      *)
DashboardView == path = "/dashboard" /\ (logout \/ goToHome)

-----------------------------------------------------------------------------
(* Timers, the browser and the network.                                     *)

ToDashboard ==
  /\ timers.dashboard > 0
  /\ timers' = [timers EXCEPT !.dashboard = @ - 1]
  /\ push("/dashboard")
  /\ UNCHANGED <<issued, signedOutAt, server>>

ToLogin ==
  /\ timers.login > 0
  /\ timers' = [timers EXCEPT !.login = @ - 1]
  /\ push("/")
  /\ UNCHANGED <<issued, signedOutAt, server>>

(* Back and forward in a history that holds any of the paths: the router    *)
(* follows the browser through the guard, also to the path it is on.        *)
Traverse ==
  /\ \E p \in Paths : Navigate(p)
  /\ UNCHANGED <<timers, issued, signedOutAt, server>>

(* main.ts on a fresh document: a reload, or an address typed by hand.  The *)
(* requests of the old document may still reach the server.                 *)
Load ==
  /\ \E p \in Paths : path' = Resolve(p, null)
  /\ store' = noState
  /\ loading' = FALSE
  /\ timers' = [dashboard |-> 0, login |-> 0]
  /\ requests' = {[r EXCEPT !.form = "closed"] :
                    r \in {q \in requests : q.answer = "none"}}
  /\ UNCHANGED <<issued, signedOutAt, server>>

(* The answer a goes out; nobody awaits one for a closed document.          *)
Answer(r, a) ==
  /\ requests' = (requests \ {r}) \cup
       (IF r.form = "closed" THEN {} ELSE {[r EXCEPT !.answer = a]})
  /\ UNCHANGED <<store, path, loading, timers, issued, signedOutAt>>

(* The connection fails before the server has the request or after it has   *)
(* answered: axios throws without error.response.                           *)
Lose(r) == r \in requests /\ r.answer # "lost" /\ Answer(r, "lost") /\ UNCHANGED server

(* LoginUser: the user exists, the password is the one of its account, and  *)
(* the session is stored; or an error.                                      *)
rpcLoginUser(r) ==
  /\ r \in requests /\ r.kind = "login" /\ r.answer = "none"
  /\ \/ /\ r.user \in registered /\ r.password = "right"
        /\ Answer(r, "ok")
        /\ sessions' = sessions \cup {[id |-> r.id, user |-> r.user]}
     \/ /\ Answer(r, "refused")
        /\ UNCHANGED sessions
  /\ UNCHANGED registered

(* CreateUser: the name is free, or 409; or another error.                  *)
rpcCreateUser(r) ==
  /\ r \in requests /\ r.kind = "register" /\ r.answer = "none"
  /\ \/ /\ r.user \notin registered
        /\ Answer(r, "ok")
        /\ registered' = registered \cup {r.user}
     \/ /\ Answer(r, "refused")
        /\ UNCHANGED registered
  /\ UNCHANGED sessions

-----------------------------------------------------------------------------
Init ==
  /\ store = noState
  /\ path \in {Resolve(p, null) : p \in Paths}
  /\ loading = FALSE
  /\ timers = [dashboard |-> 0, login |-> 0]
  /\ issued = 0
  /\ requests = {}
  /\ signedOutAt = 0
  /\ registered \in SUBSET Users
  /\ sessions = {}

Handle(r) ==
  LoggedIn(r) \/ Registered(r) \/ Failed(r, "login") \/ Failed(r, "register")

Serve(r) == rpcLoginUser(r) \/ rpcCreateUser(r)

Next ==
  \/ HomeView \/ RegisterView \/ DashboardView
  \/ ToDashboard \/ ToLogin \/ Traverse \/ Load
  \/ \E r \in requests : Handle(r) \/ Serve(r) \/ Lose(r)

Spec == Init /\ [][Next]_vars

(* The browser runs timeouts and handlers of answers, and a request that is *)
(* sent is answered or fails.  Users need not do anything.                  *)
Fairness ==
  /\ WF_vars(ToDashboard) /\ WF_vars(ToLogin)
  /\ \A i \in 1..MaxRequests :
       /\ WF_vars(\E r \in requests : r.id = i /\ Handle(r))
       /\ WF_vars(\E r \in requests : r.id = i /\ (Serve(r) \/ Lose(r)))

FairSpec == Spec /\ Fairness

-----------------------------------------------------------------------------
(* Every variable keeps its type; a timer is set by a request at most.      *)
TypeOK ==
  /\ store \in State
  /\ path \in Paths
  /\ loading \in BOOLEAN
  /\ timers \in [{"dashboard", "login"} -> Nat]
  /\ issued \in 0..MaxRequests
  /\ requests \subseteq Request
  /\ signedOutAt \in 0..issued
  /\ registered \subseteq Users
  /\ sessions \subseteq [id : 1..MaxRequests, user : Users]

(* The dashboard is never on the page without a user, whatever is clicked,  *)
(* answered, timed out or gone back to: every change of the route passes    *)
(* the guard with the store of that moment, and no other step clears the    *)
(* store behind the page's back.                                            *)
DashboardNeedsUser == path = "/dashboard" => store.user # null

(* A login that is answered on a guest page, also on /register or after the *)
(* form is gone, leaves the page there: whenever a user is on one, the      *)
(* timeout that will take them away is still to come.                       *)
GuestPageIsLeft ==
  store.user # null /\ path \in requiresGuest => timers.dashboard > 0

(* user, accessToken and refreshToken come from one login, of that user,    *)
(* that the server has a session for, in whatever order answers arrive; and *)
(* nothing of it stays in the store after a logout.                         *)
StoreIsOneSession ==
  IF store.user = null
  THEN store.accessToken = null /\ store.refreshToken = null
  ELSE /\ store.accessToken = store.refreshToken
       /\ [id |-> store.accessToken, user |-> store.user.username] \in sessions

(* A form that shows its button as loading waits for a request of its own:  *)
(* it is never stuck, although it may be replaced by a fresh one while the  *)
(* answer is under way.                                                     *)
LoadingHasRequest == loading => \E r \in requests : r.form = "mounted"

(* The form on the page has at most one registration under way, so that it  *)
(* cannot tell a user that the name is taken which it has just taken.       *)
OneRegistration ==
  \A r, q \in requests :
    r.kind = "register" /\ q.kind = "register"
      /\ r.form = "mounted" /\ q.form = "mounted" => r = q

(* A button that is loading becomes usable again or leaves the page.        *)
LoadingEnds == loading ~> ~loading

(* The frontend implements the gate.                                        *)
who == IF store.user = null THEN null ELSE store.user.username
screen == IF path \in requiresAuth THEN "private" ELSE "public"

Gate == INSTANCE AuthGate WITH accounts <- registered, Nobody <- null

(* Only users with an account are signed in, only they see the dashboard,   *)
(* they get to it unless they sign out, and leave it only by signing out or *)
(* by a new document: LoginUser, the guard and the timeouts together.       *)
ImplementsGate == Gate!Spec

-----------------------------------------------------------------------------
(* What the frontend says and does not do.                                  *)

(* "You have been logged out" (DashboardView.vue): after a logout only a    *)
(* login that is submitted after it signs somebody in.                      *)
LogoutIsFinal ==
  [][store.user = null /\ store'.user # null
       => store'.accessToken > signedOutAt]_vars
=============================================================================
