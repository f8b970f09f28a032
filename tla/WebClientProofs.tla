--------------------------- MODULE WebClientProofs ---------------------------
(***************************************************************************)
(* The safety invariants of WebClient, for any users and any number of     *)
(* requests.  They are inductive together with the two facts below.        *)
(***************************************************************************)
EXTENDS WebClient, TLAPS

FormOf(kind) == IF kind = "login" THEN "LoginUser" ELSE "RegisterUser"

(* A request whose form is on the page was sent by the form that is there   *)
(* now, and a registration keeps it loading.                                *)
FormsOn(p, busy, pending) ==
  \A r \in pending : r.form = "mounted" =>
    /\ p = FormOf(r.kind)
    /\ r.kind = "register" => busy

(* A login that the server has answered with ok has its session.            *)
AnsweredLogins(pending, stored) ==
  \A r \in pending : r.kind = "login" /\ r.answer = "ok" =>
    [id |-> r.id, user |-> r.user] \in stored

OnlyRegistration(pending) ==
  \A r, q \in pending :
    r.kind = "register" /\ q.kind = "register"
      /\ r.form = "mounted" /\ q.form = "mounted" => r = q

SomeMounted(pending) == \E r \in pending : r.form = "mounted"

(* What holds of loading and the requests of the page p.                    *)
RequestsFit(p, busy, pending) ==
  /\ busy \in BOOLEAN
  /\ pending \subseteq Request
  /\ busy => SomeMounted(pending)
  /\ FormsOn(p, busy, pending)
  /\ OnlyRegistration(pending)

WebInv ==
  /\ TypeOK
  /\ DashboardNeedsUser
  /\ GuestPageIsLeft
  /\ StoreIsOneSession
  /\ RequestsFit(page, loading, requests)
  /\ AnsweredLogins(requests, sessions)

-----------------------------------------------------------------------------
(* The guard sends whoever is signed in to the dashboard, and a guest to a  *)
(* page for guests, whatever route was asked for.                           *)
LEMMA GuardOfUser ==
  ASSUME NEW to \in Paths, NEW user, user # null
  PROVE  Resolve(to, user) = "/dashboard"
BY DEF Resolve, beforeEach, Paths, requiresGuest, requiresAuth

LEMMA GuardOfGuest ==
  ASSUME NEW to \in Paths
  PROVE  Resolve(to, null) \in requiresGuest
BY DEF Resolve, beforeEach, Paths, requiresGuest, requiresAuth

(* Rendering keeps loading and the requests of the page in step, whether    *)
(* the form stays or another component takes its place.                     *)
LEMMA RenderFits ==
  ASSUME NEW p, NEW s, NEW busy, NEW pending, NEW stored,
         Render(p, s, busy, pending),
         RequestsFit(page, busy, pending),
         AnsweredLogins(pending, stored)
  PROVE  /\ path' = p
         /\ store' = s
         /\ RequestsFit(page', loading', requests')
         /\ AnsweredLogins(requests', stored)
<1>1. path' = p /\ store' = s /\ page' = Mounted(p, s.user)
  BY DEF Render, page
<1>2. CASE Mounted(p, s.user) = page
  <2>1. loading' = busy /\ requests' = pending /\ page' = page
    BY <1>1, <1>2 DEF Render, RequestsFit
  <2> QED
    BY <1>1, <2>1
<1>3. CASE Mounted(p, s.user) # page
  <2>1. loading' = FALSE /\ requests' = {Orphan(r) : r \in pending}
    BY <1>3 DEF Render
  <2>2. \A r \in pending : Orphan(r) \in Request /\ Orphan(r).form # "mounted"
    BY DEF RequestsFit, Orphan, Request
  <2>3. \A r \in pending : /\ Orphan(r).kind = r.kind /\ Orphan(r).answer = r.answer
                           /\ Orphan(r).id = r.id /\ Orphan(r).user = r.user
    BY DEF RequestsFit, Orphan, Request
  <2>4. RequestsFit(page', loading', requests')
    BY <2>1, <2>2 DEF RequestsFit, FormsOn, OnlyRegistration, SomeMounted
  <2>5. AnsweredLogins(requests', stored)
    BY <2>1, <2>3 DEF AnsweredLogins
  <2> QED
    BY <1>1, <2>4, <2>5
<1> QED
  BY <1>2, <1>3

(* A handler takes its request away, and finally resets the button of the   *)
(* form that sent it: what is left still fits the page.                     *)
LEMMA HandledFits ==
  ASSUME WebInv, NEW r \in requests
  PROVE  /\ RequestsFit(page, finally(r), requests \ {r})
         /\ AnsweredLogins(requests \ {r}, sessions)
<1> USE DEF WebInv, RequestsFit
<1>1. finally(r) \in BOOLEAN /\ requests \ {r} \subseteq Request
  BY DEF finally
<1>2. finally(r) => SomeMounted(requests \ {r})
  BY DEF finally, SomeMounted
<1>3. FormsOn(page, finally(r), requests \ {r})
  <2> SUFFICES ASSUME NEW q \in requests \ {r}, q.form = "mounted"
               PROVE  page = FormOf(q.kind) /\ (q.kind = "register" => finally(r))
    BY DEF FormsOn
  <2>1. page = FormOf(q.kind) /\ (q.kind = "register" => loading)
    BY DEF FormsOn
  <2>2. ASSUME q.kind = "register", r.form = "mounted"
        PROVE  FALSE
    <3>1. r.kind = "login"
      BY <2>2 DEF OnlyRegistration, Request
    <3> QED
      BY <2>1, <2>2, <3>1 DEF FormsOn, FormOf
  <2> QED
    BY <2>1, <2>2 DEF finally
<1>4. OnlyRegistration(requests \ {r})
  BY DEF OnlyRegistration
<1>5. AnsweredLogins(requests \ {r}, sessions)
  BY DEF AnsweredLogins
<1> QED
  BY <1>1, <1>2, <1>3, <1>4, <1>5

-----------------------------------------------------------------------------
(* One lemma for each kind of step.                                         *)

(* A navigation that passes the guard.                                      *)
LEMMA NavigateStep ==
  ASSUME WebInv, NEW to \in Paths, Navigate(to),
         UNCHANGED <<issued, signedOutAt, server>>,
         timers' \in [{"dashboard", "login"} -> Nat]
  PROVE  WebInv'
<1>1. /\ path' = Resolve(to, store.user) /\ store' = store
      /\ RequestsFit(page', loading', requests')
      /\ AnsweredLogins(requests', sessions)
  BY RenderFits DEF Navigate, WebInv
<1>2. registered' = registered /\ sessions' = sessions
      /\ issued' = issued /\ signedOutAt' = signedOutAt
  BY DEF server
<1>3. IF store.user = null THEN path' \in requiresGuest ELSE path' = "/dashboard"
  BY <1>1, GuardOfUser, GuardOfGuest
<1>4. TypeOK'
  BY <1>1, <1>2, <1>3 DEF WebInv, TypeOK, RequestsFit, Paths, requiresGuest
<1>5. DashboardNeedsUser' /\ GuestPageIsLeft'
  BY <1>1, <1>3 DEF DashboardNeedsUser, GuestPageIsLeft, requiresGuest
<1>6. StoreIsOneSession'
  BY <1>1, <1>2 DEF WebInv, StoreIsOneSession
<1> QED
  BY <1>1, <1>2, <1>4, <1>5, <1>6 DEF WebInv

(* push, from a button or a timeout.  A duplicate leaves the page as it is; *)
(* only a push to the dashboard may use up the timeout of GuestPageIsLeft.  *)
LEMMA PushStep ==
  ASSUME WebInv, NEW to \in Paths, push(to),
         UNCHANGED <<issued, signedOutAt, server>>,
         timers' \in [{"dashboard", "login"} -> Nat],
         to # "/dashboard" => timers'.dashboard = timers.dashboard
  PROVE  WebInv'
<1>1. CASE to = path
  <2>1. /\ path' = path /\ store' = store
        /\ RequestsFit(page', loading', requests')
        /\ AnsweredLogins(requests', sessions)
    BY <1>1, RenderFits DEF push, WebInv
  <2>2. registered' = registered /\ sessions' = sessions
        /\ issued' = issued /\ signedOutAt' = signedOutAt
    BY DEF server
  <2>3. TypeOK'
    BY <2>1, <2>2 DEF WebInv, TypeOK, RequestsFit
  <2>4. DashboardNeedsUser' /\ GuestPageIsLeft' /\ StoreIsOneSession'
    BY <1>1, <2>1, <2>2 DEF WebInv, DashboardNeedsUser, GuestPageIsLeft,
       StoreIsOneSession, requiresGuest
  <2> QED
    BY <2>1, <2>2, <2>3, <2>4 DEF WebInv
<1>2. CASE to # path
  BY <1>2, NavigateStep DEF push
<1> QED
  BY <1>1, <1>2

(* Either logout: the page that follows is one for guests.                  *)
LEMMA SignOutStep ==
  ASSUME WebInv, NEW to \in requiresGuest,
         Render(to, clearUser, loading, requests),
         signedOutAt' = issued,
         UNCHANGED <<timers, issued, server>>
  PROVE  WebInv'
<1>1. /\ path' = to /\ store' = clearUser
      /\ RequestsFit(page', loading', requests')
      /\ AnsweredLogins(requests', sessions)
  BY RenderFits DEF WebInv
<1>2. registered' = registered /\ sessions' = sessions
  BY DEF server
<1>3. TypeOK'
  BY <1>1, <1>2 DEF WebInv, TypeOK, RequestsFit, Paths, requiresGuest, clearUser, State
<1>4. DashboardNeedsUser' /\ GuestPageIsLeft' /\ StoreIsOneSession'
  BY <1>1 DEF DashboardNeedsUser, GuestPageIsLeft, StoreIsOneSession, requiresGuest,
     clearUser
<1> QED
  BY <1>1, <1>2, <1>3, <1>4 DEF WebInv

(* A form that sends a request; that of a registration is not loading.      *)
LEMMA PostStep ==
  ASSUME WebInv, NEW kind \in {"login", "register"}, NEW u \in Users,
         NEW password \in Passwords,
         post(kind, u, password),
         page = FormOf(kind),
         kind = "register" => ~loading
  PROVE  WebInv'
<1> DEFINE new == [id |-> issued + 1, kind |-> kind, user |-> u, password |-> password,
                   form |-> "mounted", answer |-> "none"]
<1>1. /\ requests' = requests \cup {new} /\ loading' = TRUE /\ issued' = issued + 1
      /\ UNCHANGED <<store, path, timers, signedOutAt, registered, sessions>>
  BY DEF post, server
<1>2. issued' \in 1..MaxRequests /\ signedOutAt' \in 0..issued'
  BY <1>1, WebClientConstants DEF post, WebInv, TypeOK
<1>3. new \in Request
  BY <1>1, <1>2 DEF Request
<1>4. page' = page
  BY <1>1 DEF page
<1>5. FormsOn(page, TRUE, requests \cup {new})
  BY DEF WebInv, RequestsFit, FormsOn
<1>6. OnlyRegistration(requests \cup {new})
  BY DEF WebInv, RequestsFit, FormsOn, OnlyRegistration
<1>7. SomeMounted(requests \cup {new})
  <2>1. new \in requests \cup {new} /\ new.form = "mounted"
    OBVIOUS
  <2> HIDE DEF new
  <2> QED
    BY <2>1 DEF SomeMounted
<1>8. requests \cup {new} \subseteq Request
  BY <1>3 DEF WebInv, RequestsFit
<1>9. RequestsFit(page, TRUE, requests \cup {new})
  BY <1>5, <1>6, <1>7, <1>8 DEF RequestsFit
<1>10. RequestsFit(page', loading', requests')
  BY <1>1, <1>4, <1>9
<1>11. AnsweredLogins(requests', sessions')
  BY <1>1 DEF WebInv, AnsweredLogins
<1>12. TypeOK'
  BY <1>1, <1>2, <1>3 DEF WebInv, TypeOK
<1>13. DashboardNeedsUser' /\ GuestPageIsLeft' /\ StoreIsOneSession'
  BY <1>1 DEF WebInv, DashboardNeedsUser, GuestPageIsLeft, StoreIsOneSession
<1> QED
  BY <1>10, <1>11, <1>12, <1>13 DEF WebInv

(* A handler that leaves the store alone: Failed and Registered.            *)
LEMMA HandlerStep ==
  ASSUME WebInv, NEW r \in requests,
         Render(path, store, finally(r), requests \ {r}),
         timers' \in [{"dashboard", "login"} -> Nat],
         timers'.dashboard = timers.dashboard,
         UNCHANGED <<issued, signedOutAt, server>>
  PROVE  WebInv'
<1>1. /\ path' = path /\ store' = store
      /\ RequestsFit(page', loading', requests')
      /\ AnsweredLogins(requests', sessions)
  BY RenderFits, HandledFits DEF WebInv
<1>2. registered' = registered /\ sessions' = sessions
      /\ issued' = issued /\ signedOutAt' = signedOutAt
  BY DEF server
<1>3. TypeOK'
  BY <1>1, <1>2 DEF WebInv, TypeOK, RequestsFit
<1>4. DashboardNeedsUser' /\ GuestPageIsLeft' /\ StoreIsOneSession'
  BY <1>1, <1>2 DEF WebInv, DashboardNeedsUser, GuestPageIsLeft, StoreIsOneSession
<1> QED
  BY <1>1, <1>2, <1>3, <1>4 DEF WebInv

(* The answer of a login: its session is in the table, and the timeout that *)
(* leaves the page is set, wherever that is.                                *)
LEMMA LoggedInStep ==
  ASSUME WebInv, NEW r \in requests, LoggedIn(r)
  PROVE  WebInv'
<1> DEFINE signedIn == setUser(convertUser(r.user), r.id, r.id)
<1>1. /\ r.kind = "login" /\ r.answer = "ok" /\ r.user \in Users
      /\ r.id \in 1..MaxRequests
  BY DEF LoggedIn, Awaited, WebInv, TypeOK, Request
<1>2. /\ path' = path /\ store' = signedIn
      /\ RequestsFit(page', loading', requests')
      /\ AnsweredLogins(requests', sessions)
  BY RenderFits, HandledFits DEF LoggedIn, WebInv
<1>3. /\ timers' = [timers EXCEPT !.dashboard = @ + 1]
      /\ UNCHANGED <<issued, signedOutAt, registered, sessions>>
  BY DEF LoggedIn, server
<1>4. timers' \in [{"dashboard", "login"} -> Nat] /\ timers'.dashboard > 0
  BY <1>3 DEF WebInv, TypeOK
<1>5. signedIn \in State /\ signedIn.user # null /\ signedIn.user.username = r.user
  BY <1>1, NullIsNoUser DEF State, setUser, convertUser
<1>6. TypeOK'
  BY <1>2, <1>3, <1>4, <1>5 DEF WebInv, TypeOK, RequestsFit
<1>7. DashboardNeedsUser' /\ GuestPageIsLeft'
  BY <1>2, <1>4, <1>5 DEF DashboardNeedsUser, GuestPageIsLeft
<1>8. [id |-> r.id, user |-> r.user] \in sessions
  BY <1>1 DEF WebInv, AnsweredLogins
<1>9. StoreIsOneSession'
  BY <1>2, <1>3, <1>5, <1>8 DEF StoreIsOneSession, setUser
<1> QED
  BY <1>2, <1>3, <1>6, <1>7, <1>9 DEF WebInv

(* A new document has no user, no form and no timeout.                      *)
LEMMA LoadStep ==
  ASSUME WebInv, Load
  PROVE  WebInv'
<1> DEFINE closed == {[r EXCEPT !.form = "closed"] : r \in {q \in requests : q.answer = "none"}}
<1>1. /\ store' = noState /\ loading' = FALSE
      /\ timers' = [dashboard |-> 0, login |-> 0] /\ requests' = closed
      /\ UNCHANGED <<issued, signedOutAt, registered, sessions>>
  BY DEF Load, server
<1>2. path' \in requiresGuest
  BY GuardOfGuest DEF Load
<1>3. \A r \in closed : r \in Request /\ r.form # "mounted" /\ r.answer = "none"
  BY DEF WebInv, TypeOK, Request
<1>4. TypeOK'
  <2>1. noState \in State
    BY DEF noState, State
  <2>2. path' \in Paths
    BY <1>2 DEF Paths, requiresGuest
  <2>3. closed \subseteq Request
    BY <1>3
  <2>4. [dashboard |-> 0, login |-> 0] \in [{"dashboard", "login"} -> Nat]
    OBVIOUS
  <2> HIDE DEF closed
  <2> QED
    BY <1>1, <2>1, <2>2, <2>3, <2>4 DEF WebInv, TypeOK
<1>5. DashboardNeedsUser' /\ GuestPageIsLeft' /\ StoreIsOneSession'
  BY <1>1, <1>2 DEF DashboardNeedsUser, GuestPageIsLeft, StoreIsOneSession, noState,
     requiresGuest
<1>6. RequestsFit(page', loading', requests')
  BY <1>1, <1>3 DEF RequestsFit, FormsOn, OnlyRegistration
<1>7. AnsweredLogins(requests', sessions')
  BY <1>1, <1>3 DEF AnsweredLogins
<1> QED
  BY <1>4, <1>5, <1>6, <1>7 DEF WebInv

(* An answer, or its loss, changes no page; sessions only grow, and an ok   *)
(* answer of a login comes with its session.                                *)
LEMMA AnswerStep ==
  ASSUME WebInv, NEW r \in requests, NEW a \in {"ok", "refused", "lost"},
         Answer(r, a),
         registered' \in SUBSET Users,
         sessions' \in SUBSET [id : 1..MaxRequests, user : Users],
         sessions \subseteq sessions',
         r.kind = "login" /\ a = "ok" => [id |-> r.id, user |-> r.user] \in sessions'
  PROVE  WebInv'
<1> DEFINE answered == [r EXCEPT !.answer = a]
<1>1. UNCHANGED <<store, path, loading, timers, issued, signedOutAt>> /\ page' = page
  BY DEF Answer, page
<1>2. /\ answered \in Request /\ answered.form = r.form /\ answered.kind = r.kind
      /\ answered.id = r.id /\ answered.user = r.user /\ answered.answer = a
  BY DEF WebInv, TypeOK, Request
<1>3. requests' \subseteq (requests \ {r}) \cup {answered}
  BY DEF Answer
<1>4. r.form = "mounted" => answered \in requests'
  BY DEF Answer
<1>5. requests \ {r} \subseteq requests'
  BY DEF Answer
<1>6. requests' \subseteq Request
  BY <1>2, <1>3 DEF WebInv, TypeOK
<1>7. SomeMounted(requests) => SomeMounted(requests')
  BY <1>2, <1>4, <1>5 DEF SomeMounted
<1>8. FormsOn(page, loading, requests')
  BY <1>2, <1>3 DEF WebInv, RequestsFit, FormsOn
<1>9. OnlyRegistration(requests')
  BY <1>2, <1>3 DEF WebInv, RequestsFit, OnlyRegistration
<1>10. RequestsFit(page, loading, requests')
  BY <1>6, <1>7, <1>8, <1>9 DEF WebInv, RequestsFit
<1>11. RequestsFit(page', loading', requests')
  BY <1>1, <1>10
<1>12. AnsweredLogins(requests', sessions')
  BY <1>2, <1>3 DEF WebInv, AnsweredLogins
<1>13. TypeOK'
  BY <1>1, <1>6 DEF WebInv, TypeOK
<1>14. DashboardNeedsUser' /\ GuestPageIsLeft' /\ StoreIsOneSession'
  BY <1>1 DEF WebInv, DashboardNeedsUser, GuestPageIsLeft, StoreIsOneSession
<1> QED
  BY <1>11, <1>12, <1>13, <1>14 DEF WebInv

-----------------------------------------------------------------------------
LEMMA InitWebInv == Init => WebInv
<1> SUFFICES ASSUME Init PROVE WebInv
  OBVIOUS
<1>1. path \in requiresGuest
  BY GuardOfGuest DEF Init
<1>2. noState \in State /\ [dashboard |-> 0, login |-> 0] \in [{"dashboard", "login"} -> Nat]
  BY DEF noState, State
<1>3. TypeOK
  <2>1. issued \in 0..MaxRequests /\ signedOutAt \in 0..issued
    BY WebClientConstants DEF Init
  <2>2. path \in Paths
    BY <1>1 DEF Paths, requiresGuest
  <2>3. requests \subseteq Request /\ sessions \subseteq [id : 1..MaxRequests, user : Users]
    BY DEF Init
  <2> QED
    BY <1>2, <2>1, <2>2, <2>3 DEF Init, TypeOK
<1>4. DashboardNeedsUser /\ GuestPageIsLeft /\ StoreIsOneSession
  BY <1>1 DEF Init, DashboardNeedsUser, GuestPageIsLeft, StoreIsOneSession, noState,
     requiresGuest
<1>5. RequestsFit(page, loading, requests) /\ AnsweredLogins(requests, sessions)
  BY DEF Init, RequestsFit, FormsOn, OnlyRegistration, AnsweredLogins
<1> QED
  BY <1>3, <1>4, <1>5 DEF WebInv

LEMMA NextWebInv == WebInv /\ [Next]_vars => WebInv'
<1> SUFFICES ASSUME WebInv, [Next]_vars PROVE WebInv'
  OBVIOUS
<1>1. timers \in [{"dashboard", "login"} -> Nat]
  BY DEF WebInv, TypeOK
<1>2. CASE HomeView
  <2>1. CASE store.user # null /\ UserInfo
    BY <1>2, <2>1, SignOutStep DEF HomeView, UserInfo, onLogout, requiresGuest
  <2>2. CASE goToDashboard
    BY <1>1, <2>2, PushStep DEF goToDashboard, Paths
  <2>3. CASE store.user = null /\ LoginUser
    <3>1. page = FormOf("login")
      BY <1>2, <2>3 DEF HomeView, page, Mounted, FormOf
    <3>2. PICK u \in Users, password \in Passwords : post("login", u, password)
      BY <2>3 DEF LoginUser, handleLogin
    <3> QED
      BY <3>1, <3>2, PostStep
  <2>4. CASE goToRegister
    BY <1>1, <2>4, PushStep DEF goToRegister, Paths
  <2> QED
    BY <1>2, <2>1, <2>2, <2>3, <2>4 DEF HomeView
<1>3. CASE RegisterView
  <2>1. CASE RegisterUser
    <3>1. page = FormOf("register")
      BY <1>3 DEF RegisterView, page, Mounted, FormOf
    <3>2. PICK u \in Users : ~loading /\ post("register", u, "right")
      BY <2>1 DEF RegisterUser, handleRegister
    <3> QED
      BY <3>1, <3>2, PostStep DEF Passwords
  <2>2. CASE goToLogin
    BY <1>1, <2>2, PushStep DEF goToLogin, Paths
  <2> QED
    BY <1>3, <2>1, <2>2 DEF RegisterView
<1>4. CASE DashboardView
  <2>1. CASE logout
    <3>1. Resolve("/", null) \in requiresGuest
      BY GuardOfGuest DEF Paths
    <3> QED
      BY <2>1, <3>1, SignOutStep DEF logout
  <2>2. CASE goToHome
    BY <1>1, <2>2, PushStep DEF goToHome, Paths
  <2> QED
    BY <1>4, <2>1, <2>2 DEF DashboardView
<1>5. CASE ToDashboard
  <2>1. timers' \in [{"dashboard", "login"} -> Nat]
    BY <1>1, <1>5 DEF ToDashboard
  <2> QED
    BY <1>5, <2>1, PushStep DEF ToDashboard, Paths
<1>6. CASE ToLogin
  <2>1. /\ timers' \in [{"dashboard", "login"} -> Nat]
        /\ timers'.dashboard = timers.dashboard
    BY <1>1, <1>6 DEF ToLogin
  <2> QED
    BY <1>6, <2>1, PushStep DEF ToLogin, Paths
<1>7. CASE Traverse
  BY <1>1, <1>7, NavigateStep DEF Traverse
<1>8. CASE Load
  BY <1>8, LoadStep
<1>9. ASSUME NEW r \in requests, Handle(r)
      PROVE  WebInv'
  <2>1. CASE LoggedIn(r)
    BY <2>1, LoggedInStep
  <2>2. CASE Registered(r)
    <3>1. /\ timers' \in [{"dashboard", "login"} -> Nat]
          /\ timers'.dashboard = timers.dashboard
      BY <1>1, <2>2 DEF Registered
    <3> QED
      BY <2>2, <3>1, HandlerStep DEF Registered
  <2>3. CASE Failed(r, "login") \/ Failed(r, "register")
    BY <1>1, <2>3, HandlerStep DEF Failed
  <2> QED
    BY <1>9, <2>1, <2>2, <2>3 DEF Handle
<1>10. ASSUME NEW r \in requests, rpcLoginUser(r)
       PROVE  WebInv'
  <2>1. /\ registered' \in SUBSET Users
        /\ [id |-> r.id, user |-> r.user] \in [id : 1..MaxRequests, user : Users]
    BY <1>10 DEF rpcLoginUser, WebInv, TypeOK, Request
  <2>2. CASE Answer(r, "ok") /\ sessions' = sessions \cup {[id |-> r.id, user |-> r.user]}
    <3>1. sessions' \in SUBSET [id : 1..MaxRequests, user : Users]
      BY <2>1, <2>2 DEF WebInv, TypeOK
    <3> QED
      BY <2>1, <2>2, <3>1, AnswerStep
  <2>3. CASE Answer(r, "refused") /\ UNCHANGED sessions
    <3>1. sessions' \in SUBSET [id : 1..MaxRequests, user : Users]
      BY <2>3 DEF WebInv, TypeOK
    <3> QED
      BY <2>1, <2>3, <3>1, AnswerStep
  <2> QED
    BY <1>10, <2>2, <2>3 DEF rpcLoginUser
<1>11. ASSUME NEW r \in requests, rpcCreateUser(r)
       PROVE  WebInv'
  <2>1. /\ sessions' = sessions /\ sessions' \in SUBSET [id : 1..MaxRequests, user : Users]
        /\ r.kind = "register" /\ r.user \in Users
    BY <1>11 DEF rpcCreateUser, WebInv, TypeOK, Request
  <2>2. registered' \in SUBSET Users
    BY <1>11, <2>1 DEF rpcCreateUser, WebInv, TypeOK
  <2>3. PICK a \in {"ok", "refused"} : Answer(r, a)
    BY <1>11 DEF rpcCreateUser
  <2> QED
    BY <2>1, <2>2, <2>3, AnswerStep
<1>12. ASSUME NEW r \in requests, Lose(r)
       PROVE  WebInv'
  <2>1. /\ registered' \in SUBSET Users /\ sessions' = sessions
        /\ sessions' \in SUBSET [id : 1..MaxRequests, user : Users]
    BY <1>12 DEF Lose, server, WebInv, TypeOK
  <2> QED
    BY <1>12, <2>1, AnswerStep DEF Lose
<1>13. CASE UNCHANGED vars
  <2>1. page' = page
    BY <1>13 DEF vars, page
  <2> QED
    BY <1>13, <2>1 DEF vars, server, WebInv, TypeOK, DashboardNeedsUser, GuestPageIsLeft,
       StoreIsOneSession, RequestsFit, FormsOn, OnlyRegistration, SomeMounted, AnsweredLogins
<1> QED
  BY <1>2, <1>3, <1>4, <1>5, <1>6, <1>7, <1>8, <1>9, <1>10, <1>11, <1>12, <1>13
     DEF Next, Serve

(* WebInv is invariant.  The properties of the run web_client follow.       *)
THEOREM WebInvariant == Spec => []WebInv
BY InitWebInv, NextWebInv, PTL DEF Spec

(* Every variable keeps its type.                                           *)
THEOREM TypeCorrect == Spec => []TypeOK
<1>1. WebInv => TypeOK
  BY DEF WebInv
<1> QED
  BY <1>1, WebInvariant, PTL

(* No answer, timeout, logout or traversal leaves the dashboard on the page *)
(* without a user.                                                          *)
THEOREM DashboardIsGuarded == Spec => []DashboardNeedsUser
<1>1. WebInv => DashboardNeedsUser
  BY DEF WebInv
<1> QED
  BY <1>1, WebInvariant, PTL

(* A signed-in user on a page for guests has the timeout before them that   *)
(* takes them to the dashboard.                                             *)
THEOREM TimeoutIsPending == Spec => []GuestPageIsLeft
<1>1. WebInv => GuestPageIsLeft
  BY DEF WebInv
<1> QED
  BY <1>1, WebInvariant, PTL

(* The store holds the user and the tokens of one login that the server has *)
(* a session for, or nothing, in whatever order answers come.               *)
THEOREM StoreIsWhole == Spec => []StoreIsOneSession
<1>1. WebInv => StoreIsOneSession
  BY DEF WebInv
<1> QED
  BY <1>1, WebInvariant, PTL

(* A button that is loading belongs to a form that awaits an answer.        *)
THEOREM LoadingIsAwaited == Spec => []LoadingHasRequest
<1>1. WebInv => LoadingHasRequest
  BY DEF WebInv, RequestsFit, SomeMounted, LoadingHasRequest
<1> QED
  BY <1>1, WebInvariant, PTL

(* The form on the page never has two registrations under way.              *)
THEOREM RegistrationIsSentOnce == Spec => []OneRegistration
<1>1. WebInv => OneRegistration
  BY DEF WebInv, RequestsFit, OnlyRegistration, OneRegistration
<1> QED
  BY <1>1, WebInvariant, PTL

-----------------------------------------------------------------------------
(* The safety half of ImplementsGate.  A login is answered only for a user  *)
(* who is registered, and stays so.                                         *)
SessionsOfUsers == \A s \in sessions : s.user \in registered

LEMMA SessionsOfUsersInvariant == Spec => []SessionsOfUsers
<1>1. Init => SessionsOfUsers
  BY DEF Init, SessionsOfUsers
<1>2. SessionsOfUsers /\ [Next]_vars => SessionsOfUsers'
  <2> SUFFICES ASSUME SessionsOfUsers, [Next]_vars PROVE SessionsOfUsers'
    OBVIOUS
  <2>1. CASE UNCHANGED server
    BY <2>1 DEF SessionsOfUsers, server
  <2>2. ASSUME NEW r \in requests, rpcLoginUser(r) PROVE SessionsOfUsers'
    BY <2>2 DEF rpcLoginUser, SessionsOfUsers
  <2>3. ASSUME NEW r \in requests, rpcCreateUser(r) PROVE SessionsOfUsers'
    BY <2>3 DEF rpcCreateUser, SessionsOfUsers
  <2>4. \/ UNCHANGED server
        \/ \E r \in requests : rpcLoginUser(r) \/ rpcCreateUser(r)
    BY DEF Next, vars, server, HomeView, RegisterView, DashboardView, ToDashboard, ToLogin,
       Traverse, Load, Handle, Serve, Lose, UserInfo, onLogout, goToDashboard,
       goToRegister, LoginUser, handleLogin, post, RegisterUser, handleRegister,
       goToLogin, logout, goToHome, LoggedIn, Registered, Failed
  <2> QED
    BY <2>1, <2>2, <2>3, <2>4
<1> QED
  BY <1>1, <1>2, PTL DEF Spec

(* A navigation is Enter for a user, and nothing for a guest.               *)
LEMMA NavigationIsEnter ==
  ASSUME WebInv, NEW to \in Paths, Navigate(to), UNCHANGED server
  PROVE  [Gate!Next]_(Gate!vars)
<1>1. store' = store /\ path' = Resolve(to, store.user) /\ registered' = registered
  BY DEF Navigate, Render, server
<1>2. CASE store.user = null
  <2>1. path' \in requiresGuest /\ path # "/dashboard"
    BY <1>1, <1>2, GuardOfGuest DEF WebInv, DashboardNeedsUser
  <2> QED
    BY <1>1, <2>1 DEF Gate!vars, who, screen, requiresGuest, requiresAuth
<1>3. CASE store.user # null
  <2>1. path' = "/dashboard"
    BY <1>1, <1>3, GuardOfUser
  <2>2. store.user.username # null
    BY <1>3, NullIsNoUser DEF WebInv, TypeOK, State, convertUser
  <2>3. Gate!Enter
    BY <1>1, <1>3, <2>1, <2>2 DEF Gate!Enter, who, screen, requiresAuth
  <2> QED
    BY <2>3 DEF Gate!Next
<1> QED
  BY <1>2, <1>3

LEMMA PushIsEnter ==
  ASSUME WebInv, NEW to \in Paths, push(to), UNCHANGED server
  PROVE  [Gate!Next]_(Gate!vars)
<1>1. CASE to = path
  BY <1>1 DEF push, Render, server, Gate!vars, who, screen
<1>2. CASE to # path
  BY <1>2, NavigationIsEnter DEF push
<1> QED
  BY <1>1, <1>2

(* Either logout, and a new document.                                       *)
LEMMA SignOutIsSignOut ==
  ASSUME store'.user = null, path' \in requiresGuest, UNCHANGED registered
  PROVE  [Gate!Next]_(Gate!vars)
BY DEF Gate!Next, Gate!SignOut, who, screen, requiresGuest, requiresAuth

(* One step, by the step of the frontend.                                   *)
LEMMA StepsOfTheGate == WebInv /\ SessionsOfUsers /\ [Next]_vars => [Gate!Next]_(Gate!vars)
<1> SUFFICES ASSUME WebInv, SessionsOfUsers, [Next]_vars PROVE [Gate!Next]_(Gate!vars)
  OBVIOUS
<1>1. ASSUME UNCHANGED <<store, path, registered>>
      PROVE  [Gate!Next]_(Gate!vars)
  BY <1>1 DEF Gate!vars, who, screen
<1>2. CASE HomeView
  <2>1. CASE UserInfo
    <3>1. store'.user = null /\ path' \in requiresGuest /\ UNCHANGED registered
      BY <1>2, <2>1 DEF HomeView, UserInfo, onLogout, Render, clearUser, server, requiresGuest
    <3> QED
      BY <3>1, SignOutIsSignOut
  <2>2. CASE goToDashboard
    BY <2>2, PushIsEnter DEF goToDashboard, Paths
  <2>3. CASE LoginUser
    BY <1>1, <2>3 DEF LoginUser, handleLogin, post, server
  <2>4. CASE goToRegister
    BY <2>4, PushIsEnter DEF goToRegister, Paths
  <2> QED
    BY <1>2, <2>1, <2>2, <2>3, <2>4 DEF HomeView
<1>3. CASE RegisterView
  <2>1. CASE RegisterUser
    BY <1>1, <2>1 DEF RegisterUser, handleRegister, post, server
  <2>2. CASE goToLogin
    BY <2>2, PushIsEnter DEF goToLogin, Paths
  <2> QED
    BY <1>3, <2>1, <2>2 DEF RegisterView
<1>4. CASE DashboardView
  <2>1. CASE logout
    <3>1. store'.user = null /\ path' \in requiresGuest /\ UNCHANGED registered
      BY <2>1, GuardOfGuest DEF logout, Render, clearUser, server, Paths
    <3> QED
      BY <3>1, SignOutIsSignOut
  <2>2. CASE goToHome
    BY <2>2, PushIsEnter DEF goToHome, Paths
  <2> QED
    BY <1>4, <2>1, <2>2 DEF DashboardView
<1>5. CASE ToDashboard
  BY <1>5, PushIsEnter DEF ToDashboard, Paths
<1>6. CASE ToLogin
  BY <1>6, PushIsEnter DEF ToLogin, Paths
<1>7. CASE Traverse
  BY <1>7, NavigationIsEnter DEF Traverse
<1>8. CASE Load
  <2>1. store'.user = null /\ path' \in requiresGuest /\ UNCHANGED registered
    BY <1>8, GuardOfGuest DEF Load, noState, server
  <2> QED
    BY <2>1, SignOutIsSignOut
<1>9. ASSUME NEW r \in requests, LoggedIn(r)
      PROVE  [Gate!Next]_(Gate!vars)
  <2>1. r.user \in registered
    <3>1. [id |-> r.id, user |-> r.user] \in sessions
      BY <1>9 DEF LoggedIn, Awaited, WebInv, AnsweredLogins
    <3> QED
      BY <3>1 DEF SessionsOfUsers
  <2>2. /\ path' = path /\ UNCHANGED registered
        /\ store'.user = convertUser(r.user)
    BY <1>9 DEF LoggedIn, Render, setUser, server
  <2>3. convertUser(r.user) # null /\ convertUser(r.user).username = r.user
    BY NullIsNoUser DEF WebInv, TypeOK, Request, convertUser
  <2>4. Gate!SignIn
    BY <2>1, <2>2, <2>3 DEF Gate!SignIn, who, screen
  <2> QED
    BY <2>4 DEF Gate!Next
<1>10. ASSUME NEW r \in requests, Registered(r) \/ Failed(r, "login") \/ Failed(r, "register")
       PROVE  [Gate!Next]_(Gate!vars)
  BY <1>1, <1>10 DEF Registered, Failed, Render, server
<1>11. ASSUME NEW r \in requests, rpcLoginUser(r) \/ Lose(r)
       PROVE  [Gate!Next]_(Gate!vars)
  BY <1>1, <1>11 DEF rpcLoginUser, Lose, Answer, server
<1>12. ASSUME NEW r \in requests, rpcCreateUser(r)
       PROVE  [Gate!Next]_(Gate!vars)
  <2>1. UNCHANGED <<store, path>> /\ r.user \in Users
    BY <1>12 DEF rpcCreateUser, Answer, WebInv, TypeOK, Request
  <2>2. CASE registered' = registered \cup {r.user}
    <3>1. Gate!OpenAccount
      BY <2>1, <2>2 DEF Gate!OpenAccount, who, screen
    <3> QED
      BY <3>1 DEF Gate!Next
  <2>3. CASE UNCHANGED registered
    BY <1>1, <2>1, <2>3
  <2> QED
    BY <1>12, <2>2, <2>3 DEF rpcCreateUser
<1>13. CASE UNCHANGED vars
  BY <1>1, <1>13 DEF vars
<1> QED
  BY <1>2, <1>3, <1>4, <1>5, <1>6, <1>7, <1>8, <1>9, <1>10, <1>11, <1>12, <1>13
     DEF Next, Handle, Serve

(* Every step of the frontend is one of AuthGate or changes nothing in it:  *)
(* nobody without an account is signed in, the private screen is entered    *)
(* only by a user and left only by signing out.                             *)
THEOREM GateIsKept == Spec => Gate!Init /\ [][Gate!Next]_(Gate!vars)
<1>1. Init => Gate!Init
  <2> SUFFICES ASSUME Init PROVE Gate!Init
    OBVIOUS
  <2>1. path \in requiresGuest
    BY GuardOfGuest DEF Init
  <2> QED
    BY <2>1 DEF Init, Gate!Init, who, screen, noState, requiresGuest, requiresAuth
<1> QED
  BY <1>1, WebInvariant, SessionsOfUsersInvariant, StepsOfTheGate, PTL DEF Spec

==============================================================================
