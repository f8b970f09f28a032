----------------------- MODULE EmailVerificationProofs -----------------------
(***************************************************************************)
(* The properties of EmailVerification for any registrations, clicks and   *)
(* users.  The inductive invariant has a part for the transactions that    *)
(* create users, one for the worker's attempts, one for the rows of        *)
(* verify_emails and one for the transactions of the clicks.               *)
(***************************************************************************)
EXTENDS EmailVerification, TLAPS

RegisterSteps == {"idle", "insert", "enqueue", "commit", "rollback", "committed", "aborted"}
ClickSteps == {"idle", "row", "user", "commit", "rollback", "committed", "aborted"}
LinkRows == [user: Users, email: Emails, used: BOOLEAN, expired: BOOLEAN]

RegisterInv(r) ==
  /\ pc[r] \in RegisterSteps
  /\ pc[r] = "enqueue" => req[r].api = "grpc"
  /\ pc[r] \in {"commit", "committed"} /\ req[r].api = "grpc" => tasks[r].state # "none"
  /\ pc[r] \in {"idle", "insert", "enqueue"} => tasks[r].state = "none"
  /\ pc[r] = "committed" => users[req[r].user] # NoUser
  /\ r \in Inserted => ~Taken(req[r])

(* Uncommitted users differ in both keys, and nobody is created twice.       *)
Apart(r, s) ==
  /\ r \in Inserted /\ s \in Inserted =>
       req[r].user # req[s].user /\ req[r].email # req[s].email
  /\ pc[r] = "committed" /\ pc[s] = "committed" => req[r].user # req[s].user

(* An email is among those its user has had, and is nobody else's.           *)
UserEmails ==
  /\ \A u \in Users : users[u] # NoUser => users[u].email \in users[u].held
  /\ \A u, v \in Users : u # v /\ users[u] # NoUser /\ users[v] # NoUser
                         => users[u].email # users[v].email

RegisterPart ==
  /\ \A r \in Registrations : RegisterInv(r)
  /\ \A r, s \in Registrations : r # s => Apart(r, s)
  /\ UserEmails

(* The attempt under way has made its row, or the last one may have.         *)
Created(r) == IF \/ tasks[r].state = "active" /\ work[r].step \in {"send", "done"}
                 \/ tasks[r].state \in {"completed", "archived"}
              THEN 1 ELSE 0

Held(e, u) == users[u] # NoUser /\ e \in users[u].held

WorkInv(r) ==
  /\ tasks[r].state # "active" => work[r].step = "none"
  /\ work[r].step = "create" => Held(work[r].email, req[r].user)
  /\ tasks[r].state = "none" => attempts[r] = 0
  /\ attempts[r] <= tasks[r].retried + shutdowns + Created(r)

RowInv(id) ==
  /\ Held(rows[id].email, rows[id].user)
  /\ id[2] < attempts[id[1]]

ClickInv(k) ==
  /\ pc[k] \in ClickSteps
  /\ pc[k] # "idle" => click[k].id \in mailbox
  /\ HoldsRow(k) => ~rows[click[k].id].used
  /\ pc[k] = "committed" => rows[click[k].id].used

ClickPart ==
  /\ \A k \in Clicks : ClickInv(k)
  /\ \A j, k \in Clicks : j # k /\ HoldsRow(j) /\ HoldsRow(k) => click[j].id # click[k].id
  /\ LinkIsUsedOnce

Functions ==
  /\ req = [r \in Registrations |-> req[r]]
  /\ click = [k \in Clicks |-> click[k]]

VerifyInv ==
  /\ TypeOK /\ Functions
  /\ RegisterPart
  /\ \A r \in Registrations : WorkInv(r)
  /\ \A id \in DOMAIN rows : RowInv(id)
  /\ ClickPart
  /\ VerifiedByUsedLink

-----------------------------------------------------------------------------
(* Types.                                                                    *)

WorkTypes(ids) == [step: {"none", "getUser", "done"}]
                  \cup [step: {"create"}, email: Emails]
                  \cup [step: {"send"}, id: ids]

LEMMA CallsSplit ==
  /\ \A r \in Registrations : r \in Calls /\ r \notin Clicks
  /\ \A k \in Clicks : k \in Calls /\ k \notin Registrations
  /\ \A x \in Calls : x \in Registrations \/ x \in Clicks
BY CallsAreDistinct DEF Calls

LEMMA StepNames == RegisterSteps \subseteq CallSteps /\ ClickSteps \subseteq CallSteps
BY DEF RegisterSteps, ClickSteps, CallSteps

LEMMA UserRowTypes ==
  /\ \A row \in UserRows : /\ row # NoUser /\ row.email \in Emails
                            /\ row.verified \in BOOLEAN /\ row.held \subseteq Emails
  /\ \A e \in Emails, b \in BOOLEAN, old \in SUBSET Emails :
       [email |-> e, verified |-> b, held |-> old] \in UserRows
BY NoUserIsNoRow DEF UserRows

LEMMA UserRead ==
  ASSUME TypeOK, NEW u \in Users
  PROVE  users[u] # NoUser => users[u] \in UserRows
BY DEF TypeOK, UserRows

(* The arguments of a registration that has begun, or whose task is queued.  *)
LEMMA RequestTypes ==
  ASSUME VerifyInv, NEW r \in Registrations, pc[r] # "idle" \/ tasks[r].state # "none"
  PROVE  /\ pc[r] # "idle" /\ req[r] \in Requests
         /\ req[r].user \in Users /\ req[r].email \in Emails
<1>1. pc[r] # "idle"
  BY DEF VerifyInv, RegisterPart, RegisterInv
<1>2. req[r] \in Requests
  BY <1>1 DEF VerifyInv, TypeOK
<1> QED
  BY <1>1, <1>2 DEF Requests

(* A step that leaves the worker's variables and the links alone.            *)
LEMMA TypeOfCalls ==
  ASSUME TypeOK, UNCHANGED <<workerVars, rows>>,
         pc' \in [Calls -> CallSteps],
         reply' \in [Calls -> {"none", "ok", "exists", "err"}],
         users' \in [Users -> UserRows \cup {NoUser}],
         \A r \in Registrations : pc'[r] = "idle" \/ req'[r] \in Requests,
         \A k \in Clicks : pc'[k] # "idle" => click'[k] \in [id: DOMAIN rows, fresh: BOOLEAN]
  PROVE  TypeOK'
BY DEF TypeOK, workerVars, UserRows

(* A step of the worker that leaves the links alone.                         *)
LEMMA TypeOfWorker ==
  ASSUME TypeOK, UNCHANGED <<registerVars, callVars, click, rows, attempts>>,
         tasks' \in [Registrations -> [state: States, retried: 0..MaxRetry]],
         work' \in [Registrations -> WorkTypes(DOMAIN rows)],
         mailbox' \subseteq DOMAIN rows,
         shutdowns' \in 0..MaxShutdowns
  PROVE  TypeOK'
BY DEF TypeOK, registerVars, callVars, WorkTypes

-----------------------------------------------------------------------------
(* What a step leaves alone keeps its part of the invariant.                 *)

UsersStay ==
  \A u \in Users : users[u] # NoUser =>
    users'[u] # NoUser /\ users[u].held \subseteq users'[u].held

LEMMA RegisterPartKept ==
  ASSUME VerifyInv, UNCHANGED <<req, users>>,
         \A r \in Registrations :
           pc'[r] = pc[r] /\ (tasks'[r].state = "none" <=> tasks[r].state = "none")
  PROVE  RegisterPart'
<1>1. RegisterPart
  BY DEF VerifyInv
<1>2. Inserted' = Inserted
  BY DEF Inserted
<1>3. ASSUME NEW r \in Registrations PROVE RegisterInv(r)'
  BY <1>1, <1>2 DEF RegisterPart, RegisterInv, Taken
<1>4. ASSUME NEW r \in Registrations, NEW s \in Registrations, r # s PROVE Apart(r, s)'
  BY <1>1, <1>2, <1>4 DEF RegisterPart, Apart
<1>5. UserEmails'
  BY <1>1 DEF RegisterPart, UserEmails
<1> QED
  BY <1>3, <1>4, <1>5 DEF RegisterPart

LEMMA WorkKept ==
  ASSUME VerifyInv, NEW r \in Registrations,
         tasks'[r] = tasks[r], work'[r] = work[r], attempts'[r] = attempts[r],
         tasks[r].state # "none" => req'[r] = req[r],
         UsersStay, shutdowns' \in Nat, shutdowns <= shutdowns'
  PROVE  WorkInv(r)'
<1>1. WorkInv(r) /\ attempts[r] \in Nat /\ tasks[r].retried \in Nat /\ shutdowns \in Nat
  BY RetryBounds DEF VerifyInv, TypeOK
<1>2. Created(r)' = Created(r) /\ Created(r) \in Nat
  BY DEF Created
<1>3. work[r].step = "create" => req'[r] = req[r] /\ Held(work[r].email, req[r].user)'
  <2>1. work[r].step = "create" => tasks[r].state # "none"
    BY <1>1 DEF WorkInv
  <2> QED
    BY <1>1, <2>1, RequestTypes DEF WorkInv, UsersStay, Held
<1>4. attempts[r] <= tasks[r].retried + shutdowns + Created(r)
  BY <1>1 DEF WorkInv
<1>5. attempts[r] <= tasks[r].retried + shutdowns' + Created(r)
  BY <1>1, <1>2, <1>4
<1> QED
  BY <1>1, <1>2, <1>3, <1>5 DEF WorkInv, Held

LEMMA RowTypes ==
  ASSUME VerifyInv, NEW id \in DOMAIN rows
  PROVE  /\ rows[id] \in LinkRows /\ rows[id].user \in Users
         /\ rows[id].used \in BOOLEAN /\ rows[id].expired \in BOOLEAN
         /\ id \in RowIds /\ id[1] \in Registrations /\ id[2] \in Nat
         /\ attempts[id[1]] \in Nat
<1>1. rows[id] \in LinkRows /\ id \in RowIds /\ attempts \in [Registrations -> Nat]
  BY RetryBounds DEF VerifyInv, TypeOK, LinkRows
<1>2. id[1] \in Registrations /\ id[2] \in Nat
  BY <1>1, RetryBounds DEF RowIds
<1> QED
  BY <1>1, <1>2 DEF LinkRows

LEMMA RowKept ==
  ASSUME VerifyInv, NEW id \in DOMAIN rows, UsersStay,
         rows'[id].user = rows[id].user, rows'[id].email = rows[id].email,
         attempts'[id[1]] \in Nat, attempts[id[1]] <= attempts'[id[1]]
  PROVE  RowInv(id)'
<1>1. RowInv(id)
  BY DEF VerifyInv
<1> QED
  BY <1>1, RowTypes DEF RowInv, UsersStay, Held

LEMMA ClickKept ==
  ASSUME VerifyInv, NEW k \in Clicks,
         pc'[k] = pc[k], click'[k] = click[k], mailbox \subseteq mailbox',
         pc[k] # "idle" => rows'[click[k].id].used = rows[click[k].id].used
  PROVE  ClickInv(k)'
<1>1. ClickInv(k)
  BY DEF VerifyInv, ClickPart
<1> QED
  BY <1>1 DEF ClickInv, HoldsRow

LEMMA ClickPartKept ==
  ASSUME VerifyInv, UNCHANGED click, mailbox \subseteq mailbox',
         \A k \in Clicks : pc'[k] = pc[k],
         \A id \in DOMAIN rows : rows'[id].used = rows[id].used
  PROVE  ClickPart'
<1>1. ClickPart
  BY DEF VerifyInv
<1>2. ASSUME NEW k \in Clicks PROVE ClickInv(k)'
  <2>1. pc[k] # "idle" => click[k].id \in DOMAIN rows
    BY <1>1 DEF ClickPart, ClickInv, VerifyInv, TypeOK
  <2> QED
    BY <2>1, ClickKept
<1> QED
  BY <1>1, <1>2 DEF ClickPart, HoldsRow, LinkIsUsedOnce

LEMMA VerifiedKept ==
  ASSUME VerifyInv, UNCHANGED users, DOMAIN rows' = DOMAIN rows,
         \A id \in DOMAIN rows : /\ rows'[id].used = rows[id].used
                                 /\ rows'[id].user = rows[id].user
  PROVE  VerifiedByUsedLink'
BY DEF VerifyInv, VerifiedByUsedLink

-----------------------------------------------------------------------------
(* Three kinds of steps and what has to be shown of each.                    *)

(* A step of the registration r that commits nothing.                        *)
LEMMA RegisterStep ==
  ASSUME VerifyInv, NEW r \in Registrations, TypeOK', Functions',
         UNCHANGED <<users, rows, click, mailbox, attempts, shutdowns, work>>,
         \A x \in Calls \ {r} : pc'[x] = pc[x],
         \A s \in Registrations \ {r} : req'[s] = req[s] /\ tasks'[s] = tasks[s],
         RegisterInv(r)', WorkInv(r)',
         \A s \in Registrations \ {r} : Apart(r, s)' /\ Apart(s, r)'
  PROVE  VerifyInv'
<1>1. RegisterPart /\ \A k \in Clicks : pc'[k] = pc[k]
  BY CallsSplit DEF VerifyInv
<1>2. ASSUME NEW s \in Registrations \ {r} PROVE RegisterInv(s)'
  <2>1. pc'[s] = pc[s] /\ (s \in Inserted' <=> s \in Inserted)
    BY CallsSplit DEF Inserted
  <2> QED
    BY <1>1, <2>1 DEF RegisterPart, RegisterInv, Taken
<1>3. ASSUME NEW s \in Registrations \ {r}, NEW t \in Registrations \ {r}, s # t
      PROVE  Apart(s, t)'
  <2>1. /\ pc'[s] = pc[s] /\ (s \in Inserted' <=> s \in Inserted)
        /\ pc'[t] = pc[t] /\ (t \in Inserted' <=> t \in Inserted)
    BY CallsSplit DEF Inserted
  <2> QED
    BY <1>1, <1>3, <2>1 DEF RegisterPart, Apart
<1>4. RegisterPart'
  <2>1. UserEmails'
    BY <1>1 DEF RegisterPart, UserEmails
  <2>2. \A s \in Registrations : RegisterInv(s)'
    BY <1>2
  <2>3. \A s, t \in Registrations : s # t => Apart(s, t)'
    BY <1>3
  <2> QED
    BY <2>1, <2>2, <2>3 DEF RegisterPart
<1>5. UsersStay /\ shutdowns' \in Nat /\ shutdowns <= shutdowns'
  BY RetryBounds DEF UsersStay, VerifyInv, TypeOK
<1>6. ASSUME NEW s \in Registrations PROVE WorkInv(s)'
  BY <1>5, WorkKept
<1>7. ASSUME NEW id \in DOMAIN rows PROVE RowInv(id)'
  BY <1>5, RowKept, RowTypes
<1>8. ClickPart' /\ VerifiedByUsedLink'
  BY <1>1, ClickPartKept, VerifiedKept
<1> QED
  BY <1>4, <1>6, <1>7, <1>8 DEF VerifyInv

(* A step of the click k that commits nothing.                               *)
LEMMA ClickStep ==
  ASSUME VerifyInv, NEW k \in Clicks, TypeOK', Functions',
         UNCHANGED <<registerVars, workerVars, rows>>,
         \A x \in Calls \ {k} : pc'[x] = pc[x],
         \A j \in Clicks \ {k} : click'[j] = click[j],
         ClickInv(k)', pc'[k] # "committed",
         \A j \in Clicks \ {k} :
           HoldsRow(j) /\ HoldsRow(k)' => click'[j].id # click'[k].id
  PROVE  VerifyInv'
<1>1. UNCHANGED <<req, users, tasks, work, attempts, mailbox, shutdowns>>
      /\ \A r \in Registrations : pc'[r] = pc[r]
  BY CallsSplit DEF registerVars, workerVars
<1>2. UsersStay /\ shutdowns' \in Nat /\ shutdowns <= shutdowns'
  BY <1>1, RetryBounds DEF UsersStay, VerifyInv, TypeOK
<1>3. RegisterPart' /\ VerifiedByUsedLink'
  BY <1>1, RegisterPartKept, VerifiedKept
<1>4. ASSUME NEW s \in Registrations PROVE WorkInv(s)'
  BY <1>1, <1>2, WorkKept
<1>5. ASSUME NEW id \in DOMAIN rows PROVE RowInv(id)'
  BY <1>1, <1>2, RowKept, RowTypes
<1>6. ASSUME NEW j \in Clicks \ {k}
      PROVE  ClickInv(j)' /\ (HoldsRow(j)' <=> HoldsRow(j))
  BY <1>1, ClickKept, CallsSplit DEF HoldsRow
<1>7. ClickPart'
  <2>1. ClickPart
    BY DEF VerifyInv
  <2>2. \A j \in Clicks : ClickInv(j)'
    BY <1>6
  <2>3. \A i, j \in Clicks : i # j /\ HoldsRow(i)' /\ HoldsRow(j)' => click'[i].id # click'[j].id
    BY <1>6, <2>1 DEF ClickPart
  <2>4. LinkIsUsedOnce'
    BY <2>1, CallsSplit DEF ClickPart, LinkIsUsedOnce
  <2> QED
    BY <2>2, <2>3, <2>4 DEF ClickPart
<1> QED
  BY <1>3, <1>4, <1>5, <1>7 DEF VerifyInv

(* A step of the attempt at the task r that adds no row.                     *)
LEMMA AttemptStep ==
  ASSUME VerifyInv, NEW r \in Registrations, TypeOK',
         UNCHANGED <<registerVars, callVars, click, rows, attempts>>,
         \A s \in Registrations \ {r} : tasks'[s] = tasks[s] /\ work'[s] = work[s],
         tasks[r].state # "none" /\ tasks'[r].state # "none",
         shutdowns <= shutdowns', mailbox \subseteq mailbox',
         WorkInv(r)'
  PROVE  VerifyInv'
<1>1. UNCHANGED <<req, users, pc, reply>>
  BY DEF registerVars, callVars
<1>2. UsersStay /\ shutdowns' \in Nat
  BY <1>1, RetryBounds DEF UsersStay, TypeOK
<1>3. RegisterPart' /\ VerifiedByUsedLink' /\ ClickPart' /\ Functions'
  BY <1>1, RegisterPartKept, VerifiedKept, ClickPartKept DEF VerifyInv, Functions
<1>4. ASSUME NEW s \in Registrations PROVE WorkInv(s)'
  BY <1>1, <1>2, WorkKept
<1>5. ASSUME NEW id \in DOMAIN rows PROVE RowInv(id)'
  BY <1>1, <1>2, RowKept, RowTypes
<1> QED
  BY <1>3, <1>4, <1>5 DEF VerifyInv

-----------------------------------------------------------------------------
LEMMA InvInit == Init => VerifyInv
<1> SUFFICES ASSUME Init PROVE VerifyInv
  OBVIOUS
<1>1. TypeOK
  <2>1. DOMAIN rows = {} /\ rows \in [DOMAIN rows -> LinkRows]
    BY DEF Init
  <2> QED
    BY <2>1, RetryBounds DEF Init, TypeOK, CallSteps, States, LinkRows, Calls
<1>2. Functions
  BY DEF Init, Functions
<1>3. RegisterPart
  BY CallsSplit DEF Init, RegisterPart, RegisterInv, RegisterSteps, Apart, UserEmails,
     Inserted
<1>4. \A r \in Registrations : WorkInv(r)
  BY DEF Init, WorkInv, Created
<1>5. DOMAIN rows = {}
  BY DEF Init
<1>6. ClickPart
  BY CallsSplit DEF Init, ClickPart, ClickInv, ClickSteps, HoldsRow, LinkIsUsedOnce
<1>7. VerifiedByUsedLink
  BY DEF Init, VerifiedByUsedLink
<1> QED
  BY <1>1, <1>2, <1>3, <1>4, <1>5, <1>6, <1>7 DEF VerifyInv

-----------------------------------------------------------------------------
(* Registration.                                                             *)

LEMMA RegisterKeeps ==
  ASSUME VerifyInv, NEW r \in Registrations, Register(r)
  PROVE  VerifyInv'
<1>1. PICK q \in Requests : req' = [req EXCEPT ![r] = q]
  BY DEF Register
<1>2. /\ pc[r] = "idle" /\ pc' = [pc EXCEPT ![r] = "insert"]
      /\ UNCHANGED <<users, workerVars, reply, rows, click>>
      /\ UNCHANGED <<tasks, work, attempts, mailbox, shutdowns>>
  BY DEF Register, GoTo, workerVars
<1>3. TypeOK /\ Functions /\ RegisterPart /\ WorkInv(r)
  BY DEF VerifyInv
<1>4. /\ pc'[r] = "insert" /\ req'[r] = q
      /\ \A x \in Calls \ {r} : pc'[x] = pc[x]
      /\ \A s \in Registrations \ {r} : req'[s] = req[s]
  BY <1>1, <1>2, <1>3, CallsSplit DEF TypeOK, Functions
<1>5. TypeOK'
  <2>1. pc' \in [Calls -> CallSteps]
    BY <1>2, <1>3 DEF TypeOK, CallSteps
  <2>2. \A s \in Registrations : pc'[s] = "idle" \/ req'[s] \in Requests
    BY <1>3, <1>4, CallsSplit DEF TypeOK
  <2>3. \A k \in Clicks : pc'[k] # "idle" => click'[k] \in [id: DOMAIN rows, fresh: BOOLEAN]
    BY <1>2, <1>3, <1>4, CallsSplit DEF TypeOK
  <2>4. /\ users' \in [Users -> UserRows \cup {NoUser}]
        /\ reply' \in [Calls -> {"none", "ok", "exists", "err"}]
    BY <1>2, <1>3 DEF TypeOK, UserRows
  <2> QED
    BY <1>2, <1>3, <2>1, <2>2, <2>3, <2>4, TypeOfCalls
<1>6. Functions'
  BY <1>1, <1>2, <1>3 DEF Functions
<1>7. RegisterInv(r)'
  BY <1>2, <1>3, <1>4 DEF RegisterPart, RegisterInv, RegisterSteps, Inserted
<1>8. WorkInv(r)'
  BY <1>2, <1>3, <1>4 DEF WorkInv, Held, Created, RegisterPart, RegisterInv
<1>9. \A s \in Registrations \ {r} : Apart(r, s)' /\ Apart(s, r)'
  BY <1>4 DEF Apart, Inserted
<1> QED
  BY <1>2, <1>4, <1>5, <1>6, <1>7, <1>8, <1>9, RegisterStep

(* The steps of a registration after that change only pc and the answer.     *)
LEMMA PcStep ==
  ASSUME VerifyInv, NEW r \in Registrations, pc[r] # "idle",
         NEW step \in RegisterSteps \ {"idle"}, pc' = [pc EXCEPT ![r] = step],
         reply' \in [Calls -> {"none", "ok", "exists", "err"}],
         UNCHANGED <<registerVars, rows, click, work, attempts, mailbox, shutdowns>>,
         tasks' \in [Registrations -> [state: States, retried: 0..MaxRetry]],
         \A s \in Registrations \ {r} : tasks'[s] = tasks[s],
         RegisterInv(r)', WorkInv(r)',
         \A s \in Registrations \ {r} : Apart(r, s)' /\ Apart(s, r)'
  PROVE  VerifyInv'
<1>1. UNCHANGED <<req, users>> /\ TypeOK /\ Functions
  BY DEF registerVars, VerifyInv
<1>2. step \in CallSteps
  BY StepNames
<1>3. pc' \in [Calls -> CallSteps] /\ pc'[r] = step /\ \A x \in Calls \ {r} : pc'[x] = pc[x]
  BY <1>1, <1>2, CallsSplit DEF TypeOK
<1>4. TypeOK'
  <2>1. \A s \in Registrations : pc'[s] = "idle" \/ req'[s] \in Requests
    BY <1>1, <1>3, CallsSplit DEF TypeOK
  <2>2. \A k \in Clicks : pc'[k] # "idle" => click'[k] \in [id: DOMAIN rows, fresh: BOOLEAN]
    BY <1>1, <1>3, CallsSplit DEF TypeOK
  <2> QED
    BY <1>1, <1>3, <2>1, <2>2 DEF TypeOK
<1>5. Functions'
  BY <1>1 DEF Functions
<1> QED
  BY <1>1, <1>3, <1>4, <1>5, RegisterStep

LEMMA InsertUserKeeps ==
  ASSUME VerifyInv, NEW r \in Registrations, InsertUser(r)
  PROVE  VerifyInv'
<1> DEFINE step == IF req[r].api = "grpc" THEN "enqueue" ELSE "commit"
<1>1. /\ pc[r] = "insert" /\ ~MustWait(r) /\ ~Taken(req[r])
      /\ pc' = [pc EXCEPT ![r] = step]
      /\ UNCHANGED <<registerVars, workerVars, reply, rows, click>>
      /\ UNCHANGED <<req, users, tasks, work, attempts, mailbox, shutdowns>>
  BY DEF InsertUser, Running, GoTo, registerVars, workerVars
<1>2. TypeOK /\ RegisterPart /\ WorkInv(r)
  BY DEF VerifyInv
<1>3. step \in RegisterSteps \ {"idle"}
  BY DEF RegisterSteps
<1>4. pc'[r] = step /\ \A s \in Registrations \ {r} : pc'[s] = pc[s]
  BY <1>1, <1>2, CallsSplit DEF TypeOK
<1>5. RegisterInv(r)'
  <2>1. ~Taken(req[r])'
    BY <1>1 DEF Taken
  <2>2. tasks'[r].state = "none"
    BY <1>1, <1>2 DEF RegisterPart, RegisterInv
  <2>3. req[r].api = "grpc" => step = "enqueue"
    OBVIOUS
  <2>4. req[r].api # "grpc" => step = "commit"
    OBVIOUS
  <2> QED
    BY <1>1, <1>4, <2>1, <2>2, <2>3, <2>4 DEF RegisterInv, RegisterSteps
<1>6. WorkInv(r)'
  BY <1>1, <1>2 DEF WorkInv, Held, Created
<1>7. \A s \in Registrations \ {r} : Apart(r, s)' /\ Apart(s, r)'
  <2> SUFFICES ASSUME NEW s \in Registrations \ {r} PROVE Apart(r, s)' /\ Apart(s, r)'
    OBVIOUS
  <2>1. s \in Inserted' => s \in Inserted
    BY <1>4 DEF Inserted
  <2>2. s \in Inserted => req[s].user # req[r].user /\ req[s].email # req[r].email
    BY <1>1 DEF MustWait
  <2>3. step # "committed"
    OBVIOUS
  <2> QED
    BY <1>1, <1>4, <2>1, <2>2, <2>3 DEF Apart
<1> HIDE DEF step
<1>8. reply' \in [Calls -> {"none", "ok", "exists", "err"}]
      /\ tasks' \in [Registrations -> [state: States, retried: 0..MaxRetry]]
  BY <1>1, <1>2 DEF TypeOK
<1> QED
  BY <1>1, <1>3, <1>5, <1>6, <1>7, <1>8, PcStep

(* A transaction that aborts, or will: it inserts nothing more.              *)
LEMMA GiveUpKeeps ==
  ASSUME VerifyInv, NEW r \in Registrations, pc[r] # "idle",
         NEW step, \/ step = "aborted"
                   \/ step \in {"commit", "rollback"} /\ pc[r] = "enqueue",
         pc' = [pc EXCEPT ![r] = step],
         reply' \in [Calls -> {"none", "ok", "exists", "err"}],
         UNCHANGED <<registerVars, rows, click, work, attempts, mailbox, shutdowns>>,
         \/ tasks' = tasks
         \/ tasks' = [tasks EXCEPT ![r].state = "queued"] /\ pc[r] = "enqueue",
         step = "commit" => tasks'[r].state # "none"
  PROVE  VerifyInv'
<1>1. TypeOK /\ RegisterPart /\ WorkInv(r) /\ UNCHANGED <<req, users>>
  BY DEF VerifyInv, registerVars
<1>2. step \in RegisterSteps \ {"idle"}
  BY DEF RegisterSteps
<1>3. pc'[r] = step /\ \A s \in Registrations \ {r} : pc'[s] = pc[s]
  BY <1>1, CallsSplit DEF TypeOK
<1>4. tasks' \in [Registrations -> [state: States, retried: 0..MaxRetry]]
      /\ \A s \in Registrations \ {r} : tasks'[s] = tasks[s]
  <2>1. tasks \in [Registrations -> [state: States, retried: 0..MaxRetry]]
    BY <1>1 DEF TypeOK
  <2>2. "queued" \in States
    BY DEF States
  <2> QED
    BY <2>1, <2>2
<1>5. r \in Inserted' => r \in Inserted
  BY <1>3 DEF Inserted
<1>6. RegisterInv(r)'
  <2>1. r \in Inserted => ~Taken(req[r])'
    BY <1>1 DEF RegisterPart, RegisterInv, Taken
  <2> QED
    BY <1>1, <1>2, <1>3, <1>5, <2>1 DEF RegisterInv
<1>7. WorkInv(r)'
  <2>1. CASE tasks' = tasks
    BY <1>1, <2>1 DEF WorkInv, Held, Created
  <2>2. CASE tasks' = [tasks EXCEPT ![r].state = "queued"] /\ pc[r] = "enqueue"
    <3>1. tasks[r].state = "none"
      BY <1>1, <2>2 DEF RegisterPart, RegisterInv
    <3>2. tasks'[r].state = "queued" /\ tasks'[r].retried = tasks[r].retried
          /\ tasks[r].retried \in Nat /\ shutdowns \in Nat
      BY <1>1, <2>2, RetryBounds DEF TypeOK
    <3> QED
      BY <1>1, <3>1, <3>2 DEF WorkInv, Held, Created
  <2> QED
    BY <2>1, <2>2
<1>8. \A s \in Registrations \ {r} : Apart(r, s)' /\ Apart(s, r)'
  <2> SUFFICES ASSUME NEW s \in Registrations \ {r} PROVE Apart(r, s)' /\ Apart(s, r)'
    OBVIOUS
  <2>1. Apart(r, s) /\ Apart(s, r)
    BY <1>1 DEF RegisterPart
  <2>2. s \in Inserted' => s \in Inserted
    BY <1>3 DEF Inserted
  <2> QED
    BY <1>1, <1>3, <1>5, <2>1, <2>2 DEF Apart
<1> QED
  BY <1>2, <1>4, <1>6, <1>7, <1>8, PcStep

LEMMA EnqueueKeeps ==
  ASSUME VerifyInv, NEW r \in Registrations, Enqueue(r) \/ EnqueueFails(r)
  PROVE  VerifyInv'
<1>1. TypeOK
  BY DEF VerifyInv
<1>2. CASE Enqueue(r)
  <2>1. /\ pc[r] = "enqueue" /\ tasks' = [tasks EXCEPT ![r].state = "queued"]
        /\ UNCHANGED <<registerVars, rows, click, work, attempts, mailbox, shutdowns, reply>>
    BY <1>2 DEF Enqueue, Running
  <2>2. PICK next \in {"commit", "rollback"} : pc' = [pc EXCEPT ![r] = next]
    BY <1>2 DEF Enqueue, GoTo
  <2>3. tasks'[r].state # "none" /\ reply' \in [Calls -> {"none", "ok", "exists", "err"}]
    BY <1>1, <2>1 DEF TypeOK
  <2> QED
    BY <2>1, <2>2, <2>3, GiveUpKeeps
<1>3. CASE EnqueueFails(r)
  <2>1. /\ pc[r] = "enqueue" /\ pc' = [pc EXCEPT ![r] = "rollback"]
        /\ UNCHANGED <<registerVars, rows, click, work, attempts, mailbox, shutdowns, reply, tasks>>
    BY <1>3 DEF EnqueueFails, Running, GoTo, workerVars
  <2>2. reply' \in [Calls -> {"none", "ok", "exists", "err"}]
    BY <1>1, <2>1 DEF TypeOK
  <2> QED
    BY <2>1, <2>2, GiveUpKeeps
<1> QED
  BY <1>2, <1>3

LEMMA AbortedKeeps ==
  ASSUME VerifyInv, NEW r \in Registrations,
         UniqueViolation(r) \/ Rollback(r) \/ Abort(r)
  PROVE  VerifyInv'
<1>1. TypeOK
  BY DEF VerifyInv
<1>2. /\ pc[r] # "idle" /\ pc' = [pc EXCEPT ![r] = "aborted"]
      /\ UNCHANGED <<registerVars, rows, click, work, attempts, mailbox, shutdowns>>
      /\ tasks' = tasks
  BY DEF UniqueViolation, Rollback, Abort, Running, GoTo, Ended, workerVars
<1>3. reply' \in [Calls -> {"none", "ok", "exists", "err"}]
  BY <1>1 DEF UniqueViolation, Rollback, Abort, Answer, TypeOK
<1> QED
  BY <1>2, <1>3, GiveUpKeeps

(* A committed user is new in both keys: the row locks of the INSERT have    *)
(* kept other registrations and changes of an email away.                    *)
LEMMA CommitUserKeeps ==
  ASSUME VerifyInv, NEW r \in Registrations, CommitUser(r)
  PROVE  VerifyInv'
<1> DEFINE q == req[r]
           row == [email |-> q.email, verified |-> FALSE, held |-> {q.email}]
<1>1. /\ pc[r] = "commit" /\ pc' = [pc EXCEPT ![r] = "committed"]
      /\ users' = [users EXCEPT ![q.user] = row]
      /\ UNCHANGED <<req, workerVars, reply, rows, click>>
      /\ UNCHANGED <<tasks, work, attempts, mailbox, shutdowns>>
  BY DEF CommitUser, GoTo, workerVars
<1>2. TypeOK /\ Functions /\ RegisterPart /\ ClickPart
  BY DEF VerifyInv
<1>3. q.user \in Users /\ q.email \in Emails /\ q \in Requests
  BY <1>1, RequestTypes
<1>4. /\ row \in UserRows /\ row # NoUser /\ row.email = q.email /\ row.verified = FALSE
      /\ row.email \in row.held
  BY <1>3, UserRowTypes
<1>5. r \in Inserted /\ ~Taken(q)
  BY <1>1, <1>2 DEF Inserted, RegisterPart, RegisterInv
<1> HIDE DEF row
<1>6. /\ pc'[r] = "committed"
      /\ \A x \in Calls \ {r} : pc'[x] = pc[x]
      /\ \A s \in Registrations \ {r} : pc'[s] = pc[s]
  BY <1>1, <1>2, CallsSplit DEF TypeOK
<1>7. \A u \in Users : users'[u] = IF u = q.user THEN row ELSE users[u]
  BY <1>1, <1>2 DEF TypeOK
<1>8. Inserted' = Inserted \ {r}
  BY <1>6 DEF Inserted
<1>9. UsersStay
  BY <1>4, <1>5, <1>7 DEF UsersStay, Taken
<1>10. TypeOK'
  <2>1. users' \in [Users -> UserRows \cup {NoUser}]
    BY <1>1, <1>2, <1>4 DEF TypeOK, UserRows
  <2>2. pc' \in [Calls -> CallSteps]
    BY <1>1, <1>2 DEF TypeOK, CallSteps
  <2>3. \A s \in Registrations : pc'[s] = "idle" \/ req'[s] \in Requests
    BY <1>1, <1>2, <1>3, <1>6 DEF TypeOK
  <2>4. \A k \in Clicks : pc'[k] # "idle" => click'[k] \in [id: DOMAIN rows, fresh: BOOLEAN]
    BY <1>1, <1>2, <1>6, CallsSplit DEF TypeOK
  <2>5. reply' \in [Calls -> {"none", "ok", "exists", "err"}]
    BY <1>1, <1>2 DEF TypeOK
  <2> QED
    BY <1>1, <1>2, <2>1, <2>2, <2>3, <2>4, <2>5, TypeOfCalls
<1>11. ASSUME NEW s \in Registrations PROVE RegisterInv(s)'
  <2>1. CASE s = r
    BY <1>1, <1>2, <1>4, <1>6, <1>7, <1>3, <1>8, <2>1
    DEF RegisterPart, RegisterInv, RegisterSteps
  <2>2. CASE s # r
    <3>1. RegisterInv(s) /\ Apart(r, s) /\ pc'[s] = pc[s] /\ req'[s] = req[s]
      BY <1>1, <1>2, <1>6, <2>2 DEF RegisterPart
    <3>2. pc[s] = "committed" => users'[req[s].user] # NoUser
      BY <1>9, <3>1, RequestTypes DEF RegisterInv, UsersStay
    <3>3. ASSUME s \in Inserted PROVE ~Taken(req[s])'
      <4>1. req[s].user # q.user /\ req[s].email # q.email /\ ~Taken(req[s])
        BY <1>5, <3>1, <3>3 DEF Apart, RegisterInv
      <4>2. req[s].user \in Users
        BY <3>3, RequestTypes DEF Inserted
      <4> QED
        BY <1>4, <1>7, <3>1, <4>1, <4>2 DEF Taken
    <3> QED
      BY <1>1, <1>8, <3>1, <3>2, <3>3 DEF RegisterInv
  <2> QED
    BY <2>1, <2>2
<1>12. ASSUME NEW s \in Registrations, NEW t \in Registrations, s # t PROVE Apart(s, t)'
  <2>1. Apart(s, t) /\ req' = req
    BY <1>1, <1>2, <1>12 DEF RegisterPart
  <2>2. ASSUME NEW v \in Registrations \ {r}, pc[v] = "committed" PROVE req[v].user # q.user
    BY <1>2, <1>5, <2>2 DEF RegisterPart, RegisterInv, Taken
  <2> QED
    BY <1>6, <1>8, <1>12, <2>1, <2>2 DEF Apart
<1>13. UserEmails'
  <2>1. \A u \in Users : users[u] # NoUser => users[u].email # q.email
    BY <1>5 DEF Taken
  <2> QED
    BY <1>2, <1>4, <1>7, <2>1 DEF RegisterPart, UserEmails
<1>14. ASSUME NEW s \in Registrations PROVE WorkInv(s)'
  BY <1>1, <1>2, <1>9, RetryBounds, WorkKept DEF TypeOK
<1>15. ASSUME NEW id \in DOMAIN rows PROVE RowInv(id)'
  BY <1>1, <1>9, RowKept, RowTypes
<1>16. ClickPart'
  BY <1>1, <1>6, ClickPartKept, CallsSplit
<1>17. VerifiedByUsedLink'
  <2>1. ASSUME NEW id \in DOMAIN rows PROVE rows[id].user # q.user
    BY <1>5, <2>1, RowTypes DEF VerifyInv, RowInv, Taken, Held
  <2> QED
    BY <1>1, <1>4, <1>7, <2>1 DEF VerifyInv, VerifiedByUsedLink
<1>18. Functions'
  BY <1>1, <1>2 DEF Functions
<1>19. RegisterPart'
  BY <1>11, <1>12, <1>13 DEF RegisterPart
<1> QED
  BY <1>1, <1>10, <1>14, <1>15, <1>16, <1>17, <1>18, <1>19 DEF VerifyInv

LEMMA UpdateUserKeeps ==
  ASSUME VerifyInv, NEW u \in Users, NEW e \in Emails, UpdateUser(u, e)
  PROVE  VerifyInv'
<1>1. /\ users[u] # NoUser
      /\ users' = [users EXCEPT ![u].email = e, ![u].held = @ \cup {e}]
      /\ ~\E r \in Inserted : req[r].email = e
      /\ ~\E v \in Users : users[v] # NoUser /\ users[v].email = e
      /\ UNCHANGED <<req, workerVars, callVars, rows, click>>
      /\ UNCHANGED <<tasks, work, attempts, mailbox, shutdowns, pc, reply>>
  BY DEF UpdateUser, workerVars, callVars
<1>2. TypeOK /\ Functions /\ RegisterPart /\ ClickPart
  BY DEF VerifyInv
<1>3. users[u] \in UserRows
  BY <1>1, <1>2, UserRead
<1>4. PICK row \in UserRows : row = [users[u] EXCEPT !.email = e, !.held = @ \cup {e}]
  BY <1>3 DEF UserRows
<1>5. /\ row # NoUser /\ row.email = e /\ row.verified = users[u].verified
      /\ users[u].held \subseteq row.held /\ row.email \in row.held
  BY <1>3, <1>4, UserRowTypes DEF UserRows
<1>6. \A v \in Users : users'[v] = IF v = u THEN row ELSE users[v]
  BY <1>1, <1>2, <1>4 DEF TypeOK
<1>7. UsersStay /\ (\A v \in Users : users'[v] # NoUser => users[v] # NoUser)
      /\ \A v \in Users : users[v] # NoUser => users'[v].verified = users[v].verified
  BY <1>1, <1>5, <1>6 DEF UsersStay
<1>8. TypeOK'
  <2>1. users' \in [Users -> UserRows \cup {NoUser}]
    BY <1>1, <1>2, <1>4 DEF TypeOK, UserRows
  <2> QED
    BY <1>1, <1>2, <2>1, TypeOfCalls DEF TypeOK
<1>9. Inserted' = Inserted
  BY <1>1 DEF Inserted
<1>10. ASSUME NEW s \in Registrations PROVE RegisterInv(s)'
  <2>1. RegisterInv(s)
    BY <1>2 DEF RegisterPart
  <2>2. pc[s] = "committed" => users'[req[s].user] # NoUser
    BY <1>7, <2>1, RequestTypes DEF RegisterInv, UsersStay
  <2>3. ASSUME s \in Inserted PROVE ~Taken(req[s])'
    <3>1. ~Taken(req[s]) /\ req[s].email # e /\ req[s].user \in Users
      BY <1>1, <2>1, <2>3, RequestTypes DEF RegisterInv, Inserted
    <3> QED
      BY <1>1, <1>5, <1>6, <3>1 DEF Taken
  <2> QED
    BY <1>1, <1>9, <2>1, <2>2, <2>3 DEF RegisterInv
<1>11. ASSUME NEW s \in Registrations, NEW t \in Registrations, s # t PROVE Apart(s, t)'
  BY <1>1, <1>2, <1>9, <1>11 DEF RegisterPart, Apart
<1>12. UserEmails'
  <2>1. UserEmails /\ \A v \in Users : users[v] # NoUser => users[v].email # e
    BY <1>1, <1>2 DEF RegisterPart
  <2> QED
    BY <1>5, <1>6, <2>1 DEF UserEmails
<1>13. ASSUME NEW s \in Registrations PROVE WorkInv(s)'
  BY <1>1, <1>2, <1>7, RetryBounds, WorkKept DEF TypeOK
<1>14. ASSUME NEW id \in DOMAIN rows PROVE RowInv(id)'
  BY <1>1, <1>7, RowKept, RowTypes
<1>15. ClickPart'
  BY <1>1, ClickPartKept
<1>16. VerifiedByUsedLink'
  BY <1>1, <1>7 DEF VerifyInv, VerifiedByUsedLink
<1>17. Functions'
  BY <1>1, <1>2 DEF Functions
<1>18. RegisterPart'
  BY <1>10, <1>11, <1>12 DEF RegisterPart
<1> QED
  BY <1>1, <1>8, <1>13, <1>14, <1>15, <1>16, <1>17, <1>18 DEF VerifyInv

-----------------------------------------------------------------------------
(* The worker.                                                               *)

LEMMA WorkFacts ==
  ASSUME VerifyInv, NEW r \in Registrations
  PROVE  /\ TypeOK /\ WorkInv(r)
         /\ attempts[r] \in Nat /\ shutdowns \in Nat /\ MaxRetry \in Nat /\ MaxShutdowns \in Nat
         /\ tasks[r] \in [state: States, retried: 0..MaxRetry]
         /\ tasks[r].retried \in Nat
         /\ tasks \in [Registrations -> [state: States, retried: 0..MaxRetry]]
         /\ work \in [Registrations -> WorkTypes(DOMAIN rows)]
         /\ mailbox \subseteq DOMAIN rows /\ shutdowns \in 0..MaxShutdowns
<1>1. TypeOK /\ WorkInv(r)
  BY DEF VerifyInv
<1>2. tasks[r] \in [state: States, retried: 0..MaxRetry]
  BY <1>1 DEF TypeOK
<1> QED
  BY <1>1, <1>2, RetryBounds DEF TypeOK, WorkTypes

LEMMA DequeueKeeps ==
  ASSUME VerifyInv, NEW r \in Registrations, Dequeue(r)
  PROVE  VerifyInv'
<1>1. /\ tasks[r].state = "queued" /\ tasks' = [tasks EXCEPT ![r].state = "active"]
      /\ work' = [work EXCEPT ![r] = [step |-> "getUser"]]
      /\ UNCHANGED <<registerVars, attempts, mailbox, shutdowns, callVars, rows, click>>
  BY DEF Dequeue
<1>2. /\ tasks'[r].state = "active" /\ tasks'[r].retried = tasks[r].retried
      /\ work'[r].step = "getUser"
      /\ \A s \in Registrations \ {r} : tasks'[s] = tasks[s] /\ work'[s] = work[s]
  BY <1>1, WorkFacts
<1>3. WorkInv(r)'
  BY <1>1, <1>2, WorkFacts DEF WorkInv, Held, Created
<1>4. /\ tasks' \in [Registrations -> [state: States, retried: 0..MaxRetry]]
      /\ work' \in [Registrations -> WorkTypes(DOMAIN rows)]
  BY <1>1, WorkFacts DEF States, WorkTypes
<1>5. TypeOK' /\ shutdowns <= shutdowns' /\ mailbox \subseteq mailbox'
  BY <1>1, <1>4, WorkFacts, TypeOfWorker
<1> QED
  BY <1>1, <1>2, <1>3, <1>5, AttemptStep

(* An attempt ends, with or without an error.                                *)
LEMMA EndOfAttempt ==
  ASSUME VerifyInv, NEW r \in Registrations, tasks[r].state = "active",
         tasks' \in [Registrations -> [state: States, retried: 0..MaxRetry]],
         tasks'[r].state \notin {"none", "active"},
         \A s \in Registrations \ {r} : tasks'[s] = tasks[s],
         work' = [work EXCEPT ![r] = [step |-> "none"]],
         shutdowns' \in 0..MaxShutdowns, shutdowns <= shutdowns',
         attempts[r] <= tasks'[r].retried + shutdowns' + Created(r)',
         UNCHANGED <<registerVars, attempts, mailbox, callVars, rows, click>>
  PROVE  VerifyInv'
<1>1. /\ work'[r].step = "none"
      /\ \A s \in Registrations \ {r} : work'[s] = work[s]
      /\ work' \in [Registrations -> WorkTypes(DOMAIN rows)]
  BY WorkFacts DEF WorkTypes
<1>2. WorkInv(r)'
  BY <1>1 DEF WorkInv
<1>3. TypeOK' /\ mailbox \subseteq mailbox'
  BY <1>1, WorkFacts, TypeOfWorker
<1> QED
  BY <1>1, <1>2, <1>3, AttemptStep

LEMMA FailedKeeps ==
  ASSUME VerifyInv, NEW r \in Registrations, tasks[r].state = "active", Failed(r),
         UNCHANGED <<registerVars, attempts, mailbox, shutdowns, callVars, rows, click>>
  PROVE  VerifyInv'
<1> DEFINE next == IF tasks[r].retried < MaxRetry
                   THEN [state |-> "queued", retried |-> tasks[r].retried + 1]
                   ELSE [tasks[r] EXCEPT !.state = "archived"]
<1>1. /\ tasks' = [tasks EXCEPT ![r] = next]
      /\ work' = [work EXCEPT ![r] = [step |-> "none"]]
  BY DEF Failed
<1>2. /\ attempts[r] <= tasks[r].retried + shutdowns + 1
  BY WorkFacts DEF WorkInv, Held, Created
<1>3. next \in [state: States, retried: 0..MaxRetry]
  BY WorkFacts DEF States
<1>4. \/ next.state = "queued" /\ next.retried = tasks[r].retried + 1
      \/ next.state = "archived" /\ next.retried = tasks[r].retried
  BY WorkFacts
<1> HIDE DEF next
<1>5. /\ tasks'[r] = next
      /\ \A s \in Registrations \ {r} : tasks'[s] = tasks[s]
      /\ tasks' \in [Registrations -> [state: States, retried: 0..MaxRetry]]
  BY <1>1, <1>3, WorkFacts
<1>6. attempts[r] <= tasks'[r].retried + shutdowns' + Created(r)'
  BY <1>2, <1>4, <1>5, WorkFacts DEF Created
<1>7. shutdowns' \in 0..MaxShutdowns /\ shutdowns <= shutdowns'
  BY WorkFacts
<1> QED
  BY <1>1, <1>4, <1>5, <1>6, <1>7, EndOfAttempt

LEMMA CompleteKeeps ==
  ASSUME VerifyInv, NEW r \in Registrations, Complete(r)
  PROVE  VerifyInv'
<1>1. /\ tasks[r].state = "active" /\ tasks' = [tasks EXCEPT ![r].state = "completed"]
      /\ work' = [work EXCEPT ![r] = [step |-> "none"]]
      /\ UNCHANGED <<registerVars, attempts, mailbox, shutdowns, callVars, rows, click>>
  BY DEF Complete, Step
<1>2. attempts[r] <= tasks[r].retried + shutdowns + 1
  BY WorkFacts DEF WorkInv, Held, Created
<1>3. /\ tasks'[r].state = "completed" /\ tasks'[r].retried = tasks[r].retried
      /\ \A s \in Registrations \ {r} : tasks'[s] = tasks[s]
      /\ tasks' \in [Registrations -> [state: States, retried: 0..MaxRetry]]
  BY <1>1, WorkFacts DEF States
<1>4. attempts[r] <= tasks'[r].retried + shutdowns' + Created(r)'
  BY <1>1, <1>2, <1>3 DEF Created
<1>5. shutdowns' \in 0..MaxShutdowns /\ shutdowns <= shutdowns'
  BY <1>1, WorkFacts
<1> QED
  BY <1>1, <1>3, <1>4, <1>5, EndOfAttempt

LEMMA GiveBackKeeps ==
  ASSUME VerifyInv, NEW r \in Registrations, GiveBack(r)
  PROVE  VerifyInv'
<1>1. /\ tasks[r].state = "active" /\ tasks' = [tasks EXCEPT ![r].state = "queued"]
      /\ work' = [work EXCEPT ![r] = [step |-> "none"]]
      /\ shutdowns < MaxShutdowns /\ shutdowns' = shutdowns + 1
      /\ UNCHANGED <<registerVars, attempts, mailbox, callVars, rows, click>>
  BY DEF GiveBack
<1>2. attempts[r] <= tasks[r].retried + shutdowns + 1
  BY WorkFacts DEF WorkInv, Held, Created
<1>3. /\ tasks'[r].state = "queued" /\ tasks'[r].retried = tasks[r].retried
      /\ \A s \in Registrations \ {r} : tasks'[s] = tasks[s]
      /\ tasks' \in [Registrations -> [state: States, retried: 0..MaxRetry]]
  BY <1>1, WorkFacts DEF States
<1>4. shutdowns' \in 0..MaxShutdowns /\ shutdowns <= shutdowns'
  BY <1>1, WorkFacts
<1>5. attempts[r] <= tasks'[r].retried + shutdowns' + Created(r)'
  BY <1>1, <1>2, <1>3, WorkFacts DEF Created
<1> QED
  BY <1>1, <1>3, <1>4, <1>5, EndOfAttempt

(* GetUser and SendEmail: the attempt goes on, its task stays.               *)
LEMMA AttemptGoesOn ==
  ASSUME VerifyInv, NEW r \in Registrations, tasks[r].state = "active",
         NEW next \in WorkTypes(DOMAIN rows), work' = [work EXCEPT ![r] = next],
         next.step = "create" => Held(next.email, req[r].user),
         work[r].step = "send" => next.step = "done",
         work[r].step \in {"getUser", "send"},
         mailbox' \subseteq DOMAIN rows, mailbox \subseteq mailbox',
         UNCHANGED <<registerVars, tasks, attempts, shutdowns, callVars, rows, click>>
  PROVE  VerifyInv'
<1>1. /\ work'[r] = next
      /\ \A s \in Registrations \ {r} : work'[s] = work[s]
      /\ work' \in [Registrations -> WorkTypes(DOMAIN rows)]
  BY WorkFacts
<1>2. UNCHANGED <<req, users>>
  BY DEF registerVars
<1>3. Created(r) \in Nat /\ Created(r)' \in Nat /\ Created(r) <= Created(r)'
  BY <1>1 DEF Created
<1>4. WorkInv(r)'
  <2>1. attempts[r] <= tasks[r].retried + shutdowns + Created(r)
    BY WorkFacts DEF WorkInv
  <2>2. attempts[r] <= tasks[r].retried + shutdowns + Created(r)'
    BY <1>3, <2>1, WorkFacts
  <2> QED
    BY <1>1, <1>2, <2>2 DEF WorkInv, Held
<1>5. TypeOK' /\ shutdowns <= shutdowns'
  BY <1>1, WorkFacts, TypeOfWorker
<1> QED
  BY <1>1, <1>4, <1>5, AttemptStep

LEMMA GetUserKeeps ==
  ASSUME VerifyInv, NEW r \in Registrations, GetUser(r)
  PROVE  VerifyInv'
<1> DEFINE user == users[req[r].user]
<1>1. /\ tasks[r].state = "active" /\ work[r].step = "getUser"
      /\ UNCHANGED <<registerVars, attempts, mailbox, shutdowns, callVars, rows, click>>
  BY DEF GetUser, Step
<1>2. CASE user = NoUser
  BY <1>1, <1>2, FailedKeeps DEF GetUser
<1>3. CASE user # NoUser
  <2>1. work' = [work EXCEPT ![r] = [step |-> "create", email |-> user.email]]
        /\ UNCHANGED tasks
    BY <1>3 DEF GetUser
  <2>2. user \in UserRows /\ user.email \in Emails
    BY <1>1, <1>3, RequestTypes, UserRead, UserRowTypes, WorkFacts
  <2>3. [step |-> "create", email |-> user.email] \in WorkTypes(DOMAIN rows)
    BY <2>2 DEF WorkTypes
  <2>4. mailbox' \subseteq DOMAIN rows /\ mailbox \subseteq mailbox'
    BY <1>1, WorkFacts
  <2>5. Held(user.email, req[r].user)
    BY <1>1, <1>3, RequestTypes DEF VerifyInv, RegisterPart, UserEmails, Held
  <2> QED
    BY <1>1, <1>3, <2>1, <2>3, <2>4, <2>5, AttemptGoesOn
<1> QED
  BY <1>2, <1>3

LEMMA SendEmailKeeps ==
  ASSUME VerifyInv, NEW r \in Registrations, SendEmail(r)
  PROVE  VerifyInv'
<1>1. /\ tasks[r].state = "active" /\ work[r].step = "send"
      /\ mailbox' = mailbox \cup {work[r].id}
      /\ work' = [work EXCEPT ![r] = [step |-> "done"]]
      /\ UNCHANGED <<registerVars, tasks, attempts, shutdowns, callVars, rows, click>>
  BY DEF SendEmail, Step
<1>2. work[r].id \in DOMAIN rows
  BY <1>1, WorkFacts DEF WorkTypes
<1>3. [step |-> "done"] \in WorkTypes(DOMAIN rows)
  BY DEF WorkTypes
<1>4. mailbox' \subseteq DOMAIN rows /\ mailbox \subseteq mailbox'
  BY <1>1, <1>2, WorkFacts
<1> QED
  BY <1>1, <1>3, <1>4, AttemptGoesOn

(* The row is new, and its number is in the bounds: every earlier attempt    *)
(* has used up a retry or a shutdown.                                        *)
LEMMA CreateVerifyEmailKeeps ==
  ASSUME VerifyInv, NEW r \in Registrations, CreateVerifyEmail(r)
  PROVE  VerifyInv'
<1> DEFINE new == <<r, attempts[r]>>
           row == [user |-> req[r].user, email |-> work[r].email,
                   used |-> FALSE, expired |-> FALSE]
           next == [step |-> "send", id |-> new]
<1>1. /\ tasks[r].state = "active" /\ work[r].step = "create"
      /\ rows' = [i \in DOMAIN rows \cup {new} |-> IF i = new THEN row ELSE rows[i]]
      /\ work' = [work EXCEPT ![r] = next]
      /\ attempts' = [attempts EXCEPT ![r] = attempts[r] + 1]
      /\ UNCHANGED <<registerVars, tasks, mailbox, shutdowns, callVars, click>>
      /\ UNCHANGED <<req, users, tasks, mailbox, shutdowns, pc, reply, click>>
  BY DEF CreateVerifyEmail, Step, registerVars, callVars
<1>2. TypeOK /\ WorkInv(r)
  BY WorkFacts
<1>3. new[1] = r /\ new[2] = attempts[r] /\ next.step = "send" /\ next.id = new
  OBVIOUS
<1>4. /\ row.user = req[r].user /\ row.email = work[r].email /\ row.used = FALSE
      /\ req[r].user \in Users /\ Held(row.email, row.user)
  BY <1>1, <1>2, RequestTypes DEF WorkInv
<1>5. row \in LinkRows
  <2>1. work[r].email \in Emails
    BY <1>1, WorkFacts DEF WorkTypes
  <2> QED
    BY <1>4, <2>1 DEF LinkRows
<1>6. attempts[r] <= tasks[r].retried + shutdowns
  BY <1>1, WorkFacts DEF WorkInv, Held, Created
<1>7. attempts[r] \in 0..MaxRetry + MaxShutdowns
  <2>1. tasks[r].retried <= MaxRetry /\ shutdowns <= MaxShutdowns
    BY WorkFacts
  <2> QED
    BY <1>6, <2>1, WorkFacts
<1>8. new \in RowIds
  BY <1>7 DEF RowIds
<1>9. new \notin DOMAIN rows
  <2>1. \A id \in DOMAIN rows : id[2] < attempts[id[1]] /\ id[2] \in Nat /\ attempts[id[1]] \in Nat
    BY RowTypes DEF VerifyInv, RowInv, Held
  <2> QED
    BY <1>3, <2>1
<1> HIDE DEF new, row, next
<1>10. /\ DOMAIN rows' = DOMAIN rows \cup {new} /\ rows'[new] = row
       /\ \A id \in DOMAIN rows : rows'[id] = rows[id]
  BY <1>1, <1>9
<1>11. /\ attempts'[r] = attempts[r] + 1 /\ attempts'[r] \in Nat
       /\ \A s \in Registrations \ {r} : attempts'[s] = attempts[s]
       /\ work'[r] = next
       /\ \A s \in Registrations \ {r} : work'[s] = work[s]
  BY <1>1, <1>2, WorkFacts DEF TypeOK
<1>12. TypeOK'
  <2>1. attempts' \in [Registrations -> 0..MaxRetry + MaxShutdowns + 1]
    BY <1>1, <1>2, <1>7, RetryBounds DEF TypeOK
  <2>2. work' \in [Registrations -> WorkTypes(DOMAIN rows')]
    <3>1. work \in [Registrations -> WorkTypes(DOMAIN rows')]
      <4>1. \A s \in Registrations : work[s] \in WorkTypes(DOMAIN rows)
        BY WorkFacts
      <4>2. DOMAIN rows \subseteq DOMAIN rows'
        BY <1>10
      <4>3. \A w \in WorkTypes(DOMAIN rows) : w \in WorkTypes(DOMAIN rows')
        BY <4>2 DEF WorkTypes
      <4> QED
        BY <4>1, <4>3, WorkFacts
    <3>2. next \in WorkTypes(DOMAIN rows')
      BY <1>10 DEF WorkTypes, next
    <3> QED
      BY <1>1, <3>1, <3>2
  <2>3. /\ DOMAIN rows' \subseteq RowIds
        /\ mailbox' \subseteq DOMAIN rows'
    BY <1>1, <1>2, <1>8, <1>10 DEF TypeOK
  <2>4. rows' \in [DOMAIN rows' -> LinkRows]
    <3>1. \A id \in DOMAIN rows' : rows'[id] \in LinkRows
      BY <1>5, <1>10, RowTypes
    <3> QED
      BY <1>1, <3>1
  <2>5. \A k \in Clicks : pc'[k] # "idle" => click'[k] \in [id: DOMAIN rows', fresh: BOOLEAN]
    BY <1>1, <1>2, <1>10 DEF TypeOK
  <2> QED
    BY <1>1, <1>2, <2>1, <2>2, <2>3, <2>4, <2>5 DEF TypeOK, WorkTypes, LinkRows
<1>13. UsersStay /\ shutdowns' \in Nat /\ shutdowns <= shutdowns'
  BY <1>1, WorkFacts DEF UsersStay
<1>14. ASSUME NEW s \in Registrations PROVE WorkInv(s)'
  <2>1. CASE s = r
    <3>1. Created(r)' = 1
      BY <1>1, <1>3, <1>11 DEF Created
    <3>2. attempts'[r] <= tasks'[r].retried + shutdowns' + Created(r)'
      BY <1>1, <1>6, <1>11, <3>1, WorkFacts
    <3> QED
      BY <1>1, <1>3, <1>11, <2>1, <3>2 DEF WorkInv
  <2>2. CASE s # r
    BY <1>1, <1>11, <1>13, <2>2, WorkKept
  <2> QED
    BY <2>1, <2>2
<1>15. ASSUME NEW id \in DOMAIN rows' PROVE RowInv(id)'
  <2>1. CASE id \in DOMAIN rows
    <3>1. attempts'[id[1]] \in Nat /\ attempts[id[1]] <= attempts'[id[1]]
      BY <1>11, <2>1, RowTypes
    <3> QED
      BY <1>10, <1>13, <2>1, <3>1, RowKept
  <2>2. CASE id = new
    BY <1>1, <1>3, <1>4, <1>10, <1>11, <2>2, WorkFacts DEF RowInv, Held
  <2> QED
    BY <1>10, <2>1, <2>2
<1>16. RegisterPart' /\ ClickPart' /\ Functions'
  BY <1>1, <1>10, RegisterPartKept, ClickPartKept DEF VerifyInv, Functions
<1>17. VerifiedByUsedLink'
  BY <1>1, <1>4, <1>10 DEF VerifyInv, VerifiedByUsedLink
<1> QED
  BY <1>12, <1>14, <1>15, <1>16, <1>17 DEF VerifyInv

-----------------------------------------------------------------------------
(* The links and their clicks.                                               *)

(* A step that changes fields of a row and neither adds nor mails one.       *)
LEMMA TypeOfRows ==
  ASSUME VerifyInv, NEW id \in DOMAIN rows, NEW row \in LinkRows,
         rows' = [rows EXCEPT ![id] = row],
         UNCHANGED <<req, workerVars, reply, click>>,
         pc' \in [Calls -> CallSteps],
         \A x \in Calls : pc[x] = "idle" => pc'[x] = "idle",
         \A x \in Calls : pc'[x] = "idle" => pc[x] = "idle",
         users' \in [Users -> UserRows \cup {NoUser}]
  PROVE  /\ TypeOK' /\ DOMAIN rows' = DOMAIN rows /\ rows'[id] = row
         /\ \A i \in DOMAIN rows : i # id => rows'[i] = rows[i]
<1>1. TypeOK
  BY DEF VerifyInv
<1>2. DOMAIN rows' = DOMAIN rows /\ rows \in [DOMAIN rows -> LinkRows]
  BY <1>1 DEF TypeOK, LinkRows
<1>3. rows' \in [DOMAIN rows -> LinkRows]
  BY <1>2
<1>4. \A k \in Clicks : pc'[k] # "idle" => click'[k] \in [id: DOMAIN rows, fresh: BOOLEAN]
  BY <1>1, CallsSplit DEF TypeOK
<1>5. \A r \in Registrations : pc'[r] = "idle" \/ req'[r] \in Requests
  BY <1>1, CallsSplit DEF TypeOK
<1>6. TypeOK'
  BY <1>1, <1>2, <1>3, <1>4, <1>5 DEF TypeOK, workerVars, LinkRows, UserRows
<1> QED
  BY <1>2, <1>6

LEMMA ExpireKeeps ==
  ASSUME VerifyInv, NEW id \in DOMAIN rows, Expire(id)
  PROVE  VerifyInv'
<1>1. /\ rows' = [rows EXCEPT ![id].expired = TRUE]
      /\ UNCHANGED <<registerVars, workerVars, callVars, click>>
      /\ UNCHANGED <<req, users, tasks, work, attempts, mailbox, shutdowns, pc, reply, click>>
  BY DEF Expire, registerVars, workerVars, callVars
<1>2. PICK row \in LinkRows : /\ row = [rows[id] EXCEPT !.expired = TRUE]
                              /\ row.user = rows[id].user /\ row.used = rows[id].used
  <2>1. rows[id] \in LinkRows
    BY RowTypes
  <2>2. ASSUME NEW old \in LinkRows
        PROVE  /\ [old EXCEPT !.expired = TRUE] \in LinkRows
               /\ [old EXCEPT !.expired = TRUE].user = old.user
               /\ [old EXCEPT !.expired = TRUE].used = old.used
    BY DEF LinkRows
  <2> QED
    BY <2>1, <2>2
<1>3. TypeOK
  BY DEF VerifyInv
<1>4. rows' = [rows EXCEPT ![id] = row]
  BY <1>1, <1>2
<1>5. pc' \in [Calls -> CallSteps] /\ users' \in [Users -> UserRows \cup {NoUser}]
  BY <1>1, <1>3 DEF TypeOK, UserRows
<1>6. /\ TypeOK' /\ DOMAIN rows' = DOMAIN rows /\ rows'[id] = row
      /\ \A i \in DOMAIN rows : i # id => rows'[i] = rows[i]
  BY <1>1, <1>4, <1>5, TypeOfRows
<1>7. \A i \in DOMAIN rows : rows'[i].used = rows[i].used /\ rows'[i].user = rows[i].user
  BY <1>2, <1>6
<1>8. UsersStay /\ shutdowns' \in Nat /\ shutdowns <= shutdowns'
  BY <1>1, WorkFacts, RetryBounds DEF UsersStay, TypeOK, VerifyInv
<1>9. ASSUME NEW s \in Registrations PROVE WorkInv(s)'
  BY <1>1, <1>8, WorkKept
<1>10. ASSUME NEW i \in DOMAIN rows PROVE RowInv(i)'
  BY <1>1, <1>7, <1>8, RowKept, RowTypes
<1>11. RegisterPart' /\ ClickPart' /\ VerifiedByUsedLink' /\ Functions'
  BY <1>1, <1>6, <1>7, RegisterPartKept, ClickPartKept, VerifiedKept DEF VerifyInv, Functions
<1> QED
  BY <1>6, <1>9, <1>10, <1>11 DEF VerifyInv

(* A step of a click that commits nothing, with its types.                   *)
LEMMA TypeOfClick ==
  ASSUME VerifyInv, NEW k \in Clicks, NEW step \in ClickSteps,
         pc' = [pc EXCEPT ![k] = step],
         reply' \in [Calls -> {"none", "ok", "exists", "err"}],
         \/ UNCHANGED click /\ pc[k] # "idle"
         \/ \E c \in [id: DOMAIN rows, fresh: BOOLEAN] : click' = [click EXCEPT ![k] = c],
         UNCHANGED <<registerVars, workerVars, rows>>
  PROVE  /\ TypeOK' /\ Functions' /\ pc'[k] = step
         /\ \A x \in Calls \ {k} : pc'[x] = pc[x]
         /\ \A j \in Clicks \ {k} : click'[j] = click[j]
<1>1. TypeOK /\ Functions /\ UNCHANGED <<req, users>>
  BY DEF VerifyInv, registerVars
<1>2. /\ pc' \in [Calls -> CallSteps] /\ pc'[k] = step
      /\ \A x \in Calls \ {k} : pc'[x] = pc[x]
  BY <1>1, CallsSplit, StepNames DEF TypeOK
<1>3. Functions' /\ \A j \in Clicks \ {k} : click'[j] = click[j]
  BY <1>1 DEF Functions
<1>4. \A j \in Clicks : pc'[j] # "idle" => click'[j] \in [id: DOMAIN rows, fresh: BOOLEAN]
  <2>1. \A j \in Clicks \ {k} : pc'[j] # "idle" => click'[j] \in [id: DOMAIN rows, fresh: BOOLEAN]
    BY <1>1, <1>2, <1>3, CallsSplit DEF TypeOK
  <2>2. pc'[k] # "idle" => click'[k] \in [id: DOMAIN rows, fresh: BOOLEAN]
    BY <1>1 DEF TypeOK, Functions
  <2> QED
    BY <2>1, <2>2
<1>5. \A r \in Registrations : pc'[r] = "idle" \/ req'[r] \in Requests
  BY <1>1, <1>2, CallsSplit DEF TypeOK
<1>6. users' \in [Users -> UserRows \cup {NoUser}]
  BY <1>1 DEF TypeOK, UserRows
<1>7. TypeOK'
  BY <1>1, <1>2, <1>4, <1>5, <1>6, TypeOfCalls
<1> QED
  BY <1>2, <1>3, <1>7

LEMMA ClickKeeps ==
  ASSUME VerifyInv, NEW k \in Clicks, Click(k)
  PROVE  VerifyInv'
<1>1. /\ pc[k] = "idle" /\ pc' = [pc EXCEPT ![k] = "row"]
      /\ UNCHANGED <<registerVars, workerVars, reply, rows>>
      /\ mailbox' = mailbox
  BY DEF Click, GoTo, workerVars
<1>2. PICK id \in mailbox : click' = [click EXCEPT ![k] = [id |-> id, fresh |-> ~rows[id].expired]]
  BY DEF Click
<1>3. TypeOK /\ Functions
  BY DEF VerifyInv
<1>4. [id |-> id, fresh |-> ~rows[id].expired] \in [id: DOMAIN rows, fresh: BOOLEAN]
  <2>1. id \in DOMAIN rows /\ (~rows[id].expired) \in BOOLEAN
    BY <1>3 DEF TypeOK
  <2> QED
    BY <2>1, Zenon
<1>5. /\ TypeOK' /\ Functions' /\ pc'[k] = "row"
      /\ \A x \in Calls \ {k} : pc'[x] = pc[x]
      /\ \A j \in Clicks \ {k} : click'[j] = click[j]
  <2>1. "row" \in ClickSteps /\ reply' \in [Calls -> {"none", "ok", "exists", "err"}]
    BY <1>1, <1>3 DEF ClickSteps, TypeOK
  <2>2. \E d \in [id: DOMAIN rows, fresh: BOOLEAN] : click' = [click EXCEPT ![k] = d]
    BY <1>2, <1>4
  <2> QED
    BY <1>1, <2>1, <2>2, TypeOfClick
<1>6. click'[k].id = id
  BY <1>2, <1>3 DEF Functions
<1>7. ClickInv(k)' /\ ~HoldsRow(k)'
  BY <1>1, <1>5, <1>6 DEF ClickInv, ClickSteps, HoldsRow
<1> QED
  BY <1>1, <1>5, <1>7, ClickStep

(* The UPDATE of verify_emails takes the row of an unused link that no other *)
(* transaction holds.                                                        *)
LEMMA UpdateVerifyEmailKeeps ==
  ASSUME VerifyInv, NEW k \in Clicks, UpdateVerifyEmail(k)
  PROVE  VerifyInv'
<1> DEFINE step == IF Usable(k) THEN "user" ELSE "rollback"
<1>1. /\ pc[k] = "row" /\ pc' = [pc EXCEPT ![k] = step] /\ RowIsFree(k)
      /\ UNCHANGED <<registerVars, workerVars, reply, rows, click>>
      /\ mailbox' = mailbox
  BY DEF UpdateVerifyEmail, Running, GoTo, workerVars
<1>2. /\ step \in ClickSteps \ {"committed", "commit", "idle"}
      /\ step = "user" => ~rows[click[k].id].used
  BY DEF ClickSteps, Usable
<1> HIDE DEF step
<1>3. TypeOK /\ ClickInv(k)
  BY DEF VerifyInv, ClickPart
<1>4. /\ TypeOK' /\ Functions' /\ pc'[k] = step
      /\ \A x \in Calls \ {k} : pc'[x] = pc[x]
  <2>1. reply' \in [Calls -> {"none", "ok", "exists", "err"}]
    BY <1>1, <1>3 DEF TypeOK
  <2> QED
    BY <1>1, <1>2, <2>1, TypeOfClick
<1>5. ClickInv(k)'
  BY <1>1, <1>2, <1>3, <1>4 DEF ClickInv, HoldsRow
<1>6. \A j \in Clicks \ {k} : HoldsRow(j) => click'[j].id # click'[k].id
  BY <1>1 DEF RowIsFree
<1> QED
  BY <1>1, <1>2, <1>4, <1>5, <1>6, ClickStep

(* VerifyUser, and the ends of a click without a COMMIT.                     *)
LEMMA ClickGoesOn ==
  ASSUME VerifyInv, NEW k \in Clicks, pc[k] # "idle",
         NEW step, \/ step = "aborted"
                   \/ step = "commit" /\ pc[k] = "user",
         pc' = [pc EXCEPT ![k] = step],
         reply' \in [Calls -> {"none", "ok", "exists", "err"}],
         UNCHANGED <<registerVars, workerVars, rows, click>>
  PROVE  VerifyInv'
<1>1. step \in ClickSteps \ {"idle", "committed"}
  BY DEF ClickSteps
<1>2. /\ TypeOK' /\ Functions' /\ pc'[k] = step
      /\ \A x \in Calls \ {k} : pc'[x] = pc[x]
  BY <1>1, TypeOfClick
<1>3. ClickPart /\ ClickInv(k) /\ mailbox' = mailbox
  BY DEF VerifyInv, ClickPart, workerVars
<1>4. HoldsRow(k)' => HoldsRow(k)
  BY <1>2 DEF HoldsRow
<1>5. ClickInv(k)'
  BY <1>1, <1>2, <1>3, <1>4 DEF ClickInv
<1>6. \A j \in Clicks \ {k} : HoldsRow(j) /\ HoldsRow(k)' => click'[j].id # click'[k].id
  BY <1>3, <1>4 DEF ClickPart
<1> QED
  BY <1>1, <1>2, <1>5, <1>6, ClickStep

LEMMA ClickEndsKeep ==
  ASSUME VerifyInv, NEW k \in Clicks, VerifyUser(k) \/ Rollback(k) \/ Abort(k)
  PROVE  VerifyInv'
<1>1. TypeOK
  BY DEF VerifyInv
<1>2. reply' \in [Calls -> {"none", "ok", "exists", "err"}]
  BY <1>1 DEF VerifyUser, Rollback, Abort, Answer, TypeOK
<1>3. CASE VerifyUser(k)
  <2>1. /\ pc[k] = "user" /\ pc' = [pc EXCEPT ![k] = "commit"]
        /\ UNCHANGED <<registerVars, workerVars, rows, click>>
    BY <1>3 DEF VerifyUser, Running, GoTo
  <2> QED
    BY <1>2, <2>1, ClickGoesOn
<1>4. CASE Rollback(k) \/ Abort(k)
  <2>1. /\ pc[k] # "idle" /\ pc' = [pc EXCEPT ![k] = "aborted"]
        /\ UNCHANGED <<registerVars, workerVars, rows, click>>
    BY <1>4 DEF Rollback, Abort, Running, GoTo, Ended
  <2> QED
    BY <1>2, <2>1, ClickGoesOn
<1> QED
  BY <1>3, <1>4

(* What the COMMIT of a click changes: one row and its user.                 *)
LEMMA CommitClickEffect ==
  ASSUME VerifyInv, NEW k \in Clicks, CommitClick(k)
  PROVE  /\ pc[k] = "commit" /\ pc' = [pc EXCEPT ![k] = "committed"]
         /\ UNCHANGED <<req, workerVars, reply, click>>
         /\ UNCHANGED <<tasks, work, attempts, mailbox, shutdowns>>
         /\ click[k].id \in mailbox /\ click[k].id \in DOMAIN rows
         /\ ~rows[click[k].id].used
         /\ UserOf(k) \in Users /\ users[UserOf(k)] # NoUser
         /\ \E row \in LinkRows :
              /\ rows' = [rows EXCEPT ![click[k].id] = row]
              /\ row.used = TRUE /\ row.user = UserOf(k)
              /\ row.email = rows[click[k].id].email
         /\ \E user \in UserRows :
              /\ users' = [users EXCEPT ![UserOf(k)] = user]
              /\ user.verified = TRUE /\ user.email = users[UserOf(k)].email
              /\ user.held = users[UserOf(k)].held
<1> DEFINE id == click[k].id
<1>1. /\ pc[k] = "commit" /\ pc' = [pc EXCEPT ![k] = "committed"]
      /\ rows' = [rows EXCEPT ![id].used = TRUE]
      /\ users' = [users EXCEPT ![UserOf(k)].verified = TRUE]
      /\ UNCHANGED <<req, workerVars, reply, click>>
      /\ UNCHANGED <<tasks, work, attempts, mailbox, shutdowns>>
  BY DEF CommitClick, GoTo, workerVars
<1>2. ClickInv(k) /\ TypeOK
  BY DEF VerifyInv, ClickPart
<1>3. id \in mailbox /\ id \in DOMAIN rows /\ ~rows[id].used
  BY <1>1, <1>2 DEF ClickInv, HoldsRow, TypeOK
<1>4. /\ rows[id] \in LinkRows /\ UserOf(k) = rows[id].user /\ UserOf(k) \in Users
      /\ users[UserOf(k)] # NoUser
  BY <1>3, RowTypes DEF UserOf, VerifyInv, RowInv, Held
<1>5. users[UserOf(k)] \in UserRows
  BY <1>2, <1>4, UserRead
<1>6. ASSUME NEW old \in LinkRows
      PROVE  /\ [old EXCEPT !.used = TRUE] \in LinkRows
             /\ [old EXCEPT !.used = TRUE].user = old.user
             /\ [old EXCEPT !.used = TRUE].email = old.email
             /\ [old EXCEPT !.used = TRUE].used = TRUE
  BY DEF LinkRows
<1>7. ASSUME NEW old \in UserRows
      PROVE  /\ [old EXCEPT !.verified = TRUE] \in UserRows
             /\ [old EXCEPT !.verified = TRUE].email = old.email
             /\ [old EXCEPT !.verified = TRUE].held = old.held
             /\ [old EXCEPT !.verified = TRUE].verified = TRUE
  BY DEF UserRows
<1>8. PICK row \in LinkRows : /\ row = [rows[id] EXCEPT !.used = TRUE]
                              /\ row.used = TRUE /\ row.user = UserOf(k)
                              /\ row.email = rows[id].email
  BY <1>4, <1>6
<1>9. PICK user \in UserRows : /\ user = [users[UserOf(k)] EXCEPT !.verified = TRUE]
                               /\ user.verified = TRUE
                               /\ user.email = users[UserOf(k)].email
                               /\ user.held = users[UserOf(k)].held
  BY <1>5, <1>7
<1>10. rows' = [rows EXCEPT ![id] = row]
  BY <1>1, <1>8
<1>11. users' = [users EXCEPT ![UserOf(k)] = user]
  BY <1>1, <1>9
<1> QED
  BY <1>1, <1>3, <1>4, <1>8, <1>9, <1>10, <1>11

LEMMA CommitClickKeeps ==
  ASSUME VerifyInv, NEW k \in Clicks, CommitClick(k)
  PROVE  VerifyInv'
<1> DEFINE id == click[k].id
           owner == UserOf(k)
<1>1. /\ pc[k] = "commit" /\ pc' = [pc EXCEPT ![k] = "committed"]
      /\ UNCHANGED <<req, workerVars, reply, click>>
      /\ UNCHANGED <<tasks, work, attempts, mailbox, shutdowns>>
      /\ id \in mailbox /\ id \in DOMAIN rows /\ ~rows[id].used
      /\ owner \in Users /\ users[owner] # NoUser /\ owner = rows[id].user
  BY CommitClickEffect DEF UserOf
<1>2. PICK row \in LinkRows : /\ rows' = [rows EXCEPT ![id] = row]
                              /\ row.used = TRUE /\ row.user = owner
                              /\ row.email = rows[id].email
  BY CommitClickEffect
<1>3. PICK user \in UserRows : /\ users' = [users EXCEPT ![owner] = user]
                               /\ user.verified = TRUE /\ user.email = users[owner].email
                               /\ user.held = users[owner].held
  BY CommitClickEffect
<1> HIDE DEF id, owner
<1>4. TypeOK /\ Functions /\ RegisterPart /\ ClickPart
  BY DEF VerifyInv
<1>5. \A u \in Users : users'[u] = IF u = owner THEN user ELSE users[u]
  BY <1>3, <1>4 DEF TypeOK
<1>6. user # NoUser
  BY UserRowTypes
<1>7. /\ UsersStay
      /\ \A u \in Users : users'[u] # NoUser => users[u] # NoUser
      /\ \A u \in Users : users[u] # NoUser => /\ users'[u].email = users[u].email
                                               /\ users'[u].held = users[u].held
  BY <1>1, <1>3, <1>5, <1>6 DEF UsersStay
<1>8. /\ pc'[k] = "committed"
      /\ \A x \in Calls \ {k} : pc'[x] = pc[x]
      /\ \A r \in Registrations : pc'[r] = pc[r]
  BY <1>1, <1>4, CallsSplit DEF TypeOK
<1>9. /\ TypeOK' /\ DOMAIN rows' = DOMAIN rows /\ rows'[id] = row
      /\ \A i \in DOMAIN rows : i # id => rows'[i] = rows[i]
  <2>1. users' \in [Users -> UserRows \cup {NoUser}]
    BY <1>3, <1>4 DEF TypeOK, UserRows
  <2>2. pc' \in [Calls -> CallSteps]
    BY <1>1, <1>4 DEF TypeOK, CallSteps
  <2>3. /\ \A x \in Calls : pc[x] = "idle" => pc'[x] = "idle"
        /\ \A x \in Calls : pc'[x] = "idle" => pc[x] = "idle"
    BY <1>1, <1>8
  <2> QED
    BY <1>1, <1>2, <2>1, <2>2, <2>3, TypeOfRows
<1>10. \A i \in DOMAIN rows : /\ rows'[i].user = rows[i].user
                              /\ rows'[i].email = rows[i].email
                              /\ rows'[i].used = (rows[i].used \/ i = id)
  BY <1>1, <1>2, <1>9, RowTypes
<1>11. RegisterPart'
  <2>1. Inserted' = Inserted
    BY <1>8 DEF Inserted
  <2>2. ASSUME NEW s \in Registrations PROVE RegisterInv(s)'
    <3>1. RegisterInv(s)
      BY <1>4 DEF RegisterPart
    <3>2. pc[s] = "committed" => users'[req[s].user] # NoUser
      BY <1>7, <3>1, RequestTypes DEF RegisterInv, UsersStay
    <3>3. ASSUME s \in Inserted PROVE ~Taken(req[s])'
      <4>1. ~Taken(req[s]) /\ req[s].user \in Users
        BY <3>1, <3>3, RequestTypes DEF RegisterInv, Inserted
      <4> QED
        BY <1>1, <1>7, <4>1 DEF Taken
    <3> QED
      BY <1>1, <1>8, <2>1, <3>1, <3>2, <3>3 DEF RegisterInv
  <2>3. ASSUME NEW s \in Registrations, NEW t \in Registrations, s # t PROVE Apart(s, t)'
    BY <1>1, <1>4, <1>8, <2>1, <2>3 DEF RegisterPart, Apart
  <2>4. UserEmails'
    BY <1>4, <1>7 DEF RegisterPart, UserEmails
  <2> QED
    BY <2>2, <2>3, <2>4 DEF RegisterPart
<1>12. ASSUME NEW s \in Registrations PROVE WorkInv(s)'
  BY <1>1, <1>7, RetryBounds, WorkFacts, WorkKept
<1>13. ASSUME NEW i \in DOMAIN rows PROVE RowInv(i)'
  BY <1>1, <1>7, <1>10, RowKept, RowTypes
<1>14. ClickPart'
  <2>1. ASSUME NEW j \in Clicks \ {k} PROVE ClickInv(j)'
    <3>1. ClickInv(j) /\ pc'[j] = pc[j] /\ click'[j] = click[j]
      BY <1>1, <1>4, <1>8, CallsSplit DEF ClickPart
    <3>2. pc[j] # "idle" => click[j].id \in DOMAIN rows
      BY <1>4, <3>1 DEF ClickInv, TypeOK
    <3>3. HoldsRow(j) => click[j].id # id
      BY <1>1, <1>4 DEF ClickPart, HoldsRow, id
    <3> QED
      BY <1>1, <1>10, <3>1, <3>2, <3>3 DEF ClickInv, HoldsRow
  <2>2. ClickInv(k)'
    BY <1>1, <1>8, <1>9, <1>2 DEF ClickInv, ClickSteps, HoldsRow, id
  <2>3. \A i, j \in Clicks : i # j /\ HoldsRow(i)' /\ HoldsRow(j)' => click'[i].id # click'[j].id
    BY <1>1, <1>4, <1>8, CallsSplit DEF ClickPart, HoldsRow
  <2>4. LinkIsUsedOnce'
    <3>1. \A j \in Clicks : pc[j] = "committed" => click[j].id # id
      BY <1>1, <1>4 DEF ClickPart, ClickInv
    <3> QED
      BY <1>1, <1>4, <1>8, <3>1, CallsSplit DEF ClickPart, LinkIsUsedOnce, id
  <2> QED
    BY <2>1, <2>2, <2>3, <2>4 DEF ClickPart
<1>15. VerifiedByUsedLink'
  <2>1. VerifiedByUsedLink
    BY DEF VerifyInv
  <2> SUFFICES ASSUME NEW u \in Users, users'[u] # NoUser
               PROVE  users'[u].verified
                        <=> \E i \in DOMAIN rows : rows'[i].user = u /\ rows'[i].used
    BY <1>9 DEF VerifiedByUsedLink
  <2>2. CASE u = owner
    BY <1>1, <1>3, <1>5, <1>10, <2>2
  <2>3. CASE u # owner
    <3>1. users'[u] = users[u] /\ users[u] # NoUser
      BY <1>5, <2>3
    <3>2. users[u].verified <=> \E i \in DOMAIN rows : rows[i].user = u /\ rows[i].used
      BY <2>1, <3>1 DEF VerifiedByUsedLink
    <3>3. \A i \in DOMAIN rows : rows'[i].user = u /\ rows'[i].used
                                <=> rows[i].user = u /\ rows[i].used
      BY <1>1, <1>10, <2>3
    <3> QED
      BY <3>1, <3>2, <3>3
  <2> QED
    BY <2>2, <2>3
<1>16. Functions'
  BY <1>1, <1>4 DEF Functions
<1> QED
  BY <1>9, <1>11, <1>12, <1>13, <1>14, <1>15, <1>16 DEF VerifyInv

-----------------------------------------------------------------------------
(* A step that only answers, or changes nothing.                             *)
LEMMA ReplyKeeps ==
  ASSUME VerifyInv, UNCHANGED <<registerVars, workerVars, pc, rows, click>>,
         reply' \in [Calls -> {"none", "ok", "exists", "err"}]
  PROVE  VerifyInv'
<1>1. UNCHANGED <<req, users, tasks, work, attempts, mailbox, shutdowns, pc, rows, click>>
  BY DEF registerVars, workerVars
<1>2. TypeOK'
  BY <1>1 DEF VerifyInv, TypeOK
<1>3. UsersStay /\ shutdowns' \in Nat /\ shutdowns <= shutdowns'
  BY <1>1, RetryBounds DEF UsersStay, VerifyInv, TypeOK
<1>4. ASSUME NEW s \in Registrations PROVE WorkInv(s)'
  BY <1>1, <1>3, WorkKept
<1>5. ASSUME NEW i \in DOMAIN rows PROVE RowInv(i)'
  BY <1>1, <1>3, RowKept, RowTypes
<1>6. RegisterPart' /\ ClickPart' /\ VerifiedByUsedLink' /\ Functions'
  BY <1>1, RegisterPartKept, ClickPartKept, VerifiedKept DEF VerifyInv, Functions
<1> QED
  BY <1>1, <1>2, <1>4, <1>5, <1>6 DEF VerifyInv

(* The calls of CommitUser and CommitClick are of the right kind by their    *)
(* own guards, those of Rollback and Abort may be of either.                 *)
LEMMA CallStepKeeps ==
  ASSUME VerifyInv, NEW x \in Calls, CallStep(x) \/ Abort(x)
  PROVE  VerifyInv'
<1>1. CASE Rollback(x) \/ Abort(x)
  BY <1>1, CallsSplit, AbortedKeeps, ClickEndsKeep
<1>2. CASE ReturnOk(x)
  <2>1. reply' \in [Calls -> {"none", "ok", "exists", "err"}]
    BY <1>2 DEF ReturnOk, Answer, VerifyInv, TypeOK
  <2> QED
    BY <1>2, <2>1, ReplyKeeps DEF ReturnOk
<1>3. CASE CommitUser(x)
  BY <1>3, CommitUserKeeps DEF CommitUser
<1>4. CASE CommitClick(x)
  BY <1>4, CommitClickKeeps DEF CommitClick
<1>5. CASE x \in Registrations /\ (InsertUser(x) \/ UniqueViolation(x)
                                   \/ Enqueue(x) \/ EnqueueFails(x))
  BY <1>5, InsertUserKeeps, AbortedKeeps, EnqueueKeeps
<1>6. CASE x \in Clicks /\ (UpdateVerifyEmail(x) \/ VerifyUser(x))
  BY <1>6, UpdateVerifyEmailKeeps, ClickEndsKeep
<1> QED
  BY <1>1, <1>2, <1>3, <1>4, <1>5, <1>6 DEF CallStep

LEMMA InvNext == VerifyInv /\ [Next]_vars => VerifyInv'
<1> SUFFICES ASSUME VerifyInv, [Next]_vars PROVE VerifyInv'
  OBVIOUS
<1>1. ASSUME NEW x \in Calls, CallStep(x) \/ Abort(x) PROVE VerifyInv'
  BY <1>1, CallStepKeeps
<1>2. ASSUME NEW r \in Registrations, WorkerStep(r) PROVE VerifyInv'
  BY <1>2, DequeueKeeps, GetUserKeeps, CreateVerifyEmailKeeps, SendEmailKeeps, CompleteKeeps
  DEF WorkerStep
<1>3. ASSUME NEW r \in Registrations, Register(r) \/ AttemptFails(r) \/ GiveBack(r)
      PROVE  VerifyInv'
  <2>1. CASE AttemptFails(r)
    BY <2>1, FailedKeeps DEF AttemptFails
  <2> QED
    BY <1>3, <2>1, RegisterKeeps, GiveBackKeeps
<1>4. ASSUME NEW k \in Clicks, Click(k) PROVE VerifyInv'
  BY <1>4, ClickKeeps
<1>5. ASSUME NEW x \in Calls, ConnLost(x) PROVE VerifyInv'
  <2>1. reply' \in [Calls -> {"none", "ok", "exists", "err"}]
    BY <1>5 DEF ConnLost, Answer, VerifyInv, TypeOK
  <2> QED
    BY <1>5, <2>1, ReplyKeeps DEF ConnLost
<1>6. ASSUME NEW id \in DOMAIN rows, Expire(id) PROVE VerifyInv'
  BY <1>6, ExpireKeeps
<1>7. ASSUME NEW u \in Users, NEW e \in Emails, UpdateUser(u, e) PROVE VerifyInv'
  BY <1>7, UpdateUserKeeps
<1>8. CASE UNCHANGED vars
  <2>1. UNCHANGED <<registerVars, workerVars, pc, reply, rows, click>>
    BY <1>8 DEF vars, callVars
  <2>2. reply' \in [Calls -> {"none", "ok", "exists", "err"}]
    BY <2>1 DEF VerifyInv, TypeOK
  <2> QED
    BY <2>1, <2>2, ReplyKeeps
<1>9. CASE Next
  BY <1>1, <1>2, <1>3, <1>4, <1>5, <1>6, <1>7, <1>9 DEF Next, Environment
<1> QED
  BY <1>8, <1>9

-----------------------------------------------------------------------------
(* The inductive invariant: what each transaction has read and locked is     *)
(* still so when it commits.                                                 *)
THEOREM VerifyInvariant == Spec => []VerifyInv
BY InvInit, InvNext, PTL DEF Spec

(* Every variable keeps its type; the number of a task's attempts keeps to   *)
(* its retries and the shutdowns of the worker.                              *)
THEOREM TypeCorrect == Spec => []TypeOK
<1>1. VerifyInv => TypeOK
  BY DEF VerifyInv
<1> QED
  BY <1>1, VerifyInvariant, PTL

(* No two users share an email and none is replaced, whatever registrations  *)
(* and changes of an email run at the same time.                             *)
THEOREM UsersAreUnique == Spec => []UniqueUsers
<1>1. VerifyInv => UniqueUsers
  BY DEF VerifyInv, RegisterPart, UserEmails, Apart, UniqueUsers
<1> QED
  BY <1>1, VerifyInvariant, PTL

(* A link goes to an address that its user has had, although its task is     *)
(* enqueued before the COMMIT and may outlive a rollback.                    *)
THEOREM LinksReachTheirUsers == Spec => []LinkReachesItsUser
<1>1. VerifyInv => LinkReachesItsUser
  BY DEF VerifyInv, RowInv, LinkReachesItsUser, Held
<1> QED
  BY <1>1, VerifyInvariant, PTL

(* A user whom gapi has created has a task in the queue.                     *)
THEOREM TasksAreEnqueued == Spec => []CreatedUserHasTask
<1>1. VerifyInv => CreatedUserHasTask
  BY DEF VerifyInv, RegisterPart, RegisterInv, CreatedUserHasTask
<1> QED
  BY <1>1, VerifyInvariant, PTL

(* A user is verified exactly when one of his links is used.                 *)
THEOREM VerificationIsWhole == Spec => []VerifiedByUsedLink
<1>1. VerifyInv => VerifiedByUsedLink
  BY DEF VerifyInv
<1> QED
  BY <1>1, VerifyInvariant, PTL

(* Of any number of clicks on a link one succeeds at most.                   *)
THEOREM LinksAreUsedOnce == Spec => []LinkIsUsedOnce
<1>1. VerifyInv => LinkIsUsedOnce
  BY DEF VerifyInv, ClickPart
<1> QED
  BY <1>1, VerifyInvariant, PTL

-----------------------------------------------------------------------------
(* Every step is a step of Verification or changes nothing that it shows.    *)

LEMMA Hidden ==
  ASSUME UNCHANGED <<mailbox>>, DOMAIN rows' = DOMAIN rows, mailbox \subseteq DOMAIN rows,
         \A id \in DOMAIN rows : /\ rows'[id].user = rows[id].user
                                 /\ rows'[id].used = rows[id].used,
         \A u \in Users : users'[u] # NoUser <=> users[u] # NoUser,
         \A u \in Users : users[u] # NoUser => users'[u].verified = users[u].verified
  PROVE  UNCHANGED Promise!vars
<1>1. exists' = exists
  BY DEF exists
<1>2. {[link |-> id, user |-> rows'[id].user] : id \in mailbox'}
        = {[link |-> id, user |-> rows[id].user] : id \in mailbox}
  OBVIOUS
<1>3. {id \in DOMAIN rows' : rows'[id].used} = {id \in DOMAIN rows : rows[id].used}
  OBVIOUS
<1>4. {u \in exists' : users'[u].verified} = {u \in exists : users[u].verified}
  BY <1>1 DEF exists
<1> QED
  BY <1>1, <1>2, <1>3, <1>4 DEF Promise!vars

LEMMA Frozen ==
  ASSUME VerifyInv, UNCHANGED <<mailbox, rows, users>>
  PROVE  UNCHANGED Promise!vars
<1>1. mailbox \subseteq DOMAIN rows
  BY DEF VerifyInv, TypeOK
<1> QED
  BY <1>1, Hidden

LEMMA CommitUserRegisters ==
  ASSUME VerifyInv, NEW r \in Registrations, CommitUser(r)
  PROVE  \E u \in Users : Promise!Register(u)
<1> DEFINE q == req[r]
           row == [email |-> q.email, verified |-> FALSE, held |-> {q.email}]
<1>1. /\ pc[r] = "commit" /\ users' = [users EXCEPT ![q.user] = row]
      /\ UNCHANGED <<mailbox, rows>>
  BY DEF CommitUser, GoTo, workerVars
<1>2. q.user \in Users /\ q.email \in Emails /\ users \in [Users -> UserRows \cup {NoUser}]
  BY <1>1, RequestTypes DEF VerifyInv, TypeOK, UserRows
<1>3. users[q.user] = NoUser
  BY <1>1 DEF VerifyInv, RegisterPart, RegisterInv, Inserted, Taken
<1>4. row # NoUser /\ row.verified = FALSE
  BY <1>2, UserRowTypes
<1> HIDE DEF row
<1>5. \A u \in Users : users'[u] = IF u = q.user THEN row ELSE users[u]
  BY <1>1, <1>2
<1>6. q.user \notin exists /\ exists' = exists \cup {q.user}
  BY <1>2, <1>3, <1>4, <1>5 DEF exists
<1>7. {u \in exists' : users'[u].verified} = {u \in exists : users[u].verified}
  BY <1>2, <1>4, <1>5, <1>6 DEF exists
<1>8. Promise!Register(q.user)
  BY <1>1, <1>6, <1>7 DEF Promise!Register
<1> QED
  BY <1>2, <1>8

LEMMA SendEmailMails ==
  ASSUME VerifyInv, NEW r \in Registrations, SendEmail(r)
  PROVE  \/ UNCHANGED Promise!vars
         \/ \E u \in Users, l \in RowIds : Promise!Mail(l, u)
<1> DEFINE id == work[r].id
           mailed == {[link |-> i, user |-> rows[i].user] : i \in mailbox}
<1>1. /\ work[r].step = "send" /\ mailbox' = mailbox \cup {id}
      /\ UNCHANGED <<users, rows>>
  BY DEF SendEmail, Step, registerVars
<1>2. id \in DOMAIN rows
  BY <1>1, WorkFacts DEF WorkTypes
<1>3. /\ rows[id].user \in Users /\ users[rows[id].user] # NoUser /\ id \in RowIds
  BY <1>2, RowTypes DEF VerifyInv, RowInv, Held
<1> HIDE DEF id
<1>4. CASE id \in mailbox
  BY <1>1, <1>4, Frozen
<1>5. CASE id \notin mailbox
  <2>1. mailed' = mailed \cup {[link |-> id, user |-> rows[id].user]}
    BY <1>1
  <2>2. \A m \in mailed : m.link # id
    BY <1>5
  <2>3. rows[id].user \in exists /\ exists' = exists
    BY <1>1, <1>3 DEF exists
  <2>4. {u \in exists' : users'[u].verified} = {u \in exists : users[u].verified}
    BY <1>1, <2>3
  <2>5. PICK u \in Users, l \in RowIds : u = rows[id].user /\ l = id
    BY <1>3
  <2>6. Promise!Mail(l, u)
    BY <1>1, <2>1, <2>2, <2>3, <2>4, <2>5 DEF Promise!Mail
  <2> QED
    BY <2>6
<1> QED
  BY <1>4, <1>5

LEMMA CommitClickUses ==
  ASSUME VerifyInv, NEW k \in Clicks, CommitClick(k)
  PROVE  \E m \in {[link |-> i, user |-> rows[i].user] : i \in mailbox} : Promise!Use(m)
<1> DEFINE id == click[k].id
           owner == UserOf(k)
           m == [link |-> id, user |-> owner]
<1>1. /\ mailbox' = mailbox /\ id \in mailbox /\ id \in DOMAIN rows /\ ~rows[id].used
      /\ owner \in Users /\ users[owner] # NoUser /\ owner = rows[id].user
  BY CommitClickEffect DEF UserOf
<1>2. PICK row \in LinkRows : /\ rows' = [rows EXCEPT ![id] = row]
                              /\ row.used = TRUE /\ row.user = owner
  BY CommitClickEffect
<1>3. PICK user \in UserRows : /\ users' = [users EXCEPT ![owner] = user]
                               /\ user.verified = TRUE
  BY CommitClickEffect
<1>4. users \in [Users -> UserRows \cup {NoUser}] /\ rows \in [DOMAIN rows -> LinkRows]
      /\ mailbox \subseteq DOMAIN rows
  BY DEF VerifyInv, TypeOK, UserRows, LinkRows
<1> HIDE DEF id, owner
<1>5. DOMAIN rows' = DOMAIN rows
      /\ \A i \in DOMAIN rows : rows'[i] = IF i = id THEN row ELSE rows[i]
  BY <1>2, <1>4
<1>6. \A u \in Users : users'[u] = IF u = owner THEN user ELSE users[u]
  BY <1>3, <1>4
<1>7. user # NoUser
  BY UserRowTypes
<1>8. exists' = exists /\ owner \in exists
  BY <1>1, <1>6, <1>7 DEF exists
<1>9. {u \in exists' : users'[u].verified} = {u \in exists : users[u].verified} \cup {owner}
  BY <1>3, <1>6, <1>8 DEF exists
<1>10. {i \in DOMAIN rows' : rows'[i].used} = {i \in DOMAIN rows : rows[i].used} \cup {id}
  BY <1>1, <1>2, <1>5
<1>11. \A i \in mailbox : rows'[i].user = rows[i].user
  BY <1>1, <1>2, <1>4, <1>5
<1>12. {[link |-> i, user |-> rows'[i].user] : i \in mailbox'}
         = {[link |-> i, user |-> rows[i].user] : i \in mailbox}
  BY <1>1, <1>11
<1>13. m \in {[link |-> i, user |-> rows[i].user] : i \in mailbox}
  BY <1>1
<1>14. m.link = id /\ m.user = owner
  OBVIOUS
<1>15. id \notin {i \in DOMAIN rows : rows[i].used}
  BY <1>1
<1> HIDE DEF m
<1>16. PICK n \in {[link |-> i, user |-> rows[i].user] : i \in mailbox} : n = m
  BY <1>13
<1>17. Promise!Use(n)
  BY <1>8, <1>9, <1>10, <1>12, <1>14, <1>15, <1>16 DEF Promise!Use
<1> QED
  BY <1>17

LEMMA StepRefines ==
  ASSUME VerifyInv, [Next]_vars
  PROVE  [Promise!Next]_(Promise!vars)
<1>0. TypeOK /\ mailbox \subseteq DOMAIN rows
  BY DEF VerifyInv, TypeOK
<1>1. ASSUME NEW r \in Registrations, CommitUser(r) PROVE Promise!Next
  BY <1>1, CommitUserRegisters DEF Promise!Next
<1>2. ASSUME NEW r \in Registrations, SendEmail(r) PROVE [Promise!Next]_(Promise!vars)
  BY <1>2, SendEmailMails DEF Promise!Next
<1>3. ASSUME NEW k \in Clicks, CommitClick(k) PROVE Promise!Next
  BY <1>3, CommitClickUses DEF Promise!Next
<1>4. ASSUME NEW r \in Registrations, CreateVerifyEmail(r) PROVE UNCHANGED Promise!vars
  <2> DEFINE id == <<r, attempts[r]>>
             row == [user |-> req[r].user, email |-> work[r].email,
                     used |-> FALSE, expired |-> FALSE]
  <2>1. /\ rows' = [i \in DOMAIN rows \cup {id} |-> IF i = id THEN row ELSE rows[i]]
        /\ UNCHANGED <<users, mailbox>>
    BY <1>4 DEF CreateVerifyEmail, registerVars
  <2>2. row.used = FALSE
    OBVIOUS
  <2>3. id \notin DOMAIN rows
    <3>1. id[1] = r /\ id[2] = attempts[r]
      OBVIOUS
    <3>2. \A i \in DOMAIN rows : i[2] < attempts[i[1]] /\ i[2] \in Nat /\ attempts[i[1]] \in Nat
      BY RowTypes DEF VerifyInv, RowInv, Held
    <3> QED
      BY <3>1, <3>2
  <2> HIDE DEF id, row
  <2>4. /\ DOMAIN rows' = DOMAIN rows \cup {id} /\ rows'[id] = row
        /\ \A i \in DOMAIN rows : rows'[i] = rows[i]
    BY <2>1, <2>3
  <2>5. /\ exists' = exists
        /\ {u \in exists' : users'[u].verified} = {u \in exists : users[u].verified}
    BY <2>1 DEF exists
  <2>6. {i \in DOMAIN rows' : rows'[i].used} = {i \in DOMAIN rows : rows[i].used}
    BY <2>2, <2>4
  <2>7. {[link |-> i, user |-> rows'[i].user] : i \in mailbox'}
          = {[link |-> i, user |-> rows[i].user] : i \in mailbox}
    BY <1>0, <2>1, <2>4
  <2> QED
    BY <2>5, <2>6, <2>7 DEF Promise!vars
<1>5. ASSUME NEW id \in DOMAIN rows, Expire(id) PROVE UNCHANGED Promise!vars
  <2>1. rows' = [rows EXCEPT ![id].expired = TRUE] /\ UNCHANGED <<users, mailbox>>
    BY <1>5 DEF Expire, registerVars, workerVars
  <2>2. rows \in [DOMAIN rows -> LinkRows]
    BY <1>0 DEF TypeOK, LinkRows
  <2>3. \A i \in DOMAIN rows : rows'[i].user = rows[i].user /\ rows'[i].used = rows[i].used
    BY <2>1, <2>2 DEF LinkRows
  <2> QED
    BY <1>0, <2>1, <2>3, Hidden
<1>6. ASSUME NEW u \in Users, NEW e \in Emails, UpdateUser(u, e) PROVE UNCHANGED Promise!vars
  <2>1. /\ users' = [users EXCEPT ![u].email = e, ![u].held = @ \cup {e}]
        /\ users[u] # NoUser
        /\ UNCHANGED <<rows, mailbox>>
    BY <1>6 DEF UpdateUser, workerVars
  <2>2. users[u] \in UserRows /\ users \in [Users -> UserRows \cup {NoUser}]
    BY <1>0, <2>1, UserRead DEF TypeOK, UserRows
  <2>3. PICK row \in UserRows : /\ row = [users[u] EXCEPT !.email = e, !.held = @ \cup {e}]
                                /\ row.verified = users[u].verified
    <3>1. ASSUME NEW old \in UserRows
          PROVE  /\ [old EXCEPT !.email = e, !.held = @ \cup {e}] \in UserRows
                 /\ [old EXCEPT !.email = e, !.held = @ \cup {e}].verified = old.verified
      BY DEF UserRows
    <3> QED
      BY <2>2, <3>1
  <2>4. \A v \in Users : users'[v] = IF v = u THEN row ELSE users[v]
    BY <2>1, <2>2, <2>3
  <2>5. row # NoUser
    BY UserRowTypes
  <2> QED
    BY <1>0, <2>1, <2>3, <2>4, <2>5, Hidden
<1>7. ASSUME NEW x \in Calls,
             \/ Rollback(x) \/ Abort(x) \/ ReturnOk(x) \/ ConnLost(x) \/ InsertUser(x)
             \/ UniqueViolation(x) \/ Enqueue(x) \/ EnqueueFails(x) \/ Register(x)
             \/ Click(x) \/ UpdateVerifyEmail(x) \/ VerifyUser(x)
      PROVE  UNCHANGED Promise!vars
  <2>1. UNCHANGED <<mailbox, rows, users>>
    BY <1>7
    DEF Rollback, Abort, ReturnOk, ConnLost, InsertUser, UniqueViolation, Enqueue,
        EnqueueFails, Register, Click, UpdateVerifyEmail, VerifyUser,
        registerVars, workerVars
  <2> QED
    BY <2>1, Frozen
<1>8. ASSUME NEW r \in Registrations,
             Dequeue(r) \/ GetUser(r) \/ Complete(r) \/ AttemptFails(r) \/ GiveBack(r)
      PROVE  UNCHANGED Promise!vars
  <2>1. UNCHANGED <<mailbox, rows, users>>
    BY <1>8 DEF Dequeue, GetUser, Complete, AttemptFails, GiveBack, registerVars
  <2> QED
    BY <2>1, Frozen
<1>9. CASE UNCHANGED vars
  <2>1. UNCHANGED <<mailbox, rows, users>>
    BY <1>9 DEF vars, registerVars, workerVars
  <2> QED
    BY <2>1, Frozen
<1>10. ASSUME NEW x \in Calls, CallStep(x) \/ Abort(x) PROVE [Promise!Next]_(Promise!vars)
  <2>1. CASE CommitUser(x)
    BY <1>1, <2>1 DEF CommitUser
  <2>2. CASE CommitClick(x)
    BY <1>3, <2>2 DEF CommitClick
  <2> QED
    BY <1>7, <1>10, <2>1, <2>2 DEF CallStep
<1>11. ASSUME NEW r \in Registrations, WorkerStep(r) PROVE [Promise!Next]_(Promise!vars)
  BY <1>2, <1>4, <1>8, <1>11 DEF WorkerStep
<1>12. CASE Environment
  BY <1>5, <1>6, <1>7, <1>8, <1>12, CallsSplit DEF Environment
<1> QED
  BY <1>9, <1>10, <1>11, <1>12 DEF Next

(* Registration and verification implement the one-step promise: only the    *)
(* user of a mailed, unused link is verified by it, with the link and once.  *)
THEOREM Refinement == Spec => ImplementsVerification
<1>1. Init => Promise!Init
  <2> SUFFICES ASSUME Init PROVE Promise!Init
    OBVIOUS
  <2>1. exists = {} /\ DOMAIN rows = {} /\ mailbox = {}
    BY DEF Init, exists
  <2> QED
    BY <2>1 DEF Promise!Init
<1> QED
  BY <1>1, StepRefines, VerifyInvariant, PTL DEF Spec, Promise!Spec, ImplementsVerification

=============================================================================
