-------------------------- MODULE EmailVerification --------------------------
(***************************************************************************)
(* Registration and the verification of the user's email address: the two  *)
(* ways to create a user (gapi CreateUser with its CreateUserTx, and the   *)
(* older POST /users of package api), the task that CreateUserTx enqueues  *)
(* in Redis before its COMMIT, the worker that creates a verify_emails row *)
(* and mails its link, the VerifyEmailTx of a click on the link, and the   *)
(* change of an email by UpdateUser.                                       *)
(*                                                                         *)
(* A task is delivered at least once: a failed attempt is retried up to    *)
(* MaxRetry times, a worker that dies loses its lease on the task, and a   *)
(* worker that is shut down gives the task back.                           *)
(***************************************************************************)
EXTENDS Naturals, FiniteSets

CONSTANTS
  Registrations,  \* calls of CreateUser; also the ids of the tasks they enqueue
  Clicks,         \* calls of VerifyEmail
  Users,          \* usernames
  Emails,         \* email addresses
  MaxRetry,       \* asynq.MaxRetry of the task
  MaxShutdowns,   \* how often a worker is shut down in the middle of the task
  NoUser          \* no row of that username

VARIABLES
  req,        \* req[r]: the arguments of registration r
  pc,         \* pc[x]: the statement the transaction of call x is about to run
  reply,      \* reply[x]: the answer to call x
  users,      \* the committed rows of table users, by username
  tasks,      \* tasks[r]: the state of the task in the queue, and its retries
  work,       \* work[r]: the step of the attempt that runs, and the user it read
  attempts,   \* attempts[r]: verify_emails rows the attempts have created
  rows,       \* the rows of table verify_emails; an id is <<task, attempt>>
  mailbox,    \* ids of the rows whose link has been delivered
  click,      \* click[k]: the link of click k, and if it was fresh at its BEGIN
  shutdowns   \* how many times a task has been given back

registerVars == <<req, users>>
workerVars == <<tasks, work, attempts, mailbox, shutdowns>>
callVars == <<pc, reply>>
vars == <<registerVars, workerVars, callVars, rows, click>>

ASSUME RetryBounds == MaxRetry \in Nat /\ MaxShutdowns \in Nat
(* A row of table users; held, for the property, has every email it had.     *)
UserRows == [email: Emails, verified: BOOLEAN, held: SUBSET Emails]

ASSUME NoUserIsNoRow == NoUser \notin UserRows
ASSUME CallsAreDistinct == Registrations \cap Clicks = {}

Calls == Registrations \cup Clicks
Requests == [api: {"grpc", "rest"}, user: Users, email: Emails]

(* Transactions that have inserted a users row and not yet ended.            *)
Inserted == {r \in Registrations : pc[r] \in {"enqueue", "commit", "rollback"}}

(* Transactions that hold the row lock of a link, and of a user.             *)
HoldsRow(k) == pc[k] \in {"user", "commit"}
HoldsUser(k) == pc[k] = "commit"

UserOf(k) == rows[click[k].id].user

-----------------------------------------------------------------------------

Init ==
  /\ req = [r \in Registrations |-> [api |-> "none"]]
  /\ pc = [x \in Calls |-> "idle"]
  /\ reply = [x \in Calls |-> "none"]
  /\ users = [u \in Users |-> NoUser]
  /\ tasks = [r \in Registrations |-> [state |-> "none", retried |-> 0]]
  /\ work = [r \in Registrations |-> [step |-> "none"]]
  /\ attempts = [r \in Registrations |-> 0]
  /\ rows = [id \in {} |-> {}]
  /\ mailbox = {}
  /\ click = [k \in Clicks |-> [id |-> <<>>]]
  /\ shutdowns = 0

GoTo(x, step) == pc' = [pc EXCEPT ![x] = step]
Running(x, step) == pc[x] = step /\ reply[x] = "none"
Answer(x, answer) == reply' = [reply EXCEPT ![x] = answer]

-----------------------------------------------------------------------------
(* Registration.                                                             *)

Register(r) ==
  /\ pc[r] = "idle"
  /\ \E q \in Requests : req' = [req EXCEPT ![r] = q]
  /\ GoTo(r, "insert")
  /\ UNCHANGED <<users, workerVars, reply, rows, click>>

(* Mutant: email is not unique.                                              *)
UsernameTaken(q) == users[q.user] # NoUser

(* The primary key of users is the username, and email is unique.            *)
Taken(q) == \/ users[q.user] # NoUser
            \/ \E u \in Users : users[u] # NoUser /\ users[u].email = q.email

(* An INSERT waits for a transaction that has inserted an equal key.         *)
MustWait(r) ==
  \E s \in Inserted \ {r} : \/ req[s].user = req[r].user
                            \/ req[s].email = req[r].email

(* INSERT INTO users.  POST /users runs it without a transaction around it,  *)
(* so its COMMIT is the next step.                                           *)
InsertUser(r) ==
  /\ Running(r, "insert")
  /\ ~MustWait(r)
  /\ ~Taken(req[r])
  /\ GoTo(r, IF req[r].api = "grpc" THEN "enqueue" ELSE "commit")
  /\ UNCHANGED <<registerVars, workerVars, reply, rows, click>>

UniqueViolation(r) ==
  /\ Running(r, "insert")
  /\ ~MustWait(r)
  /\ Taken(req[r])
  /\ GoTo(r, "aborted")
  /\ Answer(r, "exists")
  /\ UNCHANGED <<registerVars, workerVars, rows, click>>

(* AfterCreate, still inside the transaction.  Redis may take the task and   *)
(* the answer be lost: then the registration is rolled back.                 *)
Enqueue(r) ==
  /\ Running(r, "enqueue")
  /\ tasks' = [tasks EXCEPT ![r].state = "queued"]
  /\ \E next \in {"commit", "rollback"} : GoTo(r, next)
  /\ UNCHANGED <<registerVars, work, attempts, mailbox, shutdowns, reply, rows, click>>

(* Mutant: the error of AfterCreate is dropped.                              *)
EnqueueFailsSilently(r) ==
  /\ Running(r, "enqueue")
  /\ GoTo(r, "commit")
  /\ UNCHANGED <<registerVars, workerVars, reply, rows, click>>

EnqueueFails(r) ==
  /\ Running(r, "enqueue")
  /\ GoTo(r, "rollback")
  /\ UNCHANGED <<registerVars, workerVars, reply, rows, click>>

(* is_email_verified defaults to false.                                      *)
CommitUser(r) ==
  /\ r \in Registrations
  /\ pc[r] = "commit"
  /\ users' = [users EXCEPT ![req[r].user] =
                 [email |-> req[r].email, verified |-> FALSE,
                  held |-> {req[r].email}]]
  /\ GoTo(r, "committed")
  /\ UNCHANGED <<req, workerVars, reply, rows, click>>

(* UpdateUser with a new email.  It is one UPDATE; it waits for the user's   *)
(* row and for an uncommitted row with the same email, and fails when the    *)
(* email is taken.  is_email_verified keeps its value (it is not among the   *)
(* parameters that gapi sets).                                               *)
UpdateUser(u, e) ==
  /\ users[u] # NoUser
  /\ ~\E k \in Clicks : HoldsUser(k) /\ UserOf(k) = u
  /\ ~\E r \in Inserted : req[r].email = e
  /\ ~\E v \in Users : users[v] # NoUser /\ users[v].email = e
  /\ users' = [users EXCEPT ![u].email = e, ![u].held = @ \cup {e}]
  /\ UNCHANGED <<req, workerVars, callVars, rows, click>>

-----------------------------------------------------------------------------
(* The worker.                                                               *)

Step(r, step) == tasks[r].state = "active" /\ work[r].step = step

Dequeue(r) ==
  /\ tasks[r].state = "queued"
  /\ tasks' = [tasks EXCEPT ![r].state = "active"]
  /\ work' = [work EXCEPT ![r] = [step |-> "getUser"]]
  /\ UNCHANGED <<registerVars, attempts, mailbox, shutdowns, callVars, rows, click>>

(* Mutants: one retry too many; the handler returns nil after an error.      *)
FailedOnceMore(r) ==
  /\ tasks' = [tasks EXCEPT ![r] =
                 IF @.retried <= MaxRetry
                 THEN [state |-> "queued", retried |-> @.retried + 1]
                 ELSE [@ EXCEPT !.state = "archived"]]
  /\ work' = [work EXCEPT ![r] = [step |-> "none"]]
FailedSilently(r) ==
  /\ tasks' = [tasks EXCEPT ![r].state = "completed"]
  /\ work' = [work EXCEPT ![r] = [step |-> "none"]]

(* An attempt that returns an error, or loses its worker, is retried with a  *)
(* delay; the last one archives the task.                                    *)
Failed(r) ==
  /\ tasks' = [tasks EXCEPT ![r] =
                 IF @.retried < MaxRetry
                 THEN [state |-> "queued", retried |-> @.retried + 1]
                 ELSE [@ EXCEPT !.state = "archived"]]
  /\ work' = [work EXCEPT ![r] = [step |-> "none"]]

(* Mutant: the address comes in the task's payload.                          *)
GetUserFromPayload(r) ==
  /\ Step(r, "getUser")
  /\ work' = [work EXCEPT ![r] = [step |-> "create", email |-> req[r].email]]
  /\ UNCHANGED <<registerVars, tasks, attempts, mailbox, shutdowns, callVars, rows, click>>

GetUser(r) ==
  /\ Step(r, "getUser")
  /\ LET user == users[req[r].user] IN
       IF user = NoUser
       THEN Failed(r)
       ELSE /\ work' = [work EXCEPT ![r] = [step |-> "create", email |-> user.email]]
            /\ UNCHANGED tasks
  /\ UNCHANGED <<registerVars, attempts, mailbox, shutdowns, callVars, rows, click>>

(* The row names the user of the task, who is in the table (a foreign key),  *)
(* and the email that GetUser has read, a statement ago.                     *)
CreateVerifyEmail(r) ==
  /\ Step(r, "create")
  /\ users[req[r].user] # NoUser
  /\ LET id == <<r, attempts[r]>>
         row == [user |-> req[r].user, email |-> work[r].email,
                 used |-> FALSE, expired |-> FALSE]
     IN /\ rows' = [i \in DOMAIN rows \cup {id} |-> IF i = id THEN row ELSE rows[i]]
        /\ work' = [work EXCEPT ![r] = [step |-> "send", id |-> id]]
  /\ attempts' = [attempts EXCEPT ![r] = @ + 1]
  /\ UNCHANGED <<registerVars, tasks, mailbox, shutdowns, callVars, click>>

SendEmail(r) ==
  /\ Step(r, "send")
  /\ mailbox' = mailbox \cup {work[r].id}
  /\ work' = [work EXCEPT ![r] = [step |-> "done"]]
  /\ UNCHANGED <<registerVars, tasks, attempts, shutdowns, callVars, rows, click>>

(* The handler has returned nil and the worker takes the task off the queue. *)
Complete(r) ==
  /\ Step(r, "done")
  /\ tasks' = [tasks EXCEPT ![r].state = "completed"]
  /\ work' = [work EXCEPT ![r] = [step |-> "none"]]
  /\ UNCHANGED <<registerVars, attempts, mailbox, shutdowns, callVars, rows, click>>

(* A statement, the mail server (before or after it has taken the mail) or   *)
(* the worker itself fails.                                                  *)
AttemptFails(r) ==
  /\ tasks[r].state = "active"
  /\ Failed(r)
  /\ UNCHANGED <<registerVars, attempts, mailbox, shutdowns, callVars, rows, click>>

(* taskProcessor.Shutdown gives back what it cannot finish; this is no retry.*)
GiveBack(r) ==
  /\ tasks[r].state = "active"
  /\ shutdowns < MaxShutdowns
  /\ shutdowns' = shutdowns + 1
  /\ tasks' = [tasks EXCEPT ![r].state = "queued"]
  /\ work' = [work EXCEPT ![r] = [step |-> "none"]]
  /\ UNCHANGED <<registerVars, attempts, mailbox, callVars, rows, click>>

-----------------------------------------------------------------------------
(* A click on a link: VerifyEmailTx.                                         *)

(* 15 minutes after its creation a row expires.                              *)
Expire(id) ==
  /\ ~rows[id].expired
  /\ rows' = [rows EXCEPT ![id].expired = TRUE]
  /\ UNCHANGED <<registerVars, workerVars, callVars, click>>

(* now() of an SQL statement is the time of the BEGIN.                       *)
Click(k) ==
  /\ pc[k] = "idle"
  /\ \E id \in mailbox :
       click' = [click EXCEPT ![k] = [id |-> id, fresh |-> ~rows[id].expired]]
  /\ GoTo(k, "row")
  /\ UNCHANGED <<registerVars, workerVars, reply, rows>>

(* The UPDATE waits for another click on the same link, and then checks the  *)
(* row that click has left.                                                  *)
RowIsFree(k) == \A j \in Clicks \ {k} : HoldsRow(j) => click[j].id # click[k].id

(* Mutant: the UPDATE has no is_used = FALSE in its WHERE.                   *)
UsableAgain(k) == click[k].fresh

Usable(k) == click[k].fresh /\ ~rows[click[k].id].used

UpdateVerifyEmail(k) ==
  /\ Running(k, "row")
  /\ RowIsFree(k)
  /\ GoTo(k, IF Usable(k) THEN "user" ELSE "rollback")
  /\ UNCHANGED <<registerVars, workerVars, reply, rows, click>>

(* Mutant: the user is updated outside the transaction (store, not q).       *)
VerifyUserAtOnce(k) ==
  /\ Running(k, "user")
  /\ users' = [users EXCEPT ![UserOf(k)].verified = TRUE]
  /\ GoTo(k, "commit")
  /\ UNCHANGED <<req, workerVars, reply, rows, click>>

(* UpdateUser of the row's username with is_email_verified alone.            *)
VerifyUser(k) ==
  /\ Running(k, "user")
  /\ \A j \in Clicks \ {k} : HoldsUser(j) => UserOf(j) # UserOf(k)
  /\ GoTo(k, "commit")
  /\ UNCHANGED <<registerVars, workerVars, reply, rows, click>>

CommitClick(k) ==
  /\ k \in Clicks
  /\ pc[k] = "commit"
  /\ rows' = [rows EXCEPT ![click[k].id].used = TRUE]
  /\ users' = [users EXCEPT ![UserOf(k)].verified = TRUE]
  /\ GoTo(k, "committed")
  /\ UNCHANGED <<req, workerVars, reply, click>>

-----------------------------------------------------------------------------
(* The ends of a call of either kind, as in execTx.                          *)

Rollback(x) ==
  /\ Running(x, "rollback")
  /\ GoTo(x, "aborted")
  /\ Answer(x, "err")
  /\ UNCHANGED <<registerVars, workerVars, rows, click>>

ReturnOk(x) ==
  /\ Running(x, "committed")
  /\ Answer(x, "ok")
  /\ UNCHANGED <<registerVars, workerVars, pc, rows, click>>

(* A connection error, a cancelled request or the death of the program; the  *)
(* transaction may still commit if the COMMIT was under way.                 *)
ConnLost(x) ==
  /\ pc[x] # "idle"
  /\ reply[x] = "none"
  /\ Answer(x, "err")
  /\ UNCHANGED <<registerVars, workerVars, pc, rows, click>>

Ended == {"idle", "committed", "aborted"}

Abort(x) ==
  /\ reply[x] = "err"
  /\ pc[x] \notin Ended
  /\ GoTo(x, "aborted")
  /\ UNCHANGED <<registerVars, workerVars, reply, rows, click>>

CallStep(x) ==
  \/ Rollback(x) \/ ReturnOk(x) \/ CommitUser(x) \/ CommitClick(x)
  \/ x \in Registrations /\ (\/ InsertUser(x) \/ UniqueViolation(x)
                             \/ Enqueue(x) \/ EnqueueFails(x))
  \/ x \in Clicks /\ (UpdateVerifyEmail(x) \/ VerifyUser(x))

WorkerStep(r) == \/ Dequeue(r) \/ GetUser(r) \/ CreateVerifyEmail(r)
                 \/ SendEmail(r) \/ Complete(r)

Environment ==
  \/ \E r \in Registrations : Register(r) \/ AttemptFails(r) \/ GiveBack(r)
  \/ \E k \in Clicks : Click(k)
  \/ \E x \in Calls : ConnLost(x)
  \/ \E id \in DOMAIN rows : Expire(id)
  \/ \E u \in Users, e \in Emails : UpdateUser(u, e)

Next ==
  \/ \E x \in Calls : CallStep(x) \/ Abort(x)
  \/ \E r \in Registrations : WorkerStep(r)
  \/ Environment

Spec == Init /\ [][Next]_vars

(* Requests and clicks need not be made and nothing needs to fail; what has  *)
(* begun goes on, and the queue hands out its tasks.                         *)
Fairness == /\ \A x \in Calls : WF_vars(CallStep(x)) /\ WF_vars(Abort(x))
            /\ \A r \in Registrations : WF_vars(WorkerStep(r))

FairSpec == Spec /\ Fairness

-----------------------------------------------------------------------------
(***************************************************************************)
(* Properties.                                                             *)
(***************************************************************************)
RowIds == Registrations \X (0..MaxRetry + MaxShutdowns)
States == {"none", "queued", "active", "completed", "archived"}
CallSteps == {"idle", "insert", "enqueue", "row", "user", "commit", "rollback",
              "committed", "aborted"}

(* Every variable has its type, and no task is attempted more often than its *)
(* retries and the shutdowns of the worker allow.                            *)
TypeOK ==
  /\ \A r \in Registrations : pc[r] = "idle" \/ req[r] \in Requests
  /\ pc \in [Calls -> CallSteps]
  /\ reply \in [Calls -> {"none", "ok", "exists", "err"}]
  /\ users \in [Users -> UserRows \cup {NoUser}]
  /\ tasks \in [Registrations -> [state: States, retried: 0..MaxRetry]]
  /\ work \in [Registrations -> [step: {"none", "getUser", "done"}]
                                \cup [step: {"create"}, email: Emails]
                                \cup [step: {"send"}, id: DOMAIN rows]]
  /\ attempts \in [Registrations -> 0..MaxRetry + MaxShutdowns + 1]
  /\ DOMAIN rows \subseteq RowIds
  /\ rows \in [DOMAIN rows -> [user: Users, email: Emails,
                               used: BOOLEAN, expired: BOOLEAN]]
  /\ mailbox \subseteq DOMAIN rows
  /\ \A k \in Clicks : pc[k] # "idle" =>
       click[k] \in [id: DOMAIN rows, fresh: BOOLEAN]
  /\ shutdowns \in 0..MaxShutdowns

(* A user is verified exactly when one of his links has been used: VerifyEmailTx *)
(* changes both tables or neither, whatever fails in between.                *)
VerifiedByUsedLink ==
  \A u \in Users : users[u] # NoUser =>
    (users[u].verified <=> \E id \in DOMAIN rows : rows[id].user = u /\ rows[id].used)

(* However many clicks on a link run at the same time, one of them succeeds. *)
LinkIsUsedOnce ==
  \A j, k \in Clicks :
    j # k /\ pc[j] = "committed" /\ pc[k] = "committed" => click[j].id # click[k].id

(* A link goes only to an address that its user has had, although the task   *)
(* may outlive the transaction that has enqueued it, another registration    *)
(* may take the username, and the email may change during the attempt.       *)
LinkReachesItsUser ==
  \A id \in DOMAIN rows :
    LET user == users[rows[id].user]
    IN user # NoUser /\ rows[id].email \in user.held

(* A user that gapi has created has a task: it is enqueued before the COMMIT.*)
CreatedUserHasTask ==
  \A r \in Registrations :
    pc[r] = "committed" /\ req[r].api = "grpc" => tasks[r].state # "none"

(* The same of every user: POST /users enqueues nothing and breaks it.       *)
EveryUserHasTask ==
  \A r \in Registrations : pc[r] = "committed" => tasks[r].state # "none"

(* Concurrent registrations and changes never leave two users with one email,*)
(* and never replace a user.                                                 *)
UniqueUsers ==
  /\ \A u, v \in Users : u # v /\ users[u] # NoUser /\ users[v] # NoUser
                           => users[u].email # users[v].email
  /\ \A r, s \in Registrations :
       r # s /\ pc[r] = "committed" /\ pc[s] = "committed" => req[r].user # req[s].user

(* A created user is mailed a link, or the task ends in the archive after    *)
(* its retries: no failure of a worker loses it.                             *)
CreatedUserIsMailed ==
  \A r \in Registrations :
    pc[r] = "committed" /\ req[r].api = "grpc"
      ~> tasks[r].state = "archived" \/ \E id \in mailbox : id[1] = r

-----------------------------------------------------------------------------
(* The abstract verification that all of this implements.                    *)
exists == {u \in Users : users[u] # NoUser}

Promise == INSTANCE Verification WITH
  Links <- RowIds,
  registered <- exists,
  mailed <- {[link |-> id, user |-> rows[id].user] : id \in mailbox},
  used <- {id \in DOMAIN rows : rows[id].used},
  verified <- {u \in exists : users[u].verified}

(* Only the user of a mailed, unused link is verified by it, at the COMMIT of*)
(* VerifyEmailTx and with the link; nobody is unregistered or unverified, and*)
(* no mail names a user who does not exist or changes its link's user.       *)
ImplementsVerification == Promise!Spec

=============================================================================
