# Simple Bank: TLA+ models and proofs

Simple Bank is a Go program: a REST server (`src/api`, Gin) and a gRPC server
with an HTTP gateway (`src/gapi`) over one PostgreSQL store (`src/db/sqlc`), and
a worker (`src/worker`) that takes tasks from Redis and mails verification
links.  `src/main.go` starts all of them in one process; several replicas of
that process may run (`src/eks/deployment.yaml`).  A Vue frontend
(`src/frontend`) registers users, signs them in and shows a dashboard.

This directory holds TLA+ modules of the program's own logic, TLC
configurations that check them on small instances, and proofs, checked by
TLAPS, that the safety properties of every component hold for every value of the
constants.  `PROJECT.json` lists components, runs, mutants, source lines,
hazards, findings and theorems.

## 1. Inventory

| Component | State it keeps | Operations | Interacts with | What is hard | What makes it correct |
|---|---|---|---|---|---|
| Transfer transaction (`db/sqlc/tx_transfer.go`, `exec_tx.go`, `account/entry/transfer.sql.go`) | tables accounts, transfers, entries; row locks; the connection pool | `TransferTx`, `execTx`, `addMoney`, the five statements | PostgreSQL, the API handlers | lock order, lost updates, overflow, a COMMIT with an unknown outcome, clients that die holding locks | each transfer is posted at most once and as a whole; balance = sum of entries; no deadlock; every call answered |
| Accounts and transfers handlers (`api/account.go`, `api/transfer.go`) | none of their own | `createAccount`, `getAccount`, `listAccounts`, `createTransfer` | authorization, the store | the checks are separate statements before the transaction | currencies do not mix, only owners pay, the status is true |
| Registration, email verification (`gapi/rpc_create_user.go`, `rpc_verify_email.go`, `api/user.go`, `tx_create_user.go`, `tx_verify_email.go`) | tables users, verify_emails | `CreateUser`, `POST /users`, `VerifyEmail`, `UpdateUser` | the queue, the worker, the mailbox | a Redis task enqueued inside a PostgreSQL transaction; double clicks; races of unique keys | a created user has a task; a link works once; user and link change together |
| Worker (`worker/`) | Redis queue; asynq's retry count and lease | `DistributeTaskSendVerifyEmail`, `ProcessTaskSendVerifyEmail`, `Start`, `Shutdown` | users, verify_emails, the mail server | at-least-once execution, tasks of rolled back users, shutdown in mid-task | no created user is forgotten; attempts are bounded |
| Login, sessions, renewal (`api/user.go`, `api/token.go`, `gapi/rpc_login_user.go`, `session.sql.go`) | table sessions; tokens held by clients | `loginUser`, `LoginUser`, `renewAccessToken` | token makers, users | expiry and blocking race with renewal; roles and passwords change after the token is made | a token has a session; no token outlives it for long; a blocked session is not renewed |
| Authorization (`api/middleware.go`, `gapi/authorization.go`, `token/`) | none (the payload is in the token) | `authMiddleware`, `authorizeUser`, `CreateToken`, `VerifyToken` | every protected handler | stale roles, stale sessions, confusion of token types | only access tokens, only before expiry, only permitted roles |
| Startup and shutdown (`main.go`) | errgroup, signal context, three servers; the migration version in the database | `runDBMigration`, `run*Server`, `runTaskProcessor` | everything | order of shutdown, failure of one server, a signal during startup, replicas of two releases that migrate and die | nothing serves before its schema is there; every server stops; requests in progress are finished |
| Frontend (`frontend/src`) | user and tokens in memory; the route; `loading` of a form; pending timeouts | `handleLogin`, `handleRegister`, logout, `router.push`, the guard, history, reload | `LoginUser` and `CreateUser` of the gateway | answers that are late, lost, out of order or for a form that is gone; timeouts that outlive their page; the guard looks at the store only when the route changes | guarded pages need a user; the store is all of one login; who is signed in gets to the dashboard; no button is stuck |

Mail transport, validation, password hashing, configuration, logging,
conversions, generated protobuf code, Swagger and deployment files keep no
state of the program's own and are not modelled.

## 2. The modules

| Module | Models |
|---|---|
| `Ledger` | the abstract promise of `Store.TransferTx`: one atomic posting per call |
| `TransferTx` | the transaction, statement by statement, with locks, pool and failures; implements `Ledger` |
| `TransferTxProofs` | the theorems about `TransferTx` |
| `TransferAPI` | `createAccount` and `createTransfer`, composed with `Ledger` |
| `Bank` | `TransferAPI` and `TransferTx` composed: the handlers over the transaction of the code; implements `TransferAPI` |
| `Verification` | the abstract promise of email verification: who exists, which links were mailed, used, and whom they verified |
| `EmailVerification` | registration, task queue, worker, clicks, change of email; implements `Verification` |
| `Sessions` | login, renewal, authorized password changes, the clock, the operator |
| `AuthGate` | the abstract promise of the frontend: who is signed in, what is shown to whom |
| `WebClient` | one browser tab: store, router, views, forms, requests, timeouts, and the two calls of the server; implements `AuthGate` |
| `Lifecycle` | `main.go` in several replicas over one database: migration, servers, errgroup, signals |
| `TransferAPIProofs`, `BankProofs`, `EmailVerificationProofs`, `SessionsProofs`, `WebClientProofs`, `LifecycleProofs` | the theorems about the module of that name |
| `Sums` | laws of sums over finite sets, for the theorems about balances |
| `MC...` | instances for TLC: symmetry sets and negative numbers, which a .cfg cannot hold |

Some modules contain operators marked *Mutant*: a definition as a plausible bug
would have it.  Nothing uses them; substituting one for the definition that
follows it must make TLC report the property `PROJECT.json` pairs it with, which
shows that the property can fail.

### Ledger and TransferTx

`pc[c]` is the statement call `c` of `TransferTx` is about to run; the actions
follow the closure given to `execTx`:

| Action | Code |
|---|---|
| `Begin` | `connPool.Begin`: waits while `PoolSize` connections are in use |
| `CreateTransfer`, `CreateFromEntry`, `CreateToEntry` | the three INSERTs; their foreign keys take KEY SHARE locks on the accounts |
| `UpdateFirst`, `UpdateSecond` | `addMoney`: two `UPDATE ... SET balance = balance + $1 ... RETURNING`, in ascending order of the ids (equal ids take the else branch) |
| `OutOfRange` | the error PostgreSQL gives when the sum leaves bigint |
| `Commit`, `Rollback`, `ReturnOk` | the end of `execTx` |
| `ConnLost` | any statement, or the COMMIT, returns a connection error; or the program dies |
| `Abort` | the server notices that its client is gone |

Insertions and new row versions are private (`newTransfers`, `newEntries`,
`draft`) until `Commit`; locks are in `held`.  `Conflicts` is PostgreSQL's
conflict table for the three row-lock modes that occur.  `Current` reads the
last committed row after the lock is granted, as READ COMMITTED does.  After
`ConnLost` a transaction whose COMMIT was under way may still commit, so an
answer "err" says nothing: that is how `Ledger` states it (`Fail`).  PostgreSQL
and the pool are not in `src/`; those definitions are marked external.

`Ledger!Post` moves both balances and adds all three rows in one step.
`TransferTx` maps its committed tables to those of `Ledger` and implements it
(`ImplementsLedger`): `Commit` is `Post`, `Call` is `Request`, `ReturnOk` is
`Succeed`, `Rollback` and `ConnLost` are `Fail`, the rest stutter.

### TransferAPI

`at[c]` follows `createTransfer`: `Receive` (the bound request), `CheckFrom`
(`validAccount`, then the owner), `CheckTo`, `CallTransferTx`, then the actions
of `Ledger` for the store, and `AnswerTransfer`.  `CheckFails` is a failed
`GetAccount`.  Accounts are created in between, several at a time: `CreateAccount`
is the INSERT, which uses up an id also when it is refused, and
`EndCreateAccount` its COMMIT, or failure.  Until then the row is in `inserting`:
no query sees it, but its key is in the index, where an equal INSERT waits for it.

### Bank

`TransferAPI` takes the store to be `Ledger`; `Bank` puts `TransferTx` there.
The two share the tables, and `req` and `reply` of a call.  `CallStore` is the
handler's call and the transaction's `Call` in one step, `Handler` a step of the
handler alone, `StoreStep` one of the transaction or its connection.  After a
lost connection the handler answers 500 while the transaction still holds its
locks, or commits.  `GetAccount` and `CreateAccount` need a connection of the
pool too, for one statement; they are not counted in `InUse`, as they wait for no
lock of a transfer and always give it back.
`ImplementsAPI` says that the composition does no more than `TransferAPI`.

### EmailVerification

Calls `Registrations` and `Clicks` run transactions with `pc` and `reply` as
above.  A registration through gRPC inserts the user (waiting, as a unique
index makes it, for an uncommitted equal key), enqueues the task, commits;
through `POST /users` it inserts and commits.  `Enqueue` may continue to a
rollback: Redis took the task and the answer was lost.  A task goes from
`queued` to `active`, where the actions `GetUser`, `CreateVerifyEmail`,
`SendEmail`, `Complete` are the statements of `ProcessTaskSendVerifyEmail`;
`AttemptFails` may strike at any of them, also after the mail was taken.
`Failed` retries or archives; `GiveBack` is a shutdown in mid-task.  A click
takes the row lock of its link, checks `is_used` and `expired_at` (against the
time of its BEGIN, hence `fresh`), locks the user, and commits both.
The code generates a 32-character secret: a click in the model uses a link that
was mailed.  A row of `verify_emails` refers to a user in the table, and the
INSERT fails without one.  `held` in a row of `users` is history: every address
that user has had.  Malformed payloads (`SkipRetry`) do not occur, as the only
producer marshals the payload itself.  The delays of the queue are left out:
attempts may start at any time.

`Verification` has no transactions, tasks or retries: a link is mailed once, to
a user who exists, and using it verifies that user in the same step.
`ImplementsVerification` maps its variables to the committed tables and the
mailbox: `CommitUser` is `Register`, `SendEmail` is `Mail`, `CommitClick` is
`Use`, everything else stutters, a change of email included.

### Sessions

`now` is the clock in ticks, and every reading of it is a step of its own.  A
login reads the user, checks the password against that row and makes the access
token, makes the refresh token, stores the session, answers; `arg` and `read` are
its local variables.  A renewal verifies the refresh token (`VerifyToken`), reads
the session and compares blocked flag, user and token (`GetSession`), then looks
at the session's expiry (`CheckExpiry`), and then makes an access token with the
role of the refresh token, for which `NewPayload` reads the clock again
(`RenewAccessToken`).  An update authorizes an access token and writes a
password; its answer may be lost.  No handler blocks a session
or changes a role; `Block` and `SetRole` stand for an operator's SQL and are
marked external.  `login` and `read` in a token, `delay`, the time between the
check of the expiry and the making of the token, and the time in `blockedAt` are
history kept for the properties.  `LifetimeIsBounded` is about that gap: a renewed
token may outlive its session by an access duration and the gap, and by no more.

### AuthGate and WebClient

`WebClient` is the frontend as the user meets it.  JavaScript runs to
completion, so each event, timeout or handled answer is one step, together with
the guards, emits and the rendering that follow it.

| Definition | Code |
|---|---|
| `store`, `setUser`, `clearUser` | `store.ts` |
| `beforeEach`, `Resolve` | the guard of `router/index.ts`, and its redirect, which passes the guard again |
| `push` | `router.push`; to the current path it is a duplicate and skips the guard |
| `Mounted`, `Render` | the tree of views: which component a path shows; a form that leaves the page loses its refs, and its pending handlers become `unmounted` |
| `handleLogin`, `LoggedIn`, `Failed`, `finally` | `LoginUser.vue` before and after the `await` |
| `handleRegister`, `Registered` | `RegisterUser.vue` and the `registered` event of `RegisterView.vue` |
| `HomeView`, `RegisterView`, `DashboardView`, `UserInfo` | what each page offers |
| `ToDashboard`, `ToLogin` | the two `setTimeout`s; nothing clears them |
| `Traverse`, `Load` | back and forward; a reload or a typed address, which makes a new document |
| `rpcLoginUser`, `rpcCreateUser`, `Lose` | the server's side of the two calls, and a request or an answer that is lost |
| `convertUser` | what a response has of a user: the name; the rest is only shown |

The button of a form is disabled while `loading`; Enter in the login form calls
`handleLogin` regardless, as `handleKeyPress` does.  Timeouts are not ordered by
their delays (500 ms and 2 s), since answers and users take any time in
between.  Toasts, `errorMessage`, styles and layout are left out: nothing reads
them.  What a token permits at the server is the matter of `Sessions`.

`AuthGate` knows only accounts, who is signed in, and whether the private
screen is shown.  `WF_vars(Enter)` is its liveness: somebody who stays signed in
gets to the dashboard, from whichever page the answer of the login came on.
`WebClient` implements it with the fairness of timeouts alone.

### Lifecycle

`pc[r]` is where `main` of replica `r` is.  `Lock`, `BeginMigration`,
`EndMigration`, `Refuse` and `Up` are golang-migrate's (external): an advisory
lock that dies with its connection, and a version that is dirty while a
migration runs.  Everything but success and `ErrNoChange` is fatal.
`runTaskProcessor`, `runGatewayServer` and `runGrpcServer` each start their
goroutines; `server[r][s]` is the goroutine inside `Serve`, `stopper[r][s]` the
one that waits for `ctx.Done()`.  `Stop` begins `GracefulStop` or `Shutdown`,
and `Stopped` is its return when `inFlight` is zero.  At `Stop` the gateway's
`Serve` returns; that of gRPC is `closing` and returns when `GracefulStop` does.
`Wait` is `waitGroup.Wait` and the end of `main`.  `Fatal` and `Kill` may strike
anywhere; `Start` starts the process again.

## 3. The runs

| Run | Configuration | Instance | Shows |
|---|---|---|---|
| transfers | `MCTransferTx.cfg` | 3 calls, 3 accounts, balances -2..2, pool of 3; about 1.0 M states | type, books, deadlock freedom, waits that can end, the inductive invariant, refinement of `Ledger` |
| transfers_live | `MCTransferTxLive.cfg` | 2 calls, 3 accounts, amounts 1 and 2, pool of 1; 81 k | every call answered, locks released |
| bank | `MCBank.cfg` | 2 calls, 2 owners, 2 currencies, 3 ids, balances -1..1, pool of 2; 1.8 M | currencies, owners, unique accounts, checks that are never stale, receipts; refinement of `TransferAPI` |
| overdraft | `MCBankOverdraft.cfg` | the same | *violation* |
| registration | `MCRegistration.cfg` | 2 registrations, 1 click, 2 users, 2 emails, no retry; 284 k | links reach their users, created users have tasks, unique keys, refinement of `Verification` |
| delivery | `MCDelivery.cfg` | 1 registration, 2 clicks, 1 email, 1 retry, 1 shutdown; 372 k | mailed or archived; links and users change together, once |
| rest_user | `MCRestUser.cfg` | small | *violation* |
| sessions | `MCSessions.cfg` | 1 login, 1 renewal, 1 update, 2 users, durations 1 and 1, clock to 3; 1.0 M | lifetimes, blocking, sessions of tokens, permitted password changes |
| blocked_session | `MCSessionsBlocked.cfg` | 1 login, 1 renewal, 1 update | *violation* |
| web_client | `MCWebClient.cfg` | 2 users, 2 requests; 20 k | the store, the guard, timeouts, loading; refinement of `AuthGate` with its liveness |
| late_login | `MCWebClientLogout.cfg` | 1 user, 2 requests | *violation* |
| lifecycle | `MCLifecycle.cfg` | 2 replicas of 2 releases, 1 request per server; 387 k | migration before serving, draining, stopping |

Why these bounds: a cycle of lock waits and the interference of two transactions
with a third need three calls and three accounts; the balances reach the ends of
their range, so overflow of the first and of the second leg both occur.  In
`Bank` two calls, each with its transaction, and three creations of accounts,
uncommitted together, meet; ids run past the accounts that exist, so a request
may name an account created a moment later.  Two registrations and two clicks
are the races; one retry and one shutdown give rows left over from an earlier
attempt.  A clock that runs to 3 with durations of 1 lets a session expire
before, during and after its renewal, with a tick between the check and the new
token; a renewal reads nothing that another one writes.  The properties of the
frontend are broken by two requests that are in progress together, or by one
that is answered on another page, and each request may be of either form, by
either user, right or wrong (with three requests the run has 667 k states and
passes too).  A rollout needs a replica of the old and of the new release; one
migration separates them, so that either may die within one and the old one may
meet a version it does not know.  The constants named `Max...`, `MinBalance`,
`PoolSize` and the durations are the bounds; the code's values (10 retries,
64-bit integers, 15 minutes) are larger.  Symmetry is used only in safety runs,
for calls, owners, currencies, and names; account ids are ordered and have none.

Deadlock is checked in the runs of `TransferTx`, where `Terminating` marks the
states in which all calls have returned, and in those of `WebClient` and
`Lifecycle`, which always have a step: a page offers something, and a process
that has ended is started again.  In the other modules each call
happens once and a system with nothing left to do stops, so their
configurations switch the check off.

Fairness.  `TransferTx!FairSpec`: a call that can run its next statement does
(goroutines and server processes are scheduled, a freed lock or connection goes
to a waiter), and the server notices a dead client, though not while that
client's statement still waits for a lock, when PostgreSQL does not look at the
connection.  Weak fairness suffices as calls are finite in number.  Losing a
connection and making a call are never fair.  `EmailVerification!FairSpec`:
transactions go on or are aborted and the queue hands out queued tasks; clients,
failures, clicks and shutdowns are not fair.  `WebClient!FairSpec`: the browser
runs its timeouts and the handlers of answers, and every request is answered or
fails in the end (axios sets no timeout, but a connection does not stay open
for ever); users are not fair.  `Lifecycle!FairSpec`: goroutines are scheduled
and a request in progress ends; without the latter `Shutdown` with its
`context.Background()` would wait for ever.  Starting, signals, failures and
kills are not fair.

### Findings

1. Nothing checks funds: a balance becomes negative (`api/transfer.go:50`;
   "should be prevented by transfer logic", `.ai-docs/BUSINESS_RULES.md:51`).
2. `POST /users` queues no verification mail (`api/user.go:60`;
   `.ai-docs/BUSINESS_RULES.md:11`).
3. Blocking a session does not end its access tokens (`gapi/authorization.go:40`;
   "immediate logout", `.ai-docs/BUSINESS_RULES.md:20`).  It does end renewal
   (`BlockedIsNotRenewed`).
4. Enter sends a second login while the first is under way
   (`LoginUser.vue:89`).  If the user signs out after the first answer, the
   second one signs them in again, after "You have successfully logged out".

Also met, without a run of their own:

- A transfer from an account to itself returns as `to_account` a balance that is
  overwritten before the COMMIT (`tx_transfer.go:57`; "updated balances",
  `.ai-docs/ARCHITECTURE.md:123`).  `ReturnedBalancesAreCommitted` therefore
  speaks of two accounts.
- The timeout of a login is never cleared: after a quick logout it takes a guest
  who opens the registration form back to the login page (`LoginUser.vue:66`).
- The dashboard's card "View and manage your personal information" goes to
  `/home`, which the guard sends back to the dashboard (`DashboardView.vue:16`);
  the profile is on the page only between a login and its timeout.
- The profile shows "Not Verified" and no role for everybody: `convertUser`
  sends neither field (`gapi/converter.go:10`; `.ai-docs/API_MAP.md:28`).
- A replica of the old release that restarts after a migration dies in
  `runDBMigration`, since its files lack the version (`main.go:89`; "Old code
  continues working during rollout", `.ai-docs/AI_NOTES.md:152`).
- An error from `COMMIT` is ambiguous, and a client that repeats the request
  transfers twice.
- A change of the email keeps `is_email_verified`, and a link mailed to the old
  address still verifies the account (the reset is documented as not
  implemented).
- Neither a change of password nor of role ends a session; neither does signing
  out of the frontend, which tells the server nothing.

## 4. The proofs

Each `...Proofs` module extends the one it is about and assumes only that
module's named assumptions: bounds are numbers, a value such as `NoUser` is none
of the values it is told apart from, kinds of calls are disjoint.  Calls, users,
accounts, links, requests, replicas and releases are arbitrary sets or numbers,
and need not be finite.  Every module proves its `TypeOK` and, where that is not
inductive, a stronger invariant with one lemma or step per action; each such
invariant was checked with TLC before it was proved.  The type invariants of
`TransferAPI`, `Sessions` and `WebClient` are proved and in no run;
`StatusIsTrue` is checked as part of `Receipt`.

### Money (`TransferTxProofs`)

The assumptions: ids are positive and bounded, amounts are positive, 0 lies in
the range of a balance, `NoRequest` is no request, the pool has a connection.

- `TypeCorrect`: `Spec => []TypeOK`.
- `TxInvariant`: `Spec => []TxInv`.  `TypeOK` and the properties are not
  inductive alone: that a COMMIT leaves `balance + amount` needs that nobody
  committed to the row since this call read it.  `TxInv` says of each statement
  which rows are inserted and which accounts are locked for update (`StageOf`),
  that drafts and results are the committed balances moved by the call's own
  amounts (`DraftOf`), that no account has two writers (`OneWriter`), that no
  lock of the mode UPDATE is ever taken, and that a transfer is in the table
  exactly when its call has committed (`PostedAtCommit`).
- `DeadlockFree`: `Spec => []NoDeadlock`.  By `TxInv` a call that waits for an
  account waits for a writer of it, KEY SHARE locks block nobody and are
  blocked by nobody, and a call that has written one account waits only for a
  larger one; the ids being bounded, a set of calls has one whose held account
  is largest, and it waits for none of the others.
- `OpenTransactionsGoOn`: `Spec => []WaitsCanEnd`.  Locks are held by open
  transactions only, and one of those that are open waits for no lock
  (`NoDeadlock` for the set of all of them): it can run its next statement or,
  if its client is dead, be aborted.  This is the state behind
  `EveryCallIsAnswered` and `LocksAreReleased`, for a pool of any size.
- `ResultIsCommitted`: `Spec => ReturnedBalancesAreCommitted`, from `DraftOf` at
  the `Commit` step.
- `EntriesArePaired`: `Spec => []DoubleEntry`, since `StageOf` gives a call both
  of its entries at its `Commit`.
- `BooksBalance`: `Spec => []BalanceIsSumOfEntries`.  The inductive part
  (`Books`) adds that the entries of an account are finite in number, without
  which their sum has no laws.  Only `Commit` touches it, and by then it is
  `Ledger!Post`: the two new entries are in no table yet, and each balance
  moves by the sum of the new entries of its account (both of them, and 0, for
  a transfer from an account to itself).
- `Refinement`: `Spec => ImplementsLedger`, `Commit` being `Post` by `DraftOf`.

### Handlers (`TransferAPIProofs`)

`APIInv` says of each step of a request what its checks have established: past
`from`, that the account it debits is there, in the request's currency, and its
user's; past `to`, the same of the other account's currency.  It survives
everybody else's steps because a committed row of `accounts` never changes and
ids from `nextId` on are unused.  Of the accounts it says that an id has a
committed or an uncommitted row, not both, and that all these rows differ: an
INSERT has looked at every key in the index, so the COMMIT need not.  Of each
entry and transfer in the tables it says that the accounts exist, that a debit
was ordered by the owner, and that both accounts have one currency.  From it:
`DebitsAreOrdered` (`OnlyOwnersPay`), `AccountsAreUnique`
(`OneAccountPerCurrency`), `AnswersAreTrue` (`StatusIsTrue`), and
`CurrenciesAreSeparate`: every posted transfer is between accounts of one
currency.

`MoneyStaysInCurrency` (`CurrencyIsConserved`) adds to `APIInv` that an id
without an account has balance 0 and that the sum over each currency is 0
(`Conserved`).  A new account joins its currency with 0; `Post` takes the amount
from one member of a currency and gives it to another, or to the same, and
leaves all other currencies alone.

### The composition (`BankProofs`)

The proofs of both modules are used as they are: `BankProofs` extends
`TransferAPIProofs` and instantiates `TransferTxProofs` with the ids of the
accounts table (`TP`), whose assumptions `TxAssumptions` proves from those of
`Bank`.  The lemmas `Same...` say that `TP` speaks of the same transaction as
`Bank` does.

- `TransactionIsKept`: `BankSpec => Tx!Spec`, hence `TransactionIsSafe`:
  `NoDeadlock`, `WaitsCanEnd`, `DoubleEntry` and `BalanceIsSumOfEntries` hold
  whatever the handlers ask for.
- `Refinement`: `BankSpec => ImplementsAPI`.  A step of the transaction leaves
  `req` alone and is a step of `Ledger` (`StepRefines`, which needs `TxInv`), so
  it is `Post`, `Succeed`, `Fail` or nothing.  Hence `HandlersAreSafe`: all that
  is proved of the handlers over the ledger holds over the transaction.
- `BankInvariant`: `APIInv` and `TxInv` together, and `RowsOfCalls`: a row of
  `transfers` is that of a call, with the arguments of its request.
- `ChecksAreNeverStale`: `BankSpec => []ChecksStillHold`.  A lock belongs to an
  open transaction, that to a request made, and `APIInv` keeps what was checked.
- `ReceiptIsTrue`: `BankSpec => []Receipt`: who is answered 200 finds in the tables
  exactly what was asked for.  From `RowsOfCalls`, `APIInv` and
  `DoubleEntry`; the part about refusals is `StatusIsTrue`'s.

### Sums (`Sums`)

The sums of the models are the community modules' `MapThenSumSet`, a recursive
choice over sets.  The installed provers cannot instantiate the library's
induction theorems, which take an operator; but a set serves as well as a
predicate.  `LeastNumber` (every nonempty set of naturals has a least element,
from `WFMin`) gives `NumberInduction` and, by cardinality, `SubsetInduction`: a
set of subsets of a finite set, with `{}` and closed under adding one element,
contains them all.  With these a function on the subsets that takes out one
chosen element at a time exists (`SumExists`) and is unique (`SumIsUnique`), so
that the fold is that function (`SumOfIsFold`); that the choice does not matter
(`SumInAnyOrder`) gives the laws the proofs cite: `SumOf` and `TotalAmount` of the
empty set, of one element more, of two changed values (`SumMoved`).

### Registration and verification (`EmailVerificationProofs`)

`VerifyInv` has four parts.  `RegisterPart`: a transaction that has inserted a
user excludes every other with either key, so the COMMIT replaces nobody, and a
gRPC registration past `Enqueue` has its task.  `WorkInv`: an attempt works on a
user it has found, and a task has been attempted at most `retried + shutdowns`
times plus one for the attempt under way or finished, which bounds links per
task; the address an attempt holds is one that the user of its task has had.
`RowInv`: so is the address of a row, also after the email was changed, and its
id is one of an attempt made.  `ClickPart`: two clicks past the row lock are on
different links, that link is still unused, and a committed click's link is
used.  The theorems are `UsersAreUnique`, `LinksReachTheirUsers`,
`TasksAreEnqueued`, `VerificationIsWhole`, `LinksAreUsedOnce`, and `Refinement`:
`Spec => ImplementsVerification`.  `Verification` states no liveness, so this is
the whole refinement.

### Sessions (`SessionsProofs`)

`SessInv` says what the local variables of a call still mean when it uses them:
the tokens of a login fit the row it stores, the expiry a renewal has read is
that of its refresh token's session, which was not blocked before and, past
`CheckExpiry`, had not expired at the time of the check, and an update's token was
accepted for the user it writes.  Of each token it says that its session is
stored, under its user, and bounds it: by the time of blocking, and by its expiry,
an access duration and the token's `delay`.  `TokensAreStored`,
`RenewalIsBounded`, `BlockingEndsRenewal` and `PasswordsAreProtected` follow.

### Frontend (`WebClientProofs`)

`WebInv` adds to the properties what makes them inductive: the forms that may
have requests under way, by the page on the screen (`FormsOn`), so that an answer
either finds its own form or changes no other's `loading`; at most one
registration of a mounted form; and a login that the server has answered has its
session (`AnsweredLogins`).  The theorems are `DashboardIsGuarded`,
`TimeoutIsPending`, `StoreIsWhole`, `LoadingIsAwaited`, `RegistrationIsSentOnce`
and `GateIsKept`: every step is a step of `AuthGate` or changes nothing in it.
The last is the safety half of `ImplementsGate`; the other half, that somebody
who stays signed in gets to the dashboard, is checked by TLC.

### Startup and shutdown (`LifecycleProofs`)

`LifeInv` ties servers to `main`: once `pc` is past the migration the schema is
there, before that and after a death there is no server, and a server whose
`Shutdown` has begun takes no request, so that none is left when it returns.
`MigrationComesFirst` and `RequestsAreDrained` are the theorems.

### Model-checked only

Every invariant and action property of the runs that pass is also a theorem.
What is left to TLC:

- Liveness and the fairness it rests on, which the prover's temporal logic cannot
  reach without ENABLED: `EveryCallIsAnswered`, `LocksAreReleased`,
  `CreatedUserIsMailed`, `LoadingEnds`, `StopsWhenAsked`, and that half of
  `ImplementsGate`.

## 5. Not modelled

- Mail transport, validation, password hashing, configuration, logging,
  conversions, Swagger, generated code and deployment files keep no state of the
  program's own.  Row-level SQL nobody calls (`DeleteAccount`, `UpdateAccount`)
  and the JWT maker, which no server constructs, are dead code.
- `getAccount` and `listAccounts` change nothing.  `(page_id - 1) * page_size`
  wraps in int32, but an owner has at most one account per currency
  (`OneAccountPerCurrency`), three in all, and a page at least five rows: the
  first page holds them all.
- Header parsing, toasts, styles and layout.  The profile says "Never" of a
  password when `password_changed_at` is the text `0001-01-01T00:00:00Z`
  (`UserInfo.vue:92`); that the column's default becomes that text is the work of
  pgx, timestamppb and protojson, which are not in `src/`.

## 6. Plan

Done: `Ledger`, `TransferTx`, `TransferAPI`, `Bank`, `Verification`,
`EmailVerification`, `Sessions`, `AuthGate`, `WebClient`, `Lifecycle`, and the
proofs of their safety properties.

Next for the proofs: for every liveness property, the state predicate behind it
as a theorem, as `WaitsCanEnd` is for the transaction: that a task that is not
done is queued, active or archived, that a process asked to stop always has a
step left to take.

What could follow: the frontend and `Sessions` composed, once the frontend calls
anything but login and registration (today it never presents a token);
`UpdateUser`'s reset of `is_email_verified` when it is implemented, with the
stale link as its hazard; an idempotency key of transfers, should one be added,
as a second abstract promise beside `Ledger`.
