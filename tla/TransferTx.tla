----------------------------- MODULE TransferTx -----------------------------
(***************************************************************************)
(* SQLStore.TransferTx (db/sqlc/tx_transfer.go) run by concurrent callers  *)
(* inside execTx (db/sqlc/exec_tx.go), against PostgreSQL at its default   *)
(* isolation level, READ COMMITTED.                                        *)
(*                                                                         *)
(* A call goes through the statements of the transaction one at a time;    *)
(* pc[c] is the statement it is about to run.  What it has written is      *)
(* private to it until the COMMIT; what it has locked blocks the others    *)
(* until its transaction ends.  The goroutine of a call and the server     *)
(* process that serves its connection fail separately: when the            *)
(* connection or the whole program dies the call is answered "err" at      *)
(* once, while its transaction still holds its locks until the server      *)
(* aborts it, or even commits it if the COMMIT was already under way.      *)
(***************************************************************************)
EXTENDS Integers, FiniteSets, FiniteSetsExt

CONSTANTS Calls, Accounts, Amounts, MinBalance, MaxBalance, NoRequest,
          MaxId,    \* the largest id of the bigserial column accounts.id
          PoolSize  \* connections of the pgxpool.Pool

VARIABLES
  req, reply, balance, transfers, entries,  \* as in Ledger
  pc,            \* the statement call c is at
  held,          \* held[c]: the row locks of its transaction, <<account, mode>>
  newTransfers,  \* newTransfers[c], newEntries[c]: rows it has inserted
  newEntries,
  draft,         \* draft[c][a]: the balance it has written to a row it locked
  result         \* result[c]: the balances in the TransferTxResult it fills in

L == INSTANCE Ledger

txVars == <<pc, held, newTransfers, newEntries, draft, result>>
vars == <<req, reply, balance, transfers, entries, txVars>>

(* Account ids come from a bigserial column, so they are positive and        *)
(* bounded; transferRequest requires gt=0 of an amount; an account is        *)
(* created with balance 0.                                                   *)
ASSUME AccountIds == MaxId \in Nat /\ Accounts \subseteq 1..MaxId
ASSUME PositiveAmounts == \A x \in Amounts : x \in Nat /\ x > 0
ASSUME BalanceRange == /\ MinBalance \in Int /\ MaxBalance \in Int
                       /\ 0 \in MinBalance..MaxBalance
ASSUME NotARequest == NoRequest \notin L!Requests
ASSUME PoolHasConnections == PoolSize \in Nat \ {0}

-----------------------------------------------------------------------------
(***************************************************************************)
(* Row locks.  An INSERT that references an account takes a KEY SHARE lock *)
(* on its row; an UPDATE takes NO KEY UPDATE, or the stronger UPDATE when  *)
(* it writes a column of a unique index.  These are the conflicts between  *)
(* the three modes.                                                        *)
(***************************************************************************)
Modes == {"KeyShare", "NoKeyUpdate", "Update"}

Conflicts(m, n) == \/ m = "Update" \/ n = "Update"
                   \/ m = "NoKeyUpdate" /\ n = "NoKeyUpdate"

(* The foreign keys of entries and transfers reference accounts(id).         *)
ReferenceMode == "KeyShare"
(* balance belongs to no unique index of accounts.                           *)
BalanceMode == "NoKeyUpdate"

Grantable(c, a, mode) ==
  \A d \in Calls \ {c} : \A m \in Modes :
    <<a, m>> \in held[d] => ~Conflicts(mode, m)

(* The rows whose new version c has written.                                 *)
Written(c) == {a \in Accounts : <<a, BalanceMode>> \in held[c]}

-----------------------------------------------------------------------------
(* The two calls of AddAccountBalance, in the order of account ids.          *)
FromLeg(r) == [side |-> "from", account |-> r.from, amount |-> -r.amount]
ToLeg(r) == [side |-> "to", account |-> r.to, amount |-> r.amount]
FirstLeg(r) == IF r.from < r.to THEN FromLeg(r) ELSE ToLeg(r)
SecondLeg(r) == IF r.from < r.to THEN ToLeg(r) ELSE FromLeg(r)

(* Mutants: the legs in the order of the arguments; the first leg twice.     *)
LegInCallOrder(c) == IF pc[c] = "update1" THEN FromLeg(req[c]) ELSE ToLeg(req[c])
LegRepeated(c) == FirstLeg(req[c])

Leg(c) == IF pc[c] = "update1" THEN FirstLeg(req[c]) ELSE SecondLeg(req[c])

(* The version of a row an UPDATE of c reads: its own, or the last committed *)
(* one, which READ COMMITTED reads again after it has waited for the lock.   *)
Current(c, a) == IF a \in Written(c) THEN draft[c][a] ELSE balance[a]

(* The locks the next statement of c asks for.                               *)
Wanted(c) ==
  CASE pc[c] = "transfer" -> {<<req[c].from, ReferenceMode>>,
                              <<req[c].to, ReferenceMode>>}
    [] pc[c] = "fromEntry" -> {<<req[c].from, ReferenceMode>>}
    [] pc[c] = "toEntry" -> {<<req[c].to, ReferenceMode>>}
    [] pc[c] \in {"update1", "update2"} -> {<<Leg(c).account, BalanceMode>>}
    [] OTHER -> {}

Granted(c) == \A l \in Wanted(c) : Grantable(c, l[1], l[2])

(* c is blocked by a lock that d holds.                                      *)
WaitsFor(c, d) ==
  /\ c # d
  /\ \E l \in Wanted(c) : \E m \in Modes :
       <<l[1], m>> \in held[d] /\ Conflicts(l[2], m)

InTransaction == {"transfer", "fromEntry", "toEntry", "update1", "update2",
                  "commit", "rollback"}

(* Connections checked out of the pool; a dead connection is not in it.      *)
InUse == {c \in Calls : pc[c] \in InTransaction \cup {"committed"}
                        /\ reply[c] = "none"}

Running(c, statement) == pc[c] = statement /\ reply[c] = "none"

-----------------------------------------------------------------------------

Init ==
  /\ L!Init
  /\ pc = [c \in Calls |-> "idle"]
  /\ held = [c \in Calls |-> {}]
  /\ newTransfers = [c \in Calls |-> {}]
  /\ newEntries = [c \in Calls |-> {}]
  /\ draft = [c \in Calls |-> [a \in Accounts |-> 0]]
  /\ result = [c \in Calls |-> [from |-> 0, to |-> 0]]

Call(c) ==
  /\ pc[c] = "idle"
  /\ \E r \in L!Requests : req' = [req EXCEPT ![c] = r]
  /\ pc' = [pc EXCEPT ![c] = "begin"]
  /\ UNCHANGED <<reply, balance, transfers, entries,
                 held, newTransfers, newEntries, draft, result>>

(* connPool.Begin: waits for a free connection of the pool.                  *)
Begin(c) ==
  /\ Running(c, "begin")
  /\ Cardinality(InUse) < PoolSize
  /\ pc' = [pc EXCEPT ![c] = "transfer"]
  /\ UNCHANGED <<req, reply, balance, transfers, entries,
                 held, newTransfers, newEntries, draft, result>>

(* Mutant: an UPDATE that writes what an earlier SELECT has read.            *)
StatementUnlocked(c, statement, next) ==
  /\ Running(c, statement)
  /\ held' = [held EXCEPT ![c] = @ \cup Wanted(c)]
  /\ pc' = [pc EXCEPT ![c] = next]
  /\ UNCHANGED <<req, reply, balance, transfers, entries>>

(* One statement of the transaction: it waits for the locks it wants, takes  *)
(* them, and the closure goes on to the next statement.                      *)
Statement(c, statement, next) ==
  /\ Running(c, statement)
  /\ Granted(c)
  /\ held' = [held EXCEPT ![c] = @ \cup Wanted(c)]
  /\ pc' = [pc EXCEPT ![c] = next]
  /\ UNCHANGED <<req, reply, balance, transfers, entries>>

CreateTransfer(c) ==
  /\ Statement(c, "transfer", "fromEntry")
  /\ newTransfers' = [newTransfers EXCEPT ![c] = @ \cup {L!TransferRow(c)}]
  /\ UNCHANGED <<newEntries, draft, result>>

CreateFromEntry(c) ==
  /\ Statement(c, "fromEntry", "toEntry")
  /\ newEntries' = [newEntries EXCEPT ![c] = @ \cup {L!FromEntry(c)}]
  /\ UNCHANGED <<newTransfers, draft, result>>

(* Mutant: the second entry is a copy of the first.                          *)
CreateFromEntryAgain(c) ==
  /\ Statement(c, "toEntry", "update1")
  /\ newEntries' = [newEntries EXCEPT ![c] = @ \cup {L!FromEntry(c)}]
  /\ UNCHANGED <<newTransfers, draft, result>>

CreateToEntry(c) ==
  /\ Statement(c, "toEntry", "update1")
  /\ newEntries' = [newEntries EXCEPT ![c] = @ \cup {L!ToEntry(c)}]
  /\ UNCHANGED <<newTransfers, draft, result>>

(* Mutants: the sum may leave its column's range; the accounts come back in  *)
(* the order of the updates.                                                 *)
AddAccountBalanceUnchecked(c) ==
  LET leg == Leg(c)
      new == Current(c, leg.account) + leg.amount
  IN /\ draft' = [draft EXCEPT ![c][leg.account] = new]
     /\ result' = [result EXCEPT ![c][leg.side] = new]
     /\ UNCHANGED <<newTransfers, newEntries>>
AddAccountBalanceByPosition(c) ==
  LET leg == Leg(c)
      new == Current(c, leg.account) + leg.amount
      side == IF pc[c] = "update1" THEN "from" ELSE "to"
  IN /\ new \in L!Bigint
     /\ draft' = [draft EXCEPT ![c][leg.account] = new]
     /\ result' = [result EXCEPT ![c][side] = new]
     /\ UNCHANGED <<newTransfers, newEntries>>

(* SET balance = balance + amount, and RETURNING the row it has written.     *)
AddAccountBalance(c) ==
  LET leg == Leg(c)
      new == Current(c, leg.account) + leg.amount
  IN /\ new \in L!Bigint
     /\ draft' = [draft EXCEPT ![c][leg.account] = new]
     /\ result' = [result EXCEPT ![c][leg.side] = new]
     /\ UNCHANGED <<newTransfers, newEntries>>

UpdateFirst(c) == Statement(c, "update1", "update2") /\ AddAccountBalance(c)
UpdateSecond(c) == Statement(c, "update2", "commit") /\ AddAccountBalance(c)

(* Mutant: the error of addMoney is dropped.                                 *)
OutOfRangeIgnored(c) ==
  /\ Running(c, "update1") \/ Running(c, "update2")
  /\ Current(c, Leg(c).account) + Leg(c).amount \notin L!Bigint
  /\ pc' = [pc EXCEPT ![c] = "commit"]
  /\ UNCHANGED <<req, reply, balance, transfers, entries,
                 held, newTransfers, newEntries, draft, result>>

(* "bigint out of range".  The sum is computed on the row as it is found,    *)
(* before the statement waits for its lock, and again after it has waited.   *)
OutOfRange(c) ==
  /\ Running(c, "update1") \/ Running(c, "update2")
  /\ Current(c, Leg(c).account) + Leg(c).amount \notin L!Bigint
  /\ pc' = [pc EXCEPT ![c] = "rollback"]
  /\ UNCHANGED <<req, reply, balance, transfers, entries,
                 held, newTransfers, newEntries, draft, result>>

(* The server's part of tx.Commit.  It may happen after the connection is    *)
(* lost, when the COMMIT was under way.                                      *)
Commit(c) ==
  /\ pc[c] = "commit"
  /\ transfers' = transfers \cup newTransfers[c]
  /\ entries' = entries \cup newEntries[c]
  /\ balance' = [a \in Accounts |-> Current(c, a)]
  /\ held' = [held EXCEPT ![c] = {}]
  /\ pc' = [pc EXCEPT ![c] = "committed"]
  /\ UNCHANGED <<req, reply, newTransfers, newEntries, draft, result>>

(* A transaction that ends otherwise drops its rows, its row versions and    *)
(* its locks.                                                                *)
EndAborted(c) ==
  /\ pc' = [pc EXCEPT ![c] = "aborted"]
  /\ held' = [held EXCEPT ![c] = {}]
  /\ newTransfers' = [newTransfers EXCEPT ![c] = {}]
  /\ newEntries' = [newEntries EXCEPT ![c] = {}]
  /\ UNCHANGED <<req, balance, transfers, entries, draft, result>>

(* Mutant: the error is returned and the transaction is left open.           *)
ReturnWithoutRollback(c) ==
  /\ Running(c, "rollback")
  /\ pc' = [pc EXCEPT ![c] = "aborted"]
  /\ reply' = [reply EXCEPT ![c] = "err"]
  /\ UNCHANGED <<req, balance, transfers, entries,
                 held, newTransfers, newEntries, draft, result>>

(* tx.Rollback after a failed statement, and the return of its error.        *)
Rollback(c) ==
  /\ Running(c, "rollback")
  /\ EndAborted(c)
  /\ reply' = [reply EXCEPT ![c] = "err"]

ReturnOk(c) ==
  /\ Running(c, "committed")
  /\ reply' = [reply EXCEPT ![c] = "ok"]
  /\ UNCHANGED <<req, balance, transfers, entries, txVars>>

(* Begin, a statement, the Rollback or the Commit returns a connection       *)
(* error, or the program dies: the caller gets an error (or no answer).      *)
ConnLost(c) ==
  /\ pc[c] # "idle"
  /\ reply[c] = "none"
  /\ reply' = [reply EXCEPT ![c] = "err"]
  /\ UNCHANGED <<req, balance, transfers, entries, txVars>>

(* The server finds that the client of a transaction is gone.                *)
Abort(c) ==
  /\ reply[c] = "err"
  /\ pc[c] \in InTransaction
  /\ EndAborted(c)
  /\ UNCHANGED reply

Finished(c) == reply[c] # "none" /\ pc[c] \in {"begin", "committed", "aborted"}

(* Every call has returned and no transaction is open.                       *)
Terminating == (\A c \in Calls : Finished(c)) /\ UNCHANGED vars

Step(c) ==
  \/ Begin(c) \/ CreateTransfer(c) \/ CreateFromEntry(c) \/ CreateToEntry(c)
  \/ UpdateFirst(c) \/ UpdateSecond(c) \/ OutOfRange(c)
  \/ Commit(c) \/ Rollback(c) \/ ReturnOk(c)

Next ==
  \/ \E c \in Calls : Call(c) \/ Step(c) \/ ConnLost(c) \/ Abort(c)
  \/ Terminating

Spec == Init /\ [][Next]_vars

(* A call that can go on does, and the server notices a dead client; but not *)
(* while the client's statement waits for a lock, when the server process    *)
(* does not look at its connection.                                          *)
Fairness == \A c \in Calls : /\ WF_vars(Step(c))
                             /\ WF_vars(Granted(c) /\ Abort(c))

FairSpec == Spec /\ Fairness

-----------------------------------------------------------------------------
(***************************************************************************)
(* Properties.                                                             *)
(***************************************************************************)
Stages == {"idle", "begin", "committed", "aborted"} \cup InTransaction

Transfers == [id: Calls, from: Accounts, to: Accounts, amount: Amounts]
Entries == [id: Calls \X {"from", "to"}, account: Accounts, amount: Int]

(* Every variable has its type; a bigint column never holds a value that     *)
(* does not fit it.                                                          *)
TypeOK ==
  /\ req \in [Calls -> L!Requests \cup {NoRequest}]
  /\ reply \in [Calls -> {"none", "ok", "err"}]
  /\ balance \in [Accounts -> L!Bigint]
  /\ pc \in [Calls -> Stages]
  /\ \A c \in Calls : (pc[c] = "idle") <=> (req[c] = NoRequest)
  /\ held \in [Calls -> SUBSET (Accounts \X Modes)]
  /\ draft \in [Calls -> [Accounts -> L!Bigint]]
  /\ result \in [Calls -> [from: L!Bigint, to: L!Bigint]]
  /\ transfers \subseteq Transfers /\ newTransfers \in [Calls -> SUBSET Transfers]
  /\ entries \subseteq Entries /\ newEntries \in [Calls -> SUBSET Entries]

(* The committed balance of an account is the sum of its committed entries,  *)
(* whatever transfers, failures and lost connections came before: no update  *)
(* is lost and none is applied without its entry (accounts start at 0).      *)
BalanceIsSumOfEntries ==
  \A a \in Accounts :
    balance[a] = MapThenSumSet(LAMBDA e : e.amount,
                               {e \in entries : e.account = a})

(* Every committed transfer has its two entries, and no entry is there       *)
(* without its transfer.                                                     *)
DoubleEntry ==
  entries = UNION {{[id |-> <<t.id, "from">>, account |-> t.from,
                     amount |-> -t.amount],
                    [id |-> <<t.id, "to">>, account |-> t.to,
                     amount |-> t.amount]} : t \in transfers}

(* Transfers in any direction between any accounts never wait for each other *)
(* in a cycle: in every set of calls one waits for no other of them.         *)
NoDeadlock ==
  \A S \in SUBSET Calls :
    S # {} => \E c \in S : \A d \in S : ~WaitsFor(c, d)

(* Locks belong to open transactions, and one of those that are open can     *)
(* always go on, or be aborted: a call that waits for a lock or for a        *)
(* connection waits for something that can happen.                           *)
WaitsCanEnd ==
  /\ \A c \in Calls : held[c] # {} => pc[c] \in InTransaction
  /\ (\E c \in Calls : pc[c] \in InTransaction)
       => \E c \in Calls : pc[c] \in InTransaction /\ Granted(c)

(* The two balances a transfer between two accounts returns are the ones its *)
(* commit leaves in the accounts table.                                      *)
Committing(c) == pc[c] = "commit" /\ pc'[c] = "committed"
ReturnsCommitted(c) == /\ result[c].from = balance'[req[c].from]
                       /\ result[c].to = balance'[req[c].to]
ReturnedBalancesAreCommitted ==
  [][\A c \in Calls : Committing(c) /\ req[c].from # req[c].to
                        => ReturnsCommitted(c)]_vars

(* The transaction, with its statements, locks and failures, does no more    *)
(* than the one-step posting of Ledger.                                      *)
ImplementsLedger == L!Spec

(* A call that has been made is answered, even when the pool has one         *)
(* connection and other clients die inside their transactions.               *)
EveryCallIsAnswered ==
  \A c \in Calls : pc[c] = "begin" ~> reply[c] # "none"

(* No transaction keeps its row locks for ever.                              *)
LocksAreReleased == \A c \in Calls : held[c] # {} ~> held[c] = {}

-----------------------------------------------------------------------------
(***************************************************************************)
(* The inductive invariant behind the theorems of TransferTxProofs.        *)
(***************************************************************************)
Updating == {"update1", "update2", "commit", "rollback"}

(* A call has inserted the rows, and locked for its updates the accounts,    *)
(* of the statements behind it, and of no others.                            *)
StageOf(c) ==
  LET first == FirstLeg(req[c]).account
      second == SecondLeg(req[c]).account
  IN /\ pc[c] \in InTransaction =>
          newTransfers[c] = IF pc[c] = "transfer" THEN {} ELSE {L!TransferRow(c)}
     /\ pc[c] \in Updating => newEntries[c] = {L!FromEntry(c), L!ToEntry(c)}
     /\ pc[c] = "toEntry" => newEntries[c] = {L!FromEntry(c)}
     /\ pc[c] \in {"idle", "begin", "transfer", "fromEntry"} => newEntries[c] = {}
     /\ pc[c] \in {"idle", "begin"} => newTransfers[c] = {}
     /\ pc[c] \notin {"update2", "commit", "rollback"} => Written(c) = {}
     /\ pc[c] = "update2" => Written(c) = {first}
     /\ pc[c] = "commit" => Written(c) = {first, second}
     /\ pc[c] = "rollback" => Written(c) \subseteq {first}

(* What a transaction has written and returned is the committed balance      *)
(* moved by its own amounts: nobody has committed in between.                *)
DraftOf(c) ==
  LET first == FirstLeg(req[c])
      second == SecondLeg(req[c])
      new == balance[first.account] + first.amount
  IN /\ pc[c] = "update2" => /\ draft[c][first.account] = new
                             /\ result[c][first.side] = new
     /\ pc[c] = "commit" =>
          /\ \A a \in Accounts : Current(c, a) = L!Moved(c)[a]
          /\ req[c].from # req[c].to => \A side \in {"from", "to"} :
               result[c][side] = L!Moved(c)[req[c][side]]

(* No two transactions have written the same account.                        *)
OneWriter ==
  \A c, d \in Calls : c # d => Written(c) \cap Written(d) = {}

(* A transfer is in the table exactly when its call has committed.           *)
PostedAtCommit ==
  \A c \in Calls : /\ L!Posted(c) <=> pc[c] = "committed"
                   /\ reply[c] = "ok" => pc[c] = "committed"

(* The locks, rows, balances and answers of every call fit the statement it  *)
(* is at, whatever the others do.                                            *)
TxInv ==
  /\ TypeOK
  /\ \A c \in Calls : StageOf(c) /\ DraftOf(c)
  /\ OneWriter
  /\ \A c \in Calls : \A a \in Accounts : <<a, "Update">> \notin held[c]
  /\ PostedAtCommit

=============================================================================
