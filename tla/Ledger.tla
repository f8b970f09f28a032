------------------------------- MODULE Ledger -------------------------------
(***************************************************************************)
(* What a caller of Store.TransferTx (db/sqlc/store.go) may rely on, with  *)
(* no transactions, locks or connections in it: a transfer is posted to    *)
(* the accounts, transfers and entries tables in one step, at most once,   *)
(* against the balances of that moment.  A call is answered "ok" only      *)
(* after its transfer is posted.  An answer "err" promises nothing: the    *)
(* connection may have failed on either side of the COMMIT.                *)
(*                                                                         *)
(* TransferTx.tla is the detailed module that implements this one.         *)
(***************************************************************************)
EXTENDS Integers

CONSTANTS
  Calls,       \* the calls of TransferTx
  Accounts,    \* the ids of the rows of table accounts
  Amounts,     \* the amounts a call may ask for
  MinBalance,  \* the smallest value of the bigint column accounts.balance
  MaxBalance,  \* the largest one
  NoRequest    \* the request of a call that has not been made

VARIABLES
  req,        \* req[c]: the arguments of call c
  reply,      \* reply[c]: the error result of call c, "none" before it returns
  balance,    \* balance[a]: the committed balance of account a
  transfers,  \* the committed rows of table transfers
  entries     \* the committed rows of table entries

ledgerVars == <<req, reply, balance, transfers, entries>>

Requests == [from: Accounts, to: Accounts, amount: Amounts]
Bigint == MinBalance..MaxBalance

(* The rows of one transfer.  The ids stand for the bigserial primary keys. *)
TransferRow(c) == [id |-> c, from |-> req[c].from, to |-> req[c].to,
                   amount |-> req[c].amount]
FromEntry(c) == [id |-> <<c, "from">>, account |-> req[c].from,
                 amount |-> -req[c].amount]
ToEntry(c) == [id |-> <<c, "to">>, account |-> req[c].to,
               amount |-> req[c].amount]

(* Both balances move by the amount, in opposite directions.  For a transfer *)
(* from an account to itself the two cancel.                                 *)
Moved(c) ==
  [a \in Accounts |-> balance[a]
                       - (IF a = req[c].from THEN req[c].amount ELSE 0)
                       + (IF a = req[c].to THEN req[c].amount ELSE 0)]

Posted(c) == \E row \in transfers : row.id = c

-----------------------------------------------------------------------------

Init ==
  /\ req = [c \in Calls |-> NoRequest]
  /\ reply = [c \in Calls |-> "none"]
  /\ balance = [a \in Accounts |-> 0]
  /\ transfers = {}
  /\ entries = {}

Request(c) ==
  /\ req[c] = NoRequest
  /\ \E r \in Requests : req' = [req EXCEPT ![c] = r]
  /\ UNCHANGED <<reply, balance, transfers, entries>>

Post(c) ==
  /\ req[c] # NoRequest
  /\ ~Posted(c)
  /\ balance' = Moved(c)
  /\ \A a \in Accounts : balance'[a] \in Bigint
  /\ transfers' = transfers \cup {TransferRow(c)}
  /\ entries' = entries \cup {FromEntry(c), ToEntry(c)}
  /\ UNCHANGED <<req, reply>>

Succeed(c) ==
  /\ reply[c] = "none"
  /\ Posted(c)
  /\ reply' = [reply EXCEPT ![c] = "ok"]
  /\ UNCHANGED <<req, balance, transfers, entries>>

Fail(c) ==
  /\ req[c] # NoRequest
  /\ reply[c] = "none"
  /\ reply' = [reply EXCEPT ![c] = "err"]
  /\ UNCHANGED <<req, balance, transfers, entries>>

Next == \E c \in Calls : Request(c) \/ Post(c) \/ Succeed(c) \/ Fail(c)

Spec == Init /\ [][Next]_ledgerVars

=============================================================================
