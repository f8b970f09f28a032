----------------------------- MODULE TransferAPI -----------------------------
(***************************************************************************)
(* The account and transfer handlers of package api (api/account.go,       *)
(* api/transfer.go) on top of the store.  createTransfer reads the two     *)
(* accounts in statements of their own, checks them, and only then calls   *)
(* TransferTx; accounts are created meanwhile.  TransferTx is what Ledger  *)
(* says it is: TransferTx.tla shows that it implements Ledger.             *)
(***************************************************************************)
EXTENDS Integers, FiniteSets, FiniteSetsExt

CONSTANTS Calls, Amounts, MinBalance, MaxBalance, NoRequest,
          Owners,      \* usernames of authenticated callers
          Currencies,  \* util.IsSupportedCurrency
          MaxId,       \* account ids are 1..MaxId
          NoAccount

VARIABLES
  req, reply, balance, transfers, entries,  \* as in Ledger
  accounts,  \* accounts[id]: owner and currency of the row, or NoAccount
  nextId,    \* the sequence behind accounts.id
  inserting, \* inserting[id]: the row of an INSERT that is not committed yet
  form,      \* form[c]: the caller and the transferRequest of call c
  at,        \* at[c]: the check call c is about to make
  status     \* status[c]: the HTTP status of its answer, 0 before

Ids == 1..MaxId
L == INSTANCE Ledger WITH Accounts <- Ids

ledgerVars == <<req, reply, balance, transfers, entries>>
accountVars == <<accounts, nextId, inserting>>
apiVars == <<accountVars, form, at, status>>
vars == <<ledgerVars, apiVars>>

Forms == [user: Owners, from: Ids, to: Ids, amount: Amounts, currency: Currencies]
Rows == [owner: Owners, currency: Currencies]

(* MaxId bounds the sequence; an amount is positive and an account starts    *)
(* with balance 0.                                                           *)
ASSUME IdBound == MaxId \in Nat
ASSUME AmountsArePositive == \A x \in Amounts : x \in Nat /\ x > 0
ASSUME ZeroFits == /\ MinBalance \in Int /\ MaxBalance \in Int
                   /\ 0 \in MinBalance..MaxBalance
ASSUME NoRowsAreNoValues == NoRequest \notin L!Requests /\ NoAccount \notin Rows

-----------------------------------------------------------------------------

Init ==
  /\ L!Init
  /\ accounts = [i \in Ids |-> NoAccount]
  /\ nextId = 1
  /\ inserting = [i \in Ids |-> NoAccount]
  /\ form = [c \in Calls |-> NoRequest]
  /\ at = [c \in Calls |-> "idle"]
  /\ status = [c \in Calls |-> 0]

(* createAccount: an INSERT, which is a transaction of its own.  While its   *)
(* row is not committed, other statements do not see it, but its key is in   *)
(* the index behind owner_currency_key.                                      *)

\* Mutant of KeyIsFree: no constraint, but a query for the key beforehand, which
\* sees committed rows only.
KeyIsNotFound(row) == \A i \in Ids : accounts[i] # row
KeyIsFree(row) == \A i \in Ids : accounts[i] # row /\ inserting[i] # row

(* The INSERT takes an id, which no failure gives back, and enters its key.  *)
(* It waits while an uncommitted row has the key, and fails if a committed   *)
(* one does, or for any other reason.                                        *)
CreateAccount(owner, currency) ==
  LET row == [owner |-> owner, currency |-> currency]
  IN /\ nextId \in Ids
     /\ nextId' = nextId + 1
     /\ \/ UNCHANGED inserting
        \/ KeyIsFree(row) /\ inserting' = [inserting EXCEPT ![nextId] = row]
     /\ UNCHANGED <<ledgerVars, accounts, form, at, status>>

(* Its COMMIT, which may fail.                                               *)
EndCreateAccount(id) ==
  /\ inserting[id] # NoAccount
  /\ inserting' = [inserting EXCEPT ![id] = NoAccount]
  /\ \/ accounts' = [accounts EXCEPT ![id] = inserting[id]]
     \/ UNCHANGED accounts
  /\ UNCHANGED <<ledgerVars, nextId, form, at, status>>

AccountStep ==
  \/ \E o \in Owners, k \in Currencies : CreateAccount(o, k)
  \/ \E id \in Ids : EndCreateAccount(id)

-----------------------------------------------------------------------------
(* createTransfer.                                                           *)

(* The request is bound: positive ids and amount, a supported currency.      *)
Receive(c) ==
  /\ at[c] = "idle"
  /\ \E f \in Forms : form' = [form EXCEPT ![c] = f]
  /\ at' = [at EXCEPT ![c] = "from"]
  /\ UNCHANGED <<ledgerVars, accountVars, status>>

Exists(id) == accounts[id] # NoAccount

\* Mutant of InCurrency: the currency is checked for the from account only.
FromInCurrency(c, id) == id = form[c].from => accounts[id].currency = form[c].currency
InCurrency(c, id) == accounts[id].currency = form[c].currency

\* Mutant of OwnsFrom: either of the two accounts has to be the caller's.
OwnsEither(c) ==
  form[c].user \in {accounts[i].owner : i \in {j \in {form[c].from, form[c].to} : Exists(j)}}
OwnsFrom(c) == accounts[form[c].from].owner = form[c].user

(* validAccount, then for the from account the comparison with the caller.   *)
Valid(c, id) == Exists(id) /\ InCurrency(c, id)

StatusOf(c, id) == CASE ~Exists(id) -> 404
                     [] Exists(id) /\ ~InCurrency(c, id) -> 400
                     [] OTHER -> 401

Answer(c, code) ==
  /\ at' = [at EXCEPT ![c] = "answered"]
  /\ status' = [status EXCEPT ![c] = code]

CheckFrom(c) ==
  /\ at[c] = "from"
  /\ LET id == form[c].from
         accepted == Valid(c, id) /\ OwnsFrom(c)
     IN \/ accepted /\ at' = [at EXCEPT ![c] = "to"] /\ UNCHANGED status
        \/ ~accepted /\ Answer(c, StatusOf(c, id))
  /\ UNCHANGED <<ledgerVars, accountVars, form>>

\* Mutant of CheckTo: the handler goes on after it has answered.
CheckToGoesOn(c) ==
  /\ at[c] = "to"
  /\ at' = [at EXCEPT ![c] = "store"]
  /\ UNCHANGED <<ledgerVars, accountVars, form, status>>

CheckTo(c) ==
  /\ at[c] = "to"
  /\ LET id == form[c].to
     IN \/ Valid(c, id) /\ at' = [at EXCEPT ![c] = "store"] /\ UNCHANGED status
        \/ ~Valid(c, id) /\ Answer(c, StatusOf(c, id))
  /\ UNCHANGED <<ledgerVars, accountVars, form>>

CallTransferTx(c) ==
  /\ at[c] = "store"
  /\ L!Request(c)  \* with these arguments:
  /\ req'[c] = [from |-> form[c].from, to |-> form[c].to, amount |-> form[c].amount]
  /\ at' = [at EXCEPT ![c] = "wait"]
  /\ UNCHANGED <<accountVars, form, status>>

Store(c) == (L!Post(c) \/ L!Succeed(c) \/ L!Fail(c)) /\ UNCHANGED apiVars

\* Mutant of AnswerTransfer: the error branch does not return before the 200.
AnswerTransferAlwaysOk(c) ==
  /\ at[c] = "wait"
  /\ reply[c] # "none"
  /\ Answer(c, 200)
  /\ UNCHANGED <<ledgerVars, accountVars, form>>

AnswerTransfer(c) ==
  /\ at[c] = "wait"
  /\ reply[c] # "none"
  /\ Answer(c, IF reply[c] = "ok" THEN 200 ELSE 500)
  /\ UNCHANGED <<ledgerVars, accountVars, form>>

(* GetAccount itself fails.                                                  *)
CheckFails(c) ==
  /\ at[c] \in {"from", "to"}
  /\ Answer(c, 500)
  /\ UNCHANGED <<ledgerVars, accountVars, form>>

Next ==
  \/ AccountStep
  \/ \E c \in Calls : \/ Receive(c) \/ CheckFrom(c) \/ CheckTo(c) \/ CheckFails(c)
                      \/ CallTransferTx(c) \/ Store(c) \/ AnswerTransfer(c)

Spec == Init /\ [][Next]_vars

-----------------------------------------------------------------------------
(***************************************************************************)
(* Properties.                                                             *)
(***************************************************************************)

(* Every variable has its type.                                              *)
TypeOK ==
  /\ accounts \in [Ids -> Rows \cup {NoAccount}]
  /\ nextId \in 1..MaxId + 1
  /\ inserting \in [Ids -> Rows \cup {NoAccount}]
  /\ form \in [Calls -> Forms \cup {NoRequest}]
  /\ at \in [Calls -> {"idle", "from", "to", "store", "wait", "answered"}]
  /\ status \in [Calls -> {0, 200, 400, 401, 404, 500}]
  /\ balance \in [Ids -> L!Bigint]

(* Money never passes from one currency into another: all balances of a      *)
(* currency add up to 0, in every interleaving of handlers and accounts.     *)
CurrencyIsConserved ==
  \A k \in Currencies :
    0 = MapThenSumSet(LAMBDA i : balance[i],
                      {i \in Ids : Exists(i) /\ accounts[i].currency = k})

(* Every debit was ordered by the owner of the account, and every entry is on*)
(* an account that exists.                                                   *)
OnlyOwnersPay ==
  \A e \in entries :
    /\ Exists(e.account)
    /\ e.amount < 0 => accounts[e.account].owner = form[e.id[1]].user

(* An owner has at most one account in a currency, when two requests to open *)
(* one run at the same time too.                                             *)
OneAccountPerCurrency ==
  \A i, j \in Ids : i # j /\ Exists(i) => accounts[i] # accounts[j]

(* A transfer answered 200 is in the tables; one refused by a check is not   *)
(* and never will be.                                                        *)
StatusIsTrue ==
  \A c \in Calls : /\ status[c] = 200 => L!Posted(c)
                   /\ status[c] \in {400, 401, 404} => req[c] = NoRequest

(* "Negative Balance: ... should be prevented by transfer logic".            *)
NoNegativeBalance == \A i \in Ids : balance[i] >= 0

=============================================================================
