-------------------------- MODULE TransferAPIProofs --------------------------
(***************************************************************************)
(* The properties of TransferAPI for any calls, owners, currencies,        *)
(* amounts and accounts.  The inductive invariant says what the checks of  *)
(* a handler have established, and keeps it true until the transfer and    *)
(* its entries are in the tables: an account, once read, never changes.    *)
(***************************************************************************)
EXTENDS TransferAPI, Sums

(* What the two checks establish of the accounts of a form.                  *)
FromChecked(f) == /\ accounts[f.from] \in Rows
                  /\ accounts[f.from].owner = f.user
                  /\ accounts[f.from].currency = f.currency
ToChecked(f) == /\ accounts[f.to] \in Rows
                /\ accounts[f.to].currency = f.currency

(* The arguments of TransferTx for a form.                                   *)
Ordered(f) == [from |-> f.from, to |-> f.to, amount |-> f.amount]

CallInv(c) ==
  /\ at[c] # "idle" => form[c] \in Forms
  /\ at[c] \in {"idle", "from", "to", "store"} => req[c] = NoRequest
  /\ at[c] \in {"to", "store", "wait"} => FromChecked(form[c])
  /\ at[c] \in {"store", "wait"} => ToChecked(form[c])
  /\ at[c] # "answered" => status[c] = 0
  /\ at[c] = "wait" => req[c] = Ordered(form[c])
  /\ req[c] # NoRequest =>
       /\ req[c] = Ordered(form[c])
       /\ FromChecked(form[c]) /\ ToChecked(form[c])
  /\ reply[c] = "ok" => L!Posted(c)
  /\ status[c] = 200 => L!Posted(c)
  /\ status[c] \in {400, 401, 404} => req[c] = NoRequest

EntryInv(e) ==
  /\ e.account \in Ids /\ accounts[e.account] \in Rows
  /\ e.id[1] \in Calls /\ at[e.id[1]] # "idle"
  /\ e.amount < 0 => accounts[e.account].owner = form[e.id[1]].user

TransferInv(t) ==
  /\ t.from \in Ids /\ accounts[t.from] \in Rows
  /\ t.to \in Ids /\ accounts[t.to] \in Rows
  /\ accounts[t.from].currency = accounts[t.to].currency

(* The keys in the index of accounts: those of committed rows, and of rows   *)
(* about to be.  An id has a row of one of the two, or none.                 *)
Key(i) == IF inserting[i] # NoAccount THEN inserting[i] ELSE accounts[i]

RowsInv ==
  /\ \A i \in Ids : i >= nextId => Key(i) = NoAccount
  /\ \A i \in Ids : inserting[i] # NoAccount => accounts[i] = NoAccount
  /\ \A i, j \in Ids : i # j /\ Key(i) # NoAccount => Key(i) # Key(j)

APIInv ==
  /\ TypeOK
  /\ req \in [Calls -> L!Requests \cup {NoRequest}]
  /\ reply \in [Calls -> {"none", "ok", "err"}]
  /\ RowsInv
  /\ \A c \in Calls : CallInv(c)
  /\ \A e \in entries : EntryInv(e)
  /\ \A t \in transfers : TransferInv(t)

-----------------------------------------------------------------------------
(* What a step leaves alone keeps its part of the invariant.                 *)

Kept(c) == /\ at'[c] = at[c] /\ form'[c] = form[c] /\ status'[c] = status[c]
           /\ req'[c] = req[c] /\ reply'[c] = reply[c]

AccountsStay == \A i \in Ids : accounts[i] \in Rows => accounts'[i] = accounts[i]

(* A call that is not idle keeps its form.                                   *)
FormsStay == \A c \in Calls : at[c] # "idle" => at'[c] # "idle" /\ form'[c] = form[c]

LEMMA FormTypes ==
  ASSUME NEW f \in Forms
  PROVE  /\ f.from \in Ids /\ f.to \in Ids /\ f.user \in Owners
         /\ f.currency \in Currencies /\ f.amount \in Amounts
         /\ Ordered(f) \in L!Requests /\ Ordered(f) # NoRequest
BY NoRowsAreNoValues DEF Forms, Ordered, L!Requests

LEMMA RowTypes ==
  ASSUME NEW row \in Rows
  PROVE  row.owner \in Owners /\ row.currency \in Currencies /\ row # NoAccount
BY NoRowsAreNoValues DEF Rows

LEMMA ChecksKept ==
  ASSUME NEW f \in Forms, AccountsStay
  PROVE  /\ FromChecked(f) => FromChecked(f)'
         /\ ToChecked(f) => ToChecked(f)'
BY FormTypes DEF FromChecked, ToChecked, AccountsStay

LEMMA CallKept ==
  ASSUME APIInv, NEW c \in Calls, Kept(c), AccountsStay, transfers \subseteq transfers'
  PROVE  CallInv(c)'
<1>1. CallInv(c) /\ (at[c] = "idle" => req[c] = NoRequest)
  BY DEF APIInv, CallInv
<1>2. L!Posted(c) => L!Posted(c)'
  BY DEF L!Posted
<1>3. ASSUME at[c] # "idle"
      PROVE  /\ FromChecked(form[c]) => FromChecked(form[c])'
             /\ ToChecked(form[c]) => ToChecked(form[c])'
  <2> DEFINE f == form[c]
  <2>1. f \in Forms /\ f' = f
    BY <1>1, <1>3 DEF CallInv, Kept
  <2>2. PICK g \in Forms : g = f
    BY <2>1
  <2>3. (FromChecked(g) => FromChecked(g)') /\ (ToChecked(g) => ToChecked(g)')
    BY ChecksKept
  <2>4. /\ FromChecked(f) => FromChecked(g)
        /\ ToChecked(f) => ToChecked(g)
        /\ FromChecked(g)' => FromChecked(f)'
        /\ ToChecked(g)' => ToChecked(f)'
    BY <2>1, <2>2 DEF FromChecked, ToChecked
  <2> QED
    BY <2>3, <2>4
<1> QED
  BY <1>1, <1>2, <1>3 DEF CallInv, Kept

LEMMA EntryKept ==
  ASSUME APIInv, NEW e \in entries, AccountsStay, FormsStay
  PROVE  EntryInv(e)'
<1>1. EntryInv(e)
  BY DEF APIInv
<1> QED
  BY <1>1 DEF EntryInv, AccountsStay, FormsStay

LEMMA TransferKept ==
  ASSUME APIInv, NEW t \in transfers, AccountsStay
  PROVE  TransferInv(t)'
<1>1. TransferInv(t)
  BY DEF APIInv
<1> QED
  BY <1>1 DEF TransferInv, AccountsStay

(* A step of the call c: what has to be shown of it.                         *)
LEMMA StepOfCall ==
  ASSUME APIInv, NEW c \in Calls, UNCHANGED accountVars,
         \A d \in Calls \ {c} : Kept(d), CallInv(c)',
         at[c] # "idle" => at'[c] # "idle" /\ form'[c] = form[c],
         transfers \subseteq transfers',
         \A t \in transfers' \ transfers : TransferInv(t)',
         \A e \in entries' \ entries : EntryInv(e)',
         form' \in [Calls -> Forms \cup {NoRequest}],
         at' \in [Calls -> {"idle", "from", "to", "store", "wait", "answered"}],
         status' \in [Calls -> {0, 200, 400, 401, 404, 500}],
         balance' \in [Ids -> L!Bigint],
         req' \in [Calls -> L!Requests \cup {NoRequest}],
         reply' \in [Calls -> {"none", "ok", "err"}]
  PROVE  APIInv'
<1>1. AccountsStay /\ FormsStay
  BY DEF AccountsStay, FormsStay, Kept, accountVars
<1>2. TypeOK'
  BY DEF APIInv, TypeOK, accountVars
<1>3. ASSUME NEW d \in Calls PROVE CallInv(d)'
  BY <1>1, CallKept
<1>4. ASSUME NEW t \in transfers' PROVE TransferInv(t)'
  BY <1>1, TransferKept
<1>5. ASSUME NEW e \in entries' PROVE EntryInv(e)'
  BY <1>1, EntryKept
<1>6. RowsInv'
  BY DEF APIInv, RowsInv, Key, accountVars
<1> QED
  BY <1>2, <1>3, <1>4, <1>5, <1>6 DEF APIInv

(* A step of c that writes nothing to the ledger.                            *)
LEMMA HandlerStep ==
  ASSUME APIInv, NEW c \in Calls, UNCHANGED <<ledgerVars, accountVars>>,
         \A d \in Calls \ {c} : Kept(d), CallInv(c)',
         at[c] # "idle" => at'[c] # "idle" /\ form'[c] = form[c],
         form' \in [Calls -> Forms \cup {NoRequest}],
         at' \in [Calls -> {"idle", "from", "to", "store", "wait", "answered"}],
         status' \in [Calls -> {0, 200, 400, 401, 404, 500}]
  PROVE  APIInv'
<1>1. UNCHANGED <<balance, req, reply, transfers, entries>>
  BY DEF ledgerVars, accountVars
<1> QED
  BY <1>1, StepOfCall DEF APIInv, TypeOK

-----------------------------------------------------------------------------
LEMMA InvInit == Init => APIInv
<1> SUFFICES ASSUME Init PROVE APIInv
  OBVIOUS
<1>1. TypeOK
  BY IdBound, ZeroFits DEF Init, L!Init, TypeOK, L!Bigint, Ids
<1>2. /\ req \in [Calls -> L!Requests \cup {NoRequest}]
      /\ reply \in [Calls -> {"none", "ok", "err"}]
      /\ RowsInv
      /\ entries = {} /\ transfers = {}
  BY DEF Init, L!Init, RowsInv, Key
<1>3. ASSUME NEW c \in Calls PROVE CallInv(c)
  BY DEF Init, L!Init, CallInv
<1> QED
  BY <1>1, <1>2, <1>3 DEF APIInv

(* A step of an INSERT: what has to be shown of it.                          *)
LEMMA StepOfInsert ==
  ASSUME APIInv, UNCHANGED <<ledgerVars, form, at, status>>, AccountsStay, RowsInv',
         accounts' \in [Ids -> Rows \cup {NoAccount}], nextId' \in 1..MaxId + 1,
         inserting' \in [Ids -> Rows \cup {NoAccount}]
  PROVE  APIInv'
<1>1. /\ transfers' = transfers /\ entries' = entries /\ req' = req /\ reply' = reply
      /\ form' = form /\ at' = at /\ status' = status /\ balance' = balance
  BY DEF ledgerVars, accountVars
<1>2. FormsStay /\ \A c \in Calls : Kept(c)
  BY <1>1 DEF FormsStay, Kept
<1>3. TypeOK'
  BY <1>1 DEF APIInv, TypeOK
<1>4. ASSUME NEW c \in Calls PROVE CallInv(c)'
  BY <1>1, <1>2, CallKept
<1>5. ASSUME NEW t \in transfers PROVE TransferInv(t)'
  BY TransferKept
<1>6. ASSUME NEW e \in entries PROVE EntryInv(e)'
  BY <1>2, EntryKept
<1> QED
  BY <1>1, <1>3, <1>4, <1>5, <1>6 DEF APIInv

LEMMA CreateAccountStep ==
  ASSUME APIInv, NEW o \in Owners, NEW k \in Currencies, CreateAccount(o, k)
  PROVE  APIInv'
<1> DEFINE row == [owner |-> o, currency |-> k]
<1>1. /\ nextId \in Ids /\ nextId' = nextId + 1 /\ accounts' = accounts
      /\ UNCHANGED <<ledgerVars, form, at, status>>
      /\ \/ inserting' = inserting
         \/ KeyIsFree(row) /\ inserting' = [inserting EXCEPT ![nextId] = row]
  BY DEF CreateAccount
<1>2. /\ accounts \in [Ids -> Rows \cup {NoAccount}] /\ RowsInv
      /\ inserting \in [Ids -> Rows \cup {NoAccount}] /\ nextId \in Nat
  BY <1>1, IdBound DEF APIInv, TypeOK, Ids
<1>3. row \in Rows /\ row # NoAccount
  BY NoRowsAreNoValues DEF Rows
<1> HIDE DEF row
<1>4. /\ inserting' \in [Ids -> Rows \cup {NoAccount}]
      /\ accounts' \in [Ids -> Rows \cup {NoAccount}]
      /\ nextId' \in 1..MaxId + 1 /\ AccountsStay
  BY <1>1, <1>2, <1>3, IdBound DEF Ids, AccountsStay
<1>5. \A i \in Ids : i >= nextId' => i >= nextId /\ i # nextId
  BY <1>1, <1>2 DEF Ids
<1>6. RowsInv'
  <2>1. CASE inserting' = inserting
    BY <1>1, <1>2, <1>5, <2>1 DEF RowsInv, Key
  <2>2. CASE KeyIsFree(row) /\ inserting' = [inserting EXCEPT ![nextId] = row]
    <3>1. /\ inserting'[nextId] = row /\ accounts[nextId] = NoAccount
          /\ \A i \in Ids : i # nextId => inserting'[i] = inserting[i]
      BY <1>1, <1>2, <2>2 DEF RowsInv, Key
    <3>2. \A i \in Ids : Key(i)' = IF i = nextId THEN row ELSE Key(i)
      BY <1>1, <1>3, <3>1 DEF Key
    <3>3. \A i \in Ids : Key(i) # row
      BY <2>2 DEF KeyIsFree, Key
    <3>4. \A i \in Ids : i >= nextId' => Key(i)' = NoAccount
      BY <1>2, <1>5, <3>2 DEF RowsInv
    <3>5. \A i \in Ids : inserting'[i] # NoAccount => accounts'[i] = NoAccount
      BY <1>1, <1>2, <3>1 DEF RowsInv
    <3>6. \A i, j \in Ids : i # j /\ Key(i)' # NoAccount => Key(i)' # Key(j)'
      BY <1>2, <1>3, <3>2, <3>3 DEF RowsInv
    <3> QED
      BY <3>4, <3>5, <3>6 DEF RowsInv
  <2> QED
    BY <1>1, <2>1, <2>2
<1> QED
  BY <1>1, <1>4, <1>6, StepOfInsert

(* The key of an INSERT becomes that of the row, or is given up.             *)
LEMMA EndCreateAccountStep ==
  ASSUME APIInv, NEW id \in Ids, EndCreateAccount(id)
  PROVE  APIInv'
<1>1. /\ inserting[id] # NoAccount /\ nextId' = nextId
      /\ inserting' = [inserting EXCEPT ![id] = NoAccount]
      /\ \/ accounts' = [accounts EXCEPT ![id] = inserting[id]]
         \/ accounts' = accounts
      /\ UNCHANGED <<ledgerVars, form, at, status>>
  BY DEF EndCreateAccount
<1>2. /\ accounts \in [Ids -> Rows \cup {NoAccount}] /\ RowsInv
      /\ inserting \in [Ids -> Rows \cup {NoAccount}] /\ nextId \in 1..MaxId + 1
  BY DEF APIInv, TypeOK
<1>3. accounts[id] = NoAccount /\ accounts[id] \notin Rows
  BY <1>1, <1>2, NoRowsAreNoValues DEF RowsInv
<1>4. /\ inserting' \in [Ids -> Rows \cup {NoAccount}]
      /\ accounts' \in [Ids -> Rows \cup {NoAccount}]
      /\ nextId' \in 1..MaxId + 1 /\ AccountsStay
  BY <1>1, <1>2, <1>3 DEF AccountsStay
<1>5. \A i \in Ids : /\ i # id => Key(i)' = Key(i)
                     /\ i = id => Key(i)' \in {Key(i), NoAccount}
  BY <1>1, <1>2, <1>3 DEF Key
<1>6. RowsInv'
  <2>1. \A i \in Ids : i >= nextId' => Key(i)' = NoAccount
    BY <1>1, <1>2, <1>5 DEF RowsInv
  <2>2. \A i \in Ids : inserting'[i] # NoAccount => accounts'[i] = NoAccount
    BY <1>1, <1>2 DEF RowsInv
  <2>3. \A i, j \in Ids : i # j /\ Key(i)' # NoAccount => Key(i)' # Key(j)'
    BY <1>2, <1>5 DEF RowsInv
  <2> QED
    BY <2>1, <2>2, <2>3 DEF RowsInv
<1> QED
  BY <1>1, <1>4, <1>6, StepOfInsert

-----------------------------------------------------------------------------
(* The handler.                                                              *)

LEMMA ReceiveStep ==
  ASSUME APIInv, NEW c \in Calls, Receive(c)
  PROVE  APIInv'
<1>1. PICK f \in Forms : form' = [form EXCEPT ![c] = f]
  BY DEF Receive
<1>2. /\ at[c] = "idle" /\ at' = [at EXCEPT ![c] = "from"]
      /\ UNCHANGED <<ledgerVars, accountVars, status>>
  BY DEF Receive
<1>3. CallInv(c) /\ TypeOK
  BY DEF APIInv
<1>4. /\ at'[c] = "from" /\ form'[c] = f
      /\ \A d \in Calls \ {c} : Kept(d)
  BY <1>1, <1>2, <1>3 DEF TypeOK, Kept, ledgerVars, accountVars
<1>5. req' = req /\ reply' = reply /\ transfers' = transfers /\ status' = status
  BY <1>2 DEF ledgerVars, accountVars
<1>6. CallInv(c)'
  BY <1>2, <1>3, <1>4, <1>5 DEF CallInv, L!Posted
<1> QED
  BY <1>1, <1>2, <1>3, <1>4, <1>6, HandlerStep DEF TypeOK

(* The answer of a check that refuses or fails.                              *)
LEMMA RefusedStep ==
  ASSUME APIInv, NEW c \in Calls, at[c] \in {"from", "to"},
         NEW code \in {400, 401, 404, 500}, Answer(c, code),
         UNCHANGED <<ledgerVars, accountVars, form>>
  PROVE  APIInv'
<1>1. CallInv(c) /\ TypeOK
  BY DEF APIInv
<1>2. /\ at'[c] = "answered" /\ form'[c] = form[c] /\ status'[c] = code
      /\ \A d \in Calls \ {c} : Kept(d)
  BY <1>1 DEF Answer, TypeOK, Kept, ledgerVars, accountVars
<1>3. req' = req /\ reply' = reply /\ transfers' = transfers
  BY DEF ledgerVars, accountVars
<1>4. CallInv(c)'
  BY <1>1, <1>2, <1>3 DEF CallInv, L!Posted
<1>5. /\ at' \in [Calls -> {"idle", "from", "to", "store", "wait", "answered"}]
      /\ status' \in [Calls -> {0, 200, 400, 401, 404, 500}]
      /\ form' \in [Calls -> Forms \cup {NoRequest}]
  BY <1>1 DEF Answer, TypeOK
<1> QED
  BY <1>2, <1>4, <1>5, HandlerStep

LEMMA StatusCodes ==
  ASSUME NEW c, NEW id
  PROVE  StatusOf(c, id) \in {400, 401, 404}
BY DEF StatusOf

LEMMA CheckFromStep ==
  ASSUME APIInv, NEW c \in Calls, CheckFrom(c)
  PROVE  APIInv'
<1>1. at[c] = "from" /\ UNCHANGED <<ledgerVars, accountVars, form>>
  BY DEF CheckFrom
<1>2. CASE Answer(c, StatusOf(c, form[c].from))
  BY <1>1, <1>2, StatusCodes, RefusedStep
<1>3. CASE /\ Valid(c, form[c].from) /\ OwnsFrom(c)
           /\ at' = [at EXCEPT ![c] = "to"] /\ UNCHANGED status
  <2>1. CallInv(c) /\ TypeOK
    BY DEF APIInv
  <2>2. /\ at'[c] = "to" /\ form'[c] = form[c]
        /\ \A d \in Calls \ {c} : Kept(d)
    BY <1>1, <1>3, <2>1 DEF TypeOK, Kept, ledgerVars, accountVars
  <2>3. form[c] \in Forms
    BY <1>1, <2>1 DEF CallInv
  <2>4. FromChecked(form[c])
    BY <1>3, <2>1, <2>3, FormTypes
    DEF Valid, Exists, InCurrency, OwnsFrom, FromChecked, TypeOK
  <2>5. /\ req' = req /\ reply' = reply /\ transfers' = transfers /\ accounts' = accounts
        /\ status' = status /\ form' = form
    BY <1>1, <1>3 DEF ledgerVars, accountVars
  <2>6. CallInv(c)'
    BY <1>1, <2>1, <2>2, <2>3, <2>4, <2>5 DEF CallInv, L!Posted, FromChecked
  <2>7. at' \in [Calls -> {"idle", "from", "to", "store", "wait", "answered"}]
    BY <1>3, <2>1 DEF TypeOK
  <2> QED
    BY <1>1, <2>1, <2>2, <2>5, <2>6, <2>7, HandlerStep DEF TypeOK
<1> QED
  BY <1>2, <1>3 DEF CheckFrom

LEMMA CheckToStep ==
  ASSUME APIInv, NEW c \in Calls, CheckTo(c)
  PROVE  APIInv'
<1>1. at[c] = "to" /\ UNCHANGED <<ledgerVars, accountVars, form>>
  BY DEF CheckTo
<1>2. CASE Answer(c, StatusOf(c, form[c].to))
  BY <1>1, <1>2, StatusCodes, RefusedStep
<1>3. CASE /\ Valid(c, form[c].to)
           /\ at' = [at EXCEPT ![c] = "store"] /\ UNCHANGED status
  <2>1. CallInv(c) /\ TypeOK
    BY DEF APIInv
  <2>2. /\ at'[c] = "store" /\ form'[c] = form[c]
        /\ \A d \in Calls \ {c} : Kept(d)
    BY <1>1, <1>3, <2>1 DEF TypeOK, Kept, ledgerVars, accountVars
  <2>3. form[c] \in Forms /\ FromChecked(form[c])
    BY <1>1, <2>1 DEF CallInv
  <2>4. ToChecked(form[c])
    BY <1>3, <2>1, <2>3, FormTypes DEF Valid, Exists, InCurrency, ToChecked, TypeOK
  <2>5. /\ req' = req /\ reply' = reply /\ transfers' = transfers /\ accounts' = accounts
        /\ status' = status /\ form' = form
    BY <1>1, <1>3 DEF ledgerVars, accountVars
  <2>6. CallInv(c)'
    BY <1>1, <2>1, <2>2, <2>3, <2>4, <2>5
    DEF CallInv, L!Posted, FromChecked, ToChecked
  <2>7. at' \in [Calls -> {"idle", "from", "to", "store", "wait", "answered"}]
    BY <1>3, <2>1 DEF TypeOK
  <2> QED
    BY <1>1, <2>1, <2>2, <2>5, <2>6, <2>7, HandlerStep DEF TypeOK
<1> QED
  BY <1>2, <1>3 DEF CheckTo

LEMMA CallTransferTxStep ==
  ASSUME APIInv, NEW c \in Calls, CallTransferTx(c)
  PROVE  APIInv'
<1>1. /\ at[c] = "store" /\ at' = [at EXCEPT ![c] = "wait"]
      /\ UNCHANGED <<accountVars, form, status>>
      /\ UNCHANGED <<reply, balance, transfers, entries>>
  BY DEF CallTransferTx, L!Request
<1>2. PICK r \in L!Requests : req' = [req EXCEPT ![c] = r]
  BY DEF CallTransferTx, L!Request
<1>3. CallInv(c) /\ TypeOK /\ req \in [Calls -> L!Requests \cup {NoRequest}]
      /\ reply' \in [Calls -> {"none", "ok", "err"}]
  BY <1>1 DEF APIInv
<1>4. /\ form[c] \in Forms /\ FromChecked(form[c]) /\ ToChecked(form[c])
      /\ status[c] = 0
  BY <1>1, <1>3 DEF CallInv
<1>5. /\ at'[c] = "wait" /\ req'[c] = Ordered(form[c])
      /\ \A d \in Calls \ {c} : Kept(d)
  BY <1>1, <1>2, <1>3 DEF TypeOK, Kept, CallTransferTx, Ordered
<1>6. CallInv(c)'
  BY <1>1, <1>3, <1>4, <1>5
  DEF CallInv, L!Posted, FromChecked, ToChecked, Ordered, accountVars
<1>7. /\ req' \in [Calls -> L!Requests \cup {NoRequest}]
      /\ at' \in [Calls -> {"idle", "from", "to", "store", "wait", "answered"}]
  BY <1>1, <1>2, <1>3 DEF TypeOK
<1> QED
  BY <1>1, <1>3, <1>5, <1>6, <1>7, StepOfCall DEF TypeOK

LEMMA AnswerTransferStep ==
  ASSUME APIInv, NEW c \in Calls, AnswerTransfer(c)
  PROVE  APIInv'
<1>1. /\ at[c] = "wait" /\ reply[c] # "none"
      /\ UNCHANGED <<ledgerVars, accountVars, form>>
      /\ Answer(c, IF reply[c] = "ok" THEN 200 ELSE 500)
  BY DEF AnswerTransfer
<1>2. CallInv(c) /\ TypeOK
  BY DEF APIInv
<1>3. /\ at'[c] = "answered" /\ form'[c] = form[c]
      /\ status'[c] = IF reply[c] = "ok" THEN 200 ELSE 500
      /\ \A d \in Calls \ {c} : Kept(d)
  BY <1>1, <1>2 DEF Answer, TypeOK, Kept, ledgerVars, accountVars
<1>4. req' = req /\ reply' = reply /\ transfers' = transfers /\ accounts' = accounts
  BY <1>1 DEF ledgerVars, accountVars
<1>5. CallInv(c)'
  BY <1>1, <1>2, <1>3, <1>4 DEF CallInv, L!Posted, FromChecked, ToChecked
<1>6. /\ at' \in [Calls -> {"idle", "from", "to", "store", "wait", "answered"}]
      /\ status' \in [Calls -> {0, 200, 400, 401, 404, 500}]
      /\ form' \in [Calls -> Forms \cup {NoRequest}]
  BY <1>1, <1>2 DEF Answer, TypeOK
<1> QED
  BY <1>1, <1>3, <1>5, <1>6, HandlerStep

-----------------------------------------------------------------------------
(* The store.                                                                *)

LEMMA PostStep ==
  ASSUME APIInv, NEW c \in Calls, L!Post(c), UNCHANGED apiVars
  PROVE  APIInv'
<1>1. /\ req[c] # NoRequest
      /\ balance' = L!Moved(c) /\ \A a \in Ids : balance'[a] \in L!Bigint
      /\ transfers' = transfers \cup {L!TransferRow(c)}
      /\ entries' = entries \cup {L!FromEntry(c), L!ToEntry(c)}
      /\ UNCHANGED <<req, reply, accountVars, accounts, form, at, status>>
  BY DEF L!Post, apiVars, accountVars
<1>2. CallInv(c) /\ TypeOK
  BY DEF APIInv
<1>3. /\ at[c] # "idle" /\ req[c] = Ordered(form[c])
      /\ FromChecked(form[c]) /\ ToChecked(form[c])
  BY <1>1, <1>2 DEF CallInv
<1>4. form[c] \in Forms
  BY <1>2, <1>3 DEF CallInv
<1>5. AccountsStay /\ \A d \in Calls : Kept(d)
  BY <1>1 DEF AccountsStay, Kept
<1>6. CallInv(c)'
  BY <1>1, <1>5, CallKept
<1>7. /\ req[c].from = form[c].from /\ req[c].to = form[c].to
      /\ req[c].amount = form[c].amount
      /\ form[c].from \in Ids /\ form[c].to \in Ids
      /\ form[c].amount \in Nat
  BY <1>3, <1>4, FormTypes, AmountsArePositive DEF Ordered
<1>8. ASSUME NEW t, t = L!TransferRow(c) PROVE TransferInv(t)'
  <2>1. /\ accounts[form[c].from] \in Rows /\ accounts[form[c].to] \in Rows
        /\ accounts[form[c].from].currency = accounts[form[c].to].currency
    BY <1>3 DEF FromChecked, ToChecked
  <2>2. TransferInv(t)
    BY <1>7, <1>8, <2>1 DEF TransferInv, L!TransferRow
  <2> QED
    BY <1>1, <2>2 DEF TransferInv
<1>9. ASSUME NEW e, e = L!FromEntry(c) \/ e = L!ToEntry(c) PROVE EntryInv(e)'
  <2>1. /\ accounts[form[c].from] \in Rows /\ accounts[form[c].to] \in Rows
        /\ accounts[form[c].from].owner = form[c].user
    BY <1>3 DEF FromChecked, ToChecked
  <2>2. EntryInv(e)
    BY <1>3, <1>7, <1>9, <2>1 DEF EntryInv, L!FromEntry, L!ToEntry
  <2> QED
    BY <1>1, <2>2 DEF EntryInv
<1>10. balance' \in [Ids -> L!Bigint]
  BY <1>1 DEF L!Moved
<1>11. /\ \A t \in transfers' \ transfers : TransferInv(t)'
       /\ \A e \in entries' \ entries : EntryInv(e)'
       /\ transfers \subseteq transfers'
  <2>1. \A t \in transfers' \ transfers : t = L!TransferRow(c)
    BY <1>1
  <2>2. \A e \in entries' \ entries : e = L!FromEntry(c) \/ e = L!ToEntry(c)
    BY <1>1
  <2> QED
    BY <1>1, <1>8, <1>9, <2>1, <2>2
<1> QED
  BY <1>1, <1>2, <1>5, <1>6, <1>10, <1>11, StepOfCall DEF TypeOK, APIInv

(* Only the reply of c changes, and it says "ok" of a posted transfer.       *)
LEMMA ReplyStep ==
  ASSUME APIInv, NEW c \in Calls, L!Succeed(c) \/ L!Fail(c), UNCHANGED apiVars
  PROVE  APIInv'
<1>1. UNCHANGED <<req, balance, transfers, entries, accountVars, accounts, form, at, status>>
  BY DEF L!Succeed, L!Fail, apiVars, accountVars
<1>2. CallInv(c) /\ TypeOK /\ reply \in [Calls -> {"none", "ok", "err"}]
      /\ req' \in [Calls -> L!Requests \cup {NoRequest}]
  BY <1>1 DEF APIInv
<1>3. /\ reply' \in [Calls -> {"none", "ok", "err"}]
      /\ \A d \in Calls \ {c} : Kept(d)
      /\ reply'[c] = "ok" => L!Posted(c)
  BY <1>1, <1>2 DEF L!Succeed, L!Fail, Kept
<1>4. CallInv(c)'
  BY <1>1, <1>2, <1>3 DEF CallInv, L!Posted, FromChecked, ToChecked
<1> QED
  BY <1>1, <1>2, <1>3, <1>4, StepOfCall DEF TypeOK

-----------------------------------------------------------------------------
LEMMA InvNext == APIInv /\ [Next]_vars => APIInv'
<1> SUFFICES ASSUME APIInv, [Next]_vars PROVE APIInv'
  OBVIOUS
<1>1. CASE AccountStep
  BY <1>1, CreateAccountStep, EndCreateAccountStep DEF AccountStep
<1>2. ASSUME NEW c \in Calls, Receive(c) PROVE APIInv'
  BY <1>2, ReceiveStep
<1>3. ASSUME NEW c \in Calls, CheckFrom(c) PROVE APIInv'
  BY <1>3, CheckFromStep
<1>4. ASSUME NEW c \in Calls, CheckTo(c) PROVE APIInv'
  BY <1>4, CheckToStep
<1>5. ASSUME NEW c \in Calls, CheckFails(c) PROVE APIInv'
  BY <1>5, RefusedStep DEF CheckFails
<1>6. ASSUME NEW c \in Calls, CallTransferTx(c) PROVE APIInv'
  BY <1>6, CallTransferTxStep
<1>7. ASSUME NEW c \in Calls, Store(c) PROVE APIInv'
  BY <1>7, PostStep, ReplyStep DEF Store
<1>8. ASSUME NEW c \in Calls, AnswerTransfer(c) PROVE APIInv'
  BY <1>8, AnswerTransferStep
<1>9. CASE UNCHANGED vars
  <2>1. UNCHANGED <<req, reply, balance, transfers, entries,
                    accounts, nextId, inserting, form, at, status>>
    BY <1>9 DEF vars, ledgerVars, apiVars, accountVars
  <2>2. AccountsStay /\ FormsStay /\ (\A c \in Calls : Kept(c)) /\ TypeOK'
        /\ RowsInv'
    BY <2>1 DEF AccountsStay, FormsStay, Kept, APIInv, TypeOK, RowsInv, Key
  <2>3. \A c \in Calls : CallInv(c)'
    BY <2>1, <2>2, CallKept
  <2>4. (\A e \in entries : EntryInv(e)') /\ (\A t \in transfers : TransferInv(t)')
    BY <2>2, EntryKept, TransferKept
  <2> QED
    BY <2>1, <2>2, <2>3, <2>4 DEF APIInv
<1> QED
  BY <1>1, <1>2, <1>3, <1>4, <1>5, <1>6, <1>7, <1>8, <1>9 DEF Next

(* What the checks of a handler have found stays true until its transfer is  *)
(* in the tables: no account changes its owner or its currency meanwhile.    *)
THEOREM APIInvariant == Spec => []APIInv
BY InvInit, InvNext, PTL DEF Spec

(* Every variable keeps its type.                                            *)
THEOREM TypeCorrect == Spec => []TypeOK
<1>1. APIInv => TypeOK
  BY DEF APIInv
<1> QED
  BY <1>1, APIInvariant, PTL

(* A debit is ordered by the owner of the account: the comparison of         *)
(* createTransfer is made before the transaction and still holds in it.      *)
THEOREM DebitsAreOrdered == Spec => []OnlyOwnersPay
<1>1. APIInv => OnlyOwnersPay
  <2> SUFFICES ASSUME APIInv, NEW e \in entries
               PROVE  /\ Exists(e.account)
                      /\ e.amount < 0 => accounts[e.account].owner = form[e.id[1]].user
    BY DEF OnlyOwnersPay
  <2>1. EntryInv(e)
    BY DEF APIInv
  <2> QED
    BY <2>1, RowTypes DEF EntryInv, Exists
<1> QED
  BY <1>1, APIInvariant, PTL

(* An owner never has two accounts in a currency, however many requests to   *)
(* open one run between their INSERTs and their COMMITs.                     *)
THEOREM AccountsAreUnique == Spec => []OneAccountPerCurrency
<1>1. APIInv => OneAccountPerCurrency
  <2> SUFFICES ASSUME APIInv, NEW i \in Ids, NEW j \in Ids, i # j, Exists(i)
               PROVE  accounts[i] # accounts[j]
    BY DEF OneAccountPerCurrency
  <2>1. Key(i) = accounts[i]
    BY DEF APIInv, RowsInv, Key, Exists
  <2>2. Exists(j) => Key(j) = accounts[j]
    BY DEF APIInv, RowsInv, Key, Exists
  <2> QED
    BY <2>1, <2>2 DEF APIInv, RowsInv, Exists
<1> QED
  BY <1>1, APIInvariant, PTL

(* The status of an answer is true of the tables: 200 of a posted transfer,  *)
(* a refusal of one that TransferTx was never called for.                    *)
THEOREM AnswersAreTrue == Spec => []StatusIsTrue
<1>1. APIInv => StatusIsTrue
  BY DEF APIInv, CallInv, StatusIsTrue
<1> QED
  BY <1>1, APIInvariant, PTL

(* Every posted transfer is between two accounts of one currency.            *)
SameCurrency ==
  \A t \in transfers : accounts[t.from].currency = accounts[t.to].currency

(* No transfer takes money from one currency into another.                   *)
THEOREM CurrenciesAreSeparate == Spec => []SameCurrency
<1>1. APIInv => SameCurrency
  BY DEF APIInv, TransferInv, SameCurrency
<1> QED
  BY <1>1, APIInvariant, PTL

-----------------------------------------------------------------------------
(* The balances of a currency add up to 0.                                   *)

OfCurrency(rows, k) == {i \in Ids : rows[i] # NoAccount /\ rows[i].currency = k}

(* An id without an account has no money, so that an account starts at 0.    *)
Conserved ==
  /\ \A i \in Ids : accounts[i] = NoAccount => balance[i] = 0
  /\ \A k \in Currencies : SumOf(balance, OfCurrency(accounts, k)) = 0

LEMMA FiniteCurrency ==
  \A rows, k : IsFiniteSet(OfCurrency(rows, k)) /\ OfCurrency(rows, k) \subseteq Ids
<1>1. IsFiniteSet(Ids)
  BY IdBound, FS_Interval DEF Ids
<1>2. \A rows, k : OfCurrency(rows, k) \subseteq Ids
  BY DEF OfCurrency
<1> QED
  BY <1>1, <1>2, FS_Subset

LEMMA BalancesAreInt == TypeOK => \A i \in Ids : balance[i] \in Int
BY ZeroFits DEF TypeOK, L!Bigint

LEMMA NewAccountConserves ==
  ASSUME APIInv, Conserved, NEW id \in Ids, EndCreateAccount(id)
  PROVE  Conserved'
<1>1. /\ accounts[id] = NoAccount /\ balance' = balance
      /\ balance[id] = 0 /\ accounts \in [Ids -> Rows \cup {NoAccount}]
      /\ inserting[id] \in Rows
  BY DEF EndCreateAccount, APIInv, TypeOK, RowsInv, Conserved, ledgerVars, accountVars
<1> DEFINE currency == inserting[id].currency
<1>2. CASE accounts' = accounts
  BY <1>1, <1>2 DEF Conserved
<1>3. CASE accounts' = [accounts EXCEPT ![id] = inserting[id]]
  <2>1. /\ accounts'[id] # NoAccount /\ accounts'[id].currency = currency
        /\ \A i \in Ids \ {id} : accounts'[i] = accounts[i]
    BY <1>1, <1>3, NoRowsAreNoValues
  <2>2. \A i \in Ids : accounts'[i] = NoAccount => balance'[i] = 0
    BY <1>1, <2>1 DEF Conserved
  <2>3. ASSUME NEW k \in Currencies
        PROVE  SumOf(balance', OfCurrency(accounts', k)) = 0
    <3>1. SumOf(balance, OfCurrency(accounts, k)) = 0
      BY DEF Conserved
    <3>2. CASE k # currency
      <4>1. OfCurrency(accounts', k) = OfCurrency(accounts, k)
        BY <1>1, <2>1, <3>2 DEF OfCurrency
      <4> QED
        BY <1>1, <3>1, <4>1
    <3>3. CASE k = currency
      <4>1. /\ OfCurrency(accounts', k) = OfCurrency(accounts, k) \cup {id}
            /\ id \notin OfCurrency(accounts, k)
        BY <1>1, <2>1, <3>3 DEF OfCurrency
      <4>2. \A i \in OfCurrency(accounts, k) : balance[i] \in Int
        BY FiniteCurrency, BalancesAreInt DEF APIInv
      <4>3. SumOf(balance, OfCurrency(accounts, k) \cup {id})
              = SumOf(balance, OfCurrency(accounts, k)) + balance[id]
        BY <1>1, <4>1, <4>2, FiniteCurrency, SumAdd
      <4> QED
        BY <1>1, <3>1, <4>1, <4>3
    <3> QED
      BY <3>2, <3>3
  <2> QED
    BY <2>2, <2>3 DEF Conserved
<1> QED
  BY <1>2, <1>3 DEF EndCreateAccount

(* A posting moves money between two accounts that are in its form's         *)
(* currency, hence in one currency, or from an account to itself.            *)
LEMMA PostConserves ==
  ASSUME APIInv, Conserved, NEW c \in Calls, L!Post(c), UNCHANGED apiVars
  PROVE  Conserved'
<1> DEFINE from == req[c].from
           to == req[c].to
           n == req[c].amount
<1>1. /\ from \in Ids /\ to \in Ids /\ n \in Int
      /\ accounts[from] \in Rows /\ accounts[to] \in Rows
      /\ accounts[from].currency = accounts[to].currency
  <2>1. CallInv(c) /\ req[c] # NoRequest /\ req[c] \in L!Requests
    BY DEF APIInv, L!Post
  <2>2. from \in Ids /\ to \in Ids /\ n \in Int
    BY <2>1, AmountsArePositive DEF L!Requests
  <2> QED
    BY <2>1, <2>2 DEF CallInv, FromChecked, ToChecked, Ordered
<1>2. accounts' = accounts
  BY DEF apiVars, accountVars
<1>3. /\ \A i \in Ids : balance[i] \in Int
      /\ \A i \in Ids : balance'[i] = balance[i] - (IF i = from THEN n ELSE 0)
                                                 + (IF i = to THEN n ELSE 0)
  BY BalancesAreInt DEF APIInv, L!Post, L!Moved
<1> HIDE DEF from, to, n
<1>4. \A i \in Ids : accounts'[i] = NoAccount => balance'[i] = 0
  <2>1. accounts[from] # NoAccount /\ accounts[to] # NoAccount
    BY <1>1, NoRowsAreNoValues
  <2>2. ASSUME NEW i \in Ids, accounts[i] = NoAccount
        PROVE  balance[i] = 0 /\ i # from /\ i # to
    BY <2>1, <2>2 DEF Conserved
  <2> QED
    BY <1>2, <1>3, <2>2
<1>5. ASSUME NEW k \in Currencies
      PROVE  SumOf(balance', OfCurrency(accounts', k)) = 0
  <2>1. PICK S : S = OfCurrency(accounts, k)
    OBVIOUS
  <2>2. /\ IsFiniteSet(S) /\ S \subseteq Ids /\ SumOf(balance, S) = 0
        /\ \A i \in S : balance[i] \in Int
    BY <1>3, <2>1, FiniteCurrency DEF Conserved
  <2>3. from \in S <=> to \in S
    BY <1>1, <2>1, NoRowsAreNoValues DEF OfCurrency
  <2>4. CASE from = to \/ from \notin S
    <3>1. \A i \in S : balance'[i] = balance[i]
      BY <1>1, <1>3, <2>2, <2>3, <2>4
    <3> QED
      BY <1>2, <2>1, <2>2, <3>1, SumSame
  <2>5. CASE from # to /\ from \in S
    <3>1. /\ balance'[from] = balance[from] - n /\ balance'[to] = balance[to] + n
          /\ \A i \in S \ {from, to} : balance'[i] = balance[i]
      BY <1>1, <1>3, <2>2, <2>5
    <3>2. SumOf(balance', S) = SumOf(balance, S)
      BY <1>1, <2>2, <2>3, <2>5, <3>1, SumMoved
    <3> QED
      BY <1>2, <2>1, <2>2, <3>2
  <2> QED
    BY <2>4, <2>5
<1> QED
  BY <1>4, <1>5 DEF Conserved

(* Money never passes from one currency into another: the balances of each   *)
(* currency add up to 0, whatever requests and new accounts interleave.      *)
THEOREM MoneyStaysInCurrency == Spec => []CurrencyIsConserved
<1>1. Init => Conserved
  <2> SUFFICES ASSUME Init PROVE Conserved
    OBVIOUS
  <2>1. /\ \A i \in Ids : balance[i] = 0
        /\ \A k \in Currencies : OfCurrency(accounts, k) = {}
    BY DEF Init, L!Init, OfCurrency
  <2> QED
    BY <2>1, SumEmpty DEF Conserved
<1>2. APIInv /\ Conserved /\ [Next]_vars => Conserved'
  <2> SUFFICES ASSUME APIInv, Conserved, [Next]_vars PROVE Conserved'
    OBVIOUS
  <2>1. ASSUME UNCHANGED <<balance, accounts>> PROVE Conserved'
    BY <2>1 DEF Conserved
  <2>2. ASSUME NEW c \in Calls, \/ Receive(c) \/ CheckFrom(c) \/ CheckTo(c) \/ CheckFails(c)
                                \/ CallTransferTx(c) \/ AnswerTransfer(c)
        PROVE  UNCHANGED <<balance, accounts>>
    BY <2>2 DEF Receive, CheckFrom, CheckTo, CheckFails, CallTransferTx, AnswerTransfer,
                L!Request, ledgerVars, accountVars
  <2>3. ASSUME NEW c \in Calls, Store(c) PROVE Conserved'
    BY <2>1, <2>3, PostConserves DEF Store, L!Succeed, L!Fail, apiVars, accountVars
  <2>4. CASE UNCHANGED vars
    BY <2>1, <2>4 DEF vars, ledgerVars, apiVars, accountVars
  <2>5. CASE AccountStep
    BY <2>1, <2>5, NewAccountConserves DEF AccountStep, CreateAccount, ledgerVars, accountVars
  <2> QED
    BY <2>1, <2>2, <2>3, <2>4, <2>5 DEF Next
<1>3. Conserved => CurrencyIsConserved
  BY DEF Conserved, CurrencyIsConserved, SumOf, OfCurrency, Exists
<1> QED
  BY <1>1, <1>2, <1>3, APIInvariant, PTL DEF Spec

=============================================================================
