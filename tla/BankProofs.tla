----------------------------- MODULE BankProofs -----------------------------
(***************************************************************************)
(* What is proved of the transaction and of the handlers, each on its own, *)
(* holds of the two together, for any calls, owners, currencies, amounts,  *)
(* accounts and connections: the composition takes no step that either of  *)
(* them does not allow.                                                    *)
(***************************************************************************)
EXTENDS Bank, TransferAPIProofs

(* The theorems of the transaction, over the ids of the accounts table.      *)
TP == INSTANCE TransferTxProofs WITH Accounts <- Ids

(* They assume this of the constants.                                        *)
LEMMA TxAssumptions ==
  /\ MaxId \in Nat /\ Ids \subseteq 1..MaxId
  /\ \A x \in Amounts : x \in Nat /\ x > 0
  /\ MinBalance \in Int /\ MaxBalance \in Int
  /\ 0 \in MinBalance..MaxBalance
  /\ NoRequest \notin TP!L!Requests
  /\ PoolSize \in Nat \ {0}
BY IdBound, AmountsArePositive, ZeroFits, NoRowsAreNoValues, PoolIsUsable
DEF Ids, L!Requests, TP!L!Requests

-----------------------------------------------------------------------------
(* The transaction under the handlers is the transaction.                    *)

LEMMA SameInit == Tx!Init <=> TP!Init
BY DEF Tx!Init, TP!Init, Tx!L!Init, TP!L!Init

LEMMA SameStatement ==
  ASSUME NEW c, NEW s, NEW n
  PROVE  Tx!Statement(c, s, n) <=> TP!Statement(c, s, n)
BY DEF Tx!Statement, TP!Statement, Tx!Running, TP!Running,
       Tx!Granted, TP!Granted, Tx!Grantable, TP!Grantable, Tx!Wanted, TP!Wanted,
       Tx!Conflicts, TP!Conflicts, Tx!Modes, TP!Modes,
       Tx!ReferenceMode, TP!ReferenceMode, Tx!BalanceMode, TP!BalanceMode,
       Tx!Leg, TP!Leg, Tx!FirstLeg, TP!FirstLeg, Tx!SecondLeg, TP!SecondLeg,
       Tx!FromLeg, TP!FromLeg, Tx!ToLeg, TP!ToLeg

LEMMA SameUpdate ==
  ASSUME NEW c
  PROVE  Tx!AddAccountBalance(c) <=> TP!AddAccountBalance(c)
BY DEF Tx!AddAccountBalance, TP!AddAccountBalance, Tx!Current, TP!Current,
       Tx!Written, TP!Written, Tx!BalanceMode, TP!BalanceMode,
       Tx!L!Bigint, TP!L!Bigint,
       Tx!Leg, TP!Leg, Tx!FirstLeg, TP!FirstLeg, Tx!SecondLeg, TP!SecondLeg,
       Tx!FromLeg, TP!FromLeg, Tx!ToLeg, TP!ToLeg

LEMMA SameCardinality ==
  ASSUME NEW S
  PROVE  Tx!Cardinality(S) = TP!Cardinality(S)
BY DEF Tx!Cardinality, TP!Cardinality

LEMMA SameStep ==
  ASSUME NEW c
  PROVE  Tx!Step(c) <=> TP!Step(c)
<1>1. Tx!Begin(c) <=> TP!Begin(c)
  <2>1. Tx!InUse = TP!InUse
    BY DEF Tx!InUse, TP!InUse, Tx!InTransaction, TP!InTransaction
  <2>2. Tx!Cardinality(Tx!InUse) = TP!Cardinality(TP!InUse)
    BY <2>1, SameCardinality
  <2> QED
    BY <2>2 DEF Tx!Begin, TP!Begin, Tx!Running, TP!Running
<1>2. /\ Tx!CreateTransfer(c) <=> TP!CreateTransfer(c)
      /\ Tx!CreateFromEntry(c) <=> TP!CreateFromEntry(c)
      /\ Tx!CreateToEntry(c) <=> TP!CreateToEntry(c)
  BY SameStatement
  DEF Tx!CreateTransfer, TP!CreateTransfer, Tx!CreateFromEntry, TP!CreateFromEntry,
      Tx!CreateToEntry, TP!CreateToEntry, Tx!L!TransferRow, TP!L!TransferRow,
      Tx!L!FromEntry, TP!L!FromEntry, Tx!L!ToEntry, TP!L!ToEntry
<1>3. /\ Tx!UpdateFirst(c) <=> TP!UpdateFirst(c)
      /\ Tx!UpdateSecond(c) <=> TP!UpdateSecond(c)
  BY SameStatement, SameUpdate
  DEF Tx!UpdateFirst, TP!UpdateFirst, Tx!UpdateSecond, TP!UpdateSecond
<1>4. Tx!OutOfRange(c) <=> TP!OutOfRange(c)
  BY DEF Tx!OutOfRange, TP!OutOfRange, Tx!Running, TP!Running,
         Tx!Current, TP!Current, Tx!Written, TP!Written,
         Tx!BalanceMode, TP!BalanceMode, Tx!L!Bigint, TP!L!Bigint,
         Tx!Leg, TP!Leg, Tx!FirstLeg, TP!FirstLeg, Tx!SecondLeg, TP!SecondLeg,
         Tx!FromLeg, TP!FromLeg, Tx!ToLeg, TP!ToLeg
<1>5. Tx!Commit(c) <=> TP!Commit(c)
  BY DEF Tx!Commit, TP!Commit, Tx!Current, TP!Current, Tx!Written, TP!Written,
         Tx!BalanceMode, TP!BalanceMode
<1>6. Tx!Rollback(c) <=> TP!Rollback(c)
  BY DEF Tx!Rollback, TP!Rollback, Tx!Running, TP!Running,
         Tx!EndAborted, TP!EndAborted
<1>7. Tx!ReturnOk(c) <=> TP!ReturnOk(c)
  BY DEF Tx!ReturnOk, TP!ReturnOk, Tx!Running, TP!Running, Tx!txVars, TP!txVars
<1> QED
  BY <1>1, <1>2, <1>3, <1>4, <1>5, <1>6, <1>7 DEF Tx!Step, TP!Step

LEMMA SameCall ==
  ASSUME NEW c
  PROVE  Tx!Call(c) <=> TP!Call(c)
BY DEF Tx!Call, TP!Call, Tx!L!Requests, TP!L!Requests

LEMMA SameFailure ==
  ASSUME NEW c
  PROVE  /\ Tx!ConnLost(c) <=> TP!ConnLost(c)
         /\ Tx!Abort(c) <=> TP!Abort(c)
BY DEF Tx!ConnLost, TP!ConnLost, Tx!Abort, TP!Abort, Tx!Running, TP!Running,
       Tx!InTransaction, TP!InTransaction, Tx!EndAborted, TP!EndAborted,
       Tx!txVars, TP!txVars

LEMMA SameVars == Tx!vars = TP!vars
BY DEF Tx!vars, TP!vars, Tx!txVars, TP!txVars

LEMMA SameNext == Tx!Next <=> TP!Next
<1>1. Tx!Terminating <=> TP!Terminating
  BY DEF Tx!Terminating, TP!Terminating, Tx!Finished, TP!Finished,
         Tx!vars, TP!vars, Tx!txVars, TP!txVars
<1> QED
  BY <1>1, SameStep, SameCall, SameFailure DEF Tx!Next, TP!Next

LEMMA SameLedger ==
  ASSUME NEW c
  PROVE  /\ TP!L!Post(c) <=> L!Post(c)
         /\ TP!L!Succeed(c) <=> L!Succeed(c)
         /\ TP!L!Fail(c) <=> L!Fail(c)
BY DEF TP!L!Post, L!Post, TP!L!Succeed, L!Succeed, TP!L!Fail, L!Fail,
       TP!L!Posted, L!Posted, TP!L!Moved, L!Moved, TP!L!Bigint, L!Bigint,
       TP!L!TransferRow, L!TransferRow, TP!L!FromEntry, L!FromEntry,
       TP!L!ToEntry, L!ToEntry

-----------------------------------------------------------------------------
(* Every step of the two together is, for the transaction, a step of its own *)
(* or nothing.                                                               *)

LEMMA HandlerLeavesLedger ==
  ASSUME \/ \E c \in Calls : Handler(c)
         \/ AccountStep /\ UNCHANGED txVars
  PROVE  UNCHANGED <<ledgerVars, txVars>>
BY DEF Handler, AccountStep, CreateAccount, EndCreateAccount, Receive, CheckFrom, CheckTo, CheckFails, AnswerTransfer

LEMMA StepOfTx == [BankNext]_bankVars => [TP!Next]_TP!vars
<1>1. ASSUME UNCHANGED <<ledgerVars, txVars>> PROVE UNCHANGED TP!vars
  BY <1>1 DEF ledgerVars, txVars, TP!vars, TP!txVars
<1>2. ASSUME NEW c \in Calls, CallStore(c) PROVE TP!Next
  BY <1>2, SameCall DEF CallStore, TP!Next
<1>3. ASSUME NEW c \in Calls, StoreStep(c) PROVE TP!Next
  BY <1>3, SameStep, SameFailure DEF StoreStep, TP!Next
<1>4. CASE UNCHANGED bankVars
  BY <1>1, <1>4 DEF bankVars, vars
<1> QED
  BY <1>1, <1>2, <1>3, <1>4, HandlerLeavesLedger DEF BankNext

LEMMA TxUnderBank == BankSpec => TP!Spec
<1>1. BankInit => TP!Init
  BY SameInit DEF BankInit
<1> QED
  BY <1>1, StepOfTx, PTL DEF BankSpec, TP!Spec

LEMMA TxInvariantOfBank == BankSpec => []TP!TxInv
BY TxUnderBank, TP!TxInvariant, TxAssumptions, PTL

(* The handlers leave the transaction what it is under any caller.           *)
THEOREM TransactionIsKept == BankSpec => Tx!Spec
<1>1. Tx!Init <=> TP!Init
  BY SameInit
<1>2. [TP!Next]_TP!vars => [Tx!Next]_Tx!vars
  BY SameNext, SameVars DEF Tx!vars, TP!vars, Tx!txVars, TP!txVars
<1> QED
  BY <1>1, <1>2, TxUnderBank, PTL DEF Tx!Spec, TP!Spec

-----------------------------------------------------------------------------
(* For the handlers it is a step of TransferAPI or nothing: the statements   *)
(* of a transaction show only as the posting and the answer of Ledger.       *)

LEMMA StoreStepRefines ==
  ASSUME TP!TxInv, NEW c \in Calls, StoreStep(c)
  PROVE  (\E d \in Calls : Store(d)) \/ UNCHANGED vars
<1>1. [TP!Next]_TP!vars
  BY SameStep, SameFailure DEF StoreStep, TP!Next
<1>2. [TP!L!Next]_TP!L!ledgerVars
  BY <1>1, TP!StepRefines, TxAssumptions
<1>3. UNCHANGED req
  BY DEF StoreStep, Tx!Step, Tx!Begin, Tx!CreateTransfer, Tx!CreateFromEntry,
         Tx!CreateToEntry, Tx!UpdateFirst, Tx!UpdateSecond, Tx!Statement,
         Tx!OutOfRange, Tx!Commit, Tx!Rollback, Tx!EndAborted, Tx!ReturnOk,
         Tx!ConnLost, Tx!Abort
<1>4. ASSUME NEW d \in Calls, TP!L!Request(d) PROVE FALSE
  <2>1. req \in [Calls -> TP!L!Requests \cup {NoRequest}]
    BY DEF TP!TxInv, TP!TypeOK
  <2>2. PICK r \in TP!L!Requests : req' = [req EXCEPT ![d] = r]
    BY <1>4 DEF TP!L!Request
  <2>3. req'[d] = r /\ r # NoRequest
    BY <2>1, <2>2, TxAssumptions
  <2> QED
    BY <1>3, <1>4, <2>3 DEF TP!L!Request
<1>5. CASE UNCHANGED TP!L!ledgerVars
  BY <1>5 DEF StoreStep, TP!L!ledgerVars, vars, ledgerVars
<1>6. ASSUME NEW d \in Calls, TP!L!Post(d) \/ TP!L!Succeed(d) \/ TP!L!Fail(d)
      PROVE  Store(d)
  BY <1>6, SameLedger DEF StoreStep, Store
<1> QED
  BY <1>2, <1>4, <1>5, <1>6 DEF TP!L!Next

LEMMA StepOfAPI == TP!TxInv /\ [BankNext]_bankVars => [Next]_vars
<1> SUFFICES ASSUME TP!TxInv, [BankNext]_bankVars PROVE [Next]_vars
  OBVIOUS
<1>1. ASSUME NEW c \in Calls, Handler(c) PROVE Next
  BY <1>1 DEF Handler, Next
<1>2. ASSUME NEW c \in Calls, CallStore(c) PROVE Next
  BY <1>2 DEF CallStore, Next
<1>3. ASSUME NEW c \in Calls, StoreStep(c) PROVE [Next]_vars
  BY <1>3, StoreStepRefines DEF Next
<1>4. CASE UNCHANGED bankVars
  BY <1>4 DEF bankVars, vars
<1>5. CASE AccountStep
  BY <1>5 DEF Next
<1> QED
  BY <1>1, <1>2, <1>3, <1>4, <1>5 DEF BankNext

(* createTransfer and createAccount over the transaction of the code, with   *)
(* its locks, its pool and its failures, do no more than over the one-step   *)
(* ledger.                                                                   *)
THEOREM Refinement == BankSpec => ImplementsAPI
<1>1. BankInit => Init
  BY DEF BankInit
<1> QED
  BY <1>1, StepOfAPI, TxInvariantOfBank, PTL DEF BankSpec, Spec, ImplementsAPI

(* So the answers, owners, accounts and currencies are right in the whole.   *)
THEOREM HandlersAreSafe ==
  BankSpec => [](/\ TypeOK /\ CurrencyIsConserved /\ OnlyOwnersPay
                 /\ OneAccountPerCurrency /\ StatusIsTrue)
BY Refinement, TypeCorrect, MoneyStaysInCurrency, DebitsAreOrdered,
   AccountsAreUnique, AnswersAreTrue, PTL DEF ImplementsAPI

(* And the tables balance and no transfers wait for each other for ever,     *)
(* whatever the handlers ask for.                                            *)
THEOREM TransactionIsSafe ==
  BankSpec => [](/\ Tx!NoDeadlock /\ Tx!WaitsCanEnd
                 /\ Tx!DoubleEntry /\ Tx!BalanceIsSumOfEntries)
<1>1. TP!NoDeadlock /\ TP!WaitsCanEnd => Tx!NoDeadlock /\ Tx!WaitsCanEnd
  BY DEF TP!NoDeadlock, Tx!NoDeadlock, TP!WaitsFor, Tx!WaitsFor,
         TP!WaitsCanEnd, Tx!WaitsCanEnd, TP!InTransaction, Tx!InTransaction,
         TP!Granted, Tx!Granted, TP!Grantable, Tx!Grantable,
         TP!Wanted, Tx!Wanted, TP!Modes, Tx!Modes, TP!Conflicts, Tx!Conflicts,
         TP!ReferenceMode, Tx!ReferenceMode, TP!BalanceMode, Tx!BalanceMode,
         TP!Leg, Tx!Leg, TP!FirstLeg, Tx!FirstLeg, TP!SecondLeg, Tx!SecondLeg,
         TP!FromLeg, Tx!FromLeg, TP!ToLeg, Tx!ToLeg
<1>2. TP!DoubleEntry => Tx!DoubleEntry
  BY DEF TP!DoubleEntry, Tx!DoubleEntry
<1>3. TP!BalanceIsSumOfEntries => Tx!BalanceIsSumOfEntries
  BY DEF TP!BalanceIsSumOfEntries, Tx!BalanceIsSumOfEntries,
         TP!MapThenSumSet, Tx!MapThenSumSet, TP!MapThenFoldSet, Tx!MapThenFoldSet
<1> QED
  BY <1>1, <1>2, <1>3, TxUnderBank, TP!DeadlockFree, TP!OpenTransactionsGoOn,
     TP!EntriesArePaired, TP!BooksBalance, TxAssumptions, PTL

-----------------------------------------------------------------------------
(* What relates the request of a handler to the rows of its transaction: a   *)
(* transfer in the table is that of a call, with its arguments.              *)

RowsOfCalls ==
  \A t \in transfers :
    t.id \in Calls /\ req[t.id] # NoRequest /\ t = L!TransferRow(t.id)

BankInv == APIInv /\ TP!TxInv /\ RowsOfCalls

LEMMA BankInvInit == BankInit => BankInv
<1> SUFFICES ASSUME BankInit PROVE BankInv
  OBVIOUS
<1>1. APIInv
  BY InvInit DEF BankInit
<1>2. TP!TxInv
  BY SameInit, TP!InvInit, TxAssumptions DEF BankInit
<1>3. RowsOfCalls
  BY DEF BankInit, Init, L!Init, RowsOfCalls
<1> QED
  BY <1>1, <1>2, <1>3 DEF BankInv

(* A call that has been made keeps its arguments.                            *)
LEMMA RequestKept ==
  ASSUME BankInv, [BankNext]_bankVars, NEW c \in Calls, req[c] # NoRequest
  PROVE  req'[c] = req[c]
<1>0. req \in [Calls -> L!Requests \cup {NoRequest}]
  BY DEF BankInv, APIInv
<1>1. [Next]_vars
  BY StepOfAPI DEF BankInv
<1>2. ASSUME NEW d \in Calls, CallTransferTx(d) PROVE req'[c] = req[c]
  BY <1>0, <1>2 DEF CallTransferTx, L!Request
<1>3. ASSUME NEW d \in Calls, Store(d) PROVE UNCHANGED req
  BY <1>3 DEF Store, L!Post, L!Succeed, L!Fail
<1>4. ASSUME NEW d \in Calls, Receive(d) \/ CheckFrom(d) \/ CheckTo(d)
               \/ CheckFails(d) \/ AnswerTransfer(d)
      PROVE  UNCHANGED req
  BY <1>4 DEF Receive, CheckFrom, CheckTo, CheckFails, AnswerTransfer, ledgerVars
<1>5. ASSUME AccountStep PROVE UNCHANGED req
  BY <1>5 DEF AccountStep, CreateAccount, EndCreateAccount, ledgerVars
<1>6. CASE UNCHANGED vars
  BY <1>6 DEF vars, ledgerVars
<1> QED
  BY <1>1, <1>2, <1>3, <1>4, <1>5, <1>6 DEF Next

LEMMA RowsKept ==
  ASSUME BankInv, [BankNext]_bankVars
  PROVE  RowsOfCalls'
<1>1. [Next]_vars
  BY StepOfAPI DEF BankInv
<1>2. ASSUME NEW c \in Calls, L!Post(c), NEW t \in transfers'
      PROVE  t \in transfers \/ (t = L!TransferRow(c) /\ req[c] # NoRequest)
  BY <1>2 DEF L!Post
<1>3. ASSUME NEW t \in transfers' \ transfers
      PROVE  \E c \in Calls : t = L!TransferRow(c) /\ req[c] # NoRequest
  <2>1. ASSUME NEW d \in Calls, CallTransferTx(d) \/ Receive(d) \/ CheckFrom(d)
                 \/ CheckTo(d) \/ CheckFails(d) \/ AnswerTransfer(d)
        PROVE  FALSE
    BY <2>1 DEF CallTransferTx, L!Request, Receive, CheckFrom, CheckTo, CheckFails,
                AnswerTransfer, ledgerVars
  <2>2. ASSUME AccountStep PROVE FALSE
    BY <2>2 DEF AccountStep, CreateAccount, EndCreateAccount, ledgerVars
  <2>3. ASSUME NEW d \in Calls, L!Succeed(d) \/ L!Fail(d) PROVE FALSE
    BY <2>3 DEF L!Succeed, L!Fail
  <2>4. CASE UNCHANGED vars
    BY <2>4 DEF vars, ledgerVars
  <2> QED
    BY <1>1, <1>2, <2>1, <2>2, <2>3, <2>4 DEF Next, Store
<1> SUFFICES ASSUME NEW t \in transfers'
             PROVE  t.id \in Calls /\ req'[t.id] # NoRequest /\ t = L!TransferRow(t.id)'
  BY DEF RowsOfCalls
<1>4. PICK c \in Calls : t = L!TransferRow(c) /\ req[c] # NoRequest
  BY <1>3 DEF BankInv, RowsOfCalls
<1>5. t.id = c /\ req'[c] = req[c]
  BY <1>4, RequestKept DEF L!TransferRow
<1> QED
  BY <1>4, <1>5 DEF L!TransferRow

LEMMA BankInvNext == BankInv /\ [BankNext]_bankVars => BankInv'
<1> SUFFICES ASSUME BankInv, [BankNext]_bankVars PROVE BankInv'
  OBVIOUS
<1>1. APIInv'
  BY StepOfAPI, InvNext DEF BankInv
<1>2. TP!TxInv'
  BY StepOfTx, TP!InvNext, TxAssumptions DEF BankInv
<1> QED
  BY <1>1, <1>2, RowsKept DEF BankInv

(* The two inductive invariants hold together, and the table of transfers    *)
(* joins them.                                                               *)
THEOREM BankInvariant == BankSpec => []BankInv
BY BankInvInit, BankInvNext, PTL DEF BankSpec

(* No transaction locks or posts what the checks of its handler, made before *)
(* it began, would not accept at that moment.                                *)
THEOREM ChecksAreNeverStale == BankSpec => []ChecksStillHold
<1>1. ASSUME BankInv, TP!WaitsCanEnd, NEW c \in Calls, held[c] # {} \/ L!Posted(c)
      PROVE  /\ Valid(c, form[c].from) /\ OwnsFrom(c)
             /\ Valid(c, form[c].to)
  <2>1. req[c] # NoRequest
    <3>1. CASE held[c] # {}
      BY <1>1, <3>1
      DEF TP!WaitsCanEnd, TP!InTransaction, BankInv, TP!TxInv, TP!TypeOK
    <3>2. CASE L!Posted(c)
      BY <1>1, <3>2 DEF BankInv, RowsOfCalls, L!Posted
    <3> QED
      BY <1>1, <3>1, <3>2
  <2>2. FromChecked(form[c]) /\ ToChecked(form[c])
    BY <1>1, <2>1 DEF BankInv, APIInv, CallInv
  <2> QED
    BY <2>2, NoRowsAreNoValues
    DEF FromChecked, ToChecked, Valid, Exists, InCurrency, OwnsFrom
<1>2. BankInv /\ TP!WaitsCanEnd => ChecksStillHold
  BY <1>1 DEF ChecksStillHold
<1> QED
  BY <1>2, BankInvariant, TxUnderBank, TP!OpenTransactionsGoOn, TxAssumptions, PTL

(* Who is answered 200 has the transfer asked for, whole and once; who is    *)
(* refused has none.                                                         *)
THEOREM ReceiptIsTrue == BankSpec => []Receipt
<1>1. ASSUME BankInv, TP!DoubleEntry, NEW c \in Calls, status[c] = 200
      PROVE  /\ {t \in transfers : t.id = c} = {L!TransferRow(c)}
             /\ {e \in entries : e.id[1] = c} = {L!FromEntry(c), L!ToEntry(c)}
             /\ L!TransferRow(c) = [id |-> c, from |-> form[c].from, to |-> form[c].to,
                                    amount |-> form[c].amount]
             /\ L!FromEntry(c) = [id |-> <<c, "from">>, account |-> form[c].from,
                                  amount |-> -form[c].amount]
             /\ L!ToEntry(c) = [id |-> <<c, "to">>, account |-> form[c].to,
                                amount |-> form[c].amount]
  <2>1. \A t \in transfers : t = L!TransferRow(t.id)
    BY <1>1 DEF BankInv, RowsOfCalls
  <2>2. L!Posted(c)
    BY <1>1 DEF BankInv, APIInv, CallInv
  <2>3. L!TransferRow(c) \in transfers /\ L!TransferRow(c).id = c
    BY <2>1, <2>2 DEF L!Posted, L!TransferRow
  <2>4. req[c] = Ordered(form[c])
    BY <1>1, <2>2 DEF BankInv, APIInv, CallInv, RowsOfCalls, L!Posted
  <2>5. {t \in transfers : t.id = c} = {L!TransferRow(c)}
    BY <2>1, <2>3
  <2>6. \A e \in entries : \E t \in transfers :
          \/ e = [id |-> <<t.id, "from">>, account |-> t.from, amount |-> -t.amount]
          \/ e = [id |-> <<t.id, "to">>, account |-> t.to, amount |-> t.amount]
    BY <1>1 DEF TP!DoubleEntry
  <2>7. ASSUME NEW e \in entries, e.id[1] = c
        PROVE  e \in {L!FromEntry(c), L!ToEntry(c)}
    <3>1. PICK t \in transfers :
            \/ e = [id |-> <<t.id, "from">>, account |-> t.from, amount |-> -t.amount]
            \/ e = [id |-> <<t.id, "to">>, account |-> t.to, amount |-> t.amount]
      BY <2>6
    <3>2. t.id = c
      BY <2>7, <3>1
    <3>3. t = L!TransferRow(c)
      BY <2>1, <3>2
    <3> QED
      BY <3>1, <3>3 DEF L!TransferRow, L!FromEntry, L!ToEntry
  <2>8. L!FromEntry(c) \in entries /\ L!ToEntry(c) \in entries
    <3> DEFINE Pair(t) == {[id |-> <<t.id, "from">>, account |-> t.from, amount |-> -t.amount],
                           [id |-> <<t.id, "to">>, account |-> t.to, amount |-> t.amount]}
    <3>1. entries = UNION {Pair(t) : t \in transfers}
      BY <1>1 DEF TP!DoubleEntry
    <3>2. Pair(L!TransferRow(c)) = {L!FromEntry(c), L!ToEntry(c)}
      BY DEF L!TransferRow, L!FromEntry, L!ToEntry
    <3> HIDE DEF Pair
    <3>3. Pair(L!TransferRow(c)) \subseteq entries
      BY <2>3, <3>1
    <3> QED
      BY <3>2, <3>3
  <2>9. L!FromEntry(c).id[1] = c /\ L!ToEntry(c).id[1] = c
    BY DEF L!FromEntry, L!ToEntry
  <2>10. {e \in entries : e.id[1] = c} = {L!FromEntry(c), L!ToEntry(c)}
    BY <2>7, <2>8, <2>9
  <2> QED
    BY <2>4, <2>5, <2>10 DEF Ordered, L!TransferRow, L!FromEntry, L!ToEntry
<1>2. ASSUME BankInv, NEW c \in Calls, status[c] \in {400, 401, 404}
      PROVE  req[c] = NoRequest
  BY <1>2 DEF BankInv, APIInv, CallInv
<1>3. BankInv /\ TP!DoubleEntry => Receipt
  BY <1>1, <1>2 DEF Receipt, RowsAskedFor
<1> QED
  BY <1>3, BankInvariant, TxUnderBank, TP!EntriesArePaired, TxAssumptions, PTL

=============================================================================
