-------------------------- MODULE TransferTxProofs --------------------------
(***************************************************************************)
(* Theorems about TransferTx, for every set of calls, accounts and amounts *)
(* and every size of the pool.                                             *)
(***************************************************************************)
EXTENDS TransferTx, Sums

-----------------------------------------------------------------------------
(* Facts about a request and its two legs.                                   *)

LEMMA AccountsAreNat ==
  \A a \in Accounts : a \in Nat /\ a <= MaxId
BY AccountIds

LEMMA LegTypes ==
  ASSUME NEW r \in L!Requests
  PROVE  /\ FirstLeg(r).account \in Accounts
         /\ SecondLeg(r).account \in Accounts
         /\ FirstLeg(r).amount \in Int
         /\ SecondLeg(r).amount \in Int
         /\ FirstLeg(r).side \in {"from", "to"}
         /\ SecondLeg(r).side \in {"from", "to"}
BY PositiveAmounts DEF L!Requests, FirstLeg, SecondLeg, FromLeg, ToLeg

(* The order of the two updates, from the comparison in TransferTx.          *)
LEMMA LegOrder ==
  ASSUME NEW r \in L!Requests
  PROVE  /\ FirstLeg(r).account <= SecondLeg(r).account
         /\ FirstLeg(r).account = SecondLeg(r).account <=> r.from = r.to
BY AccountsAreNat DEF L!Requests, FirstLeg, SecondLeg, FromLeg, ToLeg

(* The locks a statement asks for name accounts and modes.                   *)
LEMMA WantedType ==
  ASSUME TypeOK, NEW c \in Calls, pc[c] # "idle"
  PROVE  /\ req[c] \in L!Requests
         /\ Wanted(c) \subseteq Accounts \X {"KeyShare", "NoKeyUpdate"}
<1>1. req[c] \in L!Requests
  BY DEF TypeOK
<1>2. req[c].from \in Accounts /\ req[c].to \in Accounts
  BY <1>1 DEF L!Requests
<1>3. Leg(c).account \in Accounts
  BY <1>1, LegTypes DEF Leg
<1> QED
  BY <1>1, <1>2, <1>3 DEF Wanted, ReferenceMode, BalanceMode

-----------------------------------------------------------------------------
(* Every variable keeps its type.                                            *)

LEMMA TypeInit == Init => TypeOK
BY BalanceRange, NotARequest
DEF Init, L!Init, TypeOK, Stages, InTransaction, L!Bigint

LEMMA RowTypes ==
  ASSUME NEW c \in Calls, req[c] \in L!Requests
  PROVE  /\ L!TransferRow(c) \in Transfers
         /\ L!FromEntry(c) \in Entries
         /\ L!ToEntry(c) \in Entries
BY PositiveAmounts
DEF L!Requests, L!TransferRow, L!FromEntry, L!ToEntry, Transfers, Entries

LEMMA StatementType ==
  ASSUME TypeOK, NEW c \in Calls, NEW statement \in InTransaction,
         NEW next \in InTransaction, Statement(c, statement, next)
  PROVE  /\ req' \in [Calls -> L!Requests \cup {NoRequest}]
         /\ reply' \in [Calls -> {"none", "ok", "err"}]
         /\ balance' \in [Accounts -> L!Bigint]
         /\ pc' \in [Calls -> Stages]
         /\ \A d \in Calls : (pc'[d] = "idle") <=> (req'[d] = NoRequest)
         /\ held' \in [Calls -> SUBSET (Accounts \X Modes)]
         /\ transfers' \subseteq Transfers
         /\ entries' \subseteq Entries
<1>1. Wanted(c) \subseteq Accounts \X Modes
  BY WantedType DEF Statement, Running, InTransaction, Modes
<1> QED
  BY <1>1 DEF TypeOK, Statement, Running, Stages, InTransaction

LEMMA TypeNext == TypeOK /\ [Next]_vars => TypeOK'
<1> SUFFICES ASSUME TypeOK, [Next]_vars PROVE TypeOK'
  OBVIOUS
<1>1. ASSUME NEW c \in Calls, Call(c) PROVE TypeOK'
  BY <1>1, NotARequest DEF Call, TypeOK, Stages, InTransaction
<1>2. ASSUME NEW c \in Calls, Begin(c) PROVE TypeOK'
  BY <1>2 DEF Begin, Running, TypeOK, Stages, InTransaction
<1>3. ASSUME NEW c \in Calls, CreateTransfer(c) PROVE TypeOK'
  <2>1. Statement(c, "transfer", "fromEntry") /\ pc[c] = "transfer"
    BY <1>3 DEF CreateTransfer, Statement, Running
  <2>2. L!TransferRow(c) \in Transfers
    BY <2>1, WantedType, RowTypes
  <2> QED
    BY <1>3, <2>1, <2>2, StatementType DEF CreateTransfer, TypeOK, InTransaction
<1>4. ASSUME NEW c \in Calls, CreateFromEntry(c) \/ CreateToEntry(c) PROVE TypeOK'
  <2>1. CASE CreateFromEntry(c)
    <3>1. Statement(c, "fromEntry", "toEntry") /\ pc[c] = "fromEntry"
      BY <2>1 DEF CreateFromEntry, Statement, Running
    <3>2. L!FromEntry(c) \in Entries
      BY <3>1, WantedType, RowTypes
    <3> QED
      BY <2>1, <3>1, <3>2, StatementType DEF CreateFromEntry, TypeOK, InTransaction
  <2>2. CASE CreateToEntry(c)
    <3>1. Statement(c, "toEntry", "update1") /\ pc[c] = "toEntry"
      BY <2>2 DEF CreateToEntry, Statement, Running
    <3>2. L!ToEntry(c) \in Entries
      BY <3>1, WantedType, RowTypes
    <3> QED
      BY <2>2, <3>1, <3>2, StatementType DEF CreateToEntry, TypeOK, InTransaction
  <2> QED
    BY <1>4, <2>1, <2>2
<1>5. ASSUME NEW c \in Calls, UpdateFirst(c) \/ UpdateSecond(c) PROVE TypeOK'
  <2>1. /\ pc[c] # "idle"
        /\ \/ Statement(c, "update1", "update2")
           \/ Statement(c, "update2", "commit")
        /\ AddAccountBalance(c)
    BY <1>5 DEF UpdateFirst, UpdateSecond, Statement, Running
  <2>2. Leg(c).account \in Accounts /\ Leg(c).side \in {"from", "to"}
    BY <2>1, WantedType, LegTypes DEF Leg
  <2>3. PICK new \in L!Bigint :
          /\ draft' = [draft EXCEPT ![c][Leg(c).account] = new]
          /\ result' = [result EXCEPT ![c][Leg(c).side] = new]
          /\ UNCHANGED <<newTransfers, newEntries>>
    BY <2>1 DEF AddAccountBalance
  <2>4. draft' \in [Calls -> [Accounts -> L!Bigint]]
    BY <2>2, <2>3 DEF TypeOK
  <2>5. result' \in [Calls -> [from: L!Bigint, to: L!Bigint]]
    BY <2>2, <2>3 DEF TypeOK
  <2> QED
    BY <2>1, <2>3, <2>4, <2>5, StatementType DEF TypeOK, InTransaction
<1>6. ASSUME NEW c \in Calls, OutOfRange(c) PROVE TypeOK'
  BY <1>6 DEF OutOfRange, Running, TypeOK, Stages, InTransaction
<1>7. ASSUME NEW c \in Calls, Commit(c) PROVE TypeOK'
  <2>1. \A a \in Accounts : Current(c, a) \in L!Bigint
    BY DEF Current, TypeOK
  <2>2. balance' \in [Accounts -> L!Bigint]
    BY <1>7, <2>1 DEF Commit
  <2> QED
    BY <1>7, <2>2 DEF Commit, TypeOK, Stages, InTransaction
<1>8. ASSUME NEW c \in Calls, Rollback(c) \/ Abort(c) PROVE TypeOK'
  BY <1>8 DEF Rollback, Abort, EndAborted, Running, TypeOK, Stages, InTransaction
<1>9. ASSUME NEW c \in Calls, ReturnOk(c) \/ ConnLost(c) PROVE TypeOK'
  BY <1>9 DEF ReturnOk, ConnLost, TypeOK, txVars
<1>10. CASE UNCHANGED vars
  BY <1>10 DEF vars, txVars, TypeOK
<1> QED
  BY <1>1, <1>2, <1>3, <1>4, <1>5, <1>6, <1>7, <1>8, <1>9, <1>10
  DEF Next, Step, Terminating

(* The variables of TransferTx have their types in every reachable state: in *)
(* particular no balance leaves the range of its bigint column.              *)
THEOREM TypeCorrect == Spec => []TypeOK
BY TypeInit, TypeNext, PTL DEF Spec

-----------------------------------------------------------------------------
(* How the accounts a call has written change.                               *)

LEMMA WrittenDef ==
  ASSUME NEW c \in Calls
  PROVE  /\ Written(c) = {a \in Accounts : <<a, BalanceMode>> \in held[c]}
         /\ Written(c)' = {a \in Accounts : <<a, BalanceMode>> \in held'[c]}
BY DEF Written, BalanceMode

LEMMA WrittenSame ==
  ASSUME NEW c \in Calls, held'[c] = held[c]
  PROVE  Written(c)' = Written(c)
BY DEF Written, BalanceMode

(* The statements before the updates lock only what they reference.          *)
LEMMA WrittenByStatement ==
  ASSUME TypeOK, NEW c \in Calls, NEW statement, NEW next,
         statement \in {"transfer", "fromEntry", "toEntry", "update1", "update2"},
         Statement(c, statement, next)
  PROVE  /\ \A d \in Calls \ {c} : held'[d] = held[d]
         /\ statement \in {"update1", "update2"} =>
              Written(c)' = Written(c) \cup {Leg(c).account}
         /\ statement \notin {"update1", "update2"} => Written(c)' = Written(c)
         /\ \A a \in Accounts : <<a, "Update">> \in held'[c] => <<a, "Update">> \in held[c]
<1>1. /\ pc[c] = statement
      /\ held' = [held EXCEPT ![c] = held[c] \cup Wanted(c)]
  BY DEF Statement, Running
<1>2. held'[c] = held[c] \cup Wanted(c)
  BY <1>1 DEF TypeOK
<1>3. \A d \in Calls \ {c} : held'[d] = held[d]
  BY <1>1 DEF TypeOK
<1>4. Wanted(c) \subseteq Accounts \X {"KeyShare", "NoKeyUpdate"}
  BY <1>1, WantedType
<1>5. \A a \in Accounts : <<a, "Update">> \in held'[c] => <<a, "Update">> \in held[c]
  BY <1>2, <1>4
<1>6. CASE statement \in {"update1", "update2"}
  <2>1. Wanted(c) = {<<Leg(c).account, BalanceMode>>}
    BY <1>1, <1>6 DEF Wanted
  <2>2. Leg(c).account \in Accounts
    BY <1>1, <1>6, WantedType, LegTypes DEF Leg
  <2>3. \A a \in Accounts : <<a, BalanceMode>> \in held'[c]
                           <=> <<a, BalanceMode>> \in held[c] \/ a = Leg(c).account
    BY <1>2, <2>1
  <2>4. Written(c)' = Written(c) \cup {Leg(c).account}
    BY <2>2, <2>3, WrittenDef, Zenon
  <2> QED
    BY <1>3, <1>5, <1>6, <2>4
<1>7. CASE statement \in {"transfer", "fromEntry", "toEntry"}
  <2>1. \A a \in Accounts : <<a, BalanceMode>> \notin Wanted(c)
    BY <1>1, <1>7 DEF Wanted, BalanceMode, ReferenceMode
  <2>2. Written(c)' = Written(c)
    BY <1>2, <2>1, WrittenDef
  <2> QED
    BY <1>3, <1>5, <1>7, <2>2
<1> QED
  BY <1>6, <1>7

(* An account that an update of c is granted has no other writer.            *)
LEMMA GrantedAlone ==
  ASSUME TypeOK, NEW c \in Calls, pc[c] \in {"update1", "update2"}, Granted(c)
  PROVE  \A d \in Calls \ {c} : Leg(c).account \notin Written(d)
<1>1. Grantable(c, Leg(c).account, BalanceMode)
  BY DEF Granted, Wanted
<1> QED
  BY <1>1 DEF Grantable, Written, Conflicts, BalanceMode, Modes

-----------------------------------------------------------------------------
(* A step of one call leaves the others' part of the invariant alone.        *)

Same(d) ==
  /\ req'[d] = req[d] /\ pc'[d] = pc[d] /\ held'[d] = held[d]
  /\ newTransfers'[d] = newTransfers[d] /\ newEntries'[d] = newEntries[d]
  /\ draft'[d] = draft[d] /\ result'[d] = result[d]

LEMMA StageFrame ==
  ASSUME NEW d \in Calls, StageOf(d), Same(d)
  PROVE  StageOf(d)'
<1>1. Written(d)' = Written(d)
  BY WrittenSame DEF Same
<1> QED
  BY <1>1 DEF StageOf, Same, L!TransferRow, L!FromEntry, L!ToEntry

LEMMA LegsCover ==
  ASSUME NEW r \in L!Requests
  PROVE  {FirstLeg(r).account, SecondLeg(r).account} = {r.from, r.to}
BY DEF FirstLeg, SecondLeg, FromLeg, ToLeg

LEMMA DraftFrame ==
  ASSUME TypeOK, NEW d \in Calls, StageOf(d), DraftOf(d), Same(d),
         balance' \in [Accounts -> L!Bigint],
         \A a \in Written(d) : balance'[a] = balance[a]
  PROVE  DraftOf(d)'
<1>1. Written(d)' = Written(d)
  BY WrittenSame DEF Same
<1>2. CASE pc[d] = "update2"
  <2>1. req[d] \in L!Requests
    BY <1>2, WantedType
  <2>2. Written(d) = {FirstLeg(req[d]).account}
    BY <1>2 DEF StageOf
  <2>3. balance'[FirstLeg(req[d]).account] = balance[FirstLeg(req[d]).account]
    BY <2>2
  <2> QED
    BY <1>2, <2>3 DEF DraftOf, Same
<1>3. CASE pc[d] = "commit"
  <2>1. req[d] \in L!Requests
    BY <1>3, WantedType
  <2>2. Written(d) = {req[d].from, req[d].to}
    BY <1>3, <2>1, LegsCover DEF StageOf
  <2>3. req[d].from \in Accounts /\ req[d].to \in Accounts
    BY <2>1 DEF L!Requests
  <2>4. /\ balance'[req[d].from] = balance[req[d].from]
        /\ balance'[req[d].to] = balance[req[d].to]
    BY <2>2
  <2>5. \A a \in Accounts : Current(d, a)' = L!Moved(d)'[a]
    <3>1. TAKE a \in Accounts
    <3>2. Current(d, a) = L!Moved(d)[a]
      BY <1>3 DEF DraftOf
    <3>3. CASE a \in Written(d)
      BY <1>1, <2>2, <2>3, <2>4, <3>2, <3>3 DEF Current, L!Moved, Same, TypeOK
    <3>4. CASE a \notin Written(d)
      <4>1. balance'[a] \in Int
        BY BalanceRange DEF L!Bigint
      <4>2. a # req[d].from /\ a # req[d].to
        BY <2>2, <3>4
      <4>3. Current(d, a)' = balance'[a]
        BY <1>1, <3>4 DEF Current
      <4>4. L!Moved(d)'[a] = balance'[a] - 0 + 0
        BY <4>2 DEF L!Moved, Same
      <4> QED
        BY <4>1, <4>3, <4>4
    <3> QED
      BY <3>3, <3>4
  <2>6. req[d].from # req[d].to => \A side \in {"from", "to"} :
          result'[d][side] = L!Moved(d)'[req'[d][side]]
    BY <1>3, <2>3, <2>4 DEF DraftOf, L!Moved, Same, TypeOK
  <2> QED
    BY <1>3, <2>5, <2>6 DEF DraftOf, L!Moved, Same
<1> QED
  BY <1>2, <1>3 DEF DraftOf, Same

(* What is left to prove of a step of call c.                                *)
LEMMA OneCallMoves ==
  ASSUME TxInv, TypeOK', NEW c \in Calls,
         \A d \in Calls \ {c} : Same(d),
         \A d \in Calls \ {c} : \A a \in Written(d) : balance'[a] = balance[a],
         StageOf(c)', DraftOf(c)',
         \A d \in Calls \ {c} : Written(c)' \cap Written(d) = {},
         \A a \in Accounts : <<a, "Update">> \notin held'[c],
         PostedAtCommit'
  PROVE  TxInv'
<1>1. \A d \in Calls \ {c} : Written(d)' = Written(d)
  BY WrittenSame DEF Same
<1>2. ASSUME NEW d \in Calls \ {c} PROVE StageOf(d)' /\ DraftOf(d)'
  BY <1>2, StageFrame, DraftFrame DEF TxInv, TypeOK
<1>3. OneWriter'
  BY <1>1 DEF OneWriter, TxInv
<1>4. \A d \in Calls : \A a \in Accounts : <<a, "Update">> \notin held'[d]
  BY DEF TxInv, Same
<1> QED
  BY <1>2, <1>3, <1>4 DEF TxInv

-----------------------------------------------------------------------------
(* Each kind of step keeps the invariant.                                    *)

LEMMA InvInit == Init => TxInv
<1> SUFFICES ASSUME Init PROVE TxInv
  OBVIOUS
<1>1. \A c \in Calls : Written(c) = {}
  BY DEF Init, Written
<1> QED
  BY <1>1, TypeInit
  DEF Init, L!Init, TxInv, StageOf, DraftOf, OneWriter, PostedAtCommit, L!Posted,
      InTransaction, Updating

(* A step that changes no row, lock or transaction of c but moves it on.     *)
LEMMA InvMove ==
  ASSUME TxInv, TypeOK', NEW c \in Calls,
         Call(c) \/ Begin(c) \/ OutOfRange(c)
  PROVE  TxInv'
<1>0. TypeOK /\ StageOf(c) /\ DraftOf(c) /\ OneWriter /\ PostedAtCommit
  BY DEF TxInv
<1>1. \A d \in Calls \ {c} : Same(d)
  BY <1>0 DEF Call, Begin, OutOfRange, Same, TypeOK
<1>2. /\ held' = held /\ balance' = balance /\ transfers' = transfers
      /\ reply' = reply /\ newTransfers' = newTransfers /\ newEntries' = newEntries
      /\ pc'[c] \in {"begin", "transfer", "rollback"}
      /\ pc[c] \in {"idle", "begin", "update1", "update2"}
      /\ pc'[c] = "rollback" <=> pc[c] \in {"update1", "update2"}
      /\ pc'[c] = "rollback" => req' = req
  BY <1>0 DEF Call, Begin, OutOfRange, Running, TypeOK
<1>3. Written(c)' = Written(c)
  BY <1>2, WrittenSame
<1>4. StageOf(c)'
  BY <1>0, <1>2, <1>3
  DEF StageOf, InTransaction, Updating, L!TransferRow, L!FromEntry, L!ToEntry
<1>5. DraftOf(c)'
  BY <1>2 DEF DraftOf
<1>6. PostedAtCommit'
  BY <1>0, <1>1, <1>2 DEF PostedAtCommit, L!Posted, Same
<1> QED
  BY <1>0, <1>1, <1>2, <1>3, <1>4, <1>5, <1>6, OneCallMoves DEF TxInv, OneWriter

(* An INSERT.                                                                *)
LEMMA InvInsert ==
  ASSUME TxInv, TypeOK', NEW c \in Calls,
         CreateTransfer(c) \/ CreateFromEntry(c) \/ CreateToEntry(c)
  PROVE  TxInv'
<1>0. TypeOK /\ StageOf(c) /\ DraftOf(c) /\ OneWriter /\ PostedAtCommit
  BY DEF TxInv
<1>1. PICK statement \in {"transfer", "fromEntry", "toEntry"},
           next \in {"fromEntry", "toEntry", "update1"} :
        /\ Statement(c, statement, next)
        /\ statement = "transfer" <=> CreateTransfer(c)
        /\ statement = "fromEntry" <=> CreateFromEntry(c)
        /\ statement = "toEntry" <=> CreateToEntry(c)
  BY DEF CreateTransfer, CreateFromEntry, CreateToEntry, Statement, Running
<1>2. /\ \A d \in Calls \ {c} : held'[d] = held[d]
      /\ Written(c)' = Written(c)
      /\ \A a \in Accounts : <<a, "Update">> \in held'[c] => <<a, "Update">> \in held[c]
  BY <1>0, <1>1, WrittenByStatement
<1>3. /\ pc[c] = statement /\ pc'[c] = next
      /\ \A d \in Calls \ {c} : pc'[d] = pc[d]
      /\ UNCHANGED <<req, reply, balance, transfers, entries>>
  BY <1>0, <1>1 DEF Statement, Running, TypeOK
<1>4. \A d \in Calls \ {c} : Same(d)
  BY <1>0, <1>2, <1>3
  DEF CreateTransfer, CreateFromEntry, CreateToEntry, Same, TypeOK
<1>5. Written(c) = {}
  BY <1>0, <1>3 DEF StageOf
<1>6. StageOf(c)'
  <2>1. CASE CreateTransfer(c)
    BY <1>0, <1>2, <1>3, <1>5, <2>1
    DEF CreateTransfer, Statement, Running, StageOf, InTransaction, Updating, TypeOK, L!TransferRow
  <2>2. CASE CreateFromEntry(c)
    BY <1>0, <1>2, <1>3, <1>5, <2>2
    DEF CreateFromEntry, Statement, Running, StageOf, InTransaction, Updating, TypeOK,
        L!TransferRow, L!FromEntry
  <2>3. CASE CreateToEntry(c)
    BY <1>0, <1>2, <1>3, <1>5, <2>3
    DEF CreateToEntry, Statement, Running, StageOf, InTransaction, Updating, TypeOK,
        L!TransferRow, L!FromEntry, L!ToEntry
  <2> QED
    BY <2>1, <2>2, <2>3
<1>7. DraftOf(c)'
  BY <1>3 DEF DraftOf
<1>8. PostedAtCommit'
  BY <1>0, <1>3 DEF PostedAtCommit, L!Posted
<1> QED
  BY <1>2, <1>3, <1>4, <1>5, <1>6, <1>7, <1>8, OneCallMoves DEF TxInv

(* The two updates; in a transfer from an account to itself the second reads *)
(* what the first has written.                                               *)
LEMMA InvUpdateFirst ==
  ASSUME TxInv, TypeOK', NEW c \in Calls, UpdateFirst(c)
  PROVE  TxInv'
<1> DEFINE first == FirstLeg(req[c])
           second == SecondLeg(req[c])
           new == balance[first.account] + first.amount
<1>0. TypeOK /\ StageOf(c) /\ DraftOf(c) /\ OneWriter /\ PostedAtCommit
  BY DEF TxInv
<1>1. /\ Statement(c, "update1", "update2") /\ Granted(c)
      /\ pc[c] = "update1" /\ pc'[c] = "update2"
      /\ \A d \in Calls \ {c} : pc'[d] = pc[d]
      /\ UNCHANGED <<req, reply, balance, transfers, entries>>
  BY <1>0 DEF UpdateFirst, Statement, Running, TypeOK
<1>2. /\ \A d \in Calls \ {c} : held'[d] = held[d]
      /\ Written(c)' = Written(c) \cup {Leg(c).account}
      /\ \A a \in Accounts : <<a, "Update">> \in held'[c] => <<a, "Update">> \in held[c]
  BY <1>0, <1>1, WrittenByStatement
<1>3. Written(c) = {} /\ Leg(c) = first
  BY <1>0, <1>1 DEF StageOf, Leg
<1>4. first.account \in Accounts /\ first.side \in {"from", "to"}
  BY <1>0, <1>1, WantedType, LegTypes
<1>5. /\ draft' = [draft EXCEPT ![c][first.account] = new]
      /\ result' = [result EXCEPT ![c][first.side] = new]
      /\ UNCHANGED <<newTransfers, newEntries>>
  BY <1>3, <1>4 DEF UpdateFirst, AddAccountBalance, Current
<1>6. \A d \in Calls \ {c} : Same(d)
  BY <1>0, <1>1, <1>2, <1>5 DEF Same, TypeOK
<1>7. StageOf(c)'
  BY <1>0, <1>1, <1>2, <1>3, <1>5
  DEF StageOf, InTransaction, Updating, L!TransferRow, L!FromEntry, L!ToEntry
<1>8. DraftOf(c)'
  BY <1>0, <1>1, <1>4, <1>5 DEF DraftOf, TypeOK
<1>9. PostedAtCommit'
  BY <1>0, <1>1 DEF PostedAtCommit, L!Posted
<1>10. \A d \in Calls \ {c} : Written(c)' \cap Written(d) = {}
  BY <1>0, <1>1, <1>2, <1>3, GrantedAlone
<1> QED
  BY <1>1, <1>2, <1>6, <1>7, <1>8, <1>9, <1>10, OneCallMoves DEF TxInv

LEMMA InvUpdateSecond ==
  ASSUME TxInv, TypeOK', NEW c \in Calls, UpdateSecond(c)
  PROVE  TxInv'
<1> DEFINE first == FirstLeg(req[c])
           second == SecondLeg(req[c])
           new == Current(c, second.account) + second.amount
<1>0. TypeOK /\ StageOf(c) /\ DraftOf(c) /\ OneWriter /\ PostedAtCommit
  BY DEF TxInv
<1>1. /\ Statement(c, "update2", "commit") /\ Granted(c)
      /\ pc[c] = "update2" /\ pc'[c] = "commit"
      /\ \A d \in Calls \ {c} : pc'[d] = pc[d]
      /\ UNCHANGED <<req, reply, balance, transfers, entries>>
  BY <1>0 DEF UpdateSecond, Statement, Running, TypeOK
<1>2. /\ \A d \in Calls \ {c} : held'[d] = held[d]
      /\ Written(c)' = Written(c) \cup {Leg(c).account}
      /\ \A a \in Accounts : <<a, "Update">> \in held'[c] => <<a, "Update">> \in held[c]
  BY <1>0, <1>1, WrittenByStatement
<1>3. Written(c) = {first.account} /\ Leg(c) = second
  BY <1>0, <1>1 DEF StageOf, Leg
<1>4. /\ req[c] \in L!Requests
      /\ first.account \in Accounts /\ first.side \in {"from", "to"}
      /\ second.account \in Accounts /\ second.side \in {"from", "to"}
      /\ first.amount \in Int /\ second.amount \in Int
  BY <1>0, <1>1, WantedType, LegTypes
<1>5. /\ draft' = [draft EXCEPT ![c][second.account] = new]
      /\ result' = [result EXCEPT ![c][second.side] = new]
      /\ UNCHANGED <<newTransfers, newEntries>>
  BY <1>3 DEF UpdateSecond, AddAccountBalance
<1>6. \A d \in Calls \ {c} : Same(d)
  BY <1>0, <1>1, <1>2, <1>5 DEF Same, TypeOK
<1>7. StageOf(c)'
  BY <1>0, <1>1, <1>2, <1>3, <1>5
  DEF StageOf, InTransaction, Updating, L!TransferRow, L!FromEntry, L!ToEntry
<1>8. DraftOf(c)'
  <2>1. Written(c)' = {first.account, second.account}
    BY <1>2, <1>3
  <2>2. /\ draft[c][first.account] = balance[first.account] + first.amount
        /\ result[c][first.side] = balance[first.account] + first.amount
    BY <1>0, <1>1 DEF DraftOf
  <2>3. /\ draft'[c] = [draft[c] EXCEPT ![second.account] = new]
        /\ result'[c] = [result[c] EXCEPT ![second.side] = new]
    BY <1>0, <1>5 DEF TypeOK
  <2>4. new = IF second.account = first.account
              THEN draft[c][first.account] + second.amount
              ELSE balance[second.account] + second.amount
    BY <1>3 DEF Current
  <2>5. balance[first.account] \in Int /\ balance[second.account] \in Int
    BY <1>0, <1>4, BalanceRange DEF TypeOK, L!Bigint
  <2>6. /\ req[c].from \in Accounts /\ req[c].to \in Accounts /\ req[c].amount \in Int
        /\ balance[req[c].from] \in Int /\ balance[req[c].to] \in Int
    BY <1>0, <1>4, PositiveAmounts, BalanceRange DEF L!Requests, TypeOK, L!Bigint
  <2>7. \A a \in Accounts : Current(c, a)' = L!Moved(c)[a]
    <3>1. TAKE a \in Accounts
    <3>2. Current(c, a)' = IF a \in {first.account, second.account}
                           THEN draft'[c][a] ELSE balance[a]
      BY <1>1, <2>1 DEF Current
    <3>3. draft'[c][a] = IF a = second.account THEN new ELSE draft[c][a]
      BY <1>0, <1>4, <2>3 DEF TypeOK
    <3>4. balance[a] \in Int
      BY <1>0, BalanceRange DEF TypeOK, L!Bigint
    <3>5. L!Moved(c)[a] = balance[a] - (IF a = req[c].from THEN req[c].amount ELSE 0)
                                   + (IF a = req[c].to THEN req[c].amount ELSE 0)
      BY DEF L!Moved
    <3>6. CASE req[c].from < req[c].to
      <4>1. /\ first.account = req[c].from /\ first.amount = -req[c].amount
            /\ second.account = req[c].to /\ second.amount = req[c].amount
        BY <3>6 DEF FirstLeg, SecondLeg, FromLeg, ToLeg
      <4> QED
        BY <2>2, <2>4, <2>5, <2>6, <3>2, <3>3, <3>4, <3>5, <4>1
    <3>7. CASE ~(req[c].from < req[c].to)
      <4>1. /\ first.account = req[c].to /\ first.amount = req[c].amount
            /\ second.account = req[c].from /\ second.amount = -req[c].amount
        BY <3>7 DEF FirstLeg, SecondLeg, FromLeg, ToLeg
      <4> QED
        BY <2>2, <2>4, <2>5, <2>6, <3>2, <3>3, <3>4, <3>5, <4>1
    <3> QED
      BY <3>6, <3>7
  <2>8. req[c].from # req[c].to => \A side \in {"from", "to"} :
          result'[c][side] = L!Moved(c)[req[c][side]]
    BY <1>0, <1>4, <2>2, <2>3, <2>4, <2>5, <2>6
    DEF L!Moved, TypeOK, FirstLeg, SecondLeg, FromLeg, ToLeg
  <2>9. L!Moved(c)' = L!Moved(c)
    BY <1>1 DEF L!Moved
  <2> QED
    BY <1>1, <2>7, <2>8, <2>9 DEF DraftOf
<1>9. PostedAtCommit'
  BY <1>0, <1>1 DEF PostedAtCommit, L!Posted
<1>10. \A d \in Calls \ {c} : Written(c)' \cap Written(d) = {}
  BY <1>0, <1>1, <1>2, <1>3, GrantedAlone DEF OneWriter
<1> QED
  BY <1>1, <1>2, <1>6, <1>7, <1>8, <1>9, <1>10, OneCallMoves DEF TxInv

(* The COMMIT: the accounts of the other open transactions stay as they are. *)
LEMMA InvCommit ==
  ASSUME TxInv, TypeOK', NEW c \in Calls, Commit(c)
  PROVE  TxInv'
<1>0. TypeOK /\ StageOf(c) /\ DraftOf(c) /\ OneWriter /\ PostedAtCommit
  BY DEF TxInv
<1>1. /\ pc[c] = "commit" /\ pc'[c] = "committed" /\ held'[c] = {}
      /\ \A d \in Calls \ {c} : pc'[d] = pc[d]
      /\ UNCHANGED <<req, reply>>
  BY <1>0 DEF Commit, TypeOK
<1>2. \A d \in Calls \ {c} : Same(d)
  BY <1>0 DEF Commit, Same, TypeOK
<1>3. \A d \in Calls \ {c} : \A a \in Written(d) : balance'[a] = balance[a]
  BY <1>0 DEF Commit, Current, OneWriter, Written
<1>4. Written(c)' = {}
  BY <1>1 DEF Written
<1>5. StageOf(c)' /\ DraftOf(c)'
  BY <1>1, <1>4 DEF StageOf, DraftOf, InTransaction, Updating
<1>6. PostedAtCommit'
  <2>1. transfers' = transfers \cup {L!TransferRow(c)}
    BY <1>0, <1>1 DEF Commit, StageOf, InTransaction
  <2>2. L!TransferRow(c).id = c
    BY DEF L!TransferRow
  <2>3. L!Posted(c)' /\ \A d \in Calls \ {c} : L!Posted(d)' <=> L!Posted(d)
    BY <2>1, <2>2 DEF L!Posted
  <2> QED
    BY <1>0, <1>1, <2>3 DEF PostedAtCommit
<1> QED
  BY <1>1, <1>2, <1>3, <1>4, <1>5, <1>6, OneCallMoves

(* The end of a transaction without a COMMIT.                                *)
LEMMA InvAborted ==
  ASSUME TxInv, TypeOK', NEW c \in Calls, Rollback(c) \/ Abort(c)
  PROVE  TxInv'
<1>0. TypeOK /\ StageOf(c) /\ DraftOf(c) /\ OneWriter /\ PostedAtCommit
  BY DEF TxInv
<1>1. /\ pc[c] \in InTransaction /\ pc'[c] = "aborted" /\ held'[c] = {}
      /\ \A d \in Calls \ {c} : pc'[d] = pc[d] /\ reply'[d] = reply[d]
      /\ reply'[c] = "err"
      /\ UNCHANGED <<balance, transfers>>
  BY <1>0 DEF Rollback, Abort, EndAborted, Running, InTransaction, TypeOK
<1>2. \A d \in Calls \ {c} : Same(d)
  BY <1>0 DEF Rollback, Abort, EndAborted, Same, TypeOK
<1>3. Written(c)' = {}
  BY <1>1 DEF Written
<1>4. StageOf(c)' /\ DraftOf(c)'
  BY <1>1, <1>3 DEF StageOf, DraftOf, InTransaction, Updating
<1>5. PostedAtCommit'
  BY <1>0, <1>1 DEF PostedAtCommit, L!Posted, InTransaction
<1> QED
  BY <1>1, <1>2, <1>3, <1>4, <1>5, OneCallMoves

(* An answer.                                                                *)
LEMMA InvAnswer ==
  ASSUME TxInv, TypeOK', NEW c \in Calls, ReturnOk(c) \/ ConnLost(c)
  PROVE  TxInv'
<1>0. TypeOK /\ OneWriter /\ PostedAtCommit
  BY DEF TxInv
<1>1. UNCHANGED <<req, balance, transfers, entries, txVars>>
  BY DEF ReturnOk, ConnLost
<1>2. \A d \in Calls : Same(d)
  BY <1>1 DEF Same, txVars
<1>3. \A d \in Calls : StageOf(d)' /\ DraftOf(d)'
  BY <1>0, <1>1, <1>2, StageFrame, DraftFrame DEF TxInv, TypeOK
<1>4. PostedAtCommit'
  BY <1>0, <1>1 DEF PostedAtCommit, L!Posted, txVars, ReturnOk, ConnLost, Running, TypeOK
<1>5. OneWriter'
  BY <1>0, <1>2, WrittenSame DEF OneWriter, Same
<1> QED
  BY <1>1, <1>3, <1>4, <1>5 DEF TxInv, txVars

LEMMA InvNext == TxInv /\ [Next]_vars => TxInv'
<1> SUFFICES ASSUME TxInv, [Next]_vars PROVE TxInv'
  OBVIOUS
<1>1. TypeOK'
  BY TypeNext DEF TxInv
<1>2. CASE UNCHANGED vars
  BY <1>2
  DEF vars, txVars, TxInv, TypeOK, StageOf, DraftOf, OneWriter, PostedAtCommit,
      Written, Current, L!Posted, L!Moved, L!TransferRow, L!FromEntry, L!ToEntry
<1>3. ASSUME NEW c \in Calls, Call(c) \/ Step(c) \/ ConnLost(c) \/ Abort(c)
      PROVE  TxInv'
  BY <1>1, <1>3, InvMove, InvInsert, InvUpdateFirst, InvUpdateSecond, InvCommit,
     InvAborted, InvAnswer
  DEF Step
<1> QED
  BY <1>2, <1>3 DEF Next, Terminating

(* The strengthened invariant holds in every reachable state.                *)
THEOREM TxInvariant == Spec => []TxInv
BY InvInit, InvNext, PTL DEF Spec

-----------------------------------------------------------------------------
(* Lock waits follow the order of the account ids.                           *)

LEMMA WaitsForWriter ==
  ASSUME TxInv, NEW c \in Calls, NEW d \in Calls, WaitsFor(c, d)
  PROVE  /\ pc[c] \in {"update1", "update2"}
         /\ Leg(c).account \in Written(d)
<1>1. PICK l \in Wanted(c), m \in Modes :
        <<l[1], m>> \in held[d] /\ Conflicts(l[2], m)
  BY DEF WaitsFor
<1>2. pc[c] # "idle"
  BY <1>1 DEF Wanted
<1>3. /\ Wanted(c) \subseteq Accounts \X {"KeyShare", "NoKeyUpdate"}
      /\ l[1] \in Accounts
  BY <1>1, <1>2, WantedType DEF TxInv
<1>4. m # "Update"
  BY <1>1, <1>3 DEF TxInv
<1>5. l[2] = "NoKeyUpdate" /\ m = "NoKeyUpdate"
  BY <1>1, <1>3, <1>4 DEF Conflicts
<1>6. pc[c] \in {"update1", "update2"} /\ l[1] = Leg(c).account
  BY <1>1, <1>5 DEF Wanted, ReferenceMode
<1> QED
  BY <1>1, <1>3, <1>5, <1>6 DEF Written, BalanceMode

LEMMA WaitsUpwards ==
  ASSUME TxInv, NEW c \in Calls, NEW d \in Calls, NEW e \in Calls,
         WaitsFor(c, d), WaitsFor(d, e)
  PROVE  /\ Leg(c).account \in Accounts /\ Leg(d).account \in Accounts
         /\ Leg(c).account < Leg(d).account
<1>1. /\ pc[c] \in {"update1", "update2"} /\ pc[d] \in {"update1", "update2"}
      /\ Leg(c).account \in Written(d) /\ Leg(d).account \in Written(e)
      /\ d # e
  BY WaitsForWriter DEF WaitsFor
<1>2. req[d] \in L!Requests
  BY <1>1, WantedType DEF TxInv
<1>3. pc[d] = "update2" /\ Written(d) = {FirstLeg(req[d]).account}
  BY <1>1 DEF TxInv, StageOf
<1>4. Leg(c).account = FirstLeg(req[d]).account /\ Leg(d) = SecondLeg(req[d])
  BY <1>1, <1>3 DEF Leg
<1>5. Leg(c).account # Leg(d).account
  BY <1>1 DEF TxInv, OneWriter
<1>6. Leg(c).account \in Accounts /\ Leg(d).account \in Accounts
  BY <1>2, <1>4, LegTypes
<1> QED
  BY <1>2, <1>4, <1>5, <1>6, LegOrder, AccountsAreNat

LEMMA InvNoDeadlock == TxInv => NoDeadlock
<1> SUFFICES ASSUME TxInv, NEW S \in SUBSET Calls, S # {},
                    \A c \in S : \E d \in S : WaitsFor(c, d)
             PROVE  FALSE
  BY DEF NoDeadlock
<1> DEFINE Room(c) == MaxId - Leg(c).account
           T == {Room(c) : c \in S}
<1>1. \A c \in S : \E d \in S : /\ Leg(c).account \in Accounts
                               /\ Leg(d).account \in Accounts
                               /\ Leg(c).account < Leg(d).account
  BY WaitsUpwards
<1>2. ASSUME NEW c \in S PROVE Room(c) \in Nat
  <2>1. Leg(c).account \in Nat /\ Leg(c).account <= MaxId
    BY <1>1, AccountsAreNat
  <2>2. \A n \in Nat : n <= MaxId => MaxId - n \in Nat
    BY AccountIds
  <2> QED
    BY <2>1, <2>2
<1>3. T \subseteq Nat /\ T # {}
  BY <1>2
<1>4. PICK x \in T : \A y \in T : ~(<<y, x>> \in OpToRel(<, Nat))
  BY <1>3, NatLessThanWellFounded, WFMin
<1>5. PICK c \in S : x = Room(c)
  BY <1>3
<1>6. PICK d \in S : /\ Leg(c).account \in Accounts /\ Leg(d).account \in Accounts
                     /\ Leg(c).account < Leg(d).account
  BY <1>1
<1>7. Room(d) < Room(c) /\ Room(d) \in Nat /\ Room(c) \in Nat
  <2>1. \A m, n \in Nat : m < n => MaxId - n < MaxId - m
    BY AccountIds
  <2>2. Leg(c).account \in Nat /\ Leg(d).account \in Nat
    BY <1>6, AccountsAreNat
  <2> QED
    BY <1>2, <1>6, <2>1, <2>2
<1>8. <<Room(d), Room(c)>> \in OpToRel(<, Nat)
  BY <1>7 DEF OpToRel
<1> QED
  BY <1>4, <1>5, <1>8

(* Concurrent transfers, whatever their number and their accounts, never     *)
(* wait for each other in a cycle: the two updates go in the order of the    *)
(* account ids and the foreign keys' KEY SHARE locks block no update.        *)
THEOREM DeadlockFree == Spec => []NoDeadlock
BY TxInvariant, InvNoDeadlock, PTL

-----------------------------------------------------------------------------
(* A lock is taken by a statement of an open transaction, and the end of the *)
(* transaction gives it back.                                                *)

LocksAreOfOpen == \A c \in Calls : held[c] # {} => pc[c] \in InTransaction

LEMMA OpenInit == Init => LocksAreOfOpen
BY DEF Init, LocksAreOfOpen

LEMMA OpenNext == TypeOK /\ LocksAreOfOpen /\ [Next]_vars => LocksAreOfOpen'
<1> SUFFICES ASSUME TypeOK, LocksAreOfOpen, [Next]_vars, NEW c \in Calls, held'[c] # {}
             PROVE  pc'[c] \in InTransaction
  BY DEF LocksAreOfOpen
<1>0. pc \in [Calls -> Stages] /\ held \in [Calls -> SUBSET (Accounts \X Modes)]
  BY DEF TypeOK
<1>1. ASSUME NEW d \in Calls, NEW s, NEW n \in InTransaction, Statement(d, s, n)
      PROVE  pc'[c] \in InTransaction
  BY <1>0, <1>1 DEF Statement, LocksAreOfOpen
<1>2. ASSUME NEW d \in Calls,
             \/ CreateTransfer(d) \/ CreateFromEntry(d) \/ CreateToEntry(d)
             \/ UpdateFirst(d) \/ UpdateSecond(d)
      PROVE  pc'[c] \in InTransaction
  BY <1>1, <1>2 DEF CreateTransfer, CreateFromEntry, CreateToEntry, UpdateFirst,
                    UpdateSecond, InTransaction
<1>3. ASSUME NEW d \in Calls, Call(d) \/ Begin(d) \/ OutOfRange(d)
      PROVE  pc'[c] \in InTransaction
  BY <1>0, <1>3 DEF Call, Begin, OutOfRange, InTransaction, LocksAreOfOpen
<1>4. ASSUME NEW d \in Calls, Commit(d) \/ Rollback(d) \/ Abort(d)
      PROVE  pc'[c] \in InTransaction
  BY <1>0, <1>4 DEF Commit, Rollback, Abort, EndAborted, LocksAreOfOpen
<1>5. ASSUME NEW d \in Calls, ReturnOk(d) \/ ConnLost(d)
      PROVE  pc'[c] \in InTransaction
  BY <1>5 DEF ReturnOk, ConnLost, txVars, LocksAreOfOpen
<1>6. CASE UNCHANGED vars
  BY <1>6 DEF vars, txVars, LocksAreOfOpen
<1> QED
  BY <1>2, <1>3, <1>4, <1>5, <1>6 DEF Next, Step, Terminating

(* Whatever waits for a lock or a connection waits for an open transaction,  *)
(* and one of those is not held up by any other.                             *)
THEOREM OpenTransactionsGoOn == Spec => []WaitsCanEnd
<1>1. Spec => []LocksAreOfOpen
  BY OpenInit, OpenNext, TypeCorrect, PTL DEF Spec
<1>2. ASSUME NoDeadlock, LocksAreOfOpen, \E c \in Calls : pc[c] \in InTransaction
      PROVE  \E c \in Calls : pc[c] \in InTransaction /\ Granted(c)
  <2>1. PICK S \in SUBSET Calls : S = {c \in Calls : pc[c] \in InTransaction}
    OBVIOUS
  <2>2. PICK c \in S : \A d \in S : ~WaitsFor(c, d)
    BY <1>2, <2>1 DEF NoDeadlock
  <2>3. ASSUME NEW l \in Wanted(c), NEW d \in Calls \ {c}, NEW m \in Modes,
               <<l[1], m>> \in held[d]
        PROVE  ~Conflicts(l[2], m)
    <3>1. d \in S
      BY <1>2, <2>1, <2>3 DEF LocksAreOfOpen
    <3> QED
      BY <2>2, <2>3, <3>1 DEF WaitsFor
  <2>4. Granted(c)
    BY <2>3 DEF Granted, Grantable
  <2> QED
    BY <2>1, <2>4
<1>3. NoDeadlock /\ LocksAreOfOpen => WaitsCanEnd
  BY <1>2 DEF WaitsCanEnd, LocksAreOfOpen
<1> QED
  BY <1>1, <1>3, DeadlockFree, PTL

-----------------------------------------------------------------------------
(* The balances in the result of a transfer between two accounts are those   *)
(* its COMMIT publishes: READ COMMITTED shows it no stale row.               *)
THEOREM ResultIsCommitted == Spec => ReturnedBalancesAreCommitted
<1>1. ASSUME TxInv, [Next]_vars, NEW c \in Calls, Committing(c),
             req[c].from # req[c].to
      PROVE  ReturnsCommitted(c)
  <2>1. Commit(c)
    BY <1>1
    DEF TxInv, TypeOK, Committing, Next, Step, Terminating, vars, txVars, Call, Begin,
        CreateTransfer, CreateFromEntry, CreateToEntry, UpdateFirst, UpdateSecond,
        Statement, OutOfRange, Commit, Rollback, Abort, EndAborted, ReturnOk,
        ConnLost, Running
  <2>2. DraftOf(c) /\ req[c] \in L!Requests
    BY <1>1, WantedType DEF TxInv, Committing
  <2>3. req[c].from \in Accounts /\ req[c].to \in Accounts
    BY <2>2 DEF L!Requests
  <2> QED
    BY <1>1, <2>1, <2>2, <2>3 DEF Commit, DraftOf, ReturnsCommitted, Committing
<1>2. TxInv /\ [Next]_vars
        => [\A c \in Calls : Committing(c) /\ req[c].from # req[c].to
                               => ReturnsCommitted(c)]_vars
  BY <1>1
<1> QED
  BY <1>2, TxInvariant, PTL DEF Spec, ReturnedBalancesAreCommitted

-----------------------------------------------------------------------------
(* Every step of the transaction is a step of Ledger or changes nothing that *)
(* Ledger shows.                                                             *)

LEMMA CommitPosts ==
  ASSUME TxInv, NEW c \in Calls, Commit(c)
  PROVE  L!Post(c)
<1>0. TypeOK /\ StageOf(c) /\ DraftOf(c) /\ PostedAtCommit /\ pc[c] = "commit"
  BY DEF TxInv, Commit
<1>1. req[c] # NoRequest /\ ~L!Posted(c)
  BY <1>0 DEF TypeOK, PostedAtCommit
<1>2. balance' = L!Moved(c)
  BY <1>0 DEF Commit, DraftOf, L!Moved
<1>3. \A a \in Accounts : balance'[a] \in L!Bigint
  BY <1>0 DEF Commit, Current, TypeOK
<1>4. /\ transfers' = transfers \cup {L!TransferRow(c)}
      /\ entries' = entries \cup {L!FromEntry(c), L!ToEntry(c)}
  BY <1>0 DEF Commit, StageOf, InTransaction, Updating
<1> QED
  BY <1>1, <1>2, <1>3, <1>4 DEF Commit, L!Post

LEMMA StepRefines ==
  ASSUME TxInv, [Next]_vars
  PROVE  [L!Next]_L!ledgerVars
<1>0. TypeOK /\ PostedAtCommit
  BY DEF TxInv
<1>1. ASSUME NEW c \in Calls, Call(c) PROVE L!Request(c)
  BY <1>0, <1>1 DEF Call, L!Request, TypeOK
<1>2. ASSUME NEW c \in Calls, ReturnOk(c) PROVE L!Succeed(c)
  BY <1>0, <1>2 DEF ReturnOk, Running, L!Succeed, PostedAtCommit
<1>3. ASSUME NEW c \in Calls, Rollback(c) \/ ConnLost(c) PROVE L!Fail(c)
  BY <1>0, <1>3 DEF Rollback, EndAborted, ConnLost, Running, L!Fail, TypeOK
<1>4. ASSUME NEW c \in Calls, Begin(c) \/ CreateTransfer(c) \/ CreateFromEntry(c)
                \/ CreateToEntry(c) \/ UpdateFirst(c) \/ UpdateSecond(c)
                \/ OutOfRange(c) \/ Abort(c)
      PROVE  UNCHANGED L!ledgerVars
  BY <1>4
  DEF Begin, CreateTransfer, CreateFromEntry, CreateToEntry, UpdateFirst,
      UpdateSecond, Statement, OutOfRange, Abort, EndAborted, L!ledgerVars
<1>5. CASE UNCHANGED vars
  BY <1>5 DEF vars, L!ledgerVars
<1> QED
  BY <1>1, <1>2, <1>3, <1>4, <1>5, CommitPosts
  DEF Next, Step, Terminating, L!Next

(* The transaction implements the one-step ledger: each transfer is posted   *)
(* whole, at most once, and before it is answered "ok".                      *)
THEOREM Refinement == Spec => ImplementsLedger
<1>1. Init => L!Init
  BY DEF Init
<1> QED
  BY <1>1, StepRefines, TxInvariant, PTL DEF Spec, L!Spec, ImplementsLedger

-----------------------------------------------------------------------------
(* Double entry: only a COMMIT changes the tables, and its rows are one      *)
(* transfer with its two entries.                                            *)

LEMMA PostKeepsDoubleEntry ==
  ASSUME NEW c \in Calls, L!Post(c), DoubleEntry
  PROVE  DoubleEntry'
<1> DEFINE Legs(t) == {[id |-> <<t.id, "from">>, account |-> t.from, amount |-> -t.amount],
                       [id |-> <<t.id, "to">>, account |-> t.to, amount |-> t.amount]}
<1>1. /\ transfers' = transfers \cup {L!TransferRow(c)}
      /\ entries' = entries \cup {L!FromEntry(c), L!ToEntry(c)}
  BY DEF L!Post
<1>2. Legs(L!TransferRow(c)) = {L!FromEntry(c), L!ToEntry(c)}
  BY DEF L!TransferRow, L!FromEntry, L!ToEntry
<1>3. entries = UNION {Legs(t) : t \in transfers}
  BY DEF DoubleEntry
<1> HIDE DEF Legs
<1>4. UNION {Legs(t) : t \in transfers \cup {L!TransferRow(c)}}
        = (UNION {Legs(t) : t \in transfers}) \cup Legs(L!TransferRow(c))
  OBVIOUS
<1>5. entries' = UNION {Legs(t) : t \in transfers'}
  BY <1>1, <1>2, <1>3, <1>4
<1> QED
  BY <1>5 DEF DoubleEntry, Legs

(* Every transfer in the tables has its two entries and no entry is without  *)
(* its transfer, whatever fails on the way: the rows of a transaction are    *)
(* all there at its COMMIT, and none of them before or without it.           *)
THEOREM EntriesArePaired == Spec => []DoubleEntry
<1>1. Init => DoubleEntry
  BY DEF Init, L!Init, DoubleEntry
<1>2. TxInv /\ [Next]_vars /\ DoubleEntry => DoubleEntry'
  <2> SUFFICES ASSUME TxInv, [Next]_vars, DoubleEntry PROVE DoubleEntry'
    OBVIOUS
  <2>1. [L!Next]_L!ledgerVars
    BY StepRefines
  <2>2. ASSUME UNCHANGED <<transfers, entries>> PROVE DoubleEntry'
    BY <2>2 DEF DoubleEntry
  <2>3. ASSUME NEW c \in Calls, L!Request(c) \/ L!Succeed(c) \/ L!Fail(c)
        PROVE  UNCHANGED <<transfers, entries>>
    BY <2>3 DEF L!Request, L!Succeed, L!Fail
  <2> QED
    BY <2>1, <2>2, <2>3, PostKeepsDoubleEntry DEF L!Next, L!ledgerVars
<1> QED
  BY <1>1, <1>2, TxInvariant, PTL DEF Spec

-----------------------------------------------------------------------------
(* The books: each balance is the sum of the entries of its account.         *)

EntriesOf(rows, a) == {e \in rows : e.account = a}

Books ==
  /\ IsFiniteSet(entries)
  /\ \A a \in Accounts : balance[a] = TotalAmount(EntriesOf(entries, a))

(* A posting adds two new entries, and moves each balance by those of them   *)
(* that are on its account: by neither, one or, from an account to itself,   *)
(* both.                                                                     *)
LEMMA PostKeepsBooks ==
  ASSUME TypeOK, DoubleEntry, Books, NEW c \in Calls, L!Post(c)
  PROVE  Books'
<1> DEFINE p == L!FromEntry(c)
           q == L!ToEntry(c)
<1>1. /\ req[c] \in L!Requests
      /\ req[c].from \in Accounts /\ req[c].to \in Accounts /\ req[c].amount \in Int
  BY PositiveAmounts DEF TypeOK, L!Post, L!Requests
<1>2. /\ p.account = req[c].from /\ p.amount = -req[c].amount /\ p.amount \in Int
      /\ q.account = req[c].to /\ q.amount = req[c].amount /\ q.amount \in Int
      /\ p.id[1] = c /\ q.id[1] = c /\ p # q
  BY <1>1 DEF L!FromEntry, L!ToEntry
<1>3. p \notin entries /\ q \notin entries
  <2>1. \A e \in entries : L!Posted(e.id[1])
    BY DEF DoubleEntry, L!Posted
  <2> QED
    BY <1>2, <2>1 DEF L!Post
<1>4. entries' = (entries \cup {p}) \cup {q}
  BY DEF L!Post
<1>5. \A e \in entries : e.amount \in Int
  BY DEF TypeOK, Entries
<1>6. IsFiniteSet(entries')
  BY <1>4, FS_AddElement DEF Books
<1>7. ASSUME NEW a \in Accounts
      PROVE  balance'[a] = TotalAmount(EntriesOf(entries', a))
  <2> DEFINE S == EntriesOf(entries, a)
  <2>1. IsFiniteSet(S) /\ \A e \in S : e.amount \in Int
    BY <1>5, FS_Subset DEF EntriesOf, Books
  <2>2. p \notin S /\ q \notin S
    BY <1>3 DEF EntriesOf
  <2>3. balance[a] = TotalAmount(S) /\ balance[a] \in Int
    BY BalanceRange DEF Books, TypeOK, L!Bigint
  <2>4. balance'[a] = balance[a] - (IF a = req[c].from THEN req[c].amount ELSE 0)
                                 + (IF a = req[c].to THEN req[c].amount ELSE 0)
    BY DEF L!Post, L!Moved
  <2>5. IsFiniteSet(S \cup {p}) /\ \A e \in S \cup {p} : e.amount \in Int
    BY <1>2, <2>1, FS_AddElement
  <2>6. /\ TotalAmount(S \cup {p}) = TotalAmount(S) + p.amount
        /\ TotalAmount(S \cup {q}) = TotalAmount(S) + q.amount
    BY <1>2, <2>1, <2>2, TotalOfOneMore
  <2>7. TotalAmount((S \cup {p}) \cup {q}) = TotalAmount(S \cup {p}) + q.amount
    BY <1>2, <2>2, <2>5, TotalOfOneMore
  <2>8. EntriesOf(entries', a)
          = IF a = req[c].from
            THEN IF a = req[c].to THEN (S \cup {p}) \cup {q} ELSE S \cup {p}
            ELSE IF a = req[c].to THEN S \cup {q} ELSE S
    BY <1>2, <1>4 DEF EntriesOf
  <2> HIDE DEF S, p, q
  <2> QED
    BY <1>1, <1>2, <2>3, <2>4, <2>6, <2>7, <2>8
<1> QED
  BY <1>6, <1>7 DEF Books

(* The committed balance of an account is the sum of its committed entries:  *)
(* in no interleaving of any number of transfers, and whatever fails, is an  *)
(* update lost or applied without its entry.                                 *)
THEOREM BooksBalance == Spec => []BalanceIsSumOfEntries
<1>1. Init => Books
  <2> SUFFICES ASSUME Init PROVE Books
    OBVIOUS
  <2>1. entries = {} /\ \A a \in Accounts : balance[a] = 0
    BY DEF Init, L!Init
  <2>2. \A a \in Accounts : EntriesOf(entries, a) = {}
    BY <2>1 DEF EntriesOf
  <2> QED
    BY <2>1, <2>2, TotalOfNone, FS_EmptySet DEF Books
<1>2. TxInv /\ DoubleEntry /\ Books /\ [Next]_vars => Books'
  <2> SUFFICES ASSUME TxInv, DoubleEntry, Books, [Next]_vars PROVE Books'
    OBVIOUS
  <2>1. [L!Next]_L!ledgerVars /\ TypeOK
    BY StepRefines DEF TxInv
  <2>2. ASSUME UNCHANGED <<balance, entries>> PROVE Books'
    BY <2>2 DEF Books
  <2>3. ASSUME NEW c \in Calls, L!Request(c) \/ L!Succeed(c) \/ L!Fail(c)
        PROVE  UNCHANGED <<balance, entries>>
    BY <2>3 DEF L!Request, L!Succeed, L!Fail
  <2> QED
    BY <2>1, <2>2, <2>3, PostKeepsBooks DEF L!Next, L!ledgerVars
<1>3. Books => BalanceIsSumOfEntries
  BY DEF Books, BalanceIsSumOfEntries, TotalAmount, EntriesOf
<1> QED
  BY <1>1, <1>2, <1>3, TxInvariant, EntriesArePaired, PTL DEF Spec

=============================================================================
