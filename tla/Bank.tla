-------------------------------- MODULE Bank --------------------------------
(***************************************************************************)
(* createTransfer and createAccount (package api) over the real            *)
(* Store.TransferTx: the handlers of TransferAPI call the transaction of   *)
(* TransferTx, statement by statement, instead of the one-step Ledger.     *)
(* The two modules share the tables and the arguments and answer of a      *)
(* call; the handler's call of the store is the one step they take         *)
(* together.                                                               *)
(***************************************************************************)
EXTENDS TransferAPI

CONSTANTS PoolSize  \* connections of the pgxpool.Pool

VARIABLES pc, held, newTransfers, newEntries, draft, result  \* as in TransferTx

Tx == INSTANCE TransferTx WITH Accounts <- Ids

txVars == <<pc, held, newTransfers, newEntries, draft, result>>
bankVars == <<vars, txVars>>

ASSUME PoolIsUsable == PoolSize \in Nat \ {0}

-----------------------------------------------------------------------------

BankInit == Init /\ Tx!Init

(* The handler runs while no statement of its own does.                      *)
Handler(c) ==
  /\ Receive(c) \/ CheckFrom(c) \/ CheckTo(c) \/ CheckFails(c) \/ AnswerTransfer(c)
  /\ UNCHANGED txVars

(* server.store.TransferTx(ctx, arg).                                        *)
CallStore(c) == Tx!Call(c) /\ CallTransferTx(c)

(* The transaction and its connection, while the handler waits or after a    *)
(* lost connection has let it go on.                                         *)
StoreStep(c) ==
  /\ Tx!Step(c) \/ Tx!ConnLost(c) \/ Tx!Abort(c)
  /\ UNCHANGED apiVars

BankNext ==
  \/ AccountStep /\ UNCHANGED txVars
  \/ \E c \in Calls : Handler(c) \/ CallStore(c) \/ StoreStep(c)

BankSpec == BankInit /\ [][BankNext]_bankVars

-----------------------------------------------------------------------------
(***************************************************************************)
(* Properties, besides those of TransferAPI, which have to hold here too.  *)
(***************************************************************************)

(* The handlers over the transaction, its locks and its failures do no more  *)
(* than the handlers over the one-step ledger.                               *)
ImplementsAPI == Spec

(* What the handler has read of the two accounts, in statements of their     *)
(* own, still holds when its transaction has a row locked or is committed.   *)
ChecksStillHold ==
  \A c \in Calls : held[c] # {} \/ L!Posted(c) =>
    /\ Valid(c, form[c].from) /\ OwnsFrom(c)
    /\ Valid(c, form[c].to)

(* A client that gets 200 finds the transfer it has asked for in the tables, *)
(* once, with its two entries and no other; for one that a check has refused *)
(* the store is never called.                                                *)
RowsAskedFor(c) ==
  LET f == form[c]
  IN [transfers |-> {[id |-> c, from |-> f.from, to |-> f.to, amount |-> f.amount]},
      entries |-> {[id |-> <<c, "from">>, account |-> f.from, amount |-> -f.amount],
                   [id |-> <<c, "to">>, account |-> f.to, amount |-> f.amount]}]

Receipt ==
  \A c \in Calls :
    /\ status[c] = 200 =>
         /\ {t \in transfers : t.id = c} = RowsAskedFor(c).transfers
         /\ {e \in entries : e.id[1] = c} = RowsAskedFor(c).entries
    /\ status[c] \in {400, 401, 404} => req[c] = NoRequest

=============================================================================
