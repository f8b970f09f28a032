---------------------------- MODULE MCTransferTx ----------------------------
(* Instances of TransferTx for TLC.                                         *)
EXTENDS TransferTx, TLC

(* The calls are interchangeable; so are not the accounts, whose ids are     *)
(* compared.                                                                 *)
CallSymmetry == Permutations(Calls)

(* The bigint column cut down to a range that two transfers reach the end of.*)
LeastBalance == -2

=============================================================================
