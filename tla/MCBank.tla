------------------------------- MODULE MCBank -------------------------------
(* Instances of Bank for TLC.                                               *)
EXTENDS Bank, TLC

\* A .cfg file has no negative numbers.
Least == -1

Symmetry == Permutations(Calls) \cup Permutations(Owners) \cup Permutations(Currencies)

=============================================================================
