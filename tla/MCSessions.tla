----------------------------- MODULE MCSessions -----------------------------
(* Instances of Sessions for TLC.                                           *)
EXTENDS Sessions, TLC

(* Logins, renewals, users and passwords are interchangeable.                *)
NameSymmetry ==
  Permutations(Logins) \cup Permutations(Renewals) \cup Permutations(Users)
  \cup Permutations(Passwords)

=============================================================================
