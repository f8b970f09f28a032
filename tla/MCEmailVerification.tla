-------------------------- MODULE MCEmailVerification --------------------------
(* Instances of EmailVerification for TLC.                                  *)
EXTENDS EmailVerification, TLC

(* Registrations, clicks, usernames and addresses are interchangeable.       *)
NameSymmetry == Permutations(Registrations) \cup Permutations(Clicks)
                \cup Permutations(Users) \cup Permutations(Emails)

=============================================================================
