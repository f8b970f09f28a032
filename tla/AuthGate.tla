------------------------------ MODULE AuthGate ------------------------------
(***************************************************************************)
(* What the web frontend promises about being signed in, without forms,    *)
(* requests, timers or a router: somebody is signed in only for an account *)
(* the bank has, the private screen is shown only to them, whoever is      *)
(* signed in gets to it, and it is left only by signing out.               *)
(***************************************************************************)
CONSTANTS Users, Nobody

VARIABLES
  accounts,  \* the users the bank knows
  who,       \* the user who is signed in, or Nobody
  screen     \* "public" (sign in, register, profile) or "private" (dashboard)

vars == <<accounts, who, screen>>

TypeOK ==
  /\ accounts \subseteq Users
  /\ who \in Users \cup {Nobody}
  /\ screen \in {"public", "private"}

Init ==
  /\ accounts \subseteq Users
  /\ who = Nobody
  /\ screen = "public"

OpenAccount ==
  /\ \E u \in Users : accounts' = accounts \cup {u}
  /\ UNCHANGED <<who, screen>>

(* Also over somebody who is signed in already.                             *)
SignIn ==
  /\ who' \in accounts
  /\ UNCHANGED <<accounts, screen>>

Enter ==
  /\ who # Nobody
  /\ screen' = "private"
  /\ UNCHANGED <<accounts, who>>

SignOut ==
  /\ who' = Nobody
  /\ screen' = "public"
  /\ UNCHANGED accounts

Next == OpenAccount \/ SignIn \/ Enter \/ SignOut

Spec == Init /\ [][Next]_vars /\ WF_vars(Enter)
=============================================================================
