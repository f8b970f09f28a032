---------------------------- MODULE Verification ----------------------------
(***************************************************************************)
(* What the verification of email addresses promises, without transactions,*)
(* tasks or retries: a link is mailed to a user who exists and for good,   *)
(* and a link that was mailed verifies its user, once, in one step.        *)
(***************************************************************************)
CONSTANTS Users, Links

VARIABLES
  registered,  \* users that exist
  mailed,      \* the links that were mailed, with their users
  used,        \* the links that were used
  verified     \* users whose email is verified

vars == <<registered, mailed, used, verified>>

TypeOK ==
  /\ registered \subseteq Users
  /\ mailed \subseteq [link : Links, user : Users]
  /\ used \subseteq Links
  /\ verified \subseteq Users

Init == registered = {} /\ mailed = {} /\ used = {} /\ verified = {}

Register(u) ==
  /\ u \notin registered
  /\ registered' = registered \cup {u}
  /\ UNCHANGED <<mailed, used, verified>>

Mail(l, u) ==
  /\ u \in registered
  /\ \A m \in mailed : m.link # l
  /\ mailed' = mailed \cup {[link |-> l, user |-> u]}
  /\ UNCHANGED <<registered, used, verified>>

Use(m) ==
  /\ m \in mailed /\ m.link \notin used
  /\ used' = used \cup {m.link}
  /\ verified' = verified \cup {m.user}
  /\ UNCHANGED <<registered, mailed>>

Next ==
  \/ \E u \in Users : Register(u) \/ \E l \in Links : Mail(l, u)
  \/ \E m \in mailed : Use(m)

Spec == Init /\ [][Next]_vars
=============================================================================
