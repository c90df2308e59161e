--------------------------- MODULE StagedRollout ---------------------------
(***************************************************************************)
(* What the runner of consul-services promises about Consul: every change  *)
(* it makes there (a WAN join, a catalog registration, a config entry) is  *)
(* made once, and only when the changes it builds on have been made.       *)
(***************************************************************************)

CONSTANTS Items,  \* the changes one run makes
          Needs   \* for every change, the changes that must precede it

VARIABLE deployed \* the changes made so far

Init == deployed = {}

(* One change is made, after everything it needs. *)
Deploy(x) ==
  /\ x \notin deployed
  /\ Needs[x] \subseteq deployed
  /\ deployed' = deployed \cup {x}

Next == \E x \in Items : Deploy(x)

Spec == Init /\ [][Next]_deployed

(* What is deployed is closed under Needs: no change is ever found in      *)
(* Consul without the ones it builds on.                                   *)
Closed == \A x \in deployed : Needs[x] \subseteq deployed

=============================================================================
