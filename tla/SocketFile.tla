------------------------------ MODULE SocketFile ------------------------------
(***************************************************************************)
(* What the socket file of the control server promises: it belongs to one  *)
(* run at a time, the run that serves it keeps it until that run gives it  *)
(* up or dies, and the file a dead run left behind is nobody else's to     *)
(* replace: only the user removes it.                                      *)
(***************************************************************************)
CONSTANTS Runs, NoRun

VARIABLES holder,  \* the run whose file is at the path, or NoRun
          serving  \* the runs with a listener open

Init == holder = NoRun /\ serving = {}

Bind(r) == holder = NoRun /\ holder' = r /\ serving' = serving \cup {r}
Release(r) ==
  /\ holder = r /\ r \in serving
  /\ holder' = NoRun /\ serving' = serving \ {r}
Die(r) == r \in serving /\ serving' = serving \ {r} /\ UNCHANGED holder
Clear == holder \notin serving /\ holder' = NoRun /\ UNCHANGED serving

Next == Clear \/ \E r \in Runs : Bind(r) \/ Release(r) \/ Die(r)
Spec == Init /\ [][Next]_<<holder, serving>>

=============================================================================
