------------------------- MODULE LifecycleInvariants --------------------------
(***************************************************************************)
(* The inductive invariant of Lifecycle: how the file, the listener, the   *)
(* two goroutines of the server and the end of the process hang together.  *)
(***************************************************************************)
EXTENDS Lifecycle

(* An open listener has its file at the path, and a file at the path is    *)
(* that of an open listener or of a dead run.                              *)
FileInv ==
  /\ \A r \in Runs : open[r] => path = r /\ Alive(r)
  /\ path # NoRun => open[path] \/ Dead(path)

(* Where Server.Run and Serve are says whether the listener is open: it is *)
(* from Listen until somebody closes the server; a server that has left    *)
(* its select is closed, and its listener is at most left to a Serve that  *)
(* has not begun.                                                          *)
ServerInv ==
  \A r \in Runs :
    /\ srv[r] \in {"none", "listen"} => serve[r] = "none" /\ ~open[r]
    /\ srv[r] = "select" => serve[r] # "none"
    /\ srv[r] = "select" /\ ~closing[r] /\ Alive(r) => open[r]
    /\ srv[r] \in {"failed", "done"} => closing[r]
    /\ srv[r] \in {"failed", "done"} /\ open[r] => serve[r] = "starting"
    /\ serve[r] = "ended" => ~open[r]

(* An orderly end comes after the server's.                                *)
EndInv ==
  /\ \A r \in Runs : main[r] \in {"idle", "checked"} => srv[r] = "none"
  /\ \A r \in Runs : main[r] = "returned" => srv[r] = "done"
  /\ StaleSockets

(* The inductive invariant; it makes OwnFileOnly, Stoppable, StaleSockets  *)
(* and StopMeansStopping hold of every step of server.go:51 to 115.        *)
IInv == TypeOK /\ FileInv /\ ServerInv /\ EndInv /\ StopMeansStopping

=============================================================================
