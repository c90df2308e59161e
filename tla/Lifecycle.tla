------------------------------ MODULE Lifecycle -------------------------------
(***************************************************************************)
(* The life of several runs of consul-services that share one socket path, *)
(* and of the clients that talk to whichever run is listening there.  A    *)
(* run validates the path, starts its control server, may be stopped by a  *)
(* client, cancelled, aborted or killed, and the file its listener created *)
(* goes away when the listener is closed, not when the process ends.       *)
(*                                                                         *)
(* A run has three goroutines here: the main one ("main"), Server.Run in   *)
(* the run's errgroup ("srv") and the goroutine of Serve ("serve").  What  *)
(* else runs in the errgroup is one bit, "others".                         *)
(***************************************************************************)
EXTENDS Integers

CONSTANTS Runs,     \* the processes that are started
          NoRun,    \* no run
          Clients,  \* the invocations of stop and of the query commands
          Stops     \* those of stop

ASSUME RunsAssumption == NoRun \notin Runs
ASSUME ClientsAssumption == Stops \subseteq Clients

VARIABLES path,      \* the run whose socket file is at the path, or NoRun
          main,      \* where the main goroutine is, or how the process ended
          cancelled, \* whether the context of the run is done
          others,    \* whether the rest of the errgroup has returned
          srv,       \* where Server.Run is
          serve,     \* where the goroutine of Serve is
          closing,   \* inShutdown of the HTTP server
          open,      \* whether the listener is open
          client,    \* where every client is
          conn       \* the run a client is connected to, or NoRun

runVars == <<main, cancelled, others>>
serverVars == <<srv, serve, closing, open>>
clientVars == <<client, conn>>
vars == <<path, runVars, serverVars, clientVars>>

-----------------------------------------------------------------------------
(* How a process ends: refused by the validation, after group.Wait, after  *)
(* an early return of Runner.Run, or killed.                               *)
Ended == {"refused", "exited", "failed", "killed"}
Dead(r) == main[r] \in Ended
Alive(r) == main[r] \notin {"idle"} \cup Ended
Connected(r) == {c \in Clients : conn[c] = r /\ client[c] \in {"queued", "accepted", "handled"}}

Init ==
  /\ path = NoRun
  /\ main = [r \in Runs |-> "idle"]
  /\ cancelled = [r \in Runs |-> FALSE]
  /\ others = [r \in Runs |-> FALSE]
  /\ srv = [r \in Runs |-> "none"]
  /\ serve = [r \in Runs |-> "none"]
  /\ closing = [r \in Runs |-> FALSE]
  /\ open = [r \in Runs |-> FALSE]
  /\ client = [c \in Clients |-> "idle"]
  /\ conn = [c \in Clients |-> NoRun]

(* What the clients of C see when their connections are cut: a client of   *)
(* stop whose request is being handled reads EOF, which is its success; an *)
(* unanswered stop sees EOF or a reset; a query fails in any case.         *)
Cut(C) ==
  /\ \E f \in [C \cap Stops -> {"ok", "error"}] :
       /\ \A c \in DOMAIN f : client[c] = "handled" => f[c] = "ok"
       /\ client' = [c \in Clients |-> IF c \notin C THEN client[c]
                                       ELSE IF c \in Stops THEN f[c] ELSE "error"]
  /\ UNCHANGED conn

(* The listener of r is closed, which unlinks the path, whatever is there, *)
(* and resets what was not accepted yet.                                   *)
Unlinked(r) == IF open[r] THEN NoRun ELSE path
CloseListener(r) ==
  /\ path' = Unlinked(r)
  /\ open' = [open EXCEPT ![r] = FALSE]
Queued(r) == {c \in Connected(r) : client[c] = "queued" /\ open[r]}

-----------------------------------------------------------------------------
(* Steps of the main goroutine.                                            *)

(* validateSocket: whatever is at the path, the configuration is refused.  *)
Validate(r) ==
  /\ main[r] = "idle"
  /\ main' = [main EXCEPT ![r] = IF path = NoRun THEN "checked" ELSE "refused"]
  /\ UNCHANGED <<path, cancelled, others, serverVars, clientVars>>

(* Runner.Run launches the control server before anything else.            *)
Launch(r) ==
  /\ main[r] = "checked"
  /\ main' = [main EXCEPT ![r] = "up"]
  /\ srv' = [srv EXCEPT ![r] = "listen"]
  /\ UNCHANGED <<path, cancelled, others, serve, closing, open, clientVars>>

(* An early return of Runner.Run, whose deferred cancel runs.  Not all of   *)
(* them look at the context first (runner.go:69 and 90).                   *)
Abort(r) ==
  /\ main[r] = "up"
  /\ main' = [main EXCEPT ![r] = "aborted"]
  /\ cancelled' = [cancelled EXCEPT ![r] = TRUE]
  /\ UNCHANGED <<path, others, serverVars, clientVars>>

(* group.Wait returns once every goroutine of the group has.               *)
Return(r) ==
  /\ main[r] = "up"
  /\ others[r] /\ srv[r] = "done"
  /\ main' = [main EXCEPT ![r] = "returned"]
  /\ cancelled' = [cancelled EXCEPT ![r] = TRUE]
  /\ UNCHANGED <<path, others, serverVars, clientVars>>

(* The end of a process closes its descriptors and unlinks nothing.        *)
End(r, how) ==
  /\ main' = [main EXCEPT ![r] = how]
  /\ open' = [open EXCEPT ![r] = FALSE]
  /\ Cut(Connected(r))
  /\ UNCHANGED <<cancelled, others, srv, serve, closing>>

(* Mutated form: the process removes the path when it exits.               *)
ExitRemoving(r) ==
  /\ main[r] \in {"returned", "aborted"}
  /\ End(r, IF main[r] = "returned" THEN "exited" ELSE "failed")
  /\ path' = NoRun

(* os.Exit: no goroutine of the process makes another step.                *)
Exit(r) ==
  /\ main[r] \in {"returned", "aborted"}
  /\ End(r, IF main[r] = "returned" THEN "exited" ELSE "failed")
  /\ UNCHANGED path

Kill(r) ==
  /\ Alive(r)
  /\ End(r, "killed")
  /\ UNCHANGED path

-----------------------------------------------------------------------------
(* The rest of the run: an interrupt or an error of another goroutine, and *)
(* the return of the last of the others.                                   *)
Cancel(r) ==
  /\ main[r] = "up"
  /\ cancelled' = [cancelled EXCEPT ![r] = TRUE]
  /\ UNCHANGED <<path, main, others, serverVars, clientVars>>

Unwind(r) ==
  /\ main[r] = "up"
  /\ others' = [others EXCEPT ![r] = TRUE]
  /\ UNCHANGED <<path, main, cancelled, serverVars, clientVars>>

-----------------------------------------------------------------------------
(* Server.Run.                                                             *)

(* Mutated form: a file left at the path is removed first.                 *)
ListenReplacing(r) ==
  /\ Alive(r) /\ srv[r] = "listen"
  /\ path' = r
  /\ open' = [open EXCEPT ![r] = TRUE]
  /\ srv' = [srv EXCEPT ![r] = "select"]
  /\ serve' = [serve EXCEPT ![r] = "starting"]
  /\ UNCHANGED <<runVars, closing, clientVars>>

(* net.Listen fails if the path is taken; otherwise Serve gets a goroutine.*)
Listen(r) ==
  /\ Alive(r) /\ srv[r] = "listen"
  /\ IF path = NoRun
       THEN /\ path' = r
            /\ open' = [open EXCEPT ![r] = TRUE]
            /\ srv' = [srv EXCEPT ![r] = "select"]
            /\ serve' = [serve EXCEPT ![r] = "starting"]
            /\ UNCHANGED closing
       ELSE /\ srv' = [srv EXCEPT ![r] = "failed"]
            /\ closing' = [closing EXCEPT ![r] = TRUE]
            /\ UNCHANGED <<path, open, serve>>
  /\ UNCHANGED <<runVars, clientVars>>

(* Mutated form: Run returns without the deferred Close.                   *)
LeaveOpen(r) ==
  /\ Alive(r) /\ srv[r] = "select"
  /\ \/ cancelled[r] /\ srv' = [srv EXCEPT ![r] = "done"]
     \/ serve[r] = "ended" /\ srv' = [srv EXCEPT ![r] = "failed"]
  /\ UNCHANGED <<path, runVars, serve, closing, open, clientVars>>

(* The select of Run, and the deferred Close: the listener is closed if    *)
(* Serve has it on its list, and so are all accepted connections.          *)
Leave(r) ==
  /\ Alive(r) /\ srv[r] = "select"
  /\ \/ cancelled[r] /\ srv' = [srv EXCEPT ![r] = "done"]
     \/ serve[r] = "ended" /\ srv' = [srv EXCEPT ![r] = "failed"]
  /\ closing' = [closing EXCEPT ![r] = TRUE]
  /\ IF serve[r] = "serving" THEN CloseListener(r) ELSE UNCHANGED <<path, open>>
  /\ Cut({c \in Connected(r) : client[c] # "queued"} \cup
           IF serve[r] = "serving" THEN Queued(r) ELSE {})
  /\ UNCHANGED <<runVars, serve>>

(* Mutated form: the error of the control server is only logged.           *)
FailAlone(r) ==
  /\ Alive(r) /\ srv[r] = "failed"
  /\ srv' = [srv EXCEPT ![r] = "done"]
  /\ UNCHANGED <<path, runVars, serve, closing, open, clientVars>>

(* The errgroup takes the error of Run and cancels the context.            *)
Fail(r) ==
  /\ Alive(r) /\ srv[r] = "failed"
  /\ srv' = [srv EXCEPT ![r] = "done"]
  /\ cancelled' = [cancelled EXCEPT ![r] = TRUE]
  /\ UNCHANGED <<path, main, others, serve, closing, open, clientVars>>

-----------------------------------------------------------------------------
(* The goroutine of Serve.                                                 *)

(* Mutated form: a Serve that comes too late returns without its deferred  *)
(* close of the listener.                                                  *)
TrackLeaking(r) ==
  /\ Alive(r) /\ serve[r] = "starting"
  /\ serve' = [serve EXCEPT ![r] = IF closing[r] THEN "ended" ELSE "serving"]
  /\ UNCHANGED <<path, runVars, srv, closing, open, clientVars>>

(* Serve puts the listener on the server's list, or finds the server       *)
(* closed, and closes the listener on its way out.                         *)
Track(r) ==
  /\ Alive(r) /\ serve[r] = "starting"
  /\ IF closing[r]
       THEN /\ serve' = [serve EXCEPT ![r] = "ended"]
            /\ CloseListener(r)
            /\ Cut(Queued(r))
       ELSE /\ serve' = [serve EXCEPT ![r] = "serving"]
            /\ UNCHANGED <<path, open, clientVars>>
  /\ UNCHANGED <<runVars, srv, closing>>

(* Accept gives a client's connection a goroutine.                         *)
Accept(r) ==
  /\ Alive(r) /\ serve[r] = "serving" /\ open[r]
  /\ \E c \in Queued(r) : client' = [client EXCEPT ![c] = "accepted"]
  /\ UNCHANGED <<path, runVars, serverVars, conn>>

(* Accept fails once the listener is closed: ErrServerClosed.              *)
ServeEnds(r) ==
  /\ Alive(r) /\ serve[r] = "serving" /\ ~open[r]
  /\ serve' = [serve EXCEPT ![r] = "ended"]
  /\ UNCHANGED <<path, runVars, srv, closing, open, clientVars>>

-----------------------------------------------------------------------------
(* The clients and the handlers of their requests.                         *)

(* Mutated form: nobody listening counts as stopped.                       *)
DialLenient(c) ==
  /\ client[c] = "idle"
  /\ IF path # NoRun /\ open[path]
       THEN /\ client' = [client EXCEPT ![c] = "queued"]
            /\ conn' = [conn EXCEPT ![c] = path]
       ELSE /\ client' = [client EXCEPT ![c] = IF c \in Stops THEN "ok" ELSE "error"]
            /\ UNCHANGED conn
  /\ UNCHANGED <<path, runVars, serverVars>>

(* A client dials the path: no file, or a file nobody listens on, is an    *)
(* error.                                                                  *)
Dial(c) ==
  /\ client[c] = "idle"
  /\ IF path # NoRun /\ open[path]
       THEN /\ client' = [client EXCEPT ![c] = "queued"]
            /\ conn' = [conn EXCEPT ![c] = path]
       ELSE /\ client' = [client EXCEPT ![c] = "error"]
            /\ UNCHANGED conn
  /\ UNCHANGED <<path, runVars, serverVars>>

Handling(c) == client[c] = "accepted" /\ Alive(conn[c])

(* Mutated form: the shutdown handler drops its connection at once and     *)
(* leaves the rest to later.                                               *)
ShutdownDropping(c) ==
  /\ Handling(c) /\ c \in Stops
  /\ client' = [client EXCEPT ![c] = "ok"]
  /\ UNCHANGED <<path, runVars, serverVars, conn>>

(* /shutdown: Shutdown closes the listener and then waits for the active   *)
(* connections, this one among them, which only Close will cut.            *)
Shutdown(c) ==
  /\ Handling(c) /\ c \in Stops
  /\ LET r == conn[c]
         reset == Queued(r)
     IN /\ closing' = [closing EXCEPT ![r] = TRUE]
        /\ CloseListener(r)
        /\ \E f \in [reset \cap Stops -> {"ok", "error"}] :
             client' = [d \in Clients |->
                          IF d = c THEN "handled"
                          ELSE IF d \in reset \cap Stops THEN f[d]
                          ELSE IF d \in reset THEN "error" ELSE client[d]]
  /\ UNCHANGED <<runVars, srv, serve, conn>>

(* A query is answered, also while the server is closing; an answer other  *)
(* than 200 is an error to the client.                                     *)
Respond(c) ==
  /\ Handling(c) /\ c \notin Stops
  /\ \E answer \in {"ok", "error"} : client' = [client EXCEPT ![c] = answer]
  /\ UNCHANGED <<path, runVars, serverVars, conn>>

(* The user removes the file a dead run has left behind.                   *)
Clear ==
  /\ path # NoRun /\ Dead(path)
  /\ path' = NoRun
  /\ UNCHANGED <<runVars, serverVars, clientVars>>

-----------------------------------------------------------------------------
Server(r) == Listen(r) \/ Leave(r) \/ Fail(r)
Serve(r) == Track(r) \/ Accept(r) \/ ServeEnds(r)
Main(r) == Launch(r) \/ Return(r) \/ Exit(r)
Handle(c) == Shutdown(c) \/ Respond(c)

Next ==
  \/ \E r \in Runs : \/ Validate(r) \/ Main(r) \/ Abort(r) \/ Kill(r)
                     \/ Cancel(r) \/ Unwind(r) \/ Server(r) \/ Serve(r)
  \/ \E c \in Clients : Dial(c) \/ Handle(c)
  \/ Clear

(* Goroutines that can run do run; what a user does, and when the rest of  *)
(* a run comes to its end, is free.                                        *)
Fairness ==
  /\ \A r \in Runs : WF_vars(Server(r)) /\ WF_vars(Serve(r)) /\ WF_vars(Main(r))
  /\ \A c \in Clients : WF_vars(Handle(c))

Spec == Init /\ [][Next]_vars
FairSpec == Spec /\ Fairness

-----------------------------------------------------------------------------
(* Type invariant: the range of every variable, and that a client is past  *)
(* its dial only when it has reached a run.                                *)
TypeOK ==
  /\ path \in Runs \cup {NoRun}
  /\ main \in [Runs -> {"idle", "checked", "up", "returned", "aborted"} \cup Ended]
  /\ cancelled \in [Runs -> BOOLEAN] /\ others \in [Runs -> BOOLEAN]
  /\ srv \in [Runs -> {"none", "listen", "select", "failed", "done"}]
  /\ serve \in [Runs -> {"none", "starting", "serving", "ended"}]
  /\ closing \in [Runs -> BOOLEAN] /\ open \in [Runs -> BOOLEAN]
  /\ client \in [Clients -> {"idle", "queued", "accepted", "handled", "ok", "error"}]
  /\ conn \in [Clients -> Runs \cup {NoRun}]
  /\ \A c \in Clients : conn[c] = NoRun => client[c] \in {"idle", "error"}

(* The socket file is used as SocketFile promises: whatever two runs do at *)
(* the same time, and however they end, none takes or removes the file of  *)
(* another, since Listen refuses a taken path (server.go:67) and a closed  *)
(* listener unlinks only once.                                             *)
File == INSTANCE SocketFile WITH holder <- path,
                                 serving <- {r \in Runs : open[r]}
OwnFileOnly == File!Spec

(* A run that is not ending can be stopped: as long as Server.Run waits in *)
(* its select and nobody has asked it to end, the path leads to this run.  *)
Stoppable ==
  \A r \in Runs : Alive(r) /\ srv[r] = "select" /\ ~cancelled[r] /\ ~closing[r] =>
    open[r] /\ path = r

(* An orderly end leaves no socket behind, except when Serve never got to  *)
(* run; every other stale socket is one of a run that was killed, or that  *)
(* returned early and exited before its server could close.                *)
StaleSockets ==
  path # NoRun /\ main[path] = "exited" => serve[path] = "starting"

(* When stop reports success, the run it reached has begun to end.         *)
StopMeansStopping ==
  \A c \in Stops : client[c] = "ok" =>
    conn[c] # NoRun /\ (closing[conn[c]] \/ Dead(conn[c]))

(* Every client that has found a run gets an answer or an error, although  *)
(* the handler of /shutdown waits for its own connection to end.           *)
ClientsReturn ==
  \A c \in Clients : client[c] = "queued" ~> client[c] \in {"ok", "error"}

(* A run whose control server stops, for whatever reason, is cancelled:    *)
(* after /shutdown, and when the path was taken between check and Listen.  *)
StopCancels ==
  \A r \in Runs : closing[r] ~> cancelled[r] \/ Dead(r)

(* A cancelled run frees the path even if the rest of it never unwinds.    *)
CancelFreesPath ==
  \A r \in Runs : cancelled[r] ~> path # r \/ Dead(r)

=============================================================================
