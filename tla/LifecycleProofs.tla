--------------------------- MODULE LifecycleProofs ----------------------------
(***************************************************************************)
(* Theorems about Lifecycle for any set of runs and clients: the file at   *)
(* the path is handed from run to run as SocketFile promises, a run that   *)
(* is not ending can be stopped, what stale files there can be, and what   *)
(* the success of stop means.                                              *)
(*                                                                         *)
(* IInv has two halves that hardly meet: what an action does to the runs,  *)
(* and what it does to the clients, which for most actions is to cut the   *)
(* connections of one run that is closing.                                 *)
(***************************************************************************)
EXTENDS LifecycleInvariants, TLAPS

-----------------------------------------------------------------------------
(* The two halves of the type invariant.                                   *)
RunType ==
  /\ path \in Runs \cup {NoRun}
  /\ main \in [Runs -> {"idle", "checked", "up", "returned", "aborted"} \cup Ended]
  /\ cancelled \in [Runs -> BOOLEAN] /\ others \in [Runs -> BOOLEAN]
  /\ srv \in [Runs -> {"none", "listen", "select", "failed", "done"}]
  /\ serve \in [Runs -> {"none", "starting", "serving", "ended"}]
  /\ closing \in [Runs -> BOOLEAN] /\ open \in [Runs -> BOOLEAN]
ClientType ==
  /\ client \in [Clients -> {"idle", "queued", "accepted", "handled", "ok", "error"}]
  /\ conn \in [Clients -> Runs \cup {NoRun}]
  /\ \A c \in Clients : conn[c] = NoRun => client[c] \in {"idle", "error"}

RunInv == RunType /\ FileInv /\ ServerInv /\ EndInv
ClientInv == ClientType /\ StopMeansStopping

LEMMA Halves == IInv <=> RunInv /\ ClientInv
  BY DEF IInv, RunInv, ClientInv, TypeOK, RunType, ClientType

(* What a cut does: the clients of C end, the others do not notice.        *)
CutOf(C) ==
  /\ client' \in [Clients -> {"idle", "queued", "accepted", "handled", "ok", "error"}]
  /\ \A c \in Clients \ C : client'[c] = client[c]
  /\ \A c \in Clients \cap C : client'[c] \in {"ok", "error"}
  /\ conn' = conn

LEMMA CutResult ==
  ASSUME NEW C, C \subseteq Clients, ClientType, Cut(C)
  PROVE  CutOf(C)
<1>1. PICK f \in [C \cap Stops -> {"ok", "error"}] :
        client' = [c \in Clients |-> IF c \notin C THEN client[c]
                                     ELSE IF c \in Stops THEN f[c] ELSE "error"]
  BY DEF Cut
<1>2. \A c \in C \cap Stops : f[c] \in {"ok", "error"}
  OBVIOUS
<1>3. conn' = conn
  BY DEF Cut
<1> QED
  BY <1>1, <1>2, <1>3 DEF CutOf, ClientType

(* Nothing a run has begun to end by is taken back.                        *)
Monotone ==
  \A r \in Runs : /\ closing[r] => closing'[r]
                  /\ main[r] \in Ended => main'[r] \in Ended

LEMMA HalvesNext == RunInv' /\ ClientInv' => IInv'
  BY DEF IInv, RunInv, ClientInv, TypeOK, RunType, ClientType

(* A client that was stopped before the step stays one.                    *)
LEMMA StillStopping ==
  ASSUME ClientInv, Monotone, NEW c \in Stops, client[c] = "ok"
  PROVE  conn[c] \in Runs /\ (closing'[conn[c]] \/ main'[conn[c]] \in Ended)
<1>1. c \in Clients
  BY ClientsAssumption
<1>2. conn[c] # NoRun /\ (closing[conn[c]] \/ main[conn[c]] \in Ended)
  BY DEF ClientInv, StopMeansStopping, Dead
<1>3. conn[c] \in Runs
  BY <1>1, <1>2 DEF ClientInv, ClientType
<1> QED
  BY <1>2, <1>3 DEF Monotone

LEMMA ConnectedTo ==
  ASSUME NEW r \in Runs, NEW c \in Connected(r)
  PROVE  c \in Clients /\ conn[c] = r /\ r # NoRun
  BY RunsAssumption DEF Connected

(* Clients whose run is closing or dead may be cut.                        *)
LEMMA ClientsCut ==
  ASSUME ClientInv, Monotone, NEW r \in Runs, closing'[r] \/ main'[r] \in Ended,
         NEW C \in SUBSET Connected(r), CutOf(C)
  PROVE  ClientInv'
<1>1. \A c \in C : c \in Clients /\ conn[c] = r /\ r # NoRun
  BY ConnectedTo
<1>2. ClientType'
  BY <1>1 DEF ClientInv, ClientType, CutOf
<1>3. ASSUME NEW c \in Stops, client'[c] = "ok"
      PROVE  conn'[c] # NoRun /\ (closing'[conn'[c]] \/ main'[conn'[c]] \in Ended)
  <2>0. c \in Clients /\ conn'[c] = conn[c]
    BY ClientsAssumption DEF CutOf
  <2>1. CASE c \in C
    BY <2>0, <2>1, <1>1
  <2>2. CASE c \notin C
    <3>1. client[c] = "ok"
      BY <1>3, <2>0, <2>2 DEF CutOf
    <3> QED
      BY <2>0, <3>1, StillStopping, RunsAssumption
  <2> QED
    BY <2>1, <2>2
<1> QED
  BY <1>2, <1>3 DEF ClientInv, StopMeansStopping, Dead

(* Steps that leave the clients alone.                                     *)
LEMMA ClientsKept ==
  ASSUME ClientInv, Monotone, UNCHANGED clientVars
  PROVE  ClientInv'
<1>1. client' = client /\ conn' = conn
  BY DEF clientVars
<1>2. ClientType'
  BY <1>1 DEF ClientInv, ClientType
<1>3. ASSUME NEW c \in Stops, client'[c] = "ok"
      PROVE  conn'[c] # NoRun /\ (closing'[conn'[c]] \/ main'[conn'[c]] \in Ended)
  BY <1>1, <1>3, StillStopping, RunsAssumption
<1> QED
  BY <1>2, <1>3 DEF ClientInv, StopMeansStopping, Dead

-----------------------------------------------------------------------------
(* The steps of the main goroutine, and the end of the process.            *)

LEMMA InitInv == Init => IInv
  BY RunsAssumption, ClientsAssumption
  DEF Init, IInv, TypeOK, FileInv, ServerInv, EndInv, StaleSockets, StopMeansStopping,
      Alive, Dead, Ended

LEMMA MainSteps ==
  ASSUME IInv, NEW r \in Runs,
         Validate(r) \/ Launch(r) \/ Abort(r) \/ Return(r) \/ Cancel(r) \/ Unwind(r)
  PROVE  IInv'
<1>1. RunInv /\ ClientInv
  BY Halves
<1>2. RunInv'
  <2>1. CASE Validate(r)
    BY <1>1, <2>1, RunsAssumption
    DEF Validate, RunInv, RunType, FileInv, ServerInv, EndInv, StaleSockets, Alive, Dead, Ended,
        serverVars, clientVars
  <2>2. CASE Launch(r)
    BY <1>1, <2>2, RunsAssumption
    DEF Launch, RunInv, RunType, FileInv, ServerInv, EndInv, StaleSockets, Alive, Dead, Ended,
        serverVars, clientVars
  <2>3. CASE Abort(r)
    BY <1>1, <2>3, RunsAssumption
    DEF Abort, RunInv, RunType, FileInv, ServerInv, EndInv, StaleSockets, Alive, Dead, Ended,
        serverVars, clientVars
  <2>4. CASE Return(r)
    BY <1>1, <2>4, RunsAssumption
    DEF Return, RunInv, RunType, FileInv, ServerInv, EndInv, StaleSockets, Alive, Dead, Ended,
        serverVars, clientVars
  <2>5. CASE Cancel(r)
    BY <1>1, <2>5, RunsAssumption
    DEF Cancel, RunInv, RunType, FileInv, ServerInv, EndInv, StaleSockets, Alive, Dead, Ended,
        serverVars, clientVars
  <2>6. CASE Unwind(r)
    BY <1>1, <2>6, RunsAssumption
    DEF Unwind, RunInv, RunType, FileInv, ServerInv, EndInv, StaleSockets, Alive, Dead, Ended,
        serverVars, clientVars
  <2> QED
    BY <2>1, <2>2, <2>3, <2>4, <2>5, <2>6
<1>3. ClientInv'
  <2>1. Monotone
    BY <1>1 DEF Validate, Launch, Abort, Return, Cancel, Unwind, Monotone, RunInv, RunType,
                Dead, Ended, serverVars, clientVars
  <2>2. UNCHANGED clientVars
    BY DEF Validate, Launch, Abort, Return, Cancel, Unwind
  <2> QED
    BY <1>1, <2>1, <2>2, ClientsKept
<1> QED
  BY <1>2, <1>3, HalvesNext

LEMMA EndSteps ==
  ASSUME IInv, NEW r \in Runs, Exit(r) \/ Kill(r)
  PROVE  IInv'
<1>1. RunInv /\ ClientInv
  BY Halves
<1>2. PICK how \in {"exited", "failed", "killed"} : End(r, how) /\ path' = path
                     /\ Alive(r) /\ (how = "exited" => main[r] = "returned")
  BY DEF Exit, Kill, Alive, Ended
<1>3. RunInv'
  BY <1>1, <1>2, RunsAssumption
  DEF End, RunInv, RunType, FileInv, ServerInv, EndInv, StaleSockets, Alive, Dead, Ended
<1>4. ClientInv'
  <2>1. Monotone /\ main'[r] \in Ended
    BY <1>1, <1>2 DEF End, Monotone, RunInv, RunType, Ended
  <2>2. CutOf(Connected(r))
    <3>1. Cut(Connected(r)) /\ Connected(r) \subseteq Clients
      BY <1>2 DEF End, Connected
    <3> QED
      BY <1>1, <3>1, CutResult DEF ClientInv
  <2> QED
    BY <1>1, <2>1, <2>2, ClientsCut
<1> QED
  BY <1>3, <1>4, HalvesNext

-----------------------------------------------------------------------------
(* The steps of Server.Run and of Serve.                                   *)

LEMMA ListenFail ==
  ASSUME IInv, NEW r \in Runs, Listen(r) \/ Fail(r) \/ ServeEnds(r)
  PROVE  IInv'
<1>1. RunInv /\ ClientInv
  BY Halves
<1>2. RunInv'
  <2>1. CASE Listen(r)
    <3>1. RunType'
      BY <1>1, <2>1 DEF Listen, RunInv, RunType, runVars
    <3>2. FileInv'
      BY <1>1, <2>1, RunsAssumption
      DEF Listen, RunInv, RunType, FileInv, Alive, Dead, Ended, runVars
    <3>3. ServerInv'
      BY <1>1, <2>1 DEF Listen, RunInv, RunType, ServerInv, Alive, Ended, runVars
    <3>4. EndInv'
      BY <1>1, <2>1, RunsAssumption
      DEF Listen, RunInv, RunType, EndInv, StaleSockets, Alive, Ended, runVars
    <3> QED
      BY <3>1, <3>2, <3>3, <3>4 DEF RunInv
  <2>2. CASE Fail(r)
    BY <1>1, <2>2
    DEF Fail, RunInv, RunType, FileInv, ServerInv, EndInv, StaleSockets, Alive, Dead, Ended
  <2>3. CASE ServeEnds(r)
    BY <1>1, <2>3
    DEF ServeEnds, RunInv, RunType, FileInv, ServerInv, EndInv, StaleSockets, Alive, Dead,
        Ended, runVars
  <2> QED
    BY <2>1, <2>2, <2>3
<1>3. ClientInv'
  <2>1. Monotone /\ UNCHANGED clientVars
    BY <1>1 DEF Listen, Fail, ServeEnds, Monotone, RunInv, RunType, runVars
  <2> QED
    BY <1>1, <2>1, ClientsKept
<1> QED
  BY <1>2, <1>3, HalvesNext

(* Closing a listener, which Close and a late Serve do.                    *)
LEMMA Closing ==
  ASSUME RunInv, NEW r \in Runs, Alive(r), CloseListener(r)
  PROVE  /\ path' = (IF open[r] THEN NoRun ELSE path)
         /\ open' = [open EXCEPT ![r] = FALSE]
         /\ path' \in Runs \cup {NoRun} /\ open' \in [Runs -> BOOLEAN]
         /\ path' = r => Dead(r)
         /\ \A s \in Runs \ {r} : (open'[s] <=> open[s]) /\ (path' = s <=> path = s)
  BY RunsAssumption
  DEF CloseListener, Unlinked, RunInv, RunType, FileInv, Alive, Dead, Ended

LEMMA LeaveStep ==
  ASSUME IInv, NEW r \in Runs, Leave(r)
  PROVE  IInv'
<1>1. RunInv /\ ClientInv
  BY Halves
<1>2. RunInv'
  <2>1. CASE serve[r] = "serving"
    <3>1. CloseListener(r) /\ Alive(r)
      BY <2>1 DEF Leave
    <3>2. /\ main' = main /\ cancelled' = cancelled /\ others' = others /\ serve' = serve
          /\ closing' = [closing EXCEPT ![r] = TRUE] /\ srv[r] = "select"
          /\ \E x \in {"done", "failed"} : srv' = [srv EXCEPT ![r] = x]
      BY DEF Leave, runVars
    <3>3. RunType'
      BY <1>1, <3>1, <3>2, Closing DEF RunInv, RunType
    <3>4. FileInv'
      BY <1>1, <3>1, <3>2, Closing, RunsAssumption
      DEF RunInv, RunType, FileInv, Alive, Dead, Ended
    <3>5. ServerInv'
      BY <1>1, <2>1, <3>1, <3>2, Closing DEF RunInv, RunType, ServerInv, Alive, Ended
    <3>6. EndInv'
      BY <1>1, <3>1, <3>2, Closing, RunsAssumption
      DEF RunInv, RunType, EndInv, StaleSockets, Alive, Ended, Dead
    <3> QED
      BY <3>3, <3>4, <3>5, <3>6 DEF RunInv
  <2>2. CASE serve[r] # "serving"
    BY <1>1, <2>2, RunsAssumption
    DEF Leave, RunInv, RunType, FileInv, ServerInv, EndInv, StaleSockets, Alive, Dead, Ended,
        runVars
  <2> QED
    BY <2>1, <2>2
<1>3. ClientInv'
  <2>1. Monotone /\ closing'[r]
    BY <1>1 DEF Leave, Monotone, RunInv, RunType, runVars
  <2> DEFINE C == {c \in Connected(r) : client[c] # "queued"} \cup
                    IF serve[r] = "serving" THEN Queued(r) ELSE {}
  <2>2. Cut(C) /\ C \in SUBSET Connected(r) /\ C \subseteq Clients
    BY DEF Leave, Queued, Connected
  <2>3. CutOf(C)
    BY <1>1, <2>2, CutResult DEF ClientInv
  <2> QED
    BY <1>1, <2>1, <2>2, <2>3, ClientsCut
<1> QED
  BY <1>2, <1>3, HalvesNext

LEMMA TrackStep ==
  ASSUME IInv, NEW r \in Runs, Track(r)
  PROVE  IInv'
<1>1. RunInv /\ ClientInv
  BY Halves
<1>2. RunInv'
  <2>1. CASE closing[r]
    <3>1. CloseListener(r) /\ Alive(r)
      BY <2>1 DEF Track
    <3>2. /\ main' = main /\ cancelled' = cancelled /\ others' = others
          /\ srv' = srv /\ closing' = closing
          /\ serve[r] = "starting" /\ serve' = [serve EXCEPT ![r] = "ended"]
      BY <2>1 DEF Track, runVars
    <3>3. RunType'
      BY <1>1, <3>1, <3>2, Closing DEF RunInv, RunType
    <3>4. FileInv'
      BY <1>1, <3>1, <3>2, Closing, RunsAssumption
      DEF RunInv, RunType, FileInv, Alive, Dead, Ended
    <3>5. ServerInv'
      BY <1>1, <2>1, <3>1, <3>2, Closing DEF RunInv, RunType, ServerInv, Alive, Ended
    <3>6. EndInv'
      BY <1>1, <3>1, <3>2, Closing, RunsAssumption
      DEF RunInv, RunType, EndInv, StaleSockets, Alive, Ended, Dead
    <3> QED
      BY <3>3, <3>4, <3>5, <3>6 DEF RunInv
  <2>2. CASE ~closing[r]
    BY <1>1, <2>2
    DEF Track, RunInv, RunType, FileInv, ServerInv, EndInv, StaleSockets, Alive, Dead, Ended,
        runVars
  <2> QED
    BY <2>1, <2>2
<1>3. Monotone
  BY DEF Track, Monotone, runVars
<1>4. CASE closing[r]
  <2>1. Cut(Queued(r)) /\ Queued(r) \in SUBSET Connected(r) /\ Queued(r) \subseteq Clients
    BY <1>4 DEF Track, Queued, Connected
  <2>2. CutOf(Queued(r)) /\ closing'[r]
    BY <1>1, <1>4, <2>1, CutResult DEF ClientInv, Track
  <2> QED
    BY <1>1, <1>2, <1>3, <2>1, <2>2, ClientsCut, HalvesNext
<1>5. CASE ~closing[r]
  <2>1. UNCHANGED clientVars
    BY <1>5 DEF Track
  <2> QED
    BY <1>1, <1>2, <1>3, <2>1, ClientsKept, HalvesNext
<1> QED
  BY <1>4, <1>5

-----------------------------------------------------------------------------
(* The steps of the clients and of their handlers.                         *)

(* The runs do not notice, and only client c changes, to anything but a    *)
(* stop that succeeded.                                                    *)
LEMMA RunsKept ==
  ASSUME RunInv, UNCHANGED <<path, runVars, serverVars>>
  PROVE  RunInv' /\ Monotone
<1>1. /\ path' = path /\ main' = main /\ cancelled' = cancelled /\ others' = others
      /\ srv' = srv /\ serve' = serve /\ closing' = closing /\ open' = open
  BY DEF runVars, serverVars
<1>2. RunType'
  BY <1>1 DEF RunInv, RunType
<1>3. FileInv'
  BY <1>1 DEF RunInv, FileInv, Alive, Dead
<1>4. ServerInv' /\ EndInv'
  BY <1>1 DEF RunInv, ServerInv, EndInv, StaleSockets, Alive
<1> QED
  BY <1>1, <1>2, <1>3, <1>4 DEF RunInv, Monotone

LEMMA OneClient ==
  ASSUME ClientInv, Monotone, NEW c \in Clients,
         NEW x \in {"queued", "accepted", "handled", "ok", "error"},
         NEW k \in Runs \cup {NoRun},
         k = NoRun => x = "error", c \in Stops => x # "ok",
         client' = [client EXCEPT ![c] = x], conn' = [conn EXCEPT ![c] = k]
  PROVE  ClientInv'
<1>1. ClientType'
  BY DEF ClientInv, ClientType
<1>2. ASSUME NEW d \in Stops, client'[d] = "ok"
      PROVE  conn'[d] # NoRun /\ (closing'[conn'[d]] \/ main'[conn'[d]] \in Ended)
  <2>1. d \in Clients /\ d # c /\ client[d] = "ok" /\ conn'[d] = conn[d]
    BY <1>2, ClientsAssumption DEF ClientInv, ClientType
  <2> QED
    BY <2>1, StillStopping, RunsAssumption
<1> QED
  BY <1>1, <1>2 DEF ClientInv, StopMeansStopping, Dead

LEMMA AcceptStep ==
  ASSUME IInv, NEW r \in Runs, Accept(r)
  PROVE  IInv'
<1>1. RunInv /\ ClientInv
  BY Halves
<1>2. UNCHANGED <<path, runVars, serverVars>>
  BY DEF Accept
<1>3. PICK c \in Queued(r) : client' = [client EXCEPT ![c] = "accepted"]
  BY DEF Accept
<1>4. c \in Clients /\ conn[c] = r
  BY <1>3 DEF Queued, Connected
<1>5. conn' = [conn EXCEPT ![c] = r]
  BY <1>1, <1>4 DEF Accept, ClientInv, ClientType
<1> QED
  BY <1>1, <1>2, <1>3, <1>4, <1>5, RunsKept, OneClient, RunsAssumption, HalvesNext

LEMMA DialStep ==
  ASSUME IInv, NEW c \in Clients, Dial(c)
  PROVE  IInv'
<1>1. RunInv /\ ClientInv
  BY Halves
<1>2. UNCHANGED <<path, runVars, serverVars>>
  BY DEF Dial
<1>3. RunInv' /\ Monotone
  BY <1>1, <1>2, RunsKept
<1>4. CASE path # NoRun /\ open[path]
  <2>1. path \in Runs
    BY <1>1, <1>4 DEF RunInv, RunType
  <2>2. client' = [client EXCEPT ![c] = "queued"] /\ conn' = [conn EXCEPT ![c] = path]
    BY <1>4 DEF Dial
  <2> QED
    BY <1>1, <1>3, <1>4, <2>1, <2>2, OneClient, HalvesNext
<1>5. CASE ~(path # NoRun /\ open[path])
  <2>1. client' = [client EXCEPT ![c] = "error"] /\ conn' = [conn EXCEPT ![c] = conn[c]]
    BY <1>1, <1>5 DEF Dial, ClientInv, ClientType
  <2>2. conn[c] \in Runs \cup {NoRun}
    BY <1>1 DEF ClientInv, ClientType
  <2> QED
    BY <1>1, <1>3, <2>1, <2>2, OneClient, HalvesNext
<1> QED
  BY <1>4, <1>5

(* A client whose request is handled is connected to a run.                *)
LEMMA HandledByRun ==
  ASSUME IInv, NEW c \in Clients, Handling(c)
  PROVE  conn[c] \in Runs
  BY Halves DEF Handling, ClientInv, ClientType

LEMMA RespondStep ==
  ASSUME IInv, NEW c \in Clients, Respond(c)
  PROVE  IInv'
<1>1. RunInv /\ ClientInv /\ conn[c] \in Runs
  BY Halves, HandledByRun DEF Respond
<1>2. UNCHANGED <<path, runVars, serverVars>>
  BY DEF Respond
<1>3. PICK answer \in {"ok", "error"} : client' = [client EXCEPT ![c] = answer]
  BY DEF Respond
<1>4. c \notin Stops /\ conn' = [conn EXCEPT ![c] = conn[c]]
  BY <1>1 DEF Respond, ClientInv, ClientType
<1> QED
  BY <1>1, <1>2, <1>3, <1>4, RunsKept, OneClient, RunsAssumption, HalvesNext

LEMMA ShutdownStep ==
  ASSUME IInv, NEW c \in Clients, Shutdown(c)
  PROVE  IInv'
<1> DEFINE r == conn[c]
<1> HIDE DEF r
<1>1. RunInv /\ ClientInv /\ r \in Runs
  BY Halves, HandledByRun DEF Shutdown, r
<1>2. CloseListener(r) /\ Alive(r) /\ closing' = [closing EXCEPT ![r] = TRUE]
      /\ main' = main /\ cancelled' = cancelled /\ others' = others
      /\ srv' = srv /\ serve' = serve /\ conn' = conn
  BY DEF Shutdown, Handling, runVars, r
<1>3. RunInv'
  <2>1. RunType'
    BY <1>1, <1>2, Closing DEF RunInv, RunType
  <2>2. FileInv'
    BY <1>1, <1>2, Closing, RunsAssumption DEF RunInv, RunType, FileInv, Alive, Dead, Ended
  <2>3. ServerInv'
    BY <1>1, <1>2, Closing DEF RunInv, RunType, ServerInv, Alive, Ended
  <2>4. EndInv'
    BY <1>1, <1>2, Closing, RunsAssumption
    DEF RunInv, RunType, EndInv, StaleSockets, Alive, Ended, Dead
  <2> QED
    BY <2>1, <2>2, <2>3, <2>4 DEF RunInv
<1>4. Monotone /\ closing'[r]
  BY <1>1, <1>2 DEF Monotone, RunInv, RunType
<1>5. PICK f \in [Queued(r) \cap Stops -> {"ok", "error"}] :
        client' = [d \in Clients |-> IF d = c THEN "handled"
                                     ELSE IF d \in Queued(r) \cap Stops THEN f[d]
                                     ELSE IF d \in Queued(r) THEN "error" ELSE client[d]]
  BY DEF Shutdown, r
<1>6. \A d \in Queued(r) \cap Stops : f[d] \in {"ok", "error"}
  OBVIOUS
<1>7. \A d \in Queued(r) : d \in Clients /\ conn[d] = r
  BY DEF Queued, Connected
<1>8. ClientType'
  <2>1. client' \in [Clients -> {"idle", "queued", "accepted", "handled", "ok", "error"}]
    BY <1>1, <1>5, <1>6 DEF ClientInv, ClientType
  <2>2. ASSUME NEW d \in Clients, conn'[d] = NoRun PROVE client'[d] \in {"idle", "error"}
    <3>1. d # c /\ d \notin Queued(r) /\ conn[d] = NoRun
      BY <1>1, <1>2, <1>7, <2>2, RunsAssumption DEF r
    <3> QED
      BY <1>1, <1>5, <3>1 DEF ClientInv, ClientType
  <2> QED
    BY <1>1, <1>2, <2>1, <2>2 DEF ClientInv, ClientType
<1>9. ASSUME NEW d \in Stops, client'[d] = "ok"
      PROVE  conn'[d] # NoRun /\ (closing'[conn'[d]] \/ main'[conn'[d]] \in Ended)
  <2>1. d \in Clients
    BY ClientsAssumption
  <2>2. CASE d \in Queued(r)
    BY <1>1, <1>2, <1>4, <1>7, <2>2, RunsAssumption
  <2>3. CASE d \notin Queued(r)
    <3>1. client[d] = "ok"
      BY <1>5, <1>9, <2>1, <2>3
    <3> QED
      BY <1>1, <1>2, <1>4, <3>1, StillStopping, RunsAssumption
  <2> QED
    BY <2>2, <2>3
<1> QED
  BY <1>3, <1>8, <1>9, HalvesNext DEF ClientInv, StopMeansStopping, Dead

LEMMA ClearStep ==
  ASSUME IInv, Clear
  PROVE  IInv'
<1>1. RunInv /\ ClientInv
  BY Halves
<1>2. path # NoRun /\ Dead(path) /\ path' = NoRun
      /\ main' = main /\ cancelled' = cancelled /\ others' = others /\ srv' = srv
      /\ serve' = serve /\ closing' = closing /\ open' = open /\ UNCHANGED clientVars
  BY DEF Clear, runVars, serverVars
<1>3. RunInv'
  BY <1>1, <1>2
  DEF RunInv, RunType, FileInv, ServerInv, EndInv, StaleSockets, Alive, Dead, Ended
<1>4. Monotone
  BY <1>2 DEF Monotone
<1> QED
  BY <1>1, <1>2, <1>3, <1>4, ClientsKept, HalvesNext

-----------------------------------------------------------------------------
(* The invariant, and what follows from it.                                *)

(* Every step preserves the inductive invariant.                           *)
LEMMA StepInv == IInv /\ [Next]_vars => IInv'
<1> SUFFICES ASSUME IInv, [Next]_vars PROVE IInv'
  OBVIOUS
<1>1. ASSUME NEW r \in Runs,
             \/ Validate(r) \/ Main(r) \/ Abort(r) \/ Kill(r)
             \/ Cancel(r) \/ Unwind(r) \/ Server(r) \/ Serve(r)
      PROVE  IInv'
  BY <1>1, MainSteps, EndSteps, ListenFail, LeaveStep, TrackStep, AcceptStep
  DEF Main, Server, Serve
<1>2. ASSUME NEW c \in Clients, Dial(c) \/ Handle(c) PROVE IInv'
  BY <1>2, DialStep, RespondStep, ShutdownStep DEF Handle
<1>3. CASE UNCHANGED vars
  <2>1. UNCHANGED <<path, runVars, serverVars>> /\ UNCHANGED clientVars
    BY <1>3 DEF vars
  <2> QED
    BY <2>1, Halves, RunsKept, ClientsKept, HalvesNext
<1> QED
  BY <1>1, <1>2, <1>3, ClearStep DEF Next

(* The inductive invariant of server.go:51 to 115, its goroutines and      *)
(* clients, for any number of runs and clients.                            *)
THEOREM LifecycleInvariant == Spec => []IInv
<1>1. Init => IInv
  BY InitInv
<1> QED
  BY <1>1, StepInv, PTL DEF Spec

(* The variables of Lifecycle keep their types.                            *)
THEOREM TypeCorrect == Spec => []TypeOK
<1>1. IInv => TypeOK
  BY DEF IInv
<1> QED
  BY <1>1, LifecycleInvariant, PTL

(* As long as Server.Run waits in its select (server.go:79) and nobody has *)
(* asked the run to end, stop can reach it at the path.                    *)
THEOREM CanBeStopped == Spec => []Stoppable
<1>1. IInv => Stoppable
  BY DEF IInv, FileInv, ServerInv, Stoppable
<1> QED
  BY <1>1, LifecycleInvariant, PTL

(* An orderly end (root.go:95) leaves a socket behind only if the          *)
(* goroutine of Serve never ran.                                           *)
THEOREM OrderlyEndsClean == Spec => []StaleSockets
<1>1. IInv => StaleSockets
  BY DEF IInv, EndInv
<1> QED
  BY <1>1, LifecycleInvariant, PTL

(* The success of stop (stop.go:13) means that the run has begun to end.   *)
THEOREM StopIsTrue == Spec => []StopMeansStopping
<1>1. IInv => StopMeansStopping
  BY DEF IInv
<1> QED
  BY <1>1, LifecycleInvariant, PTL

-----------------------------------------------------------------------------
(* Lifecycle implements SocketFile.                                        *)

Opened == {r \in Runs : open[r]}

LEMMA FileInit == Init => File!Init
  BY DEF Init, File!Init

(* A run's listener is closed, by the run or by the end of its process.    *)
LEMMA ClosedIsReleased ==
  ASSUME RunInv, NEW r \in Runs, CloseListener(r)
  PROVE  File!Release(r) \/ UNCHANGED <<path, Opened>>
<1>1. open' = [open EXCEPT ![r] = FALSE] /\ open \in [Runs -> BOOLEAN]
      /\ path' = (IF open[r] THEN NoRun ELSE path)
  BY DEF CloseListener, Unlinked, RunInv, RunType
<1>2. Opened' = Opened \ {r}
  BY <1>1 DEF Opened
<1>3. CASE open[r]
  <2>1. path = r
    BY <1>3 DEF RunInv, FileInv
  <2> QED
    BY <1>1, <1>2, <1>3, <2>1 DEF File!Release, Opened
<1>4. CASE ~open[r]
  BY <1>1, <1>2, <1>4 DEF Opened
<1> QED
  BY <1>3, <1>4

LEMMA EndIsDeath ==
  ASSUME RunInv, NEW r \in Runs, Exit(r) \/ Kill(r)
  PROVE  File!Die(r) \/ UNCHANGED <<path, Opened>>
<1>1. open' = [open EXCEPT ![r] = FALSE] /\ open \in [Runs -> BOOLEAN] /\ path' = path
  BY DEF Exit, Kill, End, RunInv, RunType
<1>2. Opened' = Opened \ {r}
  BY <1>1 DEF Opened
<1> QED
  BY <1>1, <1>2 DEF File!Die, Opened

LEMMA ListenIsBind ==
  ASSUME RunInv, NEW r \in Runs, Listen(r)
  PROVE  File!Bind(r) \/ UNCHANGED <<path, Opened>>
<1>1. CASE path = NoRun
  <2>1. path' = r /\ open' = [open EXCEPT ![r] = TRUE] /\ open \in [Runs -> BOOLEAN]
    BY <1>1 DEF Listen, RunInv, RunType
  <2>2. Opened' = Opened \cup {r}
    BY <2>1 DEF Opened
  <2> QED
    BY <1>1, <2>1, <2>2 DEF File!Bind, Opened
<1>2. CASE path # NoRun
  BY <1>2 DEF Listen, Opened
<1> QED
  BY <1>1, <1>2

LEMMA FileStep == IInv /\ [Next]_vars => [File!Next]_<<path, Opened>>
<1> SUFFICES ASSUME IInv, [Next]_vars
             PROVE  File!Next \/ UNCHANGED <<path, Opened>>
  OBVIOUS
<1>1. RunInv
  BY Halves
<1>2. ASSUME NEW r \in Runs, CloseListener(r)
      PROVE  File!Next \/ UNCHANGED <<path, Opened>>
  BY <1>1, <1>2, ClosedIsReleased DEF File!Next
<1>3. ASSUME UNCHANGED <<path, open>>
      PROVE  UNCHANGED <<path, Opened>>
  BY <1>3 DEF Opened
<1>4. ASSUME NEW r \in Runs, Main(r) \/ Kill(r)
      PROVE  File!Next \/ UNCHANGED <<path, Opened>>
  <2>1. CASE Launch(r) \/ Return(r)
    BY <1>3, <2>1 DEF Launch, Return, serverVars
  <2>2. CASE Exit(r) \/ Kill(r)
    BY <1>1, <2>2, EndIsDeath DEF File!Next
  <2> QED
    BY <1>4, <2>1, <2>2 DEF Main
<1>5. ASSUME NEW r \in Runs, Validate(r) \/ Abort(r) \/ Cancel(r) \/ Unwind(r)
      PROVE  UNCHANGED <<path, Opened>>
  BY <1>3, <1>5 DEF Validate, Abort, Cancel, Unwind, serverVars
<1>6. ASSUME NEW r \in Runs, Server(r)
      PROVE  File!Next \/ UNCHANGED <<path, Opened>>
  <2>1. CASE Listen(r)
    BY <1>1, <2>1, ListenIsBind DEF File!Next
  <2>2. CASE Leave(r)
    BY <1>2, <1>3, <2>2 DEF Leave
  <2>3. CASE Fail(r)
    BY <1>3, <2>3 DEF Fail
  <2> QED
    BY <1>6, <2>1, <2>2, <2>3 DEF Server
<1>7. ASSUME NEW r \in Runs, Serve(r)
      PROVE  File!Next \/ UNCHANGED <<path, Opened>>
  <2>1. CASE Track(r)
    BY <1>2, <1>3, <2>1 DEF Track
  <2>2. CASE Accept(r) \/ ServeEnds(r)
    BY <1>3, <2>2 DEF Accept, ServeEnds, serverVars
  <2> QED
    BY <1>7, <2>1, <2>2 DEF Serve
<1>8. ASSUME NEW c \in Clients, Dial(c) \/ Handle(c)
      PROVE  File!Next \/ UNCHANGED <<path, Opened>>
  <2>1. CASE Dial(c) \/ Respond(c)
    BY <1>3, <2>1 DEF Dial, Respond, serverVars
  <2>2. CASE Shutdown(c)
    <3>1. conn[c] \in Runs /\ CloseListener(conn[c])
      BY <2>2, HandledByRun DEF Shutdown
    <3> QED
      BY <1>2, <3>1
  <2> QED
    BY <1>8, <2>1, <2>2 DEF Handle
<1>9. CASE Clear
  <2>1. path \in Runs /\ ~open[path] /\ path' = NoRun /\ open' = open
    BY <1>1, <1>9 DEF Clear, serverVars, RunInv, RunType, FileInv, Alive, Dead
  <2>2. path \notin Opened /\ Opened' = Opened
    BY <2>1 DEF Opened
  <2> QED
    BY <2>1, <2>2 DEF File!Next, File!Clear, Opened
<1>10. CASE UNCHANGED vars
  BY <1>3, <1>10 DEF vars, serverVars
<1> QED
  BY <1>4, <1>5, <1>6, <1>7, <1>8, <1>9, <1>10 DEF Next

(* Whatever any number of runs do at the same time, the file at the path   *)
(* belongs to one of them, and none takes or removes another's.            *)
THEOREM FileIsOwn == Spec => OwnFileOnly
<1>1. Init => File!Init
  BY FileInit
<1>2. IInv /\ [Next]_vars => [File!Next]_<<path, Opened>>
  BY FileStep
<1> QED
  BY <1>1, <1>2, LifecycleInvariant, PTL DEF Spec, OwnFileOnly, File!Spec, Opened

=============================================================================
