-------------------------- MODULE RunnerInvariants --------------------------
(***************************************************************************)
(* The inductive invariant of Runner, in five layers; each layer is proved *)
(* from itself and the ones above it.                                      *)
(***************************************************************************)
EXTENDS Runner

-----------------------------------------------------------------------------
(* Layer 1, shape: what each variable can be, at each point of the main    *)
(* goroutine and of the handlers.                                          *)

(* The stages of a handler, by the type it is a method of.                 *)
HandlerStages(t) ==
  {"idle"} \cup Ended \cup
    (CASE Kind(t) = "server" -> {"bind", "serve"}
       [] Kind(t) = "agent" -> {"list", "run"}
       [] Kind(t) = "mesh" -> {"render", "list", "run"}
       [] Kind(t) = "external" -> {"render", "register", "defaults", "send",
                                   "publish", "bind", "serve"}
       [] Kind(t) = "service" -> {"render", "register", "proxy", "defaults",
                                  "send", "publish", "group"}
       [] Kind(t) = "sidecar" -> {"list", "run"}
       [] Kind(t) = "listener" -> {"bind", "serve"}
       [] Kind(t) = "gateway" -> {"render", "entry", "write", "list", "run"})

Typed == TypeOK /\ \A t \in Tasks : stage[t] \in HandlerStages(t)

(* The loop index is in the range of the loop the main goroutine is in.    *)
IndexInRange ==
  /\ pc \in {"dc", "ready", "parse"} => idx \in DCs
  /\ pc = "join" => idx \in DCs /\ RunConsul /\ NumDC > 1
  /\ pc = "entry" => idx \in (1..NumResources) \ Gateways
  /\ Awaiting => n # 0

BeforeExternals == {"dc", "ready", "parse", "join", "externals"}
BeforeServices == {"awaitExternals", "services"}

(* What has not been launched is idle.                                     *)
Unlaunched ==
  /\ pc = "dc" => \A t \in Agents : t[2] >= idx => stage[t] = "idle"
  /\ pc \in {"ready", "parse"} => \A t \in Agents : t[2] > idx => stage[t] = "idle"
  /\ pc \in BeforeExternals =>
       \A t \in Meshes \cup ExternalTasks : stage[t] = "idle"
  /\ pc \in BeforeExternals \cup BeforeServices =>
       \A t \in ServiceTasks : stage[t] = "idle"
  /\ pc \in BeforeExternals \cup BeforeServices \cup {"awaitServices"} =>
       \A t \in GatewayTasks : stage[t] = "idle"
  /\ pc \in {"resources", "entry"} =>
       \A t \in GatewayTasks : t[2] >= idx => stage[t] = "idle"

(* What is outstanding belongs to a task at a stage that runs something,   *)
(* or is the command of the main goroutine.                                *)
InflightOwned ==
  /\ \A t \in inflight \cap Tasks : stage[t] \in Outside
  /\ \A t \in inflight \ Tasks : pc \in {"join", "entry"} /\ t = Command

(* The two parts of a mesh service live inside its group.                  *)
PartsInGroup ==
  \A t \in ServiceTasks : \A u \in Parts(t) :
    /\ stage[t] \notin Ended \cup {"group"} => stage[u] = "idle"
    /\ stage[t] = "group" => stage[u] # "idle"
    /\ stage[t] = "done" => stage[u] \in Ended
    /\ stage[t] = "failed" => stage[u] \in Ended \cup {"idle"}

Shape == Typed /\ IndexInRange /\ Unlaunched /\ InflightOwned /\ PartsInGroup

-----------------------------------------------------------------------------
(* Layer 2, cancellation: who cancelled the run, and what is left of it    *)
(* when it has returned.                                                   *)
Returned == pc \in {"returned", "exited"}

Cancellation ==
  /\ Returned => cancelled
  /\ ~Returned => result = "none"
  /\ cancelled <=> interrupted \/ groupErr \/ Returned
  /\ \A t \in GroupTasks : stage[t] = "failed" => groupErr
  /\ stage[ServerTask] # "idle"
  /\ stage[ServerTask] = "done" => cancelled
  /\ result = "nil" => interrupted

Drained == Cancellation /\ GroupDrained

-----------------------------------------------------------------------------
(* Layer 3, the barriers: while the run is not cancelled, a group of       *)
(* services is past its registrations before the next one is launched.     *)
Sent == {"publish", "group", "bind", "serve", "done"}
PastExternals == {"services", "awaitServices", "resources", "entry", "wait"}
PastServices == {"resources", "entry", "wait"}

Barriers ==
  /\ TokensAccounted
  /\ pc \in {"awaitExternals"} \cup (PastExternals \ {"wait"}) =>
       \A t \in ExternalTasks : stage[t] # "idle"
  /\ pc \in {"awaitServices"} \cup (PastServices \ {"wait"}) =>
       \A t \in ServiceTasks : stage[t] # "idle"
  /\ pc \in PastExternals /\ ~cancelled => \A t \in ExternalTasks : stage[t] \in Sent
  /\ pc \in PastServices /\ ~cancelled => \A t \in ServiceTasks : stage[t] \in Sent

-----------------------------------------------------------------------------
(* Layer 4, the order of the changes.                                      *)

(* A handler that has passed a call has had it accepted.                   *)
PassedCalls ==
  /\ \A t \in ExternalTasks :
       /\ stage[t] \in {"defaults", "send"} \cup Sent => <<t, "register">> \in consul
       /\ stage[t] \in {"send"} \cup Sent => <<t, "defaults">> \in consul
  /\ \A t \in ServiceTasks :
       /\ stage[t] \in {"proxy", "defaults", "send"} \cup Sent => <<t, "register">> \in consul
       /\ stage[t] \in {"defaults", "send"} \cup Sent => <<t, "proxy">> \in consul
       /\ stage[t] \in {"send"} \cup Sent => <<t, "defaults">> \in consul
  /\ \A t \in GatewayTasks :
       stage[t] \in {"list", "run", "done"} => <<t, "write">> \in consul

(* So have the joins and the entries the main goroutine has passed.        *)
JoinsBehind(d) == {y \in JoinItems : y[1][2] > d}
EntriesAhead(i) == {y \in EntryItems : y[1][2] < i}
PassedCommands ==
  /\ pc = "join" => JoinsBehind(idx) \subseteq consul
  /\ pc \in {"externals", "awaitExternals"} \cup (PastExternals \ {"wait"}) =>
       JoinItems \subseteq consul
  /\ pc \in {"resources", "entry"} => EntriesAhead(idx) \subseteq consul

(* A task that was launched can rely on what the main goroutine had passed *)
(* then.                                                                   *)
LaunchedAfter ==
  /\ \A t \in Meshes \cup ExternalTasks \cup ServiceTasks :
       stage[t] # "idle" => JoinItems \subseteq consul
  /\ \A t \in GatewayTasks :
       stage[t] # "idle" => JoinItems \cup EntriesAhead(t[2]) \subseteq consul
  /\ \A t \in ServiceTasks :
       stage[t] # "idle" /\ ~cancelled => ExternalItems \subseteq consul
  /\ \A t \in GatewayTasks :
       stage[t] # "idle" /\ ~cancelled => ExternalItems \cup ServiceItems \subseteq consul
  /\ pc \in {"resources", "entry"} /\ ~cancelled =>
       ExternalItems \cup ServiceItems \subseteq consul

(* What is on its way to Consul, and what was accepted, has what it needs. *)
CallsReady ==
  /\ \A t \in inflight \cap Tasks :
       stage[t] \in Calls => Needs[<<t, stage[t]>>] \subseteq consul
  /\ Command \in inflight => Needs[<<Command, pc>>] \subseteq consul
  /\ ProxiesStartConfigured

Ordered == PassedCalls /\ PassedCommands /\ LaunchedAfter /\ CallsReady

-----------------------------------------------------------------------------
(* Layer 5, the control server's list.                                     *)

(* A part of a mesh service only runs after its service was listed.        *)
PublishedFirst ==
  \A u \in SubTasks : stage[u] # "idle" => <<Owner(u), "publish">> \in listed

Listing == ListedIsDeployed /\ PublishedFirst

(* The inductive invariant of the runner: the conjunction of its layers,   *)
(* the strengthening behind every safety property of Runner.tla.           *)
IInv == Shape /\ Drained /\ Barriers /\ Ordered /\ Listing

=============================================================================
