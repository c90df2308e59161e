------------------------------- MODULE Runner -------------------------------
(***************************************************************************)
(* The runner of consul-services: one main goroutine (Runner.Run) boots    *)
(* the agents, joins them, and launches the mesh gateways, the external    *)
(* services, the mesh services and the resources, one group after the      *)
(* other.  Every other activity is a task: a goroutine of the run's        *)
(* errgroup, or one of the two goroutines of a mesh service's own group.   *)
(*                                                                         *)
(* A task walks through the stages of its handler, given by the record of  *)
(* its kind; a stage that calls Consul or runs a child process has the     *)
(* task in "inflight" while the process or request is outstanding.         *)
(***************************************************************************)
EXTENDS Integers, FiniteSets

CONSTANTS NumDC,          \* number of datacenters
          Externals,      \* external services, over all datacenters
          Services,       \* mesh services, over all datacenters
          TCP,            \* the services of both kinds that speak TCP
          NumResources,   \* number of .hcl files in the resource folder
          Gateways,       \* the positions of those that define a gateway
          RunConsul,      \* whether the runner starts the agents itself
          ResourceFolder  \* whether a resource folder is configured

ASSUME DatacentersAssumption == NumDC \in Nat \ {0}
ASSUME ServicesAssumption ==
  /\ IsFiniteSet(Externals)
  /\ IsFiniteSet(Services) /\ Services # {}
  /\ TCP \subseteq Externals \cup Services
ASSUME ResourcesAssumption ==
  /\ NumResources \in Nat
  /\ Gateways \subseteq 1..NumResources
  /\ ResourceFolder \in BOOLEAN
  /\ ~ResourceFolder => NumResources = 0
ASSUME ConsulAssumption == RunConsul \in BOOLEAN

VARIABLES pc,          \* where the main goroutine is
          idx,         \* its loop index
          n,           \* registrations waitForNRegistrations still waits for
          stage,       \* stage of every task
          inflight,    \* tasks with an outstanding child process or request
          consul,      \* the changes Consul has accepted
          listed,      \* what the control server has been told about
          cancelled,   \* whether the run's context is done
          interrupted, \* whether the process received an interrupt
          groupErr,    \* whether the errgroup recorded an error
          result       \* what Runner.Run returned

vars == <<pc, idx, n, stage, inflight, consul, listed,
          cancelled, interrupted, groupErr, result>>

-----------------------------------------------------------------------------
(* Tasks, tagged by the type whose Run method they execute.                *)

DCs == 1..NumDC
ServerTask == <<"server", 0>>
Agents == {"agent"} \X DCs
Meshes == {"mesh"} \X DCs
ExternalTasks == {"external"} \X Externals
ServiceTasks == {"service"} \X Services
Sidecars == {"sidecar"} \X Services
Listeners == {"listener"} \X Services
GatewayTasks == {"gateway"} \X Gateways

GroupTasks == {ServerTask} \cup Agents \cup Meshes \cup ExternalTasks
                \cup ServiceTasks \cup GatewayTasks
SubTasks == Sidecars \cup Listeners
Tasks == GroupTasks \cup SubTasks

Kind(t) == t[1]

(* The commands the main goroutine runs itself: joins and config entries.  *)
Joins == {"join"} \X DCs
Entries == {"entry"} \X ((1..NumResources) \ Gateways)

(* The two goroutines of a mesh service, and the service of either.        *)
Parts(t) == {<<"sidecar", t[2]>>, <<"listener", t[2]>>}
Owner(t) == <<"service", t[2]>>

-----------------------------------------------------------------------------
(* The stages of each handler, in order: stage s is followed by Run[s].    *)

ServerRun == [bind |-> "serve", serve |-> "done"]
AgentRun == [list |-> "run", run |-> "done"]
MeshRun == [render |-> "list", list |-> "run", run |-> "done"]
(* Mutated form: the registration is announced before the defaults.        *)
ExternalRunAnnouncedEarly ==
  [render |-> "register", register |-> "send", send |-> "publish",
   publish |-> "defaults", defaults |-> "bind", bind |-> "serve", serve |-> "done"]
ExternalRun ==
  [render |-> "register", register |-> "defaults", defaults |-> "send",
   send |-> "publish", publish |-> "bind", bind |-> "serve", serve |-> "done"]
(* Mutated form: the proxy registration is forgotten.                      *)
ServiceRunWithoutProxy ==
  [render |-> "register", register |-> "defaults",
   defaults |-> "send", send |-> "publish", publish |-> "group", group |-> "done"]
ServiceRun ==
  [render |-> "register", register |-> "proxy", proxy |-> "defaults",
   defaults |-> "send", send |-> "publish", publish |-> "group", group |-> "done"]
SidecarRun == [list |-> "run", run |-> "done"]
ListenerRun == [bind |-> "serve", serve |-> "done"]
GatewayRun ==
  [render |-> "entry", entry |-> "write", write |-> "list", list |-> "run",
   run |-> "done"]

Following(t, s) ==
  CASE Kind(t) = "server" -> ServerRun[s]
    [] Kind(t) = "agent" -> AgentRun[s]
    [] Kind(t) = "mesh" -> MeshRun[s]
    [] Kind(t) = "external" -> ExternalRun[s]
    [] Kind(t) = "service" -> ServiceRun[s]
    [] Kind(t) = "sidecar" -> SidecarRun[s]
    [] Kind(t) = "listener" -> ListenerRun[s]
    [] Kind(t) = "gateway" -> GatewayRun[s]

First(t) ==
  CASE Kind(t) \in {"server", "listener"} -> "bind"
    [] Kind(t) \in {"agent", "sidecar"} -> "list"
    [] OTHER -> "render"

(* Stages that ask Consul for a change, and all that need a process or     *)
(* request; a task rests in "idle" before its launch.                      *)
Calls == {"register", "proxy", "defaults", "write"}
Outside == Calls \cup {"run"}
Ended == {"done", "failed"}
Stages == Outside \cup Ended \cup {"idle", "render", "entry", "list", "send",
                                   "publish", "group", "bind", "serve"}

-----------------------------------------------------------------------------
(* The changes to Consul and the order the runner means them to have.      *)

JoinItems == IF RunConsul /\ NumDC > 1 THEN Joins \X {"join"} ELSE {}
ExternalItems == ExternalTasks \X {"register", "defaults"}
ServiceItems == ServiceTasks \X {"register", "proxy", "defaults"}
EntryItems == Entries \X {"entry"}
GatewayItems == GatewayTasks \X {"write"}
Items == JoinItems \cup ExternalItems \cup ServiceItems
           \cup EntryItems \cup GatewayItems

(* The calls of the same handler that come before step s.                  *)
EarlierCalls(s) == CASE s = "proxy" -> {"register"}
                     [] s = "defaults" -> {"register", "proxy"}
                     [] OTHER -> {}

(* An agent joins after the agents listed behind it; external services     *)
(* come after the joins, mesh services after the external services, and a  *)
(* resource after the mesh services and the entries that precede it.       *)
Needs ==
  [x \in Items |->
     LET t == x[1]
         own == ({t} \X EarlierCalls(x[2])) \cap Items
     IN CASE Kind(t) = "join" -> {y \in JoinItems : y[1][2] > t[2]}
          [] Kind(t) = "external" -> own \cup JoinItems
          [] Kind(t) = "service" -> own \cup JoinItems \cup ExternalItems
          [] OTHER -> JoinItems \cup ExternalItems \cup ServiceItems
                        \cup {y \in EntryItems : y[1][2] < t[2]}]

-----------------------------------------------------------------------------
(* Mutated form: the parts of a mesh service run under the run's context.  *)
CtxDoneOfRun(t) == cancelled

(* The context a task runs under: a part of a mesh service also stops when *)
(* the other part has failed.                                              *)
CtxDone(t) ==
  \/ cancelled
  \/ t \in SubTasks /\ \E u \in Parts(t) : stage[u] = "failed"

(* Task t moves past its stage.                                            *)
Advance(t) == stage' = [stage EXCEPT ![t] = Following(t, @)]

(* Handler t returns an error: a goroutine of the run's errgroup cancels   *)
(* the run's context, a part of a mesh service only its sibling's.         *)
Fail(t) ==
  /\ stage' = [stage EXCEPT ![t] = "failed"]
  /\ cancelled' = (cancelled \/ t \in GroupTasks)
  /\ groupErr' = (groupErr \/ t \in GroupTasks)

(* group.Go for the tasks of T.                                            *)
Launch(T) == stage' = [t \in Tasks |-> IF t \in T THEN First(t) ELSE stage[t]]

mainVars == <<pc, idx, n, result>>
ctxVars == <<cancelled, groupErr>>

Init ==
  /\ pc = "dc" /\ idx = 1 /\ n = 0
  /\ stage = [t \in Tasks |-> IF t = ServerTask THEN "bind" ELSE "idle"]
  /\ inflight = {} /\ consul = {} /\ listed = {}
  /\ cancelled = FALSE /\ interrupted = FALSE /\ groupErr = FALSE
  /\ result = "none"

-----------------------------------------------------------------------------
(* Steps of the tasks.                                                     *)

(* Ports are allocated and templates rendered, which may fail.             *)
Render(t) ==
  /\ stage[t] = "render"
  /\ \/ Advance(t) /\ UNCHANGED ctxVars
     \/ Fail(t)
  /\ UNCHANGED <<mainVars, inflight, consul, listed, interrupted>>

(* runConsulBinary creates the log file, which may fail, and then calls    *)
(* logFn: the control server lists the instance before it is started.      *)
List(t) ==
  /\ stage[t] \in {"entry", "list"}
  /\ \/ /\ Advance(t)
        /\ listed' = listed \cup {<<t, stage[t]>>}
        /\ UNCHANGED ctxVars
     \/ Fail(t) /\ UNCHANGED listed
  /\ UNCHANGED <<mainVars, inflight, consul, interrupted>>

(* A process or request is started, which a context that is done prevents. *)
Start(t) ==
  /\ stage[t] \in Outside /\ t \notin inflight
  /\ \/ ~CtxDone(t) /\ inflight' = inflight \cup {t} /\ UNCHANGED <<stage, ctxVars>>
     \/ Fail(t) /\ UNCHANGED inflight
  /\ UNCHANGED <<mainVars, consul, listed, interrupted>>

(* The process or request of t succeeds.                                   *)
Finish(t) ==
  /\ t \in inflight
  /\ inflight' = inflight \ {t}
  /\ consul' = consul \cup ({<<t, stage[t]>>} \cap Items)
  /\ Advance(t)
  /\ UNCHANGED <<mainVars, listed, ctxVars, interrupted>>

(* It fails, or is killed because the context is done; Consul may have     *)
(* accepted the change all the same.                                       *)
Break(t) ==
  /\ t \in inflight
  /\ inflight' = inflight \ {t}
  /\ consul' \in {consul, consul \cup ({<<t, stage[t]>>} \cap Items)}
  /\ Fail(t)
  /\ UNCHANGED <<mainVars, listed, interrupted>>

(* The control server learns of a service, which then runs: an external    *)
(* service by itself, a mesh service as a group of two.                    *)
Publish(t) ==
  /\ stage[t] = "publish"
  /\ listed' = listed \cup {<<t, "publish">>}
  /\ stage' = [u \in Tasks |-> IF u = t THEN Following(t, "publish")
                               ELSE IF t \in ServiceTasks /\ u \in Parts(t) THEN First(u)
                               ELSE stage[u]]
  /\ UNCHANGED <<mainVars, inflight, consul, ctxVars, interrupted>>

ReportsBind == {ServerTask} \cup ({"external", "listener"} \X TCP)

(* A listener is opened.  The control server and TCP services report a     *)
(* failure to bind; HTTP services drop the error of ListenAndServe.        *)
Bind(t) ==
  /\ stage[t] = "bind"
  /\ \/ Advance(t) /\ UNCHANGED ctxVars
     \/ t \in ReportsBind /\ Fail(t)
  /\ UNCHANGED <<mainVars, inflight, consul, listed, interrupted>>

(* Mutated form: a server whose loop ends for another reason returns nil.  *)
LeaveEarly(t) ==
  /\ stage[t] = "serve"
  /\ Advance(t)
  /\ UNCHANGED <<mainVars, inflight, consul, listed, ctxVars, interrupted>>

(* A server returns once its context is done.                              *)
Leave(t) ==
  /\ stage[t] = "serve"
  /\ CtxDone(t)
  /\ Advance(t)
  /\ UNCHANGED <<mainVars, inflight, consul, listed, ctxVars, interrupted>>

(* The /shutdown request: Serve fails with ErrServerClosed.                *)
Stop ==
  /\ stage[ServerTask] = "serve"
  /\ Fail(ServerTask)
  /\ UNCHANGED <<mainVars, inflight, consul, listed, interrupted>>

(* Mutated form: the service returns with the first of its parts.          *)
CollectFirst(t) ==
  /\ t \in ServiceTasks /\ stage[t] = "group"
  /\ \E u \in Parts(t) : stage[u] \in Ended
  /\ IF \E u \in Parts(t) : stage[u] = "failed"
       THEN Fail(t)
       ELSE Advance(t) /\ UNCHANGED ctxVars
  /\ UNCHANGED <<mainVars, inflight, consul, listed, interrupted>>

(* A mesh service returns when both of its parts have.                     *)
Collect(t) ==
  /\ t \in ServiceTasks /\ stage[t] = "group"
  /\ \A u \in Parts(t) : stage[u] \in Ended
  /\ IF \E u \in Parts(t) : stage[u] = "failed"
       THEN Fail(t)
       ELSE Advance(t) /\ UNCHANGED ctxVars
  /\ UNCHANGED <<mainVars, inflight, consul, listed, interrupted>>

-----------------------------------------------------------------------------
(* Steps of the main goroutine, in the order of Runner.Run.                *)

(* An error of a main step: with the context done, group.Wait follows;     *)
(* otherwise Run returns at once, and its deferred cancel runs.            *)
Return(r) == pc' = "returned" /\ result' = r /\ cancelled' = TRUE
AbortOrWait ==
  IF cancelled THEN pc' = "wait" /\ UNCHANGED <<result, cancelled>>
               ELSE Return("error")

(* One iteration of the datacenter loop: the agent's configuration is      *)
(* written (an error returns without a look at the context) and the agent  *)
(* launched.                                                               *)
WriteAgent ==
  /\ pc = "dc"
  /\ \/ ~RunConsul /\ pc' = "parse" /\ UNCHANGED <<stage, result, cancelled>>
     \/ RunConsul /\ pc' = "ready" /\ Launch({<<"agent", idx>>})
          /\ UNCHANGED <<result, cancelled>>
     \/ RunConsul /\ Return("error") /\ UNCHANGED stage
  /\ UNCHANGED <<idx, n, inflight, consul, listed, groupErr, interrupted>>

(* ready returns: the agent has answered while the context was not done,   *)
(* or the retries are over.  Then the agent's client is made, an error of  *)
(* which returns without a look at the context.                            *)
Ready ==
  /\ pc = "ready"
  /\ \/ ~cancelled /\ pc' = "parse" /\ UNCHANGED <<result, cancelled>>
     \/ AbortOrWait
     \/ Return("error")
  /\ UNCHANGED <<idx, n, stage, inflight, consul, listed, groupErr, interrupted>>

(* The datacenter's resource files are parsed; then the next datacenter,   *)
(* or the joins of the agents, the last agent first.                       *)
Parse ==
  /\ pc = "parse"
  /\ \/ idx < NumDC /\ pc' = "dc" /\ idx' = idx + 1 /\ UNCHANGED <<result, cancelled>>
     \/ idx = NumDC /\ pc' = (IF JoinItems = {} THEN "externals" ELSE "join")
          /\ UNCHANGED <<idx, result, cancelled>>
     \/ ResourceFolder /\ AbortOrWait /\ UNCHANGED idx
  /\ UNCHANGED <<n, stage, inflight, consul, listed, groupErr, interrupted>>

(* A command of the main goroutine: the join of agent idx, or the config   *)
(* entry at position idx.                                                  *)
Command == <<pc, idx>>
StartCommand ==
  /\ pc \in {"join", "entry"} /\ Command \notin inflight
  /\ \/ ~cancelled /\ inflight' = inflight \cup {Command}
          /\ UNCHANGED <<pc, result, cancelled>>
     \/ AbortOrWait /\ UNCHANGED inflight
  /\ UNCHANGED <<idx, n, stage, consul, listed, groupErr, interrupted>>

(* Mutated form: the loop stops before the first agent has joined.         *)
FinishJoinsButFirst ==
  /\ pc \in {"join", "entry"} /\ Command \in inflight
  /\ inflight' = inflight \ {Command}
  /\ consul' = consul \cup {<<Command, pc>>}
  /\ IF pc = "entry" THEN pc' = "resources" /\ idx' = idx + 1
     ELSE IF idx > 2 THEN pc' = "join" /\ idx' = idx - 1
     ELSE pc' = "externals" /\ idx' = idx
  /\ UNCHANGED <<n, result, stage, listed, ctxVars, interrupted>>

(* The command succeeds: the next entry, or the join of the agent before.  *)
FinishCommand ==
  /\ pc \in {"join", "entry"} /\ Command \in inflight
  /\ inflight' = inflight \ {Command}
  /\ consul' = consul \cup {<<Command, pc>>}
  /\ IF pc = "entry" THEN pc' = "resources" /\ idx' = idx + 1
     ELSE IF idx > 1 THEN pc' = "join" /\ idx' = idx - 1
     ELSE pc' = "externals" /\ idx' = idx
  /\ UNCHANGED <<n, result, stage, listed, ctxVars, interrupted>>

BreakCommand ==
  /\ pc \in {"join", "entry"} /\ Command \in inflight
  /\ inflight' = inflight \ {Command}
  /\ consul' \in {consul, consul \cup {<<Command, pc>>}}
  /\ AbortOrWait
  /\ UNCHANGED <<idx, n, stage, listed, groupErr, interrupted>>

(* Mutated form: the external services are not waited for.                 *)
StartExternalsOnly ==
  /\ pc = "externals"
  /\ Launch(Meshes \cup ExternalTasks)
  /\ n' = 0
  /\ pc' = "services"
  /\ UNCHANGED <<idx, result, inflight, consul, listed, ctxVars, interrupted>>

(* Mutated form: one registration too many is expected.                    *)
StartExternalsExpectingMore ==
  /\ pc = "externals"
  /\ Launch(Meshes \cup ExternalTasks)
  /\ n' = Cardinality(Externals) + 1
  /\ pc' = "awaitExternals"
  /\ UNCHANGED <<idx, result, inflight, consul, listed, ctxVars, interrupted>>

(* Mesh gateways and external services are launched; with no external      *)
(* service waitForNRegistrations returns at once.                          *)
StartExternals ==
  /\ pc = "externals"
  /\ Launch(Meshes \cup ExternalTasks)
  /\ n' = Cardinality(Externals)
  /\ pc' = IF n' = 0 THEN "services" ELSE "awaitExternals"
  /\ UNCHANGED <<idx, result, inflight, consul, listed, ctxVars, interrupted>>

(* Mutated form: one registration too few is expected.                     *)
StartServicesExpectingFewer ==
  /\ pc = "services"
  /\ Launch(ServiceTasks)
  /\ n' = Cardinality(Services) - 1
  /\ pc' = "awaitServices"
  /\ UNCHANGED <<idx, result, inflight, consul, listed, ctxVars, interrupted>>

(* The mesh services are launched and waited for in the same way.          *)
StartServices ==
  /\ pc = "services"
  /\ Launch(ServiceTasks)
  /\ n' = Cardinality(Services)
  /\ pc' = "awaitServices"
  /\ UNCHANGED <<idx, result, inflight, consul, listed, ctxVars, interrupted>>

Awaiting == pc \in {"awaitExternals", "awaitServices"}
AfterAwait ==
  IF pc = "awaitExternals" THEN pc' = "services" /\ UNCHANGED idx
                           ELSE pc' = "resources" /\ idx' = 1

(* The rendezvous on the unbuffered registration channel: any task that    *)
(* sends, whatever the main goroutine is waiting for.                      *)
Handoff(t) ==
  /\ Awaiting /\ stage[t] = "send"
  /\ Advance(t)
  /\ n' = n - 1
  /\ IF n' = 0 THEN AfterAwait ELSE UNCHANGED <<pc, idx>>
  /\ UNCHANGED <<result, inflight, consul, listed, ctxVars, interrupted>>

(* waitForNRegistrations gives up when the context is done.                *)
GiveUp ==
  /\ Awaiting /\ cancelled
  /\ AfterAwait
  /\ UNCHANGED <<n, result, stage, inflight, consul, listed, ctxVars, interrupted>>

(* The resource at position idx: a gateway is launched, an entry is        *)
(* rendered, given a log file and listed before its command starts.        *)
NextResource ==
  /\ pc = "resources"
  /\ \/ /\ idx > NumResources
        /\ pc' = "wait"
        /\ UNCHANGED <<idx, stage, listed, result, cancelled>>
     \/ /\ idx \in Gateways
        /\ Launch({<<"gateway", idx>>})
        /\ idx' = idx + 1
        /\ UNCHANGED <<pc, listed, result, cancelled>>
     \/ /\ idx \in (1..NumResources) \ Gateways
        /\ pc' = "entry"
        /\ listed' = listed \cup {<<<<"entry", idx>>, "entry">>}
        /\ UNCHANGED <<idx, stage, result, cancelled>>
     \/ /\ idx \in (1..NumResources) \ Gateways
        /\ AbortOrWait
        /\ UNCHANGED <<idx, stage, listed>>
  /\ UNCHANGED <<n, inflight, consul, groupErr, interrupted>>

(* group.Wait returns when every goroutine of the errgroup has.            *)
Wait ==
  /\ pc = "wait"
  /\ \A t \in GroupTasks : stage[t] \in Ended \cup {"idle"}
  /\ Return(IF groupErr THEN "groupError" ELSE "nil")
  /\ UNCHANGED <<idx, n, stage, inflight, consul, listed, groupErr, interrupted>>

(* The command calls os.Exit; no goroutine runs after that.                *)
Exit ==
  /\ pc = "returned"
  /\ pc' = "exited"
  /\ UNCHANGED <<idx, n, result, stage, inflight, consul, listed, ctxVars, interrupted>>

(* Ctrl-C: the parent of the run's context is done.                        *)
Interrupt ==
  /\ ~interrupted
  /\ interrupted' = TRUE /\ cancelled' = TRUE
  /\ UNCHANGED <<mainVars, stage, inflight, consul, listed, groupErr>>

-----------------------------------------------------------------------------
(* The steps a scheduler owes to every goroutine, and the ends of the      *)
(* processes: a short command ends by itself, and any is killed when its   *)
(* context is done.                                                        *)
Alive == pc # "exited"

Local(t) == Render(t) \/ List(t) \/ Start(t) \/ Publish(t) \/ Bind(t)
              \/ Leave(t) \/ Collect(t)
Ending(t) == Finish(t) \/ Break(t)
(* Mutated form: the wait does not look at the context.                    *)
ReceiveOnly == \E t \in Tasks : Handoff(t)
Receive == GiveUp \/ \E t \in Tasks : Handoff(t)
Main == WriteAgent \/ Ready \/ Parse \/ StartCommand \/ FinishCommand
          \/ BreakCommand \/ StartExternals \/ StartServices \/ NextResource
          \/ Wait \/ Exit

Next ==
  /\ Alive
  /\ \/ \E t \in Tasks : Local(t) \/ Ending(t)
     \/ Receive \/ Main \/ Stop \/ Interrupt

Fairness ==
  /\ \A t \in Tasks :
       /\ WF_vars(Alive /\ Local(t))
       /\ WF_vars(Alive /\ (stage[t] # "run" \/ CtxDone(t)) /\ Ending(t))
  /\ WF_vars(Alive /\ Receive)
  /\ WF_vars(Alive /\ Main)

Spec == Init /\ [][Next]_vars
FairSpec == Spec /\ Fairness

-----------------------------------------------------------------------------
(* Type invariant: every variable of Runner.Run and of the task handlers   *)
(* stays in the range the code gives it.                                   *)
TypeOK ==
  /\ pc \in {"dc", "ready", "parse", "join", "externals", "awaitExternals",
             "services", "awaitServices", "resources", "entry", "wait",
             "returned", "exited"}
  /\ idx \in Nat \ {0}
  /\ n \in Nat
  /\ stage \in [Tasks -> Stages]
  /\ inflight \subseteq Tasks \cup Joins \cup Entries
  /\ consul \subseteq Items
  /\ listed \subseteq (Tasks \cup Entries) \X {"entry", "list", "publish"}
  /\ cancelled \in BOOLEAN /\ interrupted \in BOOLEAN /\ groupErr \in BOOLEAN
  /\ result \in {"none", "nil", "groupError", "error"}

(* The run implements the staged rollout: whatever fails, is interrupted   *)
(* or is killed half-way, Consul never holds a change made before the ones *)
(* it builds on: joins in reverse order, then external services, then mesh *)
(* services, then resources (the order of runner.go:147-204).              *)
Rollout == INSTANCE StagedRollout WITH deployed <- consul
Staged == Rollout!Spec

(* A proxy is only ever run in front of what Consul knows: a mesh gateway  *)
(* once the datacenters are joined, a sidecar once its service, its proxy  *)
(* and all external services are registered, a gateway once its own entry  *)
(* and everything before it is written.                                    *)
ProxiesStartConfigured ==
  \A t \in inflight \cap Tasks : stage[t] = "run" =>
    CASE Kind(t) = "mesh" -> JoinItems \subseteq consul
      [] Kind(t) = "sidecar" ->
           ExternalItems \cup {y \in ServiceItems : y[1] = Owner(t)} \subseteq consul
      [] Kind(t) = "gateway" ->
           (Needs[<<t, "write">>] \cup {<<t, "write">>}) \subseteq consul
      [] OTHER -> TRUE

(* What `list`, `get` and `report` say of a service is true: the control   *)
(* server lists it only when its registrations and defaults are in Consul, *)
(* and lists its sidecar only after the service itself.                    *)
ListedIsDeployed ==
  /\ \A t \in ExternalTasks \cup ServiceTasks : <<t, "publish">> \in listed =>
       {y \in ExternalItems \cup ServiceItems : y[1] = t} \subseteq consul
  /\ \A t \in Sidecars : <<t, "list">> \in listed => <<Owner(t), "publish">> \in listed

(* While the run is not cancelled, the registrations waitForNRegistrations *)
(* still expects are exactly those still to be sent: no token is lost, and *)
(* none is counted for the wrong group.                                    *)
Unsent == {"render", "register", "proxy", "defaults", "send"}
TokensAccounted ==
  Awaiting /\ ~cancelled =>
    n = Cardinality({t \in ExternalTasks \cup ServiceTasks : stage[t] \in Unsent})

(* When Run returns what group.Wait returned, nothing it started is left:  *)
(* every goroutine has ended and no process or request is outstanding.     *)
GroupDrained ==
  pc \in {"returned", "exited"} /\ result \in {"nil", "groupError"} =>
    /\ inflight = {}
    /\ \A t \in Tasks : stage[t] \in Ended \cup {"idle"}

(* The exit status of the root command: an error counts unless the process *)
(* was interrupted.                                                        *)
ExitStatus == IF result # "nil" /\ ~interrupted THEN 1 ELSE 0

(* The run never ends by itself with success: not when every process has   *)
(* exited cleanly, nor after the `stop` command.                           *)
SuccessIsInterrupt == pc = "exited" /\ ExitStatus = 0 => interrupted

(* A cancelled run returns, unless a task is blocked on the registration   *)
(* channel nobody reads any more.                                          *)
UnwindsOrBlocks ==
  cancelled ~> \/ pc \in {"returned", "exited"}
               \/ \E t \in Tasks : stage[t] = "send" /\ ~Awaiting

(* Left alone, the bring-up ends: the main goroutine reaches its final     *)
(* wait, or the run is cancelled.                                          *)
BringUpEnds == <>(cancelled \/ pc = "wait")

(* The failure of any goroutine ends the run: also that of one half of a   *)
(* mesh service, which first has to bring down the other half, whose       *)
(* process runs until it is killed.                                        *)
FailuresEndTheRun == (\E t \in Tasks : stage[t] = "failed") ~> cancelled

(* runner.go:217 says of a cancelled wait "just let the rest of the        *)
(* cancellation fall through": the run then ends.                          *)
CancellationFallsThrough == cancelled ~> pc = "exited"

(* command.go:64: "Cleanup cleans up system resources after we're done":   *)
(* no child process outlives the run.                                      *)
NoOrphans ==
  pc = "exited" => \A t \in inflight : t \in ExternalTasks /\ stage[t] = "register"

=============================================================================
