---------------------------- MODULE RunnerProofs ----------------------------
(***************************************************************************)
(* Proofs, for every number of datacenters, services and resources, that   *)
(* the runner keeps its safety properties.  The inductive invariant IInv   *)
(* is established layer by layer; see RunnerInvariants.                    *)
(***************************************************************************)
EXTENDS RunnerInvariants, FiniteSetTheorems, TLAPS

-----------------------------------------------------------------------------
(* Tasks and handlers.                                                     *)

LEMMA TaskCases ==
  ASSUME NEW t \in Tasks
  PROVE  \/ t = ServerTask /\ Kind(t) = "server"
         \/ t \in Agents /\ Kind(t) = "agent"
         \/ t \in Meshes /\ Kind(t) = "mesh"
         \/ t \in ExternalTasks /\ Kind(t) = "external"
         \/ t \in ServiceTasks /\ Kind(t) = "service"
         \/ t \in Sidecars /\ Kind(t) = "sidecar"
         \/ t \in Listeners /\ Kind(t) = "listener"
         \/ t \in GatewayTasks /\ Kind(t) = "gateway"
  BY DEF Tasks, GroupTasks, SubTasks, ServerTask, Agents, Meshes, ExternalTasks,
         ServiceTasks, Sidecars, Listeners, GatewayTasks, Kind

LEMMA KindSets ==
  /\ Kind(ServerTask) = "server" /\ ServerTask \in Tasks
  /\ \A t \in Agents : Kind(t) = "agent" /\ t \in Tasks
  /\ \A t \in Meshes : Kind(t) = "mesh" /\ t \in Tasks
  /\ \A t \in ExternalTasks : Kind(t) = "external" /\ t \in Tasks
  /\ \A t \in ServiceTasks : Kind(t) = "service" /\ t \in Tasks
  /\ \A t \in Sidecars : Kind(t) = "sidecar" /\ t \in Tasks
  /\ \A t \in Listeners : Kind(t) = "listener" /\ t \in Tasks
  /\ \A t \in GatewayTasks : Kind(t) = "gateway" /\ t \in Tasks
  /\ \A t \in Joins : Kind(t) = "join" /\ t \notin Tasks
  /\ \A t \in Entries : Kind(t) = "entry" /\ t \notin Tasks
  BY DEF Tasks, GroupTasks, SubTasks, ServerTask, Agents, Meshes, ExternalTasks,
         ServiceTasks, Sidecars, Listeners, GatewayTasks, Joins, Entries, Kind

LEMMA NextStage ==
  ASSUME NEW t \in Tasks, NEW s \in HandlerStages(t), s \notin Ended, s # "idle"
  PROVE  Following(t, s) \in HandlerStages(t) \ {"idle", "failed"}
  BY TaskCases DEF HandlerStages, Following, Ended, ServerRun, AgentRun, MeshRun,
       ExternalRun, ServiceRun, SidecarRun, ListenerRun, GatewayRun

LEMMA FirstStage ==
  ASSUME NEW t \in Tasks
  PROVE  First(t) \in HandlerStages(t) \ (Ended \cup {"idle"})
  BY TaskCases DEF HandlerStages, First, Ended

LEMMA StagesOfHandlers ==
  ASSUME NEW t \in Tasks
  PROVE  HandlerStages(t) \subseteq Stages
  BY TaskCases DEF HandlerStages, Stages, Outside, Calls, Ended
-----------------------------------------------------------------------------
(* Layer 1: shape.                                                         *)

StageTyped ==
  /\ stage \in [Tasks -> Stages]
  /\ \A t \in Tasks : stage[t] \in HandlerStages(t)

LEMMA MoveTyped ==
  ASSUME StageTyped, NEW t \in Tasks, NEW s \in HandlerStages(t),
         stage' = [stage EXCEPT ![t] = s]
  PROVE  /\ StageTyped'
         /\ stage'[t] = s
         /\ \A u \in Tasks \ {t} : stage'[u] = stage[u]
  BY StagesOfHandlers DEF StageTyped, HandlerStages, Kind

LEMMA LaunchTyped ==
  ASSUME StageTyped, NEW T, Launch(T)
  PROVE  /\ StageTyped'
         /\ \A t \in Tasks : stage'[t] = IF t \in T THEN First(t) ELSE stage[t]
  BY StagesOfHandlers, FirstStage DEF StageTyped, HandlerStages, Kind, Launch

LEMMA FailTyped ==
  ASSUME StageTyped, NEW t \in Tasks, Fail(t)
  PROVE  /\ StageTyped'
         /\ stage'[t] = "failed"
         /\ \A u \in Tasks \ {t} : stage'[u] = stage[u]
  <1>1. "failed" \in HandlerStages(t)
    BY DEF HandlerStages, Ended
  <1> QED
    BY <1>1, MoveTyped DEF Fail

LEMMA AdvanceTyped ==
  ASSUME StageTyped, NEW t \in Tasks, stage[t] \notin Ended, stage[t] # "idle", Advance(t)
  PROVE  /\ StageTyped'
         /\ stage'[t] = Following(t, stage[t])
         /\ stage'[t] \notin {"idle", "failed"}
         /\ \A u \in Tasks \ {t} : stage'[u] = stage[u]
  <1>1. Following(t, stage[t]) \in HandlerStages(t) \ {"idle", "failed"}
    BY NextStage DEF StageTyped
  <1>2. stage' = [stage EXCEPT ![t] = Following(t, stage[t])]
    BY DEF Advance
  <1> QED
    BY <1>1, <1>2, MoveTyped

LEMMA HandlerSteps ==
  ASSUME NEW t \in Tasks, Local(t) \/ Ending(t)
  PROVE  Render(t) \/ List(t) \/ Start(t) \/ Finish(t) \/ Break(t) \/ Publish(t)
           \/ Bind(t) \/ Leave(t) \/ Collect(t)
  BY DEF Local, Ending

LEMMA PartsTyped ==
  ASSUME NEW t \in ServiceTasks
  PROVE  Parts(t) \subseteq SubTasks /\ t \notin Parts(t)
  BY DEF ServiceTasks, Parts, SubTasks, Sidecars, Listeners

LEMMA PublishTyped ==
  ASSUME StageTyped, NEW t \in Tasks, Publish(t)
  PROVE  /\ StageTyped'
         /\ stage'[t] = Following(t, "publish")
         /\ stage'[t] \notin {"idle", "failed"}
         /\ \A u \in Tasks \ {t} :
              stage'[u] = IF t \in ServiceTasks /\ u \in Parts(t) THEN First(u) ELSE stage[u]
  <1>1. Following(t, "publish") \in HandlerStages(t) \ {"idle", "failed"}
    BY NextStage DEF StageTyped, Publish, Ended
  <1>2. \A u \in Tasks : stage'[u] = IF u = t THEN Following(t, "publish")
                     ELSE IF t \in ServiceTasks /\ u \in Parts(t) THEN First(u)
                     ELSE stage[u]
    BY DEF Publish
  <1>3. \A u \in Tasks : stage'[u] \in HandlerStages(u)
    BY <1>1, <1>2, FirstStage DEF StageTyped
  <1>4. stage' \in [Tasks -> Stages]
    BY <1>3, <1>2, StagesOfHandlers DEF Publish
  <1> QED
    BY <1>1, <1>2, <1>3, <1>4 DEF StageTyped, HandlerStages, Kind

LEMMA StageKinds ==
  ASSUME StageTyped, NEW t \in Tasks
  PROVE  /\ stage[t] = "publish" => t \in ExternalTasks \cup ServiceTasks
         /\ stage[t] = "send" => t \in ExternalTasks \cup ServiceTasks
         /\ stage[t] = "register" => t \in ExternalTasks \cup ServiceTasks
         /\ stage[t] = "proxy" => t \in ServiceTasks
         /\ stage[t] = "defaults" => t \in ExternalTasks \cup ServiceTasks
         /\ stage[t] = "write" => t \in GatewayTasks
         /\ stage[t] = "entry" => t \in GatewayTasks
         /\ stage[t] = "group" => t \in ServiceTasks
         /\ stage[t] = "run" => t \in Agents \cup Meshes \cup Sidecars \cup GatewayTasks
         /\ stage[t] = "serve" => t \in {ServerTask} \cup ExternalTasks \cup Listeners
  BY TaskCases DEF StageTyped, HandlerStages, Ended

(* What a step of a handler does to the stages: nothing, one move of that  *)
(* handler, or the start of a mesh service's group.                        *)
LEMMA HandlerMoves ==
  ASSUME StageTyped, InflightOwned, NEW t \in Tasks, Local(t) \/ Ending(t)
  PROVE  /\ StageTyped'
         /\ stage[t] \notin Ended \cup {"idle"}
         /\ \/ stage'[t] = stage[t] /\ UNCHANGED ctxVars
            \/ Fail(t) /\ stage'[t] = "failed"
            \/ stage'[t] = Following(t, stage[t]) /\ stage'[t] \notin {"idle", "failed"}
                 /\ UNCHANGED ctxVars
         /\ \A u \in Tasks \ {t} :
              stage'[u] = IF Publish(t) /\ t \in ServiceTasks /\ u \in Parts(t)
                          THEN First(u) ELSE stage[u]
         /\ UNCHANGED mainVars
  <1>1. stage[t] \notin Ended \cup {"idle"}
    BY DEF Local, Ending, Render, List, Start, Finish, Break, Publish, Bind, Leave,
           Collect, InflightOwned, Outside, Calls, Ended
  <1>2. UNCHANGED mainVars
    BY DEF Local, Ending, Render, List, Start, Finish, Break, Publish, Bind, Leave, Collect
  <1>3. CASE Publish(t)
    BY <1>1, <1>2, <1>3, PublishTyped DEF Publish
  <1>4. CASE ~Publish(t)
    <2>1. \/ UNCHANGED <<stage, ctxVars>>
          \/ Fail(t)
          \/ Advance(t) /\ UNCHANGED ctxVars
      BY <1>4 DEF Local, Ending, Render, List, Start, Finish, Break, Bind, Leave, Collect
    <2>2. CASE UNCHANGED <<stage, ctxVars>>
      BY <1>1, <1>2, <1>4, <2>2 DEF StageTyped, HandlerStages, Kind
    <2>3. CASE Fail(t)
      BY <1>1, <1>2, <1>4, <2>3, FailTyped
    <2>4. CASE Advance(t) /\ UNCHANGED ctxVars
      BY <1>1, <1>2, <1>4, <2>4, AdvanceTyped
    <2> QED
      BY <2>1, <2>2, <2>3, <2>4
  <1> QED
    BY <1>3, <1>4

(* What a step of the main goroutine, or the rendezvous, does to them.     *)
LEMMA MainMoves ==
  ASSUME StageTyped, Main
  PROVE  /\ StageTyped'
         /\ \/ stage' = stage
            \/ pc = "dc" /\ Launch({<<"agent", idx>>})
            \/ pc = "externals" /\ Launch(Meshes \cup ExternalTasks)
            \/ pc = "services" /\ Launch(ServiceTasks)
            \/ pc = "resources" /\ idx \in Gateways /\ Launch({<<"gateway", idx>>})
  <1>1. \/ stage' = stage
        \/ pc = "dc" /\ Launch({<<"agent", idx>>})
        \/ pc = "externals" /\ Launch(Meshes \cup ExternalTasks)
        \/ pc = "services" /\ Launch(ServiceTasks)
        \/ pc = "resources" /\ idx \in Gateways /\ Launch({<<"gateway", idx>>})
    BY DEF Main, WriteAgent, Ready, Parse, StartCommand, FinishCommand, BreakCommand,
           StartExternals, StartServices, NextResource, Wait, Exit
  <1>2. CASE stage' = stage
    BY <1>1, <1>2 DEF StageTyped, HandlerStages, Kind
  <1>3. CASE stage' # stage
    BY <1>1, <1>3, LaunchTyped
  <1> QED
    BY <1>1, <1>2, <1>3

LEMMA HandoffMoves ==
  ASSUME StageTyped, NEW t \in Tasks, Handoff(t)
  PROVE  /\ StageTyped'
         /\ t \in ExternalTasks \cup ServiceTasks
         /\ stage[t] = "send" /\ stage'[t] = "publish"
         /\ \A u \in Tasks \ {t} : stage'[u] = stage[u]
  <1>1. t \in ExternalTasks \cup ServiceTasks /\ stage[t] = "send" /\ Advance(t)
    BY StageKinds DEF Handoff
  <1>2. Following(t, "send") = "publish"
    BY <1>1, KindSets DEF Following, ExternalRun, ServiceRun
  <1> QED
    BY <1>1, <1>2, AdvanceTyped DEF Ended

(* The steps of the runner.                                                *)
LEMMA Steps ==
  ASSUME [Next]_vars
  PROVE  \/ \E t \in Tasks : Local(t) \/ Ending(t)
         \/ \E t \in Tasks : Handoff(t)
         \/ GiveUp
         \/ Main
         \/ Stop
         \/ Interrupt
         \/ UNCHANGED vars
  BY DEF Next, Receive

LEMMA StageTypedStep ==
  ASSUME StageTyped, InflightOwned, [Next]_vars
  PROVE  StageTyped'
  <1>1. ServerTask \in Tasks
    BY KindSets
  <1>2. ASSUME UNCHANGED stage
        PROVE  StageTyped'
    BY <1>2 DEF StageTyped, HandlerStages, Kind
  <1> QED
    BY <1>1, <1>2, Steps, HandlerMoves, HandoffMoves, MainMoves, FailTyped
       DEF GiveUp, Stop, Interrupt, vars

LEMMA CountTypes ==
  /\ Cardinality(Externals) \in Nat
  /\ Cardinality(Services) \in Nat \ {0}
  BY ServicesAssumption, FS_CardinalityType, FS_EmptySet

(* The variables of the main goroutine, and of the context.                *)
MainTyped ==
  /\ pc \in {"dc", "ready", "parse", "join", "externals", "awaitExternals",
             "services", "awaitServices", "resources", "entry", "wait",
             "returned", "exited"}
  /\ idx \in Nat \ {0}
  /\ n \in Nat
  /\ cancelled \in BOOLEAN /\ interrupted \in BOOLEAN /\ groupErr \in BOOLEAN
  /\ result \in {"none", "nil", "groupError", "error"}
  /\ IndexInRange

LEMMA MainTypedStep ==
  ASSUME MainTyped, StageTyped, InflightOwned, [Next]_vars
  PROVE  MainTyped'
  <1> USE DatacentersAssumption, ResourcesAssumption, ConsulAssumption, CountTypes
      DEF MainTyped, IndexInRange, DCs, Awaiting, mainVars, ctxVars
  <1>1. ASSUME NEW t \in Tasks, Local(t) \/ Ending(t)
        PROVE  MainTyped'
    <2>1. UNCHANGED mainVars /\ cancelled' \in BOOLEAN /\ groupErr' \in BOOLEAN
      BY <1>1, HandlerMoves DEF Fail
    <2>2. UNCHANGED interrupted
      BY <1>1, HandlerSteps DEF Render, List, Start, Finish, Break, Publish, Bind,
             Leave, Collect
    <2> QED
      BY <2>1, <2>2
  <1>2. ASSUME NEW t \in Tasks, Handoff(t)
        PROVE  MainTyped'
    BY <1>2 DEF Handoff, AfterAwait
  <1>3. CASE GiveUp
    BY <1>3 DEF GiveUp, AfterAwait
  <1>4. CASE WriteAgent
    BY <1>4 DEF WriteAgent, Return
  <1>5. CASE Ready
    BY <1>5 DEF Ready, AbortOrWait, Return
  <1>6. CASE Parse
    <2>1. JoinItems # {} => RunConsul /\ NumDC > 1
      BY DEF JoinItems
    <2>2. idx \in DCs /\ pc = "parse" /\ UNCHANGED <<n, groupErr, interrupted>>
      BY <1>6 DEF Parse
    <2>3. CASE idx < NumDC /\ pc' = "dc" /\ idx' = idx + 1 /\ UNCHANGED <<result, cancelled>>
      BY <2>2, <2>3
    <2>4. CASE idx = NumDC /\ pc' = (IF JoinItems = {} THEN "externals" ELSE "join")
                 /\ UNCHANGED <<idx, result, cancelled>>
      BY <2>1, <2>2, <2>4
    <2>5. CASE AbortOrWait /\ UNCHANGED idx
      BY <2>2, <2>5 DEF AbortOrWait, Return
    <2> QED
      BY <1>6, <2>3, <2>4, <2>5 DEF Parse
  <1>7. CASE StartCommand \/ BreakCommand
    BY <1>7 DEF StartCommand, BreakCommand, AbortOrWait, Return
  <1>8. CASE FinishCommand
    BY <1>8 DEF FinishCommand
  <1>9. CASE StartExternals \/ StartServices
    BY <1>9 DEF StartExternals, StartServices
  <1>10. CASE NextResource
    <2>1. pc = "resources" /\ UNCHANGED <<n, groupErr, interrupted>>
      BY <1>10 DEF NextResource
    <2>2. CASE pc' = "wait" /\ UNCHANGED <<idx, result, cancelled>>
      BY <2>1, <2>2
    <2>3. CASE idx' = idx + 1 /\ UNCHANGED <<pc, result, cancelled>>
      BY <2>1, <2>3
    <2>4. CASE idx \in (1..NumResources) \ Gateways /\ pc' = "entry"
                 /\ UNCHANGED <<idx, result, cancelled>>
      BY <2>1, <2>4
    <2>5. CASE AbortOrWait /\ UNCHANGED idx
      BY <2>1, <2>5 DEF AbortOrWait, Return
    <2> QED
      BY <1>10, <2>2, <2>3, <2>4, <2>5 DEF NextResource
  <1>11. CASE Wait \/ Exit
    BY <1>11 DEF Wait, Exit, Return
  <1>12. CASE Stop \/ Interrupt
    BY <1>12 DEF Stop, Interrupt, Fail
  <1>13. CASE UNCHANGED vars
    BY <1>13 DEF vars
  <1> QED
    BY <1>1, <1>2, <1>3, <1>4, <1>5, <1>6, <1>7, <1>8, <1>9, <1>10, <1>11, <1>12,
       <1>13, Steps DEF Main

(* The command of the main goroutine is a join or an entry of this run.    *)
LEMMA CommandTyped ==
  ASSUME MainTyped, pc \in {"join", "entry"}
  PROVE  /\ Command \in Joins \cup Entries
         /\ <<Command, pc>> \in JoinItems \cup EntryItems
         /\ Command \notin Tasks
  <1>1. CASE pc = "join"
    BY <1>1, KindSets DEF MainTyped, IndexInRange, Command, Joins, JoinItems, Kind
  <1>2. CASE pc = "entry"
    BY <1>2, KindSets DEF MainTyped, IndexInRange, Command, Entries, EntryItems, Kind
  <1> QED
    BY <1>1, <1>2

SetsTyped ==
  /\ inflight \subseteq Tasks \cup Joins \cup Entries
  /\ consul \subseteq Items
  /\ listed \subseteq (Tasks \cup Entries) \X {"entry", "list", "publish"}

LEMMA SetsTypedStep ==
  ASSUME MainTyped, SetsTyped, [Next]_vars
  PROVE  SetsTyped'
  <1>1. ASSUME NEW t \in Tasks, Local(t) \/ Ending(t)
        PROVE  SetsTyped'
    BY <1>1, HandlerSteps DEF SetsTyped, Render, List, Start, Finish, Break, Publish,
         Bind, Leave, Collect, Fail
  <1>2. ASSUME NEW t \in Tasks, Handoff(t)
        PROVE  SetsTyped'
    BY <1>2 DEF SetsTyped, Handoff
  <1>3. CASE StartCommand \/ FinishCommand \/ BreakCommand
    BY <1>3, CommandTyped DEF SetsTyped, StartCommand, FinishCommand, BreakCommand, Items
  <1>4. CASE NextResource
    BY <1>4 DEF SetsTyped, NextResource, Entries
  <1> QED
    BY <1>1, <1>2, <1>3, <1>4, Steps
       DEF SetsTyped, GiveUp, Main, WriteAgent, Ready, Parse, StartExternals,
           StartServices, Wait, Exit, Stop, Interrupt, vars

LEMMA ShapeTypes ==
  Shape <=> /\ MainTyped /\ SetsTyped /\ StageTyped
            /\ Unlaunched /\ InflightOwned /\ PartsInGroup
  BY DEF Shape, Typed, TypeOK, StageTyped, MainTyped, SetsTyped

(* The main goroutine launches only what is idle.                          *)
LEMMA LaunchesIdle ==
  ASSUME Shape, Main, NEW t \in Tasks
  PROVE  \/ stage'[t] = stage[t]
         \/ stage[t] = "idle" /\ stage'[t] = First(t)
  <1> USE ShapeTypes DEF Unlaunched, BeforeExternals, BeforeServices, MainTyped
  <1>1. CASE stage' = stage
    BY <1>1
  <1>2. CASE pc = "dc" /\ Launch({<<"agent", idx>>})
    BY <1>2, LaunchTyped, TaskCases DEF Agents, Kind
  <1>3. CASE pc = "externals" /\ Launch(Meshes \cup ExternalTasks)
    BY <1>3, LaunchTyped
  <1>4. CASE pc = "services" /\ Launch(ServiceTasks)
    BY <1>4, LaunchTyped
  <1>5. CASE pc = "resources" /\ idx \in Gateways /\ Launch({<<"gateway", idx>>})
    BY <1>5, LaunchTyped DEF GatewayTasks
  <1> QED
    BY <1>1, <1>2, <1>3, <1>4, <1>5, MainMoves

LEMMA InflightOwnedStep ==
  ASSUME Shape, [Next]_vars
  PROVE  InflightOwned'
  <1> USE ShapeTypes DEF InflightOwned
  <1>1. ASSUME NEW t \in Tasks, Local(t) \/ Ending(t)
        PROVE  InflightOwned'
    <2>1. UNCHANGED <<pc, idx>> /\ inflight' \ {t} = inflight \ {t}
      BY <1>1, HandlerSteps DEF Render, List, Start, Finish, Break, Publish, Bind,
           Leave, Collect, mainVars
    <2>2. t \in inflight' => stage'[t] \in Outside
      BY <1>1, HandlerSteps DEF Render, List, Start, Finish, Break, Publish, Bind,
           Leave, Collect, Outside, Calls
    <2>3. ASSUME NEW u \in inflight' \cap Tasks, u # t
          PROVE  stage'[u] \in Outside
      <3>1. u \in inflight
        BY <2>1, <2>3
      <3>2. stage[u] \in Outside
        BY <3>1, <2>3
      <3>3. stage'[u] = stage[u] \/ (Publish(t) /\ t \in ServiceTasks /\ u \in Parts(t))
        BY <1>1, <2>3, HandlerMoves
      <3>4. ~(Publish(t) /\ t \in ServiceTasks /\ u \in Parts(t))
        BY <3>2 DEF Shape, PartsInGroup, Publish, Ended, Outside, Calls
      <3> QED
        BY <3>2, <3>3, <3>4
    <2> QED
      BY <2>1, <2>2, <2>3 DEF Command
  <1>2. ASSUME NEW t \in Tasks, Handoff(t)
        PROVE  InflightOwned'
    <2>1. t \notin inflight
      BY <1>2, HandoffMoves DEF Outside, Calls
    <2>2. \A u \in inflight \cap Tasks : stage'[u] = stage[u]
      BY <1>2, <2>1, HandoffMoves
    <2> QED
      BY <1>2, <2>2 DEF Handoff, Awaiting
  <1>3. CASE GiveUp
    BY <1>3 DEF GiveUp, Awaiting
  <1>4. CASE Main
    <2>1. \A u \in inflight \cap Tasks : stage'[u] = stage[u]
      BY <1>4, LaunchesIdle DEF Outside, Calls
    <2>2. CASE StartCommand \/ FinishCommand \/ BreakCommand
      <3>1. Command \notin Tasks /\ pc \in {"join", "entry"}
        BY <2>2, CommandTyped DEF StartCommand, FinishCommand, BreakCommand
      <3>2. inflight' \cap Tasks = inflight \cap Tasks
        BY <2>2, <3>1 DEF StartCommand, FinishCommand, BreakCommand
      <3>3. ASSUME NEW u \in inflight' \ Tasks
            PROVE  pc' \in {"join", "entry"} /\ u = Command'
        BY <2>2, <3>3 DEF StartCommand, FinishCommand, BreakCommand, AbortOrWait, Return,
             Command
      <3> QED
        BY <2>1, <3>2, <3>3
    <2>3. CASE ~(StartCommand \/ FinishCommand \/ BreakCommand)
      <3>1. inflight' = inflight
        BY <1>4, <2>3 DEF Main, WriteAgent, Ready, Parse, StartExternals, StartServices,
             NextResource, Wait, Exit
      <3>2. pc \notin {"join", "entry"}
        BY <1>4, <2>3 DEF Main, WriteAgent, Ready, Parse, StartExternals, StartServices,
             NextResource, Wait, Exit
      <3> QED
        BY <2>1, <3>1, <3>2
    <2> QED
      BY <2>2, <2>3
  <1>5. CASE Stop
    <2>1. \A u \in inflight \cap Tasks : stage'[u] = stage[u]
      BY <1>5, KindSets, FailTyped DEF Stop, Outside, Calls
    <2> QED
      BY <1>5, <2>1 DEF Stop, mainVars, Command
  <1>6. CASE Interrupt \/ UNCHANGED vars
    BY <1>6 DEF Interrupt, vars, mainVars, Command
  <1> QED
    BY <1>1, <1>2, <1>3, <1>4, <1>5, <1>6, Steps

(* A step that is not the main goroutine's launches no task of the         *)
(* errgroup.                                                               *)
LEMMA OnlyMainLaunches ==
  ASSUME Shape, [Next]_vars, ~Main, NEW t \in GroupTasks, stage[t] = "idle"
  PROVE  stage'[t] = "idle"
  <1> USE ShapeTypes
  <1>1. t \in Tasks /\ t \notin SubTasks
    BY DEF Tasks, GroupTasks, SubTasks, ServerTask, Agents, Meshes, ExternalTasks,
           ServiceTasks, Sidecars, Listeners, GatewayTasks
  <1>2. ASSUME NEW u \in Tasks, Local(u) \/ Ending(u)
        PROVE  stage'[t] = "idle"
    BY <1>1, <1>2, HandlerMoves, PartsTyped
  <1>3. ASSUME NEW u \in Tasks, Handoff(u)
        PROVE  stage'[t] = "idle"
    BY <1>1, <1>3, HandoffMoves
  <1>4. CASE Stop
    BY <1>1, <1>4, KindSets, FailTyped DEF Stop
  <1>5. CASE GiveUp \/ Interrupt \/ UNCHANGED vars
    BY <1>5 DEF GiveUp, Interrupt, vars
  <1> QED
    BY <1>2, <1>3, <1>4, <1>5, Steps

(* Where the other steps leave the main goroutine.                         *)
LEMMA PcWithoutMain ==
  ASSUME [Next]_vars, ~Main
  PROVE  \/ UNCHANGED <<pc, idx>>
         \/ pc = "awaitExternals" /\ pc' = "services"
         \/ pc = "awaitServices" /\ pc' = "resources" /\ idx' = 1
  BY Steps, HandlerSteps
     DEF Render, List, Start, Finish, Break, Publish, Bind, Leave, Collect, mainVars,
         Handoff, GiveUp, AfterAwait, Awaiting, Stop, Interrupt, vars

LEMMA GatewayIndex ==
  \A t \in GatewayTasks : t[2] \in Gateways /\ t[2] \in 1..NumResources /\ t[2] \in Nat \ {0}
  <1>1. \A g \in Gateways : g \in 1..NumResources /\ g \in Nat \ {0}
    BY ResourcesAssumption
  <1> QED
    BY <1>1 DEF GatewayTasks

LEMMA UnlaunchedStep ==
  ASSUME Shape, [Next]_vars
  PROVE  Unlaunched'
  <1> USE ShapeTypes DEF Unlaunched, BeforeExternals, BeforeServices
  <1>1. Agents \cup Meshes \cup ExternalTasks \cup ServiceTasks \cup GatewayTasks \subseteq GroupTasks
    BY DEF GroupTasks
  <1>2. CASE ~Main
    BY <1>1, <1>2, PcWithoutMain, OnlyMainLaunches
  <1>3. CASE WriteAgent
    <2>1. \A t \in Tasks : t # <<"agent", idx>> => stage'[t] = stage[t]
      BY <1>3, LaunchTyped DEF WriteAgent
    <2>2. \A t \in Tasks \ Agents : stage'[t] = stage[t]
      BY <2>1, <1>3 DEF WriteAgent, MainTyped, IndexInRange, Agents
    <2>3. \A t \in Agents : t \in Tasks /\ (t[2] > idx => t # <<"agent", idx>> /\ t[2] >= idx)
      BY DEF MainTyped, Tasks, GroupTasks, Agents, DCs
    <2>4. \A t \in Meshes \cup ExternalTasks \cup ServiceTasks \cup GatewayTasks :
            stage'[t] = stage[t]
      BY <2>2, KindSets
    <2>5. pc = "dc" /\ pc' \in {"parse", "ready", "returned"} /\ idx' = idx
      BY <1>3 DEF WriteAgent, Return
    <2> QED
      BY <2>1, <2>3, <2>4, <2>5
  <1>4. CASE Ready \/ Parse
    <2>1. stage' = stage
      BY <1>4 DEF Ready, Parse
    <2>2. \A t \in Agents : t[2] \in Int
      BY DEF Agents, DCs
    <2> QED
      BY <1>4, <2>1, <2>2 DEF Ready, Parse, AbortOrWait, Return, MainTyped
  <1>5. CASE StartCommand \/ FinishCommand \/ BreakCommand
    <2>1. stage' = stage /\ pc \in {"join", "entry"}
      BY <1>5 DEF StartCommand, FinishCommand, BreakCommand
    <2>2. \A t \in GatewayTasks : t[2] \in Int
      BY GatewayIndex
    <2>3. \/ UNCHANGED <<pc, idx>>
          \/ pc' \in {"wait", "returned"}
          \/ pc = "join" /\ pc' \in {"join", "externals"}
          \/ pc = "entry" /\ pc' = "resources" /\ idx' = idx + 1
      BY <1>5 DEF StartCommand, FinishCommand, BreakCommand, AbortOrWait, Return
    <2>4. pc' = "resources" => \A t \in GatewayTasks : t[2] >= idx' => t[2] >= idx
      BY <2>1, <2>2, <2>3 DEF MainTyped
    <2> QED
      BY <2>1, <2>3, <2>4
  <1>6. CASE StartExternals \/ StartServices
    <2>1. \A t \in GatewayTasks \cup (IF StartExternals THEN ServiceTasks ELSE {}) :
            stage'[t] = stage[t]
      BY <1>6, LaunchTyped, KindSets DEF StartExternals, StartServices
    <2>2. \/ pc = "externals" /\ pc' \in {"services", "awaitExternals"} /\ StartExternals
          \/ pc = "services" /\ pc' = "awaitServices"
      BY <1>6 DEF StartExternals, StartServices
    <2> QED
      BY <2>1, <2>2
  <1>7. CASE NextResource
    <2>1. pc = "resources"
      BY <1>7 DEF NextResource
    <2>2. CASE stage' = stage /\ idx' = idx /\ pc' \in {"wait", "entry", "returned"}
      BY <2>1, <2>2
    <2>3. CASE idx' = idx + 1 /\ pc' = pc /\ Launch({<<"gateway", idx>>})
      <3>1. \A t \in GatewayTasks : t[2] \in Int /\ (t[2] # idx => stage'[t] = stage[t])
        BY <2>3, LaunchTyped, KindSets, GatewayIndex DEF GatewayTasks
      <3>2. ASSUME NEW t \in GatewayTasks, t[2] >= idx'
            PROVE  stage'[t] = "idle"
        <4>1. t[2] >= idx /\ t[2] # idx
          BY <2>3, <3>1, <3>2 DEF MainTyped
        <4> QED
          BY <2>1, <3>1, <4>1
      <3> QED
        BY <2>1, <2>3, <3>2
    <2> QED
      BY <1>7, <2>2, <2>3 DEF NextResource, AbortOrWait, Return
  <1>8. CASE Wait \/ Exit
    BY <1>8 DEF Wait, Exit, Return
  <1> QED
    BY <1>2, <1>3, <1>4, <1>5, <1>6, <1>7, <1>8 DEF Main

(* Parts of mesh services are started by their service and by nothing else. *)
LEMMA MainLeavesParts ==
  ASSUME Shape, Main, NEW u \in SubTasks
  PROVE  stage'[u] = stage[u]
  <1>1. u \in Tasks /\ Kind(u) \in {"sidecar", "listener"}
    BY DEF Tasks, SubTasks, Sidecars, Listeners, Kind
  <1>2. u \notin Agents \cup Meshes \cup ExternalTasks \cup ServiceTasks \cup GatewayTasks
    BY <1>1, KindSets
  <1>3. u # <<"agent", idx>> /\ u # <<"gateway", idx>>
    BY <1>1 DEF Kind
  <1> QED
    BY <1>1, <1>2, <1>3, ShapeTypes, MainMoves, LaunchTyped

LEMMA PartsDistinct ==
  ASSUME NEW t \in ServiceTasks, NEW u \in Parts(t)
  PROVE  /\ t \in Tasks /\ u \in Tasks /\ u \in SubTasks /\ u # t /\ Kind(t) = "service"
         /\ u \notin ServiceTasks /\ u \notin GroupTasks
         /\ \A v \in ServiceTasks : u \in Parts(v) => v = t
         /\ \A v \in ServiceTasks : v \notin Parts(t)
  BY DEF ServiceTasks, Parts, SubTasks, Sidecars, Listeners, Tasks, GroupTasks, Kind,
         ServerTask, Agents, Meshes, ExternalTasks, GatewayTasks

(* The moves of a mesh service around its group.                           *)
LEMMA ServiceMoves ==
  ASSUME Shape, NEW t \in ServiceTasks, Local(t) \/ Ending(t)
  PROVE  \/ Publish(t) /\ stage[t] = "publish" /\ stage'[t] = "group"
         \/ /\ stage[t] = "group" /\ stage'[t] \in Ended
            /\ \A u \in Parts(t) : stage[u] \in Ended
         \/ /\ stage[t] \in {"render", "register", "proxy", "defaults"}
            /\ stage'[t] \in {"render", "register", "proxy", "defaults", "send", "failed"}
  <1> USE ShapeTypes, KindSets
  <1>1. t \in Tasks /\ stage[t] \in HandlerStages(t) /\ Kind(t) = "service"
    BY DEF StageTyped
  <1>2. CASE Publish(t)
    BY <1>1, <1>2, PublishTyped DEF Publish, Following, ServiceRun
  <1>3. CASE Collect(t)
    <2>1. Following(t, "group") = "done"
      BY <1>1 DEF Following, ServiceRun
    <2>2. CASE Fail(t)
      BY <1>1, <1>3, <2>2, FailTyped DEF Collect, Ended
    <2>3. CASE Advance(t)
      BY <1>1, <1>3, <2>1, <2>3, AdvanceTyped DEF Collect, Ended
    <2> QED
      BY <1>3, <2>2, <2>3 DEF Collect
  <1>4. CASE ~Publish(t) /\ ~Collect(t)
    <2>1. stage[t] \in {"render", "register", "proxy", "defaults"}
      BY <1>1, <1>4, HandlerSteps
         DEF Render, List, Start, Finish, Break, Bind, Leave, InflightOwned, HandlerStages,
             Outside, Calls, Ended
    <2>2. Following(t, stage[t]) \in {"register", "proxy", "defaults", "send"}
      BY <1>1, <2>1 DEF Following, ServiceRun
    <2> QED
      BY <1>1, <2>1, <2>2, HandlerMoves
  <1> QED
    BY <1>2, <1>3, <1>4

LEMMA PartsInGroupStep ==
  ASSUME Shape, [Next]_vars
  PROVE  PartsInGroup'
  <1> SUFFICES ASSUME NEW t \in ServiceTasks, NEW u \in Parts(t)
               PROVE  /\ stage'[t] \notin Ended \cup {"group"} => stage'[u] = "idle"
                      /\ stage'[t] = "group" => stage'[u] # "idle"
                      /\ stage'[t] = "done" => stage'[u] \in Ended
                      /\ stage'[t] = "failed" => stage'[u] \in Ended \cup {"idle"}
    BY DEF PartsInGroup, Parts
  <1> USE ShapeTypes, PartsDistinct DEF PartsInGroup
  <1>1. CASE UNCHANGED <<stage[t], stage[u]>>
    BY <1>1
  <1>2. CASE Local(t) \/ Ending(t)
    <2>1. stage'[u] = IF Publish(t) THEN First(u) ELSE stage[u]
      BY <1>2, HandlerMoves
    <2>2. CASE Publish(t) /\ stage'[t] = "group"
      BY <2>1, <2>2, FirstStage DEF Ended
    <2>3. CASE ~Publish(t)
      BY <1>2, <2>1, <2>3, ServiceMoves DEF Ended
    <2>4. Publish(t) => stage'[t] = "group"
      BY <1>2, ServiceMoves DEF Publish, Ended
    <2> QED
      BY <2>2, <2>3, <2>4
  <1>3. CASE Local(u) \/ Ending(u)
    BY <1>3, HandlerMoves DEF Publish, Ended
  <1>4. ASSUME NEW v \in Tasks \ {t, u}, Local(v) \/ Ending(v)
        PROVE  UNCHANGED <<stage[t], stage[u]>>
    BY <1>4, HandlerMoves
  <1>5. ASSUME NEW v \in Tasks, Handoff(v)
        PROVE  /\ UNCHANGED stage[u]
               /\ UNCHANGED stage[t] \/ (stage[t] = "send" /\ stage'[t] = "publish")
    <2>1. v \in ExternalTasks \cup ServiceTasks
      BY <1>5, HandoffMoves
    <2>2. v # u
      BY <2>1 DEF GroupTasks
    <2> QED
      BY <1>5, <2>1, <2>2, HandoffMoves
  <1>6. CASE Main
    BY <1>6, LaunchesIdle, MainLeavesParts, FirstStage DEF First, Ended
  <1>7. CASE Stop
    <2>1. ServerTask \in Tasks /\ ServerTask # t /\ ServerTask # u
      BY KindSets DEF GroupTasks
    <2> QED
      BY <1>1, <1>7, <2>1, FailTyped DEF Stop
  <1>8. CASE GiveUp \/ Interrupt \/ UNCHANGED vars
    BY <1>1, <1>8 DEF GiveUp, Interrupt, vars
  <1> QED
    BY <1>1, <1>2, <1>3, <1>4, <1>5, <1>6, <1>7, <1>8, Steps DEF Ended

LEMMA ShapeInit == Init => Shape
  <1> SUFFICES ASSUME Init PROVE Shape
    OBVIOUS
  <1>1. StageTyped
    <2>1. "bind" \in HandlerStages(ServerTask) /\ \A t \in Tasks : "idle" \in HandlerStages(t)
      BY KindSets DEF HandlerStages
    <2>2. \A t \in Tasks : stage[t] \in HandlerStages(t) /\ stage[t] \in Stages
      BY <2>1, StagesOfHandlers DEF Init
    <2> QED
      BY <2>2 DEF Init, StageTyped
  <1>2. MainTyped
    <2>1. cancelled \in BOOLEAN /\ interrupted \in BOOLEAN /\ groupErr \in BOOLEAN
      BY Zenon DEF Init
    <2>2. pc = "dc" /\ idx = 1 /\ n = 0 /\ result = "none" /\ idx \in DCs
      BY DatacentersAssumption DEF Init, DCs
    <2> QED
      BY <2>1, <2>2 DEF MainTyped, IndexInRange, Awaiting
  <1>3. \A t \in Tasks : t # ServerTask => stage[t] = "idle"
    BY DEF Init
  <1>4. Unlaunched /\ PartsInGroup
    BY <1>3, KindSets, PartsDistinct
       DEF Unlaunched, PartsInGroup, BeforeExternals, BeforeServices, GroupTasks, Ended
  <1>5. SetsTyped /\ InflightOwned
    BY DEF Init, SetsTyped, InflightOwned
  <1> QED
    BY <1>1, <1>2, <1>4, <1>5, ShapeTypes

LEMMA ShapeStep ==
  ASSUME Shape, [Next]_vars
  PROVE  Shape'
  <1>1. MainTyped' /\ SetsTyped' /\ StageTyped'
    BY ShapeTypes, MainTypedStep, SetsTypedStep, StageTypedStep
  <1>2. Unlaunched' /\ InflightOwned' /\ PartsInGroup'
    BY UnlaunchedStep, InflightOwnedStep, PartsInGroupStep
  <1> QED
    BY <1>1, <1>2 DEF Shape, Typed, TypeOK, StageTyped, MainTyped, SetsTyped

(* Every reachable state of the runner, for every number of datacenters,   *)
(* services and resources, has the types the code gives its variables.     *)
THEOREM TypeCorrect == Spec => []TypeOK
  <1>1. Spec => []Shape
    BY ShapeInit, ShapeStep, PTL DEF Spec
  <1>2. Shape => TypeOK
    BY DEF Shape, Typed
  <1> QED
    BY <1>1, <1>2, PTL

-----------------------------------------------------------------------------
(* Layer 2: cancellation, and what a returned run has left.                *)

(* A handler fails with the context of its group.                          *)
LEMMA HandlerContext ==
  ASSUME Shape, NEW t \in Tasks, Local(t) \/ Ending(t)
  PROVE  /\ UNCHANGED <<pc, result, interrupted>>
         /\ \/ UNCHANGED ctxVars
            \/ cancelled' = TRUE /\ groupErr' = TRUE
         /\ \A u \in GroupTasks : stage'[u] = "failed" /\ stage[u] # "failed" =>
              cancelled' = TRUE /\ groupErr' = TRUE
         /\ stage'[ServerTask] = "done" /\ stage[ServerTask] # "done" => cancelled
  <1> USE ShapeTypes
  <1>1. UNCHANGED <<pc, result>>
    BY HandlerMoves DEF mainVars
  <1>2. UNCHANGED interrupted
    BY HandlerSteps DEF Render, List, Start, Finish, Break, Publish, Bind, Leave, Collect
  <1>3. UNCHANGED ctxVars \/ (cancelled' = TRUE /\ groupErr' = TRUE /\ t \in GroupTasks)
    <2>1. cancelled \in BOOLEAN /\ groupErr \in BOOLEAN
      BY DEF MainTyped
    <2>2. UNCHANGED ctxVars \/ Fail(t)
      BY HandlerMoves
    <2>3. CASE Fail(t) /\ t \in GroupTasks
      BY <2>3 DEF Fail
    <2>4. CASE Fail(t) /\ t \notin GroupTasks
      BY <2>1, <2>4 DEF Fail, ctxVars
    <2> QED
      BY <2>2, <2>3, <2>4
  <1>4. ASSUME NEW u \in GroupTasks, stage'[u] = "failed", stage[u] # "failed"
        PROVE  cancelled' = TRUE /\ groupErr' = TRUE
    <2>1. u \in Tasks /\ u \notin SubTasks
      BY DEF Tasks, GroupTasks, SubTasks, ServerTask, Agents, Meshes, ExternalTasks,
             ServiceTasks, Sidecars, Listeners, GatewayTasks
    <2>2. u = t
      BY <1>4, <2>1, HandlerMoves, PartsTyped
    <2>3. Fail(t)
      BY <1>4, <2>2, HandlerMoves
    <2> QED
      BY <2>2, <2>3 DEF Fail
  <1>5. ASSUME stage'[ServerTask] = "done", stage[ServerTask] # "done"
        PROVE  cancelled
    <2>1. ServerTask \in Tasks /\ ServerTask \notin SubTasks
      BY KindSets DEF ServerTask, SubTasks, Sidecars, Listeners
    <2>2. t = ServerTask
      BY <1>5, <2>1, HandlerMoves, PartsTyped
    <2>3. stage[t] \in {"bind", "serve"}
      BY <2>1, <2>2, HandlerMoves, KindSets DEF StageTyped, HandlerStages
    <2>4. stage[t] = "serve"
      BY <1>5, <2>1, <2>2, <2>3, HandlerMoves, KindSets DEF Following, ServerRun
    <2>5. Leave(t)
      BY <2>1, <2>2, <2>4, HandlerSteps
         DEF Render, List, Start, Finish, Break, Publish, Bind, Leave, Collect,
             InflightOwned, Outside, Calls
    <2> QED
      BY <2>1, <2>2, <2>5 DEF Leave, CtxDone
  <1> QED
    BY <1>1, <1>2, <1>3, <1>4, <1>5

(* Every step leaves the context alone, cancels it with an error of the    *)
(* group, is the interrupt, or returns from Run.                           *)
LEMMA ContextStep ==
  ASSUME Shape, [Next]_vars
  PROVE  \/ (Returned' <=> Returned) /\ UNCHANGED <<result, cancelled, interrupted, groupErr>>
         \/ (Returned' <=> Returned) /\ UNCHANGED <<result, interrupted>>
              /\ cancelled' = TRUE /\ groupErr' = TRUE
         \/ (Returned' <=> Returned) /\ UNCHANGED <<result, groupErr, stage>>
              /\ cancelled' = TRUE /\ interrupted' = TRUE
         \/ /\ ~Returned /\ Returned' /\ UNCHANGED <<interrupted, groupErr>> /\ cancelled' = TRUE
            /\ result' = "error" \/ Wait
  <1> USE ShapeTypes DEF Returned
  <1>1. ASSUME NEW t \in Tasks, Local(t) \/ Ending(t)
        PROVE  \/ (Returned' <=> Returned) /\ UNCHANGED <<result, cancelled, interrupted, groupErr>>
               \/ (Returned' <=> Returned) /\ UNCHANGED <<result, interrupted>>
                    /\ cancelled' = TRUE /\ groupErr' = TRUE
    <2>1. Returned' <=> Returned
      BY <1>1, HandlerContext
    <2>2. UNCHANGED <<result, interrupted>>
      BY <1>1, HandlerContext
    <2>3. UNCHANGED <<cancelled, groupErr>> \/ (cancelled' = TRUE /\ groupErr' = TRUE)
      BY <1>1, HandlerContext DEF ctxVars
    <2> QED
      BY <2>1, <2>2, <2>3, Zenon
  <1>2. ASSUME (\E t \in Tasks : Handoff(t)) \/ GiveUp
        PROVE  (Returned' <=> Returned) /\ UNCHANGED <<result, cancelled, interrupted, groupErr>>
    BY <1>2 DEF Handoff, GiveUp, AfterAwait, Awaiting, ctxVars
  <1>3. ASSUME AbortOrWait, pc \notin {"returned", "exited"}, UNCHANGED <<interrupted, groupErr>>
        PROVE  \/ (Returned' <=> Returned) /\ UNCHANGED <<result, cancelled, interrupted, groupErr>>
               \/ /\ ~Returned /\ Returned' /\ UNCHANGED <<interrupted, groupErr>> /\ cancelled' = TRUE
                  /\ result' = "error"
    BY <1>3 DEF AbortOrWait, Return
  <1>4. CASE WriteAgent
    BY <1>4 DEF WriteAgent, Return
  <1>5. CASE Ready
    BY <1>3, <1>5 DEF Ready, Return
  <1>6. CASE Parse
    BY <1>3, <1>6 DEF Parse
  <1>7. CASE StartCommand \/ BreakCommand
    BY <1>3, <1>7 DEF StartCommand, BreakCommand
  <1>8. CASE FinishCommand
    BY <1>8 DEF FinishCommand, ctxVars
  <1>9. CASE StartExternals \/ StartServices
    BY <1>9 DEF StartExternals, StartServices, ctxVars
  <1>10. CASE NextResource
    BY <1>3, <1>10 DEF NextResource
  <1>11. CASE Wait
    BY <1>11 DEF Wait, Return
  <1>12. CASE Exit
    BY <1>12 DEF Exit, ctxVars
  <1>13. CASE Stop
    BY <1>13, KindSets DEF Stop, Fail, mainVars, GroupTasks
  <1>14. CASE Interrupt
    BY <1>14 DEF Interrupt, mainVars
  <1>15. CASE UNCHANGED vars
    BY <1>15 DEF vars
  <1> QED
    BY <1>1, <1>2, <1>4, <1>5, <1>6, <1>7, <1>8, <1>9, <1>10, <1>11, <1>12, <1>13, <1>14,
       <1>15, Steps DEF Main

LEMMA ServerIsTask ==
  /\ ServerTask \in GroupTasks /\ ServerTask \in Tasks /\ ServerTask \notin SubTasks
  /\ ServerTask \notin Agents \cup Meshes \cup ExternalTasks \cup ServiceTasks \cup GatewayTasks
  /\ GroupTasks \subseteq Tasks /\ \A t \in GroupTasks : t \notin SubTasks
  BY DEF Tasks, GroupTasks, SubTasks, ServerTask, Agents, Meshes, ExternalTasks,
         ServiceTasks, Sidecars, Listeners, GatewayTasks

(* How the stages of the errgroup's goroutines can end.                    *)
LEMMA GroupStep ==
  ASSUME Shape, [Next]_vars, NEW t \in GroupTasks
  PROVE  /\ stage'[t] = "failed" /\ stage[t] # "failed" => groupErr' = TRUE
         /\ stage'[t] = "idle" => stage[t] = "idle"
         /\ t = ServerTask /\ stage'[t] = "done" /\ stage[t] # "done" => cancelled
  <1> USE ShapeTypes, ServerIsTask
  <1>1. ASSUME NEW u \in Tasks, Local(u) \/ Ending(u)
        PROVE  /\ stage'[t] = "failed" /\ stage[t] # "failed" => groupErr' = TRUE
               /\ stage'[t] = "idle" => stage[t] = "idle"
               /\ t = ServerTask /\ stage'[t] = "done" /\ stage[t] # "done" => cancelled
    <2>1. stage'[t] = "failed" /\ stage[t] # "failed" => groupErr' = TRUE
      BY <1>1, HandlerContext
    <2>2. stage'[t] = "idle" => stage[t] = "idle"
      BY <1>1, HandlerMoves, PartsTyped
    <2>3. t = ServerTask /\ stage'[t] = "done" /\ stage[t] # "done" => cancelled
      BY <1>1, HandlerContext
    <2> QED
      BY <2>1, <2>2, <2>3
  <1>2. ASSUME NEW u \in Tasks, Handoff(u)
        PROVE  stage'[t] = stage[t] \/ (stage'[t] = "publish" /\ t # ServerTask)
    BY <1>2, HandoffMoves
  <1>3. CASE Main
    <2>1. stage'[t] = stage[t] \/ (stage[t] = "idle" /\ stage'[t] = First(t))
      BY <1>3, LaunchesIdle
    <2>2. First(t) \notin Ended \cup {"idle"}
      BY FirstStage
    <2> QED
      BY <2>1, <2>2 DEF Ended
  <1>4. CASE Stop
    <2>1. stage'[t] = IF t = ServerTask THEN "failed" ELSE stage[t]
      BY <1>4, FailTyped DEF Stop
    <2>2. groupErr' = TRUE
      BY <1>4 DEF Stop, Fail
    <2> QED
      BY <2>1, <2>2
  <1>5. CASE GiveUp \/ Interrupt \/ UNCHANGED vars
    BY <1>5 DEF GiveUp, Interrupt, vars
  <1> QED
    BY <1>1, <1>2, <1>3, <1>4, <1>5, Steps

(* The end of the group without an error means that an interrupt came: the *)
(* control server returns nil only when its context is done.               *)
LEMMA WaitEnds ==
  ASSUME Shape, Cancellation, Wait, result' = "nil"
  PROVE  interrupted
  <1>1. ~groupErr /\ ~Returned
    BY DEF Wait, Return, Returned
  <1>2. stage[ServerTask] = "done"
    BY <1>1, ServerIsTask DEF Wait, Cancellation, Ended
  <1> QED
    BY <1>1, <1>2 DEF Cancellation

LEMMA CancellationInit == Init => Cancellation
  <1> SUFFICES ASSUME Init PROVE Cancellation
    OBVIOUS
  <1>1. stage[ServerTask] = "bind" /\ \A t \in Tasks : stage[t] # "failed"
    BY ServerIsTask DEF Init
  <1>2. ~cancelled /\ ~interrupted /\ ~groupErr
    BY Zenon DEF Init
  <1>3. ~Returned /\ result = "none"
    BY DEF Init, Returned
  <1> QED
    BY <1>1, <1>2, <1>3, ServerIsTask DEF Cancellation

LEMMA CancellationStep ==
  ASSUME Shape, Cancellation, [Next]_vars
  PROVE  Cancellation'
  <1>1. cancelled \in BOOLEAN /\ groupErr \in BOOLEAN /\ interrupted \in BOOLEAN
    BY ShapeTypes DEF MainTyped
  <1>2. /\ Returned' => cancelled'
        /\ cancelled' <=> interrupted' \/ groupErr' \/ Returned'
        /\ cancelled => cancelled'
        /\ groupErr => groupErr'
    <2>1. /\ Returned => cancelled
          /\ cancelled <=> interrupted \/ groupErr \/ Returned
      BY DEF Cancellation
    <2>2. \/ (Returned' <=> Returned) /\ (cancelled' <=> cancelled)
               /\ (interrupted' <=> interrupted) /\ (groupErr' <=> groupErr)
          \/ (Returned' <=> Returned) /\ (interrupted' <=> interrupted)
               /\ cancelled' /\ groupErr'
          \/ (Returned' <=> Returned) /\ (groupErr' <=> groupErr)
               /\ cancelled' /\ interrupted'
          \/ Returned' /\ (interrupted' <=> interrupted) /\ (groupErr' <=> groupErr)
               /\ cancelled'
      BY ContextStep, Zenon
    <2> QED
      BY <2>1, <2>2, Zenon
  <1>3. /\ ~Returned' => result' = "none"
        /\ result' = "nil" => interrupted'
    BY ContextStep, WaitEnds DEF Cancellation
  <1>4. \A t \in GroupTasks : stage'[t] = "failed" => groupErr'
    BY <1>2, GroupStep DEF Cancellation
  <1>5. /\ stage'[ServerTask] # "idle"
        /\ stage'[ServerTask] = "done" => cancelled'
    BY <1>2, GroupStep, ServerIsTask DEF Cancellation
  <1> QED
    BY <1>2, <1>3, <1>4, <1>5 DEF Cancellation

Quiet == inflight = {} /\ \A t \in Tasks : stage[t] \in Ended \cup {"idle"}

LEMMA PartOwners ==
  ASSUME NEW u \in SubTasks
  PROVE  \E t \in ServiceTasks : u \in Parts(t)
  <1>1. Owner(u) \in ServiceTasks /\ u \in Parts(Owner(u))
    BY DEF SubTasks, Sidecars, Listeners, ServiceTasks, Owner, Parts
  <1> QED
    BY <1>1

(* When every goroutine of the errgroup has ended, so have the parts of    *)
(* the mesh services, and nothing is outstanding.                          *)
LEMMA WaitQuiet ==
  ASSUME Shape, Wait
  PROVE  Quiet
  <1> USE ShapeTypes
  <1>1. pc = "wait" /\ \A t \in GroupTasks : stage[t] \in Ended \cup {"idle"}
    BY DEF Wait
  <1>2. ASSUME NEW u \in SubTasks
        PROVE  stage[u] \in Ended \cup {"idle"}
    <2>1. PICK t \in ServiceTasks : u \in Parts(t)
      BY PartOwners
    <2>2. stage[t] \in Ended \cup {"idle"}
      BY <1>1 DEF GroupTasks
    <2> QED
      BY <2>1, <2>2 DEF PartsInGroup, Ended
  <1>3. \A t \in Tasks : stage[t] \in Ended \cup {"idle"}
    BY <1>1, <1>2 DEF Tasks
  <1>4. inflight = {}
    BY <1>1, <1>3 DEF InflightOwned, Outside, Calls, Ended
  <1> QED
    BY <1>3, <1>4 DEF Quiet

LEMMA QuietStep ==
  ASSUME Shape, Returned, Quiet, [Next]_vars
  PROVE  Quiet' /\ UNCHANGED result
  <1> USE ShapeTypes DEF Returned
  <1>1. ASSUME NEW t \in Tasks, Local(t) \/ Ending(t)
        PROVE  FALSE
    BY <1>1, HandlerMoves DEF Quiet
  <1>2. ~(\E t \in Tasks : Handoff(t)) /\ ~GiveUp
    BY DEF Handoff, GiveUp, Awaiting
  <1>3. Main => Exit
    BY DEF Main, WriteAgent, Ready, Parse, StartCommand, FinishCommand, BreakCommand,
           StartExternals, StartServices, NextResource, Wait
  <1>4. ~Stop
    BY ServerIsTask DEF Quiet, Stop, Ended
  <1>5. Exit \/ Interrupt \/ UNCHANGED vars
    BY <1>1, <1>2, <1>3, <1>4, Steps
  <1> QED
    BY <1>5 DEF Exit, Interrupt, vars, mainVars, Quiet

LEMMA DrainedStep ==
  ASSUME Shape, Drained, [Next]_vars
  PROVE  Drained'
  <1>1. Cancellation'
    BY CancellationStep DEF Drained
  <1>2. ASSUME Returned', result' \in {"nil", "groupError"}
        PROVE  Quiet'
    <2>1. CASE Returned /\ result \in {"nil", "groupError"}
      <3>1. Quiet
        BY <2>1 DEF Drained, GroupDrained, Returned, Quiet
      <3> QED
        BY <2>1, <3>1, QuietStep
    <2>2. CASE ~Returned
      <3>1. Wait
        BY <1>2, <2>2, ContextStep
      <3>2. UNCHANGED <<inflight, stage>>
        BY <3>1 DEF Wait
      <3> QED
        BY <3>1, <3>2, WaitQuiet DEF Quiet
    <2>3. CASE Returned /\ result \notin {"nil", "groupError"}
      BY <1>2, <2>3, ContextStep
    <2> QED
      BY <2>1, <2>2, <2>3
  <1> QED
    BY <1>1, <1>2 DEF Drained, GroupDrained, Returned, Quiet

LEMMA DrainedInit == Init => Drained
  BY CancellationInit DEF Init, Drained, GroupDrained

(* Shape and Drained together are inductive.                               *)
LEMMA DrainedAlways == Spec => [](Shape /\ Drained)
  BY ShapeInit, ShapeStep, DrainedInit, DrainedStep, PTL DEF Spec

(* When Run returns what group.Wait returned, no goroutine it launched is  *)
(* still running and no child process or request is left: the orderly end  *)
(* of Runner.Run never orphans a process.                                  *)
THEOREM DrainsGroup == Spec => []GroupDrained
  <1>1. Drained => GroupDrained
    BY DEF Drained
  <1> QED
    BY <1>1, DrainedAlways, PTL

(* The process exits with status 0 only after an interrupt: neither a      *)
(* clean exit of everything it runs nor /shutdown ends a run that way.     *)
THEOREM SuccessNeedsInterrupt == Spec => []SuccessIsInterrupt
  <1>1. Shape /\ Drained => SuccessIsInterrupt
    <2> SUFFICES ASSUME Shape, Drained, pc = "exited", ExitStatus = 0
                 PROVE  interrupted
      BY DEF SuccessIsInterrupt
    <2>1. result = "nil" \/ interrupted
      BY DEF ExitStatus
    <2> QED
      BY <2>1 DEF Drained, Cancellation
  <1> QED
    BY <1>1, DrainedAlways, PTL

-----------------------------------------------------------------------------
(* Layer 3: the barriers.                                                  *)

Announcers == ExternalTasks \cup ServiceTasks
UnsentTasks == {t \in Announcers : stage[t] \in Unsent}

LEMMA AnnouncersCounted ==
  /\ IsFiniteSet(Announcers)
  /\ Cardinality(ExternalTasks) = Cardinality(Externals)
  /\ Cardinality(ServiceTasks) = Cardinality(Services)
  /\ Announcers \subseteq GroupTasks /\ Announcers \subseteq Tasks
  <1>1. IsFiniteSet({"external"}) /\ Cardinality({"external"}) = 1
    BY FS_Singleton
  <1>2. IsFiniteSet({"service"}) /\ Cardinality({"service"}) = 1
    BY FS_Singleton
  <1>3. /\ IsFiniteSet(ExternalTasks)
        /\ Cardinality(ExternalTasks) = 1 * Cardinality(Externals)
    BY <1>1, ServicesAssumption, FS_Product DEF ExternalTasks
  <1>4. /\ IsFiniteSet(ServiceTasks)
        /\ Cardinality(ServiceTasks) = 1 * Cardinality(Services)
    BY <1>2, ServicesAssumption, FS_Product DEF ServiceTasks
  <1>5. IsFiniteSet(Announcers)
    BY <1>3, <1>4, FS_Union DEF Announcers
  <1>6. Announcers \subseteq GroupTasks
    BY DEF Announcers, GroupTasks
  <1> QED
    BY <1>3, <1>4, <1>5, <1>6, CountTypes, ServerIsTask

LEMMA UnsentFinite == IsFiniteSet(UnsentTasks) /\ Cardinality(UnsentTasks) \in Nat
  <1>1. UnsentTasks \in SUBSET Announcers
    BY DEF UnsentTasks
  <1> QED
    BY <1>1, AnnouncersCounted, FS_Subset, FS_CardinalityType

(* The stages of a service that registers: idle, unsent, sent or failed.   *)
LEMMA AnnouncerStages ==
  ASSUME StageTyped, NEW t \in Announcers
  PROVE  /\ stage[t] \in {"idle", "failed"} \cup Unsent \cup Sent
         /\ First(t) \in Unsent
  <1>1. t \in Tasks /\ stage[t] \in HandlerStages(t) /\ Kind(t) \in {"external", "service"}
    BY KindSets DEF Announcers, StageTyped
  <1> QED
    BY <1>1 DEF HandlerStages, Unsent, Sent, Ended, First

LEMMA UnsentSent ==
  /\ \A s \in Unsent : s \notin Sent /\ s \notin {"idle", "failed"}
  /\ \A s \in Sent : s \notin Unsent /\ s \notin {"idle", "failed"}
  BY DEF Unsent, Sent

(* A handler step does not send the token, and takes no service back.      *)
LEMMA HandlerKeepsToken ==
  ASSUME Shape, NEW u \in Tasks, Local(u) \/ Ending(u), NEW t \in Announcers,
         stage'[t] # "failed"
  PROVE  /\ stage'[t] \in Unsent <=> stage[t] \in Unsent
         /\ stage[t] \in Sent => stage'[t] \in Sent
  <1> USE ShapeTypes
  <1>1. t \in Tasks /\ t \notin SubTasks /\ stage[t] \in HandlerStages(t)
    BY AnnouncersCounted, ServerIsTask DEF StageTyped
  <1>2. CASE u # t
    BY <1>1, <1>2, HandlerMoves, PartsTyped
  <1>3. CASE u = t
    <2>1. stage[t] # "send"
      BY <1>1, <1>3, HandlerSteps DEF Render, List, Start, Finish, Break, Publish, Bind, Leave,
           Collect, InflightOwned, Outside, Calls
    <2>2. stage[t] \notin Ended \cup {"idle"}
      BY <1>3, HandlerMoves
    <2>3. stage'[t] = stage[t] \/ stage'[t] = Following(t, stage[t])
      BY <1>3, HandlerMoves
    <2>4. Kind(t) \in {"external", "service"}
      BY KindSets DEF Announcers
    <2>5. /\ Following(t, stage[t]) \in Unsent <=> stage[t] \in Unsent
          /\ stage[t] \in Sent => Following(t, stage[t]) \in Sent
      BY <1>1, <2>1, <2>2, <2>4
         DEF HandlerStages, Ended, Following, ExternalRun, ServiceRun, Unsent, Sent
    <2> QED
      BY <2>3, <2>5
  <1> QED
    BY <1>2, <1>3

(* Nor does any other step, but for the rendezvous and the launches.       *)
LEMMA KeepsToken ==
  ASSUME Shape, Drained, [Next]_vars, ~cancelled', NEW t \in Announcers,
         \A u \in Tasks : ~Handoff(u)
  PROVE  /\ stage[t] # "idle" => (stage'[t] \in Unsent <=> stage[t] \in Unsent)
         /\ stage[t] \in Sent => stage'[t] \in Sent
         /\ ~Main /\ stage[t] = "idle" => stage'[t] = "idle"
  <1> USE ShapeTypes, AnnouncersCounted
  <1>1. stage'[t] # "failed"
    BY CancellationStep DEF Cancellation, Drained
  <1>2. ~Main /\ stage[t] = "idle" => stage'[t] = "idle"
    BY OnlyMainLaunches
  <1>3. ASSUME NEW u \in Tasks, Local(u) \/ Ending(u)
        PROVE  /\ stage'[t] \in Unsent <=> stage[t] \in Unsent
               /\ stage[t] \in Sent => stage'[t] \in Sent
    BY <1>1, <1>3, HandlerKeepsToken
  <1>4. CASE Main
    BY <1>4, LaunchesIdle, UnsentSent
  <1>5. CASE Stop \/ GiveUp \/ Interrupt \/ UNCHANGED vars
    <2>1. ServerTask # t
      BY ServerIsTask DEF Announcers
    <2>2. stage'[t] = stage[t]
      BY <1>5, <2>1, ServerIsTask, FailTyped DEF Stop, GiveUp, Interrupt, vars
    <2> QED
      BY <2>2
  <1> QED
    BY <1>2, <1>3, <1>4, <1>5, Steps

(* The moves of the main goroutine between its waits.                      *)
LEMMA PcStep ==
  ASSUME [Next]_vars
  PROVE  /\ \/ pc' = pc
            \/ pc' \in BeforeExternals \cup {"wait", "returned", "exited"}
            \/ pc = "externals" /\ pc' \in {"awaitExternals", "services"} /\ StartExternals
            \/ pc = "awaitExternals" /\ pc' = "services"
            \/ pc = "services" /\ pc' = "awaitServices" /\ StartServices
            \/ pc = "awaitServices" /\ pc' = "resources"
            \/ pc = "resources" /\ pc' = "entry"
            \/ pc = "entry" /\ pc' = "resources"
         /\ pc' = "wait" => pc \in {"wait", "resources"} \/ cancelled
         /\ pc' = "awaitExternals" /\ pc # "awaitExternals" => StartExternals
  <1>1. ~Main => \/ pc' = pc
                 \/ pc = "awaitExternals" /\ pc' = "services"
                 \/ pc = "awaitServices" /\ pc' = "resources"
    BY PcWithoutMain
  <1>2. CASE Main
    BY <1>2 DEF Main, WriteAgent, Ready, Parse, StartCommand, FinishCommand, BreakCommand,
           StartExternals, StartServices, NextResource, Wait, Exit, AbortOrWait, Return,
           BeforeExternals
  <1> QED
    BY <1>1, <1>2 DEF BeforeExternals

(* The services a passed statement launched are not idle.                  *)
LaunchedServices ==
  /\ pc \in {"awaitExternals"} \cup (PastExternals \ {"wait"}) =>
       \A t \in ExternalTasks : stage[t] # "idle"
  /\ pc \in {"awaitServices"} \cup (PastServices \ {"wait"}) =>
       \A t \in ServiceTasks : stage[t] # "idle"

LEMMA StartsLaunch ==
  ASSUME Shape
  PROVE  /\ StartExternals => \A t \in ExternalTasks : stage'[t] = First(t)
         /\ StartExternals => \A t \in ServiceTasks : stage'[t] = "idle"
         /\ StartServices => \A t \in ServiceTasks : stage'[t] = First(t)
         /\ StartServices => \A t \in ExternalTasks : stage'[t] = stage[t]
  BY ShapeTypes, LaunchTyped, KindSets
     DEF StartExternals, StartServices, Unlaunched, BeforeExternals, BeforeServices

LEMMA LaunchedServicesStep ==
  ASSUME Shape, LaunchedServices, [Next]_vars
  PROVE  LaunchedServices'
  <1> USE AnnouncersCounted DEF LaunchedServices, PastExternals, PastServices
  <1>1. \A t \in Announcers : First(t) # "idle"
    BY FirstStage
  <1>2. \A t \in Announcers : stage'[t] = "idle" => stage[t] = "idle"
    BY GroupStep
  <1>3. ASSUME NEW t \in ExternalTasks, pc' \in {"awaitExternals"} \cup (PastExternals \ {"wait"})
        PROVE  stage'[t] # "idle"
    <2>1. t \in Announcers
      BY DEF Announcers
    <2>2. CASE StartExternals
      BY <1>1, <2>1, <2>2, StartsLaunch
    <2>3. CASE ~StartExternals
      <3>1. pc \in {"awaitExternals"} \cup (PastExternals \ {"wait"})
        BY <1>3, <2>3, PcStep DEF BeforeExternals
      <3> QED
        BY <1>2, <2>1, <3>1
    <2> QED
      BY <2>2, <2>3
  <1>4. ASSUME NEW t \in ServiceTasks, pc' \in {"awaitServices"} \cup (PastServices \ {"wait"})
        PROVE  stage'[t] # "idle"
    <2>1. t \in Announcers
      BY DEF Announcers
    <2>2. CASE StartServices
      BY <1>1, <2>1, <2>2, StartsLaunch
    <2>3. CASE ~StartServices
      <3>1. pc \in {"awaitServices"} \cup (PastServices \ {"wait"})
        BY <1>4, <2>3, PcStep DEF BeforeExternals
      <3> QED
        BY <1>2, <2>1, <3>1
    <2> QED
      BY <2>2, <2>3
  <1> QED
    BY <1>3, <1>4

PastSent ==
  /\ pc \in PastExternals /\ ~cancelled => \A t \in ExternalTasks : stage[t] \in Sent
  /\ pc \in PastServices /\ ~cancelled => \A t \in ServiceTasks : stage[t] \in Sent

LEMMA BarrierParts == Barriers <=> TokensAccounted /\ LaunchedServices /\ PastSent
  BY DEF Barriers, LaunchedServices, PastSent

(* The rendezvous takes one token; the last one of a wait proves that the  *)
(* services of the group have all sent theirs.                             *)
LEMMA HandoffBarriers ==
  ASSUME Shape, Drained, Barriers, NEW t \in Tasks, Handoff(t), ~cancelled'
  PROVE  TokensAccounted' /\ PastSent'
  <1> USE ShapeTypes
  <1>1. ~cancelled /\ Awaiting /\ UNCHANGED cancelled
    BY DEF Handoff, ctxVars
  <1>2. /\ t \in Announcers /\ stage[t] = "send" /\ stage'[t] = "publish"
        /\ \A u \in Tasks \ {t} : stage'[u] = stage[u]
    BY HandoffMoves DEF Announcers
  <1>3. n = Cardinality(UnsentTasks)
    BY <1>1 DEF Barriers, TokensAccounted, UnsentTasks, Announcers
  <1>4. UnsentTasks' = UnsentTasks \ {t} /\ t \in UnsentTasks
    BY <1>2, AnnouncersCounted DEF UnsentTasks, Unsent
  <1>5. n' = n - 1 /\ n' = Cardinality(UnsentTasks')
    BY <1>3, <1>4, UnsentFinite, FS_RemoveElement DEF Handoff
  <1>6. TokensAccounted'
    BY <1>5 DEF TokensAccounted, UnsentTasks, Announcers
  <1>7. \A u \in Announcers : stage[u] \in Sent => stage'[u] \in Sent
    BY <1>2, AnnouncersCounted DEF Sent
  <1>8. ASSUME n' = 0, NEW u \in Announcers, stage[u] # "idle"
        PROVE  stage'[u] \in Sent
    <2>1. UnsentTasks' = {}
      BY <1>4, <1>5, <1>8, UnsentFinite, FS_EmptySet, FS_RemoveElement
    <2>2. u # t => stage[u] \notin Unsent
      BY <1>2, <2>1, <1>8, AnnouncersCounted DEF UnsentTasks
    <2>3. stage[u] # "failed"
      BY <1>1, AnnouncersCounted DEF Drained, Cancellation
    <2>4. u # t => stage[u] \in Sent
      BY <1>8, <2>2, <2>3, AnnouncerStages
    <2> QED
      BY <1>2, <1>7, <2>4 DEF Sent
  <1>9. \/ pc' = pc
        \/ n' = 0 /\ pc = "awaitExternals" /\ pc' = "services"
        \/ n' = 0 /\ pc = "awaitServices" /\ pc' = "resources"
    BY DEF Handoff, AfterAwait, Awaiting
  <1>10. PastSent'
    BY <1>1, <1>7, <1>8, <1>9
       DEF Barriers, PastSent, PastExternals, PastServices, Announcers
  <1> QED
    BY <1>6, <1>10

LEMMA OtherPcStep ==
  ASSUME [Next]_vars, ~cancelled, \A u \in Tasks : ~Handoff(u)
  PROVE  /\ Awaiting => UNCHANGED <<pc, n>> /\ ~Main
         /\ ~Main => UNCHANGED pc
  <1>1. ASSUME NEW t \in Tasks, Local(t) \/ Ending(t)
        PROVE  UNCHANGED <<pc, n>>
    BY <1>1, HandlerSteps DEF Render, List, Start, Finish, Break, Publish, Bind,
           Leave, Collect, mainVars
  <1>2. Main => ~Awaiting
    BY DEF Main, WriteAgent, Ready, Parse, StartCommand, FinishCommand, BreakCommand,
           StartExternals, StartServices, NextResource, Wait, Exit, Awaiting
  <1>3. ~GiveUp
    BY DEF GiveUp
  <1>4. ASSUME Stop \/ Interrupt \/ UNCHANGED vars
        PROVE  UNCHANGED <<pc, n>>
    BY <1>4 DEF Stop, Interrupt, vars, mainVars
  <1> QED
    BY <1>1, <1>2, <1>3, <1>4, Steps

LEMMA OtherTokens ==
  ASSUME Shape, Drained, Barriers, [Next]_vars, ~cancelled, ~cancelled', Awaiting',
         \A u \in Tasks : ~Handoff(u)
  PROVE  n' = Cardinality(UnsentTasks')
  <1> USE ShapeTypes, AnnouncersCounted
  <1>1. CASE Awaiting
    <2>1. UNCHANGED <<pc, n>> /\ ~Main
      BY <1>1, OtherPcStep
    <2>2. \A t \in Announcers : stage'[t] \in Unsent <=> stage[t] \in Unsent
      BY <2>1, KeepsToken, UnsentSent
    <2>3. UnsentTasks' = UnsentTasks
      BY <2>2 DEF UnsentTasks
    <2>4. n = Cardinality(UnsentTasks)
      BY <1>1 DEF Barriers, TokensAccounted, UnsentTasks, Announcers
    <2> QED
      BY <2>1, <2>3, <2>4
  <1>2. CASE StartExternals
    <2>1. UnsentTasks' = ExternalTasks
      BY <1>2, StartsLaunch, AnnouncerStages, UnsentSent DEF UnsentTasks, Announcers
    <2> QED
      BY <1>2, <2>1 DEF StartExternals
  <1>3. CASE StartServices
    <2>1. \A t \in ExternalTasks : stage[t] \in Sent
      BY <1>3, BarrierParts DEF PastSent, PastExternals, StartServices
    <2>2. \A t \in ExternalTasks : stage'[t] \notin Unsent
      BY <1>3, <2>1, StartsLaunch, UnsentSent
    <2>3. UnsentTasks' = ServiceTasks
      BY <1>3, <2>2, StartsLaunch, AnnouncerStages DEF UnsentTasks, Announcers
    <2> QED
      BY <1>3, <2>3 DEF StartServices
  <1>4. Awaiting \/ StartExternals \/ StartServices
    BY PcStep DEF Awaiting, BeforeExternals
  <1> QED
    BY <1>1, <1>2, <1>3, <1>4

LEMMA OtherPastSent ==
  ASSUME Shape, Drained, Barriers, [Next]_vars, ~cancelled, ~cancelled',
         \A u \in Tasks : ~Handoff(u)
  PROVE  PastSent'
  <1> USE BarrierParts DEF PastSent, PastExternals, PastServices
  <1>1. \A t \in Announcers : stage[t] \in Sent => stage'[t] \in Sent
    BY KeepsToken
  <1>2. pc = "awaitExternals" => pc' = "awaitExternals"
    BY OtherPcStep DEF Awaiting
  <1>3. pc = "awaitServices" => pc' = "awaitServices"
    BY OtherPcStep DEF Awaiting
  <1>4. ASSUME StartExternals, pc' = "services"
        PROVE  ExternalTasks = {}
    <2>1. Cardinality(Externals) = 0
      BY <1>4 DEF StartExternals
    <2> QED
      BY <2>1, ServicesAssumption, FS_EmptySet DEF ExternalTasks
  <1>5. ASSUME pc' \in PastExternals
        PROVE  \A t \in ExternalTasks : stage'[t] \in Sent
    <2>1. pc \in PastExternals \/ (StartExternals /\ pc' = "services")
      BY <1>2, <1>5, PcStep DEF BeforeExternals
    <2> QED
      BY <1>1, <1>4, <2>1 DEF Announcers
  <1>6. ASSUME pc' \in PastServices
        PROVE  \A t \in ServiceTasks : stage'[t] \in Sent
    <2>1. pc \in PastServices
      BY <1>3, <1>6, PcStep DEF BeforeExternals
    <2> QED
      BY <1>1, <2>1 DEF Announcers
  <1> QED
    BY <1>5, <1>6

LEMMA BarriersStep ==
  ASSUME Shape, Drained, Barriers, [Next]_vars
  PROVE  Barriers'
  <1>1. LaunchedServices'
    BY BarrierParts, LaunchedServicesStep
  <1>2. CASE cancelled'
    BY <1>1, <1>2 DEF Barriers, TokensAccounted, LaunchedServices
  <1>3. CASE ~cancelled'
    <2>1. ~cancelled
      BY <1>3, ShapeTypes, ContextStep DEF MainTyped
    <2>2. TokensAccounted' /\ PastSent'
      <3>1. CASE \E u \in Tasks : Handoff(u)
        BY <1>3, <3>1, HandoffBarriers
      <3>2. CASE \A u \in Tasks : ~Handoff(u)
        BY <1>3, <2>1, <3>2, OtherTokens, OtherPastSent
           DEF TokensAccounted, UnsentTasks, Announcers
      <3> QED
        BY <3>1, <3>2
    <2> QED
      BY <1>1, <2>2 DEF Barriers, LaunchedServices, PastSent
  <1> QED
    BY <1>2, <1>3

LEMMA BarriersInit == Init => Barriers
  BY DEF Init, Barriers, TokensAccounted, Awaiting, PastExternals, PastServices

LEMMA BarriersAlways == Spec => [](Shape /\ Drained /\ Barriers)
  BY ShapeInit, ShapeStep, DrainedInit, DrainedStep, BarriersInit, BarriersStep,
     PTL DEF Spec

(* While a run is not cancelled, waitForNRegistrations expects exactly the *)
(* tokens that are still to come, whatever the number of services.         *)
THEOREM CountsTokens == Spec => []TokensAccounted
  <1>1. Barriers => TokensAccounted
    BY DEF Barriers
  <1> QED
    BY <1>1, BarriersAlways, PTL

-----------------------------------------------------------------------------
(* Layer 4: the order of the changes.                                      *)

LEMMA ConsulGrows ==
  ASSUME [Next]_vars
  PROVE  consul \subseteq consul'
  <1>1. ASSUME NEW t \in Tasks, Local(t) \/ Ending(t)
        PROVE  consul \subseteq consul'
    BY <1>1, HandlerSteps DEF Render, List, Start, Finish, Break, Publish, Bind, Leave, Collect
  <1>2. ASSUME NEW t \in Tasks, Handoff(t)
        PROVE  consul \subseteq consul'
    BY <1>2 DEF Handoff
  <1>3. CASE Main
    BY <1>3 DEF Main, WriteAgent, Ready, Parse, StartCommand, FinishCommand, BreakCommand,
           StartExternals, StartServices, NextResource, Wait, Exit
  <1>4. CASE GiveUp \/ Stop \/ Interrupt \/ UNCHANGED vars
    BY <1>4 DEF GiveUp, Stop, Interrupt, vars
  <1> QED
    BY <1>1, <1>2, <1>3, <1>4, Steps

(* How a goroutine of the errgroup other than the control server moves: a  *)
(* handler that passes a call has had it accepted.                         *)
LEMMA TaskMove ==
  ASSUME Shape, [Next]_vars, NEW t \in GroupTasks, t # ServerTask
  PROVE  \/ stage'[t] = stage[t]
         \/ stage'[t] = "failed"
         \/ stage[t] = "idle" /\ stage'[t] = First(t) /\ Main
         \/ /\ stage[t] \notin Ended \cup {"idle"} /\ stage'[t] = Following(t, stage[t])
            /\ stage[t] \in Calls /\ <<t, stage[t]>> \in Items => <<t, stage[t]>> \in consul'
  <1> USE ShapeTypes, ServerIsTask
  <1>1. CASE Local(t) \/ Ending(t)
    <2>1. \/ stage'[t] = stage[t]
          \/ stage'[t] = "failed"
          \/ stage[t] \notin Ended \cup {"idle"} /\ stage'[t] = Following(t, stage[t])
      BY <1>1, HandlerMoves
    <2>2. ASSUME stage'[t] # stage[t], stage'[t] # "failed", stage[t] \in Calls,
                 <<t, stage[t]>> \in Items
          PROVE  <<t, stage[t]>> \in consul'
      <3>1. ~Fail(t)
        BY <2>2, FailTyped
      <3>2. Finish(t)
        BY <1>1, <2>2, <3>1, HandlerSteps
           DEF Render, List, Start, Break, Publish, Bind, Leave, Collect, Calls
      <3> QED
        BY <2>2, <3>2 DEF Finish
    <2> QED
      BY <2>1, <2>2
  <1>2. ASSUME NEW u \in Tasks \ {t}, Local(u) \/ Ending(u)
        PROVE  stage'[t] = stage[t]
    BY <1>2, HandlerMoves, PartsTyped
  <1>3. ASSUME NEW u \in Tasks, Handoff(u)
        PROVE  \/ stage'[t] = stage[t]
               \/ /\ stage[t] = "send" /\ stage'[t] = Following(t, stage[t])
    <2>1. u # t => stage'[t] = stage[t]
      BY <1>3, HandoffMoves
    <2>2. stage[u] = "send" /\ stage'[u] = Following(u, stage[u])
      BY <1>3, AdvanceTyped DEF Handoff, Ended
    <2> QED
      BY <2>1, <2>2
  <1>4. CASE Main
    BY <1>4, LaunchesIdle
  <1>5. CASE Stop
    BY <1>5, FailTyped DEF Stop
  <1>6. CASE GiveUp \/ Interrupt \/ UNCHANGED vars
    BY <1>6 DEF GiveUp, Interrupt, vars
  <1> QED
    BY <1>1, <1>2, <1>3, <1>4, <1>5, <1>6, Steps DEF Calls, Ended

LEMMA HandlersInGroup ==
  /\ \A t \in ExternalTasks : t \in GroupTasks /\ t # ServerTask /\ Kind(t) = "external"
  /\ \A t \in ServiceTasks : t \in GroupTasks /\ t # ServerTask /\ Kind(t) = "service"
  /\ \A t \in GatewayTasks : t \in GroupTasks /\ t # ServerTask /\ Kind(t) = "gateway"
  /\ \A t \in Meshes : t \in GroupTasks /\ t # ServerTask /\ Kind(t) = "mesh"
  BY KindSets, ServerIsTask DEF GroupTasks

LEMMA CallItems ==
  /\ \A t \in ExternalTasks : \A s \in {"register", "defaults"} : <<t, s>> \in Items
  /\ \A t \in ServiceTasks : \A s \in {"register", "proxy", "defaults"} : <<t, s>> \in Items
  /\ \A t \in GatewayTasks : <<t, "write">> \in Items
  BY DEF Items, ExternalItems, ServiceItems, GatewayItems

LEMMA PassedCallsStep ==
  ASSUME Shape, PassedCalls, [Next]_vars
  PROVE  PassedCalls'
  <1> USE ShapeTypes, HandlersInGroup, ServerIsTask, ConsulGrows
  <1>1. ASSUME NEW t \in ExternalTasks
        PROVE  /\ stage'[t] \in {"defaults", "send"} \cup Sent => <<t, "register">> \in consul'
               /\ stage'[t] \in {"send"} \cup Sent => <<t, "defaults">> \in consul'
    <2>1. /\ stage[t] \in {"defaults", "send"} \cup Sent => <<t, "register">> \in consul
          /\ stage[t] \in {"send"} \cup Sent => <<t, "defaults">> \in consul
      BY DEF PassedCalls
    <2>2. stage[t] \in HandlerStages(t) /\ First(t) = "render"
      BY DEF StageTyped, First
    <2>3. CASE stage'[t] \in {stage[t], "failed", "render"}
      BY <2>1, <2>3 DEF Sent
    <2>4. CASE /\ stage[t] \notin Ended \cup {"idle"} /\ stage'[t] = Following(t, stage[t])
               /\ stage[t] \in Calls /\ <<t, stage[t]>> \in Items => <<t, stage[t]>> \in consul'
      BY <2>1, <2>2, <2>4, CallItems
         DEF HandlerStages, Ended, Following, ExternalRun, Calls, Sent
    <2> QED
      BY <2>2, <2>3, <2>4, TaskMove
  <1>2. ASSUME NEW t \in ServiceTasks
        PROVE  /\ stage'[t] \in {"proxy", "defaults", "send"} \cup Sent => <<t, "register">> \in consul'
               /\ stage'[t] \in {"defaults", "send"} \cup Sent => <<t, "proxy">> \in consul'
               /\ stage'[t] \in {"send"} \cup Sent => <<t, "defaults">> \in consul'
    <2>1. /\ stage[t] \in {"proxy", "defaults", "send"} \cup Sent => <<t, "register">> \in consul
          /\ stage[t] \in {"defaults", "send"} \cup Sent => <<t, "proxy">> \in consul
          /\ stage[t] \in {"send"} \cup Sent => <<t, "defaults">> \in consul
      BY DEF PassedCalls
    <2>2. stage[t] \in HandlerStages(t) /\ First(t) = "render"
      BY DEF StageTyped, First
    <2>3. CASE stage'[t] \in {stage[t], "failed", "render"}
      BY <2>1, <2>3 DEF Sent
    <2>4. CASE /\ stage[t] \notin Ended \cup {"idle"} /\ stage'[t] = Following(t, stage[t])
               /\ stage[t] \in Calls /\ <<t, stage[t]>> \in Items => <<t, stage[t]>> \in consul'
      BY <2>1, <2>2, <2>4, CallItems
         DEF HandlerStages, Ended, Following, ServiceRun, Calls, Sent
    <2> QED
      BY <2>2, <2>3, <2>4, TaskMove
  <1>3. ASSUME NEW t \in GatewayTasks
        PROVE  stage'[t] \in {"list", "run", "done"} => <<t, "write">> \in consul'
    <2>1. stage[t] \in {"list", "run", "done"} => <<t, "write">> \in consul
      BY DEF PassedCalls
    <2>2. stage[t] \in HandlerStages(t) /\ First(t) = "render"
      BY DEF StageTyped, First
    <2>3. CASE stage'[t] \in {stage[t], "failed", "render"}
      BY <2>1, <2>3
    <2>4. CASE /\ stage[t] \notin Ended \cup {"idle"} /\ stage'[t] = Following(t, stage[t])
               /\ stage[t] \in Calls /\ <<t, stage[t]>> \in Items => <<t, stage[t]>> \in consul'
      BY <2>1, <2>2, <2>4, CallItems
         DEF HandlerStages, Ended, Following, GatewayRun, Calls
    <2> QED
      BY <2>2, <2>3, <2>4, TaskMove
  <1> QED
    BY <1>1, <1>2, <1>3 DEF PassedCalls, Sent

(* The main goroutine passes the joins from the last agent to the first,   *)
(* and the resources from the first to the last.                           *)
LEMMA CommandMove ==
  ASSUME Shape, [Next]_vars
  PROVE  /\ pc' = "join" => \/ pc = "join" /\ idx' = idx
                            \/ pc = "join" /\ idx' = idx - 1 /\ <<Command, "join">> \in consul'
                            \/ pc = "parse" /\ idx' = NumDC
         /\ pc' \in {"externals", "awaitExternals"} \cup (PastExternals \ {"wait"}) =>
              \/ pc \in {"externals", "awaitExternals"} \cup (PastExternals \ {"wait"})
              \/ pc = "join" /\ idx = 1 /\ <<Command, "join">> \in consul'
              \/ pc = "parse" /\ JoinItems = {}
         /\ pc' \in {"resources", "entry"} =>
              \/ idx' = 1
              \/ pc \in {"resources", "entry"} /\ idx' = idx
              \/ pc = "resources" /\ idx' = idx + 1 /\ idx \in Gateways
              \/ pc = "entry" /\ idx' = idx + 1 /\ <<Command, "entry">> \in consul'
  <1> USE DEF PastExternals
  <1>1. CASE ~Main
    BY <1>1, PcWithoutMain
  <1>2. CASE FinishCommand
    <2>1. idx \in DCs \/ pc # "join"
      BY ShapeTypes DEF MainTyped, IndexInRange
    <2>2. pc = "join" /\ ~(idx > 1) => idx = 1
      BY <2>1 DEF DCs
    <2>3. \/ pc = "entry" /\ pc' = "resources" /\ idx' = idx + 1
          \/ pc = "join" /\ pc' = "join" /\ idx' = idx - 1
          \/ pc = "join" /\ ~(idx > 1) /\ pc' = "externals"
      BY <1>2 DEF FinishCommand
    <2>4. <<Command, pc>> \in consul'
      BY <1>2 DEF FinishCommand
    <2> QED
      BY <2>2, <2>3, <2>4
  <1>3. CASE WriteAgent \/ Ready \/ Wait \/ Exit
    BY <1>3 DEF WriteAgent, Ready, Wait, Exit, AbortOrWait, Return
  <1>4. CASE Parse
    BY <1>4 DEF Parse, AbortOrWait, Return
  <1>5. CASE StartCommand \/ BreakCommand
    BY <1>5 DEF StartCommand, BreakCommand, AbortOrWait, Return
  <1>6. CASE StartExternals \/ StartServices
    BY <1>6 DEF StartExternals, StartServices
  <1>7. CASE NextResource
    BY <1>7 DEF NextResource, AbortOrWait, Return
  <1> QED
    BY <1>1, <1>2, <1>3, <1>4, <1>5, <1>6, <1>7 DEF Main

LEMMA JoinRange ==
  /\ \A y \in JoinItems : y[1][2] \in DCs /\ y = <<<<"join", y[1][2]>>, "join">>
  /\ \A y \in EntryItems : /\ y[1][2] \in (1..NumResources) \ Gateways
                           /\ y = <<<<"entry", y[1][2]>>, "entry">>
  BY DEF JoinItems, Joins, EntryItems, Entries

LEMMA JoinsBehindStep ==
  ASSUME NEW d \in DCs
  PROVE  /\ JoinsBehind(NumDC) = {}
         /\ JoinsBehind(d - 1) \subseteq JoinsBehind(d) \cup {<<<<"join", d>>, "join">>}
         /\ JoinItems \subseteq JoinsBehind(1) \cup {<<<<"join", 1>>, "join">>}
  BY JoinRange, DatacentersAssumption DEF JoinsBehind, DCs

LEMMA EntriesAheadStep ==
  ASSUME NEW i \in Nat \ {0}
  PROVE  /\ EntriesAhead(1) = {}
         /\ EntriesAhead(i + 1) \subseteq EntriesAhead(i) \cup {<<<<"entry", i>>, "entry">>}
         /\ i \in Gateways => EntriesAhead(i + 1) \subseteq EntriesAhead(i)
  <1>1. \A y \in EntryItems : y[1][2] \in Nat \ {0}
    BY JoinRange, ResourcesAssumption
  <1> QED
    BY <1>1, JoinRange DEF EntriesAhead

LEMMA PassedCommandsStep ==
  ASSUME Shape, PassedCommands, [Next]_vars
  PROVE  PassedCommands'
  <1> USE ShapeTypes, ConsulGrows DEF MainTyped, IndexInRange
  <1>1. ASSUME pc' = "join"
        PROVE  JoinsBehind(idx') \subseteq consul'
    <2>1. CASE pc = "join" /\ idx' = idx
      BY <2>1 DEF PassedCommands
    <2>2. CASE pc = "join" /\ idx' = idx - 1 /\ <<Command, "join">> \in consul'
      BY <2>2, JoinsBehindStep DEF PassedCommands, Command
    <2>3. CASE pc = "parse" /\ idx' = NumDC
      BY <2>3, JoinsBehindStep
    <2> QED
      BY <1>1, <2>1, <2>2, <2>3, CommandMove
  <1>2. ASSUME pc' \in {"externals", "awaitExternals"} \cup (PastExternals \ {"wait"})
        PROVE  JoinItems \subseteq consul'
    <2>1. CASE pc \in {"externals", "awaitExternals"} \cup (PastExternals \ {"wait"})
      BY <2>1 DEF PassedCommands
    <2>2. CASE pc = "join" /\ idx = 1 /\ <<Command, "join">> \in consul'
      <3>1. JoinsBehind(1) \subseteq consul'
        BY <2>2 DEF PassedCommands
      <3>2. <<<<"join", 1>>, "join">> \in consul'
        BY <2>2 DEF Command
      <3> QED
        BY <2>2, <3>1, <3>2, JoinsBehindStep
    <2> QED
      BY <1>2, <2>1, <2>2, CommandMove
  <1>3. ASSUME pc' \in {"resources", "entry"}
        PROVE  EntriesAhead(idx') \subseteq consul'
    <2>1. CASE pc \in {"resources", "entry"}
      <3>1. EntriesAhead(idx) \subseteq consul' /\ idx \in Nat \ {0}
        BY <2>1 DEF PassedCommands
      <3>2. CASE pc = "entry" /\ idx' = idx + 1 /\ <<Command, "entry">> \in consul'
        BY <3>1, <3>2, EntriesAheadStep DEF Command
      <3> QED
        BY <1>3, <3>1, <3>2, CommandMove, EntriesAheadStep
    <2>2. CASE pc \notin {"resources", "entry"}
      BY <1>3, <2>2, CommandMove, EntriesAheadStep
    <2> QED
      BY <2>1, <2>2
  <1> QED
    BY <1>1, <1>2, <1>3 DEF PassedCommands, JoinsBehind, EntriesAhead, JoinItems, EntryItems,
       Joins, Entries, DCs

(* Where the tasks that are not idle were launched.                        *)
LEMMA LaunchPlace ==
  ASSUME Shape, [Next]_vars
  PROVE  /\ \A t \in Meshes \cup ExternalTasks :
              stage'[t] # "idle" => stage[t] # "idle" \/ pc = "externals"
         /\ \A t \in ServiceTasks : stage'[t] # "idle" => stage[t] # "idle" \/ pc = "services"
         /\ \A t \in GatewayTasks :
              stage'[t] # "idle" => stage[t] # "idle" \/ (pc = "resources" /\ idx = t[2])
  <1> USE ShapeTypes, HandlersInGroup, ServerIsTask
  <1>1. CASE ~Main
    BY <1>1, OnlyMainLaunches
  <1>2. CASE Main
    <2>1. CASE stage' = stage
      BY <2>1
    <2>2. CASE pc = "dc" /\ Launch({<<"agent", idx>>})
      BY <2>2, LaunchTyped DEF Kind
    <2>3. CASE pc = "externals" /\ Launch(Meshes \cup ExternalTasks)
      BY <2>3, LaunchTyped, KindSets
    <2>4. CASE pc = "services" /\ Launch(ServiceTasks)
      BY <2>4, LaunchTyped
    <2>5. CASE pc = "resources" /\ Launch({<<"gateway", idx>>})
      BY <2>5, LaunchTyped DEF Kind
    <2> QED
      BY <1>2, <2>1, <2>2, <2>3, <2>4, <2>5, MainMoves
  <1> QED
    BY <1>1, <1>2

LEMMA AllCalls ==
  ASSUME NEW D
  PROVE  /\ ExternalItems \subseteq D <=>
              \A t \in ExternalTasks : <<t, "register">> \in D /\ <<t, "defaults">> \in D
         /\ ServiceItems \subseteq D <=>
              \A t \in ServiceTasks : /\ <<t, "register">> \in D /\ <<t, "proxy">> \in D
                                      /\ <<t, "defaults">> \in D
  <1>1. /\ \A y \in ExternalItems : /\ y[1] \in ExternalTasks
                                    /\ y = <<y[1], "register">> \/ y = <<y[1], "defaults">>
        /\ \A t \in ExternalTasks : /\ <<t, "register">> \in ExternalItems
                                    /\ <<t, "defaults">> \in ExternalItems
    BY DEF ExternalItems
  <1>2. /\ \A y \in ServiceItems : /\ y[1] \in ServiceTasks
                                   /\ \/ y = <<y[1], "register">> \/ y = <<y[1], "proxy">>
                                      \/ y = <<y[1], "defaults">>
        /\ \A t \in ServiceTasks : /\ <<t, "register">> \in ServiceItems
                                   /\ <<t, "proxy">> \in ServiceItems
                                   /\ <<t, "defaults">> \in ServiceItems
    BY DEF ServiceItems
  <1> QED
    BY <1>1, <1>2

LEMMA AllSent ==
  ASSUME PassedCalls
  PROVE  /\ (\A t \in ExternalTasks : stage[t] \in Sent) => ExternalItems \subseteq consul
         /\ (\A t \in ServiceTasks : stage[t] \in Sent) => ServiceItems \subseteq consul
  BY AllCalls DEF PassedCalls

LEMMA AllSentNext ==
  ASSUME PassedCalls'
  PROVE  /\ (\A t \in ExternalTasks : stage'[t] \in Sent) => ExternalItems \subseteq consul'
         /\ (\A t \in ServiceTasks : stage'[t] \in Sent) => ServiceItems \subseteq consul'
  BY AllCalls DEF PassedCalls, ExternalTasks, ServiceTasks, Sent

LEMMA ContextKept ==
  ASSUME Shape, [Next]_vars
  PROVE  cancelled => cancelled'
  BY ShapeTypes, ContextStep DEF MainTyped

LEMMA LaunchedAfterStep ==
  ASSUME Shape, Drained, Barriers, PassedCalls, PassedCommands, LaunchedAfter, [Next]_vars
  PROVE  LaunchedAfter'
  <1> USE ShapeTypes, ConsulGrows, ContextKept, BarrierParts DEF PastExternals, PastServices
  <1>1. ASSUME NEW t \in Meshes \cup ExternalTasks \cup ServiceTasks, stage'[t] # "idle"
        PROVE  JoinItems \subseteq consul'
    BY <1>1, LaunchPlace DEF LaunchedAfter, PassedCommands
  <1>2. ASSUME NEW t \in GatewayTasks, stage'[t] # "idle"
        PROVE  JoinItems \cup EntriesAhead(t[2]) \subseteq consul'
    BY <1>2, LaunchPlace DEF LaunchedAfter, PassedCommands
  <1>3. ASSUME NEW t \in ServiceTasks, stage'[t] # "idle", ~cancelled'
        PROVE  ExternalItems \subseteq consul'
    <2>1. pc = "services" /\ ~cancelled => ExternalItems \subseteq consul
      BY AllSent DEF PastSent
    <2> QED
      BY <1>3, <2>1, LaunchPlace DEF LaunchedAfter
  <1>4. ASSUME NEW t \in GatewayTasks, stage'[t] # "idle", ~cancelled'
        PROVE  ExternalItems \cup ServiceItems \subseteq consul'
    BY <1>4, LaunchPlace DEF LaunchedAfter
  <1>5. ASSUME pc' \in {"resources", "entry"}, ~cancelled'
        PROVE  ExternalItems \cup ServiceItems \subseteq consul'
    <2>1. PastSent' /\ PassedCalls' /\ Shape'
      BY BarriersStep, PassedCallsStep, ShapeStep DEF Barriers, PastSent
    <2>2. \A t \in ExternalTasks : stage'[t] \in Sent
      BY <1>5, <2>1 DEF PastSent, Sent
    <2>3. \A t \in ServiceTasks : stage'[t] \in Sent
      BY <1>5, <2>1 DEF PastSent, Sent
    <2> QED
      BY <2>1, <2>2, <2>3, AllSentNext
  <1> QED
    BY <1>1, <1>2, <1>3, <1>4, <1>5 DEF LaunchedAfter, EntriesAhead

(* What each change needs, spelt out.                                      *)
LEMMA NeedsOf ==
  /\ \A y \in JoinItems : Needs[y] = JoinsBehind(y[1][2])
  /\ \A t \in ExternalTasks :
       /\ Needs[<<t, "register">>] \subseteq JoinItems
       /\ Needs[<<t, "defaults">>] \subseteq {<<t, "register">>} \cup JoinItems
  /\ \A t \in ServiceTasks :
       /\ Needs[<<t, "register">>] \subseteq JoinItems \cup ExternalItems
       /\ Needs[<<t, "proxy">>] \subseteq {<<t, "register">>} \cup JoinItems \cup ExternalItems
       /\ Needs[<<t, "defaults">>] \subseteq
            {<<t, "register">>, <<t, "proxy">>} \cup JoinItems \cup ExternalItems
  /\ \A y \in EntryItems :
       Needs[y] = JoinItems \cup ExternalItems \cup ServiceItems \cup EntriesAhead(y[1][2])
  /\ \A t \in GatewayTasks :
       Needs[<<t, "write">>] =
         JoinItems \cup ExternalItems \cup ServiceItems \cup EntriesAhead(t[2])
  <1>1. ASSUME NEW y \in JoinItems
        PROVE  Needs[y] = JoinsBehind(y[1][2])
    <2>1. y \in Items /\ Kind(y[1]) = "join"
      BY KindSets DEF Items, JoinItems
    <2> QED
      BY <2>1 DEF Needs, JoinsBehind
  <1>2. ASSUME NEW y \in EntryItems
        PROVE  Needs[y] = JoinItems \cup ExternalItems \cup ServiceItems
                            \cup EntriesAhead(y[1][2])
    <2>1. y \in Items /\ Kind(y[1]) = "entry"
      BY KindSets DEF Items, EntryItems
    <2> QED
      BY <2>1 DEF Needs, EntriesAhead
  <1>3. ASSUME NEW t \in GatewayTasks
        PROVE  Needs[<<t, "write">>] =
                 JoinItems \cup ExternalItems \cup ServiceItems \cup EntriesAhead(t[2])
    BY CallItems, HandlersInGroup DEF Needs, EntriesAhead
  <1>4. ASSUME NEW t \in ExternalTasks
        PROVE  /\ Needs[<<t, "register">>] \subseteq JoinItems
               /\ Needs[<<t, "defaults">>] \subseteq {<<t, "register">>} \cup JoinItems
    <2>1. <<t, "proxy">> \notin Items
      BY <1>4, HandlersInGroup, KindSets
         DEF Items, JoinItems, ExternalItems, ServiceItems, EntryItems, GatewayItems
    <2>2. \A s \in {"register", "defaults"} :
            Needs[<<t, s>>] = (({t} \X EarlierCalls(s)) \cap Items) \cup JoinItems
      BY CallItems, HandlersInGroup DEF Needs
    <2>3. /\ EarlierCalls("register") = {}
          /\ EarlierCalls("defaults") = {"register", "proxy"}
      BY DEF EarlierCalls
    <2> QED
      BY <2>1, <2>2, <2>3
  <1>5. ASSUME NEW t \in ServiceTasks
        PROVE  /\ Needs[<<t, "register">>] \subseteq JoinItems \cup ExternalItems
               /\ Needs[<<t, "proxy">>] \subseteq
                    {<<t, "register">>} \cup JoinItems \cup ExternalItems
               /\ Needs[<<t, "defaults">>] \subseteq
                    {<<t, "register">>, <<t, "proxy">>} \cup JoinItems \cup ExternalItems
    <2>1. \A s \in {"register", "proxy", "defaults"} :
            Needs[<<t, s>>] = (({t} \X EarlierCalls(s)) \cap Items) \cup JoinItems \cup ExternalItems
      BY CallItems, HandlersInGroup DEF Needs
    <2>2. /\ EarlierCalls("register") = {}
          /\ EarlierCalls("proxy") = {"register"}
          /\ EarlierCalls("defaults") = {"register", "proxy"}
      BY DEF EarlierCalls
    <2> QED
      BY <2>1, <2>2
  <1> QED
    BY <1>1, <1>2, <1>3, <1>4, <1>5

(* A request or process was outstanding before, or has just been started   *)
(* under a context that was not done.                                      *)
LEMMA InflightStep ==
  ASSUME Shape, [Next]_vars, NEW t \in inflight' \cap Tasks
  PROVE  /\ stage'[t] = stage[t]
         /\ t \in inflight \/ ~cancelled
  <1> USE ShapeTypes DEF InflightOwned
  <1>1. ASSUME NEW u \in Tasks, Local(u) \/ Ending(u)
        PROVE  stage'[t] = stage[t] /\ (t \in inflight \/ ~cancelled)
    <2>1. CASE u = t
      <3>1. t \notin inflight => ~cancelled /\ UNCHANGED stage
        BY <1>1, <2>1, HandlerSteps DEF Render, List, Start, Finish, Break, Publish, Bind,
             Leave, Collect, CtxDone
      <3>2. t \in inflight => stage[t] \in Outside
        OBVIOUS
      <3>3. t \in inflight => UNCHANGED stage
        BY <1>1, <2>1, <3>2, HandlerSteps DEF Render, List, Start, Finish, Break, Publish,
             Bind, Leave, Collect, Outside, Calls
      <3> QED
        BY <3>1, <3>3
    <2>2. CASE u # t
      <3>1. t \in inflight
        BY <1>1, <2>2, HandlerSteps DEF Render, List, Start, Finish, Break, Publish, Bind,
             Leave, Collect
      <3>2. stage[t] \in Outside
        BY <3>1
      <3>3. ~(Publish(u) /\ u \in ServiceTasks /\ t \in Parts(u))
        BY <3>2 DEF PartsInGroup, Publish, Ended, Outside, Calls
      <3> QED
        BY <1>1, <2>2, <3>1, <3>3, HandlerMoves
    <2> QED
      BY <2>1, <2>2
  <1>2. ASSUME NEW u \in Tasks, Handoff(u)
        PROVE  stage'[t] = stage[t] /\ t \in inflight
    <2>1. t \in inflight
      BY <1>2 DEF Handoff
    <2>2. t # u
      BY <1>2, <2>1 DEF Handoff, Outside, Calls
    <2> QED
      BY <1>2, <2>1, <2>2, HandoffMoves
  <1>3. CASE Main
    <2>1. t \in inflight
      BY <1>3, CommandTyped DEF Main, WriteAgent, Ready, Parse, StartCommand, FinishCommand,
           BreakCommand, StartExternals, StartServices, NextResource, Wait, Exit
    <2> QED
      BY <1>3, <2>1, LaunchesIdle DEF Outside, Calls
  <1>4. CASE Stop
    <2>1. t \in inflight /\ t # ServerTask
      BY <1>4 DEF Stop, Outside, Calls
    <2> QED
      BY <1>4, <2>1, ServerIsTask, FailTyped DEF Stop
  <1>5. CASE GiveUp \/ Interrupt \/ UNCHANGED vars
    BY <1>5 DEF GiveUp, Interrupt, vars
  <1> QED
    BY <1>1, <1>2, <1>3, <1>4, <1>5, Steps

CallReady(t) == stage[t] \in Calls => Needs[<<t, stage[t]>>] \subseteq consul

(* What a task at a call, or at its proxy, can rely on while the run is    *)
(* not cancelled.                                                          *)
LEMMA ReadyToCall ==
  ASSUME Shape, Drained, PassedCalls, LaunchedAfter, ~cancelled, NEW t \in Tasks
  PROVE  CallReady(t)
  <1> USE ShapeTypes, NeedsOf
  <1>1. CASE t \in ExternalTasks
    <2>1. stage[t] \in HandlerStages(t) /\ Kind(t) = "external"
      BY <1>1, KindSets DEF StageTyped
    <2>2. stage[t] # "idle" => JoinItems \subseteq consul
      BY <1>1 DEF LaunchedAfter
    <2>3. stage[t] = "defaults" => <<t, "register">> \in consul
      BY <1>1 DEF PassedCalls
    <2>4. stage[t] \in Calls => stage[t] \in {"register", "defaults"}
      BY <2>1 DEF HandlerStages, Ended, Calls
    <2> QED
      BY <1>1, <2>2, <2>3, <2>4 DEF CallReady
  <1>2. CASE t \in ServiceTasks
    <2>1. stage[t] \in HandlerStages(t) /\ Kind(t) = "service"
      BY <1>2, KindSets DEF StageTyped
    <2>2. stage[t] # "idle" => JoinItems \cup ExternalItems \subseteq consul
      BY <1>2 DEF LaunchedAfter
    <2>3. /\ stage[t] \in {"proxy", "defaults"} => <<t, "register">> \in consul
          /\ stage[t] = "defaults" => <<t, "proxy">> \in consul
      BY <1>2 DEF PassedCalls
    <2>4. stage[t] \in Calls => stage[t] \in {"register", "proxy", "defaults"}
      BY <2>1 DEF HandlerStages, Ended, Calls
    <2> QED
      BY <1>2, <2>2, <2>3, <2>4 DEF CallReady
  <1>3. CASE t \in GatewayTasks
    <2>1. stage[t] \in HandlerStages(t) /\ Kind(t) = "gateway"
      BY <1>3, KindSets DEF StageTyped
    <2>2. stage[t] # "idle" =>
            JoinItems \cup ExternalItems \cup ServiceItems \cup EntriesAhead(t[2]) \subseteq consul
      BY <1>3 DEF LaunchedAfter
    <2>3. stage[t] \in Calls => stage[t] = "write"
      BY <2>1 DEF HandlerStages, Ended, Calls
    <2> QED
      BY <1>3, <2>2, <2>3 DEF CallReady
  <1>4. CASE t \notin ExternalTasks \cup ServiceTasks \cup GatewayTasks
    BY <1>4, StageKinds DEF CallReady, Calls
  <1> QED
    BY <1>1, <1>2, <1>3, <1>4

ProxyReady(t) ==
  stage[t] = "run" =>
    CASE Kind(t) = "mesh" -> JoinItems \subseteq consul
      [] Kind(t) = "sidecar" ->
           ExternalItems \cup {y \in ServiceItems : y[1] = Owner(t)} \subseteq consul
      [] Kind(t) = "gateway" ->
           (Needs[<<t, "write">>] \cup {<<t, "write">>}) \subseteq consul
      [] OTHER -> TRUE

LEMMA OwnItems ==
  ASSUME PassedCalls, NEW t \in ServiceTasks, stage[t] \in Sent
  PROVE  {y \in ServiceItems : y[1] = t} \subseteq consul
  <1>1. \A y \in ServiceItems : \/ y = <<y[1], "register">> \/ y = <<y[1], "proxy">>
                                \/ y = <<y[1], "defaults">>
    BY DEF ServiceItems
  <1>2. <<t, "register">> \in consul /\ <<t, "proxy">> \in consul /\ <<t, "defaults">> \in consul
    BY DEF PassedCalls
  <1> QED
    BY <1>1, <1>2

LEMMA ReadyToRun ==
  ASSUME Shape, Drained, PassedCalls, LaunchedAfter, ~cancelled, NEW t \in Tasks
  PROVE  ProxyReady(t)
  <1> USE ShapeTypes, NeedsOf
  <1>1. CASE t \in Meshes /\ stage[t] = "run"
    BY <1>1, KindSets DEF LaunchedAfter, ProxyReady
  <1>2. CASE t \in GatewayTasks /\ stage[t] = "run"
    <2>1. Kind(t) = "gateway" /\ <<t, "write">> \in consul
      BY <1>2, KindSets DEF PassedCalls
    <2>2. JoinItems \cup ExternalItems \cup ServiceItems \cup EntriesAhead(t[2]) \subseteq consul
      BY <1>2 DEF LaunchedAfter
    <2> QED
      BY <1>2, <2>1, <2>2 DEF ProxyReady
  <1>3. CASE t \in Sidecars /\ stage[t] = "run"
    <2>1. Owner(t) \in ServiceTasks /\ t \in Parts(Owner(t)) /\ Kind(t) = "sidecar"
      BY <1>3, KindSets DEF Sidecars, Owner, ServiceTasks, Parts
    <2>2. stage[Owner(t)] \in Ended \cup {"group"}
      BY <1>3, <2>1 DEF PartsInGroup
    <2>3. stage[Owner(t)] # "failed"
      BY <2>1, HandlersInGroup DEF Drained, Cancellation
    <2>4. stage[Owner(t)] \in Sent /\ stage[Owner(t)] # "idle"
      BY <2>2, <2>3 DEF Ended, Sent
    <2>5. ExternalItems \subseteq consul
      BY <2>1, <2>4 DEF LaunchedAfter
    <2> QED
      BY <2>1, <2>4, <2>5, OwnItems DEF ProxyReady
  <1>4. CASE t \notin Meshes \cup GatewayTasks \cup Sidecars
    BY <1>4, TaskCases DEF ProxyReady
  <1> QED
    BY <1>1, <1>2, <1>3, <1>4 DEF ProxyReady

(* The main goroutine's command was outstanding before, or has just been   *)
(* started under a context that was not done.                              *)
LEMMA CommandStep ==
  ASSUME Shape, [Next]_vars, Command' \in inflight'
  PROVE  /\ pc \in {"join", "entry"} /\ pc' = pc /\ idx' = idx
         /\ Command \in inflight \/ ~cancelled
  <1> USE ShapeTypes DEF InflightOwned
  <1>1. MainTyped' /\ InflightOwned'
    <2>1. Shape'
      BY ShapeStep
    <2> QED
      BY <2>1 DEF Shape, Typed, TypeOK, MainTyped
  <1>2. Command' \notin Tasks
    <2>1. \A t \in Tasks : Kind(t) \notin {"dc", "ready", "parse", "join", "externals",
             "awaitExternals", "services", "awaitServices", "resources", "entry", "wait",
             "returned", "exited"}
      BY TaskCases
    <2>2. Kind(Command') = pc'
      BY DEF Command, Kind
    <2> QED
      BY <1>1, <2>1, <2>2 DEF MainTyped
  <1>3. pc' \in {"join", "entry"}
    BY <1>1, <1>2
  <1>4. Command' \in inflight \/ StartCommand
    <2>1. ASSUME NEW t \in Tasks, Local(t) \/ Ending(t)
          PROVE  Command' \in inflight
      BY <1>2, <2>1, HandlerSteps DEF Render, List, Start, Finish, Break, Publish, Bind,
           Leave, Collect
    <2>2. ASSUME NEW t \in Tasks, Handoff(t)
          PROVE  Command' \in inflight
      BY <2>2 DEF Handoff
    <2>3. CASE Main
      BY <2>3 DEF Main, WriteAgent, Ready, Parse, StartCommand, FinishCommand,
           BreakCommand, StartExternals, StartServices, NextResource, Wait, Exit
    <2> QED
      BY <2>1, <2>2, <2>3, Steps DEF GiveUp, Stop, Interrupt, vars
  <1>5. CASE Command' \in inflight
    <2>1. pc \in {"join", "entry"} /\ Command' = Command
      BY <1>2, <1>5
    <2> QED
      BY <1>5, <2>1 DEF Command
  <1>6. CASE StartCommand
    BY <1>3, <1>6 DEF StartCommand, AbortOrWait, Return
  <1> QED
    BY <1>4, <1>5, <1>6

LEMMA CallsReadyParts ==
  CallsReady <=> /\ \A t \in inflight \cap Tasks : CallReady(t) /\ ProxyReady(t)
                 /\ Command \in inflight => Needs[<<Command, pc>>] \subseteq consul
  BY DEF CallsReady, ProxiesStartConfigured, CallReady, ProxyReady

LEMMA CallsReadyStep ==
  ASSUME Shape, Drained, PassedCalls, PassedCommands, LaunchedAfter, CallsReady, [Next]_vars
  PROVE  CallsReady'
  <1> USE ConsulGrows
  <1>1. ASSUME NEW t \in inflight' \cap Tasks
        PROVE  CallReady(t)' /\ ProxyReady(t)'
    <2>1. CallReady(t) /\ ProxyReady(t)
      BY InflightStep, ReadyToCall, ReadyToRun, CallsReadyParts
    <2> QED
      BY <2>1, InflightStep DEF CallReady, ProxyReady, Kind, Owner
  <1>2. ASSUME Command' \in inflight'
        PROVE  Needs[<<Command', pc'>>] \subseteq consul'
    <2>1. pc \in {"join", "entry"} /\ Command' = Command /\ pc' = pc
      BY <1>2, CommandStep DEF Command
    <2>2. CASE Command \in inflight
      BY <2>1, <2>2, CallsReadyParts
    <2>3. CASE pc = "join" /\ ~cancelled
      <3>1. <<Command, pc>> \in JoinItems /\ Command[2] = idx
        BY <2>3, ShapeTypes, KindSets DEF MainTyped, IndexInRange, Command, Joins, JoinItems
      <3>2. Needs[<<Command, pc>>] = JoinsBehind(idx)
        BY <3>1, NeedsOf
      <3> QED
        BY <2>1, <2>3, <3>2 DEF PassedCommands
    <2>4. CASE pc = "entry" /\ ~cancelled
      <3>1. <<Command, pc>> \in EntryItems /\ Command[2] = idx
        BY <2>4, ShapeTypes DEF MainTyped, IndexInRange, Command, Entries, EntryItems
      <3>2. Needs[<<Command, pc>>] =
              JoinItems \cup ExternalItems \cup ServiceItems \cup EntriesAhead(idx)
        BY <3>1, NeedsOf
      <3>3. JoinItems \cup EntriesAhead(idx) \subseteq consul
        BY <2>4 DEF PassedCommands, PastExternals
      <3>4. ExternalItems \cup ServiceItems \subseteq consul
        BY <2>4 DEF LaunchedAfter
      <3> QED
        BY <2>1, <3>2, <3>3, <3>4
    <2> QED
      BY <1>2, <2>1, <2>2, <2>3, <2>4, CommandStep
  <1> QED
    BY <1>1, <1>2, CallsReadyParts DEF CallsReady, ProxiesStartConfigured, CallReady,
       ProxyReady, Owner, Kind

LEMMA OrderedStep ==
  ASSUME Shape, Drained, Barriers, Ordered, [Next]_vars
  PROVE  Ordered'
  BY PassedCallsStep, PassedCommandsStep, LaunchedAfterStep, CallsReadyStep DEF Ordered

LEMMA OrderedInit == Init => Ordered
  <1> SUFFICES ASSUME Init
               PROVE  Ordered
    OBVIOUS
  <1>1. /\ \A t \in Tasks \ {ServerTask} : stage[t] = "idle"
        /\ inflight = {} /\ pc = "dc"
    BY DEF Init
  <1>2. \A t \in Meshes \cup ExternalTasks \cup ServiceTasks \cup GatewayTasks :
          t \in Tasks \ {ServerTask}
    BY HandlersInGroup DEF Tasks
  <1>3. PassedCalls
    BY <1>1, <1>2 DEF PassedCalls, Sent
  <1>4. PassedCommands
    BY <1>1 DEF PassedCommands, PastExternals
  <1>5. LaunchedAfter
    BY <1>1, <1>2 DEF LaunchedAfter
  <1>6. CallsReady
    BY <1>1 DEF CallsReady, ProxiesStartConfigured
  <1> QED
    BY <1>3, <1>4, <1>5, <1>6 DEF Ordered

LEMMA OrderedAlways == Spec => [](Shape /\ Drained /\ Barriers /\ Ordered)
  <1>1. Init => Shape /\ Drained /\ Barriers /\ Ordered
    BY ShapeInit, DrainedInit, BarriersInit, OrderedInit
  <1>2. Shape /\ Drained /\ Barriers /\ Ordered /\ [Next]_vars
          => (Shape /\ Drained /\ Barriers /\ Ordered)'
    BY ShapeStep, DrainedStep, BarriersStep, OrderedStep
  <1> QED
    BY <1>1, <1>2, PTL DEF Spec

(* No proxy is ever run in front of what Consul does not know: whatever    *)
(* was cancelled, failed or is late, a running mesh gateway, sidecar or    *)
(* gateway has its configuration.                                          *)
THEOREM ProxiesConfigured == Spec => []ProxiesStartConfigured
  <1>1. Ordered => ProxiesStartConfigured
    BY DEF Ordered, CallsReady
  <1> QED
    BY <1>1, OrderedAlways, PTL

-----------------------------------------------------------------------------
(* Layer 5: the control server's list.                                     *)

(* What a step adds to the list.                                           *)
LEMMA ListMove ==
  ASSUME Shape, [Next]_vars
  PROVE  /\ listed \subseteq listed'
         /\ \A t \in ExternalTasks \cup ServiceTasks : <<t, "publish">> \in listed' =>
              <<t, "publish">> \in listed \/ stage[t] = "publish"
         /\ \A t \in Sidecars : <<t, "list">> \in listed' =>
              <<t, "list">> \in listed \/ stage[t] = "list"
  <1>1. ASSUME NEW u \in Tasks, Local(u) \/ Ending(u)
        PROVE  /\ listed' \in {listed, listed \cup {<<u, stage[u]>>}}
               /\ listed' # listed => stage[u] \in {"entry", "list", "publish"}
    BY <1>1, HandlerSteps DEF Render, List, Start, Finish, Break, Publish, Bind, Leave, Collect
  <1>2. ASSUME NEW u \in Tasks, Handoff(u)
        PROVE  listed' = listed
    BY <1>2 DEF Handoff
  <1>3. CASE Main
    <2>1. listed' \in {listed, listed \cup {<<<<"entry", idx>>, "entry">>}}
      BY <1>3 DEF Main, WriteAgent, Ready, Parse, StartCommand, FinishCommand,
           BreakCommand, StartExternals, StartServices, NextResource, Wait, Exit
    <2> QED
      BY <2>1
  <1>4. CASE GiveUp \/ Stop \/ Interrupt \/ UNCHANGED vars
    BY <1>4 DEF GiveUp, Stop, Interrupt, vars
  <1> QED
    BY <1>1, <1>2, <1>3, <1>4, Steps

(* A part of a mesh service leaves "idle" when its service is published.   *)
LEMMA PartStarts ==
  ASSUME Shape, [Next]_vars, NEW u \in SubTasks, stage[u] = "idle", stage'[u] # "idle"
  PROVE  <<Owner(u), "publish">> \in listed'
  <1> USE ShapeTypes
  <1>1. u \in Tasks
    BY DEF Tasks
  <1>2. ASSUME NEW t \in Tasks, Local(t) \/ Ending(t)
        PROVE  <<Owner(u), "publish">> \in listed'
    <2>1. u # t
      BY <1>2, HandlerMoves
    <2>2. Publish(t) /\ t \in ServiceTasks /\ u \in Parts(t)
      BY <1>1, <1>2, <2>1, HandlerMoves
    <2>3. Owner(u) = t
      BY <2>2 DEF Owner, Parts, ServiceTasks
    <2> QED
      BY <2>2, <2>3 DEF Publish
  <1>3. ASSUME NEW t \in Tasks, Handoff(t)
        PROVE  FALSE
    BY <1>1, <1>3, HandoffMoves
  <1>4. CASE Main
    BY <1>4, MainLeavesParts
  <1>5. CASE Stop
    BY <1>1, <1>5, FailTyped, ServerIsTask DEF Stop
  <1> QED
    BY <1>2, <1>3, <1>4, <1>5, Steps DEF GiveUp, Interrupt, vars

LEMMA OwnCalls ==
  ASSUME PassedCalls, NEW t \in ExternalTasks, stage[t] \in Sent
  PROVE  {y \in ExternalItems : y[1] = t} \subseteq consul
  <1>1. \A y \in ExternalItems : y = <<y[1], "register">> \/ y = <<y[1], "defaults">>
    BY DEF ExternalItems
  <1>2. <<t, "register">> \in consul /\ <<t, "defaults">> \in consul
    BY DEF PassedCalls
  <1> QED
    BY <1>1, <1>2

LEMMA ListingStep ==
  ASSUME Shape, PassedCalls, Listing, [Next]_vars
  PROVE  Listing'
  <1> USE ListMove, ConsulGrows
  <1>1. ASSUME NEW t \in ExternalTasks \cup ServiceTasks, <<t, "publish">> \in listed'
        PROVE  {y \in ExternalItems \cup ServiceItems : y[1] = t} \subseteq consul'
    <2>1. CASE <<t, "publish">> \in listed
      BY <2>1 DEF Listing, ListedIsDeployed
    <2>2. CASE stage[t] = "publish"
      <3>1. stage[t] \in Sent
        BY <2>2 DEF Sent
      <3>2. /\ t \in ExternalTasks => {y \in ServiceItems : y[1] = t} = {}
            /\ t \in ServiceTasks => {y \in ExternalItems : y[1] = t} = {}
        BY HandlersInGroup DEF ServiceItems, ExternalItems
      <3>3. {y \in ExternalItems : y[1] = t} \cup {y \in ServiceItems : y[1] = t} \subseteq consul
        BY <3>1, <3>2, OwnCalls, OwnItems
      <3> QED
        BY <3>3
    <2> QED
      BY <1>1, <2>1, <2>2
  <1>2. ASSUME NEW t \in Sidecars, <<t, "list">> \in listed'
        PROVE  <<Owner(t), "publish">> \in listed'
    <2>1. CASE <<t, "list">> \in listed
      BY <2>1 DEF Listing, ListedIsDeployed
    <2>2. CASE stage[t] = "list"
      BY <2>2 DEF Listing, PublishedFirst, SubTasks
    <2> QED
      BY <1>2, <2>1, <2>2
  <1>3. ASSUME NEW u \in SubTasks, stage'[u] # "idle"
        PROVE  <<Owner(u), "publish">> \in listed'
    BY <1>3, PartStarts DEF Listing, PublishedFirst
  <1>4. ListedIsDeployed'
    BY <1>1, <1>2 DEF ListedIsDeployed, ExternalTasks, ServiceTasks, Sidecars, Owner,
       ExternalItems, ServiceItems
  <1>5. PublishedFirst'
    BY <1>3 DEF PublishedFirst, SubTasks, Sidecars, Listeners, Owner
  <1> QED
    BY <1>4, <1>5 DEF Listing

LEMMA ListingInit == Init => Listing
  <1>1. \A u \in SubTasks : u \in Tasks \ {ServerTask}
    BY DEF Tasks, SubTasks, Sidecars, Listeners, ServerTask
  <1>2. ASSUME Init
        PROVE  PublishedFirst
    BY <1>1, <1>2 DEF Init, PublishedFirst
  <1>3. ASSUME Init
        PROVE  ListedIsDeployed
    BY <1>3 DEF Init, ListedIsDeployed
  <1> QED
    BY <1>2, <1>3 DEF Listing

-----------------------------------------------------------------------------
(* The whole invariant.                                                    *)

(* The inductive invariant holds of every run, whatever its size.          *)
THEOREM RunnerInvariant == Spec => []IInv
  <1>1. Init => IInv
    BY ShapeInit, DrainedInit, BarriersInit, OrderedInit, ListingInit DEF IInv
  <1>2. IInv /\ [Next]_vars => IInv'
    BY ShapeStep, DrainedStep, BarriersStep, OrderedStep, ListingStep DEF IInv, Ordered
  <1> QED
    BY <1>1, <1>2, PTL DEF Spec

(* What the control server lists is in Consul, and a sidecar is listed     *)
(* after its service.                                                      *)
THEOREM ListsDeployed == Spec => []ListedIsDeployed
  <1>1. IInv => ListedIsDeployed
    BY DEF IInv, Listing
  <1> QED
    BY <1>1, RunnerInvariant, PTL

-----------------------------------------------------------------------------
(* The refinement.                                                         *)

(* The only change to Consul a task's step can make is the one of the call *)
(* it has outstanding.                                                     *)
LEMMA OneChange ==
  ASSUME Shape, CallsReady, [Next]_vars
  PROVE  \/ consul' = consul
         \/ \E x \in Items : consul' = consul \cup {x} /\ Needs[x] \subseteq consul
  <1> USE ShapeTypes DEF InflightOwned
  <1>1. ASSUME NEW t \in Tasks, Finish(t) \/ Break(t)
        PROVE  \/ consul' = consul
               \/ \E x \in Items : consul' = consul \cup {x} /\ Needs[x] \subseteq consul
    <2>1. consul' \in {consul, consul \cup ({<<t, stage[t]>>} \cap Items)}
      BY <1>1 DEF Finish, Break
    <2>2. CASE <<t, stage[t]>> \notin Items
      BY <2>1, <2>2
    <2>3. CASE <<t, stage[t]>> \in Items
      <3>1. t \in inflight
        BY <1>1 DEF Finish, Break
      <3>2. stage[t] \in Calls
        <4>1. stage[t] # "run"
          BY <2>3 DEF Items, JoinItems, ExternalItems, ServiceItems, EntryItems, GatewayItems
        <4> QED
          BY <3>1, <4>1 DEF Outside
      <3>3. Needs[<<t, stage[t]>>] \subseteq consul
        BY <3>1, <3>2, CallsReadyParts DEF CallReady
      <3> QED
        BY <2>1, <2>3, <3>3
    <2> QED
      BY <2>2, <2>3
  <1>2. ASSUME NEW t \in Tasks, Local(t)
        PROVE  consul' = consul
    BY <1>2 DEF Local, Render, List, Start, Publish, Bind, Leave, Collect
  <1>3. ASSUME NEW t \in Tasks, Handoff(t)
        PROVE  consul' = consul
    BY <1>3 DEF Handoff
  <1>4. CASE FinishCommand \/ BreakCommand
    <2>1. /\ consul' \in {consul, consul \cup {<<Command, pc>>}}
          /\ Command \in inflight /\ pc \in {"join", "entry"}
      BY <1>4 DEF FinishCommand, BreakCommand
    <2>2. <<Command, pc>> \in Items
      BY <2>1, CommandTyped DEF Items
    <2> QED
      BY <2>1, <2>2, CallsReadyParts
  <1>5. CASE Main /\ ~(FinishCommand \/ BreakCommand)
    BY <1>5 DEF Main, WriteAgent, Ready, Parse, StartCommand, StartExternals,
         StartServices, NextResource, Wait, Exit
  <1>6. CASE GiveUp \/ Stop \/ Interrupt \/ UNCHANGED vars
    BY <1>6 DEF GiveUp, Stop, Interrupt, vars
  <1> QED
    BY <1>1, <1>2, <1>3, <1>4, <1>5, <1>6, Steps DEF Ending

(* The run implements the staged rollout, for every number of datacenters, *)
(* services and resources, whatever fails and whenever it is interrupted.  *)
THEOREM ImplementsRollout == Spec => Staged
  <1>1. Init => Rollout!Init
    BY DEF Init, Rollout!Init
  <1>2. IInv /\ [Next]_vars => [Rollout!Next]_consul
    <2> SUFFICES ASSUME IInv, [Next]_vars, consul' # consul
                 PROVE  Rollout!Next
      OBVIOUS
    <2>1. PICK x \in Items : consul' = consul \cup {x} /\ Needs[x] \subseteq consul
      BY OneChange DEF IInv, Ordered
    <2> QED
      BY <2>1 DEF Rollout!Next, Rollout!Deploy
  <1> QED
    BY <1>1, <1>2, RunnerInvariant, PTL DEF Spec, Staged, Rollout!Spec

=============================================================================
