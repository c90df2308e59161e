---------------------------- MODULE ReportProofs ------------------------------
(***************************************************************************)
(* Theorems about Report and ControlServer, for any datacenters, services  *)
(* and resources, and any number of reports at any moments of a bring-up.  *)
(***************************************************************************)
EXTENDS Report, FiniteSetTheorems, SequenceTheorems, TLAPS

-----------------------------------------------------------------------------
(* What the handlers tell the control server.                              *)

Kinds == {"mesh", "external", "service", "connect-proxy"} \cup KnownGateways
Folders == {"external-service-defaults", "external-service",
            "service-defaults", "service", "service-proxy"}
FileNames == {<<>>} \cup (DCs \X Folders \X Nat)
ServiceRecords ==
  [dc : DCs, kind : Kinds, name : Nat,
   defaults : FileNames, registration : FileNames, proxy : FileNames]
EntryRecords == {Entry(r) : r \in Resources}
ConsulRecords == [dc : DCs]

ListedExternal(s) ==
  Service(s.dc, "external", s.name, ExternalDefaults(s), ExternalFile(s), <<>>)
ListedProxy(s) ==
  Service(s.dc, "connect-proxy", s.name + 1,
          ServiceDefaults(s), ServiceFile(s), ServiceProxy(s))

(* The steps of the handlers that are not a rendering, one by one.         *)
ListsAgent(h, k) ==
  \E dc \in DCs : /\ RunConsul /\ h = <<"agent", dc>> /\ k = 2
                  /\ Steps(h)[k] = Add("consuls", [dc |-> dc])
ListsMesh(h, k) ==
  \E dc \in DCs : /\ h = <<"mesh", dc>> /\ k = 1
                  /\ Steps(h)[k] = Add("services", WithoutFiles(dc, "mesh", 2 * Position(dc)))
ListsExternal(h, k) ==
  \E s \in Externals :
    /\ h = <<"external", s>> /\ k = 3
    /\ Steps(h)[k] = Add("services", ListedExternal(s))
ListsService(h, k) ==
  \E s \in Services : /\ h = <<"service", s>> /\ k = 4
                      /\ Steps(h)[k] = Add("services", WithoutFiles(s.dc, "service", s.name))
ListsProxy(h, k) ==
  \E s \in Services :
    /\ h = <<"service", s>> /\ k = 5
    /\ Steps(h)[k] = Add("services", ListedProxy(s))
ListsEntry(h, k) ==
  \E r \in Resources : /\ h = <<"resource", r>> /\ k = 2
                       /\ Steps(h)[k] = Add("entries", Entry(r))
ListsGateway(h, k) ==
  \E r \in Resources : /\ h = <<"resource", r>> /\ k = 3 /\ r.kind \in KnownGateways
                       /\ Steps(h)[k] = Add("services", WithoutFiles(r.dc, r.kind, r.name))

(* The handlers' first steps: what they render before they list anything.  *)
LEMMA AgentIs ==
  ASSUME NEW dc \in DCs
  PROVE  Steps(<<"agent", dc>>) = <<Render(ConfigFile(dc)), Add("consuls", [dc |-> dc])>>
  BY DEF Steps, AgentSteps

LEMMA MeshIs ==
  ASSUME NEW dc \in DCs
  PROVE  Steps(<<"mesh", dc>>) = <<Add("services", WithoutFiles(dc, "mesh", 2 * Position(dc)))>>
  BY DEF Steps, MeshSteps

LEMMA ExternalIs ==
  ASSUME NEW s \in Externals
  PROVE  Steps(<<"external", s>>) =
           <<Render(ExternalDefaults(s)), Render(ExternalFile(s)),
             Add("services", ListedExternal(s))>>
  BY DEF Steps, ExternalSteps, ListedExternal

LEMMA ServiceIs ==
  ASSUME NEW s \in Services
  PROVE  Steps(<<"service", s>>) =
           <<Render(ServiceDefaults(s)), Render(ServiceFile(s)), Render(ServiceProxy(s)),
             Add("services", WithoutFiles(s.dc, "service", s.name)),
             Add("services", ListedProxy(s))>>
  BY DEF Steps, ServiceSteps, ListedProxy

LEMMA ResourceIs ==
  ASSUME NEW r \in Resources
  PROVE  /\ r.kind \in KnownGateways =>
              Steps(<<"resource", r>>) =
                <<Render(RenderedFile(r)), Add("entries", Entry(r)),
                  Add("services", WithoutFiles(r.dc, r.kind, r.name))>>
         /\ r.kind \notin KnownGateways =>
              Steps(<<"resource", r>>) = <<Render(RenderedFile(r)), Add("entries", Entry(r))>>
<1>1. Steps(<<"resource", r>>) = ResourceSteps(r)
  BY DEF Steps
<1>2. CASE r.kind \in KnownGateways
  BY <1>1, <1>2 DEF ResourceSteps
<1>3. CASE r.kind \notin KnownGateways
  BY <1>1, <1>3 DEF ResourceSteps
<1> QED
  BY <1>2, <1>3

LEMMA HandlerIs ==
  ASSUME NEW h \in Handlers
  PROVE  \/ \E dc \in DCs : h = <<"agent", dc>> /\ RunConsul
         \/ \E dc \in DCs : h = <<"mesh", dc>>
         \/ \E s \in Externals : h = <<"external", s>>
         \/ \E s \in Services : h = <<"service", s>>
         \/ \E r \in Resources : h = <<"resource", r>>
  BY DEF Handlers, Agents, Meshes

(* Every step is a rendering or one of these.                              *)
LEMMA StepIs ==
  ASSUME NEW h \in Handlers, NEW k \in 1..Len(Steps(h))
  PROVE  \/ Steps(h)[k].do = "render" /\ Steps(h)[k] = Render(Steps(h)[k].what)
         \/ ListsAgent(h, k) \/ ListsMesh(h, k) \/ ListsExternal(h, k)
         \/ ListsService(h, k) \/ ListsProxy(h, k) \/ ListsEntry(h, k) \/ ListsGateway(h, k)
<1>1. ASSUME NEW dc \in DCs, h = <<"agent", dc>>, RunConsul
      PROVE  Steps(h)[k] = Render(ConfigFile(dc)) \/ ListsAgent(h, k)
  BY <1>1, AgentIs DEF ListsAgent
<1>2. ASSUME NEW dc \in DCs, h = <<"mesh", dc>>
      PROVE  ListsMesh(h, k)
  BY <1>2, MeshIs DEF ListsMesh
<1>3. ASSUME NEW s \in Externals, h = <<"external", s>>
      PROVE  \/ Steps(h)[k] = Render(ExternalDefaults(s))
             \/ Steps(h)[k] = Render(ExternalFile(s))
             \/ ListsExternal(h, k)
  <2>1. k \in 1..3 /\ Steps(h) = Steps(<<"external", s>>)
    BY <1>3, ExternalIs
  <2>2. CASE k = 1 \/ k = 2
    BY <2>1, <2>2, ExternalIs
  <2>3. CASE k = 3
    BY <1>3, <2>1, <2>3, ExternalIs DEF ListsExternal
  <2> QED
    BY <2>1, <2>2, <2>3
<1>4. ASSUME NEW s \in Services, h = <<"service", s>>
      PROVE  \/ Steps(h)[k] = Render(ServiceDefaults(s))
             \/ Steps(h)[k] = Render(ServiceFile(s))
             \/ Steps(h)[k] = Render(ServiceProxy(s))
             \/ ListsService(h, k) \/ ListsProxy(h, k)
  <2>1. k \in 1..5 /\ Steps(h) = Steps(<<"service", s>>)
    BY <1>4, ServiceIs
  <2>2. CASE k \in 1..3
    BY <2>1, <2>2, ServiceIs
  <2>3. CASE k = 4
    BY <1>4, <2>1, <2>3, ServiceIs DEF ListsService
  <2>4. CASE k = 5
    BY <1>4, <2>1, <2>4, ServiceIs DEF ListsProxy
  <2> QED
    BY <2>1, <2>2, <2>3, <2>4
<1>5. ASSUME NEW r \in Resources, h = <<"resource", r>>
      PROVE  Steps(h)[k] = Render(RenderedFile(r)) \/ ListsEntry(h, k) \/ ListsGateway(h, k)
  <2>1. Steps(h) = Steps(<<"resource", r>>) /\ k \in 1..3 /\ (k = 3 => r.kind \in KnownGateways)
    <3>1. CASE r.kind \in KnownGateways
      BY <1>5, <3>1, ResourceIs
    <3>2. CASE r.kind \notin KnownGateways
      <4>1. Steps(h) = <<Render(RenderedFile(r)), Add("entries", Entry(r))>>
        BY <1>5, <3>2, ResourceIs
      <4>2. k \in 1..2
        BY <4>1
      <4> QED
        BY <1>5, <4>2
    <3> QED
      BY <3>1, <3>2
  <2>2. CASE k = 1
    BY <2>1, <2>2, ResourceIs
  <2>3. CASE k = 2
    BY <1>5, <2>1, <2>3, ResourceIs DEF ListsEntry
  <2>4. CASE k = 3
    BY <1>5, <2>1, <2>4, ResourceIs DEF ListsGateway
  <2> QED
    BY <2>1, <2>2, <2>3, <2>4
<1>6. ASSUME NEW f, Steps(h)[k] = Render(f)
      PROVE  Steps(h)[k].do = "render" /\ Steps(h)[k] = Render(Steps(h)[k].what)
  BY <1>6 DEF Render
<1> QED
  BY <1>1, <1>2, <1>3, <1>4, <1>5, <1>6, HandlerIs

LEMMA NamesAre ==
  /\ \A s \in Externals \cup Services : s.dc \in DCs /\ s.name \in Nat /\ s.name % 2 = 0
  /\ \A s, t \in Externals \cup Services : s.dc = t.dc /\ s.name = t.name => s = t
<1>1. \A s \in Externals \cup Services : s \in [dc : DCs, name : Nat] /\ s.name % 2 = 0
  BY NamesAssumption
<1> QED
  BY <1>1

(* What is listed has the shape of its list.                               *)
LEMMA FilesAreNamed ==
  /\ \A s \in Externals : ExternalDefaults(s) \in FileNames /\ ExternalFile(s) \in FileNames
  /\ \A s \in Services : /\ ServiceDefaults(s) \in FileNames /\ ServiceFile(s) \in FileNames
                         /\ ServiceProxy(s) \in FileNames
  BY NamesAre DEF FileNames, ExternalDefaults, ExternalFile, ServiceDefaults,
     ServiceFile, ServiceProxy, Folders

LEMMA PositionIs ==
  ASSUME NEW dc \in DCs
  PROVE  Position(dc) \in 1..Len(Datacenters) /\ Datacenters[Position(dc)] = dc
  BY DatacentersAssumption DEF Position, DCs, ToSet

LEMMA PositionOf ==
  ASSUME NEW i \in 1..Len(Datacenters)
  PROVE  Datacenters[i] \in DCs /\ Position(Datacenters[i]) = i
<1>1. Datacenters[i] \in DCs
  BY DatacentersAssumption DEF DCs, ToSet
<1> QED
  BY <1>1, PositionIs, DatacentersAssumption DEF IsInjective

LEMMA AddIs ==
  ASSUME NEW list, NEW x
  PROVE  /\ Add(list, x).do = list /\ Add(list, x).what = x
         /\ \A l, y : Add(list, x) = Add(l, y) => l = list /\ x = y
         /\ \A f : Add(list, x) = Render(f) => list = "render"
<1>1. Add(list, x).do = list /\ Add(list, x).what = x
  BY DEF Add
<1>2. \A l, y : Add(l, y).do = l /\ Add(l, y).what = y
  BY DEF Add
<1>3. \A f : Render(f).do = "render"
  BY DEF Render
<1> QED
  BY <1>1, <1>2, <1>3

(* Which list each of those steps extends.                                 *)
LEMMA ListIs ==
  ASSUME NEW h, NEW k
  PROVE  LET s == Steps(h)[k]
         IN /\ ListsAgent(h, k) => s = Add("consuls", s.what) /\ s.do = "consuls"
            /\ ListsEntry(h, k) => s = Add("entries", s.what) /\ s.do = "entries"
            /\ \/ ListsMesh(h, k) \/ ListsExternal(h, k) \/ ListsService(h, k)
               \/ ListsProxy(h, k) \/ ListsGateway(h, k)
               => s = Add("services", s.what) /\ s.do = "services"
<1> DEFINE s == Steps(h)[k]
<1>1. ListsAgent(h, k) => s = Add("consuls", s.what) /\ s.do = "consuls"
  BY AddIs DEF ListsAgent
<1>2. ListsEntry(h, k) => s = Add("entries", s.what) /\ s.do = "entries"
  BY AddIs DEF ListsEntry
<1>3. ListsMesh(h, k) => s = Add("services", s.what) /\ s.do = "services"
  BY AddIs DEF ListsMesh
<1>4. ListsExternal(h, k) => s = Add("services", s.what) /\ s.do = "services"
  BY AddIs DEF ListsExternal
<1>5. ListsService(h, k) => s = Add("services", s.what) /\ s.do = "services"
  BY AddIs DEF ListsService
<1>6. ListsProxy(h, k) => s = Add("services", s.what) /\ s.do = "services"
  BY AddIs DEF ListsProxy
<1>7. ListsGateway(h, k) => s = Add("services", s.what) /\ s.do = "services"
  BY AddIs DEF ListsGateway
<1> QED
  BY <1>1, <1>2, <1>3, <1>4, <1>5, <1>6, <1>7

LEMMA ListedShape ==
  ASSUME NEW h \in Handlers, NEW k \in 1..Len(Steps(h)), NEW x
  PROVE  /\ Steps(h)[k] = Add("consuls", x) => ListsAgent(h, k) /\ x \in ConsulRecords
         /\ Steps(h)[k] = Add("entries", x) => ListsEntry(h, k) /\ x \in EntryRecords
         /\ Steps(h)[k] = Add("services", x) =>
              /\ x \in ServiceRecords
              /\ \/ ListsMesh(h, k) \/ ListsExternal(h, k) \/ ListsService(h, k)
                 \/ ListsProxy(h, k) \/ ListsGateway(h, k)
<1>1. Steps(h)[k] = Add("consuls", x) => ListsAgent(h, k) /\ x \in ConsulRecords
  <2> SUFFICES ASSUME Steps(h)[k] = Add("consuls", x)
               PROVE  ListsAgent(h, k) /\ x \in ConsulRecords
    OBVIOUS
  <2>1. Steps(h)[k].do = "consuls" /\ Steps(h)[k].what = x
    BY AddIs
  <2>2. ListsAgent(h, k)
    BY <2>1, StepIs, ListIs
  <2> QED
    BY <2>2, AddIs DEF ListsAgent, ConsulRecords
<1>2. Steps(h)[k] = Add("entries", x) => ListsEntry(h, k) /\ x \in EntryRecords
  <2> SUFFICES ASSUME Steps(h)[k] = Add("entries", x)
               PROVE  ListsEntry(h, k) /\ x \in EntryRecords
    OBVIOUS
  <2>1. Steps(h)[k].do = "entries" /\ Steps(h)[k].what = x
    BY AddIs
  <2>2. ListsEntry(h, k)
    BY <2>1, StepIs, ListIs
  <2> QED
    BY <2>2, AddIs DEF ListsEntry, EntryRecords
<1>3. ASSUME Steps(h)[k] = Add("services", x)
      PROVE  /\ x \in ServiceRecords
             /\ \/ ListsMesh(h, k) \/ ListsExternal(h, k) \/ ListsService(h, k)
                \/ ListsProxy(h, k) \/ ListsGateway(h, k)
  <2>0. Steps(h)[k].do = "services" /\ Steps(h)[k].what = x
    BY <1>3, AddIs
  <2>1. \/ ListsMesh(h, k) \/ ListsExternal(h, k) \/ ListsService(h, k)
        \/ ListsProxy(h, k) \/ ListsGateway(h, k)
    BY <2>0, StepIs, ListIs
  <2>2. ASSUME NEW dc \in DCs, NEW kind \in Kinds, NEW name \in Nat, NEW d \in FileNames,
               NEW g \in FileNames, NEW p \in FileNames
        PROVE  Service(dc, kind, name, d, g, p) \in ServiceRecords
    BY DEF Service, ServiceRecords
  <2>3. <<>> \in FileNames
    BY DEF FileNames
  <2>4. ListsMesh(h, k) => x \in ServiceRecords
    BY <1>3, AddIs, <2>2, <2>3, PositionIs, DatacentersAssumption
       DEF ListsMesh, WithoutFiles, Kinds
  <2>5. ListsExternal(h, k) => x \in ServiceRecords
    BY <1>3, AddIs, <2>2, <2>3, FilesAreNamed, NamesAre
       DEF ListsExternal, ListedExternal, Kinds
  <2>6. ListsService(h, k) => x \in ServiceRecords
    BY <1>3, AddIs, <2>2, <2>3, NamesAre DEF ListsService, WithoutFiles, Kinds
  <2>7. ListsProxy(h, k) => x \in ServiceRecords
    BY <1>3, AddIs, <2>2, <2>3, FilesAreNamed, NamesAre
       DEF ListsProxy, ListedProxy, Kinds
  <2>8. ListsGateway(h, k) => x \in ServiceRecords
    <3> SUFFICES ASSUME NEW r \in Resources, r.kind \in KnownGateways,
                        x = WithoutFiles(r.dc, r.kind, r.name)
                 PROVE  x \in ServiceRecords
      BY <1>3, AddIs DEF ListsGateway
    <3>1. r.kind \in Kinds /\ r.dc \in DCs /\ r.name \in Nat
      BY NamesAssumption DEF Kinds
    <3> QED
      BY <2>2, <2>3, <3>1 DEF WithoutFiles
  <2> QED
    BY <2>1, <2>4, <2>5, <2>6, <2>7, <2>8
<1> QED
  BY <1>1, <1>2, <1>3

-----------------------------------------------------------------------------
(* The invariant of the control server.  A file is in the cache once its   *)
(* handler is past the rendering, and it has it from a handler that        *)
(* renders it; what is listed a handler has listed in one of its steps;    *)
(* an entry is listed once its handler is past that step; the agents are   *)
(* listed in their order, and before anybody else makes a step.            *)

ServerType ==
  /\ step \in [Handlers -> Nat] /\ \A h \in Handlers : step[h] <= Len(Steps(h))
  /\ files \in [DOMAIN files -> Handlers]
  /\ consuls \in Seq(ConsulRecords)
  /\ services \in Seq(ServiceRecords)
  /\ entries \in Seq(EntryRecords)
Rendered ==
  \A h \in Handlers : \A k \in 1..step[h] :
    Steps(h)[k].do = "render" => Steps(h)[k].what \in DOMAIN files
Owned ==
  \A f \in DOMAIN files : \E k \in 1..step[files[f]] : Steps(files[f])[k] = Render(f)
Made(done, list, x) == \E h \in Handlers : \E k \in 1..done[h] : Steps(h)[k] = Add(list, x)
Told ==
  /\ \A i \in 1..Len(consuls) : Made(step, "consuls", consuls[i])
  /\ \A i \in 1..Len(services) : Made(step, "services", services[i])
  /\ \A i \in 1..Len(entries) : Made(step, "entries", entries[i])
Entered ==
  \A r \in Resources :
    step[<<"resource", r>>] >= 2 => \E i \in 1..Len(entries) : entries[i] = Entry(r)
InTurn ==
  /\ Len(consuls) <= Len(Datacenters)
  /\ \A i \in 1..Len(consuls) : consuls[i].dc = Datacenters[i]
AgentsFirst ==
  RunConsul => \A h \in Handlers :
    h[1] # "agent" /\ step[h] > 0 => Len(consuls) = Len(Datacenters)
ServerInv ==
  ServerType /\ Rendered /\ Owned /\ Told /\ Entered /\ InTurn /\ AgentsFirst

LEMMA InitServer == ServerInit => ServerInv
<1> SUFFICES ASSUME ServerInit PROVE ServerInv
  OBVIOUS
<1> USE DEF ServerInit
<1>1. step \in [Handlers -> Nat] /\ \A h \in Handlers : step[h] = 0 /\ 1..step[h] = {}
  OBVIOUS
<1>2. ASSUME NEW h \in Handlers PROVE Len(Steps(h)) \in Nat
  BY HandlerIs, AgentIs, MeshIs, ExternalIs, ServiceIs, ResourceIs
<1>3. ServerType
  BY <1>1, <1>2 DEF ServerType
<1>4. Rendered /\ Owned /\ Told /\ InTurn /\ AgentsFirst
  BY <1>1, DatacentersAssumption DEF Rendered, Owned, Told, InTurn, AgentsFirst
<1>5. Entered
  BY <1>1 DEF Entered, Handlers
<1> QED
  BY <1>3, <1>4, <1>5 DEF ServerInv

(* A step of a handler: one file more, or one element more in one list.    *)
LEMMA ProceedMoves ==
  ASSUME ServerInv, NEW h \in Handlers, Proceed(h)
  PROVE  LET k == step[h] + 1
         IN /\ k \in 1..Len(Steps(h))
            /\ step' = [step EXCEPT ![h] = k]
            /\ step' \in [Handlers -> Nat] /\ step'[h] = k
            /\ \A g \in Handlers : g # h => step'[g] = step[g]
            /\ \/ \E f : /\ Steps(h)[k] = Render(f)
                         /\ WriteFile(f, h) /\ UNCHANGED <<consuls, services, entries>>
               \/ \E x \in ConsulRecords :
                    /\ Steps(h)[k] = Add("consuls", x) /\ consuls' = Append(consuls, x)
                    /\ UNCHANGED <<files, services, entries>>
               \/ \E x \in ServiceRecords :
                    /\ Steps(h)[k] = Add("services", x) /\ services' = Append(services, x)
                    /\ UNCHANGED <<files, consuls, entries>>
               \/ \E x \in EntryRecords :
                    /\ Steps(h)[k] = Add("entries", x) /\ entries' = Append(entries, x)
                    /\ UNCHANGED <<files, consuls, services>>
<1> DEFINE k == step[h] + 1
<1>0. ServerType
  BY DEF ServerInv
<1>1. k \in 1..Len(Steps(h))
  BY <1>0 DEF ServerType, Proceed
<1>2. /\ step' = [step EXCEPT ![h] = k]
      /\ step' \in [Handlers -> Nat] /\ step'[h] = k
      /\ \A g \in Handlers : g # h => step'[g] = step[g]
  BY <1>0 DEF ServerType, Proceed
<1>3. \/ Steps(h)[k] = Render(Steps(h)[k].what)
      \/ \E list \in {"consuls", "services", "entries"} :
           Steps(h)[k] = Add(list, Steps(h)[k].what)
  <2> HIDE DEF k
  <2> QED
    BY <1>1, StepIs, ListIs
<1>4. CASE Steps(h)[k] = Render(Steps(h)[k].what)
  <2>1. Steps(h)[k].do = "render"
    BY <1>4 DEF Render
  <2> QED
    BY <1>1, <1>2, <1>4, <2>1 DEF Proceed
<1>5. CASE Steps(h)[k] = Add("consuls", Steps(h)[k].what)
  <2>1. Steps(h)[k].do = "consuls" /\ Steps(h)[k].what \in ConsulRecords
    BY <1>1, <1>5, ListedShape, AddIs
  <2> QED
    BY <1>1, <1>2, <1>5, <2>1 DEF Proceed
<1>6. CASE Steps(h)[k] = Add("services", Steps(h)[k].what)
  <2>1. Steps(h)[k].do = "services" /\ Steps(h)[k].what \in ServiceRecords
    BY <1>1, <1>6, ListedShape, AddIs
  <2> QED
    BY <1>1, <1>2, <1>6, <2>1 DEF Proceed
<1>7. CASE Steps(h)[k] = Add("entries", Steps(h)[k].what)
  <2>1. Steps(h)[k].do = "entries" /\ Steps(h)[k].what \in EntryRecords
    BY <1>1, <1>7, ListedShape, AddIs
  <2> QED
    BY <1>1, <1>2, <1>7, <2>1 DEF Proceed
<1> QED
  BY <1>3, <1>4, <1>5, <1>6, <1>7

LEMMA MadeStays ==
  ASSUME ServerInv, NEW h \in Handlers, Proceed(h), NEW list, NEW x
  PROVE  /\ Made(step, list, x) => Made(step', list, x)
         /\ Steps(h)[step[h] + 1] = Add(list, x) => Made(step', list, x)
<1>1. step \in [Handlers -> Nat] /\ step' \in [Handlers -> Nat]
      /\ step'[h] = step[h] + 1 /\ \A g \in Handlers : step[g] <= step'[g]
  BY ProceedMoves DEF ServerInv, ServerType
<1>2. \A g \in Handlers : 1..step[g] \subseteq 1..step'[g]
  BY <1>1
<1>3. step[h] + 1 \in 1..step'[h]
  BY <1>1
<1> QED
  BY <1>2, <1>3 DEF Made

LEMMA WriteIs ==
  ASSUME NEW f, NEW h, WriteFile(f, h)
  PROVE  /\ DOMAIN files' = DOMAIN files \cup {f} /\ files'[f] = h
         /\ \A g \in DOMAIN files : g # f => files'[g] = files[g]
  BY DEF WriteFile

(* An agent is listed when those of the datacenters before it are, and it  *)
(* alone has not been.                                                     *)
LEMMA AgentListed ==
  ASSUME ServerInv, NEW h \in Handlers, Proceed(h), NEW x \in ConsulRecords,
         Steps(h)[step[h] + 1] = Add("consuls", x)
  PROVE  /\ RunConsul /\ h[1] = "agent"
         /\ Len(consuls) + 1 \in 1..Len(Datacenters)
         /\ x.dc = Datacenters[Len(consuls) + 1]
<1>1. step[h] + 1 \in 1..Len(Steps(h)) /\ consuls \in Seq(ConsulRecords)
  BY ProceedMoves DEF ServerInv, ServerType
<1>2. PICK dc \in DCs : RunConsul /\ h = <<"agent", dc>> /\ step[h] + 1 = 2 /\ x = [dc |-> dc]
  <2>1. ListsAgent(h, step[h] + 1)
    BY <1>1, ListedShape
  <2>2. PICK dc \in DCs : /\ RunConsul /\ h = <<"agent", dc>> /\ step[h] + 1 = 2
                         /\ Steps(h)[step[h] + 1] = Add("consuls", [dc |-> dc])
    BY <2>1 DEF ListsAgent
  <2>3. x = [dc |-> dc]
    BY <2>2, AddIs
  <2> QED
    BY <2>2, <2>3
<1> DEFINE p == Position(dc)
<1>3. p \in 1..Len(Datacenters) /\ Datacenters[p] = dc
  BY PositionIs
<1>4. Len(consuls) >= p - 1
  BY <1>2 DEF Proceed, Launched
<1>5. ASSUME Len(consuls) >= p PROVE FALSE
  <2>1. p \in 1..Len(consuls) /\ consuls[p].dc = dc
    BY <1>1, <1>3, <1>5 DEF ServerInv, InTurn
  <2>2. PICK g \in Handlers : \E j \in 1..step[g] : Steps(g)[j] = Add("consuls", consuls[p])
    BY <2>1 DEF ServerInv, Told, Made
  <2>3. PICK j \in 1..step[g] : Steps(g)[j] = Add("consuls", consuls[p])
    BY <2>2
  <2>4. step[g] \in Nat /\ j \in 1..Len(Steps(g))
    BY <2>3 DEF ServerInv, ServerType
  <2>5. ListsAgent(g, j)
    BY <2>3, <2>4, ListedShape
  <2>6. g = h /\ j = 2
    BY <1>2, <2>1, <2>3, <2>5, AddIs DEF ListsAgent
  <2>7. step[h] \in Nat
    BY DEF ServerInv, ServerType
  <2> QED
    BY <1>2, <2>3, <2>6, <2>7
<1>6. Len(consuls) \in Nat
  BY <1>1
<1>7. Len(consuls) + 1 = p
  BY <1>3, <1>4, <1>5, <1>6, DatacentersAssumption
<1> QED
  BY <1>2, <1>3, <1>7

LEMMA ProceedStep ==
  ASSUME ServerInv, NEW h \in Handlers, Proceed(h)
  PROVE  ServerInv'
<1> DEFINE k == step[h] + 1
<1>0. /\ ServerType /\ Rendered /\ Owned /\ Told /\ Entered /\ InTurn /\ AgentsFirst
      /\ step \in [Handlers -> Nat] /\ \A g \in Handlers : step[g] <= Len(Steps(g))
      /\ files \in [DOMAIN files -> Handlers] /\ consuls \in Seq(ConsulRecords)
      /\ services \in Seq(ServiceRecords) /\ entries \in Seq(EntryRecords)
  BY DEF ServerInv, ServerType
<1>1. /\ k \in 1..Len(Steps(h)) /\ step' \in [Handlers -> Nat] /\ step'[h] = k
      /\ \A g \in Handlers : g # h => step'[g] = step[g]
  BY ProceedMoves
<1>2. \A g \in Handlers : step'[g] <= Len(Steps(g))
  <2>1. step'[h] <= Len(Steps(h))
    BY <1>1
  <2> QED
    BY <1>0, <1>1, <2>1
<1>3. \A g \in Handlers : \A j \in 1..step'[g] : j \in 1..step[g] \/ (g = h /\ j = k)
  BY <1>0, <1>1
<1>4. ASSUME h[1] # "agent" PROVE RunConsul => Len(consuls) = Len(Datacenters)
  BY <1>0, <1>4, DatacentersAssumption DEF Proceed, Launched, InTurn
<1>4a. \A g \in Handlers : 1..step[g] \subseteq 1..step'[g]
  <2> SUFFICES ASSUME NEW g \in Handlers, NEW j \in 1..step[g] PROVE j \in 1..step'[g]
    OBVIOUS
  <2>1. step[g] \in Nat /\ step'[g] \in Nat /\ step[g] <= step'[g]
    BY <1>0, <1>1
  <2> QED
    BY <2>1
<1>5. ASSUME UNCHANGED consuls PROVE InTurn' /\ AgentsFirst'
  <2>1. InTurn'
    BY <1>0, <1>5 DEF InTurn
  <2>2. AgentsFirst'
    BY <1>0, <1>1, <1>4, <1>5 DEF AgentsFirst
  <2> QED
    BY <2>1, <2>2
<1>6. ASSUME UNCHANGED entries, \A r \in Resources : Steps(h)[k] # Add("entries", Entry(r))
      PROVE  Entered'
  <2> SUFFICES ASSUME NEW r \in Resources, step'[<<"resource", r>>] >= 2
               PROVE  \E i \in 1..Len(entries) : entries[i] = Entry(r)
    BY <1>6 DEF Entered
  <2>1. <<"resource", r>> \in Handlers
    BY DEF Handlers
  <2>2. CASE <<"resource", r>> # h \/ k # 2
    BY <1>0, <1>1, <2>1, <2>2 DEF Entered
  <2>3. CASE <<"resource", r>> = h /\ k = 2
    BY <1>6, <2>3, ResourceIs
  <2> QED
    BY <2>2, <2>3
<1>7. ASSUME UNCHANGED files PROVE Owned'
  BY <1>0, <1>4a, <1>7 DEF Owned
<1>8. ASSUME UNCHANGED files, Steps(h)[k].do # "render" PROVE Rendered'
  BY <1>0, <1>1, <1>3, <1>8 DEF Rendered
<1>9. \A list, x : /\ Made(step, list, x) => Made(step', list, x)
                   /\ Steps(h)[k] = Add(list, x) => Made(step', list, x)
  BY MadeStays
<1>10. /\ UNCHANGED consuls => \A i \in 1..Len(consuls) : Made(step', "consuls", consuls[i])
       /\ UNCHANGED services => \A i \in 1..Len(services) : Made(step', "services", services[i])
       /\ UNCHANGED entries => \A i \in 1..Len(entries) : Made(step', "entries", entries[i])
  BY <1>0, <1>9 DEF Told, Made
<1>11. CASE \E f : /\ Steps(h)[k] = Render(f) /\ WriteFile(f, h)
                   /\ UNCHANGED <<consuls, services, entries>>
  <2>1. PICK f : Steps(h)[k] = Render(f) /\ WriteFile(f, h)
    BY <1>11
  <2>2. DOMAIN files' = DOMAIN files \cup {f} /\ files'[f] = h
        /\ \A g \in DOMAIN files : g # f => files'[g] = files[g]
    BY <2>1, WriteIs
  <2>3. files' \in [DOMAIN files' -> Handlers]
    <3>1. files' = [g \in DOMAIN files' |-> files'[g]]
      BY <2>1 DEF WriteFile
    <3> QED
      BY <1>0, <2>2, <3>1
  <2>4. ServerType'
    BY <1>0, <1>1, <1>2, <1>11, <2>3 DEF ServerType
  <2>5. Rendered'
    <3>1. Steps(h)[k].what = f
      BY <2>1 DEF Render
    <3> QED
      BY <1>0, <1>3, <2>2, <3>1 DEF Rendered
  <2>6. Owned'
    <3>1. k \in 1..step'[h]
      BY <1>0, <1>1
    <3> QED
      BY <1>0, <1>4a, <2>1, <2>2, <3>1 DEF Owned
  <2>7. Told'
    BY <1>10, <1>11 DEF Told
  <2>8. Entered'
    BY <1>6, <1>11, <2>1, AddIs
  <2> QED
    BY <1>5, <1>11, <2>4, <2>5, <2>6, <2>7, <2>8 DEF ServerInv
<1>12. CASE \E x \in ConsulRecords :
              /\ Steps(h)[k] = Add("consuls", x) /\ consuls' = Append(consuls, x)
              /\ UNCHANGED <<files, services, entries>>
  <2>1. PICK x \in ConsulRecords :
          Steps(h)[k] = Add("consuls", x) /\ consuls' = Append(consuls, x)
    BY <1>12
  <2>2. consuls' \in Seq(ConsulRecords) /\ Len(consuls') = Len(consuls) + 1
        /\ consuls'[Len(consuls) + 1] = x
        /\ \A i \in 1..Len(consuls) : consuls'[i] = consuls[i]
    BY <1>0, <2>1
  <2>3. Len(consuls) \in Nat /\ \A i \in 1..Len(consuls') : i \in 1..Len(consuls) \/ i = Len(consuls) + 1
    BY <1>0, <2>2
  <2>4. ServerType'
    BY <1>0, <1>1, <1>2, <1>12, <2>2 DEF ServerType
  <2>5. Rendered'
    BY <1>8, <1>12, <2>1, AddIs
  <2>6. \A i \in 1..Len(consuls') : Made(step', "consuls", consuls'[i])
    BY <1>0, <1>9, <2>1, <2>2, <2>3 DEF Told
  <2>7. Told'
    BY <1>10, <1>12, <2>6 DEF Told, Made
  <2>8. Entered'
    BY <1>6, <1>12, <2>1, AddIs
  <2>9. /\ RunConsul /\ h[1] = "agent" /\ Len(consuls) + 1 \in 1..Len(Datacenters)
        /\ x.dc = Datacenters[Len(consuls) + 1]
    BY <2>1, AgentListed
  <2>10. InTurn'
    BY <1>0, <2>2, <2>3, <2>9 DEF InTurn
  <2>11. AgentsFirst'
    <3>1. ~ \E g \in Handlers : g[1] # "agent" /\ step[g] > 0
      BY <1>0, <2>3, <2>9, DatacentersAssumption DEF AgentsFirst
    <3>2. ASSUME NEW g \in Handlers, g[1] # "agent" PROVE ~(step'[g] > 0)
      <4>1. g # h
        BY <2>9, <3>2
      <4> QED
        BY <1>1, <3>1, <3>2, <4>1
    <3> QED
      BY <3>2 DEF AgentsFirst
  <2> QED
    BY <1>7, <1>12, <2>4, <2>5, <2>7, <2>8, <2>10, <2>11 DEF ServerInv
<1>13. CASE \E x \in ServiceRecords :
              /\ Steps(h)[k] = Add("services", x) /\ services' = Append(services, x)
              /\ UNCHANGED <<files, consuls, entries>>
  <2>1. PICK x \in ServiceRecords :
          Steps(h)[k] = Add("services", x) /\ services' = Append(services, x)
    BY <1>13
  <2>2. services' \in Seq(ServiceRecords) /\ Len(services') = Len(services) + 1
        /\ services'[Len(services) + 1] = x
        /\ \A i \in 1..Len(services) : services'[i] = services[i]
    BY <1>0, <2>1
  <2>3. \A i \in 1..Len(services') : i \in 1..Len(services) \/ i = Len(services) + 1
    BY <1>0, <2>2
  <2>4. ServerType'
    BY <1>0, <1>1, <1>2, <1>13, <2>2 DEF ServerType
  <2>5. Rendered'
    BY <1>8, <1>13, <2>1, AddIs
  <2>6. \A i \in 1..Len(services') : Made(step', "services", services'[i])
    BY <1>0, <1>9, <2>1, <2>2, <2>3 DEF Told
  <2>7. Told'
    BY <1>10, <1>13, <2>6 DEF Told, Made
  <2>8. Entered'
    BY <1>6, <1>13, <2>1, AddIs
  <2> QED
    BY <1>5, <1>7, <1>13, <2>4, <2>5, <2>7, <2>8 DEF ServerInv
<1>14. CASE \E x \in EntryRecords :
              /\ Steps(h)[k] = Add("entries", x) /\ entries' = Append(entries, x)
              /\ UNCHANGED <<files, consuls, services>>
  <2>1. PICK x \in EntryRecords :
          Steps(h)[k] = Add("entries", x) /\ entries' = Append(entries, x)
    BY <1>14
  <2>2. entries' \in Seq(EntryRecords) /\ Len(entries') = Len(entries) + 1
        /\ entries'[Len(entries) + 1] = x
        /\ \A i \in 1..Len(entries) : entries'[i] = entries[i]
    BY <1>0, <2>1
  <2>3. \A i \in 1..Len(entries') : i \in 1..Len(entries) \/ i = Len(entries) + 1
    BY <1>0, <2>2
  <2>4. ServerType'
    BY <1>0, <1>1, <1>2, <1>14, <2>2 DEF ServerType
  <2>5. Rendered'
    BY <1>8, <1>14, <2>1, AddIs
  <2>6. \A i \in 1..Len(entries') : Made(step', "entries", entries'[i])
    BY <1>0, <1>9, <2>1, <2>2, <2>3 DEF Told
  <2>7. Told'
    BY <1>10, <1>14, <2>6 DEF Told, Made
  <2>8. Entered'
    <3> SUFFICES ASSUME NEW r \in Resources, step'[<<"resource", r>>] >= 2
                 PROVE  \E i \in 1..Len(entries') : entries'[i] = Entry(r)
      BY DEF Entered
    <3>1. <<"resource", r>> \in Handlers /\ Len(entries) \in Nat
      BY <1>0 DEF Handlers
    <3>2. CASE <<"resource", r>> = h /\ k = 2
      <4>1. x = Entry(r)
        BY <2>1, <3>2, ResourceIs, AddIs
      <4> QED
        BY <2>2, <3>1, <4>1
    <3>3. CASE <<"resource", r>> # h \/ k # 2
      <4>1. step[<<"resource", r>>] >= 2
        <5>1. CASE <<"resource", r>> = h
          <6>1. step'[h] = step[h] + 1 /\ step'[h] >= 2 /\ step[h] \in Nat /\ step[h] + 1 # 2
            BY <1>0, <1>1, <3>3, <5>1
          <6> QED
            BY <5>1, <6>1
        <5>2. CASE <<"resource", r>> # h
          BY <1>1, <3>1, <5>2
        <5> QED
          BY <5>1, <5>2
      <4>2. PICK i \in 1..Len(entries) : entries[i] = Entry(r)
        BY <1>0, <4>1 DEF Entered
      <4> QED
        BY <2>2, <3>1, <4>2
    <3> QED
      BY <3>2, <3>3
  <2> QED
    BY <1>5, <1>7, <1>14, <2>4, <2>5, <2>7, <2>8 DEF ServerInv
<1> QED
  BY <1>11, <1>12, <1>13, <1>14, ProceedMoves

-----------------------------------------------------------------------------
(* What a report can rely on in the lists it has copied: their files are   *)
(* in the cache, except that a gateway has none, the names of proxies are  *)
(* odd and those of services even, a gateway's entry is listed before it,  *)
(* and when anything but an agent is, all agents are, if there are any.    *)

Complete(lists) ==
  /\ lists \in [consuls : Seq(ConsulRecords), services : Seq(ServiceRecords),
                entries : Seq(EntryRecords)]
  /\ \A i \in 1..Len(lists.consuls) : ConfigFile(lists.consuls[i].dc) \in DOMAIN files
  /\ \A i \in 1..Len(lists.entries) : lists.entries[i].file \in DOMAIN files
  /\ \A i \in 1..Len(lists.services) :
       LET s == lists.services[i]
       IN /\ s.kind \in {"external", "connect-proxy"} =>
               s.defaults \in DOMAIN files /\ s.registration \in DOMAIN files
          /\ s.kind = "connect-proxy" => s.proxy \in DOMAIN files /\ s.name % 2 = 1
          /\ s.kind = "service" => s.name % 2 = 0
          /\ s.kind = "mesh-gateway" => s.proxy = <<>>
          /\ s.kind \in KnownGateways =>
               \E j \in 1..Len(lists.entries) :
                 LET e == lists.entries[j]
                 IN e.dc = s.dc /\ e.kind = s.kind /\ e.name = s.name
  /\ RunConsul /\ (lists.services # <<>> \/ lists.entries # <<>>) => WithAgent(lists) = DCs
  /\ RunConsul \/ lists.consuls = <<>>

Lists == [consuls |-> consuls, services |-> services, entries |-> entries]

(* A handler is past the renderings that come before a step it has made.   *)
LEMMA RenderedBefore ==
  ASSUME ServerInv, NEW h \in Handlers, NEW k \in 1..step[h], NEW j \in 1..k, NEW f,
         Steps(h)[j] = Render(f)
  PROVE  f \in DOMAIN files
<1>1. step[h] \in Nat /\ j \in 1..step[h]
  BY DEF ServerInv, ServerType
<1>2. Steps(h)[j].do = "render" /\ Steps(h)[j].what = f
  BY DEF Render
<1> QED
  BY <1>1, <1>2 DEF ServerInv, Rendered

LEMMA ServiceOrigin ==
  ASSUME ServerInv, NEW i \in 1..Len(services)
  PROVE  LET s == services[i]
         IN /\ s \in ServiceRecords
            /\ s.kind \in {"external", "connect-proxy"} =>
                 s.defaults \in DOMAIN files /\ s.registration \in DOMAIN files
            /\ s.kind = "connect-proxy" => s.proxy \in DOMAIN files /\ s.name % 2 = 1
            /\ s.kind = "service" => s.name % 2 = 0
            /\ s.kind = "mesh-gateway" => s.proxy = <<>>
            /\ s.kind \in KnownGateways =>
                 \E j \in 1..Len(entries) :
                   entries[j].dc = s.dc /\ entries[j].kind = s.kind /\ entries[j].name = s.name
            /\ RunConsul => Len(consuls) = Len(Datacenters)
<1> DEFINE s == services[i]
<1>1. PICK h \in Handlers : \E k \in 1..step[h] : Steps(h)[k] = Add("services", s)
  BY DEF ServerInv, Told, Made
<1>2. PICK k \in 1..step[h] : Steps(h)[k] = Add("services", s)
  BY <1>1
<1>3. step[h] \in Nat /\ step[h] > 0 /\ k \in 1..Len(Steps(h))
  BY <1>2 DEF ServerInv, ServerType
<1>4. /\ s \in ServiceRecords
      /\ \/ ListsMesh(h, k) \/ ListsExternal(h, k) \/ ListsService(h, k)
         \/ ListsProxy(h, k) \/ ListsGateway(h, k)
  BY <1>2, <1>3, ListedShape
<1>5. h[1] # "agent"
  BY <1>4 DEF ListsMesh, ListsExternal, ListsService, ListsProxy, ListsGateway
<1>6. RunConsul => Len(consuls) = Len(Datacenters)
  BY <1>3, <1>5 DEF ServerInv, AgentsFirst
<1>7. CASE ListsMesh(h, k)
  <2>1. s.kind = "mesh"
    BY <1>2, <1>7, AddIs DEF ListsMesh, WithoutFiles, Service
  <2> QED
    BY <1>4, <1>6, <2>1 DEF KnownGateways
<1>8. CASE ListsExternal(h, k)
  <2>1. PICK x \in Externals : h = <<"external", x>> /\ k = 3 /\ s = ListedExternal(x)
    BY <1>2, <1>8, AddIs DEF ListsExternal
  <2>2. ExternalDefaults(x) \in DOMAIN files /\ ExternalFile(x) \in DOMAIN files
    BY <1>2, <2>1, ExternalIs, RenderedBefore
  <2>3. s.kind = "external" /\ s.defaults = ExternalDefaults(x) /\ s.registration = ExternalFile(x)
    BY <2>1 DEF ListedExternal, Service
  <2> QED
    BY <1>4, <1>6, <2>2, <2>3 DEF KnownGateways
<1>9. CASE ListsService(h, k)
  <2>1. PICK x \in Services : s = WithoutFiles(x.dc, "service", x.name)
    BY <1>2, <1>9, AddIs DEF ListsService
  <2>2. s.kind = "service" /\ s.name % 2 = 0
    BY <2>1, NamesAre DEF WithoutFiles, Service
  <2> QED
    BY <1>4, <1>6, <2>2 DEF KnownGateways
<1>10. CASE ListsProxy(h, k)
  <2>1. PICK x \in Services : h = <<"service", x>> /\ k = 5 /\ s = ListedProxy(x)
    BY <1>2, <1>10, AddIs DEF ListsProxy
  <2>2. /\ ServiceDefaults(x) \in DOMAIN files /\ ServiceFile(x) \in DOMAIN files
        /\ ServiceProxy(x) \in DOMAIN files
    BY <1>2, <2>1, ServiceIs, RenderedBefore
  <2>3. /\ s.kind = "connect-proxy" /\ s.defaults = ServiceDefaults(x)
        /\ s.registration = ServiceFile(x) /\ s.proxy = ServiceProxy(x) /\ s.name = x.name + 1
    BY <2>1 DEF ListedProxy, Service
  <2>4. s.name % 2 = 1
    BY <2>3, NamesAre
  <2> QED
    BY <1>4, <1>6, <2>2, <2>3, <2>4 DEF KnownGateways
<1>11. CASE ListsGateway(h, k)
  <2>1. PICK r \in Resources :
          h = <<"resource", r>> /\ k = 3 /\ r.kind \in KnownGateways
            /\ s = WithoutFiles(r.dc, r.kind, r.name)
    BY <1>2, <1>11, AddIs DEF ListsGateway
  <2>2. s.dc = r.dc /\ s.kind = r.kind /\ s.name = r.name /\ s.proxy = <<>>
    BY <2>1 DEF WithoutFiles, Service
  <2>3. PICK j \in 1..Len(entries) : entries[j] = Entry(r)
    BY <1>2, <1>3, <2>1 DEF ServerInv, Entered
  <2>4. s.kind \notin {"external", "connect-proxy", "service"}
    BY <2>1, <2>2 DEF KnownGateways
  <2> QED
    BY <1>4, <1>6, <2>2, <2>3, <2>4 DEF Entry
<1> QED
  BY <1>4, <1>7, <1>8, <1>9, <1>10, <1>11

LEMMA EntryOrigin ==
  ASSUME ServerInv, NEW i \in 1..Len(entries)
  PROVE  /\ \E r \in Resources : entries[i] = Entry(r)
         /\ entries[i].file \in DOMAIN files
         /\ RunConsul => Len(consuls) = Len(Datacenters)
<1>1. PICK h \in Handlers : \E k \in 1..step[h] : Steps(h)[k] = Add("entries", entries[i])
  BY DEF ServerInv, Told, Made
<1>2. PICK k \in 1..step[h] : Steps(h)[k] = Add("entries", entries[i])
  BY <1>1
<1>3. step[h] \in Nat /\ step[h] > 0 /\ k \in 1..Len(Steps(h))
  BY <1>2 DEF ServerInv, ServerType
<1>4. PICK r \in Resources : h = <<"resource", r>> /\ k = 2 /\ entries[i] = Entry(r)
  BY <1>2, <1>3, ListedShape, AddIs DEF ListsEntry
<1>5. RenderedFile(r) \in DOMAIN files
  BY <1>2, <1>4, ResourceIs, RenderedBefore
<1>6. RunConsul => Len(consuls) = Len(Datacenters)
  BY <1>3, <1>4 DEF ServerInv, AgentsFirst
<1> QED
  BY <1>4, <1>5, <1>6 DEF Entry

LEMMA ConsulOrigin ==
  ASSUME ServerInv, NEW i \in 1..Len(consuls)
  PROVE  consuls[i].dc \in DCs /\ ConfigFile(consuls[i].dc) \in DOMAIN files /\ RunConsul
<1>1. PICK h \in Handlers : \E k \in 1..step[h] : Steps(h)[k] = Add("consuls", consuls[i])
  BY DEF ServerInv, Told, Made
<1>2. PICK k \in 1..step[h] : Steps(h)[k] = Add("consuls", consuls[i])
  BY <1>1
<1>3. k \in 1..Len(Steps(h))
  BY <1>2 DEF ServerInv, ServerType
<1>4. ListsAgent(h, k)
  BY <1>2, <1>3, ListedShape
<1>5. PICK dc \in DCs : /\ RunConsul /\ h = <<"agent", dc>> /\ k = 2
                       /\ Steps(h)[k] = Add("consuls", [dc |-> dc])
  BY <1>4 DEF ListsAgent
<1>6. consuls[i] = [dc |-> dc]
  BY <1>2, <1>5, AddIs
<1>7. ConfigFile(dc) \in DOMAIN files
  BY <1>2, <1>5, AgentIs, RenderedBefore
<1> QED
  BY <1>5, <1>6, <1>7

LEMMA CompleteNow ==
  ASSUME ServerInv
  PROVE  Complete(Lists)
<1>1. Lists \in [consuls : Seq(ConsulRecords), services : Seq(ServiceRecords),
                 entries : Seq(EntryRecords)]
  BY DEF Lists, ServerInv, ServerType
<1>2. ASSUME RunConsul, services # <<>> \/ entries # <<>> PROVE WithAgent(Lists) = DCs
  <2>1. 1 \in 1..Len(services) \/ 1 \in 1..Len(entries)
    BY <1>1, <1>2 DEF Lists
  <2>2. Len(consuls) = Len(Datacenters)
    BY <1>2, <2>1, ServiceOrigin, EntryOrigin
  <2>3. consuls \in Seq(ConsulRecords) /\ \A i \in 1..Len(consuls) : consuls[i].dc = Datacenters[i]
    BY DEF ServerInv, ServerType, InTurn
  <2>4. ASSUME NEW dc \in DCs PROVE \E i \in DOMAIN consuls : consuls[i].dc = dc
    BY <2>2, <2>3, PositionIs
  <2> QED
    BY <2>4 DEF WithAgent, Lists
<1>3. \A i \in 1..Len(services) :
       LET s == services[i]
       IN /\ s.kind \in {"external", "connect-proxy"} =>
               s.defaults \in DOMAIN files /\ s.registration \in DOMAIN files
          /\ s.kind = "connect-proxy" => s.proxy \in DOMAIN files /\ s.name % 2 = 1
          /\ s.kind = "service" => s.name % 2 = 0
          /\ s.kind = "mesh-gateway" => s.proxy = <<>>
          /\ s.kind \in KnownGateways =>
               \E j \in 1..Len(entries) :
                 LET e == entries[j]
                 IN e.dc = s.dc /\ e.kind = s.kind /\ e.name = s.name
  BY ServiceOrigin
<1>4. /\ \A i \in 1..Len(consuls) : ConfigFile(consuls[i].dc) \in DOMAIN files
      /\ \A i \in 1..Len(entries) : entries[i].file \in DOMAIN files
  BY ConsulOrigin, EntryOrigin
<1>5. Lists.consuls = consuls /\ Lists.services = services /\ Lists.entries = entries
  BY DEF Lists
<1>6. RunConsul \/ consuls = <<>>
  <2>1. consuls = <<>> \/ 1 \in 1..Len(consuls)
    BY <1>1, <1>5
  <2> QED
    BY <2>1, ConsulOrigin
<1> QED
  BY <1>1, <1>2, <1>3, <1>4, <1>5, <1>6 DEF Complete

LEMMA CompleteStays ==
  ASSUME Complete(snapshot), UNCHANGED snapshot, DOMAIN files \subseteq DOMAIN files'
  PROVE  Complete(snapshot)'
  BY DEF Complete, WithAgent

(* Who renders which file.                                                 *)
LEMMA RenderIs ==
  ASSUME NEW h \in Handlers, NEW k \in 1..Len(Steps(h)), NEW f, Steps(h)[k] = Render(f)
  PROVE  \/ \E dc \in DCs : h = <<"agent", dc>> /\ f = ConfigFile(dc)
         \/ \E s \in Externals : h = <<"external", s>> /\ f \in {ExternalDefaults(s), ExternalFile(s)}
         \/ \E s \in Services : /\ h = <<"service", s>>
                                /\ f \in {ServiceDefaults(s), ServiceFile(s), ServiceProxy(s)}
         \/ \E r \in Resources : h = <<"resource", r>> /\ f = RenderedFile(r)
<1>0. \A g : Render(f) = Render(g) => f = g
  <2>1. \A g : Render(g).what = g
    BY DEF Render
  <2> QED
    BY <2>1
<1>1. \A list, x : list # "render" => Render(f) # Add(list, x)
  BY AddIs
<1>2. ASSUME NEW dc \in DCs, h = <<"agent", dc>> PROVE f = ConfigFile(dc)
  <2>1. k \in 1..2 /\ (k = 1 => Render(f) = Render(ConfigFile(dc)))
        /\ (k = 2 => Render(f) = Add("consuls", [dc |-> dc]))
    BY <1>2, AgentIs
  <2> QED
    BY <1>0, <1>1, <2>1
<1>3. ASSUME NEW dc \in DCs, h = <<"mesh", dc>> PROVE FALSE
  BY <1>1, <1>3, MeshIs
<1>4. ASSUME NEW s \in Externals, h = <<"external", s>>
      PROVE  f \in {ExternalDefaults(s), ExternalFile(s)}
  <2>1. k \in 1..3
    BY <1>4, ExternalIs
  <2> QED
    BY <1>0, <1>1, <1>4, <2>1, ExternalIs
<1>5. ASSUME NEW s \in Services, h = <<"service", s>>
      PROVE  f \in {ServiceDefaults(s), ServiceFile(s), ServiceProxy(s)}
  <2>1. k \in 1..5
    BY <1>5, ServiceIs
  <2> QED
    BY <1>0, <1>1, <1>5, <2>1, ServiceIs
<1>6. ASSUME NEW r \in Resources, h = <<"resource", r>> PROVE f = RenderedFile(r)
  <2>1. k \in 1..3 /\ (k = 3 => r.kind \in KnownGateways)
    BY <1>6, ResourceIs
  <2>2. CASE r.kind \in KnownGateways
    BY <1>0, <1>1, <1>6, <2>1, <2>2, ResourceIs
  <2>3. CASE r.kind \notin KnownGateways
    BY <1>0, <1>1, <1>6, <2>1, <2>3, ResourceIs
  <2> QED
    BY <2>2, <2>3
<1> QED
  BY <1>2, <1>3, <1>4, <1>5, <1>6, HandlerIs

(* A complete cut can be turned into a script exactly if it has no         *)
(* mesh-gateway: that is taken for a proxy, whose file "" nobody renders.  *)
Answerable(lists) ==
  Complete(lists) /\ \A i \in 1..Len(lists.services) : lists.services[i].kind # "mesh-gateway"

LEMMA KnownIs ==
  ASSUME Complete(snapshot)
  PROVE  Unknown = {} <=> Answerable(snapshot)
<1>1. DOMAIN snapshot.services = 1..Len(snapshot.services)
  BY DEF Complete
<1> QED
  BY <1>1 DEF Unknown, Answerable, ToSet

LEMMA Unreadable ==
  ASSUME ServerInv, NEW lists, Complete(lists), FilesOf(lists) \subseteq DOMAIN files
  PROVE  Answerable(lists)
<1>1. <<>> \notin DOMAIN files
  <2> SUFFICES ASSUME <<>> \in DOMAIN files PROVE FALSE
    OBVIOUS
  <2>1. files[<<>>] \in Handlers
    BY DEF ServerInv, ServerType
  <2>2. PICK k \in 1..Len(Steps(files[<<>>])) : Steps(files[<<>>])[k] = Render(<<>>)
    BY <2>1 DEF ServerInv, ServerType, Owned
  <2>3. \E f : f = <<>> /\ Len(f) = 3
    BY <2>1, <2>2, RenderIs
       DEF ConfigFile, ExternalDefaults, ExternalFile, ServiceDefaults, ServiceFile,
           ServiceProxy, RenderedFile
  <2> QED
    BY <2>3
<1> SUFFICES ASSUME NEW i \in 1..Len(lists.services),
                    lists.services[i].kind = "mesh-gateway"
             PROVE  <<>> \in FilesOf(lists)
  BY <1>1 DEF Answerable
<1>2. /\ lists.services \in Seq(ServiceRecords) /\ lists.services[i].proxy = <<>>
      /\ i \in DOMAIN lists.services
  BY DEF Complete
<1>3. lists.services[i].dc \in DCs
  <2>1. lists.services[i] \in ServiceRecords
    BY <1>2
  <2> QED
    BY <2>1 DEF ServiceRecords
<1>4. Class(lists.services[i]) = "proxy"
  BY DEF Class, GatewayKinds
<1>5. i \in OfClass("proxy", lists)
  BY <1>2, <1>3, <1>4 DEF OfClass
<1> QED
  BY <1>2, <1>5 DEF FilesOf

LEMMA Readable ==
  ASSUME NEW lists, Answerable(lists)
  PROVE  FilesOf(lists) \subseteq DOMAIN files
<1>0. /\ lists.consuls \in Seq(ConsulRecords) /\ lists.services \in Seq(ServiceRecords)
      /\ lists.entries \in Seq(EntryRecords)
  BY DEF Answerable, Complete
<1>1. ASSUME NEW dc \in WithAgent(lists) PROVE ConfigFile(dc) \in DOMAIN files
  BY <1>0 DEF WithAgent, Answerable, Complete
<1>2. ASSUME NEW i \in OfClass("external", lists) \cup OfClass("proxy", lists)
      PROVE  /\ i \in 1..Len(lists.services)
             /\ lists.services[i].kind \in {"external", "connect-proxy"}
             /\ i \in OfClass("proxy", lists) => lists.services[i].kind = "connect-proxy"
  <2>1. i \in 1..Len(lists.services)
    BY <1>0 DEF OfClass
  <2>2. lists.services[i] \in ServiceRecords
    BY <1>0, <2>1
  <2>3. lists.services[i].kind \in Kinds
    BY <2>2 DEF ServiceRecords
  <2>4. Class(lists.services[i]) \in {"external", "proxy"}
    BY DEF OfClass
  <2>5. i \in OfClass("proxy", lists) => Class(lists.services[i]) = "proxy"
    BY DEF OfClass
  <2>6. lists.services[i].kind # "mesh-gateway"
    BY <2>1 DEF Answerable
  <2> QED
    BY <2>1, <2>3, <2>4, <2>5, <2>6 DEF Class, Kinds, GatewayKinds, KnownGateways
<1>3. ASSUME NEW i \in OfClass("external", lists) \cup OfClass("proxy", lists)
      PROVE  /\ {lists.services[i].defaults, lists.services[i].registration} \subseteq DOMAIN files
             /\ i \in OfClass("proxy", lists) => lists.services[i].proxy \in DOMAIN files
  BY <1>2 DEF Answerable, Complete
<1>4. ASSUME NEW i \in EntriesOf(lists) PROVE lists.entries[i].file \in DOMAIN files
  <2>1. i \in 1..Len(lists.entries)
    BY <1>0 DEF EntriesOf
  <2>2. \A j \in 1..Len(lists.entries) : lists.entries[j].file \in DOMAIN files
    BY DEF Answerable, Complete
  <2> QED
    BY <2>1, <2>2
<1> SUFFICES ASSUME NEW f \in FilesOf(lists) PROVE f \in DOMAIN files
  OBVIOUS
<1>5. \/ \E dc \in WithAgent(lists) : f = ConfigFile(dc)
      \/ \E i \in OfClass("external", lists) \cup OfClass("proxy", lists) :
           f \in {lists.services[i].defaults, lists.services[i].registration}
      \/ \E i \in OfClass("proxy", lists) : f = lists.services[i].proxy
      \/ \E i \in EntriesOf(lists) : f = lists.entries[i].file
  BY DEF FilesOf
<1> QED
  BY <1>1, <1>3, <1>4, <1>5

-----------------------------------------------------------------------------
(* The inductive invariant: the lists are only extended, the last snapshot *)
(* is a beginning of them, and it is complete in the sense above, so that  *)
(* a request is answered exactly if nothing in it is unknown to a report.  *)

Copied ==
  /\ IsPrefix(snapshot.consuls, consuls) /\ IsPrefix(snapshot.services, services)
  /\ IsPrefix(snapshot.entries, entries)
Asked ==
  /\ status \in {"none", "taken", "written", "error"} /\ reports \in 0..MaxReports
  /\ reports = 0 => script = {} /\ status = "none"
  /\ status = "written" => Unknown = {}
  /\ status = "error" => Unknown # {}
ReportInv == ServerInv /\ Complete(snapshot) /\ Copied /\ Asked

LEMMA PrefixIs ==
  ASSUME NEW S, NEW s \in Seq(S), NEW t \in Seq(S)
  PROVE  IsPrefix(s, t) <=> Len(s) <= Len(t) /\ \A i \in 1..Len(s) : s[i] = t[i]
  BY DEF IsPrefix

LEMMA PrefixGrows ==
  ASSUME NEW S, NEW s \in Seq(S), NEW t \in Seq(S), IsPrefix(s, t), NEW x \in S
  PROVE  IsPrefix(s, Append(t, x))
<1>1. Append(t, x) \in Seq(S) /\ Len(Append(t, x)) = Len(t) + 1
      /\ \A i \in 1..Len(t) : Append(t, x)[i] = t[i]
  OBVIOUS
<1>2. Len(s) \in Nat /\ Len(t) \in Nat /\ Len(s) <= Len(t) /\ \A i \in 1..Len(s) : s[i] = t[i]
  BY PrefixIs
<1>3. Len(s) <= Len(Append(t, x)) /\ \A i \in 1..Len(s) : s[i] = Append(t, x)[i]
  BY <1>1, <1>2
<1> QED
  BY <1>1, <1>3, PrefixIs

(* What a handler's step leaves of the lists and the cache.                *)
LEMMA ProceedExtends ==
  ASSUME ServerInv, NEW h \in Handlers, Proceed(h)
  PROVE  /\ DOMAIN files \subseteq DOMAIN files'
         /\ consuls' = consuls \/ \E x \in ConsulRecords : consuls' = Append(consuls, x)
         /\ services' = services \/ \E x \in ServiceRecords : services' = Append(services, x)
         /\ entries' = entries \/ \E x \in EntryRecords : entries' = Append(entries, x)
<1>1. ASSUME NEW f, WriteFile(f, h) PROVE DOMAIN files \subseteq DOMAIN files'
  BY <1>1, WriteIs
<1> QED
  BY <1>1, ProceedMoves

LEMMA InitReport == Init => ReportInv
<1> SUFFICES ASSUME Init PROVE ReportInv
  OBVIOUS
<1>1. ServerInv
  BY InitServer DEF Init
<1>2. snapshot = Lists
  BY DEF Init, ServerInit, NoLists, Lists
<1>3. Complete(snapshot)
  BY <1>1, <1>2, CompleteNow
<1>4. Copied
  BY <1>1, <1>2, PrefixIs DEF Copied, Lists, ServerInv, ServerType
<1>5. Asked
  BY MaxReportsAssumption DEF Init, Asked, Unknown
<1> QED
  BY <1>1, <1>3, <1>4, <1>5 DEF ReportInv

LEMMA NextReport == ReportInv /\ [Next]_vars => ReportInv'
<1> SUFFICES ASSUME ReportInv, [Next]_vars PROVE ReportInv'
  OBVIOUS
<1>0. /\ ServerInv /\ Complete(snapshot) /\ Copied /\ Asked
      /\ snapshot.consuls \in Seq(ConsulRecords) /\ snapshot.services \in Seq(ServiceRecords)
      /\ snapshot.entries \in Seq(EntryRecords)
      /\ consuls \in Seq(ConsulRecords) /\ services \in Seq(ServiceRecords)
      /\ entries \in Seq(EntryRecords)
  BY DEF ReportInv, Complete, ServerInv, ServerType
<1>1. ASSUME NEW h \in Handlers, Proceed(h), UNCHANGED reportVars PROVE ReportInv'
  <2>1. ServerInv'
    BY <1>0, <1>1, ProceedStep
  <2>2. Complete(snapshot)'
    BY <1>0, <1>1, ProceedExtends, CompleteStays DEF reportVars
  <2>3. IsPrefix(snapshot.consuls, consuls')
    BY <1>0, <1>1, ProceedExtends, PrefixGrows DEF Copied
  <2>4. IsPrefix(snapshot.services, services')
    BY <1>0, <1>1, ProceedExtends, PrefixGrows DEF Copied
  <2>5. IsPrefix(snapshot.entries, entries')
    BY <1>0, <1>1, ProceedExtends, PrefixGrows DEF Copied
  <2>6. Copied' /\ Asked'
    BY <1>0, <1>1, <2>3, <2>4, <2>5 DEF Copied, Asked, Unknown, reportVars
  <2> QED
    BY <2>1, <2>2, <2>6 DEF ReportInv
<1>2. ASSUME UNCHANGED serverVars PROVE ServerInv'
  BY <1>0, <1>2
     DEF serverVars, ServerInv, ServerType, Rendered, Owned, Told, Made, Entered, InTurn,
         AgentsFirst
<1>3. CASE TakeSnapshot
  <2>1. ServerInv'
    BY <1>2, <1>3 DEF TakeSnapshot
  <2>2. UNCHANGED serverVars /\ snapshot' = Lists
    BY <1>3 DEF TakeSnapshot, Lists
  <2>3. Complete(snapshot)'
    BY <1>0, <2>2, CompleteNow DEF Complete, WithAgent, serverVars
  <2>4. Copied'
    BY <1>0, <2>2, PrefixIs DEF Copied, Lists, serverVars
  <2>5. Asked'
    BY <1>0, <1>3, MaxReportsAssumption DEF TakeSnapshot, Asked
  <2> QED
    BY <2>1, <2>3, <2>4, <2>5 DEF ReportInv
<1>4. CASE Answer
  <2>1. ServerInv' /\ UNCHANGED <<serverVars, snapshot, reports>>
    BY <1>2, <1>4 DEF Answer
  <2>2. Complete(snapshot)'
    BY <1>0, <2>1 DEF Complete, WithAgent, serverVars
  <2>3. Copied'
    BY <1>0, <2>1 DEF Copied, serverVars
  <2>4. reports # 0 /\ Unknown' = Unknown
    BY <1>0, <1>4, <2>1 DEF Answer, Asked, Unknown
  <2>5. IF FilesOf(snapshot) \subseteq DOMAIN files THEN status' = "written" /\ Unknown = {}
                                                   ELSE status' = "error" /\ Unknown # {}
    BY <1>0, <1>4, Readable, Unreadable, KnownIs DEF Answer
  <2>6. Asked'
    BY <1>0, <2>1, <2>4, <2>5 DEF Asked
  <2> QED
    BY <2>1, <2>2, <2>3, <2>6 DEF ReportInv
<1>5. CASE UNCHANGED vars
  <2>1. ServerInv' /\ UNCHANGED <<serverVars, reportVars>>
    BY <1>2, <1>5 DEF vars
  <2>2. Complete(snapshot)' /\ Copied' /\ Asked'
    BY <1>0, <2>1 DEF Complete, WithAgent, Copied, Asked, Unknown, serverVars, reportVars
  <2> QED
    BY <2>1, <2>2 DEF ReportInv
<1> QED
  BY <1>1, <1>3, <1>4, <1>5 DEF Next, ServerNext

(* The invariant holds in every state.                                     *)
THEOREM Invariant == Spec => []ReportInv
<1> QED
  BY InitReport, NextReport, PTL DEF Spec

(* The lists hold what the handlers of a run add, the agents in the order  *)
(* of the datacenters, and a report's lists are beginnings of them.        *)
THEOREM TypeCorrect == Spec => []TypeOK
<1>1. ReportInv => TypeOK
  <2> SUFFICES ASSUME ReportInv PROVE TypeOK
    OBVIOUS
  <2>1. /\ ServerType /\ InTurn /\ Copied /\ Asked
        /\ \A i \in 1..Len(entries) : \E r \in Resources : entries[i] = Entry(r)
    BY EntryOrigin DEF ReportInv, ServerInv
  <2>2. \A i \in DOMAIN services : services[i].dc \in DCs
    <3>1. \A i \in DOMAIN services : services[i] \in ServiceRecords
      BY <2>1 DEF ServerType
    <3> QED
      BY <3>1 DEF ServiceRecords
  <2>3. \A i \in DOMAIN entries : entries[i].dc \in DCs
    <3>1. entries \in Seq(EntryRecords) /\ \A r \in Resources : Entry(r).dc \in DCs
      BY <2>1, NamesAssumption DEF ServerType, Entry
    <3>2. DOMAIN entries = 1..Len(entries)
      BY <3>1
    <3> QED
      BY <2>1, <3>1, <3>2
  <2>4. \A i \in DOMAIN consuls : consuls[i].dc = Datacenters[i]
    <3>1. consuls \in Seq(ConsulRecords)
      BY <2>1 DEF ServerType
    <3>2. DOMAIN consuls = 1..Len(consuls)
      BY <3>1
    <3> QED
      BY <2>1, <3>2 DEF InTurn
  <2> QED
    BY <2>1, <2>2, <2>3, <2>4 DEF TypeOK, ServerType, InTurn, Copied, Asked
<1> QED
  BY Invariant, <1>1, PTL

(* At whatever moment of a bring-up a report is asked for, the request     *)
(* ends in an internal error exactly if a mesh-gateway resource is listed. *)
THEOREM SucceedsIfKnown == Spec => []ReportSucceeds
<1>1. ReportInv => ReportSucceeds
  BY DEF ReportInv, Asked, ReportSucceeds
<1> QED
  BY Invariant, <1>1, PTL

(* The check command finds the proxy of every service that has one.        *)
THEOREM CheckFinds == Spec => []CheckFindsProxy
<1>1. ReportInv => CheckFindsProxy
  <2> SUFFICES ASSUME ReportInv, NEW s \in ToSet(services), s.kind = "connect-proxy",
                      NEW given \in {s.name, s.name - 1}
               PROVE  GetService(DefaultKind, ProxyName(given)) # <<>>
    BY DEF CheckFindsProxy
  <2>1. ServerInv /\ services \in Seq(ServiceRecords)
    BY DEF ReportInv, ServerInv, ServerType
  <2>2. PICK i \in 1..Len(services) : services[i] = s
    BY <2>1 DEF ToSet
  <2>3. s.name \in Nat /\ s.name % 2 = 1
    BY <2>1, <2>2, ServiceOrigin DEF ServiceRecords
  <2>4. ProxyName(given) = s.name
    BY <2>3 DEF ProxyName
  <2>5. DefaultKind = "connect-proxy"
    BY DEF DefaultKind, FlagDefaults, Last
  <2> DEFINE found == {j \in DOMAIN services : /\ services[j].kind = DefaultKind
                                               /\ services[j].name = ProxyName(given)}
  <2>6. i \in found
    BY <2>1, <2>2, <2>4, <2>5
  <2>7. GetService(DefaultKind, ProxyName(given)) = <<services[First(found)]>>
    BY <2>6 DEF GetService
  <2> QED
    BY <2>7
<1> QED
  BY Invariant, <1>1, PTL

-----------------------------------------------------------------------------
(* The operations of a script, one kind at a time.                         *)

LEMMA RunIs ==
  ASSUME NEW op, NEW at, NEW s
  PROVE  LET o == Run(op, at, s)
         IN o.op = op /\ o.at = at /\ o.dc = s.dc /\ o.kind = s.kind /\ o.name = s.name
  BY DEF Run

LEMMA FileIs ==
  ASSUME NEW at, NEW dc, NEW name
  PROVE  LET o == RegisteredFile(at, dc, name)
         IN o.op = "file" /\ o.at = at /\ o.dc = dc /\ o.file = name
            /\ o.data = Printed(files[name])
  BY DEF RegisteredFile

LEMMA PlaceIs ==
  ASSUME NEW block, NEW dc, NEW group, NEW i, NEW k
  PROVE  LET at == At(block, dc, group, i, k)
         IN at[1] = block /\ at[2] = Position(dc) /\ at[3] = group /\ at[4] = i /\ at[5] = k
  BY DEF At

LEMMA EarlierBlock ==
  ASSUME NEW o, NEW p, o.at[1] < p.at[1]
  PROVE  Before(o, p)
  BY DEF Before

(* The operations for the agents, the joins and the mesh gateways.         *)
MakesFolder(dc) == [op |-> "mkdir", at |-> At(1, dc, 1, 1, 1), dc |-> dc]
StartsAgent(dc) == RegisteredFile(At(1, dc, 1, 1, 2), dc, ConfigFile(dc))
Waits(dc) == [op |-> "wait", at |-> At(1, dc, 1, 1, 3), dc |-> dc]
Joins(dc, lists) ==
  [op |-> "join", at |-> <<2, Len(Datacenters) - Position(dc), 1, 1, 1>>,
   dc |-> dc, wans |-> WithAgent(lists) \ {dc}]
StartsMesh(i, lists) ==
  Run("gateway", At(3, lists.services[i].dc, 1, i, 1), lists.services[i])

LEMMA AgentOperationIs ==
  ASSUME NEW lists, NEW o
  PROVE  o \in AgentOperations(lists) <=>
           \E dc \in WithAgent(lists) : o \in {MakesFolder(dc), StartsAgent(dc), Waits(dc)}
  BY DEF AgentOperations, MakesFolder, StartsAgent, Waits

LEMMA JoinOperationIs ==
  ASSUME NEW lists, NEW o
  PROVE  o \in JoinOperations(lists) <=> \E dc \in WithAgent(lists) : o = Joins(dc, lists)
  BY DEF JoinOperations, Joins

LEMMA MeshOperationIs ==
  ASSUME NEW lists, NEW o
  PROVE  o \in MeshOperations(lists) <=>
           \E i \in OfClass("mesh", lists) : o = StartsMesh(i, lists)
  BY DEF MeshOperations, StartsMesh

(* The files of services and entries, and what is started at the end.      *)
DefaultsOf(i, lists, group) ==
  RegisteredFile(At(4, lists.services[i].dc, group, i, 1),
                 lists.services[i].dc, lists.services[i].defaults)
RegistrationOf(i, lists, group) ==
  RegisteredFile(At(4, lists.services[i].dc, group + 1, i, 1),
                 lists.services[i].dc, lists.services[i].registration)
FileOfEntry(i, lists) ==
  RegisteredFile(At(4, lists.entries[i].dc, 5, i, 1), lists.entries[i].dc, lists.entries[i].file)
StartsGateway(i, lists) ==
  Run("gateway", At(5, lists.services[i].dc, 3, i, 1), lists.services[i])

LEMMA ServiceFileIs ==
  ASSUME NEW class, NEW lists, NEW group, NEW o
  PROVE  o \in ServiceFiles(class, lists, group) <=>
           \E i \in OfClass(class, lists) :
             o \in {DefaultsOf(i, lists, group), RegistrationOf(i, lists, group)}
  BY DEF ServiceFiles, DefaultsOf, RegistrationOf

LEMMA EntryFileIs ==
  ASSUME NEW lists, NEW o
  PROVE  o \in EntryFiles(lists) <=> \E i \in EntriesOf(lists) : o = FileOfEntry(i, lists)
  BY DEF EntryFiles, FileOfEntry

LEMMA StartOperationIs ==
  ASSUME NEW lists, NEW o
  PROVE  o \in StartOperations(lists) <=>
           \/ \E i \in OfClass("external", lists) : o \in RunBoth(1, i, lists.services[i])
           \/ \E i \in OfClass("proxy", lists) : o \in RunBoth(2, i, Trimmed(lists.services[i]))
           \/ \E i \in OfClass("gateway", lists) : o = StartsGateway(i, lists)
<1>1. ASSUME o \in StartOperations(lists)
      PROVE  \/ \E i \in OfClass("external", lists) : o \in RunBoth(1, i, lists.services[i])
             \/ \E i \in OfClass("proxy", lists) : o \in RunBoth(2, i, Trimmed(lists.services[i]))
             \/ \E i \in OfClass("gateway", lists) : o = StartsGateway(i, lists)
  BY <1>1 DEF StartOperations, StartsGateway
<1>2. ASSUME NEW i \in OfClass("external", lists), o \in RunBoth(1, i, lists.services[i])
      PROVE  o \in StartOperations(lists)
  BY <1>2 DEF StartOperations
<1>3. ASSUME NEW i \in OfClass("proxy", lists), o \in RunBoth(2, i, Trimmed(lists.services[i]))
      PROVE  o \in StartOperations(lists)
  BY <1>3 DEF StartOperations
<1>4. ASSUME NEW i \in OfClass("gateway", lists), o = StartsGateway(i, lists)
      PROVE  o \in StartOperations(lists)
  BY <1>4 DEF StartOperations, StartsGateway
<1> QED
  BY <1>1, <1>2, <1>3, <1>4

LEMMA OperationIs ==
  ASSUME NEW lists, NEW o
  PROVE  o \in Operations(lists) <=>
           \/ o \in AgentOperations(lists)
           \/ Len(Datacenters) > 1 /\ o \in JoinOperations(lists)
           \/ Len(Datacenters) > 1 /\ o \in MeshOperations(lists)
           \/ o \in ServiceFiles("external", lists, 1) \/ o \in ServiceFiles("proxy", lists, 3)
           \/ o \in EntryFiles(lists)
           \/ o \in StartOperations(lists)
  BY DEF Operations

(* Which of them a kind of operation can be.                               *)
LEMMA FileOperation ==
  ASSUME NEW lists, NEW o \in Operations(lists), o.op = "file"
  PROVE  \/ \E dc \in WithAgent(lists) : o = StartsAgent(dc)
         \/ \E i \in OfClass("external", lists) :
              o \in {DefaultsOf(i, lists, 1), RegistrationOf(i, lists, 1)}
         \/ \E i \in OfClass("proxy", lists) :
              o \in {DefaultsOf(i, lists, 3), RegistrationOf(i, lists, 3)}
         \/ \E i \in EntriesOf(lists) : o = FileOfEntry(i, lists)
<1>1. o \notin JoinOperations(lists)
  BY JoinOperationIs DEF Joins
<1>2. o \notin MeshOperations(lists)
  BY MeshOperationIs, RunIs DEF StartsMesh
<1>3. ASSUME NEW group, NEW i, NEW s PROVE o \notin RunBoth(group, i, s)
  BY RunIs DEF RunBoth
<1>4. o \notin StartOperations(lists)
  BY <1>3, StartOperationIs, RunIs DEF StartsGateway
<1>5. o \in AgentOperations(lists) => \E dc \in WithAgent(lists) : o = StartsAgent(dc)
  BY AgentOperationIs DEF MakesFolder, Waits
<1> QED
  BY <1>1, <1>2, <1>4, <1>5, OperationIs, ServiceFileIs, EntryFileIs

LEMMA StartOperation ==
  ASSUME NEW lists, NEW o \in Operations(lists), o.op \in {"service", "sidecar"}
  PROVE  \/ \E i \in OfClass("external", lists) : o \in RunBoth(1, i, lists.services[i])
         \/ \E i \in OfClass("proxy", lists) : o \in RunBoth(2, i, Trimmed(lists.services[i]))
<1>1. o \notin JoinOperations(lists) /\ o \notin AgentOperations(lists)
  BY JoinOperationIs, AgentOperationIs, FileIs DEF Joins, MakesFolder, Waits, StartsAgent
<1>2. o \notin MeshOperations(lists)
  BY MeshOperationIs, RunIs DEF StartsMesh
<1>3. o \notin EntryFiles(lists)
  BY EntryFileIs, FileIs DEF FileOfEntry
<1>4. o \notin ServiceFiles("external", lists, 1) /\ o \notin ServiceFiles("proxy", lists, 3)
  BY ServiceFileIs, FileIs DEF DefaultsOf, RegistrationOf
<1>5. o \in StartOperations(lists) /\ ~ \E i : o = StartsGateway(i, lists)
  BY <1>1, <1>2, <1>3, <1>4, OperationIs, RunIs DEF StartsGateway
<1> QED
  BY <1>5, StartOperationIs

LEMMA GatewayOperation ==
  ASSUME NEW lists, NEW o \in Operations(lists), o.op = "gateway"
  PROVE  \/ Len(Datacenters) > 1 /\ \E i \in OfClass("mesh", lists) : o = StartsMesh(i, lists)
         \/ \E i \in OfClass("gateway", lists) : o = StartsGateway(i, lists)
<1>1. o \notin JoinOperations(lists) /\ o \notin AgentOperations(lists)
  BY JoinOperationIs, AgentOperationIs, FileIs DEF Joins, MakesFolder, Waits, StartsAgent
<1>2. o \notin EntryFiles(lists)
  BY EntryFileIs, FileIs DEF FileOfEntry
<1>3. o \notin ServiceFiles("external", lists, 1) /\ o \notin ServiceFiles("proxy", lists, 3)
  BY ServiceFileIs, FileIs DEF DefaultsOf, RegistrationOf
<1>4. ASSUME NEW group, NEW i, NEW s PROVE o \notin RunBoth(group, i, s)
  BY RunIs DEF RunBoth
<1> QED
  BY <1>1, <1>2, <1>3, <1>4, OperationIs, MeshOperationIs, StartOperationIs

LEMMA JoinOperation ==
  ASSUME NEW lists, NEW o \in Operations(lists), o.op = "join"
  PROVE  \E dc \in WithAgent(lists) : o = Joins(dc, lists)
<1>1. o \notin AgentOperations(lists)
  BY AgentOperationIs, FileIs DEF MakesFolder, Waits, StartsAgent
<1>2. o \notin MeshOperations(lists)
  BY MeshOperationIs, RunIs DEF StartsMesh
<1>3. o \notin EntryFiles(lists)
  BY EntryFileIs, FileIs DEF FileOfEntry
<1>4. o \notin ServiceFiles("external", lists, 1) /\ o \notin ServiceFiles("proxy", lists, 3)
  BY ServiceFileIs, FileIs DEF DefaultsOf, RegistrationOf
<1>5. ASSUME NEW group, NEW i, NEW s PROVE o \notin RunBoth(group, i, s)
  BY RunIs DEF RunBoth
<1>6. o \notin StartOperations(lists)
  BY <1>5, StartOperationIs, RunIs DEF StartsGateway
<1> QED
  BY <1>1, <1>2, <1>3, <1>4, <1>6, OperationIs, JoinOperationIs

-----------------------------------------------------------------------------
(* What an answered snapshot's script writes before it starts anything.    *)

LEMMA ListsAre ==
  ASSUME NEW lists, Answerable(lists)
  PROVE  /\ lists.services \in Seq(ServiceRecords) /\ DOMAIN lists.services = 1..Len(lists.services)
         /\ lists.entries \in Seq(EntryRecords) /\ DOMAIN lists.entries = 1..Len(lists.entries)
         /\ lists.consuls \in Seq(ConsulRecords) /\ DOMAIN lists.consuls = 1..Len(lists.consuls)
         /\ \A i \in DOMAIN lists.services : lists.services[i] \in ServiceRecords
         /\ \A i \in DOMAIN lists.services : lists.services[i].dc \in DCs
         /\ \A i \in DOMAIN lists.services : lists.services[i].kind # "mesh-gateway"
         /\ EntriesOf(lists) = DOMAIN lists.entries
<1>1. /\ lists.services \in Seq(ServiceRecords) /\ lists.entries \in Seq(EntryRecords)
      /\ lists.consuls \in Seq(ConsulRecords)
  BY DEF Answerable, Complete
<1>2. \A i \in DOMAIN lists.services : lists.services[i] \in ServiceRecords
  BY <1>1
<1>3. \A i \in DOMAIN lists.services : lists.services[i].dc \in DCs
  BY <1>2 DEF ServiceRecords
<1>4. \A i \in DOMAIN lists.entries : lists.entries[i] \in EntryRecords
  BY <1>1
<1>5. \A e \in EntryRecords : e.dc \in DCs
  BY NamesAssumption DEF EntryRecords, Entry
<1>6. EntriesOf(lists) = DOMAIN lists.entries
  BY <1>4, <1>5 DEF EntriesOf
<1>7. \A i \in DOMAIN lists.services : lists.services[i].kind # "mesh-gateway"
  BY <1>1 DEF Answerable
<1> QED
  BY <1>1, <1>2, <1>3, <1>6, <1>7

LEMMA ClassIs ==
  ASSUME NEW s \in ServiceRecords, s.kind # "mesh-gateway"
  PROVE  /\ Class(s) = "mesh" <=> s.kind = "mesh"
         /\ Class(s) = "service" <=> s.kind = "service"
         /\ Class(s) = "external" <=> s.kind = "external"
         /\ Class(s) = "proxy" <=> s.kind = "connect-proxy"
         /\ Class(s) = "gateway" <=> s.kind \in GatewayKinds
<1>1. s.kind \in Kinds
  BY DEF ServiceRecords
<1> QED
  BY <1>1 DEF Class, Kinds, GatewayKinds, KnownGateways

LEMMA FilesBefore ==
  ASSUME NEW lists, NEW i \in OfClass("external", lists) \cup OfClass("proxy", lists),
         NEW o, o.at[1] = 5
  PROVE  /\ \E w \in Operations(lists) :
              w.op = "file" /\ w.file = lists.services[i].defaults /\ Before(w, o)
         /\ \E w \in Operations(lists) :
              w.op = "file" /\ w.file = lists.services[i].registration /\ Before(w, o)
<1>1. ASSUME NEW group
      PROVE  /\ DefaultsOf(i, lists, group).op = "file"
             /\ DefaultsOf(i, lists, group).file = lists.services[i].defaults
             /\ Before(DefaultsOf(i, lists, group), o)
             /\ RegistrationOf(i, lists, group).op = "file"
             /\ RegistrationOf(i, lists, group).file = lists.services[i].registration
             /\ Before(RegistrationOf(i, lists, group), o)
  <2>1. /\ DefaultsOf(i, lists, group).at[1] = 4 /\ RegistrationOf(i, lists, group).at[1] = 4
    BY FileIs, PlaceIs DEF DefaultsOf, RegistrationOf
  <2> QED
    BY <2>1, FileIs, EarlierBlock DEF DefaultsOf, RegistrationOf
<1>2. \/ {DefaultsOf(i, lists, 1), RegistrationOf(i, lists, 1)} \subseteq Operations(lists)
      \/ {DefaultsOf(i, lists, 3), RegistrationOf(i, lists, 3)} \subseteq Operations(lists)
  BY ServiceFileIs, OperationIs
<1> QED
  BY <1>1, <1>2

LEMMA EntryBefore ==
  ASSUME NEW lists, Answerable(lists), NEW i \in OfClass("gateway", lists), NEW o, o.at[1] = 5
  PROVE  \E e \in ToSet(lists.entries) :
           /\ e.dc = lists.services[i].dc /\ e.kind = lists.services[i].kind
           /\ e.name = lists.services[i].name
           /\ \E w \in Operations(lists) : w.op = "file" /\ w.file = e.file /\ Before(w, o)
<1> DEFINE s == lists.services[i]
<1>1. /\ i \in 1..Len(lists.services) /\ s \in ServiceRecords /\ Class(s) = "gateway"
      /\ s.kind # "mesh-gateway"
  BY ListsAre DEF OfClass
<1>2. s.kind \in KnownGateways
  BY <1>1, ClassIs DEF GatewayKinds, KnownGateways
<1>3. PICK j \in 1..Len(lists.entries) :
        /\ lists.entries[j].dc = s.dc /\ lists.entries[j].kind = s.kind
        /\ lists.entries[j].name = s.name
  BY <1>1, <1>2 DEF Answerable, Complete
<1>4. j \in EntriesOf(lists) /\ j \in DOMAIN lists.entries
  BY ListsAre
<1>5. FileOfEntry(j, lists) \in Operations(lists)
  BY <1>4, EntryFileIs, OperationIs
<1>6. FileOfEntry(j, lists).op = "file" /\ FileOfEntry(j, lists).file = lists.entries[j].file
      /\ FileOfEntry(j, lists).at[1] = 4
  BY FileIs, PlaceIs DEF FileOfEntry
<1>7. Before(FileOfEntry(j, lists), o)
  BY <1>6, EarlierBlock
<1>8. lists.entries[j] \in ToSet(lists.entries)
  BY <1>4 DEF ToSet
<1> QED
  BY <1>3, <1>5, <1>6, <1>7, <1>8

LEMMA StartPlace ==
  ASSUME NEW lists, NEW o \in Operations(lists)
  PROVE  /\ o.op \in {"service", "sidecar"} => o.at[1] = 5
         /\ o.op = "gateway" => o.at[1] \in {3, 5}
         /\ o.op = "join" => o.at[1] = 2
<1>1. ASSUME NEW group, NEW i, NEW s, o \in RunBoth(group, i, s) PROVE o.at[1] = 5
  BY <1>1, RunIs, PlaceIs DEF RunBoth
<1>2. o.op \in {"service", "sidecar"} => o.at[1] = 5
  BY <1>1, StartOperation
<1>3. o.op = "gateway" => o.at[1] \in {3, 5}
  BY GatewayOperation, RunIs, PlaceIs DEF StartsMesh, StartsGateway
<1>4. o.op = "join" => o.at[1] = 2
  BY JoinOperation DEF Joins
<1> QED
  BY <1>2, <1>3, <1>4

(* A report that is answered leaves everything else as it is, and nothing  *)
(* else changes what was written.                                          *)
LEMMA AnswerIs ==
  ASSUME ReportInv, [Next]_vars, Written'
  PROVE  \/ UNCHANGED <<script, snapshot, status>>
         \/ /\ script' = Operations(snapshot) /\ UNCHANGED <<serverVars, snapshot>>
            /\ Answerable(snapshot)
<1>1. CASE TakeSnapshot
  BY <1>1 DEF TakeSnapshot, Written
<1>2. CASE Answer
  BY <1>2, Unreadable DEF Answer, Written, ReportInv
<1>3. CASE UNCHANGED reportVars
  BY <1>3 DEF reportVars
<1> QED
  BY <1>1, <1>2, <1>3 DEF Next, vars

LEMMA AnswerConfigured ==
  ASSUME Answerable(snapshot), UNCHANGED snapshot, script' = Operations(snapshot)
  PROVE  ReplayConfigured'
<1> DEFINE ops == Operations(snapshot)
<1>1. ASSUME NEW o \in ops, o.op \in {"sidecar", "gateway"}, NEW j \in ops, j.op = "join"
      PROVE  Before(j, o)
  BY <1>1, StartPlace, EarlierBlock
<1>2. ASSUME NEW o \in ops, o.op = "sidecar",
             NEW s \in Listed("external") \cup {Trimmed(p) : p \in Listed("proxy")}
      PROVE  /\ \E w \in ops : w.op = "file" /\ w.file = s.defaults /\ Before(w, o)
             /\ \E w \in ops : w.op = "file" /\ w.file = s.registration /\ Before(w, o)
  <2>1. PICK p \in ToSet(snapshot.services) :
          /\ Class(p) \in {"external", "proxy"}
          /\ s = p \/ s = Trimmed(p)
    BY DEF Listed
  <2>2. PICK i \in DOMAIN snapshot.services : p = snapshot.services[i]
    BY DEF ToSet
  <2>3. p \in ServiceRecords
    BY <2>2, ListsAre
  <2>4. s.defaults = p.defaults /\ s.registration = p.registration
    BY <2>1, <2>3 DEF Trimmed, ServiceRecords
  <2>5. i \in OfClass("external", snapshot) \cup OfClass("proxy", snapshot)
    BY <2>1, <2>2, ListsAre DEF OfClass
  <2>6. o.at[1] = 5
    BY <1>2, StartPlace
  <2> QED
    BY <2>2, <2>4, <2>5, <2>6, FilesBefore
<1>3. ASSUME NEW o \in ops, o.op = "gateway", o.kind \in GatewayKinds
      PROVE  \E e \in ToSet(snapshot.entries) :
               /\ e.dc = o.dc /\ e.kind = o.kind /\ e.name = o.name
               /\ \E w \in ops : w.op = "file" /\ w.file = e.file /\ Before(w, o)
  <2>1. ASSUME NEW i \in OfClass("mesh", snapshot) PROVE o # StartsMesh(i, snapshot)
    <3>1. snapshot.services[i].kind = "mesh"
      BY ListsAre, ClassIs DEF OfClass
    <3> QED
      BY <1>3, <3>1, RunIs DEF StartsMesh, GatewayKinds
  <2>2. PICK i \in OfClass("gateway", snapshot) : o = StartsGateway(i, snapshot)
    BY <1>3, <2>1, GatewayOperation
  <2>3. /\ o.at[1] = 5 /\ o.dc = snapshot.services[i].dc /\ o.kind = snapshot.services[i].kind
        /\ o.name = snapshot.services[i].name
    BY <2>2, RunIs, PlaceIs DEF StartsGateway
  <2> QED
    BY <2>3, EntryBefore
<1>4. script' = ops /\ snapshot' = snapshot
  OBVIOUS
<1> HIDE DEF ops
<1> QED
  BY <1>1, <1>2, <1>3, <1>4 DEF ReplayConfigured, WrittenBefore, Writes, Listed

(* Whatever the moment of the bring-up the lists were copied at, a replay  *)
(* starts no sidecar before the joins and the defaults and registrations   *)
(* of the external services and of its own service, no gateway before its  *)
(* own entry.  The registration of the sidecar itself is in no script.     *)
THEOREM ReplayIsConfigured == Spec => []ReplayConfigured
<1>1. Init => ReplayConfigured
  BY DEF Init, ReplayConfigured, Written
<1>2. ReportInv /\ ReplayConfigured /\ [Next]_vars => ReplayConfigured'
  <2> SUFFICES ASSUME ReportInv, ReplayConfigured, [Next]_vars PROVE ReplayConfigured'
    OBVIOUS
  <2>1. CASE ~ Written'
    BY <2>1 DEF ReplayConfigured
  <2>2. CASE UNCHANGED <<script, snapshot, status>>
    BY <2>2 DEF ReplayConfigured, WrittenBefore, Writes, Listed, Written
  <2>3. CASE script' = Operations(snapshot) /\ UNCHANGED snapshot /\ Answerable(snapshot)
    BY <2>3, AnswerConfigured
  <2> QED
    BY <2>1, <2>2, <2>3, AnswerIs
<1> QED
  BY Invariant, <1>1, <1>2, PTL DEF Spec

-----------------------------------------------------------------------------
(* The folders of a script.                                                *)

LEMMA FilePlace ==
  ASSUME NEW lists, Answerable(lists), NEW o \in Operations(lists), o.op = "file"
  PROVE  \/ \E dc \in WithAgent(lists) : o = StartsAgent(dc)
         \/ /\ o.at[1] = 4 /\ o.dc \in DCs
            /\ lists.services # <<>> \/ lists.entries # <<>>
<1>1. ASSUME NEW i \in OfClass("external", lists) \cup OfClass("proxy", lists), NEW group,
             o \in {DefaultsOf(i, lists, group), RegistrationOf(i, lists, group)}
      PROVE  o.at[1] = 4 /\ o.dc \in DCs /\ lists.services # <<>>
  <2>1. i \in DOMAIN lists.services
    BY DEF OfClass
  <2>2. lists.services[i].dc \in DCs /\ lists.services # <<>>
    BY <2>1, ListsAre
  <2> QED
    BY <1>1, <2>2, FileIs, PlaceIs DEF DefaultsOf, RegistrationOf
<1>2. ASSUME NEW i \in EntriesOf(lists), o = FileOfEntry(i, lists)
      PROVE  o.at[1] = 4 /\ o.dc \in DCs /\ lists.entries # <<>>
  <2>1. i \in DOMAIN lists.entries /\ lists.entries[i].dc \in DCs
    BY DEF EntriesOf
  <2>2. lists.entries # <<>>
    BY <2>1, ListsAre
  <2> QED
    BY <1>2, <2>1, <2>2, FileIs, PlaceIs DEF FileOfEntry
<1> QED
  BY <1>1, <1>2, FileOperation

LEMMA AnswerFolders ==
  ASSUME Answerable(snapshot), UNCHANGED snapshot, script' = Operations(snapshot)
  PROVE  FoldersExist'
<1> DEFINE ops == Operations(snapshot)
<1>1. ASSUME NEW dc \in WithAgent(snapshot)
      PROVE  /\ MakesFolder(dc) \in ops
             /\ MakesFolder(dc).op = "mkdir" /\ MakesFolder(dc).dc = dc
             /\ MakesFolder(dc).at = At(1, dc, 1, 1, 1)
  BY AgentOperationIs, OperationIs DEF MakesFolder
<1>2. ASSUME RunConsul, NEW o \in ops, o.op = "file"
      PROVE  \E m \in ops : m.op = "mkdir" /\ m.dc = o.dc /\ Before(m, o)
  <2>1. CASE \E dc \in WithAgent(snapshot) : o = StartsAgent(dc)
    <3>1. PICK dc \in WithAgent(snapshot) : o = StartsAgent(dc)
      BY <2>1
    <3>2. o.dc = dc /\ o.at = At(1, dc, 1, 1, 2)
      BY <3>1, FileIs DEF StartsAgent
    <3>3. Before(MakesFolder(dc), o)
      BY <1>1, <3>2, PlaceIs DEF Before
    <3> QED
      BY <1>1, <3>2, <3>3
  <2>2. CASE o.at[1] = 4 /\ o.dc \in DCs
             /\ (snapshot.services # <<>> \/ snapshot.entries # <<>>)
    <3>1. o.dc \in WithAgent(snapshot)
      BY <1>2, <2>2 DEF Answerable, Complete
    <3>2. MakesFolder(o.dc).at[1] = 1
      BY <3>1, <1>1, PlaceIs
    <3>3. Before(MakesFolder(o.dc), o)
      BY <2>2, <3>2, EarlierBlock
    <3> QED
      BY <1>1, <3>1, <3>3
  <2> QED
    BY <1>2, <2>1, <2>2, FilePlace
<1>3. ASSUME ~ RunConsul, NEW m \in ops, m.op = "mkdir" PROVE FALSE
  <2>1. WithAgent(snapshot) = {}
    <3>1. snapshot.consuls = <<>>
      BY <1>3 DEF Answerable, Complete
    <3>2. DOMAIN snapshot.consuls = {}
      BY <3>1
    <3> QED
      BY <3>2 DEF WithAgent
  <2>2. m \notin AgentOperations(snapshot) /\ m \notin JoinOperations(snapshot)
    BY <2>1, AgentOperationIs, JoinOperationIs
  <2>3. m \notin MeshOperations(snapshot)
    BY <1>3, MeshOperationIs, RunIs DEF StartsMesh
  <2>4. m \notin EntryFiles(snapshot)
    BY <1>3, EntryFileIs, FileIs DEF FileOfEntry
  <2>5. m \notin ServiceFiles("external", snapshot, 1) /\ m \notin ServiceFiles("proxy", snapshot, 3)
    BY <1>3, ServiceFileIs, FileIs DEF DefaultsOf, RegistrationOf
  <2>6. ASSUME NEW group, NEW i, NEW s PROVE m \notin RunBoth(group, i, s)
    BY <1>3, RunIs DEF RunBoth
  <2>7. m \notin StartOperations(snapshot)
    BY <1>3, <2>6, StartOperationIs, RunIs DEF StartsGateway
  <2> QED
    BY <2>2, <2>3, <2>4, <2>5, <2>7, OperationIs
<1>4. script' = ops
  OBVIOUS
<1>5. RunConsul \in BOOLEAN
  BY NamesAssumption
<1> HIDE DEF ops
<1> QED
  BY <1>2, <1>3, <1>4, <1>5 DEF FoldersExist

(* A script creates the folder of every file it writes, and before that,   *)
(* if the runner starts the agents; otherwise it creates none: whatever    *)
(* the moment of the report.                                               *)
THEOREM FoldersAreCreated == Spec => []FoldersExist
<1>1. Init => FoldersExist
  BY DEF Init, FoldersExist, Written
<1>2. ReportInv /\ FoldersExist /\ [Next]_vars => FoldersExist'
  <2> SUFFICES ASSUME ReportInv, FoldersExist, [Next]_vars PROVE FoldersExist'
    OBVIOUS
  <2>1. CASE ~ Written'
    BY <2>1 DEF FoldersExist
  <2>2. CASE UNCHANGED <<script, snapshot, status>>
    BY <2>2 DEF FoldersExist, Written
  <2>3. CASE script' = Operations(snapshot) /\ UNCHANGED snapshot /\ Answerable(snapshot)
    BY <2>3, AnswerFolders
  <2> QED
    BY <2>1, <2>2, <2>3, AnswerIs
<1> QED
  BY Invariant, <1>1, <1>2, PTL DEF Spec

-----------------------------------------------------------------------------
(* Each listed service and what starts it correspond one to one.           *)

Matching(s, lists) ==
  {i \in DOMAIN lists.services :
     LET t == lists.services[i] IN t.dc = s.dc /\ t.kind = s.kind /\ t.name = s.name}
Starting(op, s, ops) == {o \in ops : o.op = op /\ o.dc = s.dc /\ o.kind = s.kind /\ o.name = s.name}

LEMMA AsOften ==
  ASSUME NEW lists, Answerable(lists), NEW s, NEW T,
         NEW f \in [Matching(s, lists) -> T],
         \A i, j \in Matching(s, lists) : f[i] = f[j] => i = j,
         \A t \in T : \E i \in Matching(s, lists) : f[i] = t
  PROVE  Cardinality(T) = Cardinality(Matching(s, lists))
<1> DEFINE S == Matching(s, lists)
<1>1. S \subseteq 1..Len(lists.services) /\ Len(lists.services) \in Nat
  BY ListsAre DEF Matching
<1>2. IsFiniteSet(S)
  <2>1. IsFiniteSet(1..Len(lists.services))
    BY <1>1, FS_Interval
  <2>2. S \in SUBSET (1..Len(lists.services))
    BY <1>1
  <2> HIDE DEF S
  <2> QED
    BY <2>1, <2>2, FS_Subset
<1>3. f \in Bijection(S, T)
  BY DEF Bijection, Injection, Surjection, IsInjective
<1> QED
  BY <1>2, <1>3, FS_Bijection DEF ExistsBijection

Which(op) == IF op = "service" THEN 1 ELSE 2
LEMMA RunBothIs ==
  ASSUME NEW group, NEW i, NEW s, NEW o
  PROVE  o \in RunBoth(group, i, s) <=>
           \E op \in {"service", "sidecar"} : o = Run(op, At(5, s.dc, group, i, Which(op)), s)
  BY DEF RunBoth, Which

LEMMA TrimmedIs ==
  ASSUME NEW s \in ServiceRecords, s.kind = "connect-proxy" => s.name % 2 = 1
  PROVE  /\ Trimmed(s).dc = s.dc /\ Trimmed(s).kind = s.kind
         /\ s.kind = "connect-proxy" => Trimmed(s).name = s.name - 1
<1>1. s.name \in Nat
  BY DEF ServiceRecords
<1>2. /\ Trimmed(s).dc = s.dc /\ Trimmed(s).kind = s.kind
      /\ Trimmed(s).name = s.name - (s.name % 2)
  BY DEF Trimmed, ServiceRecords
<1> QED
  BY <1>1, <1>2

LEMMA ExternalsStarted ==
  ASSUME NEW lists, Answerable(lists), NEW s, s.kind = "external",
         NEW op \in {"service", "sidecar"}
  PROVE  Cardinality(Starting(op, s, Operations(lists))) = Cardinality(Matching(s, lists))
<1> DEFINE S == Matching(s, lists)
           T == Starting(op, s, Operations(lists))
           Start(i) == Run(op, At(5, lists.services[i].dc, 1, i, Which(op)), lists.services[i])
           f == [i \in S |-> Start(i)]
<1>1. ASSUME NEW i \in S PROVE Start(i) \in T
  <2>1. i \in OfClass("external", lists)
    BY ListsAre, ClassIs DEF OfClass, Matching
  <2>2. Start(i) \in Operations(lists)
    BY <2>1, RunBothIs, StartOperationIs, OperationIs
  <2> QED
    BY <2>2, RunIs DEF Starting, Matching
<1>2. \A i \in S : Start(i).at[4] = i
  BY RunIs, PlaceIs
<1>3. ASSUME NEW t \in T PROVE \E i \in S : Start(i) = t
  <2>1. /\ t \in Operations(lists) /\ t.op = op /\ t.dc = s.dc /\ t.kind = s.kind
        /\ t.name = s.name
    BY DEF Starting
  <2>2. ASSUME NEW i \in OfClass("proxy", lists), t \in RunBoth(2, i, Trimmed(lists.services[i]))
        PROVE  FALSE
    <3>1. lists.services[i] \in ServiceRecords /\ Class(lists.services[i]) = "proxy"
      BY ListsAre DEF OfClass
    <3>2. t.kind = Trimmed(lists.services[i]).kind
      BY <2>2, RunBothIs, RunIs
    <3>3. t.kind = "connect-proxy"
      <4>1. lists.services[i].kind # "mesh-gateway"
        BY ListsAre DEF OfClass
      <4> QED
        BY <3>1, <3>2, <4>1, ClassIs DEF Trimmed, ServiceRecords
    <3> QED
      BY <2>1, <3>3
  <2>3. PICK i \in OfClass("external", lists) : t \in RunBoth(1, i, lists.services[i])
    BY <2>1, <2>2, StartOperation
  <2>4. t = Start(i)
    BY <2>1, <2>3, RunBothIs, RunIs
  <2>5. i \in S
    BY <2>1, <2>4, RunIs DEF OfClass, Matching
  <2> QED
    BY <2>4, <2>5
<1> HIDE DEF S, T, Start
<1>4. f \in [S -> T] /\ \A i \in S : f[i] = Start(i)
  BY <1>1
<1>5. \A i, j \in S : f[i] = f[j] => i = j
  BY <1>2, <1>4
<1>6. \A t \in T : \E i \in S : f[i] = t
  BY <1>3, <1>4
<1> HIDE DEF f
<1> QED
  BY <1>4, <1>5, <1>6, AsOften DEF S, T

LEMMA ProxiesStarted ==
  ASSUME NEW lists, Answerable(lists), NEW s \in ServiceRecords, s.kind = "connect-proxy",
         s.name % 2 = 1, NEW op \in {"service", "sidecar"}
  PROVE  Cardinality(Starting(op, Trimmed(s), Operations(lists)))
           = Cardinality(Matching(s, lists))
<1> DEFINE S == Matching(s, lists)
           T == Starting(op, Trimmed(s), Operations(lists))
           Start(i) == Run(op, At(5, Trimmed(lists.services[i]).dc, 2, i, Which(op)),
                           Trimmed(lists.services[i]))
           f == [i \in S |-> Start(i)]
<1>0. Trimmed(s).dc = s.dc /\ Trimmed(s).kind = s.kind /\ Trimmed(s).name = s.name - 1
      /\ s.name \in Nat
  BY TrimmedIs DEF ServiceRecords
<1>1. ASSUME NEW i \in DOMAIN lists.services, lists.services[i].kind = "connect-proxy"
      PROVE  LET t == lists.services[i]
             IN /\ Trimmed(t).dc = t.dc /\ Trimmed(t).kind = t.kind
                /\ Trimmed(t).name = t.name - 1 /\ t.name \in Nat
  <2>1. lists.services[i] \in ServiceRecords /\ lists.services[i].name % 2 = 1
    BY <1>1, ListsAre DEF Answerable, Complete
  <2> QED
    BY <1>1, <2>1, TrimmedIs DEF ServiceRecords
<1>2. ASSUME NEW i \in S PROVE Start(i) \in T
  <2>1. i \in DOMAIN lists.services /\ lists.services[i].kind = "connect-proxy"
        /\ lists.services[i].dc = s.dc /\ lists.services[i].name = s.name
    BY DEF Matching
  <2>2. i \in OfClass("proxy", lists)
    BY <2>1, ListsAre, ClassIs DEF OfClass
  <2>3. Start(i) \in Operations(lists)
    BY <2>2, RunBothIs, StartOperationIs, OperationIs
  <2> QED
    BY <1>0, <1>1, <2>1, <2>3, RunIs DEF Starting
<1>3. \A i \in S : Start(i).at[4] = i
  BY RunIs, PlaceIs
<1>4. ASSUME NEW t \in T PROVE \E i \in S : Start(i) = t
  <2>1. /\ t \in Operations(lists) /\ t.op = op /\ t.dc = s.dc /\ t.kind = "connect-proxy"
        /\ t.name = s.name - 1
    BY <1>0 DEF Starting
  <2>2. ASSUME NEW i \in OfClass("external", lists), t \in RunBoth(1, i, lists.services[i])
        PROVE  FALSE
    <3>1. lists.services[i].kind = "external"
      BY ListsAre, ClassIs DEF OfClass
    <3> QED
      BY <2>1, <2>2, <3>1, RunBothIs, RunIs
  <2>3. PICK i \in OfClass("proxy", lists) : t \in RunBoth(2, i, Trimmed(lists.services[i]))
    BY <2>1, <2>2, StartOperation
  <2>4. t = Start(i)
    BY <2>1, <2>3, RunBothIs, RunIs
  <2>5. i \in DOMAIN lists.services /\ lists.services[i].kind = "connect-proxy"
    BY ListsAre, ClassIs DEF OfClass
  <2>6. lists.services[i].dc = s.dc /\ lists.services[i].name - 1 = s.name - 1
        /\ lists.services[i].name \in Nat
    BY <1>1, <2>1, <2>4, <2>5, RunIs
  <2>7. i \in S
    BY <1>0, <2>5, <2>6 DEF Matching
  <2> QED
    BY <2>4, <2>7
<1> HIDE DEF S, T, Start
<1>5. f \in [S -> T] /\ \A i \in S : f[i] = Start(i)
  BY <1>2
<1>6. \A i, j \in S : f[i] = f[j] => i = j
  BY <1>3, <1>5
<1>7. \A t \in T : \E i \in S : f[i] = t
  BY <1>4, <1>5
<1> HIDE DEF f
<1> QED
  BY <1>5, <1>6, <1>7, AsOften DEF S, T

LEMMA GatewaysStarted ==
  ASSUME NEW lists, Answerable(lists), NEW s,
         s.kind \in GatewayKinds \/ (s.kind = "mesh" /\ Len(Datacenters) > 1)
  PROVE  Cardinality(Starting("gateway", s, Operations(lists))) = Cardinality(Matching(s, lists))
<1> DEFINE S == Matching(s, lists)
           T == Starting("gateway", s, Operations(lists))
           Start(i) == IF s.kind = "mesh" THEN StartsMesh(i, lists) ELSE StartsGateway(i, lists)
           f == [i \in S |-> Start(i)]
<1>1. ASSUME NEW i
      PROVE  /\ Start(i).op = "gateway" /\ Start(i).at[4] = i
             /\ Start(i).dc = lists.services[i].dc /\ Start(i).kind = lists.services[i].kind
             /\ Start(i).name = lists.services[i].name
  BY RunIs, PlaceIs DEF StartsMesh, StartsGateway
<1>2. ASSUME NEW i \in S PROVE Start(i) \in T
  <2>1. /\ i \in DOMAIN lists.services /\ lists.services[i].kind = s.kind
        /\ lists.services[i].dc = s.dc /\ lists.services[i].name = s.name
    BY DEF Matching
  <2>2. IF s.kind = "mesh" THEN i \in OfClass("mesh", lists) ELSE i \in OfClass("gateway", lists)
    BY <2>1, ListsAre, ClassIs DEF OfClass, GatewayKinds
  <2>3. CASE s.kind = "mesh"
    <3>1. Start(i) \in MeshOperations(lists) /\ Len(Datacenters) > 1
      BY <2>2, <2>3, MeshOperationIs DEF GatewayKinds
    <3> QED
      BY <1>1, <2>1, <3>1, OperationIs DEF Starting
  <2>4. CASE s.kind # "mesh"
    <3>1. Start(i) \in StartOperations(lists)
      BY <2>2, <2>4, StartOperationIs
    <3> QED
      BY <1>1, <2>1, <3>1, OperationIs DEF Starting
  <2> QED
    BY <2>3, <2>4
<1>3. ASSUME NEW t \in T PROVE \E i \in S : Start(i) = t
  <2>1. /\ t \in Operations(lists) /\ t.op = "gateway" /\ t.dc = s.dc /\ t.kind = s.kind
        /\ t.name = s.name
    BY DEF Starting
  <2>2. ASSUME NEW i \in OfClass("mesh", lists), t = StartsMesh(i, lists)
        PROVE  s.kind = "mesh" /\ i \in S
    <3>1. i \in DOMAIN lists.services /\ lists.services[i].kind = "mesh"
      BY ListsAre, ClassIs DEF OfClass
    <3>2. /\ t.dc = lists.services[i].dc /\ t.kind = lists.services[i].kind
          /\ t.name = lists.services[i].name
      BY <2>2, RunIs DEF StartsMesh
    <3> QED
      BY <2>1, <3>1, <3>2 DEF Matching
  <2>3. ASSUME NEW i \in OfClass("gateway", lists), t = StartsGateway(i, lists)
        PROVE  s.kind # "mesh" /\ i \in S
    <3>1. i \in DOMAIN lists.services /\ lists.services[i].kind \in GatewayKinds
      BY ListsAre, ClassIs DEF OfClass
    <3>2. /\ t.dc = lists.services[i].dc /\ t.kind = lists.services[i].kind
          /\ t.name = lists.services[i].name
      BY <2>3, RunIs DEF StartsGateway
    <3> QED
      BY <2>1, <3>1, <3>2 DEF Matching, GatewayKinds
  <2> QED
    BY <2>1, <2>2, <2>3, GatewayOperation
<1> HIDE DEF S, T, Start
<1>4. f \in [S -> T] /\ \A i \in S : f[i] = Start(i)
  BY <1>2
<1>5. \A i, j \in S : f[i] = f[j] => i = j
  BY <1>1, <1>4
<1>6. \A t \in T : \E i \in S : f[i] = t
  BY <1>3, <1>4
<1> HIDE DEF f
<1> QED
  BY <1>4, <1>5, <1>6, AsOften DEF S, T

LEMMA AgentsStarted ==
  ASSUME NEW lists, Answerable(lists), NEW c \in ToSet(lists.consuls)
  PROVE  \E o \in Operations(lists) : o.op = "file" /\ o.file = ConfigFile(c.dc)
<1>1. PICK i \in DOMAIN lists.consuls : c = lists.consuls[i]
  BY DEF ToSet
<1>2. c \in ConsulRecords
  BY <1>1, ListsAre
<1>3. c.dc \in WithAgent(lists)
  BY <1>1, <1>2 DEF WithAgent, ConsulRecords
<1>4. StartsAgent(c.dc) \in Operations(lists)
  BY <1>3, AgentOperationIs, OperationIs
<1> QED
  BY <1>4, FileIs DEF StartsAgent

LEMMA AnswerStarts ==
  ASSUME Answerable(snapshot), UNCHANGED snapshot, script' = Operations(snapshot)
  PROVE  StartsWhatIsListed'
<1> DEFINE ops == Operations(snapshot)
<1>1. \A op, s : Starts(op, s)' = Cardinality(Starting(op, s, script'))
  BY DEF Starts, Starting
<1>2. \A s : Times(s)' = Cardinality(Matching(s, snapshot'))
  BY DEF Times, Matching
<1>3. ASSUME NEW class, NEW s \in Listed(class)
      PROVE  /\ s \in ServiceRecords /\ Class(s) = class /\ s.kind # "mesh-gateway"
             /\ s.kind = "connect-proxy" => s.name % 2 = 1
             /\ s.kind = "service" => s.name % 2 = 0
  <2>1. PICK i \in DOMAIN snapshot.services : s = snapshot.services[i]
    BY DEF Listed, ToSet
  <2>2. s \in ServiceRecords /\ i \in 1..Len(snapshot.services)
    BY <2>1, ListsAre
  <2> QED
    BY <2>1, <2>2 DEF Listed, Answerable, Complete
<1>4. script' = ops /\ snapshot' = snapshot
  OBVIOUS
<1>5. ASSUME NEW s \in Listed("external"), NEW op \in {"service", "sidecar"}
      PROVE  Starts(op, s)' = Times(s)'
  BY <1>1, <1>2, <1>3, <1>4, ClassIs, ExternalsStarted
<1>6. ASSUME NEW s \in Listed("proxy"), NEW op \in {"service", "sidecar"}
      PROVE  Starts(op, Trimmed(s))' = Times(s)'
  BY <1>1, <1>2, <1>3, <1>4, ClassIs, ProxiesStarted
<1>11. ASSUME NEW s \in Listed("service"), NEW op \in {"service", "sidecar"}
       PROVE  Starts(op, Trimmed(SidecarOf(s)))' = Times(SidecarOf(s))'
  <2>1. s \in ServiceRecords /\ s.name % 2 = 0
    BY <1>3, ClassIs
  <2>2. s.name \in Nat
    BY <2>1 DEF ServiceRecords
  <2>3. /\ SidecarOf(s) \in ServiceRecords /\ SidecarOf(s).kind = "connect-proxy"
        /\ SidecarOf(s).name = s.name + 1
    <3>1. "connect-proxy" \in Kinds /\ s.name + 1 \in Nat
      BY <2>2 DEF Kinds
    <3> QED
      BY <2>1, <3>1 DEF SidecarOf, ServiceRecords
  <2>4. SidecarOf(s).name % 2 = 1
    BY <2>1, <2>2, <2>3
  <2> QED
    BY <1>1, <1>2, <1>4, <2>3, <2>4, ProxiesStarted
<1>7. ASSUME NEW s \in Listed("gateway")
      PROVE  Starts("gateway", s)' = Times(s)'
  BY <1>1, <1>2, <1>3, <1>4, ClassIs, GatewaysStarted
<1>8. ASSUME Len(Datacenters) > 1, NEW s \in Listed("mesh")
      PROVE  Starts("gateway", s)' = Times(s)'
  BY <1>1, <1>2, <1>3, <1>4, <1>8, ClassIs, GatewaysStarted
<1>9. \A c \in ToSet(snapshot.consuls) : Writes(ConfigFile(c.dc))' # {}
  BY <1>4, AgentsStarted DEF Writes
<1>10. \A class : Listed(class)' = Listed(class)
  BY DEF Listed
<1> HIDE DEF ops
<1> QED
  BY <1>4, <1>5, <1>6, <1>7, <1>8, <1>9, <1>10, <1>11 DEF StartsWhatIsListed

(* A script starts what was listed, as often as it was: external services, *)
(* sidecars with their service, gateways; a mesh service whose sidecar was *)
(* not listed yet it does not start.                                       *)
THEOREM ListedIsStarted == Spec => []StartsWhatIsListed
<1>1. Init => StartsWhatIsListed
  BY DEF Init, StartsWhatIsListed, Written
<1>2. ReportInv /\ StartsWhatIsListed /\ [Next]_vars => StartsWhatIsListed'
  <2> SUFFICES ASSUME ReportInv, StartsWhatIsListed, [Next]_vars PROVE StartsWhatIsListed'
    OBVIOUS
  <2>1. CASE ~ Written'
    BY <2>1 DEF StartsWhatIsListed
  <2>2. CASE UNCHANGED <<script, snapshot, status>>
    <3>1. /\ \A op, s : Starts(op, s) = Cardinality(Starting(op, s, script))
          /\ \A op, s : Starts(op, s)' = Cardinality(Starting(op, s, script'))
      BY DEF Starts, Starting
    <3>2. /\ \A s : Times(s) = Cardinality(Matching(s, snapshot))
          /\ \A s : Times(s)' = Cardinality(Matching(s, snapshot'))
      BY DEF Times, Matching
    <3>3. /\ \A class : Listed(class)' = Listed(class)
          /\ \A name : Writes(name)' = Writes(name)
      BY <2>2 DEF Listed, Writes
    <3>4. /\ \A op, s : Starts(op, s)' = Starts(op, s)
          /\ \A s : Times(s)' = Times(s)
          /\ snapshot' = snapshot /\ Written' = Written
      BY <2>2, <3>1, <3>2 DEF Written
    <3> QED
      BY <3>3, <3>4 DEF StartsWhatIsListed
  <2>3. CASE script' = Operations(snapshot) /\ UNCHANGED snapshot /\ Answerable(snapshot)
    BY <2>3, AnswerStarts
  <2> QED
    BY <2>1, <2>2, <2>3, AnswerIs
<1> QED
  BY Invariant, <1>1, <1>2, PTL DEF Spec

-----------------------------------------------------------------------------
(* Who wrote a file.  If no two resource files of a datacenter have the    *)
(* same base name, every file is written by one handler only, and what the *)
(* cache has for it stays.                                                 *)

FilesApart == \A r, q \in Resources : r.dc = q.dc /\ r.file = q.file => r = q

LEMMA OneWriter ==
  ASSUME FilesApart, NEW f,
         NEW g \in Handlers, NEW j \in 1..Len(Steps(g)), Steps(g)[j] = Render(f),
         NEW h \in Handlers, NEW k \in 1..Len(Steps(h)), Steps(h)[k] = Render(f)
  PROVE  g = h
<1>1. f[2] = "consul" \/ f[2] \in Folders \/ f[2] = "entries"
  BY RenderIs
     DEF ConfigFile, ExternalDefaults, ExternalFile, ServiceDefaults, ServiceFile, ServiceProxy,
         RenderedFile, Folders
<1>2. CASE f[2] = "consul"
  BY <1>2, RenderIs
     DEF ConfigFile, ExternalDefaults, ExternalFile, ServiceDefaults, ServiceFile, ServiceProxy,
         RenderedFile
<1>3. CASE f[2] \in {"external-service-defaults", "external-service"}
  <2>1. PICK s \in Externals : g = <<"external", s>> /\ f[1] = s.dc /\ f[3] = s.name
    BY <1>3, RenderIs
       DEF ConfigFile, ExternalDefaults, ExternalFile, ServiceDefaults, ServiceFile,
           ServiceProxy, RenderedFile
  <2>2. PICK t \in Externals : h = <<"external", t>> /\ f[1] = t.dc /\ f[3] = t.name
    BY <1>3, RenderIs
       DEF ConfigFile, ExternalDefaults, ExternalFile, ServiceDefaults, ServiceFile,
           ServiceProxy, RenderedFile
  <2>3. s = t
    BY <2>1, <2>2, NamesAre
  <2> QED
    BY <2>1, <2>2, <2>3
<1>4. CASE f[2] \in {"service-defaults", "service", "service-proxy"}
  <2>1. PICK s \in Services : g = <<"service", s>> /\ f[1] = s.dc /\ f[3] = s.name
    BY <1>4, RenderIs
       DEF ConfigFile, ExternalDefaults, ExternalFile, ServiceDefaults, ServiceFile,
           ServiceProxy, RenderedFile
  <2>2. PICK t \in Services : h = <<"service", t>> /\ f[1] = t.dc /\ f[3] = t.name
    BY <1>4, RenderIs
       DEF ConfigFile, ExternalDefaults, ExternalFile, ServiceDefaults, ServiceFile,
           ServiceProxy, RenderedFile
  <2>3. s = t
    BY <2>1, <2>2, NamesAre
  <2> QED
    BY <2>1, <2>2, <2>3
<1>5. CASE f[2] = "entries"
  <2>1. PICK r \in Resources : g = <<"resource", r>> /\ f[1] = r.dc /\ f[3] = r.file
    BY <1>5, RenderIs
       DEF ConfigFile, ExternalDefaults, ExternalFile, ServiceDefaults, ServiceFile,
           ServiceProxy, RenderedFile
  <2>2. PICK q \in Resources : h = <<"resource", q>> /\ f[1] = q.dc /\ f[3] = q.file
    BY <1>5, RenderIs
       DEF ConfigFile, ExternalDefaults, ExternalFile, ServiceDefaults, ServiceFile,
           ServiceProxy, RenderedFile
  <2>3. r = q
    BY <2>1, <2>2 DEF FilesApart
  <2> QED
    BY <2>1, <2>2, <2>3
<1> QED
  BY <1>1, <1>2, <1>3, <1>4, <1>5 DEF Folders

LEMMA ContentStays ==
  ASSUME FilesApart, ServerInv, NEW h \in Handlers, Proceed(h), NEW f \in DOMAIN files
  PROVE  files'[f] = files[f]
<1>1. \/ files' = files
      \/ \E g : Steps(h)[step[h] + 1] = Render(g) /\ WriteFile(g, h)
  BY ProceedMoves
<1>2. ASSUME NEW g, Steps(h)[step[h] + 1] = Render(g), WriteFile(g, h)
      PROVE  files'[f] = files[f]
  <2>1. CASE f # g
    BY <1>2, <2>1, WriteIs
  <2>2. CASE f = g
    <3>1. files'[f] = h
      BY <1>2, <2>2, WriteIs
    <3>2. files[f] \in Handlers
          /\ \E k \in 1..Len(Steps(files[f])) : Steps(files[f])[k] = Render(f)
      <4>1. files[f] \in Handlers
        BY DEF ServerInv, ServerType
      <4>2. 1..step[files[f]] \subseteq 1..Len(Steps(files[f]))
        BY <4>1 DEF ServerInv, ServerType
      <4> QED
        BY <4>1, <4>2 DEF ServerInv, Owned
    <3>3. step[h] + 1 \in 1..Len(Steps(h))
      BY ProceedMoves
    <3> QED
      BY <1>2, <2>2, <3>1, <3>2, <3>3, OneWriter
  <2> QED
    BY <2>1, <2>2
<1> QED
  BY <1>1, <1>2

LEMMA StepsGrow ==
  ASSUME ReportInv, [Next]_vars, NEW r \in Resources, Replaced(r)
  PROVE  Replaced(r)'
<1>1. PICK q \in Resources \ {r} :
        q.dc = r.dc /\ q.file = r.file /\ step[<<"resource", q>>] > 0
  BY DEF Replaced
<1>2. <<"resource", q>> \in Handlers /\ step \in [Handlers -> Nat]
  BY DEF Handlers, ReportInv, ServerInv, ServerType
<1>3. CASE UNCHANGED step
  BY <1>1, <1>3 DEF Replaced
<1>4. ASSUME NEW h \in Handlers, Proceed(h) PROVE step'[<<"resource", q>>] > 0
  <2>1. /\ step'[h] = step[h] + 1 /\ step[h] \in Nat
        /\ \A g \in Handlers : g # h => step'[g] = step[g]
    BY <1>2, <1>4, ProceedMoves DEF ReportInv
  <2>2. CASE <<"resource", q>> = h
    BY <2>1, <2>2
  <2>3. CASE <<"resource", q>> # h
    BY <1>1, <1>2, <2>1, <2>3
  <2> QED
    BY <2>2, <2>3
<1>5. UNCHANGED step \/ \E h \in Handlers : Proceed(h)
  BY DEF Next, ServerNext, TakeSnapshot, Answer, serverVars, vars
<1> QED
  BY <1>1, <1>3, <1>4, <1>5 DEF Replaced

LEMMA AnswerKeepsContent ==
  ASSUME ServerInv, Answerable(snapshot), UNCHANGED <<serverVars, snapshot>>,
         script' = Operations(snapshot)
  PROVE  EntriesKeepContent'
<1> DEFINE ops == Operations(snapshot)
<1>1. ASSUME NEW r \in Resources, Entry(r) \in ToSet(snapshot.entries), ~ r.percent
      PROVE  \/ Replaced(r)
             \/ \E w \in ops : /\ w.op = "file" /\ w.file = RenderedFile(r)
                              /\ w.data = <<"resource", r>>
  <2>1. PICK i \in DOMAIN snapshot.entries : Entry(r) = snapshot.entries[i]
    BY <1>1 DEF ToSet
  <2>2. i \in EntriesOf(snapshot) /\ i \in 1..Len(snapshot.entries)
    BY <2>1, ListsAre
  <2>3. snapshot.entries[i].file = RenderedFile(r) /\ RenderedFile(r) \in DOMAIN files
    <3>1. snapshot.entries[i].file \in DOMAIN files
      BY <2>2 DEF Answerable, Complete
    <3> QED
      BY <2>1, <3>1 DEF Entry
  <2> DEFINE h == files[RenderedFile(r)]
  <2>4. h \in Handlers /\ step[h] \in Nat /\ step[h] <= Len(Steps(h))
    BY <2>3 DEF ServerInv, ServerType
  <2>5. PICK k \in 1..step[h] : Steps(h)[k] = Render(RenderedFile(r))
    BY <2>3 DEF ServerInv, Owned
  <2>6. k \in 1..Len(Steps(h)) /\ step[h] > 0
    BY <2>4, <2>5
  <2>7. PICK q \in Resources : h = <<"resource", q>> /\ RenderedFile(r) = RenderedFile(q)
    BY <2>4, <2>5, <2>6, RenderIs
       DEF ConfigFile, ExternalDefaults, ExternalFile, ServiceDefaults, ServiceFile,
           ServiceProxy, RenderedFile
  <2>8. q.dc = r.dc /\ q.file = r.file
    BY <2>7 DEF RenderedFile
  <2>9. CASE q # r
    BY <2>6, <2>7, <2>8, <2>9 DEF Replaced
  <2>10. CASE q = r
    <3>1. Printed(h) = <<"resource", r>>
      BY <1>1, <2>7, <2>10 DEF Printed
    <3>2. FileOfEntry(i, snapshot) \in ops
      BY <2>2, EntryFileIs, OperationIs
    <3>3. LET w == FileOfEntry(i, snapshot)
          IN w.op = "file" /\ w.file = RenderedFile(r) /\ w.data = Printed(h)
      BY <2>3, FileIs DEF FileOfEntry
    <3> QED
      BY <3>1, <3>2, <3>3
  <2> QED
    BY <2>9, <2>10
<1>2. script' = ops /\ snapshot' = snapshot
  OBVIOUS
<1>3. \A r \in Resources : Replaced(r)' <=> Replaced(r)
  BY DEF Replaced, serverVars
<1> HIDE DEF ops
<1> QED
  BY <1>1, <1>2, <1>3 DEF EntriesKeepContent, Writes

(* A config entry without a % is in a report with the content its resource *)
(* was given to Consul with, unless another resource of its datacenter     *)
(* with the same base name has been rendered as well.                      *)
THEOREM ContentIsKept == Spec => []EntriesKeepContent
<1>1. Init => EntriesKeepContent
  BY DEF Init, EntriesKeepContent, Written
<1>2. ReportInv /\ EntriesKeepContent /\ [Next]_vars => EntriesKeepContent'
  <2> SUFFICES ASSUME ReportInv, EntriesKeepContent, [Next]_vars PROVE EntriesKeepContent'
    OBVIOUS
  <2>1. CASE ~ Written'
    BY <2>1 DEF EntriesKeepContent
  <2>2. CASE UNCHANGED <<script, snapshot, status>>
    <3>1. \A r \in Resources : Replaced(r) => Replaced(r)'
      BY StepsGrow
    <3>2. \A name : Writes(name)' = Writes(name)
      BY <2>2 DEF Writes
    <3>3. Written' = Written /\ snapshot' = snapshot
      BY <2>2 DEF Written
    <3> QED
      BY <3>1, <3>2, <3>3 DEF EntriesKeepContent
  <2>3. CASE /\ script' = Operations(snapshot) /\ UNCHANGED <<serverVars, snapshot>>
             /\ Answerable(snapshot)
    BY <2>3, AnswerKeepsContent DEF ReportInv
  <2> QED
    BY <2>1, <2>2, <2>3, AnswerIs
<1> QED
  BY Invariant, <1>1, <1>2, PTL DEF Spec

-----------------------------------------------------------------------------
(* Longer lists give a script that does all that shorter ones give, as     *)
(* long as the contents of the files stay.                                 *)

OperationsAre ==
  \A lists, o :
    o \in Operations(lists) <=>
      \/ \E dc \in WithAgent(lists) : o \in {MakesFolder(dc), StartsAgent(dc), Waits(dc)}
      \/ Len(Datacenters) > 1 /\ \E dc \in WithAgent(lists) : o = Joins(dc, lists)
      \/ Len(Datacenters) > 1 /\ \E i \in OfClass("mesh", lists) : o = StartsMesh(i, lists)
      \/ \E i \in OfClass("external", lists) :
           o \in {DefaultsOf(i, lists, 1), RegistrationOf(i, lists, 1)}
      \/ \E i \in OfClass("proxy", lists) :
           o \in {DefaultsOf(i, lists, 3), RegistrationOf(i, lists, 3)}
      \/ \E i \in EntriesOf(lists) : o = FileOfEntry(i, lists)
      \/ \E i \in OfClass("external", lists) : o \in RunBoth(1, i, lists.services[i])
      \/ \E i \in OfClass("proxy", lists) : o \in RunBoth(2, i, Trimmed(lists.services[i]))
      \/ \E i \in OfClass("gateway", lists) : o = StartsGateway(i, lists)

LEMMA OperationsAreThose == OperationsAre
<1> SUFFICES ASSUME NEW lists, NEW o
             PROVE  o \in Operations(lists) <=>
      \/ \E dc \in WithAgent(lists) : o \in {MakesFolder(dc), StartsAgent(dc), Waits(dc)}
      \/ Len(Datacenters) > 1 /\ \E dc \in WithAgent(lists) : o = Joins(dc, lists)
      \/ Len(Datacenters) > 1 /\ \E i \in OfClass("mesh", lists) : o = StartsMesh(i, lists)
      \/ \E i \in OfClass("external", lists) :
           o \in {DefaultsOf(i, lists, 1), RegistrationOf(i, lists, 1)}
      \/ \E i \in OfClass("proxy", lists) :
           o \in {DefaultsOf(i, lists, 3), RegistrationOf(i, lists, 3)}
      \/ \E i \in EntriesOf(lists) : o = FileOfEntry(i, lists)
      \/ \E i \in OfClass("external", lists) : o \in RunBoth(1, i, lists.services[i])
      \/ \E i \in OfClass("proxy", lists) : o \in RunBoth(2, i, Trimmed(lists.services[i]))
      \/ \E i \in OfClass("gateway", lists) : o = StartsGateway(i, lists)
  BY DEF OperationsAre
<1>1. o \in AgentOperations(lists) <=>
        \E dc \in WithAgent(lists) : o \in {MakesFolder(dc), StartsAgent(dc), Waits(dc)}
  BY AgentOperationIs
<1>2. /\ o \in JoinOperations(lists) <=> \E dc \in WithAgent(lists) : o = Joins(dc, lists)
      /\ o \in MeshOperations(lists) <=>
           \E i \in OfClass("mesh", lists) : o = StartsMesh(i, lists)
  BY JoinOperationIs, MeshOperationIs
<1>3. /\ o \in ServiceFiles("external", lists, 1) <=>
           \E i \in OfClass("external", lists) :
             o \in {DefaultsOf(i, lists, 1), RegistrationOf(i, lists, 1)}
      /\ o \in ServiceFiles("proxy", lists, 3) <=>
           \E i \in OfClass("proxy", lists) :
             o \in {DefaultsOf(i, lists, 3), RegistrationOf(i, lists, 3)}
  BY ServiceFileIs
<1>4. o \in EntryFiles(lists) <=> \E i \in EntriesOf(lists) : o = FileOfEntry(i, lists)
  BY EntryFileIs
<1>5. o \in StartOperations(lists) <=>
        \/ \E i \in OfClass("external", lists) : o \in RunBoth(1, i, lists.services[i])
        \/ \E i \in OfClass("proxy", lists) : o \in RunBoth(2, i, Trimmed(lists.services[i]))
        \/ \E i \in OfClass("gateway", lists) : o = StartsGateway(i, lists)
  BY StartOperationIs
<1> QED
  BY <1>1, <1>2, <1>3, <1>4, <1>5, OperationIs

(* The same of the next state.                                             *)
LEMMA OperationsNext == OperationsAre'
<1>1. OperationsAre
  BY OperationsAreThose
<1> QED
  BY <1>1, PTL

Extends(lists, longer) ==
  /\ WithAgent(lists) \subseteq WithAgent(longer)
  /\ \A class : OfClass(class, lists) \subseteq OfClass(class, longer)
  /\ \A i \in DOMAIN lists.services : longer.services[i] = lists.services[i]
  /\ EntriesOf(lists) \subseteq EntriesOf(longer)
  /\ \A i \in DOMAIN lists.entries : longer.entries[i] = lists.entries[i]

LEMMA OperationsGrow ==
  ASSUME NEW lists, NEW longer, Extends(lists, longer),
         \A f \in FilesOf(lists) : files'[f] = files[f],
         NEW o \in Operations(lists)
  PROVE  \E p \in Operations(longer)' : Action(p) = Action(o)
<1>0. OperationsAre /\ OperationsAre'
  BY OperationsAreThose, OperationsNext
<1>1. ASSUME NEW at, NEW dc, NEW f \in FilesOf(lists)
      PROVE  RegisteredFile(at, dc, f)' = RegisteredFile(at, dc, f)
  BY DEF RegisteredFile
<1>2. CASE \E dc \in WithAgent(lists) : o \in {MakesFolder(dc), StartsAgent(dc), Waits(dc)}
  <2>1. PICK dc \in WithAgent(lists) : o \in {MakesFolder(dc), StartsAgent(dc), Waits(dc)}
    BY <1>2
  <2>2. dc \in WithAgent(longer) /\ ConfigFile(dc) \in FilesOf(lists)
    BY DEF Extends, FilesOf
  <2>3. StartsAgent(dc)' = StartsAgent(dc)
    BY <1>1, <2>2 DEF StartsAgent
  <2>4. o \in Operations(longer)'
    BY <1>0, <2>1, <2>2, <2>3 DEF OperationsAre
  <2> QED
    BY <2>4
<1>3. CASE Len(Datacenters) > 1 /\ \E dc \in WithAgent(lists) : o = Joins(dc, lists)
  <2>1. PICK dc \in WithAgent(lists) : o = Joins(dc, lists)
    BY <1>3
  <2>2. Joins(dc, longer) \in Operations(longer)'
    BY <1>0, <1>3 DEF OperationsAre, Extends
  <2>3. Action(Joins(dc, longer)) = Action(o)
    BY <2>1 DEF Action, Joins
  <2> QED
    BY <2>2, <2>3
<1>4. CASE Len(Datacenters) > 1 /\ \E i \in OfClass("mesh", lists) : o = StartsMesh(i, lists)
  <2>1. PICK i \in OfClass("mesh", lists) : o = StartsMesh(i, lists)
    BY <1>4
  <2>2. i \in OfClass("mesh", longer) /\ longer.services[i] = lists.services[i]
    BY DEF Extends, OfClass
  <2>3. o = StartsMesh(i, longer)
    BY <2>1, <2>2 DEF StartsMesh
  <2>4. o \in Operations(longer)'
    BY <1>0, <1>4, <2>2, <2>3 DEF OperationsAre
  <2> QED
    BY <2>4
<1>5. ASSUME NEW class \in {"external", "proxy"}, NEW i \in OfClass(class, lists), NEW group
      PROVE  /\ i \in OfClass(class, longer) /\ longer.services[i] = lists.services[i]
             /\ DefaultsOf(i, longer, group)' = DefaultsOf(i, lists, group)
             /\ RegistrationOf(i, longer, group)' = RegistrationOf(i, lists, group)
  <2>1. i \in OfClass(class, longer) /\ longer.services[i] = lists.services[i]
    BY DEF Extends, OfClass
  <2>2. lists.services[i].defaults \in FilesOf(lists)
        /\ lists.services[i].registration \in FilesOf(lists)
    BY DEF FilesOf
  <2> QED
    BY <1>1, <2>1, <2>2 DEF DefaultsOf, RegistrationOf
<1>6. CASE \E i \in OfClass("external", lists) :
             o \in {DefaultsOf(i, lists, 1), RegistrationOf(i, lists, 1)}
  <2>1. o \in Operations(longer)'
    BY <1>0, <1>5, <1>6 DEF OperationsAre
  <2> QED
    BY <2>1
<1>7. CASE \E i \in OfClass("proxy", lists) :
             o \in {DefaultsOf(i, lists, 3), RegistrationOf(i, lists, 3)}
  <2>1. o \in Operations(longer)'
    BY <1>0, <1>5, <1>7 DEF OperationsAre
  <2> QED
    BY <2>1
<1>8. CASE \E i \in EntriesOf(lists) : o = FileOfEntry(i, lists)
  <2>1. PICK i \in EntriesOf(lists) : o = FileOfEntry(i, lists)
    BY <1>8
  <2>2. i \in EntriesOf(longer) /\ longer.entries[i] = lists.entries[i]
    BY DEF Extends, EntriesOf
  <2>3. lists.entries[i].file \in FilesOf(lists)
    BY DEF FilesOf
  <2>4. o = FileOfEntry(i, longer)'
    BY <1>1, <2>1, <2>2, <2>3 DEF FileOfEntry
  <2>5. o \in Operations(longer)'
    BY <1>0, <2>2, <2>4 DEF OperationsAre
  <2> QED
    BY <2>5
<1>9. CASE \/ \E i \in OfClass("external", lists) : o \in RunBoth(1, i, lists.services[i])
           \/ \E i \in OfClass("proxy", lists) : o \in RunBoth(2, i, Trimmed(lists.services[i]))
  <2>1. o \in Operations(longer)'
    BY <1>0, <1>5, <1>9 DEF OperationsAre
  <2> QED
    BY <2>1
<1>10. CASE \E i \in OfClass("gateway", lists) : o = StartsGateway(i, lists)
  <2>1. PICK i \in OfClass("gateway", lists) : o = StartsGateway(i, lists)
    BY <1>10
  <2>2. i \in OfClass("gateway", longer) /\ longer.services[i] = lists.services[i]
    BY DEF Extends, OfClass
  <2>3. o = StartsGateway(i, longer)
    BY <2>1, <2>2 DEF StartsGateway
  <2>4. o \in Operations(longer)'
    BY <1>0, <2>2, <2>3 DEF OperationsAre
  <2> QED
    BY <2>4
<1> QED
  BY <1>0, <1>2, <1>3, <1>4, <1>6, <1>7, <1>8, <1>9, <1>10 DEF OperationsAre

LEMMA PrefixKeeps ==
  ASSUME NEW S, NEW s \in Seq(S), NEW t \in Seq(S), IsPrefix(s, t)
  PROVE  DOMAIN s \subseteq DOMAIN t /\ \A i \in DOMAIN s : t[i] = s[i]
<1>1. /\ DOMAIN s = 1..Len(s) /\ DOMAIN t = 1..Len(t)
      /\ Len(s) \in Nat /\ Len(t) \in Nat
  OBVIOUS
<1> QED
  BY <1>1, PrefixIs

LEMMA PrefixesExtend ==
  ASSUME ReportInv
  PROVE  Extends(snapshot, Lists)
<1>0. /\ snapshot.consuls \in Seq(ConsulRecords) /\ snapshot.services \in Seq(ServiceRecords)
      /\ snapshot.entries \in Seq(EntryRecords)
      /\ consuls \in Seq(ConsulRecords) /\ services \in Seq(ServiceRecords)
      /\ entries \in Seq(EntryRecords)
  BY DEF ReportInv, Complete, ServerInv, ServerType
<1>1. /\ DOMAIN snapshot.consuls \subseteq DOMAIN consuls
      /\ \A i \in DOMAIN snapshot.consuls : consuls[i] = snapshot.consuls[i]
  BY <1>0, PrefixKeeps DEF ReportInv, Copied
<1>2. /\ DOMAIN snapshot.services \subseteq DOMAIN services
      /\ \A i \in DOMAIN snapshot.services : services[i] = snapshot.services[i]
  BY <1>0, PrefixKeeps DEF ReportInv, Copied
<1>3. /\ DOMAIN snapshot.entries \subseteq DOMAIN entries
      /\ \A i \in DOMAIN snapshot.entries : entries[i] = snapshot.entries[i]
  BY <1>0, PrefixKeeps DEF ReportInv, Copied
<1>4. Lists.consuls = consuls /\ Lists.services = services /\ Lists.entries = entries
  BY DEF Lists
<1>5. WithAgent(snapshot) \subseteq WithAgent(Lists)
  BY <1>1, <1>4 DEF WithAgent
<1>6. \A class : OfClass(class, snapshot) \subseteq OfClass(class, Lists)
  BY <1>2, <1>4 DEF OfClass
<1>7. EntriesOf(snapshot) \subseteq EntriesOf(Lists)
  BY <1>3, <1>4 DEF EntriesOf
<1> QED
  BY <1>2, <1>3, <1>4, <1>5, <1>6, <1>7 DEF Extends

LEMMA ExtendsItself ==
  ASSUME NEW lists
  PROVE  Extends(lists, lists)
  BY DEF Extends

(* What the last script does, one of the last snapshot would do too, if it *)
(* can be written.                                                         *)
Grown ==
  Unknown = {} =>
    \A o \in script : \E p \in Operations(snapshot) : Action(p) = Action(o)

LEMMA GrownStays ==
  ASSUME FilesApart, ReportInv, Grown, [Next]_vars
  PROVE  /\ Grown'
         /\ script' # script => Actions(script) \subseteq Actions(script')
<1>0. ServerInv /\ Complete(snapshot) /\ (Unknown = {} => FilesOf(snapshot) \subseteq DOMAIN files)
  BY Readable, KnownIs DEF ReportInv
<1>1. ASSUME UNCHANGED script, Extends(snapshot, snapshot'),
             \A f \in DOMAIN files : files'[f] = files[f], Unknown \subseteq Unknown'
      PROVE  Grown'
  <2> SUFFICES ASSUME Unknown = {}, NEW o \in script
               PROVE  \E q \in Operations(snapshot)' : Action(q) = Action(o)
    BY <1>1 DEF Grown
  <2>1. PICK p \in Operations(snapshot) : Action(p) = Action(o)
    BY DEF Grown
  <2>2. \E q \in Operations(snapshot)' : Action(q) = Action(p)
    BY <1>0, <1>1, OperationsGrow
  <2> QED
    BY <2>1, <2>2
<1>2. ASSUME NEW h \in Handlers, Proceed(h), UNCHANGED reportVars
      PROVE  UNCHANGED script /\ Grown'
  <2>1. UNCHANGED <<script, snapshot>> /\ Unknown' = Unknown
    BY <1>2 DEF reportVars, Unknown
  <2>2. \A f \in DOMAIN files : files'[f] = files[f]
    BY <1>0, <1>2, ContentStays
  <2> QED
    BY <1>1, <2>1, <2>2, ExtendsItself
<1>3. CASE TakeSnapshot
  <2>1. UNCHANGED <<script, files>> /\ snapshot' = Lists
    BY <1>3 DEF TakeSnapshot, Lists, serverVars
  <2>2. Unknown \subseteq Unknown'
    <3>1. /\ DOMAIN snapshot.services \subseteq DOMAIN services
          /\ \A i \in DOMAIN snapshot.services : services[i] = snapshot.services[i]
      <4>1. snapshot.services \in Seq(ServiceRecords) /\ services \in Seq(ServiceRecords)
        BY DEF ReportInv, Complete, ServerInv, ServerType
      <4> QED
        BY <4>1, PrefixKeeps DEF ReportInv, Copied
    <3>2. snapshot'.services = services
      BY <2>1 DEF Lists
    <3> QED
      BY <3>1, <3>2 DEF Unknown, ToSet
  <2> QED
    BY <1>1, <2>1, <2>2, PrefixesExtend
<1>4. CASE Answer
  <2>1. UNCHANGED <<files, snapshot>> /\ Unknown' = Unknown
    BY <1>4 DEF Answer, serverVars, Unknown
  <2>2. CASE UNCHANGED script
    BY <1>1, <2>1, <2>2, ExtendsItself
  <2>3. CASE script' = Operations(snapshot) /\ FilesOf(snapshot) \subseteq DOMAIN files
    <3>0. Unknown = {}
      BY <1>0, <2>3, Unreadable, KnownIs
    <3>1. ASSUME NEW o \in script' PROVE \E q \in Operations(snapshot)' : Action(q) = Action(o)
      BY <2>1, <2>3, <3>1, OperationsGrow, ExtendsItself
    <3>2. Grown'
      BY <3>1 DEF Grown
    <3>3. Actions(script) \subseteq Actions(script')
      BY <2>3, <3>0 DEF Grown, Actions
    <3> QED
      BY <3>2, <3>3
  <2> QED
    BY <1>4, <2>2, <2>3 DEF Answer
<1>5. CASE UNCHANGED vars
  <2>1. UNCHANGED <<script, snapshot, files>> /\ Unknown' = Unknown
    BY <1>5 DEF vars, serverVars, reportVars, Unknown
  <2> QED
    BY <1>1, <2>1, ExtendsItself
<1> QED
  BY <1>2, <1>3, <1>4, <1>5 DEF Next, ServerNext

(* A later report of the same run does all an earlier one did, in the same *)
(* places, when no two resource files of a datacenter have the same name.  *)
THEOREM LaterReportsGrow ==
  ASSUME FilesApart
  PROVE  Spec => ReportsGrow
<1>1. Init => Grown
  BY DEF Init, Grown
<1>2. ReportInv /\ Grown /\ [Next]_vars => Grown'
  BY GrownStays
<1>3. ReportInv /\ Grown /\ [Next]_vars
        => [script' # script => Actions(script) \subseteq Actions(script')]_vars
  BY GrownStays
<1> QED
  BY Invariant, <1>1, <1>2, <1>3, PTL DEF Spec, ReportsGrow

-----------------------------------------------------------------------------
(* The query commands: in a finite set with a strict order, as many        *)
(* elements precede an element as its place says.                          *)

Below(S, R, i) == {j \in S : <<j, i>> \in R}
Ranks(S, R) == [i \in S |-> Cardinality(Below(S, R, i))]
StrictOrder(S, R) ==
  /\ \A i \in S : <<i, i>> \notin R
  /\ \A i, j, k \in S : <<i, j>> \in R /\ <<j, k>> \in R => <<i, k>> \in R
  /\ \A i, j \in S : i = j \/ <<i, j>> \in R \/ <<j, i>> \in R

LEMMA RankIs ==
  ASSUME NEW S, IsFiniteSet(S), NEW R, StrictOrder(S, R)
  PROVE  LET rank == Ranks(S, R)
         IN /\ Cardinality(S) \in Nat
            /\ rank \in [S -> 0..(Cardinality(S) - 1)]
            /\ \A i, j \in S : <<i, j>> \in R <=> rank[i] < rank[j]
            /\ \A i, j \in S : rank[i] = rank[j] => i = j
            /\ \A k \in 0..(Cardinality(S) - 1) : \E i \in S : rank[i] = k
<1> DEFINE n == Cardinality(S)
           rank == Ranks(S, R)
<1>1. n \in Nat
  BY FS_CardinalityType
<1>2. ASSUME NEW i \in S
      PROVE  /\ IsFiniteSet(Below(S, R, i)) /\ Cardinality(Below(S, R, i)) \in 0..(n - 1)
             /\ rank[i] = Cardinality(Below(S, R, i))
  <2>1. Below(S, R, i) \in SUBSET S /\ i \notin Below(S, R, i)
    BY DEF Below, StrictOrder
  <2>2. /\ IsFiniteSet(Below(S, R, i)) /\ Cardinality(Below(S, R, i)) <= n
        /\ n # Cardinality(Below(S, R, i))
    BY <2>1, FS_Subset
  <2>3. Cardinality(Below(S, R, i)) \in Nat
    BY <2>2, FS_CardinalityType
  <2> QED
    BY <1>1, <2>2, <2>3 DEF Ranks
<1> HIDE DEF rank
<1>3. ASSUME NEW i \in S, NEW j \in S, <<i, j>> \in R PROVE rank[i] < rank[j]
  <2>1. Below(S, R, i) \in SUBSET Below(S, R, j)
    BY <1>3 DEF Below, StrictOrder
  <2>2. i \in Below(S, R, j) /\ i \notin Below(S, R, i)
    BY <1>3 DEF Below, StrictOrder
  <2>3. /\ Cardinality(Below(S, R, i)) <= Cardinality(Below(S, R, j))
        /\ Cardinality(Below(S, R, i)) # Cardinality(Below(S, R, j))
    BY <1>2, <2>1, <2>2, FS_Subset
  <2> QED
    BY <1>2, <2>3
<1>4. rank \in [S -> 0..(n - 1)]
  BY <1>2 DEF Ranks, rank
<1>5. \A i, j \in S : <<i, j>> \in R <=> rank[i] < rank[j]
  <2> SUFFICES ASSUME NEW i \in S, NEW j \in S, rank[i] < rank[j] PROVE <<i, j>> \in R
    BY <1>3
  <2>1. rank[i] \in Int /\ rank[j] \in Int
    BY <1>4
  <2>2. i # j /\ ~ (<<j, i>> \in R)
    BY <1>3, <2>1
  <2> QED
    BY <2>2 DEF StrictOrder
<1>6. \A i, j \in S : rank[i] = rank[j] => i = j
  <2> SUFFICES ASSUME NEW i \in S, NEW j \in S, rank[i] = rank[j] PROVE i = j
    OBVIOUS
  <2>1. rank[i] \in Int /\ rank[j] \in Int
    BY <1>4
  <2>2. ~ (<<i, j>> \in R) /\ ~ (<<j, i>> \in R)
    BY <1>3, <2>1
  <2> QED
    BY <2>2 DEF StrictOrder
<1>7. rank \in Injection(S, 0..(n - 1))
  BY <1>4, <1>6 DEF Injection, IsInjective
<1>8. IsFiniteSet(0..(n - 1)) /\ Cardinality(0..(n - 1)) = n
  BY <1>1, FS_Interval
<1>9. rank \in Surjection(S, 0..(n - 1))
  BY <1>7, <1>8, FS_Injection
<1>10. \A k \in 0..(n - 1) : \E i \in S : rank[i] = k
  BY <1>9 DEF Surjection
<1> HIDE DEF n, rank
<1> QED
  BY <1>1, <1>4, <1>5, <1>6, <1>10 DEF n, rank

LEMMA MinimalExists ==
  ASSUME NEW S, IsFiniteSet(S), S # {}, NEW R, StrictOrder(S, R)
  PROVE  \E i \in S : \A j \in S : <<j, i>> \notin R
<1> DEFINE rank == Ranks(S, R)
<1>1. /\ Cardinality(S) \in Nat /\ rank \in [S -> 0..(Cardinality(S) - 1)]
      /\ \A i, j \in S : <<i, j>> \in R <=> rank[i] < rank[j]
      /\ \A k \in 0..(Cardinality(S) - 1) : \E i \in S : rank[i] = k
  BY RankIs
<1> HIDE DEF rank
<1>2. Cardinality(S) # 0
  BY FS_EmptySet
<1>3. PICK i \in S : rank[i] = 0
  BY <1>1, <1>2
<1>4. \A j \in S : ~ (rank[j] < 0)
  BY <1>1
<1> QED
  BY <1>1, <1>3, <1>4

LEMMA LeastExists ==
  ASSUME NEW n \in Nat, NEW S, S \subseteq 1..n, S # {}
  PROVE  \E i \in S : \A j \in S : i <= j
<1> DEFINE R == {p \in S \X S : p[1] < p[2]}
<1>1. IsFiniteSet(S)
  <2>1. IsFiniteSet(1..n)
    BY FS_Interval
  <2> QED
    BY <2>1, FS_Subset
<1>2. StrictOrder(S, R)
  BY DEF StrictOrder
<1>3. \A i, j \in S : i < j => <<i, j>> \in R
  OBVIOUS
<1> HIDE DEF R
<1>4. PICK i \in S : \A j \in S : <<j, i>> \notin R
  BY <1>1, <1>2, MinimalExists
<1>5. \A j \in S : ~ (j < i)
  BY <1>3, <1>4
<1> QED
  BY <1>5

LEMMA FirstIs ==
  ASSUME NEW S, S \subseteq Nat, NEW i \in S, \A j \in S : i <= j
  PROVE  First(S) = i
<1>1. First(S) \in S /\ \A j \in S : First(S) <= j
  BY DEF First
<1>2. First(S) <= i /\ i <= First(S) /\ First(S) \in Nat /\ i \in Nat
  BY <1>1
<1> QED
  BY <1>2

(* The kinds that list and get are asked for.                              *)
AllKinds == {KindOrder[i] : i \in DOMAIN KindOrder}

LEMMA KindRankIs ==
  ASSUME NEW kind \in AllKinds
  PROVE  KindRank(kind) \in Int
<1>1. \E i \in DOMAIN KindOrder : KindOrder[i] = kind
  BY DEF AllKinds
<1>2. KindRank(kind) \in DOMAIN KindOrder
  BY <1>1 DEF KindRank
<1> QED
  BY <1>2 DEF KindOrder

Chosen(kind) == {i \in DOMAIN services : services[i].kind = kind}
Order(kind) == {p \in Chosen(kind) \X Chosen(kind) : Precedes(p[1], p[2])}
RankOf(kind) == Ranks(Chosen(kind), Order(kind))

LEMMA ChosenIs ==
  ASSUME services \in Seq(ServiceRecords), NEW kind \in AllKinds
  PROVE  /\ IsFiniteSet(Chosen(kind)) /\ StrictOrder(Chosen(kind), Order(kind))
         /\ \A i, j \in Chosen(kind) :
              <<i, j>> \in Order(kind) <=>
                \/ services[i].name < services[j].name
                \/ services[i].name = services[j].name /\ i < j
<1> DEFINE S == Chosen(kind)
<1>1. S \subseteq 1..Len(services) /\ Len(services) \in Nat
  BY DEF Chosen
<1>2. IsFiniteSet(S)
  <2>1. IsFiniteSet(1..Len(services))
    BY <1>1, FS_Interval
  <2> HIDE DEF S
  <2> QED
    BY <1>1, <2>1, FS_Subset
<1>3. \A i \in S : services[i].kind = kind /\ services[i].name \in Nat /\ i \in Nat
  <2>1. \A i \in S : services[i] \in ServiceRecords
    BY <1>1
  <2> QED
    BY <1>1, <2>1 DEF Chosen, ServiceRecords
<1>4. \A i, j \in S :
        Precedes(i, j) <=> \/ services[i].name < services[j].name
                           \/ services[i].name = services[j].name /\ i < j
  BY <1>3, KindRankIs DEF Precedes
<1>5. \A i, j \in S : <<i, j>> \in Order(kind) <=> Precedes(i, j)
  BY DEF Order
<1> HIDE DEF S
<1>6. StrictOrder(S, Order(kind))
  BY <1>3, <1>4, <1>5 DEF StrictOrder
<1> QED
  BY <1>2, <1>4, <1>5, <1>6 DEF S

(* What list shows of one kind: the chosen ones, at their places.          *)
Place(kind, k) == CHOOSE i \in Chosen(kind) : RankOf(kind)[i] = k - 1
LEMMA ShownIs ==
  ASSUME services \in Seq(ServiceRecords), NEW kind \in AllKinds
  PROVE  LET n == Cardinality(Chosen(kind))
         IN /\ n \in Nat
            /\ ListServices({kind}) = [k \in 1..n |-> services[Place(kind, k)]]
            /\ \A k \in 1..n : Place(kind, k) \in Chosen(kind)
            /\ \A j \in Chosen(kind) : \E k \in 1..n : Place(kind, k) = j
            /\ \A k, m \in 1..n :
                 <<Place(kind, m), Place(kind, k)>> \in Order(kind) => m < k
<1> DEFINE S == Chosen(kind)
           n == Cardinality(S)
           rank == RankOf(kind)
<1>1. /\ n \in Nat /\ rank \in [S -> 0..(n - 1)]
      /\ \A i, j \in S : <<i, j>> \in Order(kind) <=> rank[i] < rank[j]
      /\ \A i, j \in S : rank[i] = rank[j] => i = j
      /\ \A k \in 0..(n - 1) : \E i \in S : rank[i] = k
  BY ChosenIs, RankIs DEF RankOf
<1>2. ASSUME NEW k \in 1..n PROVE Place(kind, k) \in S /\ rank[Place(kind, k)] = k - 1
  <2>1. \E i \in S : rank[i] = k - 1
    BY <1>1
  <2> QED
    BY <2>1 DEF Place
<1>3. ASSUME NEW j \in S PROVE \E k \in 1..n : Place(kind, k) = j
  <2>1. rank[j] + 1 \in 1..n
    BY <1>1
  <2>2. Place(kind, rank[j] + 1) \in S /\ rank[Place(kind, rank[j] + 1)] = rank[j]
    BY <1>1, <1>2, <2>1
  <2>3. Place(kind, rank[j] + 1) = j
    BY <1>1, <2>2
  <2> QED
    BY <2>1, <2>3
<1>4. ASSUME NEW k \in 1..n, NEW m \in 1..n, <<Place(kind, m), Place(kind, k)>> \in Order(kind)
      PROVE  m < k
  <2>1. rank[Place(kind, m)] < rank[Place(kind, k)]
    BY <1>1, <1>2, <1>4
  <2> QED
    BY <1>2, <2>1
<1>5. ListServices({kind}) = [k \in 1..n |-> services[Place(kind, k)]]
  <2> DEFINE chosen == {i \in DOMAIN services : {kind} = {} \/ services[i].kind \in {kind}}
             Rank(i) == Cardinality({j \in chosen : Precedes(j, i)})
  <2>1. chosen = S
    BY DEF Chosen
  <2>2. ASSUME NEW i \in S PROVE Rank(i) = rank[i]
    <3>1. {j \in chosen : Precedes(j, i)} = Below(S, Order(kind), i)
      BY <2>1 DEF Below, Order
    <3> QED
      BY <3>1 DEF RankOf, Ranks
  <2>3. ASSUME NEW k \in 1..n
        PROVE  (CHOOSE i \in chosen : Rank(i) = k - 1) = Place(kind, k)
    <3> DEFINE c == CHOOSE i \in chosen : Rank(i) = k - 1
    <3>1. Place(kind, k) \in chosen /\ Rank(Place(kind, k)) = k - 1
      BY <1>2, <2>1, <2>2
    <3>2. c \in chosen /\ Rank(c) = k - 1
      BY <3>1
    <3>3. c \in S /\ rank[c] = k - 1
      BY <2>1, <2>2, <3>2
    <3> QED
      BY <1>1, <1>2, <3>3
  <2>4. ListServices({kind})
          = [k \in 1..Cardinality(chosen) |-> services[CHOOSE i \in chosen : Rank(i) = k - 1]]
    BY DEF ListServices
  <2> HIDE DEF chosen, Rank
  <2> QED
    BY <2>1, <2>3, <2>4
<1> HIDE DEF n, S, rank
<1> QED
  BY <1>1, <1>2, <1>3, <1>4, <1>5 DEF n, S

LEMMA ListAndGet ==
  ASSUME services \in Seq(ServiceRecords)
  PROVE  ListAgreesWithGet
<1> SUFFICES ASSUME NEW kind \in AllKinds
             PROVE  LET shown == ListServices({kind})
                    IN /\ \A i \in DOMAIN shown :
                            GetService(kind, shown[i].name) =
                              <<shown[CHOOSE k \in 1..i :
                                        /\ shown[k].name = shown[i].name
                                        /\ \A m \in 1..(k - 1) : shown[m].name # shown[i].name]>>
                       /\ \A s \in ToSet(services) : s.kind = kind => s \in ToSet(shown)
  BY DEF ListAgreesWithGet, AllKinds
<1> DEFINE shown == ListServices({kind})
           n == Cardinality(Chosen(kind))
<1>1. /\ n \in Nat /\ DOMAIN shown = 1..n
      /\ \A k \in 1..n : shown[k] = services[Place(kind, k)]
      /\ \A k \in 1..n : Place(kind, k) \in Chosen(kind)
      /\ \A j \in Chosen(kind) : \E k \in 1..n : Place(kind, k) = j
      /\ \A k, m \in 1..n : <<Place(kind, m), Place(kind, k)>> \in Order(kind) => m < k
  BY ShownIs
<1> HIDE DEF shown, n
<1>2. ASSUME NEW s \in ToSet(services), s.kind = kind PROVE s \in ToSet(shown)
  <2>1. PICK i \in DOMAIN services : s = services[i]
    BY DEF ToSet
  <2>2. i \in Chosen(kind)
    BY <1>2, <2>1 DEF Chosen
  <2>3. PICK k \in 1..n : Place(kind, k) = i
    BY <1>1, <2>2
  <2> QED
    BY <1>1, <2>1, <2>3 DEF ToSet
<1>3. ASSUME NEW i \in 1..n
      PROVE  GetService(kind, shown[i].name) =
               <<shown[CHOOSE k \in 1..i :
                         /\ shown[k].name = shown[i].name
                         /\ \A m \in 1..(k - 1) : shown[m].name # shown[i].name]>>
  <2> DEFINE name == shown[i].name
             IsFirst(k) == /\ shown[k].name = name
                           /\ \A m \in 1..(k - 1) : shown[m].name # name
             found == {j \in DOMAIN services : services[j].kind = kind /\ services[j].name = name}
             same == {k \in 1..i : shown[k].name = name}
             first == CHOOSE k \in 1..i : IsFirst(k)
  <2>1. \E k \in 1..i : IsFirst(k)
    <3>1. same \subseteq 1..i /\ i \in Nat /\ i \in same
      BY <1>1
    <3>2. PICK k \in same : \A m \in same : k <= m
      BY <3>1, LeastExists
    <3>3. \A m \in 1..(k - 1) : m \in 1..i /\ ~ (k <= m)
      BY <3>1, <3>2
    <3> QED
      BY <3>2, <3>3
  <2>2. first \in 1..i /\ IsFirst(first)
    BY <2>1
  <2> HIDE DEF first
  <2>3. first \in 1..n /\ Place(kind, first) \in Chosen(kind)
        /\ shown[first] = services[Place(kind, first)]
    BY <1>1, <2>2
  <2>4. Place(kind, first) \in found
    BY <2>2, <2>3 DEF Chosen
  <2>5. found \subseteq Chosen(kind) /\ found \subseteq Nat
    BY DEF Chosen
  <2>6. ASSUME NEW j \in found PROVE Place(kind, first) <= j
    <3> SUFFICES ASSUME j < Place(kind, first) PROVE FALSE
      BY <2>4, <2>5
    <3>1. services[j].name = services[Place(kind, first)].name /\ j \in Chosen(kind)
      BY <2>4, <2>5
    <3>2. <<j, Place(kind, first)>> \in Order(kind)
      BY <2>3, <3>1, ChosenIs
    <3>3. PICK m \in 1..n : Place(kind, m) = j
      BY <1>1, <3>1
    <3>4. m < first
      BY <1>1, <2>3, <3>2, <3>3
    <3>5. m \in 1..(first - 1) /\ shown[m].name = name
      BY <1>1, <2>2, <3>3, <3>4
    <3> QED
      BY <2>2, <3>5
  <2>7. First(found) = Place(kind, first)
    BY <2>4, <2>5, <2>6, FirstIs
  <2>8. GetService(kind, name) = <<services[First(found)]>>
    BY <2>4 DEF GetService
  <2>9. GetService(kind, name) = <<shown[first]>>
    BY <2>3, <2>7, <2>8
  <2> QED
    BY <2>9 DEF first
<1> QED
  BY <1>1, <1>2, <1>3 DEF shown

(* The get and list commands agree in every state.                         *)
THEOREM ListAndGetAgree == Spec => []ListAgreesWithGet
<1>1. ReportInv => ListAgreesWithGet
  BY ListAndGet DEF ReportInv, ServerInv, ServerType
<1> QED
  BY Invariant, <1>1, PTL

=============================================================================
