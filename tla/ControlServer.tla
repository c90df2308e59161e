---------------------------- MODULE ControlServer ----------------------------
(***************************************************************************)
(* What the control server of consul-services knows: the lists the         *)
(* handlers of a run append to, the files they have rendered before that,  *)
(* and the answers the query commands get from them.                       *)
(*                                                                         *)
(* A name is its rank in the alphabetical order.  The name with "-proxy"   *)
(* appended follows it directly, so names without that suffix are even.    *)
(***************************************************************************)
EXTENDS Integers, Sequences, FiniteSets, SequencesExt

CONSTANTS Datacenters, \* the datacenters, in the order they are configured
          RunConsul,   \* whether the runner starts the agents
          Externals,   \* external services, as records [dc, name]
          Services,    \* mesh services, as records [dc, name]
          Resources    \* files of the resource folder, as records
                       \* [dc, file, kind, name, percent] with the base name
                       \* of the file and whether its content has a %

DCs == ToSet(Datacenters)
EntryKinds == {"service-resolver"}
(* The kinds of a resource that is run as a gateway.                       *)
KnownGateways == {"api-gateway", "ingress-gateway", "terminating-gateway", "mesh-gateway"}

ASSUME DatacentersAssumption ==
  Datacenters \in Seq(DCs) /\ Len(Datacenters) >= 1 /\ IsInjective(Datacenters)
ASSUME NamesAssumption ==
  /\ RunConsul \in BOOLEAN
  /\ Externals \cup Services \subseteq [dc : DCs, name : Nat]
  /\ \A s \in Externals \cup Services : s.name % 2 = 0
  /\ \A r \in Resources : r.dc \in DCs /\ r.name \in Nat
                            /\ r.kind \in EntryKinds \cup KnownGateways
                            /\ r.percent \in BOOLEAN

VARIABLES step,     \* how many steps every handler has made
          files,    \* the rendered files, with the handler that wrote each
          consuls,  \* the lists of the control server
          services,
          entries

serverVars == <<step, files, consuls, services, entries>>

-----------------------------------------------------------------------------
(* The handlers of a run, and what each renders and registers, in order.   *)

(* Mutated form: the agents are run without --run, too.                    *)
AgentsAlways == {"agent"} \X DCs
Agents == IF RunConsul THEN {"agent"} \X DCs ELSE {}
Meshes == {"mesh"} \X DCs
Handlers == Agents \cup Meshes \cup ({"external"} \X Externals)
              \cup ({"service"} \X Services) \cup ({"resource"} \X Resources)

(* The name of a file, below the base folder; <<>> stands for "".          *)
ConfigFile(dc) == <<dc, "consul", 0>>
ExternalFile(s) == <<s.dc, "external-service", s.name>>
ExternalDefaults(s) == <<s.dc, "external-service-defaults", s.name>>
ServiceFile(s) == <<s.dc, "service", s.name>>
ServiceDefaults(s) == <<s.dc, "service-defaults", s.name>>
ServiceProxy(s) == <<s.dc, "service-proxy", s.name>>
(* Mutated form: the folder of the datacenter is left out.                 *)
RenderedFileOfNoDatacenter(r) == <<"", "entries", r.file>>
RenderedFile(r) == <<r.dc, "entries", r.file>>

Service(dc, kind, name, defaults, registration, proxy) ==
  [dc |-> dc, kind |-> kind, name |-> name,
   defaults |-> defaults, registration |-> registration, proxy |-> proxy]
WithoutFiles(dc, kind, name) == Service(dc, kind, name, <<>>, <<>>, <<>>)

Render(f) == [do |-> "render", what |-> f]
Add(list, x) == [do |-> list, what |-> x]

AgentSteps(dc) == <<Render(ConfigFile(dc)), Add("consuls", [dc |-> dc])>>
Position(dc) == CHOOSE i \in DOMAIN Datacenters : Datacenters[i] = dc
MeshSteps(dc) == <<Add("services", WithoutFiles(dc, "mesh", 2 * Position(dc)))>>
ExternalSteps(s) ==
  <<Render(ExternalDefaults(s)), Render(ExternalFile(s)),
    Add("services", Service(s.dc, "external", s.name,
                            ExternalDefaults(s), ExternalFile(s), <<>>))>>
(* Mutated form: the proxy's template is rendered after the listing.       *)
ServiceStepsProxyLate(s) ==
  <<Render(ServiceDefaults(s)), Render(ServiceFile(s)),
    Add("services", WithoutFiles(s.dc, "service", s.name)),
    Add("services", Service(s.dc, "connect-proxy", s.name + 1,
                            ServiceDefaults(s), ServiceFile(s), ServiceProxy(s))),
    Render(ServiceProxy(s))>>
ServiceSteps(s) ==
  <<Render(ServiceDefaults(s)), Render(ServiceFile(s)), Render(ServiceProxy(s)),
    Add("services", WithoutFiles(s.dc, "service", s.name)),
    Add("services", Service(s.dc, "connect-proxy", s.name + 1,
                            ServiceDefaults(s), ServiceFile(s), ServiceProxy(s)))>>
Entry(r) == [dc |-> r.dc, kind |-> r.kind, name |-> r.name, file |-> RenderedFile(r)]
(* Mutated form: a gateway is listed before its entry.                     *)
ResourceStepsGatewayFirst(r) ==
  (IF r.kind \in KnownGateways THEN <<Add("services", WithoutFiles(r.dc, r.kind, r.name))>>
                              ELSE <<>>)
    \o <<Render(RenderedFile(r)), Add("entries", Entry(r))>>
ResourceSteps(r) ==
  <<Render(RenderedFile(r)), Add("entries", Entry(r))>>
    \o IF r.kind \in KnownGateways THEN <<Add("services", WithoutFiles(r.dc, r.kind, r.name))>>
                                  ELSE <<>>

Steps(h) ==
  CASE h[1] = "agent" -> AgentSteps(h[2])
    [] h[1] = "mesh" -> MeshSteps(h[2])
    [] h[1] = "external" -> ExternalSteps(h[2])
    [] h[1] = "service" -> ServiceSteps(h[2])
    [] h[1] = "resource" -> ResourceSteps(h[2])

-----------------------------------------------------------------------------
(* Agents are launched one by one, each when the one before is ready, and  *)
(* everything else after them.  Beyond that the order is Runner's; here    *)
(* any handler may be ahead of any other.                                  *)
(* Mutated form: the agents are launched at once.                          *)
LaunchedTogether(h) ==
  RunConsul => h[1] = "agent" \/ Len(consuls) >= Len(Datacenters)
Launched(h) ==
  RunConsul =>
    Len(consuls) >= IF h[1] = "agent" THEN Position(h[2]) - 1 ELSE Len(Datacenters)

ServerInit ==
  /\ step = [h \in Handlers |-> 0]
  /\ files = [f \in {} |-> <<>>]
  /\ consuls = <<>> /\ services = <<>> /\ entries = <<>>

(* vfs.WriteFile: the file is replaced, whoever wrote it.                  *)
WriteFile(f, h) ==
  files' = [g \in DOMAIN files \cup {f} |-> IF g = f THEN h ELSE files[g]]

(* The next step of handler h: a file is written to the cache, or one of   *)
(* AddConsul, Register and AddEntry appends to its list under the mutex.   *)
Proceed(h) ==
  /\ Launched(h)
  /\ step[h] < Len(Steps(h))
  /\ step' = [step EXCEPT ![h] = @ + 1]
  /\ LET s == Steps(h)[step[h] + 1]
     IN \/ /\ s.do = "render" /\ WriteFile(s.what, h)
           /\ UNCHANGED <<consuls, services, entries>>
        \/ /\ s.do = "consuls" /\ consuls' = Append(consuls, s.what)
           /\ UNCHANGED <<files, services, entries>>
        \/ /\ s.do = "services" /\ services' = Append(services, s.what)
           /\ UNCHANGED <<files, consuls, entries>>
        \/ /\ s.do = "entries" /\ entries' = Append(entries, s.what)
           /\ UNCHANGED <<files, consuls, services>>

ServerNext == \E h \in Handlers : Proceed(h)

-----------------------------------------------------------------------------
(* The query commands.                                                     *)

(* getService: the first service of that kind and name, if there is one.   *)
First(S) == CHOOSE i \in S : \A j \in S : i <= j
GetService(kind, name) ==
  LET found == {i \in DOMAIN services : services[i].kind = kind /\ services[i].name = name}
  IN IF found = {} THEN <<>> ELSE <<services[First(found)]>>

(* listServices: those of the given kinds, sorted stably by kind and name, *)
(* so each comes after as many as precede it.                              *)
KindOrder == <<"api-gateway", "connect-proxy", "external", "ingress-gateway",
               "mesh", "mesh-gateway", "service", "terminating-gateway">>
KindRank(k) == CHOOSE i \in DOMAIN KindOrder : KindOrder[i] = k
(* Mutated form: of services with equal names the latest comes first.      *)
PrecedesUnstable(i, j) ==
  LET a == services[i]
      b == services[j]
  IN \/ KindRank(a.kind) < KindRank(b.kind)
     \/ a.kind = b.kind /\ a.name < b.name
     \/ a.kind = b.kind /\ a.name = b.name /\ i > j
Precedes(i, j) ==
  LET a == services[i]
      b == services[j]
  IN \/ KindRank(a.kind) < KindRank(b.kind)
     \/ a.kind = b.kind /\ a.name < b.name
     \/ a.kind = b.kind /\ a.name = b.name /\ i < j
ListServices(kinds) ==
  LET chosen == {i \in DOMAIN services : kinds = {} \/ services[i].kind \in kinds}
      Rank(i) == Cardinality({j \in chosen : Precedes(j, i)})
  IN [k \in 1..Cardinality(chosen) |->
        services[CHOOSE i \in chosen : Rank(i) = k - 1]]

(* The commands admin, check, get and logs define their --kind flag on one *)
(* variable, each with a default of its own; package initialisation leaves *)
(* the one defined last.                                                   *)
FlagDefaults == <<"service", "service", "service", "connect-proxy">>
DefaultKind == Last(FlagDefaults)

(* The check command asks for the proxy of the service it is given.        *)
(* Mutated form: the name is taken as it is given.                         *)
ProxyNameAsGiven(name) == name
ProxyName(name) == IF name % 2 = 0 THEN name + 1 ELSE name

=============================================================================
