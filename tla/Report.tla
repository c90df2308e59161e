------------------------------- MODULE Report -------------------------------
(***************************************************************************)
(* The report command: the control server copies its lists under the       *)
(* mutex, groups them by datacenter and kind, and turns them into the      *)
(* operations of a script that is to bring up the same mesh again.  The    *)
(* handlers of the run go on meanwhile, and file contents are read from    *)
(* the cache only after the mutex was released.                            *)
(***************************************************************************)
EXTENDS ControlServer

CONSTANT MaxReports \* bound on the number of reports asked for

ASSUME MaxReportsAssumption == MaxReports \in Nat

VARIABLES snapshot, \* the lists copied for the last report
          script,   \* the last script that was written
          status,   \* the state of the last request
          reports   \* how many were asked for

reportVars == <<snapshot, script, status, reports>>
vars == <<serverVars, reportVars>>

-----------------------------------------------------------------------------
(* Server.snapshot: what the lists hold of the datacenters, by kind, each  *)
(* group in the order of its list; a service is known by its place there.  *)

(* Its table of gateways lacks the kind mesh-gateway: such a resource, run *)
(* and listed as a gateway, is taken for the proxy of a service.           *)
GatewayKinds == {"api-gateway", "ingress-gateway", "terminating-gateway"}
Class(s) == CASE s.kind \in {"service", "external", "mesh"} -> s.kind
              [] s.kind \in GatewayKinds -> "gateway"
              [] OTHER -> "proxy"

WithAgent(lists) == {dc \in DCs : \E i \in DOMAIN lists.consuls : lists.consuls[i].dc = dc}
OfClass(class, lists) ==
  {i \in DOMAIN lists.services :
     lists.services[i].dc \in DCs /\ Class(lists.services[i]) = class}
EntriesOf(lists) == {i \in DOMAIN lists.entries : lists.entries[i].dc \in DCs}

-----------------------------------------------------------------------------
(* Snapshot.Operations: the operations of the script, each with its place  *)
(* in the nested loops that append them: the block, the datacenter, the    *)
(* group, the element of the list, and which of its operations it is.  The *)
(* script runs them in the order of their places.  The names of agents and *)
(* their WAN addresses are those of their datacenters.                     *)

At(block, dc, group, i, k) == <<block, Position(dc), group, i, k>>
Before(o, p) ==
  \E k \in 1..5 : o.at[k] < p.at[k] /\ \A j \in 1..(k - 1) : o.at[j] = p.at[j]

(* The whole script, contents and all, is the format string of an Fprintf  *)
(* without arguments: it changes every content that has a %.               *)
Printed(h) == IF h[1] = "resource" /\ h[2].percent THEN <<"changed", h[2]>> ELSE h

(* A file is written with the content the cache has for it, as printed,    *)
(* and then given to Consul.                                               *)
RegisteredFile(at, dc, name) ==
  [op |-> "file", at |-> at, dc |-> dc, file |-> name, data |-> Printed(files[name])]
Run(op, at, s) == [op |-> op, at |-> at, dc |-> s.dc, kind |-> s.kind, name |-> s.name]

(* Mutated form: the folders are not created.                              *)
AgentOperationsWithoutFolder(lists) ==
  UNION {{RegisteredFile(At(1, dc, 1, 1, 2), dc, ConfigFile(dc)),
          [op |-> "wait", at |-> At(1, dc, 1, 1, 3), dc |-> dc]}
         : dc \in WithAgent(lists)}
AgentOperations(lists) ==
  UNION {{[op |-> "mkdir", at |-> At(1, dc, 1, 1, 1), dc |-> dc],
          RegisteredFile(At(1, dc, 1, 1, 2), dc, ConfigFile(dc)),
          [op |-> "wait", at |-> At(1, dc, 1, 1, 3), dc |-> dc]}
         : dc \in WithAgent(lists)}

(* The agents join from the last datacenter to the first, each with the    *)
(* addresses of all the others.                                            *)
JoinOperations(lists) ==
  {[op |-> "join", at |-> <<2, Len(Datacenters) - Position(dc), 1, 1, 1>>,
    dc |-> dc, wans |-> WithAgent(lists) \ {dc}] : dc \in WithAgent(lists)}
MeshOperations(lists) ==
  {LET s == lists.services[i] IN Run("gateway", At(3, s.dc, 1, i, 1), s)
   : i \in OfClass("mesh", lists)}

(* The files of a class of services: all defaults and then all             *)
(* registrations; the proxies collected by fileSetsForServices are not     *)
(* among what it returns.                                                  *)
ServiceFiles(class, lists, group) ==
  UNION {LET s == lists.services[i]
         IN {RegisteredFile(At(4, s.dc, group, i, 1), s.dc, s.defaults),
             RegisteredFile(At(4, s.dc, group + 1, i, 1), s.dc, s.registration)}
         : i \in OfClass(class, lists)}
EntryFiles(lists) ==
  {LET e == lists.entries[i] IN RegisteredFile(At(4, e.dc, 5, i, 1), e.dc, e.file)
   : i \in EntriesOf(lists)}

(* The name of a sidecar's service.                                        *)
Trimmed(s) == [s EXCEPT !.name = s.name - (s.name % 2)]
RunBoth(group, i, s) ==
  {Run("service", At(5, s.dc, group, i, 1), s), Run("sidecar", At(5, s.dc, group, i, 2), s)}
(* Mutated form: the suffix of the sidecar's name stays.                   *)
StartOperationsUntrimmed(lists) ==
  (UNION {RunBoth(1, i, lists.services[i]) : i \in OfClass("external", lists)})
    \cup (UNION {RunBoth(2, i, lists.services[i]) : i \in OfClass("proxy", lists)})
    \cup {LET s == lists.services[i] IN Run("gateway", At(5, s.dc, 3, i, 1), s)
          : i \in OfClass("gateway", lists)}
StartOperations(lists) ==
  (UNION {RunBoth(1, i, lists.services[i]) : i \in OfClass("external", lists)})
    \cup (UNION {RunBoth(2, i, Trimmed(lists.services[i])) : i \in OfClass("proxy", lists)})
    \cup {LET s == lists.services[i] IN Run("gateway", At(5, s.dc, 3, i, 1), s)
          : i \in OfClass("gateway", lists)}

Operations(lists) ==
  AgentOperations(lists)
    \cup (IF Len(Datacenters) > 1 THEN JoinOperations(lists) \cup MeshOperations(lists)
                                  ELSE {})
    \cup ServiceFiles("external", lists, 1) \cup ServiceFiles("proxy", lists, 3)
    \cup EntryFiles(lists)
    \cup StartOperations(lists)

(* The files Operations reads; a sidecar's proxy file too.                 *)
FilesOf(lists) ==
  {ConfigFile(dc) : dc \in WithAgent(lists)}
    \cup (UNION {{lists.services[i].defaults, lists.services[i].registration}
                 : i \in OfClass("external", lists) \cup OfClass("proxy", lists)})
    \cup {lists.services[i].proxy : i \in OfClass("proxy", lists)}
    \cup {lists.entries[i].file : i \in EntriesOf(lists)}

-----------------------------------------------------------------------------
NoLists == [consuls |-> <<>>, services |-> <<>>, entries |-> <<>>]

Init ==
  /\ ServerInit
  /\ snapshot = NoLists /\ script = {} /\ status = "none" /\ reports = 0

(* A request for a report copies the lists while it holds the mutex.       *)
(* Mutated form: it takes the services and entries away.                   *)
TakeSnapshotAway ==
  /\ status # "taken" /\ reports < MaxReports
  /\ snapshot' = [consuls |-> consuls, services |-> services, entries |-> entries]
  /\ services' = <<>> /\ entries' = <<>>
  /\ status' = "taken"
  /\ reports' = reports + 1
  /\ UNCHANGED <<step, files, consuls, script>>
TakeSnapshot ==
  /\ status # "taken" /\ reports < MaxReports
  /\ snapshot' = [consuls |-> consuls, services |-> services, entries |-> entries]
  /\ status' = "taken"
  /\ reports' = reports + 1
  /\ UNCHANGED <<serverVars, script>>

(* It is answered with the script, or with an internal error when a file   *)
(* cannot be read.                                                         *)
Answer ==
  /\ status = "taken"
  /\ IF FilesOf(snapshot) \subseteq DOMAIN files
       THEN status' = "written" /\ script' = Operations(snapshot)
       ELSE status' = "error" /\ UNCHANGED script
  /\ UNCHANGED <<serverVars, snapshot, reports>>

Next == (ServerNext /\ UNCHANGED reportVars) \/ TakeSnapshot \/ Answer

Spec == Init /\ [][Next]_vars

-----------------------------------------------------------------------------
(* Type invariant: the lists hold what the handlers add, the agents in the *)
(* order of the datacenters, and a script is only there once written.      *)
Written == status = "written"
TypeOK ==
  /\ step \in [Handlers -> Nat] /\ \A h \in Handlers : step[h] <= Len(Steps(h))
  /\ files \in [DOMAIN files -> Handlers]
  /\ Len(consuls) <= Len(Datacenters)
  /\ \A i \in DOMAIN consuls : consuls[i].dc = Datacenters[i]
  /\ \A i \in DOMAIN services : services[i].dc \in DCs
  /\ \A i \in DOMAIN entries : entries[i].dc \in DCs
  /\ IsPrefix(snapshot.consuls, consuls) /\ IsPrefix(snapshot.services, services)
  /\ IsPrefix(snapshot.entries, entries)
  /\ status \in {"none", "taken", "written", "error"}
  /\ reports \in 0..MaxReports
  /\ reports = 0 => script = {}

(* Whenever a report is asked for, in the middle of a bring-up too, every  *)
(* file it needs is in the cache.  The request ends in an internal error   *)
(* exactly when a resource of kind mesh-gateway (gateway.go:15) is listed, *)
(* which server.go:272 takes for the proxy of a service, without files.    *)
Unknown == {s \in ToSet(snapshot.services) : s.kind = "mesh-gateway"}
ReportSucceeds ==
  /\ status = "written" => Unknown = {}
  /\ status = "error" => Unknown # {}

(* The operations of the script that write a file.                         *)
Writes(name) == {o \in script : o.op = "file" /\ o.file = name}
WrittenBefore(name, o) == \E w \in Writes(name) : Before(w, o)
Listed(class) == {s \in ToSet(snapshot.services) : Class(s) = class}

(* Whatever the moment the lists were copied at, a replay starts no        *)
(* sidecar before the joins and the defaults and registrations of all      *)
(* external services of its datacenter and of its own service, and no      *)
(* gateway before the joins and its own entry.  The registration of the    *)
(* sidecar itself is in no script: ReplayHasProxies.                       *)
ReplayConfigured ==
  Written => \A o \in script :
    /\ o.op \in {"sidecar", "gateway"} =>
         \A j \in script : j.op = "join" => Before(j, o)
    /\ o.op = "sidecar" =>
         \A s \in Listed("external") \cup {Trimmed(p) : p \in Listed("proxy")} :
           s.dc = o.dc /\ (s.name = o.name \/ Class(s) = "external") =>
             WrittenBefore(s.defaults, o) /\ WrittenBefore(s.registration, o)
    /\ o.op = "gateway" /\ o.kind \in GatewayKinds =>
         \E e \in ToSet(snapshot.entries) :
           /\ e.dc = o.dc /\ e.kind = o.kind /\ e.name = o.name
           /\ WrittenBefore(e.file, o)

(* A script starts, as often as each was listed when the report was asked  *)
(* for, the external services, each with a sidecar that the run does not   *)
(* start (external.go:77), the gateways and, of several datacenters, the   *)
(* mesh gateways.  A mesh service and its sidecar it starts as often as    *)
(* the sidecar is listed, under the name of the service: not at all        *)
(* between the two Registers of mesh-service.go:72 and 158, when only the  *)
(* service is.                                                             *)
Starts(op, s) ==
  Cardinality({o \in script : o.op = op /\ o.dc = s.dc /\ o.kind = s.kind /\ o.name = s.name})
Times(s) ==
  Cardinality({i \in DOMAIN snapshot.services :
                 LET t == snapshot.services[i]
                 IN t.dc = s.dc /\ t.kind = s.kind /\ t.name = s.name})
SidecarOf(s) == [s EXCEPT !.kind = "connect-proxy", !.name = s.name + 1]
StartsWhatIsListed ==
  Written =>
    /\ \A s \in Listed("external"), op \in {"service", "sidecar"} : Starts(op, s) = Times(s)
    /\ \A p \in Listed("proxy") \cup {SidecarOf(s) : s \in Listed("service")},
          op \in {"service", "sidecar"} : Starts(op, Trimmed(p)) = Times(p)
    /\ \A s \in Listed("gateway") : Starts("gateway", s) = Times(s)
    /\ Len(Datacenters) > 1 => \A s \in Listed("mesh") : Starts("gateway", s) = Times(s)
    /\ \A c \in ToSet(snapshot.consuls) : Writes(ConfigFile(c.dc)) # {}

(* A config entry is in the report with the content it was given to Consul *)
(* with, to the letter (snapshot.go:187 promises "all of the operations    *)
(* needed in order to recreate this run"), unless that has a %, which      *)
(* server.go:234 takes for a verb, or a resource of the same datacenter    *)
(* whose file has the same base name (entry.go:38) was rendered, too.      *)
Replaced(r) ==
  \E q \in Resources \ {r} : q.dc = r.dc /\ q.file = r.file /\ step[<<"resource", q>>] > 0
EntriesKeepContent ==
  Written => \A r \in Resources :
    Entry(r) \in ToSet(snapshot.entries) =>
      \/ r.percent
      \/ Replaced(r)
      \/ \E w \in Writes(RenderedFile(r)) : w.data = <<"resource", r>>

(* The folder of a file is created before the script writes the file if    *)
(* the run has started the agents itself, however early the report: and    *)
(* only then, since snapshot.go:195 to 203 creates the folders with the    *)
(* agents.  A script of a run with --run=false, the default of root.go:192,*)
(* writes into folders it does not create.                                 *)
FoldersExist ==
  Written => \A o \in script : o.op = "file" =>
    (RunConsul <=> \E m \in script : m.op = "mkdir" /\ m.dc = o.dc /\ Before(m, o))

(* A later report of the same run does all an earlier one did, in the same *)
(* order; only the addresses an agent joins may become more.               *)
Action(o) == IF o.op = "join" THEN [op |-> "join", at |-> o.at, dc |-> o.dc] ELSE o
Actions(ops) == {Action(o) : o \in ops}
ReportsGrow ==
  [][script' # script => Actions(script) \subseteq Actions(script')]_vars

(* The get and list commands agree: one finds a service exactly if the     *)
(* other shows it, and get returns the first one that list shows.          *)
ListAgreesWithGet ==
  \A kind \in {KindOrder[i] : i \in DOMAIN KindOrder} :
    LET shown == ListServices({kind})
    IN /\ \A i \in DOMAIN shown :
            GetService(kind, shown[i].name) =
              <<shown[CHOOSE k \in 1..i : /\ shown[k].name = shown[i].name
                                         /\ \A m \in 1..(k - 1) : shown[m].name # shown[i].name]>>
       /\ \A s \in ToSet(services) : s.kind = kind => s \in ToSet(shown)

(* The check command without --kind finds the proxy of every mesh service  *)
(* that has one, given the name of the service or of the proxy.            *)
CheckFindsProxy ==
  \A s \in ToSet(services) : s.kind = "connect-proxy" =>
    \A given \in {s.name, s.name - 1} :
      GetService(DefaultKind, ProxyName(given)) # <<>>

(* snapshot.go:187: the report has "all of the operations needed in order  *)
(* to recreate this run": the registration of a service's proxy too.       *)
ReplayHasProxies ==
  Written => \A s \in Listed("proxy") : Writes(s.proxy) # {}

=============================================================================
