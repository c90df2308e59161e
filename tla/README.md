# consul-services in TLA+

consul-services boots a Consul service mesh for tests: optional agents, one
mesh gateway per datacenter, external services, mesh services with their
sidecars, and the config entries and gateways found in a resource folder.
This directory models that program in TLA+, checks the models with TLC on
small instances, and proves the main results with TLAPS for all instances.

## Inventory

### Components

| component | source | state it keeps | operations |
|---|---|---|---|
| Runner | `pkg/runner.go` | the errgroup and its context, the loop positions, the unbuffered `registrationCh` | boot and join agents, launch the groups, wait for registrations, write the resources, `group.Wait` |
| External service | `pkg/external.go` | its port, its two rendered files | register in the catalog, write defaults, send the token, list itself, listen |
| Mesh service, sidecar | `pkg/mesh-service.go` | three ports, three files, a group of two goroutines | register service and proxy, write defaults, send the token, list itself, run envoy and the listener |
| Gateways | `pkg/mesh.go`, `pkg/gateway.go` | admin and listener ports | (write the entry,) run envoy |
| Consul agents | `pkg/agent.go` | ports, config file | write, run, wait until ready, join |
| Config entries | `pkg/entry.go` | the rendered file | render and write |
| Consul command | `pkg/command.go` | log folder, list of processes | run the binary under a context; `Cleanup` |
| Listeners | `pkg/service.go` | a TCP or HTTP listener | bind, serve until the context is done |
| Control server | `pkg/server/server.go` | lists of agents, services and entries behind a RWMutex | register, list, get, report, shutdown |
| Report | `pkg/server/snapshot.go` | a snapshot of those lists | order the operations of the replay script |
| Control client, `stop` | `pkg/server/client.go`, `cmd/stop.go` | - | requests over the unix socket |
| Ports, tracker | `pkg/port.go`, `pkg/tracker.go` | ports handed out per entry | find a free port |
| Resource files | `pkg/file.go` | - | parse a file into an entry or a gateway |
| Configuration | `pkg/config.go` | the validated configuration | validate |
| Root command, flags | `cmd/root.go` | flags, viper configuration | merge, validate, daemonize or run, exit status |
| Daemonization | `pkg/daemonize/fork.go` | a pipe between parent and child | re-exec, wait for the first line of output |
| Query commands | `cmd/*.go` | - | print one answer of the control server |
| Templates, certificates, vfs, tables | `pkg/templates.go`, `pkg/certificates.go`, `pkg/vfs`, `pkg/tables` | a folder | render, generate, format |

### How they interact

`rootCmd.Run` validates the configuration and calls `Runner.Run` under a
context that an interrupt cancels. `Run` is the only goroutine that launches
others. Every handler runs in one errgroup whose context is cancelled by the
first error. A mesh service has an errgroup of its own below it. Services tell
the runner that they have registered through an unbuffered channel, and tell
the control server what they are by calling it directly. Consul is reached
through child processes (`runConsulBinary`) and, for external services, one
HTTP request; both are bound to the context. The query commands are other
processes that talk to the control server over a unix socket.

### What is hard, and the properties it calls for

- The registration channel carries the tokens of two groups of services, is
  read only during two waits, and either wait may be given up. The order of
  the rollout rests on it (`Staged`, `TokensAccounted`), and so does the end of
  the run (`BringUpEnds`, `UnwindsOrBlocks`, `CancellationFallsThrough`).
- Any call may fail before, during or after it took effect, any process may
  exit or be killed, and an interrupt or `/shutdown` may come at any time
  (`Staged`, `ProxiesStartConfigured`, `SuccessIsInterrupt`).
- `Run` has one orderly end (`group.Wait`) and six early ones (`GroupDrained`,
  `NoOrphans`).
- The control server is told things while they happen: what it lists must
  already be true (`ListedIsDeployed`), and what it lists must already be in
  the file cache (`ReportSucceeds`), since a report may be asked for at any
  moment and reads the files after it has released the lists.
- A report turns a cut through the lists into a script with another order than
  the run's, with no barriers in it (`ReplayConfigured`, `StartsWhatIsListed`,
  `ReportsGrow`). Files are cached under their base name and printed as a format
  string (`EntriesKeepContent`), folders are created with the agents
  (`FoldersExist`), and lists span datacenters (`ListAgreesWithGet`).
- Several runs share one socket path. A run checks it before it listens, may be
  killed before it has closed its listener, is asked to stop from within a
  request it then waits for, and closes its server from one goroutine while
  another is about to serve (`OwnFileOnly`, `Stoppable`, `StaleSockets`,
  `StopMeansStopping`, `ClientsReturn`, `StopCancels`, `CancelFreesPath`).
- With `--daemon` three processes run one `main`, two of them with a command line
  the program wrote itself, and the verdict travels as a first line on a pipe
  and two exit statuses (`VerdictFirst`, `FailureLeavesNone`, `LaunchEnds`,
  `LineBeforeFile`, `DaemonKeepsOptions`).
- A free port is released before it is bound, written and listed in between,
  an HTTP service does not notice that it was taken, and of an agent or a proxy
  the run sees only whether it ends (`PortsLeadHome`).

## Modules

| module | what it is |
|---|---|
| `StagedRollout` | abstract: changes are made one at a time, each after those it needs |
| `Runner` | `Runner.Run` and every handler it launches; properties; mutated forms |
| `RunnerInvariants` | the inductive invariant `IInv`, in layers |
| `RunnerProofs` | theorems about `Runner` |
| `ControlServer` | the control server's lists, the file cache, the handlers that fill both, the answers of `get`, `list` and `check` |
| `Report` | extends `ControlServer` with requests for a report: snapshot, operations, answer |
| `ReportProofs` | inductive invariant of control server and report, theorems about both |
| `MCReport` | services and resources of small runs for TLC |
| `SocketFile` | abstract: the socket file belongs to one run at a time |
| `Lifecycle` | several runs on one socket path, the control server from listen to close, the clients, kills |
| `LifecycleInvariants`, `LifecycleProofs` | its inductive invariant, theorems |
| `Startup` | from the command line to a run or a daemon: flags, file, validation, parent, forker, daemon |
| `StartupProofs` | its inductive invariants, theorems |
| `MCStartup` | command lines, files and folders for TLC |
| `Ports` | `freePort`, the tracker, who asks for which port and who binds it when |
| `PortsProofs` | its inductive invariant, theorems |
| `MCPorts` | handlers for TLC; ports are interchangeable |

`Runner` contains `StagedRollout` by `INSTANCE`, with the set of accepted
changes as the refinement mapping. `Report` composes the handlers of
`ControlServer` with the requests. `Runner` keeps the order of the run and only
that the lists were told; `ControlServer` keeps what they were told and lets
the handlers run in any order `Runner` allows, and more. `Lifecycle` contains
`SocketFile` by `INSTANCE`, with the run whose file is at the path and the runs
with an open listener as the refinement mapping. It composes the server with
the main goroutine and the clients; the rest of `Runner` is one bit in it, and
what `Runner` says of the control server (it ends without an error only when
the context is done) is what `Leave` does here. `Startup` ends where `Lifecycle`
and `Runner` begin: its stage "running" is the call of `Run`.

### Runner

| variable | in the code |
|---|---|
| `pc`, `idx` | the statement the main goroutine is at, and its loop index |
| `n` | the local `n` of `waitForNRegistrations` |
| `stage` | for every goroutine, the call of its handler it is about to make |
| `inflight` | the goroutines with a child process or request outstanding |
| `consul` | what Consul has accepted: joins, registrations, config entries |
| `listed` | the calls of `AddConsul`, `Register` and `AddEntry` so far |
| `cancelled`, `interrupted` | whether the run's context, and its parent, are done |
| `groupErr` | whether the errgroup holds an error |
| `result` | what `Run` returned |

A task is a pair: the type whose `Run` method it executes, and which one. The
handlers are records from a stage to the next one, one per type, so the order
of calls of each `Run` can be read off and compared with the code. The actions
say what a stage does: `Render` (ports and templates), `List` (the log file and
`logFn`), `Start`, `Finish` and `Break` (a process or request), `Publish`
(`Server.Register` and the group of two), `Bind`, `Leave`, `Collect`. The main
goroutine has one action per statement that blocks or changes state:
`WriteAgent`, `Ready`, `Parse`, `StartCommand`, `FinishCommand`, `BreakCommand`,
`StartExternals`, `StartServices`, `Handoff`, `GiveUp`, `NextResource`, `Wait`,
`Exit`. `Stop` is `/shutdown`, `Interrupt` is Ctrl-C.

Abstractions: the services of all datacenters are one set, since the runner
launches and awaits them as one list; so are the resources, in the order of the
walk. Rendering, port allocation and parsing either succeed or fail. Consul is
the set of accepted changes: it accepts any request, and a broken request may
or may not have been accepted. The gateways of the mesh register with Consul
by starting envoy (`-register`), which is not counted as a change.

### ControlServer and Report

| variable | in the code |
|---|---|
| `step` | for every handler, how many of its renderings and listings it has made |
| `files` | the files of the `FileSystemCache`, each with the handler that wrote it last |
| `consuls`, `services`, `entries` | the slices of `Server` |
| `snapshot` | what `snapshot()` copied for the last request |
| `script`, `status` | the operations of the last script, and whether the last request is under way, answered, or ended in an error |
| `reports` | the requests so far, at most `MaxReports` |

A handler is the sequence of files it renders and of things it lists, in the
order of its `Run` method; `Proceed` makes one step of one handler, and any
handler may stop anywhere, as it does when a call fails. Agents are launched
one by one, each after the one before is listed, and everything else after
them, as `Run` does. No other order is assumed, so what holds here holds under
all orders the barriers of `Runner` leave. `TakeSnapshot` is the part of a
report under the mutex, `Answer` what follows it: the check that every file can
be read, and `Operations`. The operators from `AgentOperations` to
`StartOperations` are the loops of `Operations` one by one. The slice they
append to is a set of operations, each with its place in the loops: the block,
the datacenter, the group, the element of the list and which of its operations
it is (`At`). The order of the script is the order of the places (`Before`), so
"the nth operation" never has to be computed, neither by TLC nor in a proof.
`snapshot` keeps the copied lists as they are; grouped by datacenter and kind
they are by `OfClass`, `WithAgent` and `EntriesOf`, which give the places in them.

Abstractions: a name is its rank in the alphabet, and the name with "-proxy"
appended is the next rank, so the sort of `list` and the trimming of the suffix
are what they are in the code. The content of a file is the handler that
rendered it, and that of a resource also has a `%` or none: the script is the
format string of an `Fprintf` (`pkg/server/server.go:234`), which changes such a
content (`Printed`). An operation is a record of what it does and to what: the shell
text, comments, blank lines and messages of the script are left out. The ports
and addresses in the operations are those of the listed service.

There are two tables of gateways, as in the code. A resource whose kind is in
`pkg/gateway.go:11` (`KnownGateways`) is run and listed as a gateway; the table of
`pkg/server/server.go:237` (`GatewayKinds`) lacks `mesh-gateway`, so that a listed
one is taken for the proxy of a service and its report fails. The handler lists
the gateway only after Consul has accepted its config entry. Whether Consul
accepts an entry of that kind is not in this repository; if not, the handler
stops before, as every handler of the model may.

With `RunConsul` off, the default of `--run`, no agents are listed and nothing
waits for them.

### Lifecycle

| variable | in the code |
|---|---|
| `path` | the run whose listener created the file at the socket path |
| `main` | the main goroutine: not started, validated, in `Runner.Run`, returned from it (after `group.Wait`, or early), or how the process ended |
| `cancelled` | whether the context of the run is done |
| `others` | whether all other goroutines of the errgroup have returned |
| `srv` | `Server.Run`: about to listen, in its `select`, about to return an error, returned |
| `serve` | the goroutine that calls `Serve`: not yet running, serving, ended |
| `closing`, `open` | `inShutdown` of the `http.Server`, and whether the listener is open |
| `client`, `conn` | where an invocation of `stop` or of a query is, and the run it reached |

`Validate` is `validateSocket`, `Launch` the first `group.Go` of `Runner.Run`,
`Abort` one of its early returns, also after the context is done
(`pkg/runner.go:69` and `90` do not look at it), `Return` its last statement, `Exit` the
`os.Exit` of `main`. `Listen`, `Leave` (with the deferred `Close`) and `Fail` are
`Server.Run`; `Track`, `Accept` and `ServeEnds` the goroutine of `Serve`.
`Shutdown` and `Respond` are the handlers, `Dial` and `Cut` what a client sees. A
closed listener unlinks the path whatever is there; that this never hits the
file of another run is `OwnFileOnly`. `Kill` may come at any time, and `Clear` is
the user who removes a file that a dead run left.

`net/http` and `net` are external: `Shutdown` and `Close` close the listeners that
`Serve` has put on the server's list, `Close` cuts the connections as well,
`Serve` of a closed server closes its listener on the way out. A client of
`stop` takes EOF for success (`src/pkg/server/client.go`), so it may report
success when it was cut off before its request was read; `StopMeansStopping`
shows that the run is ending in that case too.

### Startup

| variable | in the code |
|---|---|
| `file`, `programs`, `busy` | the configuration file, where a consul binary is, whether the socket path is taken |
| `stage` | where each of parent, forker and daemon is |
| `line`, `env` | its arguments, and whether `_DAEMONIZE` is set |
| `config` | its options after flags and file were merged |
| `said`, `code` | the kind of its first line of output, its exit status |

`Configure` is `PreRunE` and the validation, `Daemonize` and `WaitForForker` the
branch of `rootCmd.Run` with `--daemon`, `Redirect` the one without, `Fork` and
`Hear` are `Handle` of `pkg/daemonize`, `EndRun` is everything a run does. `Say`
is a line of output: for a process started by a forker it goes to a pipe, and
is deadly once the forker is gone. `Hear` is the only way a forker comes back: it
waits for a first line and not for the daemon's end. Whatever that line says, the
forker's status is then 0, and so is the parent's. When the daemon has died
without a line (`Unheard`) every goroutine of the forker is blocked; the Go
runtime may notice and end it with status 2 (`Deadlock`), but in a build with cgo,
the default on Linux for a program that uses `net`, it does not, and forker and
parent wait for ever. `Unreadable` is a configuration file that `viper` refuses,
`--config ""` included. `Merge` is what `setCommandFlag` and its kin
do with `Viper`, the external library's choice of line, file or default. A value
is a sequence: empty for the empty string, one element for a scalar, the list
itself for the datacenters; names of datacenters and paths are numbers.
`Interrupt` is Ctrl-C while the parent is in the foreground, `OtherRun` another
run that takes and frees the socket path between any two steps.

Abstractions: the file has values the flags can parse, one for each option but
the datacenters (`FilesAssumption`), and does not change between parent and
daemon. The forker's two streams carry one first line.

### Ports

| variable | in the code |
|---|---|
| `owner` | who has bound each port |
| `got` | the ports each handler was handed, in order: its fields, then its tracker's |
| `stage`, `bound` | allocating, listed, or up; how many of its ports it has tried to bind |
| `deaf` | the places among a handler's ports that it found taken and goes on without |
| `shown` | the ports it is listed with |
| `failed` | whether a handler has failed, which ends the run |

`Asks` is the order in which each kind of handler calls `freePort`, `GetPort` and
`GetNamedPort`: first for its own fields (`OwnAsks`), then for what its tracker
hands to its template (`TrackerAsks`); `Allocate` hands out any port that is free
now, also one that was handed out before. `Bind` and `Collide` are the listeners of
`pkg/service.go` and the processes, agents and Envoys, which are external. Of a
process `pkg/command.go:99` sees nothing but its end, so one that finds a port
taken may end with an error or go on without it, as Envoy does with a listener
it gets over xDS; a TCP listener of `pkg/service.go` fails, and an HTTP one goes
on (`GoOn`). `Foreign` is another program.

### Runs

| run | instance | shows |
|---|---|---|
| `runner_services` | an external service, a TCP mesh service, an entry | barriers, lists, cancellation and drain under all interleavings; liveness: the bring-up ends, a failure anywhere cancels the run, a cancelled run returns unless a service is blocked |
| `runner_resources` | one external and one mesh service, entry, gateway, entry | the order of the resources, exit status, `IInv` |
| `runner_federation` | two datacenters with agents, one mesh service | the order of the joins, nothing before the federation |
| `runner_falls_through` (violation) | one mesh service | a cancelled run may block for ever |
| `runner_orphans` (violation) | one mesh service, one entry | the process may exit before its children |
| `report_single` | `--run=false`, one service of each kind, an ingress gateway and a mesh gateway as resources; two reports | a report at any moment can be written unless the mesh gateway is listed, starts what is listed in an order that works, is extended by the next, and writes into folders it does not create |
| `report_federation` | two datacenters with agents, gateways of one name and file name in both, an entry with a `%` in a file of that name in one; one report | entries keep their content but for those two cases, folders exist, nothing is mixed up between datacenters; `list` and `get` agree |
| `report_proxies` (violation) | a mesh service | the registration of the proxy is not in the script |
| `lifecycle` | two runs, a `stop`, a query | the file is used as `SocketFile` promises; `stop` is true; every client returns; a closed server cancels the run; a cancelled run frees the path |
| `startup` | lines with one option, or two that meet, besides `--daemon`; files with at most one | the line before the file; the daemon runs what was validated; the parent's verdict comes after the daemon's first line, an error leaves no daemon, and it comes unless the daemon dies without a line |
| `daemon_externals` (violation) | the same | a daemon registers no external services |
| `ports` | a TCP mesh service, an external HTTP service, an ingress gateway with a named port, three ports | a TCP service that is up is at its own port; everything else is there or has found it taken and told nobody |

Why these bounds are enough. In `Runner`, a wait that miscounts shows with one
service in each group, since the count is of both; a barrier can only be wrong
between adjacent groups, and each run has two adjacent groups; the join loop is
wrong or right at two agents; three resources put a gateway between two
entries. In `Report`, every loop of `Operations` treats the elements of a list
alike, so one element of each kind shows what it omits or misplaces; two
resources make two entries, whose order matters; two datacenters with equal
names show what is looked up without the datacenter; two resources of one
datacenter with one base name show what replaces what; two reports are what one
can contradict another with. In `Lifecycle`, a file has an owner and somebody
who wants it; a `stop` and a query are the two ways a connection ends, and a
third client differs from one of them in nothing. In `Startup`, options are
merged one by one, so that only those which the validation or the daemon's line
relate need to come in pairs. In `Ports`, three ports meet seven asks, so every
port is handed out repeatedly; a mesh service has a proxy and a listener of its
own, and the HTTP service and the gateway are the two that may go on without a
port; the proof covers every number and kind. Nothing is a counter that needs a cap but the reports, of
which there are `MaxReports`. What the bounds leave open, the proofs close: every
invariant of a passing run is a theorem for all instances, and so are its action
properties and refinements; for liveness the bounds stand.

Deadlock is not checked anywhere: all modelled programs and clients come to
their ends, a run of `Runner` after `os.Exit` or blocked as
`runner_falls_through` shows, and requests for reports to their bound. Liveness
of `Runner` is checked without an agent: with one as well the run takes longer
than a check should, and agents differ from proxies in nothing fairness sees.

Fairness (`Fairness` in `Runner`): Go's scheduler runs every goroutine that can
run, so each task's own steps, the main goroutine's and the receives are weakly
fair. A short command or request ends by itself or is killed when its context
is done; agents and proxies run until they are killed, so their end is fair
only once the context is done. The choice between success and failure is free.
Interrupts, `/shutdown` and spontaneous exits are never owed.

In `Lifecycle` the goroutines of a run that can make a step make it, each on its
own: `Server.Run`, the goroutine of `Serve`, the main one, and every handler.
When the rest of a run returns (`Unwind`) is left open, since `Runner` shows that
it may never do so; hence `CancelFreesPath` and `ClientsReturn` hold even then.
Interrupts, kills, dialling and the user's clearing of a file are never owed.
In `Startup` each process that can make a step makes it, but nothing says how
long a run lasts, and the runtime's `Deadlock` is never owed: `LaunchEnds` has the
silent death of the daemon as the one way for a launch not to end. `Ports` has no liveness.

### Findings

- `runner_falls_through`: a service sends its token without looking at the
  context (`pkg/external.go:63`, `pkg/mesh-service.go:71`). Once the wait has
  been given up, the comment at `pkg/runner.go:217`, "just let the rest of the
  cancellation fall through", is wrong: the service blocks, and `group.Wait`
  with it. `UnwindsOrBlocks` shows that this is the only way not to end.
- `runner_orphans`: the early returns of `Run` do not wait for the group, and
  `os.Exit` (`cmd/root.go:95`) may come before the contexts have killed the
  children. `Cleanup` (`pkg/command.go:64`) runs only as a finalizer.
- `report_proxies`: `fileSetsForServices` collects the files of the proxies in
  `serviceProxies` and returns the named result `proxies`, which is nil
  (`pkg/server/snapshot.go:377`): the replay starts sidecars Consul does not know.
- `daemon_externals`: `daemonArgs` (`cmd/root.go:213`) passes on neither
  `--external-http` nor `--external-tcp`, so a daemon has none of the external
  services its parent has validated and reported as started.

Seen while modelling, in the models as the code has it, and without a run of
their own:

- a report creates the folders of a datacenter with its agent only
  (`pkg/server/snapshot.go:201`), but writes files into them in any case: with
  `--run=false`, the default, into folders the script never creates
  (`FoldersExist`);
- the script is printed as a format string (`pkg/server/server.go:234`), which
  changes every file content with a `%`, and two resources with one base name are
  rendered to one file (`pkg/entry.go:38`); these are the exceptions of
  `EntriesKeepContent`;
- a listed resource of kind `mesh-gateway` makes every report an internal error
  (`pkg/gateway.go:15` against `pkg/server/server.go:237`; `ReportSucceeds`);
- the script starts a sidecar for every external service
  (`StartOperations`), which the run does not (`pkg/external.go:77`), and does
  not start a mesh service whose sidecar is not listed yet (`StartsWhatIsListed`);
- a daemon that dies before its first line is waited for without end, unless the
  Go runtime detects it (`pkg/daemonize/fork.go:91`; `LaunchEnds`), and a first line
  that is an error is a success to the parent (`pkg/daemonize/fork.go:113`;
  `VerdictFirst`);
- a proxy that goes on without its port goes unnoticed (`pkg/command.go:99`;
  `PortsLeadHome`);
- `admin`, `check`, `get` and `logs` bind one variable to `--kind`, and the
  default of `logs`, which is initialised last, stays (`cmd/logs.go:44`); the
  default kinds of `list` (`cmd/list.go:16`) name gateways otherwise than they
  are listed;
- a `--datacenter` on the line is appended to itself and refused as a duplicate
  (`cmd/root.go:54`), which the lemma `NoDatacenters` proves;
- `--run=false` does not reach the daemon, where a file with `run` on wins;
- a consul binary given by flag is refused when there is none on the `PATH`
  (`pkg/command.go:116`);
- `output` in the configuration file is ignored.

### Proofs

`RunnerProofs` proves, from the four assumptions on the constants of `Runner`
and nothing else:

| theorem | for every instance |
|---|---|
| `TypeCorrect` | `TypeOK` |
| `DrainsGroup` | `group.Wait` has returned only when every goroutine of the group has |
| `SuccessNeedsInterrupt` | exit status 0 only after an interrupt |
| `CountsTokens` | during a wait, the tokens outstanding are exactly `n` until the context is done |
| `ProxiesConfigured` | a proxy runs only when Consul has what it needs |
| `RunnerInvariant` | the inductive invariant `IInv` |
| `ListsDeployed` | what is listed has been accepted by Consul |
| `ImplementsRollout` | `Runner` implements `StagedRollout` |

None of the invariants is inductive. `TypeOK` is not because `n` stays a natural
number only if a wait is entered with a service to wait for, and a stage has a
successor only if it belongs to its handler. The strengthening is `IInv` in
`RunnerInvariants`, in five layers, each proved from itself and those above it:

1. `Shape`: the stages of each handler, the range of the loop index, idleness of
   what was not launched, the owner of each process, the two parts of a service.
2. `Drained`: who cancelled the run, and what is left of it when it returns.
   A failed handler leaves an error in the group, and `result = "nil"` needs the
   interrupt because the control server returns without an error only when the
   context is done and its failure is the group's error otherwise.
3. `Barriers`: the token count. While a wait is on and nothing was cancelled, the
   services launched and not yet past `send` are as many as `n`; a handoff takes
   one from both (lemmas on `Cardinality`), so at zero the group is past `send`.
4. `Ordered`: a handler past a call has had it accepted (`PassedCalls`), so have
   the commands of the main goroutine (`PassedCommands`), and a task relies on
   what held when it was launched (`LaunchedAfter`), since `consul` only grows.
   With layer 3 this yields that what is outstanding has what it needs
   (`CallsReady`).
5. `Listing`: what was listed, and that a part runs only when its service was.

The refinement follows: at most one element enters `consul` in a step
(`OneChange`), and by `CallsReady` it finds what it needs. Each layer has a
lemma per conjunct and under it a case per action. The actions are first
summarised by what they can do to `stage` (`HandlerMoves`, `MainMoves`,
`HandoffMoves`), so that later lemmas need not open them.

`LifecycleProofs` proves, for any number of runs, clients and stops:

| theorem | for every instance |
|---|---|
| `LifecycleInvariant` | the inductive invariant `IInv` |
| `TypeCorrect` | `TypeOK` |
| `CanBeStopped` | `Stoppable` |
| `OrderlyEndsClean` | `StaleSockets` |
| `StopIsTrue` | `StopMeansStopping` |
| `FileIsOwn` | `OwnFileOnly`: `Lifecycle` implements `SocketFile` |

`IInv` (`LifecycleInvariants`) says what the five variables of a server have to do
with each other. `FileInv`: an open listener has its file at the path and its
process is alive, and a file at the path has an open listener or a dead owner;
so `Listen`, which needs a free path, takes no file from a living run, and a
close unlinks only the closer's. `ServerInv`: the listener is open from `Listen`
until the server is closed, and after that only while `Serve` has not begun.
`EndInv`: an orderly end comes after the server's, from which `StaleSockets`
follows. The proof has two halves, the runs (`FileInv`, `ServerInv`, `EndInv`)
and the clients (`StopMeansStopping`), each with a lemma per action.

`ReportProofs` proves, for any datacenters, services and resources that meet
the assumptions of `ControlServer`, and for any number of reports:

| theorem | for every instance |
|---|---|
| `Invariant` | the inductive invariant `ReportInv` |
| `TypeCorrect` | `TypeOK` |
| `SucceedsIfKnown` | `ReportSucceeds`: an error exactly if a `mesh-gateway` is listed |
| `ReplayIsConfigured` | `ReplayConfigured` |
| `ListedIsStarted` | `StartsWhatIsListed` |
| `CheckFinds` | `CheckFindsProxy` |
| `ListAndGetAgree` | `ListAgreesWithGet` |
| `FoldersAreCreated` | `FoldersExist`: created if the runner starts the agents, and only then |
| `ContentIsKept` | `EntriesKeepContent`, with its two exceptions |
| `LaterReportsGrow` | `ReportsGrow`, if `FilesApart` |

One hypothesis goes beyond the assumptions, and the code needs it. `FilesApart`
says that no two resource files of one datacenter have the same base name;
without it a handler may overwrite another's file between two reports
(`pkg/entry.go:38`), and the later report has other contents than the earlier.
`report_single`, which checks `ReportsGrow`, meets it; `report_federation` does not.
It holds for resource folders without subfolders of their own, in which names
are distinct anyway.

Which requests end in an error is not inductive: it needs to know that what a
list holds was told by a handler which had rendered it first. `ServerInv` relates
the lists to the steps of the handlers. `Rendered`: what a handler has rendered
is in the cache. `Told`: everything listed is some handler's step behind it.
`Owned`: every cached file is one its writer renders. `Entered`: a resource past
its second step has its entry listed. `InTurn` and `AgentsFirst`: agents are listed
in the order of the datacenters, and before everything else. From these follows
`Complete(lists)` for the lists at any moment, which is all a report relies on: the
files of every element are in the cache (for a `mesh-gateway`, taken for a proxy,
there is none, and the name stays outside it), a gateway's entry is among the entries,
and whoever is listed comes after all agents. `ReportInv` adds `Complete(snapshot)`,
which stays true when the run goes on, since the cache only grows; that the
snapshot is a beginning of the lists (`Copied`); and that the last request ended as the snapshot says
(`Asked`). The properties of a script are then properties of
`Operations(lists)` for any complete lists, one lemma each, and hold in every state
because a script is only ever written from a complete snapshot. `StartsWhatIsListed`
counts: the operations of one kind and name are in bijection with the places of
the list that ask for them. `LaterReportsGrow` adds `Grown`, that what the last
script does the last snapshot would do too, which needs that files keep their
writer (`FilesApart`). `ListAgreesWithGet` rests on `Precedes` being a strict total
order of the chosen places: the number of predecessors is then a bijection onto
0..n-1 (`RankIs`), so that the sorted listing is a permutation and its first match
is the first of the list.

`StartupProofs` proves, for every set of command lines and files that meets
`LinesAssumption` and `FilesAssumption`:

| theorem | for every instance |
|---|---|
| `ProcInvariant` | `ProcInv`: which process is in which role, and what an exit status says |
| `SuccessIsHeard` | `VerdictFirst` |
| `FailureIsClean` | `FailureLeavesNone` |
| `ConfigInvariant` | `ConfigInv`: whose options and whose line come from where |
| `LineFirst` | `LineBeforeFile` |
| `DaemonFollows` | `DaemonKeepsOptions` |
| `TypeCorrect` | `TypeOK`: every option has a value of its kind, and only the first process is told to start a daemon |

`Roles` fixes that only the second process is a forker and that each process
starts the next at most once; `Verdicts` adds what the forker's status says
about the daemon, without which that of the parent means nothing. The options
need one fact that is not a step: a list of datacenters on the line never gets
through the validation (`NoDatacenters`), so `Merge` and `Intended` agree on all
that does (`MergeIntended`), and merging the daemon's line with the file gives
the parent's options again (`DaemonMerges`).

`PortsProofs` proves, for any ports, handlers and templates:

| theorem | for every instance |
|---|---|
| `PortsAreOwn` | `PortsLeadHome` |
| `TypeCorrect` | `TypeOK` |

The invariant of the first (`PortsInv`) adds that the ports a handler has tried to
bind are its own, but for those in `deaf`, among which no TCP listener is, and
that a listed handler is listed with all it was handed. That a proxy without its
port ends is not assumed. `PortsSound` adds that a handler that goes on was handed
exactly as many ports as it asks for (`Handed`), and that a port is bound only by
one it was handed to (`Rightful`).

Only model-checked: the liveness properties `BringUpEnds`, `FailuresEndTheRun`,
`UnwindsOrBlocks`, `ClientsReturn`, `StopCancels`, `CancelFreesPath` and `LaunchEnds`,
which need fairness and so are out of the prover's reach.

## Plan

Done: all components with control state are modelled; every safety invariant,
action property and refinement that a run checks is proved. Left, in this order:

1. The safety half of the liveness properties: which states of `Runner` have
   nothing left to do (`UnwindsOrBlocks`: only those with a service at its send),
   stated without ENABLED as an invariant of the stages, and the same for the
   clients of `Lifecycle`.
2. A link between `Runner` and `ControlServer`: the order of the listings in
   `Runner` is one that `ControlServer` allows.
3. `ConfigEntries`: the resource folder's walk and the datacenter a file belongs
   to, with `Report`'s names in place of its sequence of resources.

## Not modelled

Formatting of tables, logs and command lines, generation of certificates,
rendering of templates, jsonpath: they keep no control state. Of what is
modelled: `Serve` failing for another reason than a closed listener; values in
the configuration file that a flag refuses; a configuration file that changes
between parent and daemon; the binds of envoy itself, which is external; what a
client prints. One hazard has no property: the token of a mesh service is sent
before the service is listed (`pkg/mesh-service.go:71`), so that a report may be
incomplete at the moment the last wait returns; nothing in the code promises
otherwise, and `Report` allows the gap.
