------------------------------- MODULE Startup --------------------------------
(***************************************************************************)
(* One invocation of consul-services, from its command line to the run:    *)
(* options are merged from the line, the configuration file and the        *)
(* defaults, validated, and with --daemon handed to a daemon by way of a   *)
(* forker.  The parent, the forker and the daemon are processes 1, 2, 3    *)
(* of the same program; what each does follows from its environment and    *)
(* its command line.                                                       *)
(*                                                                         *)
(* The value of an option is a sequence: empty for the empty string, one   *)
(* element for a scalar, the list itself for the datacenters.              *)
(***************************************************************************)
EXTENDS Integers, Sequences, FiniteSets

CONSTANTS Names,    \* names of datacenters
          Lines,    \* command lines: functions from some options to values
          Files,    \* configuration files: [name, options, readable]
          Programs, \* sets of places with a consul binary
          Folders   \* the folders there are, with the datacenters each has
                    \* a subfolder for

VARIABLES file,     \* the configuration file of this invocation
          programs, \* where consul is: some of "given", "folder", "PATH"
          busy,     \* whether there is a file at the socket path
          stage,    \* where every process is
          line,     \* its command line
          env,      \* whether _DAEMONIZE is set for it
          config,   \* its merged options
          said,     \* the kind of the first line it has printed
          code      \* its exit status

world == <<file, programs>>
procVars == <<stage, line, env, config, said, code>>
vars == <<world, busy, procVars>>

Procs == 1..3

-----------------------------------------------------------------------------
(* Flags and the configuration file.                                       *)

Counts == {"tcp", "http", "externalTCP", "externalHTTP", "duplicates"}
Strings == {"resources", "consul", "socket", "output", "config"}
Options == Counts \cup Strings \cup {"run", "datacenters"}

(* Only the datacenters are a list.                                        *)
Scalar(options) == \A o \in DOMAIN options \ {"datacenters"} : Len(options[o]) <= 1

(* The flag parser refuses other options and other values; of the file,    *)
(* GetString takes a list for the empty string.                            *)
ASSUME LinesAssumption ==
  \A l \in Lines :
    /\ l = [o \in DOMAIN l |-> l[o]] /\ Scalar(l)
    /\ "daemon" \in DOMAIN l /\ DOMAIN l \subseteq Options \cup {"daemon"}
    /\ "datacenters" \in DOMAIN l => l["datacenters"] \in Seq(Names)
    /\ "run" \in DOMAIN l => l["run"] \in {<<0>>, <<1>>}
ASSUME FilesAssumption == \A f \in Files : Scalar(f.options)

DefaultSocket == <<0>>
DefaultFile == <<0>>
Default ==
  [o \in Options |-> CASE o \in {"http", "duplicates", "datacenters"} -> <<1>>
                       [] o = "config" -> DefaultFile
                       [] o \in {"resources", "consul", "socket", "output"} -> <<>>
                       [] OTHER -> <<0>>]

(* The flags after parsing and PersistentPreRun.                           *)
Parsed(l) ==
  [o \in Options |-> LET value == IF o \in DOMAIN l THEN l[o] ELSE Default[o]
                     IN IF o = "socket" /\ value = <<>> THEN DefaultSocket ELSE value]

(* The options PreRunE passes through viper.                               *)
Merged == Options \ {"output", "config"}

FileOptions(f, l) == IF Parsed(l)["config"] = f.name THEN f.options ELSE <<>>

(* viper prefers a flag of the line to the file, and the file to the       *)
(* flag's value otherwise.                                                 *)
Viper(f, l, o) == IF o \notin DOMAIN l /\ o \in DOMAIN FileOptions(f, l)
                    THEN FileOptions(f, l)[o] ELSE Parsed(l)[o]

(* Mutated form: the file is preferred to the flags of the line.           *)
MergeFileFirst(f, l) ==
  [o \in Options |-> IF o \in Merged \cap DOMAIN FileOptions(f, l)
                       THEN FileOptions(f, l)[o] ELSE Parsed(l)[o]]

(* Every value viper has for an option is set on the flag: an empty one is *)
(* skipped, a list that the line has begun is appended to.                 *)
Merge(f, l) ==
  [o \in Options |->
     IF o \notin Merged \/ Viper(f, l, o) = <<>> THEN Parsed(l)[o]
     ELSE IF o = "datacenters" /\ o \in DOMAIN l THEN Parsed(l)[o] \o Viper(f, l, o)
     ELSE Viper(f, l, o)]

-----------------------------------------------------------------------------
(* Validation.                                                             *)

DatacentersFit(c) ==
  LET dcs == c["datacenters"]
  IN dcs # <<>> /\ \A i, j \in DOMAIN dcs : dcs[i] = dcs[j] => i = j

(* findConsul looks for a binary at the given path, in the current folder  *)
(* and on the PATH, in this order, but gives up at once when there is none *)
(* on the PATH: the error of LookPath is not one os.IsNotExist knows.      *)
Candidates(c) == (IF c["consul"] # <<>> THEN {"given"} ELSE {}) \cup {"folder", "PATH"}
FindConsul(c) == IF "PATH" \in programs THEN Candidates(c) \cap programs ELSE {}

FolderFits(c) ==
  c["resources"] # <<>> =>
    LET folder == c["resources"][1]
        dcs == c["datacenters"]
    IN /\ folder \in DOMAIN Folders
       /\ Len(dcs) > 1 => \A i \in DOMAIN dcs : dcs[i] \in Folders[folder]

CountsFit(c) == (c["tcp"][1] > 0 \/ c["http"][1] > 0) /\ c["duplicates"][1] > 0

Valid(c) ==
  /\ ~busy
  /\ FindConsul(c) # {}
  /\ DatacentersFit(c)
  /\ FolderFits(c)
  /\ CountsFit(c)

-----------------------------------------------------------------------------
(* What the daemon is told: neither the datacenters nor the external       *)
(* services, and --run only if it is on.                                   *)
Handed == {"tcp", "http", "duplicates", "resources", "socket", "config", "consul", "output"}

(* Mutated form: the daemon is not told which file was read.               *)
DaemonArgsWithoutFile(c) ==
  [o \in (Handed \ {"config"}) \cup {"daemon"} \cup (IF c["run"] = <<1>> THEN {"run"} ELSE {}) |->
     IF o = "daemon" THEN <<0>> ELSE c[o]]

(* Mutated form: --daemon is not taken out of the arguments.               *)
DaemonArgsUnfiltered(c) ==
  [o \in Handed \cup {"daemon"} \cup (IF c["run"] = <<1>> THEN {"run"} ELSE {}) |->
     IF o = "daemon" THEN <<1>> ELSE c[o]]

DaemonLog == <<9>>
DaemonArgs(c) ==
  [o \in Handed \cup {"daemon"} \cup (IF c["run"] = <<1>> THEN {"run"} ELSE {}) |->
     CASE o = "daemon" -> <<0>>
       [] o = "output" /\ c[o] = <<>> -> DaemonLog
       [] OTHER -> c[o]]

-----------------------------------------------------------------------------
Gone == {"none", "exited", "killed"}
Alive(p) == stage[p] \notin Gone

NoLine == [daemon |-> <<0>>]

Init ==
  /\ file \in Files /\ programs \in Programs /\ busy \in BOOLEAN
  /\ stage = [p \in Procs |-> IF p = 1 THEN "main" ELSE "none"]
  /\ \E l \in Lines : line = [p \in Procs |-> IF p = 1 THEN l ELSE NoLine]
  /\ env = [p \in Procs |-> FALSE]
  /\ config = [p \in Procs |-> Default]
  /\ said = [p \in Procs |-> "nothing"]
  /\ code = [p \in Procs |-> 0]

(* Process p ends with a status.                                           *)
ExitWith(p, status) ==
  /\ stage' = [stage EXCEPT ![p] = "exited"]
  /\ code' = [code EXCEPT ![p] = status]

(* Process p prints a line and goes on to a stage.  The output of a        *)
(* process started by a forker is a pipe: with the forker gone, writing to *)
(* it is deadly.                                                           *)
Piped(p) == p > 1 /\ env[p - 1]
Say(p, what, next, status) ==
  IF Piped(p) /\ ~Alive(p - 1)
    THEN stage' = [stage EXCEPT ![p] = "killed"] /\ UNCHANGED <<said, code>>
    ELSE /\ said' = [said EXCEPT ![p] = what]
         /\ stage' = [stage EXCEPT ![p] = next]
         /\ code' = [code EXCEPT ![p] = status]

(* Process p starts the next one.                                          *)
Spawn(p, next, l, daemonize) ==
  /\ p + 1 \in Procs
  /\ stage' = [stage EXCEPT ![p] = next, ![p + 1] = "main"]
  /\ line' = [line EXCEPT ![p + 1] = l]
  /\ env' = [env EXCEPT ![p + 1] = daemonize]
  /\ UNCHANGED <<config, said, code>>

-----------------------------------------------------------------------------
(* Handle: with _DAEMONIZE set the process is the forker, and starts the   *)
(* daemon with its own arguments; it fails if it cannot.                   *)
Fork(p) ==
  /\ stage[p] = "main" /\ env[p]
  /\ \/ Spawn(p, "listening", line[p], FALSE)
     \/ ExitWith(p, 1) /\ UNCHANGED <<line, env, config, said>>
  /\ UNCHANGED <<world, busy>>

(* Mutated form: a line on standard output and one on standard error are   *)
(* awaited; there are both only if the daemon ends with an error.          *)
HearBoth(p) ==
  /\ stage[p] = "listening" /\ said[p + 1] # "nothing" /\ ~Alive(p + 1)
  /\ ExitWith(p, 0)
  /\ UNCHANGED <<world, busy, line, env, config, said>>

(* Mutated form: the forker does not wait for the daemon's first line.     *)
HearNothing(p) ==
  /\ stage[p] = "listening"
  /\ ExitWith(p, 0)
  /\ UNCHANGED <<world, busy, line, env, config, said>>

(* The forker waits for the daemon's first line on either stream, and for  *)
(* nothing else.                                                           *)
Hear(p) ==
  /\ stage[p] = "listening" /\ said[p + 1] # "nothing"
  /\ ExitWith(p, 0)
  /\ UNCHANGED <<world, busy, line, env, config, said>>

(* Its daemon has died without a line.                                     *)
Unheard(p) == stage[p] = "listening" /\ ~Alive(p + 1) /\ said[p + 1] = "nothing"

(* Nothing in such a forker can run any more.  The Go runtime may find out *)
(* and end it with status 2; in a build with cgo it does not, and nothing  *)
(* else does.                                                              *)
Deadlock(p) ==
  /\ Unheard(p)
  /\ ExitWith(p, 2)
  /\ UNCHANGED <<world, busy, line, env, config, said>>

(* viper fails to read a file that is not one it can parse.  One that is   *)
(* not there counts as empty, but with --config "" viper looks for a file  *)
(* of its own, and its error is not one os.IsNotExist knows.               *)
Unreadable(f, l) ==
  \/ Parsed(l)["config"] = <<>>
  \/ ~f.readable /\ Parsed(l)["config"] = f.name

(* The root command up to its validation: refused with an error, or ready. *)
Configure(p) ==
  /\ stage[p] = "main" /\ ~env[p]
  /\ IF Unreadable(file, line[p])
       THEN Say(p, "error", "exited", 1) /\ UNCHANGED config
       ELSE LET c == Merge(file, line[p])
            IN /\ config' = [config EXCEPT ![p] = c]
               /\ IF Valid(c)
                    THEN stage' = [stage EXCEPT ![p] = "valid"] /\ UNCHANGED <<said, code>>
                    ELSE Say(p, "error", "exited", 1)
  /\ UNCHANGED <<world, busy, line, env>>

(* Daemonize starts the forker and waits for it.                           *)
Daemonize(p) ==
  /\ stage[p] = "valid" /\ line[p]["daemon"] = <<1>>
  /\ \/ Spawn(p, "waiting", DaemonArgs(config[p]), TRUE)
     \/ Say(p, "error", "exited", 1) /\ UNCHANGED <<line, env, config>>
  /\ UNCHANGED <<world, busy>>

(* Mutated form: the parent waits for a limited time only.                 *)
WaitBriefly(p) ==
  /\ stage[p] = "waiting"
  /\ IF stage[p + 1] = "exited" /\ code[p + 1] = 0
       THEN ExitWith(p, 0) /\ UNCHANGED said
       ELSE Say(p, "error", "exited", 1)
  /\ UNCHANGED <<world, busy, line, env, config>>

WaitForForker(p) ==
  /\ stage[p] = "waiting" /\ ~Alive(p + 1)
  /\ IF stage[p + 1] = "exited" /\ code[p + 1] = 0
       THEN ExitWith(p, 0) /\ UNCHANGED said
       ELSE Say(p, "error", "exited", 1)
  /\ UNCHANGED <<world, busy, line, env, config>>

(* Without --daemon the process becomes the run, once the file for its     *)
(* output is open.                                                         *)
Redirect(p) ==
  /\ stage[p] = "valid" /\ line[p]["daemon"] # <<1>>
  /\ IF config[p]["output"] = <<>>
       THEN stage' = [stage EXCEPT ![p] = "running"] /\ UNCHANGED <<said, code>>
       ELSE \/ Say(p, "info", "running", 0)
            \/ Say(p, "error", "exited", 1)
  /\ UNCHANGED <<world, busy, line, env, config>>

(* The run comes to an end, of which nobody is told after the first line.  *)
EndRun(p) ==
  /\ stage[p] \in {"running", "interrupted"}
  /\ \E status \in {0, 1} : ExitWith(p, status)
  /\ UNCHANGED <<world, busy, line, env, config, said>>

-----------------------------------------------------------------------------
(* Ctrl-C reaches every process while the parent is in the foreground; a   *)
(* run is interrupted, and everything else dies.                           *)
Interrupt ==
  /\ Alive(1)
  /\ stage' = [p \in Procs |-> IF ~Alive(p) THEN stage[p]
                               ELSE IF stage[p] \in {"running", "interrupted"}
                                 THEN "interrupted" ELSE "killed"]
  /\ UNCHANGED <<world, busy, line, env, config, said, code>>

Kill(p) ==
  /\ Alive(p)
  /\ stage' = [stage EXCEPT ![p] = "killed"]
  /\ UNCHANGED <<world, busy, line, env, config, said, code>>

(* Other runs take the socket path and free it.                            *)
OtherRun == busy' = ~busy /\ UNCHANGED <<world, procVars>>

Step(p) == Fork(p) \/ Hear(p) \/ Configure(p) \/ Daemonize(p)
             \/ WaitForForker(p) \/ Redirect(p)

Next ==
  \/ \E p \in Procs : Step(p) \/ Deadlock(p) \/ EndRun(p) \/ Kill(p)
  \/ Interrupt \/ OtherRun

(* A process that can make a step makes it.  How long a run lasts is open, *)
(* and so is whether the Go runtime notices a forker that waits in vain.   *)
Fairness == \A p \in Procs : WF_vars(Step(p))

Spec == Init /\ [][Next]_vars
FairSpec == Spec /\ Fairness

-----------------------------------------------------------------------------
(* Type invariant; --daemon is on the line of the first process only, or   *)
(* daemons would start daemons (filterArgs, fork.go:23).                   *)
TypeOK ==
  /\ file \in Files /\ programs \in Programs /\ busy \in BOOLEAN
  /\ \A p \in Procs :
       /\ stage[p] \in Gone \cup {"main", "listening", "valid", "waiting", "running",
                                  "interrupted"}
       /\ DOMAIN line[p] \subseteq Options \cup {"daemon"}
       /\ line[p]["daemon"] = <<1>> => p = 1
       /\ DOMAIN config[p] = Options
       /\ \A o \in Options \ {"datacenters"} : Len(config[p][o]) <= 1
       /\ env[p] \in BOOLEAN
       /\ said[p] \in {"nothing", "error", "info"}
       /\ code[p] \in 0..2

Validated(p) == stage[p] \in {"valid", "waiting", "running", "interrupted"}

(* What the documentation of flags and file amounts to: the line before    *)
(* the file before the default, for every option that gets through the     *)
(* validation, in the parent and (for what it was told) in the daemon.     *)
Intended(f, l) ==
  [o \in Options |->
     LET given == IF o \in DOMAIN l THEN l[o]
                  ELSE IF o \in Merged \cap DOMAIN FileOptions(f, l) THEN FileOptions(f, l)[o]
                  ELSE <<>>
         unset == o \notin DOMAIN l \/ o = "socket"
     IN IF given = <<>> /\ unset THEN Parsed(l)[o] ELSE given]
LineBeforeFile == \A p \in Procs : Validated(p) => config[p] = Intended(file, line[p])

(* The daemon runs what its parent has validated, except for what the      *)
(* parent was told on its line and does not pass on: the external services *)
(* (root.go:213-223 has no argument for them), and --run=false against a   *)
(* file that has run on.                                                   *)
Lost == ({"externalTCP", "externalHTTP"} \cap DOMAIN line[1])
          \cup {o \in {"run"} \cap DOMAIN line[1] : line[1][o] = <<0>>}
DaemonKeepsOptions ==
  Validated(3) => \A o \in Options \ (Lost \cup {"output"}) : config[3][o] = config[1][o]

(* The parent reports success only after the daemon has either opened its  *)
(* output, the last thing it can report, or printed why it did not: the    *)
(* first line counts whatever it says (fork.go:113), an error included.    *)
VerdictFirst ==
  line[1]["daemon"] = <<1>> /\ stage[1] = "exited" /\ code[1] = 0 =>
    said[3] # "nothing"

(* When the parent reports an error, no daemon goes on, unless the forker  *)
(* was killed between the two.                                             *)
FailureLeavesNone ==
  stage[1] = "exited" /\ code[1] # 0 =>
    ~Alive(3) \/ stage[2] = "killed" \/ stage[3] = "interrupted"

(* Starting a daemon ends, with success or not, as long as the daemon does *)
(* not die without a line: the forker (fork.go:91) waits for one of its    *)
(* two streams and not for its end, and the parent (fork.go:67) waits for  *)
(* the forker.                                                             *)
LaunchEnds == line[1]["daemon"] = <<1>> ~> ~Alive(1) \/ Unheard(2)

(* root.go:180: "Number of HTTP-based external services to register on the *)
(* mesh.": a daemon registers as many as its line says.                    *)
DaemonKeepsExternals ==
  Validated(3) => \A o \in {"externalTCP", "externalHTTP"} : config[3][o] = config[1][o]

=============================================================================
