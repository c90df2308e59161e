---------------------------- MODULE StartupProofs -----------------------------
(***************************************************************************)
(* Theorems about Startup for every command line and configuration file:   *)
(* what the verdict of the parent says about the daemon, and which options *)
(* parent and daemon run with.                                             *)
(***************************************************************************)
EXTENDS Startup, TLAPS

-----------------------------------------------------------------------------
(* The processes.                                                          *)

ProcType ==
  /\ stage \in [Procs -> Gone \cup {"main", "listening", "valid", "waiting", "running",
                                    "interrupted"}]
  /\ env \in [Procs -> BOOLEAN]
  /\ said \in [Procs -> {"nothing", "error", "info"}]
  /\ code \in [Procs -> 0..2]
  /\ line = [p \in Procs |-> line[p]]
  /\ config = [p \in Procs |-> config[p]]

Daemonizes == line[1]["daemon"] = <<1>>

(* The first process is the parent, the second the forker, the third the   *)
(* daemon, and each starts the next at most once.                          *)
Roles ==
  /\ ~env[1] /\ ~env[3]
  /\ stage[2] # "none" => env[2]
  /\ stage[1] \notin {"none", "listening"}
  /\ stage[2] \in Gone \cup {"main", "listening"}
  /\ stage[3] \notin {"listening", "waiting"}
  /\ stage[1] \in {"main", "valid", "running", "interrupted"} => stage[2] = "none"
  /\ stage[1] \in {"running", "interrupted"} => ~Daemonizes
  /\ stage[1] = "waiting" => stage[2] # "none"
  /\ stage[1] = "exited" => stage[2] \in Gone
  /\ stage[2] \in {"none", "main"} => stage[3] = "none"

(* What the forker's status says about the daemon, and then the parent's.  *)
Verdicts ==
  /\ stage[2] = "exited" /\ code[2] = 0 => said[3] # "nothing"
  /\ stage[2] = "exited" /\ code[2] # 0 => stage[3] \in Gone
  /\ VerdictFirst
  /\ FailureLeavesNone

ProcInv == ProcType /\ Roles /\ Verdicts

LEMMA ThreeProcs == Procs = {1, 2, 3}
  BY DEF Procs

LEMMA InitProcs == Init => ProcInv
<1> SUFFICES ASSUME Init PROVE ProcInv
  OBVIOUS
<1>1. PICK l \in Lines : line = [p \in Procs |-> IF p = 1 THEN l ELSE NoLine]
  BY DEF Init
<1>2. ProcType
  BY <1>1 DEF Init, ProcType, Gone
<1>3. Roles
  BY ThreeProcs DEF Init, Roles, Daemonizes, Gone
<1>4. Verdicts
  BY ThreeProcs DEF Init, Verdicts, VerdictFirst, FailureLeavesNone, Gone, Alive
<1> QED
  BY <1>2, <1>3, <1>4 DEF ProcInv

(* A step of the parent while there is nobody else.                        *)
LEMMA ParentAlone ==
  ASSUME ProcInv, ProcType', stage[2] = "none",
         NEW x \in {"valid", "exited", "running", "killed", "interrupted"},
         stage' = [stage EXCEPT ![1] = x],
         x \in {"running", "interrupted"} => ~Daemonizes,
         x = "exited" => ~Daemonizes \/ code'[1] # 0,
         line' = line, env' = env, code'[2] = code[2], said'[3] = said[3]
  PROVE  ProcInv'
<1>1. stage'[1] = x /\ stage'[2] = "none" /\ stage'[3] = "none"
  BY ThreeProcs DEF ProcInv, ProcType, Roles, Daemonizes
<1>2. Roles'
  BY <1>1 DEF ProcInv, Roles, Daemonizes, Gone
<1>3. Verdicts'
  BY <1>1 DEF ProcInv, Verdicts, VerdictFirst, FailureLeavesNone, Gone, Alive, Daemonizes
<1> QED
  BY <1>2, <1>3 DEF ProcInv

(* A step of the daemon.                                                   *)
LEMMA DaemonMoves ==
  ASSUME ProcInv, ProcType', stage[3] \notin Gone,
         NEW x \in Gone \cup {"valid", "running", "interrupted"}, x # "none",
         stage' = [stage EXCEPT ![3] = x],
         stage[3] = "interrupted" => x \in Gone \cup {"interrupted"},
         line' = line, env' = env, code'[1] = code[1], code'[2] = code[2],
         said[3] # "nothing" => said'[3] # "nothing"
  PROVE  ProcInv'
<1>1. stage'[1] = stage[1] /\ stage'[2] = stage[2] /\ stage'[3] = x
  BY ThreeProcs DEF ProcInv, ProcType
<1>2. Roles'
  BY <1>1 DEF ProcInv, Roles, Daemonizes, Gone
<1>3. Verdicts'
  BY <1>1 DEF ProcInv, Verdicts, VerdictFirst, FailureLeavesNone, Gone, Alive
<1> QED
  BY <1>2, <1>3 DEF ProcInv

LEMMA ForkStep ==
  ASSUME ProcInv, NEW p \in Procs, Fork(p)
  PROVE  ProcInv'
<1>1. p = 2 /\ stage[2] = "main" /\ stage[3] = "none"
  BY ThreeProcs DEF Fork, ProcInv, Roles, Daemonizes
<1>2. CASE Spawn(p, "listening", line[p], FALSE)
  <2>1. /\ stage' = [stage EXCEPT ![2] = "listening", ![3] = "main"]
        /\ line' = [line EXCEPT ![3] = line[2]] /\ env' = [env EXCEPT ![3] = FALSE]
        /\ config' = config /\ said' = said /\ code' = code
    BY <1>1, <1>2 DEF Spawn
  <2>2. ProcType'
    BY <2>1, ThreeProcs DEF ProcInv, ProcType
  <2>3. /\ stage'[1] = stage[1] /\ stage'[2] = "listening" /\ stage'[3] = "main"
        /\ line'[1] = line[1] /\ ~env'[1] /\ env'[2] = env[2] /\ ~env'[3]
    BY <2>1, ThreeProcs DEF ProcInv, ProcType, Roles, Daemonizes
  <2>4. stage[1] # "exited"
    BY <1>1 DEF ProcInv, Roles, Daemonizes, Gone
  <2>5. Roles' /\ Verdicts'
    BY <1>1, <2>1, <2>3, <2>4
    DEF ProcInv, Roles, Daemonizes, Verdicts, VerdictFirst, FailureLeavesNone, Gone
  <2> QED
    BY <2>2, <2>5 DEF ProcInv
<1>3. CASE ExitWith(p, 1) /\ UNCHANGED <<line, env, config, said>>
  <2>1. /\ stage' = [stage EXCEPT ![2] = "exited"] /\ code' = [code EXCEPT ![2] = 1]
        /\ line' = line /\ env' = env /\ config' = config /\ said' = said
    BY <1>1, <1>3 DEF ExitWith
  <2>2. ProcType'
    BY <2>1, ThreeProcs DEF ProcInv, ProcType, Gone
  <2>3. /\ stage'[1] = stage[1] /\ stage'[2] = "exited" /\ stage'[3] = "none"
        /\ code'[1] = code[1] /\ code'[2] = 1
    BY <1>1, <2>1, ThreeProcs DEF ProcInv, ProcType
  <2>4. stage[1] # "exited"
    BY <1>1 DEF ProcInv, Roles, Daemonizes, Gone
  <2>5. Roles' /\ Verdicts'
    BY <1>1, <2>1, <2>3, <2>4
    DEF ProcInv, Roles, Daemonizes, Verdicts, VerdictFirst, FailureLeavesNone, Gone
  <2> QED
    BY <2>2, <2>5 DEF ProcInv
<1> QED
  BY <1>2, <1>3 DEF Fork

LEMMA HearStep ==
  ASSUME ProcInv, NEW p \in Procs, Hear(p) \/ Deadlock(p)
  PROVE  ProcInv'
<1>1. p = 2 /\ stage[2] = "listening"
  BY ThreeProcs DEF Hear, Deadlock, Unheard, ProcInv, Roles, Daemonizes
<1>2. PICK status \in {0, 2} :
        /\ ExitWith(2, status)
        /\ status = 0 => said[3] # "nothing"
        /\ status = 2 => stage[3] \in Gone
  BY <1>1 DEF Hear, Deadlock, Unheard, Alive
<1>3. /\ stage' = [stage EXCEPT ![2] = "exited"] /\ code' = [code EXCEPT ![2] = status]
      /\ line' = line /\ env' = env /\ config' = config /\ said' = said
  BY <1>2 DEF Hear, Deadlock, ExitWith
<1>4. ProcType'
  BY <1>3, ThreeProcs DEF ProcInv, ProcType, Gone
<1>5. /\ stage'[1] = stage[1] /\ stage'[2] = "exited" /\ stage'[3] = stage[3]
      /\ code'[1] = code[1] /\ code'[2] = status
  BY <1>3, ThreeProcs DEF ProcInv, ProcType
<1>6. stage[1] # "exited"
  BY <1>1 DEF ProcInv, Roles, Daemonizes, Gone
<1>7. Roles' /\ Verdicts'
  BY <1>1, <1>2, <1>3, <1>5, <1>6
  DEF ProcInv, Roles, Daemonizes, Verdicts, VerdictFirst, FailureLeavesNone, Gone
<1> QED
  BY <1>4, <1>7 DEF ProcInv

(* What Say does to the parent, which has no pipe, and to the daemon.      *)
LEMMA ParentSays ==
  ASSUME ProcInv, NEW what \in {"error", "info"},
         NEW next \in {"exited", "running"}, NEW status \in 0..2,
         Say(1, what, next, status), line' = line, env' = env,
         config' = [p \in Procs |-> config'[p]]
  PROVE  /\ ProcType'
         /\ stage' = [stage EXCEPT ![1] = next]
         /\ said' = [said EXCEPT ![1] = what] /\ code' = [code EXCEPT ![1] = status]
<1>1. /\ stage' = [stage EXCEPT ![1] = next]
      /\ said' = [said EXCEPT ![1] = what] /\ code' = [code EXCEPT ![1] = status]
  BY DEF Say, Piped
<1> QED
  BY <1>1, ThreeProcs DEF ProcInv, ProcType, Gone

LEMMA DaemonSays ==
  ASSUME ProcInv, stage[3] \in {"main", "valid"}, NEW what \in {"error", "info"},
         NEW next \in {"exited", "running"}, NEW status \in 0..2,
         Say(3, what, next, status), line' = line, env' = env,
         config' = [p \in Procs |-> config'[p]]
  PROVE  ProcInv'
<1>1. PICK x \in {"exited", "running", "killed"} : stage' = [stage EXCEPT ![3] = x]
  BY DEF Say
<1>2. /\ said' \in [Procs -> {"nothing", "error", "info"}] /\ code' \in [Procs -> 0..2]
      /\ code'[1] = code[1] /\ code'[2] = code[2]
      /\ said[3] # "nothing" => said'[3] # "nothing"
  BY ThreeProcs DEF Say, ProcInv, ProcType
<1>3. ProcType'
  BY <1>1, <1>2, ThreeProcs DEF ProcInv, ProcType, Gone
<1> QED
  BY <1>1, <1>2, <1>3, DaemonMoves DEF Gone

LEMMA ConfigureStep ==
  ASSUME ProcInv, NEW p \in Procs, Configure(p)
  PROVE  ProcInv'
<1>1. p \in {1, 3} /\ stage[p] = "main" /\ line' = line /\ env' = env
  BY ThreeProcs DEF Configure, ProcInv, Roles, Daemonizes
<1>2. config' = [q \in Procs |-> config'[q]]
  BY DEF Configure, ProcInv, ProcType
<1>3. \/ Say(p, "error", "exited", 1)
      \/ stage' = [stage EXCEPT ![p] = "valid"] /\ said' = said /\ code' = code
  BY DEF Configure
<1>4. CASE Say(p, "error", "exited", 1)
  <2>1. CASE p = 1
    <3>1. /\ ProcType' /\ stage' = [stage EXCEPT ![1] = "exited"]
          /\ said' = [said EXCEPT ![1] = "error"] /\ code' = [code EXCEPT ![1] = 1]
      BY <1>1, <1>2, <1>4, <2>1, ParentSays
    <3>2. stage[2] = "none" /\ code'[1] # 0 /\ code'[2] = code[2] /\ said'[3] = said[3]
      BY <1>1, <2>1, <3>1, ThreeProcs DEF ProcInv, ProcType, Roles, Daemonizes
    <3> QED
      BY <1>1, <3>1, <3>2, ParentAlone
  <2>2. CASE p = 3
    BY <1>1, <1>2, <1>4, <2>2, DaemonSays
  <2> QED
    BY <1>1, <2>1, <2>2
<1>5. CASE stage' = [stage EXCEPT ![p] = "valid"] /\ said' = said /\ code' = code
  <2>1. ProcType'
    BY <1>1, <1>2, <1>5 DEF ProcInv, ProcType
  <2>2. CASE p = 1
    <3>1. stage[2] = "none"
      BY <1>1, <2>2 DEF ProcInv, Roles, Daemonizes
    <3> QED
      BY <1>1, <1>5, <2>1, <2>2, <3>1, ParentAlone
  <2>3. CASE p = 3
    BY <1>1, <1>5, <2>1, <2>3, DaemonMoves DEF Gone
  <2> QED
    BY <1>1, <2>2, <2>3
<1> QED
  BY <1>3, <1>4, <1>5

LEMMA DaemonizeStep ==
  ASSUME ProcInv, NEW p \in Procs, Daemonize(p)
  PROVE  ProcInv'
<1>1. p \in {1, 3} /\ stage[p] = "valid"
  BY ThreeProcs DEF Daemonize, ProcInv, Roles, Daemonizes, Gone
<1>2. CASE Spawn(p, "waiting", DaemonArgs(config[p]), TRUE)
  <2>1. p = 1
    BY <1>1, <1>2 DEF Spawn, Procs
  <2>2. /\ stage' = [stage EXCEPT ![1] = "waiting", ![2] = "main"]
        /\ line' = [line EXCEPT ![2] = DaemonArgs(config[1])]
        /\ env' = [env EXCEPT ![2] = TRUE]
        /\ config' = config /\ said' = said /\ code' = code
    BY <1>2, <2>1 DEF Spawn
  <2>3. ProcType'
    BY <2>2, ThreeProcs DEF ProcInv, ProcType
  <2>4. /\ stage'[1] = "waiting" /\ stage'[2] = "main" /\ stage'[3] = stage[3]
        /\ line'[1] = line[1] /\ ~env'[1] /\ env'[2] /\ ~env'[3] /\ stage[2] = "none"
    BY <1>1, <2>1, <2>2, ThreeProcs DEF ProcInv, ProcType, Roles, Daemonizes
  <2>5. Roles' /\ Verdicts'
    BY <2>2, <2>4
    DEF ProcInv, Roles, Daemonizes, Verdicts, VerdictFirst, FailureLeavesNone, Gone
  <2> QED
    BY <2>3, <2>5 DEF ProcInv
<1>3. CASE Say(p, "error", "exited", 1) /\ UNCHANGED <<line, env, config>>
  <2>1. config' = [q \in Procs |-> config'[q]]
    BY <1>3 DEF ProcInv, ProcType
  <2>2. CASE p = 1
    <3>1. /\ ProcType' /\ stage' = [stage EXCEPT ![1] = "exited"]
          /\ said' = [said EXCEPT ![1] = "error"] /\ code' = [code EXCEPT ![1] = 1]
      BY <1>3, <2>1, <2>2, ParentSays
    <3>2. stage[2] = "none" /\ code'[1] # 0 /\ code'[2] = code[2] /\ said'[3] = said[3]
      BY <1>1, <2>2, <3>1, ThreeProcs DEF ProcInv, ProcType, Roles, Daemonizes
    <3> QED
      BY <1>3, <3>1, <3>2, ParentAlone
  <2>3. CASE p = 3
    BY <1>1, <1>3, <2>1, <2>3, DaemonSays
  <2> QED
    BY <1>1, <2>2, <2>3
<1> QED
  BY <1>2, <1>3 DEF Daemonize

LEMMA WaitStep ==
  ASSUME ProcInv, NEW p \in Procs, WaitForForker(p)
  PROVE  ProcInv'
<1>1. p = 1 /\ stage[1] = "waiting" /\ stage[2] \in {"exited", "killed"}
  BY ThreeProcs DEF WaitForForker, ProcInv, Roles, Daemonizes, Alive, Gone
<1>2. /\ line' = line /\ env' = env /\ config' = config
      /\ stage' = [stage EXCEPT ![1] = "exited"]
  BY <1>1 DEF WaitForForker, ExitWith, Say, Piped
<1>3. PICK status \in {0, 1} :
        /\ code' = [code EXCEPT ![1] = status]
        /\ status = 0 <=> stage[2] = "exited" /\ code[2] = 0
  BY <1>1 DEF WaitForForker, ExitWith, Say, Piped
<1>4. said' \in [Procs -> {"nothing", "error", "info"}] /\ said'[3] = said[3]
  BY <1>1, ThreeProcs DEF WaitForForker, ExitWith, Say, Piped, ProcInv, ProcType
<1>5. ProcType'
  BY <1>2, <1>3, <1>4, ThreeProcs DEF ProcInv, ProcType, Gone
<1>6. /\ stage'[1] = "exited" /\ stage'[2] = stage[2] /\ stage'[3] = stage[3]
      /\ code'[1] = status /\ code'[2] = code[2]
  BY <1>2, <1>3, ThreeProcs DEF ProcInv, ProcType
<1>7. Roles'
  BY <1>1, <1>2, <1>6 DEF ProcInv, Roles, Daemonizes, Gone
<1>8. Verdicts'
  BY <1>1, <1>2, <1>3, <1>4, <1>6
  DEF ProcInv, Verdicts, VerdictFirst, FailureLeavesNone, Gone, Alive
<1> QED
  BY <1>5, <1>7, <1>8 DEF ProcInv

LEMMA RedirectStep ==
  ASSUME ProcInv, NEW p \in Procs, Redirect(p)
  PROVE  ProcInv'
<1>1. p \in {1, 3} /\ stage[p] = "valid" /\ line[p]["daemon"] # <<1>>
      /\ line' = line /\ env' = env /\ config' = config
  BY ThreeProcs DEF Redirect, ProcInv, Roles, Daemonizes, Gone
<1>2. config' = [q \in Procs |-> config'[q]]
  BY <1>1 DEF ProcInv, ProcType
<1>3. CASE stage' = [stage EXCEPT ![p] = "running"] /\ said' = said /\ code' = code
  <2>1. ProcType'
    BY <1>1, <1>3 DEF ProcInv, ProcType
  <2>2. CASE p = 1
    <3>1. stage[2] = "none"
      BY <1>1, <2>2 DEF ProcInv, Roles, Daemonizes
    <3> QED
      BY <1>1, <1>3, <2>1, <2>2, <3>1, ParentAlone DEF Daemonizes
  <2>3. CASE p = 3
    BY <1>1, <1>3, <2>1, <2>3, DaemonMoves DEF Gone
  <2> QED
    BY <1>1, <2>2, <2>3
<1>4. ASSUME NEW what \in {"error", "info"}, NEW next \in {"exited", "running"},
             NEW status \in {0, 1}, Say(p, what, next, status)
      PROVE  ProcInv'
  <2>1. CASE p = 1
    <3>1. /\ ProcType' /\ stage' = [stage EXCEPT ![1] = next]
          /\ said' = [said EXCEPT ![1] = what] /\ code' = [code EXCEPT ![1] = status]
      BY <1>1, <1>2, <1>4, <2>1, ParentSays
    <3>2. stage[2] = "none" /\ code'[2] = code[2] /\ said'[3] = said[3]
      BY <1>1, <2>1, <3>1, ThreeProcs DEF ProcInv, ProcType, Roles, Daemonizes
    <3> QED
      BY <1>1, <2>1, <3>1, <3>2, ParentAlone DEF Daemonizes
  <2>2. CASE p = 3
    BY <1>1, <1>2, <1>4, <2>2, DaemonSays
  <2> QED
    BY <1>1, <2>1, <2>2
<1> QED
  BY <1>3, <1>4 DEF Redirect

LEMMA EndRunStep ==
  ASSUME ProcInv, NEW p \in Procs, EndRun(p)
  PROVE  ProcInv'
<1>1. p \in {1, 3} /\ stage[p] \in {"running", "interrupted"}
      /\ line' = line /\ env' = env /\ config' = config /\ said' = said
  BY ThreeProcs DEF EndRun, ProcInv, Roles, Daemonizes, Gone
<1>2. PICK status \in {0, 1} : /\ stage' = [stage EXCEPT ![p] = "exited"]
                               /\ code' = [code EXCEPT ![p] = status]
  BY DEF EndRun, ExitWith
<1>3. ProcType'
  BY <1>1, <1>2 DEF ProcInv, ProcType, Gone
<1>4. code'[2] = code[2] /\ (p = 3 => code'[1] = code[1])
  BY <1>1, <1>2, ThreeProcs DEF ProcInv, ProcType
<1>5. CASE p = 1
  <2>1. stage[2] = "none" /\ ~Daemonizes
    BY <1>1, <1>5 DEF ProcInv, Roles, Daemonizes
  <2> QED
    BY <1>1, <1>2, <1>3, <1>4, <1>5, <2>1, ParentAlone
<1>6. CASE p = 3
  BY <1>1, <1>2, <1>3, <1>4, <1>6, DaemonMoves DEF Gone
<1> QED
  BY <1>1, <1>5, <1>6

(* Processes that end by a signal.                                         *)
LEMMA SignalStep ==
  ASSUME ProcInv, Interrupt \/ \E p \in Procs : Kill(p)
  PROVE  ProcInv'
<1>1. line' = line /\ env' = env /\ config' = config /\ said' = said /\ code' = code
  BY DEF Interrupt, Kill
<1>2. CASE Interrupt
  <2>1. stage' = [p \in Procs |-> IF stage[p] \in Gone THEN stage[p]
                                  ELSE IF stage[p] \in {"running", "interrupted"}
                                    THEN "interrupted" ELSE "killed"]
    BY <1>2 DEF Interrupt, Alive
  <2>2. ProcType'
    BY <1>1, <2>1 DEF ProcInv, ProcType, Gone
  <2>3. \A p \in {1, 2, 3} :
          /\ stage[p] \in Gone => stage'[p] = stage[p]
          /\ stage[p] \in {"running", "interrupted"} => stage'[p] = "interrupted"
          /\ stage[p] \notin Gone \cup {"running", "interrupted"} => stage'[p] = "killed"
    BY <2>1, ThreeProcs DEF Gone
  <2>4. Roles' /\ Verdicts'
    BY <1>1, <2>3
    DEF ProcInv, Roles, Daemonizes, Verdicts, VerdictFirst, FailureLeavesNone, Gone, Alive
  <2> QED
    BY <2>2, <2>4 DEF ProcInv
<1>3. ASSUME NEW p \in Procs, Kill(p) PROVE ProcInv'
  <2>1. stage' = [stage EXCEPT ![p] = "killed"] /\ stage[p] \notin Gone
    BY <1>3 DEF Kill, Alive
  <2>2. ProcType'
    BY <1>1, <2>1 DEF ProcInv, ProcType, Gone
  <2>3. \A q \in {1, 2, 3} : stage'[q] = IF q = p THEN "killed" ELSE stage[q]
    BY <2>1, ThreeProcs DEF ProcInv, ProcType
  <2>4. Roles' /\ Verdicts'
    BY <1>1, <2>1, <2>3, ThreeProcs
    DEF ProcInv, Roles, Daemonizes, Verdicts, VerdictFirst, FailureLeavesNone, Gone, Alive
  <2> QED
    BY <2>2, <2>4 DEF ProcInv
<1> QED
  BY <1>2, <1>3

LEMMA ProcsKept ==
  ASSUME ProcInv, UNCHANGED procVars
  PROVE  ProcInv'
  BY DEF procVars, ProcInv, ProcType, Roles, Daemonizes, Verdicts, VerdictFirst,
         FailureLeavesNone, Alive

(* Every step preserves the invariant of the processes.                    *)
LEMMA ProcStep == ProcInv /\ [Next]_vars => ProcInv'
<1> SUFFICES ASSUME ProcInv, [Next]_vars PROVE ProcInv'
  OBVIOUS
<1>1. CASE OtherRun \/ UNCHANGED vars
  BY <1>1, ProcsKept DEF OtherRun, vars
<1>2. ASSUME NEW p \in Procs, Step(p) PROVE ProcInv'
  BY <1>2, ForkStep, HearStep, ConfigureStep, DaemonizeStep, WaitStep, RedirectStep
  DEF Step
<1> QED
  BY <1>1, <1>2, HearStep, EndRunStep, SignalStep DEF Next

THEOREM ProcInvariant == Spec => []ProcInv
  BY InitProcs, ProcStep, PTL DEF Spec

(* The parent of fork.go:47 reports success only after the daemon's first  *)
(* line, whatever the command line, the file, and the processes do.        *)
THEOREM SuccessIsHeard == Spec => []VerdictFirst
<1>1. ProcInv => VerdictFirst
  BY DEF ProcInv, Verdicts
<1> QED
  BY <1>1, ProcInvariant, PTL

(* A parent that reports an error leaves no daemon, unless the forker was  *)
(* killed or the daemon is being interrupted.                              *)
THEOREM FailureIsClean == Spec => []FailureLeavesNone
<1>1. ProcInv => FailureLeavesNone
  BY DEF ProcInv, Verdicts
<1> QED
  BY <1>1, ProcInvariant, PTL

-----------------------------------------------------------------------------
(* The options.                                                            *)

LineOK(l) ==
  /\ "datacenters" \in DOMAIN l => l["datacenters"] \in Seq(Names)
  /\ "run" \in DOMAIN l => l["run"] \in {<<0>>, <<1>>}

Right(p) == config[p] = Merge(file, line[p]) /\ DatacentersFit(config[p])

(* Who is past the validation has the merged options; a forker was given   *)
(* its line by a parent that was, and a daemon has the forker's line.      *)
ConfigInv ==
  /\ \A p \in Procs : LineOK(line[p])
  /\ \A p \in Procs : Validated(p) => Right(p)
  /\ stage[2] # "none" => Right(1) /\ line[2] = DaemonArgs(config[1])
  /\ stage[3] # "none" => line[3] = line[2]

LEMMA InitConfig == Init => ConfigInv
<1> SUFFICES ASSUME Init PROVE ConfigInv
  OBVIOUS
<1>1. PICK l \in Lines : line = [p \in Procs |-> IF p = 1 THEN l ELSE NoLine]
  BY DEF Init
<1>2. LineOK(l) /\ LineOK(NoLine)
  BY LinesAssumption DEF LineOK, NoLine
<1>3. \A p \in Procs : LineOK(line[p])
  BY <1>1, <1>2
<1> QED
  BY <1>3, ThreeProcs DEF Init, ConfigInv, Validated

(* A step that changes neither lines nor options nor gets anybody through  *)
(* the validation.                                                         *)
LEMMA ConfigKept ==
  ASSUME ConfigInv, file' = file, line' = line, config' = config,
         \A p \in Procs : Validated(p)' => Validated(p),
         stage'[2] # "none" => stage[2] # "none",
         stage'[3] # "none" => stage[3] # "none"
  PROVE  ConfigInv'
<1>1. \A p \in Procs : Right(p)' <=> Right(p)
  BY DEF Right
<1>2. 1 \in Procs
  BY ThreeProcs
<1> QED
  BY <1>1, <1>2 DEF ConfigInv

(* What a step that ends or interrupts processes does to their stages.     *)
LEMMA StageKept ==
  ASSUME ConfigInv, ProcInv, file' = file, line' = line, config' = config,
         NEW p \in Procs, stage[p] # "none",
         NEW x, stage' = [stage EXCEPT ![p] = x],
         x \in {"running", "waiting"} => Validated(p),
         x \in Gone \cup {"running", "waiting", "listening"}
  PROVE  ConfigInv'
<1>1. \A q \in {1, 2, 3} : stage'[q] = IF q = p THEN x ELSE stage[q]
  BY ThreeProcs DEF ProcInv, ProcType
<1>2. \A q \in Procs : Validated(q)' => Validated(q)
  BY <1>1, ThreeProcs DEF Validated, Gone
<1>3. /\ stage'[2] # "none" => stage[2] # "none"
      /\ stage'[3] # "none" => stage[3] # "none"
  BY <1>1
<1> QED
  BY <1>2, <1>3, ConfigKept

LEMMA ForkConfig ==
  ASSUME ConfigInv, ProcInv, NEW p \in Procs, Fork(p)
  PROVE  ConfigInv'
<1>1. p = 2 /\ stage[2] = "main" /\ stage[3] = "none" /\ file' = file
  BY ThreeProcs DEF Fork, ProcInv, Roles, Daemonizes, world
<1>2. CASE Spawn(p, "listening", line[p], FALSE)
  <2>1. /\ stage' = [stage EXCEPT ![2] = "listening", ![3] = "main"]
        /\ line' = [line EXCEPT ![3] = line[2]] /\ config' = config
    BY <1>1, <1>2 DEF Spawn
  <2>2. /\ stage'[1] = stage[1] /\ stage'[2] = "listening" /\ stage'[3] = "main"
        /\ line'[1] = line[1] /\ line'[2] = line[2] /\ line'[3] = line[2]
    BY <2>1, ThreeProcs DEF ProcInv, ProcType
  <2>3. Right(1)' <=> Right(1)
    BY <1>1, <2>1, <2>2 DEF Right
  <2>4. \A q \in Procs : Validated(q)' => Right(q)'
    BY <1>1, <2>2, <2>3, ThreeProcs DEF Validated, ConfigInv
  <2>5. \A q \in Procs : LineOK(line'[q])
    BY <2>2, ThreeProcs DEF ConfigInv
  <2> QED
    BY <1>1, <2>1, <2>2, <2>3, <2>4, <2>5 DEF ConfigInv, LineOK
<1>3. CASE ExitWith(p, 1) /\ UNCHANGED <<line, env, config, said>>
  BY <1>1, <1>3, StageKept DEF ExitWith, Gone
<1> QED
  BY <1>2, <1>3 DEF Fork

LEMMA ConfigureConfig ==
  ASSUME ConfigInv, ProcInv, NEW p \in Procs, Configure(p)
  PROVE  ConfigInv'
<1>1. p \in {1, 3} /\ stage[p] = "main" /\ file' = file /\ line' = line
  BY ThreeProcs DEF Configure, ProcInv, Roles, Daemonizes, world
<1>2. \A q \in Procs \ {p} : config'[q] = config[q] /\ stage'[q] = stage[q]
  BY DEF Configure, Say, ProcInv, ProcType
<1>3. stage'[p] = "valid" => Right(p)'
  <2>1. SUFFICES ASSUME stage'[p] = "valid" PROVE Right(p)'
    OBVIOUS
  <2>2. ~Say(p, "error", "exited", 1)
    BY <2>1 DEF Say, ProcInv, ProcType
  <2>3. /\ config' = [config EXCEPT ![p] = Merge(file, line[p])]
        /\ Valid(Merge(file, line[p]))
    BY <2>2 DEF Configure
  <2>4. config'[p] = Merge(file, line[p])
    BY <2>3 DEF ProcInv, ProcType
  <2> QED
    BY <1>1, <2>3, <2>4 DEF Right, Valid
<1>4. stage'[p] \in {"valid", "exited", "killed"}
  BY DEF Configure, Say, ProcInv, ProcType
<1>5. \A q \in Procs \ {p} : Right(q)' <=> Right(q)
  BY <1>1, <1>2 DEF Right
<1>6. \A q \in Procs : Validated(q)' => Right(q)'
  BY <1>2, <1>3, <1>4, <1>5 DEF Validated, ConfigInv
<1>7. stage'[2] # "none" => Right(1)' /\ line'[2] = DaemonArgs(config'[1])
  <2>1. p = 1 => stage[2] = "none" /\ stage'[2] = "none"
    BY <1>1, <1>2, ThreeProcs DEF ProcInv, Roles, Daemonizes
  <2>2. p = 3 => (Right(1)' <=> Right(1)) /\ config'[1] = config[1] /\ stage'[2] = stage[2]
    BY <1>2, <1>5, ThreeProcs
  <2> QED
    BY <1>1, <2>1, <2>2 DEF ConfigInv
<1>8. stage'[3] # "none" => line'[3] = line'[2]
  BY <1>1, <1>2, ThreeProcs DEF ConfigInv
<1> QED
  BY <1>1, <1>6, <1>7, <1>8 DEF ConfigInv

LEMMA DaemonizeConfig ==
  ASSUME ConfigInv, ProcInv, NEW p \in Procs, Daemonize(p)
  PROVE  ConfigInv'
<1>1. p \in {1, 3} /\ stage[p] = "valid" /\ file' = file
  BY ThreeProcs DEF Daemonize, ProcInv, Roles, Daemonizes, Gone, world
<1>2. CASE Spawn(p, "waiting", DaemonArgs(config[p]), TRUE)
  <2>1. p = 1
    BY <1>1, <1>2 DEF Spawn, Procs
  <2>2. /\ stage' = [stage EXCEPT ![1] = "waiting", ![2] = "main"]
        /\ line' = [line EXCEPT ![2] = DaemonArgs(config[1])] /\ config' = config
    BY <1>2, <2>1 DEF Spawn
  <2>3. /\ stage'[1] = "waiting" /\ stage'[2] = "main" /\ stage'[3] = stage[3]
        /\ line'[1] = line[1] /\ line'[2] = DaemonArgs(config[1]) /\ line'[3] = line[3]
        /\ stage[3] = "none"
    BY <1>1, <2>1, <2>2, ThreeProcs DEF ProcInv, ProcType, Roles, Daemonizes
  <2>4. Right(1) /\ (Right(1)' <=> Right(1))
    BY <1>1, <2>1, <2>2, <2>3, ThreeProcs DEF Right, ConfigInv, Validated
  <2>5. \A q \in Procs : Validated(q)' => Right(q)'
    BY <2>3, <2>4, ThreeProcs DEF Validated
  <2>6. LineOK(DaemonArgs(config[1]))
    <3>1. "datacenters" \notin DOMAIN DaemonArgs(config[1])
      BY DEF DaemonArgs, Handed
    <3>2. "run" \in DOMAIN DaemonArgs(config[1]) => DaemonArgs(config[1])["run"] = <<1>>
      BY DEF DaemonArgs, Handed
    <3> QED
      BY <3>1, <3>2 DEF LineOK
  <2>7. \A q \in Procs : LineOK(line'[q])
    BY <2>3, <2>6, ThreeProcs DEF ConfigInv
  <2> QED
    BY <2>2, <2>3, <2>4, <2>5, <2>7 DEF ConfigInv, LineOK
<1>3. CASE Say(p, "error", "exited", 1) /\ UNCHANGED <<line, env, config>>
  <2>1. PICK x \in {"exited", "killed"} : stage' = [stage EXCEPT ![p] = x]
    BY <1>3 DEF Say
  <2> QED
    BY <1>1, <1>3, <2>1, StageKept DEF Gone
<1> QED
  BY <1>2, <1>3 DEF Daemonize

LEMMA QuietConfig ==
  ASSUME ConfigInv, ProcInv, NEW p \in Procs,
         Hear(p) \/ Deadlock(p) \/ WaitForForker(p) \/ Redirect(p) \/ EndRun(p) \/ Kill(p)
  PROVE  ConfigInv'
<1>1. file' = file /\ line' = line /\ config' = config
  BY DEF Hear, Deadlock, WaitForForker, Redirect, EndRun, Kill, world
<1>2. PICK x \in {"exited", "killed", "running"} :
        /\ stage' = [stage EXCEPT ![p] = x]
        /\ x = "running" => stage[p] = "valid"
  BY DEF Hear, Deadlock, WaitForForker, Redirect, EndRun, Kill, ExitWith, Say
<1>3. stage[p] # "none"
  BY DEF Hear, Deadlock, Unheard, WaitForForker, Redirect, EndRun, Kill, Alive, Gone
<1> QED
  BY <1>1, <1>2, <1>3, StageKept DEF Validated, Gone

LEMMA InterruptConfig ==
  ASSUME ConfigInv, ProcInv, Interrupt
  PROVE  ConfigInv'
<1>1. file' = file /\ line' = line /\ config' = config
  BY DEF Interrupt, world
<1>2. \A p \in Procs :
        /\ Validated(p)' => Validated(p)
        /\ stage'[p] # "none" => stage[p] # "none"
  BY DEF Interrupt, Validated, Alive, Gone
<1> QED
  BY <1>1, <1>2, ThreeProcs, ConfigKept

(* Every step preserves the invariant of the options.                      *)
LEMMA ConfigStep == ProcInv /\ ConfigInv /\ [Next]_vars => ConfigInv'
<1> SUFFICES ASSUME ProcInv, ConfigInv, [Next]_vars PROVE ConfigInv'
  OBVIOUS
<1>1. CASE OtherRun \/ UNCHANGED vars
  BY <1>1, ConfigKept DEF OtherRun, vars, world, procVars, Validated
<1>2. ASSUME NEW p \in Procs, Step(p) PROVE ConfigInv'
  BY <1>2, ForkConfig, ConfigureConfig, DaemonizeConfig, QuietConfig DEF Step
<1> QED
  BY <1>1, <1>2, QuietConfig, InterruptConfig DEF Next

THEOREM ConfigInvariant == Spec => []ConfigInv
  BY InitConfig, ConfigStep, ProcInvariant, InitProcs, ProcStep, PTL DEF Spec

(* A list of datacenters on the line is set on the flag twice, and is      *)
(* refused for its duplicates: no such line gets through.                  *)
LEMMA NoDatacenters ==
  ASSUME NEW f, NEW l, LineOK(l), DatacentersFit(Merge(f, l))
  PROVE  "datacenters" \notin DOMAIN l
<1> SUFFICES ASSUME "datacenters" \in DOMAIN l PROVE FALSE
  OBVIOUS
<1> DEFINE s == l["datacenters"]
<1>1. s \in Seq(Names)
  BY DEF LineOK
<1>2. Parsed(l)["datacenters"] = s /\ Viper(f, l, "datacenters") = s
  BY DEF Parsed, Viper, Options, Strings, Counts
<1>3. Merge(f, l)["datacenters"] = IF s = <<>> THEN s ELSE s \o s
  BY <1>2 DEF Merge, Merged, Options
<1>4. s # <<>> /\ Merge(f, l)["datacenters"] = s \o s
  BY <1>3 DEF DatacentersFit
<1>5. 1 \in 1..Len(s) /\ Len(s) \in Nat
  BY <1>1, <1>4
<1>6. /\ (s \o s)[1] = s[1] /\ (s \o s)[Len(s) + 1] = s[1]
      /\ 1 \in DOMAIN (s \o s) /\ Len(s) + 1 \in DOMAIN (s \o s)
  BY <1>1, <1>5
<1>7. 1 = Len(s) + 1
  BY <1>4, <1>6 DEF DatacentersFit
<1> QED
  BY <1>5, <1>7

(* For the options that get through, merging is what it is meant to be.    *)
LEMMA MergeIntended ==
  ASSUME NEW f, NEW l, LineOK(l), DatacentersFit(Merge(f, l))
  PROVE  Merge(f, l) = Intended(f, l)
<1>1. "datacenters" \notin DOMAIN l
  BY NoDatacenters
<1>2. DefaultSocket # <<>>
  BY DEF DefaultSocket
<1>3. ASSUME NEW o \in Options
      PROVE  Merge(f, l)[o] = Intended(f, l)[o]
  <2>1. Merge(f, l)[o] = IF o \notin Merged \/ Viper(f, l, o) = <<>> THEN Parsed(l)[o]
                         ELSE Viper(f, l, o)
    BY <1>1, <1>3 DEF Merge
  <2>2. CASE o \in DOMAIN l
    <3>1. Parsed(l)[o] = IF o = "socket" /\ l[o] = <<>> THEN DefaultSocket ELSE l[o]
      BY <1>3, <2>2 DEF Parsed
    <3>2. Merge(f, l)[o] = Parsed(l)[o]
      BY <2>1, <2>2 DEF Viper
    <3>3. Intended(f, l)[o] = IF l[o] = <<>> /\ o = "socket" THEN Parsed(l)[o] ELSE l[o]
      BY <1>3, <2>2 DEF Intended
    <3> QED
      BY <3>1, <3>2, <3>3
  <2>3. CASE o \notin DOMAIN l /\ o \in Merged \cap DOMAIN FileOptions(f, l)
    <3>1. Viper(f, l, o) = FileOptions(f, l)[o]
      BY <2>3 DEF Viper
    <3>2. Intended(f, l)[o] = IF FileOptions(f, l)[o] = <<>> THEN Parsed(l)[o]
                              ELSE FileOptions(f, l)[o]
      BY <1>3, <2>3 DEF Intended
    <3> QED
      BY <2>1, <2>3, <3>1, <3>2
  <2>4. CASE o \notin DOMAIN l /\ o \notin Merged \cap DOMAIN FileOptions(f, l)
    <3>1. Merge(f, l)[o] = Parsed(l)[o]
      BY <2>1, <2>4 DEF Viper
    <3>2. Intended(f, l)[o] = Parsed(l)[o]
      BY <1>3, <2>4 DEF Intended
    <3> QED
      BY <3>1, <3>2
  <2> QED
    BY <2>2, <2>3, <2>4
<1>4. /\ Merge(f, l) = [o \in Options |-> Merge(f, l)[o]]
      /\ Intended(f, l) = [o \in Options |-> Intended(f, l)[o]]
  BY DEF Merge, Intended
<1> QED
  BY <1>3, <1>4, Zenon

(* The line before the file before the default (root.go:56), for every     *)
(* line and file that get through the validation.                          *)
THEOREM LineFirst == Spec => []LineBeforeFile
<1>1. ConfigInv => LineBeforeFile
  BY MergeIntended DEF ConfigInv, Right, LineBeforeFile
<1> QED
  BY <1>1, ConfigInvariant, PTL

(* What the daemon is not told of a line.                                  *)
Unsaid(l) == ({"externalTCP", "externalHTTP"} \cap DOMAIN l)
               \cup {o \in {"run"} \cap DOMAIN l : l[o] = <<0>>}

(* The options of a daemon, from those of its parent.                      *)
LEMMA DaemonMerges ==
  ASSUME NEW f, NEW l, LineOK(l), DatacentersFit(Merge(f, l)),
         NEW o \in Options \ (Unsaid(l) \cup {"output"})
  PROVE  Merge(f, DaemonArgs(Merge(f, l)))[o] = Merge(f, l)[o]
<1> DEFINE c == Merge(f, l)
<1> DEFINE d == DaemonArgs(c)
<1>1. DOMAIN d = Handed \cup {"daemon"} \cup (IF c["run"] = <<1>> THEN {"run"} ELSE {})
  BY DEF DaemonArgs
<1>2. \A h \in (DOMAIN d) \ {"daemon", "output"} : d[h] = c[h]
  BY <1>1 DEF DaemonArgs
<1>3. "datacenters" \notin DOMAIN l /\ "datacenters" \notin DOMAIN d
  BY <1>1, NoDatacenters DEF Handed
<1>4. Parsed(d)["config"] = Parsed(l)["config"]
  <2>1. c["config"] = Parsed(l)["config"]
    BY DEF Merge, Merged, Options, Strings
  <2>2. Parsed(d)["config"] = d["config"]
    BY <1>1 DEF Parsed, Handed, Options, Strings
  <2> QED
    BY <1>1, <1>2, <2>1, <2>2 DEF Handed
<1>5. FileOptions(f, d) = FileOptions(f, l)
  BY <1>4 DEF FileOptions
<1>6. CASE o \in DOMAIN d
  <2>1. o = "socket" => c[o] # <<>>
    <3>1. SUFFICES ASSUME o = "socket" PROVE c[o] # <<>>
      OBVIOUS
    <3>2. Parsed(l)[o] # <<>>
      BY <3>1 DEF Parsed, DefaultSocket, Options, Strings, Default
    <3> QED
      BY <3>1, <3>2 DEF Merge
  <2>2. d[o] = c[o]
    BY <1>2, <1>6 DEF Options, Counts, Strings
  <2>3. Parsed(d)[o] = c[o]
    BY <1>6, <2>1, <2>2 DEF Parsed
  <2>4. Merge(f, d)[o] = Parsed(d)[o]
    BY <1>3, <1>6 DEF Merge, Viper
  <2> QED
    BY <2>3, <2>4
<1>7. CASE o \notin DOMAIN d
  <2>1. o \in {"run", "datacenters", "externalTCP", "externalHTTP"}
    BY <1>1, <1>7 DEF Handed, Options, Counts, Strings
  <2>2. o \notin DOMAIN l
    <3>1. SUFFICES ASSUME o = "run", o \in DOMAIN l PROVE FALSE
      BY <1>3, <2>1 DEF Unsaid
    <3>2. l["run"] = <<1>>
      BY <3>1 DEF LineOK, Unsaid
    <3>3. Parsed(l)["run"] = <<1>> /\ Viper(f, l, "run") = Parsed(l)["run"]
      BY <3>1, <3>2 DEF Parsed, Viper, Options
    <3>4. c["run"] = <<1>>
      BY <3>3 DEF Merge, Options
    <3> QED
      BY <1>1, <1>7, <3>1, <3>4
  <2>3. Parsed(d)[o] = Parsed(l)[o]
    BY <1>7, <2>2 DEF Parsed
  <2>4. Viper(f, d, o) = Viper(f, l, o)
    BY <1>5, <1>7, <2>2, <2>3 DEF Viper
  <2> QED
    BY <1>7, <2>2, <2>3, <2>4 DEF Merge
<1> QED
  BY <1>6, <1>7

(* The daemon runs with its parent's options (root.go:207), for every line *)
(* and file.                                                               *)
THEOREM DaemonFollows == Spec => []DaemonKeepsOptions
<1>1. ProcInv /\ ConfigInv => DaemonKeepsOptions
  <2> SUFFICES ASSUME ProcInv, ConfigInv, Validated(3),
                      NEW o \in Options \ (Lost \cup {"output"})
               PROVE  config[3][o] = config[1][o]
    BY DEF DaemonKeepsOptions
  <2>1. stage[3] # "none" /\ stage[2] # "none"
    BY DEF Validated, ProcInv, Roles, Daemonizes
  <2>2. /\ config[1] = Merge(file, line[1]) /\ DatacentersFit(Merge(file, line[1]))
        /\ config[3] = Merge(file, DaemonArgs(Merge(file, line[1]))) /\ LineOK(line[1])
    BY <2>1, ThreeProcs DEF ConfigInv, Right
  <2>3. o \in Options \ (Unsaid(line[1]) \cup {"output"})
    BY DEF Lost, Unsaid
  <2>4. Merge(file, DaemonArgs(Merge(file, line[1])))[o] = Merge(file, line[1])[o]
    BY <2>2, <2>3, DaemonMerges
  <2> QED
    BY <2>2, <2>4
<1> QED
  BY <1>1, ProcInvariant, ConfigInvariant, PTL

-----------------------------------------------------------------------------
(* What the options look like.                                             *)

LineType(l) == DOMAIN l \subseteq Options \cup {"daemon"} /\ Scalar(l)
ConfigType(c) == DOMAIN c = Options /\ Scalar(c)
StartsNone(l) == l["daemon"] # <<1>>

(* The processes that the parent starts are told not to start a daemon.    *)
Shaped ==
  /\ file \in Files /\ programs \in Programs
  /\ \A p \in Procs : LineType(line[p]) /\ ConfigType(config[p])
  /\ \A p \in Procs \ {1} : StartsNone(line[p])

LEMMA DefaultIs == ConfigType(Default) /\ LineType(NoLine) /\ StartsNone(NoLine)
<1>1. \A o \in Options \ {"datacenters"} : Len(Default[o]) <= 1
  BY DEF Default, DefaultFile
<1>2. ConfigType(Default)
  BY <1>1 DEF ConfigType, Scalar, Default
<1>3. DOMAIN NoLine = {"daemon"} /\ NoLine["daemon"] = <<0>>
  BY DEF NoLine
<1> QED
  <2>1. LineType(NoLine)
    <3>1. Len(NoLine["daemon"]) <= 1
      BY <1>3
    <3> QED
      BY <1>3, <3>1 DEF LineType, Scalar
  <2>2. StartsNone(NoLine)
    BY <1>3 DEF StartsNone
  <2> QED
    BY <1>2, <2>1, <2>2

LEMMA MergeIs ==
  ASSUME NEW f \in Files, NEW l, LineType(l)
  PROVE  ConfigType(Merge(f, l))
<1>1. DOMAIN Merge(f, l) = Options /\ DOMAIN Default = Options
  BY DEF Merge, Default
<1>2. ASSUME NEW o \in Options \ {"datacenters"} PROVE Len(Merge(f, l)[o]) <= 1
  <2>1. Len(Default[o]) <= 1 /\ Len(DefaultSocket) <= 1
    BY <1>1, <1>2, DefaultIs DEF ConfigType, Scalar, DefaultSocket
  <2>2. o \in DOMAIN l => Len(l[o]) <= 1
    BY <1>2 DEF LineType, Scalar
  <2>3. Len(Parsed(l)[o]) <= 1
    BY <1>2, <2>1, <2>2 DEF Parsed
  <2>4. o \in DOMAIN FileOptions(f, l) => Len(FileOptions(f, l)[o]) <= 1
    BY <1>2, FilesAssumption DEF FileOptions, Scalar
  <2>5. Len(Viper(f, l, o)) <= 1
    BY <2>3, <2>4 DEF Viper
  <2>6. Merge(f, l)[o] \in {Parsed(l)[o], Viper(f, l, o)}
    BY <1>2 DEF Merge
  <2> QED
    BY <2>3, <2>5, <2>6
<1> QED
  BY <1>1, <1>2 DEF ConfigType, Scalar

LEMMA DaemonArgsAre ==
  ASSUME NEW c, ConfigType(c)
  PROVE  LineType(DaemonArgs(c)) /\ StartsNone(DaemonArgs(c))
<1> DEFINE d == DaemonArgs(c)
<1>1. /\ DOMAIN d = Handed \cup {"daemon"} \cup (IF c["run"] = <<1>> THEN {"run"} ELSE {})
      /\ d["daemon"] = <<0>>
  BY DEF DaemonArgs
<1>2. DOMAIN d \subseteq Options \cup {"daemon"}
  BY <1>1 DEF Handed, Options, Counts, Strings
<1>3. \A o \in (DOMAIN d) \ {"daemon"} : d[o] \in {c[o], DaemonLog}
  BY <1>1 DEF DaemonArgs
<1>4. Len(DaemonLog) <= 1 /\ Len(d["daemon"]) <= 1
  BY <1>1 DEF DaemonLog
<1>5. ASSUME NEW o \in (DOMAIN d) \ {"datacenters"} PROVE Len(d[o]) <= 1
  BY <1>2, <1>3, <1>4, <1>5 DEF ConfigType, Scalar
<1> QED
  BY <1>1, <1>2, <1>5 DEF LineType, Scalar, StartsNone

LEMMA InitShaped == Init => Shaped
<1> SUFFICES ASSUME Init PROVE Shaped
  OBVIOUS
<1>1. PICK l \in Lines : line = [p \in Procs |-> IF p = 1 THEN l ELSE NoLine]
  BY DEF Init
<1>2. LineType(l)
  BY LinesAssumption DEF LineType
<1> QED
  BY <1>1, <1>2, DefaultIs DEF Init, Shaped

LEMMA ShapedStep == ProcInv /\ Shaped /\ [Next]_vars => Shaped'
<1> SUFFICES ASSUME ProcInv, Shaped, [Next]_vars PROVE Shaped'
  OBVIOUS
<1>1. ASSUME UNCHANGED <<file, programs, line, config>> PROVE Shaped'
  BY <1>1 DEF Shaped
<1>2. ASSUME NEW p \in Procs, NEW next, NEW l, NEW daemonize, Spawn(p, next, l, daemonize),
             LineType(l), StartsNone(l), UNCHANGED <<file, programs>>
      PROVE  Shaped'
  <2>1. config' = config /\ line' = [line EXCEPT ![p + 1] = l] /\ p + 1 \in Procs \ {1}
    BY <1>2, ThreeProcs DEF Spawn
  <2>2. \A q \in Procs : line'[q] = IF q = p + 1 THEN l ELSE line[q]
    BY <2>1 DEF ProcInv, ProcType
  <2> QED
    BY <1>2, <2>1, <2>2 DEF Shaped
<1>3. ASSUME NEW p \in Procs, Fork(p) PROVE Shaped'
  <2>1. p = 2 /\ UNCHANGED <<file, programs>>
    BY <1>3, ThreeProcs DEF Fork, ProcInv, Roles, Daemonizes, world
  <2>2. LineType(line[p]) /\ StartsNone(line[p])
    BY <2>1, ThreeProcs DEF Shaped
  <2>3. Spawn(p, "listening", line[p], FALSE) \/ UNCHANGED <<line, config>>
    BY <1>3 DEF Fork
  <2> QED
    BY <1>1, <1>2, <2>1, <2>2, <2>3
<1>4. ASSUME NEW p \in Procs, Configure(p) PROVE Shaped'
  <2>1. UNCHANGED <<file, programs, line>>
    BY <1>4 DEF Configure, world
  <2>2. config' = config \/ config' = [config EXCEPT ![p] = Merge(file, line[p])]
    BY <1>4 DEF Configure
  <2>3. \A q \in Procs : config'[q] \in {config[q], Merge(file, line[q])}
    BY <2>2 DEF ProcInv, ProcType
  <2>4. \A q \in Procs : ConfigType(config'[q])
    BY <2>3, MergeIs DEF Shaped
  <2> QED
    BY <2>1, <2>4 DEF Shaped
<1>5. ASSUME NEW p \in Procs, Daemonize(p) PROVE Shaped'
  <2>1. LineType(DaemonArgs(config[p])) /\ StartsNone(DaemonArgs(config[p]))
    BY DaemonArgsAre DEF Shaped
  <2>2. Spawn(p, "waiting", DaemonArgs(config[p]), TRUE) \/ UNCHANGED <<line, config>>
    BY <1>5 DEF Daemonize
  <2>3. UNCHANGED <<file, programs>>
    BY <1>5 DEF Daemonize, world
  <2> QED
    BY <1>1, <1>2, <2>1, <2>2, <2>3
<1>6. ASSUME NEW p \in Procs,
             Hear(p) \/ Deadlock(p) \/ WaitForForker(p) \/ Redirect(p) \/ EndRun(p) \/ Kill(p)
      PROVE  Shaped'
  BY <1>1, <1>6 DEF Hear, Deadlock, WaitForForker, Redirect, EndRun, Kill, world
<1>7. CASE Interrupt \/ OtherRun \/ UNCHANGED vars
  BY <1>1, <1>7 DEF Interrupt, OtherRun, vars, world, procVars
<1> QED
  BY <1>3, <1>4, <1>5, <1>6, <1>7 DEF Next, Step

(* Whether there is a file at the socket path is all that other runs       *)
(* change.                                                                 *)
BusyType == busy \in BOOLEAN

LEMMA BusyStep == BusyType /\ [Next]_vars => BusyType'
<1> SUFFICES ASSUME BusyType, [Next]_vars PROVE BusyType'
  OBVIOUS
<1>1. ASSUME busy' = busy PROVE BusyType'
  BY <1>1, Zenon DEF BusyType
<1>2. ASSUME busy' = ~busy PROVE BusyType'
  BY <1>2, Zenon DEF BusyType
<1>3. busy' = busy \/ busy' = ~busy
  BY DEF Next, Step, Fork, Hear, Deadlock, Configure, Daemonize, WaitForForker, Redirect, EndRun,
         Kill, Interrupt, OtherRun, vars
<1> QED
  BY <1>1, <1>2, <1>3, Zenon

(* Every option has a value of its kind in every process, and --daemon is  *)
(* on nobody's line but the first one's: filterArgs (fork.go:23) and       *)
(* daemonArgs (root.go:207) never let a daemon start a daemon.             *)
THEOREM TypeCorrect == Spec => []TypeOK
<1>1. ProcInv /\ Shaped /\ BusyType => TypeOK
  <2> SUFFICES ASSUME ProcInv, Shaped, BusyType PROVE TypeOK
    OBVIOUS
  <2>1. ASSUME NEW p \in Procs
        PROVE  /\ stage[p] \in Gone \cup {"main", "listening", "valid", "waiting", "running",
                                          "interrupted"}
               /\ env[p] \in BOOLEAN /\ said[p] \in {"nothing", "error", "info"}
               /\ code[p] \in 0..2
    BY <2>1 DEF ProcInv, ProcType
  <2>2. ASSUME NEW p \in Procs
        PROVE  /\ DOMAIN line[p] \subseteq Options \cup {"daemon"}
               /\ line[p]["daemon"] = <<1>> => p = 1
               /\ DOMAIN config[p] = Options
               /\ \A o \in Options \ {"datacenters"} : Len(config[p][o]) <= 1
    BY <2>2 DEF Shaped, LineType, ConfigType, StartsNone, Scalar
  <2>3. file \in Files /\ programs \in Programs /\ busy \in BOOLEAN
    BY DEF Shaped, BusyType
  <2> QED
    BY <2>1, <2>2, <2>3 DEF TypeOK
<1>2. Init => Shaped /\ BusyType
  BY InitShaped DEF Init, BusyType
<1> QED
  BY <1>1, <1>2, InitProcs, ProcStep, ShapedStep, BusyStep, PTL DEF Spec

=============================================================================
