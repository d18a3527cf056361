---------------------------- MODULE MachineProofs ----------------------------
(***************************************************************************)
(* For any number of daemons and crashes: one machine has one daemon at a  *)
(* time as long as one operator gives the commands, a job that was         *)
(* answered as ended is over, a clean exit that was answered is one, and a *)
(* command that ran to its end is not started again.                       *)
(***************************************************************************)
EXTENDS Machine, FiniteSetTheorems, TLAPS

(* What a step of the machine does to each side *)

\* The steps of the job's side, whatever the daemon's side allows of them.
ExecStep == BeginOp \/ OpStep \/ JobStep \/ DaemonEnds

\* The steps of the daemon's side.
DaemonMove ==
    \/ \E d \in Daemons : RunDaemon(d) \/ Killed(d)
    \/ Respawn \/ \E o \in Operators : Operate(o)

\* Every step of the machine is at most one of each.
LEMMA StepKinds ==
    ASSUME [Next]_vars
    PROVE  /\ ExecStep \/ UNCHANGED execVars
           /\ DaemonMove \/ UNCHANGED daemonVars
BY DEF Next, vars, DaemonStep, Takes, Managing, Request, Working, ExecStep, DaemonMove

-----------------------------------------------------------------------------
(* The job *)

\* What the lock on the map guarantees of the operation that holds it: find and
\* spawn work on a job the map does not have, a poll on one it has and knows no
\* exit of; a launch is one of a job not yet answered as ended.
OpInv ==
    /\ step \in {"find", "findFile", "spawn"} => handle = "none"
    /\ step \in {"wait", "file", "stop", "scope"} => handle # "none" /\ known = "none"
    /\ step \in {"find", "findFile", "file", "stop", "scope"} => scopes
    /\ step = "spawn" => doing = "launch"
    /\ doing = "launch" => answer = "none"
    /\ step \in {"file", "stop", "scope"} => child \notin {"setup", "wrapper"}
    /\ step = "stop" => exitFile # "none"
    /\ known # "none" => known = answer

\* Nothing of the job is in its scope, and it never wrote an exit code: what
\* find establishes for a launch, in two looks, and what holds until
\* systemd-run is done.
Unstarted == scopes => ~InScope /\ exitFile = "none"

StartInv ==
    /\ step = "findFile" /\ ~foundPid => ~InScope
    /\ step = "spawn" => Unstarted
    /\ child = "setup" => scopes /\ Unstarted
    /\ scopes /\ wrapper = "run" => exitFile = "none"

\* The exit file, the answer and waitpid tell what became of the command.
EndInv ==
    /\ scopes /\ exitFile # "none" => exitFile = status
    /\ answer # "none" => child # "setup" /\ wrapper # "run" /\ (scopes => ~InScope)
    /\ answer = "exit0" => status = "exit0"
    /\ ~scopes => wrapper # "wrote"
    /\ ~scopes /\ handle # "none" /\ known = "none" => child \in {"wrapper", "dead"}
    /\ ~scopes /\ child = "dead" => wrapper # "run" /\ status # "none"

JobInv == ExecTypeOK /\ OpInv /\ StartInv /\ EndInv

\* The types of the executor, apart by kind: the flags, and everything else.
FlagTypes == scopes \in BOOLEAN /\ rest \in BOOLEAN /\ foundPid \in BOOLEAN /\ stopping \in BOOLEAN
PlaceTypes ==
    /\ wrapper \in {"none", "run", "wrote", "gone"}
    /\ exitFile \in Code /\ status \in Code /\ known \in Code /\ answer \in Code
    /\ child \in {"no", "setup", "wrapper", "dead", "reaped"}
    /\ starts \in Nat
    /\ handle \in {"none", "pid", "noPid"}
    /\ doing \in {"none", "launch", "poll", "kill"}
    /\ step \in {"idle", "find", "findFile", "spawn", "wait", "file", "stop", "scope"}
    /\ doing = "none" <=> step = "idle"
    /\ child = "wrapper" => wrapper \in {"run", "wrote"}
    /\ handle = "none" => child = "no" /\ known = "none"

\* Together they are ExecTypeOK.
LEMMA SplitTypes == ExecTypeOK <=> FlagTypes /\ PlaceTypes
BY Zenon DEF ExecTypeOK, FlagTypes, PlaceTypes

\* The flags stay flags.
LEMMA FlagsKeep ==
    ASSUME FlagTypes, ExecStep \/ UNCHANGED execVars
    PROVE  FlagTypes'
BY DEF FlagTypes, ExecStep, BeginOp, OpStep, JobStep, daemonSide, jobSide, execVars, BeginLaunch, BeginPoll,
       BeginKill, FindScope, FindFile, Spawn, SpawnFails, PollWait, PollFile, PollStop, StopLeftovers, KillAll,
       PollScope, PollChild, StopForKill, SetupDone, CommandEnds, WrapperExits, WrapperKilled, RestEnds,
       DaemonEnds, InScope

\* No step of the executor, the job or a dying daemon breaks the rest.
LEMMA JobStepKeeps ==
    ASSUME FlagTypes, PlaceTypes, OpInv, StartInv, EndInv, ExecStep \/ UNCHANGED execVars
    PROVE  (PlaceTypes /\ OpInv /\ StartInv /\ EndInv)'
<1> USE DEF PlaceTypes, OpInv, StartInv, EndInv, Unstarted, InScope, Code, Status,
            daemonSide, jobSide, execVars, StepTo, Done
<1>1. CASE UNCHANGED execVars
  BY <1>1
<1>2. CASE BeginLaunch
  BY <1>2 DEF BeginLaunch
<1>3. CASE BeginPoll
  BY <1>3 DEF BeginPoll
<1>4. CASE BeginKill
  BY <1>4 DEF BeginKill
<1>5. CASE FindScope
  BY <1>5 DEF FindScope
<1>6. CASE FindFile
  BY <1>6 DEF FindFile, Found
<1>7. CASE Spawn
  BY <1>7 DEF Spawn, Inserted
<1>8. CASE SpawnFails
  BY <1>8 DEF SpawnFails
<1>9. CASE PollWait
  BY <1>9 DEF PollWait
<1>10. CASE PollFile
  BY <1>10 DEF PollFile
<1>11. CASE PollStop
  BY <1>11 DEF PollStop, StopLeftovers, KillAll, Exited, Keep
<1>12. CASE PollScope
  BY <1>12 DEF PollScope, Exited, Keep
<1>13. CASE PollChild
  BY <1>13 DEF PollChild, Exited, Keep
<1>14. CASE StopForKill
  BY <1>14 DEF StopForKill, KillAll
<1>15. CASE SetupDone
  BY <1>15 DEF SetupDone, CommandStarts
<1>16. CASE CommandEnds
  BY <1>16 DEF CommandEnds, ChildDies
<1>17. CASE WrapperExits
  BY <1>17 DEF WrapperExits, ChildDies
<1>18. CASE RestEnds
  BY <1>18 DEF RestEnds
<1>19. CASE WrapperKilled
  BY <1>19 DEF WrapperKilled, ChildDies
<1>20. CASE DaemonEnds
  BY <1>20 DEF DaemonEnds, CommandStarts
<1> QED
  BY <1>1, <1>2, <1>3, <1>4, <1>5, <1>6, <1>7, <1>8, <1>9, <1>10, <1>11, <1>12, <1>13, <1>14, <1>15, <1>16, <1>17, <1>18, <1>19, <1>20 DEF ExecStep, BeginOp, OpStep, JobStep

\* The invariant holds in every behaviour of the machine.
LEMMA JobInvariant == Spec => []JobInv
<1>1. Init => JobInv
  <2>1. Init => FlagTypes
    BY DEF Init, ExecInit, FlagTypes
  <2>2. Init => PlaceTypes /\ OpInv /\ StartInv /\ EndInv
    BY DEF Init, ExecInit, PlaceTypes, OpInv, StartInv, EndInv, Unstarted, InScope, Code, Status
  <2> QED
    BY <2>1, <2>2, SplitTypes DEF JobInv
<1>2. JobInv /\ [Next]_vars => JobInv'
  <2> SUFFICES ASSUME JobInv, [Next]_vars
               PROVE  JobInv'
    OBVIOUS
  <2>1. FlagTypes /\ PlaceTypes /\ OpInv /\ StartInv /\ EndInv /\ (ExecStep \/ UNCHANGED execVars)
    BY SplitTypes, StepKinds DEF JobInv
  <2>2. FlagTypes' /\ (PlaceTypes /\ OpInv /\ StartInv /\ EndInv)'
    BY <2>1, FlagsKeep, JobStepKeeps
  <2>3. ExecTypeOK' <=> FlagTypes' /\ PlaceTypes'
    BY SplitTypes, PTL
  <2> QED
    BY <2>2, <2>3 DEF JobInv
<1> QED
  BY <1>1, <1>2, PTL DEF Spec

\* Once the controller is told that a job ended, none of its processes is left
\* (poll_scope stops the scope before it answers), whatever launches, kills,
\* restarts of the daemon and systemd-run itself do at the same time.
THEOREM EndedJobsAreOver == Spec => []EndedIsOver
<1>1. JobInv => EndedIsOver
  BY DEF JobInv, EndInv, EndedIsOver
<1> QED
  BY JobInvariant, <1>1, PTL

\* An exit code 0 that is answered is the command's (poll_scope, poll_child and
\* the worker map's memory of exits): a child reaped before, which counts as a
\* clean exit, is never polled again.
THEOREM CleanExitsAreReal == Spec => []CleanExitIsReal
<1>1. JobInv => CleanExitIsReal
  BY DEF JobInv, EndInv, CleanExitIsReal
<1> QED
  BY JobInvariant, <1>1, PTL

\* A command that ran to its end in a scope is not started again (find before
\* launch), although find looks at the scope and the exit file one after the
\* other and systemd-run starts the command later.
THEOREM CommandsStartOnce == Spec => StartedOnce
<1>1. JobInv /\ [Next]_vars => [scopes /\ starts' > starts => exitFile = "none"]_execVars
  <2> SUFFICES ASSUME JobInv, ExecStep, scopes, starts' # starts
               PROVE  exitFile = "none"
    BY StepKinds DEF JobInv, ExecTypeOK, execVars, jobSide
  <2>1. child = "setup" \/ ~scopes
    BY DEF ExecStep, BeginOp, OpStep, JobStep, daemonSide, jobSide, BeginLaunch, BeginPoll, BeginKill,
           FindScope, FindFile, Spawn, SpawnFails, PollWait, PollFile, PollStop, StopLeftovers, KillAll,
           PollScope, PollChild, StopForKill, SetupDone, CommandEnds, WrapperExits, WrapperKilled,
           RestEnds, DaemonEnds
  <2> QED
    BY <2>1 DEF JobInv, StartInv, Unstarted
<1> QED
  BY JobInvariant, <1>1, PTL DEF Spec, StartedOnce

-----------------------------------------------------------------------------
(* The daemon *)

\* The types of the daemon's side but for its one flag.
DaemonPlaces ==
    /\ at \in [Daemons -> Alive \cup {"new", "gone"}]
    /\ pidFile \in 0..MaxStarts /\ socket \in 0..MaxStarts /\ tunnel \in 0..MaxStarts
    /\ opened \in [Daemons -> 0..MaxStarts]
    /\ locks \subseteq Daemons
    /\ op \in [Operators -> Command]
    /\ managed \in 0..MaxStarts
    /\ crashes \in 0..MaxCrashes

\* With the flag they are DaemonTypeOK.
LEMMA SplitDaemonTypes == DaemonTypeOK <=> DaemonPlaces /\ enabled \in BOOLEAN
BY Zenon DEF DaemonTypeOK, DaemonPlaces

\* No step of a daemon, an operator or systemd leaves the types.
LEMMA DaemonPlacesKeep ==
    ASSUME DaemonPlaces, DaemonMove \/ UNCHANGED daemonVars
    PROVE  DaemonPlaces'
<1> USE DaemonAssumption DEF DaemonPlaces
<1>0. /\ 0 \in 0..MaxStarts
      /\ \A d \in Daemons : d \in 0..MaxStarts
      /\ Idle \in Command
      /\ \A d \in 0..MaxStarts : /\ [do |-> "waiting", daemon |-> d] \in Command
                                 /\ [do |-> "stopping", daemon |-> d] \in Command
  BY DEF Daemons, Idle, Command
<1>1. CASE UNCHANGED daemonVars
  BY <1>1 DEF daemonVars
<1>2. ASSUME NEW d \in Daemons, NEW place \in Alive \cup {"new", "gone"}, Goto(d, place)
      PROVE  at' \in [Daemons -> Alive \cup {"new", "gone"}]
  BY <1>2 DEF Goto
<1>3. \A d \in Daemons : Exit(d) => at' \in [Daemons -> Alive \cup {"new", "gone"}] /\ locks' \subseteq Daemons
  BY <1>2 DEF Exit
<1>4. ASSUME NEW d \in Daemons, RunDaemon(d) PROVE DaemonPlaces'
  <2>0. {"connect", "open", "lock", "unlink", "recover", "bind", "serve", "rmPid", "rmSocket"} \subseteq Alive
    BY DEF Alive, Starting
  <2>1. CASE Ask(d)
    BY <2>0, <2>1, <1>2, <1>3 DEF Ask
  <2>2. CASE Connect(d)
    BY <2>0, <2>2, <1>0, <1>2 DEF Connect
  <2>3. CASE OpenPidFile(d)
    BY <2>0, <2>3, <1>0, <1>2 DEF OpenPidFile
  <2>4. CASE LockPidFile(d)
    BY <2>0, <2>4, <1>2, <1>3 DEF LockPidFile
  <2>5. CASE cleanup_stale_socket(d)
    BY <2>0, <2>5, <1>0, <1>2 DEF cleanup_stale_socket, StaleSocketGone
  <2>6. CASE Recover(d)
    BY <2>0, <2>6, <1>2 DEF Recover
  <2>7. CASE Bind(d)
    BY <2>0, <2>7, <1>0, <1>2 DEF Bind
  <2>8. CASE Drained(d)
    BY <2>0, <2>8, <1>2 DEF Drained
  <2>9. CASE RemovePidFile(d)
    BY <2>0, <2>9, <1>0, <1>2 DEF RemovePidFile
  <2>10. CASE RemoveSocket(d)
    BY <2>0, <2>10, <1>0, <1>3 DEF RemoveSocket
  <2> QED
    BY <1>4, <2>1, <2>2, <2>3, <2>4, <2>5, <2>6, <2>7, <2>8, <2>9, <2>10 DEF RunDaemon
<1>5. ASSUME NEW d \in Daemons, Killed(d) PROVE DaemonPlaces'
  BY <1>5, <1>3 DEF Killed
<1>6. \A d \in Daemons : Spawned(d) => at' \in [Daemons -> Alive \cup {"new", "gone"}]
  <2>1. "ask" \in Alive
    BY DEF Alive, Starting
  <2> QED
    BY <2>1, <1>2 DEF Spawned
<1>7. CASE Respawn
  BY <1>7, <1>0, <1>6 DEF Respawn
<1>8. ASSUME NEW o \in Operators, Operate(o) PROVE DaemonPlaces'
  <2>1. CASE Start(o)
    BY <2>1, <1>0, <1>6 DEF Start
  <2>2. CASE StartUnit(o)
    BY <2>2, <1>0, <1>6 DEF StartUnit
  <2>3. CASE Waited(o)
    BY <2>3, <1>0 DEF Waited
  <2>4. CASE Stop(o)
    <3>1. "drain" \in Alive
      BY DEF Alive
    <3>2. PICK d \in Daemons : Goto(d, "drain") /\ op' = [op EXCEPT ![o] = [do |-> "stopping", daemon |-> d]]
      BY <2>4 DEF Stop, Serving
    <3>3. at' \in [Daemons -> Alive \cup {"new", "gone"}] /\ op' \in [Operators -> Command]
      BY <3>1, <3>2, <1>0, <1>2
    <3> QED
      BY <2>4, <3>3 DEF Stop
  <2>5. CASE Stopped(o)
    BY <2>5, <1>0 DEF Stopped
  <2> QED
    BY <1>8, <2>1, <2>2, <2>3, <2>4, <2>5 DEF Operate
<1> QED
  BY <1>1, <1>4, <1>5, <1>7, <1>8 DEF DaemonMove

\* The flag only ever becomes TRUE.
LEMMA EnabledKeeps ==
    ASSUME DaemonMove \/ UNCHANGED daemonVars
    PROVE  enabled' = enabled \/ enabled' = TRUE
BY DEF DaemonMove, daemonVars, RunDaemon, Ask, Connect, OpenPidFile, LockPidFile, cleanup_stale_socket, Recover,
       Bind, Drained, RemovePidFile, RemoveSocket, Killed, Respawn, Operate, Start, StartUnit, Waited, Stop, Stopped

\* The machine never leaves its types, for any number of daemons, crashes and
\* operators: in particular every operation of the executor ends where the
\* map's lock is free again, and a job without an entry has no child and no
\* known exit.
THEOREM MachineTypes == Spec => []TypeOK
<1>1. Init => DaemonPlaces /\ enabled \in BOOLEAN
  <2>1. Init => DaemonPlaces
    BY DaemonAssumption DEF Init, DaemonInit, DaemonPlaces, Daemons, Idle, Command
  <2>2. Init => enabled \in BOOLEAN
    BY DEF Init, DaemonInit
  <2> QED
    BY <2>1, <2>2
<1>2. DaemonPlaces /\ enabled \in BOOLEAN /\ [Next]_vars => (DaemonPlaces /\ enabled \in BOOLEAN)'
  BY DaemonPlacesKeep, EnabledKeeps, StepKinds
<1>3. JobInv /\ DaemonPlaces /\ enabled \in BOOLEAN => TypeOK
  BY SplitDaemonTypes DEF JobInv, TypeOK
<1> QED
  BY <1>1, <1>2, <1>3, JobInvariant, PTL DEF Spec

\* The daemons that are alive.
Lives(d) == at[d] \in Alive

\* With one operator there is one live daemon: the one systemd runs, the one the
\* operator waits for or stops, or else one that serves where a start finds it.
AloneInv(o) ==
    /\ \A d, e \in Daemons : Lives(d) /\ Lives(e) => d = e
    /\ managed # 0 => enabled /\ \A d \in Daemons : Lives(d) => managed = d
    /\ op[o].do = "idle" => \A d \in Daemons : Lives(d) => managed = d \/ (at[d] = "serve" /\ socket = d)
    /\ op[o].do # "idle" => \A d \in Daemons : Lives(d) => managed = d \/ op[o].daemon = d
    /\ op[o].do = "stopping" => op[o].daemon \in Daemons

\* What a live daemon has done stays done: nobody else moves the tunnel, the pid
\* file or the socket.
FilesInv ==
    /\ \A d \in Daemons : at[d] \in {"open", "lock", "unlink", "recover", "bind", "serve"} => tunnel = d
    /\ \A d \in Daemons : at[d] \in {"lock", "unlink", "recover", "bind", "serve"} => pidFile = opened[d]
    /\ \A d \in Daemons : at[d] \in {"recover", "bind"} => socket = 0
    /\ \A d \in Daemons : at[d] = "serve" => socket = d

\* No step starts a second daemon.
LEMMA AloneKeeps ==
    ASSUME NEW o, Operators = {o}, DaemonPlaces, AloneInv(o), FilesInv, DaemonMove \/ UNCHANGED daemonVars
    PROVE  AloneInv(o)'
<1> USE DaemonAssumption DEF DaemonPlaces, AloneInv, Lives, Daemons, Alive, Starting, Goto, Exit
<1>1. CASE UNCHANGED daemonVars
  BY <1>1 DEF daemonVars
<1>2. ASSUME NEW d \in Daemons, RunDaemon(d) PROVE AloneInv(o)'
  <2>1. CASE Ask(d)
    BY <2>1 DEF Ask
  <2>2. CASE Connect(d)
    BY <2>2 DEF Connect
  <2>3. CASE OpenPidFile(d)
    BY <2>3 DEF OpenPidFile
  <2>4. CASE LockPidFile(d)
    BY <2>4 DEF LockPidFile
  <2>5. CASE cleanup_stale_socket(d)
    BY <2>5 DEF cleanup_stale_socket
  <2>6. CASE Recover(d)
    BY <2>6 DEF Recover
  <2>7. CASE Bind(d)
    BY <2>7 DEF Bind, FilesInv
  <2>8. CASE Drained(d)
    BY <2>8 DEF Drained
  <2>9. CASE RemovePidFile(d)
    BY <2>9 DEF RemovePidFile
  <2>10. CASE RemoveSocket(d)
    BY <2>10 DEF RemoveSocket
  <2> QED
    BY <1>2, <2>1, <2>2, <2>3, <2>4, <2>5, <2>6, <2>7, <2>8, <2>9, <2>10 DEF RunDaemon
<1>3. ASSUME NEW d \in Daemons, Killed(d) PROVE AloneInv(o)'
  BY <1>3 DEF Killed
<1>4. CASE Respawn
  BY <1>4 DEF Respawn, Spawned
<1>5. CASE Start(o)
  <2>1. \A d \in Daemons : ~ Lives(d)
    BY <1>5 DEF Start, NobodyListens, Idle
  <2> QED
    BY <1>5, <2>1 DEF Start, Spawned
<1>6. CASE StartUnit(o)
  <2>1. CASE managed # 0 /\ at[managed] # "gone"
    BY <1>6, <2>1 DEF StartUnit, NobodyListens, Idle
  <2>2. CASE ~(managed # 0 /\ at[managed] # "gone")
    <3>1. \A d \in Daemons : ~ Lives(d)
      BY <1>6, <2>2 DEF StartUnit, NobodyListens, Idle
    <3> QED
      BY <1>6, <2>2, <3>1 DEF StartUnit, Spawned
  <2> QED
    BY <2>1, <2>2
<1>7. CASE Waited(o)
  BY <1>7 DEF Waited, Serving, Idle
<1>8. CASE Stop(o)
  BY <1>8 DEF Stop, Serving
<1>9. CASE Stopped(o)
  BY <1>9 DEF Stopped, StopOver, Idle
<1> QED
  BY <1>1, <1>2, <1>3, <1>4, <1>5, <1>6, <1>7, <1>8, <1>9 DEF DaemonMove, Operate

\* No step takes a file or the tunnel away from the daemon that is alive.
LEMMA FilesKeep ==
    ASSUME NEW o, Operators = {o}, DaemonPlaces, AloneInv(o), FilesInv, DaemonMove \/ UNCHANGED daemonVars
    PROVE  FilesInv'
<1> USE DEF DaemonPlaces, FilesInv, Goto, Exit
<1>1. \A d, e \in Daemons : at[d] \in Alive /\ at[e] \in Alive => d = e
  BY DEF AloneInv, Lives
<1>2. CASE UNCHANGED daemonVars
  BY <1>2 DEF daemonVars
<1>3. ASSUME NEW d \in Daemons, RunDaemon(d) PROVE FilesInv'
  <2> USE <1>1 DEF Alive, Starting
  <2>1. CASE Ask(d) \/ Connect(d)
    BY <2>1 DEF Ask, Connect
  <2>2. CASE OpenPidFile(d)
    BY <2>2 DEF OpenPidFile
  <2>3. CASE LockPidFile(d)
    BY <2>3 DEF LockPidFile
  <2>4. CASE cleanup_stale_socket(d) \/ Recover(d)
    BY <2>4 DEF cleanup_stale_socket, StaleSocketGone, Recover
  <2>5. CASE Bind(d)
    BY <2>5 DEF Bind
  <2>6. CASE Drained(d) \/ RemovePidFile(d) \/ RemoveSocket(d)
    BY <2>6 DEF Drained, RemovePidFile, RemoveSocket
  <2> QED
    BY <1>3, <2>1, <2>2, <2>3, <2>4, <2>5, <2>6 DEF RunDaemon
<1>4. ASSUME NEW d \in Daemons, Killed(d) PROVE FilesInv'
  BY <1>4 DEF Killed
<1>5. CASE Respawn
  BY <1>5 DEF Respawn, Spawned
<1>6. CASE Operate(o)
  BY <1>6 DEF Operate, Start, StartUnit, Spawned, Waited, Stop, Stopped, Serving
<1> QED
  BY <1>2, <1>3, <1>4, <1>5, <1>6 DEF DaemonMove

\* One machine never has two daemons past the lock, and the pid file, the socket
\* and the tunnel are those of the one that runs (daemon::run, main's start,
\* stop and restart, and systemd's), however often daemons are killed, as long
\* as one operator gives the commands.
THEOREM OneDaemonAtATime ==
    ASSUME NEW o, Operators = {o}
    PROVE  Spec => []OneDaemon
<1> DEFINE IInv == DaemonPlaces /\ AloneInv(o) /\ FilesInv
<1>1. Init => IInv
  BY DaemonAssumption
     DEF Init, DaemonInit, DaemonPlaces, Daemons, Idle, Command, AloneInv, FilesInv, Lives, Alive, Starting
<1>2. IInv /\ [Next]_vars => IInv'
  BY DaemonPlacesKeep, AloneKeeps, FilesKeep, StepKinds
<1>3. IInv => OneDaemon
  <2> SUFFICES ASSUME IInv
               PROVE  OneDaemon
    OBVIOUS
  <2>1. \A d, e \in Running : d = e
    BY DEF AloneInv, Lives, Running, Alive, Starting
  <2>2. Running = {} \/ \E d : Running = {d}
    BY <2>1
  <2>3. Cardinality(Running) = 0 \/ Cardinality(Running) = 1
    BY <2>2, FS_EmptySet, FS_Singleton, Zenon
  <2> QED
    BY <2>3 DEF OneDaemon, FilesInv, Running
<1> QED
  BY <1>1, <1>2, <1>3, PTL DEF Spec
=============================================================================
