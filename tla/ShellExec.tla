------------------------------ MODULE ShellExec ------------------------------
(***************************************************************************)
(* One job on one machine, in the steps the shell executor and the worker  *)
(* map really take.  Module Worker takes each operation at once.           *)
(*                                                                         *)
(* systemd-run registers the job's scope and becomes its wrapper, a shell  *)
(* that runs the command, writes its exit code to a file and exits; what   *)
(* the command left behind stays in the scope.  Without systemd there is   *)
(* only the shell, and only its parent learns how it ended.  A launch or a *)
(* poll holds the map's lock to its end; a kill gives it up before it      *)
(* stops anything.                                                         *)
(***************************************************************************)
EXTENDS Naturals

VARIABLES
    scopes,     \* whether jobs run in systemd scopes; never changes
    wrapper,    \* the wrapper started last: "none", "run", "wrote" or "gone"
    rest,       \* whether processes the command left behind are alive
    exitFile,   \* what the exit file says
    status,     \* how the command ended, whether or not anybody wrote it down
    child,      \* the daemon's child: systemd-run, then the wrapper
    handle,     \* the worker map's entry, with or without the wrapper's pid
    known,      \* the exit code in that entry
    doing,      \* the operation that holds the map's lock
    step,       \* where it is
    foundPid,   \* whether find saw a process of the scope
    stopping,   \* a kill has found the job and has yet to stop it
    starts,     \* history: how often the command was started
    answer      \* the exit code last answered to the controller

daemonSide == <<handle, known, doing, step, foundPid, stopping>>
jobSide == <<scopes, wrapper, rest, exitFile, status, starts>>
execVars == <<daemonSide, jobSide, child, answer>>

Status == {"exit0", "exitN", "signal"}
Code == Status \cup {"none"}

ExecTypeOK ==
    /\ scopes \in BOOLEAN /\ rest \in BOOLEAN /\ foundPid \in BOOLEAN
    /\ stopping \in BOOLEAN
    /\ wrapper \in {"none", "run", "wrote", "gone"}
    /\ exitFile \in Code /\ status \in Code /\ known \in Code /\ answer \in Code
    /\ child \in {"no", "setup", "wrapper", "dead", "reaped"}
    /\ starts \in Nat
    /\ handle \in {"none", "pid", "noPid"}
    /\ doing \in {"none", "launch", "poll", "kill"}
    /\ step \in {"idle", "find", "findFile", "spawn", "wait", "file", "stop", "scope"}
    /\ doing = "none" <=> step = "idle"
    /\ child = "wrapper" => wrapper \in {"run", "wrote"}
    /\ handle = "none" => child = "no" /\ known = "none"

ExecInit ==
    /\ scopes \in BOOLEAN
    /\ wrapper = "none" /\ rest = FALSE /\ exitFile = "none" /\ status = "none"
    /\ child = "no" /\ handle = "none" /\ known = "none"
    /\ doing = "none" /\ step = "idle" /\ foundPid = FALSE /\ stopping = FALSE
    /\ starts = 0 /\ answer = "none"

\* The scope holds a process.
InScope == scopes /\ (wrapper \in {"run", "wrote"} \/ rest)

StepTo(place) == step' = place /\ UNCHANGED doing
Done == doing' = "none" /\ step' = "idle"

-----------------------------------------------------------------------------
(* The worker's operations: what the map says, and find when it says nothing *)

\* A job in the map is not started again.
BeginLaunch ==
    /\ doing = "none" /\ handle = "none" /\ answer = "none"
    /\ doing' = "launch"
    /\ step' = IF scopes THEN "find" ELSE "spawn"
    /\ UNCHANGED <<handle, known, foundPid, stopping, jobSide, child, answer>>

\* An exit already known is answered again.
BeginPoll ==
    /\ doing = "none"
    /\ IF known # "none"
       THEN answer' = known /\ UNCHANGED <<doing, step>>
       ELSE /\ scopes \/ handle # "none"
            /\ doing' = "poll"
            /\ step' = IF handle = "none" THEN "find" ELSE "wait"
            /\ UNCHANGED answer
    /\ UNCHANGED <<handle, known, foundPid, stopping, jobSide, child>>

\* A job that has ended is not stopped.  A kill that finds it running keeps a
\* copy of the entry and gives up the lock.
BeginKill ==
    /\ doing = "none" /\ ~stopping /\ known = "none"
    /\ IF handle # "none"
       THEN stopping' = TRUE /\ UNCHANGED <<doing, step>>
       ELSE scopes /\ doing' = "kill" /\ step' = "find" /\ UNCHANGED stopping
    /\ UNCHANGED <<handle, known, foundPid, jobSide, child, answer>>

\* ShellExecutor::find: the scope first ...
FindScope ==
    /\ step = "find"
    /\ foundPid' = InScope
    /\ StepTo("findFile")
    /\ UNCHANGED <<handle, known, stopping, jobSide, child, answer>>

\* Slip: only the scope tells whether a job was started.
Found_ScopeOnly == foundPid

\* ... and then the exit file, which a wrapper that is gone by now has written.
Found == foundPid \/ exitFile # "none"

\* A job found is taken over.  One that is not is started by a launch, and
\* unknown to a poll or a kill.
FindFile ==
    /\ step = "findFile"
    /\ handle' = IF ~Found THEN "none" ELSE IF foundPid THEN "pid" ELSE "noPid"
    /\ \/ doing = "launch" /\ ~Found /\ StepTo("spawn")
       \/ doing = "poll" /\ Found /\ StepTo("wait")
       \/ ~(doing = "launch" /\ ~Found) /\ ~(doing = "poll" /\ Found) /\ Done
    /\ stopping' = (stopping \/ (doing = "kill" /\ Found))
    /\ foundPid' = FALSE
    /\ UNCHANGED <<known, jobSide, child, answer>>

-----------------------------------------------------------------------------
(* Launch *)

\* Slip: the process started is not put into the map.
Inserted_Not == "none"

\* The entry a launch makes.
Inserted == "pid"

\* Without systemd the shell is started at once; systemd-run takes a while.
Spawn ==
    /\ step = "spawn"
    /\ handle' = Inserted
    /\ IF scopes
       THEN child' = "setup" /\ UNCHANGED <<wrapper, status, starts>>
       ELSE child' = "wrapper" /\ wrapper' = "run" /\ status' = "none" /\ starts' = starts + 1
    /\ Done
    /\ UNCHANGED <<scopes, rest, exitFile, known, foundPid, stopping, answer>>

\* The program is missing, or the log file or the process cannot be made.
SpawnFails ==
    /\ step = "spawn"
    /\ Done
    /\ UNCHANGED <<handle, known, foundPid, stopping, jobSide, child, answer>>

-----------------------------------------------------------------------------
(* Poll *)

\* Slip: the exit code is not kept in the map.
Keep_Not(code) == "none"

\* The exit code the map keeps, so that a repeated poll gets the same answer.
Keep(code) == code

Exited(code) == known' = Keep(code) /\ answer' = code

\* poll_scope: running while our own child is alive, ...
PollWait ==
    /\ step = "wait" /\ scopes
    /\ IF child \in {"setup", "wrapper"}
       THEN Done /\ UNCHANGED child
       ELSE StepTo("file") /\ child' = IF child = "dead" THEN "reaped" ELSE child
    /\ UNCHANGED <<handle, known, foundPid, stopping, jobSide, answer>>

\* ... done once the wrapper wrote the exit code, ...
PollFile ==
    /\ step = "file"
    /\ StepTo(IF exitFile # "none" THEN "stop" ELSE "scope")
    /\ UNCHANGED <<handle, known, foundPid, stopping, jobSide, child, answer>>

\* Ends everything in the scope, or without one in the process group.
KillAll ==
    /\ rest' = FALSE
    /\ wrapper' = IF wrapper \in {"run", "wrote"} THEN "gone" ELSE wrapper
    /\ status' = IF wrapper = "run" THEN "signal" ELSE status
    /\ child' = IF child = "wrapper" THEN "dead" ELSE child
    /\ UNCHANGED <<scopes, exitFile, starts>>

\* Slip: what the command left behind is not stopped.
StopLeftovers_Kept == UNCHANGED <<jobSide, child>>

StopLeftovers == KillAll

\* ... and stopping the scope then ends what the job left behind; ...
PollStop ==
    /\ step = "stop"
    /\ StopLeftovers
    /\ Exited(exitFile)
    /\ Done
    /\ UNCHANGED <<handle, foundPid, stopping>>

\* ... else running while any process of the scope is alive, and otherwise
\* ended without a code.
PollScope ==
    /\ step = "scope"
    /\ IF InScope THEN UNCHANGED <<known, answer>> ELSE Exited("signal")
    /\ Done
    /\ UNCHANGED <<handle, foundPid, stopping, jobSide, child>>

\* poll_child, without systemd: waitpid tells how the child ended, once; a
\* child reaped before counts as a clean exit.
PollChild ==
    /\ step = "wait" /\ ~scopes
    /\ \/ child = "wrapper" /\ UNCHANGED <<known, answer>>
       \/ child = "dead" /\ Exited(status)
       \/ child \in {"no", "reaped"} /\ Exited("exit0")
    /\ child' = IF child = "dead" THEN "reaped" ELSE child
    /\ Done
    /\ UNCHANGED <<handle, foundPid, stopping, jobSide>>

-----------------------------------------------------------------------------
(* Kill *)

\* stop_scope, or killpg: nothing happens while systemd-run has yet to make
\* the scope, or once everything ended.
StopForKill ==
    /\ stopping
    /\ KillAll
    /\ stopping' = FALSE
    /\ UNCHANGED <<handle, known, doing, step, foundPid, answer>>

BeginOp == BeginLaunch \/ BeginPoll \/ BeginKill
OpStep ==
    \/ FindScope \/ FindFile \/ Spawn \/ SpawnFails
    \/ PollWait \/ PollFile \/ PollStop \/ PollScope \/ PollChild \/ StopForKill

-----------------------------------------------------------------------------
(* The job's processes *)

CommandStarts == wrapper' = "run" /\ status' = "none" /\ starts' = starts + 1

\* systemd-run registers the scope and execs the wrapper; it fails when a
\* scope of that name exists, and may fail by itself.
SetupDone ==
    /\ child = "setup"
    /\ \/ ~InScope /\ CommandStarts /\ child' = "wrapper"
       \/ child' = "dead" /\ UNCHANGED <<wrapper, status, starts>>
    /\ UNCHANGED <<scopes, rest, exitFile, daemonSide, answer>>

ChildDies == child' = IF child = "wrapper" THEN "dead" ELSE child

\* The command ends, with or without processes left behind, and its wrapper
\* writes the code, unless the disk is full.
CommandEnds ==
    /\ wrapper = "run"
    /\ status' \in Status /\ rest' \in BOOLEAN
    /\ IF scopes
       THEN wrapper' = "wrote" /\ exitFile' \in {status', exitFile} /\ UNCHANGED child
       ELSE wrapper' = "gone" /\ ChildDies /\ UNCHANGED exitFile
    /\ UNCHANGED <<scopes, starts, daemonSide, answer>>

WrapperExits ==
    /\ wrapper = "wrote"
    /\ wrapper' = "gone"
    /\ ChildDies
    /\ UNCHANGED <<scopes, rest, exitFile, status, starts, daemonSide, answer>>

\* The kernel kills the wrapper, short of memory.
WrapperKilled ==
    /\ wrapper = "run"
    /\ wrapper' = "gone" /\ status' = "signal" /\ rest' \in BOOLEAN
    /\ ChildDies
    /\ UNCHANGED <<scopes, exitFile, starts, daemonSide, answer>>

RestEnds ==
    /\ rest
    /\ rest' = FALSE
    /\ UNCHANGED <<scopes, wrapper, exitFile, status, starts, daemonSide, child, answer>>

JobStep == SetupDone \/ CommandEnds \/ WrapperExits \/ WrapperKilled \/ RestEnds

\* The daemon's process ends, with the map and the operations under way.  A
\* systemd-run goes on, and is taken to be done before the next daemon serves.
DaemonEnds ==
    /\ handle' = "none" /\ known' = "none" /\ child' = "no"
    /\ Done /\ foundPid' = FALSE /\ stopping' = FALSE
    /\ \/ child = "setup" /\ ~InScope /\ CommandStarts
       \/ UNCHANGED <<wrapper, status, starts>>
    /\ UNCHANGED <<scopes, rest, exitFile, answer>>

-----------------------------------------------------------------------------
(* Properties *)

\* A command that ran to its end is not started again, although launches are
\* repeated, daemons restart and the job may end between find's look at the
\* scope and its look at the exit file.  One that was killed may be.
StartedOnce == [][scopes /\ starts' > starts => exitFile = "none"]_execVars

\* Once the controller is told that a job ended, none of its processes is
\* left to use the cards and the memory the controller gives to the next.
EndedIsOver == scopes /\ answer # "none" => ~InScope

\* A clean exit that is answered is one: neither a repeated poll nor a child
\* reaped before turns a failure into a success.
CleanExitIsReal == answer = "exit0" => status = "exit0"

\* A job answered as ended without a code has no code.
NoCodeLost == answer = "signal" => exitFile \in {"none", "signal"}
=============================================================================
