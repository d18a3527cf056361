------------------------------ MODULE Scheduler ------------------------------
(***************************************************************************)
(* The controller: the scheduler loop, the IPC handlers that share its     *)
(* state (submit, cancel), the store, and recovery after a crash, over the *)
(* nodes of module Worker reached directly or through a lossy tunnel.      *)
(*                                                                         *)
(* Scheduler and handlers interleave wherever the code gives up the runs   *)
(* lock; a phase that holds it excludes the handlers.  runs, the jobs of a *)
(* run and the tasks made from them are hash maps or come from one, so     *)
(* every phase visits its jobs in any order.                               *)
(***************************************************************************)
EXTENDS Resources, Worker, Functions

CONSTANTS
    Run,        \* the runs that may be submitted
    RunOf,      \* RunOf[j]: the run of job j
    Deps,       \* Deps[j]: the jobs j depends on, in the same run
    Needs,      \* Needs[j]: the resources j asks for
    Local,      \* nodes that are the controller's own machine
    Total,      \* Total[n]: the inventory of node n
    Cancelled,  \* the runs a user may cancel
    Faults,     \* which kinds of fault may happen
    MaxFaults   \* bound: how many faults happen in a behaviour

Request == [cpu : Nat, memory : Nat, gpu : Nat, vram : Nat]
FaultKind == {"crash", "launchCrash", "restart", "offline", "lost", "late", "spawn", "store"}

ASSUME JobsAssumption ==
    /\ RunOf \in [Job -> Run]
    /\ Deps \in [Job -> SUBSET Job]
    /\ \A j \in Job : \A d \in Deps[j] : RunOf[d] = RunOf[j]
    /\ Needs \in [Job -> Request]
ASSUME FiniteJobs == IsFiniteSet(Job)
ASSUME InventoryAssumption ==
    /\ Local \subseteq Node
    /\ Total \in [Node -> [cpu : Nat, memory : Nat, vram : [Card -> Nat]]]
ASSUME FaultsAssumption == Cancelled \subseteq Run /\ Faults \subseteq FaultKind /\ MaxFaults \in Nat

VARIABLES
    (* DaemonState and the jobs of its runs; lost when the controller dies *)
    up,          \* "down", "recovering" or "up"
    jobState,    \* "absent" while the job's run is not in memory
    execution,   \* the allocation of the job's execution, or NoAlloc
    cancelling,  \* set by Cancel on a running job
    rejected,    \* the nodes that turned the job down
    pools,       \* free resources per node
    requalify,   \* cards the GPU check shall test again
    online,      \* the flag shared with each node's tunnel
    (* the scheduler's own progress through a tick *)
    pc,          \* the phase it is in
    todo,        \* jobs the phase (or recovery) has yet to visit
    seen,        \* the nodes online when placement began
    hold,        \* hold[j]: what placement reserved for j, or NoAlloc
    result,      \* result[j]: "none", "todo", or the answer for j
    snap,        \* snap[j]: cancelling as it was when polling began
    toWrite,     \* jobs flush_transitions has yet to write
    (* the handlers' progress *)
    submission,  \* submission[r]: "new", "storing" or "done"
    kills,       \* <<node, job>>: kills a cancel handler has yet to send
    (* what outlives the controller *)
    row,         \* row[j]: the job's row in the store
    stored,      \* the runs whose own row is in the store
    wire,        \* Launch requests still under way after their timeout
    faults       \* how many faults have happened

memVars  == <<jobState, execution, cancelling, rejected, pools, requalify>>
loopVars == <<pc, todo, seen, hold, result, snap, toWrite>>
handVars == <<submission, kills, stored>>
netVars  == <<online, wire>>
vars == <<up, memVars, loopVars, handVars, netVars, row, faults, workerVars>>

-----------------------------------------------------------------------------
(* States and types *)

Terminal == {"Succeeded", "Failed", "Skipped", "Cancelled", "TimedOut", "Interrupted"}
Unfinished == {"Pending", "Queued", "Running"}

\* Slip: a success counts as a failure of what depends on it.
Bad_AllEnds == Terminal

Bad == Terminal \ {"Succeeded"}
JobState == Terminal \cup Unfinished

\* Slip: a cancel outranks a failure.
derive_run_state_CancelFirst(states) ==
    IF "Cancelled" \in states THEN "Cancelled"
    ELSE IF states \cap {"Failed", "TimedOut", "Interrupted"} # {} THEN "Failed"
    ELSE IF states \cap {"Running", "Queued"} # {} THEN "Running"
    ELSE IF states # {} /\ states \subseteq {"Succeeded", "Skipped"} THEN "Succeeded"
    ELSE "Pending"

\* The state of a run, from the states its jobs have.
derive_run_state(states) ==
    IF states \cap {"Failed", "TimedOut", "Interrupted"} # {} THEN "Failed"
    ELSE IF "Cancelled" \in states THEN "Cancelled"
    ELSE IF states \cap {"Running", "Queued"} # {} THEN "Running"
    ELSE IF states # {} /\ states \subseteq {"Succeeded", "Skipped"} THEN "Succeeded"
    ELSE "Pending"

Alloc == [node : Node, cpu : Nat, memory : Nat, gpus : SUBSET Card]
NoAlloc == [node |-> -1, cpu |-> 0, memory |-> 0, gpus |-> {}]
JobRow == [state : JobState \cup {"absent"}, alloc : Alloc \cup {NoAlloc}]
NoRow == [state |-> "absent", alloc |-> NoAlloc]
Pool == [cpu : Nat, memory : Nat, vram : [Card -> Nat], blocked : SUBSET Card]
Phase == {"pending", "skip", "queue", "reserve", "launch", "apply", "snapshot", "poll", "reap"}
Answer == {"none", "todo", "ok", "rejected", "error", "unreachable", "running"} \cup ExitStatus
Launch == [node : Node, job : Job, gpus : SUBSET Card]

TypeOK ==
    /\ WorkerTypeOK
    /\ up \in {"down", "recovering", "up"}
    /\ jobState \in [Job -> JobState \cup {"absent"}]
    /\ execution \in [Job -> Alloc \cup {NoAlloc}]
    /\ cancelling \in [Job -> BOOLEAN]
    /\ rejected \in [Job -> SUBSET Node]
    /\ pools \in [Node -> Pool]
    /\ requalify \subseteq Node \X Card
    /\ online \in [Node -> BOOLEAN]
    /\ pc \in Phase
    /\ todo \subseteq Job
    /\ seen \subseteq Node
    /\ hold \in [Job -> Alloc \cup {NoAlloc}]
    /\ result \in [Job -> Answer]
    /\ snap \in [Job -> BOOLEAN]
    /\ toWrite \subseteq Job
    /\ submission \in [Run -> {"new", "storing", "done"}]
    /\ kills \subseteq Node \X Job
    /\ row \in [Job -> JobRow]
    /\ stored \subseteq Run
    /\ wire \subseteq Launch
    /\ faults \in 0..MaxFaults

\* What a controller process starts from: no runs, every pool free, every
\* node reached.
Each(v) == [j \in Job |-> v]
FreshPools == [n \in Node |-> NewPool(Total[n])]
AllOnline == [n \in Node |-> TRUE]

Init ==
    /\ WorkerInit
    /\ up = "up"
    /\ jobState = Each("absent")  /\ execution = Each(NoAlloc)  /\ cancelling = Each(FALSE)  /\ rejected = Each({})
    /\ pools = FreshPools  /\ requalify = {}  /\ online = AllOnline
    /\ pc = "pending"  /\ todo = {}  /\ seen = {}
    /\ hold = Each(NoAlloc)  /\ result = Each("none")  /\ snap = Each(FALSE)
    /\ toWrite = {}  /\ kills = {}
    /\ submission = [r \in Run |-> "new"]
    /\ row = [j \in Job |-> NoRow]  /\ stored = {}
    /\ wire = {}
    /\ faults = 0

\* A fault of an enabled kind, counted against the bound.
Fault(kind) == kind \in Faults /\ faults < MaxFaults /\ faults' = faults + 1

\* The runs lock is free: no phase that visits jobs under it is under way.
RunsUnlocked == up = "up" /\ pc \notin {"reserve", "apply", "reap"}

\* Slip: a phase starts while the transitions of the one before are unwritten.
AtPhase_Unwritten(p) == up = "up" /\ pc = p

\* A phase starts once the phase before it has written its transitions.
AtPhase(p) == up = "up" /\ pc = p /\ toWrite = {}

-----------------------------------------------------------------------------
(* Pending -> Queued, and Pending or Queued -> Skipped *)

advance_pending ==
    LET queue == {j \in Job : jobState[j] = "Pending"
                              /\ \A d \in Deps[j] : jobState[d] = "Succeeded"}
    IN /\ AtPhase("pending")
       /\ jobState' = [j \in Job |-> IF j \in queue THEN "Queued" ELSE jobState[j]]
       /\ toWrite' = queue
       /\ pc' = "skip"
       /\ UNCHANGED <<up, execution, cancelling, rejected, pools, requalify, todo, seen, hold,
                      result, snap, handVars, netVars, row, faults, workerVars>>

cascade_skipped ==
    LET skip == {j \in Job : jobState[j] \in {"Pending", "Queued"}
                             /\ \E d \in Deps[j] : jobState[d] \in Bad}
    IN /\ AtPhase("skip")
       /\ jobState' = [j \in Job |-> IF j \in skip THEN "Skipped" ELSE jobState[j]]
       /\ toWrite' = skip
       /\ pc' = "queue"
       /\ UNCHANGED <<up, execution, cancelling, rejected, pools, requalify, todo, seen, hold,
                      result, snap, handVars, netVars, row, faults, workerVars>>

\* flush_transitions: write the job's current state, with what it holds; an
\* error of the store is ignored.
Flush(j) ==
    /\ RunsUnlocked
    /\ j \in toWrite
    /\ toWrite' = toWrite \ {j}
    /\ \/ /\ row' = [row EXCEPT ![j] = [state |-> jobState[j], alloc |-> execution[j]]]
          /\ UNCHANGED faults
       \/ Fault("store") /\ UNCHANGED row
    /\ UNCHANGED <<up, memVars, pc, todo, seen, hold, result, snap, handVars, netVars, workerVars>>

-----------------------------------------------------------------------------
(* Queued -> Running: advance_queued *)

\* Phase 1 takes the locks and reads which nodes are online.
BeginReserve ==
    LET queued == {j \in Job : jobState[j] = "Queued"}
    IN /\ AtPhase("queue")
       /\ todo' = queued
       /\ seen' = IF queued = {} THEN {} ELSE {n \in Node : online[n]}
       /\ pc' = IF queued = {} THEN "snapshot" ELSE "reserve"
       /\ UNCHANGED <<up, memVars, hold, result, snap, toWrite, handVars, netVars, row, faults, workerVars>>

\* The phase after placement visited its last job.
AfterReserve(rest, held) ==
    IF rest # {} THEN "reserve"
    ELSE IF \E k \in Job : held[k] # NoAlloc THEN "launch" ELSE "snapshot"

\* Phase 1, one job: first-fit over the nodes that were online and have not
\* turned the job down.
Reserve(j) ==
    LET found == place(Total, pools, seen \ rejected[j], Needs[j])
    IN /\ up = "up" /\ pc = "reserve"
       /\ j \in todo
       /\ todo' = todo \ {j}
       /\ \/ \E a \in found :
                /\ pools' = [pools EXCEPT ![a.node] = Reserved(Total[a.node], @, a)]
                /\ hold' = [hold EXCEPT ![j] = a]
                /\ result' = [result EXCEPT ![j] = "todo"]
          \/ found = {} /\ UNCHANGED <<pools, hold, result>>
       /\ pc' = AfterReserve(todo', hold')
       /\ seen' = IF todo' = {} THEN {} ELSE seen
       /\ UNCHANGED <<up, jobState, execution, cancelling, rejected, requalify, snap, toWrite,
                      handVars, netVars, row, faults, workerVars>>

\* Phase 2 on the controller's own machine.
LaunchLocal(j) ==
    /\ up = "up" /\ pc = "launch" /\ result[j] = "todo"
    /\ hold[j].node \in Local
    /\ \E reply \in Reply :
          /\ ShellLaunch(hold[j].node, j, hold[j].gpus, reply)
          /\ IF reply = "error" THEN Fault("spawn") ELSE UNCHANGED faults
          /\ result' = [result EXCEPT ![j] = reply]
    /\ UNCHANGED <<up, memVars, pc, todo, seen, hold, snap, toWrite, handVars, netVars, row, processes>>

\* Phase 2 through a tunnel, nothing sent: the node is known to be offline, or
\* connecting fails and marks it so.
LaunchUnsent(j) ==
    /\ up = "up" /\ pc = "launch" /\ result[j] = "todo"
    /\ hold[j].node \notin Local
    /\ \/ ~online[hold[j].node] /\ UNCHANGED <<online, faults>>
       \/ online[hold[j].node] /\ Fault("offline") /\ online' = [online EXCEPT ![hold[j].node] = FALSE]
    /\ result' = [result EXCEPT ![j] = "unreachable"]
    /\ UNCHANGED <<up, memVars, pc, todo, seen, hold, snap, toWrite, handVars, wire, row, workerVars>>

\* Phase 2 through a tunnel, request handled and answered.
LaunchAnswered(j) ==
    /\ up = "up" /\ pc = "launch" /\ result[j] = "todo"
    /\ hold[j].node \notin Local /\ online[hold[j].node]
    /\ \E reply \in Reply :
          /\ Worker_launch(hold[j].node, j, hold[j].gpus, reply)
          /\ IF reply = "error" THEN Fault("spawn") ELSE UNCHANGED faults
          /\ result' = [result EXCEPT ![j] = reply]
    /\ UNCHANGED <<up, memVars, pc, todo, seen, hold, snap, toWrite, handVars, netVars, row>>

\* Slip: a launch without an answer counts as one that was not sent.
AnswerWhenLost_NotSent == "unreachable"

\* What a launch without an answer counts as: the job may be running.
AnswerWhenLost == "ok"

\* Phase 2 through a tunnel, no answer in time: the request was handled and the
\* reply lost, or the request was lost, or it is still under way.  The job
\* gets a handle and the next poll decides.
LaunchUnanswered(j) ==
    LET n == hold[j].node
    IN /\ up = "up" /\ pc = "launch" /\ result[j] = "todo"
       /\ n \notin Local /\ online[n]
       /\ \/ /\ Fault("lost")
             /\ \/ \E reply \in {"ok", "rejected"} : Worker_launch(n, j, hold[j].gpus, reply)
                \/ UNCHANGED workerVars
             /\ UNCHANGED wire
          \/ /\ Fault("late")
             /\ wire' = wire \cup {[node |-> n, job |-> j, gpus |-> hold[j].gpus]}
             /\ UNCHANGED workerVars
       /\ online' = [online EXCEPT ![n] = FALSE]
       /\ result' = [result EXCEPT ![j] = AnswerWhenLost]
       /\ UNCHANGED <<up, memVars, pc, todo, seen, hold, snap, toWrite, handVars, row>>

LaunchJob(j) == LaunchLocal(j) \/ LaunchUnsent(j) \/ LaunchAnswered(j) \/ LaunchUnanswered(j)

\* Whether a job not turned down by every node it fits is left a node.
could_go_elsewhere(j, turnedDown) ==
    \E n \in Node \ turnedDown : \E option \in gpu_options(Needs[j]) : could_fit(Total[n], option)

\* Slip: a job whose node could not be reached keeps its reservation.
GivesBack_NotUnreachable(answer) == answer \notin {"ok", "unreachable"}

\* Which answers to a launch give the reservation back: the job is not running.
GivesBack(answer) == answer # "ok"

\* Phase 3, one job, under the locks: apply what launching it answered.
Apply(j) ==
    LET a == hold[j]
        turnedDown == IF result[j] = "rejected" THEN rejected[j] \cup {a.node} ELSE rejected[j]
        next == CASE result[j] = "ok"    -> "Running"
                  [] result[j] = "error" -> "Failed"
                  [] result[j] = "rejected" /\ ~could_go_elsewhere(j, turnedDown) -> "Failed"
                  [] OTHER -> jobState[j]
    IN /\ up = "up"
       /\ \/ pc = "launch" /\ \A k \in Job : result[k] # "todo"
          \/ pc = "apply"
       /\ a # NoAlloc
       /\ jobState' = [jobState EXCEPT ![j] = next]
       /\ execution' = IF result[j] = "ok" THEN [execution EXCEPT ![j] = a] ELSE execution
       /\ pools' = IF GivesBack(result[j])
                   THEN [pools EXCEPT ![a.node] = Released(Total[a.node], @, a)] ELSE pools
       /\ rejected' = [rejected EXCEPT ![j] = turnedDown]
       /\ toWrite' = IF result[j] = "unreachable" THEN toWrite ELSE toWrite \cup {j}
       /\ hold' = [hold EXCEPT ![j] = NoAlloc]
       /\ result' = [result EXCEPT ![j] = "none"]
       /\ pc' = IF \E k \in Job \ {j} : hold[k] # NoAlloc THEN "apply" ELSE "snapshot"
       /\ UNCHANGED <<up, cancelling, requalify, todo, seen, snap, handVars, netVars, row, faults, workerVars>>

-----------------------------------------------------------------------------
(* Running -> terminal: advance_running *)

\* Phase 1: the running jobs, and whether each is being cancelled by now.
SnapshotRunning ==
    LET running == {j \in Job : jobState[j] = "Running" /\ execution[j] # NoAlloc}
    IN /\ AtPhase("snapshot")
       /\ result' = [j \in Job |-> IF j \in running THEN "todo" ELSE "none"]
       /\ snap' = [j \in Job |-> j \in running /\ cancelling[j]]
       /\ pc' = IF running = {} THEN "pending" ELSE "poll"
       /\ UNCHANGED <<up, memVars, todo, seen, hold, toWrite, handVars, netVars, row, faults, workerVars>>

\* Phase 2 on the controller's own machine.
PollLocal(j) ==
    /\ up = "up" /\ pc = "poll" /\ result[j] = "todo"
    /\ execution[j].node \in Local
    /\ \E answer \in Answer :
          /\ ShellPoll(execution[j].node, j, answer)
          /\ result' = [result EXCEPT ![j] = answer]
    /\ UNCHANGED <<up, memVars, pc, todo, seen, hold, snap, toWrite, handVars, netVars, row, faults, processes>>

\* Phase 2 through a tunnel, answered.  The log of a job that ended badly is
\* then read too, and losing that exchange marks the node offline.
PollAnswered(j) ==
    LET n == execution[j].node
    IN /\ up = "up" /\ pc = "poll" /\ result[j] = "todo"
       /\ n \notin Local /\ online[n]
       /\ \E answer \in Answer :
             /\ Worker_poll(n, j, answer)
             /\ result' = [result EXCEPT ![j] = answer]
             /\ \/ UNCHANGED <<online, faults>>
                \/ /\ answer \in ExitStatus \ {"exit0"} /\ ~snap[j]
                   /\ Fault("lost")
                   /\ online' = [online EXCEPT ![n] = FALSE]
       /\ UNCHANGED <<up, memVars, pc, todo, seen, hold, snap, toWrite, handVars, wire, row>>

\* Phase 2 through a tunnel, not answered: offline, or the exchange is lost
\* before or after the worker handled it.
PollUnanswered(j) ==
    LET n == execution[j].node
    IN /\ up = "up" /\ pc = "poll" /\ result[j] = "todo"
       /\ n \notin Local
       /\ \/ ~online[n] /\ UNCHANGED <<online, faults, workerVars>>
          \/ /\ online[n] /\ Fault("lost")
             /\ online' = [online EXCEPT ![n] = FALSE]
             /\ (\E answer \in Answer : Worker_poll(n, j, answer)) \/ UNCHANGED workerVars
       /\ result' = [result EXCEPT ![j] = "unreachable"]
       /\ UNCHANGED <<up, memVars, pc, todo, seen, hold, snap, toWrite, handVars, wire, row>>

PollJob(j) == PollLocal(j) \/ PollAnswered(j) \/ PollUnanswered(j)

\* What an ended execution makes of its job.
EndState(answer, wasCancelling) ==
    IF answer = "error" THEN "Failed"
    ELSE IF wasCancelling THEN "Cancelled"
    ELSE IF answer = "exit0" THEN "Succeeded" ELSE "Failed"

\* Phase 3, one job, under the locks: apply what polling it answered.
Reap(j) ==
    LET a == execution[j]
        ended == result[j] \in ExitStatus \cup {"error"}
    IN /\ up = "up"
       /\ \/ pc = "poll" /\ \A k \in Job : result[k] # "todo"
          \/ pc = "reap"
       /\ result[j] # "none"
       /\ IF ended
          THEN /\ jobState' = [jobState EXCEPT ![j] = EndState(result[j], snap[j])]
               /\ execution' = [execution EXCEPT ![j] = NoAlloc]
               /\ pools' = [pools EXCEPT ![a.node] = Released(Total[a.node], @, a)]
               /\ requalify' = IF result[j] = "signal" /\ ~snap[j]
                               THEN requalify \cup ({a.node} \X a.gpus) ELSE requalify
               /\ toWrite' = toWrite \cup {j}
          ELSE UNCHANGED <<jobState, execution, pools, requalify, toWrite>>
       /\ result' = [result EXCEPT ![j] = "none"]
       /\ snap' = [snap EXCEPT ![j] = FALSE]
       /\ pc' = IF \E k \in Job \ {j} : result[k] # "none" THEN "reap" ELSE "pending"
       /\ UNCHANGED <<up, cancelling, rejected, todo, seen, hold, handVars, netVars, row, faults, workerVars>>

-----------------------------------------------------------------------------
(* The handlers *)

\* handle_submit: a run in which some job fits no node is refused; otherwise
\* the run's own row is written, then its jobs' one by one, then it enters
\* memory.  An error of the store is ignored, for the run's row as for a job's.
BeginSubmit(r) ==
    /\ up = "up"
    /\ submission[r] = "new"
    /\ \A j \in Job : RunOf[j] = r => could_go_elsewhere(j, {})
    /\ submission' = [submission EXCEPT ![r] = "storing"]
    /\ \/ stored' = stored \cup {r} /\ UNCHANGED faults
       \/ Fault("store") /\ UNCHANGED stored
    /\ UNCHANGED <<up, memVars, loopVars, kills, netVars, row, workerVars>>

StoreJob(j) ==
    /\ up = "up"
    /\ submission[RunOf[j]] = "storing"
    /\ row[j] = NoRow
    /\ row' = [row EXCEPT ![j] = [state |-> "Pending", alloc |-> NoAlloc]]
    /\ UNCHANGED <<up, memVars, loopVars, handVars, netVars, faults, workerVars>>

InsertRun(r) ==
    /\ RunsUnlocked
    /\ submission[r] = "storing"
    /\ \/ (\A j \in Job : RunOf[j] = r => row[j] # NoRow) /\ UNCHANGED faults
       \/ (\E j \in Job : RunOf[j] = r /\ row[j] = NoRow) /\ Fault("store")
    /\ submission' = [submission EXCEPT ![r] = "done"]
    /\ jobState' = [j \in Job |-> IF RunOf[j] = r THEN "Pending" ELSE jobState[j]]
    /\ UNCHANGED <<up, execution, cancelling, rejected, pools, requalify, loopVars, kills,
                   stored, netVars, row, workerVars>>

\* Cancel marks the run's running jobs under the lock and collects a kill for
\* each; jobs that are pending, queued or being launched are left alone.
Cancel(r) ==
    LET running == {j \in Job : RunOf[j] = r /\ jobState[j] = "Running"}
    IN /\ RunsUnlocked
       /\ r \in Cancelled
       /\ \E j \in Job : RunOf[j] = r /\ jobState[j] # "absent"
       /\ cancelling' = [j \in Job |-> cancelling[j] \/ j \in running]
       /\ kills' = kills \cup {<<execution[j].node, j>> : j \in {k \in running : execution[k] # NoAlloc}}
       /\ UNCHANGED <<up, jobState, execution, rejected, pools, requalify, loopVars, submission,
                      stored, netVars, row, faults, workerVars>>

\* Send one kill, outside the lock; its outcome is ignored, so a kill that is
\* lost is not sent again.
Kill(n, j) ==
    /\ up = "up"
    /\ <<n, j>> \in kills
    /\ kills' = kills \ {<<n, j>>}
    /\ \/ n \in Local /\ StopScope(n, j) /\ UNCHANGED <<online, faults, processes>>
       \/ n \notin Local /\ ~online[n] /\ UNCHANGED <<online, faults, workerVars>>
       \/ n \notin Local /\ online[n] /\ Worker_kill(n, j) /\ UNCHANGED <<online, faults>>
       \/ /\ n \notin Local /\ online[n] /\ Fault("lost")
          /\ Worker_kill(n, j) \/ UNCHANGED workerVars
          /\ online' = [online EXCEPT ![n] = FALSE]
    /\ UNCHANGED <<up, memVars, loopVars, submission, stored, wire, row>>

-----------------------------------------------------------------------------
(* The tunnel and the nodes *)

\* The tunnel's health check passes, or it fails or ssh exits.
NodeOnline(n) ==
    /\ up = "up"
    /\ ~online[n]
    /\ online' = [online EXCEPT ![n] = TRUE]
    /\ UNCHANGED <<up, memVars, loopVars, handVars, wire, row, faults, workerVars>>

NodeOffline(n) ==
    /\ up = "up"
    /\ n \notin Local /\ online[n]
    /\ Fault("offline")
    /\ online' = [online EXCEPT ![n] = FALSE]
    /\ UNCHANGED <<up, memVars, loopVars, handVars, wire, row, workerVars>>

\* A Launch that outlived its timeout arrives; nobody reads the reply.
LateLaunch ==
    \E m \in wire :
       /\ wire' = wire \ {m}
       /\ \E reply \in {"ok", "rejected"} : Worker_launch(m.node, m.job, m.gpus, reply)
       /\ UNCHANGED <<up, memVars, loopVars, handVars, online, row, faults>>

NodeRestart(n) ==
    /\ n \notin Local
    /\ Fault("restart")
    /\ WorkerRestart(n)
    /\ UNCHANGED <<up, memVars, loopVars, handVars, netVars, row>>

ProcEnds(n, j) ==
    /\ ProcExit(n, j) \/ ProcGone(n, j)
    /\ UNCHANGED <<up, memVars, loopVars, handVars, netVars, row, faults>>

-----------------------------------------------------------------------------
(* Crash and recovery *)

\* A job was started whose Running row is not in the store yet.
LaunchUnsaved ==
    \E j \in Job : \/ hold[j] # NoAlloc /\ result[j] # "todo"
                   \/ jobState[j] = "Running" /\ row[j].state # "Running"

\* The controller dies; everything in memory is gone.  A crash between a launch
\* and the write of its Running row is a kind of fault of its own.
Crash ==
    /\ up # "down"
    /\ IF LaunchUnsaved THEN Fault("launchCrash") ELSE Fault("crash")
    /\ up' = "down"
    /\ jobState' = Each("absent")  /\ execution' = Each(NoAlloc)  /\ cancelling' = Each(FALSE)  /\ rejected' = Each({})
    /\ pools' = FreshPools  /\ requalify' = {}  /\ online' = AllOnline
    /\ pc' = "pending"  /\ todo' = {}  /\ seen' = {}
    /\ hold' = Each(NoAlloc)  /\ result' = Each("none")  /\ snap' = Each(FALSE)
    /\ toWrite' = {}  /\ kills' = {}
    /\ submission' = [r \in Run |-> IF submission[r] = "new" THEN "new" ELSE "done"]
    /\ UNCHANGED <<row, stored, wire, workerVars>>

\* The jobs of the runs that unfinished_runs returns: it selects from the runs
\* table, so a run whose own row was not written is not among them.
UnfinishedJobs ==
    {j \in Job : /\ RunOf[j] \in stored
                 /\ \E k \in Job : RunOf[k] = RunOf[j] /\ row[k].state \in Unfinished}

Restart ==
    /\ up = "down"
    /\ up' = "recovering"
    /\ todo' = UnfinishedJobs
    /\ UNCHANGED <<memVars, pc, seen, hold, result, snap, toWrite, handVars, netVars, row, faults, workerVars>>

\* take_back_runs, one job: a running job keeps what it holds and is polled
\* where it runs, or ends as Interrupted when this machine finds nothing of it.
RecoverJob(j) ==
    LET saved == row[j]
        lost  == saved.state = "Running" /\ saved.alloc.node \in Local /\ ~find(saved.alloc.node, j)
        taken == saved.state = "Running" /\ ~lost
    IN /\ up = "recovering"
       /\ j \in todo
       /\ todo' = todo \ {j}
       /\ jobState' = [jobState EXCEPT ![j] = IF saved.state = "absent" THEN "Pending"
                                              ELSE IF lost THEN "Interrupted" ELSE saved.state]
       /\ execution' = IF taken THEN [execution EXCEPT ![j] = saved.alloc] ELSE execution
       /\ pools' = IF taken
                   THEN [pools EXCEPT ![saved.alloc.node] = Booked(Total[saved.alloc.node], @, saved.alloc)]
                   ELSE pools
       /\ row' = IF lost THEN [row EXCEPT ![j] = [state |-> "Interrupted", alloc |-> NoAlloc]] ELSE row
       /\ UNCHANGED <<up, cancelling, rejected, requalify, pc, seen, hold, result, snap, toWrite,
                      handVars, netVars, faults, workerVars>>

\* The listener and the scheduler start once every run is taken back.
RecoverDone ==
    /\ up = "recovering"
    /\ todo = {}
    /\ up' = "up"
    /\ UNCHANGED <<memVars, loopVars, handVars, netVars, row, faults, workerVars>>

-----------------------------------------------------------------------------
(* The specification *)

SchedulerStep ==
    \/ advance_pending \/ cascade_skipped \/ BeginReserve \/ SnapshotRunning
    \/ \E j \in Job : Flush(j) \/ Reserve(j) \/ LaunchJob(j) \/ Apply(j) \/ PollJob(j) \/ Reap(j)

HandlerStep ==
    \/ \E r \in Run : BeginSubmit(r) \/ InsertRun(r) \/ Cancel(r)
    \/ \E j \in Job : StoreJob(j)
    \/ \E n \in Node, j \in Job : Kill(n, j)

NodeStep ==
    \/ \E n \in Node : NodeOnline(n) \/ NodeOffline(n) \/ NodeRestart(n)
    \/ \E n \in Node, j \in Job : ProcEnds(n, j)
    \/ LateLaunch

RecoveryStep == Crash \/ Restart \/ RecoverDone \/ \E j \in Job : RecoverJob(j)

Next == SchedulerStep \/ HandlerStep \/ NodeStep \/ RecoveryStep

Spec == Init /\ [][Next]_vars

\* The loop, the handlers and the tunnels run on a fair runtime, and the
\* controller is started again after a crash.
Fairness ==
    /\ WF_vars(SchedulerStep)
    /\ \A r \in Run : WF_vars(InsertRun(r))
    /\ \A j \in Job : WF_vars(StoreJob(j))
    /\ \A n \in Node, j \in Job : WF_vars(Kill(n, j))
    /\ \A n \in Node : WF_vars(NodeOnline(n))
    /\ WF_vars(Restart \/ RecoverDone \/ \E j \in Job : RecoverJob(j))

\* With commands that may run forever, and with commands that end.
FairSpec == Spec /\ Fairness
EndingSpec == FairSpec /\ \A n \in Node, j \in Job : WF_vars(ProcEnds(n, j))

-----------------------------------------------------------------------------
(* Properties *)

\* Card g of node n is booked for job j, being launched or running.
Holds(j, n, g) ==
    \/ hold[j].node = n /\ g \in hold[j].gpus
    \/ execution[j].node = n /\ g \in execution[j].gpus

\* One job per GPU: no card is ever booked for two jobs, and the pools say of
\* each card exactly whether it is booked, across placement, launches that
\* fail, exits, crashes and recovery.
CardsExclusive ==
    /\ \A i, j \in Job, n \in Node, g \in Card : Holds(i, n, g) /\ Holds(j, n, g) => i = j
    /\ \A n \in Node, g \in Card :
          pools[n].vram[g] = IF \E j \in Job : Holds(j, n, g) THEN 0 ELSE Total[n].vram[g]

\* The store never holds two running rows on one card, so booking what it
\* says after a crash at any point cannot overdraw a pool.
RowsExclusive ==
    \A i, j \in Job :
        /\ i # j
        /\ row[i].state = "Running" /\ row[j].state = "Running"
        /\ row[i].alloc.node = row[j].alloc.node
        => row[i].alloc.gpus \cap row[j].alloc.gpus = {}

\* What an allocation takes of node n.
CpuOn(alloc, n) == IF alloc.node = n THEN alloc.cpu ELSE 0
MemoryOn(alloc, n) == IF alloc.node = n THEN alloc.memory ELSE 0

\* What each job has of node n, reserved for a launch or held by its execution.
CpuHeld(n) == [j \in Job |-> CpuOn(hold[j], n) + CpuOn(execution[j], n)]
MemoryHeld(n) == [j \in Job |-> MemoryOn(hold[j], n) + MemoryOn(execution[j], n)]

\* Nothing leaks and nothing is counted twice: at every point of a tick, of a
\* failed launch and of recovery, what a node's pool has free and what its jobs
\* hold add up to the node's CPU and memory.
Conserved ==
    \A n \in Node :
        /\ pools[n].cpu + SumFunction(CpuHeld(n)) = Total[n].cpu
        /\ pools[n].memory + SumFunction(MemoryHeld(n)) = Total[n].memory

\* What each job's row claims of node n when runs are taken back.
CpuStored(n) == [j \in Job |-> IF row[j].state = "Running" THEN CpuOn(row[j].alloc, n) ELSE 0]
MemoryStored(n) == [j \in Job |-> IF row[j].state = "Running" THEN MemoryOn(row[j].alloc, n) ELSE 0]

\* The running rows of a node never claim more than the node has, whatever part
\* of a tick's transitions is written: booking them after a crash takes exactly
\* what they say and never stops at zero.
RowsFit ==
    \A n \in Node :
        /\ SumFunction(CpuStored(n)) <= Total[n].cpu
        /\ SumFunction(MemoryStored(n)) <= Total[n].memory

\* A job's command runs only after the success of all it depends on is in the
\* store, so no crash can undo the reason it was started for.
DepsStoredFirst ==
    \A n \in Node, j \in Job : find(n, j) => \A d \in Deps[j] : row[d].state = "Succeeded"

\* A job is recorded as succeeded only if its command ended with code 0 on
\* some node.
SuccessIsReal ==
    \A j \in Job : row[j].state = "Succeeded" => \E n \in Node : proc[n][j].exit = "exit0"

\* Clean handover: a card some job's processes still use is booked for that
\* job, so it cannot be given to another one, and a job that ended has no
\* process left anywhere.
CleanHandover ==
    /\ up = "up" => \A n \in Node, j \in Job : \A g \in proc[n][j].gpus : Holds(j, n, g)
    /\ \A n \in Node, j \in Job : row[j].state \in Terminal => ~proc[n][j].alive

\* A job never has processes on two nodes at once.
NeverTwice ==
    \A j \in Job, m, n \in Node : proc[m][j].alive /\ proc[n][j].alive => m = n

\* The recorded state of every job follows the lifecycle of JobLifecycle, with
\* crashes and recovery at any point; a row not stored yet counts as Pending,
\* which is what recovery makes of it.
Recorded == [j \in Job |-> IF row[j].state = "absent" THEN "Pending" ELSE row[j].state]
Lifecycle == INSTANCE JobLifecycle WITH status <- Recorded
FollowsLifecycle == Lifecycle!Spec

\* What ps and status report of a run: list_runs and get_run derive it from the
\* rows its jobs have, and do not know a run without a row of its own.
RunStatus(r) ==
    IF r \in stored
    THEN derive_run_state({row[j].state : j \in {k \in Job : RunOf[k] = r /\ row[k] # NoRow}})
    ELSE "unknown"

\* What ps says of a run as failed it says for good, and as succeeded once every
\* job of the run has a row, whatever is still running, cancelled or taken back
\* after a crash.
VerdictFinal ==
    [][\A r \in Run :
          \/ RunStatus(r) = "Failed"
          \/ RunStatus(r) = "Succeeded" /\ \A j \in Job : RunOf[j] = r => row[j] # NoRow
          => RunStatus(r)' = RunStatus(r)]_vars

\* Every job that was stored comes to a recorded end, while the store keeps what
\* is written: no crash, lost message or refused launch leaves it waiting for
\* resources nobody gives back.
EveryJobEnds == \A j \in Job : row[j].state # "absent" ~> row[j].state \in Terminal

\* A job that a cancel has a kill for ends even if its command would run
\* forever, also after a crash or a restart made its node forget it; unless the
\* controller dies or the node is out of reach before the kill is sent.
CancelCompletes ==
    \A j \in Job :
       (\E n \in Node : <<n, j>> \in kills)
       ~> (jobState[j] \in Terminal \/ up = "down" \/ \E n \in Node : execution[j].node = n /\ ~online[n])

\* A job killed by a cancel does not end as Failed: the cancelling flag is there
\* to prevent that.
CancelIsNotFailure ==
    \A j \in Job : cancelling[j] /\ jobState[j] = "Failed" => \E n \in Node : proc[n][j].exit = "exitN"
=============================================================================
