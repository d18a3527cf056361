--------------------------- MODULE HandoverProofs ---------------------------
(***************************************************************************)
(* What the controller may conclude about the processes of its jobs: a     *)
(* success it records is one, a job has processes on one node at a time,   *)
(* and none once it ended or a card was passed on.                         *)
(***************************************************************************)
EXTENDS LifecycleProofs

(* What a step does to the processes on the nodes *)

\* Nothing is started, nothing gets more cards and no exit code is lost.
Quiet ==
    \A m \in Node, k \in Job :
        /\ proc'[m][k].alive => proc[m][k].alive
        /\ proc'[m][k].gpus \subseteq proc[m][k].gpus
        /\ proc'[m][k].gpus = {} \/ proc'[m][k].alive = proc[m][k].alive
        /\ proc[m][k].exit # "none" => proc'[m][k].exit = proc[m][k].exit
        /\ find(m, k)' => find(m, k)

\* The command of job j is started on node n.
Starts(n, j, gpus) ==
    /\ ~find(n, j)
    /\ proc' = [proc EXCEPT ![n][j] = [alive |-> TRUE, exit |-> "none", gpus |-> gpus]]

\* Every operation of a node but a launch only ends processes, and a launch
\* starts the job it is for or nothing.
LEMMA WorkerMoves ==
    ASSUME WorkerTypeOK, NEW n \in Node, NEW j \in Job, NEW gpus, NEW x
    PROVE  /\ StopScope(n, j) => Quiet
           /\ ShellPoll(n, j, x) => Quiet
           /\ Worker_poll(n, j, x) => Quiet
           /\ Worker_kill(n, j) => Quiet
           /\ ProcExit(n, j) \/ ProcGone(n, j) => Quiet
           /\ UNCHANGED proc => Quiet
           /\ ShellLaunch(n, j, gpus, x) \/ Worker_launch(n, j, gpus, x) => Quiet \/ (x = "ok" /\ Starts(n, j, gpus))
<1> USE DEF WorkerTypeOK, Quiet, find
<1>1. UNCHANGED proc => Quiet
  OBVIOUS
<1>2. StopScope(n, j) => Quiet
  <2> SUFFICES ASSUME StopScope(n, j) PROVE Quiet
    OBVIOUS
  <2>1. proc[n][j] \in Process /\ proc'[n][j] = [proc[n][j] EXCEPT !.alive = FALSE, !.gpus = {}]
    BY DEF StopScope
  <2>2. proc'[n][j].alive = FALSE /\ proc'[n][j].gpus = {} /\ proc'[n][j].exit = proc[n][j].exit
    BY <2>1 DEF Process
  <2>3. \A m \in Node, k \in Job : (m = n /\ k = j) \/ proc'[m][k] = proc[m][k]
    BY DEF StopScope
  <2> QED
    BY <2>2, <2>3
<1>3. ShellPoll(n, j, x) => Quiet
  BY <1>1, <1>2 DEF ShellPoll
<1>4. Worker_poll(n, j, x) => Quiet
  BY <1>1, <1>3 DEF Worker_poll, workerVars
<1>5. Worker_kill(n, j) => Quiet
  BY <1>1, <1>2 DEF Worker_kill, workerVars
<1>6. ProcExit(n, j) => Quiet
  BY DEF ProcExit, Process, ExitStatus
<1>7. ProcGone(n, j) => Quiet
  BY <1>2 DEF ProcGone
<1>8. ShellLaunch(n, j, gpus, x) => Quiet \/ (x = "ok" /\ Starts(n, j, gpus))
  BY <1>1 DEF ShellLaunch, Starts
<1>9. Worker_launch(n, j, gpus, x) => Quiet \/ (x = "ok" /\ Starts(n, j, gpus))
  BY <1>1, <1>8 DEF Worker_launch, workerVars
<1> QED
  BY <1>1, <1>2, <1>3, <1>4, <1>5, <1>6, <1>7, <1>8, <1>9

\* The scheduler's launch of job j starts its command.
Launched(j) ==
    /\ up = "up" /\ pc = "launch" /\ result[j] = "todo"
    /\ Starts(hold[j].node, j, hold[j].gpus)
    /\ result' = [result EXCEPT ![j] = "ok"]
    /\ UNCHANGED <<up, jobState, execution, pc, todo, hold, toWrite, submission, stored, row, wire>>

\* Whatever happens, at most one command is started, by the scheduler's launch
\* or by one that arrives late.
LEMMA Moves ==
    ASSUME TypeOK, LoopOK, [Next]_vars
    PROVE  \/ Quiet
           \/ \E j \in Job : Launched(j)
           \/ \E m \in wire : Starts(m.node, m.job, m.gpus) /\ UNCHANGED coreVars
<1>0. WorkerTypeOK
  BY DEF TypeOK
<1>1. UNCHANGED workerVars => Quiet
  BY DEF workerVars, Quiet, find
<1>2. \A j \in Job : result[j] = "todo" /\ pc = "launch" => hold[j].node \in Node /\ hold[j].gpus \subseteq Card
  BY AllocFields DEF TypeOK, LoopOK
<1>3. \A j \in Job : result[j] = "todo" /\ pc = "poll" => execution[j].node \in Node
  BY AllocFields DEF TypeOK, LoopOK
<1>4. ASSUME NEW j \in Job, LaunchJob(j) PROVE Quiet \/ Launched(j)
  <2> USE <1>0, <1>1, <1>2, WorkerMoves DEF Launched, memVars, handVars
  <2>1. CASE LaunchLocal(j)
    BY <2>1 DEF LaunchLocal, netVars
  <2>2. CASE LaunchUnsent(j)
    BY <2>2 DEF LaunchUnsent
  <2>3. CASE LaunchAnswered(j)
    BY <2>3 DEF LaunchAnswered, netVars
  <2>4. CASE LaunchUnanswered(j)
    BY <2>4 DEF LaunchUnanswered, AnswerWhenLost
  <2> QED
    BY <1>4, <2>1, <2>2, <2>3, <2>4 DEF LaunchJob
<1>5. ASSUME NEW j \in Job, PollJob(j) PROVE Quiet
  <2> USE <1>0, <1>1, <1>3, WorkerMoves
  <2>1. CASE PollLocal(j)
    BY <2>1 DEF PollLocal
  <2>2. CASE PollAnswered(j)
    BY <2>2 DEF PollAnswered
  <2>3. CASE PollUnanswered(j)
    BY <2>3 DEF PollUnanswered
  <2> QED
    BY <1>5, <2>1, <2>2, <2>3 DEF PollJob
<1>6. ASSUME SchedulerStep PROVE Quiet \/ \E j \in Job : Launched(j)
  BY <1>1, <1>4, <1>5, <1>6
  DEF SchedulerStep, advance_pending, cascade_skipped, BeginReserve, SnapshotRunning, Flush, Reserve, Apply, Reap
<1>7. ASSUME HandlerStep PROVE Quiet
  <2>1. ASSUME NEW n \in Node, NEW j \in Job, Kill(n, j) PROVE Quiet
    BY <2>1, <1>0, <1>1, WorkerMoves DEF Kill
  <2> QED
    BY <2>1, <1>1, <1>7 DEF HandlerStep, BeginSubmit, InsertRun, Cancel, StoreJob
<1>8. ASSUME NodeStep PROVE Quiet \/ \E m \in wire : Starts(m.node, m.job, m.gpus) /\ UNCHANGED coreVars
  <2>1. CASE LateLaunch
    <3>1. UNCHANGED coreVars
      BY <2>1 DEF LateLaunch, coreVars, memVars, loopVars, handVars
    <3>2. \A m \in wire : m.node \in Node /\ m.job \in Job
      BY DEF TypeOK, Launch
    <3> QED
      BY <2>1, <3>1, <3>2, <1>0, WorkerMoves DEF LateLaunch
  <2>2. ASSUME NEW n \in Node, NEW j \in Job, ProcEnds(n, j) PROVE Quiet
    BY <2>2, <1>0, WorkerMoves DEF ProcEnds
  <2>3. ASSUME NEW n \in Node, NodeOnline(n) \/ NodeOffline(n) \/ NodeRestart(n) PROVE Quiet
    BY <2>3 DEF NodeOnline, NodeOffline, NodeRestart, WorkerRestart, workerVars, Quiet, find
  <2> QED
    BY <2>1, <2>2, <2>3, <1>8 DEF NodeStep
<1>9. ASSUME RecoveryStep PROVE Quiet
  BY <1>1, <1>9 DEF RecoveryStep, Crash, Restart, RecoverDone, RecoverJob
<1>10. ASSUME UNCHANGED vars PROVE Quiet
  BY <1>1, <1>10 DEF vars
<1> QED
  BY <1>6, <1>7, <1>8, <1>9, <1>10 DEF Next

\* A launch or a late arrival may change what is under way, nothing else.
LEMMA WireSteps ==
    ASSUME [Next]_vars
    PROVE  UNCHANGED wire \/ LateLaunch \/ \E j \in Job : LaunchJob(j)
<1> USE DEF netVars
<1>1. SchedulerStep => UNCHANGED wire \/ \E j \in Job : LaunchJob(j)
  BY DEF SchedulerStep, PollJob, advance_pending, cascade_skipped, BeginReserve, SnapshotRunning, Flush, Reserve,
         Apply, PollLocal, PollAnswered, PollUnanswered, Reap
<1>2. HandlerStep => UNCHANGED wire
  BY DEF HandlerStep, BeginSubmit, InsertRun, Cancel, StoreJob, Kill
<1>3. NodeStep => UNCHANGED wire \/ LateLaunch
  BY DEF NodeStep, NodeOnline, NodeOffline, NodeRestart, ProcEnds
<1>4. RecoveryStep => UNCHANGED wire
  BY DEF RecoveryStep, Crash, Restart, RecoverDone, RecoverJob
<1> QED
  BY <1>1, <1>2, <1>3, <1>4 DEF Next, vars

\* An exit code that was written stays.
LEMMA CodesStay ==
    ASSUME TypeOK, LoopOK, [Next]_vars, NEW n \in Node, NEW j \in Job, proc[n][j].exit # "none"
    PROVE  proc'[n][j].exit = proc[n][j].exit
<1>1. ASSUME NEW m, NEW k, NEW gpus, Starts(m, k, gpus) PROVE proc'[n][j].exit = proc[n][j].exit
  BY <1>1 DEF Starts, find, TypeOK, WorkerTypeOK
<1> QED
  BY <1>1, Moves DEF Quiet, Launched

\* What an answer to a poll of j says of the processes at j's node.
Told(j) ==
    \/ result'[j] \in {"running", "unreachable"}
    \/ /\ ~proc'[execution[j].node][j].alive
       /\ result'[j] = "exit0" => proc'[execution[j].node][j].exit = "exit0"

\* Every answer that a step brings answers a launch or a poll.
LEMMA Answers ==
    ASSUME TypeOK, LoopOK, [Next]_vars, NEW j \in Job
    PROVE  \/ result'[j] \in {result[j], "none", "todo"}
           \/ pc = "launch" /\ result'[j] \in {"ok", "rejected", "error", "unreachable"}
           \/ pc = "poll" /\ result[j] = "todo" /\ Told(j)
<1> USE DEF TypeOK
<1>1. ASSUME NEW k \in Job, LaunchJob(k)
      PROVE  /\ pc = "launch"
             /\ \E x \in {"ok", "rejected", "error", "unreachable"} : result' = [result EXCEPT ![k] = x]
  BY <1>1 DEF LaunchJob, LaunchLocal, LaunchUnsent, LaunchAnswered, LaunchUnanswered, AnswerWhenLost, Reply
<1>2. ASSUME NEW k \in Job, PollJob(k) PROVE pc = "poll" /\ result[k] = "todo" /\ Told(k)
  <2>1. pc = "poll" /\ result[k] = "todo" /\ execution[k].node \in Node
    BY <1>2, AllocFields DEF PollJob, PollLocal, PollAnswered, PollUnanswered, LoopOK
  <2>2. ASSUME NEW x \in Answer, ShellPoll(execution[k].node, k, x), result' = [result EXCEPT ![k] = x]
        PROVE  Told(k)
    <3> DEFINE n == execution[k].node
    <3>1. result'[k] = x /\ x = poll_scope(proc[n][k]) /\ proc[n][k] \in Process
      BY <2>1, <2>2 DEF ShellPoll, WorkerTypeOK
    <3>2. CASE proc[n][k].exit # "none"
      <4>1. proc'[n][k].alive = FALSE /\ proc'[n][k].exit = proc[n][k].exit
        <5>1. proc'[n][k] = [proc[n][k] EXCEPT !.alive = FALSE, !.gpus = {}]
          BY <2>1, <2>2, <3>2 DEF ShellPoll, StopScope, WorkerTypeOK
        <5> QED
          BY <3>1, <5>1 DEF Process
      <4> QED
        BY <3>1, <3>2, <4>1 DEF poll_scope, Told
    <3>3. CASE proc[n][k].exit = "none"
      BY <2>2, <3>1, <3>3 DEF ShellPoll, poll_scope, Told
    <3> QED
      BY <3>2, <3>3
  <2>3. ASSUME NEW x \in Answer, Worker_poll(execution[k].node, k, x), result' = [result EXCEPT ![k] = x]
        PROVE  Told(k)
    BY <2>1, <2>2, <2>3 DEF Worker_poll, known, find, workerVars, Told, WorkerTypeOK, Process
  <2> QED
    BY <1>2, <2>1, <2>2, <2>3 DEF PollJob, PollLocal, PollAnswered, PollUnanswered, Told
<1>3. ASSUME NEW k \in Job, PollJob(k) PROVE k = j \/ result'[j] = result[j]
  BY <1>3 DEF PollJob, PollLocal, PollAnswered, PollUnanswered
<1>4. ASSUME SchedulerStep, ~ \E k \in Job : LaunchJob(k) \/ PollJob(k)
      PROVE  result'[j] \in {result[j], "none", "todo"}
  BY <1>4 DEF SchedulerStep, advance_pending, cascade_skipped, BeginReserve, SnapshotRunning, Flush, Reserve,
              Apply, Reap, loopVars
<1>5. ASSUME HandlerStep \/ NodeStep \/ RecoveryStep \/ UNCHANGED vars
      PROVE  result'[j] \in {result[j], "none", "todo"}
  BY <1>5 DEF HandlerStep, NodeStep, RecoveryStep, vars, loopVars, BeginSubmit, InsertRun, Cancel, StoreJob, Kill,
              NodeOnline, NodeOffline, NodeRestart, ProcEnds, LateLaunch, Crash, Each, Restart, RecoverDone, RecoverJob
<1> QED
  BY <1>1, <1>2, <1>3, <1>4, <1>5 DEF Next

-----------------------------------------------------------------------------
(* Successes *)

\* Wherever a success is on its way to the store, the command ended with code 0.
RealOK ==
    \A j \in Job :
        row[j].state = "Succeeded" \/ jobState[j] = "Succeeded" \/ result[j] = "exit0"
        => \E n \in Node : proc[n][j].exit = "exit0"

\* No step makes up a success.
LEMMA RealPreserved ==
    ASSUME TypeOK, LoopOK, RealOK, [Next]_vars
    PROVE  RealOK'
<1>1. ASSUME NEW j \in Job, result'[j] = "exit0", result[j] # "exit0"
      PROVE  \E n \in Node : proc'[n][j].exit = "exit0"
  <2>1. pc = "poll" /\ result[j] = "todo" /\ Told(j)
    BY <1>1, Answers
  <2>2. execution[j].node \in Node
    BY <2>1, AllocFields DEF LoopOK, TypeOK
  <2> QED
    BY <1>1, <2>1, <2>2 DEF Told
<1>2. ASSUME NEW j \in Job, jobState'[j] = "Succeeded"
      PROVE  jobState[j] = "Succeeded" \/ result[j] = "exit0" \/ row[j].state = "Succeeded"
  <2> USE <1>2 DEF TypeOK, memVars
  <2>1. CASE advance_pending \/ cascade_skipped \/ Crash
    BY <2>1 DEF advance_pending, cascade_skipped, Crash, Each
  <2>2. ASSUME NEW k \in Job, Apply(k) PROVE jobState[j] = "Succeeded"
    BY <2>2 DEF Apply
  <2>3. ASSUME NEW k \in Job, Reap(k) PROVE jobState[j] = "Succeeded" \/ result[j] = "exit0"
    BY <2>3 DEF Reap, EndState
  <2>4. ASSUME NEW k \in Job, RecoverJob(k) PROVE jobState[j] = "Succeeded" \/ row[j].state = "Succeeded"
    BY <2>4 DEF RecoverJob
  <2>5. ASSUME NEW r \in Run, InsertRun(r) PROVE jobState[j] = "Succeeded"
    BY <2>5 DEF InsertRun
  <2> QED
    BY <2>1, <2>2, <2>3, <2>4, <2>5, StepKinds
    DEF CoreStep, coreVars, BeginReserve, SnapshotRunning, Restart, RecoverDone, Flush, Reserve, Answered, StoreJob,
        BeginSubmit
<1>3. ASSUME NEW j \in Job, row'[j].state = "Succeeded"
      PROVE  row[j].state = "Succeeded" \/ jobState[j] = "Succeeded"
  BY <1>3, RowWriters DEF Flush, StoreJob, RecoverJob, TypeOK
<1>4. ASSUME NEW n \in Node, NEW j \in Job, proc[n][j].exit = "exit0" PROVE proc'[n][j].exit = "exit0"
  BY <1>4, CodesStay
<1> QED
  BY <1>1, <1>2, <1>3, <1>4 DEF RealOK

\* A job is recorded as succeeded only if its command ended with code 0, however
\* polls are lost, repeated or answered after a restart of the node, and
\* whatever the controller forgets (poll_scope, advance_running, find).
THEOREM SuccessesAreReal == Spec => []SuccessIsReal
<1>1. Init => RealOK
  BY DEF Init, Each, NoRow, RealOK
<1>2. TypeOK /\ LoopOK /\ RealOK /\ [Next]_vars => RealOK'
  BY RealPreserved
<1>3. RealOK => SuccessIsReal
  BY DEF RealOK, SuccessIsReal
<1> QED
  BY <1>1, <1>2, <1>3, SavedInvariant, PTL DEF Spec

-----------------------------------------------------------------------------
(* Dependencies *)

\* A job that was ever started, or that a launch under way may start, has what
\* it depends on in the store.
StartedOK ==
    /\ \A n \in Node, j \in Job : find(n, j) => \A d \in Deps[j] : row[d].state = "Succeeded"
    /\ \A m \in wire : \A d \in Deps[m.job] : row[d].state = "Succeeded"

\* No step starts a job before the success of all it depends on is stored.
LEMMA StartedPreserved ==
    ASSUME TypeOK, LoopOK, MemOK, SavedOK, DepsOK, StartedOK, [Next]_vars
    PROVE  StartedOK'
<1>1. ASSUME NEW j \in Job, row[j].state = "Succeeded" PROVE row'[j].state = "Succeeded"
  BY <1>1, EndsStay DEF Terminal
<1>2. \A j \in Job : Deps[j] \subseteq Job
  BY JobsAssumption
<1>3. ASSUME NEW n \in Node, NEW j \in Job, find(n, j)' PROVE \A d \in Deps[j] : row[d].state = "Succeeded"
  <2>1. CASE find(n, j)
    BY <2>1 DEF StartedOK
  <2>2. CASE \E k \in Job : Launched(k)
    <3>1. \A k \in Job : Launched(k) => k = j \/ find(n, j)
      BY <1>3 DEF Launched, Starts, find, TypeOK, WorkerTypeOK
    <3>2. \A k \in Job : Launched(k) => jobState[k] = "Queued"
      BY DEF Launched, LoopOK, MemOK
    <3> QED
      BY <2>1, <2>2, <3>1, <3>2 DEF DepsOK
  <2>3. CASE \E m \in wire : Starts(m.node, m.job, m.gpus)
    <3>1. PICK m \in wire : Starts(m.node, m.job, m.gpus)
      BY <2>3
    <3>2. m.job = j \/ find(n, j)
      BY <1>3, <3>1 DEF Starts, find, TypeOK, WorkerTypeOK
    <3> QED
      BY <2>1, <3>1, <3>2 DEF StartedOK
  <2> QED
    BY <1>3, <2>1, <2>2, <2>3, Moves DEF Quiet
<1>4. ASSUME NEW m \in wire' PROVE m \in wire \/ \E j \in Job : m.job = j /\ pc = "launch" /\ result[j] = "todo"
  <2>1. \A j \in Job : LaunchJob(j) => m \in wire \/ (m.job = j /\ pc = "launch" /\ result[j] = "todo")
    BY DEF LaunchJob, LaunchLocal, LaunchUnsent, LaunchAnswered, LaunchUnanswered, netVars
  <2>2. LateLaunch => m \in wire
    BY DEF LateLaunch
  <2> QED
    BY <2>1, <2>2, WireSteps
<1>5. ASSUME NEW m \in wire' PROVE m.job \in Job /\ \A d \in Deps[m.job] : row[d].state = "Succeeded"
  <2>1. \A j \in Job : pc = "launch" /\ result[j] = "todo" => jobState[j] = "Queued"
    BY DEF LoopOK, MemOK
  <2> QED
    BY <1>4, <2>1 DEF StartedOK, DepsOK, TypeOK, Launch
<1> QED
  BY <1>1, <1>2, <1>3, <1>5 DEF StartedOK

\* A job's command runs only after the success of all it depends on is in the
\* store (advance_pending reads what flush_transitions wrote), also when a
\* launch arrives late or the controller took the run back in between.
THEOREM DependenciesFirst ==
    ASSUME "store" \notin Faults
    PROVE  Spec => []DepsStoredFirst
<1>1. Init => StartedOK
  BY DEF Init, WorkerInit, NoProcess, StartedOK, find
<1>2. TypeOK /\ LoopOK /\ MemOK /\ SavedOK /\ DepsOK /\ StartedOK /\ [Next]_vars => StartedOK'
  BY StartedPreserved
<1>3. StartedOK => DepsStoredFirst
  BY DEF StartedOK, DepsStoredFirst
<1> QED
  BY <1>1, <1>2, <1>3, SavedInvariant, StoreInvariant, PTL DEF Spec

-----------------------------------------------------------------------------
(* Processes *)

\* A job that a controller which was up before had running, of a run whose own
\* row was never written: the store still says Running and nobody knows the job.
Orphan(j) == RunOf[j] \notin stored /\ jobState[j] = "absent" /\ row[j].state = "Running"

\* Whose job runs, where and with which cards, is in the controller's memory
\* while it is up, unless the job is an orphan, and in the store while it is
\* not; a job answered as ended is nowhere.
AliveOK ==
    /\ wire = {}
    /\ \A n \in Node, j \in Job : ~proc[n][j].alive => proc[n][j].gpus = {}
    /\ up = "up" => \A n \in Node, j \in Job : proc[n][j].alive =>
          \/ execution[j].node = n /\ proc[n][j].gpus \subseteq execution[j].gpus
          \/ hold[j].node = n /\ result[j] = "ok" /\ proc[n][j].gpus \subseteq hold[j].gpus
          \/ Orphan(j) /\ row[j].alloc.node = n /\ proc[n][j].gpus \subseteq row[j].alloc.gpus
    /\ up # "up" => \A n \in Node, j \in Job : proc[n][j].alive =>
          row[j].state = "Running" /\ row[j].alloc.node = n /\ proc[n][j].gpus \subseteq row[j].alloc.gpus
    /\ pc \in {"poll", "reap"} => \A j \in Job : result[j] \in ExitStatus \cup {"error"} =>
          \A n \in Node : ~proc[n][j].alive

\* While no launch arrives late, a job alive after a step was alive before, or
\* the scheduler has just launched it where it holds a reservation.
LEMMA Alives ==
    ASSUME TypeOK, LoopOK, wire = {}, [Next]_vars, NEW n \in Node, NEW j \in Job, proc'[n][j].alive
    PROVE  \/ proc[n][j].alive /\ proc'[n][j].gpus \subseteq proc[n][j].gpus
           \/ Launched(j) /\ hold[j].node = n /\ proc'[n][j].gpus = hold[j].gpus
<1>1. ASSUME NEW k \in Job, Launched(k)
      PROVE  \/ proc[n][j].alive /\ proc'[n][j].gpus \subseteq proc[n][j].gpus
             \/ Launched(j) /\ hold[j].node = n /\ proc'[n][j].gpus = hold[j].gpus
  <2>1. CASE k = j /\ hold[j].node = n
    BY <1>1, <2>1 DEF Launched, Starts, TypeOK, WorkerTypeOK
  <2>2. CASE ~(k = j /\ hold[j].node = n)
    BY <1>1, <2>2 DEF Launched, Starts, TypeOK, WorkerTypeOK
  <2> QED
    BY <2>1, <2>2
<1> QED
  BY <1>1, Moves DEF Quiet

\* Polling begins with a snapshot of the running jobs.
LEMMA PollBegins ==
    ASSUME [Next]_vars, pc' \in {"poll", "reap"}
    PROVE  pc \in {"poll", "reap"} \/ SnapshotRunning
BY StepKinds
   DEF CoreStep, coreVars, advance_pending, cascade_skipped, BeginReserve, Crash, Restart, RecoverDone, Flush, Reserve,
       AfterReserve, Answered, Apply, Reap, StoreJob, RecoverJob, BeginSubmit, InsertRun, loopVars

\* What is alive is in memory or in the store after every step, if no launch
\* outlives its timeout and no crash comes between a launch and its row.
LEMMA AlivePreserved ==
    ASSUME TypeOK, LoopOK, MemOK, SavedOK, AliveOK, Faults \cap {"late", "launchCrash"} = {}, [Next]_vars
    PROVE  AliveOK'
<1>1. wire' = {}
  <2>1. \A j \in Job : LaunchJob(j) => UNCHANGED wire
    BY DEF LaunchJob, LaunchLocal, LaunchUnsent, LaunchAnswered, LaunchUnanswered, Fault, netVars
  <2> QED
    BY <2>1, WireSteps DEF LateLaunch, AliveOK
<1>2. \A n \in Node, j \in Job : ~proc'[n][j].alive => proc'[n][j].gpus = {}
  <2>1. ASSUME NEW n \in Node, NEW j \in Job, Quiet, ~proc'[n][j].alive PROVE proc'[n][j].gpus = {}
    BY <2>1 DEF Quiet, AliveOK
  <2>2. ASSUME NEW n \in Node, NEW j \in Job, NEW k \in Job, Launched(k), ~proc'[n][j].alive
        PROVE  proc'[n][j].gpus = {}
    <3>1. ~(k = j /\ hold[k].node = n)
      BY <2>2 DEF Launched, Starts, TypeOK, WorkerTypeOK
    <3> QED
      BY <2>2, <3>1 DEF Launched, Starts, TypeOK, WorkerTypeOK, AliveOK
  <2> QED
    BY <2>1, <2>2, Moves DEF AliveOK
<1>3. \A j \in Job : /\ execution[j].node \in Node => jobState[j] = "Running" /\ hold[j].node \notin Node
                     /\ hold[j].node \in Node => /\ up = "up" /\ pc \in {"reserve", "launch", "apply"}
                                                 /\ hold[j] # NoAlloc
  BY NodesAndCards DEF MemOK, TypeOK, NoAlloc
<1> DEFINE Kept(n, j) ==
        \/ execution'[j].node = n /\ proc'[n][j].gpus \subseteq execution'[j].gpus
        \/ hold'[j].node = n /\ result'[j] = "ok" /\ proc'[n][j].gpus \subseteq hold'[j].gpus
        \/ Orphan(j)' /\ row'[j].alloc.node = n /\ proc'[n][j].gpus \subseteq row'[j].alloc.gpus
<1>7. ASSUME NEW j \in Job, Orphan(j), up = "up", up' = "up" PROVE Orphan(j)' /\ row'[j] = row[j]
  <2>1. RunOf[j] \in Run /\ submission[RunOf[j]] = "done" /\ j \notin toWrite /\ row[j] # NoRow
    BY <1>7, JobsAssumption DEF Orphan, MemOK, NoRow
  <2> USE <1>7, <2>1 DEF Orphan, TypeOK
  <2>2. row'[j] = row[j]
    BY RowWriters DEF Flush, StoreJob, RecoverJob
  <2>3. jobState'[j] = jobState[j] /\ RunOf[j] \notin stored'
    <3>1. ASSUME NEW k \in Job, Apply(k) \/ Reap(k) PROVE jobState'[j] = jobState[j] /\ RunOf[j] \notin stored'
      <4>1. k # j
        BY <3>1 DEF Apply, Reap, MemOK, LoopOK
      <4> QED
        BY <3>1, <4>1 DEF Apply, Reap, handVars
    <3>2. ASSUME NEW r \in Run, InsertRun(r) \/ BeginSubmit(r) PROVE jobState'[j] = jobState[j] /\ RunOf[j] \notin stored'
      BY <3>2 DEF InsertRun, BeginSubmit, memVars
    <3>3. CASE advance_pending \/ cascade_skipped
      BY <3>3 DEF advance_pending, cascade_skipped, handVars
    <3> QED
      BY <3>1, <3>2, <3>3, StepKinds
      DEF CoreStep, coreVars, BeginReserve, SnapshotRunning, Crash, Restart, RecoverDone, RecoverJob, Flush, Reserve,
          Answered, StoreJob, memVars, handVars
  <2> QED
    BY <2>2, <2>3
<1>4. ASSUME up' = "up", NEW n \in Node, NEW j \in Job, proc'[n][j].alive
      PROVE  Kept(n, j)
  <2>1. CASE Launched(j) /\ hold[j].node = n /\ proc'[n][j].gpus = hold[j].gpus
    BY <2>1 DEF Launched, TypeOK
  <2>2. CASE proc[n][j].alive /\ proc'[n][j].gpus \subseteq proc[n][j].gpus /\ up = "up"
    <3>0. CASE Orphan(j) /\ row[j].alloc.node = n /\ proc[n][j].gpus \subseteq row[j].alloc.gpus
      BY <1>4, <1>7, <2>2, <3>0
    <3>1. CASE \/ execution[j].node = n /\ proc'[n][j].gpus \subseteq execution[j].gpus
               \/ hold[j].node = n /\ result[j] = "ok" /\ proc'[n][j].gpus \subseteq hold[j].gpus
      <4> USE <3>1, <1>3, <1>4 DEF TypeOK
      <4>2. CASE SnapshotRunning
        BY <4>2 DEF SnapshotRunning, AtPhase, memVars
      <4>3. ASSUME NEW k \in Job, Reserve(k) PROVE Kept(n, j)
        BY <4>3 DEF Reserve, MemOK
      <4>4. ASSUME NEW k \in Job, Answered(k) PROVE Kept(n, j)
        BY <4>4 DEF Answered
      <4>5. ASSUME NEW k \in Job, Apply(k) PROVE Kept(n, j)
        BY <4>5 DEF Apply, MemOK
      <4>6. ASSUME NEW k \in Job, Reap(k) PROVE Kept(n, j)
        <5>1. UNCHANGED hold /\ pc \in {"poll", "reap"}
          BY <4>6 DEF Reap
        <5>2. hold[j].node \notin Node
          BY <5>1
        <5>3. CASE k = j /\ result[j] \in ExitStatus \cup {"error"}
          BY <2>2, <5>1, <5>3 DEF AliveOK
        <5>4. CASE ~(k = j /\ result[j] \in ExitStatus \cup {"error"})
          <6>1. execution'[j] = execution[j]
            BY <4>6, <5>4 DEF Reap
          <6> QED
            BY <5>2, <6>1
        <5> QED
          BY <5>3, <5>4
      <4> QED
        BY <4>2, <4>3, <4>4, <4>5, <4>6, <2>2, StepKinds
        DEF CoreStep, coreVars, advance_pending, cascade_skipped, BeginReserve, Crash, Restart, RecoverDone, RecoverJob,
            Flush, StoreJob, BeginSubmit, InsertRun, memVars, loopVars
    <3> QED
      BY <2>2, <3>0, <3>1 DEF AliveOK
  <2>3. CASE proc[n][j].alive /\ proc'[n][j].gpus \subseteq proc[n][j].gpus /\ up # "up"
    <3>1. RecoverDone
      BY <1>4, <2>3, StepKinds
      DEF CoreStep, coreVars, advance_pending, cascade_skipped, BeginReserve, SnapshotRunning, AtPhase, Crash, Restart,
          RecoverJob, Flush, RunsUnlocked, Reserve, Answered, Apply, Reap, StoreJob, BeginSubmit, InsertRun
    <3>2. row[j].state = "Running" /\ row[j].alloc.node = n /\ proc'[n][j].gpus \subseteq row[j].alloc.gpus
      BY <2>3 DEF AliveOK
    <3>3. execution[j] = row[j].alloc \/ Orphan(j)
      BY <3>1, <3>2 DEF RecoverDone, SavedOK, Terminal, Orphan
    <3> QED
      BY <3>1, <3>2, <3>3 DEF RecoverDone, memVars, handVars, Orphan
  <2> QED
    BY <1>4, <2>1, <2>2, <2>3, Alives DEF AliveOK
<1>5. ASSUME up' # "up", NEW n \in Node, NEW j \in Job, proc'[n][j].alive
      PROVE  row'[j].state = "Running" /\ row'[j].alloc.node = n /\ proc'[n][j].gpus \subseteq row'[j].alloc.gpus
  <2>1. Launched(j) => up' = "up"
    BY DEF Launched
  <2>2. proc[n][j].alive /\ proc'[n][j].gpus \subseteq proc[n][j].gpus
    BY <1>5, <2>1, Alives DEF AliveOK
  <2>3. CASE Crash /\ up = "up"
    <3>1. ~ LaunchUnsaved /\ UNCHANGED row
      BY <2>3 DEF Crash, Fault
    <3>2. CASE execution[j].node = n /\ proc[n][j].gpus \subseteq execution[j].gpus
      <4>1. row[j].state = "Running" /\ execution[j] = row[j].alloc
        BY <3>1, <3>2, <1>3 DEF LaunchUnsaved, SavedOK, Terminal
      <4> QED
        BY <2>2, <3>1, <3>2, <4>1
    <3>3. CASE Orphan(j) /\ row[j].alloc.node = n /\ proc[n][j].gpus \subseteq row[j].alloc.gpus
      BY <2>2, <3>1, <3>3 DEF Orphan
    <3> QED
      BY <2>2, <2>3, <3>1, <3>2, <3>3, <1>3 DEF AliveOK, LaunchUnsaved
  <2>4. CASE up # "up"
    <3>1. row[j].state = "Running" /\ row[j].alloc.node = n /\ proc'[n][j].gpus \subseteq row[j].alloc.gpus
      BY <2>2, <2>4 DEF AliveOK
    <3>2. ASSUME NEW k \in Job, RecoverJob(k) PROVE row'[j] = row[j]
      BY <2>2, <3>1, <3>2 DEF RecoverJob, find, TypeOK
    <3> QED
      BY <2>4, <3>1, <3>2, RowWriters DEF Flush, RunsUnlocked, StoreJob
  <2> QED
    BY <1>5, <2>3, <2>4, StepKinds
    DEF CoreStep, coreVars, advance_pending, cascade_skipped, BeginReserve, SnapshotRunning, Restart, RecoverDone,
        RecoverJob, Flush, Reserve, Answered, Apply, Reap, StoreJob, BeginSubmit, InsertRun
<1>6. ASSUME pc' \in {"poll", "reap"}, NEW j \in Job, result'[j] \in ExitStatus \cup {"error"}, NEW n \in Node
      PROVE  ~proc'[n][j].alive
  <2>1. ~ SnapshotRunning
    BY <1>6 DEF SnapshotRunning, ExitStatus
  <2>2. pc \in {"poll", "reap"}
    BY <1>6, <2>1, PollBegins
  <2>3. proc'[n][j].alive => proc[n][j].alive
    BY <2>2, Alives DEF Launched, AliveOK
  <2>4. CASE result'[j] = result[j]
    BY <1>6, <2>2, <2>3, <2>4 DEF AliveOK
  <2>5. CASE pc = "poll" /\ result[j] = "todo" /\ Told(j)
    <3>1. ~proc'[execution[j].node][j].alive
      BY <1>6, <2>5 DEF Told, ExitStatus
    <3>2. proc[n][j].alive => execution[j].node = n
      BY <2>5, <1>3 DEF AliveOK, LoopOK, MemOK, Orphan
    <3> QED
      BY <2>3, <3>1, <3>2
  <2> QED
    BY <1>6, <2>2, <2>4, <2>5, Answers DEF ExitStatus
<1> QED
  BY <1>1, <1>2, <1>4, <1>5, <1>6 DEF AliveOK

\* The invariant about processes holds in every such behaviour.
LEMMA AliveInvariant ==
    ASSUME Faults \cap {"late", "launchCrash"} = {}
    PROVE  Spec => [](TypeOK /\ LoopOK /\ MemOK /\ SavedOK /\ AliveOK)
<1>1. Init => AliveOK
  BY DEF Init, WorkerInit, NoProcess, AliveOK
<1>2. TypeOK /\ LoopOK /\ MemOK /\ SavedOK /\ AliveOK /\ [Next]_vars => AliveOK'
  BY AlivePreserved
<1> QED
  BY <1>1, <1>2, SavedInvariant, PTL DEF Spec

\* A job never has processes on two nodes at once, although launches and polls
\* are lost, rejected or not answered, writes fail and the controller dies and
\* takes its runs back (advance_queued, advance_running, take_back_runs).
THEOREM OneNodePerJob ==
    ASSUME Faults \cap {"late", "launchCrash"} = {}
    PROVE  Spec => []NeverTwice
<1>1. ASSUME MemOK, AliveOK, NEW j \in Job, NEW m \in Node, NEW n \in Node, proc[m][j].alive, proc[n][j].alive
      PROVE  m = n
  <2>1. execution[j].node \notin Node \/ hold[j].node \notin Node
    BY <1>1, NodesAndCards DEF MemOK, NoAlloc
  <2>2. CASE up = "up"
    <3>1. Orphan(j) => execution[j].node \notin Node /\ hold[j].node \notin Node
      BY <1>1, NodesAndCards DEF Orphan, MemOK, NoAlloc
    <3> QED
      BY <1>1, <2>1, <2>2, <3>1 DEF AliveOK
  <2>3. CASE up # "up"
    BY <1>1, <2>3 DEF AliveOK
  <2> QED
    BY <2>2, <2>3
<1>2. TypeOK /\ LoopOK /\ MemOK /\ SavedOK /\ AliveOK => NeverTwice
  BY <1>1 DEF NeverTwice
<1> QED
  BY <1>2, AliveInvariant, PTL

\* Without crashes a run in memory stays there.
Present == up = "up" /\ \A j \in Job : submission[RunOf[j]] = "done" => jobState[j] # "absent"

\* There is no orphan unless a write fails and the controller crashes as well.
LEMMA NoOrphans ==
    ASSUME "launchCrash" \notin Faults, "store" \notin Faults \/ "crash" \notin Faults
    PROVE  Spec => [](\A j \in Job : ~ Orphan(j))
<1>1. ASSUME "store" \notin Faults PROVE Spec => [](\A j \in Job : ~ Orphan(j))
  <2>1. TypeOK /\ LoopOK /\ MemOK /\ RowOK /\ CardsExclusive /\ RowsExclusive => \A j \in Job : ~ Orphan(j)
    BY JobsAssumption DEF MemOK, RowOK, Orphan
  <2> QED
    BY <1>1, <2>1, StoreKept, PTL
<1>2. ASSUME "crash" \notin Faults PROVE Spec => [](\A j \in Job : ~ Orphan(j))
  <2>1. Init => Present
    BY JobsAssumption DEF Init, Present
  <2>2. ASSUME TypeOK, LoopOK, MemOK, Present, [Next]_vars PROVE Present'
    <3>1. up' = "up"
      BY <1>2, <2>2, StaysUp DEF Present
    <3>2. ASSUME NEW j \in Job, submission'[RunOf[j]] = "done" PROVE jobState'[j] # "absent"
      <4> USE <2>2, <3>2, JobsAssumption DEF Present, TypeOK, memVars, handVars
      <4>1. ASSUME NEW r \in Run, InsertRun(r) \/ BeginSubmit(r) PROVE jobState'[j] # "absent"
        BY <4>1 DEF InsertRun, BeginSubmit
      <4>2. ASSUME NEW k \in Job, Apply(k) \/ Reap(k) PROVE jobState'[j] # "absent"
        BY <4>2 DEF Apply, Reap, EndState
      <4>3. CASE advance_pending \/ cascade_skipped
        BY <4>3 DEF advance_pending, cascade_skipped
      <4>4. ~ Crash /\ ~ Restart /\ ~ RecoverDone /\ \A k \in Job : ~ RecoverJob(k)
        BY <3>1 DEF Crash, Restart, RecoverDone, RecoverJob
      <4> QED
        BY <4>1, <4>2, <4>3, <4>4, StepKinds
        DEF CoreStep, coreVars, BeginReserve, SnapshotRunning, Flush, Reserve, Answered, StoreJob
    <3> QED
      BY <3>1, <3>2 DEF Present
  <2>3. TypeOK /\ LoopOK /\ MemOK /\ SavedOK /\ Present => \A j \in Job : ~ Orphan(j)
    BY DEF MemOK, Present, Orphan
  <2> QED
    BY <2>1, <2>2, <2>3, SavedInvariant, PTL DEF Spec
<1> QED
  BY <1>1, <1>2

\* A card that a job's processes use is booked for that job, and a job recorded
\* as ended has no process left (advance_running releases after poll_scope
\* stopped the scope; take_back_runs books what rows say), if writes may fail or
\* the controller may crash, not both: a crash after the run's own row was not
\* written (handle_submit ignores that) leaves its processes to nobody.
THEOREM HandoverIsClean ==
    ASSUME Faults \cap {"late", "launchCrash"} = {}, "store" \notin Faults \/ "crash" \notin Faults
    PROVE  Spec => []CleanHandover
<1>1. ASSUME AliveOK, \A j \in Job : ~ Orphan(j), up = "up", NEW n \in Node, NEW j \in Job, NEW g \in proc[n][j].gpus
      PROVE  Holds(j, n, g)
  BY <1>1 DEF AliveOK, Holds
<1>2. ASSUME TypeOK, MemOK, SavedOK, AliveOK, NEW n \in Node, NEW j \in Job, row[j].state \in Terminal
      PROVE  ~proc[n][j].alive
  <2>1. jobState[j] \notin {"Queued", "Running"} /\ row[j].state # "Running"
    BY <1>2 DEF SavedOK, Terminal
  <2>2. execution[j].node # n /\ hold[j].node # n
    BY <1>2, <2>1, NodesAndCards DEF MemOK, NoAlloc
  <2> QED
    BY <1>2, <2>1, <2>2 DEF AliveOK, Orphan
<1>3. TypeOK /\ LoopOK /\ MemOK /\ SavedOK /\ AliveOK /\ (\A j \in Job : ~ Orphan(j)) => CleanHandover
  BY <1>1, <1>2 DEF CleanHandover
<1>4. Spec => [](\A j \in Job : ~ Orphan(j))
  BY NoOrphans
<1> QED
  BY <1>3, <1>4, AliveInvariant, PTL
=============================================================================
