--------------------------- MODULE SchedulerProofs ---------------------------
(***************************************************************************)
(* Type correctness of the controller, and the exclusive use of cards.     *)
(***************************************************************************)
EXTENDS Scheduler, TLAPS

(* What the operators of Resources return *)

\* A card's share of a request's VRAM is a number.
LEMMA VramShare ==
    ASSUME NEW spec \in Request
    PROVE  vram_per_gpu(spec) \in Int
BY DEF vram_per_gpu, Request

\* What gpu_options tries are requests.
LEMMA Options ==
    ASSUME NEW spec \in Request, NEW o \in gpu_options(spec)
    PROVE  o \in Request
BY DEF gpu_options, GPU_COUNTS, Request

\* What place promises: the allocation is on a usable node, within what is free
\* there, and takes whole cards nobody has.
LEMMA PlaceFits ==
    ASSUME NEW ps \in [Node -> Pool], NEW usable \in SUBSET Node,
           NEW spec \in Request, NEW a \in place(Total, ps, usable, spec)
    PROVE  /\ a \in Alloc
           /\ a.node \in usable
           /\ a.cpu <= ps[a.node].cpu
           /\ a.memory <= ps[a.node].memory
           /\ \A g \in a.gpus : /\ Total[a.node].vram[g] > 0
                                /\ ps[a.node].vram[g] = Total[a.node].vram[g]
<1>1. PICK c \in Candidates(Total, ps, usable, spec) :
             a = [node |-> c[2], cpu |-> c[1].cpu, memory |-> c[1].memory,
                  gpus |-> SelectedCards(Total[c[2]], ps[c[2]], c[1])]
      BY DEF place
<1>2. /\ c[1] \in gpu_options(spec) /\ c[2] \in usable /\ c[2] \in Node
      /\ can_admit(Total[c[2]], ps[c[2]], c[1])
      BY DEF Candidates
<1>3. c[1] \in Request
      BY <1>2, Options
<1>4. /\ c[1].cpu <= ps[c[2]].cpu
      /\ c[1].memory <= ps[c[2]].memory
      BY <1>2, <1>3 DEF can_admit, Pool, Request
<1>5. DOMAIN Total[c[2]].vram = Card
      BY <1>2, InventoryAssumption
<1>6. \A g \in SelectedCards(Total[c[2]], ps[c[2]], c[1]) :
         /\ g \in Card
         /\ Total[c[2]].vram[g] > 0
         /\ ps[c[2]].vram[g] = Total[c[2]].vram[g]
      BY <1>5 DEF SelectedCards, Lowest, FreeCards
<1>7. a \in Alloc
      BY <1>1, <1>2, <1>3, <1>6 DEF Alloc, Request
<1> QED
      BY <1>1, <1>2, <1>4, <1>6, <1>7

\* Reserving what is free keeps a pool a pool and empties exactly the cards taken.
LEMMA ReservedPool ==
    ASSUME NEW n \in Node, NEW p \in Pool, NEW a \in Alloc,
           a.cpu <= p.cpu, a.memory <= p.memory,
           \A g \in a.gpus : p.vram[g] = Total[n].vram[g]
    PROVE  /\ Reserved(Total[n], p, a) \in Pool
           /\ \A g \in Card : Reserved(Total[n], p, a).vram[g] =
                                IF g \in a.gpus THEN 0 ELSE p.vram[g]
<1> DEFINE vram == [g \in DOMAIN p.vram |-> IF g \in a.gpus THEN p.vram[g] - Total[n].vram[g] ELSE p.vram[g]]
<1>1. Total[n].vram \in [Card -> Nat]
      BY InventoryAssumption
<1>2. vram = [g \in Card |-> IF g \in a.gpus THEN 0 ELSE p.vram[g]]
      BY <1>1 DEF Pool
<1>3. vram \in [Card -> Nat]
      BY <1>2 DEF Pool
<1>4. p.cpu - a.cpu \in Nat /\ p.memory - a.memory \in Nat
      BY DEF Pool, Alloc
<1>5. Reserved(Total[n], p, a) = [p EXCEPT !.cpu = p.cpu - a.cpu, !.memory = p.memory - a.memory, !.vram = vram]
      BY DEF Reserved, Pool
<1>6. \A g \in Card : vram[g] = IF g \in a.gpus THEN 0 ELSE p.vram[g]
      BY <1>2
<1> HIDE DEF vram
<1>7. Reserved(Total[n], p, a) \in Pool
      BY <1>3, <1>4, <1>5 DEF Pool
<1>8. Reserved(Total[n], p, a).vram = vram
      BY <1>5 DEF Pool
<1> QED
      BY <1>6, <1>7, <1>8

\* Releasing an allocation keeps a pool a pool and refills exactly its cards.
LEMMA ReleasedPool ==
    ASSUME NEW n \in Node, NEW p \in Pool, NEW a \in Alloc
    PROVE  /\ Released(Total[n], p, a) \in Pool
           /\ \A g \in Card : Released(Total[n], p, a).vram[g] =
                                IF g \in a.gpus THEN p.vram[g] + Total[n].vram[g] ELSE p.vram[g]
<1> DEFINE vram == [g \in DOMAIN p.vram |-> IF g \in a.gpus THEN p.vram[g] + Total[n].vram[g] ELSE p.vram[g]]
<1>1. Total[n].vram \in [Card -> Nat]
      BY InventoryAssumption
<1>2. DOMAIN p.vram = Card
      BY DEF Pool
<1>3. vram \in [Card -> Nat]
      BY <1>1 DEF Pool
<1>4. p.cpu + a.cpu \in Nat /\ p.memory + a.memory \in Nat
      BY DEF Pool, Alloc
<1>5. Released(Total[n], p, a) = [p EXCEPT !.cpu = p.cpu + a.cpu, !.memory = p.memory + a.memory, !.vram = vram]
      BY DEF Released, Pool
<1>6. \A g \in Card : vram[g] = IF g \in a.gpus THEN p.vram[g] + Total[n].vram[g] ELSE p.vram[g]
      BY <1>2
<1> HIDE DEF vram
<1>7. Released(Total[n], p, a) \in Pool
      BY <1>3, <1>4, <1>5 DEF Pool
<1>8. Released(Total[n], p, a).vram = vram
      BY <1>5 DEF Pool
<1> QED
      BY <1>6, <1>7, <1>8

\* Booking, which saturates, keeps a pool a pool and takes from exactly its cards.
LEMMA BookedPool ==
    ASSUME NEW n \in Node, NEW p \in Pool, NEW a \in Alloc
    PROVE  /\ Booked(Total[n], p, a) \in Pool
           /\ \A g \in Card : Booked(Total[n], p, a).vram[g] =
                                IF g \in a.gpus THEN saturating_sub(p.vram[g], Total[n].vram[g])
                                ELSE p.vram[g]
<1> DEFINE vram == [g \in DOMAIN p.vram |->
                       IF g \in a.gpus THEN saturating_sub(p.vram[g], Total[n].vram[g]) ELSE p.vram[g]]
<1>1. Total[n].vram \in [Card -> Nat]
      BY InventoryAssumption
<1>2. DOMAIN p.vram = Card
      BY DEF Pool
<1>3. vram \in [Card -> Nat]
      BY <1>1 DEF Pool, saturating_sub
<1>4. saturating_sub(p.cpu, a.cpu) \in Nat /\ saturating_sub(p.memory, a.memory) \in Nat
      BY DEF Pool, Alloc, saturating_sub
<1>5. Booked(Total[n], p, a) = [p EXCEPT !.cpu = saturating_sub(p.cpu, a.cpu),
                                         !.memory = saturating_sub(p.memory, a.memory), !.vram = vram]
      BY DEF Booked, Pool
<1>6. \A g \in Card : vram[g] = IF g \in a.gpus THEN saturating_sub(p.vram[g], Total[n].vram[g])
                                ELSE p.vram[g]
      BY <1>2
<1> HIDE DEF vram
<1>7. Booked(Total[n], p, a) \in Pool
      BY <1>3, <1>4, <1>5 DEF Pool
<1>8. Booked(Total[n], p, a).vram = vram
      BY <1>5 DEF Pool
<1> QED
      BY <1>6, <1>7, <1>8

-----------------------------------------------------------------------------
(* Types *)

\* A controller starts within its types.
LEMMA InitialTypes == Init => TypeOK
BY InventoryAssumption, FaultsAssumption
   DEF Init, TypeOK, WorkerInit, WorkerTypeOK, Process, NoProcess, Each, FreshPools, NewPool, Pool,
       AllOnline, NoAlloc, NoRow, JobRow, Phase, Answer

\* Counting a fault stays within the bound.
LEMMA FaultTypes ==
    ASSUME TypeOK, NEW kind, Fault(kind)
    PROVE  faults' \in 0..MaxFaults
BY FaultsAssumption DEF TypeOK, Fault

\* No operation of a node leaves the types of Worker.
LEMMA WorkerTypes ==
    ASSUME WorkerTypeOK, NEW n \in Node, NEW j \in Job, NEW gpus \in SUBSET Card, NEW x,
           \/ Worker_launch(n, j, gpus, x)
           \/ Worker_poll(n, j, x)
           \/ Worker_kill(n, j)
           \/ ShellLaunch(n, j, gpus, x) /\ UNCHANGED processes
           \/ ShellPoll(n, j, x) /\ UNCHANGED processes
           \/ StopScope(n, j) /\ UNCHANGED processes
           \/ ProcExit(n, j)
           \/ ProcGone(n, j)
           \/ UNCHANGED workerVars
    PROVE  WorkerTypeOK'
<1> DEFINE Procs == [Node -> [Job -> Process]]
<1>1. \A p \in Process : [proc EXCEPT ![n][j] = p] \in Procs
      BY DEF WorkerTypeOK
<1>2. ASSUME StopScope(n, j) PROVE proc' \in Procs
  <2> DEFINE stopped == [proc[n][j] EXCEPT !.alive = FALSE, !.gpus = {}]
  <2>1. stopped \in Process
    <3>1. proc[n][j] \in Process
          BY DEF WorkerTypeOK
    <3> QED BY <3>1 DEF Process
  <2>2. proc' = [proc EXCEPT ![n][j] = stopped]
        BY <1>2 DEF StopScope, WorkerTypeOK
  <2> QED BY <1>1, <2>1, <2>2
<1>3. ASSUME ShellLaunch(n, j, gpus, x) PROVE proc' \in Procs
  <2>1. [alive |-> TRUE, exit |-> "none", gpus |-> gpus] \in Process
        BY DEF Process
  <2> QED BY <1>1, <1>3, <2>1 DEF ShellLaunch, WorkerTypeOK
<1>4. ASSUME ShellPoll(n, j, x) PROVE proc' \in Procs
      BY <1>2, <1>4 DEF ShellPoll, WorkerTypeOK
<1>5. CASE ProcExit(n, j)
  <2>1. \A status \in ExitStatus, left \in BOOLEAN :
           [alive |-> left, exit |-> status, gpus |-> IF left THEN proc[n][j].gpus ELSE {}] \in Process
        BY DEF WorkerTypeOK, Process
  <2> QED BY <1>1, <1>5, <2>1 DEF ProcExit, WorkerTypeOK
<1>6. ASSUME NEW S \in SUBSET Job PROVE [processes EXCEPT ![n] = S] \in [Node -> SUBSET Job]
      BY DEF WorkerTypeOK
<1>7. processes[n] \cup {j} \in SUBSET Job
      BY DEF WorkerTypeOK
<1>8. CASE Worker_launch(n, j, gpus, x)
      BY <1>3, <1>6, <1>7, <1>8 DEF Worker_launch, workerVars, WorkerTypeOK
<1>9. CASE Worker_poll(n, j, x)
      BY <1>4, <1>6, <1>7, <1>9 DEF Worker_poll, workerVars, WorkerTypeOK
<1>10. CASE Worker_kill(n, j)
      BY <1>2, <1>6, <1>7, <1>10 DEF Worker_kill, workerVars, WorkerTypeOK
<1>11. CASE ProcGone(n, j)
      BY <1>2, <1>11 DEF ProcGone, WorkerTypeOK
<1> QED
      BY <1>2, <1>3, <1>4, <1>5, <1>8, <1>9, <1>10, <1>11 DEF workerVars, WorkerTypeOK

\* An answer is awaited, or waits to be applied, only for a job that is being
\* launched or polled on a node.
LoopOK ==
    \A j \in Job : result[j] # "none" =>
        \/ pc \in {"reserve", "launch", "apply"} /\ hold[j] # NoAlloc
        \/ pc \in {"poll", "reap"} /\ execution[j] # NoAlloc

\* What a job holds fits its state and the phase: a reservation belongs to a
\* queued job between placement and the application of its launch, an execution
\* to a running one; a run that is still being stored has nothing in memory.
MemOK ==
    /\ \A j \in Job : execution[j] # NoAlloc => jobState[j] = "Running"
    /\ \A j \in Job : hold[j] # NoAlloc =>
          up = "up" /\ pc \in {"reserve", "launch", "apply"} /\ jobState[j] = "Queued"
    /\ pc = "reserve" => \A j \in todo : jobState[j] = "Queued" /\ hold[j] = NoAlloc
    /\ \A j \in toWrite : jobState[j] # "absent"
    /\ up # "up" => pc = "pending" /\ toWrite = {} /\ \A r \in Run : submission[r] # "storing"
    /\ up = "down" => \A j \in Job : jobState[j] = "absent"
    /\ up = "recovering" => \A j \in todo : jobState[j] = "absent" /\ submission[RunOf[j]] = "done"
    /\ \A j \in Job : submission[RunOf[j]] # "done" => jobState[j] = "absent"
    /\ \A j \in Job : row[j].state # "absent" => submission[RunOf[j]] # "new"
    /\ \A j \in Job : row[j].state \notin {"absent", "Pending"} => submission[RunOf[j]] = "done"

\* What the store says is running is what memory holds, until the end of the
\* job is written; the write of a start and the write of an end never wait in
\* the same phase.  While runs are taken back, memory holds what rows say.  A
\* run that was submitted has a row of its own, so it is among those.
RowOK ==
    /\ \A r \in Run : submission[r] # "new" => r \in stored
    /\ up = "up" => \A j \in Job : row[j].state = "Running" =>
          \/ jobState[j] = "Running" /\ execution[j] = row[j].alloc
          \/ j \in toWrite /\ jobState[j] \in Terminal /\ pc \in {"reap", "pending"}
    /\ \A j \in toWrite : jobState[j] = "Running" => pc \in {"apply", "snapshot"}
    /\ up = "recovering" => \A j \in Job :
          /\ row[j].state = "Running" /\ j \notin todo => jobState[j] = "Running" /\ execution[j] = row[j].alloc
          /\ execution[j] # NoAlloc => row[j].state = "Running" /\ row[j].alloc = execution[j]

\* What Reserve finds is an allocation on a node, of free whole cards.
LEMMA Placed ==
    ASSUME TypeOK, NEW j \in Job, NEW a \in place(Total, pools, seen \ rejected[j], Needs[j])
    PROVE  /\ a \in Alloc /\ a.node \in Node /\ a # NoAlloc
           /\ Reserved(Total[a.node], pools[a.node], a) \in Pool
           /\ \A g \in Card : Reserved(Total[a.node], pools[a.node], a).vram[g] =
                                IF g \in a.gpus THEN 0 ELSE pools[a.node].vram[g]
           /\ \A g \in a.gpus : /\ Total[a.node].vram[g] > 0
                                /\ pools[a.node].vram[g] = Total[a.node].vram[g]
<1>1. pools \in [Node -> Pool] /\ seen \ rejected[j] \in SUBSET Node /\ Needs[j] \in Request
      BY JobsAssumption DEF TypeOK
<1>2. /\ a \in Alloc
      /\ a.node \in seen \ rejected[j]
      /\ a.cpu <= pools[a.node].cpu
      /\ a.memory <= pools[a.node].memory
      /\ \A g \in a.gpus : /\ Total[a.node].vram[g] > 0
                           /\ pools[a.node].vram[g] = Total[a.node].vram[g]
      BY <1>1, PlaceFits
<1>3. a.node \in Node /\ pools[a.node] \in Pool
      BY <1>1, <1>2
<1>4. a # NoAlloc
      BY <1>3, NodesAndCards DEF NoAlloc
<1> QED
      BY <1>2, <1>3, <1>4, ReservedPool

\* An allocation that is not NoAlloc names a node and cards.
LEMMA AllocFields ==
    ASSUME NEW a \in Alloc \cup {NoAlloc}
    PROVE  /\ a.gpus \in SUBSET Card
           /\ a # NoAlloc => a \in Alloc /\ a.node \in Node
           /\ a.node \in Node => a \in Alloc
BY NodesAndCards DEF Alloc, NoAlloc

\* No step takes a variable out of its type: in particular no pool goes below
\* zero and no card, node or phase is made up.
LEMMA TypesPreserved ==
    ASSUME TypeOK, LoopOK, [Next]_vars
    PROVE  TypeOK'
<1> USE DEF TypeOK, memVars, loopVars, handVars, netVars, Phase, Answer
<1>1. CASE advance_pending
      BY <1>1 DEF advance_pending, JobState, Unfinished, WorkerTypeOK, workerVars
<1>2. CASE cascade_skipped
      BY <1>2 DEF cascade_skipped, JobState, Terminal, WorkerTypeOK, workerVars
<1>3. ASSUME NEW j \in Job, Flush(j) PROVE TypeOK'
      BY <1>3, FaultTypes DEF Flush, JobRow, WorkerTypeOK, workerVars
<1>4. CASE BeginReserve
      BY <1>4 DEF BeginReserve, WorkerTypeOK, workerVars
<1>5. ASSUME NEW j \in Job, Reserve(j) PROVE TypeOK'
  <2>1. CASE place(Total, pools, seen \ rejected[j], Needs[j]) = {} /\ UNCHANGED <<pools, hold, result>>
        BY <1>5, <2>1 DEF Reserve, AfterReserve, WorkerTypeOK, workerVars
  <2>2. ASSUME NEW a \in place(Total, pools, seen \ rejected[j], Needs[j]),
               pools' = [pools EXCEPT ![a.node] = Reserved(Total[a.node], @, a)],
               hold' = [hold EXCEPT ![j] = a],
               result' = [result EXCEPT ![j] = "todo"]
        PROVE  TypeOK'
    <3>1. a \in Alloc /\ a.node \in Node /\ Reserved(Total[a.node], pools[a.node], a) \in Pool
          BY Placed
    <3> QED
          BY <1>5, <2>2, <3>1 DEF Reserve, AfterReserve, WorkerTypeOK, workerVars
  <2> QED
        BY <1>5, <2>1, <2>2 DEF Reserve
<1>6. ASSUME NEW j \in Job, LaunchLocal(j) PROVE TypeOK'
  <2>1. hold[j].node \in Node /\ hold[j].gpus \in SUBSET Card
        BY <1>6, InventoryAssumption, AllocFields DEF LaunchLocal
  <2>2. WorkerTypeOK'
        BY <1>6, <2>1, WorkerTypes DEF LaunchLocal
  <2> QED
        BY <1>6, <2>2, FaultTypes DEF LaunchLocal, Reply
<1>7. ASSUME NEW j \in Job, LaunchUnsent(j) PROVE TypeOK'
      BY <1>7, FaultTypes DEF LaunchUnsent, WorkerTypeOK, workerVars
<1>8. ASSUME NEW j \in Job, LaunchAnswered(j) PROVE TypeOK'
  <2>1. hold[j].node \in Node /\ hold[j].gpus \in SUBSET Card
        BY <1>8, AllocFields DEF LaunchAnswered, LoopOK
  <2>2. WorkerTypeOK'
        BY <1>8, <2>1, WorkerTypes DEF LaunchAnswered
  <2> QED
        BY <1>8, <2>2, FaultTypes DEF LaunchAnswered, Reply
<1>9. ASSUME NEW j \in Job, LaunchUnanswered(j) PROVE TypeOK'
  <2>1. hold[j].node \in Node /\ hold[j].gpus \in SUBSET Card
        BY <1>9, AllocFields DEF LaunchUnanswered, LoopOK
  <2>2. WorkerTypeOK'
        BY <1>9, <2>1, WorkerTypes DEF LaunchUnanswered
  <2>3. wire' \subseteq Launch
        BY <1>9, <2>1 DEF LaunchUnanswered, Launch
  <2> QED
        BY <1>9, <2>2, <2>3, FaultTypes DEF LaunchUnanswered, AnswerWhenLost
<1>10. ASSUME NEW j \in Job, Apply(j) PROVE TypeOK'
  <2> DEFINE a == hold[j]
  <2>1. a \in Alloc /\ a.node \in Node
        BY <1>10, AllocFields DEF Apply
  <2>2. pools[a.node] \in Pool /\ Released(Total[a.node], pools[a.node], a) \in Pool
        BY <2>1, ReleasedPool
  <2>3. pools' \in [Node -> Pool]
        BY <1>10, <2>2 DEF Apply
  <2>4. jobState' \in [Job -> JobState \cup {"absent"}]
        BY <1>10 DEF Apply, JobState, Terminal, Unfinished
  <2>5. rejected' \in [Job -> SUBSET Node]
        BY <1>10, <2>1 DEF Apply
  <2> QED
        BY <1>10, <2>3, <2>4, <2>5 DEF Apply, WorkerTypeOK, workerVars
<1>11. CASE SnapshotRunning
      BY <1>11 DEF SnapshotRunning, WorkerTypeOK, workerVars
<1>12. ASSUME NEW j \in Job, PollLocal(j) PROVE TypeOK'
  <2>1. execution[j].node \in Node
        BY <1>12, InventoryAssumption DEF PollLocal
  <2>2. WorkerTypeOK'
        BY <1>12, <2>1, WorkerTypes DEF PollLocal
  <2> QED
        BY <1>12, <2>2 DEF PollLocal
<1>13. ASSUME NEW j \in Job, PollAnswered(j) PROVE TypeOK'
  <2>1. execution[j].node \in Node
        BY <1>13, AllocFields DEF PollAnswered, LoopOK
  <2>2. WorkerTypeOK'
        BY <1>13, <2>1, WorkerTypes DEF PollAnswered
  <2>3. faults' \in 0..MaxFaults
        BY <1>13, FaultTypes DEF PollAnswered
  <2>4. result' \in [Job -> Answer]
        BY <1>13 DEF PollAnswered
  <2>5. online' = online \/ online' = [online EXCEPT ![execution[j].node] = FALSE]
        BY <1>13 DEF PollAnswered
  <2> QED
        BY <1>13, <2>2, <2>3, <2>4, <2>5 DEF PollAnswered
<1>14. ASSUME NEW j \in Job, PollUnanswered(j) PROVE TypeOK'
  <2>1. execution[j].node \in Node
        BY <1>14, AllocFields DEF PollUnanswered, LoopOK
  <2>2. WorkerTypeOK'
        BY <1>14, <2>1, WorkerTypes DEF PollUnanswered
  <2> QED
        BY <1>14, <2>2, FaultTypes DEF PollUnanswered
<1>15. ASSUME NEW j \in Job, Reap(j) PROVE TypeOK'
  <2> DEFINE a == execution[j]
  <2>1. a \in Alloc /\ a.node \in Node
        BY <1>15, AllocFields DEF Reap, LoopOK
  <2>2. pools[a.node] \in Pool /\ Released(Total[a.node], pools[a.node], a) \in Pool
        BY <2>1, ReleasedPool
  <2>3. pools' \in [Node -> Pool]
        BY <1>15, <2>2 DEF Reap
  <2>4. jobState' \in [Job -> JobState \cup {"absent"}]
        BY <1>15 DEF Reap, EndState, JobState, Terminal
  <2>5. {a.node} \X a.gpus \subseteq Node \X Card
        BY <2>1 DEF Alloc
  <2>6. requalify' \subseteq Node \X Card
        BY <1>15, <2>5 DEF Reap
  <2> QED
        BY <1>15, <2>3, <2>4, <2>6 DEF Reap, WorkerTypeOK, workerVars
<1>16. ASSUME NEW r \in Run, BeginSubmit(r) PROVE TypeOK'
      BY <1>16, FaultTypes DEF BeginSubmit, WorkerTypeOK, workerVars
<1>17. ASSUME NEW j \in Job, StoreJob(j) PROVE TypeOK'
      BY <1>17 DEF StoreJob, JobRow, JobState, Unfinished, WorkerTypeOK, workerVars
<1>18. ASSUME NEW r \in Run, InsertRun(r) PROVE TypeOK'
      BY <1>18, FaultTypes DEF InsertRun, JobState, Unfinished, WorkerTypeOK, workerVars
<1>19. ASSUME NEW r \in Run, Cancel(r) PROVE TypeOK'
  <2>1. \A j \in Job : execution[j] # NoAlloc => execution[j].node \in Node
        BY AllocFields
  <2>2. kills' \subseteq Node \X Job
        BY <1>19, <2>1 DEF Cancel
  <2> QED
        BY <1>19, <2>2 DEF Cancel, WorkerTypeOK, workerVars
<1>20. ASSUME NEW n \in Node, NEW j \in Job, Kill(n, j) PROVE TypeOK'
  <2>1. WorkerTypeOK'
        BY <1>20, WorkerTypes DEF Kill
  <2> QED
        BY <1>20, <2>1, FaultTypes DEF Kill
<1>21. ASSUME NEW n \in Node, NodeOnline(n) \/ NodeOffline(n) PROVE TypeOK'
      BY <1>21, FaultTypes DEF NodeOnline, NodeOffline, WorkerTypeOK, workerVars
<1>22. ASSUME NEW n \in Node, NodeRestart(n) PROVE TypeOK'
      BY <1>22, FaultTypes DEF NodeRestart, WorkerRestart, WorkerTypeOK
<1>23. ASSUME NEW n \in Node, NEW j \in Job, ProcEnds(n, j) PROVE TypeOK'
  <2>1. WorkerTypeOK'
        BY <1>23, WorkerTypes DEF ProcEnds
  <2> QED
        BY <1>23, <2>1 DEF ProcEnds
<1>24. CASE LateLaunch
  <2>1. PICK m \in wire : /\ wire' = wire \ {m}
                          /\ \E reply \in {"ok", "rejected"} : Worker_launch(m.node, m.job, m.gpus, reply)
                          /\ UNCHANGED <<up, memVars, loopVars, handVars, online, row, faults>>
        BY <1>24 DEF LateLaunch
  <2>2. m.node \in Node /\ m.job \in Job /\ m.gpus \in SUBSET Card
        BY DEF Launch
  <2>3. WorkerTypeOK'
        BY <2>1, <2>2, WorkerTypes
  <2> QED
        BY <2>1, <2>3
<1>25. CASE Crash
  <2>1. FreshPools \in [Node -> Pool]
        BY InventoryAssumption DEF FreshPools, NewPool, Pool
  <2> QED
        BY <1>25, <2>1, FaultTypes DEF Crash, Each, AllOnline, WorkerTypeOK, workerVars
<1>26. CASE Restart
      BY <1>26 DEF Restart, UnfinishedJobs, WorkerTypeOK, workerVars
<1>27. ASSUME NEW j \in Job, RecoverJob(j) PROVE TypeOK'
  <2> DEFINE a == row[j].alloc
  <2>1. row[j] \in JobRow /\ a \in Alloc \cup {NoAlloc}
        BY DEF JobRow
  <2>2. pools' \in [Node -> Pool]
    <3>1. CASE a.node \in Node
          BY <1>27, <2>1, <3>1, AllocFields, BookedPool DEF RecoverJob
    <3>2. CASE a.node \notin Node
          BY <1>27, <3>2 DEF RecoverJob
    <3> QED BY <3>1, <3>2
  <2>3. row' \in [Job -> JobRow]
        BY <1>27 DEF RecoverJob, JobRow, JobState, Terminal
  <2>4. jobState' \in [Job -> JobState \cup {"absent"}]
        BY <1>27, <2>1 DEF RecoverJob, JobRow, JobState, Terminal, Unfinished
  <2> QED
        BY <1>27, <2>1, <2>2, <2>3, <2>4 DEF RecoverJob, WorkerTypeOK, workerVars
<1>28. CASE RecoverDone
      BY <1>28 DEF RecoverDone, WorkerTypeOK, workerVars
<1>29. CASE UNCHANGED vars
      BY <1>29 DEF vars, WorkerTypeOK, workerVars
<1> QED
      BY <1>1, <1>2, <1>3, <1>4, <1>5, <1>6, <1>7, <1>8, <1>9, <1>10, <1>11, <1>12, <1>13, <1>14,
         <1>15, <1>16, <1>17, <1>18, <1>19, <1>20, <1>21, <1>22, <1>23, <1>24, <1>25, <1>26, <1>27,
         <1>28, <1>29
      DEF Next, SchedulerStep, HandlerStep, NodeStep, RecoveryStep, LaunchJob, PollJob

-----------------------------------------------------------------------------
(* The steps, told apart by what they do to the state the invariant is about *)

coreVars == <<up, jobState, execution, pools, pc, todo, hold, result, toWrite, submission, stored, row>>

\* A launch or a poll is answered and waits to be applied.
Answered(j) ==
    /\ result[j] = "todo"
    /\ \E answer : result' = [result EXCEPT ![j] = answer]
    /\ UNCHANGED <<up, jobState, execution, pools, pc, todo, hold, toWrite, submission, stored, row>>

CoreStep ==
    \/ advance_pending \/ cascade_skipped \/ BeginReserve \/ SnapshotRunning
    \/ Crash \/ Restart \/ RecoverDone
    \/ \E j \in Job : \/ Flush(j) \/ Reserve(j) \/ Answered(j) \/ Apply(j) \/ Reap(j)
                      \/ StoreJob(j) \/ RecoverJob(j)
    \/ \E r \in Run : BeginSubmit(r) \/ InsertRun(r)

\* Every step is one that touches what the invariants are about, or leaves it alone.
LEMMA StepKinds ==
    ASSUME [Next]_vars
    PROVE  CoreStep \/ UNCHANGED coreVars
<1> USE DEF CoreStep, coreVars, memVars, loopVars, handVars, netVars
<1>1. ASSUME NEW j \in Job, LaunchJob(j) PROVE Answered(j)
      BY <1>1 DEF LaunchJob, LaunchLocal, LaunchUnsent, LaunchAnswered, LaunchUnanswered, Answered
<1>2. ASSUME NEW j \in Job, PollJob(j) PROVE Answered(j)
      BY <1>2 DEF PollJob, PollLocal, PollAnswered, PollUnanswered, Answered
<1>3. ASSUME SchedulerStep PROVE CoreStep
      BY <1>1, <1>2, <1>3 DEF SchedulerStep
<1>4. ASSUME HandlerStep PROVE CoreStep \/ UNCHANGED coreVars
      BY <1>4 DEF HandlerStep, Cancel, Kill
<1>5. ASSUME NodeStep PROVE UNCHANGED coreVars
      BY <1>5 DEF NodeStep, NodeOnline, NodeOffline, NodeRestart, ProcEnds, LateLaunch
<1>6. ASSUME RecoveryStep PROVE CoreStep
      BY <1>6 DEF RecoveryStep
<1>7. ASSUME UNCHANGED vars PROVE UNCHANGED coreVars
      BY <1>7 DEF vars
<1> QED
      BY <1>3, <1>4, <1>5, <1>6, <1>7 DEF Next

\* No step breaks LoopOK.
LEMMA LoopPreserved ==
    ASSUME TypeOK, LoopOK, MemOK, [Next]_vars
    PROVE  LoopOK'
<1> USE DEF LoopOK, memVars, loopVars, handVars, netVars
<1>1. CASE advance_pending \/ cascade_skipped \/ BeginReserve \/ RecoverDone
      BY <1>1 DEF advance_pending, cascade_skipped, BeginReserve, RecoverDone, AtPhase
<1>2. CASE SnapshotRunning
      BY <1>2 DEF SnapshotRunning, AtPhase
<1>3. CASE Crash \/ Restart
      BY <1>3 DEF Crash, Restart, Each
<1>4. ASSUME NEW j \in Job, Flush(j) \/ StoreJob(j) PROVE LoopOK'
      BY <1>4 DEF Flush, StoreJob
<1>5. ASSUME NEW j \in Job, Reserve(j) PROVE LoopOK'
  <2>1. \A a \in place(Total, pools, seen \ rejected[j], Needs[j]) : a # NoAlloc
        BY Placed
  <2> QED
        BY <1>5, <2>1 DEF Reserve, AfterReserve, TypeOK
<1>6. ASSUME NEW j \in Job, Answered(j) PROVE LoopOK'
      BY <1>6 DEF Answered, TypeOK
<1>7. ASSUME NEW j \in Job, Apply(j) PROVE LoopOK'
      BY <1>7 DEF Apply, TypeOK
<1>8. ASSUME NEW j \in Job, Reap(j) PROVE LoopOK'
      BY <1>8 DEF Reap, TypeOK
<1>9. ASSUME NEW j \in Job, RecoverJob(j) PROVE LoopOK'
      BY <1>9 DEF RecoverJob, MemOK
<1>10. ASSUME NEW r \in Run, BeginSubmit(r) \/ InsertRun(r) PROVE LoopOK'
      BY <1>10 DEF BeginSubmit, InsertRun
<1>11. CASE UNCHANGED coreVars
      BY <1>11 DEF coreVars
<1> QED
      BY <1>1, <1>2, <1>3, <1>4, <1>5, <1>6, <1>7, <1>8, <1>9, <1>10, <1>11, StepKinds DEF CoreStep

\* No step breaks MemOK.
LEMMA MemPreserved ==
    ASSUME TypeOK, LoopOK, MemOK, [Next]_vars
    PROVE  MemOK'
<1> USE DEF MemOK, memVars, loopVars, handVars, netVars
<1>1. CASE advance_pending
      BY <1>1 DEF advance_pending, AtPhase, TypeOK
<1>2. CASE cascade_skipped
      BY <1>2 DEF cascade_skipped, AtPhase, TypeOK
<1>3. CASE BeginReserve
      BY <1>3 DEF BeginReserve, AtPhase, TypeOK
<1>4. CASE SnapshotRunning
      BY <1>4 DEF SnapshotRunning, AtPhase, TypeOK
<1>5. CASE Crash
  <2>1. /\ up' = "down" /\ toWrite' = {} /\ todo' = {} /\ pc' = "pending"
        /\ \A j \in Job : jobState'[j] = "absent" /\ execution'[j] = NoAlloc /\ hold'[j] = NoAlloc
        /\ UNCHANGED row
        BY <1>5 DEF Crash, Each
  <2>2. \A r \in Run : submission'[r] = IF submission[r] = "new" THEN "new" ELSE "done"
        BY <1>5 DEF Crash
  <2>3. \A j \in Job : RunOf[j] \in Run
        BY JobsAssumption
  <2> QED
        BY <2>1, <2>2, <2>3
<1>6. CASE Restart
      BY <1>6, JobsAssumption DEF Restart, UnfinishedJobs, Unfinished, TypeOK
<1>7. CASE RecoverDone
      BY <1>7 DEF RecoverDone, TypeOK
<1>8. ASSUME NEW j \in Job, Flush(j) PROVE MemOK'
      BY <1>8 DEF Flush, RunsUnlocked, TypeOK
<1>9. ASSUME NEW j \in Job, Reserve(j) PROVE MemOK'
      BY <1>9 DEF Reserve, AfterReserve, TypeOK
<1>10. ASSUME NEW j \in Job, Answered(j) PROVE MemOK'
      BY <1>10 DEF Answered
<1>11. ASSUME NEW j \in Job, Apply(j) PROVE MemOK'
      BY <1>11 DEF Apply, TypeOK
<1>12. ASSUME NEW j \in Job, Reap(j) PROVE MemOK'
      BY <1>12 DEF Reap, LoopOK, EndState, TypeOK
<1>13. ASSUME NEW j \in Job, StoreJob(j) PROVE MemOK'
      BY <1>13, JobsAssumption DEF StoreJob, TypeOK
<1>14. ASSUME NEW j \in Job, RecoverJob(j) PROVE MemOK'
      BY <1>14 DEF RecoverJob, TypeOK
<1>15. ASSUME NEW r \in Run, BeginSubmit(r) PROVE MemOK'
      BY <1>15, JobsAssumption DEF BeginSubmit, TypeOK
<1>16. ASSUME NEW r \in Run, InsertRun(r) PROVE MemOK'
      BY <1>16, JobsAssumption DEF InsertRun, RunsUnlocked, TypeOK
<1>17. CASE UNCHANGED coreVars
      BY <1>17 DEF coreVars
<1> QED
      BY <1>1, <1>2, <1>3, <1>4, <1>5, <1>6, <1>7, <1>8, <1>9, <1>10, <1>11, <1>12, <1>13, <1>14,
         <1>15, <1>16, <1>17, StepKinds
      DEF CoreStep

\* No step of a controller whose store keeps what is written breaks RowOK.
LEMMA RowsPreserved ==
    ASSUME TypeOK, LoopOK, MemOK, RowOK, "store" \notin Faults, [Next]_vars
    PROVE  RowOK'
<1> USE DEF RowOK, MemOK, memVars, loopVars, handVars, netVars
<1>1. CASE advance_pending
      BY <1>1 DEF advance_pending, AtPhase, TypeOK, Terminal
<1>2. CASE cascade_skipped
      BY <1>2 DEF cascade_skipped, AtPhase, TypeOK, Terminal
<1>3. CASE BeginReserve
      BY <1>3 DEF BeginReserve, AtPhase, TypeOK
<1>4. CASE SnapshotRunning
      BY <1>4 DEF SnapshotRunning, AtPhase, TypeOK
<1>5. CASE Crash
      BY <1>5 DEF Crash, Each, TypeOK
<1>6. CASE Restart
      BY <1>6, JobsAssumption DEF Restart, UnfinishedJobs, Unfinished, TypeOK
<1>7. CASE RecoverDone
      BY <1>7 DEF RecoverDone, TypeOK
<1>8. ASSUME NEW j \in Job, Flush(j) PROVE RowOK'
      BY <1>8 DEF Flush, RunsUnlocked, Fault, TypeOK, Terminal
<1>9. ASSUME NEW j \in Job, Reserve(j) PROVE RowOK'
      BY <1>9 DEF Reserve, AfterReserve, TypeOK
<1>10. ASSUME NEW j \in Job, Answered(j) PROVE RowOK'
      BY <1>10 DEF Answered
<1>11. ASSUME NEW j \in Job, Apply(j) PROVE RowOK'
      BY <1>11 DEF Apply, TypeOK, Terminal
<1>12. ASSUME NEW j \in Job, Reap(j) PROVE RowOK'
      BY <1>12 DEF Reap, LoopOK, EndState, TypeOK, Terminal
<1>13. ASSUME NEW j \in Job, StoreJob(j) PROVE RowOK'
      BY <1>13 DEF StoreJob, TypeOK
<1>14. ASSUME NEW j \in Job, RecoverJob(j) PROVE RowOK'
      BY <1>14 DEF RecoverJob, TypeOK
<1>15. ASSUME NEW r \in Run, BeginSubmit(r) PROVE RowOK'
      BY <1>15 DEF BeginSubmit, Fault, TypeOK
<1>16. ASSUME NEW r \in Run, InsertRun(r) PROVE RowOK'
      BY <1>16 DEF InsertRun, RunsUnlocked, TypeOK
<1>17. CASE UNCHANGED coreVars
      BY <1>17 DEF coreVars
<1> QED
      BY <1>1, <1>2, <1>3, <1>4, <1>5, <1>6, <1>7, <1>8, <1>9, <1>10, <1>11, <1>12, <1>13, <1>14,
         <1>15, <1>16, <1>17, StepKinds
      DEF CoreStep

-----------------------------------------------------------------------------
(* One job per card *)

\* While rows agree with memory, cards booked once are stored once.
LEMMA StoredExclusive ==
    ASSUME TypeOK, LoopOK, MemOK, RowOK, CardsExclusive, RowsExclusive, [Next]_vars
    PROVE  RowsExclusive'
<1> USE DEF RowsExclusive, memVars, loopVars, handVars, netVars
<1>1. ASSUME NEW j \in Job, Flush(j) PROVE RowsExclusive'
  <2>1. CASE UNCHANGED row
        BY <2>1
  <2>2. CASE row' = [row EXCEPT ![j] = [state |-> jobState[j], alloc |-> execution[j]]]
    <3>1. CASE jobState[j] # "Running"
          BY <2>2, <3>1 DEF TypeOK
    <3>2. CASE jobState[j] = "Running"
      <4>1. up = "up" /\ pc = "snapshot"
            BY <1>1, <3>2 DEF Flush, RunsUnlocked, RowOK
      <4>2. \A i \in Job : row[i].state = "Running" => execution[i] = row[i].alloc
            BY <4>1 DEF RowOK
      <4>3. ASSUME NEW i \in Job, i # j, row[i].state = "Running", row[i].alloc.node = execution[j].node
            PROVE  row[i].alloc.gpus \cap execution[j].gpus = {}
        <5>1. execution[i] = row[i].alloc
              BY <4>2, <4>3
        <5>2. execution[i] \in Alloc \cup {NoAlloc} /\ execution[j] \in Alloc \cup {NoAlloc}
              BY DEF TypeOK
        <5>3. CASE execution[j] = NoAlloc
              BY <5>3 DEF NoAlloc
        <5>4. CASE execution[j].node \in Node
              BY <4>3, <5>1, <5>2, <5>4, AllocFields DEF CardsExclusive, Holds
        <5> QED
              BY <5>2, <5>3, <5>4, AllocFields
      <4> QED
            BY <2>2, <4>3 DEF TypeOK
    <3> QED
          BY <3>1, <3>2
  <2> QED
        BY <1>1, <2>1, <2>2 DEF Flush
<1>2. ASSUME NEW j \in Job, StoreJob(j) PROVE RowsExclusive'
      BY <1>2 DEF StoreJob, TypeOK
<1>3. ASSUME NEW j \in Job, RecoverJob(j) PROVE RowsExclusive'
  <2>1. row' = row \/ row' = [row EXCEPT ![j] = [state |-> "Interrupted", alloc |-> NoAlloc]]
        BY <1>3 DEF RecoverJob
  <2> QED
        BY <2>1 DEF TypeOK
<1>4. CASE UNCHANGED row
      BY <1>4
<1>5. CoreStep => UNCHANGED row \/ \E j \in Job : Flush(j) \/ StoreJob(j) \/ RecoverJob(j)
      BY DEF CoreStep, advance_pending, cascade_skipped, BeginReserve, SnapshotRunning, Crash, Restart,
             RecoverDone, Reserve, Answered, Apply, Reap, BeginSubmit, InsertRun
<1> QED
      BY <1>1, <1>2, <1>3, <1>4, <1>5, StepKinds DEF coreVars

\* No step books a card twice or miscounts one.
LEMMA CardsPreserved ==
    ASSUME TypeOK, LoopOK, MemOK, CardsExclusive, [Next]_vars,
           up = "recovering" => RowOK /\ RowsExclusive
    PROVE  CardsExclusive'
<1>1. \A j \in Job : /\ hold[j] \in Alloc \cup {NoAlloc}
                     /\ execution[j] \in Alloc \cup {NoAlloc}
      BY DEF TypeOK
<1>2. \A n \in Node : pools[n] \in Pool /\ pools[n].vram \in [Card -> Nat] /\ Total[n].vram \in [Card -> Nat]
      BY InventoryAssumption DEF TypeOK, Pool
\* A job that takes cards nobody holds.
<1>3. ASSUME NEW j \in Job, NEW a \in Alloc,
             \A k \in Job \ {j}, n \in Node, g \in Card : Holds(k, n, g)' <=> Holds(k, n, g),
             \A n \in Node, g \in Card : ~ Holds(j, n, g),
             \A n \in Node, g \in Card : Holds(j, n, g)' <=> n = a.node /\ g \in a.gpus,
             \A g \in a.gpus, k \in Job : ~ Holds(k, a.node, g),
             \A n \in Node \ {a.node} : pools'[n] = pools[n],
             \A g \in Card : pools'[a.node].vram[g] = IF g \in a.gpus THEN 0 ELSE pools[a.node].vram[g]
      PROVE  CardsExclusive'
      BY <1>3 DEF CardsExclusive
\* A job that gives up what it holds.
<1>4. ASSUME NEW j \in Job, NEW a \in Alloc,
             \A k \in Job \ {j}, n \in Node, g \in Card : Holds(k, n, g)' <=> Holds(k, n, g),
             \A n \in Node, g \in Card : Holds(j, n, g) <=> n = a.node /\ g \in a.gpus,
             \A n \in Node, g \in Card : ~ Holds(j, n, g)',
             \A n \in Node \ {a.node} : pools'[n] = pools[n],
             \A g \in Card : pools'[a.node].vram[g] =
                                IF g \in a.gpus THEN pools[a.node].vram[g] + Total[a.node].vram[g]
                                ELSE pools[a.node].vram[g]
      PROVE  CardsExclusive'
      BY <1>2, <1>4 DEF CardsExclusive, Alloc
\* Nobody's cards change.
<1>5. ASSUME \A k \in Job, n \in Node, g \in Card : Holds(k, n, g)' <=> Holds(k, n, g),
             UNCHANGED pools
      PROVE  CardsExclusive'
      BY <1>5 DEF CardsExclusive
<1>6. ASSUME NEW j \in Job, Reserve(j) PROVE CardsExclusive'
  <2>1. CASE UNCHANGED <<pools, hold>>
        BY <1>5, <1>6, <2>1 DEF Reserve, Holds
  <2>2. ASSUME NEW a \in place(Total, pools, seen \ rejected[j], Needs[j]),
               pools' = [pools EXCEPT ![a.node] = Reserved(Total[a.node], @, a)],
               hold' = [hold EXCEPT ![j] = a]
        PROVE  CardsExclusive'
    <3>1. /\ a \in Alloc /\ a.node \in Node /\ a.gpus \in SUBSET Card
          /\ \A g \in Card : Reserved(Total[a.node], pools[a.node], a).vram[g] =
                               IF g \in a.gpus THEN 0 ELSE pools[a.node].vram[g]
          /\ \A g \in a.gpus : /\ Total[a.node].vram[g] > 0
                               /\ pools[a.node].vram[g] = Total[a.node].vram[g]
          BY Placed DEF Alloc
    <3>2. hold[j] = NoAlloc /\ execution[j] = NoAlloc
          BY <1>6 DEF Reserve, MemOK
    <3>3. \A k \in Job \ {j}, n \in Node, g \in Card : Holds(k, n, g)' <=> Holds(k, n, g)
          BY <1>6, <2>2 DEF Reserve, Holds
    <3>4. /\ \A n \in Node, g \in Card : ~ Holds(j, n, g)
          /\ \A n \in Node, g \in Card : Holds(j, n, g)' <=> n = a.node /\ g \in a.gpus
          BY <1>6, <2>2, <3>2 DEF Reserve, Holds, NoAlloc, TypeOK
    <3>5. \A g \in a.gpus, k \in Job : ~ Holds(k, a.node, g)
          BY <3>1 DEF CardsExclusive
    <3>6. /\ \A n \in Node \ {a.node} : pools'[n] = pools[n]
          /\ \A g \in Card : pools'[a.node].vram[g] = IF g \in a.gpus THEN 0 ELSE pools[a.node].vram[g]
          BY <2>2, <3>1 DEF TypeOK
    <3> QED
          BY <1>3, <3>1, <3>3, <3>4, <3>5, <3>6
  <2> QED
        BY <1>6, <2>1, <2>2 DEF Reserve
<1>7. ASSUME NEW j \in Job, Apply(j) PROVE CardsExclusive'
  <2> DEFINE a == hold[j]
  <2>1. a \in Alloc /\ a.node \in Node /\ a.gpus \in SUBSET Card /\ execution[j] = NoAlloc
        BY <1>1, <1>7, AllocFields DEF Apply, MemOK
  <2>2. CASE result[j] = "ok"
    <3>1. /\ pools' = pools
          /\ execution' = [execution EXCEPT ![j] = a]
          /\ hold' = [hold EXCEPT ![j] = NoAlloc]
          BY <1>7, <2>2 DEF Apply, GivesBack
    <3>2. \A k \in Job, n \in Node, g \in Card : Holds(k, n, g)' <=> Holds(k, n, g)
          BY <2>1, <3>1 DEF Holds, NoAlloc, TypeOK
    <3> QED
          BY <1>5, <3>1, <3>2
  <2>3. CASE result[j] # "ok"
    <3>1. /\ pools' = [pools EXCEPT ![a.node] = Released(Total[a.node], @, a)]
          /\ execution' = execution
          /\ hold' = [hold EXCEPT ![j] = NoAlloc]
          BY <1>7, <2>3 DEF Apply, GivesBack
    <3>2. /\ \A k \in Job \ {j}, n \in Node, g \in Card : Holds(k, n, g)' <=> Holds(k, n, g)
          /\ \A n \in Node, g \in Card : Holds(j, n, g) <=> n = a.node /\ g \in a.gpus
          /\ \A n \in Node, g \in Card : ~ Holds(j, n, g)'
          BY <2>1, <3>1 DEF Holds, NoAlloc, TypeOK
    <3>3. \A n \in Node \ {a.node} : pools'[n] = pools[n]
          BY <3>1
    <3>4. pools'[a.node] = Released(Total[a.node], pools[a.node], a)
          BY <2>1, <3>1 DEF TypeOK
    <3>5. \A g \in Card : pools'[a.node].vram[g] =
                            IF g \in a.gpus THEN pools[a.node].vram[g] + Total[a.node].vram[g]
                            ELSE pools[a.node].vram[g]
          BY <1>2, <2>1, <3>4, ReleasedPool
    <3> HIDE DEF a
    <3> QED
          BY <1>4, <2>1, <3>2, <3>3, <3>5
  <2> QED
        BY <2>2, <2>3
<1>8. ASSUME NEW j \in Job, Reap(j) PROVE CardsExclusive'
  <2> DEFINE a == execution[j]
  <2>1. a \in Alloc /\ a.node \in Node /\ a.gpus \in SUBSET Card /\ hold[j] = NoAlloc
        BY <1>1, <1>8, AllocFields DEF Reap, LoopOK, MemOK
  <2>2. CASE UNCHANGED <<execution, pools>>
        BY <1>5, <1>8, <2>2 DEF Reap, Holds
  <2>3. CASE /\ pools' = [pools EXCEPT ![a.node] = Released(Total[a.node], @, a)]
             /\ execution' = [execution EXCEPT ![j] = NoAlloc]
    <3>1. hold' = hold
          BY <1>8 DEF Reap
    <3>2. /\ \A k \in Job \ {j}, n \in Node, g \in Card : Holds(k, n, g)' <=> Holds(k, n, g)
          /\ \A n \in Node, g \in Card : Holds(j, n, g) <=> n = a.node /\ g \in a.gpus
          /\ \A n \in Node, g \in Card : ~ Holds(j, n, g)'
          BY <2>1, <2>3, <3>1 DEF Holds, NoAlloc, TypeOK
    <3>3. \A n \in Node \ {a.node} : pools'[n] = pools[n]
          BY <2>3
    <3>4. pools'[a.node] = Released(Total[a.node], pools[a.node], a)
          BY <2>1, <2>3 DEF TypeOK
    <3>5. \A g \in Card : pools'[a.node].vram[g] =
                            IF g \in a.gpus THEN pools[a.node].vram[g] + Total[a.node].vram[g]
                            ELSE pools[a.node].vram[g]
          BY <1>2, <2>1, <3>4, ReleasedPool
    <3> HIDE DEF a
    <3> QED
          BY <1>4, <2>1, <3>2, <3>3, <3>5
  <2> QED
        BY <1>8, <2>2, <2>3 DEF Reap
<1>9. ASSUME NEW j \in Job, RecoverJob(j) PROVE CardsExclusive'
  <2> DEFINE a == row[j].alloc
  <2>1. /\ up = "recovering" /\ j \in todo /\ hold' = hold
        /\ execution[j] = NoAlloc /\ \A k \in Job : hold[k] = NoAlloc
        /\ RowOK /\ RowsExclusive
        BY <1>9 DEF RecoverJob, MemOK
  <2>2. CASE UNCHANGED <<execution, pools>>
        BY <1>5, <2>1, <2>2 DEF Holds
  <2>3. CASE /\ row[j].state = "Running"
             /\ execution' = [execution EXCEPT ![j] = a]
             /\ pools' = [pools EXCEPT ![a.node] = Booked(Total[a.node], @, a)]
    <3>1. a \in Alloc \cup {NoAlloc}
          BY DEF TypeOK, JobRow
    <3>2. CASE a = NoAlloc
      <4>1. pools' = pools /\ execution' = execution
            BY <2>1, <2>3, <3>2, NodesAndCards DEF NoAlloc, TypeOK
      <4> QED
            BY <1>5, <2>1, <4>1 DEF Holds
    <3>3. CASE a # NoAlloc
      <4>1. a \in Alloc /\ a.node \in Node /\ a.gpus \in SUBSET Card
            BY <3>1, <3>3, AllocFields
      <4>2. \A k \in Job : execution[k] # NoAlloc => row[k].state = "Running" /\ row[k].alloc = execution[k]
            BY <2>1 DEF RowOK
      <4>3. \A g \in a.gpus, k \in Job : ~ Holds(k, a.node, g)
        <5>1. SUFFICES ASSUME NEW g \in a.gpus, NEW k \in Job, Holds(k, a.node, g) PROVE FALSE
              OBVIOUS
        <5>2. execution[k].node = a.node /\ g \in execution[k].gpus /\ execution[k] # NoAlloc
              BY <2>1, <5>1 DEF Holds, NoAlloc
        <5>3. k # j /\ row[k].state = "Running" /\ row[k].alloc = execution[k]
              BY <2>1, <4>2, <5>2
        <5> QED
              BY <2>1, <2>3, <5>2, <5>3 DEF RowsExclusive
      <4>4. /\ \A k \in Job \ {j}, n \in Node, g \in Card : Holds(k, n, g)' <=> Holds(k, n, g)
            /\ \A n \in Node, g \in Card : ~ Holds(j, n, g)
            /\ \A n \in Node, g \in Card : Holds(j, n, g)' <=> n = a.node /\ g \in a.gpus
            BY <2>1, <2>3 DEF Holds, NoAlloc, TypeOK
      <4>5. \A n \in Node \ {a.node} : pools'[n] = pools[n]
            BY <2>3
      <4>6. pools'[a.node] = Booked(Total[a.node], pools[a.node], a)
            BY <2>3, <4>1 DEF TypeOK
      <4>7. \A g \in a.gpus : pools[a.node].vram[g] = Total[a.node].vram[g]
            BY <4>1, <4>3 DEF CardsExclusive
      <4>8. \A g \in a.gpus : saturating_sub(pools[a.node].vram[g], Total[a.node].vram[g]) = 0
            BY <1>2, <4>1, <4>7 DEF saturating_sub
      <4>9. \A g \in Card : pools'[a.node].vram[g] = IF g \in a.gpus THEN 0 ELSE pools[a.node].vram[g]
            BY <1>2, <4>1, <4>6, <4>8, BookedPool
      <4> QED
            BY <1>3, <4>1, <4>3, <4>4, <4>5, <4>9
    <3> QED
          BY <3>2, <3>3
  <2> QED
        BY <1>9, <2>2, <2>3 DEF RecoverJob
<1>10. CASE Crash
  <2>1. /\ \A j \in Job, n \in Node, g \in Card : ~ Holds(j, n, g)'
        /\ \A n \in Node : pools'[n].vram = Total[n].vram
        BY <1>10 DEF Crash, Each, Holds, NoAlloc, FreshPools, NewPool
  <2> QED
        BY <2>1 DEF CardsExclusive
<1>11. CASE UNCHANGED <<hold, execution, pools>>
      BY <1>5, <1>11 DEF Holds
<1>12. CoreStep => \/ Crash
                   \/ UNCHANGED <<hold, execution, pools>>
                   \/ \E j \in Job : Reserve(j) \/ Apply(j) \/ Reap(j) \/ RecoverJob(j)
      BY DEF CoreStep, advance_pending, cascade_skipped, BeginReserve, SnapshotRunning, Restart, RecoverDone,
             Flush, Answered, StoreJob, BeginSubmit, InsertRun, memVars, loopVars, handVars, netVars
<1> QED
      BY <1>6, <1>7, <1>8, <1>9, <1>10, <1>11, <1>12, StepKinds DEF coreVars

-----------------------------------------------------------------------------
(* The theorems *)

\* A controller that just started satisfies every part of the invariant.
LEMMA InitialMemory == Init => LoopOK /\ MemOK /\ RowOK /\ CardsExclusive /\ RowsExclusive
BY DEF Init, Each, NoRow, NoAlloc, LoopOK, MemOK, RowOK, CardsExclusive, RowsExclusive, Holds,
       FreshPools, NewPool

\* The controller never leaves its types, whatever fails and whenever: no pool
\* goes below zero, every reservation, execution and stored row names a node
\* and cards of the inventory.
THEOREM TypeCorrect == Spec => []TypeOK
<1>1. Init => TypeOK /\ LoopOK /\ MemOK
      BY InitialTypes, InitialMemory
<1>2. TypeOK /\ LoopOK /\ MemOK /\ [Next]_vars => (TypeOK /\ LoopOK /\ MemOK)'
      BY TypesPreserved, LoopPreserved, MemPreserved
<1> QED
      BY <1>1, <1>2, PTL DEF Spec

\* With a store that keeps what is written to it, memory, the store and the
\* loop stay consistent, and no card is claimed twice in either.
LEMMA StoreKept ==
    ASSUME "store" \notin Faults
    PROVE  Spec => [](TypeOK /\ LoopOK /\ MemOK /\ RowOK /\ CardsExclusive /\ RowsExclusive)
<1> DEFINE IInv == TypeOK /\ LoopOK /\ MemOK /\ RowOK /\ CardsExclusive /\ RowsExclusive
<1>1. Init => IInv
      BY InitialTypes, InitialMemory
<1>2. IInv /\ [Next]_vars => IInv'
      BY TypesPreserved, LoopPreserved, MemPreserved, RowsPreserved, StoredExclusive, CardsPreserved
<1> QED
      BY <1>1, <1>2, PTL DEF Spec

\* With a store that keeps what is written to it, no card is booked for two
\* jobs and the pools agree with what is booked (advance_queued, advance_running
\* and take_back_runs), for any workflow, inventory and sequence of faults.
THEOREM OneJobPerCard ==
    ASSUME "store" \notin Faults
    PROVE  Spec => []CardsExclusive
      BY StoreKept, PTL

\* The store never shows two running jobs on one card, although
\* flush_transitions writes the rows one by one: the end of the job that had a
\* card is written before the next placement can give that card away.
THEOREM OneRowPerCard ==
    ASSUME "store" \notin Faults
    PROVE  Spec => []RowsExclusive
      BY StoreKept, PTL

\* A controller that does not crash stays up.
LEMMA StaysUp ==
    ASSUME Faults \cap {"crash", "launchCrash"} = {}, up = "up", [Next]_vars
    PROVE  up' = "up"
<1>1. ~ Crash
      BY DEF Crash, Fault
<1> QED
      BY <1>1, StepKinds
      DEF CoreStep, coreVars, advance_pending, cascade_skipped, BeginReserve, SnapshotRunning, Restart,
          RecoverDone, Flush, Reserve, Answered, Apply, Reap, StoreJob, RecoverJob, BeginSubmit, InsertRun

\* No card is booked for two jobs whatever the store keeps, as long as the
\* controller does not die: a write that fails never makes it forget what a running job holds.
THEOREM OneJobPerCardUnsaved ==
    ASSUME Faults \cap {"crash", "launchCrash"} = {}
    PROVE  Spec => []CardsExclusive
<1> DEFINE IInv == up = "up" /\ TypeOK /\ LoopOK /\ MemOK /\ CardsExclusive
<1>1. Init => IInv
      BY InitialTypes, InitialMemory DEF Init
<1>2. IInv /\ [Next]_vars => IInv'
      BY StaysUp, TypesPreserved, LoopPreserved, MemPreserved, CardsPreserved
<1> QED
      BY <1>1, <1>2, PTL DEF Spec
=============================================================================
