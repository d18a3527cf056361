--------------------------- MODULE LifecycleProofs ---------------------------
(***************************************************************************)
(* What the store says of the jobs: the controller implements JobLifecycle *)
(* and a verdict on a run is final.                                        *)
(***************************************************************************)
EXTENDS SchedulerProofs

\* A row that says Running, or an end, agrees with memory or memory is ahead of
\* it by the end of the job; nothing goes back, whatever writes fail.  Of a run
\* without a row of its own nothing is taken back.
SavedOK ==
    /\ \A j \in Job : row[j].state = "Running" =>
          \/ jobState[j] = "Running" /\ execution[j] = row[j].alloc
          \/ jobState[j] \in Terminal \cup {"absent"}
    /\ \A j \in Job : row[j].state \in Terminal => jobState[j] \in {"absent", row[j].state}
    /\ up = "recovering" => \A j \in Job :
          IF RunOf[j] \in stored THEN row[j].state = "Running" /\ j \notin todo => jobState[j] = "Running"
          ELSE j \notin todo /\ jobState[j] = "absent"

\* No step breaks SavedOK.
LEMMA SavedPreserved ==
    ASSUME TypeOK, LoopOK, MemOK, SavedOK, [Next]_vars
    PROVE  SavedOK'
<1> USE DEF SavedOK, MemOK, Terminal, memVars, loopVars, handVars, netVars, TypeOK
<1>1. CASE advance_pending
  BY <1>1 DEF advance_pending, AtPhase
<1>2. CASE cascade_skipped
  BY <1>2 DEF cascade_skipped, AtPhase
<1>3. CASE BeginReserve
  BY <1>3 DEF BeginReserve, AtPhase
<1>4. CASE SnapshotRunning
  BY <1>4 DEF SnapshotRunning, AtPhase
<1>5. CASE Crash
  BY <1>5 DEF Crash, Each
<1>6. CASE Restart
  BY <1>6, JobsAssumption DEF Restart, UnfinishedJobs, Unfinished
<1>7. CASE RecoverDone
  BY <1>7 DEF RecoverDone
<1>8. ASSUME NEW j \in Job, Flush(j) PROVE SavedOK'
  BY <1>8 DEF Flush, RunsUnlocked, Fault
<1>9. ASSUME NEW j \in Job, Reserve(j) PROVE SavedOK'
  BY <1>9 DEF Reserve, AfterReserve
<1>10. ASSUME NEW j \in Job, Answered(j) PROVE SavedOK'
  BY <1>10 DEF Answered
<1>11. ASSUME NEW j \in Job, Apply(j) PROVE SavedOK'
  BY <1>11 DEF Apply
<1>12. ASSUME NEW j \in Job, Reap(j) PROVE SavedOK'
  BY <1>12 DEF Reap, LoopOK, EndState
<1>13. ASSUME NEW j \in Job, StoreJob(j) PROVE SavedOK'
  BY <1>13 DEF StoreJob, NoRow
<1>14. ASSUME NEW j \in Job, RecoverJob(j) PROVE SavedOK'
  BY <1>14 DEF RecoverJob
<1>15. ASSUME NEW r \in Run, BeginSubmit(r) PROVE SavedOK'
  BY <1>15, JobsAssumption DEF BeginSubmit
<1>16. ASSUME NEW r \in Run, InsertRun(r) PROVE SavedOK'
  BY <1>16, JobsAssumption DEF InsertRun, RunsUnlocked
<1>17. CASE UNCHANGED coreVars
  BY <1>17 DEF coreVars
<1> QED
  BY <1>1, <1>2, <1>3, <1>4, <1>5, <1>6, <1>7, <1>8, <1>9, <1>10, <1>11, <1>12, <1>13, <1>14, <1>15, <1>16, <1>17, StepKinds DEF CoreStep

\* Three operations write rows: submit, flush_transitions and recovery.
LEMMA RowWriters ==
    ASSUME [Next]_vars
    PROVE  UNCHANGED row \/ \E j \in Job : Flush(j) \/ StoreJob(j) \/ RecoverJob(j)
BY StepKinds
   DEF CoreStep, coreVars, advance_pending, cascade_skipped, BeginReserve, SnapshotRunning, Crash, Restart,
       RecoverDone, Reserve, Answered, Apply, Reap, BeginSubmit, InsertRun

\* The recorded state of a job changes when flush_transitions writes it, and
\* when recovery finds nothing left of a running job; nothing else shows.
LEMMA Records ==
    ASSUME TypeOK, MemOK, [Next]_vars
    PROVE  \/ UNCHANGED Recorded
           \/ \E j \in Job : Flush(j) /\ Recorded' = [Recorded EXCEPT ![j] = jobState[j]]
           \/ \E j \in Job : /\ RecoverJob(j) /\ Recorded[j] = "Running"
                             /\ Recorded' = [Recorded EXCEPT ![j] = "Interrupted"]
<1> USE DEF TypeOK, Recorded, memVars, loopVars, handVars, netVars
<1>1. ASSUME UNCHANGED row PROVE UNCHANGED Recorded
  BY <1>1
<1>2. ASSUME NEW j \in Job, Flush(j), row' # row PROVE Recorded' = [Recorded EXCEPT ![j] = jobState[j]]
  <2>1. row' = [row EXCEPT ![j] = [state |-> jobState[j], alloc |-> execution[j]]] /\ jobState[j] # "absent"
    BY <1>2 DEF Flush, MemOK
  <2>2. \A k \in Job : row'[k].state = IF k = j THEN jobState[j] ELSE row[k].state
    BY <2>1
  <2> QED
    BY <2>1, <2>2
<1>3. ASSUME NEW j \in Job, StoreJob(j) PROVE UNCHANGED Recorded
  BY <1>3 DEF StoreJob, NoRow
<1>4. ASSUME NEW j \in Job, RecoverJob(j), row' # row
      PROVE  Recorded[j] = "Running" /\ Recorded' = [Recorded EXCEPT ![j] = "Interrupted"]
  BY <1>4 DEF RecoverJob
<1> QED
  BY <1>1, <1>2, <1>3, <1>4, RowWriters

\* The write that job j waits for, in the phase that made it.
Owed(j) ==
    \/ pc = "skip" /\ Recorded[j] = "Pending" /\ jobState[j] = "Queued"
    \/ /\ pc = "queue" /\ Recorded[j] = "Pending" /\ jobState[j] = "Skipped"
       /\ \E d \in Deps[j] : Recorded[d] \in Bad
    \/ pc \in {"apply", "snapshot"} /\ Recorded[j] = "Queued" /\ jobState[j] \in {"Running", "Failed"}
    \/ pc \in {"reap", "pending"} /\ Recorded[j] = "Running" /\ jobState[j] \in {"Succeeded", "Failed", "Cancelled"}

\* Memory agrees with the store, or is ahead of it by the one write it waits for,
\* and nothing waits to be written while jobs are placed, launched and polled.
StoreOK ==
    /\ \A j \in Job : jobState[j] # "absent" => Recorded[j] = jobState[j] \/ (j \in toWrite /\ Owed(j))
    /\ pc \in {"reserve", "launch", "poll"} => toWrite = {}

\* What was queued, or is about to be, has everything it depends on in the store.
DepsOK ==
    \A j \in Job : row[j].state \in {"Queued", "Running"} \/ jobState[j] \in {"Queued", "Running"}
                   => \A d \in Deps[j] : row[d].state = "Succeeded"

\* No step of a controller whose store keeps what is written breaks StoreOK.
LEMMA StorePreserved ==
    ASSUME TypeOK, LoopOK, MemOK, StoreOK, DepsOK, "store" \notin Faults, [Next]_vars
    PROVE  StoreOK'
<1>0. UNCHANGED row => UNCHANGED Recorded
  BY DEF Recorded
<1>18. UNCHANGED <<Recorded, jobState, pc, toWrite>> => StoreOK'
  BY DEF StoreOK, Owed
<1> USE JobsAssumption DEF StoreOK, Owed, Recorded, MemOK, memVars, loopVars, handVars, netVars, TypeOK
<1>1. CASE advance_pending
  BY <1>1 DEF advance_pending, AtPhase
<1>2. CASE cascade_skipped
  <2> HIDE DEF Recorded
  <2>1. UNCHANGED Recorded /\ toWrite = {} /\ pc' = "queue"
    BY <1>0, <1>2 DEF cascade_skipped, AtPhase
  <2>2. \A k \in Job : jobState[k] # "absent" => Recorded[k] = jobState[k]
    BY <2>1
  <2>3. \A k \in Job : jobState[k] = "Queued" => \A d \in Deps[k] : jobState[d] \notin Bad
    BY <2>2 DEF DepsOK, Bad, Terminal, Recorded
  <2>4. ASSUME NEW k \in Job, jobState'[k] # jobState[k]
        PROVE  /\ jobState'[k] = "Skipped" /\ jobState[k] = "Pending" /\ k \in toWrite'
               /\ \E d \in Deps[k] : Recorded[d] \in Bad
    BY <1>2, <2>2, <2>3, <2>4 DEF cascade_skipped, Bad, Terminal
  <2> QED
    BY <2>1, <2>2, <2>4
<1>3. CASE BeginReserve
  BY <1>3 DEF BeginReserve, AtPhase
<1>4. CASE SnapshotRunning
  BY <1>4 DEF SnapshotRunning, AtPhase
<1>5. CASE Crash
  BY <1>5 DEF Crash, Each
<1>6. CASE Restart
  BY <1>6 DEF Restart, UnfinishedJobs, Unfinished
<1>7. CASE RecoverDone
  BY <1>7 DEF RecoverDone
<1>8. ASSUME NEW j \in Job, Flush(j) PROVE StoreOK'
  <2> HIDE DEF Recorded
  <2>1. /\ toWrite' = toWrite \ {j} /\ j \in toWrite /\ UNCHANGED <<pc, jobState>>
        /\ pc \notin {"reserve", "launch", "poll"}
    BY <1>8 DEF Flush
  <2>2. \A k \in Job : Recorded'[k] = IF k = j THEN jobState[j] ELSE Recorded[k]
    BY <1>8, <2>1 DEF Flush, Fault, Recorded
  <2>3. Recorded[j] = jobState[j] \/ Owed(j)
    BY <2>1
  <2>4. \A d \in Job : Recorded[d] \in Bad => Recorded'[d] = Recorded[d]
    BY <2>2, <2>3 DEF Bad, Terminal
  <2> QED
    BY <2>1, <2>2, <2>4
<1>9. ASSUME NEW j \in Job, Reserve(j) PROVE StoreOK'
  BY <1>9 DEF Reserve, AfterReserve
<1>10. ASSUME NEW j \in Job, Answered(j) PROVE StoreOK'
  <2>1. UNCHANGED <<Recorded, jobState, pc, toWrite>>
    BY <1>0, <1>10 DEF Answered
  <2> QED
    BY <1>18, <2>1
<1>11. ASSUME NEW j \in Job, Apply(j) PROVE StoreOK'
  BY <1>11 DEF Apply
<1>12. ASSUME NEW j \in Job, Reap(j) PROVE StoreOK'
  BY <1>12 DEF Reap, LoopOK, EndState
<1>13. ASSUME NEW j \in Job, StoreJob(j) PROVE StoreOK'
  <2>1. UNCHANGED <<Recorded, jobState, pc, toWrite>>
    BY <1>13 DEF StoreJob, NoRow
  <2> QED
    BY <1>18, <2>1
<1>14. ASSUME NEW j \in Job, RecoverJob(j) PROVE StoreOK'
  BY <1>14 DEF RecoverJob
<1>15. ASSUME NEW r \in Run, BeginSubmit(r) PROVE StoreOK'
  <2>1. UNCHANGED <<Recorded, jobState, pc, toWrite>>
    BY <1>0, <1>15 DEF BeginSubmit
  <2> QED
    BY <1>18, <2>1
<1>16. ASSUME NEW r \in Run, InsertRun(r) PROVE StoreOK'
  <2> HIDE DEF Recorded
  <2>1. UNCHANGED <<Recorded, pc, toWrite>>
    BY <1>0, <1>16 DEF InsertRun
  <2>2. \A k \in Job : \/ jobState'[k] = jobState[k]
                       \/ jobState'[k] = "Pending" /\ Recorded[k] = "Pending"
    BY <1>16 DEF InsertRun, Recorded
  <2> QED
    BY <2>1, <2>2
<1>17. CASE UNCHANGED coreVars
  <2>1. UNCHANGED <<Recorded, jobState, pc, toWrite>>
    BY <1>0, <1>17 DEF coreVars
  <2> QED
    BY <1>18, <2>1
<1> QED
  BY <1>1, <1>2, <1>3, <1>4, <1>5, <1>6, <1>7, <1>8, <1>9, <1>10, <1>11, <1>12, <1>13, <1>14, <1>15, <1>16, <1>17, StepKinds DEF CoreStep

\* No step of such a controller breaks DepsOK.
LEMMA DepsPreserved ==
    ASSUME TypeOK, LoopOK, MemOK, StoreOK, DepsOK, "store" \notin Faults, [Next]_vars
    PROVE  DepsOK'
<1> USE JobsAssumption DEF DepsOK, MemOK, memVars, loopVars, handVars, netVars, TypeOK
<1>1. CASE advance_pending
  BY <1>1 DEF advance_pending, AtPhase, StoreOK, Owed, Recorded
<1>2. CASE cascade_skipped
  BY <1>2 DEF cascade_skipped, AtPhase
<1>3. CASE BeginReserve
  BY <1>3 DEF BeginReserve, AtPhase
<1>4. CASE SnapshotRunning
  BY <1>4 DEF SnapshotRunning, AtPhase
<1>5. CASE Crash
  BY <1>5 DEF Crash, Each
<1>6. CASE Restart
  BY <1>6 DEF Restart, UnfinishedJobs, Unfinished
<1>7. CASE RecoverDone
  BY <1>7 DEF RecoverDone
<1>8. ASSUME NEW j \in Job, Flush(j) PROVE DepsOK'
  BY <1>8 DEF Flush, RunsUnlocked, Fault, StoreOK, Owed, Recorded
<1>9. ASSUME NEW j \in Job, Reserve(j) PROVE DepsOK'
  BY <1>9 DEF Reserve, AfterReserve
<1>10. ASSUME NEW j \in Job, Answered(j) PROVE DepsOK'
  BY <1>10 DEF Answered
<1>11. ASSUME NEW j \in Job, Apply(j) PROVE DepsOK'
  BY <1>11 DEF Apply
<1>12. ASSUME NEW j \in Job, Reap(j) PROVE DepsOK'
  BY <1>12 DEF Reap, LoopOK, EndState
<1>13. ASSUME NEW j \in Job, StoreJob(j) PROVE DepsOK'
  BY <1>13 DEF StoreJob, NoRow
<1>14. ASSUME NEW j \in Job, RecoverJob(j) PROVE DepsOK'
  BY <1>14 DEF RecoverJob
<1>15. ASSUME NEW r \in Run, BeginSubmit(r) PROVE DepsOK'
  BY <1>15, JobsAssumption DEF BeginSubmit
<1>16. ASSUME NEW r \in Run, InsertRun(r) PROVE DepsOK'
  BY <1>16, JobsAssumption DEF InsertRun, RunsUnlocked
<1>17. CASE UNCHANGED coreVars
  BY <1>17 DEF coreVars
<1> QED
  BY <1>1, <1>2, <1>3, <1>4, <1>5, <1>6, <1>7, <1>8, <1>9, <1>10, <1>11, <1>12, <1>13, <1>14, <1>15, <1>16, <1>17, StepKinds DEF CoreStep

\* A run's own row, once written, stays.
LEMMA RunsStay ==
    ASSUME [Next]_vars
    PROVE  stored \subseteq stored'
BY StepKinds
   DEF CoreStep, coreVars, handVars, advance_pending, cascade_skipped, BeginReserve, SnapshotRunning, Crash, Restart,
       RecoverDone, Flush, Reserve, Answered, Apply, Reap, StoreJob, RecoverJob, BeginSubmit, InsertRun

\* A row that records an end is final, also when writes fail.
LEMMA EndsStay ==
    ASSUME TypeOK, MemOK, SavedOK, [Next]_vars, NEW j \in Job, row[j].state \in Terminal
    PROVE  row'[j].state = row[j].state
<1>1. ASSUME NEW k \in Job, Flush(k) PROVE row'[j].state = row[j].state
  BY <1>1 DEF Flush, MemOK, SavedOK, TypeOK
<1>2. ASSUME NEW k \in Job, StoreJob(k) PROVE row'[j].state = row[j].state
  BY <1>2 DEF StoreJob, NoRow, Terminal, TypeOK
<1>3. ASSUME NEW k \in Job, RecoverJob(k) PROVE row'[j].state = row[j].state
  BY <1>3 DEF RecoverJob, Terminal, TypeOK
<1> QED
  BY <1>1, <1>2, <1>3, RowWriters

-----------------------------------------------------------------------------
(* The theorems *)

\* The invariant about rows that records an end or a start holds throughout.
LEMMA SavedInvariant == Spec => [](TypeOK /\ LoopOK /\ MemOK /\ SavedOK)
<1>1. Init => TypeOK /\ LoopOK /\ MemOK /\ SavedOK
  <2>1. Init => SavedOK
    BY DEF Init, SavedOK, Each, NoRow, Terminal
  <2> QED
    BY <2>1, InitialTypes, InitialMemory
<1>2. TypeOK /\ LoopOK /\ MemOK /\ SavedOK /\ [Next]_vars => (TypeOK /\ LoopOK /\ MemOK /\ SavedOK)'
  BY TypesPreserved, LoopPreserved, MemPreserved, SavedPreserved
<1> QED
  BY <1>1, <1>2, PTL DEF Spec

\* What ps reports of a run as failed, or as succeeded when all its jobs are
\* stored, stays so (derive_run_state over list_runs' rows), whichever writes
\* fail and wherever the controller crashes and takes runs back.
THEOREM VerdictsAreFinal == Spec => VerdictFinal
<1> DEFINE States(r) == {row[j].state : j \in {k \in Job : RunOf[k] = r /\ row[k] # NoRow}}
<1> DEFINE Failures == {"Failed", "TimedOut", "Interrupted"}
<1>1. ASSUME TypeOK, MemOK, SavedOK, [Next]_vars, NEW r \in Run, RunStatus(r) = "Failed"
      PROVE  RunStatus(r)' = "Failed"
  <2>1. States(r) \cap Failures # {} /\ r \in stored'
    BY <1>1, RunsStay DEF RunStatus, derive_run_state
  <2>2. PICK j \in Job : RunOf[j] = r /\ row[j].state \in Failures
    BY <2>1
  <2>3. row'[j].state \in Failures /\ row'[j] # NoRow
    BY <1>1, <2>2, EndsStay DEF Terminal, NoRow
  <2>4. States(r)' \cap Failures # {}
    BY <2>2, <2>3
  <2> QED
    BY <2>1, <2>4 DEF RunStatus, derive_run_state
<1>2. ASSUME TypeOK, MemOK, SavedOK, [Next]_vars, NEW r \in Run, RunStatus(r) = "Succeeded",
             \A j \in Job : RunOf[j] = r => row[j] # NoRow
      PROVE  RunStatus(r)' = RunStatus(r)
  <2>1. States(r) \subseteq {"Succeeded", "Skipped"} /\ r \in stored /\ r \in stored'
    BY <1>2, RunsStay DEF RunStatus, derive_run_state
  <2>2. \A j \in Job : RunOf[j] = r => row[j].state \in {"Succeeded", "Skipped"}
    BY <1>2, <2>1
  <2>3. \A j \in Job : RunOf[j] = r => row'[j].state = row[j].state /\ row'[j] # NoRow
    BY <1>2, <2>2, EndsStay DEF Terminal, NoRow
  <2>4. States(r)' = States(r)
    BY <1>2, <2>3
  <2> QED
    BY <2>1, <2>4 DEF RunStatus
<1>3. TypeOK /\ LoopOK /\ MemOK /\ SavedOK /\ [Next]_vars =>
         [\A r \in Run :
             \/ RunStatus(r) = "Failed"
             \/ RunStatus(r) = "Succeeded" /\ \A j \in Job : RunOf[j] = r => row[j] # NoRow
             => RunStatus(r)' = RunStatus(r)]_vars
  BY <1>1, <1>2
<1> QED
  BY <1>3, SavedInvariant, PTL DEF Spec, VerdictFinal

\* While the store keeps what is written, memory runs ahead of the rows by one
\* phase at most, and what is queued has its dependencies in the store.
LEMMA StoreInvariant ==
    ASSUME "store" \notin Faults
    PROVE  Spec => [](TypeOK /\ LoopOK /\ MemOK /\ StoreOK /\ DepsOK)
<1> DEFINE IInv == TypeOK /\ LoopOK /\ MemOK /\ StoreOK /\ DepsOK
<1>1. Init => IInv
  <2>1. Init => StoreOK /\ DepsOK
    BY DEF Init, StoreOK, DepsOK, Each, NoRow
  <2> QED
    BY <2>1, InitialTypes, InitialMemory
<1>2. IInv /\ [Next]_vars => IInv'
  BY TypesPreserved, LoopPreserved, MemPreserved, StorePreserved, DepsPreserved
<1> QED
  BY <1>1, <1>2, PTL DEF Spec

\* The controller implements JobLifecycle: whatever crashes, restarts, lost
\* messages and cancels do, each job's row moves along Pending, Queued and
\* Running to one end, is queued after all it depends on succeeded and skipped
\* only for one that did not (advance_pending, cascade_skipped, advance_queued,
\* advance_running, flush_transitions and take_back_runs).
THEOREM ImplementsLifecycle ==
    ASSUME "store" \notin Faults
    PROVE  Spec => FollowsLifecycle
<1> USE DEF Lifecycle!Next, Lifecycle!Queue, Lifecycle!Skip, Lifecycle!Start, Lifecycle!End, Lifecycle!Become
<1>1. Init => Lifecycle!Init
  BY DEF Init, NoRow, Recorded, Lifecycle!Init
<1>2. ASSUME TypeOK, MemOK, StoreOK, DepsOK, NEW j \in Job, Flush(j),
             Recorded' = [Recorded EXCEPT ![j] = jobState[j]]
      PROVE  [Lifecycle!Next]_Recorded
  <2>1. Recorded[j] = jobState[j] \/ Owed(j)
    BY <1>2 DEF StoreOK, Flush, MemOK
  <2>2. CASE Recorded[j] = jobState[j]
    BY <1>2, <2>2 DEF Recorded
  <2>3. CASE pc = "skip" /\ Recorded[j] = "Pending" /\ jobState[j] = "Queued"
    <3>1. \A d \in Deps[j] : Recorded[d] = "Succeeded"
      BY <1>2, <2>3, JobsAssumption DEF DepsOK, Recorded
    <3> QED
      BY <1>2, <2>3, <3>1
  <2>4. CASE /\ Recorded[j] = "Pending" /\ jobState[j] = "Skipped"
             /\ \E d \in Deps[j] : Recorded[d] \in Bad
    BY <1>2, <2>4 DEF Bad, Terminal, Lifecycle!Bad
  <2>5. CASE Recorded[j] = "Queued" /\ jobState[j] \in {"Running", "Failed"}
    BY <1>2, <2>5
  <2>6. CASE Recorded[j] = "Running" /\ jobState[j] \in {"Succeeded", "Failed", "Cancelled"}
    BY <1>2, <2>6
  <2> QED
    BY <2>1, <2>2, <2>3, <2>4, <2>5, <2>6 DEF Owed
<1>3. TypeOK /\ LoopOK /\ MemOK /\ StoreOK /\ DepsOK /\ [Next]_vars => [Lifecycle!Next]_Recorded
  <2> SUFFICES ASSUME TypeOK, MemOK, StoreOK, DepsOK, [Next]_vars
               PROVE  [Lifecycle!Next]_Recorded
    OBVIOUS
  <2>1. ASSUME NEW j \in Job, Recorded[j] = "Running", Recorded' = [Recorded EXCEPT ![j] = "Interrupted"]
        PROVE  Lifecycle!Next
    BY <2>1
  <2> QED
    BY <1>2, <2>1, Records
<1> QED
  BY <1>1, <1>3, StoreInvariant, PTL DEF Spec, FollowsLifecycle, Lifecycle!Spec
=============================================================================
