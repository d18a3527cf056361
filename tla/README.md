# Roster in TLA+

Roster runs workflows of shell jobs on a few GPU machines: a controller daemon
schedules jobs onto nodes, a daemon on each node starts and watches them, and
what the controller knows is kept in an SQLite store so that a crash of either
loses nothing. This directory models that machinery, model-checks it with TLC
and proves its central properties with TLAPS. Paths are relative to the
repository, `src/src/` being its Rust sources.

## 1. The system

| Part | Source | State | Operations | Correct when |
|---|---|---|---|---|
| Scheduler | `scheduler/mod.rs` | a job's state, executions, `cancelling`, `rejected`; what a tick has reserved, asked and got back | `tick`: `check_gpus`, `advance_pending`, `cascade_skipped`, `advance_queued`, `advance_running`, each followed by `flush_transitions` | one job per card, jobs follow their lifecycle, every job ends |
| Pools and placement | `resource/pool.rs`, `resource/placement.rs`, `workflow/spec.rs` | free CPU, memory and VRAM per node, blocked cards | `try_reserve`, `release`, `book`, `could_fit`, `place` | what is free and what is held adds up |
| Node daemon | `worker.rs`, `executor/shell.rs` | map of job processes; systemd scopes and exit files, which outlive it | launch, poll, kill, find | a job starts at most once per node; a poll reports the end only after every process is gone |
| Remote executor | `executor/remote.rs`, `ipc/*` | none | the same over an ssh tunnel with a 10 s timeout | a lost answer neither doubles nor strands a job |
| Handlers | `ipc/server.rs` | kills to send | submit, cancel, status, Launch, Poll, Kill | a cancel completes |
| Store | `store/mod.rs` | a row per run and job | upsert, `unfinished_runs`, `list_runs`, `get_run` | rows never contradict each other; what `ps` shows is true |
| Recovery | `daemon/recover.rs` | none | `take_back_runs`, `reattach`, `restore` | what ran before a crash keeps its cards |
| Daemon and its commands | `daemon/mod.rs`, `main.rs` | pid file and lock, socket, unit file | start, stop, restart, enable; lock, bind, drain, cleanup | one daemon runs and can be reached; one that was started serves |
| Nodes and tunnels | `node.rs` | online flag, ssh process, health record | connect, supervise, check | a node that works comes back |
| GPU monitor | `resource/health.rs`, `quarantine.rs` | quarantined cards, their file, tests since the start | `open`, `read`, `handle`, `record_test`, `ClearGpu` | a fault is not forgotten |
| GPU check | `scheduler/mod.rs`, `resource/qualify.rs`, `cuda.rs` | blocked cards, qualifications | `check_gpus`, `finish_qualifications`, `start_qualification`, `GpuQualified` | a faulty card gets no job, a sound one comes back |
| Event ring | `broadcast.rs`, `event.rs` | slots, versions, cursors | `send`, `subscribe`, `try_recv` | events come whole and in order |
| Workflow check | `workflow/dag.rs` | none | `validate` | accepts what can be run |

How they interact: the scheduler loop and the IPC handlers are tasks of one
tokio runtime and share `runs` and `pools` behind locks; the scheduler gives the
locks up while it launches and polls, and while it writes rows. Node daemons are
separate processes reached through tunnels that go down, lose answers and
deliver late. The store and the nodes' scopes and exit files survive crashes,
everything else is rebuilt. The ring is shared memory between the scheduler
thread and its subscribers.

What is hard: cancels, crashes and restarts between the steps of a launch;
answers that are lost or late; rows written one by one after the lock is gone;
decisions taken on copies and on readings seconds old; two looks at a job that
ends in between; files that outlive the daemon that made them; a lock-free ring
on weak memory. `PROJECT.json`
lists each such place under `hazards` with the properties aimed at it.

## 2. The modules

| Module | Models |
|---|---|
| `Resources` | pools and placement, as operators on records |
| `Worker` | the node side: shell executor, worker map, processes |
| `Scheduler` | the controller, over `Resources` and `Worker`: a tick, the handlers, tunnels, store, crash and recovery |
| `JobLifecycle` | the abstract specification of the recorded job states |
| `GpuMonitor` | a node daemon's quarantines, their file and its readings |
| `Tunnel` | ssh, the health check and the online flag, over `GpuMonitor` |
| `GpuCheck` | the controller's GPU check and the tests it starts, over `Tunnel` |
| `Daemon` | a daemon process from start to end, and the commands on it |
| `ShellExec` | one job in the single steps of executor, worker map and wrapper |
| `Machine` | `Daemon` and `ShellExec` together: daemons that come and go, a job that stays |
| `Broadcast` | the event ring under C11 memory |
| `EventLog` | the abstract specification of the event channel |
| `Dag` | workflow validation and its reference definition |
| `SchedulerProofs`, `LifecycleProofs`, `HandoverProofs` | theorems about `Scheduler`, each over the one before |
| `ConservationProofs` | sums over finite sets, and that nothing leaks, over `SchedulerProofs` |
| `GpuCheckProofs`, `MachineProofs`, `BroadcastProofs`, `DagProofs` | theorems about the other components |
| `MCScheduler`, `MCGpuCheck`, `MCMachine`, `MCBroadcast`, `MCDag` | instances for TLC |

Definitions named `X_Something` under a comment starting with "Slip" are wrong
versions of `X`, one per property, that show the property can fail; no
specification uses them.

### Scheduler, Worker and Resources

A step is what the code does between two points where another task, process or
a crash can come in:

- `advance_pending` and `cascade_skipped` hold the runs lock throughout and are
  one step each. The phases that visit jobs one by one under the lock
  (`Reserve`, `Apply`, `Reap`) are one step per job; `RunsUnlocked` keeps the
  handlers and row writes out until the phase is over. `runs`, the jobs of a
  run and the task sets made from them are hash maps or unordered, so jobs are
  visited in any order.
- A launch or a poll is one step per job. Locally it is the shell executor's.
  Remotely it is one of: not sent (`LaunchUnsent`), handled and answered,
  or unanswered, in which case the node handled it, never got it, or, for a
  launch, gets it later (`wire`, `LateLaunch`).
- `Flush` writes one row. A submit writes the run's own row (`BeginSubmit`, which
  keeps it in `stored`), then a row per job (`StoreJob`), and then puts the run
  into memory whether or not they were written (`InsertRun`). Recovery and `ps`
  start from the runs' rows, so a job whose run has none is not found.
- `Cancel` marks under the lock; every `Kill` is a step of its own, sent once.
- `Crash` clears all that is in memory at any point, `RecoverJob` takes back one
  job, `RecoverDone` opens for business.
- On a node, `ProcExit` and `ProcGone` end processes at any time and
  `NodeRestart` empties the worker map.

The pool arithmetic is the code's, including `book` that saturates and
`vram_per_gpu` that rounds up. `seen`, `hold`, `result` and `snap` are the local
variables of `advance_queued` and `advance_running` that live across the
unlocked part.

Faults are enabled per run by kind and bounded in number by `MaxFaults`:
`crash` (the controller dies, outside the window of the next kind),
`launchCrash` (it dies after a launch and before its Running row is written),
`restart` (a node daemon), `offline`, `lost` (an exchange), `late` (a Launch),
`spawn` (starting the process fails), `store` (a row, of a run or of a job, is not
written).

Left out of the data: times, reasons, log text and paths, exit numbers beyond zero,
other and signal. Simplifications that the code permits: a job has one execution, as
the scheduler makes it (`place`'s undo for several members is unreachable); every
node has systemd scopes (`ShellExec` has both); a node polled through `known` gives
the cached code, which equals polling again since the scope is stopped by then;
`Info` only polls; runs are never removed, so the branches for missing runs cannot
be taken; nodes are reachable when the controller restarts (`connect` gives up
otherwise), and an error in `take_back_runs` is a further crash; no card is blocked
(`GpuCheck` has that half of placement); the inventory is constant; one controller
runs at a time (`Daemon` shows it).

### GpuMonitor, Tunnel and GpuCheck

`GpuMonitor` is one per node. `handle` changes the quarantines and `save` writes
them under the same lock, so nothing but the daemon's death comes between them;
`record_test` gives the lock up before `Stamp` notes the time, so anything may. A
daemon that starts (`open`) loads the file and has tested nothing. `suspect` is a
history of faults that neither a pass nor a clear has ended.

`Tunnel` splits a health check where other tasks come in: the answer, the flag,
the health record. The flag is also cleared by a request of the scheduler that
failed (`lost`), so a check that began before may set it again.

`GpuCheck` is the controller's loop: `finish_qualifications` (`Poll`, `Kill`,
`Report`), the readings (`ReleaseAndRead`), the pass over all cards under the
pools' lock (`Apply`), one launch per card chosen (`Start`), and the ticks until
the next check, in which jobs take free cards that are not blocked and give them
back (`Place`, `JobEnds`). The two periods, `QUALIFY_SETTLE` and `QUALIFY_EVERY`,
are choices of the step: they are over for the cards the step names. A test is a
process of its own; it comes to one of the verdicts its card allows, reports to
the daemon of its node if there is one, and ends. Tests are launched by the same
remote executor as jobs, so a Launch may also arrive after its timeout: while the
test is still tracked (`LateStart`), or after a poll found nothing and the card
was released (`wire`, `LateStray`). A test that nobody tracks any more, after that,
a crash of the controller or a lost kill, goes on as a stray.

Left out: what changes between the lookups a reading consists of (two for each card,
`resource/health.rs:106`); a card that reports no VRAM (never handed out nor
tested); the texts of reasons; a quarantine file that cannot be parsed; NVML that is
missing or that does not support Xids, in which case the faults of this model do not
arrive; the check's warnings. An Xid is a hardware fault or a job's; a card has a
defect or not, a short test may miss it, and the longer one DCGM makes of a
quarantined card does not.

### Daemon, ShellExec and Machine

`Daemon` has a step per system call that others can see: the question whether
somebody answers, ssh's bind of the tunnel, opening and locking the pid file,
removing and binding the socket, and the two removals at the end. Files are
identified by who made them, since the lock is on the file and the removals go by
name. `Start`, `StartUnit`, `Stop`, `Waited` and `Stopped` are the commands; restart
is `Stop` followed by `Start`. `Respawn` is systemd's `Restart=on-failure`. The
tunnels are opened as one step, and the deadlines of the commands are taken to be
long enough. `disable` is not modelled.

`ShellExec` follows one job. Launch and poll hold the worker map's lock, so their
steps interleave only with the job's own processes, with a kill, which has given
the lock up, and with the daemon's death. `wrapper`, `rest` and `exitFile` are
what outlives a daemon; `child` is what only its parent knows. `status` is how the
command ended, whether or not it was written down. A systemd-run whose daemon dies
is taken to have registered its scope, or to have failed, before the next daemon
serves; `systemctl` itself does not fail. A job without a scope cannot be found
again.

`Machine` lets requests begin while a daemon serves, and go on while it lives.

### Broadcast

Every access to an atomic is a step. Only the producer writes and every
location's values grow, so the state of memory is the set of writes per
location, each with the view it publishes: the producer's view at its last
release fence for a relaxed store, its whole view for a release store. A reader
picks any write not older than its view; acquire loads and fences add published
views. Readers store nothing, so no load can depend on a later store and this is
all the reordering C11 allows. Event words are represented by the position they
were sent at.

`EventLog` is what a subscriber may rely on, without slots, versions or memory
order: the next event once it is sent, or word that some were missed and a later
place to go on at. A receiver of the ring that finds its copy overwritten says
nothing and stays where it is; the next look tells it that it was lapped.

### Dag

The initial states are all specs within the bounds; the initial order of the queue
is any, as a hash map's is. Jobs that become ready together join it in the order of
the spec, which the `dependents` lists have. The order `topo_sort` returns is
discarded by `validate`, so nothing is claimed of it.

## 3. What TLC checks

| Run | Instance | Shows |
|---|---|---|
| `crash` | 3 jobs (c after a), 2 nodes (one the controller's), 1 card each and room for one job, node 1 lacks a's program; 2 faults of any kind but `store` | `TypeOK`, `CardsExclusive`, `RowsExclusive`, `RowsFit`, `DepsStoredFirst`, `SuccessIsReal`, and that the rows implement `JobLifecycle` |
| `handover` | 2 jobs, 2 nodes, cancels; 1 of `crash`, `restart`, `lost`, `store`; commands may run forever | `CleanHandover`, `NeverTwice`, `VerdictFinal`, `CancelCompletes` |
| `mixed_requests` | a VRAM-only job and a one-card job, two unlike nodes with three cards each (one without VRAM), the first without b's program; 2 faults of any kind but `store`; commands end | `Conserved`, `EveryJobEnds` |
| `gpu_faults` | 1 card, on the controller's machine or a remote node, sound or not; 2 of `crash`, `restart`, `noReply`, `lost`, `late`, `slow`, `save`, `xid` | `TypeOK`, `TestAlone`, `FaultNotForgotten` |
| `gpu_returns` | the same; 1 fault of any kind but `noReply` and `save` | `FaultStops`, `CardReturns` |
| `machine` | 3 daemons, 2 of them killed, one operator, 1 job with or without scopes | `TypeOK`, `OneDaemon`, `EndedIsOver`, `CleanExitIsReal`, `StartedOnce`, `StartServes`, `EndIsAnswered` |
| `event_ring` | 4 slots, 2 words, 9 events, 1 receiver | `TypeOK`, `NeverTorn`, `InOrder`, `LapIsReal`, that the ring implements `EventLog` (`FollowsLog`), `CatchesUp` |
| `workflows` | every spec of up to 3 jobs with up to 2 dependencies | `TypeOK`, `Decides`, `BlamedIsStuck` |

Bounds. Two competing jobs and one dependent give every interaction the
scheduler has between jobs: competition for a card, waiting, skipping. A job
touches one node at a time and nodes share nothing but the controller, so one
local and one remote node show both kinds and the move between them. Two faults
allow a fault during the recovery from another. `handover` has one, to keep its
liveness check small: its three safety properties are proved for any number, and
with two faults of the kinds other than `store` TLC finds the same for all four. In
`mixed_requests` the one-card job can only start on the second node, where the
other finds room beside it, so what is free and the shares of two jobs have to add up.
The GPU check decides card by
card and its cards share only the loop, so one card shows what may happen to
any; a second would only be polled or started a moment earlier. Three daemons
are one that was killed, one killed while it cleans up after the first, and one
that serves. `machine` may stop once the starts are used up, so deadlock is not
checked there. Nine events lap four slots
twice; receivers write nothing, so one stands for all. Three jobs have every
shape of a cycle a queue can get stuck on: to itself, of two, of three, and a
job behind one.

Fairness (`FairSpec`). The scheduler loop, the handlers and the tunnel
supervisors are tasks on the tokio runtime and are weakly fair; so is restarting
the controller, which systemd does. `NodeOnline` is weakly fair: a node that
went down comes back. Faults are never fair. `EndingSpec` adds that commands
end, which a user promises, not the code; `handover` does without. In `GpuCheck`
the loop, each tunnel task, each monitor and a restart of a dead daemon are weakly
fair, tests end, and a day passes for every card again and again (strong fairness
of an `Apply` in which it has passed, since the loop comes to `Apply` over and over
but need not wait there). In `Machine` a live daemon goes on, systemd respawns, the
wrapper gets to write and exit, and a poll that is sent over and over gets the map's
lock (strong fairness: tokio's mutex is first come, first served). In the
ring, weak fairness of `try_recv` contains the C11 promise that a store becomes
visible to a thread that keeps loading.

Where a property needs a fault excluded, the code breaks it there: see the next
section, and for `store` the first two gaps listed below. `crash` and
`mixed_requests` therefore have no failed writes, and `handover` has one or a crash,
not both.

### Where the code and its documents disagree

Each is a run that TLC must find violated, with a `findings` entry.

| Run | What happens |
|---|---|
| `late_launch` | a Launch that arrives after its timeout, and after the poll that found nothing, runs on a card that is free or someone else's (README.md:17) |
| `stale_cancel` | a cancel during the polls leaves its job Failed, by the copy of `cancelling` taken before (`scheduler/mod.rs:589`) |
| `unqualified_work` | the controller restarts while a job holds a card; the check blocks a card for being untested only when nothing is booked on it, so when the job ends the next one gets the card, up to 2 s before the check that would have blocked it (`resource/health.rs:60`, README.md:112) |
| `lost_code` | a job found again after a restart writes its code and exits between `poll_scope`'s look at the file and its look at the scope: the answer is -1 and stays so (`executor/shell.rs:178`) |

Further gaps, which the passing runs leave out by their faults or bounds:

- The result of every write is ignored (`scheduler/mod.rs:261`, `ipc/server.rs:95`).
  A job's row that was not written, followed by a crash, may leave two Running rows
  on one card; recovery books both, the card's VRAM is then given back twice, and
  since it no longer equals the card's own the card is not handed out again.
- If it is the run's own row, the crash orphans the run: `unfinished_runs` selects
  from `runs` (`store/mod.rs:160`), so its jobs wait in the store forever, and those
  that run sit on cards nobody books. Two faults in `SchedulerHandover.cfg` show it.
- A crash between a launch and its Running row starts the job again on another
  node, contrary to README.md:21 (line 190 says the launch gate is still to come).
  Adding `launchCrash` to the faults of `SchedulerHandover.cfg` shows it.
- A kill that is lost is not repeated (`ipc/server.rs:290`), and the job may run
  forever; `CancelCompletes` speaks of kills that are still to be sent.
- Two starts at the same time both find nobody, and the one that gets no lock has
  taken over the other's tunnel (`main.rs:150`); a start that overlaps the end of a
  stop may lock a pid file that was just unlinked (`daemon/mod.rs:99`). A second
  operator in `Machine.cfg` shows both. `disable` while systemd is about to respawn
  leaves a daemon that no unit file tells of.
- A test cut off by a crash of the controller or by a kill that is lost, and one
  whose Launch arrives after its timeout and after a poll released its card
  (`scheduler/mod.rs:203`, 233), shares the card with whatever comes next;
  `TestAlone` names these cards (`orphaned`).
- The message of a Cycle error, "cycle detected involving job" (`dag.rs:24`), may name
  a job that only waits for one on a cycle. `BlamedIsStuck` claims what does hold,
  that the job can never run.
- A pass of a test ends a fault that was reported while it ran
  (`quarantine.rs:100`), and a fault between a result and its time stamp is not
  tested for a day (`quarantine.rs:104`).
- A kill while systemd-run sets the scope up stops nothing.

What `ps` shows of a run is derived from the rows it has. Between the row of a
success and the row that queues the next job, that is Pending although a job has
run; and a run whose submission a crash cut off is shown as Succeeded until the
job without a row is queued. `VerdictFinal` therefore claims finality of a success
only for runs that have all their rows.

## 4. What TLAPS proves

Every invariant and action property of the passing runs, and each of the two
refinements, is a theorem for every value of the constants; where the property needs
something excluded, the theorem says what. Each inductive invariant was first
checked by TLC on the instances of section 3.

### The controller

For any workflow, inventory, nodes, faults and number of faults, from the
assumptions the modules name (`JobsAssumption`, `FiniteJobs`, `InventoryAssumption`,
`FaultsAssumption`, `NodesAndCards`, `LacksAssumption`):

| Theorem | States | If |
|---|---|---|
| `TypeCorrect` | `TypeOK`; in particular no pool goes below zero | |
| `OneJobPerCard`, `OneRowPerCard` | `CardsExclusive`, `RowsExclusive` | the store keeps what is written (`"store" \notin Faults`) |
| `OneJobPerCardUnsaved` | `CardsExclusive` | the controller does not crash |
| `NothingLeaks`, `RowsAlwaysFit` | `Conserved`, `RowsFit` | the store keeps what is written |
| `NothingLeaksUnsaved` | `Conserved` | the controller does not crash |
| `VerdictsAreFinal` | `VerdictFinal` | |
| `ImplementsLifecycle` | `Scheduler` implements `JobLifecycle` | the store keeps what is written |
| `SuccessesAreReal` | `SuccessIsReal` | |
| `DependenciesFirst` | `DepsStoredFirst` | the store keeps what is written |
| `OneNodePerJob` | `NeverTwice` | no launch arrives late and no crash falls between a launch and its row (neither `late` nor `launchCrash`) |
| `HandoverIsClean` | `CleanHandover` | the same, and the store keeps what is written or the controller does not crash (not both `store` and `crash`) |

None of these conditions can be dropped. Adding `store` to the faults of
`SchedulerCrash.cfg` breaks `CardsExclusive`, `RowsExclusive`, `RowsFit`,
`Conserved`, `DepsStoredFirst` and `FollowsLifecycle`: a write that was lost,
followed by a crash, or by the start of a job that depends on it. A run's row that
was lost and a crash break `CleanHandover` (section 3). `late_launch` shows what a
late launch does, and section 3 what a crash between a launch and its row does.

`CardsExclusive` is not inductive: what is booked depends on where in a tick the
scheduler is, and after a crash on what the rows say. The invariant adds `LoopOK`
(an answer is kept only for a job that has a reservation, while launching, or an
execution, while polling), `MemOK` (a reservation belongs to a Queued job between
placement and the application of its launch, an execution to a Running one, and
a run that is still being stored has nothing in memory) and `RowOK` (a Running row
names exactly the job's execution until the job's end, waiting in `toWrite`, is
written; during recovery what is booked is what the rows taken back say; and with
a store that keeps what is written every submitted run is in `stored`).
`StepKinds` splits a step into those that touch nothing of it and one lemma per
part does the rest. The store argument is the subtle one: a row that says Running
on a card must be overwritten before another row can name the card, because a
phase starts only after the one before has written its transitions.

CPU and memory are shared, so that `Conserved` is about sums. What
`SumFunction` computes is defined by recursion, and induction over data is out of
reach. But the library has the fact that the proper subsets of a finite set are a
well-founded order, and with it arguments by a least counterexample: every part of
the jobs has a *ledger*, a function from its subsets to their sums that is the same
whichever job is counted first (`LedgerExists`), and the recursive function agrees
with any ledger (`SumByLedger`). Everything else is read off the ledger: what one
changed entry does to a sum (`SumUpdated`), that smaller entries have smaller sums
(`SumMonotone`), that zeros sum to zero. With them each step that
takes or gives back resources moves one job's share between the pool and the sum
(`Moved`, `PoolMoves`).

`Conserved` alone is not inductive, even with what `CardsExclusive` needed: recovery
books what the rows say with a subtraction that stops at zero, and then a later
release would add back more than was taken. So the invariant includes `RowsFit`,
that the Running rows of a node never ask for more than it has. And `RowsFit` is kept
because of `Conserved`: a row becomes Running only for a job that holds what the row
says, and every other Running row is covered by what its own job holds or by a
write that comes first (`ClaimFits`). Without a crash nothing is ever booked, and
`Conserved` needs nothing of the store (`NothingLeaksUnsaved`).

A verdict is final because the rows of ended jobs are: `SavedOK` says that memory
never falls behind a row that says Running or an end, whatever writes fail, so that
no later write or recovery can take an end back; what recovery still has to take
back it says of stored runs only, since the others are shown to nobody. For the
refinement that is not enough, since a write that skips a state would be a step
`JobLifecycle` does not have. `StoreOK` says that memory is ahead of a row by at
most the one transition waiting in `toWrite`, and which one that is in each phase
(`Owed`). `DepsOK` adds that what is Queued or Running, in memory or in the store,
has the successes it depends on in the store; hence the abstract guards of queueing
and skipping hold whenever the row is written, and so does `StartedOK`, which
extends them to every job a node was ever told to start, launches under way
included.

`RealOK` follows a success from the node to the row: an answer `exit0`, a job
Succeeded in memory and a row Succeeded each have the exit code on some node, and
exit codes stay. `AliveOK` says who answers for a live process: the job's
execution or the reservation its launch was made with while the controller is
up, its Running row while it is down, and nobody once a poll reported the end. The
jobs of a run without a row are the exception after a crash (`Orphan`): for
`NeverTwice` it is enough that nobody starts them again, and `NoOrphans` excludes them
where `CleanHandover` is claimed.

### The event ring

For any ring, event size and receivers, from `RingAssumption`: `RingTypes`
(`TypeOK`), `EventsWhole` (`NeverTorn`), `LapsAreReal` (`LapIsReal`),
`EventsInOrder` (`InOrder`) and `RingImplementsLog` (`FollowsLog`).

The invariant says what each write publishes (`MemoryOK`): a word carries the odd
version stored before it, an even version carries all the words before it, and
a version later than the one a receiver at p wants carries a producer position
at least a ring past p. The last is why the relaxed load in `catch_up` cannot
send a receiver backwards: the slot is overwritten only after the release fence
of the previous send, and the acquire load that saw it brought that along.

For the refinement, an event counts as sent from the release store of its even
version on, although no receiver may see it for long after. `PublishedOK` says that
no even version exists beyond that, hence that a receiver is given only events that
are sent. A lap told to a receiver is a `Skip` because the version that told it is
a ring past it, and goes forward by the argument above; every other step of
`try_recv` changes nothing of the log.

### The GPU check

For any nodes, cards and faults, from `CardsAssumption` and `GpuFaultsAssumption`:

- `GpuTypes`: `TypeOK`. Two facts carry it: a reading has all cards of its node,
  since it is made in one step, and a stray test is counted down only when there is
  one.
- `FaultsRemembered`: `FaultNotForgotten`. The invariant adds that a
  suspect card without a quarantine has no result waiting for its time stamp
  either, and that a daemon that is down has left nothing behind in memory. It
  speaks of the monitor alone; `StepKinds` shows that the controller reaches it
  only through `record_test` and the starts and deaths of daemons.
- `CardsUnderTest`: `TestAlone`. The invariant adds that a test about to
  be started does not run, and that one given up while it runs or while its Launch
  is under way is orphaned.

### Daemons and their job

For any number of starts, deaths and operators, from `DaemonAssumption`:

- `MachineTypes`: `TypeOK`.
- `EndedJobsAreOver`, `CleanExitsAreReal`, `CommandsStartOnce`: `EndedIsOver`,
  `CleanExitIsReal`, `StartedOnce`. The invariant, `JobInv`, says what the holder of
  the worker map's lock may rely on at each step (`OpInv`); that the two looks of
  `find`, at the scope and at the exit file, together show that nothing of the job
  was ever started or left (`StartInv`: a wrapper that is gone by the second look has
  written its file before the first); and that the file, `waitpid` and the answer
  tell the same end (`EndInv`).
- `OneDaemonAtATime`: `OneDaemon`, for one operator. `AloneInv` says which of
  systemd, the operator's command and the socket leads to the daemon that lives,
  so that a start finds it; `FilesInv` that nobody moves its files. With two
  operators it is false (section 3).

### Workflow validation

For any ids and any number of jobs and dependencies (`DagBounds`): `DagTypes`
(`TypeOK`: the unsigned `in_degree` is never taken below zero), `ValidateDecides`
(`Decides`) and `BlamedNeverRun` (`BlamedIsStuck`). The invariant is `SortOK`: a
job's `in_degree` counts the listed dependencies that are not ordered, repetitions
included; queue and order hold exactly the jobs that wait for none, each once; and
every ordered job comes after all it depends on. If all are ordered, the order is
the numbering that `Orderable` asks for. If not, take a numbering of some part of
the workflow and, of the jobs in it left over, the one with the least number: it
waits for a job left over with a smaller one.

### Only model-checked

- What holds under fairness: `EveryJobEnds` (of a store that keeps what is written),
  `CancelCompletes`, `FaultStops`, `CardReturns`, `CatchesUp`, `StartServes`,
  `EndIsAnswered`. Fairness and `ENABLED` are out of the prover's reach.

## 5. Not modelled

- An inventory that changes between restarts: `book` saturates and skips cards that
  are gone while `release` adds everything back (`pool.rs:46`). `RowsFit` shows that
  this cannot happen with the inventory the jobs were placed in; with a smaller one
  it can, and the pools' invariants would say nothing after.
- Runs stored without a spec by an earlier release.
- `disable`, and the file of nodes, which a running daemon does not read.
- A request that hangs: `Node::request` has no timeout (`node.rs:51`), so a node
  that accepts and never answers stops the loop. In the model it is answered,
  refused or lost.
- Argument parsing, printing, message formats and paths; discovery, which reads the
  inventory once; the arithmetic of the CUDA kernels; the benchmark.

## 6. Plan

Done, in this order: `Resources`, `Worker`, `Scheduler`, `JobLifecycle`, the
scheduler's runs and its first three theorems; `Broadcast` with its theorems; `Dag`;
`GpuMonitor`, `Tunnel`, `GpuCheck` with its theorems; `Daemon`, `ShellExec`,
`Machine`. Then the proofs: `LifecycleProofs` and `HandoverProofs` over the
invariant of `SchedulerProofs`, `MachineProofs`, the types of `GpuCheck` and
`DagProofs`; at last `ConservationProofs`, and `EventLog` with the proof that the
ring implements it.

What is left to prove: `CleanHandover` with crashes between a launch and its row
admitted, for the jobs and cards such a crash did not hit; `OneDaemon` for the
interleavings of two operators that do not start at the same time. Both need a
history of what went wrong in the model before they can be stated.
