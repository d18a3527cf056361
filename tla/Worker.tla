-------------------------------- MODULE Worker --------------------------------
(***************************************************************************)
(* The node side: the processes a node's shell executor starts, and the    *)
(* worker map through which a node daemon answers Launch, Poll and Kill.   *)
(*                                                                         *)
(* A job's processes live in a systemd scope named after the job, and a    *)
(* wrapper writes the exit code to a file once the command ends, so both   *)
(* outlive the daemon.  The worker map does not.  The controller's own     *)
(* machine uses the shell executor directly and has no entry in the map.   *)
(***************************************************************************)
EXTENDS Integers, FiniteSets

CONSTANTS
    Job,      \* the jobs, as (run_id, job_id) pairs
    Node,     \* node indices, in nodes.yaml order
    Card,     \* GPU indices
    Lacks     \* Lacks[n]: jobs whose program node n does not have

ASSUME NodesAndCards == Node \subseteq Nat /\ Card \subseteq Nat
ASSUME LacksAssumption == Lacks \in [Node -> SUBSET Job]

VARIABLES
    proc,      \* proc[n][j]: the scope and the exit file of job j on node n
    processes  \* processes[n]: the jobs in node n's worker map

workerVars == <<proc, processes>>

\* How a command ends: with code 0, with another code, or by a signal, which
\* the shell reports as 129..192 and read_exit_code turns into -1.
ExitStatus == {"exit0", "exitN", "signal"}

\* alive: the scope holds a process; exit: what the exit file says;
\* gpus: the cards the live processes were given.
Process == [alive : BOOLEAN, exit : ExitStatus \cup {"none"}, gpus : SUBSET Card]
NoProcess == [alive |-> FALSE, exit |-> "none", gpus |-> {}]

WorkerTypeOK ==
    /\ proc \in [Node -> [Job -> Process]]
    /\ processes \in [Node -> SUBSET Job]

WorkerInit ==
    /\ proc = [n \in Node |-> [j \in Job |-> NoProcess]]
    /\ processes = [n \in Node |-> {}]

-----------------------------------------------------------------------------
(* The shell executor *)

\* A job started earlier is found by its scope or by its exit file.
find(n, j) == proc[n][j].alive \/ proc[n][j].exit # "none"

Reply == {"ok", "rejected", "error"}

\* Start the job unless it is found; a node without its program rejects it.
\* A log file or spawn failure starts nothing.
ShellLaunch(n, j, gpus, reply) ==
    \/ /\ find(n, j)
       /\ reply = "ok"
       /\ UNCHANGED proc
    \/ /\ ~find(n, j)
       /\ j \in Lacks[n]
       /\ reply = "rejected"
       /\ UNCHANGED proc
    \/ /\ ~find(n, j)
       /\ j \notin Lacks[n]
       /\ \/ /\ reply = "ok"
             /\ proc' = [proc EXCEPT ![n][j] = [alive |-> TRUE, exit |-> "none", gpus |-> gpus]]
          \/ /\ reply = "error"
             /\ UNCHANGED proc

\* Stopping a scope ends every process in it and leaves the exit file alone.
StopScope(n, j) == proc' = [proc EXCEPT ![n][j] = [@ EXCEPT !.alive = FALSE, !.gpus = {}]]

\* Slip: a scope found empty without a code counts as a clean exit.
poll_scope_EmptyIsZero(p) ==
    IF p.exit # "none" THEN p.exit ELSE IF p.alive THEN "running" ELSE "exit0"

\* What poll_scope reports through a handle: the code once the wrapper wrote it,
\* running while the scope holds a process, else ended without a code.
poll_scope(p) ==
    IF p.exit # "none" THEN p.exit ELSE IF p.alive THEN "running" ELSE "signal"

\* Slip: what the command left behind is not stopped.
ShellPoll_LeavesScope(n, j, answer) == answer = poll_scope(proc[n][j]) /\ UNCHANGED proc

\* A poll that finds the exit code stops the scope before it answers.
ShellPoll(n, j, answer) ==
    /\ answer = poll_scope(proc[n][j])
    /\ IF proc[n][j].exit # "none" THEN StopScope(n, j) ELSE UNCHANGED proc

-----------------------------------------------------------------------------
(* The worker map *)

Worker_launch(n, j, gpus, reply) ==
    \/ /\ j \in processes[n]
       /\ reply = "ok"
       /\ UNCHANGED workerVars
    \/ /\ j \notin processes[n]
       /\ ShellLaunch(n, j, gpus, reply)
       /\ processes' = IF reply = "ok" THEN [processes EXCEPT ![n] = @ \cup {j}] ELSE processes

\* The job's entry, made from its scope or exit file when the map has none.
known(n, j) == j \in processes[n] \/ find(n, j)

Worker_poll(n, j, answer) ==
    \/ /\ known(n, j)
       /\ ShellPoll(n, j, answer)
       /\ processes' = [processes EXCEPT ![n] = @ \cup {j}]
    \/ /\ ~known(n, j)
       /\ answer = "error"
       /\ UNCHANGED workerVars

\* Slip: a kill reaches only the jobs in the map, not those a restart forgot.
Worker_kill_MapOnly(n, j) ==
    \/ j \in processes[n] /\ StopScope(n, j) /\ UNCHANGED processes
    \/ j \notin processes[n] /\ UNCHANGED workerVars

Worker_kill(n, j) ==
    \/ /\ known(n, j)
       /\ StopScope(n, j)
       /\ processes' = [processes EXCEPT ![n] = @ \cup {j}]
    \/ /\ ~known(n, j)
       /\ UNCHANGED workerVars

-----------------------------------------------------------------------------
(* What happens on a node by itself *)

\* The command ends and the wrapper writes its code; processes it left behind
\* may go on in the scope.
ProcExit(n, j) ==
    /\ proc[n][j].alive
    /\ proc[n][j].exit = "none"
    /\ \E status \in ExitStatus, left \in BOOLEAN :
          proc' = [proc EXCEPT ![n][j] = [alive |-> left, exit |-> status,
                                          gpus |-> IF left THEN @.gpus ELSE {}]]
    /\ UNCHANGED processes

\* Every process of the scope is gone, and no code gets written: the kernel
\* killed the wrapper, or what was left behind ended.
ProcGone(n, j) ==
    /\ proc[n][j].alive
    /\ StopScope(n, j)
    /\ UNCHANGED processes

\* The node daemon restarts: the map is empty, scopes and exit files remain.
WorkerRestart(n) ==
    /\ processes' = [processes EXCEPT ![n] = {}]
    /\ UNCHANGED proc
=============================================================================
