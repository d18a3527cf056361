-------------------------------- MODULE Daemon --------------------------------
(***************************************************************************)
(* The daemon process of one machine, from roster start to its end, and    *)
(* the commands that start and stop it.                                    *)
(*                                                                         *)
(* A starting daemon asks whether another one answers, opens its tunnels,  *)
(* locks the pid file, removes a socket left behind, takes its runs back,  *)
(* and binds the socket.  A stopping one drains its connections and        *)
(* removes both files by name before it exits.  The lock is on the file    *)
(* that was opened, which may no longer be the one of that name.  Once     *)
(* enabled, the daemon is a systemd service, and one that fails is started *)
(* again.                                                                  *)
(*                                                                         *)
(* The deadlines of the commands, 60 s for a start and 10 s for a stop,    *)
(* are taken to be long enough.                                            *)
(***************************************************************************)
EXTENDS Naturals, FiniteSets

CONSTANTS
    Operators,   \* who runs roster start, stop and restart
    MaxStarts,   \* bound: how many daemon processes are started
    MaxCrashes   \* bound: how many of them are killed

ASSUME DaemonAssumption == MaxStarts \in Nat /\ MaxCrashes \in Nat

Daemons == 1..MaxStarts

VARIABLES
    at,       \* at[d]: what daemon process d does
    pidFile,  \* the file of the pid file's name: the daemon that made it, or 0
    opened,   \* opened[d]: the file d opened as the pid file
    locks,    \* the daemons holding the lock of the file they opened
    socket,   \* the daemon whose socket has the socket's name, or 0
    tunnel,   \* the daemon whose ssh bound the tunnel's local end last, or 0
    op,       \* op[o]: the command of operator o, and its daemon
    enabled,  \* roster enable has written the unit file
    managed,  \* the daemon systemd started last, until it exits cleanly, or 0
    crashes   \* how many daemons were killed

daemonVars == <<at, pidFile, opened, locks, socket, tunnel, op, enabled, managed, crashes>>

Starting == {"ask", "connect", "open", "lock", "unlink", "recover", "bind"}
Alive == Starting \cup {"serve", "drain", "rmPid", "rmSocket"}
Command == [do : {"idle", "waiting", "stopping"}, daemon : 0..MaxStarts]
Idle == [do |-> "idle", daemon |-> 0]

DaemonTypeOK ==
    /\ at \in [Daemons -> Alive \cup {"new", "gone"}]
    /\ pidFile \in 0..MaxStarts /\ socket \in 0..MaxStarts /\ tunnel \in 0..MaxStarts
    /\ opened \in [Daemons -> 0..MaxStarts]
    /\ locks \subseteq Daemons
    /\ op \in [Operators -> Command]
    /\ enabled \in BOOLEAN /\ managed \in 0..MaxStarts
    /\ crashes \in 0..MaxCrashes

DaemonInit ==
    /\ at = [d \in Daemons |-> "new"]
    /\ pidFile = 0 /\ socket = 0 /\ tunnel = 0
    /\ opened = [d \in Daemons |-> 0] /\ locks = {}
    /\ op = [o \in Operators |-> Idle]
    /\ enabled = FALSE /\ managed = 0
    /\ crashes = 0

\* The daemon a client reaches through the socket's name, if one serves there.
Serving == {d \in Daemons : at[d] = "serve" /\ socket = d}

\* Daemons that passed the lock and have not begun to shut down.
Running == {d \in Daemons : at[d] \in {"unlink", "recover", "bind", "serve"}}

-----------------------------------------------------------------------------
(* start --foreground *)

Goto(d, place) == at' = [at EXCEPT ![d] = place]

\* The process ends; the kernel drops its lock, and its ssh dies with it.
Exit(d) == Goto(d, "gone") /\ locks' = locks \ {d}

\* daemon_info finds nobody.  A daemon that answers ends the start, and so does
\* one that drains: it still listens and never answers.
NobodyListens == \A d \in Daemons : socket = d => at[d] \notin {"serve", "drain"}

Ask(d) ==
    /\ at[d] = "ask"
    /\ IF NobodyListens THEN Goto(d, "connect") /\ UNCHANGED locks ELSE Exit(d)
    /\ UNCHANGED <<pidFile, opened, socket, tunnel, op, enabled, managed, crashes>>

\* connect: ssh unlinks and binds the local end of the tunnel.
Connect(d) ==
    /\ at[d] = "connect"
    /\ Goto(d, "open")
    /\ tunnel' = d
    /\ UNCHANGED <<pidFile, opened, locks, socket, op, enabled, managed, crashes>>

\* lock_pid_file opens the file, or makes it, ...
OpenPidFile(d) ==
    /\ at[d] = "open"
    /\ Goto(d, "lock")
    /\ pidFile' = IF pidFile = 0 THEN d ELSE pidFile
    /\ opened' = [opened EXCEPT ![d] = pidFile']
    /\ UNCHANGED <<locks, socket, tunnel, op, enabled, managed, crashes>>

\* Whether flock succeeds: no process has the same file locked.
CanLock(d) == \A e \in locks : opened[e] # opened[d]

\* ... and locks it, or gives up at once.
LockPidFile(d) ==
    /\ at[d] = "lock"
    /\ IF CanLock(d) THEN Goto(d, "unlink") /\ locks' = locks \cup {d} ELSE Exit(d)
    /\ UNCHANGED <<pidFile, opened, socket, tunnel, op, enabled, managed, crashes>>

\* Slip: a socket left by a crash is left alone.
StaleSocketGone_Kept == socket

\* cleanup_stale_socket removes whatever has the socket's name.
StaleSocketGone == 0

cleanup_stale_socket(d) ==
    /\ at[d] = "unlink"
    /\ Goto(d, "recover")
    /\ socket' = StaleSocketGone
    /\ UNCHANGED <<pidFile, opened, locks, tunnel, op, enabled, managed, crashes>>

\* The store is opened and the runs are taken back.
Recover(d) ==
    /\ at[d] = "recover"
    /\ Goto(d, "bind")
    /\ UNCHANGED <<pidFile, opened, locks, socket, tunnel, op, enabled, managed, crashes>>

\* Bind fails on a name that is taken, and the daemon cleans up and exits.
Bind(d) ==
    /\ at[d] = "bind"
    /\ IF socket = 0 THEN Goto(d, "serve") /\ socket' = d ELSE Goto(d, "rmPid") /\ UNCHANGED socket
    /\ UNCHANGED <<pidFile, opened, locks, tunnel, op, enabled, managed, crashes>>

\* In-flight connections are drained for up to 5 s; then cleanup removes the
\* pid file and the socket, by name.
Drained(d) ==
    /\ at[d] = "drain"
    /\ Goto(d, "rmPid")
    /\ UNCHANGED <<pidFile, opened, locks, socket, tunnel, op, enabled, managed, crashes>>

RemovePidFile(d) ==
    /\ at[d] = "rmPid"
    /\ Goto(d, "rmSocket")
    /\ pidFile' = 0
    /\ UNCHANGED <<opened, locks, socket, tunnel, op, enabled, managed, crashes>>

RemoveSocket(d) ==
    /\ at[d] = "rmSocket"
    /\ Exit(d)
    /\ socket' = 0
    /\ managed' = IF managed = d THEN 0 ELSE managed
    /\ UNCHANGED <<pidFile, opened, tunnel, op, enabled, crashes>>

\* A daemon is killed outright and leaves its files behind.
Killed(d) ==
    /\ at[d] \in Alive
    /\ crashes < MaxCrashes
    /\ crashes' = crashes + 1
    /\ Exit(d)
    /\ UNCHANGED <<pidFile, opened, socket, tunnel, op, enabled, managed>>

RunDaemon(d) ==
    \/ Ask(d) \/ Connect(d) \/ OpenPidFile(d) \/ LockPidFile(d) \/ cleanup_stale_socket(d)
    \/ Recover(d) \/ Bind(d) \/ Drained(d) \/ RemovePidFile(d) \/ RemoveSocket(d)

-----------------------------------------------------------------------------
(* roster start, stop and restart *)

Spawned(d) == at[d] = "new" /\ (\A e \in 1..(d - 1) : at[e] # "new") /\ Goto(d, "ask")

\* start: nothing to do when a daemon answers; else spawn one and wait for it.
Start(o) ==
    /\ op[o] = Idle /\ ~enabled
    /\ NobodyListens
    /\ \E d \in Daemons : Spawned(d) /\ op' = [op EXCEPT ![o] = [do |-> "waiting", daemon |-> d]]
    /\ UNCHANGED <<pidFile, opened, locks, socket, tunnel, enabled, managed, crashes>>

\* enable, after a Stop of a daemon that answers, and start once enabled:
\* systemd starts the daemon unless it runs it already.
StartUnit(o) ==
    /\ op[o] = Idle
    /\ NobodyListens
    /\ enabled' = TRUE
    /\ IF managed # 0 /\ at[managed] # "gone"
       THEN UNCHANGED <<at, managed>>
       ELSE \E d \in Daemons : Spawned(d) /\ managed' = d
    /\ op' = [op EXCEPT ![o] = [do |-> "waiting", daemon |-> 0]]
    /\ UNCHANGED <<pidFile, opened, locks, socket, tunnel, crashes>>

\* Restart=on-failure: systemd starts a daemon that failed again.
Respawn ==
    /\ managed # 0 /\ at[managed] = "gone"
    /\ \E d \in Daemons : Spawned(d) /\ managed' = d
    /\ UNCHANGED <<pidFile, opened, locks, socket, tunnel, op, enabled, crashes>>

\* wait_for_daemon ends when a daemon answers or the one it spawned is gone.
Waited(o) ==
    /\ op[o].do = "waiting"
    /\ Serving # {} \/ (op[o].daemon # 0 /\ at[op[o].daemon] = "gone")
    /\ op' = [op EXCEPT ![o] = Idle]
    /\ UNCHANGED <<at, pidFile, opened, locks, socket, tunnel, enabled, managed, crashes>>

\* stop: ask the daemon for its pid and signal it; one that does not serve yet
\* or no longer is not found.
Stop(o) ==
    /\ op[o] = Idle
    /\ \E d \in Serving :
          /\ Goto(d, "drain")
          /\ op' = [op EXCEPT ![o] = [do |-> "stopping", daemon |-> d]]
    /\ UNCHANGED <<pidFile, opened, locks, socket, tunnel, enabled, managed, crashes>>

\* Slip: stop returns once the daemon no longer answers.
StopOver_Silent(d) == at[d] \notin {"serve", "drain"}

\* stop waits until that process is gone.
StopOver(d) == at[d] = "gone"

Stopped(o) ==
    /\ op[o].do = "stopping"
    /\ StopOver(op[o].daemon)
    /\ op' = [op EXCEPT ![o] = Idle]
    /\ UNCHANGED <<at, pidFile, opened, locks, socket, tunnel, enabled, managed, crashes>>

Operate(o) == Start(o) \/ StartUnit(o) \/ Waited(o) \/ Stop(o) \/ Stopped(o)

-----------------------------------------------------------------------------
(* Properties *)

\* One daemon at a time: the lock, the two files and the tunnel belong to the
\* daemon that runs, although a crash leaves files behind and a shutdown
\* removes them by name.
OneDaemon ==
    /\ Cardinality(Running) <= 1
    /\ \A d \in Running : pidFile = opened[d] /\ tunnel = d
    /\ \A d \in Daemons : at[d] = "serve" => socket = d

\* A daemon that was started serves, or is killed, whatever a crash before it
\* left behind; and once enabled a daemon that was killed comes back, while the
\* bound on starts leaves one.
StartServes ==
    \A k \in 0..MaxCrashes :
       (/\ crashes = k
        /\ \/ \E d \in Daemons : at[d] \in Starting
           \/ managed # 0 /\ at[managed] = "gone" /\ \E d \in Daemons : at[d] = "new")
       ~> (Serving # {} \/ crashes > k)
=============================================================================
