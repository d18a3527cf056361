-------------------------------- MODULE Tunnel --------------------------------
(***************************************************************************)
(* The controller's ssh tunnels: one task per remote node restarts ssh     *)
(* when it exits and asks the node's daemon for its info every 2 s.  The   *)
(* answer carries the readings of the node's cards.                        *)
(*                                                                         *)
(* A state takes effect in two steps: the flag that the scheduler reads    *)
(* first, then the health record behind its lock.  Between the daemon's    *)
(* answer and those steps anything may happen, also to the flag, which a   *)
(* failed request of the scheduler clears.                                 *)
(***************************************************************************)
EXTENDS GpuMonitor

VARIABLES
    local,    \* the nodes that are the controller's own machine; never changes
    upgraded, \* nodes whose daemon runs another version than the controller
    ssh,      \* ssh[n]: "up", "exited" or "backoff" before the next start
    online,   \* the nodes whose flag is set
    health,   \* health[n]: the readings last heard of, or {}
    check     \* check[n]: where the health check is, and what it got

tunnelVars == <<local, upgraded, ssh, online, health, check>>

\* A set of readings of a node's cards: at most one function of them.
Readings(n) == {{}} \cup {{r} : r \in [Of(n) -> Reading]}
NodeState == {"Online", "TunnelDown", "DaemonDown", "NoReply", "VersionMismatch"}
Checked(n) == [at : {"answered", "flagged"}, state : NodeState, info : Readings(n)]
NoCheck == [at |-> "idle", state |-> "Online", info |-> {}]

TunnelTypeOK ==
    /\ local \subseteq Node /\ upgraded \subseteq Node /\ online \subseteq Node
    /\ ssh \in [Node -> {"up", "exited", "backoff"}]
    /\ \A n \in Node : health[n] \in Readings(n)
    /\ \A n \in Node : check[n] \in Checked(n) \cup {NoCheck}

\* The readings a node's daemon would answer with.
ReadAll(n) == [g \in Of(n) |-> read(g)]

\* connect: every node answered with its info.
TunnelInit ==
    /\ local \in SUBSET Node
    /\ upgraded = {}
    /\ ssh = [n \in Node |-> "up"]
    /\ online = Node
    /\ health = [n \in Node |-> IF n \in local THEN {} ELSE {ReadAll(n)}]
    /\ check = [n \in Node |-> NoCheck]

-----------------------------------------------------------------------------
(* The health check *)

\* What a check finds that reaches the node.
Found(n) ==
    CASE n \notin daemon  -> [at |-> "answered", state |-> "DaemonDown", info |-> {}]
      [] n \in upgraded   -> [at |-> "answered", state |-> "VersionMismatch", info |-> {ReadAll(n)}]
      [] OTHER            -> [at |-> "answered", state |-> "Online", info |-> {ReadAll(n)}]

\* Every 2 s; an exit of ssh is noticed before the next check is due.
Check(n) ==
    /\ n \notin local
    /\ check[n] = NoCheck /\ ssh[n] = "up"
    /\ n \in daemon => Unlocked(n)
    /\ check' = [check EXCEPT ![n] = Found(n)]
    /\ UNCHANGED <<local, upgraded, ssh, online, health>>

\* The socket of the tunnel is gone, or no answer comes within 3 s.
CheckFails(n) ==
    /\ n \notin local
    /\ check[n] = NoCheck /\ ssh[n] = "up"
    /\ \E state \in {"TunnelDown", "NoReply"} :
          check' = [check EXCEPT ![n] = [at |-> "answered", state |-> state, info |-> {}]]
    /\ UNCHANGED <<local, upgraded, ssh, online, health>>

\* set_state: the flag first ...
SetOnline(n) ==
    /\ check[n].at = "answered"
    /\ online' = IF check[n].state = "Online" THEN online \cup {n} ELSE online \ {n}
    /\ check' = [check EXCEPT ![n].at = "flagged"]
    /\ UNCHANGED <<local, upgraded, ssh, health>>

\* Health::enter keeps the last answer when there is no new one.
enter(n, info) == IF info = {} THEN health[n] ELSE info

\* ... then the health record; after an exit of ssh the task waits out its
\* backoff before it starts ssh again.
SetHealth(n) ==
    /\ check[n].at = "flagged"
    /\ health' = [health EXCEPT ![n] = enter(n, check[n].info)]
    /\ check' = [check EXCEPT ![n] = NoCheck]
    /\ UNCHANGED <<local, upgraded, ssh, online>>

-----------------------------------------------------------------------------
(* The ssh process *)

\* ssh exits: the connection broke, or its keep-alives went unanswered.
SshExits(n) ==
    /\ n \notin local /\ ssh[n] = "up"
    /\ ssh' = [ssh EXCEPT ![n] = "exited"]
    /\ UNCHANGED <<local, upgraded, online, health, check>>

\* The task notices between two checks.
ssh_exited(n) ==
    /\ check[n] = NoCheck
    /\ ssh[n] = "exited"
    /\ ssh' = [ssh EXCEPT ![n] = "backoff"]
    /\ check' = [check EXCEPT ![n] = [at |-> "answered", state |-> "TunnelDown", info |-> {}]]
    /\ UNCHANGED <<local, upgraded, online, health>>

\* The backoff is over: ssh starts, or fails to and is found to have exited.
spawn(n, result) ==
    /\ check[n] = NoCheck
    /\ ssh[n] = "backoff"
    /\ ssh' = [ssh EXCEPT ![n] = result]
    /\ UNCHANGED <<local, upgraded, online, health, check>>

-----------------------------------------------------------------------------
(* Requests of the scheduler *)

\* A request goes through: ssh runs and the daemon is there to answer it.
Reaches(n) == n \in local \/ (ssh[n] = "up" /\ n \in daemon)

\* A request that failed marks its node offline until a check passes.
lost(n) == online' = online \ {n} /\ UNCHANGED <<local, upgraded, ssh, health, check>>
=============================================================================
