------------------------------- MODULE Machine -------------------------------
(***************************************************************************)
(* A machine: its daemon, which comes and goes, and a job, which stays.    *)
(* The operations of the shell executor and the worker map are begun while *)
(* the daemon serves, go on while it lives, and are lost with it.          *)
(*                                                                         *)
(* roster stop refuses while jobs run that would not outlive the daemon,   *)
(* unless forced; here it may always be forced.                            *)
(***************************************************************************)
EXTENDS Daemon, ShellExec

vars == <<daemonVars, execVars>>

TypeOK == DaemonTypeOK /\ ExecTypeOK

Init == DaemonInit /\ ExecInit

\* The daemon that has the worker map in its memory.
Hosts(d) == at[d] \in {"serve", "drain", "rmPid", "rmSocket"}

\* What d's next step, or its death, does to the job's side.
Takes(d, ends) == IF Hosts(d) /\ ends THEN DaemonEnds ELSE UNCHANGED execVars

DaemonStep(d) ==
    \/ RunDaemon(d) /\ Takes(d, at[d] = "rmSocket")
    \/ Killed(d) /\ Takes(d, TRUE)

Managing == (Respawn \/ \E o \in Operators : Operate(o)) /\ UNCHANGED execVars

\* A request arrives, and is carried out.
Request == Serving # {} /\ BeginOp /\ UNCHANGED daemonVars
Working == (\E d \in Daemons : Hosts(d)) /\ OpStep /\ UNCHANGED daemonVars

Next ==
    \/ \E d \in Daemons : DaemonStep(d)
    \/ Managing
    \/ Request \/ Working
    \/ JobStep /\ UNCHANGED daemonVars

Spec == Init /\ [][Next]_vars

\* A live process goes on, systemd restarts what failed, the wrapper gets to
\* write and exit, and a controller that waits for a job polls it over and
\* over; nobody has to start, stop, launch or kill anything.
Fairness ==
    /\ \A d \in Daemons : WF_vars(RunDaemon(d) /\ Takes(d, at[d] = "rmSocket"))
    /\ WF_vars(Respawn /\ UNCHANGED execVars)
    /\ WF_vars(Working)
    /\ SF_vars(Serving # {} /\ BeginPoll /\ UNCHANGED daemonVars)
    /\ WF_vars((SetupDone \/ WrapperExits) /\ UNCHANGED daemonVars)

FairSpec == Spec /\ Fairness

-----------------------------------------------------------------------------
(* Properties *)

\* A job that has ended, and left its code or its entry in the map, is answered
\* as ended while a daemon serves, even to a daemon that never started it.
EndIsAnswered ==
    (/\ scopes
     /\ wrapper = "gone" /\ ~rest /\ child # "setup"
     /\ exitFile # "none" \/ handle # "none")
    ~> (answer # "none" \/ Serving = {})
=============================================================================
