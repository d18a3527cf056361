---------------------------- MODULE JobLifecycle ----------------------------
(***************************************************************************)
(* What the controller promises about the recorded state of the jobs of a  *)
(* workflow: each moves along Pending, Queued, Running to one end, is      *)
(* queued only after everything it depends on succeeded, is skipped only   *)
(* because something it depends on ended otherwise, and never leaves an    *)
(* end.  No crash, restart or lost message shows.                          *)
(***************************************************************************)
CONSTANTS
    Job,   \* the jobs of the workflow
    Deps   \* Deps[j]: the jobs j depends on

VARIABLE status

Bad == {"Failed", "Skipped", "Cancelled", "TimedOut", "Interrupted"}

Become(j, s) == status' = [status EXCEPT ![j] = s]

Init == status = [j \in Job |-> "Pending"]

Queue(j) ==
    /\ status[j] = "Pending"
    /\ \A d \in Deps[j] : status[d] = "Succeeded"
    /\ Become(j, "Queued")

Skip(j) ==
    /\ status[j] = "Pending"
    /\ \E d \in Deps[j] : status[d] \in Bad
    /\ Become(j, "Skipped")

\* A queued job starts, or no node takes it.
Start(j) == status[j] = "Queued" /\ (Become(j, "Running") \/ Become(j, "Failed"))

End(j) ==
    /\ status[j] = "Running"
    /\ \E s \in {"Succeeded", "Failed", "Cancelled", "Interrupted"} : Become(j, s)

Next == \E j \in Job : Queue(j) \/ Skip(j) \/ Start(j) \/ End(j)

Spec == Init /\ [][Next]_status
=============================================================================
