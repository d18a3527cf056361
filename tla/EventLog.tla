------------------------------ MODULE EventLog ------------------------------
(***************************************************************************)
(* What the event channel promises its subscribers.  Events are numbered   *)
(* in the order they are sent.  A receiver is given whole events, each the *)
(* one after the last it was given, unless the sender has begun a full     *)
(* ring beyond it: then it goes on at some later event, and counts that.   *)
(* Nothing of slots, versions or memory order shows.                       *)
(***************************************************************************)
EXTENDS Integers

CONSTANTS
    Capacity,   \* how far behind the sender a receiver may fall
    Word,       \* the words of an event
    Receiver    \* the receivers that may subscribe

VARIABLES
    begun,      \* how many events the sender has begun to send
    done,       \* how many of them are sent
    next,       \* next[r]: the event r is to be given, -1 before it subscribes
    laps,       \* laps[r]: how often r was told that it missed events
    last        \* last[r]: the last event r was given

logVars == <<begun, done, next, laps, last>>

\* Event number p.
Sent(p) == [pos |-> p, words |-> [i \in Word |-> p]]

Init ==
    /\ begun = 0 /\ done = 0
    /\ next = [r \in Receiver |-> -1]
    /\ laps = [r \in Receiver |-> 0]
    /\ last = [r \in Receiver |-> Sent(-1)]

\* One event is sent at a time.
Begin ==
    /\ begun = done
    /\ begun' = begun + 1
    /\ UNCHANGED <<done, next, laps, last>>

Finish ==
    /\ done < begun
    /\ done' = begun
    /\ UNCHANGED <<begun, next, laps, last>>

\* A receiver starts no later than the event being sent.
Subscribe(r) ==
    /\ next[r] = -1
    /\ \E p \in 0..begun : next' = [next EXCEPT ![r] = p]
    /\ UNCHANGED <<begun, done, laps, last>>

\* The next event, once it is sent.
Receive(r) ==
    /\ next[r] \in 0..(done - 1)
    /\ last' = [last EXCEPT ![r] = Sent(next[r])]
    /\ next' = [next EXCEPT ![r] = @ + 1]
    /\ UNCHANGED <<begun, done, laps>>

\* Events are missed.
Skip(r) ==
    /\ next[r] >= 0
    /\ begun > next[r] + Capacity
    /\ \E p \in (next[r] + 1)..(begun - 1) : next' = [next EXCEPT ![r] = p]
    /\ laps' = [laps EXCEPT ![r] = @ + 1]
    /\ UNCHANGED <<begun, done, last>>

Next == Begin \/ Finish \/ \E r \in Receiver : Subscribe(r) \/ Receive(r) \/ Skip(r)

Spec == Init /\ [][Next]_logVars
=============================================================================
