------------------------------ MODULE Broadcast ------------------------------
(***************************************************************************)
(* The lock-free ring that fans job events out from the scheduler to its   *)
(* subscribers: one producer, any number of receivers, a version per slot  *)
(* that encodes the position written there.                                *)
(*                                                                         *)
(* Memory is that of C11 atomics, which the code is written for.  Only the *)
(* producer writes and the values of a location only grow, so a location's *)
(* modification order is the order of its values.  A write carries the     *)
(* view it publishes: how far the producer had got in every location at    *)
(* its last release fence, or at the write itself for a release store.  A  *)
(* thread may read any write not older than its own view; an acquire adds  *)
(* the views of what it read to its own.                                   *)
(*                                                                         *)
(* The words of the event sent at position p all read as p, and as -1      *)
(* before the first send to their slot.                                    *)
(***************************************************************************)
EXTENDS Integers

CONSTANTS
    Capacity,   \* slots of the ring
    Words,      \* words of an event
    Receiver,   \* the receivers that may subscribe
    MaxSends    \* bound: how many events are sent

ASSUME RingAssumption == Capacity \in Nat \ {0, 1} /\ Words \in Nat \ {0} /\ MaxSends \in Nat

Slot == 0..(Capacity - 1)
Word == 0..(Words - 1)

producer == <<"producer", 0, 0>>
version(p) == <<"version", p % Capacity, 0>>
word(p, i) == <<"word", p % Capacity, i>>
Loc == {producer} \cup ({"version"} \X Slot \X {0}) \cup ({"word"} \X Slot \X Word)

View == [Loc -> Int]
Write == [val : Int, view : View]
Join(v, w) == [l \in Loc |-> IF v[l] >= w[l] THEN v[l] ELSE w[l]]

VARIABLES
    memory,     \* memory[l]: the writes to location l
    own,        \* the producer's view: the newest value of every location
    released,   \* the producer's view at its last release fence
    sending,    \* "idle", "claimed", or "writing" an event
    pos,        \* the position being written
    stored,     \* how many words of it are stored
    state,      \* state[r]: "none" before it subscribes, "ready", "lapped" or "reading"
    rpos,       \* the receiver's pos
    laps,       \* the receiver's laps
    view,       \* the receiver's view
    pending,    \* the views of the relaxed loads an acquire fence would add
    staged,     \* the words loaded so far
    loaded,     \* how many
    got         \* the position and the words of the last event returned

sendVars == <<memory, own, released, sending, pos, stored>>
recvVars == <<state, rpos, laps, view, pending, staged, loaded, got>>
vars == <<sendVars, recvVars>>

NoWords == [i \in Word |-> -1]
Event == [pos : Int, words : [Word -> Int]]
NoEvent == [pos |-> -1, words |-> NoWords]

TypeOK ==
    /\ memory \in [Loc -> SUBSET Write]
    /\ own \in View /\ released \in View
    /\ sending \in {"idle", "claimed", "writing"}
    /\ pos \in Nat /\ stored \in 0..Words
    /\ state \in [Receiver -> {"none", "ready", "lapped", "reading"}]
    /\ rpos \in [Receiver -> Nat]
    /\ laps \in [Receiver -> Nat]
    /\ view \in [Receiver -> View] /\ pending \in [Receiver -> View]
    /\ staged \in [Receiver -> [Word -> Int]]
    /\ loaded \in [Receiver -> 0..Words]
    /\ got \in [Receiver -> Event]

-----------------------------------------------------------------------------
(* channel *)

\* Slot s starts as if about to be written at position s.
NewVersion(s) == 2 * s

NewRing == [l \in Loc |-> CASE l[1] = "version" -> NewVersion(l[2])
                            [] l[1] = "word"    -> -1
                            [] OTHER            -> 0]

Init ==
    /\ memory = [l \in Loc |-> {[val |-> NewRing[l], view |-> NewRing]}]
    /\ own = NewRing /\ released = NewRing
    /\ sending = "idle" /\ pos = 0 /\ stored = 0
    /\ state = [r \in Receiver |-> "none"]
    /\ rpos = [r \in Receiver |-> 0]
    /\ laps = [r \in Receiver |-> 0]
    /\ view = [r \in Receiver |-> NewRing]
    /\ pending = [r \in Receiver |-> NewRing]
    /\ staged = [r \in Receiver |-> NoWords]
    /\ loaded = [r \in Receiver |-> 0]
    /\ got = [r \in Receiver |-> NoEvent]

-----------------------------------------------------------------------------
(* send, one step per access to shared memory *)

\* Store v in location l, publishing a view.
Store(l, v, published) ==
    /\ own' = [own EXCEPT ![l] = v]
    /\ memory' = [memory EXCEPT ![l] = @ \cup {[val |-> v, view |-> published]}]

Claim ==
    /\ sending = "idle"
    /\ own[producer] < MaxSends
    /\ pos' = own[producer]
    /\ Store(producer, own[producer] + 1, released)
    /\ sending' = "claimed"
    /\ UNCHANGED <<released, stored, recvVars>>

\* Slip: no release fence after the odd version.
BeginWrite_NoFence ==
    /\ sending = "claimed"
    /\ Store(version(pos), 2 * pos + 1, released)
    /\ sending' = "writing" /\ stored' = 0
    /\ UNCHANGED <<released, pos, recvVars>>

\* The odd version, and the release fence after it.
BeginWrite ==
    /\ sending = "claimed"
    /\ Store(version(pos), 2 * pos + 1, released)
    /\ released' = own'
    /\ sending' = "writing" /\ stored' = 0
    /\ UNCHANGED <<pos, recvVars>>

\* Slip: one word too many.
StoreWord_OneMore ==
    /\ sending = "writing"
    /\ stored <= Words
    /\ Store(word(pos, stored), pos, released)
    /\ stored' = stored + 1
    /\ UNCHANGED <<released, sending, pos, recvVars>>

StoreWord ==
    /\ sending = "writing"
    /\ stored < Words
    /\ Store(word(pos, stored), pos, released)
    /\ stored' = stored + 1
    /\ UNCHANGED <<released, sending, pos, recvVars>>

\* The even version, a release store.
EndWrite ==
    /\ sending = "writing"
    /\ stored = Words
    /\ Store(version(pos), 2 * pos + 2, [own EXCEPT ![version(pos)] = 2 * pos + 2])
    /\ sending' = "idle"
    /\ UNCHANGED <<released, pos, stored, recvVars>>

-----------------------------------------------------------------------------
(* subscribe and try_recv, one step per access to shared memory *)

\* The writes to l that a thread with view v may read.
Readable(v, l) == {m \in memory[l] : m.val >= v[l]}

\* A receiver starts at any position its thread may read from the cursor.
subscribe(r) ==
    /\ state[r] = "none"
    /\ \E m \in Readable(view[r], producer) :
          /\ rpos' = [rpos EXCEPT ![r] = m.val]
          /\ view' = [view EXCEPT ![r][producer] = m.val]
          /\ pending' = [pending EXCEPT ![r] = Join(@, m.view)]
    /\ state' = [state EXCEPT ![r] = "ready"]
    /\ UNCHANGED <<sendVars, laps, staged, loaded, got>>

want(r) == 2 * rpos[r] + 2

\* Slip: a lapped receiver goes on waiting where it is.
FirstLook_NoResync(seen, wanted) == IF seen = wanted THEN "reading" ELSE "ready"

\* Slip: an event that is not there yet counts as lost.
FirstLook_NotYetIsLost(seen, wanted) == IF seen = wanted THEN "reading" ELSE "lapped"

\* What the first look at the slot's version leads to: nothing there yet, the
\* event, or a later one.
FirstLook(seen, wanted) ==
    IF seen < wanted THEN "ready" ELSE IF seen = wanted THEN "reading" ELSE "lapped"

\* The acquire load of the version.
LoadVersion(r) ==
    /\ state[r] = "ready"
    /\ \E m \in Readable(view[r], version(rpos[r])) :
          /\ view' = [view EXCEPT ![r] = Join([@ EXCEPT ![version(rpos[r])] = m.val], m.view)]
          /\ state' = [state EXCEPT ![r] = FirstLook(m.val, want(r))]
    /\ UNCHANGED <<sendVars, rpos, laps, pending, staged, loaded, got>>

saturating_sub(a, b) == IF a >= b THEN a - b ELSE 0

\* Slip: a full ring and one back, to the slot being overwritten.
catch_up_FullRing(r) ==
    /\ state[r] = "lapped"
    /\ laps' = [laps EXCEPT ![r] = @ + 1]
    /\ \E m \in Readable(view[r], producer) :
          /\ rpos' = [rpos EXCEPT ![r] = saturating_sub(m.val, Capacity + 1)]
          /\ view' = [view EXCEPT ![r][producer] = m.val]
          /\ pending' = [pending EXCEPT ![r] = Join(@, m.view)]
    /\ state' = [state EXCEPT ![r] = "ready"]
    /\ UNCHANGED <<sendVars, staged, loaded, got>>

\* Half a ring back from where the receiver sees the producer.
catch_up(r) ==
    /\ state[r] = "lapped"
    /\ laps' = [laps EXCEPT ![r] = @ + 1]
    /\ \E m \in Readable(view[r], producer) :
          /\ rpos' = [rpos EXCEPT ![r] = saturating_sub(m.val, Capacity \div 2)]
          /\ view' = [view EXCEPT ![r][producer] = m.val]
          /\ pending' = [pending EXCEPT ![r] = Join(@, m.view)]
    /\ state' = [state EXCEPT ![r] = "ready"]
    /\ UNCHANGED <<sendVars, staged, loaded, got>>

LoadWord(r) ==
    LET l == word(rpos[r], loaded[r])
    IN /\ state[r] = "reading"
       /\ loaded[r] < Words
       /\ \E m \in Readable(view[r], l) :
             /\ staged' = [staged EXCEPT ![r][loaded[r]] = m.val]
             /\ view' = [view EXCEPT ![r][l] = m.val]
             /\ pending' = [pending EXCEPT ![r] = Join(@, m.view)]
       /\ loaded' = [loaded EXCEPT ![r] = @ + 1]
       /\ UNCHANGED <<sendVars, state, rpos, laps, got>>

\* Slip: a receiver whose event was overwritten under it goes on to the next.
Recheck_MovesOn(r) ==
    LET l == version(rpos[r])
        fenced == Join(view[r], pending[r])
    IN /\ state[r] = "reading"
       /\ loaded[r] = Words
       /\ \E m \in Readable(fenced, l) :
             /\ view' = [view EXCEPT ![r] = [fenced EXCEPT ![l] = m.val]]
             /\ pending' = [pending EXCEPT ![r] = Join(@, m.view)]
             /\ got' = IF m.val = want(r) THEN [got EXCEPT ![r] = [pos |-> rpos[r], words |-> staged[r]]] ELSE got
       /\ rpos' = [rpos EXCEPT ![r] = @ + 1]
       /\ state' = [state EXCEPT ![r] = "ready"]
       /\ staged' = [staged EXCEPT ![r] = NoWords]
       /\ loaded' = [loaded EXCEPT ![r] = 0]
       /\ UNCHANGED <<sendVars, laps>>

\* The acquire fence, then the second look at the version: the event counts
\* only if nothing was written in between.
Recheck(r) ==
    LET l == version(rpos[r])
        fenced == Join(view[r], pending[r])
    IN /\ state[r] = "reading"
       /\ loaded[r] = Words
       /\ \E m \in Readable(fenced, l) :
             /\ view' = [view EXCEPT ![r] = [fenced EXCEPT ![l] = m.val]]
             /\ pending' = [pending EXCEPT ![r] = Join(@, m.view)]
             /\ IF m.val = want(r)
                THEN /\ got' = [got EXCEPT ![r] = [pos |-> rpos[r], words |-> staged[r]]]
                     /\ rpos' = [rpos EXCEPT ![r] = @ + 1]
                ELSE UNCHANGED <<got, rpos>>
       /\ state' = [state EXCEPT ![r] = "ready"]
       /\ staged' = [staged EXCEPT ![r] = NoWords]
       /\ loaded' = [loaded EXCEPT ![r] = 0]
       /\ UNCHANGED <<sendVars, laps>>

-----------------------------------------------------------------------------

send == Claim \/ BeginWrite \/ StoreWord \/ EndWrite
try_recv(r) == LoadVersion(r) \/ catch_up(r) \/ LoadWord(r) \/ Recheck(r)

Next == send \/ \E r \in Receiver : subscribe(r) \/ try_recv(r)

Spec == Init /\ [][Next]_vars

\* The producer sends and every receiver keeps polling; a write becomes visible
\* to a thread that keeps reading.
FairSpec == Spec /\ WF_vars(send) /\ \A r \in Receiver : WF_vars(try_recv(r))

-----------------------------------------------------------------------------
(* Properties *)

\* An event try_recv returns is the one sent at the receiver's position, every
\* word of it, however the sender overwrote the slot meanwhile.
NeverTorn == \A r \in Receiver : \A i \in Word : got[r].words[i] = got[r].pos

\* A receiver only moves forward, so events are returned in the order they were
\* sent and none twice, also when it jumps by a producer position it reads
\* with a relaxed load.
InOrder == [][\A r \in Receiver : state[r] # "none" => rpos'[r] >= rpos[r] /\ got'[r].pos >= got[r].pos]_vars

\* A receiver gives up events only when the producer has begun to write more
\* than a full ring past it.
LapIsReal == \A r \in Receiver : state[r] = "lapped" => own[producer] > rpos[r] + Capacity

\* What subscribers see is EventLog: whole events, each the one after the last,
\* and a gap only where it is counted and the sender was a full ring ahead, for
\* every interleaving and every order in which the memory shows the writes.
Done == IF sending = "idle" THEN own[producer] ELSE pos
Expected == [r \in Receiver |-> IF state[r] = "none" THEN -1 ELSE rpos[r]]
Log == INSTANCE EventLog WITH begun <- own[producer], done <- Done, next <- Expected, last <- got
FollowsLog == Log!Spec

\* A receiver that keeps polling gets to the last event once the producer stops,
\* lapped or not.
CatchesUp == \A r \in Receiver : state[r] # "none" ~> rpos[r] = MaxSends
=============================================================================
