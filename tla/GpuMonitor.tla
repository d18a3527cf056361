------------------------------ MODULE GpuMonitor ------------------------------
(***************************************************************************)
(* The GPU monitor of each node's daemon: its quarantined cards, the file  *)
(* they are saved in, and which cards were tested since the daemon started.*)
(*                                                                         *)
(* A change of the quarantines is written to the file under their lock, so *)
(* between the change and the write only the daemon's death can intervene. *)
(* A reading looks up a card's quarantine and its last test one after the  *)
(* other; the model takes both at once.                                    *)
(***************************************************************************)
EXTENDS Naturals

CONSTANTS
    Node,      \* the nodes
    Gpu,       \* the cards of all nodes
    NodeOf     \* NodeOf[g]: the node that has card g

ASSUME CardsAssumption == NodeOf \in [Gpu -> Node]

VARIABLES
    daemon,     \* the nodes whose daemon runs
    cards,      \* the quarantined cards, in the daemons' memory
    file,       \* the quarantined cards, in the saved files
    saving,     \* nodes whose quarantines changed and are not written yet
    tested,     \* the cards a test was recorded of since the daemon started
    recording,  \* cards whose test result is handled and not yet stamped
    busy,       \* cards held by processes roster did not start, or throttled
    broken,     \* cards with a defect
    suspect     \* history: cards with a fault no pass or clear has ended since

monitorVars == <<daemon, cards, file, saving, tested, recording, busy, broken, suspect>>

Reading == [quarantined : BOOLEAN, tested : BOOLEAN, busy : BOOLEAN]

MonitorTypeOK ==
    /\ daemon \subseteq Node /\ saving \subseteq Node
    /\ cards \subseteq Gpu /\ file \subseteq Gpu /\ recording \subseteq Gpu
    /\ tested \subseteq Gpu /\ busy \subseteq Gpu /\ broken \subseteq Gpu /\ suspect \subseteq Gpu

Of(n) == {g \in Gpu : NodeOf[g] = n}

\* Daemons that just started for the first time, on cards with any defects.
MonitorInit ==
    /\ daemon = Node /\ saving = {} /\ tested = {} /\ recording = {} /\ busy = {}
    /\ file = {} /\ cards = {} /\ suspect = {}
    /\ broken \in SUBSET Gpu

-----------------------------------------------------------------------------
(* Quarantines *)

\* The events of a card; the Xids of a crashed job say nothing of the card.
CardEvent == {"hardwareXid", "jobXid", "pagesPending", "testFailed", "cleared"}

\* Whether a card is quarantined after an event.
apply(event, quarantined) ==
    CASE event = "cleared" -> FALSE
      [] event = "jobXid"  -> quarantined
      [] OTHER             -> TRUE

\* The quarantines' lock can be taken: their daemon runs and is not writing.
Unlocked(n) == n \in daemon /\ n \notin saving

\* Quarantines::handle up to the write; a new quarantine forgets the card's
\* last test.  Nothing changes, and nothing is written, when it stays as it is.
handle(g, event) ==
    LET before == g \in cards
        after  == apply(event, before)
    IN /\ Unlocked(NodeOf[g])
       /\ cards' = IF after THEN cards \cup {g} ELSE cards \ {g}
       /\ tested' = IF after /\ ~before THEN tested \ {g} ELSE tested
       /\ saving' = IF after # before THEN saving \cup {NodeOf[g]} ELSE saving
       /\ suspect' = IF event = "jobXid" THEN suspect
                     ELSE IF event = "cleared" THEN suspect \ {g} ELSE suspect \cup {g}

\* The write that ends handle: a temporary file renamed over the saved one.
save(n) ==
    /\ n \in saving
    /\ saving' = saving \ {n}
    /\ file' = (file \ Of(n)) \cup (cards \cap Of(n))
    /\ UNCHANGED <<daemon, cards, tested, recording, busy, broken, suspect>>

\* A write that fails is logged; the file stays as it was.
SaveFails(n) ==
    /\ n \in saving
    /\ saving' = saving \ {n}
    /\ UNCHANGED <<daemon, cards, file, tested, recording, busy, broken, suspect>>

\* record_test handles the result, a pass as a clear and a failure as a fault,
\* and then notes the time of the test.
record_test(g, passed) ==
    /\ handle(g, IF passed THEN "cleared" ELSE "testFailed")
    /\ recording' = recording \cup {g}
    /\ UNCHANGED <<daemon, file, busy, broken>>

Stamp(g) ==
    /\ g \in recording
    /\ Unlocked(NodeOf[g])
    /\ recording' = recording \ {g}
    /\ tested' = tested \cup {g}
    /\ UNCHANGED <<daemon, cards, file, saving, busy, broken, suspect>>

\* The listener hands an Xid to the quarantines, or an operator clears one.
Event(g, event) == handle(g, event) /\ UNCHANGED <<daemon, file, recording, busy, broken>>

-----------------------------------------------------------------------------
(* The monitor *)

\* GpuMonitor::read, for one card.
read(g) == [quarantined |-> g \in cards, tested |-> g \in tested, busy |-> g \in busy]

\* Slip: a quarantine keeps a card from a job only while nothing is booked on it.
blocked_WhenUnbooked(reading, unbooked) ==
    unbooked /\ (reading.quarantined \/ reading.busy \/ ~reading.tested)

\* Whether a reading keeps a card from jobs: quarantined, or, with nothing
\* booked on it, in use by others, throttled or untested.
blocked(reading, unbooked) ==
    \/ reading.quarantined
    \/ unbooked /\ (reading.busy \/ ~reading.tested)

\* The daemons of ns end, and with them what they had in memory.
MonitorsDie(ns) ==
    LET gone == {g \in Gpu : NodeOf[g] \in ns}
    IN /\ daemon' = daemon \ ns
       /\ saving' = saving \ ns
       /\ cards' = cards \ gone
       /\ tested' = tested \ gone
       /\ recording' = recording \ gone
       /\ UNCHANGED <<file, busy, broken, suspect>>

\* Slip: a card without a saved quarantine counts as tested.
open_CleanIsTested(ns, pages) ==
    LET mine == {g \in Gpu : NodeOf[g] \in ns}
        found == pages \cap mine
    IN /\ daemon' = daemon \cup ns
       /\ cards' = cards \cup (file \cap mine) \cup found
       /\ file' = file \cup found
       /\ suspect' = suspect \cup found
       /\ tested' = tested \cup (mine \ (file \cup found))
       /\ UNCHANGED <<saving, recording, busy, broken>>

\* GpuMonitor::open on the nodes ns: load the file, then quarantine the cards
\* whose memory pages wait for retirement.
open(ns, pages) ==
    LET mine == {g \in Gpu : NodeOf[g] \in ns}
        found == pages \cap mine
    IN /\ daemon' = daemon \cup ns
       /\ cards' = cards \cup (file \cap mine) \cup found
       /\ file' = file \cup found
       /\ suspect' = suspect \cup found
       /\ UNCHANGED <<saving, tested, recording, busy, broken>>
=============================================================================
