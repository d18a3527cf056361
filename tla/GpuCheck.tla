------------------------------- MODULE GpuCheck -------------------------------
(***************************************************************************)
(* The controller's GPU check: every 2 s, before a tick of the scheduler,  *)
(* it settles the qualifications that ended, decides from the nodes' last  *)
(* readings which cards jobs may get, and starts new qualifications on     *)
(* idle cards that are due.                                                *)
(*                                                                         *)
(* The check and the ticks run in one task, so the only concurrent actors  *)
(* are the tunnels, the node daemons with their monitors, and the tests    *)
(* themselves, which run in scopes of their own and outlive every daemon.  *)
(* Placement is module Scheduler's; here a tick gives free cards that are  *)
(* not blocked to jobs, and takes them back.                               *)
(***************************************************************************)
EXTENDS Tunnel

CONSTANTS
    Dcgm,       \* nodes with DCGM installed
    Faults,     \* which kinds of fault may happen
    MaxFaults   \* bound: how many faults happen in a behaviour

FaultKind == {"crash", "restart", "upgrade", "ssh", "noReply", "lost", "late", "spawn", "save",
              "xid", "pages", "busy", "slow", "killed"}
ASSUME GpuFaultsAssumption == Dcgm \subseteq Node /\ Faults \subseteq FaultKind /\ MaxFaults \in Nat

VARIABLES
    pc,         \* "down", or the part of the loop the controller is in
    todo,       \* tests finish_qualifications has yet to poll
    reading,    \* reading[n]: what the check read of node n, or {}
    holder,     \* holder[g]: who has the card booked
    outOf,      \* the cards blocked for jobs, in the pools
    requalify,  \* cards on which a job was killed
    settling,   \* cards a test was started on less than QUALIFY_SETTLE ago
    track,      \* track[g]: the controller's view of the test of g
    proc,       \* proc[g]: the process of that test
    retest,     \* whether that test was started on a quarantined card
    stray,      \* stray[g][r]: processes of tests no controller tracks
    wire,       \* wire[g][r]: Launches of such tests that are still under way
    orphaned,   \* history: cards with a test cut off by a crash, a lost kill or
                \* a Launch later than its timeout
    faults      \* how many faults have happened

checkVars == <<pc, todo, reading, holder, outOf, requalify, settling, track, proc, retest, stray, wire, orphaned>>
vars == <<monitorVars, tunnelVars, checkVars, faults>>

TypeOK ==
    /\ MonitorTypeOK /\ TunnelTypeOK
    /\ pc \in {"down", "finish", "apply", "start", "tick"}
    /\ todo \subseteq Gpu
    /\ \A n \in Node : reading[n] \in Readings(n)
    /\ holder \in [Gpu -> {"free", "job", "test"}]
    /\ outOf \subseteq Gpu /\ requalify \subseteq Gpu /\ settling \subseteq Gpu
    /\ track \in [Gpu -> {"none", "start", "run", "kill", "report", "ended"}]
    /\ proc \in [Gpu -> {"none", "late", "run", "exited"}]
    /\ retest \subseteq Gpu
    /\ stray \in [Gpu -> [BOOLEAN -> Nat]] /\ wire \in [Gpu -> [BOOLEAN -> Nat]]
    /\ orphaned \subseteq Gpu
    /\ faults \in 0..MaxFaults

Each(v) == [g \in Gpu |-> v]
NoReadings == [n \in Node |-> {}]
NoTests == [r \in BOOLEAN |-> 0]

Init ==
    /\ MonitorInit /\ TunnelInit
    /\ pc = "finish" /\ todo = {} /\ reading = NoReadings
    /\ holder = Each("free") /\ outOf = {} /\ requalify = {} /\ settling = {}
    /\ track = Each("none") /\ proc = Each("none") /\ retest = {}
    /\ stray = Each(NoTests) /\ wire = Each(NoTests) /\ orphaned = {}
    /\ faults = 0

Fault(kind) == kind \in Faults /\ faults < MaxFaults /\ faults' = faults + 1

-----------------------------------------------------------------------------
(* finish_qualifications *)

\* A test is over once it has exited and its report is recorded; one its node
\* knows nothing of, or nothing yet, counts as over too.
Exited(g) == proc[g] \in {"none", "late"} \/ (proc[g] = "exited" /\ g \notin recording)

\* A poll of the test: running, over, or no answer.
Poll(g) ==
    LET n == NodeOf[g]
    IN /\ pc = "finish" /\ g \in todo /\ track[g] = "run"
       /\ todo' = todo \ {g}
       /\ n \in local \/ (n \in online /\ Reaches(n))
       /\ \/ ~Exited(g) /\ UNCHANGED <<track, faults>>
          \/ ~Exited(g) /\ Fault("slow") /\ track' = [track EXCEPT ![g] = "kill"]
          \/ Exited(g) /\ track' = [track EXCEPT ![g] = "ended"] /\ UNCHANGED faults
       /\ orphaned' = IF proc[g] = "late" THEN orphaned \cup {g} ELSE orphaned
       /\ UNCHANGED <<monitorVars, tunnelVars, pc, reading, holder, outOf, requalify, settling,
                      proc, retest, stray, wire>>

\* Slips: such a test counts as over, or gets a state nothing else knows of.
WhenUnreachable_Ended == "ended"
WhenUnreachable_Lost == "lost"

\* What becomes of a test that cannot be asked for: its card stays held.
WhenUnreachable == "run"

PollUnreachable(g) ==
    LET n == NodeOf[g]
    IN /\ pc = "finish" /\ g \in todo /\ track[g] = "run"
       /\ todo' = todo \ {g}
       /\ n \notin local
       /\ \/ n \notin online /\ UNCHANGED <<tunnelVars, faults>>
          \/ n \in online /\ ~Reaches(n) /\ lost(n) /\ UNCHANGED faults
          \/ n \in online /\ Reaches(n) /\ Fault("lost") /\ lost(n)
       /\ track' = [track EXCEPT ![g] = WhenUnreachable]
       /\ UNCHANGED <<monitorVars, pc, reading, holder, outOf, requalify, settling,
                      proc, retest, stray, wire, orphaned>>

\* Past its timeout a test is stopped; whether that worked is not looked at.
Kill(g) ==
    LET n == NodeOf[g]
        Stopped == proc' = [proc EXCEPT ![g] = "exited"] /\ UNCHANGED orphaned
        Missed == orphaned' = orphaned \cup {g} /\ UNCHANGED proc
    IN /\ pc = "finish" /\ track[g] = "kill"
       /\ \/ (n \in local \/ (n \in online /\ Reaches(n))) /\ Stopped /\ UNCHANGED <<tunnelVars, faults>>
          \/ n \notin local /\ n \notin online /\ Missed /\ UNCHANGED <<tunnelVars, faults>>
          \/ n \notin local /\ n \in online /\ ~Reaches(n) /\ Missed /\ lost(n) /\ UNCHANGED faults
          \/ /\ n \notin local /\ n \in online /\ Reaches(n) /\ Fault("lost")
             /\ lost(n)
             /\ Stopped \/ Missed
       /\ track' = [track EXCEPT ![g] = "report"]
       /\ UNCHANGED <<monitorVars, pc, todo, reading, holder, outOf, requalify, settling, retest,
                      stray, wire>>

\* Then the node is told that the test failed, if it can be.
Report(g) ==
    /\ pc = "finish" /\ track[g] = "report"
    /\ \/ Reaches(NodeOf[g]) /\ record_test(g, FALSE) /\ UNCHANGED faults
       \/ ~Reaches(NodeOf[g]) /\ UNCHANGED <<monitorVars, faults>>
       \/ NodeOf[g] \notin local /\ Fault("lost") /\ UNCHANGED monitorVars
    /\ track' = [track EXCEPT ![g] = "ended"]
    /\ UNCHANGED <<tunnelVars, pc, todo, reading, holder, outOf, requalify, settling,
                   proc, retest, stray, wire, orphaned>>

\* The tests of gs are on their own: counted in f are those that are at p.
CutOff(gs, p, f) ==
    [g \in Gpu |-> IF g \in gs /\ proc[g] = p THEN [f[g] EXCEPT ![g \in retest] = @ + 1] ELSE f[g]]
Forget(gs, f, v) == [g \in Gpu |-> IF g \in gs THEN v ELSE f[g]]

\* The cards of the tests that ended are released together.  Then the nodes
\* are read: this machine's cards now, a remote node's were at its last check.
ReleaseAndRead ==
    LET ended == {g \in Gpu : track[g] = "ended"}
    IN /\ pc = "finish" /\ todo = {}
       /\ \A g \in Gpu : track[g] \notin {"kill", "report"}
       /\ \A n \in local : Unlocked(n)
       /\ pc' = "apply"
       /\ holder' = Forget(ended, holder, "free")
       /\ track' = Forget(ended, track, "none")
       /\ proc' = Forget(ended, proc, "none")
       /\ retest' = retest \ ended
       /\ stray' = CutOff(ended, "run", stray) /\ wire' = CutOff(ended, "late", wire)
       /\ reading' = [n \in Node |-> IF n \in local THEN {ReadAll(n)} ELSE health[n]]
       /\ UNCHANGED <<monitorVars, tunnelVars, todo, outOf, requalify, settling, orphaned, faults>>

-----------------------------------------------------------------------------
(* check_gpus *)

\* Whether the check knows the state of card g: its node is online now and
\* was read before.
Known(g) == NodeOf[g] \in online /\ reading[NodeOf[g]] # {}
Latest(g) == (CHOOSE r \in reading[NodeOf[g]] : TRUE)[g]

\* The cards kept from jobs until the next check.
ApplyBlocked == {g \in Gpu : Known(g) => blocked(Latest(g), holder[g] = "free")}

\* Slip: a quarantined card is left to its operator.
ToQualify_NotQuarantined(settled, aged) ==
    {g \in Gpu : /\ Known(g) /\ holder[g] = "free"
                 /\ g \in requalify \cup aged \/ ~Latest(g).tested
                 /\ g \in settling => g \in settled
                 /\ ~Latest(g).busy /\ ~Latest(g).quarantined}

\* Idle cards on which a job was killed, or not tested within QUALIFY_EVERY,
\* unless a test was started on them within QUALIFY_SETTLE.
ToQualify(settled, aged) ==
    {g \in Gpu : /\ Known(g) /\ holder[g] = "free"
                 /\ g \in requalify \cup aged \/ ~Latest(g).tested
                 /\ g \in settling => g \in settled
                 /\ ~Latest(g).busy}

\* One pass over all cards under the pools' lock.  QUALIFY_SETTLE is over for
\* the cards of settled, and QUALIFY_EVERY, which is longer, for those of aged.
Apply(settled, aged) ==
    LET chosen == ToQualify(settled, aged)
    IN /\ pc = "apply"
       /\ aged \cap settling \subseteq settled
       /\ outOf' = ApplyBlocked
       /\ holder' = Forget(chosen, holder, "test")
       /\ track' = Forget(chosen, track, "start")
       /\ requalify' = requalify \ chosen
       /\ settling' = (settling \ settled) \cup chosen
       /\ retest' = retest \cup {g \in chosen : Latest(g).quarantined}
       /\ reading' = NoReadings
       /\ pc' = IF chosen = {} THEN "tick" ELSE "start"
       /\ UNCHANGED <<monitorVars, tunnelVars, todo, proc, stray, wire, orphaned, faults>>

\* start_qualification: a launch without an answer may have started the test or
\* may still do so, one that failed did not, and its card is released.
Start(g) ==
    LET n == NodeOf[g]
        Started(p) == /\ track' = [track EXCEPT ![g] = "run"]
                      /\ proc' = [proc EXCEPT ![g] = p]
                      /\ UNCHANGED <<holder, retest>>
        NotStarted == /\ holder' = [holder EXCEPT ![g] = "free"]
                      /\ track' = [track EXCEPT ![g] = "none"]
                      /\ retest' = retest \ {g}
                      /\ UNCHANGED proc
        Sent == n \in local \/ (n \in online /\ Reaches(n))
    IN /\ pc = "start" /\ track[g] = "start"
       /\ \/ Sent /\ Started("run") /\ UNCHANGED <<tunnelVars, faults>>
          \/ Sent /\ Fault("spawn") /\ NotStarted /\ UNCHANGED tunnelVars
          \/ n \notin local /\ n \notin online /\ NotStarted /\ UNCHANGED <<tunnelVars, faults>>
          \/ n \notin local /\ n \in online /\ ~Reaches(n) /\ NotStarted /\ lost(n) /\ UNCHANGED faults
          \/ /\ n \notin local /\ n \in online /\ Reaches(n) /\ Fault("lost")
             /\ Started("run") \/ Started("none")
             /\ lost(n)
          \/ n \notin local /\ n \in online /\ Reaches(n) /\ Fault("late") /\ Started("late") /\ lost(n)
       /\ pc' = IF \E h \in Gpu \ {g} : track[h] = "start" THEN "start" ELSE "tick"
       /\ UNCHANGED <<monitorVars, todo, reading, outOf, requalify, settling, stray, wire, orphaned>>

-----------------------------------------------------------------------------
(* The ticks between two checks *)

\* A job gets a free card that is not blocked, on a node that is online.
Place(g) ==
    /\ pc = "tick"
    /\ holder[g] = "free" /\ g \notin outOf /\ NodeOf[g] \in online
    /\ holder' = [holder EXCEPT ![g] = "job"]
    /\ UNCHANGED <<monitorVars, tunnelVars, pc, todo, reading, outOf, requalify, settling,
                   track, proc, retest, stray, wire, orphaned, faults>>

\* A job ends; a card on which one was killed shall be tested again.
JobEnds(g) ==
    /\ pc = "tick"
    /\ holder[g] = "job"
    /\ holder' = [holder EXCEPT ![g] = "free"]
    /\ \/ UNCHANGED <<requalify, faults>>
       \/ Fault("killed") /\ requalify' = requalify \cup {g}
    /\ UNCHANGED <<monitorVars, tunnelVars, pc, todo, reading, outOf, settling,
                   track, proc, retest, stray, wire, orphaned>>

\* The next check begins.
EndTicks ==
    /\ pc = "tick"
    /\ pc' = "finish"
    /\ todo' = {g \in Gpu : track[g] = "run"}
    /\ UNCHANGED <<monitorVars, tunnelVars, reading, holder, outOf, requalify, settling,
                   track, proc, retest, stray, wire, orphaned, faults>>

-----------------------------------------------------------------------------
(* The tests: roster qualify on the node *)

\* The verdicts the kernels and DCGM may come to: a sound card passes, and a
\* defect is sure to show only in DCGM's longer diagnostic, where installed.
kernel_test(g) == IF g \in broken THEN BOOLEAN ELSE {TRUE}
dcgm_diag(g, long) ==
    IF g \notin broken \/ NodeOf[g] \notin Dcgm THEN {TRUE} ELSE IF long THEN {FALSE} ELSE BOOLEAN

\* The kernel test, then DCGM.
test(g, long) == {k /\ d : k \in kernel_test(g), d \in dcgm_diag(g, long)}

\* The test reports to its node's daemon and exits once the result is recorded;
\* without a daemon it exits and the result is lost.
Reported(g, long) ==
    IF NodeOf[g] \in daemon
    THEN \E passed \in test(g, long) : record_test(g, passed)
    ELSE UNCHANGED monitorVars

\* A Launch that outlived its timeout arrives, while the controller still tracks
\* the test and after it has given the test up.
LateStart(g) ==
    /\ proc[g] = "late" /\ NodeOf[g] \in daemon
    /\ proc' = [proc EXCEPT ![g] = "run"]
    /\ UNCHANGED <<monitorVars, tunnelVars, pc, todo, reading, holder, outOf, requalify, settling,
                   track, retest, stray, wire, orphaned, faults>>

LateStray(g, long) ==
    /\ wire[g][long] > 0 /\ NodeOf[g] \in daemon
    /\ wire' = [wire EXCEPT ![g][long] = @ - 1]
    /\ stray' = [stray EXCEPT ![g][long] = @ + 1]
    /\ UNCHANGED <<monitorVars, tunnelVars, pc, todo, reading, holder, outOf, requalify, settling,
                   track, proc, retest, orphaned, faults>>

TestEnds(g) ==
    /\ proc[g] = "run"
    /\ Reported(g, g \in retest)
    /\ proc' = [proc EXCEPT ![g] = "exited"]
    /\ UNCHANGED <<tunnelVars, pc, todo, reading, holder, outOf, requalify, settling,
                   track, retest, stray, wire, orphaned, faults>>

StrayEnds(g, long) ==
    /\ stray[g][long] > 0
    /\ Reported(g, long)
    /\ stray' = [stray EXCEPT ![g][long] = @ - 1]
    /\ UNCHANGED <<tunnelVars, pc, todo, reading, holder, outOf, requalify, settling,
                   track, proc, retest, wire, orphaned, faults>>

-----------------------------------------------------------------------------
(* Nodes, daemons and operators *)

MonitorStep ==
    /\ \/ \E n \in Node : save(n) /\ UNCHANGED faults
       \/ \E n \in Node : SaveFails(n) /\ Fault("save")
       \/ \E g \in Gpu : (Stamp(g) \/ Event(g, "jobXid") \/ Event(g, "cleared")) /\ UNCHANGED faults
       \/ \E g \in Gpu : Event(g, "hardwareXid") /\ Fault("xid")
       \/ \E g \in Gpu \ busy : /\ Fault("busy")
                                /\ busy' = busy \cup {g}
                                /\ UNCHANGED <<daemon, cards, file, saving, tested, recording, broken, suspect>>
       \/ \E g \in busy : /\ busy' = busy \ {g}
                          /\ UNCHANGED <<daemon, cards, file, saving, tested, recording, broken, suspect, faults>>
    /\ UNCHANGED <<tunnelVars, checkVars>>

TunnelStep ==
    /\ pc # "down"
    /\ \E n \in Node :
          \/ (Check(n) \/ SetOnline(n) \/ SetHealth(n) \/ ssh_exited(n) \/ spawn(n, "up")) /\ UNCHANGED faults
          \/ CheckFails(n) /\ Fault("noReply")
          \/ (SshExits(n) \/ spawn(n, "exited")) /\ Fault("ssh")
    /\ UNCHANGED <<monitorVars, checkVars>>

\* A remote node's daemon dies, or is replaced by one of another version.
DaemonDies(n) ==
    /\ n \in daemon \ local
    /\ MonitorsDie({n})
    /\ \/ Fault("restart") /\ UNCHANGED tunnelVars
       \/ Fault("upgrade") /\ upgraded' = upgraded \cup {n} /\ UNCHANGED <<local, ssh, online, health, check>>
    /\ UNCHANGED checkVars

\* It comes back, perhaps with the controller's version again.
DaemonStarts(n) ==
    /\ n \in Node \ (daemon \cup local)
    /\ \E pages \in SUBSET Of(n) :
          /\ open({n}, pages)
          /\ IF pages = {} THEN UNCHANGED faults ELSE Fault("pages")
    /\ upgraded' \in {upgraded, upgraded \ {n}}
    /\ UNCHANGED <<local, ssh, online, health, check, checkVars>>

\* The controller dies, and with it the tunnels and this machine's monitor; the
\* tests go on without anyone to track them.
Crash ==
    /\ pc # "down"
    /\ Fault("crash")
    /\ pc' = "down" /\ todo' = {} /\ reading' = NoReadings
    /\ MonitorsDie(local)
    /\ holder' = Forget({g \in Gpu : holder[g] = "test"}, holder, "free")
    /\ outOf' = {} /\ requalify' = {} /\ settling' = {}
    /\ track' = Each("none") /\ proc' = Each("none") /\ retest' = {}
    /\ stray' = CutOff(Gpu, "run", stray) /\ wire' = CutOff(Gpu, "late", wire)
    /\ orphaned' = orphaned \cup {g \in Gpu : proc[g] \in {"late", "run"}}
    /\ online' = Node /\ ssh' = [n \in Node |-> "up"]
    /\ health' = NoReadings /\ check' = [n \in Node |-> NoCheck]
    /\ UNCHANGED <<local, upgraded>>

\* It starts again once every remote node answers, with the jobs it takes back
\* holding their cards.
Restart ==
    /\ pc = "down"
    /\ \A n \in Node \ local : Unlocked(n) /\ n \notin upgraded
    /\ \E pages \in SUBSET UNION {Of(n) : n \in local} :
          /\ open(local, pages)
          /\ IF pages = {} THEN UNCHANGED faults ELSE Fault("pages")
    /\ health' = [n \in Node |-> IF n \in local THEN {} ELSE {ReadAll(n)}]
    /\ pc' = "finish"
    /\ UNCHANGED <<local, upgraded, ssh, online, check, todo, reading, holder, outOf, requalify, settling,
                   track, proc, retest, stray, wire, orphaned>>

-----------------------------------------------------------------------------
(* The specification *)

LoopStep ==
    \/ ReleaseAndRead \/ EndTicks
    \/ \E settled \in SUBSET settling, aged \in SUBSET Gpu : Apply(settled, aged)
    \/ \E g \in Gpu : Poll(g) \/ PollUnreachable(g) \/ Kill(g) \/ Report(g) \/ Start(g)

Next ==
    \/ LoopStep
    \/ \E g \in Gpu : Place(g) \/ JobEnds(g) \/ LateStart(g) \/ TestEnds(g)
    \/ \E g \in Gpu, long \in BOOLEAN : LateStray(g, long) \/ StrayEnds(g, long)
    \/ MonitorStep \/ TunnelStep
    \/ \E n \in Node : DaemonDies(n) \/ DaemonStarts(n)
    \/ Crash \/ Restart

Spec == Init /\ [][Next]_vars

\* What the task of node n's tunnel does next, and its monitor.
TunnelTask(n) == TunnelStep /\ (Check(n) \/ SetOnline(n) \/ SetHealth(n) \/ ssh_exited(n) \/ spawn(n, "up"))
MonitorTask(n) == MonitorStep /\ (save(n) \/ \E g \in Of(n) : Stamp(g))

\* The loop, the tunnels and the daemons run on a fair runtime, time passes,
\* a test ends, and a daemon that died is started again: systemd does so.
Fairness ==
    /\ WF_vars(LoopStep \/ Restart)
    /\ \A n \in Node : WF_vars(TunnelTask(n)) /\ WF_vars(MonitorTask(n)) /\ WF_vars(DaemonStarts(n))
    /\ \A g \in Gpu : WF_vars(TestEnds(g))
    /\ \A g \in Gpu : SF_vars(\E settled \in SUBSET settling, aged \in SUBSET Gpu :
                                  g \in aged /\ Apply(settled, aged))

FairSpec == Spec /\ Fairness

-----------------------------------------------------------------------------
(* Properties *)

\* A card is booked for a test exactly while the controller tracks one, and a
\* test runs, or is about to, on a card not booked for it only if a crash of the
\* controller, a kill that did not arrive or a Launch later than its timeout cut
\* it off: launches that fail, answers that get lost, tests that hang and
\* restarts of node daemons neither leak a card nor leave a test behind on one
\* that jobs may get.
TestAlone ==
    /\ \A g \in Gpu : holder[g] = "test" <=> track[g] # "none"
    /\ \A g \in Gpu : proc[g] \in {"late", "run"} => track[g] # "none"
    /\ \A g \in Gpu, long \in BOOLEAN : stray[g][long] + wire[g][long] > 0 => g \in orphaned

\* A fault is never forgotten: a card with one is quarantined or untested until
\* a test passes or an operator clears it, whatever is lost when its daemon
\* dies before, while or instead of saving the quarantine.
FaultNotForgotten ==
    \A g \in suspect : NodeOf[g] \in daemon => g \in cards \/ g \notin tested

\* A card that stays quarantined ends up kept from jobs, whoever holds it.
FaultStops == \A g \in Gpu : <>[](g \in cards) => <>[](g \in outOf)

\* A sound card always gets back to work: after faults, failed launches, lost
\* reports, tests that hung and restarts it is again given to jobs, unless other
\* programs keep it or its node stays on another version.
CardReturns ==
    \A g \in Gpu :
        <>[](g \notin broken \cup busy /\ NodeOf[g] \notin upgraded)
        => []<>(holder[g] = "job" \/ (holder[g] = "free" /\ g \notin outOf /\ NodeOf[g] \in online))

\* A card gets work only after it passed qualification since its node's daemon
\* started (GpuHealth::blocked); one with a new fault, which undoes its test, is
\* not looked at here.
QualifiedFirst ==
    [][\A g \in Gpu : holder[g] = "free" /\ holder'[g] = "job" => g \in tested \cup suspect]_vars
=============================================================================
