---------------------------- MODULE GpuCheckProofs ----------------------------
(***************************************************************************)
(* For any nodes, cards, faults and number of faults: a fault of a card is *)
(* never forgotten, and a card is booked for a test exactly while there is *)
(* one.                                                                    *)
(*                                                                         *)
(* FaultNotForgotten is not inductive.  A card that lost its quarantine    *)
(* with its daemon must also have no result waiting for its time stamp,    *)
(* and a daemon that is down must have left nothing in memory for the next *)
(* one to find.                                                            *)
(***************************************************************************)
EXTENDS GpuCheck, TLAPS

\* A card counts neither as tested nor as about to be.
Untested(g) == g \notin tested /\ g \notin recording

FaultInv ==
    /\ suspect \subseteq Gpu
    /\ \A g \in Gpu : NodeOf[g] \notin daemon => Untested(g)
    /\ \A g \in suspect : NodeOf[g] \in daemon => g \in cards \/ Untested(g)

\* What FaultInv speaks of.
faultVars == <<daemon, cards, tested, recording, suspect>>

\* A step of the system leaves the quarantines alone, or is one of the
\* monitor's: a time stamp, an event, a test's result, a death or a start.
LEMMA StepKinds ==
    ASSUME [Next]_vars
    PROVE  \/ UNCHANGED faultVars
           \/ \E g \in Gpu : Stamp(g)
           \/ \E g \in Gpu, event \in CardEvent : Event(g, event)
           \/ \E g \in Gpu : \E passed : record_test(g, passed)
           \/ \E ns : MonitorsDie(ns)
           \/ \E ns, pages : open(ns, pages)
<1>1. CASE UNCHANGED vars
  BY <1>1 DEF vars, monitorVars, faultVars
<1>2. CASE LoopStep
  <2>1. CASE ReleaseAndRead \/ EndTicks \/ \E settled \in SUBSET settling, aged \in SUBSET Gpu : Apply(settled, aged)
    BY <2>1 DEF ReleaseAndRead, EndTicks, Apply, monitorVars, faultVars
  <2>2. ASSUME NEW g \in Gpu, Poll(g) \/ PollUnreachable(g) \/ Kill(g) \/ Start(g)
        PROVE  UNCHANGED faultVars
    BY <2>2 DEF Poll, PollUnreachable, Kill, Start, monitorVars, faultVars
  <2>3. ASSUME NEW g \in Gpu, Report(g)
        PROVE  UNCHANGED faultVars \/ record_test(g, FALSE)
    BY <2>3 DEF Report, monitorVars, faultVars
  <2> QED
    BY <1>2, <2>1, <2>2, <2>3 DEF LoopStep
<1>3. CASE \/ \E g \in Gpu : Place(g) \/ JobEnds(g) \/ LateStart(g)
           \/ \E g \in Gpu, long \in BOOLEAN : LateStray(g, long)
  BY <1>3 DEF Place, JobEnds, LateStart, LateStray, monitorVars, faultVars
<1>4. ASSUME NEW g \in Gpu, NEW long \in BOOLEAN, Reported(g, long)
      PROVE  UNCHANGED faultVars \/ \E passed : record_test(g, passed)
  BY <1>4 DEF Reported, monitorVars, faultVars
<1>5. CASE \E g \in Gpu : TestEnds(g)
  <2>1. PICK g \in Gpu : TestEnds(g)
    BY <1>5
  <2>2. Reported(g, g \in retest) /\ (g \in retest) \in BOOLEAN
    BY <2>1 DEF TestEnds
  <2> QED
    BY <1>4, <2>2
<1>6. CASE \E g \in Gpu, long \in BOOLEAN : StrayEnds(g, long)
  BY <1>4, <1>6 DEF StrayEnds
<1>7. CASE MonitorStep
  BY <1>7 DEF MonitorStep, save, SaveFails, CardEvent, faultVars
<1>8. CASE TunnelStep
  BY <1>8 DEF TunnelStep, monitorVars, faultVars
<1>9. CASE \E n \in Node : DaemonDies(n) \/ DaemonStarts(n)
  BY <1>9 DEF DaemonDies, DaemonStarts
<1>10. CASE Crash \/ Restart
  BY <1>10 DEF Crash, Restart
<1> QED
  BY <1>1, <1>2, <1>3, <1>5, <1>6, <1>7, <1>8, <1>9, <1>10 DEF Next

\* An event handled keeps the invariant, whether or not a result is then to be
\* stamped: the card that gets a stamp is quarantined or no longer suspect.
LEMMA HandleKeeps ==
    ASSUME FaultInv, NEW g \in Gpu, NEW event \in CardEvent, handle(g, event),
           UNCHANGED daemon,
           recording' = recording \/ (recording' = recording \cup {g} /\ event # "jobXid")
    PROVE  FaultInv'
<1>1. NodeOf[g] \in daemon
  BY DEF handle, Unlocked
<1>2. /\ cards' = cards \cup {g} \/ cards' = cards \ {g}
      /\ event \notin {"jobXid", "cleared"} => cards' = cards \cup {g}
      /\ event = "jobXid" => cards' = cards
  BY DEF handle, apply, CardEvent
<1>3. tested' \subseteq tested
  BY DEF handle
<1>4. /\ event = "cleared" => suspect' = suspect \ {g}
      /\ event = "jobXid" => suspect' = suspect
      /\ event \notin {"jobXid", "cleared"} => suspect' = suspect \cup {g}
  BY DEF handle
<1>5. suspect' \subseteq Gpu
  BY <1>4 DEF FaultInv
<1>6. ASSUME NEW h \in Gpu, NodeOf[h] \notin daemon
      PROVE  Untested(h)'
  BY <1>1, <1>3, <1>6 DEF FaultInv, Untested
<1>7. ASSUME NEW h \in suspect', NodeOf[h] \in daemon
      PROVE  h \in cards' \/ Untested(h)'
  <2>1. CASE h = g
    BY <1>2, <1>3, <1>4, <1>7, <2>1 DEF FaultInv, Untested
  <2>2. CASE h # g
    BY <1>2, <1>3, <1>4, <1>7, <2>2 DEF FaultInv, Untested
  <2> QED
    BY <2>1, <2>2
<1> QED
  BY <1>5, <1>6, <1>7 DEF FaultInv

\* The invariant holds at first and every step keeps it.
LEMMA FaultInvStep ==
    ASSUME FaultInv, [Next]_vars
    PROVE  FaultInv'
<1>1. CASE UNCHANGED faultVars
  BY <1>1 DEF FaultInv, Untested, faultVars
<1>2. ASSUME NEW g \in Gpu, Stamp(g)
      PROVE  FaultInv'
  BY <1>2 DEF FaultInv, Untested, Stamp, Unlocked
<1>3. ASSUME NEW g \in Gpu, NEW event \in CardEvent, Event(g, event)
      PROVE  FaultInv'
  BY <1>3, HandleKeeps DEF Event
<1>4. ASSUME NEW g \in Gpu, NEW passed, record_test(g, passed)
      PROVE  FaultInv'
  <2>1. CASE passed
    BY <1>4, <2>1, HandleKeeps DEF record_test, CardEvent
  <2>2. CASE ~passed
    BY <1>4, <2>2, HandleKeeps DEF record_test, CardEvent
  <2> QED
    BY <2>1, <2>2
<1>5. ASSUME NEW ns, MonitorsDie(ns)
      PROVE  FaultInv'
  BY <1>5 DEF FaultInv, Untested, MonitorsDie
<1>6. ASSUME NEW ns, NEW pages, open(ns, pages)
      PROVE  FaultInv'
  BY <1>6 DEF FaultInv, Untested, open
<1> QED
  BY StepKinds, <1>1, <1>2, <1>3, <1>4, <1>5, <1>6

\* A fault is never forgotten (quarantine.rs): whatever is lost when a daemon
\* dies before, while or instead of saving a quarantine, the card is quarantined
\* or untested until a test passes or an operator clears it.
THEOREM FaultsRemembered == Spec => []FaultNotForgotten
<1>1. Init => FaultInv
  BY DEF Init, MonitorInit, FaultInv, Untested
<1>2. FaultInv /\ [Next]_vars => FaultInv'
  BY FaultInvStep
<1>3. FaultInv => FaultNotForgotten
  BY DEF FaultInv, Untested, FaultNotForgotten
<1> QED
  BY <1>1, <1>2, <1>3, PTL DEF Spec

-----------------------------------------------------------------------------
(* Tests and the cards booked for them *)

TestTypes ==
    /\ holder \in [Gpu -> {"free", "job", "test"}]
    /\ track \in [Gpu -> {"none", "start", "run", "kill", "report", "ended"}]
    /\ proc \in [Gpu -> {"none", "late", "run", "exited"}]
    /\ stray \in [Gpu -> [BOOLEAN -> Nat]] /\ wire \in [Gpu -> [BOOLEAN -> Nat]]

\* TestAlone is not inductive: a test given up while it runs, or may yet be
\* started, must be one whose kill did not arrive or whose Launch is late, and
\* one about to be launched must not run yet.
TestInv ==
    /\ TestTypes
    /\ \A g \in Gpu : holder[g] = "test" <=> track[g] # "none"
    /\ \A g \in Gpu : proc[g] \in {"late", "run"} => track[g] \notin {"none", "start"}
    /\ \A g \in Gpu : proc[g] \in {"late", "run"} /\ track[g] \in {"report", "ended"} => g \in orphaned
    /\ \A g \in Gpu, long \in BOOLEAN : stray[g][long] > 0 \/ wire[g][long] > 0 => g \in orphaned

\* What TestInv speaks of.
testVars == <<holder, track, proc, stray, wire, orphaned>>

\* One more in a function to Nat.
LEMMA OneMore ==
    ASSUME NEW S, NEW f \in [S -> Nat], NEW x \in S
    PROVE  [f EXCEPT ![x] = f[x] + 1] \in [S -> Nat]
OBVIOUS

\* Of two counts that are not both zero one is positive.
LEMMA OneOfTwo ==
    ASSUME NEW a \in Nat, NEW b \in Nat, a + b > 0
    PROVE  a > 0 \/ b > 0
OBVIOUS

\* Cutting off tests of gs counts, of each card, at most the one that is at p.
LEMMA CutOffFacts ==
    ASSUME NEW f \in [Gpu -> [BOOLEAN -> Nat]], NEW gs, NEW p
    PROVE  /\ CutOff(gs, p, f) \in [Gpu -> [BOOLEAN -> Nat]]
           /\ \A g \in Gpu : CutOff(gs, p, f)[g] = f[g] \/ (g \in gs /\ proc[g] = p)
<1>1. ASSUME NEW g \in Gpu
      PROVE  [f[g] EXCEPT ![g \in retest] = @ + 1] \in [BOOLEAN -> Nat]
  <2>1. f[g] \in [BOOLEAN -> Nat] /\ (g \in retest) \in BOOLEAN
    OBVIOUS
  <2> QED
    BY <2>1, OneMore, Zenon
<1> QED
  BY <1>1 DEF CutOff

\* A card with tests on their own after some were cut off had such tests before,
\* or one of those cut off.
LEMMA CutOffOrphans ==
    ASSUME TestInv, NEW gs, NEW g \in Gpu, NEW long \in BOOLEAN,
           CutOff(gs, "run", stray)[g][long] > 0 \/ CutOff(gs, "late", wire)[g][long] > 0
    PROVE  g \in orphaned \/ (g \in gs /\ proc[g] \in {"late", "run"})
<1>1. /\ CutOff(gs, "run", stray)[g] = stray[g] \/ (g \in gs /\ proc[g] = "run")
      /\ CutOff(gs, "late", wire)[g] = wire[g] \/ (g \in gs /\ proc[g] = "late")
  BY CutOffFacts DEF TestInv, TestTypes
<1> QED
  BY <1>1 DEF TestInv

\* finish_qualifications keeps the invariant.
LEMMA FinishKeeps ==
    ASSUME TestInv, NEW g \in Gpu, Poll(g) \/ PollUnreachable(g) \/ Kill(g) \/ Report(g)
    PROVE  TestInv'
<1>1. CASE Poll(g)
  BY <1>1 DEF Poll, Exited, TestInv, TestTypes
<1>2. CASE PollUnreachable(g)
  BY <1>2 DEF PollUnreachable, WhenUnreachable, TestInv, TestTypes
<1>3. CASE Kill(g)
  <2>1. /\ track[g] = "kill" /\ track' = [track EXCEPT ![g] = "report"]
        /\ UNCHANGED <<holder, stray, wire>>
        /\ \/ proc' = [proc EXCEPT ![g] = "exited"] /\ UNCHANGED orphaned
           \/ orphaned' = orphaned \cup {g} /\ UNCHANGED proc
    BY <1>3 DEF Kill
  <2> QED
    BY <2>1 DEF TestInv, TestTypes
<1>4. CASE Report(g)
  BY <1>4 DEF Report, TestInv, TestTypes
<1> QED
  BY <1>1, <1>2, <1>3, <1>4

\* Releasing the cards of the tests that ended keeps it.
LEMMA ReleaseKeeps ==
    ASSUME TestInv, ReleaseAndRead
    PROVE  TestInv'
<1> DEFINE ended == {g \in Gpu : track[g] = "ended"}
<1>1. /\ holder' = [g \in Gpu |-> IF g \in ended THEN "free" ELSE holder[g]]
      /\ track' = [g \in Gpu |-> IF g \in ended THEN "none" ELSE track[g]]
      /\ proc' = [g \in Gpu |-> IF g \in ended THEN "none" ELSE proc[g]]
      /\ stray' = CutOff(ended, "run", stray) /\ wire' = CutOff(ended, "late", wire) /\ UNCHANGED orphaned
  BY DEF ReleaseAndRead, Forget
<1>2. TestTypes'
  BY <1>1, CutOffFacts DEF TestInv, TestTypes
<1>3. ASSUME NEW g \in Gpu, NEW long \in BOOLEAN, stray'[g][long] > 0 \/ wire'[g][long] > 0
      PROVE  g \in orphaned
  <2>1. g \in orphaned \/ (g \in ended /\ proc[g] \in {"late", "run"})
    <3> HIDE DEF ended
    <3> QED BY <1>1, <1>3, CutOffOrphans
  <2> QED
    BY <2>1 DEF TestInv
<1> QED
  BY <1>1, <1>2, <1>3 DEF TestInv, TestTypes

\* Choosing cards and starting their tests keeps it.
LEMMA StartKeeps ==
    ASSUME TestInv, \/ \E settled \in SUBSET settling, aged \in SUBSET Gpu : Apply(settled, aged)
                    \/ \E g \in Gpu : Start(g)
    PROVE  TestInv'
<1>1. ASSUME NEW settled \in SUBSET settling, NEW aged \in SUBSET Gpu, Apply(settled, aged)
      PROVE  TestInv'
  <2> DEFINE chosen == ToQualify(settled, aged)
  <2>1. /\ holder' = [g \in Gpu |-> IF g \in chosen THEN "test" ELSE holder[g]]
        /\ track' = [g \in Gpu |-> IF g \in chosen THEN "start" ELSE track[g]]
        /\ UNCHANGED <<proc, stray, wire, orphaned>>
    BY <1>1 DEF Apply, Forget
  <2>2. \A g \in chosen : g \in Gpu /\ holder[g] = "free"
    BY DEF ToQualify
  <2> HIDE DEF chosen
  <2> QED
    BY <2>1, <2>2 DEF TestInv, TestTypes
<1>2. ASSUME NEW g \in Gpu, Start(g)
      PROVE  TestInv'
  <2>1. /\ track[g] = "start" /\ UNCHANGED <<stray, wire, orphaned>>
        /\ \/ /\ track' = [track EXCEPT ![g] = "run"]
              /\ \E p \in {"none", "late", "run"} : proc' = [proc EXCEPT ![g] = p]
              /\ UNCHANGED holder
           \/ /\ holder' = [holder EXCEPT ![g] = "free"]
              /\ track' = [track EXCEPT ![g] = "none"]
              /\ UNCHANGED proc
    BY <1>2 DEF Start
  <2>2. TestTypes'
    BY <2>1 DEF TestInv, TestTypes
  <2>3. \A h \in Gpu : holder'[h] = "test" <=> track'[h] # "none"
    BY <2>1 DEF TestInv, TestTypes
  <2>4. \A h \in Gpu : proc'[h] \in {"late", "run"} => track'[h] \notin {"none", "start"}
    BY <2>1 DEF TestInv, TestTypes
  <2>5. \A h \in Gpu : proc'[h] \in {"late", "run"} /\ track'[h] \in {"report", "ended"} => h \in orphaned'
    BY <2>1 DEF TestInv, TestTypes
  <2>6. \A h \in Gpu, long \in BOOLEAN : stray'[h][long] > 0 \/ wire'[h][long] > 0 => h \in orphaned'
    BY <2>1 DEF TestInv
  <2> QED
    BY <2>2, <2>3, <2>4, <2>5, <2>6, Zenon DEF TestInv
<1> QED
  BY <1>1, <1>2

\* Jobs that get and leave cards, tests that start late and tests that end keep it.
LEMMA CardUseKeeps ==
    ASSUME TestInv, NEW g \in Gpu,
           \/ Place(g) \/ JobEnds(g) \/ LateStart(g) \/ TestEnds(g)
           \/ \E long \in BOOLEAN : LateStray(g, long) \/ StrayEnds(g, long)
    PROVE  TestInv'
<1>1. CASE Place(g)
  BY <1>1 DEF Place, TestInv, TestTypes
<1>2. CASE JobEnds(g)
  BY <1>2 DEF JobEnds, TestInv, TestTypes
<1>3. CASE TestEnds(g)
  BY <1>3 DEF TestEnds, TestInv, TestTypes
<1>4. ASSUME NEW long \in BOOLEAN, StrayEnds(g, long)
      PROVE  TestInv'
  <2>1. /\ stray[g][long] > 0 /\ stray' = [stray EXCEPT ![g][long] = @ - 1]
        /\ UNCHANGED <<holder, track, proc, wire, orphaned>>
    BY <1>4 DEF StrayEnds
  <2>2. TestTypes'
    BY <2>1 DEF TestInv, TestTypes
  <2>3. g \in orphaned
    BY <2>1, <1>4 DEF TestInv
  <2> QED
    BY <2>1, <2>2, <2>3 DEF TestInv, TestTypes
<1>5. CASE LateStart(g)
  BY <1>5 DEF LateStart, TestInv, TestTypes
<1>6. ASSUME NEW long \in BOOLEAN, LateStray(g, long)
      PROVE  TestInv'
  <2>1. /\ wire[g][long] > 0
        /\ wire' = [wire EXCEPT ![g][long] = @ - 1] /\ stray' = [stray EXCEPT ![g][long] = @ + 1]
        /\ UNCHANGED <<holder, track, proc, orphaned>>
    BY <1>6 DEF LateStray
  <2>2. TestTypes'
    BY <2>1 DEF TestInv, TestTypes
  <2>3. g \in orphaned
    BY <2>1, <1>6 DEF TestInv
  <2> QED
    BY <2>1, <2>2, <2>3 DEF TestInv, TestTypes
<1> QED
  BY <1>1, <1>2, <1>3, <1>4, <1>5, <1>6

\* A crash of the controller keeps it: what it cuts off is orphaned.
LEMMA CrashKeeps ==
    ASSUME TestInv, Crash
    PROVE  TestInv'
<1>1. /\ holder' = [g \in Gpu |-> IF g \in {h \in Gpu : holder[h] = "test"} THEN "free" ELSE holder[g]]
      /\ track' = [g \in Gpu |-> "none"] /\ proc' = [g \in Gpu |-> "none"]
      /\ stray' = CutOff(Gpu, "run", stray) /\ wire' = CutOff(Gpu, "late", wire)
      /\ orphaned' = orphaned \cup {g \in Gpu : proc[g] \in {"late", "run"}}
  BY DEF Crash, Forget, Each
<1>2. TestTypes'
  BY <1>1, CutOffFacts DEF TestInv, TestTypes
<1>3. ASSUME NEW g \in Gpu, NEW long \in BOOLEAN, stray'[g][long] > 0 \/ wire'[g][long] > 0
      PROVE  g \in orphaned'
  BY <1>1, <1>3, CutOffOrphans
<1> QED
  BY <1>1, <1>2, <1>3 DEF TestInv, TestTypes

\* TestInv holds in every behaviour.
LEMMA TestInvariant == Spec => []TestInv
<1>1. Init => TestInv
  BY DEF Init, Each, NoTests, TestInv, TestTypes
<1>2. TestInv /\ [Next]_vars => TestInv'
  <2> SUFFICES ASSUME TestInv, [Next]_vars
               PROVE  TestInv'
    OBVIOUS
  <2>1. CASE UNCHANGED testVars
    BY <2>1 DEF testVars, TestInv, TestTypes
  <2>2. CASE UNCHANGED vars \/ MonitorStep \/ TunnelStep \/ Restart \/ EndTicks
             \/ \E n \in Node : DaemonDies(n) \/ DaemonStarts(n)
    BY <2>1, <2>2 DEF vars, checkVars, testVars, MonitorStep, TunnelStep, Restart, EndTicks,
                      DaemonDies, DaemonStarts
  <2> QED
    BY <2>2, FinishKeeps, ReleaseKeeps, StartKeeps, CardUseKeeps, CrashKeeps DEF Next, LoopStep
<1> QED
  BY <1>1, <1>2, PTL DEF Spec

\* A card is booked for a test exactly while the controller tracks one, and a
\* test runs, or may yet be started, on a card not booked for it only if a crash
\* of the controller, a kill that did not arrive or a Launch later than its
\* timeout cut it off (check_gpus, start_qualification, finish_qualifications).
THEOREM CardsUnderTest == Spec => []TestAlone
<1>1. TestInv => TestAlone
  <2> SUFFICES ASSUME TestInv
               PROVE  TestAlone
    OBVIOUS
  <2>1. ASSUME NEW g \in Gpu, NEW long \in BOOLEAN, stray[g][long] + wire[g][long] > 0
        PROVE  g \in orphaned
    <3>1. stray[g][long] \in Nat /\ wire[g][long] \in Nat
      BY DEF TestInv, TestTypes
    <3>2. stray[g][long] > 0 \/ wire[g][long] > 0
      BY <2>1, <3>1, OneOfTwo, Zenon
    <3> QED
      BY <3>2 DEF TestInv
  <2> QED
    BY <2>1 DEF TestInv, TestAlone
<1> QED
  BY <1>1, TestInvariant, PTL

-----------------------------------------------------------------------------
(* Types *)

\* What a daemon answers with is a reading of its cards.
LEMMA ReadingTypes == \A n : {ReadAll(n)} \in Readings(n) /\ {} \in Readings(n)
<1>1. ASSUME NEW g PROVE read(g) \in Reading
  <2>1. \A q, t, b \in BOOLEAN : [quarantined |-> q, tested |-> t, busy |-> b] \in Reading
    BY DEF Reading
  <2>2. (g \in cards) \in BOOLEAN /\ (g \in tested) \in BOOLEAN /\ (g \in busy) \in BOOLEAN
    OBVIOUS
  <2> QED
    BY <2>1, <2>2, Zenon DEF read
<1>2. ASSUME NEW n PROVE ReadAll(n) \in [Of(n) -> Reading]
  BY <1>1 DEF ReadAll
<1> QED
  BY <1>2 DEF Readings

\* No operation of a monitor leaves its types.
LEMMA MonitorTypes ==
    ASSUME MonitorTypeOK
    PROVE  /\ \A g \in Gpu : \A passed : record_test(g, passed) => MonitorTypeOK'
           /\ \A g \in Gpu : \A event : Event(g, event) => MonitorTypeOK'
           /\ \A g \in Gpu : Stamp(g) => MonitorTypeOK'
           /\ \A n \in Node : save(n) \/ SaveFails(n) => MonitorTypeOK'
           /\ \A ns : MonitorsDie(ns) => MonitorTypeOK'
           /\ \A ns \in SUBSET Node : \A pages : open(ns, pages) => MonitorTypeOK'
           /\ UNCHANGED monitorVars => MonitorTypeOK'
<1> USE CardsAssumption DEF MonitorTypeOK
<1>1. ASSUME NEW g \in Gpu, NEW event, handle(g, event)
      PROVE  cards' \subseteq Gpu /\ tested' \subseteq Gpu /\ saving' \subseteq Node /\ suspect' \subseteq Gpu
  BY <1>1 DEF handle
<1>2. \A g \in Gpu : \A passed : record_test(g, passed) => MonitorTypeOK'
  BY <1>1 DEF record_test
<1>3. \A g \in Gpu : \A event : Event(g, event) => MonitorTypeOK'
  BY <1>1 DEF Event
<1>4. \A g \in Gpu : Stamp(g) => MonitorTypeOK'
  BY DEF Stamp
<1>5. \A n \in Node : save(n) \/ SaveFails(n) => MonitorTypeOK'
  BY DEF save, SaveFails
<1>6. \A ns : MonitorsDie(ns) => MonitorTypeOK'
  BY DEF MonitorsDie
<1>7. \A ns \in SUBSET Node : \A pages : open(ns, pages) => MonitorTypeOK'
  BY DEF open
<1>8. UNCHANGED monitorVars => MonitorTypeOK'
  BY DEF monitorVars
<1> QED
  BY <1>2, <1>3, <1>4, <1>5, <1>6, <1>7, <1>8

\* No step takes a monitor out of its types.
LEMMA MonitorStepTypes ==
    ASSUME TypeOK, [Next]_vars
    PROVE  MonitorTypeOK'
<1> USE MonitorTypes DEF TypeOK
<1>1. CASE UNCHANGED vars
  BY <1>1 DEF vars
<1>2. CASE LoopStep
  <2>1. ASSUME NEW g \in Gpu, Poll(g) \/ PollUnreachable(g) \/ Kill(g) \/ Start(g) PROVE UNCHANGED monitorVars
    BY <2>1 DEF Poll, PollUnreachable, Kill, Start
  <2>2. ASSUME NEW g \in Gpu, Report(g) PROVE MonitorTypeOK'
    BY <2>2 DEF Report
  <2> QED
    BY <1>2, <2>1, <2>2 DEF LoopStep, ReleaseAndRead, EndTicks, Apply
<1>3. CASE \/ \E g \in Gpu : Place(g) \/ JobEnds(g) \/ LateStart(g)
           \/ \E g \in Gpu, long \in BOOLEAN : LateStray(g, long)
  BY <1>3 DEF Place, JobEnds, LateStart, LateStray
<1>4. \A g \in Gpu : \A long : Reported(g, long) => MonitorTypeOK'
  BY DEF Reported
<1>5. CASE \E g \in Gpu : TestEnds(g)
  BY <1>4, <1>5 DEF TestEnds
<1>6. CASE \E g \in Gpu, long \in BOOLEAN : StrayEnds(g, long)
  BY <1>4, <1>6 DEF StrayEnds
<1>7. CASE MonitorStep
  BY <1>7 DEF MonitorStep, MonitorTypeOK
<1>8. CASE TunnelStep
  BY <1>8 DEF TunnelStep
<1>9. CASE \E n \in Node : DaemonDies(n) \/ DaemonStarts(n)
  BY <1>9 DEF DaemonDies, DaemonStarts
<1>10. CASE Crash
  BY <1>10 DEF Crash
<1>11. CASE Restart
  BY <1>11 DEF Restart, TunnelTypeOK
<1> QED
  BY <1>1, <1>2, <1>3, <1>5, <1>6, <1>7, <1>8, <1>9, <1>10, <1>11 DEF Next

\* The readings and the checks are kept by node.
ByNode == health = [n \in Node |-> health[n]] /\ check = [n \in Node |-> check[n]]

\* No operation of a tunnel leaves its types.
LEMMA TunnelTypes ==
    ASSUME TunnelTypeOK, ByNode
    PROVE  /\ \A n \in Node : \/ Check(n) \/ CheckFails(n) \/ SetOnline(n) \/ SetHealth(n) \/ ssh_exited(n)
                              \/ spawn(n, "up") \/ spawn(n, "exited") \/ SshExits(n) \/ lost(n)
                              => (TunnelTypeOK /\ ByNode)'
           /\ UNCHANGED tunnelVars => (TunnelTypeOK /\ ByNode)'
<1> USE DEF TunnelTypeOK, ByNode
<1>1. UNCHANGED tunnelVars => (TunnelTypeOK /\ ByNode)'
  BY DEF tunnelVars
<1>2. ASSUME NEW n \in Node, NEW c \in Checked(n) \cup {NoCheck}, check' = [check EXCEPT ![n] = c]
      PROVE  (\A m \in Node : check[m] \in Checked(m) \cup {NoCheck})' /\ check' = [m \in Node |-> check'[m]]
  BY <1>2
<1>3. ASSUME NEW n \in Node, NEW s \in NodeState
      PROVE  [at |-> "answered", state |-> s, info |-> {}] \in Checked(n)
  BY ReadingTypes DEF Checked
<1>4. ASSUME NEW n \in Node, Check(n) PROVE (TunnelTypeOK /\ ByNode)'
  <2>1. Found(n) \in Checked(n)
    BY ReadingTypes DEF Found, Checked, NodeState
  <2> QED
    BY <1>2, <1>4, <2>1 DEF Check
<1>5. ASSUME NEW n \in Node, CheckFails(n) PROVE (TunnelTypeOK /\ ByNode)'
  BY <1>2, <1>3, <1>5 DEF CheckFails, NodeState
<1>6. ASSUME NEW n \in Node, SetOnline(n) PROVE (TunnelTypeOK /\ ByNode)'
  <2>1. check[n] \in Checked(n)
    BY <1>6 DEF SetOnline, NoCheck
  <2>2. [check[n] EXCEPT !.at = "flagged"] \in Checked(n)
    BY <2>1 DEF Checked
  <2>3. check' = [check EXCEPT ![n] = [check[n] EXCEPT !.at = "flagged"]]
    BY <1>6 DEF SetOnline
  <2> QED
    BY <1>2, <1>6, <2>2, <2>3 DEF SetOnline
<1>7. ASSUME NEW n \in Node, SetHealth(n) PROVE (TunnelTypeOK /\ ByNode)'
  <2>1. check[n].info \in Readings(n)
    BY <1>7 DEF SetHealth, NoCheck, Checked
  <2>2. enter(n, check[n].info) \in Readings(n)
    BY <2>1 DEF enter
  <2> QED
    BY <1>2, <1>7, <2>2 DEF SetHealth
<1>8. ASSUME NEW n \in Node, ssh_exited(n) PROVE (TunnelTypeOK /\ ByNode)'
  BY <1>2, <1>3, <1>8 DEF ssh_exited, NodeState
<1>9. ASSUME NEW n \in Node, spawn(n, "up") \/ spawn(n, "exited") \/ SshExits(n) PROVE (TunnelTypeOK /\ ByNode)'
  BY <1>9 DEF spawn, SshExits
<1>10. ASSUME NEW n \in Node, lost(n) PROVE (TunnelTypeOK /\ ByNode)'
  BY <1>10 DEF lost
<1> QED
  BY <1>1, <1>4, <1>5, <1>6, <1>7, <1>8, <1>9, <1>10

\* No step takes a tunnel out of its types.
LEMMA TunnelStepTypes ==
    ASSUME TypeOK, ByNode, [Next]_vars
    PROVE  (TunnelTypeOK /\ ByNode)'
<1> USE TunnelTypes DEF TypeOK
<1>1. CASE UNCHANGED tunnelVars
  BY <1>1
<1>2. ASSUME NEW g \in Gpu, PollUnreachable(g) \/ Kill(g) \/ Start(g) PROVE (TunnelTypeOK /\ ByNode)'
  <2>1. NodeOf[g] \in Node
    BY CardsAssumption
  <2> QED
    BY <1>2, <2>1 DEF PollUnreachable, Kill, Start
<1>3. CASE TunnelStep
  BY <1>3 DEF TunnelStep
<1>4. ASSUME NEW n \in Node, DaemonDies(n) \/ DaemonStarts(n) PROVE (TunnelTypeOK /\ ByNode)'
  BY <1>4 DEF DaemonDies, DaemonStarts, tunnelVars, TunnelTypeOK, ByNode
<1>5. CASE Crash
  BY <1>5, ReadingTypes DEF Crash, NoReadings, TunnelTypeOK, ByNode
<1>6. CASE Restart
  BY <1>6, ReadingTypes DEF Restart, TunnelTypeOK, ByNode
<1>7. ASSUME Next, ~TunnelStep, ~Crash, ~Restart, ~ \E n \in Node : DaemonDies(n) \/ DaemonStarts(n),
             ~ \E g \in Gpu : PollUnreachable(g) \/ Kill(g) \/ Start(g)
      PROVE  UNCHANGED tunnelVars
  BY <1>7 DEF Next, LoopStep, ReleaseAndRead, EndTicks, Apply, Poll, Report, Place, JobEnds, LateStart, LateStray, TestEnds,
              StrayEnds, MonitorStep
<1> QED
  BY <1>1, <1>2, <1>3, <1>4, <1>5, <1>6, <1>7 DEF vars

\* The types of the check itself.
CheckTypes ==
    /\ pc \in {"down", "finish", "apply", "start", "tick"}
    /\ todo \subseteq Gpu
    /\ \A n \in Node : reading[n] \in Readings(n)
    /\ outOf \subseteq Gpu /\ requalify \subseteq Gpu /\ settling \subseteq Gpu
    /\ retest \subseteq Gpu /\ orphaned \subseteq Gpu
    /\ faults \in 0..MaxFaults

\* No step takes the check out of its types.
LEMMA CheckStepTypes ==
    ASSUME TypeOK, [Next]_vars
    PROVE  CheckTypes'
<1>1. CheckTypes
  BY DEF TypeOK, CheckTypes
<1>2. \A kind : Fault(kind) => faults' \in 0..MaxFaults
  BY <1>1, GpuFaultsAssumption DEF Fault, CheckTypes
<1> USE <1>1, <1>2 DEF CheckTypes
<1>3. ASSUME NEW g \in Gpu, Poll(g) \/ PollUnreachable(g) \/ Kill(g) \/ Report(g) PROVE CheckTypes'
  BY <1>3 DEF Poll, PollUnreachable, Kill, Report
<1>4. ASSUME NEW g \in Gpu, Start(g) PROVE CheckTypes'
  BY <1>4 DEF Start
<1>5. CASE ReleaseAndRead
  <2>1. \A n \in Node : reading'[n] \in Readings(n)
    BY <1>5, ReadingTypes DEF ReleaseAndRead, TypeOK, TunnelTypeOK
  <2> QED
    BY <1>5, <2>1 DEF ReleaseAndRead
<1>6. ASSUME NEW settled \in SUBSET settling, NEW aged \in SUBSET Gpu, Apply(settled, aged) PROVE CheckTypes'
  <2>1. ToQualify(settled, aged) \subseteq Gpu /\ ApplyBlocked \subseteq Gpu
    BY DEF ToQualify, ApplyBlocked
  <2> QED
    BY <1>6, <2>1, ReadingTypes DEF Apply, NoReadings
<1>7. ASSUME NEW g \in Gpu, Place(g) \/ JobEnds(g) \/ LateStart(g) \/ TestEnds(g) PROVE CheckTypes'
  BY <1>7 DEF Place, JobEnds, LateStart, TestEnds
<1>8. ASSUME NEW g \in Gpu, NEW long, LateStray(g, long) \/ StrayEnds(g, long) PROVE CheckTypes'
  BY <1>8 DEF LateStray, StrayEnds
<1>9. CASE EndTicks
  BY <1>9 DEF EndTicks
<1>10. CASE MonitorStep \/ TunnelStep
  BY <1>10 DEF MonitorStep, TunnelStep, checkVars
<1>11. ASSUME NEW n \in Node, DaemonDies(n) \/ DaemonStarts(n) PROVE CheckTypes'
  BY <1>11 DEF DaemonDies, DaemonStarts, checkVars
<1>12. CASE Crash
  BY <1>12, ReadingTypes DEF Crash, NoReadings
<1>13. CASE Restart
  BY <1>13 DEF Restart
<1>14. CASE UNCHANGED vars
  BY <1>14 DEF vars, checkVars
<1> QED
  BY <1>3, <1>4, <1>5, <1>6, <1>7, <1>8, <1>9, <1>10, <1>11, <1>12, <1>13, <1>14 DEF Next, LoopStep

\* The GPU check, the monitors and the tunnels never leave their types: every
\* reading is one of all cards of its node, and the count of the tests that
\* went astray never drops below zero.
THEOREM GpuTypes == Spec => []TypeOK
<1>1. TypeOK <=> MonitorTypeOK /\ TunnelTypeOK /\ TestTypes /\ CheckTypes
  BY Zenon DEF TypeOK, TestTypes, CheckTypes
<1>2. TypeOK' <=> (MonitorTypeOK /\ TunnelTypeOK /\ TestTypes /\ CheckTypes)'
  BY <1>1, PTL
<1>3. Init => TypeOK /\ ByNode
  <2> SUFFICES ASSUME Init
               PROVE  TypeOK /\ ByNode
    OBVIOUS
  <2>1. MonitorTypeOK
    BY DEF Init, MonitorInit, MonitorTypeOK
  <2>2. TunnelTypeOK /\ ByNode
    BY ReadingTypes DEF Init, TunnelInit, TunnelTypeOK, ByNode
  <2>3. CheckTypes
    <3>1. \A n \in Node : reading[n] \in Readings(n)
      BY ReadingTypes DEF Init, NoReadings
    <3>2. faults \in 0..MaxFaults
      BY GpuFaultsAssumption DEF Init
    <3> QED
      BY <3>1, <3>2 DEF Init, CheckTypes
  <2>4. TestTypes
    <3>1. NoTests \in [BOOLEAN -> Nat]
      BY DEF NoTests
    <3> QED
      BY <3>1 DEF Init, Each, TestTypes
  <2> QED
    BY <1>1, <2>1, <2>2, <2>3, <2>4
<1>4. TestTypes' /\ TypeOK /\ ByNode /\ [Next]_vars => (TypeOK /\ ByNode)'
  BY <1>2, MonitorStepTypes, TunnelStepTypes, CheckStepTypes
<1>5. TestInv => TestTypes
  BY DEF TestInv
<1> QED
  BY <1>3, <1>4, <1>5, TestInvariant, PTL DEF Spec
=============================================================================
