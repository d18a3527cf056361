----------------------------- MODULE MCScheduler -----------------------------
(***************************************************************************)
(* Small instances of the controller for TLC.                              *)
(***************************************************************************)
EXTENDS Scheduler, TLC

CONSTANTS jobA, jobB, jobC, run1

\* Two jobs that compete for cards and one that waits for the first.
ChainJobs == {jobA, jobB, jobC}
ChainDeps == jobA :> {} @@ jobB :> {} @@ jobC :> {jobA}
SoloJobs == {jobA}
SoloDeps == jobA :> {}
PairJobs == {jobA, jobB}
PairDeps == jobA :> {} @@ jobB :> {}

OneRun == {run1}
OneRunOf == [j \in Job |-> run1]

OneCard == [cpu |-> 1, memory |-> 1, gpu |-> 1, vram |-> 0]
EachOneCard == [j \in Job |-> OneCard]

Inventory == [n \in Node |-> [cpu |-> 2, memory |-> 2, vram |-> [g \in Card |-> 4]]]

\* Nodes that one such job fills.
TightInventory == [n \in Node |-> [cpu |-> 1, memory |-> 1, vram |-> [g \in Card |-> 4]]]

\* A job that gives only VRAM and one that wants any card.  The first goes to
\* the large card of node 2, or to both cards of node 1; the second is turned
\* down by node 1, so the two meet on node 2.
MixedNeeds == jobA :> [cpu |-> 1, memory |-> 2, gpu |-> 0, vram |-> 6] @@ jobB :> OneCard
MixedInventory ==
    1 :> [cpu |-> 2, memory |-> 3, vram |-> (0 :> 4 @@ 1 :> 4 @@ 2 :> 0)]
    @@ 2 :> [cpu |-> 3, memory |-> 3, vram |-> (0 :> 0 @@ 1 :> 4 @@ 2 :> 8)]
FreeDeps == [j \in Job |-> {}]

NothingLacking == [n \in Node |-> {}]
FirstLacksA == [n \in Node |-> IF n = 1 THEN {jobA} ELSE {}]
FirstLacksB == [n \in Node |-> IF n = 1 THEN {jobB} ELSE {}]
=============================================================================
