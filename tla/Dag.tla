--------------------------------- MODULE Dag ---------------------------------
(***************************************************************************)
(* Validation of a submitted workflow: its jobs must have distinct ids and *)
(* depend on each other without a cycle, which Kahn's algorithm decides.   *)
(*                                                                         *)
(* A spec is a sequence of records [id, depends_on]; depends_on is a list  *)
(* as the user wrote it, in which an id may occur twice.                   *)
(***************************************************************************)
EXTENDS Integers, SequencesExt

CONSTANTS
    Id,        \* the ids a spec may mention
    MaxJobs,   \* bound: jobs of a spec
    MaxDeps    \* bound: dependencies a job lists

ASSUME DagBounds == MaxJobs \in Nat /\ MaxDeps \in Nat

VARIABLES
    jobs,        \* the spec
    phase,       \* "check", "sort" or "done"
    outcome,     \* "none", "ok" or the kind of DagError
    blamed,      \* the jobs a Cycle may name
    in_degree,   \* per job, how many dependencies have yet to be ordered
    queue,       \* jobs with none left
    order        \* the jobs ordered so far

vars == <<jobs, phase, outcome, blamed, in_degree, queue, order>>

Specs == SeqOf([id : Id, depends_on : SeqOf(Id, MaxDeps)], MaxJobs)

Ids == {jobs[i].id : i \in DOMAIN jobs}
Deps(id) == (CHOOSE job \in ToSet(jobs) : job.id = id).depends_on
Occurs(dep, id) == Cardinality({i \in DOMAIN Deps(id) : Deps(id)[i] = dep})

TypeOK ==
    /\ jobs \in Specs
    /\ phase \in {"check", "sort", "done"}
    /\ outcome \in {"none", "ok", "EmptyWorkflow", "DuplicateJobId", "UnknownDependency", "Cycle"}
    /\ blamed \subseteq Id
    /\ phase # "check" => in_degree \in [DOMAIN in_degree -> Nat] /\ DOMAIN in_degree \subseteq Ids
    /\ queue \in Seq(Id) /\ order \in Seq(Id)

Init ==
    /\ jobs \in Specs
    /\ phase = "check" /\ outcome = "none" /\ blamed = {}
    /\ in_degree = <<>> /\ queue = <<>> /\ order = <<>>

-----------------------------------------------------------------------------

check_duplicate_ids == \A i, j \in DOMAIN jobs : jobs[i].id = jobs[j].id => i = j
check_unknown_deps == \A job \in ToSet(jobs) : ToSet(job.depends_on) \subseteq Ids

\* The checks before the sort, in the order validate makes them.
Reject ==
    /\ phase = "check"
    /\ \/ jobs = <<>> /\ outcome' = "EmptyWorkflow"
       \/ jobs # <<>> /\ ~check_duplicate_ids /\ outcome' = "DuplicateJobId"
       \/ check_duplicate_ids /\ ~check_unknown_deps /\ outcome' = "UnknownDependency"
    /\ phase' = "done"
    /\ UNCHANGED <<jobs, blamed, in_degree, queue, order>>

\* Slip: a dependency listed twice counts once, though it is taken off twice.
Degree_Distinct(id) == Cardinality(ToSet(Deps(id)))

Degree(id) == Len(Deps(id))

\* The jobs without dependencies are queued in the order of a hash map.
BeginSort ==
    /\ phase = "check"
    /\ jobs # <<>> /\ check_duplicate_ids /\ check_unknown_deps
    /\ in_degree' = [id \in Ids |-> Degree(id)]
    /\ queue' \in SetToSeqs({id \in Ids : Degree(id) = 0})
    /\ phase' = "sort"
    /\ UNCHANGED <<jobs, outcome, blamed, order>>

\* The order of the spec, which a dependents list keeps.
InSpecOrder(ids) ==
    \A a, b \in DOMAIN ids : \A i, j \in DOMAIN jobs :
        a < b /\ ids[a] = jobs[i].id /\ ids[b] = jobs[j].id => i < j

\* Order the job at the head of the queue: each of its dependents waits for one
\* fewer, per time it listed the job, and joins the queue when it waits for none.
PopFront ==
    LET id == Head(queue)
        waits == [k \in Ids |-> in_degree[k] - Occurs(id, k)]
        freed == {k \in Ids : Occurs(id, k) > 0 /\ waits[k] = 0}
    IN /\ phase = "sort" /\ queue # <<>>
       /\ order' = Append(order, id)
       /\ in_degree' = waits
       /\ \E ready \in SetToSeqs(freed) :
             InSpecOrder(ready) /\ queue' = Tail(queue) \o ready
       /\ UNCHANGED <<jobs, phase, outcome, blamed>>

\* Slip: what is still in the map counts as ordered.
AllOrdered_InMap == Cardinality(DOMAIN in_degree) = Len(jobs)

AllOrdered == Len(order) = Len(jobs)

\* Slip: any job is named.
Stuck_Any == Ids

\* The jobs of which a Cycle error names one.
Stuck == {id \in Ids : in_degree[id] > 0}

EndSort ==
    /\ phase = "sort" /\ queue = <<>>
    /\ outcome' = IF AllOrdered THEN "ok" ELSE "Cycle"
    /\ blamed' = IF AllOrdered THEN {} ELSE Stuck
    /\ phase' = "done"
    /\ UNCHANGED <<jobs, in_degree, queue, order>>

Next == Reject \/ BeginSort \/ PopFront \/ EndSort

Spec == Init /\ [][Next]_vars

-----------------------------------------------------------------------------
(* Properties *)

\* The reference: the ids of ids can be numbered so that each job comes after all
\* it depends on.
Orderable(ids) ==
    \E rank \in [ids -> 1..Cardinality(ids)] :
        \A id \in ids : \A dep \in ToSet(Deps(id)) : dep \in ids /\ rank[dep] < rank[id]

\* validate accepts exactly the workflows that have jobs, give each its own id
\* and can be run in some order; whatever order the queue was filled in.
Decides ==
    phase = "done" =>
        (outcome = "ok" <=> /\ jobs # <<>>
                            /\ Cardinality(Ids) = Len(jobs)
                            /\ Orderable(Ids))

\* A job a Cycle error may name can never run: no set of jobs that is closed
\* under dependencies and free of cycles contains it.
BlamedIsStuck ==
    \A id \in blamed : ~\E ids \in SUBSET Ids : id \in ids /\ Orderable(ids)
=============================================================================
