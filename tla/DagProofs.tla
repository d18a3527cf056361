------------------------------ MODULE DagProofs ------------------------------
(***************************************************************************)
(* Kahn's algorithm decides: validate accepts exactly the workflows that   *)
(* can be run in some order, and the jobs a Cycle error may name are the   *)
(* ones that can never run, for any number of jobs and dependencies.       *)
(*                                                                         *)
(* The argument rests on what in_degree means while the sort is under way: *)
(* the listed dependencies that are not ordered yet.  When the queue runs  *)
(* empty, every job without any is ordered, and the order itself is the    *)
(* witness; a job left over waits for another one left over.               *)
(***************************************************************************)
EXTENDS Dag, FiniteSetTheorems, TLAPS

\* What a bounded list is made of.
LEMMA Lists ==
    ASSUME NEW S, NEW n \in Nat, NEW s \in SeqOf(S, n)
    PROVE  /\ s \in Seq(S)
           /\ Len(s) \in Nat
           /\ DOMAIN s = 1..Len(s)
           /\ \A i \in DOMAIN s : s[i] \in S
<1>1. PICK m \in 0..n : s \in [1..m -> S]
  BY DEF SeqOf
<1> QED
  BY <1>1

\* A list that names each of the members of a set once is as long as the set
\* has members, and only such a list is.
LEMMA Lengths ==
    ASSUME NEW n \in Nat, NEW S, NEW f \in [1..n -> S], \A x \in S : \E i \in 1..n : f[i] = x
    PROVE  /\ IsFiniteSet(S)
           /\ Cardinality(S) \in Nat
           /\ Cardinality(S) = n <=> IsInjective(f)
<1>1. f \in Surjection(1..n, S)
  BY DEF Surjection
<1>2. IsFiniteSet(1..n) /\ Cardinality(1..n) = n
  BY FS_Interval
<1>3. IsFiniteSet(S) /\ (Cardinality(S) = n <=> f \in Injection(1..n, S))
  BY <1>1, <1>2, FS_Surjection
<1>4. f \in Injection(1..n, S) <=> IsInjective(f)
  BY DEF Injection
<1> QED
  BY <1>3, <1>4, FS_CardinalityType

\* Among the members of a set that have a rank, one has the least.
LEMMA LeastRank ==
    ASSUME NEW S, NEW rank, S # {}, \A x \in S : rank[x] \in Nat
    PROVE  \E x \in S : \A y \in S : rank[x] <= rank[y]
<1> DEFINE below(x) == 0..rank[x]
           T == {below(x) : x \in S}
<1>1. IsWellFoundedOn(StrictSubsetOrdering(Nat), FiniteSubsetsOf(Nat))
  BY FS_StrictSubsetOrderingWellFounded
<1>2. \A x \in S : below(x) \subseteq Nat /\ IsFiniteSet(below(x))
  BY FS_Interval
<1>3. T \subseteq FiniteSubsetsOf(Nat) /\ T # {}
  BY <1>2 DEF FiniteSubsetsOf
<1>4. PICK t \in T : \A u \in T : ~(<<u, t>> \in StrictSubsetOrdering(Nat))
  <2> HIDE DEF T
  <2> QED
    BY <1>1, <1>3, WFMin
<1>5. PICK x \in S : t = below(x)
  BY <1>4
<1>6. ASSUME NEW y \in S, rank[y] < rank[x] PROVE FALSE
  <2>1. below(y) \subseteq below(x) /\ below(y) # below(x)
    <3>1. rank[x] \in below(x) /\ rank[x] \notin below(y)
      BY <1>6
    <3>2. below(y) \subseteq below(x)
      BY <1>6
    <3> QED
      BY <3>1, <3>2
  <2>2. <<below(y), below(x)>> \in StrictSubsetOrdering(Nat)
    <3>1. \A A, B \in SUBSET Nat : A \subseteq B /\ A # B => <<A, B>> \in StrictSubsetOrdering(Nat)
      BY DEF StrictSubsetOrdering
    <3>2. below(x) \in SUBSET Nat /\ below(y) \in SUBSET Nat
      BY <1>2
    <3> HIDE DEF below
    <3> QED
      BY <2>1, <3>1, <3>2
  <2> QED
    BY <1>4, <1>5, <2>2
<1>7. \A y \in S : rank[x] <= rank[y]
  BY <1>6
<1> QED
  BY <1>7

\* The spec under validation is a list of jobs, and each lists ids.
Jobs == [id : Id, depends_on : SeqOf(Id, MaxDeps)]

\* What the types of a spec say.
LEMMA SpecTypes ==
    ASSUME jobs \in Specs
    PROVE  /\ Len(jobs) \in Nat /\ DOMAIN jobs = 1..Len(jobs)
           /\ \A i \in DOMAIN jobs : jobs[i].id \in Ids /\ jobs[i].depends_on \in SeqOf(Id, MaxDeps)
           /\ Ids \subseteq Id
           /\ \A id \in Ids : Deps(id) \in Seq(Id) /\ Len(Deps(id)) \in Nat /\ DOMAIN Deps(id) = 1..Len(Deps(id))
<1>1. Len(jobs) \in Nat /\ DOMAIN jobs = 1..Len(jobs) /\ \A i \in DOMAIN jobs : jobs[i] \in Jobs
  BY Lists, DagBounds DEF Specs, Jobs
<1>2. \A i \in DOMAIN jobs : jobs[i].id \in Ids /\ jobs[i].id \in Id /\ jobs[i].depends_on \in SeqOf(Id, MaxDeps)
  BY <1>1 DEF Jobs, Ids
<1>3. ASSUME NEW id \in Ids PROVE Deps(id) \in SeqOf(Id, MaxDeps)
  <2>1. \E job \in ToSet(jobs) : job.id = id
    BY <1>3 DEF Ids, ToSet
  <2>2. \A job \in ToSet(jobs) : job.depends_on \in SeqOf(Id, MaxDeps)
    BY <1>2 DEF ToSet
  <2> QED
    BY <2>1, <2>2 DEF Deps
<1>4. Ids \subseteq Id
  BY <1>2 DEF Ids
<1> QED
  BY <1>1, <1>2, <1>3, <1>4, Lists, DagBounds

\* When no id is given twice, a job depends on what its own entry lists.
LEMMA OwnEntry ==
    ASSUME jobs \in Specs, check_duplicate_ids, NEW i \in DOMAIN jobs
    PROVE  Deps(jobs[i].id) = jobs[i].depends_on
<1>1. \A job \in ToSet(jobs) : job.id = jobs[i].id => job = jobs[i]
  BY DEF ToSet, check_duplicate_ids
<1>2. jobs[i] \in ToSet(jobs)
  BY DEF ToSet
<1> QED
  BY <1>1, <1>2 DEF Deps

\* The ids are as many as the jobs exactly when none is given twice.
LEMMA DuplicatesCount ==
    ASSUME jobs \in Specs
    PROVE  /\ IsFiniteSet(Ids) /\ Cardinality(Ids) \in Nat
           /\ Cardinality(Ids) = Len(jobs) <=> check_duplicate_ids
<1> DEFINE f == [i \in 1..Len(jobs) |-> jobs[i].id]
<1>1. f \in [1..Len(jobs) -> Ids] /\ \A x \in Ids : \E i \in 1..Len(jobs) : f[i] = x
  BY SpecTypes DEF Ids
<1>2. check_duplicate_ids <=> IsInjective(f)
  BY SpecTypes DEF check_duplicate_ids, IsInjective
<1>3. Len(jobs) \in Nat
  BY SpecTypes
<1> HIDE DEF f
<1> QED
  BY <1>1, <1>2, <1>3, Lengths

\* A job that lists an id no job has cannot be ordered.
LEMMA UnknownNotOrderable ==
    ASSUME jobs \in Specs, check_duplicate_ids, ~check_unknown_deps
    PROVE  ~Orderable(Ids)
<1>1. PICK i \in DOMAIN jobs : ~(ToSet(jobs[i].depends_on) \subseteq Ids)
  BY DEF check_unknown_deps, ToSet
<1>2. jobs[i].id \in Ids /\ Deps(jobs[i].id) = jobs[i].depends_on
  BY OwnEntry DEF Ids
<1> QED
  BY <1>1, <1>2 DEF Orderable

-----------------------------------------------------------------------------
(* Lists without repetition *)

\* An enumeration of a finite set names each member, once.
LEMMA Enumerates ==
    ASSUME NEW S, IsFiniteSet(S), NEW s \in SetToSeqs(S)
    PROVE  s \in Seq(S) /\ IsInjective(s) /\ ToSet(s) = S
<1> DEFINE n == Cardinality(S)
<1>1. n \in Nat /\ IsFiniteSet(1..n) /\ Cardinality(1..n) = n
  BY FS_CardinalityType, FS_Interval
<1> HIDE DEF n
<1>2. s \in [1..n -> S] /\ IsInjective(s)
  BY DEF SetToSeqs, IsInjective, n
<1>3. s \in Surjection(1..n, S)
  <2>1. s \in Injection(1..n, S)
    BY <1>2 DEF Injection
  <2> QED
    BY <1>1, <2>1, FS_Injection DEF n
<1>4. ToSet(s) = S
  BY <1>2, <1>3 DEF Surjection, ToSet
<1> QED
  BY <1>1, <1>2, <1>4

\* Joining two lists that share nothing repeats nothing.
LEMMA Joined ==
    ASSUME NEW S, NEW s \in Seq(S), NEW t \in Seq(S), IsInjective(s), IsInjective(t), ToSet(s) \cap ToSet(t) = {}
    PROVE  s \o t \in Seq(S) /\ IsInjective(s \o t) /\ ToSet(s \o t) = ToSet(s) \cup ToSet(t)
<1> DEFINE st == s \o t
<1>1. st \in Seq(S) /\ Len(st) = Len(s) + Len(t)
  OBVIOUS
<1>2. /\ \A i \in 1..Len(s) : st[i] = s[i]
      /\ \A i \in 1..Len(t) : st[Len(s) + i] = t[i]
  OBVIOUS
<1>3. \A i \in 1..Len(st) : i \in 1..Len(s) \/ \E k \in 1..Len(t) : i = Len(s) + k
  <2> SUFFICES ASSUME NEW i \in 1..Len(st), i \notin 1..Len(s)
               PROVE  \E k \in 1..Len(t) : i = Len(s) + k
    OBVIOUS
  <2>1. i - Len(s) \in 1..Len(t) /\ i = Len(s) + (i - Len(s))
    BY <1>1
  <2> QED
    BY <2>1
<1>4. DOMAIN st = 1..Len(st) /\ DOMAIN s = 1..Len(s) /\ DOMAIN t = 1..Len(t)
  BY <1>1
<1>5. Len(s) \in Nat /\ Len(t) \in Nat
  OBVIOUS
<1> HIDE DEF st
<1>6. ToSet(st) = ToSet(s) \cup ToSet(t)
  <2>1. ToSet(st) \subseteq ToSet(s) \cup ToSet(t)
    <3> SUFFICES ASSUME NEW i \in DOMAIN st
                 PROVE  st[i] \in ToSet(s) \cup ToSet(t)
      BY DEF ToSet
    <3>1. CASE i \in 1..Len(s)
      BY <1>2, <1>4, <3>1 DEF ToSet
    <3>2. CASE i \notin 1..Len(s)
      <4>1. PICK k \in 1..Len(t) : i = Len(s) + k
        BY <1>3, <1>4, <3>2
      <4> QED
        BY <1>2, <1>4, <4>1 DEF ToSet
    <3> QED
      BY <3>1, <3>2
  <2>2. \A i \in DOMAIN s : i \in DOMAIN st /\ st[i] = s[i]
    BY <1>1, <1>2, <1>4, <1>5
  <2>3. \A k \in DOMAIN t : Len(s) + k \in DOMAIN st /\ st[Len(s) + k] = t[k]
    BY <1>1, <1>2, <1>4, <1>5
  <2>4. ToSet(s) \subseteq ToSet(st)
    BY <2>2 DEF ToSet
  <2>5. ToSet(t) \subseteq ToSet(st)
    BY <2>3 DEF ToSet
  <2> QED
    BY <2>1, <2>4, <2>5
<1>7. \A i \in 1..Len(s), k \in 1..Len(t) : s[i] # t[k]
  BY <1>4 DEF ToSet
<1>8. IsInjective(st)
  <2> SUFFICES ASSUME NEW i \in 1..Len(st), NEW j \in 1..Len(st), st[i] = st[j]
               PROVE  i = j
    BY <1>4 DEF IsInjective
  <2>1. CASE i \in 1..Len(s) /\ j \in 1..Len(s)
    BY <1>2, <1>4, <2>1 DEF IsInjective
  <2>2. CASE i \in 1..Len(s) /\ j \notin 1..Len(s)
    BY <1>2, <1>3, <1>7, <2>2
  <2>3. CASE i \notin 1..Len(s) /\ j \in 1..Len(s)
    BY <1>2, <1>3, <1>7, <2>3
  <2>4. CASE i \notin 1..Len(s) /\ j \notin 1..Len(s)
    <3>1. PICK k \in 1..Len(t), l \in 1..Len(t) : i = Len(s) + k /\ j = Len(s) + l
      BY <1>3, <2>4
    <3>2. t[k] = t[l]
      BY <1>2, <3>1
    <3> QED
      BY <1>4, <3>1, <3>2 DEF IsInjective
  <2> QED
    BY <2>1, <2>2, <2>3, <2>4
<1> QED
  BY <1>1, <1>6, <1>8 DEF st

\* Taking the head off a list without repetition leaves the others.
LEMMA Shortened ==
    ASSUME NEW S, NEW s \in Seq(S), s # <<>>, IsInjective(s)
    PROVE  /\ Head(s) \in ToSet(s) /\ Tail(s) \in Seq(S) /\ IsInjective(Tail(s))
           /\ ToSet(Tail(s)) = ToSet(s) \ {Head(s)}
<1> DEFINE t == Tail(s)
<1>1. /\ t \in Seq(S) /\ Len(t) = Len(s) - 1 /\ Len(s) \in Nat \ {0}
      /\ \A i \in 1..Len(t) : t[i] = s[i + 1]
      /\ Head(s) = s[1]
  OBVIOUS
<1>2. DOMAIN s = 1..Len(s) /\ DOMAIN t = 1..Len(t)
  BY <1>1
<1> HIDE DEF t
<1>3. IsInjective(t)
  BY <1>1, <1>2 DEF IsInjective
<1>4. ToSet(t) \subseteq ToSet(s) \ {s[1]}
  <2>1. \A i \in 1..Len(t) : i + 1 \in DOMAIN s /\ s[i + 1] # s[1]
    BY <1>1, <1>2 DEF IsInjective
  <2> QED
    BY <1>1, <1>2, <2>1 DEF ToSet
<1>5. ToSet(s) \ {s[1]} \subseteq ToSet(t)
  <2>1. \A i \in DOMAIN s : i = 1 \/ (i - 1 \in DOMAIN t /\ t[i - 1] = s[i])
    BY <1>1, <1>2
  <2> QED
    BY <1>1, <1>2, <2>1 DEF ToSet
<1>6. s[1] \in ToSet(s)
  BY <1>1, <1>2 DEF ToSet
<1> QED
  BY <1>1, <1>3, <1>4, <1>5, <1>6 DEF t

\* Appending what a list does not name repeats nothing.
LEMMA Extended ==
    ASSUME NEW S, NEW s \in Seq(S), NEW x \in S, IsInjective(s), x \notin ToSet(s)
    PROVE  Append(s, x) \in Seq(S) /\ IsInjective(Append(s, x)) /\ ToSet(Append(s, x)) = ToSet(s) \cup {x}
<1> DEFINE t == Append(s, x)
<1>1. /\ t \in Seq(S) /\ Len(t) = Len(s) + 1 /\ Len(s) \in Nat
      /\ \A i \in 1..Len(s) : t[i] = s[i]
      /\ t[Len(t)] = x
  OBVIOUS
<1>2. DOMAIN s = 1..Len(s) /\ DOMAIN t = 1..Len(t)
  BY <1>1
<1> HIDE DEF t
<1>3. \A i \in DOMAIN t : i \in DOMAIN s \/ i = Len(t)
  BY <1>1, <1>2
<1>4. DOMAIN s \subseteq DOMAIN t /\ Len(t) \in DOMAIN t
  BY <1>1, <1>2
<1>5. \A i \in DOMAIN s : s[i] # x
  BY DEF ToSet
<1>6. IsInjective(t)
  BY <1>1, <1>2, <1>3, <1>5 DEF IsInjective
<1>7. ToSet(t) = ToSet(s) \cup {x}
  BY <1>1, <1>2, <1>3, <1>4 DEF ToSet
<1> QED
  BY <1>1, <1>6, <1>7 DEF t

-----------------------------------------------------------------------------
(* The sort *)

\* Where in its list job k names a dependency that is not ordered yet.
Left(k) == {i \in DOMAIN Deps(k) : Deps(k)[i] \notin ToSet(order)}

\* While the queue lasts: a job's in_degree counts what it still waits for, the
\* queue and the order hold exactly the jobs that wait for nothing, each once,
\* and every job in the order comes after all it depends on.
SortOK ==
    /\ jobs # <<>> /\ check_duplicate_ids /\ check_unknown_deps
    /\ in_degree \in [Ids -> Nat]
    /\ \A k \in Ids : in_degree[k] = Cardinality(Left(k))
    /\ queue \in Seq(Ids) /\ order \in Seq(Ids)
    /\ IsInjective(queue) /\ IsInjective(order) /\ ToSet(queue) \cap ToSet(order) = {}
    /\ \A k \in Ids : in_degree[k] = 0 <=> k \in ToSet(queue) \cup ToSet(order)
    /\ \A i \in DOMAIN order : \A dep \in ToSet(Deps(order[i])) : \E j \in 1..(i - 1) : order[j] = dep

\* Neither TypeOK nor the two properties are inductive: what the verdict says is
\* decided by the state the sort ends in.
Inv ==
    /\ jobs \in Specs
    /\ phase \in {"check", "sort", "done"}
    /\ phase # "done" => outcome = "none" /\ blamed = {}
    /\ phase = "check" => in_degree = <<>> /\ queue = <<>> /\ order = <<>>
    /\ phase = "sort" => SortOK
    /\ phase = "done" => TypeOK
    /\ Decides /\ BlamedIsStuck

\* A job waits for nothing exactly when all it lists is ordered.
LEMMA LeftCount ==
    ASSUME jobs \in Specs, NEW k \in Ids
    PROVE  /\ IsFiniteSet(Left(k)) /\ Cardinality(Left(k)) \in Nat
           /\ Cardinality(Left(k)) = 0 <=> ToSet(Deps(k)) \subseteq ToSet(order)
<1>1. IsFiniteSet(DOMAIN Deps(k))
  BY SpecTypes, FS_Interval
<1>2. IsFiniteSet(Left(k)) /\ Cardinality(Left(k)) \in Nat
  BY <1>1, FS_Subset, FS_CardinalityType DEF Left
<1>3. Cardinality(Left(k)) = 0 <=> Left(k) = {}
  BY <1>2, FS_EmptySet
<1>4. Left(k) = {} <=> ToSet(Deps(k)) \subseteq ToSet(order)
  <2>1. \A i \in DOMAIN Deps(k) : Deps(k)[i] \in ToSet(Deps(k))
    BY DEF ToSet
  <2>2. \A dep \in ToSet(Deps(k)) : \E i \in DOMAIN Deps(k) : Deps(k)[i] = dep
    BY DEF ToSet
  <2> QED
    BY <2>1, <2>2 DEF Left
<1> QED
  BY <1>2, <1>3, <1>4

\* The sort starts with nothing ordered and the jobs without dependencies.
LEMMA SortBegins ==
    ASSUME jobs \in Specs, order = <<>>, BeginSort
    PROVE  SortOK'
<1> DEFINE roots == {id \in Ids : Degree(id) = 0}
<1>1. jobs' = jobs /\ order' = <<>> /\ ToSet(order') = {}
  BY DEF BeginSort, ToSet
<1>2. /\ Ids' = Ids
      /\ \A k : Deps(k)' = Deps(k)
      /\ check_duplicate_ids' = check_duplicate_ids
      /\ check_unknown_deps' = check_unknown_deps
  BY <1>1 DEF Ids, Deps, check_duplicate_ids, check_unknown_deps
<1>3. jobs # <<>> /\ check_duplicate_ids /\ check_unknown_deps
  BY DEF BeginSort
<1>4. \A k \in Ids : Degree(k) \in Nat /\ Cardinality(Left(k)') = Degree(k)
  <2> TAKE k \in Ids
  <2>1. Left(k)' = 1..Len(Deps(k)) /\ Len(Deps(k)) \in Nat
    BY <1>1, <1>2, SpecTypes DEF Left
  <2> QED
    BY <2>1, FS_Interval DEF Degree
<1>5. in_degree' = [k \in Ids |-> Degree(k)]
  BY DEF BeginSort
<1>6. in_degree' \in [Ids -> Nat] /\ \A k \in Ids : in_degree'[k] = Cardinality(Left(k)')
  BY <1>4, <1>5
<1>7. queue' \in Seq(roots) /\ IsInjective(queue') /\ ToSet(queue') = roots
  <2>1. IsFiniteSet(roots)
    BY DuplicatesCount, FS_Subset
  <2>2. queue' \in SetToSeqs(roots)
    BY DEF BeginSort
  <2> QED
    BY <2>1, <2>2, Enumerates
<1>8. queue' \in Seq(Ids)
  BY <1>7
<1>9. \A k \in Ids : in_degree'[k] = 0 <=> k \in ToSet(queue') \cup ToSet(order')
  BY <1>1, <1>5, <1>7
<1>10. order' \in Seq(Ids) /\ IsInjective(order') /\ DOMAIN order' = {}
  BY <1>1 DEF IsInjective
<1> HIDE DEF roots
<1> QED
  BY <1>1, <1>2, <1>3, <1>6, <1>7, <1>8, <1>9, <1>10 DEF SortOK, ToSet

\* Ordering a job takes it off what the others wait for.
LEMMA LeftShrinks ==
    ASSUME jobs \in Specs, NEW id, id \notin ToSet(order), jobs' = jobs, ToSet(order') = ToSet(order) \cup {id},
           NEW k \in Ids
    PROVE  /\ Occurs(id, k) \in Nat
           /\ Occurs(id, k) <= Cardinality(Left(k))
           /\ Cardinality(Left(k)') = Cardinality(Left(k)) - Occurs(id, k)
<1> DEFINE named == {i \in DOMAIN Deps(k) : Deps(k)[i] = id}
<1>1. Deps(k)' = Deps(k)
  BY DEF Deps
<1>2. named \subseteq Left(k) /\ Left(k)' = Left(k) \ named
  BY <1>1 DEF Left
<1>3. Left(k) \cap named = named
  BY <1>2
<1>4. IsFiniteSet(Left(k)) /\ Cardinality(Left(k)) \in Nat
  BY LeftCount
<1> HIDE DEF named
<1>5. Cardinality(Left(k) \ named) = Cardinality(Left(k)) - Cardinality(named)
  BY <1>3, <1>4, FS_Difference
<1>6. IsFiniteSet(named) /\ Cardinality(named) <= Cardinality(Left(k)) /\ Cardinality(named) \in Nat
  BY <1>2, <1>4, FS_Subset, FS_CardinalityType
<1>7. Occurs(id, k) = Cardinality(named)
  BY DEF Occurs, named
<1> QED
  BY <1>2, <1>5, <1>6, <1>7

\* Ordering the job at the head of the queue keeps the sort in order.
LEMMA SortGoesOn ==
    ASSUME jobs \in Specs, SortOK, PopFront
    PROVE  SortOK'
<1> DEFINE id == Head(queue)
           freed == {k \in Ids : Occurs(id, k) > 0 /\ in_degree[k] - Occurs(id, k) = 0}
<1>1. jobs' = jobs /\ queue # <<>> /\ order' = Append(order, id)
  BY DEF PopFront
<1>2. /\ Ids' = Ids
      /\ \A k : Deps(k)' = Deps(k)
      /\ check_duplicate_ids' = check_duplicate_ids
      /\ check_unknown_deps' = check_unknown_deps
  BY <1>1 DEF Ids, Deps, check_duplicate_ids, check_unknown_deps
<1>3. in_degree' = [k \in Ids |-> in_degree[k] - Occurs(id, k)]
  BY DEF PopFront
<1>4. PICK ready \in SetToSeqs(freed) : queue' = Tail(queue) \o ready
  <2>1. \A k \in Ids : [j \in Ids |-> in_degree[j] - Occurs(id, j)][k] = in_degree[k] - Occurs(id, k)
    OBVIOUS
  <2>2. freed = {k \in Ids : Occurs(id, k) > 0 /\ [j \in Ids |-> in_degree[j] - Occurs(id, j)][k] = 0}
    BY <2>1
  <2> QED
    BY <2>2 DEF PopFront
<1> HIDE DEF freed
<1>5. /\ queue \in Seq(Ids) /\ order \in Seq(Ids) /\ IsInjective(queue) /\ IsInjective(order)
      /\ ToSet(queue) \cap ToSet(order) = {}
  BY DEF SortOK
<1>6. /\ id \in ToSet(queue) /\ Tail(queue) \in Seq(Ids) /\ IsInjective(Tail(queue))
      /\ ToSet(Tail(queue)) = ToSet(queue) \ {id}
  BY <1>1, <1>5, Shortened
<1>7. id \in Ids /\ id \notin ToSet(order)
  BY <1>1, <1>5, <1>6
<1> HIDE DEF id
<1>8. /\ order' \in Seq(Ids) /\ IsInjective(order') /\ ToSet(order') = ToSet(order) \cup {id}
  BY <1>1, <1>5, <1>7, Extended
<1>9. \A k \in Ids : /\ in_degree[k] = Cardinality(Left(k)) /\ in_degree[k] \in Nat
                     /\ in_degree[k] = 0 <=> k \in ToSet(queue) \cup ToSet(order)
  BY DEF SortOK
<1>10. \A k \in Ids : /\ Occurs(id, k) \in Nat /\ Occurs(id, k) <= in_degree[k]
                      /\ Cardinality(Left(k)') = in_degree[k] - Occurs(id, k)
  BY <1>1, <1>7, <1>8, <1>9, LeftShrinks
<1>11. in_degree' \in [Ids -> Nat] /\ \A k \in Ids : in_degree'[k] = Cardinality(Left(k)')
  BY <1>3, <1>9, <1>10
<1>12. ready \in Seq(freed) /\ IsInjective(ready) /\ ToSet(ready) = freed
  <2>1. IsFiniteSet(freed)
    BY DuplicatesCount, FS_Subset DEF freed
  <2> QED
    BY <1>4, <2>1, Enumerates
<1>13. freed \subseteq Ids /\ \A k \in freed : in_degree[k] # 0
  BY <1>9, <1>10 DEF freed
<1>14. freed \cap (ToSet(queue) \cup ToSet(order)) = {}
  BY <1>9, <1>13
<1>15. ready \in Seq(Ids)
  BY <1>12, <1>13
<1>16. /\ queue' \in Seq(Ids) /\ IsInjective(queue')
       /\ ToSet(queue') = (ToSet(queue) \ {id}) \cup freed
  <2> DEFINE rest == Tail(queue)
  <2>1. rest \in Seq(Ids) /\ IsInjective(rest) /\ ToSet(rest) = ToSet(queue) \ {id}
    BY <1>6
  <2>2. queue' = rest \o ready
    BY <1>4
  <2> HIDE DEF rest
  <2>3. ToSet(rest) \cap ToSet(ready) = {}
    BY <1>12, <1>14, <2>1
  <2>4. rest \o ready \in Seq(Ids)
    BY <1>15, <2>1
  <2>5. IsInjective(rest \o ready)
    BY <1>12, <1>15, <2>1, <2>3, Joined
  <2>6. ToSet(rest \o ready) = ToSet(rest) \cup ToSet(ready)
    BY <1>12, <1>15, <2>1, <2>3, Joined
  <2> QED
    BY <1>12, <2>1, <2>2, <2>4, <2>5, <2>6
<1>17. ToSet(queue') \cap ToSet(order') = {}
  BY <1>5, <1>6, <1>8, <1>14, <1>16
<1>18. \A k \in Ids : in_degree'[k] = 0 <=> k \in ToSet(queue') \cup ToSet(order')
  <2> TAKE k \in Ids
  <2>1. in_degree'[k] = 0 <=> in_degree[k] = 0 \/ k \in freed
    BY <1>3, <1>9, <1>10 DEF freed
  <2>2. ToSet(queue') \cup ToSet(order') = ToSet(queue) \cup ToSet(order) \cup freed
    BY <1>6, <1>8, <1>16
  <2> QED
    BY <1>9, <2>1, <2>2
<1>19. \A i \in DOMAIN order' : \A dep \in ToSet(Deps(order'[i])) : \E j \in 1..(i - 1) : order'[j] = dep
  <2> DEFINE n == Len(order)
  <2>1. /\ n \in Nat /\ DOMAIN order = 1..n /\ DOMAIN order' = 1..(n + 1)
        /\ \A i \in 1..n : order'[i] = order[i]
        /\ order'[n + 1] = id
    BY <1>1, <1>5, <1>7
  <2> HIDE DEF n
  <2>2. ASSUME NEW i \in 1..n, NEW dep \in ToSet(Deps(order'[i]))
        PROVE  \E j \in 1..(i - 1) : order'[j] = dep
    <3>1. PICK j \in 1..(i - 1) : order[j] = dep
      BY <2>1, <2>2 DEF SortOK
    <3>2. j \in 1..n
      BY <2>1, <3>1
    <3> QED
      BY <2>1, <3>1, <3>2
  <2>3. ASSUME NEW dep \in ToSet(Deps(id)) PROVE \E j \in 1..n : order'[j] = dep
    <3>1. dep \in ToSet(order)
      BY <1>6, <1>7, <1>9, LeftCount
    <3> QED
      BY <2>1, <3>1 DEF ToSet
  <2>4. (n + 1) - 1 = n /\ \A i \in 1..(n + 1) : i \in 1..n \/ i = n + 1
    BY <2>1
  <2> QED
    BY <2>1, <2>2, <2>3, <2>4
<1>20. (jobs # <<>> /\ check_duplicate_ids /\ check_unknown_deps)'
  BY <1>1, <1>2 DEF SortOK
<1> QED
  BY <1>2, <1>8, <1>11, <1>16, <1>17, <1>18, <1>19, <1>20 DEF SortOK

-----------------------------------------------------------------------------
(* The verdict *)

\* What is not ordered when the queue runs empty is stuck.
LEMMA SortEnds ==
    ASSUME jobs \in Specs, SortOK, queue = <<>>
    PROVE  Stuck = Ids \ ToSet(order) /\ (AllOrdered <=> Stuck = {})
<1>1. Stuck = Ids \ ToSet(order)
  <2>1. \A k \in Ids : in_degree[k] \in Nat /\ (in_degree[k] = 0 <=> k \in ToSet(order))
    BY DEF SortOK, ToSet
  <2> QED
    BY <2>1 DEF Stuck
<1>2. Len(order) \in Nat /\ order \in [1..Len(order) -> ToSet(order)] /\ ToSet(order) \subseteq Ids
      /\ DOMAIN order = 1..Len(order)
  BY DEF SortOK, ToSet
<1>3. \A x \in ToSet(order) : \E i \in 1..Len(order) : order[i] = x
  BY <1>2 DEF ToSet
<1>4. Cardinality(ToSet(order)) = Len(order)
  BY <1>2, <1>3, Lengths DEF SortOK
<1>5. IsFiniteSet(Ids) /\ Cardinality(Ids) = Len(jobs)
  BY DuplicatesCount DEF SortOK
<1>6. Len(order) = Len(jobs) <=> ToSet(order) = Ids
  BY <1>2, <1>4, <1>5, FS_Subset
<1> QED
  BY <1>1, <1>2, <1>6 DEF AllOrdered

\* When every job is ordered, the order is the numbering that was asked for.
LEMMA OrderIsWitness ==
    ASSUME jobs \in Specs, SortOK, queue = <<>>, AllOrdered
    PROVE  Orderable(Ids)
<1>1. ToSet(order) = Ids
  <2>1. ToSet(order) \subseteq Ids
    BY DEF SortOK, ToSet
  <2> QED
    BY <2>1, SortEnds
<1>2. Len(order) = Cardinality(Ids) /\ DOMAIN order = 1..Len(order) /\ Len(order) \in Nat
  BY DuplicatesCount DEF SortOK, AllOrdered
<1> DEFINE rank == [k \in Ids |-> CHOOSE i \in DOMAIN order : order[i] = k]
<1>3. \A k \in Ids : rank[k] \in DOMAIN order /\ order[rank[k]] = k
  BY <1>1 DEF ToSet
<1>4. rank \in [Ids -> 1..Cardinality(Ids)]
  BY <1>2, <1>3
<1> HIDE DEF rank
<1>5. ASSUME NEW k \in Ids, NEW dep \in ToSet(Deps(k)) PROVE dep \in Ids /\ rank[dep] < rank[k]
  <2>1. PICK j \in 1..(rank[k] - 1) : order[j] = dep
    BY <1>3 DEF SortOK
  <2>2. j \in DOMAIN order /\ j < rank[k]
    BY <1>2, <1>3, <2>1
  <2>3. dep \in Ids
    BY <1>1, <2>1, <2>2 DEF ToSet
  <2>4. rank[dep] = j
    BY <1>3, <2>1, <2>2, <2>3 DEF SortOK, IsInjective
  <2> QED
    BY <2>2, <2>3, <2>4
<1> QED
  BY <1>4, <1>5 DEF Orderable

\* Whatever is left over waits for something left over, so that no numbering of
\* any part of the workflow can reach it.
LEMMA StuckForGood ==
    ASSUME jobs \in Specs, SortOK, queue = <<>>, NEW ids \in SUBSET Ids, ids \cap Stuck # {}
    PROVE  ~Orderable(ids)
<1> SUFFICES ASSUME Orderable(ids)
             PROVE  FALSE
  OBVIOUS
<1>1. PICK rank \in [ids -> 1..Cardinality(ids)] :
          \A id \in ids : \A dep \in ToSet(Deps(id)) : dep \in ids /\ rank[dep] < rank[id]
  BY DEF Orderable
<1>2. Cardinality(ids) \in Nat
  BY DuplicatesCount, FS_Subset, FS_CardinalityType
<1>3. \A x \in ids \cap Stuck : rank[x] \in Nat
  BY <1>1, <1>2
<1>4. PICK x \in ids \cap Stuck : \A y \in ids \cap Stuck : rank[x] <= rank[y]
  BY <1>3, LeastRank
<1>5. x \in Ids /\ x \notin ToSet(order) /\ in_degree[x] # 0
  BY <1>4, SortEnds DEF Stuck, SortOK
<1>6. PICK dep \in ToSet(Deps(x)) : dep \notin ToSet(order)
  BY <1>5, LeftCount DEF SortOK
<1>7. dep \in ids /\ rank[dep] < rank[x]
  BY <1>1, <1>4, <1>6
<1>8. dep \in Stuck
  BY <1>6, <1>7, SortEnds
<1> QED
  BY <1>3, <1>4, <1>7, <1>8

\* The initial states satisfy the invariant and every step keeps it.
LEMMA Invariance == Spec => []Inv
<1>1. Init => Inv
  BY DEF Init, Inv, Decides, BlamedIsStuck
<1>2. ASSUME Inv, [Next]_vars PROVE Inv'
  <2> USE <1>2
  <2>1. jobs' = jobs /\ jobs \in Specs
    BY DEF Inv, Next, Reject, BeginSort, PopFront, EndSort, vars
  <2>2. Ids' = Ids /\ \A ids : Orderable(ids)' = Orderable(ids)
    BY <2>1 DEF Ids, Orderable, Deps
  <2>3. CASE Reject
    <3>1. phase = "check" /\ phase' = "done" /\ outcome' # "ok" /\ UNCHANGED <<blamed, in_degree, queue, order>>
      BY <2>3 DEF Reject
    <3>2. blamed = {} /\ in_degree = <<>> /\ queue = <<>> /\ order = <<>>
      BY <3>1 DEF Inv
    <3>3. TypeOK'
      <4>1. in_degree' \in [DOMAIN in_degree' -> Nat] /\ DOMAIN in_degree' \subseteq Ids'
        BY <3>1, <3>2
      <4> QED
        BY <2>1, <2>3, <3>1, <3>2, <4>1 DEF Reject, TypeOK
    <3>4. ~(jobs # <<>> /\ Cardinality(Ids) = Len(jobs) /\ Orderable(Ids))
      BY <2>1, <2>3, DuplicatesCount, UnknownNotOrderable DEF Reject
    <3>5. Decides'
      BY <2>1, <2>2, <3>1, <3>4 DEF Decides
    <3> QED
      BY <2>1, <3>1, <3>2, <3>3, <3>5 DEF Inv, BlamedIsStuck
  <2>4. CASE BeginSort
    <3>1. phase = "check" /\ phase' = "sort" /\ UNCHANGED <<outcome, blamed>>
      BY <2>4 DEF BeginSort
    <3>2. SortOK'
      BY <2>1, <2>4, <3>1, SortBegins DEF Inv
    <3> QED
      BY <2>1, <3>1, <3>2 DEF Inv, Decides, BlamedIsStuck
  <2>5. CASE PopFront
    <3>1. phase = "sort" /\ UNCHANGED <<phase, outcome, blamed>>
      BY <2>5 DEF PopFront
    <3>2. SortOK'
      BY <2>1, <2>5, <3>1, SortGoesOn DEF Inv
    <3> QED
      BY <2>1, <3>1, <3>2 DEF Inv, Decides, BlamedIsStuck
  <2>6. CASE EndSort
    <3>1. phase = "sort" /\ phase' = "done" /\ queue = <<>> /\ UNCHANGED <<in_degree, queue, order>>
      BY <2>6 DEF EndSort
    <3>2. SortOK /\ jobs # <<>> /\ Cardinality(Ids) = Len(jobs)
      BY <2>1, <3>1, DuplicatesCount DEF Inv, SortOK
    <3>3. Stuck \subseteq Ids /\ \A ids \in SUBSET Ids : ids \cap Stuck # {} => ~Orderable(ids)
      BY <2>1, <3>1, <3>2, StuckForGood DEF Stuck
    <3>4. outcome' = (IF AllOrdered THEN "ok" ELSE "Cycle") /\ blamed' = IF AllOrdered THEN {} ELSE Stuck
      BY <2>6 DEF EndSort
    <3>5. AllOrdered <=> Orderable(Ids)
      <4>1. AllOrdered => Orderable(Ids)
        BY <2>1, <3>1, <3>2, OrderIsWitness
      <4>2. ~AllOrdered => ~Orderable(Ids)
        BY <2>1, <3>1, <3>2, <3>3, SortEnds
      <4> QED
        BY <4>1, <4>2
    <3>6. TypeOK'
      <4>1. Ids \subseteq Id
        BY <2>1, SpecTypes
      <4>2. in_degree' \in [Ids -> Nat] /\ queue' \in Seq(Id) /\ order' \in Seq(Id)
        BY <3>1, <3>2, <4>1 DEF SortOK
      <4>3. in_degree' \in [DOMAIN in_degree' -> Nat] /\ DOMAIN in_degree' \subseteq Ids'
        BY <2>2, <4>2
      <4>4. blamed' \subseteq Id
        BY <3>3, <3>4, <4>1
      <4> QED
        BY <2>1, <3>1, <3>4, <4>2, <4>3, <4>4 DEF TypeOK
    <3>7. Decides'
      BY <2>1, <2>2, <3>1, <3>2, <3>4, <3>5 DEF Decides
    <3>8. BlamedIsStuck'
      BY <2>2, <3>3, <3>4 DEF BlamedIsStuck
    <3> QED
      BY <2>1, <3>1, <3>6, <3>7, <3>8 DEF Inv
  <2>7. CASE UNCHANGED vars
    <3>1. UNCHANGED <<jobs, phase, outcome, blamed, in_degree, queue, order>>
      BY <2>7 DEF vars
    <3>2. UNCHANGED <<SortOK, TypeOK>>
      BY <3>1 DEF SortOK, TypeOK, Ids, Deps, Left, check_duplicate_ids, check_unknown_deps
    <3>3. UNCHANGED <<Decides, BlamedIsStuck>>
      BY <2>2, <3>1 DEF Decides, BlamedIsStuck
    <3> QED
      BY <2>1, <3>1, <3>2, <3>3 DEF Inv
  <2> QED
    BY <2>3, <2>4, <2>5, <2>6, <2>7 DEF Next
<1> QED
  BY <1>1, <1>2, PTL DEF Spec

\* The validation keeps its types: no in_degree ever drops below zero, which
\* in topo_sort would be the underflow of an unsigned count.
THEOREM DagTypes == Spec => []TypeOK
<1>1. Inv => TypeOK
  <2> SUFFICES ASSUME Inv
               PROVE  TypeOK
    OBVIOUS
  <2>1. CASE phase = "check"
    BY <2>1 DEF Inv, TypeOK
  <2>2. CASE phase = "sort"
    <3>1. Ids \subseteq Id
      BY SpecTypes DEF Inv
    <3>2. in_degree \in [Ids -> Nat] /\ queue \in Seq(Id) /\ order \in Seq(Id)
      BY <2>2, <3>1 DEF Inv, SortOK
    <3> QED
      BY <2>2, <3>2 DEF Inv, TypeOK
  <2> QED
    BY <2>1, <2>2 DEF Inv
<1> QED
  BY <1>1, Invariance, PTL

\* validate accepts a workflow exactly when it has jobs, gives each its own id
\* and can be run in some order, for any number of jobs and dependencies and
\* whatever order the hash map fills the queue in.
THEOREM ValidateDecides == Spec => []Decides
<1>1. Inv => Decides
  BY DEF Inv
<1> QED
  BY <1>1, Invariance, PTL

\* The jobs a Cycle error may name can never run: each is on a cycle or waits
\* for one.
THEOREM BlamedNeverRun == Spec => []BlamedIsStuck
<1>1. Inv => BlamedIsStuck
  BY DEF Inv
<1> QED
  BY <1>1, Invariance, PTL

=============================================================================
