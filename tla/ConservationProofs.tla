-------------------------- MODULE ConservationProofs --------------------------
(***************************************************************************)
(* Conservation of CPU and memory: what a pool has free and what the jobs  *)
(* hold always add up to the node's inventory, because what the store says *)
(* is running always fits it.  The first part is what the proof needs to   *)
(* know of sums over a finite set.                                         *)
(***************************************************************************)
EXTENDS SchedulerProofs, FiniteSetTheorems

(* Sums of numbers over a finite set *)

\* f is a ledger of v over S: it gives every part of S the sum of its values,
\* whichever element of the part is counted first.
Ledger(f, v, S) ==
    /\ f \in [SUBSET S -> Int]
    /\ f[{}] = 0
    /\ \A T \in SUBSET S : \A x \in T : f[T] = v[x] + f[T \ {x}]

\* One of the sets of a nonempty family of subsets of a finite set has no
\* smaller set in the family.
LEMMA LeastPart ==
    ASSUME NEW S, IsFiniteSet(S), NEW F, F \subseteq SUBSET S, F # {}
    PROVE  \E T \in F : \A x \in T : T \ {x} \notin F
<1>1. IsWellFoundedOn(StrictSubsetOrdering(S), FiniteSubsetsOf(S))
  BY FS_StrictSubsetOrderingWellFounded
<1>2. F \subseteq FiniteSubsetsOf(S)
  BY FS_Subset DEF FiniteSubsetsOf
<1>3. PICK T \in F : \A U \in F : ~ (<<U, T>> \in StrictSubsetOrdering(S))
  BY <1>1, <1>2, WFMin
<1>4. ASSUME NEW x \in T, T \ {x} \in F PROVE FALSE
  <2>1. T \in SUBSET S /\ T \ {x} \in SUBSET S /\ T \ {x} \subseteq T /\ T \ {x} # T
    BY <1>4
  <2>2. <<T \ {x}, T>> \in StrictSubsetOrdering(S)
    BY <2>1 DEF StrictSubsetOrdering
  <2> QED
    BY <1>3, <1>4, <2>2
<1> QED
  BY <1>4

\* Integers over a finite set have a ledger.
LEMMA LedgerExists ==
    ASSUME NEW S, IsFiniteSet(S), NEW v \in [S -> Int]
    PROVE  \E f : Ledger(f, v, S)
<1> DEFINE F == {T \in SUBSET S : ~ \E f : Ledger(f, v, T)}
<1>1. SUFFICES ASSUME F # {} PROVE FALSE
  BY <1>1
<1>2. PICK T \in F : \A x \in T : T \ {x} \notin F
  <2> HIDE DEF F
  <2>1. F \subseteq SUBSET S
    BY DEF F
  <2> QED
    BY <1>1, <2>1, LeastPart
<1>3. ASSUME T = {} PROVE FALSE
  <2> DEFINE f == [U \in SUBSET {} |-> 0]
  <2>1. Ledger(f, v, {})
    BY DEF Ledger
  <2> QED
    BY <1>2, <1>3, <2>1
<1>4. PICK x : x \in T
  BY <1>3
<1>5. PICK f : Ledger(f, v, T \ {x})
  BY <1>2, <1>4
<1> DEFINE g == [U \in SUBSET T |-> IF x \in U THEN v[x] + f[U \ {x}] ELSE f[U]]
<1>6. T \subseteq S /\ \A y \in T : v[y] \in Int
  BY <1>2
<1>7. \A U \in SUBSET T : U \ {x} \in SUBSET (T \ {x}) /\ (x \notin U => U \in SUBSET (T \ {x}))
  OBVIOUS
<1>8. \A U \in SUBSET (T \ {x}) : f[U] \in Int
  BY <1>5 DEF Ledger
<1>9. g \in [SUBSET T -> Int]
  BY <1>4, <1>6, <1>7, <1>8
<1>10. g[{}] = 0
  BY <1>5 DEF Ledger
<1>11. ASSUME NEW U \in SUBSET T, NEW y \in U PROVE g[U] = v[y] + g[U \ {y}]
  <2>1. U \ {y} \in SUBSET T /\ v[y] \in Int /\ v[x] \in Int
    BY <1>4, <1>6
  <2>2. CASE x \notin U
    BY <1>5, <1>7, <2>1, <2>2 DEF Ledger
  <2>3. CASE x = y
    BY <2>1, <2>3
  <2>4. CASE x \in U /\ x # y
    <3>1. U \ {x} \in SUBSET (T \ {x}) /\ y \in U \ {x} /\ (U \ {x}) \ {y} \in SUBSET (T \ {x})
      BY <2>4
    <3>2. f[U \ {x}] = v[y] + f[(U \ {x}) \ {y}]
      BY <1>5, <3>1 DEF Ledger
    <3>3. (U \ {x}) \ {y} = (U \ {y}) \ {x} /\ x \in U \ {y}
      BY <2>4
    <3>4. g[U] = v[x] + f[U \ {x}] /\ g[U \ {y}] = v[x] + f[(U \ {y}) \ {x}]
      BY <2>1, <2>4, <3>3
    <3>5. f[(U \ {x}) \ {y}] \in Int
      BY <1>8, <3>1
    <3> HIDE DEF g
    <3>6. g[U] = v[x] + f[U \ {x}] /\ f[U \ {x}] = v[y] + f[(U \ {y}) \ {x}]
      BY <3>2, <3>3, <3>4
    <3>7. g[U \ {y}] = v[x] + f[(U \ {y}) \ {x}] /\ f[(U \ {y}) \ {x}] \in Int
      BY <3>3, <3>4, <3>5
    <3> QED
      BY <2>1, <3>6, <3>7
  <2> QED
    BY <2>2, <2>3, <2>4
<1>12. Ledger(g, v, T)
  BY <1>9, <1>10, <1>11 DEF Ledger
<1> QED
  BY <1>2, <1>12

\* The recursive function that SumFunctionOnSet(v, S) evaluates.
Iter(v, S) ==
    CHOOSE g : g = [T \in SUBSET S |->
                       IF T = {} THEN 0
                       ELSE v[CHOOSE x \in T : TRUE] + g[T \ {CHOOSE x \in T : TRUE}]]

\* The community module's sum is that function's value for the whole set.
LEMMA SumIsIter ==
    ASSUME NEW v, NEW S, DOMAIN v = S
    PROVE  SumFunction(v) = Iter(v, S)[S]
BY DEF SumFunction, SumFunctionOnSet, FoldFunctionOnSet, MapThenFoldSet, Iter

\* The sum is what any ledger says of the whole set.
LEMMA SumByLedger ==
    ASSUME NEW S, IsFiniteSet(S), NEW v \in [S -> Int], NEW f, Ledger(f, v, S)
    PROVE  SumFunction(v) = f[S]
<1> DEFINE first(T) == CHOOSE x \in T : TRUE
           body(h) == [T \in SUBSET S |-> IF T = {} THEN 0 ELSE v[first(T)] + h[T \ {first(T)}]]
           g == Iter(v, S)
<1>1. \A T : T # {} => first(T) \in T
  OBVIOUS
<1>2. f = body(f)
  <2>1. \A T \in SUBSET S : f[T] = IF T = {} THEN 0 ELSE v[first(T)] + f[T \ {first(T)}]
    <3> HIDE DEF first
    <3> QED
      BY <1>1 DEF Ledger
  <2>2. f \in [SUBSET S -> Int]
    BY DEF Ledger
  <2> HIDE DEF first
  <2> QED
    BY <2>1, <2>2
<1>3. g = body(g)
  BY <1>2 DEF Iter
<1> HIDE DEF g, first
<1>4. \A T \in SUBSET S : g[T] = IF T = {} THEN 0 ELSE v[first(T)] + g[T \ {first(T)}]
  <2> DEFINE b == body(g)
  <2>1. \A T \in SUBSET S : b[T] = IF T = {} THEN 0 ELSE v[first(T)] + g[T \ {first(T)}]
    OBVIOUS
  <2>2. g = b
    BY <1>3
  <2> HIDE DEF b
  <2> QED
    BY <2>1, <2>2
<1> HIDE DEF body
<1> DEFINE F == {T \in SUBSET S : g[T] # f[T]}
<1>5. F = {}
  <2> SUFFICES ASSUME F # {} PROVE FALSE
    OBVIOUS
  <2>1. PICK T \in F : \A x \in T : T \ {x} \notin F
    <3>1. F \subseteq SUBSET S
      OBVIOUS
    <3> HIDE DEF F
    <3> QED
      BY <3>1, LeastPart
  <2>2. T # {}
    BY <1>4, <2>1 DEF Ledger
  <2>3. first(T) \in T /\ T \ {first(T)} \in SUBSET S
    BY <1>1, <2>1, <2>2
  <2>4. g[T \ {first(T)}] = f[T \ {first(T)}]
    BY <2>1, <2>3
  <2>5. f[T] = v[first(T)] + f[T \ {first(T)}]
    BY <2>1, <2>3 DEF Ledger
  <2> QED
    BY <1>4, <2>1, <2>2, <2>4, <2>5
<1>6. g[S] = f[S]
  BY <1>5
<1>7. SumFunction(v) = g[S]
  BY SumIsIter DEF g
<1> QED
  BY <1>6, <1>7

\* Zeros add up to zero.
LEMMA SumOfZeros ==
    ASSUME NEW S, IsFiniteSet(S), NEW v \in [S -> Int], \A x \in S : v[x] = 0
    PROVE  SumFunction(v) = 0
<1> DEFINE f == [T \in SUBSET S |-> 0]
<1>1. Ledger(f, v, S)
  BY DEF Ledger
<1>2. f[S] = 0
  OBVIOUS
<1> HIDE DEF f
<1> QED
  BY <1>1, <1>2, SumByLedger

\* Values that differ in one place have sums that differ by the difference.
LEMMA SumUpdated ==
    ASSUME NEW S, IsFiniteSet(S), NEW v \in [S -> Int], NEW w \in [S -> Int], NEW k \in S,
           \A x \in S \ {k} : w[x] = v[x]
    PROVE  SumFunction(w) = SumFunction(v) + (w[k] - v[k])
<1>1. PICK f : Ledger(f, v, S)
  BY LedgerExists
<1> DEFINE d == w[k] - v[k]
           g == [T \in SUBSET S |-> IF k \in T THEN f[T] + d ELSE f[T]]
<1>2. d \in Int /\ \A T \in SUBSET S : f[T] \in Int
  BY <1>1 DEF Ledger
<1>3. g \in [SUBSET S -> Int] /\ g[{}] = 0
  BY <1>1, <1>2 DEF Ledger
<1>4. ASSUME NEW T \in SUBSET S, NEW x \in T PROVE g[T] = w[x] + g[T \ {x}]
  <2>1. f[T] = v[x] + f[T \ {x}] /\ T \ {x} \in SUBSET S /\ f[T \ {x}] \in Int /\ v[x] \in Int
    BY <1>1, <1>2 DEF Ledger
  <2>2. CASE x = k
    BY <1>2, <2>1, <2>2
  <2>3. CASE x # k
    <3>1. w[x] = v[x]
      BY <2>3
    <3>2. k \in T <=> k \in T \ {x}
      BY <2>3
    <3> HIDE DEF d
    <3> QED
      BY <1>2, <2>1, <3>1, <3>2
  <2> QED
    BY <2>2, <2>3
<1>5. Ledger(g, w, S)
  BY <1>3, <1>4 DEF Ledger
<1>6. g[S] = f[S] + d
  OBVIOUS
<1> HIDE DEF g, d
<1>7. SumFunction(w) = g[S] /\ SumFunction(v) = f[S]
  BY <1>1, <1>5, SumByLedger
<1> QED
  BY <1>6, <1>7 DEF d

\* Smaller values have a smaller sum.
LEMMA SumMonotone ==
    ASSUME NEW S, IsFiniteSet(S), NEW v \in [S -> Int], NEW w \in [S -> Int],
           \A x \in S : v[x] <= w[x]
    PROVE  SumFunction(v) <= SumFunction(w)
<1>1. PICK f : Ledger(f, v, S)
  BY LedgerExists
<1>2. PICK g : Ledger(g, w, S)
  BY LedgerExists
<1> DEFINE F == {T \in SUBSET S : ~ (f[T] <= g[T])}
<1>3. F = {}
  <2> SUFFICES ASSUME F # {} PROVE FALSE
    OBVIOUS
  <2>1. PICK T \in F : \A x \in T : T \ {x} \notin F
    <3>1. F \subseteq SUBSET S
      OBVIOUS
    <3> HIDE DEF F
    <3> QED
      BY <3>1, LeastPart
  <2>2. T # {}
    <3>1. f[{}] = 0 /\ g[{}] = 0
      BY <1>1, <1>2 DEF Ledger
    <3>2. ~ (f[T] <= g[T])
      BY <2>1
    <3> QED
      BY <3>1, <3>2
  <2>3. PICK x : x \in T
    BY <2>2
  <2>4. T \ {x} \in SUBSET S /\ f[T \ {x}] <= g[T \ {x}]
    BY <2>1, <2>3
  <2>5. f[T] = v[x] + f[T \ {x}] /\ g[T] = w[x] + g[T \ {x}]
    BY <1>1, <1>2, <2>1, <2>3 DEF Ledger
  <2>6. f[T \ {x}] \in Int /\ g[T \ {x}] \in Int /\ v[x] \in Int /\ w[x] \in Int /\ v[x] <= w[x]
    BY <1>1, <1>2, <2>1, <2>3, <2>4 DEF Ledger
  <2>7. ~ (f[T] <= g[T])
    BY <2>1
  <2> HIDE DEF F
  <2> QED
    BY <2>4, <2>5, <2>6, <2>7
<1>4. f[S] <= g[S]
  BY <1>3
<1>5. SumFunction(v) = f[S] /\ SumFunction(w) = g[S]
  BY <1>1, <1>2, SumByLedger
<1> QED
  BY <1>4, <1>5

\* The sum of natural numbers is one.
LEMMA SumType ==
    ASSUME NEW S, IsFiniteSet(S), NEW v \in [S -> Nat]
    PROVE  SumFunction(v) \in Nat
<1> DEFINE z == [x \in S |-> 0]
<1>1. v \in [S -> Int] /\ z \in [S -> Int] /\ \A x \in S : z[x] = 0 /\ z[x] <= v[x]
  OBVIOUS
<1> HIDE DEF z
<1>2. SumFunction(z) = 0
  BY <1>1, SumOfZeros
<1>3. SumFunction(z) <= SumFunction(v)
  BY <1>1, SumMonotone
<1>4. PICK f : Ledger(f, v, S)
  BY <1>1, LedgerExists
<1>5. SumFunction(v) = f[S] /\ f[S] \in Int
  <2>1. SumFunction(v) = f[S]
    BY <1>1, <1>4, SumByLedger
  <2>2. f \in [SUBSET S -> Int]
    BY <1>4 DEF Ledger
  <2> QED
    BY <2>1, <2>2
<1> QED
  BY <1>2, <1>3, <1>5

-----------------------------------------------------------------------------
(* What a job has of a node *)

\* An allocation's share of a node is a number, and NoAlloc has none.
LEMMA Shares ==
    ASSUME NEW a \in Alloc \cup {NoAlloc}, NEW n \in Node
    PROVE  /\ CpuOn(a, n) \in Nat /\ MemoryOn(a, n) \in Nat
           /\ CpuOn(NoAlloc, n) = 0 /\ MemoryOn(NoAlloc, n) = 0
BY NodesAndCards DEF CpuOn, MemoryOn, Alloc, NoAlloc

\* What is held and what is stored are numbers per job.
LEMMA ShareTypes ==
    ASSUME TypeOK, NEW n \in Node
    PROVE  /\ CpuHeld(n) \in [Job -> Nat] /\ MemoryHeld(n) \in [Job -> Nat]
           /\ CpuStored(n) \in [Job -> Nat] /\ MemoryStored(n) \in [Job -> Nat]
<1>1. \A j \in Job : /\ hold[j] \in Alloc \cup {NoAlloc}
                     /\ execution[j] \in Alloc \cup {NoAlloc}
                     /\ row[j].alloc \in Alloc \cup {NoAlloc}
      BY DEF TypeOK, JobRow
<1>2. \A j \in Job : /\ CpuOn(hold[j], n) \in Nat /\ MemoryOn(hold[j], n) \in Nat
                     /\ CpuOn(execution[j], n) \in Nat /\ MemoryOn(execution[j], n) \in Nat
                     /\ CpuOn(row[j].alloc, n) \in Nat /\ MemoryOn(row[j].alloc, n) \in Nat
      BY <1>1, Shares
<1> QED
      BY <1>2 DEF CpuHeld, MemoryHeld, CpuStored, MemoryStored

\* The same of the next state.
LEMMA ShareTypesNext ==
    ASSUME TypeOK', NEW n \in Node
    PROVE  /\ CpuHeld(n)' \in [Job -> Nat] /\ MemoryHeld(n)' \in [Job -> Nat]
           /\ CpuStored(n)' \in [Job -> Nat] /\ MemoryStored(n)' \in [Job -> Nat]
<1>1. \A j \in Job : /\ hold'[j] \in Alloc \cup {NoAlloc}
                     /\ execution'[j] \in Alloc \cup {NoAlloc}
                     /\ row'[j].alloc \in Alloc \cup {NoAlloc}
      BY DEF TypeOK, JobRow
<1>2. \A j \in Job : /\ CpuOn(hold'[j], n) \in Nat /\ MemoryOn(hold'[j], n) \in Nat
                     /\ CpuOn(execution'[j], n) \in Nat /\ MemoryOn(execution'[j], n) \in Nat
                     /\ CpuOn(row'[j].alloc, n) \in Nat /\ MemoryOn(row'[j].alloc, n) \in Nat
      BY <1>1, Shares
<1> QED
      BY <1>2 DEF CpuHeld, MemoryHeld, CpuStored, MemoryStored

\* When one job's share and what is free change by the same amount, they still
\* add up.
LEMMA Balanced ==
    ASSUME NEW v \in [Job -> Nat], NEW w \in [Job -> Nat], NEW j \in Job,
           \A k \in Job \ {j} : w[k] = v[k],
           NEW free \in Nat, NEW left \in Nat, NEW total,
           left + w[j] = free + v[j],
           free + SumFunction(v) = total
    PROVE  left + SumFunction(w) = total
<1>1. v \in [Job -> Int] /\ w \in [Job -> Int] /\ v[j] \in Nat /\ w[j] \in Nat
      OBVIOUS
<1>2. SumFunction(w) = SumFunction(v) + (w[j] - v[j])
      BY <1>1, FiniteJobs, SumUpdated
<1>3. SumFunction(v) \in Nat
      BY FiniteJobs, SumType
<1> QED
      BY <1>1, <1>2, <1>3

\* A step that moves resources between one job and the pools conserves them.
LEMMA Moved ==
    ASSUME TypeOK, TypeOK', Conserved, NEW j \in Job,
           \A k \in Job \ {j} : hold'[k] = hold[k] /\ execution'[k] = execution[k],
           \A n \in Node :
              /\ pools'[n].cpu + (CpuOn(hold'[j], n) + CpuOn(execution'[j], n))
                   = pools[n].cpu + (CpuOn(hold[j], n) + CpuOn(execution[j], n))
              /\ pools'[n].memory + (MemoryOn(hold'[j], n) + MemoryOn(execution'[j], n))
                   = pools[n].memory + (MemoryOn(hold[j], n) + MemoryOn(execution[j], n))
    PROVE  Conserved'
<1> SUFFICES ASSUME NEW n \in Node
             PROVE  /\ pools'[n].cpu + SumFunction(CpuHeld(n)') = Total[n].cpu
                    /\ pools'[n].memory + SumFunction(MemoryHeld(n)') = Total[n].memory
      BY DEF Conserved
<1>1. /\ pools[n].cpu \in Nat /\ pools[n].memory \in Nat
      /\ pools'[n].cpu \in Nat /\ pools'[n].memory \in Nat
      BY DEF TypeOK, Pool
<1> DEFINE free == pools[n].cpu
           left == pools'[n].cpu
           v == CpuHeld(n)
           w == CpuHeld(n)'
           total == Total[n].cpu
<1>2. left + SumFunction(w) = total
  <2>1. v \in [Job -> Nat] /\ w \in [Job -> Nat]
        BY ShareTypes, ShareTypesNext
  <2>2. (\A k \in Job \ {j} : w[k] = v[k]) /\ left + w[j] = free + v[j]
        BY DEF CpuHeld
  <2>3. free + SumFunction(v) = total
        BY DEF Conserved
  <2>4. free \in Nat /\ left \in Nat
        BY <1>1
  <2> HIDE DEF free, left, v, w, total
  <2> QED
        BY <2>1, <2>2, <2>3, <2>4, Balanced
<1> DEFINE freeMem == pools[n].memory
           leftMem == pools'[n].memory
           x == MemoryHeld(n)
           y == MemoryHeld(n)'
           totalMem == Total[n].memory
<1>3. leftMem + SumFunction(y) = totalMem
  <2>1. x \in [Job -> Nat] /\ y \in [Job -> Nat]
        BY ShareTypes, ShareTypesNext
  <2>2. (\A k \in Job \ {j} : y[k] = x[k]) /\ leftMem + y[j] = freeMem + x[j]
        BY DEF MemoryHeld
  <2>3. freeMem + SumFunction(x) = totalMem
        BY DEF Conserved
  <2>4. freeMem \in Nat /\ leftMem \in Nat
        BY <1>1
  <2> HIDE DEF freeMem, leftMem, x, y, totalMem
  <2> QED
        BY <2>1, <2>2, <2>3, <2>4, Balanced
<1> QED
      BY <1>2, <1>3

\* Reserving, releasing and, where it fits, booking an allocation move exactly
\* what it says.
LEMMA PoolMoves ==
    ASSUME NEW p \in Pool, NEW a \in Alloc, NEW total
    PROVE  /\ Reserved(total, p, a).cpu = p.cpu - a.cpu
           /\ Reserved(total, p, a).memory = p.memory - a.memory
           /\ Released(total, p, a).cpu = p.cpu + a.cpu
           /\ Released(total, p, a).memory = p.memory + a.memory
           /\ a.cpu <= p.cpu => Booked(total, p, a).cpu = p.cpu - a.cpu
           /\ a.memory <= p.memory => Booked(total, p, a).memory = p.memory - a.memory
BY DEF Reserved, Released, Booked, saturating_sub, Pool, Alloc

\* What the jobs hold of a node is no more than the node has.
LEMMA HeldFits ==
    ASSUME TypeOK, Conserved, NEW n \in Node
    PROVE  /\ SumFunction(CpuHeld(n)) <= Total[n].cpu
           /\ SumFunction(MemoryHeld(n)) <= Total[n].memory
<1>1. SumFunction(CpuHeld(n)) \in Nat /\ SumFunction(MemoryHeld(n)) \in Nat
      BY ShareTypes, FiniteJobs, SumType
<1>2. pools[n].cpu \in Nat /\ pools[n].memory \in Nat
      BY DEF TypeOK, Pool
<1>3. Total[n].cpu \in Nat /\ Total[n].memory \in Nat
      BY InventoryAssumption
<1> QED
      BY <1>1, <1>2, <1>3 DEF Conserved

-----------------------------------------------------------------------------
(* Conservation *)

\* A pool in which nothing is booked has what no job holds.
LEMMA FreshConserved ==
    pools = FreshPools /\ hold = Each(NoAlloc) /\ execution = Each(NoAlloc) => Conserved
<1> SUFFICES ASSUME pools = FreshPools, hold = Each(NoAlloc), execution = Each(NoAlloc), NEW n \in Node
             PROVE  /\ pools[n].cpu + SumFunction(CpuHeld(n)) = Total[n].cpu
                    /\ pools[n].memory + SumFunction(MemoryHeld(n)) = Total[n].memory
      BY DEF Conserved
<1>1. CpuOn(NoAlloc, n) = 0 /\ MemoryOn(NoAlloc, n) = 0
      BY Shares
<1>2. CpuHeld(n) = [j \in Job |-> 0] /\ MemoryHeld(n) = [j \in Job |-> 0]
      BY <1>1 DEF CpuHeld, MemoryHeld, Each
<1>3. SumFunction([j \in Job |-> 0]) = 0
  <2> DEFINE z == [j \in Job |-> 0]
  <2>1. z \in [Job -> Int] /\ \A j \in Job : z[j] = 0
        OBVIOUS
  <2> HIDE DEF z
  <2>2. SumFunction(z) = 0
        BY <2>1, FiniteJobs, SumOfZeros
  <2> QED
        BY <2>2 DEF z
<1>4. pools[n].cpu = Total[n].cpu /\ pools[n].memory = Total[n].memory
      BY DEF FreshPools, NewPool
<1>5. Total[n].cpu \in Nat /\ Total[n].memory \in Nat
      BY InventoryAssumption
<1> QED
      BY <1>2, <1>3, <1>4, <1>5

\* Two sums that fit keep fitting when every value gets smaller or stays.
LEMMA Shrinks ==
    ASSUME NEW v \in [Job -> Nat], NEW w \in [Job -> Nat], \A j \in Job : w[j] <= v[j],
           NEW total \in Nat, SumFunction(v) <= total
    PROVE  SumFunction(w) <= total
<1>1. v \in [Job -> Int] /\ w \in [Job -> Int]
      OBVIOUS
<1>2. SumFunction(w) <= SumFunction(v)
      BY <1>1, FiniteJobs, SumMonotone
<1>3. SumFunction(v) \in Nat /\ SumFunction(w) \in Nat
      BY FiniteJobs, SumType
<1> QED
      BY <1>2, <1>3

\* A job that holds nothing yet has room for its row: what the others hold is
\* part of what their rows say, and all rows together fit.
LEMMA Room ==
    ASSUME NEW v \in [Job -> Nat], NEW s \in [Job -> Nat], NEW j \in Job, v[j] = 0,
           \A k \in Job : v[k] <= s[k],
           NEW free \in Nat, NEW total \in Nat,
           free + SumFunction(v) = total, SumFunction(s) <= total
    PROVE  s[j] <= free
<1> DEFINE w == [v EXCEPT ![j] = s[j]]
<1>1. w \in [Job -> Nat] /\ w[j] = s[j] /\ s[j] \in Nat /\ \A k \in Job \ {j} : w[k] = v[k]
      OBVIOUS
<1>2. v \in [Job -> Int] /\ w \in [Job -> Int]
      BY <1>1
<1>3. \A k \in Job : w[k] <= s[k]
      OBVIOUS
<1> HIDE DEF w
<1>4. SumFunction(w) <= total
      BY <1>1, <1>3, Shrinks
<1>5. SumFunction(w) = SumFunction(v) + (w[j] - v[j])
      BY <1>1, <1>2, FiniteJobs, SumUpdated
<1>6. SumFunction(v) \in Nat
      BY FiniteJobs, SumType
<1> QED
      BY <1>1, <1>4, <1>5, <1>6

\* What a taken-back job claims is free, so booking it does not saturate.
LEMMA ClaimFits ==
    ASSUME TypeOK, MemOK, RowOK, RowsFit, Conserved, up = "recovering",
           NEW j \in todo, row[j].state = "Running", row[j].alloc.node \in Node
    PROVE  /\ row[j].alloc.cpu <= pools[row[j].alloc.node].cpu
           /\ row[j].alloc.memory <= pools[row[j].alloc.node].memory
<1> DEFINE n == row[j].alloc.node
           v == CpuHeld(n)
           s == CpuStored(n)
           x == MemoryHeld(n)
           y == MemoryStored(n)
           free == pools[n].cpu
           freeMem == pools[n].memory
           total == Total[n].cpu
           totalMem == Total[n].memory
<1>1. j \in Job /\ n \in Node
      BY DEF TypeOK
<1>2. \A k \in Job : hold[k] = NoAlloc
      BY DEF MemOK
<1>3. execution[j] = NoAlloc
      BY <1>1 DEF MemOK
<1>4. \A k \in Job : execution[k] # NoAlloc => row[k].state = "Running" /\ row[k].alloc = execution[k]
      BY DEF RowOK
<1>5. CpuOn(NoAlloc, n) = 0 /\ MemoryOn(NoAlloc, n) = 0
      BY <1>1, Shares
<1>6. free \in Nat /\ freeMem \in Nat /\ total \in Nat /\ totalMem \in Nat
      BY <1>1, InventoryAssumption DEF TypeOK, Pool
<1>7. v \in [Job -> Nat] /\ s \in [Job -> Nat] /\ x \in [Job -> Nat] /\ y \in [Job -> Nat]
      BY <1>1, ShareTypes
<1>8. v[j] = 0 /\ x[j] = 0
      BY <1>1, <1>2, <1>3, <1>5 DEF CpuHeld, MemoryHeld
<1>9. s[j] = row[j].alloc.cpu /\ y[j] = row[j].alloc.memory
      BY <1>1 DEF CpuStored, MemoryStored, CpuOn, MemoryOn
<1>10. ASSUME NEW k \in Job PROVE v[k] <= s[k] /\ x[k] <= y[k]
  <2>1. /\ v[k] = 0 + CpuOn(execution[k], n) /\ CpuOn(execution[k], n) \in Nat
        /\ x[k] = 0 + MemoryOn(execution[k], n) /\ MemoryOn(execution[k], n) \in Nat
        BY <1>1, <1>2, <1>5, Shares DEF CpuHeld, MemoryHeld, TypeOK
  <2>2. CASE execution[k] = NoAlloc
    <3>1. v[k] = 0 /\ x[k] = 0 /\ s[k] \in Nat /\ y[k] \in Nat
          BY <1>5, <1>7, <2>1, <2>2
    <3> QED
          BY <3>1
  <2>3. CASE execution[k] # NoAlloc
    <3>1. s[k] = CpuOn(execution[k], n) /\ y[k] = MemoryOn(execution[k], n)
          BY <1>4, <2>3 DEF CpuStored, MemoryStored
    <3> QED
          BY <2>1, <3>1
  <2> QED
        BY <2>2, <2>3
<1>11. free + SumFunction(v) = total /\ freeMem + SumFunction(x) = totalMem
      BY <1>1 DEF Conserved
<1>12. SumFunction(s) <= total /\ SumFunction(y) <= totalMem
      BY <1>1 DEF RowsFit
<1>13. s[j] <= free
  <2> HIDE DEF v, s, x, y, free, freeMem, total, totalMem
  <2> QED
      BY <1>1, <1>6, <1>7, <1>8, <1>10, <1>11, <1>12, Room
<1>14. y[j] <= freeMem
  <2> HIDE DEF v, s, x, y, free, freeMem, total, totalMem
  <2> QED
      BY <1>1, <1>6, <1>7, <1>8, <1>10, <1>11, <1>12, Room
<1> QED
      BY <1>9, <1>13, <1>14

\* No step loses CPU or memory or counts it twice.
LEMMA ConservedPreserved ==
    ASSUME TypeOK, LoopOK, MemOK, Conserved, [Next]_vars,
           up = "recovering" => RowOK /\ RowsFit
    PROVE  Conserved'
<1>1. TypeOK'
      BY TypesPreserved
<1>2. \A n \in Node : pools[n] \in Pool /\ pools[n].cpu \in Nat /\ pools[n].memory \in Nat
      BY DEF TypeOK, Pool
<1>3. \A n \in Node : CpuOn(NoAlloc, n) = 0 /\ MemoryOn(NoAlloc, n) = 0
      BY Shares
\* A job takes an allocation out of its pool, which has room for it.
<1>4. ASSUME NEW j \in Job, NEW a \in Alloc, NEW p,
             pools' = [pools EXCEPT ![a.node] = p],
             p.cpu = pools[a.node].cpu - a.cpu, p.memory = pools[a.node].memory - a.memory,
             hold[j] = NoAlloc, execution[j] = NoAlloc,
             \/ hold' = [hold EXCEPT ![j] = a] /\ UNCHANGED execution
             \/ execution' = [execution EXCEPT ![j] = a] /\ UNCHANGED hold
      PROVE  Conserved'
  <2>1. \A k \in Job \ {j} : hold'[k] = hold[k] /\ execution'[k] = execution[k]
        BY <1>4 DEF TypeOK
  <2>2. \/ hold'[j] = a /\ execution'[j] = NoAlloc
        \/ hold'[j] = NoAlloc /\ execution'[j] = a
        BY <1>4 DEF TypeOK
  <2>3. a.node \in Node /\ a.cpu \in Nat /\ a.memory \in Nat
        BY DEF Alloc
  <2>4. pools'[a.node] = p /\ \A n \in Node \ {a.node} : pools'[n] = pools[n]
        BY <1>4, <2>3 DEF TypeOK
  <2>5. \A n \in Node : /\ CpuOn(a, n) = IF n = a.node THEN a.cpu ELSE 0
                        /\ MemoryOn(a, n) = IF n = a.node THEN a.memory ELSE 0
        BY DEF CpuOn, MemoryOn
  <2>6. ASSUME NEW n \in Node
        PROVE  /\ pools'[n].cpu + (CpuOn(hold'[j], n) + CpuOn(execution'[j], n))
                    = pools[n].cpu + (CpuOn(hold[j], n) + CpuOn(execution[j], n))
               /\ pools'[n].memory + (MemoryOn(hold'[j], n) + MemoryOn(execution'[j], n))
                    = pools[n].memory + (MemoryOn(hold[j], n) + MemoryOn(execution[j], n))
    <3>1. /\ CpuOn(hold'[j], n) + CpuOn(execution'[j], n) = IF n = a.node THEN a.cpu ELSE 0
          /\ MemoryOn(hold'[j], n) + MemoryOn(execution'[j], n) = IF n = a.node THEN a.memory ELSE 0
          BY <1>3, <2>2, <2>3, <2>5
    <3>2. /\ CpuOn(hold[j], n) + CpuOn(execution[j], n) = 0
          /\ MemoryOn(hold[j], n) + MemoryOn(execution[j], n) = 0
          BY <1>3, <1>4
    <3>3. CASE n = a.node
      <4>1. /\ pools'[n].cpu = pools[n].cpu - a.cpu /\ pools[n].cpu \in Nat
            /\ pools'[n].memory = pools[n].memory - a.memory /\ pools[n].memory \in Nat
            BY <1>2, <1>4, <2>4, <3>3
      <4> QED
            BY <2>3, <3>1, <3>2, <3>3, <4>1
    <3>4. CASE n # a.node
      <4>1. pools'[n] = pools[n]
            BY <2>4, <3>4
      <4> QED
            BY <3>1, <3>2, <3>4, <4>1
    <3> QED
          BY <3>3, <3>4
  <2> QED
        BY <1>1, <2>1, <2>6, Moved
\* A job gives back to its pool what it had.
<1>5. ASSUME NEW j \in Job, NEW a \in Alloc,
             pools' = [pools EXCEPT ![a.node] = Released(Total[a.node], pools[a.node], a)],
             \/ hold[j] = a /\ execution[j] = NoAlloc
             \/ hold[j] = NoAlloc /\ execution[j] = a,
             \A k \in Job \ {j} : hold'[k] = hold[k] /\ execution'[k] = execution[k],
             hold'[j] = NoAlloc, execution'[j] = NoAlloc
      PROVE  Conserved'
  <2>1. a.node \in Node /\ a.cpu \in Nat /\ a.memory \in Nat
        BY DEF Alloc
  <2>2. /\ pools'[a.node].cpu = pools[a.node].cpu + a.cpu
        /\ pools'[a.node].memory = pools[a.node].memory + a.memory
        /\ \A n \in Node \ {a.node} : pools'[n] = pools[n]
    <3>1. pools'[a.node] = Released(Total[a.node], pools[a.node], a)
          BY <1>5, <2>1 DEF TypeOK
    <3>2. \A n \in Node \ {a.node} : pools'[n] = pools[n]
          BY <1>5, <2>1 DEF TypeOK
    <3> QED
          BY <1>2, <2>1, <3>1, <3>2, PoolMoves
  <2>3. \A n \in Node : /\ CpuOn(a, n) = IF n = a.node THEN a.cpu ELSE 0
                        /\ MemoryOn(a, n) = IF n = a.node THEN a.memory ELSE 0
        BY DEF CpuOn, MemoryOn
  <2>4. ASSUME NEW n \in Node
        PROVE  /\ pools'[n].cpu + (CpuOn(hold'[j], n) + CpuOn(execution'[j], n))
                    = pools[n].cpu + (CpuOn(hold[j], n) + CpuOn(execution[j], n))
               /\ pools'[n].memory + (MemoryOn(hold'[j], n) + MemoryOn(execution'[j], n))
                    = pools[n].memory + (MemoryOn(hold[j], n) + MemoryOn(execution[j], n))
    <3>1. /\ CpuOn(hold[j], n) + CpuOn(execution[j], n) = IF n = a.node THEN a.cpu ELSE 0
          /\ MemoryOn(hold[j], n) + MemoryOn(execution[j], n) = IF n = a.node THEN a.memory ELSE 0
          BY <1>3, <1>5, <2>1, <2>3
    <3>2. /\ CpuOn(hold'[j], n) + CpuOn(execution'[j], n) = 0
          /\ MemoryOn(hold'[j], n) + MemoryOn(execution'[j], n) = 0
          BY <1>3, <1>5
    <3>3. CASE n = a.node
      <4>1. /\ pools'[n].cpu = pools[n].cpu + a.cpu /\ pools[n].cpu \in Nat
            /\ pools'[n].memory = pools[n].memory + a.memory /\ pools[n].memory \in Nat
            BY <1>2, <2>2, <3>3
      <4> QED
            BY <2>1, <3>1, <3>2, <3>3, <4>1
    <3>4. CASE n # a.node
      <4>1. pools'[n] = pools[n]
            BY <2>2, <3>4
      <4> QED
            BY <3>1, <3>2, <3>4, <4>1
    <3> QED
          BY <3>3, <3>4
  <2> QED
        BY <1>1, <1>5, <2>4, Moved
<1>6. CASE UNCHANGED <<pools, hold, execution>>
      BY <1>6 DEF Conserved, CpuHeld, MemoryHeld
<1>7. ASSUME NEW j \in Job, Reserve(j) PROVE Conserved'
  <2>1. CASE UNCHANGED <<pools, hold, result>>
        BY <1>6, <1>7, <2>1 DEF Reserve
  <2>2. ASSUME NEW a \in place(Total, pools, seen \ rejected[j], Needs[j]),
               pools' = [pools EXCEPT ![a.node] = Reserved(Total[a.node], @, a)],
               hold' = [hold EXCEPT ![j] = a]
        PROVE  Conserved'
    <3>1. a \in Alloc /\ a.node \in Node
          BY Placed
    <3>2. hold[j] = NoAlloc /\ execution[j] = NoAlloc /\ UNCHANGED execution
          BY <1>7 DEF Reserve, MemOK
    <3> DEFINE p == Reserved(Total[a.node], pools[a.node], a)
    <3>3. p.cpu = pools[a.node].cpu - a.cpu /\ p.memory = pools[a.node].memory - a.memory
          BY <1>2, <3>1, PoolMoves
    <3>4. pools' = [pools EXCEPT ![a.node] = p]
          BY <2>2
    <3> HIDE DEF p
    <3> QED
          BY <1>4, <2>2, <3>1, <3>2, <3>3, <3>4
  <2> QED
        BY <1>7, <2>1, <2>2 DEF Reserve
<1>8. ASSUME NEW j \in Job, Apply(j) PROVE Conserved'
  <2> DEFINE a == hold[j]
  <2>1. a \in Alloc /\ a.node \in Node /\ execution[j] = NoAlloc
        BY <1>8, AllocFields DEF Apply, MemOK, TypeOK
  <2>2. hold' = [hold EXCEPT ![j] = NoAlloc]
        BY <1>8 DEF Apply
  <2>3. hold'[j] = NoAlloc /\ \A k \in Job \ {j} : hold'[k] = hold[k]
        BY <2>2 DEF TypeOK
  <2>4. CASE result[j] = "ok"
    <3>1. execution' = [execution EXCEPT ![j] = a] /\ UNCHANGED pools
          BY <1>8, <2>4 DEF Apply, GivesBack
    <3>2. execution'[j] = a /\ \A k \in Job \ {j} : execution'[k] = execution[k]
          BY <3>1 DEF TypeOK
    <3>3. ASSUME NEW n \in Node
          PROVE  /\ pools'[n].cpu + (CpuOn(hold'[j], n) + CpuOn(execution'[j], n))
                      = pools[n].cpu + (CpuOn(hold[j], n) + CpuOn(execution[j], n))
                 /\ pools'[n].memory + (MemoryOn(hold'[j], n) + MemoryOn(execution'[j], n))
                      = pools[n].memory + (MemoryOn(hold[j], n) + MemoryOn(execution[j], n))
      <4>1. CpuOn(a, n) \in Nat /\ MemoryOn(a, n) \in Nat
            BY <2>1, Shares
      <4> QED
            BY <1>3, <2>1, <2>3, <3>1, <3>2, <4>1
    <3> QED
          BY <1>1, <2>3, <3>2, <3>3, Moved
  <2>5. CASE result[j] # "ok"
    <3>1. pools' = [pools EXCEPT ![a.node] = Released(Total[a.node], pools[a.node], a)] /\ UNCHANGED execution
          BY <1>8, <2>5 DEF Apply, GivesBack
    <3> QED
          BY <1>5, <2>1, <2>3, <3>1
  <2> QED
        BY <2>4, <2>5
<1>9. ASSUME NEW j \in Job, Reap(j) PROVE Conserved'
  <2> DEFINE a == execution[j]
  <2>1. a \in Alloc /\ a.node \in Node /\ hold[j] = NoAlloc
        BY <1>9, AllocFields DEF Reap, LoopOK, MemOK, TypeOK
  <2>2. UNCHANGED hold
        BY <1>9 DEF Reap
  <2>3. CASE result[j] \in ExitStatus \cup {"error"}
    <3>1. /\ pools' = [pools EXCEPT ![a.node] = Released(Total[a.node], pools[a.node], a)]
          /\ execution' = [execution EXCEPT ![j] = NoAlloc]
          BY <1>9, <2>3 DEF Reap
    <3>2. execution'[j] = NoAlloc /\ \A k \in Job \ {j} : execution'[k] = execution[k]
          BY <3>1 DEF TypeOK
    <3> QED
          BY <1>5, <2>1, <2>2, <3>1, <3>2
  <2>4. CASE result[j] \notin ExitStatus \cup {"error"}
        BY <1>6, <1>9, <2>2, <2>4 DEF Reap
  <2> QED
        BY <2>3, <2>4
<1>10. ASSUME NEW j \in Job, RecoverJob(j) PROVE Conserved'
  <2> DEFINE a == row[j].alloc
             p == Booked(Total[a.node], pools[a.node], a)
  <2>1. up = "recovering" /\ j \in todo /\ UNCHANGED hold
        BY <1>10 DEF RecoverJob
  <2>2. hold[j] = NoAlloc /\ execution[j] = NoAlloc
        BY <2>1 DEF MemOK
  <2>3. \/ UNCHANGED <<pools, execution>>
        \/ /\ row[j].state = "Running"
           /\ execution' = [execution EXCEPT ![j] = a]
           /\ pools' = [pools EXCEPT ![a.node] = p]
        BY <1>10 DEF RecoverJob
  <2>4. CASE UNCHANGED <<pools, execution>>
        BY <1>6, <2>1, <2>4
  <2>5. ASSUME row[j].state = "Running", execution' = [execution EXCEPT ![j] = a],
               pools' = [pools EXCEPT ![a.node] = p]
        PROVE  Conserved'
    <3>1. CASE a.node \in Node
      <4>1. a \in Alloc
            BY <3>1, AllocFields DEF TypeOK, JobRow
      <4>2. a.cpu <= pools[a.node].cpu /\ a.memory <= pools[a.node].memory
            BY <2>1, <2>5, <3>1, ClaimFits
      <4>3. p.cpu = pools[a.node].cpu - a.cpu /\ p.memory = pools[a.node].memory - a.memory
            BY <1>2, <3>1, <4>1, <4>2, PoolMoves
      <4> HIDE DEF p
      <4> QED
            BY <1>4, <2>1, <2>2, <2>5, <4>1, <4>3
    <3>2. CASE a.node \notin Node
      <4>1. a = NoAlloc
            BY <3>2, AllocFields DEF TypeOK, JobRow
      <4>2. execution' = execution
            BY <2>2, <2>5, <4>1 DEF TypeOK
      <4>3. pools' = pools
            BY <2>5, <3>2 DEF TypeOK
      <4> QED
            BY <1>6, <2>1, <4>2, <4>3
    <3> QED
          BY <3>1, <3>2
  <2> QED
        BY <2>3, <2>4, <2>5
<1>11. CASE Crash
  <2>1. (pools = FreshPools /\ hold = Each(NoAlloc) /\ execution = Each(NoAlloc))'
        BY <1>11 DEF Crash, FreshPools, Each
  <2> QED
        BY <2>1, FreshConserved, PTL
<1>12. CoreStep => \/ UNCHANGED <<pools, hold, execution>>
                   \/ Crash
                   \/ \E j \in Job : Reserve(j) \/ Apply(j) \/ Reap(j) \/ RecoverJob(j)
      BY DEF CoreStep, memVars, loopVars, advance_pending, cascade_skipped, BeginReserve, SnapshotRunning,
             Restart, RecoverDone, Flush, Answered, StoreJob, BeginSubmit, InsertRun
<1> QED
      BY <1>6, <1>7, <1>8, <1>9, <1>10, <1>11, <1>12, StepKinds DEF coreVars

\* No step makes the running rows of a node claim more than it has: a start is
\* written while every running row is an execution in memory, and anything else
\* that is written only ends a claim.
LEMMA RowsFitPreserved ==
    ASSUME TypeOK, LoopOK, MemOK, RowOK, Conserved, RowsFit, [Next]_vars
    PROVE  RowsFit'
<1>1. TypeOK'
      BY TypesPreserved
<1>2. \A n \in Node : Total[n].cpu \in Nat /\ Total[n].memory \in Nat
      BY InventoryAssumption
\* Claims that stay or end.
<1>3. ASSUME \A k \in Job : row'[k] = row[k] \/ row'[k].state # "Running"
      PROVE  RowsFit'
  <2> SUFFICES ASSUME NEW n \in Node
               PROVE  /\ SumFunction(CpuStored(n)') <= Total[n].cpu
                      /\ SumFunction(MemoryStored(n)') <= Total[n].memory
        BY DEF RowsFit
  <2> DEFINE v == CpuStored(n)
             w == CpuStored(n)'
             x == MemoryStored(n)
             y == MemoryStored(n)'
  <2>1. v \in [Job -> Nat] /\ w \in [Job -> Nat] /\ x \in [Job -> Nat] /\ y \in [Job -> Nat]
        BY <1>1, ShareTypes, ShareTypesNext
  <2>2. \A k \in Job : (w[k] = v[k] \/ w[k] = 0) /\ (y[k] = x[k] \/ y[k] = 0)
        BY <1>3 DEF CpuStored, MemoryStored
  <2>3. SumFunction(v) <= Total[n].cpu /\ SumFunction(x) <= Total[n].memory
        BY DEF RowsFit
  <2> HIDE DEF v, w, x, y
  <2>4. \A k \in Job : w[k] <= v[k] /\ y[k] <= x[k]
        BY <2>1, <2>2
  <2>5. SumFunction(w) <= Total[n].cpu
        BY <1>2, <2>1, <2>3, <2>4, Shrinks
  <2>6. SumFunction(y) <= Total[n].memory
        BY <1>2, <2>1, <2>3, <2>4, Shrinks
  <2> QED
        BY <2>5, <2>6 DEF w, y
\* Claims that are all executions in memory.
<1>4. ASSUME \A k \in Job : row'[k].state = "Running" => row'[k].alloc = execution[k]
      PROVE  RowsFit'
  <2> SUFFICES ASSUME NEW n \in Node
               PROVE  /\ SumFunction(CpuStored(n)') <= Total[n].cpu
                      /\ SumFunction(MemoryStored(n)') <= Total[n].memory
        BY DEF RowsFit
  <2> DEFINE v == CpuHeld(n)
             w == CpuStored(n)'
             x == MemoryHeld(n)
             y == MemoryStored(n)'
  <2>1. v \in [Job -> Nat] /\ w \in [Job -> Nat] /\ x \in [Job -> Nat] /\ y \in [Job -> Nat]
        BY <1>1, ShareTypes, ShareTypesNext
  <2>2. ASSUME NEW k \in Job PROVE w[k] <= v[k] /\ y[k] <= x[k]
    <3>1. /\ CpuOn(hold[k], n) \in Nat /\ CpuOn(execution[k], n) \in Nat
          /\ MemoryOn(hold[k], n) \in Nat /\ MemoryOn(execution[k], n) \in Nat
          BY Shares DEF TypeOK
    <3>2. /\ v[k] = CpuOn(hold[k], n) + CpuOn(execution[k], n)
          /\ x[k] = MemoryOn(hold[k], n) + MemoryOn(execution[k], n)
          BY DEF CpuHeld, MemoryHeld
    <3>3. /\ w[k] = 0 \/ w[k] = CpuOn(execution[k], n)
          /\ y[k] = 0 \/ y[k] = MemoryOn(execution[k], n)
          BY <1>4 DEF CpuStored, MemoryStored
    <3> HIDE DEF v, w, x, y
    <3> QED
          BY <3>1, <3>2, <3>3
  <2>3. SumFunction(v) <= Total[n].cpu /\ SumFunction(x) <= Total[n].memory
        BY HeldFits
  <2> HIDE DEF v, w, x, y
  <2>4. SumFunction(w) <= Total[n].cpu
        BY <1>2, <2>1, <2>2, <2>3, Shrinks
  <2>5. SumFunction(y) <= Total[n].memory
        BY <1>2, <2>1, <2>2, <2>3, Shrinks
  <2> QED
        BY <2>4, <2>5 DEF w, y
<1>5. ASSUME NEW j \in Job, Flush(j) PROVE RowsFit'
  <2>1. CASE UNCHANGED row
        BY <1>3, <2>1
  <2>2. CASE row' = [row EXCEPT ![j] = [state |-> jobState[j], alloc |-> execution[j]]]
    <3>1. row'[j].state = jobState[j] /\ row'[j].alloc = execution[j] /\ \A k \in Job \ {j} : row'[k] = row[k]
          BY <2>2 DEF TypeOK
    <3>2. CASE jobState[j] # "Running"
          BY <1>3, <3>1, <3>2
    <3>3. CASE jobState[j] = "Running"
      <4>1. up = "up" /\ pc = "snapshot"
            BY <1>5, <3>3 DEF Flush, RunsUnlocked, RowOK
      <4>2. \A k \in Job : row[k].state = "Running" => row[k].alloc = execution[k]
            BY <4>1 DEF RowOK
      <4> QED
            BY <1>4, <3>1, <4>2
    <3> QED
          BY <3>2, <3>3
  <2> QED
        BY <1>5, <2>1, <2>2 DEF Flush
<1>6. ASSUME NEW j \in Job, StoreJob(j) PROVE RowsFit'
  <2>1. row'[j].state = "Pending" /\ \A k \in Job \ {j} : row'[k] = row[k]
        BY <1>6 DEF StoreJob, TypeOK
  <2> QED
        BY <1>3, <2>1
<1>7. ASSUME NEW j \in Job, RecoverJob(j) PROVE RowsFit'
  <2>1. row' = row \/ row' = [row EXCEPT ![j] = [state |-> "Interrupted", alloc |-> NoAlloc]]
        BY <1>7 DEF RecoverJob
  <2>2. \A k \in Job : row'[k] = row[k] \/ row'[k].state = "Interrupted"
        BY <2>1 DEF TypeOK
  <2> QED
        BY <1>3, <2>2
<1>8. CASE UNCHANGED row
      BY <1>3, <1>8
<1>9. CoreStep => UNCHANGED row \/ \E j \in Job : Flush(j) \/ StoreJob(j) \/ RecoverJob(j)
      BY DEF CoreStep, advance_pending, cascade_skipped, BeginReserve, SnapshotRunning, Crash, Restart,
             RecoverDone, Reserve, Answered, Apply, Reap, BeginSubmit, InsertRun
<1> QED
      BY <1>5, <1>6, <1>7, <1>8, <1>9, StepKinds DEF coreVars

\* A controller starts with everything free and nothing stored.
LEMMA InitialBooks == Init => Conserved /\ RowsFit
<1> SUFFICES ASSUME Init PROVE Conserved /\ RowsFit
      OBVIOUS
<1>1. Conserved
      BY FreshConserved DEF Init
<1>2. TypeOK
      BY InitialTypes
<1>3. \A j \in Job : row[j].state # "Running"
      BY DEF Init, NoRow
<1>4. ASSUME NEW n \in Node PROVE SumFunction(CpuStored(n)) = 0 /\ SumFunction(MemoryStored(n)) = 0
  <2> DEFINE v == CpuStored(n)
             x == MemoryStored(n)
  <2>1. v \in [Job -> Nat] /\ x \in [Job -> Nat]
        BY <1>2, ShareTypes
  <2>2. \A j \in Job : v[j] = 0 /\ x[j] = 0
        BY <1>3 DEF CpuStored, MemoryStored
  <2> HIDE DEF v, x
  <2>3. v \in [Job -> Int] /\ x \in [Job -> Int]
        BY <2>1
  <2>4. SumFunction(v) = 0 /\ SumFunction(x) = 0
        BY <2>2, <2>3, FiniteJobs, SumOfZeros
  <2> QED
        BY <2>4 DEF v, x
<1>5. \A n \in Node : Total[n].cpu \in Nat /\ Total[n].memory \in Nat
      BY InventoryAssumption
<1>6. RowsFit
      BY <1>4, <1>5 DEF RowsFit
<1> QED
      BY <1>1, <1>6

\* Memory, the store, the pools and the inventory stay consistent as long as
\* the store keeps what is written to it.
LEMMA BooksKept ==
    ASSUME "store" \notin Faults
    PROVE  Spec => [](TypeOK /\ LoopOK /\ MemOK /\ RowOK /\ Conserved /\ RowsFit)
<1> DEFINE IInv == TypeOK /\ LoopOK /\ MemOK /\ RowOK /\ Conserved /\ RowsFit
<1>1. Init => IInv
      BY InitialTypes, InitialMemory, InitialBooks
<1>2. IInv /\ [Next]_vars => IInv'
      BY TypesPreserved, LoopPreserved, MemPreserved, RowsPreserved, ConservedPreserved, RowsFitPreserved
<1> QED
      BY <1>1, <1>2, PTL DEF Spec

\* With a store that keeps what is written to it, no CPU and no memory is lost
\* or handed out twice (ResourcePool's try_reserve, release and book as the
\* scheduler and take_back_runs call them), for any finite set of jobs, any
\* inventory and any sequence of crashes, refused launches and lost messages.
THEOREM NothingLeaks ==
    ASSUME "store" \notin Faults
    PROVE  Spec => []Conserved
      BY BooksKept, PTL

\* What the store says is running always fits its nodes, although
\* flush_transitions writes the rows one by one and the controller may die
\* between two of them: book, which cannot refuse, never has to.
THEOREM RowsAlwaysFit ==
    ASSUME "store" \notin Faults
    PROVE  Spec => []RowsFit
      BY BooksKept, PTL

\* Without any promise of the store, as long as the controller does not die:
\* nothing it keeps in memory depends on what the store kept.
THEOREM NothingLeaksUnsaved ==
    ASSUME Faults \cap {"crash", "launchCrash"} = {}
    PROVE  Spec => []Conserved
<1> DEFINE IInv == up = "up" /\ TypeOK /\ LoopOK /\ MemOK /\ Conserved
<1>1. Init => IInv
      BY InitialTypes, InitialMemory, InitialBooks DEF Init
<1>2. IInv /\ [Next]_vars => IInv'
      BY StaysUp, TypesPreserved, LoopPreserved, MemPreserved, ConservedPreserved
<1> QED
      BY <1>1, <1>2, PTL DEF Spec
=============================================================================
