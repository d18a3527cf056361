------------------------------ MODULE Resources ------------------------------
(***************************************************************************)
(* What a node's pool holds, what a job asks for, and first-fit placement. *)
(*                                                                         *)
(* A request is a record [cpu, memory, gpu, vram].  A pool is a record     *)
(* [cpu, memory, vram, blocked]: the free CPU and memory, the free VRAM of *)
(* each card, and the cards the GPU check keeps out of placement.  A total *)
(* has the same fields without blocked.  An allocation is a record         *)
(* [node, cpu, memory, gpus]; a card is always held whole, so the VRAM of  *)
(* an allocation is the total VRAM of its cards.                           *)
(***************************************************************************)
EXTENDS Integers, FiniteSets

GPU_COUNTS == {1, 2, 4, 8}

\* The requests tried for a job, told apart by their card count: its own, or
\* for a job that gives only VRAM the same request on 1, 2, 4 and 8 cards.
gpu_options(spec) ==
    IF spec.gpu > 0 \/ spec.vram = 0
    THEN {spec}
    ELSE {[spec EXCEPT !.gpu = k] : k \in GPU_COUNTS}

\* Each card's even share of the job's VRAM, rounded up.
vram_per_gpu(spec) ==
    IF spec.gpu = 0 THEN 0 ELSE (spec.vram + spec.gpu - 1) \div spec.gpu

\* A pool in which nothing is booked.
NewPool(total) ==
    [cpu |-> total.cpu, memory |-> total.memory, vram |-> total.vram, blocked |-> {}]

-----------------------------------------------------------------------------

\* The cards of the pool that may be handed out for the request: whole, free,
\* not blocked, and large enough for their share.
FreeCards(total, pool, spec) ==
    {g \in DOMAIN total.vram :
        /\ total.vram[g] > 0
        /\ pool.vram[g] = total.vram[g]
        /\ g \notin pool.blocked
        /\ total.vram[g] >= vram_per_gpu(spec)}

\* The k lowest indices of a set of cards.
Lowest(cards, k) == {g \in cards : Cardinality({h \in cards : h < g}) < k}

\* The cards try_find_gpus selects; meaningful when can_admit holds.
SelectedCards(total, pool, spec) == Lowest(FreeCards(total, pool, spec), spec.gpu)

\* Whether the request could ever fit, compared against the totals.
could_fit(total, spec) ==
    /\ total.cpu >= spec.cpu
    /\ total.memory >= spec.memory
    /\ Cardinality({g \in DOMAIN total.vram :
                       total.vram[g] > 0 /\ total.vram[g] >= vram_per_gpu(spec)}) >= spec.gpu

\* Slip: what other jobs have is not taken off.
can_admit_Totals(total, pool, spec) == could_fit(total, spec)

\* Whether the request fits what is free now.
can_admit(total, pool, spec) ==
    /\ pool.cpu >= spec.cpu
    /\ pool.memory >= spec.memory
    /\ Cardinality(FreeCards(total, pool, spec)) >= spec.gpu

\* The pool after an admitted allocation is taken from it.
Reserved(total, pool, alloc) ==
    [pool EXCEPT !.cpu    = @ - alloc.cpu,
                 !.memory = @ - alloc.memory,
                 !.vram   = [g \in DOMAIN @ |-> IF g \in alloc.gpus THEN @[g] - total.vram[g] ELSE @[g]]]

\* Slip: the memory is not given back.
Released_KeepsMemory(total, pool, alloc) ==
    [pool EXCEPT !.cpu  = @ + alloc.cpu,
                 !.vram = [g \in DOMAIN @ |-> IF g \in alloc.gpus THEN @[g] + total.vram[g] ELSE @[g]]]

\* The pool after an allocation is returned to it.
Released(total, pool, alloc) ==
    [pool EXCEPT !.cpu    = @ + alloc.cpu,
                 !.memory = @ + alloc.memory,
                 !.vram   = [g \in DOMAIN @ |-> IF g \in alloc.gpus THEN @[g] + total.vram[g] ELSE @[g]]]

saturating_sub(a, b) == IF a >= b THEN a - b ELSE 0

\* Slip: a taken-back job is not counted.
Booked_Forgotten(total, pool, alloc) == pool

\* The pool after a taken-back job is counted in it; unlike a reservation this
\* cannot refuse.
Booked(total, pool, alloc) ==
    [pool EXCEPT !.cpu    = saturating_sub(@, alloc.cpu),
                 !.memory = saturating_sub(@, alloc.memory),
                 !.vram   = [g \in DOMAIN @ |->
                                IF g \in alloc.gpus THEN saturating_sub(@[g], total.vram[g]) ELSE @[g]]]

-----------------------------------------------------------------------------

\* The (request, node) pairs a job could be placed as right now.
Candidates(totals, pools, usable, spec) ==
    {c \in gpu_options(spec) \X usable : can_admit(totals[c[2]], pools[c[2]], c[1])}

\* The allocation place makes for a one-member job, as a set of at most one
\* element: fewest cards first, then the first usable node in file order.
place(totals, pools, usable, spec) ==
    LET cands == Candidates(totals, pools, usable, spec)
        best  == {c \in cands : \A d \in cands :
                     c[1].gpu < d[1].gpu \/ (c[1].gpu = d[1].gpu /\ c[2] <= d[2])}
    IN {[node |-> c[2], cpu |-> c[1].cpu, memory |-> c[1].memory,
         gpus |-> SelectedCards(totals[c[2]], pools[c[2]], c[1])] : c \in best}
=============================================================================
