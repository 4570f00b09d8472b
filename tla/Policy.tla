------------------------------- MODULE Policy -------------------------------
(***************************************************************************)
(* What one scheduler tick decides to put in the batch: BaselinePolicy     *)
(* (sched/policy.cpp), the BMT estimate (sched/bmt.cpp) and the BMT guard  *)
(* of Scheduler::tick (sched/scheduler.cpp).                               *)
(*                                                                         *)
(* The code computes the plan with loops that decrement a budget.  Here    *)
(* the outcome of those loops is stated declaratively, over a `view` of    *)
(* the session pool; module SchedulerTick runs the loops one iteration at  *)
(* a time and is checked to end in exactly the plan defined here.          *)
(*                                                                         *)
(* A view is the part of the pool that the plan depends on:                *)
(*   dec     descriptors in DECODE with has_pending_tok                    *)
(*   pre     descriptors in PREFILL with prefill_idx < prompt_tokens.size  *)
(*   late    members of pre with first_emit_ns # 0                         *)
(*   remain  prompt_tokens.size() - prefill_idx                            *)
(*   npast   n_past                                                        *)
(*   order   iteration order of the unordered_map of sessions              *)
(*   rrD/rrP the round-robin cursors, target the adaptive batch target,    *)
(*   bmt     bmt_budget_units (0 = guard off)                              *)
(***************************************************************************)
EXTENDS Integers, FiniteSets, FiniteSetsExt

CONSTANTS
    Fds,        \* client descriptors
    BatchCap,   \* batch_cap_ = llama_n_batch(ctx)
    KBurst,     \* kBurst, 16 in the code
    MinBatch    \* floor of target_batch_, 8 in the code

ASSUME PolicyAssumption ==
    /\ IsFiniteSet(Fds)
    /\ BatchCap \in Nat \ {0}
    /\ KBurst \in Nat \ {0}
    /\ MinBatch \in Nat \ {0}

Least(a, b) == IF a <= b THEN a ELSE b
Most(a, b) == IF a >= b THEN a ELSE b

(* An iteration order of the session map: a ranking of the descriptors.    *)
Orders ==
    {r \in [Fds -> 1..Cardinality(Fds)] : \A f, g \in Fds : r[f] = r[g] => f = g}

View ==
    [dec : SUBSET Fds, pre : SUBSET Fds, late : SUBSET Fds,
     remain : [Fds -> Int], npast : [Fds -> Nat], order : Orders,
     rrD : Nat, rrP : Nat, target : Nat, bmt : Nat]

-----------------------------------------------------------------------------
(* Index(f, P, order): position of f in the pool vector built from P.      *)
Index(f, P, order) == Cardinality({g \in P : order[g] < order[f]})

(* The iteration i at which a loop over pool[(rr + i) % N] reaches f.      *)
Turn(f, P, order, rr) == (Index(f, P, order) - rr) % Cardinality(P)

NextCursor(P, rr, budget) ==
    IF P # {} /\ budget > 0 THEN (rr + 1) % Cardinality(P) ELSE 0

Budget0(v) == Least(v.target, BatchCap)

(* Phase A: one token for each ready DECODE session, round robin.          *)
DecodeItems(v) ==
    {f \in v.dec : Turn(f, v.dec, v.order, v.rrD) < Budget0(v)}

PrefillBudget(v) == Budget0(v) - Cardinality(DecodeItems(v))

(* Phase B visits the TTFT pool (no output yet) before the rest.           *)
PrefillKey(v, f) ==
    Turn(f, v.pre, v.order, v.rrP) + IF f \in v.late THEN Cardinality(v.pre) ELSE 0

Want(v, f) == IF f \in v.late THEN v.remain[f] ELSE Least(v.remain[f], KBurst)

(* Phase B: each session takes what it wants of the budget that the ones   *)
(* visited before it left over.  Exactly one function qualifies.           *)
Chunks(v) ==
    {c \in [v.pre -> 0..BatchCap] :
        \A f \in v.pre :
            LET spent == MapThenSumSet(LAMBDA g : c[g],
                            {g \in v.pre : PrefillKey(v, g) < PrefillKey(v, f)})
            IN  c[f] = Least(Want(v, f), PrefillBudget(v) - spent)}

-----------------------------------------------------------------------------
(* bmt::sum_arith: the sum of n terms a0, a0 + d, ...                      *)
SumArith(a0, d, n) == (n * (2 * a0 + (n - 1) * d)) \div 2

(* Cost of a chunk of n tokens on a sequence that already holds base.      *)
ChunkUnits(base, n) == SumArith(base + 1, 1, n)

(* bmt::estimate_units for a plan with decode set D and prefill chunks c.  *)
EstimateUnits(v, D, c) ==
    MapThenSumSet(LAMBDA f : v.npast[f] + 1, D)
    + MapThenSumSet(LAMBDA f : ChunkUnits(v.npast[f], c[f]), DOMAIN c)

(* Faulty variant: a plan that costs exactly the budget is trimmed.        *)
TrimmedAtBudget(v, c) ==
    IF v.bmt = 0 THEN {c}
    ELSE {k \in [v.pre -> 0..BatchCap] :
            LET cut == {f \in v.pre : k[f] < c[f]}
                est == EstimateUnits(v, DecodeItems(v), k)
            IN  /\ \A f \in v.pre : k[f] <= c[f]
                /\ \A f \in cut, g \in v.pre :
                       PrefillKey(v, f) < PrefillKey(v, g) => k[g] = 0
                /\ est < v.bmt \/ \A f \in v.pre : k[f] = 0
                /\ cut # {} =>
                     \E f \in cut :
                        /\ \A g \in cut : PrefillKey(v, f) <= PrefillKey(v, g)
                        /\ est + v.npast[f] + k[f] + 1 >= v.bmt}

(* The BMT guard takes prefill tokens away from the end of the plan, one   *)
(* by one, until the estimate fits the budget or no prefill token is left. *)
Trimmed(v, c) ==
    IF v.bmt = 0 THEN {c}
    ELSE {k \in [v.pre -> 0..BatchCap] :
            LET cut == {f \in v.pre : k[f] < c[f]}
                est == EstimateUnits(v, DecodeItems(v), k)
            IN  /\ \A f \in v.pre : k[f] <= c[f]
                /\ \A f \in cut, g \in v.pre :
                       PrefillKey(v, f) < PrefillKey(v, g) => k[g] = 0
                /\ est <= v.bmt \/ \A f \in v.pre : k[f] = 0
                /\ cut # {} =>
                     \E f \in cut :
                        /\ \A g \in cut : PrefillKey(v, f) <= PrefillKey(v, g)
                        /\ est + v.npast[f] + k[f] + 1 > v.bmt}

-----------------------------------------------------------------------------
(* Adaptive tuning after a decode call: which branch is taken depends on   *)
(* the measured time, so any of them may follow.  The factor 0.7 is a      *)
(* double just below 7/10: a product that would be an integer may truncate *)
(* to the integer below it.                                                *)
Shrunk(target) == {(target * 7) \div 10, (target * 7 - 1) \div 10}

Retarget(target) ==
    {target}
    \cup {Most(MinBatch, n) : n \in Shrunk(target)}
    \cup {Least(BatchCap, target + Most(1, target \div 8))}
=============================================================================
