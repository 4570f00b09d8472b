------------------------------ MODULE Sampling ------------------------------
(***************************************************************************)
(* TopPSampler::sample (sched/sampling.cpp), loop by loop, for one row of  *)
(* logits.                                                                 *)
(*                                                                         *)
(* A logit is a level: 0 is minus infinity, Levels + 1 plus infinity.      *)
(* Softmax is a curve: curve[d] is exp of the scaled distance of d - 1     *)
(* levels from the maximum, in integer units; it may underflow to 0.       *)
(* Probabilities are kept as weights over their sum, and top_p as a        *)
(* multiple of 1/D.  Where float rounding decides, both outcomes happen:   *)
(* the test c >= top_p at equality, and a draw beyond the accumulated sum. *)
(***************************************************************************)
EXTENDS Integers, Sequences, FiniteSets, FiniteSetsExt

CONSTANTS
    NVocab,   \* bound: largest vocabulary
    Levels,   \* finite logit levels
    Curves,   \* softmax curves, one per temperature > 0
    D,        \* denominator of top_p
    CutBelow, \* the literal 0.9999f, in units of 1/D: no cut at or above it
    TopPs,    \* values of top_p, in units of 1/D
    TopKs     \* values of top_k

ASSUME SamplingAssumption ==
    /\ NVocab \in Nat /\ Levels \in Nat \ {0} /\ D \in Nat \ {0}
    /\ CutBelow \in 1..D
    /\ \A v \in Curves : v \in [1..Levels -> Nat] /\ v[1] > 0
    /\ \A v \in Curves : \A d \in 2..Levels : v[d] <= v[d - 1]
    /\ TopPs \subseteq Int /\ TopKs \subseteq Int

VARIABLES
    pc,
    logits,  \* one row, by token
    p,       \* SamplingParams; `hot` is temperature > 0
    curve,
    i,       \* index of the loop at work
    best,    \* best_id of the greedy loop
    idx,     \* the tokens kept, by descending logit
    cut, c,  \* of the top-p loop
    r, acc,  \* of the draw
    drawn    \* the token returned

vars == <<pc, logits, p, curve, i, best, idx, cut, c, r, acc, drawn>>

None == -1
NVocabUsed == Cardinality(DOMAIN logits)
UseN == IF p.top_k > 0 /\ p.top_k < NVocabUsed THEN p.top_k ELSE NVocabUsed
TopP == IF p.top_p < 0 THEN 0 ELSE IF p.top_p > D THEN D ELSE p.top_p

(* Results of std::partial_sort: equal logits may come in any order.       *)
Sorted ==
    {s \in [1..UseN -> DOMAIN logits] :
        /\ \A a, b \in 1..UseN : a < b => s[a] # s[b] /\ logits[s[a]] >= logits[s[b]]
        /\ \A t \in DOMAIN logits : (\E a \in 1..UseN : s[a] = t) \/ logits[t] <= logits[s[UseN]]}

(* probs before the division by their sum; the kept tokens weigh the same  *)
(* after it, and after that by csum, up to the unit.                       *)
Weight(t) ==
    IF logits[t] = 0 THEN 0 ELSE curve[logits[idx[1]] - logits[t] + 1]
Sum(n) == MapThenSumSet(LAMBDA a : Weight(idx[a]), 1..n)

Init ==
    /\ pc = "start"
    /\ \E n \in 0..NVocab : logits \in [0..(n - 1) -> 0..(Levels + 1)]
    /\ p \in [hot : BOOLEAN, top_p : TopPs, top_k : TopKs]
    /\ curve \in Curves
    /\ i = 0 /\ best = None /\ idx = <<>> /\ cut = 0 /\ c = 0 /\ r = 0 /\ acc = 0
    /\ drawn = None

Return(t) == pc' = "done" /\ drawn' = t

Start ==
    /\ pc = "start"
    /\ \/ NVocabUsed = 0 /\ Return(0) /\ UNCHANGED <<i, best, idx>>
       \/ /\ NVocabUsed > 0 /\ ~p.hot
          /\ pc' = "greedy" /\ best' = 0 /\ i' = 1
          /\ UNCHANGED <<idx, drawn>>
       \/ /\ NVocabUsed > 0 /\ p.hot
          /\ pc' = "softmax" /\ idx' \in Sorted
          /\ UNCHANGED <<i, best, drawn>>
    /\ UNCHANGED <<logits, p, curve, cut, c, r, acc>>

(* Faulty variant: a later equal maximum wins.                             *)
BetterOrEqual(a, b) == logits[a] >= logits[b]

Better(a, b) == logits[a] > logits[b]

GreedyIter ==
    /\ pc = "greedy"
    /\ IF i < NVocabUsed
       THEN /\ best' = IF Better(i, best) THEN i ELSE best
            /\ i' = i + 1
            /\ UNCHANGED <<pc, drawn>>
       ELSE Return(best) /\ UNCHANGED <<i, best>>
    /\ UNCHANGED <<logits, p, curve, idx, cut, c, r, acc>>

(* The sum is NaN when the maximum is infinite.                            *)
SumFinite == logits[idx[1]] \in 1..Levels

(* Faulty variant: no cut when top_p is 0.                                 *)
TruncatesNotZero == TopP < CutBelow /\ TopP > 0

(* top_p from 0.9999 on counts as 1.                                       *)
Truncates == TopP < CutBelow

Softmax ==
    /\ pc = "softmax"
    /\ IF ~SumFinite
       THEN Return(idx[1]) /\ UNCHANGED cut
       ELSE /\ pc' = IF Truncates THEN "topp" ELSE "roll"
            /\ cut' = IF Truncates THEN 0 ELSE UseN
            /\ UNCHANGED drawn
    /\ UNCHANGED <<logits, p, curve, i, best, idx, c, r, acc>>

(* Faulty variant: the token that reaches top_p is left out.               *)
TopPIterShort ==
    /\ pc = "topp" /\ cut < UseN
    /\ LET next == c + Weight(idx[cut + 1])
       IN  /\ c' = next
           /\ \/ next * D >= TopP * Sum(UseN) /\ cut' = cut /\ pc' = "roll"
              \/ next * D <= TopP * Sum(UseN) /\ cut' = cut + 1 /\ pc' = pc
    /\ UNCHANGED <<logits, p, curve, i, best, idx, r, acc, drawn>>

(* Leaving the loop by break at the last token, or because it runs out     *)
(* there by rounding, comes to the same cut.                               *)
TopPIter ==
    /\ pc = "topp" /\ cut < UseN
    /\ LET next == c + Weight(idx[cut + 1])
       IN  /\ c' = next
           /\ cut' = cut + 1
           /\ \/ (next * D >= TopP * Sum(UseN) \/ cut + 1 = UseN) /\ pc' = "roll"
              \/ next * D <= TopP * Sum(UseN) /\ cut + 1 < UseN /\ pc' = pc
    /\ UNCHANGED <<logits, p, curve, i, best, idx, r, acc, drawn>>

(* uni(rng), in units of the renormalised weights; Sum(cut) + 1 stands for *)
(* a value above the rounded sum of the probabilities.                     *)
Roll ==
    /\ pc = "roll"
    /\ r' \in 0..(Sum(cut) + 1)
    /\ i' = 0 /\ acc' = 0 /\ pc' = "draw"
    /\ UNCHANGED <<logits, p, curve, best, idx, cut, c, drawn>>

(* Faulty variant: tests the sum before the token's own share.             *)
HitsBefore(a) == r <= a

Hits(a) == r <= a + Weight(idx[i + 1])

DrawIter ==
    /\ pc = "draw"
    /\ acc' = acc + Weight(idx[i + 1])
    /\ IF Hits(acc) \/ i = cut - 1
       THEN Return(idx[i + 1]) /\ UNCHANGED i
       ELSE i' = i + 1 /\ UNCHANGED <<pc, drawn>>
    /\ UNCHANGED <<logits, p, curve, best, idx, cut, c, r>>

Next ==
    \/ Start \/ GreedyIter \/ Softmax \/ TopPIter \/ Roll \/ DrawIter
    \/ pc = "done" /\ UNCHANGED vars

Spec == Init /\ [][Next]_vars
=============================================================================
