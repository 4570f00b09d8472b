---------------------------- MODULE SamplingProps ----------------------------
(***************************************************************************)
(* What TopPSampler::sample returns, against definitions that mention      *)
(* neither its sort nor its loops.                                         *)
(***************************************************************************)
EXTENDS Sampling

Tokens == DOMAIN logits
MaxLogit == CHOOSE m \in 0..(Levels + 1) : (\E t \in Tokens : logits[t] = m)
                                        /\ \A t \in Tokens : logits[t] <= m
Heavier(t) == {s \in Tokens : logits[s] > logits[t]}

(* The weight of a token in the row's softmax.                             *)
SoftWeight(t) == IF logits[t] = 0 THEN 0 ELSE curve[MaxLogit - logits[t] + 1]
Total(S) == MapThenSumSet(SoftWeight, S)

(* The weight of the k heaviest tokens: ties weigh the same.               *)
TopWeight(k) ==
    LET sure == {t \in Tokens : Cardinality({s \in Tokens : logits[s] >= logits[t]}) <= k}
        rest == Tokens \ sure
    IN  Total(sure) +
        (IF rest = {} THEN 0
         ELSE (k - Cardinality(sure))
              * SoftWeight(CHOOSE t \in rest : \A s \in rest : logits[s] <= logits[t]))

Finite == Tokens # {} /\ MaxLogit \in 1..Levels

(* The loops stay within the row: every index they use is that of a kept   *)
(* token, and at least one token survives the top-p cut.                   *)
TypeOK ==
    /\ pc \in {"start", "greedy", "softmax", "topp", "roll", "draw", "done"}
    /\ cut \in 0..UseN
    /\ pc \in {"roll", "draw"} => cut >= 1 /\ Len(idx) = UseN
    /\ pc = "draw" => i \in 0..(cut - 1)
    /\ drawn \in Tokens \cup {None, 0}

(* A drawn token is in the nucleus: fewer than top_k tokens are heavier,   *)
(* and these do not by themselves exceed top_p of the kept weight; so      *)
(* top_k = 1 and top_p = 0 are greedy (sampling.cpp:31-69).  The one       *)
(* exception is top_p from 0.9999 up to 1, where the code does not cut     *)
(* (61) and any of the top_k tokens may come out.                          *)
DrawnInNucleus ==
    pc = "done" /\ p.hot /\ Finite =>
        /\ Cardinality(Heavier(drawn)) < UseN
        /\ TopP < CutBelow => Total(Heavier(drawn)) * D <= TopP * TopWeight(UseN)
        /\ TopP = 0 => logits[drawn] = MaxLogit

(* The weights each value of r selects: a token is drawn for exactly as    *)
(* many of the equally likely values 1..Sum(cut) as it has weight, hence   *)
(* in proportion to its probability among the kept tokens (77-83).         *)
DrawsByWeight ==
    pc = "done" /\ p.hot /\ Finite /\ r \in 1..Sum(cut) =>
        LET before == {a \in 1..cut : a < CHOOSE b \in 1..cut : idx[b] = drawn}
        IN  r - MapThenSumSet(LAMBDA a : SoftWeight(idx[a]), before) \in 1..SoftWeight(drawn)

(* A token of probability 0 comes out only if rounding leaves the draw     *)
(* beyond the accumulated sum, and only if the cut kept every token: the   *)
(* last one is then returned (82).                                         *)
ImpossibleOnlyByRounding ==
    pc = "done" /\ p.hot /\ Finite /\ SoftWeight(drawn) = 0 =>
        r > Sum(cut) /\ cut = UseN

(* With temperature 0 the first of the largest logits is returned, and     *)
(* without a finite sum one of the largest (21-28, 51-55).                 *)
GreedyReturnsMax ==
    pc = "done" /\ Tokens # {} =>
        /\ ~p.hot => /\ logits[drawn] = MaxLogit
                     /\ \A t \in Tokens : logits[t] = MaxLogit => drawn <= t
        /\ p.hot /\ ~Finite => logits[drawn] = MaxLogit

=============================================================================
