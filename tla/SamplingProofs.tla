--------------------------- MODULE SamplingProofs ---------------------------
(***************************************************************************)
(* For every vocabulary and every setting of the sampler: its loops stay   *)
(* within the row, and a greedy draw returns the first of the largest      *)
(* logits.                                                                 *)
(***************************************************************************)
EXTENDS SamplingProps, FiniteSetTheorems, TLAPS

IsMax(t) == t \in Tokens /\ \A u \in Tokens : logits[u] <= logits[t]

(* One row of logits, as the caller passes it.                             *)
Row ==
    /\ NVocabUsed \in Nat /\ Tokens = 0..(NVocabUsed - 1)
    /\ \A t \in Tokens : logits[t] \in 0..(Levels + 1)
    /\ p \in [hot : BOOLEAN, top_p : Int, top_k : Int]

(* The greedy loop has seen the tokens below i; best is the first of the   *)
(* largest among them.                                                     *)
GreedySeen ==
    /\ ~p.hot /\ i \in 1..NVocabUsed /\ best \in 0..(i - 1)
    /\ \A t \in 0..(i - 1) : logits[t] <= logits[best]
    /\ \A t \in 0..(best - 1) : logits[t] < logits[best]

FirstMax(t) == IsMax(t) /\ \A u \in Tokens : u < t => logits[u] < logits[t]

(* Inductive: the shape of the sorted prefix and of each loop's progress.  *)
SampleInv ==
    /\ Row
    /\ pc \in {"start", "greedy", "softmax", "topp", "roll", "draw", "done"}
    /\ cut \in 0..UseN
    /\ pc \notin {"start", "done"} => NVocabUsed > 0
    /\ pc = "greedy" => GreedySeen
    /\ pc \in {"softmax", "topp", "roll", "draw"} => p.hot /\ idx \in Sorted
    /\ pc \in {"topp", "roll", "draw"} => Finite
    /\ pc \in {"roll", "draw"} => cut >= 1
    /\ pc = "draw" => i \in 0..(cut - 1)
    /\ pc # "done" => drawn = None
    /\ pc = "done" =>
         \/ NVocabUsed = 0 /\ drawn = 0
         \/ ~p.hot /\ FirstMax(drawn)
         \/ p.hot /\ drawn \in Tokens /\ (IsMax(drawn) \/ Finite)
-----------------------------------------------------------------------------
(* What top_k makes of the row.                                            *)
LEMMA UseNRange ==
    ASSUME Row
    PROVE  UseN \in 0..NVocabUsed /\ (NVocabUsed > 0 => UseN >= 1)
  <1>1. p.top_k \in Int /\ NVocabUsed \in Nat
    BY DEF Row
  <1> QED
    BY <1>1 DEF UseN

(* A largest logit is the MaxLogit of the row.                             *)
LEMMA MaxIsMax ==
    ASSUME Row, NEW t, IsMax(t)
    PROVE  MaxLogit = logits[t]
  <1> DEFINE P(m) == (\E u \in Tokens : logits[u] = m) /\ \A u \in Tokens : logits[u] <= m
  <1>1. logits[t] \in 0..(Levels + 1) /\ P(logits[t])
    BY DEF Row, IsMax
  <1>2. Levels \in Nat
    BY SamplingAssumption
  <1>3. \A m \in 0..(Levels + 1) : P(m) => m = logits[t]
    BY <1>1, <1>2 DEF IsMax
  <1>4. MaxLogit \in 0..(Levels + 1) /\ P(MaxLogit)
    <2>1. \E m \in 0..(Levels + 1) : P(m)
      BY <1>1
    <2> HIDE DEF P
    <2>2. MaxLogit = CHOOSE m \in 0..(Levels + 1) : P(m)
      BY DEF MaxLogit, P
    <2> QED
      BY <2>1, <2>2, Zenon
  <1> QED
    BY <1>3, <1>4

(* The first token of the sorted prefix has a largest logit.               *)
LEMMA SortedHead ==
    ASSUME Row, NVocabUsed > 0, idx \in Sorted
    PROVE  /\ idx \in [1..UseN -> Tokens] /\ IsMax(idx[1])
  <1>1. UseN \in Nat /\ UseN >= 1
    BY UseNRange DEF Row
  <1>2. idx \in [1..UseN -> Tokens]
    BY DEF Sorted, Tokens
  <1>3. /\ \A a, b \in 1..UseN : a < b => logits[idx[a]] >= logits[idx[b]]
        /\ \A t \in Tokens : (\E a \in 1..UseN : idx[a] = t) \/ logits[t] <= logits[idx[UseN]]
    BY DEF Sorted, Tokens
  <1>4. \A a \in 1..UseN : logits[idx[a]] \in Int
    BY <1>2 DEF Row
  <1>5. \A a \in 1..UseN : logits[idx[a]] <= logits[idx[1]]
    BY <1>1, <1>3, <1>4
  <1>6. \A t \in Tokens : logits[t] \in Int
    BY DEF Row
  <1>7. ASSUME NEW t \in Tokens PROVE logits[t] <= logits[idx[1]]
    <2>1. CASE \E a \in 1..UseN : idx[a] = t
      BY <1>5, <2>1
    <2>2. CASE logits[t] <= logits[idx[UseN]]
      <3>1. UseN \in 1..UseN /\ 1 \in 1..UseN
        BY <1>1
      <3> QED
        BY <1>4, <1>5, <1>6, <2>2, <3>1
    <2> QED
      BY <1>3, <2>1, <2>2
  <1> QED
    BY <1>1, <1>2, <1>7 DEF IsMax
-----------------------------------------------------------------------------
LEMMA SampleInit == Init => SampleInv
  <1> SUFFICES ASSUME Init PROVE SampleInv
    OBVIOUS
  <1>1. PICK n \in 0..NVocab : logits \in [0..(n - 1) -> 0..(Levels + 1)]
    BY DEF Init
  <1>2. n \in Nat
    BY <1>1, SamplingAssumption
  <1>3. DOMAIN logits = 0..(n - 1)
    BY <1>1
  <1>4. Cardinality(0..(n - 1)) = n
    <2>1. Cardinality(0..(n - 1)) = IF 0 > n - 1 THEN 0 ELSE n - 1 - 0 + 1
      BY <1>2, FS_Interval
    <2> QED
      BY <1>2, <2>1
  <1>5. NVocabUsed = n
    BY <1>3, <1>4 DEF NVocabUsed
  <1>6. p \in [hot : BOOLEAN, top_p : Int, top_k : Int]
    BY SamplingAssumption DEF Init
  <1>7. Row
    BY <1>1, <1>2, <1>3, <1>5, <1>6 DEF Row, Tokens
  <1>8. UseN \in Nat
    BY <1>7, UseNRange DEF Row
  <1>9. cut \in 0..UseN
    BY <1>8 DEF Init
  <1> QED
    BY <1>7, <1>9 DEF Init, SampleInv

(* The row and what is derived from it stay.                               *)
LEMMA RowStays ==
    ASSUME UNCHANGED <<logits, p, curve>>
    PROVE  /\ UNCHANGED <<NVocabUsed, Tokens, UseN, TopP, Sorted, Finite>>
           /\ Row' = Row
           /\ \A t : IsMax(t)' = IsMax(t) /\ FirstMax(t)' = FirstMax(t)
  <1>1. UNCHANGED <<NVocabUsed, Tokens, TopP>>
    BY DEF NVocabUsed, Tokens, TopP
  <1>2. UNCHANGED UseN
    BY <1>1 DEF UseN
  <1>3. UNCHANGED Sorted
    BY <1>2 DEF Sorted
  <1>4. UNCHANGED MaxLogit
    BY <1>1 DEF MaxLogit
  <1>5. UNCHANGED Finite
    BY <1>1, <1>4 DEF Finite
  <1>6. Row' = Row
    BY <1>1 DEF Row
  <1>7. \A t : IsMax(t)' = IsMax(t) /\ FirstMax(t)' = FirstMax(t)
    BY <1>1 DEF IsMax, FirstMax
  <1> QED
    BY <1>1, <1>2, <1>3, <1>5, <1>6, <1>7

LEMMA SampleStart ==
    ASSUME SampleInv, Start
    PROVE  SampleInv'
  <1>1. UNCHANGED <<logits, p, curve, cut, c, r, acc>> /\ pc = "start"
    BY DEF Start
  <1>2. /\ UNCHANGED <<NVocabUsed, Tokens, UseN, Sorted, Finite>> /\ Row' /\ Row
    BY <1>1, RowStays DEF SampleInv
  <1>3. cut' \in 0..UseN' /\ drawn = None /\ NVocabUsed \in Nat
    BY <1>1, <1>2 DEF SampleInv, Row
  <1>4. CASE NVocabUsed = 0 /\ Return(0)
    BY <1>2, <1>3, <1>4, Zenon DEF Return, SampleInv
  <1>5. CASE NVocabUsed > 0 /\ ~p.hot /\ pc' = "greedy" /\ best' = 0 /\ i' = 1 /\ drawn' = drawn
    <2>1. 0 \in Tokens /\ \A t \in Tokens : logits[t] \in Int
      BY <1>2, <1>3, <1>5 DEF Row
    <2>2. GreedySeen'
      BY <1>1, <1>2, <1>3, <1>5, <2>1 DEF GreedySeen
    <2> QED
      BY <1>2, <1>3, <1>5, <2>2 DEF SampleInv
  <1>6. CASE NVocabUsed > 0 /\ p.hot /\ pc' = "softmax" /\ idx' \in Sorted /\ drawn' = drawn
    BY <1>1, <1>2, <1>3, <1>6 DEF SampleInv
  <1> QED
    BY <1>4, <1>5, <1>6 DEF Start

LEMMA SampleGreedy ==
    ASSUME SampleInv, GreedyIter
    PROVE  SampleInv'
  <1>1. UNCHANGED <<logits, p, curve, idx, cut, c, r, acc>> /\ pc = "greedy"
    BY DEF GreedyIter
  <1>2. /\ UNCHANGED <<NVocabUsed, Tokens, UseN, Sorted, Finite>> /\ Row' /\ Row
        /\ \A t : FirstMax(t)' = FirstMax(t)
    BY <1>1, RowStays DEF SampleInv
  <1>3. cut' \in 0..UseN' /\ drawn = None /\ NVocabUsed \in Nat /\ NVocabUsed > 0 /\ GreedySeen
    BY <1>1, <1>2 DEF SampleInv, Row
  <1>4. Tokens = 0..(NVocabUsed - 1) /\ \A t \in 0..(NVocabUsed - 1) : logits[t] \in Int
    BY <1>2 DEF Row
  <1>5. i \in 1..NVocabUsed /\ best \in 0..(i - 1)
    BY <1>3 DEF GreedySeen
  <1>6. CASE i < NVocabUsed
    <2>1. /\ best' = IF logits[i] > logits[best] THEN i ELSE best
          /\ i' = i + 1 /\ pc' = pc /\ drawn' = drawn
      BY <1>6 DEF GreedyIter, Better
    <2>2. i' \in 1..NVocabUsed' /\ best' \in 0..(i' - 1)
      BY <1>2, <1>3, <1>5, <1>6, <2>1
    <2>3. \A t \in 0..i : t \in 0..(i - 1) \/ t = i
      BY <1>3, <1>5
    <2>4. \A t \in 0..(i' - 1) : logits'[t] <= logits'[best']
      BY <1>1, <1>3, <1>4, <1>5, <1>6, <2>1, <2>3 DEF GreedySeen
    <2>5. \A t \in 0..(best' - 1) : logits'[t] < logits'[best']
      BY <1>1, <1>3, <1>4, <1>5, <1>6, <2>1 DEF GreedySeen
    <2>6. GreedySeen'
      BY <1>1, <1>3, <2>2, <2>4, <2>5 DEF GreedySeen
    <2> QED
      BY <1>1, <1>2, <1>3, <2>1, <2>6 DEF SampleInv
  <1>7. CASE ~(i < NVocabUsed)
    <2>1. pc' = "done" /\ drawn' = best
      BY <1>7 DEF GreedyIter, Return
    <2>2. i = NVocabUsed
      BY <1>3, <1>5, <1>7
    <2>3. FirstMax(best)
      BY <1>3, <1>4, <1>5, <2>2 DEF GreedySeen, FirstMax, IsMax
    <2>4. FirstMax(drawn)'
      BY <1>1, <2>1, <2>3 DEF FirstMax, IsMax, Tokens
    <2>5. ~p'.hot
      BY <1>1, <1>3 DEF GreedySeen
    <2> QED
      BY <1>1, <1>2, <1>3, <2>1, <2>4, <2>5 DEF SampleInv
  <1> QED
    BY <1>6, <1>7

LEMMA SampleSoftmax ==
    ASSUME SampleInv, Softmax
    PROVE  SampleInv'
  <1>1. UNCHANGED <<logits, p, curve, idx>> /\ pc = "softmax"
    BY DEF Softmax
  <1>2. /\ UNCHANGED <<NVocabUsed, Tokens, UseN, Sorted, Finite>> /\ Row' /\ Row
    BY <1>1, RowStays DEF SampleInv
  <1>3. cut \in 0..UseN /\ drawn = None /\ NVocabUsed > 0 /\ p.hot /\ idx \in Sorted
    BY <1>1 DEF SampleInv
  <1>4. idx \in [1..UseN -> Tokens] /\ IsMax(idx[1]) /\ MaxLogit = logits[idx[1]]
    BY <1>2, <1>3, SortedHead, MaxIsMax
  <1>5. UseN \in Nat /\ UseN >= 1 /\ idx[1] \in Tokens
    BY <1>2, <1>3, <1>4, UseNRange DEF Row, IsMax
  <1>6. CASE ~SumFinite
    <2>1. pc' = "done" /\ drawn' = idx[1] /\ cut' = cut
      BY <1>6 DEF Softmax, Return
    <2>2. IsMax(drawn)'
      BY <1>1, <1>4, <2>1 DEF IsMax, Tokens
    <2>3. (drawn \in Tokens)'
      BY <2>2 DEF IsMax
    <2> QED
      BY <1>1, <1>2, <1>3, <2>1, <2>2, <2>3 DEF SampleInv
  <1>7. CASE SumFinite
    <2>1. /\ pc' \in {"topp", "roll"} /\ drawn' = drawn
          /\ pc' = "topp" => cut' = 0
          /\ pc' = "roll" => cut' = UseN
      BY <1>7 DEF Softmax
    <2>2. Finite
      BY <1>4, <1>5, <1>7 DEF Finite, SumFinite
    <2>3. cut' \in 0..UseN /\ (pc' = "roll" => cut' >= 1)
      BY <1>5, <2>1
    <2> QED
      BY <1>1, <1>2, <1>3, <2>1, <2>2, <2>3 DEF SampleInv
  <1> QED
    BY <1>6, <1>7

LEMMA SampleTopP ==
    ASSUME SampleInv, TopPIter
    PROVE  SampleInv'
  <1>1. UNCHANGED <<logits, p, curve, idx, drawn>> /\ pc = "topp" /\ pc' \in {"topp", "roll"}
    BY DEF TopPIter
  <1>2. /\ UNCHANGED <<NVocabUsed, Tokens, UseN, Sorted, Finite>> /\ Row' /\ Row
    BY <1>1, RowStays DEF SampleInv
  <1>3. cut \in 0..UseN /\ drawn = None /\ NVocabUsed > 0 /\ p.hot /\ idx \in Sorted /\ Finite
    BY <1>1 DEF SampleInv
  <1>4. UseN \in Nat /\ UseN >= 1
    BY <1>2, <1>3, UseNRange DEF Row
  <1>5. cut < UseN /\ cut' = cut + 1
    BY DEF TopPIter
  <1>6. cut' \in 0..UseN /\ cut' >= 1
    BY <1>3, <1>4, <1>5
  <1> QED
    BY <1>1, <1>2, <1>3, <1>6 DEF SampleInv

LEMMA SampleDraw ==
    ASSUME SampleInv, Roll \/ DrawIter
    PROVE  SampleInv'
  <1>1. UNCHANGED <<logits, p, curve, idx, cut>> /\ pc \in {"roll", "draw"}
    BY DEF Roll, DrawIter
  <1>2. /\ UNCHANGED <<NVocabUsed, Tokens, UseN, Sorted, Finite>> /\ Row' /\ Row
    BY <1>1, RowStays DEF SampleInv
  <1>3. /\ cut \in 0..UseN /\ drawn = None /\ NVocabUsed > 0 /\ p.hot /\ idx \in Sorted /\ Finite
        /\ cut >= 1
    BY <1>1 DEF SampleInv
  <1>4. UseN \in Nat /\ UseN >= 1 /\ idx \in [1..UseN -> Tokens]
    BY <1>2, <1>3, UseNRange, SortedHead DEF Row
  <1>5. CASE Roll
    <2>1. pc' = "draw" /\ i' = 0 /\ drawn' = drawn
      BY <1>5 DEF Roll
    <2>2. i' \in 0..(cut' - 1)
      BY <1>1, <1>3, <1>4, <2>1
    <2> QED
      BY <1>1, <1>2, <1>3, <2>1, <2>2 DEF SampleInv
  <1>6. CASE DrawIter
    <2>1. pc = "draw" /\ i \in 0..(cut - 1)
      BY <1>6 DEF DrawIter, SampleInv
    <2>2. idx[i + 1] \in Tokens
      BY <1>3, <1>4, <2>1
    <2>3. CASE pc' = "done" /\ drawn' = idx[i + 1]
      <3>1. (drawn \in Tokens)'
        BY <1>2, <2>2, <2>3
      <3> QED
        BY <1>1, <1>2, <1>3, <2>3, <3>1 DEF SampleInv
    <2>4. CASE i # cut - 1 /\ i' = i + 1 /\ pc' = pc /\ drawn' = drawn
      <3>1. i' \in 0..(cut' - 1)
        BY <1>1, <1>3, <1>4, <2>1, <2>4
      <3> QED
        BY <1>1, <1>2, <1>3, <2>1, <2>4, <3>1 DEF SampleInv
    <2> QED
      BY <1>6, <2>3, <2>4 DEF DrawIter, Return
  <1> QED
    BY <1>5, <1>6

LEMMA SampleStep == SampleInv /\ [Next]_vars => SampleInv'
  <1> SUFFICES ASSUME SampleInv, [Next]_vars PROVE SampleInv'
    OBVIOUS
  <1>1. CASE UNCHANGED vars
    <2>1. UNCHANGED <<logits, p, curve, pc, i, best, idx, cut, drawn>>
      BY <1>1 DEF vars
    <2>2. /\ UNCHANGED <<NVocabUsed, Tokens, UseN, Sorted, Finite>> /\ Row' = Row
          /\ \A t : IsMax(t)' = IsMax(t) /\ FirstMax(t)' = FirstMax(t)
      BY <2>1, RowStays
    <2>3. GreedySeen' = GreedySeen
      BY <2>1, <2>2 DEF GreedySeen
    <2>4. FirstMax(drawn)' = FirstMax(drawn) /\ IsMax(drawn)' = IsMax(drawn)
      BY <2>1, <2>2 DEF FirstMax, IsMax
    <2> QED
      BY <2>1, <2>2, <2>3, <2>4, Zenon DEF SampleInv
  <1> QED
    BY <1>1, SampleStart, SampleGreedy, SampleSoftmax, SampleTopP, SampleDraw DEF Next

(* The loops of the sampler stay within the row, for every vocabulary,     *)
(* curve and setting of top_k and top_p: at least one token survives the   *)
(* cut and every index is that of a kept token (sampling.cpp:31-84).       *)
THEOREM LoopsWithinRow == Spec => []TypeOK
  <1>1. SampleInv => TypeOK
    <2> SUFFICES ASSUME SampleInv PROVE TypeOK
      OBVIOUS
    <2>1. Row
      BY DEF SampleInv
    <2>2. ASSUME pc \in {"roll", "draw"} PROVE Len(idx) = UseN
      <3>1. NVocabUsed > 0 /\ idx \in Sorted
        BY <2>2 DEF SampleInv
      <3>2. idx \in [1..UseN -> Tokens] /\ UseN \in Nat
        BY <2>1, <3>1, SortedHead, UseNRange DEF Row
      <3>3. idx \in Seq(Tokens)
        BY <3>2
      <3>4. DOMAIN idx = 1..UseN /\ DOMAIN idx = 1..Len(idx) /\ Len(idx) \in Nat
        BY <3>2, <3>3
      <3> QED
        BY <3>2, <3>4
    <2>3. drawn \in Tokens \cup {None, 0}
      BY DEF SampleInv, FirstMax, IsMax
    <2> QED
      BY <2>2, <2>3 DEF SampleInv, TypeOK
  <1> QED
    BY <1>1, SampleInit, SampleStep, PTL DEF Spec

(* A sampler with temperature 0 returns the first of the largest logits,   *)
(* and one of the largest when the softmax has no finite sum, for every    *)
(* row (sampling.cpp:21-28, 51-55).                                        *)
THEOREM GreedyAlwaysMax == Spec => []GreedyReturnsMax
  <1>1. SampleInv => GreedyReturnsMax
    <2> SUFFICES ASSUME SampleInv, pc = "done", Tokens # {} PROVE GreedyReturnsMax
      BY DEF GreedyReturnsMax
    <2>1. Row /\ NVocabUsed # 0
      BY DEF SampleInv, Row
    <2>2. ASSUME ~p.hot
          PROVE  /\ logits[drawn] = MaxLogit
                 /\ \A t \in Tokens : logits[t] = MaxLogit => drawn <= t
      <3>1. FirstMax(drawn)
        BY <2>1, <2>2 DEF SampleInv
      <3>2. MaxLogit = logits[drawn]
        BY <2>1, <3>1, MaxIsMax DEF FirstMax
      <3>3. drawn \in Tokens /\ \A t \in Tokens : t \in Int /\ logits[t] \in Int
        BY <2>1, <3>1 DEF FirstMax, IsMax, Row
      <3>4. \A t \in Tokens : logits[t] = logits[drawn] => ~(t < drawn)
        BY <3>1, <3>3 DEF FirstMax
      <3> QED
        BY <3>2, <3>3, <3>4
    <2>3. ASSUME p.hot, ~Finite PROVE logits[drawn] = MaxLogit
      <3>1. IsMax(drawn)
        BY <2>1, <2>3 DEF SampleInv
      <3> QED
        BY <2>1, <3>1, MaxIsMax
    <2> QED
      BY <2>2, <2>3 DEF GreedyReturnsMax
  <1> QED
    BY <1>1, SampleInit, SampleStep, PTL DEF Spec
=============================================================================
