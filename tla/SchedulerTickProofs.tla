------------------------ MODULE SchedulerTickProofs ------------------------
(***************************************************************************)
(* For every pool of sessions, batch capacity and burst size: the batch    *)
(* built by one tick fits, and the plan's counters account for it.         *)
(***************************************************************************)
EXTENDS SchedulerTick, FiniteSetTheorems, SequenceTheorems, TLAPS

(* Why the batch fits: the plan and what is left of the budget never       *)
(* exceed it, cum are the prefix sums of the plan, and enactment has added *)
(* the rows of the first i items.  With TypeOK it is inductive.            *)
Accounted ==
    /\ Len(cum) = Len(items) + 1
    /\ cum[1] = 0
    /\ cum[Len(cum)] = Planned
    /\ \A k \in 1..Len(items) :
          Tokens(items[k]) >= 0 /\ cum[k + 1] = cum[k] + Tokens(items[k])
    /\ \A k, l \in 1..Len(cum) : k < l => cum[k] + Tokens(items[l - 1]) <= cum[l]
    /\ 0 <= budget /\ Planned + budget <= Budget0(view)

Progress ==
    /\ pc \in {"split", "prefill"} => view.pre # {}
    /\ pc = "trim" => i <= Len(items)
    /\ pc \in {"enact", "done"} => i <= Len(items) /\ Len(rows) = cum[i + 1]
    /\ pc \notin {"enact", "done"} => rows = <<>>
    /\ pc = "done" => i = Len(items)

Inv == TypeOK /\ Accounted /\ Progress
-----------------------------------------------------------------------------
(* Cardinalities of subsets of the descriptors are natural numbers, and    *)
(* positive when the subset is not empty.                                  *)
LEMMA PoolSize ==
    ASSUME NEW P \in SUBSET Fds
    PROVE  Cardinality(P) \in Nat /\ (P # {} => Cardinality(P) > 0)
  <1>1. IsFiniteSet(P)
    BY PolicyAssumption, FS_Subset
  <1> QED
    BY <1>1, FS_CardinalityType, FS_EmptySet

(* The round-robin cursor that the next tick starts from is an index.      *)
LEMMA NextCursorType ==
    ASSUME NEW P \in SUBSET Fds, NEW r \in Nat, NEW b \in Int
    PROVE  NextCursor(P, r, b) \in Nat
  BY PoolSize DEF NextCursor

(* The fields of a view.                                                   *)
LEMMA ViewFields ==
    ASSUME NEW v \in View
    PROVE  /\ v.dec \in SUBSET Fds /\ v.pre \in SUBSET Fds
           /\ v.remain \in [Fds -> Int] /\ v.npast \in [Fds -> Nat]
           /\ v.rrD \in Nat /\ v.rrP \in Nat /\ v.target \in Nat /\ v.bmt \in Nat
  BY DEF View

(* The budget of a tick is a natural number.                               *)
LEMMA Budget0Type ==
    ASSUME NEW v \in View
    PROVE  Budget0(v) \in Nat
  BY PolicyAssumption DEF Budget0, Least, View

(* The number of rows of an item is an integer.                            *)
LEMMA TokensType ==
    ASSUME NEW item \in Item
    PROVE  Tokens(item) \in Int
  BY DEF Tokens, Item

(* What appending an item does to the prefix sums.                         *)
LEMMA AppendItem ==
    ASSUME TypeOK, Accounted, NEW item \in Item, Tokens(item) >= 0,
           Tokens(item) <= budget,
           items' = Append(items, item),
           cum' = Append(cum, Planned + Tokens(item)),
           Planned' = Planned + Tokens(item),
           budget' = budget - Tokens(item),
           view' = view
    PROVE  Accounted'
  <1> DEFINE w == Tokens(item)
             n == Len(items)
  <1>0. w \in Int /\ Planned \in Int /\ budget \in Int /\ n \in Nat
    BY DEF TypeOK, Tokens, Item, Planned
  <1>a. /\ Len(items') = n + 1
        /\ \A k \in 1..n : items'[k] = items[k]
        /\ items'[n + 1] = item
    BY AppendProperties DEF TypeOK
  <1>b. /\ Len(cum') = n + 2
        /\ \A k \in 1..(n + 1) : cum'[k] = cum[k]
        /\ cum'[n + 2] = Planned + w
    <2>1. cum \in Seq(Int) /\ Planned + w \in Int /\ Len(cum) = n + 1
      BY <1>0 DEF TypeOK, Accounted
    <2> QED
      BY <1>0, <2>1, AppendProperties
  <1>c. \A k \in 1..(n + 1) : cum[k] \in Int
    BY <1>0, ElementOfSeq DEF TypeOK, Accounted
  <1>1. /\ Len(items') = n + 1 /\ Len(cum') = n + 2
        /\ \A k \in 1..n : items'[k] = items[k]
        /\ items'[n + 1] = item
        /\ \A k \in 1..(n + 1) : cum'[k] = cum[k] /\ cum[k] \in Int
        /\ cum'[n + 2] = Planned + w
    BY <1>a, <1>b, <1>c
  <1>2. \A k \in 1..(n + 1) : cum[k] <= Planned
    <2> SUFFICES ASSUME NEW k \in 1..(n + 1) PROVE cum[k] <= Planned
      OBVIOUS
    <2>1. CASE k = n + 1
      BY <1>0, <1>c, <2>1 DEF Accounted
    <2>2. CASE k < n + 1
      <3>0. n \in 1..n /\ items \in Seq(Item)
        BY <1>0, <2>2 DEF TypeOK
      <3>1. n \in 1..n /\ Tokens(items[n]) \in Int
        <4>1. items[n] \in Item
          BY <3>0
        <4> QED
          BY <3>0, <4>1, TokensType
      <3>2. Tokens(items[n]) >= 0 /\ cum[k] + Tokens(items[n]) <= cum[n + 1]
        BY <1>0, <2>2, <3>1, SMTT(60) DEF Accounted
      <3> QED
        BY <1>0, <1>c, <3>1, <3>2, SMTT(60) DEF Accounted
    <2> QED
      BY <1>0, <2>1, <2>2, SMTT(60)
  <1>3. Len(cum') = Len(items') + 1 /\ cum'[1] = 0 /\ cum'[Len(cum')] = Planned'
    BY <1>0, <1>1 DEF Accounted
  <1>4. ASSUME NEW k \in 1..Len(items')
        PROVE  Tokens(items'[k]) >= 0 /\ cum'[k + 1] = cum'[k] + Tokens(items'[k])
    <2>1. CASE k \in 1..n
      BY <1>0, <1>1, <2>1, SMTT(60) DEF Accounted
    <2>2. CASE k = n + 1
      BY <1>0, <1>1, <2>2, SMTT(60) DEF Accounted
    <2> QED
      BY <1>0, <1>1, <2>1, <2>2, SMTT(60)
  <1>5. ASSUME NEW k \in 1..Len(cum'), NEW l \in 1..Len(cum'), k < l
        PROVE  cum'[k] + Tokens(items'[l - 1]) <= cum'[l]
    <2>1. CASE l \in 1..(n + 1)
      <3>1. l - 1 \in 1..n /\ k \in 1..(n + 1)
        BY <1>0, <1>1, <1>5, <2>1, SMTT(60)
      <3> QED
        BY <1>0, <1>1, <1>5, <2>1, <3>1 DEF Accounted
    <2>2. CASE l = n + 2
      BY <1>0, <1>1, <1>2, <1>5, <2>2, SMTT(60)
    <2>3. l \in 1..(n + 1) \/ l = n + 2
      BY <1>0, <1>1
    <2> QED
      BY <2>1, <2>2, <2>3, Zenon
  <1>6. 0 <= budget' /\ Planned' + budget' <= Budget0(view)'
    BY <1>0 DEF Accounted, Budget0
  <1> QED
    BY <1>3, <1>4, <1>5, <1>6, SMTT(60) DEF Accounted

(* A trimmed token is taken out of every prefix sum from its item on.      *)
LEMMA TrimTokenAccounted ==
    ASSUME Inv, TrimToken
    PROVE  Accounted'
  <1> DEFINE n == Len(items)
  <1>0. /\ n \in Nat /\ i \in 1..n /\ items \in Seq(Item) /\ cum \in Seq(Int)
        /\ Planned \in Int /\ budget \in Int
    BY DEF Inv, TypeOK, Progress, TrimToken, Planned
  <1>a. \A k \in 1..n : items[k] \in Item
    BY <1>0
  <1>b. \A k \in 1..n : Tokens(items[k]) \in Int
    BY <1>a, TokensType
  <1>c. \A k \in 1..(n + 1) : cum[k] \in Int
    BY <1>0 DEF Inv, Accounted
  <1>1. /\ \A k \in 1..n : Tokens(items[k]) \in Int
        /\ \A k \in 1..(n + 1) : cum[k] \in Int
    BY <1>b, <1>c
  <1>2. /\ Len(items') = n /\ Len(cum') = n + 1
        /\ Tokens(items'[i]) = Tokens(items[i]) - 1
        /\ \A k \in 1..n : k # i => Tokens(items'[k]) = Tokens(items[k])
        /\ \A k \in 1..(n + 1) : k > i => cum'[k] = cum[k] - 1
        /\ \A k \in 1..(n + 1) : k <= i => cum'[k] = cum[k]
    BY <1>0, <1>a, <1>1, SMTT(60) DEF Inv, Accounted, TrimToken, Tokens, Item
  <1>3. Planned' = Planned - 1 /\ budget' = budget /\ view' = view
    BY DEF TrimToken, Planned, Inv, TypeOK
  <1>4. Tokens(items[i]) > 0
    BY <1>0, <1>a DEF TrimToken, Tokens, Item
  <1>d. cum[1] = 0 /\ cum[n + 1] = Planned
    BY <1>0 DEF Inv, Accounted
  <1>e. \A k \in 1..n : Tokens(items[k]) >= 0 /\ cum[k + 1] = cum[k] + Tokens(items[k])
    BY DEF Inv, Accounted
  <1>f. \A k, l \in 1..(n + 1) : k < l => cum[k] + Tokens(items[l - 1]) <= cum[l]
    BY DEF Inv, Accounted
  <1>g. n \in Nat /\ i \in 1..n
    BY <1>0
  <1> HIDE DEF n
  <1>5. Len(cum') = Len(items') + 1 /\ cum'[1] = 0 /\ cum'[Len(cum')] = Planned'
    <2>1. 1 \in 1..(n + 1) /\ 1 <= i /\ n + 1 \in 1..(n + 1) /\ n + 1 > i
      BY <1>g
    <2> QED
      BY <1>g, <1>2, <1>3, <1>d, <2>1
  <1>6. ASSUME NEW k \in 1..Len(items')
        PROVE  Tokens(items'[k]) >= 0 /\ cum'[k + 1] = cum'[k] + Tokens(items'[k])
    <2>1. k \in 1..n /\ k \in 1..(n + 1) /\ k + 1 \in 1..(n + 1)
      BY <1>g, <1>2
    <2>2. /\ cum[k] \in Int /\ Tokens(items[k]) \in Int /\ Tokens(items[k]) >= 0
          /\ cum[k + 1] = cum[k] + Tokens(items[k])
      BY <1>1, <1>e, <2>1
    <2>3. CASE k = i
      <3>1. cum'[k + 1] = cum[k + 1] - 1 /\ cum'[k] = cum[k]
        BY <1>g, <1>2, <2>1, <2>3
      <3>2. Tokens(items'[k]) = Tokens(items[k]) - 1 /\ Tokens(items[k]) > 0
        BY <1>2, <1>4, <2>3
      <3> QED
        BY <2>2, <3>1, <3>2
    <2>4. CASE k < i
      <3>1. cum'[k + 1] = cum[k + 1] /\ cum'[k] = cum[k]
        BY <1>g, <1>2, <2>1, <2>4
      <3>2. Tokens(items'[k]) = Tokens(items[k])
        BY <1>g, <1>2, <2>1, <2>4
      <3> QED
        BY <2>2, <3>1, <3>2
    <2>5. CASE k > i
      <3>1. cum'[k + 1] = cum[k + 1] - 1 /\ cum'[k] = cum[k] - 1
        BY <1>g, <1>2, <2>1, <2>5
      <3>2. Tokens(items'[k]) = Tokens(items[k])
        BY <1>g, <1>2, <2>1, <2>5
      <3> QED
        BY <2>2, <3>1, <3>2
    <2> QED
      BY <1>g, <2>1, <2>3, <2>4, <2>5
  <1>7. ASSUME NEW k \in 1..Len(cum'), NEW l \in 1..Len(cum'), k < l
        PROVE  cum'[k] + Tokens(items'[l - 1]) <= cum'[l]
    <2>1. k \in 1..(n + 1) /\ l \in 1..(n + 1) /\ l - 1 \in 1..n
      BY <1>g, <1>2, <1>7
    <2>2. /\ cum[k] + Tokens(items[l - 1]) <= cum[l]
          /\ cum[k] \in Int /\ cum[l] \in Int /\ Tokens(items[l - 1]) \in Int
      BY <1>1, <1>f, <1>7, <2>1
    <2>3. CASE l <= i
      <3>1. /\ cum'[k] = cum[k] /\ cum'[l] = cum[l]
            /\ Tokens(items'[l - 1]) = Tokens(items[l - 1])
        BY <1>g, <1>2, <1>7, <2>1, <2>3
      <3> QED
        BY <2>2, <3>1
    <2>4. CASE k > i
      <3>1. /\ cum'[k] = cum[k] - 1 /\ cum'[l] = cum[l] - 1
            /\ Tokens(items'[l - 1]) = Tokens(items[l - 1])
        BY <1>g, <1>2, <1>7, <2>1, <2>4
      <3> QED
        BY <2>2, <3>1
    <2>5. CASE k <= i /\ l - 1 = i
      <3>1. /\ cum'[k] = cum[k] /\ cum'[l] = cum[l] - 1
            /\ Tokens(items'[l - 1]) = Tokens(items[l - 1]) - 1
        BY <1>g, <1>2, <2>1, <2>5
      <3> QED
        BY <2>2, <3>1
    <2>6. CASE k <= i /\ i + 1 < l
      <3>1. i + 1 \in 1..(n + 1) /\ k < i + 1 /\ (i + 1) - 1 = i
        BY <1>g, <2>1, <2>6
      <3>2. /\ cum[k] + Tokens(items[i]) <= cum[i + 1]
            /\ cum[i + 1] + Tokens(items[l - 1]) <= cum[l]
            /\ cum[i + 1] \in Int /\ Tokens(items[i]) \in Int
        BY <1>g, <1>1, <1>f, <2>1, <2>6, <3>1
      <3>3. /\ cum'[k] = cum[k] /\ cum'[l] = cum[l] - 1
            /\ Tokens(items'[l - 1]) = Tokens(items[l - 1])
        BY <1>g, <1>2, <2>1, <2>6
      <3> QED
        BY <1>4, <2>2, <3>2, <3>3, SMTT(60)
    <2> QED
      BY <1>g, <1>7, <2>1, <2>3, <2>4, <2>5, <2>6
  <1>8. 0 <= budget' /\ Planned' + budget' <= Budget0(view)'
    BY <1>0, <1>3, Budget0Type DEF Inv, Accounted, TypeOK
  <1> QED
    BY <1>5, <1>6, <1>7, <1>8 DEF Accounted

(* Steps that leave the plan and the budget alone keep the accounts.       *)
LEMMA AccountedFrame ==
    ASSUME Accounted, UNCHANGED <<view, budget, items, dcount, pcount, cum>>
    PROVE  Accounted'
  BY DEF Accounted, Planned, Budget0, Least

(* Enacting an item adds exactly Tokens(item) rows.                        *)
LEMMA RowsOfItem ==
    ASSUME NEW item \in Item, NEW n \in Nat, view \in View
    PROVE  Rows(item, n) \in Seq(Row) /\ Len(Rows(item, n)) = n
  BY DEF Rows, Row, View, Item

(* The BMT cost of an item is an integer.                                  *)
LEMMA ItemUnitsType ==
    ASSUME NEW item \in Item, view \in View
    PROVE  ItemUnits(item) \in Int
  <1>1. /\ view.npast[item.fd] \in Int /\ item.n \in Int /\ Most(item.n, 0) \in Int
    BY ViewFields DEF Item, Most
  <1>2. \A a, m \in Int : (m * (2 * a + (m - 1) * 1)) \div 2 \in Int
    <2> TAKE a \in Int, m \in Int
    <2>1. m * (2 * a + (m - 1) * 1) \in Int
      OBVIOUS
    <2> QED
      BY <2>1
  <1>3. ChunkUnits(view.npast[item.fd], Most(item.n, 0)) \in Int
    BY <1>1, <1>2 DEF ChunkUnits, SumArith
  <1> QED
    BY <1>1, <1>3 DEF ItemUnits

(* One iteration of schedule_pool.                                         *)
LEMMA PrefillIterStep ==
    ASSUME Inv, PrefillIter
    PROVE  Inv'
  <1> DEFINE f == (ttft \o rest)[i + 1]
             c == Chunk(f)
             item == [fd |-> f, phase |-> "PREFILL", n |-> c]
  <1>1. TypeOK /\ Accounted /\ Progress
    BY DEF Inv
  <1>2. f \in view.pre
    <2>1. ttft \o rest \in Seq(view.pre) /\ i + 1 \in 1..Len(ttft \o rest)
      BY <1>1, ConcatProperties, SMTT(60) DEF TypeOK, PrefillIter
    <2> QED
      BY <2>1
  <1>3. f \in Fds /\ view.remain[f] \in Int
    BY <1>1, <1>2, ViewFields, Zenon DEF TypeOK
  <1>4. IF c > 0
        THEN /\ items' = Append(items, item)
             /\ budget' = budget - c
             /\ pcount' = pcount + c
             /\ cum' = Append(cum, Planned + c)
        ELSE UNCHANGED <<items, budget, pcount, cum>>
    BY Zenon DEF PrefillIter
  <1>5. /\ i' = i + 1 /\ pc = "prefill"
        /\ UNCHANGED <<view, pc, ttft, rest, dcount, next, est, rows, samples>>
    BY DEF PrefillIter
  <1> HIDE DEF f
  <1>6. c \in Int /\ c <= budget
    BY <1>1, <1>3, PolicyAssumption DEF Chunk, Least, TypeOK
  <1> HIDE DEF c
  <1>7. item \in Item /\ Tokens(item) = c
    BY <1>3, <1>6 DEF Item, Phases, Tokens
  <1>8. CASE c > 0
    <2>1. /\ Tokens(item) <= budget /\ Tokens(item) >= 0
          /\ items' = Append(items, item) /\ cum' = Append(cum, Planned + Tokens(item))
          /\ budget' = budget - Tokens(item) /\ view' = view
      BY <1>4, <1>5, <1>6, <1>7, <1>8
    <2>2. Planned' = Planned + Tokens(item)
      BY <1>1, <1>4, <1>5, <1>6, <1>7, <1>8 DEF Planned, TypeOK
    <2>3. Accounted'
      BY <1>1, <1>7, <2>1, <2>2, AppendItem
    <2>4. items' \in Seq(Item) /\ cum' \in Seq(Int) /\ budget' \in Int /\ pcount' \in Int
      <3>1. items \in Seq(Item) /\ cum \in Seq(Int) /\ Planned + c \in Int
        BY <1>1, <1>6 DEF TypeOK, Planned
      <3>2. items' = Append(items, item) /\ cum' = Append(cum, Planned + c)
        BY <1>4, <1>8
      <3>3. budget' \in Int /\ pcount' \in Int
        BY <1>1, <1>4, <1>6, <1>8 DEF TypeOK
      <3> QED
        BY <1>7, <3>1, <3>2, <3>3, AppendProperties
    <2>5. TypeOK'
      BY <1>1, <1>5, <2>4 DEF TypeOK
    <2>6. Progress'
      BY <1>1, <1>5 DEF Progress
    <2> QED
      BY <2>3, <2>5, <2>6 DEF Inv
  <1>9. CASE ~(c > 0)
    <2>1. UNCHANGED <<items, budget, pcount, cum>>
      BY <1>4, <1>9
    <2>2. Accounted'
      BY <1>1, <1>5, <2>1, AccountedFrame
    <2>3. TypeOK' /\ Progress'
      BY <1>1, <1>5, <2>1 DEF TypeOK, Progress
    <2> QED
      BY <2>2, <2>3 DEF Inv
  <1> QED
    BY <1>8, <1>9

(* One iteration of the inner loop of the BMT guard.                       *)
LEMMA TrimTokenStep ==
    ASSUME Inv, TrimToken
    PROVE  Inv'
  <1>1. TypeOK /\ Accounted /\ Progress /\ view \in View /\ items \in Seq(Item)
    BY DEF Inv, TypeOK
  <1>2. /\ pc = "trim" /\ i > 0
        /\ items' = [items EXCEPT ![i] = [items[i] EXCEPT !.n = items[i].n - 1]]
        /\ est' = est - TokCost /\ pcount' = pcount - 1
        /\ cum' = [k \in DOMAIN cum |-> IF k > i THEN cum[k] - 1 ELSE cum[k]]
        /\ UNCHANGED <<view, pc, i, budget, ttft, rest, dcount, next, rows, samples>>
    BY DEF TrimToken
  <1>3. i \in 1..Len(items) /\ items[i] \in Item
    BY <1>1, <1>2 DEF TypeOK, Progress
  <1>4. [items[i] EXCEPT !.n = items[i].n - 1] \in Item
    BY <1>3 DEF Item
  <1>5. items' \in Seq(Item) /\ Len(items') = Len(items)
    BY <1>1, <1>2, <1>3, <1>4, ExceptSeq
  <1>6. TokCost \in Int
    BY <1>1, <1>3, ViewFields DEF TokCost, Item
  <1>7. cum' \in Seq(Int)
    <2>1. cum \in Seq(Int) /\ DOMAIN cum = 1..Len(cum) /\ Len(cum) \in Nat /\ i \in Int
      BY <1>1 DEF TypeOK
    <2>2. \A k \in 1..Len(cum) : (IF k > i THEN cum[k] - 1 ELSE cum[k]) \in Int
      BY <2>1
    <2> QED
      BY <1>2, <2>1, <2>2
  <1>8. TypeOK'
    BY <1>1, <1>2, <1>5, <1>6, <1>7, SMTT(60) DEF TypeOK
  <1>9. Progress'
    BY <1>1, <1>2, <1>5 DEF Progress
  <1> QED
    BY <1>8, <1>9, TrimTokenAccounted DEF Inv

(* The enactment of one item.                                              *)
LEMMA EnactItemStep ==
    ASSUME Inv, EnactItem
    PROVE  Inv'
  <1> DEFINE item == items[i + 1]
             n == Tokens(item)
             ref == [fd |-> item.fd, index |-> SampleIndex(n), before |-> item.phase]
  <1>1. TypeOK /\ Accounted /\ Progress /\ view \in View /\ rows \in Seq(Row)
    BY DEF Inv, TypeOK
  <1>2. /\ pc = "enact" /\ i < Len(items) /\ i' = i + 1
        /\ rows' = rows \o Rows(item, n)
        /\ samples' = IF n > 0 THEN Append(samples, ref) ELSE samples
        /\ UNCHANGED <<view, pc, budget, ttft, rest, items, dcount, pcount, next, est, cum>>
    BY DEF EnactItem
  <1>3. i + 1 \in 1..Len(items) /\ item \in Item
    BY <1>1, <1>2 DEF TypeOK
  <1>4. n \in Nat /\ cum[(i + 1) + 1] = cum[i + 1] + n
    BY <1>1, <1>3, TokensType DEF Accounted
  <1>5. Rows(item, n) \in Seq(Row) /\ Len(Rows(item, n)) = n
    BY <1>1, <1>3, <1>4, RowsOfItem
  <1>6. rows' \in Seq(Row) /\ Len(rows') = Len(rows) + n
    BY <1>1, <1>2, <1>5, ConcatProperties, Zenon
  <1>7. item.fd \in Fds /\ item.phase \in Phases
    BY <1>3 DEF Item
  <1> HIDE DEF n, item
  <1>8. samples' \in Seq(Sample)
    <2>1. CASE n > 0
      <3>1. SampleIndex(n) \in Nat
        BY <1>1, <1>4, <2>1 DEF SampleIndex
      <3>2. ref \in Sample
        BY <1>7, <3>1 DEF Sample
      <3> QED
        BY <1>1, <1>2, <2>1, <3>2, AppendProperties DEF TypeOK
    <2>2. CASE ~(n > 0)
      BY <1>1, <1>2, <2>2 DEF TypeOK
    <2> QED
      BY <2>1, <2>2
  <1>9. TypeOK'
    BY <1>1, <1>2, <1>6, <1>8 DEF TypeOK
  <1>10. Progress'
    <2>1. i' <= Len(items') /\ Len(rows') = cum'[i' + 1]
      BY <1>1, <1>2, <1>3, <1>4, <1>6, SMTT(60) DEF Progress, TypeOK
    <2> QED
      BY <1>1, <1>2, <2>1 DEF Progress
  <1> QED
    BY <1>1, <1>2, <1>9, <1>10, AccountedFrame DEF Inv

(* Every step of the tick preserves the invariant.                         *)
LEMMA InvStep ==
    ASSUME Inv, [Next]_vars
    PROVE  Inv'
  <1> USE DEF Inv
  <1>1. CASE DecodeIter
    <2> USE <1>1 DEF DecodeIter
    <2>1. PICK f \in view.dec :
             items' = Append(items, [fd |-> f, phase |-> "DECODE", n |-> 1])
      OBVIOUS
    <2> DEFINE item == [fd |-> f, phase |-> "DECODE", n |-> 1]
    <2>2. item \in Item /\ Tokens(item) = 1
      BY DEF TypeOK, View, Item, Phases, Tokens
    <2>3. Accounted'
      <3>1. /\ Tokens(item) <= budget /\ Tokens(item) >= 0
            /\ items' = Append(items, item) /\ cum' = Append(cum, Planned + Tokens(item))
            /\ Planned' = Planned + Tokens(item) /\ budget' = budget - Tokens(item)
            /\ view' = view
        BY <2>1, <2>2 DEF TypeOK, MoreDecode, Planned
      <3> QED
        BY <2>2, <3>1, AppendItem
    <2>4. TypeOK'
      BY <2>1, <2>2, SMTT(60) DEF TypeOK, Planned
    <2>5. Progress'
      BY DEF Progress
    <2> QED
      BY <2>3, <2>4, <2>5
  <1>2. CASE DecodeExit
    <2> USE <1>2 DEF DecodeExit
    <2>1. NextCursor(view.dec, view.rrD, Budget0(view)) \in Nat
      <3>1. /\ view.dec \in SUBSET Fds /\ view.rrD \in Nat
            /\ Budget0(view) \in Int
        BY Budget0Type, ViewFields DEF TypeOK
      <3> QED
        BY <3>1, NextCursorType
    <2>2. TypeOK'
      BY <2>1, Zenon DEF TypeOK, Labels
    <2>3. Progress'
      BY DEF Progress
    <2> QED
      BY <2>2, <2>3, AccountedFrame
  <1>3. CASE SplitIter
    <2> USE <1>3 DEF SplitIter
    <2>1. TypeOK'
      <3>1. PICK f \in view.pre :
               /\ ttft' = IF f \in view.late THEN ttft ELSE Append(ttft, f)
               /\ rest' = IF f \in view.late THEN Append(rest, f) ELSE rest
        OBVIOUS
      <3>2. ttft' \in Seq(view.pre) /\ rest' \in Seq(view.pre)
        BY <3>1, AppendProperties, Zenon DEF TypeOK
      <3> QED
        BY <3>2 DEF TypeOK
    <2>2. Progress'
      BY DEF Progress
    <2> QED
      BY <2>1, <2>2, AccountedFrame
  <1>4. CASE SplitExit
    <2> USE <1>4 DEF SplitExit
    <2>1. TypeOK'
      BY DEF TypeOK, Labels
    <2>2. Progress'
      BY DEF Progress
    <2> QED
      BY <2>1, <2>2, AccountedFrame
  <1>5. CASE PrefillIter
    BY <1>5, PrefillIterStep
  <1>6. CASE PrefillExit
    <2> USE <1>6 DEF PrefillExit
    <2>1. (view.rrP + 1) % Cardinality(view.pre) \in Nat
      <3>1. view.pre \in SUBSET Fds /\ view.rrP \in Nat /\ view.pre # {}
        BY ViewFields, SMTT(60) DEF TypeOK, Progress
      <3>2. Cardinality(view.pre) \in Nat \ {0}
        BY <3>1, PoolSize
      <3> QED
        BY <3>1, <3>2
    <2>2. TypeOK'
      BY <2>1, Zenon DEF TypeOK, Labels
    <2>3. Progress'
      BY DEF Progress
    <2> QED
      BY <2>2, <2>3, AccountedFrame
  <1>7. CASE EstimateIter
    <2> USE <1>7 DEF EstimateIter
    <2>1. items[i + 1] \in Item
      BY DEF TypeOK
    <2>2. ItemUnits(items[i + 1]) \in Int
      BY <2>1, ItemUnitsType DEF TypeOK
    <2>3. TypeOK'
      BY <2>2, SMTT(60) DEF TypeOK
    <2>4. Progress'
      BY DEF Progress
    <2> QED
      BY <2>3, <2>4, AccountedFrame
  <1>8. CASE EstimateExit
    <2> USE <1>8 DEF EstimateExit
    <2>1. TypeOK'
      BY DEF TypeOK, Labels
    <2>2. Progress'
      BY SMTT(60) DEF Progress, Accounted, TypeOK
    <2> QED
      BY <2>1, <2>2, AccountedFrame
  <1>9. CASE TrimToken
    BY <1>9, TrimTokenStep
  <1>10. CASE TrimNext
    <2> USE <1>10 DEF TrimNext
    <2>1. TypeOK'
      BY DEF TypeOK
    <2>2. Progress'
      BY DEF Progress, TypeOK
    <2> QED
      BY <2>1, <2>2, AccountedFrame
  <1>11. CASE TrimExit
    <2> USE <1>11 DEF TrimExit
    <2>1. TypeOK'
      BY DEF TypeOK, Labels
    <2>2. Progress'
      BY SMTT(60) DEF Progress, Accounted, TypeOK
    <2> QED
      BY <2>1, <2>2, AccountedFrame
  <1>12. CASE EnactItem
    BY <1>12, EnactItemStep
  <1>13. CASE EnactExit
    <2> USE <1>13 DEF EnactExit
    <2>1. TypeOK'
      BY DEF TypeOK, Labels
    <2>2. Progress'
      BY DEF Progress, TypeOK
    <2> QED
      BY <2>1, <2>2, AccountedFrame
  <1>14. CASE UNCHANGED vars
    BY <1>14, AccountedFrame DEF vars, TypeOK, Progress
  <1> QED
    BY <1>1, <1>2, <1>3, <1>4, <1>5, <1>6, <1>7, <1>8, <1>9, <1>10, <1>11, <1>12,
       <1>13, <1>14 DEF Next

(* The invariant holds before the first loop.                              *)
LEMMA InvInit == Init => Inv
  <1> SUFFICES ASSUME Init PROVE Inv
    OBVIOUS
  <1> USE DEF Init
  <1>1. view \in View /\ Budget0(view) \in Nat
    BY ViewsAssumption, Budget0Type
  <1>2. TypeOK
    BY <1>1 DEF TypeOK, Labels
  <1>3. Accounted
    BY <1>1 DEF Accounted, Planned
  <1>4. Progress
    BY DEF Progress
  <1> QED
    BY <1>2, <1>3, <1>4 DEF Inv

(* The invariant, for every behaviour of the tick.                         *)
LEMMA InvAlways == Spec => []Inv
  <1>1. Inv /\ [Next]_vars => Inv'
    BY InvStep
  <1> QED
    BY <1>1, InvInit, PTL DEF Spec

(* Type correctness of the planner's state (policy.cpp, scheduler.cpp).    *)
THEOREM TypeCorrect == Spec => []TypeOK
  BY InvAlways, PTL DEF Inv

(* Whatever the sessions, the batch handed to llama_decode is never larger *)
(* than min(target_batch_, batch_cap_): the assert at scheduler.cpp:144    *)
(* cannot fire, and the reserved arrays never reallocate.                  *)
THEOREM BatchAlwaysFits == Spec => []BatchFits
  <1>1. Inv => BatchFits
    <2> SUFFICES ASSUME Inv PROVE Len(rows) <= Budget0(view)
      BY DEF BatchFits
    <2>1. /\ Planned \in Int /\ budget \in Int /\ Budget0(view) \in Nat /\ i \in Nat
          /\ items \in Seq(Item) /\ cum \in Seq(Int)
      BY Budget0Type DEF Inv, TypeOK, Planned
    <2>2. CASE pc \notin {"enact", "done"}
      BY <2>1, <2>2 DEF Inv, Progress
    <2>3. CASE pc \in {"enact", "done"}
      <3>1. i \in 0..Len(items) /\ Len(rows) = cum[i + 1]
        BY <2>1, <2>3 DEF Inv, Progress
      <3>2. cum[i + 1] <= Planned
        <4>1. CASE i = Len(items)
          BY <2>1, <4>1 DEF Inv, Accounted
        <4>2. CASE i < Len(items)
          <5>1. /\ Len(items) \in 1..Len(items) /\ Len(cum) = Len(items) + 1
                /\ items[Len(items)] \in Item
            BY <2>1, <4>2 DEF Inv, Accounted
          <5>2. i + 1 \in 1..Len(cum) /\ Len(cum) \in 1..Len(cum) /\ i + 1 < Len(cum)
                /\ Len(cum) - 1 = Len(items)
            BY <2>1, <4>2, <5>1
          <5>3. /\ Tokens(items[Len(items)]) \in Int /\ Tokens(items[Len(items)]) >= 0
                /\ cum[i + 1] \in Int
            BY <2>1, <5>1, <5>2, TokensType DEF Inv, Accounted
          <5>4. cum[i + 1] + Tokens(items[Len(items)]) <= cum[Len(cum)]
            BY <5>2 DEF Inv, Accounted
          <5> QED
            BY <2>1, <5>3, <5>4 DEF Inv, Accounted
        <4> QED
          BY <2>1, <3>1, <4>1, <4>2
      <3>3. cum[i + 1] \in Int
        BY <2>1, <3>1 DEF Inv, Accounted
      <3> QED
        BY <2>1, <3>1, <3>2, <3>3 DEF Inv, Accounted
    <2> QED
      BY <2>2, <2>3
  <1> QED
    BY <1>1, InvAlways, PTL

(* The decode and prefill token counts of the plan add up to the batch, so *)
(* the split of the decode time between them never wraps                   *)
(* (scheduler.cpp:176-186).                                                *)
THEOREM SplitAlwaysAccounts == Spec => []SplitAccounts
  <1>1. Inv => SplitAccounts
    BY DEF Inv, TypeOK, Accounted, Progress, SplitAccounts, Planned
  <1> QED
    BY <1>1, InvAlways, PTL
=============================================================================
