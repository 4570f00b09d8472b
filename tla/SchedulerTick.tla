--------------------------- MODULE SchedulerTick ---------------------------
(***************************************************************************)
(* The loops of one Scheduler::tick up to the llama_decode call, one       *)
(* action per iteration: BaselinePolicy::schedule_tick, the BMT guard and  *)
(* the enactment of the plan into the batch arrays.  A tick runs to        *)
(* completion on the loop thread, on a pool that nobody else changes, so   *)
(* the pool is an input (`view`) chosen initially.                         *)
(***************************************************************************)
EXTENDS Policy, Sequences

CONSTANT Views   \* the pools the tick is run on

ASSUME ViewsAssumption == Views \subseteq View

VARIABLES
    view,     \* the session pool, cursors and configuration (never changes)
    pc,       \* which loop the tick is in
    i,        \* loop counter
    budget,   \* schedule_tick's `budget`
    ttft,     \* ttft_pool
    rest,     \* rest_pool
    items,    \* plan.items
    dcount,   \* plan.decode_tok_count
    pcount,   \* plan.prefill_tok_count
    next,     \* plan.next_rr_decode_idx / next_rr_prefill_idx
    est,      \* BMT estimate, an uint64 in the code
    rows,     \* the batch arrays, in lockstep: descriptor, position, logits
    samples,  \* SampleRefs: descriptor, batch index, state_before
    cum       \* history: cum[k + 1] = tokens in the first k items of the plan

vars == <<view, pc, i, budget, ttft, rest, items, dcount, pcount, next, est,
          rows, samples, cum>>

Phases == {"DECODE", "PREFILL"}
Item == [fd : Fds, phase : Phases, n : Int]
Row == [fd : Fds, pos : Int, logits : {0, 1}]
Sample == [fd : Fds, index : Nat, before : Phases]
Labels == {"decode", "split", "prefill", "estimate", "trim", "enact", "done"}

Init ==
    /\ view \in Views
    /\ pc = "decode"
    /\ i = 0
    /\ budget = Budget0(view)
    /\ ttft = <<>> /\ rest = <<>> /\ items = <<>>
    /\ dcount = 0 /\ pcount = 0
    /\ next = [dec |-> 0, pre |-> 0]
    /\ est = 0
    /\ rows = <<>> /\ samples = <<>>
    /\ cum = <<0>>

Planned == dcount + pcount

(* The rows an item puts in the batch.                                     *)
Tokens(item) == IF item.phase = "DECODE" THEN 1 ELSE item.n
-----------------------------------------------------------------------------
(* Faulty variant: the loop over the decode pool stops one short.          *)
MoreDecodeShort == i < Cardinality(view.dec) - 1 /\ budget > 0

MoreDecode == i < Cardinality(view.dec) /\ budget > 0

(* Phase A: decode_pool[(rr_decode_idx + i) % N] gets one token.           *)
DecodeIter ==
    /\ pc = "decode"
    /\ MoreDecode
    /\ \E f \in view.dec :
        /\ Index(f, view.dec, view.order) = (view.rrD + i) % Cardinality(view.dec)
        /\ items' = Append(items, [fd |-> f, phase |-> "DECODE", n |-> 1])
    /\ budget' = budget - 1
    /\ dcount' = dcount + 1
    /\ cum' = Append(cum, Planned + 1)
    /\ i' = i + 1
    /\ UNCHANGED <<view, pc, ttft, rest, pcount, next, est, rows, samples>>

DecodeExit ==
    /\ pc = "decode"
    /\ ~MoreDecode
    /\ next' = [next EXCEPT !.dec = NextCursor(view.dec, view.rrD, Budget0(view))]
    /\ pc' = IF view.pre # {} /\ budget > 0 THEN "split" ELSE "estimate"
    /\ i' = 0
    /\ UNCHANGED <<view, budget, ttft, rest, items, dcount, pcount, est, rows,
                   samples, cum>>

(* Faulty variant: sessions with output go to the TTFT pool.               *)
SplitIterSwapped ==
    /\ pc = "split"
    /\ i < Cardinality(view.pre)
    /\ \E f \in view.pre :
        /\ Index(f, view.pre, view.order) = (view.rrP + i) % Cardinality(view.pre)
        /\ ttft' = IF f \in view.late THEN Append(ttft, f) ELSE ttft
        /\ rest' = IF f \in view.late THEN rest ELSE Append(rest, f)
    /\ i' = i + 1
    /\ UNCHANGED <<view, pc, budget, items, dcount, pcount, next, est, rows,
                   samples, cum>>

(* Phase B, first loop: split the rotated prefill pool by first_emit_ns.   *)
SplitIter ==
    /\ pc = "split"
    /\ i < Cardinality(view.pre)
    /\ \E f \in view.pre :
        /\ Index(f, view.pre, view.order) = (view.rrP + i) % Cardinality(view.pre)
        /\ ttft' = IF f \in view.late THEN ttft ELSE Append(ttft, f)
        /\ rest' = IF f \in view.late THEN Append(rest, f) ELSE rest
    /\ i' = i + 1
    /\ UNCHANGED <<view, pc, budget, items, dcount, pcount, next, est, rows,
                   samples, cum>>

SplitExit ==
    /\ pc = "split"
    /\ i >= Cardinality(view.pre)
    /\ pc' = "prefill"
    /\ i' = 0
    /\ UNCHANGED <<view, budget, ttft, rest, items, dcount, pcount, next, est,
                   rows, samples, cum>>

(* Faulty variant: the chunk is not limited by the budget.                 *)
ChunkUnlimited(f) ==
    IF f \in view.late THEN view.remain[f] ELSE Least(view.remain[f], KBurst)

(* schedule_pool(ttft_pool), then schedule_pool(rest_pool).                *)
Chunk(f) ==
    LET whole == Least(view.remain[f], budget)
    IN  IF f \in view.late THEN whole ELSE Least(whole, KBurst)

PrefillIter ==
    /\ pc = "prefill"
    /\ i < Len(ttft \o rest) /\ budget > 0
    /\ LET f == (ttft \o rest)[i + 1]
           chunk == Chunk(f)
       IN  IF chunk > 0
           THEN /\ items' = Append(items, [fd |-> f, phase |-> "PREFILL", n |-> chunk])
                /\ budget' = budget - chunk
                /\ pcount' = pcount + chunk
                /\ cum' = Append(cum, Planned + chunk)
           ELSE UNCHANGED <<items, budget, pcount, cum>>
    /\ i' = i + 1
    /\ UNCHANGED <<view, pc, ttft, rest, dcount, next, est, rows, samples>>

PrefillExit ==
    /\ pc = "prefill"
    /\ ~(i < Len(ttft \o rest) /\ budget > 0)
    /\ next' = [next EXCEPT !.pre = (view.rrP + 1) % Cardinality(view.pre)]
    /\ pc' = "estimate"
    /\ i' = 0
    /\ UNCHANGED <<view, budget, ttft, rest, items, dcount, pcount, est, rows,
                   samples, cum>>
-----------------------------------------------------------------------------
(* BMT guard: estimate_units over the items, then trim from the back.      *)
ItemUnits(item) ==
    IF item.phase = "DECODE" THEN view.npast[item.fd] + 1
    ELSE ChunkUnits(view.npast[item.fd], Most(item.n, 0))

EstimateIter ==
    /\ pc = "estimate" /\ view.bmt > 0
    /\ i < Len(items)
    /\ est' = est + ItemUnits(items[i + 1])
    /\ i' = i + 1
    /\ UNCHANGED <<view, pc, budget, ttft, rest, items, dcount, pcount, next,
                   rows, samples, cum>>

EstimateExit ==
    /\ pc = "estimate"
    /\ view.bmt = 0 \/ i >= Len(items)
    /\ IF view.bmt > 0 /\ est > view.bmt
       THEN pc' = "trim" /\ i' = Len(items)
       ELSE pc' = "enact" /\ i' = 0
    /\ UNCHANGED <<view, budget, ttft, rest, items, dcount, pcount, next, est,
                   rows, samples, cum>>

(* Cost of the last token of chunk i, base + m.                            *)
TokCostBelow == view.npast[items[i].fd] + items[i].n - 1   \* faulty: m taken after n_tokens -= 1
TokCost == view.npast[items[i].fd] + items[i].n

(* Faulty variant: prefill_tok_count is left alone.                        *)
TrimTokenUncounted ==
    /\ pc = "trim"
    /\ i > 0 /\ est > view.bmt
    /\ items[i].phase = "PREFILL" /\ items[i].n > 0
    /\ items' = [items EXCEPT ![i].n = @ - 1]
    /\ est' = est - TokCost
    /\ cum' = [k \in DOMAIN cum |-> IF k > i THEN cum[k] - 1 ELSE cum[k]]
    /\ UNCHANGED <<view, pc, i, budget, ttft, rest, dcount, pcount, next, rows, samples>>

(* Faulty variant: the guard drops the whole chunk.                        *)
TrimTokenAll ==
    /\ pc = "trim"
    /\ i > 0 /\ est > view.bmt
    /\ items[i].phase = "PREFILL" /\ items[i].n > 0
    /\ items' = [items EXCEPT ![i].n = 0]
    /\ est' = est - ItemUnits(items[i])
    /\ pcount' = pcount - items[i].n
    /\ cum' = [k \in DOMAIN cum |-> IF k > i THEN cum[k] - items[i].n ELSE cum[k]]
    /\ UNCHANGED <<view, pc, i, budget, ttft, rest, dcount, next, rows, samples>>

(* Inner loop: drop the last token of chunk i.                             *)
TrimToken ==
    /\ pc = "trim"
    /\ i > 0 /\ est > view.bmt
    /\ items[i].phase = "PREFILL" /\ items[i].n > 0
    /\ items' = [items EXCEPT ![i].n = @ - 1]
    /\ est' = est - TokCost
    /\ pcount' = pcount - 1
    /\ cum' = [k \in DOMAIN cum |-> IF k > i THEN cum[k] - 1 ELSE cum[k]]
    /\ UNCHANGED <<view, pc, i, budget, ttft, rest, dcount, next, rows, samples>>

(* Faulty variant: the outer loop does not advance.                        *)
TrimNextStuck ==
    /\ pc = "trim"
    /\ i > 0 /\ est > view.bmt
    /\ items[i].phase # "PREFILL" \/ items[i].n <= 0
    /\ UNCHANGED vars

(* Outer loop: go on to the item before.                                   *)
TrimNext ==
    /\ pc = "trim"
    /\ i > 0 /\ est > view.bmt
    /\ items[i].phase # "PREFILL" \/ items[i].n <= 0
    /\ i' = i - 1
    /\ UNCHANGED <<view, pc, budget, ttft, rest, items, dcount, pcount, next, est,
                   rows, samples, cum>>

TrimExit ==
    /\ pc = "trim"
    /\ i = 0 \/ est <= view.bmt
    /\ pc' = "enact"
    /\ i' = 0
    /\ UNCHANGED <<view, budget, ttft, rest, items, dcount, pcount, next, est,
                   rows, samples, cum>>
-----------------------------------------------------------------------------
(* The batch index recorded for the sample of an item of n tokens.         *)
SampleIndexEarly(n) == Len(rows) - 1   \* faulty: taken before the rows are pushed
SampleIndex(n) == Len(rows) + n - 1

(* Faulty variant: logits are asked for on the first row of a chunk.       *)
RowsFirst(item, n) ==
    [j \in 1..n |-> [fd |-> item.fd, pos |-> view.npast[item.fd] + j - 1,
                     logits |-> IF j = 1 THEN 1 ELSE 0]]

Rows(item, n) ==
    [j \in 1..n |-> [fd |-> item.fd, pos |-> view.npast[item.fd] + j - 1,
                     logits |-> IF j = n THEN 1 ELSE 0]]

(* Enact: append the item's rows to the batch arrays; the only row of a    *)
(* decode item and the last row of a chunk ask for logits and are sampled. *)
EnactItem ==
    /\ pc = "enact"
    /\ i < Len(items)
    /\ LET item == items[i + 1]
           n == Tokens(item)
       IN  /\ rows' = rows \o Rows(item, n)
           /\ samples' = IF n > 0
                         THEN Append(samples, [fd |-> item.fd, index |-> SampleIndex(n),
                                               before |-> item.phase])
                         ELSE samples
    /\ i' = i + 1
    /\ UNCHANGED <<view, pc, budget, ttft, rest, items, dcount, pcount, next, est, cum>>

EnactExit ==
    /\ pc = "enact"
    /\ i >= Len(items)
    /\ pc' = "done"
    /\ UNCHANGED <<view, i, budget, ttft, rest, items, dcount, pcount, next, est,
                   rows, samples, cum>>

Next ==
    \/ DecodeIter \/ DecodeExit
    \/ SplitIter \/ SplitExit
    \/ PrefillIter \/ PrefillExit
    \/ EstimateIter \/ EstimateExit
    \/ TrimToken \/ TrimNext \/ TrimExit
    \/ EnactItem \/ EnactExit

Spec == Init /\ [][Next]_vars /\ WF_vars(Next)
-----------------------------------------------------------------------------
(* Types of the planner's state.                                           *)
TypeOK ==
    /\ view \in View
    /\ pc \in Labels
    /\ i \in Nat
    /\ budget \in Int
    /\ ttft \in Seq(view.pre) /\ rest \in Seq(view.pre)
    /\ items \in Seq(Item)
    /\ dcount \in Nat /\ pcount \in Int
    /\ next \in [dec : Nat, pre : Nat]
    /\ est \in Int
    /\ rows \in Seq(Row)
    /\ samples \in Seq(Sample)
    /\ cum \in Seq(Int)

(* The batch never outgrows llama_n_batch, nor the adaptive target: the    *)
(* assert at scheduler.cpp:144, which is also what keeps the pointers      *)
(* taken with &seq_id_vals.back() valid (reserve(batch_cap_) at line 38).  *)
BatchFits == Len(rows) <= Budget0(view)

(* The two counters that metrics use to split the decode time add up to    *)
(* the batch (scheduler.cpp:176-186): otherwise gen_ns could exceed the    *)
(* measured time and pf_ns, an uint64, would wrap.                         *)
SplitAccounts == pc = "done" => Len(rows) = dcount + pcount

(* The guard's running estimate stays equal to what estimate_units would   *)
(* return for the trimmed plan, so `est -= tok_cost` never wraps.          *)
EstimateExact ==
    pc \in {"trim", "enact", "done"} /\ view.bmt > 0 =>
        LET Units(k) == ItemUnits(items[k])
        IN  est >= 0 /\ est = MapThenSumSet(Units, DOMAIN items)

(* Every session in the batch is sampled exactly once, at its last row,    *)
(* and its rows are consecutive positions that start at its n_past.        *)
RowsOf(f) == {r \in DOMAIN rows : rows[r].fd = f}
SampledAtLastRow ==
    pc = "done" =>
        /\ Len(samples) = Cardinality({r \in DOMAIN rows : rows[r].logits = 1})
        /\ \A f \in Fds : RowsOf(f) # {} =>
             /\ \E s \in DOMAIN samples :
                  /\ samples[s].fd = f
                  /\ samples[s].index + 1 = Max(RowsOf(f))
                  /\ rows[Max(RowsOf(f))].logits = 1
                  /\ \A t \in DOMAIN samples : samples[t].fd = f => t = s
             /\ {rows[r].pos : r \in RowsOf(f)} =
                  view.npast[f]..(view.npast[f] + Cardinality(RowsOf(f)) - 1)

(* Decoding goes first: a prompt token is only in the batch when every     *)
(* session that was ready to decode is in it too (docs/POLICY.md:17,       *)
(* "Decode-first fairness"), and the guard never drops a decode row.       *)
DecodeFirst ==
    pc = "done" =>
        /\ (\E k \in DOMAIN items : items[k].phase = "PREFILL") =>
               view.dec = {items[k].fd : k \in {j \in DOMAIN items : items[j].phase = "DECODE"}}
        /\ dcount = Cardinality(DecodeItems(view))

(* A tick with ready work never builds an empty batch, as long as prompts  *)
(* start on an empty sequence: the loop polls with timeout 0 while work is *)
(* ready (main.cpp:145-159), so an empty batch would spin for ever.        *)
NoEmptyTick ==
    /\ pc = "done"
    /\ view.dec \cup view.pre # {}
    /\ \A f \in view.pre : view.npast[f] = 0
    => rows # <<>>

(* The loops end in the plan that module Policy defines: same decode set,  *)
(* the only chunk assignment of Chunks, the only cut of Trimmed, and the   *)
(* cursors of NextCursor.                                                  *)
LoopsImplementPolicy ==
    pc = "done" =>
        LET Of(p) == {k \in DOMAIN items : items[k].phase = p}
            got == [f \in view.pre |->
                      LET k == {j \in Of("PREFILL") : items[j].fd = f}
                      IN  IF k = {} THEN 0 ELSE items[CHOOSE j \in k : TRUE].n]
        IN  /\ {items[k].fd : k \in Of("DECODE")} = DecodeItems(view)
            /\ UNION {Trimmed(view, c) : c \in Chunks(view)} = {got}
            /\ next.dec = NextCursor(view.dec, view.rrD, Budget0(view))
            /\ next.pre = NextCursor(view.pre, view.rrP, PrefillBudget(view))

(* Every loop of the tick ends.                                            *)
TickEnds == <>(pc = "done")
=============================================================================
