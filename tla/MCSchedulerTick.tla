-------------------------- MODULE MCSchedulerTick --------------------------
EXTENDS SchedulerTick

(* Three sessions, each absent, ready to decode, or with a prompt to feed. *)
(* Descriptors carry arbitrary session data, so one iteration order of the *)
(* map stands for all of them.  A PREFILL session that already produced    *)
(* output ("late") is an input of tests/cpp/policy_test.cpp; one at a      *)
(* position above 0 is what a null logits row leaves behind.               *)
MCFds == 1..3
Slot == [kind : {"none"}, n : {0}, past : {0}]
        \cup [kind : {"dec"}, n : {0}, past : {1, 3}]
        \cup [kind : {"pre"}, n : {1, 3}, past : {0}]
        \cup [kind : {"pre"}, n : {2}, past : {2}]
        \cup [kind : {"late"}, n : {3}, past : {0}]

MCView(slots, rrD, rrP, target, bmt) ==
    [dec |-> {f \in MCFds : slots[f].kind = "dec"},
     pre |-> {f \in MCFds : slots[f].kind \in {"pre", "late"}},
     late |-> {f \in MCFds : slots[f].kind = "late"},
     remain |-> [f \in MCFds |-> slots[f].n],
     npast |-> [f \in MCFds |-> slots[f].past],
     order |-> [f \in MCFds |-> f],
     rrD |-> rrD, rrP |-> rrP, target |-> target, bmt |-> bmt]

MCViews ==
    {MCView(slots, rrD, rrP, target, bmt) :
        slots \in [MCFds -> Slot], rrD \in 0..2, rrP \in 0..2,
        target \in {1, 3, 5}, bmt \in {0, 4, 9}}
=============================================================================
