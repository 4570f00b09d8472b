---------------------------- MODULE SequencePool ----------------------------
(***************************************************************************)
(* What the daemon promises about llama sequences: each is handed to one   *)
(* user, holds KV cells only while that user has it, and once given back   *)
(* is empty and never used again.                                          *)
(***************************************************************************)
EXTENDS Naturals, Sequences

CONSTANT Users

VARIABLE pool   \* for each sequence handed out, its user (if any) and cells

Entry == [users : SUBSET Users, cells : Nat]

Init == pool = <<>>

(* A user without a sequence gets a new, empty one.                        *)
Assign(u) ==
    /\ \A q \in DOMAIN pool : u \notin pool[q].users
    /\ pool' = Append(pool, [users |-> {u}, cells |-> 0])

(* Sequences in use grow or are emptied.                                   *)
Use ==
    /\ pool' \in Seq(Entry)
    /\ Len(pool') = Len(pool)
    /\ \A q \in DOMAIN pool :
         /\ pool'[q].users = pool[q].users
         /\ \/ pool'[q].cells = pool[q].cells
            \/ /\ pool[q].users # {}
               /\ pool'[q].cells > pool[q].cells \/ pool'[q].cells = 0

(* Users leave: their sequences are emptied for good.                      *)
Retire(gone) ==
    pool' = [q \in DOMAIN pool |->
                IF pool[q].users \cap gone = {} THEN pool[q]
                ELSE [users |-> pool[q].users \ gone, cells |-> 0]]

Next ==
    \/ \E u \in Users : Assign(u)
    \/ Use
    \/ \E gone \in SUBSET Users : Retire(gone)

Spec == Init /\ [][Next]_pool
=============================================================================
