---------------------------- MODULE ReplyService ----------------------------
(***************************************************************************)
(* What the daemon promises to one client that awaits each reply: every    *)
(* request is served once, one token after the other and all of them       *)
(* before its end, and the daemon hangs up only after the end of a reply   *)
(* or when the client has left.                                            *)
(***************************************************************************)
EXTENDS Naturals

VARIABLES
    stage,        \* of the client's current request
    up,           \* the daemon holds a session for the client
    toks          \* tokens of the current reply, sent or on their way

vars == <<stage, up, toks>>

Stages == {"away", "idle", "asked", "serving", "replied"}

Init == stage = "away" /\ ~up /\ toks = 0

Open == ~up /\ up' /\ stage' = "idle" /\ toks' = 0
Ask == up /\ stage = "idle" /\ stage' = "asked" /\ UNCHANGED <<up, toks>>
Begin == stage = "asked" /\ stage' = "serving" /\ UNCHANGED <<up, toks>>

Token ==
    /\ stage = "serving"
    /\ toks' = toks + 1
    /\ UNCHANGED <<stage, up>>

(* The terminal event is on its way; the daemon may hang up at once.       *)
End ==
    /\ stage \in {"asked", "serving"}
    /\ stage' = "replied"
    /\ up' \in {up, FALSE}
    /\ UNCHANGED toks

HangUp == up /\ stage = "replied" /\ ~up' /\ UNCHANGED <<stage, toks>>
Read == stage = "replied" /\ stage' = "idle" /\ toks' = 0 /\ UNCHANGED up

Leave == up /\ stage' = "away" /\ toks' = 0 /\ UNCHANGED up
Drop == up /\ stage = "away" /\ ~up' /\ UNCHANGED <<stage, toks>>

Next == Open \/ Ask \/ Begin \/ Token \/ End \/ HangUp \/ Read \/ Leave \/ Drop

Spec == Init /\ [][Next]_vars
=============================================================================
