----------------------------- MODULE UmadProofs -----------------------------
(***************************************************************************)
(* For every number of descriptors, every configuration and every          *)
(* behaviour of clients and backend that module Umad allows: the safety    *)
(* properties of UmadProps that do not depend on how clients behave.       *)
(***************************************************************************)
EXTENDS UmadSteps
-----------------------------------------------------------------------------
(*                            The scheduler tick                           *)

(* The batch keeps the number of sequences, and only its own sessions gain *)
(* cells.                                                                  *)
LEMMA BatchCells ==
    ASSUME Inv, NEW batch \in SUBSET Live, NEW plan \in [Fds -> Nat],
           kv' = kv \/ \E ended \in SUBSET batch : kv' = Cells(batch, plan, ended)
    PROVE  /\ kv' \in Seq(Nat) /\ DOMAIN kv' = DOMAIN kv
           /\ \A q \in DOMAIN kv : kv'[q] > 0 => kv[q] > 0 \/ \E f \in batch : sess[f].seq = q
  <1>1. kv \in Seq(Nat) /\ batch \in SUBSET Fds
    BY DEF Inv, TypeOK, Live
  <1>2. CASE kv' = kv
    BY <1>1, <1>2
  <1>3. ASSUME NEW ended \in SUBSET batch, kv' = Cells(batch, plan, ended)
        PROVE  /\ kv' \in Seq(Nat) /\ DOMAIN kv' = DOMAIN kv
               /\ \A q \in DOMAIN kv : kv'[q] > 0 => kv[q] > 0 \/ \E f \in batch : sess[f].seq = q
    <2> DEFINE K == Cells(batch, plan, ended)
    <2>1. /\ K \in Seq(Nat) /\ DOMAIN K = DOMAIN kv
          /\ \A q \in DOMAIN kv : K[q] > 0 => kv[q] > 0 \/ \E f \in batch : sess[f].seq = q
      BY <1>1, CellsType
    <2>2. kv' = K
      BY <1>3
    <2> HIDE DEF K
    <2> QED
      BY <2>1, <2>2
  <1> QED
    BY <1>2, <1>3

(* A batch that advances its sessions and arms what it must keeps the      *)
(* invariant.                                                              *)
LEMMA BatchStep ==
    ASSUME Inv, NEW batch \in SUBSET Live, NEW plan \in [Fds -> Nat],
           UNCHANGED <<order, conn, backlog, readyL, readyR, readyW, newborn, shutdown>>,
           pc' = "check", rr' \in [dec : Nat, pre : Nat], target' \in Nat,
           sess' = [f \in Fds |-> sess'[f]], interest' = [f \in Fds |-> interest'[f]],
           \A f \in batch : Advanced(sess[f], sess'[f]),
           \A f \in Fds \ batch : sess'[f] = sess[f],
           \A f \in Fds : interest'[f] \in {interest[f], interest[f] \cup {"W"}},
           \A f \in Fds \ batch : interest'[f] = interest[f],
           \A f \in batch : sess'[f].tx # <<>> /\ "W" \notin interest'[f] => Unarmed(sess'[f].tx),
           kv' = kv \/ \E ended \in SUBSET batch : kv' = Cells(batch, plan, ended)
    PROVE  Inv'
  <1>1. TypeOK /\ EventsCurrent /\ TxArmed /\ Live \subseteq Fds
    BY DEF Inv, Live
  <1>2. /\ kv' \in Seq(Nat) /\ DOMAIN kv' = DOMAIN kv
        /\ \A q \in DOMAIN kv : kv'[q] > 0 => kv[q] > 0 \/ \E f \in batch : sess[f].seq = q
    BY BatchCells, Zenon
  <1>3. \A f \in Fds : sess'[f] \in Session
    BY <1>1 DEF TypeOK, Advanced
  <1>4. sess' \in [Fds -> Session]
    BY <1>3
  <1>5. interest' \in [Fds -> SUBSET {"R", "W"}]
    <2>1. ASSUME NEW f \in Fds PROVE interest'[f] \in SUBSET {"R", "W"}
      <3>1. interest[f] \in SUBSET {"R", "W"}
        BY <1>1 DEF TypeOK
      <3>2. interest'[f] = interest[f] \/ interest'[f] = interest[f] \cup {"W"}
        OBVIOUS
      <3> QED
        BY <3>1, <3>2
    <2> QED
      BY <2>1
  <1>6. TypeOK'
    BY <1>1, <1>2, <1>4, <1>5, SMTT(60) DEF TypeOK
  <1>7. \A f \in Live : sess'[f].state # "ABSENT" /\ sess'[f].seq = sess[f].seq
    BY <1>1 DEF Advanced, Live
  <1>8. Live' = Live
    BY <1>1, <1>7 DEF Live
  <1>9. SessionsBounded'
    BY <1>8 DEF Inv, SessionsBounded
  <1>10. SequencesDistinct'
    BY <1>2, <1>7, <1>8, SMTT(60) DEF Inv, SequencesDistinct
  <1>11. NoOrphanCells'
    <2> SUFFICES ASSUME NEW q \in DOMAIN kv, kv'[q] > 0
                 PROVE  \E f \in Live : sess'[f].seq = q
      BY <1>2, <1>8 DEF NoOrphanCells
    <2>1. \E f \in Live : sess[f].seq = q
      BY <1>2 DEF Inv, NoOrphanCells
    <2> QED
      BY <1>7, <2>1
  <1>12. EventsCurrent'
    <2>1. \A f \in Fds : interest'[f] # {} => f \in Live
      BY <1>1, SMTT(60) DEF EventsCurrent
    <2> QED
      BY <1>1, <1>8, <2>1, SMTT(60) DEF EventsCurrent
  <1>13. TxArmed'
    <2>1. \A f \in Live \ batch : sess'[f] = sess[f] /\ interest'[f] = interest[f]
      BY <1>1
    <2>2. \A f \in Live : sess[f].tx # <<>> /\ "W" \notin interest[f] => Unarmed(sess[f].tx)
      BY <1>1 DEF TxArmed, Unarmed
    <2>3. \A f \in Live : sess'[f].tx # <<>> /\ "W" \notin interest'[f] => Unarmed(sess'[f].tx)
      BY <2>1, <2>2, SMTT(60)
    <2> QED
      BY <1>8, <2>3 DEF TxArmed, Unarmed
  <1>14. ReadyArmed'
    BY <1>1, ZenonT(60) DEF Inv, ReadyArmed, TypeOK
  <1>15. SocketBounded' /\ AcceptReady'
    BY DEF Inv, SocketBounded, AcceptReady
  <1> QED
    BY <1>6, <1>9, <1>10, <1>11, <1>12, <1>13, <1>14, <1>15, SMTT(60) DEF Inv

(* The scheduler tick.                                                     *)
LEMMA TickStep ==
    ASSUME Inv, Tick
    PROVE  Inv'
  <1> DEFINE v == PoolView
  <1>1. PICK plan \in Plans(v) :
          LET batch == {f \in Fds : plan[f] > 0} IN
          /\ rr' = [dec |-> NextCursor(v.dec, v.rrD, Budget0(v)),
                    pre |-> NextCursor(v.pre, v.rrP, PrefillBudget(v))]
          /\ IF batch = {} THEN UNCHANGED <<sess, interest, kv, target>>
             ELSE /\ target' \in Retarget(target)
                  /\ DecodeOK(batch, plan) \/ DecodeFails(batch, plan)
    BY DEF Tick
  <1> DEFINE batch == {f \in Fds : plan[f] > 0}
  <1>2. /\ pc' = "check"
        /\ UNCHANGED <<order, conn, backlog, readyL, readyR, readyW, newborn, shutdown>>
    BY DEF Tick
  <1>3. rr' \in [dec : Nat, pre : Nat]
    <2>1. /\ NextCursor(v.dec, v.rrD, Budget0(v)) \in Nat
          /\ NextCursor(v.pre, v.rrP, PrefillBudget(v)) \in Nat
      BY PoolViewFacts, CursorType
    <2> HIDE DEF v
    <2> QED
      BY <1>1, <2>1
  <1>4. plan \in [Fds -> Nat] /\ batch \in SUBSET Live
    BY PlanFacts
  <1>5. TypeOK /\ target \in Nat /\ sess \in [Fds -> Session] /\ interest \in [Fds -> SUBSET {"R", "W"}]
    BY DEF Inv, TypeOK
  <1>6. \A f \in batch : f \in Fds /\ f \in Live /\ sess[f] \in Session /\ plan[f] \in Nat
    BY <1>4, <1>5, SMTT(60)
  <1>7. \/ UNCHANGED <<sess, interest, kv, target>>
        \/ target' \in Retarget(target) /\ (DecodeOK(batch, plan) \/ DecodeFails(batch, plan))
    BY <1>1, SMTT(60)
  <1> HIDE DEF v, batch
  <1>8. CASE UNCHANGED <<sess, interest, kv, target>>
    <2>1. TypeOK'
      BY <1>2, <1>3, <1>5, <1>8, SMTT(60) DEF TypeOK
    <2>2. SocketBounded' /\ AcceptReady' /\ ReadyArmed'
      BY <1>2, <1>8, SMTT(60) DEF Inv, SocketBounded, AcceptReady, ReadyArmed
    <2> QED
      BY <1>2, <1>8, <2>1, <2>2, QuietStep, SMTT(60) DEF Inv, EventsCurrent
  <1>9. CASE target' \in Retarget(target) /\ DecodeOK(batch, plan)
    <2>1. target' \in Nat
      BY <1>5, <1>9, RetargetType, SMTT(60)
    <2>2. PICK eog \in SUBSET batch, mute \in SUBSET batch, null \in SUBSET batch :
            LET new == [f \in Fds |->
                         IF f \notin batch THEN sess[f]
                         ELSE IF f \in null THEN Enacted(sess[f], plan[f])
                         ELSE Sampled(sess[f], plan[f], f \in eog, f \in mute)]
                arm == {f \in batch \ null : sess[f].tx = <<>> /\ new[f].tx # <<>>}
                over == {f \in batch \ null : new[f].state = "STREAM"}
            IN  /\ sess' = new
                /\ interest' = [f \in Fds |-> IF f \in arm THEN interest[f] \cup {"W"}
                                              ELSE interest[f]]
                /\ kv' = Cells(batch, plan, over)
      BY <1>9, ZenonT(60) DEF DecodeOK
    <2> DEFINE arm == {f \in batch \ null : sess[f].tx = <<>> /\ sess'[f].tx # <<>>}
               over == {f \in batch \ null : sess'[f].state = "STREAM"}
    <2>3. /\ sess' = [f \in Fds |-> IF f \notin batch THEN sess[f]
                         ELSE IF f \in null THEN Enacted(sess[f], plan[f])
                         ELSE Sampled(sess[f], plan[f], f \in eog, f \in mute)]
          /\ interest' = [f \in Fds |-> IF f \in arm THEN interest[f] \cup {"W"} ELSE interest[f]]
          /\ kv' = Cells(batch, plan, over)
      BY <2>2, Zenon
    <2>4. ASSUME NEW f \in batch
          PROVE  /\ Advanced(sess[f], sess'[f])
                 /\ f \in null => sess'[f].tx = sess[f].tx
      <3>1. f \in Fds /\ f \in Live /\ sess[f] \in Session /\ plan[f] \in Nat /\ sess[f].state # "ABSENT"
        BY <1>6, <2>4 DEF Live
      <3>2. CASE f \in null
        <4>1. sess'[f] = Enacted(sess[f], plan[f])
          BY <2>3, <2>4, <3>1, <3>2, SMTT(60)
        <4> QED
          BY <3>1, <4>1, EnactedType DEF Advanced
      <3>3. CASE f \notin null
        <4>1. sess'[f] = Sampled(sess[f], plan[f], f \in eog, f \in mute)
          BY <2>3, <2>4, <3>1, <3>3, Zenon
        <4>2. Advanced(sess[f], Sampled(sess[f], plan[f], f \in eog, f \in mute))
          BY <3>1, SampledAdvances, Zenon
        <4> QED
          BY <3>3, <4>1, <4>2, Zenon
      <3> QED
        BY <3>2, <3>3
    <2>5. \A f \in Fds \ batch : sess'[f] = sess[f] /\ interest'[f] = interest[f]
      BY <2>3, SMTT(60)
    <2>6. \A f \in Fds : interest'[f] \in {interest[f], interest[f] \cup {"W"}}
      BY <2>3, SMTT(60)
    <2>7. ASSUME NEW f \in batch, sess'[f].tx # <<>>, "W" \notin interest'[f]
          PROVE  Unarmed(sess'[f].tx)
      <3>1. /\ f \in Fds /\ sess[f].tx \in Seq(Event)
            /\ sess[f].tx # <<>> /\ "W" \notin interest[f] => Unarmed(sess[f].tx)
        BY <1>6, <2>7, LiveFacts, SessionFields
      <3>2. f \notin arm /\ interest'[f] = interest[f]
        BY <2>3, <2>7, <3>1
      <3>3. sess[f].tx # <<>>
        BY <2>4, <2>7, <3>2, SMTT(60)
      <3>4. Unarmed(sess[f].tx)
        BY <2>7, <3>1, <3>2, <3>3, SMTT(60)
      <3>5. sess'[f].tx = sess[f].tx \/ \E e \in Event : sess'[f].tx = Append(sess[f].tx, e)
        BY <2>4, <2>7, SMTT(60) DEF Advanced
      <3> QED
        BY <3>1, <3>4, <3>5, TxAppend, ZenonT(60)
    <2>8. over \in SUBSET batch
      BY SMTT(60)
    <2>9. sess' = [f \in Fds |-> sess'[f]] /\ interest' = [f \in Fds |-> interest'[f]]
      BY <2>3
    <2>10. \E ended \in SUBSET batch : kv' = Cells(batch, plan, ended)
      BY <2>3, <2>8, Zenon
    <2> HIDE DEF arm, over
    <2> QED
      BY <1>2, <1>3, <1>4, <2>1, <2>4, <2>5, <2>6, <2>7, <2>9, <2>10, BatchStep, SMTT(60)
  <1>10. CASE target' \in Retarget(target) /\ DecodeFails(batch, plan)
    <2>1. target' \in Nat
      BY <1>5, <1>10, RetargetType
    <2>2. /\ sess' = [f \in Fds |-> IF f \in batch THEN Failed(Enacted(sess[f], plan[f])) ELSE sess[f]]
          /\ kv' = kv \/ kv' = Cells(batch, plan, {})
      BY <1>10 DEF DecodeFails
    <2>3. interest' = interest
      BY <1>10 DEF DecodeFails
    <2>4. \A f \in batch : Advanced(sess[f], sess'[f]) /\ Unarmed(sess'[f].tx)
      BY <1>6, <2>2, FailedAdvances, SMTT(60)
    <2>5. \A f \in Fds \ batch : sess'[f] = sess[f]
      BY <2>2
    <2>6. sess' = [f \in Fds |-> sess'[f]] /\ interest' = [f \in Fds |-> interest'[f]]
      BY <1>5, <2>2, <2>3, SMTT(60)
    <2>7. kv' = kv \/ \E ended \in SUBSET batch : kv' = Cells(batch, plan, ended)
      BY <2>2
    <2>8. \A f \in Fds : interest'[f] \in {interest[f], interest[f] \cup {"W"}} /\ interest'[f] = interest[f]
      BY <2>3
    <2> QED
      BY <1>2, <1>3, <1>4, <2>1, <2>4, <2>5, <2>6, <2>7, <2>8, BatchStep, Zenon
  <1> QED
    BY <1>7, <1>8, <1>9, <1>10
-----------------------------------------------------------------------------
(*                              The theorems                               *)

(* The invariant holds initially.                                          *)
LEMMA InvInit == Init => Inv
  <1> SUFFICES ASSUME Init PROVE Inv
    OBVIOUS
  <1>1. TypeOK
    <2>1. /\ sess \in [Fds -> Session] /\ conn \in [Fds -> Conn]
          /\ interest \in [Fds -> SUBSET {"R", "W"}]
      BY FreshType DEF Init
    <2>2. kv \in Seq(Nat) /\ target \in Nat /\ order \in Orders /\ backlog \in Nat
      BY Constants DEF Init
    <2>3. rr \in [dec : Nat, pre : Nat] /\ pc = "check" /\ readyR = {} /\ readyW = {} /\ newborn = {}
      BY DEF Init
    <2>4. readyL \in BOOLEAN /\ shutdown \in BOOLEAN
      BY Zenon DEF Init
    <2> QED
      BY <2>1, <2>2, <2>3, <2>4, SMTT(60) DEF TypeOK
  <1>2. Absent.state = "ABSENT"
    BY DEF Absent, Fresh
  <1>3. Live = {}
    BY <1>2 DEF Init, Live
  <1>4. SessionsBounded
    BY <1>3, FS_EmptySet, Constants DEF SessionsBounded
  <1>5. SequencesDistinct /\ NoOrphanCells /\ EventsCurrent /\ TxArmed
    BY <1>3 DEF Init, SequencesDistinct, NoOrphanCells, EventsCurrent, TxArmed
  <1>6. ReadyArmed /\ AcceptReady
    BY DEF Init, ReadyArmed, AcceptReady
  <1>7. SocketBounded
    <2>1. NoConn.out = <<>> /\ Len(<<>>) = 0
      BY DEF NoConn
    <2> QED
      BY <2>1, Constants DEF Init, SocketBounded
  <1> QED
    BY <1>1, <1>4, <1>5, <1>6, <1>7, SMTT(60) DEF Inv

(* Every step keeps it.                                                    *)
LEMMA InvStep == Inv /\ [Next]_vars => Inv'
  <1> SUFFICES ASSUME Inv, [Next]_vars PROVE Inv'
    BY SMTT(60)
  <1>1. CASE UNCHANGED vars
    BY <1>1 DEF vars, loopVars, schedVars, Inv, TypeOK, SessionsBounded, SequencesDistinct,
                NoOrphanCells, EventsCurrent, TxArmed, ReadyArmed, SocketBounded, AcceptReady, Live
  <1>2. ASSUME NEW f \in Fds, Client(f) \/ GrowIdle(f) \/ ReadEvent(f) \/ WriteEvent(f)
        PROVE  Inv'
    BY <1>2, ClientStep, GrowIdleStep, ReadEventStep, WriteEventStep, SMTT(60)
  <1>3. CASE Connect \/ Signal \/ WaitTimeout \/ WaitFails \/ Check \/ Wait \/ AcceptFails
    BY <1>3, LoopStep
  <1>4. CASE Accept
    BY <1>4, AcceptStep
  <1>5. CASE IdleSweep
    BY <1>5, IdleSweepStep, SMTT(60)
  <1>6. CASE Tick
    BY <1>6, TickStep
  <1> QED
    BY <1>1, <1>2, <1>3, <1>4, <1>5, <1>6, SMTT(60) DEF Next, Loop

(* It holds always.                                                        *)
LEMMA InvAlways == Spec => []Inv
  BY InvInit, InvStep, PTL DEF Spec

(* The daemon's state keeps its type, whatever its clients and the backend *)
(* do, with any number of descriptors.                                     *)
THEOREM TypeCorrect == Spec => []TypeOK
  <1>1. Inv => TypeOK
    BY DEF Inv
  <1> QED
    BY <1>1, InvAlways, PTL

(* The session map never outgrows max_sessions (main.cpp:184).             *)
THEOREM SessionsAlwaysBounded == Spec => []SessionsBounded
  <1>1. Inv => SessionsBounded
    BY DEF Inv
  <1> QED
    BY <1>1, InvAlways, PTL

(* No two sessions ever share a llama sequence (session_manager.cpp:300).  *)
THEOREM SequencesAlwaysDistinct == Spec => []SequencesDistinct
  <1>1. Inv => SequencesDistinct
    BY DEF Inv
  <1> QED
    BY <1>1, InvAlways, PTL

(* The KV cells of a closed session are always released, on each of the    *)
(* ways a session ends (session_manager.cpp:30-46).                        *)
THEOREM CellsAlwaysOwned == Spec => []NoOrphanCells
  <1>1. Inv => NoOrphanCells
    BY DEF Inv
  <1> QED
    BY <1>1, InvAlways, PTL

(* A polled event is always applied to the connection it was polled for,   *)
(* although descriptors are reused (main.cpp:169-292).                     *)
THEOREM EventsAlwaysCurrent == Spec => []EventsCurrent
  <1>1. Inv => EventsCurrent
    BY DEF Inv
  <1> QED
    BY <1>1, InvAlways, PTL

(* Pending output is always armed for writing, except that of a failed     *)
(* decode (main.cpp:215-292, scheduler.cpp:259, 323-325).                  *)
THEOREM TxAlwaysArmed == Spec => []TxArmed
  <1>1. Inv => TxArmed
    BY DEF Inv
  <1> QED
    BY <1>1, InvAlways, PTL
=============================================================================
