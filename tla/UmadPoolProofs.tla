--------------------------- MODULE UmadPoolProofs ---------------------------
(***************************************************************************)
(* umad implements SequencePool: initial states map to initial states and  *)
(* every step, from the states of the inductive invariant of UmadLemmas,   *)
(* to a step of the pool or to none.                                       *)
(***************************************************************************)
EXTENDS UmadProofs

(* The sessions that hold sequence q, and the pool they make up.           *)
Holders(q) == {f \in Live : sess[f].seq = q}
PoolNow == [q \in DOMAIN kv |-> [users |-> Holders(q), cells |-> kv[q]]]
-----------------------------------------------------------------------------
(*                 Steps of the pool, in terms of the daemon               *)

(* Functions on 1..n are sequences.                                        *)
LEMMA AsSeq ==
    ASSUME NEW n \in Nat, NEW S, NEW s \in [1..n -> S]
    PROVE  s \in Seq(S) /\ Len(s) = n
  <1>1. s \in Seq(S)
    BY SeqDef
  <1>2. Len(s) \in Nat /\ DOMAIN s = 1..Len(s) /\ DOMAIN s = 1..n
    BY <1>1, LenProperties
  <1> QED
    BY <1>1, <1>2, SMT

(* The pool is a sequence as long as kv.                                   *)
LEMMA PoolShape ==
    ASSUME kv \in Seq(Nat)
    PROVE  /\ PoolNow \in Seq([users : SUBSET Fds, cells : Nat])
           /\ Len(PoolNow) = Len(kv) /\ DOMAIN PoolNow = DOMAIN kv
           /\ \A q \in DOMAIN kv : PoolNow[q].users = Holders(q) /\ PoolNow[q].cells = kv[q]
  <1>1. \A q \in DOMAIN kv : Holders(q) \in SUBSET Fds /\ kv[q] \in Nat
    BY DEF Holders, Live
  <1>2. DOMAIN kv = 1..Len(kv) /\ Len(kv) \in Nat
    BY LenProperties
  <1>3. PoolNow \in [1..Len(kv) -> [users : SUBSET Fds, cells : Nat]]
    BY <1>1, <1>2 DEF PoolNow
  <1>4. PoolNow \in Seq([users : SUBSET Fds, cells : Nat]) /\ Len(PoolNow) = Len(kv)
    BY <1>2, <1>3, AsSeq, Zenon
  <1> QED
    BY <1>2, <1>3, <1>4 DEF PoolNow

(* Nothing changes hands.                                                  *)
LEMMA PoolStays ==
    ASSUME kv' = kv, \A q \in DOMAIN kv : Holders(q)' = Holders(q)
    PROVE  PoolNow' = PoolNow
  BY DEF PoolNow

(* A session gets the next sequence.                                       *)
LEMMA PoolAssigns ==
    ASSUME kv \in Seq(Nat), NEW f \in Fds, kv' = Append(kv, 0),
           \A q \in DOMAIN kv : f \notin Holders(q) /\ Holders(q)' = Holders(q),
           NEW n, n = Len(kv) + 1, Holders(n)' = {f}
    PROVE  Pool!Next
  <1> DEFINE e == [users |-> {f}, cells |-> 0]
             E == [users : SUBSET Fds, cells : Nat]
  <1>1. kv' \in Seq(Nat) /\ Len(kv') = Len(kv) + 1 /\ Len(kv) \in Nat
    BY AppendProperties
  <1>2. /\ \A q \in 1..Len(kv) : kv'[q] = kv[q]
        /\ kv'[Len(kv) + 1] = 0
    BY AppendProperties
  <1>3. DOMAIN kv = 1..Len(kv) /\ DOMAIN kv' = 1..(Len(kv) + 1)
    BY <1>1, LenProperties
  <1>4. PoolNow \in Seq(E) /\ Len(PoolNow) = Len(kv)
    BY PoolShape
  <1>5. PoolNow' \in Seq(E) /\ Len(PoolNow') = Len(kv) + 1
    <2>1. \A q \in DOMAIN kv' : Holders(q)' \in SUBSET Fds /\ kv'[q] \in Nat
      BY <1>1 DEF Holders, Live
    <2>2. PoolNow' \in [1..(Len(kv) + 1) -> E]
      BY <1>3, <2>1 DEF PoolNow
    <2>3. Len(kv) + 1 \in Nat
      BY <1>1
    <2> HIDE DEF E
    <2> QED
      BY <2>2, <2>3, AsSeq, Zenon
  <1>6. e \in E
    OBVIOUS
  <1> HIDE DEF E
  <1>7. /\ Append(PoolNow, e) \in Seq(E) /\ Len(Append(PoolNow, e)) = Len(kv) + 1
        /\ \A q \in 1..Len(kv) : Append(PoolNow, e)[q] = PoolNow[q]
        /\ Append(PoolNow, e)[Len(kv) + 1] = e
    <2> HIDE DEF e
    <2>1. /\ Append(PoolNow, e) \in Seq(E) /\ Len(Append(PoolNow, e)) = Len(PoolNow) + 1
          /\ \A q \in 1..Len(PoolNow) : Append(PoolNow, e)[q] = PoolNow[q]
          /\ Append(PoolNow, e)[Len(PoolNow) + 1] = e
      BY <1>4, <1>6, AppendProperties
    <2> QED
      BY <1>4, <2>1
  <1>8. ASSUME NEW q \in 1..(Len(kv) + 1) PROVE PoolNow'[q] = Append(PoolNow, e)[q]
    <2>1. PoolNow'[q] = [users |-> Holders(q)', cells |-> kv'[q]]
      BY <1>3 DEF PoolNow
    <2>2. CASE q = Len(kv) + 1
      <3>1. PoolNow'[q] = [users |-> {f}, cells |-> 0]
        BY <1>2, <2>1, <2>2
      <3> QED
        BY <1>7, <2>2, <3>1, Zenon
    <2>3. CASE q \in 1..Len(kv)
      <3>1. Append(PoolNow, e)[q] = [users |-> Holders(q), cells |-> kv[q]]
        BY <1>3, <1>7, <2>3 DEF PoolNow
      <3> QED
        BY <1>2, <1>3, <2>1, <2>3, <3>1
    <2> QED
      <3>1. q = Len(kv) + 1 \/ q \in 1..Len(kv)
        BY <1>1, SMT
      <3> QED
        BY <2>2, <2>3, <3>1
  <1>9. PoolNow' = Append(PoolNow, e)
    <2> HIDE DEF e
    <2> QED
      BY <1>5, <1>7, <1>8, SeqEqual
  <1>10. \A q \in DOMAIN PoolNow : f \notin PoolNow[q].users
    BY PoolShape
  <1>11. Pool!Assign(f)
    BY <1>9, <1>10 DEF Pool!Assign, PoolNow, Holders
  <1> QED
    BY <1>11 DEF Pool!Next

(* Sessions end.                                                           *)
LEMMA PoolRetires ==
    ASSUME NEW gone \in SUBSET Fds, DOMAIN kv' = DOMAIN kv,
           \A q \in DOMAIN kv :
               /\ Holders(q)' = Holders(q) \ gone
               /\ kv'[q] = IF Holders(q) \cap gone = {} THEN kv[q] ELSE 0
    PROVE  Pool!Next
  <1> DEFINE after == [q \in DOMAIN PoolNow |->
                          IF PoolNow[q].users \cap gone = {} THEN PoolNow[q]
                          ELSE [users |-> PoolNow[q].users \ gone, cells |-> 0]]
  <1>1. DOMAIN PoolNow = DOMAIN kv
    BY DEF PoolNow
  <1>2. ASSUME NEW q \in DOMAIN kv
        PROVE  PoolNow'[q] = IF PoolNow[q].users \cap gone = {} THEN PoolNow[q]
                             ELSE [users |-> PoolNow[q].users \ gone, cells |-> 0]
    <2>1. /\ PoolNow[q] = [users |-> Holders(q), cells |-> kv[q]]
          /\ PoolNow'[q] = [users |-> Holders(q)', cells |-> kv'[q]]
      BY DEF PoolNow
    <2>2. PoolNow[q].users = Holders(q)
      BY <2>1
    <2>3. Holders(q) \cap gone = {} => Holders(q) \ gone = Holders(q)
      OBVIOUS
    <2> QED
      BY <2>1, <2>2, <2>3, Zenon
  <1>3. PoolNow' = after
    <2>1. PoolNow' = [q \in DOMAIN kv |-> PoolNow'[q]]
      BY DEF PoolNow
    <2> QED
      BY <1>1, <1>2, <2>1
  <1>4. Pool!Retire(gone)
    BY <1>3 DEF Pool!Retire, PoolNow, Holders
  <1> QED
    BY <1>4 DEF Pool!Next

(* A batch adds cells to sequences in use, and empties those whose reply   *)
(* ended.                                                                  *)
LEMMA PoolUses ==
    ASSUME kv \in Seq(Nat), kv' \in Seq(Nat), DOMAIN kv' = DOMAIN kv,
           \A q \in DOMAIN kv :
               /\ Holders(q)' = Holders(q)
               /\ \/ kv'[q] = kv[q]
                  \/ Holders(q) # {} /\ (kv'[q] > kv[q] \/ kv'[q] = 0)
    PROVE  Pool!Next
  <1> DEFINE E == [users : SUBSET Fds, cells : Nat]
  <1>1. /\ PoolNow \in Seq(E) /\ Len(PoolNow) = Len(kv) /\ DOMAIN PoolNow = DOMAIN kv
        /\ \A q \in DOMAIN kv : PoolNow[q].users = Holders(q) /\ PoolNow[q].cells = kv[q]
    BY PoolShape
  <1>2. Len(kv') = Len(kv) /\ Len(kv) \in Nat /\ DOMAIN kv' = 1..Len(kv)
    BY LenProperties
  <1>3. PoolNow' \in Seq(E) /\ Len(PoolNow') = Len(kv)
    <2>1. \A q \in DOMAIN kv' : Holders(q)' \in SUBSET Fds /\ kv'[q] \in Nat
      BY DEF Holders, Live
    <2>2. PoolNow' \in [1..Len(kv) -> E]
      BY <1>2, <2>1 DEF PoolNow
    <2> QED
      BY <1>2, <2>2, AsSeq, Zenon
  <1>4. \A q \in DOMAIN kv : PoolNow'[q].users = Holders(q)' /\ PoolNow'[q].cells = kv'[q]
    BY DEF PoolNow
  <1>5. \A q \in DOMAIN PoolNow :
           /\ PoolNow'[q].users = PoolNow[q].users
           /\ \/ PoolNow'[q].cells = PoolNow[q].cells
              \/ /\ PoolNow[q].users # {}
                 /\ PoolNow'[q].cells > PoolNow[q].cells \/ PoolNow'[q].cells = 0
    BY <1>1, <1>4
  <1>6. Pool!Use
    BY <1>1, <1>3, <1>5 DEF Pool!Use, Pool!Entry, PoolNow, Holders
  <1> QED
    BY <1>6 DEF Pool!Next
-----------------------------------------------------------------------------
(*                           Steps of the daemon                           *)

(* Sessions keep their sequences; new ones have none.                      *)
LEMMA HoldersStay ==
    ASSUME TypeOK, kv' = kv,
           \A f \in Live : f \in Live' /\ sess'[f].seq = sess[f].seq,
           \A f \in Live' \ Live : sess'[f].seq = NoSeq
    PROVE  PoolNow' = PoolNow
  <1>1. \A q \in DOMAIN kv : q # NoSeq
    <2>1. kv \in Seq(Nat)
      BY DEF TypeOK
    <2> QED
      BY <2>1, LenProperties DEF NoSeq
  <1>2. \A q \in DOMAIN kv : Holders(q)' = Holders(q)
    BY <1>1 DEF Holders
  <1> QED
    BY <1>2, PoolStays

(* A handler of a live descriptor.                                         *)
LEMMA StoredPooled ==
    ASSUME Inv, NEW f \in Live, Stored(f)
    PROVE  Pool!Next \/ PoolNow' = PoolNow
  <1>1. PICK s \in Session, c \in Conn, int \in SUBSET {"R", "W"}, k \in Seq(Nat) :
          Outcome(f, s, c, int, k) /\ Store(f, s, c, int, k)
    BY DEF Stored
  <1>2. sess' = [sess EXCEPT ![f] = s] /\ kv' = k
    BY <1>1 DEF Store
  <1>3. TypeOK /\ sess \in [Fds -> Session] /\ kv \in Seq(Nat) /\ f \in Fds
    BY DEF Inv, TypeOK, Live
  <1>4. sess'[f] = s /\ \A g \in Fds \ {f} : sess'[g] = sess[g]
    BY <1>2, <1>3
  <1>5. Live \ {f} = Live' \ {f} /\ Live \subseteq Fds /\ Live' \subseteq Fds
    BY <1>4 DEF Live
  <1>6. DOMAIN kv = 1..Len(kv) /\ Len(kv) \in Nat /\ sess[f].seq \in Int
    BY <1>3, LenProperties, SessionFields
  <1>7. \/ s.state # "ABSENT" /\ s.seq = sess[f].seq /\ k = kv
        \/ s.state # "ABSENT" /\ s.seq = Len(kv) + 1 /\ k = Append(kv, 0) /\ sess[f].seq = NoSeq
        \/ s.state = "ABSENT" /\ k = SeqRm(kv, sess[f].seq)
    BY <1>1 DEF Outcome
  <1>8. CASE s.state # "ABSENT" /\ s.seq = sess[f].seq /\ k = kv
    <2>1. Live' = Live
      BY <1>3, <1>4, <1>5, <1>8 DEF Live
    <2>2. \A g \in Live : sess'[g].seq = sess[g].seq
      BY <1>4, <1>5, <1>8
    <2> QED
      BY <1>2, <1>3, <1>8, <2>1, <2>2, HoldersStay
  <1>9. CASE s.state # "ABSENT" /\ s.seq = Len(kv) + 1 /\ k = Append(kv, 0) /\ sess[f].seq = NoSeq
    <2>1. PICK n0 : n0 = Len(kv) + 1
      OBVIOUS
    <2>2. Live' = Live
      BY <1>3, <1>4, <1>5, <1>9 DEF Live
    <2>3. \A g \in Live : sess[g].seq = NoSeq \/ sess[g].seq \in DOMAIN kv
      BY DEF Inv, SequencesDistinct
    <2>4. n0 \notin DOMAIN kv /\ n0 # NoSeq /\ NoSeq \notin DOMAIN kv
      BY <1>6, <2>1 DEF NoSeq
    <2>5. \A q \in DOMAIN kv : f \notin Holders(q) /\ Holders(q)' = Holders(q)
      BY <1>4, <1>5, <1>9, <2>1, <2>2, <2>4 DEF Holders
    <2>6. Holders(n0)' = {f}
      BY <1>4, <1>5, <1>9, <2>1, <2>2, <2>3, <2>4 DEF Holders
    <2> QED
      BY <1>2, <1>3, <1>9, <2>1, <2>5, <2>6, PoolAssigns
  <1>10. CASE s.state = "ABSENT" /\ k = SeqRm(kv, sess[f].seq)
    <2>1. Live' = Live \ {f}
      BY <1>4, <1>5, <1>10 DEF Live
    <2>2. /\ k \in Seq(Nat) /\ Len(k) = Len(kv)
          /\ \A p \in 1..Len(kv) : k[p] = IF p = sess[f].seq THEN 0 ELSE kv[p]
      BY <1>3, <1>6, <1>10, SeqRmType
    <2>3. DOMAIN kv' = DOMAIN kv
      BY <1>2, <1>6, <2>2, LenProperties
    <2>4. ASSUME NEW q \in DOMAIN kv
          PROVE  /\ Holders(q)' = Holders(q) \ {f}
                 /\ kv'[q] = IF Holders(q) \cap {f} = {} THEN kv[q] ELSE 0
      <3>1. Holders(q)' = Holders(q) \ {f}
        BY <1>4, <1>5, <2>1 DEF Holders
      <3>2. Holders(q) \cap {f} = {} <=> q # sess[f].seq
        BY DEF Holders
      <3> QED
        BY <1>2, <1>6, <2>2, <3>1, <3>2
    <2>5. {f} \in SUBSET Fds
      BY <1>3
    <2> QED
      BY <2>3, <2>4, <2>5, PoolRetires
  <1> QED
    BY <1>7, <1>8, <1>9, <1>10

(* The idle sweep.                                                         *)
LEMMA SweepPooled ==
    ASSUME Inv, IdleSweep
    PROVE  Pool!Next
  <1> DEFINE gone == {f \in Live : sess[f].idle}
  <1>1. /\ sess' = [f \in Fds |-> IF f \in gone THEN Absent ELSE sess[f]]
        /\ kv' = [q \in DOMAIN kv |-> IF \E f \in gone : sess[f].seq = q THEN 0 ELSE kv[q]]
    BY DEF IdleSweep
  <1>2. gone \in SUBSET Fds /\ gone \subseteq Live /\ Live \subseteq Fds
    BY DEF Live
  <1> HIDE DEF gone
  <1>3. Live' = Live \ gone
    BY <1>1, <1>2 DEF Live, Absent, Fresh
  <1>4. \A f \in Live' : sess'[f] = sess[f]
    BY <1>1, <1>2, <1>3
  <1>5. ASSUME NEW q \in DOMAIN kv
        PROVE  /\ Holders(q)' = Holders(q) \ gone
               /\ kv'[q] = IF Holders(q) \cap gone = {} THEN kv[q] ELSE 0
    <2>1. Holders(q)' = Holders(q) \ gone
      BY <1>3, <1>4 DEF Holders
    <2>2. Holders(q) \cap gone = {} <=> ~\E f \in gone : sess[f].seq = q
      BY <1>2 DEF Holders
    <2> QED
      BY <1>1, <2>1, <2>2
  <1>6. DOMAIN kv' = DOMAIN kv
    BY <1>1
  <1> QED
    BY <1>2, <1>5, <1>6, PoolRetires

(* The sessions of the batch advance and their sequences change; nothing   *)
(* else does.                                                              *)
LEMMA TickShape ==
    ASSUME Inv, Tick
    PROVE  \E batch \in SUBSET Live, plan \in [Fds -> Nat] :
             /\ \A f \in batch : plan[f] > 0 /\ Advanced(sess[f], sess'[f])
             /\ \A f \in Fds \ batch : sess'[f] = sess[f]
             /\ kv' = kv \/ \E ended \in SUBSET batch : kv' = Cells(batch, plan, ended)
  <1> DEFINE v == PoolView
  <1>1. PICK plan \in Plans(v) :
          LET batch == {f \in Fds : plan[f] > 0} IN
          IF batch = {} THEN UNCHANGED <<sess, interest, kv, target>>
          ELSE DecodeOK(batch, plan) \/ DecodeFails(batch, plan)
    BY DEF Tick
  <1> DEFINE batch == {f \in Fds : plan[f] > 0}
  <1>2. plan \in [Fds -> Nat] /\ batch \in SUBSET Live
    BY PlanFacts
  <1>3. sess \in [Fds -> Session]
    BY DEF Inv, TypeOK
  <1>4. \A f \in batch : /\ f \in Fds /\ f \in Live /\ sess[f] \in Session /\ plan[f] \in Nat
                         /\ plan[f] > 0 /\ sess[f].state # "ABSENT"
    BY <1>2, <1>3, SMTT(60) DEF Live
  <1>5. \/ batch = {} /\ UNCHANGED <<sess, kv>>
        \/ DecodeOK(batch, plan) \/ DecodeFails(batch, plan)
    BY <1>1, SMTT(60)
  <1> HIDE DEF v, batch
  <1>6. SUFFICES /\ \A f \in batch : Advanced(sess[f], sess'[f])
                 /\ \A f \in Fds \ batch : sess'[f] = sess[f]
                 /\ kv' = kv \/ \E ended \in SUBSET batch : kv' = Cells(batch, plan, ended)
    BY <1>2, <1>4, ZenonT(60)
  <1>7. CASE batch = {} /\ UNCHANGED <<sess, kv>>
    BY <1>7
  <1>8. CASE DecodeOK(batch, plan)
    <2>1. PICK eog \in SUBSET batch, mute \in SUBSET batch, null \in SUBSET batch :
            LET new == [f \in Fds |->
                         IF f \notin batch THEN sess[f]
                         ELSE IF f \in null THEN Enacted(sess[f], plan[f])
                         ELSE Sampled(sess[f], plan[f], f \in eog, f \in mute)]
                over == {f \in batch \ null : new[f].state = "STREAM"}
            IN  sess' = new /\ kv' = Cells(batch, plan, over)
      BY <1>8, ZenonT(60) DEF DecodeOK
    <2> DEFINE over == {f \in batch \ null : sess'[f].state = "STREAM"}
    <2>2. /\ sess' = [f \in Fds |-> IF f \notin batch THEN sess[f]
                         ELSE IF f \in null THEN Enacted(sess[f], plan[f])
                         ELSE Sampled(sess[f], plan[f], f \in eog, f \in mute)]
          /\ kv' = Cells(batch, plan, over)
      BY <2>1, Zenon
    <2>3. ASSUME NEW f \in batch PROVE Advanced(sess[f], sess'[f])
      <3>1. f \in Fds /\ sess[f] \in Session /\ plan[f] \in Nat /\ sess[f].state # "ABSENT"
        BY <1>4
      <3>2. CASE f \in null
        <4>1. sess'[f] = Enacted(sess[f], plan[f])
          BY <2>2, <3>1, <3>2, SMTT(60)
        <4> QED
          BY <3>1, <4>1, EnactedType DEF Advanced
      <3>3. CASE f \notin null
        <4>1. sess'[f] = Sampled(sess[f], plan[f], f \in eog, f \in mute)
          BY <2>2, <3>1, <3>3, Zenon
        <4>2. Advanced(sess[f], Sampled(sess[f], plan[f], f \in eog, f \in mute))
          BY <3>1, SampledAdvances, Zenon
        <4> QED
          BY <4>1, <4>2, Zenon
      <3> QED
        BY <3>2, <3>3
    <2>4. \A f \in Fds \ batch : sess'[f] = sess[f]
      BY <2>2, SMTT(60)
    <2>5. over \in SUBSET batch
      BY SMTT(60)
    <2> QED
      BY <2>2, <2>3, <2>4, <2>5, Zenon
  <1>9. CASE DecodeFails(batch, plan)
    <2>1. /\ sess' = [f \in Fds |-> IF f \in batch THEN Failed(Enacted(sess[f], plan[f])) ELSE sess[f]]
          /\ kv' = kv \/ kv' = Cells(batch, plan, {})
      BY <1>9 DEF DecodeFails
    <2>2. \A f \in batch : Advanced(sess[f], sess'[f])
      BY <1>4, <2>1, FailedAdvances, SMTT(60)
    <2> QED
      BY <2>1, <2>2
  <1> QED
    BY <1>5, <1>7, <1>8, <1>9

(* The scheduler tick.                                                     *)
LEMMA TickPooled ==
    ASSUME Inv, Tick
    PROVE  Pool!Next
  <1>1. PICK batch \in SUBSET Live, plan \in [Fds -> Nat] :
             /\ \A f \in batch : plan[f] > 0 /\ Advanced(sess[f], sess'[f])
             /\ \A f \in Fds \ batch : sess'[f] = sess[f]
             /\ kv' = kv \/ \E ended \in SUBSET batch : kv' = Cells(batch, plan, ended)
    BY TickShape, Zenon
  <1>2. kv \in Seq(Nat) /\ Live \subseteq Fds
    BY DEF Inv, TypeOK, Live
  <1>3. kv' \in Seq(Nat) /\ DOMAIN kv' = DOMAIN kv
    BY <1>1, BatchCells, Zenon
  <1>4. \A f \in Live : sess'[f].state # "ABSENT" /\ sess'[f].seq = sess[f].seq
    BY <1>1, <1>2 DEF Advanced, Live
  <1>5. Live' = Live
    BY <1>1, <1>2, <1>4 DEF Live
  <1>6. ASSUME NEW q \in DOMAIN kv
        PROVE  /\ Holders(q)' = Holders(q)
               /\ \/ kv'[q] = kv[q]
                  \/ Holders(q) # {} /\ (kv'[q] > kv[q] \/ kv'[q] = 0)
    <2>1. Holders(q)' = Holders(q)
      BY <1>4, <1>5 DEF Holders
    <2>2. CASE kv' = kv
      BY <2>1, <2>2
    <2>3. ASSUME NEW ended \in SUBSET batch, kv' = Cells(batch, plan, ended)
          PROVE  kv'[q] = kv[q] \/ (Holders(q) # {} /\ (kv'[q] > kv[q] \/ kv'[q] = 0))
      <3> DEFINE own == {f \in batch : sess[f].seq = q}
                 g == CHOOSE h \in own : TRUE
      <3>1. kv'[q] = IF own = {} THEN kv[q] ELSE IF g \in ended THEN 0 ELSE kv[q] + plan[g]
        BY <2>3, Zenon DEF Cells
      <3>2. own \subseteq Holders(q) /\ own \subseteq batch
        BY DEF Holders
      <3>3. own # {} => g \in own
        BY Zenon
      <3> HIDE DEF own, g
      <3>4. CASE own = {}
        BY <3>1, <3>4
      <3>5. CASE own # {}
        <4>1. g \in batch /\ Holders(q) # {} /\ plan[g] \in Nat /\ plan[g] > 0 /\ kv[q] \in Nat
          BY <1>1, <1>2, <3>2, <3>3, <3>5
        <4>2. kv'[q] = 0 \/ kv'[q] = kv[q] + plan[g]
          BY <3>1, <3>5
        <4> QED
          BY <4>1, <4>2
      <3> QED
        BY <3>4, <3>5
    <2> QED
      BY <1>1, <2>1, <2>2, <2>3
  <1> QED
    BY <1>2, <1>3, <1>6, PoolUses

LEMMA NextPooled ==
    ASSUME Inv, [Next]_vars
    PROVE  Pool!Next \/ PoolNow' = PoolNow
  <1>1. TypeOK /\ sess \in [Fds -> Session]
    BY DEF Inv, TypeOK
  <1>2. ASSUME UNCHANGED <<sess, kv>> PROVE PoolNow' = PoolNow
    BY <1>2 DEF PoolNow, Holders, Live
  <1>3. \/ UNCHANGED vars \/ Connect \/ Signal \/ WaitTimeout \/ WaitFails \/ Check \/ Wait
        \/ AcceptFails \/ \E f \in Fds : Client(f)
        => UNCHANGED <<sess, kv>>
    BY ZenonT(60) DEF vars, Connect, Signal, WaitTimeout, WaitFails, Check, Wait, PollReturns, AcceptFails,
       Client, Send, Receive, HalfClose, Disconnect
  <1>4. ASSUME NEW f \in Fds, GrowIdle(f) PROVE PoolNow' = PoolNow
    <2>1. kv' = kv /\ sess' = [sess EXCEPT ![f].idle = TRUE]
      BY <1>4 DEF GrowIdle
    <2>2. \A g \in Fds : sess'[g].state = sess[g].state /\ sess'[g].seq = sess[g].seq
      BY <1>1, <2>1 DEF Session
    <2>3. Live' = Live /\ Live \subseteq Fds
      BY <2>2 DEF Live
    <2> QED
      BY <1>1, <2>1, <2>2, <2>3, HoldersStay
  <1>5. ASSUME NEW f \in Fds, ReadEvent(f) \/ WriteEvent(f)
        PROVE  Pool!Next \/ PoolNow' = PoolNow
    <2>1. f \in Live
      BY <1>5 DEF ReadEvent, WriteEvent, Inv, EventsCurrent
    <2>2. conn[f] \in Conn /\ Len(conn[f].out) <= SndCap
      BY DEF Inv, TypeOK, SocketBounded
    <2>3. CASE ReadEvent(f)
      <3>1. ReadOK(f) \/ ReadFails(f)
        BY <2>1, <2>3 DEF ReadEvent
      <3> QED
        BY <2>1, <3>1, ReadOKStored, ReadFailsStored, StoredPooled, SMTT(60)
    <2>4. CASE WriteEvent(f)
      <3>1. Close(f, conn[f], sess[f].seq, kv) \/ (WriteSome(f) /\ "W" \in interest[f])
        BY <2>1, <2>4 DEF WriteEvent, Inv, ReadyArmed
      <3> QED
        BY <1>1, <2>1, <2>2, <3>1, CloseStored, WriteSomeStored, StoredPooled, SMTT(60)
    <2> QED
      BY <1>5, <2>3, <2>4
  <1>6. ASSUME Accept PROVE PoolNow' = PoolNow
    <2>1. kv' = kv
      BY <1>6 DEF Accept
    <2>2. CASE sess' = sess
      BY <1>2, <2>1, <2>2
    <2>3. ASSUME NEW f \in Fds \ Live, sess' = [sess EXCEPT ![f] = Fresh]
          PROVE  PoolNow' = PoolNow
      <3>1. sess'[f] = Fresh /\ \A g \in Fds \ {f} : sess'[g] = sess[g]
        BY <1>1, <2>3
      <3>2. Fresh.seq = NoSeq
        BY DEF Fresh
      <3>3. \A g \in Live : g \in Live' /\ sess'[g].seq = sess[g].seq
        BY <3>1 DEF Live
      <3>4. \A g \in Live' \ Live : sess'[g].seq = NoSeq
        BY <3>1, <3>2 DEF Live
      <3> QED
        BY <1>1, <2>1, <3>3, <3>4, HoldersStay
    <2> QED
      BY <1>6, <2>2, <2>3 DEF Accept
  <1> QED
    BY <1>2, <1>3, <1>4, <1>5, <1>6, SweepPooled, TickPooled, ZenonT(60) DEF Next, Loop

(* umad uses llama sequences as SequencePool prescribes, for any number of *)
(* sessions and any failure: each sequence has one user, holds cells only  *)
(* while it has that user, and is never used again after it                *)
(* (session_manager.cpp:30-46, 300; scheduler.cpp:283-306).                *)
THEOREM SequencesAlwaysPooled == Spec => SequencesPooled
  <1>1. Init => Pool!Init
    BY DEF Init, Pool!Init
  <1>2. Inv /\ [Next]_vars => Pool!Next \/ PoolNow' = PoolNow
    BY NextPooled
  <1>3. Inv /\ [Next]_vars => [Pool!Next]_PoolNow
    BY <1>2
  <1> QED
    BY <1>1, <1>3, InvAlways, PTL DEF Spec, SequencesPooled, Pool!Spec, PoolNow, Holders
=============================================================================
