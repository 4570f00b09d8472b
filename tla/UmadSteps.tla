----------------------------- MODULE UmadSteps ------------------------------
(***************************************************************************)
(* Every step of module Umad other than the scheduler tick keeps the       *)
(* inductive invariant of UmadLemmas.                                      *)
(***************************************************************************)
EXTENDS UmadLemmas

(* A set of sessions that only shrinks stays within the limit.             *)
LEMMA LiveShrinks ==
    ASSUME SessionsBounded, Live' \subseteq Live
    PROVE  SessionsBounded'
  <1>1. IsFiniteSet(Live)
    BY Constants, FS_Subset DEF Live
  <1>2. Cardinality(Live') <= Cardinality(Live)
    BY <1>1, FS_Subset
  <1>3. IsFiniteSet(Live')
    BY <1>1, FS_Subset
  <1>4. Cardinality(Live') \in Nat /\ Cardinality(Live) \in Nat
    BY <1>1, <1>3, FS_CardinalityType
  <1> HIDE DEF Live
  <1> QED
    BY <1>2, <1>4, Constants DEF SessionsBounded

(* Handling one event of f keeps the invariant.                            *)
LEMMA StoredStep ==
    ASSUME NEW f \in Live, Inv, Stored(f),
           readyR' \subseteq readyR, readyW' \subseteq readyW, f \notin readyR' \cup readyW',
           UNCHANGED <<order, backlog, pc, readyL, newborn, schedVars, shutdown>>
    PROVE  Inv'
  <1>1. PICK s \in Session, c \in Conn, int \in SUBSET {"R", "W"}, k \in Seq(Nat) :
          Outcome(f, s, c, int, k) /\ Store(f, s, c, int, k)
    BY DEF Stored
  <1>2. /\ sess' = [sess EXCEPT ![f] = s] /\ conn' = [conn EXCEPT ![f] = c]
        /\ interest' = [interest EXCEPT ![f] = int] /\ kv' = k
    BY <1>1 DEF Store
  <1>3. TypeOK /\ f \in Fds /\ sess[f].state # "ABSENT"
    BY DEF Inv, Live
  <1>4. TypeOK'
    BY <1>2, <1>3 DEF TypeOK, schedVars
  <1>5. /\ sess'[f] = s /\ conn'[f] = c /\ interest'[f] = int
        /\ \A g \in Fds \ {f} : sess'[g] = sess[g] /\ conn'[g] = conn[g] /\ interest'[g] = interest[g]
    BY <1>2, <1>3 DEF TypeOK
  <1>6. /\ f \in Live' <=> s.state # "ABSENT"
        /\ \A g \in Fds \ {f} : g \in Live' <=> g \in Live
    BY <1>3, <1>5 DEF Live
  <1>7. SessionsBounded'
    <2>1. Live' \subseteq Live
      BY <1>3, <1>6 DEF Live
    <2> QED
      BY <2>1, LiveShrinks DEF Inv
  <1>8. DOMAIN kv = 1..Len(kv) /\ Len(kv) \in Nat /\ kv \in Seq(Nat) /\ DOMAIN k = 1..Len(k)
    BY <1>3, LenProperties DEF TypeOK
  <1>9. sess[f].seq \in Int
    BY <1>3, SessionFields DEF TypeOK
  <1>10. \/ s.state = "ABSENT" /\ k = SeqRm(kv, sess[f].seq)
         \/ s.state # "ABSENT" /\ s.seq = sess[f].seq /\ k = kv
         \/ s.state # "ABSENT" /\ s.seq = Len(kv) + 1 /\ k = Append(kv, 0) /\ sess[f].seq = NoSeq
    BY <1>1 DEF Outcome
  <1>11. SequencesDistinct /\ NoOrphanCells
    BY DEF Inv
  <1>12. SequencesDistinct' /\ NoOrphanCells'
    <2>1. CASE s.state = "ABSENT" /\ k = SeqRm(kv, sess[f].seq)
      <3>1. Live' = Live \ {f}
        BY <1>6, <2>1 DEF Live
      <3>2. DOMAIN kv' = DOMAIN kv
        BY <1>2, <1>8, <1>9, <2>1, SeqRmType, SMTT(60)
      <3>3. \A q \in DOMAIN kv : kv'[q] = IF q = sess[f].seq THEN 0 ELSE kv[q]
        BY <1>2, <1>8, <1>9, <2>1, SeqRmType, SMTT(60)
      <3>4. \A g \in Live' : sess'[g] = sess[g] /\ g # f /\ g \in Live
        BY <1>5, <3>1 DEF Live
      <3>5. SequencesDistinct'
        BY <1>11, <3>2, <3>4 DEF SequencesDistinct
      <3>6. ASSUME NEW q \in DOMAIN kv, kv'[q] > 0
            PROVE  \E g \in Live' : sess'[g].seq = q
        <4>1. q # sess[f].seq /\ kv[q] > 0
          BY <3>3, <3>6
        <4>2. PICK g \in Live : sess[g].seq = q
          BY <1>11, <4>1 DEF NoOrphanCells
        <4>3. g \in Live' /\ sess'[g] = sess[g]
          BY <3>1, <3>4, <4>1, <4>2, SMTT(60)
        <4> QED
          BY <4>2, <4>3
      <3> QED
        BY <3>2, <3>5, <3>6 DEF NoOrphanCells
    <2>2. CASE s.state # "ABSENT" /\ s.seq = sess[f].seq /\ k = kv
      <3>1. Live' = Live
        BY <1>3, <1>6, <2>2, SMTT(60) DEF Live
      <3>2. \A g \in Live : sess'[g].seq = sess[g].seq
        BY <1>5, <2>2 DEF Live
      <3>3. kv' = kv
        BY <1>2, <2>2
      <3> QED
        BY <1>11, <3>1, <3>2, <3>3, SMTT(60) DEF SequencesDistinct, NoOrphanCells
    <2>3. CASE s.state # "ABSENT" /\ s.seq = Len(kv) + 1 /\ k = Append(kv, 0) /\ sess[f].seq = NoSeq
      <3>1. Live' = Live
        BY <1>3, <1>6, <2>3, SMTT(60) DEF Live
      <3>2. /\ sess'[f].seq = Len(kv) + 1
            /\ \A g \in Live \ {f} : sess'[g].seq = sess[g].seq
        BY <1>5, <2>3, SMTT(60) DEF Live
      <3>3. /\ DOMAIN kv' = 1..(Len(kv) + 1) /\ kv'[Len(kv) + 1] = 0
            /\ \A q \in DOMAIN kv : kv'[q] = kv[q]
        BY <1>2, <1>8, <2>3, AppendProperties, SMTT(60)
      <3>4. \A g \in Live : sess[g].seq # NoSeq => sess[g].seq \in 1..Len(kv)
        BY <1>8, <1>11 DEF SequencesDistinct
      <3>5. ASSUME NEW g \in Live, sess'[g].seq # NoSeq
            PROVE  /\ sess'[g].seq \in DOMAIN kv'
                   /\ \A h \in Live \ {g} : sess'[h].seq # sess'[g].seq
        <4>1. CASE g = f
          <5>1. \A h \in Live \ {f} : sess'[h].seq # Len(kv) + 1
            BY <1>8, <3>2, <3>4, SMTT(60) DEF NoSeq
          <5> QED
            BY <1>8, <3>2, <3>3, <4>1, <5>1, SMTT(60)
        <4>2. CASE g # f
          <5>1. sess[g].seq \in 1..Len(kv) /\ sess'[g].seq = sess[g].seq
            BY <3>2, <3>4, <3>5, <4>2, SMTT(60)
          <5>2. \A h \in Live \ {g} : sess[h].seq # sess[g].seq
            BY <1>11, <3>2, <3>5, <4>2, SMTT(60) DEF SequencesDistinct
          <5>3. sess'[f].seq # sess[g].seq
            BY <1>8, <3>2, <5>1
          <5> QED
            BY <1>8, <3>2, <3>3, <5>1, <5>2, <5>3, SMTT(60)
        <4> QED
          BY <4>1, <4>2, SMTT(60)
      <3>6. ASSUME NEW q \in DOMAIN kv', kv'[q] > 0
            PROVE  \E g \in Live : sess'[g].seq = q
        <4>1. q \in DOMAIN kv /\ kv[q] > 0
          BY <1>8, <3>3, <3>6
        <4>2. PICK g \in Live : sess[g].seq = q
          BY <1>11, <4>1 DEF NoOrphanCells
        <4>3. g # f
          BY <1>8, <2>3, <4>1, <4>2 DEF NoSeq
        <4> QED
          BY <3>2, <4>2, <4>3
      <3> QED
        BY <3>1, <3>5, <3>6, SMTT(60) DEF SequencesDistinct, NoOrphanCells
    <2> QED
      BY <1>10, <2>1, <2>2, <2>3
  <1>13. EventsCurrent'
    <2>1. /\ readyR \cup readyW \subseteq Live \ newborn /\ readyR \cap readyW = {}
          /\ \A g \in Fds : interest[g] # {} => g \in Live
      BY DEF Inv, EventsCurrent
    <2>2. readyR' \cup readyW' \subseteq Live' \ newborn'
      BY <1>6, <2>1 DEF Live
    <2>3. \A g \in Fds : interest'[g] # {} => g \in Live'
      BY <1>1, <1>5, <1>6, <2>1, Zenon DEF Outcome
    <2> QED
      BY <2>1, <2>2, <2>3 DEF EventsCurrent
  <1>14. TxArmed'
    <2>1. s.state # "ABSENT" /\ s.tx # <<>> /\ "W" \notin int => Unarmed(s.tx)
      BY <1>1 DEF Outcome
    <2>2. \A g \in Live : sess[g].tx # <<>> /\ "W" \notin interest[g] => Unarmed(sess[g].tx)
      BY DEF Inv, TxArmed, Unarmed
    <2>3. \A g \in Live' : sess'[g].tx # <<>> /\ "W" \notin interest'[g] => Unarmed(sess'[g].tx)
      BY <1>5, <1>6, <2>1, <2>2 DEF Live
    <2> QED
      BY <2>3 DEF TxArmed, Unarmed
  <1>15. ReadyArmed'
    BY <1>5, SMTT(60) DEF Inv, ReadyArmed, TypeOK
  <1>16. SocketBounded'
    BY <1>1, <1>5 DEF Inv, SocketBounded, Outcome
  <1>17. AcceptReady'
    BY DEF Inv, AcceptReady
  <1> QED
    BY <1>4, <1>7, <1>12, <1>13, <1>14, <1>15, <1>16, <1>17, SMTT(60) DEF Inv

(* A readable event.                                                       *)
LEMMA ReadEventStep ==
    ASSUME NEW f \in Fds, Inv, ReadEvent(f)
    PROVE  Inv'
  <1>1. /\ f \in readyR /\ readyR' = readyR \ {f} /\ readyW' = readyW
        /\ UNCHANGED <<order, backlog, pc, readyL, newborn, schedVars, shutdown>>
    BY DEF ReadEvent
  <1>2. f \in Live /\ f \notin readyW
    BY <1>1 DEF Inv, EventsCurrent
  <1>3. ReadOK(f) \/ ReadFails(f)
    BY <1>2 DEF ReadEvent
  <1>4. Stored(f)
    BY <1>2, <1>3, ReadOKStored, ReadFailsStored, SMTT(60)
  <1> QED
    BY <1>1, <1>2, <1>4, StoredStep, SMTT(60)

(* A writable event.                                                       *)
LEMMA WriteEventStep ==
    ASSUME NEW f \in Fds, Inv, WriteEvent(f)
    PROVE  Inv'
  <1>1. /\ f \in readyW /\ readyW' = readyW \ {f} /\ readyR' = readyR
        /\ UNCHANGED <<order, backlog, pc, readyL, newborn, schedVars, shutdown>>
    BY DEF WriteEvent
  <1>2. f \in Live /\ f \notin readyR /\ "W" \in interest[f]
    BY <1>1 DEF Inv, EventsCurrent, ReadyArmed
  <1>3. Close(f, conn[f], sess[f].seq, kv) \/ WriteSome(f)
    BY <1>2 DEF WriteEvent
  <1>4. conn[f] \in Conn /\ Len(conn[f].out) <= SndCap /\ TypeOK
    BY DEF Inv, TypeOK, SocketBounded
  <1>5. Stored(f)
    BY <1>2, <1>3, <1>4, CloseStored, WriteSomeStored
  <1> QED
    BY <1>1, <1>2, <1>5, StoredStep, SMTT(60)
-----------------------------------------------------------------------------
(*                       The other steps of the loop                       *)

(* Steps that leave the sessions, their cells and their filters alone.     *)
LEMMA QuietStep ==
    ASSUME Inv, UNCHANGED <<sess, kv, interest>>,
           TypeOK', SocketBounded', AcceptReady', ReadyArmed',
           readyR' \cup readyW' \subseteq Live \ newborn', readyR' \cap readyW' = {}
    PROVE  Inv'
  <1>1. Live' = Live
    BY DEF Live
  <1>2. SessionsBounded' /\ SequencesDistinct' /\ NoOrphanCells' /\ TxArmed'
    BY <1>1 DEF Inv, SessionsBounded, SequencesDistinct, NoOrphanCells, TxArmed
  <1>3. EventsCurrent'
    BY <1>1 DEF Inv, EventsCurrent
  <1> QED
    BY <1>2, <1>3 DEF Inv

(* Client steps change sockets and nothing else.                           *)
LEMMA ClientStep ==
    ASSUME NEW f \in Fds, Inv, Client(f)
    PROVE  Inv'
  <1>1. /\ conn \in [Fds -> Conn] /\ conn[f] \in Conn
        /\ Len(conn[f].out) <= SndCap /\ TypeOK
    BY SMTT(60) DEF Inv, TypeOK, SocketBounded
  <1>2. UNCHANGED <<sess, order, kv, interest, backlog, loopVars, schedVars, shutdown>>
    BY Zenon DEF Client, Send, Receive, HalfClose, Disconnect
  <1>3. \E c \in Conn : conn' = [conn EXCEPT ![f] = c] /\ Len(c.out) <= SndCap
    <2>1. ASSUME NEW o \in Offers, Send(f, o)
          PROVE  \E c \in Conn : conn' = [conn EXCEPT ![f] = c] /\ Len(c.out) <= SndCap
      <3> DEFINE m == [kind |-> o.kind, id |-> conn[f].sent + 1, n |-> o.n]
                 c == [conn[f] EXCEPT !.sent = conn[f].sent + 1, !.in = Append(conn[f].in, m)]
      <3>1. o.kind \in Kinds /\ o.n \in Nat
        BY UmadAssumption
      <3>2. m \in Frame
        BY <1>1, <3>1, ConnFields DEF Frame
      <3>3. Append(conn[f].in, m) \in Seq(Frame)
        BY <1>1, <3>2, ConnFields, AppendProperties, SMTT(60)
      <3>4. conn' = [conn EXCEPT ![f] = c]
        BY <1>1, <2>1, Zenon DEF Send, Conn
      <3> DEFINE in == Append(conn[f].in, m)
                 sent == conn[f].sent + 1
      <3>5. sent \in Nat
        BY <1>1, ConnFields
      <3>6. c = [conn[f] EXCEPT !.sent = sent, !.in = in]
        OBVIOUS
      <3> HIDE DEF c, in, sent
      <3>7. c \in Conn /\ c.out = conn[f].out
        BY <1>1, <3>3, <3>5, <3>6, Zenon DEF Conn, in
      <3> QED
        BY <1>1, <3>4, <3>7, ZenonT(60)
    <2>2. ASSUME Receive(f)
          PROVE  \E c \in Conn : conn' = [conn EXCEPT ![f] = c] /\ Len(c.out) <= SndCap
      <3> DEFINE e == IF Terminal(Head(conn[f].out)) THEN conn[f].ended + 1 ELSE conn[f].ended
                 n == IF Terminal(Head(conn[f].out)) THEN 0 ELSE conn[f].ntok + 1
                 c == [conn[f] EXCEPT !.out = Tail(conn[f].out), !.ended = e, !.ntok = n]
      <3>1. conn[f].out \in Seq(Event) /\ conn[f].out # <<>> /\ Len(conn[f].out) \in Nat
        BY <1>1, <2>2, ConnFields DEF Receive
      <3>2. Tail(conn[f].out) \in Seq(Event) /\ Len(Tail(conn[f].out)) = Len(conn[f].out) - 1
        BY <3>1, HeadTailProperties
      <3>3. e \in Nat /\ n \in Nat
        BY <1>1, ConnFields, SMTT(60)
      <3>4. conn' = [conn EXCEPT ![f] = c]
        BY <1>1, <2>2, Zenon DEF Receive, Conn
      <3> HIDE DEF e, n
      <3>5. c \in Conn /\ c.out = Tail(conn[f].out)
        BY <1>1, <3>2, <3>3, Zenon DEF Conn
      <3>6. Len(Tail(conn[f].out)) <= SndCap
        BY <1>1, <3>1, <3>2, Constants
      <3> QED
        BY <3>4, <3>5, <3>6, Zenon
    <2>3. ASSUME HalfClose(f)
          PROVE  \E c \in Conn : conn' = [conn EXCEPT ![f] = c] /\ Len(c.out) <= SndCap
      <3> DEFINE c == [conn[f] EXCEPT !.peer = "shut"]
      <3>1. conn' = [conn EXCEPT ![f] = c] /\ c \in Conn /\ c.out = conn[f].out
        BY <1>1, <2>3, Zenon DEF HalfClose, Conn
      <3> QED
        BY <1>1, <3>1, Zenon
    <2>4. ASSUME Disconnect(f)
          PROVE  \E c \in Conn : conn' = [conn EXCEPT ![f] = c] /\ Len(c.out) <= SndCap
      <3> DEFINE c == [conn[f] EXCEPT !.peer = "gone", !.out = <<>>]
      <3>1. <<>> \in Seq(Event) /\ Len(<<>>) <= SndCap
        BY Constants
      <3>2. conn' = [conn EXCEPT ![f] = c] /\ c \in Conn /\ c.out = <<>>
        BY <1>1, <2>4, <3>1, Zenon DEF Disconnect, Conn
      <3> QED
        BY <3>1, <3>2, Zenon
    <2> QED
      BY <2>1, <2>2, <2>3, <2>4 DEF Client
  <1>4. PICK c \in Conn : conn' = [conn EXCEPT ![f] = c] /\ Len(c.out) <= SndCap
    BY <1>3, Zenon
  <1>5. TypeOK'
    BY <1>1, <1>2, <1>4 DEF TypeOK, loopVars, schedVars
  <1>6. SocketBounded'
    BY <1>1, <1>4 DEF Inv, SocketBounded
  <1>7. /\ AcceptReady' /\ ReadyArmed' /\ readyR' \cup readyW' \subseteq Live \ newborn'
        /\ readyR' \cap readyW' = {}
    BY <1>2 DEF Inv, AcceptReady, ReadyArmed, EventsCurrent, loopVars
  <1> QED
    BY <1>2, <1>5, <1>6, <1>7, QuietStep, SMTT(60)

(* Steps that only move the loop or its environment.                       *)
LEMMA LoopStep ==
    ASSUME Inv, \/ Connect \/ Signal \/ WaitTimeout \/ WaitFails \/ Check \/ Wait \/ AcceptFails
    PROVE  Inv'
  <1>1. TypeOK /\ SocketBounded /\ AcceptReady /\ ReadyArmed /\ EventsCurrent
    BY DEF Inv
  <1>2. CASE Connect
    <2>1. TypeOK' /\ AcceptReady'
      BY <1>1, <1>2 DEF Connect, TypeOK, AcceptReady, loopVars, schedVars
    <2> QED
      BY <1>1, <1>2, <2>1, QuietStep, SMTT(60)
         DEF Connect, SocketBounded, ReadyArmed, EventsCurrent, loopVars
  <1>3. CASE Signal \/ WaitFails \/ Check \/ AcceptFails
    <2>1. /\ UNCHANGED <<sess, order, kv, interest, conn, backlog, readyR, readyW, newborn, schedVars>>
          /\ readyL' \in BOOLEAN /\ (readyL' => readyL)
          /\ pc' \in {pc, "check", "wait", "exit"} /\ shutdown' \in BOOLEAN
      <3>1. readyL \in BOOLEAN /\ shutdown \in BOOLEAN
        BY <1>1 DEF TypeOK
      <3>2. CASE Signal
        BY <3>1, <3>2, Zenon DEF Signal
      <3>3. CASE WaitFails
        BY <3>1, <3>3, Zenon DEF WaitFails
      <3>4. CASE Check
        BY <3>1, <3>4, Zenon DEF Check
      <3>5. CASE AcceptFails
        BY <3>1, <3>5, Zenon DEF AcceptFails
      <3> QED
        BY <1>3, <3>2, <3>3, <3>4, <3>5, SMTT(60)
    <2>2. TypeOK'
      BY <1>1, <2>1 DEF TypeOK, schedVars
    <2>3. AcceptReady' /\ SocketBounded' /\ ReadyArmed'
      BY <1>1, <2>1 DEF AcceptReady, SocketBounded, ReadyArmed
    <2> QED
      BY <1>1, <2>1, <2>2, <2>3, QuietStep, SMTT(60) DEF EventsCurrent
  <1>4. CASE PollReturns
    <2>1. /\ UNCHANGED <<sess, order, kv, interest, conn, backlog, schedVars, shutdown>>
          /\ pc' = "events" /\ readyL' = (backlog > 0) /\ newborn' = {}
          /\ readyR' = {f \in Fds : "R" \in interest[f] /\ Readable(f)}
          /\ readyW' = {f \in Fds : "W" \in interest[f] /\ Writable(f)} \ readyR'
      BY <1>4 DEF PollReturns
    <2>2. TypeOK'
      BY <1>1, <2>1 DEF TypeOK, schedVars
    <2>3. AcceptReady' /\ SocketBounded' /\ ReadyArmed'
      BY <1>1, <2>1, Zenon DEF AcceptReady, SocketBounded, ReadyArmed
    <2>4. readyR' \cup readyW' \subseteq Live \ newborn' /\ readyR' \cap readyW' = {}
      BY <1>1, <2>1 DEF EventsCurrent
    <2> QED
      BY <2>1, <2>2, <2>3, <2>4, QuietStep, SMTT(60)
  <1> QED
    BY <1>2, <1>3, <1>4 DEF Wait, WaitTimeout

(* Only the idle flag of a session changes.                                *)
LEMMA GrowIdleStep ==
    ASSUME NEW f \in Fds, Inv, GrowIdle(f)
    PROVE  Inv'
  <1>1. /\ f \in Live /\ sess' = [sess EXCEPT ![f].idle = TRUE]
        /\ UNCHANGED <<order, kv, interest, conn, backlog, loopVars, schedVars, shutdown>>
    BY DEF GrowIdle
  <1>2. TypeOK
    BY DEF Inv
  <1>3. sess' \in [Fds -> Session]
    <2> DEFINE s == [sess[f] EXCEPT !.idle = TRUE]
    <2>1. sess[f] \in Session /\ sess \in [Fds -> Session]
      BY <1>2 DEF TypeOK
    <2>2. s \in Session
      BY <2>1, Zenon DEF Session
    <2>3. sess' = [sess EXCEPT ![f] = s]
      BY <1>1, <2>1
    <2> HIDE DEF s
    <2> QED
      BY <2>1, <2>2, <2>3
  <1>4. \A g \in Fds : /\ sess'[g].state = sess[g].state /\ sess'[g].seq = sess[g].seq
                        /\ sess'[g].tx = sess[g].tx
    BY <1>1, <1>2, ZenonT(60) DEF TypeOK, Session
  <1>5. Live' = Live /\ Live \subseteq Fds
    BY <1>4 DEF Live
  <1>6. TypeOK'
    BY <1>1, <1>2, <1>3 DEF TypeOK, loopVars, schedVars
  <1>7. SessionsBounded' /\ SequencesDistinct' /\ NoOrphanCells'
    BY <1>1, <1>4, <1>5 DEF Inv, SessionsBounded, SequencesDistinct, NoOrphanCells
  <1>8. TxArmed'
    BY <1>1, <1>4, <1>5, SMTT(60) DEF Inv, TxArmed
  <1>9. EventsCurrent' /\ ReadyArmed' /\ SocketBounded' /\ AcceptReady'
    BY <1>1, <1>5 DEF Inv, EventsCurrent, ReadyArmed, SocketBounded, AcceptReady, loopVars
  <1> QED
    BY <1>6, <1>7, <1>8, <1>9 DEF Inv

(* A connection is accepted, or turned away at the limit.                  *)
LEMMA AcceptStep ==
    ASSUME Inv, Accept
    PROVE  Inv'
  <1>1. /\ readyL /\ readyL' = FALSE /\ backlog' = backlog - 1
        /\ UNCHANGED <<kv, pc, readyR, readyW, schedVars, shutdown>>
    BY DEF Accept
  <1>2. TypeOK /\ EventsCurrent /\ ReadyArmed /\ SocketBounded
    BY DEF Inv
  <1>3. backlog' \in Nat
    BY <1>1 DEF Inv, TypeOK, AcceptReady
  <1>4. CASE UNCHANGED <<sess, order, interest, conn, newborn>>
    <2>1. TypeOK'
      BY <1>1, <1>2, <1>3, <1>4, Zenon DEF TypeOK, schedVars
    <2>2. AcceptReady' /\ SocketBounded' /\ ReadyArmed'
      BY <1>1, <1>2, <1>4 DEF AcceptReady, SocketBounded, ReadyArmed
    <2> QED
      BY <1>1, <1>2, <1>4, <2>1, <2>2, QuietStep, SMTT(60) DEF EventsCurrent
  <1>5. CASE /\ ~(Cardinality(Live) >= MaxSessions)
             /\ \E f \in Fds \ Live :
                  /\ sess' = [sess EXCEPT ![f] = Fresh]
                  /\ order' \in Orders
                  /\ interest' = [interest EXCEPT ![f] = {"R"}]
                  /\ conn' = [conn EXCEPT ![f] = [NoConn EXCEPT !.peer = "open"]]
                  /\ newborn' = newborn \cup {f}
    <2>1. PICK f \in Fds \ Live :
                  /\ sess' = [sess EXCEPT ![f] = Fresh]
                  /\ order' \in Orders
                  /\ interest' = [interest EXCEPT ![f] = {"R"}]
                  /\ conn' = [conn EXCEPT ![f] = [NoConn EXCEPT !.peer = "open"]]
                  /\ newborn' = newborn \cup {f}
      BY <1>5, Zenon
    <2> DEFINE c == [NoConn EXCEPT !.peer = "open"]
    <2>2. c \in Conn /\ c.out = <<>>
      BY FreshType, Zenon DEF NoConn, Conn
    <2>3. Fresh \in Session /\ Fresh.state = "RECV_REQ" /\ Fresh.tx = <<>> /\ Fresh.seq = NoSeq
      BY FreshType DEF Fresh
    <2> HIDE DEF c
    <2>4. TypeOK'
      BY <1>1, <1>2, <1>3, <2>1, <2>2, <2>3, Zenon DEF TypeOK, schedVars, c
    <2>5. /\ sess'[f] = Fresh /\ interest'[f] = {"R"} /\ conn'[f] = c
          /\ \A g \in Fds \ {f} : sess'[g] = sess[g] /\ interest'[g] = interest[g] /\ conn'[g] = conn[g]
      BY <1>2, <2>1 DEF TypeOK, c
    <2>6. Live' = Live \cup {f} /\ f \notin Live
      BY <2>1, <2>3, <2>5 DEF Live
    <2>7. SessionsBounded'
      <3>1. IsFiniteSet(Live)
        BY Constants, FS_Subset, SMTT(60) DEF Live
      <3>2. Cardinality(Live) \in Nat /\ Cardinality(Live') = Cardinality(Live) + 1
        BY <2>6, <3>1, FS_CardinalityType, FS_AddElement, ZenonT(60)
      <3> QED
        BY <1>5, <3>2, Constants, SMTT(60) DEF SessionsBounded
    <2>8. \A g \in Live : sess'[g] = sess[g] /\ g # f /\ g \in Fds
      BY <2>5, <2>6 DEF Live
    <2>9. SequencesDistinct'
      BY <1>1, <2>3, <2>5, <2>6, <2>8 DEF Inv, SequencesDistinct
    <2>10. NoOrphanCells'
      BY <1>1, <2>6, <2>8, SMTT(60) DEF Inv, NoOrphanCells
    <2>11. EventsCurrent'
      BY <1>1, <1>2, <2>1, <2>5, <2>6, SMTT(60) DEF EventsCurrent
    <2>12. TxArmed'
      <3>1. \A g \in Live : interest'[g] = interest[g]
        BY <2>5, <2>8, SMTT(60)
      <3> QED
        BY <2>3, <2>5, <2>6, <2>8, <3>1, SMTT(60) DEF Inv, TxArmed
    <2>13. ReadyArmed'
      BY <1>1, <1>2, <2>5, <2>6, SMTT(60) DEF ReadyArmed, EventsCurrent, TypeOK
    <2>14. SocketBounded'
      BY <1>2, <2>2, <2>5, Constants, SMTT(60) DEF SocketBounded
    <2>15. AcceptReady'
      BY <1>1 DEF AcceptReady
    <2> QED
      BY <2>4, <2>7, <2>9, <2>10, <2>11, <2>12, <2>13, <2>14, <2>15 DEF Inv
  <1> QED
    BY <1>4, <1>5 DEF Accept

(* The idle sweep closes any set of sessions.                              *)
LEMMA IdleSweepStep ==
    ASSUME Inv, IdleSweep
    PROVE  Inv'
  <1> DEFINE gone == {f \in Live : sess[f].idle}
  <1>1. /\ readyR = {} /\ readyW = {} /\ pc' = "tick"
        /\ sess' = [f \in Fds |-> IF f \in gone THEN Absent ELSE sess[f]]
        /\ conn' = [f \in Fds |-> IF f \in gone THEN HungUp(conn[f]) ELSE conn[f]]
        /\ interest' = [f \in Fds |-> IF f \in gone THEN {} ELSE interest[f]]
        /\ kv' = [q \in DOMAIN kv |-> IF \E f \in gone : sess[f].seq = q THEN 0 ELSE kv[q]]
        /\ UNCHANGED <<order, backlog, readyL, readyR, readyW, newborn, schedVars, shutdown>>
    BY DEF IdleSweep
  <1>2. gone \subseteq Live /\ Live \subseteq Fds
    BY DEF Live
  <1> HIDE DEF gone
  <1>3. TypeOK
    BY DEF Inv
  <1>4. kv \in Seq(Nat) /\ DOMAIN kv = 1..Len(kv) /\ Len(kv) \in Nat
    BY <1>3, LenProperties DEF TypeOK
  <1>5. kv' \in Seq(Nat) /\ DOMAIN kv' = DOMAIN kv
    <2>1. \A q \in 1..Len(kv) : kv[q] \in Nat
      BY <1>4, SMTT(60)
    <2>2. kv' \in [1..Len(kv) -> Nat]
      BY <1>1, <1>4, <2>1, SMTT(60)
    <2> QED
      BY <1>4, <2>2, SeqDef, SMTT(60)
  <1>6. \A f \in Fds : HungUp(conn[f]) \in Conn /\ Len(HungUp(conn[f]).out) <= SndCap
    <2> TAKE f \in Fds
    <2>1. conn[f] \in Conn /\ Len(conn[f].out) <= SndCap
      BY <1>3, SMTT(60) DEF Inv, TypeOK, SocketBounded
    <2>2. CASE conn[f].peer = "gone"
      <3>1. HungUp(conn[f]) = NoConn /\ NoConn.out = <<>>
        BY <2>2 DEF HungUp, NoConn
      <3>2. Len(NoConn.out) = 0
        BY <3>1, SMTT(60)
      <3> QED
        BY <3>1, <3>2, FreshType, Constants, SMTT(60)
    <2>3. CASE conn[f].peer # "gone"
      BY <2>1, <2>3, HungUpType, Zenon DEF HungUp, Conn
    <2> QED
      BY <2>2, <2>3
  <1>7. sess' \in [Fds -> Session] /\ conn' \in [Fds -> Conn] /\ interest' \in [Fds -> SUBSET {"R", "W"}]
    BY <1>1, <1>3, <1>6, FreshType, SMTT(60) DEF TypeOK
  <1>8. TypeOK'
    BY <1>1, <1>3, <1>5, <1>7 DEF TypeOK, schedVars
  <1>9. Absent.state = "ABSENT"
    BY SMTT(60) DEF Absent, Fresh
  <1>10. Live' = Live \ gone
    BY <1>1, <1>9 DEF Live
  <1>11. SessionsBounded'
    BY <1>10, LiveShrinks, SMTT(60) DEF Inv
  <1>12. \A f \in Live' : f \in Live /\ sess'[f] = sess[f] /\ interest'[f] = interest[f]
    BY <1>1, <1>2, <1>10, SMTT(60)
  <1>13. SequencesDistinct'
    BY <1>5, <1>12, SMTT(60) DEF Inv, SequencesDistinct
  <1>14. NoOrphanCells'
    <2> SUFFICES ASSUME NEW q \in DOMAIN kv, kv'[q] > 0
                 PROVE  \E f \in Live' : sess'[f].seq = q
      BY <1>5, SMTT(60) DEF NoOrphanCells
    <2>1. kv[q] > 0 /\ ~\E f \in gone : sess[f].seq = q
      BY <1>1
    <2>2. PICK f \in Live : sess[f].seq = q
      BY <2>1, SMTT(60) DEF Inv, NoOrphanCells
    <2> QED
      BY <1>10, <1>12, <2>1, <2>2, SMTT(60)
  <1>15. EventsCurrent' /\ ReadyArmed' /\ AcceptReady'
    BY <1>1, <1>10, SMTT(60) DEF Inv, EventsCurrent, ReadyArmed, AcceptReady
  <1>16. TxArmed'
    BY <1>12, SMTT(60) DEF Inv, TxArmed
  <1>17. SocketBounded'
    BY <1>1, <1>6 DEF Inv, SocketBounded
  <1> QED
    BY <1>8, <1>11, <1>13, <1>14, <1>15, <1>16, <1>17, SMTT(60) DEF Inv
=============================================================================
