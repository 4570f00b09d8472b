----------------------------- MODULE UmadLemmas -----------------------------
(***************************************************************************)
(* The inductive invariant of module Umad, and what its helpers return in  *)
(* the states of that invariant.  Module UmadProofs shows that every step  *)
(* keeps it.                                                               *)
(***************************************************************************)
EXTENDS UmadProps, FiniteSetTheorems, SequenceTheorems, TLAPS

(* A descriptor still to be handled as writable has its Write filter.      *)
ReadyArmed == \A f \in readyW : "W" \in interest[f]

(* A socket never holds more than its send buffer.                         *)
SocketBounded == \A f \in Fds : Len(conn[f].out) <= SndCap

(* The listen event that is still to be handled has a connection behind it. *)
AcceptReady == readyL => backlog > 0

(* Together the properties are inductive.                                  *)
Inv ==
    /\ TypeOK
    /\ SessionsBounded
    /\ SequencesDistinct
    /\ NoOrphanCells
    /\ EventsCurrent
    /\ TxArmed
    /\ ReadyArmed
    /\ SocketBounded
    /\ AcceptReady

(* The undelivered error of a failed decode.                               *)
Unarmed(tx) == \E k \in DOMAIN tx : tx[k].ev = "decodeerror"

(* What a handler of descriptor f may store: session s, socket c, filters  *)
(* int and KV cells k.                                                     *)
Outcome(f, s, c, int, k) ==
    /\ s \in Session /\ c \in Conn /\ int \in SUBSET {"R", "W"} /\ k \in Seq(Nat)
    /\ Len(c.out) <= SndCap
    /\ s.state = "ABSENT" => int = {}
    /\ s.state # "ABSENT" /\ s.tx # <<>> /\ "W" \notin int => Unarmed(s.tx)
    /\ s.state # "ABSENT" =>
         \/ s.seq = sess[f].seq /\ k = kv
         \/ s.seq = Len(kv) + 1 /\ k = Append(kv, 0) /\ sess[f].seq = NoSeq
    /\ s.state = "ABSENT" => k = SeqRm(kv, sess[f].seq)
(* The step stores such an outcome for f.                                  *)
Stored(f) ==
    \E s \in Session, c \in Conn, int \in SUBSET {"R", "W"}, k \in Seq(Nat) :
        Outcome(f, s, c, int, k) /\ Store(f, s, c, int, k)
-----------------------------------------------------------------------------
(*                          Types of the helpers                           *)

(* Constants of the model that the proofs refer to.                        *)
LEMMA Constants ==
    /\ IsFiniteSet(Fds) /\ BatchCap \in Nat /\ MinBatch \in Nat
    /\ MaxSessions \in Nat /\ MaxSessions >= 1 /\ SndCap \in Nat /\ BmtBudget \in Nat
  <1>1. Cardinality(Fds) \in Nat
    BY PolicyAssumption, FS_CardinalityType
  <1> QED
    BY <1>1, PolicyAssumption, UmadAssumption

(* A new session and an erased one are sessions.                           *)
LEMMA FreshType == Fresh \in Session /\ Absent \in Session /\ NoConn \in Conn
  <1>1. <<>> \in Seq(Frame) /\ <<>> \in Seq(Event)
    OBVIOUS
  <1> QED
    BY <1>1, Zenon DEF Fresh, Absent, NoConn, Session, Conn, States, NoSeq

(* Fields of a session.                                                    *)
LEMMA SessionFields ==
    ASSUME NEW s \in Session
    PROVE  /\ s.state \in States /\ s.rx \in Seq(Frame) /\ s.tx \in Seq(Event)
           /\ s.seq \in Nat \cup {NoSeq} /\ s.seq \in Int /\ s.prompt \in Nat /\ s.prefill \in Nat
           /\ s.pend \in BOOLEAN /\ s.npast \in Nat /\ s.gen \in Nat /\ s.closed \in BOOLEAN
           /\ s.emitted \in BOOLEAN /\ s.id \in Nat /\ s.idle \in BOOLEAN
  BY DEF Session, NoSeq

(* Fields of a connection.                                                 *)
LEMMA ConnFields ==
    ASSUME NEW c \in Conn
    PROVE  /\ c.peer \in {"none", "open", "shut", "gone", "hungup"}
           /\ c.in \in Seq(Frame) /\ c.out \in Seq(Event)
           /\ c.sent \in Nat /\ c.ended \in Nat /\ c.ntok \in Nat
  BY DEF Conn

(* What remains of a closed connection.                                    *)
LEMMA HungUpType ==
    ASSUME NEW c \in Conn
    PROVE  HungUp(c) \in Conn
  <1>1. <<>> \in Seq(Frame)
    OBVIOUS
  <1> QED
    BY <1>1, FreshType, Zenon DEF HungUp, Conn

(* Clearing a sequence keeps the number of sequences.                      *)
LEMMA SeqRmType ==
    ASSUME NEW k \in Seq(Nat), NEW q \in Int
    PROVE  /\ SeqRm(k, q) \in Seq(Nat) /\ Len(SeqRm(k, q)) = Len(k)
           /\ \A p \in 1..Len(k) : SeqRm(k, q)[p] = IF p = q THEN 0 ELSE k[p]
  <1>1. CASE q \in 1..Len(k)
    BY <1>1, ExceptSeq DEF SeqRm
  <1>2. CASE q \notin 1..Len(k)
    BY <1>2 DEF SeqRm
  <1> QED
    BY <1>1, <1>2

(* A write takes no more than waits in tx and than the socket has room for. *)
LEMMA WrittenType ==
    ASSUME NEW s \in Session, NEW c \in Conn, Len(c.out) <= SndCap
    PROVE  /\ Written(s, c) \in Nat /\ Written(s, c) <= Len(s.tx)
           /\ Len(c.out) + Written(s, c) <= SndCap
  <1> DEFINE m == Len(s.tx)
             n == Len(c.out)
             r == Room(c)
  <1>1. m \in Nat /\ n \in Nat /\ n <= SndCap /\ SndCap \in Nat
    BY SessionFields, ConnFields, Constants
  <1>2. r = 0 \/ r = SndCap - n
    BY DEF Room
  <1>3. Written(s, c) = Least(m, r)
    BY DEF Written
  <1> HIDE DEF m, n, r
  <1>4. r \in Nat /\ n + r <= SndCap
    BY <1>1, <1>2
  <1>5. Least(m, r) \in Nat /\ Least(m, r) <= m /\ n + Least(m, r) <= SndCap
    BY <1>1, <1>4 DEF Least
  <1> QED
    BY <1>3, <1>5 DEF m, n

(* Moving w events from tx to the socket.                                  *)
LEMMA WriteType ==
    ASSUME NEW s \in Session, NEW c \in Conn, NEW w \in Nat,
           w <= Len(s.tx), Len(c.out) + w <= SndCap
    PROVE  /\ Drained(s, w) \in Session
           /\ Drained(s, w).state = s.state /\ Drained(s, w).seq = s.seq
           /\ Delivered(s, c, w) \in Conn
           /\ Len(Delivered(s, c, w).out) <= SndCap
  <1> DEFINE rest == SubSeq(s.tx, w + 1, Len(s.tx))
             head == SubSeq(s.tx, 1, w)
  <1>1. s.tx \in Seq(Event) /\ Len(s.tx) \in Nat /\ c.out \in Seq(Event) /\ Len(c.out) \in Nat
    BY SessionFields, ConnFields
  <1>2. \A i \in 1..Len(s.tx) : s.tx[i] \in Event
    BY <1>1
  <1>3. rest \in Seq(Event)
    BY <1>1, <1>2, SubSeqProperties
  <1>4. head \in Seq(Event) /\ Len(head) = w
    <2>1. \A i \in 1..w : s.tx[i] \in Event
      BY <1>1, <1>2
    <2>2. head \in Seq(Event) /\ Len(head) = IF 1 <= w THEN w - 1 + 1 ELSE 0
      BY <2>1, SubSeqProperties
    <2> HIDE DEF head
    <2> QED
      BY <2>2
  <1> HIDE DEF rest, head
  <1>5. c.out \o head \in Seq(Event) /\ Len(c.out \o head) = Len(c.out) + w
    <2>1. c.out \o head \in Seq(Event) /\ Len(c.out \o head) = Len(c.out) + Len(head)
      BY <1>1, <1>4, ConcatProperties, Zenon
    <2> QED
      BY <1>4, <2>1
  <1>6. Drained(s, w) = [s EXCEPT !.tx = rest] /\ Delivered(s, c, w) = [c EXCEPT !.out = c.out \o head]
    BY DEF Drained, Delivered, rest, head, Conn
  <1>7. Drained(s, w) \in Session /\ Drained(s, w).state = s.state /\ Drained(s, w).seq = s.seq
    BY <1>3, <1>6, Zenon DEF Session
  <1>8. Delivered(s, c, w) \in Conn /\ Delivered(s, c, w).out = c.out \o head
    BY <1>5, <1>6, Zenon DEF Conn
  <1> QED
    BY <1>5, <1>7, <1>8

(* An event at the end of tx.                                              *)
LEMMA TxAppend ==
    ASSUME NEW tx \in Seq(Event), NEW e \in Event
    PROVE  /\ Append(tx, e) \in Seq(Event) /\ Append(tx, e) # <<>>
           /\ Unarmed(tx) => Unarmed(Append(tx, e))
           /\ e.ev = "decodeerror" => Unarmed(Append(tx, e))
  <1>1. /\ Append(tx, e) \in Seq(Event) /\ Append(tx, e) # <<>>
        /\ Len(Append(tx, e)) = Len(tx) + 1 /\ Len(tx) \in Nat
        /\ \A i \in 1..Len(tx) : Append(tx, e)[i] = tx[i]
        /\ Append(tx, e)[Len(tx) + 1] = e
    BY AppendProperties
  <1>2. DOMAIN tx = 1..Len(tx) /\ DOMAIN Append(tx, e) = 1..(Len(tx) + 1)
    BY <1>1, LenProperties
  <1>3. ASSUME Unarmed(tx) PROVE Unarmed(Append(tx, e))
    <2>1. PICK k \in DOMAIN tx : tx[k].ev = "decodeerror"
      BY <1>3 DEF Unarmed
    <2>2. k \in DOMAIN Append(tx, e) /\ Append(tx, e)[k] = tx[k]
      BY <1>1, <1>2, <2>1
    <2> QED
      BY <2>1, <2>2 DEF Unarmed
  <1>4. ASSUME e.ev = "decodeerror" PROVE Unarmed(Append(tx, e))
    <2>1. Len(tx) + 1 \in DOMAIN Append(tx, e)
      BY <1>1, <1>2
    <2> QED
      BY <2>1, <1>1, <1>4 DEF Unarmed
  <1> QED
    BY <1>1, <1>3, <1>4
-----------------------------------------------------------------------------
(*                       Readable and writable events                      *)

(* Fields of a parse outcome that wants a write.                           *)
LEMMA ParsedWants ==
    ASSUME NEW r, NEW s, NEW removed, r = Parsed(s, removed, TRUE)
    PROVE  r.s = s /\ r.wants = TRUE
  BY Zenon DEF Parsed

(* Fields of a parse outcome that does not.                                *)
LEMMA ParsedQuiet ==
    ASSUME NEW r, NEW s, NEW removed, r = Parsed(s, removed, FALSE)
    PROVE  r.s = s /\ r.wants = FALSE
  BY Zenon DEF Parsed

(* What parsing leaves of a session: r is the outcome for session s.       *)
ParseOutcome(s, r) ==
    /\ r.s \in Session /\ r.s.state # "ABSENT"
    /\ \/ r.wants = TRUE /\ r.s.seq = s.seq
       \/ /\ r.wants = FALSE /\ r.s.tx = s.tx
          /\ r.s.seq = s.seq \/ (s.seq = NoSeq /\ r.s.seq = Len(kv) + 1)

(* A one-shot reply keeps the sequence of the session.                     *)
LEMMA RefuseType ==
    ASSUME NEW s \in Session, NEW ev \in EventKinds, NEW id \in Nat, NEW t \in Session, s.seq = t.seq
    PROVE  ParseOutcome(t, Refuse(s, ev, id))
  <1> DEFINE e == [ev |-> ev, id |-> id]
             u == [s EXCEPT !.tx = Append(s.tx, e), !.state = "STREAM", !.closed = TRUE]
  <1>1. e \in Event
    BY DEF Event
  <1>2. Append(s.tx, e) \in Seq(Event)
    BY <1>1, SessionFields, TxAppend
  <1>3. u \in Session /\ u.state = "STREAM" /\ u.seq = s.seq
    BY <1>2, Zenon DEF Session, States
  <1>4. Refuse(s, ev, id) = Parsed(u, TRUE, TRUE)
    BY DEF Refuse, Session
  <1> HIDE DEF u
  <1>5. Refuse(s, ev, id).s = u /\ Refuse(s, ev, id).wants = TRUE
    BY <1>4, ParsedWants, Zenon
  <1> QED
    BY <1>3, <1>5 DEF ParseOutcome

(* Taking a frame from rx.                                                 *)
LEMMA TakeType ==
    ASSUME NEW s \in Session, s.rx # <<>>
    PROVE  /\ Head(s.rx) \in Frame
           /\ Take(s) \in Session /\ Take(s).seq = s.seq /\ Take(s).tx = s.tx
           /\ Adopt(s, Head(s.rx)) \in Session
           /\ Adopt(s, Head(s.rx)).seq = s.seq /\ Adopt(s, Head(s.rx)).tx = s.tx
  <1>1. Head(s.rx) \in Frame /\ Tail(s.rx) \in Seq(Frame)
    BY SessionFields, HeadTailProperties
  <1>2. Take(s) \in Session /\ Take(s).seq = s.seq /\ Take(s).tx = s.tx
    BY <1>1, Zenon DEF Take, Session
  <1>3. Head(s.rx).id \in Nat
    BY <1>1 DEF Frame
  <1> QED
    BY <1>1, <1>2, <1>3, Zenon DEF Adopt, Session

(* One frame is parsed.                                                    *)
LEMMA ParseType ==
    ASSUME NEW s \in Session, s.state # "ABSENT", kv \in Seq(Nat)
    PROVE  ParseOutcome(s, ParseOne(s))
  <1>1. CASE s.rx = <<>>
    <2>1. ParseOne(s) = Parsed(s, FALSE, FALSE)
      BY <1>1 DEF ParseOne
    <2>2. ParseOne(s).s = s /\ ParseOne(s).wants = FALSE
      BY <2>1, ParsedQuiet, Zenon
    <2> QED
      BY <2>2 DEF ParseOutcome
  <1>2. CASE s.rx # <<>>
    <2> DEFINE m == Head(s.rx)
    <2>1. /\ m \in Frame /\ Take(s) \in Session /\ Take(s).seq = s.seq /\ Take(s).tx = s.tx
          /\ Adopt(s, m) \in Session /\ Adopt(s, m).seq = s.seq /\ Adopt(s, m).tx = s.tx
      BY <1>2, TakeType
    <2> HIDE DEF m
    <2>2. m.kind \in Kinds /\ m.id \in Nat /\ m.n \in Nat
      BY <2>1 DEF Frame
    <2>3. CASE m.kind = "badframe"
      <3>1. ParseOne(s) = Refuse(s, "protoerror", s.id)
        BY <1>2, <2>3, Zenon DEF ParseOne, m
      <3> QED
        BY <3>1, SessionFields, RefuseType, SMTT(60) DEF EventKinds
    <2>4. CASE m.kind = "metrics"
      <3>1. ParseOne(s) = Refuse(Take(s), "metrics", 0)
        BY <1>2, <2>4, Zenon DEF ParseOne, m
      <3> QED
        BY <2>1, <3>1, RefuseType DEF EventKinds
    <2>5. CASE m.kind = "badreq"
      <3>1. ParseOne(s) = Refuse(Take(s), "protoerror", m.id)
        BY <1>2, <2>5, Zenon DEF ParseOne, m
      <3> QED
        BY <2>1, <2>2, <3>1, RefuseType DEF EventKinds
    <2>6. CASE m.kind = "toolong"
      <3>1. ParseOne(s) = Refuse(Adopt(s, m), "protoerror", m.id)
        BY <1>2, <2>6, Zenon DEF ParseOne, m
      <3> QED
        BY <2>1, <2>2, <3>1, RefuseType DEF EventKinds
    <2>7. CASE m.kind = "notokens"
      <3> DEFINE a == Adopt(s, m)
                 e == [ev |-> "stop", id |-> m.id]
                 u == [a EXCEPT !.prompt = 0, !.state = "STREAM", !.tx = Append(a.tx, e)]
      <3>1. e \in Event
        BY <2>2 DEF Event, EventKinds
      <3>2. Append(a.tx, e) \in Seq(Event)
        BY <2>1, <3>1, SessionFields, TxAppend
      <3>3. ParseOne(s) = Parsed([a EXCEPT !.prompt = 0, !.state = "STREAM", !.tx = Append(@, e)], FALSE, TRUE)
        BY <1>2, <2>7, Zenon DEF ParseOne, m
      <3> HIDE DEF a, e
      <3>4. a \in Session /\ a.seq = s.seq
        BY <2>1 DEF a
      <3>5. ParseOne(s) = Parsed(u, FALSE, TRUE)
        BY <3>3, <3>4 DEF Session
      <3>6. u \in Session /\ u.state = "STREAM" /\ u.seq = s.seq
        BY <3>2, <3>4, Zenon DEF Session, States
      <3> HIDE DEF u
      <3>7. ParseOne(s).s = u /\ ParseOne(s).wants = TRUE
        BY <3>5, ParsedWants, Zenon
      <3> QED
        BY <3>6, <3>7 DEF ParseOutcome
    <2>8. CASE m.kind = "prompt"
      <3> DEFINE a == Adopt(s, m)
                 q == IF a.seq = NoSeq THEN Len(kv) + 1 ELSE a.seq
                 u == [a EXCEPT !.prompt = m.n, !.prefill = 0, !.gen = 0, !.pend = FALSE,
                                !.npast = 0, !.emitted = FALSE, !.state = "PREFILL", !.seq = q]
      <3>1. a \in Session /\ a.seq = s.seq /\ a.tx = s.tx
        BY <2>1
      <3>2. StartPrefill(s, m) = u
        BY <3>1 DEF StartPrefill, Session
      <3>3. ParseOne(s) = Parsed(StartPrefill(s, m), FALSE, FALSE)
        BY <1>2, <2>8, Zenon DEF ParseOne, m
      <3>4. Len(kv) \in Nat
        OBVIOUS
      <3> HIDE DEF a
      <3>5. q \in Nat \cup {NoSeq} /\ (q = s.seq \/ (s.seq = NoSeq /\ q = Len(kv) + 1))
        BY <3>1, <3>4, SessionFields
      <3> HIDE DEF q
      <3>6. u \in Session /\ u.state = "PREFILL" /\ u.tx = s.tx /\ u.seq = q
        BY <2>2, <3>1, <3>5, ZenonT(60) DEF Session, States
      <3> HIDE DEF u
      <3>7. ParseOne(s).s = u /\ ParseOne(s).wants = FALSE
        <4>1. ParseOne(s) = Parsed(u, FALSE, FALSE)
          BY <3>2, <3>3
        <4> QED
          BY <4>1, ParsedQuiet, Zenon
      <3> QED
        BY <3>5, <3>6, <3>7 DEF ParseOutcome
    <2> QED
      BY <2>2, <2>3, <2>4, <2>5, <2>6, <2>7, <2>8, SMTT(60) DEF Kinds
  <1> QED
    BY <1>1, <1>2

(* Closing a session.                                                      *)
LEMMA CloseStored ==
    ASSUME NEW f \in Fds, NEW c \in Conn, TypeOK, Len(c.out) <= SndCap,
           Close(f, c, sess[f].seq, kv)
    PROVE  Stored(f)
  <1> DEFINE k == SeqRm(kv, sess[f].seq)
  <1>1. sess[f].seq \in Int /\ kv \in Seq(Nat)
    BY SessionFields DEF TypeOK
  <1>2. k \in Seq(Nat)
    BY <1>1, SeqRmType
  <1>3. Len(HungUp(c).out) <= SndCap
    <2>1. CASE c.peer = "gone"
      BY <2>1, Constants DEF HungUp, NoConn
    <2>2. CASE c.peer # "gone"
      BY <2>2 DEF HungUp, Conn
    <2> QED
      BY <2>1, <2>2
  <1>4. Absent \in Session /\ Absent.state = "ABSENT" /\ HungUp(c) \in Conn
    BY FreshType, HungUpType DEF Absent, Fresh
  <1>5. Store(f, Absent, HungUp(c), {}, k)
    BY DEF Close
  <1> HIDE DEF k
  <1>6. Outcome(f, Absent, HungUp(c), {}, k)
    BY <1>2, <1>3, <1>4 DEF Outcome, k
  <1> QED
    BY <1>2, <1>4, <1>5, <1>6 DEF Stored

(* Resetting a session for the next request.                               *)
LEMMA ResetType ==
    ASSUME NEW s \in Session
    PROVE  /\ Reset(s) \in Session /\ Reset(s).state = "RECV_REQ"
           /\ Reset(s).tx = s.tx /\ Reset(s).seq = s.seq
  BY Zenon DEF Reset, Session, States

(* Storing a session that stays, with its sequence.                        *)
LEMMA KeepStored ==
    ASSUME NEW f \in Fds, NEW s \in Session, NEW c \in Conn, NEW int \in SUBSET {"R", "W"},
           kv \in Seq(Nat), s.state # "ABSENT", s.seq = sess[f].seq, Len(c.out) <= SndCap,
           s.tx # <<>> /\ "W" \notin int => Unarmed(s.tx),
           Store(f, s, c, int, kv)
    PROVE  Stored(f)
  <1>1. Outcome(f, s, c, int, kv)
    BY DEF Outcome
  <1> QED
    BY <1>1 DEF Stored

(* What the handlers do when tx is empty.                                  *)
LEMMA FlushedStored ==
    ASSUME NEW f \in Fds, NEW s \in Session, NEW c \in Conn, NEW int \in SUBSET {"R", "W"},
           NEW rearm \in SUBSET {"R", "W"}, TypeOK, s.state # "ABSENT",
           s.seq = sess[f].seq, s.tx = <<>>, Len(c.out) <= SndCap,
           Flushed(f, s, c, int, rearm, kv)
    PROVE  Stored(f)
  <1>1. kv \in Seq(Nat)
    BY DEF TypeOK
  <1>2. \/ Close(f, c, sess[f].seq, kv)
        \/ Store(f, Reset(s), c, int \cup rearm, kv)
        \/ Store(f, s, c, int, kv)
    BY DEF Flushed
  <1>3. CASE Close(f, c, sess[f].seq, kv)
    BY <1>3, CloseStored, SMTT(60)
  <1>4. CASE Store(f, Reset(s), c, int \cup rearm, kv)
    <2>1. /\ Reset(s) \in Session /\ Reset(s).state = "RECV_REQ"
          /\ Reset(s).tx = <<>> /\ Reset(s).seq = sess[f].seq
      BY ResetType
    <2>2. int \cup rearm \in SUBSET {"R", "W"}
      OBVIOUS
    <2> QED
      BY <1>1, <1>4, <2>1, <2>2, KeepStored, SMTT(60)
  <1>5. CASE Store(f, s, c, int, kv)
    BY <1>1, <1>5, KeepStored, SMTT(60)
  <1> QED
    BY <1>2, <1>3, <1>4, <1>5

(* What the read loop does to a session and its socket.                    *)
LEMMA DrainType ==
    ASSUME NEW s \in Session, NEW c \in Conn
    PROVE  /\ Drain(s, c) \in Session /\ Drain(s, c).state = s.state
           /\ Drain(s, c).tx = s.tx /\ Drain(s, c).seq = s.seq
           /\ [c EXCEPT !.in = <<>>] \in Conn /\ [c EXCEPT !.in = <<>>].out = c.out
  <1>1. s.rx \o c.in \in Seq(Frame)
    BY SessionFields, ConnFields, ConcatProperties
  <1> DEFINE i == IF c.peer # "open" \/ c.in # <<>> THEN FALSE ELSE s.idle
             d == s.closed \/ c.peer # "open"
             rx == s.rx \o c.in
  <1>2. i \in BOOLEAN /\ d \in BOOLEAN
    BY SessionFields, Zenon
  <1>3. Drain(s, c) = [s EXCEPT !.rx = rx, !.idle = i, !.closed = d]
    BY DEF Drain, Session
  <1> HIDE DEF i, d, rx
  <1>4. rx \in Seq(Frame)
    BY <1>1 DEF rx
  <1>5. /\ Drain(s, c) \in Session /\ Drain(s, c).state = s.state
        /\ Drain(s, c).tx = s.tx /\ Drain(s, c).seq = s.seq
    BY <1>2, <1>3, <1>4, ZenonT(60) DEF Session
  <1>6. <<>> \in Seq(Frame)
    OBVIOUS
  <1> QED
    BY <1>5, <1>6, Zenon DEF Conn

(* What the invariant says about a session whose event is handled.         *)
LEMMA LiveFacts ==
    ASSUME NEW f \in Live, Inv
    PROVE  /\ f \in Fds /\ sess[f] \in Session /\ conn[f] \in Conn
           /\ interest[f] \in SUBSET {"R", "W"} /\ kv \in Seq(Nat) /\ Len(kv) \in Nat
           /\ sess[f].state # "ABSENT" /\ Len(conn[f].out) <= SndCap
           /\ sess[f].seq \in Int /\ sess[f].seq <= Len(kv)
           /\ sess[f].tx # <<>> /\ "W" \notin interest[f] => Unarmed(sess[f].tx)
  <1>1. /\ f \in Fds /\ sess[f] \in Session /\ conn[f] \in Conn
        /\ interest[f] \in SUBSET {"R", "W"} /\ kv \in Seq(Nat) /\ Len(kv) \in Nat
        /\ sess[f].state # "ABSENT" /\ Len(conn[f].out) <= SndCap
    BY DEF Inv, TypeOK, Live, SocketBounded
  <1>2. sess[f].seq \in Int
    BY <1>1, SessionFields
  <1>3. sess[f].seq # NoSeq => sess[f].seq \in DOMAIN kv
    BY DEF Inv, SequencesDistinct
  <1>4. DOMAIN kv = 1..Len(kv)
    BY <1>1, LenProperties
  <1>5. sess[f].seq <= Len(kv)
    BY <1>1, <1>2, <1>3, <1>4, SMTT(60) DEF NoSeq
  <1>6. sess[f].tx # <<>> /\ "W" \notin interest[f] => Unarmed(sess[f].tx)
    BY DEF Inv, TxArmed, Unarmed
  <1> QED
    BY <1>1, <1>2, <1>5, <1>6

(* on_readable, with the immediate write.                                  *)
LEMMA ReadOKStored ==
    ASSUME NEW f \in Live, Inv, ReadOK(f)
    PROVE  Stored(f)
  <1> DEFINE d == Drain(sess[f], conn[f])
             r == ParseOne(d)
             c0 == [conn[f] EXCEPT !.in = <<>>]
             k == IF r.s.seq > Len(kv) THEN Append(kv, 0) ELSE kv
             int == IF r.removed \/ c0.peer # "open" THEN interest[f] \ {"R"} ELSE interest[f]
             w == IF r.wants THEN Written(r.s, c0) ELSE 0
             s == Drained(r.s, w)
             c == Delivered(r.s, c0, w)
  <1>1. /\ f \in Fds /\ sess[f] \in Session /\ conn[f] \in Conn
        /\ interest[f] \in SUBSET {"R", "W"} /\ kv \in Seq(Nat) /\ Len(kv) \in Nat
        /\ sess[f].state # "ABSENT" /\ Len(conn[f].out) <= SndCap
        /\ sess[f].seq \in Int /\ sess[f].seq <= Len(kv)
        /\ sess[f].tx # <<>> /\ "W" \notin interest[f] => Unarmed(sess[f].tx)
    BY LiveFacts
  <1>2. /\ d \in Session /\ d.state # "ABSENT" /\ d.tx = sess[f].tx /\ d.seq = sess[f].seq
        /\ c0 \in Conn /\ c0.out = conn[f].out
    BY <1>1, DrainType
  <1>3. ParseOutcome(d, r)
    BY <1>1, <1>2, ParseType
  <1>4. int \in SUBSET {"R", "W"} /\ ("W" \in interest[f] => "W" \in int)
    BY <1>1, SMTT(60)
  <1>5. IF ~r.wants THEN Store(f, r.s, c0, int, k)
        ELSE IF s.tx # <<>> THEN Store(f, s, c, int \cup {"W"}, k)
        ELSE Flushed(f, s, c, int, {"R"}, k)
    BY DEF ReadOK
  <1>6. TypeOK
    BY DEF Inv
  <1> HIDE DEF d, r, c0, int
  <1>7. CASE r.wants = TRUE /\ r.s.seq = d.seq
    <2>1. k = kv
      BY <1>1, <1>2, <1>7, SMTT(60)
    <2>2. w = Written(r.s, c0)
      BY <1>7
    <2>3. r.s \in Session /\ r.s.state # "ABSENT"
      BY <1>3, SMTT(60) DEF ParseOutcome
    <2>4. w \in Nat /\ w <= Len(r.s.tx) /\ Len(c0.out) + w <= SndCap
      BY <1>1, <1>2, <2>2, <2>3, WrittenType, ZenonT(60)
    <2>5. \/ s.tx # <<>> /\ Store(f, s, c, int \cup {"W"}, kv)
          \/ s.tx = <<>> /\ Flushed(f, s, c, int, {"R"}, kv)
      BY <1>5, <1>7, <2>1
    <2> HIDE DEF w
    <2>6. /\ s \in Session /\ s.state # "ABSENT" /\ s.seq = sess[f].seq
          /\ c \in Conn /\ Len(c.out) <= SndCap
      BY <1>2, <1>7, <2>3, <2>4, WriteType, SMTT(60)
    <2> HIDE DEF s, c
    <2>7. CASE s.tx # <<>> /\ Store(f, s, c, int \cup {"W"}, kv)
      BY <1>1, <1>4, <2>6, <2>7, KeepStored, Zenon
    <2>8. CASE s.tx = <<>> /\ Flushed(f, s, c, int, {"R"}, kv)
      BY <1>1, <1>4, <1>6, <2>6, <2>8, FlushedStored, SMTT(60)
    <2> QED
      BY <2>5, <2>7, <2>8, SMTT(60)
  <1>8. CASE /\ r.wants = FALSE /\ r.s.tx = d.tx
             /\ r.s.seq = d.seq \/ (d.seq = NoSeq /\ r.s.seq = Len(kv) + 1)
    <2>1. Store(f, r.s, c0, int, k)
      BY <1>5, <1>8, SMTT(60)
    <2>2. \/ r.s.seq = sess[f].seq /\ k = kv
          \/ r.s.seq = Len(kv) + 1 /\ k = Append(kv, 0) /\ sess[f].seq = NoSeq
      BY <1>1, <1>2, <1>8, SMTT(60)
    <2>3. k \in Seq(Nat)
      BY <1>1, AppendProperties, SMTT(60)
    <2>4. r.s \in Session /\ r.s.state # "ABSENT"
      BY <1>3 DEF ParseOutcome
    <2>5. r.s.tx # <<>> /\ "W" \notin int => Unarmed(r.s.tx)
      BY <1>1, <1>2, <1>4, <1>8, SMTT(60)
    <2> HIDE DEF k
    <2>6. Outcome(f, r.s, c0, int, k)
      BY <1>1, <1>2, <1>4, <2>2, <2>3, <2>4, <2>5, SMTT(60) DEF Outcome
    <2> QED
      BY <1>2, <1>4, <2>1, <2>3, <2>4, <2>6, SMTT(60) DEF Stored
  <1> QED
    BY <1>3, <1>7, <1>8, Zenon DEF ParseOutcome

(* on_readable when read fails.                                            *)
LEMMA ReadFailsStored ==
    ASSUME NEW f \in Live, Inv, ReadFails(f)
    PROVE  Stored(f)
  <1> DEFINE rx == sess[f].rx \o conn[f].in
             i == sess[f].idle /\ conn[f].in = <<>>
             s == [sess[f] EXCEPT !.rx = rx, !.idle = i]
             c == [conn[f] EXCEPT !.in = <<>>]
  <1>1. /\ f \in Fds /\ sess[f] \in Session /\ conn[f] \in Conn
        /\ interest[f] \in SUBSET {"R", "W"} /\ kv \in Seq(Nat)
        /\ sess[f].state # "ABSENT" /\ Len(conn[f].out) <= SndCap
        /\ sess[f].tx # <<>> /\ "W" \notin interest[f] => Unarmed(sess[f].tx)
    BY LiveFacts, SMTT(60)
  <1>2. rx \in Seq(Frame) /\ i \in BOOLEAN
    BY <1>1, SessionFields, ConnFields, ConcatProperties, SMTT(60)
  <1>3. Store(f, s, c, interest[f] \ {"R"}, kv)
    BY <1>1 DEF ReadFails, Session
  <1>4. c \in Conn /\ c.out = conn[f].out
    BY <1>1, DrainType
  <1> HIDE DEF rx, i, c
  <1>5. /\ s \in Session /\ s.state = sess[f].state /\ s.tx = sess[f].tx
        /\ s.seq = sess[f].seq
    BY <1>1, <1>2, Zenon DEF Session
  <1> HIDE DEF s
  <1>6. interest[f] \ {"R"} \in SUBSET {"R", "W"}
    BY <1>1
  <1>7. s.tx # <<>> /\ "W" \notin interest[f] \ {"R"} => Unarmed(s.tx)
    BY <1>1, <1>5
  <1> QED
    BY <1>1, <1>3, <1>4, <1>5, <1>6, <1>7, KeepStored, SMTT(60)

(* The write of a writable event, when the peer is there.                  *)
LEMMA WriteSomeStored ==
    ASSUME NEW f \in Live, Inv, "W" \in interest[f], WriteSome(f)
    PROVE  Stored(f)
  <1> DEFINE w == Written(sess[f], conn[f])
             d == Drained(sess[f], w)
             i == d.idle /\ w = 0
             s == [d EXCEPT !.idle = i]
             c == Delivered(sess[f], conn[f], w)
  <1>1. /\ f \in Fds /\ sess[f] \in Session /\ conn[f] \in Conn
        /\ interest[f] \in SUBSET {"R", "W"} /\ kv \in Seq(Nat)
        /\ sess[f].state # "ABSENT" /\ Len(conn[f].out) <= SndCap
    BY LiveFacts
  <1>2. w \in Nat /\ w <= Len(sess[f].tx) /\ Len(conn[f].out) + w <= SndCap
    BY <1>1, WrittenType, SMTT(60)
  <1>3. /\ d \in Session /\ d.state = sess[f].state /\ d.seq = sess[f].seq
        /\ c \in Conn /\ Len(c.out) <= SndCap
    BY <1>1, <1>2, WriteType, SMTT(60)
  <1>4. i \in BOOLEAN
    BY <1>3, SessionFields
  <1>5. IF s.tx # <<>> THEN Store(f, s, c, interest[f], kv)
        ELSE Flushed(f, s, c, interest[f] \ {"W"}, {}, kv)
    <2>1. [d EXCEPT !.idle = @ /\ w = 0] = s
      BY <1>3, SMTT(60) DEF Session
    <2> QED
      BY <2>1, Zenon DEF WriteSome
  <1>6. TypeOK
    BY DEF Inv
  <1> HIDE DEF w, d, i, c
  <1>7. s \in Session /\ s.state = sess[f].state /\ s.seq = sess[f].seq
    BY <1>3, <1>4, SMTT(60) DEF Session
  <1> HIDE DEF s
  <1>8. CASE s.tx # <<>>
    BY <1>1, <1>3, <1>5, <1>7, <1>8, KeepStored, SMTT(60)
  <1>9. CASE s.tx = <<>>
    <2>1. interest[f] \ {"W"} \in SUBSET {"R", "W"} /\ {} \in SUBSET {"R", "W"}
      BY <1>1
    <2>2. Flushed(f, s, c, interest[f] \ {"W"}, {}, kv)
      BY <1>5, <1>9, SMTT(60)
    <2> QED
      BY <1>1, <1>3, <1>6, <1>7, <1>9, <2>1, <2>2, FlushedStored, SMTT(60)
  <1> QED
    BY <1>8, <1>9

-----------------------------------------------------------------------------
(*                            The scheduler tick                           *)

(* The pool view of the invariant's states.                                *)
LEMMA PoolViewFacts ==
    ASSUME Inv
    PROVE  /\ PoolView.dec \in SUBSET Fds /\ PoolView.pre \in SUBSET Fds
           /\ PoolView.rrD \in Nat /\ PoolView.rrP \in Nat
           /\ PoolView.dec = {f \in Live : sess[f].state = "DECODE" /\ sess[f].pend}
           /\ PoolView.pre = {f \in Live : sess[f].state = "PREFILL" /\ sess[f].prefill < sess[f].prompt}
           /\ PoolView.target \in Nat
  <1>1. TypeOK
    BY DEF Inv
  <1>2. rr.dec \in Nat /\ rr.pre \in Nat /\ target \in Nat
    BY <1>1 DEF TypeOK
  <1> QED
    BY <1>2 DEF PoolView, Live

(* The cursors that the tick leaves are indices.                           *)
LEMMA CursorType ==
    ASSUME NEW P \in SUBSET Fds, NEW r \in Nat, NEW b
    PROVE  NextCursor(P, r, b) \in Nat
  <1>1. IsFiniteSet(P)
    BY PolicyAssumption, FS_Subset
  <1>2. Cardinality(P) \in Nat /\ (P # {} => Cardinality(P) > 0)
    BY <1>1, FS_CardinalityType, FS_EmptySet
  <1>3. P # {} => (r + 1) % Cardinality(P) \in Nat
    BY <1>2, SMTT(60)
  <1> QED
    BY <1>3 DEF NextCursor

(* A plan gives tokens only to sessions in DECODE or PREFILL.              *)
LEMMA PlanFacts ==
    ASSUME Inv, NEW plan \in Plans(PoolView)
    PROVE  /\ plan \in [Fds -> Nat]
           /\ \A f \in Fds : plan[f] > 0 =>
                f \in Live /\ sess[f].state \in {"DECODE", "PREFILL"}
  <1> DEFINE v == PoolView
  <1>1. /\ v.dec = {f \in Live : sess[f].state = "DECODE" /\ sess[f].pend}
        /\ v.pre = {f \in Live : sess[f].state = "PREFILL" /\ sess[f].prefill < sess[f].prompt}
    BY PoolViewFacts, SMTT(60)
  <1> HIDE DEF v
  <1>2. PICK k \in UNION {Trimmed(v, c) : c \in Chunks(v)} :
          plan = [f \in Fds |-> IF f \in DecodeItems(v) THEN 1
                                ELSE IF f \in v.pre THEN k[f] ELSE 0]
    BY DEF Plans, v
  <1>3. PICK c \in Chunks(v) : k \in Trimmed(v, c)
    BY <1>2, SMTT(60)
  <1>4. k \in [v.pre -> 0..BatchCap]
    <2>1. c \in [v.pre -> 0..BatchCap]
      BY <1>3 DEF Chunks
    <2> QED
      BY <1>3, <2>1 DEF Trimmed
  <1>5. DecodeItems(v) \subseteq v.dec
    BY DEF DecodeItems
  <1>6. \A f \in v.pre : k[f] \in Nat
    BY <1>4, Constants
  <1> QED
    BY <1>1, <1>2, <1>5, <1>6, SMTT(60)

(* What a tick makes of a session of the batch: its sequence stays, and at *)
(* most one event is added to tx.                                          *)
Advanced(s, t) ==
    /\ t \in Session /\ t.state # "ABSENT" /\ t.seq = s.seq
    /\ t.tx = s.tx \/ \E e \in Event : t.tx = Append(s.tx, e)

(* Consuming the pending token or the chunk.                               *)
LEMMA EnactedType ==
    ASSUME NEW s \in Session, NEW n \in Nat
    PROVE  /\ Enacted(s, n) \in Session /\ Enacted(s, n).state = s.state
           /\ Enacted(s, n).tx = s.tx /\ Enacted(s, n).seq = s.seq
  <1>1. CASE s.state = "DECODE"
    BY <1>1, Zenon DEF Enacted, Session
  <1>2. CASE s.state # "DECODE"
    <2> DEFINE p == s.prefill + n
               q == s.npast + n
    <2>1. p \in Nat /\ q \in Nat
      BY SessionFields
    <2>2. Enacted(s, n) = [s EXCEPT !.prefill = p, !.npast = q]
      BY <1>2 DEF Enacted, Session
    <2> HIDE DEF p, q
    <2> QED
      BY <2>1, <2>2, ZenonT(60) DEF Session
  <1> QED
    BY <1>1, <1>2

(* Appending the token text, unless it is empty or held back.              *)
LEMMA EmitType ==
    ASSUME NEW s \in Session, NEW mute
    PROVE  /\ Emit(s, mute) \in Seq(Event)
           /\ Emit(s, mute) = s.tx \/ \E e \in Event : Emit(s, mute) = Append(s.tx, e)
  <1> DEFINE e == [ev |-> "token", id |-> s.id]
  <1>1. e \in Event /\ s.tx \in Seq(Event)
    BY SessionFields DEF Event, EventKinds
  <1>2. Append(s.tx, e) \in Seq(Event)
    BY <1>1, TxAppend
  <1>3. Emit(s, mute) = s.tx \/ Emit(s, mute) = Append(s.tx, e)
    BY DEF Emit
  <1> QED
    BY <1>1, <1>2, <1>3, SMTT(60)

(* Sampling for a session of the batch.                                    *)
LEMMA SampledAdvances ==
    ASSUME NEW s \in Session, NEW n \in Nat, NEW eog, NEW mute
    PROVE  Advanced(s, Sampled(s, n, eog, mute))
  <1> DEFINE a == Enacted(s, n)
             x == Emit(a, mute)
  <1>1. a \in Session /\ a.tx = s.tx /\ a.seq = s.seq
    BY EnactedType
  <1>2. x \in Seq(Event) /\ (x = s.tx \/ \E e \in Event : x = Append(s.tx, e))
    BY <1>1, EmitType, SMTT(60)
  <1>3. CASE s.state # "DECODE"
    <2> DEFINE t == [a EXCEPT !.state = "DECODE", !.pend = TRUE, !.emitted = TRUE, !.tx = x]
    <2>1. Sampled(s, n, eog, mute) = t
      BY <1>3 DEF Sampled, SampledPrefill
    <2> HIDE DEF a, x
    <2>2. t \in Session /\ t.state = "DECODE" /\ t.seq = a.seq /\ t.tx = x
      BY <1>1, <1>2, Zenon DEF Session, States
    <2> HIDE DEF t
    <2> QED
      BY <1>1, <1>2, <2>1, <2>2, SMTT(60) DEF Advanced
  <1>4. CASE s.state = "DECODE" /\ Ends(a, eog)
    <2> DEFINE e == [ev |-> IF a.gen >= MaxTokens THEN "length" ELSE "stop", id |-> a.id]
               y == Append(a.tx, e)
               t == [a EXCEPT !.state = "STREAM", !.npast = 0, !.emitted = TRUE, !.tx = y]
    <2>1. e \in Event
      BY <1>1, SessionFields DEF Event, EventKinds
    <2>2. Sampled(s, n, eog, mute) = t
      BY <1>1, <1>4 DEF Sampled, SampledDecode, Session
    <2> HIDE DEF e
    <2>3. y \in Seq(Event) /\ y = Append(s.tx, e)
      BY <1>1, <2>1, SessionFields, TxAppend, SMTT(60)
    <2> HIDE DEF a, x, y
    <2>4. t \in Session /\ t.state = "STREAM" /\ t.seq = a.seq /\ t.tx = y
      BY <1>1, <2>3, Zenon DEF Session, States
    <2> HIDE DEF t
    <2> QED
      BY <1>1, <2>1, <2>2, <2>3, <2>4 DEF Advanced
  <1>5. CASE s.state = "DECODE" /\ ~Ends(a, eog)
    <2> DEFINE g == a.gen + 1
               p == a.npast + 1
               t == [a EXCEPT !.gen = g, !.pend = TRUE, !.npast = p, !.emitted = TRUE, !.tx = x]
    <2>1. g \in Nat /\ p \in Nat
      BY <1>1, SessionFields
    <2>2. Sampled(s, n, eog, mute) = t
      BY <1>1, <1>5 DEF Sampled, SampledDecode, Session
    <2>3. a.state = "DECODE"
      BY <1>5, EnactedType
    <2> HIDE DEF a, x, g, p
    <2>4. t \in Session /\ t.state = a.state /\ t.seq = a.seq /\ t.tx = x
      BY <1>1, <1>2, <2>1, Zenon DEF Session
    <2> HIDE DEF t
    <2> QED
      BY <1>1, <1>2, <2>2, <2>3, <2>4 DEF Advanced
  <1> QED
    BY <1>3, <1>4, <1>5, SMTT(60)

(* A failed decode.                                                        *)
LEMMA FailedAdvances ==
    ASSUME NEW s \in Session, NEW n \in Nat
    PROVE  Advanced(s, Failed(Enacted(s, n))) /\ Unarmed(Failed(Enacted(s, n)).tx)
  <1> DEFINE a == Enacted(s, n)
             e == [ev |-> "decodeerror", id |-> a.id]
             y == Append(a.tx, e)
             t == [a EXCEPT !.state = "ERRORED", !.closed = TRUE, !.tx = y]
  <1>1. a \in Session /\ a.tx = s.tx /\ a.seq = s.seq
    BY EnactedType
  <1>2. e \in Event /\ e.ev = "decodeerror"
    BY <1>1, SessionFields DEF Event, EventKinds
  <1>3. Failed(a) = t
    BY <1>1 DEF Failed, Session
  <1> HIDE DEF e
  <1>4. y \in Seq(Event) /\ y = Append(s.tx, e) /\ Unarmed(y)
    BY <1>1, <1>2, SessionFields, TxAppend, SMTT(60)
  <1> HIDE DEF a, y
  <1>5. t \in Session /\ t.state = "ERRORED" /\ t.seq = a.seq /\ t.tx = y
    BY <1>1, <1>4, Zenon DEF Session, States
  <1>6. Failed(a) = Failed(Enacted(s, n))
    BY DEF a
  <1> HIDE DEF t
  <1> QED
    BY <1>1, <1>2, <1>3, <1>4, <1>5, <1>6, Zenon DEF Advanced

(* The cells after the batch: every sequence is counted, and a sequence    *)
(* that gains cells belongs to a session of the batch.                     *)
LEMMA CellsType ==
    ASSUME NEW batch \in SUBSET Fds, NEW plan \in [Fds -> Nat], NEW ended, kv \in Seq(Nat)
    PROVE  /\ Cells(batch, plan, ended) \in Seq(Nat)
           /\ DOMAIN Cells(batch, plan, ended) = DOMAIN kv
           /\ \A q \in DOMAIN kv : Cells(batch, plan, ended)[q] > 0 =>
                  kv[q] > 0 \/ \E f \in batch : sess[f].seq = q
  <1> DEFINE K == Cells(batch, plan, ended)
  <1>1. DOMAIN kv = 1..Len(kv) /\ Len(kv) \in Nat
    BY LenProperties
  <1>2. DOMAIN K = DOMAIN kv
    BY DEF Cells
  <1>3. ASSUME NEW q \in DOMAIN kv
        PROVE  K[q] \in Nat /\ (K[q] > 0 => kv[q] > 0 \/ \E f \in batch : sess[f].seq = q)
    <2> DEFINE own == {f \in batch : sess[f].seq = q}
               g == CHOOSE h \in own : TRUE
    <2>1. kv[q] \in Nat
      BY <1>1, <1>3, SMTT(60)
    <2>2. CASE own = {}
      BY <1>3, <2>1, <2>2, SMTT(60) DEF Cells
    <2>3. CASE own # {}
      <3>1. g \in own
        BY <2>3
      <3>2. K[q] = IF g \in ended THEN 0 ELSE kv[q] + plan[g]
        BY <1>3, <2>3 DEF Cells
      <3>3. plan[g] \in Nat
        BY <3>1
      <3> HIDE DEF g
      <3> QED
        BY <2>1, <2>3, <3>2, <3>3, SMTT(60)
    <2> QED
      BY <2>2, <2>3
  <1>4. K \in [1..Len(kv) -> Nat]
    <2>1. K = [q \in DOMAIN kv |-> K[q]]
      BY DEF Cells
    <2> HIDE DEF K
    <2> QED
      BY <1>1, <1>3, <2>1, SMTT(60)
  <1> HIDE DEF K
  <1>5. K \in Seq(Nat)
    BY <1>1, <1>4, SeqDef, SMTT(60)
  <1> QED
    BY <1>2, <1>3, <1>5 DEF K

(* The adapted batch target is a number.                                   *)
LEMMA RetargetType ==
    ASSUME NEW b \in Nat, NEW x \in Retarget(b)
    PROVE  x \in Nat
  <1>1. CASE x = b
    BY <1>1
  <1>2. CASE \E n \in Shrunk(b) : x = Most(MinBatch, n)
    <2>1. PICK n \in Shrunk(b) : x = Most(MinBatch, n)
      BY <1>2
    <2>2. n \in Int
      BY <2>1 DEF Shrunk
    <2> QED
      BY <2>1, <2>2, Constants, SMTT(60) DEF Most
  <1>3. CASE x = Least(BatchCap, b + Most(1, b \div 8))
    <2>1. b \div 8 \in Nat
      OBVIOUS
    <2>2. Most(1, b \div 8) \in Nat
      BY <2>1 DEF Most
    <2> QED
      BY <1>3, <2>2, Constants, SMTT(60) DEF Least
  <1> QED
    BY <1>1, <1>2, <1>3 DEF Retarget
=============================================================================
