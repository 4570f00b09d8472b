-------------------------------- MODULE Umad --------------------------------
(***************************************************************************)
(* The umad daemon: the event loop of umad/main.cpp over the poller, the   *)
(* SessionManager (ipc/session_manager.cpp) and the Scheduler              *)
(* (sched/scheduler.cpp, planned by module Policy), with its clients.      *)
(*                                                                         *)
(* The daemon is one thread.  Each handler runs to completion, so each is  *)
(* one action; clients act between any two of them.  An iteration of the   *)
(* loop is  Check, Wait, one action per polled event, IdleSweep, Tick.     *)
(*                                                                         *)
(* Data is abstracted to what the properties tell apart.  A frame is its   *)
(* kind, request id and number of prompt tokens; an event is its kind and  *)
(* request id.  The KV cache is the number of cells each sequence holds.   *)
(* Reads and writes move whole frames: rx and tx are byte queues, so how   *)
(* the bytes of a frame are cut does not change their order.               *)
(***************************************************************************)
EXTENDS Policy, Sequences

CONSTANTS
    MaxSessions,  \* cfg.max_sessions
    MaxTokens,    \* cfg.max_tokens
    BmtBudget,    \* cfg.bmt_budget_units, 0 = guard off
    Offers,       \* the frames clients send, without their ids
    MaxReqs,      \* bound: frames per connection
    MaxConns,     \* bound: sequence ids handed out, hence connections served
    SndCap,       \* socket send buffer, in events
    Env           \* which of EnvChoices the environment may do

Kinds == {"prompt", "metrics", "badframe", "badreq", "toolong", "notokens"}
EnvChoices == {"pipeline", "shut", "gone", "readerr", "decodefail", "null",
               "mute", "idle", "signal", "kqueue", "noaccept"}

ASSUME UmadAssumption ==
    /\ MaxSessions \in 1..Cardinality(Fds)
    /\ MaxTokens \in Nat
    /\ BmtBudget \in Nat
    /\ Offers \subseteq [kind : Kinds, n : Nat]
    /\ \A o \in Offers : o.kind = "prompt" => o.n > 0
    /\ MaxReqs \in Nat /\ MaxConns \in Nat
    /\ SndCap \in Nat \ {0}
    /\ Env \subseteq EnvChoices

VARIABLES
    sess,      \* SessionManager::sessions_, by descriptor
    order,     \* iteration order of that map
    kv,        \* KV cells held by each sequence; next_seq_id_ = Len(kv) + 1
    interest,  \* filters registered with the poller
    conn,      \* the socket of each descriptor and the client behind it
    backlog,   \* connections waiting to be accepted
    pc,        \* where the loop is
    readyL,    \* events of the last wait still to be handled: listen socket,
    readyR,    \*   descriptors handled as readable,
    readyW,    \*   descriptors handled as writable
    rr,        \* rr_decode_idx_ and rr_prefill_idx_
    target,    \* target_batch_
    shutdown,  \* g_shutdown
    newborn    \* history: descriptors accepted since the last wait

loopVars == <<pc, readyL, readyR, readyW, newborn>>
schedVars == <<rr, target>>
vars == <<sess, order, kv, interest, conn, backlog, loopVars, schedVars, shutdown>>
-----------------------------------------------------------------------------
NoSeq == -1
States == {"ABSENT", "RECV_REQ", "PREFILL", "DECODE", "STREAM", "ERRORED"}
Frame == [kind : Kinds, id : Nat, n : Nat]
EventKinds == {"token", "stop", "length", "decodeerror", "protoerror", "metrics"}
Event == [ev : EventKinds, id : Nat]
Terminal(e) == e.ev # "token"

(* ClientSession: `closed` is read_closed, `pend` has_pending_tok, `gen`   *)
(* generated_count, `emitted` first_emit_ns # 0, `idle` that               *)
(* last_activity_ns is older than the idle timeout.                        *)
Session ==
    [state : States, rx : Seq(Frame), tx : Seq(Event), seq : Nat \cup {NoSeq},
     prompt : Nat, prefill : Nat, pend : BOOLEAN, npast : Nat, gen : Nat,
     closed : BOOLEAN, emitted : BOOLEAN, id : Nat, idle : BOOLEAN]

Fresh ==
    [state |-> "RECV_REQ", rx |-> <<>>, tx |-> <<>>, seq |-> NoSeq,
     prompt |-> 0, prefill |-> 0, pend |-> FALSE, npast |-> 0, gen |-> 0,
     closed |-> FALSE, emitted |-> FALSE, id |-> 0, idle |-> FALSE]
Absent == [Fresh EXCEPT !.state = "ABSENT"]

(* The client end: `in` holds frames sent and not yet read by umad, `out`  *)
(* events written and not yet read by the client; `sent` counts frames,    *)
(* `ended` terminal events received, `ntok` tokens of the current reply.   *)
(* After umad closes the socket (peer = "hungup") the client still reads   *)
(* what was written, until the descriptor is used for another connection.  *)
Conn == [peer : {"none", "open", "shut", "gone", "hungup"}, in : Seq(Frame),
         out : Seq(Event), sent : Nat, ended : Nat, ntok : Nat]
NoConn == [peer |-> "none", in |-> <<>>, out |-> <<>>, sent |-> 0, ended |-> 0, ntok |-> 0]
HungUp(c) == IF c.peer = "gone" THEN NoConn ELSE [c EXCEPT !.peer = "hungup", !.in = <<>>]

Live == {f \in Fds : sess[f].state # "ABSENT"}

Init ==
    /\ sess = [f \in Fds |-> Absent]
    /\ order \in Orders
    /\ kv = <<>>
    /\ interest = [f \in Fds |-> {}]
    /\ conn = [f \in Fds |-> NoConn]
    /\ backlog = 0
    /\ pc = "check"
    /\ readyL = FALSE /\ readyR = {} /\ readyW = {}
    /\ rr = [dec |-> 0, pre |-> 0]
    /\ target = BatchCap
    /\ shutdown = FALSE
    /\ newborn = {}
-----------------------------------------------------------------------------
(*                               The clients                               *)

Connect ==
    /\ backlog = 0
    /\ Len(kv) + Cardinality({f \in Live : sess[f].seq = NoSeq}) < MaxConns
    /\ backlog' = backlog + 1
    /\ UNCHANGED <<sess, order, kv, interest, conn, loopVars, schedVars, shutdown>>

(* A conforming client waits for the end of a reply before the next        *)
(* request (docs/PROTOCOL.md, "One request at a time per session").        *)
Send(f, o) ==
    /\ conn[f].peer = "open"
    /\ conn[f].sent < MaxReqs
    /\ "pipeline" \in Env \/ conn[f].sent = conn[f].ended
    /\ conn' = [conn EXCEPT ![f].sent = @ + 1,
                            ![f].in = Append(@, [kind |-> o.kind, id |-> conn[f].sent + 1,
                                                 n |-> o.n])]
    /\ UNCHANGED <<sess, order, kv, interest, backlog, loopVars, schedVars, shutdown>>

Receive(f) ==
    /\ conn[f].peer \in {"open", "shut", "hungup"}
    /\ conn[f].out # <<>>
    /\ conn' = [conn EXCEPT ![f].out = Tail(@),
                            ![f].ended = IF Terminal(Head(conn[f].out)) THEN @ + 1 ELSE @,
                            ![f].ntok = IF Terminal(Head(conn[f].out)) THEN 0 ELSE @ + 1]
    /\ UNCHANGED <<sess, order, kv, interest, backlog, loopVars, schedVars, shutdown>>

(* shutdown(SHUT_WR): no more requests, but still reading.                 *)
HalfClose(f) ==
    /\ "shut" \in Env
    /\ conn[f].peer = "open"
    /\ conn' = [conn EXCEPT ![f].peer = "shut"]
    /\ UNCHANGED <<sess, order, kv, interest, backlog, loopVars, schedVars, shutdown>>

Disconnect(f) ==
    /\ "gone" \in Env
    /\ conn[f].peer \in {"open", "shut"}
    /\ conn' = [conn EXCEPT ![f].peer = "gone", ![f].out = <<>>]
    /\ UNCHANGED <<sess, order, kv, interest, backlog, loopVars, schedVars, shutdown>>

(* idle_timeout_sec passes since the session's last activity.              *)
GrowIdle(f) ==
    /\ "idle" \in Env
    /\ f \in Live /\ ~sess[f].idle
    /\ sess' = [sess EXCEPT ![f].idle = TRUE]
    /\ UNCHANGED <<order, kv, interest, conn, backlog, loopVars, schedVars, shutdown>>

(* SIGINT or SIGTERM sets g_shutdown.  If the thread is blocked in kevent  *)
(* the call fails with EINTR and the loop condition is tested again; at    *)
(* pc = "wait" the signal may also arrive just before the call.            *)
Signal ==
    /\ "signal" \in Env
    /\ ~shutdown
    /\ shutdown' = TRUE
    /\ \/ pc' = pc
       \/ pc = "wait" /\ pc' = "check"
    /\ UNCHANGED <<sess, order, kv, interest, conn, backlog, readyL, readyR, readyW,
                   newborn, schedVars>>
-----------------------------------------------------------------------------
(*                        The loop up to the events                        *)

Check ==
    /\ pc = "check"
    /\ pc' = IF shutdown THEN "exit" ELSE "wait"
    /\ UNCHANGED <<sess, order, kv, interest, conn, backlog, readyL, readyR, readyW,
                   newborn, schedVars, shutdown>>

Readable(f) == conn[f].in # <<>> \/ conn[f].peer \in {"shut", "gone"}
Writable(f) == Len(conn[f].out) < SndCap \/ conn[f].peer = "gone"

Ready(f) == ("R" \in interest[f] /\ Readable(f)) \/ ("W" \in interest[f] /\ Writable(f))

(* has_ready_work: the loop then polls with timeout 0.                     *)
HasReadyWork ==
    \E f \in Live :
        \/ sess[f].state = "PREFILL" /\ sess[f].prefill < sess[f].prompt
        \/ sess[f].state = "DECODE" /\ sess[f].pend

(* Faulty variant: one event per filter instead of one per descriptor.     *)
PollReturnsPerFilter ==
    /\ pc' = "events"
    /\ readyL' = (backlog > 0)
    /\ readyR' = {f \in Fds : "R" \in interest[f] /\ Readable(f)}
    /\ readyW' = {f \in Fds : "W" \in interest[f] /\ Writable(f)}
    /\ newborn' = {}
    /\ UNCHANGED <<sess, order, kv, interest, conn, backlog, schedVars, shutdown>>

(* poller.wait returns the level-triggered readiness of the registered     *)
(* filters, coalesced by descriptor.  The loop tests readable() first, so  *)
(* an event with both flags is handled as readable only.                   *)
PollReturns ==
    /\ pc' = "events"
    /\ readyL' = (backlog > 0)
    /\ readyR' = {f \in Fds : "R" \in interest[f] /\ Readable(f)}
    /\ readyW' = {f \in Fds : "W" \in interest[f] /\ Writable(f)} \ readyR'
    /\ newborn' = {}
    /\ UNCHANGED <<sess, order, kv, interest, conn, backlog, schedVars, shutdown>>

PollPrompt == backlog > 0 \/ HasReadyWork \/ \E f \in Fds : Ready(f)

Wait == pc = "wait" /\ PollPrompt /\ PollReturns

(* Faulty variant: kevent without a timeout.                               *)
WaitForever == FALSE

(* Nothing is ready and the idle timeout of the call expires.              *)
WaitTimeout == pc = "wait" /\ ~PollPrompt /\ PollReturns

(* kevent fails with an error other than EINTR: the loop ends.             *)
WaitFails ==
    /\ "kqueue" \in Env
    /\ pc = "wait"
    /\ pc' = "exit"
    /\ UNCHANGED <<sess, order, kv, interest, conn, backlog, readyL, readyR, readyW,
                   newborn, schedVars, shutdown>>

(* Faulty variant: the session limit is off by one.                        *)
AcceptOneMore ==
    /\ pc = "events" /\ readyL
    /\ readyL' = FALSE
    /\ backlog' = backlog - 1
    /\ IF Cardinality(Live) > MaxSessions
       THEN UNCHANGED <<sess, order, interest, conn, newborn>>
       ELSE \E f \in Fds \ Live :
               /\ sess' = [sess EXCEPT ![f] = Fresh]
               /\ order' \in Orders
               /\ interest' = [interest EXCEPT ![f] = {"R"}]
               /\ conn' = [conn EXCEPT ![f] = [NoConn EXCEPT !.peer = "open"]]
               /\ newborn' = newborn \cup {f}
    /\ UNCHANGED <<kv, pc, readyR, readyW, schedVars, shutdown>>

(* Listen socket readable: accept one connection; close it at once when    *)
(* the session map is full.  The kernel picks any free descriptor, and the *)
(* insertion may rehash the map.                                           *)
Accept ==
    /\ pc = "events" /\ readyL
    /\ readyL' = FALSE
    /\ backlog' = backlog - 1
    /\ IF Cardinality(Live) >= MaxSessions
       THEN UNCHANGED <<sess, order, interest, conn, newborn>>
       ELSE \E f \in Fds \ Live :
               /\ sess' = [sess EXCEPT ![f] = Fresh]
               /\ order' \in Orders
               /\ interest' = [interest EXCEPT ![f] = {"R"}]
               /\ conn' = [conn EXCEPT ![f] = [NoConn EXCEPT !.peer = "open"]]
               /\ newborn' = newborn \cup {f}
    /\ UNCHANGED <<kv, pc, readyR, readyW, schedVars, shutdown>>

(* accept returns an error: the connection stays in the backlog.           *)
AcceptFails ==
    /\ "noaccept" \in Env
    /\ pc = "events" /\ readyL
    /\ readyL' = FALSE
    /\ UNCHANGED <<sess, order, kv, interest, conn, backlog, pc, readyR, readyW, newborn,
                   schedVars, shutdown>>
-----------------------------------------------------------------------------
(*                    Session bookkeeping used by handlers                 *)

SeqRm(k, q) == IF q \in DOMAIN k THEN [k EXCEPT ![q] = 0] ELSE k

Store(f, s, c, int, k) ==
    /\ sess' = [sess EXCEPT ![f] = s]
    /\ conn' = [conn EXCEPT ![f] = c]
    /\ interest' = [interest EXCEPT ![f] = int]
    /\ kv' = k

(* Faulty variant: the sequence is not cleared.                            *)
CloseKeepsCells(f, c, q, k) == Store(f, Absent, HungUp(c), {}, k)

(* SessionManager::close: drop the filters, clear the sequence, close the  *)
(* socket, erase the session.                                              *)
Close(f, c, q, k) == Store(f, Absent, HungUp(c), {}, SeqRm(k, q))

(* ::write of as much of tx as the socket takes; nothing when it is full   *)
(* or the peer is gone.                                                    *)
Room(c) == IF c.peer = "gone" THEN 0 ELSE SndCap - Len(c.out)
Written(s, c) == Least(Len(s.tx), Room(c))
Drained(s, w) == [s EXCEPT !.tx = SubSeq(s.tx, w + 1, Len(s.tx))]
Delivered(s, c, w) == [c EXCEPT !.out = @ \o SubSeq(s.tx, 1, w)]

(* The session is ready for the next request on the same connection.       *)
Reset(s) ==
    [s EXCEPT !.state = "RECV_REQ", !.prompt = 0, !.prefill = 0, !.gen = 0,
              !.pend = FALSE, !.npast = 0, !.emitted = FALSE]

(* Faulty variant: every flush ends the reply, not only one in STREAM.     *)
FlushedEndsAny(f, s, c, int, rearm, k) ==
    IF s.state = "ERRORED" \/ s.closed THEN Close(f, c, s.seq, k)
    ELSE Store(f, Reset(s), c, int \cup rearm, k)

(* Faulty variant: hang up after EOF as soon as nothing is left to write.  *)
FlushedHangsUp(f, s, c, int, rearm, k) ==
    IF s.state = "ERRORED" \/ s.closed THEN Close(f, c, s.seq, k)
    ELSE IF s.state = "STREAM"
         THEN Store(f, Reset(s), c, int \cup rearm, k)
         ELSE Store(f, s, c, int, k)

(* What both handlers do once tx is empty; `rearm` is what the read path   *)
(* adds to the filters when it resets the session.                         *)
Flushed(f, s, c, int, rearm, k) ==
    IF s.state = "ERRORED" \/ (s.state = "STREAM" /\ s.closed)
    THEN Close(f, c, s.seq, k)
    ELSE IF s.state = "STREAM"
         THEN Store(f, Reset(s), c, int \cup rearm, k)
         ELSE Store(f, s, c, int, k)
-----------------------------------------------------------------------------
(*                        Readable client descriptor                       *)

(* Outcome of parsing: the session and the ReadResult flags.               *)
Parsed(s, removed, wants) == [s |-> s, removed |-> removed, wants |-> wants]

(* One-shot replies: error or metrics event, then close after the flush.   *)
Refuse(s, ev, id) ==
    Parsed([s EXCEPT !.tx = Append(@, [ev |-> ev, id |-> id]),
                     !.state = "STREAM", !.closed = TRUE], TRUE, TRUE)

(* A request is taken from rx; the id of the session changes only if the   *)
(* frame carries a prompt.                                                 *)
Take(s) == [s EXCEPT !.rx = Tail(@)]

(* Faulty variant: the id of the session's first request is kept.          *)
AdoptKeepsId(s, m) == [Take(s) EXCEPT !.id = IF @ = 0 THEN m.id ELSE @]

Adopt(s, m) == [Take(s) EXCEPT !.id = m.id]

(* Faulty variant: next_seq_id_ is not incremented after the first use.    *)
StartPrefillSameSeq(s, m) ==
    [Adopt(s, m) EXCEPT !.prompt = m.n, !.prefill = 0, !.gen = 0, !.pend = FALSE,
                        !.npast = 0, !.emitted = FALSE, !.state = "PREFILL",
                        !.seq = IF @ = NoSeq THEN 1 ELSE @]

(* Faulty variant: every request takes a new sequence.                     *)
StartPrefillNewSeq(s, m) ==
    [Adopt(s, m) EXCEPT !.prompt = m.n, !.prefill = 0, !.gen = 0, !.pend = FALSE,
                        !.npast = 0, !.emitted = FALSE, !.state = "PREFILL",
                        !.seq = Len(kv) + 1]

(* Tokens were produced: start over at PREFILL, whatever the session was   *)
(* doing before, keeping its sequence if it has one.                       *)
StartPrefill(s, m) ==
    [Adopt(s, m) EXCEPT !.prompt = m.n, !.prefill = 0, !.gen = 0, !.pend = FALSE,
                        !.npast = 0, !.emitted = FALSE, !.state = "PREFILL",
                        !.seq = IF @ = NoSeq THEN Len(kv) + 1 ELSE @]

(* try_read_frame on one frame and the request handling that follows.      *)
ParseOne(s) ==
    IF s.rx = <<>> THEN Parsed(s, FALSE, FALSE)
    ELSE LET m == Head(s.rx) IN
         CASE m.kind = "badframe" -> Refuse(s, "protoerror", s.id)
           [] m.kind = "metrics"  -> Refuse(Take(s), "metrics", 0)
           [] m.kind = "badreq"   -> Refuse(Take(s), "protoerror", m.id)
           [] m.kind = "toolong"  -> Refuse(Adopt(s, m), "protoerror", m.id)
           [] m.kind = "notokens" ->
                Parsed([Adopt(s, m) EXCEPT !.prompt = 0, !.state = "STREAM",
                            !.tx = Append(@, [ev |-> "stop", id |-> m.id])], FALSE, TRUE)
           [] m.kind = "prompt"   -> Parsed(StartPrefill(s, m), FALSE, FALSE)

(* Faulty variant: EOF does not set read_closed.                           *)
DrainIgnoresEof(s, c) ==
    [s EXCEPT !.rx = @ \o c.in,
              !.idle = IF c.peer # "open" \/ c.in # <<>> THEN FALSE ELSE @]

(* The read loop: everything the socket holds goes to rx, then EOF.        *)
Drain(s, c) ==
    LET eof == c.peer # "open"
    IN  [s EXCEPT !.rx = @ \o c.in,
                  !.idle = IF eof \/ c.in # <<>> THEN FALSE ELSE @,
                  !.closed = @ \/ eof]

(* on_readable and what the loop does with its ReadResult, including the   *)
(* immediate write.                                                        *)
ReadOK(f) ==
    LET r == ParseOne(Drain(sess[f], conn[f]))
        c0 == [conn[f] EXCEPT !.in = <<>>]
        k == IF r.s.seq > Len(kv) THEN Append(kv, 0) ELSE kv
        int == IF r.removed \/ c0.peer # "open" THEN interest[f] \ {"R"} ELSE interest[f]
        w == IF r.wants THEN Written(r.s, c0) ELSE 0
        s == Drained(r.s, w)
        c == Delivered(r.s, c0, w)
    IN  IF ~r.wants THEN Store(f, r.s, c0, int, k)
        ELSE IF s.tx # <<>> THEN Store(f, s, c, int \cup {"W"}, k)
        ELSE Flushed(f, s, c, int, {"R"}, k)

(* read fails with another errno: the session only stops being read.       *)
ReadFails(f) ==
    /\ "readerr" \in Env /\ conn[f].peer = "gone"
    /\ Store(f, [sess[f] EXCEPT !.rx = @ \o conn[f].in,
                                !.idle = @ /\ conn[f].in = <<>>],
             [conn[f] EXCEPT !.in = <<>>], interest[f] \ {"R"}, kv)

ReadEvent(f) ==
    /\ pc = "events" /\ f \in readyR
    /\ readyR' = readyR \ {f}
    /\ IF f \notin Live THEN UNCHANGED <<sess, conn, interest, kv>>
       ELSE ReadOK(f) \/ ReadFails(f)
    /\ UNCHANGED <<order, backlog, pc, readyL, readyW, newborn, schedVars, shutdown>>
-----------------------------------------------------------------------------
(*                        Writable client descriptor                       *)

(* Faulty variant: the Write filter is removed after each write.           *)
WriteSomeDisarms(f) ==
    LET w == Written(sess[f], conn[f])
        s == [Drained(sess[f], w) EXCEPT !.idle = @ /\ w = 0]
        c == Delivered(sess[f], conn[f], w)
    IN  IF s.tx # <<>> THEN Store(f, s, c, interest[f] \ {"W"}, kv)
        ELSE Flushed(f, s, c, interest[f] \ {"W"}, {}, kv)

WriteSome(f) ==
    LET w == Written(sess[f], conn[f])
        s == [Drained(sess[f], w) EXCEPT !.idle = @ /\ w = 0]
        c == Delivered(sess[f], conn[f], w)
    IN  IF s.tx # <<>> THEN Store(f, s, c, interest[f], kv)
        ELSE Flushed(f, s, c, interest[f] \ {"W"}, {}, kv)

WriteEvent(f) ==
    /\ pc = "events" /\ f \in readyW
    /\ readyW' = readyW \ {f}
    /\ IF f \notin Live THEN UNCHANGED <<sess, conn, interest, kv>>
       ELSE IF sess[f].tx # <<>> /\ conn[f].peer = "gone"
            THEN Close(f, conn[f], sess[f].seq, kv)        \* EPIPE
            ELSE WriteSome(f)
    /\ UNCHANGED <<order, backlog, pc, readyL, readyR, newborn, schedVars, shutdown>>
-----------------------------------------------------------------------------
(*                      Idle cleanup and scheduler tick                    *)

(* Faulty variant: the sweep skips sessions that are not read any more.    *)
IdleSweepOpenOnly ==
    /\ pc = "events" /\ ~readyL /\ readyR = {} /\ readyW = {}
    /\ pc' = "tick"
    /\ LET gone == {f \in Live : sess[f].idle /\ "R" \in interest[f]}
       IN  /\ sess' = [f \in Fds |-> IF f \in gone THEN Absent ELSE sess[f]]
           /\ conn' = [f \in Fds |-> IF f \in gone THEN HungUp(conn[f]) ELSE conn[f]]
           /\ interest' = [f \in Fds |-> IF f \in gone THEN {} ELSE interest[f]]
           /\ kv' = [q \in DOMAIN kv |->
                        IF \E f \in gone : sess[f].seq = q THEN 0 ELSE kv[q]]
    /\ UNCHANGED <<order, backlog, readyL, readyR, readyW, newborn, schedVars, shutdown>>

IdleSweep ==
    /\ pc = "events" /\ ~readyL /\ readyR = {} /\ readyW = {}
    /\ pc' = "tick"
    /\ LET gone == {f \in Live : sess[f].idle}
       IN  /\ sess' = [f \in Fds |-> IF f \in gone THEN Absent ELSE sess[f]]
           /\ conn' = [f \in Fds |-> IF f \in gone THEN HungUp(conn[f]) ELSE conn[f]]
           /\ interest' = [f \in Fds |-> IF f \in gone THEN {} ELSE interest[f]]
           /\ kv' = [q \in DOMAIN kv |->
                        IF \E f \in gone : sess[f].seq = q THEN 0 ELSE kv[q]]
    /\ UNCHANGED <<order, backlog, readyL, readyR, readyW, newborn, schedVars, shutdown>>

(* Faulty variant: sessions whose client closed its end are not scheduled. *)
PoolViewSkipsClosed ==
    [dec |-> {f \in Live : sess[f].state = "DECODE" /\ sess[f].pend /\ ~sess[f].closed},
     pre |-> {f \in Live : sess[f].state = "PREFILL" /\ sess[f].prefill < sess[f].prompt
                           /\ ~sess[f].closed},
     late |-> {f \in Live : sess[f].emitted},
     remain |-> [f \in Fds |-> sess[f].prompt - sess[f].prefill],
     npast |-> [f \in Fds |-> sess[f].npast],
     order |-> order, rrD |-> rr.dec, rrP |-> rr.pre, target |-> target,
     bmt |-> BmtBudget]

PoolView ==
    [dec |-> {f \in Live : sess[f].state = "DECODE" /\ sess[f].pend},
     pre |-> {f \in Live : sess[f].state = "PREFILL" /\ sess[f].prefill < sess[f].prompt},
     late |-> {f \in Live : sess[f].emitted},
     remain |-> [f \in Fds |-> sess[f].prompt - sess[f].prefill],
     npast |-> [f \in Fds |-> sess[f].npast],
     order |-> order, rrD |-> rr.dec, rrP |-> rr.pre, target |-> target,
     bmt |-> BmtBudget]

(* The plan of the tick: how many tokens each descriptor puts in the       *)
(* batch, one for the decode items and the chunk for the prefill items.    *)
Plans(v) ==
    {[f \in Fds |-> IF f \in DecodeItems(v) THEN 1
                    ELSE IF f \in v.pre THEN k[f] ELSE 0] :
        k \in UNION {Trimmed(v, c) : c \in Chunks(v)}}

(* Filling the batch arrays consumes the pending token or prompt tokens.   *)
Enacted(s, n) ==
    IF s.state = "DECODE" THEN [s EXCEPT !.pend = FALSE]
    ELSE [s EXCEPT !.prefill = @ + n, !.npast = @ + n]

(* llama_decode failed: error event, no flush is arranged.                 *)
Failed(s) ==
    [s EXCEPT !.state = "ERRORED", !.closed = TRUE,
              !.tx = Append(@, [ev |-> "decodeerror", id |-> s.id])]

Emit(s, mute) == IF mute THEN s.tx ELSE Append(s.tx, [ev |-> "token", id |-> s.id])

(* A token was sampled for a session that was in PREFILL.                  *)
SampledPrefill(s, mute) ==
    [s EXCEPT !.state = "DECODE", !.pend = TRUE, !.emitted = TRUE, !.tx = Emit(s, mute)]

(* A token was sampled for a session in DECODE: end of the reply, or one   *)
(* more token.                                                             *)
Ends(s, eog) == eog \/ s.gen >= MaxTokens

(* Faulty variant: the position is reset to "none" at the end of a reply.  *)
SampledDecodeNoPos(s, eog, mute) ==
    IF Ends(s, eog)
    THEN [s EXCEPT !.state = "STREAM", !.npast = -1, !.emitted = TRUE,
                   !.tx = Append(@, [ev |-> "stop", id |-> s.id])]
    ELSE [s EXCEPT !.gen = @ + 1, !.pend = TRUE, !.npast = @ + 1, !.emitted = TRUE,
                   !.tx = Emit(s, mute)]

(* Faulty variant: the piece of the token that ends the reply is sent too. *)
SampledDecodeBoth(s, eog, mute) ==
    IF Ends(s, eog)
    THEN [s EXCEPT !.state = "STREAM", !.npast = 0, !.emitted = TRUE,
                   !.tx = Append(Emit(s, mute),
                                 [ev |-> IF s.gen >= MaxTokens THEN "length" ELSE "stop",
                                  id |-> s.id])]
    ELSE [s EXCEPT !.gen = @ + 1, !.pend = TRUE, !.npast = @ + 1, !.emitted = TRUE,
                   !.tx = Emit(s, mute)]

SampledDecode(s, eog, mute) ==
    IF Ends(s, eog)
    THEN [s EXCEPT !.state = "STREAM", !.npast = 0, !.emitted = TRUE,
                   !.tx = Append(@, [ev |-> IF s.gen >= MaxTokens THEN "length" ELSE "stop",
                                     id |-> s.id])]
    ELSE [s EXCEPT !.gen = @ + 1, !.pend = TRUE, !.npast = @ + 1, !.emitted = TRUE,
                   !.tx = Emit(s, mute)]

Sampled(s, n, eog, mute) ==
    IF s.state = "DECODE" THEN SampledDecode(Enacted(s, n), eog, mute)
    ELSE SampledPrefill(Enacted(s, n), mute)

(* Faulty variant: no seq_rm at the end of a reply.                        *)
CellsKept(batch, plan, ended) ==
    [q \in DOMAIN kv |->
        LET own == {f \in batch : sess[f].seq = q}
        IN  IF own = {} THEN kv[q] ELSE kv[q] + plan[CHOOSE g \in own : TRUE]]

(* KV cells after the batch is decoded; seq_rm for the replies that ended. *)
Cells(batch, plan, ended) ==
    [q \in DOMAIN kv |->
        LET own == {f \in batch : sess[f].seq = q}
        IN  IF own = {} THEN kv[q]
            ELSE LET f == CHOOSE g \in own : TRUE
                 IN  IF f \in ended THEN 0 ELSE kv[q] + plan[f]]

DecodeOK(batch, plan) ==
    \E eog \in SUBSET batch, mute \in SUBSET batch, null \in SUBSET batch :
        /\ \A f \in eog : sess[f].state = "DECODE" /\ f \notin null
        /\ mute # {} => "mute" \in Env
        /\ null # {} => "null" \in Env
        /\ LET new == [f \in Fds |->
                         IF f \notin batch THEN sess[f]
                         ELSE IF f \in null THEN Enacted(sess[f], plan[f])
                         ELSE Sampled(sess[f], plan[f], f \in eog, f \in mute)]
               arm == {f \in batch \ null : sess[f].tx = <<>> /\ new[f].tx # <<>>}
               over == {f \in batch \ null : new[f].state = "STREAM"}
           IN  /\ sess' = new
               /\ interest' = [f \in Fds |-> IF f \in arm THEN interest[f] \cup {"W"}
                                             ELSE interest[f]]
               /\ kv' = Cells(batch, plan, over)

(* Every session of a failed batch is ERRORED; the backend may or may not  *)
(* have kept the cells it had already written.                             *)
DecodeFails(batch, plan) ==
    /\ "decodefail" \in Env
    /\ sess' = [f \in Fds |-> IF f \in batch THEN Failed(Enacted(sess[f], plan[f]))
                              ELSE sess[f]]
    /\ kv' \in {kv, Cells(batch, plan, {})}
    /\ UNCHANGED interest

Tick ==
    /\ pc = "tick"
    /\ pc' = "check"
    /\ LET v == PoolView IN
       \E plan \in Plans(v) :
         LET batch == {f \in Fds : plan[f] > 0} IN
         /\ rr' = [dec |-> NextCursor(v.dec, v.rrD, Budget0(v)),
                   pre |-> NextCursor(v.pre, v.rrP, PrefillBudget(v))]
         /\ IF batch = {} THEN UNCHANGED <<sess, interest, kv, target>>
            ELSE /\ target' \in Retarget(target)
                 /\ DecodeOK(batch, plan) \/ DecodeFails(batch, plan)
    /\ UNCHANGED <<order, conn, backlog, readyL, readyR, readyW, newborn, shutdown>>
-----------------------------------------------------------------------------
Client(f) ==
    \/ \E o \in Offers : Send(f, o)
    \/ Receive(f)
    \/ HalfClose(f)
    \/ Disconnect(f)

Loop ==
    \/ Check \/ Wait \/ Accept \/ AcceptFails
    \/ \E f \in Fds : ReadEvent(f) \/ WriteEvent(f)
    \/ IdleSweep \/ Tick

Next ==
    \/ Connect
    \/ \E f \in Fds : Client(f) \/ GrowIdle(f)
    \/ Signal
    \/ WaitTimeout \/ WaitFails
    \/ Loop

Spec == Init /\ [][Next]_vars

(* The daemon thread keeps running as long as kevent has something to      *)
(* return, and clients keep reading their socket.                          *)
FairSpec == Spec /\ WF_vars(Loop) /\ \A f \in Fds : WF_vars(Receive(f))

(* Moreover a blocked kevent returns when its timeout expires.             *)
TimedSpec == FairSpec /\ WF_vars(WaitTimeout)
=============================================================================
