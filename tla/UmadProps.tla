----------------------------- MODULE UmadProps -----------------------------
(***************************************************************************)
(* What umad promises, stated over module Umad.                            *)
(***************************************************************************)
EXTENDS Umad

Pipelining == "pipeline" \in Env
Busy(f) == sess[f].state \in {"PREFILL", "DECODE"}

(* Everything on its way to the client, in the order it will read it.      *)
Stream(f) == conn[f].out \o sess[f].tx

(* A request that is still to be parsed; a reply whose end is on its way.  *)
Unread(f) == conn[f].in # <<>> \/ (sess[f].rx # <<>> /\ sess[f].state = "RECV_REQ")
Ending(f) == \E k \in DOMAIN Stream(f) : Terminal(Stream(f)[k])

(* Types of the daemon's state.                                            *)
TypeOK ==
    /\ sess \in [Fds -> Session]
    /\ order \in Orders
    /\ kv \in Seq(Nat)
    /\ interest \in [Fds -> SUBSET {"R", "W"}]
    /\ conn \in [Fds -> Conn]
    /\ backlog \in Nat
    /\ pc \in {"check", "wait", "events", "tick", "exit"}
    /\ readyL \in BOOLEAN
    /\ readyR \in SUBSET Fds /\ readyW \in SUBSET Fds
    /\ rr \in [dec : Nat, pre : Nat]
    /\ target \in Nat
    /\ shutdown \in BOOLEAN
    /\ newborn \in SUBSET Fds
-----------------------------------------------------------------------------
(*                          Safety, for any client                         *)

(* The session map never outgrows max_sessions (main.cpp:184).             *)
SessionsBounded == Cardinality(Live) <= MaxSessions

(* No two sessions share a llama sequence, so neither can read or clear    *)
(* the other's KV cells (session_manager.cpp:300), and every sequence was  *)
(* handed out by next_seq_id_.                                             *)
SequencesDistinct ==
    \A f \in Live : sess[f].seq # NoSeq =>
        /\ sess[f].seq \in DOMAIN kv
        /\ \A g \in Live \ {f} : sess[g].seq # sess[f].seq

(* A sequence without a session holds no KV cells: whichever way a session *)
(* ends (flush, EPIPE, idle sweep), its cells are released.                *)
NoOrphanCells ==
    \A q \in DOMAIN kv : kv[q] > 0 => \E f \in Live : sess[f].seq = q

(* An event of the last wait is never applied to another connection: its   *)
(* descriptor was not closed and accepted again since (one event per       *)
(* descriptor, and handlers close only their own), and filters exist only  *)
(* for live sessions.                                                      *)
EventsCurrent ==
    /\ readyR \cup readyW \subseteq Live \ newborn
    /\ readyR \cap readyW = {}
    /\ \A f \in Fds : interest[f] # {} => f \in Live

(* Output waiting in tx is always watched for writability, with one        *)
(* exception: the error event of a failed decode, which                    *)
(* scheduler.cpp:237-249 does not report for arming.                       *)
TxArmed ==
    \A f \in Live : sess[f].tx # <<>> /\ "W" \notin interest[f] =>
        \E k \in DOMAIN sess[f].tx : sess[f].tx[k].ev = "decodeerror"

-----------------------------------------------------------------------------
(*                 Safety, for clients that await each reply               *)

(* The position fed next is the number of cells the sequence holds, and a  *)
(* session that awaits a request holds none: llama_decode is never given a *)
(* gap or an overlap of positions (scheduler.cpp:113, 126).                *)
PositionsContinuous ==
    ~Pipelining =>
        \A f \in Live : sess[f].seq # NoSeq =>
            /\ sess[f].state = "PREFILL" \/ (sess[f].state = "DECODE" /\ sess[f].pend)
                 => kv[sess[f].seq] = sess[f].npast
            /\ sess[f].state = "RECV_REQ" => kv[sess[f].seq] = 0

(* What the client reads is one reply at a time: events of the request it  *)
(* sent last, the terminal event (eos, error or metrics) at the end, and   *)
(* nothing after it until the next request.                                *)
ReplyWellFormed ==
    ~Pipelining =>
        \A f \in Live : LET st == Stream(f) IN
            /\ st # <<>> => conn[f].sent = conn[f].ended + 1 \/ conn[f].peer = "gone"
            /\ \A k \in DOMAIN st :
                 /\ Terminal(st[k]) => k = Len(st)
                 /\ st[k].ev \in {"token", "stop", "length", "decodeerror"} =>
                        st[k].id = conn[f].sent

(* A request never gets lost: as long as the client waits, its frame is    *)
(* still to be parsed, or its session is at work on it, or the terminal    *)
(* event is in tx or in the socket; and never two of these.  (In tx is not *)
(* always on its way: the error of a failed decode may stay there, see     *)
(* TxArmed and ErrorsFlushedAndClosed.)                                    *)
RequestAccountedFor ==
    ~Pipelining =>
        \A f \in Live :
            conn[f].peer # "gone" /\ conn[f].sent > conn[f].ended =>
                /\ Unread(f) \/ Busy(f) \/ Ending(f)
                /\ ~(Unread(f) /\ Busy(f)) /\ ~(Unread(f) /\ Ending(f))
                /\ ~(Busy(f) /\ Ending(f))

(* A session whose client may still send is watched for input.  The one    *)
(* exception is a session whose read failed: session_manager.cpp:79-81     *)
(* drops the Read filter without setting read_closed.                      *)
WatchedForInput ==
    "readerr" \notin Env =>
        \A f \in Live : ~sess[f].closed => "R" \in interest[f]

(* umad hangs up on a client only after the terminal event of its request  *)
(* was written to the socket (main.cpp:229-233, 272-278); the idle sweep,  *)
(* which may cut a reply short, is the one exception.                      *)
HangUpAfterReply ==
    ~Pipelining /\ "idle" \notin Env =>
        \A f \in Fds : conn[f].peer = "hungup" /\ conn[f].sent > conn[f].ended =>
            \E k \in DOMAIN conn[f].out : Terminal(conn[f].out[k])
-----------------------------------------------------------------------------
(*                         Abstract specifications                         *)

Pool == INSTANCE SequencePool WITH
    Users <- Fds,
    pool <- [q \in DOMAIN kv |-> [users |-> {f \in Live : sess[f].seq = q},
                                  cells |-> kv[q]]]

(* Sequences are used as SequencePool prescribes, for any client and any   *)
(* failure: one user at a time, cells only for that user, and none ever    *)
(* again once the session is closed (session_manager.cpp:36-39, 300).      *)
SequencesPooled == Pool!Spec

Stage(f) ==
    IF conn[f].peer \in {"none", "gone"} THEN "away"
    ELSE IF conn[f].sent = conn[f].ended THEN "idle"
    ELSE IF Ending(f) THEN "replied"
    ELSE IF Busy(f) THEN "serving"
    ELSE IF Unread(f) THEN "asked"
    ELSE "lost"

Toks(f) ==
    IF Stage(f) = "away" THEN 0
    ELSE conn[f].ntok + Cardinality({k \in DOMAIN Stream(f) : Stream(f)[k].ev = "token"})

Service(f) == INSTANCE ReplyService WITH
    stage <- Stage(f), up <- f \in Live, toks <- Toks(f)

(* To each client that awaits its replies the daemon is a ReplyService,    *)
(* whatever the others do: a request is served once and to its end, a tick *)
(* adds a token or the end and never both (scheduler.cpp:270-322), and the *)
(* hang-up comes after the end of a reply (main.cpp:229-233, 272-278).     *)
ServesReplies ==
    /\ \A f \in Fds : Service(f)!Init
    /\ [][\A f \in Fds : UNCHANGED <<sess[f], conn[f]>> \/ [Service(f)!Next]_(Service(f)!vars)]_vars
-----------------------------------------------------------------------------
(*                                 Liveness                                *)

(* Every request is answered to its end: the client receives the terminal  *)
(* event of each request it sent, or it left.                              *)
EveryRequestEnds ==
    \A f \in Fds :
        conn[f].sent > conn[f].ended ~>
            (conn[f].sent = conn[f].ended \/ conn[f].peer = "gone")

(* When a client disconnects, its sequence is cleared (docs/MEMORY.md:23). *)
DisconnectFreesCells ==
    \A f \in Fds :
        conn[f].peer = "gone" ~>
            (f \notin Live \/ sess[f].seq = NoSeq \/ kv[sess[f].seq] = 0)

(* A shutdown signal ends the loop, even when it arrives between the test  *)
(* of the flag and the call of kevent.                                     *)
ShutdownStops == shutdown ~> pc = "exit"

(* With an idle timeout configured, no session outlives a client that      *)
(* stopped sending or left, whatever failed on the way: a read error       *)
(* (session_manager.cpp:79), EOF before a request (84), null logits        *)
(* (scheduler.cpp:261) or a failed decode (237) leave sessions that only   *)
(* the idle sweep ends.                                                    *)
SlotsReclaimed ==
    (\A f \in Fds : WF_vars(GrowIdle(f))) =>
        \A f \in Fds : conn[f].peer \in {"shut", "gone"} ~> (f \notin Live \/ pc = "exit")
-----------------------------------------------------------------------------
(*             What documents and comments say beyond the above            *)

(* docs/SCHEDULER.md: a session in DECODE "has finished prefill".          *)
PrefillFinished ==
    \A f \in Live : sess[f].state = "DECODE" => sess[f].prefill = sess[f].prompt

(* docs/CONFIG.md, of max_tokens: "Default maximum number of tokens to     *)
(* generate for a request."                                                *)
TokensWithinLimit ==
    ~Pipelining => \A f \in Fds : Toks(f) <= MaxTokens

(* docs/PROTOCOL.md: "On error: enqueue error event, flush, then close."   *)
ErrorsFlushedAndClosed ==
    \A f \in Fds : sess[f].state = "ERRORED" ~> sess[f].state = "ABSENT"

(* docs/PROTOCOL.md: the session "rejects a second request while busy".    *)
BusyRejects ==
    [][\A f \in Fds : Busy(f) /\ sess'[f].state = "PREFILL" => sess'[f].id = sess[f].id]_vars
=============================================================================
