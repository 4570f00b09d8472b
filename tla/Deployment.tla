----------------------------- MODULE Deployment -----------------------------
(***************************************************************************)
(* uma-cli against umad over the socket path: the daemons of UdsServer,    *)
(* the client of Cli, and the daemon's end of its connection, unit by      *)
(* unit.                                                                   *)
(*                                                                         *)
(* Between the request and the reply the daemon is what ReplyService       *)
(* promises and module Umad implements: a bounded number of tokens, then   *)
(* one terminal event; it may hang up on a session that is idle.           *)
(***************************************************************************)
EXTENDS UdsServer, Cli

CONSTANT
    Pieces  \* what the tokens decode to, were the reply max_tokens + 1 long

(* A socket buffer holds the error event of a refused request: a client    *)
(* still writing that request does not read, so the daemon could not make  *)
(* room for more.                                                          *)
ASSUME DeploymentAssumption ==
    /\ Pieces \in Seq(STRING)
    /\ DownCap >= Len(WriteFrame(<<>>, ErrorEvent(NoText, NoText)))

VARIABLES
    srv,      \* the daemon the client is connected to
    rx, tx,   \* buffers of its session
    stage,    \* RECV_REQ, at work, at work but not scheduled, STREAM, ERRORED
    closed,   \* read_closed
    armed,    \* Write filter registered
    said,     \* tokens emitted
    parsed,   \* history: the payload taken from rx
    fin       \* history: the terminal event appended to tx

sessVars == <<srv, rx, tx, stage, closed, armed, said, parsed, fin>>
vars == <<lifeVars, cliVars, sockVars, sessVars>>

Init ==
    /\ LifeInit /\ CliInit
    /\ srv = Nobody /\ rx = <<>> /\ tx = <<>> /\ stage = "recv"
    /\ closed = FALSE /\ armed = FALSE
    /\ said = 0 /\ parsed = <<>> /\ fin = "none"

(* The daemon's end of the connection is closed before the reply is out.   *)
(* Reads of the peer then end, or fail when the daemon left input unread   *)
(* or never accepted.                                                      *)
Cut ==
    link' \in IF link = "open" /\ up = <<>> THEN {"closed"} ELSE {"closed", "reset"}

(* Stop closes the listen socket; the sessions' sockets are closed when    *)
(* the process ends.                                                       *)
Loses(d) ==
    /\ d = srv
    /\ \/ link = "queued" /\ at'[d] # "serve"
       \/ link = "open" /\ at'[d] = "dead"

Life(d) ==
    /\ LifeStep(d) /\ Meet
    /\ IF Loses(d) THEN Cut ELSE UNCHANGED link
    /\ UNCHANGED <<cliVars, up, down, sessVars>>

Client ==
    \/ CliStep /\ UNCHANGED <<lifeVars, sessVars>>
    \/ /\ ConnectUds(path # Nobody /\ Listening(path))
       /\ srv' = IF cpc' = "send" THEN path ELSE srv
       /\ UNCHANGED <<lifeVars, rx, tx, stage, closed, armed, said, parsed, fin>>

Interrupt == Interrupted /\ UNCHANGED <<lifeVars, sessVars>>
-----------------------------------------------------------------------------
Serving == cpc # "done" /\ srv # Nobody /\ at[srv] = "serve"

(* Faulty variant: a connection over the limit is neither read nor closed. *)
AcceptLeaks ==
    /\ Serving /\ link = "queued"
    /\ link' = "open" /\ closed' \in BOOLEAN
    /\ UNCHANGED <<lifeVars, cliVars, up, down, srv, rx, tx, stage, armed, said, parsed, fin>>

(* A session, or a close at once when max_sessions are in use.             *)
Accept ==
    /\ Serving /\ link = "queued"
    /\ link' = "open" \/ Cut
    /\ UNCHANGED <<lifeVars, cliVars, up, down, sessVars>>

(* Faulty variant: hangs up after the first write.                         *)
DeliverOnce(t, n, st, cl) ==
    /\ down' = down \o SubSeq(t, 1, n)
    /\ tx' = SubSeq(t, n + 1, Len(t))
    /\ armed' = (n < Len(t))
    /\ link' = IF st = "errored" \/ (st = "stream" /\ cl) THEN "flushed" ELSE link
    /\ stage' = IF st = "stream" /\ n = Len(t) THEN "recv" ELSE st
    /\ closed' = cl

(* A write of n units of t, in state st, and what follows once tx is       *)
(* empty.                                                                  *)
Deliver(t, n, st, cl) ==
    LET flushed == n = Len(t)
    IN  /\ down' = down \o SubSeq(t, 1, n)
        /\ tx' = SubSeq(t, n + 1, Len(t))
        /\ armed' = ~flushed
        /\ link' = IF flushed /\ (st = "errored" \/ (st = "stream" /\ cl))
                   THEN "flushed" ELSE link
        /\ stage' = IF flushed /\ st = "stream" THEN "recv" ELSE st
        /\ closed' = cl

(* What one write may take: at least one unit if the socket has room.      *)
Takes(t) ==
    LET most == Fewest(Len(t), DownCap - Len(down))
    IN  IF most = 0 THEN {0} ELSE 1..most

(* The replies of on_readable, written at once as far as the socket takes  *)
(* them; all but an eos end the session once they are out.                 *)
Reply(event, kind) ==
    LET t == WriteFrame(tx, event)
    IN  /\ fin' = kind
        /\ \E n \in Takes(t) : Deliver(t, n, "stream", kind # "eos")

(* The request in j: metrics, without prompt, with a prompt over the       *)
(* limit, without tokens, or to be served.                                 *)
Serve(j) ==
    LET id == ExtractJsonString(j, "id")
        prompt == ExtractJsonString(j, "prompt")
        metrics == "metrics" \in {ExtractJsonString(j, "type"), ExtractJsonString(j, "event")}
    IN  \/ metrics /\ Reply(MetricsEvent, "metrics")
        \/ ~metrics /\ Reply(ErrorEvent(id, "refused"), "error")
        \/ ~metrics /\ prompt # NoText /\ Reply(EosEvent(id), "eos")
        \/ /\ ~metrics /\ prompt # NoText
           /\ stage' = "busy"
           /\ UNCHANGED <<link, down, tx, closed, armed, fin>>

(* on_readable: all that arrived goes to rx, then one frame is tried.      *)
OnReadable ==
    /\ Serving /\ link = "open" /\ ~closed /\ up # <<>>
    /\ up' = <<>>
    /\ LET r == TryReadFrame(rx \o up)
       IN  /\ rx' = r.rx
           /\ parsed' = IF r.is = "frame" THEN r.json ELSE parsed
           /\ \/ r.is = "frame" /\ Serve(r.json)
              \/ r.is \in {"zero", "large"} /\ Reply(ErrorEvent(NoText, r.is), "error")
              \/ r.is = "more" /\ UNCHANGED <<link, down, tx, stage, closed, armed, fin>>
    /\ UNCHANGED <<lifeVars, cliVars, srv, said>>

(* A tick of the scheduler with the session in its batch.  It adds a token *)
(* to tx, if the token has a piece, or, but for the first token, an eos,   *)
(* both reported for arming if tx was empty; or the error of a failed      *)
(* decode, which is not reported; or, when the logits are null, nothing.   *)
(* The batch has then consumed the pending token or the last of the        *)
(* prompt, and no later tick takes the session up; with prompt left it     *)
(* goes on as before.                                                      *)
Generate ==
    LET id == ExtractJsonString(parsed, "id")
        piece == Pieces[said + 1]
        Arm == armed' = (armed \/ (tx = <<>> /\ tx' # <<>>))
    IN  /\ Serving /\ link = "open" /\ stage = "busy"
        /\ \/ /\ said < Len(Pieces)
              /\ tx' = IF piece = NoText THEN tx ELSE WriteFrame(tx, TokenEvent(id, piece))
              /\ said' = said + 1 /\ Arm
              /\ UNCHANGED <<stage, closed, fin>>
           \/ /\ said > 0
              /\ tx' = WriteFrame(tx, EosEvent(id))
              /\ stage' = "stream" /\ fin' = "eos" /\ Arm
              /\ UNCHANGED <<closed, said>>
           \/ /\ tx' = WriteFrame(tx, ErrorEvent(id, "decode failed"))
              /\ stage' = "errored" /\ closed' = TRUE /\ fin' = "error"
              /\ UNCHANGED <<said, armed>>
           \/ /\ stage' = "stalled"
              /\ UNCHANGED <<tx, closed, armed, said, fin>>
        /\ UNCHANGED <<lifeVars, cliVars, sockVars, srv, rx, parsed>>

OnWritable ==
    /\ Serving /\ link = "open" /\ armed /\ Len(down) < DownCap
    /\ \E n \in Takes(tx) : Deliver(tx, n, stage, closed)
    /\ UNCHANGED <<lifeVars, cliVars, up, srv, rx, said, parsed, fin>>

(* The idle sweep closes the session.                                      *)
IdleClose ==
    /\ Serving /\ link = "open"
    /\ Cut
    /\ UNCHANGED <<lifeVars, cliVars, up, down, sessVars>>

Session == Accept \/ OnReadable \/ Generate \/ OnWritable

Next ==
    \/ \E d \in Daemons : Life(d)
    \/ Client \/ Interrupt
    \/ Session \/ IdleClose

(* Nothing more will happen on the session by itself: a failed decode      *)
(* whose error is not watched for writing, or null logits.                 *)
Forgotten == stage \in {"errored", "stalled"} /\ ~armed

(* What no party can put off for ever: a step of the client, of the loop   *)
(* of the daemon it talks to, the idle sweep of a session nothing else     *)
(* will end, and the last step of a daemon on its way out.                 *)
Progress ==
    \/ Client \/ Session \/ (Forgotten /\ IdleClose)
    \/ \E d \in Daemons : RemovePath(d) /\ Life(d)

Spec == Init /\ [][Next]_vars
-----------------------------------------------------------------------------
FieldNames == {"id", "event", "text", "message", "type", "prompt"}
SaidAloud == SelectSeq(SubSeq(Pieces, 1, said), LAMBDA t : t # NoText)

(* Types; the client never reads past the payload a header announced       *)
(* (cli/main.cpp:187).                                                     *)
TypeOK ==
    /\ LifeTypeOK
    /\ cpc \in {"args", "connect", "send", "header", "payload", "done"}
    /\ opt \in Opts
    /\ off \in 0..Len(Outgoing) /\ need \in Nat /\ Len(js) <= need
    /\ code \in {Running, Sigpipe, 0, 1, 2, 3}
    /\ link \in Links
    /\ stage \in {"recv", "busy", "stalled", "stream", "errored"}
    /\ armed \in BOOLEAN /\ closed \in BOOLEAN

(* The daemon takes the request the client wrote, however the bytes were   *)
(* cut on the way, and only a complete one.                                *)
RequestIntact == parsed # <<>> => parsed = Request /\ off = Len(Outgoing)

(* The client prints the tokens of its reply, in order, each once and with *)
(* its own text; and all of them if it ends on eos.  A token with a        *)
(* control character is printed in its place but with another text         *)
(* (cli/main.cpp:96-103 has no case for \u), and with an id that is a      *)
(* field name the scanner takes the id for the field (83).                 *)
PrintedFaithfully ==
    Id \notin FieldNames =>
        /\ Len(printed) <= Len(SaidAloud)
        /\ \A k \in DOMAIN printed :
               SaidAloud[k] \notin Control => printed[k] = SaidAloud[k]
        /\ why = "eos" => Len(printed) = Len(SaidAloud)

(* The exit status tells what happened: 2 only for an error event of the   *)
(* daemon; the client ends on a terminal event only if the daemon sent it; *)
(* without one, but for a short header, only if the daemon cut the         *)
(* connection, nobody listened, or the daemon refused the frame by its     *)
(* header while the client was still writing it: that error goes unread.   *)
ExitTruthful ==
    cpc = "done" =>
        /\ code = 2 => fin = "error"
        /\ why \in {"eos", "error", "metrics"} => fin = why
        /\ why \in {"eof", "read", "short payload"} => link \in {"closed", "reset"}
        /\ why = "send" =>
               link \in {"closed", "reset"} \/ (fin = "error" /\ parsed = <<>>)
        /\ code = 3 => why \in {"refused", "read", "send"}

(* Client and daemon never wait for each other: until the client ends one  *)
(* of them can move, or a daemon is on its way out, or the idle sweep will *)
(* end the session, which is all that does after a decode error that is    *)
(* not sent (scheduler.cpp:237-249) or null logits (261).  (Each moves     *)
(* finitely often, so the client ends.)  The exception spins for ever: its *)
(* payload read was interrupted and then the daemon hung up                *)
(* (cli/main.cpp:189).                                                     *)
NoStandoff ==
    \/ cpc = "done" \/ ENABLED <<Progress>>_vars
    \/ cpc = "payload" /\ HungUp /\ errno = "EINTR"

(* cli/README.md, exit code 0: "The request was completed and an `eos`     *)
(* event was received without an error."                                   *)
ExitZeroMeansEos == code = 0 /\ opt # "metrics" => why = "eos"
=============================================================================
