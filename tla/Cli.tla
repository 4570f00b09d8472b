-------------------------------- MODULE Cli --------------------------------
(***************************************************************************)
(* uma-cli (cli/main.cpp): one request over one connection.                *)
(*                                                                         *)
(* `up` and `down` are the socket buffers towards the daemon and back.     *)
(* A write or a read moves as many units as the buffers allow at that      *)
(* moment, so frames are cut anywhere.  Each step is one system call and   *)
(* what the client does with its result.                                   *)
(***************************************************************************)
EXTENDS Protocol

CONSTANTS
    Opts,    \* which of OptChoices the command line may ask for
    Id,      \* --id
    Prompt,  \* --prompt
    UpCap,   \* size of the socket buffer towards the daemon, in units
    DownCap  \* and of the one back

(* What the arguments come to; --help, which prints and ends, is left out. *)
OptChoices == {"bad", "prompt", "options", "metrics"}

ASSUME CliAssumption ==
    /\ Opts \subseteq OptChoices
    /\ {UpCap, DownCap} \subseteq Nat \ {0}

VARIABLES
    cpc,      \* where the client is
    opt,      \* the parsed command line
    off,      \* units of the request written
    need,     \* payload length announced by the last header
    js,       \* payload read so far
    errno,    \* whether errno is EINTR
    printed,  \* texts written to stdout
    code,     \* exit status
    why,      \* what ended the client
    link,     \* the connection
    up,       \* written by the client, not yet read by the daemon
    down      \* written by the daemon, not yet read by the client

cliVars == <<cpc, opt, off, need, js, errno, printed, code, why>>
sockVars == <<link, up, down>>

(* "flushed": the daemon closed the connection after the reply; "closed":  *)
(* it closed it before that; "reset": likewise, and reads fail.            *)
Links == {"none", "queued", "open", "flushed", "closed", "reset"}
HungUp == link \in {"flushed", "closed", "reset"}

(* Exit status before the end, and as a shell reports SIGPIPE.             *)
Running == -1
Sigpipe == 141

Fewest(a, b) == IF a < b THEN a ELSE b

(* The request as uma-cli serialises it.                                   *)
Request ==
    CASE opt = "metrics" -> MetricsRequest
      [] opt = "prompt" -> PromptRequest(Id, Prompt)
      [] OTHER -> OptionsRequest(Id, Prompt)
Outgoing == WriteFrame(<<>>, Request)

CliInit ==
    /\ cpc = "args" /\ opt \in Opts
    /\ off = 0 /\ need = 0 /\ js = <<>> /\ errno = "none" /\ printed = <<>>
    /\ code = Running /\ why = "none"
    /\ link = "none" /\ up = <<>> /\ down = <<>>

(* The process ends, and with it its end of the connection.                *)
Finish(c, w) ==
    /\ cpc' = "done" /\ code' = c /\ why' = w
    /\ need' = 0 /\ js' = <<>> /\ errno' = "none"
    /\ up' = <<>> /\ down' = <<>>
    /\ UNCHANGED <<opt, off, printed, link>>

ParseArgs ==
    /\ cpc = "args"
    /\ IF opt = "bad"
       THEN Finish(1, "args")
       ELSE /\ cpc' = "connect"
            /\ UNCHANGED <<opt, off, need, js, errno, printed, code, why, sockVars>>

(* connect_uds, given whether somebody listens at the path.                *)
ConnectUds(listening) ==
    /\ cpc = "connect"
    /\ IF ~listening
       THEN Finish(3, "refused")
       ELSE /\ cpc' = "send" /\ link' = "queued"
            /\ UNCHANGED <<opt, off, need, js, errno, printed, code, why, up, down>>

(* One write of send_all: some of the rest fits in the buffer.             *)
SendSome ==
    /\ cpc = "send" /\ ~HungUp
    /\ \E n \in 1..Fewest(Len(Outgoing) - off, UpCap - Len(up)) :
          /\ up' = up \o SubSeq(Outgoing, off + 1, off + n)
          /\ off' = off + n
          /\ cpc' = IF off + n = Len(Outgoing) THEN "header" ELSE "send"
    /\ UNCHANGED <<opt, need, js, errno, printed, code, why, link, down>>

(* The daemon hung up: SIGPIPE, whose default action uma-cli keeps, or     *)
(* EPIPE when it was started with the signal ignored.                      *)
SendFails ==
    /\ cpc = "send" /\ HungUp
    /\ Finish(3, "send") \/ Finish(Sigpipe, "send")

(* A blocked read is interrupted and repeated; errno keeps the value.      *)
(* (An interrupted write is, too, and leaves what one of the first header  *)
(* leaves.)                                                                *)
Interrupted ==
    /\ errno = "none" /\ ~HungUp
    /\ cpc \in {"header", "payload"} /\ down = <<>>
    /\ errno' = "EINTR"
    /\ UNCHANGED <<cpc, opt, off, need, js, printed, code, why, sockVars>>
-----------------------------------------------------------------------------
(*                              Reading events                             *)

Rest(n) == SubSeq(down, n + 1, Len(down))

(* The header is read with one call; fewer than four bytes end the client. *)
ReadHeader ==
    /\ cpc = "header" /\ down # <<>>
    /\ IF Len(down) < 4
       THEN Finish(0, "short header")
       ELSE /\ need' = ReadU32(down) /\ down' = Rest(4) /\ cpc' = "payload"
            /\ UNCHANGED <<opt, off, js, errno, printed, code, why, link, up>>

(* End of file, or a failed read.                                          *)
HeaderEnds ==
    /\ cpc = "header" /\ down = <<>> /\ HungUp
    /\ IF link = "reset" THEN Finish(3, "read") ELSE Finish(0, "eof")

(* Faulty variant: prints the id.                                          *)
ShownField(j) == Append(printed, JsonGetString(j, "id"))

Shown(j) ==
    LET text == JsonGetString(j, "text")
    IN  IF text = NoText THEN printed ELSE Append(printed, text)

(* After a token, or an unknown event, which is printed as it is.          *)
Continue(out, n) ==
    /\ printed' = out
    /\ cpc' = "header" /\ js' = <<>> /\ down' = Rest(n)
    /\ UNCHANGED <<opt, off, need, errno, code, why, link, up>>

ExitCode(event) == IF event = "error" THEN 2 ELSE 0

(* A complete payload j, whose last n units were just read.                *)
Handle(j, n) ==
    LET event == IF opt = "metrics" THEN "metrics" ELSE JsonGetString(j, "event")
    IN  \/ event \in {"eos", "error", "metrics"} /\ Finish(ExitCode(event), event)
        \/ event = "token" /\ Continue(Shown(j), n)
        \/ event \notin {"eos", "error", "metrics", "token"} /\ Continue(Append(printed, "raw"), n)

(* Faulty variant: each read asks for len bytes, not for what is missing.  *)
ReadPayloadAhead ==
    /\ cpc = "payload" /\ down # <<>>
    /\ LET n == Fewest(need, Len(down))
           j == js \o Strings(SubSeq(down, 1, n))
       IN  IF Len(j) = need THEN Handle(j, n)
           ELSE /\ js' = j /\ down' = Rest(n)
                /\ UNCHANGED <<cpc, opt, off, need, errno, printed, code, why, link, up>>

(* One read of the payload loop.                                           *)
ReadPayload ==
    /\ cpc = "payload" /\ down # <<>>
    /\ LET n == Fewest(need - Len(js), Len(down))
           j == js \o Strings(SubSeq(down, 1, n))
       IN  IF Len(j) = need THEN Handle(j, n)
           ELSE /\ js' = j /\ down' = Rest(n)
                /\ UNCHANGED <<cpc, opt, off, need, errno, printed, code, why, link, up>>

(* read returns 0 or fails.  End of file does not set errno, so after an   *)
(* interrupted call the loop takes it for EINTR and reads again, for ever. *)
PayloadEnds ==
    /\ cpc = "payload" /\ down = <<>> /\ HungUp
    /\ link = "reset" \/ errno # "EINTR"
    /\ Finish(0, "short payload")

CliStep ==
    \/ ParseArgs \/ SendSome \/ SendFails
    \/ ReadHeader \/ HeaderEnds \/ ReadPayload \/ PayloadEnds
=============================================================================
