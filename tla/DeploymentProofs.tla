-------------------------- MODULE DeploymentProofs --------------------------
(***************************************************************************)
(* Proofs about the framed protocol, the life of daemons that share a      *)
(* path, and the request's way from uma-cli to the daemon.                 *)
(***************************************************************************)
EXTENDS Deployment, TLAPS, SequenceTheorems

-----------------------------------------------------------------------------
(*                                 Framing                                 *)

(* The units of headers and of payloads with strings from S.               *)
Unit(S) == Nat \X (S \cup {"byte"})

(* read_u32_le undoes the header bytes of write_frame, for every length    *)
(* that fits.                                                              *)
LEMMA HeaderRoundTrip ==
    ASSUME NEW S, NEW n \in Nat, n <= Longest
    PROVE  /\ Header(n) \in Seq(Unit(S)) /\ Len(Header(n)) = 4
           /\ ReadU32(Header(n)) = n
<1>1. n \in Nat /\ n <= 2147483647
  BY SMT DEF Longest
<1>2. /\ n % 256 \in Nat /\ (n \div 256) % 256 \in Nat
      /\ (n \div 65536) % 256 \in Nat /\ (n \div 16777216) % 256 \in Nat
  BY <1>1, SMT
<1>3. (n % 256) + 256 * ((n \div 256) % 256) + 65536 * ((n \div 65536) % 256)
        + 16777216 * ((n \div 16777216) % 256) = n
  BY <1>1, SMTT(30)
<1>4. /\ Header(n) \in Seq(Unit(S)) /\ Len(Header(n)) = 4
  <2>1. \A b \in Nat : Byte(b) \in Unit(S)
    BY SMT DEF Byte, Unit
  <2> QED
    BY <1>2, <2>1, SMT DEF Header
<1>5. ReadU32(Header(n)) = n
  BY <1>3, SMT DEF Header, ReadU32, Byte
<1> QED
  BY <1>4, <1>5, SMT

(* A payload as units, and back.                                           *)
LEMMA UnitsRoundTrip ==
    ASSUME NEW S, NEW json \in Seq(S)
    PROVE  /\ Units(json) \in Seq(Unit(S)) /\ Len(Units(json)) = Len(json)
           /\ Strings(Units(json)) = json
<1>1. Units(json) \in Seq(Unit(S)) /\ Len(Units(json)) = Len(json)
  BY SMT DEF Units, Unit, NoByte
<1>2. /\ DOMAIN Units(json) = 1..Len(json)
      /\ \A i \in 1..Len(json) : Units(json)[i][2] = json[i]
  BY SMT DEF Units
<1>3. Strings(Units(json)) = [i \in 1..Len(json) |-> json[i]]
  BY <1>2, SMT DEF Strings
<1> QED
  BY <1>1, <1>3, SMT

(* What try_read_frame makes of a frame followed by anything: the payload  *)
(* that was written, and the rest left in rx.  The limit of the reader is  *)
(* the only reason to refuse it.                                           *)
THEOREM FrameRoundTrip ==
    ASSUME NEW S, NEW json \in Seq(S), Len(json) # 0, Len(json) <= MaxFrame,
           NEW rest \in Seq(Unit(S))
    PROVE  TryReadFrame(WriteFrame(<<>>, json) \o rest)
               = [is |-> "frame", json |-> json, rx |-> rest]
<1> DEFINE h == Header(Len(json))
           u == Units(json)
           s == WriteFrame(<<>>, json) \o rest
<1>1. Len(json) \in Nat /\ Len(json) <= Longest
  BY MaxFrameAssumption, SMT DEF Longest
<1>2. h \in Seq(Unit(S)) /\ Len(h) = 4 /\ ReadU32(h) = Len(json)
  BY <1>1, HeaderRoundTrip
<1>3. u \in Seq(Unit(S)) /\ Len(u) = Len(json) /\ Strings(u) = json
  BY UnitsRoundTrip
<1>3a. h \in Seq(Unit(S)) /\ u \in Seq(Unit(S))
  BY <1>2, <1>3
<1>4. WriteFrame(<<>>, json) = h \o u
  <2> HIDE DEF h, u
  <2>1. <<>> \o h = h
    BY <1>2, SMT
  <2> QED
    BY <2>1 DEF WriteFrame, h, u
<1>5. s = (h \o u) \o rest
  BY <1>4
<1> HIDE DEF h, u, s
<1>5a. /\ h \o u \in Seq(Unit(S)) /\ Len(h \o u) = 4 + Len(json)
      /\ \A i \in 1..4 : (h \o u)[i] = h[i]
  <2>1. /\ h \o u \in Seq(Unit(S)) /\ Len(h \o u) = Len(h) + Len(u)
        /\ \A i \in 1..(Len(h) + Len(u)) :
              (h \o u)[i] = IF i <= Len(h) THEN h[i] ELSE u[i - Len(h)]
    BY <1>3a, ConcatProperties, Zenon
  <2> QED
    BY <1>1, <1>2, <1>3, <2>1, SMT
<1>6. s \in Seq(Unit(S)) /\ Len(s) = 4 + Len(json) + Len(rest)
  <2>1. s \in Seq(Unit(S)) /\ Len(s) = Len(h \o u) + Len(rest)
    BY <1>5, <1>5a, ConcatProperties, Zenon
  <2> QED
    BY <1>1, <1>5a, <2>1, SMT
<1>7. /\ s[1] = h[1] /\ s[2] = h[2] /\ s[3] = h[3] /\ s[4] = h[4]
  BY <1>1, <1>5, <1>5a, SMT
<1>8. ReadU32(s) = Len(json)
  BY <1>2, <1>7, SMT DEF ReadU32
<1>9. SubSeq(s, 5, 4 + Len(json)) = u
  <2>1. SubSeq(s, 5, 4 + Len(json)) \in Seq(Unit(S)) /\ Len(SubSeq(s, 5, 4 + Len(json))) = Len(u)
    BY <1>1, <1>3, <1>6, SMT
  <2>2. \A i \in 1..Len(u) : SubSeq(s, 5, 4 + Len(json))[i] = u[i]
    BY <1>1, <1>2, <1>3, <1>5, <1>6, SMT
  <2> QED
    BY <1>3, <2>1, <2>2, SeqEqual
<1>10. SubSeq(s, 5 + Len(json), Len(s)) = rest
  <2> DEFINE r == SubSeq(s, 5 + Len(json), Len(s))
  <2>1. r \in Seq(Unit(S)) /\ Len(r) = Len(rest)
    BY <1>1, <1>6, SMT
  <2>2. \A i \in 1..Len(rest) : r[i] = rest[i]
    BY <1>1, <1>2, <1>3, <1>5, <1>6, SMT
  <2> QED
    BY <2>1, <2>2, SeqEqual
<1>11. TryReadFrame(s) = [is |-> "frame", json |-> Strings(u), rx |-> rest]
  <2>1. /\ ~(Len(s) < 4) /\ ReadU32(s) # 0 /\ ~(ReadU32(s) > MaxFrame)
        /\ ~(Len(s) < 4 + ReadU32(s))
    BY <1>1, <1>6, <1>8, MaxFrameAssumption, SMT
  <2> QED
    BY <1>8, <1>9, <1>10, <2>1, Zenon DEF TryReadFrame
<1> QED
  BY <1>3, <1>11 DEF s

(* What a frame and its prefixes are made of.                              *)
LEMMA FrameShape ==
    ASSUME NEW S, NEW json \in Seq(S), Len(json) <= Longest
    PROVE  LET f == WriteFrame(<<>>, json)
           IN  /\ f \in Seq(Unit(S)) /\ Len(f) = 4 + Len(json)
               /\ ReadU32(f) = Len(json)
<1> DEFINE h == Header(Len(json))
           u == Units(json)
           f == WriteFrame(<<>>, json)
<1>1. Len(json) \in Nat
  OBVIOUS
<1>2. h \in Seq(Unit(S)) /\ Len(h) = 4 /\ ReadU32(h) = Len(json)
  BY <1>1, HeaderRoundTrip
<1>3. u \in Seq(Unit(S)) /\ Len(u) = Len(json)
  BY UnitsRoundTrip
<1>3a. h \in Seq(Unit(S)) /\ u \in Seq(Unit(S))
  BY <1>2, <1>3
<1> HIDE DEF h, u
<1>4. <<>> \o h = h
  BY <1>2, SMT
<1>5. f = h \o u
  BY <1>4 DEF WriteFrame, h, u
<1> HIDE DEF f
<1>6. /\ f \in Seq(Unit(S)) /\ Len(f) = Len(h) + Len(u)
      /\ \A i \in 1..(Len(h) + Len(u)) : f[i] = IF i <= Len(h) THEN h[i] ELSE u[i - Len(h)]
  <2>1. /\ h \o u \in Seq(Unit(S)) /\ Len(h \o u) = Len(h) + Len(u)
        /\ \A i \in 1..(Len(h) + Len(u)) :
              (h \o u)[i] = IF i <= Len(h) THEN h[i] ELSE u[i - Len(h)]
    BY <1>3a, ConcatProperties, Zenon
  <2> QED
    BY <1>5, <2>1, SMT
<1>7. f[1] = h[1] /\ f[2] = h[2] /\ f[3] = h[3] /\ f[4] = h[4]
  BY <1>1, <1>2, <1>3, <1>6, SMT
<1>8. ReadU32(f) = Len(json)
  BY <1>2, <1>7, SMT DEF ReadU32
<1>9. Len(f) = 4 + Len(json)
  BY <1>2, <1>3, <1>6, SMT
<1> QED
  BY <1>6, <1>8, <1>9 DEF f

(* A reader that has part of a frame, or one that is too long, waits for   *)
(* more or refuses it for its length; either way rx keeps what arrived.    *)
THEOREM FramePrefix ==
    ASSUME NEW S, NEW json \in Seq(S), Len(json) # 0, Len(json) <= Longest,
           NEW k \in 0..Len(WriteFrame(<<>>, json)),
           k < Len(WriteFrame(<<>>, json)) \/ Len(json) > MaxFrame
    PROVE  LET part == SubSeq(WriteFrame(<<>>, json), 1, k)
               r == TryReadFrame(part)
           IN  r.is = (IF k >= 4 /\ Len(json) > MaxFrame THEN "large" ELSE "more") /\ r.rx = part
<1> DEFINE f == WriteFrame(<<>>, json)
           part == SubSeq(f, 1, k)
<1>1. f \in Seq(Unit(S)) /\ Len(f) = 4 + Len(json) /\ ReadU32(f) = Len(json)
  BY FrameShape
<1> HIDE DEF f
<1>2. k \in Nat /\ k <= Len(f) /\ Len(json) \in Nat
  BY <1>1, SMT DEF f
<1>3. Len(part) = k /\ \A i \in 1..k : part[i] = f[i]
  BY <1>1, <1>2, SMT
<1> HIDE DEF part
<1>4. CASE k < 4
  <2>1. Len(part) < 4 /\ ~(k >= 4)
    BY <1>2, <1>3, <1>4, SMT
  <2>2. TryReadFrame(part) = [is |-> "more", json |-> <<>>, rx |-> part]
    BY <2>1, Zenon DEF TryReadFrame
  <2> QED
    BY <2>1, <2>2 DEF part, f
<1>5. CASE k >= 4
  <2>1. part[1] = f[1] /\ part[2] = f[2] /\ part[3] = f[3] /\ part[4] = f[4]
    BY <1>2, <1>3, <1>5, SMT
  <2>2. ReadU32(part) = Len(json)
    BY <1>1, <2>1, SMT DEF ReadU32
  <2>3. /\ ~(Len(part) < 4) /\ ReadU32(part) # 0
    BY <1>1, <1>2, <1>3, <1>5, <2>2, SMT
  <2>4. CASE Len(json) > MaxFrame
    <3>1. TryReadFrame(part) = [is |-> "large", json |-> <<>>, rx |-> part]
      BY <2>2, <2>3, <2>4, Zenon DEF TryReadFrame
    <3> QED
      BY <1>5, <2>4, <3>1 DEF part, f
  <2>5. CASE ~(Len(json) > MaxFrame)
    <3>0. Len(part) < 4 + ReadU32(part)
      <4>1. k < Len(f)
        BY <2>5 DEF f
      <4> QED
        BY <1>1, <1>2, <1>3, <2>2, <4>1, SMT
    <3>1. TryReadFrame(part) = [is |-> "more", json |-> <<>>, rx |-> part]
      BY <2>2, <2>3, <2>5, <3>0, Zenon DEF TryReadFrame
    <3> QED
      BY <1>5, <2>5, <3>1 DEF part, f
  <2> QED
    BY <2>4, <2>5
<1> QED
  BY <1>2, <1>4, <1>5, SMT
-----------------------------------------------------------------------------
(*                        Daemons that share a path                        *)

(* Inductive: also, a daemon that met no other is alone while it is active *)
(* at all, so nobody else touches the path between its system calls.       *)
AloneInv ==
    /\ LifeTypeOK /\ AloneServes
    /\ \A d \in Daemons \ met : d \in Active => Active = {d}

(* A daemon that never shared the path with another owns it from bind to   *)
(* the end of its loop, whatever killed daemons left behind                *)
(* (uds_server.cpp:29), for any number of daemons and restarts.            *)
LEMMA LifeStepAlone == AloneInv /\ LifeNext => AloneInv'
<1> SUFFICES ASSUME AloneInv, NEW d \in Daemons, LifeStep(d), Meet
             PROVE  AloneInv'
  BY DEF LifeNext
<1>1. LifeTypeOK
  BY DEF AloneInv
<1>2. at' \in [Daemons -> Places] /\ \A e \in Daemons \ {d} : at'[e] = at[e]
  BY <1>1 DEF LifeTypeOK, LifeStep, Opening, Start, StartFails, RemoveStale, Bind, Listen,
              OpenFails, Stop, RemovePath, Crash, Go, Places
<1>3. path' \in Daemons \cup {Nobody}
  BY <1>1 DEF LifeTypeOK, LifeStep, Opening, Start, StartFails, RemoveStale, Bind, Listen,
              OpenFails, Stop, RemovePath, Crash
<1>4. Active' \subseteq Daemons
  BY DEF Active
<1>5. met' \subseteq Daemons
  BY <1>1, <1>4 DEF LifeTypeOK, Meet
<1>6. met \subseteq met' /\ \A e \in Daemons \ met' : e \in Active' => Active' = {e}
  BY DEF Meet
<1>7. ASSUME NEW e \in Daemons \ met'
      PROVE  /\ at'[e] = "bind" => path' = Nobody
             /\ at'[e] \in {"listen", "serve"} => path' = e
  <2>1. e \in Daemons \ met
    BY <1>6
  <2>2. /\ at[e] = "bind" => path = Nobody
        /\ at[e] \in {"listen", "serve"} => path = e
    BY <2>1 DEF AloneInv, AloneServes
  <2>3. CASE e = d
    BY <1>1, <2>2, <2>3 DEF LifeTypeOK, LifeStep, Opening, Start, StartFails, RemoveStale, Bind,
       Listen, OpenFails, Stop, RemovePath, Crash, Go
  <2>4. CASE e # d /\ e \in Active
    <3>1. Active = {e} /\ Active' = {e}
      BY <1>2, <1>6, <2>1, <2>4 DEF AloneInv, Active
    <3>2. d \notin Active /\ d \notin Active'
      BY <2>4, <3>1
    <3>3. at[d] = "new" \/ at[d] = "dead"
      BY <1>1, <3>2 DEF LifeTypeOK, Active, Places
    <3>4. path' = path
      BY <3>3 DEF LifeStep, Opening, Start, StartFails, RemoveStale, Bind, Listen, OpenFails,
         Stop, RemovePath, Crash
    <3> QED
      BY <1>2, <2>2, <2>4, <3>4
  <2>5. CASE e # d /\ e \notin Active
    <3>1. at'[e] \notin {"bind", "listen", "serve"}
      BY <1>2, <2>5 DEF Active
    <3> QED
      BY <3>1
  <2> QED
    BY <2>3, <2>4, <2>5
<1> QED
  BY <1>2, <1>3, <1>5, <1>6, <1>7 DEF AloneInv, LifeTypeOK, AloneServes

LEMMA LifeInitAlone == LifeInit => AloneInv
  BY DEF LifeInit, AloneInv, LifeTypeOK, AloneServes, Active, Places

LEMMA LifeStutterAlone == AloneInv /\ UNCHANGED lifeVars => AloneInv'
  BY DEF lifeVars, AloneInv, LifeTypeOK, AloneServes, Active

(* Serving clients does not disturb the life of the daemons: the           *)
(* deployment implements the specification of UdsServer.                   *)
THEOREM ImplementsLife == Spec => LifeSpec
<1>1. Init => LifeInit
  BY DEF Init
<1>2. [Next]_vars => [LifeNext]_lifeVars
  BY Zenon DEF Next, vars, Life, LifeNext, Client, CliStep, Interrupt, Session, Accept, OnReadable,
     Generate, OnWritable, IdleClose
<1> QED
  BY <1>1, <1>2, PTL DEF Spec, LifeSpec

(* The path names the daemon that serves alone, in the deployment as a     *)
(* whole.                                                                  *)
THEOREM AloneServesAlways == Spec => []AloneServes
<1>1. AloneInv /\ [LifeNext]_lifeVars => AloneInv'
  BY LifeStepAlone, LifeStutterAlone
<1>2. AloneInv => AloneServes
  BY DEF AloneInv
<1> QED
  BY <1>1, <1>2, LifeInitAlone, ImplementsLife, PTL DEF LifeSpec
-----------------------------------------------------------------------------
(*                   The request's way to the daemon                       *)

Words ==
    {Literal("type"), Literal("metrics"), Literal("id"), JsonEscape(Id), Literal("prompt"),
     JsonEscape(Prompt), Literal("temperature"), Literal("top_p")}

LEMMA RequestShape ==
    /\ Request \in Seq(Words) /\ Len(Request) # 0 /\ Len(Request) <= Longest
    /\ Outgoing \in Seq(Unit(Words)) /\ Len(Outgoing) \in Nat
<1>1. /\ MetricsRequest \in Seq(Words) /\ Len(MetricsRequest) = 2
  BY SMT DEF MetricsRequest, Words
<1>2. /\ PromptRequest(Id, Prompt) \in Seq(Words) /\ Len(PromptRequest(Id, Prompt)) = 4
  BY SMT DEF PromptRequest, Words
<1>3. /\ <<Literal("temperature"), Literal("top_p")>> \in Seq(Words)
      /\ Len(<<Literal("temperature"), Literal("top_p")>>) = 2
  BY SMT DEF Words
<1>4. /\ OptionsRequest(Id, Prompt) \in Seq(Words) /\ Len(OptionsRequest(Id, Prompt)) = 6
  <2> DEFINE p == PromptRequest(Id, Prompt)
             o == <<Literal("temperature"), Literal("top_p")>>
  <2>1. p \in Seq(Words) /\ o \in Seq(Words)
    BY <1>2, <1>3
  <2> HIDE DEF p, o
  <2>2. p \o o \in Seq(Words) /\ Len(p \o o) = Len(p) + Len(o)
    BY <2>1, ConcatProperties, Zenon
  <2>3. Len(p) = 4 /\ Len(o) = 2
    BY <1>2, <1>3 DEF p, o
  <2>4. Len(p \o o) = 6
    BY <2>2, <2>3, SMT
  <2> QED
    BY <2>2, <2>4 DEF OptionsRequest, p, o
<1>5. Request \in Seq(Words) /\ Len(Request) \in {2, 4, 6}
  BY <1>1, <1>2, <1>4, Zenon DEF Request
<1>6. Len(Request) # 0 /\ Len(Request) <= Longest
  <2>1. \A n \in {2, 4, 6} : n # 0 /\ n <= Longest
    BY SMT DEF Longest
  <2> QED
    BY <1>5, <2>1
<1> QED
  BY <1>5, <1>6, FrameShape DEF Outgoing

(* What the daemon makes of the first k units of the request.              *)
LEMMA RequestTaken ==
    ASSUME NEW k \in 0..Len(Outgoing)
    PROVE  LET part == SubSeq(Outgoing, 1, k)
               r == TryReadFrame(part)
           IN  /\ r.is = "frame" => k = Len(Outgoing) /\ r.json = Request /\ r.rx = <<>>
               /\ r.is # "frame" => r.rx = part
               /\ r.is # "zero"
<1> DEFINE part == SubSeq(Outgoing, 1, k)
<1>1. /\ Request \in Seq(Words) /\ Len(Request) # 0 /\ Len(Request) <= Longest
      /\ Outgoing \in Seq(Unit(Words)) /\ Len(Outgoing) \in Nat /\ Len(Request) \in Nat
  BY RequestShape
<1>2. CASE k < Len(Outgoing) \/ Len(Request) > MaxFrame
  <2>1. TryReadFrame(part).is \in {"more", "large"} /\ TryReadFrame(part).rx = part
    BY <1>1, <1>2, FramePrefix DEF Outgoing
  <2> QED
    BY <2>1
<1>3. CASE ~(k < Len(Outgoing) \/ Len(Request) > MaxFrame)
  <2>1. k = Len(Outgoing) /\ Len(Request) <= MaxFrame
    BY <1>1, <1>3, MaxFrameAssumption, SMT
  <2>2. <<>> \in Seq(Unit(Words))
    OBVIOUS
  <2>3. TryReadFrame(Outgoing \o <<>>) = [is |-> "frame", json |-> Request, rx |-> <<>>]
    BY <1>1, <2>1, <2>2, FrameRoundTrip DEF Outgoing
  <2>4. Outgoing \o <<>> = Outgoing
    BY <1>1, ConcatEmptySeq
  <2>5. SubSeq(Outgoing, 1, Len(Outgoing)) = Outgoing
    BY <1>1, SubSeqFull
  <2>6. part = Outgoing
    BY <2>1, <2>5, Zenon
  <2>7. TryReadFrame(part) = [is |-> "frame", json |-> Request, rx |-> <<>>]
    BY <2>3, <2>4, <2>6, Zenon
  <2> HIDE DEF part
  <2>8. TryReadFrame(part).is = "frame"
    BY <2>7
  <2>9. TryReadFrame(part).json = Request /\ TryReadFrame(part).rx = <<>>
    BY <2>7
  <2> QED
    BY <2>1, <2>8, <2>9 DEF part
<1> QED
  BY <1>2, <1>3

(* Inductive: until the request is taken, what the daemon has and what is  *)
(* on the way are together the written part of it; afterwards nothing      *)
(* follows.                                                                *)
TransferInv ==
    /\ rx \in Seq(Unit(Words)) /\ up \in Seq(Unit(Words))
    /\ off \in 0..Len(Outgoing)
    /\ parsed = <<>> /\ ~closed /\ cpc # "done" => rx \o up = SubSeq(Outgoing, 1, off)
    /\ RequestIntact
    /\ parsed # <<>> => up = <<>>

(* Steps that leave the transfer alone, or end the client.                 *)
Quiet ==
    /\ UNCHANGED <<opt, off, rx, parsed>>
    /\ closed' = closed \/ closed'
    /\ \/ up' = up /\ (cpc = "done" => cpc' = "done")
       \/ up' = <<>> /\ cpc' = "done"

LEMMA FinishQuiet ==
    ASSUME NEW c, NEW w, Finish(c, w), UNCHANGED sessVars
    PROVE  Quiet
  BY DEF Finish, sessVars, Quiet

LEMMA ClientQuiet ==
    Client => Quiet \/ (SendSome /\ UNCHANGED sessVars)
<1>1. ASSUME ParseArgs, UNCHANGED sessVars PROVE Quiet
  BY <1>1, FinishQuiet DEF ParseArgs, sockVars, sessVars, Quiet
<1>2. ASSUME SendFails, UNCHANGED sessVars PROVE Quiet
  BY <1>2, FinishQuiet DEF SendFails
<1>3. ASSUME ReadHeader, UNCHANGED sessVars PROVE Quiet
  BY <1>3, FinishQuiet DEF ReadHeader, sessVars, Quiet
<1>4. ASSUME HeaderEnds, UNCHANGED sessVars PROVE Quiet
  BY <1>4, FinishQuiet DEF HeaderEnds
<1>5. ASSUME NEW j, NEW n, Handle(j, n), cpc = "payload", UNCHANGED sessVars PROVE Quiet
  BY <1>5, FinishQuiet DEF Handle, Continue, sessVars, Quiet
<1>6. ASSUME ReadPayload, UNCHANGED sessVars PROVE Quiet
  BY <1>5, <1>6 DEF ReadPayload, sessVars, Quiet
<1>7. ASSUME PayloadEnds, UNCHANGED sessVars PROVE Quiet
  BY <1>7, FinishQuiet DEF PayloadEnds
<1>8. ASSUME NEW listening, ConnectUds(listening), UNCHANGED <<rx, parsed, closed>> PROVE Quiet
  BY <1>8 DEF ConnectUds, Finish, Quiet
<1> QED
  BY <1>1, <1>2, <1>3, <1>4, <1>6, <1>7, <1>8 DEF Client, CliStep

LEMMA NextQuiet ==
    Next => Quiet \/ (SendSome /\ UNCHANGED sessVars) \/ OnReadable
<1>1. ASSUME NEW d \in Daemons, Life(d) PROVE Quiet
  BY <1>1 DEF Life, cliVars, sessVars, Quiet
<1>2. Interrupt => Quiet
  BY DEF Interrupt, Interrupted, sockVars, sessVars, Quiet
<1>3. Accept => Quiet
  BY DEF Accept, cliVars, sessVars, Quiet
<1>4. Generate => Quiet
  BY DEF Generate, cliVars, sockVars, Quiet
<1>5. OnWritable => Quiet
  BY DEF OnWritable, Deliver, cliVars, Quiet
<1>6. IdleClose => Quiet
  BY DEF IdleClose, cliVars, sessVars, Quiet
<1> QED
  BY <1>1, <1>2, <1>3, <1>4, <1>5, <1>6, ClientQuiet DEF Next, Session

LEMMA RequestKept == UNCHANGED opt => UNCHANGED <<Request, Outgoing>>
  BY DEF Request, Outgoing

LEMMA QuietTransfer == TransferInv /\ Quiet => TransferInv'
<1> SUFFICES ASSUME TransferInv, Quiet PROVE TransferInv'
  OBVIOUS
<1>1. Request' = Request /\ Outgoing' = Outgoing
  BY RequestKept DEF Quiet
<1>2. up' \in Seq(Unit(Words)) /\ (up = <<>> => up' = <<>>)
  <2>1. up \in Seq(Unit(Words)) /\ <<>> \in Seq(Unit(Words))
    BY DEF TransferInv
  <2>2. up' = up \/ up' = <<>>
    BY DEF Quiet
  <2> QED
    BY <2>1, <2>2, Zenon
<1>3. parsed' = <<>> /\ ~closed' /\ cpc' # "done" => rx' \o up' = SubSeq(Outgoing', 1, off')
  BY <1>1 DEF Quiet, TransferInv
<1>4. RequestIntact'
  BY <1>1 DEF Quiet, TransferInv, RequestIntact
<1> QED
  BY <1>1, <1>2, <1>3, <1>4 DEF Quiet, TransferInv

LEMMA SendTransfer == TransferInv /\ SendSome /\ UNCHANGED sessVars => TransferInv'
<1> SUFFICES ASSUME TransferInv, SendSome, UNCHANGED sessVars PROVE TransferInv'
  OBVIOUS
<1>1. Request' = Request /\ Outgoing' = Outgoing
  BY RequestKept DEF SendSome
<1>2. PICK n \in 1..Fewest(Len(Outgoing) - off, UpCap - Len(up)) :
        up' = up \o SubSeq(Outgoing, off + 1, off + n) /\ off' = off + n
  BY DEF SendSome
<1>3. off \in Nat /\ off <= Len(Outgoing) /\ Len(Outgoing) \in Nat
  BY RequestShape, SMT DEF TransferInv
<1>4. UpCap \in Nat /\ Len(up) \in Nat
  BY CliAssumption DEF TransferInv
<1>5. n \in Nat \ {0} /\ off + n <= Len(Outgoing)
  BY <1>2, <1>3, <1>4, SMT DEF Fewest
<1> DEFINE piece == SubSeq(Outgoing, off + 1, off + n)
<1>6. /\ piece \in Seq(Unit(Words)) /\ SubSeq(Outgoing, 1, off) \in Seq(Unit(Words))
      /\ SubSeq(Outgoing, 1, off) \o piece = SubSeq(Outgoing, 1, off + n)
  BY <1>3, <1>5, RequestShape, SMT
<1> HIDE DEF piece
<1>7. rx \o (up \o piece) = (rx \o up) \o piece
  <2>1. rx \in Seq(Unit(Words)) /\ up \in Seq(Unit(Words)) /\ piece \in Seq(Unit(Words))
    BY <1>6 DEF TransferInv
  <2> QED
    BY <2>1, ConcatAssociative
<1>8. up' \in Seq(Unit(Words)) /\ up' = up \o piece
  BY <1>2, <1>6, ConcatProperties DEF TransferInv, piece
<1>9. off # Len(Outgoing) /\ off' \in 0..Len(Outgoing)
  BY <1>2, <1>3, <1>5, SMT
<1>10. parsed = <<>> /\ parsed' = <<>> /\ closed' = closed /\ rx' = rx
  BY <1>9 DEF TransferInv, RequestIntact, sessVars
<1>11. cpc # "done"
  BY DEF SendSome
<1>12. ~closed' => rx' \o up' = SubSeq(Outgoing', 1, off')
  BY <1>1, <1>2, <1>6, <1>7, <1>8, <1>10, <1>11 DEF TransferInv
<1> QED
  BY <1>1, <1>8, <1>9, <1>10, <1>12 DEF TransferInv, RequestIntact

LEMMA ReceiveTransfer == TransferInv /\ OnReadable => TransferInv'
<1> SUFFICES ASSUME TransferInv, OnReadable PROVE TransferInv'
  OBVIOUS
<1> DEFINE r == TryReadFrame(rx \o up)
<1>1. Request' = Request /\ Outgoing' = Outgoing
  BY RequestKept DEF OnReadable, cliVars
<1>2. parsed = <<>> /\ ~closed /\ cpc # "done"
  BY DEF OnReadable, Serving, TransferInv
<1>3. rx \o up = SubSeq(Outgoing, 1, off) /\ off \in 0..Len(Outgoing)
  BY <1>2 DEF TransferInv
<1>4. /\ r.is = "frame" => off = Len(Outgoing) /\ r.json = Request /\ r.rx = <<>>
      /\ r.is # "frame" => r.rx = rx \o up
      /\ r.is # "zero"
  BY <1>3, RequestTaken
<1>5. /\ up' = <<>> /\ rx' = r.rx /\ parsed' = IF r.is = "frame" THEN r.json ELSE parsed
      /\ off' = off /\ cpc' = cpc
  BY Zenon DEF OnReadable, cliVars
<1>6. \/ r.is = "frame"
      \/ r.is # "frame" /\ closed'
      \/ r.is # "frame" /\ closed' = closed
  <2>1. ASSUME NEW event, Reply(event, "error") PROVE closed'
    <3>1. PICK t, n : Deliver(t, n, "stream", "error" # "eos")
      BY <2>1 DEF Reply
    <3> QED
      BY <3>1 DEF Deliver
  <2> QED
    BY <2>1, Zenon DEF OnReadable
<1>7. <<>> \in Seq(Unit(Words)) /\ rx \o up \in Seq(Unit(Words))
  BY ConcatProperties DEF TransferInv
<1> HIDE DEF r
<1>8. CASE r.is = "frame"
  <2>1. parsed' = Request /\ rx' = <<>> /\ off = Len(Outgoing)
    BY <1>4, <1>5, <1>8, Zenon
  <2>2. Request # <<>>
    BY RequestShape
  <2> QED
    BY <1>1, <1>3, <1>5, <1>7, <2>1, <2>2, Zenon DEF TransferInv, RequestIntact
<1>9. CASE r.is # "frame"
  <2>1. parsed' = <<>> /\ rx' = rx \o up
    BY <1>2, <1>4, <1>5, <1>9, Zenon
  <2>2. rx' \o up' = SubSeq(Outgoing', 1, off')
    <3>1. (rx \o up) \o <<>> = rx \o up
      BY <1>7, ConcatEmptySeq
    <3> QED
      BY <1>1, <1>3, <1>5, <2>1, <3>1, Zenon
  <2> QED
    BY <1>1, <1>3, <1>5, <1>7, <2>1, <2>2, Zenon DEF TransferInv, RequestIntact
<1> QED
  BY <1>8, <1>9

(* Whatever the pattern of reads, writes, failures and restarts, the       *)
(* daemon takes from its buffer exactly the request the client wrote, and  *)
(* only when all of it was written.                                        *)
THEOREM RequestIntactAlways == Spec => []RequestIntact
<1>1. Init => TransferInv
  <2> SUFFICES ASSUME Init PROVE TransferInv
    OBVIOUS
  <2>1. rx = <<>> /\ up = <<>> /\ off = 0 /\ parsed = <<>>
    BY DEF Init, CliInit
  <2>2. <<>> \in Seq(Unit(Words)) /\ <<>> \o <<>> = <<>> /\ SubSeq(Outgoing, 1, 0) = <<>>
    BY RequestShape
  <2>3. off \in 0..Len(Outgoing)
    BY <2>1, RequestShape, SMT
  <2> QED
    BY <2>1, <2>2, <2>3 DEF TransferInv, RequestIntact
<1>2. TransferInv /\ [Next]_vars => TransferInv'
  <2>1. UNCHANGED vars => Quiet
    BY DEF vars, cliVars, sockVars, sessVars, Quiet
  <2> QED
    BY <2>1, NextQuiet, QuietTransfer, SendTransfer, ReceiveTransfer
<1>3. TransferInv => RequestIntact
  BY DEF TransferInv
<1> QED
  BY <1>1, <1>2, <1>3, PTL DEF Spec
=============================================================================
