------------------------------ MODULE Protocol ------------------------------
(***************************************************************************)
(* The framed protocol of ipc/protocol.cpp and the field scanners of       *)
(* session_manager.cpp and cli/main.cpp.                                   *)
(*                                                                         *)
(* A JSON payload is the sequence of its quoted strings, in the order      *)
(* written: key, value, key, value and so on, without the fields that no   *)
(* reader looks up.  A string is the text and the escapes json_escape put  *)
(* in it: none, those of two characters, or also \u00XX.  A stream is a    *)
(* sequence of units, each a byte of a frame header or one string of a     *)
(* payload, and may be cut between any two.                                *)
(***************************************************************************)
EXTENDS Integers, Sequences

CONSTANTS
    MaxFrame,  \* kDefaultMaxFrameBytes
    Quoted,    \* texts with a quote, backslash, newline, return or tab
    Control,   \* texts with another control character
    Bare,      \* these texts with u00XX in place of such characters
    Masked     \* these texts with '?' in place of them

(* The longest payload considered, within the 32 bits of a header.         *)
Longest == 2147483647

ASSUME MaxFrameAssumption == MaxFrame \in Nat \ {0} /\ MaxFrame <= Longest

(* An empty or missing string.                                            *)
NoText == ""

ASSUME TextAssumption ==
    /\ Quoted \cap Control = {} /\ NoText \notin Quoted \cup Control
    /\ DOMAIN Bare = Control /\ DOMAIN Masked = Control
    /\ \A t \in Control : {Bare[t], Masked[t]} \cap {t, NoText} = {}

(* A unit that is a byte of a header, or the string of a payload.          *)
NoByte == 256
Byte(b) == <<b, "byte">>
Units(json) == [i \in DOMAIN json |-> <<NoByte, json[i]>>]
Strings(units) == [i \in DOMAIN units |-> units[i][2]]

(* The four header bytes of a length, least significant first.             *)
Header(n) ==
    <<Byte(n % 256), Byte((n \div 256) % 256), Byte((n \div 65536) % 256),
      Byte((n \div 16777216) % 256)>>

ReadU32(b) == b[1][1] + 256 * b[2][1] + 65536 * b[3][1] + 16777216 * b[4][1]

WriteFrame(tx, json) == tx \o Header(Len(json)) \o Units(json)

(* Faulty variant: a payload is taken before all of it arrived.            *)
TryReadFrameEarly(rx) ==
    LET len == ReadU32(rx)
        end == IF 4 + len < Len(rx) THEN 4 + len ELSE Len(rx)
    IN  IF Len(rx) < 4 THEN [is |-> "more", json |-> <<>>, rx |-> rx]
        ELSE IF len = 0 THEN [is |-> "zero", json |-> <<>>, rx |-> rx]
        ELSE IF len > MaxFrame THEN [is |-> "large", json |-> <<>>, rx |-> rx]
        ELSE [is |-> "frame", json |-> Strings(SubSeq(rx, 5, end)),
              rx |-> SubSeq(rx, end + 1, Len(rx))]

(* The outcome of try_read_frame: a frame taken from rx, "more" when the   *)
(* frame is incomplete, or one of the two errors, which leave rx alone.    *)
TryReadFrame(rx) ==
    LET len == ReadU32(rx)
    IN  IF Len(rx) < 4 THEN [is |-> "more", json |-> <<>>, rx |-> rx]
        ELSE IF len = 0 THEN [is |-> "zero", json |-> <<>>, rx |-> rx]
        ELSE IF len > MaxFrame THEN [is |-> "large", json |-> <<>>, rx |-> rx]
        ELSE IF Len(rx) < 4 + len THEN [is |-> "more", json |-> <<>>, rx |-> rx]
        ELSE [is |-> "frame", json |-> Strings(SubSeq(rx, 5, 4 + len)),
              rx |-> SubSeq(rx, 5 + len, Len(rx))]
-----------------------------------------------------------------------------
(* A text that goes into a payload as it is: field names, kinds of event.  *)
Literal(t) == [text |-> t, esc |-> "none"]

JsonEscape(t) ==
    [text |-> t,
     esc |-> IF t \in Control THEN "hex" ELSE IF t \in Quoted THEN "short" ELSE "none"]

(* The scanners find the first string equal to the key, wherever it is,    *)
(* then the next colon, then the next string.  After a key that is its     *)
(* value.  After a value that happens to equal the key it is the value of  *)
(* the following key.  A value with escapes equals no key.                 *)
At(j, k) == IF k \in DOMAIN j THEN j[k] ELSE Literal(NoText)
Found(j, key) ==
    IF \A i \in DOMAIN j : j[i] # Literal(key) THEN Literal(NoText)
    ELSE LET p == CHOOSE i \in DOMAIN j :
                     j[i] = Literal(key) /\ \A k \in 1..(i - 1) : j[k] # Literal(key)
         IN  At(j, IF p % 2 = 1 THEN p + 1 ELSE p + 2)

(* uma-cli's scanner undoes the escapes of two characters and otherwise    *)
(* drops the backslash: of \u00XX it keeps u00XX.                          *)
JsonGetString(j, key) ==
    LET w == Found(j, key) IN IF w.esc = "hex" THEN Bare[w.text] ELSE w.text

(* umad's scanner puts '?' for \uXXXX.  The escapes it calls invalid, and  *)
(* unescaped control characters, json_escape does not write.               *)
ExtractJsonString(j, key) ==
    LET w == Found(j, key) IN IF w.esc = "hex" THEN Masked[w.text] ELSE w.text

(* Payloads written by umad.                                               *)
Event(id, event) == <<Literal("id"), JsonEscape(id), Literal("event"), Literal(event)>>
TokenEvent(id, text) == Event(id, "token") \o <<Literal("text"), JsonEscape(text)>>
EosEvent(id) == Event(id, "eos")
ErrorEvent(id, message) == Event(id, "error") \o <<Literal("message"), JsonEscape(message)>>
MetricsEvent == <<Literal("event"), Literal("metrics")>>

(* Payloads written by uma-cli; the values of the options are numbers.     *)
PromptRequest(id, prompt) ==
    <<Literal("id"), JsonEscape(id), Literal("prompt"), JsonEscape(prompt)>>
OptionsRequest(id, prompt) ==
    PromptRequest(id, prompt) \o <<Literal("temperature"), Literal("top_p")>>
MetricsRequest == <<Literal("type"), Literal("metrics")>>
=============================================================================
