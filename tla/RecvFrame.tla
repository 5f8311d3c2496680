----------------------------- MODULE RecvFrame -----------------------------
(***************************************************************************)
(* The digester hooks that frame the answers of AT+QIRD and AT+QSSLRECV in *)
(* a byte stream that arrives piece by piece (src/src/cellular.rs:         *)
(* recv_digest_frame and its three entry points), and the parser that      *)
(* takes the payload out of the frame (quectel_atat/mod.rs:                *)
(* parse_socket_recv).  The stream is a sequence of tokens: a header, a    *)
(* length, a CRLF, "OK" with its CRLF, or a byte of no meaning; a payload  *)
(* may hold any of them, as bytes do.                                      *)
(***************************************************************************)
EXTENDS Naturals, Sequences

CONSTANTS
  Hooks,       (* that may be installed: of "tcp", "ssl" and "socket"       *)
  MaxPayload,  (* bound: tokens of a payload                                *)
  MaxFrames    (* bound: answers                                            *)

ASSUME RecvFrameAssumption ==
  Hooks \subseteq {"tcp", "ssl", "socket"} /\ MaxPayload \in Nat /\ MaxFrames \in Nat

Token(s) == [is |-> s, n |-> 0]
Digits(n) == [is |-> "digits", n |-> n]   (* a decimal length               *)

TcpHeader == Token("+QIRD: ")
SslHeader == Token("+QSSLRECV: ")
CRLF == Token("CRLF")
Ok == Token("OK")

Tokens == {TcpHeader, SslHeader, Digits(0), CRLF, Ok, Token("byte")}
Lengths == {Digits(n) : n \in 0..MaxPayload}
Payloads == UNION {[1..n -> Tokens] : n \in 0..MaxPayload}

(* The answer of the modem to one read.                                    *)
Frame(header, payload) ==
  <<header, Digits(Len(payload)), CRLF>> \o payload \o <<CRLF, Ok>>

VARIABLES
  hook,             (* the installed one                                    *)
  header, payload,  (* of the answer under way                              *)
  wire,             (* its tokens that have not arrived                     *)
  buf,              (* the ingress buffer                                   *)
  phase,            (* "idle", "waiting" or "answered"                      *)
  answer,           (* the payload read returned                            *)
  frames,
  spoofed           (* "yes" once a TCP payload held a TLS header under the *)
                    (* hook for both                                        *)

vars == <<hook, header, payload, wire, buf, phase, answer, frames, spoofed>>
-----------------------------------------------------------------------------
(* Position of the first such token from position i on, 0 if there is none.*)
Find(s, token, i) ==
  IF \E k \in i..Len(s) : s[k] = token
  THEN CHOOSE k \in i..Len(s) :
         s[k] = token /\ \A j \in i..(k - 1) : s[j] # token
  ELSE 0

NoMatch == [is |-> "NoMatch", frame |-> <<>>, consumed |-> 0]
Incomplete == [is |-> "Incomplete", frame |-> <<>>, consumed |-> 0]

(* Where the search for the final OK begins.                               *)
OkFrom_PayloadStart(start, end) == start
OkFrom(start, end) == end + 1

(* What precedes the CRLF parses as a length.  Where two such tokens meet, *)
(* in a payload, they are zeros, and so is what they make.                 *)
IsLength(s) == s # <<>> /\ \A k \in DOMAIN s : s[k].is = "digits"

LastByte_OneShort(start, len) == start + len - 2
LastByte(start, len) == start + len - 1

Enough_NextFrame(b, end) == Len(b) > end + 2
Enough(b, end) == Len(b) >= end

RecvDigestFrame(b, h) ==
  LET hdr == Find(b, h, 1)
      nl == Find(b, CRLF, hdr + 1)
      text == SubSeq(b, hdr + 1, nl - 1)
      start == nl + 1
      end == LastByte(start, text[1].n)
      ok == Find(b, Ok, OkFrom(start, end)) IN
  IF hdr = 0 THEN NoMatch
  ELSE IF nl = 0 THEN Incomplete
  ELSE IF ~IsLength(text) THEN NoMatch
  ELSE IF ~Enough(b, end) \/ ok = 0 THEN Incomplete
  ELSE [is |-> "Frame", frame |-> SubSeq(b, hdr, end), consumed |-> ok]

Digest(b) ==
  IF hook = "tcp" THEN RecvDigestFrame(b, TcpHeader)
  ELSE IF hook = "ssl" THEN RecvDigestFrame(b, SslHeader)
  ELSE LET r == RecvDigestFrame(b, SslHeader) IN
       IF r.is = "NoMatch" THEN RecvDigestFrame(b, TcpHeader) ELSE r

InvalidResponse == <<Token("InvalidResponse")>>

(* parse_socket_recv finds the header and the length again and takes at    *)
(* most that many bytes of what follows (and at most 512, which no read    *)
(* asks for more than); a frame of the other command is an InvalidResponse.*)
ParseSocketRecv_KeepsLength(f, h) ==
  LET hdr == Find(f, h, 1)
      rest == SubSeq(f, hdr + 1, Len(f))
      len == f[hdr + 1].n IN
  IF hdr = 0 THEN InvalidResponse
  ELSE SubSeq(rest, 1, IF len <= Len(rest) THEN len ELSE Len(rest))

ParseSocketRecv(f, h) ==
  LET hdr == Find(f, h, 1)
      nl == Find(f, CRLF, hdr + 1)
      text == SubSeq(f, hdr + 1, IF nl = 0 THEN Len(f) ELSE nl - 1)
      rest == IF nl = 0 THEN <<>> ELSE SubSeq(f, nl + 1, Len(f))
      len == text[1].n IN
  IF hdr = 0 \/ ~IsLength(text) THEN InvalidResponse
  ELSE SubSeq(rest, 1, IF len <= Len(rest) THEN len ELSE Len(rest))
-----------------------------------------------------------------------------
Headers(k) == IF k = "tcp" THEN {TcpHeader}
              ELSE IF k = "ssl" THEN {SslHeader} ELSE {TcpHeader, SslHeader}

Init ==
  /\ hook \in Hooks /\ header \in Headers(hook) /\ payload = <<>>
  /\ wire = <<>> /\ buf = <<>> /\ phase = "idle" /\ answer = <<>>
  /\ frames = 0 /\ spoofed = "no"

Spoofs(h, p) ==
  hook = "socket" /\ h = TcpHeader /\ \E k \in DOMAIN p : p[k] = SslHeader

(* A read is sent and the modem answers it: h says over which transport.   *)
Read(h, p) ==
  /\ phase \in {"idle", "answered"} /\ frames < MaxFrames
  /\ frames' = frames + 1 /\ phase' = "waiting"
  /\ header' = h /\ payload' = p /\ wire' = wire \o Frame(h, p)
  /\ spoofed' = IF Spoofs(h, p) THEN "yes" ELSE spoofed
  /\ UNCHANGED <<hook, buf, answer>>

(* The next token arrives.                                                 *)
Arrive ==
  /\ wire # <<>>
  /\ buf' = Append(buf, Head(wire)) /\ wire' = Tail(wire)
  /\ UNCHANGED <<hook, header, payload, phase, answer, frames, spoofed>>

(* The digester looks at the buffer, at any moment.  The echo of a command *)
(* and lines of other answers are not in this stream, so NoMatch waits.    *)
Ingress ==
  /\ phase = "waiting"
  /\ \E d \in {Digest(buf)} :
       /\ d.is = "Frame"
       /\ answer' = ParseSocketRecv(d.frame, header)
       /\ buf' = SubSeq(buf, d.consumed + 1, Len(buf))
  /\ phase' = "answered"
  /\ UNCHANGED <<hook, header, payload, wire, frames, spoofed>>

Next ==
  \/ \E h \in Headers(hook), p \in Payloads : Read(h, p)
  \/ Arrive \/ Ingress

Spec == Init /\ [][Next]_vars
FairSpec == Spec /\ WF_vars(Arrive) /\ WF_vars(Ingress)
-----------------------------------------------------------------------------
(* Types; an answer has at most the tokens of a payload.                   *)
TypeOK ==
  /\ hook \in Hooks /\ header \in Headers(hook) /\ payload \in Payloads
  /\ wire \in Seq(Tokens \cup Lengths)
  /\ buf \in Seq(Tokens \cup Lengths)
  /\ phase \in {"idle", "waiting", "answered"} /\ frames \in 0..MaxFrames
  /\ answer \in Payloads \cup {InvalidResponse}

(* A read returns the bytes the modem sent for it, whatever they are and   *)
(* wherever the stream was cut (cellular.rs:181-195); under the hook for   *)
(* both transports, as long as no TCP payload holds a TLS header.          *)
AnswerIsPayload ==
  phase = "answered" /\ spoofed = "no" => answer = payload

(* The frame goes from the buffer as a whole, and nothing after it, so the *)
(* next read starts in step with the modem (cellular.rs:188-195).          *)
FrameConsumed ==
  phase # "waiting" /\ spoofed = "no" => buf = <<>> /\ wire = <<>>

(* A frame that has arrived is recognised.                                 *)
ReadAnswered ==
  phase = "waiting" /\ spoofed = "no" ~> phase = "answered"
=============================================================================
