--------------------------- MODULE RecvFrameProofs ---------------------------
(***************************************************************************)
(* The framing of a read's answer, for every payload, however the stream   *)
(* is cut and however many reads there are.                                *)
(***************************************************************************)
EXTENDS RecvFrame, SequenceTheorems, TLAPS

Values == Tokens \cup Lengths

LEMMA TokensDiffer ==
  /\ TcpHeader # SslHeader /\ CRLF # Ok
  /\ \A h \in {TcpHeader, SslHeader} : h # CRLF /\ h # Ok
  /\ \A m : /\ Digits(m).is = "digits" /\ Digits(m).n = m
            /\ Digits(m) # CRLF /\ Digits(m) # Ok
            /\ Digits(m) # TcpHeader /\ Digits(m) # SslHeader
<1>1. \A t, u : t.is # u.is => t # u
  OBVIOUS
<1>2. /\ TcpHeader.is = "+QIRD: " /\ SslHeader.is = "+QSSLRECV: "
      /\ CRLF.is = "CRLF" /\ Ok.is = "OK"
  BY DEF TcpHeader, SslHeader, CRLF, Ok, Token
<1>3. \A m : Digits(m).is = "digits" /\ Digits(m).n = m
  BY DEF Digits
<1> QED
  BY <1>1, <1>2, <1>3

-----------------------------------------------------------------------------
(* Find, where the token is and where it is not.                           *)
LEMMA FindIs ==
  ASSUME NEW s, NEW token, NEW i \in Nat, NEW k \in i..Len(s), Len(s) \in Nat,
         s[k] = token, \A j \in i..(k - 1) : s[j] # token
  PROVE  Find(s, token, i) = k
<1> DEFINE First(m) == s[m] = token /\ \A j \in i..(m - 1) : s[j] # token
<1>1. First(k)
  OBVIOUS
<1>2. ASSUME NEW m \in i..Len(s), First(m)
      PROVE  m = k
  <2>1. ~(m < k) /\ ~(k < m)
    BY <1>1, <1>2
  <2> QED
    BY <2>1
<1>3. Find(s, token, i) = CHOOSE m \in i..Len(s) : First(m)
  BY DEF Find
<1> HIDE DEF First
<1> QED
  BY <1>1, <1>2, <1>3

LEMMA FindNone ==
  ASSUME NEW s, NEW token, NEW i, \A k \in i..Len(s) : s[k] # token
  PROVE  Find(s, token, i) = 0
  BY DEF Find

(* A payload, its length in digits, and the frame around it.               *)
LEMMA PayloadWhat ==
  ASSUME NEW p \in Payloads
  PROVE  /\ p \in Seq(Tokens) /\ Len(p) \in Nat /\ DOMAIN p = 1..Len(p)
         /\ Digits(Len(p)) \in Lengths
<1>1. PICK n \in 0..MaxPayload : p \in [1..n -> Tokens]
  BY DEF Payloads
<1>2. n \in Nat
  BY <1>1, RecvFrameAssumption
<1>3. p \in Seq(Tokens) /\ Len(p) = n /\ DOMAIN p = 1..n
  BY <1>1, <1>2
<1> QED
  BY <1>1, <1>2, <1>3 DEF Lengths

IsFrame(f, h, p) ==
  /\ f \in Seq(Values) /\ Len(f) = Len(p) + 5
  /\ f[1] = h /\ f[2] = Digits(Len(p)) /\ f[3] = CRLF
  /\ \A i \in 1..Len(p) : f[i + 3] = p[i]
  /\ f[Len(p) + 4] = CRLF /\ f[Len(p) + 5] = Ok

LEMMA FrameWhat ==
  ASSUME NEW h \in {TcpHeader, SslHeader}, NEW p \in Payloads
  PROVE  IsFrame(Frame(h, p), h, p)
<1> DEFINE a == <<h, Digits(Len(p)), CRLF>>
           b == <<CRLF, Ok>>
<1>1. /\ p \in Seq(Tokens) /\ Len(p) \in Nat /\ Digits(Len(p)) \in Values
  BY PayloadWhat DEF Values
<1>2. /\ h \in Values /\ CRLF \in Values /\ Ok \in Values /\ Tokens \subseteq Values
  BY DEF Values, Tokens
<1>3. /\ a \in Seq(Values) /\ Len(a) = 3 /\ a[1] = h /\ a[2] = Digits(Len(p)) /\ a[3] = CRLF
  BY <1>1, <1>2
<1>4. b \in Seq(Values) /\ Len(b) = 2 /\ b[1] = CRLF /\ b[2] = Ok
  BY <1>2
<1>5. p \in Seq(Values)
  BY <1>1, <1>2, SeqMonotonic
<1> HIDE DEF a, b
<1> DEFINE c == a \o p
           f == c \o b
<1>6. /\ c \in Seq(Values) /\ Len(c) = Len(p) + 3
      /\ \A i \in 1..Len(p) + 3 : c[i] = IF i <= 3 THEN a[i] ELSE p[i - 3]
  <2>1. /\ c \in Seq(Values) /\ Len(c) = Len(a) + Len(p)
        /\ \A i \in 1..Len(a) + Len(p) : c[i] = IF i <= Len(a) THEN a[i] ELSE p[i - Len(a)]
    BY <1>3, <1>5, ConcatProperties
  <2> QED
    BY <1>1, <1>3, <2>1
<1>7. /\ f \in Seq(Values) /\ Len(f) = Len(p) + 5
      /\ \A i \in 1..Len(p) + 5 : f[i] = IF i <= Len(p) + 3 THEN c[i] ELSE b[i - (Len(p) + 3)]
  <2> HIDE DEF c
  <2>1. /\ f \in Seq(Values) /\ Len(f) = Len(c) + Len(b)
        /\ \A i \in 1..Len(c) + Len(b) : f[i] = IF i <= Len(c) THEN c[i] ELSE b[i - Len(c)]
    BY <1>4, <1>6, ConcatProperties
  <2> QED
    BY <1>1, <1>4, <1>6, <2>1
<1>8. Frame(h, p) = f
  BY DEF Frame, a, b
<1> HIDE DEF c, f
<1>9. /\ f[1] = h /\ f[2] = Digits(Len(p)) /\ f[3] = CRLF
  BY <1>1, <1>3, <1>6, <1>7
<1>10. f[Len(p) + 4] = CRLF /\ f[Len(p) + 5] = Ok
  BY <1>1, <1>4, <1>7
<1>11. ASSUME NEW i \in 1..Len(p) PROVE f[i + 3] = p[i]
  <2>1. i + 3 \in 1..Len(p) + 3 /\ i + 3 \in 1..Len(p) + 5 /\ (i + 3) - 3 = i /\ ~(i + 3 <= 3)
    BY <1>1
  <2>2. f[i + 3] = c[i + 3]
    BY <1>7, <2>1
  <2>3. c[i + 3] = p[(i + 3) - 3]
    BY <1>6, <2>1
  <2> QED
    BY <2>1, <2>2, <2>3
<1> QED
  BY <1>7, <1>8, <1>9, <1>10, <1>11 DEF IsFrame


-----------------------------------------------------------------------------
(* A buffer that holds the beginning of a frame, or all of it.             *)
Begins(b, h, p) ==
  \E f : /\ IsFrame(f, h, p) /\ b \in Seq(Values) /\ Len(b) <= Len(f)
         /\ \A i \in 1..Len(b) : b[i] = f[i]

(* The hook of the header takes it for a frame when all of it is there, no *)
(* earlier, wherever the payload looks like an end, and cuts it before the *)
(* final CRLF and OK.                                                      *)
LEMMA DigestWhat ==
  ASSUME NEW h \in {TcpHeader, SslHeader}, NEW p \in Payloads, NEW b, Begins(b, h, p)
  PROVE  /\ Len(b) \in 0..Len(p) + 5
         /\ Len(b) = 0 => RecvDigestFrame(b, h) = NoMatch
         /\ Len(b) >= 1 /\ Len(b) <= Len(p) + 4 => RecvDigestFrame(b, h) = Incomplete
         /\ Len(b) = Len(p) + 5 =>
              RecvDigestFrame(b, h) = [is |-> "Frame", frame |-> SubSeq(b, 1, Len(p) + 3),
                                       consumed |-> Len(p) + 5]
<1> DEFINE n == Len(p)
           hdr == Find(b, h, 1)
           nl == Find(b, CRLF, hdr + 1)
           text == SubSeq(b, hdr + 1, nl - 1)
           start == nl + 1
           end == LastByte(start, text[1].n)
           ok == Find(b, Ok, OkFrom(start, end))
           r == RecvDigestFrame(b, h)
<1>1. PICK f : /\ IsFrame(f, h, p) /\ b \in Seq(Values) /\ Len(b) <= Len(f)
               /\ \A i \in 1..Len(b) : b[i] = f[i]
  BY DEF Begins
<1>2. n \in Nat /\ Digits(n) \in Lengths /\ Digits(n).n = n
      /\ Len(b) \in Nat /\ Len(b) <= n + 5
  BY <1>1, PayloadWhat, TokensDiffer, LenProperties DEF IsFrame
<1>3. /\ hdr = 0 => r = NoMatch
      /\ hdr # 0 /\ nl = 0 => r = Incomplete
      /\ hdr # 0 /\ nl # 0 /\ IsLength(text) /\ ok = 0 => r = Incomplete
      /\ hdr # 0 /\ nl # 0 /\ IsLength(text) /\ ok # 0 /\ Enough(b, end) =>
           r = [is |-> "Frame", frame |-> SubSeq(b, hdr, end), consumed |-> ok]
  BY DEF RecvDigestFrame
<1> HIDE DEF hdr, nl, text, start, end, ok, r
<1>4. Len(b) = 0 => hdr = 0
  <2>1. Len(b) = 0 => \A k \in 1..Len(b) : b[k] # h
    OBVIOUS
  <2> QED
    BY <2>1, FindNone DEF hdr
<1>5. Len(b) >= 1 => hdr = 1
  <2> SUFFICES ASSUME Len(b) >= 1 PROVE hdr = 1
    OBVIOUS
  <2>1. b[1] = h /\ 1 \in 1..Len(b) /\ \A j \in 1..(1 - 1) : b[j] # h
    BY <1>1, <1>2 DEF IsFrame
  <2> QED
    BY <1>2, <2>1, FindIs DEF hdr
<1>6. Len(b) >= 2 => b[2] # CRLF /\ b[2] = Digits(n)
  BY <1>1, <1>2, TokensDiffer DEF IsFrame
<1>7. Len(b) >= 1 /\ Len(b) <= 2 => nl = 0
  <2> SUFFICES ASSUME Len(b) >= 1 /\ Len(b) <= 2 PROVE nl = 0
    OBVIOUS
  <2>1. hdr + 1 = 2
    BY <1>2, <1>5
  <2>2. nl = Find(b, CRLF, 2)
    BY <2>1 DEF nl
  <2>3. \A k \in 2..Len(b) : k = 2 /\ b[2] # CRLF
    BY <1>2, <1>6
  <2>4. \A k \in 2..Len(b) : b[k] # CRLF
    BY <2>3
  <2> QED
    BY <2>2, <2>4, FindNone
<1>8. Len(b) >= 3 => nl = 3
  <2> SUFFICES ASSUME Len(b) >= 3 PROVE nl = 3
    OBVIOUS
  <2>1. nl = Find(b, CRLF, 2)
    BY <1>2, <1>5 DEF nl
  <2>2. b[3] = CRLF /\ 3 \in 2..Len(b) /\ \A j \in 2..(3 - 1) : b[j] # CRLF
    BY <1>1, <1>2, <1>6 DEF IsFrame
  <2> QED
    BY <1>2, <2>1, <2>2, FindIs
<1>9. Len(b) >= 3 => IsLength(text) /\ end = n + 3 /\ ok = Find(b, Ok, n + 4)
  <2> SUFFICES ASSUME Len(b) >= 3
               PROVE  IsLength(text) /\ end = n + 3 /\ ok = Find(b, Ok, n + 4)
    OBVIOUS
  <2>0. hdr + 1 = 2 /\ nl - 1 = 2 /\ nl + 1 = 4
    <3>1. hdr = 1 /\ nl = 3
      BY <1>2, <1>5, <1>8
    <3> QED
      BY <3>1
  <2>1. text = SubSeq(b, 2, 2) /\ start = 4
    BY <2>0 DEF text, start
  <2>2. \A i \in 2..2 : b[i] \in Values
    BY <1>1, <1>2, ElementOfSeq
  <2>3. /\ Len(SubSeq(b, 2, 2)) = IF 2 <= 2 THEN 2 - 2 + 1 ELSE 0
        /\ \A i \in 1..(2 - 2 + 1) : SubSeq(b, 2, 2)[i] = b[2 + i - 1]
    BY <2>2, SubSeqProperties
  <2>4. Len(text) = 1 /\ text[1] = Digits(n)
    BY <1>2, <1>6, <2>1, <2>3
  <2>5. end = n + 3
    BY <1>2, <2>1, <2>4 DEF end, LastByte
  <2> QED
    BY <1>2, <2>1, <2>4, <2>5, TokensDiffer DEF IsLength, ok, OkFrom
<1>10. Len(b) >= n + 4 => b[n + 4] # Ok
  BY <1>1, <1>2, TokensDiffer DEF IsFrame
<1>11. Len(b) >= 3 /\ Len(b) <= n + 4 => ok = 0
  <2> SUFFICES ASSUME Len(b) >= 3 /\ Len(b) <= n + 4 PROVE ok = 0
    OBVIOUS
  <2>1. \A k \in n + 4..Len(b) : b[k] # Ok
    BY <1>2, <1>10
  <2>2. ok = Find(b, Ok, n + 4)
    BY <1>2, <1>9
  <2> QED
    BY <2>1, <2>2, FindNone
<1>12. Len(b) = n + 5 => ok = n + 5 /\ Enough(b, end)
  <2> SUFFICES ASSUME Len(b) = n + 5 PROVE ok = n + 5 /\ Enough(b, end)
    OBVIOUS
  <2>1. /\ b[n + 5] = Ok /\ n + 5 \in n + 4..Len(b) /\ n + 4 \in Nat
        /\ \A j \in n + 4..(n + 5 - 1) : b[j] # Ok
    BY <1>1, <1>2, <1>10 DEF IsFrame
  <2>2. ok = Find(b, Ok, n + 4) /\ end = n + 3
    BY <1>2, <1>9
  <2>3. ok = n + 5
    BY <1>2, <2>1, <2>2, FindIs
  <2> QED
    BY <1>2, <2>2, <2>3 DEF Enough
<1>13. Len(b) = 0 => r = NoMatch
  BY <1>3, <1>4
<1>14. Len(b) >= 1 /\ Len(b) <= n + 4 => r = Incomplete
  <2>1. CASE Len(b) >= 1 /\ Len(b) <= 2
    BY <1>2, <1>3, <1>5, <1>7, <2>1
  <2>2. CASE Len(b) >= 3 /\ Len(b) <= n + 4
    BY <1>2, <1>3, <1>5, <1>8, <1>9, <1>11, <2>2
  <2> QED
    BY <1>2, <2>1, <2>2
<1>15. Len(b) = n + 5 =>
         r = [is |-> "Frame", frame |-> SubSeq(b, 1, n + 3), consumed |-> n + 5]
  BY <1>2, <1>3, <1>5, <1>8, <1>9, <1>12
<1> QED
  BY <1>2, <1>13, <1>14, <1>15 DEF r


(* The hook for both tries the TLS header first: it is not found in the    *)
(* answer of a TCP read, unless the payload holds one.                     *)
LEMMA DigestForeign ==
  ASSUME NEW p \in Payloads, NEW b, Begins(b, TcpHeader, p),
         \A k \in DOMAIN p : p[k] # SslHeader
  PROVE  RecvDigestFrame(b, SslHeader) = NoMatch
<1>1. PICK f : /\ IsFrame(f, TcpHeader, p) /\ b \in Seq(Values) /\ Len(b) <= Len(f)
               /\ \A i \in 1..Len(b) : b[i] = f[i]
  BY DEF Begins
<1>2. Len(p) \in Nat /\ DOMAIN p = 1..Len(p) /\ Digits(Len(p)) \in Lengths
      /\ Len(b) \in Nat
  BY <1>1, PayloadWhat, LenProperties
<1>3. ASSUME NEW k \in 1..Len(f)
      PROVE  f[k] # SslHeader
  <2>1. Len(f) = Len(p) + 5
    BY <1>1 DEF IsFrame
  <2>2. CASE k \in {1, 2, 3, Len(p) + 4, Len(p) + 5}
    BY <1>1, <1>2, <2>2, TokensDiffer DEF IsFrame
  <2>3. CASE k >= 4 /\ k <= Len(p) + 3
    <3>1. k - 3 \in 1..Len(p) /\ (k - 3) + 3 = k
      BY <1>2, <2>3
    <3>2. f[k] = p[k - 3]
      BY <1>1, <3>1 DEF IsFrame
    <3> QED
      BY <1>2, <3>1, <3>2
  <2> QED
    BY <1>2, <2>1, <2>2, <2>3
<1>4. \A k \in 1..Len(b) : b[k] # SslHeader
  <2>1. Len(f) \in Nat
    BY <1>1, LenProperties DEF IsFrame
  <2>2. \A k \in 1..Len(b) : k \in 1..Len(f)
    BY <1>1, <1>2, <2>1
  <2> QED
    BY <1>1, <1>3, <2>2
<1>5. Find(b, SslHeader, 1) = 0
  BY <1>4, FindNone
<1> QED
  BY <1>5 DEF RecvDigestFrame

(* With nothing in the buffer, or an answer of the transport whose header  *)
(* is tried first, the second header is not.                               *)
LEMMA DigestSsl ==
  ASSUME NEW p \in Payloads, NEW b, Begins(b, SslHeader, p),
         RecvDigestFrame(b, SslHeader).is = "NoMatch"
  PROVE  RecvDigestFrame(b, TcpHeader).is # "Frame"
<1>1. /\ Len(b) \in 0..Len(p) + 5
      /\ Len(b) >= 1 /\ Len(b) <= Len(p) + 4 =>
           RecvDigestFrame(b, SslHeader) = Incomplete
      /\ Len(b) = Len(p) + 5 => RecvDigestFrame(b, SslHeader).is = "Frame"
  BY DigestWhat
<1>2. Len(p) \in Nat
  BY PayloadWhat
<1>3. Len(b) = 0
  BY <1>1, <1>2 DEF Incomplete
<1>4. \A k \in 1..Len(b) : b[k] # TcpHeader
  BY <1>3
<1>5. Find(b, TcpHeader, 1) = 0
  BY <1>4, FindNone
<1> QED
  BY <1>5 DEF RecvDigestFrame, NoMatch

(* What the parser takes from the frame that the hook cut.                 *)
LEMMA ParseFrame ==
  ASSUME NEW h \in {TcpHeader, SslHeader}, NEW p \in Payloads, NEW b, IsFrame(b, h, p)
  PROVE  ParseSocketRecv(SubSeq(b, 1, Len(p) + 3), h) = p
<1> DEFINE n == Len(p)
           f == SubSeq(b, 1, n + 3)
           rest == SubSeq(f, 4, Len(f))
           one == SubSeq(f, 2, 2)
<1>1. /\ p \in Seq(Values) /\ n \in Nat /\ b \in Seq(Values) /\ Len(b) = n + 5
      /\ Digits(n) \in Lengths /\ Digits(n).n = n
  <2>1. p \in Seq(Tokens) /\ Tokens \subseteq Values
    BY PayloadWhat DEF Values
  <2>2. p \in Seq(Values)
    BY <2>1, SeqMonotonic
  <2> QED
    BY <2>2, PayloadWhat, TokensDiffer DEF IsFrame
<1>2. f \in Seq(Values) /\ Len(f) = n + 3 /\ \A i \in 1..n + 3 : f[i] = b[i]
  <2>1. \A i \in 1..n + 3 : b[i] \in Values
    BY <1>1, ElementOfSeq
  <2>2. /\ f \in Seq(Values)
        /\ Len(f) = IF 1 <= n + 3 THEN n + 3 - 1 + 1 ELSE 0
        /\ \A i \in 1..(n + 3 - 1 + 1) : f[i] = b[1 + i - 1]
    BY <1>1, <2>1, SubSeqProperties
  <2> HIDE DEF f
  <2> QED
    BY <1>1, <2>2
<1> HIDE DEF f
<1>3. f[1] = h /\ f[2] = Digits(n) /\ f[3] = CRLF /\ f[2] # CRLF
  BY <1>1, <1>2, TokensDiffer DEF IsFrame
<1>4. Find(f, h, 1) = 1
  <2>1. 1 \in 1..Len(f) /\ \A j \in 1..(1 - 1) : f[j] # h
    BY <1>1, <1>2
  <2> QED
    BY <1>1, <1>2, <1>3, <2>1, FindIs
<1>5. Find(f, CRLF, 2) = 3
  <2>1. 3 \in 2..Len(f) /\ \A j \in 2..(3 - 1) : f[j] # CRLF
    BY <1>1, <1>2, <1>3
  <2> QED
    BY <1>1, <1>2, <1>3, <2>1, FindIs
<1>6. IsLength(one) /\ one[1].n = n
  <2>1. \A i \in 2..2 : f[i] \in Values
    BY <1>1, <1>2, ElementOfSeq
  <2>2. /\ one \in Seq(Values)
        /\ Len(one) = IF 2 <= 2 THEN 2 - 2 + 1 ELSE 0
        /\ \A i \in 1..(2 - 2 + 1) : one[i] = f[2 + i - 1]
    BY <2>1, SubSeqProperties
  <2> HIDE DEF one
  <2>3. DOMAIN one = 1..1 /\ one # <<>> /\ one[1] = Digits(n)
    <3>1. Len(one) = 1 /\ one[1] = f[2]
      BY <2>2
    <3>2. DOMAIN one = 1..Len(one)
      BY <2>2, LenProperties
    <3>3. one # <<>>
      BY <2>2, <3>1, EmptySeq
    <3> QED
      BY <1>3, <3>1, <3>2, <3>3
  <2> QED
    BY <1>1, <2>3, TokensDiffer DEF IsLength
<1>7. rest \in Seq(Values) /\ Len(rest) = n /\ \A i \in 1..n : rest[i] = p[i]
  <2>1. \A i \in 4..n + 3 : f[i] \in Values
    BY <1>1, <1>2, ElementOfSeq
  <2>2. rest = SubSeq(f, 4, n + 3)
    BY <1>2
  <2> DEFINE q == SubSeq(f, 4, n + 3)
  <2>3. /\ q \in Seq(Values)
        /\ Len(q) = IF 4 <= n + 3 THEN n + 3 - 4 + 1 ELSE 0
        /\ \A i \in 1..(n + 3 - 4 + 1) : q[i] = f[4 + i - 1]
    BY <1>1, <2>1, SubSeqProperties
  <2> HIDE DEF q
  <2>4. q \in Seq(Values) /\ Len(q) = n /\ \A i \in 1..n : q[i] = f[i + 3]
    BY <1>1, <2>3
  <2>5. \A i \in 1..n : f[i + 3] = p[i]
    BY <1>1, <1>2 DEF IsFrame
  <2> QED
    BY <2>2, <2>4, <2>5 DEF q
<1>8. rest = p
  <2> HIDE DEF rest
  <2> QED
    BY <1>1, <1>7, SeqEqual
<1>9. SubSeq(p, 1, n) = p
  BY <1>1, SubSeqFull
<1>10. ParseSocketRecv(f, h) = SubSeq(rest, 1, IF n <= Len(rest) THEN n ELSE Len(rest))
  <2> DEFINE hdr == Find(f, h, 1)
             nl == Find(f, CRLF, hdr + 1)
             text == SubSeq(f, hdr + 1, IF nl = 0 THEN Len(f) ELSE nl - 1)
             tail == IF nl = 0 THEN <<>> ELSE SubSeq(f, nl + 1, Len(f))
             len == text[1].n
  <2>1. hdr # 0 /\ IsLength(text) =>
          ParseSocketRecv(f, h) = SubSeq(tail, 1, IF len <= Len(tail) THEN len ELSE Len(tail))
    BY DEF ParseSocketRecv
  <2>2. hdr = 1 /\ hdr + 1 = 2
    BY <1>4
  <2> HIDE DEF hdr
  <2>3. nl = 3
    BY <1>5, <2>2
  <2> HIDE DEF nl
  <2>4. text = one /\ tail = rest
    BY <2>2, <2>3
  <2> HIDE DEF text, tail, one, rest
  <2>5. len = n /\ IsLength(text)
    BY <1>6, <2>4
  <2> QED
    BY <2>1, <2>2, <2>4, <2>5
<1> QED
  BY <1>1, <1>8, <1>9, <1>10 DEF f


-----------------------------------------------------------------------------
(* Unless a TLS header came in a TCP payload: between two reads nothing is *)
(* left, and during one the buffer and what is still to come are together  *)
(* its answer.                                                             *)
InStep ==
  /\ phase # "waiting" => buf = <<>> /\ wire = <<>>
  /\ phase = "waiting" =>
       /\ buf \in Seq(Values) /\ wire \in Seq(Values)
       /\ buf \o wire = Frame(header, payload) /\ ~Spoofs(header, payload)
  /\ phase = "answered" => answer = payload

FrameInv ==
  /\ hook \in {"tcp", "ssl", "socket"} /\ header \in Headers(hook) /\ payload \in Payloads
  /\ phase \in {"idle", "waiting", "answered"} /\ spoofed \in {"yes", "no"}
  /\ spoofed = "no" => InStep

LEMMA InitFrame == Init => FrameInv
<1>1. <<>> \in Payloads
  <2>1. <<>> \in [1..0 -> Tokens] /\ 0 \in 0..MaxPayload
    BY RecvFrameAssumption
  <2> QED
    BY <2>1 DEF Payloads
<1> QED
  BY <1>1, RecvFrameAssumption DEF Init, FrameInv, InStep

LEMMA ReadStep ==
  ASSUME FrameInv, NEW h \in Headers(hook), NEW p \in Payloads, Read(h, p)
  PROVE  FrameInv'
<1>1. /\ hook' = hook /\ header' = h /\ payload' = p /\ phase' = "waiting" /\ buf' = buf
      /\ wire' = wire \o Frame(h, p) /\ phase # "waiting"
      /\ spoofed' = IF Spoofs(h, p) THEN "yes" ELSE spoofed
  BY DEF Read
<1>2. ASSUME spoofed' = "no"
      PROVE  InStep'
  <2>1. /\ buf = <<>> /\ wire = <<>> /\ ~Spoofs(h, p)
    BY <1>1, <1>2 DEF FrameInv, InStep
  <2>2. Frame(h, p) \in Seq(Values)
    BY FrameWhat DEF IsFrame, Headers
  <2>3. <<>> \o Frame(h, p) = Frame(h, p)
    BY <2>2, ConcatEmptySeq
  <2>4. wire' = Frame(h, p) /\ buf' = <<>> /\ <<>> \in Seq(Values)
    BY <1>1, <2>1, <2>3, EmptySeq
  <2>5. ~Spoofs(header, payload)'
    BY <1>1, <2>1 DEF Spoofs
  <2>6. (Frame(header, payload))' = Frame(h, p)
    BY <1>1
  <2> QED
    BY <1>1, <2>2, <2>3, <2>4, <2>5, <2>6 DEF InStep
<1> QED
  BY <1>1, <1>2 DEF FrameInv, Headers

(* A token that arrives leaves buffer and wire together as they were.      *)
LEMMA ArriveStream ==
  ASSUME NEW b \in Seq(Values), NEW w \in Seq(Values), w # <<>>
  PROVE  /\ Append(b, Head(w)) \in Seq(Values) /\ Tail(w) \in Seq(Values)
         /\ Append(b, Head(w)) \o Tail(w) = b \o w
<1> DEFINE x == Head(w)
           rest == Tail(w)
<1>1. x \in Values /\ rest \in Seq(Values) /\ Len(rest) = Len(w) - 1
      /\ (\A i \in 1..Len(rest) : rest[i] = w[i + 1]) /\ x = w[1]
  BY HeadTailProperties
<1> HIDE DEF x, rest
<1>2. /\ Append(b, x) \in Seq(Values) /\ Append(b, x) = b \o <<x>> /\ <<x>> \in Seq(Values)
  BY <1>1, AppendProperties, AppendIsConcat
<1>3. w = <<x>> \o rest
  <2> DEFINE one == <<x>>
  <2>1. one \in Seq(Values) /\ Len(one) = 1 /\ one[1] = x
    BY <1>2
  <2> HIDE DEF one
  <2> DEFINE c == one \o rest
  <2>2. /\ c \in Seq(Values) /\ Len(c) = Len(one) + Len(rest)
        /\ \A i \in 1..Len(one) + Len(rest) :
             c[i] = IF i <= Len(one) THEN one[i] ELSE rest[i - Len(one)]
    <3>1. one \in Seq(Values) /\ rest \in Seq(Values)
      BY <1>1, <2>1
    <3> QED
      BY <3>1, ConcatProperties
  <2> HIDE DEF c
  <2>3. Len(w) \in Nat /\ Len(rest) \in Nat
    BY <1>1, LenProperties
  <2>6. Len(c) = Len(w)
    BY <1>1, <2>1, <2>2, <2>3
  <2>4. \A i \in 1..Len(w) : w[i] = c[i]
    <3> TAKE i \in 1..Len(w)
    <3>3. i \in Nat /\ (i = 1 \/ i > 1) /\ i <= Len(w)
      BY <2>3
    <3>1. CASE i = 1
      BY <1>1, <2>1, <2>2, <2>3, <3>1
    <3>2. CASE i > 1
      <4>1. i - 1 \in 1..Len(rest) /\ (i - 1) + 1 = i /\ ~(i <= 1) /\ i \in 1..1 + Len(rest)
        BY <1>1, <2>3, <3>2, <3>3
      <4>2. rest[i - 1] = w[i]
        BY <1>1, <4>1
      <4> QED
        BY <2>1, <2>2, <4>1, <4>2
    <3> QED
      BY <3>1, <3>2, <3>3
  <2>5. w = c
    BY <2>2, <2>6, <2>4, SeqEqual
  <2> QED
    BY <2>5 DEF one, c
<1>4. Append(b, x) \o rest = b \o w
  <2> DEFINE one == <<x>>
  <2>1. one \in Seq(Values) /\ w = one \o rest /\ Append(b, x) = b \o one
    BY <1>2, <1>3
  <2> HIDE DEF one
  <2>2. (b \o one) \o rest = b \o (one \o rest)
    BY <1>1, <2>1, ConcatAssociative
  <2> QED
    BY <2>1, <2>2
<1> QED
  BY <1>1, <1>2, <1>4 DEF x, rest

LEMMA ArriveStep ==
  ASSUME FrameInv, Arrive
  PROVE  FrameInv'
<1>1. /\ wire # <<>> /\ buf' = Append(buf, Head(wire)) /\ wire' = Tail(wire)
      /\ UNCHANGED <<hook, header, payload, phase, answer, spoofed>>
  BY DEF Arrive
<1>2. ASSUME spoofed = "no"
      PROVE  InStep'
  <2>1. /\ phase = "waiting" /\ buf \in Seq(Values) /\ wire \in Seq(Values)
        /\ buf \o wire = Frame(header, payload) /\ ~Spoofs(header, payload)
    BY <1>1, <1>2 DEF FrameInv, InStep
  <2>2. /\ buf' \in Seq(Values) /\ wire' \in Seq(Values) /\ buf' \o wire' = buf \o wire
    BY <1>1, <2>1, ArriveStream
  <2>3. (buf \o wire)' = (Frame(header, payload))'
    BY <1>1, <2>1, <2>2
  <2>4. ~Spoofs(header, payload)'
    BY <1>1, <2>1 DEF Spoofs
  <2> QED
    BY <1>1, <2>1, <2>2, <2>3, <2>4 DEF InStep
<1> QED
  BY <1>1, <1>2 DEF FrameInv, Headers

(* The hook that is installed finds the answer of the read under way, and  *)
(* only when nothing of it is still to come.                               *)
LEMMA DigestInStep ==
  ASSUME FrameInv, spoofed = "no", phase = "waiting", Digest(buf).is = "Frame"
  PROVE  /\ IsFrame(buf, header, payload) /\ wire = <<>>
         /\ Digest(buf).frame = SubSeq(buf, 1, Len(payload) + 3)
         /\ Digest(buf).consumed = Len(buf)
<1> DEFINE F == Frame(header, payload)
<1>1. /\ buf \in Seq(Values) /\ wire \in Seq(Values) /\ buf \o wire = F
      /\ ~Spoofs(header, payload) /\ payload \in Payloads
      /\ header \in {TcpHeader, SslHeader} /\ header \in Headers(hook)
  BY DEF FrameInv, InStep, Headers
<1>2. IsFrame(F, header, payload) /\ Len(payload) \in Nat
  BY <1>1, FrameWhat, PayloadWhat
<1>3. Len(buf) \in Nat /\ Len(wire) \in Nat /\ Len(F) = Len(buf) + Len(wire)
      /\ \A i \in 1..Len(buf) : buf[i] = F[i]
  <2>1. /\ Len(buf \o wire) = Len(buf) + Len(wire)
        /\ \A i \in 1..Len(buf) + Len(wire) :
             (buf \o wire)[i] = IF i <= Len(buf) THEN buf[i] ELSE wire[i - Len(buf)]
    BY <1>1, ConcatProperties
  <2>2. Len(buf) \in Nat /\ Len(wire) \in Nat
    BY <1>1, LenProperties
  <2> HIDE DEF F
  <2> QED
    BY <1>1, <2>1, <2>2
<1> HIDE DEF F
<1>4. Begins(buf, header, payload)
  <2>1. Len(buf) <= Len(F)
    BY <1>3
  <2> QED
    BY <1>1, <1>2, <1>3, <2>1 DEF Begins
<1>5. Digest(buf) = RecvDigestFrame(buf, header)
  <2>1. CASE hook # "socket"
    BY <1>1, <2>1 DEF Digest, Headers, FrameInv
  <2>2. CASE hook = "socket" /\ header = TcpHeader
    <3>1. \A k \in DOMAIN payload : payload[k] # SslHeader
      BY <1>1, <2>2 DEF Spoofs
    <3>2. RecvDigestFrame(buf, SslHeader) = NoMatch
      BY <1>1, <1>4, <2>2, <3>1, DigestForeign
    <3> QED
      BY <2>2, <3>2 DEF Digest, NoMatch
  <2>3. CASE hook = "socket" /\ header = SslHeader
    <3>1. RecvDigestFrame(buf, SslHeader).is = "NoMatch" =>
            RecvDigestFrame(buf, TcpHeader).is # "Frame"
      BY <1>1, <1>4, <2>3, DigestSsl
    <3> QED
      BY <2>3, <3>1 DEF Digest
  <2> QED
    BY <1>1, <2>1, <2>2, <2>3
<1>6. Len(buf) = Len(payload) + 5
  <2>1. /\ Len(buf) \in 0..Len(payload) + 5
        /\ Len(buf) = 0 => RecvDigestFrame(buf, header) = NoMatch
        /\ Len(buf) >= 1 /\ Len(buf) <= Len(payload) + 4 =>
             RecvDigestFrame(buf, header) = Incomplete
    BY <1>1, <1>4, DigestWhat
  <2> QED
    BY <1>2, <1>5, <2>1 DEF NoMatch, Incomplete
<1>7. Digest(buf) = [is |-> "Frame", frame |-> SubSeq(buf, 1, Len(payload) + 3),
                     consumed |-> Len(payload) + 5]
  BY <1>1, <1>4, <1>5, <1>6, DigestWhat
<1>8. wire = <<>> /\ IsFrame(buf, header, payload)
  <2>1. Len(F) = Len(payload) + 5 /\ F \in Seq(Values)
    BY <1>2 DEF IsFrame
  <2>2. Len(wire) = 0 /\ Len(F) = Len(buf)
    BY <1>2, <1>3, <1>6, <2>1
  <2>3. wire = <<>>
    BY <1>1, <2>2, EmptySeq
  <2>4. buf = F
    BY <1>1, <1>3, <2>1, <2>2, SeqEqual
  <2> QED
    BY <1>2, <2>3, <2>4
<1> QED
  BY <1>6, <1>7, <1>8

LEMMA IngressStep ==
  ASSUME FrameInv, Ingress
  PROVE  FrameInv'
<1>1. /\ phase = "waiting" /\ phase' = "answered"
      /\ UNCHANGED <<hook, header, payload, wire, spoofed>>
      /\ Digest(buf).is = "Frame" /\ answer' = ParseSocketRecv(Digest(buf).frame, header)
      /\ buf' = SubSeq(buf, Digest(buf).consumed + 1, Len(buf))
  BY DEF Ingress
<1>2. ASSUME spoofed = "no"
      PROVE  InStep'
  <2>1. /\ IsFrame(buf, header, payload) /\ wire = <<>>
        /\ Digest(buf).frame = SubSeq(buf, 1, Len(payload) + 3)
        /\ Digest(buf).consumed = Len(buf)
    BY <1>1, <1>2, DigestInStep
  <2>2. payload \in Payloads /\ header \in {TcpHeader, SslHeader} /\ Len(buf) \in Nat
    BY <2>1, LenProperties DEF FrameInv, Headers, IsFrame
  <2>3. answer' = payload
    BY <1>1, <2>1, <2>2, ParseFrame
  <2>4. buf' = <<>>
    <3>1. Len(buf) + 1 \in Int /\ Len(buf) \in Int /\ Len(buf) < Len(buf) + 1
      BY <2>2
    <3>2. SubSeq(buf, Len(buf) + 1, Len(buf)) = <<>>
      BY <3>1, SubSeqEmpty
    <3> QED
      BY <1>1, <2>1, <3>2
  <2> QED
    BY <1>1, <2>1, <2>3, <2>4 DEF InStep
<1> QED
  BY <1>1, <1>2 DEF FrameInv, Headers

LEMMA FrameInvHolds == Spec => []FrameInv
<1>1. FrameInv /\ [Next]_vars => FrameInv'
  <2> SUFFICES ASSUME FrameInv, [Next]_vars PROVE FrameInv'
    OBVIOUS
  <2>1. CASE UNCHANGED vars
    BY <2>1 DEF vars, FrameInv, InStep, Headers, Spoofs
  <2> QED
    BY <2>1, ReadStep, ArriveStep, IngressStep DEF Next
<1> QED
  BY InitFrame, <1>1, PTL DEF Spec

(* cellular.rs:181-195: a read returns the bytes the modem sent for it,    *)
(* for every payload, with CRLF, OK and headers in it, and every cut of    *)
(* the stream, until a TCP payload holds a TLS header under the hook for   *)
(* both.                                                                   *)
THEOREM AnswerIsPayloadHolds == Spec => []AnswerIsPayload
<1>1. FrameInv => AnswerIsPayload
  BY DEF FrameInv, InStep, AnswerIsPayload
<1> QED
  BY FrameInvHolds, <1>1, PTL

(* cellular.rs:188-195: after every read the buffer is empty and nothing   *)
(* of its answer is under way: the next one starts in step.                *)
THEOREM FrameConsumedHolds == Spec => []FrameConsumed
<1>1. FrameInv => FrameConsumed
  BY DEF FrameInv, InStep, FrameConsumed
<1> QED
  BY FrameInvHolds, <1>1, PTL

-----------------------------------------------------------------------------
(* Types, of misread answers too.  A search finds the first of several     *)
(* places: that there is a first is an induction over the buffer, which    *)
(* the behaviour makes, since the buffer grows by one token at a time.     *)
HasLeast(n) == \A S \in SUBSET (1..n) : S # {} => \E x \in S : \A y \in S : x <= y

LEMMA LeastGrows ==
  ASSUME NEW n \in Nat, HasLeast(n)
  PROVE  HasLeast(n + 1)
<1> SUFFICES ASSUME NEW S \in SUBSET (1..n + 1), S # {}
             PROVE  \E x \in S : \A y \in S : x <= y
  BY DEF HasLeast
<1> DEFINE T == S \cap (1..n)
<1>1. CASE T # {}
  <2>1. PICK x \in T : \A y \in T : x <= y
    BY <1>1 DEF HasLeast
  <2>2. \A y \in S : y \in T \/ y = n + 1
    OBVIOUS
  <2>3. \A y \in S : x <= y
    BY <2>1, <2>2
  <2> QED
    BY <2>1, <2>3
<1>2. CASE T = {}
  <2>1. \A y \in S : y = n + 1
    BY <1>2
  <2>2. PICK x \in S : TRUE
    OBVIOUS
  <2>3. \A y \in S : y = x /\ x \in Nat
    BY <2>1, <2>2
  <2>4. \A y \in S : x <= y
    BY <2>3
  <2> QED
    BY <2>2, <2>4
<1> QED
  BY <1>1, <1>2

LEMMA LeastShrinks ==
  ASSUME NEW n \in Nat, NEW m \in Nat, m <= n, HasLeast(n)
  PROVE  HasLeast(m)
<1>1. \A S \in SUBSET (1..m) : S \in SUBSET (1..n)
  OBVIOUS
<1> QED
  BY <1>1 DEF HasLeast

(* What Find returns is where the token is for the first time.             *)
LEMMA FindFirst ==
  ASSUME NEW s, Len(s) \in Nat, HasLeast(Len(s)), NEW token, NEW i \in Nat, i >= 1,
         Find(s, token, i) # 0
  PROVE  /\ Find(s, token, i) \in i..Len(s) /\ s[Find(s, token, i)] = token
         /\ \A j \in i..Len(s) : j < Find(s, token, i) => s[j] # token
<1> DEFINE S == {k \in i..Len(s) : s[k] = token}
<1>1. S # {}
  BY DEF Find
<1>2. S \in SUBSET (1..Len(s))
  OBVIOUS
<1>3. PICK x \in S : \A y \in S : x <= y
  BY <1>1, <1>2 DEF HasLeast
<1>4. x \in i..Len(s) /\ s[x] = token /\ \A j \in i..(x - 1) : s[j] # token
  <2>1. \A j \in i..(x - 1) : ~(x <= j) /\ j \in i..Len(s)
    BY <1>3
  <2> QED
    BY <1>3, <2>1
<1>5. Find(s, token, i) = x
  BY <1>4, FindIs
<1>6. \A j \in i..Len(s) : j < x => j \in i..(x - 1)
  BY <1>4
<1> QED
  BY <1>4, <1>5, <1>6

LEMMA ValueWhat ==
  /\ \A v \in Values : v.n \in 0..MaxPayload
  /\ \A v \in Tokens : v.n = 0
<1>1. MaxPayload \in Nat
  BY RecvFrameAssumption
<1>2. \A v \in Tokens : v.n = 0
  <2>1. \A t, m : Token(t).n = 0 /\ Digits(m).n = m
    BY DEF Token, Digits
  <2> QED
    BY <2>1 DEF Tokens, TcpHeader, SslHeader, CRLF, Ok
<1>3. \A v \in Lengths : v.n \in 0..MaxPayload
  BY DEF Lengths, Digits
<1> QED
  BY <1>1, <1>2, <1>3 DEF Values

(* A piece of a sequence of tokens.                                        *)
LEMMA PieceWhat ==
  ASSUME NEW s \in Seq(Values), NEW m \in Nat, m >= 1, NEW n \in Nat, n <= Len(s)
  PROVE  /\ SubSeq(s, m, n) \in Seq(Values)
         /\ Len(SubSeq(s, m, n)) \in Nat
         /\ Len(SubSeq(s, m, n)) = IF m <= n THEN n - m + 1 ELSE 0
         /\ \A i \in 1..Len(SubSeq(s, m, n)) : SubSeq(s, m, n)[i] = s[m + i - 1]
<1>1. \A i \in m..n : s[i] \in Values
  <2>1. Len(s) \in Nat
    BY LenProperties
  <2>2. \A i \in m..n : i \in 1..Len(s)
    BY <2>1
  <2> QED
    BY <2>2, ElementOfSeq
<1> DEFINE q == SubSeq(s, m, n)
<1>2. /\ q \in Seq(Values)
      /\ Len(q) = IF m <= n THEN n - m + 1 ELSE 0
      /\ \A i \in 1..n - m + 1 : q[i] = s[m + i - 1]
  BY <1>1, SubSeqProperties
<1> HIDE DEF q
<1>3. Len(q) \in Nat /\ \A i \in 1..Len(q) : i \in 1..n - m + 1
  BY <1>2
<1>4. \A i \in 1..Len(q) : q[i] = s[m + i - 1]
  BY <1>2, <1>3
<1> QED
  BY <1>2, <1>3, <1>4 DEF q

(* A frame is a piece of the buffer, and what goes with it is not more     *)
(* than the buffer.                                                        *)
IsCut(d, b) ==
  /\ \E x \in 1..Len(b), e \in 1..Len(b) : d.frame = SubSeq(b, x, e)
  /\ d.consumed \in 1..Len(b)

LEMMA CutWhat ==
  ASSUME NEW b \in Seq(Values), HasLeast(Len(b)), NEW h, RecvDigestFrame(b, h).is = "Frame"
  PROVE  IsCut(RecvDigestFrame(b, h), b)
<1> DEFINE hdr == Find(b, h, 1)
           nl == Find(b, CRLF, hdr + 1)
           text == SubSeq(b, hdr + 1, nl - 1)
           start == nl + 1
           end == LastByte(start, text[1].n)
           ok == Find(b, Ok, OkFrom(start, end))
           r == RecvDigestFrame(b, h)
<1>1. /\ hdr # 0 /\ nl # 0 /\ IsLength(text) /\ Enough(b, end) /\ ok # 0
      /\ r.frame = SubSeq(b, hdr, end) /\ r.consumed = ok
  <2>1. NoMatch.is # "Frame" /\ Incomplete.is # "Frame"
    BY DEF NoMatch, Incomplete
  <2>2. r = IF hdr = 0 THEN NoMatch
            ELSE IF nl = 0 THEN Incomplete
            ELSE IF ~IsLength(text) THEN NoMatch
            ELSE IF ~Enough(b, end) \/ ok = 0 THEN Incomplete
            ELSE [is |-> "Frame", frame |-> SubSeq(b, hdr, end), consumed |-> ok]
    BY DEF RecvDigestFrame
  <2> HIDE DEF r, hdr, nl, text, end, ok
  <2>3. r.is = "Frame"
    BY DEF r
  <2>4. r = [is |-> "Frame", frame |-> SubSeq(b, hdr, end), consumed |-> ok]
    BY <2>1, <2>2, <2>3
  <2>5. hdr # 0 /\ nl # 0 /\ IsLength(text)
    BY <2>1, <2>2, <2>3
  <2>6. Enough(b, end) /\ ok # 0
    BY <2>1, <2>2, <2>3
  <2>7. r.frame = SubSeq(b, hdr, end) /\ r.consumed = ok
    BY <2>4
  <2> QED
    BY <2>5, <2>6, <2>7
<1>2. Len(b) \in Nat
  BY LenProperties
<1>3. hdr \in 1..Len(b)
  BY <1>1, <1>2, FindFirst
<1> HIDE DEF hdr
<1>4. nl \in (hdr + 1)..Len(b)
  <2>1. hdr + 1 \in Nat /\ hdr + 1 >= 1
    BY <1>2, <1>3
  <2> QED
    BY <1>1, <1>2, <2>1, FindFirst
<1> HIDE DEF nl
<1>5. text[1].n \in Nat
  <2>1. hdr + 1 \in Nat /\ nl - 1 \in Nat /\ hdr + 1 >= 1 /\ nl - 1 <= Len(b)
    BY <1>2, <1>3, <1>4
  <2>2. text \in Seq(Values)
    BY <2>1, PieceWhat
  <2>3. text # <<>>
    BY <1>1 DEF IsLength
  <2> HIDE DEF text
  <2>4. 1 \in 1..Len(text)
    BY <2>2, <2>3, EmptySeq
  <2>5. text[1] \in Values
    BY <2>2, <2>4, ElementOfSeq
  <2> QED
    BY <2>5, ValueWhat, RecvFrameAssumption
<1> HIDE DEF text
<1>6. end \in Nat /\ end >= 1 /\ end <= Len(b)
  BY <1>1, <1>2, <1>3, <1>4, <1>5 DEF LastByte, Enough
<1> HIDE DEF end
<1>7. ok \in 1..Len(b)
  <2>1. OkFrom(start, end) = end + 1
    BY DEF OkFrom
  <2>2. end + 1 \in Nat /\ end + 1 >= 1
    BY <1>6
  <2>3. ok \in (end + 1)..Len(b)
    BY <1>1, <1>2, <2>1, <2>2, FindFirst
  <2> QED
    BY <1>2, <1>6, <2>3
<1> HIDE DEF ok
<1> QED
  BY <1>1, <1>2, <1>3, <1>6, <1>7 DEF IsCut

LEMMA DigestCut ==
  ASSUME NEW b \in Seq(Values), HasLeast(Len(b)), Digest(b).is = "Frame"
  PROVE  IsCut(Digest(b), b)
<1>1. \E h \in {TcpHeader, SslHeader} : Digest(b) = RecvDigestFrame(b, h)
  BY DEF Digest
<1> QED
  BY <1>1, CutWhat

(* A length other than zero is one that the modem sent: what it counts     *)
(* follows it, as far as the piece goes, or in full.                       *)
LengthAt(s, i) == s[i].is = "digits" /\ s[i].n > 0

Counts(s) ==
  \A i \in 1..Len(s) : LengthAt(s, i) =>
    /\ i + 1 <= Len(s) => s[i + 1] = CRLF
    /\ \A j \in (i + 2)..(i + 1 + s[i].n) : j <= Len(s) => s[j] \in Tokens

Measured(s) ==
  \A i \in 1..Len(s) : LengthAt(s, i) => i + 1 + s[i].n <= Len(s)

LEMMA ParseBounded ==
  ASSUME NEW f \in Seq(Values), HasLeast(Len(f)), Counts(f), NEW h
  PROVE  ParseSocketRecv(f, h) \in Payloads \cup {InvalidResponse}
<1> DEFINE hdr == Find(f, h, 1)
           nl == Find(f, CRLF, hdr + 1)
           last == IF nl = 0 THEN Len(f) ELSE nl - 1
           text == SubSeq(f, hdr + 1, last)
           rest == IF nl = 0 THEN <<>> ELSE SubSeq(f, nl + 1, Len(f))
           len == text[1].n
           got == IF len <= Len(rest) THEN len ELSE Len(rest)
           r == ParseSocketRecv(f, h)
<1>1. \/ r = InvalidResponse
      \/ hdr # 0 /\ IsLength(text) /\ r = SubSeq(rest, 1, got)
  BY DEF ParseSocketRecv
<1> HIDE DEF r
<1> SUFFICES ASSUME hdr # 0, IsLength(text), r = SubSeq(rest, 1, got)
             PROVE  r \in Payloads
  BY <1>1 DEF r
<1>2. Len(f) \in Nat /\ MaxPayload \in Nat
  BY LenProperties, RecvFrameAssumption
<1>3. hdr \in 1..Len(f)
  BY <1>2, FindFirst
<1> HIDE DEF hdr
<1>4. \/ nl = 0
      \/ /\ nl \in (hdr + 1)..Len(f) /\ f[nl] = CRLF
         /\ \A j \in (hdr + 1)..Len(f) : j < nl => f[j] # CRLF
  <2>1. hdr + 1 \in Nat /\ hdr + 1 >= 1
    BY <1>2, <1>3
  <2> QED
    BY <1>2, <2>1, FindFirst
<1> HIDE DEF nl
<1>5. last \in Nat /\ last <= Len(f) /\ hdr + 1 \in Nat
  BY <1>2, <1>3, <1>4
<1>6. /\ hdr + 1 <= last /\ text[1] = f[hdr + 1]
      /\ text[1].is = "digits" /\ text[1].n \in 0..MaxPayload
  <2> HIDE DEF last
  <2>1. /\ text \in Seq(Values) /\ Len(text) \in Nat
        /\ Len(text) = IF hdr + 1 <= last THEN last - (hdr + 1) + 1 ELSE 0
        /\ \A i \in 1..Len(text) : text[i] = f[hdr + 1 + i - 1]
    BY <1>3, <1>5, PieceWhat
  <2> HIDE DEF text
  <2>2. text # <<>> /\ \A k \in DOMAIN text : text[k].is = "digits"
    BY DEF IsLength
  <2>3. 1 \in 1..Len(text) /\ 1 \in DOMAIN text
    BY <2>1, <2>2, EmptySeq
  <2>4. text[1] \in Values
    BY <2>1, <2>3, ElementOfSeq
  <2>5. hdr + 1 <= last
    BY <2>1, <2>3
  <2>6. text[1] = f[hdr + 1]
    <3>1. text[1] = f[hdr + 1 + 1 - 1]
      BY <2>1, <2>3
    <3>2. hdr + 1 + 1 - 1 = hdr + 1
      BY <1>3
    <3> QED
      BY <3>1, <3>2
  <2> QED
    BY <2>2, <2>3, <2>4, <2>5, <2>6, ValueWhat
<1> HIDE DEF text
<1>7. /\ rest \in Seq(Values) /\ Len(rest) \in Nat
      /\ nl # 0 => \A i \in 1..Len(rest) : rest[i] = f[nl + i] /\ nl + i <= Len(f)
  <2>1. CASE nl = 0
    BY <2>1, EmptySeq
  <2>2. CASE nl # 0
    <3> DEFINE q == SubSeq(f, nl + 1, Len(f))
    <3>1. nl + 1 \in Nat /\ nl + 1 >= 1 /\ nl \in Nat
      BY <1>2, <1>3, <1>4, <2>2
    <3>2. /\ q \in Seq(Values) /\ Len(q) \in Nat
          /\ Len(q) = IF nl + 1 <= Len(f) THEN Len(f) - (nl + 1) + 1 ELSE 0
          /\ \A i \in 1..Len(q) : q[i] = f[nl + 1 + i - 1]
      BY <1>2, <3>1, PieceWhat
    <3> HIDE DEF q
    <3>3. \A i \in 1..Len(q) : nl + 1 + i - 1 = nl + i /\ nl + i <= Len(f)
      BY <1>2, <3>1, <3>2
    <3>4. rest = q
      BY <2>2 DEF q
    <3> QED
      BY <3>2, <3>3, <3>4
  <2> QED
    BY <2>1, <2>2
<1>8. got \in 0..MaxPayload /\ got <= Len(rest) /\ got <= len
  <2> HIDE DEF rest
  <2> QED
    BY <1>2, <1>6, <1>7
<1>9. ASSUME NEW i \in 1..got
      PROVE  rest[i] \in Tokens
  <2>1. len > 0 /\ len \in Nat /\ i \in Nat /\ i >= 1 /\ i <= len /\ i \in 1..Len(rest)
    <3> HIDE DEF rest
    <3> QED
      BY <1>2, <1>6, <1>7, <1>8
  <2>2. hdr + 1 \in 1..Len(f) /\ LengthAt(f, hdr + 1) /\ f[hdr + 1].n = len
    BY <1>2, <1>3, <1>5, <1>6, <2>1 DEF LengthAt
  <2>3. nl # 0
    BY <2>1, EmptySeq
  <2>4. hdr + 1 + 1 <= Len(f)
    <3>1. nl # hdr + 1
      <4>1. f[hdr + 1].is = "digits" /\ CRLF.is = "CRLF"
        BY <1>6 DEF CRLF, Token
      <4> QED
        BY <1>4, <2>3, <4>1
    <3> QED
      BY <1>2, <1>3, <1>4, <2>3, <3>1
  <2>5. f[hdr + 1 + 1] = CRLF
    BY <2>2, <2>4 DEF Counts
  <2>6. nl = hdr + 2
    <3>1. hdr + 1 + 1 = hdr + 2 /\ hdr + 2 \in (hdr + 1)..Len(f)
      BY <1>2, <1>3, <2>4
    <3>2. ~(hdr + 2 < nl)
      BY <1>4, <2>3, <2>5, <3>1
    <3>3. nl # hdr + 1
      <4>1. f[hdr + 1].is = "digits" /\ CRLF.is = "CRLF"
        BY <1>6 DEF CRLF, Token
      <4> QED
        BY <1>4, <2>3, <4>1
    <3> QED
      BY <1>2, <1>3, <1>4, <2>3, <3>1, <3>2, <3>3
  <2>7. rest[i] = f[nl + i] /\ nl + i <= Len(f)
    <3> HIDE DEF rest
    <3> QED
      BY <1>7, <2>1, <2>3
  <2>8. nl + i \in ((hdr + 1) + 2)..((hdr + 1) + 1 + f[hdr + 1].n)
    BY <1>3, <2>1, <2>2, <2>6
  <2> QED
    BY <2>2, <2>7, <2>8 DEF Counts
<1>10. r \in [1..got -> Tokens]
  <2> HIDE DEF got, rest
  <2>1. got \in Int /\ 1 \in Int /\ \A i \in 1..got : rest[i] \in Tokens
    BY <1>8, <1>9, <1>2
  <2> DEFINE q == SubSeq(rest, 1, got)
  <2>2. /\ q \in Seq(Tokens)
        /\ Len(q) = IF 1 <= got THEN got - 1 + 1 ELSE 0
    BY <2>1, SubSeqProperties
  <2> HIDE DEF q
  <2>3. Len(q) = got
    BY <1>2, <1>8, <2>2
  <2>4. q \in [1..Len(q) -> Tokens]
    BY <2>2, LenProperties
  <2> QED
    BY <2>3, <2>4 DEF q
<1> QED
  BY <1>8, <1>10 DEF Payloads

LEMMA CountsWindow ==
  ASSUME NEW s \in Seq(Values), Counts(s), NEW t \in Seq(Values), NEW c \in Nat,
         Len(t) + c <= Len(s), \A i \in 1..Len(t) : t[i] = s[i + c]
  PROVE  /\ Counts(t)
         /\ Measured(s) /\ Len(t) + c = Len(s) => Measured(t)
<1>1. Len(s) \in Nat /\ Len(t) \in Nat
  BY LenProperties
<1>2. ASSUME NEW i \in 1..Len(t), LengthAt(t, i)
      PROVE  /\ i + c \in 1..Len(s) /\ LengthAt(s, i + c) /\ t[i] = s[i + c]
             /\ t[i].n \in Nat
  <2>1. i + c \in 1..Len(s) /\ t[i] = s[i + c]
    BY <1>1
  <2>2. t[i] \in Values
    BY ElementOfSeq
  <2> QED
    BY <1>2, <2>1, <2>2, ValueWhat, RecvFrameAssumption DEF LengthAt
<1>3. ASSUME NEW i \in 1..Len(t), LengthAt(t, i), i + 1 <= Len(t)
      PROVE  t[i + 1] = CRLF
  <2>1. /\ i + 1 \in 1..Len(t) /\ (i + 1) + c = (i + c) + 1 /\ (i + c) + 1 <= Len(s)
    BY <1>1, <1>3
  <2>2. s[(i + c) + 1] = CRLF
    BY <1>2, <1>3, <2>1 DEF Counts
  <2>3. t[i + 1] = s[(i + 1) + c]
    BY <2>1
  <2> QED
    BY <2>1, <2>2, <2>3
<1>4. ASSUME NEW i \in 1..Len(t), LengthAt(t, i),
             NEW j \in (i + 2)..(i + 1 + t[i].n), j <= Len(t)
      PROVE  t[j] \in Tokens
  <2>0. t[i].n \in Nat /\ t[i] = s[i + c]
    BY <1>2, <1>4
  <2>1. /\ j \in 1..Len(t) /\ j + c \in ((i + c) + 2)..((i + c) + 1 + t[i].n)
        /\ j + c <= Len(s)
    BY <1>1, <1>4, <2>0
  <2>2. s[j + c] \in Tokens
    <3>1. j + c \in ((i + c) + 2)..((i + c) + 1 + s[i + c].n)
      BY <2>0, <2>1
    <3> QED
      BY <1>2, <1>4, <2>1, <3>1 DEF Counts
  <2> QED
    BY <2>1, <2>2
<1>5. ASSUME Measured(s), Len(t) + c = Len(s), NEW i \in 1..Len(t), LengthAt(t, i)
      PROVE  i + 1 + t[i].n <= Len(t)
  <2>1. (i + c) + 1 + t[i].n <= Len(s) /\ t[i].n \in Nat
    BY <1>2, <1>5 DEF Measured
  <2> QED
    BY <1>1, <1>5, <2>1
<1>6. Counts(t)
  BY <1>3, <1>4 DEF Counts
<1>7. Measured(s) /\ Len(t) + c = Len(s) => Measured(t)
  BY <1>5 DEF Measured
<1> QED
  BY <1>6, <1>7

Sound(s) == Counts(s) /\ Measured(s)

LEMMA SoundConcat ==
  ASSUME NEW s \in Seq(Values), Sound(s), NEW t \in Seq(Values), Sound(t)
  PROVE  s \o t \in Seq(Values) /\ Sound(s \o t)
<1> DEFINE u == s \o t
<1>1. Len(s) \in Nat /\ Len(t) \in Nat
  BY LenProperties
<1>2. /\ u \in Seq(Values) /\ Len(u) = Len(s) + Len(t)
      /\ \A i \in 1..Len(s) + Len(t) : u[i] = IF i <= Len(s) THEN s[i] ELSE t[i - Len(s)]
  BY ConcatProperties
<1> HIDE DEF u
<1>3. ASSUME NEW i \in 1..Len(u), LengthAt(u, i)
      PROVE  /\ u[i].n \in Nat
             /\ i + 1 + u[i].n <= Len(u) /\ u[i + 1] = CRLF
             /\ \A j \in (i + 2)..(i + 1 + u[i].n) : u[j] \in Tokens
  <2>1. u[i] \in Values /\ u[i].n \in Nat /\ u[i].n > 0
    BY <1>2, <1>3, ElementOfSeq, ValueWhat, RecvFrameAssumption DEF LengthAt
  <2>2. CASE i <= Len(s)
    <3>1. i \in 1..Len(s) /\ u[i] = s[i] /\ LengthAt(s, i)
      BY <1>1, <1>2, <1>3, <2>2 DEF LengthAt
    <3>2. i + 1 + u[i].n <= Len(s)
      BY <3>1 DEF Sound, Measured
    <3>3. s[i + 1] = CRLF
      <4>1. i + 1 <= Len(s)
        BY <1>1, <2>1, <3>1, <3>2
      <4> QED
        BY <3>1, <4>1 DEF Sound, Counts
    <3>4. \A j \in (i + 2)..(i + 1 + u[i].n) : j <= Len(s) /\ j \in 1..Len(s)
      BY <1>1, <2>1, <3>1, <3>2
    <3>5. \A j \in (i + 2)..(i + 1 + u[i].n) : s[j] \in Tokens
      BY <3>1, <3>4 DEF Sound, Counts
    <3>6. \A j \in 1..Len(s) : u[j] = s[j]
      BY <1>1, <1>2
    <3>7. i + 1 \in 1..Len(s) /\ i + 1 + u[i].n <= Len(u)
      BY <1>1, <1>2, <2>1, <3>1, <3>2
    <3> QED
      BY <2>1, <3>3, <3>4, <3>5, <3>6, <3>7
  <2>3. CASE i > Len(s)
    <3> DEFINE k == i - Len(s)
    <3>1. k \in 1..Len(t) /\ u[i] = t[k] /\ i = k + Len(s)
      BY <1>1, <1>2, <2>3
    <3> HIDE DEF k
    <3>2. LengthAt(t, k)
      BY <1>3, <3>1 DEF LengthAt
    <3>3. k + 1 + u[i].n <= Len(t)
      BY <3>1, <3>2 DEF Sound, Measured
    <3>4. t[k + 1] = CRLF
      <4>1. k + 1 <= Len(t)
        BY <1>1, <2>1, <3>1, <3>3
      <4> QED
        BY <3>1, <3>2, <4>1 DEF Sound, Counts
    <3>5. \A j \in (k + 2)..(k + 1 + u[i].n) : t[j] \in Tokens
      <4>1. \A j \in (k + 2)..(k + 1 + u[i].n) : j <= Len(t)
        BY <1>1, <2>1, <3>1, <3>3
      <4> QED
        BY <3>1, <3>2, <4>1 DEF Sound, Counts
    <3>6. \A j \in 1..Len(t) : u[j + Len(s)] = t[j]
      <4> TAKE j \in 1..Len(t)
      <4>1. j + Len(s) \in 1..Len(s) + Len(t) /\ ~(j + Len(s) <= Len(s))
            /\ (j + Len(s)) - Len(s) = j
        BY <1>1
      <4> QED
        BY <1>2, <4>1
    <3>7. /\ k + 1 \in 1..Len(t) /\ (k + 1) + Len(s) = i + 1
          /\ i + 1 + u[i].n <= Len(u)
      BY <1>1, <1>2, <2>1, <3>1, <3>3
    <3>8. ASSUME NEW j \in (i + 2)..(i + 1 + u[i].n)
          PROVE  u[j] \in Tokens
      <4> DEFINE m == j - Len(s)
      <4>1. /\ m \in (k + 2)..(k + 1 + u[i].n) /\ m \in 1..Len(t) /\ j = m + Len(s)
        BY <1>1, <2>1, <3>1, <3>3
      <4> HIDE DEF m
      <4> QED
        BY <3>5, <3>6, <4>1
    <3>9. u[i + 1] = CRLF
      BY <3>4, <3>6, <3>7
    <3> QED
      BY <2>1, <3>7, <3>8, <3>9
  <2>4. i <= Len(s) \/ i > Len(s)
    BY <1>1, <1>2
  <2> QED
    BY <2>2, <2>3, <2>4
<1>4. Counts(u)
  BY <1>3 DEF Counts
<1>5. Measured(u)
  BY <1>3 DEF Measured
<1> QED
  BY <1>2, <1>4, <1>5 DEF Sound, u

LEMMA SoundFrame ==
  ASSUME NEW h \in {TcpHeader, SslHeader}, NEW p \in Payloads, NEW f, IsFrame(f, h, p)
  PROVE  f \in Seq(Values) /\ Sound(f)
<1>1. /\ p \in Seq(Tokens) /\ Len(p) \in Nat /\ f \in Seq(Values) /\ Len(f) = Len(p) + 5
      /\ f[1] = h /\ f[2] = Digits(Len(p)) /\ f[3] = CRLF
      /\ f[Len(p) + 4] = CRLF /\ f[Len(p) + 5] = Ok
  BY PayloadWhat DEF IsFrame
<1>2. \A j \in 4..Len(p) + 3 : f[j] \in Tokens
  <2> TAKE j \in 4..Len(p) + 3
  <2>1. j - 3 \in 1..Len(p) /\ (j - 3) + 3 = j
    BY <1>1
  <2>2. f[j] = p[j - 3] /\ p[j - 3] \in Tokens
    BY <1>1, <2>1, ElementOfSeq DEF IsFrame
  <2> QED
    BY <2>2
<1>3. ASSUME NEW i \in 1..Len(f), LengthAt(f, i)
      PROVE  i = 2
  <2>1. f[i].n # 0
    BY <1>3 DEF LengthAt
  <2>2. h.n = 0 /\ CRLF.n = 0 /\ Ok.n = 0
    <3>1. \A t : Token(t).n = 0
      BY DEF Token
    <3> QED
      BY <3>1 DEF TcpHeader, SslHeader, CRLF, Ok
  <2>3. i \in 4..Len(p) + 3 => f[i].n = 0
    BY <1>2, ValueWhat
  <2>4. i = 1 \/ i = 2 \/ i = 3 \/ i \in 4..Len(p) + 3 \/ i = Len(p) + 4 \/ i = Len(p) + 5
    BY <1>1
  <2> QED
    BY <1>1, <2>1, <2>2, <2>3, <2>4
<1>4. f[2].n = Len(p)
  BY <1>1 DEF Digits
<1>5. Measured(f)
  <2>1. \A i \in 1..Len(f) : LengthAt(f, i) => i + 1 + f[i].n = Len(p) + 3
    BY <1>1, <1>3, <1>4
  <2> QED
    BY <1>1, <2>1 DEF Measured
<1>6. Counts(f)
  <2>1. ASSUME NEW i \in 1..Len(f), LengthAt(f, i)
        PROVE  /\ i + 1 <= Len(f) => f[i + 1] = CRLF
               /\ \A j \in (i + 2)..(i + 1 + f[i].n) : j <= Len(f) => f[j] \in Tokens
    <3>1. i = 2 /\ i + 1 = 3 /\ i + 2 = 4 /\ i + 1 + f[i].n = Len(p) + 3
      BY <1>1, <1>3, <1>4, <2>1
    <3> QED
      BY <1>1, <1>2, <3>1
  <2> QED
    BY <2>1 DEF Counts
<1> QED
  BY <1>1, <1>5, <1>6 DEF Sound

TypeInv ==
  /\ TypeOK /\ hook \in {"tcp", "ssl", "socket"}
  /\ HasLeast(Len(buf)) /\ Sound(buf \o wire)

LEMMA InitTypes == Init => TypeInv
<1> SUFFICES ASSUME Init PROVE TypeInv
  OBVIOUS
<1>1. buf = <<>> /\ wire = <<>> /\ payload = <<>> /\ answer = <<>>
  BY DEF Init
<1>2. <<>> \in Payloads
  <2>1. <<>> \in [1..0 -> Tokens] /\ 0 \in 0..MaxPayload
    BY RecvFrameAssumption
  <2> QED
    BY <2>1 DEF Payloads
<1>3. <<>> \in Seq(Values) /\ Len(<<>>) = 0
  BY EmptySeq
<1>4. HasLeast(Len(buf))
  <2>1. Len(buf) = 0
    BY <1>1, <1>3
  <2>2. \A S \in SUBSET (1..0) : S = {}
    OBVIOUS
  <2>3. HasLeast(0)
    BY <2>2 DEF HasLeast
  <2> QED
    BY <2>1, <2>3
<1>5. Sound(buf \o wire)
  <2>1. buf \o wire = <<>>
    BY <1>1, <1>3, ConcatEmptySeq
  <2>2. Len(buf \o wire) = 0
    BY <1>3, <2>1
  <2> QED
    BY <2>2 DEF Sound, Counts, Measured
<1>6. TypeOK /\ hook \in {"tcp", "ssl", "socket"}
  BY <1>1, <1>2, <1>3, RecvFrameAssumption DEF Init, TypeOK, Values
<1> QED
  BY <1>4, <1>5, <1>6 DEF TypeInv

LEMMA ReadTypes ==
  ASSUME TypeInv, NEW h \in Headers(hook), NEW p \in Payloads, Read(h, p)
  PROVE  TypeInv'
<1>1. /\ hook' = hook /\ header' = h /\ payload' = p /\ phase' = "waiting" /\ buf' = buf
      /\ wire' = wire \o Frame(h, p) /\ frames' = frames + 1 /\ frames < MaxFrames
      /\ answer' = answer
  BY DEF Read
<1>2. /\ buf \in Seq(Values) /\ wire \in Seq(Values) /\ HasLeast(Len(buf)) /\ TypeOK
      /\ Sound(buf \o wire)
  BY DEF TypeInv, TypeOK, Values
<1>3. h \in {TcpHeader, SslHeader}
  BY DEF Headers
<1> DEFINE f == Frame(h, p)
<1>4. f \in Seq(Values) /\ Sound(f)
  BY <1>3, FrameWhat, SoundFrame
<1> HIDE DEF f
<1>5. wire \o f \in Seq(Values) /\ buf \o wire \in Seq(Values)
  BY <1>2, <1>4, ConcatProperties
<1>6. buf \o (wire \o f) = (buf \o wire) \o f
  BY <1>2, <1>4, ConcatAssociative
<1>7. Sound((buf \o wire) \o f)
  BY <1>2, <1>4, <1>5, SoundConcat
<1>8. wire' = wire \o f /\ (buf \o wire)' = (buf \o wire) \o f
  BY <1>1, <1>6 DEF f
<1>9. frames' \in 0..MaxFrames
  BY <1>1, <1>2, RecvFrameAssumption DEF TypeOK
<1>10. TypeOK'
  BY <1>1, <1>2, <1>5, <1>8, <1>9 DEF TypeOK, Values, Headers
<1> QED
  BY <1>1, <1>2, <1>7, <1>8, <1>10 DEF TypeInv

LEMMA ArriveTypes ==
  ASSUME TypeInv, Arrive
  PROVE  TypeInv'
<1>1. /\ wire # <<>> /\ buf' = Append(buf, Head(wire)) /\ wire' = Tail(wire)
      /\ UNCHANGED <<hook, header, payload, phase, answer, frames>>
  BY DEF Arrive
<1>2. /\ buf \in Seq(Values) /\ wire \in Seq(Values) /\ HasLeast(Len(buf)) /\ TypeOK
      /\ Sound(buf \o wire) /\ Len(buf) \in Nat
  BY LenProperties DEF TypeInv, TypeOK, Values
<1>3. /\ buf' \in Seq(Values) /\ wire' \in Seq(Values) /\ buf' \o wire' = buf \o wire
  BY <1>1, <1>2, ArriveStream
<1>4. Len(buf') = Len(buf) + 1
  <2>1. Head(wire) \in Values
    BY <1>1, <1>2, HeadTailProperties
  <2> QED
    BY <1>1, <1>2, <2>1, AppendProperties
<1>5. HasLeast(Len(buf'))
  BY <1>2, <1>4, LeastGrows
<1>6. TypeOK'
  BY <1>1, <1>2, <1>3 DEF TypeOK, Values, Headers
<1> QED
  BY <1>1, <1>2, <1>3, <1>5, <1>6 DEF TypeInv

LEMMA IngressTypes ==
  ASSUME TypeInv, Ingress
  PROVE  TypeInv'
<1> DEFINE d == Digest(buf)
           s == buf \o wire
           b2 == SubSeq(buf, d.consumed + 1, Len(buf))
           t == b2 \o wire
           c == d.consumed
<1>1. /\ phase = "waiting" /\ phase' = "answered" /\ d.is = "Frame"
      /\ answer' = ParseSocketRecv(d.frame, header) /\ buf' = b2
      /\ UNCHANGED <<hook, header, payload, wire, frames>>
  BY DEF Ingress
<1>2. /\ buf \in Seq(Values) /\ wire \in Seq(Values) /\ HasLeast(Len(buf)) /\ TypeOK
      /\ Sound(s) /\ Len(buf) \in Nat /\ Len(wire) \in Nat
  BY LenProperties DEF TypeInv, TypeOK, Values
<1>3. IsCut(d, buf)
  BY <1>1, <1>2, DigestCut
<1> HIDE DEF d
<1>4. PICK x \in 1..Len(buf), e \in 1..Len(buf) : d.frame = SubSeq(buf, x, e)
  BY <1>3 DEF IsCut
<1>5. c \in 1..Len(buf)
  BY <1>3 DEF IsCut
<1> HIDE DEF c
<1>6. /\ s \in Seq(Values) /\ Len(s) = Len(buf) + Len(wire)
      /\ \A i \in 1..Len(buf) + Len(wire) :
           s[i] = IF i <= Len(buf) THEN buf[i] ELSE wire[i - Len(buf)]
  BY <1>2, ConcatProperties
<1> HIDE DEF s
<1>7. answer' \in Payloads \cup {InvalidResponse}
  <2> DEFINE f == SubSeq(buf, x, e)
  <2>1. /\ f \in Seq(Values) /\ Len(f) \in Nat
        /\ Len(f) = IF x <= e THEN e - x + 1 ELSE 0
        /\ \A i \in 1..Len(f) : f[i] = buf[x + i - 1]
    BY <1>2, PieceWhat
  <2> HIDE DEF f
  <2>2. x - 1 \in Nat /\ Len(f) + (x - 1) <= Len(s) /\ Len(f) <= Len(buf)
    BY <1>2, <1>6, <2>1
  <2>3. \A i \in 1..Len(f) : f[i] = s[i + (x - 1)]
    <3> TAKE i \in 1..Len(f)
    <3>1. /\ x + i - 1 = i + (x - 1) /\ i + (x - 1) \in 1..Len(buf) + Len(wire)
          /\ i + (x - 1) <= Len(buf)
      BY <1>2, <2>1
    <3> QED
      BY <1>6, <2>1, <3>1
  <2>4. Counts(f)
    BY <1>2, <1>6, <2>1, <2>2, <2>3, CountsWindow DEF Sound
  <2>5. HasLeast(Len(f))
    BY <1>2, <2>1, <2>2, LeastShrinks
  <2>6. ParseSocketRecv(f, header) \in Payloads \cup {InvalidResponse}
    BY <2>1, <2>4, <2>5, ParseBounded
  <2> QED
    BY <1>1, <1>4, <2>6 DEF f
<1>8. /\ b2 \in Seq(Values) /\ Len(b2) \in Nat /\ Len(b2) = Len(buf) - c
      /\ \A i \in 1..Len(b2) : b2[i] = buf[c + i]
  <2>1. c + 1 \in Nat /\ c + 1 >= 1
    BY <1>2, <1>5
  <2>2. /\ b2 \in Seq(Values) /\ Len(b2) \in Nat
        /\ Len(b2) = IF c + 1 <= Len(buf) THEN Len(buf) - (c + 1) + 1 ELSE 0
        /\ \A i \in 1..Len(b2) : b2[i] = buf[c + 1 + i - 1]
    BY <1>2, <2>1, PieceWhat DEF c
  <2> HIDE DEF b2
  <2>3. \A i \in 1..Len(b2) : c + 1 + i - 1 = c + i
    BY <1>2, <1>5, <2>2
  <2> QED
    BY <1>2, <1>5, <2>2, <2>3
<1> HIDE DEF b2
<1>9. HasLeast(Len(buf'))
  BY <1>1, <1>2, <1>5, <1>8, LeastShrinks
<1>10. /\ t \in Seq(Values) /\ Len(t) = Len(b2) + Len(wire)
       /\ \A i \in 1..Len(b2) + Len(wire) :
            t[i] = IF i <= Len(b2) THEN b2[i] ELSE wire[i - Len(b2)]
  BY <1>2, <1>8, ConcatProperties
<1> HIDE DEF t
<1>11. c \in Nat /\ Len(t) + c = Len(s)
  BY <1>2, <1>5, <1>6, <1>8, <1>10
<1>12. \A i \in 1..Len(t) : t[i] = s[i + c]
  <2> TAKE i \in 1..Len(t)
  <2>1. CASE i <= Len(b2)
    <3>1. /\ i \in 1..Len(b2) /\ c + i = i + c
          /\ i + c \in 1..Len(buf) + Len(wire) /\ i + c <= Len(buf)
      BY <1>2, <1>5, <1>8, <1>10, <2>1
    <3> QED
      BY <1>6, <1>8, <1>10, <2>1, <3>1
  <2>2. CASE i > Len(b2)
    <3>1. /\ i \in 1..Len(b2) + Len(wire) /\ ~(i <= Len(b2))
          /\ i + c \in 1..Len(buf) + Len(wire) /\ ~(i + c <= Len(buf))
          /\ i - Len(b2) = (i + c) - Len(buf)
      BY <1>2, <1>5, <1>8, <1>10, <2>2
    <3> QED
      BY <1>6, <1>10, <3>1
  <2> QED
    BY <1>2, <1>8, <1>10, <2>1, <2>2
<1>13. Sound(t)
  <2>1. Counts(s) /\ Measured(s)
    BY <1>2 DEF Sound
  <2>2. Len(t) + c <= Len(s)
    BY <1>2, <1>6, <1>11
  <2>3. Counts(t) /\ (Measured(s) /\ Len(t) + c = Len(s) => Measured(t))
    BY <1>6, <1>10, <1>11, <1>12, <2>1, <2>2, CountsWindow
  <2> QED
    BY <1>11, <2>1, <2>3 DEF Sound
<1>14. Sound(buf \o wire)'
  BY <1>1, <1>13 DEF t
<1>15. TypeOK'
  BY <1>1, <1>2, <1>7, <1>8 DEF TypeOK, Values, Headers
<1> QED
  BY <1>1, <1>9, <1>14, <1>15 DEF TypeInv

(* cellular.rs:181-195, quectel_atat/mod.rs: even of a frame that the hook *)
(* cut in the wrong place, read returns at most a payload's worth of its   *)
(* tokens, never the length or header of another answer, or an error.      *)
THEOREM TypeCorrect == Spec => []TypeOK
<1>1. TypeInv /\ [Next]_vars => TypeInv'
  <2> SUFFICES ASSUME TypeInv, [Next]_vars PROVE TypeInv'
    OBVIOUS
  <2>1. CASE UNCHANGED vars
    BY <2>1 DEF vars, TypeInv, TypeOK, Headers
  <2> QED
    BY <2>1, ReadTypes, ArriveTypes, IngressTypes DEF Next
<1>2. TypeInv => TypeOK
  BY DEF TypeInv
<1> QED
  BY InitTypes, <1>1, <1>2, PTL DEF Spec
=============================================================================
