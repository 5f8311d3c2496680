------------------------- MODULE FileTransferProofs -------------------------
(***************************************************************************)
(* The calls on the modem's files, for every length of file, buffer, block *)
(* and payload, and every number of files, calls, rounds and failures.     *)
(***************************************************************************)
EXTENDS FileTransfer, TLAPS

(* Which call a command belongs to; what a call has before its wait.       *)
Phases ==
  /\ pc # "idle" => result = "none"
  /\ pc \in {"open", "close", "closeErr"} => op \in {"read", "write"}
  /\ pc \in {"announce", "payload", "wait"} => op \in {"upload", "write"}
  /\ pc = "block" => op = "read"
  /\ pc = "ask" => op \in {"download", "delete", "list", "meta"}
  /\ pc \in {"open", "announce", "payload", "block", "ask"} => heardAll = "no"
  /\ pc \in {"open", "announce", "ask"} => done = 0

(* A handle is opened once per call and held from QFOPEN to QFCLOSE.       *)
Holds == op \in {"read", "write"}
           /\ pc \in {"announce", "payload", "wait", "block", "close", "closeErr"}
HandleInv ==
  /\ Holds => stuck + stray < handles
  /\ cut = "no" => handles = stuck + stray + (IF Holds THEN 1 ELSE 0)
  /\ pc = "open" => handles < calls
  /\ handles <= calls

(* Who put the modem into data mode, if no call left it there; and nothing *)
(* but its data has gone in.                                               *)
ModeInv ==
  /\ torn = "no" /\ mode # "command" =>
       mode = op /\ foul = "no" /\ pc \in {"payload", "wait", "close", "closeErr"}
  /\ op = "read" /\ pc \in {"block", "close", "closeErr"} => mode = "command"
  /\ result = "Ok" /\ op # "upload" => mode = "command"

(* What has been read is the beginning of the file, and at the end of the  *)
(* loop all that fits.                                                     *)
ReadInv ==
  op = "read" =>
    /\ pc = "block" => done <= file
    /\ cut = "no" /\ (pc = "idle" => result = "Ok") /\ pc \in {"close", "idle"}
         => done = LeastOf(size, file)

(* A report is of what is on the modem and stays there.                    *)
ReportInv ==
  torn = "no" /\ (inbox # {} \/ heardAll = "yes") =>
    /\ mode = "command" /\ inbox \subseteq {file} /\ spoiled = "no"
    /\ heardAll = "yes" => file = size

FileInv ==
  /\ TypeOK /\ Phases /\ HandleInv /\ ModeInv /\ ReadInv /\ ReportInv /\ DirectoryIsTrue

(* The constants are numbers.                                              *)
Numbers ==
  /\ MaxLen \in Nat /\ Chunk \in Nat \ {0} /\ Block \in Nat \ {0} /\ Rounds \in Nat \ {0}
  /\ Others \subseteq Nat /\ ListCap \in Nat /\ MaxCalls \in Nat /\ MaxFaults \in Nat

LEMMA Constants == Numbers
BY FileTransferAssumption DEF FileTransferAssumption, Numbers

(* A call as Next makes it: with its first step and its lengths.           *)
CallBy(o, l, n) ==
  /\ Call(o, l, n) /\ n \in Lens
  /\ \/ o = "upload" /\ l = "announce"
     \/ o \in {"write", "read"} /\ l = "open"
     \/ o \in {"download", "delete", "list", "meta"} /\ l = "ask"

LEMMA NextSteps ==
  ASSUME [Next]_vars
  PROVE  \/ \E o, l, n : CallBy(o, l, n)
         \/ Open \/ Announce \/ Payload \/ PayloadFails \/ Subscribe \/ Round \/ Expire
         \/ ReadBlock \/ BufferFull \/ Close \/ Ask \/ ModemStores \/ UNCHANGED vars
<1>1. 0 \in Lens
  BY Constants DEF Numbers, Lens
<1>2. CASE \E n \in Lens : \/ Call("upload", "announce", n) \/ Call("write", "open", n)
                          \/ Call("read", "open", n) \/ Call("download", "ask", n)
  BY <1>2 DEF CallBy
<1>3. CASE \E o \in {"delete", "list", "meta"} : Call(o, "ask", 0)
  BY <1>1, <1>3 DEF CallBy
<1> QED
  BY <1>2, <1>3 DEF Next, CallStep

(* The phases follow each other.                                           *)
LEMMA PhaseStep == FileInv /\ [Next]_vars => Phases'
<1> SUFFICES ASSUME FileInv, [Next]_vars PROVE Phases'
  OBVIOUS
<1>0. Numbers /\ TypeOK /\ Phases
  BY Constants DEF FileInv
<1>1. ASSUME NEW o, NEW l, NEW n, CallBy(o, l, n) PROVE Phases'
  BY <1>0, <1>1 DEF Numbers, CallBy, Call, modem, kept, TypeOK, Phases, Lens
<1>2. CASE Open
  BY <1>0, <1>2
     DEF Numbers, Open, OpenFile, Opens, NotDone, Goto, Return, Fault, call, modem,
         kept, TypeOK, Phases, Lens
<1>3. CASE Announce
  BY <1>0, <1>3
     DEF Numbers, Announce, TakesData, NotDone, Goto, Fault, call, modem, kept, TypeOK,
         Phases, Lens
<1>4. CASE Payload
  BY <1>0, <1>4
     DEF Numbers, Payload, PayloadSize, LeastOf, Fault, call, modem, kept, TypeOK,
         Phases, Lens
<1>5. CASE PayloadFails
  BY <1>0, <1>5
     DEF Numbers, PayloadFails, Return, Fault, call, modem, kept, TypeOK, Phases, Lens
<1>6. CASE Subscribe
  BY <1>0, <1>6 DEF Numbers, Subscribe, call, modem, kept, TypeOK, Phases, Lens
<1>7. CASE Round
  BY <1>0, <1>7
     DEF Numbers, Round, RoundMatches, Goto, Return, call, modem, kept, TypeOK, Phases,
         Lens
<1>8. CASE Expire
  BY <1>0, <1>8
     DEF Numbers, Expire, Goto, Return, call, modem, kept, TypeOK, Phases, Lens
<1>9. CASE ReadBlock
  BY <1>0, <1>9
     DEF Numbers, ReadBlock, Answer, Asked, EndsAt, LeastOf, Goto, Fault, call, modem,
         kept, TypeOK, Phases, Lens
<1>10. CASE BufferFull
  BY <1>0, <1>10
     DEF Numbers, BufferFull, LeastOf, Goto, call, modem, kept, TypeOK, Phases, Lens
<1>11. CASE Close
  BY <1>0, <1>11
     DEF Numbers, Close, NotDone, Return, Fault, call, modem, kept, TypeOK, Phases, Lens
<1>12. CASE Ask
  BY <1>0, <1>12
     DEF Numbers, Ask, NotDone, Succeeds, Files, LeastOf, Delete, Fault, call, modem,
         kept, TypeOK, Phases, Lens
<1>13. CASE ModemStores
  BY <1>0, <1>13
     DEF Numbers, ModemStores, Store, call, modem, kept, TypeOK, Phases, Lens
<1>14. CASE UNCHANGED vars
  BY <1>0, <1>14 DEF vars, call, modem, kept, TypeOK, Phases, Lens
<1> QED
  BY <1>1, <1>2, <1>3, <1>4, <1>5, <1>6, <1>7, <1>8, <1>9, <1>10, <1>11, <1>12, <1>13,
     <1>14, NextSteps

(* What opens is closed or stuck.                                          *)
LEMMA HandleStep == FileInv /\ [Next]_vars => HandleInv'
<1> SUFFICES ASSUME FileInv, [Next]_vars PROVE HandleInv'
  OBVIOUS
<1>0. Numbers /\ TypeOK /\ Phases /\ HandleInv /\ ModeInv
  BY Constants DEF FileInv
<1>1. ASSUME NEW o, NEW l, NEW n, CallBy(o, l, n) PROVE HandleInv'
  BY <1>0, <1>1 DEF Numbers, CallBy, Call, modem, kept, TypeOK, Phases, HandleInv, Holds
<1>2. CASE Open
  <2>1. /\ pc = "open" /\ ~Holds /\ handles < calls /\ calls' = calls /\ op \in {"read", "write"}
        /\ op' = op /\ cut' = cut /\ stuck' = stuck
    BY <1>0, <1>2 DEF Open, Goto, Return, HandleInv, Holds, Phases
  <2>2. stuck \in Nat /\ stray \in Nat /\ handles \in Nat /\ calls \in Nat
    BY <1>0 DEF TypeOK, Numbers
  <2>3. \/ handles' = handles + 1 /\ stray' = stray /\ pc' \in {"announce", "block"}
        \/ handles' = handles + 1 /\ stray' = stray + 1 /\ pc' = "idle"
        \/ handles' = handles /\ stray' = stray /\ pc' = "idle"
    BY <1>2 DEF Open, OpenFile, Goto, Return
  <2>4. Holds' <=> pc' # "idle"
    BY <2>1, <2>3 DEF Holds
  <2>5. stuck + stray <= handles /\ (cut = "no" => handles = stuck + stray)
    BY <1>0, <2>1 DEF HandleInv, TypeOK
  <2> QED
    BY <2>1, <2>2, <2>3, <2>4, <2>5 DEF HandleInv
<1>3. CASE Announce
  BY <1>0, <1>3
     DEF Numbers, Announce, TakesData, NotDone, Goto, Fault, call, modem, kept, TypeOK,
         Phases, HandleInv, Holds
<1>4. CASE Payload
  BY <1>0, <1>4
     DEF Numbers, Payload, PayloadSize, LeastOf, Fault, call, modem, kept, TypeOK,
         Phases, HandleInv, Holds
<1>5. CASE PayloadFails
  BY <1>0, <1>5
     DEF Numbers, PayloadFails, Return, Fault, call, modem, kept, TypeOK, Phases,
         HandleInv, Holds
<1>6. CASE Subscribe
  BY <1>0, <1>6
     DEF Numbers, Subscribe, call, modem, kept, TypeOK, Phases, HandleInv, Holds
<1>7. CASE Round
  BY <1>0, <1>7
     DEF Numbers, Round, RoundMatches, Goto, Return, call, modem, kept, TypeOK, Phases,
         HandleInv, Holds
<1>8. CASE Expire
  BY <1>0, <1>8
     DEF Numbers, Expire, Goto, Return, call, modem, kept, TypeOK, Phases, HandleInv,
         Holds
<1>9. CASE ReadBlock
  BY <1>0, <1>9
     DEF Numbers, ReadBlock, Answer, Asked, EndsAt, LeastOf, Goto, Fault, call, modem,
         kept, TypeOK, Phases, HandleInv, Holds
<1>10. CASE BufferFull
  BY <1>0, <1>10
     DEF Numbers, BufferFull, LeastOf, Goto, call, modem, kept, TypeOK, Phases,
         HandleInv, Holds
<1>11. CASE Close
  BY <1>0, <1>11
     DEF Numbers, Close, NotDone, Return, Fault, call, modem, kept, TypeOK, Phases,
         HandleInv, Holds
<1>12. CASE Ask
  BY <1>0, <1>12
     DEF Numbers, Ask, NotDone, Succeeds, Files, LeastOf, Delete, Fault, call, modem,
         kept, TypeOK, Phases, HandleInv, Holds
<1>13. CASE ModemStores
  BY <1>0, <1>13
     DEF Numbers, ModemStores, Store, call, modem, kept, TypeOK, Phases, HandleInv,
         Holds
<1>14. CASE UNCHANGED vars
  BY <1>0, <1>14 DEF vars, call, modem, kept, TypeOK, Phases, HandleInv, Holds
<1> QED
  BY <1>1, <1>2, <1>3, <1>4, <1>5, <1>6, <1>7, <1>8, <1>9, <1>10, <1>11, <1>12, <1>13,
     <1>14, NextSteps

(* Data mode is left before a call succeeds.                               *)
LEMMA ModeStep == FileInv /\ [Next]_vars => ModeInv'
<1> SUFFICES ASSUME FileInv, [Next]_vars PROVE ModeInv'
  OBVIOUS
<1>0. Numbers /\ TypeOK /\ Phases /\ ModeInv
  BY Constants DEF FileInv
<1>1. ASSUME NEW o, NEW l, NEW n, CallBy(o, l, n) PROVE ModeInv'
  BY <1>0, <1>1 DEF Numbers, CallBy, Call, modem, kept, TypeOK, Phases, ModeInv
<1>2. CASE Open
  BY <1>0, <1>2
     DEF Numbers, Open, OpenFile, Opens, NotDone, Goto, Return, Fault, call, modem,
         kept, TypeOK, Phases, ModeInv
<1>3. CASE Announce
  BY <1>0, <1>3
     DEF Numbers, Announce, TakesData, NotDone, Goto, Fault, call, modem, kept, TypeOK,
         Phases, ModeInv
<1>4. CASE Payload
  BY <1>0, <1>4
     DEF Numbers, Payload, PayloadSize, LeastOf, Fault, call, modem, kept, TypeOK,
         Phases, ModeInv
<1>5. CASE PayloadFails
  BY <1>0, <1>5
     DEF Numbers, PayloadFails, Return, Fault, call, modem, kept, TypeOK, Phases,
         ModeInv
<1>6. CASE Subscribe
  BY <1>0, <1>6 DEF Numbers, Subscribe, call, modem, kept, TypeOK, Phases, ModeInv
<1>7. CASE Round
  BY <1>0, <1>7
     DEF Numbers, Round, RoundMatches, Goto, Return, call, modem, kept, TypeOK, Phases,
         ModeInv
<1>8. CASE Expire
  BY <1>0, <1>8
     DEF Numbers, Expire, Goto, Return, call, modem, kept, TypeOK, Phases, ModeInv
<1>9. CASE ReadBlock
  BY <1>0, <1>9
     DEF Numbers, ReadBlock, Answer, Asked, EndsAt, LeastOf, Goto, Fault, call, modem,
         kept, TypeOK, Phases, ModeInv
<1>10. CASE BufferFull
  BY <1>0, <1>10
     DEF Numbers, BufferFull, LeastOf, Goto, call, modem, kept, TypeOK, Phases, ModeInv
<1>11. CASE Close
  BY <1>0, <1>11
     DEF Numbers, Close, NotDone, Return, Fault, call, modem, kept, TypeOK, Phases,
         ModeInv
<1>12. CASE Ask
  BY <1>0, <1>12
     DEF Numbers, Ask, NotDone, Succeeds, Files, LeastOf, Delete, Fault, call, modem,
         kept, TypeOK, Phases, ModeInv
<1>13. CASE ModemStores
  BY <1>0, <1>13
     DEF Numbers, ModemStores, Store, call, modem, kept, TypeOK, Phases, ModeInv
<1>14. CASE UNCHANGED vars
  BY <1>0, <1>14 DEF vars, call, modem, kept, TypeOK, Phases, ModeInv
<1> QED
  BY <1>1, <1>2, <1>3, <1>4, <1>5, <1>6, <1>7, <1>8, <1>9, <1>10, <1>11, <1>12, <1>13,
     <1>14, NextSteps

(* A read goes to the end of the file or of the buffer.                    *)
LEMMA ReadStep == FileInv /\ [Next]_vars => ReadInv'
<1> SUFFICES ASSUME FileInv, [Next]_vars PROVE ReadInv'
  OBVIOUS
<1>0. Numbers /\ TypeOK /\ Phases /\ ModeInv /\ ReadInv
  BY Constants DEF FileInv
<1>1. ASSUME NEW o, NEW l, NEW n, CallBy(o, l, n) PROVE ReadInv'
  BY <1>0, <1>1
     DEF Numbers, CallBy, Call, modem, kept, TypeOK, Phases, ModeInv, ReadInv, Lens
<1>2. CASE Open
  BY <1>0, <1>2
     DEF Numbers, Open, OpenFile, Opens, NotDone, Goto, Return, Fault, call, modem,
         kept, TypeOK, Phases, ModeInv, ReadInv, Lens
<1>3. CASE Announce
  BY <1>0, <1>3
     DEF Numbers, Announce, TakesData, NotDone, Goto, Fault, call, modem, kept, TypeOK,
         Phases, ModeInv, ReadInv, Lens
<1>4. CASE Payload
  BY <1>0, <1>4
     DEF Numbers, Payload, PayloadSize, LeastOf, Fault, call, modem, kept, TypeOK,
         Phases, ModeInv, ReadInv, Lens
<1>5. CASE PayloadFails
  BY <1>0, <1>5
     DEF Numbers, PayloadFails, Return, Fault, call, modem, kept, TypeOK, Phases,
         ModeInv, ReadInv, Lens
<1>6. CASE Subscribe
  BY <1>0, <1>6
     DEF Numbers, Subscribe, call, modem, kept, TypeOK, Phases, ModeInv, ReadInv, Lens
<1>7. CASE Round
  BY <1>0, <1>7
     DEF Numbers, Round, RoundMatches, Goto, Return, call, modem, kept, TypeOK, Phases,
         ModeInv, ReadInv, Lens
<1>8. CASE Expire
  BY <1>0, <1>8
     DEF Numbers, Expire, Goto, Return, call, modem, kept, TypeOK, Phases, ModeInv,
         ReadInv, Lens
<1>9. CASE ReadBlock
  BY <1>0, <1>9
     DEF Numbers, ReadBlock, Answer, Asked, EndsAt, LeastOf, Goto, Fault, call, modem,
         kept, TypeOK, Phases, ModeInv, ReadInv, Lens
<1>10. CASE BufferFull
  BY <1>0, <1>10
     DEF Numbers, BufferFull, LeastOf, Goto, call, modem, kept, TypeOK, Phases, ModeInv,
         ReadInv, Lens
<1>11. CASE Close
  BY <1>0, <1>11
     DEF Numbers, Close, NotDone, Return, Fault, call, modem, kept, TypeOK, Phases,
         ModeInv, ReadInv, Lens
<1>12. CASE Ask
  BY <1>0, <1>12
     DEF Numbers, Ask, NotDone, Succeeds, Files, LeastOf, Delete, Fault, call, modem,
         kept, TypeOK, Phases, ModeInv, ReadInv, Lens
<1>13. CASE ModemStores
  BY <1>0, <1>13
     DEF Numbers, ModemStores, Store, call, modem, kept, TypeOK, Phases, ModeInv,
         ReadInv, Lens
<1>14. CASE UNCHANGED vars
  BY <1>0, <1>14 DEF vars, call, modem, kept, TypeOK, Phases, ModeInv, ReadInv, Lens
<1> QED
  BY <1>1, <1>2, <1>3, <1>4, <1>5, <1>6, <1>7, <1>8, <1>9, <1>10, <1>11, <1>12, <1>13,
     <1>14, NextSteps

(* What has been reported is stored.                                       *)
LEMMA ReportStep == FileInv /\ [Next]_vars => ReportInv'
<1> SUFFICES ASSUME FileInv, [Next]_vars PROVE ReportInv'
  OBVIOUS
<1>0. Numbers /\ TypeOK /\ Phases /\ ModeInv /\ ReportInv
  BY Constants DEF FileInv
<1>1. ASSUME NEW o, NEW l, NEW n, CallBy(o, l, n) PROVE ReportInv'
  BY <1>0, <1>1
     DEF Numbers, CallBy, Call, modem, kept, TypeOK, Phases, ModeInv, ReportInv
<1>2. CASE Open
  BY <1>0, <1>2
     DEF Numbers, Open, OpenFile, Opens, NotDone, Goto, Return, Fault, call, modem,
         kept, TypeOK, Phases, ModeInv, ReportInv
<1>3. CASE Announce
  BY <1>0, <1>3
     DEF Numbers, Announce, TakesData, NotDone, Goto, Fault, call, modem, kept, TypeOK,
         Phases, ModeInv, ReportInv
<1>4. CASE Payload
  BY <1>0, <1>4
     DEF Numbers, Payload, PayloadSize, LeastOf, Fault, call, modem, kept, TypeOK,
         Phases, ModeInv, ReportInv
<1>5. CASE PayloadFails
  BY <1>0, <1>5
     DEF Numbers, PayloadFails, Return, Fault, call, modem, kept, TypeOK, Phases,
         ModeInv, ReportInv
<1>6. CASE Subscribe
  BY <1>0, <1>6
     DEF Numbers, Subscribe, call, modem, kept, TypeOK, Phases, ModeInv, ReportInv
<1>7. CASE Round
  BY <1>0, <1>7
     DEF Numbers, Round, RoundMatches, Goto, Return, call, modem, kept, TypeOK, Phases,
         ModeInv, ReportInv
<1>8. CASE Expire
  BY <1>0, <1>8
     DEF Numbers, Expire, Goto, Return, call, modem, kept, TypeOK, Phases, ModeInv,
         ReportInv
<1>9. CASE ReadBlock
  BY <1>0, <1>9
     DEF Numbers, ReadBlock, Answer, Asked, EndsAt, LeastOf, Goto, Fault, call, modem,
         kept, TypeOK, Phases, ModeInv, ReportInv
<1>10. CASE BufferFull
  BY <1>0, <1>10
     DEF Numbers, BufferFull, LeastOf, Goto, call, modem, kept, TypeOK, Phases, ModeInv,
         ReportInv
<1>11. CASE Close
  BY <1>0, <1>11
     DEF Numbers, Close, NotDone, Return, Fault, call, modem, kept, TypeOK, Phases,
         ModeInv, ReportInv
<1>12. CASE Ask
  BY <1>0, <1>12
     DEF Numbers, Ask, NotDone, Succeeds, Files, LeastOf, Delete, Fault, call, modem,
         kept, TypeOK, Phases, ModeInv, ReportInv
<1>13. CASE ModemStores
  BY <1>0, <1>13
     DEF Numbers, ModemStores, Store, call, modem, kept, TypeOK, Phases, ModeInv,
         ReportInv
<1>14. CASE UNCHANGED vars
  BY <1>0, <1>14 DEF vars, call, modem, kept, TypeOK, Phases, ModeInv, ReportInv
<1> QED
  BY <1>1, <1>2, <1>3, <1>4, <1>5, <1>6, <1>7, <1>8, <1>9, <1>10, <1>11, <1>12, <1>13,
     <1>14, NextSteps

(* What is told is true, and no file changes behind it.                    *)
LEMMA DirectoryStep == FileInv /\ [Next]_vars => DirectoryIsTrue'
<1> SUFFICES ASSUME FileInv, [Next]_vars PROVE DirectoryIsTrue'
  OBVIOUS
<1>0. Numbers /\ TypeOK /\ Phases /\ ModeInv /\ DirectoryIsTrue
  BY Constants DEF FileInv
<1>1. ASSUME NEW o, NEW l, NEW n, CallBy(o, l, n) PROVE DirectoryIsTrue'
  BY <1>0, <1>1
     DEF Numbers, CallBy, Call, modem, kept, TypeOK, Phases, ModeInv, DirectoryIsTrue,
         Files
<1>2. CASE Open
  BY <1>0, <1>2
     DEF Numbers, Open, OpenFile, Opens, NotDone, Goto, Return, Fault, call, modem,
         kept, TypeOK, Phases, ModeInv, DirectoryIsTrue, Files
<1>3. CASE Announce
  BY <1>0, <1>3
     DEF Numbers, Announce, TakesData, NotDone, Goto, Fault, call, modem, kept, TypeOK,
         Phases, ModeInv, DirectoryIsTrue, Files
<1>4. CASE Payload
  BY <1>0, <1>4
     DEF Numbers, Payload, PayloadSize, LeastOf, Fault, call, modem, kept, TypeOK,
         Phases, ModeInv, DirectoryIsTrue, Files
<1>5. CASE PayloadFails
  BY <1>0, <1>5
     DEF Numbers, PayloadFails, Return, Fault, call, modem, kept, TypeOK, Phases,
         ModeInv, DirectoryIsTrue, Files
<1>6. CASE Subscribe
  BY <1>0, <1>6
     DEF Numbers, Subscribe, call, modem, kept, TypeOK, Phases, ModeInv,
         DirectoryIsTrue, Files
<1>7. CASE Round
  BY <1>0, <1>7
     DEF Numbers, Round, RoundMatches, Goto, Return, call, modem, kept, TypeOK, Phases,
         ModeInv, DirectoryIsTrue, Files
<1>8. CASE Expire
  BY <1>0, <1>8
     DEF Numbers, Expire, Goto, Return, call, modem, kept, TypeOK, Phases, ModeInv,
         DirectoryIsTrue, Files
<1>9. CASE ReadBlock
  BY <1>0, <1>9
     DEF Numbers, ReadBlock, Answer, Asked, EndsAt, LeastOf, Goto, Fault, call, modem,
         kept, TypeOK, Phases, ModeInv, DirectoryIsTrue, Files
<1>10. CASE BufferFull
  BY <1>0, <1>10
     DEF Numbers, BufferFull, LeastOf, Goto, call, modem, kept, TypeOK, Phases, ModeInv,
         DirectoryIsTrue, Files
<1>11. CASE Close
  BY <1>0, <1>11
     DEF Numbers, Close, NotDone, Return, Fault, call, modem, kept, TypeOK, Phases,
         ModeInv, DirectoryIsTrue, Files
<1>12. CASE Ask
  BY <1>0, <1>12
     DEF Numbers, Ask, NotDone, Succeeds, Files, LeastOf, Delete, Fault, call, modem,
         kept, TypeOK, Phases, ModeInv, DirectoryIsTrue, Files
<1>13. CASE ModemStores
  BY <1>0, <1>13
     DEF Numbers, ModemStores, Store, call, modem, kept, TypeOK, Phases, ModeInv,
         DirectoryIsTrue, Files
<1>14. CASE UNCHANGED vars
  BY <1>0, <1>14
     DEF vars, call, modem, kept, TypeOK, Phases, ModeInv, DirectoryIsTrue, Files
<1> QED
  BY <1>1, <1>2, <1>3, <1>4, <1>5, <1>6, <1>7, <1>8, <1>9, <1>10, <1>11, <1>12, <1>13,
     <1>14, NextSteps

(* Types, and the numbers stay within their bounds.                        *)
LEMMA TypeStep == FileInv /\ [Next]_vars => TypeOK'
<1> SUFFICES ASSUME FileInv, [Next]_vars PROVE TypeOK'
  OBVIOUS
<1>0. Numbers /\ TypeOK /\ Phases /\ HandleInv
  BY Constants DEF FileInv
<1>1. ASSUME NEW o, NEW l, NEW n, CallBy(o, l, n) PROVE TypeOK'
  BY <1>0, <1>1
     DEF Numbers, CallBy, Call, modem, kept, TypeOK, Phases, HandleInv, Holds, Lens
<1>2. CASE Open
  BY <1>0, <1>2
     DEF Numbers, Open, OpenFile, Opens, NotDone, Goto, Return, Fault, call, modem,
         kept, TypeOK, Phases, HandleInv, Holds, Lens
<1>3. CASE Announce
  BY <1>0, <1>3
     DEF Numbers, Announce, TakesData, NotDone, Goto, Fault, call, modem, kept, TypeOK,
         Phases, HandleInv, Holds, Lens
<1>4. CASE Payload
  BY <1>0, <1>4
     DEF Numbers, Payload, PayloadSize, LeastOf, Fault, call, modem, kept, TypeOK,
         Phases, HandleInv, Holds, Lens
<1>5. CASE PayloadFails
  BY <1>0, <1>5
     DEF Numbers, PayloadFails, Return, Fault, call, modem, kept, TypeOK, Phases,
         HandleInv, Holds, Lens
<1>6. CASE Subscribe
  BY <1>0, <1>6
     DEF Numbers, Subscribe, call, modem, kept, TypeOK, Phases, HandleInv, Holds, Lens
<1>7. CASE Round
  <2>1. round' \in 0..Rounds
    BY <1>0, <1>7 DEF Numbers, Round, Goto, Return, TypeOK
  <2>2. /\ pc' \in {"idle", "wait", "close", "closeErr"}
        /\ result' \in {"none", "Ok", "Err"} /\ heardAll' \in {"yes", "no"} /\ torn' \in {"yes", "no"}
    BY <1>0, <1>7 DEF Round, Goto, Return, TypeOK
  <2>3. /\ inbox' \subseteq Lens /\ sub' \in {"none", "live"}
        /\ inbox' # {} => sub' = "live"
        /\ sub' # "none" => pc' \in {"wait", "close", "closeErr"}
    BY <1>0, <1>7 DEF Round, Goto, Return, TypeOK
  <2> QED
    BY <1>0, <1>7, <2>1, <2>2, <2>3 DEF Round, Goto, Return, modem, kept, TypeOK
<1>8. CASE Expire
  BY <1>0, <1>8 DEF Expire, Goto, Return, modem, kept, TypeOK, Phases
<1>9. CASE ReadBlock
  BY <1>0, <1>9
     DEF Numbers, ReadBlock, Answer, Asked, EndsAt, LeastOf, Goto, Fault, call, modem,
         kept, TypeOK, Phases, HandleInv, Holds, Lens
<1>10. CASE BufferFull
  BY <1>0, <1>10
     DEF Numbers, BufferFull, LeastOf, Goto, call, modem, kept, TypeOK, Phases,
         HandleInv, Holds, Lens
<1>11. CASE Close
  BY <1>0, <1>11
     DEF Numbers, Close, NotDone, Return, Fault, call, modem, kept, TypeOK, Phases,
         HandleInv, Holds, Lens
<1>12. CASE Ask
  BY <1>0, <1>12
     DEF Numbers, Ask, NotDone, Succeeds, Files, LeastOf, Delete, Fault, call, modem,
         kept, TypeOK, Phases, HandleInv, Holds, Lens
<1>13. CASE ModemStores
  BY <1>0, <1>13
     DEF Numbers, ModemStores, Store, call, modem, kept, TypeOK, Phases, HandleInv,
         Holds, Lens
<1>14. CASE UNCHANGED vars
  BY <1>0, <1>14 DEF vars, call, modem, kept, TypeOK, Phases, HandleInv, Holds, Lens
<1> QED
  BY <1>1, <1>2, <1>3, <1>4, <1>5, <1>6, <1>7, <1>8, <1>9, <1>10, <1>11, <1>12, <1>13,
     <1>14, NextSteps


LEMMA FileInit == Init => FileInv
<1> SUFFICES ASSUME Init PROVE FileInv
  OBVIOUS
<1>1. Numbers
  BY Constants
<1>2. TypeOK
  BY <1>1 DEF Init, TypeOK, Numbers, Lens
<1>3. Phases /\ HandleInv /\ ModeInv /\ ReadInv /\ ReportInv /\ DirectoryIsTrue
  BY <1>1
     DEF Init, Phases, HandleInv, Holds, ModeInv, ReadInv, ReportInv, DirectoryIsTrue,
         Numbers
<1> QED
  BY <1>2, <1>3 DEF FileInv

LEMMA FileStep == FileInv /\ [Next]_vars => FileInv'
BY TypeStep, PhaseStep, HandleStep, ModeStep, ReadStep, ReportStep, DirectoryStep
   DEF FileInv

(* Lengths, handles and waits stay within their bounds, and a subscriber   *)
(* lives during its wait only (cellular.rs:2496-2857).                     *)
THEOREM TypeCorrect == Spec => []TypeOK
<1>1. FileInv => TypeOK
  BY DEF FileInv
<1> QED
  BY <1>1, FileInit, FileStep, PTL DEF Spec

(* A read that is Ok is the file, or as much of it as fits the buffer,     *)
(* for every length of file, buffer and block (cellular.rs:2678-2721).     *)
THEOREM ReadIsWholeHolds == Spec => []ReadIsWhole
<1>1. FileInv => ReadIsWhole
  BY DEF FileInv, ReadInv, ReadIsWhole
<1> QED
  BY <1>1, FileInit, FileStep, PTL DEF Spec

(* A transfer whose report was heard is stored whole, and nothing else is  *)
(* in it, whatever the UART lost of other transfers, unless a call had     *)
(* returned with the modem in data mode (cellular.rs:2496-2580, 2751-2857).*)
THEOREM ReportedIsStoredHolds == Spec => []ReportedIsStored
<1>1. FileInv => ReportedIsStored
  BY DEF FileInv, ReportInv, ReportedIsStored
<1> QED
  BY <1>1, FileInit, FileStep, PTL DEF Spec

(* Every handle a call was told of is closed by it, or its close was       *)
(* refused; the handles still open are those and the ones whose number was *)
(* lost, unless a payload failed (cellular.rs:2717, 2724, 2833, 2848).     *)
THEOREM HandlesClosedHolds == Spec => []HandlesClosed
<1>1. FileInv => HandlesClosed
  BY Constants DEF Numbers, FileInv, TypeOK, HandleInv, Holds, HandlesClosed
<1> QED
  BY <1>1, FileInit, FileStep, PTL DEF Spec

(* What is said of the directory is so on the modem (cellular.rs:2124-2150, *)
(* 2412-2490).                                                             *)
THEOREM DirectoryIsTrueHolds == Spec => []DirectoryIsTrue
<1>1. FileInv => DirectoryIsTrue
  BY DEF FileInv
<1> QED
  BY <1>1, FileInit, FileStep, PTL DEF Spec

-----------------------------------------------------------------------------
(* The refinement: what FileStore sees of each step.                       *)
ReadEnds ==
  op = "read" =>
    /\ pc \in {"block", "close"} => done <= file
    /\ pc # "idle" => heardAll = "no"

StoreInv == FileInv /\ ReadEnds

SameCall == UNCHANGED <<op, size>>
SameStore == UNCHANGED <<file, present, spoiled, others>>
SameData == UNCHANGED <<DueOf, OwedOf, MixedOf>>
SameAnswer == UNCHANGED <<result, ToldOf, SureOf>>

LEMMA StoreNumbers ==
  ASSUME FileInv
  PROVE  /\ Numbers /\ TypeOK /\ Phases
         /\ size \in Nat /\ done \in Nat /\ file \in Nat /\ want \in Nat /\ taken \in Nat
         /\ told \in Nat /\ others \in Nat /\ done <= size /\ taken <= want
         /\ mode # "command" => DueOf = "yes" /\ OwedOf = want /\ MixedOf = foul
         /\ mode = "command" => DueOf = "no" /\ OwedOf = 0 /\ MixedOf = "no"
  BY Constants DEF FileInv, TypeOK, Lens, Numbers, DueOf, OwedOf, MixedOf

LEMMA BeginSeen ==
  ASSUME FileInv, NEW o, NEW l, NEW n, CallBy(o, l, n)
  PROVE  Service!Begin(o, n)
<1>1. /\ pc = "idle" /\ pc' = l /\ op' = o /\ size' = n /\ result' = "none"
      /\ UNCHANGED <<mode, want, foul, file, present, spoiled, others, cut, torn>>
      /\ l \in {"announce", "open", "ask"} /\ (l = "announce" => o = "upload")
  BY DEF CallBy, Call, modem
<1>2. StepOf = "idle" /\ StepOf' = "begun"
  BY <1>1 DEF StepOf
<1>3. ToldOf' = 0 /\ SureOf' = "no" /\ UNCHANGED <<DueOf, OwedOf, MixedOf>>
  BY <1>1 DEF ToldOf, SureOf, DueOf, OwedOf, MixedOf
<1> QED
  BY <1>1, <1>2, <1>3 DEF Service!Begin, Service!store, Service!content, Service!debt

(* A step within a call that the program does not see.                     *)
LEMMA Unseen ==
  ASSUME SameCall, UNCHANGED <<StepOf, file, present, spoiled, others, cut, torn>>, SameData, SameAnswer
  PROVE  UNCHANGED Service!vars
  BY DEF SameCall, SameData, SameAnswer, Service!vars, Service!call, Service!store,
         Service!content, Service!debt

LEMMA ReturnSeen ==
  ASSUME FileInv, NEW r, Return(r), UNCHANGED mode
  PROVE  Service!Returns(r)
<1>1. /\ pc' = "idle" /\ result' = r /\ UNCHANGED <<op, size>>
      /\ torn' = IF mode # "command" THEN "yes" ELSE torn
  BY DEF Return
<1>2. StepOf' = "idle" /\ torn' = IF DueOf = "yes" THEN "yes" ELSE torn
  BY <1>1 DEF StepOf, DueOf
<1> QED
  BY <1>1, <1>2 DEF Service!Returns, Service!call

(* What a command does to the data that is owed: it may mix with it.       *)
LEMMA MixSeen ==
  ASSUME FileInv, UNCHANGED mode, foul' \in {foul, "yes"}
  PROVE  MixedOf' \in IF DueOf = "yes" THEN {MixedOf, "yes"} ELSE {MixedOf}
  BY DEF MixedOf, DueOf

LEMMA NotDoneFouls ==
  ASSUME NEW could, NotDone(could)
  PROVE  foul' \in {foul, "yes"}
  BY DEF NotDone

(* An Err, whatever the call was doing.                                    *)
LEMMA FailSeen ==
  ASSUME FileInv, pc # "idle", Service!Returns("Err"), pc' = "idle", result' = "Err",
         SameStore, UNCHANGED <<mode, want>>, foul' \in {foul, "yes"}, cut' \in {cut, "yes"}
  PROVE  Service!Fails
<1>1. result = "none"
  BY DEF FileInv, Phases
<1>2. StepOf # "idle"
  BY DEF StepOf
<1>3. UNCHANGED <<ToldOf, SureOf, DueOf, OwedOf>>
  BY <1>1 DEF ToldOf, SureOf, DueOf, OwedOf
<1>4. Service!MayMix
  BY MixSeen DEF Service!MayMix
<1> QED
  BY <1>2, <1>3, <1>4 DEF Service!Fails, Service!content, SameStore

LEMMA OpenSeen ==
  ASSUME FileInv, Open
  PROVE  Service!Opens \/ Service!EmptiesOnly \/ Service!Fails
<1>1. /\ pc = "open" /\ op \in {"read", "write"} /\ result = "none"
      /\ UNCHANGED <<mode, want, others, cut>>
  BY DEF FileInv, Phases, Open
<1>2. ASSUME OpenFile, UNCHANGED foul
      PROVE  /\ DueOf = "no" /\ UNCHANGED <<DueOf, OwedOf, MixedOf>>
             /\ op = "read" => present = "yes" /\ UNCHANGED Service!content
             /\ op = "write" => Service!Emptied
  <2>1. mode = "command" /\ (op = "read" => present = "yes")
    BY <1>2 DEF OpenFile, Opens
  <2>2. UNCHANGED <<DueOf, OwedOf, MixedOf>> /\ DueOf = "no"
    BY <1>1, <1>2, <2>1 DEF DueOf, OwedOf, MixedOf
  <2> QED
    BY <1>1, <1>2, <2>1, <2>2 DEF OpenFile, Service!content, Service!Emptied
<1>3. CASE OpenFile /\ UNCHANGED foul /\ Goto(IF op = "write" THEN "announce" ELSE "block")
  <2>1. /\ pc' = (IF op = "write" THEN "announce" ELSE "block")
        /\ UNCHANGED <<op, size, done, result, told, heardAll, torn>>
    BY <1>3 DEF Goto
  <2>2. StepOf = "begun" /\ StepOf' = "opened"
    BY <1>1, <2>1 DEF StepOf
  <2>3. UNCHANGED <<ToldOf, SureOf>>
    BY <1>1, <2>1 DEF ToldOf, SureOf
  <2> QED
    BY <1>1, <1>2, <1>3, <2>1, <2>2, <2>3 DEF Service!Opens, Service!call, Service!debt
<1>4. CASE Return("Err")
  <2>1. Service!Returns("Err") /\ pc' = "idle" /\ result' = "Err"
    BY <1>1, <1>4, ReturnSeen DEF Return
  <2>2. CASE OpenFile /\ UNCHANGED foul
    <3>1. CASE op = "read"
      <4>1. SameStore /\ foul' \in {foul, "yes"}
        BY <1>1, <1>2, <2>2, <3>1 DEF SameStore, Service!content
      <4> QED
        BY <1>1, <2>1, <4>1, FailSeen
    <3>2. CASE op = "write"
      <4>1. StepOf = "begun" /\ UNCHANGED <<ToldOf, SureOf>>
        BY <1>1, <2>1 DEF StepOf, ToldOf, SureOf
      <4> QED
        BY <1>1, <1>2, <2>1, <2>2, <3>2, <4>1 DEF Service!EmptiesOnly, Service!debt
    <3> QED
      BY <1>1, <3>1, <3>2
  <2>3. CASE NotDone(Opens) /\ UNCHANGED <<file, present, spoiled>>
    <3>1. foul' \in {foul, "yes"} /\ SameStore
      BY <1>1, <2>3, NotDoneFouls DEF SameStore
    <3> QED
      BY <1>1, <2>1, <3>1, FailSeen
  <2> QED
    BY <1>1, <1>4, <2>2, <2>3 DEF Open, Goto
<1> QED
  BY <1>3, <1>4 DEF Open

LEMMA AnnounceSeen ==
  ASSUME FileInv, Announce
  PROVE  Service!Offers
<1>1. /\ pc = "announce" /\ pc' = "payload" /\ op \in {"upload", "write"} /\ result = "none"
      /\ UNCHANGED <<op, size, result, file, present, spoiled, others, cut, torn>>
  BY DEF FileInv, Phases, Announce, Goto
<1>2. /\ StepOf' = "offered" /\ (op = "upload" => StepOf = "begun")
      /\ op = "write" => StepOf = "opened"
  BY <1>1 DEF StepOf
<1>3. UNCHANGED <<ToldOf, SureOf>>
  BY <1>1 DEF ToldOf, SureOf
<1>4. CASE TakesData /\ mode' = op /\ want' = size /\ foul' = "no"
  <2>1. DueOf = "no" /\ DueOf' = "yes" /\ OwedOf' = size /\ MixedOf' = "no" /\ size > 0
        /\ (op = "upload" => present = "no")
    BY <1>1, <1>4 DEF TakesData, DueOf, OwedOf, MixedOf
  <2> QED
    BY <1>1, <1>2, <1>3, <2>1 DEF Service!Offers, Service!call, Service!content
<1>5. CASE NotDone(TakesData) /\ UNCHANGED <<mode, want>>
  <2>1. UNCHANGED <<DueOf, OwedOf>>
    BY <1>5 DEF DueOf, OwedOf
  <2>2. Service!MayMix
    BY <1>5, MixSeen, NotDoneFouls DEF Service!MayMix
  <2> QED
    BY <1>1, <1>2, <1>3, <2>1, <2>2 DEF Service!Offers, Service!call, Service!content
<1> QED
  BY <1>4, <1>5 DEF Announce

(* The payload and the wait: only an Err or an Ok shows.                   *)
LEMMA PayloadSeen ==
  ASSUME FileInv, Payload \/ Subscribe
  PROVE  UNCHANGED Service!vars
<1>1. /\ pc \in {"payload", "wait"} /\ pc' \in {"payload", "wait"} /\ op \in {"upload", "write"}
      /\ pc = "payload" /\ result = "none"
      /\ UNCHANGED <<op, size, result, mode, want, foul, file, present, spoiled, others, cut, torn>>
  BY DEF FileInv, Phases, Payload, Subscribe, modem
<1>2. UNCHANGED StepOf
  BY <1>1 DEF StepOf
<1>3. UNCHANGED <<ToldOf, SureOf, DueOf, OwedOf, MixedOf>>
  BY <1>1 DEF ToldOf, SureOf, DueOf, OwedOf, MixedOf
<1> QED
  BY <1>1, <1>2, <1>3, Unseen DEF SameCall, SameData, SameAnswer

LEMMA PayloadFailsSeen ==
  ASSUME FileInv, PayloadFails
  PROVE  Service!Fails
<1>1. /\ pc = "payload" /\ Return("Err") /\ cut' = "yes"
      /\ UNCHANGED <<mode, want, foul, file, present, spoiled, others>>
  BY DEF PayloadFails, modem
<1>2. Service!Returns("Err") /\ pc' = "idle" /\ result' = "Err"
  BY <1>1, ReturnSeen DEF Return
<1> QED
  BY <1>1, <1>2, FailSeen DEF SameStore

(* Ok from an upload or a write.                                           *)
LEMMA StoreReturnSeen ==
  ASSUME FileInv, pc \in {"wait", "close"}, op \in {"upload", "write"}, Return("Ok"),
         SameStore, UNCHANGED <<mode, want, foul, cut>>
  PROVE  Service!StoreReturns
<1>1. /\ result = "none" /\ result' = "Ok" /\ pc' = "idle"
      /\ UNCHANGED <<op, size, done, told, heardAll>>
      /\ torn' = IF mode # "command" THEN "yes" ELSE torn
  BY DEF FileInv, Phases, Return
<1>2. Service!Returns("Ok")
  BY ReturnSeen
<1>3. StepOf = "offered"
  BY DEF StepOf
<1>4. UNCHANGED <<ToldOf, DueOf, OwedOf, MixedOf>> /\ SureOf' = heardAll /\ heardAll \in {"yes", "no"}
  BY <1>1 DEF ToldOf, SureOf, DueOf, OwedOf, MixedOf, FileInv, TypeOK
<1>5. SureOf' = "yes" /\ torn' = "no" => DueOf = "no" /\ file = size /\ spoiled = "no"
  BY <1>1, <1>4 DEF FileInv, ReportInv, DueOf, TypeOK
<1> QED
  BY <1>2, <1>3, <1>4, <1>5
     DEF Service!StoreReturns, Service!store, Service!content, Service!debt, SameStore

LEMMA RoundSeen ==
  ASSUME FileInv, Round
  PROVE  Service!Fails \/ UNCHANGED Service!vars
<1>1. /\ pc = "wait" /\ op \in {"upload", "write"} /\ result = "none"
      /\ UNCHANGED <<mode, want, foul, file, present, spoiled, others, cut>>
  BY DEF FileInv, Phases, Round, modem
<1>2. CASE Return("Err")
  <2>1. Service!Returns("Err") /\ pc' = "idle" /\ result' = "Err"
    BY <1>1, <1>2, ReturnSeen DEF Return
  <2> QED
    BY <1>1, <2>1, FailSeen DEF SameStore
<1>3. CASE /\ pc' \in {"wait", "close", "closeErr"} /\ (op = "upload" => pc' = "wait")
           /\ UNCHANGED <<op, size, result, torn>>
  <2>1. UNCHANGED StepOf
    BY <1>1, <1>3 DEF StepOf
  <2>2. UNCHANGED <<ToldOf, SureOf, DueOf, OwedOf, MixedOf>>
    BY <1>1, <1>3 DEF ToldOf, SureOf, DueOf, OwedOf, MixedOf
  <2> QED
    BY <1>1, <1>3, <2>1, <2>2, Unseen DEF SameCall, SameData, SameAnswer
<1> QED
  BY <1>1, <1>2, <1>3 DEF Round, Goto

LEMMA ExpireSeen ==
  ASSUME FileInv, Expire
  PROVE  Service!StoreReturns \/ UNCHANGED Service!vars
<1>1. /\ pc = "wait" /\ op \in {"upload", "write"} /\ result = "none"
      /\ UNCHANGED <<mode, want, foul, file, present, spoiled, others, cut>>
  BY DEF FileInv, Phases, Expire, modem
<1>2. CASE op = "upload" /\ Return("Ok")
  BY <1>1, <1>2, StoreReturnSeen DEF SameStore
<1>3. CASE op = "write" /\ Goto("close")
  <2>1. pc' = "close" /\ UNCHANGED <<op, size, result, torn>>
    BY <1>3 DEF Goto
  <2>2. UNCHANGED StepOf
    BY <1>1, <1>3, <2>1 DEF StepOf
  <2>3. UNCHANGED <<ToldOf, SureOf, DueOf, OwedOf, MixedOf>>
    BY <1>1, <2>1 DEF ToldOf, SureOf, DueOf, OwedOf, MixedOf
  <2> QED
    BY <1>1, <2>1, <2>2, <2>3, Unseen DEF SameCall, SameData, SameAnswer
<1> QED
  BY <1>2, <1>3 DEF Expire

(* A block that is read does not show; one that is cut off does.           *)
LEMMA ReadBlockSeen ==
  ASSUME FileInv, ReadBlock \/ BufferFull
  PROVE  Service!Breaks \/ UNCHANGED Service!vars
<1>1. /\ pc = "block" /\ pc' \in {"block", "close", "closeErr"} /\ op = "read"
      /\ result = "none"
      /\ UNCHANGED <<op, size, result, mode, want, foul, file, present, spoiled, others, torn>>
      /\ cut' = cut \/ cut' = "yes"
  BY DEF FileInv, Phases, ReadBlock, BufferFull, Goto, modem
<1>2. UNCHANGED StepOf /\ StepOf = "opened"
  BY <1>1 DEF StepOf
<1>3. UNCHANGED <<ToldOf, SureOf, DueOf, OwedOf, MixedOf>>
  BY <1>1 DEF ToldOf, SureOf, DueOf, OwedOf, MixedOf
<1>4. CASE cut' = cut
  BY <1>1, <1>2, <1>3, <1>4, Unseen DEF SameCall, SameData, SameAnswer
<1>5. CASE cut' = "yes"
  BY <1>1, <1>2, <1>3, <1>5
     DEF Service!Breaks, Service!call, Service!store, Service!content, Service!debt
<1> QED
  BY <1>1, <1>4, <1>5

LEMMA CloseSeen ==
  ASSUME StoreInv, Close
  PROVE  Service!Fails \/ Service!StoreReturns \/ Service!ReadReturns
<1>0. FileInv /\ ReadEnds
  BY DEF StoreInv
<1>1. /\ pc \in {"close", "closeErr"} /\ op \in {"read", "write"} /\ result = "none"
      /\ UNCHANGED <<mode, want, file, present, spoiled, others, cut>>
      /\ foul' \in {foul, "yes"}
  BY <1>0, NotDoneFouls DEF FileInv, Phases, Close
<1>2. CASE Return("Err")
  <2>1. Service!Returns("Err") /\ pc' = "idle" /\ result' = "Err"
    BY <1>0, <1>1, <1>2, ReturnSeen DEF Return
  <2> QED
    BY <1>0, <1>1, <2>1, FailSeen DEF SameStore
<1>3. CASE pc = "close" /\ op = "write" /\ Return("Ok") /\ UNCHANGED foul
  BY <1>0, <1>1, <1>3, StoreReturnSeen DEF SameStore
<1>4. CASE pc = "close" /\ op = "read" /\ Return("Ok") /\ UNCHANGED foul
  <2>1. /\ result' = "Ok" /\ pc' = "idle" /\ UNCHANGED <<op, size, done, told, heardAll>>
    BY <1>4 DEF Return
  <2>2. Service!Returns("Ok") /\ StepOf = "opened"
    BY <1>0, <1>1, <1>4, ReturnSeen DEF StepOf
  <2>3. ToldOf' = done /\ UNCHANGED <<DueOf, OwedOf, MixedOf>>
    BY <1>1, <1>4, <2>1 DEF ToldOf, DueOf, OwedOf, MixedOf
  <2>4. heardAll = "no" /\ SureOf = "no" /\ SureOf' = "no"
    BY <1>0, <1>1, <1>4, <2>1 DEF StoreInv, ReadEnds, SureOf
  <2>5. done \in 0..Service!LeastOf(size, file)
    BY <1>0, <1>4, StoreNumbers DEF ReadEnds, Service!LeastOf
  <2>6. cut = "no" => done = Service!LeastOf(size, file)
    BY <1>0, <1>4 DEF FileInv, ReadInv, LeastOf, Service!LeastOf
  <2> QED
    BY <1>1, <1>4, <2>2, <2>3, <2>4, <2>5, <2>6
       DEF Service!ReadReturns, Service!store, Service!content, Service!debt
<1> QED
  BY <1>1, <1>2, <1>3, <1>4 DEF Close

LEMMA AskSeen ==
  ASSUME FileInv, Ask
  PROVE  \/ Service!Fails \/ Service!Deletes \/ Service!Lists \/ Service!Measures
<1>1. /\ pc = "ask" /\ pc' = "idle" /\ result = "none" /\ heardAll = "no"
      /\ op \in {"download", "delete", "list", "meta"}
      /\ torn' = IF mode # "command" THEN "yes" ELSE torn
      /\ UNCHANGED <<op, size, done, heardAll, mode, want, others, cut>>
      /\ foul' \in {foul, "yes"} /\ (Succeeds => UNCHANGED foul)
  BY NotDoneFouls DEF FileInv, Phases, Ask, NotDone, Succeeds
<1>2. \A r : result' = r => Service!Returns(r)
  <2>1. StepOf' = "idle" /\ torn' = IF DueOf = "yes" THEN "yes" ELSE torn
    BY <1>1 DEF StepOf, DueOf
  <2> QED
    BY <1>1, <2>1 DEF Service!Returns, Service!call
<1>3. StepOf = "begun" /\ UNCHANGED <<SureOf, DueOf, OwedOf>> /\ ToldOf = 0
      /\ (Succeeds => UNCHANGED MixedOf)
  BY <1>1 DEF StepOf, SureOf, DueOf, OwedOf, MixedOf, ToldOf
<1>4. CASE result' = "Err" /\ SameStore
  BY <1>1, <1>2, <1>4, FailSeen
<1>5. CASE /\ op = "delete" /\ Succeeds /\ present' = "no" /\ file' = 0 /\ spoiled' = "no"
           /\ result' \in {"Ok", "Err"}
  <2>1. DueOf = "no" /\ present = "yes"
    BY <1>5 DEF Succeeds, DueOf
  <2>2. UNCHANGED ToldOf
    BY <1>1, <1>3, <1>5 DEF ToldOf
  <2> QED
    BY <1>1, <1>2, <1>3, <1>5, <2>1, <2>2 DEF Service!Deletes, Service!debt
<1>6. CASE op = "list" /\ Succeeds /\ result' = "Ok" /\ told' = LeastOf(Files, ListCap) /\ SameStore
  <2>1. DueOf = "no" /\ Files <= ListCap
    BY <1>6 DEF Succeeds, DueOf
  <2>2. Service!Files = Files
    BY DEF Service!Files, Files
  <2>3. ToldOf' = Files
    BY <1>1, <1>6, <2>1 DEF ToldOf, LeastOf
  <2> QED
    BY <1>1, <1>2, <1>3, <1>6, <2>1, <2>2, <2>3
       DEF Service!Lists, Service!store, Service!content, Service!debt, SameStore
<1>7. CASE op \in {"download", "meta"} /\ Succeeds /\ result' = "Ok" /\ told' = file /\ SameStore
  <2>1. DueOf = "no" /\ present = "yes" /\ (op = "download" => file <= size)
    BY <1>7 DEF Succeeds, DownloadFits, DueOf
  <2>2. ToldOf' = file
    BY <1>1, <1>7 DEF ToldOf
  <2> QED
    BY <1>1, <1>2, <1>3, <1>7, <2>1, <2>2
       DEF Service!Measures, Service!store, Service!content, Service!debt, SameStore
<1>8. present \in {"yes", "no"} /\ (present = "no" => file = 0 /\ spoiled = "no")
  BY DEF FileInv, TypeOK
<1>9. CASE Succeeds /\ result' = "Ok"
  <2>1. CASE op = "delete"
    BY <1>5, <1>9, <2>1 DEF Ask, Delete
  <2>2. CASE op # "delete"
    <3>1. Delete(present)
      BY <1>9, <2>2 DEF Ask
    <3>2. SameStore
      BY <1>1, <1>8, <3>1 DEF Delete, SameStore
    <3> QED
      BY <1>1, <1>6, <1>7, <1>9, <2>2, <3>2 DEF Ask
  <2> QED
    BY <2>1, <2>2
<1>10. CASE result' = "Err"
  <2>1. PICK r \in {present} \cup (IF op = "delete" /\ Succeeds THEN {"no"} ELSE {}) : Delete(r)
    BY <1>10 DEF Ask
  <2>2. CASE r = present
    <3>1. SameStore
      BY <1>1, <1>8, <2>1, <2>2 DEF Delete, SameStore
    <3> QED
      BY <1>4, <1>10, <3>1
  <2>3. CASE r = "no" /\ op = "delete" /\ Succeeds
    BY <1>5, <1>10, <2>1, <2>3 DEF Delete
  <2> QED
    BY <2>1, <2>2, <2>3
<1> QED
  BY <1>9, <1>10 DEF Ask

LEMMA LandSeen ==
  ASSUME FileInv, ModemStores
  PROVE  Service!Lands
<1>1. /\ mode # "command" /\ mode' = "command" /\ file' = taken /\ present' = "yes"
      /\ spoiled' = foul
      /\ UNCHANGED <<op, pc, size, done, result, told, heardAll, others, cut, torn>>
  BY DEF ModemStores, Store
<1>2. UNCHANGED <<StepOf, ToldOf, SureOf>>
  BY <1>1 DEF StepOf, ToldOf, SureOf
<1>3. DueOf = "yes" /\ OwedOf = want /\ DueOf' = "no" /\ OwedOf' = 0 /\ MixedOf' = "no"
      /\ MixedOf = foul
  BY <1>1 DEF DueOf, OwedOf, MixedOf
<1>4. taken \in 0..OwedOf
  BY <1>3, StoreNumbers
<1> QED
  BY <1>1, <1>2, <1>3, <1>4 DEF Service!Lands, Service!call

LEMMA ReadEndsStep ==
  ASSUME StoreInv, [Next]_vars
  PROVE  ReadEnds'
<1>1. FileInv /\ ReadEnds /\ Numbers /\ TypeOK /\ Phases /\ FileInv'
  BY Constants, FileStep DEF StoreInv, FileInv
<1>2. ASSUME NEW o, NEW l, NEW n, CallBy(o, l, n) PROVE ReadEnds'
  BY <1>2 DEF CallBy, Call, ReadEnds
<1>3. CASE Open
  BY <1>1, <1>3
     DEF Open, OpenFile, Goto, Return, ReadEnds, Phases, TypeOK, Numbers, Lens
<1>4. CASE Announce \/ Payload \/ PayloadFails \/ Subscribe \/ Round \/ Expire
  BY <1>1, <1>4
     DEF Phases, Announce, Payload, PayloadFails, Subscribe, Round, Expire, Goto,
         Return, ReadEnds
<1>5. CASE ReadBlock
  <2>1. done \in Nat /\ file \in Nat /\ size \in Nat /\ done <= file /\ op = "read"
        /\ UNCHANGED <<op, file>> /\ (pc' # "idle" => heardAll' = "no")
    <3>1. pc = "block" /\ UNCHANGED <<op, file, heardAll>>
      BY <1>5 DEF ReadBlock, Goto, modem
    <3>2. op = "read" /\ heardAll = "no"
      BY <1>1, <3>1 DEF Phases
    <3>3. done <= file
      BY <1>1, <3>1, <3>2 DEF ReadEnds
    <3> QED
      BY <1>1, <3>1, <3>2, <3>3, StoreNumbers
  <2>2. Answer \in Nat /\ done + Answer <= file
    BY <1>1, <1>5, <2>1 DEF ReadBlock, Answer, Asked, LeastOf, Numbers
  <2>3. pc' \in {"block", "close"} => done' <= file
    <3>1. CASE done' = done + Answer
      BY <2>2, <3>1
    <3>2. CASE \E k \in Lens : k < Answer /\ done' = done + k
      BY <1>1, <2>1, <2>2, <3>2 DEF Lens, Numbers
    <3>3. CASE pc' = "closeErr"
      BY <3>3
    <3> QED
      BY <1>5, <3>1, <3>2, <3>3 DEF ReadBlock, Goto
  <2> QED
    BY <2>1, <2>3 DEF ReadEnds
<1>6. CASE BufferFull
  BY <1>1, <1>6 DEF BufferFull, Goto, modem, ReadEnds
<1>7. CASE Close \/ Ask
  BY <1>7 DEF Close, Return, Ask, ReadEnds
<1>8. CASE ModemStores
  <2>1. op = "read" => pc \notin {"block", "close"}
    BY <1>1, <1>8 DEF ModemStores, FileInv, ModeInv
  <2> QED
    BY <1>1, <1>8, <2>1 DEF ModemStores, ReadEnds
<1>9. CASE UNCHANGED vars
  BY <1>1, <1>9 DEF vars, call, modem, ReadEnds
<1> QED
  BY <1>2, <1>3, <1>4, <1>5, <1>6, <1>7, <1>8, <1>9, NextSteps

LEMMA StoreStep ==
  ASSUME StoreInv, [Next]_vars
  PROVE  [Service!Next]_(Service!vars)
<1>0. FileInv
  BY DEF StoreInv
<1>1. ASSUME NEW o, NEW l, NEW n, CallBy(o, l, n)
      PROVE  Service!Next
  <2>1. n \in Lens /\ o \in Service!Operations
    BY <1>1 DEF CallBy, Service!Operations
  <2>2. Service!Begin(o, n)
    BY <1>0, <1>1, BeginSeen
  <2> QED
    BY <2>1, <2>2 DEF Service!Next
<1>2. CASE Open \/ Announce \/ ModemStores
  BY <1>0, <1>2, OpenSeen, AnnounceSeen, LandSeen DEF Service!Next
<1>3. CASE Payload \/ PayloadFails \/ Subscribe \/ Round \/ Expire
  BY <1>0, <1>3, PayloadSeen, PayloadFailsSeen, RoundSeen, ExpireSeen DEF Service!Next
<1>4. CASE ReadBlock \/ BufferFull \/ Close \/ Ask
  BY <1>0, <1>4, ReadBlockSeen, CloseSeen, AskSeen DEF Service!Next
<1>5. CASE UNCHANGED vars
  <2>1. /\ UNCHANGED <<op, pc, size, done, result, told, heardAll, mode, want, foul, file,
                       present, spoiled, others, cut, torn>>
    BY <1>5 DEF vars, call, modem
  <2>2. UNCHANGED <<StepOf, ToldOf, SureOf, DueOf, OwedOf, MixedOf>>
    BY <2>1 DEF StepOf, ToldOf, SureOf, DueOf, OwedOf, MixedOf
  <2> QED
    BY <2>1, <2>2
       DEF Service!vars, Service!call, Service!store, Service!content, Service!debt
<1> QED
  BY <1>1, <1>2, <1>3, <1>4, <1>5, NextSteps

LEMMA StoreInit == Init => StoreInv /\ Service!Init
<1> SUFFICES ASSUME Init PROVE StoreInv /\ Service!Init
  OBVIOUS
<1>1. FileInv
  BY FileInit
<1>2. ReadEnds
  BY DEF Init, ReadEnds
<1>3. StepOf = "idle" /\ ToldOf = 0 /\ SureOf = "no" /\ DueOf = "no" /\ OwedOf = 0
      /\ MixedOf = "no"
  BY DEF Init, StepOf, ToldOf, SureOf, DueOf, OwedOf, MixedOf
<1> QED
  BY <1>1, <1>2, <1>3 DEF StoreInv, Init, Service!Init

(* cellular.rs:2412-2860: every behaviour of the calls, chunk by chunk and *)
(* round by round, on a modem that refuses, loses and is late, is one of   *)
(* FileStore: effects at most once and in the order of the calls, and text *)
(* that nobody offered only in a file whose data was still owed.           *)
THEOREM StoreImplementation == Spec => ImplementsFileStore
<1>1. StoreInv /\ [Next]_vars => StoreInv'
  BY FileStep, ReadEndsStep DEF StoreInv
<1>2. StoreInv /\ [Next]_vars => [Service!Next]_(Service!vars)
  BY StoreStep
<1> QED
  BY StoreInit, <1>1, <1>2, PTL DEF Spec, Service!Spec, ImplementsFileStore
-----------------------------------------------------------------------------
LEMMA StageIs ==
  /\ Stage("open") = 5 /\ Stage("announce") = 4 /\ Stage("payload") = 3
  /\ Stage("wait") = 2 /\ Stage("block") = 2 /\ Stage("ask") = 1 /\ Stage("close") = 1
  /\ Stage("closeErr") = 1 /\ Stage("idle") = 0
BY DEF Stage

Further == Stage(pc') < Stage(pc)
Counts ==
  /\ pc' = pc /\ size' = size
  /\ \/ done < done' /\ done' <= size /\ round' = round
     \/ round < round' /\ round' <= Rounds /\ done' = done

Waits == UNCHANGED <<pc, size, done, round>>

LEMMA PayloadCounts == ASSUME FileInv, Payload PROVE Counts
<1>1. done < size /\ pc' = pc /\ size' = size /\ round' = round /\ done' = done + PayloadSize
  BY DEF Payload
<1>2. PayloadSize \in 1..(size - done)
  BY <1>1, StoreNumbers DEF PayloadSize, LeastOf, Numbers
<1> QED
  BY <1>1, <1>2, StoreNumbers DEF Counts

LEMMA RoundCounts == ASSUME FileInv, Round PROVE Further \/ Counts
<1>1. pc = "wait" /\ round < Rounds /\ round \in Nat /\ Rounds \in Nat
  BY StoreNumbers DEF Round, Numbers, TypeOK
<1>2. CASE pc' \in {"close", "closeErr", "idle"}
  BY <1>1, <1>2, StageIs DEF Further
<1>3. CASE pc' = pc /\ size' = size /\ done' = done /\ round' = round + 1
  BY <1>1, <1>3 DEF Counts
<1> QED
  BY <1>1, <1>2, <1>3 DEF Round, Goto, Return

LEMMA ReadBlockCounts == ASSUME StoreInv, ReadBlock PROVE Further \/ Counts
<1>1. pc = "block" /\ done < size /\ FileInv /\ ReadEnds
  BY DEF ReadBlock, StoreInv
<1>2. CASE pc' \in {"close", "closeErr", "idle"}
  BY <1>1, <1>2, StageIs DEF Further
<1>3. CASE pc' = "block"
  <2>1. /\ ~EndsAt(Answer) /\ pc' = pc /\ size' = size /\ round' = round
        /\ done' = done + Answer
    BY <1>3 DEF ReadBlock, Goto, Return
  <2>2. op = "read"
    BY <1>1, StoreNumbers DEF Phases
  <2>3. done <= file
    BY <1>1, <2>2 DEF ReadEnds
  <2>4. Answer \in Nat /\ Answer <= size - done
    BY <1>1, <2>3, StoreNumbers DEF Answer, Asked, LeastOf, Numbers
  <2>5. Answer # 0
    BY <2>1 DEF EndsAt
  <2> QED
    BY <1>1, <2>1, <2>4, <2>5, StoreNumbers DEF Counts
<1> QED
  BY <1>2, <1>3 DEF ReadBlock, Goto

(* cellular.rs:2549, 2678, 2822: each step of a call takes it to a later   *)
(* stage, or sends or reads a byte, or uses a round up, with all sizes.    *)
THEOREM CallsEndHolds == Spec => CallsEnd
<1>1. ASSUME StoreInv, CallStep PROVE Further \/ Counts
  <2>0. FileInv
    BY <1>1 DEF StoreInv
  <2>1. CASE Open
    BY <2>1, StageIs DEF Open, Goto, Return, Further
  <2>2. CASE Announce
    BY <2>2, StageIs DEF Announce, Goto, Further
  <2>3. CASE PayloadFails \/ Subscribe
    BY <2>3, StageIs DEF PayloadFails, Subscribe, Return, Further
  <2>4. CASE Expire \/ BufferFull
    BY <2>4, StageIs DEF Expire, BufferFull, Goto, Return, Further
  <2>5. CASE Close \/ Ask
    BY <2>5, StageIs DEF Close, Ask, Return, Further
  <2> QED
    BY <1>1, <2>0, <2>1, <2>2, <2>3, <2>4, <2>5, PayloadCounts, RoundCounts,
       ReadBlockCounts
       DEF CallStep
<1>2. ASSUME StoreInv, Next, pc # "idle"
      PROVE  Further \/ Counts \/ (~CallStep /\ Waits)
  <2>1. \A o, l, n : ~Call(o, l, n)
    BY <1>2 DEF Call
  <2>2. CallStep \/ ModemStores
    BY <1>2, <2>1 DEF Next
  <2>3. ModemStores => Waits
    BY DEF ModemStores, Waits
  <2> QED
    BY <1>1, <1>2, <2>2, <2>3
<1>3. StoreInv /\ [Next]_vars =>
        [pc # "idle" => Further \/ Counts \/ (~CallStep /\ Waits)]_vars
  BY <1>2
<1>4. StoreInv /\ [Next]_vars => StoreInv'
  BY FileStep, ReadEndsStep DEF StoreInv
<1> QED
  BY StoreInit, <1>3, <1>4, PTL DEF Spec, CallsEnd, Further, Counts, Waits
=============================================================================
