---------------------------- MODULE FileTransfer ----------------------------
(***************************************************************************)
(* The calls of QuectelBG9X (src/src/cellular.rs) on the modem's flash:    *)
(* upload, write, read, delete, list, metadata and the unfinished download *)
(* of a file, with the file system and its data mode, in which the modem   *)
(* takes the next bytes of the UART for a file, those of commands as well. *)
(* A file is its length, and whether all of it was offered for it.  One    *)
(* file is followed, the others are counted.  The calls take &mut self:    *)
(* one runs at a time.                                                     *)
(***************************************************************************)
EXTENDS Naturals, FiniteSets

CONSTANTS
  MaxLen,      (* bound: length of a file and of a buffer, in bytes         *)
  Chunk,       (* bytes of one payload: 256                                 *)
  Block,       (* bytes one QFREAD asks for: 128                            *)
  Others,      (* numbers of other files there may be                       *)
  ListCap,     (* entries an answer to QFLST can hold: 5                    *)
  Rounds,      (* rounds of a wait: 6 of 500 ms, or 100 of 100 ms           *)
  MaxCalls,    (* bound: calls                                              *)
  MaxFaults    (* bound: failures                                           *)

ASSUME FileTransferAssumption ==
  /\ MaxLen \in Nat /\ Chunk \in Nat \ {0} /\ Block \in Nat \ {0}
  /\ Others \subseteq Nat /\ ListCap \in Nat
  /\ Rounds \in Nat \ {0} /\ MaxCalls \in Nat /\ MaxFaults \in Nat

VARIABLES
  op, pc,      (* the running call and its next command, payload or wait    *)
  size,        (* bytes of the caller's data, or of its buffer              *)
  done,        (* bytes sent or read so far                                 *)
  round,
  result,      (* "none", "Ok" or "Err"                                     *)
  told,        (* length or number of files the call returned               *)
  heardAll,    (* "yes" if the call heard the modem's report of all bytes   *)
  sub,         (* "live" while it has a subscriber, else "none"             *)
  inbox,       (* lengths reported to the subscriber and not yet looked at  *)
  mode,        (* the modem's: "command", or in data mode the command that  *)
               (* put it there, "upload" or "write"                         *)
  taken,       (* bytes it has taken in data mode                           *)
  want,        (* bytes it wants before it leaves data mode                 *)
  foul,        (* "yes" once a command or a later call's data is among them *)
  file,        (* length of the file on the modem                           *)
  present,     (* "no" if there is no such file                             *)
  spoiled,     (* "yes" if there is more in it than was offered for it      *)
  others,      (* number of other files                                     *)
  handles,     (* file handles open on the modem                            *)
  stuck,       (* handles whose close the modem refused                     *)
  stray,       (* handles whose number was lost with the answer to QFOPEN   *)
  cut,         (* "yes" once a payload or the frame of a block was cut off  *)
  torn,        (* "yes" once a call returned with the modem in data mode    *)
  calls, faults

call == <<op, pc, size, done, round, result, told, heardAll, sub, inbox>>
modem == <<mode, taken, want, foul, file, present, spoiled, others, handles>>
kept == <<stuck, stray>>
vars == <<call, modem, kept, cut, torn, calls, faults>>

Lens == 0..MaxLen
LeastOf(a, b) == IF a <= b THEN a ELSE b
Fault == faults < MaxFaults /\ faults' = faults + 1

Init ==
  /\ op = "none" /\ pc = "idle" /\ size = 0 /\ done = 0 /\ round = 0
  /\ result = "none" /\ told = 0 /\ heardAll = "no" /\ sub = "none"
  /\ inbox = {} /\ others \in Others
  /\ \/ present = "no" /\ file = 0
     \/ present = "yes" /\ file \in Lens
  /\ mode = "command" /\ taken = 0 /\ want = 0 /\ foul = "no" /\ spoiled = "no"
  /\ handles = 0 /\ stuck = 0 /\ stray = 0 /\ cut = "no" /\ torn = "no"
  /\ calls = 0 /\ faults = 0

Call(o, label, n) ==
  /\ pc = "idle" /\ calls < MaxCalls /\ calls' = calls + 1
  /\ op' = o /\ pc' = label /\ size' = n /\ done' = 0 /\ round' = 0
  /\ result' = "none" /\ told' = 0 /\ heardAll' = "no" /\ sub' = "none" /\ inbox' = {}
  /\ UNCHANGED <<modem, kept, cut, torn, faults>>

Return(r) ==
  /\ pc' = "idle" /\ result' = r /\ sub' = "none" /\ inbox' = {}
  /\ torn' = IF mode # "command" THEN "yes" ELSE torn
  /\ UNCHANGED <<op, size, done, round, told, heardAll>>

Goto(label) ==
  /\ pc' = label
  /\ UNCHANGED <<op, size, done, round, result, told, heardAll, sub, inbox, torn>>
-----------------------------------------------------------------------------
(* A command that is not carried out: the modem refuses it or the line     *)
(* loses it.  A modem in data mode does not answer, and the text of the    *)
(* command goes into the file as far as there is room.                     *)
NotDone(could) ==
  /\ could => Fault
  /\ ~could => UNCHANGED faults
  /\ foul' = IF mode = "command" THEN foul ELSE "yes"
  /\ taken' \in IF mode # "command" /\ taken < want THEN taken + 1..want ELSE {taken}

(* AT+QFOPEN, for write (which creates or empties the file) and for read.  *)
Opens == mode = "command" /\ (op = "read" => present = "yes")

OpenFile ==
  /\ Opens /\ handles' = handles + 1 /\ present' = "yes"
  /\ file' = IF op = "write" THEN 0 ELSE file
  /\ spoiled' = IF op = "write" THEN "no" ELSE spoiled

Open_Ignored ==
  /\ pc = "open" /\ Goto(IF op = "write" THEN "announce" ELSE "block")
  /\ \/ OpenFile /\ UNCHANGED <<taken, foul, faults>>
     \/ NotDone(Opens) /\ UNCHANGED <<file, present, spoiled, handles>>
  /\ UNCHANGED <<mode, want, others, kept, cut, calls>>

(* If only its answer is lost or comes after the second that send waits,   *)
(* the file is open, and nobody knows the handle.                          *)
Open ==
  /\ pc = "open"
  /\ \/ /\ OpenFile /\ Goto(IF op = "write" THEN "announce" ELSE "block")
        /\ UNCHANGED <<taken, foul, stray, faults>>
     \/ /\ OpenFile /\ Fault /\ Return("Err") /\ stray' = stray + 1
        /\ UNCHANGED <<taken, foul>>
     \/ /\ NotDone(Opens) /\ Return("Err")
        /\ UNCHANGED <<file, present, spoiled, handles, stray>>
  /\ UNCHANGED <<mode, want, others, stuck, cut, calls>>

(* AT+QFUPL and AT+QFWRITE: whatever comes back is ignored.  QFUPL creates *)
(* a file and is refused for one that exists.                              *)
TakesData == size > 0 /\ mode = "command" /\ (op = "upload" => present = "no")

Announce ==
  /\ pc = "announce" /\ Goto("payload")
  /\ \/ /\ TakesData
        /\ mode' = op /\ taken' = 0 /\ want' = size /\ foul' = "no" /\ UNCHANGED faults
     \/ NotDone(TakesData) /\ UNCHANGED <<mode, want>>
  /\ UNCHANGED <<file, present, spoiled, others, handles, kept, cut, calls>>

(* The modem stores what it took and reports it, to whoever listens for a  *)
(* report of that command.                                                 *)
Store(n) ==
  /\ mode' = "command" /\ file' = n /\ present' = "yes"
  /\ spoiled' = foul /\ foul' = "no"
  /\ inbox' = IF sub = "live" /\ mode = op THEN {n} ELSE inbox

(* One payload; bytes the UART loses on the way are not noticed.           *)
PayloadSize == LeastOf(Chunk, size - done)

Payload ==
  /\ pc = "payload" /\ done < size
  /\ \E k \in 0..PayloadSize :
       /\ k < PayloadSize => mode # "command" /\ Fault
       /\ k = PayloadSize => UNCHANGED faults
       /\ taken' = IF mode # "command" THEN LeastOf(taken + k, want) ELSE taken
       /\ done' = done + PayloadSize
  /\ UNCHANGED <<op, pc, size, round, result, told, heardAll, sub, inbox, mode, want, foul,
                 file, present, spoiled, others, handles, kept, cut, torn, calls>>

(* A payload the UART rejects: the call returns, without closing anything. *)
PayloadFails ==
  /\ pc = "payload" /\ done < size /\ Fault /\ cut' = "yes"
  /\ Return("Err")
  /\ UNCHANGED <<modem, kept, calls>>

(* Only now does the call subscribe.                                       *)
Subscribe ==
  /\ pc = "payload" /\ done = size
  /\ pc' = "wait" /\ sub' = "live" /\ round' = 0
  /\ UNCHANGED <<op, size, done, result, told, heardAll, inbox, modem, kept, cut, torn,
                 calls, faults>>

(* A round of the wait: a report of another length is an error (write      *)
(* closes the file first); the right one ends a write at once, an upload   *)
(* when its 3 s are over.                                                  *)
RoundMatches_Ignored(n) == TRUE
RoundMatches(n) == n = size

Round ==
  /\ pc = "wait" /\ round < Rounds
  /\ \/ /\ \E n \in inbox : RoundMatches(n)
        /\ heardAll' = "yes"
        /\ \/ op = "write" /\ pc' = "close" /\ UNCHANGED <<round, inbox>>
           \/ op = "upload" /\ round' = round + 1 /\ inbox' = {} /\ UNCHANGED pc
        /\ UNCHANGED <<op, size, done, result, told, sub, torn>>
     \/ /\ \E n \in inbox : ~RoundMatches(n)
        /\ \/ op = "write" /\ Goto("closeErr")
           \/ op = "upload" /\ Return("Err")
     \/ /\ inbox = {} /\ round' = round + 1
        /\ UNCHANGED <<op, pc, size, done, result, told, heardAll, sub, inbox, torn>>
  /\ UNCHANGED <<modem, kept, cut, calls, faults>>

(* No report in time is no error.                                          *)
Expire ==
  /\ pc = "wait" /\ round = Rounds
  /\ \/ op = "write" /\ Goto("close")
     \/ op = "upload" /\ Return("Ok")
  /\ UNCHANGED <<modem, kept, cut, calls, faults>>
-----------------------------------------------------------------------------
(* AT+QFREAD: blocks until the buffer is full, nothing comes, or less      *)
(* comes than was asked for.                                               *)
Asked_Block == Block
Asked == LeastOf(Block, size - done)
Answer == LeastOf(Asked, file - done)

EndsAt_OneBlock(n) == n <= Asked
EndsAt(n) == n = 0 \/ n < Asked

ReadBlock_Leaks ==
  /\ pc = "block" /\ done < size
  /\ \/ /\ done' = done + Answer /\ UNCHANGED faults
        /\ pc' = IF EndsAt(Answer) THEN "close" ELSE "block"
        /\ UNCHANGED <<op, size, round, result, told, heardAll, sub, inbox, torn>>
     \/ Fault /\ Return("Err")
  /\ UNCHANGED <<modem, kept, cut, calls>>

(* An answer framed too early is passed on as a short block, which reads   *)
(* as the end of the file.                                                 *)
ReadBlock ==
  /\ pc = "block" /\ done < size
  /\ \/ /\ done' = done + Answer /\ UNCHANGED <<cut, faults>>
        /\ pc' = IF EndsAt(Answer) THEN "close" ELSE "block"
        /\ UNCHANGED <<op, size, round, result, told, heardAll, sub, inbox, torn>>
     \/ /\ Fault /\ cut' = "yes" /\ pc' = "close"
        /\ \E k \in Lens : k < Answer /\ done' = done + k
        /\ UNCHANGED <<op, size, round, result, told, heardAll, sub, inbox, torn>>
     \/ Fault /\ Goto("closeErr") /\ UNCHANGED cut
  /\ UNCHANGED <<modem, kept, calls>>

BufferFull ==
  /\ pc = "block" /\ done = size /\ Goto("close")
  /\ UNCHANGED <<modem, kept, cut, calls, faults>>

(* AT+QFCLOSE, which the modem may have obeyed although the answer is lost.*)
(* On the error paths its own failure is ignored.                          *)
Close ==
  /\ pc \in {"close", "closeErr"}
  /\ \/ /\ mode = "command" /\ handles' = handles - 1
        /\ \/ Return(IF pc = "close" THEN "Ok" ELSE "Err") /\ UNCHANGED faults
           \/ Return("Err") /\ Fault
        /\ UNCHANGED <<taken, foul, stuck>>
     \/ /\ NotDone(mode = "command") /\ Return("Err")
        /\ stuck' = stuck + 1 /\ UNCHANGED handles
  /\ UNCHANGED <<mode, want, file, present, spoiled, others, stray, cut, calls>>
-----------------------------------------------------------------------------
(* AT+QFDEL, AT+QFLST and AT+QFDWL: one command and one answer each.  An   *)
(* answer of too many entries does not parse.  The download reports the    *)
(* length of a file that fits the buffer and leaves the buffer as it was.  *)
Files == others + (IF present = "yes" THEN 1 ELSE 0)

DownloadFits == file <= size

Succeeds_Truncates ==
  mode = "command" /\ (op # "list" => present = "yes") /\ (op = "download" => DownloadFits)

Succeeds ==
  /\ mode = "command"
  /\ op = "list" => Files <= ListCap
  /\ op # "list" => present = "yes"
  /\ op = "download" => DownloadFits

Delete(r) ==
  /\ present' = r
  /\ file' = IF r = "no" THEN 0 ELSE file
  /\ spoiled' = IF r = "no" THEN "no" ELSE spoiled

Ask ==
  /\ pc = "ask" /\ pc' = "idle"
  /\ torn' = IF mode # "command" THEN "yes" ELSE torn
  /\ \/ /\ Succeeds /\ result' = "Ok"
        /\ told' = CASE op = "list" -> LeastOf(Files, ListCap)
                     [] op = "delete" -> 0
                     [] OTHER -> file
        /\ Delete(IF op = "delete" THEN "no" ELSE present)
        /\ UNCHANGED <<taken, foul, faults>>
     \/ /\ NotDone(Succeeds) /\ result' = "Err" /\ UNCHANGED told
        /\ \E r \in {present} \cup (IF op = "delete" /\ Succeeds THEN {"no"} ELSE {}) : Delete(r)
  /\ UNCHANGED <<op, size, done, round, heardAll, sub, inbox, mode, want, others, handles,
                 kept, cut, calls>>
-----------------------------------------------------------------------------
(* The modem has all it wants, or has waited long enough for the rest.     *)
ModemStores ==
  /\ mode # "command"
  /\ \/ taken = want
     \/ taken < want /\ pc # "payload"
  /\ Store(taken)
  /\ UNCHANGED <<op, pc, size, done, round, result, told, heardAll, sub, taken,
                 want, others, handles, kept, cut, torn, calls, faults>>

CallStep ==
  \/ Open \/ Announce \/ Payload \/ PayloadFails \/ Subscribe \/ Round \/ Expire
  \/ ReadBlock \/ BufferFull \/ Close \/ Ask

Next ==
  \/ \E n \in Lens : \/ Call("upload", "announce", n) \/ Call("write", "open", n)
                     \/ Call("read", "open", n) \/ Call("download", "ask", n)
  \/ \E o \in {"delete", "list", "meta"} : Call(o, "ask", 0)
  \/ CallStep \/ ModemStores

Spec == Init /\ [][Next]_vars
-----------------------------------------------------------------------------
(* The calls as FileStore sees them.                                       *)
StepOf ==
  IF pc = "idle" THEN "idle"
  ELSE IF pc \in {"open", "ask"} \/ (pc = "announce" /\ op = "upload") THEN "begun"
  ELSE IF pc = "announce" \/ op = "read" THEN "opened" ELSE "offered"

ToldOf ==
  IF result # "Ok" THEN 0
  ELSE IF op = "read" THEN done
  ELSE IF op \in {"download", "list", "meta"} THEN told ELSE 0

SureOf == IF result = "Ok" THEN heardAll ELSE "no"
DueOf == IF mode = "command" THEN "no" ELSE "yes"
OwedOf == IF mode = "command" THEN 0 ELSE want
MixedOf == IF mode = "command" THEN "no" ELSE foul

Service == INSTANCE FileStore WITH
  step <- StepOf, told <- ToldOf, sure <- SureOf, due <- DueOf, owed <- OwedOf,
  mixed <- MixedOf, broken <- cut, late <- torn
-----------------------------------------------------------------------------
(* Types; a write or read that runs holds a handle from QFOPEN to QFCLOSE. *)
TypeOK ==
  /\ op \in {"none", "upload", "write", "read", "download", "delete", "list", "meta"}
  /\ pc \in {"idle", "open", "announce", "payload", "wait", "block", "close",
             "closeErr", "ask"}
  /\ size \in Lens /\ done \in 0..size /\ round \in 0..Rounds
  /\ result \in {"none", "Ok", "Err"} /\ heardAll \in {"yes", "no"}
  /\ sub \in {"none", "live"} /\ inbox \subseteq Lens
  /\ inbox # {} => sub = "live"
  /\ sub # "none" => pc \in {"wait", "close", "closeErr"}
  /\ mode \in {"command", "upload", "write"} /\ want \in Lens /\ taken \in 0..want
  /\ file \in Lens /\ present \in {"yes", "no"} /\ (present = "no" => file = 0 /\ spoiled = "no")
  /\ foul \in {"yes", "no"} /\ spoiled \in {"yes", "no"}
  /\ others \in Others /\ told \in Nat /\ handles \in 0..MaxCalls
  /\ stuck \in Nat /\ stray \in Nat /\ stuck + stray <= handles
  /\ cut \in {"yes", "no"} /\ torn \in {"yes", "no"}
  /\ calls \in 0..MaxCalls /\ faults \in 0..MaxFaults

(* read_file returns the whole file or a full buffer: the loop stops       *)
(* neither early nor late, whatever the file, buffer and block lengths are *)
(* to each other, unless a frame was cut (cellular.rs:2678-2721).          *)
ReadIsWhole ==
  pc = "idle" /\ op = "read" /\ result = "Ok" /\ cut = "no"
    => done = LeastOf(size, file)

(* An upload or write that heard its report and returned Ok has its file   *)
(* on the modem, whole and nothing else in it: bytes lost on the UART and  *)
(* commands taken for data are found out, unless an earlier call had left  *)
(* the modem in data mode (cellular.rs:2551, 2833).                        *)
ReportedIsStored ==
  pc = "idle" /\ result = "Ok" /\ heardAll = "yes" /\ torn = "no"
    => file = size /\ spoiled = "no"

(* Of the files on the modem a call has returned with none open but those  *)
(* whose close was refused and those whose handle it was never told:  each *)
(* other handle is closed, on the error paths as well, unless sending a    *)
(* payload failed (cellular.rs:2717, 2724, 2833, 2848).                    *)
HandlesClosed == pc = "idle" /\ cut = "no" => handles = stuck + stray

(* What delete, list and metadata return is so on the modem when they      *)
(* return, after any uploads, writes and failures before: a listing that   *)
(* is Ok has every file, never the first few ("pushing cannot overflow",   *)
(* cellular.rs:2427-2430); with more than five it is an error.             *)
DirectoryIsTrue ==
  pc = "idle" /\ result = "Ok" =>
    /\ op = "delete" => present = "no"
    /\ op = "list" => told = Files
    /\ op = "meta" => present = "yes" /\ told = file

(* Every call of cellular.rs:2412-2860 is one of FileStore: of an upload,  *)
(* write or delete the modem keeps one effect or none, whatever is refused,*)
(* lost or late; what is still owed when a call gives up comes in once and *)
(* before any other call has an effect of its own, and only then may text  *)
(* that was not offered be in a file.                                      *)
ImplementsFileStore == Service!Spec

(* Every call ends (cellular.rs:2549, 2678, 2822): each of its steps takes *)
(* it further, or sends or reads at least a byte, or uses a round up, and  *)
(* of those there are size and Rounds, whatever the lengths of file, buffer*)
(* and blocks are to each other; and what the modem does meanwhile sets    *)
(* none of it back.                                                        *)
Stage(label) ==
  CASE label = "open" -> 5
    [] label = "announce" -> 4
    [] label = "payload" -> 3
    [] label \in {"wait", "block"} -> 2
    [] label \in {"ask", "close", "closeErr"} -> 1
    [] label = "idle" -> 0

CallsEnd ==
  [][pc # "idle" =>
       \/ Stage(pc') < Stage(pc)
       \/ /\ pc' = pc /\ size' = size
          /\ \/ done < done' /\ done' <= size /\ round' = round
             \/ round < round' /\ round' <= Rounds /\ done' = done
       \/ ~CallStep /\ UNCHANGED <<pc, size, done, round>>]_vars
=============================================================================
