---------------------------- MODULE NetworkAttach ----------------------------
(***************************************************************************)
(* QuectelBG9X::network_attach (src/src/cellular.rs): a timed loop that    *)
(* polls which technology the modem found, and a second one that polls the *)
(* registration on that technology with the time the first one left.  One  *)
(* step is one round of a loop: its delay, its command and what it does    *)
(* with the answer.  Time is counted in units of 500 ms; a command takes   *)
(* from no time up to its timeout, rounded up to a unit.  Its names are    *)
(* its own, so that a module can extend it together with another's.        *)
(***************************************************************************)
EXTENDS Naturals

CONSTANTS
  Timeout,     (* 60 s in the code                                         *)
  InfoPoll,    (* delay of a round of network_attach_info: 1 s             *)
  RegPoll,     (* delay of a round of register_gprs/register_eps: 500 ms   *)
  MaxAnswer    (* AT+QNWINFO, AT+CGREG?, AT+CEREG? time out after 300 ms   *)

ASSUME NetworkAttachAssumption ==
  /\ Timeout \in Nat \ {0}
  /\ InfoPoll \in Nat /\ RegPoll \in Nat /\ MaxAnswer \in Nat
  /\ RegPoll <= InfoPoll

VARIABLES
  phase,       (* "info", "register", "attached", "failed" or "panicked"   *)
  mode,        (* self.mode                                                *)
  elapsed,     (* since the running loop began                             *)
  attach,      (* attach_duration                                          *)
  error        (* the ModemError returned, or "none"                       *)

attachVars == <<phase, mode, elapsed, attach, error>>

(* What the text of AT+QNWINFO (or the code of AT+COPS? on the EG916U)     *)
(* makes of a technology: LTE, any of the 2G names, NB-IoT.                *)
Modes == {"LTEM", "EDGE", "NBIoT"}

(* <stat> of a registration, and Err for a command that failed.            *)
Stats == {"home", "roaming", "searching", "denied", "failed", "other", "Err"}

AttachInit ==
  /\ phase = "info" /\ mode \in Modes \cup {"Unknown"}
  /\ elapsed = 0 /\ attach = 0 /\ error = "none"

Fail(e) == phase' = "failed" /\ error' = e

(* SEARCH, No Service, an unknown technology or a failed command.          *)
InfoAgain(d) ==
  /\ phase = "info" /\ elapsed < Timeout
  /\ elapsed' = elapsed + InfoPoll + d
  /\ UNCHANGED <<phase, mode, attach, error>>

(* `timeout - attach_duration' panics when the answer came too late.       *)
InfoFound(m, d) ==
  /\ phase = "info" /\ elapsed < Timeout
  /\ mode' = m
  /\ attach' = elapsed + InfoPoll + d
  /\ phase' = IF attach' <= Timeout THEN "register" ELSE "panicked"
  /\ elapsed' = 0
  /\ UNCHANGED error

InfoTimeout ==
  /\ phase = "info" /\ elapsed >= Timeout
  /\ Fail("OperationTimeout")
  /\ UNCHANGED <<mode, elapsed, attach>>

(* register_gprs in EDGE mode, register_eps in LTE-M and NB-IoT mode: the  *)
(* same loop around AT+CGREG? and AT+CEREG?.                               *)
Remaining_Whole == Timeout

Remaining == Timeout - attach

Register(stat, d) ==
  /\ phase = "register" /\ elapsed < Remaining
  /\ elapsed' = elapsed + RegPoll + d
  /\ \/ stat \in {"home", "roaming"} /\ phase' = "attached" /\ UNCHANGED error
     \/ stat \in {"searching", "Err"} /\ UNCHANGED <<phase, error>>
     \/ stat \in {"denied", "failed", "other"} /\ Fail("NoNetwork")
  /\ UNCHANGED <<mode, attach>>

RegisterTimeout ==
  /\ phase = "register" /\ elapsed >= Remaining
  /\ Fail("OperationTimeout")
  /\ UNCHANGED <<mode, elapsed, attach>>

AttachNext ==
  \/ \E d \in 0..MaxAnswer :
       \/ InfoAgain(d)
       \/ \E m \in Modes : InfoFound(m, d)
       \/ \E stat \in Stats : Register(stat, d)
  \/ InfoTimeout \/ RegisterTimeout

AttachSpec == AttachInit /\ [][AttachNext]_attachVars
-----------------------------------------------------------------------------
(* Types, and: registration is asked only on a technology that was found   *)
(* (the ModemMode::Unknown arm of network_attach is dead), an error is     *)
(* returned exactly by a call that failed.                                 *)
AttachTypeOK ==
  /\ phase \in {"info", "register", "attached", "failed", "panicked"}
  /\ mode \in Modes \cup {"Unknown"}
  /\ elapsed \in Nat /\ attach \in Nat
  /\ error \in {"none", "OperationTimeout", "NoNetwork"}
  /\ phase \in {"register", "attached"} => mode \in Modes
  /\ phase = "failed" <=> error # "none"

(* The 60 s are a budget for both loops together: a loop can run over it   *)
(* by less than one of its own rounds, never by a round of each, and       *)
(* registration is not entered over budget (cellular.rs:1064-1070).        *)
ClockBounded ==
  /\ phase = "info" => elapsed < Timeout + InfoPoll + MaxAnswer
  /\ phase \in {"register", "attached"} => attach <= Timeout
  /\ phase # "panicked" => attach + elapsed <= Timeout + InfoPoll + MaxAnswer
  /\ phase = "attached" => attach + elapsed <= Timeout + RegPoll + MaxAnswer
=============================================================================
