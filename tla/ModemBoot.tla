----------------------------- MODULE ModemBoot ------------------------------
(***************************************************************************)
(* Power, identity and SIM of QuectelBG9X (src/src/cellular.rs): new,      *)
(* power_on, power_off, is_alive and test_sim, with the modem they drive   *)
(* blind: it boots and stops in its own time, comes up with echo on,       *)
(* interleaves RDY and APP RDY with its first answers and initialises the  *)
(* SIM.  Time is counted in 100 ms and passes while the driver waits, for  *)
(* a delay or for an answer.  The calls take &mut self: one runs at a      *)
(* time; pc is its next step, and once it returned its result.             *)
(***************************************************************************)
EXTENDS Naturals, Sequences

CONSTANTS
  Firmwares,   (* what AT+QGMR answers: entries of the driver's table, or   *)
               (* "unlisted"                                                *)
  BootTimes,   (* from the power key to the first answer                    *)
  StopTimes,   (* from AT+QPOWD to off                                      *)
  SimTimes,    (* from the end of the boot to an initialised SIM            *)
  MaxCalls,    (* bound: calls                                              *)
  MaxFaults    (* bound: answers lost and restarts                          *)

ASSUME ModemBootAssumption ==
  /\ BootTimes \subseteq Nat \ {0} /\ StopTimes \subseteq 1..110
  /\ SimTimes \subseteq Nat /\ MaxCalls \in Nat /\ MaxFaults \in Nat
  /\ "none" \notin Firmwares

VARIABLES
  op, pc,      (* the call and its next step or result                      *)
  tries,
  rev, imei,   (* what the driver knows: "none", or what it read            *)
  heard,       (* URCs for the call's subscriber, oldest first              *)
  driver,      (* "none", "building" or "made": there is one to call; it    *)
               (* stays "building" if new fails, which drops it and the pin *)
  modem,
  quiet,       (* "yes" while nothing disturbs the call and its modem is in *)
               (* time, "slow" if only late, "lost" if an answer was lost,  *)
               (* "no" after a restart, a power key that stops the modem,   *)
               (* and for a call that found it going down                   *)
  calls, faults

vars == <<op, pc, tries, rev, imei, heard, driver, modem, quiet, calls, faults>>

Results == {"idle", "Ok", "NotResponding", "OperationTimeout", "SimError",
            "SimErrorUnknown", "panic"}
ProbeAttempts_Once == 1
ProbeAttempts == 3
EchoAttempts == 3
RevisionAttempts == 5
SimAttempts == 5
OffRounds == 10

Listens == op \in {"power_off", "test_sim"}
LessOrZero(a, b) == IF a <= b THEN 0 ELSE a - b

Init ==
  /\ op = "none" /\ pc = "idle" /\ tries = 0 /\ rev = "none" /\ imei = "none"
  /\ heard = <<>> /\ driver = "none" /\ quiet = "yes" /\ calls = 0 /\ faults = 0
  /\ modem \in [power : {"off", "on"}, left : {0}, noise : {0}, echo : {"on"},
                sim : {"ready", "pin", "absent", "puk"}, simLeft : {0},
                firmware : Firmwares]
-----------------------------------------------------------------------------
(* The modem m, n units later.                                             *)
After(m, n) ==
  CASE m.power = "booting" /\ m.left <= n ->
         [m EXCEPT !.power = "on", !.left = 0, !.noise = 2, !.echo = "on",
                   !.simLeft = LessOrZero(@, n - m.left)]
    [] m.power = "stopping" /\ m.left <= n ->
         [m EXCEPT !.power = "off", !.left = 0, !.noise = 0]
    [] m.power = "on" -> [m EXCEPT !.simLeft = LessOrZero(@, n)]
    [] OTHER -> [m EXCEPT !.left = LessOrZero(@, n)]

(* n units pass for the modem m; going off it says POWERED DOWN.           *)
Elapse(m, n) ==
  /\ modem' = After(m, n)
  /\ heard' = IF m.power = "stopping" /\ m.left <= n /\ Listens
              THEN Append(heard, "down") ELSE heard

Fault == faults < MaxFaults /\ faults' = faults + 1
NoFault == UNCHANGED <<faults, quiet>>

(* A command that leaves an answering modem as m, and its two ways out.  A *)
(* modem that is going down may still answer; a boot URC garbles the       *)
(* answer, not the command; a fault loses the answer or both.              *)
Answered(m, yes) ==
  /\ modem.power \in {"on", "stopping"} /\ modem' = m /\ pc' = yes
  /\ UNCHANGED heard /\ NoFault

Garbled(m, timeout, no) ==
  /\ modem.power = "on" /\ modem.noise > 0
  /\ Elapse([m EXCEPT !.noise = @ - 1], timeout) /\ pc' = no /\ NoFault

Unanswered(m, timeout, no) ==
  /\ \/ modem.power # "on" /\ Elapse(modem, timeout) /\ NoFault
     \/ /\ modem.power = "on" /\ Fault /\ \E n \in {modem, m} : Elapse(n, timeout)
        /\ quiet' = IF quiet = "no" THEN "no" ELSE "lost"
  /\ pc' = no

Failed(m, timeout, no) == Garbled(m, timeout, no) \/ Unanswered(m, timeout, no)

Exchange(m, timeout, yes, no) == Answered(m, yes) \/ Failed(m, timeout, no)

(* A delay, after which the call tries again unless that was the last try. *)
Retry_Uncounted(delay, attempts, again, giveUp) ==
  /\ Elapse(modem, delay) /\ NoFault
  /\ IF tries < attempts THEN UNCHANGED tries /\ pc' = again
                         ELSE tries' = 0 /\ pc' = giveUp

Retry(delay, attempts, again, giveUp) ==
  /\ Elapse(modem, delay) /\ NoFault
  /\ IF tries + 1 < attempts THEN tries' = tries + 1 /\ pc' = again
                             ELSE tries' = 0 /\ pc' = giveUp

Known == <<op, rev, imei, driver, calls>>
-----------------------------------------------------------------------------
BootBudget == 50     (* the driver's first delay                            *)
SimBudget == 50      (* three of test_sim's five attempts come later        *)

Begin(o, label) ==
  /\ pc \in Results \ {"panic"} /\ calls < MaxCalls /\ calls' = calls + 1
  /\ IF o = "new" THEN driver = "none" /\ driver' = "building"
                  ELSE driver = "made" /\ UNCHANGED driver
  /\ op' = o /\ pc' = label /\ tries' = 0 /\ heard' = <<>>
  /\ rev' = IF o = "new" THEN "none" ELSE rev
  /\ imei' = IF o = "new" THEN "none" ELSE imei
  /\ quiet' = IF modem.power = "stopping" THEN "no"
              ELSE IF modem.power = "booting" \/ modem.simLeft > SimBudget
              THEN "slow" ELSE "yes"
  /\ UNCHANGED <<modem, faults>>

(* The 500 ms pulse starts a modem that is off; one that runs ignores it   *)
(* or takes it for the order to stop.                                      *)
SendPowerKey ==
  /\ pc = "key" /\ pc' = "settle"
  /\ \/ /\ modem.power = "off"
        /\ \E t \in BootTimes, s \in SimTimes :
             /\ modem' = [modem EXCEPT !.power = "booting", !.left = t, !.simLeft = s]
             /\ quiet' = IF t > BootBudget /\ quiet = "yes" THEN "slow" ELSE quiet
        /\ UNCHANGED <<heard, faults>>
     \/ modem.power # "off" /\ Elapse(modem, 5) /\ NoFault
     \/ /\ modem.power = "on" /\ quiet' = "no"
        /\ \E t \in StopTimes :
             modem' = [modem EXCEPT !.power = "stopping", !.left = t]
        /\ UNCHANGED <<heard, faults>>
  /\ UNCHANGED <<Known, tries>>

Settle ==
  /\ pc = "settle" /\ pc' = "probe" /\ Elapse(modem, 50) /\ NoFault
  /\ UNCHANGED <<Known, tries>>

(* is_powered_on: AT, then ATE0.                                           *)
Probe ==
  \/ /\ pc = "probe" /\ Answered(modem, "echo") /\ tries' = 0 /\ UNCHANGED Known
  \/ /\ pc = "probe" /\ Failed(modem, 10, "probeWait") /\ UNCHANGED <<Known, tries>>
  \/ /\ pc = "probeWait" /\ Retry(50, ProbeAttempts, "probe", "NotResponding")
     /\ UNCHANGED Known

PoweredOn == IF op = "new" THEN "revision" ELSE "Ok"

DisableEcho ==
  \/ /\ pc = "echo" /\ Answered([modem EXCEPT !.echo = "off"], PoweredOn)
     /\ tries' = 0 /\ UNCHANGED Known
  \/ /\ pc = "echo" /\ Failed([modem EXCEPT !.echo = "off"], 10, "echoWait")
     /\ UNCHANGED <<Known, tries>>
  \/ /\ pc = "echoWait" /\ Retry(5, EchoAttempts, "echo", "NotResponding")
     /\ UNCHANGED Known

(* update_module_revision: a garbled answer may also come back empty, and  *)
(* an empty version is asked for again.                                    *)
RevisionOf(version) == IF version = "unlisted" THEN "Unknown" ELSE version

OnEmpty_Accept == "imei"
OnEmpty == "revisionWait"

UpdateModuleRevision ==
  \/ /\ pc = "revision" /\ Answered(modem, "imei")
     /\ rev' = RevisionOf(modem.firmware) /\ tries' = 0
     /\ UNCHANGED <<op, imei, driver, calls>>
  \/ /\ pc = "revision"
     /\ Failed(modem, 10, "revisionWait") \/ Garbled(modem, 0, OnEmpty)
     /\ UNCHANGED <<Known, tries>>
  \/ /\ pc = "revisionWait"
     /\ Retry(5, RevisionAttempts, "revision", "NotResponding")
     /\ UNCHANGED Known

(* update_imei: asked for once; copy_from_slice panics on an answer that   *)
(* is not 15 bytes long.                                                   *)
UpdateImei ==
  /\ pc = "imei"
  /\ \/ Answered(modem, "Ok") /\ imei' = "read" /\ driver' = "made"
     \/ /\ Failed(modem, 3, "NotResponding") \/ Garbled(modem, 0, "panic")
        /\ UNCHANGED <<imei, driver>>
  /\ UNCHANGED <<op, rev, calls, tries>>
-----------------------------------------------------------------------------
(* is_powered_off: QPOWD, ten looks at the URCs, one per round, and a      *)
(* probe that must stay without an answer.                                 *)
PowerDown ==
  /\ pc = "qpowd"
  /\ \E t \in StopTimes :
       LET down == IF modem.power = "on"
                   THEN [modem EXCEPT !.power = "stopping", !.left = t] ELSE modem
       IN Exchange(down, 3, "offWait", "NotResponding")
  /\ UNCHANGED <<Known, tries>>

EndsWait_AnyUrc == heard # <<>>
EndsWait == heard # <<>> /\ Head(heard) = "down"

AwaitPowerDown ==
  /\ pc = "offWait"
  /\ \/ EndsWait /\ pc' = "offProbe" /\ tries' = 0 /\ UNCHANGED <<heard, modem>>
     \/ /\ ~EndsWait
        /\ modem' = After(modem, 10)
        /\ heard' = (IF heard = <<>> THEN <<>> ELSE Tail(heard))
                    \o (IF modem.power = "stopping" /\ modem.left <= 10
                        THEN <<"down">> ELSE <<>>)
        /\ IF tries + 1 < OffRounds THEN tries' = tries + 1 /\ UNCHANGED pc
                                    ELSE tries' = 0 /\ pc' = "offProbe"
  /\ NoFault /\ UNCHANGED Known

ProbeOff ==
  /\ pc = "offProbe" /\ Exchange(modem, 10, "OperationTimeout", "Ok")
  /\ UNCHANGED <<Known, tries>>

IsAlive ==
  /\ pc = "alive" /\ Exchange(modem, 10, "Ok", "NotResponding")
  /\ UNCHANGED <<Known, tries>>
-----------------------------------------------------------------------------
(* test_sim: a SIM that is not ready answers with a +CME ERROR, which atat *)
(* takes for a URC, so that AT+CPIN? itself times out.                     *)
CmeError(m) == IF m.simLeft > 0 THEN {"busy"}
               ELSE CASE m.sim = "absent" -> {"cme10"} [] m.sim = "pin" -> {"cme11"}
                      [] OTHER -> {}

QuerySim ==
  /\ pc = "cpin"
  /\ \/ /\ modem.simLeft = 0
        /\ \/ modem.sim = "ready" /\ Answered(modem, "iccid")
           \/ modem.sim = "pin" /\ Answered(modem, "SimError")
           \/ modem.sim = "puk" /\ Answered(modem, "simWait")
     \/ /\ modem.power = "on" /\ modem' = After(modem, 10)
        /\ \E u \in CmeError(modem) : heard' = Append(heard, u)
        /\ pc' = "simWait" /\ NoFault
     \/ Failed(modem, 10, "simWait")
  /\ UNCHANGED <<Known, tries>>

(* The ICCID is logged; the answer does not matter.                        *)
ReadIccid ==
  /\ pc = "iccid" /\ Exchange(modem, 3, "Ok", "Ok") /\ UNCHANGED <<Known, tries>>

AwaitCmeError ==
  /\ pc = "simWait" /\ Elapse(modem, 5) /\ pc' = "simDrain" /\ NoFault
  /\ UNCHANGED <<Known, tries>>

IsSimError_AnyCme == {"cme10", "cme11", "busy"}
IsSimError == {"cme10", "cme11"}

ClassifySim ==
  /\ pc = "simDrain" /\ UNCHANGED Known
  /\ \/ /\ \E i \in DOMAIN heard : heard[i] \in IsSimError
        /\ pc' = "SimError" /\ UNCHANGED <<tries, heard, modem>> /\ NoFault
     \/ /\ \A i \in DOMAIN heard : heard[i] \notin IsSimError
        /\ NoFault /\ modem' = After(modem, 10) /\ heard' = <<>>
        /\ IF tries + 1 < SimAttempts THEN tries' = tries + 1 /\ pc' = "cpin"
                                      ELSE tries' = 0 /\ pc' = "SimErrorUnknown"
-----------------------------------------------------------------------------
(* RDY or APP RDY, or any other URC of a running modem, hits no command.   *)
Speak ==
  /\ modem.power = "on" /\ modem.noise > 0
  /\ modem' = [modem EXCEPT !.noise = @ - 1]
  /\ heard' = IF Listens /\ pc \notin Results THEN Append(heard, "other") ELSE heard
  /\ UNCHANGED <<Known, pc, tries, quiet, faults>>

Restart ==
  /\ modem.power = "on" /\ Fault /\ quiet' = "no"
  /\ \E t \in BootTimes, s \in SimTimes :
       modem' = [modem EXCEPT !.power = "booting", !.left = t, !.simLeft = s,
                              !.noise = 0]
  /\ UNCHANGED <<Known, pc, tries, heard>>

(* Time between two calls.                                                 *)
Rest ==
  /\ pc \in Results
  /\ \E n \in {modem.left, modem.simLeft} \ {0} : modem' = After(modem, n)
  /\ UNCHANGED <<Known, pc, tries, heard, quiet, faults>>

CallStep ==
  \/ SendPowerKey \/ Settle \/ Probe \/ DisableEcho
  \/ UpdateModuleRevision \/ UpdateImei
  \/ PowerDown \/ AwaitPowerDown \/ ProbeOff \/ IsAlive
  \/ QuerySim \/ ReadIccid \/ AwaitCmeError \/ ClassifySim

Next ==
  \/ Begin("new", "key") \/ Begin("power_on", "key") \/ Begin("power_off", "qpowd")
  \/ Begin("is_alive", "alive") \/ Begin("test_sim", "cpin")
  \/ CallStep
  \/ Speak \/ Restart \/ Rest

Spec == Init /\ [][Next]_vars
-----------------------------------------------------------------------------
Steps == {"key", "settle", "probe", "probeWait", "echo", "echoWait", "revision",
          "revisionWait", "imei", "qpowd", "offWait", "offProbe", "alive", "cpin",
          "iccid", "simWait", "simDrain"}

(* Types; what was read is known in the order in which new reads it.       *)
TypeOK ==
  /\ op \in {"none", "new", "power_on", "power_off", "is_alive", "test_sim"}
  /\ pc \in Steps \cup Results /\ tries \in 0..(OffRounds - 1)
  /\ heard \in Seq({"other", "down", "busy", "cme10", "cme11"})
  /\ driver \in {"none", "building", "made"} /\ quiet \in {"yes", "slow", "lost", "no"}
  /\ modem.power \in {"off", "booting", "on", "stopping"}
  /\ modem.left \in Nat /\ modem.simLeft \in Nat /\ modem.noise \in 0..2
  /\ modem.power \in {"booting", "stopping"} <=> modem.left > 0
  /\ imei \in {"none", "read"} /\ (imei = "read" => rev # "none")
  /\ driver = "made" <=> imei = "read"

(* cellular.rs:382-387, 273-275: whatever answers are lost, new and        *)
(* power_on return Ok only with a modem that answers and no longer echoes, *)
(* and new only with its IMEI and its revision, not the empty one of a     *)
(* modem still booting.                                                    *)
OkMeansReady ==
  pc = "Ok" /\ op \in {"new", "power_on"} /\ quiet # "no" =>
    /\ modem.power = "on" /\ modem.echo = "off"
    /\ op = "new" => imei = "read" /\ rev = RevisionOf(modem.firmware)

(* cellular.rs:363-364: a modem that answers within the first delay is     *)
(* brought up whichever commands RDY and APP RDY collide with, up to the   *)
(* IMEI, which is asked for once.                                          *)
BootCollisionsForgiven ==
  pc \in Results /\ op \in {"new", "power_on"} /\ quiet = "yes" =>
    pc = "Ok" \/ (op = "new" /\ rev # "none")

(* cellular.rs:408-446: unless the probe's answer is lost, power_off       *)
(* returns Ok only once the modem is off, whatever other URCs it heard, so *)
(* that the next power key starts it.                                      *)
OkMeansOff ==
  pc = "Ok" /\ op = "power_off" /\ quiet \in {"yes", "slow"} => modem.power = "off"

(* cellular.rs:475-477: test_sim calls a SIM bad only if it is absent or   *)
(* wants a PIN, ready only if it is, and gives no verdict only when there  *)
(* is none, or the SIM took longer to initialise than test_sim polls.      *)
SimVerdictIsRight ==
  op = "test_sim" =>
    /\ pc = "SimError" => modem.sim \in {"pin", "absent"}
    /\ pc = "Ok" => modem.sim = "ready"
    /\ pc = "SimErrorUnknown" /\ quiet = "yes" =>
         modem.sim = "puk" \/ modem.power = "off"

(* Every call ends (cellular.rs:277, 363, 388, 427, 486): each of its      *)
(* steps takes it further or begins another of a loop's attempts, whatever *)
(* boot URCs, CME errors, restarts and lost answers it meets.              *)
Stage(label) ==
  CASE label = "key" -> 8
    [] label = "settle" -> 7
    [] label \in {"probe", "probeWait"} -> 6
    [] label \in {"echo", "echoWait"} -> 5
    [] label \in {"revision", "revisionWait"} -> 4
    [] label \in {"imei", "qpowd"} -> 3
    [] label \in {"offWait", "cpin", "simWait", "simDrain"} -> 2
    [] label \in {"offProbe", "iccid", "alive"} -> 1
    [] label \in Results -> 0

(* Where in the body of its loop.                                          *)
Within(label) ==
  CASE label \in {"probe", "echo", "revision", "cpin"} -> 2
    [] label = "simWait" -> 1
    [] OTHER -> 0

CallsEnd ==
  [][pc \notin Results =>
       \/ Stage(pc') < Stage(pc)
       \/ /\ Stage(pc') = Stage(pc)
          /\ \/ tries < tries' /\ tries' < OffRounds
             \/ tries' = tries /\ Within(pc') < Within(pc)
       \/ ~CallStep /\ UNCHANGED <<pc, tries>>]_vars
=============================================================================
