----------------------------- MODULE DataSession -----------------------------
(***************************************************************************)
(* A program that takes the modem online over AT commands, uses it and     *)
(* leaves: the main functions under src/examples/ as the order in which    *)
(* they call QuectelBG9X (src/src/cellular.rs) and what they do with an    *)
(* Err, and the calls with no module of their own: PDP context, clock,     *)
(* signal, GNSS, radio.  Power, SIM, attach, settings and the use of the   *)
(* connection are one step here and modelled in ModemBoot, NetworkAttach,  *)
(* ModemConfiguration, TcpSockets, FileTransfer and MqttSession.  A        *)
(* program may panic at an unwrap or be stopped anywhere, and the same or  *)
(* another one is then started on the modem it left.                       *)
(***************************************************************************)
EXTENDS Naturals, Sequences

CONSTANTS
  Programs,    (* names of the examples that may run                        *)
  MaxRuns,     (* bound: programs started                                   *)
  MaxFaults    (* bound: refused commands, lost answers and other mishaps   *)

ASSUME DataSessionAssumption ==
  /\ Programs \subseteq {"tcp_socket", "http_get_tls", "connect_mqtt", "esp32_mqtt"}
  /\ MaxRuns \in Nat /\ MaxFaults \in Nat

VARIABLES
  name, todo,  (* the program, and the calls it has still to make           *)
  pc,          (* where the first of them is                                *)
  status,      (* "running", "panicked", or "ended"                         *)
  looks,       (* times this program called get_gnss_location               *)
  hit,         (* "yes" once a mishap touched this run, "no" before         *)
  modem,
  asked,       (* NTP requests the modem has still to report on             *)
  sub,         (* "live" while get_ntp_time has a subscriber                *)
  inbox,       (* the NTP reports in it, and when each came                 *)
  clock,       (* when the report came whose time get_ntp_time returned     *)
  runs, faults

program == <<name, todo, status, looks, runs>>
ntp == <<asked, sub, inbox, clock>>
vars == <<program, pc, hit, modem, ntp, faults>>

Reports == {"ok", "error", "unparsable"}
Fresh == [power |-> "on", radio |-> "on", registered |-> "no", gnss |-> "off",
          conf |-> "blank", context |-> "inactive"]
-----------------------------------------------------------------------------
(* The programs.  An Err is unwrapped, or only logged.                     *)
Must(call) == <<call, "unwrap">>
May(call) == <<call, "log">>

TcpSocket ==
  <<Must("is_alive"), Must("radio_on"), May("test_sim"), Must("set_modem_configuration"),
    Must("set_context_configuration"), Must("network_attach"), Must("get_signal_strength"),
    Must("context_activate"), Must("use"), Must("context_deactivate"), Must("power_off")>>

HttpGetTls ==
  <<Must("is_alive"), Must("radio_on"), May("test_sim"), Must("set_modem_configuration"),
    Must("set_context_configuration"), Must("network_attach"), Must("get_signal_strength"),
    Must("context_activate"), May("get_ntp_time"), Must("use"), Must("context_deactivate"),
    Must("power_off")>>

ConnectMqtt ==
  <<Must("is_alive"), May("test_sim"), Must("radio_off"), Must("set_modem_configuration"),
    Must("set_context_configuration"), Must("radio_on"), Must("network_attach"),
    Must("get_signal_strength"), May("get_nitz_time"), Must("context_activate"),
    May("get_ntp_time"), May("use"), Must("context_deactivate"), Must("power_off")>>

Esp32Mqtt ==
  <<Must("is_alive"), May("test_sim"), Must("radio_off"), Must("set_modem_configuration"),
    May("configure_gnss_priority"), Must("radio_on"), Must("network_attach"),
    Must("get_signal_strength"), Must("set_context_configuration"), May("get_nitz_time"),
    Must("context_activate"), May("get_ntp_time"), May("use"), Must("turn_on_gnss"),
    Must("get_gnss_location"), Must("turn_off_gnss"), Must("context_deactivate"),
    Must("power_off")>>

Script(p) ==
  CASE p = "tcp_socket" -> TcpSocket
    [] p = "http_get_tls" -> HttpGetTls
    [] p = "connect_mqtt" -> ConnectMqtt
    [] p = "esp32_mqtt" -> Esp32Mqtt

(* What is left to do when the SIM is not ready.                           *)
SimFailed(p) ==
  IF p \in {"tcp_socket", "http_get_tls"} THEN <<May("power_off")>>
  ELSE <<Must("context_deactivate"), Must("power_off")>>

Init ==
  /\ name = "none" /\ todo = <<>> /\ pc = "call" /\ status = "ended" /\ looks = 0
  /\ hit = "no" /\ modem = [Fresh EXCEPT !.power = "off"]
  /\ asked = 0 /\ sub = "none" /\ inbox = <<>> /\ clock = "none" /\ runs = 0 /\ faults = 0

(* What was the last program's is another's.                               *)
Disowned(apn) == IF apn = "mine" THEN "other" ELSE apn

(* The modem was off, or new found it running and left it so, or its power *)
(* key pulse restarted it.  The ESP32 takes its power away first.          *)
Start(p) ==
  /\ status # "running" /\ runs < MaxRuns /\ runs' = runs + 1
  /\ name' = p /\ todo' = Script(p) /\ status' = "running" /\ pc' = "call" /\ looks' = 0
  /\ hit' = "no" /\ sub' = "none" /\ inbox' = <<>> /\ clock' = "none"
  /\ \/ modem' = Fresh /\ asked' = 0
     \/ /\ modem.power = "on" /\ p # "esp32_mqtt" /\ UNCHANGED asked
        /\ modem' = [modem EXCEPT !.conf = Disowned(@), !.context = Disowned(@)]
  /\ UNCHANGED faults

(* The host loses its power or is reset.                                   *)
Stopped ==
  /\ status = "running" /\ status' = "panicked" /\ hit' = "yes"
  /\ UNCHANGED <<name, todo, looks, runs, pc, modem, ntp, faults>>
-----------------------------------------------------------------------------
Doing(call, where) ==
  status = "running" /\ Head(todo)[1] = call /\ pc = where

Mishap == faults < MaxFaults /\ faults' = faults + 1 /\ hit' = "yes"
NoMishap == UNCHANGED <<faults, hit>>
Same == UNCHANGED <<name, looks, runs>>

Ok ==
  /\ pc' = "call" /\ todo' = Tail(todo)
  /\ status' = IF Len(todo) = 1 THEN "ended" ELSE "running"
  /\ Same

Panic == status' = "panicked" /\ pc' = "call" /\ UNCHANGED todo /\ Same

SimFails ==
  /\ todo' = SimFailed(name) /\ pc' = "call" /\ UNCHANGED status /\ Same

Err ==
  IF Head(todo)[1] = "test_sim" THEN SimFails
  ELSE IF Head(todo)[2] = "log" THEN Ok ELSE Panic

Inside(where) == pc' = where /\ UNCHANGED <<todo, status>> /\ Same

(* What a command leaves of the modem m, and when the modem refuses it.    *)
Does(command, m) ==
  CASE command = "radio_on" -> [m EXCEPT !.radio = "on"]
    [] command = "radio_off" ->
         [m EXCEPT !.radio = "off", !.registered = "no", !.context = "inactive"]
    [] command = "network_attach" -> [m EXCEPT !.registered = "yes"]
    [] command = "QICSGP" -> [m EXCEPT !.conf = "mine"]
    [] command = "QIDEACT" -> [m EXCEPT !.context = "inactive"]
    [] command = "QIACT" -> [m EXCEPT !.context = m.conf]
    [] command = "QGPS" -> [m EXCEPT !.gnss = "searching"]
    [] command = "QGPSEND" -> [m EXCEPT !.gnss = "off"]
    [] command = "power_off" ->
         [Fresh EXCEPT !.power = "off"]
    [] OTHER -> m

Refuses(command, m) ==
  \/ command = "network_attach" /\ m.radio = "off"
  \/ command = "QIACT" /\ (m.context # "inactive" \/ m.registered = "no")
  \/ command = "QGPS" /\ m.gnss # "off"
  \/ command = "QGPSLOC" /\ m.gnss # "fixed"
  \/ command = "use" /\ m.context = "inactive"

Accepted(command) ==
  ~Refuses(command, modem) /\ modem' = Does(command, modem) /\ NoMishap

(* Refused, garbled on the way, or only the answer lost.                   *)
Failed(command) ==
  \/ Refuses(command, modem) /\ UNCHANGED modem /\ NoMishap
  \/ ~Refuses(command, modem) /\ modem' \in {modem, Does(command, modem)} /\ Mishap

(* A call that is one command, or modelled elsewhere.                      *)
Exchange(call, command) ==
  /\ Doing(call, "call")
  /\ \/ Accepted(command) /\ Ok
     \/ Failed(command) /\ Err
  /\ UNCHANGED ntp

SetModemFunctionality == \E on \in {"radio_on", "radio_off"} : Exchange(on, on)
SetContextConfiguration == Exchange("set_context_configuration", "QICSGP")
ConfigureGnssPriority == Exchange("configure_gnss_priority", "QGPSCFG")
TurnOnGnss == Exchange("turn_on_gnss", "QGPS")
TurnOffGnss == Exchange("turn_off_gnss", "QGPSEND")
ContextDeactivate == Exchange("context_deactivate", "QIDEACT")

Elsewhere == {"is_alive", "test_sim", "set_modem_configuration", "network_attach", "use",
              "power_off"}

(* Without a network the modem may answer and give no RSSI.                *)
GetSignalStrength ==
  /\ Doing("get_signal_strength", "call") /\ UNCHANGED <<modem, ntp>>
  /\ \/ NoMishap /\ Ok
     \/ modem.registered = "no" /\ NoMishap /\ Err
     \/ Mishap /\ Err

ContextClear_Skip ==
  /\ Doing("context_activate", "call") /\ Inside("activate")
  /\ UNCHANGED modem /\ NoMishap /\ UNCHANGED ntp

(* context_activate: whether it could be deactivated does not matter.      *)
ContextClear ==
  /\ Doing("context_activate", "call") /\ Inside("activate")
  /\ Accepted("QIDEACT") \/ Failed("QIDEACT")
  /\ UNCHANGED ntp

ContextActivate_Leftover ==
  /\ Doing("context_activate", "activate")
  /\ \/ Accepted("QIACT") /\ Inside("info")
     \/ Failed("QIACT") /\ IF modem.context # "inactive" THEN Inside("info") ELSE Err
  /\ UNCHANGED ntp

ContextActivate ==
  /\ Doing("context_activate", "activate")
  /\ \/ Accepted("QIACT") /\ Inside("info")
     \/ Failed("QIACT") /\ Err
  /\ UNCHANGED ntp

(* AT+QIACT? lists active contexts: with none the answer does not parse.   *)
ContextListed == modem.context # "inactive"

ContextInfo ==
  /\ Doing("context_activate", "info") /\ UNCHANGED <<modem, ntp>>
  /\ \/ ContextListed /\ NoMishap /\ Ok
     \/ ~ContextListed /\ NoMishap /\ Err
     \/ ContextListed /\ Mishap /\ Err

(* The string of AT+QLTS=1 is parsed with an unwrap: one that does not fit *)
(* the format kills a program that would only have logged the Err.         *)
NitzUnparsable == Mishap /\ Panic

NitzTime ==
  /\ Doing("get_nitz_time", "call") /\ UNCHANGED <<modem, ntp>>
  /\ \/ NoMishap /\ Ok
     \/ Mishap /\ Err
     \/ NitzUnparsable

(* get_ntp_time subscribes only after its command was answered, and reads  *)
(* the tick count it returns with the time when a report wakes it.         *)
NtpAsk_Early ==
  /\ Doing("get_ntp_time", "call") /\ UNCHANGED <<modem, clock>>
  /\ \/ asked' = asked + 1 /\ inbox' = <<>> /\ sub' = "live" /\ NoMishap /\ Inside("asked")
     \/ asked' \in {asked, asked + 1} /\ UNCHANGED <<inbox, sub>> /\ Mishap /\ Err

NtpAsk ==
  /\ Doing("get_ntp_time", "call") /\ UNCHANGED <<modem, inbox, sub, clock>>
  /\ \/ asked' = asked + 1 /\ NoMishap /\ Inside("asked")
     \/ asked' \in {asked, asked + 1} /\ Mishap /\ Err

NtpSubscribe ==
  /\ Doing("get_ntp_time", "asked") /\ NoMishap /\ Inside("wait")
  /\ sub' = "live" /\ UNCHANGED <<modem, asked, inbox, clock>>

NtpTake ==
  /\ Doing("get_ntp_time", "wait") /\ inbox # <<>> /\ NoMishap
  /\ inbox' = <<>> /\ sub' = "none" /\ UNCHANGED <<modem, asked>>
  /\ IF Head(inbox).says = "ok" THEN clock' = Head(inbox).came /\ Ok
                                ELSE UNCHANGED clock /\ Err

(* After 10 s; a report whose fields do not parse is never seen.           *)
NtpExpire ==
  /\ Doing("get_ntp_time", "wait") /\ inbox = <<>> /\ NoMishap
  /\ Err /\ sub' = "none" /\ UNCHANGED <<modem, asked, inbox, clock>>

(* The esp32 program's loop: three looks; another Err than GnssNotFixed    *)
(* turns the modem off and panics.                                         *)
LooksWanted == 3
Look(next) == looks' = looks + 1 /\ pc' = next /\ UNCHANGED <<name, runs, todo, status>>

NotFixed ==
  /\ IF looks + 1 < LooksWanted THEN Look("call")
     ELSE /\ looks' = looks + 1 /\ pc' = "call" /\ todo' = Tail(todo)
          /\ UNCHANGED <<name, runs, status>>

GnssQuality ==
  /\ Doing("get_gnss_location", "call") /\ UNCHANGED <<modem, ntp>>
  /\ \/ modem.gnss = "fixed" /\ NoMishap /\ Look("locate")
     \/ modem.gnss # "fixed" /\ NoMishap /\ NotFixed
     \/ Mishap /\ Look("off")

GnssLocate ==
  /\ Doing("get_gnss_location", "locate") /\ UNCHANGED ntp
  /\ \/ Accepted("QGPSLOC") /\ Ok
     \/ Failed("QGPSLOC") /\ Inside("off")

GnssGiveUp ==
  /\ Doing("get_gnss_location", "off") /\ UNCHANGED ntp
  /\ Accepted("power_off") \/ Failed("power_off")
  /\ Panic
-----------------------------------------------------------------------------
(* The modem: it reports on a request, the running call's or an earlier    *)
(* one's (no report says which, and the call takes either), fixes a        *)
(* position, and loses its network, its fix, or everything.                *)
NtpReport(report) ==
  /\ asked > 0 /\ asked' = asked - 1
  /\ inbox' = IF sub = "none" THEN inbox
              ELSE Append(inbox, [says |-> report,
                                  came |-> IF pc = "wait" THEN "in the wait" ELSE "before"])
  /\ UNCHANGED <<program, pc, hit, modem, sub, clock, faults>>

Fix ==
  /\ modem.gnss = "searching" /\ modem' = [modem EXCEPT !.gnss = "fixed"]
  /\ UNCHANGED <<program, pc, hit, ntp, faults>>

Drop ==
  /\ modem.power = "on" /\ Mishap
  /\ \/ /\ modem' = [modem EXCEPT !.registered = "no", !.context = "inactive"]
        /\ UNCHANGED asked
     \/ /\ modem' = [modem EXCEPT !.gnss = IF @ = "fixed" THEN "searching" ELSE @]
        /\ UNCHANGED asked
     \/ modem' = Fresh /\ asked' = 0
  /\ UNCHANGED <<program, pc, sub, inbox, clock>>

Next ==
  \/ \E p \in Programs : Start(p)
  \/ Stopped
  \/ \E call \in Elsewhere : Exchange(call, call)
  \/ SetModemFunctionality \/ SetContextConfiguration \/ GetSignalStrength
  \/ ConfigureGnssPriority \/ TurnOnGnss \/ TurnOffGnss
  \/ ContextDeactivate \/ ContextClear \/ ContextActivate \/ ContextInfo
  \/ NitzTime \/ NtpAsk \/ NtpSubscribe \/ NtpTake \/ NtpExpire
  \/ GnssQuality \/ GnssLocate \/ GnssGiveUp
  \/ \E report \in Reports : NtpReport(report)
  \/ Fix \/ Drop

Spec == Init /\ [][Next]_vars
-----------------------------------------------------------------------------
(* Types, and a program that ended made all its calls.                     *)
TypeOK ==
  /\ name \in Programs \cup {"none"} /\ looks \in 0..LooksWanted
  /\ pc \in {"call", "activate", "info", "asked", "wait", "locate", "off"}
  /\ status \in {"running", "panicked", "ended"} /\ hit \in {"yes", "no"}
  /\ status = "ended" <=> todo = <<>>
  /\ modem \in [power : {"off", "on"}, radio : {"off", "on"}, registered : {"no", "yes"},
                gnss : {"off", "searching", "fixed"}, conf : {"blank", "other", "mine"},
                context : {"inactive", "blank", "other", "mine"}]
  /\ asked \in Nat /\ sub \in {"none", "live"}
  /\ sub = "live" => Doing("get_ntp_time", "wait") \/ status = "panicked"
  /\ inbox \in Seq([says : Reports, came : {"before", "in the wait"}])
  /\ clock \in {"none", "before", "in the wait"} /\ runs \in Nat /\ faults \in Nat

(* A program that has come as far as its sockets or its broker uses a      *)
(* context activated with the APN it configured itself (or, if the modem   *)
(* lost it since, with none), and never one that an earlier program        *)
(* activated and died on (cellular.rs:1113-1132).                          *)
UseIsOnOwnContext ==
  Doing("use", "call") => modem.context # "other"

(* Whatever a program that panicked or was stopped anywhere left on the    *)
(* modem, an active context, a radio off, a GNSS on, a request or a        *)
(* half-done configuration, the next one that meets no mishap of its own   *)
(* runs to its end: no call it unwraps is refused because of what it found *)
(* (cellular.rs:1113-1122, connect_and_send_mqtt.rs:97-102 of the ESP32).  *)
LeftoverNeverKills == hit = "no" => status # "panicked"

(* The tick count get_ntp_time returns was read when the report came whose *)
(* time it returns ("CAPTURE TIME IMMEDIATELY", cellular.rs:787): that     *)
(* report was not lying in a queue while the call was still busy with its  *)
(* command.  It may be the late report of an earlier request.              *)
ClockPairIsOfOneMoment == clock # "before"
=============================================================================
