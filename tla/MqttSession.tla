---------------------------- MODULE MqttSession ----------------------------
(***************************************************************************)
(* The MQTT calls of QuectelBG9X and the SSL flag they rely on             *)
(* (src/src/cellular.rs): mqtt_connect, mqtt_publish, mqtt_disconnect,     *)
(* configure_ssl_context, factory_reset, reset_ssl_context.  Every wait    *)
(* for a result is a loop of rounds that looks at one URC each.  The calls *)
(* take &mut self: one runs at a time; the modem does not wait for it.     *)
(***************************************************************************)
EXTENDS Naturals, Sequences

CONSTANTS
  Revisions,   (* of the modem that may be at hand: "R200", "other"         *)
  Contexts,    (* SSL contexts                                              *)
  Rounds,      (* rounds of 500 ms in a wait: 10, or 20 where it is 10 s    *)
  MaxCalls,    (* bound: calls                                              *)
  MaxNoise,    (* bound: URCs of other kinds                                *)
  MaxFaults    (* bound: failures                                           *)

ASSUME MqttSessionAssumption ==
  /\ Revisions \subseteq {"R200", "other"} /\ "plain" \notin Contexts
  /\ Rounds \in Nat \ {0} /\ {MaxCalls, MaxNoise, MaxFaults} \subseteq Nat

VARIABLES
  pc,          (* the command to send or the wait the running call is in    *)
  ctx,         (* the SSL context of a mqtt_connect, or "plain"             *)
  round,       (* rounds of the current wait gone by                        *)
  late,        (* "yes" if a wait of this call has expired                  *)
  op,          (* the last call, named by its first MQTT command or none    *)
  gained,      (* kinds of success report it acted on                       *)
  result,      (* what it returned: "none", "Ok", "Err"                     *)
  heard,       (* the URCs in the call's subscriber                         *)
  subscribed,  (* "yes" while the call has one                              *)
  rev,         (* self.rev, read from the modem by new                      *)
  flag,        (* ssl_configured: "yes" or "no"                             *)
  conf,        (* the modem's contexts: "none", "partial", "full"           *)
  lostReset,   (* "yes" once the answer to a factory reset was lost         *)
  link,        (* the modem's MQTT client                                   *)
  inFlight,    (* publishes the modem has not reported on                   *)
  acks,        (* success reports the modem has made, of each kind          *)
  used,        (* success reports the driver has acted on                   *)
  calls, noise, faults

call == <<pc, ctx, round, late, op, gained, result>>
ssl == <<flag, conf, lostReset>>
modem == <<link, inFlight, acks>>
bounds == <<rev, calls, noise, faults>>
vars == <<call, heard, subscribed, ssl, modem, used, bounds>>

Kinds == {"open", "connect", "publish", "disconnect", "status", "close"}
None == [k \in Kinds |-> 0]

Init ==
  /\ pc = "idle" /\ ctx = "plain" /\ round = 0 /\ late = "no"
  /\ op = "none" /\ gained = {} /\ result = "none"
  /\ heard = <<>> /\ subscribed = "no"
  /\ rev \in Revisions /\ flag = "no" /\ conf = [c \in Contexts |-> "none"] /\ lostReset = "no"
  /\ link = "none" /\ inFlight = 0 /\ acks = None /\ used = None
  /\ calls = 0 /\ noise = 0 /\ faults = 0

Fault == faults < MaxFaults /\ faults' = faults + 1

Urc(kind, ok) == [kind |-> kind, ok |-> ok]
Publish(m) ==
  heard' = IF subscribed = "yes" THEN Append(heard, m) ELSE heard

Return(r) ==
  /\ pc' = "idle" /\ result' = r
  /\ subscribed' = "no" /\ heard' = <<>>
  /\ UNCHANGED <<ctx, round, late, op, gained>>
-----------------------------------------------------------------------------
(* The caller.  A call subscribes before it sends its first MQTT command;  *)
(* mqtt_connect does so after the SSL commands.                            *)
Call(label, c) ==
  /\ pc = "idle" /\ calls < MaxCalls
  /\ calls' = calls + 1
  /\ pc' = label /\ ctx' = c /\ round' = 0 /\ late' = "no"
  /\ op' = (IF label \in {"publish", "disconnect"} THEN label
            ELSE IF label \in {"configureOnly", "factoryReset"} THEN "none"
            ELSE "connect")
  /\ gained' = {} /\ result' = "none"
  /\ UNCHANGED <<ssl, modem, used, rev, noise, faults>>

MqttConnectCall(c) ==
  /\ \/ /\ c = "plain" /\ Call("open", c)
        /\ subscribed' = "yes" /\ heard' = <<>>
     \/ /\ c \in Contexts
        /\ Call(IF flag = "yes" THEN "sslEnable" ELSE "configure", c)
        /\ UNCHANGED <<subscribed, heard>>

MqttCall(label) ==
  /\ Call(label, "plain") /\ subscribed' = "yes" /\ heard' = <<>>

DirectCall(label, c) == Call(label, c) /\ UNCHANGED <<subscribed, heard>>

(* reset_ssl_context sends nothing.                                        *)
ResetSslContext ==
  /\ pc = "idle" /\ flag = "yes" /\ flag' = "no"
  /\ UNCHANGED <<call, heard, subscribed, conf, lostReset, modem, used, bounds>>
-----------------------------------------------------------------------------
(* configure_ssl_context: its checks of the files, its commands, its flag. *)
(* An error leaves the flag as it was and the context as far as it got.    *)
Configured(label) ==
  /\ conf' = [conf EXCEPT ![ctx] = "full"] /\ flag' = "yes"
  /\ UNCHANGED faults
  /\ \/ label = "idle" /\ Return("Ok")
     \/ label # "idle" /\ pc' = label
        /\ UNCHANGED <<ctx, round, late, op, gained, result, heard, subscribed>>

ConfigureFails ==
  /\ Fault
  /\ \/ UNCHANGED conf
     \/ conf' = [conf EXCEPT ![ctx] = "partial"]
  /\ UNCHANGED flag /\ Return("Err")

Configure ==
  /\ \/ pc = "configure" /\ (Configured("sslEnable") \/ ConfigureFails)
     \/ pc = "configureOnly" /\ (Configured("idle") \/ ConfigureFails)
  /\ UNCHANGED <<lostReset, modem, used, rev, calls, noise>>

SslEnable ==
  /\ pc = "sslEnable"
  /\ \/ /\ pc' = "open" /\ subscribed' = "yes" /\ heard' = <<>>
        /\ UNCHANGED <<ctx, round, late, op, gained, result, faults>>
     \/ Fault /\ Return("Err")
  /\ UNCHANGED <<ssl, modem, used, rev, calls, noise>>

(* factory_reset: two commands; the flag is cleared with the second OK.    *)
FactoryReset_KeepsFlag ==
  /\ pc = "factoryReset"
  /\ conf' = [c \in Contexts |-> "none"] /\ Return("Ok")
  /\ UNCHANGED <<flag, lostReset, modem, used, bounds>>

FactoryReset ==
  /\ pc = "factoryReset"
  /\ \/ /\ conf' = [c \in Contexts |-> "none"] /\ flag' = "no" /\ Return("Ok")
        /\ UNCHANGED <<lostReset, faults>>
     \/ Fault /\ Return("Err") /\ UNCHANGED ssl
     \/ /\ Fault /\ Return("Err")
        /\ conf' = [c \in Contexts |-> "none"] /\ lostReset' = "yes"
        /\ UNCHANGED flag
  /\ UNCHANGED <<modem, used, rev, calls, noise>>
-----------------------------------------------------------------------------
(* The commands, out of order refused, and what the modem makes of one.    *)
Refused(command) ==
  \/ command = "connect" /\ link # "open"
  \/ command \in {"publish", "disconnect"} /\ link # "connected"
  \/ command = "close" /\ link = "none"

Then == [open |-> "opening", connect |-> "connecting", publish |-> "connected",
         disconnect |-> "disconnecting", close |-> "closing"]

Takes(command) ==
  /\ ~Refused(command) /\ (command = "open" => link = "none")
  /\ link' = Then[command]
  /\ inFlight' = IF command = "publish" THEN inFlight + 1 ELSE inFlight
  /\ UNCHANGED acks

Sends(command, wait) ==
  /\ pc = command /\ pc' = wait /\ round' = 0
  /\ UNCHANGED <<ctx, late, op, gained, result, subscribed, ssl, used, bounds>>

(* A busy client answers OK and reports "identifier occupied".             *)
SendOpen ==
  /\ Sends("open", "openWait")
  /\ \/ Takes("open") /\ UNCHANGED heard
     \/ link # "none" /\ Publish(Urc("open", "no")) /\ UNCHANGED modem
SendConnect == Sends("connect", "connectWait") /\ Takes("connect") /\ UNCHANGED heard
SendPublish == Sends("publish", "publishWait") /\ Takes("publish") /\ UNCHANGED heard
SendDisconnect ==
  Sends("disconnect", "disconnectWait") /\ Takes("disconnect") /\ UNCHANGED heard
SendClose == Sends("close", "closeWait") /\ Takes("close") /\ UNCHANGED heard

(* Refused, garbled on the way, or only the OK lost: NotResponding.  The   *)
(* modem then goes on alone, and reports when nobody listens or to a later *)
(* call.                                                                   *)
CommandFails ==
  /\ pc \in Kinds \ {"status"}
  /\ \/ Refused(pc) /\ UNCHANGED <<modem, faults>>
     \/ Fault /\ UNCHANGED modem
     \/ Fault /\ Takes(pc)
  /\ Return("Err")
  /\ UNCHANGED <<ssl, used, rev, calls, noise>>
-----------------------------------------------------------------------------
(* The waits: the kind each looks for, and where it goes on success.       *)
Wait == [openWait |-> "open", connectWait |-> "connect",
         publishWait |-> "publish", disconnectWait |-> "disconnect",
         statusWait |-> "status", closeWait |-> "close"]

Goes_Skipping(label) ==
  /\ IF label = "connect" THEN pc' = "idle" /\ result' = "Ok" /\ subscribed' = "no"
     ELSE pc' = label /\ UNCHANGED <<result, subscribed>>
  /\ round' = 0 /\ UNCHANGED ctx

Goes(label) ==
  /\ pc' = label /\ round' = 0
  /\ UNCHANGED <<ctx, result, subscribed>>

(* The first two waits go on, the others end the call, except that R200    *)
(* follows a disconnect with the wait for its status, and an expired one   *)
(* with a close.                                                           *)
Onward(expired) ==
  \/ pc = "openWait" /\ Goes("connect")
  \/ pc = "disconnectWait" /\ rev = "R200" /\ Goes("statusWait")
  \/ pc = "statusWait" /\ expired /\ Goes("close")
  \/ /\ \/ pc \in {"connectWait", "publishWait", "closeWait"}
        \/ pc = "disconnectWait" /\ rev # "R200"
        \/ pc = "statusWait" /\ ~expired
     /\ pc' = "idle" /\ result' = "Ok" /\ subscribed' = "no"
     /\ UNCHANGED <<ctx, round>>

(* One round: the oldest URC ends the wait if it is the one looked for.    *)
Answered(m) == m.kind = Wait[pc]

Succeeds_AnyResult(m) == m.kind = Wait[pc]
Succeeds(m) == m.kind = Wait[pc] /\ m.ok = "yes"

Passes_OnSilence == round' = IF heard = <<>> THEN round + 1 ELSE round
Passes == round' = round + 1

Rest == IF heard = <<>> THEN heard ELSE Tail(heard)

Poll ==
  /\ pc \in DOMAIN Wait /\ round < Rounds
  /\ \/ /\ heard # <<>> /\ Succeeds(Head(heard))
        /\ used' = [used EXCEPT ![Wait[pc]] = @ + 1]
        /\ gained' = gained \cup {Wait[pc]}
        /\ Onward(FALSE) /\ UNCHANGED late
        /\ heard' = IF subscribed' = "no" THEN <<>> ELSE Rest
     \/ /\ heard # <<>> /\ Answered(Head(heard)) /\ ~Succeeds(Head(heard))
        /\ Return("Err") /\ UNCHANGED used
     \/ /\ heard # <<>> => ~Answered(Head(heard))
        /\ Passes /\ heard' = Rest
        /\ UNCHANGED <<pc, ctx, late, gained, result, subscribed, used>>
  /\ UNCHANGED <<op, ssl, modem, bounds>>

(* A wait that expires is not an error.                                    *)
Expire ==
  /\ pc \in DOMAIN Wait /\ round = Rounds
  /\ late' = "yes" /\ Onward(TRUE)
  /\ heard' = IF subscribed' = "no" THEN <<>> ELSE heard
  /\ UNCHANGED <<op, gained, ssl, modem, used, bounds>>
-----------------------------------------------------------------------------
(* The modem and the broker.                                               *)
Report(kind, from, to) ==
  /\ link = from /\ link' = to
  /\ acks' = [acks EXCEPT ![kind] = @ + 1]
  /\ Publish(Urc(kind, "yes"))
  /\ UNCHANGED <<inFlight, faults>>

Rejects(kind, from, to) ==
  /\ link = from /\ link' = to /\ Fault
  /\ Publish(Urc(kind, "no"))
  /\ UNCHANGED <<inFlight, acks>>

PublishReport ==
  /\ inFlight > 0 /\ inFlight' = inFlight - 1 /\ UNCHANGED link
  /\ \/ /\ acks' = [acks EXCEPT !["publish"] = @ + 1] /\ UNCHANGED faults
        /\ Publish(Urc("publish", "yes"))
     \/ Fault /\ Publish(Urc("publish", "no")) /\ UNCHANGED acks

(* R200 says that it has disconnected with a status URC too.               *)
Disconnected ==
  /\ link = "disconnecting" /\ link' = "none"
  /\ IF rev = "R200"
     THEN /\ acks' = [acks EXCEPT !["disconnect"] = @ + 1, !["status"] = @ + 1]
          /\ heard' = IF subscribed = "yes"
                      THEN heard \o <<Urc("disconnect", "yes"),
                                      Urc("status", "yes")>>
                      ELSE heard
     ELSE /\ acks' = [acks EXCEPT !["disconnect"] = @ + 1]
          /\ Publish(Urc("disconnect", "yes"))
  /\ UNCHANGED <<inFlight, faults>>

LinkLost ==
  /\ link \in {"open", "connected"} /\ link' = "none" /\ Fault
  /\ Publish(Urc("status", "no"))
  /\ UNCHANGED <<inFlight, acks>>

OtherUrc ==
  /\ noise < MaxNoise /\ noise' = noise + 1
  /\ subscribed = "yes" /\ heard' = Append(heard, Urc("other", "yes"))
  /\ UNCHANGED <<modem, faults>>

ModemStep ==
  /\ \/ /\ \/ Report("open", "opening", "open")
           \/ Rejects("open", "opening", "none")
           \/ Report("connect", "connecting", "connected")
           \/ Rejects("connect", "connecting", "none")
           \/ Report("close", "closing", "none")
           \/ PublishReport \/ Disconnected \/ LinkLost
        /\ UNCHANGED noise
     \/ OtherUrc
  /\ UNCHANGED <<call, subscribed, ssl, used, rev, calls>>

CallStep ==
  \/ Configure \/ SslEnable \/ FactoryReset
  \/ SendOpen \/ SendConnect \/ SendPublish \/ SendDisconnect \/ SendClose
  \/ CommandFails \/ Poll \/ Expire

Next ==
  \/ \E c \in Contexts \cup {"plain"} : MqttConnectCall(c)
  \/ \E l \in {"publish", "disconnect"} : MqttCall(l)
  \/ \E c \in Contexts : DirectCall("configureOnly", c)
  \/ DirectCall("factoryReset", "plain") \/ ResetSslContext
  \/ CallStep \/ ModemStep

Spec == Init /\ [][Next]_vars
-----------------------------------------------------------------------------
Labels == {"idle", "configure", "configureOnly", "sslEnable", "factoryReset"}
            \cup (Kinds \ {"status"}) \cup DOMAIN Wait

(* Types; a call that waits for a URC subscribed before it sent a command. *)
TypeOK ==
  /\ rev \in Revisions /\ pc \in Labels /\ ctx \in Contexts \cup {"plain"}
  /\ round \in 0..Rounds /\ late \in {"yes", "no"}
  /\ op \in {"none", "connect", "publish", "disconnect"} /\ gained \subseteq Kinds
  /\ result \in {"none", "Ok", "Err"} /\ subscribed \in {"yes", "no"}
  /\ heard \in Seq([kind : Kinds \cup {"other"}, ok : {"yes", "no"}])
  /\ flag \in {"yes", "no"} /\ lostReset \in {"yes", "no"}
  /\ conf \in [Contexts -> {"none", "partial", "full"}]
  /\ inFlight \in Nat /\ acks \in [Kinds -> Nat] /\ used \in [Kinds -> Nat]
  /\ pc \in DOMAIN Wait \cup Kinds => subscribed = "yes"
  /\ pc = "idle" => subscribed = "no" /\ heard = <<>>
  /\ pc \in {"configure", "configureOnly", "sslEnable"} => ctx \in Contexts

(* Every success the driver acts on is a report the modem made and no      *)
(* other success was taken from: late reports of calls given up, refusals  *)
(* and other URCs never add one (cellular.rs:1345-1399, 1420-1489,         *)
(* 1516-1546, 1650-1677).                                                  *)
NoForgedSuccess == \A k \in Kinds : used[k] <= acks[k]

(* A call whose waits did not expire returns Ok only if this very call saw *)
(* every success report it needs, in the face of refusals, other URCs and  *)
(* reports that come in an order of their own.                             *)
Needs(o) == IF o = "connect" THEN {"open", "connect"}
            ELSE IF o = "none" THEN {} ELSE {o}

OkIsReported ==
  pc = "idle" /\ result = "Ok" /\ late = "no" => Needs(op) \subseteq gained

(* cellular.rs:577: MQTT over TLS is not set up on a modem whose contexts  *)
(* were all cleared by a factory reset and not configured since, unless    *)
(* the reset's answer was lost.                                            *)
SslAfterConfigure ==
  pc = "sslEnable" /\ lostReset = "no" =>
    \E c \in Contexts : conf[c] # "none"

(* Every call ends (cellular.rs:1347, 1429, 1514, 1547, 1583, 1648): each  *)
(* of its steps takes it further or uses a round of its wait up, whatever  *)
(* URCs keep coming and whichever of its waits expire.                     *)
Stage(label) ==
  CASE label \in {"configure", "configureOnly", "disconnect"} -> 6
    [] label \in {"sslEnable", "disconnectWait"} -> 5
    [] label \in {"open", "statusWait"} -> 4
    [] label \in {"openWait", "close"} -> 3
    [] label \in {"connect", "publish"} -> 2
    [] label \in {"connectWait", "publishWait", "closeWait", "factoryReset"} -> 1
    [] label = "idle" -> 0

CallsEnd ==
  [][pc # "idle" =>
       \/ Stage(pc') < Stage(pc)
       \/ pc' = pc /\ round < round' /\ round' <= Rounds
       \/ ~CallStep /\ UNCHANGED <<pc, round>>]_vars

(* cellular.rs:1294, "Configure SSL if provided": the context MQTT is      *)
(* about to use has been configured.  It does not hold once there are two. *)
ProvidedIsConfigured == pc = "sslEnable" => conf[ctx] = "full"
=============================================================================
