--------------------------- MODULE CellularNetwork ---------------------------
(***************************************************************************)
(* The PPP supervisor of src/src/net.rs: the CellularNetwork handle, the   *)
(* single-slot control signal, CellularNetworkTask::run and run_session,   *)
(* with the pieces they pass around: the power pin, the AT client, the     *)
(* writer inside its Reclaimable (src/src/ppp.rs) and the two halves of    *)
(* the serial port.  The handle and the task are two async tasks: they     *)
(* interleave wherever the task awaits, so a step of the model is the code *)
(* between two awaits.                                                     *)
(*                                                                         *)
(* The modem, the serial port and the PPP peer are external: they may fail *)
(* at any await, at most MaxFaults times altogether.                       *)
(***************************************************************************)
EXTENDS Naturals

CONSTANTS
  MaxFaults,    (* bound: failures of the modem, the port and the link     *)
  MaxCommands   (* bound: calls of pause() and resume()                    *)

ASSUME CellularNetworkAssumption ==
  /\ MaxFaults \in Nat
  /\ MaxCommands \in Nat

VARIABLES
  handle,       (* the CellularNetwork value, as its owner sees it         *)
  control,      (* ControlSignal: one slot, a new signal replaces the old  *)
  done,         (* DoneSignal: "empty" or "signalled"                      *)
  pc,           (* where init() or the task awaits                         *)
  backoff,      (* seconds, local to the supervisor                        *)
  pin,          (* who owns the power pin                                  *)
  client,       (* where the AT client is                                  *)
  inner,        (* of the client's Reclaimable: "None" or "Some" writer    *)
  ingress,      (* the AT pump, "pumping" on the read half, or "idle"      *)
  transport,    (* the Duplex: "none", "initial" (of init()) or "driven"   *)
  cmdBufInits,  (* calls of CMD_BUF.init                                   *)
  modem,        (* external: "off", "command" (answers AT) or "data" (PPP) *)
  faults,       (* failures so far                                         *)
  commands,     (* pause() and resume() calls so far                       *)
  asked         (* history: the owner's last request                       *)

owner     == <<handle, control, done, commands, asked>>
resources == <<pin, client, inner, ingress, transport, cmdBufInits>>
external  == <<modem, faults>>
vars      == <<owner, pc, backoff, resources, external>>

Requests == {"Pause", "Resume", "Shutdown"}

(* The commands run_session sends once QuectelBG9X::new has returned.      *)
Following == [is_alive                  |-> "set_modem_funcionality",
              set_modem_funcionality    |-> "test_sim",
              test_sim                  |-> "set_context_configuration",
              set_context_configuration |-> "network_attach",
              network_attach            |-> "get_signal_strength",
              get_signal_strength       |-> "dial_ppp"]

Setup   == DOMAIN Following \cup {"dial_ppp"}
Session == {"open", "power_key", "probe"} \cup Setup

(* init() has not returned yet: its own run_session is running.            *)
Initialising == handle = "none"

BackoffMin  == 2
BACKOFF_MAX == 60
Doubled(b)  == IF 2 * b < BACKOFF_MAX THEN 2 * b ELSE BACKOFF_MAX

TypeOK ==
  /\ handle \in {"none", "held", "stopping", "shutDown", "dropped"}
  /\ control \in Requests \cup {"none"}
  /\ done \in {"empty", "signalled"}
  /\ pc \in Session \cup {"spawning", "top", "driving", "backoff", "paused",
                          "stopped", "initErr"}
  /\ backoff \in BackoffMin..BACKOFF_MAX
  /\ pin \in {"task", "session", "lost", "dropped"}
  /\ client \in {"unbuilt", "slot", "session", "lost", "dropped"}
  /\ inner \in {"None", "Some"}
  /\ ingress \in {"idle", "pumping"}
  /\ transport \in {"none", "initial", "driven"}
  /\ cmdBufInits \in Nat
  /\ modem \in {"off", "command", "data"}
  /\ faults \in 0..MaxFaults
  /\ commands \in 0..MaxCommands
  /\ asked \in {"none"} \cup Requests

(* init() moves the pin into its first run_session; nobody knows what an   *)
(* earlier run of the program left the modem doing.                        *)
Init ==
  /\ handle = "none" /\ control = "none" /\ done = "empty"
  /\ pc = "open" /\ backoff = BackoffMin
  /\ pin = "session" /\ client = "unbuilt"
  /\ inner = "None" /\ ingress = "idle" /\ transport = "none"
  /\ cmdBufInits = 0
  /\ modem \in {"off", "command", "data"}
  /\ faults = 0 /\ commands = 0 /\ asked = "none"

-----------------------------------------------------------------------------
(* A failure is either forced by the state of the outside or is a fault.   *)
Fails(forced) ==
  \/ forced /\ UNCHANGED faults
  \/ ~forced /\ faults < MaxFaults /\ faults' = faults + 1

(* What a returning task or a failed init() drops with its locals.         *)
DropAll ==
  /\ client' = "dropped"
  /\ inner' = "None" /\ ingress' = "idle" /\ transport' = "none"
  /\ UNCHANGED cmdBufInits

(* Mutant: a failed session does not put the client back into its slot.    *)
Failed_ClientForgotten ==
  IF Initialising
  THEN pc' = "initErr" /\ pin' = "dropped" /\ DropAll
  ELSE /\ pc' = "backoff" /\ pin' = "task" /\ client' = "lost"
       /\ ingress' = "idle"
       /\ UNCHANGED <<inner, transport, cmdBufInits>>

(* SessionOutcome::Failed: the task keeps the pin and the client (with     *)
(* whatever writer it holds) and sleeps; init() drops both.                *)
Failed ==
  IF Initialising
  THEN pc' = "initErr" /\ pin' = "dropped" /\ DropAll
  ELSE /\ pc' = "backoff" /\ pin' = "task" /\ client' = "slot"
       /\ ingress' = "idle"
       /\ UNCHANGED <<inner, transport, cmdBufInits>>

(* SessionOutcome::Unrecoverable: new() took the pin and the client along. *)
Unrecoverable ==
  /\ pc' = IF Initialising THEN "initErr" ELSE "stopped"
  /\ pin' = "lost" /\ client' = "lost"
  /\ inner' = "None" /\ ingress' = "idle" /\ transport' = "none"
  /\ UNCHANGED cmdBufInits

(* Mutants: the kept client gets no new writer; every session builds a new *)
(* client.                                                                 *)
OpenSerial_NoPut ==
  /\ pc = "open"
  /\ pc' = "power_key"
  /\ client' = "session" /\ ingress' = "pumping"
  /\ inner' = IF client = "slot" THEN inner ELSE "Some"
  /\ cmdBufInits' = IF client = "slot" THEN cmdBufInits ELSE cmdBufInits + 1
  /\ UNCHANGED <<owner, backoff, pin, transport, external>>

(* open() succeeds; the client is taken from its slot and its writer put   *)
(* (the old one dropped), or built on CMD_BUF when the slot is empty.      *)
OpenSerial ==
  /\ pc = "open"
  /\ pc' = "power_key"
  /\ client' = "session" /\ inner' = "Some" /\ ingress' = "pumping"
  /\ cmdBufInits' = IF client = "slot" THEN cmdBufInits ELSE cmdBufInits + 1
  /\ UNCHANGED <<owner, backoff, pin, transport, external>>

(* open() fails before the client is touched.                              *)
OpenSerialFails ==
  /\ pc = "open" /\ Fails(FALSE)
  /\ Failed
  /\ UNCHANGED <<owner, backoff, modem>>

(* send_power_key: the pulse toggles the modem.  A running modem may also  *)
(* ignore it (a pulse too short, a faked key); one that is off stays off   *)
(* only by a fault.                                                        *)
SendPowerKey ==
  /\ pc = "power_key"
  /\ pc' = "probe"
  /\ \/ modem = "off" /\ modem' = "command" /\ UNCHANGED faults
     \/ modem = "off" /\ Fails(FALSE) /\ UNCHANGED modem
     \/ modem # "off" /\ modem' \in {modem, "off"} /\ UNCHANGED faults
  /\ UNCHANGED <<owner, backoff, resources>>

(* The rest of QuectelBG9X::new: the AT probes, echo off, version, IMEI.   *)
Probe ==
  /\ pc = "probe" /\ modem = "command"
  /\ pc' = "is_alive"
  /\ UNCHANGED <<owner, backoff, resources, external>>

ProbeFails ==
  /\ pc = "probe" /\ Fails(modem # "command")
  /\ Unrecoverable
  /\ UNCHANGED <<owner, backoff, modem>>

SetupCommand ==
  /\ pc \in DOMAIN Following /\ modem = "command"
  /\ pc' = Following[pc]
  /\ UNCHANGED <<owner, backoff, resources, external>>

(* A command fails; dial_ppp may give up just before the late CONNECT.     *)
SetupCommandFails ==
  /\ pc \in Setup /\ Fails(modem # "command")
  /\ Failed
  /\ modem' \in IF pc = "dial_ppp" /\ modem = "command"
                THEN {"command", "data"} ELSE {modem}
  /\ UNCHANGED <<owner, backoff>>

(* CONNECT: the writer leaves the client for the Duplex and release()      *)
(* gives the pin and the client back.                                      *)
Dial ==
  /\ pc = "dial_ppp" /\ modem = "command"
  /\ modem' = "data"
  /\ pin' = "task" /\ client' = "slot"
  /\ inner' = "None" /\ ingress' = "idle"
  /\ IF Initialising
     THEN pc' = "spawning" /\ handle' = "held" /\ transport' = "initial"
          /\ UNCHANGED backoff
     ELSE pc' = "driving" /\ backoff' = BackoffMin /\ transport' = "driven"
          /\ UNCHANGED handle
  /\ UNCHANGED <<control, done, commands, asked, cmdBufInits, faults>>

RunSession ==
  \/ OpenSerial \/ OpenSerialFails \/ SendPowerKey \/ Probe \/ ProbeFails
  \/ SetupCommand \/ SetupCommandFails \/ Dial
-----------------------------------------------------------------------------
(* The owner spawns the task that init() returned.                         *)
Spawn ==
  /\ pc = "spawning" /\ pc' = "top"
  /\ UNCHANGED <<owner, backoff, resources, external>>

(* Mutant: the task returns without signalling.                            *)
Acknowledge_Silent ==
  /\ control = "Shutdown" /\ control' = "none" /\ UNCHANGED done
  /\ pc' = "stopped" /\ pin' = "dropped" /\ DropAll
  /\ UNCHANGED <<handle, commands, asked, backoff, external>>

(* shutdown_done is signalled and the task returns.                        *)
Acknowledge ==
  /\ control = "Shutdown" /\ control' = "none" /\ done' = "signalled"
  /\ pc' = "stopped" /\ pin' = "dropped" /\ DropAll
  /\ UNCHANGED <<handle, commands, asked, backoff, external>>

(* Mutants: the loop head never looks for a shutdown; it starts on any     *)
(* request; it resets the backoff before there is a session.               *)
LoopHeadShutdown_Missing == FALSE

LoopHead_TakesAny ==
  /\ pc = "top"
  /\ control' = "none"
  /\ IF transport = "initial"
     THEN /\ pc' = "driving" /\ backoff' = BackoffMin /\ transport' = "driven"
          /\ UNCHANGED pin
     ELSE pc' = "open" /\ pin' = "session" /\ UNCHANGED <<backoff, transport>>
  /\ UNCHANGED <<handle, done, commands, asked, client, inner, ingress,
                 cmdBufInits, external>>

(* The head of the loop: try_take empties the slot, whatever is in it, and *)
(* only Shutdown is looked at.                                             *)
LoopHeadShutdown == pc = "top" /\ Acknowledge

LoopHead ==
  /\ pc = "top" /\ control # "Shutdown"
  /\ control' = "none"
  /\ IF transport = "initial"
     THEN /\ pc' = "driving" /\ backoff' = BackoffMin /\ transport' = "driven"
          /\ UNCHANGED pin
     ELSE pc' = "open" /\ pin' = "session" /\ UNCHANGED <<backoff, transport>>
  /\ UNCHANGED <<handle, done, commands, asked, client, inner, ingress,
                 cmdBufInits, external>>

(* Mutants: the dead transport is kept; the retry waits for a request.     *)
LinkEnds_KeepsTransport ==
  /\ pc = "driving" /\ Fails(modem # "data")
  /\ pc' = "backoff"
  /\ UNCHANGED <<owner, backoff, resources, modem>>

BackoffExpires_AwaitsRequest ==
  /\ pc = "backoff"
  /\ pc' = "paused" /\ backoff' = Doubled(backoff)
  /\ UNCHANGED <<owner, resources, external>>

(* ppp_runner.run returns: the peer hung up, or the port failed.           *)
LinkEnds ==
  /\ pc = "driving" /\ Fails(modem # "data")
  /\ pc' = "backoff" /\ transport' = "none"
  /\ UNCHANGED <<owner, backoff, pin, client, inner, ingress, cmdBufInits, modem>>

BackoffExpires ==
  /\ pc = "backoff"
  /\ pc' = "top" /\ backoff' = Doubled(backoff)
  /\ UNCHANGED <<owner, resources, external>>

(* control.wait() wins the select: the PPP future and its transport go.    *)
DrivingShutdown == pc = "driving" /\ Acknowledge

(* Mutant: any request parks the task.                                     *)
DrivingInterrupted_AlwaysParks ==
  /\ pc = "driving" /\ control \in {"Pause", "Resume"}
  /\ control' = "none"
  /\ pc' = "paused"
  /\ transport' = "none"
  /\ UNCHANGED <<handle, done, commands, asked, backoff, pin, client, inner,
                 ingress, cmdBufInits, external>>

DrivingInterrupted ==
  /\ pc = "driving" /\ control \in {"Pause", "Resume"}
  /\ control' = "none"
  /\ pc' = IF control = "Pause" THEN "paused" ELSE "top"
  /\ transport' = "none"
  /\ UNCHANGED <<handle, done, commands, asked, backoff, pin, client, inner,
                 ingress, cmdBufInits, external>>

PausedShutdown == pc = "paused" /\ Acknowledge

PausedWakes ==
  /\ pc = "paused" /\ control \in {"Pause", "Resume"}
  /\ control' = "none"
  /\ pc' = IF control = "Resume" THEN "top" ELSE "paused"
  /\ UNCHANGED <<handle, done, commands, asked, backoff, resources, external>>

Supervisor ==
  \/ LoopHeadShutdown \/ LoopHead \/ BackoffExpires
  \/ DrivingShutdown \/ DrivingInterrupted
  \/ PausedShutdown \/ PausedWakes
-----------------------------------------------------------------------------
(* pause() and resume().                                                   *)
Call(request) ==
  /\ handle = "held" /\ commands < MaxCommands
  /\ control' = request /\ asked' = request
  /\ commands' = commands + 1
  /\ UNCHANGED <<handle, done, pc, backoff, resources, external>>

(* shutdown() consumes the handle and awaits shutdown_done ...             *)
Shutdown ==
  /\ handle = "held" /\ handle' = "stopping"
  /\ control' = "Shutdown" /\ asked' = "Shutdown"
  /\ UNCHANGED <<done, commands, pc, backoff, resources, external>>

(* ... and returns once it is signalled.                                   *)
ShutdownReturns ==
  /\ handle = "stopping" /\ done = "signalled"
  /\ handle' = "shutDown" /\ done' = "empty"
  /\ UNCHANGED <<control, commands, asked, pc, backoff, resources, external>>

(* Drop: of the handle, or of the future of shutdown().                    *)
DropHandle ==
  /\ handle \in {"held", "stopping"} /\ handle' = "dropped"
  /\ UNCHANGED <<control, done, commands, asked, pc, backoff,
                 resources, external>>

(* The peer ends the data call and the modem is back in command mode: a    *)
(* fault while PPP has the port, its own good time after a teardown.       *)
ModemHangsUp ==
  /\ modem = "data" /\ modem' = "command" /\ Fails(transport = "none")
  /\ UNCHANGED <<owner, pc, backoff, resources>>

ModemLosesPower ==
  /\ modem # "off" /\ modem' = "off" /\ Fails(FALSE)
  /\ UNCHANGED <<owner, pc, backoff, resources>>

Next ==
  \/ RunSession \/ Spawn \/ Supervisor \/ LinkEnds
  \/ \E request \in {"Pause", "Resume"} : Call(request)
  \/ Shutdown \/ ShutdownReturns \/ DropHandle
  \/ ModemHangsUp \/ ModemLosesPower

Spec == Init /\ [][Next]_vars

(* The executor polls a task that can run, timers expire, AT commands      *)
(* answer or time out, and the owner does spawn the task.  Nothing is      *)
(* assumed of the owner's calls, of the link or of the modem.              *)
FairSpec ==
  /\ Spec
  /\ WF_vars(RunSession) /\ WF_vars(Spawn) /\ WF_vars(Supervisor)
  /\ WF_vars(ShutdownReturns)
-----------------------------------------------------------------------------
(* While the supervisor lives it can start another session: the pin and    *)
(* the client are with it or with the session it awaits, never lost on one *)
(* of run_session's early returns (net.rs, "can always be reclaimed").     *)
Alive == pc \notin {"stopped", "initErr"}

Custody ==
  Alive =>
    /\ pin = IF pc \in Session THEN "session" ELSE "task"
    /\ \/ client = IF pc \in Session \ {"open"} THEN "session" ELSE "slot"
       \/ client = "unbuilt" /\ pc = "open" /\ Initialising

(* The UART has one user.  AT commands find a writer in the Reclaimable    *)
(* (it panics when taken) and an ingress pump on the read half, and no     *)
(* Duplex exists; while PPP is driven the Reclaimable is empty and the     *)
(* Duplex is there.  Between sessions no read half is left behind.         *)
UartHasOneUser ==
  /\ pc \in Session \ {"open"} =>
       inner = "Some" /\ ingress = "pumping" /\ transport = "none"
  /\ pc = "driving" => transport = "driven"
  /\ transport # "none" => inner = "None"
  /\ pc \in {"open", "backoff", "paused"} =>
       transport = "none" /\ ingress = "idle"

(* StaticCell::init panics on its second call: CMD_BUF is claimed by the   *)
(* first session only, whatever happened to the sessions since.            *)
CmdBufClaimedOnce == cmdBufInits <= 1

(* A shutdown() that waits is either still in the slot or acknowledged: no *)
(* later signal, no try_take and no wait() swallows it.                    *)
ShutdownNotLost == handle = "stopping" => control = "Shutdown" \/ done = "signalled"

(* A task parked in the pause loop was asked to pause last, or has the     *)
(* newer request in its slot and will wake: pause();resume() in any order  *)
(* with the task's own steps cannot park it for good.                      *)
NoLostWakeup == pc = "paused" => asked = "Pause" \/ control = asked

(* The waits are 2, 4, 8, 16, 32, 60, 60, ... seconds.                     *)
BackoffValues == backoff \in {2, 4, 8, 16, 32, 60}

(* While no session is established the wait never gets shorter: neither a  *)
(* retry, nor a pause, nor a discarded request restarts the schedule.      *)
BackoffNeverShrinks == [][pc' # "driving" => backoff' >= backoff]_vars

(* Whoever fails to open the port, to attach or to dial, or loses the      *)
(* link, gets a session again once the outside stops failing, or stops     *)
(* with the pin lost, or was shut down.                                    *)
Reconnects == pc = "backoff" ~> pc \in {"driving", "stopped"}

(* shutdown() returns, is dropped, or the task had lost its pin.           *)
ShutdownReturnsOrPinLost ==
  handle = "stopping" ~> handle # "stopping" \/ pin = "lost"

(* The supervisor is the link service its documentation promises.          *)
Link == CASE pc = "driving" -> "up"
          [] pc = "backoff" -> "down"
          [] pc = "paused"  -> "paused"
          [] ~Alive         -> "closed"
          [] OTHER          -> "connecting"

Service == INSTANCE LinkService
             WITH link  <- Link,
                  uart  <- CASE transport # "none" -> "ppp"
                             [] transport = "none" /\ inner = "Some" -> "at"
                             [] OTHER -> "free",
                  slot  <- control,
                  acked <- IF done = "signalled" \/ handle = "shutDown"
                           THEN "yes" ELSE "no"

ImplementsLinkService == Service!Spec

(* Through every failure and retry, a shutdown in the slot of a link that  *)
(* keeps coming out of its waits is taken in the end.                      *)
ClosesInTheEnd == Service!Closes
-----------------------------------------------------------------------------
(* What the documentation says and the code does not do.                   *)

(* net.rs:230 "Gracefully power off the modem and stop the task. Awaits    *)
(* confirmation": shutdown() returns.                                      *)
ShutdownReturnsAlways == handle = "stopping" ~> handle # "stopping"

(* net.rs:218 "the pause takes effect once the task notices".  It does not *)
(* hold of a pause that comes before the task drives the link.             *)
PauseTakesEffect ==
  asked = "Pause" ~> pc \in {"paused", "stopped"} \/ asked # "Pause"
=============================================================================
