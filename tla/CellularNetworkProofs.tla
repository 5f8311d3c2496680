------------------------ MODULE CellularNetworkProofs ------------------------
(***************************************************************************)
(* Theorems about CellularNetwork for every bound and either kind of port. *)
(***************************************************************************)
EXTENDS CellularNetwork, TLAPS

(* What the safety invariants need besides themselves.  Where the client   *)
(* is tells whether CMD_BUF was claimed; the transport of init() lasts     *)
(* until the first loop head, where no other transport exists; and nothing *)
(* pumps the port outside a session.                                       *)
Bookkeeping ==
  /\ client = "unbuilt" => cmdBufInits = 0
  /\ transport = "initial" => pc \in {"spawning", "top"}
  /\ pc \in {"spawning", "top"} => transport # "driven"
  /\ pc \in {"spawning", "top", "driving"} => ingress = "idle"

(* The slot never holds anything but the last request, and an owner that   *)
(* can still ask has not asked for a shutdown.                             *)
LatestRequest ==
  /\ control # "none" => control = asked
  /\ handle \in {"none", "held"} => control # "Shutdown" /\ done = "empty"

IInv ==
  /\ TypeOK /\ Custody /\ UartHasOneUser /\ CmdBufClaimedOnce /\ Bookkeeping
  /\ LatestRequest /\ ShutdownNotLost /\ NoLostWakeup /\ BackoffValues

(* The stages of a session by name, and where each command leads.          *)
LEMMA Stages ==
  /\ Session = {"open", "power_key", "probe", "is_alive",
                "set_modem_funcionality", "test_sim",
                "set_context_configuration", "network_attach",
                "get_signal_strength", "dial_ppp"}
  /\ Setup \subseteq Session \ {"open", "power_key", "probe"}
  /\ \A c \in DOMAIN Following :
       c \in Setup /\ Following[c] \in Setup
<1>1. DOMAIN Following =
        {"is_alive", "set_modem_funcionality", "test_sim",
         "set_context_configuration", "network_attach", "get_signal_strength"}
  BY DEF Following
<1>2. \A c \in DOMAIN Following : Following[c] \in Setup
  BY <1>1 DEF Following, Setup
<1>3. QED
  BY <1>1, <1>2 DEF Session, Setup

(* init() starts inside the invariant.                                     *)
LEMMA Initially == Init => IInv
  BY CellularNetworkAssumption, Stages
  DEF Init, IInv, TypeOK, Custody, UartHasOneUser, CmdBufClaimedOnce,
      Bookkeeping, LatestRequest, ShutdownNotLost, NoLostWakeup,
      BackoffValues, BackoffMin, BACKOFF_MAX, Requests, Alive,
      Initialising

(* Every step of run_session, of the supervisor, of the owner and of the   *)
(* outside preserves the invariant.                                        *)
LEMMA Step == IInv /\ [Next]_vars => IInv'
<1> SUFFICES ASSUME IInv, [Next]_vars PROVE IInv'
  OBVIOUS
<1> USE CellularNetworkAssumption, Stages
    DEF IInv, TypeOK, Custody, UartHasOneUser, CmdBufClaimedOnce, Bookkeeping,
        LatestRequest, ShutdownNotLost, NoLostWakeup, BackoffValues,
        Requests, Alive, Initialising, Fails,
        BackoffMin, BACKOFF_MAX,
        owner, resources, external
<1>1. CASE OpenSerial
  BY <1>1 DEF OpenSerial
<1>2. CASE OpenSerialFails
  BY <1>2 DEF OpenSerialFails, Failed, DropAll
<1>3. CASE SendPowerKey
  BY <1>3 DEF SendPowerKey
<1>4. CASE Probe
  BY <1>4 DEF Probe
<1>5. CASE ProbeFails
  BY <1>5 DEF ProbeFails, Unrecoverable
<1>6. CASE SetupCommand
  <2>1. pc \in Setup /\ pc' \in Setup
    BY <1>6 DEF SetupCommand
  <2>2. {pc, pc'} \subseteq Session \ {"open", "power_key", "probe"}
    BY <2>1
  <2>3. QED
    BY <1>6, <2>2 DEF SetupCommand
<1>7. CASE SetupCommandFails
  BY <1>7 DEF SetupCommandFails, Failed, DropAll
<1>8. CASE Dial
  BY <1>8 DEF Dial
<1>9. CASE Spawn
  BY <1>9 DEF Spawn
<1>10. CASE LoopHeadShutdown
  BY <1>10 DEF LoopHeadShutdown, Acknowledge, DropAll
<1>11. CASE LoopHead
  BY <1>11 DEF LoopHead
<1>12. CASE BackoffExpires
  BY <1>12 DEF BackoffExpires, Doubled
<1>13. CASE DrivingShutdown
  BY <1>13 DEF DrivingShutdown, Acknowledge, DropAll
<1>14. CASE DrivingInterrupted
  BY <1>14 DEF DrivingInterrupted
<1>15. CASE PausedShutdown
  BY <1>15 DEF PausedShutdown, Acknowledge, DropAll
<1>16. CASE PausedWakes
  BY <1>16 DEF PausedWakes
<1>17. CASE LinkEnds
  BY <1>17 DEF LinkEnds
<1>18. ASSUME NEW request \in {"Pause", "Resume"}, Call(request) PROVE IInv'
  BY <1>18 DEF Call
<1>19. CASE Shutdown
  BY <1>19 DEF Shutdown
<1>20. CASE ShutdownReturns
  BY <1>20 DEF ShutdownReturns
<1>21. CASE DropHandle
  BY <1>21 DEF DropHandle
<1>22. CASE ModemHangsUp
  BY <1>22 DEF ModemHangsUp
<1>23. CASE ModemLosesPower
  BY <1>23 DEF ModemLosesPower
<1>24. CASE UNCHANGED vars
  BY <1>24 DEF vars
<1>25. QED
  BY <1>1, <1>2, <1>3, <1>4, <1>5, <1>6, <1>7, <1>8, <1>9, <1>10, <1>11,
     <1>12, <1>13, <1>14, <1>15, <1>16, <1>17, <1>18, <1>19, <1>20,
     <1>21, <1>22, <1>23, <1>24
  DEF Next, RunSession, Supervisor

LEMMA Invariance == Spec => []IInv
<1>1. QED
  BY Initially, Step, PTL DEF Spec

(* Every variable keeps its type.                                          *)
THEOREM TypeCorrect == Spec => []TypeOK
<1>1. IInv => TypeOK
  BY DEF IInv
<1>2. QED
  BY Invariance, <1>1, PTL

(* The pin and the client are never lost while the supervisor lives.       *)
THEOREM CustodyHolds == Spec => []Custody
<1>1. IInv => Custody
  BY DEF IInv
<1>2. QED
  BY Invariance, <1>1, PTL

(* AT commands and PPP never share the UART, and no AT command is sent on  *)
(* a client whose writer was taken.                                        *)
THEOREM UartHasOneUserHolds == Spec => []UartHasOneUser
<1>1. IInv => UartHasOneUser
  BY DEF IInv
<1>2. QED
  BY Invariance, <1>1, PTL

(* CMD_BUF.init is called at most once.                                    *)
THEOREM CmdBufClaimedOnceHolds == Spec => []CmdBufClaimedOnce
<1>1. IInv => CmdBufClaimedOnce
  BY DEF IInv
<1>2. QED
  BY Invariance, <1>1, PTL

(* A shutdown request is never swallowed.                                  *)
THEOREM ShutdownNotLostHolds == Spec => []ShutdownNotLost
<1>1. IInv => ShutdownNotLost
  BY DEF IInv
<1>2. QED
  BY Invariance, <1>1, PTL

(* A paused task is never left with an overlooked newer request.           *)
THEOREM NoLostWakeupHolds == Spec => []NoLostWakeup
<1>1. IInv => NoLostWakeup
  BY DEF IInv
<1>2. QED
  BY Invariance, <1>1, PTL

(* The waits stay on the schedule 2, 4, 8, 16, 32, 60.                     *)
THEOREM BackoffValuesHold == Spec => []BackoffValues
<1>1. IInv => BackoffValues
  BY DEF IInv
<1>2. QED
  BY Invariance, <1>1, PTL

(* Only an established session shortens the wait.                          *)
THEOREM BackoffNeverShrinksHolds == Spec => BackoffNeverShrinks
<1>1. IInv /\ [Next]_vars => [pc' # "driving" => backoff' >= backoff]_vars
  <2> SUFFICES ASSUME IInv, Next, pc' # "driving" PROVE backoff' >= backoff
    BY DEF vars
  <2>1. backoff \in {2, 4, 8, 16, 32, 60}
    BY DEF IInv, BackoffValues
  <2>2. CASE BackoffExpires
    BY <2>1, <2>2 DEF BackoffExpires, Doubled, BACKOFF_MAX
  <2>3. CASE ~BackoffExpires
    <3>1. backoff' = backoff
      BY <2>3 DEF Next, RunSession, OpenSerial, OpenSerialFails, SendPowerKey,
         Probe, ProbeFails, SetupCommand, SetupCommandFails, Dial, Spawn,
         Supervisor, LoopHeadShutdown, LoopHead, Acknowledge, DrivingShutdown,
         DrivingInterrupted, PausedShutdown, PausedWakes,
         LinkEnds, Call, Shutdown, ShutdownReturns, DropHandle, ModemHangsUp,
         ModemLosesPower
    <3>2. QED
      BY <2>1, <3>1
  <2>4. QED
    BY <2>2, <2>3
<1>2. QED
  BY Invariance, <1>1, PTL DEF Spec, BackoffNeverShrinks

(* The link service starts where the supervisor starts.                    *)
LEMMA ServiceInit == Init => Service!Init
  BY Stages DEF Init, Service!Init, Link, Alive

(* Every step of the supervisor, its owner and the outside is a step of    *)
(* the link service or leaves it as it was.                                *)
LEMMA ServiceStep == IInv /\ [Next]_vars => [Service!Next]_(Service!vars)
<1> SUFFICES ASSUME IInv, [Next]_vars PROVE [Service!Next]_(Service!vars)
  OBVIOUS
<1> USE Stages
    DEF IInv, TypeOK, Custody, UartHasOneUser, Bookkeeping, LatestRequest,
        ShutdownNotLost, Requests, Alive, Initialising, owner, resources,
        external, Link, Service!vars, Service!Next
<1>1. CASE OpenSerial
  BY <1>1 DEF OpenSerial, Service!Acquire
<1>2. CASE OpenSerialFails
  BY <1>2 DEF OpenSerialFails, Failed, DropAll, Service!Fail, Service!GiveUp
<1>3. CASE SendPowerKey
  BY <1>3 DEF SendPowerKey
<1>4. CASE Probe
  BY <1>4 DEF Probe
<1>5. CASE ProbeFails
  BY <1>5 DEF ProbeFails, Unrecoverable, Service!GiveUp
<1>6. CASE SetupCommand
  <2>1. pc \in Setup /\ pc' \in Setup
    BY <1>6 DEF SetupCommand
  <2>2. {pc, pc'} \subseteq Session \ {"open", "power_key", "probe"}
    BY <2>1
  <2>3. QED
    BY <1>6, <2>2 DEF SetupCommand
<1>7. CASE SetupCommandFails
  BY <1>7 DEF SetupCommandFails, Failed, DropAll, Service!Fail, Service!GiveUp
<1>8. CASE Dial
  BY <1>8 DEF Dial, Service!Dial
<1>9. CASE Spawn
  BY <1>9 DEF Spawn
<1>10. CASE LoopHeadShutdown
  BY <1>10 DEF LoopHeadShutdown, Acknowledge, DropAll, Service!Close
<1>11. CASE LoopHead
  BY <1>11 DEF LoopHead, Service!Overlook
<1>12. CASE BackoffExpires
  BY <1>12 DEF BackoffExpires, Service!Retry
<1>13. CASE DrivingShutdown
  BY <1>13 DEF DrivingShutdown, Acknowledge, DropAll, Service!Close
<1>14. CASE DrivingInterrupted
  BY <1>14 DEF DrivingInterrupted, Service!Interrupt
<1>15. CASE PausedShutdown
  BY <1>15 DEF PausedShutdown, Acknowledge, DropAll, Service!Close
<1>16. CASE PausedWakes
  BY <1>16 DEF PausedWakes, Service!Wake
<1>17. CASE LinkEnds
  BY <1>17 DEF LinkEnds, Service!Drop
<1>18. ASSUME NEW request \in {"Pause", "Resume"}, Call(request)
       PROVE  [Service!Next]_(Service!vars)
  BY <1>18 DEF Call, Service!Request
<1>19. CASE Shutdown
  BY <1>19 DEF Shutdown, Service!Request
<1>20. CASE ShutdownReturns
  BY <1>20 DEF ShutdownReturns
<1>21. CASE DropHandle
  BY <1>21 DEF DropHandle
<1>22. CASE ModemHangsUp
  BY <1>22 DEF ModemHangsUp
<1>23. CASE ModemLosesPower
  BY <1>23 DEF ModemLosesPower
<1>24. CASE UNCHANGED vars
  BY <1>24 DEF vars
<1>25. QED
  BY <1>1, <1>2, <1>3, <1>4, <1>5, <1>6, <1>7, <1>8, <1>9, <1>10, <1>11,
     <1>12, <1>13, <1>14, <1>15, <1>16, <1>17, <1>18, <1>19, <1>20,
     <1>21, <1>22, <1>23, <1>24
  DEF Next, RunSession, Supervisor

(* The supervisor implements the safety part of the link service.          *)
THEOREM Implementation == Spec => ImplementsLinkService
<1>1. QED
  BY Invariance, ServiceInit, ServiceStep, PTL
  DEF Spec, Service!Spec, ImplementsLinkService
=============================================================================
