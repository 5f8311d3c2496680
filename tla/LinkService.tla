----------------------------- MODULE LinkService -----------------------------
(***************************************************************************)
(* What CellularNetwork promises its owner, without pins, clients, stages, *)
(* backoff or modem: a link that is brought up again whenever it goes      *)
(* down, one user of the UART at a time, and a request slot that holds the *)
(* latest request until the service takes it.                              *)
(***************************************************************************)
VARIABLES
  link,   (* "connecting", "up", "down" (waiting to retry), "paused", "closed" *)
  uart,   (* whose the serial port is: "free", "at" or "ppp"               *)
  slot,   (* the latest request nobody has taken, or "none"                *)
  acked   (* "yes" once a shutdown was acknowledged, else "no"             *)

vars == <<link, uart, slot, acked>>

Init == link = "connecting" /\ uart = "free" /\ slot = "none" /\ acked = "no"

(* The owner asks; after a shutdown it has nothing left to ask with.       *)
Request(r) ==
  /\ slot # "Shutdown" /\ acked = "no"
  /\ slot' = r
  /\ UNCHANGED <<link, uart, acked>>

(* AT commands take the port, and a dial hands it to PPP: now or, for the  *)
(* very first session, before the service runs.                            *)
Acquire ==
  /\ link = "connecting" /\ uart # "ppp" /\ uart' = "at"
  /\ UNCHANGED <<link, slot, acked>>

Dial ==
  /\ link = "connecting" /\ uart = "at" /\ uart' = "ppp"
  /\ link' \in {"connecting", "up"}
  /\ UNCHANGED <<slot, acked>>

(* A request other than Shutdown is not looked at while connecting.        *)
Overlook ==
  /\ link = "connecting" /\ slot # "Shutdown" /\ slot' = "none"
  /\ link' \in IF uart = "ppp" THEN {"up"} ELSE {"connecting"}
  /\ UNCHANGED <<uart, acked>>

Fail == /\ link = "connecting" /\ uart # "ppp" /\ link' = "down"
        /\ UNCHANGED <<uart, slot, acked>>

GiveUp == /\ link = "connecting" /\ link' = "closed" /\ uart' = "free"
          /\ UNCHANGED <<slot, acked>>

Drop == /\ link = "up" /\ link' = "down" /\ uart' = "free"
        /\ UNCHANGED <<slot, acked>>

Retry == /\ link = "down" /\ link' = "connecting"
         /\ UNCHANGED <<uart, slot, acked>>

(* A request interrupts a live link: PPP gives the port up.                *)
Interrupt ==
  /\ link = "up" /\ uart' = "free"
  /\ \/ slot = "Pause" /\ link' = "paused"
     \/ slot = "Resume" /\ link' = "connecting"
  /\ slot' = "none" /\ UNCHANGED acked

Wake ==
  /\ link = "paused"
  /\ \/ slot = "Resume" /\ link' = "connecting"
     \/ slot = "Pause" /\ UNCHANGED link
  /\ slot' = "none" /\ UNCHANGED <<uart, acked>>

(* Never while down: the wait is not cut short.                            *)
Close ==
  /\ slot = "Shutdown" /\ link \in {"connecting", "up", "paused"}
  /\ link' = "closed" /\ uart' = "free"
  /\ slot' = "none" /\ acked' = "yes"

Next ==
  \/ \E r \in {"Pause", "Resume", "Shutdown"} : Request(r)
  \/ Acquire \/ Dial \/ Overlook \/ Fail \/ GiveUp \/ Drop \/ Retry
  \/ Interrupt \/ Wake \/ Close

Spec == Init /\ [][Next]_vars

(* A shutdown is honoured in the end, however often the link fails.        *)
Closes == SF_vars(Close)
=============================================================================
