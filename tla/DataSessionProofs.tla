-------------------------- MODULE DataSessionProofs --------------------------
(***************************************************************************)
(* The example programs on one modem, for every number of programs run one *)
(* after the other and every number of mishaps.  What the proofs need of a *)
(* program is the order of its calls, and that is kept as calls are made.  *)
(***************************************************************************)
EXTENDS DataSession, SequenceTheorems, TLAPS

CallNames ==
  Elsewhere \cup {"radio_on", "radio_off", "set_context_configuration", "get_signal_strength",
                  "context_activate", "context_deactivate", "configure_gnss_priority",
                  "get_nitz_time", "get_ntp_time", "turn_on_gnss", "get_gnss_location",
                  "turn_off_gnss"}
Entries == CallNames \X {"unwrap", "log"}
Todos == Seq(Entries)
Ahead(q, call) == \E i \in DOMAIN q : q[i][1] = call

(* No call is made before the ones it needs, in q or before.               *)
First(q, early, call) ==
  \A i, j \in DOMAIN q : q[i][1] = early /\ q[j][1] = call => i < j

Leads(q, call, later) ==
  \A i \in DOMAIN q : q[i][1] = call => \E j \in DOMAIN q : i < j /\ q[j][1] = later

Ordered(q) ==
  /\ \A i, j \in DOMAIN q : q[i][1] = q[j][1] => i = j
  /\ First(q, "set_context_configuration", "context_activate")
  /\ First(q, "radio_on", "network_attach")
  /\ First(q, "network_attach", "get_signal_strength")
  /\ First(q, "network_attach", "context_activate")
  /\ First(q, "context_activate", "use") /\ First(q, "use", "context_deactivate")
  /\ Leads(q, "set_context_configuration", "use") /\ Leads(q, "context_activate", "use")
  /\ Leads(q, "network_attach", "use") /\ Leads(q, "get_signal_strength", "use")
  /\ Leads(q, "radio_off", "radio_on") /\ Leads(q, "radio_off", "network_attach")
  /\ Leads(q, "radio_off", "context_activate")
  /\ Leads(q, "get_gnss_location", "power_off")
  /\ \A i \in DOMAIN q :
       /\ q[i][1] \in {"set_context_configuration", "context_activate"} => q[i][2] = "unwrap"
       /\ q[i][1] \in {"radio_on", "network_attach"} => q[i][2] = "unwrap"
       /\ q[i][1] \in {"get_ntp_time", "get_nitz_time"} => q[i][2] = "log"
       /\ q[i][1] = "power_off" => i = Len(q)

(* The program and the call at hand.                                       *)
CallInv ==
  /\ name \in Programs \cup {"none"} /\ looks \in 0..LooksWanted /\ runs \in Nat
  /\ pc \in {"call", "activate", "info", "asked", "wait", "locate", "off"}
  /\ status \in {"running", "panicked", "ended"} /\ (status = "ended" <=> todo = <<>>)
  /\ todo \in Todos /\ Ordered(todo)
  /\ status = "running" =>
       /\ pc \in {"activate", "info"} => Head(todo)[1] = "context_activate"
       /\ pc \in {"asked", "wait"} => Head(todo)[1] = "get_ntp_time"
       /\ pc \in {"locate", "off"} => Head(todo)[1] = "get_gnss_location"
       /\ Ahead(todo, "get_gnss_location") /\ pc \notin {"locate", "off"} => looks < LooksWanted

(* The modem and what is under way on it.                                  *)
Modems == [power : {"off", "on"}, radio : {"off", "on"}, registered : {"no", "yes"},
           gnss : {"off", "searching", "fixed"}, conf : {"blank", "other", "mine"},
           context : {"inactive", "blank", "other", "mine"}]
Reported == [says : Reports, came : {"before", "in the wait"}]
Inboxes == Seq(Reported)
MachineInv ==
  /\ modem \in Modems /\ asked \in Nat /\ sub \in {"none", "live"}
  /\ inbox \in Inboxes /\ clock \in {"none", "before", "in the wait"}
  /\ hit \in {"yes", "no"} /\ faults \in Nat

(* Whose the APN and the context are, as long as they are to be used.      *)
ContextInv ==
  status = "running" /\ Ahead(todo, "use") =>
    /\ ~Ahead(todo, "set_context_configuration") => modem.conf # "other"
    /\ ~Ahead(todo, "context_activate") \/ pc = "info" => modem.context # "other"

(* A run with no mishap finds the modem as its own calls left it.          *)
CleanInv ==
  status = "running" /\ hit = "no" =>
    /\ Ahead(todo, "use") =>
         /\ ~Ahead(todo, "radio_on") => modem.radio = "on"
         /\ ~Ahead(todo, "network_attach") => modem.registered = "yes"
         /\ pc = "activate" => modem.context = "inactive"
         /\ ~Ahead(todo, "context_activate") \/ pc = "info" => modem.context # "inactive"
    /\ pc = "locate" => modem.gnss = "fixed"
    /\ pc # "off"

(* A program that will turn the GNSS on has it off: it started on a modem  *)
(* that it had cut off from its power.                                     *)
GnssInv ==
  status = "running" /\ hit = "no" /\ Ahead(todo, "turn_on_gnss") => modem.gnss = "off"

(* What is in the inbox of a call that waits came while it waited.         *)
InboxInv ==
  /\ clock # "before"
  /\ sub = "live" => status # "ended" /\ (status = "running" => pc = "wait")
  /\ status = "running" => \A k \in DOMAIN inbox : inbox[k].came = "in the wait"

SessionInv ==
  /\ CallInv /\ MachineInv /\ ContextInv /\ CleanInv /\ GnssInv /\ InboxInv
  /\ LeftoverNeverKills

(* The calls that are one command, and the command.                        *)
IsCommand(call, command) ==
  \/ call \in Elsewhere \cup {"radio_on", "radio_off"} /\ command = call
  \/ call = "set_context_configuration" /\ command = "QICSGP"
  \/ call = "configure_gnss_priority" /\ command = "QGPSCFG"
  \/ call = "turn_on_gnss" /\ command = "QGPS"
  \/ call = "turn_off_gnss" /\ command = "QGPSEND"
  \/ call = "context_deactivate" /\ command = "QIDEACT"

-----------------------------------------------------------------------------
(* The programs as they are written make their calls in that order.        *)
LEMMA TupleIsTodo ==
  ASSUME NEW n \in Nat, NEW q, DOMAIN q = 1..n, q = [i \in 1..n |-> q[i]],
         \A i \in 1..n : q[i] \in Entries
  PROVE  q \in Todos /\ Len(q) = n
<1>1. [i \in 1..n |-> q[i]] \in Seq(Entries)
  BY IsASeq
<1>2. DOMAIN q = 1..Len(q) /\ Len(q) \in Nat
  BY <1>1, LenProperties
<1>3. Len(q) = n
  BY <1>2
<1> QED
  BY <1>1, <1>3 DEF Todos

LEMMA NotEmpty ==
  ASSUME NEW q, 1 \in DOMAIN q
  PROVE  q # <<>>
<1>1. DOMAIN <<>> = {}
  OBVIOUS
<1> QED
  BY <1>1

LEMMA TcpSocketOrdered == TcpSocket \in Todos /\ Ordered(TcpSocket) /\ TcpSocket # <<>>
<1>1. DOMAIN TcpSocket = 1..11 /\ TcpSocket = [i \in 1..11 |-> TcpSocket[i]]
  BY DEF TcpSocket
<1>2. \A i \in 1..11 : TcpSocket[i] \in Entries
  BY DEF TcpSocket, Must, May, Entries, CallNames, Elsewhere
<1>3. TcpSocket \in Todos /\ Len(TcpSocket) = 11
  BY <1>1, <1>2, TupleIsTodo
<1>4. Ordered(TcpSocket)
  BY <1>1, <1>3 DEF Ordered, First, Leads, TcpSocket, Must, May
<1>5. 1 \in DOMAIN TcpSocket
  BY <1>1
<1> QED
  BY <1>3, <1>4, <1>5, NotEmpty

LEMMA HttpGetTlsOrdered == HttpGetTls \in Todos /\ Ordered(HttpGetTls) /\ HttpGetTls # <<>>
<1>1. DOMAIN HttpGetTls = 1..12 /\ HttpGetTls = [i \in 1..12 |-> HttpGetTls[i]]
  BY DEF HttpGetTls
<1>2. \A i \in 1..12 : HttpGetTls[i] \in Entries
  BY DEF HttpGetTls, Must, May, Entries, CallNames, Elsewhere
<1>3. HttpGetTls \in Todos /\ Len(HttpGetTls) = 12
  BY <1>1, <1>2, TupleIsTodo
<1>4. \A i, j \in 1..12 : HttpGetTls[i][1] = HttpGetTls[j][1] => i = j
  BY DEF HttpGetTls, Must, May
<1>5. \A i \in 1..12 :
      /\ HttpGetTls[i][1] = "set_context_configuration" <=> i = 5
      /\ HttpGetTls[i][1] = "context_activate" <=> i = 8
      /\ HttpGetTls[i][1] = "radio_on" <=> i = 2
      /\ HttpGetTls[i][1] = "network_attach" <=> i = 6
      /\ HttpGetTls[i][1] = "get_signal_strength" <=> i = 7
      /\ HttpGetTls[i][1] = "use" <=> i = 10
      /\ HttpGetTls[i][1] = "context_deactivate" <=> i = 11
      /\ HttpGetTls[i][1] # "radio_off"
      /\ HttpGetTls[i][1] # "get_gnss_location"
      /\ HttpGetTls[i][1] = "power_off" <=> i = 12
      /\ HttpGetTls[i][1] = "get_ntp_time" <=> i = 9
      /\ HttpGetTls[i][1] # "get_nitz_time"
  BY DEF HttpGetTls, Must, May
<1>6. /\ HttpGetTls[5][2] = "unwrap"
      /\ HttpGetTls[8][2] = "unwrap"
      /\ HttpGetTls[2][2] = "unwrap"
      /\ HttpGetTls[6][2] = "unwrap"
      /\ HttpGetTls[9][2] = "log"
  BY DEF HttpGetTls, Must, May
<1>7. /\ First(HttpGetTls, "set_context_configuration", "context_activate")
      /\ First(HttpGetTls, "radio_on", "network_attach")
      /\ First(HttpGetTls, "network_attach", "get_signal_strength")
      /\ First(HttpGetTls, "network_attach", "context_activate")
      /\ First(HttpGetTls, "context_activate", "use")
      /\ First(HttpGetTls, "use", "context_deactivate")
  BY <1>1, <1>5 DEF First
<1>8. /\ Leads(HttpGetTls, "set_context_configuration", "use")
      /\ Leads(HttpGetTls, "context_activate", "use")
      /\ Leads(HttpGetTls, "network_attach", "use")
      /\ Leads(HttpGetTls, "get_signal_strength", "use")
  <2>1. 10 \in DOMAIN HttpGetTls /\ HttpGetTls[10][1] = "use"
    BY <1>1, <1>5
  <2> QED
    BY <1>1, <1>5, <2>1 DEF Leads
<1>9. /\ Leads(HttpGetTls, "radio_off", "radio_on")
      /\ Leads(HttpGetTls, "radio_off", "network_attach")
      /\ Leads(HttpGetTls, "radio_off", "context_activate")
      /\ Leads(HttpGetTls, "get_gnss_location", "power_off")
  BY <1>1, <1>5 DEF Leads
<1>10. \A i \in DOMAIN HttpGetTls :
        /\ HttpGetTls[i][1] \in {"set_context_configuration", "context_activate"}
             => HttpGetTls[i][2] = "unwrap"
        /\ HttpGetTls[i][1] \in {"radio_on", "network_attach"} => HttpGetTls[i][2] = "unwrap"
        /\ HttpGetTls[i][1] \in {"get_ntp_time", "get_nitz_time"} => HttpGetTls[i][2] = "log"
        /\ HttpGetTls[i][1] = "power_off" => i = Len(HttpGetTls)
  BY <1>1, <1>3, <1>5, <1>6
<1>11. Ordered(HttpGetTls)
  BY <1>1, <1>4, <1>7, <1>8, <1>9, <1>10 DEF Ordered
<1>12. 1 \in DOMAIN HttpGetTls
  BY <1>1
<1> QED
  BY <1>3, <1>11, <1>12, NotEmpty

LEMMA ConnectMqttOrdered == ConnectMqtt \in Todos /\ Ordered(ConnectMqtt) /\ ConnectMqtt # <<>>
<1>1. DOMAIN ConnectMqtt = 1..14 /\ ConnectMqtt = [i \in 1..14 |-> ConnectMqtt[i]]
  BY DEF ConnectMqtt
<1>2. \A i \in 1..14 : ConnectMqtt[i] \in Entries
  BY DEF ConnectMqtt, Must, May, Entries, CallNames, Elsewhere
<1>3. ConnectMqtt \in Todos /\ Len(ConnectMqtt) = 14
  BY <1>1, <1>2, TupleIsTodo
<1>4. \A i, j \in 1..14 : ConnectMqtt[i][1] = ConnectMqtt[j][1] => i = j
  BY DEF ConnectMqtt, Must, May
<1>5. \A i \in 1..14 :
      /\ ConnectMqtt[i][1] = "set_context_configuration" <=> i = 5
      /\ ConnectMqtt[i][1] = "context_activate" <=> i = 10
      /\ ConnectMqtt[i][1] = "radio_on" <=> i = 6
      /\ ConnectMqtt[i][1] = "network_attach" <=> i = 7
      /\ ConnectMqtt[i][1] = "get_signal_strength" <=> i = 8
      /\ ConnectMqtt[i][1] = "use" <=> i = 12
      /\ ConnectMqtt[i][1] = "context_deactivate" <=> i = 13
      /\ ConnectMqtt[i][1] = "radio_off" <=> i = 3
      /\ ConnectMqtt[i][1] # "get_gnss_location"
      /\ ConnectMqtt[i][1] = "power_off" <=> i = 14
      /\ ConnectMqtt[i][1] = "get_ntp_time" <=> i = 11
      /\ ConnectMqtt[i][1] = "get_nitz_time" <=> i = 9
  BY DEF ConnectMqtt, Must, May
<1>6. /\ ConnectMqtt[5][2] = "unwrap"
      /\ ConnectMqtt[10][2] = "unwrap"
      /\ ConnectMqtt[6][2] = "unwrap"
      /\ ConnectMqtt[7][2] = "unwrap"
      /\ ConnectMqtt[11][2] = "log"
      /\ ConnectMqtt[9][2] = "log"
  BY DEF ConnectMqtt, Must, May
<1>7. /\ First(ConnectMqtt, "set_context_configuration", "context_activate")
      /\ First(ConnectMqtt, "radio_on", "network_attach")
      /\ First(ConnectMqtt, "network_attach", "get_signal_strength")
      /\ First(ConnectMqtt, "network_attach", "context_activate")
      /\ First(ConnectMqtt, "context_activate", "use")
      /\ First(ConnectMqtt, "use", "context_deactivate")
  BY <1>1, <1>5 DEF First
<1>8. /\ Leads(ConnectMqtt, "set_context_configuration", "use")
      /\ Leads(ConnectMqtt, "context_activate", "use")
      /\ Leads(ConnectMqtt, "network_attach", "use")
      /\ Leads(ConnectMqtt, "get_signal_strength", "use")
  <2>1. 12 \in DOMAIN ConnectMqtt /\ ConnectMqtt[12][1] = "use"
    BY <1>1, <1>5
  <2> QED
    BY <1>1, <1>5, <2>1 DEF Leads
<1>9. /\ Leads(ConnectMqtt, "radio_off", "radio_on")
      /\ Leads(ConnectMqtt, "radio_off", "network_attach")
      /\ Leads(ConnectMqtt, "radio_off", "context_activate")
      /\ Leads(ConnectMqtt, "get_gnss_location", "power_off")
  <2>1. /\ 6 \in DOMAIN ConnectMqtt /\ 7 \in DOMAIN ConnectMqtt /\ 10 \in DOMAIN ConnectMqtt
        /\ 14 \in DOMAIN ConnectMqtt
        /\ ConnectMqtt[6][1] = "radio_on" /\ ConnectMqtt[7][1] = "network_attach"
        /\ ConnectMqtt[10][1] = "context_activate" /\ ConnectMqtt[14][1] = "power_off"
    BY <1>1, <1>5
  <2> QED
    BY <1>1, <1>5, <2>1 DEF Leads
<1>10. \A i \in DOMAIN ConnectMqtt :
        /\ ConnectMqtt[i][1] \in {"set_context_configuration", "context_activate"}
             => ConnectMqtt[i][2] = "unwrap"
        /\ ConnectMqtt[i][1] \in {"radio_on", "network_attach"} => ConnectMqtt[i][2] = "unwrap"
        /\ ConnectMqtt[i][1] \in {"get_ntp_time", "get_nitz_time"} => ConnectMqtt[i][2] = "log"
        /\ ConnectMqtt[i][1] = "power_off" => i = Len(ConnectMqtt)
  BY <1>1, <1>3, <1>5, <1>6
<1>11. Ordered(ConnectMqtt)
  BY <1>1, <1>4, <1>7, <1>8, <1>9, <1>10 DEF Ordered
<1>12. 1 \in DOMAIN ConnectMqtt
  BY <1>1
<1> QED
  BY <1>3, <1>11, <1>12, NotEmpty

LEMMA Esp32MqttOrdered == Esp32Mqtt \in Todos /\ Ordered(Esp32Mqtt) /\ Esp32Mqtt # <<>>
<1>1. DOMAIN Esp32Mqtt = 1..18 /\ Esp32Mqtt = [i \in 1..18 |-> Esp32Mqtt[i]]
  BY DEF Esp32Mqtt
<1>2. \A i \in 1..18 : Esp32Mqtt[i] \in Entries
  BY DEF Esp32Mqtt, Must, May, Entries, CallNames, Elsewhere
<1>3. Esp32Mqtt \in Todos /\ Len(Esp32Mqtt) = 18
  BY <1>1, <1>2, TupleIsTodo
<1>4. \A i, j \in 1..18 : Esp32Mqtt[i][1] = Esp32Mqtt[j][1] => i = j
  BY DEF Esp32Mqtt, Must, May
<1>5. \A i \in 1..18 :
      /\ Esp32Mqtt[i][1] = "set_context_configuration" <=> i = 9
      /\ Esp32Mqtt[i][1] = "context_activate" <=> i = 11
      /\ Esp32Mqtt[i][1] = "radio_on" <=> i = 6
      /\ Esp32Mqtt[i][1] = "network_attach" <=> i = 7
      /\ Esp32Mqtt[i][1] = "get_signal_strength" <=> i = 8
      /\ Esp32Mqtt[i][1] = "use" <=> i = 13
      /\ Esp32Mqtt[i][1] = "context_deactivate" <=> i = 17
      /\ Esp32Mqtt[i][1] = "radio_off" <=> i = 3
      /\ Esp32Mqtt[i][1] = "get_gnss_location" <=> i = 15
      /\ Esp32Mqtt[i][1] = "power_off" <=> i = 18
      /\ Esp32Mqtt[i][1] = "get_ntp_time" <=> i = 12
      /\ Esp32Mqtt[i][1] = "get_nitz_time" <=> i = 10
  BY DEF Esp32Mqtt, Must, May
<1>6. /\ Esp32Mqtt[9][2] = "unwrap"
      /\ Esp32Mqtt[11][2] = "unwrap"
      /\ Esp32Mqtt[6][2] = "unwrap"
      /\ Esp32Mqtt[7][2] = "unwrap"
      /\ Esp32Mqtt[12][2] = "log"
      /\ Esp32Mqtt[10][2] = "log"
  BY DEF Esp32Mqtt, Must, May
<1>7. /\ First(Esp32Mqtt, "set_context_configuration", "context_activate")
      /\ First(Esp32Mqtt, "radio_on", "network_attach")
      /\ First(Esp32Mqtt, "network_attach", "get_signal_strength")
      /\ First(Esp32Mqtt, "network_attach", "context_activate")
      /\ First(Esp32Mqtt, "context_activate", "use")
      /\ First(Esp32Mqtt, "use", "context_deactivate")
  BY <1>1, <1>5 DEF First
<1>8. /\ Leads(Esp32Mqtt, "set_context_configuration", "use")
      /\ Leads(Esp32Mqtt, "context_activate", "use")
      /\ Leads(Esp32Mqtt, "network_attach", "use")
      /\ Leads(Esp32Mqtt, "get_signal_strength", "use")
  <2>1. 13 \in DOMAIN Esp32Mqtt /\ Esp32Mqtt[13][1] = "use"
    BY <1>1, <1>5
  <2> QED
    BY <1>1, <1>5, <2>1 DEF Leads
<1>9. /\ Leads(Esp32Mqtt, "radio_off", "radio_on")
      /\ Leads(Esp32Mqtt, "radio_off", "network_attach")
      /\ Leads(Esp32Mqtt, "radio_off", "context_activate")
      /\ Leads(Esp32Mqtt, "get_gnss_location", "power_off")
  <2>1. /\ 6 \in DOMAIN Esp32Mqtt /\ 7 \in DOMAIN Esp32Mqtt /\ 11 \in DOMAIN Esp32Mqtt
        /\ 18 \in DOMAIN Esp32Mqtt
        /\ Esp32Mqtt[6][1] = "radio_on" /\ Esp32Mqtt[7][1] = "network_attach"
        /\ Esp32Mqtt[11][1] = "context_activate" /\ Esp32Mqtt[18][1] = "power_off"
    BY <1>1, <1>5
  <2> QED
    BY <1>1, <1>5, <2>1 DEF Leads
<1>10. \A i \in DOMAIN Esp32Mqtt :
        /\ Esp32Mqtt[i][1] \in {"set_context_configuration", "context_activate"}
             => Esp32Mqtt[i][2] = "unwrap"
        /\ Esp32Mqtt[i][1] \in {"radio_on", "network_attach"} => Esp32Mqtt[i][2] = "unwrap"
        /\ Esp32Mqtt[i][1] \in {"get_ntp_time", "get_nitz_time"} => Esp32Mqtt[i][2] = "log"
        /\ Esp32Mqtt[i][1] = "power_off" => i = Len(Esp32Mqtt)
  BY <1>1, <1>3, <1>5, <1>6
<1>11. Ordered(Esp32Mqtt)
  BY <1>1, <1>4, <1>7, <1>8, <1>9, <1>10 DEF Ordered
<1>12. 1 \in DOMAIN Esp32Mqtt
  BY <1>1
<1> QED
  BY <1>3, <1>11, <1>12, NotEmpty

LEMMA ScriptOrdered ==
  ASSUME NEW p \in Programs
  PROVE  Script(p) \in Todos /\ Ordered(Script(p)) /\ Script(p) # <<>>
<1>1. p \in {"tcp_socket", "http_get_tls", "connect_mqtt", "esp32_mqtt"}
  BY DataSessionAssumption DEF DataSessionAssumption
<1> QED
  BY <1>1, TcpSocketOrdered, HttpGetTlsOrdered, ConnectMqttOrdered, Esp32MqttOrdered DEF Script

(* What a program does after a failed SIM test needs nothing.              *)
LEMMA SimFailedOrdered ==
  ASSUME NEW p
  PROVE  /\ SimFailed(p) \in Todos /\ Ordered(SimFailed(p)) /\ SimFailed(p) # <<>>
         /\ ~Ahead(SimFailed(p), "use") /\ ~Ahead(SimFailed(p), "get_gnss_location")
         /\ ~Ahead(SimFailed(p), "turn_on_gnss")
<1>1. CASE SimFailed(p) = <<May("power_off")>>
  <2> DEFINE q == <<May("power_off")>>
  <2>1. DOMAIN q = 1..1 /\ q = [i \in 1..1 |-> q[i]] /\ q[1][1] = "power_off"
    BY DEF May
  <2>2. \A i \in 1..1 : q[i] \in Entries
    BY DEF May, Entries, CallNames, Elsewhere
  <2>3. q \in Todos /\ Len(q) = 1 /\ Len(<<>>) = 0
    BY <2>1, <2>2, TupleIsTodo
  <2>4. /\ Ordered(q) /\ ~Ahead(q, "use") /\ ~Ahead(q, "get_gnss_location")
        /\ ~Ahead(q, "turn_on_gnss")
    BY <2>1, <2>3 DEF Ordered, First, Leads, Ahead
  <2> QED
    BY <1>1, <2>3, <2>4
<1>2. CASE SimFailed(p) = <<Must("context_deactivate"), Must("power_off")>>
  <2> DEFINE q == <<Must("context_deactivate"), Must("power_off")>>
  <2>1. /\ DOMAIN q = 1..2 /\ q = [i \in 1..2 |-> q[i]]
        /\ q[1][1] = "context_deactivate" /\ q[2][1] = "power_off"
    BY DEF Must
  <2>2. \A i \in 1..2 : q[i] \in Entries
    BY DEF Must, Entries, CallNames, Elsewhere
  <2>3. q \in Todos /\ Len(q) = 2 /\ Len(<<>>) = 0
    BY <2>1, <2>2, TupleIsTodo
  <2>4. /\ Ordered(q) /\ ~Ahead(q, "use") /\ ~Ahead(q, "get_gnss_location")
        /\ ~Ahead(q, "turn_on_gnss")
    BY <2>1, <2>3 DEF Ordered, First, Leads, Ahead
  <2> QED
    BY <1>2, <2>3, <2>4
<1> QED
  BY <1>1, <1>2 DEF SimFailed

(* The first call is made, the order of the others stays.                  *)
LEMMA TailOrdered ==
  ASSUME NEW q \in Todos, Ordered(q), q # <<>>
  PROVE  /\ Tail(q) \in Todos /\ Ordered(Tail(q))
         /\ \A call : Ahead(Tail(q), call) <=> Ahead(q, call) /\ call # Head(q)[1]
         /\ Len(q) = 1 <=> Tail(q) = <<>>
         /\ Len(q) \in Nat
<1> DEFINE t == Tail(q)
<1>1. /\ t \in Todos /\ Len(t) = Len(q) - 1 /\ Len(q) \in Nat \ {0}
      /\ \A i \in 1..Len(t) : t[i] = q[i + 1]
  BY HeadTailProperties, EmptySeq DEF Todos
<1>2. DOMAIN t = 1..Len(t) /\ DOMAIN q = 1..Len(q) /\ Len(t) \in Nat
  BY <1>1, LenProperties DEF Todos
<1>3. Head(q) = q[1] /\ 1 \in DOMAIN q
  BY <1>1, <1>2
<1>4. \A i \in DOMAIN t : t[i] = q[i + 1] /\ i + 1 \in DOMAIN q
  BY <1>1, <1>2
<1>5. \A i \in DOMAIN q : i # 1 => i - 1 \in DOMAIN t /\ q[i] = t[i - 1]
  BY <1>1, <1>2
<1> HIDE DEF t
<1>6. \A a, b : First(q, a, b) => First(t, a, b)
  BY <1>2, <1>4 DEF First
<1>7. \A a, b : Leads(q, a, b) => Leads(t, a, b)
  <2> SUFFICES ASSUME NEW a, NEW b, Leads(q, a, b), NEW i \in DOMAIN t, t[i][1] = a
               PROVE  \E j \in DOMAIN t : i < j /\ t[j][1] = b
    BY DEF Leads
  <2>1. PICK j \in DOMAIN q : i + 1 < j /\ q[j][1] = b
    BY <1>4 DEF Leads
  <2>2. j - 1 \in DOMAIN t /\ i < j - 1 /\ t[j - 1][1] = b
    BY <1>2, <1>5, <2>1
  <2> QED
    BY <2>2
<1>8. \A i, j \in DOMAIN t : t[i][1] = t[j][1] => i = j
  <2>1. \A i, j \in DOMAIN t : t[i][1] = t[j][1] => i + 1 = j + 1
    BY <1>4 DEF Ordered
  <2> QED
    BY <1>2, <2>1
<1>9. \A i \in DOMAIN t :
       /\ t[i][1] \in {"set_context_configuration", "context_activate"} => t[i][2] = "unwrap"
       /\ t[i][1] \in {"radio_on", "network_attach"} => t[i][2] = "unwrap"
       /\ t[i][1] \in {"get_ntp_time", "get_nitz_time"} => t[i][2] = "log"
       /\ t[i][1] = "power_off" => i = Len(t)
  BY <1>1, <1>2, <1>4 DEF Ordered
<1>10. Ordered(t)
  BY <1>6, <1>7, <1>8, <1>9 DEF Ordered
<1>11. ASSUME NEW call PROVE Ahead(t, call) <=> Ahead(q, call) /\ call # Head(q)[1]
  <2>1. ASSUME NEW i \in DOMAIN t, t[i][1] = call
        PROVE  Ahead(q, call) /\ call # Head(q)[1]
    <3>1. i + 1 \in DOMAIN q /\ q[i + 1][1] = call /\ i + 1 # 1
      BY <1>2, <1>4, <2>1
    <3> QED
      BY <1>3, <3>1 DEF Ahead, Ordered
  <2>2. ASSUME NEW i \in DOMAIN q, q[i][1] = call, call # Head(q)[1]
        PROVE  Ahead(t, call)
    BY <1>3, <1>5, <2>2 DEF Ahead
  <2> QED
    BY <2>1, <2>2 DEF Ahead
<1>12. Len(q) = 1 <=> t = <<>>
  BY <1>1, EmptySeq DEF Todos
<1> QED
  BY <1>1, <1>10, <1>11, <1>12 DEF t


(* Every program of them makes the calls that bring it online.             *)
LEMMA ScriptComplete ==
  ASSUME NEW p \in Programs
  PROVE  /\ Ahead(Script(p), "radio_on") /\ Ahead(Script(p), "set_context_configuration")
         /\ Ahead(Script(p), "network_attach") /\ Ahead(Script(p), "context_activate")
<1>1. p \in {"tcp_socket", "http_get_tls", "connect_mqtt", "esp32_mqtt"}
  BY DataSessionAssumption DEF DataSessionAssumption
<1>2. /\ TcpSocket[2][1] = "radio_on" /\ TcpSocket[5][1] = "set_context_configuration"
      /\ TcpSocket[6][1] = "network_attach" /\ TcpSocket[8][1] = "context_activate"
      /\ DOMAIN TcpSocket = 1..11
  BY DEF TcpSocket, Must, May
<1>3. /\ HttpGetTls[2][1] = "radio_on" /\ HttpGetTls[5][1] = "set_context_configuration"
      /\ HttpGetTls[6][1] = "network_attach" /\ HttpGetTls[8][1] = "context_activate"
      /\ DOMAIN HttpGetTls = 1..12
  BY DEF HttpGetTls, Must, May
<1>4. /\ ConnectMqtt[6][1] = "radio_on" /\ ConnectMqtt[5][1] = "set_context_configuration"
      /\ ConnectMqtt[7][1] = "network_attach" /\ ConnectMqtt[10][1] = "context_activate"
      /\ DOMAIN ConnectMqtt = 1..14
  BY DEF ConnectMqtt, Must, May
<1>5. /\ Esp32Mqtt[6][1] = "radio_on" /\ Esp32Mqtt[9][1] = "set_context_configuration"
      /\ Esp32Mqtt[7][1] = "network_attach" /\ Esp32Mqtt[11][1] = "context_activate"
      /\ DOMAIN Esp32Mqtt = 1..18
  BY DEF Esp32Mqtt, Must, May
<1> QED
  BY <1>1, <1>2, <1>3, <1>4, <1>5 DEF Script, Ahead

(* Only one of them turns the GNSS on.                                     *)
LEMMA OnlyEsp32Locates ==
  ASSUME NEW p \in Programs, p # "esp32_mqtt"
  PROVE  ~Ahead(Script(p), "turn_on_gnss")
<1>1. p \in {"tcp_socket", "http_get_tls", "connect_mqtt"}
  BY DataSessionAssumption DEF DataSessionAssumption
<1>2. DOMAIN TcpSocket = 1..11 /\ \A i \in 1..11 : TcpSocket[i][1] # "turn_on_gnss"
  BY DEF TcpSocket, Must, May
<1>3. DOMAIN HttpGetTls = 1..12 /\ \A i \in 1..12 : HttpGetTls[i][1] # "turn_on_gnss"
  BY DEF HttpGetTls, Must, May
<1>4. DOMAIN ConnectMqtt = 1..14 /\ \A i \in 1..14 : ConnectMqtt[i][1] # "turn_on_gnss"
  BY DEF ConnectMqtt, Must, May
<1> QED
  BY <1>1, <1>2, <1>3, <1>4 DEF Script, Ahead

(* What is behind a program, and what is still ahead, at each of its calls. *)
LEMMA HeadOrdered ==
  ASSUME NEW q \in Todos, Ordered(q), q # <<>>
  PROVE  /\ Head(q) \in Entries /\ Ahead(q, Head(q)[1])
         /\ Head(q)[1] = "context_activate" =>
              /\ ~Ahead(q, "set_context_configuration") /\ ~Ahead(q, "network_attach")
              /\ Ahead(q, "use") /\ Head(q)[2] = "unwrap"
         /\ Head(q)[1] = "network_attach" =>
              ~Ahead(q, "radio_on") /\ Ahead(q, "use") /\ Head(q)[2] = "unwrap"
         /\ Head(q)[1] = "get_signal_strength" => ~Ahead(q, "network_attach") /\ Ahead(q, "use")
         /\ Head(q)[1] = "use" => ~Ahead(q, "context_activate")
         /\ Head(q)[1] = "context_deactivate" => ~Ahead(q, "use")
         /\ Head(q)[1] = "set_context_configuration" => Ahead(q, "use") /\ Head(q)[2] = "unwrap"
         /\ Head(q)[1] = "radio_on" => Head(q)[2] = "unwrap"
         /\ Head(q)[1] = "radio_off" =>
              /\ Ahead(q, "radio_on") /\ Ahead(q, "network_attach")
              /\ Ahead(q, "context_activate")
         /\ Head(q)[1] \in {"get_ntp_time", "get_nitz_time"} => Head(q)[2] = "log"
         /\ Head(q)[1] = "power_off" => ~Ahead(q, "use")
         /\ Head(q)[1] = "get_gnss_location" => Len(q) # 1
<1>1. /\ DOMAIN q = 1..Len(q) /\ Len(q) \in Nat /\ 1 \in DOMAIN q /\ Head(q) = q[1]
      /\ q[1] \in Entries
  BY HeadTailProperties, EmptySeq, LenProperties DEF Todos
<1>2. \A i \in DOMAIN q : ~(i < 1)
  BY <1>1
<1>3. ASSUME NEW early, NEW call, First(q, early, call), q[1][1] = call
      PROVE  ~Ahead(q, early)
  BY <1>1, <1>2, <1>3 DEF First, Ahead
<1>4. ASSUME NEW call, NEW later, Leads(q, call, later), q[1][1] = call
      PROVE  Ahead(q, later) /\ Len(q) # 1
  BY <1>1, <1>4 DEF Leads, Ahead
<1>5. q[1][1] = "power_off" => ~Ahead(q, "use")
  <2>1. q[1][1] = "power_off" => Len(q) = 1
    BY <1>1 DEF Ordered
  <2>2. ASSUME q[1][1] = "power_off", NEW i \in DOMAIN q
        PROVE  q[i][1] # "use"
    <3>1. Len(q) = 1
      BY <2>1, <2>2
    <3>2. i \in 1..1
      BY <1>1, <2>2, <3>1
    <3> QED
      BY <2>2, <3>2
  <2> QED
    BY <2>2 DEF Ahead
<1> QED
  BY <1>1, <1>3, <1>4, <1>5 DEF Ordered, Ahead

-----------------------------------------------------------------------------
(* How a call ends or goes on leaves the program in order.                 *)
LEMMA AfterOk ==
  ASSUME CallInv, status = "running", Ok
  PROVE  CallInv' /\ status' \in {"running", "ended"}
<1>1. todo \in Todos /\ Ordered(todo) /\ todo # <<>>
  BY DEF CallInv
<1>2. /\ todo' \in Todos /\ Ordered(todo') /\ (Len(todo) = 1 <=> todo' = <<>>)
      /\ Ahead(todo', "get_gnss_location") =>
           Ahead(todo, "get_gnss_location") /\ Head(todo)[1] # "get_gnss_location"
  BY <1>1, TailOrdered DEF Ok
<1> QED
  BY <1>2 DEF CallInv, Ok, Same

LEMMA AfterErr ==
  ASSUME CallInv, status = "running", Err
  PROVE  /\ CallInv' /\ pc' = "call"
         /\ status' = "panicked" => Head(todo)[2] = "unwrap" /\ todo' = todo
         /\ Head(todo)[2] = "log" /\ Head(todo)[1] # "test_sim" => Ok
         /\ Head(todo)[2] = "unwrap" /\ Head(todo)[1] # "test_sim" => Panic
         /\ Head(todo)[1] = "test_sim" => SimFails
<1>1. todo \in Todos /\ Ordered(todo) /\ todo # <<>> /\ Head(todo) \in Entries
  BY HeadOrdered DEF CallInv
<1>2. CASE Head(todo)[1] = "test_sim"
  <2>1. SimFails
    BY <1>2 DEF Err
  <2>2. /\ todo' \in Todos /\ Ordered(todo') /\ todo' # <<>>
        /\ ~Ahead(todo', "get_gnss_location")
    BY <2>1, SimFailedOrdered DEF SimFails
  <2> QED
    BY <1>2, <2>1, <2>2 DEF CallInv, SimFails, Same
<1>3. CASE Head(todo)[1] # "test_sim" /\ Head(todo)[2] = "log"
  <2>1. Ok
    BY <1>3 DEF Err
  <2> QED
    BY <1>3, <2>1, AfterOk DEF Ok
<1>4. CASE Head(todo)[1] # "test_sim" /\ Head(todo)[2] = "unwrap"
  <2>1. Panic
    BY <1>4 DEF Err
  <2> QED
    BY <1>4, <2>1 DEF CallInv, Panic, Same
<1> QED
  BY <1>1, <1>2, <1>3, <1>4 DEF Entries

LEMMA AfterPanic ==
  ASSUME CallInv, status = "running", Panic
  PROVE  CallInv' /\ status' = "panicked" /\ todo' = todo
BY DEF CallInv, Panic, Same

LEMMA AfterInside ==
  ASSUME CallInv, status = "running", NEW where, Inside(where),
         \/ Head(todo)[1] = "context_activate" /\ where \in {"activate", "info"}
         \/ Head(todo)[1] = "get_ntp_time" /\ where \in {"asked", "wait"}
         \/ Head(todo)[1] = "get_gnss_location" /\ where = "off" /\ pc = "locate"
  PROVE  CallInv' /\ status' = "running" /\ todo' = todo
BY DEF CallInv, Inside, Same


(* What commands do to the modem.                                          *)
LEMMA DoesWhat ==
  ASSUME NEW call, NEW command, IsCommand(call, command), NEW m \in Modems
  PROVE  LET n == Does(command, m) IN
         /\ n \in Modems
         /\ call # "power_off" => n.conf = IF command = "QICSGP" THEN "mine" ELSE m.conf
         /\ call # "power_off" => n.context \in {m.context, "inactive"}
         /\ call \notin {"power_off", "radio_off", "context_deactivate"} =>
              n.context = m.context
         /\ call \notin {"power_off", "radio_off"} => n.radio \in {m.radio, "on"}
         /\ call = "radio_on" => n.radio = "on"
         /\ call \notin {"power_off", "radio_off"} => n.registered \in {m.registered, "yes"}
         /\ call = "network_attach" => n.registered = "yes"
         /\ call # "turn_on_gnss" => n.gnss \in {m.gnss, "off"}
<1> DEFINE n == Does(command, m)
<1>1. CASE command \in {"is_alive", "test_sim", "set_modem_configuration", "use", "QGPSCFG"}
  <2>1. n = m
    BY <1>1 DEF Does
  <2> QED
    BY <1>1, <2>1 DEF IsCommand, Elsewhere, Modems
<1>2. CASE command = "radio_on"
  <2>1. n = [m EXCEPT !.radio = "on"]
    BY <1>2 DEF Does
  <2> QED
    BY <1>2, <2>1 DEF IsCommand, Elsewhere, Modems
<1>3. CASE command = "radio_off"
  <2>1. n = [m EXCEPT !.radio = "off", !.registered = "no", !.context = "inactive"]
    BY <1>3 DEF Does
  <2> QED
    BY <1>3, <2>1 DEF IsCommand, Elsewhere, Modems
<1>4. CASE command = "network_attach"
  <2>1. n = [m EXCEPT !.registered = "yes"]
    BY <1>4 DEF Does
  <2> QED
    BY <1>4, <2>1 DEF IsCommand, Elsewhere, Modems
<1>5. CASE command = "power_off"
  <2>1. n = [Fresh EXCEPT !.power = "off"] /\ call = "power_off"
    BY <1>5 DEF Does, IsCommand
  <2> QED
    BY <2>1 DEF Modems, Fresh
<1>6. CASE command = "QICSGP"
  <2>1. n = [m EXCEPT !.conf = "mine"]
    BY <1>6 DEF Does
  <2> QED
    BY <1>6, <2>1 DEF IsCommand, Elsewhere, Modems
<1>7. CASE command = "QIDEACT"
  <2>1. n = [m EXCEPT !.context = "inactive"]
    BY <1>7 DEF Does
  <2> QED
    BY <1>7, <2>1 DEF IsCommand, Elsewhere, Modems
<1>8. CASE command = "QGPS"
  <2>1. n = [m EXCEPT !.gnss = "searching"] /\ call = "turn_on_gnss"
    BY <1>8 DEF Does, IsCommand, Elsewhere
  <2> QED
    BY <1>8, <2>1 DEF Modems
<1>9. CASE command = "QGPSEND"
  <2>1. n = [m EXCEPT !.gnss = "off"] /\ call = "turn_off_gnss"
    BY <1>9 DEF Does, IsCommand, Elsewhere
  <2> QED
    BY <1>9, <2>1 DEF Modems
<1> QED
  BY <1>1, <1>2, <1>3, <1>4, <1>5, <1>6, <1>7, <1>8, <1>9 DEF IsCommand, Elsewhere

LEMMA ContextDoes ==
  ASSUME NEW m \in Modems
  PROVE  /\ Does("QIDEACT", m) = [m EXCEPT !.context = "inactive"]
         /\ Does("QIACT", m) = [m EXCEPT !.context = m.conf]
         /\ Does("QGPSLOC", m) = m
         /\ Does("power_off", m) \in Modems
         /\ Fresh \in Modems
         /\ \A c \in {"QIDEACT", "power_off"} : ~Refuses(c, m)
         /\ Refuses("QIACT", m) <=> m.context # "inactive" \/ m.registered = "no"
         /\ Refuses("QGPSLOC", m) <=> m.gnss # "fixed"
BY DEF Does, Modems, Fresh, Refuses

(* Every step is one of these.                                             *)
LEMMA NextSteps ==
  ASSUME [Next]_vars
  PROVE  \/ \E p \in Programs : Start(p)
         \/ Stopped
         \/ \E call, command : IsCommand(call, command) /\ Exchange(call, command)
         \/ GetSignalStrength \/ ContextClear \/ ContextActivate \/ ContextInfo
         \/ NitzTime \/ NtpAsk \/ NtpSubscribe \/ NtpTake \/ NtpExpire
         \/ GnssQuality \/ GnssLocate \/ GnssGiveUp
         \/ \E report \in Reports : NtpReport(report)
         \/ Fix \/ Drop \/ UNCHANGED vars
BY DEF Next, IsCommand, SetModemFunctionality, SetContextConfiguration, ConfigureGnssPriority,
       TurnOnGnss, TurnOffGnss, ContextDeactivate

-----------------------------------------------------------------------------
(* The program stays in order, whatever its calls meet.                    *)
LEMMA CallStep ==
  ASSUME SessionInv, [Next]_vars
  PROVE  CallInv'
<1>1. CallInv
  BY DEF SessionInv
<1>2. ASSUME NEW p \in Programs, Start(p) PROVE CallInv'
  <2>1. Script(p) \in Todos /\ Ordered(Script(p)) /\ Script(p) # <<>>
    BY ScriptOrdered
  <2> QED
    BY <1>1, <1>2, <2>1 DEF CallInv, Start, LooksWanted
<1>3. ASSUME Stopped PROVE CallInv'
  BY <1>1, <1>3 DEF CallInv, Stopped
<1>4. ASSUME NEW call, NEW command, Exchange(call, command) PROVE CallInv'
  BY <1>1, <1>4, AfterOk, AfterErr DEF Exchange, Doing
<1>5. ASSUME GetSignalStrength PROVE CallInv'
  BY <1>1, <1>5, AfterOk, AfterErr DEF GetSignalStrength, Doing
<1>6. ASSUME ContextClear PROVE CallInv'
  BY <1>1, <1>6, AfterInside DEF ContextClear, Doing
<1>7. ASSUME ContextActivate PROVE CallInv'
  BY <1>1, <1>7, AfterInside, AfterErr DEF ContextActivate, Doing
<1>8. ASSUME ContextInfo PROVE CallInv'
  BY <1>1, <1>8, AfterOk, AfterErr DEF ContextInfo, Doing
<1>9. ASSUME NitzTime PROVE CallInv'
  BY <1>1, <1>9, AfterOk, AfterErr, AfterPanic DEF NitzTime, NitzUnparsable, Doing
<1>10. ASSUME NtpAsk PROVE CallInv'
  BY <1>1, <1>10, AfterInside, AfterErr DEF NtpAsk, Doing
<1>11. ASSUME NtpSubscribe PROVE CallInv'
  BY <1>1, <1>11, AfterInside DEF NtpSubscribe, Doing
<1>12. ASSUME NtpTake PROVE CallInv'
  BY <1>1, <1>12, AfterOk, AfterErr DEF NtpTake, Doing
<1>13. ASSUME NtpExpire PROVE CallInv'
  BY <1>1, <1>13, AfterErr DEF NtpExpire, Doing
<1>14. ASSUME GnssQuality PROVE CallInv'
  <2>1. /\ status = "running" /\ Head(todo)[1] = "get_gnss_location" /\ pc = "call"
        /\ todo \in Todos /\ Ordered(todo) /\ todo # <<>>
    BY <1>1, <1>14 DEF GnssQuality, Doing, CallInv
  <2>2. Ahead(todo, "get_gnss_location") /\ Len(todo) # 1
    BY <2>1, HeadOrdered
  <2>3. looks < LooksWanted /\ looks + 1 \in 0..LooksWanted
    BY <1>1, <2>1, <2>2 DEF CallInv, LooksWanted
  <2>4. /\ Tail(todo) \in Todos /\ Ordered(Tail(todo)) /\ Tail(todo) # <<>>
        /\ ~Ahead(Tail(todo), "get_gnss_location")
    BY <2>1, <2>2, TailOrdered
  <2>5. ASSUME NEW next \in {"locate", "off"}, Look(next) PROVE CallInv'
    BY <1>1, <2>1, <2>3, <2>5 DEF CallInv, Look
  <2>6. CASE NotFixed
    BY <1>1, <2>1, <2>3, <2>4, <2>6 DEF CallInv, NotFixed, Look
  <2> QED
    BY <1>14, <2>5, <2>6 DEF GnssQuality
<1>15. ASSUME GnssLocate PROVE CallInv'
  BY <1>1, <1>15, AfterOk, AfterInside DEF GnssLocate, Doing
<1>16. ASSUME GnssGiveUp PROVE CallInv'
  BY <1>1, <1>16, AfterPanic DEF GnssGiveUp, Doing
<1>17. ASSUME UNCHANGED <<program, pc>> PROVE CallInv'
  BY <1>1, <1>17 DEF CallInv, program
<1> QED
  BY <1>2, <1>3, <1>4, <1>5, <1>6, <1>7, <1>8, <1>9, <1>10, <1>11, <1>12, <1>13, <1>14, <1>15,
     <1>16, <1>17, NextSteps DEF NtpReport, Fix, Drop, vars

-----------------------------------------------------------------------------
(* The modem and the requests on it stay what they can be.                 *)
LEMMA MachineStep ==
  ASSUME SessionInv, [Next]_vars
  PROVE  MachineInv' /\ InboxInv'
<1>1. CallInv /\ MachineInv /\ InboxInv
  BY DEF SessionInv
<1>2. Fresh \in Modems /\ modem \in Modems
  BY <1>1 DEF Fresh, Modems, MachineInv
<1>21. asked \in Nat
  BY <1>1, Zenon DEF MachineInv
<1>3. (Mishap \/ NoMishap)
      => hit' \in {"yes", "no"} /\ faults' \in Nat
  <2>1. hit \in {"yes", "no"} /\ faults \in Nat
    BY <1>1 DEF MachineInv
  <2> QED
    BY <2>1 DEF Mishap, NoMishap
<1>4. ASSUME NEW c \in {"QIDEACT", "QIACT", "QGPSLOC", "power_off"}, Accepted(c) \/ Failed(c)
      PROVE  modem' \in Modems /\ (Mishap \/ NoMishap)
  <2>1. /\ [modem EXCEPT !.context = "inactive"] \in Modems
        /\ [modem EXCEPT !.context = modem.conf] \in Modems
    BY <1>2 DEF Modems
  <2>2. Does(c, modem) \in Modems
    BY <1>2, <2>1, ContextDoes
  <2> QED
    BY <1>2, <1>4, <2>2 DEF Accepted, Failed
<1>5. <<>> \in Inboxes /\ DOMAIN <<>> = {}
  BY EmptySeq DEF Inboxes
<1>6. ASSUME NEW p \in Programs, Start(p) PROVE MachineInv' /\ InboxInv'
  <2>1. [modem EXCEPT !.conf = Disowned(@), !.context = Disowned(@)] \in Modems
    BY <1>2 DEF Modems, Disowned
  <2>2. modem' \in Modems /\ asked' \in {asked, 0}
    BY <1>2, <1>6, <2>1 DEF Start
  <2>3. asked' \in Nat
    BY <1>21, <2>2
  <2>4. /\ status' = "running" /\ pc' = "call" /\ hit' = "no" /\ faults' = faults
        /\ sub' = "none" /\ inbox' = <<>> /\ clock' = "none"
    BY <1>6 DEF Start
  <2> QED
    BY <1>1, <1>5, <2>2, <2>3, <2>4 DEF MachineInv, InboxInv
<1>7. ASSUME Stopped PROVE MachineInv' /\ InboxInv'
  BY <1>1, <1>7 DEF Stopped, MachineInv, InboxInv, ntp
<1>8. ASSUME UNCHANGED ntp, modem' \in Modems, Mishap \/ NoMishap, status = "running",
             sub = "live" => status' = "panicked"
      PROVE  MachineInv' /\ InboxInv'
  BY <1>1, <1>3, <1>8 DEF MachineInv, InboxInv, ntp
<1>9. ASSUME NEW call, NEW command, IsCommand(call, command), Exchange(call, command)
      PROVE  MachineInv' /\ InboxInv'
  <2>1. Does(command, modem) \in Modems
    BY <1>2, <1>9, DoesWhat
  <2>2. pc = "call" /\ status = "running" /\ sub # "live"
    BY <1>1, <1>9 DEF Exchange, Doing, InboxInv
  <2>3. modem' \in Modems /\ (Mishap \/ NoMishap) /\ UNCHANGED ntp
    BY <1>2, <1>9, <2>1 DEF Exchange, Accepted, Failed
  <2> QED
    BY <1>8, <2>2, <2>3
<1>10. ASSUME GetSignalStrength \/ ContextInfo \/ NitzTime
       PROVE  MachineInv' /\ InboxInv'
  <2>1. pc # "wait" /\ status = "running" /\ sub # "live"
    BY <1>1, <1>10 DEF GetSignalStrength, ContextInfo, NitzTime, Doing, InboxInv
  <2>2. modem' = modem /\ (Mishap \/ NoMishap) /\ UNCHANGED ntp
    BY <1>10 DEF GetSignalStrength, ContextInfo, NitzTime, NitzUnparsable
  <2> QED
    BY <1>2, <1>8, <2>1, <2>2
<1>11. ASSUME ContextClear \/ ContextActivate \/ GnssLocate \/ GnssGiveUp
       PROVE  MachineInv' /\ InboxInv'
  <2>1. pc # "wait" /\ status = "running" /\ sub # "live"
    BY <1>1, <1>11 DEF ContextClear, ContextActivate, GnssLocate, GnssGiveUp, Doing, InboxInv
  <2>2. /\ UNCHANGED ntp
        /\ \E c \in {"QIDEACT", "QIACT", "QGPSLOC", "power_off"} : Accepted(c) \/ Failed(c)
    BY <1>11 DEF ContextClear, ContextActivate, GnssLocate, GnssGiveUp
  <2> QED
    BY <1>4, <1>8, <2>1, <2>2
<1>12. ASSUME GnssQuality PROVE MachineInv' /\ InboxInv'
  <2>1. pc # "wait" /\ status = "running" /\ sub # "live"
    BY <1>1, <1>12 DEF GnssQuality, Doing, InboxInv
  <2>2. modem' = modem /\ (Mishap \/ NoMishap) /\ UNCHANGED ntp
    BY <1>12 DEF GnssQuality
  <2> QED
    BY <1>2, <1>8, <2>1, <2>2
<1>13. ASSUME NtpAsk PROVE MachineInv' /\ InboxInv'
  <2>1. pc # "wait" /\ status = "running" /\ sub # "live" /\ asked' \in Nat
    <3>1. asked' \in {asked, asked + 1}
      BY <1>13 DEF NtpAsk
    <3>2. asked' \in Nat
      BY <1>21, <3>1
    <3> QED
      BY <1>1, <1>13, <3>2 DEF NtpAsk, Doing, InboxInv
  <2>2. /\ modem' = modem /\ (Mishap \/ NoMishap)
        /\ sub' = sub /\ inbox' = inbox /\ clock' = clock
    BY <1>13 DEF NtpAsk
  <2> QED
    BY <1>1, <1>3, <2>1, <2>2 DEF MachineInv, InboxInv
<1>14. ASSUME NtpSubscribe PROVE MachineInv' /\ InboxInv'
  BY <1>1, <1>3, <1>14 DEF NtpSubscribe, Doing, Inside, MachineInv, InboxInv
<1>15. ASSUME NtpTake PROVE MachineInv' /\ InboxInv'
  <2>1. /\ Head(inbox) = inbox[1] /\ 1 \in DOMAIN inbox
        /\ Head(inbox) \in Reported
    <3>1. inbox \in Inboxes /\ inbox # <<>>
      BY <1>1, <1>15 DEF NtpTake, MachineInv
    <3> QED
      BY <3>1, HeadTailProperties, LenProperties DEF Inboxes
  <2>2. Head(inbox).came = "in the wait"
    BY <1>1, <1>15, <2>1 DEF NtpTake, Doing, InboxInv
  <2>3. clock' \in {clock, "in the wait"}
    BY <1>15, <2>2 DEF NtpTake
  <2>4. modem' = modem /\ asked' = asked /\ sub' = "none" /\ inbox' = <<>> /\ NoMishap
    BY <1>15 DEF NtpTake
  <2> QED
    BY <1>1, <1>3, <1>5, <2>3, <2>4 DEF MachineInv, InboxInv
<1>16. ASSUME NtpExpire PROVE MachineInv' /\ InboxInv'
  <2>1. /\ modem' = modem /\ asked' = asked /\ sub' = "none" /\ NoMishap
        /\ inbox' = <<>> /\ clock' = clock
    BY <1>16 DEF NtpExpire
  <2> QED
    BY <1>1, <1>3, <1>5, <2>1 DEF MachineInv, InboxInv
<1>17. ASSUME NEW report \in Reports, NtpReport(report) PROVE MachineInv' /\ InboxInv'
  <2> DEFINE entry == [says |-> report, came |-> IF pc = "wait" THEN "in the wait" ELSE "before"]
  <2>1. /\ UNCHANGED <<program, pc, hit, modem, sub, clock, faults>> /\ asked > 0 /\ asked' = asked - 1
        /\ (inbox' = inbox \/ (sub # "none" /\ inbox' = Append(inbox, entry)))
    BY <1>17 DEF NtpReport
  <2>2. inbox \in Inboxes /\ entry \in Reported
    BY <1>1 DEF MachineInv, Reported
  <2>3. /\ Append(inbox, entry) \in Inboxes /\ Len(inbox) \in Nat
        /\ DOMAIN inbox = 1..Len(inbox)
        /\ DOMAIN Append(inbox, entry) = 1..(Len(inbox) + 1)
        /\ \A k \in 1..Len(inbox) : Append(inbox, entry)[k] = inbox[k]
        /\ Append(inbox, entry)[Len(inbox) + 1] = entry
    <3> HIDE DEF entry
    <3>1. Len(inbox) \in Nat /\ DOMAIN inbox = 1..Len(inbox)
      BY <2>2, LenProperties DEF Inboxes
    <3>2. /\ Append(inbox, entry) \in Inboxes /\ Len(Append(inbox, entry)) = Len(inbox) + 1
          /\ \A k \in 1..Len(inbox) : Append(inbox, entry)[k] = inbox[k]
          /\ Append(inbox, entry)[Len(inbox) + 1] = entry
      BY <2>2, AppendProperties DEF Inboxes
    <3>3. DOMAIN Append(inbox, entry) = 1..Len(Append(inbox, entry))
      BY <3>2, LenProperties DEF Inboxes
    <3> QED
      BY <3>1, <3>2, <3>3
  <2>4. MachineInv'
    <3>1. asked' \in Nat
      <4>1. asked > 0 /\ asked' = asked - 1
        BY <1>17 DEF NtpReport
      <4> HIDE DEF entry
      <4> QED
        BY <1>21, <4>1
    <3>2. inbox' \in Inboxes
      BY <2>1, <2>2, <2>3
    <3> HIDE DEF entry
    <3> QED
      BY <1>1, <2>1, <3>1, <3>2 DEF MachineInv
  <2>5. ASSUME status = "running", sub # "none", NEW k \in DOMAIN Append(inbox, entry)
        PROVE  Append(inbox, entry)[k].came = "in the wait"
    <3>1. pc = "wait" /\ entry.came = "in the wait"
      BY <1>1, <2>5 DEF InboxInv, MachineInv
    <3>2. CASE k = Len(inbox) + 1
      BY <2>3, <3>1, <3>2
    <3>3. CASE k \in DOMAIN inbox
      BY <1>1, <2>3, <2>5, <3>3 DEF InboxInv
    <3>4. k = Len(inbox) + 1 \/ k \in DOMAIN inbox
      <4> HIDE DEF entry
      <4> QED
        BY <2>3, <2>5
    <3> QED
      BY <3>2, <3>3, <3>4
  <2> HIDE DEF entry
  <2> QED
    BY <1>1, <2>1, <2>4, <2>5 DEF InboxInv, program
<1>18. ASSUME Fix PROVE MachineInv' /\ InboxInv'
  <2>1. [modem EXCEPT !.gnss = "fixed"] \in Modems
    BY <1>2 DEF Modems
  <2> QED
    BY <1>1, <1>18, <2>1 DEF Fix, MachineInv, InboxInv, ntp, program
<1>19. ASSUME Drop PROVE MachineInv' /\ InboxInv'
  <2>1. /\ [modem EXCEPT !.registered = "no", !.context = "inactive"] \in Modems
        /\ [modem EXCEPT !.gnss = IF @ = "fixed" THEN "searching" ELSE @] \in Modems
    BY <1>2 DEF Modems
  <2>2. modem' \in Modems /\ asked' \in {asked, 0} /\ Mishap
    BY <1>2, <1>19, <2>1 DEF Drop
  <2>3. UNCHANGED <<program, pc, sub, inbox, clock>>
    BY <1>19 DEF Drop
  <2>4. asked' \in Nat
    BY <1>21, <2>2
  <2> QED
    BY <1>1, <1>3, <2>2, <2>3, <2>4 DEF MachineInv, InboxInv, program
<1>20. ASSUME UNCHANGED vars PROVE MachineInv' /\ InboxInv'
  BY <1>1, <1>20 DEF MachineInv, InboxInv, vars, ntp, program
<1> QED
  BY <1>6, <1>7, <1>9, <1>10, <1>11, <1>12, <1>13, <1>14, <1>15, <1>16, <1>17, <1>18, <1>19,
     <1>20, NextSteps

-----------------------------------------------------------------------------
(* A program that is still on its way to its sockets after a call made it  *)
(* as it should: the name of the call is ahead no more, every other one is *)
(* where it was, and no Err of it was unwrapped.                           *)
LEMMA GoesOn ==
  ASSUME CallInv, status = "running", Ok \/ Err, status' = "running", Ahead(todo', "use")
  PROVE  /\ Ok /\ pc' = "call"
         /\ \A call : Ahead(todo', call) <=> Ahead(todo, call) /\ call # Head(todo)[1]
         /\ Err => Head(todo)[2] = "log"
<1>1. todo \in Todos /\ Ordered(todo) /\ todo # <<>>
  BY DEF CallInv
<1>2. Err => Ok /\ Head(todo)[2] = "log"
  <2>1. ASSUME Err PROVE Ok /\ Head(todo)[2] = "log"
    <3>1. ~SimFails
      BY SimFailedOrdered DEF SimFails
    <3>2. ~Panic
      BY DEF Panic
    <3>3. Head(todo) \in Entries
      BY <1>1, HeadOrdered
    <3> QED
      BY <2>1, <3>1, <3>2, <3>3, AfterErr DEF Entries
  <2> QED
    BY <2>1
<1>3. Ok
  BY <1>2
<1> QED
  BY <1>1, <1>2, <1>3, TailOrdered DEF Ok

(* What the next program finds in the modem is never taken for its own,    *)
(* and a run that meets no mishap finds what its calls left.               *)
Owned == ContextInv /\ CleanInv /\ LeftoverNeverKills

LEMMA StartOwned ==
  ASSUME NEW p \in Programs, Start(p)
  PROVE  Owned'
<1>1. status' = "running" /\ todo' = Script(p) /\ pc' = "call"
  BY DEF Start
<1> QED
  BY <1>1, ScriptComplete DEF Owned, ContextInv, CleanInv, LeftoverNeverKills

LEMMA ExchangeOwned ==
  ASSUME SessionInv, NEW call, NEW command, IsCommand(call, command), Exchange(call, command)
  PROVE  Owned'
<1>1. CallInv /\ MachineInv /\ Owned /\ modem \in Modems
  BY DEF SessionInv, Owned, MachineInv
<1>2. /\ status = "running" /\ pc = "call" /\ Head(todo)[1] = call
      /\ todo \in Todos /\ Ordered(todo) /\ todo # <<>>
  BY <1>1 DEF Exchange, Doing, CallInv
<1>3. (Ok \/ Err) /\ call # "context_activate"
  BY DEF Exchange, IsCommand, Elsewhere
<1>4. \/ Accepted(command) /\ Ok
      \/ Failed(command) /\ Err
  BY DEF Exchange
<1>5. modem' \in {modem, Does(command, modem)} /\ Does(command, modem) \in Modems
  BY <1>1, <1>4, DoesWhat DEF Accepted, Failed
<1>6. ASSUME status' = "running", Ahead(todo', "use")
      PROVE  /\ Ok /\ pc' = "call" /\ call # "power_off" /\ Ahead(todo, "use")
             /\ \A c : Ahead(todo', c) <=> Ahead(todo, c) /\ c # call
             /\ call \in {"set_context_configuration", "radio_on", "network_attach"} =>
                  modem' = Does(command, modem)
  <2>1. /\ Ok /\ pc' = "call" /\ Ahead(todo, "use") /\ (Err => Head(todo)[2] = "log")
        /\ \A c : Ahead(todo', c) <=> Ahead(todo, c) /\ c # call
    BY <1>1, <1>2, <1>3, <1>6, GoesOn
  <2>2. /\ call # "power_off"
        /\ call \in {"set_context_configuration", "radio_on", "network_attach"} =>
             Head(todo)[2] = "unwrap"
    BY <1>2, <2>1, HeadOrdered
  <2>3. Head(todo)[2] = "unwrap" => modem' = Does(command, modem)
    BY <1>4, <2>1 DEF Accepted
  <2> QED
    BY <2>1, <2>2, <2>3
<1>7. ContextInv'
  <2> SUFFICES ASSUME status' = "running", Ahead(todo', "use")
               PROVE  /\ ~Ahead(todo', "set_context_configuration") => modem'.conf # "other"
                      /\ ~Ahead(todo', "context_activate") \/ pc' = "info" =>
                           modem'.context # "other"
    BY DEF ContextInv
  <2>1. ~Ahead(todo', "set_context_configuration") => modem'.conf # "other"
    <3>1. call = "set_context_configuration" => modem'.conf = "mine"
      <4>1. call = "set_context_configuration" => command = "QICSGP"
        BY DEF IsCommand, Elsewhere
      <4> QED
        BY <1>1, <1>6, <4>1, DoesWhat
    <3>2. modem'.conf \in {modem.conf, "mine"}
      BY <1>1, <1>5, <1>6, DoesWhat
    <3> QED
      BY <1>1, <1>2, <1>6, <3>1, <3>2 DEF Owned, ContextInv
  <2>2. ~Ahead(todo', "context_activate") => modem'.context # "other"
    <3>1. modem'.context \in {modem.context, "inactive"}
      BY <1>1, <1>5, <1>6, DoesWhat
    <3> QED
      BY <1>1, <1>2, <1>3, <1>6, <3>1 DEF Owned, ContextInv
  <2> QED
    BY <1>6, <2>1, <2>2
<1>8. CleanInv'
  <2> SUFFICES ASSUME status' = "running", hit' = "no"
               PROVE  /\ Ahead(todo', "use") =>
                           /\ ~Ahead(todo', "radio_on") => modem'.radio = "on"
                           /\ ~Ahead(todo', "network_attach") => modem'.registered = "yes"
                           /\ ~Ahead(todo', "context_activate") => modem'.context # "inactive"
                      /\ pc' = "call"
    BY DEF CleanInv
  <2>1. /\ hit = "no"
        /\ pc' = "call"
    <3>1. NoMishap
      BY <1>4 DEF Accepted, Failed, Mishap
    <3> QED
      BY <1>1, <1>2, <1>3, <3>1, AfterErr DEF NoMishap, Ok
  <2> SUFFICES ASSUME Ahead(todo', "use")
               PROVE  /\ ~Ahead(todo', "radio_on") => modem'.radio = "on"
                      /\ ~Ahead(todo', "network_attach") => modem'.registered = "yes"
                      /\ ~Ahead(todo', "context_activate") => modem'.context # "inactive"
    BY <2>1
  <2>2. /\ ~Ahead(todo, "radio_on") => modem.radio = "on"
        /\ ~Ahead(todo, "network_attach") => modem.registered = "yes"
        /\ ~Ahead(todo, "context_activate") => modem.context # "inactive"
    BY <1>1, <1>2, <1>6, <2>1 DEF Owned, CleanInv
  <2>3. /\ call = "radio_off" =>
             /\ Ahead(todo', "radio_on") /\ Ahead(todo', "network_attach")
             /\ Ahead(todo', "context_activate")
        /\ call # "context_deactivate"
    BY <1>2, <1>6, HeadOrdered
  <2>4. ~Ahead(todo', "radio_on") => modem'.radio = "on"
    BY <1>1, <1>5, <1>6, <2>2, <2>3, DoesWhat
  <2>5. ~Ahead(todo', "network_attach") => modem'.registered = "yes"
    BY <1>1, <1>5, <1>6, <2>2, <2>3, DoesWhat
  <2>6. ~Ahead(todo', "context_activate") => modem'.context # "inactive"
    BY <1>1, <1>3, <1>5, <1>6, <2>2, <2>3, DoesWhat
  <2> QED
    BY <2>4, <2>5, <2>6
<1>9. LeftoverNeverKills'
  <2> SUFFICES ASSUME status' = "panicked", hit' = "no"
               PROVE  FALSE
    BY DEF LeftoverNeverKills
  <2>1. /\ Failed(command) /\ Err /\ todo' = todo /\ Head(todo)[2] = "unwrap"
        /\ Refuses(command, modem) /\ hit = "no"
    <3>1. Failed(command) /\ Err
      BY <1>4 DEF Ok
    <3>2. Refuses(command, modem) /\ hit = "no"
      BY <3>1 DEF Failed, Mishap, NoMishap
    <3> QED
      BY <1>1, <1>2, <3>1, <3>2, AfterErr
  <2>2. CASE call = "network_attach"
    <3>1. Ahead(todo, "use") /\ ~Ahead(todo, "radio_on")
      BY <1>2, <2>2, HeadOrdered
    <3>2. modem.radio = "on"
      BY <1>1, <1>2, <2>1, <3>1 DEF Owned, CleanInv
    <3>3. command = "network_attach"
      BY <2>2 DEF IsCommand, Elsewhere
    <3> QED
      BY <2>1, <3>2, <3>3 DEF Refuses
  <2>3. CASE call = "use"
    <3>1. Ahead(todo, "use") /\ ~Ahead(todo, "context_activate")
      BY <1>2, <2>3, HeadOrdered
    <3>2. modem.context # "inactive"
      BY <1>1, <1>2, <2>1, <3>1 DEF Owned, CleanInv
    <3>3. command = "use"
      BY <2>3 DEF IsCommand, Elsewhere
    <3> QED
      BY <2>1, <3>2, <3>3 DEF Refuses
  <2>4. CASE call \notin {"network_attach", "use"}
    <3>1. command = "QGPS" /\ modem.gnss # "off"
      BY <2>1, <2>4 DEF IsCommand, Elsewhere, Refuses
    <3>2. call = "turn_on_gnss"
      BY <3>1 DEF IsCommand, Elsewhere
    <3>3. Ahead(todo, "turn_on_gnss")
      BY <1>2, <3>2, HeadOrdered
    <3> QED
      BY <1>2, <2>1, <3>1, <3>3 DEF SessionInv, GnssInv
  <2> QED
    BY <2>2, <2>3, <2>4
<1> QED
  BY <1>7, <1>8, <1>9 DEF Owned


LEMMA ActivateOwned ==
  ASSUME SessionInv, ContextClear \/ ContextActivate \/ ContextInfo
  PROVE  Owned'
<1>1. CallInv /\ MachineInv /\ Owned /\ modem \in Modems
  BY DEF SessionInv, Owned, MachineInv
<1>2. /\ status = "running" /\ Head(todo)[1] = "context_activate"
      /\ todo \in Todos /\ Ordered(todo) /\ todo # <<>>
  BY <1>1 DEF ContextClear, ContextActivate, ContextInfo, Doing, CallInv
<1>3. /\ Ahead(todo, "context_activate") /\ Ahead(todo, "use") /\ Head(todo)[2] = "unwrap"
      /\ ~Ahead(todo, "set_context_configuration") /\ ~Ahead(todo, "network_attach")
  BY <1>2, HeadOrdered
<1>4. /\ modem.conf # "other"
      /\ pc = "info" => modem.context # "other"
      /\ hit = "no" => /\ ~Ahead(todo, "radio_on") => modem.radio = "on"
                       /\ modem.registered = "yes"
                       /\ pc = "activate" => modem.context = "inactive"
                       /\ pc = "info" => modem.context # "inactive"
  BY <1>1, <1>2, <1>3 DEF Owned, ContextInv, CleanInv
<1>5. Err => Panic
  BY <1>1, <1>2, <1>3, AfterErr
<1>6. CASE ContextClear
  <2>1. pc' = "activate" /\ todo' = todo /\ status' = "running"
    BY <1>2, <1>6 DEF ContextClear, Inside
  <2>2. /\ modem' \in {modem, [modem EXCEPT !.context = "inactive"]}
        /\ hit' = "no" => hit = "no" /\ modem' = [modem EXCEPT !.context = "inactive"]
    BY <1>1, <1>6, ContextDoes DEF ContextClear, Accepted, Failed, Mishap, NoMishap
  <2>3. /\ modem'.conf = modem.conf /\ modem'.radio = modem.radio
        /\ modem'.registered = modem.registered
        /\ hit' = "no" => modem'.context = "inactive"
    BY <1>1, <2>2 DEF Modems
  <2> QED
    BY <1>3, <1>4, <2>1, <2>2, <2>3 DEF Owned, ContextInv, CleanInv, LeftoverNeverKills
<1>7. CASE ContextActivate /\ Accepted("QIACT") /\ Inside("info")
  <2>1. pc' = "info" /\ todo' = todo /\ status' = "running"
    BY <1>2, <1>7 DEF Inside
  <2>2. hit' = hit /\ modem' = [modem EXCEPT !.context = modem.conf]
    BY <1>1, <1>7, ContextDoes DEF Accepted, NoMishap
  <2>3. /\ modem'.conf = modem.conf /\ modem'.radio = modem.radio
        /\ modem'.registered = modem.registered /\ modem'.context = modem.conf
        /\ modem.conf # "inactive"
    BY <1>1, <2>2 DEF Modems
  <2> QED
    BY <1>3, <1>4, <2>1, <2>2, <2>3 DEF Owned, ContextInv, CleanInv, LeftoverNeverKills
<1>8. CASE ContextActivate /\ Failed("QIACT") /\ Err
  <2>1. status' = "panicked"
    BY <1>5, <1>8 DEF Panic
  <2>2. hit' # "no"
    <3>1. pc = "activate"
      BY <1>8 DEF ContextActivate, Doing
    <3>2. ASSUME hit' = "no" PROVE FALSE
      <4>1. hit = "no" /\ Refuses("QIACT", modem)
        BY <1>8, <3>2 DEF Failed, Mishap, NoMishap
      <4> QED
        BY <1>1, <1>4, <3>1, <4>1, ContextDoes
    <3> QED
      BY <3>2
  <2> QED
    BY <2>1, <2>2 DEF Owned, ContextInv, CleanInv, LeftoverNeverKills
<1>9. CASE ContextInfo /\ Ok
  <2>1. pc = "info" /\ pc' = "call" /\ modem' = modem
    BY <1>9 DEF ContextInfo, Doing, Ok
  <2>2. hit' = "no" => hit = "no"
    BY <1>9 DEF ContextInfo, Mishap, NoMishap
  <2>3. \A call : Ahead(todo', call) <=> Ahead(todo, call) /\ call # "context_activate"
    BY <1>2, <1>9, TailOrdered DEF Ok
  <2>4. status' # "panicked"
    BY <1>9 DEF Ok
  <2> QED
    BY <1>3, <1>4, <2>1, <2>2, <2>3, <2>4 DEF Owned, ContextInv, CleanInv, LeftoverNeverKills
<1>10. CASE ContextInfo /\ ~Ok
  <2>1. status' = "panicked"
    BY <1>5, <1>10 DEF ContextInfo, Panic
  <2>2. hit' # "no"
    BY <1>4, <1>10 DEF ContextInfo, ContextListed, Mishap, NoMishap, Doing
  <2> QED
    BY <2>1, <2>2 DEF Owned, ContextInv, CleanInv, LeftoverNeverKills
<1> QED
  BY <1>6, <1>7, <1>8, <1>9, <1>10 DEF ContextActivate

(* The calls that leave the context to the modem.                          *)
LEMMA OtherCallsOwned ==
  ASSUME SessionInv, status = "running", modem' = modem,
         Head(todo)[1] \in {"get_signal_strength", "get_nitz_time", "get_ntp_time",
                            "get_gnss_location"},
         pc # "info", NoMishap \/ Mishap,
         \/ todo' = Tail(todo) /\ pc' = "call" /\ status' # "panicked"
         \/ todo' = todo /\ pc' \in {"call", "asked", "wait", "locate", "off"}
              /\ (status' = "panicked" => Mishap)
              /\ (pc' = "locate" /\ NoMishap => modem.gnss = "fixed")
              /\ (pc' = "off" => Mishap)
  PROVE  Owned'
<1>1. CallInv /\ Owned
  BY DEF SessionInv, Owned
<1>2. \A call : call # Head(todo)[1] => (Ahead(todo', call) <=> Ahead(todo, call))
  <2>1. todo \in Todos /\ Ordered(todo) /\ todo # <<>>
    BY <1>1 DEF CallInv
  <2> QED
    BY <2>1, TailOrdered
<1>3. hit' = "no" => hit = "no" /\ ~Mishap
  BY DEF Mishap, NoMishap
<1> QED
  BY <1>1, <1>2, <1>3 DEF Owned, ContextInv, CleanInv, LeftoverNeverKills


LEMMA OthersOwned ==
  ASSUME SessionInv,
         \/ GetSignalStrength \/ NitzTime \/ NtpAsk \/ NtpSubscribe \/ NtpTake \/ NtpExpire
         \/ GnssQuality \/ GnssLocate \/ GnssGiveUp
  PROVE  Owned'
<1>1. CallInv /\ MachineInv /\ Owned /\ modem \in Modems
  BY DEF SessionInv, Owned, MachineInv
<1>2. /\ status = "running" /\ todo \in Todos /\ Ordered(todo) /\ todo # <<>>
      /\ Head(todo)[1] \in {"get_signal_strength", "get_nitz_time", "get_ntp_time",
                            "get_gnss_location"}
  BY <1>1 DEF CallInv, Doing, GetSignalStrength, NitzTime, NtpAsk, NtpSubscribe, NtpTake,
              NtpExpire, GnssQuality, GnssLocate, GnssGiveUp
<1>3. Ok => todo' = Tail(todo) /\ pc' = "call" /\ status' # "panicked"
  BY DEF Ok
<1>4. Panic => todo' = todo /\ pc' = "call" /\ status' = "panicked"
  BY DEF Panic
<1>5. CASE GetSignalStrength
  <2>1. /\ pc = "call" /\ modem' = modem /\ (NoMishap \/ Mishap) /\ (Ok \/ Err)
        /\ Head(todo)[1] = "get_signal_strength"
    BY <1>5 DEF GetSignalStrength, Doing
  <2>2. ~Ahead(todo, "network_attach") /\ Ahead(todo, "use")
    BY <1>2, <2>1, HeadOrdered
  <2>3. hit = "no" => modem.registered = "yes"
    BY <1>1, <1>2, <2>2 DEF Owned, CleanInv
  <2>4. ~Ok => Panic
    BY <1>1, <1>2, <2>1, AfterErr, HeadOrdered DEF Entries
  <2>5. CASE Ok
    BY <1>2, <1>3, <2>1, <2>5, OtherCallsOwned
  <2>6. CASE ~Ok /\ Mishap
    BY <1>2, <1>4, <2>1, <2>4, <2>6, OtherCallsOwned
  <2>7. CASE ~Ok /\ ~Mishap
    <3>1. NoMishap /\ modem.registered = "no"
      BY <1>5, <2>7 DEF GetSignalStrength
    <3>2. hit' # "no" /\ status' # "running"
      BY <1>4, <2>3, <2>4, <2>7, <3>1 DEF NoMishap
    <3> QED
      BY <3>2 DEF Owned, ContextInv, CleanInv, LeftoverNeverKills
  <2> QED
    BY <2>5, <2>6, <2>7
<1>6. Head(todo)[1] \in {"get_nitz_time", "get_ntp_time"} /\ Err => Ok
  BY <1>1, <1>2, AfterErr, HeadOrdered
<1>7. CASE NitzTime
  <2>1. /\ pc = "call" /\ modem' = modem /\ Head(todo)[1] = "get_nitz_time"
        /\ \/ (NoMishap \/ Mishap) /\ Ok
           \/ Mishap /\ Panic
    BY <1>6, <1>7 DEF NitzTime, NitzUnparsable, Doing
  <2> QED
    BY <1>2, <1>3, <1>4, <2>1, OtherCallsOwned
<1>8. CASE NtpAsk \/ NtpSubscribe \/ NtpTake \/ NtpExpire
  <2>1. /\ pc # "info" /\ modem' = modem /\ Head(todo)[1] = "get_ntp_time"
        /\ NoMishap \/ Mishap
        /\ Ok \/ Inside("asked") \/ Inside("wait")
    BY <1>6, <1>8 DEF NtpAsk, NtpSubscribe, NtpTake, NtpExpire, Doing
  <2>2. Inside("asked") \/ Inside("wait") =>
          todo' = todo /\ pc' \in {"asked", "wait"} /\ status' = "running"
    BY <1>2 DEF Inside
  <2> QED
    BY <1>2, <1>3, <2>1, <2>2, OtherCallsOwned
<1>9. CASE GnssQuality
  <2>1. /\ pc = "call" /\ modem' = modem /\ Head(todo)[1] = "get_gnss_location"
        /\ \/ modem.gnss = "fixed" /\ NoMishap /\ Look("locate")
           \/ NoMishap /\ NotFixed
           \/ Mishap /\ Look("off")
    BY <1>9 DEF GnssQuality, Doing
  <2>2. \A next : Look(next) => todo' = todo /\ pc' = next /\ status' = "running"
    BY <1>2 DEF Look
  <2>3. NotFixed => pc' = "call" /\ status' = "running" /\ todo' \in {todo, Tail(todo)}
    BY <1>2 DEF NotFixed, Look
  <2> QED
    BY <1>2, <2>1, <2>2, <2>3, OtherCallsOwned
<1>10. CASE GnssLocate
  <2>1. /\ pc = "locate" /\ modem' = modem /\ Head(todo)[1] = "get_gnss_location"
        /\ \/ NoMishap /\ Ok
           \/ Failed("QGPSLOC") /\ Inside("off")
    BY <1>1, <1>10, ContextDoes DEF GnssLocate, Doing, Accepted, Failed
  <2>2. hit = "no" => modem.gnss = "fixed"
    BY <1>1, <1>2, <2>1 DEF Owned, CleanInv
  <2>3. Failed("QGPSLOC") => Mishap \/ (hit # "no" /\ hit' = hit)
    BY <1>1, <2>2, ContextDoes DEF Failed, NoMishap
  <2>4. Inside("off") => todo' = todo /\ pc' = "off" /\ status' = "running"
    BY <1>2 DEF Inside
  <2>5. CASE NoMishap /\ Ok
    BY <1>2, <1>3, <2>1, <2>5, OtherCallsOwned
  <2>6. CASE Inside("off") /\ Mishap
    BY <1>2, <2>1, <2>4, <2>6, OtherCallsOwned
  <2>7. CASE Inside("off") /\ hit # "no" /\ hit' = hit
    BY <1>1, <1>2, <2>1, <2>4, <2>7 DEF Owned, ContextInv, CleanInv, LeftoverNeverKills
  <2> QED
    BY <2>1, <2>3, <2>5, <2>6, <2>7
<1>11. CASE GnssGiveUp
  <2>1. pc = "off" /\ Panic
    BY <1>11 DEF GnssGiveUp, Doing
  <2>2. hit # "no"
    BY <1>1, <1>2, <2>1 DEF Owned, CleanInv
  <2>3. hit' # "no"
    BY <1>11, <2>2 DEF GnssGiveUp, Accepted, Failed, Mishap, NoMishap
  <2> QED
    BY <1>4, <2>1, <2>3 DEF Owned, ContextInv, CleanInv, LeftoverNeverKills
<1> QED
  BY <1>5, <1>7, <1>8, <1>9, <1>10, <1>11

LEMMA ModemOwned ==
  ASSUME SessionInv,
         \/ \E report \in Reports : NtpReport(report)
         \/ Fix \/ Drop \/ Stopped \/ UNCHANGED vars
  PROVE  Owned'
<1>1. MachineInv /\ Owned /\ modem \in Modems
  BY DEF SessionInv, Owned, MachineInv
<1>2. CASE Stopped
  BY <1>1, <1>2 DEF Stopped, Owned, ContextInv, CleanInv, LeftoverNeverKills
<1>3. CASE (\E report \in Reports : NtpReport(report)) \/ UNCHANGED vars
  <2>1. UNCHANGED <<todo, status, pc, hit, modem>>
    BY <1>3 DEF NtpReport, vars, program
  <2> QED
    BY <1>1, <2>1 DEF Owned, ContextInv, CleanInv, LeftoverNeverKills
<1>4. CASE Fix
  <2>1. /\ UNCHANGED <<todo, status, pc, hit>> /\ modem'.gnss = "fixed"
        /\ modem'.conf = modem.conf /\ modem'.context = modem.context
        /\ modem'.radio = modem.radio /\ modem'.registered = modem.registered
    BY <1>1, <1>4 DEF Fix, program, Modems
  <2> QED
    BY <1>1, <2>1 DEF Owned, ContextInv, CleanInv, LeftoverNeverKills
<1>5. CASE Drop
  <2>1. UNCHANGED <<todo, status, pc>> /\ hit' = "yes"
    BY <1>5 DEF Drop, Mishap, program
  <2>2. /\ modem'.conf \in {modem.conf, "blank"}
        /\ modem'.context \in {modem.context, "inactive"}
    <3>1. CASE modem' = [modem EXCEPT !.registered = "no", !.context = "inactive"]
      BY <1>1, <3>1 DEF Modems
    <3>2. CASE modem' = [modem EXCEPT !.gnss = IF @ = "fixed" THEN "searching" ELSE @]
      BY <1>1, <3>2 DEF Modems
    <3>3. CASE modem' = Fresh
      BY <3>3 DEF Fresh
    <3> QED
      BY <1>5, <3>1, <3>2, <3>3 DEF Drop
  <2> QED
    BY <1>1, <2>1, <2>2 DEF Owned, ContextInv, CleanInv, LeftoverNeverKills
<1> QED
  BY <1>2, <1>3, <1>4, <1>5

-----------------------------------------------------------------------------
(* What a step that neither turns the GNSS on nor fixes a position leaves. *)
LEMMA GnssKept ==
  ASSUME CallInv, GnssInv, modem'.gnss \in {modem.gnss, "off"},
         (Mishap \/ NoMishap) \/ hit' = hit, status = "running" \/ status' = status,
         todo' \in {todo, Tail(todo), SimFailed(name)}
  PROVE  GnssInv'
<1> SUFFICES ASSUME status' = "running", hit' = "no", Ahead(todo', "turn_on_gnss")
             PROVE  modem'.gnss = "off"
  BY DEF GnssInv
<1>1. status = "running" /\ hit = "no" /\ todo' \in {todo, Tail(todo)}
  BY SimFailedOrdered DEF Mishap, NoMishap
<1>2. todo \in Todos /\ Ordered(todo) /\ todo # <<>>
  BY <1>1 DEF CallInv
<1>3. Ahead(todo, "turn_on_gnss")
  BY <1>1, <1>2, TailOrdered
<1> QED
  BY <1>1, <1>3 DEF GnssInv

LEMMA GnssStep ==
  ASSUME SessionInv, [Next]_vars
  PROVE  GnssInv'
<1>1. CallInv /\ MachineInv /\ GnssInv /\ modem \in Modems
  BY DEF SessionInv, MachineInv
<1>2. CallInv /\ GnssInv
  BY <1>1
<1>3. /\ Ok => todo' = Tail(todo)
      /\ Err => todo' \in {todo, Tail(todo), SimFailed(name)}
  BY DEF Ok, Err, SimFails, Panic
<1>4. ASSUME NEW p \in Programs, Start(p) PROVE GnssInv'
  <2>1. CASE p = "esp32_mqtt"
    BY <1>4, <2>1 DEF Start, Fresh, GnssInv
  <2>2. CASE p # "esp32_mqtt"
    BY <1>4, <2>2, OnlyEsp32Locates DEF Start, GnssInv
  <2> QED
    BY <2>1, <2>2
<1>5. CASE Stopped
  BY <1>5 DEF Stopped, GnssInv
<1>6. ASSUME NEW call, NEW command, IsCommand(call, command), Exchange(call, command)
      PROVE  GnssInv'
  <2>1. /\ status = "running" /\ Head(todo)[1] = call /\ (Mishap \/ NoMishap)
        /\ \/ Ok /\ modem' = Does(command, modem)
           \/ Err /\ modem' \in {modem, Does(command, modem)}
    BY <1>6 DEF Exchange, Doing, Accepted, Failed
  <2>2. CASE call # "turn_on_gnss"
    <3>1. modem'.gnss \in {modem.gnss, "off"}
      BY <1>1, <1>6, <2>1, <2>2, DoesWhat
    <3> QED
      BY <1>1, <1>2, <1>3, <2>1, <3>1, GnssKept
  <2>3. CASE call = "turn_on_gnss"
    <3>1. todo \in Todos /\ Ordered(todo) /\ todo # <<>>
      BY <1>1, <2>1 DEF CallInv
    <3>2. status' = "running" => todo' \in {Tail(todo), SimFailed(name)}
      BY <2>1 DEF Ok, Err, SimFails, Panic
    <3>3. ~Ahead(Tail(todo), "turn_on_gnss") /\ ~Ahead(SimFailed(name), "turn_on_gnss")
      BY <2>1, <2>3, <3>1, TailOrdered, SimFailedOrdered
    <3> QED
      BY <3>2, <3>3 DEF GnssInv
  <2> QED
    BY <2>2, <2>3
<1>7. CASE ContextClear \/ ContextActivate \/ GnssLocate \/ GnssGiveUp
  <2>1. /\ status = "running" /\ (Mishap \/ NoMishap)
        /\ \/ modem' = modem
           \/ \E c \in {"QIDEACT", "QIACT", "QGPSLOC", "power_off"} : modem' = Does(c, modem)
    BY <1>7 DEF ContextClear, ContextActivate, GnssLocate, GnssGiveUp, Doing, Accepted, Failed
  <2>2. /\ [modem EXCEPT !.context = "inactive"].gnss = modem.gnss
        /\ [modem EXCEPT !.context = modem.conf].gnss = modem.gnss
        /\ Does("power_off", modem).gnss = "off"
    BY <1>1 DEF Modems, Does, Fresh
  <2>3. modem'.gnss \in {modem.gnss, "off"}
    BY <1>1, <2>1, <2>2, ContextDoes
  <2>4. todo' \in {todo, Tail(todo), SimFailed(name)}
    BY <1>3, <1>7
       DEF ContextClear, ContextActivate, GnssLocate, GnssGiveUp, Inside, Panic
  <2> QED
    BY <1>1, <1>2, <2>1, <2>3, <2>4, GnssKept
<1>8. CASE GetSignalStrength \/ ContextInfo \/ NitzTime
  <2>1. /\ status = "running" /\ (Mishap \/ NoMishap) /\ modem' = modem
        /\ todo' \in {todo, Tail(todo), SimFailed(name)}
    BY <1>3, <1>8 DEF GetSignalStrength, ContextInfo, NitzTime, NitzUnparsable, Doing, Panic
  <2> QED
    BY <1>1, <1>2, <2>1, GnssKept
<1>9. CASE NtpAsk \/ NtpSubscribe \/ NtpTake \/ NtpExpire
  <2>1. /\ status = "running" /\ (Mishap \/ NoMishap) /\ modem' = modem
        /\ todo' \in {todo, Tail(todo), SimFailed(name)}
    BY <1>3, <1>9 DEF NtpAsk, NtpSubscribe, NtpTake, NtpExpire, Doing, Inside
  <2> QED
    BY <1>1, <1>2, <2>1, GnssKept
<1>10. CASE GnssQuality
  <2>1. /\ status = "running" /\ (Mishap \/ NoMishap) /\ modem' = modem
        /\ todo' \in {todo, Tail(todo), SimFailed(name)}
    BY <1>10 DEF GnssQuality, Doing, Look, NotFixed
  <2> QED
    BY <1>1, <1>2, <2>1, GnssKept
<1>11. CASE (\E report \in Reports : NtpReport(report)) \/ UNCHANGED vars
  <2>1. UNCHANGED <<todo, status, hit, modem>>
    BY <1>11 DEF NtpReport, vars, program
  <2> QED
    BY <1>1, <2>1, GnssKept
<1>12. CASE Fix
  <2>1. modem.gnss = "searching" /\ UNCHANGED <<todo, status, hit>>
    BY <1>12 DEF Fix, program
  <2> QED
    BY <1>1, <2>1 DEF GnssInv
<1>13. CASE Drop
  <2>1. hit' = "yes"
    BY <1>13 DEF Drop, Mishap
  <2> QED
    BY <2>1 DEF GnssInv
<1> QED
  BY <1>4, <1>5, <1>6, <1>7, <1>8, <1>9, <1>10, <1>11, <1>12, <1>13, NextSteps

-----------------------------------------------------------------------------
LEMMA SessionInductive ==
  /\ Init => SessionInv
  /\ SessionInv /\ [Next]_vars => SessionInv'
<1>1. ASSUME Init PROVE SessionInv
  <2>1. <<>> \in Todos /\ <<>> \in Inboxes /\ DOMAIN <<>> = {}
    BY EmptySeq DEF Todos, Inboxes
  <2>2. Ordered(<<>>)
    BY <2>1 DEF Ordered, First, Leads
  <2>3. CallInv
    BY <1>1, <2>1, <2>2 DEF Init, CallInv, LooksWanted
  <2>4. [Fresh EXCEPT !.power = "off"] \in Modems
    BY DEF Fresh, Modems
  <2> QED
    BY <1>1, <2>1, <2>3, <2>4
       DEF Init, SessionInv, MachineInv, ContextInv, CleanInv, GnssInv, InboxInv,
           LeftoverNeverKills
<1>2. ASSUME SessionInv, [Next]_vars PROVE SessionInv'
  <2>1. CallInv' /\ MachineInv' /\ InboxInv' /\ GnssInv'
    BY <1>2, CallStep, MachineStep, GnssStep
  <2>2. Owned'
    BY <1>2, NextSteps, StartOwned, ExchangeOwned, ActivateOwned, OthersOwned, ModemOwned
  <2> QED
    BY <2>1, <2>2 DEF SessionInv, Owned
<1> QED
  BY <1>1, <1>2

LEMMA SessionAlways == Spec => []SessionInv
BY SessionInductive, PTL DEF Spec

(* Programs, modem and reports have their types, and a program that ended  *)
(* made all its calls.                                                     *)
THEOREM TypeCorrect == Spec => []TypeOK
<1>1. SessionInv => TypeOK
  BY DEF SessionInv, CallInv, MachineInv, InboxInv, TypeOK, Modems, Inboxes, Reported, Doing
<1> QED
  BY <1>1, SessionAlways, PTL

(* However the programs before it ended, a program uses its sockets or its *)
(* broker on a context activated with the APN it configured itself.        *)
THEOREM UseIsOnOwnContextHolds == Spec => []UseIsOnOwnContext
<1>1. SessionInv => UseIsOnOwnContext
  <2> SUFFICES ASSUME SessionInv, Doing("use", "call") PROVE modem.context # "other"
    BY DEF UseIsOnOwnContext
  <2>1. /\ status = "running" /\ Head(todo)[1] = "use"
        /\ todo \in Todos /\ Ordered(todo) /\ todo # <<>>
    BY DEF SessionInv, CallInv, Doing
  <2>2. Ahead(todo, "use") /\ ~Ahead(todo, "context_activate")
    BY <2>1, HeadOrdered
  <2> QED
    BY <2>1, <2>2 DEF SessionInv, ContextInv
<1> QED
  BY <1>1, SessionAlways, PTL

(* Whatever was left on the modem, a program that meets no mishap of its   *)
(* own runs to its end.                                                    *)
THEOREM LeftoverNeverKillsHolds == Spec => []LeftoverNeverKills
<1>1. SessionInv => LeftoverNeverKills
  BY DEF SessionInv
<1> QED
  BY <1>1, SessionAlways, PTL

(* The tick count get_ntp_time returns was read when the report came whose *)
(* time it returns, whichever request that report is of.                   *)
THEOREM ClockPairIsOfOneMomentHolds == Spec => []ClockPairIsOfOneMoment
<1>1. SessionInv => ClockPairIsOfOneMoment
  BY DEF SessionInv, InboxInv, ClockPairIsOfOneMoment
<1> QED
  BY <1>1, SessionAlways, PTL
=============================================================================
