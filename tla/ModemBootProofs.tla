--------------------------- MODULE ModemBootProofs ---------------------------
(***************************************************************************)
(* What the driver does by the clock before there is a network.  Power,    *)
(* identity and SIM, for every boot, stop and initialisation time that the *)
(* assumption allows and any number of calls and failures; and, at the     *)
(* end, network_attach, whose state is its own, for every timeout, delay   *)
(* and answer time.                                                        *)
(***************************************************************************)
EXTENDS ModemBoot, NetworkAttach, SequenceTheorems, TLAPS

(* The types, with the steps and results spelled out.                      *)
Words == {"other", "down", "busy", "cme10", "cme11"}
Modems == [power : {"off", "booting", "on", "stopping"}, left : Nat, noise : 0..2,
           echo : {"on", "off"}, sim : {"ready", "pin", "absent", "puk"}, simLeft : Nat,
           firmware : Firmwares]
Timed(m) == m.power \in {"booting", "stopping"} <=> m.left > 0

TypeInv ==
  /\ op \in {"none", "new", "power_on", "power_off", "is_alive", "test_sim"}
  /\ pc \in Steps \cup Results /\ tries \in 0..9 /\ heard \in Seq(Words)
  /\ driver \in {"none", "building", "made"} /\ quiet \in {"yes", "slow", "lost", "no"}
  /\ modem \in Modems /\ Timed(modem)
  /\ imei \in {"none", "read"} /\ (imei = "read" => rev # "none")
  /\ (driver = "made" <=> imei = "read")

(* Which call a step is of, and what the step relies on.                   *)
CallInv ==
  /\ pc \in {"key", "settle", "probe", "probeWait", "echo", "echoWait"} =>
       op \in {"new", "power_on"}
  /\ pc \in {"revision", "revisionWait", "imei"} => op = "new"
  /\ pc = "imei" => rev # "none"
  /\ pc \in {"qpowd", "offWait", "offProbe"} => op = "power_off"
  /\ pc = "alive" => op = "is_alive"
  /\ pc \in {"cpin", "iccid", "simWait", "simDrain"} => op = "test_sim"
  /\ pc \in {"key", "settle", "qpowd"} => tries = 0
  /\ modem.power = "stopping" /\ quiet # "no" => op = "power_off" \/ pc \in Results

(* What new and power_on have achieved at each step.                       *)
ReadyInv ==
  op \in {"new", "power_on"} /\ quiet # "no" =>
    /\ pc \in {"revision", "revisionWait", "imei", "Ok"} =>
         modem.power = "on" /\ modem.echo = "off"
    /\ pc = "imei" => rev = RevisionOf(modem.firmware)
    /\ pc = "Ok" /\ op = "new" => imei = "read" /\ rev = RevisionOf(modem.firmware)

(* A modem that was told to stop is off by the end of the last look.       *)
OffInv ==
  op = "power_off" /\ quiet \in {"yes", "slow"} =>
    /\ pc \in {"qpowd", "offWait"} => \A i \in DOMAIN heard : heard[i] = "down" => modem.power = "off"
    /\ pc = "qpowd" => modem.power # "stopping"
    /\ pc = "offWait" => modem.power \in {"stopping", "off"} /\ modem.left <= 110 - 10 * tries
    /\ pc = "offProbe" => modem.power \in {"stopping", "off"} /\ modem.left <= 10
    /\ pc = "Ok" => modem.power = "off"

(* RDY and APP RDY are two, and the attempts are three.                    *)
CollisionInv ==
  op \in {"new", "power_on"} /\ quiet = "yes" =>
    /\ pc = "key" => modem.power \in {"off", "on"}
    /\ pc = "settle" => modem.power = "on" \/ (modem.power = "booting" /\ modem.left <= 50)
    /\ pc \in {"probe", "echo", "revision"} => modem.power = "on" /\ tries + modem.noise <= 2
    /\ pc \in {"probeWait", "echoWait", "revisionWait"} =>
         modem.power = "on" /\ tries + modem.noise <= 1
    /\ pc \in Results => pc = "Ok" \/ (op = "new" /\ rev # "none")

(* What test_sim heard is true, and its attempts outlast the SIM's         *)
(* initialisation and the two collisions.                                  *)
Told == \E i \in DOMAIN heard : heard[i] \in IsSimError
SimIn(n) == modem.simLeft = 0 \/ modem.simLeft + n <= 50
SimHeard ==
  op = "test_sim" =>
    /\ \A i \in DOMAIN heard : /\ heard[i] = "cme10" => modem.sim = "absent"
                               /\ heard[i] = "cme11" => modem.sim = "pin"
    /\ pc \in {"iccid", "Ok"} => modem.sim = "ready"
    /\ pc = "SimError" => modem.sim \in {"pin", "absent"}
SimInTime ==
  op = "test_sim" =>
    /\ pc \in {"cpin", "simWait", "simDrain"} => tries <= 4
    /\ quiet = "yes" => modem.power \in {"off", "on"}
    /\ quiet = "yes" /\ modem.power = "on" /\ modem.sim # "puk" =>
         /\ pc = "cpin" => tries + modem.noise <= 4 /\ SimIn(25 * tries)
         /\ pc = "simWait" => SimIn(25 * tries + 10)
         /\ pc = "simDrain" => SimIn(25 * tries + 15)
         /\ pc \in {"simWait", "simDrain"} => Told \/ tries < 2 \/ tries + modem.noise <= 3
         /\ pc # "SimErrorUnknown"

BootInv ==
  TypeInv /\ CallInv /\ ReadyInv /\ OffInv /\ CollisionInv /\ SimHeard /\ SimInTime

-----------------------------------------------------------------------------
(* Of time.                                                                *)
LEMMA AfterWhat ==
  ASSUME NEW m \in Modems, Timed(m), NEW n \in Nat
  PROVE  LET a == After(m, n) IN
         /\ a \in Modems /\ Timed(a) /\ a.sim = m.sim /\ a.firmware = m.firmware
         /\ m.power = "off" => a.power = "off"
         /\ m.power = "on" =>
              /\ a.power = "on" /\ a.echo = m.echo /\ a.noise = m.noise /\ a.left = m.left
              /\ a.simLeft = IF m.simLeft <= n THEN 0 ELSE m.simLeft - n
         /\ m.power = "stopping" =>
              IF m.left <= n THEN a.power = "off" /\ a.left = 0
                             ELSE a.power = "stopping" /\ a.left = m.left - n
         /\ m.power = "booting" =>
              IF m.left <= n THEN a.power = "on"
                             ELSE a.power = "booting" /\ a.left = m.left - n
<1> DEFINE a == After(m, n)
<1>1. /\ m.left \in Nat /\ m.simLeft \in Nat /\ m.noise \in 0..2
      /\ m.power \in {"off", "booting", "on", "stopping"}
      /\ m.power \in {"booting", "stopping"} <=> m.left > 0
  BY DEF Modems, Timed
<1>2. ASSUME NEW x \in Nat, NEW y \in Nat
      PROVE  LessOrZero(x, y) = (IF x <= y THEN 0 ELSE x - y) /\ LessOrZero(x, y) \in Nat
  BY DEF LessOrZero
<1>3. CASE m.power = "off"
  <2>1. a = [m EXCEPT !.left = LessOrZero(m.left, n)] /\ LessOrZero(m.left, n) = 0
    BY <1>1, <1>2, <1>3 DEF After
  <2> QED
    BY <1>1, <1>3, <2>1 DEF Modems, Timed
<1>4. CASE m.power = "on"
  <2>1. a = [m EXCEPT !.simLeft = LessOrZero(m.simLeft, n)]
    BY <1>4 DEF After
  <2> QED
    BY <1>1, <1>2, <1>4, <2>1 DEF Modems, Timed
<1>5. CASE m.power = "stopping" /\ m.left <= n
  <2>1. a = [m EXCEPT !.power = "off", !.left = 0, !.noise = 0]
    BY <1>5 DEF After
  <2>2. a \in Modems
    <3> DEFINE b == [m EXCEPT !.power = "off", !.left = 0]
    <3>1. b \in Modems
      BY DEF Modems
    <3>2. a = [b EXCEPT !.noise = 0]
      BY <2>1
    <3> HIDE DEF b
    <3> QED
      BY <3>1, <3>2 DEF Modems
  <2>3. a.left = 0 /\ a.sim = m.sim /\ a.firmware = m.firmware /\ a.power = "off"
    BY <1>1, <1>5, <2>1 DEF Modems
  <2> QED
    BY <1>1, <1>5, <2>2, <2>3 DEF Timed
<1>6. CASE m.power = "booting" /\ m.left <= n
  <2>1. /\ a = [m EXCEPT !.power = "on", !.left = 0, !.noise = 2, !.echo = "on",
                         !.simLeft = LessOrZero(m.simLeft, n - m.left)]
        /\ LessOrZero(m.simLeft, n - m.left) \in Nat
    BY <1>1, <1>2, <1>6 DEF After
  <2>2. a \in Modems
    <3> DEFINE b == [m EXCEPT !.power = "on", !.left = 0]
               c == [b EXCEPT !.noise = 2]
               d == [c EXCEPT !.echo = "on"]
    <3>1. b \in Modems
      BY DEF Modems
    <3>2. c \in Modems
      <4> HIDE DEF b
      <4> QED
        BY <3>1 DEF Modems
    <3>3. d \in Modems
      <4> HIDE DEF c
      <4> QED
        BY <3>2 DEF Modems
    <3>4. a = [d EXCEPT !.simLeft = LessOrZero(m.simLeft, n - m.left)]
      BY <2>1
    <3> HIDE DEF d
    <3> QED
      BY <2>1, <3>3, <3>4 DEF Modems
  <2>3. a.left = 0 /\ a.sim = m.sim /\ a.firmware = m.firmware /\ a.power = "on"
    BY <1>1, <1>6, <2>1 DEF Modems
  <2> QED
    BY <1>1, <1>6, <2>2, <2>3 DEF Timed
<1>7. CASE m.power \in {"stopping", "booting"} /\ ~(m.left <= n)
  <2>1. a = [m EXCEPT !.left = LessOrZero(m.left, n)] /\ LessOrZero(m.left, n) = m.left - n
        /\ m.left - n \in Nat /\ m.left - n > 0
    BY <1>1, <1>2, <1>7 DEF After
  <2> QED
    BY <1>1, <1>7, <2>1 DEF Modems, Timed
<1> QED
  BY <1>1, <1>3, <1>4, <1>5, <1>6, <1>7

LEMMA ElapseWhat ==
  ASSUME TypeInv, NEW m \in Modems, Timed(m), NEW n \in Nat, Elapse(m, n)
  PROVE  /\ modem' = After(m, n) /\ modem' \in Modems /\ Timed(modem')
         /\ heard' \in Seq(Words)
         /\ \/ heard' = heard
            \/ heard' = Append(heard, "down") /\ m.power = "stopping" /\ modem'.power = "off"
<1>1. heard \in Seq(Words) /\ "down" \in Words
  BY DEF TypeInv, Words
<1>2. modem' = After(m, n) /\ modem' \in Modems /\ Timed(modem')
  BY AfterWhat DEF Elapse
<1>3. \/ heard' = heard
      \/ heard' = Append(heard, "down") /\ m.power = "stopping" /\ m.left <= n
  BY DEF Elapse
<1>4. Append(heard, "down") \in Seq(Words)
  BY <1>1, AppendProperties
<1>5. m.power = "stopping" /\ m.left <= n => modem'.power = "off"
  BY <1>2, AfterWhat
<1> QED
  BY <1>1, <1>2, <1>3, <1>4, <1>5

(* A command that is not answered.  What it does to an answering modem it  *)
(* may have done all the same.                                             *)
LEMMA FailedWhat ==
  ASSUME TypeInv, NEW m \in Modems, Timed(m), m.noise = modem.noise,
         NEW n \in Nat, NEW no, Failed(m, n, no)
  PROVE  /\ pc' = no /\ modem' \in Modems /\ Timed(modem') /\ heard' \in Seq(Words)
         /\ \/ /\ modem.power = "on" /\ modem.noise > 0 /\ quiet' = quiet
               /\ \E g \in Modems : /\ Timed(g) /\ g = [m EXCEPT !.noise = @ - 1]
                                    /\ modem' = After(g, n) /\ Elapse(g, n)
            \/ modem.power # "on" /\ quiet' = quiet /\ Elapse(modem, n)
            \/ /\ modem.power = "on" /\ quiet' = (IF quiet = "no" THEN "no" ELSE "lost")
               /\ \E g \in {modem, m} : Elapse(g, n)
<1>1. modem \in Modems /\ Timed(modem)
  BY DEF TypeInv
<1>2. CASE Garbled(m, n, no)
  <2> DEFINE g == [m EXCEPT !.noise = @ - 1]
  <2>1. g \in Modems /\ Timed(g)
    BY <1>2 DEF Garbled, Modems, Timed
  <2>2. Elapse(g, n) /\ modem.power = "on" /\ modem.noise > 0 /\ pc' = no /\ quiet' = quiet
    BY <1>2 DEF Garbled, NoFault
  <2> HIDE DEF g
  <2>3. modem' = After(g, n) /\ modem' \in Modems /\ Timed(modem') /\ heard' \in Seq(Words)
    BY <2>1, <2>2, ElapseWhat
  <2> QED
    BY <2>1, <2>2, <2>3 DEF g
<1>3. CASE Unanswered(m, n, no)
  <2>1. \E g \in {modem, m} : Elapse(g, n)
    BY <1>3 DEF Unanswered
  <2>2. modem' \in Modems /\ Timed(modem') /\ heard' \in Seq(Words)
    BY <1>1, <2>1, ElapseWhat
  <2> QED
    BY <1>3, <2>2 DEF Unanswered, NoFault
<1> QED
  BY <1>2, <1>3 DEF Failed

(* Time that passes for the modem as it is, whether or not it heard what   *)
(* it was told meanwhile.                                                  *)
Passes(n) ==
  /\ modem' \in Modems /\ Timed(modem') /\ heard' \in Seq(Words)
  /\ modem'.sim = modem.sim /\ modem'.firmware = modem.firmware
  /\ modem.power = "off" => modem'.power = "off"
  /\ modem.power = "on" =>
       /\ modem'.power = "on" /\ modem'.echo \in {modem.echo, "off"} /\ heard' = heard
       /\ modem'.simLeft = IF modem.simLeft <= n THEN 0 ELSE modem.simLeft - n
  /\ modem.power = "stopping" =>
       IF modem.left <= n THEN modem'.power = "off"
                          ELSE modem'.power = "stopping" /\ modem'.left = modem.left - n
  /\ modem.power = "booting" =>
       IF modem.left <= n THEN modem'.power = "on"
                          ELSE modem'.power = "booting" /\ modem'.left = modem.left - n
  /\ \/ heard' = heard
     \/ heard' = Append(heard, "down") /\ modem.power = "stopping" /\ modem'.power = "off"

LEMMA ElapsePasses ==
  ASSUME TypeInv, NEW n \in Nat, Elapse(modem, n)
  PROVE  Passes(n) /\ (modem.power = "on" => modem'.noise = modem.noise)
<1>1. modem \in Modems /\ Timed(modem)
  BY DEF TypeInv
<1> QED
  BY <1>1, ElapseWhat, AfterWhat DEF Passes

LEMMA GarbledPasses ==
  ASSUME TypeInv, NEW n \in Nat, NEW no, Garbled(modem, n, no)
  PROVE  /\ Passes(n) /\ pc' = no /\ quiet' = quiet
         /\ modem.power = "on" /\ modem.noise > 0 /\ modem'.noise = modem.noise - 1
<1> DEFINE g == [modem EXCEPT !.noise = @ - 1]
<1>1. modem \in Modems /\ Timed(modem) /\ modem.power = "on" /\ modem.noise > 0
  BY DEF TypeInv, Garbled
<1>2. /\ g \in Modems /\ Timed(g) /\ g.noise = modem.noise - 1 /\ g.power = "on"
      /\ g.echo = modem.echo /\ g.sim = modem.sim /\ g.firmware = modem.firmware
      /\ g.simLeft = modem.simLeft
  BY <1>1 DEF Modems, Timed
<1>3. Elapse(g, n) /\ pc' = no /\ quiet' = quiet
  BY DEF Garbled, NoFault
<1> HIDE DEF g
<1>4. /\ modem' = After(g, n) /\ modem' \in Modems /\ Timed(modem')
      /\ heard' \in Seq(Words) /\ heard' = heard
  BY <1>2, <1>3, ElapseWhat
<1>5. /\ modem'.sim = modem.sim /\ modem'.firmware = modem.firmware /\ modem'.power = "on"
      /\ modem'.echo = modem.echo /\ modem'.noise = modem.noise - 1
      /\ modem'.simLeft = IF modem.simLeft <= n THEN 0 ELSE modem.simLeft - n
  <2>1. LET a == After(g, n) IN
        /\ a.sim = g.sim /\ a.firmware = g.firmware /\ a.power = "on" /\ a.echo = g.echo
        /\ a.noise = g.noise /\ a.simLeft = IF g.simLeft <= n THEN 0 ELSE g.simLeft - n
    BY <1>2, AfterWhat
  <2> QED
    BY <1>2, <1>4, <2>1
<1> QED
  BY <1>1, <1>3, <1>4, <1>5 DEF Passes

(* What the driver can tell of a command that failed.                      *)
Fails ==
  \/ /\ modem.power = "on" /\ modem.noise > 0 /\ modem'.noise = modem.noise - 1
     /\ quiet' = quiet
  \/ modem.power # "on" /\ quiet' = quiet
  \/ modem.power = "on" /\ quiet' = (IF quiet = "no" THEN "no" ELSE "lost")

LEMMA FailedPasses ==
  ASSUME TypeInv, NEW n \in Nat, NEW no, Failed(modem, n, no)
  PROVE  Passes(n) /\ pc' = no /\ Fails
<1>1. CASE Garbled(modem, n, no)
  BY <1>1, GarbledPasses DEF Fails
<1>2. CASE Unanswered(modem, n, no)
  <2>1. Elapse(modem, n) /\ pc' = no /\ Fails
    BY <1>2 DEF Unanswered, Fails, NoFault
  <2> QED
    BY <2>1, ElapsePasses
<1> QED
  BY <1>1, <1>2 DEF Failed

LEMMA EchoOffPasses ==
  ASSUME TypeInv, NEW n \in Nat, NEW no, Failed([modem EXCEPT !.echo = "off"], n, no)
  PROVE  Passes(n) /\ pc' = no /\ Fails
<1> DEFINE e == [modem EXCEPT !.echo = "off"]
           g == [e EXCEPT !.noise = @ - 1]
<1>1. modem \in Modems /\ Timed(modem)
  BY DEF TypeInv
<1>2. /\ e \in Modems /\ Timed(e) /\ e.power = modem.power /\ e.echo = "off"
      /\ e.noise = modem.noise /\ e.sim = modem.sim /\ e.firmware = modem.firmware
      /\ e.simLeft = modem.simLeft /\ e.left = modem.left
  BY <1>1 DEF Modems, Timed
<1> HIDE DEF e
<1>3. CASE Garbled(e, n, no)
  <2>1. modem.power = "on" /\ modem.noise > 0 /\ pc' = no /\ quiet' = quiet /\ Elapse(g, n)
    BY <1>3 DEF Garbled, NoFault
  <2>2. /\ g \in Modems /\ Timed(g) /\ g.noise = modem.noise - 1 /\ g.power = "on"
        /\ g.echo = "off" /\ g.sim = modem.sim /\ g.firmware = modem.firmware
        /\ g.simLeft = modem.simLeft
    BY <1>2, <2>1 DEF Modems, Timed
  <2> HIDE DEF g
  <2> QED
    BY <2>1, <2>2, ElapseWhat, AfterWhat DEF Passes, Fails
<1>4. CASE Unanswered(e, n, no)
  <2>1. pc' = no /\ Fails /\ (Elapse(modem, n) \/ (modem.power = "on" /\ Elapse(e, n)))
    BY <1>4 DEF Unanswered, Fails, NoFault
  <2>2. CASE Elapse(modem, n)
    BY <2>1, <2>2, ElapsePasses
  <2>3. CASE modem.power = "on" /\ Elapse(e, n)
    BY <1>2, <2>1, <2>3, ElapseWhat, AfterWhat DEF Passes
  <2> QED
    BY <2>1, <2>2, <2>3
<1> QED
  BY <1>3, <1>4 DEF Failed, e

(***************************************************************************)
(* One step at a time.  Outside the steps that listen, what was heard and  *)
(* the SIM are nobody's business.                                          *)
(***************************************************************************)
LEMMA InitBoot == Init => BootInv
<1> SUFFICES ASSUME Init PROVE BootInv
  OBVIOUS
<1>1. modem \in Modems /\ Timed(modem) /\ modem.power \in {"off", "on"}
  BY DEF Init, Modems, Timed
<1>2. heard \in Seq(Words)
  BY EmptySeq DEF Init
<1>3. TypeInv
  BY <1>1, <1>2 DEF Init, TypeInv, Results
<1> QED
  BY <1>1, <1>3 DEF Init, BootInv, CallInv, ReadyInv, OffInv, CollisionInv, SimHeard, SimInTime,
       Results

LEMMA BeginStep ==
  ASSUME BootInv, NEW o, NEW label, Begin(o, label),
         \/ o \in {"new", "power_on"} /\ label = "key"
         \/ o = "power_off" /\ label = "qpowd"
         \/ o = "is_alive" /\ label = "alive"
         \/ o = "test_sim" /\ label = "cpin"
  PROVE  BootInv'
<1>1. /\ op' = o /\ pc' = label /\ tries' = 0 /\ heard' = <<>> /\ modem' = modem
      /\ quiet' = IF modem.power = "stopping" THEN "no"
                  ELSE IF modem.power = "booting" \/ modem.simLeft > 50 THEN "slow" ELSE "yes"
  BY DEF Begin, SimBudget
<1>2. modem' \in Modems /\ Timed(modem)' /\ heard' \in Seq(Words)
  BY <1>1, EmptySeq DEF BootInv, TypeInv, Timed
<1>3. /\ driver' \in {"none", "building", "made"} /\ imei' \in {"none", "read"}
      /\ imei' = "read" => rev' # "none"
      /\ driver' = "made" <=> imei' = "read"
  BY DEF BootInv, TypeInv, Begin
<1>4. TypeInv'
  BY <1>1, <1>2, <1>3 DEF TypeInv, Steps
<1>5. CallInv' /\ ReadyInv'
  BY <1>1 DEF CallInv, ReadyInv, Results
<1>6. modem.power \in {"off", "booting", "on", "stopping"} /\ modem.noise \in 0..2
      /\ modem.simLeft \in Nat
  BY DEF BootInv, TypeInv, Modems
<1>7. OffInv' /\ CollisionInv'
  BY <1>1, <1>6 DEF OffInv, CollisionInv, Results
<1>8. SimHeard' /\ SimInTime'
  BY <1>1, <1>6 DEF SimHeard, SimInTime, SimIn
<1> QED
  BY <1>4, <1>5, <1>7, <1>8 DEF BootInv

(* What an answer changes of what the invariants speak of.                 *)
LEMMA AnsweredWhat ==
  ASSUME TypeInv, NEW m \in Modems, Timed(m), NEW yes, Answered(m, yes)
  PROVE  /\ modem' = m /\ pc' = yes /\ heard' = heard /\ quiet' = quiet
         /\ modem.power \in {"on", "stopping"}
         /\ modem' \in Modems /\ Timed(modem)' /\ heard' \in Seq(Words)
  BY DEF Answered, NoFault, TypeInv, Timed

LEMMA RetryWhat ==
  ASSUME TypeInv, NEW delay \in Nat, NEW attempts \in 1..5, NEW again, NEW giveUp,
         Retry(delay, attempts, again, giveUp)
  PROVE  /\ Passes(delay) /\ quiet' = quiet
         /\ modem.power = "on" => modem'.noise = modem.noise
         /\ tries' \in 0..9
         /\ \/ tries + 1 < attempts /\ tries' = tries + 1 /\ pc' = again
            \/ tries + 1 >= attempts /\ tries' = 0 /\ pc' = giveUp
<1>1. Elapse(modem, delay) /\ quiet' = quiet
  BY DEF Retry, NoFault
<1>2. tries \in 0..9
  BY DEF TypeInv
<1> QED
  BY <1>1, <1>2, ElapsePasses DEF Retry

(* The types of a step that reads nothing.                                 *)
LEMMA TypeStep ==
  ASSUME TypeInv, UNCHANGED Known, NEW n, Passes(n), pc' \in Steps \cup Results,
         tries' \in 0..9, quiet' \in {"yes", "slow", "lost", "no"}
  PROVE  TypeInv'
  BY DEF TypeInv, Passes, Known, Timed

LEMMA SendPowerKeyStep ==
  ASSUME ModemBootAssumption, BootInv, SendPowerKey
  PROVE  BootInv'
<1>1. /\ pc = "key" /\ pc' = "settle" /\ op \in {"new", "power_on"} /\ op' = op
      /\ tries = 0 /\ tries' = 0 /\ TypeInv /\ UNCHANGED Known
      /\ modem.power = "stopping" => quiet = "no"
  BY DEF SendPowerKey, BootInv, CallInv, Known, Results
<1>2. /\ modem' \in Modems /\ Timed(modem)' /\ heard' \in Seq(Words)
      /\ quiet' \in {"yes", "slow", "lost", "no"}
      /\ modem'.power = "stopping" => quiet' = "no"
      /\ quiet' = "yes" /\ modem.power \in {"off", "on"} =>
           modem'.power = "on" \/ (modem'.power = "booting" /\ modem'.left <= 50)
      /\ quiet' = "yes" => quiet = "yes"
  <2>1. modem \in Modems /\ Timed(modem) /\ heard \in Seq(Words)
        /\ quiet \in {"yes", "slow", "lost", "no"}
    BY <1>1 DEF TypeInv
  <2>2. ASSUME NEW t \in BootTimes, NEW s \in SimTimes, modem.power = "off",
               modem' = [modem EXCEPT !.power = "booting", !.left = t, !.simLeft = s],
               quiet' = IF t > BootBudget /\ quiet = "yes" THEN "slow" ELSE quiet,
               heard' = heard
        PROVE  <1>2!:
    <3>1. t \in Nat /\ t > 0 /\ s \in Nat
      BY DEF ModemBootAssumption
    <3> DEFINE b == [modem EXCEPT !.power = "booting", !.left = t]
    <3>2. b \in Modems /\ b.power = "booting" /\ b.left = t
      BY <2>1, <3>1 DEF Modems
    <3>3. modem' = [b EXCEPT !.simLeft = s]
      BY <2>2
    <3> HIDE DEF b
    <3>4. modem' \in Modems /\ modem'.power = "booting" /\ modem'.left = t
      BY <3>1, <3>2, <3>3 DEF Modems
    <3> QED
      BY <2>1, <2>2, <3>1, <3>4 DEF Timed, BootBudget
  <2>3. ASSUME modem.power # "off", Elapse(modem, 5), NoFault
        PROVE  <1>2!:
    <3>1. Passes(5) /\ quiet' = quiet
      BY <1>1, <2>3, ElapsePasses DEF NoFault
    <3>2. /\ modem' \in Modems /\ Timed(modem)' /\ heard' \in Seq(Words)
          /\ modem'.power \in {"off", "booting", "on", "stopping"}
      BY <3>1 DEF Passes, Timed, Modems
    <3>3. /\ modem'.power = "stopping" => modem.power = "stopping"
          /\ modem.power = "on" => modem'.power = "on"
      BY <2>1, <3>1 DEF Passes, Modems
    <3> QED
      BY <1>1, <2>1, <2>3, <3>1, <3>2, <3>3
  <2>4. ASSUME NEW t \in StopTimes, modem.power = "on", quiet' = "no", heard' = heard,
               modem' = [modem EXCEPT !.power = "stopping", !.left = t]
        PROVE  <1>2!:
    <3>1. t \in Nat /\ t > 0
      BY DEF ModemBootAssumption
    <3> QED
      BY <2>1, <2>4, <3>1 DEF Modems, Timed
  <2> QED
    BY <2>2, <2>3, <2>4 DEF SendPowerKey
<1>3. TypeInv'
  BY <1>1, <1>2 DEF TypeInv, Known, Steps
<1>4. CallInv' /\ ReadyInv'
  BY <1>1, <1>2 DEF CallInv, ReadyInv, Results
<1>5. CollisionInv'
  BY <1>1, <1>2 DEF BootInv, CollisionInv, Results
<1>6. OffInv' /\ SimHeard' /\ SimInTime'
  BY <1>1 DEF OffInv, SimHeard, SimInTime
<1> QED
  BY <1>3, <1>4, <1>5, <1>6 DEF BootInv

LEMMA SettleStep ==
  ASSUME BootInv, Settle
  PROVE  BootInv'
<1>1. /\ pc = "settle" /\ pc' = "probe" /\ op \in {"new", "power_on"} /\ op' = op
      /\ tries = 0 /\ tries' = 0 /\ TypeInv /\ UNCHANGED Known /\ quiet' = quiet
      /\ Passes(50) /\ (modem.power = "stopping" => quiet = "no")
  BY ElapsePasses DEF Settle, BootInv, CallInv, Known, Results, NoFault
<1>2. TypeInv'
  BY <1>1, TypeStep DEF TypeInv, Steps
<1>3. CallInv' /\ ReadyInv'
  BY <1>1 DEF TypeInv, Modems, CallInv, ReadyInv, Results, Passes
<1>4. CollisionInv'
  <2>1. modem'.noise \in 0..2
    BY <1>1 DEF Passes, Modems
  <2> QED
    BY <1>1, <2>1 DEF BootInv, CollisionInv, Results, Passes
<1>5. OffInv' /\ SimHeard' /\ SimInTime'
  BY <1>1 DEF OffInv, SimHeard, SimInTime
<1> QED
  BY <1>2, <1>3, <1>4, <1>5 DEF BootInv

LEMMA ProbeStep ==
  ASSUME BootInv, Probe
  PROVE  BootInv'
<1>1. /\ pc \in {"probe", "probeWait"} /\ op \in {"new", "power_on"} /\ op' = op
      /\ tries \in 0..9 /\ TypeInv /\ UNCHANGED Known
      /\ quiet \in {"yes", "slow", "lost", "no"}
      /\ modem \in Modems /\ Timed(modem) /\ modem.noise \in 0..2
      /\ modem.power = "stopping" => quiet = "no"
  BY DEF Probe, BootInv, TypeInv, CallInv, Known, Modems, Results
<1>2. OffInv' /\ SimHeard' /\ SimInTime'
  BY <1>1 DEF OffInv, SimHeard, SimInTime
<1>3. CASE pc = "probe" /\ Answered(modem, "echo") /\ tries' = 0
  <2>1. /\ modem' = modem /\ pc' = "echo" /\ heard' = heard /\ quiet' = quiet
    BY <1>1, <1>3, AnsweredWhat
  <2>2. TypeInv'
    BY <1>1, <1>3, <2>1 DEF TypeInv, Steps, Known, Timed
  <2>3. CallInv' /\ ReadyInv' /\ CollisionInv'
    BY <1>1, <1>3, <2>1 DEF BootInv, CallInv, ReadyInv, CollisionInv, Results
  <2> QED
    BY <1>2, <2>2, <2>3 DEF BootInv
<1>4. CASE pc = "probe" /\ Failed(modem, 10, "probeWait") /\ tries' = tries
  <2>1. Passes(10) /\ pc' = "probeWait" /\ Fails
    BY <1>1, <1>4, FailedPasses
  <2>2. TypeInv'
    BY <1>1, <1>4, <2>1, TypeStep DEF Steps, Fails
  <2>3. CallInv' /\ ReadyInv'
    BY <1>1, <1>4, <2>1 DEF BootInv, CallInv, ReadyInv, Results, Passes, Fails, Modems
  <2>4. CollisionInv'
    BY <1>1, <1>4, <2>1 DEF BootInv, CollisionInv, Results, Passes, Fails
  <2> QED
    BY <1>2, <2>2, <2>3, <2>4 DEF BootInv
<1>5. CASE pc = "probeWait" /\ Retry(50, ProbeAttempts, "probe", "NotResponding")
  <2>1. /\ Passes(50) /\ quiet' = quiet /\ (modem.power = "on" => modem'.noise = modem.noise)
        /\ tries' \in 0..9
        /\ \/ tries + 1 < 3 /\ tries' = tries + 1 /\ pc' = "probe"
           \/ tries + 1 >= 3 /\ tries' = 0 /\ pc' = "NotResponding"
    BY <1>1, <1>5, RetryWhat DEF ProbeAttempts
  <2>2. TypeInv'
    BY <1>1, <2>1, TypeStep DEF Steps, Results
  <2>3. CallInv' /\ ReadyInv'
    BY <1>1, <1>5, <2>1 DEF BootInv, CallInv, ReadyInv, Results, Passes, Modems
  <2>4. CollisionInv'
    BY <1>1, <1>5, <2>1 DEF BootInv, CollisionInv, Results, Passes
  <2> QED
    BY <1>2, <2>2, <2>3, <2>4 DEF BootInv
<1> QED
  BY <1>3, <1>4, <1>5 DEF Probe

LEMMA DisableEchoStep ==
  ASSUME BootInv, DisableEcho
  PROVE  BootInv'
<1>1. /\ pc \in {"echo", "echoWait"} /\ op \in {"new", "power_on"} /\ op' = op
      /\ tries \in 0..9 /\ TypeInv /\ UNCHANGED Known
      /\ quiet \in {"yes", "slow", "lost", "no"}
      /\ modem \in Modems /\ Timed(modem) /\ modem.noise \in 0..2
      /\ modem.power = "stopping" => quiet = "no"
  BY DEF DisableEcho, BootInv, TypeInv, CallInv, Known, Modems, Results
<1>2. OffInv' /\ SimHeard' /\ SimInTime'
  BY <1>1 DEF OffInv, SimHeard, SimInTime
<1>3. CASE /\ pc = "echo" /\ tries' = 0
           /\ Answered([modem EXCEPT !.echo = "off"], PoweredOn)
  <2> DEFINE e == [modem EXCEPT !.echo = "off"]
  <2>1. /\ e \in Modems /\ Timed(e) /\ e.power = modem.power /\ e.echo = "off"
        /\ e.noise = modem.noise
    BY <1>1 DEF Modems, Timed
  <2>2. Answered(e, PoweredOn)
    BY <1>3
  <2> HIDE DEF e
  <2>3. /\ modem' = e /\ heard' = heard /\ quiet' = quiet /\ modem.power \in {"on", "stopping"}
        /\ pc' = IF op = "new" THEN "revision" ELSE "Ok"
    BY <1>1, <2>1, <2>2, AnsweredWhat DEF PoweredOn
  <2>4. TypeInv'
    BY <1>1, <1>3, <2>1, <2>3 DEF TypeInv, Steps, Results, Known, Timed
  <2>5. CallInv' /\ ReadyInv'
    BY <1>1, <1>3, <2>1, <2>3 DEF CallInv, ReadyInv, Results
  <2>6. CollisionInv'
    BY <1>1, <1>3, <2>1, <2>3 DEF BootInv, CollisionInv, Results
  <2> QED
    BY <1>2, <2>4, <2>5, <2>6 DEF BootInv
<1>4. CASE /\ pc = "echo" /\ tries' = tries
           /\ Failed([modem EXCEPT !.echo = "off"], 10, "echoWait")
  <2>1. Passes(10) /\ pc' = "echoWait" /\ Fails
    BY <1>1, <1>4, EchoOffPasses
  <2>2. TypeInv'
    BY <1>1, <1>4, <2>1, TypeStep DEF Steps, Fails
  <2>3. CallInv' /\ ReadyInv'
    BY <1>1, <1>4, <2>1 DEF BootInv, CallInv, ReadyInv, Results, Passes, Fails, Modems
  <2>4. CollisionInv'
    BY <1>1, <1>4, <2>1 DEF BootInv, CollisionInv, Results, Passes, Fails
  <2> QED
    BY <1>2, <2>2, <2>3, <2>4 DEF BootInv
<1>5. CASE pc = "echoWait" /\ Retry(5, EchoAttempts, "echo", "NotResponding")
  <2>1. /\ Passes(5) /\ quiet' = quiet /\ (modem.power = "on" => modem'.noise = modem.noise)
        /\ tries' \in 0..9
        /\ \/ tries + 1 < 3 /\ tries' = tries + 1 /\ pc' = "echo"
           \/ tries + 1 >= 3 /\ tries' = 0 /\ pc' = "NotResponding"
    BY <1>1, <1>5, RetryWhat DEF EchoAttempts
  <2>2. TypeInv'
    BY <1>1, <2>1, TypeStep DEF Steps, Results
  <2>3. CallInv' /\ ReadyInv'
    BY <1>1, <1>5, <2>1 DEF BootInv, CallInv, ReadyInv, Results, Passes, Modems
  <2>4. CollisionInv'
    BY <1>1, <1>5, <2>1 DEF BootInv, CollisionInv, Results, Passes
  <2> QED
    BY <1>2, <2>2, <2>3, <2>4 DEF BootInv
<1> QED
  BY <1>3, <1>4, <1>5 DEF DisableEcho

LEMMA UpdateModuleRevisionStep ==
  ASSUME ModemBootAssumption, BootInv, UpdateModuleRevision
  PROVE  BootInv'
<1>1. /\ pc \in {"revision", "revisionWait"} /\ op = "new" /\ op' = op
      /\ tries \in 0..9 /\ TypeInv
      /\ quiet \in {"yes", "slow", "lost", "no"}
      /\ modem \in Modems /\ Timed(modem) /\ modem.noise \in 0..2
      /\ modem.power = "stopping" => quiet = "no"
      /\ quiet # "no" => modem.power = "on" /\ modem.echo = "off"
  BY DEF UpdateModuleRevision, BootInv, TypeInv, CallInv, ReadyInv, Known, Modems, Results
<1>2. OffInv' /\ SimHeard' /\ SimInTime'
  BY <1>1 DEF OffInv, SimHeard, SimInTime
<1>3. CASE /\ pc = "revision" /\ Answered(modem, "imei") /\ tries' = 0
           /\ rev' = RevisionOf(modem.firmware) /\ UNCHANGED <<op, imei, driver, calls>>
  <2>1. /\ modem' = modem /\ pc' = "imei" /\ heard' = heard /\ quiet' = quiet
    BY <1>1, <1>3, AnsweredWhat
  <2>2. rev' # "none"
    BY <1>1, <1>3 DEF ModemBootAssumption, RevisionOf, Modems
  <2>3. TypeInv'
    BY <1>1, <1>3, <2>1, <2>2 DEF TypeInv, Steps, Timed
  <2>4. CallInv' /\ ReadyInv' /\ CollisionInv'
    BY <1>1, <1>3, <2>1, <2>2 DEF BootInv, CallInv, ReadyInv, CollisionInv, Results
  <2> QED
    BY <1>2, <2>3, <2>4 DEF BootInv
<1>4. CASE /\ pc = "revision" /\ UNCHANGED <<Known, tries>>
           /\ Failed(modem, 10, "revisionWait") \/ Garbled(modem, 0, OnEmpty)
  <2>1. \E n \in {0, 10} : Passes(n) /\ pc' = "revisionWait" /\ Fails
    BY <1>1, <1>4, FailedPasses, GarbledPasses DEF OnEmpty, Fails
  <2>2. TypeInv'
    BY <1>1, <1>4, <2>1, TypeStep DEF Steps, Fails
  <2>3. CallInv' /\ ReadyInv'
    BY <1>1, <1>4, <2>1 DEF CallInv, ReadyInv, Results, Passes, Fails, Known
  <2>4. CollisionInv'
    BY <1>1, <1>4, <2>1 DEF BootInv, CollisionInv, Results, Passes, Fails, Known
  <2> QED
    BY <1>2, <2>2, <2>3, <2>4 DEF BootInv
<1>5. CASE /\ pc = "revisionWait" /\ UNCHANGED Known
           /\ Retry(5, RevisionAttempts, "revision", "NotResponding")
  <2>1. /\ Passes(5) /\ quiet' = quiet /\ (modem.power = "on" => modem'.noise = modem.noise)
        /\ tries' \in 0..9
        /\ \/ tries + 1 < 5 /\ tries' = tries + 1 /\ pc' = "revision"
           \/ tries + 1 >= 5 /\ tries' = 0 /\ pc' = "NotResponding"
    BY <1>1, <1>5, RetryWhat DEF RevisionAttempts
  <2>2. TypeInv'
    BY <1>1, <1>5, <2>1, TypeStep DEF Steps, Results
  <2>3. CallInv' /\ ReadyInv'
    BY <1>1, <1>5, <2>1 DEF CallInv, ReadyInv, Results, Passes, Known
  <2>4. CollisionInv'
    BY <1>1, <1>5, <2>1 DEF BootInv, CollisionInv, Results, Passes, Known
  <2> QED
    BY <1>2, <2>2, <2>3, <2>4 DEF BootInv
<1> QED
  BY <1>3, <1>4, <1>5 DEF UpdateModuleRevision

LEMMA UpdateImeiStep ==
  ASSUME BootInv, UpdateImei
  PROVE  BootInv'
<1>1. /\ pc = "imei" /\ op = "new" /\ UNCHANGED <<op, rev, calls, tries>>
      /\ tries \in 0..9 /\ TypeInv /\ rev # "none"
      /\ quiet \in {"yes", "slow", "lost", "no"}
      /\ modem \in Modems /\ Timed(modem)
      /\ modem.power = "stopping" => quiet = "no"
      /\ quiet # "no" => /\ modem.power = "on" /\ modem.echo = "off"
                         /\ rev = RevisionOf(modem.firmware)
  BY DEF UpdateImei, BootInv, TypeInv, CallInv, ReadyInv, Results
<1>2. OffInv' /\ SimHeard' /\ SimInTime'
  BY <1>1 DEF OffInv, SimHeard, SimInTime
<1>3. CASE Answered(modem, "Ok") /\ imei' = "read" /\ driver' = "made"
  <2>1. /\ modem' = modem /\ pc' = "Ok" /\ heard' = heard /\ quiet' = quiet
    BY <1>1, <1>3, AnsweredWhat
  <2>2. TypeInv'
    BY <1>1, <1>3, <2>1 DEF TypeInv, Results, Timed
  <2>3. CallInv' /\ ReadyInv' /\ CollisionInv'
    BY <1>1, <1>3, <2>1 DEF CallInv, ReadyInv, CollisionInv, Results
  <2> QED
    BY <1>2, <2>2, <2>3 DEF BootInv
<1>4. CASE /\ Failed(modem, 3, "NotResponding") \/ Garbled(modem, 0, "panic")
           /\ UNCHANGED <<imei, driver>>
  <2>1. \E n \in {0, 3} : Passes(n) /\ pc' \in {"NotResponding", "panic"} /\ Fails
    BY <1>1, <1>4, FailedPasses, GarbledPasses DEF Fails
  <2>2. TypeInv'
    BY <1>1, <1>4, <2>1, TypeStep DEF Results, Fails, Known, TypeInv, Passes, Timed
  <2>3. CallInv' /\ ReadyInv' /\ CollisionInv'
    BY <1>1, <1>4, <2>1 DEF CallInv, ReadyInv, CollisionInv, Results
  <2> QED
    BY <1>2, <2>2, <2>3 DEF BootInv
<1> QED
  BY <1>3, <1>4 DEF UpdateImei

(***************************************************************************)
(* What is in a queue that a word joined, or whose oldest word was taken.  *)
(***************************************************************************)
LEMMA InAppend ==
  ASSUME NEW s \in Seq(Words), NEW w \in Words
  PROVE  /\ Append(s, w) \in Seq(Words)
         /\ \A i \in DOMAIN Append(s, w) :
              Append(s, w)[i] = w \/ \E j \in DOMAIN s : s[j] = Append(s, w)[i]
         /\ \A j \in DOMAIN s : \E i \in DOMAIN Append(s, w) : Append(s, w)[i] = s[j]
         /\ \E i \in DOMAIN Append(s, w) : Append(s, w)[i] = w
<1> DEFINE a == Append(s, w)
<1>1. /\ a \in Seq(Words) /\ Len(a) = Len(s) + 1 /\ Len(s) \in Nat
      /\ DOMAIN a = 1..Len(a) /\ DOMAIN s = 1..Len(s)
      /\ \A i \in 1..Len(s) : a[i] = s[i]
      /\ a[Len(s) + 1] = w
  BY AppendProperties, LenProperties
<1> HIDE DEF a
<1>2. \A i \in DOMAIN a : a[i] = w \/ \E j \in DOMAIN s : s[j] = a[i]
  <2> TAKE i \in DOMAIN a
  <2>1. i = Len(s) + 1 \/ i \in 1..Len(s)
    BY <1>1
  <2> QED
    BY <1>1, <2>1
<1>3. \A j \in DOMAIN s : j \in DOMAIN a /\ a[j] = s[j]
  BY <1>1
<1>4. Len(s) + 1 \in DOMAIN a
  BY <1>1
<1> QED
  BY <1>1, <1>2, <1>3, <1>4 DEF a

LEMMA InTail ==
  ASSUME NEW s \in Seq(Words), s # <<>>
  PROVE  /\ Tail(s) \in Seq(Words)
         /\ \A i \in DOMAIN Tail(s) : \E j \in DOMAIN s : s[j] = Tail(s)[i]
         /\ 1 \in DOMAIN s /\ Head(s) = s[1]
<1>1. /\ Tail(s) \in Seq(Words) /\ Len(Tail(s)) = Len(s) - 1 /\ Len(s) \in Nat
      /\ DOMAIN s = 1..Len(s) /\ Len(s) # 0 /\ DOMAIN Tail(s) = 1..Len(Tail(s))
      /\ \A i \in 1..Len(Tail(s)) : Tail(s)[i] = s[i + 1]
  BY HeadTailProperties, LenProperties, EmptySeq
<1>2. \A i \in DOMAIN Tail(s) : i + 1 \in DOMAIN s /\ Tail(s)[i] = s[i + 1]
  BY <1>1
<1>3. Head(s) = s[1]
  BY HeadTailProperties
<1> QED
  BY <1>1, <1>2, <1>3

(* A look at the URCs: the oldest goes, and x comes.                       *)
Look(s, x) == (IF s = <<>> THEN <<>> ELSE Tail(s)) \o x

LEMMA InLook ==
  ASSUME NEW s \in Seq(Words), NEW x \in {<<>>, <<"down">>}
  PROVE  /\ Look(s, x) \in Seq(Words)
         /\ \A i \in DOMAIN Look(s, x) :
              \/ x = <<"down">> /\ Look(s, x)[i] = "down"
              \/ \E j \in DOMAIN s : s[j] = Look(s, x)[i]
<1> DEFINE t == IF s = <<>> THEN <<>> ELSE Tail(s)
<1>1. t \in Seq(Words) /\ \A i \in DOMAIN t : \E j \in DOMAIN s : s[j] = t[i]
  <2>1. CASE s = <<>>
    BY <2>1, EmptySeq
  <2>2. CASE s # <<>>
    BY <2>2, InTail
  <2> QED
    BY <2>1, <2>2
<1>2. Look(s, x) = t \o x
  BY DEF Look
<1> HIDE DEF t
<1>3. CASE x = <<"down">>
  <2>1. "down" \in Words
    BY DEF Words
  <2>2. Look(s, x) = Append(t, "down")
    BY <1>1, <1>2, <1>3, <2>1, AppendIsConcat
  <2>3. /\ Append(t, "down") \in Seq(Words)
        /\ \A i \in DOMAIN Append(t, "down") : \/ Append(t, "down")[i] = "down"
                                               \/ \E j \in DOMAIN t : t[j] = Append(t, "down")[i]
    BY <1>1, <2>1, InAppend
  <2> QED
    BY <1>1, <1>3, <2>2, <2>3
<1>4. CASE x = <<>>
  <2>1. Look(s, x) = t
    BY <1>1, <1>2, <1>4, ConcatEmptySeq
  <2> QED
    BY <1>1, <2>1
<1> QED
  BY <1>3, <1>4

LEMMA PowerDownStep ==
  ASSUME ModemBootAssumption, BootInv, PowerDown
  PROVE  BootInv'
<1>1. /\ pc = "qpowd" /\ op = "power_off" /\ op' = op /\ tries = 0 /\ tries' = tries
      /\ TypeInv /\ UNCHANGED Known /\ quiet \in {"yes", "slow", "lost", "no"}
      /\ modem \in Modems /\ Timed(modem) /\ modem.left \in Nat
      /\ quiet \in {"yes", "slow"} =>
           /\ modem.power # "stopping"
           /\ \A i \in DOMAIN heard : heard[i] = "down" => modem.power = "off"
  BY DEF PowerDown, BootInv, TypeInv, CallInv, OffInv, Known, Modems, Results
<1>2. ReadyInv' /\ CollisionInv' /\ SimHeard' /\ SimInTime'
  BY <1>1 DEF ReadyInv, CollisionInv, SimHeard, SimInTime
<1> DEFINE down(t) == IF modem.power = "on"
                      THEN [modem EXCEPT !.power = "stopping", !.left = t] ELSE modem
<1>3. PICK t \in StopTimes : Exchange(down(t), 3, "offWait", "NotResponding")
  BY <1>1 DEF PowerDown
<1>4. t \in Nat /\ t > 0 /\ t <= 110
  BY DEF ModemBootAssumption
<1> DEFINE d == down(t)
<1>5. /\ d \in Modems /\ Timed(d) /\ d.noise = modem.noise
      /\ modem.power = "on" => d.power = "stopping" /\ d.left <= 110
      /\ modem.power # "on" => d = modem
  BY <1>1, <1>4 DEF Modems, Timed
<1>6. Exchange(d, 3, "offWait", "NotResponding")
  BY <1>3
<1> HIDE DEF d
<1>7. CASE Answered(d, "offWait")
  <2>1. /\ modem' = d /\ pc' = "offWait" /\ heard' = heard /\ quiet' = quiet
        /\ modem.power \in {"on", "stopping"}
    BY <1>1, <1>5, <1>7, AnsweredWhat
  <2>2. TypeInv'
    BY <1>1, <1>5, <2>1 DEF TypeInv, Steps, Known, Timed
  <2>3. CallInv' /\ OffInv'
    BY <1>1, <1>5, <2>1 DEF CallInv, OffInv, Results
  <2> QED
    BY <1>2, <2>2, <2>3 DEF BootInv
<1>8. CASE Failed(d, 3, "NotResponding")
  <2>1. /\ pc' = "NotResponding" /\ modem' \in Modems /\ Timed(modem)' /\ heard' \in Seq(Words)
        /\ quiet' \in {"yes", "slow", "lost", "no"}
    BY <1>1, <1>5, <1>8, FailedWhat DEF Timed
  <2>2. TypeInv'
    BY <1>1, <2>1 DEF TypeInv, Results, Known
  <2>3. CallInv' /\ OffInv'
    BY <1>1, <2>1 DEF CallInv, OffInv, Results
  <2> QED
    BY <1>2, <2>2, <2>3 DEF BootInv
<1> QED
  BY <1>6, <1>7, <1>8 DEF Exchange

LEMMA AwaitPowerDownStep ==
  ASSUME BootInv, AwaitPowerDown
  PROVE  BootInv'
<1>1. /\ pc = "offWait" /\ op = "power_off" /\ op' = op /\ tries \in 0..9 /\ TypeInv
      /\ UNCHANGED Known /\ quiet \in {"yes", "slow", "lost", "no"} /\ quiet' = quiet
      /\ modem \in Modems /\ Timed(modem) /\ modem.left \in Nat /\ heard \in Seq(Words)
      /\ quiet \in {"yes", "slow"} =>
           /\ modem.power \in {"stopping", "off"} /\ modem.left <= 110 - 10 * tries
           /\ \A i \in DOMAIN heard : heard[i] = "down" => modem.power = "off"
  BY DEF AwaitPowerDown, BootInv, TypeInv, CallInv, OffInv, Known, Modems, Results, NoFault
<1>2. ReadyInv' /\ CollisionInv' /\ SimHeard' /\ SimInTime'
  BY <1>1 DEF ReadyInv, CollisionInv, SimHeard, SimInTime
<1>3. CASE EndsWait /\ pc' = "offProbe" /\ tries' = 0 /\ UNCHANGED <<heard, modem>>
  <2>1. 1 \in DOMAIN heard /\ heard[1] = "down"
    BY <1>1, <1>3, InTail DEF EndsWait
  <2>2. TypeInv'
    BY <1>1, <1>3 DEF TypeInv, Steps, Known, Timed
  <2>3. quiet \in {"yes", "slow"} => modem.power = "off" /\ modem.left = 0
    BY <1>1, <2>1 DEF Timed
  <2>4. CallInv' /\ OffInv'
    BY <1>1, <1>3, <2>3 DEF CallInv, OffInv, Results
  <2> QED
    BY <1>2, <2>2, <2>4 DEF BootInv
<1>4. CASE /\ modem' = After(modem, 10)
           /\ heard' = (IF heard = <<>> THEN <<>> ELSE Tail(heard))
                       \o (IF modem.power = "stopping" /\ modem.left <= 10
                           THEN <<"down">> ELSE <<>>)
           /\ IF tries + 1 < OffRounds THEN tries' = tries + 1 /\ UNCHANGED pc
                                       ELSE tries' = 0 /\ pc' = "offProbe"
  <2>1. /\ modem' \in Modems /\ Timed(modem')
        /\ modem.power = "off" => modem'.power = "off"
        /\ modem.power = "stopping" => IF modem.left <= 10
                                       THEN modem'.power = "off" /\ modem'.left = 0
                                       ELSE /\ modem'.power = "stopping"
                                            /\ modem'.left = modem.left - 10
    <3>1. LET a == After(modem, 10) IN
          /\ a \in Modems /\ Timed(a)
          /\ modem.power = "off" => a.power = "off"
          /\ modem.power = "stopping" => IF modem.left <= 10
                                         THEN a.power = "off" /\ a.left = 0
                                         ELSE /\ a.power = "stopping"
                                              /\ a.left = modem.left - 10
      <4>1. modem \in Modems /\ Timed(modem) /\ 10 \in Nat
        BY <1>1
      <4> QED
        BY <4>1, AfterWhat
    <3> QED
      BY <1>4, <3>1
  <2>2. modem'.power = "off" => modem'.left = 0
    BY <2>1 DEF Timed, Modems
  <2>3. \/ tries + 1 < 10 /\ tries' = tries + 1 /\ pc' = "offWait"
        \/ tries = 9 /\ tries' = 0 /\ pc' = "offProbe"
    BY <1>1, <1>4 DEF OffRounds
  <2> DEFINE c == modem.power = "stopping" /\ modem.left <= 10
  <2>4. /\ heard' \in Seq(Words)
        /\ \A i \in DOMAIN heard' : (c /\ heard'[i] = "down")
                                     \/ \E j \in DOMAIN heard : heard[j] = heard'[i]
    <3> DEFINE x == IF modem.power = "stopping" /\ modem.left <= 10 THEN <<"down">> ELSE <<>>
    <3>1. heard' = Look(heard, x)
      BY <1>4 DEF Look
    <3>2. x \in {<<>>, <<"down">>} /\ heard \in Seq(Words)
      BY <1>1
    <3>3. x = <<"down">> => c
      BY <1>1
    <3> HIDE DEF x, c
    <3>4. /\ heard' \in Seq(Words)
          /\ \A i \in DOMAIN heard' : \/ x = <<"down">> /\ heard'[i] = "down"
                                      \/ \E j \in DOMAIN heard : heard[j] = heard'[i]
      BY <3>1, <3>2, InLook
    <3> QED
      BY <3>3, <3>4
  <2>5. quiet \in {"yes", "slow"} =>
          \A i \in DOMAIN heard' : heard'[i] = "down" => modem'.power = "off"
    BY <1>1, <2>1, <2>4
  <2>6. TypeInv'
    BY <1>1, <2>1, <2>3, <2>4 DEF TypeInv, Steps, Known, Timed
  <2>7. OffInv'
    BY <1>1, <2>1, <2>2, <2>3, <2>5 DEF OffInv
  <2>8. CallInv'
    BY <1>1, <2>3 DEF CallInv, Results
  <2> QED
    BY <1>2, <2>6, <2>7, <2>8 DEF BootInv
<1> QED
  BY <1>3, <1>4 DEF AwaitPowerDown

LEMMA ProbeOffStep ==
  ASSUME BootInv, ProbeOff
  PROVE  BootInv'
<1>1. /\ pc = "offProbe" /\ op = "power_off" /\ op' = op /\ tries \in 0..9 /\ tries' = tries
      /\ TypeInv /\ UNCHANGED Known /\ quiet \in {"yes", "slow", "lost", "no"}
      /\ modem \in Modems /\ Timed(modem) /\ modem.left \in Nat
      /\ quiet \in {"yes", "slow"} => modem.power \in {"stopping", "off"} /\ modem.left <= 10
  BY DEF ProbeOff, BootInv, TypeInv, CallInv, OffInv, Known, Modems, Results
<1>2. ReadyInv' /\ CollisionInv' /\ SimHeard' /\ SimInTime'
  BY <1>1 DEF ReadyInv, CollisionInv, SimHeard, SimInTime
<1>3. CASE Answered(modem, "OperationTimeout")
  <2>1. /\ modem' = modem /\ pc' = "OperationTimeout" /\ heard' = heard /\ quiet' = quiet
    BY <1>1, <1>3, AnsweredWhat
  <2>2. TypeInv'
    BY <1>1, <2>1 DEF TypeInv, Results, Known, Timed
  <2>3. CallInv' /\ OffInv'
    BY <1>1, <2>1 DEF CallInv, OffInv, Results
  <2> QED
    BY <1>2, <2>2, <2>3 DEF BootInv
<1>4. CASE Failed(modem, 10, "Ok")
  <2>1. Passes(10) /\ pc' = "Ok" /\ Fails
    BY <1>1, <1>4, FailedPasses
  <2>2. TypeInv'
    BY <1>1, <2>1, TypeStep DEF Results, Fails
  <2>3. CallInv' /\ OffInv'
    BY <1>1, <2>1 DEF CallInv, OffInv, Results, Passes, Fails
  <2> QED
    BY <1>2, <2>2, <2>3 DEF BootInv
<1> QED
  BY <1>3, <1>4 DEF ProbeOff, Exchange

LEMMA IsAliveStep ==
  ASSUME BootInv, IsAlive
  PROVE  BootInv'
<1>1. /\ pc = "alive" /\ op = "is_alive" /\ op' = op /\ tries \in 0..9 /\ tries' = tries
      /\ TypeInv /\ UNCHANGED Known /\ quiet \in {"yes", "slow", "lost", "no"}
      /\ modem \in Modems /\ Timed(modem)
  BY DEF IsAlive, BootInv, TypeInv, CallInv, Known, Results
<1>2. ReadyInv' /\ CollisionInv' /\ OffInv' /\ SimHeard' /\ SimInTime'
  BY <1>1 DEF ReadyInv, CollisionInv, OffInv, SimHeard, SimInTime
<1>3. pc' \in Results /\ TypeInv'
  <2>1. CASE Answered(modem, "Ok")
    <3>1. /\ modem' = modem /\ pc' = "Ok" /\ heard' = heard /\ quiet' = quiet
      BY <1>1, <2>1, AnsweredWhat
    <3> QED
      BY <1>1, <3>1 DEF TypeInv, Results, Known, Timed
  <2>2. CASE Failed(modem, 10, "NotResponding")
    <3>1. Passes(10) /\ pc' = "NotResponding" /\ Fails
      BY <1>1, <2>2, FailedPasses
    <3> QED
      BY <1>1, <3>1, TypeStep DEF Results, Fails
  <2> QED
    BY <2>1, <2>2 DEF IsAlive, Exchange
<1>4. CallInv'
  BY <1>1, <1>3 DEF CallInv, Results
<1> QED
  BY <1>2, <1>3, <1>4 DEF BootInv

(* What a call that tests the SIM knows at its steps, and what is true of  *)
(* what it has heard.                                                      *)
HeardTrue(s, m) == \A i \in DOMAIN s : /\ s[i] = "cme10" => m.sim = "absent"
                                       /\ s[i] = "cme11" => m.sim = "pin"
TellsOf(s) == \E i \in DOMAIN s : s[i] \in IsSimError

LEMMA HeardPasses ==
  ASSUME TypeInv, NEW n, Passes(n), HeardTrue(heard, modem)
  PROVE  HeardTrue(heard', modem') /\ (modem.power = "on" => heard' = heard)
<1>1. heard \in Seq(Words) /\ "down" \in Words /\ modem'.sim = modem.sim
  BY DEF TypeInv, Words, Passes
<1>2. CASE heard' = heard
  BY <1>1, <1>2 DEF HeardTrue
<1>3. CASE heard' = Append(heard, "down")
  <2>1. \A i \in DOMAIN Append(heard, "down") :
          \/ Append(heard, "down")[i] = "down"
          \/ \E j \in DOMAIN heard : heard[j] = Append(heard, "down")[i]
    BY <1>1, InAppend
  <2> QED
    BY <1>1, <1>3, <2>1 DEF HeardTrue, Passes
<1> QED
  BY <1>2, <1>3 DEF Passes, HeardTrue

LEMMA SimFacts ==
  ASSUME BootInv, pc \in {"cpin", "iccid", "simWait", "simDrain"}, UNCHANGED Known
  PROVE  /\ op = "test_sim" /\ op' = op /\ TypeInv
         /\ tries \in 0..9 /\ quiet \in {"yes", "slow", "lost", "no"}
         /\ modem \in Modems /\ Timed(modem) /\ heard \in Seq(Words)
         /\ modem.simLeft \in Nat /\ modem.noise \in 0..2
         /\ modem.power \in {"off", "booting", "on", "stopping"}
         /\ modem.power = "stopping" => quiet = "no"
         /\ HeardTrue(heard, modem) /\ TellsOf(heard) = Told
         /\ pc # "iccid" => tries <= 4
         /\ ReadyInv' /\ OffInv' /\ CollisionInv'
<1>1. op = "test_sim" /\ op' = op
  BY DEF BootInv, CallInv, Known
<1> QED
  BY <1>1 DEF BootInv, TypeInv, CallInv, SimHeard, SimInTime, HeardTrue, TellsOf, Told, Modems,
       ReadyInv, OffInv, CollisionInv, Results

LEMMA QuerySimStep ==
  ASSUME BootInv, QuerySim
  PROVE  BootInv'
<1>1. pc = "cpin" /\ UNCHANGED Known /\ tries' = tries
  BY DEF QuerySim
<1>2. /\ op = "test_sim" /\ op' = op /\ TypeInv
      /\ tries \in 0..4 /\ quiet \in {"yes", "slow", "lost", "no"}
      /\ modem \in Modems /\ Timed(modem) /\ heard \in Seq(Words)
      /\ modem.simLeft \in Nat /\ modem.noise \in 0..2
      /\ modem.power \in {"off", "booting", "on", "stopping"}
      /\ modem.power = "stopping" => quiet = "no"
      /\ HeardTrue(heard, modem)
      /\ ReadyInv' /\ OffInv' /\ CollisionInv'
  BY <1>1, SimFacts
<1>3. /\ quiet = "yes" => modem.power \in {"off", "on"}
      /\ quiet = "yes" /\ modem.power = "on" /\ modem.sim # "puk" =>
           tries + modem.noise <= 4 /\ SimIn(25 * tries)
  BY <1>1, <1>2 DEF BootInv, SimInTime
<1>4. CASE /\ modem.simLeft = 0
           /\ \/ modem.sim = "ready" /\ Answered(modem, "iccid")
              \/ modem.sim = "pin" /\ Answered(modem, "SimError")
              \/ modem.sim = "puk" /\ Answered(modem, "simWait")
  <2>1. /\ modem' = modem /\ heard' = heard /\ quiet' = quiet
        /\ \/ modem.sim = "ready" /\ pc' = "iccid"
           \/ modem.sim = "pin" /\ pc' = "SimError"
           \/ modem.sim = "puk" /\ pc' = "simWait"
    BY <1>2, <1>4, AnsweredWhat
  <2>2. TypeInv'
    BY <1>1, <1>2, <2>1 DEF TypeInv, Steps, Results, Known, Timed
  <2>3. CallInv'
    BY <1>2, <2>1 DEF CallInv, Results
  <2>4. SimHeard'
    BY <1>2, <2>1 DEF SimHeard, HeardTrue
  <2>5. SimInTime'
    BY <1>1, <1>2, <1>3, <2>1 DEF SimInTime
  <2> QED
    BY <1>2, <2>2, <2>3, <2>4, <2>5 DEF BootInv
<1>5. CASE /\ modem.power = "on" /\ modem' = After(modem, 10)
           /\ \E u \in CmeError(modem) : heard' = Append(heard, u)
           /\ pc' = "simWait" /\ NoFault
  <2>1. PICK u \in CmeError(modem) : heard' = Append(heard, u)
    BY <1>5
  <2>2. /\ u \in Words
        /\ \/ u = "busy" /\ modem.simLeft > 0
           \/ u = "cme10" /\ modem.sim = "absent"
           \/ u = "cme11" /\ modem.sim = "pin"
    BY <1>2 DEF CmeError, Words
  <2>3. /\ Append(heard, u) \in Seq(Words)
        /\ \A i \in DOMAIN Append(heard, u) :
             Append(heard, u)[i] = u \/ \E j \in DOMAIN heard : heard[j] = Append(heard, u)[i]
        /\ \E i \in DOMAIN Append(heard, u) : Append(heard, u)[i] = u
    BY <1>2, <2>2, InAppend
  <2>4. /\ modem' \in Modems /\ Timed(modem)' /\ modem'.sim = modem.sim
        /\ modem'.power = "on" /\ modem'.noise = modem.noise
        /\ modem'.simLeft = IF modem.simLeft <= 10 THEN 0 ELSE modem.simLeft - 10
    <3>1. LET a == After(modem, 10) IN
          /\ a \in Modems /\ Timed(a) /\ a.sim = modem.sim
          /\ a.power = "on" /\ a.noise = modem.noise
          /\ a.simLeft = IF modem.simLeft <= 10 THEN 0 ELSE modem.simLeft - 10
      <4>1. modem \in Modems /\ Timed(modem) /\ 10 \in Nat /\ modem.power = "on"
        BY <1>2, <1>5
      <4> QED
        BY <4>1, AfterWhat
    <3> QED
      BY <1>5, <3>1 DEF Timed
  <2>5. /\ heard' \in Seq(Words) /\ HeardTrue(heard', modem')
        /\ u # "busy" => TellsOf(heard')
    BY <1>2, <2>1, <2>2, <2>3, <2>4 DEF HeardTrue, TellsOf, IsSimError
  <2>6. quiet' = quiet
    BY <1>5 DEF NoFault
  <2>7. TypeInv'
    BY <1>1, <1>2, <1>5, <2>4, <2>5, <2>6 DEF TypeInv, Steps, Known, Timed
  <2>8. CallInv'
    BY <1>2, <1>5, <2>4 DEF CallInv, Results
  <2>9. SimHeard'
    BY <1>2, <1>5, <2>4, <2>5 DEF SimHeard, HeardTrue
  <2>10. SimInTime'
    <3>1. SimIn(25 * tries) => SimIn(25 * tries + 10)'
      BY <1>1, <1>2, <2>4 DEF SimIn
    <3>2. SimIn(25 * tries) /\ modem.simLeft > 0 => tries < 2
      BY <1>2 DEF SimIn
    <3>3. TellsOf(heard') = Told'
      BY DEF TellsOf, Told
    <3> QED
      BY <1>1, <1>2, <1>3, <1>5, <2>2, <2>4, <2>5, <2>6, <3>1, <3>2, <3>3 DEF SimInTime
  <2> QED
    BY <1>2, <2>7, <2>8, <2>9, <2>10 DEF BootInv
<1>6. CASE Failed(modem, 10, "simWait")
  <2>1. Passes(10) /\ pc' = "simWait" /\ Fails
    BY <1>2, <1>6, FailedPasses
  <2>2. TypeInv'
    BY <1>1, <1>2, <2>1, TypeStep DEF Steps, Fails
  <2>3. CallInv'
    BY <1>2, <2>1 DEF CallInv, Results, Passes, Fails
  <2>4. SimHeard'
    BY <1>2, <2>1, HeardPasses DEF SimHeard, HeardTrue
  <2>5. SimInTime'
    <3>1. modem.power = "on" /\ SimIn(25 * tries) => SimIn(25 * tries + 10)'
      BY <1>1, <1>2, <2>1 DEF SimIn, Passes
    <3> QED
      BY <1>1, <1>2, <1>3, <2>1, <3>1 DEF SimInTime, Passes, Fails
  <2> QED
    BY <1>2, <2>2, <2>3, <2>4, <2>5 DEF BootInv
<1> QED
  BY <1>4, <1>5, <1>6 DEF QuerySim

LEMMA ReadIccidStep ==
  ASSUME BootInv, ReadIccid
  PROVE  BootInv'
<1>1. pc = "iccid" /\ UNCHANGED Known /\ tries' = tries
  BY DEF ReadIccid
<1>2. /\ op = "test_sim" /\ op' = op /\ TypeInv /\ tries \in 0..9
      /\ quiet \in {"yes", "slow", "lost", "no"}
      /\ modem \in Modems /\ Timed(modem) /\ heard \in Seq(Words)
      /\ modem.power \in {"off", "booting", "on", "stopping"}
      /\ HeardTrue(heard, modem)
      /\ ReadyInv' /\ OffInv' /\ CollisionInv'
  BY <1>1, SimFacts
<1>3. /\ quiet = "yes" => modem.power \in {"off", "on"}
      /\ modem.sim = "ready"
  BY <1>1, <1>2 DEF BootInv, SimInTime, SimHeard
<1>4. /\ pc' = "Ok" /\ TypeInv' /\ HeardTrue(heard', modem') /\ modem'.sim = modem.sim
      /\ quiet' = "yes" => quiet = "yes" /\ modem'.power \in {"off", "on"}
  <2>1. CASE Answered(modem, "Ok")
    <3>1. modem' = modem /\ pc' = "Ok" /\ heard' = heard /\ quiet' = quiet
      BY <1>2, <2>1, AnsweredWhat
    <3> QED
      BY <1>1, <1>2, <1>3, <3>1 DEF TypeInv, Results, Known, Timed, HeardTrue
  <2>2. CASE Failed(modem, 3, "Ok")
    <3>1. Passes(3) /\ pc' = "Ok" /\ Fails
      BY <1>2, <2>2, FailedPasses
    <3>2. TypeInv'
      BY <1>1, <1>2, <3>1, TypeStep DEF Results, Fails
    <3>3. HeardTrue(heard', modem')
      BY <1>2, <3>1, HeardPasses
    <3> QED
      BY <1>2, <1>3, <3>1, <3>2, <3>3 DEF Passes, Fails
  <2> QED
    BY <2>1, <2>2 DEF ReadIccid, Exchange
<1>5. CallInv' /\ SimHeard' /\ SimInTime'
  BY <1>2, <1>3, <1>4 DEF CallInv, SimHeard, SimInTime, HeardTrue, Results
<1> QED
  BY <1>2, <1>4, <1>5 DEF BootInv

LEMMA AwaitCmeErrorStep ==
  ASSUME BootInv, AwaitCmeError
  PROVE  BootInv'
<1>1. pc = "simWait" /\ pc' = "simDrain" /\ UNCHANGED Known /\ tries' = tries /\ quiet' = quiet
      /\ Elapse(modem, 5)
  BY DEF AwaitCmeError, NoFault
<1>2. /\ op = "test_sim" /\ op' = op /\ TypeInv /\ tries \in 0..4
      /\ quiet \in {"yes", "slow", "lost", "no"}
      /\ modem.simLeft \in Nat /\ modem.noise \in 0..2
      /\ modem.power \in {"off", "booting", "on", "stopping"}
      /\ modem.power = "stopping" => quiet = "no"
      /\ HeardTrue(heard, modem) /\ TellsOf(heard) = Told
      /\ ReadyInv' /\ OffInv' /\ CollisionInv'
  BY <1>1, SimFacts
<1>3. /\ quiet = "yes" => modem.power \in {"off", "on"}
      /\ quiet = "yes" /\ modem.power = "on" /\ modem.sim # "puk" =>
           SimIn(25 * tries + 10) /\ (TellsOf(heard) \/ tries < 2 \/ tries + modem.noise <= 3)
  BY <1>1, <1>2 DEF BootInv, SimInTime
<1>4. /\ Passes(5) /\ (modem.power = "on" => modem'.noise = modem.noise /\ heard' = heard)
      /\ HeardTrue(heard', modem')
  BY <1>1, <1>2, ElapsePasses, HeardPasses
<1>5. TypeInv'
  BY <1>1, <1>2, <1>4, TypeStep DEF Steps
<1>6. CallInv' /\ SimHeard'
  BY <1>1, <1>2, <1>4 DEF CallInv, SimHeard, HeardTrue, Results, Passes
<1>7. SimInTime'
  <2>1. modem.power = "on" /\ SimIn(25 * tries + 10) => SimIn(25 * tries + 15)'
    BY <1>1, <1>2, <1>4 DEF SimIn, Passes
  <2>2. TellsOf(heard') = Told'
    BY DEF TellsOf, Told
  <2> QED
    BY <1>1, <1>2, <1>3, <1>4, <2>1, <2>2 DEF SimInTime, Passes
<1> QED
  BY <1>2, <1>5, <1>6, <1>7 DEF BootInv

LEMMA ClassifySimStep ==
  ASSUME BootInv, ClassifySim
  PROVE  BootInv'
<1>1. pc = "simDrain" /\ UNCHANGED Known /\ quiet' = quiet
  BY DEF ClassifySim, NoFault
<1>2. /\ op = "test_sim" /\ op' = op /\ TypeInv /\ tries \in 0..4
      /\ quiet \in {"yes", "slow", "lost", "no"}
      /\ modem \in Modems /\ Timed(modem) /\ heard \in Seq(Words)
      /\ modem.simLeft \in Nat /\ modem.noise \in 0..2
      /\ modem.power \in {"off", "booting", "on", "stopping"}
      /\ modem.power = "stopping" => quiet = "no"
      /\ HeardTrue(heard, modem) /\ TellsOf(heard) = Told
      /\ ReadyInv' /\ OffInv' /\ CollisionInv'
  BY <1>1, SimFacts
<1>3. /\ quiet = "yes" => modem.power \in {"off", "on"}
      /\ quiet = "yes" /\ modem.power = "on" /\ modem.sim # "puk" =>
           SimIn(25 * tries + 15) /\ (TellsOf(heard) \/ tries < 2 \/ tries + modem.noise <= 3)
  BY <1>1, <1>2 DEF BootInv, SimInTime
<1>4. CASE /\ \E i \in DOMAIN heard : heard[i] \in IsSimError
           /\ pc' = "SimError" /\ UNCHANGED <<tries, heard, modem>>
  <2>1. TypeInv'
    BY <1>1, <1>2, <1>4 DEF TypeInv, Results, Known, Timed
  <2>2. modem.sim \in {"absent", "pin"}
    BY <1>2, <1>4 DEF HeardTrue, IsSimError
  <2>3. CallInv' /\ SimHeard' /\ SimInTime'
    BY <1>1, <1>2, <1>3, <1>4, <2>2 DEF CallInv, SimHeard, SimInTime, HeardTrue, Results
  <2> QED
    BY <1>2, <2>1, <2>3 DEF BootInv
<1>5. CASE /\ \A i \in DOMAIN heard : heard[i] \notin IsSimError
           /\ modem' = After(modem, 10) /\ heard' = <<>>
           /\ IF tries + 1 < SimAttempts THEN tries' = tries + 1 /\ pc' = "cpin"
                                         ELSE tries' = 0 /\ pc' = "SimErrorUnknown"
  <2>1. /\ ~TellsOf(heard) /\ heard' \in Seq(Words) /\ HeardTrue(heard', modem')
    BY <1>5, EmptySeq DEF TellsOf, HeardTrue
  <2>2. \/ tries < 4 /\ tries' = tries + 1 /\ pc' = "cpin"
        \/ tries = 4 /\ tries' = 0 /\ pc' = "SimErrorUnknown"
    BY <1>2, <1>5 DEF SimAttempts
  <2>3. /\ modem' \in Modems /\ Timed(modem)' /\ modem'.sim = modem.sim
        /\ modem.power = "off" => modem'.power = "off"
        /\ modem.power = "on" =>
             /\ modem'.power = "on" /\ modem'.noise = modem.noise
             /\ modem'.simLeft = IF modem.simLeft <= 10 THEN 0 ELSE modem.simLeft - 10
        /\ modem'.power = "stopping" => modem.power = "stopping"
    <3>1. LET a == After(modem, 10) IN
          /\ a \in Modems /\ Timed(a) /\ a.sim = modem.sim
          /\ modem.power = "off" => a.power = "off"
          /\ modem.power = "on" =>
               /\ a.power = "on" /\ a.noise = modem.noise
               /\ a.simLeft = IF modem.simLeft <= 10 THEN 0 ELSE modem.simLeft - 10
          /\ a.power = "stopping" => modem.power = "stopping"
      <4>1. modem \in Modems /\ Timed(modem) /\ 10 \in Nat
            /\ modem.power \in {"off", "booting", "on", "stopping"}
        BY <1>2
      <4> QED
        BY <4>1, AfterWhat
    <3> QED
      BY <1>5, <3>1 DEF Timed
  <2>4. TypeInv'
    BY <1>1, <1>2, <2>1, <2>2, <2>3 DEF TypeInv, Steps, Results, Known
  <2>5. CallInv' /\ SimHeard'
    BY <1>1, <1>2, <2>1, <2>2, <2>3 DEF CallInv, SimHeard, HeardTrue, Results
  <2>6. SimInTime'
    <3>1. modem.power = "on" /\ tries < 4 /\ tries' = tries + 1 /\ SimIn(25 * tries + 15)
            => SimIn(25 * tries)'
      BY <1>2, <2>3 DEF SimIn
    <3> QED
      BY <1>1, <1>2, <1>3, <2>1, <2>2, <2>3, <3>1 DEF SimInTime
  <2> QED
    BY <1>2, <2>4, <2>5, <2>6 DEF BootInv
<1> QED
  BY <1>4, <1>5 DEF ClassifySim

(* What the modem says on its own changes neither what was told nor what   *)
(* the call may still count on.                                            *)
LEMMA SpeakStep ==
  ASSUME BootInv, Speak
  PROVE  BootInv'
<1>1. /\ op' = op /\ pc' = pc /\ tries' = tries /\ quiet' = quiet /\ UNCHANGED Known
      /\ modem.power = "on" /\ modem \in Modems /\ Timed(modem) /\ modem.noise \in 1..2
      /\ heard \in Seq(Words) /\ "other" \in Words /\ tries \in 0..9
  BY DEF Speak, Known, BootInv, TypeInv, Modems, Words
<1>2. /\ modem' \in Modems /\ Timed(modem)' /\ modem'.noise = modem.noise - 1
      /\ modem'.power = "on" /\ modem'.left = modem.left /\ modem'.simLeft = modem.simLeft
      /\ modem'.sim = modem.sim /\ modem'.echo = modem.echo /\ modem'.firmware = modem.firmware
  BY <1>1 DEF Speak, Modems, Timed
<1>3. /\ heard' \in Seq(Words)
      /\ \A i \in DOMAIN heard' :
           heard'[i] = "other" \/ \E j \in DOMAIN heard : heard[j] = heard'[i]
      /\ \A j \in DOMAIN heard : \E i \in DOMAIN heard' : heard'[i] = heard[j]
  <2>1. CASE heard' = heard
    BY <1>1, <2>1
  <2>2. CASE heard' = Append(heard, "other")
    <3>1. /\ Append(heard, "other") \in Seq(Words)
          /\ \A i \in DOMAIN Append(heard, "other") :
               \/ Append(heard, "other")[i] = "other"
               \/ \E j \in DOMAIN heard : heard[j] = Append(heard, "other")[i]
          /\ \A j \in DOMAIN heard :
               \E i \in DOMAIN Append(heard, "other") : Append(heard, "other")[i] = heard[j]
      BY <1>1, InAppend
    <3> QED
      BY <2>2, <3>1
  <2> QED
    BY <2>1, <2>2 DEF Speak
<1>4. TypeInv'
  BY <1>1, <1>2, <1>3 DEF BootInv, TypeInv, Known, Timed
<1>5. CallInv' /\ ReadyInv'
  BY <1>1, <1>2 DEF BootInv, CallInv, ReadyInv, Known
<1>6. OffInv'
  BY <1>1, <1>2, <1>3 DEF BootInv, OffInv
<1>7. CollisionInv'
  BY <1>1, <1>2 DEF BootInv, CollisionInv, Known
<1>8. SimHeard'
  BY <1>1, <1>2, <1>3 DEF BootInv, SimHeard
<1>9. SimInTime'
  <2>1. Told => Told'
    BY <1>3 DEF Told
  <2>2. /\ SimIn(25 * tries) => SimIn(25 * tries)'
        /\ SimIn(25 * tries + 10) => SimIn(25 * tries + 10)'
        /\ SimIn(25 * tries + 15) => SimIn(25 * tries + 15)'
    BY <1>1, <1>2 DEF SimIn
  <2> QED
    BY <1>1, <1>2, <2>1, <2>2 DEF BootInv, SimInTime
<1> QED
  BY <1>4, <1>5, <1>6, <1>7, <1>8, <1>9 DEF BootInv

(* A restart excuses the call from everything but the truth about the SIM. *)
LEMMA RestartStep ==
  ASSUME ModemBootAssumption, BootInv, Restart
  PROVE  BootInv'
<1>1. /\ op' = op /\ pc' = pc /\ tries' = tries /\ quiet' = "no" /\ UNCHANGED Known
      /\ heard' = heard /\ modem \in Modems /\ heard \in Seq(Words)
  BY DEF Restart, Known, BootInv, TypeInv
<1>2. /\ modem' \in Modems /\ Timed(modem)' /\ modem'.sim = modem.sim
      /\ modem'.power = "booting"
  <2>1. PICK t \in BootTimes, s \in SimTimes :
          modem' = [modem EXCEPT !.power = "booting", !.left = t, !.simLeft = s, !.noise = 0]
    BY DEF Restart
  <2>2. t \in Nat /\ t > 0 /\ s \in Nat
    BY DEF ModemBootAssumption
  <2> DEFINE b == [modem EXCEPT !.power = "booting", !.left = t]
             c == [b EXCEPT !.simLeft = s]
  <2>3. b \in Modems /\ b.power = "booting" /\ b.left = t /\ b.sim = modem.sim
    BY <1>1, <2>2 DEF Modems
  <2>4. c \in Modems /\ c.power = "booting" /\ c.left = t /\ c.sim = modem.sim
    <3> HIDE DEF b
    <3> QED
      BY <2>2, <2>3 DEF Modems
  <2>5. modem' = [c EXCEPT !.noise = 0]
    BY <2>1
  <2> HIDE DEF c
  <2>6. modem' \in Modems /\ modem'.power = "booting" /\ modem'.left = t
        /\ modem'.sim = modem.sim
    BY <2>4, <2>5 DEF Modems
  <2> QED
    BY <2>2, <2>6 DEF Timed
<1>3. TypeInv'
  BY <1>1, <1>2 DEF BootInv, TypeInv, Known
<1>4. CallInv' /\ SimHeard' /\ SimInTime'
  <2>1. CallInv'
    BY <1>1, <1>2 DEF BootInv, CallInv, Known
  <2>2. SimHeard'
    BY <1>1, <1>2 DEF BootInv, SimHeard
  <2>3. SimInTime'
    BY <1>1 DEF BootInv, SimInTime
  <2> QED
    BY <2>1, <2>2, <2>3
<1>5. ReadyInv' /\ OffInv' /\ CollisionInv'
  BY <1>1 DEF ReadyInv, OffInv, CollisionInv
<1> QED
  BY <1>3, <1>4, <1>5 DEF BootInv

LEMMA RestStep ==
  ASSUME BootInv, Rest
  PROVE  BootInv'
<1>1. /\ op' = op /\ pc' = pc /\ tries' = tries /\ quiet' = quiet /\ UNCHANGED Known
      /\ heard' = heard /\ pc \in Results
      /\ modem \in Modems /\ Timed(modem) /\ heard \in Seq(Words)
      /\ modem.power \in {"off", "booting", "on", "stopping"}
  BY DEF Rest, Known, BootInv, TypeInv, Modems
<1>2. /\ modem' \in Modems /\ Timed(modem)' /\ modem'.sim = modem.sim
      /\ modem'.firmware = modem.firmware
      /\ modem.power = "off" => modem'.power = "off"
      /\ modem.power = "on" => modem'.power = "on" /\ modem'.echo = modem.echo
  <2>1. PICK n \in {modem.left, modem.simLeft} \ {0} : modem' = After(modem, n)
    BY DEF Rest
  <2>2. n \in Nat
    BY <1>1 DEF Modems
  <2>3. LET a == After(modem, n) IN
        /\ a \in Modems /\ Timed(a) /\ a.sim = modem.sim /\ a.firmware = modem.firmware
        /\ modem.power = "off" => a.power = "off"
        /\ modem.power = "on" => a.power = "on" /\ a.echo = modem.echo
    <3>1. modem \in Modems /\ Timed(modem)
      BY <1>1
    <3> QED
      BY <2>2, <3>1, AfterWhat
  <2> QED
    BY <2>1, <2>3 DEF Timed
<1>3. TypeInv'
  BY <1>1, <1>2 DEF BootInv, TypeInv, Known
<1>4. CallInv' /\ ReadyInv' /\ OffInv'
  BY <1>1, <1>2 DEF BootInv, CallInv, ReadyInv, OffInv, Known, Results
<1>5. CollisionInv'
  BY <1>1, <1>2 DEF BootInv, CollisionInv, Known, Results
<1>6. SimHeard' /\ SimInTime'
  BY <1>1, <1>2 DEF BootInv, SimHeard, SimInTime, Results
<1> QED
  BY <1>3, <1>4, <1>5, <1>6 DEF BootInv

LEMMA NextSteps ==
  ASSUME ModemBootAssumption, BootInv, [Next]_vars
  PROVE  BootInv'
<1>1. CASE \/ Begin("new", "key") \/ Begin("power_on", "key") \/ Begin("power_off", "qpowd")
           \/ Begin("is_alive", "alive") \/ Begin("test_sim", "cpin")
  BY <1>1, BeginStep
<1>2. CASE SendPowerKey
  BY <1>2, SendPowerKeyStep
<1>3. CASE Settle
  BY <1>3, SettleStep
<1>4. CASE Probe
  BY <1>4, ProbeStep
<1>5. CASE DisableEcho
  BY <1>5, DisableEchoStep
<1>6. CASE UpdateModuleRevision
  BY <1>6, UpdateModuleRevisionStep
<1>7. CASE UpdateImei
  BY <1>7, UpdateImeiStep
<1>8. CASE PowerDown
  BY <1>8, PowerDownStep
<1>9. CASE AwaitPowerDown
  BY <1>9, AwaitPowerDownStep
<1>10. CASE ProbeOff
  BY <1>10, ProbeOffStep
<1>11. CASE IsAlive
  BY <1>11, IsAliveStep
<1>12. CASE QuerySim
  BY <1>12, QuerySimStep
<1>13. CASE ReadIccid
  BY <1>13, ReadIccidStep
<1>14. CASE AwaitCmeError
  BY <1>14, AwaitCmeErrorStep
<1>15. CASE ClassifySim
  BY <1>15, ClassifySimStep
<1>16. CASE Speak
  BY <1>16, SpeakStep
<1>17. CASE Restart
  BY <1>17, RestartStep
<1>18. CASE Rest
  BY <1>18, RestStep
<1>19. CASE UNCHANGED vars
  BY <1>19 DEF vars, BootInv, TypeInv, CallInv, ReadyInv, OffInv, CollisionInv, SimHeard,
       SimInTime, Timed, Told, SimIn
<1> QED
  BY <1>1, <1>2, <1>3, <1>4, <1>5, <1>6, <1>7, <1>8, <1>9, <1>10, <1>11, <1>12, <1>13, <1>14,
     <1>15, <1>16, <1>17, <1>18, <1>19 DEF Next, CallStep

LEMMA BootInvHolds == Spec => []BootInv
<1>1. BootInv /\ [Next]_vars => BootInv'
  BY ModemBootAssumption, NextSteps
<1> QED
  BY InitBoot, <1>1, PTL DEF Spec

-----------------------------------------------------------------------------
(* Every variable keeps its type in every state: a modem that boots or     *)
(* stops has time left, and the driver exists once its IMEI is known.      *)
THEOREM TypeCorrect == Spec => []TypeOK
<1>1. BootInv => TypeOK
  BY DEF BootInv, TypeInv, TypeOK, Timed, Modems, Words, OffRounds
<1> QED
  BY BootInvHolds, <1>1, PTL

(* new and power_on return Ok only with a modem that answers and no longer *)
(* echoes, new only with its IMEI and revision, whatever the boot takes    *)
(* and however many answers are lost.                                      *)
THEOREM OkMeansReadyHolds == Spec => []OkMeansReady
<1>1. BootInv => OkMeansReady
  BY DEF BootInv, ReadyInv, OkMeansReady
<1> QED
  BY BootInvHolds, <1>1, PTL

(* Neither RDY nor APP RDY makes a modem that boots in time fail to come   *)
(* up, wherever they collide, except at the IMEI.                          *)
THEOREM BootCollisionsForgivenHolds == Spec => []BootCollisionsForgiven
<1>1. BootInv => BootCollisionsForgiven
  BY DEF BootInv, CollisionInv, BootCollisionsForgiven
<1> QED
  BY BootInvHolds, <1>1, PTL

(* power_off returns Ok only with the modem off, for every stop time up to *)
(* the ten rounds and the probe.                                           *)
THEOREM OkMeansOffHolds == Spec => []OkMeansOff
<1>1. BootInv => OkMeansOff
  BY DEF BootInv, OffInv, OkMeansOff, Results
<1> QED
  BY BootInvHolds, <1>1, PTL

(* test_sim's verdict is right, and it fails to give one only where there  *)
(* is none to give.                                                        *)
THEOREM SimVerdictIsRightHolds == Spec => []SimVerdictIsRight
<1>1. BootInv => SimVerdictIsRight
  <2>1. BootInv => modem.power \in {"off", "booting", "on", "stopping"}
    BY DEF BootInv, TypeInv, Modems
  <2> QED
    BY <2>1 DEF BootInv, SimHeard, SimInTime, SimVerdictIsRight
<1> QED
  BY BootInvHolds, <1>1, PTL
(* Which steps lower the measure of CallsEnd.                              *)
LEMMA StageIs ==
  /\ Stage("key") = 8 /\ Stage("settle") = 7 /\ Stage("probe") = 6 /\ Stage("probeWait") = 6
  /\ Stage("echo") = 5 /\ Stage("echoWait") = 5 /\ Stage("revision") = 4
  /\ Stage("revisionWait") = 4 /\ Stage("imei") = 3 /\ Stage("qpowd") = 3
  /\ Stage("offWait") = 2 /\ Stage("cpin") = 2 /\ Stage("simWait") = 2 /\ Stage("simDrain") = 2
  /\ Stage("offProbe") = 1 /\ Stage("iccid") = 1 /\ Stage("alive") = 1
  /\ \A r \in Results : Stage(r) = 0
  /\ \A r \in {"Ok", "NotResponding", "OperationTimeout", "SimError", "SimErrorUnknown",
               "panic"} : Stage(r) = 0
BY DEF Stage, Results

LEMMA WithinIs ==
  /\ Within("probe") = 2 /\ Within("echo") = 2 /\ Within("revision") = 2 /\ Within("cpin") = 2
  /\ Within("simWait") = 1 /\ Within("probeWait") = 0 /\ Within("echoWait") = 0
  /\ Within("revisionWait") = 0 /\ Within("simDrain") = 0
BY DEF Within

Further == Stage(pc') < Stage(pc)
Again ==
  /\ Stage(pc') = Stage(pc)
  /\ \/ tries < tries' /\ tries' < OffRounds
     \/ tries' = tries /\ Within(pc') < Within(pc)

Still == UNCHANGED <<pc, tries>>

LEMMA AnswerGoes == ASSUME NEW m, NEW yes, Answered(m, yes) PROVE pc' = yes
BY DEF Answered

LEMMA FailureGoes ==
  ASSUME NEW m, NEW timeout, NEW no, Failed(m, timeout, no)
  PROVE  pc' = no
BY DEF Failed, Garbled, Unanswered

LEMMA RetryGoes ==
  ASSUME TypeInv, NEW delay, NEW attempts \in 1..5, NEW again, NEW giveUp,
         Retry(delay, attempts, again, giveUp)
  PROVE  \/ tries < tries' /\ tries' < OffRounds /\ pc' = again
         \/ pc' = giveUp
BY DEF Retry, TypeInv, OffRounds

LEMMA BootLoops ==
  ASSUME TypeInv, Probe \/ DisableEcho \/ UpdateModuleRevision
  PROVE  Further \/ Again
<1>1. CASE pc = "probeWait" /\ Retry(50, ProbeAttempts, "probe", "NotResponding")
  <2>1. ProbeAttempts \in 1..5
    BY DEF ProbeAttempts
  <2> QED
    BY <1>1, <2>1, RetryGoes, StageIs DEF Further, Again
<1>2. CASE pc = "echoWait" /\ Retry(5, EchoAttempts, "echo", "NotResponding")
  <2>1. EchoAttempts \in 1..5
    BY DEF EchoAttempts
  <2> QED
    BY <1>2, <2>1, RetryGoes, StageIs DEF Further, Again
<1>3. CASE pc = "revisionWait" /\ Retry(5, RevisionAttempts, "revision", "NotResponding")
  <2>1. RevisionAttempts \in 1..5
    BY DEF RevisionAttempts
  <2> QED
    BY <1>3, <2>1, RetryGoes, StageIs DEF Further, Again
<1>4. CASE pc = "probe" /\ Answered(modem, "echo")
  BY <1>4, AnswerGoes, StageIs DEF Further
<1>5. CASE pc = "echo" /\ Answered([modem EXCEPT !.echo = "off"], PoweredOn)
  BY <1>5, AnswerGoes, StageIs DEF Further, PoweredOn
<1>6. CASE pc = "revision" /\ Answered(modem, "imei")
  BY <1>6, AnswerGoes, StageIs DEF Further
<1>7. CASE pc = "probe" /\ Failed(modem, 10, "probeWait") /\ tries' = tries
  BY <1>7, FailureGoes, StageIs, WithinIs DEF Again
<1>8. CASE pc = "echo" /\ Failed([modem EXCEPT !.echo = "off"], 10, "echoWait") /\ tries' = tries
  BY <1>8, FailureGoes, StageIs, WithinIs DEF Again
<1>9. CASE /\ pc = "revision" /\ tries' = tries
           /\ Failed(modem, 10, "revisionWait") \/ Garbled(modem, 0, OnEmpty)
  <2>1. pc' = "revisionWait"
    BY <1>9, FailureGoes DEF Garbled, OnEmpty
  <2> QED
    BY <1>9, <2>1, StageIs, WithinIs DEF Again
<1> QED
  BY <1>1, <1>2, <1>3, <1>4, <1>5, <1>6, <1>7, <1>8, <1>9
     DEF Probe, DisableEcho, UpdateModuleRevision

LEMMA SimLoop ==
  ASSUME TypeInv, QuerySim \/ AwaitCmeError \/ ClassifySim
  PROVE  Further \/ Again
<1>1. tries \in 0..9
  BY DEF TypeInv
<1>2. CASE QuerySim
  <2>1. pc = "cpin" /\ tries' = tries
    BY <1>2 DEF QuerySim
  <2>2. pc' \in {"iccid", "SimError", "simWait"}
    BY <1>2, AnswerGoes, FailureGoes DEF QuerySim
  <2> QED
    BY <2>1, <2>2, StageIs, WithinIs DEF Further, Again
<1>3. CASE AwaitCmeError
  BY <1>3, StageIs, WithinIs DEF AwaitCmeError, Again
<1>4. CASE ClassifySim
  BY <1>1, <1>4, StageIs DEF ClassifySim, Further, Again, SimAttempts, OffRounds
<1> QED
  BY <1>2, <1>3, <1>4

LEMMA OffLoop ==
  ASSUME TypeInv, PowerDown \/ AwaitPowerDown \/ ProbeOff
  PROVE  Further \/ Again
<1>1. tries \in 0..9
  BY DEF TypeInv
<1>2. CASE PowerDown
  <2>1. pc = "qpowd" /\ pc' \in {"offWait", "NotResponding"}
    BY <1>2, AnswerGoes, FailureGoes DEF PowerDown, Exchange
  <2> QED
    BY <2>1, StageIs DEF Further
<1>3. CASE AwaitPowerDown
  <2>1. /\ pc = "offWait"
        /\ \/ pc' = "offProbe"
           \/ pc' = pc /\ tries' = tries + 1 /\ tries' < OffRounds
    BY <1>3 DEF AwaitPowerDown
  <2>2. CASE pc' = "offProbe"
    BY <2>1, <2>2, StageIs DEF Further
  <2>3. CASE pc' = pc /\ tries' = tries + 1 /\ tries' < OffRounds
    BY <1>1, <2>3 DEF Again
  <2> QED
    BY <2>1, <2>2, <2>3
<1>4. CASE ProbeOff
  <2>1. pc = "offProbe" /\ pc' \in {"OperationTimeout", "Ok"}
    BY <1>4, AnswerGoes, FailureGoes DEF ProbeOff, Exchange
  <2> QED
    BY <2>1, StageIs DEF Further
<1> QED
  BY <1>2, <1>3, <1>4

(* Each step of a call takes it to a later stage or uses up an attempt of  *)
(* its loop, whatever collides, restarts or stays silent meanwhile.        *)
THEOREM CallsEndHolds == Spec => CallsEnd
<1>1. ASSUME BootInv, CallStep PROVE Further \/ Again
  <2>0. TypeInv
    BY <1>1 DEF BootInv
  <2>1. CASE SendPowerKey \/ Settle
    <3>1. CASE SendPowerKey
      <4>1. pc = "key"
        BY <3>1 DEF SendPowerKey
      <4>2. pc' = "settle"
        BY <3>1 DEF SendPowerKey
      <4> QED
        BY <4>1, <4>2, StageIs DEF Further
    <3>2. CASE Settle
      <4>1. pc = "settle" /\ pc' = "probe"
        BY <3>2 DEF Settle
      <4> QED
        BY <4>1, StageIs DEF Further
    <3> QED
      BY <2>1, <3>1, <3>2
  <2>2. CASE UpdateImei
    <3>1. pc = "imei" /\ pc' \in {"Ok", "NotResponding", "panic"}
      BY <2>2, AnswerGoes, FailureGoes DEF UpdateImei, Garbled
    <3> QED
      BY <3>1, StageIs DEF Further
  <2>3. CASE IsAlive
    <3>1. pc = "alive" /\ pc' \in {"Ok", "NotResponding"}
      BY <2>3, AnswerGoes, FailureGoes DEF IsAlive, Exchange
    <3> QED
      BY <3>1, StageIs DEF Further
  <2>4. CASE ReadIccid
    <3>1. pc = "iccid" /\ pc' = "Ok"
      BY <2>4, AnswerGoes, FailureGoes DEF ReadIccid, Exchange
    <3> QED
      BY <3>1, StageIs DEF Further
  <2> QED
    BY <1>1, <2>0, <2>1, <2>2, <2>3, <2>4, BootLoops, SimLoop, OffLoop DEF CallStep
<1>2. ASSUME BootInv, Next, pc \notin Results
      PROVE  Further \/ Again \/ (~CallStep /\ Still)
  <2>1. ~Rest /\ \A o, l : ~Begin(o, l)
    BY <1>2 DEF Rest, Begin
  <2>2. CallStep \/ Speak \/ Restart
    BY <1>2, <2>1 DEF Next
  <2>3. Speak \/ Restart => Still
    BY DEF Speak, Restart, Still
  <2> QED
    BY <1>1, <1>2, <2>2, <2>3
<1>3. BootInv /\ [Next]_vars =>
        [pc \notin Results => Further \/ Again \/ (~CallStep /\ Still)]_vars
  BY <1>2
<1> QED
  BY BootInvHolds, <1>3, PTL DEF CallsEnd, Further, Again, Still, Spec
-----------------------------------------------------------------------------
(* The part of the clock the two loops' guards rest on: the registration's *)
(* own elapsed time, measured against what attach left.                    *)
ClockInv ==
  /\ phase = "info" => attach = 0 /\ elapsed < Timeout + InfoPoll + MaxAnswer
  /\ phase \in {"register", "attached"} =>
       attach <= Timeout /\ attach + elapsed <= Timeout + RegPoll + MaxAnswer
  /\ phase = "failed" => attach + elapsed <= Timeout + InfoPoll + MaxAnswer

AttachInv == AttachTypeOK /\ ClockInv

LEMMA InitAttach ==
  ASSUME AttachInit
  PROVE  AttachInv
  BY NetworkAttachAssumption DEF AttachInit, AttachInv, AttachTypeOK, ClockInv, Modes

LEMMA AttachStep ==
  ASSUME AttachInv, [AttachNext]_attachVars
  PROVE  AttachInv'
<1> USE NetworkAttachAssumption DEF AttachInv, AttachTypeOK, ClockInv, Modes
<1>1. ASSUME NEW d \in 0..MaxAnswer, InfoAgain(d) PROVE AttachInv'
  BY <1>1 DEF InfoAgain
<1>2. ASSUME NEW d \in 0..MaxAnswer, NEW m \in Modes, InfoFound(m, d)
      PROVE AttachInv'
  BY <1>2 DEF InfoFound
<1>3. ASSUME NEW d \in 0..MaxAnswer, NEW stat \in Stats, Register(stat, d)
      PROVE AttachInv'
  BY <1>3 DEF Register, Remaining, Fail
<1>4. CASE InfoTimeout
  BY <1>4 DEF InfoTimeout, Fail
<1>5. CASE RegisterTimeout
  BY <1>5 DEF RegisterTimeout, Remaining, Fail
<1>6. CASE UNCHANGED attachVars
  BY <1>6 DEF attachVars
<1> QED
  BY <1>1, <1>2, <1>3, <1>4, <1>5, <1>6 DEF AttachNext

LEMMA ClockInvBounds ==
  ASSUME AttachInv
  PROVE  ClockBounded
  BY NetworkAttachAssumption DEF AttachInv, AttachTypeOK, ClockInv, ClockBounded

(* cellular.rs:1061-1074: whatever the 60 s, the delays and the answer     *)
(* times are, the budget is shared by the two loops and overrun by less    *)
(* than one round, and registration is asked only on a technology found.   *)
THEOREM ClockBoundedHolds == AttachSpec => [](AttachTypeOK /\ ClockBounded)
<1>1. AttachInit => AttachInv
  BY InitAttach
<1>2. AttachInv /\ [AttachNext]_attachVars => AttachInv'
  BY AttachStep
<1>3. AttachInv => AttachTypeOK /\ ClockBounded
  BY ClockInvBounds DEF AttachInv
<1> QED
  BY <1>1, <1>2, <1>3, PTL DEF AttachSpec
=============================================================================
