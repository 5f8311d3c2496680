---------------------- MODULE ModemConfigurationProofs ----------------------
(***************************************************************************)
(* set_modem_configuration for every configuration a caller can build and  *)
(* every number of calls, refused commands and lost answers.               *)
(***************************************************************************)
EXTENDS ModemConfiguration, SequenceTheorems, WellFoundedInduction, TLAPS

UpTo(k) == \A i \in Settings : modem[i] = IF i <= k THEN Applied(i) ELSE before[i]

(* While the call runs it has applied exactly what it has sent; once it    *)
(* has returned, everything or, with an error, some first part.            *)
SentInv ==
  /\ DOMAIN modem = Settings /\ DOMAIN before = Settings
  /\ next \in 0..5
  /\ result \in {"none", "Ok", "NotResponding", "NotSupported"}
  /\ result # "none" => next = 0
  /\ chip # "eg916u" =>
       /\ next # 0 => UpTo(next - 1)
       /\ result = "Ok" => UpTo(5) /\ IotOpMode(order) # 3
       /\ result # "none" => \E k \in 0..5 : UpTo(k)

LEMMA InitSentInv == Init => SentInv
<1> SUFFICES ASSUME Init PROVE SentInv
  OBVIOUS
<1>1. DOMAIN modem = Settings /\ before = modem
  BY DEF Init, Settings
<1> QED
  BY <1>1 DEF Init, SentInv

(* The value sent is the value applied: the settings behind next are still *)
(* those from before the call.                                             *)
LEMMA ValueIsApplied ==
  ASSUME SentInv, chip # "eg916u", next # 0
  PROVE  Value(next) = Applied(next)
<1>1. modem[next] = before[next]
  BY DEF SentInv, UpTo, Settings
<1>2. CASE next = 1
  BY <1>1, <1>2 DEF Value, Applied
<1>3. CASE next # 1
  BY <1>3 DEF Applied
<1> QED
  BY <1>2, <1>3

(* What will be applied depends on the configuration and on the beginning. *)
LEMMA SameApplied ==
  ASSUME UNCHANGED <<config, before>>, NEW i \in Settings
  PROVE  Applied(i)' = Applied(i)
<1>1. CASE i = 1
  BY <1>1 DEF Applied, config
<1>2. CASE i # 1
  BY <1>2 DEF Applied, Value, config, IotOpMode, Settings
<1> QED
  BY <1>1, <1>2

(* What one command leaves, answered or not.                               *)
LEMMA CommandApplies ==
  ASSUME SentInv, chip # "eg916u", next # 0, UNCHANGED <<config, chip, before>>,
         modem' = [modem EXCEPT ![next] = Value(next)]
  PROVE  /\ DOMAIN modem' = Settings
         /\ \A i \in Settings : modem'[i] = IF i <= next THEN Applied(i)' ELSE before'[i]
<1>1. DOMAIN modem' = Settings
  BY DEF SentInv
<1>2. next \in Settings /\ DOMAIN modem = Settings
  BY DEF SentInv, Settings
<1>3. ASSUME NEW i \in Settings
      PROVE  Applied(i)' = Applied(i)
  BY SameApplied
<1>4. ASSUME NEW i \in Settings
      PROVE  modem'[i] = IF i <= next THEN Applied(i) ELSE before[i]
  <2>1. CASE i = next
    BY <2>1, <1>2, ValueIsApplied DEF Settings
  <2>2. CASE i # next
    BY <2>2, <1>2 DEF SentInv, UpTo, Settings
  <2> QED
    BY <2>1, <2>2
<1>5. \A i \in Settings : modem'[i] = IF i <= next THEN Applied(i)' ELSE before'[i]
  BY <1>3, <1>4
<1> QED
  BY <1>1, <1>5

(* And what a command leaves that did not arrive.                          *)
LEMMA NothingApplies ==
  ASSUME SentInv, chip # "eg916u", next # 0, UNCHANGED <<config, chip, before, modem>>
  PROVE  \A i \in Settings : modem'[i] = IF i <= next - 1 THEN Applied(i)' ELSE before'[i]
<1>1. ASSUME NEW i \in Settings
      PROVE  Applied(i)' = Applied(i)
  BY SameApplied
<1> QED
  BY <1>1 DEF SentInv, UpTo

LEMMA AcceptSent == SentInv /\ Accept => SentInv'
<1> SUFFICES ASSUME SentInv, Accept PROVE SentInv'
  OBVIOUS
<1>1. /\ next \in 1..5 /\ result = "none" /\ IotOpMode(order)' = IotOpMode(order)
      /\ next = 5 => IotOpMode(order) # 3
  BY DEF SentInv, Accept, Sending, config, IotOpMode
<1>2. next' \in 0..5 /\ result' \in {"none", "Ok"} /\ (result' # "none" => next' = 0)
  BY <1>1 DEF Accept, After
<1>3. DOMAIN modem' = Settings /\ DOMAIN before' = Settings
  BY DEF SentInv, Accept
<1>4. ASSUME chip # "eg916u"
      PROVE  /\ next' # 0 => UpTo(next - 1)'
             /\ result' = "Ok" => UpTo(5)' /\ IotOpMode(order)' # 3
             /\ result' # "none" => \E k \in 0..5 : UpTo(k)'
  <2>1. \A i \in Settings : modem'[i] = IF i <= next THEN Applied(i)' ELSE before'[i]
    BY <1>1, <1>4, CommandApplies DEF Accept
  <2>2. next' = (IF next = 5 THEN 0 ELSE next + 1)
    BY <1>4 DEF Accept, After
  <2>3. CASE next = 5
    <3>1. UpTo(5)'
      BY <2>1, <2>3 DEF UpTo
    <3> QED
      BY <3>1, <2>2, <2>3, <1>1, <1>2
  <2>4. CASE next # 5
    <3>1. next' - 1 = next /\ result' = "none"
      BY <2>2, <2>4, <1>1 DEF Accept, After
    <3>2. UpTo(next - 1)'
      BY <2>1, <3>1 DEF UpTo
    <3> QED
      BY <3>1, <3>2
  <2> QED
    BY <2>3, <2>4
<1> QED
  BY <1>2, <1>3, <1>4 DEF SentInv, Accept

LEMMA RejectSent == SentInv /\ Reject => SentInv'
<1> SUFFICES ASSUME SentInv, Reject PROVE SentInv'
  OBVIOUS
<1>1. /\ next \in 1..5 /\ next' = 0 /\ result' \in {"Ok", "NotResponding"}
      /\ chip # "eg916u" => result' = "NotResponding"
  BY DEF SentInv, Reject, Sending, Return
<1>2. DOMAIN modem' = Settings /\ DOMAIN before' = Settings
  BY DEF SentInv, Reject, Return
<1>3. ASSUME chip # "eg916u"
      PROVE  \E k \in 0..5 : UpTo(k)'
  <2>1. UNCHANGED <<config, chip, before>>
    BY DEF Reject, Return
  <2>2. CASE modem' = modem
    <3>1. \A i \in Settings :
            modem'[i] = IF i <= next - 1 THEN Applied(i)' ELSE before'[i]
      BY <1>1, <1>3, <2>1, <2>2, NothingApplies
    <3>2. \A k \in 0..5 : k = next - 1 => UpTo(k)'
      BY <3>1 DEF UpTo
    <3> QED
      BY <3>2, <1>1
  <2>3. CASE modem' = [modem EXCEPT ![next] = Value(next)]
    <3>1. \A i \in Settings : modem'[i] = IF i <= next THEN Applied(i)' ELSE before'[i]
      BY <1>1, <1>3, <2>1, <2>3, CommandApplies
    <3>2. \A k \in 0..5 : k = next => UpTo(k)'
      BY <3>1 DEF UpTo
    <3> QED
      BY <3>2, <1>1
  <2> QED
    BY <2>2, <2>3 DEF Reject
<1> QED
  BY <1>1, <1>2, <1>3 DEF SentInv, Reject

LEMMA NotSupportedSent == SentInv /\ NotSupported => SentInv'
<1> SUFFICES ASSUME SentInv, NotSupported PROVE SentInv'
  OBVIOUS
<1>1. next = 5 /\ next' = 0 /\ result' = "NotSupported"
  BY DEF NotSupported, Return
<1>2. ASSUME chip # "eg916u"
      PROVE  UpTo(4)'
  <2>1. \A i \in Settings :
          modem'[i] = IF i <= next - 1 THEN Applied(i)' ELSE before'[i]
    BY <1>1, <1>2, NothingApplies DEF NotSupported, Return
  <2> QED
    BY <2>1, <1>1 DEF UpTo
<1> QED
  BY <1>1, <1>2 DEF SentInv, NotSupported, Return

LEMMA StartSent == SentInv /\ Start => SentInv'
<1> SUFFICES ASSUME SentInv, Start PROVE SentInv'
  OBVIOUS
<1>1. next' \in 1..5 /\ (chip # "eg916u" => next' = 1) /\ result' = "none"
  BY DEF Start, First, HasConfig
<1>2. chip # "eg916u" => UpTo(next - 1)'
  BY <1>1 DEF SentInv, UpTo, Start, Settings
<1> QED
  BY <1>1, <1>2 DEF SentInv, Start

LEMMA NextSentInv == SentInv /\ [Next]_vars => SentInv'
<1> SUFFICES ASSUME SentInv, [Next]_vars PROVE SentInv'
  OBVIOUS
<1>1. CASE New
  BY <1>1 DEF New, SentInv
<1>2. ASSUME NEW rat \in Rats \cup {"Default"}, NEW type \in Rats, NEW arg \in BandArgs,
             SetBands(rat, type, arg)
      PROVE  SentInv'
  BY <1>2 DEF SetBands, Edit, HasConfig, run, SentInv
<1>3. ASSUME NEW arg \in RatArgs, SetRatOrder(arg)
      PROVE  SentInv'
  BY <1>3 DEF SetRatOrder, Edit, HasConfig, run, SentInv
<1>4. CASE UNCHANGED vars
  <2>1. ASSUME NEW i \in Settings
        PROVE  Applied(i)' = Applied(i)
    BY <1>4, SameApplied DEF vars, config, run
  <2>2. ASSUME NEW k \in -1..5
        PROVE  UpTo(k)' <=> UpTo(k)
    BY <1>4, <2>1 DEF vars, run, UpTo
  <2>3. next \in 0..5 => (UpTo(next - 1)' <=> UpTo(next - 1))
    BY <1>4, <2>1 DEF vars, run, UpTo
  <2>4. IotOpMode(order)' = IotOpMode(order)
    BY <1>4 DEF vars, config, IotOpMode
  <2> QED
    BY <1>4, <2>2, <2>3, <2>4 DEF vars, run, SentInv
<1> QED
  BY <1>1, <1>2, <1>3, <1>4, StartSent, NotSupportedSent, AcceptSent, RejectSent DEF Next

(* cellular.rs:632-745: at any moment and whatever it returned, the call   *)
(* has applied a first part of its settings and nothing behind it.         *)
THEOREM PrefixAppliedHolds == Spec => []PrefixApplied
<1>1. ASSUME SentInv PROVE PrefixApplied
  <2> SUFFICES ASSUME chip # "eg916u", next # 0 \/ result # "none"
               PROVE  \E k \in 0..5 : UpTo(k)
    BY DEF PrefixApplied, UpTo
  <2>1. CASE next # 0
    <3>1. next - 1 \in 0..5 /\ UpTo(next - 1)
      BY <1>1, <2>1 DEF SentInv
    <3> QED
      BY <3>1
  <2>2. CASE result # "none"
    BY <1>1, <2>2 DEF SentInv
  <2> QED
    BY <2>1, <2>2
<1> QED
  BY InitSentInv, NextSentInv, <1>1, PTL DEF Spec

(* get_iotop_mode: the mode names the LTE technologies of the sequence.    *)
LEMMA IotOpModeFits ==
  ASSUME IotOpMode(order) # 3
  PROVE  /\ IotOpMode(order) \in 0..2
         /\ IotOpMode(order) \in {0, 2} <=> "EMTC" \in Range(order)
         /\ IotOpMode(order) \in {1, 2} <=> "NbIoT" \in Range(order)
<1>1. \/ Range(order) \cap Lte = {"EMTC"} /\ IotOpMode(order) = 0
      \/ Range(order) \cap Lte = {"NbIoT"} /\ IotOpMode(order) = 1
      \/ Range(order) \cap Lte = Lte /\ IotOpMode(order) = 2
  BY DEF IotOpMode, Lte
<1> QED
  BY <1>1 DEF Lte

(* cellular.rs:726-745: an Ok means all five settings, whatever half-done  *)
(* calls came before, and a mode that fits the scan sequence.              *)
THEOREM OkIsWholeHolds == Spec => []OkIsWhole
<1>1. ASSUME SentInv PROVE OkIsWhole
  <2> SUFFICES ASSUME chip # "eg916u", result = "Ok"
               PROVE  /\ \A i \in Settings : modem[i] = Applied(i)
                      /\ modem[5] \in 0..2
                      /\ modem[5] \in {0, 2} <=> "EMTC" \in Range(modem[2])
                      /\ modem[5] \in {1, 2} <=> "NbIoT" \in Range(modem[2])
    BY DEF OkIsWhole
  <2>1. (\A i \in Settings : modem[i] = Applied(i)) /\ IotOpMode(order) # 3
    BY <1>1 DEF SentInv, UpTo, Settings
  <2>2. modem[2] = order /\ modem[5] = IotOpMode(order)
    BY <2>1 DEF Applied, Value, Settings
  <2> QED
    BY <2>1, <2>2, IotOpModeFits
<1> QED
  BY InitSentInv, NextSentInv, <1>1, PTL DEF Spec

(* A band that is no band wraps in the shift, but stays one of 128 bits.   *)
LEMMA MaskIsOfBits ==
  ASSUME NEW type \in Rats, NEW arg \in BandArgs, arg # <<>>
  PROVE  MaskOf(type, arg) \subseteq 1..128
<1>1. Range(arg) \subseteq 0..255
  <2>1. arg \in Seq(0..255)
    BY ModemConfigurationAssumption
  <2>2. DOMAIN arg = 1..Len(arg) /\ \A i \in 1..Len(arg) : arg[i] \in 0..255
    BY <2>1, LenProperties, ElementOfSeq
  <2>3. \A r \in Range(arg) : \E i \in DOMAIN arg : r = arg[i]
    BY Zenon DEF Range
  <2>4. \A i \in DOMAIN arg : arg[i] \in 0..255
    BY <2>2, Zenon
  <2> QED
    BY <2>3, <2>4, Zenon
<1>2. \A b \in 0..255 : BitOf(b) \in 1..128
  BY DEF BitOf
<1>3. BandsOf(type) \subseteq 1..128
  BY DEF BandsOf, Common, Rats, Lte
<1>4. AllBands(type) \subseteq 1..128
  BY <1>3 DEF AllBands
<1>5. {BitOf(b) : b \in Range(arg)} \subseteq 1..128
  <2>1. ASSUME NEW b \in Range(arg)
        PROVE  BitOf(b) \in 1..128
    <3>1. b \in 0..255
      BY <1>1, ZenonT(30)
    <3> QED
      BY <1>2, <3>1, ZenonT(30)
  <2> QED
    BY <2>1, ZenonT(30)
<1>6. \/ MaskOf(type, arg) = AllBands(type)
      \/ MaskOf(type, arg) = {}
      \/ MaskOf(type, arg) = {BitOf(b) : b \in Range(arg)}
  BY DEF MaskOf
<1> QED
  BY <1>4, <1>5, <1>6

LEMMA SetBandsType ==
  ASSUME TypeOK, NEW rat \in Rats \cup {"Default"}, NEW type \in Rats, NEW arg \in BandArgs,
         SetBands(rat, type, arg)
  PROVE  TypeOK'
<1>1. UNCHANGED <<chip, build, next, result, modem, before, calls, faults>> /\ edits' \in Nat
  BY DEF SetBands, Edit, run, TypeOK
<1>2. /\ bands' \in [Rats -> SUBSET (1..128)] /\ mixed' \subseteq Rats
      /\ order' = order /\ panicked' \in {"no", "set_bands", "send"}
  <2>1. CASE UNCHANGED <<config, panicked>>
    BY <2>1 DEF config, TypeOK
  <2>2. CASE panicked' = "set_bands" /\ UNCHANGED config
    BY <2>2 DEF config, TypeOK
  <2>3. CASE /\ arg # <<>> /\ rat \in Rats
             /\ bands' = [bands EXCEPT ![rat] = Stored(rat, MaskOf(type, arg))]
             /\ mixed' = IF type = rat THEN mixed \ {rat} ELSE mixed \cup {rat}
             /\ UNCHANGED <<order, panicked>>
    <3>1. Stored(rat, MaskOf(type, arg)) \in SUBSET (1..128)
      BY <2>3, MaskIsOfBits DEF Stored
    <3> QED
      BY <2>3, <3>1 DEF TypeOK
  <2> QED
    BY <2>1, <2>2, <2>3 DEF SetBands
<1> QED
  BY <1>1, <1>2 DEF TypeOK

LEMMA SendingType ==
  ASSUME TypeOK, NotSupported \/ Accept \/ Reject
  PROVE  TypeOK'
<1>1. UNCHANGED <<chip, build, config, panicked, edits, calls>> /\ faults' \in Nat
  BY DEF NotSupported, Accept, Reject, TypeOK
<1>2. DOMAIN modem' = Settings /\ DOMAIN before' = Settings
  BY DEF NotSupported, Accept, Reject, Return, TypeOK
<1>3. /\ next' \in 0..5 /\ result' \in {"none", "Ok", "NotResponding", "NotSupported"}
      /\ result' # "none" => next' = 0
  BY DEF NotSupported, Accept, Reject, Sending, After, Return, TypeOK
<1> QED
  BY <1>1, <1>2, <1>3 DEF TypeOK, config

LEMMA NextType == TypeOK /\ [Next]_vars => TypeOK'
<1> SUFFICES ASSUME TypeOK, [Next]_vars PROVE TypeOK'
  OBVIOUS
<1>1. CASE New
  BY <1>1 DEF New, TypeOK, Blank
<1>2. ASSUME NEW arg \in RatArgs, SetRatOrder(arg)
      PROVE  TypeOK'
  BY <1>2 DEF SetRatOrder, Edit, HasConfig, run, TypeOK
<1>3. CASE Start
  BY <1>3 DEF Start, First, HasConfig, config, TypeOK
<1>4. CASE UNCHANGED vars
  BY <1>4 DEF vars, config, run, TypeOK
<1> QED
  BY <1>1, <1>2, <1>3, <1>4, SetBandsType, SendingType DEF Next

LEMMA InitType == Init => TypeOK
  BY DEF Init, TypeOK, Blank, DefaultOrder, Settings

(* Every variable keeps its type; an error names a call that has returned. *)
THEOREM TypeCorrect == Spec => []TypeOK
  BY InitType, NextType, PTL DEF Spec


(* A set of bits that is not empty has a highest one: counted down from    *)
(* 128 it is the lowest, and the naturals are well founded.                *)
LEMMA HighestBit ==
  ASSUME NEW mask \in SUBSET (1..128), mask # {}
  PROVE  Max(mask) \in mask
<1> DEFINE Less == {p \in Nat \X Nat : p[1] < p[2]}
           Down == {128 - b : b \in mask}
<1>1. IsWellFoundedOn(Less, Nat)
  BY NatLessThanWellFounded DEF OpToRel
<1>2. Down \subseteq Nat /\ Down # {}
  <2>1. \A b \in mask : b \in 1..128
    OBVIOUS
  <2>2. \A b \in 1..128 : 128 - b \in Nat
    OBVIOUS
  <2>3. \A y \in Down : \E b \in mask : y = 128 - b
    OBVIOUS
  <2>4. \E b \in mask : 128 - b \in Down
    OBVIOUS
  <2> HIDE DEF Down
  <2> QED
    BY <2>1, <2>2, <2>3, <2>4
<1>3. \E x \in Down : \A y \in Down : <<y, x>> \notin Less
  <2> HIDE DEF Less, Down
  <2> QED
    BY <1>1, <1>2, WFMin
<1>4. \A x, y \in Nat : y < x => <<y, x>> \in Less
  OBVIOUS
<1>5. PICK x \in Down : \A y \in Down : <<y, x>> \notin Less
  BY <1>3
<1>6. ASSUME NEW y \in Down
      PROVE  x <= y
  <2> HIDE DEF Less, Down
  <2>1. x \in Nat /\ y \in Nat /\ ~(y < x)
    BY <1>2, <1>4, <1>5
  <2> QED
    BY <2>1
<1>7. PICK b \in mask : x = 128 - b
  BY <1>5
<1>8. ASSUME NEW c \in mask
      PROVE  b >= c
  <2>1. 128 - c \in Down
    OBVIOUS
  <2>2. x <= 128 - c
    BY <1>6, <2>1
  <2>3. b \in 1..128 /\ c \in 1..128
    OBVIOUS
  <2> QED
    BY <1>7, <2>2, <2>3
<1> QED
  BY <1>8 DEF Max

(* On the chips that are sent their bands no mask reaches band 97, where   *)
(* the digits of get_band_string would run out.                            *)
BandsFit == chip # "eg916u" => \A r \in Rats : bands[r] \subseteq 1..96

LEMMA TablesFit ==
  ASSUME chip # "eg916u", NEW type \in Rats
  PROVE  AllBands(type) \subseteq 1..96
  BY DEF AllBands, BandsOf, Common, Rats, Lte

LEMMA SetBandsFits ==
  ASSUME TypeOK, BandsFit, NEW rat \in Rats \cup {"Default"}, NEW type \in Rats,
         NEW arg \in BandArgs, SetBands(rat, type, arg)
  PROVE  BandsFit'
<1> SUFFICES ASSUME chip' # "eg916u" PROVE \A r \in Rats : bands'[r] \subseteq 1..96
  BY DEF BandsFit
<1>1. chip # "eg916u" /\ \A r \in Rats : bands[r] \subseteq 1..96
  BY DEF SetBands, BandsFit
<1>2. CASE bands' = bands
  BY <1>1, <1>2
<1>3. CASE /\ arg # <<>> /\ rat \in Rats /\ ~TableRefuses(type, arg)
           /\ bands' = [bands EXCEPT ![rat] = Stored(rat, MaskOf(type, arg))]
  <2>1. MaskOf(type, arg) \subseteq 1..96
    BY <1>1, <1>3, TablesFit DEF TableRefuses, MaskOf
  <2>2. Stored(rat, MaskOf(type, arg)) \subseteq 1..96
    BY <2>1 DEF Stored
  <2> QED
    BY <1>1, <1>3, <2>2 DEF TypeOK
<1> QED
  BY <1>2, <1>3 DEF SetBands, config

LEMMA FewDigits ==
  ASSUME NEW mask \in SUBSET (1..96)
  PROVE  Digits(mask) \in 0..24
<1>1. CASE mask = {}
  BY <1>1 DEF Digits
<1>2. CASE mask # {}
  <2>1. Max(mask) \in 1..96
    <3>1. mask \in SUBSET (1..128) /\ mask \subseteq 1..96
      OBVIOUS
    <3> QED
      BY <1>2, <3>1, HighestBit
  <2>2. (Max(mask) - 1) \div 4 <= 23
    BY <2>1
  <2> QED
    BY <1>2, <2>1, <2>2 DEF Digits
<1> QED
  BY <1>1, <1>2

(* cellular.rs:638-655: get_band_string is never given a mask it refuses,  *)
(* whatever bands, technologies and wrapped shifts set_bands was called    *)
(* with: its unwraps do not panic.                                         *)
THEOREM SendNeverPanicsHolds == Spec => []SendNeverPanics
<1> DEFINE Inv == TypeOK /\ BandsFit /\ SendNeverPanics
<1>1. Init => Inv
  BY InitType DEF Init, BandsFit, Blank, SendNeverPanics
<1>2. ASSUME Inv, [Next]_vars
      PROVE  Inv'
  <2>1. TypeOK'
    BY <1>2, NextType
  <2>2. CASE New
    BY <1>2, <2>1, <2>2 DEF New, BandsFit, Blank, SendNeverPanics
  <2>3. ASSUME NEW arg \in RatArgs, SetRatOrder(arg)
        PROVE  Inv'
    BY <1>2, <2>1, <2>3 DEF SetRatOrder, BandsFit, SendNeverPanics
  <2>4. ASSUME NEW rat \in Rats \cup {"Default"}, NEW type \in Rats, NEW arg \in BandArgs,
               SetBands(rat, type, arg)
        PROVE  Inv'
    <3>1. BandsFit'
      BY <1>2, <2>4, SetBandsFits
    <3>2. panicked' # "send"
      BY <1>2, <2>4 DEF SetBands, SendNeverPanics
    <3> QED
      BY <2>1, <3>1, <3>2 DEF SendNeverPanics
  <2>5. CASE Start
    <3>1. chip # "eg916u" => \A r \in Rats : Digits(bands[r]) \in 0..24
      <4> SUFFICES ASSUME chip # "eg916u", NEW r \in Rats PROVE Digits(bands[r]) \in 0..24
        OBVIOUS
      <4>1. bands[r] \in SUBSET (1..96)
        BY <1>2 DEF BandsFit
      <4> QED
        BY <4>1, FewDigits
    <3>2. \A n \in 0..24 : ~(n > 24)
      OBVIOUS
    <3>3. panicked' = "no"
      BY <2>5, <3>1, <3>2 DEF Start
    <3> QED
      BY <1>2, <2>1, <2>5, <3>3 DEF Start, config, BandsFit, SendNeverPanics
  <2>6. CASE NotSupported \/ Accept \/ Reject
    BY <1>2, <2>1, <2>6 DEF NotSupported, Accept, Reject, config, BandsFit, SendNeverPanics
  <2>7. CASE UNCHANGED vars
    BY <1>2, <2>1, <2>7 DEF vars, config, BandsFit, SendNeverPanics
  <2> QED
    BY <1>2, <2>2, <2>3, <2>4, <2>5, <2>6, <2>7 DEF Next
<1> QED
  BY <1>1, <1>2, PTL DEF Spec
=============================================================================
