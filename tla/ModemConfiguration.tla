------------------------- MODULE ModemConfiguration -------------------------
(***************************************************************************)
(* ModemConfiguration (src/src/quectel_atat/types.rs), its builder calls   *)
(* set_bands and set_rat_order, and QuectelBG9X::set_modem_configuration   *)
(* (src/src/cellular.rs), which writes it to the modem one AT+QCFG at a    *)
(* time.  A band mask is the set of its bands: bit b - 1 is band b.        *)
(***************************************************************************)
EXTENDS Naturals, Sequences, Functions, FiniteSetsExt

CONSTANTS
  Chips,       (* cargo features that may be built: bg95, bg96, eg916u      *)
  Builds,      (* "debug" checks arithmetic, "release" wraps it             *)
  BandArgs,    (* sequences of bands a caller passes to set_bands           *)
  RatArgs,     (* sequences of technologies passed to set_rat_order         *)
  MaxEdits,    (* bound: builder calls                                      *)
  MaxCalls,    (* bound: calls of set_modem_configuration                   *)
  MaxFaults    (* bound: refused commands and lost answers                  *)

Lte == {"EMTC", "NbIoT"}
Rats == Lte \cup {"GSM"}

ASSUME ModemConfigurationAssumption ==
  /\ Chips \subseteq {"bg95", "bg96", "eg916u"} /\ Builds \subseteq {"debug", "release"}
  /\ BandArgs \subseteq Seq(0..255) /\ RatArgs \subseteq Seq(Rats \cup {"Default"})
  /\ MaxEdits \in Nat /\ MaxCalls \in Nat /\ MaxFaults \in Nat

VARIABLES
  chip, build,
  bands,       (* gsm_bands, emtc_bands, nb_bands                           *)
  order,       (* rat_order                                                 *)
  mixed,       (* technologies given bands of another technology's type     *)
  next,        (* the setting to send next, 0 between calls                 *)
  result,      (* of the last call: "none", "Ok", or its error              *)
  panicked,    (* "no", or the call that did: "set_bands" or "send"         *)
  modem,       (* the modem's settings, in the order of Settings            *)
  before,      (* the same when the call began                              *)
  edits, calls, faults

config == <<bands, order, mixed>>
run == <<next, result, before>>
vars == <<chip, build, config, run, panicked, modem, edits, calls, faults>>

(* AT+QCFG="band", "nwscanseq", "nwscanmode", "servicedomain", "iotopmode" *)
Settings == 1..5

NoChange == 0
Any == 255
-----------------------------------------------------------------------------
(* The enumerators of GsmBands, EmtcBands and NbIotBands, and the bits of  *)
(* their all_bands_mask: 0xF; 0xB0E189F, 0x100182000000004F0E189F,         *)
(* 0x800800B5; 0xB0E189F, 0x1001C200000000490E189F, 0x0.                   *)
Common == {1, 2, 3, 4, 5, 8, 12, 13, 18, 19, 20, 25, 28}

BandsOf(type) ==
  CASE type = "GSM" -> 1..4
    [] type = "EMTC" -> Common \cup {26} \cup
         (IF chip = "bg95" THEN {27, 31, 66, 72, 73, 85} ELSE {})
    [] type = "NbIoT" -> Common
         \cup (IF chip = "bg96" THEN {26} ELSE {})
         \cup (IF chip = "bg95" THEN {31, 66, 71, 72, 73, 85} ELSE {})

AllBands(type) ==
  CASE type = "GSM" -> 1..4
    [] type = "EMTC" /\ chip = "eg916u" -> {1, 3, 5, 6, 8, 20, 32}
    [] type = "NbIoT" /\ chip = "eg916u" -> {}
    [] OTHER -> BandsOf(type)

(* 1u128 << (band - 1): of 0 and 255 a debug build panics, a release build *)
(* masks the shift to seven bits.                                          *)
BitOf(band) == IF band \in 1..128 THEN band ELSE ((band + 127) % 128) + 1

ShiftPanics(arg) ==
  /\ build = "debug" /\ Head(arg) # Any /\ arg # <<NoChange>>
  /\ Range(arg) \cap {NoChange, Any} # {}

MaskOf(type, arg) ==
  IF Head(arg) = Any THEN AllBands(type)
  ELSE IF arg = <<NoChange>> THEN {}
  ELSE {BitOf(b) : b \in Range(arg)}

(* `mask as u8' keeps eight bits.                                          *)
Stored(rat, mask) == IF rat = "GSM" THEN mask \cap 1..8 ELSE mask

Blank == [r \in Rats |-> {}]
DefaultOrder == <<"EMTC", "NbIoT", "GSM">>

Init ==
  /\ chip \in Chips /\ build \in Builds
  /\ bands = Blank /\ order = DefaultOrder /\ mixed = {}
  /\ next = 0 /\ result = "none" /\ panicked = "no"
  /\ modem = <<[r \in Rats |-> AllBands(r)], <<"Default">>, 3, 2, 2>>
  /\ before = modem
  /\ edits = 0 /\ calls = 0 /\ faults = 0

(* The call takes the configuration by value: afterwards there is none.    *)
HasConfig == next = 0 /\ panicked = "no" /\ result = "none"
Edit == HasConfig /\ edits < MaxEdits /\ edits' = edits + 1

(* A caller that starts from a new configuration.                          *)
New ==
  /\ result # "none" /\ panicked = "no"
  /\ bands' = Blank /\ order' = DefaultOrder /\ mixed' = {} /\ result' = "none"
  /\ UNCHANGED <<chip, build, next, before, panicked, modem, edits, calls, faults>>

TableRefuses_Never(type, arg) == FALSE

TableRefuses(type, arg) ==
  /\ Head(arg) # Any /\ arg # <<NoChange>>
  /\ ~(MaskOf(type, arg) \subseteq AllBands(type))

SetBands(rat, type, arg) ==
  /\ Edit /\ Range(arg) \subseteq BandsOf(type) \cup {NoChange, Any}
  /\ \/ arg = <<>> /\ UNCHANGED <<config, panicked>>
     \/ arg # <<>> /\ ShiftPanics(arg) /\ panicked' = "set_bands" /\ UNCHANGED config
     \/ /\ arg # <<>> /\ ~ShiftPanics(arg)
        /\ TableRefuses(type, arg) \/ rat = "Default"
        /\ UNCHANGED <<config, panicked>>
     \/ /\ arg # <<>> /\ ~ShiftPanics(arg)
        /\ ~TableRefuses(type, arg) /\ rat \in Rats
        /\ bands' = [bands EXCEPT ![rat] = Stored(rat, MaskOf(type, arg))]
        /\ mixed' = IF type = rat THEN mixed \ {rat} ELSE mixed \cup {rat}
        /\ UNCHANGED <<order, panicked>>
  /\ UNCHANGED <<chip, build, run, modem, calls, faults>>

(* At most three technologies, none of them twice.                         *)
OrderRefused(arg) == Len(arg) \notin 1..3 \/ ~IsInjective(arg)

SetRatOrder(arg) ==
  /\ Edit
  /\ order' = IF OrderRefused(arg) THEN order ELSE arg
  /\ UNCHANGED <<chip, build, bands, mixed, run, panicked, modem, calls, faults>>
-----------------------------------------------------------------------------
(* get_iotop_mode; 3 stands for its Err(NotSupported).                     *)
IotOpMode_Gsm(seq) == IF "NbIoT" \in Range(seq) THEN 2 ELSE 0

IotOpMode(seq) ==
  CASE Range(seq) \cap Lte = {"EMTC"} -> 0
    [] Range(seq) \cap Lte = {"NbIoT"} -> 1
    [] Range(seq) \cap Lte = Lte -> 2
    [] OTHER -> 3

(* get_band_string: hexadecimal digits of a mask, at most 24 of them.      *)
Digits(mask) == IF mask = {} THEN 1 ELSE ((Max(mask) - 1) \div 4) + 1

(* What the modem makes of the setting i: of a mask of 0, nothing.         *)
Value(i) ==
  CASE i = 1 -> [r \in Rats |-> IF bands[r] = {} THEN modem[1][r] ELSE bands[r]]
    [] i = 2 -> order
    [] i = 3 -> 0
    [] i = 4 -> 1
    [] i = 5 -> IotOpMode(order)

(* The EG916U is sent its service domain only.                             *)
First == IF chip = "eg916u" THEN 4 ELSE 1

Start ==
  /\ HasConfig /\ calls < MaxCalls /\ calls' = calls + 1
  /\ next' = First /\ before' = modem
  /\ panicked' = IF chip # "eg916u" /\ \E r \in Rats : Digits(bands[r]) > 24
                 THEN "send" ELSE "no"
  /\ UNCHANGED <<chip, build, config, result, modem, edits, faults>>

Return(r) == next' = 0 /\ result' = r /\ UNCHANGED before
Sending == next # 0 /\ panicked = "no" /\ (next = 5 => IotOpMode(order) # 3)

(* The mode is worked out only when its turn has come.                     *)
NotSupported ==
  /\ next = 5 /\ panicked = "no" /\ IotOpMode(order) = 3
  /\ Return("NotSupported")
  /\ UNCHANGED <<chip, build, config, panicked, modem, edits, calls, faults>>

After == IF next = 5 \/ chip = "eg916u" THEN 0 ELSE next + 1

Accept ==
  /\ Sending
  /\ modem' = [modem EXCEPT ![next] = Value(next)]
  /\ next' = After /\ result' = IF After = 0 THEN "Ok" ELSE result
  /\ UNCHANGED <<chip, build, config, before, panicked, edits, calls, faults>>

(* A refused command, or one whose answer was lost.  Only the EG916U arm   *)
(* does not mind.                                                          *)
Reject_Continues ==
  /\ Sending /\ faults < MaxFaults /\ faults' = faults + 1
  /\ modem' \in {modem, [modem EXCEPT ![next] = Value(next)]}
  /\ next' = After /\ result' = IF After = 0 THEN "Ok" ELSE result
  /\ UNCHANGED <<chip, build, config, before, panicked, edits, calls>>

Reject ==
  /\ Sending /\ faults < MaxFaults /\ faults' = faults + 1
  /\ modem' \in {modem, [modem EXCEPT ![next] = Value(next)]}
  /\ Return(IF chip = "eg916u" THEN "Ok" ELSE "NotResponding")
  /\ UNCHANGED <<chip, build, config, panicked, edits, calls>>

Next ==
  \/ New
  \/ \E rat \in Rats \cup {"Default"}, type \in Rats, arg \in BandArgs : SetBands(rat, type, arg)
  \/ \E arg \in RatArgs : SetRatOrder(arg)
  \/ Start \/ NotSupported \/ Accept \/ Reject

Spec == Init /\ [][Next]_vars
-----------------------------------------------------------------------------
(* Types; between calls an error names a call that failed.                 *)
TypeOK ==
  /\ chip \in Chips /\ build \in Builds
  /\ bands \in [Rats -> SUBSET (1..128)] /\ mixed \subseteq Rats
  /\ order \in {DefaultOrder} \cup RatArgs
  /\ next \in 0..5 /\ result \in {"none", "Ok", "NotResponding", "NotSupported"}
  /\ panicked \in {"no", "set_bands", "send"}
  /\ DOMAIN modem = Settings /\ DOMAIN before = Settings
  /\ edits \in Nat /\ calls \in Nat /\ faults \in Nat
  /\ result # "none" => next = 0

(* What set_modem_configuration has done to the modem at any moment and    *)
(* however it returned (cellular.rs:632-745): the settings before some     *)
(* point have the values of the configuration, those behind it the values  *)
(* they had.  There is no other mixture, but on an error there is a        *)
(* mixture, and nothing puts the old values back.                          *)
Applied(i) ==
  IF i = 1 THEN [r \in Rats |-> IF bands[r] = {} THEN before[1][r] ELSE bands[r]]
  ELSE Value(i)

PrefixApplied ==
  chip # "eg916u" /\ (next # 0 \/ result # "none") /\ panicked = "no" =>
    \E k \in 0..5 : \A i \in Settings :
      modem[i] = IF i <= k THEN Applied(i) ELSE before[i]

(* Ok from set_modem_configuration means all five, and an <iotopmode> that *)
(* fits the scan sequence the modem has been given (cellular.rs:726-745),  *)
(* whatever was set on the modem by earlier calls that failed half way.    *)
OkIsWhole ==
  chip # "eg916u" /\ result = "Ok" =>
    /\ \A i \in Settings : modem[i] = Applied(i)
    /\ modem[5] \in 0..2
    /\ modem[5] \in {0, 2} <=> "EMTC" \in Range(modem[2])
    /\ modem[5] \in {1, 2} <=> "NbIoT" \in Range(modem[2])

(* No mask that set_bands accepted makes get_band_string fail, so that its *)
(* unwrap (cellular.rs:638-655) is safe: bands that wrapped in the shift   *)
(* and bands of another technology's type included.                        *)
SendNeverPanics == panicked # "send"
=============================================================================
