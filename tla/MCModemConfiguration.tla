------------------------ MODULE MCModemConfiguration ------------------------
(* Arguments for ModemConfiguration: each sentinel alone, first, and among *)
(* bands; a band of every table, of some tables, and pairs of them.        *)
EXTENDS ModemConfiguration

BandArgsMC ==
  {<<>>, <<0>>, <<255>>, <<255, 3>>, <<3, 0>>, <<0, 3>>, <<3, 255>>, <<3>>, <<3, 8, 20>>,
   <<26>>, <<28>>, <<71>>, <<85, 1>>}

RatArgsMC ==
  {<<>>, <<"GSM">>, <<"Default">>, <<"EMTC", "GSM">>, <<"NbIoT">>, <<"GSM", "GSM">>,
   <<"GSM", "NbIoT", "EMTC">>, <<"Default", "GSM", "EMTC", "NbIoT">>}
=============================================================================
