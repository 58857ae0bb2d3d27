--------------------------- MODULE StationDecoder ---------------------------
(***************************************************************************)
(* The station half of OpenSprinklerController.__init__ (lines 133-150):   *)
(* the reads that precede the station loop and the loop itself, which     *)
(* builds one OpenSprinklerStation per index from the name and status     *)
(* arrays and the four flag bytes.  Every read can raise (KeyError,        *)
(* IndexError); __init__ swallows the exception, so what the loop appended *)
(* before the failing read stays appended.                                 *)
(***************************************************************************)
EXTENDS Integers, Sequences, BitMasks, PropertyRegistry

FlagArrays == {"ignore_rain", "stn_seq", "stn_dis", "stn_spe"}

(* Lines 133-139 all succeed: settings.en, the first element of each of   *)
(* the four flag arrays, and status.nstations.                             *)
HeaderOK(s) ==
  /\ Has(s, "settings", "en")
  /\ \A a \in FlagArrays : Has(s, "stations", a) /\ Len(s["stations"][a]) > 0
  /\ Has(s, "status", "nstations")

(* ir_byte, seq_byte, dis_byte, spe_byte: element [0] of a flag array.     *)
Byte(s, a) == s["stations"][a][1]

NStations(s) == s["status"]["nstations"]

(* Length of an array the loop indexes, 0 when its key is absent (the     *)
(* first read then raises KeyError).                                       *)
ArrayLen(s, sec, key) == IF Has(s, sec, key) THEN Len(s[sec][key]) ELSE 0

MinOf(a, b) == IF a < b THEN a ELSE b

(* The number of iterations of `while idx < num_stations` that complete:   *)
(* the loop stops at the bound or at the first index missing from snames   *)
(* or from sn.                                                             *)
StationCount(s) ==
  IF HeaderOK(s)
  THEN MinOf(MinOf(IF NStations(s) > 0 THEN NStations(s) ELSE 0,
                   ArrayLen(s, "stations", "snames")),
             ArrayLen(s, "status", "sn"))
  ELSE 0

(* The station loop ran to its bound without raising.                      *)
StationsComplete(s) ==
  HeaderOK(s) /\ StationCount(s) = (IF NStations(s) > 0 THEN NStations(s) ELSE 0)

(* Mutant: masks taken with 2**(idx+1), as if station numbers were 1-based. *)
NewStationOneBased(s, idx) ==
  [station_name       |-> s["stations"]["snames"][idx + 1],
   status             |-> s["status"]["sn"][idx + 1],
   station_id         |-> idx,
   ignore_rain_flag   |-> Mask(Byte(s, "ignore_rain"), 2^(idx + 1)),
   is_sequential_flag |-> Mask(Byte(s, "stn_seq"), 2^(idx + 1)),
   is_disabled_flag   |-> Mask(Byte(s, "stn_dis"), 2^(idx + 1)),
   is_special_flag    |-> Mask(Byte(s, "stn_spe"), 2^(idx + 1))]

(* One iteration: OpenSprinklerStation(station_name, status, idx,          *)
(* ignore_rain, is_sequential, is_disabled, is_special), each flag being   *)
(* the integer `byte & 2**idx`.                                            *)
NewStation(s, idx) ==
  [station_name       |-> s["stations"]["snames"][idx + 1],
   status             |-> s["status"]["sn"][idx + 1],
   station_id         |-> idx,
   ignore_rain_flag   |-> Mask(Byte(s, "ignore_rain"), 2^idx),
   is_sequential_flag |-> Mask(Byte(s, "stn_seq"), 2^idx),
   is_disabled_flag   |-> Mask(Byte(s, "stn_dis"), 2^idx),
   is_special_flag    |-> Mask(Byte(s, "stn_spe"), 2^idx)]

(* The stations the loop appends to controller_stations, in order.         *)
DecodeStations(s) == [j \in 1..StationCount(s) |-> NewStation(s, j - 1)]
=============================================================================
