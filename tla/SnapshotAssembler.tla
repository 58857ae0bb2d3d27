------------------------- MODULE SnapshotAssembler -------------------------
(***************************************************************************)
(* OpenSprinklerController: its constructor, which resolves the property  *)
(* table, sets controller_enabled and decodes stations and programs from   *)
(* one /ja snapshot, and setProperty on the instance.                      *)
(*                                                                         *)
(* controller_stations and controller_programs are CLASS attributes       *)
(* (lines 42-44) that __init__ appends to and never rebinds, so every      *)
(* instance shares them and they keep what earlier constructions          *)
(* appended.  controller_properties is rebound per instance (line 48).    *)
(* `controller` is the instance most recently constructed; the ghosts     *)
(* `constructed` (the snapshots passed to the constructor, oldest first)  *)
(* and `written` (names given to setProperty since) serve the properties. *)
(***************************************************************************)
EXTENDS Integers, Sequences, StationDecoder

CONSTANTS
  Snapshots,      \* the /ja documents the constructor may be given
  PropNames,      \* names passed to setProperty (may include unknown ones)
  PropValues,     \* values passed to setProperty
  MaxConstructs,  \* bound on the number of constructions
  NoController    \* no instance constructed yet

ASSUME MaxConstructsAssumption == MaxConstructs \in Nat

(* The JSON shapes the station loop relies on, where present: nstations an *)
(* integer, snames and sn arrays.                                          *)
ASSUME SnapshotsAssumption ==
  \A s \in Snapshots :
    /\ Has(s, "status", "nstations") => s["status"]["nstations"] \in Int
    /\ Has(s, "stations", "snames") => s["stations"]["snames"] \in Seq(STRING)
    /\ Has(s, "status", "sn") => s["status"]["sn"] \in Seq(Int)

VARIABLES controller_stations, controller_programs, controller, constructed, written

vars == <<controller_stations, controller_programs, controller, constructed, written>>

PD == INSTANCE ProgramDecoder WITH ProgramInputs <- {}, NoProgram <- NoController,
                                   program <- controller_programs, call <- constructed

(* The program loop: iterations run while idx < num_programs; each reads   *)
(* programs.pd[idx] and its six fields.  ProgramCount is the number that   *)
(* complete before the bound or the first failing read.                   *)
PdOK(s, i) ==
  /\ Has(s, "programs", "pd")
  /\ i \in DOMAIN s["programs"]["pd"]
  /\ Len(s["programs"]["pd"][i]) >= 6

ProgramCount(s, n) ==
  LET bound == IF n > 0 THEN n ELSE 0
  IN CHOOSE k \in 0..bound : (\A i \in 1..k : PdOK(s, i)) /\ (k = bound \/ ~PdOK(s, k + 1))

DecodePrograms(s, n) ==
  [j \in 1..ProgramCount(s, n) |->
     LET pd == s["programs"]["pd"][j]
     IN PD!NewProgram(pd[6], pd[1], pd[2], pd[3], pd[4], pd[5])]

(* Mutant: the table is not re-created per instance, so an entry the new   *)
(* snapshot lacks keeps the previous instance's value.                    *)
ResolveStale(s) ==
  [i \in DOMAIN Registry |->
     IF Registry[i].source # Derived /\ Has(s, Registry[i].source, Registry[i].abbrev)
     THEN [Registry[i] EXCEPT !.val = s[Registry[i].source][Registry[i].abbrev]]
     ELSE IF controller # NoController THEN controller.properties[i] ELSE Registry[i]]

(* Mutant: controller_enabled set whenever settings.en exists.             *)
EnabledIgnoringValue(s) == Has(s, "settings", "en")

(* controller_enabled after __init__: `True if myDict['settings']['en']    *)
(* else False`, or the class default False when that lookup raises.       *)
ControllerEnabled(s) == Has(s, "settings", "en") /\ Truthy(s["settings"]["en"])

(* Mutant: Construct with the table carried over (ResolveStale).          *)
ConstructKeepingTable(s) ==
  /\ Len(constructed) < MaxConstructs
  /\ LET props == ResolveStale(s)
         np    == getProperty(props, "num_programs")
     IN /\ controller_stations' = controller_stations \o DecodeStations(s)
        /\ controller_programs' =
             controller_programs \o (IF StationsComplete(s) /\ ~np.raised
                                     THEN DecodePrograms(s, np.val) ELSE << >>)
        /\ controller' = [properties |-> props, enabled |-> ControllerEnabled(s)]
  /\ constructed' = Append(constructed, s)
  /\ written' = {}

(* OpenSprinklerController(myDict), lines 47-166, as one step: the table   *)
(* is resolved (outside the try), then the try block runs until its first  *)
(* exception.  The program loop is reached only when the station loop     *)
(* completed, and only when getProperty('num_programs') does not raise.   *)
Construct(s) ==
  /\ Len(constructed) < MaxConstructs
  /\ LET props == Resolve(s)
         np    == getProperty(props, "num_programs")
     IN /\ controller_stations' = controller_stations \o DecodeStations(s)
        /\ controller_programs' =
             controller_programs \o (IF StationsComplete(s) /\ ~np.raised
                                     THEN DecodePrograms(s, np.val) ELSE << >>)
        /\ controller' = [properties |-> props, enabled |-> ControllerEnabled(s)]
  /\ constructed' = Append(constructed, s)
  /\ written' = {}

(* controller.setProperty(var_name, var_value).                            *)
SetProperty(n, v) ==
  /\ controller # NoController
  /\ controller' = [controller EXCEPT !.properties = setProperty(@, n, v)]
  /\ written' = written \cup {n}
  /\ UNCHANGED <<controller_stations, controller_programs, constructed>>

Init ==
  /\ controller_stations = << >>
  /\ controller_programs = << >>
  /\ controller = NoController
  /\ constructed = << >>
  /\ written = {}

Next ==
  \/ \E s \in Snapshots : Construct(s)
  \/ \E n \in PropNames, v \in PropValues : SetProperty(n, v)

Spec == Init /\ [][Next]_vars
-----------------------------------------------------------------------------
(* Every station ever appended is the decoding of an index of a snapshot   *)
(* that was constructed; station indices stay within what that snapshot  *)
(* could have produced.                                                    *)
StationRecs == UNION { { NewStation(s, i) : i \in 0..(StationCount(s) - 1) } : s \in Snapshots }

TypeOK ==
  /\ controller_stations \in Seq(StationRecs)
  /\ constructed \in Seq(Snapshots)
  /\ Len(constructed) <= MaxConstructs
  /\ written \subseteq PropNames
  /\ \/ controller = NoController
     \/ /\ DOMAIN controller = {"properties", "enabled"}
        /\ controller.enabled \in BOOLEAN
        /\ DOMAIN controller.properties = DOMAIN Registry
        /\ \A i \in DOMAIN Registry : controller.properties[i].name = Registry[i].name

(* Reference decoding of a station (spec 4.2): flag k of station idx is    *)
(* bit idx of the single first byte of its array, as the integer the code  *)
(* stores (2^idx or 0); name and status by position.                       *)
RefStation(s, idx) ==
  LET flag(a) == IF BitSet(Byte(s, a), idx) THEN 2^idx ELSE 0
  IN [station_name       |-> s["stations"]["snames"][idx + 1],
      status             |-> s["status"]["sn"][idx + 1],
      station_id         |-> idx,
      ignore_rain_flag   |-> flag("ignore_rain"),
      is_sequential_flag |-> flag("stn_seq"),
      is_disabled_flag   |-> flag("stn_dis"),
      is_special_flag    |-> flag("stn_spe")]

(* The shared station list (what getStations() returns on ANY instance) is *)
(* exactly the concatenation, oldest construction first, of the stations  *)
(* each constructed snapshot yields up to its first failing read, each    *)
(* decoded bit by bit from that snapshot's own bytes.  It pins down both  *)
(* the per-station bit decoding (including the 8-station ceiling of a     *)
(* single flag byte) and how constructions accumulate in the class list.  *)
StationsAreHistory ==
  LET acc[i \in 0..Len(constructed)] ==
        IF i = 0 THEN << >>
        ELSE acc[i - 1] \o [j \in 1..StationCount(constructed[i]) |->
                              RefStation(constructed[i], j - 1)]
  IN controller_stations = acc[Len(constructed)]

(* The refinement mapping: the value each registered name has for a client *)
(* of the newest controller (getProperties() lists them), the declared     *)
(* defaults before the first construction.                                 *)
StoreOf ==
  [n \in Names |-> IF constructed = << >> THEN Registry[Idx(n)].val
                   ELSE ValueOf(controller.properties, n)]

PS == INSTANCE PropertyStore WITH store <- StoreOf

(* The property table with its resolution loop and setProperty implements *)
(* a dictionary from names to values: each construction re-resolves every  *)
(* name from its own snapshot (nothing left over from an earlier instance, *)
(* no entry shadowed by another of the same name), and setProperty is a    *)
(* last-write-wins overwrite of one name.                                  *)
PropertiesRefineStore == PS!Spec

(* isEnabled() agrees with the truthiness of the 'enabled' property as     *)
(* long as setProperty has not overwritten it: both come from settings.en, *)
(* or both keep their defaults (False and 0) when the snapshot lacks it.   *)
EnabledMirrorsProperty ==
  controller # NoController /\ "enabled" \notin written =>
    controller.enabled = Truthy(ValueOf(controller.properties, "enabled"))

(* Spec 3: a station's identity is its index; the controller's station     *)
(* list is index-addressed.  No two stations of the list share an index.  *)
StationIdsUnique ==
  \A i, j \in DOMAIN controller_stations :
    i # j => controller_stations[i].station_id # controller_stations[j].station_id

(* Spec 4.4 and 7: assembly is all-or-nothing; a controller is produced     *)
(* only when the station reads all succeed.                                *)
ConstructionAtomic ==
  controller # NoController => StationsComplete(constructed[Len(constructed)])

(* Spec 4.4: the constructor decodes one program per entry of pd up to     *)
(* num_programs, when those entries are well formed.                       *)
ProgramsDecoded ==
  controller # NoController =>
    LET s == constructed[Len(constructed)]
    IN (/\ StationsComplete(s)
        /\ Has(s, "programs", "nprogs")
        /\ \A i \in 1..s["programs"]["nprogs"] : PdOK(s, i))
       => Len(controller_programs) >= s["programs"]["nprogs"]
=============================================================================
