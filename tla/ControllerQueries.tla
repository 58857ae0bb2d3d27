-------------------------- MODULE ControllerQueries --------------------------
(***************************************************************************)
(* The getters of OpenSprinklerController (lines 201-292), called by a     *)
(* client on the newest controller between constructions and property      *)
(* writes.  A getter changes no attribute; `reply` is what the last call   *)
(* returned or raised.  Every getter that reads one property goes through  *)
(* getProperty, which only ever looks at the first entry of the table.     *)
(* print and list only write to stdout and are not modelled.               *)
(***************************************************************************)
EXTENDS SnapshotAssembler

CONSTANT NoReply   \* no getter called yet

VARIABLE reply

qvars == <<vars, reply>>

Raise(op, arg, e) == [op |-> op, arg |-> arg, raised |-> TRUE, exc |-> e]
Return(op, arg, v) == [op |-> op, arg |-> arg, raised |-> FALSE, val |-> v]

P == controller.properties

(* A getter whose body is `return self.getProperty(name)`; the exception   *)
(* getProperty raises is a NameError (UnknownPropertyError is undefined).  *)
ReadProperty(op, name) ==
  LET r == getProperty(P, name)
  IN IF r.raised THEN Raise(op, name, "NameError") ELSE Return(op, name, r.val)

(* Every getter runs on an existing controller and changes nothing else.   *)
Query(r) ==
  /\ controller # NoController
  /\ reply' = r
  /\ UNCHANGED vars

(* getProperty(var_name).                                                  *)
GetProperty(n) == Query(ReadProperty("getProperty", n))

(* Mutant: getProperties reads the class-level template, not the instance. *)
GetPropertiesTemplate ==
  Query(Return("getProperties", NoReply,
               [i \in DOMAIN Registry |-> [name |-> Registry[i].name, val |-> Registry[i].val]]))

(* getProperties: one {name, val} per entry, in table order.               *)
GetProperties ==
  Query(Return("getProperties", NoReply, [i \in DOMAIN P |-> [name |-> P[i].name, val |-> P[i].val]]))

(* getWxStatus: the API key, then the two weather-call stamps; with no key *)
(* the else branch calls debug.error, and `debug` is not defined.          *)
GetWxStatus ==
  LET key == getProperty(P, "wunderground_api_key")
      lw  == getProperty(P, "last_weather_call")
      ls  == getProperty(P, "last_successful_weather_call")
  IN Query(IF key.raised THEN Raise("getWxStatus", NoReply, "NameError")
           ELSE IF key.val \in {0, ""} THEN Raise("getWxStatus", NoReply, "NameError")
           ELSE IF lw.raised \/ ls.raised THEN Raise("getWxStatus", NoReply, "NameError")
           ELSE Return("getWxStatus", NoReply, lw.val = ls.val))

IsEnabled == Query(Return("isEnabled", NoReply, controller.enabled))

GetNumStations == Query(ReadProperty("getNumStations", "num_stations"))

GetNumPrograms == Query(ReadProperty("getNumPrograms", "num_programs"))

GetHardwareVersion == Query(ReadProperty("getHardwareVersion", "hardware_version"))

(* getFirmwareVersion: `except InvalidProperty` names an undefined class,  *)
(* so evaluating the handler after getProperty raises is itself a          *)
(* NameError.  The "a.b.c rev. d" formatting is left out.                  *)
GetFirmwareVersion ==
  LET fv  == getProperty(P, "firmware_version")
      fmv == getProperty(P, "firmware_minor_version")
  IN Query(IF fv.raised \/ fmv.raised THEN Raise("getFirmwareVersion", NoReply, "NameError")
           ELSE Return("getFirmwareVersion", NoReply, [version |-> fv.val, revision |-> fmv.val]))

GetHardwareType ==
  LET ht == getProperty(P, "hardware_type")
  IN Query(IF ht.raised THEN Raise("getHardwareType", NoReply, "NameError")
           ELSE Return("getHardwareType", NoReply, IF ht.val = 172 THEN "AC Powered" ELSE "DC Powered"))

(* getStations / getPrograms return the class-level lists.                 *)
GetStations == Query(Return("getStations", NoReply, controller_stations))

GetPrograms == Query(Return("getPrograms", NoReply, controller_programs))

QInit == Init /\ reply = NoReply

QNext ==
  \/ \E n \in PropNames : GetProperty(n)
  \/ GetProperties \/ GetWxStatus \/ IsEnabled \/ GetNumStations \/ GetNumPrograms
  \/ GetHardwareVersion \/ GetFirmwareVersion \/ GetHardwareType
  \/ GetStations \/ GetPrograms
  \/ Next /\ UNCHANGED reply

QSpec == QInit /\ [][QNext]_qvars
-----------------------------------------------------------------------------
(* The getters that return one property, and the property each reads.     *)
Reads == [getNumStations |-> "num_stations", getNumPrograms |-> "num_programs",
          getHardwareVersion |-> "hardware_version"]

(* What a getter that returned normally must have returned: the value the  *)
(* controller holds for the name (StoreOf, the dictionary the table        *)
(* implements), or the whole dictionary for getProperties.                 *)
ReadsStore(r) ==
  CASE r.op = "getProperties" ->
         /\ { r.val[i].name : i \in DOMAIN r.val } = Names
         /\ \A i \in DOMAIN r.val : r.val[i].val = StoreOf[r.val[i].name]
    [] r.op = "getProperty" -> r.arg \in Names /\ r.val = StoreOf[r.arg]
    [] r.op \in DOMAIN Reads -> Reads[r.op] \in Names /\ r.val = StoreOf[Reads[r.op]]
    [] OTHER -> TRUE

(* Every getter call that returns (rather than raising) returns the        *)
(* controller's current value for what it reads, at the moment of the call *)
(* (after any setProperty): never a template default, another entry's      *)
(* value, or a value for a name the table does not have.                   *)
GettersReadStore ==
  [][UNCHANGED vars /\ reply' # NoReply /\ ~reply'.raised => ReadsStore(reply')]_qvars
=============================================================================
