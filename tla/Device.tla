------------------------------- MODULE Device -------------------------------
(***************************************************************************)
(* The OpenSprinkler class (lines 670-826): the object a client holds for  *)
(* one device.  executeCommand sends one API request and interprets the    *)
(* response; getController fetches /ja and constructs an                   *)
(* OpenSprinklerController from it; getStations, getPrograms, startProgram *)
(* and startStation go through the `controller` attribute.                 *)
(*                                                                         *)
(* It composes SnapshotAssembler: the constructor it calls is Construct,   *)
(* and a client may also construct controllers and set their properties   *)
(* directly (both are in Next), since the class lists are shared.          *)
(*                                                                         *)
(* device_controller is the attribute `controller`: initially the CLASS    *)
(* OpenSprinklerController (line 674, truthy), or the position in          *)
(* `constructed` of the instance getController stored.  outcome is what   *)
(* the last call returned or raised; lastCall (ghost) is that call;       *)
(* inflight is the response getController is blocked on, or None.        *)
(***************************************************************************)
EXTENDS SnapshotAssembler

CONSTANTS
  Responses,       \* transport outcomes of one HTTP request
  StationRefs,     \* stationReference arguments of startStation
  ProgramRefs,     \* programReference arguments of startProgram
  NameRef,         \* a reference by name (a str), not a number
  ControllerClass, \* the class object OpenSprinklerController
  None             \* Python None

VARIABLES device_controller, outcome, lastCall, inflight

device_vars == <<device_controller, outcome, lastCall, inflight>>
all_vars == <<vars, device_vars>>

(* A Python value with its type: `code` is an int, '200' a str.            *)
PyEq(a, b) == a.type = b.type /\ a.v = b.v

(* executeCommand('ja') (699-754).  Connection failures and json.loads      *)
(* errors are not OS_Exception and propagate.  `code != '200'` compares the *)
(* int status with a str, so it holds for every response: the              *)
(* OS_UnauthorizedException it raises is caught by `except OS_Exception`   *)
(* and the call returns None.  Were the status equal, `result['retVal']`   *)
(* would raise NameError (`result` is not defined).                        *)
ExecuteCommand(r) ==
  IF r.kind = "conn_error" THEN [raised |-> TRUE, exc |-> "OSError"]
  ELSE IF ~r.json_ok THEN [raised |-> TRUE, exc |-> "ValueError"]
  ELSE IF ~PyEq(r.code, [type |-> "str", v |-> "200"]) THEN [raised |-> FALSE, val |-> None]
  ELSE [raised |-> TRUE, exc |-> "NameError"]

(* getController (757-766), first half: executeCommand('ja') opens the     *)
(* connection and sends the request (lines 716-717), then blocks in        *)
(* getresponse() with no timeout.  The program is single-threaded: nothing *)
(* else runs on the device object until the call returns.  The response r  *)
(* is the device's, fixed when the request is sent.                        *)
SendGetController(r) ==
  /\ inflight = None
  /\ inflight' = r
  /\ lastCall' = [op |-> "getController", arg |-> r]
  /\ UNCHANGED <<vars, device_controller, outcome>>

(* Mutant: the except clause of getController resets the attribute.       *)
ReturnGetControllerResetting ==
  /\ inflight # None
  /\ inflight.kind # "hang"
  /\ inflight' = None
  /\ device_controller' = None
  /\ outcome' = "None"
  /\ UNCHANGED <<vars, lastCall>>

(* getController, second half: the response arrives (a device that never  *)
(* answers, kind "hang", never gets here).  With None the constructor      *)
(* raises TypeError in the resolution loop (`sourceName in None`), before  *)
(* the try block; getController's bare except returns None and leaves the  *)
(* attribute as it was.  Only a returned document would be constructed    *)
(* and stored.                                                             *)
ReturnGetController ==
  /\ inflight # None
  /\ inflight.kind # "hang"
  /\ inflight' = None
  /\ LET ex == ExecuteCommand(inflight)
     IN IF ex.raised \/ ex.val = None
        THEN /\ outcome' = "None"
             /\ UNCHANGED <<vars, device_controller, lastCall>>
        ELSE /\ Construct(ex.val)
             /\ device_controller' = Len(constructed) + 1
             /\ outcome' = "Controller"
             /\ UNCHANGED lastCall

(* getStations / getPrograms (768-788): `if self.controller` is true for   *)
(* the class too, and calling the unbound method without self raises       *)
(* TypeError.                                                              *)
GetStations ==
  /\ inflight = None
  /\ outcome' = IF device_controller = ControllerClass THEN "TypeError" ELSE "Stations"
  /\ lastCall' = [op |-> "getStations", arg |-> None]
  /\ UNCHANGED <<vars, device_controller, inflight>>

GetPrograms ==
  /\ inflight = None
  /\ outcome' = IF device_controller = ControllerClass THEN "TypeError" ELSE "Programs"
  /\ lastCall' = [op |-> "getPrograms", arg |-> None]
  /\ UNCHANGED <<vars, device_controller, inflight>>

(* startProgram (790-810).  A number is checked with `<=` against          *)
(* getNumPrograms(), i.e. getProperty('num_programs'), which only the     *)
(* names of the table decide; a valid one reaches `self.write`, which the  *)
(* class does not define.  Any other reference evaluates `string.String`   *)
(* and `string` is not imported.                                           *)
StartProgram(ref) ==
  /\ inflight = None
  /\ outcome' =
       IF ref = NameRef THEN "NameError"
       ELSE IF device_controller = ControllerClass THEN "TypeError"
       ELSE LET np == getProperty(Resolve(constructed[device_controller]), "num_programs")
            IN IF np.raised THEN "NameError"
               ELSE IF ref <= np.val THEN "AttributeError" ELSE "None"
  /\ lastCall' = [op |-> "startProgram", arg |-> ref]
  /\ UNCHANGED <<vars, device_controller, inflight>>

(* startStation (812-826).  A number indexes getStations() (negative       *)
(* indices count from the end); referenceValid is never set, so no command *)
(* is sent whether or not the station is disabled.                         *)
StartStation(ref) ==
  /\ inflight = None
  /\ outcome' =
       IF ref = NameRef THEN "None"
       ELSE IF device_controller = ControllerClass THEN "TypeError"
       ELSE IF -Len(controller_stations) <= ref /\ ref < Len(controller_stations)
            THEN "None" ELSE "IndexError"
  /\ lastCall' = [op |-> "startStation", arg |-> ref]
  /\ UNCHANGED <<vars, device_controller, inflight>>

DeviceInit ==
  /\ Init
  /\ device_controller = ControllerClass
  /\ outcome = "None"
  /\ lastCall = [op |-> "none", arg |-> None]
  /\ inflight = None

DeviceNext ==
  \/ \E r \in Responses : SendGetController(r)
  \/ ReturnGetController
  \/ GetStations
  \/ GetPrograms
  \/ \E ref \in ProgramRefs : StartProgram(ref)
  \/ \E ref \in StationRefs : StartStation(ref)
  \/ inflight = None /\ Next /\ UNCHANGED device_vars

DeviceSpec == DeviceInit /\ [][DeviceNext]_all_vars

(* A response that has arrived is eventually read: getresponse() returns   *)
(* once the device's answer (or the refusal) reaches the socket, so the    *)
(* return step is weakly fair.  The client's own calls are not: it may     *)
(* stop calling at any time.  Every return step empties `inflight`, so    *)
(* weak fairness with respect to `inflight` is weak fairness of the step. *)
FairDeviceSpec == DeviceSpec /\ WF_inflight(ReturnGetController)
-----------------------------------------------------------------------------
Outcomes == {"None", "Controller", "Stations", "Programs", "TypeError", "NameError",
             "IndexError", "AttributeError"}

DeviceTypeOK ==
  /\ TypeOK
  /\ device_controller \in {ControllerClass} \cup 1..Len(constructed)
  /\ outcome \in Outcomes
  /\ inflight \in Responses \cup {None}

(* Spec 6: the transport supplies one JSON document per query.  A          *)
(* getController whose request is answered with status 200 and a valid     *)
(* JSON snapshot leaves the device holding a controller built from it.     *)
FetchYieldsController ==
  /\ lastCall.op = "getController"
  /\ lastCall.arg.kind = "http"
  /\ lastCall.arg.json_ok
  /\ lastCall.arg.code.v = 200
  /\ inflight = None
  => device_controller # ControllerClass

(* Every getController call returns: once the request is sent, the call    *)
(* eventually comes back and the client can go on.  executeCommand opens   *)
(* HTTPConnection(host, port) without a timeout (line 716), so this holds  *)
(* only if the device always answers or refuses.                           *)
GetControllerReturns == inflight # None ~> inflight = None
=============================================================================
