---------------------------- MODULE DeviceProofs ----------------------------
(***************************************************************************)
(* Proofs about the OpenSprinkler device object (Device), for every set of *)
(* transport outcomes, references and snapshots.  The assembler's own      *)
(* steps are discharged by the lemmas of SnapshotAssemblerProofs.          *)
(***************************************************************************)
EXTENDS Device, SnapshotAssemblerProofs

(* executeCommand('ja') never hands a document back: it raises, or the     *)
(* int-vs-str status test at line 732 makes it return None.                *)
LEMMA ExecuteCommandNone ==
  ASSUME NEW r
  PROVE  ExecuteCommand(r).raised \/ ExecuteCommand(r).val = None
BY DEF ExecuteCommand

(* A completed getController therefore never reaches the constructor: it   *)
(* reports None and leaves the assembler and the attribute alone.          *)
LEMMA ReturnGetControllerNone ==
  ASSUME ReturnGetController
  PROVE  /\ inflight # None /\ inflight' = None
         /\ outcome' = "None"
         /\ UNCHANGED <<vars, device_controller, lastCall>>
<1>1. LET ex == ExecuteCommand(inflight) IN ex.raised \/ ex.val = None
  BY ExecuteCommandNone
<1>. QED
  BY <1>1 DEF ReturnGetController

-----------------------------------------------------------------------------
(* F6 for every set of responses: the `controller` attribute of the device *)
(* is the class OpenSprinklerController in every reachable state, so       *)
(* getStations, getPrograms, startProgram and startStation all work on the *)
(* class, whatever the device answers and whatever a client constructs.   *)
HoldsClass == device_controller = ControllerClass

THEOREM DeviceNeverHoldsInstance == DeviceSpec => []HoldsClass
<1>1. DeviceInit => HoldsClass
  BY DEF DeviceInit, HoldsClass
<1>2. HoldsClass /\ [DeviceNext]_all_vars => HoldsClass'
  <2> SUFFICES ASSUME HoldsClass, [DeviceNext]_all_vars PROVE HoldsClass'
    OBVIOUS
  <2>1. CASE ReturnGetController
    BY <2>1, ReturnGetControllerNone DEF HoldsClass
  <2>2. CASE ~ReturnGetController
    BY <2>2 DEF DeviceNext, SendGetController, GetStations, GetPrograms, StartProgram,
                StartStation, all_vars, device_vars, HoldsClass
  <2>. QED
    BY <2>1, <2>2
<1>. QED
  BY <1>1, <1>2, PTL DEF DeviceSpec

-----------------------------------------------------------------------------
(* DeviceTypeOK for every set of responses.  It is inductive only with     *)
(* HoldsClass: an attribute holding an index would have to stay inside     *)
(* `constructed`, which the proof would then have to track.               *)
IInvDevice == DeviceTypeOK /\ HoldsClass

LEMMA IInvDeviceInit == DeviceInit => IInvDevice
BY MaxConstructsAssumption DEF DeviceInit, Init, IInvDevice, DeviceTypeOK, TypeOK,
                               HoldsClass, Outcomes

LEMMA IInvDeviceStep == IInvDevice /\ [DeviceNext]_all_vars => IInvDevice'
<1> SUFFICES ASSUME IInvDevice, [DeviceNext]_all_vars PROVE IInvDevice'
  OBVIOUS
<1>0. TypeOK
  BY DEF IInvDevice, DeviceTypeOK
<1>1. ASSUME NEW r \in Responses, SendGetController(r) PROVE IInvDevice'
  BY <1>1 DEF SendGetController, IInvDevice, DeviceTypeOK, TypeOK, vars, HoldsClass
<1>2. CASE ReturnGetController
  BY <1>2, ReturnGetControllerNone DEF IInvDevice, DeviceTypeOK, TypeOK, vars,
                                       HoldsClass, Outcomes
<1>3. CASE GetStations \/ GetPrograms
  BY <1>3 DEF GetStations, GetPrograms, IInvDevice, DeviceTypeOK, TypeOK, vars,
              HoldsClass, Outcomes
<1>4. ASSUME NEW ref \in ProgramRefs, StartProgram(ref) PROVE IInvDevice'
  BY <1>4 DEF StartProgram, IInvDevice, DeviceTypeOK, TypeOK, vars, HoldsClass, Outcomes
<1>5. ASSUME NEW ref \in StationRefs, StartStation(ref) PROVE IInvDevice'
  BY <1>5 DEF StartStation, IInvDevice, DeviceTypeOK, TypeOK, vars, HoldsClass, Outcomes
<1>6. CASE inflight = None /\ Next /\ UNCHANGED device_vars
  <2>1. TypeOK'
    BY <1>0, <1>6, TypeOKStep
  <2>. QED
    BY <1>6, <2>1 DEF IInvDevice, DeviceTypeOK, device_vars, HoldsClass
<1>7. CASE UNCHANGED all_vars
  <2>1. TypeOK'
    BY <1>0, <1>7, TypeOKStep DEF all_vars
  <2>. QED
    BY <1>7, <2>1 DEF IInvDevice, DeviceTypeOK, all_vars, device_vars, HoldsClass
<1>. QED
  BY <1>1, <1>2, <1>3, <1>4, <1>5, <1>6, <1>7 DEF DeviceNext

(* The device's state stays well formed: the attribute is the class or an  *)
(* instance that was constructed, the outcome one of the calls' results,   *)
(* and a blocked request one of the device's responses.                    *)
THEOREM DeviceTypeCorrect == DeviceSpec => []DeviceTypeOK
<1>. QED
  BY IInvDeviceInit, IInvDeviceStep, PTL DEF DeviceSpec, IInvDevice
-----------------------------------------------------------------------------
(* The device changes properties only through the constructor and         *)
(* setProperty: with every device call interleaved, the property table    *)
(* still implements PropertyStore, a device call being a stutter of it.   *)
LEMMA DeviceKeepsVars ==
  ASSUME [DeviceNext]_all_vars
  PROVE  [Next]_vars
<1>1. CASE ReturnGetController
  BY <1>1, ReturnGetControllerNone
<1>2. CASE ~ReturnGetController
  BY <1>2 DEF DeviceNext, SendGetController, GetStations, GetPrograms, StartProgram,
              StartStation, all_vars
<1>. QED
  BY <1>1, <1>2

THEOREM DeviceRefinesStore == DeviceSpec => PropertiesRefineStore
<1>1. DeviceInit => PS!Init /\ IInvRefine
  BY StoreRefinementInit, IInvRefineInit DEF DeviceInit
<1>2. IInvRefine /\ [DeviceNext]_all_vars => [PS!Next]_StoreOf /\ IInvRefine'
  BY DeviceKeepsVars, StoreRefinementStep, IInvRefineStep
<1>. QED
  BY <1>1, <1>2, PTL DEF DeviceSpec, PropertiesRefineStore, PS!Spec
=============================================================================
