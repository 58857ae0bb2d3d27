---------------------- MODULE SnapshotAssemblerProofs ----------------------
(***************************************************************************)
(* Proofs about OpenSprinklerController's constructor and setProperty, for *)
(* every set of snapshots satisfying SnapshotsAssumption and every bound.  *)
(***************************************************************************)
EXTENDS SnapshotAssembler, SequenceTheorems, TLAPS

(* The station loop completes a natural number of iterations.              *)
LEMMA StationCountNat ==
  ASSUME NEW s \in Snapshots
  PROVE  StationCount(s) \in Nat
<1>1. ArrayLen(s, "stations", "snames") \in Nat /\ ArrayLen(s, "status", "sn") \in Nat
  BY SnapshotsAssumption, LenProperties DEF ArrayLen
<1>2. HeaderOK(s) => NStations(s) \in Int
  BY SnapshotsAssumption DEF HeaderOK, NStations
<1>. QED
  BY <1>1, <1>2 DEF StationCount, MinOf

(* What the station loop appends is a sequence of station records, each   *)
(* the decoding of an index below the loop's count.                        *)
LEMMA DecodeStationsType ==
  ASSUME NEW s \in Snapshots
  PROVE  DecodeStations(s) \in Seq(StationRecs)
<1>1. StationCount(s) \in Nat
  BY StationCountNat
<1>2. \A j \in 1..StationCount(s) : NewStation(s, j - 1) \in StationRecs
  <2> SUFFICES ASSUME NEW j \in 1..StationCount(s)
               PROVE  NewStation(s, j - 1) \in StationRecs
    OBVIOUS
  <2>1. j - 1 \in 0..(StationCount(s) - 1)
    BY <1>1
  <2>. QED
    BY <2>1 DEF StationRecs
<1>. QED
  BY <1>1, <1>2 DEF DecodeStations

(* Resolution keeps every entry's name and the table's index set.          *)
LEMMA ResolveShape ==
  ASSUME NEW s
  PROVE  /\ DOMAIN Resolve(s) = DOMAIN Registry
         /\ \A i \in DOMAIN Registry : Resolve(s)[i].name = Registry[i].name
<1>1. DOMAIN Resolve(s) = DOMAIN Registry
  BY DEF Resolve
<1>2. ASSUME NEW i \in DOMAIN Registry
      PROVE  Resolve(s)[i].name = Registry[i].name
  <2>1. DOMAIN Registry = 1..7 /\ \A k \in 1..7 : {"name", "val"} \subseteq DOMAIN Registry[k]
    BY DEF Registry, Derived
  <2>2. \A x : [Registry[i] EXCEPT !.val = x].name = Registry[i].name
    BY <2>1
  <2>. QED
    BY <2>2 DEF Resolve
<1>. QED
  BY <1>1, <1>2

(* setProperty keeps every entry's name and the table's index set.         *)
LEMMA SetPropertyShape ==
  ASSUME NEW props, NEW n, NEW v
  PROVE  /\ DOMAIN setProperty(props, n, v) = DOMAIN props
         /\ \A i \in DOMAIN props : setProperty(props, n, v)[i].name = props[i].name
BY DEF setProperty
(* The entries of the table the proofs look at.                           *)
LEMMA RegistryFacts ==
  /\ DOMAIN Registry = 1..7
  /\ Registry[1].name = "device_time"
  /\ Registry[2] = [name |-> "enabled", source |-> "settings", abbrev |-> "en", val |-> 0]
  /\ Registry[3].name = "location"
  /\ Registry[4].name = "station_names"
  /\ Registry[5].name = "num_stations"
  /\ Registry[6].name = "num_programs"
  /\ Registry[7].name = "port_number"
<1>1. DOMAIN Registry = 1..7
  BY DEF Registry
<1>2. Registry[2] = [name |-> "enabled", source |-> "settings", abbrev |-> "en", val |-> 0]
  BY DEF Registry
<1>3. /\ Registry[1].name = "device_time"
      /\ Registry[3].name = "location"
      /\ Registry[4].name = "station_names"
      /\ Registry[5].name = "num_stations"
      /\ Registry[6].name = "num_programs"
      /\ Registry[7].name = "port_number"
  BY Zenon DEF Registry, Derived
<1>. QED
  BY <1>1, <1>2, <1>3

(* The 'enabled' entry is the second of the table, whatever its values.    *)
LEMMA EnabledEntry ==
  ASSUME NEW props, DOMAIN props = DOMAIN Registry,
         \A i \in DOMAIN Registry : props[i].name = Registry[i].name
  PROVE  ValueOf(props, "enabled") = props[2].val
<1>1. \A i \in DOMAIN props : props[i].name = "enabled" <=> i = 2
  BY RegistryFacts
<1>2. 2 \in DOMAIN props
  BY RegistryFacts
<1>3. (CHOOSE i \in DOMAIN props : props[i].name = "enabled") = 2
  BY <1>1, <1>2, Zenon
<1>. QED
  BY <1>3 DEF ValueOf

(* Resolution gives 'enabled' the raw settings.en, or its default 0.       *)
LEMMA ResolveEnabled ==
  ASSUME NEW s
  PROVE  Resolve(s)[2].val = IF Has(s, "settings", "en") THEN s["settings"]["en"] ELSE 0
<1>1. Resolve(s)[2] = IF Registry[2].source # Derived /\ Has(s, Registry[2].source, Registry[2].abbrev)
                      THEN [Registry[2] EXCEPT !.val = s[Registry[2].source][Registry[2].abbrev]]
                      ELSE Registry[2]
  BY RegistryFacts DEF Resolve
<1>. QED
  BY <1>1, RegistryFacts DEF Derived

-----------------------------------------------------------------------------
(* Type correctness: the shared station list only ever holds decodings of  *)
(* constructed snapshots, and neither resolution nor setProperty renames   *)
(* or drops an entry of the property table.                                *)
LEMMA TypeOKStep == TypeOK /\ [Next]_vars => TypeOK'
  <2> SUFFICES ASSUME TypeOK, [Next]_vars PROVE TypeOK'
    OBVIOUS
  <2>1. ASSUME NEW s \in Snapshots, Construct(s) PROVE TypeOK'
    <3>1. controller_stations' \in Seq(StationRecs)
      BY <2>1, DecodeStationsType, ConcatProperties DEF Construct, TypeOK
    <3>2. constructed' \in Seq(Snapshots) /\ Len(constructed') <= MaxConstructs
      BY <2>1, AppendProperties, MaxConstructsAssumption DEF Construct, TypeOK
    <3>3. /\ DOMAIN controller' = {"properties", "enabled"}
          /\ controller'.enabled \in BOOLEAN
          /\ DOMAIN controller'.properties = DOMAIN Registry
          /\ \A i \in DOMAIN Registry : controller'.properties[i].name = Registry[i].name
      BY <2>1, ResolveShape DEF Construct, ControllerEnabled
    <3>4. written' \subseteq PropNames
      BY <2>1 DEF Construct
    <3>. QED
      BY <3>1, <3>2, <3>3, <3>4 DEF TypeOK
  <2>2. ASSUME NEW n \in PropNames, NEW v \in PropValues, SetProperty(n, v) PROVE TypeOK'
    <3>1. controller # NoController
      BY <2>2 DEF SetProperty
    <3>2. DOMAIN controller = {"properties", "enabled"}
      BY <3>1 DEF TypeOK
    <3>3. controller'.properties = setProperty(controller.properties, n, v)
          /\ controller'.enabled = controller.enabled
          /\ DOMAIN controller' = DOMAIN controller
      BY <2>2, <3>2 DEF SetProperty
    <3>4. /\ DOMAIN controller'.properties = DOMAIN Registry
          /\ \A i \in DOMAIN Registry : controller'.properties[i].name = Registry[i].name
      BY <3>1, <3>3, SetPropertyShape DEF TypeOK
    <3>. QED
      BY <2>2, <3>1, <3>2, <3>3, <3>4 DEF SetProperty, TypeOK
  <2>3. CASE UNCHANGED vars
    BY <2>3 DEF vars, TypeOK
  <2>. QED
    BY <2>1, <2>2, <2>3 DEF Next

THEOREM TypeCorrect == Spec => []TypeOK
<1>1. Init => TypeOK
  BY MaxConstructsAssumption DEF Init, TypeOK
<1>. QED
  BY <1>1, TypeOKStep, PTL DEF Spec

-----------------------------------------------------------------------------
(* isEnabled() and getProperty('enabled') agree until setProperty writes   *)
(* 'enabled' (EnabledMirrorsProperty) for every snapshot set.  It is       *)
(* inductive only together with TypeOK: setProperty must keep the table's  *)
(* names, or the 'enabled' entry could move or vanish.                     *)
IInvEnabled == TypeOK /\ EnabledMirrorsProperty

THEOREM EnabledMirrored == Spec => []EnabledMirrorsProperty
<1>1. Init => IInvEnabled
  BY MaxConstructsAssumption DEF Init, IInvEnabled, TypeOK, EnabledMirrorsProperty
<1>2. IInvEnabled /\ [Next]_vars => IInvEnabled'
  <2> SUFFICES ASSUME TypeOK, EnabledMirrorsProperty, [Next]_vars
               PROVE  IInvEnabled'
    BY DEF IInvEnabled
  <2>1. TypeOK'
    BY TypeOKStep
  <2>2. ASSUME NEW s \in Snapshots, Construct(s) PROVE EnabledMirrorsProperty'
    <3>1. controller' = [properties |-> Resolve(s), enabled |-> ControllerEnabled(s)]
      BY <2>2 DEF Construct
    <3>2. ValueOf(controller'.properties, "enabled") = Resolve(s)[2].val
      BY <3>1, ResolveShape, EnabledEntry
    <3>. QED
      BY <3>1, <3>2, ResolveEnabled DEF EnabledMirrorsProperty, ControllerEnabled, Truthy
  <2>3. ASSUME NEW n \in PropNames, NEW v \in PropValues, SetProperty(n, v)
        PROVE  EnabledMirrorsProperty'
    <3>1. SUFFICES ASSUME n # "enabled", controller' # NoController, "enabled" \notin written'
                   PROVE  controller'.enabled = Truthy(ValueOf(controller'.properties, "enabled"))
      BY <2>3 DEF SetProperty, EnabledMirrorsProperty
    <3>2. controller # NoController /\ DOMAIN controller = {"properties", "enabled"}
      BY <2>3 DEF SetProperty, TypeOK
    <3>3. /\ controller'.properties = setProperty(controller.properties, n, v)
          /\ controller'.enabled = controller.enabled
      BY <2>3, <3>2 DEF SetProperty
    <3>4. /\ DOMAIN controller.properties = DOMAIN Registry
          /\ \A i \in DOMAIN Registry : controller.properties[i].name = Registry[i].name
      BY <3>2 DEF TypeOK
    <3>5. ValueOf(controller.properties, "enabled") = controller.properties[2].val
      BY <3>4, EnabledEntry
    <3>6. /\ DOMAIN controller'.properties = DOMAIN Registry
          /\ \A i \in DOMAIN Registry : controller'.properties[i].name = Registry[i].name
      BY <2>1, <3>1 DEF TypeOK
    <3>7. ValueOf(controller'.properties, "enabled") = controller'.properties[2].val
      BY <3>6, EnabledEntry
    <3>8. controller'.properties[2] = controller.properties[2]
      <4>1. 2 \in DOMAIN controller.properties /\ controller.properties[2].name # n
        BY <3>1, <3>4, RegistryFacts
      <4>. QED
        BY <3>3, <4>1 DEF setProperty
    <3>9. "enabled" \notin written
      BY <2>3, <3>1 DEF SetProperty
    <3>. QED
      BY <3>2, <3>3, <3>5, <3>7, <3>8, <3>9 DEF EnabledMirrorsProperty
  <2>4. CASE UNCHANGED vars
    BY <2>1, <2>4 DEF vars, EnabledMirrorsProperty, IInvEnabled
  <2>. QED
    BY <2>1, <2>2, <2>3, <2>4 DEF Next, IInvEnabled
<1>. QED
  BY <1>1, <1>2, PTL DEF Spec, IInvEnabled
-----------------------------------------------------------------------------
(* The class list of programs stays empty for every snapshot: __init__     *)
(* asks getProperty('num_programs'), and getProperty raises for every name *)
(* but the table's first, device_time, so the program loop of lines        *)
(* 152-164 is never reached.  The run assembler_programs shows the         *)
(* consequence on one snapshot (ProgramsDecoded violated); this is the     *)
(* general statement.                                                      *)
NoProgramsDecoded == controller_programs = << >>

THEOREM ProgramsNeverDecoded == Spec => []NoProgramsDecoded
<1>1. Init => NoProgramsDecoded
  BY DEF Init, NoProgramsDecoded
<1>2. NoProgramsDecoded /\ [Next]_vars => NoProgramsDecoded'
  <2> SUFFICES ASSUME NoProgramsDecoded, [Next]_vars PROVE NoProgramsDecoded'
    OBVIOUS
  <2>1. ASSUME NEW s \in Snapshots, Construct(s) PROVE NoProgramsDecoded'
    <3>1. Resolve(s)[1].name # "num_programs"
      BY ResolveShape, RegistryFacts
    <3>2. getProperty(Resolve(s), "num_programs").raised
      BY <3>1 DEF getProperty
    <3>. QED
      BY <2>1, <3>2 DEF Construct, NoProgramsDecoded
  <2>2. ASSUME NEW n \in PropNames, NEW v \in PropValues, SetProperty(n, v)
        PROVE  NoProgramsDecoded'
    BY <2>2 DEF SetProperty, NoProgramsDecoded
  <2>3. CASE UNCHANGED vars
    BY <2>3 DEF vars, NoProgramsDecoded
  <2>. QED
    BY <2>1, <2>2, <2>3 DEF Next
<1>. QED
  BY <1>1, <1>2, PTL DEF Spec
-----------------------------------------------------------------------------
(* Refinement: the table with its resolution loop and setProperty          *)
(* implements the dictionary of PropertyStore (PropertiesRefineStore).     *)

(* A table with the registry's names has each name at exactly the index   *)
(* the registry gives it: the names of the table are pairwise distinct.    *)
LEMMA NameIndex ==
  ASSUME NEW props, DOMAIN props = DOMAIN Registry,
         \A i \in DOMAIN Registry : props[i].name = Registry[i].name,
         NEW k \in DOMAIN Registry
  PROVE  (CHOOSE i \in DOMAIN props : props[i].name = Registry[k].name) = k
<1>1. \A i \in DOMAIN props : props[i].name = Registry[k].name <=> i = k
  BY RegistryFacts
<1>2. k \in DOMAIN props
  OBVIOUS
<1>. QED
  BY <1>1, <1>2, Zenon

(* Looking a registered name up in such a table finds its own entry.       *)
LEMMA ValueOfIndex ==
  ASSUME NEW props, DOMAIN props = DOMAIN Registry,
         \A i \in DOMAIN Registry : props[i].name = Registry[i].name,
         NEW k \in DOMAIN Registry
  PROVE  ValueOf(props, Registry[k].name) = props[k].val
BY NameIndex DEF ValueOf

(* The registry declares each of its names at that name's own index.      *)
LEMMA IdxIndex ==
  ASSUME NEW k \in DOMAIN Registry
  PROVE  Idx(Registry[k].name) = k
BY NameIndex DEF Idx

(* Every entry of the registry has a name and a value.                     *)
LEMMA RegistryEntries ==
  \A k \in DOMAIN Registry : {"name", "val"} \subseteq DOMAIN Registry[k]
<1>1. DOMAIN Registry = 1..7 /\ \A j \in 1..7 : {"name", "val"} \subseteq DOMAIN Registry[j]
  BY DEF Registry, Derived
<1>. QED
  BY <1>1

(* What resolution stores in one entry, and that the entry keeps its      *)
(* fields.                                                                 *)
LEMMA ResolveVal ==
  ASSUME NEW s, NEW k \in DOMAIN Registry
  PROVE  /\ Resolve(s)[k].val =
              IF Registry[k].source # Derived /\ Has(s, Registry[k].source, Registry[k].abbrev)
              THEN s[Registry[k].source][Registry[k].abbrev] ELSE Registry[k].val
         /\ DOMAIN Resolve(s)[k] = DOMAIN Registry[k]
<1>1. "val" \in DOMAIN Registry[k]
  BY RegistryEntries
<1>. QED
  BY <1>1 DEF Resolve

(* What setProperty stores in one entry, and that the entry keeps its     *)
(* fields.                                                                 *)
LEMMA SetPropertyVal ==
  ASSUME NEW props, NEW n, NEW v, NEW k \in DOMAIN props,
         "val" \in DOMAIN props[k]
  PROVE  /\ setProperty(props, n, v)[k].val = IF props[k].name = n THEN v ELSE props[k].val
         /\ DOMAIN setProperty(props, n, v)[k] = DOMAIN props[k]
BY DEF setProperty

(* PropertyStore extends PropertyRegistry: through the instance PS its     *)
(* table and helpers are the ones of this module.                          *)
LEMMA InstanceFacts ==
  /\ PS!Registry = Registry
  /\ PS!Derived = Derived
  /\ \A n : PS!Idx(n) = Idx(n)
  /\ PS!Names = Names
  /\ \A s, sec, key : PS!Has(s, sec, key) = Has(s, sec, key)
<1>1. PS!Registry = Registry
  BY Zenon DEF PS!Registry, Registry, PS!Derived, Derived
<1>2. PS!Derived = Derived
  BY DEF PS!Derived, Derived
<1>3. \A n : PS!Idx(n) = Idx(n)
  BY <1>1, Zenon DEF PS!Idx, Idx
<1>4. PS!Names = Names
  BY <1>1, Zenon DEF PS!Names, Names
<1>5. \A s, sec, key : PS!Has(s, sec, key) = Has(s, sec, key)
  BY DEF PS!Has, Has
<1>. QED
  BY <1>1, <1>2, <1>3, <1>4, <1>5

(* The mapping reads the newest controller once something was built, and  *)
(* reads each entry's value.                                               *)
IInvRefine ==
  /\ TypeOK
  /\ constructed = << >> => controller = NoController
  /\ controller # NoController =>
       \A k \in DOMAIN Registry : "val" \in DOMAIN controller.properties[k]

LEMMA IInvRefineInit == Init => IInvRefine
BY MaxConstructsAssumption DEF Init, IInvRefine, TypeOK

LEMMA IInvRefineStep == IInvRefine /\ [Next]_vars => IInvRefine'
<1> SUFFICES ASSUME IInvRefine, [Next]_vars PROVE IInvRefine'
  OBVIOUS
<1>1. TypeOK'
  BY TypeOKStep DEF IInvRefine
<1>2. ASSUME NEW s \in Snapshots, Construct(s) PROVE IInvRefine'
  <2>1. constructed' # << >>
    BY <1>2, AppendProperties DEF Construct, IInvRefine, TypeOK
  <2>2. controller'.properties = Resolve(s)
    BY <1>2 DEF Construct
  <2>3. \A k \in DOMAIN Registry : "val" \in DOMAIN controller'.properties[k]
    BY <2>2, ResolveVal, RegistryEntries
  <2>. QED
    BY <1>1, <2>1, <2>3 DEF IInvRefine
<1>3. ASSUME NEW n \in PropNames, NEW v \in PropValues, SetProperty(n, v) PROVE IInvRefine'
  <2>1. controller # NoController /\ DOMAIN controller = {"properties", "enabled"}
    BY <1>3 DEF SetProperty, IInvRefine, TypeOK
  <2>2. controller'.properties = setProperty(controller.properties, n, v)
    BY <1>3, <2>1 DEF SetProperty
  <2>3. DOMAIN controller.properties = DOMAIN Registry
        /\ \A k \in DOMAIN Registry : "val" \in DOMAIN controller.properties[k]
    BY <2>1 DEF IInvRefine, TypeOK
  <2>4. \A k \in DOMAIN Registry : "val" \in DOMAIN controller'.properties[k]
    BY <2>2, <2>3, SetPropertyVal
  <2>. QED
    BY <1>1, <1>3, <2>4 DEF SetProperty, IInvRefine
<1>4. CASE UNCHANGED vars
  BY <1>4 DEF vars, IInvRefine, TypeOK
<1>. QED
  BY <1>2, <1>3, <1>4 DEF Next

(* Before any construction the mapping gives the declared defaults.       *)
LEMMA StoreRefinementInit == Init => PS!Init
<1> SUFFICES ASSUME Init PROVE StoreOf = PS!Defaults
  BY DEF PS!Init
<1>. QED
  BY InstanceFacts DEF Init, StoreOf, PS!Defaults

(* One step of the assembler is a Load, a Write or a stutter of the       *)
(* property store it implements.                                           *)
LEMMA StoreRefinementStep == IInvRefine /\ [Next]_vars => [PS!Next]_StoreOf
<1> SUFFICES ASSUME IInvRefine, [Next]_vars PROVE [PS!Next]_StoreOf
  OBVIOUS
<1>1. ASSUME NEW s \in Snapshots, Construct(s) PROVE PS!Load(s)
  <2>1. constructed' # << >> /\ controller'.properties = Resolve(s)
    BY <1>1, AppendProperties DEF Construct, IInvRefine, TypeOK
  <2>2. ASSUME NEW k \in DOMAIN Registry
        PROVE  ValueOf(Resolve(s), Registry[k].name) = PS!Resolved(s, Registry[k].name)
    <3>1. ValueOf(Resolve(s), Registry[k].name) = Resolve(s)[k].val
      BY ResolveShape, ValueOfIndex
    <3>2. PS!Idx(Registry[k].name) = k
      BY IdxIndex, InstanceFacts
    <3>. QED
      BY <3>1, <3>2, ResolveVal, InstanceFacts DEF PS!Resolved
  <2>3. StoreOf' = [n \in Names |-> PS!Resolved(s, n)]
    BY <2>1, <2>2 DEF StoreOf, Names
  <2>. QED
    BY <2>3, InstanceFacts DEF PS!Load
<1>2. ASSUME NEW n \in PropNames, NEW v \in PropValues, SetProperty(n, v)
      PROVE  [PS!Next]_StoreOf
  <2> DEFINE P == controller.properties
  <2>1. controller # NoController /\ constructed # << >> /\ constructed' = constructed
    BY <1>2 DEF SetProperty, IInvRefine
  <2>2. /\ DOMAIN controller = {"properties", "enabled"}
        /\ DOMAIN P = DOMAIN Registry
        /\ \A i \in DOMAIN Registry : P[i].name = Registry[i].name
        /\ \A i \in DOMAIN Registry : "val" \in DOMAIN P[i]
    BY <2>1 DEF IInvRefine, TypeOK
  <2>3. controller'.properties = setProperty(P, n, v)
    BY <1>2, <2>2 DEF SetProperty
  <2>4. ASSUME NEW k \in DOMAIN Registry
        PROVE  StoreOf'[Registry[k].name] = IF Registry[k].name = n THEN v ELSE StoreOf[Registry[k].name]
    <3>1. StoreOf'[Registry[k].name] = ValueOf(setProperty(P, n, v), Registry[k].name)
      BY <2>1, <2>3 DEF StoreOf, Names
    <3>2. ValueOf(setProperty(P, n, v), Registry[k].name) = setProperty(P, n, v)[k].val
      BY <2>2, SetPropertyShape, ValueOfIndex
    <3>3. setProperty(P, n, v)[k].val = IF Registry[k].name = n THEN v ELSE P[k].val
      BY <2>2, SetPropertyVal
    <3>4. StoreOf[Registry[k].name] = P[k].val
      BY <2>1, <2>2, ValueOfIndex DEF StoreOf, Names
    <3>. QED
      BY <3>1, <3>2, <3>3, <3>4
  <2>5. DOMAIN StoreOf = Names /\ DOMAIN StoreOf' = Names
    BY DEF StoreOf
  <2>6. \A m \in Names : \E k \in DOMAIN Registry : m = Registry[k].name
    BY DEF Names
  <2>9. /\ StoreOf = [m \in Names |-> StoreOf[m]]
        /\ StoreOf' = [m \in Names |-> StoreOf'[m]]
    BY DEF StoreOf
  <2>7. CASE n \in Names
    <3>1. \A m \in Names : StoreOf'[m] = IF m = n THEN v ELSE StoreOf[m]
      BY <2>4, <2>6
    <3>2. [StoreOf EXCEPT ![n] = v] = [m \in Names |-> IF m = n THEN v ELSE StoreOf[m]]
      BY <2>9, <2>7
    <3>3. StoreOf' = [StoreOf EXCEPT ![n] = v]
      BY <2>9, <3>1, <3>2
    <3>. QED
      BY <2>7, <3>3, InstanceFacts DEF PS!Write, PS!Next
  <2>8. CASE n \notin Names
    <3>1. \A m \in Names : StoreOf'[m] = StoreOf[m]
      BY <2>4, <2>6, <2>8
    <3>. QED
      BY <2>9, <3>1
  <2>. QED
    BY <2>7, <2>8
<1>3. CASE UNCHANGED vars
  BY <1>3 DEF vars, StoreOf
<1>. QED
  BY <1>1, <1>2, <1>3 DEF Next, PS!Next

(* Spec => PS!Spec: the initial table maps to the declared defaults, a     *)
(* construction to a Load of its snapshot, setProperty on a registered    *)
(* name to a Write and on any other name to a stutter.                     *)
THEOREM StoreRefinement == Spec => PropertiesRefineStore
<1>1. Init => PS!Init
  BY StoreRefinementInit
<1>2. IInvRefine /\ [Next]_vars => [PS!Next]_StoreOf
  BY StoreRefinementStep
<1>. QED
  BY <1>1, <1>2, IInvRefineInit, IInvRefineStep, PTL DEF Spec, PropertiesRefineStore, PS!Spec
=============================================================================
